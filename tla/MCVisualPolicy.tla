--------------------------- MODULE MCVisualPolicy ---------------------------
(* The visual policy editor for TLC: no name of a state is special.        *)
EXTENDS VisualPolicy, TLC

CONSTANTS a, b, c

NameSymmetry == Permutations(Names)

=============================================================================
