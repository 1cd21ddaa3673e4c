--------------------------- MODULE MCPolicyEditor ---------------------------
(* The visual policy editor for TLC: its states, and the actions and        *)
(* transitions of one of them, each by itself.  part says which of the two  *)
(* this behaviour is about.                                                 *)
EXTENDS MCVisualPolicy, StateBody

CONSTANTS x, y

VARIABLE part

\* One kind of each sort: the others differ in their names.
MCKinds == {Rollover, Shrink}

\* The part that is not looked at has one initial state.
MCInit ==
    /\ Init /\ BodyInit /\ part \in {"states", "body"}
    /\ part = "body" => page = "ready"
    /\ part = "states" => stored = [l \in Lists_ |-> <<>>]

MCNext ==
    \/ part = "states" /\ Next /\ UNCHANGED <<part, bvars>>
    \/ part = "body" /\ BodyNext /\ UNCHANGED <<part, vars>>

MCSpec == MCInit /\ [][MCNext]_<<part, vars, bvars>>

\* The variables of both parts have their types.
EditorTypeOK == TypeOK /\ BodyTypeOK
=============================================================================
