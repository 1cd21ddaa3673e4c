---------------------------- MODULE MCPolicyDoc -----------------------------
(* The policy document for TLC.                                            *)
EXTENDS PolicyDoc

CONSTANTS p1, p2, r1, r2

=============================================================================
