---------------------------- MODULE MCListPages ----------------------------
(* All the list pages on two clusters that hold the same two items.  The    *)
(* page is opened on the first of them, with the search that hits all.      *)
EXTENDS ListPages

CONSTANTS a, b

MCItems == {a, b}
MCSearches == {"all", "a"}
MCHits == [q \in MCSearches |-> IF q = "all" THEN MCItems ELSE {a}]

MCInit == Init /\ source = "local" /\ search = "all"
MCSpec == MCInit /\ [][Next]_vars /\ Fairness
=============================================================================
