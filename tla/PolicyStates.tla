---------------------------- MODULE PolicyStates ----------------------------
(***************************************************************************)
(* What the visual editor of a policy promises its user: a policy is a set *)
(* of named states, each with a body, and one of them is the initial one.  *)
(* Each gesture adds, changes or removes one state or picks the initial    *)
(* one, and leaves the others as they are.                                 *)
(***************************************************************************)
CONSTANTS Names, Bodies, NoName

VARIABLES
  content,  \* the body of each state of the policy, by name
  default   \* the initial state, NoName in a policy without states

stateVars == <<content, default>>

NamesOf(c) == DOMAIN c
With(c, n, b) == [m \in NamesOf(c) \cup {n} |-> IF m = n THEN b ELSE c[m]]
Without(c, n) == [m \in NamesOf(c) \ {n} |-> c[m]]

\* A policy is empty or has an initial state.
Sound(c, d) == IF NamesOf(c) = {} THEN d = NoName ELSE d \in NamesOf(c)

Init == NamesOf(content) = {} /\ default = NoName

\* The policy to edit arrives.
Load ==
  /\ NamesOf(content) = {}
  /\ \E S \in SUBSET Names : content' \in [S -> Bodies]
  /\ Sound(content', default')

\* A new state; the first one becomes the initial state.
Add(n, b) ==
  /\ n \notin NamesOf(content)
  /\ content' = With(content, n, b)
  /\ default' = IF NamesOf(content) = {} THEN n ELSE default

\* Another name, another body, or both, for state m: it stays the initial state if it was.
Change(m, n, b) ==
  /\ m \in NamesOf(content) /\ (n = m \/ n \notin NamesOf(content))
  /\ content' = With(Without(content, m), n, b)
  /\ default' = IF default = m THEN n ELSE default

\* A state goes; if it was the initial one, another takes its place.
Remove(n) ==
  /\ n \in NamesOf(content)
  /\ content' = Without(content, n)
  /\ IF default = n THEN Sound(content', default') ELSE UNCHANGED default

Choose(n) ==
  /\ n \in NamesOf(content)
  /\ default' = n
  /\ UNCHANGED content

Next ==
  \/ Load
  \/ \E n \in Names, b \in Bodies : Add(n, b) \/ \E m \in Names : Change(m, n, b)
  \/ \E n \in Names : Remove(n) \/ Choose(n)

Spec == Init /\ [][Next]_stateVars

=============================================================================
