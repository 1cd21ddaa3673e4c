---------------------------- MODULE VisualPolicy ----------------------------
(***************************************************************************)
(* The visual editor of an index policy: the page with the list of states  *)
(* (VisualCreatePolicy) and the flyout that adds or edits one state        *)
(* (CreateState).  Sources: src/public/pages/VisualCreatePolicy.           *)
(*                                                                         *)
(* The flyout copies the state it edits when it opens and checks the name  *)
(* while the user types, but saves against the list and the editingState   *)
(* the page holds at that moment.  In between the page may change them:    *)
(* the flyout does not cover the page, and the policy to edit may arrive   *)
(* late.  Background and EarlyActions say which of this the user does;     *)
(* "deleteOther" is to delete states the flyout does not refer to.         *)
(***************************************************************************)
EXTENDS Naturals, Sequences, SequencesExt

CONSTANTS
  Names,         \* names of states
  NoName,        \* the empty name
  MaxStates,     \* bound: the states of the policy to edit
  MaxBodies,     \* bound: how often the body of a state is edited
  Background,    \* what the user does on the page behind the open flyout
  EarlyActions   \* does the user act before the policy has arrived?

ASSUME VisualPolicyAssumption ==
  /\ NoName \notin Names
  /\ MaxStates \in Nat \ {0} /\ MaxBodies \in Nat
  /\ Background \subseteq {"edit", "delete", "deleteOther", "default"}
  /\ EarlyActions \in BOOLEAN

VARIABLES
  page,     \* "loading" (an edit page without its policy), "ready", "gone"
  policy,   \* the states, in order, and the name of the default state
  editing,  \* editingState: the state the page takes the flyout to edit
  flyout,   \* the state of CreateState
  bodies    \* how many bodies there have been

vars == <<page, policy, editing, flyout, bodies>>

-----------------------------------------------------------------------------
(* The data.  A body stands for the actions and transitions of a state.    *)

NewBody == 0
Bodies == 0 .. MaxStates + MaxBodies
States == [name: Names, body: Bodies]
NoState == [name |-> NoName, body |-> NewBody]

NamesIn(states) == {s.name : s \in Range(states)}

EmptyPolicy == [states |-> <<>>, default |-> NoName]

\* The policies a cluster holds: it takes no policy without states, with two
\* states of a name or without its default state.
PolicyOf(ns, d) ==
  [states |-> [i \in DOMAIN ns |-> [name |-> ns[i], body |-> i]], default |-> d]
StoredPolicies ==
  UNION {{PolicyOf(ns, d) : d \in Range(ns)} :
           ns \in {f \in UNION {[1 .. k -> Names] : k \in 1 .. MaxStates} : IsInjective(f)}}

Closed == [open |-> FALSE, name |-> NoName, nameError |-> FALSE, body |-> NewBody,
           order |-> "after", target |-> NoName, fixed |-> FALSE]

-----------------------------------------------------------------------------
(* utils/helpers.ts.                                                       *)

\* getOrderInfo for the i-th state (0: a new one): where the flyout offers to
\* put it.  Mistake: the first state is put after its neighbour, too.
OrderInfoAfter(i, states) ==
  [order  |-> "after",
   target |-> CASE i = 0 /\ states # <<>>    -> Last(states).name
                [] i = 1 /\ Len(states) > 1  -> states[2].name
                [] i > 1                     -> states[i - 1].name
                [] OTHER                     -> NoName,
   fixed  |-> Len(states) = IF i = 0 THEN 0 ELSE 1]
GetOrderInfo(i, states) ==
  [order  |-> IF i = 1 /\ Len(states) > 1 THEN "before" ELSE "after",
   target |-> CASE i = 0 /\ states # <<>>    -> Last(states).name
                [] i = 1 /\ Len(states) > 1  -> states[2].name
                [] i > 1                     -> states[i - 1].name
                [] OTHER                     -> NoName,
   fixed  |-> Len(states) = IF i = 0 THEN 0 ELSE 1]

\* getUpdatedStates: the edited state goes, the saved one comes next to target.
GetUpdatedStates(saved, edited, states, order, target) ==
  LET Saved(s, o) == IF s.name = target /\ order = o THEN <<saved>> ELSE <<>>
      Kept(s) == IF s.name # edited.name THEN <<s>> ELSE <<>>
  IN IF Len(states) = IF edited = NoState THEN 0 ELSE 1
     THEN <<saved>>
     ELSE FlattenSeq([i \in DOMAIN states |->
            Saved(states[i], "before") \o Kept(states[i]) \o Saved(states[i], "after")])

\* getUpdatedPolicy.  Mistake: the default state is not renamed.
UpdatedPolicyOldDefault(saved, edited, order, target) ==
  LET states == GetUpdatedStates(saved, edited, policy.states, order, target)
  IN [states |-> states,
      default |-> IF Len(states) = 1 THEN states[1].name ELSE policy.default]
GetUpdatedPolicy(saved, edited, order, target) ==
  LET states  == GetUpdatedStates(saved, edited, policy.states, order, target)
      default == IF Len(states) = 1 THEN states[1].name ELSE policy.default
  IN [states |-> states,
      default |-> IF edited # NoState /\ edited.name = default
                  THEN saved.name ELSE default]

-----------------------------------------------------------------------------
(* The page.                                                               *)

Init ==
  /\ page \in {"loading", "ready"}
  /\ policy = EmptyPolicy
  /\ editing = NoState
  /\ flyout = Closed
  /\ bodies = MaxStates

\* When the user acts, and what for while the flyout is open.
Acts == page = "ready" \/ (page = "loading" /\ EarlyActions)
Clicks(what) == Acts /\ (flyout.open => what \in Background)

\* The answer to getPolicy: it replaces the policy whatever the user did, or
\* the page goes back to the list.
GetPolicyToEdit ==
  /\ page = "loading"
  /\ \/ /\ page' = "ready"
        /\ policy' \in StoredPolicies
     \/ /\ page' = "gone"
        /\ UNCHANGED policy
  /\ UNCHANGED <<editing, flyout, bodies>>

\* The constructor of CreateState, for the i-th state or a new one.
Opened(i) ==
  LET info == GetOrderInfo(i, policy.states)
  IN [open |-> TRUE, nameError |-> FALSE,
      name |-> IF i = 0 THEN NoName ELSE policy.states[i].name,
      body |-> IF i = 0 THEN NewBody ELSE policy.states[i].body,
      order |-> info.order, target |-> info.target, fixed |-> info.fixed]

\* "Add state" (a click behind the open flyout changes nothing).
OnOpenFlyout ==
  /\ Acts /\ ~ flyout.open
  /\ flyout' = Opened(0)
  /\ UNCHANGED <<page, policy, editing, bodies>>

\* "Edit": an open flyout stays as it is, only editingState changes.
OnClickEditState(i) ==
  /\ Clicks("edit")
  /\ editing' = policy.states[i]
  /\ flyout' = IF flyout.open THEN flyout ELSE Opened(i)
  /\ UNCHANGED <<page, policy, bodies>>

\* The default state that takes over.  Mistake: the state, not its name.
FirstState(states) == IF states = <<>> THEN NoName ELSE Head(states)
FirstName(states) == IF states = <<>> THEN NoName ELSE Head(states).name

OnClickDeleteState(i) ==
  LET states == RemoveAt(policy.states, i) IN
  /\ \/ Clicks("delete")
     \/ Clicks("deleteOther") /\ policy.states[i].name \notin {editing.name, flyout.target}
  /\ policy' = [states |-> states,
                default |-> IF policy.default = policy.states[i].name
                            THEN FirstName(states) ELSE policy.default]
  /\ UNCHANGED <<page, editing, flyout, bodies>>

OnChangeDefaultState(n) ==
  /\ Clicks("default")
  /\ n \in NamesIn(policy.states)
  /\ policy' = [policy EXCEPT !.default = n]
  /\ UNCHANGED <<page, editing, flyout, bodies>>

-----------------------------------------------------------------------------
(* The flyout.                                                             *)

InFlyout == Acts /\ flyout.open

\* The error under the name.  Mistake: only a new state is checked.
TakenByNew(n) == editing = NoState /\ n \in NamesIn(policy.states)
Taken(n) == (editing = NoState \/ n # editing.name) /\ n \in NamesIn(policy.states)

OnChangeStateName(n) ==
  /\ InFlyout
  /\ flyout' = [flyout EXCEPT !.name = n, !.nameError = Taken(n)]
  /\ UNCHANGED <<page, policy, editing, bodies>>

\* The two selects.  The second one offers the states but the edited one.
OnChangeOrder(order, target) ==
  /\ InFlyout /\ ~ flyout.fixed
  /\ target \in {flyout.target} \cup (NamesIn(policy.states) \ {editing.name})
  /\ flyout' = [flyout EXCEPT !.order = order, !.target = target]
  /\ UNCHANGED <<page, policy, editing, bodies>>

\* Adding, editing, moving or deleting actions and transitions.
EditBody ==
  /\ InFlyout
  /\ bodies < MaxStates + MaxBodies
  /\ bodies' = bodies + 1
  /\ flyout' = [flyout EXCEPT !.body = bodies + 1]
  /\ UNCHANGED <<page, policy, editing>>

OnCloseFlyout ==
  /\ InFlyout
  /\ flyout' = Closed
  /\ editing' = NoState
  /\ UNCHANGED <<page, policy, bodies>>

\* onClickSaveState and onSaveState.
OnSaveState ==
  /\ InFlyout
  /\ flyout.name # NoName /\ ~ flyout.nameError
  /\ policy' = GetUpdatedPolicy([name |-> flyout.name, body |-> flyout.body],
                                editing, flyout.order, flyout.target)
  /\ flyout' = Closed
  /\ editing' = NoState
  /\ UNCHANGED <<page, bodies>>

-----------------------------------------------------------------------------
Next ==
  \/ GetPolicyToEdit
  \/ OnOpenFlyout
  \/ \E i \in DOMAIN policy.states : OnClickEditState(i) \/ OnClickDeleteState(i)
  \/ \E n \in Names : OnChangeDefaultState(n)
  \/ \E n \in Names \cup {NoName} : OnChangeStateName(n)
  \/ \E o \in {"after", "before"}, n \in Names : OnChangeOrder(o, n)
  \/ EditBody
  \/ OnCloseFlyout
  \/ OnSaveState

Spec == Init /\ [][Next]_vars

-----------------------------------------------------------------------------
(* Properties.                                                             *)

TypeOK ==
  /\ page \in {"loading", "ready", "gone"}
  /\ policy \in [states: Seq(States), default: Names \cup {NoName}]
  /\ editing \in States \cup {NoState}
  /\ flyout \in [open: BOOLEAN, name: Names \cup {NoName}, nameError: BOOLEAN,
                 body: Bodies, order: {"after", "before"},
                 target: Names \cup {NoName}, fixed: BOOLEAN]
  /\ bodies \in Bodies

\* No two states of the policy have one name: the name is checked while it is
\* typed, and the list it was checked against is the list it is saved to.
UniqueNames ==
  \A i, j \in DOMAIN policy.states :
    policy.states[i].name = policy.states[j].name => i = j

\* Saving an edited state without touching the order controls leaves every
\* state at its place: what getOrderInfo offers is where getUpdatedStates puts it.
EditInPlace ==
  \A i \in DOMAIN policy.states, n \in Names :
    LET info  == GetOrderInfo(i, policy.states)
        saved == [name |-> n, body |-> NewBody]
    IN GetUpdatedStates(saved, policy.states[i], policy.states, info.order, info.target)
         = [policy.states EXCEPT ![i] = saved]

\* What the list of states says of each name.
Content ==
  [n \in NamesIn(policy.states) |->
     (CHOOSE s \in Range(policy.states) : s.name = n).body]

Promised == INSTANCE PolicyStates WITH content <- Content, default <- policy.default

\* Every gesture of the user adds, changes or removes one state or picks the
\* default one, and no other state is lost, renamed or changed by it.
OneStateAtATime == Promised!Spec

=============================================================================
