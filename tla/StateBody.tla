------------------------------ MODULE StateBody ------------------------------
(***************************************************************************)
(* The inside of the flyout that edits a state of an index policy: its     *)
(* lists of actions and transitions (CreateState), and the panels that add *)
(* or edit one of them (CreateAction, CreateTransition).  VisualPolicy     *)
(* models the rest of the visual editor and takes what happens here as one *)
(* step, EditBody.  Sources: src/public/pages/VisualCreatePolicy.          *)
(*                                                                         *)
(* A panel works on a draft and hands it back when it is saved, to be put  *)
(* at the place of the entry with a certain id.  Drafts are copies, but    *)
(* for one thing: the object that holds the settings of a shrink action is *)
(* never copied.  The policy's state, the list, the draft and, for a new   *)
(* action, the constant DEFAULT_SHRINK refer to the same object.           *)
(***************************************************************************)
EXTENDS Naturals, FiniteSets, Sequences, SequencesExt

CONSTANTS
  Inputs,      \* what an input may hold: values that are accepted
  Default,     \* the one of these it holds before anybody has typed
  Bad,         \* a value that is not accepted
  Gone,        \* a text that was cleared
  Kinds,       \* the kinds of actions that are offered
  MaxEntries,  \* bound: the actions of a state, and its transitions
  MaxStored,   \* bound: the actions and transitions of the state at first
  MaxPanels    \* bound: how often a panel is opened

VARIABLES
  objects,     \* per object: the settings of a shrink action
  stored,      \* the actions and transitions the policy has for the state
  lists,       \* the actions and transitions the flyout has
  panel,       \* what the flyout shows
  panels       \* how many panels there have been

bvars == <<objects, stored, lists, panel, panels>>

-----------------------------------------------------------------------------
(* The kinds of entries.  typed: there are inputs of its own.  keeps: when *)
(* one of these changes, timeout and retry stay.  shares: its settings are *)
(* an object that is changed in place.  first: what a new one holds.       *)

Kind(name, typed, keeps, shares, first) ==
  [name |-> name, typed |-> typed, keeps |-> keeps, shares |-> shares, first |-> first]

\* close, delete, open, read_only and read_write have no inputs.
Plain         == Kind("delete", FALSE, TRUE, FALSE, Default)
Alias         == Kind("alias", TRUE, TRUE, FALSE, Bad)
Allocation    == Kind("allocation", TRUE, TRUE, FALSE, Default)
Notification  == Kind("notification", TRUE, TRUE, FALSE, Default)
Rollup        == Kind("rollup", TRUE, TRUE, FALSE, Default)
ForceMerge    == Kind("force_merge", TRUE, FALSE, FALSE, Default)
IndexPriority == Kind("index_priority", TRUE, FALSE, FALSE, Default)
ReplicaCount  == Kind("replica_count", TRUE, FALSE, FALSE, Default)
Rollover      == Kind("rollover", TRUE, FALSE, FALSE, Default)
Snapshot      == Kind("snapshot", TRUE, FALSE, FALSE, Default)
Shrink        == Kind("shrink", TRUE, TRUE, TRUE, 0)
ActionKinds   ==
  {Plain, Alias, Allocation, Notification, Rollup, ForceMerge, IndexPriority,
   ReplicaCount, Rollover, Snapshot, Shrink}

\* A transition has a destination (body) and conditions (rest), both copied and
\* neither of them checked.
Transition == Kind("transition", TRUE, TRUE, FALSE, Bad)

ASSUME StateBodyAssumption ==
  /\ Default \in Inputs /\ Bad \notin Inputs /\ Gone \notin Inputs \cup {Bad}
  /\ Kinds \subseteq ActionKinds
  /\ MaxStored \in Nat /\ MaxEntries \in Nat /\ MaxStored <= MaxEntries
  /\ MaxPanels \in Nat

-----------------------------------------------------------------------------
(* The data.                                                               *)

\* DEFAULT_SHRINK.shrink, and one object for each shrink action of the policy.
Objects == 0 .. MaxStored
Settings == [shards: Inputs \cup {Bad}, text: Inputs]

\* An entry of a list: its settings (of a shrink action: its object), timeout
\* and retry, and the JSON texts of a shrink action, which only the editor has.
Typed == Inputs \cup {Bad}
HasObject(e) == e.kind.shares => e.body \in Objects
Entries(ks, texts) ==
  {e \in [id: Nat \ {0}, kind: ks, body: Typed \cup Objects, rest: Inputs, text: texts] :
     HasObject(e) /\ (e.text \in Inputs \/ e.kind.shares)}
NoEntry == [id |-> 0]

\* What the policy has of an entry.
Docs(ks) == {d \in [kind: ks, body: Typed \cup Objects, rest: Inputs] : HasObject(d)}

Lists_ == {"actions", "transitions"}
KindsOf(l) == IF l = "actions" THEN Kinds ELSE {Transition}

TextOf(e) == IF e.kind.shares THEN objects[e.body].text ELSE Default

\* makeId.  Mistake: the ids of two entries may be the same.
IdsOf(list) == {list[i].id : i \in DOMAIN list}
FreshIdAlways(ids) == 1
FreshId(ids) == CHOOSE id \in 1 .. Cardinality(ids) + 1 : id \notin ids

\* getUIActionFromData and the constructor of CreateState.
FromData(docs) ==
  [i \in DOMAIN docs |->
     [id |-> i, kind |-> docs[i].kind, body |-> docs[i].body, rest |-> docs[i].rest,
      text |-> TextOf(docs[i])]]

\* getUIAction, or the new transition of CreateTransition.
New(k, id) ==
  LET e == [id |-> id, kind |-> k, body |-> k.first, rest |-> Default, text |-> Default]
  IN [e EXCEPT !.text = TextOf(e)]

\* isValid; a transition is not checked.
Valid(e) ==
  \/ e.kind = Transition
  \/ e.kind.shares /\ objects[e.body].shards # Bad /\ e.text # Bad
  \/ ~ e.kind.shares /\ e.body # Bad

\* toAction, and the transition of an entry.
ToDocs(list) ==
  [i \in DOMAIN list |-> [kind |-> list[i].kind, body |-> list[i].body, rest |-> list[i].rest]]

\* toAction parses the texts into the object, one entry after the other.
Parsed(o) ==
  LET last == {i \in DOMAIN lists["actions"] :
                 LET Says(j) == LET e == lists["actions"][j] IN
                                  e.kind.shares /\ e.body = o /\ e.text # Gone
                 IN Says(i) /\ \A j \in DOMAIN lists["actions"] : Says(j) => j <= i}
  IN IF last = {} THEN objects[o]
     ELSE [objects[o] EXCEPT !.text = lists["actions"][CHOOSE i \in last : TRUE].text]

-----------------------------------------------------------------------------
(* The flyout.                                                             *)

\* view: "closed", "list", or the list whose panel is open.  at: the place of
\* the entry that was clicked (0: none), which the code does not keep.
Panel(view, edited, draft, at) ==
  [view |-> view, edited |-> edited, draft |-> draft, at |-> at]
Closed_ == Panel("closed", NoEntry, NoEntry, 0)
List_ == Panel("list", NoEntry, NoEntry, 0)

BodyInit ==
  /\ objects = [o \in Objects |-> [shards |-> Default, text |-> Default]]
  /\ stored \in [Lists_ -> UNION {[1 .. n -> UNION {Docs(KindsOf(l)) : l \in Lists_}] : n \in 0 .. MaxStored}]
  /\ \A l \in Lists_ : \A i \in DOMAIN stored[l] :
       LET d == stored[l][i] IN
       /\ d.kind \in KindsOf(l) /\ d.rest = Default
       /\ d.body = IF d.kind.shares THEN i ELSE Default
  /\ lists = [l \in Lists_ |-> <<>>]
  /\ panel = Closed_
  /\ panels = 0

OpenFlyout ==
  /\ panel = Closed_
  /\ lists' = [l \in Lists_ |-> FromData(stored[l])]
  /\ panel' = List_
  /\ UNCHANGED <<objects, stored, panels>>

\* onClickAddAction, onClickAddTransition, onClickEditAction and
\* onClickEditTransition.
OpenPanel(l, at) ==
  /\ panel = List_
  /\ panels < MaxPanels /\ panels' = panels + 1
  /\ \/ /\ at = 0 /\ Len(lists[l]) < MaxEntries
        /\ panel' = Panel(l, NoEntry,
             IF l = "actions" THEN NoEntry ELSE New(Transition, FreshId(IdsOf(lists[l]))), 0)
     \/ /\ at \in DOMAIN lists[l]
        /\ panel' = Panel(l, lists[l][at], lists[l][at], at)
  /\ UNCHANGED <<objects, stored, lists>>

\* onDragEndActions and onDragEndTransitions.
Move(l, i, j) ==
  /\ panel = List_
  /\ lists' = [lists EXCEPT ![l] = InsertAt(RemoveAt(@, i), j, @[i])]
  /\ UNCHANGED <<objects, stored, panel, panels>>

\* onClickDeleteAction and onClickDeleteTransition.
Delete(l, i) ==
  /\ panel = List_
  /\ lists' = [lists EXCEPT ![l] = RemoveAt(@, i)]
  /\ UNCHANGED <<objects, stored, panel, panels>>

SaveState_ ==
  /\ panel = List_
  /\ stored' = [l \in Lists_ |-> ToDocs(lists[l])]
  /\ objects' = [o \in Objects |-> Parsed(o)]
  /\ lists' = [l \in Lists_ |-> <<>>]
  /\ panel' = Closed_
  /\ UNCHANGED panels

\* Cancel in the flyout, or Escape at any time.
CloseFlyout ==
  /\ panel # Closed_
  /\ lists' = [l \in Lists_ |-> <<>>]
  /\ panel' = Closed_
  /\ UNCHANGED <<objects, stored, panels>>

-----------------------------------------------------------------------------
(* The panels.                                                             *)

HasDraft == panel.view \in Lists_ /\ panel.draft # NoEntry
Draft(d) == panel' = [panel EXCEPT !.draft = d]

\* onChangeSelectedAction.
SelectType(k) ==
  /\ panel.view = "actions"
  /\ panel.draft # NoEntry => panel.draft.kind # k
  /\ Draft(New(k, FreshId(IdsOf(lists["actions"]))))
  /\ UNCHANGED <<objects, stored, lists, panels>>

\* The inputs of an action, and the destination of a transition.
TypeInput(v) ==
  /\ HasDraft /\ panel.draft.kind.typed
  /\ IF panel.draft.kind.shares
     THEN /\ objects' = [objects EXCEPT ![panel.draft.body].shards = v]
          /\ UNCHANGED panel
     ELSE /\ Draft([panel.draft EXCEPT !.body = v,
                      !.rest = IF panel.draft.kind.keeps THEN @ ELSE Default])
          /\ UNCHANGED objects
  /\ UNCHANGED <<stored, lists, panels>>

\* The JSON texts of a shrink action.
TypeText(v) ==
  /\ HasDraft /\ panel.draft.kind.shares
  /\ Draft([panel.draft EXCEPT !.text = v])
  /\ UNCHANGED <<objects, stored, lists, panels>>

\* TimeoutRetrySettings, and the conditions of a transition.  clone takes the
\* texts from the object again.
TypeRest(v) ==
  /\ HasDraft
  /\ Draft([panel.draft EXCEPT !.rest = v, !.text = TextOf(panel.draft)])
  /\ UNCHANGED <<objects, stored, lists, panels>>

\* The id under which onClickSaveAction and onClickSaveTransition look for the
\* entry.  Mistake: an action is looked up by its own id.
SoughtOwn(l) == panel.draft.id
Sought(l) == IF l = "actions" THEN panel.edited.id ELSE panel.draft.id

SavePanel ==
  LET l == panel.view IN
  /\ HasDraft /\ Valid(panel.draft)
  /\ LET found == {i \in DOMAIN lists[l] : panel.edited # NoEntry /\ lists[l][i].id = Sought(l)}
     IN lists' = [lists EXCEPT ![l] =
          IF found = {} THEN Append(@, panel.draft)
          ELSE [@ EXCEPT ![CHOOSE i \in found : \A j \in found : i <= j] = panel.draft]]
  /\ panel' = List_
  /\ UNCHANGED <<objects, stored, panels>>

CancelPanel ==
  /\ panel.view \in Lists_
  /\ panel' = List_
  /\ UNCHANGED <<objects, stored, lists, panels>>

-----------------------------------------------------------------------------
BodyNext ==
  \/ OpenFlyout
  \/ \E l \in Lists_ : \E i \in DOMAIN lists[l] :
       \/ Delete(l, i)
       \/ \E j \in DOMAIN lists[l] \ {i} : Move(l, i, j)
  \/ \E l \in Lists_ : \E at \in {0} \cup DOMAIN lists[l] : OpenPanel(l, at)
  \/ SaveState_
  \/ CloseFlyout
  \/ \E k \in Kinds : SelectType(k)
  \/ \E v \in Typed : TypeInput(v)
  \/ \E v \in Typed \cup {Gone} : TypeText(v)
  \/ \E v \in Inputs : TypeRest(v)
  \/ SavePanel
  \/ CancelPanel

BodySpec == BodyInit /\ [][BodyNext]_bvars

-----------------------------------------------------------------------------
(* Properties.                                                             *)

\* Each entry and each draft is of a kind its list has.
AllKinds == Kinds \cup {Transition}
BodyTypeOK ==
  /\ objects \in [Objects -> Settings]
  /\ stored \in [Lists_ -> Seq(Docs(AllKinds))]
  /\ lists \in [Lists_ -> Seq(Entries(AllKinds, Inputs \cup {Gone}))]
  /\ \A l \in Lists_ :
       /\ \A i \in DOMAIN stored[l] : stored[l][i].kind \in KindsOf(l)
       /\ \A i \in DOMAIN lists[l] : lists[l][i].kind \in KindsOf(l)
  /\ panel \in [view: {"closed", "list"} \cup Lists_,
                edited: Entries(AllKinds, Inputs \cup {Gone}) \cup {NoEntry},
                draft: Entries(AllKinds, Typed \cup {Gone}) \cup {NoEntry}, at: Nat]
  /\ HasDraft => panel.draft.kind \in KindsOf(panel.view)
  /\ panels \in 0 .. MaxPanels

\* The ids of a list differ, and the entry under edit is where it was clicked:
\* an action whose type was changed has another id than the entry it is to replace.
IdsApart ==
  /\ \A l \in Lists_ : \A i, j \in DOMAIN lists[l] :
       lists[l][i].id = lists[l][j].id => i = j
  /\ panel.view \in Lists_ /\ panel.edited # NoEntry =>
       panel.at \in DOMAIN lists[panel.view] /\ lists[panel.view][panel.at] = panel.edited

\* While a panel is open its list stays, until the panel is saved: then the entry
\* that was clicked is replaced by the draft, or a new one comes to the end, and
\* no other entry of either list is touched.
EditHitsItsEntry ==
  [][panel.view \in Lists_ /\ panel'.view # "closed" =>
       \/ lists' = lists
       \/ lists' = [lists EXCEPT ![panel.view] =
                      IF panel.at = 0 THEN Append(@, panel.draft)
                      ELSE [@ EXCEPT ![panel.at] = panel.draft]]]_bvars

\* What the user reads of the entries of a list and of the policy.
Read(list) ==
  [i \in DOMAIN list |->
     <<list[i].kind, IF list[i].kind.shares THEN objects[list[i].body] ELSE list[i].body,
       list[i].rest>>]

\* What is done in a panel changes neither the actions of the flyout nor those of
\* the policy before it is saved ("they might click cancel", CreateAction.tsx).
DraftIsEphemeral ==
  [][panel.view = "actions" /\ panel'.view = "actions" =>
       /\ Read(stored["actions"])' = Read(stored["actions"])
       /\ Read(lists["actions"])' = Read(lists["actions"])]_bvars

=============================================================================
