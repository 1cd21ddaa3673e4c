--------------------------- MODULE StateBodyProofs ---------------------------
(***************************************************************************)
(* For any kinds of actions, any values and any number of entries: the     *)
(* lists of a state are well typed, the ids of a list differ, and saving a *)
(* panel touches the entry that was clicked and no other.                  *)
(*                                                                         *)
(* The code keeps no place of the entry under edit, only the entry itself: *)
(* that its id leads back to its place needs that the ids of a list differ *)
(* (IdsApart), and that stays so only if a draft has either the id of the  *)
(* entry under edit or one of no entry (DraftApart).                       *)
(***************************************************************************)
EXTENDS StateBody, SequenceFacts, FiniteSetTheorems

DraftApart ==
  panel.view \in Lists_ /\ panel.draft # NoEntry =>
    \/ panel.edited # NoEntry /\ panel.draft.id = panel.edited.id
    \/ /\ panel.draft.id \notin IdsOf(lists[panel.view])
       /\ panel.view = "actions" \/ panel.edited = NoEntry

Places == panel.view \in Lists_ => (panel.at = 0 <=> panel.edited = NoEntry)

BodyInv == BodyTypeOK /\ IdsApart /\ DraftApart /\ Places

-----------------------------------------------------------------------------
(* Ids.                                                                    *)

\* The ids of a list are finitely many, and FreshId is none of them.
LEMMA FreshIsNew ==
  ASSUME NEW S, NEW list \in Seq(S)
  PROVE  /\ FreshId(IdsOf(list)) \in Nat \ {0}
         /\ FreshId(IdsOf(list)) \notin IdsOf(list)
<1> DEFINE ids == IdsOf(list)
           f == [i \in 1 .. Len(list) |-> list[i].id]
<1>1. IsFiniteSet(ids)
  <2>1. IsFiniteSet(1 .. Len(list))
    BY FS_Interval
  <2>2. f \in Surjection(1 .. Len(list), ids)
    BY DEF Surjection, IdsOf
  <2>. QED  BY <2>1, <2>2, FS_Surjection
<1>2. Cardinality(ids) \in Nat
  BY <1>1, FS_CardinalityType
<1>3. \E id \in 1 .. Cardinality(ids) + 1 : id \notin ids
  <2>1. SUFFICES ASSUME 1 .. Cardinality(ids) + 1 \subseteq ids
                 PROVE  FALSE
    OBVIOUS
  <2>2. Cardinality(1 .. Cardinality(ids) + 1) = Cardinality(ids) + 1
    BY <1>2, FS_Interval
  <2>3. Cardinality(1 .. Cardinality(ids) + 1) <= Cardinality(ids)
    BY <1>1, <2>1, FS_Subset
  <2>. QED  BY <1>2, <2>2, <2>3
<1>. QED  BY <1>2, <1>3 DEF FreshId

-----------------------------------------------------------------------------
(* Types.                                                                  *)

Listed == Entries(AllKinds, Inputs \cup {Gone})
Drafts == Entries(AllKinds, Typed \cup {Gone})

\* What New needs to know of a kind.
LEMMA KindFacts ==
  ASSUME NEW k \in AllKinds
  PROVE  /\ k.shares \in BOOLEAN
         /\ k.shares => k.first \in Objects
         /\ k.first \in Typed \cup Objects
<1>1. k \in ActionKinds \cup {Transition}
  BY StateBodyAssumption DEF AllKinds
<1>2. \/ k \in {Plain, Allocation, Notification, Rollup, ForceMerge, IndexPriority,
                ReplicaCount, Rollover, Snapshot}
      \/ k \in {Alias, Transition}
      \/ k = Shrink
  BY <1>1 DEF ActionKinds
<1>3. CASE k \in {Plain, Allocation, Notification, Rollup, ForceMerge, IndexPriority,
                 ReplicaCount, Rollover, Snapshot}
  <2>1. k.shares = FALSE /\ k.first = Default
    BY <1>3 DEF Kind, Plain, Allocation, Notification, Rollup, ForceMerge, IndexPriority,
                ReplicaCount, Rollover, Snapshot
  <2>. QED  BY <2>1, StateBodyAssumption DEF Typed
<1>4. CASE k \in {Alias, Transition}
  <2>1. k.shares = FALSE /\ k.first = Bad
    BY <1>4 DEF Kind, Alias, Transition
  <2>. QED  BY <2>1 DEF Typed
<1>5. CASE k = Shrink
  <2>1. k.shares = TRUE /\ k.first = 0
    BY <1>5 DEF Kind, Shrink
  <2>2. 0 \in Objects
    BY StateBodyAssumption DEF Objects
  <2>. QED  BY <2>1, <2>2
<1>. QED  BY <1>2, <1>3, <1>4, <1>5

LEMMA NewEntry ==
  ASSUME BodyTypeOK, NEW k \in AllKinds, NEW id \in Nat \ {0}
  PROVE  /\ New(k, id) \in Listed
         /\ New(k, id) \in Drafts
         /\ New(k, id).id = id /\ New(k, id).kind = k
<1>1. New(k, id) = [id |-> id, kind |-> k, body |-> k.first, rest |-> Default,
                    text |-> IF k.shares THEN objects[k.first].text ELSE Default]
  BY DEF New, TextOf
<1>2. k.shares => objects[k.first].text \in Inputs
  BY KindFacts DEF BodyTypeOK, Settings
<1>3. Default \in Inputs
  BY StateBodyAssumption
<1>. QED  BY <1>1, <1>2, <1>3, KindFacts DEF Listed, Drafts, Entries, HasObject, Typed

\* The kinds of the entries of each list, and the length of the lists.
LEMMA ListFacts ==
  ASSUME BodyTypeOK, NEW l \in Lists_
  PROVE  /\ lists[l] \in Seq(Listed) /\ Len(lists[l]) \in Nat
         /\ DOMAIN lists[l] = 1 .. Len(lists[l])
         /\ \A i \in 1 .. Len(lists[l]) :
              lists[l][i] \in Listed /\ lists[l][i].kind \in KindsOf(l)
<1>1. lists[l] \in Seq(Listed)
  BY DEF BodyTypeOK, Listed
<1>2. Len(lists[l]) \in Nat /\ DOMAIN lists[l] = 1 .. Len(lists[l])
  BY <1>1, LenProperties
<1>3. \A i \in 1 .. Len(lists[l]) : lists[l][i] \in Listed
  BY <1>1, ElementOfSeq
<1>. QED  BY <1>1, <1>2, <1>3 DEF BodyTypeOK

LEMMA KindsOfLists ==
  /\ \A l \in Lists_ : KindsOf(l) \subseteq AllKinds
  /\ KindsOf("actions") = Kinds /\ KindsOf("transitions") = {Transition}
BY DEF KindsOf, Lists_, AllKinds

LEMMA ListedAreDrafts == Listed \subseteq Drafts /\ NoEntry \notin Drafts
<1>1. Inputs \cup {Gone} \subseteq Typed \cup {Gone}
  BY DEF Typed
<1>2. \A e \in Drafts : e.id # 0
  BY DEF Drafts, Entries
<1>. QED  BY <1>1, <1>2 DEF Listed, Drafts, Entries, NoEntry

\* A list that is replaced by one of the same kind.
LEMMA ListReplaced ==
  ASSUME BodyTypeOK, NEW l \in Lists_, NEW t \in Seq(Listed),
         \A i \in 1 .. Len(t) : t[i].kind \in KindsOf(l),
         lists' = [lists EXCEPT ![l] = t],
         UNCHANGED <<objects, stored, panels>>,
         panel' \in [view: {"closed", "list"} \cup Lists_, edited: Listed \cup {NoEntry},
                    draft: Drafts \cup {NoEntry}, at: Nat],
         HasDraft' => panel.draft'.kind \in KindsOf(panel.view')
  PROVE  BodyTypeOK'
<1>1. lists' \in [Lists_ -> Seq(Listed)]
  BY DEF BodyTypeOK, Listed
<1>2. \A m \in Lists_ : \A i \in DOMAIN lists'[m] : lists'[m][i].kind \in KindsOf(m)
  <2>. SUFFICES ASSUME NEW m \in Lists_, NEW i \in DOMAIN lists'[m]
                PROVE  lists'[m][i].kind \in KindsOf(m)
    OBVIOUS
  <2>1. CASE m = l
    <3>1. lists'[m] = t /\ DOMAIN t = 1 .. Len(t)
      BY <2>1, LenProperties DEF BodyTypeOK
    <3>. QED  BY <2>1, <3>1
  <2>2. CASE m # l
    BY <2>2 DEF BodyTypeOK
  <2>. QED  BY <2>1, <2>2
<1>. QED  BY <1>1, <1>2 DEF BodyTypeOK, Listed, Drafts, HasDraft

\* A panel that changes by itself.
LEMMA PanelChanged ==
  ASSUME BodyTypeOK, UNCHANGED <<objects, stored, lists>>, panels' \in 0 .. MaxPanels,
         panel' \in [view: {"closed", "list"} \cup Lists_, edited: Listed \cup {NoEntry},
                    draft: Drafts \cup {NoEntry}, at: Nat],
         HasDraft' => panel.draft'.kind \in KindsOf(panel.view')
  PROVE  BodyTypeOK'
BY DEF BodyTypeOK, Listed, Drafts, HasDraft

\* Nothing is in the flyout that is closed.
LEMMA FlyoutClosed ==
  ASSUME BodyTypeOK, lists' = [l \in Lists_ |-> <<>>], panel' = Closed_, UNCHANGED panels,
         objects' \in [Objects -> Settings],
         stored' \in [Lists_ -> Seq(Docs(AllKinds))],
         \A l \in Lists_ : \A i \in DOMAIN stored'[l] : stored'[l][i].kind \in KindsOf(l)
  PROVE  BodyTypeOK'
<1>1. lists' \in [Lists_ -> Seq(Listed)] /\ \A l \in Lists_ : DOMAIN lists'[l] = {}
  <2>1. <<>> \in Seq(Listed) /\ DOMAIN <<>> = {}
    BY EmptySeq, LenProperties
  <2>. QED  BY <2>1
<1>2. panel' \in [view: {"closed", "list"} \cup Lists_, edited: Listed \cup {NoEntry},
                 draft: Drafts \cup {NoEntry}, at: Nat]
  BY DEF Closed_, Panel
<1>3. ~ HasDraft'
  BY DEF Closed_, Panel, HasDraft, Lists_
<1>. QED  BY <1>1, <1>2, <1>3 DEF BodyTypeOK, Listed, Drafts, HasDraft

\* The lists of a policy that is loaded have their own kinds.
LEMMA TypeInit == BodyInit => BodyTypeOK
<1>. SUFFICES ASSUME BodyInit PROVE BodyTypeOK
  OBVIOUS
<1>1. objects \in [Objects -> Settings]
  BY StateBodyAssumption DEF BodyInit, Settings
<1>2. \A l \in Lists_ : stored[l] \in Seq(Docs(AllKinds))
  <2>. SUFFICES ASSUME NEW l \in Lists_ PROVE stored[l] \in Seq(Docs(AllKinds))
    OBVIOUS
  <2>1. PICK n \in 0 .. MaxStored : stored[l] \in [1 .. n -> UNION {Docs(KindsOf(m)) : m \in Lists_}]
    BY DEF BodyInit
  <2>2. UNION {Docs(KindsOf(m)) : m \in Lists_} \subseteq Docs(AllKinds)
    BY KindsOfLists DEF Docs
  <2>3. stored[l] \in [1 .. n -> Docs(AllKinds)]
    BY <2>1, <2>2
  <2>4. n \in Nat
    BY StateBodyAssumption
  <2>. QED  BY <2>3, <2>4, SeqDef
<1>3. stored = [l \in Lists_ |-> stored[l]]
  BY DEF BodyInit
<1>4. stored \in [Lists_ -> Seq(Docs(AllKinds))]
  BY <1>2, <1>3
<1>5. \A l \in Lists_ : \A i \in DOMAIN stored[l] : stored[l][i].kind \in KindsOf(l)
  BY DEF BodyInit
<1>6. lists \in [Lists_ -> Seq(Listed)] /\ \A l \in Lists_ : DOMAIN lists[l] = {}
  <2>1. <<>> \in Seq(Listed) /\ DOMAIN <<>> = {}
    BY EmptySeq, LenProperties
  <2>. QED  BY <2>1 DEF BodyInit
<1>7. /\ panel \in [view: {"closed", "list"} \cup Lists_, edited: Listed \cup {NoEntry},
                    draft: Drafts \cup {NoEntry}, at: Nat]
      /\ ~ HasDraft
  BY DEF BodyInit, Closed_, Panel, HasDraft, Lists_
<1>8. panels \in 0 .. MaxPanels
  BY StateBodyAssumption DEF BodyInit
<1>. QED  BY <1>1, <1>4, <1>5, <1>6, <1>7, <1>8 DEF BodyTypeOK, Listed, Drafts

\* An entry of the flyout is made from what the policy has.
LEMMA FromDataTyped ==
  ASSUME BodyTypeOK, NEW l \in Lists_
  PROVE  /\ FromData(stored[l]) \in Seq(Listed)
         /\ DOMAIN FromData(stored[l]) = DOMAIN stored[l]
         /\ \A i \in DOMAIN stored[l] :
              /\ FromData(stored[l])[i].kind \in KindsOf(l)
              /\ FromData(stored[l])[i].id = i
<1>1. stored[l] \in Seq(Docs(AllKinds))
  BY DEF BodyTypeOK
<1>2. Len(stored[l]) \in Nat /\ DOMAIN stored[l] = 1 .. Len(stored[l])
  BY <1>1, LenProperties
<1>. DEFINE e(i) == [id |-> i, kind |-> stored[l][i].kind, body |-> stored[l][i].body,
                     rest |-> stored[l][i].rest, text |-> TextOf(stored[l][i])]
<1>3. ASSUME NEW i \in 1 .. Len(stored[l])
      PROVE  e(i) \in Listed
  <2>1. stored[l][i] \in Docs(AllKinds)
    BY <1>1, ElementOfSeq
  <2>2. stored[l][i].kind.shares => objects[stored[l][i].body].text \in Inputs
    BY <2>1 DEF Docs, HasObject, BodyTypeOK, Settings
  <2>3. TextOf(stored[l][i]) \in Inputs
    BY <2>2, StateBodyAssumption DEF TextOf
  <2>4. i \in Nat \ {0}
    BY <1>2
  <2>. QED  BY <2>1, <2>3, <2>4 DEF Docs, HasObject, Listed, Entries
<1>4. FromData(stored[l]) = [i \in 1 .. Len(stored[l]) |-> e(i)]
  BY <1>2 DEF FromData
<1>5. FromData(stored[l]) \in Seq(Listed)
  BY <1>2, <1>3, <1>4, IsASeq
<1>6. \A i \in DOMAIN stored[l] : stored[l][i].kind \in KindsOf(l)
  BY DEF BodyTypeOK
<1>. QED  BY <1>2, <1>4, <1>5, <1>6

LEMMA TypeOpenFlyout == BodyTypeOK /\ OpenFlyout => BodyTypeOK'
<1>. SUFFICES ASSUME BodyTypeOK, OpenFlyout PROVE BodyTypeOK'
  OBVIOUS
<1>1. lists' \in [Lists_ -> Seq(Listed)]
  BY FromDataTyped DEF OpenFlyout
<1>2. \A l \in Lists_ : \A i \in DOMAIN lists'[l] : lists'[l][i].kind \in KindsOf(l)
  BY FromDataTyped DEF OpenFlyout
<1>3. /\ panel' \in [view: {"closed", "list"} \cup Lists_, edited: Listed \cup {NoEntry},
                     draft: Drafts \cup {NoEntry}, at: Nat]
      /\ ~ HasDraft'
  BY DEF OpenFlyout, List_, Panel, HasDraft, Lists_
<1>. QED  BY <1>1, <1>2, <1>3 DEF BodyTypeOK, Listed, Drafts, OpenFlyout

LEMMA TypeOpenPanel ==
  ASSUME BodyTypeOK, NEW l \in Lists_, NEW at \in {0} \cup DOMAIN lists[l], OpenPanel(l, at)
  PROVE  BodyTypeOK'
<1>1. panels' \in 0 .. MaxPanels
  BY StateBodyAssumption DEF BodyTypeOK, OpenPanel
<1>2. CASE at = 0 /\ l = "actions"
  <2>1. panel' = Panel(l, NoEntry, NoEntry, 0)
    BY <1>2, ListFacts DEF OpenPanel
  <2>. QED  BY <1>1, <2>1, PanelChanged DEF OpenPanel, Panel, HasDraft
<1>3. CASE at = 0 /\ l = "transitions"
  <2>. DEFINE id == FreshId(IdsOf(lists[l]))
  <2>1. panel' = Panel(l, NoEntry, New(Transition, id), 0)
    BY <1>3, ListFacts DEF OpenPanel
  <2>2. id \in Nat \ {0}
    BY ListFacts, FreshIsNew
  <2>. HIDE DEF id
  <2>3. New(Transition, id) \in Drafts /\ New(Transition, id).kind = Transition
    BY <2>2, NewEntry DEF AllKinds
  <2>4. New(Transition, id).kind \in KindsOf(l)
    BY <1>3, <2>3, KindsOfLists
  <2>. QED  BY <1>1, <2>1, <2>3, <2>4, PanelChanged DEF OpenPanel, Panel, HasDraft
<1>4. CASE at # 0
  <2>1. at \in Nat /\ lists[l][at] \in Listed /\ lists[l][at] \in Drafts
        /\ lists[l][at].kind \in KindsOf(l)
    BY <1>4, ListFacts, ListedAreDrafts
  <2>2. panel' = Panel(l, lists[l][at], lists[l][at], at)
    BY <1>4 DEF OpenPanel
  <2>. QED  BY <1>1, <2>1, <2>2, PanelChanged DEF OpenPanel, Panel, HasDraft
<1>. QED  BY <1>2, <1>3, <1>4 DEF Lists_

LEMMA PanelKept ==
  ASSUME BodyTypeOK, UNCHANGED panel
  PROVE  /\ panel' \in [view: {"closed", "list"} \cup Lists_, edited: Listed \cup {NoEntry},
                       draft: Drafts \cup {NoEntry}, at: Nat]
         /\ HasDraft' => panel.draft'.kind \in KindsOf(panel.view')
BY DEF BodyTypeOK, HasDraft, Listed, Drafts

\* An entry of a list is moved.
LEMMA MovedEntry ==
  ASSUME BodyTypeOK, NEW l \in Lists_, NEW i \in DOMAIN lists[l], NEW j \in DOMAIN lists[l]
  PROVE  LET s == lists[l]
             t == InsertAt(RemoveAt(s, i), j, s[i])
         IN /\ t \in Seq(Listed) /\ Len(t) = Len(s)
            /\ \A k \in 1 .. Len(s) : From(i, j, k) \in 1 .. Len(s) /\ t[k] = s[From(i, j, k)]
<1>. DEFINE s == lists[l]
<1>1. s \in Seq(Listed) /\ i \in 1 .. Len(s) /\ j \in 1 .. Len(s)
  BY ListFacts
<1>2. s \in Seq(Listed) => \A p, q \in 1 .. Len(s) :
        LET t == InsertAt(RemoveAt(s, p), q, s[p])
        IN /\ t \in Seq(Listed) /\ Len(t) = Len(s)
           /\ \A k \in 1 .. Len(s) : From(p, q, k) \in 1 .. Len(s) /\ t[k] = s[From(p, q, k)]
  <2>. HIDE DEF s
  <2>. SUFFICES ASSUME s \in Seq(Listed), NEW p \in 1 .. Len(s), NEW q \in 1 .. Len(s)
                PROVE  LET t == InsertAt(RemoveAt(s, p), q, s[p])
                       IN /\ t \in Seq(Listed) /\ Len(t) = Len(s)
                          /\ \A k \in 1 .. Len(s) :
                               From(p, q, k) \in 1 .. Len(s) /\ t[k] = s[From(p, q, k)]
                  OBVIOUS
  <2>. QED  BY Moved
<1>. QED  BY <1>1, <1>2

LEMMA TypeMove ==
  ASSUME BodyTypeOK, NEW l \in Lists_, NEW i \in DOMAIN lists[l], NEW j \in DOMAIN lists[l],
         Move(l, i, j)
  PROVE  BodyTypeOK'
<1>. DEFINE s == lists[l]
            t == InsertAt(RemoveAt(s, i), j, s[i])
<1>1. /\ t \in Seq(Listed) /\ Len(t) = Len(s)
      /\ \A k \in 1 .. Len(s) : From(i, j, k) \in 1 .. Len(s) /\ t[k] = s[From(i, j, k)]
  BY MovedEntry
<1>2. lists' = [lists EXCEPT ![l] = t]
  BY DEF Move
<1>. HIDE DEF t
<1>3. \A k \in 1 .. Len(t) : t[k].kind \in KindsOf(l)
  BY <1>1, ListFacts
<1>4. UNCHANGED <<objects, stored, panels, panel>>
  BY DEF Move
<1>. QED  BY <1>1, <1>2, <1>3, <1>4, PanelKept, ListReplaced

LEMMA TypeDelete ==
  ASSUME BodyTypeOK, NEW l \in Lists_, NEW i \in DOMAIN lists[l], Delete(l, i)
  PROVE  BodyTypeOK'
<1>. DEFINE s == lists[l]
            t == RemoveAt(s, i)
<1>1. s \in Seq(Listed) /\ i \in 1 .. Len(s) /\ Len(s) \in Nat
  BY ListFacts
<1>2. /\ t \in Seq(Listed) /\ Len(t) = Len(s) - 1
      /\ \A k \in 1 .. Len(s) - 1 : t[k] = IF k < i THEN s[k] ELSE s[k + 1]
  BY <1>1, RemovedAt
<1>3. lists' = [lists EXCEPT ![l] = t]
  BY DEF Delete
<1>. HIDE DEF t
<1>4. ASSUME NEW k \in 1 .. Len(t) PROVE t[k].kind \in KindsOf(l)
  <2>1. k \in 1 .. Len(s) /\ k + 1 \in 1 .. Len(s) /\ (t[k] = s[k] \/ t[k] = s[k + 1])
    BY <1>1, <1>2
  <2>. QED  BY <2>1, ListFacts
<1>5. UNCHANGED <<objects, stored, panels, panel>>
  BY DEF Delete
<1>. QED  BY <1>2, <1>3, <1>4, <1>5, PanelKept, ListReplaced

\* What is saved is what the lists hold; a text that is parsed into an object is not empty.
LEMMA TypeSaveState == BodyTypeOK /\ SaveState_ => BodyTypeOK'
<1>. SUFFICES ASSUME BodyTypeOK, SaveState_ PROVE BodyTypeOK'
  OBVIOUS
<1>1. ASSUME NEW l \in Lists_
      PROVE  /\ ToDocs(lists[l]) \in Seq(Docs(AllKinds))
             /\ \A i \in DOMAIN ToDocs(lists[l]) : ToDocs(lists[l])[i].kind \in KindsOf(l)
  <2>. DEFINE d(i) == [kind |-> lists[l][i].kind, body |-> lists[l][i].body,
                       rest |-> lists[l][i].rest]
  <2>1. ToDocs(lists[l]) = [i \in 1 .. Len(lists[l]) |-> d(i)]
    BY ListFacts DEF ToDocs
  <2>2. \A i \in 1 .. Len(lists[l]) : d(i) \in Docs(AllKinds) /\ d(i).kind \in KindsOf(l)
    BY ListFacts DEF Listed, Entries, Docs, HasObject
  <2>3. Len(lists[l]) \in Nat
    BY ListFacts
  <2>. HIDE DEF d
  <2>. QED  BY <2>1, <2>2, <2>3, IsASeq
<1>2. ASSUME NEW o \in Objects
      PROVE  Parsed(o) \in Settings
  <2>. DEFINE Says(j) == LET e == lists["actions"][j] IN
                           e.kind.shares /\ e.body = o /\ e.text # Gone
              last == {i \in DOMAIN lists["actions"] :
                         Says(i) /\ \A j \in DOMAIN lists["actions"] : Says(j) => j <= i}
  <2>1. objects[o] \in Settings
    BY DEF BodyTypeOK
  <2>2. CASE last = {}
    BY <2>1, <2>2 DEF Parsed
  <2>3. CASE last # {}
    <3>. DEFINE c == CHOOSE i \in last : TRUE
    <3>1. c \in last
      BY <2>3
    <3>2. c \in 1 .. Len(lists["actions"]) /\ Says(c)
      BY <3>1, ListFacts DEF Lists_
    <3>3. lists["actions"][c].text \in Inputs
      BY <3>2, ListFacts DEF Lists_, Listed, Entries
    <3>4. Parsed(o) = [objects[o] EXCEPT !.text = lists["actions"][c].text]
      BY <2>3 DEF Parsed
    <3>. HIDE DEF c
    <3>. QED  BY <2>1, <3>3, <3>4 DEF Settings
  <2>. QED  BY <2>2, <2>3
<1>3. objects' \in [Objects -> Settings]
  BY <1>2 DEF SaveState_
<1>4. stored' \in [Lists_ -> Seq(Docs(AllKinds))]
  BY <1>1 DEF SaveState_
<1>5. \A l \in Lists_ : \A i \in DOMAIN stored'[l] : stored'[l][i].kind \in KindsOf(l)
  BY <1>1 DEF SaveState_
<1>. QED  BY <1>3, <1>4, <1>5, FlyoutClosed DEF SaveState_

LEMMA TypeCloseFlyout == BodyTypeOK /\ CloseFlyout => BodyTypeOK'
BY FlyoutClosed DEF CloseFlyout, BodyTypeOK

\* A draft that changes is a draft of a kind of its list.
LEMMA DraftChanged ==
  ASSUME BodyTypeOK, NEW d \in Drafts, panel.view \in Lists_, d.kind \in KindsOf(panel.view),
         Draft(d), UNCHANGED <<objects, stored, lists, panels>>
  PROVE  BodyTypeOK'
<1>1. /\ panel' \in [view: {"closed", "list"} \cup Lists_, edited: Listed \cup {NoEntry},
                     draft: Drafts \cup {NoEntry}, at: Nat]
      /\ panel'.view = panel.view /\ panel'.draft = d
  BY DEF BodyTypeOK, Draft, Listed, Drafts
<1>. QED  BY <1>1, PanelChanged DEF HasDraft, BodyTypeOK

LEMMA DraftFacts ==
  ASSUME BodyTypeOK, HasDraft
  PROVE  panel.draft \in Drafts /\ panel.draft.kind \in KindsOf(panel.view)
BY DEF BodyTypeOK, HasDraft, Drafts

LEMMA TypeSelectType ==
  ASSUME BodyTypeOK, NEW k \in Kinds, SelectType(k)
  PROVE  BodyTypeOK'
<1>. DEFINE id == FreshId(IdsOf(lists["actions"]))
<1>1. id \in Nat \ {0}
  BY ListFacts, FreshIsNew DEF Lists_
<1>2. Draft(New(k, id))
  BY DEF SelectType
<1>. HIDE DEF id
<1>3. New(k, id) \in Drafts /\ New(k, id).kind = k
  BY <1>1, NewEntry DEF AllKinds
<1>4. panel.view \in Lists_ /\ New(k, id).kind \in KindsOf(panel.view)
  BY <1>3, KindsOfLists DEF SelectType, Lists_
<1>. QED  BY <1>2, <1>3, <1>4, DraftChanged DEF SelectType

LEMMA TypeTypeInput ==
  ASSUME BodyTypeOK, NEW v \in Typed, TypeInput(v)
  PROVE  BodyTypeOK'
<1>1. panel.draft \in Drafts /\ panel.draft.kind \in KindsOf(panel.view)
      /\ panel.view \in Lists_
  BY DraftFacts DEF TypeInput, HasDraft
<1>2. CASE panel.draft.kind.shares
  <2>1. /\ objects' = [objects EXCEPT ![panel.draft.body].shards = v]
        /\ panel.draft.body \in Objects
    BY <1>1, <1>2 DEF TypeInput, Drafts, Entries, HasObject
  <2>2. objects' \in [Objects -> Settings]
    BY <2>1 DEF BodyTypeOK, Settings, Typed
  <2>. QED  BY <1>2, <2>2 DEF TypeInput, BodyTypeOK, HasDraft
<1>3. CASE ~ panel.draft.kind.shares
  <2>. DEFINE d == [panel.draft EXCEPT !.body = v,
                      !.rest = IF panel.draft.kind.keeps THEN @ ELSE Default]
  <2>1. Draft(d) /\ UNCHANGED <<objects, stored, lists, panels>>
    BY <1>3 DEF TypeInput
  <2>2. d \in Drafts /\ d.kind = panel.draft.kind
    BY <1>1, <1>3, StateBodyAssumption DEF Drafts, Entries, HasObject
  <2>. HIDE DEF d
  <2>. QED  BY <1>1, <2>1, <2>2, DraftChanged
<1>. QED  BY <1>2, <1>3

LEMMA TypeTypeText ==
  ASSUME BodyTypeOK, NEW v \in Typed \cup {Gone}, TypeText(v)
  PROVE  BodyTypeOK'
<1>. DEFINE d == [panel.draft EXCEPT !.text = v]
<1>1. panel.draft \in Drafts /\ panel.draft.kind \in KindsOf(panel.view)
      /\ panel.view \in Lists_ /\ panel.draft.kind.shares
  BY DraftFacts DEF TypeText, HasDraft
<1>2. d \in Drafts /\ d.kind = panel.draft.kind
  BY <1>1 DEF Drafts, Entries, HasObject
<1>3. Draft(d) /\ UNCHANGED <<objects, stored, lists, panels>>
  BY DEF TypeText
<1>. HIDE DEF d
<1>. QED  BY <1>1, <1>2, <1>3, DraftChanged

LEMMA TypeTypeRest ==
  ASSUME BodyTypeOK, NEW v \in Inputs, TypeRest(v)
  PROVE  BodyTypeOK'
<1>. DEFINE x == TextOf(panel.draft)
            d == [panel.draft EXCEPT !.rest = v, !.text = x]
<1>1. panel.draft \in Drafts /\ panel.draft.kind \in KindsOf(panel.view)
      /\ panel.view \in Lists_
  BY DraftFacts DEF TypeRest, HasDraft
<1>2. x \in Inputs
  BY <1>1, StateBodyAssumption DEF TextOf, Drafts, Entries, HasObject, BodyTypeOK, Settings
<1>3. Draft(d) /\ UNCHANGED <<objects, stored, lists, panels>>
  BY DEF TypeRest
<1>. HIDE DEF x
<1>4. d \in Drafts /\ d.kind = panel.draft.kind
  BY <1>1, <1>2 DEF Drafts, Entries, HasObject, Typed
<1>. HIDE DEF d
<1>. QED  BY <1>1, <1>3, <1>4, DraftChanged

\* A draft that is valid may be an entry.
LEMMA ValidDraft ==
  ASSUME BodyTypeOK, HasDraft, Valid(panel.draft)
  PROVE  panel.draft \in Listed
<1>1. panel.draft \in Drafts
  BY DraftFacts
<1>2. panel.draft.text \in Inputs \cup {Gone}
  <2>1. CASE panel.draft.kind.shares
    <3>1. panel.draft.kind # Transition
      BY <2>1 DEF Transition, Kind
    <3>. QED  BY <1>1, <2>1, <3>1 DEF Valid, Drafts, Entries, Typed
  <2>2. CASE ~ panel.draft.kind.shares
    BY <1>1, <2>2 DEF Drafts, Entries
  <2>. QED  BY <2>1, <2>2
<1>. QED  BY <1>1, <1>2 DEF Listed, Drafts, Entries, HasObject

\* Saving puts the draft at the end, or at the place with the id that is sought, which
\* is one place at most.
Replaced == {i \in DOMAIN lists[panel.view] :
               panel.edited # NoEntry /\ lists[panel.view][i].id = Sought(panel.view)}
LEMMA Saved ==
  ASSUME BodyTypeOK, IdsApart, SavePanel
  PROVE  /\ panel.view \in Lists_ /\ panel.draft \in Listed
         /\ \/ /\ Replaced = {}
               /\ lists' = [lists EXCEPT ![panel.view] = Append(@, panel.draft)]
            \/ \E c \in Replaced :
                 lists' = [lists EXCEPT ![panel.view] = [@ EXCEPT ![c] = panel.draft]]
<1>. DEFINE l == panel.view
            c == CHOOSE i \in Replaced : \A j \in Replaced : i <= j
<1>1. l \in Lists_ /\ panel.draft \in Listed
  BY ValidDraft DEF SavePanel, HasDraft
<1>2. lists' = [lists EXCEPT ![l] = IF Replaced = {} THEN Append(@, panel.draft)
                                    ELSE [@ EXCEPT ![c] = panel.draft]]
  BY DEF SavePanel, Replaced
<1>3. ASSUME Replaced # {}
      PROVE  c \in Replaced
  <2>1. Replaced \subseteq Nat
    BY <1>1, ListFacts DEF Replaced
  <2>2. \A i, j \in Replaced : i = j
    BY <1>1 DEF Replaced, IdsApart
  <2>3. PICK i \in Replaced : TRUE
    BY <1>3
  <2>4. i <= i /\ \A j \in Replaced : j = i
    BY <2>1, <2>2, <2>3
  <2>5. \A j \in Replaced : i <= j
    BY <2>4
  <2>. QED  BY <2>3, <2>5
<1>. HIDE DEF c
<1>. QED  BY <1>1, <1>2, <1>3

LEMMA TypeSavePanel == BodyTypeOK /\ IdsApart /\ SavePanel => BodyTypeOK'
<1>. SUFFICES ASSUME BodyTypeOK, IdsApart, SavePanel PROVE BodyTypeOK'
  OBVIOUS
<1>. DEFINE l == panel.view
            s == lists[l]
            d == panel.draft
<1>1. l \in Lists_ /\ d \in Listed /\ d.kind \in KindsOf(l)
  BY Saved, DraftFacts DEF SavePanel
<1>2. s \in Seq(Listed) /\ Len(s) \in Nat /\ DOMAIN s = 1 .. Len(s)
      /\ \A i \in 1 .. Len(s) : s[i].kind \in KindsOf(l)
  BY <1>1, ListFacts
<1>3. /\ panel' \in [view: {"closed", "list"} \cup Lists_, edited: Listed \cup {NoEntry},
                     draft: Drafts \cup {NoEntry}, at: Nat]
      /\ ~ HasDraft' /\ UNCHANGED <<objects, stored, panels>>
  BY DEF SavePanel, List_, Panel, HasDraft, Lists_
<1>4. CASE lists' = [lists EXCEPT ![l] = Append(@, d)]
  <2>. DEFINE t == Append(s, d)
  <2>1. /\ t \in Seq(Listed) /\ Len(t) = Len(s) + 1
        /\ \A i \in 1 .. Len(s) : t[i] = s[i]
        /\ t[Len(s) + 1] = d
    BY <1>1, <1>2, AppendProperties
  <2>. HIDE DEF t
  <2>2. \A i \in 1 .. Len(t) : t[i].kind \in KindsOf(l)
    BY <1>1, <1>2, <2>1
  <2>3. lists' = [lists EXCEPT ![l] = t]
    BY <1>4 DEF t
  <2>. QED  BY <1>1, <1>3, <2>1, <2>2, <2>3, ListReplaced
<1>5. CASE \E c \in Replaced : lists' = [lists EXCEPT ![l] = [@ EXCEPT ![c] = d]]
  <2>1. PICK c \in Replaced : lists' = [lists EXCEPT ![l] = [@ EXCEPT ![c] = d]]
    BY <1>5
  <2>. DEFINE t == [s EXCEPT ![c] = d]
  <2>2. c \in 1 .. Len(s)
    BY <1>2 DEF Replaced
  <2>3. /\ t \in Seq(Listed) /\ Len(t) = Len(s)
        /\ \A i \in 1 .. Len(s) : t[i] = IF i = c THEN d ELSE s[i]
    BY <1>1, <1>2, <2>2, ExceptSeq
  <2>. HIDE DEF t
  <2>4. \A i \in 1 .. Len(t) : t[i].kind \in KindsOf(l)
    BY <1>1, <1>2, <2>3
  <2>5. lists' = [lists EXCEPT ![l] = t]
    BY <2>1 DEF t
  <2>. QED  BY <1>1, <1>3, <2>3, <2>4, <2>5, ListReplaced
<1>. QED  BY <1>4, <1>5, Saved

LEMMA TypeCancelPanel == BodyTypeOK /\ CancelPanel => BodyTypeOK'
<1>. SUFFICES ASSUME BodyTypeOK, CancelPanel PROVE BodyTypeOK'
  OBVIOUS
<1>1. /\ panel' \in [view: {"closed", "list"} \cup Lists_, edited: Listed \cup {NoEntry},
                     draft: Drafts \cup {NoEntry}, at: Nat]
      /\ ~ HasDraft'
  BY DEF CancelPanel, List_, Panel, HasDraft, Lists_
<1>. QED  BY <1>1, PanelChanged DEF CancelPanel, BodyTypeOK

-----------------------------------------------------------------------------
(* The ids.                                                                *)

\* A panel that is saved hits the place that was clicked, with the id of the entry
\* there or one of no entry of the list.
LEMMA SaveHits ==
  ASSUME BodyInv, SavePanel
  PROVE  LET l == panel.view
             d == panel.draft
         IN /\ lists' = [lists EXCEPT ![l] = IF panel.at = 0 THEN Append(@, d)
                                            ELSE [@ EXCEPT ![panel.at] = d]]
            /\ panel.at = 0 => d.id \notin IdsOf(lists[l])
            /\ panel.at # 0 =>
                 /\ panel.at \in DOMAIN lists[l]
                 /\ d.id = lists[l][panel.at].id \/ d.id \notin IdsOf(lists[l])
<1>. DEFINE l == panel.view
            d == panel.draft
<1>1. BodyTypeOK /\ IdsApart /\ l \in Lists_ /\ d # NoEntry
  BY DEF BodyInv, SavePanel, HasDraft
<1>2. panel.at = 0 <=> panel.edited = NoEntry
  BY <1>1 DEF BodyInv, Places
<1>3. CASE panel.at = 0
  <2>1. Replaced = {}
    BY <1>2, <1>3 DEF Replaced
  <2>2. lists' = [lists EXCEPT ![l] = Append(@, d)]
    BY <1>1, <2>1, Saved
  <2>3. d.id \notin IdsOf(lists[l])
    BY <1>1, <1>2, <1>3 DEF BodyInv, DraftApart
  <2>. QED  BY <1>3, <2>2, <2>3
<1>4. CASE panel.at # 0
  <2>1. panel.at \in DOMAIN lists[l] /\ lists[l][panel.at] = panel.edited
    BY <1>1, <1>2, <1>4 DEF IdsApart
  <2>2. /\ d.id = panel.edited.id \/ d.id \notin IdsOf(lists[l])
        /\ l = "transitions" => d.id = panel.edited.id
    BY <1>1, <1>2, <1>4 DEF BodyInv, DraftApart
  <2>3. Sought(l) = panel.edited.id
    BY <1>1, <2>2 DEF Sought, Lists_
  <2>4. Replaced = {panel.at}
    BY <1>1, <1>2, <1>4, <2>1, <2>3 DEF Replaced, IdsApart
  <2>5. lists' = [lists EXCEPT ![l] = [@ EXCEPT ![panel.at] = d]]
    BY <1>1, <2>4, Saved
  <2>. QED  BY <1>4, <2>1, <2>2, <2>5
<1>. QED  BY <1>3, <1>4

Apart(list) == \A i, j \in DOMAIN list : list[i].id = list[j].id => i = j

\* One list is replaced by one whose ids differ, and no panel is open then.
LEMMA ApartReplaced ==
  ASSUME BodyInv, NEW l \in Lists_, NEW t, Apart(t), lists' = [lists EXCEPT ![l] = t],
         panel'.view \notin Lists_
  PROVE  (IdsApart /\ DraftApart /\ Places)'
<1>1. ASSUME NEW m \in Lists_
      PROVE  Apart(lists'[m])
  <2>1. CASE m = l
    BY <2>1 DEF BodyInv, BodyTypeOK
  <2>2. CASE m # l
    <3>1. lists'[m] = lists[m]
      BY <2>2 DEF BodyInv, BodyTypeOK
    <3>. QED  BY <3>1 DEF BodyInv, IdsApart, Apart
  <2>. QED  BY <2>1, <2>2
<1>. QED  BY <1>1 DEF IdsApart, DraftApart, Places, Apart

LEMMA ApartInit == BodyInit => IdsApart /\ DraftApart /\ Places
BY DEF BodyInit, Closed_, Panel, Lists_, IdsApart, DraftApart, Places

LEMMA ApartOpenFlyout == BodyInv /\ OpenFlyout => (IdsApart /\ DraftApart /\ Places)'
<1>. SUFFICES ASSUME BodyInv, OpenFlyout PROVE (IdsApart /\ DraftApart /\ Places)'
  OBVIOUS
<1>1. \A l \in Lists_ : Apart(lists'[l])
  BY FromDataTyped DEF BodyInv, OpenFlyout, Apart
<1>2. panel'.view \notin Lists_
  BY DEF OpenFlyout, List_, Panel, Lists_
<1>. QED  BY <1>1, <1>2 DEF IdsApart, DraftApart, Places, Apart

LEMMA ApartOpenPanel ==
  ASSUME BodyInv, NEW l \in Lists_, NEW at \in {0} \cup DOMAIN lists[l], OpenPanel(l, at)
  PROVE  (IdsApart /\ DraftApart /\ Places)'
<1>0. BodyTypeOK /\ IdsApart /\ lists' = lists
  BY DEF BodyInv, OpenPanel
<1>1. CASE at = 0
  <2>. DEFINE id == FreshId(IdsOf(lists[l]))
  <2>1. id \in Nat \ {0} /\ id \notin IdsOf(lists[l])
    BY <1>0, ListFacts, FreshIsNew
  <2>. HIDE DEF id
  <2>2. panel' = Panel(l, NoEntry, IF l = "actions" THEN NoEntry ELSE New(Transition, id), 0)
    BY <1>0, <1>1, ListFacts DEF OpenPanel, id
  <2>3. New(Transition, id).id = id
    BY <1>0, <2>1, NewEntry DEF AllKinds
  <2>. QED  BY <1>0, <2>1, <2>2, <2>3 DEF Panel, IdsApart, DraftApart, Places, Lists_
<1>2. CASE at # 0
  <2>1. at \in DOMAIN lists[l] /\ at \in Nat /\ lists[l][at] # NoEntry
    BY <1>0, <1>2, ListFacts, ListedAreDrafts
  <2>2. panel' = Panel(l, lists[l][at], lists[l][at], at)
    BY <1>2 DEF OpenPanel
  <2>. QED  BY <1>0, <1>2, <2>1, <2>2 DEF Panel, IdsApart, DraftApart, Places
<1>. QED  BY <1>1, <1>2

LEMMA ApartMove ==
  ASSUME BodyInv, NEW l \in Lists_, NEW i \in DOMAIN lists[l], NEW j \in DOMAIN lists[l],
         Move(l, i, j)
  PROVE  (IdsApart /\ DraftApart /\ Places)'
<1>. DEFINE s == lists[l]
            t == InsertAt(RemoveAt(s, i), j, s[i])
<1>0. BodyTypeOK /\ IdsApart
  BY DEF BodyInv
<1>1. s \in Seq(Listed) /\ i \in 1 .. Len(s) /\ j \in 1 .. Len(s) /\ DOMAIN s = 1 .. Len(s)
  BY <1>0, ListFacts
<1>2. Apart(s)
  BY <1>0 DEF IdsApart, Apart
<1>3. /\ t \in Seq(Listed) /\ Len(t) = Len(s)
      /\ \A k \in 1 .. Len(s) : From(i, j, k) \in 1 .. Len(s) /\ t[k] = s[From(i, j, k)]
  BY <1>0, MovedEntry
<1>. HIDE DEF t
<1>4. DOMAIN t = 1 .. Len(s)
  BY <1>3, LenProperties
<1>5. Apart(t)
  <2>. SUFFICES ASSUME NEW k \in 1 .. Len(s), NEW n \in 1 .. Len(s), t[k].id = t[n].id
                PROVE  k = n
    BY <1>4 DEF Apart
  <2>. DEFINE p == From(i, j, k)
              q == From(i, j, n)
  <2>1. p \in DOMAIN s /\ q \in DOMAIN s /\ t[k] = s[p] /\ t[n] = s[q]
    BY <1>1, <1>3
  <2>. HIDE DEF p, q
  <2>3. p = q
    <3>1. s[p].id = s[q].id
      BY <2>1
    <3>. QED  BY <1>2, <2>1, <3>1 DEF Apart
  <2>2. Len(s) \in Nat
    BY <1>0, ListFacts
  <2>. QED  BY <1>1, <2>3, <2>2, FromIsInjective DEF p, q
<1>6. lists' = [lists EXCEPT ![l] = t] /\ panel'.view \notin Lists_
  BY DEF Move, t, List_, Panel, Lists_
<1>. QED  BY <1>5, <1>6, ApartReplaced

LEMMA ApartDelete ==
  ASSUME BodyInv, NEW l \in Lists_, NEW i \in DOMAIN lists[l], Delete(l, i)
  PROVE  (IdsApart /\ DraftApart /\ Places)'
<1>. DEFINE s == lists[l]
            t == RemoveAt(s, i)
<1>0. BodyTypeOK /\ IdsApart
  BY DEF BodyInv
<1>1. s \in Seq(Listed) /\ i \in 1 .. Len(s) /\ Len(s) \in Nat /\ DOMAIN s = 1 .. Len(s)
  BY <1>0, ListFacts
<1>2. Apart(s)
  BY <1>0 DEF IdsApart, Apart
<1>3. /\ t \in Seq(Listed) /\ Len(t) = Len(s) - 1
      /\ \A k \in 1 .. Len(s) - 1 : t[k] = IF k < i THEN s[k] ELSE s[k + 1]
  BY <1>1, RemovedAt
<1>. HIDE DEF t
<1>4. DOMAIN t = 1 .. Len(s) - 1
  BY <1>3, LenProperties
<1>5. Apart(t)
  <2>. SUFFICES ASSUME NEW k \in 1 .. Len(s) - 1, NEW n \in 1 .. Len(s) - 1, t[k].id = t[n].id
                PROVE  k = n
    BY <1>4 DEF Apart
  <2>. DEFINE from(q) == IF q < i THEN q ELSE q + 1
  <2>1. ASSUME NEW q \in 1 .. Len(s) - 1
        PROVE  from(q) \in 1 .. Len(s) /\ t[q] = s[from(q)]
    <3>1. CASE q < i
      BY <1>1, <1>3, <3>1
    <3>2. CASE ~(q < i)
      BY <1>1, <1>3, <3>2
    <3>. QED  BY <3>1, <3>2
  <2>. HIDE DEF from
  <2>2. from(k) = from(n)
    <3>1. s[from(k)].id = s[from(n)].id
      BY <2>1
    <3>. QED  BY <1>1, <1>2, <2>1, <3>1 DEF Apart
  <2>. QED  BY <1>1, <2>2 DEF from
<1>6. lists' = [lists EXCEPT ![l] = t] /\ panel'.view \notin Lists_
  BY DEF Delete, t, List_, Panel, Lists_
<1>. QED  BY <1>5, <1>6, ApartReplaced

\* The flyout is closed, by saving or not.
LEMMA ApartClosed ==
  ASSUME lists' = [l \in Lists_ |-> <<>>], panel' = Closed_
  PROVE  (IdsApart /\ DraftApart /\ Places)'
BY DEF Closed_, Panel, Lists_, IdsApart, DraftApart, Places

\* A draft that changes keeps its id, or gets one that no entry has.
LEMMA ApartDraft ==
  ASSUME BodyInv, NEW d, Draft(d), UNCHANGED lists, panel.view \in Lists_,
         \/ HasDraft /\ d.id = panel.draft.id
         \/ d.id \notin IdsOf(lists[panel.view]) /\ panel.view = "actions"
  PROVE  (IdsApart /\ DraftApart /\ Places)'
<1>1. /\ panel'.view = panel.view /\ panel'.edited = panel.edited
      /\ panel'.at = panel.at /\ panel'.draft = d
  BY DEF BodyInv, BodyTypeOK, Draft
<1>2. IdsApart' /\ Places'
  BY <1>1 DEF BodyInv, IdsApart, Places
<1>3. DraftApart'
  BY <1>1 DEF BodyInv, DraftApart, HasDraft
<1>. QED  BY <1>2, <1>3

LEMMA ApartSavePanel == BodyInv /\ SavePanel => (IdsApart /\ DraftApart /\ Places)'
<1>. SUFFICES ASSUME BodyInv, SavePanel PROVE (IdsApart /\ DraftApart /\ Places)'
  OBVIOUS
<1>. DEFINE l == panel.view
            s == lists[l]
            d == panel.draft
<1>0. BodyTypeOK /\ IdsApart /\ l \in Lists_ /\ d \in Listed
  BY Saved DEF BodyInv
<1>1. s \in Seq(Listed) /\ Len(s) \in Nat /\ DOMAIN s = 1 .. Len(s)
  BY <1>0, ListFacts
<1>2. Apart(s)
  BY <1>0 DEF IdsApart, Apart
<1>3. panel'.view \notin Lists_
  BY DEF SavePanel, List_, Panel, Lists_
<1>4. CASE panel.at = 0
  <2>. DEFINE t == Append(s, d)
  <2>1. lists' = [lists EXCEPT ![l] = t] /\ d.id \notin IdsOf(s)
    BY <1>4, SaveHits
  <2>2. /\ t \in Seq(Listed) /\ Len(t) = Len(s) + 1
        /\ \A i \in 1 .. Len(s) : t[i] = s[i]
        /\ t[Len(s) + 1] = d
    BY <1>0, <1>1, AppendProperties
  <2>. HIDE DEF t
  <2>3. DOMAIN t = 1 .. Len(s) + 1
    BY <2>2, LenProperties
  <2>4. Apart(t)
    <3>. SUFFICES ASSUME NEW i \in 1 .. Len(s) + 1, NEW j \in 1 .. Len(s) + 1,
                         t[i].id = t[j].id, i # j
                  PROVE  FALSE
      BY <2>3 DEF Apart
    <3>1. ASSUME NEW k \in 1 .. Len(s) PROVE t[k].id \in IdsOf(s)
      BY <1>1, <2>2 DEF IdsOf
    <3>2. CASE i \in 1 .. Len(s) /\ j \in 1 .. Len(s)
      BY <1>1, <1>2, <2>2, <3>2 DEF Apart
    <3>3. CASE i = Len(s) + 1
      <4>1. j \in 1 .. Len(s) /\ t[i] = d
        BY <1>1, <2>2, <3>3
      <4>. QED  BY <2>1, <3>1, <4>1
    <3>4. CASE j = Len(s) + 1
      <4>1. i \in 1 .. Len(s) /\ t[j] = d
        BY <1>1, <2>2, <3>4
      <4>. QED  BY <2>1, <3>1, <4>1
    <3>. QED  BY <1>1, <3>2, <3>3, <3>4
  <2>. QED  BY <1>0, <1>3, <2>1, <2>4, ApartReplaced
<1>5. CASE panel.at # 0
  <2>. DEFINE t == [s EXCEPT ![panel.at] = d]
  <2>1. /\ lists' = [lists EXCEPT ![l] = t]
        /\ panel.at \in 1 .. Len(s)
        /\ d.id = s[panel.at].id \/ d.id \notin IdsOf(s)
    BY <1>1, <1>5, SaveHits
  <2>2. /\ t \in Seq(Listed) /\ Len(t) = Len(s)
        /\ \A i \in 1 .. Len(s) : t[i] = IF i = panel.at THEN d ELSE s[i]
    BY <1>0, <1>1, <2>1, ExceptSeq
  <2>. HIDE DEF t
  <2>3. DOMAIN t = 1 .. Len(s)
    BY <2>2, LenProperties
  <2>4. Apart(t)
    <3>. SUFFICES ASSUME NEW i \in 1 .. Len(s), NEW j \in 1 .. Len(s), t[i].id = t[j].id, i # j
                  PROVE  FALSE
      BY <2>3 DEF Apart
    <3>1. ASSUME NEW k \in 1 .. Len(s) PROVE s[k].id \in IdsOf(s)
      BY <1>1 DEF IdsOf
    <3>2. CASE i # panel.at /\ j # panel.at
      BY <1>1, <1>2, <2>2, <3>2 DEF Apart
    <3>3. CASE i = panel.at
      <4>1. t[i] = d /\ t[j] = s[j]
        BY <2>2, <3>3
      <4>2. d.id = s[panel.at].id
        BY <2>1, <3>1, <4>1
      <4>. QED  BY <1>1, <1>2, <2>1, <3>3, <4>1, <4>2 DEF Apart
    <3>4. CASE j = panel.at
      <4>1. t[j] = d /\ t[i] = s[i]
        BY <2>2, <3>4
      <4>2. d.id = s[panel.at].id
        BY <2>1, <3>1, <4>1
      <4>. QED  BY <1>1, <1>2, <2>1, <3>4, <4>1, <4>2 DEF Apart
    <3>. QED  BY <3>2, <3>3, <3>4
  <2>. QED  BY <1>0, <1>3, <2>1, <2>4, ApartReplaced
<1>. QED  BY <1>4, <1>5

LEMMA ApartCancelPanel == BodyInv /\ CancelPanel => (IdsApart /\ DraftApart /\ Places)'
BY DEF BodyInv, CancelPanel, List_, Panel, Lists_, IdsApart, DraftApart, Places

-----------------------------------------------------------------------------
(* The theorems.                                                           *)

LEMMA BodyInvInit == BodyInit => BodyInv
BY TypeInit, ApartInit DEF BodyInv

LEMMA BodyInvStep == BodyInv /\ [BodyNext]_bvars => BodyInv'
<1>. SUFFICES ASSUME BodyInv, [BodyNext]_bvars PROVE BodyInv'
  OBVIOUS
<1>0. BodyTypeOK /\ IdsApart
  BY DEF BodyInv
<1>1. CASE OpenFlyout
  BY <1>0, <1>1, TypeOpenFlyout, ApartOpenFlyout DEF BodyInv
<1>2. ASSUME NEW l \in Lists_, NEW i \in DOMAIN lists[l], Delete(l, i)
      PROVE  BodyInv'
  BY <1>0, <1>2, TypeDelete, ApartDelete DEF BodyInv
<1>3. ASSUME NEW l \in Lists_, NEW i \in DOMAIN lists[l], NEW j \in DOMAIN lists[l] \ {i},
             Move(l, i, j)
      PROVE  BodyInv'
  BY <1>0, <1>3, TypeMove, ApartMove DEF BodyInv
<1>4. ASSUME NEW l \in Lists_, NEW at \in {0} \cup DOMAIN lists[l], OpenPanel(l, at)
      PROVE  BodyInv'
  BY <1>0, <1>4, TypeOpenPanel, ApartOpenPanel DEF BodyInv
<1>5. CASE SaveState_
  BY <1>0, <1>5, TypeSaveState, ApartClosed DEF BodyInv, SaveState_
<1>6. CASE CloseFlyout
  BY <1>0, <1>6, TypeCloseFlyout, ApartClosed DEF BodyInv, CloseFlyout
<1>7. ASSUME NEW k \in Kinds, SelectType(k)
      PROVE  BodyInv'
  <2>. DEFINE id == FreshId(IdsOf(lists["actions"]))
              d == New(k, id)
  <2>1. id \in Nat \ {0} /\ id \notin IdsOf(lists["actions"])
    BY <1>0, ListFacts, FreshIsNew DEF Lists_
  <2>2. Draft(d) /\ UNCHANGED lists /\ panel.view = "actions"
    BY <1>7 DEF SelectType
  <2>. HIDE DEF id
  <2>3. d.id = id
    BY <1>0, <2>1, NewEntry DEF AllKinds
  <2>. HIDE DEF d
  <2>4. panel.view \in Lists_
    BY <2>2 DEF Lists_
  <2>. QED  BY <1>0, <1>7, <2>1, <2>2, <2>3, <2>4, TypeSelectType, ApartDraft DEF BodyInv
<1>8. ASSUME NEW v \in Typed, TypeInput(v)
      PROVE  BodyInv'
  <2>0. BodyTypeOK'
    BY <1>0, <1>8, TypeTypeInput
  <2>1. CASE panel.draft.kind.shares
    BY <1>8, <2>0, <2>1 DEF TypeInput, BodyInv, IdsApart, DraftApart, Places
  <2>2. CASE ~ panel.draft.kind.shares
    <3>. DEFINE d == [panel.draft EXCEPT !.body = v,
                        !.rest = IF panel.draft.kind.keeps THEN @ ELSE Default]
    <3>1. Draft(d) /\ UNCHANGED lists /\ HasDraft /\ panel.view \in Lists_
      BY <1>8, <2>2 DEF TypeInput, HasDraft
    <3>2. d.id = panel.draft.id
      BY <1>0, <3>1, DraftFacts DEF Drafts, Entries
    <3>. HIDE DEF d
    <3>. QED  BY <2>0, <3>1, <3>2, ApartDraft DEF BodyInv
  <2>. QED  BY <2>1, <2>2
<1>9. ASSUME NEW v \in Typed \cup {Gone}, TypeText(v)
      PROVE  BodyInv'
  <2>. DEFINE d == [panel.draft EXCEPT !.text = v]
  <2>1. Draft(d) /\ UNCHANGED lists /\ HasDraft /\ panel.view \in Lists_
    BY <1>9 DEF TypeText, HasDraft
  <2>2. d.id = panel.draft.id
    BY <1>0, <2>1, DraftFacts DEF Drafts, Entries
  <2>. HIDE DEF d
  <2>. QED  BY <1>0, <1>9, <2>1, <2>2, TypeTypeText, ApartDraft DEF BodyInv
<1>10. ASSUME NEW v \in Inputs, TypeRest(v)
       PROVE  BodyInv'
  <2>. DEFINE d == [panel.draft EXCEPT !.rest = v, !.text = TextOf(panel.draft)]
  <2>1. Draft(d) /\ UNCHANGED lists /\ HasDraft /\ panel.view \in Lists_
    BY <1>10 DEF TypeRest, HasDraft
  <2>2. d.id = panel.draft.id
    BY <1>0, <2>1, DraftFacts DEF Drafts, Entries
  <2>. HIDE DEF d
  <2>. QED  BY <1>0, <1>10, <2>1, <2>2, TypeTypeRest, ApartDraft DEF BodyInv
<1>11. CASE SavePanel
  BY <1>0, <1>11, TypeSavePanel, ApartSavePanel DEF BodyInv
<1>12. CASE CancelPanel
  BY <1>0, <1>12, TypeCancelPanel, ApartCancelPanel DEF BodyInv
<1>13. CASE UNCHANGED bvars
  BY <1>13 DEF bvars, BodyInv, BodyTypeOK, IdsApart, DraftApart, Places, HasDraft
<1>. QED  BY <1>1, <1>2, <1>3, <1>4, <1>5, <1>6, <1>7, <1>8, <1>9, <1>10, <1>11, <1>12, <1>13
          DEF BodyNext

THEOREM BodyInvHolds == BodySpec => []BodyInv
BY BodyInvInit, BodyInvStep, PTL DEF BodySpec

\* The lists of actions and transitions, the draft of a panel and the objects of
\* shrink actions always have their types.
THEOREM BodyTypeCorrect == BodySpec => []BodyTypeOK
<1>1. BodyInv => BodyTypeOK
  BY DEF BodyInv
<1>. QED  BY <1>1, BodyInvHolds, PTL

\* The ids of a list differ, whatever is added, moved, deleted or replaced, and the
\* entry under edit is where it was clicked.
THEOREM IdsStayApart == BodySpec => []IdsApart
<1>1. BodyInv => IdsApart
  BY DEF BodyInv
<1>. QED  BY <1>1, BodyInvHolds, PTL

\* Saving a panel replaces the entry that was clicked, or adds one, and touches no
\* other entry of the two lists.
THEOREM EditsHitTheirEntry == BodySpec => EditHitsItsEntry
<1>. DEFINE Hit == panel.view \in Lists_ /\ panel'.view # "closed" =>
               \/ lists' = lists
               \/ lists' = [lists EXCEPT ![panel.view] =
                              IF panel.at = 0 THEN Append(@, panel.draft)
                              ELSE [@ EXCEPT ![panel.at] = panel.draft]]
<1>1. BodyInv /\ [BodyNext]_bvars => [Hit]_bvars
  <2>. SUFFICES ASSUME BodyInv, BodyNext, panel.view \in Lists_, panel'.view # "closed",
                       lists' # lists
                PROVE  SavePanel
    BY SaveHits
  <2>1. panel # Closed_ /\ panel # List_
    BY DEF Closed_, List_, Panel, Lists_
  <2>2. ~ CloseFlyout
    BY DEF CloseFlyout, Closed_, Panel
  <2>. QED  BY <2>1, <2>2 DEF BodyNext, OpenFlyout, Delete, Move, OpenPanel, SaveState_,
               SelectType, TypeInput, TypeText, TypeRest, CancelPanel
<1>. QED  BY <1>1, BodyInvHolds, PTL DEF BodySpec, EditHitsItsEntry
=============================================================================
