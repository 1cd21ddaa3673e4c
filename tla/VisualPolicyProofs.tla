-------------------------- MODULE VisualPolicyProofs --------------------------
(***************************************************************************)
(* What the visual policy editor keeps, for every set of names and every   *)
(* bound: no two states of a policy have one name, an edited state that is *)
(* not moved stays in its place, and whatever the user does adds, changes  *)
(* or removes one state.                                                   *)
(*                                                                         *)
(* All of it needs that the flyout saves against what it was opened on, so *)
(* the theorems say what the user does meanwhile: OneEdit (no other state  *)
(* is opened for editing, nothing is done before the policy has arrived),  *)
(* and for the last one OthersOnly (no state that the flyout refers to is  *)
(* deleted).  Without the first one TLC finds two states of one name.      *)
(***************************************************************************)
EXTENDS MCPolicyEditor, StateBodyProofs

-----------------------------------------------------------------------------
(* Lists of states.                                                         *)

\* No two states have one name.
Distinct(states) ==
  \A i, j \in DOMAIN states : states[i].name = states[j].name => i = j

LEMMA StateFields == ASSUME NEW s \in States PROVE s.name \in Names /\ s.body \in Bodies
  BY DEF States

LEMMA NoStateIsNone == NoState.name = NoName /\ NoState \notin States /\ NoState.body = NewBody
  BY VisualPolicyAssumption DEF NoState, States

LEMMA PolicyBounds == MaxStates \in Nat \ {0} /\ MaxBodies \in Nat /\ NewBody \in Bodies
  BY VisualPolicyAssumption DEF NewBody, Bodies

\* The states of a list without two of one name are told apart by their names.
LEMMA ByName ==
  ASSUME NEW states \in Seq(States), Distinct(states),
         NEW s \in Range(states), NEW t \in Range(states), s.name = t.name
  PROVE  s = t
<1>1. PICK i \in DOMAIN states : s = states[i]
  BY DEF Range
<1>2. PICK j \in DOMAIN states : t = states[j]
  BY DEF Range
<1>3. i = j
  BY <1>1, <1>2 DEF Distinct
<1>4. QED
  BY <1>1, <1>2, <1>3

\* What getUpdatedStates puts where s was.
Piece(saved, edited, order, target, s) ==
  (IF s.name = target /\ order = "before" THEN <<saved>> ELSE <<>>)
    \o (IF s.name # edited.name THEN <<s>> ELSE <<>>)
    \o (IF s.name = target /\ order = "after" THEN <<saved>> ELSE <<>>)

LEMMA Concats ==
  ASSUME NEW S, NEW d \in S, NEW e \in S
  PROVE  /\ <<d>> \o <<e>> = <<d, e>> /\ <<>> \o <<d>> = <<d>> /\ <<d>> \o <<>> = <<d>>
         /\ <<d, e>> \o <<>> = <<d, e>> /\ <<>> \o <<>> = <<>>
<1>1. <<d>> \o <<e>> = <<d, e>>
  <2>1. <<d>> \in Seq(S)
    OBVIOUS
  <2>2. Append(<<d>>, e) = <<d>> \o <<e>>
    BY <2>1, AppendIsConcat
  <2>3. Append(<<d>>, e) = <<d, e>>
    <3>1. PICK t : t = Append(<<d>>, e)
      OBVIOUS
    <3>2. t \in Seq(S) /\ Len(t) = 2 /\ t[1] = d /\ t[2] = e
      BY <2>1, <3>1, AppendProperties
    <3>3. <<d, e>> \in Seq(S) /\ Len(<<d, e>>) = 2 /\ <<d, e>>[1] = d /\ <<d, e>>[2] = e
      OBVIOUS
    <3>4. \A i \in 1 .. 2 : i = 1 \/ i = 2
      OBVIOUS
    <3>5. t = <<d, e>>
      BY <3>2, <3>3, <3>4, SeqEqual
    <3>6. QED
      BY <3>1, <3>5
  <2>4. QED
    BY <2>2, <2>3
<1>2. <<d>> \in Seq(S) /\ <<d, e>> \in Seq(S) /\ <<>> \in Seq(S)
  OBVIOUS
<1>3. <<>> \o <<d>> = <<d>> /\ <<d>> \o <<>> = <<d>>
  BY <1>2, ConcatEmptySeq
<1>4. <<d, e>> \o <<>> = <<d, e>> /\ <<>> \o <<>> = <<>>
  BY <1>2, ConcatEmptySeq
<1>5. QED
  BY <1>1, <1>3, <1>4

PieceByCase(saved, edited, order, target, s) ==
  IF s.name = target
  THEN IF s.name = edited.name THEN <<saved>>
       ELSE IF order = "before" THEN <<saved, s>> ELSE <<s, saved>>
  ELSE IF s.name = edited.name THEN <<>> ELSE <<s>>

LEMMA Pieces ==
  ASSUME NEW saved \in States, NEW edited, NEW order \in {"after", "before"}, NEW target,
         NEW s \in States
  PROVE  Piece(saved, edited, order, target, s) = PieceByCase(saved, edited, order, target, s)
<1>1. CASE s.name = target /\ order = "before" /\ s.name = edited.name
  BY <1>1, Concats DEF Piece, PieceByCase
<1>2. CASE s.name = target /\ order = "before" /\ s.name # edited.name
  BY <1>2, Concats DEF Piece, PieceByCase
<1>3. CASE s.name = target /\ order = "after" /\ s.name = edited.name
  BY <1>3, Concats DEF Piece, PieceByCase
<1>4. CASE s.name = target /\ order = "after" /\ s.name # edited.name
  BY <1>4, Concats DEF Piece, PieceByCase
<1>5. CASE s.name # target
  BY <1>5, Concats DEF Piece, PieceByCase
<1>6. QED
  BY <1>1, <1>2, <1>3, <1>4, <1>5

\* A piece has the saved state next to the target and every state but the edited one.
PieceRange(saved, edited, target, s) ==
  (IF s.name = target THEN {saved} ELSE {}) \cup (IF s.name # edited.name THEN {s} ELSE {})

LEMMA PieceHas ==
  ASSUME NEW saved \in States, NEW edited, NEW order \in {"after", "before"}, NEW target,
         NEW s \in States
  PROVE  /\ Piece(saved, edited, order, target, s) \in Seq(States)
         /\ Range(Piece(saved, edited, order, target, s)) = PieceRange(saved, edited, target, s)
<1> PICK p : p = Piece(saved, edited, order, target, s)
  OBVIOUS
<1>1. CASE s.name = target /\ s.name = edited.name
  <2>1. p = <<saved>>
    BY <1>1, Pieces DEF PieceByCase
  <2>2. p \in Seq(States) /\ Range(p) = {saved}
    BY <2>1, OneElement
  <2>3. QED
    BY <1>1, <2>2 DEF PieceRange
<1>2. CASE s.name = target /\ s.name # edited.name
  <2>1. p = <<saved, s>> \/ p = <<s, saved>>
    BY <1>2, Pieces DEF PieceByCase
  <2>2. CASE p = <<saved, s>>
    <3>1. p \in Seq(States) /\ Range(p) = {saved, s}
      BY <2>2, TwoElements
    <3>2. QED
      BY <1>2, <3>1 DEF PieceRange
  <2>3. CASE p = <<s, saved>>
    <3>1. p \in Seq(States) /\ Range(p) = {s, saved}
      BY <2>3, TwoElements
    <3>2. QED
      BY <1>2, <3>1 DEF PieceRange
  <2>4. QED
    BY <2>1, <2>2, <2>3
<1>3. CASE s.name # target /\ s.name = edited.name
  <2>1. p = <<>>
    BY <1>3, Pieces DEF PieceByCase
  <2>2. p \in Seq(States) /\ Range(p) = {}
    BY <2>1, NoElement
  <2>3. QED
    BY <1>3, <2>2 DEF PieceRange
<1>4. CASE s.name # target /\ s.name # edited.name
  <2>1. p = <<s>>
    BY <1>4, Pieces DEF PieceByCase
  <2>2. p \in Seq(States) /\ Range(p) = {s}
    BY <2>1, OneElement
  <2>3. QED
    BY <1>4, <2>2 DEF PieceRange
<1>5. QED
  BY <1>1, <1>2, <1>3, <1>4

\* The pieces of a list.
PiecesOf(saved, edited, states, order, target) ==
  [i \in DOMAIN states |-> Piece(saved, edited, order, target, states[i])]

Single(edited, states) == Len(states) = IF edited = NoState THEN 0 ELSE 1

LEMMA UpdatedIs ==
  ASSUME NEW saved, NEW edited, NEW states, NEW order, NEW target
  PROVE  GetUpdatedStates(saved, edited, states, order, target) =
           IF Single(edited, states) THEN <<saved>>
           ELSE FlattenSeq(PiecesOf(saved, edited, states, order, target))
BY DEF GetUpdatedStates, PiecesOf, Piece, Single

PiecesAre(ps, saved, edited, states, order, target) ==
  /\ ps \in Seq(Seq(States)) /\ Len(ps) = Len(states)
  /\ \A i \in 1 .. Len(states) :
       states[i] \in States /\ ps[i] = Piece(saved, edited, order, target, states[i])

LEMMA PiecesOfSeq ==
  ASSUME NEW saved \in States, NEW edited, NEW states \in Seq(States),
         NEW order \in {"after", "before"}, NEW target
  PROVE  PiecesAre(PiecesOf(saved, edited, states, order, target),
                   saved, edited, states, order, target)
<1>1. /\ DOMAIN states = 1 .. Len(states) /\ Len(states) \in Nat
      /\ \A i \in 1 .. Len(states) : states[i] \in States
  BY ElementOfSeq, LenProperties
<1>2. PICK ps : ps = [i \in 1 .. Len(states) |-> Piece(saved, edited, order, target, states[i])]
  OBVIOUS
<1>3. ps = PiecesOf(saved, edited, states, order, target)
  BY <1>1, <1>2 DEF PiecesOf
<1>4. \A i \in 1 .. Len(states) : Piece(saved, edited, order, target, states[i]) \in Seq(States)
  BY <1>1, PieceHas
<1>5. /\ ps \in Seq(Seq(States)) /\ Len(ps) = Len(states)
      /\ \A i \in 1 .. Len(states) : ps[i] = Piece(saved, edited, order, target, states[i])
  BY <1>1, <1>2, <1>4
<1>6. PiecesAre(ps, saved, edited, states, order, target)
  BY <1>1, <1>5 DEF PiecesAre
<1>7. QED
  BY <1>3, <1>6

ListsOf(ps, n) == ps \in Seq(Seq(States)) /\ Len(ps) = n

LEMMA PiecesTyped ==
  ASSUME NEW saved \in States, NEW edited, NEW states \in Seq(States),
         NEW order \in {"after", "before"}, NEW target
  PROVE  ListsOf(PiecesOf(saved, edited, states, order, target), Len(states))
<1>1. PICK ps : ps = PiecesOf(saved, edited, states, order, target)
  OBVIOUS
<1>2. PiecesAre(ps, saved, edited, states, order, target)
  BY <1>1, PiecesOfSeq
<1>3. QED
  BY <1>1, <1>2 DEF ListsOf, PiecesAre

LEMMA PieceAt ==
  ASSUME NEW saved \in States, NEW edited, NEW states \in Seq(States),
         NEW order \in {"after", "before"}, NEW target, NEW i \in 1 .. Len(states)
  PROVE  /\ states[i] \in States
         /\ PiecesOf(saved, edited, states, order, target)[i]
              = Piece(saved, edited, order, target, states[i])
<1>1. PICK ps : ps = PiecesOf(saved, edited, states, order, target)
  OBVIOUS
<1>2. PiecesAre(ps, saved, edited, states, order, target)
  BY <1>1, PiecesOfSeq
<1>3. QED
  BY <1>1, <1>2 DEF PiecesAre

\* getUpdatedStates: a list of one state, or all states but the edited one, and the
\* saved one if the target is in the list.
LEMMA UpdatedHas ==
  ASSUME NEW saved \in States, NEW edited, NEW states \in Seq(States),
         NEW order \in {"after", "before"}, NEW target,
         NEW R, R = GetUpdatedStates(saved, edited, states, order, target)
  PROVE  /\ R \in Seq(States)
         /\ Single(edited, states) => R = <<saved>>
         /\ ~ Single(edited, states) =>
              \A e : e \in Range(R) <=>
                \/ e \in Range(states) /\ e.name # edited.name
                \/ e = saved /\ target \in NamesIn(states)
<1>1. CASE Single(edited, states)
  <2>1. R = <<saved>>
    BY <1>1, UpdatedIs
  <2>2. QED
    BY <1>1, <2>1, OneElement
<1>2. CASE ~ Single(edited, states)
  <2>1. PICK ps : ps = PiecesOf(saved, edited, states, order, target)
    OBVIOUS
  <2>2. /\ ps \in Seq(Seq(States)) /\ Len(ps) = Len(states)
        /\ \A i \in 1 .. Len(states) :
             /\ states[i] \in States
             /\ ps[i] = Piece(saved, edited, order, target, states[i])
    <3>1. PiecesAre(ps, saved, edited, states, order, target)
      BY <2>1, PiecesOfSeq
    <3>2. QED
      BY <3>1 DEF PiecesAre
  <2>3. R = FlattenSeq(ps)
    BY <1>2, <2>1, UpdatedIs
  <2>4. CASE states = <<>>
    <3>1. Len(ps) = 0 /\ ps = <<>>
      BY <2>2, <2>4, EmptySeq
    <3>2. R = <<>>
      BY <2>3, <3>1 DEF FlattenSeq
    <3>3. Range(states) = {} /\ NamesIn(states) = {}
      BY <2>4 DEF Range, NamesIn
    <3>4. QED
      BY <1>2, <2>4, <3>2, <3>3
  <2>5. CASE states # <<>>
    <3>1. ps # <<>>
      BY <2>2, <2>5, EmptySeq
    <3>2. /\ R \in Seq(States)
          /\ \A e : e \in Range(R) <=> \E k \in 1 .. Len(states) : e \in Range(ps[k])
      BY <2>2, <2>3, <3>1, FlattenedRange
    <3>3. ASSUME NEW k \in 1 .. Len(states), NEW e
          PROVE  e \in Range(ps[k]) <=>
                   \/ e = saved /\ states[k].name = target
                   \/ e = states[k] /\ states[k].name # edited.name
      <4>1. states[k] \in States /\ ps[k] = Piece(saved, edited, order, target, states[k])
        BY <2>2
      <4>2. Range(ps[k]) = PieceRange(saved, edited, target, states[k])
        BY <4>1, PieceHas
      <4>3. QED
        BY <4>2 DEF PieceRange
    <3>4. Range(states) = {states[k] : k \in 1 .. Len(states)}
      BY RangeEquality
    <3>5. NamesIn(states) = {states[k].name : k \in 1 .. Len(states)}
      BY <3>4 DEF NamesIn
    <3>6. ASSUME NEW e
          PROVE  e \in Range(R) <=>
                   \/ e \in Range(states) /\ e.name # edited.name
                   \/ e = saved /\ target \in NamesIn(states)
      <4>1. e \in Range(R) <=> \E k \in 1 .. Len(states) :
              \/ e = saved /\ states[k].name = target
              \/ e = states[k] /\ states[k].name # edited.name
        BY <3>2, <3>3
      <4>2. QED
        BY <3>4, <3>5, <4>1
    <3>7. QED
      BY <1>2, <3>2, <3>6
  <2>6. QED
    BY <2>4, <2>5
<1>3. QED
  BY <1>1, <1>2

LEMMA UpdatedTyped ==
  ASSUME NEW saved \in States, NEW edited, NEW states \in Seq(States),
         NEW order \in {"after", "before"}, NEW target
  PROVE  GetUpdatedStates(saved, edited, states, order, target) \in Seq(States)
<1>1. CASE Single(edited, states)
  <2>1. GetUpdatedStates(saved, edited, states, order, target) = <<saved>>
    BY <1>1, UpdatedIs
  <2>2. QED
    BY <2>1
<1>2. CASE ~ Single(edited, states)
  <2>1. PICK ps : ps = PiecesOf(saved, edited, states, order, target)
    OBVIOUS
  <2>2. ListsOf(ps, Len(states))
    BY <2>1, PiecesTyped
  <2>3. ps \in Seq(Seq(States)) /\ (ps = <<>> => FlattenSeq(ps) = <<>>)
    BY <2>2 DEF ListsOf, FlattenSeq
  <2>4. FlattenSeq(ps) \in Seq(States)
    <3>1. CASE ps = <<>>
      <4>1. FlattenSeq(ps) = <<>>
        BY <2>3, <3>1
      <4>2. <<>> \in Seq(States)
        BY NoElement
      <4>3. QED
        BY <4>1, <4>2
    <3>2. CASE ps # <<>>
      BY <2>3, <3>2, FlattenedRange
    <3>3. QED
      BY <3>1, <3>2
  <2>5. QED
    BY <1>2, <2>1, <2>4, UpdatedIs
<1>3. QED
  BY <1>1, <1>2

\* Two lists put together.
LEMMA DistinctConcat ==
  ASSUME NEW s \in Seq(States), NEW t \in Seq(States), Distinct(s), Distinct(t),
         \A d \in Range(s), e \in Range(t) : d.name # e.name
  PROVE  Distinct(s \o t)
<1>1. /\ s \o t \in Seq(States) /\ Len(s \o t) = Len(s) + Len(t)
      /\ \A i \in 1 .. Len(s) + Len(t) :
           (s \o t)[i] = IF i <= Len(s) THEN s[i] ELSE t[i - Len(s)]
  BY ConcatProperties
<1>2. Len(s) \in Nat /\ Len(t) \in Nat /\ DOMAIN s = 1 .. Len(s) /\ DOMAIN t = 1 .. Len(t)
      /\ DOMAIN (s \o t) = 1 .. Len(s) + Len(t)
  BY <1>1, LenProperties
<1>3. /\ \A i \in 1 .. Len(s) : s[i] \in Range(s)
      /\ \A i \in 1 .. Len(t) : t[i] \in Range(t)
  BY RangeEquality
<1>4. ASSUME NEW i \in 1 .. Len(s) + Len(t), NEW j \in 1 .. Len(s) + Len(t), i < j
      PROVE  (s \o t)[i].name # (s \o t)[j].name
  <2>1. CASE j <= Len(s)
    <3>1. i \in 1 .. Len(s) /\ j \in 1 .. Len(s) /\ i # j
      BY <1>2, <1>4, <2>1
    <3>2. (s \o t)[i] = s[i] /\ (s \o t)[j] = s[j]
      BY <1>1, <3>1
    <3>3. QED
      BY <1>2, <3>1, <3>2 DEF Distinct
  <2>2. CASE ~ (i <= Len(s))
    <3>1. i - Len(s) \in 1 .. Len(t) /\ j - Len(s) \in 1 .. Len(t) /\ i - Len(s) # j - Len(s)
          /\ ~ (j <= Len(s))
      BY <1>2, <1>4, <2>2
    <3>2. (s \o t)[i] = t[i - Len(s)] /\ (s \o t)[j] = t[j - Len(s)]
      BY <1>1, <2>2, <3>1
    <3>3. QED
      BY <1>2, <3>1, <3>2 DEF Distinct
  <2>3. CASE i <= Len(s) /\ ~ (j <= Len(s))
    <3>1. i \in 1 .. Len(s) /\ j - Len(s) \in 1 .. Len(t)
      BY <1>2, <1>4, <2>3
    <3>2. (s \o t)[i] = s[i] /\ (s \o t)[j] = t[j - Len(s)]
      BY <1>1, <2>3
    <3>3. QED
      BY <1>3, <3>1, <3>2
  <2>4. QED
    BY <1>2, <2>1, <2>2, <2>3
<1>5. ASSUME NEW i \in 1 .. Len(s) + Len(t), NEW j \in 1 .. Len(s) + Len(t),
             (s \o t)[i].name = (s \o t)[j].name
      PROVE  i = j
  <2>1. i \in Nat /\ j \in Nat /\ (i < j \/ j < i \/ i = j)
    BY <1>2
  <2>2. QED
    BY <1>4, <1>5, <2>1
<1>6. QED
  BY <1>2, <1>5 DEF Distinct

\* A short list of different names.
LEMMA DistinctShort ==
  ASSUME NEW s \in States, NEW t \in States
  PROVE  /\ Distinct(<<>>) /\ Distinct(<<s>>)
         /\ s.name # t.name => Distinct(<<s, t>>)
<1>1. Distinct(<<>>) /\ Distinct(<<s>>)
  BY DEF Distinct
<1>2. ASSUME s.name # t.name PROVE Distinct(<<s, t>>)
  <2>1. /\ DOMAIN <<s, t>> = {1, 2}
        /\ <<s, t>>[1] = s /\ <<s, t>>[2] = t
    OBVIOUS
  <2>2. QED
    BY <1>2, <2>1 DEF Distinct
<1>3. QED
  BY <1>1, <1>2

\* Lists joined one after the other.
LEMMA DistinctFlattened ==
  ASSUME NEW seqs \in Seq(Seq(States)), seqs # <<>>,
         \A k \in 1 .. Len(seqs) : Distinct(seqs[k]),
         \A j \in 1 .. Len(seqs), k \in 1 .. Len(seqs) : j < k =>
           \A d \in Range(seqs[j]), e \in Range(seqs[k]) : d.name # e.name
  PROVE  Distinct(FlattenSeq(seqs))
<1>1. PICK f : /\ f[1] = seqs[1]
               /\ \A i \in 1 .. Len(seqs) - 1 : f[i + 1] = f[i] \o seqs[i + 1]
               /\ \A i \in 1 .. Len(seqs) : f[i] \in Seq(States)
               /\ FlattenSeq(seqs) = f[Len(seqs)]
  BY Flattened
<1>2. Len(seqs) \in Nat /\ Len(seqs) > 0 /\ \A i \in 1 .. Len(seqs) : seqs[i] \in Seq(States)
  OBVIOUS
<1>3. PICK T : T = {i \in 1 .. Len(seqs) :
                      /\ Distinct(f[i])
                      /\ \A e \in Range(f[i]) : \E k \in 1 .. i : e \in Range(seqs[k])}
  OBVIOUS
<1>4. 1 \in T
  <2>1. 1 \in 1 .. Len(seqs) /\ 1 \in 1 .. 1
    BY <1>2
  <2>2. QED
    BY <1>1, <1>3, <2>1
<1>5. ASSUME NEW i \in 1 .. Len(seqs), i \in T, i < Len(seqs) PROVE i + 1 \in T
  <2>1. /\ i \in 1 .. Len(seqs) - 1 /\ i + 1 \in 1 .. Len(seqs)
        /\ 1 .. i + 1 = (1 .. i) \cup {i + 1}
        /\ \A k \in 1 .. i : k \in 1 .. Len(seqs) /\ k < i + 1
    BY <1>2, <1>5
  <2>2. f[i + 1] = f[i] \o seqs[i + 1] /\ f[i] \in Seq(States) /\ seqs[i + 1] \in Seq(States)
    BY <1>1, <1>2, <2>1
  <2>3. Range(f[i + 1]) = Range(f[i]) \cup Range(seqs[i + 1])
    BY <2>2, RangeConcatenation
  <2>4. \A e \in Range(f[i + 1]) : \E k \in 1 .. i + 1 : e \in Range(seqs[k])
    BY <1>3, <1>5, <2>1, <2>3
  <2>5. \A d \in Range(f[i]), e \in Range(seqs[i + 1]) : d.name # e.name
    BY <1>3, <1>5, <2>1
  <2>6. Distinct(f[i + 1])
    <3>1. PICK p, q : p = f[i] /\ q = seqs[i + 1]
      OBVIOUS
    <3>2. p \in Seq(States) /\ q \in Seq(States) /\ Distinct(p) /\ Distinct(q)
      BY <1>3, <1>5, <2>1, <2>2, <3>1
    <3>3. Distinct(p \o q)
      BY <2>5, <3>1, <3>2, DistinctConcat
    <3>4. QED
      BY <2>2, <3>1, <3>3
  <2>7. QED
    BY <1>3, <2>1, <2>4, <2>6
<1>6. \A i \in 1 .. Len(seqs) : i \in T
  BY <1>2, <1>4, <1>5, OneAfterTheOther
<1>7. QED
  BY <1>1, <1>2, <1>3, <1>6

\* getUpdatedStates leaves no two states of one name if the name of the saved one is
\* no name of the states that stay.
LEMMA UpdatedDistinct ==
  ASSUME NEW saved \in States, NEW edited, NEW states \in Seq(States), Distinct(states),
         \A s \in Range(states) : s.name # edited.name => s.name # saved.name,
         NEW order \in {"after", "before"}, NEW target
  PROVE  Distinct(GetUpdatedStates(saved, edited, states, order, target))
<1>1. CASE Single(edited, states)
  BY <1>1, UpdatedIs, DistinctShort
<1>2. CASE ~ Single(edited, states)
  <2>1. PICK ps : ps = PiecesOf(saved, edited, states, order, target)
    OBVIOUS
  <2>2. /\ ps \in Seq(Seq(States)) /\ Len(ps) = Len(states)
        /\ \A i \in 1 .. Len(states) :
             /\ states[i] \in States
             /\ ps[i] = Piece(saved, edited, order, target, states[i])
    <3>1. PiecesAre(ps, saved, edited, states, order, target)
      BY <2>1, PiecesOfSeq
    <3>2. QED
      BY <3>1 DEF PiecesAre
  <2>3. GetUpdatedStates(saved, edited, states, order, target) = FlattenSeq(ps)
    BY <1>2, <2>1, UpdatedIs
  <2>4. CASE states = <<>>
    <3>1. Len(ps) = 0 /\ ps = <<>>
      BY <2>2, <2>4, EmptySeq
    <3>2. FlattenSeq(ps) = <<>>
      BY <3>1 DEF FlattenSeq
    <3>3. QED
      BY <2>3, <3>2, DistinctShort
  <2>5. CASE states # <<>>
    <3>1. ps # <<>>
      BY <2>2, <2>5, EmptySeq
    <3>2. DOMAIN states = 1 .. Len(states) /\ \A k \in 1 .. Len(states) : states[k] \in Range(states)
      BY LenProperties, RangeEquality
    <3>3. ASSUME NEW k \in 1 .. Len(states) PROVE Distinct(ps[k])
      <4>1. PICK s : s = states[k]
        OBVIOUS
      <4>2. s \in States /\ ps[k] = Piece(saved, edited, order, target, s)
            /\ (s.name # edited.name => s.name # saved.name)
        BY <2>2, <3>2, <4>1
      <4>3. \/ ps[k] = <<>> \/ ps[k] = <<saved>> \/ ps[k] = <<s>>
            \/ s.name # saved.name /\ (ps[k] = <<saved, s>> \/ ps[k] = <<s, saved>>)
        <5>1. CASE s.name = target /\ s.name # edited.name /\ order = "before"
          BY <4>2, <5>1, Pieces DEF PieceByCase
        <5>2. CASE s.name = target /\ s.name # edited.name /\ order = "after"
          BY <4>2, <5>2, Pieces DEF PieceByCase
        <5>3. CASE s.name = target /\ s.name = edited.name
          BY <4>2, <5>3, Pieces DEF PieceByCase
        <5>4. CASE s.name # target /\ s.name = edited.name
          BY <4>2, <5>4, Pieces DEF PieceByCase
        <5>5. CASE s.name # target /\ s.name # edited.name
          BY <4>2, <5>5, Pieces DEF PieceByCase
        <5>6. QED
          BY <5>1, <5>2, <5>3, <5>4, <5>5
      <4>4. QED
        BY <4>2, <4>3, DistinctShort
    <3>4. ASSUME NEW j \in 1 .. Len(states), NEW k \in 1 .. Len(states), j < k,
                 NEW d \in Range(ps[j]), NEW e \in Range(ps[k])
          PROVE  d.name # e.name
      <4>1. PICK s, t : s = states[j] /\ t = states[k]
        OBVIOUS
      <4>2. /\ s \in States /\ t \in States /\ s \in Range(states) /\ t \in Range(states)
            /\ ps[j] = Piece(saved, edited, order, target, s)
            /\ ps[k] = Piece(saved, edited, order, target, t)
        BY <2>2, <3>2, <4>1
      <4>3. s.name # t.name
        BY <3>2, <3>4, <4>1 DEF Distinct
      <4>4. d \in PieceRange(saved, edited, target, s) /\ e \in PieceRange(saved, edited, target, t)
        BY <3>4, <4>2, PieceHas
      <4>5. (d = saved /\ s.name = target) \/ (d = s /\ s.name # saved.name)
        BY <4>2, <4>4 DEF PieceRange
      <4>6. (e = saved /\ t.name = target) \/ (e = t /\ t.name # saved.name)
        BY <4>2, <4>4 DEF PieceRange
      <4>7. QED
        BY <4>3, <4>5, <4>6
    <3>5. QED
      BY <2>2, <2>3, <3>1, <3>3, <3>4, DistinctFlattened
  <2>6. QED
    BY <2>4, <2>5
<1>3. QED
  BY <1>1, <1>2

\* What getOrderInfo offers is where the edited state was.
LEMMA StaysInPlace ==
  ASSUME NEW states \in Seq(States), Distinct(states), NEW i \in 1 .. Len(states),
         NEW saved \in States,
         NEW order, NEW target, order = GetOrderInfo(i, states).order,
         target = GetOrderInfo(i, states).target
  PROVE  GetUpdatedStates(saved, states[i], states, order, target)
           = [states EXCEPT ![i] = saved]
<1>1. /\ Len(states) \in Nat /\ DOMAIN states = 1 .. Len(states) /\ states # <<>>
      /\ \A k \in 1 .. Len(states) : states[k] \in States
  BY LenProperties, ElementOfSeq, EmptySeq
<1>2. PICK whole : whole = [states EXCEPT ![i] = saved]
  OBVIOUS
<1>3. /\ whole \in Seq(States) /\ Len(whole) = Len(states)
      /\ whole[i] = saved /\ \A k \in 1 .. Len(states) : k # i => whole[k] = states[k]
  BY <1>1, <1>2, ExceptSeq
<1>4. PICK edited : edited = states[i]
  OBVIOUS
<1>5. edited \in States /\ edited # NoState
  BY <1>1, <1>4, NoStateIsNone
<1>6. \A j \in 1 .. Len(states), k \in 1 .. Len(states) :
        j # k => states[j].name # states[k].name
  BY <1>1 DEF Distinct
<1>7. CASE Len(states) = 1
  <2>1. Single(edited, states)
    BY <1>5, <1>7 DEF Single
  <2>2. GetUpdatedStates(saved, edited, states, order, target) = <<saved>>
    BY <2>1, UpdatedIs
  <2>3. i = 1
    BY <1>1, <1>7
  <2>4. /\ <<saved>> \in Seq(States) /\ Len(<<saved>>) = 1 /\ <<saved>>[1] = saved
    BY OneElement
  <2>5. \A k \in 1 .. 1 : <<saved>>[k] = whole[k]
    BY <1>3, <2>3, <2>4
  <2>6. <<saved>> = whole
    BY <1>3, <1>7, <2>4, <2>5, SeqEqual
  <2>7. QED
    BY <1>2, <1>4, <2>2, <2>6
<1>8. CASE Len(states) # 1
  <2>1. Len(states) > 1 /\ ~ Single(edited, states)
    BY <1>1, <1>5, <1>8 DEF Single
  <2>2. \/ i = 1 /\ order = "before" /\ target = states[2].name
        \/ i > 1 /\ order = "after" /\ target = states[i - 1].name
    BY <1>1, <2>1 DEF GetOrderInfo
  <2>3. order \in {"after", "before"}
    BY <2>2
  <2>4. PICK ps : ps = PiecesOf(saved, edited, states, order, target)
    OBVIOUS
  <2>5. GetUpdatedStates(saved, edited, states, order, target) = FlattenSeq(ps)
    BY <2>1, <2>4, UpdatedIs
  <2>6. ps \in Seq(Seq(States)) /\ Len(ps) = Len(states)
    <3>1. ListsOf(ps, Len(states))
      BY <2>3, <2>4, PiecesTyped
    <3>2. QED
      BY <3>1 DEF ListsOf
  <2>7. ps # <<>>
    BY <2>1, <2>6, EmptySeq
  <2>8. ASSUME NEW k \in 1 .. Len(states)
        PROVE  ps[k] = IF states[k].name = target
                       THEN IF k = i THEN <<saved>>
                            ELSE IF order = "before" THEN <<saved, states[k]>>
                                 ELSE <<states[k], saved>>
                       ELSE IF k = i THEN <<>> ELSE <<states[k]>>
    <3>1. PICK s : s = states[k]
      OBVIOUS
    <3>2. s \in States /\ (s.name = edited.name <=> k = i)
      BY <1>1, <1>4, <1>6, <3>1
    <3>3. ps[k] = Piece(saved, edited, order, target, s)
      BY <2>3, <2>4, <3>1, PieceAt
    <3>4. PieceByCase(saved, edited, order, target, s) =
            IF s.name = target
            THEN IF s.name = edited.name THEN <<saved>>
                 ELSE IF order = "before" THEN <<saved, s>> ELSE <<s, saved>>
            ELSE IF s.name = edited.name THEN <<>> ELSE <<s>>
      BY DEF PieceByCase
    <3>5. Piece(saved, edited, order, target, s)
            = PieceByCase(saved, edited, order, target, s)
      BY <2>3, <3>2, Pieces
    <3>6. QED
      BY <3>1, <3>2, <3>3, <3>4, <3>5
  <2>9. CASE i = 1
    <3>1. order = "before" /\ target = states[2].name /\ 2 \in 1 .. Len(states)
      BY <2>1, <2>2, <2>9
    <3>2. PICK before : before = [k \in 0 .. Len(states) |-> IF k <= 1 THEN 0 ELSE k]
      OBVIOUS
    <3>3. /\ before[0] = 0 /\ before[Len(ps)] = Len(whole)
          /\ \A k \in 0 .. Len(ps) : before[k] \in Nat
      BY <1>1, <1>3, <2>1, <2>6, <3>2
    <3>4. ASSUME NEW k \in 1 .. Len(ps)
          PROVE  /\ before[k] = before[k - 1] + Len(ps[k])
                 /\ \A m \in 1 .. Len(ps[k]) : ps[k][m] = whole[before[k - 1] + m]
      <4>0. /\ k \in 1 .. Len(states) /\ k \in Nat /\ states[k] \in States
            /\ k - 1 \in 0 .. Len(states) /\ k \in 0 .. Len(states)
        BY <1>1, <2>6, <3>4
      <4>1. CASE k = 1
        <5>1. states[k].name # target
          BY <1>6, <3>1, <4>0, <4>1
        <5>2. ps[k] = <<>>
          BY <2>8, <2>9, <4>0, <4>1, <5>1
        <5>3. before[k] = 0 /\ before[k - 1] = 0
          BY <3>2, <4>0, <4>1
        <5>4. QED
          BY <5>2, <5>3
      <4>2. CASE k = 2
        <5>1. ps[k] = <<saved, states[k]>>
          <6>1. states[k].name = target /\ k # i /\ order = "before"
            BY <2>9, <3>1, <4>2
          <6>2. QED
            BY <2>8, <4>0, <6>1
        <5>2. Len(ps[k]) = 2 /\ ps[k][1] = saved /\ ps[k][2] = states[k]
          BY <4>0, <5>1, TwoElements
        <5>3. before[k] = 2 /\ before[k - 1] = 0
          BY <3>2, <4>0, <4>2
        <5>4. whole[1] = saved /\ whole[2] = states[k]
          BY <1>3, <2>9, <3>1, <4>2
        <5>5. \A m \in 1 .. 2 : m = 1 \/ m = 2
          OBVIOUS
        <5>6. QED
          BY <5>2, <5>3, <5>4, <5>5
      <4>3. CASE k > 2
        <5>1. states[k].name # target
          BY <1>6, <3>1, <4>0, <4>3
        <5>2. ps[k] = <<states[k]>>
          <6>1. k # i
            BY <2>9, <4>3
          <6>2. QED
            BY <2>8, <4>0, <5>1, <6>1
        <5>3. Len(ps[k]) = 1 /\ ps[k][1] = states[k]
          BY <4>0, <5>2, OneElement
        <5>4. before[k] = k /\ before[k - 1] = k - 1 /\ (k - 1) + 1 = k
          BY <3>2, <4>0, <4>3
        <5>5. whole[k] = states[k]
          BY <1>3, <2>9, <4>0, <4>3
        <5>6. \A m \in 1 .. 1 : m = 1
          OBVIOUS
        <5>7. QED
          BY <5>3, <5>4, <5>5, <5>6
      <4>4. QED
        BY <4>0, <4>1, <4>2, <4>3
    <3>5. FlattenSeq(ps) = whole
      BY <1>3, <2>6, <2>7, <3>3, <3>4, FlattenedTo
    <3>6. QED
      BY <1>2, <1>4, <2>5, <3>5
  <2>10. CASE i > 1
    <3>1. order = "after" /\ target = states[i - 1].name /\ i - 1 \in 1 .. Len(states)
      BY <1>1, <2>2, <2>10
    <3>2. PICK before : before = [k \in 0 .. Len(states) |-> IF k = i - 1 THEN k + 1 ELSE k]
      OBVIOUS
    <3>3. /\ before[0] = 0 /\ before[Len(ps)] = Len(whole)
          /\ \A k \in 0 .. Len(ps) : before[k] \in Nat
      <4>1. /\ 0 \in 0 .. Len(states) /\ Len(states) \in 0 .. Len(states)
            /\ 0 # i - 1 /\ Len(states) # i - 1 /\ i \in Nat
        BY <1>1, <2>10
      <4>2. before[0] = 0 /\ before[Len(states)] = Len(states)
        BY <3>2, <4>1
      <4>3. \A k \in 0 .. Len(states) : before[k] \in Nat
        BY <1>1, <3>2
      <4>4. QED
        BY <1>3, <2>6, <4>2, <4>3
    <3>4. ASSUME NEW k \in 1 .. Len(ps)
          PROVE  /\ before[k] = before[k - 1] + Len(ps[k])
                 /\ \A m \in 1 .. Len(ps[k]) : ps[k][m] = whole[before[k - 1] + m]
      <4>0. /\ k \in 1 .. Len(states) /\ k \in Nat /\ states[k] \in States
            /\ k - 1 \in 0 .. Len(states) /\ k \in 0 .. Len(states) /\ i \in Nat
        BY <1>1, <2>6, <3>4
      <4>1. CASE k = i
        <5>1. states[k].name # target
          BY <1>6, <3>1, <4>0, <4>1
        <5>2. ps[k] = <<>>
          BY <2>8, <4>0, <4>1, <5>1
        <5>3. before[k] = k /\ before[k - 1] = k
          BY <3>2, <4>0, <4>1
        <5>4. QED
          BY <4>0, <5>2, <5>3
      <4>2. CASE k = i - 1
        <5>1. ps[k] = <<states[k], saved>>
          <6>1. states[k].name = target /\ k # i /\ order # "before"
            BY <3>1, <4>0, <4>2
          <6>2. QED
            BY <2>8, <4>0, <6>1
        <5>2. Len(ps[k]) = 2 /\ ps[k][1] = states[k] /\ ps[k][2] = saved
          BY <4>0, <5>1, TwoElements
        <5>3. before[k] = k + 1 /\ before[k - 1] = k - 1 /\ (k - 1) + 1 = k /\ (k - 1) + 2 = k + 1
          BY <3>2, <4>0, <4>2
        <5>4. whole[k] = states[k] /\ whole[k + 1] = saved
          BY <1>3, <4>0, <4>2
        <5>5. \A m \in 1 .. 2 : m = 1 \/ m = 2
          OBVIOUS
        <5>6. QED
          BY <5>2, <5>3, <5>4, <5>5
      <4>3. CASE k # i /\ k # i - 1
        <5>1. states[k].name # target
          BY <1>6, <3>1, <4>0, <4>3
        <5>2. ps[k] = <<states[k]>>
          BY <2>8, <4>0, <4>3, <5>1
        <5>3. Len(ps[k]) = 1 /\ ps[k][1] = states[k]
          BY <4>0, <5>2, OneElement
        <5>4. before[k] = k /\ before[k - 1] = k - 1 /\ (k - 1) + 1 = k
          BY <3>2, <4>0, <4>3
        <5>5. whole[k] = states[k]
          BY <1>3, <4>0, <4>3
        <5>6. \A m \in 1 .. 1 : m = 1
          OBVIOUS
        <5>7. QED
          BY <5>3, <5>4, <5>5, <5>6
      <4>4. QED
        BY <4>1, <4>2, <4>3
    <3>5. FlattenSeq(ps) = whole
      BY <1>3, <2>6, <2>7, <3>3, <3>4, FlattenedTo
    <3>6. QED
      BY <1>2, <1>4, <2>5, <3>5
  <2>11. QED
    BY <1>1, <2>9, <2>10
<1>9. QED
  BY <1>7, <1>8

-----------------------------------------------------------------------------
(* Types.                                                                   *)

PolicyType == [states: Seq(States), default: Names \cup {NoName}]
FlyoutType ==
  [open: BOOLEAN, name: Names \cup {NoName}, nameError: BOOLEAN, body: Bodies,
   order: {"after", "before"}, target: Names \cup {NoName}, fixed: BOOLEAN]

LEMMA TypeFacts ==
  ASSUME TypeOK
  PROVE  /\ page \in {"loading", "ready", "gone"}
         /\ policy \in PolicyType /\ policy.states \in Seq(States)
         /\ policy.default \in Names \cup {NoName}
         /\ editing \in States \cup {NoState}
         /\ flyout \in FlyoutType /\ bodies \in Bodies
         /\ DOMAIN policy.states = 1 .. Len(policy.states)
         /\ Len(policy.states) \in Nat
         /\ \A i \in 1 .. Len(policy.states) :
              policy.states[i] \in States /\ policy.states[i] \in Range(policy.states)
<1>1. /\ page \in {"loading", "ready", "gone"}
      /\ policy \in PolicyType /\ policy.states \in Seq(States)
      /\ policy.default \in Names \cup {NoName}
      /\ editing \in States \cup {NoState}
      /\ flyout \in FlyoutType /\ bodies \in Bodies
  BY DEF TypeOK, PolicyType, FlyoutType
<1>2. /\ DOMAIN policy.states = 1 .. Len(policy.states) /\ Len(policy.states) \in Nat
      /\ \A i \in 1 .. Len(policy.states) : policy.states[i] \in States
  BY <1>1, LenProperties, ElementOfSeq
<1>3. Range(policy.states) = {policy.states[i] : i \in 1 .. Len(policy.states)}
  BY <1>1, RangeEquality
<1>4. QED
  BY <1>1, <1>2, <1>3

LEMMA NamesOfStates ==
  ASSUME NEW states \in Seq(States)
  PROVE  /\ NamesIn(states) \subseteq Names
         /\ NamesIn(states) = {states[i].name : i \in 1 .. Len(states)}
         /\ \A s \in Range(states) : s \in States /\ s.name \in NamesIn(states)
         /\ \A n \in NamesIn(states) : \E s \in Range(states) : s.name = n
<1>1. Range(states) = {states[i] : i \in 1 .. Len(states)}
  BY RangeEquality
<1>2. Range(states) \in SUBSET States
  BY RangeOfSeq
<1>3. QED
  BY <1>1, <1>2 DEF NamesIn, States

LEMMA OrderInfoTyped ==
  ASSUME NEW states \in Seq(States), NEW i \in 0 .. Len(states),
         NEW info, info = GetOrderInfo(i, states)
  PROVE  /\ info.order \in {"after", "before"} /\ info.fixed \in BOOLEAN
         /\ info.target \in Names \cup {NoName}
         /\ i = 0 => states = <<>> \/ info.target \in NamesIn(states)
         /\ i > 0 => Len(states) = 1 \/ info.target \in NamesIn(states)
<1>1. /\ NamesIn(states) \subseteq Names /\ Len(states) \in Nat
      /\ \A k \in 1 .. Len(states) : states[k].name \in NamesIn(states)
      /\ states # <<>> => Len(states) >= 1
  BY NamesOfStates, LenProperties, EmptySeq
<1>2. /\ info.order = IF i = 1 /\ Len(states) > 1 THEN "before" ELSE "after"
      /\ info.fixed = (Len(states) = IF i = 0 THEN 0 ELSE 1)
      /\ info.target = CASE i = 0 /\ states # <<>>    -> Last(states).name
                         [] i = 1 /\ Len(states) > 1  -> states[2].name
                         [] i > 1                     -> states[i - 1].name
                         [] OTHER                     -> NoName
  BY DEF GetOrderInfo
<1>3. info.order \in {"after", "before"} /\ info.fixed \in BOOLEAN
  BY <1>2
<1>4. CASE i = 0 /\ states # <<>>
  <2>1. info.target = states[Len(states)].name
    BY <1>2, <1>4 DEF Last
  <2>2. Len(states) \in 1 .. Len(states)
    BY <1>1, <1>4
  <2>3. QED
    BY <1>1, <1>3, <1>4, <2>1, <2>2
<1>5. CASE i = 1 /\ Len(states) > 1
  BY <1>1, <1>2, <1>3, <1>5
<1>6. CASE i > 1
  <2>1. info.target = states[i - 1].name
    BY <1>2, <1>6
  <2>2. i - 1 \in 1 .. Len(states)
    BY <1>1, <1>6
  <2>3. QED
    BY <1>1, <1>3, <1>6, <2>1, <2>2
<1>7. CASE ~ (i = 0 /\ states # <<>>) /\ ~ (i = 1 /\ Len(states) > 1) /\ ~ (i > 1)
  <2>1. info.target = NoName
    BY <1>2, <1>7
  <2>2. (i = 0 /\ states = <<>>) \/ (i = 1 /\ Len(states) = 1)
    <3>1. i = 0 \/ i = 1
      BY <1>1, <1>7
    <3>2. i <= Len(states)
      BY <1>1
    <3>3. i = 0 => states = <<>>
      BY <1>7
    <3>4. ASSUME i = 1 PROVE Len(states) = 1
      <4>1. Len(states) \in Nat /\ 1 <= Len(states) /\ ~ (Len(states) > 1)
        BY <1>1, <1>7, <3>2, <3>4
      <4>2. QED
        BY <4>1
    <3>5. QED
      BY <3>1, <3>3, <3>4
  <2>3. QED
    BY <1>3, <2>1, <2>2
<1>8. QED
  BY <1>4, <1>5, <1>6, <1>7

\* The flyout as it opens.
LEMMA OpenedTyped ==
  ASSUME TypeOK, NEW i \in 0 .. Len(policy.states)
  PROVE  /\ Opened(i) \in FlyoutType
         /\ Opened(i).open = TRUE /\ Opened(i).nameError = FALSE
         /\ Opened(i).name = IF i = 0 THEN NoName ELSE policy.states[i].name
         /\ i = 0 => policy.states = <<>> \/ Opened(i).target \in NamesIn(policy.states)
         /\ i > 0 => Len(policy.states) = 1 \/ Opened(i).target \in NamesIn(policy.states)
<1>1. PICK info : info = GetOrderInfo(i, policy.states)
  OBVIOUS
<1>2. /\ info.order \in {"after", "before"} /\ info.fixed \in BOOLEAN
      /\ info.target \in Names \cup {NoName}
      /\ i = 0 => policy.states = <<>> \/ info.target \in NamesIn(policy.states)
      /\ i > 0 => Len(policy.states) = 1 \/ info.target \in NamesIn(policy.states)
  BY <1>1, TypeFacts, OrderInfoTyped
<1>3. i # 0 => policy.states[i].name \in Names /\ policy.states[i].body \in Bodies
  <2>1. i # 0 => i \in 1 .. Len(policy.states)
    BY TypeFacts
  <2>2. QED
    BY <2>1, TypeFacts, StateFields
<1>4. PICK n, d : /\ n = IF i = 0 THEN NoName ELSE policy.states[i].name
                  /\ d = IF i = 0 THEN NewBody ELSE policy.states[i].body
  OBVIOUS
<1>5. n \in Names \cup {NoName} /\ d \in Bodies
  BY <1>3, <1>4, PolicyBounds
<1>6. Opened(i) = [open |-> TRUE, nameError |-> FALSE, name |-> n, body |-> d,
                   order |-> info.order, target |-> info.target, fixed |-> info.fixed]
  BY <1>1, <1>4 DEF Opened
<1>7. QED
  BY <1>2, <1>4, <1>5, <1>6 DEF FlyoutType

LEMMA ClosedTyped == Closed \in FlyoutType /\ Closed.open = FALSE
  BY PolicyBounds DEF Closed, FlyoutType

\* The policies of the cluster.
LEMMA StoredTyped ==
  ASSUME NEW p \in StoredPolicies
  PROVE  /\ p \in PolicyType /\ Distinct(p.states)
         /\ p.default \in NamesIn(p.states)
<1>a. PICK k \in 1 .. MaxStates : \E ns \in [1 .. k -> Names] :
        IsInjective(ns) /\ \E d \in Range(ns) : p = PolicyOf(ns, d)
  BY DEF StoredPolicies
<1>b. PICK ns \in [1 .. k -> Names] :
        IsInjective(ns) /\ \E d \in Range(ns) : p = PolicyOf(ns, d)
  BY <1>a
<1>1. PICK d \in Range(ns) : IsInjective(ns) /\ p = PolicyOf(ns, d)
  BY <1>b
<1>2. p.default = d /\ p.states = [i \in 1 .. k |-> [name |-> ns[i], body |-> i]]
      /\ p = [states |-> p.states, default |-> p.default]
  BY <1>1 DEF PolicyOf
<1>3. \A i \in 1 .. k : [name |-> ns[i], body |-> i] \in States
  BY <1>1, PolicyBounds DEF States, Bodies
<1>4. p.states \in Seq(States) /\ Len(p.states) = k /\ DOMAIN p.states = 1 .. k
  BY <1>1, <1>2, <1>3, PolicyBounds
<1>5. \A i \in 1 .. k : p.states[i].name = ns[i]
  BY <1>2
<1>6. Distinct(p.states)
  BY <1>1, <1>4, <1>5 DEF Distinct, IsInjective
<1>7. d \in NamesIn(p.states)
  <2>1. PICK i \in 1 .. k : ns[i] = d
    BY <1>1 DEF Range
  <2>2. QED
    BY <1>4, <1>5, <2>1, NamesOfStates
<1>8. d \in Names
  BY <1>1 DEF Range
<1>9. QED
  BY <1>2, <1>4, <1>6, <1>7, <1>8 DEF PolicyType

\* What a save stores.
LEMMA SaveEffect ==
  ASSUME TypeOK, OnSaveState
  PROVE  \E saved \in States, R \in Seq(States) :
           /\ saved = [name |-> flyout.name, body |-> flyout.body]
           /\ R = GetUpdatedStates(saved, editing, policy.states, flyout.order, flyout.target)
           /\ policy' \in PolicyType /\ policy'.states = R
           /\ \E d : /\ d = IF Len(R) = 1 THEN R[1].name ELSE policy.default
                     /\ policy'.default = IF editing # NoState /\ editing.name = d
                                          THEN saved.name ELSE d
<1>1. PICK saved : saved = [name |-> flyout.name, body |-> flyout.body]
  OBVIOUS
<1>2. flyout \in FlyoutType /\ policy.states \in Seq(States) /\ flyout.name # NoName
      /\ policy.default \in Names \cup {NoName}
  BY TypeFacts DEF OnSaveState
<1>3. /\ flyout.name \in Names /\ flyout.body \in Bodies
      /\ flyout.order \in {"after", "before"}
  BY <1>2 DEF FlyoutType
<1>4. saved \in States /\ saved.name \in Names
  BY <1>1, <1>3 DEF States
<1>5. PICK R : R = GetUpdatedStates(saved, editing, policy.states, flyout.order, flyout.target)
  OBVIOUS
<1>6. R \in Seq(States)
  BY <1>2, <1>3, <1>4, <1>5, UpdatedTyped
<1>7. PICK d : d = IF Len(R) = 1 THEN R[1].name ELSE policy.default
  OBVIOUS
<1>8. d \in Names \cup {NoName}
  <2>1. CASE Len(R) = 1
    <3>1. R[1] \in States
      BY <1>6, <2>1, ElementOfSeq
    <3>2. QED
      BY <1>7, <2>1, <3>1, StateFields
  <2>2. CASE Len(R) # 1
    BY <1>2, <1>7, <2>2
  <2>3. QED
    BY <2>1, <2>2
<1>9. policy' = GetUpdatedPolicy(saved, editing, flyout.order, flyout.target)
  BY <1>1 DEF OnSaveState
<1>10. policy' = [states |-> R, default |-> IF editing # NoState /\ editing.name = d
                                            THEN saved.name ELSE d]
  BY <1>5, <1>7, <1>9 DEF GetUpdatedPolicy
<1>11. policy' \in PolicyType
  BY <1>4, <1>6, <1>8, <1>10 DEF PolicyType
<1>12. QED
  BY <1>1, <1>4, <1>5, <1>6, <1>7, <1>10, <1>11

\* What a deletion leaves.
LEMMA DeleteEffect ==
  ASSUME TypeOK, NEW i \in DOMAIN policy.states, OnClickDeleteState(i)
  PROVE  \E R \in Seq(States) :
           /\ R = RemoveAt(policy.states, i) /\ Len(R) = Len(policy.states) - 1
           /\ \A k \in 1 .. Len(R) :
                R[k] = IF k < i THEN policy.states[k] ELSE policy.states[k + 1]
           /\ policy' \in PolicyType /\ policy'.states = R
           /\ policy'.default = IF policy.default = policy.states[i].name
                                THEN FirstName(R) ELSE policy.default
<1>1. /\ policy.states \in Seq(States) /\ i \in 1 .. Len(policy.states)
      /\ policy.default \in Names \cup {NoName}
  BY TypeFacts
<1>2. PICK R : R = RemoveAt(policy.states, i)
  OBVIOUS
<1>3. /\ R \in Seq(States) /\ Len(R) = Len(policy.states) - 1
      /\ \A k \in 1 .. Len(R) :
           R[k] = IF k < i THEN policy.states[k] ELSE policy.states[k + 1]
  BY <1>1, <1>2, RemovedAt
<1>4. FirstName(R) \in Names \cup {NoName}
  <2>1. CASE R = <<>>
    BY <2>1 DEF FirstName
  <2>2. CASE R # <<>>
    <3>1. Head(R) \in States
      BY <1>3, <2>2
    <3>2. QED
      BY <2>2, <3>1, StateFields DEF FirstName
  <2>3. QED
    BY <2>1, <2>2
<1>5. PICK d : d = IF policy.default = policy.states[i].name THEN FirstName(R) ELSE policy.default
  OBVIOUS
<1>6. d \in Names \cup {NoName}
  BY <1>1, <1>4, <1>5
<1>7. policy' = [states |-> R, default |-> d]
  BY <1>2, <1>5 DEF OnClickDeleteState
<1>8. policy' \in PolicyType
  BY <1>3, <1>6, <1>7 DEF PolicyType
<1>9. QED
  BY <1>2, <1>3, <1>5, <1>7, <1>8

LEMMA TypeAtFirst == Init => TypeOK
<1> SUFFICES ASSUME Init PROVE TypeOK
  OBVIOUS
<1>1. policy \in PolicyType
  BY DEF Init, EmptyPolicy, PolicyType
<1>2. flyout \in FlyoutType
  BY ClosedTyped DEF Init
<1>3. bodies \in Bodies
  BY PolicyBounds DEF Init, Bodies
<1>4. page \in {"loading", "ready", "gone"} /\ editing \in States \cup {NoState}
  BY DEF Init
<1>5. QED
  BY <1>1, <1>2, <1>3, <1>4 DEF TypeOK, PolicyType, FlyoutType

\* The type invariant, one variable after the other.
LEMMA TypedAgain ==
  ASSUME page' \in {"loading", "ready", "gone"}, policy' \in PolicyType,
         editing' \in States \cup {NoState}, flyout' \in FlyoutType, bodies' \in Bodies
  PROVE  TypeOK'
BY DEF TypeOK, PolicyType, FlyoutType

LEMMA TypeGetPolicyToEdit == TypeOK /\ GetPolicyToEdit => TypeOK'
<1> SUFFICES ASSUME TypeOK, GetPolicyToEdit PROVE TypeOK'
  OBVIOUS
<1>1. page' \in {"loading", "ready", "gone"}
  BY DEF GetPolicyToEdit
<1>2. policy' \in PolicyType
  BY TypeFacts, StoredTyped DEF GetPolicyToEdit
<1>3. editing' \in States \cup {NoState} /\ flyout' \in FlyoutType /\ bodies' \in Bodies
  BY TypeFacts DEF GetPolicyToEdit
<1>4. QED
  BY <1>1, <1>2, <1>3, TypedAgain

LEMMA TypeOnOpenFlyout == TypeOK /\ OnOpenFlyout => TypeOK'
<1> SUFFICES ASSUME TypeOK, OnOpenFlyout PROVE TypeOK'
  OBVIOUS
<1>1. flyout' \in FlyoutType
  <2>1. 0 \in 0 .. Len(policy.states)
    BY TypeFacts
  <2>2. QED
    BY <2>1, OpenedTyped DEF OnOpenFlyout
<1>2. /\ page' \in {"loading", "ready", "gone"} /\ policy' \in PolicyType
      /\ editing' \in States \cup {NoState} /\ bodies' \in Bodies
  BY TypeFacts DEF OnOpenFlyout
<1>3. QED
  BY <1>1, <1>2, TypedAgain

LEMMA TypeOnClickEditState ==
  ASSUME TypeOK, NEW i \in DOMAIN policy.states, OnClickEditState(i)
  PROVE  TypeOK'
<1>1. i \in 1 .. Len(policy.states) /\ i \in 0 .. Len(policy.states)
  BY TypeFacts
<1>2. flyout' \in FlyoutType
  BY <1>1, TypeFacts, OpenedTyped DEF OnClickEditState
<1>3. editing' \in States \cup {NoState}
  BY <1>1, TypeFacts DEF OnClickEditState
<1>4. /\ page' \in {"loading", "ready", "gone"} /\ policy' \in PolicyType /\ bodies' \in Bodies
  BY TypeFacts DEF OnClickEditState
<1>5. QED
  BY <1>2, <1>3, <1>4, TypedAgain

LEMMA TypeOnClickDeleteState ==
  ASSUME TypeOK, NEW i \in DOMAIN policy.states, OnClickDeleteState(i)
  PROVE  TypeOK'
<1>1. policy' \in PolicyType
  BY DeleteEffect
<1>2. /\ page' \in {"loading", "ready", "gone"} /\ flyout' \in FlyoutType
      /\ editing' \in States \cup {NoState} /\ bodies' \in Bodies
  BY TypeFacts DEF OnClickDeleteState
<1>3. QED
  BY <1>1, <1>2, TypedAgain

LEMMA TypeOnChangeDefaultState ==
  ASSUME TypeOK, NEW n \in Names, OnChangeDefaultState(n)
  PROVE  TypeOK'
<1>1. policy' \in PolicyType
  BY TypeFacts DEF OnChangeDefaultState, PolicyType
<1>2. /\ page' \in {"loading", "ready", "gone"} /\ flyout' \in FlyoutType
      /\ editing' \in States \cup {NoState} /\ bodies' \in Bodies
  BY TypeFacts DEF OnChangeDefaultState
<1>3. QED
  BY <1>1, <1>2, TypedAgain

LEMMA TypeOnChangeStateName ==
  ASSUME TypeOK, NEW n \in Names \cup {NoName}, OnChangeStateName(n)
  PROVE  TypeOK'
<1>1. Taken(n) \in BOOLEAN
  BY DEF Taken
<1>2. flyout' \in FlyoutType
  BY <1>1, TypeFacts DEF OnChangeStateName, FlyoutType
<1>3. /\ page' \in {"loading", "ready", "gone"} /\ policy' \in PolicyType
      /\ editing' \in States \cup {NoState} /\ bodies' \in Bodies
  BY TypeFacts DEF OnChangeStateName
<1>4. QED
  BY <1>2, <1>3, TypedAgain

LEMMA TypeOnChangeOrder ==
  ASSUME TypeOK, NEW o \in {"after", "before"}, NEW n \in Names, OnChangeOrder(o, n)
  PROVE  TypeOK'
<1>1. flyout' \in FlyoutType
  BY TypeFacts DEF OnChangeOrder, FlyoutType
<1>2. /\ page' \in {"loading", "ready", "gone"} /\ policy' \in PolicyType
      /\ editing' \in States \cup {NoState} /\ bodies' \in Bodies
  BY TypeFacts DEF OnChangeOrder
<1>3. QED
  BY <1>1, <1>2, TypedAgain

LEMMA TypeEditBody == TypeOK /\ EditBody => TypeOK'
<1> SUFFICES ASSUME TypeOK, EditBody PROVE TypeOK'
  OBVIOUS
<1>1. bodies + 1 \in Bodies
  BY TypeFacts, PolicyBounds DEF EditBody, Bodies
<1>2. flyout' \in FlyoutType /\ bodies' \in Bodies
  BY <1>1, TypeFacts DEF EditBody, FlyoutType
<1>3. /\ page' \in {"loading", "ready", "gone"} /\ policy' \in PolicyType
      /\ editing' \in States \cup {NoState}
  BY TypeFacts DEF EditBody
<1>4. QED
  BY <1>2, <1>3, TypedAgain

LEMMA TypeOnCloseFlyout == TypeOK /\ OnCloseFlyout => TypeOK'
<1> SUFFICES ASSUME TypeOK, OnCloseFlyout PROVE TypeOK'
  OBVIOUS
<1>1. /\ page' \in {"loading", "ready", "gone"} /\ policy' \in PolicyType
      /\ editing' \in States \cup {NoState} /\ bodies' \in Bodies /\ flyout' \in FlyoutType
  BY TypeFacts, ClosedTyped DEF OnCloseFlyout
<1>2. QED
  BY <1>1, TypedAgain

LEMMA TypeOnSaveState == TypeOK /\ OnSaveState => TypeOK'
<1> SUFFICES ASSUME TypeOK, OnSaveState PROVE TypeOK'
  OBVIOUS
<1>1. policy' \in PolicyType
  BY SaveEffect
<1>2. /\ page' \in {"loading", "ready", "gone"} /\ editing' \in States \cup {NoState}
      /\ bodies' \in Bodies /\ flyout' \in FlyoutType
  BY TypeFacts, ClosedTyped DEF OnSaveState
<1>3. QED
  BY <1>1, <1>2, TypedAgain

LEMMA TypeStep == TypeOK /\ [Next]_vars => TypeOK'
<1> SUFFICES ASSUME TypeOK, [Next]_vars PROVE TypeOK'
  OBVIOUS
<1>1. CASE UNCHANGED vars
  BY <1>1 DEF TypeOK, vars
<1>2. CASE \E i \in DOMAIN policy.states : OnClickEditState(i) \/ OnClickDeleteState(i)
  BY <1>2, TypeOnClickEditState, TypeOnClickDeleteState
<1>3. CASE \E n \in Names : OnChangeDefaultState(n)
  BY <1>3, TypeOnChangeDefaultState
<1>4. CASE \E n \in Names \cup {NoName} : OnChangeStateName(n)
  BY <1>4, TypeOnChangeStateName
<1>5. CASE \E o \in {"after", "before"}, n \in Names : OnChangeOrder(o, n)
  BY <1>5, TypeOnChangeOrder
<1>6. QED
  BY <1>1, <1>2, <1>3, <1>4, <1>5, TypeGetPolicyToEdit, TypeOnOpenFlyout, TypeEditBody,
     TypeOnCloseFlyout, TypeOnSaveState DEF Next

\* The variables of the visual editor have their types.
THEOREM PagesTyped == Spec => []TypeOK
BY TypeAtFirst, TypeStep, PTL DEF Spec

-----------------------------------------------------------------------------
(* No two states of one name.  The name under which a state would be saved  *)
(* is not taken by another one, for as long as the flyout is open.          *)

NameFree ==
  /\ page = "loading" => ~ flyout.open
  /\ ~ flyout.open => editing = NoState
  /\ flyout.open /\ ~ flyout.nameError /\ flyout.name # NoName => ~ Taken(flyout.name)

ApartInv == TypeOK /\ UniqueNames /\ NameFree

\* The user keeps to the flyout's state, and waits for the policy.
OneEdit == "edit" \notin Background /\ ~ EarlyActions

LEMMA UniqueIsDistinct == UniqueNames <=> Distinct(policy.states)
  BY DEF UniqueNames, Distinct

LEMMA UniqueIsDistinctNext == UniqueNames' <=> Distinct(policy'.states)
  BY DEF UniqueNames, Distinct

\* A step that leaves the list, what is edited and what is typed as they are.
LEMMA NameFreeKept ==
  ASSUME ApartInv, UNCHANGED <<page, editing>>, policy'.states = policy.states,
         flyout'.open = flyout.open, flyout'.nameError = flyout.nameError,
         flyout'.name = flyout.name
  PROVE  UniqueNames' /\ NameFree'
<1>1. UniqueNames'
  BY UniqueIsDistinct, UniqueIsDistinctNext DEF ApartInv
<1>2. \A n : Taken(n)' <=> Taken(n)
  BY DEF Taken
<1>3. NameFree'
  BY <1>2 DEF ApartInv, NameFree
<1>4. QED
  BY <1>1, <1>3

LEMMA ActsWhenReady == ASSUME OneEdit, Acts PROVE page = "ready"
  BY DEF OneEdit, Acts

LEMMA ApartGetPolicyToEdit ==
  ASSUME OneEdit, ApartInv, GetPolicyToEdit
  PROVE  UniqueNames' /\ NameFree'
<1>1. UniqueNames'
  <2>1. CASE policy' \in StoredPolicies
    BY <2>1, StoredTyped, UniqueIsDistinctNext
  <2>2. CASE UNCHANGED policy
    BY <2>2, UniqueIsDistinct, UniqueIsDistinctNext DEF ApartInv
  <2>3. QED
    BY <2>1, <2>2 DEF GetPolicyToEdit
<1>2. ~ flyout'.open /\ editing' = NoState /\ page' # "loading"
  BY DEF GetPolicyToEdit, ApartInv, NameFree
<1>3. QED
  BY <1>1, <1>2 DEF NameFree

LEMMA ApartOpened ==
  ASSUME OneEdit, ApartInv, OnOpenFlyout \/ \E i \in DOMAIN policy.states : OnClickEditState(i)
  PROVE  UniqueNames' /\ NameFree'
<1>1. page' = "ready" /\ policy' = policy
  BY ActsWhenReady DEF OnOpenFlyout, OnClickEditState, Clicks
<1>2. UniqueNames'
  BY <1>1, UniqueIsDistinct, UniqueIsDistinctNext DEF ApartInv
<1>3. CASE OnOpenFlyout
  <2>1. 0 \in 0 .. Len(policy.states)
    BY TypeFacts DEF ApartInv
  <2>2. flyout'.open /\ flyout'.name = NoName
    BY <1>3, <2>1, OpenedTyped DEF OnOpenFlyout, ApartInv
  <2>3. QED
    BY <1>1, <1>2, <2>2 DEF NameFree
<1>4. ASSUME NEW i \in DOMAIN policy.states, OnClickEditState(i)
      PROVE  NameFree'
  <2>1. i \in 1 .. Len(policy.states) /\ i \in 0 .. Len(policy.states) /\ i # 0
        /\ policy.states[i] \in States
    BY TypeFacts DEF ApartInv
  <2>2. ~ flyout.open
    BY <1>4 DEF OnClickEditState, Clicks, OneEdit
  <2>3. PICK n : n = policy.states[i].name
    OBVIOUS
  <2>4. flyout'.open /\ flyout'.name = n
    BY <1>4, <2>1, <2>2, <2>3, OpenedTyped DEF OnClickEditState, ApartInv
  <2>5. editing' # NoState /\ editing'.name = n
    BY <1>4, <2>1, <2>3, NoStateIsNone DEF OnClickEditState
  <2>6. ~ Taken(n)'
    BY <2>5 DEF Taken
  <2>7. QED
    BY <1>1, <2>4, <2>6 DEF NameFree
<1>5. QED
  BY <1>2, <1>3, <1>4

\* What a deletion leaves, as a set.
LEMMA DeletedHas ==
  ASSUME TypeOK, NEW i \in DOMAIN policy.states, OnClickDeleteState(i), Distinct(policy.states)
  PROVE  /\ Distinct(policy'.states)
         /\ \A e : e \in Range(policy'.states) <=>
              e \in Range(policy.states) /\ e # policy.states[i]
<1>1. PICK R \in Seq(States) :
        /\ Len(R) = Len(policy.states) - 1
        /\ \A k \in 1 .. Len(R) :
             R[k] = IF k < i THEN policy.states[k] ELSE policy.states[k + 1]
        /\ policy'.states = R
  BY DeleteEffect
<1>2. /\ DOMAIN R = 1 .. Len(R) /\ DOMAIN policy.states = 1 .. Len(policy.states)
      /\ Len(R) \in Nat /\ Len(policy.states) \in Nat
      /\ policy.states \in Seq(States) /\ i \in 1 .. Len(policy.states)
  BY TypeFacts, LenProperties
<1>3. Distinct(R)
  <2>1. ASSUME NEW j \in 1 .. Len(R), NEW k \in 1 .. Len(R), R[j].name = R[k].name
        PROVE  j = k
    <3>1. PICK p, q : p = (IF j < i THEN j ELSE j + 1) /\ q = (IF k < i THEN k ELSE k + 1)
      OBVIOUS
    <3>2. /\ p \in 1 .. Len(policy.states) /\ q \in 1 .. Len(policy.states)
          /\ p = q => j = k
      BY <1>1, <1>2, <3>1
    <3>3. R[j] = policy.states[p] /\ R[k] = policy.states[q]
      BY <1>1, <3>1
    <3>4. p = q
      BY <1>2, <2>1, <3>2, <3>3 DEF Distinct
    <3>5. QED
      BY <3>2, <3>4
  <2>2. QED
    BY <1>2, <2>1 DEF Distinct
<1>4. /\ Range(R) = {R[k] : k \in 1 .. Len(R)}
      /\ Range(policy.states) = {policy.states[k] : k \in 1 .. Len(policy.states)}
  BY <1>2, RangeEquality
<1>5. ASSUME NEW e \in Range(R)
      PROVE  e \in Range(policy.states) /\ e # policy.states[i]
  <2>1. PICK k \in 1 .. Len(R) : e = R[k]
    BY <1>4
  <2>2. PICK p : p = (IF k < i THEN k ELSE k + 1)
    OBVIOUS
  <2>3. p \in 1 .. Len(policy.states) /\ p # i /\ e = policy.states[p]
    BY <1>1, <1>2, <2>1, <2>2
  <2>4. policy.states[p] # policy.states[i]
    BY <1>2, <2>3 DEF Distinct
  <2>5. QED
    BY <1>4, <2>3, <2>4
<1>6. ASSUME NEW e \in Range(policy.states), e # policy.states[i]
      PROVE  e \in Range(R)
  <2>1. PICK p \in 1 .. Len(policy.states) : e = policy.states[p]
    BY <1>4
  <2>2. PICK k : k = (IF p < i THEN p ELSE p - 1)
    OBVIOUS
  <2>3. k \in 1 .. Len(R) /\ p = (IF k < i THEN k ELSE k + 1)
    BY <1>1, <1>2, <1>6, <2>1, <2>2
  <2>4. R[k] = e
    BY <1>1, <2>1, <2>3
  <2>5. QED
    BY <1>4, <2>3, <2>4
<1>7. QED
  BY <1>1, <1>3, <1>5, <1>6

LEMMA ApartOnClickDeleteState ==
  ASSUME ApartInv, NEW i \in DOMAIN policy.states, OnClickDeleteState(i)
  PROVE  UniqueNames' /\ NameFree'
<1>1. /\ Distinct(policy'.states)
      /\ \A e : e \in Range(policy'.states) <=>
           e \in Range(policy.states) /\ e # policy.states[i]
  BY DeletedHas, UniqueIsDistinct DEF ApartInv
<1>2. NamesIn(policy'.states) \subseteq NamesIn(policy.states)
  BY <1>1 DEF NamesIn
<1>3. UNCHANGED <<page, editing, flyout>>
  BY DEF OnClickDeleteState
<1>4. \A n : Taken(n)' => Taken(n)
  BY <1>2, <1>3 DEF Taken
<1>5. NameFree'
  BY <1>3, <1>4 DEF ApartInv, NameFree
<1>6. QED
  BY <1>1, <1>5, UniqueIsDistinctNext

LEMMA ApartTyping ==
  ASSUME OneEdit, ApartInv,
         \/ \E n \in Names : OnChangeDefaultState(n)
         \/ \E o \in {"after", "before"}, n \in Names : OnChangeOrder(o, n)
         \/ EditBody
  PROVE  UniqueNames' /\ NameFree'
<1>1. /\ UNCHANGED <<page, editing>> /\ policy'.states = policy.states
      /\ flyout'.open = flyout.open /\ flyout'.nameError = flyout.nameError
      /\ flyout'.name = flyout.name
  <2>1. policy \in PolicyType /\ flyout \in FlyoutType
    BY TypeFacts DEF ApartInv
  <2>2. QED
    BY <2>1 DEF OnChangeDefaultState, OnChangeOrder, EditBody, PolicyType, FlyoutType
<1>2. QED
  BY <1>1, NameFreeKept

LEMMA ApartOnChangeStateName ==
  ASSUME OneEdit, ApartInv, NEW n \in Names \cup {NoName}, OnChangeStateName(n)
  PROVE  UniqueNames' /\ NameFree'
<1>1. flyout \in FlyoutType
  BY TypeFacts DEF ApartInv
<1>2. /\ UNCHANGED <<page, policy, editing>>
      /\ flyout'.open = flyout.open /\ flyout'.nameError = Taken(n) /\ flyout'.name = n
  BY <1>1 DEF OnChangeStateName, FlyoutType
<1>3. Taken(n)' <=> Taken(n)
  BY <1>2 DEF Taken
<1>4. NameFree'
  BY <1>2, <1>3 DEF ApartInv, NameFree
<1>5. UniqueNames'
  BY <1>2, UniqueIsDistinct, UniqueIsDistinctNext DEF ApartInv
<1>6. QED
  BY <1>4, <1>5

\* The name a state is saved under is the name of no other state that stays.
LEMMA SavedNameFree ==
  ASSUME ApartInv, OnSaveState
  PROVE  \A s \in Range(policy.states) :
           s.name # editing.name => s.name # flyout.name
<1>1. flyout.open /\ ~ flyout.nameError /\ flyout.name # NoName
  BY DEF OnSaveState, InFlyout
<1>2. ~ Taken(flyout.name)
  BY <1>1 DEF ApartInv, NameFree
<1>3. \A s \in Range(policy.states) : s.name \in NamesIn(policy.states)
  BY DEF NamesIn
<1>4. QED
  BY <1>2, <1>3 DEF Taken

LEMMA ApartWhenClosed ==
  ASSUME OneEdit, ApartInv, OnCloseFlyout \/ OnSaveState
  PROVE  UniqueNames' /\ NameFree'
<1>1. ~ flyout'.open /\ editing' = NoState
  BY ClosedTyped DEF OnCloseFlyout, OnSaveState
<1>2. CASE OnCloseFlyout
  <2>1. UniqueNames'
    BY <1>2, UniqueIsDistinct, UniqueIsDistinctNext DEF ApartInv, OnCloseFlyout
  <2>2. QED
    BY <1>1, <2>1 DEF NameFree
<1>3. CASE OnSaveState
  <2>1. PICK saved \in States, R \in Seq(States) :
          /\ saved = [name |-> flyout.name, body |-> flyout.body]
          /\ R = GetUpdatedStates(saved, editing, policy.states, flyout.order, flyout.target)
          /\ policy'.states = R
    BY <1>3, SaveEffect DEF ApartInv
  <2>2. \A s \in Range(policy.states) : s.name # editing.name => s.name # saved.name
    BY <1>3, <2>1, SavedNameFree
  <2>3. policy.states \in Seq(States) /\ Distinct(policy.states)
        /\ flyout.order \in {"after", "before"}
    BY TypeFacts, UniqueIsDistinct DEF ApartInv, FlyoutType
  <2>4. Distinct(R)
    BY <2>1, <2>2, <2>3, UpdatedDistinct
  <2>5. QED
    BY <1>1, <2>1, <2>4, UniqueIsDistinctNext DEF NameFree
<1>4. QED
  BY <1>2, <1>3

LEMMA ApartAtFirst == Init => ApartInv
<1> SUFFICES ASSUME Init PROVE ApartInv
  OBVIOUS
<1>1. UniqueNames
  BY DEF Init, EmptyPolicy, UniqueNames
<1>2. NameFree
  BY ClosedTyped DEF Init, NameFree
<1>3. QED
  BY <1>1, <1>2, TypeAtFirst DEF ApartInv

LEMMA ApartStep == OneEdit /\ ApartInv /\ [Next]_vars => ApartInv'
<1> SUFFICES ASSUME OneEdit, ApartInv, [Next]_vars PROVE ApartInv'
  OBVIOUS
<1>1. TypeOK'
  BY TypeStep DEF ApartInv
<1>2. CASE UNCHANGED vars
  <2>1. UniqueNames' /\ NameFree'
    BY <1>2, NameFreeKept DEF vars
  <2>2. QED
    BY <1>1, <2>1 DEF ApartInv
<1>3. CASE OnOpenFlyout \/ \E i \in DOMAIN policy.states : OnClickEditState(i)
  BY <1>1, <1>3, ApartOpened DEF ApartInv
<1>4. CASE \E i \in DOMAIN policy.states : OnClickDeleteState(i)
  BY <1>1, <1>4, ApartOnClickDeleteState DEF ApartInv
<1>5. CASE \/ \E n \in Names : OnChangeDefaultState(n)
           \/ \E o \in {"after", "before"}, n \in Names : OnChangeOrder(o, n)
           \/ EditBody
  BY <1>1, <1>5, ApartTyping DEF ApartInv
<1>6. CASE \E n \in Names \cup {NoName} : OnChangeStateName(n)
  BY <1>1, <1>6, ApartOnChangeStateName DEF ApartInv
<1>7. CASE OnCloseFlyout \/ OnSaveState
  BY <1>1, <1>7, ApartWhenClosed DEF ApartInv
<1>8. CASE GetPolicyToEdit
  BY <1>1, <1>8, ApartGetPolicyToEdit DEF ApartInv
<1>9. QED
  BY <1>2, <1>3, <1>4, <1>5, <1>6, <1>7, <1>8 DEF Next

\* The types and both halves of the invariant hold in every state.
THEOREM ApartHolds == ASSUME OneEdit PROVE Spec => []ApartInv
<1>1. ApartInv /\ [Next]_vars => ApartInv'
  BY ApartStep
<1>2. QED
  BY <1>1, ApartAtFirst, PTL DEF Spec

\* No two states of the policy have one name.
THEOREM NamesStayUnique == ASSUME OneEdit PROVE Spec => []UniqueNames
<1>1. ApartInv => UniqueNames
  BY DEF ApartInv
<1>2. QED
  BY <1>1, ApartHolds, PTL

\* Saving an edited state without touching the order controls leaves it in place.
LEMMA InPlace == ASSUME ApartInv PROVE EditInPlace
<1> SUFFICES ASSUME NEW i \in DOMAIN policy.states, NEW n \in Names,
                    NEW info, info = GetOrderInfo(i, policy.states),
                    NEW saved, saved = [name |-> n, body |-> NewBody]
             PROVE  GetUpdatedStates(saved, policy.states[i], policy.states, info.order, info.target)
                      = [policy.states EXCEPT ![i] = saved]
  BY DEF EditInPlace
<1>1. saved \in States
  BY PolicyBounds DEF States
<1>2. policy.states \in Seq(States) /\ Distinct(policy.states) /\ i \in 1 .. Len(policy.states)
  BY TypeFacts, UniqueIsDistinct DEF ApartInv
<1>3. PICK order, target : order = info.order /\ target = info.target
  OBVIOUS
<1>4. GetUpdatedStates(saved, policy.states[i], policy.states, order, target)
        = [policy.states EXCEPT ![i] = saved]
  BY <1>1, <1>2, <1>3, StaysInPlace
<1>5. QED
  BY <1>3, <1>4

THEOREM EditsStayInPlace == ASSUME OneEdit PROVE Spec => []EditInPlace
<1>1. ApartInv => EditInPlace
  BY InPlace
<1>2. QED
  BY <1>1, ApartHolds, PTL

-----------------------------------------------------------------------------
(* The editor does to the set of states what it promises: the default state *)
(* is one of them, and while the flyout is open, the state it edits and the *)
(* one it is to be put next to are in the list.                             *)

Refers ==
  /\ \/ policy.default \in NamesIn(policy.states)
     \/ policy.states = <<>> /\ policy.default = NoName
  /\ page = "loading" => policy = EmptyPolicy
  /\ flyout.open =>
       \/ /\ editing = NoState
          /\ policy.states = <<>> \/ flyout.target \in NamesIn(policy.states)
       \/ /\ editing \in Range(policy.states)
          /\ Len(policy.states) = 1 \/ flyout.target \in NamesIn(policy.states)

EditorInv == ApartInv /\ Refers

\* Behind the open flyout the user deletes no state that it refers to.
OthersOnly == Background \subseteq {"default", "deleteOther"} /\ ~ EarlyActions

LEMMA OthersOnlyIsOneEdit == ASSUME OthersOnly PROVE OneEdit /\ "delete" \notin Background
  BY DEF OthersOnly, OneEdit

ContentOf(states) ==
  [n \in NamesIn(states) |-> (CHOOSE s \in Range(states) : s.name = n).body]

LEMMA ContentIs ==
  ASSUME NEW states \in Seq(States), Distinct(states)
  PROVE  /\ ContentOf(states) \in [NamesIn(states) -> Bodies]
         /\ \A s \in Range(states) : ContentOf(states)[s.name] = s.body
<1>1. ASSUME NEW s \in Range(states)
      PROVE  (CHOOSE t \in Range(states) : t.name = s.name) = s
  <2>1. PICK u : u = CHOOSE t \in Range(states) : t.name = s.name
    OBVIOUS
  <2>2. u \in Range(states) /\ u.name = s.name
    BY <2>1
  <2>3. u = s
    BY <2>2, ByName
  <2>4. QED
    BY <2>1, <2>3
<1>2. \A s \in Range(states) : s \in States /\ s.name \in NamesIn(states) /\ s.body \in Bodies
  BY NamesOfStates, StateFields
<1>3. \A s \in Range(states) : ContentOf(states)[s.name] = s.body
  BY <1>1, <1>2 DEF ContentOf
<1>4. \A n \in NamesIn(states) : ContentOf(states)[n] \in Bodies
  BY <1>2, <1>3, NamesOfStates
<1>5. ContentOf(states) = [n \in NamesIn(states) |-> ContentOf(states)[n]]
  BY DEF ContentOf
<1>6. QED
  BY <1>3, <1>4, <1>5

LEMMA ContentNow == Content = ContentOf(policy.states) /\ Content' = ContentOf(policy'.states)
  BY DEF Content, ContentOf

ContentWith(states, old, saved) ==
  [k \in (NamesIn(states) \ {old}) \cup {saved.name} |->
     IF k = saved.name THEN saved.body ELSE ContentOf(states)[k]]

\* The content with a state that is saved.
LEMMA ContentSaved ==
  ASSUME NEW states \in Seq(States), Distinct(states), NEW R \in Seq(States), Distinct(R),
         NEW saved \in States, NEW old,
         \A e : e \in Range(R) <=> (e \in Range(states) /\ e.name # old) \/ e = saved,
         \A e \in Range(states) : e.name # old => e.name # saved.name
  PROVE  ContentOf(R) = ContentWith(states, old, saved)
<1>1. NamesIn(R) = (NamesIn(states) \ {old}) \cup {saved.name}
  BY DEF NamesIn
<1>2. ASSUME NEW k \in NamesIn(R)
      PROVE  ContentOf(R)[k] = IF k = saved.name THEN saved.body ELSE ContentOf(states)[k]
  <2>1. CASE k = saved.name
    BY <2>1, ContentIs
  <2>2. CASE k # saved.name
    <3>1. PICK e \in Range(states) : e.name = k
      BY <1>1, <2>2 DEF NamesIn
    <3>2. e \in Range(R)
      BY <1>1, <1>2, <2>2, <3>1
    <3>3. ContentOf(R)[k] = e.body /\ ContentOf(states)[k] = e.body
      BY <3>1, <3>2, ContentIs
    <3>4. QED
      BY <2>2, <3>3
  <2>3. QED
    BY <2>1, <2>2
<1>3. ContentOf(R) = [k \in NamesIn(R) |-> ContentOf(R)[k]]
  BY DEF ContentOf
<1>4. ContentOf(R) = [k \in NamesIn(R) |->
                        IF k = saved.name THEN saved.body ELSE ContentOf(states)[k]]
  BY <1>2, <1>3
<1>5. QED
  BY <1>1, <1>4 DEF ContentWith

\* The content without a state that is deleted.
LEMMA ContentDeleted ==
  ASSUME NEW states \in Seq(States), Distinct(states), NEW R \in Seq(States), Distinct(R),
         NEW gone \in Range(states),
         \A e : e \in Range(R) <=> e \in Range(states) /\ e # gone
  PROVE  ContentOf(R) = [k \in NamesIn(states) \ {gone.name} |-> ContentOf(states)[k]]
<1>0. \A e \in Range(states) : e # gone => e.name # gone.name
  BY ByName
<1>1. NamesIn(R) = NamesIn(states) \ {gone.name}
  BY <1>0 DEF NamesIn
<1>2. ASSUME NEW k \in NamesIn(R)
      PROVE  ContentOf(R)[k] = ContentOf(states)[k]
  <2>1. PICK e \in Range(R) : e.name = k
    BY <1>2 DEF NamesIn
  <2>2. QED
    BY <2>1, ContentIs
<1>3. ContentOf(R) = [k \in NamesIn(R) |-> ContentOf(R)[k]]
  BY DEF ContentOf
<1>4. QED
  BY <1>1, <1>2, <1>3

-----------------------------------------------------------------------------
(* A save.                                                                  *)

LEMMA OneInRange ==
  ASSUME NEW states \in Seq(States)
  PROVE  /\ Len(states) = 1 => Range(states) = {states[1]}
         /\ Len(states) = 0 => Range(states) = {} /\ states = <<>>
         /\ Range(states) = {} => states = <<>>
<1>1. Range(states) = {states[i] : i \in 1 .. Len(states)} /\ Len(states) \in Nat
  BY RangeEquality, LenProperties
<1>2. ASSUME Len(states) = 1 PROVE Range(states) = {states[1]}
  <2>1. 1 .. Len(states) = {1}
    BY <1>2
  <2>2. QED
    BY <1>1, <2>1
<1>3. ASSUME Len(states) = 0 PROVE Range(states) = {} /\ states = <<>>
  <2>1. 1 .. Len(states) = {} /\ states = <<>>
    BY <1>3, EmptySeq
  <2>2. QED
    BY <1>1, <2>1
<1>4. ASSUME Range(states) = {} PROVE states = <<>>
  <2>1. ~ 1 \in 1 .. Len(states)
    BY <1>1, <1>4
  <2>2. Len(states) = 0
    BY <1>1, <2>1
  <2>3. QED
    BY <2>2, EmptySeq
<1>5. QED
  BY <1>2, <1>3, <1>4

\* The list that is saved.
LEMMA SavedStates ==
  ASSUME EditorInv, OnSaveState
  PROVE  \E saved \in States, R \in Seq(States) :
           /\ policy'.states = R /\ Distinct(R)
           /\ \A e : e \in Range(R) <=>
                (e \in Range(policy.states) /\ e.name # editing.name) \/ e = saved
           /\ \A e \in Range(policy.states) : e.name # editing.name => e.name # saved.name
           /\ \E d : /\ d = IF Len(R) = 1 THEN R[1].name ELSE policy.default
                     /\ policy'.default = IF editing # NoState /\ editing.name = d
                                          THEN saved.name ELSE d
<1>1. PICK saved \in States, R \in Seq(States) :
        /\ saved = [name |-> flyout.name, body |-> flyout.body]
        /\ R = GetUpdatedStates(saved, editing, policy.states, flyout.order, flyout.target)
        /\ policy'.states = R
        /\ \E d : /\ d = IF Len(R) = 1 THEN R[1].name ELSE policy.default
                  /\ policy'.default = IF editing # NoState /\ editing.name = d
                                       THEN saved.name ELSE d
  BY SaveEffect DEF EditorInv, ApartInv
<1>2. /\ policy.states \in Seq(States) /\ Distinct(policy.states)
      /\ flyout.order \in {"after", "before"} /\ flyout.open
  BY TypeFacts, UniqueIsDistinct DEF EditorInv, ApartInv, FlyoutType, OnSaveState, InFlyout
<1>3. \A e \in Range(policy.states) : e.name # editing.name => e.name # saved.name
  BY <1>1, SavedNameFree DEF EditorInv
<1>4. Distinct(R)
  BY <1>1, <1>2, <1>3, UpdatedDistinct
<1>5. ASSUME NEW e
      PROVE  e \in Range(R) <=>
               (e \in Range(policy.states) /\ e.name # editing.name) \/ e = saved
  <2>1. CASE Single(editing, policy.states)
    <3>1. R = <<saved>>
      BY <1>1, <2>1, UpdatedIs
    <3>2. Range(R) = {saved}
      BY <3>1, OneElement
    <3>3. \A s \in Range(policy.states) : s.name = editing.name
      <4>1. CASE editing = NoState
        BY <1>2, <2>1, <4>1, OneInRange DEF Single
      <4>2. CASE editing # NoState
        BY <1>2, <2>1, <4>2, OneInRange DEF Single, EditorInv, Refers
      <4>3. QED
        BY <4>1, <4>2
    <3>4. QED
      BY <3>2, <3>3
  <2>2. CASE ~ Single(editing, policy.states)
    <3>1. \A s \in Range(policy.states) : s.name # NoName /\ s # NoState
      BY <1>2, NamesOfStates, StateFields, NoStateIsNone, VisualPolicyAssumption
    <3>2. flyout.target \in NamesIn(policy.states)
      <4>1. CASE editing = NoState
        <5>1. policy.states # <<>>
          BY <2>2, <4>1 DEF Single
        <5>2. QED
          BY <1>2, <3>1, <4>1, <5>1 DEF EditorInv, Refers
      <4>2. CASE editing # NoState
        <5>1. Len(policy.states) # 1
          BY <2>2, <4>2 DEF Single
        <5>2. QED
          BY <1>2, <4>2, <5>1 DEF EditorInv, Refers
      <4>3. QED
        BY <4>1, <4>2
    <3>3. \A s : s \in Range(R) <=>
            \/ s \in Range(policy.states) /\ s.name # editing.name
            \/ s = saved /\ flyout.target \in NamesIn(policy.states)
      BY <1>1, <1>2, <2>2, UpdatedHas
    <3>4. QED
      BY <3>2, <3>3
  <2>3. QED
    BY <2>1, <2>2
<1>6. QED
  BY <1>1, <1>3, <1>4, <1>5

\* The default state after a save.
LEMMA SavedDefault ==
  ASSUME EditorInv, OnSaveState,
         NEW saved \in States, NEW R \in Seq(States),
         policy'.states = R, Distinct(R),
         \A e : e \in Range(R) <=>
           (e \in Range(policy.states) /\ e.name # editing.name) \/ e = saved,
         \A e \in Range(policy.states) : e.name # editing.name => e.name # saved.name,
         NEW d, d = IF Len(R) = 1 THEN R[1].name ELSE policy.default,
         policy'.default = IF editing # NoState /\ editing.name = d THEN saved.name ELSE d
  PROVE  /\ editing = NoState =>
              policy'.default = IF policy.states = <<>> THEN saved.name ELSE policy.default
         /\ editing # NoState =>
              /\ editing \in Range(policy.states)
              /\ policy'.default = IF policy.default = editing.name THEN saved.name
                                   ELSE policy.default
         /\ policy'.default \in NamesIn(R)
<1>1. /\ policy.states \in Seq(States) /\ flyout.open
      /\ \A e \in Range(policy.states) :
           e \in States /\ e.name # NoName /\ e.name \in NamesIn(policy.states)
      /\ \A n \in NamesIn(policy.states) : \E e \in Range(policy.states) : e.name = n
  BY TypeFacts, NamesOfStates, StateFields, VisualPolicyAssumption
     DEF EditorInv, ApartInv, OnSaveState, InFlyout
<1>2. Len(R) = 1 => Range(R) = {R[1]}
  BY OneInRange
<1>3. saved \in Range(R) /\ \A e \in Range(R) : e.name \in NamesIn(R)
  BY DEF NamesIn
<1>4. CASE editing = NoState
  <2>1. CASE policy.states = <<>>
    <3>1. Range(policy.states) = {}
      BY <2>1 DEF Range
    <3>2. Range(R) = {saved}
      BY <3>1
    <3>3. Single(editing, policy.states)
      BY <1>4, <2>1 DEF Single
    <3>4. Len(R) = 1
      <4>1. PICK t \in States, Q \in Seq(States) :
              Q = GetUpdatedStates(t, editing, policy.states, flyout.order, flyout.target)
              /\ policy'.states = Q
        BY SaveEffect DEF EditorInv, ApartInv
      <4>2. Q = <<t>>
        BY <3>3, <4>1, UpdatedIs
      <4>3. QED
        BY <4>1, <4>2, OneElement
    <3>5. R[1] = saved
      BY <1>2, <3>2, <3>4
    <3>6. policy'.default = saved.name
      BY <1>4, <3>4, <3>5
    <3>7. QED
      BY <1>3, <1>4, <2>1, <3>6
  <2>2. CASE policy.states # <<>>
    <3>1. PICK e \in Range(policy.states) : e.name = policy.default
      BY <1>1, <2>2 DEF EditorInv, Refers
    <3>2. e \in Range(R) /\ e # saved
      BY <1>1, <1>4, <3>1, NoStateIsNone
    <3>3. Len(R) # 1
      BY <1>2, <1>3, <3>2
    <3>4. policy'.default = policy.default
      BY <1>4, <3>3
    <3>5. QED
      BY <1>3, <1>4, <2>2, <3>1, <3>2, <3>4
  <2>3. QED
    BY <2>1, <2>2
<1>5. CASE editing # NoState
  <2>1. editing \in Range(policy.states)
    BY <1>1, <1>5 DEF EditorInv, Refers
  <2>2. policy.states # <<>>
    BY <2>1 DEF Range
  <2>3. PICK e \in Range(policy.states) : e.name = policy.default
    BY <1>1, <2>2 DEF EditorInv, Refers
  <2>4. CASE Len(R) = 1
    <3>1. d = saved.name /\ Range(R) = {saved}
      BY <1>2, <1>3, <2>4
    <3>2. policy.default = editing.name
      BY <2>3, <3>1
    <3>3. policy'.default = saved.name
      BY <3>1
    <3>4. QED
      BY <1>3, <1>5, <2>1, <3>2, <3>3
  <2>5. CASE Len(R) # 1
    <3>1. d = policy.default
      BY <2>5
    <3>2. policy'.default = IF policy.default = editing.name THEN saved.name ELSE policy.default
      BY <1>5, <3>1
    <3>3. policy.default # editing.name => e \in Range(R)
      BY <2>3
    <3>4. policy'.default \in NamesIn(R)
      BY <1>3, <2>3, <3>2, <3>3
    <3>5. QED
      BY <1>5, <2>1, <3>2, <3>4
  <2>6. QED
    BY <2>4, <2>5
<1>6. QED
  BY <1>4, <1>5

\* The default state after a deletion.
LEMMA DeletedDefault ==
  ASSUME EditorInv, NEW i \in DOMAIN policy.states, OnClickDeleteState(i)
  PROVE  /\ policy.default = policy.states[i].name =>
              \/ policy'.default \in NamesIn(policy'.states)
              \/ policy'.states = <<>> /\ policy'.default = NoName
         /\ policy.default # policy.states[i].name =>
              policy'.default = policy.default /\ policy.default \in NamesIn(policy'.states)
<1>1. PICK R \in Seq(States) :
        /\ policy'.states = R
        /\ policy'.default = IF policy.default = policy.states[i].name
                             THEN FirstName(R) ELSE policy.default
  BY DeleteEffect DEF EditorInv, ApartInv
<1>2. \A e : e \in Range(R) <=> e \in Range(policy.states) /\ e # policy.states[i]
  BY <1>1, DeletedHas, UniqueIsDistinct DEF EditorInv, ApartInv
<1>3. CASE policy.default = policy.states[i].name
  <2>1. CASE R = <<>>
    BY <1>1, <1>3, <2>1 DEF FirstName
  <2>2. CASE R # <<>>
    <3>1. Len(R) \in Nat /\ Len(R) # 0 /\ Head(R) = R[1]
      BY <2>2, LenProperties, EmptySeq
    <3>2. Head(R) \in Range(R)
      BY <3>1, RangeEquality
    <3>3. Head(R).name \in NamesIn(R)
      BY <3>2 DEF NamesIn
    <3>4. QED
      BY <1>1, <1>3, <2>2, <3>3 DEF FirstName
  <2>3. QED
    BY <2>1, <2>2
<1>4. CASE policy.default # policy.states[i].name
  <2>1. policy'.default = policy.default
    BY <1>1, <1>4
  <2>2. policy.states # <<>>
    OBVIOUS
  <2>3. PICK e \in Range(policy.states) : e.name = policy.default
    BY <2>2 DEF EditorInv, Refers, NamesIn
  <2>4. e \in Range(R)
    BY <1>2, <1>4, <2>3
  <2>5. QED
    BY <1>1, <1>4, <2>1, <2>3, <2>4 DEF NamesIn
<1>5. QED
  BY <1>3, <1>4

-----------------------------------------------------------------------------
(* What the flyout refers to stays in the list.                             *)

LEMMA RefersInit == Init => Refers
<1> SUFFICES ASSUME Init PROVE Refers
  OBVIOUS
<1>1. policy.states = <<>> /\ policy.default = NoName
  BY DEF Init, EmptyPolicy
<1>2. QED
  BY <1>1, ClosedTyped DEF Init, Refers

LEMMA RefersGetPolicyToEdit ==
  ASSUME EditorInv, GetPolicyToEdit
  PROVE  Refers'
<1>1. ~ flyout'.open /\ page' # "loading"
  BY DEF GetPolicyToEdit, EditorInv, ApartInv, NameFree
<1>2. \/ policy'.default \in NamesIn(policy'.states)
      \/ policy'.states = <<>> /\ policy'.default = NoName
  <2>1. CASE policy' \in StoredPolicies
    BY <2>1, StoredTyped
  <2>2. CASE UNCHANGED policy
    BY <2>2 DEF EditorInv, Refers
  <2>3. QED
    BY <2>1, <2>2 DEF GetPolicyToEdit
<1>3. QED
  BY <1>1, <1>2 DEF Refers

LEMMA RefersOpened ==
  ASSUME OneEdit, EditorInv,
         OnOpenFlyout \/ \E i \in DOMAIN policy.states : OnClickEditState(i)
  PROVE  Refers'
<1>1. page' = "ready" /\ policy' = policy
  BY ActsWhenReady DEF OnOpenFlyout, OnClickEditState, Clicks
<1>2. \/ policy'.default \in NamesIn(policy'.states)
      \/ policy'.states = <<>> /\ policy'.default = NoName
  BY <1>1 DEF EditorInv, Refers
<1>3. CASE OnOpenFlyout
  <2>1. 0 \in 0 .. Len(policy.states)
    BY TypeFacts DEF EditorInv, ApartInv
  <2>2. /\ policy.states = <<>> \/ flyout'.target \in NamesIn(policy.states)
        /\ editing' = NoState
    BY <1>3, <2>1, OpenedTyped DEF OnOpenFlyout, EditorInv, ApartInv, NameFree
  <2>3. QED
    BY <1>1, <1>2, <2>2 DEF Refers
<1>4. ASSUME NEW i \in DOMAIN policy.states, OnClickEditState(i)
      PROVE  Refers'
  <2>1. i \in 1 .. Len(policy.states) /\ i \in 0 .. Len(policy.states) /\ i > 0
        /\ policy.states[i] \in Range(policy.states)
    BY TypeFacts DEF EditorInv, ApartInv
  <2>2. ~ flyout.open
    BY <1>4 DEF OnClickEditState, Clicks, OneEdit
  <2>3. /\ Len(policy.states) = 1 \/ flyout'.target \in NamesIn(policy.states)
        /\ editing' \in Range(policy.states)
    BY <1>4, <2>1, <2>2, OpenedTyped DEF OnClickEditState, EditorInv, ApartInv
  <2>4. QED
    BY <1>1, <1>2, <2>3 DEF Refers
<1>5. QED
  BY <1>3, <1>4

LEMMA RefersDelete ==
  ASSUME OthersOnly, EditorInv, NEW i \in DOMAIN policy.states, OnClickDeleteState(i)
  PROVE  Refers'
<1>1. page = "ready" /\ UNCHANGED <<page, editing, flyout>>
  BY OthersOnlyIsOneEdit, ActsWhenReady DEF OnClickDeleteState, Clicks
<1>2. \/ policy'.default \in NamesIn(policy'.states)
      \/ policy'.states = <<>> /\ policy'.default = NoName
  BY DeletedDefault
<1>3. ASSUME flyout.open
      PROVE  \/ /\ editing = NoState
                /\ policy'.states = <<>> \/ flyout.target \in NamesIn(policy'.states)
             \/ /\ editing \in Range(policy'.states)
                /\ Len(policy'.states) = 1 \/ flyout.target \in NamesIn(policy'.states)
  <2>1. policy.states[i].name # editing.name /\ policy.states[i].name # flyout.target
    BY <1>3, OthersOnlyIsOneEdit DEF OnClickDeleteState, Clicks
  <2>2. \A e : e \in Range(policy'.states) <=>
          e \in Range(policy.states) /\ e # policy.states[i]
    BY DeletedHas, UniqueIsDistinct DEF EditorInv, ApartInv
  <2>3. flyout.target \in NamesIn(policy.states) => flyout.target \in NamesIn(policy'.states)
    BY <2>1, <2>2 DEF NamesIn
  <2>4. editing \in Range(policy.states) => editing \in Range(policy'.states)
    BY <2>1, <2>2
  <2>5. policy.states # <<>> /\ policy.states \in Seq(States)
        /\ policy.states[i] \in Range(policy.states)
    BY TypeFacts DEF EditorInv, ApartInv
  <2>6. editing \in Range(policy.states) => Len(policy.states) # 1
    <3>1. ASSUME Len(policy.states) = 1, editing \in Range(policy.states) PROVE FALSE
      <4>1. Range(policy.states) = {policy.states[1]}
        BY <2>5, <3>1, OneInRange
      <4>2. QED
        BY <2>1, <2>5, <3>1, <4>1
    <3>2. QED
      BY <3>1
  <2>7. QED
    BY <1>3, <2>3, <2>4, <2>5, <2>6 DEF EditorInv, Refers
<1>4. QED
  BY <1>1, <1>2, <1>3 DEF Refers

LEMMA RefersTyping ==
  ASSUME OneEdit, EditorInv,
         \/ \E n \in Names : OnChangeDefaultState(n)
         \/ \E n \in Names \cup {NoName} : OnChangeStateName(n)
         \/ \E o \in {"after", "before"}, n \in Names : OnChangeOrder(o, n)
         \/ EditBody
  PROVE  Refers'
<1>1. policy \in PolicyType /\ flyout \in FlyoutType
  BY TypeFacts DEF EditorInv, ApartInv
<1>2. /\ page' = "ready" /\ UNCHANGED editing /\ policy'.states = policy.states
      /\ flyout'.open = flyout.open
  BY <1>1, ActsWhenReady DEF OnChangeDefaultState, OnChangeStateName, OnChangeOrder, EditBody,
     PolicyType, FlyoutType, Clicks, InFlyout
<1>3. flyout'.target = flyout.target \/ flyout'.target \in NamesIn(policy.states)
  BY <1>1 DEF OnChangeDefaultState, OnChangeStateName, OnChangeOrder, EditBody, FlyoutType
<1>4. policy'.default = policy.default \/ policy'.default \in NamesIn(policy.states)
  BY <1>1 DEF OnChangeDefaultState, OnChangeStateName, OnChangeOrder, EditBody, PolicyType
<1>5. QED
  BY <1>2, <1>3, <1>4 DEF EditorInv, Refers

LEMMA RefersClosed ==
  ASSUME OneEdit, EditorInv, OnCloseFlyout \/ OnSaveState
  PROVE  Refers'
<1>1. ~ flyout'.open /\ page' = "ready"
  BY ClosedTyped, ActsWhenReady DEF OnCloseFlyout, OnSaveState, InFlyout
<1>2. CASE OnCloseFlyout
  BY <1>1, <1>2 DEF OnCloseFlyout, EditorInv, Refers
<1>3. CASE OnSaveState
  <2>1. PICK saved \in States, R \in Seq(States) :
           /\ policy'.states = R /\ Distinct(R)
           /\ \A e : e \in Range(R) <=>
                (e \in Range(policy.states) /\ e.name # editing.name) \/ e = saved
           /\ \A e \in Range(policy.states) : e.name # editing.name => e.name # saved.name
           /\ \E d : /\ d = IF Len(R) = 1 THEN R[1].name ELSE policy.default
                     /\ policy'.default = IF editing # NoState /\ editing.name = d
                                          THEN saved.name ELSE d
    BY <1>3, SavedStates
  <2>2. policy'.default \in NamesIn(R)
    BY <1>3, <2>1, SavedDefault
  <2>3. QED
    BY <1>1, <2>1, <2>2 DEF Refers
<1>4. QED
  BY <1>2, <1>3

LEMMA EditorInvInit == Init => EditorInv
  BY ApartAtFirst, RefersInit DEF EditorInv

LEMMA EditorInvStep == OthersOnly /\ EditorInv /\ [Next]_vars => EditorInv'
<1> SUFFICES ASSUME OthersOnly, EditorInv, [Next]_vars PROVE EditorInv'
  OBVIOUS
<1>1. ApartInv' /\ OneEdit
  BY ApartStep, OthersOnlyIsOneEdit DEF EditorInv
<1>2. CASE UNCHANGED vars
  <2>1. Refers'
    BY <1>2 DEF vars, EditorInv, Refers
  <2>2. QED
    BY <1>1, <2>1 DEF EditorInv
<1>3. CASE OnOpenFlyout \/ \E i \in DOMAIN policy.states : OnClickEditState(i)
  BY <1>1, <1>3, RefersOpened DEF EditorInv
<1>4. CASE \E i \in DOMAIN policy.states : OnClickDeleteState(i)
  BY <1>1, <1>4, RefersDelete DEF EditorInv
<1>5. CASE \/ \E n \in Names : OnChangeDefaultState(n)
           \/ \E n \in Names \cup {NoName} : OnChangeStateName(n)
           \/ \E o \in {"after", "before"}, n \in Names : OnChangeOrder(o, n)
           \/ EditBody
  BY <1>1, <1>5, RefersTyping DEF EditorInv
<1>6. CASE OnCloseFlyout \/ OnSaveState
  BY <1>1, <1>6, RefersClosed DEF EditorInv
<1>7. CASE GetPolicyToEdit
  BY <1>1, <1>7, RefersGetPolicyToEdit DEF EditorInv
<1>8. QED
  BY <1>2, <1>3, <1>4, <1>5, <1>6, <1>7 DEF Next

\* The default state is one of the states of the policy, whatever is renamed or
\* deleted, and a policy without states has none.  (getUpdatedPolicy,
\* onClickDeleteState, onChangeDefaultState.)
THEOREM DefaultIsAState ==
  ASSUME OthersOnly
  PROVE  Spec => [](IF policy.states = <<>> THEN policy.default = NoName
                    ELSE policy.default \in NamesIn(policy.states))
<1>1. EditorInv => IF policy.states = <<>> THEN policy.default = NoName
                   ELSE policy.default \in NamesIn(policy.states)
  <2>1. NamesIn(<<>>) = {}
    BY DEF NamesIn, Range
  <2>2. QED
    BY <2>1 DEF EditorInv, Refers
<1>2. EditorInv /\ [Next]_vars => EditorInv'
  BY EditorInvStep
<1>3. QED
  BY <1>1, <1>2, EditorInvInit, PTL DEF Spec

-----------------------------------------------------------------------------
(* Every step adds, changes or removes one state, picks the default one or  *)
(* leaves states and default as they are.                                   *)

LEMMA SameStates ==
  ASSUME policy'.states = policy.states, policy'.default = policy.default
  PROVE  UNCHANGED Promised!stateVars
BY ContentNow DEF Promised!stateVars

LEMMA PromisedInit == Init => Promised!Init
<1> SUFFICES ASSUME Init PROVE Promised!Init
  OBVIOUS
<1>1. policy.states = <<>> /\ policy.default = NoName
  BY DEF Init, EmptyPolicy
<1>2. NamesIn(policy.states) = {}
  BY <1>1 DEF NamesIn, Range
<1>3. QED
  BY <1>1, <1>2 DEF Promised!Init, Promised!NamesOf, Content

LEMMA PromisedLoad ==
  ASSUME EditorInv, GetPolicyToEdit
  PROVE  [Promised!Next]_Promised!stateVars
<1>1. CASE UNCHANGED policy
  BY <1>1, SameStates
<1>2. CASE policy' \in StoredPolicies
  <2>1. policy = EmptyPolicy
    BY DEF GetPolicyToEdit, EditorInv, Refers
  <2>2. DOMAIN Content = {}
    BY <2>1 DEF Content, EmptyPolicy, NamesIn, Range
  <2>3. /\ policy'.states \in Seq(States) /\ Distinct(policy'.states)
        /\ policy'.default \in NamesIn(policy'.states)
    BY <1>2, StoredTyped DEF PolicyType
  <2>4. /\ Content' \in [NamesIn(policy'.states) -> Bodies]
        /\ NamesIn(policy'.states) \in SUBSET Names
    BY <2>3, ContentIs, ContentNow, NamesOfStates
  <2>5. Promised!Sound(Content', policy'.default)
    BY <2>3, <2>4 DEF Promised!Sound, Promised!NamesOf
  <2>6. Promised!Load
    BY <2>2, <2>4, <2>5 DEF Promised!Load, Promised!NamesOf
  <2>7. QED
    BY <2>6 DEF Promised!Next
<1>3. QED
  BY <1>1, <1>2 DEF GetPolicyToEdit

LEMMA PromisedDelete ==
  ASSUME EditorInv, NEW i \in DOMAIN policy.states, OnClickDeleteState(i)
  PROVE  [Promised!Next]_Promised!stateVars
<1>1. PICK n : n = policy.states[i].name
  OBVIOUS
<1>2. /\ policy.states \in Seq(States) /\ Distinct(policy.states)
      /\ policy.states[i] \in Range(policy.states) /\ policy.states[i] \in States
  BY TypeFacts, UniqueIsDistinct DEF EditorInv, ApartInv
<1>3. n \in Names /\ n \in NamesIn(policy.states)
  BY <1>1, <1>2, StateFields DEF NamesIn
<1>4. /\ policy'.states \in Seq(States) /\ Distinct(policy'.states)
      /\ \A e : e \in Range(policy'.states) <=>
           e \in Range(policy.states) /\ e # policy.states[i]
  BY DeletedHas, DeleteEffect, UniqueIsDistinct DEF EditorInv, ApartInv
<1>5. Content' = [k \in NamesIn(policy.states) \ {n} |-> Content[k]]
  <2>1. PICK states, R, gone :
          states = policy.states /\ R = policy'.states /\ gone = policy.states[i]
    OBVIOUS
  <2>2. /\ states \in Seq(States) /\ Distinct(states) /\ R \in Seq(States) /\ Distinct(R)
        /\ gone \in Range(states)
    BY <1>2, <1>4, <2>1
  <2>3. \A e : e \in Range(R) <=> e \in Range(states) /\ e # gone
    BY <1>4, <2>1
  <2>4. ContentOf(R) = [k \in NamesIn(states) \ {gone.name} |-> ContentOf(states)[k]]
    BY <2>2, <2>3, ContentDeleted
  <2>5. QED
    BY <1>1, <2>1, <2>4, ContentNow
<1>6. DOMAIN Content = NamesIn(policy.states)
  BY DEF Content
<1>7. Content' = Promised!Without(Content, n)
  BY <1>5, <1>6 DEF Promised!Without, Promised!NamesOf
<1>8. DOMAIN Content' = NamesIn(policy'.states)
  BY ContentNow DEF ContentOf
<1>9. IF policy.default = n THEN Promised!Sound(Content', policy'.default)
      ELSE policy'.default = policy.default
  <2>1. CASE policy.default = n
    <3>1. \/ policy'.default \in NamesIn(policy'.states)
          \/ policy'.states = <<>> /\ policy'.default = NoName
      BY <1>1, <2>1, DeletedDefault
    <3>2. policy'.states = <<>> => NamesIn(policy'.states) = {}
      BY DEF NamesIn, Range
    <3>3. Promised!Sound(Content', policy'.default)
      BY <1>8, <3>1, <3>2 DEF Promised!Sound, Promised!NamesOf
    <3>4. QED
      BY <2>1, <3>3
  <2>2. CASE policy.default # n
    BY <1>1, <2>2, DeletedDefault
  <2>3. QED
    BY <2>1, <2>2
<1>10. Promised!Remove(n)
  BY <1>3, <1>6, <1>7, <1>9 DEF Promised!Remove, Promised!NamesOf
<1>11. QED
  BY <1>3, <1>10 DEF Promised!Next

LEMMA PromisedChoose ==
  ASSUME EditorInv, NEW n \in Names, OnChangeDefaultState(n)
  PROVE  [Promised!Next]_Promised!stateVars
<1>1. policy \in PolicyType
  BY TypeFacts DEF EditorInv, ApartInv
<1>2. policy'.states = policy.states /\ policy'.default = n /\ n \in NamesIn(policy.states)
  BY <1>1 DEF OnChangeDefaultState, PolicyType
<1>3. Content' = Content /\ DOMAIN Content = NamesIn(policy.states)
  BY <1>2, ContentNow DEF Content
<1>4. Promised!Choose(n)
  BY <1>2, <1>3 DEF Promised!Choose, Promised!NamesOf
<1>5. QED
  BY <1>4 DEF Promised!Next

LEMMA PromisedSave ==
  ASSUME EditorInv, OnSaveState
  PROVE  [Promised!Next]_Promised!stateVars
<1>1. PICK saved \in States, R \in Seq(States) :
         /\ policy'.states = R /\ Distinct(R)
         /\ \A e : e \in Range(R) <=>
              (e \in Range(policy.states) /\ e.name # editing.name) \/ e = saved
         /\ \A e \in Range(policy.states) : e.name # editing.name => e.name # saved.name
         /\ \E d : /\ d = IF Len(R) = 1 THEN R[1].name ELSE policy.default
                   /\ policy'.default = IF editing # NoState /\ editing.name = d
                                        THEN saved.name ELSE d
  BY SavedStates
<1>2. /\ editing = NoState =>
              policy'.default = IF policy.states = <<>> THEN saved.name ELSE policy.default
      /\ editing # NoState =>
           /\ editing \in Range(policy.states)
           /\ policy'.default = IF policy.default = editing.name THEN saved.name
                                ELSE policy.default
  BY <1>1, SavedDefault
<1>3. /\ policy.states \in Seq(States) /\ Distinct(policy.states)
      /\ saved.name \in Names /\ saved.body \in Bodies
      /\ NamesIn(policy.states) \subseteq Names
  BY TypeFacts, UniqueIsDistinct, StateFields, NamesOfStates DEF EditorInv, ApartInv
<1>4. PICK old : old = editing.name
  OBVIOUS
<1>5. Content' = [k \in (NamesIn(policy.states) \ {old}) \cup {saved.name} |->
                    IF k = saved.name THEN saved.body ELSE Content[k]]
  <2>1. ContentOf(R) = [k \in (NamesIn(policy.states) \ {old}) \cup {saved.name} |->
                          IF k = saved.name THEN saved.body ELSE ContentOf(policy.states)[k]]
    <3>1. PICK states : states = policy.states
      OBVIOUS
    <3>2. states \in Seq(States) /\ Distinct(states)
      BY <1>3, <3>1
    <3>3. \A e : e \in Range(R) <=> (e \in Range(states) /\ e.name # old) \/ e = saved
      BY <1>1, <1>4, <3>1
    <3>4. \A e \in Range(states) : e.name # old => e.name # saved.name
      BY <1>1, <1>4, <3>1
    <3>9. R \in Seq(States) /\ Distinct(R) /\ saved \in States
      BY <1>1
    <3>5. ContentOf(R) = [k \in (NamesIn(states) \ {old}) \cup {saved.name} |->
                            IF k = saved.name THEN saved.body ELSE ContentOf(states)[k]]
      <4>1. ContentOf(R) = ContentWith(states, old, saved)
        BY <3>2, <3>3, <3>4, <3>9, ContentSaved
      <4>2. QED
        BY <4>1 DEF ContentWith
    <3>6. QED
      BY <3>1, <3>5
  <2>2. QED
    BY <1>1, <2>1, ContentNow
<1>6. DOMAIN Content = NamesIn(policy.states)
  BY DEF Content
<1>7. \A k \in NamesIn(policy.states) : k # old => k # saved.name
  BY <1>1, <1>4 DEF NamesIn
<1>8. CASE editing = NoState
  <2>1. old \notin NamesIn(policy.states)
    BY <1>3, <1>4, <1>8, NoStateIsNone, VisualPolicyAssumption
  <2>2. saved.name \notin NamesIn(policy.states)
    BY <1>7, <2>1
  <2>3. NamesIn(policy.states) \ {old} = NamesIn(policy.states)
    BY <2>1
  <2>4. Content' = Promised!With(Content, saved.name, saved.body)
    BY <1>5, <1>6, <2>3 DEF Promised!With, Promised!NamesOf
  <2>5. NamesIn(policy.states) = {} <=> policy.states = <<>>
    <3>1. policy.states = <<>> => NamesIn(policy.states) = {}
      BY DEF NamesIn, Range
    <3>2. NamesIn(policy.states) = {} => Range(policy.states) = {}
      BY DEF NamesIn
    <3>3. QED
      BY <1>3, <3>1, <3>2, OneInRange
  <2>6. policy'.default = IF DOMAIN Content = {} THEN saved.name ELSE policy.default
    BY <1>2, <1>6, <1>8, <2>5
  <2>7. Promised!Add(saved.name, saved.body)
    BY <1>6, <2>2, <2>4, <2>6 DEF Promised!Add, Promised!NamesOf
  <2>8. QED
    BY <1>3, <2>7 DEF Promised!Next
<1>9. CASE editing # NoState
  <2>1. old \in NamesIn(policy.states) /\ old \in Names
    BY <1>2, <1>3, <1>4, <1>9 DEF NamesIn
  <2>2. saved.name = old \/ saved.name \notin NamesIn(policy.states)
    BY <1>7
  <2>3. PICK less : less = Promised!Without(Content, old)
    OBVIOUS
  <2>4. /\ DOMAIN less = NamesIn(policy.states) \ {old}
        /\ \A k \in NamesIn(policy.states) \ {old} : less[k] = Content[k]
    BY <1>6, <2>3 DEF Promised!Without, Promised!NamesOf
  <2>5. Promised!With(less, saved.name, saved.body)
          = [k \in (NamesIn(policy.states) \ {old}) \cup {saved.name} |->
               IF k = saved.name THEN saved.body ELSE less[k]]
    BY <2>4 DEF Promised!With, Promised!NamesOf
  <2>6. Content' = Promised!With(less, saved.name, saved.body)
    BY <1>5, <2>4, <2>5
  <2>7. policy'.default = IF policy.default = old THEN saved.name ELSE policy.default
    BY <1>2, <1>4, <1>9
  <2>8. Promised!Change(old, saved.name, saved.body)
    BY <1>6, <2>1, <2>2, <2>3, <2>6, <2>7 DEF Promised!Change, Promised!NamesOf
  <2>9. QED
    BY <1>3, <2>1, <2>8 DEF Promised!Next
<1>10. QED
  BY <1>8, <1>9

LEMMA PromisedStep ==
  ASSUME EditorInv, [Next]_vars
  PROVE  [Promised!Next]_Promised!stateVars
<1>1. CASE UNCHANGED vars
  BY <1>1, SameStates DEF vars
<1>2. CASE GetPolicyToEdit
  BY <1>2, PromisedLoad
<1>3. CASE \E i \in DOMAIN policy.states : OnClickDeleteState(i)
  BY <1>3, PromisedDelete
<1>4. CASE \E n \in Names : OnChangeDefaultState(n)
  BY <1>4, PromisedChoose
<1>5. CASE OnSaveState
  BY <1>5, PromisedSave
<1>6. CASE \/ OnOpenFlyout
           \/ \E i \in DOMAIN policy.states : OnClickEditState(i)
           \/ \E n \in Names \cup {NoName} : OnChangeStateName(n)
           \/ \E o \in {"after", "before"}, n \in Names : OnChangeOrder(o, n)
           \/ EditBody
           \/ OnCloseFlyout
  <2>1. UNCHANGED policy
    BY <1>6 DEF OnOpenFlyout, OnClickEditState, OnChangeStateName, OnChangeOrder, EditBody,
                OnCloseFlyout
  <2>2. QED
    BY <2>1, SameStates
<1>7. QED
  BY <1>1, <1>2, <1>3, <1>4, <1>5, <1>6 DEF Next

\* Every gesture adds, changes or removes one state or picks the default one.
THEOREM OneStateAtATimeHolds == ASSUME OthersOnly PROVE Spec => OneStateAtATime
<1>1. Init => EditorInv /\ Promised!Init
  BY EditorInvInit, PromisedInit
<1>2. EditorInv /\ [Next]_vars => EditorInv'
  BY EditorInvStep
<1>3. EditorInv /\ [Next]_vars => [Promised!Next]_Promised!stateVars
  BY PromisedStep
<1>4. Spec => Promised!Spec
  BY <1>1, <1>2, <1>3, PTL DEF Spec, Promised!Spec
<1>5. QED
  BY <1>4 DEF OneStateAtATime

-----------------------------------------------------------------------------
(* The two halves of the editor together.                                   *)

\* The variables of the states and those of the actions and transitions have
\* their types, whichever half acts.
THEOREM EditorTyped == MCSpec => []EditorTypeOK
<1>1. MCInit => Init /\ BodyInit
  BY DEF MCInit
<1>2. [MCNext]_<<part, vars, bvars>> => [Next]_vars
  BY DEF MCNext
<1>3. [MCNext]_<<part, vars, bvars>> => [BodyNext]_bvars
  BY DEF MCNext
<1>4. MCSpec => Spec /\ BodySpec
  BY <1>1, <1>2, <1>3, PTL DEF MCSpec, Spec, BodySpec
<1>5. TypeOK /\ BodyTypeOK => EditorTypeOK
  BY DEF EditorTypeOK
<1>6. QED
  BY <1>4, <1>5, PagesTyped, BodyTypeCorrect, PTL

=============================================================================
