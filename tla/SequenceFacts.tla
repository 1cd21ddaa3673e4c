---------------------------- MODULE SequenceFacts ----------------------------
(***************************************************************************)
(* What the operators on sequences that the models use return: RemoveAt    *)
(* and InsertAt, by their places, and FlattenSeq, by a function that joins *)
(* the sequences one after the other, and by its elements.  The library    *)
(* states induction over the numbers for operators only; here it is stated *)
(* for sets.                                                               *)
(***************************************************************************)
EXTENDS Naturals, Sequences, SequencesExt, SequenceTheorems, WellFoundedInduction, TLAPS

-----------------------------------------------------------------------------
(* Induction over numbers.                                                  *)

\* Every set of numbers has a least one.
LEMMA Smallest ==
  ASSUME NEW S \in SUBSET Nat, S # {}
  PROVE  \E n \in S : \A m \in S : n <= m
<1>1. PICK R : R = {ss \in Nat \X Nat : ss[1] < ss[2]}
  OBVIOUS
<1>2. IsWellFoundedOn(R, Nat)
  BY <1>1, NatLessThanWellFounded DEF OpToRel
<1>3. \E n \in S : \A m \in S : ~ (<<m, n>> \in R)
  BY <1>2, WFMin
<1>4. \A m, n \in Nat : <<m, n>> \in R <=> m < n
  BY <1>1
<1>5. PICK n \in S : \A m \in S : ~ (<<m, n>> \in R)
  BY <1>3
<1>6. ASSUME NEW m \in S PROVE n <= m
  <2>1. n \in Nat /\ m \in Nat /\ ~ (<<m, n>> \in R)
    BY <1>5
  <2>2. ~ (m < n)
    BY <1>4, <2>1
  <2>3. QED
    BY <2>1, <2>2
<1>7. QED
  BY <1>6

\* A finite set of numbers has a greatest one.
LEMMA Greatest ==
  ASSUME NEW n \in Nat, NEW S \in SUBSET (0 .. n), S # {}
  PROVE  \E m \in S : \A k \in S : k <= m
<1>1. PICK T : T = {n - k : k \in S}
  OBVIOUS
<1>2. T \in SUBSET Nat /\ T # {}
  <2>1. \A k \in S : n - k \in Nat
    OBVIOUS
  <2>2. QED
    BY <1>1, <2>1
<1>3. PICK d \in T : \A e \in T : d <= e
  BY <1>2, Smallest
<1>4. PICK m \in S : d = n - m
  BY <1>1
<1>5. ASSUME NEW k \in S PROVE k <= m
  <2>1. d <= n - k
    BY <1>1, <1>3
  <2>2. k \in Nat /\ m \in Nat
    OBVIOUS
  <2>3. QED
    BY <1>4, <2>1, <2>2
<1>6. QED
  BY <1>5

\* A set that begins with the first and with each number holds the next holds
\* them all.
LEMMA OneAfterTheOther ==
  ASSUME NEW n \in Nat, NEW T, n > 0 => 1 \in T,
         \A i \in 1 .. n : i \in T /\ i < n => i + 1 \in T
  PROVE  \A i \in 1 .. n : i \in T
<1>1. SUFFICES ASSUME (1 .. n) \ T # {} PROVE FALSE
  OBVIOUS
<1>2. PICK m \in (1 .. n) \ T : \A k \in (1 .. n) \ T : m <= k
  <2>1. (1 .. n) \ T \in SUBSET Nat
    OBVIOUS
  <2>2. QED
    BY <1>1, <2>1, Smallest
<1>3. m # 1
  BY <1>2
<1>4. m - 1 \in 1 .. n /\ m - 1 < n /\ (m - 1) + 1 = m /\ ~ (m <= m - 1)
  BY <1>3
<1>5. m - 1 \in T
  BY <1>2, <1>4
<1>6. QED
  BY <1>2, <1>4, <1>5

-----------------------------------------------------------------------------
(* Sequences.                                                               *)

\* A sequence with one element removed, and with one inserted.
LEMMA RemovedAt ==
  ASSUME NEW S, NEW s \in Seq(S), NEW i \in 1 .. Len(s)
  PROVE  /\ RemoveAt(s, i) \in Seq(S)
         /\ Len(RemoveAt(s, i)) = Len(s) - 1
         /\ \A k \in 1 .. Len(s) - 1 : RemoveAt(s, i)[k] = IF k < i THEN s[k] ELSE s[k + 1]
<1>. DEFINE a == SubSeq(s, 1, i - 1)
            b == SubSeq(s, i + 1, Len(s))
<1>0. Len(s) \in Nat /\ \A k \in 1 .. Len(s) : s[k] \in S
  BY LenProperties, ElementOfSeq
<1>1. /\ a \in Seq(S) /\ Len(a) = i - 1
      /\ \A k \in 1 .. i - 1 : a[k] = s[k]
  <2>1. /\ a \in Seq(S) /\ Len(a) = IF 1 <= i - 1 THEN i - 1 - 1 + 1 ELSE 0
        /\ \A k \in 1 .. i - 1 - 1 + 1 : a[k] = s[1 + k - 1]
    <3>1. 1 \in Int /\ i - 1 \in Int /\ \A k \in 1 .. i - 1 : s[k] \in S
      BY <1>0
    <3>. QED  BY <3>1, SubSeqProperties
  <2>. QED  BY <2>1, <1>0
<1>2. /\ b \in Seq(S) /\ Len(b) = Len(s) - i
      /\ \A k \in 1 .. Len(s) - i : b[k] = s[i + k]
  <2>1. /\ b \in Seq(S) /\ Len(b) = IF i + 1 <= Len(s) THEN Len(s) - (i + 1) + 1 ELSE 0
        /\ \A k \in 1 .. Len(s) - (i + 1) + 1 : b[k] = s[(i + 1) + k - 1]
    <3>1. i + 1 \in Int /\ Len(s) \in Int /\ \A k \in i + 1 .. Len(s) : s[k] \in S
      BY <1>0
    <3>. QED  BY <3>1, SubSeqProperties
  <2>. QED  BY <2>1, <1>0
<1>3. /\ a \o b \in Seq(S) /\ Len(a \o b) = Len(a) + Len(b)
      /\ \A k \in 1 .. Len(a) + Len(b) : (a \o b)[k] = IF k <= Len(a) THEN a[k] ELSE b[k - Len(a)]
  BY <1>1, <1>2, ConcatProperties
<1>4. RemoveAt(s, i) = a \o b
  BY DEF RemoveAt
<1>. HIDE DEF a, b
<1>5. \A k \in 1 .. Len(s) - 1 : (a \o b)[k] = IF k < i THEN s[k] ELSE s[k + 1]
  <2>. SUFFICES ASSUME NEW k \in 1 .. Len(s) - 1
                PROVE  (a \o b)[k] = IF k < i THEN s[k] ELSE s[k + 1]
    OBVIOUS
  <2>1. CASE k < i
    BY <2>1, <1>0, <1>1, <1>2, <1>3
  <2>2. CASE ~(k < i)
    <3>1. k - (i - 1) \in 1 .. Len(s) - i /\ i + (k - (i - 1)) = k + 1
      BY <2>2, <1>0
    <3>2. b[k - (i - 1)] = s[k + 1]
      BY <3>1, <1>2
    <3>. QED  BY <2>2, <3>2, <1>0, <1>1, <1>2, <1>3
  <2>. QED  BY <2>1, <2>2
<1>. QED  BY <1>0, <1>1, <1>2, <1>3, <1>4, <1>5

LEMMA InsertedAt ==
  ASSUME NEW S, NEW s \in Seq(S), NEW e \in S, NEW j \in 1 .. Len(s) + 1
  PROVE  /\ InsertAt(s, j, e) \in Seq(S)
         /\ Len(InsertAt(s, j, e)) = Len(s) + 1
         /\ \A k \in 1 .. Len(s) + 1 :
              InsertAt(s, j, e)[k] = IF k < j THEN s[k] ELSE IF k = j THEN e ELSE s[k - 1]
<1>. DEFINE a == SubSeq(s, 1, j - 1)
            b == SubSeq(s, j, Len(s))
            m == a \o <<e>>
<1>0. Len(s) \in Nat /\ \A k \in 1 .. Len(s) : s[k] \in S
  BY LenProperties, ElementOfSeq
<1>1. /\ a \in Seq(S) /\ Len(a) = j - 1
      /\ \A k \in 1 .. j - 1 : a[k] = s[k]
  <2>1. /\ a \in Seq(S) /\ Len(a) = IF 1 <= j - 1 THEN j - 1 - 1 + 1 ELSE 0
        /\ \A k \in 1 .. j - 1 - 1 + 1 : a[k] = s[1 + k - 1]
    <3>1. 1 \in Int /\ j - 1 \in Int /\ \A k \in 1 .. j - 1 : s[k] \in S
      BY <1>0
    <3>. QED  BY <3>1, SubSeqProperties
  <2>. QED  BY <2>1, <1>0
<1>2. /\ b \in Seq(S) /\ Len(b) = Len(s) - j + 1
      /\ \A k \in 1 .. Len(s) - j + 1 : b[k] = s[j + k - 1]
  <2>1. /\ b \in Seq(S) /\ Len(b) = IF j <= Len(s) THEN Len(s) - j + 1 ELSE 0
        /\ \A k \in 1 .. Len(s) - j + 1 : b[k] = s[j + k - 1]
    <3>1. j \in Int /\ Len(s) \in Int /\ \A k \in j .. Len(s) : s[k] \in S
      BY <1>0
    <3>. QED  BY <3>1, SubSeqProperties
  <2>. QED  BY <2>1, <1>0
<1>3. /\ m \in Seq(S) /\ Len(m) = j
      /\ \A k \in 1 .. j : m[k] = IF k < j THEN s[k] ELSE e
  <2>1. m = Append(a, e)
    BY <1>1, AppendIsConcat
  <2>2. /\ Append(a, e) \in Seq(S) /\ Len(Append(a, e)) = Len(a) + 1
        /\ \A k \in 1 .. Len(a) : Append(a, e)[k] = a[k]
        /\ Append(a, e)[Len(a) + 1] = e
    BY <1>1, AppendProperties
  <2>. HIDE DEF a
  <2>. QED  BY <2>1, <2>2, <1>1
<1>. HIDE DEF a, b, m
<1>4. /\ m \o b \in Seq(S) /\ Len(m \o b) = Len(m) + Len(b)
      /\ \A k \in 1 .. Len(m) + Len(b) : (m \o b)[k] = IF k <= Len(m) THEN m[k] ELSE b[k - Len(m)]
  BY <1>2, <1>3, ConcatProperties
<1>5. InsertAt(s, j, e) = m \o b
  BY DEF InsertAt, a, b, m
<1>6. \A k \in 1 .. Len(s) + 1 :
        (m \o b)[k] = IF k < j THEN s[k] ELSE IF k = j THEN e ELSE s[k - 1]
  <2>. SUFFICES ASSUME NEW k \in 1 .. Len(s) + 1
                PROVE  (m \o b)[k] = IF k < j THEN s[k] ELSE IF k = j THEN e ELSE s[k - 1]
    OBVIOUS
  <2>1. CASE k <= j
    BY <2>1, <1>0, <1>2, <1>3, <1>4
  <2>2. CASE ~(k <= j)
    <3>1. k - j \in 1 .. Len(s) - j + 1 /\ j + (k - j) - 1 = k - 1
      BY <2>2, <1>0
    <3>2. b[k - j] = s[k - 1]
      BY <3>1, <1>2
    <3>. QED  BY <2>2, <3>2, <1>0, <1>2, <1>3, <1>4
  <2>. QED  BY <2>1, <2>2
<1>. QED  BY <1>0, <1>2, <1>3, <1>4, <1>5, <1>6

\* An entry that is moved is put back into the list without it, at a place that
\* list or its end has.  The list has the same entries as before: From(i, j, k) is
\* where the one at k was.
From(i, j, k) ==
  IF k = j THEN i
  ELSE LET r == IF k < j THEN k ELSE k - 1
       IN IF r < i THEN r ELSE r + 1

LEMMA Moved ==
  ASSUME NEW S, NEW s \in Seq(S), NEW i \in 1 .. Len(s), NEW j \in 1 .. Len(s)
  PROVE  /\ InsertAt(RemoveAt(s, i), j, s[i]) \in Seq(S)
         /\ Len(InsertAt(RemoveAt(s, i), j, s[i])) = Len(s)
         /\ \A k \in 1 .. Len(s) :
              /\ From(i, j, k) \in 1 .. Len(s)
              /\ InsertAt(RemoveAt(s, i), j, s[i])[k] = s[From(i, j, k)]
<1>. DEFINE r == RemoveAt(s, i)
            e == s[i]
            t == InsertAt(r, j, e)
<1>0. Len(s) \in Nat /\ e \in S
  BY LenProperties, ElementOfSeq
<1>1. /\ r \in Seq(S) /\ Len(r) = Len(s) - 1
      /\ \A k \in 1 .. Len(s) - 1 : r[k] = IF k < i THEN s[k] ELSE s[k + 1]
  BY RemovedAt
<1>. HIDE DEF r, e
<1>2. r \in Seq(S) /\ e \in S /\ j \in 1 .. Len(r) + 1
  BY <1>0, <1>1
<1>3. /\ t \in Seq(S) /\ Len(t) = Len(r) + 1
      /\ \A k \in 1 .. Len(r) + 1 :
           t[k] = IF k < j THEN r[k] ELSE IF k = j THEN e ELSE r[k - 1]
  <2>1. t \in Seq(S)
    BY <1>2, InsertedAt DEF t
  <2>2. Len(t) = Len(r) + 1
    BY <1>2, InsertedAt DEF t
  <2>3. ASSUME NEW k \in 1 .. Len(r) + 1
        PROVE  t[k] = IF k < j THEN r[k] ELSE IF k = j THEN e ELSE r[k - 1]
    BY <1>2, InsertedAt DEF t
  <2>. QED  BY <2>1, <2>2, <2>3
<1>. HIDE DEF t
<1>4. t \in Seq(S) /\ Len(t) = Len(s)
      /\ \A k \in 1 .. Len(s) :
           t[k] = IF k < j THEN r[k] ELSE IF k = j THEN e ELSE r[k - 1]
  BY <1>0, <1>1, <1>3
<1>5. \A k \in 1 .. Len(s) : From(i, j, k) \in 1 .. Len(s)
  BY <1>0 DEF From
<1>6. \A k \in 1 .. Len(s) : t[k] = s[From(i, j, k)]
  <2>. SUFFICES ASSUME NEW k \in 1 .. Len(s)
                PROVE  t[k] = s[From(i, j, k)]
    OBVIOUS
  <2>1. CASE k < j
    <3>1. k \in 1 .. Len(s) - 1 /\ t[k] = r[k]
      BY <1>0, <1>4, <2>1
    <3>. QED  BY <1>0, <1>1, <2>1, <3>1 DEF From
  <2>2. CASE k = j
    BY <1>0, <1>4, <2>2 DEF e, From
  <2>3. CASE k > j
    <3>1. k - 1 \in 1 .. Len(s) - 1 /\ t[k] = r[k - 1]
      BY <1>0, <1>4, <2>3
    <3>. QED  BY <1>0, <1>1, <2>3, <3>1 DEF From
  <2>. QED  BY <1>0, <2>1, <2>2, <2>3
<1>. QED  BY <1>4, <1>5, <1>6 DEF t, r, e

LEMMA FromIsInjective ==
  ASSUME NEW size \in Nat, NEW i \in 1 .. size, NEW j \in 1 .. size,
         NEW k \in 1 .. size, NEW n \in 1 .. size, From(i, j, k) = From(i, j, n)
  PROVE  k = n
BY DEF From

-----------------------------------------------------------------------------
(* Sequences of sequences.                                                  *)

\* f joins the first sequences.
Joins(f, seqs, n) ==
  f = [i \in 1 .. n |-> IF i = 1 THEN seqs[i] ELSE f[i - 1] \o seqs[i]]

LEMMA JoinsNext ==
  ASSUME NEW seqs, NEW n \in Nat \ {0}, NEW g, Joins(g, seqs, n)
  PROVE  \E h : Joins(h, seqs, n + 1)
<1>1. PICK h : h = [i \in 1 .. n + 1 |-> IF i = n + 1 THEN g[n] \o seqs[n + 1] ELSE g[i]]
  OBVIOUS
<1>2. ASSUME NEW i \in 1 .. n + 1
      PROVE  h[i] = IF i = 1 THEN seqs[i] ELSE h[i - 1] \o seqs[i]
  <2>1. CASE i = 1
    <3>1. h[i] = g[i] /\ i \in 1 .. n
      BY <1>1, <2>1
    <3>2. QED
      BY <2>1, <3>1 DEF Joins
  <2>2. CASE i # 1 /\ i # n + 1
    <3>1. h[i] = g[i] /\ h[i - 1] = g[i - 1] /\ i \in 1 .. n
      BY <1>1, <2>2
    <3>2. QED
      BY <2>2, <3>1 DEF Joins
  <2>3. CASE i = n + 1
    <3>1. i - 1 = n /\ n \in 1 .. n + 1 /\ n # n + 1 /\ i # 1
      BY <2>3
    <3>2. h[i] = g[n] \o seqs[i]
      BY <1>1, <2>3
    <3>3. h[i - 1] = g[n]
      BY <1>1, <3>1
    <3>4. QED
      BY <3>1, <3>2, <3>3
  <2>4. QED
    BY <2>1, <2>2, <2>3
<1>3. h = [i \in 1 .. n + 1 |-> h[i]]
  BY <1>1
<1>4. h = [i \in 1 .. n + 1 |-> IF i = 1 THEN seqs[i] ELSE h[i - 1] \o seqs[i]]
  BY <1>2, <1>3
<1>5. QED
  BY <1>4 DEF Joins

\* FlattenSeq joins them all.
LEMMA Flattened ==
  ASSUME NEW S, NEW seqs \in Seq(Seq(S)), seqs # <<>>
  PROVE  \E f : /\ f[1] = seqs[1]
                /\ \A i \in 1 .. Len(seqs) - 1 : f[i + 1] = f[i] \o seqs[i + 1]
                /\ \A i \in 1 .. Len(seqs) : f[i] \in Seq(S)
                /\ FlattenSeq(seqs) = f[Len(seqs)]
<1>1. Len(seqs) \in Nat /\ Len(seqs) > 0
  OBVIOUS
<1>2. PICK T : T = {i \in Nat \ {0} : \E f : Joins(f, seqs, i)}
  OBVIOUS
<1>3. 1 \in T
  <2>1. Joins([i \in 1 .. 1 |-> seqs[i]], seqs, 1)
    BY DEF Joins
  <2>2. QED
    BY <1>2, <2>1
<1>4. \A i \in 1 .. Len(seqs) : i \in T /\ i < Len(seqs) => i + 1 \in T
  BY <1>2, JoinsNext
<1>5. Len(seqs) \in T
  <2>1. \A i \in 1 .. Len(seqs) : i \in T
    BY <1>1, <1>3, <1>4, OneAfterTheOther
  <2>2. QED
    BY <1>1, <2>1
<1>6. PICK f : f = CHOOSE g : Joins(g, seqs, Len(seqs))
  OBVIOUS
<1>7. Joins(f, seqs, Len(seqs))
  BY <1>2, <1>5, <1>6
<1>8. FlattenSeq(seqs) = f[Len(seqs)]
  BY <1>1, <1>6 DEF FlattenSeq, Joins
<1>9. f[1] = seqs[1]
  BY <1>1, <1>7 DEF Joins
<1>10. ASSUME NEW i \in 1 .. Len(seqs) - 1 PROVE f[i + 1] = f[i] \o seqs[i + 1]
  <2>1. i + 1 \in 1 .. Len(seqs) /\ i + 1 # 1 /\ (i + 1) - 1 = i
    BY <1>1
  <2>2. QED
    BY <1>7, <2>1 DEF Joins
<1>11. \A i \in 1 .. Len(seqs) : f[i] \in Seq(S)
  <2>1. PICK U : U = {i \in 1 .. Len(seqs) : f[i] \in Seq(S)}
    OBVIOUS
  <2>2. \A i \in 1 .. Len(seqs) : seqs[i] \in Seq(S)
    BY <1>1
  <2>3. 1 \in U
    BY <1>1, <1>9, <2>1, <2>2
  <2>4. ASSUME NEW i \in 1 .. Len(seqs), i \in U, i < Len(seqs) PROVE i + 1 \in U
    <3>1. i \in 1 .. Len(seqs) - 1 /\ i + 1 \in 1 .. Len(seqs)
      BY <1>1, <2>4
    <3>2. f[i] \in Seq(S) /\ seqs[i + 1] \in Seq(S)
      BY <2>1, <2>2, <2>4, <3>1
    <3>3. f[i + 1] \in Seq(S)
      BY <1>10, <3>1, <3>2, ConcatProperties
    <3>4. QED
      BY <2>1, <3>1, <3>3
  <2>5. \A i \in 1 .. Len(seqs) : i \in U
    BY <1>1, <2>3, <2>4, OneAfterTheOther
  <2>6. QED
    BY <2>1, <2>5
<1>12. QED
  BY <1>8, <1>9, <1>10, <1>11

-----------------------------------------------------------------------------
(* The elements of sequences.                                               *)

\* Short sequences.
LEMMA NoElement ==
  ASSUME NEW S
  PROVE  <<>> \in Seq(S) /\ Range(<<>>) = {} /\ Len(<<>>) = 0
BY DEF Range

LEMMA OneElement ==
  ASSUME NEW S, NEW e \in S
  PROVE  <<e>> \in Seq(S) /\ Range(<<e>>) = {e} /\ Len(<<e>>) = 1 /\ <<e>>[1] = e
BY DEF Range

LEMMA TwoElements ==
  ASSUME NEW S, NEW d \in S, NEW e \in S
  PROVE  /\ <<d, e>> \in Seq(S) /\ Range(<<d, e>>) = {d, e} /\ Len(<<d, e>>) = 2
         /\ <<d, e>>[1] = d /\ <<d, e>>[2] = e
<1>1. /\ <<d, e>> \in Seq(S) /\ Len(<<d, e>>) = 2 /\ DOMAIN <<d, e>> = {1, 2}
      /\ <<d, e>>[1] = d /\ <<d, e>>[2] = e
  OBVIOUS
<1>2. Range(<<d, e>>) = {d, e}
  BY <1>1 DEF Range
<1>3. QED
  BY <1>1, <1>2

\* What one of the sequences has, the joined one has, and no more.
LEMMA FlattenedRange ==
  ASSUME NEW S, NEW seqs \in Seq(Seq(S)), seqs # <<>>
  PROVE  /\ FlattenSeq(seqs) \in Seq(S)
         /\ \A e : e \in Range(FlattenSeq(seqs)) <=> \E k \in 1 .. Len(seqs) : e \in Range(seqs[k])
<1>1. PICK f : /\ f[1] = seqs[1]
               /\ \A i \in 1 .. Len(seqs) - 1 : f[i + 1] = f[i] \o seqs[i + 1]
               /\ \A i \in 1 .. Len(seqs) : f[i] \in Seq(S)
               /\ FlattenSeq(seqs) = f[Len(seqs)]
  BY Flattened
<1>2. Len(seqs) \in Nat /\ Len(seqs) > 0 /\ \A i \in 1 .. Len(seqs) : seqs[i] \in Seq(S)
  OBVIOUS
<1>3. PICK T : T = {i \in 1 .. Len(seqs) :
                      \A e : e \in Range(f[i]) <=> \E k \in 1 .. i : e \in Range(seqs[k])}
  OBVIOUS
<1>4. 1 \in T
  BY <1>1, <1>2, <1>3
<1>5. ASSUME NEW i \in 1 .. Len(seqs), i \in T, i < Len(seqs) PROVE i + 1 \in T
  <2>1. /\ i \in 1 .. Len(seqs) - 1 /\ i + 1 \in 1 .. Len(seqs)
        /\ 1 .. i + 1 = (1 .. i) \cup {i + 1}
    BY <1>2, <1>5
  <2>2. f[i + 1] = f[i] \o seqs[i + 1] /\ f[i] \in Seq(S) /\ seqs[i + 1] \in Seq(S)
    BY <1>1, <1>2, <2>1
  <2>3. Range(f[i + 1]) = Range(f[i]) \cup Range(seqs[i + 1])
    BY <2>2, RangeConcatenation
  <2>4. ASSUME NEW e
        PROVE  e \in Range(f[i + 1]) <=> \E k \in 1 .. i + 1 : e \in Range(seqs[k])
    BY <1>3, <1>5, <2>1, <2>3
  <2>5. QED
    BY <1>3, <2>1, <2>4
<1>6. \A i \in 1 .. Len(seqs) : i \in T
  BY <1>2, <1>4, <1>5, OneAfterTheOther
<1>7. Len(seqs) \in T
  BY <1>2, <1>6
<1>8. FlattenSeq(seqs) \in Seq(S)
  BY <1>1, <1>2
<1>9. \A e : e \in Range(f[Len(seqs)]) <=> \E k \in 1 .. Len(seqs) : e \in Range(seqs[k])
  BY <1>3, <1>7
<1>10. QED
  BY <1>1, <1>8, <1>9

\* A sequence that has the pieces one after the other is the joined one: before
\* is how many entries the first ones have.
LEMMA FlattenedTo ==
  ASSUME NEW S, NEW seqs \in Seq(Seq(S)), seqs # <<>>, NEW whole \in Seq(S),
         NEW before, before[0] = 0, before[Len(seqs)] = Len(whole),
         \A k \in 0 .. Len(seqs) : before[k] \in Nat,
         \A k \in 1 .. Len(seqs) : before[k] = before[k - 1] + Len(seqs[k]),
         \A k \in 1 .. Len(seqs) : \A m \in 1 .. Len(seqs[k]) :
           seqs[k][m] = whole[before[k - 1] + m]
  PROVE  FlattenSeq(seqs) = whole
<1>1. PICK f : /\ f[1] = seqs[1]
               /\ \A i \in 1 .. Len(seqs) - 1 : f[i + 1] = f[i] \o seqs[i + 1]
               /\ \A i \in 1 .. Len(seqs) : f[i] \in Seq(S)
               /\ FlattenSeq(seqs) = f[Len(seqs)]
  BY Flattened
<1>2. Len(seqs) \in Nat /\ Len(seqs) > 0 /\ \A i \in 1 .. Len(seqs) : seqs[i] \in Seq(S)
  OBVIOUS
<1>3. \A i \in 1 .. Len(seqs) : Len(seqs[i]) \in Nat
  BY <1>2, LenProperties
<1>4. PICK T : T = {i \in 1 .. Len(seqs) :
                      Len(f[i]) = before[i] /\ \A m \in 1 .. before[i] : f[i][m] = whole[m]}
  OBVIOUS
<1>5. 1 \in T
  <2>1. 1 \in 1 .. Len(seqs) /\ 1 - 1 = 0
    BY <1>2
  <2>2. before[1] = Len(seqs[1])
    BY <1>3, <2>1
  <2>3. ASSUME NEW m \in 1 .. before[1] PROVE f[1][m] = whole[m]
    <3>1. m \in Nat /\ before[1 - 1] + m = m
      BY <1>3, <2>1, <2>2
    <3>2. seqs[1][m] = whole[before[1 - 1] + m]
      BY <2>1, <2>2
    <3>3. QED
      BY <1>1, <3>1, <3>2
  <2>4. QED
    BY <1>1, <1>4, <2>1, <2>2, <2>3
<1>6. ASSUME NEW i \in 1 .. Len(seqs), i \in T, i < Len(seqs) PROVE i + 1 \in T
  <2>1. i \in 1 .. Len(seqs) - 1 /\ i + 1 \in 1 .. Len(seqs) /\ (i + 1) - 1 = i /\ i \in 0 .. Len(seqs)
    BY <1>2, <1>6
  <2>2. f[i + 1] = f[i] \o seqs[i + 1] /\ f[i] \in Seq(S) /\ seqs[i + 1] \in Seq(S)
    BY <1>1, <1>2, <2>1
  <2>3. before[i + 1] = before[i] + Len(seqs[i + 1]) /\ before[i] \in Nat /\ Len(seqs[i + 1]) \in Nat
    BY <1>3, <2>1
  <2>4. Len(f[i]) = before[i] /\ \A m \in 1 .. before[i] : f[i][m] = whole[m]
    BY <1>4, <1>6
  <2>5. /\ Len(f[i + 1]) = before[i + 1]
        /\ \A m \in 1 .. before[i + 1] :
             f[i + 1][m] = IF m <= before[i] THEN f[i][m] ELSE seqs[i + 1][m - before[i]]
    <3>1. PICK p, q : p = f[i] /\ q = seqs[i + 1]
      OBVIOUS
    <3>2. p \in Seq(S) /\ q \in Seq(S) /\ f[i + 1] = p \o q
      BY <2>2, <3>1
    <3>3. /\ Len(p \o q) = Len(p) + Len(q)
          /\ \A m \in 1 .. Len(p) + Len(q) :
               (p \o q)[m] = IF m <= Len(p) THEN p[m] ELSE q[m - Len(p)]
      BY <3>2, ConcatProperties
    <3>4. Len(p) = before[i] /\ Len(p) + Len(q) = before[i + 1]
      BY <2>3, <2>4, <3>1
    <3>5. QED
      BY <3>1, <3>2, <3>3, <3>4
  <2>6. ASSUME NEW m \in 1 .. before[i + 1] PROVE f[i + 1][m] = whole[m]
    <3>1. CASE m <= before[i]
      BY <2>3, <2>4, <2>5, <3>1
    <3>2. CASE ~(m <= before[i])
      <4>1. m - before[i] \in 1 .. Len(seqs[i + 1]) /\ before[i] + (m - before[i]) = m
        <5>1. PICK b, l : b = before[i] /\ l = Len(seqs[i + 1])
          OBVIOUS
        <5>2. b \in Nat /\ l \in Nat /\ m \in 1 .. b + l /\ ~(m <= b)
          BY <2>3, <3>2, <5>1
        <5>3. m - b \in 1 .. l /\ b + (m - b) = m
          BY <5>2
        <5>4. QED
          BY <5>1, <5>3
      <4>2. seqs[i + 1][m - before[i]] = whole[before[(i + 1) - 1] + (m - before[i])]
        BY <2>1, <4>1
      <4>3. QED
        BY <2>1, <2>5, <3>2, <4>1, <4>2
    <3>3. QED
      BY <3>1, <3>2
  <2>7. QED
    BY <1>4, <2>1, <2>5, <2>6
<1>7. Len(seqs) \in T
  <2>1. \A i \in 1 .. Len(seqs) : i \in T
    BY <1>2, <1>5, <1>6, OneAfterTheOther
  <2>2. QED
    BY <1>2, <2>1
<1>8. f[Len(seqs)] \in Seq(S) /\ Len(f[Len(seqs)]) = Len(whole)
      /\ \A m \in 1 .. Len(whole) : f[Len(seqs)][m] = whole[m]
  BY <1>1, <1>2, <1>4, <1>7
<1>9. f[Len(seqs)] = whole
  BY <1>8, SeqEqual
<1>10. QED
  BY <1>1, <1>9

=============================================================================
