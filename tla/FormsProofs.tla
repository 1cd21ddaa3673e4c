------------------------------ MODULE FormsProofs ------------------------------
(***************************************************************************)
(* Theorems about JobForm, for every set of clusters and jobs, every       *)
(* choice of the six pages and every bound; about TransformDefinition, for *)
(* every set of names and any number of items and previews; and about the  *)
(* forms together.                                                         *)
(***************************************************************************)
EXTENDS MCForms, IndexPagesProofs, SequenceFacts

-----------------------------------------------------------------------------
(* The pages.                                                               *)

\* What the proofs use of the records of Forms.
LEMMA FormFields ==
  ASSUME NEW k \in Forms
  PROVE  /\ k.edits \in BOOLEAN /\ k.wizard \in BOOLEAN /\ k.shared \in BOOLEAN
         /\ k.async \in BOOLEAN /\ k.of \in JobKinds
         /\ k.edits => ~k.shared /\ ~k.wizard
         /\ Inputs(k) \cup k.fills \subseteq Field \ {"start", "dzone"}
         /\ k.now \cup k.late \cup k.lags \cup k.sets \subseteq Field
         /\ k.now \subseteq {"enabled", "option", "schedule", "zone"}
         /\ k.now \cap k.late = {} /\ k.now \cap k.lags = {} /\ k.late \cap k.lags = {}
         /\ k.sets \cap Inputs(k) = {} /\ k.now \cap k.sets = {}
         /\ k.of = "policy" => /\ k.late = {"retention", "age", "frequency"}
                               /\ k.fills = k.late /\ k.lags = {} /\ k.sets = {"dzone"}
                               /\ "zone" \in k.now
         /\ k.of # "policy" => /\ k.now \subseteq {"enabled", "option"}
                               /\ "schedule" \in k.late
                               /\ k.late \subseteq {"schedule", "zone", "delay"}
                               /\ k.sets = {"start"}
                               /\ k.edits => k.fills = k.late \ {"zone"}
         /\ k.of = "rollup" <=> "zone" \in k.late
<1>1. CASE k = CreateRollup
  BY <1>1 DEF CreateRollup, Field, Inputs, JobKinds
<1>2. CASE k = CreateTransform
  BY <1>2 DEF CreateTransform, CreateRollup, Field, Inputs, JobKinds
<1>3. CASE k = EditRollup
  BY <1>3 DEF EditRollup, CreateRollup, Field, Inputs, JobKinds
<1>4. CASE k = EditTransform
  BY <1>4 DEF EditTransform, EditRollup, CreateRollup, Field, Inputs, JobKinds
<1>5. CASE k = CreateSnapshotPolicy
  BY <1>5 DEF CreateSnapshotPolicy, Field, Inputs, JobKinds
<1>6. CASE k = EditSnapshotPolicy
  BY <1>6 DEF EditSnapshotPolicy, CreateSnapshotPolicy, Field, Inputs, JobKinds
<1>7. QED
  BY <1>1, <1>2, <1>3, <1>4, <1>5, <1>6 DEF Forms

LEMMA KindFields ==
  ASSUME FormTypeOK
  PROVE  kind \in Forms
  BY FormsAssumption DEF FormTypeOK

-----------------------------------------------------------------------------
(* Documents.                                                               *)

LEMMA ValueSeen ==
  ASSUME NEW f \in Field
  PROVE  /\ Value(f) \subseteq Seen(f) /\ Seen(f) \subseteq {0, 1, 2}
         /\ Seen(f) \subseteq Stored(f) /\ Stored(f) \subseteq {0, 1, 2, 3}
<1>1. Value(f) \subseteq Seen(f) /\ Seen(f) \subseteq {0, 1, 2}
  BY DEF Value, Seen, Field
<1>2. Seen(f) \subseteq Stored(f) /\ Stored(f) \subseteq {0, 1, 2, 3}
  BY DEF Seen, Stored, Field
<1>3. QED
  BY <1>1, <1>2

\* A document is a function on the fields whose values may be stored.
LEMMA MakesDocument ==
  ASSUME NEW d, d = [f \in Field |-> d[f]], \A f \in Field : d[f] \in Stored(f)
  PROVE  d \in Document
  BY ValueSeen DEF Document

LEMMA MakesShows ==
  ASSUME NEW d, d = [f \in Field |-> d[f]], \A f \in Field : d[f] \in Seen(f)
  PROVE  d \in Shows
  BY ValueSeen DEF Shows

LEMMA Empties ==
  /\ \A of : EmptyDoc(of) \in Document
  /\ NoDoc \in Document /\ EmptyForm \in Shows
  /\ \A of : Coherent(of, NoDoc)
<1>1. ASSUME NEW of PROVE EmptyDoc(of) \in Document
  <2>1. \A f \in Field : EmptyDoc(of)[f] \in Stored(f)
    BY DEF EmptyDoc, Field, Stored
  <2>2. QED
    BY <2>1, MakesDocument DEF EmptyDoc
<1>2. NoDoc \in Document
  <2>1. \A f \in Field : NoDoc[f] \in Stored(f)
    BY DEF NoDoc, Field, Stored
  <2>2. QED
    BY <2>1, MakesDocument DEF NoDoc
<1>3. EmptyForm \in Shows
  <2>1. \A f \in Field : EmptyForm[f] \in Seen(f)
    BY DEF EmptyForm, Field, Seen
  <2>2. QED
    BY <2>1, MakesShows DEF EmptyForm
<1>4. \A of : Coherent(of, NoDoc)
  BY DEF Coherent, NoDoc, Field
<1>5. QED
  BY <1>1, <1>2, <1>3, <1>4

LEMMA FilledShows ==
  ASSUME NEW k \in Forms, NEW d \in Document
  PROVE  Filled(k, d) \in Shows
<1>1. ASSUME NEW f \in Field, f \notin {"start", "dzone"} PROVE Image(d, f) \in Seen(f)
  <2>1. d[f] \in Stored(f)
    BY DEF Document
  <2>2. CASE f = "age"
    BY <2>1, <2>2 DEF Image, Stored, Seen
  <2>3. CASE f = "frequency"
    BY <2>3 DEF Image, Seen
  <2>4. CASE f = "delay"
    BY <2>1, <2>4 DEF Image, Stored, Seen
  <2>5. CASE f \in {"enabled", "option", "retention", "schedule", "zone"}
    BY <2>1, <2>5 DEF Image, Stored, Seen
  <2>6. QED
    BY <1>1, <2>2, <2>3, <2>4, <2>5 DEF Field
<1>2. \A f \in Field : EmptyForm[f] \in Seen(f)
  BY Empties DEF Shows
<1>3. k.now \cup k.lags \cup k.fills \subseteq Field \ {"start", "dzone"}
  BY FormFields DEF Inputs
<1>4. \A f \in Field : Filled(k, d)[f] \in Seen(f)
  BY <1>1, <1>2, <1>3 DEF Filled
<1>5. QED
  BY <1>4, MakesShows DEF Filled

\* What the inputs of a cron expression make of a loaded job.
LEMMA NarrowedSame ==
  ASSUME NEW d \in Document, NEW n \in Narrowed(d)
  PROVE  /\ n \in Document
         /\ \A f \in Field \ {"schedule"} : n[f] = d[f]
         /\ n["schedule"] = d["schedule"] \/ (kind.of = "policy" /\ d["schedule"] = 2)
<1>1. n = d \/ (n = [d EXCEPT !["schedule"] = 1] /\ kind.of = "policy" /\ d["schedule"] = 2)
  BY DEF Narrowed
<1>2. d \in [Field -> {0, 1, 2, 3}] /\ \A f \in Field : d[f] \in Stored(f)
  BY DEF Document
<1>3. 1 \in Stored("schedule")
  BY DEF Stored
<1>4. [d EXCEPT !["schedule"] = 1] \in Document
  BY <1>2, <1>3, MakesDocument
<1>5. QED
  BY <1>1, <1>2, <1>4

\* The document that a page completes when the user submits it.
LEMMA CompleteFields ==
  ASSUME FormTypeOK, NEW f \in Field
  PROVE  /\ f \notin kind.late \cup kind.sets => Complete[f] = doc[f]
         /\ f \in kind.late \cup kind.sets /\ kind.of = "policy" =>
              Complete[f] = Retention[f] /\ f \in {"retention", "age", "frequency", "dzone"}
         /\ f \in kind.late \cup kind.sets /\ kind.of # "policy" =>
              Complete[f] = Scheduled[f] /\ f \in {"schedule", "start", "zone", "delay"}
  BY KindFields, FormFields DEF Complete

LEMMA CompleteDocument ==
  ASSUME FormTypeOK
  PROVE  Complete \in Document
<1>1. /\ \A f \in Field : doc[f] \in Stored(f)
      /\ \A f \in Field : form[f] \in Seen(f)
  BY DEF FormTypeOK, Document, Shows
<1>2. /\ form["retention"] \in {0, 1} /\ form["frequency"] \in {0, 1}
      /\ form["age"] \in {1, 2} /\ form["schedule"] \in {0, 1, 2}
      /\ form["zone"] \in {0, 1, 2} /\ form["delay"] \in {0, 1, 2}
      /\ doc["zone"] \in {0, 1, 2}
  BY <1>1 DEF Field, Seen, Stored
<1>3. ASSUME NEW f \in Field PROVE Complete[f] \in Stored(f)
  <2>1. CASE f \notin kind.late \cup kind.sets
    BY <1>1, <2>1, CompleteFields
  <2>2. CASE f \in kind.late \cup kind.sets /\ kind.of # "policy"
    <3>1. Complete[f] = Scheduled[f] /\ f \in {"schedule", "start", "zone", "delay"}
      BY <2>2, CompleteFields
    <3>2. QED
      BY <1>2, <3>1 DEF Scheduled, Stored
  <2>3. CASE f \in kind.late \cup kind.sets /\ kind.of = "policy"
    <3>1. /\ Complete[f] = Retention[f]
          /\ f \in {"retention", "age", "frequency", "dzone"}
      BY <2>3, CompleteFields
    <3>2. QED
      BY <1>2, <3>1 DEF Retention, Stored
  <2>4. QED
    BY <2>1, <2>2, <2>3
<1>4. QED
  BY <1>3, MakesDocument DEF Complete

-----------------------------------------------------------------------------
(* Types.                                                                   *)

LEMMA NothingLoaded == NotLoaded \in Loads
  BY Empties DEF NotLoaded, Loads

\* A page that is mounted or starts again.
LEMMA BlankType ==
  ASSUME FormTypeOK, Blank, kind' = kind
  PROVE  /\ form' \in Shows /\ doc' \in Document /\ touched' \subseteq Inputs(kind')
         /\ loaded' \in Loads /\ step' \in 1..4
  BY Empties, NothingLoaded DEF Blank, Clean, FormTypeOK

\* A start, a stop or a deletion.
LEMMA ElsewhereType ==
  ASSUME FormTypeOK, NEW c \in Clusters, StartJob(c) \/ StopJob(c) \/ DeleteJob(c)
  PROVE  /\ job' \in [Clusters -> [there : BOOLEAN, seq : Nat, doc : Document]]
         /\ stopped' \in [Clusters -> Nat] /\ elsewhere' \in 0..MaxElsewhere
         /\ job'[c].seq = job[c].seq + 1
         /\ \A b \in Clusters \ {c} : job'[b] = job[b]
         /\ StopJob(c) => job'[c].there /\ job'[c].doc["enabled"] = 0
<1>1. /\ job \in [Clusters -> [there : BOOLEAN, seq : Nat, doc : Document]]
      /\ stopped \in [Clusters -> Nat]
      /\ elsewhere \in 0..MaxElsewhere /\ MaxElsewhere \in Nat
  BY FormAssumption DEF FormTypeOK
<1>2. elsewhere' \in 0..MaxElsewhere
  BY <1>1 DEF StartJob, StopJob, DeleteJob, Elsewhere
<1>3. ASSUME NEW v \in {0, 1}
      PROVE  [job[c].doc EXCEPT !["enabled"] = v] \in Document
  <2>1. v \in Stored("enabled")
    BY DEF Stored
  <2>2. /\ job[c].doc \in [Field -> {0, 1, 2, 3}]
        /\ \A f \in Field : job[c].doc[f] \in Stored(f)
    BY <1>1 DEF Document
  <2>3. QED
    BY <2>1, <2>2, MakesDocument
<1>4. ASSUME NEW v \in {0, 1}, job[c].there, job' = [job EXCEPT ![c] = Toggled(c, v)]
      PROVE  /\ job' \in [Clusters -> [there : BOOLEAN, seq : Nat, doc : Document]]
             /\ job'[c].seq = job[c].seq + 1 /\ job'[c].there = job[c].there
             /\ job'[c].doc["enabled"] = v
             /\ \A b \in Clusters \ {c} : job'[b] = job[b]
  <2>1. [job[c].doc EXCEPT !["enabled"] = v]["enabled"] = v
    BY <1>1 DEF Document, Field
  <2>2. job[c].there = TRUE /\ job[c].seq \in Nat
    BY <1>1, <1>4
  <2>3. QED
    BY <1>1, <1>3, <1>4, <2>1, <2>2 DEF Toggled
<1>5. CASE StartJob(c)
  <2>1. stopped' \in [Clusters -> Nat] /\ stopped'[c] = 0
    BY <1>1, <1>5 DEF StartJob
  <2>2. job[c].there /\ job' = [job EXCEPT ![c] = Toggled(c, 1)]
    BY <1>5 DEF StartJob, Elsewhere
  <2>3. ~StopJob(c)
    BY <1>1, <2>1 DEF StopJob
  <2>4. QED
    BY <1>2, <1>4, <2>1, <2>2, <2>3
<1>6. CASE StopJob(c)
  <2>1. stopped' \in [Clusters -> Nat]
    BY <1>1, <1>6 DEF StopJob
  <2>2. job[c].there /\ job' = [job EXCEPT ![c] = Toggled(c, 0)]
    BY <1>6 DEF StopJob, Elsewhere
  <2>3. QED
    BY <1>2, <1>4, <2>1, <2>2
<1>7. CASE DeleteJob(c)
  <2>1. job' = [job EXCEPT ![c] = [there |-> FALSE, seq |-> job[c].seq + 1,
                                   doc |-> NoDoc]]
        /\ stopped' = [stopped EXCEPT ![c] = 0]
    BY <1>1, <1>7 DEF DeleteJob, NoJob
  <2>2. ~job'[c].there
    BY <1>1, <2>1
  <2>3. ~StopJob(c)
    BY <1>1, <1>4, <2>2 DEF StopJob, Elsewhere
  <2>4. /\ job' \in [Clusters -> [there : BOOLEAN, seq : Nat, doc : Document]]
        /\ job'[c].seq = job[c].seq + 1 /\ stopped' \in [Clusters -> Nat]
        /\ \A b \in Clusters \ {c} : job'[b] = job[b]
    BY <1>1, <2>1, Empties
  <2>5. QED
    BY <1>2, <2>3, <2>4
<1>8. QED
  BY <1>5, <1>6, <1>7

\* The answer of the cluster to the request that saves.
LEMMA SaveType ==
  ASSUME FormTypeOK, Save
  PROVE  /\ put \in Puts /\ put' \in Puts
         /\ put' = [put EXCEPT !.done = put'.done, !.ok = put'.ok]
         /\ job' \in [Clusters -> [there : BOOLEAN, seq : Nat, doc : Document]]
         /\ basis' \in [Clusters -> Nat]
         /\ UNCHANGED <<job, basis>> \/
              /\ Accepts(put)
              /\ job' = [job EXCEPT ![put.cluster] = [there |-> TRUE,
                           seq |-> job[put.cluster].seq + 1, doc |-> put.doc]]
              /\ basis' = [basis EXCEPT ![put.cluster] = put.from.seq]
<1>1. put \in Puts
  BY DEF Save, FormTypeOK, NoPut
<1>2. /\ job \in [Clusters -> [there : BOOLEAN, seq : Nat, doc : Document]]
      /\ basis \in [Clusters -> Nat]
  BY DEF FormTypeOK
<1>3. put.cluster \in Clusters /\ put.doc \in Document /\ put.from.seq \in Nat
  BY <1>1 DEF Puts, Loads
<1>4. \E ok \in BOOLEAN : put' = [put EXCEPT !.done = TRUE, !.ok = ok]
  <2>1. [put EXCEPT !.done = TRUE] = [put EXCEPT !.done = TRUE, !.ok = put.ok]
        /\ put.ok \in BOOLEAN
    BY <1>1 DEF Puts
  <2>2. QED
    BY <2>1 DEF Save
<1>5. put' \in Puts /\ put' = [put EXCEPT !.done = put'.done, !.ok = put'.ok]
  BY <1>1, <1>4 DEF Puts
<1>6. UNCHANGED <<job, basis>> \/
        /\ Accepts(put)
        /\ job' = [job EXCEPT ![put.cluster] = [there |-> TRUE,
                     seq |-> job[put.cluster].seq + 1, doc |-> put.doc]]
        /\ basis' = [basis EXCEPT ![put.cluster] = put.from.seq]
  BY DEF Save
<1>7. /\ job' \in [Clusters -> [there : BOOLEAN, seq : Nat, doc : Document]]
      /\ basis' \in [Clusters -> Nat]
  <2>1. CASE UNCHANGED <<job, basis>>
    BY <1>2, <2>1
  <2>2. CASE /\ job' = [job EXCEPT ![put.cluster] = [there |-> TRUE,
                          seq |-> job[put.cluster].seq + 1, doc |-> put.doc]]
             /\ basis' = [basis EXCEPT ![put.cluster] = put.from.seq]
    BY <1>2, <1>3, <2>2
  <2>3. QED
    BY <1>6, <2>1, <2>2
<1>8. QED
  BY <1>1, <1>5, <1>6, <1>7

LEMMA FormTypeNext == FormTypeOK /\ [FormNext]_fvars => FormTypeOK'
<1> SUFFICES ASSUME FormTypeOK, [FormNext]_fvars PROVE FormTypeOK'
  OBVIOUS
<1> USE FormAssumption
<1>1. CASE Open
  <2>1. open' \in BOOLEAN /\ submitting' \in BOOLEAN
    BY <1>1 DEF Open
  <2>2. opens' \in 0..MaxOpens
    BY <1>1 DEF Open, FormTypeOK
  <2>3. QED
    BY <1>1, <2>1, <2>2, BlankType DEF Open, FormTypeOK
<1>2. CASE Load
  <2>1. job[where].there => job[where].seq \in Nat /\ job[where].doc \in Document
    BY DEF FormTypeOK
  <2>2. form' \in Shows /\ doc' \in Document /\ loaded' \in Loads
    <3>1. CASE UNCHANGED <<form, doc, loaded>>
      BY <3>1 DEF FormTypeOK
    <3>2. CASE job[where].there /\ form' = Filled(kind, doc')
               /\ doc' \in Narrowed(job[where].doc)
               /\ loaded' = [seq |-> job[where].seq, doc |-> job[where].doc]
      <4>1. doc' \in Document
        BY <2>1, <3>2, NarrowedSame
      <4>2. QED
        BY <2>1, <3>2, <4>1, KindFields, FilledShows DEF Loads
    <3>3. QED
      BY <1>2, <3>1, <3>2 DEF Load
  <2>3. open' \in BOOLEAN
    BY <1>2 DEF Load, FormTypeOK
  <2>4. QED
    BY <1>2, <2>2, <2>3 DEF Load, FormTypeOK, counts
<1>3. CASE Leave
  <2>1. open' \in BOOLEAN /\ submitting' \in BOOLEAN
    BY <1>3 DEF Leave
  <2>2. QED
    BY <1>3, <2>1 DEF Leave, FormTypeOK, counts, filled
<1>4. ASSUME NEW f \in Field, NEW v \in Value(f), Change(f, v) PROVE FormTypeOK'
  <2>1. form \in [Field -> {0, 1, 2}] /\ \A g \in Field : form[g] \in Seen(g)
    BY DEF FormTypeOK, Shows
  <2>2. form' \in Shows
    <3>1. PICK a \in Ages(f) : form' = [form EXCEPT !["age"] = a, ![f] = v]
      BY <1>4 DEF Change
    <3>2. a \in Seen("age") /\ v \in Seen(f)
      BY <2>1, ValueSeen DEF Ages, Seen, Field
    <3>3. QED
      BY <2>1, <3>1, <3>2, MakesShows
  <2>3. doc \in [Field -> {0, 1, 2, 3}] /\ \A g \in Field : doc[g] \in Stored(g)
    BY DEF FormTypeOK, Document
  <2>4. Written(f, v) \in Stored(f)
    BY <2>1, <2>3, ValueSeen DEF Written
  <2>5. [doc EXCEPT ![f] = Written(f, v)] \in Document
    BY <2>3, <2>4, MakesDocument
  <2>6. doc' \in Document /\ base' \in Document
    BY <1>4, <2>5 DEF Change, InPlace, FormTypeOK
  <2>7. edits' \in 0..MaxEdits /\ touched' \subseteq Inputs(kind)
    BY <1>4 DEF Change, FormTypeOK
  <2>8. QED
    BY <1>4, <2>2, <2>6, <2>7 DEF Change, FormTypeOK
<1>5. ASSUME NEW ok \in BOOLEAN, Next_(ok) PROVE FormTypeOK'
  BY <1>5 DEF Next_, FormTypeOK, counts
<1>6. CASE StartCheck
  BY <1>6 DEF StartCheck, FormTypeOK, counts, filled
<1>7. ASSUME NEW ok \in BOOLEAN, EndCheck(ok) PROVE FormTypeOK'
  BY <1>7 DEF EndCheck, FormTypeOK, counts
<1>8. CASE Prev
  BY <1>8 DEF Prev, FormTypeOK, counts
<1>9. ASSUME NEW s \in 1..3, Review(s) PROVE FormTypeOK'
  BY <1>9 DEF Review, FormTypeOK, counts
<1>10. ASSUME NEW c \in Clusters, SwitchCluster(c) PROVE FormTypeOK'
  <2>1. submitting' \in BOOLEAN
    BY <1>10 DEF SwitchCluster
  <2>2. opens' \in 0..MaxOpens
    BY <1>10 DEF SwitchCluster, FormTypeOK
  <2>3. QED
    BY <1>10, <2>1, <2>2, BlankType DEF SwitchCluster, FormTypeOK
<1>11. CASE Submit
  <2>1. doc' \in Document /\ base' \in Document
    BY <1>11, CompleteDocument DEF Submit, InPlace, FormTypeOK
  <2>2. Version \in Nat /\ loaded \in Loads
    BY DEF Version, FormTypeOK, Loads
  <2>3. touched \subseteq Field
    BY KindFields, FormFields DEF FormTypeOK, Inputs
  <2>4. put' \in Puts
    BY <1>11, <2>2, <2>3, CompleteDocument DEF Submit, Puts, FormTypeOK
  <2>5. QED
    BY <1>11, <2>1, <2>4 DEF Submit, FormTypeOK, counts
<1>12. CASE Save
  BY <1>12, SaveType DEF Save, FormTypeOK, counts, filled
<1>13. CASE SaveAnswered
  <2>1. submitting' \in BOOLEAN
    BY <1>13 DEF SaveAnswered, FormTypeOK, Freed
  <2>2. open' \in BOOLEAN
    BY <1>13 DEF SaveAnswered, FormTypeOK
  <2>3. checks' \in 0..2
    BY <1>13 DEF SaveAnswered, FormTypeOK
  <2>4. QED
    BY <1>13, <2>1, <2>2, <2>3 DEF SaveAnswered, FormTypeOK, counts, filled, NoPut
<1>14. ASSUME NEW c \in Clusters, StartJob(c) \/ StopJob(c) \/ DeleteJob(c)
       PROVE  FormTypeOK'
  BY <1>14, ElsewhereType
     DEF StartJob, StopJob, DeleteJob, Elsewhere, FormTypeOK, filled
<1>15. CASE UNCHANGED fvars
  BY <1>15 DEF fvars, filled, counts, FormTypeOK, Puts, NoPut
<1>16. QED
  BY <1>1, <1>2, <1>3, <1>4, <1>5, <1>6, <1>7, <1>8, <1>9, <1>10, <1>11, <1>12,
     <1>13, <1>14, <1>15 DEF FormNext

LEMMA FormTypeInit == FormInit => FormTypeOK
<1> SUFFICES ASSUME FormInit PROVE FormTypeOK
  OBVIOUS
<1>1. job \in [Clusters -> [there : BOOLEAN, seq : Nat, doc : Document]]
  <2>1. PICK d \in JobDocs[kind.of] : job = [c \in Clusters |->
            IF c \in JobThere THEN [there |-> TRUE, seq |-> 1, doc |-> d] ELSE NoJob]
    BY DEF FormInit
  <2>2. d \in Document
    BY JobDocsAssumption, FormFields, FormsAssumption DEF FormInit
  <2>3. QED
    BY <2>1, <2>2, Empties DEF NoJob
<1>2. QED
  <2>1. open \in BOOLEAN /\ locked \in BOOLEAN /\ submitting \in BOOLEAN
    BY DEF FormInit
  <2>2. QED
    BY <1>1, <2>1, Empties, NothingLoaded, FormAssumption DEF FormInit, FormTypeOK

\* The state of a form, of its document and of the jobs is well typed: a
\* document never holds a value that its field cannot have.
THEOREM FormTypeCorrect == FormSpec => []FormTypeOK
<1>1. QED
  BY FormTypeInit, FormTypeNext, PTL DEF FormSpec

-----------------------------------------------------------------------------
(* A stop holds.  No version that a stop left is newer than the job, a job  *)
(* that is gone has none, and a request that names a version was filled     *)
(* from that version: the cluster accepts it at that version only.          *)

Versions ==
  /\ \A c \in Clusters :
       /\ stopped[c] <= job[c].seq
       /\ ~job[c].there => stopped[c] = 0
  /\ put.sent /\ put.seq # 0 => put.from.seq = put.seq

Stops == FormTypeOK /\ Versions /\ StopHolds

LEMMA KeepVersions ==
  ASSUME Versions, StopHolds, UNCHANGED <<job, stopped, basis, put>>
  PROVE  Versions' /\ StopHolds'
  BY DEF Versions, StopHolds

LEMMA StopsNext == Stops /\ [FormNext]_fvars => Versions' /\ StopHolds'
<1> SUFFICES ASSUME Stops, [FormNext]_fvars PROVE Versions' /\ StopHolds'
  OBVIOUS
<1>0. /\ FormTypeOK /\ Versions /\ StopHolds
      /\ job \in [Clusters -> [there : BOOLEAN, seq : Nat, doc : Document]]
      /\ stopped \in [Clusters -> Nat] /\ basis \in [Clusters -> Nat]
  BY DEF Stops, FormTypeOK
<1>1. CASE Submit
  <2>1. put'.seq = Version /\ put'.from = loaded /\ UNCHANGED <<job, stopped, basis>>
    BY <1>1 DEF Submit
  <2>2. put'.seq # 0 => put'.from.seq = put'.seq
    BY <2>1 DEF Version
  <2>3. QED
    BY <1>0, <2>1, <2>2 DEF Versions, StopHolds
<1>2. CASE Save
  <2>1. put.sent /\ put \in Puts /\ UNCHANGED stopped
    BY <1>0, <1>2, SaveType DEF Save
  <2>2. put'.seq = put.seq /\ put'.from = put.from /\ put'.sent = put.sent
    BY <1>0, <1>2, <2>1, SaveType DEF Puts
  <2>3. CASE UNCHANGED <<job, basis>>
    BY <1>0, <2>1, <2>2, <2>3 DEF Versions, StopHolds
  <2>4. CASE /\ Accepts(put)
             /\ job' = [job EXCEPT ![put.cluster] = [there |-> TRUE,
                           seq |-> job[put.cluster].seq + 1, doc |-> put.doc]]
             /\ basis' = [basis EXCEPT ![put.cluster] = put.from.seq]
    <3> DEFINE c == put.cluster
    <3>1. c \in Clusters /\ put.seq \in Nat /\ put.from.seq \in Nat
      BY <2>1 DEF Puts, Loads
    <3>2. /\ job'[c].there /\ job'[c].seq = job[c].seq + 1 /\ basis'[c] = put.from.seq
          /\ \A b \in Clusters \ {c} : job'[b] = job[b] /\ basis'[b] = basis[b]
      BY <1>0, <2>4, <3>1
    <3>3. put.seq = 0 => stopped[c] = 0
      BY <1>0, <2>4, <3>1 DEF Accepts, Versions
    <3>4. put.seq # 0 => put.from.seq >= stopped[c]
      BY <1>0, <2>1, <2>4, <3>1 DEF Accepts, Versions
    <3>5. stopped[c] <= job'[c].seq
      BY <1>0, <3>1, <3>2 DEF Versions
    <3>6. Versions'
      BY <1>0, <2>1, <2>2, <3>2, <3>5 DEF Versions
    <3>7. StopHolds'
      BY <1>0, <2>1, <3>1, <3>2, <3>3, <3>4 DEF StopHolds
    <3>8. QED
      BY <3>6, <3>7
  <2>5. QED
    BY <1>0, <1>2, <2>3, <2>4, SaveType
<1>3. CASE SaveAnswered
  BY <1>0, <1>3 DEF SaveAnswered, NoPut, Versions, StopHolds
<1>4. ASSUME NEW c \in Clusters, StartJob(c) \/ DeleteJob(c)
      PROVE  Versions' /\ StopHolds'
  <2>1. stopped' = [stopped EXCEPT ![c] = 0] /\ UNCHANGED <<put, basis>>
    BY <1>4 DEF StartJob, DeleteJob, Elsewhere
  <2>2. job'[c].seq = job[c].seq + 1 /\ \A b \in Clusters \ {c} : job'[b] = job[b]
    BY <1>0, <1>4, ElsewhereType
  <2>3. QED
    BY <1>0, <2>1, <2>2 DEF Versions, StopHolds
<1>5. ASSUME NEW c \in Clusters, StopJob(c) PROVE Versions' /\ StopHolds'
  <2>1. stopped' = [stopped EXCEPT ![c] = job[c].seq + 1] /\ UNCHANGED <<put, basis>>
    BY <1>5 DEF StopJob, Elsewhere
  <2>2. /\ job'[c].seq = job[c].seq + 1 /\ \A b \in Clusters \ {c} : job'[b] = job[b]
        /\ job'[c].there /\ job'[c].doc["enabled"] = 0
    BY <1>0, <1>5, ElsewhereType
  <2>3. QED
    BY <1>0, <2>1, <2>2 DEF Versions, StopHolds
<1>6. CASE UNCHANGED <<job, stopped, basis, put>>
  BY <1>0, <1>6, KeepVersions
<1>7. QED
  BY <1>1, <1>2, <1>3, <1>4, <1>5, <1>6
     DEF FormNext, Open, Load, Leave, Change, Next_, StartCheck, EndCheck, Prev, Review,
         SwitchCluster, fvars

\* A job that was stopped on its details page is not started again by a form
\* filled before the stop, in however many pages and tabs it is edited and
\* whichever answers are lost.  (seqNo and primaryTerm of onUpdate.)
THEOREM StopsHold == FormSpec => []StopHolds
<1>1. FormInit => Stops
  <2>1. FormInit => Versions /\ StopHolds
    BY DEF FormInit, Versions, StopHolds, NoPut, NoJob
  <2>2. QED
    BY <2>1, FormTypeInit DEF Stops
<1>2. Stops /\ [FormNext]_fvars => Stops'
  BY StopsNext, FormTypeNext DEF Stops
<1>3. Stops => StopHolds
  BY DEF Stops
<1>4. QED
  BY <1>1, <1>2, <1>3, PTL DEF FormSpec

-----------------------------------------------------------------------------
(* The data source of a wizard.                                             *)

Locks ==
  kind.wizard /\ ~kind.async => checks = 0 /\ (step > 1 => locked)

LEMMA LocksNext == FormTypeOK /\ Locks /\ [FormNext]_fvars => Locks'
<1> SUFFICES ASSUME FormTypeOK, Locks, [FormNext]_fvars PROVE Locks'
  OBVIOUS
<1>1. CASE Open \/ Leave \/ \E c \in Clusters : SwitchCluster(c)
  BY <1>1 DEF Open, Leave, SwitchCluster, Blank, Locks, filled
<1>2. CASE Load \/ \E f \in Field : \E v \in Value(f) : Change(f, v)
  BY <1>2 DEF Load, Change, Locks
<1>3. CASE \E ok \in BOOLEAN : Next_(ok)
  BY <1>3 DEF Next_, Locks
<1>4. CASE StartCheck \/ \E ok \in BOOLEAN : EndCheck(ok)
  BY <1>4 DEF StartCheck, EndCheck, Locks
<1>5. CASE Prev
  <2>1. kind' = kind /\ checks' = checks /\ step > 1
        /\ locked' = (locked /\ step' # 1)
    BY <1>5 DEF Prev
  <2>2. QED
    BY <2>1 DEF Locks, FormTypeOK
<1>6. CASE \E s \in 1..3 : Review(s)
  BY <1>6 DEF Review, Locks
<1>7. CASE Submit \/ Save \/ SaveAnswered
  BY <1>7 DEF Submit, Save, SaveAnswered, Locks, filled
<1>8. CASE \E c \in Clusters : StartJob(c) \/ StopJob(c) \/ DeleteJob(c)
  BY <1>8 DEF StartJob, StopJob, DeleteJob, Elsewhere, Locks, filled
<1>9. CASE UNCHANGED fvars
  BY <1>9 DEF fvars, filled, Locks
<1>10. QED
  BY <1>1, <1>2, <1>3, <1>4, <1>5, <1>6, <1>7, <1>8, <1>9 DEF FormNext

\* Past its first step the rollup wizard keeps the data source locked,
\* whatever way the user goes back and forth through its steps and its review.
\* (_next, _prev and onChangeStep of CreateRollupForm.)
THEOREM WizardKeepsLock == FormSpec => []WizardLocked
<1>1. FormInit => Locks
  BY DEF FormInit, Locks
<1>2. Locks => WizardLocked
  BY DEF Locks, WizardLocked
<1>3. QED
  BY <1>1, <1>2, FormTypeInit, FormTypeNext, LocksNext, PTL DEF FormSpec

-----------------------------------------------------------------------------
(* What a page sends is what it shows.  The inputs that are copied at once  *)
(* agree with the document while the page is in use; in a wizard, whose     *)
(* handlers write into the base document, only in its first mount.          *)

Agrees ==
  \A f \in kind.now : doc[f] = form[f] \/ (kind.shared /\ opens > 1)

CleanBase == opens = 0 => ~open /\ base = EmptyDoc(kind.of)

Sends == FormTypeOK /\ Agrees /\ CleanBase /\ SavesWhatIsShown

LEMMA KeepSends ==
  ASSUME Agrees, CleanBase, UNCHANGED <<kind, form, doc, base, opens>>, open' => open
  PROVE  Agrees' /\ CleanBase'
  BY DEF Agrees, CleanBase

LEMMA EmptyAgrees ==
  ASSUME FormTypeOK, NEW f \in kind.now
  PROVE  EmptyDoc(kind.of)[f] = EmptyForm[f]
  BY KindFields, FormFields DEF EmptyForm, EmptyDoc, Field, JobKinds

\* A page that is mounted, or starts again.
LEMMA BlankAgrees ==
  ASSUME FormTypeOK, CleanBase, Blank, kind' = kind, base' = base, opens' = opens + 1
  PROVE  Agrees' /\ CleanBase'
<1>1. opens \in Nat
  BY FormAssumption DEF FormTypeOK
<1>2. ASSUME NEW f \in kind.now, ~(kind.shared /\ opens' > 1)
      PROVE  doc'[f] = form'[f]
  <2>1. doc' = EmptyDoc(kind.of)
    BY <1>1, <1>2 DEF Blank, Clean, CleanBase
  <2>2. QED
    BY <2>1, EmptyAgrees DEF Blank
<1>3. QED
  BY <1>1, <1>2 DEF Agrees, CleanBase

LEMMA AgreesNext ==
  FormTypeOK /\ Agrees /\ CleanBase /\ [FormNext]_fvars => Agrees' /\ CleanBase'
<1> SUFFICES ASSUME FormTypeOK, Agrees, CleanBase, [FormNext]_fvars
             PROVE  Agrees' /\ CleanBase'
  OBVIOUS
<1>0. /\ kind \in Forms /\ opens \in Nat
      /\ form \in [Field -> {0, 1, 2}] /\ doc \in [Field -> {0, 1, 2, 3}]
      /\ kind.now \subseteq Field /\ kind.now \cap (kind.late \cup kind.sets) = {}
      /\ kind.now \cap kind.lags = {}
      /\ kind.now \cap {"age", "frequency", "delay"} = {}
  <2>1. kind \in Forms
    BY KindFields
  <2>2. /\ kind.now \subseteq Field /\ kind.now \cap (kind.late \cup kind.sets) = {}
        /\ kind.now \cap kind.lags = {}
        /\ kind.now \subseteq {"enabled", "option", "schedule", "zone"}
    BY <2>1, FormFields
  <2>3. /\ opens \in Nat /\ form \in [Field -> {0, 1, 2}]
        /\ doc \in [Field -> {0, 1, 2, 3}]
    BY FormAssumption DEF FormTypeOK, Shows, Document
  <2>4. QED
    BY <2>1, <2>2, <2>3
<1>1. CASE Open \/ \E c \in Clusters : SwitchCluster(c)
  BY <1>1, BlankAgrees DEF Open, SwitchCluster
<1>2. CASE Load
  <2>1. CASE UNCHANGED <<form, doc, loaded>>
    BY <1>2, <2>1, KeepSends DEF Load, counts
  <2>2. CASE form' = Filled(kind, doc')
    <3>1. \A f \in kind.now : doc'[f] = form'[f]
      BY <1>0, <2>2 DEF Filled, Image
    <3>2. QED
      BY <1>2, <3>1 DEF Load, Agrees, CleanBase, counts
  <2>3. QED
    BY <1>2, <2>1, <2>2 DEF Load
<1>3. ASSUME NEW f \in Field, NEW v \in Value(f), Change(f, v)
      PROVE  Agrees' /\ CleanBase'
  <2>1. /\ doc' = [doc EXCEPT ![f] = Written(f, v)]
        /\ kind' = kind /\ opens' = opens /\ base' = (IF kind.shared THEN doc' ELSE base)
    BY <1>3 DEF Change, InPlace
  <2>2. PICK a : form' = [form EXCEPT !["age"] = a, ![f] = v]
    BY <1>3 DEF Change
  <2>3. opens # 0
    BY <1>3 DEF Change, CleanBase
  <2>4. f \in kind.now => Written(f, v) = v
    BY DEF Written
  <2>5. \A g \in kind.now : doc[g] = form[g] => doc'[g] = form'[g]
    BY <1>0, <2>1, <2>2, <2>4
  <2>6. QED
    BY <2>1, <2>3, <2>5 DEF Agrees, CleanBase
<1>4. CASE Submit
  <2>1. doc' = Complete /\ UNCHANGED <<kind, form, opens>>
        /\ base' = (IF kind.shared THEN doc' ELSE base)
    BY <1>4 DEF Submit, InPlace, counts
  <2>2. \A f \in kind.now : Complete[f] = doc[f]
    BY <1>0, CompleteFields
  <2>3. opens # 0
    BY <1>4 DEF Submit, CleanBase
  <2>4. QED
    BY <1>0, <2>1, <2>2, <2>3 DEF Agrees, CleanBase
<1>5. CASE UNCHANGED <<kind, form, doc, base, opens>> /\ (open' => open)
  BY <1>5, KeepSends
<1>6. QED
  BY <1>1, <1>2, <1>3, <1>4, <1>5
     DEF FormNext, Leave, Next_, StartCheck, EndCheck, Prev, Review, Save, SaveAnswered,
         StartJob, StopJob, DeleteJob, Elsewhere, filled, counts, fvars

\* The document of a submission, input by input.
LEMMA SubmitShows ==
  ASSUME FormTypeOK, Agrees, Submit, NEW f \in Inputs(kind), ~Deviates(put, f)'
  PROVE  put'.doc[f] = put'.form[f]
<1>1. /\ put'.doc = Complete /\ put'.form = form /\ put'.opened = opens
      /\ kind' = kind
  BY DEF Submit
<1>2. /\ f \notin kind.lags
      /\ ~(kind.of = "rollup" /\ f = "zone" /\ form["schedule"] = 0)
      /\ ~(f = "delay" /\ form["delay"] = 2)
      /\ f \in {"retention", "age", "frequency"} => form["retention"] # 0
      /\ ~(kind.shared /\ f \in kind.now /\ opens > 1)
  BY <1>1 DEF Deviates
<1>3. kind \in Forms /\ f \in Field
  BY KindFields, FormFields DEF Inputs
<1>4. CASE f \in kind.now
  <2>1. f \notin kind.late \cup kind.sets
    BY <1>3, <1>4, FormFields DEF Inputs
  <2>2. Complete[f] = doc[f]
    BY <1>3, <2>1, CompleteFields
  <2>3. QED
    BY <1>1, <1>2, <1>4, <2>2 DEF Agrees
<1>5. CASE f \in kind.late /\ kind.of # "policy"
  <2>1. f \in {"schedule", "zone", "delay"} /\ (f = "zone" => kind.of = "rollup")
    BY <1>3, <1>5, FormFields
  <2>2. Complete[f] = Scheduled[f]
    BY <1>3, <1>5, CompleteFields
  <2>3. Scheduled[f] = form[f]
    BY <1>2, <2>1 DEF Scheduled
  <2>4. QED
    BY <1>1, <2>2, <2>3
<1>6. CASE f \in kind.late /\ kind.of = "policy"
  <2>1. f \in {"retention", "age", "frequency"} /\ Complete[f] = Retention[f]
    BY <1>3, <1>6, FormFields, CompleteFields
  <2>2. form["retention"] = 1
    BY <1>2, <2>1 DEF FormTypeOK, Shows, Field, Seen
  <2>3. Retention[f] = form[f]
    BY <2>1, <2>2 DEF Retention
  <2>4. QED
    BY <1>1, <2>1, <2>3
<1>7. QED
  BY <1>2, <1>4, <1>5, <1>6 DEF Inputs

LEMMA SendsNext == Sends /\ [FormNext]_fvars => SavesWhatIsShown'
<1> SUFFICES ASSUME Sends, [FormNext]_fvars PROVE SavesWhatIsShown'
  OBVIOUS
<1>0. FormTypeOK /\ Agrees /\ SavesWhatIsShown
  BY DEF Sends
<1>1. CASE Submit
  <2>1. kind' = kind
    BY <1>1 DEF Submit
  <2>2. QED
    BY <1>0, <1>1, <2>1, SubmitShows DEF SavesWhatIsShown, Inputs
<1>2. CASE Save
  <2>1. put \in Puts /\ put'.doc = put.doc /\ put'.form = put.form
        /\ put'.opened = put.opened /\ put.sent /\ kind' = kind
    BY <1>0, <1>2, SaveType DEF Puts, Save
  <2>2. \A f : Deviates(put, f)' <=> Deviates(put, f)
    BY <2>1 DEF Deviates
  <2>3. QED
    BY <1>0, <2>1, <2>2 DEF SavesWhatIsShown, Inputs
<1>3. CASE SaveAnswered
  BY <1>3 DEF SaveAnswered, NoPut, SavesWhatIsShown
<1>4. CASE UNCHANGED <<kind, put>>
  BY <1>0, <1>4 DEF SavesWhatIsShown, Deviates, Inputs
<1>5. QED
  BY <1>1, <1>2, <1>3, <1>4
     DEF FormNext, Open, Load, Leave, Change, Next_, StartCheck, EndCheck, Prev, Review,
         SwitchCluster, StartJob, StopJob, DeleteJob, Elsewhere, fvars

\* What a page sends is what it showed at the submission, but for the fields
\* that Deviates names, after any sequence of edits, steps, resets, loads and
\* mounts.  (onSubmit, updateSchedule, buildPolicyFromState, onChange.)
THEOREM SubmissionIsShown == FormSpec => []SavesWhatIsShown
<1>1. FormInit => Sends
  <2>1. FormInit => CleanBase /\ SavesWhatIsShown
    BY DEF FormInit, CleanBase, SavesWhatIsShown, NoPut
  <2>2. FormInit => Agrees
    BY FormTypeInit, EmptyAgrees DEF FormInit, Agrees
  <2>3. QED
    BY <2>1, <2>2, FormTypeInit DEF Sends
<1>2. Sends /\ [FormNext]_fvars => Sends'
  BY SendsNext, AgreesNext, FormTypeNext DEF Sends
<1>3. Sends => SavesWhatIsShown
  BY DEF Sends
<1>4. QED
  BY <1>1, <1>2, <1>3, PTL DEF FormSpec

-----------------------------------------------------------------------------
(* What the user has not touched.  The jobs of the cluster are coherent     *)
(* documents; a field the user has not touched is in the document, or in    *)
(* its input, as it was loaded, but for what filling the form changes; and  *)
(* the schedule of a deletion is touched only where snapshots are deleted.  *)

JobsCohere ==
  /\ \A c \in Clusters : Coherent(kind.of, job[c].doc)
  /\ Coherent(kind.of, loaded.doc)
  /\ put.sent => Coherent(kind.of, put.doc)

\* The document, and the input of a late field.
DocAsLoaded(f) ==
  f \notin kind.late \cup kind.sets =>
    \/ doc[f] = loaded.doc[f]
    \/ f = "schedule" /\ kind.of = "policy" /\ loaded.doc[f] = 2

\* Untouched, an age is counted in hours only where no deletion is shown.
Unseen == loaded.doc["retention"] = 0 \/ "retention" \in touched

InputAsLoaded(f) ==
  f \in kind.late /\ f # "zone" =>
    \/ form[f] = Image(loaded.doc, f)
    \/ f = "age" /\ Unseen

FillsUntouched ==
  kind.edits =>
    /\ loaded = NotLoaded => touched = {}
    /\ loaded # NotLoaded =>
         \A f \in Field \ touched : DocAsLoaded(f) /\ InputAsLoaded(f)
    /\ "frequency" \in touched /\ "retention" \notin touched => form["retention"] = 1

Keeps == FormTypeOK /\ JobsCohere /\ FillsUntouched /\ UntouchedKept

LEMMA CompleteCoherent ==
  ASSUME FormTypeOK
  PROVE  Coherent(kind.of, Complete)
<1>1. kind \in Forms
  BY KindFields
<1>2. form["frequency"] \in {0, 1} /\ form["retention"] \in {0, 1}
  BY DEF FormTypeOK, Shows, Field, Seen
<1>3. CASE kind.of = "rollup"
  <2>1. "zone" \in kind.late \cup kind.sets
    BY <1>1, <1>3, FormFields
  <2>2. "schedule" \in kind.late \cup kind.sets
    BY <1>1, <1>3, FormFields
  <2>3. Complete["zone"] = Scheduled["zone"] /\ Complete["schedule"] = Scheduled["schedule"]
    BY <1>3, <2>1, <2>2, CompleteFields DEF Field
  <2>4. QED
    BY <1>3, <2>3 DEF Coherent, Scheduled
<1>4. CASE kind.of = "policy"
  <2>1. \A f \in {"retention", "age", "frequency", "dzone"} : Complete[f] = Retention[f]
    BY <1>1, <1>4, FormFields, CompleteFields DEF Field
  <2>2. Retention["retention"] = 0 => form["retention"] = 0 /\ form["frequency"] = 0
    BY <1>2 DEF Retention
  <2>3. form["retention"] = 0 /\ form["frequency"] = 0 =>
          \A f \in {"age", "frequency", "dzone"} : Retention[f] = 0
    BY DEF Retention
  <2>4. QED
    BY <1>4, <2>1, <2>2, <2>3 DEF Coherent
<1>5. QED
  BY <1>3, <1>4 DEF Coherent

LEMMA ToggledCoherent ==
  ASSUME FormTypeOK, NEW c \in Clusters, NEW v, NEW of, Coherent(of, job[c].doc)
  PROVE  Coherent(of, Toggled(c, v).doc)
<1>1. job[c].doc \in [Field -> {0, 1, 2, 3}]
  BY DEF FormTypeOK, Document
<1>2. \A f \in Field \ {"enabled"} : Toggled(c, v).doc[f] = job[c].doc[f]
  BY <1>1 DEF Toggled
<1>3. QED
  BY <1>2 DEF Coherent, Field

LEMMA JobsCohereNext ==
  FormTypeOK /\ JobsCohere /\ [FormNext]_fvars => JobsCohere'
<1> SUFFICES ASSUME FormTypeOK, JobsCohere, [FormNext]_fvars
             PROVE  JobsCohere'
  OBVIOUS
<1>0. kind' = kind
      /\ job \in [Clusters -> [there : BOOLEAN, seq : Nat, doc : Document]]
  BY DEF FormNext, Open, Load, Leave, Change, Next_, StartCheck, EndCheck, Prev, Review,
         SwitchCluster, Submit, Save, SaveAnswered, StartJob, StopJob, DeleteJob,
         Elsewhere, fvars, FormTypeOK
<1>1. CASE Load
  <2>1. loaded' = loaded \/ loaded'.doc = job[where].doc
    <3>1. loaded' = loaded \/ loaded' = [seq |-> job[where].seq, doc |-> job[where].doc]
      BY <1>1 DEF Load
    <3>2. QED
      BY <3>1
  <2>2. where \in Clusters /\ UNCHANGED <<job, put>>
    BY <1>1 DEF Load, FormTypeOK
  <2>3. QED
    BY <1>0, <2>1, <2>2 DEF JobsCohere, Coherent
<1>2. CASE Blank /\ UNCHANGED <<job, put>>
  <2>1. Coherent(kind.of, NotLoaded.doc)
    BY Empties DEF NotLoaded
  <2>2. loaded' = NotLoaded
    BY <1>2 DEF Blank
  <2>3. QED
    BY <1>0, <1>2, <2>1, <2>2 DEF JobsCohere, Coherent, NotLoaded
<1>3. CASE Submit
  <2>1. put'.doc = Complete /\ UNCHANGED <<job, loaded>>
    BY <1>3 DEF Submit
  <2>2. Coherent(kind.of, Complete)
    BY CompleteCoherent
  <2>3. Coherent(kind.of, put.doc)'
    BY <1>0, <2>1, <2>2 DEF Coherent
  <2>4. QED
    BY <1>0, <2>1, <2>3 DEF JobsCohere, Coherent
<1>4. CASE Save
  <2>1. put \in Puts /\ put.sent /\ put'.doc = put.doc /\ loaded' = loaded
    BY <1>4, SaveType DEF Puts, Save, filled
  <2>2. put.cluster \in Clusters
    BY <2>1 DEF Puts
  <2>3. \A c \in Clusters : job'[c] = job[c] \/ job'[c].doc = put.doc
    BY <1>0, <1>4, <2>2, SaveType
  <2>4. QED
    BY <1>0, <2>1, <2>3 DEF JobsCohere, Coherent
<1>5. CASE SaveAnswered
  BY <1>0, <1>5 DEF SaveAnswered, NoPut, JobsCohere, Coherent, filled
<1>6. ASSUME NEW c \in Clusters, StartJob(c) \/ StopJob(c) \/ DeleteJob(c)
      PROVE  JobsCohere'
  <2>1. UNCHANGED <<loaded, put>>
    BY <1>6 DEF StartJob, StopJob, DeleteJob, Elsewhere, filled
  <2>2. Coherent(kind.of, job'[c].doc)
    <3>1. CASE DeleteJob(c)
      BY <1>0, <3>1, Empties DEF DeleteJob
    <3>2. CASE StartJob(c) \/ StopJob(c)
      <4>1. PICK v : job' = [job EXCEPT ![c] = Toggled(c, v)]
        BY <3>2 DEF StartJob, StopJob
      <4>2. job'[c] = Toggled(c, v)
        BY <1>0, <4>1
      <4>3. QED
        BY <4>2, ToggledCoherent DEF JobsCohere
    <3>3. QED
      BY <1>6, <3>1, <3>2
  <2>3. \A b \in Clusters \ {c} : job'[b] = job[b]
    BY <1>6, ElsewhereType
  <2>4. QED
    BY <1>0, <2>1, <2>2, <2>3 DEF JobsCohere, Coherent
<1>7. CASE UNCHANGED <<job, loaded, put>>
  BY <1>0, <1>7 DEF JobsCohere, Coherent
<1>8. QED
  BY <1>1, <1>2, <1>3, <1>4, <1>5, <1>6, <1>7
     DEF FormNext, Open, Leave, Change, Next_, StartCheck, EndCheck, Prev, Review,
         SwitchCluster, filled, fvars

\* A loaded job, in the document and in the inputs of the page.
LEMMA LoadedAs ==
  ASSUME FormTypeOK, kind.edits, NEW d \in Document, NEW n \in Narrowed(d),
         NEW f \in Field
  PROVE  /\ n[f] = d[f] \/ (f = "schedule" /\ kind.of = "policy" /\ d[f] = 2)
         /\ f \in kind.late /\ f # "zone" => Filled(kind, n)[f] = Image(d, f)
<1>1. /\ \A g \in Field \ {"schedule"} : n[g] = d[g]
      /\ n["schedule"] = d["schedule"] \/ (kind.of = "policy" /\ d["schedule"] = 2)
  BY NarrowedSame
<1>2. ASSUME f \in kind.late, f # "zone"
      PROVE  Filled(kind, n)[f] = Image(d, f)
  <2>1. f \in kind.fills /\ (f = "schedule" => kind.of # "policy")
    BY <1>2, KindFields, FormFields
  <2>2. Filled(kind, n)[f] = Image(n, f)
    BY <2>1 DEF Filled
  <2>3. n[f] = d[f] /\ n["retention"] = d["retention"]
    BY <1>1, <2>1 DEF Field
  <2>4. Image(n, f) = Image(d, f)
    BY <2>3 DEF Image
  <2>5. QED
    BY <2>2, <2>4
<1>3. QED
  BY <1>1, <1>2

LEMMA FillsNext ==
  FormTypeOK /\ FillsUntouched /\ [FormNext]_fvars => FillsUntouched'
<1> SUFFICES ASSUME FormTypeOK, FillsUntouched, [FormNext]_fvars PROVE FillsUntouched'
  OBVIOUS
<1>0. /\ form \in [Field -> {0, 1, 2}] /\ doc \in [Field -> {0, 1, 2, 3}]
      /\ kind \in Forms /\ form["retention"] \in {0, 1}
  BY KindFields DEF FormTypeOK, Shows, Document, Field, Seen
<1>1. CASE Load /\ kind.edits
  <2>1. touched = {} /\ kind' = kind /\ touched' = touched
    BY <1>1 DEF Load, FillsUntouched
  <2>2. CASE UNCHANGED <<form, doc, loaded>>
    <3>1. loaded = NotLoaded /\ loaded' = NotLoaded'
      BY <1>1, <2>2 DEF Load, NotLoaded
    <3>2. QED
      BY <2>1, <3>1 DEF FillsUntouched
  <2>3. CASE /\ job[where].there
             /\ doc' \in Narrowed(job[where].doc) /\ form' = Filled(kind, doc')
             /\ loaded' = [seq |-> job[where].seq, doc |-> job[where].doc]
    <3>1. job[where].doc \in Document /\ loaded'.doc = job[where].doc
      BY <2>3 DEF FormTypeOK
    <3>2. ASSUME NEW f \in Field PROVE DocAsLoaded(f)' /\ InputAsLoaded(f)'
      <4>1. /\ \/ doc'[f] = loaded'.doc[f]
               \/ f = "schedule" /\ kind.of = "policy" /\ loaded'.doc[f] = 2
            /\ f \in kind.late /\ f # "zone" => form'[f] = Image(loaded'.doc, f)
        BY <1>1, <2>3, <3>1, LoadedAs
      <4>2. QED
        BY <2>1, <4>1 DEF DocAsLoaded, InputAsLoaded, Image
    <3>3. QED
      BY <2>1, <3>2 DEF FillsUntouched
  <2>4. QED
    BY <1>1, <2>2, <2>3 DEF Load
<1>2. CASE Load /\ ~kind.edits
  BY <1>2 DEF Load
<1>3. CASE Blank /\ kind' = kind
  BY <1>3 DEF Blank, FillsUntouched
<1>4. ASSUME NEW f \in Field, NEW v \in Value(f), Change(f, v), kind.edits
      PROVE  FillsUntouched'
  <2>1. /\ doc' = [doc EXCEPT ![f] = Written(f, v)]
        /\ kind' = kind /\ loaded' = loaded /\ touched' = touched \cup {f}
        /\ loaded # NotLoaded /\ (f = "frequency" => form["retention"] = 1)
    BY <1>4 DEF Change, InPlace, Shown
  <2>2. PICK a \in Ages(f) : form' = [form EXCEPT !["age"] = a, ![f] = v]
    BY <1>4 DEF Change
  <2>3. \A g \in Field \ touched' : DocAsLoaded(g)'
    BY <1>0, <1>4, <2>1 DEF FillsUntouched, DocAsLoaded
  <2>4. ASSUME NEW g \in Field \ touched', g \in kind.late, g # "zone"
        PROVE  form'[g] = Image(loaded.doc, g) \/ (g = "age" /\ Unseen')
    <3>1. g \in Field \ touched /\ g # f
      BY <2>1, <2>4
    <3>2. form[g] = Image(loaded.doc, g) \/ (g = "age" /\ Unseen)
      BY <1>4, <2>1, <2>4, <3>1 DEF FillsUntouched, InputAsLoaded
    <3>3. Unseen => Unseen'
      BY <2>1 DEF Unseen
    <3>4. CASE g # "age" \/ a = form["age"]
      <4>1. form'[g] = form[g]
        BY <1>0, <2>2, <3>1, <3>4
      <4>2. QED
        BY <3>2, <3>3, <4>1
    <3>5. CASE g = "age" /\ a # form["age"]
      <4>1. form["retention"] = 0 /\ kind.of = "policy"
        BY <3>5 DEF Ages
      <4>2. "retention" \notin touched =>
              InputAsLoaded("retention")
        BY <1>4, <2>1 DEF FillsUntouched, Field
      <4>3. "retention" \in kind.late
        BY <1>0, <4>1, FormFields
      <4>4. "retention" \notin touched => loaded.doc["retention"] = 0
        BY <4>1, <4>2, <4>3 DEF InputAsLoaded, Image
      <4>5. Unseen'
        BY <2>1, <4>4 DEF Unseen
      <4>6. QED
        BY <3>5, <4>5
    <3>6. QED
      BY <3>4, <3>5
  <2>5. \A g \in Field \ touched' : InputAsLoaded(g)'
    BY <2>1, <2>4 DEF InputAsLoaded, Image
  <2>6. "frequency" \in touched' /\ "retention" \notin touched' => form'["retention"] = 1
    BY <1>0, <1>4, <2>1, <2>2 DEF FillsUntouched, Field
  <2>7. QED
    BY <2>1, <2>3, <2>5, <2>6 DEF FillsUntouched
<1>5. ASSUME NEW f \in Field, NEW v \in Value(f), Change(f, v), ~kind.edits
      PROVE  FillsUntouched'
  BY <1>5 DEF Change, FillsUntouched
<1>6. CASE Submit
  <2>1. doc' = Complete /\ UNCHANGED <<kind, form, loaded, touched>>
    BY <1>6 DEF Submit, InPlace
  <2>2. \A f \in Field \ (kind.late \cup kind.sets) : Complete[f] = doc[f]
    BY CompleteFields
  <2>3. \A f \in Field : DocAsLoaded(f) => DocAsLoaded(f)'
    BY <2>1, <2>2 DEF DocAsLoaded
  <2>4. \A f \in Field : InputAsLoaded(f) => InputAsLoaded(f)'
    BY <2>1 DEF InputAsLoaded, Image, Unseen
  <2>5. QED
    BY <2>1, <2>3, <2>4 DEF FillsUntouched, NotLoaded
<1>7. CASE UNCHANGED <<kind, form, doc, loaded, touched>>
  BY <1>7 DEF FillsUntouched, DocAsLoaded, InputAsLoaded, Unseen, Image
<1>8. QED
  BY <1>1, <1>2, <1>3, <1>4, <1>5, <1>6, <1>7
     DEF FormNext, Open, Leave, Next_, StartCheck, EndCheck, Prev, Review, SwitchCluster,
         Save, SaveAnswered, StartJob, StopJob, DeleteJob, Elsewhere, filled, fvars

\* The document of a submission, field by field: the schedule of a rollup or
\* of a transform.
LEMMA ScheduleKept ==
  ASSUME FormTypeOK, JobsCohere, FillsUntouched, Submit, kind.edits,
         kind.of # "policy", NEW f \in Field \ touched, f \in kind.late \cup kind.sets
  PROVE  Complete[f] = loaded.doc[f] \/ Rewrites(f, loaded.doc, touched)
<1> DEFINE d == loaded.doc
<1>1. kind \in Forms /\ loaded # NotLoaded /\ InputAsLoaded(f)
  BY KindFields DEF Submit, FillsUntouched
<1>2. Complete[f] = Scheduled[f] /\ f \in {"schedule", "start", "zone", "delay"}
  BY CompleteFields
<1>3. kind.sets = {"start"} /\ (f = "start" \/ f \in kind.late)
      /\ (kind.of = "rollup" <=> "zone" \in kind.late)
  BY <1>1, FormFields
<1>4. CASE f = "start"
  BY <1>3, <1>4 DEF Rewrites
<1>5. CASE f = "schedule"
  <2>1. form[f] = d[f]
    BY <1>1, <1>3, <1>5 DEF InputAsLoaded, Image
  <2>2. QED
    BY <1>2, <1>5, <2>1 DEF Scheduled
<1>6. CASE f = "delay"
  <2>1. form[f] = (IF d[f] = 3 THEN 2 ELSE d[f])
    BY <1>1, <1>3, <1>6 DEF InputAsLoaded, Image
  <2>2. Scheduled[f] = IF form[f] = 2 THEN 3 ELSE form[f]
    BY <1>6 DEF Scheduled
  <2>3. QED
    BY <1>2, <1>6, <2>1, <2>2 DEF Rewrites
<1>7. CASE f = "zone"
  <2>1. kind.of = "rollup"
    BY <1>3, <1>7
  <2>2. CASE d["schedule"] # 0 \/ "schedule" \in touched
    BY <1>7, <2>1, <2>2 DEF Rewrites
  <2>3. CASE d["schedule"] = 0 /\ "schedule" \notin touched
    <3>1. d["zone"] = 0
      BY <2>1, <2>3 DEF JobsCohere, Coherent
    <3>2. "schedule" \in kind.late
      BY <1>1, <2>1, FormFields
    <3>3. InputAsLoaded("schedule")
      BY <1>1, <2>3 DEF FillsUntouched, Field
    <3>4. form["schedule"] = 0
      BY <2>3, <3>2, <3>3 DEF InputAsLoaded, Image
    <3>5. Scheduled["zone"] = 0
      BY <3>4 DEF Scheduled
    <3>6. QED
      BY <1>2, <1>7, <3>1, <3>5
  <2>4. QED
    BY <2>2, <2>3
<1>8. QED
  BY <1>2, <1>4, <1>5, <1>6, <1>7

\* The deletion of a policy.
LEMMA RetentionKept ==
  ASSUME FormTypeOK, JobsCohere, FillsUntouched, Submit, kind.edits,
         kind.of = "policy", NEW f \in Field \ touched, f \in kind.late \cup kind.sets
  PROVE  Complete[f] = loaded.doc[f] \/ Rewrites(f, loaded.doc, touched)
<1> DEFINE d == loaded.doc
<1>1. kind \in Forms /\ loaded # NotLoaded /\ InputAsLoaded(f)
  BY KindFields DEF Submit, FillsUntouched
<1>2. /\ kind.late = {"retention", "age", "frequency"} /\ kind.sets = {"dzone"}
      /\ "zone" \in kind.now /\ kind.now \cap kind.late = {}
  BY <1>1, FormFields
<1>3. Complete[f] = Retention[f] /\ f \in {"retention", "age", "frequency", "dzone"}
  BY CompleteFields
<1>4. Coherent("policy", d)
  BY DEF JobsCohere
<1>5. /\ form["retention"] \in {0, 1} /\ form["frequency"] \in {0, 1}
      /\ d["retention"] \in {0, 1}
  BY DEF FormTypeOK, Shows, Field, Seen, Loads, Document, Stored
<1>6. CASE "retention" \in touched
  <2>1. f # "retention"
    BY <1>6
  <2>2. QED
    BY <1>3, <1>6, <2>1 DEF Rewrites
<1>7. CASE "retention" \notin touched /\ d["retention"] = 0
  <2>1. form["retention"] = 0
    <3>1. InputAsLoaded("retention")
      BY <1>1, <1>7 DEF FillsUntouched, Field
    <3>2. QED
      BY <1>2, <1>7, <3>1 DEF InputAsLoaded, Image
  <2>2. form["frequency"] = 0
    <3>1. "frequency" \notin touched
      BY <1>7, <2>1 DEF FillsUntouched
    <3>2. InputAsLoaded("frequency")
      BY <1>1, <3>1 DEF FillsUntouched, Field
    <3>3. QED
      BY <1>2, <1>7, <3>2 DEF InputAsLoaded, Image
  <2>3. Retention[f] = 0
    BY <1>3, <2>1, <2>2 DEF Retention
  <2>4. d[f] = 0
    BY <1>3, <1>4, <1>7 DEF Coherent
  <2>5. QED
    BY <1>3, <2>3, <2>4
<1>8. CASE "retention" \notin touched /\ d["retention"] = 1
  <2>1. form["retention"] = 1
    <3>1. InputAsLoaded("retention")
      BY <1>1, <1>8 DEF FillsUntouched, Field
    <3>2. QED
      BY <1>2, <1>8, <3>1 DEF InputAsLoaded, Image
  <2>2. CASE f = "retention"
    BY <1>3, <1>8, <2>1, <2>2 DEF Retention
  <2>3. CASE f = "age"
    <3>1. form["age"] = IF d["age"] \in {0, 3} THEN 1 ELSE d["age"]
      BY <1>1, <1>2, <1>8, <2>3 DEF InputAsLoaded, Image, Unseen
    <3>2. Retention["age"] = form["age"]
      BY <2>1 DEF Retention
    <3>3. QED
      BY <1>3, <1>8, <2>3, <3>1, <3>2 DEF Rewrites
  <2>4. CASE f = "frequency"
    <3>1. d["frequency"] = 1 => form["frequency"] = 1
      BY <1>1, <1>2, <1>8, <2>4 DEF InputAsLoaded, Image
    <3>2. Retention["frequency"] = form["frequency"]
      BY DEF Retention
    <3>3. QED
      BY <1>3, <1>8, <2>4, <3>1, <3>2 DEF Rewrites
  <2>5. CASE f = "dzone"
    <3>1. CASE d["dzone"] # d["zone"] \/ d["frequency"] # 1
               \/ {"zone", "frequency"} \cap touched # {}
      BY <1>8, <2>5, <3>1 DEF Rewrites
    <3>2. CASE d["dzone"] = d["zone"] /\ d["frequency"] = 1
               /\ "zone" \notin touched /\ "frequency" \notin touched
      <4>1. InputAsLoaded("frequency") /\ DocAsLoaded("zone")
        BY <1>1, <3>2 DEF FillsUntouched, Field
      <4>2. form["frequency"] = 1
        BY <1>2, <1>8, <3>2, <4>1 DEF InputAsLoaded, Image
      <4>3. doc["zone"] = d["zone"]
        BY <1>2, <4>1 DEF DocAsLoaded
      <4>4. Retention["dzone"] = doc["zone"]
        BY <4>2 DEF Retention
      <4>5. QED
        BY <1>3, <2>5, <3>2, <4>3, <4>4
    <3>3. QED
      BY <3>1, <3>2
  <2>6. QED
    BY <1>3, <2>2, <2>3, <2>4, <2>5
<1>9. QED
  BY <1>5, <1>6, <1>7, <1>8

LEMMA SubmitKeeps ==
  ASSUME FormTypeOK, JobsCohere, FillsUntouched, Submit, kind.edits,
         NEW f \in Field \ touched
  PROVE  Complete[f] = loaded.doc[f] \/ Rewrites(f, loaded.doc, touched)
<1>1. CASE f \notin kind.late \cup kind.sets
  <2>1. DocAsLoaded(f)
    BY DEF Submit, FillsUntouched
  <2>2. Complete[f] = doc[f]
    BY <1>1, CompleteFields
  <2>3. QED
    BY <1>1, <2>1, <2>2 DEF DocAsLoaded, Rewrites
<1>2. QED
  BY <1>1, ScheduleKept, RetentionKept

LEMMA KeepsNext == Keeps /\ [FormNext]_fvars => UntouchedKept'
<1> SUFFICES ASSUME Keeps, [FormNext]_fvars PROVE UntouchedKept'
  OBVIOUS
<1>0. FormTypeOK /\ JobsCohere /\ FillsUntouched /\ UntouchedKept
  BY DEF Keeps
<1>1. CASE Submit
  <2>1. put'.doc = Complete /\ put'.from = loaded /\ put'.touched = touched
        /\ kind' = kind
    BY <1>1 DEF Submit
  <2>2. QED
    BY <1>0, <1>1, <2>1, SubmitKeeps DEF UntouchedKept, Rewrites
<1>2. CASE Save
  <2>1. put \in Puts /\ put'.doc = put.doc /\ put'.from = put.from
        /\ put'.touched = put.touched /\ put.sent /\ kind' = kind
    BY <1>0, <1>2, SaveType DEF Puts, Save
  <2>2. QED
    BY <1>0, <2>1 DEF UntouchedKept, Rewrites
<1>3. CASE SaveAnswered
  BY <1>3 DEF SaveAnswered, NoPut, UntouchedKept
<1>4. CASE UNCHANGED <<kind, put>>
  BY <1>0, <1>4 DEF UntouchedKept, Rewrites
<1>5. QED
  BY <1>1, <1>2, <1>3, <1>4
     DEF FormNext, Open, Load, Leave, Change, Next_, StartCheck, EndCheck, Prev, Review,
         SwitchCluster, StartJob, StopJob, DeleteJob, Elsewhere, fvars

\* An edit page sends back what it loaded in every field the user has left
\* alone, with the exceptions that UntouchedKept names.  (updateSchedule,
\* buildPolicyFromState and getPolicy of the edit pages.)
THEOREM EditsKeepTheRest == FormSpec => []UntouchedKept
<1>1. FormInit => Keeps
  <2>1. ASSUME FormInit PROVE JobsCohere
    <3>1. PICK d \in JobDocs[kind.of] : job = [c \in Clusters |->
            IF c \in JobThere THEN [there |-> TRUE, seq |-> 1, doc |-> d] ELSE NoJob]
      BY <2>1 DEF FormInit
    <3>2. Coherent(kind.of, d)
      BY <2>1, JobDocsAssumption, FormFields, FormsAssumption DEF FormInit
    <3>3. \A c \in Clusters : Coherent(kind.of, job[c].doc)
      BY <3>1, <3>2, Empties DEF NoJob
    <3>4. QED
      BY <2>1, <3>3, Empties DEF FormInit, JobsCohere, NotLoaded, NoPut
  <2>2. FormInit => FillsUntouched /\ UntouchedKept
    BY DEF FormInit, FillsUntouched, UntouchedKept, NoPut
  <2>3. QED
    BY <2>1, <2>2, FormTypeInit DEF Keeps
<1>2. Keeps /\ [FormNext]_fvars => Keeps'
  BY KeepsNext, JobsCohereNext, FillsNext, FormTypeNext DEF Keeps
<1>3. Keeps => UntouchedKept
  BY DEF Keeps
<1>4. QED
  BY <1>1, <1>2, <1>3, PTL DEF FormSpec

-----------------------------------------------------------------------------
(* The second step of the transform wizard: the lists and their types.      *)

ItemsMade == Seq([type : ItemTypes, name : ItemNames])

LEMMA SeqWidens ==
  ASSUME NEW S, NEW T, S \subseteq T, NEW s \in Seq(S)
  PROVE  s \in Seq(T)
  OBVIOUS

LEMMA ASequence ==
  ASSUME NEW S, NEW n \in Nat, NEW s \in [1 .. n -> S]
  PROVE  s \in Seq(S)
  OBVIOUS

\* The places of a sequence and what is appended to it.
LEMMA Appended ==
  ASSUME NEW S, NEW s \in Seq(S), NEW e \in S
  PROVE  /\ Append(s, e) \in Seq(S) /\ Len(Append(s, e)) = Len(s) + 1
         /\ DOMAIN s = 1 .. Len(s) /\ DOMAIN Append(s, e) = 1 .. Len(s) + 1
         /\ \A k \in 1 .. Len(s) : Append(s, e)[k] = s[k]
         /\ Append(s, e)[Len(s) + 1] = e
  BY AppendProperties, LenProperties

\* up collects the items of a type among the first n.
UpTo(up, list, objects, t, n) ==
  up = [k \in 0 .. n |->
          IF k = 0 THEN <<>>
          ELSE IF objects[list[k]].type = t THEN Append(up[k - 1], list[k])
          ELSE up[k - 1]]

LEMMA UpToNext ==
  ASSUME NEW list, NEW objects, NEW t, NEW n \in Nat, NEW g, UpTo(g, list, objects, t, n)
  PROVE  \E h : UpTo(h, list, objects, t, n + 1)
<1>1. PICK h : h = [k \in 0 .. n + 1 |->
                      IF k = n + 1
                      THEN IF objects[list[n + 1]].type = t THEN Append(g[n], list[n + 1])
                           ELSE g[n]
                      ELSE g[k]]
  OBVIOUS
<1>2. ASSUME NEW k \in 0 .. n + 1
      PROVE  h[k] = IF k = 0 THEN <<>>
                    ELSE IF objects[list[k]].type = t THEN Append(h[k - 1], list[k])
                    ELSE h[k - 1]
  <2>1. CASE k = n + 1
    <3>1. k # 0 /\ k - 1 = n /\ n \in 0 .. n + 1 /\ n # n + 1
      BY <2>1
    <3>2. h[k] = IF objects[list[k]].type = t THEN Append(g[n], list[k]) ELSE g[n]
      BY <1>1, <2>1
    <3>3. h[k - 1] = g[n]
      BY <1>1, <3>1
    <3>4. QED
      BY <3>1, <3>2, <3>3
  <2>2. CASE k # n + 1
    <3>1. h[k] = g[k] /\ k \in 0 .. n
      BY <1>1, <2>2
    <3>2. CASE k = 0
      BY <3>1, <3>2 DEF UpTo
    <3>3. CASE k # 0
      <4>1. k - 1 \in 0 .. n + 1 /\ k - 1 # n + 1
        BY <3>1, <3>3
      <4>2. h[k - 1] = g[k - 1]
        BY <1>1, <4>1
      <4>3. g[k] = IF objects[list[k]].type = t THEN Append(g[k - 1], list[k]) ELSE g[k - 1]
        BY <3>1, <3>3 DEF UpTo
      <4>4. QED
        BY <3>1, <3>3, <4>2, <4>3
    <3>4. QED
      BY <3>2, <3>3
  <2>3. QED
    BY <2>1, <2>2
<1>3. h = [k \in 0 .. n + 1 |-> h[k]]
  BY <1>1
<1>4. h = [k \in 0 .. n + 1 |->
             IF k = 0 THEN <<>>
             ELSE IF objects[list[k]].type = t THEN Append(h[k - 1], list[k])
             ELSE h[k - 1]]
  BY <1>2, <1>3
<1>5. QED
  BY <1>4 DEF UpTo

LEMMA OfTypeListed ==
  ASSUME NEW S, NEW list \in Seq(S), NEW objects, NEW t
  PROVE  OfType(list, objects, t) \in Seq(S)
<1> DEFINE n == Len(list)
<1>1. n \in Nat /\ \A k \in 1 .. n : list[k] \in S
  BY LenProperties, ElementOfSeq
<1>2. OfType(list, objects, t) = (CHOOSE up : UpTo(up, list, objects, t, n))[n]
  BY DEF OfType, UpTo
<1> HIDE DEF n
<1>3. \E up : UpTo(up, list, objects, t, n)
  <2>1. PICK T : T = {i \in Nat : \E up : UpTo(up, list, objects, t, i)}
    OBVIOUS
  <2>2. UpTo([k \in 0 .. 0 |-> <<>>], list, objects, t, 0)
    BY DEF UpTo
  <2>3. 0 \in T /\ \A i \in Nat : i \in T => i + 1 \in T
    BY <2>1, <2>2, UpToNext
  <2>4. 1 \in T
    <3>1. 0 + 1 \in T
      BY <2>3
    <3>2. QED
      BY <3>1
  <2>5. \A i \in 1 .. n : i \in T
    BY <1>1, <2>3, <2>4, OneAfterTheOther
  <2>6. n \in T
    BY <1>1, <2>3, <2>5
  <2>7. QED
    BY <2>1, <2>6
<1>4. PICK up : up = CHOOSE u : UpTo(u, list, objects, t, n)
  OBVIOUS
<1>5. UpTo(up, list, objects, t, n)
  BY <1>3, <1>4
<1>6. up[0] = <<>>
  BY <1>1, <1>5 DEF UpTo
<1>7. PICK U : U = {k \in 0 .. n : up[k] \in Seq(S)}
  OBVIOUS
<1>8. ASSUME NEW k \in 0 .. n, k \in U, k < n PROVE k + 1 \in U
  <2>1. k + 1 \in 0 .. n /\ k + 1 # 0 /\ (k + 1) - 1 = k /\ k + 1 \in 1 .. n
    BY <1>1, <1>8
  <2>2. up[k + 1] = IF objects[list[k + 1]].type = t THEN Append(up[k], list[k + 1]) ELSE up[k]
    BY <1>5, <2>1 DEF UpTo
  <2>3. up[k] \in Seq(S) /\ list[k + 1] \in S
    BY <1>1, <1>7, <1>8, <2>1
  <2>4. up[k + 1] \in Seq(S)
    BY <2>2, <2>3, AppendProperties
  <2>5. QED
    BY <1>7, <2>1, <2>4
<1>9. 0 \in U
  <2>1. 0 \in 0 .. n /\ <<>> \in Seq(S)
    BY <1>1, EmptySeq
  <2>2. QED
    BY <1>6, <1>7, <2>1
<1>10. n > 0 => 1 \in U
  <2>1. n > 0 => 0 + 1 \in U
    BY <1>1, <1>8, <1>9
  <2>2. QED
    BY <2>1
<1>11. \A k \in 1 .. n : k \in U
  BY <1>1, <1>8, <1>10, OneAfterTheOther
<1>12. n \in U
  BY <1>1, <1>9, <1>11
<1>13. QED
  BY <1>2, <1>4, <1>7, <1>12

\* findIndex gives the first item of the name, or none.
LEMMA IndexFound ==
  ASSUME aggList \in Seq(DOMAIN made), NEW name
  PROVE  /\ FindIndex(name) \in 0 .. Len(aggList)
         /\ FindIndex(name) # 0 => made[aggList[FindIndex(name)]].name = name
         /\ name \in ListedNames => FindIndex(name) # 0
<1> DEFINE found == {k \in DOMAIN aggList : made[aggList[k]].name = name}
<1>1. DOMAIN aggList = 1 .. Len(aggList) /\ Len(aggList) \in Nat
  BY LenProperties
<1>2. CASE found = {}
  <2>1. ~ \E k \in DOMAIN aggList : made[aggList[k]].name = name
    BY <1>2
  <2>2. FindIndex(name) = 0
    BY <2>1 DEF FindIndex
  <2>3. name \notin ListedNames
    BY <2>1 DEF ListedNames, Listed, Range
  <2>4. QED
    BY <1>1, <2>2, <2>3
<1>3. CASE found # {}
  <2>1. found \in SUBSET Nat
    BY <1>1
  <2>2. PICK k \in found : \A m \in found : k <= m
    BY <1>3, <2>1, Smallest
  <2>3. /\ k \in DOMAIN aggList /\ made[aggList[k]].name = name
        /\ \A m \in 1 .. (k - 1) : made[aggList[m]].name # name
    <3>1. k \in 1 .. Len(aggList)
      BY <1>1, <2>2
    <3>2. ASSUME NEW m \in 1 .. (k - 1), made[aggList[m]].name = name PROVE FALSE
      <4>1. m \in DOMAIN aggList
        BY <1>1, <3>1
      <4>2. k <= m
        BY <2>2, <3>2, <4>1
      <4>3. QED
        BY <3>1, <4>2
    <3>3. QED
      BY <2>2, <3>2
  <2>4. PICK i : i = FindIndex(name)
    OBVIOUS
  <2>5. i = CHOOSE j \in DOMAIN aggList :
                /\ made[aggList[j]].name = name
                /\ \A m \in 1 .. (j - 1) : made[aggList[m]].name # name
    BY <2>3, <2>4 DEF FindIndex
  <2>6. i \in DOMAIN aggList /\ made[aggList[i]].name = name
    BY <2>3, <2>5
  <2>7. QED
    BY <1>1, <2>4, <2>6
<1>4. QED
  BY <1>2, <1>3

\* The item at k is taken off the list, or its last one.
LEMMA SplicedList ==
  ASSUME NEW S, aggList \in Seq(S), NEW k \in 0 .. Len(aggList)
  PROVE  Spliced(k) \in Seq(S)
<1>1. CASE aggList = <<>>
  BY <1>1 DEF Spliced
<1>2. CASE aggList # <<>>
  <2>1. (IF k = 0 THEN Len(aggList) ELSE k) \in 1 .. Len(aggList)
    BY <1>2
  <2>2. QED
    BY <1>2, <2>1, RemovedAt DEF Spliced
<1>3. QED
  BY <1>1, <1>2

LEMMA GroupsUpdated ==
  ASSUME NEW S, NEW list \in Seq(S), groups \in Seq(S), UpdateGroup(list)
  PROVE  groups' \in Seq(S)
  BY OfTypeListed DEF UpdateGroup

LEMMA RemoveTyped ==
  ASSUME DefinitionTypeOK, NEW name, Remove_(name)
  PROVE  made' = made /\ aggList' \in Seq(DOMAIN made) /\ groups' \in Seq(DOMAIN made)
<1>1. aggList' \in Seq(DOMAIN made) /\ made' = made
  BY IndexFound, SplicedList DEF Remove_, DefinitionTypeOK
<1>2. groups' \in Seq(DOMAIN made)
  BY <1>1, GroupsUpdated DEF Remove_, DefinitionTypeOK
<1>3. QED
  BY <1>1, <1>2

LEMMA PreviewRemoved ==
  ASSUME DefinitionTypeOK, NEW k \in DOMAIN previews
  PROVE  RemoveAt(previews, k) \in Seq({0} \cup DOMAIN made)
<1>1. k \in 1 .. Len(previews)
  BY LenProperties DEF DefinitionTypeOK
<1>2. QED
  BY <1>1, RemovedAt DEF DefinitionTypeOK

LEMMA DefinitionTypeNext ==
  DefinitionTypeOK /\ [DefinitionNext]_dvars => DefinitionTypeOK'
<1> SUFFICES ASSUME DefinitionTypeOK, [DefinitionNext]_dvars PROVE DefinitionTypeOK'
  OBVIOUS
<1>0. /\ made \in ItemsMade /\ aggList \in Seq(DOMAIN made) /\ groups \in Seq(DOMAIN made)
      /\ previews \in Seq({0} \cup DOMAIN made)
  BY DEF DefinitionTypeOK, ItemsMade
<1>1. ASSUME NEW t \in ItemTypes, NEW n \in ItemNames, Add(t, n) PROVE DefinitionTypeOK'
  <2>1. PICK e : e = [type |-> t, name |-> n]
    OBVIOUS
  <2>2. e \in [type : ItemTypes, name : ItemNames]
    BY <2>1
  <2>3. made' = Append(made, e)
    BY <1>1, <2>1 DEF Add
  <2>4. /\ made' \in ItemsMade /\ Len(made') = Len(made) + 1
        /\ DOMAIN made = 1 .. Len(made) /\ DOMAIN made' = 1 .. Len(made) + 1
        /\ Len(made) \in Nat
    BY <1>0, <2>2, <2>3, Appended, LenProperties DEF ItemsMade
  <2>5. DOMAIN made \subseteq DOMAIN made' /\ Len(made') \in DOMAIN made'
    BY <2>4
  <2>6. /\ aggList \in Seq(DOMAIN made') /\ groups \in Seq(DOMAIN made')
        /\ previews \in Seq({0} \cup DOMAIN made')
    BY <1>0, <2>5, SeqWidens
  <2>7. aggList' \in Seq(DOMAIN made')
    BY <1>1, <2>5, <2>6, AppendProperties DEF Add
  <2>8. groups' \in Seq(DOMAIN made')
    <3>1. UpdateGroup(aggList') \/ UNCHANGED groups
      BY <1>1 DEF Add
    <3>2. CASE UpdateGroup(aggList')
      BY <2>6, <2>7, <3>2, GroupsUpdated
    <3>3. QED
      BY <2>6, <3>1, <3>2
  <2>9. previews' \in Seq({0} \cup DOMAIN made')
    BY <1>1, <2>5, <2>6, AppendProperties DEF Add
  <2>10. QED
    BY <2>4, <2>7, <2>8, <2>9 DEF DefinitionTypeOK, ItemsMade
<1>2. ASSUME NEW n \in ItemNames, RemoveTransformation(n) PROVE DefinitionTypeOK'
  <2>1. made' = made /\ aggList' \in Seq(DOMAIN made) /\ groups' \in Seq(DOMAIN made)
    BY <1>2, RemoveTyped DEF RemoveTransformation
  <2>2. previews' \in Seq({0} \cup DOMAIN made)
    BY <1>0, <1>2, AppendProperties DEF RemoveTransformation
  <2>3. QED
    BY <1>0, <2>1, <2>2 DEF DefinitionTypeOK, ItemsMade
<1>3. ASSUME NEW from \in ItemNames, NEW new \in ItemNames, EditTransformation(from, new)
      PROVE  DefinitionTypeOK'
  <2>1. PICK i : i = aggList[FindIndex(from)]
    OBVIOUS
  <2>2. made' = [made EXCEPT ![i].name = new]
    BY <1>3, <2>1 DEF EditTransformation
  <2>3. \A j \in DOMAIN made : made[j] \in [type : ItemTypes, name : ItemNames]
    BY <1>0, ElementOfSeq, LenProperties DEF ItemsMade
  <2>4. made' \in ItemsMade /\ DOMAIN made' = DOMAIN made
    <3>1. /\ DOMAIN made' = DOMAIN made
          /\ \A j \in DOMAIN made : made'[j] \in [type : ItemTypes, name : ItemNames]
      BY <2>2, <2>3
    <3>2. DOMAIN made = 1 .. Len(made) /\ Len(made) \in Nat
      BY <1>0, LenProperties DEF ItemsMade
    <3>3. made' \in [1 .. Len(made) -> [type : ItemTypes, name : ItemNames]]
      BY <2>2, <3>1, <3>2
    <3>4. QED
      BY <3>1, <3>2, <3>3, ASequence DEF ItemsMade
  <2>5. aggList' = aggList /\ UpdateGroup(aggList)
    BY <1>3 DEF EditTransformation
  <2>6. groups' \in Seq(DOMAIN made')
    BY <1>0, <2>4, <2>5, GroupsUpdated
  <2>7. previews' \in Seq({0} \cup DOMAIN made')
    BY <1>0, <1>3, <2>4, AppendProperties DEF EditTransformation
  <2>8. QED
    BY <1>0, <2>4, <2>5, <2>6, <2>7 DEF DefinitionTypeOK, ItemsMade
<1>4. ASSUME NEW k \in DOMAIN previews, PreviewOk(k) PROVE DefinitionTypeOK'
  BY <1>0, <1>4, PreviewRemoved DEF PreviewOk, Answered, DefinitionTypeOK
<1>5. ASSUME NEW k \in DOMAIN previews, PreviewFails(k) PROVE DefinitionTypeOK'
  <2>1. CASE previews[k] = 0
    BY <1>0, <1>5, <2>1, PreviewRemoved DEF PreviewFails, Answered, DefinitionTypeOK
  <2>2. CASE previews[k] # 0
    <3>1. made' = made /\ aggList' \in Seq(DOMAIN made) /\ groups' \in Seq(DOMAIN made)
      BY <1>5, <2>2, RemoveTyped DEF PreviewFails
    <3>2. previews' \in Seq({0} \cup DOMAIN made)
      BY <1>5, <2>2, PreviewRemoved, AppendProperties DEF PreviewFails
    <3>3. QED
      BY <1>0, <3>1, <3>2 DEF DefinitionTypeOK, ItemsMade
  <2>3. QED
    BY <2>1, <2>2
<1>6. CASE ChangeSourceIndex
  BY <1>0, <1>6, EmptySeq DEF ChangeSourceIndex, DefinitionTypeOK, ItemsMade
<1>7. CASE SubmitTransform
  <2>1. UNCHANGED <<aggList, made, previews>> /\ UpdateGroup(aggList)
    BY <1>7 DEF SubmitTransform, Completed
  <2>2. groups' \in Seq(DOMAIN made)
    BY <1>0, <2>1, GroupsUpdated
  <2>3. QED
    BY <1>0, <2>1, <2>2 DEF DefinitionTypeOK, ItemsMade
<1>8. CASE UNCHANGED dvars
  BY <1>8 DEF dvars, DefinitionTypeOK
<1>9. QED
  BY <1>1, <1>2, <1>3, <1>4, <1>5, <1>6, <1>7, <1>8 DEF DefinitionNext

LEMMA DefinitionTypeInit == DefinitionInit => DefinitionTypeOK
  BY EmptySeq DEF DefinitionInit, DefinitionTypeOK

\* The lists of the second step of the wizard name objects that were made,
\* whatever is chosen, renamed and removed while previews are under way.
THEOREM DefinitionTyped == DefinitionSpec => []DefinitionTypeOK
<1>1. QED
  BY DefinitionTypeInit, DefinitionTypeNext, PTL DEF DefinitionSpec

-----------------------------------------------------------------------------
(* What is submitted.                                                       *)

LEMMA SubmitsWhatIsListed ==
  ASSUME DefinitionTypeOK, SubmitTransform
  PROVE  CreatesWhatIsListed'
<1>1. PICK listed : listed = Aggregations(aggList, made)
  OBVIOUS
<1>2. /\ UNCHANGED <<aggList, made>> /\ UpdateGroup(aggList) /\ UpdateAggregation(aggList)
      /\ created' = [sent |-> TRUE, groups |-> groups', aggs |-> aggs',
                     list |-> aggList, made |-> made]
  BY DEF SubmitTransform, Completed
<1>3. /\ created'.sent /\ created'.groups = groups' /\ created'.aggs = aggs'
      /\ created'.list = aggList /\ created'.made = made
  BY <1>2
<1>4. OfType(aggList, made, "group") # <<>> => groups' = OfType(aggList, made, "group")
  BY <1>2 DEF UpdateGroup
<1>5. aggs' = [n \in {made[i].name : i \in listed} |->
                 CHOOSE i \in listed :
                   made[i].name = n /\ \A m \in listed : made[m].name = n => m <= i]
  BY <1>1, <1>2 DEF UpdateAggregation
<1>6. listed \subseteq 1 .. Len(made) /\ Len(made) \in Nat
  <2>1. Range(aggList) \subseteq DOMAIN made
    BY ElementOfSeq, LenProperties DEF DefinitionTypeOK, Range
  <2>2. DOMAIN made = 1 .. Len(made) /\ Len(made) \in Nat
    BY LenProperties DEF DefinitionTypeOK
  <2>3. QED
    BY <1>1, <2>1, <2>2 DEF Aggregations
<1>7. ASSUME NEW n \in DOMAIN aggs'
      PROVE  aggs'[n] \in listed /\ made[aggs'[n]].name = n
  <2>1. PICK same : same = {i \in listed : made[i].name = n}
    OBVIOUS
  <2>2. same \in SUBSET (0 .. Len(made)) /\ same # {}
    <3>1. same \subseteq listed /\ 1 .. Len(made) \subseteq 0 .. Len(made)
      BY <1>6, <2>1
    <3>2. n \in {made[i].name : i \in listed}
      BY <1>5, <1>7
    <3>3. QED
      BY <1>6, <2>1, <3>1, <3>2
  <2>3. \E i \in same : \A m \in same : m <= i
    BY <1>6, <2>2, Greatest
  <2>4. \E i \in listed : made[i].name = n /\ \A m \in listed : made[m].name = n => m <= i
    BY <2>1, <2>3
  <2>5. aggs'[n] = CHOOSE i \in listed :
                     made[i].name = n /\ \A m \in listed : made[m].name = n => m <= i
    BY <1>5, <1>7
  <2>6. QED
    BY <2>4, <2>5
<1>8. DOMAIN aggs' = {made[i].name : i \in listed}
  BY <1>5
<1>9. QED
  BY <1>1, <1>3, <1>4, <1>7, <1>8 DEF CreatesWhatIsListed

\* A transform is created with what the wizard lists: each aggregation under
\* its name and the groups in their order, whatever the failures of previews
\* have taken off before.  (updateGroup, updateAggregation, onSubmit.)
THEOREM CreatedAsListed == DefinitionSpec => []CreatesWhatIsListed
<1>1. DefinitionInit => CreatesWhatIsListed
  <2>1. DefinitionInit => ~created.sent
    BY DEF DefinitionInit
  <2>2. QED
    BY <2>1 DEF CreatesWhatIsListed
<1>2. DefinitionTypeOK /\ CreatesWhatIsListed /\ [DefinitionNext]_dvars
        => CreatesWhatIsListed'
  <2> SUFFICES ASSUME DefinitionTypeOK, CreatesWhatIsListed, [DefinitionNext]_dvars
               PROVE  CreatesWhatIsListed'
    OBVIOUS
  <2>1. CASE SubmitTransform
    BY <2>1, SubmitsWhatIsListed
  <2>2. CASE UNCHANGED created
    BY <2>2 DEF CreatesWhatIsListed
  <2>3. QED
    BY <2>1, <2>2 DEF DefinitionNext, Add, RemoveTransformation, EditTransformation,
       PreviewOk, PreviewFails, ChangeSourceIndex, dvars
<1>3. QED
  BY <1>1, <1>2, DefinitionTypeInit, DefinitionTypeNext, PTL DEF DefinitionSpec

-----------------------------------------------------------------------------
(* What a failed preview takes off.                                         *)

LEMMA FailureTakes ==
  ASSUME DefinitionTypeOK, NEW k \in DOMAIN previews, previews[k] \in Listed, PreviewFails(k)
  PROVE  /\ Len(aggList') = Len(aggList) - 1
         /\ \A i \in Listed :
              (\A m \in DOMAIN aggList' : aggList'[m] # i)
                => made[i].name = made[previews[k]].name
<1>0. /\ aggList \in Seq(DOMAIN made) /\ DOMAIN aggList = 1 .. Len(aggList)
      /\ Len(aggList) \in Nat
  BY LenProperties DEF DefinitionTypeOK
<1>1. previews[k] # 0
  <2>1. Listed \subseteq DOMAIN made
    BY <1>0, ElementOfSeq DEF Listed, Range
  <2>2. DOMAIN made = 1 .. Len(made)
    BY LenProperties DEF DefinitionTypeOK
  <2>3. QED
    BY <2>1, <2>2
<1>2. PICK name : name = made[previews[k]].name
  OBVIOUS
<1>3. name \in ListedNames
  BY <1>2 DEF ListedNames
<1>4. PICK at : at = FindIndex(name)
  OBVIOUS
<1>5. at \in 1 .. Len(aggList) /\ made[aggList[at]].name = name
  BY <1>0, <1>3, <1>4, IndexFound
<1>6. aggList' = RemoveAt(aggList, at)
  <2>1. aggList' = Spliced(at)
    BY <1>1, <1>2, <1>4 DEF PreviewFails, Remove_
  <2>2. aggList # <<>> /\ at # 0
    BY <1>0, <1>5
  <2>3. QED
    BY <2>1, <2>2 DEF Spliced
<1>7. /\ aggList' \in Seq(DOMAIN made) /\ Len(aggList') = Len(aggList) - 1
      /\ \A m \in 1 .. Len(aggList) - 1 :
           aggList'[m] = IF m < at THEN aggList[m] ELSE aggList[m + 1]
  BY <1>0, <1>5, <1>6, RemovedAt
<1>8. ASSUME NEW i \in Listed, \A m \in DOMAIN aggList' : aggList'[m] # i
      PROVE  made[i].name = name
  <2>1. PICK p \in 1 .. Len(aggList) : aggList[p] = i
    BY <1>0 DEF Listed, Range
  <2>2. DOMAIN aggList' = 1 .. Len(aggList) - 1
    BY <1>7, LenProperties
  <2>3. CASE p < at
    <3>1. p \in 1 .. Len(aggList) - 1 /\ aggList'[p] = i
      BY <1>0, <1>5, <1>7, <2>1, <2>3
    <3>2. QED
      BY <1>8, <2>2, <3>1
  <2>4. CASE p > at
    <3>1. p - 1 \in 1 .. Len(aggList) - 1 /\ ~(p - 1 < at) /\ (p - 1) + 1 = p
      BY <1>0, <1>5, <2>1, <2>4
    <3>2. aggList'[p - 1] = i
      BY <1>7, <2>1, <3>1
    <3>3. QED
      BY <1>8, <2>2, <3>1, <3>2
  <2>5. CASE p = at
    BY <1>5, <2>1, <2>5
  <2>6. QED
    BY <1>0, <1>5, <2>1, <2>3, <2>4, <2>5
<1>9. QED
  BY <1>2, <1>7, <1>8

\* The answer to a preview that fails takes one item off the list, one of the
\* name of the item it was for, as long as that item is listed.
THEOREM FailureTakesItsOwn == DefinitionSpec => FailureTakesOne
<1>1. DefinitionTypeOK =>
        [\A k \in DOMAIN previews :
           previews[k] \in Listed /\ PreviewFails(k) =>
             /\ Len(aggList') = Len(aggList) - 1
             /\ \A i \in Listed :
                  (\A m \in DOMAIN aggList' : aggList'[m] # i)
                    => made[i].name = made[previews[k]].name]_dvars
  BY FailureTakes
<1>2. QED
  BY <1>1, DefinitionTyped, PTL DEF FailureTakesOne

-----------------------------------------------------------------------------
(* The forms together.                                                      *)

\* The variables of the four parts have their types, whichever part acts.
THEOREM FormsTyped == MCSpec => []FormsTypeOK
<1>1. MCInit => FormInit /\ DefinitionInit /\ OperationInit /\ UpdateInit
  BY DEF MCInit
<1>2. [MCNext]_<<part, fvars, dvars, ovars, uvars>> => [FormNext]_fvars
  BY DEF MCNext
<1>3. [MCNext]_<<part, fvars, dvars, ovars, uvars>> => [DefinitionNext]_dvars
  BY DEF MCNext
<1>4. [MCNext]_<<part, fvars, dvars, ovars, uvars>> => [OperationNext]_ovars
  BY DEF MCNext
<1>5. [MCNext]_<<part, fvars, dvars, ovars, uvars>> => [UpdateNext]_uvars
  BY DEF MCNext
<1>6. MCSpec => FormSpec /\ DefinitionSpec /\ OperationSpec /\ UpdateSpec
  BY <1>1, <1>2, <1>3, <1>4, <1>5, PTL
     DEF MCSpec, FormSpec, DefinitionSpec, OperationSpec, UpdateSpec
<1>7. FormTypeOK /\ DefinitionTypeOK /\ OperationTypeOK /\ UpdateTypeOK => FormsTypeOK
  BY DEF FormsTypeOK
<1>8. QED
  BY <1>6, <1>7, FormTypeCorrect, DefinitionTyped, OperationTyped, UpdateTypeCorrect, PTL

=============================================================================
