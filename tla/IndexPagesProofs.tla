--------------------------- MODULE IndexPagesProofs ---------------------------
(***************************************************************************)
(* Theorems about IndexOperation, for every choice of the five pages and   *)
(* every bound, set of candidates and behaviour of other users, and about  *)
(* IndexUpdate, for every document, every choice of the five forms and     *)
(* every bound.                                                            *)
(***************************************************************************)
EXTENDS IndexOperation, IndexUpdate, TLAPS, FiniteSetTheorems

-----------------------------------------------------------------------------
(* The pages and the types that the proofs need.                            *)

\* What the proofs use of the records of Operations.
LEMMA OperationFields ==
  ASSUME NEW o \in Operations
  PROVE  /\ o.locks \in BOOLEAN /\ o.checks \in BOOLEAN /\ o.catches \in BOOLEAN
         /\ o.stays \in BOOLEAN /\ o.task \in BOOLEAN
         /\ o.locks /\ ~o.checks /\ o # Shrink => ~o.catches /\ "open" \notin o.needs
         /\ o = Shrink => o.task /\ ~o.stays
<1>1. CASE o = Shrink
  BY <1>1 DEF Shrink
<1>2. CASE o = Split
  BY <1>2 DEF Split, Shrink
<1>3. CASE o = Reindex
  BY <1>3 DEF Reindex, Shrink
<1>4. CASE o = ForceMerge
  BY <1>4 DEF ForceMerge, Shrink
<1>5. CASE o = Rollover
  BY <1>5 DEF Rollover, Shrink
<1>6. QED
  BY <1>1, <1>2, <1>3, <1>4, <1>5 DEF Operations

Typed ==
  /\ operation \in Operations /\ choice \in ChoiceSet /\ submits \subseteq Submissions
  /\ mounted \in BOOLEAN /\ listening \in BOOLEAN /\ busy \in BOOLEAN
  /\ clicks \in Nat /\ others \in Nat

\* A submission that goes on to another step.
LEMMA AdvanceFields ==
  ASSUME Typed, NEW h \in submits, NEW step \in Steps, Advance(h, step)
  PROVE  /\ submits' \subseteq Submissions
         /\ \A k \in submits' :
              \/ k \in submits /\ k # h
              \/ k.n = h.n /\ k.step = step /\ k.choice = h.choice /\ k.edited = h.edited
         /\ \A k, m \in submits' \ submits : k = m
<1>1. h \in Submissions
  BY DEF Typed
<1>2. /\ [h EXCEPT !.step = step] \in Submissions
      /\ [h EXCEPT !.step = step].n = h.n
      /\ [h EXCEPT !.step = step].step = step
      /\ [h EXCEPT !.step = step].choice = h.choice
      /\ [h EXCEPT !.step = step].edited = h.edited
  BY <1>1 DEF Submissions
<1>3. QED
  BY <1>2 DEF Advance, Typed

LEMMA TypedNext == Typed /\ [OperationNext]_ovars => Typed'
<1> SUFFICES ASSUME Typed, [OperationNext]_ovars PROVE Typed'
  OBVIOUS
<1>1. CASE \E r \in readings : ClusterReads(r) \/ ShowIndex(r) \/ ShowSettings(r)
  BY <1>1 DEF ClusterReads, ShowIndex, ShowSettings, Typed, ocounts
<1>2. CASE \E r \in readings : ReadingFails(r)
  BY <1>2 DEF ReadingFails, Typed, ocounts
<1>3. CASE Prepare \/ ClusterPrepares \/ Prepared
  BY <1>3 DEF Prepare, ClusterPrepares, Prepared, UserActs, Typed, ocounts
<1>4. CASE Open_ \/ ClusterOpens
  BY <1>4 DEF Open_, ClusterOpens, UserActs, Typed, ocounts
<1>5. CASE OpenEnds \/ OtherOpenEnds \/ Interfere
  <2>1. busy' \in BOOLEAN
    BY <1>5 DEF OpenEnds, OtherOpenEnds, Interfere, OpenComplete, Typed
  <2>2. others' \in Nat
    BY <1>5 DEF OpenEnds, OtherOpenEnds, Interfere, Typed, ocounts
  <2>3. QED
    BY <1>5, <2>1, <2>2 DEF OpenEnds, OtherOpenEnds, Interfere, Typed, ocounts
<1>6. ASSUME NEW c \in [from: Candidates, into: Candidates], Choose_(c) PROVE Typed'
  <2>1. c \in ChoiceSet
    BY DEF ChoiceSet
  <2>2. submits' \subseteq Submissions
    BY <1>6 DEF Choose_, Typed, Submissions
  <2>3. QED
    BY <1>6, <2>1, <2>2 DEF Choose_, UserActs, Typed
<1>7. CASE Click
  <2>1. submits' \subseteq Submissions /\ clicks' \in Nat
    <3> DEFINE new == [n |-> clicks', choice |-> choice, edited |-> FALSE,
                       step |-> IF operation.checks THEN "check" ELSE "sent"]
    <3>1. clicks' \in Nat /\ submits' = submits \cup {new}
      BY <1>7 DEF Click, Typed
    <3>2. new \in Submissions
      BY <3>1 DEF Submissions, Steps, Typed
    <3>3. QED
      BY <3>1, <3>2 DEF Typed
  <2>2. busy' \in BOOLEAN
    BY <1>7, OperationFields DEF Click, Locked, Typed
  <2>3. QED
    BY <1>7, <2>1, <2>2 DEF Click, Typed
<1>8. ASSUME NEW h \in submits, EndCheck_(h) \/ EndQuery(h) \/ SendReindex(h)
      PROVE  Typed'
  <2>1. submits' \subseteq Submissions
    <3>1. CASE \E step \in Steps : Advance(h, step)
      BY <3>1, AdvanceFields
    <3>2. CASE submits' = submits \ {h}
      BY <3>2 DEF Typed
    <3>3. QED
      BY <1>8, <3>1, <3>2 DEF EndCheck_, EndQuery, SendReindex, Steps
  <2>2. busy' \in BOOLEAN
    BY <1>8 DEF EndCheck_, EndQuery, SendReindex, Typed
  <2>3. QED
    BY <1>8, <2>1, <2>2 DEF EndCheck_, EndQuery, SendReindex, Typed, ocounts
<1>9. ASSUME NEW h \in submits,
             ClusterStarts(h) \/ Accepted(h) \/ Refused(h) \/ Throws(h) \/ AddTask(h)
      PROVE  Typed'
  <2>1. submits' \subseteq Submissions
    <3>1. CASE \E step \in Steps : Advance(h, step)
      BY <3>1, AdvanceFields
    <3>2. CASE submits' = submits \ {h}
      BY <3>2 DEF Typed
    <3>3. QED
      BY <1>9, <3>1, <3>2
         DEF ClusterStarts, Accepted, Refused, Throws, AddTask, JobAdded, Steps
  <2>2. busy' \in BOOLEAN
    BY <1>9 DEF ClusterStarts, Accepted, Refused, Throws, AddTask, Typed
  <2>3. mounted' \in BOOLEAN /\ listening' \in BOOLEAN
    BY <1>9 DEF ClusterStarts, Accepted, Refused, Throws, AddTask, Leaves, Typed
  <2>4. QED
    BY <1>9, <2>1, <2>2, <2>3
       DEF ClusterStarts, Accepted, Refused, Throws, AddTask, Typed, ocounts
<1>10. CASE LeavePage
  BY <1>10 DEF LeavePage, Leaves, Typed, ocounts
<1>11. CASE UNCHANGED ovars
  BY <1>11 DEF ovars, ocounts, Typed
<1>12. QED
  BY <1>1, <1>2, <1>3, <1>4, <1>5, <1>6, <1>7, <1>8, <1>9, <1>10, <1>11
     DEF OperationNext

-----------------------------------------------------------------------------
(* Reindex: what was checked and is not edited since is what is sent.       *)

Apart ==
  operation.checks => \A h \in submits : ~h.edited =>
    /\ h.choice = choice
    /\ h.step # "check" => h.choice.from # h.choice.into

LEMMA ApartNext == Typed /\ Apart /\ [OperationNext]_ovars => Apart'
<1> SUFFICES ASSUME Typed, Apart, [OperationNext]_ovars PROVE Apart'
  OBVIOUS
<1>1. ASSUME NEW c \in [from: Candidates, into: Candidates], Choose_(c) PROVE Apart'
  <2>1. \A h \in submits : [h EXCEPT !.edited = TRUE].edited
    BY DEF Typed, Submissions
  <2>2. QED
    BY <1>1, <2>1 DEF Choose_, Apart
<1>2. CASE Click
  BY <1>2 DEF Click, Apart
<1>3. ASSUME NEW h \in submits, EndCheck_(h) PROVE Apart'
  <2>1. UNCHANGED <<operation, choice>>
    BY <1>3 DEF EndCheck_
  <2>2. CASE \E step \in Steps : Distinct(h) /\ Advance(h, step)
    BY <2>1, <2>2, AdvanceFields DEF Apart, Distinct
  <2>3. CASE submits' = submits \ {h}
    BY <2>1, <2>3 DEF Apart
  <2>4. QED
    BY <1>3, <2>2, <2>3 DEF EndCheck_, Steps
<1>4. ASSUME NEW h \in submits,
             \/ EndQuery(h) \/ SendReindex(h) \/ ClusterStarts(h) \/ Accepted(h)
             \/ Refused(h) \/ Throws(h) \/ AddTask(h)
      PROVE  Apart'
  <2>1. UNCHANGED <<operation, choice>> /\ h.step # "check"
    BY <1>4 DEF EndQuery, SendReindex, ClusterStarts, Accepted, Refused, Throws, AddTask
  <2>2. CASE \E step \in Steps : Advance(h, step)
    BY <2>1, <2>2, AdvanceFields DEF Apart
  <2>3. CASE submits' = submits \ {h}
    BY <2>1, <2>3 DEF Apart
  <2>4. QED
    BY <1>4, <2>2, <2>3
       DEF EndQuery, SendReindex, ClusterStarts, Accepted, Refused, Throws, AddTask,
           JobAdded, Steps
<1>5. CASE UNCHANGED <<operation, choice, submits>>
  BY <1>5 DEF Apart
<1>6. QED
  BY <1>1, <1>2, <1>3, <1>4, <1>5
     DEF OperationNext, ClusterReads, ShowIndex, ShowSettings, ReadingFails, Prepare,
         ClusterPrepares, Prepared, Open_, ClusterOpens, OpenEnds, OtherOpenEnds,
         Interfere, LeavePage, UserActs, ovars

LEMMA TypedInit == OperationInit => Typed
<1> SUFFICES ASSUME OperationInit PROVE Typed
  OBVIOUS
<1>1. choice \in ChoiceSet
  BY DEF OperationInit, ChoiceSet
<1>2. QED
  BY <1>1, OperationsAssumption DEF OperationInit, Typed

\* Reindex never copies an index into itself, whatever the requests of its
\* validation do and however many submissions overlap, unless the form was
\* edited after the click.  (checkDuplicate, validateDestination.)
THEOREM NotOntoItself == OperationSpec => []NeverOntoItself
<1>1. OperationInit => Apart
  BY DEF OperationInit, Apart
<1>2. Apart => NeverOntoItself
  BY DEF Apart, NeverOntoItself
<1>3. QED
  BY <1>1, <1>2, TypedInit, TypedNext, ApartNext, PTL DEF OperationSpec

-----------------------------------------------------------------------------
(* One request at a time.  On a page whose button is off during a request,  *)
(* at most one submission has no answer, and while the page is there it is  *)
(* busy with it; nor is an answered submission of shrink left on the page,  *)
(* and while the page itself opens the index nothing has been submitted.    *)

Guarded ==
  operation.locks /\ ~operation.checks /\ ~(operation = Shrink /\ others > 0)

Alone ==
  /\ \A h \in submits : h.step \in {"sent", "started", "refused", "job"}
  /\ \A h, k \in Unanswered : h = k
  /\ mounted /\ Unanswered # {} => busy
  /\ operation = Shrink /\ mounted =>
       /\ opening # "no" => Unanswered = {} /\ busy
       /\ \A h \in submits : h.step # "job"

Listens ==
  /\ listening => mounted
  /\ ~Opens => ~listening /\ opening = "no"

LEMMA ListensNext == Listens /\ [OperationNext]_ovars => Listens'
<1> SUFFICES ASSUME Listens, [OperationNext]_ovars PROVE Listens'
  OBVIOUS
<1> USE DEF Listens, Opens
<1>1. ASSUME NEW r \in readings,
             ClusterReads(r) \/ ShowIndex(r) \/ ShowSettings(r) \/ ReadingFails(r)
      PROVE  Listens'
  <2>1. CASE ClusterReads(r) \/ ShowIndex(r)
    <3>1. UNCHANGED <<operation, mounted, listening, opening>>
      BY <2>1 DEF ClusterReads, ShowIndex
    <3>2. QED
      BY <3>1
  <2>2. CASE ShowSettings(r)
    BY <2>2 DEF ShowSettings
  <2>3. CASE ReadingFails(r)
    BY <2>3 DEF ReadingFails
  <2>4. QED
    BY <1>1, <2>1, <2>2, <2>3
<1>2. CASE Prepare \/ ClusterPrepares \/ Prepared
  BY <1>2 DEF Prepare, ClusterPrepares, Prepared, UserActs
<1>3. CASE Open_ \/ ClusterOpens \/ OpenEnds \/ OtherOpenEnds \/ Interfere
  BY <1>3 DEF Open_, ClusterOpens, OpenEnds, OtherOpenEnds, Interfere, UserActs
<1>4. CASE (\E c \in [from: Candidates, into: Candidates] : Choose_(c)) \/ Click
  BY <1>4 DEF Choose_, Click, UserActs, shows
<1>5. ASSUME NEW h \in submits, EndCheck_(h) \/ EndQuery(h) \/ SendReindex(h)
      PROVE  Listens'
  BY <1>5 DEF EndCheck_, EndQuery, SendReindex, shows
<1>6. ASSUME NEW h \in submits,
             ClusterStarts(h) \/ Accepted(h) \/ Refused(h) \/ Throws(h) \/ AddTask(h)
      PROVE  Listens'
  <2>1. Leaves \/ UNCHANGED <<mounted, listening>>
    BY <1>6 DEF ClusterStarts, Accepted, Refused, Throws, AddTask
  <2>2. UNCHANGED <<operation, opening>>
    BY <1>6 DEF ClusterStarts, Accepted, Refused, Throws, AddTask, shows
  <2>3. QED
    BY <2>1, <2>2 DEF Leaves
<1>7. CASE LeavePage \/ UNCHANGED ovars
  BY <1>7 DEF LeavePage, Leaves, ovars, shows
<1>8. QED
  BY <1>1, <1>2, <1>3, <1>4, <1>5, <1>6, <1>7 DEF OperationNext

\* A step that leaves the submissions alone, and the page or its flag.
LEMMA KeepAlone ==
  ASSUME Alone, UNCHANGED <<operation, submits, opening>>,
         mounted' => (mounted /\ busy' = busy)
  PROVE  Alone'
  BY DEF Alone, Unanswered

LEMMA AloneNext ==
  Typed /\ Listens /\ (Guarded => Alone) /\ [OperationNext]_ovars => (Guarded => Alone)'
<1> SUFFICES ASSUME Typed, Listens, Guarded => Alone, [OperationNext]_ovars, Guarded'
             PROVE  Alone'
  OBVIOUS
<1>0. Guarded /\ Alone /\ operation' = operation
  <2>1. operation' = operation
    BY DEF OperationNext, ClusterReads, ShowIndex, ShowSettings, ReadingFails, Prepare,
           ClusterPrepares, Prepared, Open_, ClusterOpens, OpenEnds, OtherOpenEnds,
           Interfere, Choose_, Click, EndCheck_, EndQuery, SendReindex, ClusterStarts,
           Accepted, Refused, Throws, AddTask, LeavePage, UserActs, ovars
  <2>2. others' = others \/ others' = others + 1
    BY DEF OperationNext, ClusterReads, ShowIndex, ShowSettings, ReadingFails, Prepare,
           ClusterPrepares, Prepared, Open_, ClusterOpens, OpenEnds, OtherOpenEnds,
           Interfere, Choose_, Click, EndCheck_, EndQuery, SendReindex, ClusterStarts,
           Accepted, Refused, Throws, AddTask, LeavePage, UserActs, ovars, ocounts
  <2>3. QED
    BY <2>1, <2>2 DEF Guarded, Typed
<1>1. ASSUME NEW r \in readings,
             ClusterReads(r) \/ ShowIndex(r) \/ ShowSettings(r) \/ ReadingFails(r)
      PROVE  Alone'
  <2>1. UNCHANGED <<submits, opening, busy>>
    BY <1>1 DEF ClusterReads, ShowIndex, ShowSettings, ReadingFails
  <2>2. mounted' => mounted
    BY <1>1 DEF ClusterReads, ShowIndex, ShowSettings, ReadingFails
  <2>3. QED
    BY <1>0, <2>1, <2>2, KeepAlone
<1>2. CASE Prepare \/ ClusterPrepares \/ Prepared \/ Interfere
  BY <1>0, <1>2, KeepAlone DEF Prepare, ClusterPrepares, Prepared, Interfere, UserActs
<1>3. CASE Open_
  <2>1. operation = Shrink
    BY <1>0, <1>3, OperationFields DEF Open_, Opens, Guarded, Typed
  <2>2. mounted /\ ~busy /\ busy' = TRUE /\ UNCHANGED <<submits, mounted>>
    BY <1>3, <2>1 DEF Open_, UserActs
  <2>3. QED
    BY <1>0, <2>1, <2>2 DEF Alone, Unanswered
<1>4. CASE ClusterOpens
  <2>1. opening = "asked" /\ UNCHANGED <<submits, busy, mounted>>
    BY <1>4 DEF ClusterOpens
  <2>2. QED
    BY <1>0, <2>1 DEF Alone, Unanswered
<1>5. CASE OpenEnds
  <2>1. /\ opening = "done" /\ opening' = "no" /\ UNCHANGED <<submits, mounted>>
        /\ OpenComplete
    BY <1>5 DEF OpenEnds
  <2>2. operation = Shrink
    BY <1>0, <2>1, OperationFields DEF Listens, Opens, Guarded, Typed
  <2>3. mounted => Unanswered = {}
    BY <1>0, <2>1, <2>2 DEF Alone
  <2>4. QED
    BY <1>0, <2>1, <2>2, <2>3 DEF Alone, Unanswered
<1>6. CASE OtherOpenEnds
  <2>1. OpenComplete /\ UNCHANGED <<submits, opening, mounted>> /\ others' = others + 1
    BY <1>6 DEF OtherOpenEnds
  <2>2. operation # Shrink
    BY <1>0, <2>1 DEF Guarded, Typed
  <2>3. ~listening
    BY <1>0, <2>2, OperationFields DEF Listens, Opens, Guarded, Typed
  <2>4. QED
    BY <1>0, <2>1, <2>3, KeepAlone DEF OpenComplete
<1>7. ASSUME NEW c \in [from: Candidates, into: Candidates], Choose_(c) PROVE Alone'
  BY <1>0, <1>7 DEF Choose_, Guarded
<1>8. CASE Click
  <2>1. mounted /\ ~busy /\ Unanswered = {}
    BY <1>0, <1>8 DEF Click, Alone
  <2>2. \E new : /\ submits' = submits \cup {new} /\ new.step = "sent"
                /\ busy' = Locked /\ UNCHANGED <<mounted, opening>>
    BY <1>0, <1>8 DEF Click, Guarded, shows
  <2>3. busy'
    BY <1>0, <2>2 DEF Locked, Guarded
  <2>4. QED
    BY <1>0, <2>1, <2>2, <2>3 DEF Alone, Unanswered
<1>9. ASSUME NEW h \in submits, EndCheck_(h) \/ EndQuery(h) \/ SendReindex(h)
      PROVE  Alone'
  BY <1>0, <1>9 DEF EndCheck_, EndQuery, SendReindex, Alone
<1>10. ASSUME NEW h \in submits, ClusterStarts(h) PROVE Alone'
  <2>1. /\ h.step = "sent" /\ UNCHANGED <<busy, mounted, opening>>
        /\ \E step \in {"started", "refused"} : Advance(h, step)
    BY <1>10 DEF ClusterStarts, shows
  <2>2. /\ \A k \in submits' : k \in submits \/ k.step \in {"started", "refused"}
        /\ \A k \in Unanswered : k = h
        /\ \A k \in submits' : (k \in submits /\ k # h) \/ k \notin submits \/ k = h
    BY <1>0, <2>1, AdvanceFields DEF Alone, Unanswered, Steps
  <2>3. \A k \in Unanswered' : k \notin submits
    BY <2>1, <2>2, AdvanceFields DEF Unanswered, Steps
  <2>4. h \in Unanswered
    BY <2>1 DEF Unanswered
  <2>5. \A k, m \in Unanswered' : k = m
    BY <2>1, <2>3, AdvanceFields DEF Unanswered, Steps
  <2>6. QED
    BY <1>0, <2>1, <2>2, <2>4, <2>5 DEF Alone, Unanswered
<1>11. ASSUME NEW h \in submits, Accepted(h) PROVE Alone'
  <2>1. /\ h.step = "started" /\ UNCHANGED opening
        /\ mounted' => mounted
    BY <1>11 DEF Accepted, shows, Leaves
  <2>2. h \in Unanswered /\ \A k \in Unanswered : k = h
    <3>1. h \in Unanswered
      BY <2>1 DEF Unanswered
    <3>2. QED
      BY <1>0, <3>1 DEF Alone
  <2>3. CASE submits' = submits \ {h} /\ Leaves
    BY <1>0, <2>2, <2>3 DEF Alone, Unanswered, Leaves
  <2>4. CASE Advance(h, "job") /\ operation = Shrink /\ ~mounted'
    <3>1. \A k \in submits' : (k \in submits /\ k # h) \/ k.step = "job"
      BY <2>4, AdvanceFields DEF Steps
    <3>2. Unanswered' = {}
      BY <2>2, <3>1 DEF Unanswered
    <3>3. QED
      BY <1>0, <2>4, <3>1, <3>2 DEF Alone
  <2>5. CASE Advance(h, "job") /\ operation # Shrink
    <3>1. \A k \in submits' : (k \in submits /\ k # h) \/ k.step = "job"
      BY <2>5, AdvanceFields DEF Steps
    <3>2. Unanswered' = {}
      BY <2>2, <3>1 DEF Unanswered
    <3>3. QED
      BY <1>0, <2>5, <3>1, <3>2 DEF Alone
  <2>6. QED
    BY <1>0, <1>11, <2>3, <2>4, <2>5, OperationFields DEF Accepted, Leaves, Typed
<1>12. ASSUME NEW h \in submits, Refused(h) PROVE Alone'
  <2>1. /\ h.step = "refused" /\ UNCHANGED opening /\ submits' = submits \ {h}
        /\ mounted' => mounted
    BY <1>12 DEF Refused, shows, Leaves
  <2>2. h \in Unanswered /\ \A k \in Unanswered : k = h
    BY <1>0, <2>1 DEF Alone, Unanswered
  <2>3. Unanswered' = {}
    BY <2>1, <2>2 DEF Unanswered
  <2>4. operation = Shrink /\ mounted' => opening = "no"
    BY <1>0, <2>1, <2>2 DEF Alone
  <2>5. QED
    BY <1>0, <2>1, <2>3, <2>4 DEF Alone
<1>13. ASSUME NEW h \in submits, Throws(h) PROVE Alone'
  <2>1. /\ UNCHANGED <<mounted, opening>> /\ submits' = submits \ {h}
        /\ busy' = (IF operation.catches THEN FALSE ELSE busy)
        /\ h.step \in {"sent", "started", "refused", "job"}
    BY <1>13 DEF Throws, shows
  <2>2. Unanswered' \subseteq Unanswered
    BY <2>1 DEF Unanswered
  <2>3. CASE operation # Shrink
    <3>1. ~operation.catches
      BY <1>0, <2>3, OperationFields DEF Guarded, Typed
    <3>2. busy' = busy
      BY <2>1, <3>1
    <3>3. mounted' /\ Unanswered' # {} => busy'
      <4>1. mounted' /\ Unanswered' # {} => mounted /\ Unanswered # {}
        BY <2>1, <2>2
      <4>2. mounted /\ Unanswered # {} => busy
        BY <1>0 DEF Alone
      <4>3. QED
        BY <3>2, <4>1, <4>2
    <3>4. QED
      BY <1>0, <2>1, <2>2, <2>3, <3>3 DEF Alone
  <2>4. CASE operation = Shrink /\ mounted
    <3>1. h \in Unanswered
      BY <1>0, <2>1, <2>4 DEF Alone, Unanswered
    <3>2. Unanswered' = {} /\ opening = "no"
      BY <1>0, <2>1, <2>4, <3>1 DEF Alone, Unanswered
    <3>3. QED
      BY <1>0, <2>1, <3>2 DEF Alone
  <2>5. CASE ~mounted
    BY <1>0, <2>1, <2>2, <2>5 DEF Alone
  <2>6. QED
    BY <2>3, <2>4, <2>5
<1>14. ASSUME NEW h \in submits, AddTask(h) PROVE Alone'
  <2>1. submits' = submits \ {h} /\ ~mounted' /\ UNCHANGED opening
    BY <1>14 DEF AddTask, JobAdded, Leaves, shows
  <2>2. Unanswered' \subseteq Unanswered
    BY <2>1 DEF Unanswered
  <2>3. QED
    BY <1>0, <2>1, <2>2 DEF Alone
<1>15. CASE LeavePage
  BY <1>0, <1>15, KeepAlone DEF LeavePage, Leaves, shows
<1>16. CASE UNCHANGED ovars
  BY <1>0, <1>16, KeepAlone DEF ovars, shows
<1>17. QED
  BY <1>1, <1>2, <1>3, <1>4, <1>5, <1>6, <1>7, <1>8, <1>9, <1>10, <1>11, <1>12, <1>13,
     <1>14, <1>15, <1>16 DEF OperationNext

\* Shrink, force merge and rollover have at most one request for their
\* operation under way, through failures, opens and preparations, as long as
\* no other open of the cluster ends.  (loading and executing.)
THEOREM RequestedOnce == OperationSpec => []SentOnce
<1>1. OperationInit => Listens /\ (Guarded => Alone)
  BY DEF OperationInit, Listens, Alone, Unanswered
<1>2. (Guarded => Alone) => SentOnce
  <2>1. ASSUME Alone PROVE ~(Cardinality(Unanswered) > 1)
    <3>1. CASE Unanswered = {}
      BY <3>1, FS_EmptySet
    <3>2. CASE Unanswered # {}
      <4>1. PICK h : Unanswered = {h}
        BY <2>1, <3>2 DEF Alone
      <4>2. Cardinality({h}) = 1
        BY FS_Singleton
      <4>3. QED
        BY <4>1, <4>2
    <3>3. QED
      BY <3>1, <3>2
  <2>2. QED
    BY <2>1 DEF SentOnce, Guarded
<1>3. QED
  BY <1>1, <1>2, TypedInit, TypedNext, ListensNext, AloneNext, PTL DEF OperationSpec

-----------------------------------------------------------------------------
(* What the page shows of the source.  Nothing else changes the source, and *)
(* one reading is under way at a time: what it has read, or what the page   *)
(* shows, is the source as it is, or the change the page itself made waits  *)
(* to be followed by another reading.                                       *)

OneReading == \A a, b \in readings : a = b

\* A reading is a record, whatever its number.
ReadingForm(r) ==
  /\ r = [n |-> r.n, step |-> r.step, open |-> r.open, prepared |-> r.prepared]
  /\ r.step \in {"index", "index read", "settings", "settings read"}

OpenKnown ==
  \/ opening = "done"
  \/ readings = {} /\ seen.open = Answer(source.open)
  \/ \E r \in readings :
       \/ r.step = "index"
       \/ r.step = "index read" /\ r.open = Answer(source.open)
       \/ /\ r.step \in {"settings", "settings read"}
          /\ Answer(source.open) = IF operation = Split THEN r.open ELSE seen.open

PreparedKnown ==
  \/ preparing = "done"
  \/ readings = {} /\ seen.prepared = Answer(source.prepared)
  \/ \E r \in readings : r.step = "settings read" => r.prepared = Answer(source.prepared)

Undisturbed == mounted /\ ~disturbed /\ others = 0

SourceShown ==
  /\ \A r \in readings : ReadingForm(r)
  /\ seen = [open |-> seen.open, prepared |-> seen.prepared]
  /\ source \in [open: BOOLEAN, prepared: BOOLEAN]
  /\ Undisturbed => OneReading /\ (Opens => OpenKnown) /\ (Prepares => PreparedKnown)

\* Most steps touch none of it.
LEMMA SourceShownSame ==
  ASSUME SourceShown, UNCHANGED <<operation, source, seen, readings, disturbed, preparing, opening>>,
         mounted' => mounted, others' = 0 => others = 0
  PROVE  SourceShown'
  BY DEF SourceShown, ReadingForm, Undisturbed, OneReading, OpenKnown, PreparedKnown, Opens, Prepares,
     Answer

LEMMA FormOf ==
  ASSUME NEW r, ReadingForm(r)
  PROVE  /\ \A step, open : /\ [r EXCEPT !.step = step, !.open = open].step = step
                            /\ [r EXCEPT !.step = step, !.open = open].open = open
                            /\ [r EXCEPT !.step = step, !.open = open].prepared = r.prepared
         /\ \A step, prepared : /\ [r EXCEPT !.step = step, !.prepared = prepared].step = step
                                /\ [r EXCEPT !.step = step, !.prepared = prepared].open = r.open
                                /\ [r EXCEPT !.step = step, !.prepared = prepared].prepared = prepared
         /\ \A step : /\ [r EXCEPT !.step = step].step = step
                      /\ [r EXCEPT !.step = step].open = r.open
                      /\ [r EXCEPT !.step = step].prepared = r.prepared
<1> DEFINE m == [n |-> r.n, step |-> r.step, open |-> r.open, prepared |-> r.prepared]
<1>1. r = m
  BY DEF ReadingForm
<1>2. QED
  BY <1>1

\* Which pages open the index, and what a button waits for.
LEMMA WhatPagesNeed ==
  ASSUME NEW o \in Operations
  PROVE  /\ o.needs \subseteq {"open", "prepared"}
         /\ "open" \in o.needs => o \in {Shrink, Split} /\ "prepared" \in o.needs
<1>1. CASE o = Shrink
  BY <1>1 DEF Shrink
<1>2. CASE o = Split
  BY <1>2 DEF Split, Shrink
<1>3. CASE o = Reindex
  BY <1>3 DEF Reindex, Shrink
<1>4. CASE o = ForceMerge
  BY <1>4 DEF ForceMerge, Shrink
<1>5. CASE o = Rollover
  BY <1>5 DEF Rollover, Shrink
<1>6. QED
  BY <1>1, <1>2, <1>3, <1>4, <1>5 DEF Operations

LEMMA ShrinkIsNotSplit == Shrink # Split
<1>1. Shrink.name = "shrink" /\ Split.name = "split"
  BY DEF Shrink, Split
<1>2. QED
  BY <1>1

\* A reading that starts by itself reads what is asked of it.
LEMMA ReadingStarts ==
  ASSUME SourceShown, NEW step \in {"index", "settings"}, StartReading(step)
  PROVE  /\ \A r \in readings' : ReadingForm(r)
         /\ ~disturbed' => ~disturbed /\ readings = {}
         /\ ~disturbed' => /\ \E r \in readings' : r.step = step
                           /\ \A a, b \in readings' : a = b
<1>1. PICK m : m = Reading(step, readings)
  OBVIOUS
<1>2. ReadingForm(m) /\ m.step = step
  BY <1>1 DEF Reading, ReadingForm
<1>3. readings' = readings \cup {m} /\ disturbed' = (disturbed \/ readings # {})
  BY <1>1 DEF StartReading
<1>4. \A r \in readings' : ReadingForm(r)
  BY <1>2, <1>3 DEF SourceShown
<1>5. ~disturbed' => ~disturbed /\ readings = {}
  BY <1>3
<1>6. QED
  BY <1>2, <1>3, <1>4, <1>5

LEMMA ClusterReadsShown ==
  ASSUME SourceShown, NEW r \in readings, ClusterReads(r)
  PROVE  SourceShown'
<1>1. /\ UNCHANGED <<operation, mounted, source, seen, disturbed, preparing, opening, others>>
      /\ ReadSource(r)
  BY DEF ClusterReads, ocounts
<1>2. ReadingForm(r)
  BY DEF SourceShown
<1>3. \E m : /\ readings' = (readings \ {r}) \cup {m} /\ ReadingForm(m)
             /\ \/ /\ r.step = "index" /\ m.step = "index read"
                   /\ m.open = Answer(source.open)
                \/ /\ r.step = "settings" /\ m.step = "settings read"
                   /\ m.open = r.open /\ m.prepared = Answer(source.prepared)
  <2>1. CASE r.step = "index"
    <3>1. PICK m : m = [r EXCEPT !.step = "index read", !.open = Answer(source.open)]
      OBVIOUS
    <3>2. m = [n |-> r.n, step |-> "index read", open |-> Answer(source.open),
               prepared |-> r.prepared]
      BY <1>2, <3>1 DEF ReadingForm
    <3>3. ReadingForm(m) /\ m.step = "index read" /\ m.open = Answer(source.open)
      BY <3>2 DEF ReadingForm
    <3>4. readings' = (readings \ {r}) \cup {m}
      BY <1>1, <2>1, <3>1 DEF ReadSource
    <3>5. QED
      BY <2>1, <3>3, <3>4
  <2>2. CASE r.step = "settings"
    <3>1. PICK m : m = [r EXCEPT !.step = "settings read",
                                 !.prepared = Answer(source.prepared)]
      OBVIOUS
    <3>2. m = [n |-> r.n, step |-> "settings read", open |-> r.open,
               prepared |-> Answer(source.prepared)]
      BY <1>2, <3>1 DEF ReadingForm
    <3>3. /\ ReadingForm(m) /\ m.step = "settings read" /\ m.open = r.open
          /\ m.prepared = Answer(source.prepared)
      BY <3>2 DEF ReadingForm
    <3>4. readings' = (readings \ {r}) \cup {m}
      BY <1>1, <2>2, <3>1 DEF ReadSource
    <3>5. QED
      BY <2>2, <3>3, <3>4
  <2>3. QED
    BY <1>1, <2>1, <2>2 DEF ReadSource
<1>4. PICK m : /\ readings' = (readings \ {r}) \cup {m} /\ ReadingForm(m)
               /\ \/ /\ r.step = "index" /\ m.step = "index read"
                     /\ m.open = Answer(source.open)
                  \/ /\ r.step = "settings" /\ m.step = "settings read"
                     /\ m.open = r.open /\ m.prepared = Answer(source.prepared)
  BY <1>3
<1>5. \A a \in readings' : ReadingForm(a)
  BY <1>4 DEF SourceShown
<1>6. ASSUME Undisturbed' PROVE OneReading' /\ (Opens' => OpenKnown') /\ (Prepares' => PreparedKnown')
  <2>1. Undisturbed /\ OneReading
    BY <1>1, <1>6 DEF Undisturbed, SourceShown
  <2>2. readings = {r} /\ readings' = {m}
    BY <1>4, <2>1 DEF OneReading
  <2>3. ASSUME Opens' PROVE OpenKnown'
    <3>1. OpenKnown
      BY <1>1, <2>1, <2>3 DEF SourceShown, Opens
    <3>2. CASE opening = "done"
      BY <1>1, <3>2 DEF OpenKnown
    <3>3. CASE opening # "done" /\ r.step = "index"
      BY <1>1, <1>4, <2>2, <3>3 DEF OpenKnown
    <3>4. CASE opening # "done" /\ r.step # "index"
      BY <1>1, <1>4, <2>2, <3>1, <3>4 DEF OpenKnown
    <3>5. QED
      BY <3>2, <3>3, <3>4
  <2>4. ASSUME Prepares' PROVE PreparedKnown'
    BY <1>1, <1>4, <2>2 DEF PreparedKnown
  <2>5. OneReading'
    BY <2>2 DEF OneReading
  <2>6. QED
    BY <2>3, <2>4, <2>5
<1>7. QED
  BY <1>1, <1>5, <1>6 DEF SourceShown

LEMMA ShowIndexShown ==
  ASSUME SourceShown, operation \in Operations, NEW r \in readings, ShowIndex(r)
  PROVE  SourceShown'
<1>1. /\ UNCHANGED <<operation, mounted, source, disturbed, preparing, opening, others>>
      /\ r.step = "index read"
      /\ seen' = IF operation = Shrink /\ mounted THEN [seen EXCEPT !.open = r.open] ELSE seen
  BY DEF ShowIndex, ocounts
<1>2. ReadingForm(r)
  BY DEF SourceShown
<1>3. PICK m : m = [r EXCEPT !.step = "settings"]
  OBVIOUS
<1>4. m = [n |-> r.n, step |-> "settings", open |-> r.open, prepared |-> r.prepared]
  BY <1>2, <1>3 DEF ReadingForm
<1>5. ReadingForm(m) /\ m.step = "settings" /\ m.open = r.open
  BY <1>4 DEF ReadingForm
<1>6. readings' = (readings \ {r}) \cup {m}
  BY <1>3 DEF ShowIndex
<1>7. \A a \in readings' : ReadingForm(a)
  BY <1>5, <1>6 DEF SourceShown
<1>8. seen' = [open |-> seen'.open, prepared |-> seen'.prepared]
      /\ (operation = Shrink /\ mounted => seen'.open = r.open)
      /\ (~(operation = Shrink /\ mounted) => seen' = seen)
  BY <1>1 DEF SourceShown
<1>9. ASSUME Undisturbed' PROVE OneReading' /\ (Opens' => OpenKnown') /\ (Prepares' => PreparedKnown')
  <2>1. Undisturbed /\ OneReading /\ mounted
    BY <1>1, <1>9 DEF Undisturbed, SourceShown
  <2>2. readings = {r} /\ readings' = {m}
    BY <1>6, <2>1 DEF OneReading
  <2>3. ASSUME Opens' PROVE OpenKnown'
    <3>1. OpenKnown /\ Opens
      BY <1>1, <2>1, <2>3 DEF SourceShown, Opens
    <3>2. CASE opening = "done"
      BY <1>1, <3>2 DEF OpenKnown
    <3>3. CASE opening # "done"
      <4>1. r.open = Answer(source.open)
        BY <1>1, <2>2, <3>1, <3>3 DEF OpenKnown
      <4>2. Answer(source'.open) = IF operation' = Split THEN m.open ELSE seen'.open
        BY <1>1, <1>5, <1>8, <2>1, <3>1, <4>1, WhatPagesNeed DEF Opens
      <4>3. QED
        BY <1>5, <2>2, <4>2 DEF OpenKnown
    <3>4. QED
      BY <3>2, <3>3
  <2>4. ASSUME Prepares' PROVE PreparedKnown'
    BY <1>5, <2>2 DEF PreparedKnown
  <2>5. OneReading'
    BY <2>2 DEF OneReading
  <2>6. QED
    BY <2>3, <2>4, <2>5
<1>10. QED
  BY <1>1, <1>7, <1>8, <1>9 DEF SourceShown

LEMMA ShowSettingsShown ==
  ASSUME SourceShown, operation \in Operations, NEW r \in readings, ShowSettings(r)
  PROVE  SourceShown'
<1>1. /\ UNCHANGED <<operation, mounted, source, disturbed, preparing, opening, others>>
      /\ r.step = "settings read" /\ readings' = readings \ {r}
      /\ seen' = IF mounted THEN Reasons(r) ELSE seen
  BY DEF ShowSettings, ocounts
<1>2. \A a \in readings' : ReadingForm(a)
  BY <1>1 DEF SourceShown
<1>3. /\ seen' = [open |-> seen'.open, prepared |-> seen'.prepared]
      /\ mounted => /\ seen'.prepared = r.prepared
                    /\ seen'.open = IF operation = Split THEN r.open ELSE seen.open
  BY <1>1 DEF Reasons, SourceShown
<1>4. ASSUME Undisturbed' PROVE OneReading' /\ (Opens' => OpenKnown') /\ (Prepares' => PreparedKnown')
  <2>1. Undisturbed /\ OneReading /\ mounted
    BY <1>1, <1>4 DEF Undisturbed, SourceShown
  <2>2. readings = {r} /\ readings' = {}
    BY <1>1, <2>1 DEF OneReading
  <2>3. ASSUME Opens' PROVE OpenKnown'
    BY <1>1, <1>3, <2>1, <2>2, <2>3 DEF SourceShown, OpenKnown, Opens
  <2>4. ASSUME Prepares' PROVE PreparedKnown'
    BY <1>1, <1>3, <2>1, <2>2, <2>4 DEF SourceShown, PreparedKnown, Prepares
  <2>5. OneReading'
    BY <2>2 DEF OneReading
  <2>6. QED
    BY <2>3, <2>4, <2>5
<1>5. QED
  BY <1>1, <1>2, <1>3, <1>4 DEF SourceShown

LEMMA PreparingShown ==
  ASSUME SourceShown, operation \in Operations, Prepare \/ ClusterPrepares \/ Prepared
  PROVE  SourceShown'
<1>1. CASE Prepare
  <2>1. /\ UNCHANGED <<operation, mounted, source, seen, readings, disturbed, opening, others>>
        /\ preparing = "no"
    BY <1>1 DEF Prepare, UserActs
  <2>2. QED
    BY <2>1 DEF SourceShown, ReadingForm, Undisturbed, OneReading, OpenKnown,
       PreparedKnown, Opens, Prepares
<1>2. CASE ClusterPrepares
  <2>1. /\ UNCHANGED <<operation, mounted, seen, readings, disturbed, opening, others>>
        /\ preparing = "asked"
        /\ \/ preparing' = "done" /\ source' = [source EXCEPT !.prepared = TRUE]
           \/ UNCHANGED source
    BY <1>2 DEF ClusterPrepares, ocounts
  <2>2. source' \in [open: BOOLEAN, prepared: BOOLEAN] /\ source'.open = source.open
    BY <2>1 DEF SourceShown
  <2>3. OneReading => OneReading'
    BY <2>1 DEF OneReading
  <2>4. OpenKnown => OpenKnown'
    BY <2>1, <2>2 DEF OpenKnown
  <2>5. PreparedKnown => PreparedKnown'
    BY <2>1 DEF PreparedKnown
  <2>6. \A r \in readings' : ReadingForm(r)
    BY <2>1 DEF SourceShown
  <2>7. QED
    BY <2>1, <2>2, <2>3, <2>4, <2>5, <2>6 DEF SourceShown, Undisturbed, Opens, Prepares
<1>3. CASE Prepared
  <2>1. /\ UNCHANGED <<operation, mounted, source, seen, opening, others>>
        /\ preparing \in {"done", "refused"} /\ preparing' = "no" /\ ReadAgain
    BY <1>3 DEF Prepared, ocounts
  <2>2. CASE preparing = "done" \/ operation = Shrink
    <3>1. PICK step \in {"index", "settings"} :
             StartReading(step) /\ (step = "index" <=> operation = Split)
      BY <2>1, <2>2 DEF ReadAgain
    <3>2. /\ \A r \in readings' : ReadingForm(r)
          /\ ~disturbed' => ~disturbed /\ readings = {}
          /\ ~disturbed' => /\ \E r \in readings' : r.step = step
                            /\ \A a, b \in readings' : a = b
      BY <3>1, ReadingStarts
    <3>3. ASSUME Undisturbed'
          PROVE  OneReading' /\ (Opens' => OpenKnown') /\ (Prepares' => PreparedKnown')
      <4>1. Undisturbed /\ readings = {}
        BY <2>1, <3>2, <3>3 DEF Undisturbed
      <4>2. PICK r \in readings' : r.step = step
        BY <3>2, <3>3 DEF Undisturbed
      <4>3. OneReading'
        BY <3>2, <3>3 DEF Undisturbed, OneReading
      <4>4. PreparedKnown'
        BY <4>2 DEF PreparedKnown
      <4>5. ASSUME Opens' PROVE OpenKnown'
        <5>1. OpenKnown
          BY <2>1, <4>1, <4>5 DEF SourceShown, Opens
        <5>2. CASE opening = "done" \/ operation = Split
          BY <2>1, <3>1, <4>2, <5>2 DEF OpenKnown
        <5>3. CASE opening # "done" /\ operation # Split
          <6>1. seen'.open = Answer(source'.open)
            BY <2>1, <4>1, <5>1, <5>3 DEF OpenKnown
          <6>2. QED
            BY <2>1, <3>1, <4>2, <5>3, <6>1 DEF OpenKnown
        <5>4. QED
          BY <5>2, <5>3
      <4>6. QED
        BY <4>3, <4>4, <4>5
    <3>4. QED
      BY <2>1, <3>2, <3>3 DEF SourceShown
  <2>3. CASE ~(preparing = "done" \/ operation = Shrink)
    <3>1. UNCHANGED <<readings, disturbed>>
      BY <2>1, <2>3 DEF ReadAgain
    <3>2. QED
      BY <2>1, <2>3, <3>1 DEF SourceShown, ReadingForm, Undisturbed, OneReading, OpenKnown,
         PreparedKnown, Opens, Prepares
  <2>4. QED
    BY <2>2, <2>3
<1>4. QED
  BY <1>1, <1>2, <1>3

LEMMA OpeningShown ==
  ASSUME SourceShown, operation \in Operations, others \in Nat,
         Open_ \/ ClusterOpens \/ OpenEnds \/ OtherOpenEnds \/ Interfere
  PROVE  SourceShown'
<1>1. CASE Open_
  <2>1. /\ UNCHANGED <<operation, mounted, source, seen, readings, disturbed, preparing, others>>
        /\ opening = "no"
    BY <1>1 DEF Open_, UserActs
  <2>2. QED
    BY <2>1 DEF SourceShown, ReadingForm, Undisturbed, OneReading, OpenKnown,
       PreparedKnown, Opens, Prepares
<1>2. CASE ClusterOpens
  <2>1. /\ UNCHANGED <<operation, mounted, seen, readings, disturbed, preparing, others>>
        /\ opening = "asked"
        /\ \/ opening' = "done" /\ source' = [source EXCEPT !.open = TRUE]
           \/ UNCHANGED source
    BY <1>2 DEF ClusterOpens, ocounts
  <2>2. source' \in [open: BOOLEAN, prepared: BOOLEAN] /\ source'.prepared = source.prepared
    BY <2>1 DEF SourceShown
  <2>3. OneReading => OneReading'
    BY <2>1 DEF OneReading
  <2>4. OpenKnown => OpenKnown'
    BY <2>1 DEF OpenKnown
  <2>5. PreparedKnown => PreparedKnown'
    BY <2>1, <2>2 DEF PreparedKnown
  <2>6. \A r \in readings' : ReadingForm(r)
    BY <2>1 DEF SourceShown
  <2>7. QED
    BY <2>1, <2>2, <2>3, <2>4, <2>5, <2>6 DEF SourceShown, Undisturbed, Opens, Prepares
<1>3. CASE OpenEnds
  <2>1. /\ UNCHANGED <<operation, mounted, source, seen, preparing, others>> /\ OpenComplete
    BY <1>3 DEF OpenEnds, ocounts
  <2>2. CASE listening
    <3>1. StartReading("index")
      BY <2>1, <2>2 DEF OpenComplete
    <3>2. /\ \A r \in readings' : ReadingForm(r)
          /\ ~disturbed' => \E r \in readings' : r.step = "index"
          /\ ~disturbed' => \A a, b \in readings' : a = b
      BY <3>1, ReadingStarts
    <3>3. ~disturbed' => OneReading' /\ OpenKnown' /\ PreparedKnown'
      BY <3>2 DEF OneReading, OpenKnown, PreparedKnown
    <3>4. QED
      BY <2>1, <3>2, <3>3 DEF SourceShown, Undisturbed
  <2>3. CASE ~listening
    BY <2>1, <2>3 DEF OpenComplete, SourceShown, Undisturbed
  <2>4. QED
    BY <2>2, <2>3
<1>4. CASE OtherOpenEnds
  <2>1. UNCHANGED <<source, seen>> /\ others' # 0 /\ OpenComplete
    BY <1>4 DEF OtherOpenEnds
  <2>2. \A r \in readings' : ReadingForm(r)
    <3>1. CASE listening
      BY <2>1, <3>1, ReadingStarts DEF OpenComplete
    <3>2. CASE ~listening
      BY <2>1, <3>2 DEF OpenComplete, SourceShown
    <3>3. QED
      BY <3>1, <3>2
  <2>3. QED
    BY <2>1, <2>2 DEF SourceShown, Undisturbed
<1>5. CASE Interfere
  BY <1>5 DEF Interfere, SourceShown, Undisturbed
<1>6. QED
  BY <1>1, <1>2, <1>3, <1>4, <1>5

LEMMA SourceShownNext == Typed /\ SourceShown /\ [OperationNext]_ovars => SourceShown'
<1> SUFFICES ASSUME Typed, SourceShown, [OperationNext]_ovars PROVE SourceShown'
  OBVIOUS
<1>1. operation \in Operations /\ others \in Nat
  BY DEF Typed
<1>2. ASSUME NEW r \in readings,
             ClusterReads(r) \/ ShowIndex(r) \/ ShowSettings(r)
      PROVE  SourceShown'
  BY <1>1, <1>2, ClusterReadsShown, ShowIndexShown, ShowSettingsShown
<1>3. ASSUME NEW r \in readings, ReadingFails(r) PROVE SourceShown'
  BY <1>3 DEF ReadingFails, SourceShown, Undisturbed
<1>4. CASE Prepare \/ ClusterPrepares \/ Prepared
  BY <1>1, <1>4, PreparingShown
<1>5. CASE Open_ \/ ClusterOpens \/ OpenEnds \/ OtherOpenEnds \/ Interfere
  BY <1>1, <1>5, OpeningShown
<1>6. ASSUME NEW c \in [from: Candidates, into: Candidates], Choose_(c) PROVE SourceShown'
  BY <1>6, SourceShownSame DEF Choose_, UserActs
<1>7. CASE Click
  BY <1>7, SourceShownSame DEF Click, shows
<1>8. ASSUME NEW h \in submits, EndCheck_(h) \/ EndQuery(h) \/ SendReindex(h)
      PROVE  SourceShown'
  BY <1>8, SourceShownSame DEF EndCheck_, EndQuery, SendReindex, shows, ocounts
<1>9. ASSUME NEW h \in submits,
             ClusterStarts(h) \/ Accepted(h) \/ Refused(h) \/ Throws(h) \/ AddTask(h)
      PROVE  SourceShown'
  <2>1. UNCHANGED <<operation, shows, ocounts>>
    BY <1>9 DEF ClusterStarts, Accepted, Refused, Throws, AddTask
  <2>2. mounted' => mounted
    BY <1>9 DEF ClusterStarts, Accepted, Refused, Throws, AddTask, Leaves
  <2>3. QED
    BY <2>1, <2>2, SourceShownSame DEF shows, ocounts
<1>10. CASE LeavePage \/ UNCHANGED ovars
  BY <1>10, SourceShownSame DEF LeavePage, Leaves, ovars, shows, ocounts
<1>11. QED
  BY <1>2, <1>3, <1>4, <1>5, <1>6, <1>7, <1>8, <1>9, <1>10 DEF OperationNext

LEMMA SourceShownInit == OperationInit => SourceShown
<1> SUFFICES ASSUME OperationInit PROVE SourceShown
  OBVIOUS
<1>1. source \in [open: BOOLEAN, prepared: BOOLEAN]
  <2>1. [open |-> TRUE, prepared |-> TRUE] \in [open: BOOLEAN, prepared: BOOLEAN]
    OBVIOUS
  <2>2. QED
    BY <2>1 DEF OperationInit
<1>2. seen = [open |-> seen.open, prepared |-> seen.prepared]
  <2>1. seen = [open |-> "unread", prepared |-> "unread"]
    BY DEF OperationInit
  <2>2. QED
    BY <2>1
<1>3. CASE ~Prepares
  <2>1. readings = {} /\ operation \in Operations
    BY <1>3, OperationsAssumption DEF OperationInit
  <2>2. ~Opens
    BY <1>3, <2>1, WhatPagesNeed DEF Prepares, Opens
  <2>3. QED
    BY <1>1, <1>2, <1>3, <2>1, <2>2 DEF SourceShown, OneReading
<1>4. CASE Prepares
  <2>1. PICK m : m = Reading(IF Opens THEN "index" ELSE "settings", {})
    OBVIOUS
  <2>2. readings = {m}
    BY <1>4, <2>1 DEF OperationInit
  <2>3. ReadingForm(m) /\ m.step = IF Opens THEN "index" ELSE "settings"
    BY <2>1 DEF Reading, ReadingForm
  <2>4. OneReading /\ (Opens => OpenKnown) /\ PreparedKnown
    BY <2>2, <2>3 DEF OneReading, OpenKnown, PreparedKnown
  <2>5. QED
    BY <1>1, <1>2, <2>2, <2>3, <2>4 DEF SourceShown
<1>5. QED
  BY <1>3, <1>4

\* As long as no one else touches the source and no reading is disturbed, what
\* the page shows when nothing is under way is what the cluster holds: no
\* order of the two requests of a reading, of the page's own preparing and
\* opening and of their answers makes it miss its own change.
\* (onUpdateIndexSettings, openCompleteHandler.)
THEOREM OwnWorkIsShown == OperationSpec => []ShowsOwnWork
<1>1. Typed /\ SourceShown => ShowsOwnWork
  <2> SUFFICES ASSUME Typed, SourceShown, Undisturbed, readings = {}, preparing = "no",
                      opening = "no", NEW what \in operation.needs
               PROVE  seen[what] = Answer(source[what])
    BY DEF ShowsOwnWork, Undisturbed
  <2>1. what \in {"open", "prepared"}
    BY WhatPagesNeed DEF Typed
  <2>2. CASE what = "open"
    <3>1. seen.open = Answer(source.open)
      BY <2>2 DEF SourceShown, Opens, OpenKnown
    <3>2. QED
      BY <2>2, <3>1
  <2>3. CASE what = "prepared"
    <3>1. seen.prepared = Answer(source.prepared)
      BY <2>3 DEF SourceShown, Prepares, PreparedKnown
    <3>2. QED
      BY <2>3, <3>1
  <2>4. QED
    BY <2>1, <2>2, <2>3
<1>2. QED
  BY <1>1, TypedInit, TypedNext, SourceShownInit, SourceShownNext, PTL DEF OperationSpec

-----------------------------------------------------------------------------
(* The types.  What the page knows of the source are answers; a task that   *)
(* is watched was started by the cluster, and the cluster was asked.        *)

Known == {"unread", "yes", "no"}

ReadingsTyped ==
  /\ IsFiniteSet(readings) /\ Cardinality(readings) <= MaxReadings
  /\ \A r \in readings : r.open \in Known /\ r.prepared \in Known
  /\ seen.open \in Known /\ seen.prepared \in Known

TasksTyped ==
  /\ operation \in OperationsChecked
  /\ clicks <= MaxSubmits
  /\ \A h \in submits : h.n \in 1..clicks /\ (h.step \in {"started", "job"} => h.n \in started)
  /\ started \subseteq 1..clicks /\ watched \subseteq started

\* A reading that goes on in place of what it was.
LEMMA ReadingReplaced ==
  ASSUME ReadingsTyped, NEW r \in readings, NEW m, m.open \in Known, m.prepared \in Known,
         readings' = (readings \ {r}) \cup {m}
  PROVE  /\ IsFiniteSet(readings') /\ Cardinality(readings') <= MaxReadings
         /\ \A a \in readings' : a.open \in Known /\ a.prepared \in Known
<1>1. /\ IsFiniteSet(readings \ {r}) /\ Cardinality(readings \ {r}) = Cardinality(readings) - 1
      /\ Cardinality(readings) \in Nat
  BY FS_RemoveElement, FS_CardinalityType DEF ReadingsTyped
<1>2. /\ IsFiniteSet(readings')
      /\ Cardinality(readings') \in {Cardinality(readings \ {r}), Cardinality(readings \ {r}) + 1}
  BY <1>1, FS_AddElement
<1>3. Cardinality(readings') <= MaxReadings
  BY <1>1, <1>2, OperationAssumption DEF ReadingsTyped
<1>4. QED
  BY <1>2, <1>3 DEF ReadingsTyped

LEMMA ReadingRemoved ==
  ASSUME ReadingsTyped, NEW r \in readings, readings' = readings \ {r}
  PROVE  /\ IsFiniteSet(readings') /\ Cardinality(readings') <= MaxReadings
         /\ \A a \in readings' : a.open \in Known /\ a.prepared \in Known
<1>1. /\ IsFiniteSet(readings') /\ Cardinality(readings') = Cardinality(readings) - 1
      /\ Cardinality(readings) \in Nat
  BY FS_RemoveElement, FS_CardinalityType DEF ReadingsTyped
<1>2. QED
  BY <1>1, OperationAssumption DEF ReadingsTyped

LEMMA ReadingAdded ==
  ASSUME ReadingsTyped, NEW step, StartReading(step)
  PROVE  /\ IsFiniteSet(readings') /\ Cardinality(readings') <= MaxReadings
         /\ \A a \in readings' : a.open \in Known /\ a.prepared \in Known
<1>1. PICK m : m = Reading(step, readings)
  OBVIOUS
<1>2. m.open \in Known /\ m.prepared \in Known
  BY <1>1 DEF Reading, Known
<1>3. readings' = readings \cup {m} /\ Cardinality(readings) < MaxReadings
  BY <1>1 DEF StartReading
<1>4. /\ IsFiniteSet(readings')
      /\ Cardinality(readings') \in {Cardinality(readings), Cardinality(readings) + 1}
      /\ Cardinality(readings) \in Nat
  BY <1>3, FS_AddElement, FS_CardinalityType DEF ReadingsTyped
<1>5. QED
  BY <1>2, <1>3, <1>4, OperationAssumption DEF ReadingsTyped

LEMMA ReadingStepTyped ==
  ASSUME ReadingsTyped, SourceShown, NEW r \in readings,
         ClusterReads(r) \/ ShowIndex(r) \/ ShowSettings(r) \/ ReadingFails(r)
  PROVE  ReadingsTyped'
<1>1. /\ ReadingForm(r) /\ r.open \in Known /\ r.prepared \in Known
      /\ seen = [open |-> seen.open, prepared |-> seen.prepared]
      /\ seen.open \in Known /\ seen.prepared \in Known
  BY DEF SourceShown, ReadingsTyped
<1>2. Answer(source.open) \in Known /\ Answer(source.prepared) \in Known
  BY DEF Answer, Known
<1>3. CASE ClusterReads(r)
  <2>1. PICK m : /\ readings' = (readings \ {r}) \cup {m}
                 /\ \/ m = [r EXCEPT !.step = "index read", !.open = Answer(source.open)]
                    \/ m = [r EXCEPT !.step = "settings read",
                                     !.prepared = Answer(source.prepared)]
    BY <1>3 DEF ClusterReads, ReadSource
  <2>2. m.open \in Known /\ m.prepared \in Known
    BY <1>1, <1>2, <2>1 DEF ReadingForm
  <2>3. UNCHANGED seen
    BY <1>3 DEF ClusterReads
  <2>4. QED
    BY <1>1, <2>1, <2>2, <2>3, ReadingReplaced DEF ReadingsTyped
<1>4. CASE ShowIndex(r)
  <2>1. PICK m : /\ readings' = (readings \ {r}) \cup {m}
                 /\ m = [r EXCEPT !.step = "settings"]
    BY <1>4 DEF ShowIndex
  <2>2. m.open \in Known /\ m.prepared \in Known
    BY <1>1, <2>1 DEF ReadingForm
  <2>3. seen'.open \in Known /\ seen'.prepared \in Known
    BY <1>1, <1>4 DEF ShowIndex
  <2>4. QED
    BY <2>1, <2>2, <2>3, ReadingReplaced DEF ReadingsTyped
<1>5. CASE ShowSettings(r)
  <2>1. readings' = readings \ {r}
    BY <1>5 DEF ShowSettings
  <2>2. seen'.open \in Known /\ seen'.prepared \in Known
    BY <1>1, <1>5 DEF ShowSettings, Reasons
  <2>3. QED
    BY <2>1, <2>2, ReadingRemoved DEF ReadingsTyped
<1>6. CASE ReadingFails(r)
  <2>1. readings' = readings \ {r} /\ UNCHANGED seen
    BY <1>6 DEF ReadingFails
  <2>2. QED
    BY <1>1, <2>1, ReadingRemoved DEF ReadingsTyped
<1>7. QED
  BY <1>3, <1>4, <1>5, <1>6

LEMMA ReadingsTypedNext ==
  ReadingsTyped /\ SourceShown /\ [OperationNext]_ovars => ReadingsTyped'
<1> SUFFICES ASSUME ReadingsTyped, SourceShown, [OperationNext]_ovars PROVE ReadingsTyped'
  OBVIOUS
<1>1. ASSUME NEW r \in readings,
             ClusterReads(r) \/ ShowIndex(r) \/ ShowSettings(r) \/ ReadingFails(r)
      PROVE  ReadingsTyped'
  BY <1>1, ReadingStepTyped
<1>2. ASSUME UNCHANGED seen, NEW step, StartReading(step) \/ UNCHANGED readings
      PROVE  ReadingsTyped'
  BY <1>2, ReadingAdded DEF ReadingsTyped
<1>3. CASE UNCHANGED <<seen, readings>>
  BY <1>3 DEF ReadingsTyped
<1>4. CASE Prepared \/ OpenEnds \/ OtherOpenEnds
  <2>1. UNCHANGED seen
    BY <1>4 DEF Prepared, OpenEnds, OtherOpenEnds
  <2>2. \E step : StartReading(step) \/ UNCHANGED readings
    BY <1>4 DEF Prepared, OpenEnds, OtherOpenEnds, ReadAgain, OpenComplete
  <2>3. QED
    BY <1>2, <2>1, <2>2
<1>5. QED
  BY <1>1, <1>3, <1>4 DEF OperationNext, Prepare, ClusterPrepares, Open_, ClusterOpens,
     Interfere, Choose_, Click, EndCheck_, EndQuery, SendReindex, ClusterStarts, Accepted,
     Refused, Throws, AddTask, LeavePage, UserActs, ovars, shows

LEMMA TasksTypedNext == Typed /\ TasksTyped /\ [OperationNext]_ovars => TasksTyped'
<1> SUFFICES ASSUME Typed, TasksTyped, [OperationNext]_ovars PROVE TasksTyped'
  OBVIOUS
<1>1. CASE UNCHANGED <<operation, submits, started, watched, clicks>>
  BY <1>1 DEF TasksTyped
<1>2. ASSUME NEW c \in [from: Candidates, into: Candidates], Choose_(c) PROVE TasksTyped'
  <2>1. UNCHANGED <<operation, started, watched, clicks>>
    BY <1>2 DEF Choose_, UserActs, tasks
  <2>2. \A k \in submits' : \E h \in submits : k.n = h.n /\ k.step = h.step
    BY <1>2 DEF Choose_, Typed, Submissions
  <2>3. QED
    BY <2>1, <2>2 DEF TasksTyped
<1>3. CASE Click
  <2>1. PICK new : /\ submits' = submits \cup {new}
                   /\ new.n = clicks' /\ new.step \in {"check", "sent"}
    <3>1. PICK new : new = [n |-> clicks', choice |-> choice, edited |-> FALSE,
                            step |-> IF operation.checks THEN "check" ELSE "sent"]
      OBVIOUS
    <3>2. new.n = clicks' /\ new.step \in {"check", "sent"}
      BY <3>1
    <3>3. submits' = submits \cup {new}
      BY <1>3, <3>1 DEF Click
    <3>4. QED
      BY <3>2, <3>3
  <2>2. /\ clicks' = clicks + 1 /\ clicks' <= MaxSubmits /\ clicks \in Nat
        /\ UNCHANGED <<operation, started, watched>>
    BY <1>3, OperationAssumption DEF Click, tasks, Typed
  <2>3. 1..clicks \subseteq 1..clicks' /\ clicks' \in 1..clicks'
    BY <2>2
  <2>4. QED
    BY <2>1, <2>2, <2>3 DEF TasksTyped
<1>4. ASSUME NEW h \in submits, EndCheck_(h) \/ EndQuery(h) \/ SendReindex(h)
      PROVE  TasksTyped'
  <2>1. UNCHANGED <<operation, started, watched, clicks>>
    BY <1>4 DEF EndCheck_, EndQuery, SendReindex, tasks, ocounts
  <2>2. \/ \E step \in {"query", "sending", "sent"} : Advance(h, step)
        \/ submits' = submits \ {h}
    BY <1>4 DEF EndCheck_, EndQuery, SendReindex
  <2>3. \A k \in submits' : \/ k \in submits
                            \/ k.n = h.n /\ k.step \in {"query", "sending", "sent"}
    BY <2>2, AdvanceFields DEF Steps
  <2>4. QED
    BY <2>1, <2>3 DEF TasksTyped
<1>5. ASSUME NEW h \in submits, ClusterStarts(h) PROVE TasksTyped'
  <2>1. UNCHANGED <<operation, watched, clicks>>
    BY <1>5 DEF ClusterStarts, ocounts
  <2>2. \/ Advance(h, "started") /\ started' = started \cup {h.n}
        \/ Advance(h, "refused") /\ started' = started
    BY <1>5 DEF ClusterStarts
  <2>3. \A k \in submits' : \/ k \in submits
                            \/ k.n = h.n /\ (k.step = "started" => h.n \in started')
                               /\ k.step # "job"
    BY <2>2, AdvanceFields DEF Steps
  <2>4. h.n \in 1..clicks /\ started \subseteq started' /\ started' \subseteq 1..clicks
    BY <2>2 DEF TasksTyped
  <2>5. QED
    BY <2>1, <2>3, <2>4 DEF TasksTyped
<1>6. ASSUME NEW h \in submits, Accepted(h) \/ Refused(h) \/ Throws(h) PROVE TasksTyped'
  <2>1. UNCHANGED <<operation, started, watched, clicks>>
    BY <1>6 DEF Accepted, Refused, Throws, tasks, ocounts
  <2>2. \/ h.step = "started" /\ Advance(h, "job")
        \/ submits' = submits \ {h}
    BY <1>6 DEF Accepted, Refused, Throws
  <2>3. \A k \in submits' : k \in submits \/ (k.n = h.n /\ h.step = "started")
    BY <2>2, AdvanceFields DEF Steps
  <2>4. QED
    BY <2>1, <2>3 DEF TasksTyped
<1>7. ASSUME NEW h \in submits, AddTask(h) PROVE TasksTyped'
  BY <1>7 DEF AddTask, JobAdded, TasksTyped, ocounts
<1>8. QED
  BY <1>1, <1>2, <1>3, <1>4, <1>5, <1>6, <1>7
     DEF OperationNext, ClusterReads, ShowIndex, ShowSettings, ReadingFails, Prepare,
         ClusterPrepares, Prepared, Open_, ClusterOpens, OpenEnds, OtherOpenEnds,
         Interfere, LeavePage, UserActs, tasks, ocounts, ovars

\* The variables have their types: a page that shows the source shows answers
\* of the cluster, the readings under way stay within their bound, and a job
\* is added only for a task that the cluster was asked for and started.
THEOREM OperationTyped == OperationSpec => []OperationTypeOK
<1>1. OperationInit => ReadingsTyped /\ TasksTyped
  <2> SUFFICES ASSUME OperationInit PROVE ReadingsTyped /\ TasksTyped
    OBVIOUS
  <2>1. TasksTyped
    BY OperationAssumption DEF OperationInit, TasksTyped
  <2>2. seen.open \in Known /\ seen.prepared \in Known
    BY DEF OperationInit, Known
  <2>3. /\ IsFiniteSet(readings) /\ Cardinality(readings) <= MaxReadings
        /\ \A r \in readings : r.open \in Known /\ r.prepared \in Known
    <3>1. CASE readings = {}
      BY <3>1, FS_EmptySet, OperationAssumption
    <3>2. CASE readings # {}
      <4>1. PICK m : m = Reading(IF Opens THEN "index" ELSE "settings", {})
        OBVIOUS
      <4>2. readings = {m} /\ m.open \in Known /\ m.prepared \in Known
        BY <3>2, <4>1 DEF OperationInit, Reading, Known
      <4>3. IsFiniteSet({m}) /\ Cardinality({m}) = 1
        BY FS_Singleton
      <4>4. QED
        BY <4>2, <4>3, OperationAssumption
    <3>3. QED
      BY <3>1, <3>2
  <2>4. QED
    BY <2>1, <2>2, <2>3 DEF ReadingsTyped
<1>2. Typed /\ SourceShown /\ ReadingsTyped /\ TasksTyped => OperationTypeOK
  <2> SUFFICES ASSUME Typed, SourceShown, ReadingsTyped, TasksTyped PROVE OperationTypeOK
    OBVIOUS
  <2>1. started \subseteq 1..MaxSubmits
    BY OperationAssumption DEF Typed, TasksTyped
  <2>2. \A what \in {"open", "prepared"} : seen[what] \in {"unread", "yes", "no"}
    BY DEF ReadingsTyped, Known
  <2>3. QED
    BY <2>1, <2>2 DEF OperationTypeOK, Typed, SourceShown, ReadingsTyped, TasksTyped
<1>3. QED
  BY <1>1, <1>2, TypedInit, TypedNext, SourceShownInit, SourceShownNext,
     ReadingsTypedNext, TasksTypedNext, PTL DEF OperationSpec

-----------------------------------------------------------------------------
(* Submissions.                                                             *)

\* What a submission keeps when an answer arrives or when it ends.
Same(t, s) ==
  /\ t.want = s.want /\ t.was = s.was /\ t.over = s.over /\ t.n = s.n
  /\ t.moved = s.moved /\ t.lost = s.lost /\ t.stale = s.stale

LEMMA WithFields ==
  ASSUME NEW s \in Submitted, NEW p \in s.calls,
         NEW state \in {"ok", "refused"}, NEW t \in With(s, p, state)
  PROVE  /\ t \in Submitted /\ Same(t, s)
         /\ \A q \in t.calls :
              (q \in s.calls /\ q # p) \/ (q.items = p.items /\ q.state = state)
         /\ \A q \in s.calls : \E r \in t.calls : r.items = q.items
<1> DEFINE new == [p EXCEPT !.state = state]
           calls == (s.calls \ {p}) \cup {new}
           u == [s EXCEPT !.calls = calls]
<1>1. new \in Calls /\ new.items = p.items /\ new.state = state
  BY DEF Submitted, Calls
<1>2. calls \in SUBSET Calls
  BY <1>1 DEF Submitted
<1>3. u \in Submitted /\ Same(u, s) /\ u.calls = calls
  <2> HIDE DEF calls
  <2>1. QED
    BY <1>2 DEF Submitted, Same
<1>4. t = u
  BY DEF With, Kept
<1>5. QED
  BY <1>1, <1>3, <1>4

LEMMA EndedFields ==
  ASSUME NEW s \in Submitted, NEW t \in Kept([s EXCEPT !.ended = TRUE])
  PROVE  t \in Submitted /\ Same(t, s) /\ t.calls = s.calls
<1> DEFINE u == [s EXCEPT !.ended = TRUE]
<1>1. u \in Submitted /\ Same(u, s) /\ u.calls = s.calls
  BY DEF Submitted, Same
<1>2. t = u
  BY DEF Kept
<1>3. QED
  BY <1>1, <1>2

\* What a submission keeps when items have been written over.
Grown(t, s, items) ==
  /\ t.want = s.want /\ t.was = s.was /\ t.n = s.n /\ t.calls = s.calls
  /\ t.moved = s.moved /\ t.lost = s.lost /\ t.stale = s.stale
  /\ t.over = s.over \cup items

LEMMA OverFields ==
  ASSUME NEW ss \in SUBSET Submitted, NEW items \in SUBSET Parts,
         NEW t \in Over(ss, items)
  PROVE  \E s \in ss : t \in Submitted /\ s \in Submitted /\ Grown(t, s, items)
<1>1. PICK s \in ss : t = [s EXCEPT !.over = @ \cup items]
  BY DEF Over
<1>2. s \in Submitted
  OBVIOUS
<1>3. t \in Submitted /\ Grown(t, s, items)
  BY <1>1, <1>2 DEF Submitted, Grown
<1>4. QED
  BY <1>2, <1>3

\* What the proofs use of the records of Updates.
LEMMA UpdateFields ==
  ASSUME NEW u \in Updates
  PROVE  u.requests \in {"groups", "each", "one"} /\ u.locks \in BOOLEAN
<1>1. CASE u = EditIndex
  BY <1>1 DEF EditIndex
<1>2. CASE \E g \in Groups : u = IndexTab(g)
  BY <1>2 DEF IndexTab, EditIndex
<1>3. CASE u = EditAlias
  BY <1>3 DEF EditAlias, EditIndex
<1>4. CASE u = EditTemplate
  BY <1>4 DEF EditTemplate, EditIndex
<1>5. CASE u = NotificationSettings
  BY <1>5 DEF NotificationSettings, EditTemplate, EditIndex
<1>6. QED
  BY <1>1, <1>2, <1>3, <1>4, <1>5 DEF Updates

\* The requests of a submission cover its items, and nothing else.
LEMMA SplitCovers ==
  ASSUME NEW items \in SUBSET Parts, update \in Updates
  PROVE  /\ Split_(items) \subseteq SUBSET items
         /\ \A i \in items : \E p \in Split_(items) : i \in p
<1>1. update.requests \in {"groups", "each", "one"}
  BY UpdateFields
<1>2. CASE update.requests = "groups"
  <2>1. Split_(items) = {{i \in items : Group[i] = g} : g \in {Group[j] : j \in items}}
    BY <1>2 DEF Split_
  <2>2. ASSUME NEW i \in items PROVE \E p \in Split_(items) : i \in p
    <3>1. {j \in items : Group[j] = Group[i]} \in Split_(items)
      BY <2>1
    <3>2. QED
      BY <3>1
  <2>3. QED
    BY <2>1, <2>2
<1>3. CASE update.requests = "each"
  BY <1>3 DEF Split_
<1>4. CASE update.requests = "one"
  BY <1>4 DEF Split_
<1>5. QED
  BY <1>1, <1>2, <1>3, <1>4

-----------------------------------------------------------------------------
(* Types.                                                                   *)

LEMMA HeldFields ==
  ASSUME NEW h \in Held, NEW i \in Parts, NEW v \in Values(i)
  PROVE  [h EXCEPT ![i] = v] \in Held
  BY DEF Held, Values

\* The cluster, once a request of a submission has been carried out.
LEMMA HeldAfter ==
  ASSUME held \in Held, NEW s, s.want \in Held, NEW items
  PROVE  CarriedOut(s, items) \in Held
<1> DEFINE h == CarriedOut(s, items)
<1>1. ASSUME NEW i \in Parts PROVE h[i] \in Values(i) /\ h[i] \in {0, 1, 2}
  <2>1. Outcome(s, i) \in {0, held[i], s.want[i]}
    BY DEF Outcome
  <2>2. {held[i], s.want[i]} \subseteq Values(i) /\ 0 \in Values(i)
    BY DEF Held, Values
  <2>3. Values(i) \subseteq {0, 1, 2}
    BY DEF Values
  <2>4. QED
    BY <2>1, <2>2, <2>3 DEF CarriedOut
<1>2. h \in [Parts -> {0, 1, 2}]
  BY <1>1 DEF CarriedOut
<1>3. QED
  BY <1>1, <1>2 DEF Held

LEMMA NotLate == [i \in Parts |-> 0] \in [Parts -> 0..MaxTyped]
<1>1. 0 \in 0..MaxTyped
  BY UpdateAssumption
<1>2. QED
  BY <1>1

\* What a submission that aligns the aliases on K keeps.
SubmittedOn(s, K) ==
  /\ s.want = edited /\ s.was = old
  /\ s.moved = Common(edited, old) \ K /\ s.lost = Lost(s.moved, K)
  /\ s.stale = unseen /\ s.over = {}
  /\ s.calls = CallsOf(ToSend(edited, old, s.moved))

LEMMA SubmissionFields ==
  ASSUME NEW n, NEW K
  PROVE  SubmittedOn(Submission(n, K), K)
<1> DEFINE moved == Common(edited, old) \ K
           lost == Lost(moved, K)
           calls == CallsOf(ToSend(edited, old, moved))
<1>1. PICK s : s = Submission(n, K)
  OBVIOUS
<1>2. s = [n |-> n, want |-> edited, was |-> old, moved |-> moved,
           lost |-> lost, stale |-> unseen, over |-> {}, ended |-> FALSE,
           calls |-> calls]
  BY <1>1 DEF Submission
<1>3. /\ s.want = edited /\ s.was = old /\ s.moved = moved /\ s.lost = lost
      /\ s.stale = unseen /\ s.over = {} /\ s.calls = calls
  <2> HIDE DEF moved, lost, calls
  <2>1. QED
    BY <1>2
<1>4. SubmittedOn(s, K)
  BY <1>3 DEF SubmittedOn
<1>5. QED
  BY <1>1, <1>4

LEMMA SubmissionTyped ==
  ASSUME UpdateTypeOK, NEW n \in 1..MaxUpdates, NEW K
  PROVE  Submission(n, K) \in Submitted
<1> DEFINE moved == Common(edited, old) \ K
           lost == Lost(moved, K)
           calls == CallsOf(ToSend(edited, old, moved))
<1>1. moved \in SUBSET Parts /\ lost \in SUBSET Parts
  BY DEF Common, Lost
<1>2. ToSend(edited, old, moved) \in SUBSET Parts
  <2>1. Items_ \subseteq Parts /\ Parameters \subseteq Parts
    BY UpdateAssumption DEF Items_
  <2>2. QED
    BY <1>1, <2>1 DEF ToSend
<1>3. ASSUME NEW p \in Split_(ToSend(edited, old, moved))
      PROVE  [items |-> p, state |-> "sent"] \in Calls
  <2>1. p \in SUBSET Parts
    BY <1>2, SplitCovers, UpdatesAssumption DEF UpdateTypeOK
  <2>2. QED
    BY <2>1 DEF Calls
<1>4. calls \in SUBSET Calls
  BY <1>3 DEF CallsOf
<1>5. edited \in Held /\ old \in Held /\ unseen \in SUBSET Parts
  BY DEF UpdateTypeOK
<1>6. QED
  <2>1. Submission(n, K) =
          [n |-> n, want |-> edited, was |-> old, moved |-> moved,
           lost |-> lost, stale |-> unseen, over |-> {}, ended |-> FALSE,
           calls |-> calls]
    BY DEF Submission
  <2> HIDE DEF moved, lost, calls
  <2>2. QED
    BY <1>1, <1>4, <1>5, <2>1 DEF Submitted

LEMMA UpdateTypeNext == UpdateTypeOK /\ [UpdateNext]_uvars => UpdateTypeOK'
<1> SUFFICES ASSUME UpdateTypeOK, [UpdateNext]_uvars PROVE UpdateTypeOK'
  OBVIOUS
<1> USE UpdateAssumption, UpdatesAssumption
<1>0. /\ update \in Updates /\ old \in Held /\ edited \in Held /\ held \in Held
      /\ sent \subseteq Submitted /\ late \in [Parts -> 0..MaxTyped]
      /\ ucounts \in [updates : 0..MaxUpdates, typed : 0..MaxTyped,
                       foreign : 0..MaxForeign]
  BY DEF UpdateTypeOK
<1>1. ASSUME NEW i \in Parts, NEW v \in Values(i), Type(i, v) PROVE UpdateTypeOK'
  <2>1. edited' \in Held
    BY <1>0, <1>1, HeldFields DEF Type, Show
  <2>2. ucounts' \in [updates : 0..MaxUpdates, typed : 0..MaxTyped,
                      foreign : 0..MaxForeign]
    BY <1>0, <1>1 DEF Type
  <2>3. busy_' \in BOOLEAN
    BY <1>1 DEF Type, Show, UpdateTypeOK
  <2>4. late' \in [Parts -> 0..MaxTyped]
    <3>1. late' = [late EXCEPT ![i] = ucounts'.typed] \/ late' = late
      BY <1>1 DEF Type
    <3>2. ucounts'.typed \in 0..MaxTyped
      BY <2>2
    <3>3. QED
      BY <1>0, <3>1, <3>2
  <2>5. QED
    BY <1>1, <2>1, <2>2, <2>3, <2>4 DEF Type, UpdateTypeOK
<1>2. CASE Revert
  <2>1. busy_' \in BOOLEAN /\ edited' = old
    BY <1>2 DEF Revert, Show, UpdateTypeOK
  <2>2. late' \in [Parts -> 0..MaxTyped]
    BY <1>2, NotLate DEF Revert
  <2>3. QED
    BY <1>2, <2>1, <2>2 DEF Revert, UpdateTypeOK
<1>3. CASE Submit_
  <2>1. ucounts' \in [updates : 0..MaxUpdates, typed : 0..MaxTyped,
                      foreign : 0..MaxForeign] /\ ucounts'.updates \in 1..MaxUpdates
    BY <1>0, <1>3 DEF Submit_
  <2>2. sent' \subseteq Submitted
    <3>1. PICK K : sent' = sent \cup {Submission(ucounts'.updates, K)}
      BY <1>3 DEF Submit_
    <3>2. QED
      BY <1>0, <2>1, <3>1, SubmissionTyped
  <2>3. busy_' \in BOOLEAN
    <3>1. update.locks \in BOOLEAN
      BY <1>0, UpdateFields
    <3>2. QED
      BY <1>3, <3>1 DEF Submit_
  <2>4. QED
    BY <1>3, <2>1, <2>2, <2>3 DEF Submit_, UpdateTypeOK, filled_
<1>4. ASSUME NEW s \in sent, NEW p \in s.calls, Applies(s, p) PROVE UpdateTypeOK'
  <2>1. s \in Submitted /\ s.want \in Held /\ p.items \in SUBSET Parts
    BY <1>0 DEF Submitted, Calls
  <2>2. held' \in Held
    BY <1>0, <1>4, <2>1, HeldAfter DEF Applies
  <2>3. sent' \subseteq Submitted
    BY <1>0, <1>4, <2>1, WithFields, OverFields DEF Applies
  <2>4. theirs' \subseteq Parts
    BY <1>4 DEF Applies, UpdateTypeOK
  <2>5. QED
    BY <1>4, <2>2, <2>3, <2>4 DEF Applies, UpdateTypeOK, filled_
<1>5. ASSUME NEW s \in sent, NEW p \in s.calls, Refuses(s, p) PROVE UpdateTypeOK'
  <2>1. sent' \subseteq Submitted
    BY <1>0, <1>5, WithFields DEF Refuses
  <2>2. QED
    BY <1>5, <2>1 DEF Refuses, UpdateTypeOK, filled_
<1>6. ASSUME NEW s \in sent, Succeed(s) \/ Fail(s) \/ Throws_(s) PROVE UpdateTypeOK'
  <2>1. sent' \subseteq Submitted
    BY <1>0, <1>6, EndedFields DEF Succeed, Fail, Throws_, Ended
  <2>2. busy_' \in BOOLEAN
    BY <1>6 DEF Succeed, Fail, Throws_, UpdateTypeOK
  <2>3. page' \in {"ready", "left"}
    BY <1>6 DEF Succeed, Fail, Throws_, UpdateTypeOK
  <2>4. loads' \in Nat
    <3>1. loads' = loads \/ loads' = loads + 1
      BY <1>6 DEF Succeed, Fail, Throws_
    <3>2. loads \in Nat
      BY DEF UpdateTypeOK
    <3>3. QED
      BY <3>1, <3>2
  <2>5. QED
    BY <1>6, <2>1, <2>2, <2>3, <2>4 DEF Succeed, Fail, Throws_, UpdateTypeOK, filled_
<1>7. CASE LoadShown \/ LoadFails
  <2>1. busy_' \in BOOLEAN
    BY <1>7 DEF LoadShown, LoadFails, UpdateTypeOK
  <2>2. loads' \in Nat
    <3>1. loads > 0 /\ loads' = loads - 1
      BY <1>7 DEF LoadShown, LoadFails
    <3>2. loads \in Nat
      BY DEF UpdateTypeOK
    <3>3. QED
      BY <3>1, <3>2
  <2>3. page' \in {"ready", "left"}
    BY <1>7 DEF LoadShown, LoadFails, UpdateTypeOK
  <2>4. {old', edited', held'} \subseteq Held /\ unseen' \subseteq Parts
    BY <1>7 DEF LoadShown, LoadFails, UpdateTypeOK, filled_
  <2>5. late' \in [Parts -> 0..MaxTyped]
    BY <1>0, <1>7, NotLate DEF LoadShown, LoadFails, filled_
  <2>6. QED
    BY <1>7, <2>1, <2>2, <2>3, <2>4, <2>5 DEF LoadShown, LoadFails, UpdateTypeOK
<1>8. ASSUME NEW i \in Parts, NEW v \in Values(i), OtherWrites(i, v) PROVE UpdateTypeOK'
  <2>1. held' \in Held
    BY <1>0, <1>8, HeldFields DEF OtherWrites
  <2>2. sent' \subseteq Submitted
    BY <1>0, <1>8, OverFields DEF OtherWrites
  <2>3. ucounts' \in [updates : 0..MaxUpdates, typed : 0..MaxTyped,
                      foreign : 0..MaxForeign]
    BY <1>0, <1>8 DEF OtherWrites
  <2>4. theirs' \subseteq Parts /\ unseen' \subseteq Parts
    BY <1>8 DEF OtherWrites, UpdateTypeOK
  <2>5. QED
    BY <1>8, <2>1, <2>2, <2>3, <2>4 DEF OtherWrites, UpdateTypeOK, filled_
<1>9. CASE UNCHANGED uvars
  BY <1>9 DEF uvars, filled_, UpdateTypeOK
<1>10. QED
  BY <1>1, <1>2, <1>3, <1>4, <1>5, <1>6, <1>7, <1>8, <1>9 DEF UpdateNext

LEMMA UpdateTypeInit == UpdateInit => UpdateTypeOK
<1> SUFFICES ASSUME UpdateInit PROVE UpdateTypeOK
  OBVIOUS
<1>1. ucounts \in [updates : 0..MaxUpdates, typed : 0..MaxTyped,
                   foreign : 0..MaxForeign]
  BY UpdateAssumption DEF UpdateInit
<1>2. /\ {old, edited, held} \subseteq Held /\ loads \in Nat /\ sent \subseteq Submitted
      /\ theirs \subseteq Parts /\ unseen \subseteq Parts
  BY UpdatesAssumption DEF UpdateInit
<1>3. busy_ \in BOOLEAN /\ late \in [Parts -> 0..MaxTyped]
  BY NotLate DEF UpdateInit
<1>4. QED
  BY <1>1, <1>2, <1>3 DEF UpdateInit, UpdateTypeOK

\* The state of an update form and of its submissions is well typed.
THEOREM UpdateTypeCorrect == UpdateSpec => []UpdateTypeOK
<1>1. QED
  BY UpdateTypeInit, UpdateTypeNext, PTL DEF UpdateSpec

-----------------------------------------------------------------------------
(* What a submission sends.  Its requests cover what it changes, but for    *)
(* what was removed and is in no request; an answered one left in the       *)
(* cluster what was wanted, or another has written over it; what is sent    *)
(* without a change is swept along.  Only what the form edits is changed.   *)

Covers(s) ==
  \A i \in Parts : s.want[i] # s.was[i] =>
    (\E p \in s.calls : i \in p.items) \/ Dropped(s, i)

Carried(s) ==
  \A p \in s.calls : p.state = "ok" =>
    \A i \in p.items : s.want[i] # s.was[i] =>
      held[i] = s.want[i] \/ i \in s.over \/ Dropped(s, i)

Swept(s) ==
  \A p \in s.calls : \A i \in p.items : s.want[i] # s.was[i] \/ Sweeps(s, i)

Moves(s) ==
  /\ s.lost \subseteq s.moved
  /\ \A i \in s.moved : s.want[i] = s.was[i]

Fair(s) == Covers(s) /\ Carried(s) /\ Swept(s) /\ Moves(s)

Sound == \A s \in sent : Fair(s)

OthersLeft == \A i \in Parts \ Items_ : edited[i] = old[i]

LEMMA OthersLeftNext ==
  UpdateTypeOK /\ OthersLeft /\ [UpdateNext]_uvars => OthersLeft'
<1> SUFFICES ASSUME UpdateTypeOK, OthersLeft, [UpdateNext]_uvars PROVE OthersLeft'
  OBVIOUS
<1>0. edited \in Held
  BY DEF UpdateTypeOK
<1>1. ASSUME NEW i \in Parts, NEW v \in Values(i), Type(i, v) PROVE OthersLeft'
  <2>1. edited' = [edited EXCEPT ![i] = v] /\ UNCHANGED <<update, old>> /\ i \in Items_
    BY <1>1 DEF Type, Show
  <2>2. QED
    BY <1>0, <2>1 DEF OthersLeft, Items_, Held
<1>2. CASE Revert \/ LoadShown
  BY <1>2 DEF Revert, Show, LoadShown, OthersLeft, Items_
<1>3. CASE UNCHANGED <<update, old, edited>>
  BY <1>3 DEF OthersLeft, Items_
<1>4. QED
  BY <1>1, <1>2, <1>3
     DEF UpdateNext, Submit_, Applies, Refuses, Succeed, Fail, Throws_, LoadFails,
         OtherWrites, uvars, filled_

\* A submission that keeps its requests, while the cluster is as it was but
\* for what has been written over it.
LEMMA FairKept ==
  ASSUME NEW s, NEW t, Fair(s),
         t.want = s.want, t.was = s.was, t.calls = s.calls, s.over \subseteq t.over,
         t.moved = s.moved, t.lost = s.lost, update' = update,
         \A p \in s.calls : \A i \in p.items : i \in t.over \/ held'[i] = held[i]
  PROVE  Fair(t)'
<1>1. Covers(s) /\ Carried(s) /\ Swept(s) /\ Moves(s)
  BY DEF Fair
<1>2. Covers(t)'
  BY <1>1 DEF Covers, Dropped
<1>3. Carried(t)'
  BY <1>1 DEF Carried, Dropped
<1>4. Swept(t)' /\ Moves(t)'
  BY <1>1 DEF Swept, Sweeps, Moves
<1>5. QED
  BY <1>2, <1>3, <1>4 DEF Fair

LEMMA SubmitSound ==
  ASSUME UpdateTypeOK, OthersLeft, Sound, Submit_
  PROVE  Sound'
<1>0. update \in Updates /\ edited \in Held /\ old \in Held
  BY UpdatesAssumption DEF UpdateTypeOK
<1>1. UNCHANGED <<update, held>>
  BY DEF Submit_
<1>2. PICK n, K : sent' = sent \cup {Submission(n, K)}
  BY DEF Submit_
<1>3. PICK t : t = Submission(n, K)
  OBVIOUS
<1>4. PICK moved : moved = Common(edited, old) \ K
  OBVIOUS
<1>5. PICK items : items = ToSend(edited, old, moved)
  OBVIOUS
<1>6. /\ t.want = edited /\ t.was = old /\ t.over = {} /\ t.moved = moved
      /\ t.lost = Lost(moved, K)
      /\ t.calls = CallsOf(items)
  <2>1. SubmittedOn(t, K)
    BY <1>3, SubmissionFields
  <2>2. QED
    BY <1>4, <1>5, <2>1 DEF SubmittedOn
<1>7. items \in SUBSET Parts
  <2>1. Items_ \subseteq Parts /\ Parameters \subseteq Parts /\ moved \subseteq Parts
    BY <1>4, UpdateAssumption DEF Items_, Common
  <2>2. QED
    BY <1>5, <2>1 DEF ToSend
<1>8. ASSUME NEW i \in Parts, edited[i] # old[i]
      PROVE  i \in items \/ (~update.all /\ edited[i] = 0 /\ Group[i] # "aliases")
  <2>1. i \in Items_
    BY <1>8 DEF OthersLeft
  <2>2. QED
    BY <1>5, <1>8, <2>1 DEF ToSend, Differs
<1>9. ASSUME NEW i \in items PROVE \E p \in t.calls : i \in p.items
  <2>1. PICK p \in Split_(items) : i \in p
    BY <1>0, <1>7, <1>9, SplitCovers
  <2>2. [items |-> p, state |-> "sent"] \in t.calls
    BY <1>6 DEF CallsOf
  <2>3. QED
    BY <2>1, <2>2
<1>10. \A p \in t.calls : p.state = "sent" /\ p.items \in SUBSET items
  BY <1>0, <1>6, <1>7, SplitCovers DEF CallsOf
<1>11. Covers(t)'
  BY <1>1, <1>6, <1>8, <1>9 DEF Covers, Dropped
<1>12. Carried(t)'
  BY <1>10 DEF Carried
<1>13. Swept(t)'
  <2>1. \A i \in items : \/ edited[i] # old[i] \/ update.all \/ i \in Parameters
                         \/ i \in moved
    BY <1>5 DEF ToSend, Differs
  <2>2. QED
    BY <1>1, <1>6, <1>10, <2>1 DEF Swept, Sweeps
<1>14. Moves(t)'
  <2>1. ASSUME NEW i \in moved PROVE edited[i] = old[i]
    <3>1. i \in Parts /\ Group[i] = "aliases" /\ edited[i] # 0 /\ old[i] # 0
      BY <1>4, <2>1 DEF Common
    <3>2. i \notin Parameters
      BY <3>1, UpdateAssumption
    <3>3. edited[i] \in {0, 1} /\ old[i] \in {0, 1}
      BY <1>0, <3>1, <3>2 DEF Held, Values
    <3>4. QED
      BY <3>1, <3>3
  <2>2. QED
    BY <1>6, <2>1 DEF Moves, Lost
<1>15. ASSUME NEW s \in sent PROVE Fair(s)'
  BY <1>1, FairKept DEF Sound
<1>16. QED
  BY <1>2, <1>3, <1>11, <1>12, <1>13, <1>14, <1>15 DEF Sound, Fair

LEMMA AnswerSound ==
  ASSUME UpdateTypeOK, Sound, NEW s \in sent, NEW p \in s.calls,
         Applies(s, p) \/ Refuses(s, p)
  PROVE  Sound'
<1>0. /\ sent \subseteq Submitted /\ s \in Submitted /\ p.items \in SUBSET Parts
      /\ update' = update /\ p.state = "sent" /\ Fair(s)
      /\ Covers(s) /\ Carried(s) /\ Swept(s) /\ Moves(s)
  BY DEF UpdateTypeOK, Submitted, Calls, Sound, Fair, Applies, Refuses
<1>1. ASSUME NEW state \in {"ok", "refused"}, NEW t \in With(s, p, state)
      PROVE  Covers(t)' /\ Swept(t)' /\ Moves(t)'
  <2>1. /\ t.want = s.want /\ t.was = s.was /\ t.moved = s.moved /\ t.lost = s.lost
        /\ \A q \in t.calls :
             (q \in s.calls /\ q # p) \/ (q.items = p.items /\ q.state = state)
        /\ \A q \in s.calls : \E r \in t.calls : r.items = q.items
    BY <1>0, WithFields DEF Same
  <2>2. Covers(t)'
    BY <1>0, <2>1 DEF Covers, Dropped
  <2>3. Swept(t)' /\ Moves(t)'
    BY <1>0, <2>1 DEF Swept, Sweeps, Moves
  <2>4. QED
    BY <2>2, <2>3
<1>2. CASE Applies(s, p)
  <2>1. /\ held' = CarriedOut(s, p.items)
        /\ sent' = Over(sent \ {s}, p.items) \cup With(s, p, "ok")
    BY <1>2 DEF Applies
  <2>2. ASSUME NEW t \in With(s, p, "ok") PROVE Fair(t)'
    <3>1. /\ t.want = s.want /\ t.was = s.was /\ t.over = s.over
          /\ \A q \in t.calls :
               (q \in s.calls /\ q # p) \/ (q.items = p.items /\ q.state = "ok")
      BY <1>0, WithFields DEF Same
    <3>2. \A q \in s.calls : q.items \in SUBSET Parts
      BY <1>0 DEF Submitted, Calls
    <3>3. ASSUME NEW i \in p.items, s.want[i] # s.was[i]
          PROVE  held'[i] = s.want[i] \/ Dropped(s, i)
      <4>1. i \notin s.lost /\ i \in Parts
        BY <1>0, <3>3 DEF Moves
      <4>2. QED
        BY <2>1, <3>3, <4>1 DEF CarriedOut, Outcome
    <3>4. ASSUME NEW q \in t.calls, q.state = "ok", NEW i \in q.items,
                 s.want[i] # s.was[i]
          PROVE  held'[i] = s.want[i] \/ i \in s.over \/ Dropped(s, i)
      <4>1. CASE i \in p.items
        BY <3>3, <3>4, <4>1
      <4>2. CASE i \notin p.items
        <5>1. q \in s.calls /\ i \in Parts
          BY <3>1, <3>2, <3>4, <4>2
        <5>2. held'[i] = held[i]
          BY <2>1, <4>2, <5>1 DEF CarriedOut
        <5>3. QED
          BY <1>0, <3>4, <5>1, <5>2 DEF Carried
      <4>3. QED
        BY <4>1, <4>2
    <3>5. Carried(t)'
      BY <1>0, <3>1, <3>4 DEF Carried, Dropped
    <3>6. QED
      BY <1>1, <3>5 DEF Fair
  <2>3. ASSUME NEW t \in Over(sent \ {s}, p.items) PROVE Fair(t)'
    <3>1. PICK u \in sent : u \in Submitted /\ Grown(t, u, p.items)
      BY <1>0, OverFields
    <3>2. \A q \in u.calls : q.items \in SUBSET Parts
      BY <3>1 DEF Submitted, Calls
    <3>3. \A q \in u.calls : \A i \in q.items : i \in t.over \/ held'[i] = held[i]
      BY <2>1, <3>1, <3>2 DEF Grown, CarriedOut
    <3>4. QED
      BY <1>0, <3>1, <3>3, FairKept DEF Sound, Grown
  <2>4. QED
    BY <2>1, <2>2, <2>3 DEF Sound
<1>3. CASE Refuses(s, p)
  <2>1. held' = held /\ sent' = (sent \ {s}) \cup With(s, p, "refused")
    BY <1>3 DEF Refuses
  <2>2. ASSUME NEW t \in With(s, p, "refused") PROVE Fair(t)'
    <3>1. /\ t.want = s.want /\ t.was = s.was /\ t.over = s.over
          /\ \A q \in t.calls :
               (q \in s.calls /\ q # p) \/ (q.items = p.items /\ q.state = "refused")
      BY <1>0, WithFields DEF Same
    <3>2. Carried(t)'
      BY <1>0, <2>1, <3>1 DEF Carried, Dropped
    <3>3. QED
      BY <1>1, <3>2 DEF Fair
  <2>3. ASSUME NEW t \in sent PROVE Fair(t)'
    BY <1>0, <2>1, FairKept DEF Sound
  <2>4. QED
    BY <2>1, <2>2, <2>3 DEF Sound
<1>4. QED
  BY <1>2, <1>3

\* What each submission of the next state is of.
LEMMA EndedOf ==
  ASSUME UpdateTypeOK, NEW s \in sent, NEW t \in Ended(s)
  PROVE  \E u \in sent : Same(t, u) /\ t.calls = u.calls
<1>1. CASE t \in sent
  BY <1>1 DEF Same
<1>2. CASE t \in Kept([s EXCEPT !.ended = TRUE])
  BY <1>2, EndedFields DEF UpdateTypeOK
<1>3. QED
  BY <1>1, <1>2 DEF Ended

LEMMA SoundNext ==
  UpdateTypeOK /\ OthersLeft /\ Sound /\ [UpdateNext]_uvars => Sound'
<1> SUFFICES ASSUME UpdateTypeOK, OthersLeft, Sound, [UpdateNext]_uvars PROVE Sound'
  OBVIOUS
<1>0. sent \subseteq Submitted
  BY DEF UpdateTypeOK
<1>1. CASE Submit_
  BY <1>1, SubmitSound
<1>2. ASSUME NEW s \in sent, NEW p \in s.calls, Applies(s, p) \/ Refuses(s, p)
      PROVE  Sound'
  BY <1>2, AnswerSound
<1>3. ASSUME NEW s \in sent, Succeed(s) \/ Fail(s) \/ Throws_(s) PROVE Sound'
  <2>1. sent' = Ended(s) /\ UNCHANGED <<update, held>>
    BY <1>3 DEF Succeed, Fail, Throws_
  <2>2. ASSUME NEW t \in sent' PROVE Fair(t)'
    <3>1. PICK u \in sent : Same(t, u) /\ t.calls = u.calls
      BY <2>1, <2>2, EndedOf
    <3>2. QED
      BY <2>1, <3>1, FairKept DEF Sound, Same
  <2>3. QED
    BY <2>2 DEF Sound
<1>4. ASSUME NEW i \in Parts, NEW v \in Values(i), OtherWrites(i, v) PROVE Sound'
  <2>1. /\ sent' = Over(sent, {i}) /\ held' = [held EXCEPT ![i] = v]
        /\ update' = update /\ held \in Held
    BY <1>4 DEF OtherWrites, UpdateTypeOK
  <2>2. ASSUME NEW t \in sent' PROVE Fair(t)'
    <3>1. PICK u \in sent : u \in Submitted /\ Grown(t, u, {i})
      BY <1>0, <2>1, OverFields
    <3>2. \A q \in u.calls : q.items \in SUBSET Parts
      BY <3>1 DEF Submitted, Calls
    <3>3. \A q \in u.calls : \A j \in q.items : j \in t.over \/ held'[j] = held[j]
      BY <2>1, <3>1, <3>2 DEF Grown, Held
    <3>4. QED
      BY <2>1, <3>1, <3>3, FairKept DEF Sound, Grown
  <2>3. QED
    BY <2>2 DEF Sound
<1>5. CASE UNCHANGED <<update, sent, held>>
  BY <1>5, FairKept DEF Sound
<1>6. QED
  BY <1>1, <1>2, <1>3, <1>4, <1>5
     DEF UpdateNext, Type, Revert, LoadShown, LoadFails, uvars

UpdateInv == UpdateTypeOK /\ OthersLeft /\ Sound

LEMMA UpdateInvInit == UpdateInit => UpdateInv
<1>1. UpdateInit => OthersLeft /\ Sound
  BY DEF UpdateInit, OthersLeft, Sound
<1>2. QED
  BY <1>1, UpdateTypeInit DEF UpdateInv

LEMMA UpdateInvNext == UpdateInv /\ [UpdateNext]_uvars => UpdateInv'
  BY UpdateTypeNext, OthersLeftNext, SoundNext DEF UpdateInv

\* When the user is told that a submission was saved, everything he changed
\* is in the cluster, unless somebody has written over it since or it is a
\* setting or a mapping parameter that he removed, however the requests of
\* several submissions interleave.  (chainPromise, updateAlias,
\* updateSettings, updateMappings, Promise.all.)
THEOREM SavedWhenTold == UpdateSpec => SuccessIsSaved
<1> DEFINE Told == \A s \in sent : Succeed(s) =>
             \A i \in Parts : s.want[i] # s.was[i] =>
               held[i] = s.want[i] \/ i \in s.over \/ Dropped(s, i)
<1>1. UpdateInv => Told
  <2> SUFFICES ASSUME UpdateInv, NEW s \in sent, Succeed(s),
                      NEW i \in Parts, s.want[i] # s.was[i], ~Dropped(s, i)
               PROVE  held[i] = s.want[i] \/ i \in s.over
    OBVIOUS
  <2>1. Covers(s) /\ Carried(s)
    BY DEF UpdateInv, Sound, Fair
  <2>2. \A p \in s.calls : p.state = "ok"
    BY DEF Succeed, AllOk
  <2>3. QED
    BY <2>1, <2>2 DEF Covers, Carried
<1>2. UpdateInv /\ [UpdateNext]_uvars => [Told]_uvars
  BY <1>1
<1>3. UpdateSpec => [][Told]_uvars
  <2> HIDE DEF Told
  <2>1. QED
    BY <1>2, UpdateInvInit, UpdateInvNext, PTL DEF UpdateSpec
<1>4. QED
  BY <1>3 DEF SuccessIsSaved

-----------------------------------------------------------------------------
(* What other users write.  The form shows what they had written when it    *)
(* was filled, and a submission was filled with what they had written       *)
(* before, but for what is stale or has been written over.                  *)

KnownTo(s) == \A i \in theirs \ (s.stale \cup s.over) : s.was[i] = held[i]

SeenByForm ==
  /\ \A i \in theirs \ unseen : old[i] = held[i]
  /\ \A s \in sent : KnownTo(s)

\* A submission of the next state knows of what one of this state knew of.
LEMMA KnownKept ==
  ASSUME NEW s, NEW t, KnownTo(s), t.was = s.was, t.stale = s.stale,
         s.over \subseteq t.over,
         \A i \in theirs' \ (t.stale \cup t.over) : i \in theirs /\ held'[i] = held[i]
  PROVE  KnownTo(t)'
  BY DEF KnownTo

LEMMA SeenApplies ==
  ASSUME UpdateInv, SeenByForm, NEW s \in sent, NEW p \in s.calls, Applies(s, p)
  PROVE  SeenByForm'
<1>1. /\ theirs' = theirs \ p.items /\ UNCHANGED <<old, unseen>>
      /\ held' = CarriedOut(s, p.items)
      /\ sent' = Over(sent \ {s}, p.items) \cup With(s, p, "ok")
  BY DEF Applies, filled_
<1>2. sent \subseteq Submitted /\ theirs \subseteq Parts /\ p.items \in SUBSET Parts
  BY DEF UpdateInv, UpdateTypeOK, Submitted, Calls
<1>3. \A i \in theirs' : i \in theirs /\ held'[i] = held[i]
  BY <1>1, <1>2 DEF CarriedOut
<1>4. ASSUME NEW t \in sent' PROVE KnownTo(t)'
  <2>1. PICK u \in sent : /\ t.was = u.was /\ t.stale = u.stale
                          /\ u.over \subseteq t.over
    <3>1. CASE t \in With(s, p, "ok")
      BY <1>2, <3>1, WithFields DEF Same
    <3>2. CASE t \in Over(sent \ {s}, p.items)
      <4>1. PICK u \in sent : Grown(t, u, p.items)
        BY <1>2, <3>2, OverFields
      <4>2. QED
        BY <4>1 DEF Grown
    <3>3. QED
      BY <1>1, <1>4, <3>1, <3>2
  <2>2. QED
    BY <1>3, <2>1, KnownKept DEF SeenByForm
<1>5. QED
  BY <1>1, <1>3, <1>4 DEF SeenByForm

LEMMA SeenNext ==
  UpdateInv /\ SeenByForm /\ [UpdateNext]_uvars => SeenByForm'
<1> SUFFICES ASSUME UpdateInv, SeenByForm, [UpdateNext]_uvars PROVE SeenByForm'
  OBVIOUS
<1>0. sent \subseteq Submitted /\ held \in Held /\ UpdateTypeOK /\ theirs \subseteq Parts
  BY DEF UpdateInv, UpdateTypeOK
<1>1. CASE Submit_
  <2>1. PICK n, K : sent' = sent \cup {Submission(n, K)}
    BY <1>1 DEF Submit_
  <2>2. PICK t : t = Submission(n, K)
    OBVIOUS
  <2>3. t.was = old /\ t.stale = unseen /\ t.over = {}
    <3>1. SubmittedOn(t, K)
      BY <2>2, SubmissionFields
    <3>2. QED
      BY <3>1 DEF SubmittedOn
  <2>4. UNCHANGED <<old, theirs, unseen, held>>
    BY <1>1 DEF Submit_, filled_
  <2>5. KnownTo(t)'
    BY <2>3, <2>4 DEF KnownTo, SeenByForm
  <2>6. \A s \in sent : KnownTo(s)'
    BY <2>4, KnownKept DEF SeenByForm
  <2>7. QED
    BY <2>1, <2>2, <2>4, <2>5, <2>6 DEF SeenByForm
<1>2. ASSUME NEW s \in sent, NEW p \in s.calls, Applies(s, p) PROVE SeenByForm'
  BY <1>2, SeenApplies
<1>3. ASSUME NEW i \in Parts, NEW v \in Values(i), OtherWrites(i, v) PROVE SeenByForm'
  <2>1. /\ theirs' = theirs \cup {i} /\ unseen' = unseen \cup {i} /\ old' = old
        /\ held' = [held EXCEPT ![i] = v] /\ sent' = Over(sent, {i})
    BY <1>3 DEF OtherWrites, filled_
  <2>2. \A j \in theirs' \ {i} : j \in theirs /\ held'[j] = held[j]
    BY <1>0, <2>1 DEF Held
  <2>3. ASSUME NEW t \in sent' PROVE KnownTo(t)'
    <3>1. PICK u \in sent : Grown(t, u, {i})
      BY <1>0, <2>1, OverFields
    <3>2. QED
      BY <2>2, <3>1, KnownKept DEF SeenByForm, Grown
  <2>4. QED
    BY <2>1, <2>2, <2>3 DEF SeenByForm
<1>4. CASE LoadShown
  <2>1. old' = held /\ unseen' = {} /\ UNCHANGED <<sent, held, theirs>>
    BY <1>4 DEF LoadShown
  <2>2. \A s \in sent : KnownTo(s)'
    BY <2>1, KnownKept DEF SeenByForm
  <2>3. QED
    BY <2>1, <2>2 DEF SeenByForm
<1>5. ASSUME NEW s \in sent, NEW p \in s.calls, Refuses(s, p) PROVE SeenByForm'
  <2>1. /\ UNCHANGED <<old, held, theirs, unseen>>
        /\ sent' = (sent \ {s}) \cup With(s, p, "refused")
    BY <1>5 DEF Refuses, filled_
  <2>2. ASSUME NEW t \in sent' PROVE KnownTo(t)'
    <3>1. PICK u \in sent : t.was = u.was /\ t.stale = u.stale /\ t.over = u.over
      BY <1>0, <2>1, <2>2, WithFields DEF Same
    <3>2. QED
      BY <2>1, <3>1, KnownKept DEF SeenByForm
  <2>3. QED
    BY <2>1, <2>2 DEF SeenByForm
<1>6. ASSUME NEW s \in sent, Succeed(s) \/ Fail(s) \/ Throws_(s) PROVE SeenByForm'
  <2>1. sent' = Ended(s) /\ UNCHANGED <<old, held, theirs, unseen>>
    BY <1>6 DEF Succeed, Fail, Throws_, filled_
  <2>2. ASSUME NEW t \in sent' PROVE KnownTo(t)'
    <3>1. PICK u \in sent : Same(t, u) /\ t.calls = u.calls
      BY <1>0, <2>1, <2>2, EndedOf
    <3>2. QED
      BY <2>1, <3>1, KnownKept DEF SeenByForm, Same
  <2>3. QED
    BY <2>1, <2>2 DEF SeenByForm
<1>7. CASE UNCHANGED <<old, sent, held, theirs, unseen>>
  <2>1. \A s \in sent : KnownTo(s)'
    BY <1>7, KnownKept DEF SeenByForm
  <2>2. QED
    BY <1>7, <2>1 DEF SeenByForm
<1>8. QED
  BY <1>1, <1>2, <1>3, <1>4, <1>5, <1>6, <1>7
     DEF UpdateNext, Type, Revert, LoadFails, uvars, filled_

\* What a submission changes that others have written: what its own user
\* changed, an alias in another place, or what it sweeps along without the
\* form having shown it.
LEMMA ChangesOfOthers ==
  ASSUME UpdateInv, SeenByForm, NEW s \in sent, NEW p \in s.calls, Applies(s, p),
         NEW i \in theirs, held'[i] # held[i]
  PROVE  \/ s.want[i] # s.was[i] \/ i \in s.lost
         \/ Sweeps(s, i) /\ i \in s.stale \cup s.over
<1>1. i \in Parts
  BY DEF UpdateInv, UpdateTypeOK
<1>2. i \in p.items /\ Outcome(s, i) # held[i]
  BY <1>1 DEF Applies, CarriedOut
<1>3. s.want[i] # s.was[i] \/ Sweeps(s, i)
  BY <1>2 DEF UpdateInv, Sound, Fair, Swept
<1>4. i \in s.lost \/ s.want[i] # held[i]
  BY <1>2 DEF Outcome
<1>5. i \in s.stale \cup s.over \/ s.was[i] = held[i]
  BY DEF SeenByForm, KnownTo
<1>6. QED
  BY <1>3, <1>4, <1>5

\* No form changes what somebody else has written last, but where its user
\* changed it too, put an alias in another place, or where the form sends
\* what it showed before the other wrote.  (getAliasActionsByDiffArray,
\* differenceWith, updateMappings, and the forms that send all.)
THEOREM OthersAreKept == UpdateSpec => OthersKept
<1> DEFINE Left == \A s \in sent : \A p \in s.calls : Applies(s, p) =>
             \A i \in theirs : held'[i] # held[i] =>
               \/ s.want[i] # s.was[i] \/ i \in s.lost
               \/ Sweeps(s, i) /\ i \in s.stale \cup s.over
<1>1. UpdateInit => SeenByForm
  BY DEF UpdateInit, SeenByForm
<1>2. UpdateInv /\ SeenByForm => Left
  BY ChangesOfOthers
<1>3. UpdateInv /\ SeenByForm /\ [UpdateNext]_uvars => [Left]_uvars
  BY <1>2
<1>4. UpdateSpec => [][Left]_uvars
  <2> HIDE DEF Left
  <2>1. QED
    BY <1>1, <1>3, UpdateInvInit, UpdateInvNext, SeenNext, PTL DEF UpdateSpec
<1>5. QED
  BY <1>4 DEF OthersKept

=============================================================================
