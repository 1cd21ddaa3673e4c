------------------------------ MODULE JobForm ------------------------------
(***************************************************************************)
(* The pages that create and edit a rollup, a transform and a snapshot     *)
(* policy.  A page keeps two copies of what it edits: the state its inputs *)
(* show (form) and the document it will send (doc), which its handlers     *)
(* change in place, some at once and some when the user submits.  The      *)
(* create pages of rollups and transforms are wizards of four steps, and   *)
(* the object they start from is one for all their mounts.                 *)
(*                                                                         *)
(* Beside the page the same job is started, stopped and deleted from its   *)
(* details page, and the user may choose another cluster.                  *)
(***************************************************************************)
EXTENDS Naturals, FiniteSets

CONSTANTS
    Clusters,       \* the data sources
    FormsChecked,   \* the pages of this instance, records of Forms
    JobThere,       \* the clusters in which the job exists at first
    JobDocs,        \* JobDocs[k]: what a job of kind k may be there
    MaxEdits,       \* bound: changes of the inputs
    MaxElsewhere,   \* bound: starts, stops and deletes on the details page
    MaxOpens        \* bound: how often the page is opened, or reset

ASSUME FormAssumption ==
    /\ JobThere \subseteq Clusters
    /\ MaxEdits \in Nat /\ MaxElsewhere \in Nat /\ MaxOpens \in Nat

VARIABLES
    kind,       \* the page
    open,       \* it is mounted
    form,       \* what its inputs show
    doc,        \* the document in its state
    base,       \* the document object that its static base state refers to
    touched,    \* the fields the user has changed since the page was filled
    loaded,     \* what an edit page has loaded, with its sequence number
    step,       \* the step of a wizard
    checks,     \* validations of the first step under way
    locked,     \* dataSourceReadOnly, a state of Main
    where,      \* the data source
    submitting, \* isSubmitting: the button is off
    put,        \* the request that saves the job, if one is under way
    job,        \* the job in each cluster
    stopped,    \* per cluster: the version a stop left behind, 0 if undone
    basis,      \* per cluster: the version the last saved form was filled from
    edits, elsewhere, opens  \* how much of each bound is used

filled == <<form, doc, base, touched, loaded, step>>
counts == <<edits, elsewhere, opens>>
fvars == <<kind, open, filled, checks, locked, where, submitting, put, job,
           stopped, basis, counts>>

-----------------------------------------------------------------------------
(* The fields: the enabled box; any other input that is copied at once      *)
(* (page size, description, ...); the schedule, its start and time zone;    *)
(* the delay of a rollup; whether old snapshots are deleted, at which age,  *)
(* on a schedule of their own, and in which time zone.                      *)
(*                                                                          *)
(* 0 is no, none or a first value, 1 yes or another, 2 a third one.  Some   *)
(* values do not come back from the page as they were:                      *)
(*   start       2  the time at which the page is saved                     *)
(*   schedule    2  of a transform: a cron expression, which is not shown;  *)
(*                  of a policy: one with ranges, which its inputs make 1   *)
(*   delay       2  no whole number of minutes, and 3 what becomes of it    *)
(*   age         3  no whole number of days or hours, its inputs show 1     *)
(*   frequency   2  the deletion has the expression of the creation, its    *)
(*                  inputs show 0; 3 one with ranges, they make it 1        *)

Field == {"enabled", "option", "schedule", "start", "zone", "delay",
          "retention", "age", "frequency", "dzone"}

Stored(f) ==
    CASE f \in {"enabled", "option", "retention"} -> {0, 1}
      [] f \in {"schedule", "start", "zone", "dzone"} -> {0, 1, 2}
      [] f \in {"delay", "age", "frequency"} -> {0, 1, 2, 3}
Document == {d \in [Field -> {0, 1, 2, 3}] : \A f \in Field : d[f] \in Stored(f)}

\* What the inputs can show, and what the user can enter there.
Seen(f) ==
    CASE f \in {"schedule", "zone", "delay"} -> {0, 1, 2}
      [] f = "age" -> {1, 2}
      [] OTHER -> {0, 1}
Value(f) == IF f \in {"zone", "age"} THEN {1, 2} ELSE {0, 1}
Shows == {s \in [Field -> {0, 1, 2}] : \A f \in Field : s[f] \in Seen(f)}

JobKinds == {"rollup", "transform", "policy"}

\* EMPTY_ROLLUP, EMPTY_TRANSFORM, getDefaultSMPolicy
EmptyDoc(of) ==
    [f \in Field |-> CASE f = "enabled" -> 1
                       [] f = "start" -> IF of = "policy" THEN 0 ELSE 1
                       [] f = "zone" -> IF of = "policy" THEN 1 ELSE 0
                       [] OTHER -> 0]
\* baseState, and the initial state of a snapshot policy
EmptyForm == [f \in Field |-> IF f \in {"enabled", "zone", "age"} THEN 1 ELSE 0]

\* The interval of a rollup has no time zone, and a policy that keeps its
\* snapshots no conditions of a deletion.
Coherent(of, d) ==
    /\ of = "rollup" /\ d["schedule"] = 0 => d["zone"] = 0
    /\ of = "policy" /\ d["retention"] = 0 =>
         \A f \in {"age", "frequency", "dzone"} : d[f] = 0

ASSUME JobDocsAssumption ==
    \A of \in JobKinds : \A d \in JobDocs[of] : d \in Document /\ Coherent(of, d)

-----------------------------------------------------------------------------
(* The pages.  of: what they edit.  now: the fields whose handler copies    *)
(* the input into the document; late: those written when the user submits;  *)
(* lags: those whose handler writes what the input showed before.  fills:   *)
(* the late fields that a loaded job fills in.  sets: fields without an     *)
(* input that are written on submission too.  frees: a failed save turns    *)
(* the button on.                                                           *)

CreateRollup ==
    [of |-> "rollup", edits |-> FALSE, wizard |-> TRUE, shared |-> TRUE,
     async |-> FALSE, now |-> {"enabled", "option"},
     late |-> {"schedule", "zone", "delay"}, lags |-> {}, fills |-> {},
     sets |-> {"start"}, frees |-> TRUE]

CreateTransform ==
    [CreateRollup EXCEPT !.of = "transform", !.async = TRUE, !.late = {"schedule"}]

\* The box of the enabled state is hidden, the time zone is not filled in.
EditRollup ==
    [CreateRollup EXCEPT !.edits = TRUE, !.wizard = FALSE, !.shared = FALSE,
                         !.now = {"option"}, !.fills = {"schedule", "delay"}]

EditTransform ==
    [EditRollup EXCEPT !.of = "transform", !.late = {"schedule"},
                       !.fills = {"schedule"}, !.lags = {"enabled"},
                       !.frees = FALSE]

CreateSnapshotPolicy ==
    [of |-> "policy", edits |-> FALSE, wizard |-> FALSE, shared |-> FALSE,
     async |-> FALSE, now |-> {"option", "schedule", "zone"},
     late |-> {"retention", "age", "frequency"}, lags |-> {},
     fills |-> {"retention", "age", "frequency"}, sets |-> {"dzone"},
     frees |-> TRUE]

EditSnapshotPolicy == [CreateSnapshotPolicy EXCEPT !.edits = TRUE]

Forms == {CreateRollup, CreateTransform, EditRollup, EditTransform,
          CreateSnapshotPolicy, EditSnapshotPolicy}

ASSUME FormsAssumption == FormsChecked \subseteq Forms

Inputs(k) == k.now \cup k.late \cup k.lags

-----------------------------------------------------------------------------
NoDoc == [f \in Field |-> 0]
NotLoaded == [seq |-> 0, doc |-> NoDoc]
NoPut == [sent |-> FALSE]
NoJob == [there |-> FALSE, seq |-> 0, doc |-> NoDoc]

FormInit ==
    /\ kind \in FormsChecked
    /\ where \in Clusters
    /\ \E d \in JobDocs[kind.of] :
         job = [c \in Clusters |->
                 IF c \in JobThere THEN [there |-> TRUE, seq |-> 1, doc |-> d]
                 ELSE NoJob]
    /\ open = FALSE
    /\ form = EmptyForm /\ doc = EmptyDoc(kind.of) /\ base = EmptyDoc(kind.of)
    /\ touched = {} /\ loaded = NotLoaded /\ step = 1
    /\ checks = 0 /\ locked = FALSE /\ submitting = FALSE /\ put = NoPut
    /\ stopped = [c \in Clusters |-> 0]
    /\ basis = [c \in Clusters |-> 0]
    /\ edits = 0 /\ elsewhere = 0 /\ opens = 0

\* What its input shows of field f of a job.  A policy without an age shows
\* the default one, and a deletion without a schedule one of its own.
Image(d, f) ==
    CASE f = "age" -> IF d[f] \in {0, 3} THEN 1 ELSE d[f]
      [] f = "frequency" -> IF d["retention"] = 1 /\ d[f] # 2 THEN 1 ELSE 0
      [] f = "delay" -> IF d[f] = 3 THEN 2 ELSE d[f]
      [] OTHER -> d[f]

\* Mutant of Filled: the inputs of the late fields start from the defaults.
FilledEmpty(k, d) ==
    [f \in Field |-> IF f \in k.now \cup k.lags THEN Image(d, f) ELSE EmptyForm[f]]

\* Mutant of Filled: a policy without an age shows none.
FilledRaw(k, d) ==
    [f \in Field |-> IF f \in k.now \cup k.lags \cup k.fills THEN d[f] ELSE EmptyForm[f]]

Filled(k, d) ==
    [f \in Field |->
        IF f \in k.now \cup k.lags \cup k.fills THEN Image(d, f) ELSE EmptyForm[f]]

\* The document of a page that is mounted or reset.
Clean(k) == IF k.shared THEN base ELSE EmptyDoc(k.of)

\* The state of the constructor, or of the base state a reset returns to.
Blank ==
    /\ form' = EmptyForm
    /\ doc' = Clean(kind)
    /\ touched' = {} /\ loaded' = NotLoaded /\ step' = 1

Open ==
    /\ ~open /\ opens < MaxOpens
    /\ open' = TRUE /\ opens' = opens + 1
    /\ Blank
    /\ submitting' = FALSE
    /\ UNCHANGED <<kind, base, checks, locked, where, put, job, stopped, basis,
                   edits, elsewhere>>

\* A transform that runs by a cron expression has no interval to show.
Loadable(d) == ~(kind.of = "transform" /\ d["schedule"] = 2)

\* The inputs of a cron expression write what they show back into the policy
\* when that changes as the job is filled in.
Narrowed(d) ==
    IF kind.of = "policy" /\ d["schedule"] = 2
    THEN {d, [d EXCEPT !["schedule"] = 1]} ELSE {d}

\* getRollupToEdit, getTransform, getPolicy: the page shows the job, or goes
\* back to the list.
Load ==
    /\ open /\ kind.edits /\ loaded = NotLoaded
    /\ \/ /\ job[where].there /\ Loadable(job[where].doc)
          /\ loaded' = [seq |-> job[where].seq, doc |-> job[where].doc]
          /\ doc' \in Narrowed(job[where].doc)
          /\ form' = Filled(kind, doc')
          /\ UNCHANGED open
       \/ open' = FALSE /\ UNCHANGED <<form, doc, loaded>>
    /\ UNCHANGED <<kind, base, touched, step, checks, locked, where, submitting,
                   put, job, stopped, basis, counts>>

\* history.push: cancel, or the breadcrumb.
Leave ==
    /\ open
    /\ open' = FALSE /\ checks' = 0 /\ submitting' = FALSE
    /\ UNCHANGED <<kind, filled, locked, where, put, job, stopped, basis, counts>>

-----------------------------------------------------------------------------
(* The inputs.                                                              *)

\* A wizard shows them in its third step.
Shown(f) ==
    /\ kind.edits => loaded # NotLoaded
    /\ kind.wizard => step = 3
    /\ f \in {"age", "frequency"} => form["retention"] = 1
    /\ f = "zone" /\ kind.of = "rollup" => form["schedule"] = 1

\* Mutant of Written: every handler writes what the input showed before.
WrittenOld(f, v) == IF f \in kind.late THEN doc[f] ELSE form[f]

\* What the handler of field f leaves in the document.
Written(f, v) ==
    IF f \in kind.now THEN v
    ELSE IF f \in kind.lags THEN form[f]
    ELSE doc[f]

\* A handler changes the document in its state in place: that of the base
\* state too, where they are one object.
InPlace(d) ==
    /\ doc' = d
    /\ base' = IF kind.shared THEN d ELSE base

\* An hourly policy counts the age of its snapshots in hours, where the user
\* has not seen it yet.
Ages(f) ==
    IF f = "schedule" /\ kind.of = "policy" /\ form["retention"] = 0
    THEN {form["age"], 2} ELSE {form["age"]}

Change(f, v) ==
    /\ open /\ edits < MaxEdits
    /\ f \in Inputs(kind) /\ Shown(f) /\ v # form[f]
    /\ \E a \in Ages(f) : form' = [form EXCEPT !["age"] = a, ![f] = v]
    /\ InPlace([doc EXCEPT ![f] = Written(f, v)])
    /\ touched' = touched \cup {f}
    /\ edits' = edits + 1
    /\ UNCHANGED <<kind, open, loaded, step, checks, locked, where, submitting,
                   put, job, stopped, basis, elsewhere, opens>>

-----------------------------------------------------------------------------
(* The steps of a wizard and the data source.                               *)

\* Mutant of Next_: the lock is taken by the last step only.
NextUnlocked(ok) ==
    /\ open /\ kind.wizard /\ step < 4
    /\ ~(kind.async /\ step = 1)
    /\ locked' = (locked \/ step = 3)
    /\ step' = IF ok THEN step + 1 ELSE step
    /\ UNCHANGED <<kind, open, form, doc, base, touched, loaded, checks, where,
                   submitting, put, job, stopped, basis, counts>>

\* _next: the data source is locked, whatever the validation finds.
Next_(ok) ==
    /\ open /\ kind.wizard /\ step < 4
    /\ ~(kind.async /\ step = 1)
    /\ locked' = TRUE
    /\ step' = IF ok THEN step + 1 ELSE step
    /\ UNCHANGED <<kind, open, form, doc, base, touched, loaded, checks, where,
                   submitting, put, job, stopped, basis, counts>>

\* The first step of a transform asks the cluster for the name, and for
\* sample data, before it ends; its button stays on meanwhile.
StartCheck ==
    /\ open /\ kind.wizard /\ kind.async /\ step = 1 /\ checks < 2
    /\ locked' = TRUE
    /\ checks' = checks + 1
    /\ UNCHANGED <<kind, open, filled, where, submitting, put, job, stopped,
                   basis, counts>>

EndCheck(ok) ==
    /\ open /\ checks > 0
    /\ checks' = checks - 1
    /\ step' = IF ok THEN 2 ELSE step
    /\ UNCHANGED <<kind, open, form, doc, base, touched, loaded, locked, where,
                   submitting, put, job, stopped, basis, counts>>

\* _prev: back in the first step the data source may be chosen again.
Prev ==
    /\ open /\ kind.wizard /\ step > 1
    /\ step' = step - 1
    /\ locked' = (locked /\ step' # 1)
    /\ UNCHANGED <<kind, open, form, doc, base, touched, loaded, checks, where,
                   submitting, put, job, stopped, basis, counts>>

\* onChangeStep: an Edit button of the review.
Review(s) ==
    /\ open /\ kind.wizard /\ step = 4 /\ s \in 1..3
    /\ step' = s
    /\ UNCHANGED <<kind, open, form, doc, base, touched, loaded, checks, locked,
                   where, submitting, put, job, stopped, basis, counts>>

\* componentDidUpdate sees another data source: the page starts again.
SwitchCluster(c) ==
    /\ open /\ ~kind.edits /\ ~locked /\ c # where
    /\ opens < MaxOpens /\ opens' = opens + 1
    /\ where' = c
    /\ Blank
    /\ submitting' = FALSE
    /\ UNCHANGED <<kind, open, base, checks, locked, put, job, stopped, basis,
                   edits, elsewhere>>

-----------------------------------------------------------------------------
(* Saving.                                                                  *)

\* updateSchedule, updateDelay: an interval starts when it is saved and has
\* no time zone, a cron expression has no start.
Scheduled ==
    LET interval == kind.of = "transform" \/ form["schedule"] = 0 IN
    [schedule |-> form["schedule"],
     start |-> IF interval THEN 2 ELSE 0,
     zone |-> IF interval THEN 0 ELSE form["zone"],
     delay |-> IF form["delay"] = 2 THEN 3 ELSE form["delay"]]

\* buildPolicyFromState: the deletion of a policy is dropped if snapshots are
\* kept, and comes back with a schedule of its own, which gets the time zone
\* of the creation.
Retention ==
    [retention |-> IF form["retention"] = 1 \/ form["frequency"] = 1
                   THEN 1 ELSE 0,
     age |-> IF form["retention"] = 1 THEN form["age"] ELSE 0,
     frequency |-> form["frequency"],
     dzone |-> IF form["frequency"] = 1 THEN doc["zone"] ELSE 0]

Complete ==
    [f \in Field |->
        IF f \notin kind.late \cup kind.sets THEN doc[f]
        ELSE IF kind.of = "policy" THEN Retention[f] ELSE Scheduled[f]]

\* Mutant of Version: that of the moment.
VersionNow == IF kind.edits THEN job[where].seq ELSE 0

\* What an update says of the version it replaces.
Version == IF kind.edits THEN loaded.seq ELSE 0

\* onSubmit and onCreate or onUpdate, in one turn up to the request.
Submit ==
    /\ open /\ ~submitting /\ ~put.sent
    /\ kind.wizard => step = 4
    /\ kind.edits => loaded # NotLoaded
    /\ InPlace(Complete)
    /\ submitting' = TRUE
    /\ put' = [sent |-> TRUE, cluster |-> where, seq |-> Version, done |-> FALSE,
               ok |-> FALSE, doc |-> Complete, form |-> form, touched |-> touched,
               from |-> loaded, opened |-> opens]
    /\ UNCHANGED <<kind, open, form, touched, loaded, step, checks, locked,
                   where, job, stopped, basis, counts>>

\* A document without a version is a new one; one with a version replaces it.
Accepts(p) ==
    IF p.seq = 0 THEN ~job[p.cluster].there
    ELSE job[p.cluster].there /\ job[p.cluster].seq = p.seq

\* putRollup, putTransform, putPolicy of the server.
Save ==
    /\ put.sent /\ ~put.done
    /\ \/ /\ Accepts(put)
          /\ job' = [job EXCEPT ![put.cluster] =
                      [there |-> TRUE, seq |-> @.seq + 1, doc |-> put.doc]]
          /\ basis' = [basis EXCEPT ![put.cluster] = put.from.seq]
          /\ put' = [put EXCEPT !.done = TRUE, !.ok = TRUE]
       \/ put' = [put EXCEPT !.done = TRUE] /\ UNCHANGED <<job, basis>>
    /\ UNCHANGED <<kind, open, filled, checks, locked, where, submitting,
                   stopped, counts>>

\* Mutant of Freed: only a success does.
FreedNever == submitting

\* A failed save turns the button on again, but not for a transform.
Freed == IF kind.frees THEN FALSE ELSE submitting

\* The page leaves if the answer says so; an answer that is lost is a
\* failure for the page.
SaveAnswered ==
    /\ put.sent /\ put.done
    /\ put' = NoPut
    /\ \/ put.ok /\ open' = FALSE /\ submitting' = FALSE /\ checks' = 0
       \/ /\ submitting' = IF open /\ put.opened = opens THEN Freed ELSE submitting
          /\ UNCHANGED <<open, checks>>
    /\ UNCHANGED <<kind, filled, locked, where, job, stopped, basis, counts>>

-----------------------------------------------------------------------------
(* The details page of the same job, in another tab: it starts and stops    *)
(* the job, which makes a new version, or deletes it.                       *)

Elsewhere(c) ==
    /\ job[c].there /\ elsewhere < MaxElsewhere
    /\ elsewhere' = elsewhere + 1
    /\ UNCHANGED <<kind, open, filled, checks, locked, where, submitting, put,
                   basis, edits, opens>>

\* The same job with its enabled box set to v, in a new version.
Toggled(c, v) ==
    [there |-> TRUE, seq |-> job[c].seq + 1,
     doc |-> [job[c].doc EXCEPT !["enabled"] = v]]

StartJob(c) ==
    /\ Elsewhere(c)
    /\ job' = [job EXCEPT ![c] = Toggled(c, 1)]
    /\ stopped' = [stopped EXCEPT ![c] = 0]

StopJob(c) ==
    /\ Elsewhere(c)
    /\ job' = [job EXCEPT ![c] = Toggled(c, 0)]
    /\ stopped' = [stopped EXCEPT ![c] = job[c].seq + 1]

DeleteJob(c) ==
    /\ Elsewhere(c)
    /\ job' = [job EXCEPT ![c] =
                [there |-> FALSE, seq |-> @.seq + 1, doc |-> NoDoc]]
    /\ stopped' = [stopped EXCEPT ![c] = 0]

-----------------------------------------------------------------------------
FormNext ==
    \/ Open \/ Load \/ Leave
    \/ \E f \in Field : \E v \in Value(f) : Change(f, v)
    \/ \E ok \in BOOLEAN : Next_(ok)
    \/ StartCheck
    \/ \E ok \in BOOLEAN : EndCheck(ok)
    \/ Prev
    \/ \E s \in 1..3 : Review(s)
    \/ \E c \in Clusters : SwitchCluster(c)
    \/ Submit \/ Save \/ SaveAnswered
    \/ \E c \in Clusters : StartJob(c) \/ StopJob(c) \/ DeleteJob(c)

\* A request is answered, or given up by the browser.
FormFairness == WF_fvars(Save) /\ WF_fvars(SaveAnswered)

FormSpec == FormInit /\ [][FormNext]_fvars

-----------------------------------------------------------------------------
(* Properties.                                                              *)

Loads == [seq : Nat, doc : Document]
Puts ==
    [sent : {TRUE}, cluster : Clusters, seq : Nat, done : BOOLEAN, ok : BOOLEAN,
     doc : Document, form : Shows, touched : SUBSET Field, from : Loads,
     opened : 0..MaxOpens]

FormTypeOK ==
    /\ kind \in FormsChecked /\ open \in BOOLEAN
    /\ form \in Shows /\ doc \in Document /\ base \in Document
    /\ touched \subseteq Inputs(kind)
    /\ loaded \in Loads
    /\ step \in 1..4 /\ checks \in 0..2 /\ locked \in BOOLEAN
    /\ where \in Clusters /\ submitting \in BOOLEAN
    /\ put = NoPut \/ put \in Puts
    /\ job \in [Clusters -> [there : BOOLEAN, seq : Nat, doc : Document]]
    /\ stopped \in [Clusters -> Nat] /\ basis \in [Clusters -> Nat]
    /\ edits \in 0..MaxEdits /\ elsewhere \in 0..MaxElsewhere
    /\ opens \in 0..MaxOpens

\* The fields in which the pages do not send what they show: the enabled box
\* of a transform, once it has been clicked; the time zone of a rollup that
\* runs by an interval, and a delay that was loaded as a fraction of a minute;
\* the deletion of a policy whose snapshots are kept but whose deletion
\* schedule was set before; and what a wizard of an earlier mount left in the
\* base document.
Deviates(p, f) ==
    \/ f \in kind.lags
    \/ kind.of = "rollup" /\ f = "zone" /\ p.form["schedule"] = 0
    \/ f = "delay" /\ p.form["delay"] = 2
    \/ f \in {"retention", "age", "frequency"} /\ p.form["retention"] = 0
    \/ kind.shared /\ f \in kind.now /\ p.opened > 1

\* The document that a page sends says what the page showed when the user
\* submitted it, whichever handler wrote it and when.  (onSubmit,
\* updateSchedule, buildPolicyFromState and the onChange handlers.)
SavesWhatIsShown ==
    put.sent => \A f \in Inputs(kind) :
        Deviates(put, f) \/ put.doc[f] = put.form[f]

\* What saving changes of a job d although the user, who touched the fields
\* t, has not touched it: the start of an interval; the time zone of a
\* rollup's cron expression, which becomes UTC; a delay of no whole minutes.
\* Of a policy, a cron expression with ranges; an age that is none, or not
\* whole; a deletion schedule that is missing, has ranges or has the
\* expression of the creation, and its time zone, which becomes that of the
\* creation; all of the deletion, if it is turned on or off.
Rewrites(f, d, t) ==
    \/ f \in kind.sets /\ f = "start"
    \/ f = "zone" /\ kind.of = "rollup" /\ (d["schedule"] # 0 \/ "schedule" \in t)
    \/ f = "delay" /\ d[f] = 2
    \/ f = "schedule" /\ kind.of = "policy" /\ d[f] = 2
    \/ f = "age" /\ d["retention"] = 1 /\ d[f] \in {0, 3}
    \/ f = "frequency" /\ d["retention"] = 1 /\ d[f] # 1
    \/ f = "dzone" /\ d["retention"] = 1
       /\ \/ d[f] # d["zone"] \/ d["frequency"] # 1
          \/ {"zone", "frequency"} \cap t # {}
    \/ f \in {"age", "frequency", "dzone"} /\ "retention" \in t

\* An edit page leaves alone what the user has not touched: what it sends for
\* such a field is what it loaded, except where saving rewrites it.  (The
\* loads of the three edit pages, updateSchedule, updateDelay and
\* buildPolicyFromState.)
UntouchedKept ==
    put.sent /\ kind.edits => \A f \in Field \ put.touched :
        put.doc[f] = put.from.doc[f] \/ Rewrites(f, put.from.doc, put.touched)

\* A job that was stopped on its details page is not started again by a form
\* that was filled before: the version the form was filled from goes with the
\* update.  (seqNo and primaryTerm in onUpdate, update and updatePolicy.)
StopHolds ==
    \A c \in Clusters :
        stopped[c] > 0 /\ job[c].there /\ job[c].doc["enabled"] = 1
            => basis[c] >= stopped[c]

\* Beyond the first step of the rollup wizard the data source is locked: what
\* the steps define belongs to the cluster whose indices were chosen.  The
\* transform wizard checks its first step by requests and may end one late.
WizardLocked ==
    open /\ kind.wizard /\ ~kind.async /\ step > 1 => locked

\* The submit button does not stay off, except that of a transform whose
\* update failed.
SubmittingEnds == submitting /\ kind.frees ~> ~submitting

=============================================================================
