--------------------------- MODULE IndexOperation ---------------------------
(***************************************************************************)
(* The pages that start a long operation on an index: shrink, split,       *)
(* reindex, force merge and roll over.  A page reads in two requests       *)
(* whether the source is open and prepared (its writes blocked; for an     *)
(* alias, its write index assigned), offers to open and to prepare it, and *)
(* starts the operation.  The cluster answers with a task, which becomes a *)
(* job of JobScheduler after one more request.                             *)
(*                                                                         *)
(* Validation without a request takes no turn of its own: a click and the  *)
(* request it sends are one step, except in Reindex.                       *)
(***************************************************************************)
EXTENDS Naturals, FiniteSets

CONSTANTS
    OperationsChecked,  \* the pages of this instance, of Operations
    Candidates,            \* what may be reindexed, and into what
    MaxReadings,        \* bound: readings of the source under way
    MaxSubmits,         \* bound: operations submitted
    MaxGestures_,       \* bound: opens, preparations and changes of the form
    MaxOthers           \* bound: what others do to the source

\* A page that is opened reads the source.
ASSUME OperationAssumption ==
    MaxReadings \in Nat \ {0} /\ MaxSubmits \in Nat /\ MaxGestures_ \in Nat
      /\ MaxOthers \in Nat

VARIABLES
    operation,  \* the page
    mounted, listening,  \* is it there, and waiting for OPEN_COMPLETE?
    busy,       \* loading, or executing
    source,     \* the source in the cluster
    seen,       \* what the page shows of it
    readings,   \* readings of the source under way
    disturbed,  \* have two overlapped, one failed, or an open ended unheard?
    preparing,  \* the state of putSettings or updateAliases
    opening,    \* the state of the last open of the source
    choice,     \* what the form of Reindex says: [from, into]
    submits,    \* the submissions under way
    started,    \* the tasks of the cluster, by number of the submission
    watched,    \* those with a job
    told,       \* those of which the user was told that they failed
    clicks, gestures, others  \* how much of each bound is used

shows == <<source, seen, readings, disturbed, preparing, opening>>
tasks == <<started, watched, told>>
ocounts == <<clicks, gestures, others>>
ovars == <<operation, mounted, listening, busy, shows, choice, submits, tasks,
           ocounts>>

-----------------------------------------------------------------------------
(* The pages.  needs: what the button waits for; locks: is the button off   *)
(* while the request is under way; checks: are there requests before it;    *)
(* catches: does the page notice a request that throws; stays: is the page  *)
(* left only after the job was added; leavesRefused: left in any case.      *)

Shrink == [name |-> "shrink", needs |-> {"open", "prepared"}, locks |-> TRUE,
           checks |-> FALSE, catches |-> TRUE, stays |-> FALSE,
           leavesRefused |-> FALSE, task |-> TRUE]
Split == [Shrink EXCEPT !.name = "split", !.locks = FALSE, !.catches = FALSE,
                        !.stays = TRUE]
Reindex == [Shrink EXCEPT !.name = "reindex", !.needs = {}, !.checks = TRUE,
                          !.stays = TRUE, !.leavesRefused = TRUE]
ForceMerge == [Shrink EXCEPT !.name = "forcemerge", !.needs = {},
                             !.catches = FALSE, !.stays = TRUE]
Rollover == [Shrink EXCEPT !.name = "rollover", !.needs = {"prepared"},
                           !.catches = FALSE, !.task = FALSE]

Operations == {Shrink, Split, Reindex, ForceMerge, Rollover}

ASSUME OperationsAssumption == OperationsChecked \subseteq Operations

Opens == "open" \in operation.needs
Prepares == "prepared" \in operation.needs

\* The page shows no reason against the operation.
Ready == \A what \in operation.needs : seen[what] = "yes"

Answer(b) == IF b THEN "yes" ELSE "no"

NoChoice == "none"

-----------------------------------------------------------------------------
\* A reading of the source, told from those under way by its number: getIndex,
\* isSourceIndexReady, refreshOptions.
Reading(step, was) ==
    [n |-> CHOOSE k \in 0..MaxReadings : \A r \in was : r.n # k,
     step |-> step, open |-> "unread", prepared |-> "unread"]

OperationInit ==
    /\ operation \in OperationsChecked
    /\ mounted = TRUE /\ listening = FALSE /\ busy = FALSE
    /\ source \in IF Prepares THEN [open: BOOLEAN, prepared: BOOLEAN]
                 ELSE {[open |-> TRUE, prepared |-> TRUE]}
    /\ seen = [open |-> "unread", prepared |-> "unread"]
    /\ readings = IF ~Prepares THEN {}
                  ELSE {Reading(IF Opens THEN "index" ELSE "settings", {})}
    /\ disturbed = FALSE /\ preparing = "no" /\ opening = "no"
    /\ choice \in IF operation.checks THEN [from: Candidates, into: Candidates]
                 ELSE {[from |-> NoChoice, into |-> NoChoice]}
    /\ submits = {} /\ started = {} /\ watched = {} /\ told = {}
    /\ clicks = 0 /\ gestures = 0 /\ others = 0

StartReading(step) ==
    /\ Cardinality(readings) < MaxReadings
    /\ readings' = readings \cup {Reading(step, readings)}
    /\ disturbed' = (disturbed \/ readings # {})

\* The cluster answers the first request of a reading, then the second.
ReadSource(r) ==
    \/ /\ r.step = "index"
       /\ readings' = (readings \ {r}) \cup
            {[r EXCEPT !.step = "index read", !.open = Answer(source.open)]}
    \/ /\ r.step = "settings"
       /\ readings' = (readings \ {r}) \cup
            {[r EXCEPT !.step = "settings read",
                       !.prepared = Answer(source.prepared)]}

ClusterReads(r) ==
    /\ ReadSource(r)
    /\ UNCHANGED <<operation, mounted, listening, busy, source, seen, disturbed,
                   preparing, opening, choice, submits, tasks, ocounts>>

\* The first answer: shrink shows it at once, split keeps it for its reasons.
ShowIndex(r) ==
    /\ r.step = "index read"
    /\ seen' = IF operation = Shrink /\ mounted THEN [seen EXCEPT !.open = r.open]
               ELSE seen
    /\ readings' = (readings \ {r}) \cup {[r EXCEPT !.step = "settings"]}
    /\ UNCHANGED <<operation, mounted, listening, busy, source, disturbed,
                   preparing, opening, choice, submits, tasks, ocounts>>

\* The reasons of split speak of the two answers of one reading.
Reasons(r) ==
    IF operation = Split THEN [open |-> r.open, prepared |-> r.prepared]
    ELSE [seen EXCEPT !.prepared = r.prepared]

\* The second answer.  The listener is registered after the first reading.
ShowSettings(r) ==
    /\ r.step = "settings read"
    /\ seen' = IF mounted THEN Reasons(r) ELSE seen
    /\ readings' = readings \ {r}
    /\ listening' = (mounted /\ Opens)
    /\ UNCHANGED <<operation, mounted, busy, source, disturbed, preparing,
                   opening, choice, submits, tasks, ocounts>>

\* A reading that fails: of the index, or any of split, the page is left.
ReadingFails(r) ==
    /\ readings' = readings \ {r}
    /\ disturbed' = TRUE
    /\ IF operation = Split \/ r.step \in {"index", "index read"}
       THEN mounted' = FALSE /\ listening' = FALSE
       ELSE mounted' = mounted /\ listening' = (mounted /\ Opens)
    /\ UNCHANGED <<operation, busy, source, seen, preparing, opening, choice,
                   submits, tasks, ocounts>>

-----------------------------------------------------------------------------
(* Preparing and opening the source.                                        *)

UserActs ==
    /\ mounted /\ gestures < MaxGestures_
    /\ gestures' = gestures + 1
    /\ UNCHANGED <<operation, mounted, listening, source, seen, tasks, clicks,
                   others>>

\* "Block write operations", "Assign as write index".
Prepare ==
    /\ Prepares /\ seen.prepared = "no" /\ preparing = "no"
    /\ preparing' = "asked"
    /\ UserActs
    /\ UNCHANGED <<busy, readings, disturbed, opening, choice, submits>>

ClusterPrepares ==
    /\ preparing = "asked"
    /\ \/ preparing' = "done" /\ source' = [source EXCEPT !.prepared = TRUE]
       \/ preparing' = "refused" /\ UNCHANGED source
    /\ UNCHANGED <<operation, mounted, listening, busy, seen, readings, disturbed,
                   opening, choice, submits, tasks, ocounts>>

\* Mutant of ReadAgain: the page is not read again.
ReadAgainNever == UNCHANGED <<readings, disturbed>>

\* Shrink reads its settings again, also after a refusal; split reads all.
ReadAgain ==
    IF preparing = "done" \/ operation = Shrink
    THEN StartReading(IF operation = Split THEN "index" ELSE "settings")
    ELSE UNCHANGED <<readings, disturbed>>

Prepared ==
    /\ preparing \in {"done", "refused"}
    /\ preparing' = "no"
    /\ ReadAgain
    /\ UNCHANGED <<operation, mounted, listening, busy, source, seen, opening,
                   choice, submits, tasks, ocounts>>

\* "Open index".  The reasons of split were made when the page was not busy,
\* so that their button stays on.
Open_ ==
    /\ Opens /\ seen.open = "no" /\ opening = "no"
    /\ operation = Shrink => ~busy
    /\ busy' = TRUE
    /\ opening' = "asked"
    /\ UserActs
    /\ UNCHANGED <<readings, disturbed, preparing, choice, submits>>

\* openIndices: a refused open is not noticed, an accepted one is watched.
ClusterOpens ==
    /\ opening = "asked"
    /\ \/ opening' = "done" /\ source' = [source EXCEPT !.open = TRUE]
       \/ opening' = "failed" /\ UNCHANGED source
    /\ UNCHANGED <<operation, mounted, listening, busy, seen, readings, disturbed,
                   preparing, choice, submits, tasks, ocounts>>

\* openCompleteHandler: at the end of any open.
OpenComplete ==
    IF listening THEN busy' = FALSE /\ StartReading("index")
                 ELSE disturbed' = TRUE /\ UNCHANGED <<busy, readings>>

OpenEnds ==
    /\ opening = "done"
    /\ opening' = "no"
    /\ OpenComplete
    /\ UNCHANGED <<operation, mounted, listening, source, seen, preparing, choice,
                   submits, tasks, ocounts>>

\* An index that was opened elsewhere is open now.
OtherOpenEnds ==
    /\ others < MaxOthers /\ others' = others + 1
    /\ OpenComplete
    /\ UNCHANGED <<operation, mounted, listening, source, seen, preparing, opening,
                   choice, submits, tasks, clicks, gestures>>

\* Another user changes the source.
Interfere ==
    /\ Prepares /\ others < MaxOthers /\ others' = others + 1
    /\ source' \in [open: BOOLEAN, prepared: BOOLEAN] \ {source}
    /\ UNCHANGED <<operation, mounted, listening, busy, seen, readings, disturbed,
                   preparing, opening, choice, submits, tasks, clicks, gestures>>

-----------------------------------------------------------------------------
(* The operation.                                                           *)

\* onSourceSelection, onDestinationSelection of Reindex.
Choose_(c) ==
    /\ operation.checks /\ c # choice
    /\ choice' = c
    /\ submits' = {[h EXCEPT !.edited = TRUE] : h \in submits}
    /\ UserActs
    /\ UNCHANGED <<busy, readings, disturbed, preparing, opening>>

\* Mutant of Locked: the button stays on.
LockedNever == busy

\* setState before the request.
Locked == operation.locks \/ busy

\* onClickAction, onSubmit: Reindex has its source checked first.
Click ==
    /\ mounted /\ Ready /\ ~busy /\ clicks < MaxSubmits
    /\ clicks' = clicks + 1
    /\ submits' = submits \cup
         {[n |-> clicks', step |-> IF operation.checks THEN "check" ELSE "sent",
           choice |-> choice, edited |-> FALSE]}
    /\ busy' = IF operation.checks THEN busy ELSE Locked
    /\ UNCHANGED <<operation, mounted, listening, shows, choice, tasks, gestures,
                   others>>

Advance(h, step) == submits' = (submits \ {h}) \cup {[h EXCEPT !.step = step]}

\* Mutant of Distinct: a duplicate is shown, but does not end the submission.
DistinctShown(h) == TRUE

\* checkDuplicate in validateDestination: the destination of the click and
\* the sources that the form shows now.
Distinct(h) == choice.from # h.choice.into

\* validateSource, validateDestination: the next is the check of the query,
\* if there is one.
EndCheck_(h) ==
    /\ h.step = "check"
    /\ \/ Distinct(h) /\ (Advance(h, "query") \/ Advance(h, "sending"))
       \/ submits' = submits \ {h}
    /\ UNCHANGED <<operation, mounted, listening, busy, shows, choice, tasks,
                   ocounts>>

EndQuery(h) ==
    /\ h.step = "query"
    /\ (Advance(h, "sending") \/ submits' = submits \ {h})
    /\ UNCHANGED <<operation, mounted, listening, busy, shows, choice, tasks,
                   ocounts>>

SendReindex(h) ==
    /\ h.step = "sending"
    /\ Advance(h, "sent")
    /\ busy' = (mounted \/ busy)
    /\ UNCHANGED <<operation, mounted, listening, shows, choice, tasks, ocounts>>

\* The cluster starts the task, or refuses.
ClusterStarts(h) ==
    /\ h.step = "sent"
    /\ \/ Advance(h, "started") /\ started' = started \cup {h.n}
       \/ Advance(h, "refused") /\ UNCHANGED started
    /\ UNCHANGED <<operation, mounted, listening, busy, shows, choice, watched,
                   told, ocounts>>

Leaves == mounted' = FALSE /\ listening' = FALSE

\* The answer that a task was started.
Accepted(h) ==
    /\ h.step = "started"
    /\ IF operation.task
       THEN /\ Advance(h, "job")
            /\ UNCHANGED busy
            /\ IF operation.stays THEN UNCHANGED <<mounted, listening>> ELSE Leaves
       ELSE submits' = submits \ {h} /\ busy' = FALSE /\ Leaves
    /\ UNCHANGED <<operation, shows, choice, tasks, ocounts>>

\* A refusal is told to the user.
Refused(h) ==
    /\ h.step = "refused"
    /\ submits' = submits \ {h}
    /\ told' = told \cup {h.n}
    /\ busy' = IF operation.locks THEN FALSE ELSE busy
    /\ IF operation.leavesRefused THEN Leaves ELSE UNCHANGED <<mounted, listening>>
    /\ UNCHANGED <<operation, shows, choice, started, watched, ocounts>>

\* The request, or the one for the name of the cluster, throws: if the page
\* does not catch it, nobody is told and the button stays as it is.
Throws(h) ==
    /\ h.step \in {"sent", "started", "refused", "job"}
    /\ submits' = submits \ {h}
    /\ told' = IF operation.catches THEN told \cup {h.n} ELSE told
    /\ busy' = IF operation.catches THEN FALSE ELSE busy
    /\ UNCHANGED <<operation, mounted, listening, shows, choice, started, watched,
                   ocounts>>

\* Mutant of JobAdded: the job is added by a page that is still there.
JobAddedMounted(h) ==
    /\ watched' = IF mounted THEN watched \cup {h.n} ELSE watched
    /\ submits' = submits \ {h}

JobAdded(h) ==
    /\ watched' = watched \cup {h.n}
    /\ submits' = submits \ {h}

\* The name of the cluster has arrived: addJob, then the page is left.
AddTask(h) ==
    /\ h.step = "job"
    /\ JobAdded(h)
    /\ busy' = IF operation.checks THEN FALSE ELSE busy
    /\ Leaves
    /\ UNCHANGED <<operation, shows, choice, started, told, ocounts>>

\* Cancel.
LeavePage ==
    /\ mounted /\ Leaves
    /\ UNCHANGED <<operation, busy, shows, choice, submits, tasks, ocounts>>

-----------------------------------------------------------------------------
OperationNext ==
    \/ \E r \in readings : ClusterReads(r) \/ ShowIndex(r) \/ ShowSettings(r)
    \/ \E r \in readings : ReadingFails(r)
    \/ Prepare \/ ClusterPrepares \/ Prepared
    \/ Open_ \/ ClusterOpens \/ OpenEnds \/ OtherOpenEnds \/ Interfere
    \/ \E c \in [from: Candidates, into: Candidates] : Choose_(c)
    \/ Click
    \/ \E h \in submits : EndCheck_(h) \/ EndQuery(h) \/ SendReindex(h)
    \/ \E h \in submits : ClusterStarts(h) \/ Accepted(h) \/ Refused(h) \/ Throws(h)
    \/ \E h \in submits : AddTask(h)
    \/ LeavePage

\* Every request is answered or throws.
OperationFairness ==
    /\ WF_ovars(\E h \in submits : EndCheck_(h) \/ EndQuery(h) \/ SendReindex(h)
                  \/ ClusterStarts(h) \/ Accepted(h) \/ Refused(h) \/ AddTask(h))

OperationSpec == OperationInit /\ [][OperationNext]_ovars

-----------------------------------------------------------------------------
(* Properties.                                                              *)

Steps ==
    {"check", "query", "sending", "sent", "started", "refused", "job"}
ChoiceSet == [from: Candidates \cup {NoChoice}, into: Candidates \cup {NoChoice}]
Submissions == [n: Nat, step: Steps, choice: ChoiceSet, edited: BOOLEAN]

OperationTypeOK ==
    /\ operation \in OperationsChecked
    /\ mounted \in BOOLEAN /\ listening \in BOOLEAN /\ busy \in BOOLEAN
    /\ source \in [open: BOOLEAN, prepared: BOOLEAN]
    /\ \A what \in {"open", "prepared"} : seen[what] \in {"unread", "yes", "no"}
    /\ Cardinality(readings) <= MaxReadings
    /\ choice \in ChoiceSet /\ submits \subseteq Submissions
    /\ watched \subseteq started /\ started \subseteq 1..MaxSubmits

Unanswered == {h \in submits : h.step \in {"sent", "started", "refused"}}

\* An operation is not sent again while its request is under way.  Split does
\* not turn its button off, Reindex does after its checks, and in shrink the
\* end of any open turns it on.  (loading, executing.)
SentOnce ==
    Cardinality(Unanswered) > 1 =>
        ~operation.locks \/ operation.checks \/ (operation = Shrink /\ others > 0)

\* What is reindexed is not what it is reindexed into, unless the user chose
\* something else since the click.  (checkDuplicate.)
NeverOntoItself ==
    \A h \in submits :
        operation.checks /\ h.step # "check" /\ ~h.edited
            => h.choice.from # h.choice.into

\* When nothing is under way the page shows the source as it is, if no one
\* else changed it and no two readings disturbed: its own preparing and
\* opening are never missed.  (onUpdateIndexSettings, openCompleteHandler.)
ShowsOwnWork ==
    mounted /\ readings = {} /\ preparing = "no" /\ opening = "no"
      /\ ~disturbed /\ others = 0
        => \A what \in operation.needs : seen[what] = Answer(source[what])

\* A task that the cluster has started gets a job, or the user is told of an
\* error, whether the page is left or not.  Split and force merge do neither
\* if a request throws.
TasksWatched ==
    \A n \in 1..MaxSubmits :
        n \in started /\ operation.task /\ operation.catches
            ~> n \in watched \cup told

=============================================================================
