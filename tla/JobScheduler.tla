---------------------------- MODULE JobScheduler ----------------------------
(***************************************************************************)
(* The background job scheduler of the plugin: the browser-side queue that *)
(* watches the long operations (reindex, shrink, split, force merge, open) *)
(* until their task has completed or an hour has gone by, and tells the    *)
(* user with a toast.  Sources: src/public/lib/JobScheduler,               *)
(* src/public/JobHandler, src/public/context/JobSchedulerContext.tsx and   *)
(* the pages that call addJob.                                             *)
(*                                                                         *)
(* Several browser tabs share one localStorage.  Inside a tab JavaScript   *)
(* is single threaded: a timer, an answer from the server or a click       *)
(* starts a task, and the awaits of that task run to their end before the  *)
(* next task starts (Quiescent).  Each await of the code between two       *)
(* accesses to localStorage is a point where another tab may step.         *)
(*                                                                         *)
(* A "chain" is one asynchronous activity of a tab: an addJob, a loopJob,  *)
(* a runJob or the removal of a staled job.  Its pc names what it does     *)
(* NEXT.                                                                   *)
(***************************************************************************)
EXTENDS Naturals, FiniteSets

CONSTANTS
  Tabs,         \* browser tabs of one user
  Jobs,         \* operations, each of which is submitted at most once
  Slots,        \* bound: at most |Slots| chains are under way at once
  FirstRun,     \* the jobs that are added with a firstRunTimeout
  OpenJobs,     \* the jobs of type "open"
  Remote,       \* the jobs whose task runs in a remote data source
  EarlyJobs,    \* the jobs that may be added before JobHandlerRegister is done
  Lossy,        \* may a request for the state of a task fail?
  MaxLoads,     \* bound: how often a tab loads the plugin
  MaxOutcomes,  \* bound: the outcome counters stop here
  NoTab, NoJob

ASSUME JobSchedulerAssumption ==
  /\ FirstRun \subseteq Jobs /\ OpenJobs \subseteq Jobs /\ Remote \subseteq Jobs
  /\ EarlyJobs \subseteq Jobs /\ Lossy \in BOOLEAN
  /\ MaxLoads \in Nat /\ MaxOutcomes \in Nat \ {0}
  /\ NoTab \notin Tabs /\ NoJob \notin Jobs

VARIABLES
  disk,     \* localStorage: per key, per job, what the stored record tells
  page,     \* per tab: closed, loaded, or registered (JobHandlerRegister done)
  loads,    \* per tab: how often it was opened
  running,  \* per tab: the keys of runningJobMap
  armed,    \* per tab: the jobs whose interval timer is pending
  first,    \* per tab: the jobs whose first-run timer is pending
  chain,    \* the activities under way
  task,     \* per job: its task in the cluster
  overdue,  \* the jobs whose createTime + timeout has passed
  inTime,   \* history: the jobs whose task had a result before that
  reports,  \* per job: result toasts shown
  timeouts  \* per job: timeout toasts shown

vars == <<disk, page, loads, running, armed, first, chain, task, overdue,
          inTime, reports, timeouts>>

tabVars  == <<page, loads>>
mapVars  == <<running, armed, first>>
taskVars == <<task, overdue, inTime>>
seenVars == <<reports, timeouts>>

-----------------------------------------------------------------------------
(* The data.                                                               *)

\* The key the scheduler is built with, and the key JobHandlerRegister sets.
Stores == {"default", "user"}

\* What a stored record says of its run: there is no record, it never ran, or
\* its latestRunTime lies before or after createTime + timeout.
RunTimes == {"absent", "none", "fresh", "late"}
Lists == [Jobs -> RunTimes]
EmptyList == [j \in Jobs |-> "absent"]

PCs == {"idle", "starting", "set", "added", "loop", "stale", "staleDelete",
        "fetch", "replied", "answered", "runDelete", "readd"}
Chains == [pc: PCs, tab: Tabs \cup {NoTab}, job: Jobs \cup {NoJob},
           lr: RunTimes, fin: BOOLEAN, snap: Lists]

Idle == [pc |-> "idle", tab |-> NoTab, job |-> NoJob, lr |-> "absent",
         fin |-> FALSE, snap |-> EmptyList]
Chain(pc, t, j, lr, fin, snap) ==
  [pc |-> pc, tab |-> t, job |-> j, lr |-> lr, fin |-> fin, snap |-> snap]
At(s, pc) == chain[s].pc = pc

\* Chains that wait for the server: the tab may run other tasks meanwhile.
Waiting == {"idle", "starting", "fetch", "replied"}
Quiescent(t) == \A s \in Slots : chain[s].tab = t => chain[s].pc \in Waiting

Opened(t) == page[t] # "closed"
Registered(t) == t \in Tabs /\ page[t] = "registered"

\* jobSchedulerInstance.storage of a tab, and storage.getAll.
Store(t) == IF Registered(t) THEN "user" ELSE "default"
GetAll(t) == disk[Store(t)]
SaveToDisk(t, list) == disk' = [disk EXCEPT ![Store(t)] = list]

\* What a run started now writes to latestRunTime.
\* Mistakes: the time of creation; a formatted date.
NowFormatted(j) == "date"
NowAtCreation(j) == "fresh"
Now(j) == IF j \in overdue THEN "late" ELSE "fresh"

\* isStaledJob reads nothing but the stored record.
\* Mistake: createTime is compared in the wrong unit.
IsStaledNever(runTime) == FALSE
IsStaled(runTime) == runTime = "late"

Count(n) == IF n < MaxOutcomes THEN n + 1 ELSE n

Become(s, c) == chain' = [chain EXCEPT ![s] = c]

-----------------------------------------------------------------------------
(* A tab: loading the plugin, registering the handlers, leaving the page.  *)

Init ==
  /\ disk = [k \in Stores |-> EmptyList]
  /\ page = [t \in Tabs |-> "closed"]
  /\ loads = [t \in Tabs |-> 0]
  /\ running = [t \in Tabs |-> {}]
  /\ armed = [t \in Tabs |-> {}]
  /\ first = [t \in Tabs |-> {}]
  /\ chain = [s \in Slots |-> Idle]
  /\ task = [j \in Jobs |-> "none"]
  /\ overdue = {}
  /\ inTime = {}
  /\ reports = [j \in Jobs |-> 0]
  /\ timeouts = [j \in Jobs |-> 0]

\* The module builds the scheduler on the default key and calls init, whose
\* loopJob has called getAll when the import ends.
OpenTab(t, s) ==
  /\ page[t] = "closed" /\ loads[t] < MaxLoads
  /\ At(s, "idle")
  /\ page' = [page EXCEPT ![t] = "loaded"]
  /\ loads' = [loads EXCEPT ![t] = @ + 1]
  /\ Become(s, Chain("loop", t, NoJob, "absent", FALSE, GetAll(t)))
  /\ UNCHANGED <<disk, mapVars, taskVars, seenVars>>

\* The answer to accountInfo: setStorage and the five addCallback run in one
\* go.  init is not called again.
JobHandlerRegister(t) ==
  /\ page[t] = "loaded"
  /\ Quiescent(t)
  /\ page' = [page EXCEPT ![t] = "registered"]
  /\ UNCHANGED <<disk, loads, mapVars, chain, taskVars, seenVars>>

\* Closing or reloading the page, which happens between two tasks: timers,
\* requests and runningJobMap are gone, localStorage stays.
CloseTab(t) ==
  /\ Opened(t)
  /\ Quiescent(t)
  /\ page' = [page EXCEPT ![t] = "closed"]
  /\ running' = [running EXCEPT ![t] = {}]
  /\ armed' = [armed EXCEPT ![t] = {}]
  /\ first' = [first EXCEPT ![t] = {}]
  /\ chain' = [s \in Slots |-> IF chain[s].tab = t THEN Idle ELSE chain[s]]
  /\ UNCHANGED <<disk, loads, taskVars, seenVars>>

-----------------------------------------------------------------------------
(* addJob and loopJob.                                                     *)

\* The cluster accepted the operation and returned a task id; the page goes
\* on to ask for the cluster's name before it calls addJob.
StartOperation(t, j, s) ==
  /\ Opened(t) /\ (j \in EarlyJobs \/ Registered(t))
  /\ Quiescent(t)
  /\ task[j] = "none"
  /\ At(s, "idle")
  /\ task' = [task EXCEPT ![j] = "running"]
  /\ Become(s, Chain("starting", t, j, "none", FALSE, EmptyList))
  /\ UNCHANGED <<disk, tabVars, mapVars, overdue, inTime, seenVars>>

\* addJob up to its first await: unless the map has the id, storage.set has
\* read the list.
AddJob(s, t, j, runTime) ==
  IF j \in running[t]
  THEN Become(s, Idle)
  ELSE Become(s, Chain("set", t, j, runTime, FALSE, GetAll(t)))

SubmitJob(s) ==
  LET c == chain[s] IN
  /\ At(s, "starting")
  /\ Quiescent(c.tab)
  /\ AddJob(s, c.tab, c.job, c.lr)
  /\ UNCHANGED <<disk, tabVars, mapVars, taskVars, seenVars>>

\* storage.set writes back the list it had read, with this job's record.
StoreJob(s) ==
  LET c == chain[s] IN
  /\ At(s, "set")
  /\ SaveToDisk(c.tab, [c.snap EXCEPT ![c.job] = c.lr])
  /\ Become(s, Chain("added", c.tab, c.job, c.lr, FALSE, EmptyList))
  /\ UNCHANGED <<tabVars, mapVars, taskVars, seenVars>>

\* formatJob drops firstRunTimeout from the record, so only the first addJob of
\* a job sets the timer.  Mistake: the record keeps it.
FirstRunKept(c) == FirstRun \cap {c.job}
FirstRunTimer(c) == IF c.lr = "none" THEN FirstRun \cap {c.job} ELSE {}

\* The rest of addJob: the first-run timer and loopJob.
ArmFirstRun(s) ==
  LET c == chain[s] IN
  /\ At(s, "added")
  /\ first' = [first EXCEPT ![c.tab] = @ \cup FirstRunTimer(c)]
  /\ Become(s, Chain("loop", c.tab, NoJob, "absent", FALSE, GetAll(c.tab)))
  /\ UNCHANGED <<disk, tabVars, running, armed, taskVars, seenVars>>

\* The jobs of a list that get a timer: neither staled nor in the map.
\* Mistake: the map is not asked.
EveryStored(t, list) == {j \in Jobs : list[j] \in {"none", "fresh"}}
Untracked(t, list) == {j \in Jobs : list[j] \in {"none", "fresh"}} \ running[t]

\* loopJob after its await: a timer for each of these, a removal for each staled job (runStaledJob has called getJob).
\* serves[x] is the staled job whose removal is chain x, if any.
LoopJob(s) ==
  LET c == chain[s]
      staled == {j \in Jobs : IsStaled(c.snap[j])}
      found  == Untracked(c.tab, c.snap)
  IN
  /\ At(s, "loop")
  /\ running' = [running EXCEPT ![c.tab] = @ \cup found]
  /\ armed' = [armed EXCEPT ![c.tab] = @ \cup found]
  /\ \E serves \in [Slots -> staled \cup {NoJob}] :
       /\ \A x \in Slots : serves[x] # NoJob => x = s \/ At(x, "idle")
       /\ \A j \in staled : \E x \in Slots : serves[x] = j
       /\ \A x, y \in Slots : serves[x] = serves[y] /\ serves[x] # NoJob => x = y
       /\ chain' = [x \in Slots |->
            IF serves[x] # NoJob
            THEN Chain("stale", c.tab, serves[x], GetAll(c.tab)[serves[x]],
                       FALSE, EmptyList)
            ELSE IF x = s THEN Idle ELSE chain[x]]
  /\ UNCHANGED <<disk, tabVars, first, taskVars, seenVars>>

-----------------------------------------------------------------------------
(* deleteJob and the removal of a staled job.                              *)

\* deleteJob up to its await: clearTimeout, the map entry, and getAll.
\* Mistakes: the timer is not cleared; the map entry stays.
ForgetEntryOnly(t, j) ==
  /\ running' = [running EXCEPT ![t] = @ \ {j}]
  /\ UNCHANGED armed
ForgetTimerOnly(t, j) ==
  /\ armed' = [armed EXCEPT ![t] = @ \ {j}]
  /\ UNCHANGED running
ForgetJob(t, j) ==
  /\ running' = [running EXCEPT ![t] = @ \ {j}]
  /\ armed' = [armed EXCEPT ![t] = @ \ {j}]

\* runStaledJob shows the timeout toast if getJob found the record and a
\* handler is registered; then deleteJob.
TimeOutJob(s) ==
  LET c == chain[s] IN
  /\ At(s, "stale")
  /\ timeouts' = [timeouts EXCEPT ![c.job] =
                    IF c.lr # "absent" /\ Registered(c.tab) THEN Count(@) ELSE @]
  /\ ForgetJob(c.tab, c.job)
  /\ Become(s, Chain("staleDelete", c.tab, c.job, c.lr, FALSE, GetAll(c.tab)))
  /\ UNCHANGED <<disk, tabVars, first, taskVars, reports>>

DeleteStaledJob(s) ==
  LET c == chain[s] IN
  /\ At(s, "staleDelete")
  /\ SaveToDisk(c.tab, [c.snap EXCEPT ![c.job] = "absent"])
  /\ Become(s, Idle)
  /\ UNCHANGED <<tabVars, mapVars, taskVars, seenVars>>

-----------------------------------------------------------------------------
(* runJob.                                                                 *)

\* runJob up to its long await.  A job without a record is dropped (its map
\* entry stays).  Without handlers Promise.all has nothing to wait for.
\* Mistake: a job whose hour is over is not asked for any more.
RunJobUnlessLate(s, t, j) ==
  IF GetAll(t)[j] = "absent"
  THEN UNCHANGED chain
  ELSE Become(s, Chain(IF Registered(t) /\ j \notin overdue THEN "fetch" ELSE "answered",
                       t, j, Now(j), FALSE, EmptyList))
RunJob(s, t, j) ==
  IF GetAll(t)[j] = "absent"
  THEN UNCHANGED chain
  ELSE Become(s, Chain(IF Registered(t) THEN "fetch" ELSE "answered",
                       t, j, Now(j), FALSE, EmptyList))

\* The interval timer.  Its closure tests the record it was armed with, which
\* was not staled.
FireTimer(t, j, s) ==
  /\ j \in armed[t]
  /\ Quiescent(t)
  /\ At(s, "idle")
  /\ armed' = [armed EXCEPT ![t] = @ \ {j}]
  /\ RunJob(s, t, j)
  /\ UNCHANGED <<disk, tabVars, running, first, taskVars, seenVars>>

\* The first-run timer, which runningJobMap does not know of.
FireFirstRun(t, j, s) ==
  /\ j \in first[t]
  /\ Quiescent(t)
  /\ At(s, "idle")
  /\ first' = [first EXCEPT ![t] = @ \ {j}]
  /\ RunJob(s, t, j)
  /\ UNCHANGED <<disk, tabVars, running, armed, taskVars, seenVars>>

\* What the handler makes of the task document.  Every request goes to the
\* local cluster.  An open that completed without its shards is no result.
Finished(j) == task[j] = "done" /\ j \notin Remote

\* The server reads the task document, or the request fails.
Answer(s) ==
  LET c == chain[s] IN
  /\ At(s, "fetch")
  /\ \E fin \in {Finished(c.job)} \cup (IF Lossy THEN {FALSE} ELSE {}) :
       Become(s, Chain("replied", c.tab, c.job, c.lr, fin, EmptyList))
  /\ UNCHANGED <<disk, tabVars, mapVars, taskVars, seenVars>>

\* The answer reaches the tab: the handler shows the result, if there is one.
Deliver(s) ==
  LET c == chain[s] IN
  /\ At(s, "replied")
  /\ Quiescent(c.tab)
  /\ reports' = [reports EXCEPT ![c.job] = IF c.fin THEN Count(@) ELSE @]
  /\ Become(s, [c EXCEPT !.pc = "answered"])
  /\ UNCHANGED <<disk, tabVars, mapVars, taskVars, timeouts>>

\* runJob goes on with deleteJob, whatever the answer was.
EndRun(s) ==
  LET c == chain[s] IN
  /\ At(s, "answered")
  /\ ForgetJob(c.tab, c.job)
  /\ Become(s, [c EXCEPT !.pc = "runDelete", !.snap = GetAll(c.tab)])
  /\ UNCHANGED <<disk, tabVars, first, taskVars, seenVars>>

DeleteRunJob(s) ==
  LET c == chain[s] IN
  /\ At(s, "runDelete")
  /\ SaveToDisk(c.tab, [c.snap EXCEPT ![c.job] = "absent"])
  /\ Become(s, IF c.fin THEN Idle
               ELSE Chain("readd", c.tab, c.job, c.lr, FALSE, EmptyList))
  /\ UNCHANGED <<tabVars, mapVars, taskVars, seenVars>>

\* A job without a result is added again, with its new latestRunTime.
ReAddJob(s) ==
  LET c == chain[s] IN
  /\ At(s, "readd")
  /\ AddJob(s, c.tab, c.job, c.lr)
  /\ UNCHANGED <<disk, tabVars, mapVars, taskVars, seenVars>>

-----------------------------------------------------------------------------
(* The cluster and the clock.                                              *)

FinishTask(j) ==
  /\ task[j] = "running"
  /\ \/ /\ task' = [task EXCEPT ![j] = "done"]
        /\ inTime' = inTime \cup ({j} \ overdue)
     \/ /\ j \in OpenJobs
        /\ task' = [task EXCEPT ![j] = "unacked"]
        /\ UNCHANGED inTime
  /\ UNCHANGED <<disk, tabVars, mapVars, chain, overdue, seenVars>>

\* createTime is set by addJob: the hour does not pass before that.
PassDeadline(j) ==
  /\ task[j] # "none" /\ j \notin overdue
  /\ \A s \in Slots : At(s, "starting") => chain[s].job # j
  /\ overdue' = overdue \cup {j}
  /\ UNCHANGED <<disk, tabVars, mapVars, chain, task, inTime, seenVars>>

-----------------------------------------------------------------------------
\* One step of the code of a chain, which no other task of the tab delays.
Continue(s) ==
  \/ StoreJob(s) \/ ArmFirstRun(s) \/ LoopJob(s)
  \/ TimeOutJob(s) \/ DeleteStaledJob(s)
  \/ EndRun(s) \/ DeleteRunJob(s) \/ ReAddJob(s)

\* An answer reaches the tab.
Receive(s) == SubmitJob(s) \/ Deliver(s)

Next ==
  \/ \E t \in Tabs, s \in Slots : OpenTab(t, s)
  \/ \E t \in Tabs : JobHandlerRegister(t) \/ CloseTab(t)
  \/ \E t \in Tabs, j \in Jobs, s \in Slots :
       StartOperation(t, j, s) \/ FireTimer(t, j, s) \/ FireFirstRun(t, j, s)
  \/ \E s \in Slots : Continue(s) \/ Answer(s) \/ Receive(s)
  \/ \E j \in Jobs : FinishTask(j) \/ PassDeadline(j)

Spec == Init /\ [][Next]_vars

\* What the browser, the server and the clock guarantee.  A tab runs a task to
\* its end.  Timers and answers have to wait for the tab's current task again
\* and again, and the browser takes them in order: strong fairness.  Nothing
\* makes a user open a tab, start an operation or leave the page, nothing makes
\* a task finish, and nothing makes the request of JobHandlerRegister succeed.
Fairness ==
  /\ \A s \in Slots : WF_vars(Answer(s)) /\ SF_vars(Receive(s))
  /\ \A t \in Tabs :
       /\ WF_vars(\E s \in Slots : chain[s].tab = t /\ Continue(s))
       /\ \A j \in Jobs : SF_vars(\E s \in Slots : FireTimer(t, j, s))
       /\ \A j \in FirstRun : SF_vars(\E s \in Slots : FireFirstRun(t, j, s))
  /\ \A j \in Jobs : WF_vars(PassDeadline(j))

FairSpec == Spec /\ Fairness

-----------------------------------------------------------------------------
(* Properties.                                                             *)

TypeOK ==
  /\ disk \in [Stores -> Lists]
  /\ page \in [Tabs -> {"closed", "loaded", "registered"}]
  /\ loads \in [Tabs -> 0 .. MaxLoads]
  /\ running \in [Tabs -> SUBSET Jobs]
  /\ armed \in [Tabs -> SUBSET Jobs]
  /\ first \in [Tabs -> SUBSET Jobs]
  /\ chain \in [Slots -> Chains]
  /\ task \in [Jobs -> {"none", "running", "done", "unacked"}]
  /\ overdue \in SUBSET Jobs
  /\ inTime \in SUBSET Jobs
  /\ reports \in [Jobs -> 0 .. MaxOutcomes]
  /\ timeouts \in [Jobs -> 0 .. MaxOutcomes]

Outcomes(j) == reports[j] + timeouts[j]
Polls(s, t, j) ==
  chain[s].tab = t /\ chain[s].job = j /\ chain[s].pc \in {"fetch", "replied", "answered"}
Watched(t, j) == j \in armed[t] \/ \E s \in Slots : Polls(s, t, j)
Starting(j) == \E s \in Slots : chain[s].job = j /\ At(s, "starting")

\* runningJobMap covers the pending interval timers, so that deleteJob, which
\* finds the timer to clear in the map, leaves no timer of the job behind.
ArmedTracked == \A t \in Tabs : armed[t] \subseteq running[t]

\* In one tab, a job without a first-run timer is polled by one request at a
\* time: its timer is armed again only after the answer was handled.
OnePoll ==
  \A t \in Tabs, j \in Jobs \ FirstRun : \A x, y \in Slots :
    Polls(x, t, j) /\ Polls(y, t, j) => x = y /\ j \notin armed[t]

\* Whenever the code of a tab that has not been reloaded has come to rest, the
\* stored list and the timers agree: a job that was added after the registration
\* has had a toast or is stored, and each job of the list has a timer or a
\* request under way.  (One that was added before is under the default key, where
\* no timer finds it.)
StoredIsWatched ==
  \A t \in Tabs, j \in Jobs :
    Registered(t) /\ loads[t] = 1 /\ Quiescent(t) =>
      /\ task[j] # "none" /\ ~ Starting(j) /\ j \notin EarlyJobs =>
           Outcomes(j) > 0 \/ disk["user"][j] # "absent"
      /\ disk["user"][j] # "absent" => Watched(t, j)

\* In one tab, loopJob removes a staled job in the same task that made it so:
\* at rest no record of the list is staled.
NoStaledAtRest ==
  \A t \in Tabs : Quiescent(t) => \A j \in Jobs : GetAll(t)[j] # "late"

\* No timeout toast for a job whose task had a result within its hour: the
\* run that finds the hour gone still asks for the result before it gives up.
HonestTimeout == \A j \in Jobs : timeouts[j] > 0 => j \notin inTime

\* Once the tab stays open, each stored job ends with a toast: with its result,
\* or, after its hour, with the timeout ("once the time goes beyond the timeout
\* a timeout error toast will show", interface.ts).
JobsEnd ==
  \A t \in Tabs : <>[]Registered(t) =>
    \A j \in Jobs : (\E k \in Stores : disk[k][j] # "absent") ~> (Outcomes(j) > 0)

Watch == INSTANCE JobWatch

\* One tab, however often it is reloaded, keeps the promise of JobWatch: no
\* operation gets a second toast, or a third one if it has a first-run timer,
\* which starts a second run of the job, nor a wrong result or an undeserved
\* timeout.
Promise == Watch!Spec

-----------------------------------------------------------------------------
(* Why HonestTimeout holds in all tabs together, if no request fails and no *)
(* task is remote: wherever the code carries "late" to a timeout toast, the *)
(* task had no result when the hour ended.                                  *)

Late(j) == j \in overdue /\ j \notin inTime

\* What a chain of a registered tab knows.
HonestChain(c) ==
  /\ \A j \in Jobs : c.snap[j] = "late" => Late(j)
  /\ c.lr = "late" /\ c.pc \in {"set", "added", "readd"} => Late(c.job)
  /\ c.lr = "late" /\ c.pc = "fetch" => c.job \in overdue
  /\ c.lr = "late" /\ c.pc \in {"replied", "answered", "runDelete"} /\ ~ c.fin =>
       Late(c.job)
  /\ c.pc = "stale" => Late(c.job)

\* Which tab and job a chain has.
WellFormedChain(c) ==
  /\ c.pc = "idle" => c = Idle
  /\ c.pc # "idle" => c.tab \in Tabs
  /\ c.pc \notin {"idle", "loop"} => c.job \in Jobs
  /\ c.pc = "starting" => c.lr = "none" /\ c.snap = EmptyList
  /\ c.pc \in {"fetch", "replied"} => Registered(c.tab)

HonestInv ==
  /\ \A j \in Jobs : timeouts[j] > 0 => Late(j)
  /\ \A j \in Jobs : disk["user"][j] = "late" => Late(j)
  /\ \A j \in Jobs : j \in inTime => task[j] = "done"
  /\ \A s \in Slots : WellFormedChain(chain[s])
  /\ \A s \in Slots : Registered(chain[s].tab) => HonestChain(chain[s])

=============================================================================
