--------------------------- MODULE SchedulerOneTab ---------------------------
(***************************************************************************)
(* Why one tab, however often it is loaded, keeps what JobScheduler states *)
(* of it.  The parts of the argument, each of which the steps preserve     *)
(* given the parts before it:                                              *)
(*   OneAtATime   the code of the tab runs alone and reads what is stored; *)
(*   JobsApart    what is known of a job before it is stored, while it is  *)
(*                handled and in which of the two lists it is;             *)
(*   PollsTracked the map knows the polls of the jobs of the list;         *)
(*   ToastsLeft   each toast uses up something that only addJob creates;   *)
(*   Followed     since the first load no job was lost.                    *)
(***************************************************************************)
EXTENDS JobScheduler

OneTab == \A t, u \in Tabs : t = u

Active(s) == chain[s].pc \notin Waiting
Handles(s, j, pcs) == chain[s].job = j /\ chain[s].pc \in pcs
Stored(k, j) == disk[k][j] # "absent"

-----------------------------------------------------------------------------
\* The chains that will see to a staled record, which is why none is left when
\* the tab is at rest.
Removes(s, j) ==
  \/ At(s, "loop")
  \/ Handles(s, j, {"added", "stale", "staleDelete"}) /\ chain[s].lr = "late"

AtRestWhenClosed(t) ==
  page[t] = "closed" =>
    /\ running[t] = {} /\ armed[t] = {} /\ first[t] = {}
    /\ \A s \in Slots : At(s, "idle")

OneActive == \A x, y \in Slots : Active(x) /\ Active(y) => x = y

\* No other tab writes between the getAll and the setItem of one storage call.
SnapshotsCurrent(t) ==
  \A s \in Slots : chain[s].pc \in {"set", "loop", "runDelete", "staleDelete"} =>
    chain[s].snap = GetAll(t)

OneLateRecord(t) ==
  /\ \A k \in Stores, j \in Jobs : disk[k][j] = "late" =>
       k = Store(t) /\ \E s \in Slots : Removes(s, j)
  /\ \A i, j \in Jobs : GetAll(t)[i] = "late" /\ GetAll(t)[j] = "late" => i = j
  /\ \A s \in Slots : At(s, "stale") =>
       chain[s].lr = "late" /\ GetAll(t)[chain[s].job] = "late"
  /\ \A s \in Slots : At(s, "staleDelete") => chain[s].lr = "late"

OneAtATime(t) ==
  /\ \A s \in Slots : WellFormedChain(chain[s])
  /\ AtRestWhenClosed(t)
  /\ OneActive
  /\ SnapshotsCurrent(t)
  /\ OneLateRecord(t)

-----------------------------------------------------------------------------
\* Before its operation was accepted, nothing knows of a job; while the page
\* asks for the cluster's name, nothing but that chain does.
NotBorn(t) ==
  \A j \in Jobs : task[j] = "none" =>
    /\ \A k \in Stores : ~ Stored(k, j)
    /\ j \notin running[t] /\ j \notin first[t] /\ Outcomes(j) = 0
    /\ \A s \in Slots : chain[s].pc \notin {"idle", "loop"} => chain[s].job # j
Newborn(t) ==
  \A s \in Slots : At(s, "starting") =>
    /\ \A k \in Stores : ~ Stored(k, chain[s].job)
    /\ chain[s].job \notin running[t] /\ chain[s].job \notin first[t]
    /\ \A x \in Slots : chain[x].job = chain[s].job /\ chain[x].pc \notin {"idle", "loop"}
                          => x = s

\* A job that is being stored or removed is not in the map, nor is the staled
\* job that loopJob is about to remove.
HandledUntracked(t) ==
  \A s \in Slots :
    /\ chain[s].pc \in {"set", "added", "stale", "staleDelete", "runDelete", "readd"} =>
         chain[s].job \notin running[t]
    /\ At(s, "loop") => \A j \in running[t] : GetAll(t)[j] # "late"

RunTimesKnown ==
  \A s \in Slots :
    /\ chain[s].pc \in {"set", "added"} => chain[s].lr # "absent"
    /\ chain[s].pc \in {"fetch", "replied", "answered", "runDelete", "readd"} =>
         chain[s].lr \in {"fresh", "late"}
    /\ chain[s].fin => chain[s].pc \in {"replied", "answered", "runDelete"}
                         /\ task[chain[s].job] = "done"

\* A job is in one of the two lists, and only the tab that uses this list
\* handles it.
OneList(t) ==
  \A j \in Jobs :
    /\ ~ (Stored("default", j) /\ Stored("user", j))
    /\ page[t] = "loaded" /\ j \in running[t] => ~ Stored("user", j)
    /\ (\E k \in Stores \ {Store(t)} : Stored(k, j)) =>
         \A s \in Slots : chain[s].pc \notin {"idle", "loop"} => chain[s].job # j

JobsApart(t) ==
  /\ NotBorn(t) /\ Newborn(t)
  /\ HandledUntracked(t) /\ RunTimesKnown /\ OneList(t)
  /\ first[t] \subseteq FirstRun

-----------------------------------------------------------------------------
PollsTracked(t) ==
  /\ armed[t] \subseteq running[t]
  /\ \A j \in running[t] : Stored(Store(t), j) => Watched(t, j)
  /\ \A j \in Jobs \ FirstRun, x, y \in Slots :
       Polls(x, t, j) /\ Polls(y, t, j) => x = y
  /\ \A j \in Jobs \ FirstRun, x \in Slots :
       Polls(x, t, j) => j \in running[t] /\ j \notin armed[t]

-----------------------------------------------------------------------------
(* The toasts of a job.  Each unspent poll, the first-run timer (or the    *)
(* addJob that will set it), and the record (or the timer made from it, or *)
(* the chain that will store it) can end in one toast.                     *)

Unspent(s, j) ==
  Handles(s, j, {"fetch", "replied", "answered"})
    /\ (At(s, "answered") => ~ chain[s].fin)

FirstRunLeft(t, j) ==
  \/ j \in first[t]
  \/ j \in FirstRun /\ \E s \in Slots :
       Handles(s, j, {"starting", "set", "added"}) /\ chain[s].lr = "none"

\* The chain that is about to remove the record after the toast.
Removing(j) ==
  \E s \in Slots : \/ Handles(s, j, {"staleDelete"})
                   \/ Handles(s, j, {"runDelete"}) /\ chain[s].fin
RecordLeft(t, j) ==
  \/ j \in armed[t]
  \/ \E s \in Slots : \/ Handles(s, j, {"starting", "set", "readd"})
                      \/ Handles(s, j, {"runDelete"}) /\ ~ chain[s].fin
  \/ \E k \in Stores : Stored(k, j) /\ (k = Store(t) => j \notin running[t] /\ ~ Removing(j))

FirstToken == <<"first", NoJob>>
RecordToken == <<"record", NoJob>>
Tokens(t, j) ==
  {<<"poll", s>> : s \in {x \in Slots : Unspent(x, j)}}
    \cup {x \in {FirstToken} : FirstRunLeft(t, j)}
    \cup {x \in {RecordToken} : RecordLeft(t, j)}

\* S has no more than n members, for n up to 2.
AtMost(S, n) ==
  /\ n = 0 => S = {}
  /\ n = 1 => \A a, b \in S : a = b
  /\ n = 2 => \A a, b, c \in S : a = b \/ a = c \/ b = c

ToastsLeft(t) ==
  \A j \in Jobs :
    /\ Outcomes(j) <= Watch!Allowed(j)
    /\ AtMost(Tokens(t, j), Watch!Allowed(j) - Outcomes(j))

-----------------------------------------------------------------------------
(* What is true until the page is loaded a second time.                    *)

Announced ==
  \A s \in Slots :
    /\ chain[s].fin /\ chain[s].pc \in {"answered", "runDelete"} => reports[chain[s].job] > 0
    /\ At(s, "staleDelete") /\ Registered(chain[s].tab) => timeouts[chain[s].job] > 0

BeforeRegistration(t) ==
  /\ loads[t] = 0 => page[t] = "closed" /\ \A j \in Jobs : task[j] = "none"
  /\ loads[t] = 1 /\ page[t] = "loaded" => \A j \in Jobs : ~ Stored("user", j)
  /\ loads[t] = 1 /\ page[t] = "loaded" => \A j \in Jobs \ EarlyJobs : task[j] = "none"

NoneLost(t) ==
  loads[t] = 1 /\ Registered(t) =>
    \A j \in Jobs :
      /\ j \notin EarlyJobs /\ task[j] # "none" =>
           \/ Outcomes(j) > 0 \/ Stored("user", j)
           \/ \E s \in Slots : Handles(s, j, {"starting", "set", "readd"})
      /\ Stored("user", j) =>
           \/ Watched(t, j)
           \/ \E s \in Slots : \/ chain[s].pc \in {"added", "loop"}
                               \/ Handles(s, j, {"runDelete", "stale", "staleDelete"})

Followed(t) == Announced /\ BeforeRegistration(t) /\ NoneLost(t)

-----------------------------------------------------------------------------
OneTabInv ==
  \A t \in Tabs :
    OneAtATime(t) /\ JobsApart(t) /\ PollsTracked(t) /\ ToastsLeft(t) /\ Followed(t)

=============================================================================
