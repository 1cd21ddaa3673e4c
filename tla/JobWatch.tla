------------------------------ MODULE JobWatch ------------------------------
(***************************************************************************)
(* What the job scheduler promises its user, without tabs, timers, stored  *)
(* lists or requests: a submitted operation ends with at most one toast,   *)
(* or two if it has a first-run timer.  A toast is the result of the       *)
(* operation, if the operation has one, or the timeout, if the hour has    *)
(* passed and no result came within it.                                    *)
(***************************************************************************)
EXTENDS Naturals

CONSTANTS Jobs, OpenJobs, FirstRun

VARIABLES
  task,      \* per job: its task in the cluster
  overdue,   \* the jobs whose hour has passed
  inTime,    \* the jobs whose task had a result before that
  reports,   \* per job: result toasts shown
  timeouts   \* per job: timeout toasts shown

vars == <<task, overdue, inTime, reports, timeouts>>

Toasts(j) == reports[j] + timeouts[j]
Allowed(j) == IF j \in FirstRun THEN 2 ELSE 1

Init ==
  /\ task = [j \in Jobs |-> "none"]
  /\ overdue = {} /\ inTime = {}
  /\ reports = [j \in Jobs |-> 0] /\ timeouts = [j \in Jobs |-> 0]

Submit(j) ==
  /\ task[j] = "none"
  /\ task' = [task EXCEPT ![j] = "running"]
  /\ UNCHANGED <<overdue, inTime, reports, timeouts>>

\* The task ends: with a result, or, for an open, without its shards.
End(j) ==
  /\ task[j] = "running"
  /\ \/ /\ task' = [task EXCEPT ![j] = "done"]
        /\ inTime' = inTime \cup ({j} \ overdue)
     \/ /\ j \in OpenJobs
        /\ task' = [task EXCEPT ![j] = "unacked"]
        /\ UNCHANGED inTime
  /\ UNCHANGED <<overdue, reports, timeouts>>

Expire(j) ==
  /\ task[j] # "none"
  /\ overdue' = overdue \cup {j}
  /\ UNCHANGED <<task, inTime, reports, timeouts>>

ShowResult(j) ==
  /\ Toasts(j) < Allowed(j) /\ task[j] = "done"
  /\ reports' = [reports EXCEPT ![j] = @ + 1]
  /\ UNCHANGED <<task, overdue, inTime, timeouts>>

ShowTimeout(j) ==
  /\ Toasts(j) < Allowed(j) /\ j \in overdue \ inTime
  /\ timeouts' = [timeouts EXCEPT ![j] = @ + 1]
  /\ UNCHANGED <<task, overdue, inTime, reports>>

Next ==
  \E j \in Jobs :
    Submit(j) \/ End(j) \/ Expire(j) \/ ShowResult(j) \/ ShowTimeout(j)

Spec == Init /\ [][Next]_vars

=============================================================================
