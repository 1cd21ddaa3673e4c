------------------------- MODULE JobSchedulerProofs -------------------------
(***************************************************************************)
(* Theorems about JobScheduler, for every number of tabs, jobs and slots,  *)
(* and about one tab, however often it is loaded: the parts of OneTabInv   *)
(* one after the other, and what follows from them.                        *)
(***************************************************************************)
EXTENDS SchedulerOneTab, TLAPS

USE DEF SaveToDisk, Become, At, ForgetJob, tabVars, mapVars, taskVars, seenVars

LEMMA ChainType ==
  ASSUME NEW pc \in PCs, NEW t \in Tabs \cup {NoTab}, NEW j \in Jobs \cup {NoJob},
         NEW lr \in RunTimes, NEW fin \in BOOLEAN, NEW snap \in Lists
  PROVE  Chain(pc, t, j, lr, fin, snap) \in Chains
  BY DEF Chain, Chains

LEMMA IdleType == Idle \in Chains /\ EmptyList \in Lists
  BY DEF Idle, Chains, PCs, RunTimes, EmptyList, Lists

\* Slots keep chains when one of them is replaced by a chain.
LEMMA BecomeType ==
  ASSUME chain \in [Slots -> Chains], NEW s \in Slots, NEW c \in Chains, Become(s, c)
  PROVE  chain' \in [Slots -> Chains]
  OBVIOUS

LEMMA GetAllType ==
  ASSUME TypeOK, NEW t \in Tabs \cup {NoTab}
  PROVE  GetAll(t) \in Lists
  BY DEF TypeOK, Stores, GetAll, Store

LEMMA SmallTypes ==
  ASSUME JobSchedulerAssumption
  PROVE  /\ \A t : Store(t) \in Stores
         /\ \A j : Now(j) \in RunTimes
         /\ \A n \in 0 .. MaxOutcomes : Count(n) \in 0 .. MaxOutcomes
  BY DEF JobSchedulerAssumption, Store, Stores, Now, RunTimes, Count

LEMMA ChainFields ==
  ASSUME TypeOK, NEW s \in Slots
  PROVE  /\ chain[s] \in Chains
         /\ chain[s].pc \in PCs
         /\ chain[s].tab \in Tabs \cup {NoTab}
         /\ chain[s].job \in Jobs \cup {NoJob}
         /\ chain[s].lr \in RunTimes
         /\ chain[s].fin \in BOOLEAN
         /\ chain[s].snap \in Lists
  BY DEF TypeOK, Chains

-----------------------------------------------------------------------------
LEMMA TypeInit == JobSchedulerAssumption /\ Init => TypeOK
  BY IdleType DEF JobSchedulerAssumption, Init, TypeOK, Stores

LEMMA TypeNext == JobSchedulerAssumption /\ TypeOK /\ [Next]_vars => TypeOK'
<1> SUFFICES ASSUME JobSchedulerAssumption, TypeOK, [Next]_vars
             PROVE  TypeOK'
  OBVIOUS
<1> USE DEF TypeOK
<1>1. ASSUME NEW t \in Tabs, NEW s \in Slots, OpenTab(t, s)
      PROVE  TypeOK'
  <2>1. Chain("loop", t, NoJob, "absent", FALSE, GetAll(t)) \in Chains
    BY ChainType, GetAllType DEF PCs, RunTimes
  <2>2. chain' \in [Slots -> Chains]
    BY <1>1, <2>1, BecomeType DEF OpenTab
  <2>3. loads' \in [Tabs -> 0 .. MaxLoads]
    BY <1>1 DEF OpenTab, JobSchedulerAssumption
  <2>4. QED
    BY <1>1, <2>2, <2>3 DEF OpenTab
<1>2. ASSUME NEW t \in Tabs, JobHandlerRegister(t)
      PROVE  TypeOK'
  BY <1>2 DEF JobHandlerRegister
<1>3. ASSUME NEW t \in Tabs, CloseTab(t)
      PROVE  TypeOK'
  BY <1>3, IdleType DEF CloseTab
<1>4. ASSUME NEW t \in Tabs, NEW j \in Jobs, NEW s \in Slots, StartOperation(t, j, s)
      PROVE  TypeOK'
  <2>1. Chain("starting", t, j, "none", FALSE, EmptyList) \in Chains
    BY ChainType, IdleType DEF PCs, RunTimes
  <2>2. chain' \in [Slots -> Chains]
    BY <1>4, <2>1, BecomeType DEF StartOperation
  <2>3. QED
    BY <1>4, <2>2 DEF StartOperation
<1>5. ASSUME NEW t \in Tabs, NEW j \in Jobs, NEW s \in Slots, RunJob(s, t, j)
      PROVE  chain' \in [Slots -> Chains]
  <2>1. \A pc \in {"fetch", "answered"} : Chain(pc, t, j, Now(j), FALSE, EmptyList) \in Chains
    BY ChainType, IdleType, SmallTypes DEF PCs
  <2>2. QED
    BY <1>5, <2>1, BecomeType DEF RunJob
<1>6. ASSUME NEW t \in Tabs, NEW j \in Jobs, NEW s \in Slots, FireTimer(t, j, s)
      PROVE  TypeOK'
  BY <1>5, <1>6 DEF FireTimer
<1>7. ASSUME NEW t \in Tabs, NEW j \in Jobs, NEW s \in Slots, FireFirstRun(t, j, s)
      PROVE  TypeOK'
  BY <1>5, <1>7 DEF FireFirstRun
<1>8. ASSUME NEW s \in Slots, AddJob(s, chain[s].tab, chain[s].job, chain[s].lr)
      PROVE  chain' \in [Slots -> Chains]
  <2>1. Chain("set", chain[s].tab, chain[s].job, chain[s].lr, FALSE,
              GetAll(chain[s].tab)) \in Chains
    BY ChainType, ChainFields, GetAllType DEF PCs
  <2>2. QED
    BY <1>8, <2>1, IdleType, BecomeType DEF AddJob
<1>9. ASSUME NEW s \in Slots, SubmitJob(s) \/ ReAddJob(s)
      PROVE  TypeOK'
  BY <1>8, <1>9 DEF SubmitJob, ReAddJob
<1>10. ASSUME NEW s \in Slots, StoreJob(s)
       PROVE  TypeOK'
  <2>1. Chain("added", chain[s].tab, chain[s].job, chain[s].lr, FALSE, EmptyList) \in Chains
    BY ChainType, ChainFields, IdleType DEF PCs
  <2>2. chain' \in [Slots -> Chains]
    BY <1>10, <2>1, BecomeType DEF StoreJob
  <2>3. [chain[s].snap EXCEPT ![chain[s].job] = chain[s].lr] \in Lists
    BY ChainFields DEF Lists
  <2>4. QED
    BY <1>10, <2>2, <2>3, SmallTypes DEF StoreJob
<1>11. ASSUME NEW s \in Slots, ArmFirstRun(s)
       PROVE  TypeOK'
  <2>1. Chain("loop", chain[s].tab, NoJob, "absent", FALSE, GetAll(chain[s].tab)) \in Chains
    BY ChainType, ChainFields, GetAllType DEF PCs, RunTimes
  <2>2. chain' \in [Slots -> Chains]
    BY <1>11, <2>1, BecomeType DEF ArmFirstRun
  <2>3. first' \in [Tabs -> SUBSET Jobs]
    BY <1>11 DEF ArmFirstRun, FirstRunTimer, JobSchedulerAssumption
  <2>4. QED
    BY <1>11, <2>2, <2>3 DEF ArmFirstRun
<1>12. ASSUME NEW s \in Slots, LoopJob(s)
       PROVE  TypeOK'
  <2> DEFINE staled == {j \in Jobs : IsStaled(chain[s].snap[j])}
  <2>1. PICK serves \in [Slots -> staled \cup {NoJob}] :
          chain' = [x \in Slots |->
            IF serves[x] # NoJob
            THEN Chain("stale", chain[s].tab, serves[x],
                       GetAll(chain[s].tab)[serves[x]], FALSE, EmptyList)
            ELSE IF x = s THEN Idle ELSE chain[x]]
    BY <1>12 DEF LoopJob
  <2>2. \A x \in Slots : serves[x] # NoJob =>
          Chain("stale", chain[s].tab, serves[x],
                GetAll(chain[s].tab)[serves[x]], FALSE, EmptyList) \in Chains
    <3> SUFFICES ASSUME NEW x \in Slots, serves[x] # NoJob
                 PROVE  Chain("stale", chain[s].tab, serves[x],
                              GetAll(chain[s].tab)[serves[x]], FALSE, EmptyList) \in Chains
      OBVIOUS
    <3>1. serves[x] \in Jobs
      OBVIOUS
    <3>2. GetAll(chain[s].tab)[serves[x]] \in RunTimes
      BY <3>1, ChainFields, GetAllType DEF Lists
    <3>3. QED
      BY <3>1, <3>2, ChainType, ChainFields, IdleType DEF PCs
  <2>3. chain' \in [Slots -> Chains]
    BY <2>1, <2>2, IdleType
  <2>4. QED
    BY <1>12, <2>3 DEF LoopJob, Untracked
<1>13. ASSUME NEW s \in Slots, TimeOutJob(s)
       PROVE  TypeOK'
  <2>1. Chain("staleDelete", chain[s].tab, chain[s].job, chain[s].lr, FALSE,
              GetAll(chain[s].tab)) \in Chains
    BY ChainType, ChainFields, GetAllType DEF PCs
  <2>2. chain' \in [Slots -> Chains]
    BY <1>13, <2>1, BecomeType DEF TimeOutJob
  <2>3. timeouts' \in [Jobs -> 0 .. MaxOutcomes]
    BY <1>13, SmallTypes DEF TimeOutJob
  <2>4. QED
    BY <1>13, <2>2, <2>3 DEF TimeOutJob
<1>14. ASSUME NEW s \in Slots, DeleteStaledJob(s) \/ DeleteRunJob(s)
       PROVE  TypeOK'
  <2>1. [chain[s].snap EXCEPT ![chain[s].job] = "absent"] \in Lists
    BY ChainFields DEF Lists, RunTimes
  <2>2. Chain("readd", chain[s].tab, chain[s].job, chain[s].lr, FALSE, EmptyList) \in Chains
    BY ChainType, ChainFields, IdleType DEF PCs
  <2>3. chain' \in [Slots -> Chains]
    BY <1>14, <2>2, IdleType, BecomeType DEF DeleteStaledJob, DeleteRunJob
  <2>4. disk' \in [Stores -> Lists]
    BY <1>14, <2>1, SmallTypes DEF DeleteStaledJob, DeleteRunJob
  <2>5. QED
    BY <1>14, <2>3, <2>4 DEF DeleteStaledJob, DeleteRunJob
<1>15. ASSUME NEW s \in Slots, Answer(s)
       PROVE  TypeOK'
  <2>1. \A fin \in BOOLEAN :
          Chain("replied", chain[s].tab, chain[s].job, chain[s].lr, fin, EmptyList) \in Chains
    BY ChainType, ChainFields, IdleType DEF PCs
  <2>2. Finished(chain[s].job) \in BOOLEAN
    BY DEF Finished
  <2>3. chain' \in [Slots -> Chains]
    BY <1>15, <2>1, <2>2, BecomeType DEF Answer
  <2>4. QED
    BY <1>15, <2>3 DEF Answer
<1>16. ASSUME NEW s \in Slots, Deliver(s)
       PROVE  TypeOK'
  <2>1. [chain[s] EXCEPT !.pc = "answered"] \in Chains
    BY ChainFields DEF Chains, PCs
  <2>2. chain' \in [Slots -> Chains]
    BY <1>16, <2>1, BecomeType DEF Deliver
  <2>3. reports' \in [Jobs -> 0 .. MaxOutcomes]
    BY <1>16, SmallTypes DEF Deliver
  <2>4. QED
    BY <1>16, <2>2, <2>3 DEF Deliver
<1>17. ASSUME NEW s \in Slots, EndRun(s)
       PROVE  TypeOK'
  <2>1. [chain[s] EXCEPT !.pc = "runDelete", !.snap = GetAll(chain[s].tab)] \in Chains
    BY ChainFields, GetAllType DEF Chains, PCs
  <2>2. chain' \in [Slots -> Chains]
    BY <1>17, <2>1, BecomeType DEF EndRun
  <2>3. QED
    BY <1>17, <2>2 DEF EndRun
<1>18. ASSUME NEW j \in Jobs, FinishTask(j) \/ PassDeadline(j)
       PROVE  TypeOK'
  BY <1>18 DEF FinishTask, PassDeadline
<1>19. CASE UNCHANGED vars
  BY <1>19 DEF vars
<1>20. QED
  BY <1>1, <1>2, <1>3, <1>4, <1>6, <1>7, <1>9, <1>10, <1>11, <1>12, <1>13, <1>14,
     <1>15, <1>16, <1>17, <1>18, <1>19 DEF Next, Continue, Receive

\* Every variable keeps its type.
THEOREM TypeCorrect == Spec => []TypeOK
  BY TypeInit, TypeNext, JobSchedulerAssumption, PTL DEF Spec

-----------------------------------------------------------------------------
LEMMA TrackedNext == TypeOK /\ ArmedTracked /\ [Next]_vars => ArmedTracked'
<1> SUFFICES ASSUME TypeOK, ArmedTracked, [Next]_vars
             PROVE  ArmedTracked'
  OBVIOUS
<1> USE DEF ArmedTracked
<1>0. running \in [Tabs -> SUBSET Jobs] /\ armed \in [Tabs -> SUBSET Jobs]
  BY DEF TypeOK
<1>1. ASSUME UNCHANGED <<running, armed>>
      PROVE  ArmedTracked'
  BY <1>1
<1>2. ASSUME NEW t \in Tabs, CloseTab(t)
      PROVE  ArmedTracked'
  BY <1>0, <1>2 DEF CloseTab
<1>3. ASSUME NEW t \in Tabs, NEW j \in Jobs, NEW s \in Slots, FireTimer(t, j, s)
      PROVE  ArmedTracked'
  BY <1>0, <1>3 DEF FireTimer
<1>4. ASSUME NEW s \in Slots, LoopJob(s)
      PROVE  ArmedTracked'
  BY <1>0, <1>4 DEF LoopJob, Untracked
<1>5. ASSUME NEW s \in Slots, TimeOutJob(s) \/ EndRun(s)
      PROVE  ArmedTracked'
  <2>1. \E u, j : ForgetJob(u, j)
    BY <1>5 DEF TimeOutJob, EndRun
  <2>2. QED
    BY <1>0, <2>1
<1>6. ASSUME NEW s \in Slots, Continue(s), ~ LoopJob(s), ~ TimeOutJob(s), ~ EndRun(s)
      PROVE  UNCHANGED <<running, armed>>
  BY <1>6 DEF Continue, StoreJob, ArmFirstRun, DeleteStaledJob, DeleteRunJob, ReAddJob
<1>7. ASSUME NEW s \in Slots, Answer(s) \/ Receive(s)
      PROVE  UNCHANGED <<running, armed>>
  BY <1>7 DEF Answer, Receive, SubmitJob, Deliver
<1>8. ASSUME NEW t \in Tabs, NEW j \in Jobs, NEW s \in Slots,
             StartOperation(t, j, s) \/ FireFirstRun(t, j, s)
      PROVE  UNCHANGED <<running, armed>>
  BY <1>8 DEF StartOperation, FireFirstRun
<1>9. CASE UNCHANGED vars
  BY <1>9 DEF vars
<1>10. ASSUME NEW t \in Tabs, NEW s \in Slots, OpenTab(t, s)
       PROVE  UNCHANGED <<running, armed>>
  BY <1>10 DEF OpenTab
<1>11. ASSUME NEW t \in Tabs, JobHandlerRegister(t)
       PROVE  UNCHANGED <<running, armed>>
  BY <1>11 DEF JobHandlerRegister
<1>12. ASSUME NEW j \in Jobs, FinishTask(j) \/ PassDeadline(j)
       PROVE  UNCHANGED <<running, armed>>
  BY <1>12 DEF FinishTask, PassDeadline
<1>13. QED
  BY <1>1, <1>2, <1>3, <1>4, <1>5, <1>6, <1>7, <1>8, <1>9, <1>10, <1>11, <1>12
  DEF Next, Continue

\* In every tab the map of running jobs covers the pending timers.
THEOREM TimersTracked == Spec => []ArmedTracked
<1>1. Init => ArmedTracked
  BY DEF Init, ArmedTracked
<1>2. QED
  BY <1>1, TypeCorrect, TrackedNext, PTL DEF Spec

-----------------------------------------------------------------------------
(* HonestTimeout.  Most steps replace one chain and leave the tabs and the *)
(* clock alone: for those it is enough to look at the new chain, the list  *)
(* that is stored and the toasts.                                          *)

LEMMA ChainStep ==
  ASSUME TypeOK, HonestInv, NEW s \in Slots, NEW c,
         chain' = [chain EXCEPT ![s] = c],
         UNCHANGED <<page, overdue, inTime>>,
         \A j \in Jobs : task[j] = "done" => task'[j] = "done",
         WellFormedChain(c), Registered(c.tab) => HonestChain(c),
         \A j \in Jobs : disk'["user"][j] = "late" => Late(j),
         \A j \in Jobs : timeouts'[j] > 0 => Late(j)
  PROVE  HonestInv'
<1>1. \A x \in Slots : chain'[x] = c \/ chain'[x] = chain[x]
  BY DEF TypeOK
<1>2. \A x \in Slots : /\ WellFormedChain(chain'[x])
                       /\ Registered(chain'[x].tab) => HonestChain(chain'[x])
  BY <1>1 DEF HonestInv
<1>3. (\A x \in Slots : /\ WellFormedChain(chain[x])
                        /\ Registered(chain[x].tab) => HonestChain(chain[x]))'
  BY <1>2 DEF WellFormedChain, HonestChain, Registered, Late
<1>4. QED
  BY <1>3 DEF HonestInv, Late

\* A list that a chain may write keeps the stored list honest.
LEMMA SaveStep ==
  ASSUME TypeOK, HonestInv, NEW t, NEW list \in Lists, SaveToDisk(t, list),
         Registered(t) => \A j \in Jobs : list[j] = "late" => Late(j)
  PROVE  \A j \in Jobs : disk'["user"][j] = "late" => Late(j)
  BY DEF TypeOK, HonestInv, Store, Stores

\* What a registered tab reads is honest.
LEMMA ReadHonest ==
  ASSUME HonestInv, NEW t, Registered(t)
  PROVE  \A j \in Jobs : GetAll(t)[j] = "late" => Late(j)
  BY DEF HonestInv, GetAll, Store

LEMMA EmptyHonest == \A j \in Jobs : EmptyList[j] # "late"
  BY DEF EmptyList

LEMMA IdleHonest ==
  ASSUME JobSchedulerAssumption
  PROVE  WellFormedChain(Idle) /\ ~ Registered(Idle.tab)
  BY DEF JobSchedulerAssumption, WellFormedChain, Idle, Registered

LEMMA HonestNext ==
  ASSUME JobSchedulerAssumption, ~ Lossy, Remote = {}, TypeOK, HonestInv, [Next]_vars
  PROVE  HonestInv'
<1>1. \A j \in Jobs : disk["user"][j] = "late" => Late(j)
  BY DEF HonestInv
<1>2. \A j \in Jobs : timeouts[j] > 0 => Late(j)
  BY DEF HonestInv
<1>3. \A s \in Slots : /\ WellFormedChain(chain[s])
                       /\ Registered(chain[s].tab) => HonestChain(chain[s])
  BY DEF HonestInv
<1>4. ASSUME NEW t \in Tabs, NEW s \in Slots, OpenTab(t, s)
      PROVE  HonestInv'
  <2> DEFINE c == Chain("loop", t, NoJob, "absent", FALSE, GetAll(t))
  <2>2. ~ Registered(t)' /\ ~ Registered(t)
    BY <1>4 DEF OpenTab, Registered, TypeOK
  <2>3. \A x \in Slots : chain'[x] = c \/ chain'[x] = chain[x]
    BY <1>4 DEF OpenTab, TypeOK
  <2>4. \A u \in Tabs \cup {NoTab} : Registered(u)' <=> Registered(u)
    BY <1>4, <2>2 DEF OpenTab, Registered, TypeOK
  <2>5. c.tab = t
    BY DEF Chain
  <2>6. UNCHANGED <<overdue, inTime, task, disk, timeouts>>
    BY <1>4 DEF OpenTab
  <2>7. \A x \in Slots : WellFormedChain(chain[x])'
    <3> SUFFICES ASSUME NEW x \in Slots
                 PROVE  WellFormedChain(chain[x])'
      OBVIOUS
    <3>1. CASE chain'[x] = c
      BY <3>1 DEF WellFormedChain, Chain
    <3>2. CASE chain'[x] = chain[x]
      BY <1>3, <2>4, <3>2, ChainFields DEF WellFormedChain
    <3>3. QED
      BY <2>3, <3>1, <3>2
  <2>8. \A x \in Slots : Registered(chain[x].tab)' => HonestChain(chain[x])'
    <3> SUFFICES ASSUME NEW x \in Slots, Registered(chain[x].tab)'
                 PROVE  HonestChain(chain[x])'
      OBVIOUS
    <3>1. chain'[x] = chain[x] /\ chain[x].tab \in Tabs \cup {NoTab}
      BY <2>2, <2>3, <2>5, ChainFields
    <3>2. Registered(chain[x].tab)
      BY <2>4, <3>1
    <3>3. QED
      BY <1>3, <2>6, <3>1, <3>2 DEF HonestChain, Late
  <2>9. QED
    BY <1>1, <1>2, <2>6, <2>7, <2>8 DEF HonestInv, Late
<1>5. ASSUME NEW t \in Tabs, JobHandlerRegister(t)
      PROVE  HonestInv'
  <2>1. UNCHANGED <<overdue, inTime, task, disk, timeouts, chain>>
    BY <1>5 DEF JobHandlerRegister
  <2>2. \A u : u # t => (Registered(u)' <=> Registered(u))
    BY <1>5 DEF JobHandlerRegister, Registered, TypeOK
  <2>3. Registered(t)' /\ ~ Registered(t)
    BY <1>5 DEF JobHandlerRegister, Registered, TypeOK
  <2>4. \A x \in Slots : WellFormedChain(chain[x])'
    BY <1>3, <2>1, <2>2, <2>3 DEF WellFormedChain
  <2>5. \A x \in Slots : chain[x].tab = t => chain[x].pc = "starting"
    BY <1>3, <1>5, <2>3 DEF JobHandlerRegister, Quiescent, Waiting, WellFormedChain,
       Idle, JobSchedulerAssumption
  <2>6. \A x \in Slots : Registered(chain[x].tab)' => HonestChain(chain[x])'
    <3> SUFFICES ASSUME NEW x \in Slots, Registered(chain[x].tab)'
                 PROVE  HonestChain(chain[x])'
      OBVIOUS
    <3>1. CASE chain[x].tab = t
      BY <1>3, <2>1, <2>5, <3>1, EmptyHonest DEF WellFormedChain, HonestChain
    <3>2. CASE chain[x].tab # t
      BY <1>3, <2>1, <2>2, <3>2 DEF HonestChain, Late
    <3>3. QED
      BY <3>1, <3>2
  <2>7. QED
    BY <1>1, <1>2, <1>3, <2>1, <2>4, <2>6 DEF HonestInv, Late
<1>6. ASSUME NEW t \in Tabs, CloseTab(t)
      PROVE  HonestInv'
  <2>1. UNCHANGED <<overdue, inTime, task, disk, timeouts>>
    BY <1>6 DEF CloseTab
  <2>2. \A u : Registered(u)' <=> u # t /\ Registered(u)
    BY <1>6 DEF CloseTab, Registered, TypeOK
  <2>3. \A x \in Slots : chain'[x] = IF chain[x].tab = t THEN Idle ELSE chain[x]
    BY <1>6 DEF CloseTab
  <2>4. \A x \in Slots : WellFormedChain(chain[x])'
    <3> SUFFICES ASSUME NEW x \in Slots
                 PROVE  WellFormedChain(chain[x])'
      OBVIOUS
    <3>1. CASE chain[x].tab = t
      <4>1. chain'[x] = Idle /\ Idle.pc = "idle"
        BY <2>3, <3>1 DEF Idle
      <4>2. QED
        BY <4>1 DEF WellFormedChain
    <3>2. CASE chain[x].tab # t
      BY <1>3, <2>2, <2>3, <3>2 DEF WellFormedChain
    <3>3. QED
      BY <3>1, <3>2
  <2>5. \A x \in Slots : Registered(chain[x].tab)' => HonestChain(chain[x])'
    <3> SUFFICES ASSUME NEW x \in Slots, Registered(chain[x].tab)'
                 PROVE  HonestChain(chain[x])'
      OBVIOUS
    <3>1. chain'[x] = chain[x] /\ Registered(chain[x].tab)
      BY <2>2, <2>3, IdleHonest
    <3>2. QED
      BY <1>3, <2>1, <3>1 DEF HonestChain, Late
  <2>6. QED
    BY <1>1, <1>2, <1>3, <2>1, <2>4, <2>5 DEF HonestInv, Late
<1>7. ASSUME NEW t \in Tabs, NEW j \in Jobs, NEW s \in Slots, StartOperation(t, j, s)
      PROVE  HonestInv'
  <2> DEFINE c == Chain("starting", t, j, "none", FALSE, EmptyList)
  <2>1. WellFormedChain(c) /\ HonestChain(c)
    BY EmptyHonest DEF WellFormedChain, HonestChain, Chain
  <2>2. \A k \in Jobs : task[k] = "done" => task'[k] = "done"
    BY <1>7 DEF StartOperation, TypeOK
  <2>3. QED
    BY <1>1, <1>2, <1>7, <2>1, <2>2, ChainStep DEF StartOperation
<1>8. ASSUME NEW t \in Tabs, NEW j \in Jobs, NEW s \in Slots, RunJob(s, t, j),
             UNCHANGED <<page, overdue, inTime, task, disk, timeouts>>
      PROVE  HonestInv'
  <2> DEFINE c == Chain(IF Registered(t) THEN "fetch" ELSE "answered",
                        t, j, Now(j), FALSE, EmptyList)
  <2>1. CASE chain' = [chain EXCEPT ![s] = c]
    <3>1. WellFormedChain(c)
      BY DEF WellFormedChain, Chain
    <3>2. Registered(c.tab) => HonestChain(c)
      BY EmptyHonest DEF HonestChain, Chain, Now
    <3>3. QED
      BY <1>1, <1>2, <1>8, <2>1, <3>1, <3>2, ChainStep
  <2>2. CASE UNCHANGED chain
    BY <1>1, <1>2, <1>3, <1>8, <2>2
    DEF HonestInv, Late, WellFormedChain, HonestChain, Registered
  <2>3. QED
    BY <1>8, <2>1, <2>2 DEF RunJob
<1>9. ASSUME NEW t \in Tabs, NEW j \in Jobs, NEW s \in Slots,
             FireTimer(t, j, s) \/ FireFirstRun(t, j, s)
      PROVE  HonestInv'
  BY <1>8, <1>9 DEF FireTimer, FireFirstRun
<1>10. ASSUME NEW s \in Slots, SubmitJob(s) \/ ReAddJob(s)
       PROVE  HonestInv'
  <2> DEFINE t == chain[s].tab  j == chain[s].job  lr == chain[s].lr
             c == Chain("set", t, j, lr, FALSE, GetAll(t))
  <2>1. UNCHANGED <<page, overdue, inTime, task, disk, timeouts>>
    BY <1>10 DEF SubmitJob, ReAddJob
  <2>2. t \in Tabs /\ j \in Jobs /\ (Registered(t) /\ lr = "late" => Late(j))
    BY <1>3, <1>10 DEF SubmitJob, ReAddJob, WellFormedChain, HonestChain
  <2>3. WellFormedChain(c)
    BY <2>2 DEF WellFormedChain, Chain
  <2>4. Registered(c.tab) => HonestChain(c)
    BY <2>2, ReadHonest DEF HonestChain, Chain
  <2>5. \E d \in {c, Idle} : chain' = [chain EXCEPT ![s] = d]
    BY <1>10 DEF SubmitJob, ReAddJob, AddJob
  <2>6. QED
    BY <1>1, <1>2, <2>1, <2>3, <2>4, <2>5, IdleHonest, ChainStep
<1>11. ASSUME NEW s \in Slots, StoreJob(s)
       PROVE  HonestInv'
  <2> DEFINE t == chain[s].tab  j == chain[s].job  lr == chain[s].lr
             c == Chain("added", t, j, lr, FALSE, EmptyList)
             list == [chain[s].snap EXCEPT ![j] = lr]
  <2>1. UNCHANGED <<page, overdue, inTime, task, timeouts>>
    BY <1>11 DEF StoreJob
  <2>2. /\ t \in Tabs /\ j \in Jobs /\ (Registered(t) /\ lr = "late" => Late(j))
        /\ Registered(t) => \A k \in Jobs : chain[s].snap[k] = "late" => Late(k)
    BY <1>3, <1>11 DEF StoreJob, WellFormedChain, HonestChain
  <2>3. WellFormedChain(c) /\ (Registered(c.tab) => HonestChain(c))
    BY <2>2, EmptyHonest DEF WellFormedChain, HonestChain, Chain
  <2>4. list \in Lists /\ (Registered(t) => \A k \in Jobs : list[k] = "late" => Late(k))
    BY <2>2, ChainFields DEF Lists
  <2>5. \A k \in Jobs : disk'["user"][k] = "late" => Late(k)
    BY <1>11, <2>4, SaveStep DEF StoreJob
  <2>6. QED
    BY <1>2, <1>11, <2>1, <2>3, <2>5, ChainStep DEF StoreJob
<1>12. ASSUME NEW s \in Slots, ArmFirstRun(s)
       PROVE  HonestInv'
  <2> DEFINE t == chain[s].tab
             c == Chain("loop", t, NoJob, "absent", FALSE, GetAll(t))
  <2>1. UNCHANGED <<page, overdue, inTime, task, disk, timeouts>>
    BY <1>12 DEF ArmFirstRun
  <2>2. t \in Tabs
    BY <1>3, <1>12 DEF ArmFirstRun, WellFormedChain
  <2>3. WellFormedChain(c) /\ (Registered(c.tab) => HonestChain(c))
    BY <2>2, ReadHonest DEF WellFormedChain, HonestChain, Chain
  <2>4. QED
    BY <1>1, <1>2, <1>12, <2>1, <2>3, ChainStep DEF ArmFirstRun
<1>13. ASSUME NEW s \in Slots, LoopJob(s)
       PROVE  HonestInv'
  <2> DEFINE t == chain[s].tab
             staled == {j \in Jobs : IsStaled(chain[s].snap[j])}
             removal(j) == Chain("stale", t, j, GetAll(t)[j], FALSE, EmptyList)
  <2>1. UNCHANGED <<page, overdue, inTime, task, disk, timeouts>>
    BY <1>13 DEF LoopJob
  <2>2. /\ t \in Tabs
        /\ Registered(t) => \A j \in staled : Late(j)
    BY <1>3, <1>13 DEF LoopJob, WellFormedChain, HonestChain, IsStaled
  <2>3. PICK serves \in [Slots -> staled \cup {NoJob}] :
          chain' = [x \in Slots |-> IF serves[x] # NoJob THEN removal(serves[x])
                                    ELSE IF x = s THEN Idle ELSE chain[x]]
    BY <1>13 DEF LoopJob
  <2>4. \A x \in Slots : \/ chain'[x] = chain[x] \/ chain'[x] = Idle
                         \/ \E j \in staled : chain'[x] = removal(j)
    BY <2>3
  <2>5. \A j \in staled : /\ WellFormedChain(removal(j))
                          /\ Registered(removal(j).tab) => HonestChain(removal(j))
    BY <2>2, EmptyHonest DEF WellFormedChain, HonestChain, Chain
  <2>6. \A x \in Slots : /\ WellFormedChain(chain'[x])
                         /\ Registered(chain'[x].tab) => HonestChain(chain'[x])
    BY <1>3, <2>4, <2>5, IdleHonest
  <2>7. (\A x \in Slots : /\ WellFormedChain(chain[x])
                          /\ Registered(chain[x].tab) => HonestChain(chain[x]))'
    BY <2>1, <2>6 DEF WellFormedChain, HonestChain, Registered, Late
  <2>8. QED
    BY <2>1, <2>7 DEF HonestInv, Late
<1>14. ASSUME NEW s \in Slots, TimeOutJob(s)
       PROVE  HonestInv'
  <2> DEFINE t == chain[s].tab  j == chain[s].job
             c == Chain("staleDelete", t, j, chain[s].lr, FALSE, GetAll(t))
  <2>1. UNCHANGED <<page, overdue, inTime, task, disk>>
    BY <1>14 DEF TimeOutJob
  <2>2. t \in Tabs /\ j \in Jobs /\ (Registered(t) => Late(j))
    BY <1>3, <1>14 DEF TimeOutJob, WellFormedChain, HonestChain
  <2>3. WellFormedChain(c) /\ (Registered(c.tab) => HonestChain(c))
    BY <2>2, ReadHonest DEF WellFormedChain, HonestChain, Chain
  <2>4. \A k \in Jobs : timeouts'[k] > 0 => Late(k)
    BY <1>2, <1>14, <2>2 DEF TimeOutJob, TypeOK
  <2>5. QED
    BY <1>1, <1>14, <2>1, <2>3, <2>4, ChainStep DEF TimeOutJob
<1>15. ASSUME NEW s \in Slots, DeleteStaledJob(s) \/ DeleteRunJob(s)
       PROVE  HonestInv'
  <2> DEFINE t == chain[s].tab  j == chain[s].job  lr == chain[s].lr
             c == Chain("readd", t, j, lr, FALSE, EmptyList)
             list == [chain[s].snap EXCEPT ![j] = "absent"]
  <2>1. UNCHANGED <<page, overdue, inTime, task, timeouts>>
    BY <1>15 DEF DeleteStaledJob, DeleteRunJob
  <2>2. /\ t \in Tabs /\ j \in Jobs
        /\ Registered(t) => \A k \in Jobs : chain[s].snap[k] = "late" => Late(k)
    BY <1>3, <1>15 DEF DeleteStaledJob, DeleteRunJob, WellFormedChain, HonestChain
  <2>3. list \in Lists /\ (Registered(t) => \A k \in Jobs : list[k] = "late" => Late(k))
    BY <2>2, ChainFields DEF Lists, RunTimes
  <2>4. \A k \in Jobs : disk'["user"][k] = "late" => Late(k)
    BY <1>15, <2>3, SaveStep DEF DeleteStaledJob, DeleteRunJob
  <2>5. CASE chain' = [chain EXCEPT ![s] = Idle]
    BY <1>2, <2>1, <2>4, <2>5, IdleHonest, ChainStep
  <2>6. CASE At(s, "runDelete") /\ ~ chain[s].fin /\ chain' = [chain EXCEPT ![s] = c]
    <3>1. Registered(t) /\ lr = "late" => Late(j)
      BY <1>3, <2>6 DEF HonestChain
    <3>2. WellFormedChain(c) /\ (Registered(c.tab) => HonestChain(c))
      BY <2>2, <3>1, EmptyHonest DEF WellFormedChain, HonestChain, Chain
    <3>3. QED
      BY <1>2, <2>1, <2>4, <2>6, <3>2, ChainStep
  <2>7. QED
    BY <1>15, <2>5, <2>6 DEF DeleteStaledJob, DeleteRunJob
<1>16. ASSUME NEW s \in Slots, Answer(s)
       PROVE  HonestInv'
  <2> DEFINE t == chain[s].tab  j == chain[s].job  lr == chain[s].lr
             c == Chain("replied", t, j, lr, Finished(j), EmptyList)
  <2>1. UNCHANGED <<page, overdue, inTime, task, disk, timeouts>>
    BY <1>16 DEF Answer
  <2>2. t \in Tabs /\ j \in Jobs /\ Registered(t) /\ (lr = "late" => j \in overdue)
    BY <1>3, <1>16 DEF Answer, WellFormedChain, HonestChain
  <2>3. ~ Finished(j) => j \notin inTime
    BY <2>2 DEF Finished, HonestInv
  <2>4. WellFormedChain(c) /\ (Registered(c.tab) => HonestChain(c))
    BY <2>2, <2>3, EmptyHonest DEF WellFormedChain, HonestChain, Chain, Late
  <2>5. chain' = [chain EXCEPT ![s] = c]
    BY <1>16 DEF Answer
  <2>6. QED
    BY <1>1, <1>2, <2>1, <2>4, <2>5, ChainStep
<1>17. ASSUME NEW s \in Slots, Deliver(s) \/ EndRun(s)
       PROVE  HonestInv'
  <2> DEFINE t == chain[s].tab
             a == [chain[s] EXCEPT !.pc = "answered"]
             d == [chain[s] EXCEPT !.pc = "runDelete", !.snap = GetAll(t)]
  <2>1. UNCHANGED <<page, overdue, inTime, task, disk, timeouts>>
    BY <1>17 DEF Deliver, EndRun
  <2>2. chain[s] \in Chains
    BY ChainFields
  <2>3. CASE Deliver(s)
    <3>1. WellFormedChain(a) /\ (Registered(a.tab) => HonestChain(a))
      BY <1>3, <2>2, <2>3 DEF Deliver, WellFormedChain, HonestChain, Chains
    <3>2. QED
      BY <1>1, <1>2, <2>1, <2>3, <3>1, ChainStep DEF Deliver
  <2>4. CASE EndRun(s)
    <3>1. WellFormedChain(d) /\ (Registered(d.tab) => HonestChain(d))
      BY <1>3, <2>2, <2>4, ReadHonest DEF EndRun, WellFormedChain, HonestChain, Chains
    <3>2. QED
      BY <1>1, <1>2, <2>1, <2>4, <3>1, ChainStep DEF EndRun
  <2>5. QED
    BY <1>17, <2>3, <2>4
<1>18. ASSUME NEW j \in Jobs, FinishTask(j) \/ PassDeadline(j)
       PROVE  HonestInv'
  <2>1. UNCHANGED <<page, disk, chain, timeouts>>
    BY <1>18 DEF FinishTask, PassDeadline
  <2>2. \A k \in Jobs : /\ Late(k) => Late(k)'
                        /\ k \in overdue => k \in overdue'
                        /\ k \in inTime' => task'[k] = "done"
    BY <1>18 DEF FinishTask, PassDeadline, Late, TypeOK, HonestInv
  <2>3. \A x \in Slots : WellFormedChain(chain[x])'
    BY <1>3, <2>1 DEF WellFormedChain, Registered
  <2>4. \A x \in Slots : Registered(chain[x].tab)' => HonestChain(chain[x])'
    BY <1>3, <2>1, <2>2, ChainFields DEF HonestChain, Registered, WellFormedChain
  <2>5. QED
    BY <1>1, <1>2, <2>1, <2>2, <2>3, <2>4 DEF HonestInv
<1>19. CASE UNCHANGED vars
  BY <1>19 DEF vars, HonestInv, Late, WellFormedChain, HonestChain, Registered
<1>20. QED
  BY <1>4, <1>5, <1>6, <1>7, <1>9, <1>10, <1>11, <1>12, <1>13, <1>14, <1>15, <1>16,
     <1>17, <1>18, <1>19 DEF Next, Continue, Receive

\* If no request fails and every task runs in the local cluster, then in all tabs
\* together no job whose task had its result in time gets the timeout toast.
THEOREM TimeoutsHonest ==
  ASSUME ~ Lossy, Remote = {}
  PROVE  Spec => []HonestTimeout
<1>1. Init => HonestInv
  BY EmptyHonest, IdleHonest, JobSchedulerAssumption DEF Init, HonestInv, Stores
<1>2. HonestInv => HonestTimeout
  BY DEF HonestInv, HonestTimeout, Late
<1>3. TypeOK /\ HonestInv /\ [Next]_vars => HonestInv'
  BY HonestNext, JobSchedulerAssumption
<1>4. QED
  BY <1>1, <1>2, <1>3, TypeCorrect, PTL DEF Spec

-----------------------------------------------------------------------------
(* The code of the tab runs alone.  Which tab a chain has follows from its *)
(* form, and no other chain is active, so that what a step read is still   *)
(* stored when it writes.                                                  *)

\* The tab of every activity is the one tab.
LEMMA TheTab ==
  ASSUME OneTab, NEW t \in Tabs, \A s \in Slots : WellFormedChain(chain[s])
  PROVE  /\ \A u \in Tabs : u = t
         /\ \A s \in Slots : ~ At(s, "idle") => chain[s].tab = t
         /\ Quiescent(t) <=> \A s \in Slots : ~ Active(s)
<1>1. \A u \in Tabs : u = t
  BY DEF OneTab
<1>2. \A s \in Slots : ~ At(s, "idle") => chain[s].tab = t
  BY <1>1 DEF WellFormedChain
<1>3. QED
  BY <1>1, <1>2 DEF Quiescent, Active, Waiting

LEMMA StoreOfTab ==
  ASSUME TypeOK, NEW t \in Tabs
  PROVE  /\ Store(t) \in Stores
         /\ Registered(t) <=> page[t] = "registered"
  BY DEF Store, Stores, Registered

\* One chain goes on and the lists stay as they are.
LEMMA SequentialStep ==
  ASSUME OneTab, TypeOK, NEW t \in Tabs, OneAtATime(t), NEW s \in Slots, NEW c,
         chain' = [chain EXCEPT ![s] = c], UNCHANGED <<page, disk>>, page[t] # "closed",
         WellFormedChain(c),
         c.pc \notin Waiting => Active(s) \/ Quiescent(t),
         c.pc \in {"set", "loop", "runDelete", "staleDelete"} => c.snap = GetAll(t),
         c.pc # "stale", c.pc = "staleDelete" => c.lr = "late",
         \A j \in Jobs : Removes(s, j) =>
           \/ GetAll(t)[j] # "late" \/ c.pc = "loop"
           \/ c.job = j /\ c.pc = "staleDelete" /\ c.lr = "late"
  PROVE  OneAtATime(t)'
<1>1. chain'[s] = c /\ \A x \in Slots : x # s => chain'[x] = chain[x]
  BY DEF TypeOK
<1>2. Store(t)' = Store(t) /\ GetAll(t)' = GetAll(t) /\ \A u : Registered(u)' = Registered(u)
  BY DEF Store, Registered, GetAll
<1>3. \A x \in Slots : WellFormedChain(chain[x])'
  BY <1>1, <1>2 DEF OneAtATime, WellFormedChain
<1>4. AtRestWhenClosed(t)'
  BY DEF AtRestWhenClosed
<1>5. OneActive'
  BY <1>1, TheTab DEF OneAtATime, OneActive, Active
<1>6. SnapshotsCurrent(t)'
  BY <1>1, <1>2 DEF OneAtATime, SnapshotsCurrent
<1>7. ASSUME NEW k \in Stores, NEW j \in Jobs, disk'[k][j] = "late"
      PROVE  k = Store(t)' /\ \E x \in Slots : Removes(x, j)'
  <2>1. k = Store(t) /\ \E x \in Slots : Removes(x, j)
    BY <1>7 DEF OneAtATime, OneLateRecord
  <2>2. QED
    BY <1>1, <1>2, <1>7, <2>1 DEF Removes, Handles, GetAll
<1>8. OneLateRecord(t)'
  BY <1>1, <1>2, <1>7 DEF OneAtATime, OneLateRecord
<1>9. QED
  BY <1>3, <1>4, <1>5, <1>6, <1>8 DEF OneAtATime

\* At rest no record is staled, and nothing but waiting chains are there.
LEMMA RestIsClean ==
  ASSUME OneTab, NEW t \in Tabs, OneAtATime(t), Quiescent(t)
  PROVE  /\ \A k \in Stores, j \in Jobs : disk[k][j] # "late"
         /\ \A s \in Slots : ~ Active(s) /\ chain[s].pc \in Waiting
<1>1. \A s \in Slots : ~ Active(s) /\ chain[s].pc \in Waiting
  BY TheTab DEF OneAtATime, Active
<1>2. \A s \in Slots, j \in Jobs : ~ Removes(s, j)
  BY <1>1 DEF Removes, Handles, Waiting
<1>3. QED
  BY <1>1, <1>2 DEF OneAtATime, OneLateRecord

LEMMA SequentialSame ==
  ASSUME NEW t \in Tabs, OneAtATime(t), UNCHANGED <<page, disk, chain>>,
         page[t] # "closed" \/ UNCHANGED <<running, armed, first>>
  PROVE  OneAtATime(t)'
<1>1. Store(t)' = Store(t) /\ GetAll(t)' = GetAll(t) /\ \A u : Registered(u)' = Registered(u)
  BY DEF Store, Registered, GetAll
<1>2. \A s \in Slots : WellFormedChain(chain[s])'
  BY <1>1 DEF OneAtATime, WellFormedChain
<1>3. AtRestWhenClosed(t)'
  BY DEF OneAtATime, AtRestWhenClosed
<1>4. OneActive' /\ SnapshotsCurrent(t)'
  BY <1>1 DEF OneAtATime, OneActive, Active, SnapshotsCurrent
<1>5. OneLateRecord(t)'
  BY <1>1 DEF OneAtATime, OneLateRecord, Removes, Handles
<1>6. QED
  BY <1>2, <1>3, <1>4, <1>5 DEF OneAtATime

LEMMA RunJobSequential ==
  ASSUME OneTab, TypeOK, NEW t \in Tabs, OneAtATime(t), NEW u \in Tabs, NEW j \in Jobs,
         NEW s \in Slots, page[u] # "closed", Quiescent(u), At(s, "idle"), RunJob(s, u, j),
         UNCHANGED <<page, disk>>
  PROVE  OneAtATime(t)'
<1> DEFINE c == Chain(IF Registered(t) THEN "fetch" ELSE "answered",
                      t, j, Now(j), FALSE, EmptyList)
<1>1. u = t
  BY DEF OneTab
<1>2. CASE chain' = [chain EXCEPT ![s] = c]
  <2>1. WellFormedChain(c)
    BY DEF WellFormedChain, Chain
  <2>2. c.pc \in {"fetch", "answered"}
    BY DEF Chain
  <2>3. \A k \in Jobs : ~ Removes(s, k)
    BY DEF Removes, Handles
  <2>4. QED
    BY <1>1, <1>2, <2>1, <2>2, <2>3, SequentialStep
<1>3. CASE UNCHANGED chain
  BY <1>1, <1>3, SequentialSame
<1>4. QED
  BY <1>1, <1>2, <1>3 DEF RunJob

\* The chain that stores or removes a record is the only one under way.
LEMMA SequentialWrite ==
  ASSUME OneTab, TypeOK, NEW t \in Tabs, OneAtATime(t), NEW s \in Slots, NEW j \in Jobs,
         NEW lr \in RunTimes, NEW c, Active(s), chain[s].tab = t, UNCHANGED page,
         chain[s].snap = GetAll(t),
         disk' = [disk EXCEPT ![Store(t)] = [chain[s].snap EXCEPT ![j] = lr]],
         chain' = [chain EXCEPT ![s] = c], WellFormedChain(c),
         \A k \in Jobs : GetAll(t)[k] = "late" => k = j,
         lr = "late" => c.pc = "added" /\ c.job = j /\ c.lr = lr,
         c.pc \in {"idle", "added", "readd"}
  PROVE  OneAtATime(t)'
<1>1. chain'[s] = c /\ \A x \in Slots : x # s => chain'[x] = chain[x] /\ ~ Active(x)
  BY DEF TypeOK, OneAtATime, OneActive
<1>2. Store(t)' = Store(t) /\ \A u : Registered(u)' = Registered(u)
  BY DEF Store, Registered
<1>3. /\ Store(t) \in Stores
      /\ GetAll(t)'[j] = lr
      /\ \A k \in Jobs : k # j => GetAll(t)'[k] = GetAll(t)[k] /\ GetAll(t)[k] # "late"
      /\ \A k \in Stores : k # Store(t) => disk'[k] = disk[k]
  <2>1. Store(t) \in Stores /\ GetAll(t) \in Lists
    BY GetAllType, StoreOfTab
  <2>2. disk'[Store(t)] = [chain[s].snap EXCEPT ![j] = lr]
    BY <2>1 DEF TypeOK
  <2>3. QED
    BY <1>2, <2>1, <2>2 DEF TypeOK, GetAll, Lists
<1>4. \A x \in Slots : WellFormedChain(chain[x])'
  BY <1>1, <1>2 DEF OneAtATime, WellFormedChain
<1>5. AtRestWhenClosed(t)'
  <2>1. page[t] # "closed"
    BY DEF OneAtATime, AtRestWhenClosed, Active, Waiting
  <2>2. QED
    BY <2>1 DEF AtRestWhenClosed
<1>6. OneActive'
  BY <1>1 DEF OneActive, Active
<1>7. SnapshotsCurrent(t)'
  BY <1>1 DEF SnapshotsCurrent, Active, Waiting
<1>8. ASSUME NEW k \in Stores, NEW i \in Jobs, disk'[k][i] = "late"
      PROVE  k = Store(t)' /\ \E x \in Slots : Removes(x, i)'
  <2>1. k = Store(t)
    BY <1>3, <1>8 DEF OneAtATime, OneLateRecord
  <2>2. i = j /\ lr = "late"
    BY <1>2, <1>3, <1>8, <2>1 DEF GetAll
  <2>3. Removes(s, i)'
    BY <1>1, <2>2 DEF Removes, Handles
  <2>4. QED
    BY <1>2, <2>1, <2>3
<1>9. \A i, k \in Jobs : GetAll(t)'[i] = "late" /\ GetAll(t)'[k] = "late" => i = k
  BY <1>3
<1>10. \A x \in Slots : chain'[x].pc \notin {"stale", "staleDelete"}
  BY <1>1 DEF Active, Waiting
<1>11. OneLateRecord(t)'
  BY <1>8, <1>9, <1>10 DEF OneLateRecord
<1>12. QED
  BY <1>4, <1>5, <1>6, <1>7, <1>11 DEF OneAtATime

\* What loopJob does when no other activity is under way: a timer for each record
\* that is not staled, and the removal of the one that is.
LoopEffect(s, t) ==
  \/ /\ \A j \in Jobs : GetAll(t)[j] # "late"
     /\ chain' = [chain EXCEPT ![s] = Idle]
  \/ \E j \in Jobs, x \in Slots :
       /\ GetAll(t)[j] = "late" /\ (x = s \/ At(x, "idle"))
       /\ chain' = [y \in Slots |->
            IF y = x THEN Chain("stale", t, j, "late", FALSE, EmptyList)
            ELSE IF y = s THEN Idle ELSE chain[y]]

LEMMA LoopJobEffect ==
  ASSUME OneTab, JobSchedulerAssumption, TypeOK, NEW t \in Tabs, OneAtATime(t), NEW s \in Slots,
         LoopJob(s)
  PROVE  chain[s].tab = t /\ Active(s) /\ page[t] # "closed" /\ LoopEffect(s, t)
<1>1. chain[s].tab = t /\ Active(s) /\ page[t] # "closed" /\ chain[s].snap = GetAll(t)
  <2>1. At(s, "loop") /\ ~ At(s, "idle")
    BY DEF LoopJob
  <2>2. chain[s].tab = t
    BY <2>1, TheTab DEF OneAtATime
  <2>3. Active(s) /\ chain[s].snap = GetAll(t)
    BY <2>1 DEF Active, Waiting, OneAtATime, SnapshotsCurrent
  <2>4. page[t] # "closed"
    BY <2>1 DEF OneAtATime, AtRestWhenClosed
  <2>5. QED
    BY <2>2, <2>3, <2>4
<1> DEFINE staled == {j \in Jobs : IsStaled(GetAll(t)[j])}
<1>2. PICK serves \in [Slots -> staled \cup {NoJob}] :
        /\ \A x \in Slots : serves[x] # NoJob => x = s \/ At(x, "idle")
        /\ \A j \in staled : \E x \in Slots : serves[x] = j
        /\ \A x, y \in Slots : serves[x] = serves[y] /\ serves[x] # NoJob => x = y
        /\ chain' = [x \in Slots |->
             IF serves[x] # NoJob
             THEN Chain("stale", t, serves[x], GetAll(t)[serves[x]], FALSE, EmptyList)
             ELSE IF x = s THEN Idle ELSE chain[x]]
  <2> DEFINE read == {j \in Jobs : IsStaled(chain[s].snap[j])}
             Serves(f, list, u) ==
               /\ \A x \in Slots : f[x] # NoJob => x = s \/ At(x, "idle")
               /\ \A j \in list : \E x \in Slots : f[x] = j
               /\ \A x, y \in Slots : f[x] = f[y] /\ f[x] # NoJob => x = y
               /\ chain' = [x \in Slots |->
                    IF f[x] # NoJob
                    THEN Chain("stale", u, f[x], GetAll(u)[f[x]], FALSE, EmptyList)
                    ELSE IF x = s THEN Idle ELSE chain[x]]
  <2>1. \E f \in [Slots -> read \cup {NoJob}] : Serves(f, read, chain[s].tab)
    BY DEF LoopJob
  <2>2. read = staled /\ chain[s].tab = t
    BY <1>1
  <2> HIDE DEF Serves, staled, read
  <2>3. \E f \in [Slots -> staled \cup {NoJob}] : Serves(f, staled, t)
    BY <2>1, <2>2
  <2>4. QED
    BY <2>3 DEF Serves, staled
<1>3. CASE staled = {}
  <2>1. \A x \in Slots : serves[x] = NoJob
    BY <1>2, <1>3
  <2>2. chain' = [x \in Slots |-> IF x = s THEN Idle ELSE chain[x]]
    BY <1>2, <2>1
  <2>3. chain' = [chain EXCEPT ![s] = Idle]
    BY <2>2 DEF TypeOK
  <2>4. \A j \in Jobs : GetAll(t)[j] # "late"
    BY <1>3 DEF IsStaled
  <2>5. QED
    BY <1>1, <2>3, <2>4 DEF LoopEffect
<1>4. CASE staled # {}
  <2>1. PICK j \in Jobs : GetAll(t)[j] = "late"
    BY <1>4 DEF IsStaled
  <2>2. staled = {j} /\ j # NoJob
    BY <2>1 DEF OneAtATime, OneLateRecord, IsStaled, JobSchedulerAssumption
  <2>3. PICK x \in Slots : serves[x] = j
    BY <1>2, <2>2
  <2>4. \A y \in Slots : (serves[y] # NoJob => serves[y] = j) /\ (serves[y] # NoJob <=> y = x)
    <3> SUFFICES ASSUME NEW y \in Slots
                 PROVE  (serves[y] # NoJob => serves[y] = j) /\ (serves[y] # NoJob <=> y = x)
      OBVIOUS
    <3>1. serves[y] # NoJob => serves[y] = j
      BY <1>2, <2>2
    <3>2. serves[y] # NoJob => y = x
      BY <1>2, <2>2, <2>3, <3>1
    <3>3. QED
      BY <2>2, <2>3, <3>1, <3>2
  <2>5. x = s \/ At(x, "idle")
    BY <1>2, <2>2, <2>3
  <2>6. chain' = [y \in Slots |->
            IF y = x THEN Chain("stale", t, j, "late", FALSE, EmptyList)
            ELSE IF y = s THEN Idle ELSE chain[y]]
    <3>1. \A y \in Slots :
            (IF serves[y] # NoJob
             THEN Chain("stale", t, serves[y], GetAll(t)[serves[y]], FALSE, EmptyList)
             ELSE IF y = s THEN Idle ELSE chain[y])
            = (IF y = x THEN Chain("stale", t, j, "late", FALSE, EmptyList)
               ELSE IF y = s THEN Idle ELSE chain[y])
      BY <2>1, <2>4
    <3>2. QED
      BY <1>2, <3>1
  <2>7. QED
    BY <1>1, <2>1, <2>5, <2>6 DEF LoopEffect
<1>5. QED
  BY <1>3, <1>4

LEMMA LoopSequential ==
  ASSUME OneTab, JobSchedulerAssumption, TypeOK, NEW t \in Tabs, OneAtATime(t), NEW s \in Slots,
         LoopJob(s)
  PROVE  OneAtATime(t)'
<1>1. chain[s].tab = t /\ Active(s) /\ page[t] # "closed" /\ LoopEffect(s, t)
  BY LoopJobEffect
<1>2. UNCHANGED <<disk, page>>
  BY DEF LoopJob
<1>3. Store(t)' = Store(t) /\ GetAll(t)' = GetAll(t) /\ \A u : Registered(u)' = Registered(u)
  BY <1>2 DEF Store, Registered, GetAll
<1>4. \A x \in Slots : x # s => ~ Active(x)
  BY <1>1 DEF OneAtATime, OneActive
<1>5. WellFormedChain(Idle)' /\ Idle.pc = "idle"
  BY DEF WellFormedChain, Idle
<1>6. CASE (\A j \in Jobs : GetAll(t)[j] # "late") /\ chain' = [chain EXCEPT ![s] = Idle]
  <2>1. Store(t) \in Stores /\ \A k \in Stores, j \in Jobs : disk[k][j] # "late"
    BY <1>6, StoreOfTab DEF OneAtATime, OneLateRecord, GetAll
  <2>2. WellFormedChain(Idle)
    BY <1>5 DEF WellFormedChain
  <2>3. \A j \in Jobs : Removes(s, j) => GetAll(t)[j] # "late"
    BY <1>6
  <2>4. QED
    BY <1>1, <1>2, <1>5, <1>6, <2>2, <2>3, SequentialStep DEF Waiting
<1>7. ASSUME NEW j \in Jobs, NEW x \in Slots, GetAll(t)[j] = "late", x = s \/ At(x, "idle"),
             chain' = [y \in Slots |->
               IF y = x THEN Chain("stale", t, j, "late", FALSE, EmptyList)
               ELSE IF y = s THEN Idle ELSE chain[y]]
      PROVE  OneAtATime(t)'
  <2> DEFINE c == Chain("stale", t, j, "late", FALSE, EmptyList)
  <2>1. /\ chain'[x] = c
        /\ \A y \in Slots : y # x => chain'[y] = Idle \/ (chain'[y] = chain[y] /\ y # s)
    <3>1. \A y \in Slots : chain'[y] = IF y = x THEN c ELSE IF y = s THEN Idle ELSE chain[y]
      BY <1>7
    <3>2. QED
      BY <3>1
  <2>2. /\ c.pc = "stale" /\ c.job = j /\ c.lr = "late" /\ c.tab = t
        /\ WellFormedChain(c)'
    BY DEF Chain, WellFormedChain
  <2>3. \A y \in Slots : y # x => chain'[y].pc \in Waiting
    BY <1>4, <1>5, <2>1 DEF Active, Waiting
  <2>4. \A y \in Slots : WellFormedChain(chain[y])'
    <3> SUFFICES ASSUME NEW y \in Slots
                 PROVE  WellFormedChain(chain[y])'
      OBVIOUS
    <3>1. CASE y = x
      BY <2>1, <2>2, <3>1 DEF WellFormedChain
    <3>2. CASE chain'[y] = Idle
      BY <1>5, <3>2 DEF WellFormedChain
    <3>3. CASE chain'[y] = chain[y]
      BY <1>3, <3>3 DEF WellFormedChain, OneAtATime
    <3>4. QED
      BY <2>1, <3>1, <3>2, <3>3
  <2>5. AtRestWhenClosed(t)'
    BY <1>1, <1>2 DEF AtRestWhenClosed
  <2>6. OneActive'
    BY <2>3 DEF OneActive, Active
  <2>7. SnapshotsCurrent(t)'
    BY <2>1, <2>2, <2>3 DEF SnapshotsCurrent, Waiting
  <2>8. OneLateRecord(t)'
    <3>1. Removes(x, j)'
      BY <2>1, <2>2 DEF Removes, Handles
    <3>2. ASSUME NEW k \in Stores, NEW i \in Jobs, disk'[k][i] = "late"
          PROVE  k = Store(t)' /\ \E y \in Slots : Removes(y, i)'
      <4>1. k = Store(t) /\ GetAll(t)[i] = "late"
        BY <1>2, <3>2 DEF OneAtATime, OneLateRecord, GetAll
      <4>2. i = j
        BY <1>7, <4>1 DEF OneAtATime, OneLateRecord
      <4>3. QED
        BY <1>3, <3>1, <4>1, <4>2
    <3>3. \A i, k \in Jobs : GetAll(t)'[i] = "late" /\ GetAll(t)'[k] = "late" => i = k
      BY <1>3 DEF OneAtATime, OneLateRecord
    <3>4. \A y \in Slots : At(y, "stale")' => chain'[y].lr = "late" /\ GetAll(t)'[chain'[y].job] = "late"
      BY <1>3, <1>7, <2>1, <2>2, <2>3 DEF Waiting
    <3>5. \A y \in Slots : At(y, "staleDelete")' => chain'[y].lr = "late"
      BY <2>1, <2>2, <2>3 DEF Waiting
    <3>6. QED
      BY <3>2, <3>3, <3>4, <3>5 DEF OneLateRecord
  <2>9. QED
    BY <2>4, <2>5, <2>6, <2>7, <2>8 DEF OneAtATime
<1>8. QED
  BY <1>1, <1>6, <1>7 DEF LoopEffect

LEMMA OpenSequential ==
  ASSUME OneTab, TypeOK, NEW t \in Tabs, OneAtATime(t), NEW s \in Slots, OpenTab(t, s)
  PROVE  OneAtATime(t)'
<1> DEFINE c == Chain("loop", t, NoJob, "absent", FALSE, GetAll(t))
<1>1. /\ page[t] = "closed" /\ page'[t] = "loaded" /\ disk' = disk
      /\ chain' = [chain EXCEPT ![s] = c]
  BY DEF OpenTab, TypeOK
<1>2. \A x \in Slots : At(x, "idle")
  BY <1>1 DEF OneAtATime, AtRestWhenClosed
<1>3. Store(t)' = Store(t) /\ GetAll(t)' = GetAll(t)
  BY <1>1 DEF Store, Registered, GetAll
<1>4. c.pc = "loop" /\ c.snap = GetAll(t) /\ c.tab = t
  BY DEF Chain
<1>5. chain'[s] = c /\ \A x \in Slots : x # s => chain'[x] = chain[x] /\ At(x, "idle")
  BY <1>1, <1>2 DEF TypeOK
<1>6. \A k \in Stores, j \in Jobs : disk[k][j] # "late"
  <2>1. Quiescent(t)
    BY <1>2 DEF Quiescent, Waiting
  <2>2. QED
    BY <2>1, RestIsClean
<1>7. \A x \in Slots : WellFormedChain(chain[x])'
  <2> SUFFICES ASSUME NEW x \in Slots
               PROVE  WellFormedChain(chain[x])'
    OBVIOUS
  <2>1. CASE x = s
    BY <1>4, <1>5, <2>1 DEF WellFormedChain
  <2>2. CASE x # s
    BY <1>5, <2>2 DEF OneAtATime, WellFormedChain
  <2>3. QED
    BY <2>1, <2>2
<1>8. AtRestWhenClosed(t)'
  BY <1>1 DEF AtRestWhenClosed
<1>9. OneActive' /\ SnapshotsCurrent(t)'
  BY <1>3, <1>4, <1>5 DEF OneActive, Active, Waiting, SnapshotsCurrent
<1>10. OneLateRecord(t)'
  BY <1>1, <1>3, <1>4, <1>5, <1>6, StoreOfTab DEF OneLateRecord, GetAll
<1>11. QED
  BY <1>7, <1>8, <1>9, <1>10 DEF OneAtATime

LEMMA PageSequential ==
  ASSUME OneTab, TypeOK, JobSchedulerAssumption, NEW t \in Tabs, OneAtATime(t),
         JobHandlerRegister(t) \/ CloseTab(t)
  PROVE  OneAtATime(t)'
<1>1. Quiescent(t) /\ disk' = disk /\ page[t] # "closed"
  BY DEF JobHandlerRegister, CloseTab, Opened
<1>2. /\ \A k \in Stores, j \in Jobs : disk[k][j] # "late"
      /\ \A s \in Slots : ~ Active(s) /\ chain[s].pc \in Waiting
  BY <1>1, RestIsClean
<1>3. Idle.pc = "idle" /\ WellFormedChain(Idle)'
  BY DEF Idle, WellFormedChain
<1>4. \A s \in Slots : chain'[s] = chain[s] \/ chain'[s] = Idle
  BY DEF JobHandlerRegister, CloseTab
<1>5. \A s \in Slots : chain'[s].pc \in Waiting
  BY <1>2, <1>3, <1>4 DEF Waiting
<1>6. \A s \in Slots : WellFormedChain(chain[s])'
  <2> SUFFICES ASSUME NEW s \in Slots
               PROVE  WellFormedChain(chain[s])'
    OBVIOUS
  <2>1. CASE chain'[s] = Idle
    BY <1>3, <2>1 DEF WellFormedChain
  <2>2. CASE chain'[s] = chain[s] /\ JobHandlerRegister(t)
    BY <2>2, TheTab DEF OneAtATime, WellFormedChain, JobHandlerRegister, Registered, TypeOK
  <2>3. CASE chain'[s] = chain[s] /\ CloseTab(t)
    <3>1. chain[s].tab # t \/ chain'[s] = Idle
      BY <2>3 DEF CloseTab
    <3>2. chain[s].tab # t => chain[s] = Idle
      BY TheTab DEF OneAtATime, WellFormedChain
    <3>3. QED
      BY <1>3, <2>1, <2>3, <3>1, <3>2
  <2>4. QED
    BY <1>4, <2>1, <2>2, <2>3
<1>7. AtRestWhenClosed(t)'
  <2>1. CASE JobHandlerRegister(t)
    BY <2>1 DEF JobHandlerRegister, AtRestWhenClosed, TypeOK
  <2>2. CASE CloseTab(t)
    <3>1. running'[t] = {} /\ armed'[t] = {} /\ first'[t] = {}
      BY <2>2 DEF CloseTab, TypeOK
    <3>2. \A s \in Slots : chain'[s].pc = "idle"
      BY <1>3, <2>2, TheTab DEF CloseTab, OneAtATime
    <3>3. QED
      BY <3>1, <3>2 DEF AtRestWhenClosed
  <2>3. QED
    BY <2>1, <2>2
<1>8. OneActive' /\ SnapshotsCurrent(t)'
  BY <1>5 DEF OneActive, Active, SnapshotsCurrent, Waiting
<1>9. OneLateRecord(t)'
  <2>1. Store(t)' \in Stores
    BY DEF Store, Stores
  <2>2. QED
    BY <1>1, <1>2, <1>5, <2>1 DEF OneLateRecord, GetAll, Waiting
<1>10. QED
  BY <1>6, <1>7, <1>8, <1>9 DEF OneAtATime

LEMMA SequentialNext ==
  ASSUME OneTab, TypeOK, JobSchedulerAssumption, NEW t \in Tabs, OneAtATime(t), [Next]_vars
  PROVE  OneAtATime(t)'
<1>0. /\ \A u \in Tabs : u = t
      /\ \A s \in Slots : ~ At(s, "idle") => chain[s].tab = t /\ page[t] # "closed"
      /\ \A s \in Slots : WellFormedChain(chain[s])
  BY TheTab DEF OneAtATime, AtRestWhenClosed
<1>1. ASSUME NEW u \in Tabs, NEW s \in Slots, OpenTab(u, s)
      PROVE  OneAtATime(t)'
  BY <1>0, <1>1, OpenSequential
<1>2. ASSUME NEW u \in Tabs, JobHandlerRegister(u) \/ CloseTab(u)
      PROVE  OneAtATime(t)'
  BY <1>0, <1>2, PageSequential
<1>3. ASSUME NEW u \in Tabs, NEW j \in Jobs, NEW s \in Slots, StartOperation(u, j, s)
      PROVE  OneAtATime(t)'
  <2> DEFINE c == Chain("starting", t, j, "none", FALSE, EmptyList)
  <2>1. chain' = [chain EXCEPT ![s] = c] /\ page[t] # "closed" /\ UNCHANGED <<page, disk>>
    BY <1>0, <1>3 DEF StartOperation, Opened
  <2>2. c.pc = "starting" /\ WellFormedChain(c)
    BY DEF Chain, WellFormedChain
  <2>3. \A k \in Jobs : ~ Removes(s, k)
    BY <1>3 DEF Removes, Handles, StartOperation
  <2>4. QED
    BY <2>1, <2>2, <2>3, SequentialStep DEF Waiting
<1>4. ASSUME NEW u \in Tabs, NEW j \in Jobs, NEW s \in Slots,
             FireTimer(u, j, s) \/ FireFirstRun(u, j, s)
      PROVE  OneAtATime(t)'
  <2>1. /\ Quiescent(u) /\ At(s, "idle") /\ RunJob(s, u, j) /\ UNCHANGED <<page, disk>>
        /\ j \in armed[t] \cup first[t]
    BY <1>0, <1>4 DEF FireTimer, FireFirstRun
  <2>2. page[u] # "closed"
    BY <1>0, <2>1 DEF OneAtATime, AtRestWhenClosed
  <2>3. QED
    BY <2>1, <2>2, RunJobSequential
<1>5. ASSUME NEW s \in Slots, SubmitJob(s) \/ ReAddJob(s)
      PROVE  OneAtATime(t)'
  <2> DEFINE c == Chain("set", t, chain[s].job, chain[s].lr, FALSE, GetAll(t))
  <2>1. /\ chain[s].pc \in {"starting", "readd"} /\ UNCHANGED <<page, disk>>
        /\ AddJob(s, chain[s].tab, chain[s].job, chain[s].lr)
        /\ Active(s) \/ Quiescent(chain[s].tab)
    BY <1>5 DEF SubmitJob, ReAddJob, Active, Waiting
  <2>2. chain[s].tab = t /\ page[t] # "closed" /\ chain[s].job \in Jobs
    BY <1>0, <2>1 DEF WellFormedChain
  <2>3. \A k \in Jobs : ~ Removes(s, k)
    BY <2>1 DEF Removes, Handles
  <2>4. CASE chain' = [chain EXCEPT ![s] = Idle]
    <3>1. Idle.pc = "idle" /\ WellFormedChain(Idle)
      BY DEF Idle, WellFormedChain
    <3>2. QED
      BY <2>1, <2>2, <2>3, <2>4, <3>1, SequentialStep DEF Waiting
  <2>5. CASE chain' = [chain EXCEPT ![s] = c]
    <3>1. c.pc = "set" /\ c.snap = GetAll(t) /\ WellFormedChain(c)
      BY <2>2 DEF Chain, WellFormedChain
    <3>2. QED
      BY <2>1, <2>2, <2>3, <2>5, <3>1, SequentialStep
  <2>6. QED
    BY <2>1, <2>2, <2>4, <2>5 DEF AddJob
<1>6. ASSUME NEW s \in Slots, StoreJob(s) \/ DeleteStaledJob(s) \/ DeleteRunJob(s)
      PROVE  OneAtATime(t)'
  <2>1. chain[s].pc \in {"set", "staleDelete", "runDelete"} /\ UNCHANGED page
    BY <1>6 DEF StoreJob, DeleteStaledJob, DeleteRunJob
  <2>2. /\ chain[s].tab = t /\ page[t] # "closed" /\ chain[s].job \in Jobs
        /\ Active(s) /\ chain[s].snap = GetAll(t)
    BY <1>0, <2>1 DEF WellFormedChain, Active, Waiting, OneAtATime, SnapshotsCurrent
  <2>3. \A k \in Jobs : GetAll(t)[k] = "late" => At(s, "staleDelete") /\ k = chain[s].job
    <3> SUFFICES ASSUME NEW k \in Jobs, GetAll(t)[k] = "late"
                 PROVE  At(s, "staleDelete") /\ k = chain[s].job
      OBVIOUS
    <3>1. PICK x \in Slots : Removes(x, k)
      BY StoreOfTab DEF OneAtATime, OneLateRecord, GetAll
    <3>2. x = s
      BY <2>2, <3>1 DEF OneAtATime, OneActive, Active, Waiting, Removes, Handles
    <3>3. QED
      BY <2>1, <3>1, <3>2 DEF Removes, Handles
  <2>4. CASE StoreJob(s)
    <3> DEFINE c == Chain("added", t, chain[s].job, chain[s].lr, FALSE, EmptyList)
    <3>1. /\ c.pc = "added" /\ c.job = chain[s].job /\ c.lr = chain[s].lr
          /\ WellFormedChain(c) /\ chain[s].lr \in RunTimes
      BY <2>2, ChainFields DEF Chain, WellFormedChain
    <3>2. chain' = [chain EXCEPT ![s] = c]
      BY <2>2, <2>4 DEF StoreJob
    <3>3. disk' = [disk EXCEPT ![Store(t)] = [chain[s].snap EXCEPT ![chain[s].job] = chain[s].lr]]
      BY <2>2, <2>4 DEF StoreJob
    <3>4. At(s, "set")
      BY <2>4 DEF StoreJob
    <3>5. QED
      BY <2>1, <2>2, <2>3, <3>1, <3>2, <3>3, <3>4, SequentialWrite
  <2>5. CASE DeleteStaledJob(s) \/ DeleteRunJob(s)
    <3> DEFINE c == Chain("readd", t, chain[s].job, chain[s].lr, FALSE, EmptyList)
    <3>1. \A d \in {Idle, c} : d.pc \in {"idle", "readd"} /\ WellFormedChain(d)
      BY <2>2 DEF Chain, Idle, WellFormedChain
    <3>2. PICK d \in {Idle, c} : chain' = [chain EXCEPT ![s] = d]
      BY <2>2, <2>5 DEF DeleteStaledJob, DeleteRunJob
    <3>3. disk' = [disk EXCEPT ![Store(t)] = [chain[s].snap EXCEPT ![chain[s].job] = "absent"]]
      BY <2>2, <2>5 DEF DeleteStaledJob, DeleteRunJob
    <3>4. "absent" \in RunTimes
      BY DEF RunTimes
    <3>5. QED
      BY <2>1, <2>2, <2>3, <3>1, <3>2, <3>3, <3>4, SequentialWrite
  <2>6. QED
    BY <1>6, <2>4, <2>5
<1>7. ASSUME NEW s \in Slots, ArmFirstRun(s)
      PROVE  OneAtATime(t)'
  <2> DEFINE c == Chain("loop", t, NoJob, "absent", FALSE, GetAll(t))
  <2>1. /\ At(s, "added") /\ UNCHANGED <<page, disk>>
        /\ chain[s].tab = t /\ page[t] # "closed" /\ Active(s)
    BY <1>0, <1>7 DEF ArmFirstRun, Active, Waiting
  <2>2. chain' = [chain EXCEPT ![s] = c]
    BY <1>7, <2>1 DEF ArmFirstRun
  <2>3. c.pc = "loop" /\ c.snap = GetAll(t) /\ WellFormedChain(c)
    BY DEF Chain, WellFormedChain
  <2>4. QED
    BY <2>1, <2>2, <2>3, SequentialStep
<1>8. ASSUME NEW s \in Slots, LoopJob(s)
      PROVE  OneAtATime(t)'
  BY <1>8, LoopSequential
<1>9. ASSUME NEW s \in Slots, TimeOutJob(s)
      PROVE  OneAtATime(t)'
  <2> DEFINE c == Chain("staleDelete", t, chain[s].job, chain[s].lr, FALSE, GetAll(t))
  <2>1. /\ At(s, "stale") /\ UNCHANGED <<page, disk>>
        /\ chain[s].tab = t /\ page[t] # "closed" /\ Active(s)
    BY <1>0, <1>9 DEF TimeOutJob, Active, Waiting
  <2>2. chain' = [chain EXCEPT ![s] = c]
    BY <1>9, <2>1 DEF TimeOutJob
  <2>3. chain[s].job \in Jobs /\ chain[s].lr = "late"
    BY <1>0, <2>1 DEF WellFormedChain, OneAtATime, OneLateRecord
  <2>4. /\ c.pc = "staleDelete" /\ c.snap = GetAll(t) /\ WellFormedChain(c)
        /\ c.job = chain[s].job /\ c.lr = "late"
    BY <2>3 DEF Chain, WellFormedChain
  <2>5. \A k \in Jobs : Removes(s, k) => c.job = k
    BY <2>1, <2>4 DEF Removes, Handles
  <2>6. QED
    BY <2>1, <2>2, <2>4, <2>5, SequentialStep
<1>10. ASSUME NEW s \in Slots, Answer(s) \/ Deliver(s) \/ EndRun(s)
       PROVE  OneAtATime(t)'
  <2>1. /\ chain[s].pc \in {"fetch", "replied", "answered"} /\ UNCHANGED <<page, disk>>
        /\ chain[s].tab = t /\ page[t] # "closed"
    BY <1>0, <1>10 DEF Answer, Deliver, EndRun
  <2>2. \A k \in Jobs : ~ Removes(s, k)
    BY <2>1 DEF Removes, Handles
  <2>3. chain[s] \in Chains
    BY ChainFields
  <2>4. CASE Answer(s)
    <3>1. PICK fin \in BOOLEAN : chain' = [chain EXCEPT ![s] =
            Chain("replied", t, chain[s].job, chain[s].lr, fin, EmptyList)]
      BY <2>1, <2>4 DEF Answer, Finished
    <3> DEFINE c == Chain("replied", t, chain[s].job, chain[s].lr, fin, EmptyList)
    <3>2. c.pc = "replied" /\ WellFormedChain(c)
      BY <1>0, <2>1, <2>4 DEF Chain, WellFormedChain, Answer
    <3>3. QED
      BY <2>1, <2>2, <3>1, <3>2, SequentialStep DEF Waiting
  <2>5. CASE Deliver(s)
    <3> DEFINE c == [chain[s] EXCEPT !.pc = "answered"]
    <3>1. c.pc = "answered" /\ WellFormedChain(c)
      BY <1>0, <2>1, <2>3 DEF WellFormedChain, Chains
    <3>2. chain' = [chain EXCEPT ![s] = c] /\ Quiescent(t)
      BY <2>1, <2>5 DEF Deliver
    <3>3. QED
      BY <2>1, <2>2, <3>1, <3>2, SequentialStep
  <2>6. CASE EndRun(s)
    <3> DEFINE c == [chain[s] EXCEPT !.pc = "runDelete", !.snap = GetAll(t)]
    <3>1. c.pc = "runDelete" /\ c.snap = GetAll(t) /\ WellFormedChain(c)
      BY <1>0, <2>1, <2>3 DEF WellFormedChain, Chains
    <3>2. chain' = [chain EXCEPT ![s] = c] /\ Active(s)
      BY <2>1, <2>6 DEF EndRun, Active, Waiting
    <3>3. QED
      BY <2>1, <2>2, <3>1, <3>2, SequentialStep
  <2>7. QED
    BY <1>10, <2>4, <2>5, <2>6
<1>11. ASSUME NEW j \in Jobs, FinishTask(j) \/ PassDeadline(j)
       PROVE  OneAtATime(t)'
  BY <1>11, SequentialSame DEF FinishTask, PassDeadline
<1>12. CASE UNCHANGED vars
  BY <1>12, SequentialSame DEF vars
<1>13. QED
  BY <1>1, <1>2, <1>3, <1>4, <1>5, <1>6, <1>7, <1>8, <1>9, <1>10, <1>11, <1>12
  DEF Next, Continue, Receive

LEMMA SequentialInit ==
  ASSUME JobSchedulerAssumption, Init, NEW t \in Tabs
  PROVE  OneAtATime(t)
<1>1. \A s \in Slots : chain[s] = Idle /\ At(s, "idle") /\ WellFormedChain(Idle)
  BY DEF Init, Idle, WellFormedChain
<1>2. Store(t) \in Stores /\ \A k \in Stores, j \in Jobs : disk[k][j] = "absent"
  BY DEF Init, Store, Stores, EmptyList
<1>3. AtRestWhenClosed(t) /\ OneActive /\ SnapshotsCurrent(t)
  BY <1>1 DEF Init, AtRestWhenClosed, OneActive, Active, Waiting, SnapshotsCurrent
<1>4. OneLateRecord(t)
  BY <1>1, <1>2 DEF OneLateRecord, GetAll
<1>5. QED
  BY <1>1, <1>3, <1>4 DEF OneAtATime

-----------------------------------------------------------------------------
(* What is known of a job: nothing before its operation was accepted, its  *)
(* absence from the map while its record is stored or removed, and the list *)
(* it is in.                                                               *)

Busy(s) == chain[s].pc \notin {"idle", "loop"}
Tracked == {"set", "added", "stale", "staleDelete", "runDelete", "readd"}

LEMMA ListsOfTab ==
  ASSUME NEW t \in Tabs
  PROVE  /\ Store(t) \in Stores
         /\ Store(t) = IF page[t] = "registered" THEN "user" ELSE "default"
         /\ \A j : GetAll(t)[j] # "absent" <=> Stored(Store(t), j)
         /\ \A k \in Stores : k # Store(t) <=> k \in Stores \ {Store(t)}
         /\ Stores = {"default", "user"}
  BY DEF Store, Stores, Registered, GetAll, Stored

\* One chain goes on and the lists stay as they are.
LEMMA ApartStep ==
  ASSUME TypeOK, NEW t \in Tabs, JobsApart(t), NEW s \in Slots, NEW c,
         chain' = [chain EXCEPT ![s] = c], UNCHANGED <<page, disk, task>>,
         running'[t] \subseteq running[t],
         \A j \in first'[t] \ first[t] : j \in FirstRun /\ j = chain[s].job /\ At(s, "added"),
         \A j \in Jobs : UNCHANGED Outcomes(j) \/ (j = chain[s].job /\ Busy(s)),
         c.pc \notin {"idle", "loop"} =>
           /\ c.pc # "starting" /\ c.job \in Jobs
           /\ \/ Busy(s) /\ c.job = chain[s].job
              \/ Stored(Store(t), c.job),
         c.pc \in Tracked => c.job \notin running'[t],
         c.pc = "loop" => \A j \in running'[t] : GetAll(t)[j] # "late",
         c.pc \in {"set", "added"} => c.lr # "absent",
         c.pc \in {"fetch", "replied", "answered", "runDelete", "readd"} =>
           c.lr \in {"fresh", "late"},
         c.fin => c.pc \in {"replied", "answered", "runDelete"} /\ task[c.job] = "done"
  PROVE  JobsApart(t)'
<1>1. chain'[s] = c /\ \A x \in Slots : x # s => chain'[x] = chain[x]
  BY DEF TypeOK
<1>2. Store(t)' = Store(t) /\ GetAll(t)' = GetAll(t)
  BY DEF Store, Registered, GetAll
<1>3. NotBorn(t)'
  <2> SUFFICES ASSUME NEW j \in Jobs, task[j] = "none"
               PROVE  /\ \A k \in Stores : ~ Stored(k, j)'
                      /\ j \notin running'[t] /\ j \notin first'[t] /\ Outcomes(j)' = 0
                      /\ \A x \in Slots : chain'[x].pc \notin {"idle", "loop"} => chain'[x].job # j
    BY DEF NotBorn
  <2>1. /\ \A k \in Stores : ~ Stored(k, j)
        /\ j \notin running[t] /\ j \notin first[t] /\ Outcomes(j) = 0
        /\ \A x \in Slots : chain[x].pc \notin {"idle", "loop"} => chain[x].job # j
    BY DEF JobsApart, NotBorn
  <2>2. \A k \in Stores : ~ Stored(k, j)'
    BY <2>1 DEF Stored
  <2>3. j \notin running'[t] /\ j \notin first'[t] /\ Outcomes(j)' = 0
    BY <2>1 DEF Busy
  <2>4. \A x \in Slots : chain'[x].pc \notin {"idle", "loop"} => chain'[x].job # j
    BY <1>1, <2>1, ListsOfTab DEF Busy
  <2>5. QED
    BY <2>2, <2>3, <2>4
<1>4. Newborn(t)'
  <2> SUFFICES ASSUME NEW x \in Slots, chain'[x].pc = "starting"
               PROVE  /\ \A k \in Stores : ~ Stored(k, chain[x].job)'
                      /\ chain'[x].job \notin running'[t] /\ chain'[x].job \notin first'[t]
                      /\ \A y \in Slots : chain'[y].job = chain'[x].job /\ chain'[y].pc \notin {"idle", "loop"}
                              => y = x
    BY DEF Newborn
  <2>1. x # s /\ chain'[x] = chain[x] /\ At(x, "starting")
    BY <1>1
  <2>2. /\ \A k \in Stores : ~ Stored(k, chain[x].job)
        /\ chain[x].job \notin running[t] /\ chain[x].job \notin first[t]
        /\ \A y \in Slots : chain[y].job = chain[x].job /\ chain[y].pc \notin {"idle", "loop"}
                               => y = x
    BY <2>1 DEF JobsApart, Newborn
  <2>3. \A k \in Stores : ~ Stored(k, chain[x].job)'
    BY <2>1, <2>2 DEF Stored
  <2>4. chain[x].job \notin running'[t] /\ chain[x].job \notin first'[t]
    BY <2>1, <2>2
  <2>5. \A y \in Slots : chain'[y].job = chain[x].job /\ chain'[y].pc \notin {"idle", "loop"} => y = x
    BY <1>1, <2>1, <2>2, ListsOfTab DEF Busy
  <2>6. QED
    BY <2>1, <2>3, <2>4, <2>5
<1>5. HandledUntracked(t)'
  BY <1>1, <1>2 DEF JobsApart, HandledUntracked, Tracked
<1>6. RunTimesKnown'
  BY <1>1 DEF JobsApart, RunTimesKnown
<1>7. OneList(t)'
  <2> SUFFICES ASSUME NEW j \in Jobs
               PROVE  /\ ~ (Stored("default", j)' /\ Stored("user", j)')
                      /\ page'[t] = "loaded" /\ j \in running'[t] => ~ Stored("user", j)'
                      /\ (\E k \in Stores \ {Store(t)'} : Stored(k, j)') =>
                           \A x \in Slots : chain'[x].pc \notin {"idle", "loop"} => chain'[x].job # j
    BY DEF OneList
  <2>1. /\ ~ (Stored("default", j) /\ Stored("user", j))
        /\ page[t] = "loaded" /\ j \in running[t] => ~ Stored("user", j)
        /\ (\E k \in Stores \ {Store(t)} : Stored(k, j)) =>
             \A x \in Slots : chain[x].pc \notin {"idle", "loop"} => chain[x].job # j
    BY DEF JobsApart, OneList
  <2>2. \A k : Stored(k, j)' <=> Stored(k, j)
    BY DEF Stored
  <2>3. ASSUME \E k \in Stores \ {Store(t)} : Stored(k, j), NEW x \in Slots,
               chain'[x].pc \notin {"idle", "loop"}
        PROVE  chain'[x].job # j
    BY <1>1, <2>1, <2>3, ListsOfTab DEF Busy
  <2>4. QED
    BY <1>2, <2>1, <2>2, <2>3
<1>8. first'[t] \subseteq FirstRun
  BY DEF JobsApart
<1>9. QED
  BY <1>3, <1>4, <1>5, <1>6, <1>7, <1>8 DEF JobsApart

\* The chain of a job writes that job's entry of the list it uses.
Writes(s, t, lr) == SaveToDisk(t, [chain[s].snap EXCEPT ![chain[s].job] = lr])

LEMMA WriteEffect ==
  ASSUME TypeOK, NEW t \in Tabs, OneAtATime(t), NEW s \in Slots, chain[s].job \in Jobs,
         chain[s].pc \in {"set", "staleDelete", "runDelete"}, NEW lr \in RunTimes,
         UNCHANGED page, Writes(s, t, lr)
  PROVE  /\ Store(t)' = Store(t)
         /\ disk'[Store(t)][chain[s].job] = lr
         /\ \A k \in Stores, j \in Jobs :
              k # Store(t) \/ j # chain[s].job => disk'[k][j] = disk[k][j]
<1>1. chain[s].snap = GetAll(t)
  BY DEF OneAtATime, SnapshotsCurrent
<1>2. Store(t) \in Stores /\ GetAll(t) \in Lists /\ GetAll(t) = disk[Store(t)]
  BY GetAllType, StoreOfTab DEF GetAll
<1>3. disk'[Store(t)] = [GetAll(t) EXCEPT ![chain[s].job] = lr]
  BY <1>1, <1>2 DEF TypeOK, Writes
<1>4. \A k \in Stores : k # Store(t) => disk'[k] = disk[k]
  BY DEF TypeOK, Writes
<1>5. disk'[Store(t)][chain[s].job] = lr
  BY <1>2, <1>3 DEF Lists
<1>6. \A j \in Jobs : j # chain[s].job => disk'[Store(t)][j] = disk[Store(t)][j]
  BY <1>2, <1>3 DEF Lists
<1>7. Store(t)' = Store(t)
  BY DEF Store, Registered
<1>8. QED
  BY <1>4, <1>5, <1>6, <1>7

LEMMA ApartWrite ==
  ASSUME TypeOK, OneTab, NEW t \in Tabs, OneAtATime(t), JobsApart(t), NEW s \in Slots,
         chain[s].job \in Jobs, chain[s].tab = t,
         chain[s].pc \in {"set", "staleDelete", "runDelete"}, NEW lr \in RunTimes, NEW c,
         UNCHANGED <<page, running, armed, first, task, reports, timeouts>>,
         Writes(s, t, lr), chain' = [chain EXCEPT ![s] = c],
         c = Idle \/ (c.pc \in {"added", "readd"} /\ c.job = chain[s].job),
         c.pc = "added" => c.lr # "absent", c.pc = "readd" => c.lr \in {"fresh", "late"},
         ~ c.fin
  PROVE  JobsApart(t)'
<1> DEFINE j == chain[s].job
<1>1. chain'[s] = c /\ \A x \in Slots : x # s => chain'[x] = chain[x] /\ chain[x].pc \in Waiting
  BY DEF TypeOK, OneAtATime, OneActive, Active, Waiting
<1>2. /\ Store(t)' = Store(t) /\ Store(t) \in Stores
      /\ \A k \in Stores, i \in Jobs : (k # Store(t) \/ i # j) => (Stored(k, i)' <=> Stored(k, i))
  <2>1. /\ Store(t)' = Store(t)
        /\ \A k \in Stores, i \in Jobs : k # Store(t) \/ i # j => disk'[k][i] = disk[k][i]
    BY WriteEffect
  <2>2. QED
    BY <2>1, StoreOfTab DEF Stored
<1>3. Idle.pc = "idle" /\ Busy(s)
  BY DEF Idle, Busy
<1>4. task[j] # "none" /\ (\A i \in Jobs : Outcomes(i)' = Outcomes(i))
  BY <1>3 DEF JobsApart, NotBorn, Busy, Outcomes
<1>5. NotBorn(t)'
  BY <1>1, <1>2, <1>3, <1>4 DEF JobsApart, NotBorn, Busy
<1>6. Newborn(t)'
  <2> SUFFICES ASSUME NEW x \in Slots, chain'[x].pc = "starting"
               PROVE  /\ \A k \in Stores : ~ Stored(k, chain[x].job)'
                      /\ chain'[x].job \notin running'[t] /\ chain'[x].job \notin first'[t]
                      /\ \A y \in Slots : chain'[y].job = chain'[x].job /\ chain'[y].pc \notin {"idle", "loop"}
                              => y = x
    BY DEF Newborn
  <2>1. x # s /\ chain'[x] = chain[x] /\ At(x, "starting") /\ chain[x].job \in Jobs
    BY <1>1, <1>3 DEF OneAtATime, WellFormedChain
  <2>2. /\ \A k \in Stores : ~ Stored(k, chain[x].job)
        /\ chain[x].job \notin running[t] /\ chain[x].job \notin first[t]
        /\ \A y \in Slots : chain[y].job = chain[x].job /\ chain[y].pc \notin {"idle", "loop"}
                               => y = x
    BY <2>1 DEF JobsApart, Newborn
  <2>3. chain[x].job # j
    BY <1>3, <2>1, <2>2 DEF Busy
  <2>4. \A k \in Stores : ~ Stored(k, chain[x].job)'
    BY <1>2, <2>1, <2>2, <2>3
  <2>5. \A y \in Slots : chain'[y].job = chain[x].job /\ chain'[y].pc \notin {"idle", "loop"} => y = x
    BY <1>1, <1>3, <2>1, <2>2, <2>3
  <2>6. QED
    BY <2>1, <2>2, <2>4, <2>5
<1>7. HandledUntracked(t)'
  <2>1. j \notin running[t]
    BY DEF JobsApart, HandledUntracked
  <2>2. QED
    BY <1>1, <1>3, <2>1 DEF HandledUntracked, Waiting
<1>8. RunTimesKnown'
  BY <1>1, <1>3 DEF JobsApart, RunTimesKnown
<1>9. OneList(t)'
  <2> SUFFICES ASSUME NEW i \in Jobs
               PROVE  /\ ~ (Stored("default", i)' /\ Stored("user", i)')
                      /\ page'[t] = "loaded" /\ i \in running'[t] => ~ Stored("user", i)'
                      /\ (\E k \in Stores \ {Store(t)'} : Stored(k, i)') =>
                           \A x \in Slots : chain'[x].pc \notin {"idle", "loop"} => chain'[x].job # i
    BY DEF OneList
  <2>1. /\ ~ (Stored("default", i) /\ Stored("user", i))
        /\ page[t] = "loaded" /\ i \in running[t] => ~ Stored("user", i)
        /\ (\E k \in Stores \ {Store(t)} : Stored(k, i)) =>
             \A x \in Slots : chain[x].pc \notin {"idle", "loop"} => chain[x].job # i
    BY DEF JobsApart, OneList
  <2>2. ~ (Stored("default", i)' /\ Stored("user", i)')
    BY <1>2, <1>3, <2>1, ListsOfTab DEF Busy
  <2>3. page'[t] = "loaded" /\ i \in running'[t] => ~ Stored("user", i)'
    BY <1>2, <2>1, ListsOfTab
  <2>4. (\E k \in Stores \ {Store(t)'} : Stored(k, i)') =>
           \A x \in Slots : chain'[x].pc \notin {"idle", "loop"} => chain'[x].job # i
    BY <1>1, <1>2, <1>3, <2>1 DEF Busy
  <2>5. QED
    BY <2>2, <2>3, <2>4
<1>10. QED
  BY <1>5, <1>6, <1>7, <1>8, <1>9 DEF JobsApart

LEMMA ApartLoop ==
  ASSUME TypeOK, JobSchedulerAssumption, OneTab, NEW t \in Tabs, OneAtATime(t), JobsApart(t),
         NEW s \in Slots, LoopJob(s)
  PROVE  JobsApart(t)'
<1>1. chain[s].tab = t /\ Active(s) /\ page[t] # "closed" /\ LoopEffect(s, t)
  BY LoopJobEffect
<1>2. /\ UNCHANGED <<disk, page, first, task, reports, timeouts>>
      /\ At(s, "loop") /\ chain[s].snap = GetAll(t)
  BY DEF LoopJob, OneAtATime, SnapshotsCurrent
<1>3. running'[t] = running[t] \cup Untracked(t, GetAll(t))
  BY <1>1, <1>2 DEF LoopJob, TypeOK
<1>4. /\ Store(t)' = Store(t) /\ GetAll(t)' = GetAll(t) /\ (\A k, j : Stored(k, j)' <=> Stored(k, j))
      /\ \A j : Outcomes(j)' = Outcomes(j)
  BY <1>2 DEF Store, Registered, GetAll, Stored, Outcomes
<1>5. \A j \in Untracked(t, GetAll(t)) : j \in Jobs /\ Stored(Store(t), j) /\ GetAll(t)[j] # "late"
  BY DEF Untracked, GetAll, Stored
<1>6. \A x \in Slots : x # s => chain[x].pc \in Waiting
  BY <1>1 DEF OneAtATime, OneActive, Active
\* A chain is new or as it was; the new one removes a staled job.
<1>7. \A x \in Slots :
        \/ chain'[x] = Idle
        \/ chain'[x] = chain[x] /\ x # s
        \/ /\ chain'[x].pc = "stale" /\ ~ chain'[x].fin /\ chain'[x].job \in Jobs
           /\ GetAll(t)[chain'[x].job] = "late"
  <2>1. CASE chain' = [chain EXCEPT ![s] = Idle]
    BY <2>1 DEF TypeOK
  <2>2. ASSUME NEW j \in Jobs, NEW x \in Slots, GetAll(t)[j] = "late",
               chain' = [y \in Slots |->
                 IF y = x THEN Chain("stale", t, j, "late", FALSE, EmptyList)
                 ELSE IF y = s THEN Idle ELSE chain[y]]
        PROVE  \A y \in Slots :
                 \/ chain'[y] = Idle
                 \/ chain'[y] = chain[y] /\ y # s
                 \/ /\ chain'[y].pc = "stale" /\ ~ chain'[y].fin /\ chain'[y].job \in Jobs
                    /\ GetAll(t)[chain'[y].job] = "late"
    BY <2>2 DEF Chain
  <2>3. QED
    BY <1>1, <2>1, <2>2 DEF LoopEffect
<1>8. Idle.pc = "idle" /\ ~ Idle.fin
  BY DEF Idle
<1>9. \A j \in Jobs : GetAll(t)[j] = "late" => Stored(Store(t), j) /\ j \notin running'[t]
  BY <1>2, <1>3, <1>5 DEF JobsApart, HandledUntracked, GetAll, Stored
<1>10. NotBorn(t)'
  <2> SUFFICES ASSUME NEW j \in Jobs, task[j] = "none"
               PROVE  /\ \A k \in Stores : ~ Stored(k, j)'
                      /\ j \notin running'[t] /\ j \notin first'[t] /\ Outcomes(j)' = 0
                      /\ \A x \in Slots : chain'[x].pc \notin {"idle", "loop"} => chain'[x].job # j
    BY <1>2 DEF NotBorn
  <2>1. /\ \A k \in Stores : ~ Stored(k, j)
        /\ j \notin running[t] /\ j \notin first[t] /\ Outcomes(j) = 0
        /\ \A x \in Slots : chain[x].pc \notin {"idle", "loop"} => chain[x].job # j
    BY DEF JobsApart, NotBorn
  <2>2. j \notin running'[t]
    BY <1>3, <1>5, <2>1, StoreOfTab
  <2>3. \A x \in Slots : chain'[x].pc \notin {"idle", "loop"} => chain'[x].job # j
    BY <1>7, <1>8, <1>9, <2>1, StoreOfTab
  <2>4. QED
    BY <1>2, <1>4, <2>1, <2>2, <2>3
<1>11. Newborn(t)'
  <2> SUFFICES ASSUME NEW x \in Slots, chain'[x].pc = "starting"
               PROVE  /\ \A k \in Stores : ~ Stored(k, chain[x].job)'
                      /\ chain'[x].job \notin running'[t] /\ chain'[x].job \notin first'[t]
                      /\ \A y \in Slots : chain'[y].job = chain'[x].job /\ chain'[y].pc \notin {"idle", "loop"}
                              => y = x
    BY DEF Newborn
  <2>1. x # s /\ chain'[x] = chain[x] /\ At(x, "starting") /\ chain[x].job \in Jobs
    BY <1>7, <1>8 DEF OneAtATime, WellFormedChain
  <2>2. /\ \A k \in Stores : ~ Stored(k, chain[x].job)
        /\ chain[x].job \notin running[t] /\ chain[x].job \notin first[t]
        /\ \A y \in Slots : chain[y].job = chain[x].job /\ chain[y].pc \notin {"idle", "loop"}
                               => y = x
    BY <2>1 DEF JobsApart, Newborn
  <2>3. chain[x].job \notin running'[t]
    BY <1>3, <1>5, <2>2, StoreOfTab
  <2>4. \A y \in Slots : chain'[y].job = chain[x].job /\ chain'[y].pc \notin {"idle", "loop"} => y = x
    BY <1>7, <1>8, <1>9, <2>2, StoreOfTab
  <2>5. \A k \in Stores : ~ Stored(k, chain[x].job)'
    BY <1>2, <2>1, <2>2 DEF Stored
  <2>6. QED
    BY <1>2, <2>1, <2>2, <2>3, <2>4, <2>5
<1>12. HandledUntracked(t)'
  BY <1>6, <1>7, <1>8, <1>9 DEF HandledUntracked, Waiting
<1>13. RunTimesKnown'
  BY <1>2, <1>7, <1>8 DEF JobsApart, RunTimesKnown
<1>14. OneList(t)'
  <2> SUFFICES ASSUME NEW j \in Jobs
               PROVE  /\ ~ (Stored("default", j)' /\ Stored("user", j)')
                      /\ page'[t] = "loaded" /\ j \in running'[t] => ~ Stored("user", j)'
                      /\ (\E k \in Stores \ {Store(t)'} : Stored(k, j)') =>
                           \A x \in Slots : chain'[x].pc \notin {"idle", "loop"} => chain'[x].job # j
    BY DEF OneList
  <2>1. /\ ~ (Stored("default", j) /\ Stored("user", j))
        /\ page[t] = "loaded" /\ j \in running[t] => ~ Stored("user", j)
        /\ (\E k \in Stores \ {Store(t)} : Stored(k, j)) =>
             \A x \in Slots : chain[x].pc \notin {"idle", "loop"} => chain[x].job # j
    BY DEF JobsApart, OneList
  <2>2. page'[t] = "loaded" /\ j \in running'[t] => ~ Stored("user", j)'
    BY <1>2, <1>3, <1>4, <1>5, <2>1, ListsOfTab
  <2>3. (\E k \in Stores \ {Store(t)'} : Stored(k, j)') =>
           \A x \in Slots : chain'[x].pc \notin {"idle", "loop"} => chain'[x].job # j
    BY <1>4, <1>7, <1>8, <1>9, <2>1, ListsOfTab
  <2>4. QED
    BY <1>4, <2>1, <2>2, <2>3
<1>15. QED
  BY <1>2, <1>10, <1>11, <1>12, <1>13, <1>14 DEF JobsApart

\* Loading, registering and leaving: the code of the tab is at rest.
LEMMA ApartPage ==
  ASSUME TypeOK, JobSchedulerAssumption, OneTab, NEW t \in Tabs, OneAtATime(t), JobsApart(t),
         (\E s \in Slots : OpenTab(t, s)) \/ JobHandlerRegister(t) \/ CloseTab(t)
  PROVE  JobsApart(t)'
<1>1. /\ UNCHANGED <<disk, task, reports, timeouts>>
      /\ \A s \in Slots : chain[s].pc \in Waiting
  <2>1. CASE \E s \in Slots : OpenTab(t, s)
    BY <2>1 DEF OpenTab, OneAtATime, AtRestWhenClosed, Waiting
  <2>2. CASE JobHandlerRegister(t) \/ CloseTab(t)
    BY <2>2, RestIsClean DEF JobHandlerRegister, CloseTab
  <2>3. QED
    BY <2>1, <2>2
<1>2. /\ running'[t] \subseteq running[t] /\ first'[t] \subseteq first[t]
      /\ page'[t] = "loaded" => running'[t] = {}
  BY DEF OpenTab, JobHandlerRegister, CloseTab, TypeOK, OneAtATime, AtRestWhenClosed
<1>3. Idle.pc = "idle" /\ ~ Idle.fin
  BY DEF Idle
<1>4. \A x \in Slots :
        \/ chain'[x] = Idle
        \/ chain'[x] = chain[x]
        \/ chain'[x].pc = "loop" /\ ~ chain'[x].fin /\ running'[t] = {}
  BY <1>2 DEF OpenTab, JobHandlerRegister, CloseTab, Chain, TypeOK
<1>5. \A k, j : Stored(k, j)' <=> Stored(k, j)
  BY <1>1 DEF Stored
<1>6. NotBorn(t)'
  BY <1>1, <1>2, <1>3, <1>4, <1>5 DEF JobsApart, NotBorn, Outcomes
<1>7. Newborn(t)'
  <2> SUFFICES ASSUME NEW x \in Slots, chain'[x].pc = "starting"
               PROVE  /\ \A k \in Stores : ~ Stored(k, chain[x].job)'
                      /\ chain'[x].job \notin running'[t] /\ chain'[x].job \notin first'[t]
                      /\ \A y \in Slots : chain'[y].job = chain'[x].job /\ chain'[y].pc \notin {"idle", "loop"}
                              => y = x
    BY DEF Newborn
  <2>1. chain'[x] = chain[x] /\ At(x, "starting")
    BY <1>3, <1>4
  <2>2. /\ \A k \in Stores : ~ Stored(k, chain[x].job)
        /\ chain[x].job \notin running[t] /\ chain[x].job \notin first[t]
        /\ \A y \in Slots : chain[y].job = chain[x].job /\ chain[y].pc \notin {"idle", "loop"}
                               => y = x
    BY <2>1 DEF JobsApart, Newborn
  <2>3. \A k \in Stores : ~ Stored(k, chain[x].job)'
    BY <1>1, <2>1, <2>2 DEF Stored
  <2>4. \A y \in Slots : chain'[y].job = chain[x].job /\ chain'[y].pc \notin {"idle", "loop"} => y = x
    BY <1>3, <1>4, <2>2
  <2>5. QED
    BY <1>2, <2>1, <2>2, <2>3, <2>4
<1>8. HandledUntracked(t)'
  BY <1>1, <1>3, <1>4 DEF HandledUntracked, Waiting
<1>9. RunTimesKnown'
  BY <1>1, <1>3, <1>4 DEF JobsApart, RunTimesKnown
<1>10. OneList(t)'
  <2> SUFFICES ASSUME NEW j \in Jobs
               PROVE  /\ ~ (Stored("default", j)' /\ Stored("user", j)')
                      /\ page'[t] = "loaded" /\ j \in running'[t] => ~ Stored("user", j)'
                      /\ (\E k \in Stores \ {Store(t)'} : Stored(k, j)') =>
                           \A x \in Slots : chain'[x].pc \notin {"idle", "loop"} => chain'[x].job # j
    BY DEF OneList
  <2>1. ~ (Stored("default", j)' /\ Stored("user", j)')
    BY <1>5 DEF JobsApart, OneList
  <2>2. page'[t] = "loaded" /\ j \in running'[t] => ~ Stored("user", j)'
    BY <1>2
  <2>3. ASSUME NEW k \in Stores \ {Store(t)'}, Stored(k, j)', NEW x \in Slots,
               chain'[x].pc \notin {"idle", "loop"}
        PROVE  chain'[x].job # j
    <3>1. chain'[x] = chain[x] /\ chain[x].pc \in {"starting", "fetch", "replied"}
      BY <1>1, <1>3, <1>4, <2>3 DEF Waiting
    <3>2. CASE At(x, "starting")
      BY <1>5, <2>3, <3>1, <3>2 DEF JobsApart, Newborn
    <3>3. CASE ~ At(x, "starting")
      <4>1. Registered(t)
        BY <3>1, <3>3, TheTab DEF OneAtATime, WellFormedChain
      <4>2. ~ CloseTab(t)
        <5>1. chain[x].tab = t
          BY <3>1, TheTab DEF OneAtATime
        <5>2. QED
          BY <1>3, <3>1, <5>1 DEF CloseTab
      <4>3. FALSE
        BY <4>1, <4>2 DEF Registered, OpenTab, JobHandlerRegister
      <4>4. QED
        BY <4>3
    <3>4. QED
      BY <3>2, <3>3
  <2>4. QED
    BY <2>1, <2>2, <2>3
<1>11. first'[t] \subseteq FirstRun
  BY <1>2 DEF JobsApart
<1>12. QED
  BY <1>6, <1>7, <1>8, <1>9, <1>10, <1>11 DEF JobsApart

\* The clock and the cluster know only of jobs that were submitted.
LEMMA ApartCluster ==
  ASSUME TypeOK, NEW t \in Tabs, JobsApart(t),
         UNCHANGED <<page, disk, chain, running, first, reports, timeouts>>,
         \A j \in Jobs : /\ task'[j] = "none" <=> task[j] = "none"
                         /\ task[j] = "done" => task'[j] = "done",
         \A s \in Slots : WellFormedChain(chain[s])
  PROVE  JobsApart(t)'
<1>1. /\ Store(t)' = Store(t) /\ GetAll(t)' = GetAll(t)
      /\ \A k, j : Stored(k, j)' <=> Stored(k, j)
      /\ \A j : Outcomes(j)' = Outcomes(j)
  BY DEF Store, Registered, GetAll, Stored, Outcomes
<1>2. NotBorn(t)'
  BY <1>1 DEF JobsApart, NotBorn
<1>3. Newborn(t)'
  BY <1>1 DEF JobsApart, Newborn, Stored
<1>4. HandledUntracked(t)'
  BY <1>1 DEF JobsApart, HandledUntracked
<1>5. RunTimesKnown'
  BY DEF JobsApart, RunTimesKnown, WellFormedChain
<1>6. OneList(t)'
  BY <1>1 DEF JobsApart, OneList
<1>7. QED
  BY <1>2, <1>3, <1>4, <1>5, <1>6 DEF JobsApart

LEMMA ApartStart ==
  ASSUME TypeOK, JobSchedulerAssumption, OneTab, NEW t \in Tabs, OneAtATime(t), JobsApart(t),
         NEW j \in Jobs, NEW s \in Slots, StartOperation(t, j, s)
  PROVE  JobsApart(t)'
<1> DEFINE c == Chain("starting", t, j, "none", FALSE, EmptyList)
<1>1. /\ UNCHANGED <<page, disk, running, first, reports, timeouts>>
      /\ task[j] = "none" /\ task' = [task EXCEPT ![j] = "running"]
      /\ chain' = [chain EXCEPT ![s] = c] /\ At(s, "idle")
      /\ Quiescent(t)
  BY DEF StartOperation
<1>2. chain'[s] = c /\ \A x \in Slots : x # s => chain'[x] = chain[x] /\ chain[x].pc \in Waiting
  BY <1>1, RestIsClean DEF TypeOK
<1>3. c.pc = "starting" /\ c.job = j /\ ~ c.fin
  BY DEF Chain
<1>4. \A i \in Jobs : i # j => task'[i] = task[i]
  BY <1>1 DEF TypeOK
<1>5. /\ Store(t)' = Store(t)
      /\ (\A k, i : Stored(k, i)' <=> Stored(k, i)) /\ (\A i : Outcomes(i)' = Outcomes(i))
  BY <1>1 DEF Store, Registered, Stored, Outcomes
<1>6. /\ \A k \in Stores : ~ Stored(k, j)
      /\ j \notin running[t] /\ j \notin first[t]
      /\ \A x \in Slots : chain[x].pc \notin {"idle", "loop"} => chain[x].job # j
  BY <1>1 DEF JobsApart, NotBorn
<1>7. task'[j] # "none"
  BY <1>1 DEF TypeOK
<1>8. NotBorn(t)'
  <2> SUFFICES ASSUME NEW i \in Jobs, task'[i] = "none"
               PROVE  /\ \A k \in Stores : ~ Stored(k, i)'
                      /\ i \notin running'[t] /\ i \notin first'[t] /\ Outcomes(i)' = 0
                      /\ \A x \in Slots : chain'[x].pc \notin {"idle", "loop"} => chain'[x].job # i
    BY DEF NotBorn
  <2>1. i # j /\ task[i] = "none"
    BY <1>4, <1>7
  <2>2. /\ \A k \in Stores : ~ Stored(k, i)
        /\ i \notin running[t] /\ i \notin first[t] /\ Outcomes(i) = 0
        /\ \A x \in Slots : chain[x].pc \notin {"idle", "loop"} => chain[x].job # i
    BY <2>1 DEF JobsApart, NotBorn
  <2>3. QED
    BY <1>1, <1>2, <1>3, <1>5, <2>1, <2>2
<1>9. Newborn(t)'
  <2> SUFFICES ASSUME NEW x \in Slots, chain'[x].pc = "starting"
               PROVE  /\ \A k \in Stores : ~ Stored(k, chain[x].job)'
                      /\ chain'[x].job \notin running'[t] /\ chain'[x].job \notin first'[t]
                      /\ \A y \in Slots : chain'[y].job = chain'[x].job /\ chain'[y].pc \notin {"idle", "loop"}
                              => y = x
    BY DEF Newborn
  <2>1. CASE x = s
    <3>1. chain'[x].job = j
      BY <1>2, <1>3, <2>1
    <3>2. \A k \in Stores : ~ Stored(k, chain[x].job)'
      BY <1>1, <1>6, <3>1 DEF Stored
    <3>3. QED
      BY <1>1, <1>2, <1>6, <2>1, <3>1, <3>2
  <2>2. CASE x # s
    <3>1. chain'[x] = chain[x] /\ At(x, "starting")
      BY <1>2, <2>2
    <3>2. /\ \A k \in Stores : ~ Stored(k, chain[x].job)
          /\ chain[x].job \notin running[t] /\ chain[x].job \notin first[t]
          /\ \A y \in Slots : chain[y].job = chain[x].job /\ chain[y].pc \notin {"idle", "loop"}
                                 => y = x
      BY <3>1 DEF JobsApart, Newborn
    <3>3. chain[x].job # j
      BY <1>6, <3>1
    <3>4. \A k \in Stores : ~ Stored(k, chain[x].job)'
      BY <1>1, <3>1, <3>2 DEF Stored
    <3>5. \A y \in Slots : chain'[y].job = chain[x].job /\ chain'[y].pc \notin {"idle", "loop"} => y = x
      BY <1>2, <1>3, <3>2, <3>3
    <3>6. QED
      BY <1>1, <3>1, <3>2, <3>4, <3>5
  <2>3. QED
    BY <2>1, <2>2
<1>10. HandledUntracked(t)'
  BY <1>2, <1>3 DEF HandledUntracked, Waiting
<1>11. RunTimesKnown'
  <2>1. \A x \in Slots : chain[x].fin => task'[chain[x].job] = "done"
    <3> SUFFICES ASSUME NEW x \in Slots, chain[x].fin
                 PROVE  task'[chain[x].job] = "done"
      OBVIOUS
    <3>1. chain[x].pc \in {"replied", "answered", "runDelete"} /\ task[chain[x].job] = "done"
      BY DEF JobsApart, RunTimesKnown
    <3>2. chain[x].job \in Jobs /\ chain[x].job # j
      BY <1>6, <3>1 DEF OneAtATime, WellFormedChain
    <3>3. QED
      BY <1>4, <3>1, <3>2
  <2>2. ASSUME NEW x \in Slots
        PROVE  /\ chain'[x].pc \in {"set", "added"} => chain'[x].lr # "absent"
               /\ chain'[x].pc \in {"fetch", "replied", "answered", "runDelete", "readd"} =>
                    chain'[x].lr \in {"fresh", "late"}
               /\ chain'[x].fin => chain'[x].pc \in {"replied", "answered", "runDelete"}
                                    /\ task'[chain'[x].job] = "done"
    <3>1. CASE x = s
      BY <1>2, <1>3, <3>1
    <3>2. CASE x # s
      BY <1>2, <2>1, <3>2 DEF JobsApart, RunTimesKnown
    <3>3. QED
      BY <3>1, <3>2
  <2>3. QED
    BY <2>2 DEF RunTimesKnown
<1>12. OneList(t)'
  <2> SUFFICES ASSUME NEW i \in Jobs
               PROVE  /\ ~ (Stored("default", i)' /\ Stored("user", i)')
                      /\ page'[t] = "loaded" /\ i \in running'[t] => ~ Stored("user", i)'
                      /\ (\E k \in Stores \ {Store(t)'} : Stored(k, i)') =>
                           \A x \in Slots : chain'[x].pc \notin {"idle", "loop"} => chain'[x].job # i
    BY DEF OneList
  <2>1. /\ ~ (Stored("default", i) /\ Stored("user", i))
        /\ page[t] = "loaded" /\ i \in running[t] => ~ Stored("user", i)
        /\ (\E k \in Stores \ {Store(t)} : Stored(k, i)) =>
             \A x \in Slots : chain[x].pc \notin {"idle", "loop"} => chain[x].job # i
    BY DEF JobsApart, OneList
  <2>2. (\E k \in Stores \ {Store(t)} : Stored(k, i)) => i # j
    BY <1>6
  <2>3. QED
    BY <1>1, <1>2, <1>3, <1>5, <2>1, <2>2
<1>13. QED
  BY <1>1, <1>8, <1>9, <1>10, <1>11, <1>12 DEF JobsApart

LEMMA ApartNext ==
  ASSUME OneTab, TypeOK, JobSchedulerAssumption, ArmedTracked, NEW t \in Tabs, OneAtATime(t),
         JobsApart(t), [Next]_vars
  PROVE  JobsApart(t)'
<1>0. /\ \A u \in Tabs : u = t
      /\ \A s \in Slots : ~ At(s, "idle") => chain[s].tab = t /\ page[t] # "closed"
      /\ \A s \in Slots : WellFormedChain(chain[s])
  BY TheTab DEF OneAtATime, AtRestWhenClosed
<1>1. ASSUME NEW u \in Tabs, (\E s \in Slots : OpenTab(u, s)) \/ JobHandlerRegister(u) \/ CloseTab(u)
      PROVE  JobsApart(t)'
  BY <1>0, <1>1, ApartPage
<1>2. ASSUME NEW u \in Tabs, NEW j \in Jobs, NEW s \in Slots, StartOperation(u, j, s)
      PROVE  JobsApart(t)'
  BY <1>0, <1>2, ApartStart
<1>3. ASSUME NEW u \in Tabs, NEW j \in Jobs, NEW s \in Slots,
             FireTimer(u, j, s) \/ FireFirstRun(u, j, s)
      PROVE  JobsApart(t)'
  <2> DEFINE c == Chain(IF Registered(t) THEN "fetch" ELSE "answered",
                        t, j, Now(j), FALSE, EmptyList)
  <2>1. /\ UNCHANGED <<page, disk, task, running, reports, timeouts>> /\ RunJob(s, t, j)
        /\ first'[t] \subseteq first[t] /\ At(s, "idle")
    BY <1>0, <1>3 DEF FireTimer, FireFirstRun, TypeOK
  <2>2. \A i \in Jobs : UNCHANGED Outcomes(i)
    BY <2>1 DEF Outcomes
  <2>3. CASE GetAll(t)[j] = "absent"
    <3>1. UNCHANGED chain
      BY <2>1, <2>3 DEF RunJob
    <3>2. chain' = [chain EXCEPT ![s] = chain[s]] /\ ~ Busy(s) /\ chain[s] = Idle /\ ~ Idle.fin
      BY <1>0, <2>1, <3>1 DEF Busy, WellFormedChain, Idle, TypeOK
    <3>3. chain[s].pc = "idle"
      BY <2>1
    <3>4. QED
      BY <2>1, <2>2, <3>2, <3>3, ApartStep DEF Busy, Tracked
  <2>4. CASE GetAll(t)[j] # "absent"
    <3>1. chain' = [chain EXCEPT ![s] = c]
      BY <2>1, <2>4 DEF RunJob
    <3>2. /\ c.pc \in {"fetch", "answered"} /\ c.job = j /\ ~ c.fin /\ c.lr \in {"fresh", "late"}
      BY DEF Chain, Now
    <3>3. Stored(Store(t), j)
      BY <2>4 DEF Stored, GetAll
    <3>4. QED
      BY <2>1, <2>2, <3>1, <3>2, <3>3, ApartStep DEF Tracked
  <2>5. QED
    BY <2>3, <2>4
<1>4. ASSUME NEW s \in Slots, SubmitJob(s) \/ ReAddJob(s)
      PROVE  JobsApart(t)'
  <2> DEFINE c == Chain("set", t, chain[s].job, chain[s].lr, FALSE, GetAll(t))
  <2>1. /\ UNCHANGED <<page, disk, task, running, first, reports, timeouts>>
        /\ chain[s].pc \in {"starting", "readd"} /\ chain[s].tab = t
        /\ AddJob(s, t, chain[s].job, chain[s].lr)
    BY <1>0, <1>4 DEF SubmitJob, ReAddJob
  <2>2. chain[s].job \in Jobs /\ Busy(s) /\ chain[s].lr # "absent"
    BY <1>0, <2>1 DEF WellFormedChain, Busy, JobsApart, RunTimesKnown
  <2>3. \A i \in Jobs : UNCHANGED Outcomes(i)
    BY <2>1 DEF Outcomes
  <2>4. chain[s].job \notin running[t]
    BY <2>1 DEF JobsApart, HandledUntracked, Newborn
  <2>5. chain' = [chain EXCEPT ![s] = c]
    BY <2>1, <2>4 DEF AddJob
  <2>6. c.pc = "set" /\ c.job = chain[s].job /\ ~ c.fin /\ c.lr = chain[s].lr
    BY DEF Chain
  <2>7. QED
    BY <2>1, <2>2, <2>3, <2>4, <2>5, <2>6, ApartStep
<1>5. ASSUME NEW s \in Slots, StoreJob(s) \/ DeleteStaledJob(s) \/ DeleteRunJob(s)
      PROVE  JobsApart(t)'
  <2>1. /\ UNCHANGED <<page, running, armed, first, task, reports, timeouts>>
        /\ chain[s].pc \in {"set", "staleDelete", "runDelete"} /\ chain[s].tab = t
        /\ chain[s].job \in Jobs
    BY <1>0, <1>5 DEF StoreJob, DeleteStaledJob, DeleteRunJob, WellFormedChain
  <2>2. chain[s].lr \in RunTimes /\ "absent" \in RunTimes /\ ~ Idle.fin /\ Idle.pc = "idle"
    BY ChainFields DEF RunTimes, Idle
  <2>3. CASE StoreJob(s)
    <3> DEFINE c == Chain("added", t, chain[s].job, chain[s].lr, FALSE, EmptyList)
    <3>1. Writes(s, t, chain[s].lr) /\ chain' = [chain EXCEPT ![s] = c]
      BY <2>1, <2>3 DEF StoreJob, Writes
    <3>2. c.pc = "added" /\ c.job = chain[s].job /\ c.lr # "absent" /\ ~ c.fin
      BY <2>3 DEF Chain, StoreJob, JobsApart, RunTimesKnown
    <3>3. /\ c = Idle \/ (c.pc \in {"added", "readd"} /\ c.job = chain[s].job)
          /\ (c.pc = "added" => c.lr # "absent") /\ (c.pc = "readd" => c.lr \in {"fresh", "late"})
      BY <3>2
    <3> HIDE DEF c
    <3>4. QED
      BY <2>1, <2>2, <3>1, <3>2, <3>3, ApartWrite
  <2>4. CASE DeleteStaledJob(s) \/ DeleteRunJob(s)
    <3>1. Writes(s, t, "absent")
      BY <2>1, <2>4 DEF DeleteStaledJob, DeleteRunJob, Writes
    <3>2. CASE chain' = [chain EXCEPT ![s] = Idle]
      BY <2>1, <2>2, <3>1, <3>2, ApartWrite
    <3>3. CASE DeleteRunJob(s) /\ ~ chain[s].fin
      <4> DEFINE c == Chain("readd", t, chain[s].job, chain[s].lr, FALSE, EmptyList)
      <4>1. chain' = [chain EXCEPT ![s] = c]
        BY <2>1, <3>3 DEF DeleteRunJob
      <4>2. c.pc = "readd" /\ c.job = chain[s].job /\ c.lr \in {"fresh", "late"} /\ ~ c.fin
        BY <3>3 DEF Chain, DeleteRunJob, JobsApart, RunTimesKnown
      <4>3. QED
        BY <2>1, <2>2, <3>1, <4>1, <4>2, ApartWrite
    <3>4. QED
      BY <2>4, <3>2, <3>3 DEF DeleteStaledJob, DeleteRunJob
  <2>5. QED
    BY <1>5, <2>3, <2>4
<1>6. ASSUME NEW s \in Slots, ArmFirstRun(s)
      PROVE  JobsApart(t)'
  <2> DEFINE c == Chain("loop", t, NoJob, "absent", FALSE, GetAll(t))
  <2>1. /\ UNCHANGED <<page, disk, task, running, reports, timeouts>>
        /\ At(s, "added") /\ chain[s].tab = t
        /\ chain' = [chain EXCEPT ![s] = c]
    BY <1>0, <1>6 DEF ArmFirstRun
  <2>2. first'[t] = first[t] \cup FirstRunTimer(chain[s])
    BY <1>6, <2>1 DEF ArmFirstRun, TypeOK
  <2>3. \A j \in first'[t] \ first[t] : j \in FirstRun /\ j = chain[s].job /\ At(s, "added")
    BY <2>1, <2>2 DEF FirstRunTimer
  <2>4. \A i \in Jobs : UNCHANGED Outcomes(i)
    BY <2>1 DEF Outcomes
  <2>5. c.pc = "loop" /\ ~ c.fin
    BY DEF Chain
  <2>6. \A j \in running'[t] : GetAll(t)[j] # "late"
    <3> SUFFICES ASSUME NEW j \in running[t], GetAll(t)[j] = "late"
                 PROVE  FALSE
      BY <2>1
    <3>1. j \in Jobs
      BY DEF TypeOK
    <3>2. PICK x \in Slots : Removes(x, j)
      BY <3>1, StoreOfTab DEF OneAtATime, OneLateRecord, GetAll
    <3>3. x = s
      BY <2>1, <3>2 DEF OneAtATime, OneActive, Active, Waiting, Removes, Handles
    <3>4. QED
      BY <2>1, <3>2, <3>3 DEF Removes, Handles, JobsApart, HandledUntracked
  <2>7. QED
    BY <2>1, <2>3, <2>4, <2>5, <2>6, ApartStep DEF Tracked
<1>7. ASSUME NEW s \in Slots, LoopJob(s)
      PROVE  JobsApart(t)'
  BY <1>7, ApartLoop
<1>8. ASSUME NEW s \in Slots, TimeOutJob(s)
      PROVE  JobsApart(t)'
  <2> DEFINE c == Chain("staleDelete", t, chain[s].job, chain[s].lr, FALSE, GetAll(t))
  <2>1. /\ UNCHANGED <<page, disk, task, first, reports>> /\ At(s, "stale") /\ chain[s].tab = t
        /\ chain' = [chain EXCEPT ![s] = c]
        /\ chain[s].job \in Jobs /\ Busy(s)
    BY <1>0, <1>8 DEF TimeOutJob, WellFormedChain, Busy
  <2>2. running'[t] = running[t] \ {chain[s].job}
    BY <1>8, <2>1 DEF TimeOutJob, TypeOK
  <2>3. \A i \in Jobs : i # chain[s].job => timeouts'[i] = timeouts[i]
    BY <1>8, <2>1 DEF TimeOutJob, TypeOK
  <2>4. \A i \in Jobs : UNCHANGED Outcomes(i) \/ (i = chain[s].job /\ Busy(s))
    BY <2>1, <2>3 DEF Outcomes
  <2>5. c.pc = "staleDelete" /\ c.job = chain[s].job /\ ~ c.fin
    BY DEF Chain
  <2>6. QED
    BY <2>1, <2>2, <2>4, <2>5, ApartStep
<1>9. ASSUME NEW s \in Slots, Answer(s)
      PROVE  JobsApart(t)'
  <2>1. /\ UNCHANGED <<page, disk, task, running, first, reports, timeouts>>
        /\ At(s, "fetch") /\ chain[s].tab = t /\ chain[s].job \in Jobs /\ Busy(s)
    BY <1>0, <1>9 DEF Answer, WellFormedChain, Busy
  <2>2. PICK fin \in BOOLEAN :
          /\ fin => task[chain[s].job] = "done"
          /\ chain' = [chain EXCEPT ![s] = Chain("replied", t, chain[s].job, chain[s].lr, fin, EmptyList)]
    BY <1>9, <2>1 DEF Answer, Finished
  <2> DEFINE c == Chain("replied", t, chain[s].job, chain[s].lr, fin, EmptyList)
  <2>3. /\ c.pc = "replied" /\ c.job = chain[s].job /\ c.fin = fin
        /\ c.lr = chain[s].lr /\ c.lr \in {"fresh", "late"}
    BY <2>1 DEF Chain, JobsApart, RunTimesKnown
  <2>4. \A i \in Jobs : UNCHANGED Outcomes(i)
    BY <2>1 DEF Outcomes
  <2>5. QED
    BY <2>1, <2>2, <2>3, <2>4, ApartStep DEF Tracked
<1>10. ASSUME NEW s \in Slots, Deliver(s)
       PROVE  JobsApart(t)'
  <2> DEFINE c == [chain[s] EXCEPT !.pc = "answered"]
  <2>1. /\ UNCHANGED <<page, disk, task, running, first, timeouts>> /\ At(s, "replied")
        /\ chain[s].job \in Jobs /\ Busy(s) /\ chain' = [chain EXCEPT ![s] = c]
        /\ \A i \in Jobs : i # chain[s].job => reports'[i] = reports[i]
    BY <1>0, <1>10 DEF Deliver, WellFormedChain, Busy, TypeOK
  <2>2. \A i \in Jobs : UNCHANGED Outcomes(i) \/ (i = chain[s].job /\ Busy(s))
    BY <2>1 DEF Outcomes
  <2>3. /\ c.pc = "answered" /\ c.job = chain[s].job /\ c.fin = chain[s].fin /\ c.lr = chain[s].lr
    BY ChainFields DEF Chains
  <2>4. /\ c.lr \in {"fresh", "late"} /\ (c.fin => task[c.job] = "done")
    BY <2>1, <2>3 DEF JobsApart, RunTimesKnown
  <2>5. QED
    BY <2>1, <2>2, <2>3, <2>4, ApartStep DEF Tracked
<1>11. ASSUME NEW s \in Slots, EndRun(s)
       PROVE  JobsApart(t)'
  <2> DEFINE c == [chain[s] EXCEPT !.pc = "runDelete", !.snap = GetAll(t)]
  <2>1. /\ UNCHANGED <<page, disk, task, first, reports, timeouts>> /\ At(s, "answered")
        /\ chain[s].tab = t /\ chain[s].job \in Jobs /\ Busy(s)
        /\ chain' = [chain EXCEPT ![s] = c]
    BY <1>0, <1>11 DEF EndRun, WellFormedChain, Busy
  <2>2. running'[t] = running[t] \ {chain[s].job}
    BY <1>11, <2>1 DEF EndRun, TypeOK
  <2>3. \A i \in Jobs : UNCHANGED Outcomes(i)
    BY <2>1 DEF Outcomes
  <2>4. /\ c.pc = "runDelete" /\ c.job = chain[s].job /\ c.fin = chain[s].fin /\ c.lr = chain[s].lr
    BY ChainFields DEF Chains
  <2>5. /\ c.lr \in {"fresh", "late"} /\ (c.fin => task[c.job] = "done")
    BY <2>1, <2>4 DEF JobsApart, RunTimesKnown
  <2>6. QED
    BY <2>1, <2>2, <2>3, <2>4, <2>5, ApartStep
<1>12. ASSUME NEW j \in Jobs, FinishTask(j) \/ PassDeadline(j)
       PROVE  JobsApart(t)'
  <2>1. UNCHANGED <<page, disk, chain, running, first, reports, timeouts>>
    BY <1>12 DEF FinishTask, PassDeadline
  <2>2. \A i \in Jobs : /\ task'[i] = "none" <=> task[i] = "none"
                        /\ task[i] = "done" => task'[i] = "done"
    BY <1>12 DEF FinishTask, PassDeadline, TypeOK
  <2>3. QED
    BY <1>0, <2>1, <2>2, ApartCluster
<1>13. CASE UNCHANGED vars
  BY <1>0, <1>13, ApartCluster DEF vars
<1>14. QED
  BY <1>1, <1>2, <1>3, <1>4, <1>5, <1>6, <1>7, <1>8, <1>9, <1>10, <1>11, <1>12, <1>13
  DEF Next, Continue, Receive

LEMMA ApartInit ==
  ASSUME JobSchedulerAssumption, Init, NEW t \in Tabs
  PROVE  JobsApart(t)
<1>1. \A s \in Slots : chain[s] = Idle
  BY DEF Init
<1>2. Idle.pc = "idle" /\ ~ Idle.fin
  BY DEF Idle
<1>3. \A k \in Stores, j \in Jobs : ~ Stored(k, j)
  BY DEF Init, Stored, EmptyList
<1>4. running[t] = {} /\ first[t] = {} /\ \A j \in Jobs : Outcomes(j) = 0
  BY DEF Init, Outcomes
<1>5. NotBorn(t) /\ Newborn(t)
  BY <1>1, <1>2, <1>3, <1>4 DEF NotBorn, Newborn
<1>6. HandledUntracked(t) /\ RunTimesKnown
  BY <1>1, <1>2 DEF HandledUntracked, RunTimesKnown
<1>7. OneList(t)
  BY <1>1, <1>2, <1>3 DEF OneList, Stores
<1>8. QED
  BY <1>4, <1>5, <1>6, <1>7 DEF JobsApart

-----------------------------------------------------------------------------
(* The map knows the polls of the jobs of the list, and a job without a    *)
(* first-run timer has one at a time.                                      *)

\* Steps that neither start nor end a poll; loopJob arms the timers of "found".
LEMMA PollsSame ==
  ASSUME NEW t \in Tabs, PollsTracked(t), NEW found,
         running'[t] = running[t] \cup found, armed'[t] = armed[t] \cup found,
         found \cap running[t] = {}, Store(t)' = Store(t),
         \A j \in running[t] : Stored(Store(t), j)' => Stored(Store(t), j),
         \A x \in Slots, j \in Jobs : Polls(x, t, j)' <=> Polls(x, t, j),
         running[t] \subseteq Jobs
  PROVE  PollsTracked(t)'
<1>1. armed'[t] \subseteq running'[t]
  BY DEF PollsTracked
<1>2. ASSUME NEW j \in running'[t], Stored(Store(t), j)'
      PROVE  Watched(t, j)'
  <2>1. CASE j \in found
    BY <2>1 DEF Watched
  <2>2. CASE j \in running[t]
    <3>1. Watched(t, j) /\ j \in Jobs
      BY <1>2, <2>2 DEF PollsTracked
    <3>2. QED
      BY <3>1 DEF Watched
  <2>3. QED
    BY <1>2, <2>1, <2>2
<1>3. \A j \in Jobs \ FirstRun, x, y \in Slots : Polls(x, t, j)' /\ Polls(y, t, j)' => x = y
  BY DEF PollsTracked
<1>4. \A j \in Jobs \ FirstRun, x \in Slots :
        Polls(x, t, j)' => j \in running'[t] /\ j \notin armed'[t]
  BY DEF PollsTracked
<1>5. QED
  BY <1>1, <1>2, <1>3, <1>4 DEF PollsTracked

\* A chain that does not poll before or after its step, or that goes on polling.
LEMMA PollsStill ==
  ASSUME TypeOK, NEW t \in Tabs, PollsTracked(t), NEW s \in Slots, NEW c,
         chain' = [chain EXCEPT ![s] = c],
         UNCHANGED <<page, running, armed>>,
         \A j \in running[t] : Stored(Store(t), j)' => Stored(Store(t), j),
         \A j \in Jobs : Polls(s, t, j)' <=> Polls(s, t, j)
  PROVE  PollsTracked(t)'
<1>1. \A x \in Slots : x # s => chain'[x] = chain[x]
  BY DEF TypeOK
<1>2. \A x \in Slots, j \in Jobs : Polls(x, t, j)' <=> Polls(x, t, j)
  BY <1>1 DEF Polls
<1>3. Store(t)' = Store(t)
  BY DEF Store, Registered
<1>4. running[t] \subseteq Jobs
  BY DEF TypeOK
<1> DEFINE found == {}
<1>5. running'[t] = running[t] \cup found /\ armed'[t] = armed[t] \cup found
  OBVIOUS
<1>6. found \cap running[t] = {}
  OBVIOUS
<1> HIDE DEF found
<1>7. QED
  BY <1>2, <1>3, <1>4, <1>5, <1>6, PollsSame

LEMMA PollsNext ==
  ASSUME OneTab, TypeOK, JobSchedulerAssumption, NEW t \in Tabs, OneAtATime(t),
         JobsApart(t), PollsTracked(t), [Next]_vars
  PROVE  PollsTracked(t)'
<1>0. /\ \A u \in Tabs : u = t
      /\ \A s \in Slots : ~ At(s, "idle") => chain[s].tab = t /\ page[t] # "closed"
      /\ \A s \in Slots : WellFormedChain(chain[s])
      /\ running[t] \subseteq Jobs /\ armed[t] \subseteq running[t]
      /\ Idle.pc = "idle"
  BY TheTab DEF OneAtATime, AtRestWhenClosed, TypeOK, PollsTracked, Idle
<1>1. UNCHANGED <<page, disk>> =>
        /\ Store(t)' = Store(t)
        /\ \A j \in running[t] : Stored(Store(t), j)' => Stored(Store(t), j)
  BY DEF Stored, Store, Registered
<1>2. ASSUME UNCHANGED disk, NEW k
      PROVE  \A j : Stored(k, j)' <=> Stored(k, j)
  BY <1>2 DEF Stored
<1>3. ASSUME NEW u \in Tabs, (\E s \in Slots : OpenTab(u, s)) \/ JobHandlerRegister(u) \/ CloseTab(u)
      PROVE  PollsTracked(t)'
  <2>1. /\ u = t
        /\ armed'[t] \subseteq running'[t]
        /\ CloseTab(t) \/ (\E s \in Slots : OpenTab(t, s)) => running'[t] = {}
    BY <1>0, <1>3 DEF OpenTab, JobHandlerRegister, CloseTab, OneAtATime, AtRestWhenClosed, TypeOK
  <2>2. \A x \in Slots, j \in Jobs : ~ Polls(x, t, j)'
    <3>1. CASE \E s \in Slots : OpenTab(t, s)
      BY <3>1 DEF OpenTab, Polls, Chain, OneAtATime, AtRestWhenClosed, TypeOK
    <3>2. CASE JobHandlerRegister(t)
      <4>1. ~ Registered(t) /\ chain' = chain /\ \A s \in Slots : chain[s].pc \in Waiting
        BY <3>2, RestIsClean DEF JobHandlerRegister, Registered
      <4>2. QED
        BY <1>0, <4>1 DEF Polls, WellFormedChain, Waiting
    <3>3. CASE CloseTab(t)
      BY <1>0, <3>3 DEF CloseTab, Polls
    <3>4. QED
      BY <1>3, <2>1, <3>1, <3>2, <3>3
  <2>3. ASSUME NEW j \in running'[t]
        PROVE  ~ Stored(Store(t), j)'
    <3>1. JobHandlerRegister(t) /\ j \in running[t] /\ page[t] = "loaded"
      BY <1>3, <2>1, <2>3 DEF JobHandlerRegister
    <3>2. ~ Stored("user", j)
      BY <1>0, <3>1 DEF JobsApart, OneList
    <3>3. Store(t)' = "user" /\ disk' = disk
      BY <3>1 DEF JobHandlerRegister, Store, Registered, TypeOK
    <3>4. QED
      BY <3>2, <3>3 DEF Stored
  <2>4. QED
    BY <2>1, <2>2, <2>3 DEF PollsTracked
<1>4. ASSUME NEW u \in Tabs, NEW j \in Jobs, NEW s \in Slots, StartOperation(u, j, s)
      PROVE  PollsTracked(t)'
  <2> DEFINE c == Chain("starting", u, j, "none", FALSE, EmptyList)
  <2>1. UNCHANGED <<page, running, armed, disk>> /\ At(s, "idle") /\ chain' = [chain EXCEPT ![s] = c]
    BY <1>4 DEF StartOperation
  <2>2. c.pc = "starting" /\ chain'[s] = c
    BY <2>1 DEF Chain, TypeOK
  <2>3. \A i \in Jobs : Polls(s, t, i)' <=> Polls(s, t, i)
    BY <2>1, <2>2 DEF Polls
  <2>4. QED
    BY <1>1, <2>1, <2>3, PollsStill
<1>5. ASSUME NEW u \in Tabs, NEW j \in Jobs, NEW s \in Slots,
             FireTimer(u, j, s) \/ FireFirstRun(u, j, s)
      PROVE  PollsTracked(t)'
  <2> DEFINE c == Chain(IF Registered(t) THEN "fetch" ELSE "answered",
                        t, j, Now(j), FALSE, EmptyList)
  <2>1. /\ UNCHANGED <<page, disk, running>> /\ RunJob(s, t, j) /\ At(s, "idle") /\ u = t
        /\ armed'[t] \subseteq armed[t] /\ \A i \in armed[t] : i # j => i \in armed'[t]
    BY <1>0, <1>5 DEF FireTimer, FireFirstRun, TypeOK
  <2>2. Store(t)' = Store(t) /\ \A i : Stored(Store(t), i)' <=> Stored(Store(t), i)
    BY <2>1 DEF Store, Registered, Stored
  <2>3. armed'[t] \subseteq running'[t]
    BY <1>0, <2>1
  <2>4. CASE GetAll(t)[j] = "absent"
    <3>1. UNCHANGED chain /\ ~ Stored(Store(t), j)
      BY <2>1, <2>4 DEF RunJob, GetAll, Stored
    <3>2. \A x \in Slots, i \in Jobs : Polls(x, t, i)' <=> Polls(x, t, i)
      BY <3>1 DEF Polls
    <3>3. ASSUME NEW i \in running'[t], Stored(Store(t), i)'
          PROVE  Watched(t, i)'
      <4>1. i \in Jobs /\ i # j /\ Watched(t, i)
        BY <1>0, <2>1, <2>2, <3>1, <3>3 DEF PollsTracked
      <4>2. QED
        BY <2>1, <3>2, <4>1 DEF Watched
    <3>4. QED
      BY <2>1, <2>3, <3>2, <3>3 DEF PollsTracked
  <2>5. CASE GetAll(t)[j] # "absent"
    <3>1. chain' = [chain EXCEPT ![s] = c]
      BY <2>1, <2>5 DEF RunJob
    <3>2. c.pc \in {"fetch", "answered"} /\ c.job = j /\ c.tab = t
      BY DEF Chain
    <3>3. chain'[s] = c /\ \A x \in Slots : x # s => chain'[x] = chain[x]
      BY <3>1 DEF TypeOK
    <3>4. /\ Polls(s, t, j)'
          /\ \A x \in Slots, i \in Jobs : Polls(x, t, i) => Polls(x, t, i)'
          /\ \A x \in Slots, i \in Jobs : Polls(x, t, i)' => Polls(x, t, i) \/ (x = s /\ i = j)
      BY <2>1, <3>2, <3>3 DEF Polls
    <3>5. ASSUME NEW i \in running'[t], Stored(Store(t), i)'
          PROVE  Watched(t, i)'
      <4>1. i \in Jobs /\ Watched(t, i)
        BY <1>0, <2>1, <2>2, <3>5 DEF PollsTracked
      <4>2. QED
        BY <2>1, <3>4, <4>1 DEF Watched
    <3>6. j \in Jobs \ FirstRun =>
            j \in running'[t] /\ j \notin armed'[t] /\ \A x \in Slots : ~ Polls(x, t, j)
      <4>1. j \in Jobs \ FirstRun => FireTimer(t, j, s)
        BY <1>5, <2>1 DEF FireFirstRun, JobsApart
      <4>2. FireTimer(t, j, s) => j \in armed[t] /\ armed'[t] = armed[t] \ {j}
        BY DEF FireTimer, TypeOK
      <4>3. QED
        BY <1>0, <2>1, <4>1, <4>2 DEF PollsTracked
    <3>7. \A i \in Jobs \ FirstRun, x, y \in Slots : Polls(x, t, i)' /\ Polls(y, t, i)' => x = y
      BY <3>4, <3>6 DEF PollsTracked
    <3>8. \A i \in Jobs \ FirstRun, x \in Slots :
            Polls(x, t, i)' => i \in running'[t] /\ i \notin armed'[t]
      BY <2>1, <3>4, <3>6 DEF PollsTracked
    <3>9. QED
      BY <2>3, <3>5, <3>7, <3>8 DEF PollsTracked
  <2>6. QED
    BY <2>4, <2>5
<1>6. ASSUME NEW s \in Slots, SubmitJob(s) \/ ReAddJob(s)
      PROVE  PollsTracked(t)'
  <2> DEFINE c == Chain("set", chain[s].tab, chain[s].job, chain[s].lr, FALSE, GetAll(chain[s].tab))
  <2>1. /\ UNCHANGED <<page, running, armed, disk>> /\ chain[s].pc \in {"starting", "readd"}
        /\ \E d \in {Idle, c} : chain' = [chain EXCEPT ![s] = d]
    BY <1>6 DEF SubmitJob, ReAddJob, AddJob
  <2>2. c.pc = "set" /\ (chain'[s] = Idle \/ chain'[s] = c)
    BY <2>1 DEF Chain, TypeOK
  <2>3. \A i \in Jobs : Polls(s, t, i)' <=> Polls(s, t, i)
    BY <1>0, <2>1, <2>2 DEF Polls
  <2>4. QED
    BY <1>1, <2>1, <2>3, PollsStill
<1>7. ASSUME NEW s \in Slots, StoreJob(s) \/ DeleteStaledJob(s) \/ DeleteRunJob(s)
      PROVE  PollsTracked(t)'
  <2>1. /\ UNCHANGED <<page, running, armed>>
        /\ chain[s].pc \in {"set", "staleDelete", "runDelete"} /\ chain[s].tab = t
        /\ chain[s].job \in Jobs /\ chain[s].lr \in RunTimes /\ "absent" \in RunTimes
    BY <1>0, <1>7, ChainFields DEF StoreJob, DeleteStaledJob, DeleteRunJob, WellFormedChain, RunTimes
  <2>2. \E lr \in RunTimes : Writes(s, t, lr)
    BY <1>7, <2>1 DEF StoreJob, DeleteStaledJob, DeleteRunJob, Writes
  <2>3. \A i \in Jobs : i # chain[s].job => disk'[Store(t)][i] = disk[Store(t)][i]
    <3>1. PICK lr \in RunTimes : Writes(s, t, lr)
      BY <2>2
    <3>2. \A k \in Stores, i \in Jobs :
            k # Store(t) \/ i # chain[s].job => disk'[k][i] = disk[k][i]
      BY <2>1, <3>1, WriteEffect
    <3>3. QED
      BY <3>2, StoreOfTab
  <2>4. chain[s].job \notin running[t]
    BY <2>1 DEF JobsApart, HandledUntracked
  <2>5. \A i \in running[t] : Stored(Store(t), i)' => Stored(Store(t), i)
    <3> SUFFICES ASSUME NEW i \in running[t]
                 PROVE  disk'[Store(t)'][i] = disk[Store(t)][i]
      BY DEF Stored
    <3>1. Store(t)' = Store(t)
      BY <2>1 DEF Store, Registered
    <3>2. QED
      BY <1>0, <2>3, <2>4, <3>1
  <2>6. PICK c : chain' = [chain EXCEPT ![s] = c] /\ c.pc \in {"idle", "added", "readd"}
    BY <1>0, <1>7 DEF StoreJob, DeleteStaledJob, DeleteRunJob, Chain
  <2>7. chain'[s] = c
    BY <2>6 DEF TypeOK
  <2>8. \A i \in Jobs : Polls(s, t, i)' <=> Polls(s, t, i)
    BY <2>1, <2>6, <2>7 DEF Polls
  <2>9. QED
    BY <2>1, <2>5, <2>6, <2>8, PollsStill
<1>8. ASSUME NEW s \in Slots, ArmFirstRun(s)
      PROVE  PollsTracked(t)'
  <2> DEFINE c == Chain("loop", chain[s].tab, NoJob, "absent", FALSE, GetAll(chain[s].tab))
  <2>1. UNCHANGED <<page, running, armed, disk>> /\ At(s, "added") /\ chain' = [chain EXCEPT ![s] = c]
    BY <1>8 DEF ArmFirstRun
  <2>2. c.pc = "loop" /\ chain'[s] = c
    BY <2>1 DEF Chain, TypeOK
  <2>3. \A i \in Jobs : Polls(s, t, i)' <=> Polls(s, t, i)
    BY <2>1, <2>2 DEF Polls
  <2>4. QED
    BY <1>1, <2>1, <2>3, PollsStill
<1>9. ASSUME NEW s \in Slots, LoopJob(s)
      PROVE  PollsTracked(t)'
  <2> DEFINE found == Untracked(t, chain[s].snap)
  <2>1. UNCHANGED <<page, disk>> /\ At(s, "loop") /\ chain[s].tab = t /\ LoopEffect(s, t)
    BY <1>9, LoopJobEffect DEF LoopJob
  <2>2. running'[t] = running[t] \cup found /\ armed'[t] = armed[t] \cup found
    BY <1>9, <2>1 DEF LoopJob, TypeOK
  <2>3. found \cap running[t] = {}
    BY DEF Untracked
  <2>4. Store(t)' = Store(t)
    BY <2>1 DEF Store, Registered
  <2>5. \A x \in Slots, i \in Jobs : Polls(x, t, i)' <=> Polls(x, t, i)
    <3>1. CASE chain' = [chain EXCEPT ![s] = Idle]
      BY <1>0, <2>1, <3>1 DEF Polls, TypeOK
    <3>2. ASSUME NEW j \in Jobs, NEW x \in Slots, x = s \/ At(x, "idle"),
                 chain' = [y \in Slots |->
                   IF y = x THEN Chain("stale", t, j, "late", FALSE, EmptyList)
                   ELSE IF y = s THEN Idle ELSE chain[y]]
          PROVE  \A y \in Slots, i \in Jobs : Polls(y, t, i)' <=> Polls(y, t, i)
      <4>1. Chain("stale", t, j, "late", FALSE, EmptyList).pc = "stale"
        BY DEF Chain
      <4>2. QED
        BY <1>0, <2>1, <3>2, <4>1 DEF Polls
    <3>3. QED
      BY <2>1, <3>1, <3>2 DEF LoopEffect
  <2>6. QED
    BY <1>0, <1>2, <2>1, <2>2, <2>3, <2>4, <2>5, PollsSame
\* The staled job has no timer left.
<1>10. ASSUME NEW s \in Slots, TimeOutJob(s)
       PROVE  PollsTracked(t)'
  <2> DEFINE c == Chain("staleDelete", chain[s].tab, chain[s].job, chain[s].lr, FALSE,
                        GetAll(chain[s].tab))
  <2>1. UNCHANGED <<page, disk>> /\ At(s, "stale") /\ chain' = [chain EXCEPT ![s] = c] /\ chain[s].tab = t
    BY <1>0, <1>10 DEF TimeOutJob
  <2>2. chain[s].job \notin running[t]
    BY <2>1 DEF JobsApart, HandledUntracked
  <2>3. running' = running /\ armed' = armed
    BY <1>0, <1>10, <2>1, <2>2 DEF TimeOutJob, TypeOK
  <2>4. c.pc = "staleDelete" /\ chain'[s] = c
    BY <2>1 DEF Chain, TypeOK
  <2>5. \A i \in Jobs : Polls(s, t, i)' <=> Polls(s, t, i)
    BY <2>1, <2>4 DEF Polls
  <2>6. QED
    BY <1>1, <2>1, <2>3, <2>5, PollsStill
<1>11. ASSUME NEW s \in Slots, Answer(s) \/ Deliver(s)
       PROVE  PollsTracked(t)'
  <2>1. UNCHANGED <<page, running, armed, disk>> /\ chain[s].pc \in {"fetch", "replied"}
    BY <1>11 DEF Answer, Deliver
  <2>2. PICK c : /\ chain' = [chain EXCEPT ![s] = c] /\ c.pc \in {"replied", "answered"}
                 /\ c.job = chain[s].job /\ c.tab = chain[s].tab
    <3>1. CASE Answer(s)
      BY <3>1 DEF Answer, Chain
    <3>2. CASE Deliver(s)
      <4>1. chain' = [chain EXCEPT ![s] = [chain[s] EXCEPT !.pc = "answered"]]
        BY <3>2 DEF Deliver
      <4> DEFINE c == [chain[s] EXCEPT !.pc = "answered"]
      <4>2. c.pc = "answered" /\ c.job = chain[s].job /\ c.tab = chain[s].tab
        BY ChainFields DEF Chains
      <4>3. QED
        BY <4>1, <4>2
    <3>3. QED
      BY <1>11, <3>1, <3>2
  <2>3. chain'[s] = c
    BY <2>2 DEF TypeOK
  <2>4. \A i \in Jobs : Polls(s, t, i)' <=> Polls(s, t, i)
    BY <2>1, <2>2, <2>3 DEF Polls
  <2>5. QED
    BY <1>1, <2>1, <2>2, <2>4, PollsStill
<1>12. ASSUME NEW s \in Slots, EndRun(s)
       PROVE  PollsTracked(t)'
  <2> DEFINE j == chain[s].job
             c == [chain[s] EXCEPT !.pc = "runDelete", !.snap = GetAll(chain[s].tab)]
  <2>1. /\ UNCHANGED <<page, disk>> /\ At(s, "answered") /\ chain[s].tab = t
        /\ chain' = [chain EXCEPT ![s] = c] /\ j \in Jobs
    BY <1>0, <1>12 DEF EndRun, WellFormedChain
  <2>2. running'[t] = running[t] \ {j} /\ armed'[t] = armed[t] \ {j}
    BY <1>12, <2>1 DEF EndRun, TypeOK
  <2>3. chain'[s].pc = "runDelete" /\ \A x \in Slots : x # s => chain'[x] = chain[x]
    BY <2>1, ChainFields DEF TypeOK, Chains
  <2>4. Store(t)' = Store(t)
    BY <2>1 DEF Store, Registered
  <2>5. /\ Polls(s, t, j)
        /\ \A x \in Slots, i \in Jobs : Polls(x, t, i)' <=> Polls(x, t, i) /\ x # s
        /\ \A i \in Jobs : Polls(s, t, i) => i = j
    BY <2>1, <2>3 DEF Polls
  <2>6. ASSUME NEW i \in running'[t], Stored(Store(t), i)'
        PROVE  Watched(t, i)'
    <3>1. i \in Jobs /\ i # j /\ Watched(t, i)
      BY <1>0, <1>2, <2>1, <2>2, <2>4, <2>6 DEF PollsTracked
    <3>2. QED
      BY <2>2, <2>5, <3>1 DEF Watched
  <2>7. \A i \in Jobs \ FirstRun, x, y \in Slots : Polls(x, t, i)' /\ Polls(y, t, i)' => x = y
    BY <2>5 DEF PollsTracked
  <2>8. \A i \in Jobs \ FirstRun, x \in Slots :
          Polls(x, t, i)' => i \in running'[t] /\ i \notin armed'[t]
    BY <2>1, <2>2, <2>5 DEF PollsTracked
  <2>9. QED
    BY <1>0, <2>2, <2>6, <2>7, <2>8 DEF PollsTracked
<1>13. ASSUME UNCHANGED <<page, disk, running, armed, chain>>
       PROVE  PollsTracked(t)'
  BY <1>13 DEF PollsTracked, Watched, Polls, Stored, Store, Registered
<1>14. ASSUME NEW j \in Jobs, FinishTask(j) \/ PassDeadline(j)
       PROVE  PollsTracked(t)'
  BY <1>13, <1>14 DEF FinishTask, PassDeadline
<1>15. CASE UNCHANGED vars
  BY <1>13, <1>15 DEF vars
<1>16. QED
  BY <1>3, <1>4, <1>5, <1>6, <1>7, <1>8, <1>9, <1>10, <1>11, <1>12, <1>14, <1>15
  DEF Next, Continue, Receive

LEMMA PollsInit ==
  ASSUME JobSchedulerAssumption, Init, NEW t \in Tabs
  PROVE  PollsTracked(t)
  BY DEF Init, PollsTracked, Polls, Idle

-----------------------------------------------------------------------------
(* The toasts that are left to a job are tokens: its unspent polls, its    *)
(* first-run timer and its record.  A step makes no new one, swaps one for *)
(* another, or spends one with a toast.                                    *)

LEMMA AtMostSubset ==
  ASSUME NEW T, NEW S, NEW n, AtMost(T, n), S \subseteq T
  PROVE  AtMost(S, n)
  BY DEF AtMost

LEMMA AtMostSwap ==
  ASSUME NEW T, NEW S, NEW n, NEW a \in T, NEW b, AtMost(T, n), S \subseteq (T \ {a}) \cup {b}
  PROVE  AtMost(S, n)
<1>1. n = 0 => S = {}
  BY DEF AtMost
<1>2. ASSUME n = 1, NEW x \in S, NEW y \in S
      PROVE  x = y
  BY <1>2 DEF AtMost
<1>3. ASSUME n = 2, NEW x \in S, NEW y \in S, NEW z \in S
      PROVE  x = y \/ x = z \/ y = z
  <2>1. \A p, q, r \in T : p = q \/ p = r \/ q = r
    BY <1>3 DEF AtMost
  <2>2. \A p, q \in T \ {a} : p = q
    BY <2>1
  <2>3. QED
    BY <2>2
<1>4. QED
  BY <1>1, <1>2, <1>3 DEF AtMost

LEMMA AtMostSpend ==
  ASSUME NEW T, NEW S, NEW n \in 0 .. 2, NEW a \in T, AtMost(T, n), S \subseteq T \ {a}
  PROVE  n # 0 /\ AtMost(S, n - 1)
<1>1. n # 0
  BY DEF AtMost
<1>2. CASE n = 1
  BY <1>2 DEF AtMost
<1>3. CASE n = 2
  <2>1. \A p, q, r \in T : p = q \/ p = r \/ q = r
    BY <1>3 DEF AtMost
  <2>2. \A p, q \in S : p = q
    BY <2>1
  <2>3. n - 1 = 1
    BY <1>3
  <2>4. QED
    BY <1>1, <2>2, <2>3 DEF AtMost
<1>4. QED
  BY <1>1, <1>2, <1>3

LEMMA TokenMembers ==
  ASSUME NEW t, NEW j
  PROVE  /\ \A s \in Slots : <<"poll", s>> \in Tokens(t, j) <=> Unspent(s, j)
         /\ FirstToken \in Tokens(t, j) <=> FirstRunLeft(t, j)
         /\ RecordToken \in Tokens(t, j) <=> RecordLeft(t, j)
         /\ \A a \in Tokens(t, j) :
              \/ a = FirstToken \/ a = RecordToken
              \/ \E s \in Slots : a = <<"poll", s>>
  BY DEF Tokens, FirstToken, RecordToken

LEMMA TokensPrimed ==
  ASSUME NEW t, NEW j
  PROVE  /\ \A s \in Slots : <<"poll", s>> \in Tokens(t, j)' <=> Unspent(s, j)'
         /\ FirstToken \in Tokens(t, j)' <=> FirstRunLeft(t, j)'
         /\ RecordToken \in Tokens(t, j)' <=> RecordLeft(t, j)'
         /\ \A a \in Tokens(t, j)' :
              \/ a = FirstToken \/ a = RecordToken
              \/ \E s \in Slots : a = <<"poll", s>>
  BY DEF Tokens, FirstToken, RecordToken

LEMMA TokenKinds ==
  /\ FirstToken # RecordToken
  /\ \A s : <<"poll", s>> # FirstToken /\ <<"poll", s>> # RecordToken
  /\ \A s, x : <<"poll", s>> = <<"poll", x>> => s = x
  BY DEF FirstToken, RecordToken

\* The toasts that are left to a job.
Budget(t, j) ==
  /\ Outcomes(j) <= Watch!Allowed(j)
  /\ AtMost(Tokens(t, j), Watch!Allowed(j) - Outcomes(j))

LEMMA BudgetTypes ==
  ASSUME TypeOK, JobSchedulerAssumption, NEW t, NEW j \in Jobs, Budget(t, j)
  PROVE  /\ Watch!Allowed(j) \in 1 .. 2 /\ Outcomes(j) \in Nat
         /\ Watch!Allowed(j) - Outcomes(j) \in 0 .. 2
  BY DEF TypeOK, JobSchedulerAssumption, Budget, Outcomes, Watch!Allowed

\* Nothing new.
LEMMA BudgetKept ==
  ASSUME NEW t, NEW j, Budget(t, j), Outcomes(j)' = Outcomes(j),
         \A s \in Slots : Unspent(s, j)' => Unspent(s, j),
         FirstRunLeft(t, j)' => FirstRunLeft(t, j),
         RecordLeft(t, j)' => RecordLeft(t, j)
  PROVE  Budget(t, j)'
<1>1. Tokens(t, j)' \subseteq Tokens(t, j)
  BY TokenMembers, TokensPrimed
<1>2. Watch!Allowed(j)' = Watch!Allowed(j)
  BY DEF Watch!Allowed
<1>3. QED
  BY <1>1, <1>2, AtMostSubset DEF Budget

\* A poll ends and the record takes its place.
LEMMA PollToRecord ==
  ASSUME NEW t, NEW j, Budget(t, j), Outcomes(j)' = Outcomes(j), NEW s \in Slots,
         Unspent(s, j),
         \A x \in Slots : Unspent(x, j)' => Unspent(x, j) /\ x # s,
         FirstRunLeft(t, j)' => FirstRunLeft(t, j)
  PROVE  Budget(t, j)'
<1>1. <<"poll", s>> \in Tokens(t, j)
  BY TokenMembers
<1>2. Tokens(t, j)' \subseteq (Tokens(t, j) \ {<<"poll", s>>}) \cup {RecordToken}
  <2> SUFFICES ASSUME NEW a \in Tokens(t, j)', a # RecordToken
               PROVE  a \in Tokens(t, j) /\ a # <<"poll", s>>
    OBVIOUS
  <2>1. CASE a = FirstToken
    BY <2>1, TokenMembers, TokensPrimed, TokenKinds
  <2>2. CASE \E x \in Slots : a = <<"poll", x>>
    BY <2>2, TokenMembers, TokensPrimed, TokenKinds
  <2>3. QED
    BY <2>1, <2>2, TokensPrimed
<1>3. Watch!Allowed(j)' = Watch!Allowed(j)
  BY DEF Watch!Allowed
<1>4. QED
  BY <1>1, <1>2, <1>3, AtMostSwap DEF Budget

\* A timer starts a poll.
LEMMA TimerToPoll ==
  ASSUME NEW t, NEW j, Budget(t, j), Outcomes(j)' = Outcomes(j), NEW s \in Slots,
         \A x \in Slots : Unspent(x, j)' => Unspent(x, j) \/ x = s,
         FirstRunLeft(t, j)' => FirstRunLeft(t, j),
         RecordLeft(t, j)' => RecordLeft(t, j),
         \/ RecordLeft(t, j) /\ ~ RecordLeft(t, j)'
         \/ FirstRunLeft(t, j) /\ ~ FirstRunLeft(t, j)'
  PROVE  Budget(t, j)'
<1>1. PICK b \in Tokens(t, j) : b \notin Tokens(t, j)' /\ (b = FirstToken \/ b = RecordToken)
  BY TokenMembers, TokensPrimed
<1>2. Tokens(t, j)' \subseteq (Tokens(t, j) \ {b}) \cup {<<"poll", s>>}
  <2> SUFFICES ASSUME NEW a \in Tokens(t, j)', a # <<"poll", s>>
               PROVE  a \in Tokens(t, j) /\ a # b
    OBVIOUS
  <2>1. CASE a = FirstToken \/ a = RecordToken
    BY <1>1, <2>1, TokenMembers, TokensPrimed
  <2>2. CASE \E x \in Slots : a = <<"poll", x>>
    BY <1>1, <2>2, TokenMembers, TokensPrimed
  <2>3. QED
    BY <2>1, <2>2, TokensPrimed
<1>3. Watch!Allowed(j)' = Watch!Allowed(j)
  BY DEF Watch!Allowed
<1>4. QED
  BY <1>1, <1>2, <1>3, AtMostSwap DEF Budget

\* A toast uses up a poll or the record; the counters may have reached their bound.
LEMMA ToastSpends ==
  ASSUME TypeOK, JobSchedulerAssumption, NEW t, NEW j \in Jobs, Budget(t, j),
         Outcomes(j)' = Outcomes(j) \/ Outcomes(j)' = Outcomes(j) + 1,
         \A x \in Slots : Unspent(x, j)' => Unspent(x, j),
         FirstRunLeft(t, j)' => FirstRunLeft(t, j),
         RecordLeft(t, j)' => RecordLeft(t, j),
         \/ RecordLeft(t, j) /\ ~ RecordLeft(t, j)'
         \/ \E s \in Slots : Unspent(s, j) /\ ~ Unspent(s, j)'
  PROVE  Budget(t, j)' /\ Outcomes(j) < Watch!Allowed(j)
<1> DEFINE n == Watch!Allowed(j) - Outcomes(j)
<1>1. Watch!Allowed(j) \in 1 .. 2 /\ Outcomes(j) \in Nat /\ n \in 0 .. 2
  BY BudgetTypes
<1>2. Watch!Allowed(j)' = Watch!Allowed(j)
  BY DEF Watch!Allowed
<1>3. Tokens(t, j)' \subseteq Tokens(t, j)
  BY TokenMembers, TokensPrimed
<1>4. PICK b \in Tokens(t, j) : b \notin Tokens(t, j)'
  BY TokenMembers, TokensPrimed
<1>5. Tokens(t, j)' \subseteq Tokens(t, j) \ {b}
  BY <1>3, <1>4
<1>6. AtMost(Tokens(t, j), n)
  BY DEF Budget
<1>7. n # 0 /\ AtMost(Tokens(t, j)', n - 1)
  <2> HIDE DEF n
  <2>1. QED
    BY <1>1, <1>4, <1>5, <1>6, AtMostSpend
<1>8. Outcomes(j) < Watch!Allowed(j)
  BY <1>1, <1>7 DEF Budget
<1>9. CASE Outcomes(j)' = Outcomes(j)
  BY <1>2, <1>3, <1>6, <1>8, <1>9, AtMostSubset DEF Budget
<1>10. CASE Outcomes(j)' = Outcomes(j) + 1
  <2>1. Watch!Allowed(j) - (Outcomes(j) + 1) = n - 1
    BY <1>1
  <2>2. Outcomes(j)' <= Watch!Allowed(j)
    BY <1>1, <1>8, <1>10
  <2>3. QED
    BY <1>2, <1>7, <1>8, <1>10, <2>1, <2>2 DEF Budget
<1>11. QED
  BY <1>8, <1>9, <1>10

\* The first steps of a job.
LEMMA BudgetOfNewborn ==
  ASSUME JobSchedulerAssumption, NEW t, NEW j \in Jobs, Outcomes(j)' = 0,
         \A x \in Slots : ~ Unspent(x, j)', FirstRunLeft(t, j)' => j \in FirstRun
  PROVE  Budget(t, j)'
<1>1. Watch!Allowed(j)' = IF j \in FirstRun THEN 2 ELSE 1
  BY DEF Watch!Allowed
<1>2. \A a \in Tokens(t, j)' : a = RecordToken \/ (a = FirstToken /\ j \in FirstRun)
  BY TokensPrimed
<1>3. AtMost(Tokens(t, j)', IF j \in FirstRun THEN 2 ELSE 1)
  BY <1>2 DEF AtMost
<1>4. QED
  BY <1>1, <1>3 DEF Budget

\* A chain that handles job i, before and after its step, leaves the others alone.
LEMMA OtherBudgets ==
  ASSUME TypeOK, NEW t, NEW i, NEW s \in Slots, NEW c, chain' = [chain EXCEPT ![s] = c],
         Store(t)' = Store(t), NEW j \in Jobs, j # i, Budget(t, j),
         Busy(s) => chain[s].job = i, c.pc \notin {"idle", "loop"} => c.job = i,
         j \in armed'[t] => j \in armed[t],
         j \notin running'[t] => j \notin running[t],
         j \in first'[t] => j \in first[t],
         \A k \in Stores : Stored(k, j)' => Stored(k, j),
         Outcomes(j)' = Outcomes(j)
  PROVE  Budget(t, j)'
<1>1. chain'[s] = c /\ \A x \in Slots : x # s => chain'[x] = chain[x]
  BY DEF TypeOK
<1>2. \A pcs : \A x \in Slots : pcs \cap {"idle", "loop"} = {} =>
        (Handles(x, j, pcs)' <=> Handles(x, j, pcs)) /\ (x = s => ~ Handles(x, j, pcs))
  BY <1>1 DEF Handles, Busy
<1>3. \A x \in Slots : Unspent(x, j)' => Unspent(x, j)
  BY <1>1, <1>2 DEF Unspent
<1>4. FirstRunLeft(t, j)' => FirstRunLeft(t, j)
  BY <1>1, <1>2 DEF FirstRunLeft
<1>5. Removing(j) => Removing(j)'
  BY <1>1, <1>2 DEF Removing
<1>6. RecordLeft(t, j)' => RecordLeft(t, j)
  BY <1>1, <1>2, <1>5 DEF RecordLeft
<1>7. QED
  BY <1>3, <1>4, <1>6, BudgetKept

-----------------------------------------------------------------------------
(* The steps, for the toasts that are left.                                *)

\* What the steps below have in common: the one tab and the chain that goes on.
OneTabSoFar(t) ==
  /\ OneTab /\ TypeOK /\ JobSchedulerAssumption
  /\ OneAtATime(t) /\ JobsApart(t) /\ PollsTracked(t)

LEMMA TabFacts ==
  ASSUME NEW t \in Tabs, OneTabSoFar(t)
  PROVE  /\ \A u \in Tabs : u = t
         /\ \A s \in Slots : ~ At(s, "idle") => chain[s].tab = t /\ page[t] # "closed"
         /\ \A s \in Slots : Busy(s) => chain[s].job \in Jobs
         /\ armed[t] \subseteq running[t] /\ running[t] \subseteq Jobs
         /\ Idle.pc = "idle"
  BY TheTab DEF OneTabSoFar, OneAtATime, AtRestWhenClosed, TypeOK, PollsTracked, Idle, Busy, WellFormedChain

LEMMA BudgetStart ==
  ASSUME NEW t \in Tabs, OneTabSoFar(t), ToastsLeft(t), NEW i \in Jobs, NEW s \in Slots,
         StartOperation(t, i, s), NEW j \in Jobs
  PROVE  Budget(t, j)'
<1> USE DEF OneTabSoFar
<1> DEFINE c == Chain("starting", t, i, "none", FALSE, EmptyList)
<1>1. /\ UNCHANGED <<page, disk, running, armed, first, reports, timeouts>>
      /\ task[i] = "none" /\ At(s, "idle") /\ chain' = [chain EXCEPT ![s] = c]
  BY DEF StartOperation
<1>2. c.pc = "starting" /\ c.job = i /\ chain'[s] = c
  BY <1>1 DEF Chain, TypeOK
<1>3. /\ Store(t)' = Store(t) /\ (\A k : Stored(k, j)' <=> Stored(k, j))
      /\ Outcomes(j)' = Outcomes(j) /\ Budget(t, j)
  BY <1>1 DEF Store, Registered, Stored, Outcomes, ToastsLeft, Budget
<1>4. CASE j = i
  <2>1. /\ Outcomes(j) = 0 /\ j \notin first[t]
        /\ \A x \in Slots : chain[x].pc \notin {"idle", "loop"} => chain[x].job # j
    BY <1>1, <1>4 DEF JobsApart, NotBorn
  <2>2. \A x \in Slots : x # s => chain'[x] = chain[x]
    BY <1>1 DEF TypeOK
  <2>3. \A x \in Slots : ~ Unspent(x, j)'
    BY <1>2, <2>1, <2>2 DEF Unspent, Handles
  <2>4. FirstRunLeft(t, j)' => j \in FirstRun
    BY <1>1, <2>1 DEF FirstRunLeft
  <2>5. QED
    BY <1>3, <2>1, <2>3, <2>4, BudgetOfNewborn
<1>5. CASE j # i
  <2>1. ~ Busy(s)
    BY <1>1 DEF Busy
  <2>2. QED
    BY <1>1, <1>2, <1>3, <1>5, <2>1, OtherBudgets
<1>6. QED
  BY <1>4, <1>5

LEMMA BudgetFire ==
  ASSUME NEW t \in Tabs, OneTabSoFar(t), ToastsLeft(t), NEW i \in Jobs, NEW s \in Slots,
         FireTimer(t, i, s) \/ FireFirstRun(t, i, s), NEW j \in Jobs
  PROVE  Budget(t, j)'
<1> USE DEF OneTabSoFar
<1> DEFINE c == Chain(IF Registered(t) THEN "fetch" ELSE "answered",
                      t, i, Now(i), FALSE, EmptyList)
<1>1. /\ UNCHANGED <<page, disk, running, reports, timeouts>> /\ RunJob(s, t, i) /\ At(s, "idle")
      /\ armed'[t] \subseteq armed[t] /\ first'[t] \subseteq first[t] /\ Quiescent(t)
  BY DEF FireTimer, FireFirstRun, TypeOK
<1>2. /\ Store(t)' = Store(t) /\ (\A k : Stored(k, j)' <=> Stored(k, j))
      /\ Outcomes(j)' = Outcomes(j) /\ Budget(t, j)
  BY <1>1 DEF Store, Registered, Stored, Outcomes, ToastsLeft, Budget
<1>3. CASE GetAll(t)[i] = "absent"
  <2>1. UNCHANGED chain
    BY <1>1, <1>3 DEF RunJob
  <2>2. \A x \in Slots : Unspent(x, j)' => Unspent(x, j)
    BY <2>1 DEF Unspent, Handles
  <2>3. FirstRunLeft(t, j)' => FirstRunLeft(t, j)
    BY <1>1, <2>1 DEF FirstRunLeft, Handles
  <2>4. Removing(j)' <=> Removing(j)
    BY <2>1 DEF Removing, Handles
  <2>5. RecordLeft(t, j)' => RecordLeft(t, j)
    BY <1>1, <1>2, <2>1, <2>4 DEF RecordLeft, Handles
  <2>6. QED
    BY <1>2, <2>2, <2>3, <2>5, BudgetKept
<1>4. CASE GetAll(t)[i] # "absent"
  <2>1. chain' = [chain EXCEPT ![s] = c]
    BY <1>1, <1>4 DEF RunJob
  <2>2. c.pc \in {"fetch", "answered"} /\ c.job = i /\ chain'[s] = c /\ ~ Busy(s)
    BY <1>1, <2>1 DEF Chain, TypeOK, Busy
  <2>3. CASE j # i
    BY <1>1, <1>2, <2>1, <2>2, <2>3, OtherBudgets
  <2>4. CASE j = i
    <3>1. /\ \A x \in Slots : x # s => chain'[x] = chain[x]
          /\ \A x \in Slots : chain[x].pc \in Waiting
      BY <1>1, <2>1, RestIsClean DEF TypeOK
    <3>2. \A x \in Slots : Unspent(x, j)' => Unspent(x, j) \/ x = s
      BY <3>1 DEF Unspent, Handles
    <3>3. FirstRunLeft(t, j)' => FirstRunLeft(t, j)
      BY <1>1, <2>2, <3>1 DEF FirstRunLeft, Handles
    <3>4. ~ Removing(j) /\ ~ Removing(j)'
      BY <2>2, <3>1 DEF Removing, Handles, Waiting
    <3>5. RecordLeft(t, j)' => RecordLeft(t, j)
      BY <1>1, <1>2, <2>2, <3>1, <3>4 DEF RecordLeft, Handles
    <3>6. Stored(Store(t), j) /\ Store(t) \in Stores
      BY <1>4, <2>4, StoreOfTab DEF GetAll, Stored
    <3>7. \A x \in Slots : ~ Handles(x, j, {"starting"})
      BY <3>6 DEF Handles, JobsApart, Newborn
    <3>8. CASE FireFirstRun(t, i, s)
      <4>1. j \in first[t] /\ j \notin first'[t]
        BY <2>4, <3>8 DEF FireFirstRun, TypeOK
      <4>2. ~ FirstRunLeft(t, j)'
        BY <2>2, <3>1, <3>7, <4>1 DEF FirstRunLeft, Handles, Waiting
      <4>3. FirstRunLeft(t, j)
        BY <4>1 DEF FirstRunLeft
      <4>4. QED
        BY <1>2, <3>2, <3>3, <3>5, <4>2, <4>3, TimerToPoll
    <3>9. CASE FireTimer(t, i, s)
      <4>1. j \in armed[t] /\ j \notin armed'[t] /\ j \in running[t]
        BY <2>4, <3>9, TabFacts DEF FireTimer, TypeOK
      <4>2. \A k \in Stores : k # Store(t) => ~ Stored(k, j)
        BY <3>6, ListsOfTab DEF JobsApart, OneList
      <4>3. \A x \in Slots : ~ Handles(x, j, {"starting", "set", "readd"})' /\ ~ Handles(x, j, {"runDelete"})'
        BY <2>2, <3>1, <3>7 DEF Handles, Waiting
      <4>4. ~ RecordLeft(t, j)'
        BY <1>1, <1>2, <4>1, <4>2, <4>3 DEF RecordLeft
      <4>5. RecordLeft(t, j)
        BY <4>1 DEF RecordLeft
      <4>6. QED
        BY <1>2, <3>2, <3>3, <3>5, <4>4, <4>5, TimerToPoll
    <3>10. QED
      BY <3>8, <3>9
  <2>5. QED
    BY <2>3, <2>4
<1>5. QED
  BY <1>3, <1>4

LEMMA BudgetPage ==
  ASSUME NEW t \in Tabs, OneTabSoFar(t), ToastsLeft(t),
         (\E s \in Slots : OpenTab(t, s)) \/ JobHandlerRegister(t) \/ CloseTab(t), NEW j \in Jobs
  PROVE  Budget(t, j)'
<1> USE DEF OneTabSoFar
<1>1. /\ UNCHANGED <<disk, reports, timeouts>>
      /\ \A x \in Slots : chain[x].pc \in Waiting
  <2>1. CASE \E s \in Slots : OpenTab(t, s)
    BY <2>1 DEF OpenTab, OneAtATime, AtRestWhenClosed, Waiting
  <2>2. CASE JobHandlerRegister(t) \/ CloseTab(t)
    BY <2>2, RestIsClean DEF JobHandlerRegister, CloseTab
  <2>3. QED
    BY <2>1, <2>2
<1>2. /\ Outcomes(j)' = Outcomes(j) /\ Budget(t, j)
      /\ \A k : Stored(k, j)' <=> Stored(k, j)
  BY <1>1 DEF Outcomes, ToastsLeft, Budget, Stored
<1>3. ~ Removing(j)
  BY <1>1 DEF Removing, Handles, Waiting
<1>4. CASE \E s \in Slots : OpenTab(t, s)
  <2>1. PICK s \in Slots : OpenTab(t, s)
    BY <1>4
  <2> DEFINE c == Chain("loop", t, NoJob, "absent", FALSE, GetAll(t))
  <2>2. /\ UNCHANGED <<running, armed, first>> /\ chain' = [chain EXCEPT ![s] = c] /\ At(s, "idle")
        /\ page[t] = "closed" /\ page'[t] = "loaded"
    BY <2>1 DEF OpenTab, TypeOK
  <2>3. c.pc = "loop" /\ ~ Busy(s) /\ Store(t)' = Store(t)
    BY <2>2 DEF Chain, Busy, Store, Registered
  <2>4. NoJob # j
    BY DEF JobSchedulerAssumption
  <2>5. QED
    BY <1>2, <2>2, <2>3, <2>4, OtherBudgets
<1>5. CASE JobHandlerRegister(t)
  <2>1. UNCHANGED <<running, armed, first, chain>> /\ page[t] = "loaded" /\ page'[t] = "registered"
    BY <1>5 DEF JobHandlerRegister, TypeOK
  <2>2. \A x \in Slots : Unspent(x, j)' => Unspent(x, j)
    BY <2>1 DEF Unspent, Handles
  <2>3. FirstRunLeft(t, j)' => FirstRunLeft(t, j)
    BY <2>1 DEF FirstRunLeft, Handles
  <2>4. Store(t) = "default" /\ Store(t)' = "user"
    BY <2>1 DEF Store, Registered
  <2>5. \A x \in Slots : ~ Polls(x, t, j)
    BY <1>1, <2>1 DEF Polls, OneAtATime, WellFormedChain, Registered, Waiting
  <2>6. Stored("default", j) => j \in armed[t] \/ j \notin running[t]
    BY <2>4, <2>5 DEF PollsTracked, Watched
  <2>7. RecordLeft(t, j)' => RecordLeft(t, j)
    BY <1>2, <1>3, <2>1, <2>4, <2>6 DEF RecordLeft, Handles, Stores
  <2>8. QED
    BY <1>2, <2>2, <2>3, <2>7, BudgetKept
<1>6. CASE CloseTab(t)
  <2>1. running'[t] = {} /\ armed'[t] = {} /\ first'[t] = {} /\ \A x \in Slots : chain'[x].pc = "idle"
    BY <1>6, TabFacts DEF CloseTab, TypeOK
  <2>2. (\A x \in Slots : ~ Unspent(x, j)') /\ ~ FirstRunLeft(t, j)'
    BY <2>1 DEF Unspent, Handles, FirstRunLeft
  <2>3. CASE ~ RecordLeft(t, j)' \/ RecordLeft(t, j)
    BY <1>2, <2>2, <2>3, BudgetKept
  <2>4. CASE RecordLeft(t, j)' /\ ~ RecordLeft(t, j)
    <3>1. PICK k \in Stores : Stored(k, j)
      BY <1>2, <2>1, <2>4 DEF RecordLeft, Handles
    <3>2. k = Store(t) /\ j \in running[t] /\ j \notin armed[t]
      BY <1>3, <2>4, <3>1 DEF RecordLeft
    <3>3. PICK s \in Slots : Polls(s, t, j)
      BY <3>1, <3>2 DEF PollsTracked, Watched
    <3>4. Unspent(s, j)
      BY <1>1, <3>3 DEF Polls, Unspent, Handles, Waiting
    <3>5. QED
      BY <1>2, <2>2, <3>4, PollToRecord
  <2>5. QED
    BY <2>3, <2>4
<1>7. QED
  BY <1>4, <1>5, <1>6

LEMMA BudgetLoop ==
  ASSUME NEW t \in Tabs, OneTabSoFar(t), ToastsLeft(t), NEW s \in Slots, LoopJob(s), NEW j \in Jobs
  PROVE  Budget(t, j)'
<1> USE DEF OneTabSoFar
<1>1. chain[s].tab = t /\ Active(s) /\ LoopEffect(s, t)
  BY LoopJobEffect
<1>2. UNCHANGED <<disk, page, first, reports, timeouts>> /\ At(s, "loop") /\ chain[s].snap = GetAll(t)
  BY DEF LoopJob, OneAtATime, SnapshotsCurrent
<1>3. /\ running'[t] = running[t] \cup Untracked(t, GetAll(t))
      /\ armed'[t] = armed[t] \cup Untracked(t, GetAll(t))
  BY <1>1, <1>2 DEF LoopJob, TypeOK
<1>4. /\ Outcomes(j)' = Outcomes(j) /\ Budget(t, j) /\ Store(t)' = Store(t)
      /\ \A k : Stored(k, j)' <=> Stored(k, j)
  BY <1>2 DEF Outcomes, ToastsLeft, Budget, Stored, Store, Registered
<1>5. \A x \in Slots :
        \/ chain'[x].pc \in {"idle", "stale"}
        \/ chain'[x] = chain[x] /\ chain[x].pc \in Waiting
  <2>1. \A x \in Slots : x # s => chain[x].pc \in Waiting
    BY <1>1 DEF OneAtATime, OneActive, Active
  <2>2. CASE chain' = [chain EXCEPT ![s] = Idle]
    BY <2>1, <2>2, TabFacts DEF TypeOK
  <2>3. ASSUME NEW i \in Jobs, NEW x \in Slots,
               chain' = [y \in Slots |->
                 IF y = x THEN Chain("stale", t, i, "late", FALSE, EmptyList)
                 ELSE IF y = s THEN Idle ELSE chain[y]]
        PROVE  \A y \in Slots : \/ chain'[y].pc \in {"idle", "stale"}
                                \/ chain'[y] = chain[y] /\ chain[y].pc \in Waiting
    BY <2>1, <2>3, TabFacts DEF Chain
  <2>4. QED
    BY <1>1, <2>2, <2>3 DEF LoopEffect
<1>6. \A x \in Slots : Unspent(x, j)' => Unspent(x, j)
  BY <1>5 DEF Unspent, Handles
<1>7. FirstRunLeft(t, j)' => FirstRunLeft(t, j)
  BY <1>2, <1>5 DEF FirstRunLeft, Handles
<1>8. ~ Removing(j)
  BY <1>1, <1>2 DEF Removing, Handles, OneAtATime, OneActive, Active, Waiting
<1>9. RecordLeft(t, j)' => RecordLeft(t, j)
  <2>1. j \in Untracked(t, GetAll(t)) => Stored(Store(t), j) /\ j \notin running[t] /\ Store(t) \in Stores
    BY StoreOfTab DEF Untracked, GetAll, Stored
  <2>2. CASE j \in armed'[t]
    BY <1>3, <1>8, <2>1, <2>2 DEF RecordLeft
  <2>3. CASE \E x \in Slots : \/ Handles(x, j, {"starting", "set", "readd"})'
                              \/ Handles(x, j, {"runDelete"})' /\ ~ chain'[x].fin
    BY <1>5, <2>3 DEF RecordLeft, Handles, Waiting
  <2>4. CASE \E k \in Stores : Stored(k, j)' /\ (k = Store(t)' => j \notin running'[t])
    BY <1>3, <1>4, <1>8, <2>4 DEF RecordLeft
  <2>5. QED
    BY <2>2, <2>3, <2>4 DEF RecordLeft
<1>10. QED
  BY <1>4, <1>6, <1>7, <1>9, BudgetKept

\* addJob of a job: it is not in the map, so its record will be stored.
LEMMA BudgetAdd ==
  ASSUME NEW t \in Tabs, OneTabSoFar(t), ToastsLeft(t), NEW s \in Slots,
         SubmitJob(s) \/ ReAddJob(s), NEW j \in Jobs
  PROVE  Budget(t, j)'
<1> USE DEF OneTabSoFar
<1> DEFINE i == chain[s].job
           c == Chain("set", t, i, chain[s].lr, FALSE, GetAll(t))
<1>1. /\ UNCHANGED <<page, disk, running, armed, first, reports, timeouts>>
      /\ At(s, "starting") \/ At(s, "readd")
  BY DEF SubmitJob, ReAddJob
<1>2. chain[s].tab = t /\ Busy(s) /\ i \in Jobs
  BY <1>1, TabFacts DEF Busy
<1>3. i \notin running[t]
  BY <1>1 DEF JobsApart, Newborn, HandledUntracked
<1>4. chain' = [chain EXCEPT ![s] = c]
  BY <1>2, <1>3 DEF SubmitJob, ReAddJob, AddJob
<1>5. c.pc = "set" /\ c.job = i /\ c.lr = chain[s].lr /\ chain'[s] = c
      /\ \A x \in Slots : x # s => chain'[x] = chain[x]
  BY <1>4 DEF Chain, TypeOK
<1>6. /\ Store(t)' = Store(t) /\ (\A k : Stored(k, j)' <=> Stored(k, j))
      /\ Outcomes(j)' = Outcomes(j) /\ Budget(t, j)
  BY <1>1 DEF Store, Registered, Stored, Outcomes, ToastsLeft, Budget
<1>7. CASE j # i
  BY <1>1, <1>2, <1>4, <1>5, <1>6, <1>7, OtherBudgets
<1>8. CASE j = i
  <2>1. \A x \in Slots : Unspent(x, j)' => Unspent(x, j)
    BY <1>5 DEF Unspent, Handles
  <2>2. chain[s].lr = "none" => At(s, "starting")
    BY <1>1 DEF JobsApart, RunTimesKnown
  <2>3. FirstRunLeft(t, j)' => FirstRunLeft(t, j)
    BY <1>1, <1>5, <1>8, <2>2 DEF FirstRunLeft, Handles
  <2>4. RecordLeft(t, j)
    BY <1>1, <1>8 DEF RecordLeft, Handles
  <2>5. QED
    BY <1>6, <2>1, <2>3, <2>4, BudgetKept
<1>9. QED
  BY <1>7, <1>8

\* storage.set and storage.delete: the list of the tab has the record, or not.
LEMMA BudgetWrite ==
  ASSUME NEW t \in Tabs, OneTabSoFar(t), ToastsLeft(t), NEW s \in Slots,
         StoreJob(s) \/ DeleteStaledJob(s) \/ DeleteRunJob(s), NEW j \in Jobs
  PROVE  Budget(t, j)'
<1> USE DEF OneTabSoFar
<1> DEFINE i == chain[s].job
           lr == IF At(s, "set") THEN chain[s].lr ELSE "absent"
           c == IF At(s, "set") THEN Chain("added", t, i, chain[s].lr, FALSE, EmptyList)
                ELSE IF At(s, "staleDelete") \/ chain[s].fin THEN Idle
                ELSE Chain("readd", t, i, chain[s].lr, FALSE, EmptyList)
<1>1. /\ UNCHANGED <<page, running, armed, first, reports, timeouts>>
      /\ chain[s].pc \in {"set", "staleDelete", "runDelete"}
  BY DEF StoreJob, DeleteStaledJob, DeleteRunJob
<1>2. chain[s].tab = t /\ Busy(s) /\ i \in Jobs
  BY <1>1, TabFacts DEF Busy
<1>3. At(s, "staleDelete") => chain[s].fin = FALSE
  BY <1>1, ChainFields DEF JobsApart, RunTimesKnown
<1>4. chain' = [chain EXCEPT ![s] = c] /\ lr \in RunTimes /\ Writes(s, t, lr)
  <2>1. CASE StoreJob(s)
    BY <1>2, <2>1, ChainFields DEF StoreJob, Writes
  <2>2. CASE DeleteStaledJob(s)
    BY <1>2, <2>2 DEF DeleteStaledJob, Writes, RunTimes
  <2>3. CASE DeleteRunJob(s)
    BY <1>2, <2>3 DEF DeleteRunJob, Writes, RunTimes
  <2>4. QED
    BY <2>1, <2>2, <2>3
<1>5. /\ c.pc \in {"idle", "added", "readd"} /\ (c.pc # "idle" => c.job = i)
      /\ c.pc = "added" => At(s, "set") /\ c.lr = chain[s].lr
      /\ c.pc = "readd" => At(s, "runDelete") /\ ~ chain[s].fin
      /\ chain'[s] = c /\ \A x \in Slots : x # s => chain'[x] = chain[x]
  BY <1>1, <1>4, TabFacts DEF Chain, TypeOK
<1>6. /\ Store(t)' = Store(t) /\ disk'[Store(t)][i] = lr
      /\ \A k \in Stores : k # Store(t) \/ j # i => disk'[k][j] = disk[k][j]
  <2> HIDE DEF lr, c
  <2>1. QED
    BY <1>1, <1>2, <1>4, WriteEffect
<1>7. Outcomes(j)' = Outcomes(j) /\ Budget(t, j)
  BY <1>1 DEF Outcomes, ToastsLeft, Budget
<1>8. CASE j # i
  <2>1. \A k \in Stores : Stored(k, j)' => Stored(k, j)
    BY <1>6, <1>8 DEF Stored
  <2> HIDE DEF c
  <2>2. QED
    BY <1>1, <1>2, <1>4, <1>5, <1>6, <1>7, <1>8, <2>1, OtherBudgets
<1>9. CASE j = i
  <2>1. \A x \in Slots : Unspent(x, j)' => Unspent(x, j)
    BY <1>5 DEF Unspent, Handles
  <2>2. FirstRunLeft(t, j)' => FirstRunLeft(t, j)
    BY <1>1, <1>5, <1>9 DEF FirstRunLeft, Handles
  <2>3. CASE At(s, "set")
    <3>1. RecordLeft(t, j)
      BY <1>9, <2>3 DEF RecordLeft, Handles
    <3>2. QED
      BY <1>7, <2>1, <2>2, <3>1, BudgetKept
  <2>4. CASE ~ At(s, "set")
    <3>1. ~ Stored(Store(t), j)'
      BY <1>6, <1>9, <2>4 DEF Stored
    <3>2. \A k \in Stores : k # Store(t) => (Stored(k, j)' <=> Stored(k, j))
      BY <1>6 DEF Stored
    <3>3. \A x \in Slots : Handles(x, j, {"starting", "set", "readd"})' \/ (Handles(x, j, {"runDelete"})' /\ ~ chain'[x].fin)
                             => RecordLeft(t, j)
      BY <1>5, <1>9, <2>4 DEF RecordLeft, Handles
    <3>4. RecordLeft(t, j)' => RecordLeft(t, j)
      BY <1>1, <1>6, <3>1, <3>2, <3>3 DEF RecordLeft
    <3>5. QED
      BY <1>7, <2>1, <2>2, <3>4, BudgetKept
  <2>5. QED
    BY <2>3, <2>4
<1>10. QED
  BY <1>8, <1>9

\* The first-run timer is set by the addJob that had it left.
LEMMA BudgetArm ==
  ASSUME NEW t \in Tabs, OneTabSoFar(t), ToastsLeft(t), NEW s \in Slots, ArmFirstRun(s),
         NEW j \in Jobs
  PROVE  Budget(t, j)'
<1> USE DEF OneTabSoFar
<1> DEFINE i == chain[s].job
           c == Chain("loop", t, NoJob, "absent", FALSE, GetAll(t))
<1>1. UNCHANGED <<page, disk, running, armed, reports, timeouts>> /\ At(s, "added")
  BY DEF ArmFirstRun
<1>2. chain[s].tab = t /\ Busy(s) /\ i \in Jobs
  BY <1>1, TabFacts DEF Busy
<1>3. chain' = [chain EXCEPT ![s] = c] /\ first'[t] = first[t] \cup FirstRunTimer(chain[s])
  BY <1>2 DEF ArmFirstRun, TypeOK
<1>4. c.pc = "loop" /\ chain'[s] = c /\ \A x \in Slots : x # s => chain'[x] = chain[x]
  BY <1>3 DEF Chain, TypeOK
<1>5. /\ Store(t)' = Store(t) /\ (\A k : Stored(k, j)' <=> Stored(k, j))
      /\ Outcomes(j)' = Outcomes(j) /\ Budget(t, j)
  BY <1>1 DEF Store, Registered, Stored, Outcomes, ToastsLeft, Budget
<1>6. \A x \in Slots : Unspent(x, j)' => Unspent(x, j)
  BY <1>4 DEF Unspent, Handles
<1>7. FirstRunLeft(t, j)' => FirstRunLeft(t, j)
  BY <1>1, <1>3, <1>4 DEF FirstRunLeft, FirstRunTimer, Handles
<1>8. Removing(j) <=> Removing(j)'
  BY <1>1, <1>4 DEF Removing, Handles
<1>9. RecordLeft(t, j)' => RecordLeft(t, j)
  BY <1>1, <1>4, <1>5, <1>8 DEF RecordLeft, Handles
<1>10. QED
  BY <1>5, <1>6, <1>7, <1>9, BudgetKept

LEMMA CountUp == \A n \in Nat : Count(n) = n \/ Count(n) = n + 1
  BY DEF Count

\* The timeout toast uses up the record that is about to be removed.
LEMMA BudgetTimeOut ==
  ASSUME NEW t \in Tabs, OneTabSoFar(t), ToastsLeft(t), NEW s \in Slots, TimeOutJob(s)
  PROVE  /\ Outcomes(chain[s].job) < Watch!Allowed(chain[s].job)
         /\ \A j \in Jobs : Budget(t, j)'
<1> USE DEF OneTabSoFar
<1>0. PICK i : i = chain[s].job
  OBVIOUS
<1> DEFINE c == Chain("staleDelete", t, i, chain[s].lr, FALSE, GetAll(t))
<1>1. UNCHANGED <<page, disk, first, reports>> /\ At(s, "stale")
  BY DEF TimeOutJob
<1>2. chain[s].tab = t /\ Busy(s) /\ i \in Jobs
  BY <1>0, <1>1, TabFacts DEF Busy
<1>3. /\ chain' = [chain EXCEPT ![s] = c]
      /\ running'[t] = running[t] \ {i} /\ armed'[t] = armed[t] \ {i}
  BY <1>0, <1>2 DEF TimeOutJob, TypeOK
<1>4. c.pc = "staleDelete" /\ c.job = i /\ chain'[s] = c
      /\ \A x \in Slots : x # s => chain'[x] = chain[x] /\ ~ Active(x)
  BY <1>0, <1>1, <1>3 DEF Chain, TypeOK, OneAtATime, OneActive, Active, Waiting
<1>5. /\ Store(t)' = Store(t) /\ \A j \in Jobs : \A k : Stored(k, j)' <=> Stored(k, j)
      /\ \A j \in Jobs : Budget(t, j)
  BY <1>1 DEF Store, Registered, Stored, ToastsLeft, Budget
<1>6. /\ \A j \in Jobs : j # i => Outcomes(j)' = Outcomes(j)
      /\ Outcomes(i)' = Outcomes(i) \/ Outcomes(i)' = Outcomes(i) + 1
  <2>1. \A j \in Jobs : timeouts[j] \in Nat /\ reports[j] \in Nat
    BY DEF TypeOK, JobSchedulerAssumption
  <2>2. \A j \in Jobs : j # i => timeouts'[j] = timeouts[j]
    BY <1>0, <1>2 DEF TimeOutJob, TypeOK
  <2>3. timeouts'[i] = timeouts[i] \/ timeouts'[i] = timeouts[i] + 1
    BY <1>0, <1>2, <2>1, CountUp DEF TimeOutJob, TypeOK
  <2>4. QED
    BY <1>1, <1>2, <2>1, <2>2, <2>3 DEF Outcomes
<1>7. \A j \in Jobs : j # i => Budget(t, j)'
  <2> SUFFICES ASSUME NEW j \in Jobs, j # i
               PROVE  Budget(t, j)'
    OBVIOUS
  <2> HIDE DEF c
  <2>1. /\ Outcomes(j)' = Outcomes(j) /\ Budget(t, j)
        /\ \A k \in Stores : Stored(k, j)' => Stored(k, j)
    BY <1>5, <1>6
  <2>2. QED
    <3>1. /\ j \in armed'[t] => j \in armed[t]
          /\ j \notin running'[t] => j \notin running[t]
          /\ j \in first'[t] => j \in first[t]
      BY <1>1, <1>3
    <3>2. chain' = [chain EXCEPT ![s] = c] /\ c.job = i /\ chain[s].job = i /\ Store(t)' = Store(t)
      BY <1>0, <1>3, <1>4, <1>5
    <3>3. QED
      BY <2>1, <3>1, <3>2, OtherBudgets
<1>8. \A x \in Slots : Unspent(x, i)' => Unspent(x, i)
  BY <1>0, <1>1, <1>4 DEF Unspent, Handles
<1>9. FirstRunLeft(t, i)' => FirstRunLeft(t, i)
  BY <1>0, <1>1, <1>4 DEF FirstRunLeft, Handles
<1>10. i \notin running[t] /\ Stored(Store(t), i) /\ Store(t) \in Stores
  <2>1. i \notin running[t]
    BY <1>0, <1>1 DEF JobsApart, HandledUntracked
  <2>2. GetAll(t)[i] = "late"
    BY <1>0, <1>1 DEF OneAtATime, OneLateRecord
  <2>3. QED
    BY <2>1, <2>2, StoreOfTab DEF GetAll, Stored
<1>11. ~ Removing(i)
  BY <1>0, <1>1, <1>4 DEF Removing, Handles, Active, Waiting
<1>12. RecordLeft(t, i)
  BY <1>10, <1>11 DEF RecordLeft
<1>13. ~ RecordLeft(t, i)'
  <2>1. Removing(i)'
    BY <1>4 DEF Removing, Handles
  <2>2. \A x \in Slots : ~ Handles(x, i, {"starting"})
    BY <1>10 DEF JobsApart, Newborn, Handles
  <2>3. \A x \in Slots : ~ Handles(x, i, {"starting", "set", "readd"})' /\ ~ Handles(x, i, {"runDelete"})'
    BY <1>4, <2>2 DEF Handles, Active, Waiting
  <2>4. \A k \in Stores : k # Store(t) => ~ Stored(k, i)
    BY <1>0, <1>1, <1>2, <1>10, ListsOfTab DEF JobsApart, OneList
  <2>5. QED
    BY <1>2, <1>3, <1>5, <2>1, <2>3, <2>4 DEF RecordLeft
<1>14. Budget(t, i)' /\ Outcomes(i) < Watch!Allowed(i)
  <2> HIDE DEF c
  <2>1. i \in Jobs /\ Budget(t, i)
    BY <1>2, <1>5
  <2>2. QED
    BY <2>1, <1>6, <1>8, <1>9, <1>12, <1>13, ToastSpends
<1>15. QED
  BY <1>0, <1>7, <1>14

LEMMA BudgetAnswer ==
  ASSUME NEW t \in Tabs, OneTabSoFar(t), ToastsLeft(t), NEW s \in Slots, Answer(s), NEW j \in Jobs
  PROVE  Budget(t, j)'
<1> USE DEF OneTabSoFar
<1>1. UNCHANGED <<page, disk, running, armed, first, reports, timeouts>> /\ At(s, "fetch")
  BY DEF Answer
<1>2. PICK fin : chain' = [chain EXCEPT ![s] =
                   Chain("replied", chain[s].tab, chain[s].job, chain[s].lr, fin, EmptyList)]
  BY DEF Answer
<1>3. /\ chain'[s].pc = "replied" /\ chain'[s].job = chain[s].job
      /\ \A x \in Slots : x # s => chain'[x] = chain[x]
  BY <1>2 DEF TypeOK, Chain
<1>4. /\ Store(t)' = Store(t) /\ (\A k : Stored(k, j)' <=> Stored(k, j))
      /\ Outcomes(j)' = Outcomes(j) /\ Budget(t, j)
  BY <1>1 DEF Store, Registered, Stored, Outcomes, ToastsLeft, Budget
<1>5. \A x \in Slots : Unspent(x, j)' => Unspent(x, j)
  BY <1>1, <1>3 DEF Unspent, Handles
<1>6. FirstRunLeft(t, j)' => FirstRunLeft(t, j)
  BY <1>1, <1>3 DEF FirstRunLeft, Handles
<1>7. Removing(j) => Removing(j)'
  BY <1>1, <1>3 DEF Removing, Handles
<1>8. RecordLeft(t, j)' => RecordLeft(t, j)
  BY <1>1, <1>3, <1>4, <1>7 DEF RecordLeft, Handles
<1>9. QED
  BY <1>4, <1>5, <1>6, <1>8, BudgetKept

\* The toast with the result uses up the poll that found it.
LEMMA BudgetDeliver ==
  ASSUME NEW t \in Tabs, OneTabSoFar(t), ToastsLeft(t), NEW s \in Slots, Deliver(s)
  PROVE  /\ chain[s].fin => Outcomes(chain[s].job) < Watch!Allowed(chain[s].job)
         /\ \A j \in Jobs : Budget(t, j)'
<1> USE DEF OneTabSoFar
<1>0. PICK i : i = chain[s].job
  OBVIOUS
<1> DEFINE c == [chain[s] EXCEPT !.pc = "answered"]
<1>1. /\ UNCHANGED <<page, disk, running, armed, first, timeouts>> /\ At(s, "replied")
      /\ chain' = [chain EXCEPT ![s] = c]
  BY DEF Deliver
<1>2. chain[s].tab = t /\ Busy(s) /\ i \in Jobs
  BY <1>0, <1>1, TabFacts DEF Busy
<1>3. c.pc = "answered" /\ c.job = i /\ c.fin = chain[s].fin /\ chain'[s] = c
      /\ \A x \in Slots : x # s => chain'[x] = chain[x]
  BY <1>0, <1>1, ChainFields DEF TypeOK, Chains
<1>4. /\ Store(t)' = Store(t) /\ \A j \in Jobs : \A k : Stored(k, j)' <=> Stored(k, j)
      /\ \A j \in Jobs : Budget(t, j)
  BY <1>1 DEF Store, Registered, Stored, ToastsLeft, Budget
<1>5. /\ \A j \in Jobs : j # i \/ ~ chain[s].fin => Outcomes(j)' = Outcomes(j)
      /\ Outcomes(i)' = Outcomes(i) \/ Outcomes(i)' = Outcomes(i) + 1
  <2>1. \A j \in Jobs : timeouts[j] \in Nat /\ reports[j] \in Nat
    BY DEF TypeOK, JobSchedulerAssumption
  <2>2. \A j \in Jobs : j # i \/ ~ chain[s].fin => reports'[j] = reports[j]
    BY <1>0, <1>2 DEF Deliver, TypeOK
  <2>3. reports'[i] = reports[i] \/ reports'[i] = reports[i] + 1
    BY <1>0, <1>2, <2>1, CountUp DEF Deliver, TypeOK
  <2>4. QED
    BY <1>1, <1>2, <2>1, <2>2, <2>3 DEF Outcomes
<1>6. \A j \in Jobs : j # i => Budget(t, j)'
  <2> SUFFICES ASSUME NEW j \in Jobs, j # i
               PROVE  Budget(t, j)'
    OBVIOUS
  <2> HIDE DEF c
  <2>1. /\ Outcomes(j)' = Outcomes(j) /\ Budget(t, j)
        /\ \A k \in Stores : Stored(k, j)' => Stored(k, j)
    BY <1>4, <1>5
  <2>2. QED
    BY <1>0, <1>1, <1>2, <1>3, <1>4, <1>5, <2>1, OtherBudgets
<1>7. \A x \in Slots : Unspent(x, i)' => Unspent(x, i)
  BY <1>0, <1>1, <1>3 DEF Unspent, Handles
<1>8. FirstRunLeft(t, i)' => FirstRunLeft(t, i)
  BY <1>0, <1>1, <1>3 DEF FirstRunLeft, Handles
<1>9. Removing(i) => Removing(i)'
  BY <1>0, <1>1, <1>3 DEF Removing, Handles
<1>10. RecordLeft(t, i)' => RecordLeft(t, i)
  BY <1>0, <1>1, <1>2, <1>3, <1>4, <1>9 DEF RecordLeft, Handles
<1>11. CASE ~ chain[s].fin
  BY <1>2, <1>4, <1>5, <1>6, <1>7, <1>8, <1>10, <1>11, BudgetKept
<1>12. CASE chain[s].fin
  <2>1. Unspent(s, i) /\ ~ Unspent(s, i)'
    BY <1>0, <1>1, <1>3, <1>12 DEF Unspent, Handles
  <2>2. Budget(t, i)' /\ Outcomes(i) < Watch!Allowed(i)
    <3> HIDE DEF c
    <3>1. i \in Jobs /\ Budget(t, i)
      BY <1>2, <1>4
    <3>2. QED
      BY <1>5, <1>7, <1>8, <1>10, <2>1, <3>1, ToastSpends
  <2>3. QED
    BY <1>0, <1>6, <2>2
<1>13. QED
  BY <1>11, <1>12

\* After a poll without a result the record will be stored again.
LEMMA BudgetEndRun ==
  ASSUME NEW t \in Tabs, OneTabSoFar(t), ToastsLeft(t), NEW s \in Slots, EndRun(s), NEW j \in Jobs
  PROVE  Budget(t, j)'
<1> USE DEF OneTabSoFar
<1> DEFINE i == chain[s].job
           c == [chain[s] EXCEPT !.pc = "runDelete", !.snap = GetAll(t)]
<1>1. UNCHANGED <<page, disk, first, reports, timeouts>> /\ At(s, "answered")
  BY DEF EndRun
<1>2. chain[s].tab = t /\ Busy(s) /\ i \in Jobs
  BY <1>1, TabFacts DEF Busy
<1>3. /\ chain' = [chain EXCEPT ![s] = c]
      /\ running'[t] = running[t] \ {i} /\ armed'[t] = armed[t] \ {i}
  BY <1>2 DEF EndRun, TypeOK
<1>4. c.pc = "runDelete" /\ c.job = i /\ c.fin = chain[s].fin /\ chain'[s] = c
      /\ \A x \in Slots : x # s => chain'[x] = chain[x]
  BY <1>3, ChainFields DEF TypeOK, Chains
<1>5. /\ Store(t)' = Store(t) /\ (\A k : Stored(k, j)' <=> Stored(k, j))
      /\ Outcomes(j)' = Outcomes(j) /\ Budget(t, j)
  BY <1>1 DEF Store, Registered, Stored, Outcomes, ToastsLeft, Budget
<1>6. CASE j # i
  BY <1>1, <1>2, <1>3, <1>4, <1>5, <1>6, OtherBudgets
<1>7. CASE j = i
  <2>1. \A x \in Slots : Unspent(x, j)' => Unspent(x, j) /\ x # s
    BY <1>4 DEF Unspent, Handles
  <2>2. FirstRunLeft(t, j)' => FirstRunLeft(t, j)
    BY <1>1, <1>4 DEF FirstRunLeft, Handles
  <2>3. CASE chain[s].fin
    <3>1. Removing(j)'
      BY <1>4, <1>7, <2>3 DEF Removing, Handles
    <3>2. RecordLeft(t, j)' => RecordLeft(t, j)
      BY <1>3, <1>4, <1>5, <2>3, <3>1 DEF RecordLeft, Handles
    <3>3. QED
      BY <1>5, <2>1, <2>2, <3>2, BudgetKept
  <2>4. CASE ~ chain[s].fin
    <3>1. Unspent(s, j)
      BY <1>1, <1>7, <2>4 DEF Unspent, Handles
    <3>2. QED
      BY <1>5, <2>1, <2>2, <3>1, PollToRecord
  <2>5. QED
    BY <2>3, <2>4
<1>8. QED
  BY <1>6, <1>7

LEMMA BudgetSame ==
  ASSUME NEW t \in Tabs, ToastsLeft(t), NEW j \in Jobs,
         UNCHANGED <<page, disk, chain, running, armed, first, reports, timeouts>>
  PROVE  Budget(t, j)'
<1>1. /\ Store(t)' = Store(t) /\ (\A k : Stored(k, j)' <=> Stored(k, j))
      /\ Outcomes(j)' = Outcomes(j) /\ Budget(t, j)
  BY DEF Store, Registered, Stored, Outcomes, ToastsLeft, Budget
<1>2. \A x \in Slots : Unspent(x, j)' => Unspent(x, j)
  BY DEF Unspent, Handles
<1>3. FirstRunLeft(t, j)' => FirstRunLeft(t, j)
  BY DEF FirstRunLeft, Handles
<1>4. RecordLeft(t, j)' => RecordLeft(t, j)
  BY <1>1 DEF RecordLeft, Removing, Handles
<1>5. QED
  BY <1>1, <1>2, <1>3, <1>4, BudgetKept

LEMMA ToastsNext ==
  ASSUME OneTab, TypeOK, JobSchedulerAssumption, NEW t \in Tabs, OneAtATime(t),
         JobsApart(t), PollsTracked(t), ToastsLeft(t), [Next]_vars
  PROVE  ToastsLeft(t)'
<1>1. OneTabSoFar(t)
  BY DEF OneTabSoFar
<1>2. \A u \in Tabs : u = t
  BY DEF OneTab
<1> SUFFICES ASSUME NEW j \in Jobs
             PROVE  Budget(t, j)'
  BY DEF ToastsLeft, Budget
<1>3. CASE \E s \in Slots : OpenTab(t, s) \/ (\E u \in Tabs : JobHandlerRegister(u) \/ CloseTab(u))
  BY <1>1, <1>2, <1>3, BudgetPage
<1>4. ASSUME NEW u \in Tabs, JobHandlerRegister(u) \/ CloseTab(u)
      PROVE  Budget(t, j)'
  BY <1>1, <1>2, <1>4, BudgetPage
<1>5. ASSUME NEW u \in Tabs, NEW i \in Jobs, NEW s \in Slots,
             StartOperation(u, i, s) \/ FireTimer(u, i, s) \/ FireFirstRun(u, i, s)
      PROVE  Budget(t, j)'
  BY <1>1, <1>2, <1>5, BudgetStart, BudgetFire
<1>6. ASSUME NEW s \in Slots, Continue(s) \/ Answer(s) \/ Receive(s)
      PROVE  Budget(t, j)'
  <2>1. CASE SubmitJob(s) \/ ReAddJob(s)
    BY <1>1, <2>1, BudgetAdd
  <2>2. CASE StoreJob(s) \/ DeleteStaledJob(s) \/ DeleteRunJob(s)
    BY <1>1, <2>2, BudgetWrite
  <2>3. CASE ArmFirstRun(s) \/ LoopJob(s) \/ TimeOutJob(s)
    BY <1>1, <2>3, BudgetArm, BudgetLoop, BudgetTimeOut
  <2>4. CASE Answer(s) \/ Deliver(s) \/ EndRun(s)
    BY <1>1, <2>4, BudgetAnswer, BudgetDeliver, BudgetEndRun
  <2>5. QED
    BY <1>6, <2>1, <2>2, <2>3, <2>4 DEF Continue, Receive
<1>7. ASSUME NEW i \in Jobs, FinishTask(i) \/ PassDeadline(i)
      PROVE  Budget(t, j)'
  BY <1>7, BudgetSame DEF FinishTask, PassDeadline
<1>8. CASE UNCHANGED vars
  BY <1>8, BudgetSame DEF vars
<1>9. QED
  BY <1>2, <1>3, <1>4, <1>5, <1>6, <1>7, <1>8 DEF Next

LEMMA ToastsInit ==
  ASSUME JobSchedulerAssumption, Init, NEW t \in Tabs
  PROVE  ToastsLeft(t)
<1> SUFFICES ASSUME NEW j \in Jobs
             PROVE  /\ Outcomes(j) <= Watch!Allowed(j)
                    /\ AtMost(Tokens(t, j), Watch!Allowed(j) - Outcomes(j))
  BY DEF ToastsLeft
<1>1. Outcomes(j) = 0 /\ Watch!Allowed(j) \in 1 .. 2
  BY DEF Init, Outcomes, Watch!Allowed
<1>2. Idle.pc = "idle" /\ \A k \in Stores : ~ Stored(k, j)
  BY DEF Idle, Init, Stored, EmptyList
<1>3. \A x \in Slots : ~ Unspent(x, j)
  BY <1>2 DEF Init, Unspent, Handles
<1>4. ~ FirstRunLeft(t, j) /\ ~ RecordLeft(t, j)
  BY <1>2 DEF Init, FirstRunLeft, RecordLeft, Handles
<1>5. Tokens(t, j) = {}
  BY <1>3, <1>4, TokenMembers
<1>6. QED
  BY <1>1, <1>5 DEF AtMost

-----------------------------------------------------------------------------
(* No job is lost before the first reload.                                 *)

\* What NoneLost says of one job.
NotLost(t, j) ==
  /\ j \notin EarlyJobs /\ task[j] # "none" =>
       \/ Outcomes(j) > 0 \/ Stored("user", j)
       \/ \E s \in Slots : Handles(s, j, {"starting", "set", "readd"})
  /\ Stored("user", j) =>
       \/ Watched(t, j)
       \/ \E s \in Slots : \/ chain[s].pc \in {"added", "loop"}
                           \/ Handles(s, j, {"runDelete", "stale", "staleDelete"})

LEMMA NoneLostByJob ==
  ASSUME NEW t
  PROVE  /\ NoneLost(t) <=> (loads[t] = 1 /\ Registered(t) => \A j \in Jobs : NotLost(t, j))
         /\ NoneLost(t)' <=> (loads'[t] = 1 /\ Registered(t)' => \A j \in Jobs : NotLost(t, j)')
  BY DEF NoneLost, NotLost

\* The toasts are counted upwards.
LEMMA SeenGrow ==
  ASSUME TypeOK, JobSchedulerAssumption, [Next]_vars, NEW j \in Jobs
  PROVE  /\ reports[j] \in Nat /\ timeouts[j] \in Nat
         /\ reports'[j] \in Nat /\ timeouts'[j] \in Nat
         /\ reports'[j] >= reports[j] /\ timeouts'[j] >= timeouts[j]
         /\ Outcomes(j) > 0 => Outcomes(j)' > 0
<1>1. reports[j] \in Nat /\ timeouts[j] \in Nat
  BY DEF TypeOK, JobSchedulerAssumption
<1>2. reports'[j] \in Nat /\ timeouts'[j] \in Nat
  BY TypeNext DEF TypeOK, JobSchedulerAssumption
<1>3. reports'[j] >= reports[j] /\ timeouts'[j] >= timeouts[j]
  <2>1. ASSUME UNCHANGED <<reports, timeouts>>
        PROVE  reports'[j] >= reports[j] /\ timeouts'[j] >= timeouts[j]
    BY <1>1, <2>1
  <2>2. ASSUME NEW s \in Slots, TimeOutJob(s)
        PROVE  reports'[j] >= reports[j] /\ timeouts'[j] >= timeouts[j]
    BY <1>1, <2>2 DEF TimeOutJob, Count, TypeOK
  <2>3. ASSUME NEW s \in Slots, Deliver(s)
        PROVE  reports'[j] >= reports[j] /\ timeouts'[j] >= timeouts[j]
    BY <1>1, <2>3 DEF Deliver, Count, TypeOK
  <2>4. ASSUME NEW s \in Slots, Continue(s) \/ Answer(s) \/ Receive(s), ~ TimeOutJob(s), ~ Deliver(s)
        PROVE  UNCHANGED <<reports, timeouts>>
    BY <2>4 DEF Continue, Receive, StoreJob, ArmFirstRun, LoopJob, DeleteStaledJob, EndRun,
       DeleteRunJob, ReAddJob, Answer, SubmitJob
  <2>5. ASSUME NEW u \in Tabs, NEW s \in Slots, OpenTab(u, s)
        PROVE  UNCHANGED <<reports, timeouts>>
    BY <2>5 DEF OpenTab
  <2>6. ASSUME NEW u \in Tabs, JobHandlerRegister(u) \/ CloseTab(u)
        PROVE  UNCHANGED <<reports, timeouts>>
    BY <2>6 DEF JobHandlerRegister, CloseTab
  <2>7. ASSUME NEW u \in Tabs, NEW i \in Jobs, NEW s \in Slots,
               StartOperation(u, i, s) \/ FireTimer(u, i, s) \/ FireFirstRun(u, i, s)
        PROVE  UNCHANGED <<reports, timeouts>>
    BY <2>7 DEF StartOperation, FireTimer, FireFirstRun
  <2>8. ASSUME NEW i \in Jobs, FinishTask(i) \/ PassDeadline(i)
        PROVE  UNCHANGED <<reports, timeouts>>
    BY <2>8 DEF FinishTask, PassDeadline
  <2>9. CASE UNCHANGED vars
    BY <2>1, <2>9 DEF vars
  <2>10. QED
    BY <2>1, <2>2, <2>3, <2>4, <2>5, <2>6, <2>7, <2>8, <2>9 DEF Next
<1>4. QED
  BY <1>1, <1>2, <1>3 DEF Outcomes

\* The part about the chains that go on after a toast.
LEMMA AnnouncedStep ==
  ASSUME TypeOK, JobSchedulerAssumption, [Next]_vars, Announced, NEW s \in Slots, NEW c,
         chain' = [chain EXCEPT ![s] = c], UNCHANGED page,
         \A x \in Slots : WellFormedChain(chain[x]),
         c.fin /\ c.pc \in {"answered", "runDelete"} => reports'[c.job] > 0,
         c.pc = "staleDelete" /\ Registered(c.tab) => timeouts'[c.job] > 0
  PROVE  Announced'
<1>1. \A x \in Slots : chain'[x] = c \/ chain'[x] = chain[x]
  BY DEF TypeOK
<1>2. \A u : Registered(u)' <=> Registered(u)
  BY DEF Registered
<1>3. \A x \in Slots : chain[x].pc \in {"answered", "runDelete", "staleDelete"} => chain[x].job \in Jobs
  BY DEF WellFormedChain
<1>4. \A x \in Slots :
        /\ chain'[x].fin /\ chain'[x].pc \in {"answered", "runDelete"} => reports'[chain'[x].job] > 0
        /\ chain'[x].pc = "staleDelete" /\ Registered(chain'[x].tab) => timeouts'[chain'[x].job] > 0
  <2> SUFFICES ASSUME NEW x \in Slots, chain'[x] = chain[x]
               PROVE  /\ chain'[x].fin /\ chain'[x].pc \in {"answered", "runDelete"} => reports'[chain'[x].job] > 0
                      /\ chain'[x].pc = "staleDelete" /\ Registered(chain'[x].tab) => timeouts'[chain'[x].job] > 0
    BY <1>1
  <2>1. ASSUME chain[x].fin, chain[x].pc \in {"answered", "runDelete"}
        PROVE  reports'[chain[x].job] > 0
    BY <1>3, <2>1, SeenGrow DEF Announced
  <2>2. ASSUME chain[x].pc = "staleDelete", Registered(chain[x].tab)
        PROVE  timeouts'[chain[x].job] > 0
    BY <1>3, <2>2, SeenGrow DEF Announced
  <2>3. QED
    BY <2>1, <2>2
<1>5. QED
  BY <1>2, <1>4 DEF Announced

\* A step of a chain that handles another job.
LEMMA OthersNotLost ==
  ASSUME TypeOK, NEW t \in Tabs, NEW j \in Jobs, NotLost(t, j), NEW s \in Slots, NEW c,
         chain' = [chain EXCEPT ![s] = c],
         Busy(s) => chain[s].job # j,
         chain[s].pc \in {"added", "loop"} => c.pc = "loop",
         j \in armed[t] => j \in armed'[t],
         Stored("user", j)' <=> Stored("user", j),
         task'[j] # "none" => task[j] # "none",
         Outcomes(j) > 0 => Outcomes(j)' > 0
  PROVE  NotLost(t, j)'
<1>1. chain'[s] = c /\ \A x \in Slots : x # s => chain'[x] = chain[x]
  BY DEF TypeOK
<1>2. \A pcs : \A x \in Slots : pcs \cap {"idle", "loop"} = {} /\ Handles(x, j, pcs) => Handles(x, j, pcs)'
  BY <1>1 DEF Handles, Busy
<1>3. (\E x \in Slots : Handles(x, j, {"starting", "set", "readd"})) =>
        \E x \in Slots : Handles(x, j, {"starting", "set", "readd"})'
  BY <1>2
<1>4. Watched(t, j) => Watched(t, j)'
  <2>1. \A x \in Slots : Polls(x, t, j) => Polls(x, t, j)'
    BY <1>1 DEF Polls, Busy
  <2>2. QED
    BY <2>1 DEF Watched
<1>5. ASSUME NEW x \in Slots,
             chain[x].pc \in {"added", "loop"} \/ Handles(x, j, {"runDelete", "stale", "staleDelete"})
      PROVE  \E y \in Slots : \/ chain'[y].pc \in {"added", "loop"}
                              \/ Handles(y, j, {"runDelete", "stale", "staleDelete"})'
  <2>1. CASE chain[x].pc \in {"added", "loop"}
    BY <1>1, <2>1
  <2>2. CASE Handles(x, j, {"runDelete", "stale", "staleDelete"})
    BY <1>2, <2>2
  <2>3. QED
    BY <1>5, <2>1, <2>2
<1>6. QED
  BY <1>3, <1>4, <1>5 DEF NotLost

\* The part about the time before the registration.
LEMMA BeforeStep ==
  ASSUME NEW t \in Tabs, BeforeRegistration(t), UNCHANGED <<page, loads>>,
         \A j \in Jobs : task'[j] # "none" => task[j] # "none",
         page[t] = "loaded" => disk'["user"] = disk["user"]
  PROVE  BeforeRegistration(t)'
  BY DEF BeforeRegistration, Stored

LEMMA FollowedStart ==
  ASSUME NEW t \in Tabs, OneTabSoFar(t), Followed(t), [Next]_vars, NEW i \in Jobs, NEW s \in Slots,
         StartOperation(t, i, s)
  PROVE  Followed(t)'
<1> USE DEF OneTabSoFar
<1> DEFINE c == Chain("starting", t, i, "none", FALSE, EmptyList)
<1>1. /\ UNCHANGED <<disk, page, loads, running, armed, first, reports, timeouts>>
      /\ At(s, "idle") /\ chain' = [chain EXCEPT ![s] = c] /\ page[t] # "closed"
      /\ \A j \in Jobs : j # i => task'[j] = task[j]
      /\ i \in EarlyJobs \/ Registered(t)
  BY DEF StartOperation, Opened, TypeOK
<1>2. c.pc = "starting" /\ c.job = i /\ c.fin = FALSE /\ chain'[s] = c
  BY <1>1 DEF Chain, TypeOK
<1>3. Announced'
  BY <1>1, <1>2, AnnouncedStep DEF Followed, OneAtATime
<1>4. BeforeRegistration(t)'
  <2>1. loads[t] # 0
    BY <1>1 DEF Followed, BeforeRegistration
  <2>2. page[t] = "loaded" => i \in EarlyJobs
    BY <1>1 DEF Registered
  <2>3. QED
    BY <1>1, <2>1, <2>2 DEF Followed, BeforeRegistration, Stored
<1>5. ASSUME NEW j \in Jobs, NotLost(t, j)
      PROVE  NotLost(t, j)'
  <2>1. Stored("user", j)' <=> Stored("user", j)
    BY <1>1 DEF Stored
  <2>2. CASE j # i
    BY <1>1, <1>2, <1>5, <2>1, <2>2, OthersNotLost, SeenGrow DEF Busy
  <2>3. CASE j = i
    <3>1. Handles(s, j, {"starting", "set", "readd"})'
      BY <1>2, <2>3 DEF Handles
    <3>2. ~ Stored("user", j)
      BY <2>3 DEF StartOperation, JobsApart, NotBorn, Stores
    <3>3. QED
      BY <2>1, <3>1, <3>2 DEF NotLost
  <2>4. QED
    BY <2>2, <2>3
<1>6. NoneLost(t)'
  BY <1>1, <1>5, NoneLostByJob DEF Followed, Registered
<1>7. QED
  BY <1>3, <1>4, <1>6 DEF Followed

LEMMA FollowedFire ==
  ASSUME NEW t \in Tabs, OneTabSoFar(t), Followed(t), [Next]_vars, NEW i \in Jobs, NEW s \in Slots,
         FireTimer(t, i, s) \/ FireFirstRun(t, i, s)
  PROVE  Followed(t)'
<1> USE DEF OneTabSoFar
<1> DEFINE c == Chain(IF Registered(t) THEN "fetch" ELSE "answered",
                      t, i, Now(i), FALSE, EmptyList)
<1>1. /\ UNCHANGED <<disk, page, loads, task, reports, timeouts>> /\ RunJob(s, t, i) /\ At(s, "idle")
      /\ \A j \in Jobs : j # i /\ j \in armed[t] => j \in armed'[t]
  BY DEF FireTimer, FireFirstRun, TypeOK
<1>2. /\ Store(t)' = Store(t) /\ (\A u : Registered(u)' <=> Registered(u))
      /\ \A j \in Jobs : (Stored("user", j)' <=> Stored("user", j)) /\ Outcomes(j)' = Outcomes(j)
  BY <1>1 DEF Store, Registered, Stored, Outcomes
<1>3. BeforeRegistration(t)'
  BY <1>1, BeforeStep DEF Followed
<1>4. CASE GetAll(t)[i] = "absent"
  <2>1. UNCHANGED chain
    BY <1>1, <1>4 DEF RunJob
  <2>2. Announced'
    BY <1>1, <1>2, <2>1 DEF Followed, Announced
  <2>3. ASSUME NEW j \in Jobs, NotLost(t, j), Registered(t)
        PROVE  NotLost(t, j)'
    <3>1. (\E x \in Slots : Handles(x, j, {"starting", "set", "readd"})) =>
            \E x \in Slots : Handles(x, j, {"starting", "set", "readd"})'
      BY <2>1 DEF Handles
    <3>2. Stored("user", j) => j # i
      BY <1>4, <2>3 DEF GetAll, Store, Stored
    <3>3. j # i /\ Watched(t, j) => Watched(t, j)'
      BY <1>1, <2>1 DEF Watched, Polls
    <3>4. QED
      BY <1>1, <1>2, <2>1, <2>3, <3>1, <3>2, <3>3 DEF NotLost, Handles
  <2>4. NoneLost(t)'
    BY <1>1, <1>2, <2>3, NoneLostByJob DEF Followed
  <2>5. QED
    BY <1>3, <2>2, <2>4 DEF Followed
<1>5. CASE GetAll(t)[i] # "absent"
  <2>1. chain' = [chain EXCEPT ![s] = c]
    BY <1>1, <1>5 DEF RunJob
  <2>2. /\ c.pc = (IF Registered(t) THEN "fetch" ELSE "answered") /\ c.tab = t /\ c.job = i
        /\ c.fin = FALSE /\ chain'[s] = c /\ ~ Busy(s)
        /\ \A x \in Slots : x # s => chain'[x] = chain[x]
    BY <1>1, <2>1 DEF Chain, TypeOK, Busy
  <2>3. Announced'
    <3> HIDE DEF c
    <3>1. QED
      BY <1>1, <2>1, <2>2, AnnouncedStep DEF Followed, OneAtATime
  <2>4. ASSUME NEW j \in Jobs, NotLost(t, j), Registered(t)
        PROVE  NotLost(t, j)'
    <3>1. CASE j # i
      BY <1>1, <1>2, <2>1, <2>2, <2>4, <3>1, OthersNotLost
    <3>2. CASE j = i
      <4>1. Watched(t, j)'
        BY <2>2, <2>4, <3>2 DEF Watched, Polls
      <4>2. Stored("user", j)'
        BY <1>2, <1>5, <2>4, <3>2 DEF GetAll, Store, Stored
      <4>3. QED
        BY <4>1, <4>2 DEF NotLost
    <3>3. QED
      BY <3>1, <3>2
  <2>5. NoneLost(t)'
    BY <1>1, <1>2, <2>4, NoneLostByJob DEF Followed
  <2>6. QED
    BY <1>3, <2>3, <2>5 DEF Followed
<1>6. QED
  BY <1>4, <1>5

LEMMA FollowedPage ==
  ASSUME NEW t \in Tabs, OneTabSoFar(t), Followed(t), [Next]_vars,
         (\E s \in Slots : OpenTab(t, s)) \/ JobHandlerRegister(t) \/ CloseTab(t)
  PROVE  Followed(t)'
<1> USE DEF OneTabSoFar
<1>0. loads[t] \in Nat
  BY DEF TypeOK, JobSchedulerAssumption
<1>1. CASE \E s \in Slots : OpenTab(t, s)
  <2>1. PICK s \in Slots : OpenTab(t, s)
    BY <1>1
  <2> DEFINE c == Chain("loop", t, NoJob, "absent", FALSE, GetAll(t))
  <2>2. /\ chain' = [chain EXCEPT ![s] = c] /\ UNCHANGED <<disk, task, reports, timeouts>>
        /\ page[t] = "closed" /\ page'[t] = "loaded" /\ loads'[t] = loads[t] + 1
    BY <2>1 DEF OpenTab, TypeOK
  <2>3. chain'[s] = c /\ c.pc = "loop" /\ c.fin = FALSE /\ \A x \in Slots : x # s => chain'[x] = chain[x]
    BY <2>2 DEF TypeOK, Chain
  <2>4. \A x \in Slots : chain[x].pc = "idle"
    BY <2>2 DEF OneAtATime, AtRestWhenClosed
  <2>5. Announced'
    BY <2>3, <2>4 DEF Announced
  <2>6. loads'[t] # 0 /\ (loads'[t] = 1 => loads[t] = 0)
    BY <1>0, <2>2
  <2>7. loads[t] = 0 => \A j \in Jobs : task[j] = "none" /\ ~ Stored("user", j)
    BY DEF Followed, BeforeRegistration, JobsApart, NotBorn, Stores
  <2>8. BeforeRegistration(t)'
    BY <2>2, <2>6, <2>7 DEF BeforeRegistration, Stored
  <2>9. NoneLost(t)'
    BY <2>2 DEF NoneLost, Registered
  <2>10. QED
    BY <2>5, <2>8, <2>9 DEF Followed
<1>2. CASE JobHandlerRegister(t)
  <2>1. /\ UNCHANGED <<disk, loads, chain, task, reports, timeouts, armed>> /\ page[t] = "loaded"
        /\ page'[t] = "registered"
    BY <1>2 DEF JobHandlerRegister, TypeOK
  <2>2. \A x \in Slots : chain[x].pc \in Waiting
    BY <1>2, RestIsClean DEF JobHandlerRegister
  <2>3. Announced'
    BY <2>1, <2>2 DEF Announced, Waiting
  <2>4. loads[t] # 0
    BY <2>1 DEF Followed, BeforeRegistration
  <2>5. BeforeRegistration(t)'
    BY <2>1, <2>4 DEF BeforeRegistration
  <2>6. loads[t] = 1 => \A j \in Jobs : ~ Stored("user", j)' /\ (j \notin EarlyJobs => task'[j] = "none")
    BY <2>1 DEF Followed, BeforeRegistration, Stored
  <2>7. NoneLost(t)'
    BY <2>1, <2>6, NoneLostByJob DEF NotLost
  <2>8. QED
    BY <2>3, <2>5, <2>7 DEF Followed
<1>3. CASE CloseTab(t)
  <2>1. /\ UNCHANGED <<disk, loads, task>> /\ page[t] # "closed" /\ page'[t] = "closed"
    BY <1>3 DEF CloseTab, Opened, TypeOK
  <2>2. \A x \in Slots : chain'[x].pc = "idle"
    BY <1>3, TabFacts DEF CloseTab
  <2>3. Announced'
    BY <2>2 DEF Announced
  <2>4. loads[t] # 0
    BY <2>1 DEF Followed, BeforeRegistration
  <2>5. BeforeRegistration(t)'
    BY <2>1, <2>4 DEF BeforeRegistration
  <2>6. NoneLost(t)'
    BY <2>1 DEF NoneLost, Registered
  <2>7. QED
    BY <2>3, <2>5, <2>6 DEF Followed
<1>4. QED
  BY <1>1, <1>2, <1>3

\* addJob and its storage.set.
LEMMA FollowedAdd ==
  ASSUME NEW t \in Tabs, OneTabSoFar(t), Followed(t), [Next]_vars, NEW s \in Slots,
         SubmitJob(s) \/ ReAddJob(s)
  PROVE  Followed(t)'
<1> USE DEF OneTabSoFar
<1>0. PICK i : i = chain[s].job
  OBVIOUS
<1> DEFINE c == Chain("set", t, i, chain[s].lr, FALSE, GetAll(t))
<1>1. /\ UNCHANGED <<page, loads, disk, running, armed, first, task, reports, timeouts>>
      /\ At(s, "starting") \/ At(s, "readd")
  BY DEF SubmitJob, ReAddJob
<1>2. chain[s].tab = t /\ Busy(s) /\ i \in Jobs /\ chain[s].job = i
  BY <1>0, <1>1, TabFacts DEF Busy
<1>3. i \notin running[t]
  BY <1>1, <1>2 DEF JobsApart, Newborn, HandledUntracked
<1>4. chain' = [chain EXCEPT ![s] = c]
  BY <1>2, <1>3 DEF SubmitJob, ReAddJob, AddJob
<1>5. c.pc = "set" /\ c.job = i /\ c.fin = FALSE /\ chain'[s] = c
      /\ \A x \in Slots : x # s => chain'[x] = chain[x]
  BY <1>4 DEF Chain, TypeOK
<1>6. Announced'
  BY <1>1, <1>4, <1>5, AnnouncedStep DEF Followed, OneAtATime
<1>7. BeforeRegistration(t)'
  BY <1>1, BeforeStep DEF Followed
<1>8. ASSUME NEW j \in Jobs, NotLost(t, j)
      PROVE  NotLost(t, j)'
  <2>1. Stored("user", j)' <=> Stored("user", j)
    BY <1>1 DEF Stored
  <2>2. CASE j # i
    BY <1>1, <1>2, <1>4, <1>5, <1>8, <2>1, <2>2, OthersNotLost, SeenGrow
  <2>3. CASE j = i
    <3>1. Handles(s, j, {"starting", "set", "readd"})'
      BY <1>5, <2>3 DEF Handles
    <3>2. Watched(t, j) => Watched(t, j)'
      BY <1>1, <1>5 DEF Watched, Polls
    <3>3. \A x \in Slots : chain[x].pc \in {"added", "loop"} \/ Handles(x, j, {"runDelete", "stale", "staleDelete"})
            => \/ chain'[x].pc \in {"added", "loop"}
               \/ Handles(x, j, {"runDelete", "stale", "staleDelete"})'
      BY <1>1, <1>5 DEF Handles
    <3>4. Stored("user", j)' => \/ Watched(t, j)'
                                \/ \E x \in Slots : \/ chain'[x].pc \in {"added", "loop"}
                                                    \/ Handles(x, j, {"runDelete", "stale", "staleDelete"})'
      BY <1>8, <2>1, <3>2, <3>3 DEF NotLost
    <3>5. QED
      BY <3>1, <3>4 DEF NotLost
  <2>4. QED
    BY <2>2, <2>3
<1>9. NoneLost(t)'
  BY <1>1, <1>8, NoneLostByJob DEF Followed, Registered
<1>10. QED
  BY <1>6, <1>7, <1>9 DEF Followed

LEMMA FollowedWrite ==
  ASSUME NEW t \in Tabs, OneTabSoFar(t), Followed(t), [Next]_vars, NEW s \in Slots,
         StoreJob(s) \/ DeleteStaledJob(s) \/ DeleteRunJob(s)
  PROVE  Followed(t)'
<1> USE DEF OneTabSoFar
<1>0. PICK i, lr, c :
        /\ i = chain[s].job /\ lr = (IF At(s, "set") THEN chain[s].lr ELSE "absent")
        /\ c = IF At(s, "set") THEN Chain("added", t, i, chain[s].lr, FALSE, EmptyList)
               ELSE IF At(s, "staleDelete") \/ chain[s].fin THEN Idle
               ELSE Chain("readd", t, i, chain[s].lr, FALSE, EmptyList)
  OBVIOUS
<1>1. /\ UNCHANGED <<page, loads, running, armed, first, task, reports, timeouts>>
      /\ chain[s].pc \in {"set", "staleDelete", "runDelete"}
  BY DEF StoreJob, DeleteStaledJob, DeleteRunJob
<1>2. chain[s].tab = t /\ Busy(s) /\ i \in Jobs /\ chain[s].job = i
  BY <1>0, <1>1, TabFacts DEF Busy
<1>3. chain' = [chain EXCEPT ![s] = c] /\ lr \in RunTimes /\ Writes(s, t, lr)
  <2>1. CASE StoreJob(s)
    BY <1>0, <1>2, <2>1, ChainFields DEF StoreJob, Writes
  <2>2. CASE DeleteStaledJob(s)
    BY <1>0, <1>2, <2>2 DEF DeleteStaledJob, Writes, RunTimes
  <2>3. CASE DeleteRunJob(s)
    BY <1>0, <1>2, <2>3 DEF DeleteRunJob, Writes, RunTimes
  <2>4. QED
    BY <2>1, <2>2, <2>3
<1>4. /\ c.pc \in {"idle", "added", "readd"} /\ (c.pc # "idle" => c.job = i)
      /\ c.pc = "added" <=> At(s, "set")
      /\ c.pc = "readd" <=> At(s, "runDelete") /\ ~ chain[s].fin
      /\ chain'[s] = c /\ \A x \in Slots : x # s => chain'[x] = chain[x]
  BY <1>0, <1>1, <1>3, TabFacts DEF Chain, TypeOK
<1>5. /\ Store(t)' = Store(t) /\ disk'[Store(t)][i] = lr /\ Store(t) \in Stores
      /\ \A k \in Stores, j \in Jobs : k # Store(t) \/ j # i => disk'[k][j] = disk[k][j]
  BY <1>1, <1>2, <1>3, WriteEffect, StoreOfTab
<1>6. Announced'
  BY <1>1, <1>3, <1>4, AnnouncedStep DEF Followed, OneAtATime
<1>7. BeforeRegistration(t)'
  <2>1. page[t] = "loaded" => Store(t) = "default"
    BY DEF Store, Registered
  <2>2. Store(t) = "default" => disk'["user"] = disk["user"]
    <3>1. chain[s].snap \in Lists /\ SaveToDisk(t, [chain[s].snap EXCEPT ![i] = lr])
      BY <1>2, <1>3, ChainFields DEF Writes
    <3>2. QED
      BY <3>1 DEF TypeOK, Stores
  <2>3. QED
    BY <1>1, <2>1, <2>2, BeforeStep DEF Followed
<1>8. ASSUME NEW j \in Jobs, NotLost(t, j), Registered(t)
      PROVE  NotLost(t, j)'
  <2>1. Store(t) = "user"
    BY <1>8 DEF Store
  <2>2. CASE j # i /\ ~ At(s, "set")
    <3>1. Stored("user", j)' <=> Stored("user", j)
      BY <1>5, <2>1, <2>2 DEF Stored
    <3>2. QED
      BY <1>1, <1>2, <1>3, <1>4, <1>8, <2>2, <3>1, OthersNotLost, SeenGrow
  <2>3. CASE At(s, "set")
    <3>1. chain'[s].pc = "added"
      BY <1>4, <2>3
    <3>2. j = i => Stored("user", j)'
      BY <1>0, <1>5, <2>1, <2>3 DEF Stored, JobsApart, RunTimesKnown
    <3>3. j # i => (Stored("user", j)' <=> Stored("user", j))
      BY <1>5, <2>1 DEF Stored
    <3>4. j # i => \A x \in Slots : Handles(x, j, {"starting", "set", "readd"}) => Handles(x, j, {"starting", "set", "readd"})'
      BY <1>2, <1>4 DEF Handles
    <3>5. j \notin EarlyJobs /\ task'[j] # "none" =>
            \/ Outcomes(j)' > 0 \/ Stored("user", j)'
            \/ \E x \in Slots : Handles(x, j, {"starting", "set", "readd"})'
      BY <1>1, <1>8, <3>2, <3>3, <3>4, SeenGrow DEF NotLost
    <3>6. QED
      BY <3>1, <3>5 DEF NotLost
  <2>4. CASE j = i /\ ~ At(s, "set")
    <3>1. ~ Stored("user", j)'
      BY <1>0, <1>5, <2>1, <2>4 DEF Stored
    <3>2. CASE At(s, "runDelete") /\ ~ chain[s].fin
      <4>1. Handles(s, j, {"starting", "set", "readd"})'
        BY <1>4, <2>4, <3>2 DEF Handles
      <4>2. QED
        BY <3>1, <4>1 DEF NotLost
    <3>3. CASE At(s, "staleDelete") \/ (At(s, "runDelete") /\ chain[s].fin)
      <4>1. reports[j] > 0 \/ timeouts[j] > 0
        BY <1>2, <1>8, <2>4, <3>3 DEF Followed, Announced
      <4>2. Outcomes(j)' > 0
        BY <1>1, <4>1, SeenGrow DEF Outcomes
      <4>3. QED
        BY <3>1, <4>2 DEF NotLost
    <3>4. QED
      BY <1>1, <2>4, <3>2, <3>3
  <2>5. QED
    BY <2>2, <2>3, <2>4
<1>9. NoneLost(t)'
  BY <1>1, <1>8, NoneLostByJob DEF Followed, Registered
<1>10. QED
  BY <1>6, <1>7, <1>9 DEF Followed

LEMMA FollowedArm ==
  ASSUME NEW t \in Tabs, OneTabSoFar(t), Followed(t), [Next]_vars, NEW s \in Slots, ArmFirstRun(s)
  PROVE  Followed(t)'
<1> USE DEF OneTabSoFar
<1> DEFINE c == Chain("loop", t, NoJob, "absent", FALSE, GetAll(t))
<1>1. UNCHANGED <<page, loads, disk, running, armed, task, reports, timeouts>> /\ At(s, "added")
  BY DEF ArmFirstRun
<1>2. chain' = [chain EXCEPT ![s] = c]
  BY <1>1, TabFacts DEF ArmFirstRun
<1>3. c.pc = "loop" /\ c.fin = FALSE /\ chain'[s] = c /\ \A x \in Slots : x # s => chain'[x] = chain[x]
  BY <1>2 DEF Chain, TypeOK
<1>4. Announced'
  BY <1>1, <1>2, <1>3, AnnouncedStep DEF Followed, OneAtATime
<1>5. BeforeRegistration(t)'
  BY <1>1, BeforeStep DEF Followed
<1>6. ASSUME NEW j \in Jobs, NotLost(t, j)
      PROVE  NotLost(t, j)'
  <2>1. (Stored("user", j)' <=> Stored("user", j)) /\ Outcomes(j)' = Outcomes(j)
    BY <1>1 DEF Stored, Outcomes
  <2>2. \A x \in Slots : Handles(x, j, {"starting", "set", "readd"}) => Handles(x, j, {"starting", "set", "readd"})'
    BY <1>1, <1>3 DEF Handles
  <2>3. chain'[s].pc \in {"added", "loop"}
    BY <1>3
  <2>4. QED
    BY <1>1, <1>6, <2>1, <2>2, <2>3 DEF NotLost
<1>7. NoneLost(t)'
  BY <1>1, <1>6, NoneLostByJob DEF Followed, Registered
<1>8. QED
  BY <1>4, <1>5, <1>7 DEF Followed

LEMMA CountPositive == ASSUME JobSchedulerAssumption PROVE \A n \in Nat : Count(n) > 0
  BY DEF JobSchedulerAssumption, Count

\* deleteJob up to its await: the timer of the job goes, and so may its poll.
LEMMA FollowedForget ==
  ASSUME NEW t \in Tabs, OneTabSoFar(t), Followed(t), [Next]_vars, NEW s \in Slots,
         TimeOutJob(s) \/ EndRun(s)
  PROVE  Followed(t)'
<1> USE DEF OneTabSoFar
<1>0. PICK i, c :
        /\ i = chain[s].job
        /\ c = IF At(s, "stale") THEN Chain("staleDelete", t, i, chain[s].lr, FALSE, GetAll(t))
               ELSE [chain[s] EXCEPT !.pc = "runDelete", !.snap = GetAll(t)]
  OBVIOUS
<1>1. /\ UNCHANGED <<page, loads, disk, first, task>>
      /\ At(s, "stale") \/ At(s, "answered")
      /\ TimeOutJob(s) <=> At(s, "stale")
  BY DEF TimeOutJob, EndRun
<1>2. chain[s].tab = t /\ Busy(s) /\ i \in Jobs /\ chain[s].job = i
  BY <1>0, <1>1, TabFacts DEF Busy
<1>3. /\ chain' = [chain EXCEPT ![s] = c]
      /\ running'[t] = running[t] \ {i} /\ armed'[t] = armed[t] \ {i}
  BY <1>0, <1>1, <1>2 DEF TimeOutJob, EndRun, TypeOK
<1>4. /\ c.pc = (IF At(s, "stale") THEN "staleDelete" ELSE "runDelete") /\ c.job = i /\ c.tab = t
      /\ c.fin => At(s, "answered") /\ chain[s].fin
      /\ chain'[s] = c /\ \A x \in Slots : x # s => chain'[x] = chain[x]
  BY <1>0, <1>1, <1>2, <1>3, ChainFields DEF TypeOK, Chains, Chain
<1>5. Announced'
  <2>1. c.fin /\ c.pc \in {"answered", "runDelete"} => reports'[c.job] > 0
    <3> SUFFICES ASSUME c.fin
                 PROVE  reports'[i] > 0
      BY <1>4
    <3>1. reports[i] > 0
      BY <1>2, <1>4 DEF Followed, Announced
    <3>2. QED
      BY <1>2, <3>1, SeenGrow
  <2>2. c.pc = "staleDelete" /\ Registered(c.tab) => timeouts'[c.job] > 0
    <3> SUFFICES ASSUME At(s, "stale"), Registered(t)
                 PROVE  timeouts'[i] > 0
      BY <1>4
    <3>1. chain[s].lr = "late" /\ timeouts[i] \in Nat
      BY <1>2 DEF OneAtATime, OneLateRecord, TypeOK, JobSchedulerAssumption
    <3>2. timeouts'[i] = Count(timeouts[i])
      BY <1>1, <1>2, <3>1 DEF TimeOutJob, TypeOK
    <3>3. QED
      BY <3>1, <3>2, CountPositive
  <2>3. QED
    BY <1>1, <1>3, <2>1, <2>2, AnnouncedStep DEF Followed, OneAtATime
<1>6. BeforeRegistration(t)'
  BY <1>1, BeforeStep DEF Followed
<1>7. ASSUME NEW j \in Jobs, NotLost(t, j)
      PROVE  NotLost(t, j)'
  <2>1. Stored("user", j)' <=> Stored("user", j)
    BY <1>1 DEF Stored
  <2>2. CASE j # i
    <3>1. j \in armed[t] => j \in armed'[t]
      BY <1>3, <2>2
    <3>2. chain[s].pc \in {"added", "loop"} => c.pc = "loop"
      BY <1>1
    <3>3. QED
      BY <1>1, <1>2, <1>3, <1>7, <2>1, <2>2, <3>1, <3>2, OthersNotLost, SeenGrow
  <2>3. CASE j = i
    <3>1. Handles(s, j, {"runDelete", "stale", "staleDelete"})'
      BY <1>4, <2>3 DEF Handles
    <3>2. \A x \in Slots : Handles(x, j, {"starting", "set", "readd"}) => Handles(x, j, {"starting", "set", "readd"})'
      BY <1>1, <1>4 DEF Handles
    <3>3. QED
      BY <1>1, <1>7, <2>1, <3>1, <3>2, SeenGrow DEF NotLost
  <2>4. QED
    BY <2>2, <2>3
<1>8. NoneLost(t)'
  BY <1>1, <1>7, NoneLostByJob DEF Followed, Registered
<1>9. QED
  BY <1>5, <1>6, <1>8 DEF Followed

\* The answer on its way.
LEMMA FollowedPoll ==
  ASSUME NEW t \in Tabs, OneTabSoFar(t), Followed(t), [Next]_vars, NEW s \in Slots,
         Answer(s) \/ Deliver(s)
  PROVE  Followed(t)'
<1> USE DEF OneTabSoFar
<1>0. PICK i : i = chain[s].job
  OBVIOUS
<1>1. /\ UNCHANGED <<page, loads, disk, running, armed, first, task, timeouts>>
      /\ At(s, "fetch") \/ At(s, "replied")
  BY DEF Answer, Deliver
<1>2. chain[s].tab = t /\ Busy(s) /\ i \in Jobs /\ chain[s].job = i
  BY <1>0, <1>1, TabFacts DEF Busy
<1>3. PICK c : /\ chain' = [chain EXCEPT ![s] = c] /\ c.job = i /\ c.tab = t
               /\ c.pc \in {"replied", "answered"}
               /\ c.pc = "answered" => Deliver(s) /\ c.fin = chain[s].fin
  <2>1. CASE Answer(s)
    <3>1. PICK fin : chain' = [chain EXCEPT ![s] =
                       Chain("replied", chain[s].tab, chain[s].job, chain[s].lr, fin, EmptyList)]
      BY <2>1 DEF Answer
    <3> DEFINE c == Chain("replied", chain[s].tab, chain[s].job, chain[s].lr, fin, EmptyList)
    <3>2. c.job = i /\ c.tab = t /\ c.pc = "replied"
      BY <1>2 DEF Chain
    <3>3. QED
      BY <3>1, <3>2
  <2>2. CASE Deliver(s)
    <3>1. chain' = [chain EXCEPT ![s] = [chain[s] EXCEPT !.pc = "answered"]]
      BY <2>2 DEF Deliver
    <3> DEFINE c == [chain[s] EXCEPT !.pc = "answered"]
    <3>2. c.job = i /\ c.tab = t /\ c.pc = "answered" /\ c.fin = chain[s].fin
      BY <1>2, ChainFields DEF Chains
    <3>3. QED
      BY <2>2, <3>1, <3>2
  <2>3. QED
    BY <2>1, <2>2
<1>4. chain'[s] = c /\ \A x \in Slots : x # s => chain'[x] = chain[x]
  BY <1>3 DEF TypeOK
<1>5. Announced'
  <2>1. c.fin /\ c.pc \in {"answered", "runDelete"} => reports'[c.job] > 0
    <3> SUFFICES ASSUME c.fin, c.pc = "answered"
                 PROVE  reports'[i] > 0
      BY <1>3
    <3>1. reports[i] \in Nat
      BY <1>2 DEF TypeOK, JobSchedulerAssumption
    <3>2. Deliver(s) /\ chain[s].fin
      BY <1>3
    <3>3. reports'[i] = Count(reports[i])
      BY <1>2, <3>2 DEF Deliver, TypeOK
    <3>4. QED
      BY <3>1, <3>3, CountPositive
  <2>2. QED
    BY <1>1, <1>3, <2>1, AnnouncedStep DEF Followed, OneAtATime
<1>6. BeforeRegistration(t)'
  BY <1>1, BeforeStep DEF Followed
<1>7. ASSUME NEW j \in Jobs, NotLost(t, j)
      PROVE  NotLost(t, j)'
  <2>1. Stored("user", j)' <=> Stored("user", j)
    BY <1>1 DEF Stored
  <2>2. \A x \in Slots : Polls(x, t, j) => Polls(x, t, j)'
    BY <1>2, <1>3, <1>4 DEF Polls
  <2>3. Watched(t, j) => Watched(t, j)'
    BY <1>1, <2>2 DEF Watched
  <2>4. \A x \in Slots : chain[x].pc \in {"starting", "set", "readd", "added", "loop", "runDelete", "stale", "staleDelete"}
                           => chain'[x] = chain[x]
    BY <1>1, <1>4
  <2>5. QED
    BY <1>1, <1>7, <2>1, <2>3, <2>4, SeenGrow DEF NotLost, Handles
<1>8. NoneLost(t)'
  BY <1>1, <1>7, NoneLostByJob DEF Followed, Registered
<1>9. QED
  BY <1>5, <1>6, <1>8 DEF Followed

\* loopJob finds every stored job that nothing watches.
LEMMA FollowedLoop ==
  ASSUME NEW t \in Tabs, OneTabSoFar(t), Followed(t), [Next]_vars, NEW s \in Slots, LoopJob(s)
  PROVE  Followed(t)'
<1> USE DEF OneTabSoFar
<1>1. chain[s].tab = t /\ Active(s) /\ LoopEffect(s, t)
  BY LoopJobEffect
<1>2. /\ UNCHANGED <<disk, page, loads, task, first, reports, timeouts>> /\ At(s, "loop")
      /\ chain[s].snap = GetAll(t)
  BY DEF LoopJob, OneAtATime, SnapshotsCurrent
<1>3. armed'[t] = armed[t] \cup Untracked(t, GetAll(t))
  BY <1>1, <1>2 DEF LoopJob, TypeOK
<1>4. \A x \in Slots :
        \/ chain'[x] = chain[x]
        \/ (x = s \/ At(x, "idle")) /\ chain'[x].pc \in {"idle", "stale"} /\ chain'[x].fin = FALSE
  <2>1. /\ Idle.fin = FALSE /\ Idle.pc = "idle"
        /\ \A i : Chain("stale", t, i, "late", FALSE, EmptyList).pc = "stale"
        /\ \A i : Chain("stale", t, i, "late", FALSE, EmptyList).fin = FALSE
    BY DEF Idle, Chain
  <2>2. CASE chain' = [chain EXCEPT ![s] = Idle]
    BY <2>1, <2>2 DEF TypeOK
  <2>3. ASSUME NEW i \in Jobs, NEW x \in Slots, x = s \/ At(x, "idle"),
               chain' = [y \in Slots |->
                 IF y = x THEN Chain("stale", t, i, "late", FALSE, EmptyList)
                 ELSE IF y = s THEN Idle ELSE chain[y]]
        PROVE  \A y \in Slots :
                 \/ chain'[y] = chain[y]
                 \/ (y = s \/ At(y, "idle")) /\ chain'[y].pc \in {"idle", "stale"} /\ chain'[y].fin = FALSE
    BY <2>1, <2>3
  <2>4. QED
    BY <1>1, <2>2, <2>3 DEF LoopEffect
<1>5. Announced'
  <2>1. \A u : Registered(u)' <=> Registered(u)
    BY <1>2 DEF Registered
  <2>2. QED
    BY <1>2, <1>4, <2>1 DEF Followed, Announced
<1>6. BeforeRegistration(t)'
  BY <1>2, BeforeStep DEF Followed
<1>7. ASSUME NEW j \in Jobs, NotLost(t, j), Registered(t)
      PROVE  NotLost(t, j)'
  <2>1. /\ (Stored("user", j)' <=> Stored("user", j)) /\ Outcomes(j)' = Outcomes(j)
        /\ Store(t) = "user" /\ GetAll(t) = disk["user"]
    BY <1>2, <1>7 DEF Stored, Outcomes, Store, GetAll
  <2>2. \A x \in Slots : chain[x].pc \notin {"idle", "loop"} => chain'[x] = chain[x]
    BY <1>2, <1>4
  <2>3. \A x \in Slots : Handles(x, j, {"starting", "set", "readd"}) => Handles(x, j, {"starting", "set", "readd"})'
    BY <2>2 DEF Handles
  <2>4. Watched(t, j) => Watched(t, j)'
    <3>1. \A x \in Slots : Polls(x, t, j) => Polls(x, t, j)'
      BY <2>2 DEF Polls
    <3>2. QED
      BY <1>3, <3>1 DEF Watched
  <2>5. ASSUME Stored("user", j)
        PROVE  Watched(t, j)' \/ \E x \in Slots : Handles(x, j, {"runDelete", "stale", "staleDelete"})'
    <3>1. CASE GetAll(t)[j] = "late"
      <4>1. PICK i \in Jobs, x \in Slots :
              /\ GetAll(t)[i] = "late"
              /\ chain' = [y \in Slots |->
                   IF y = x THEN Chain("stale", t, i, "late", FALSE, EmptyList)
                   ELSE IF y = s THEN Idle ELSE chain[y]]
        BY <1>1, <3>1 DEF LoopEffect
      <4>2. i = j
        BY <3>1, <4>1 DEF OneAtATime, OneLateRecord
      <4>3. Handles(x, j, {"runDelete", "stale", "staleDelete"})'
        BY <4>1, <4>2 DEF Handles, Chain
      <4>4. QED
        BY <4>3
    <3>2. CASE GetAll(t)[j] # "late" /\ j \in running[t]
      BY <2>1, <2>4, <2>5, <3>2 DEF PollsTracked
    <3>3. CASE GetAll(t)[j] # "late" /\ j \notin running[t]
      <4>1. GetAll(t)[j] \in {"none", "fresh"}
        <5>1. GetAll(t)[j] \in RunTimes
          BY GetAllType DEF Lists
        <5>2. QED
          BY <2>1, <2>5, <3>3, <5>1 DEF RunTimes, Stored
      <4>2. j \in armed'[t]
        BY <1>3, <3>3, <4>1 DEF Untracked
      <4>3. QED
        BY <4>2 DEF Watched
    <3>4. QED
      BY <3>1, <3>2, <3>3
  <2>6. QED
    BY <1>2, <1>7, <2>1, <2>3, <2>5 DEF NotLost
<1>8. NoneLost(t)'
  BY <1>2, <1>7, NoneLostByJob DEF Followed, Registered
<1>9. QED
  BY <1>5, <1>6, <1>8 DEF Followed

LEMMA FollowedSame ==
  ASSUME NEW t \in Tabs, Followed(t),
         UNCHANGED <<page, loads, disk, chain, running, armed, first, reports, timeouts>>,
         \A j \in Jobs : task'[j] # "none" => task[j] # "none"
  PROVE  Followed(t)'
<1>1. Announced'
  BY DEF Followed, Announced, Registered
<1>2. BeforeRegistration(t)'
  BY BeforeStep DEF Followed
<1>3. \A j \in Jobs : NotLost(t, j) => NotLost(t, j)'
  BY DEF NotLost, Watched, Polls, Handles, Stored, Outcomes
<1>4. NoneLost(t)'
  BY <1>3, NoneLostByJob DEF Followed, Registered
<1>5. QED
  BY <1>1, <1>2, <1>4 DEF Followed

LEMMA FollowedNext ==
  ASSUME OneTab, TypeOK, JobSchedulerAssumption, NEW t \in Tabs, OneAtATime(t),
         JobsApart(t), PollsTracked(t), Followed(t), [Next]_vars
  PROVE  Followed(t)'
<1>1. OneTabSoFar(t)
  BY DEF OneTabSoFar
<1>2. \A u \in Tabs : u = t
  BY DEF OneTab
<1>3. ASSUME NEW u \in Tabs, (\E s \in Slots : OpenTab(u, s)) \/ JobHandlerRegister(u) \/ CloseTab(u)
      PROVE  Followed(t)'
  BY <1>1, <1>2, <1>3, FollowedPage
<1>4. ASSUME NEW u \in Tabs, NEW i \in Jobs, NEW s \in Slots,
             StartOperation(u, i, s) \/ FireTimer(u, i, s) \/ FireFirstRun(u, i, s)
      PROVE  Followed(t)'
  BY <1>1, <1>2, <1>4, FollowedStart, FollowedFire
<1>5. ASSUME NEW s \in Slots, Continue(s) \/ Answer(s) \/ Receive(s)
      PROVE  Followed(t)'
  <2>1. CASE SubmitJob(s) \/ ReAddJob(s)
    BY <1>1, <2>1, FollowedAdd
  <2>2. CASE StoreJob(s) \/ DeleteStaledJob(s) \/ DeleteRunJob(s)
    BY <1>1, <2>2, FollowedWrite
  <2>3. CASE ArmFirstRun(s) \/ LoopJob(s)
    BY <1>1, <2>3, FollowedArm, FollowedLoop
  <2>4. CASE TimeOutJob(s) \/ EndRun(s) \/ Answer(s) \/ Deliver(s)
    BY <1>1, <2>4, FollowedForget, FollowedPoll
  <2>5. QED
    BY <1>5, <2>1, <2>2, <2>3, <2>4 DEF Continue, Receive
<1>6. ASSUME NEW i \in Jobs, FinishTask(i) \/ PassDeadline(i)
      PROVE  Followed(t)'
  <2>1. \A j \in Jobs : task'[j] # "none" => task[j] # "none"
    BY <1>6 DEF FinishTask, PassDeadline, TypeOK
  <2>2. UNCHANGED <<page, loads, disk, chain, running, armed, first, reports, timeouts>>
    BY <1>6 DEF FinishTask, PassDeadline
  <2>3. QED
    BY <2>1, <2>2, FollowedSame
<1>7. CASE UNCHANGED vars
  BY <1>7, FollowedSame DEF vars
<1>8. QED
  BY <1>3, <1>4, <1>5, <1>6, <1>7 DEF Next

LEMMA FollowedInit ==
  ASSUME JobSchedulerAssumption, Init, NEW t \in Tabs
  PROVE  Followed(t)
<1>1. Announced
  BY DEF Init, Announced, Idle
<1>2. BeforeRegistration(t)
  BY DEF Init, BeforeRegistration
<1>3. NoneLost(t)
  BY DEF Init, NoneLost, Registered
<1>4. QED
  BY <1>1, <1>2, <1>3 DEF Followed

-----------------------------------------------------------------------------
(* The theorems.                                                           *)

LEMMA OneTabNext ==
  ASSUME OneTab, JobSchedulerAssumption, TypeOK, ArmedTracked, OneTabInv, [Next]_vars
  PROVE  OneTabInv'
<1> SUFFICES ASSUME NEW t \in Tabs
             PROVE  (OneAtATime(t) /\ JobsApart(t) /\ PollsTracked(t) /\ ToastsLeft(t)
                       /\ Followed(t))'
  BY DEF OneTabInv
<1>1. OneAtATime(t) /\ JobsApart(t) /\ PollsTracked(t) /\ ToastsLeft(t) /\ Followed(t)
  BY DEF OneTabInv
<1>2. OneAtATime(t)' /\ JobsApart(t)' /\ PollsTracked(t)'
  BY <1>1, SequentialNext, ApartNext, PollsNext
<1>3. ToastsLeft(t)' /\ Followed(t)'
  BY <1>1, ToastsNext, FollowedNext
<1>4. QED
  BY <1>2, <1>3

\* The tab runs its code alone, its map knows its polls, its toasts are numbered
\* and, up to the first reload, no job is lost.
THEOREM OneTabHolds ==
  ASSUME OneTab
  PROVE  Spec => []OneTabInv
<1>1. Init => OneTabInv
  BY JobSchedulerAssumption, SequentialInit, ApartInit, PollsInit, ToastsInit, FollowedInit
  DEF OneTabInv
<1>2. TypeOK /\ ArmedTracked /\ OneTabInv /\ [Next]_vars => OneTabInv'
  BY JobSchedulerAssumption, OneTabNext
<1>3. QED
  BY <1>1, <1>2, TypeCorrect, TimersTracked, PTL DEF Spec

\* A job without a first-run timer is polled by one request at a time, however
\* often the page is reloaded and whichever requests fail.
THEOREM OnePollAtATime ==
  ASSUME OneTab
  PROVE  Spec => []OnePoll
<1>1. OneTabInv => OnePoll
  BY DEF OneTabInv, PollsTracked, OnePoll
<1>2. QED
  BY <1>1, OneTabHolds, PTL

\* However often the page is reloaded and whichever requests fail, an operation
\* gets no second toast, and no third one if it has a first-run timer.
THEOREM NoMoreToasts ==
  ASSUME OneTab
  PROVE  Spec => [](\A t \in Tabs, j \in Jobs : Outcomes(j) <= Watch!Allowed(j))
<1>1. OneTabInv => \A t \in Tabs, j \in Jobs : Outcomes(j) <= Watch!Allowed(j)
  BY DEF OneTabInv, ToastsLeft
<1>2. QED
  BY <1>1, OneTabHolds, PTL

\* When the code of the tab rests, no record of its list is staled.
THEOREM StaledAreRemoved ==
  ASSUME OneTab
  PROVE  Spec => []NoStaledAtRest
<1>1. OneTabInv => NoStaledAtRest
  BY RestIsClean, ListsOfTab DEF OneTabInv, NoStaledAtRest, GetAll
<1>2. QED
  BY <1>1, OneTabHolds, PTL

\* Until the page is reloaded, a job that was added after the registration has
\* had its toast or is stored, and what is stored is watched.
THEOREM StoredAreWatched ==
  ASSUME OneTab
  PROVE  Spec => []StoredIsWatched
<1>1. ASSUME OneTabInv, NEW t \in Tabs, NEW j \in Jobs, Registered(t), loads[t] = 1, Quiescent(t)
      PROVE  /\ task[j] # "none" /\ ~ Starting(j) /\ j \notin EarlyJobs =>
                  Outcomes(j) > 0 \/ disk["user"][j] # "absent"
             /\ disk["user"][j] # "absent" => Watched(t, j)
  <2>1. NotLost(t, j)
    BY <1>1, NoneLostByJob DEF OneTabInv, Followed
  <2>2. \A s \in Slots : chain[s].pc \in Waiting
    BY <1>1, RestIsClean DEF OneTabInv
  <2>3. \A s \in Slots : Handles(s, j, {"starting", "set", "readd"}) => Starting(j)
    BY <2>2 DEF Handles, Starting, Waiting
  <2>4. \A s \in Slots : /\ chain[s].pc \notin {"added", "loop"}
                         /\ ~ Handles(s, j, {"runDelete", "stale", "staleDelete"})
    BY <2>2 DEF Handles, Waiting
  <2>5. QED
    BY <2>1, <2>3, <2>4 DEF NotLost, Stored
<1>2. OneTabInv => StoredIsWatched
  BY <1>1 DEF StoredIsWatched
<1>3. QED
  BY <1>2, OneTabHolds, PTL

-----------------------------------------------------------------------------
(* The refinement of JobWatch.                                             *)

Unseen == UNCHANGED <<task, overdue, inTime, reports, timeouts>>

\* The removal of a staled job shows a timeout that is due, or nothing.
LEMMA TimeOutShows ==
  ASSUME OneTab, JobSchedulerAssumption, TypeOK, HonestInv, OneTabInv, NEW s \in Slots,
         TimeOutJob(s)
  PROVE  Watch!Next \/ Unseen
<1>0. PICK j : j = chain[s].job
  OBVIOUS
<1>1. At(s, "stale") /\ UNCHANGED <<task, overdue, inTime, reports>>
  BY DEF TimeOutJob
<1>2. PICK t \in Tabs : t = chain[s].tab
  BY <1>1 DEF HonestInv, WellFormedChain
<1>3. j \in Jobs
  BY <1>0, <1>1 DEF HonestInv, WellFormedChain
<1>4. timeouts \in [Jobs -> Nat]
  BY DEF TypeOK, JobSchedulerAssumption
<1>5. CASE timeouts' = timeouts
  BY <1>1, <1>5 DEF Unseen
<1>6. CASE timeouts' # timeouts
  <2>1. Registered(t)
    BY <1>0, <1>2, <1>3, <1>4, <1>6 DEF TimeOutJob
  <2>2. timeouts' = [timeouts EXCEPT ![j] = @ + 1]
    BY <1>0, <1>3, <1>4, <1>6 DEF TimeOutJob, Count
  <2>3. Late(j)
    BY <1>0, <1>1, <1>2, <2>1 DEF HonestInv, HonestChain
  <2>4. Outcomes(j) < Watch!Allowed(j)
    BY <1>0, BudgetTimeOut DEF OneTabInv, OneTabSoFar
  <2>5. Watch!ShowTimeout(j)
    BY <1>1, <2>2, <2>3, <2>4 DEF Watch!ShowTimeout, Watch!Toasts, Outcomes, Late
  <2>6. QED
    BY <1>3, <2>5 DEF Watch!Next
<1>7. QED
  BY <1>5, <1>6

\* An answer shows the result the task has, or nothing.
LEMMA DeliverShows ==
  ASSUME OneTab, JobSchedulerAssumption, TypeOK, HonestInv, OneTabInv, NEW s \in Slots,
         Deliver(s)
  PROVE  Watch!Next \/ Unseen
<1>0. PICK j : j = chain[s].job
  OBVIOUS
<1>1. At(s, "replied") /\ UNCHANGED <<task, overdue, inTime, timeouts>>
  BY DEF Deliver
<1>2. PICK t \in Tabs : t = chain[s].tab
  BY <1>1 DEF HonestInv, WellFormedChain
<1>3. j \in Jobs
  BY <1>0, <1>1 DEF HonestInv, WellFormedChain
<1>4. reports \in [Jobs -> Nat]
  BY DEF TypeOK, JobSchedulerAssumption
<1>5. CASE reports' = reports
  BY <1>1, <1>5 DEF Unseen
<1>6. CASE reports' # reports
  <2>1. chain[s].fin
    BY <1>0, <1>3, <1>4, <1>6 DEF Deliver
  <2>2. reports' = [reports EXCEPT ![j] = @ + 1]
    BY <1>0, <1>3, <1>4, <1>6 DEF Deliver, Count
  <2>3. task[j] = "done"
    BY <1>0, <1>2, <2>1 DEF OneTabInv, JobsApart, RunTimesKnown
  <2>4. Outcomes(j) < Watch!Allowed(j)
    BY <1>0, <1>2, <2>1, BudgetDeliver DEF OneTabInv, OneTabSoFar
  <2>5. Watch!ShowResult(j)
    BY <1>1, <2>2, <2>3, <2>4 DEF Watch!ShowResult, Watch!Toasts, Outcomes
  <2>6. QED
    BY <1>3, <2>5 DEF Watch!Next
<1>7. QED
  BY <1>5, <1>6

LEMMA WatchStep ==
  ASSUME OneTab, JobSchedulerAssumption, TypeOK, HonestInv, OneTabInv, [Next]_vars
  PROVE  Watch!Next \/ Unseen
<1>1. ASSUME NEW t \in Tabs, NEW j \in Jobs, NEW s \in Slots, StartOperation(t, j, s)
      PROVE  Watch!Next
  BY <1>1 DEF StartOperation, Watch!Next, Watch!Submit
<1>2. ASSUME NEW j \in Jobs, FinishTask(j)
      PROVE  Watch!Next
  BY <1>2 DEF FinishTask, Watch!Next, Watch!End
<1>3. ASSUME NEW j \in Jobs, PassDeadline(j)
      PROVE  Watch!Next
  BY <1>3 DEF PassDeadline, Watch!Next, Watch!Expire
<1>4. ASSUME NEW s \in Slots, Continue(s) \/ Answer(s) \/ Receive(s), ~ TimeOutJob(s), ~ Deliver(s)
      PROVE  Unseen
  BY <1>4 DEF Unseen, Continue, Receive, StoreJob, ArmFirstRun, LoopJob, DeleteStaledJob, EndRun,
     DeleteRunJob, ReAddJob, Answer, SubmitJob
<1>5. ASSUME NEW t \in Tabs, NEW s \in Slots, OpenTab(t, s)
      PROVE  Unseen
  BY <1>5 DEF Unseen, OpenTab
<1>6. ASSUME NEW t \in Tabs, JobHandlerRegister(t) \/ CloseTab(t)
      PROVE  Unseen
  BY <1>6 DEF Unseen, JobHandlerRegister, CloseTab
<1>7. ASSUME NEW t \in Tabs, NEW j \in Jobs, NEW s \in Slots, FireTimer(t, j, s) \/ FireFirstRun(t, j, s)
      PROVE  Unseen
  BY <1>7 DEF Unseen, FireTimer, FireFirstRun
<1>8. CASE UNCHANGED vars
  BY <1>8 DEF vars, Unseen
<1>9. QED
  BY <1>1, <1>2, <1>3, <1>4, <1>5, <1>6, <1>7, <1>8, TimeOutShows, DeliverShows DEF Next

\* One tab keeps the promise of JobWatch, if no request fails and every task runs
\* in the local cluster: each toast is a result the operation has or a timeout that
\* is due, and no operation gets a second one, or a third with a first-run timer.
THEOREM PromiseKept ==
  ASSUME OneTab, ~ Lossy, Remote = {}
  PROVE  Spec => Promise
<1>1. Init => Watch!Init
  BY DEF Init, Watch!Init
<1>2. TypeOK /\ HonestInv /\ OneTabInv /\ [Next]_vars => [Watch!Next]_Watch!vars
  BY JobSchedulerAssumption, WatchStep DEF Unseen, Watch!vars
<1>3. Init => HonestInv
  BY EmptyHonest, IdleHonest, JobSchedulerAssumption DEF Init, HonestInv, Stores
<1>4. TypeOK /\ HonestInv /\ [Next]_vars => HonestInv'
  BY HonestNext, JobSchedulerAssumption
<1>5. QED
  BY <1>1, <1>2, <1>3, <1>4, TypeCorrect, OneTabHolds, PTL DEF Spec, Promise, Watch!Spec

=============================================================================
