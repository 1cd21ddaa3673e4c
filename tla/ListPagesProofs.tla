--------------------------- MODULE ListPagesProofs ---------------------------
(***************************************************************************)
(* Theorems about ListPages, for every set of clusters, items, queries,    *)
(* pages and operations.                                                   *)
(***************************************************************************)
EXTENDS ListPages, TLAPS

-----------------------------------------------------------------------------
(* The last request is the one the user wants.  By itself inductive.        *)

LastWanted ==
    timer # "due" => asked.search = search /\ asked.source = source

\* Asking for the query and the data source that hold after the step.
LEMMA AskWanted ==
  ASSUME NEW q, NEW s, NEW calls, Ask(q, s, calls), search' = q, source' = s
  PROVE  LastWanted'
<1>1. CASE page.debounced /\ Debounced(q, s, calls)
  BY <1>1 DEF Debounced, Send, LastWanted
<1>2. CASE ~page.debounced /\ Send(q, s) /\ UNCHANGED timer
  BY <1>2 DEF Send, LastWanted
<1>3. QED
  BY <1>1, <1>2 DEF Ask

\* A step that leaves the query and what was asked alone.
LEMMA KeepWanted ==
  ASSUME LastWanted, UNCHANGED <<timer, asked, search, source>>
  PROVE  LastWanted'
  BY DEF LastWanted

LEMMA WantedNext == LastWanted /\ [Next]_vars => LastWanted'
<1> SUFFICES ASSUME LastWanted, [Next]_vars PROVE LastWanted'
  OBVIOUS
<1>1. CASE Mount
  BY <1>1, AskWanted DEF Mount
<1>2. CASE TimerFires
  BY <1>2 DEF TimerFires, Send, LastWanted, asking
<1>3. ASSUME NEW q \in Searches, ChangeSearch(q) PROVE LastWanted'
  BY <1>3, AskWanted DEF ChangeSearch
<1>4. ASSUME NEW s \in Sources, SwitchSource(s) PROVE LastWanted'
  BY <1>4, AskWanted DEF SwitchSource
<1>5. CASE Refresh \/ JobEnds
  BY <1>5, AskWanted DEF Refresh, JobEnds
<1>6. ASSUME NEW r \in requests, Serve(r) \/ Deliver(r) PROVE LastWanted'
  BY <1>6, KeepWanted DEF Serve, Deliver
<1>7. CASE \/ \E rows \in SUBSET Items : Select(rows)
           \/ \E op \in page.operations : Confirm(op)
           \/ WorkStep
  BY <1>7, KeepWanted DEF Select, Confirm, WorkStep, view
<1>8. CASE WorkEnds
  <2>1. CASE Ask(search, source, 1)
    BY <1>8, <2>1, AskWanted DEF WorkEnds
  <2>2. CASE UNCHANGED <<timer, asking>>
    BY <1>8, <2>2, KeepWanted DEF WorkEnds, asking
  <2>3. QED
    BY <1>8, <2>1, <2>2 DEF WorkEnds
<1>9. CASE DelayEnds
  BY <1>9, AskWanted DEF DelayEnds
<1>10. CASE UNCHANGED vars
  BY <1>10, KeepWanted DEF vars, view
<1>11. QED
  BY <1>1, <1>2, <1>3, <1>4, <1>5, <1>6, <1>7, <1>8, <1>9, <1>10 DEF Next

\* The last request a page has sent asks for what the user wants now, however
\* searches, switches, refreshes, job events and operations interleave with
\* the debounce.  (componentDidUpdate and the _.debounce of every page.)
THEOREM LastRequestWanted == Spec => []AskedLast
<1>1. Init => LastWanted
  BY DEF Init, LastWanted
<1>2. LastWanted => AskedLast
  BY DEF LastWanted, AskedLast
<1>3. QED
  BY <1>1, <1>2, WantedNext, PTL DEF Spec

-----------------------------------------------------------------------------
(* Types.                                                                   *)

\* The type of what Ask changes.
LEMMA AskType ==
  ASSUME TypeOK, NEW q \in Searches, NEW s \in Sources, NEW calls, Ask(q, s, calls)
  PROVE  /\ timer' \in {"idle", "armed", "due"} /\ loading' \in BOOLEAN
         /\ asked' \in [n : Nat, search : Searches, source : Sources]
         /\ asked'.n >= asked.n
         /\ requests' \subseteq [n : 1..asked'.n, search : Searches,
                                source : Sources, got : Answers]
<1>1. asked.n \in Nat
  BY DEF TypeOK
<1>2. ASSUME Send(q, s)
      PROVE  /\ loading' \in BOOLEAN
             /\ asked' \in [n : Nat, search : Searches, source : Sources]
             /\ asked'.n >= asked.n
             /\ requests' \subseteq [n : 1..asked'.n, search : Searches,
                                    source : Sources, got : Answers]
  <2>1. asked'.n = asked.n + 1 /\ asked'.n \in Nat /\ asked'.n >= asked.n
    BY <1>1, <1>2 DEF Send
  <2>2. 1..asked.n \subseteq 1..asked'.n /\ asked'.n \in 1..asked'.n
    BY <1>1, <2>1
  <2>3. Unread \in Answers
    BY DEF Answers
  <2>4. requests' = requests \cup
          {[n |-> asked.n + 1, search |-> q, source |-> s, got |-> Unread]}
    BY <1>2 DEF Send
  <2>5. requests' \subseteq [n : 1..asked'.n, search : Searches,
                             source : Sources, got : Answers]
    BY <2>1, <2>2, <2>3, <2>4 DEF TypeOK
  <2>6. QED
    BY <1>2, <2>1, <2>5 DEF Send
<1>3. ASSUME UNCHANGED asking
      PROVE  /\ loading' \in BOOLEAN
             /\ asked' \in [n : Nat, search : Searches, source : Sources]
             /\ asked'.n >= asked.n
             /\ requests' \subseteq [n : 1..asked'.n, search : Searches,
                                    source : Sources, got : Answers]
  BY <1>1, <1>3 DEF asking, TypeOK
<1>4. timer' \in {"idle", "armed", "due"}
  BY DEF Ask, Debounced, TypeOK
<1>5. Send(q, s) \/ UNCHANGED asking
  BY DEF Ask, Debounced
<1>6. QED
  BY <1>2, <1>3, <1>4, <1>5

\* What a step of the rows and of the user keeps.
Kept ==
  UNCHANGED <<page, selected, work, cluster, writes>>

\* The parts of the type that do not speak of a request.
LEMMA AskedType ==
  ASSUME TypeOK, NEW q \in Searches, NEW s \in Sources, NEW calls, Ask(q, s, calls),
         search' = q, source' = s, Kept, shown' = shown, gestures' \in 0..MaxGestures
  PROVE  TypeOK'
<1>1. asked.n \in Nat /\ asked'.n \in Nat /\ asked'.n >= asked.n
  BY AskType DEF TypeOK
<1>2. shown' \in [n : 0..asked'.n, items : SUBSET Items, source : Sources, writes : Nat]
  BY <1>1 DEF TypeOK
<1>3. Works' = Works /\ NoWork' = NoWork
  BY DEF Kept, Works, NoWork
<1>4. QED
  BY <1>2, <1>3, AskType DEF TypeOK, Kept

LEMMA AnswersConstant == Answers' = Answers /\ Unread' = Unread /\ NoWork' = NoWork
  BY DEF Answers, Unread, NoWork

LEMMA RequestFields ==
  ASSUME TypeOK, NEW r \in requests
  PROVE  /\ r \in [n : 1..asked.n, search : Searches, source : Sources, got : Answers]
         /\ r.n \in 1..asked.n /\ r.search \in Searches /\ r.source \in Sources
         /\ r.got \in Answers
  BY DEF TypeOK

LEMMA ReadFields ==
  ASSUME NEW g \in Answers, g # Unread
  PROVE  g.items \in SUBSET Items /\ g.writes \in Nat
  BY DEF Answers

LEMMA WorkFields ==
  ASSUME TypeOK, Working
  PROVE  /\ work \in Works
         /\ work.op \in page.operations /\ work.op \in Operation
         /\ work.todo \in SUBSET Items /\ work.service \in Sources
  BY ListAssumption DEF TypeOK, Working, NoWork, Works

LEMMA TypeNext == TypeOK /\ [Next]_vars => TypeOK'
<1> SUFFICES ASSUME TypeOK, [Next]_vars PROVE TypeOK'
  OBVIOUS
<1> USE ListAssumption
<1>0. /\ search \in Searches /\ source \in Sources /\ gestures \in 0..MaxGestures
      /\ gestures < MaxGestures => gestures + 1 \in 0..MaxGestures
  BY DEF TypeOK
<1>1. CASE Mount
  BY <1>0, <1>1, AskedType DEF Mount, Kept
<1>2. CASE TimerFires
  <2>1. CASE timer = "armed" /\ timer' = "idle" /\ UNCHANGED <<page, source, search,
               asking, shown, selected, work, cluster, writes, gestures>>
    BY <2>1, AnswersConstant DEF TypeOK, asking, Works
  <2>2. CASE timer' = "idle" /\ Send(search, source) /\ UNCHANGED <<page, source,
               search, shown, selected, work, cluster, writes, gestures>>
    <3>1. asked.n \in Nat /\ asked'.n = asked.n + 1
      BY <2>2 DEF TypeOK, Send
    <3>2. /\ shown' \in [n : 0..asked'.n, items : SUBSET Items, source : Sources,
                          writes : Nat]
          /\ 1..asked.n \subseteq 1..asked'.n /\ asked'.n \in 1..asked'.n
      BY <2>2, <3>1 DEF TypeOK
    <3>3. requests' = requests \cup {[n |-> asked'.n, search |-> search,
                                     source |-> source, got |-> Unread]}
      BY <2>2, <3>1 DEF Send
    <3>4. Unread \in Answers
      BY DEF Answers
    <3>5. requests' \subseteq [n : 1..asked'.n, search : Searches, source : Sources,
                               got : Answers]
      BY <1>0, <3>2, <3>3, <3>4 DEF TypeOK
    <3>6. asked' \in [n : Nat, search : Searches, source : Sources] /\ loading' = TRUE
      BY <1>0, <2>2, <3>1 DEF Send
    <3>7. QED
      BY <2>2, <3>2, <3>5, <3>6, AnswersConstant DEF TypeOK, Works
  <2>3. QED
    BY <1>2, <2>1, <2>2 DEF TimerFires
<1>3. ASSUME NEW q \in Searches, ChangeSearch(q) PROVE TypeOK'
  BY <1>0, <1>3, AskedType DEF ChangeSearch, Gesture, Kept
<1>4. ASSUME NEW s \in Sources, SwitchSource(s) PROVE TypeOK'
  BY <1>0, <1>4, AskedType DEF SwitchSource, Gesture, Kept
<1>5. CASE Refresh \/ JobEnds
  BY <1>0, <1>5, AskedType DEF Refresh, JobEnds, Gesture, Kept
<1>6. ASSUME NEW r \in requests, Serve(r) PROVE TypeOK'
  <2>1. Rows(r) \in Answers
    BY RequestFields DEF Rows, Answers, TypeOK
  <2>2. [r EXCEPT !.got = Rows(r)] \in [n : 1..asked.n, search : Searches,
                                       source : Sources, got : Answers]
    BY <2>1, RequestFields
  <2>3. QED
    BY <1>6, <2>2, AnswersConstant DEF Serve, TypeOK, Works
<1>7. ASSUME NEW r \in requests, Deliver(r) PROVE TypeOK'
  <2>1. /\ shown' \in [n : 0..asked.n, items : SUBSET Items, source : Sources,
                        writes : Nat]
        /\ selected' \subseteq shown'.items /\ loading' \in BOOLEAN
    <3>1. CASE ShowRows(r)
      <4>1. r.n \in 0..asked.n /\ r.source \in Sources
        BY RequestFields DEF TypeOK
      <4>2. r.got.items \in SUBSET Items /\ r.got.writes \in Nat
        BY <3>1, RequestFields, ReadFields DEF ShowRows
      <4>3. shown' = [n |-> r.n, items |-> r.got.items, source |-> r.source,
                      writes |-> r.got.writes]
        BY <3>1 DEF ShowRows
      <4>4. selected' = selected \cap r.got.items /\ loading' = FALSE
        BY <3>1 DEF ShowRows
      <4>5. QED
        BY <4>1, <4>2, <4>3, <4>4
    <3>2. CASE ShowRefusal(r)
      BY <3>2 DEF ShowRefusal, TypeOK
    <3>3. CASE Throw(r)
      BY <3>3 DEF Throw, TypeOK
    <3>4. QED
      BY <1>7, <3>1, <3>2, <3>3 DEF Deliver
  <2>2. QED
    BY <1>7, <2>1, AnswersConstant DEF Deliver, TypeOK, Works
<1>8. ASSUME NEW rows \in SUBSET Items, Select(rows) PROVE TypeOK'
  BY <1>8, AnswersConstant DEF Select, TypeOK, view, Works
<1>9. ASSUME NEW op \in page.operations, Confirm(op) PROVE TypeOK'
  <2>1. work' \in Works /\ page' = page
    BY <1>9 DEF Confirm, Works, TypeOK, view
  <2>2. Works' = Works
    BY <2>1 DEF Works
  <2>3. QED
    BY <1>0, <1>9, <2>1, <2>2, AnswersConstant DEF Confirm, Gesture, TypeOK, view
<1>10. CASE WorkStep
  <2>1. work \in Works /\ Target(work.op) \in Sources
    BY <1>0, <1>10, WorkFields DEF WorkStep, Working, Target
  <2>2. PICK rows \in IF work.op.each THEN {{i} : i \in work.todo}
                                     ELSE {work.todo},
             applied \in BOOLEAN, ok \in BOOLEAN :
          /\ cluster' = IF applied /\ work.op.deletes
                        THEN [cluster EXCEPT ![Target(work.op)] = @ \ rows] ELSE cluster
          /\ writes' = IF applied THEN [writes EXCEPT ![Target(work.op)] = @ + 1]
                       ELSE writes
          /\ work' = [work EXCEPT
                !.todo = @ \ rows,
                !.done = IF ok THEN @ \cup rows ELSE @,
                !.failed = IF ok THEN @ ELSE @ \cup rows]
    BY <1>10 DEF WorkStep
  <2>3. cluster' \in [Sources -> SUBSET Items] /\ writes' \in [Sources -> Nat]
    BY <2>1, <2>2 DEF TypeOK
  <2>4. work' \in Works
    <3>1. rows \in SUBSET Items
      BY <1>10, <2>2, WorkFields DEF WorkStep, Working
    <3>2. QED
      BY <2>1, <2>2, <3>1 DEF Works
  <2>5. QED
    BY <1>10, <2>3, <2>4, AnswersConstant DEF WorkStep, TypeOK, view, Works
<1>11. CASE WorkEnds
  <2>1. work \in Works /\ [work EXCEPT !.pc = "idle"] \in Works
        /\ [work EXCEPT !.pc = "delay"] \in Works
    BY <1>11, WorkFields DEF WorkEnds, Working, Works
  <2>2. work' \in Works /\ Works' = Works
    BY <1>11, <2>1 DEF WorkEnds, Works
  <2>3. CASE Ask(search, source, 1)
    <3>1. asked.n \in Nat /\ asked'.n \in Nat /\ asked'.n >= asked.n
      BY <1>0, <2>3, AskType DEF TypeOK
    <3>2. shown' \in [n : 0..asked'.n, items : SUBSET Items, source : Sources,
                      writes : Nat]
      BY <1>11, <3>1 DEF TypeOK, WorkEnds
    <3>3. QED
      BY <1>0, <1>11, <2>2, <2>3, <3>2, AskType, AnswersConstant DEF TypeOK, WorkEnds
  <2>4. CASE UNCHANGED <<timer, asking>>
    BY <1>11, <2>2, <2>4, AnswersConstant DEF TypeOK, WorkEnds, asking
  <2>5. QED
    BY <1>11, <2>3, <2>4 DEF WorkEnds
<1>12. CASE DelayEnds
  <2>1. work \in Works /\ [work EXCEPT !.pc = "idle"] \in Works
    BY <1>12, WorkFields DEF DelayEnds, Working, Works
  <2>2. work' \in Works /\ Works' = Works
    BY <1>12, <2>1 DEF DelayEnds, Works
  <2>3. asked.n \in Nat /\ asked'.n \in Nat /\ asked'.n >= asked.n
    BY <1>0, <1>12, AskType DEF TypeOK, DelayEnds
  <2>4. shown' \in [n : 0..asked'.n, items : SUBSET Items, source : Sources,
                    writes : Nat]
    BY <1>12, <2>3 DEF TypeOK, DelayEnds
  <2>5. QED
    BY <1>0, <1>12, <2>2, <2>4, AskType, AnswersConstant DEF TypeOK, DelayEnds
<1>13. CASE UNCHANGED vars
  BY <1>13, AnswersConstant DEF vars, view, TypeOK, Works
<1>14. QED
  BY <1>1, <1>2, <1>3, <1>4, <1>5, <1>6, <1>7, <1>8, <1>9, <1>10, <1>11, <1>12,
     <1>13 DEF Next

\* The state of a list page is well typed.
THEOREM ListTypeCorrect == Spec => []TypeOK
<1>1. Init => TypeOK
  BY ListAssumption DEF Init, TypeOK
<1>2. QED
  BY <1>1, TypeNext, PTL DEF Spec

-----------------------------------------------------------------------------
(* The rows of a page at rest.  Requests are numbered, the last one and the *)
(* rows of the last one belong to the data source that was asked; while no  *)
(* operation is under way and none has failed without a refresh, its answer *)
(* and its rows hold every write of that data source.                       *)

Numbered ==
  /\ \A r \in requests : r.n = asked.n => r.source = asked.source
  /\ shown.n = asked.n => shown.source = asked.source

Settled ==
  timer # "due" /\ ~Working /\ (work.failed # {} => Refetches(work.op))

SeesWrites ==
  Settled =>
    /\ \A r \in requests :
         r.n = asked.n /\ r.got # Unread => r.got.writes = writes[r.source]
    /\ shown.n = asked.n => shown.writes = writes[shown.source]

\* An operation under way has rows, each to be done, done or refused.
HasRows ==
  Working => work.todo \cup work.done \cup work.failed # {}

Fresh == TypeOK /\ LastWanted /\ Numbered /\ SeesWrites /\ HasRows

\* A new request has a number of its own and no answer yet.
LEMMA SendFresh ==
  ASSUME TypeOK, Numbered, NEW q, NEW s, Send(q, s), shown' = shown
  PROVE  /\ Numbered'
         /\ \A r \in requests' : r.n = asked'.n => r.got = Unread
         /\ shown'.n # asked'.n
<1>1. asked.n \in Nat /\ asked'.n = asked.n + 1 /\ asked'.source = s
  BY DEF Send, TypeOK
<1>2. shown.n # asked.n + 1
  BY <1>1 DEF TypeOK
<1>3. \A r \in requests : r.n # asked.n + 1
  BY <1>1, RequestFields
<1>4. requests' = requests \cup
        {[n |-> asked.n + 1, search |-> q, source |-> s, got |-> Unread]}
  BY DEF Send
<1>5. QED
  BY <1>1, <1>2, <1>3, <1>4 DEF Numbered

LEMMA AskFresh ==
  ASSUME TypeOK, Numbered, NEW q, NEW s, NEW calls, Ask(q, s, calls), shown' = shown
  PROVE  Numbered' /\ SeesWrites'
<1>1. CASE Send(q, s)
  BY <1>1, SendFresh, AnswersConstant DEF SeesWrites
<1>2. CASE timer' = "due" /\ UNCHANGED asking
  BY <1>2 DEF SeesWrites, Settled, Numbered, asking
<1>3. QED
  BY <1>1, <1>2 DEF Ask, Debounced

\* A step that leaves the requests, the rows and the writes alone, and
\* settles nothing.
LEMMA KeepFresh ==
  ASSUME Numbered, SeesWrites, UNCHANGED <<asked, requests, shown, writes>>,
         Settled' => Settled
  PROVE  Numbered' /\ SeesWrites'
  BY AnswersConstant DEF Numbered, SeesWrites

LEMMA SettledKept ==
  ASSUME UNCHANGED work, timer' = timer \/ timer # "due"
  PROVE  Settled' => Settled
  BY DEF Settled, Working, Refetches

LEMMA FreshNext == Fresh /\ [Next]_vars => Numbered' /\ SeesWrites'
<1> SUFFICES ASSUME Fresh, [Next]_vars PROVE Numbered' /\ SeesWrites'
  OBVIOUS
<1>0. TypeOK /\ Numbered /\ SeesWrites /\ HasRows
  BY DEF Fresh
<1>1. CASE Mount
  BY <1>0, <1>1, AskFresh DEF Mount
<1>2. CASE TimerFires
  <2>1. CASE timer = "armed" /\ UNCHANGED <<asking, shown, work, writes>>
    BY <1>0, <2>1, KeepFresh, SettledKept DEF asking
  <2>2. CASE Send(search, source) /\ shown' = shown
    BY <1>0, <2>2, SendFresh, AnswersConstant DEF SeesWrites
  <2>3. QED
    BY <1>2, <2>1, <2>2 DEF TimerFires
<1>3. ASSUME NEW q \in Searches, ChangeSearch(q) PROVE Numbered' /\ SeesWrites'
  BY <1>0, <1>3, AskFresh DEF ChangeSearch
<1>4. ASSUME NEW s \in Sources, SwitchSource(s) PROVE Numbered' /\ SeesWrites'
  BY <1>0, <1>4, AskFresh DEF SwitchSource
<1>5. CASE Refresh \/ JobEnds
  BY <1>0, <1>5, AskFresh DEF Refresh, JobEnds
<1>6. ASSUME NEW r \in requests, Serve(r) PROVE Numbered' /\ SeesWrites'
  <2>1. r.n \in Nat /\ [r EXCEPT !.got = Rows(r)].n = r.n
        /\ [r EXCEPT !.got = Rows(r)].source = r.source
        /\ [r EXCEPT !.got = Rows(r)].got = Rows(r)
    BY <1>0, RequestFields DEF TypeOK
  <2>2. Rows(r).writes = writes[r.source]
    BY DEF Rows
  <2>3. requests' = (requests \ {r}) \cup {[r EXCEPT !.got = Rows(r)]}
        /\ UNCHANGED <<asked, shown, writes, timer, work>>
    BY <1>6 DEF Serve
  <2>4. Settled' => Settled
    BY <2>3, SettledKept
  <2>5. QED
    BY <1>0, <2>1, <2>2, <2>3, <2>4, AnswersConstant DEF Numbered, SeesWrites
<1>7. ASSUME NEW r \in requests, Deliver(r) PROVE Numbered' /\ SeesWrites'
  <2>1. requests' \subseteq requests /\ UNCHANGED <<asked, writes, timer, work>>
    BY <1>7 DEF Deliver
  <2>2. Settled' => Settled
    BY <2>1, SettledKept
  <2>3. CASE ShowRows(r)
    <3>1. shown'.n = r.n /\ shown'.source = r.source /\ r.got # Unread
          /\ shown'.writes = r.got.writes
      BY <2>3 DEF ShowRows
    <3>2. QED
      BY <1>0, <2>1, <2>2, <3>1, AnswersConstant DEF Numbered, SeesWrites
  <2>4. CASE ShowRefusal(r) \/ Throw(r)
    <3>1. shown'.n = shown.n /\ shown'.source = shown.source
          /\ shown'.writes = shown.writes
      BY <1>0, <2>4 DEF ShowRefusal, Throw, TypeOK
    <3>2. QED
      BY <1>0, <2>1, <2>2, <3>1, AnswersConstant DEF Numbered, SeesWrites
  <2>5. QED
    BY <1>7, <2>3, <2>4 DEF Deliver
<1>8. ASSUME NEW rows \in SUBSET Items, Select(rows) PROVE Numbered' /\ SeesWrites'
  BY <1>0, <1>8, KeepFresh, SettledKept DEF Select, view
<1>9. ASSUME NEW op \in page.operations, Confirm(op) PROVE Numbered' /\ SeesWrites'
  <2>1. ~Settled'
    BY <1>9 DEF Confirm, Settled, Working
  <2>2. QED
    BY <1>0, <1>9, <2>1, KeepFresh DEF Confirm, view
<1>10. CASE WorkStep
  <2>1. ~Settled'
    BY <1>0, <1>10, WorkFields DEF WorkStep, Settled, Working, Works
  <2>2. QED
    BY <1>0, <1>10, <2>1 DEF WorkStep, view, Numbered, SeesWrites
<1>11. CASE WorkEnds
  <2>1. CASE Ask(search, source, 1)
    BY <1>0, <1>11, <2>1, AskFresh DEF WorkEnds
  <2>2. CASE UNCHANGED <<timer, asking>> /\ work' = [work EXCEPT !.pc = "delay"]
    <3>1. ~Settled'
      BY <1>0, <1>11, <2>2, WorkFields DEF WorkEnds, Settled, Working, Works
    <3>2. QED
      BY <1>0, <1>11, <2>2, <3>1, KeepFresh DEF WorkEnds, asking
  <2>3. CASE UNCHANGED <<timer, asking>> /\ work' = [work EXCEPT !.pc = "idle"]
             /\ ~Refetches(work.op)
    <3>1. work \in Works /\ work.op \in Operation /\ work.todo = {}
      BY <1>0, <1>11, WorkFields DEF WorkEnds, Working
    <3>2. work.failed # {}
      <4>1. work.todo \cup work.done \cup work.failed # {}
        BY <1>0, <1>11 DEF HasRows, WorkEnds, Working
      <4>2. work.op.refetch \in {"always", "allOk", "anyOk"}
        BY <3>1 DEF Operation
      <4>3. QED
        BY <2>3, <3>1, <4>1, <4>2 DEF Refetches
    <3>3. work'.failed = work.failed /\ work'.done = work.done /\ work'.op = work.op
      BY <2>3, <3>1 DEF Works
    <3>4. ~Settled'
      BY <2>3, <3>2, <3>3 DEF Settled, Refetches
    <3>5. QED
      BY <1>0, <1>11, <2>3, <3>4, KeepFresh DEF WorkEnds, asking
  <2>4. QED
    BY <1>11, <2>1, <2>2, <2>3 DEF WorkEnds
<1>12. CASE DelayEnds
  BY <1>0, <1>12, AskFresh DEF DelayEnds
<1>13. CASE UNCHANGED vars
  BY <1>0, <1>13, KeepFresh, SettledKept DEF vars, view
<1>14. QED
  BY <1>1, <1>2, <1>3, <1>4, <1>5, <1>6, <1>7, <1>8, <1>9, <1>10, <1>11, <1>12,
     <1>13 DEF Next

-----------------------------------------------------------------------------
(* The operation under way.                                                 *)

LEMMA KeepWork ==
  ASSUME HasRows, UNCHANGED work
  PROVE  HasRows'
  BY DEF HasRows, Working

LEMMA WorkNext ==
  TypeOK /\ HasRows /\ [Next]_vars => HasRows'
<1> SUFFICES ASSUME TypeOK, HasRows, [Next]_vars
             PROVE  HasRows'
  OBVIOUS
<1>1. ASSUME NEW op \in page.operations, Confirm(op) PROVE HasRows'
  BY <1>1 DEF Confirm, HasRows
<1>2. CASE WorkStep
  <2>1. work \in Works
    BY <1>2, WorkFields DEF WorkStep, Working
  <2>2. PICK rows \in IF work.op.each THEN {{i} : i \in work.todo}
                                     ELSE {work.todo},
             applied \in BOOLEAN, ok \in BOOLEAN :
          work' = [work EXCEPT
                !.todo = @ \ rows,
                !.done = IF ok THEN @ \cup rows ELSE @,
                !.failed = IF ok THEN @ ELSE @ \cup rows]
    BY <1>2 DEF WorkStep
  <2>3. /\ work'.todo = work.todo \ rows
        /\ work'.done = (IF ok THEN work.done \cup rows ELSE work.done)
        /\ work'.failed = (IF ok THEN work.failed ELSE work.failed \cup rows)
    BY <2>1, <2>2 DEF Works
  <2>4. work.todo \cup work.done \cup work.failed
          \subseteq work'.todo \cup work'.done \cup work'.failed
    BY <2>3
  <2>5. QED
    BY <1>2, <2>4 DEF HasRows, Working, WorkStep
<1>3. CASE WorkEnds \/ DelayEnds
  <2>1. work \in Works /\ Working
    BY <1>3, WorkFields DEF WorkEnds, DelayEnds, Working
  <2>2. \E pc \in {"idle", "delay"} : work' = [work EXCEPT !.pc = pc]
    BY <1>3 DEF WorkEnds, DelayEnds
  <2>3. /\ work'.todo = work.todo /\ work'.done = work.done
        /\ work'.failed = work.failed
    BY <2>1, <2>2 DEF Works
  <2>4. QED
    BY <2>1, <2>3 DEF HasRows
<1>4. CASE UNCHANGED work
  BY <1>4, KeepWork
<1>5. QED
  BY <1>1, <1>2, <1>3, <1>4
     DEF Next, Mount, TimerFires, ChangeSearch, SwitchSource, Refresh, JobEnds, Serve,
         Deliver, Select, vars

-----------------------------------------------------------------------------

\* A page at rest that shows the answer to its last request shows every
\* write that its own operations have made on the chosen data source, in
\* whatever order requests, answers, debounced calls and switches came.
\* (onClickDelete, onEnable, onDisable, onConfirm of the list pages.)
THEOREM RestIsFresh == Spec => []FreshAtRest
<1>1. Init => Fresh
  <2>1. Init => TypeOK /\ LastWanted
    BY ListAssumption DEF Init, TypeOK, LastWanted
  <2>2. Init => Numbered /\ SeesWrites /\ HasRows
    BY DEF Init, Numbered, SeesWrites, HasRows, Working, NoWork
  <2>3. QED
    BY <2>1, <2>2 DEF Fresh
<1>2. Fresh /\ [Next]_vars => Fresh'
  BY TypeNext, WantedNext, FreshNext, WorkNext DEF Fresh
<1>3. Fresh => FreshAtRest
  BY DEF Fresh, FreshAtRest, Quiet, Settled, SeesWrites, LastWanted, Numbered
<1>4. QED
  BY <1>1, <1>2, <1>3, PTL DEF Spec

=============================================================================
