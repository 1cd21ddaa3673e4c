----------------------------- MODULE ListPages -----------------------------
(***************************************************************************)
(* The list pages of the plugin: policies, managed indices, indices,       *)
(* rollups, transforms, aliases, data streams, index and component         *)
(* templates, snapshots, snapshot policies and repositories.               *)
(*                                                                         *)
(* A page shows the rows of one cluster (its data source) that match what  *)
(* the user searches for.  It asks for them again whenever the query       *)
(* changes, after its own operations, on a refresh and, for the indices,   *)
(* when a background job ends; most pages debounce the request.  Answers   *)
(* come back in any order and are not matched to the query of the moment.  *)
(* Each page is one record that says where it differs from the others.     *)
(***************************************************************************)
EXTENDS Naturals, FiniteSets

CONSTANTS
    Sources,        \* the clusters (data sources) the user may choose from
    Items,          \* what a cluster may hold: policies, indices, ...
    Searches,       \* the queries: text, sorting and page of the table
    Hits,           \* Hits[q]: the items a query matches
    PagesChecked,   \* the pages of this instance, records of Pages
    MaxGestures     \* bound: queries, switches, refreshes, operations

\* What an operation on the selected rows does: one request for each row or
\* one for all; the service taken once, when the operation starts, or read
\* from the props for each row; when the rows are fetched again.
Operation == [deletes : BOOLEAN, each : BOOLEAN, captures : BOOLEAN,
              refetch : {"always", "allOk", "anyOk"}, delayed : BOOLEAN]

ASSUME ListAssumption ==
    /\ Hits \in [Searches -> SUBSET Items]
    /\ MaxGestures \in Nat
    /\ \A p \in PagesChecked : p.operations \subseteq Operation

VARIABLES
    page,       \* the page that is open
    source,     \* the data source, in the props and the state of the page
    search,     \* what the state of the page asks for
    timer,      \* the debounce: "idle", "armed", or "due" with a call to make
    loading,    \* the loading flag
    asked,      \* the last request sent: its number, search and source
    requests,   \* requests under way, with their answer once there is one
    shown,      \* the rows, with the request that brought them
    selected,   \* the selected rows
    work,       \* the delete, start or stop operation under way
    cluster,    \* the items of each cluster
    writes,     \* how many writes of this page each cluster has applied
    gestures    \* what the user has done so far, up to MaxGestures

asking == <<asked, requests, loading>>
view == <<page, source, search, timer, loading, asked, requests, shown>>
vars == <<view, selected, work, cluster, writes, gestures>>

-----------------------------------------------------------------------------
(* The operations.                                                          *)

\* One request per row, on the service the operation started with.
EachRow(deletes) ==
    [deletes |-> deletes, each |-> TRUE, captures |-> TRUE,
     refetch |-> "always", delayed |-> FALSE]

\* One request names all the rows; a page refreshes if it succeeded.
OneRequest ==
    [deletes |-> TRUE, each |-> FALSE, captures |-> TRUE,
     refetch |-> "allOk", delayed |-> FALSE]

\* All at once; the rows are fetched again only if every request succeeded.
DeletePolicies == [EachRow(TRUE) EXCEPT !.refetch = "allOk"]

\* One request that reports which indices were updated; any is enough.
RemovePolicy ==
    [EachRow(TRUE) EXCEPT !.refetch = "anyOk"]

DeleteRollups == EachRow(TRUE)
ToggleRollups == EachRow(FALSE)
DeleteTransforms == EachRow(TRUE)
ToggleTransforms == EachRow(FALSE)
DeleteIndices == OneRequest
DeleteAliases == OneRequest
DeleteTemplates == OneRequest
DeleteDataStreams == OneRequest
DeleteComponents == OneRequest
DeleteSnapshotPolicies == EachRow(TRUE)
ToggleSnapshotPolicies == [EachRow(FALSE) EXCEPT !.delayed = TRUE]

\* These two read this.props again for every row.
DeleteSnapshots == [EachRow(TRUE) EXCEPT !.captures = FALSE]
DeleteRepositories == [EachRow(TRUE) EXCEPT !.captures = FALSE]

-----------------------------------------------------------------------------
(* The pages.  debounced: the request function is debounced.  twice: a new  *)
(* search asks both when the state is set and when the component has been   *)
(* updated.  guarded: a request that throws still ends the loading state.   *)
(* empties: a refused request leaves the table empty.  events: the page is  *)
(* refreshed by the end of a background job.  Pages that behave alike are   *)
(* one record.                                                              *)

Page(operations) ==
    [debounced |-> TRUE, twice |-> FALSE, guarded |-> TRUE,
     empties |-> FALSE, searches |-> TRUE, events |-> FALSE,
     operations |-> operations]

PoliciesPage == Page({DeletePolicies})
ManagedIndicesPage == Page({RemovePolicy})
RollupsPage == Page({DeleteRollups, ToggleRollups})
TransformsPage == Page({DeleteTransforms, ToggleTransforms})
IndicesPage == [Page({DeleteIndices}) EXCEPT !.events = TRUE]

\* Four pages that were written alike, without a try around the request.
UnguardedPage(operation) ==
    [Page({operation}) EXCEPT !.twice = TRUE, !.guarded = FALSE]

AliasesPage == UnguardedPage(DeleteAliases)
TemplatesPage == UnguardedPage(DeleteTemplates)
DataStreamsPage == UnguardedPage(DeleteDataStreams)
ComposableTemplatesPage ==
    [UnguardedPage(DeleteComponents)
        EXCEPT !.empties = TRUE]

SnapshotPoliciesPage ==
    [Page({DeleteSnapshotPolicies, ToggleSnapshotPolicies})
        EXCEPT !.debounced = FALSE]
SnapshotsPage ==
    [Page({DeleteSnapshots}) EXCEPT !.searches = FALSE]
RepositoriesPage ==
    [Page({DeleteRepositories})
        EXCEPT !.debounced = FALSE, !.searches = FALSE]

Pages == {PoliciesPage, ManagedIndicesPage, RollupsPage, TransformsPage,
          IndicesPage, AliasesPage, TemplatesPage, DataStreamsPage,
          ComposableTemplatesPage, SnapshotPoliciesPage, SnapshotsPage,
          RepositoriesPage}

-----------------------------------------------------------------------------
Unread == [read |-> FALSE]
Rows(r) == [read |-> TRUE, items |-> cluster[r.source] \cap Hits[r.search],
            writes |-> writes[r.source]]

NoWork == [pc |-> "idle", todo |-> {}, done |-> {}, failed |-> {}]
Working == work.pc # "idle"

Init ==
    /\ page \in PagesChecked
    /\ source \in Sources
    /\ search \in Searches
    /\ timer = "idle"
    /\ loading = TRUE
    /\ asked = [n |-> 0, search |-> search, source |-> source]
    /\ requests = {}
    /\ shown = [n |-> 0, items |-> {}, source |-> source, writes |-> 0]
    /\ selected = {}
    /\ work = NoWork
    /\ cluster = [s \in Sources |-> Items]
    /\ writes = [s \in Sources |-> 0]
    /\ gestures = 0

Mounted == asked.n > 0

Gesture ==
    /\ gestures < MaxGestures
    /\ gestures' = gestures + 1

-----------------------------------------------------------------------------
(* Asking for the rows.                                                     *)

\* The body of getPolicies, getIndices, ...: it reads the state and the
\* service of the moment it runs, not of the moment it was called.
Send(q, s) ==
    /\ asked' = [n |-> asked.n + 1, search |-> q, source |-> s]
    /\ requests' = requests \cup
            {[n |-> asked.n + 1, search |-> q, source |-> s, got |-> Unread]}
    /\ loading' = TRUE

\* Mutant of Debounced: without the trailing call.
DebouncedLeading(q, s, calls) ==
    \/ timer = "idle" /\ Send(q, s) /\ timer' = "armed"
    \/ timer # "idle" /\ UNCHANGED <<timer, asking>>

\* _.debounce(f, 500, { leading: true }): the first call runs at once, the
\* calls made while the timer is armed are one call when it fires.
Debounced(q, s, calls) ==
    \/ /\ timer = "idle"
       /\ Send(q, s)
       /\ timer' = IF calls = 1 THEN "armed" ELSE "due"
    \/ /\ timer # "idle"
       /\ timer' = "due"
       /\ UNCHANGED asking

Ask(q, s, calls) ==
    \/ page.debounced /\ Debounced(q, s, calls)
    \/ ~page.debounced /\ Send(q, s) /\ UNCHANGED timer

\* The timer of the debounce fires: with a call due, the function runs with
\* what the state holds now.
TimerFires ==
    \/ /\ timer = "armed"
       /\ timer' = "idle"
       /\ UNCHANGED <<page, source, search, asking, shown,
                      selected, work, cluster, writes, gestures>>
    \/ /\ timer = "due"
       /\ timer' = "idle"
       /\ Send(search, source)
       /\ UNCHANGED <<page, source, search, shown,
                      selected, work, cluster, writes, gestures>>

\* componentDidMount
Mount ==
    /\ ~Mounted
    /\ Ask(search, source, 1)
    /\ UNCHANGED <<page, source, search, shown,
                   selected, work, cluster, writes, gestures>>

\* onSearchChange, onTableChange, onPageClick: the state changes and
\* componentDidUpdate sees another query.
ChangeSearch(q) ==
    /\ Mounted /\ page.searches /\ q # search
    /\ Gesture
    /\ search' = q
    /\ Ask(q, source, IF page.twice THEN 2 ELSE 1)
    /\ UNCHANGED <<page, source, shown, selected, work, cluster, writes>>

\* onSelectedDataSources of Main: the page gets services of another cluster
\* and another dataSourceId, part of its query; its rows stay.
SwitchSource(s) ==
    /\ Mounted /\ s # source
    /\ Gesture
    /\ source' = s
    /\ Ask(search, s, 1)
    /\ UNCHANGED <<page, search, shown, selected, work, cluster, writes>>

\* The refresh button or timer of a page.
Refresh ==
    /\ Mounted /\ Gesture
    /\ Ask(search, source, 1)
    /\ UNCHANGED <<page, source, search, shown, selected, work, cluster, writes>>

\* An event of JobHandler (REINDEX_COMPLETE, OPEN_COMPLETE, ...).
JobEnds ==
    /\ Mounted /\ page.events /\ Gesture
    /\ Ask(search, source, 1)
    /\ UNCHANGED <<page, source, search, shown, selected, work, cluster, writes>>

-----------------------------------------------------------------------------
(* Answers.                                                                 *)

\* The cluster reads what a request asks for.
Serve(r) ==
    /\ r.got = Unread
    /\ requests' = (requests \ {r}) \cup {[r EXCEPT !.got = Rows(r)]}
    /\ UNCHANGED <<page, source, search, timer, loading, asked, shown,
                   selected, work, cluster, writes, gestures>>

\* Mutant of ShowRows: the selection is not pruned.
ShowRowsOnly(r) ==
    /\ r.got # Unread
    /\ shown' = [n |-> r.n, items |-> r.got.items, source |-> r.source,
                 writes |-> r.got.writes]
    /\ loading' = FALSE
    /\ UNCHANGED selected

\* An answer is shown whatever has been asked for since.  The selection
\* keeps what the new rows still have.
ShowRows(r) ==
    /\ r.got # Unread
    /\ shown' = [n |-> r.n, items |-> r.got.items, source |-> r.source,
                 writes |-> r.got.writes]
    /\ selected' = selected \cap r.got.items
    /\ loading' = FALSE

\* A refused request (ok: false): a toast, and for the component templates
\* no rows.
ShowRefusal(r) ==
    /\ r.got = Unread
    /\ loading' = FALSE
    /\ shown' = IF page.empties THEN [shown EXCEPT !.items = {}] ELSE shown
    /\ selected' = IF page.empties THEN {} ELSE selected

\* Mutant of Throw: no page ends its loading state.
ThrowLoading(r) ==
    /\ r.got = Unread
    /\ UNCHANGED <<loading, shown, selected>>

\* A request whose promise is rejected, inside a try or outside of one.
Throw(r) ==
    /\ r.got = Unread
    /\ loading' = (loading /\ ~page.guarded)
    /\ UNCHANGED <<shown, selected>>

Deliver(r) ==
    /\ ShowRows(r) \/ ShowRefusal(r) \/ Throw(r)
    /\ requests' = requests \ {r}
    /\ UNCHANGED <<page, source, search, timer, asked,
                   work, cluster, writes, gestures>>

-----------------------------------------------------------------------------
(* Operations on the selected rows.                                         *)

Select(rows) ==
    /\ rows \subseteq shown.items /\ rows # selected
    /\ ~Working
    /\ selected' = rows
    /\ UNCHANGED <<view, work, cluster, writes, gestures>>

\* The user confirms a delete, a start or a stop.  One at a time.
Confirm(op) ==
    /\ Mounted /\ ~Working /\ selected # {}
    /\ Gesture
    /\ work' = [pc |-> "running", op |-> op, todo |-> selected, done |-> {},
                failed |-> {}, service |-> source]
    /\ UNCHANGED <<view, selected, cluster, writes>>

\* The cluster the next request of the operation goes to.
Target(op) == IF op.captures THEN work.service ELSE source

\* The next request, for one row or for all of them, and its answer: the
\* write is applied and acknowledged, applied and the answer lost, or refused.
WorkStep ==
    /\ work.pc = "running" /\ work.todo # {}
    /\ \E rows \in IF work.op.each THEN {{i} : i \in work.todo}
                                   ELSE {work.todo},
          applied, ok \in BOOLEAN :
         LET s == Target(work.op) IN
         /\ ok => applied
         /\ cluster' = IF applied /\ work.op.deletes
                       THEN [cluster EXCEPT ![s] = @ \ rows] ELSE cluster
         /\ writes' = IF applied THEN [writes EXCEPT ![s] = @ + 1] ELSE writes
         /\ work' = [work EXCEPT
                !.todo = @ \ rows,
                !.done = IF ok THEN @ \cup rows ELSE @,
                !.failed = IF ok THEN @ ELSE @ \cup rows]
    /\ UNCHANGED <<view, selected, gestures>>

Refetches(op) ==
    \/ op.refetch = "always"
    \/ op.refetch = "allOk" /\ work.failed = {}
    \/ op.refetch = "anyOk" /\ work.done # {}

\* Every row has its answer: the page asks for its rows again, at once or
\* after a second, or leaves them.
WorkEnds ==
    /\ work.pc = "running" /\ work.todo = {}
    /\ \/ /\ Refetches(work.op) /\ ~work.op.delayed
          /\ work' = [work EXCEPT !.pc = "idle"]
          /\ Ask(search, source, 1)
       \/ /\ Refetches(work.op) /\ work.op.delayed
          /\ work' = [work EXCEPT !.pc = "delay"]
          /\ UNCHANGED <<timer, asking>>
       \/ /\ ~Refetches(work.op)
          /\ work' = [work EXCEPT !.pc = "idle"]
          /\ UNCHANGED <<timer, asking>>
    /\ UNCHANGED <<page, source, search, shown, selected, cluster, writes, gestures>>

\* Mutant of DelayEnds: the rows are not asked for.
DelayEndsSilently ==
    /\ work.pc = "delay"
    /\ work' = [work EXCEPT !.pc = "idle"]
    /\ UNCHANGED <<view, selected, cluster, writes, gestures>>

\* _.delay(this.getPolicies, 1000)
DelayEnds ==
    /\ work.pc = "delay"
    /\ work' = [work EXCEPT !.pc = "idle"]
    /\ Ask(search, source, 1)
    /\ UNCHANGED <<page, source, search, shown, selected, cluster, writes, gestures>>

-----------------------------------------------------------------------------
Next ==
    \/ Mount
    \/ TimerFires
    \/ \E q \in Searches : ChangeSearch(q)
    \/ \E s \in Sources : SwitchSource(s)
    \/ Refresh
    \/ JobEnds
    \/ \E r \in requests : Serve(r)
    \/ \E r \in requests : Deliver(r)
    \/ \E rows \in SUBSET Items : Select(rows)
    \/ \E op \in page.operations : Confirm(op)
    \/ WorkStep
    \/ WorkEnds
    \/ DelayEnds

\* The browser mounts the page and runs its timers and continuations, and a
\* request is answered or rejected; the user owes nothing.
Fairness ==
    /\ WF_vars(Mount)
    /\ WF_vars(TimerFires)
    /\ WF_vars(\E r \in requests : Deliver(r))
    /\ WF_vars(WorkStep)
    /\ WF_vars(WorkEnds)
    /\ WF_vars(DelayEnds)

Spec == Init /\ [][Next]_vars
FairSpec == Spec /\ Fairness

-----------------------------------------------------------------------------
(* Properties.                                                              *)

Answers ==
    {Unread} \cup [read : {TRUE}, items : SUBSET Items, writes : Nat]

Works ==
    [pc : {"idle", "running", "delay"}, op : page.operations,
     todo : SUBSET Items, done : SUBSET Items, failed : SUBSET Items,
     service : Sources]

TypeOK ==
    /\ page \in PagesChecked /\ source \in Sources /\ search \in Searches
    /\ timer \in {"idle", "armed", "due"} /\ loading \in BOOLEAN
    /\ asked \in [n : Nat, search : Searches, source : Sources]
    /\ requests \subseteq [n : 1..asked.n, search : Searches,
                           source : Sources, got : Answers]
    /\ shown \in [n : 0..asked.n, items : SUBSET Items, source : Sources,
                   writes : Nat]
    /\ selected \subseteq shown.items
    /\ work = NoWork \/ work \in Works
    /\ cluster \in [Sources -> SUBSET Items]
    /\ writes \in [Sources -> Nat]
    /\ gestures \in 0..MaxGestures

\* The last request a page has sent, unless one is due when the timer fires,
\* asks for what the user wants now, in the data source chosen now: no
\* change of the query is swallowed by the debounce or missed by
\* componentDidUpdate.  (getQueryObjectFromState, componentDidUpdate and the
\* _.debounce of every page.)
AskedLast ==
    Mounted /\ timer # "due" =>
        asked.search = search /\ asked.source = source

Quiet == Mounted /\ timer # "due" /\ requests = {} /\ ~Working

\* A page at rest whose last answer is that to its last request shows no row
\* that its own operations have deleted, started or stopped since: each write
\* the cluster acknowledged is followed by a request that sees it.  A page
\* that refreshes only after a success may miss a write of an operation that
\* failed in part.  (onClickDelete, onEnable, onDisable, onConfirm.)
FreshAtRest ==
    /\ Quiet
    /\ shown.n = asked.n
    /\ work.failed # {} => Refetches(work.op)
    => shown.writes = writes[source]

\* Loading ends, whatever becomes of the requests, on the pages that guard
\* them; the others wait for an answer that may never be looked at.
LoadingEnds == loading /\ page.guarded ~> ~loading

=============================================================================
