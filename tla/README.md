# Verification of the Index Management dashboards plugin

TLA+ models of the stateful parts of this plugin, the TLC instances that check
them, and theorems about them checked by TLAPS. The plugin is a browser
application (`src/public`, React) with a thin server part (`src/server`) that
passes requests on to an OpenSearch cluster. Almost all of its state lives in
the browser: in page components, in one background scheduler and in
localStorage. What is hard about it is asynchrony: answers that arrive late,
timers, several tabs, several users and a cluster that moves on meanwhile.

To run TLC: `tlc -config Forms.cfg MCForms.tla` (the other runs alike, see "Runs").
To check the proofs: `tlapm JobSchedulerProofs.tla`, and the same for
`SequenceFacts`, `PolicyDocProofs`, `ListPagesProofs`, `IndexPagesProofs`, `FormsProofs`,
`StateBodyProofs` and `VisualPolicyProofs`.

## 1. Inventory

Sources are relative to `src/`.

| Part | State | Operations | Interacts with | Hard | Correct means | Module |
|---|---|---|---|---|---|---|
| Job scheduler `public/lib/JobScheduler`, `public/context` | list of jobs in localStorage; `runningJobMap`, timers, storage key, callbacks (per tab) | init, setStorage, addCallback, addJob, loopJob, runJob, runStaledJob, deleteJob | pages (addJob), handlers (callbacks), other tabs (localStorage) | awaits between read and write, two timers per job, reloads, an hour's deadline | one toast per job, the right one, eventually; stored = watched | `JobScheduler`, `JobWatch` |
| Job handlers `public/JobHandler` | none (toasts) | register, five callbacks, five timeout callbacks | scheduler, cluster (task documents) | failed and late answers, remote tasks | a result is shown iff there is one | `JobScheduler` |
| Visual policy editor, states: `public/pages/VisualCreatePolicy` | policy, editingState, showFlyout; the flyout's name and order | open/close flyout, edit, delete, default, save; load, submit | flyout <-> page, policy service | flyout and page both hold a copy; late load | each gesture changes one state; names unique | `VisualPolicy`, `PolicyStates` |
| Visual policy editor, inside of a state: `CreateState`, `CreateAction`, `CreateTransition`, `UIActions` | lists of actions and transitions, the draft of a panel, shared settings objects | add, edit, move, delete, change type, type, save, cancel | panel <-> flyout <-> policy | copies of copies, one object never copied, new ids | an edit hits the entry that was clicked; a draft is a draft | `StateBody` |
| JSON policy editor `public/pages/CreatePolicy` | policy text, seqNo, primaryTerm, isSubmitting | load, edit, submit, leave | policy service | concurrent editors, lost answers | no lost update, no revival, no page that hangs | `PolicyDoc` |
| Policy service `server/services/PolicyService.ts`, `public/services/PolicyService.ts` | none | get, put (create or update), delete, list | cluster | failures as `ok: false` | as above | `PolicyDoc` |
| List pages (Policies, ManagedIndices, Indices, Aliases, DataStreams, Templates, ComposableTemplates, Rollups, Transforms, Snapshots, SnapshotPolicies, Repositories) | query, data source, debounce timer, rows, selection, loading | search, switch the data source, fetch, refresh, select, delete, start or stop many | their service, Main (data source), scheduler (refresh events) | answers out of order, debounce, a switch in the middle of an operation | the last request is for what is wanted; own writes are seen; loading ends | `ListPages` |
| Create and edit pages of rollups, transforms and snapshot policies, with the details pages | form values, the document in state, the shared base object, seqNo, step, isSubmitting; `dataSourceReadOnly` of Main | open, load, change, next, previous, review, submit, leave; start, stop, delete elsewhere | services, Main, details page | values held twice, some copied at once and some at submission; version; wizards remounted | what is saved was shown; what was not touched stays; a stop holds | `JobForm` |
| Definition of a transform (wizard, step 2) | list of items, groups, aggregations, previews under way | add, remove, rename, preview, change source, submit | preview service | a preview that fails late | what is created is what is listed | `TransformDefinition` |
| Reindex, ShrinkIndex, SplitIndex, ForceMerge, Rollover | source as shown, loading, form, listeners | read, open, prepare, check, submit, add the job | cluster, scheduler (OPEN_COMPLETE, addJob) | reads in two requests, double clicks, an exception between task and job | started once, not onto itself, and watched | `IndexOperation` |
| Updates of an index: edit page and tabs, CreateAlias, templates, notification settings | loaded values, form values, isSubmitting | type, revert, submit in one or several requests, retry, load again | services, other users | partial failure; no version in the requests | success told = saved; others' changes stay | `IndexUpdate` |
| Main, data sources | dataSourceId, dataSourceReadOnly | select, lock | every page | requests of the old source | as the pages see it | in `ListPages`, `JobForm` |
| Form library `public/lib/field` | values, errors, validators | set, validate | forms | late validation | - | not modelled |
| Pure helpers (cron and time strings, shard options, mappings, `server/utils`) | none | conversions | - | boundaries | - | not modelled |
| Shared components, schemas, CommonService, routes, tests | none worth a model | - | - | - | - | not modelled |

`PROJECT.json` lists each part with its main files and status, and the hazards with
the line where each one bites.

## 2. Modules

```
JobWatch  <--implements--  JobScheduler  <--  SchedulerOneTab  <--  MCJobScheduler (TLC)
                                                               <--  JobSchedulerProofs (TLAPS)
PolicyStates  <--implements--  VisualPolicy  <--  MCVisualPolicy  <--  MCPolicyEditor (TLC)
                               StateBody  <-----------------------------'
StateBodyProofs  -->  StateBody         VisualPolicyProofs  -->  MCPolicyEditor, StateBodyProofs
PolicyDoc  <--  MCPolicyDoc (TLC)
           <--  PolicyDocProofs (TLAPS)
ListPages  <--  MCListPages (TLC)
           <--  ListPagesProofs (TLAPS)
JobForm, TransformDefinition, IndexOperation, IndexUpdate  <--  MCForms (TLC)
IndexPagesProofs  -->  IndexOperation, IndexUpdate
FormsProofs  -->  MCForms, IndexPagesProofs
SequenceFacts: lemmas on sequences for StateBodyProofs, FormsProofs, VisualPolicyProofs
```

The modules meet at the interfaces of the code: a task that `IndexOperation` has
started becomes a job of `JobScheduler` (`AddTask`, `SubmitJob`); the end of a job
refreshes the indices page (`JobEnds` in `ListPages`); an edit of `StateBody` is one
`EditBody` of `VisualPolicy`; a saved policy is one `PutPolicy` of `PolicyDoc`.

### JobScheduler

The queue that watches reindex, split, shrink, force merge and open tasks. A page
starts a task and calls `addJob`; the scheduler stores the job in localStorage,
polls the task document on a timer, shows a toast when there is a result and
removes the job, or shows a timeout toast when a run has started after the job's
hour.

State: `disk` is localStorage, per key ("default" for `ISM_JOBS`, "user" for the
key of version and user) and per job what the stored record tells: nothing
stored, never run, last run before ("fresh") or after ("late") `createTime +
timeout`. `running`, `armed` and `first` are, per tab, the keys of
`runningJobMap`, the pending interval timers and the pending first-run timers;
they are separate because the code keeps them apart. `task`, `overdue` are the
cluster and the clock. `reports` and `timeouts` count toasts; `inTime` is a
history variable.

Inside a tab JavaScript is single threaded, but each `await` of the code is a
place where another *tab* may get at localStorage. So a tab's activity is a set
of "chains", each with a `pc` that says which piece of code between two awaits
comes next. `Quiescent(t)`: nothing of tab t is under way except waits for the
server; only then does the browser start the next task of that tab (timer,
answer, click). Within one task the chains of a tab may interleave (several
staled jobs are removed side by side), as microtasks do.

| Code | Actions |
|---|---|
| import of JobSchedulerContext: `new`, `init` -> `loopJob` | `OpenTab`, then `LoopJob` |
| `JobHandlerRegister` after its request | `JobHandlerRegister` |
| a page starts a task, awaits the cluster's name, `addJob` | `StartOperation`, `SubmitJob` |
| `addJob` up to the storage, `StoreLocalStorage.set`, rest of `addJob` | `AddJob` (in `SubmitJob`, `ReAddJob`), `StoreJob`, `ArmFirstRun` |
| `loopJob` after `getAll` | `LoopJob` |
| `runStaledJob` + `deleteJob`, `StoreLocalStorage.delete` | `TimeOutJob`, `DeleteStaledJob` |
| timer closures, `runJob` up to the handlers | `FireTimer`, `FireFirstRun` |
| request and answer of a handler | `Answer`, `Deliver` |
| rest of `runJob` | `EndRun`, `DeleteRunJob`, `ReAddJob` |
| reload or close | `CloseTab` |

Not told apart: the interval lengths, the wording and kind of a result toast
(success, failure, cancelled), the five types except that an open may complete
without its shards (`unacked`, which `open.tsx` does not take as a result).
The interval timer's closure tests a record that was not staled when it was
captured and is never changed, so its `else` branch cannot run.

`SchedulerOneTab` adds what holds of one tab, in five parts that `OneTabInv` puts
together (section 4); it has no state of its own.

`JobWatch` is the promise without any of this: a submitted operation gets at most
one toast (two with a first-run timer), a result only if the task has one, a timeout
only if the hour has passed and there was no result within it. `Promise` in
JobScheduler says that the scheduler implements it: the variables of JobWatch are those
of the same names.

### VisualPolicy and StateBody

`VisualPolicy` is the list of states on the page and the flyout that edits one.
`policy` (an ordered list of states and the default), `editing` (`editingState`)
belong to the page; `flyout` is the state of `CreateState`, a copy made when it
opens. The actions and transitions of a state are one `body`, a number that changes
with each edit; `StateBody` opens it up. Each handler is one action; `GetOrderInfo`,
`GetUpdatedStates`, `GetUpdatedPolicy` translate `utils/helpers.ts`.

The flyout has `ownFocus={false}` and does not cover the page, so the handlers of
the page stay within reach while it is open. The constant `Background` says which
of them the user uses then: "default", "edit", "delete", or "deleteOther" (delete
states the flyout does not refer to). `EarlyActions` says whether the user acts
before the policy to edit has arrived. The passing run has what the code supports,
the violation run what it does not.

`PolicyStates` is the abstract editor: states are a function from names to bodies,
without order, flyout or load, and each gesture adds, changes or removes one state
or picks the initial one. `OneStateAtATime` is the refinement.

`StateBody` is the inside of the flyout for one state. `stored` is what the policy
has, `lists` what the flyout has (actions and transitions, each entry with an `id`),
`panel` the panel that is open, with the entry it was opened for (`edited`), the
draft it works on and the place of the entry (`at`). `objects` are the settings
objects of shrink actions, which no copy in the code reaches: entries of a list,
the stored policy, the draft and the constant `DEFAULT_SHRINK` hold a reference.
A kind of action is a record that says what its class does: whether it has inputs
of its own (`typed`), whether `timeout` and `retry` survive a change of these
(`keeps`), whether its settings are a shared object (`shares`) and what a new one
holds (`first`).

| Code | Actions |
|---|---|
| `CreateState` constructor, `onClickEdit...`, `onClickAdd...` | `OpenFlyout`, `OpenPanel` |
| `onDragEnd...`, `onClickDelete...` | `Move`, `Delete` |
| `onChangeSelectedAction`; `onChangeAction` by the inputs of the kind, by timeout and retry, by the JSON inputs of shrink | `SelectType`; `TypeInput`, `TypeRest`, `TypeText` |
| `onClickSaveAction`, `onClickSaveTransition`, `onClickCancelAction` | `SavePanel` (the place by `Sought`), `CancelPanel` |
| `onClickSaveState`, close | `SaveState_`, `CloseFlyout` |

### PolicyDoc

One policy document, editor pages (JSON and visual, creating or editing), and the
list page's delete. `doc` is the cluster; `page` the pages with the sequence number
they loaded (`policySeqNo` and `policyPrimaryTerm` are one value: both come from one
answer and are sent together); `req` the requests under way, which outlive the page
that sent them; a text is the set of edits its author has made or seen. `wrote` is
history. The server's `getPolicy`, `putPolicy` (update or create, by whether a
sequence number came along) and `deletePolicy` are `GetPolicy`, `PutPolicy` and
`RefusePolicy`, `DeletePolicy`. `PutPolicy` lets the answer be an error although the
cluster took the policy (a lost answer); `Fail` is a request that never got there.
The JSON editor disables its button while it submits, the visual one does not
(`VisualPages`). `Accepts` is the cluster's own check, external to this repository.
In an editor without sequence number the user creates; the edit page cannot submit
before its policy has arrived, for it has no id until then.

### ListPages

The twelve list pages were written after one pattern, and `page` says which of them
a behaviour is about: a record of how it departs from the pattern, taken from its
code: whether the request is `debounced`, whether a new search asks `twice` (in the
handler and in `componentDidUpdate`), whether a rejected request is caught
(`guarded`), whether a refusal `empties` the table, whether the page has a search
at all, whether jobs refresh it (`events`), and its `operations`. An operation says
whether it deletes or changes rows, sends one request or one for `each` row, takes
the service when it starts (`captures`) or from the props for each row, when it
fetches again (`refetch`), and whether it waits a second before (`delayed`).

State: `search`, `source` are what the user wants; `asked` is the last request,
`requests` those under way, `shown` the rows with the request that brought them,
`timer` the debounce (lodash, with its leading and its trailing call), `work` the
operation under way. `cluster` is what each cluster holds, `writes` counts what
the page itself did to it.

| Code | Actions |
|---|---|
| `componentDidMount` | `Mount` |
| search, sorting, page of the table; choice of the data source with `componentDidUpdate` | `ChangeSearch`, `SwitchSource` |
| refresh button, end of a background job | `Refresh`, `JobEnds` |
| the debounced get-function: call now, or when the timer ends | `Ask` (`Send`, `Debounced`), `TimerFires` |
| the cluster reads; the answer is shown, refused or thrown | `Serve`, `Deliver` (`ShowRows`, `ShowRefusal`, `Throw`) |
| selection, confirmation of the modal | `Select`, `Confirm` |
| the operation, row by row or at once; its end | `WorkStep`, `WorkEnds`, `DelayEnds` |

A step of an operation may be applied and still answer with an error (`applied`, `ok`).

### JobForm and TransformDefinition

`JobForm` is the create and edit page of rollups, transforms and snapshot policies.
Such a page holds what it edits twice: `form` is what its inputs show, `doc` the
document it sends. `kind` is the page, a record of which fields are copied by their
handler (`now`), which when the user submits (`late`), which by a handler that still
sees the old value (`lags`), which of the late ones a loaded job fills in (`fills`), and
which are written at submission without an input of their own (`sets`). The two wizards start from one object that is shared by all their mounts
(`base`), changed in place by the handlers. `job` is the job in each cluster with its
sequence number, `put` the request that saves, `stopped` and `basis` history.

| Code | Actions |
|---|---|
| mount; `componentDidMount` loads the job; leave | `Open`, `Load`, `Leave` |
| the `onChange` handlers | `Change` |
| `_next`, its asynchronous checks in the transform wizard, `_prev`, the links of the review | `Next_`, `StartCheck`, `EndCheck`, `Prev`, `Review` |
| choice of the data source | `SwitchCluster` |
| `onSubmit` with `updateSchedule`, `buildPolicyFromState` | `Submit` |
| the cluster takes or refuses; the answer | `Save` (`Accepts`, external), `SaveAnswered` |
| details page: start, stop, delete | `StartJob`, `StopJob`, `DeleteJob` |

A field has a few values, among them those that do not come back from a page as they
were. `Filled` is how a job gets into the inputs (`Image`), `Complete` what a submission
makes of them:

* `updateSchedule` writes the whole schedule whatever the user did: an interval starts at
  the time of saving (`start` is 2), a cron expression of a rollup has the time zone of an
  input that the load does not fill in. The transform pages always save an interval, and a
  transform that runs by a cron expression cannot be loaded (`Loadable`: `getTransform`
  reads `schedule.interval.period` and goes back to the list).
* `updateDelay` makes milliseconds of the minutes that the load has made of milliseconds.
* The inputs of a policy's cron expression write it back as they show it when it arrives
  (`Narrowed`: the effect of `CronSchedule`), which may change one of a form they do not
  know, such as one with ranges. Whether the effect fires depends on what the inputs
  showed before, so both outcomes are taken.
* `getPolicy` takes `parseInt` of all but the last character of `max_age`, and takes the
  deletion to have no schedule of its own if its expression is that of the creation;
  `buildPolicyFromState` then drops the schedule, or gives it the time zone of the
  creation (`Retention`). A choice of the hourly frequency makes the unit of an age that
  is not shown yet hours (`Ages`).

Left out: names, descriptions, indices and the notification of a policy, which is dropped
when no condition of it is set (`showNotification`); all other inputs that are copied at
once are one, `option`. The cluster keeps what it is sent.

`TransformDefinition` is the list of groups and aggregations of the transform wizard:
`aggList` with the items `made` so far, `groups` and `aggs` of the document to be
created, and the `previews` under way. `Add`, `Remove_`, `EditTransformation` are the
handlers, `PreviewOk` and `PreviewFails` the answers (the second with the code's
`findIndex` and `splice`, index -1 included), `SubmitTransform` the creation.

### IndexOperation

Shrink, split, reindex, force merge and rollover. A page reads its source in two
requests (`readings`: the index, then its settings; for an alias its indices), shows
whether it is open and prepared (`seen`), offers to open it (`Open_`) and to prepare
it (`Prepare`: block writes, or assign a write index), and starts the operation.
An open ends with an event of the scheduler (`OpenEnds`), which an open somewhere
else sends too (`OtherOpenEnds`); `Interfere` is what others do to the source.

| Code | Actions |
|---|---|
| `getIndex`/`isSourceIndexReady`, `refreshOptions` | `ReadSource`, `ShowIndex`, `ShowSettings`, `ReadingFails` |
| the button; Reindex's `checkDuplicate` and query; the request | `Click`, `EndCheck_`, `EndQuery`, `SendReindex` |
| the cluster starts the task; accepted, refused or thrown | `ClusterStarts`, `Accepted`, `Refused`, `Throws` |
| `addJob` with the cluster's name, and leaving | `AddTask`, `LeavePage` |

The record of a page: what its button waits for (`needs`), whether it is off during
the request (`locks`), whether requests precede it (`checks`), whether an exception
is caught (`catches`), whether the page is left only after the job was added
(`stays`), whether it is left when refused (`leavesRefused`), whether there is a
`task` at all.

### IndexUpdate

The edit of an index (page and tabs), an alias, a template and the notification
settings. A document is a set of items: a field of the mappings, a parameter of them
(`Parameters`: `dynamic`, `_meta`, templates), an alias, a setting. A form holds what it
loaded (`old`) and what it shows (`edited`, and `late` for the order of its aliases) and
sends, in one request, one per group or one per item (`requests`), all items, if `all`,
or:

* the items that differ (`Differs`), but no setting that was removed;
* the aliases that are in both lists, but not in one order: `getAliasActionsByDiffArray`
  compares the lists by `diffArrays`, which keeps a longest common subsequence (`Longest`)
  and removes and adds the rest. The old list is in the order of the cluster (`Place`), an
  alias that was removed and put in again is the last of the new one. Which of several
  longest ones is kept is left open. An alias that now comes before one it followed is
  added before it is removed, and as the cluster takes the actions in turn, it is gone
  (`Lost`);
* with any change of the mappings all their parameters, as the form has them:
  `updateMappings` sends `...indexDetail.mappings` with the new fields. One that was
  removed is not in it, and stays in the cluster (`Dropped`).

`held` is the cluster, `theirs` what another user wrote last, `unseen` what another user
wrote since the form was filled, `sent` the submissions with their requests and history of
what has been written over. The cluster may refuse any request.

| Code | Actions |
|---|---|
| inputs, "Discard" of the bottom bar | `Type`, `Revert` |
| `onSubmit`, `updateAlias`, `updateSettings`, `updateMappings`, save of the settings | `Submit_` (`ToSend`, `Split_`) |
| a request of it is applied or refused | `Applies`, `Refuses` |
| `chainPromise` / `Promise.all` ends, an exception | `Succeed`, `Fail`, `Throws_` |
| load, and load again after a success | `LoadShown`, `LoadFails` |
| another user | `OtherWrites` |

## 3. Runs

| Run | Instance | Shows |
|---|---|---|
| `JobScheduler_reload` | 1 tab opened twice; a job with a first-run timer, and an open that may be submitted early | `TypeOK`; `OneTabInv`: the invariant of section 4; `OnePoll`: never two requests for one job; `NoStaledAtRest`; `StoredIsWatched`: at rest the stored list and the timers agree; `Promise`: implements JobWatch, reload and all |
| `JobScheduler_twotabs` | 2 tabs, 2 jobs, interleaved at each await | `ArmedTracked`, `HonestTimeout` |
| `JobScheduler_live` | 1 tab, 2 jobs, one task out of reach, failing requests | `JobsEnd`: a stored job ends with a toast |
| `JobScheduler_resume` | the same with one job and a reload | **violated** `JobsEnd` |
| `JobScheduler_remote` | one remote task | **violated** `HonestTimeout` |
| `VisualPolicy_editor` | states: 3 names, policies up to 3 states, "default" and "deleteOther" behind the flyout; or the inside of a state: 2 kinds of actions, lists up to 2, 2 panels | `EditorTypeOK`, `UniqueNames`, `EditInPlace`, `OneStateAtATime`; `IdsApart`, `EditHitsItsEntry` |
| `VisualPolicy_switch` | states with "edit" behind the flyout | **violated** `UniqueNames` |
| `StateBody_cancel` | the inside of a state | **violated** `DraftIsEphemeral` |
| `PolicyDoc_editors` | 2 pages (one JSON, one visual), 2 requests, 2 writes, 2 edits | `TypeOK`, `VersionInv`, `NoLostUpdate`, `NoRevival`, `WroteOnce`, `Settles` |
| `ListPages_all` | all pages, 2 clusters, 2 rows, 2 searches, 2 gestures | `TypeOK`, `AskedLast`, `FreshAtRest`, `LoadingEnds` |
| `Forms` | one of the four parts in each behaviour, with all its pages: job forms, transform definition, operations, updates | `FormsTypeOK`; `SavesWhatIsShown`, `UntouchedKept`, `StopHolds`, `WizardLocked`, `SubmittingEnds`; `CreatesWhatIsListed`, `FailureTakesOne`; `SentOnce`, `NeverOntoItself`, `ShowsOwnWork`, `TasksWatched`; `SuccessIsSaved`, `OthersKept` |
| `Transform_preview` | 3 items of 2 names, 2 previews | **violated** `RemovesOnlyFailed` |

Each property of a passing run has a mutant in `PROJECT.json`: a plausible mistake
in one definition, written next to it, under which TLC finds the property violated.

### What the violation runs show

* **Jobs are not resumed after a reload.** `init` loops over the default key when
  the module is imported; `JobHandlerRegister` sets the user's key after a request,
  and does not loop again. Stored jobs wait, without timer or timeout, until the
  user starts another operation (`JobHandler/index.ts:35`). For the same reason a job
  added before the registration is stranded: it is stored under the default key and
  looked up under the user's. No run of its own shows that (add `j1` to `EarlyJobs` in
  `JobScheduler_resume.cfg` with `MaxLoads = 1`); `StoredIsWatched` excepts it.
* **Remote tasks time out.** The handlers poll the local cluster, whatever data
  source the operation was started in (`callbacks/reindex.tsx:26`).
* **Edit behind an open flyout replaces the wrong state.** With the policy [A, B]:
  Edit A, Edit B behind the flyout, Save: the policy is [A, A].
* **A shrink action has no draft.** What is typed in its panel is in the list, in the
  policy and, for a new action, in the default of the next one before anything is
  saved, and Cancel leaves it there (`ShrinkUIAction.tsx:31` and `:119`).
* **A failed preview takes the wrong item.** If the item was removed or renamed
  meanwhile, `findIndex` gives -1 and `splice(-1, 1)` removes the last item of the list
  (`CreateTransformForm.tsx:428`).

Two more of the policy editor can be seen by changing constants of
`VisualPolicy_switch.cfg`: with "delete" in `Background` and four names and states, a
saved state is lost and the default state left dangling (`OneStateAtATime`); with
`EarlyActions = TRUE` a state of a taken name can be saved, because the name was checked
against the list before the policy arrived (`UniqueNames`).

### Exceptions named in the properties

The properties hold of what the code does, and say where it departs from what one
might expect. They contradict no sentence of the repository, hence no violation run.

* `SavesWhatIsShown` (`Deviates`): the enabled box of the transform edit page sends what
  it showed before the click (`EditTransform.tsx:283`); a policy that keeps its snapshots
  drops their age limit, and one whose deletion schedule was set before keeps it; a
  rollup that runs by an interval has no time zone; a delay loaded as a fraction of a
  minute is sent as what a computation makes of it; a wizard opened again starts from what
  the last one left in the shared base object.
* `UntouchedKept` (`Rewrites`): saving changes these although nobody touched them.
  * Rollups and transforms: the start of an interval is the time of saving
    (`EditRollup.tsx:227`, `EditTransform.tsx:241`).
  * Rollups: a cron schedule is set to UTC; a delay that is no whole number of minutes may
    not come back as it was (`EditRollup.tsx:112`, `:214`).
  * Snapshot policies: a cron expression with ranges becomes what its inputs can show; no
    maximum age becomes one of a day and one that is not whole is cut
    (`CreateSnapshotPolicy.tsx:263`); a deletion schedule with the expression of the
    creation is dropped (`:256`, `:437`), a deletion without a schedule gets one, and its
    time zone becomes that of the creation (`:435`). If the user turns the deletion on or
    off, all of it is written.

  Each line of `Rewrites` is needed: without it TLC finds the case.
* `SubmittingEnds`: after a failed update the button of the transform edit page stays off.
* `LoadingEnds`: pages without a try around the request stay loading when it throws.
* `FreshAtRest`: a page that fetches again only after a success may show rows that a
  partly failed operation has deleted.
* `SentOnce`: Split does not turn its button off; Reindex turns it off after its checks
  only; in Shrink the end of any open turns it on again.
* `TasksWatched`: split and force merge do not notice a request that throws.
* `OthersKept` (`Sweeps`): what a form sends although its user has not changed it undoes
  what another user wrote after the form was filled. That is all of a template and of the
  notification settings; the parameters of the mappings, with any change of the mappings;
  and aliases whose place has changed. An alias that was put in another place may be lost
  to both users.
* `SuccessIsSaved`: a setting or a mapping parameter that was removed from the form is in no
  request, and a success is told. An alias that is lost by being put in another place is
  not a change of its user's, so the property does not speak of it: he is told a success.
* `CreatesWhatIsListed`: a list without groups is sent with the groups of before.

Without a property, but in `ListPages` (`Target`): Snapshots and Repositories read the
service from the props for each row, so an operation on many rows goes on in another
cluster when the data source is switched. The other pages keep the service they started
with. `Repositories.tsx:114` uses `_` without importing lodash; the model takes its
debounce as working.

### Bounds, and why they are enough

* Chains (`Slots`): an activity needs a free slot. `JobScheduler_reload` has one slot
  more than the requests its two jobs can have under way at once (three, as one has a
  first-run timer); the two-tab run has one for each tab. With fewer slots behaviours
  are only cut short, never added. The liveness runs have one slot per job, so that no
  fair action is disabled for ever by the bound.
* `MaxLoads = 2`: one reload; what a second one does, it does from the same kind of
  state (a stored list, no timers).
* `MaxOutcomes`: the counters stop at 3, above every bound a property names; in the
  two-tab run they only serve as flags and stop at 1.
* A job is submitted at most once; two jobs are needed for the races in the stored
  list.
* `MaxStates = 3`, three names: a first, a middle and a last state, and a free name
  for a two-state policy; more states repeat the middle. `MaxBodies = 1`: a body
  only has to differ from the others.
* `StateBody`: two entries in a list are the fewest with a wrong one to hit, two panels
  the fewest with a draft that outlives the first; the two kinds (rollover, which loses
  `retry` on a change, and shrink, whose object is shared) are one of each sort that
  matters to the properties. The theorems hold for all kinds and lengths.
* PolicyDoc: `MaxSeqNo = 2`, `MaxEdits = 2`: a policy, its update or deletion, and a
  second write against it; two requests suffice for a double click and for one request
  of each page.
* ListPages: two gestures make two requests and an operation overlap (a switch during an
  operation, a search during a debounce); the page starts on one cluster with the search
  that hits all, which loses nothing: both clusters hold the same rows.
* Forms, job part: two changes of inputs (one copied at once, one late), one start, stop
  or delete beside, two mounts or loads, two clusters. Two jobs of each kind
  (`MCJobDocs`): a rollup by cron and one by interval with an odd delay; a transform by
  interval and one by cron; a policy with ranges, a cut age and a deletion schedule, and
  one whose deletion has the expression of the creation. The theorems are for any jobs.
  The details page is used beside edit pages only, and the create pages have one job
  document beside them, for they refuse an id that is taken. In a policy schedule and time
  zone stand for the inputs that are copied at once. Transform: three items, so that a wrong one is left when
  one is removed and one fails; two previews. Operation: two readings and two submissions
  overlap; two gestures; one step of others. Two paths are left out that no property
  depends on: leaving during the first reading, and a retry of Split after a refused open.
  Update: two submissions (a retry), two changes typed (an alias removed and put in
  again), one of another user. The items (`MCParts`) are two aliases, the fewest with an
  order; a new field and a parameter of the mappings; two settings, for a failure of one
  of the requests for each. `MCWritten` leaves alone the items that a form treats as it
  does another, and a form that sends everything sees two changes in all, its own and the
  other user's, the fewest that make a difference to `OthersKept`. Leaving an update form
  is no action, since its requests go on as before; a load is one step, since what matters
  is when it arrives. In all 671,012 distinct states.
* The four parts of `Forms` share no state in the code, and neither do the two of
  `VisualPolicy_editor`, hence one of them in each behaviour; a part that is not looked
  at has one initial state.
* Symmetry: slots in the scheduler runs; tabs and jobs too in the two-tab run,
  where no job is special; names in the editor. No run with a liveness property uses
  symmetry.

`CHECK_DEADLOCK FALSE` is set in all runs but one: a user may stop, and the bounds end
a behaviour. PolicyDoc is checked for deadlock too: the list page can always send
another delete and requests are always answered.

### Fairness

* JobScheduler `Fairness`: a tab runs a started task to its end (WF per tab; which
  microtask is first is left open). A pending timer and an arrived answer need an idle
  tab, which comes and goes while other jobs are polled: the browser serves its queues
  in order, hence SF for `FireTimer`, `FireFirstRun`, `SubmitJob` and `Deliver`. A
  request is answered or fails (WF), the clock goes on (WF `PassDeadline`). Nothing is
  assumed of users (open, start, close), of tasks (they need not end), nor of the
  account request of the registration: `JobsEnd` is for a tab that comes to be
  registered for good.
* PolicyDoc `Fairness`: each request is answered, if only with an error, and the
  answer is handled. Nothing is assumed of users.
* ListPages `Fairness`: the browser mounts the page, fires its timers and goes on after an
  await (`Mount`, `TimerFires`, `WorkStep`, `WorkEnds`, `DelayEnds`), and some answer
  under way is delivered in the end. It need not be served by the cluster (a failure is
  an answer), and answers need not come in order.
* JobForm `FormFairness`: the request that saves is answered, or given up by the browser.
* IndexOperation `OperationFairness`: each step of a submission that waits for a request
  ends. Readings, opens and preparations need not, and the user owes nothing.

## 4. Theorems

All for every value of the constants, from the assumptions named in the module that
declares them (`JobSchedulerAssumption`, `PolicyDocAssumption`, `ListAssumption`,
`FormAssumption`, `JobDocsAssumption`, `FormsAssumption`, `OperationAssumption`,
`OperationsAssumption`, `UpdateAssumption`, `UpdatesAssumption`, `DefinitionAssumption`,
`StateBodyAssumption`, `VisualPolicyAssumption`). TLC evaluates them in the runs. Each
safety property of a passing run is stated by a theorem; what a theorem assumes beyond
these is in the table, and the runs of the same property have it, too.

| Theorem | States |
|---|---|
| `TypeCorrect` | `Spec => []TypeOK` (JobScheduler) |
| `TimersTracked` | `Spec => []ArmedTracked`, with any tabs, remote jobs, failures |
| `TimeoutsHonest` | `Spec => []HonestTimeout` if `~Lossy` and `Remote = {}` |
| `OneTabHolds` | `Spec => []OneTabInv` if `OneTab`, as in the next five |
| `OnePollAtATime`, `StaledAreRemoved`, `StoredAreWatched` | `Spec => []OnePoll`, `[]NoStaledAtRest`, `[]StoredIsWatched` |
| `NoMoreToasts` | no operation gets more toasts than `Watch!Allowed`, lossy or not, reloads and all |
| `PromiseKept` | `Spec => Promise`, the refinement of JobWatch, if `~Lossy` and `Remote = {}`, too |
| `DocTypeCorrect` | `Spec => []TypeOK` (PolicyDoc) |
| `VersionsTold` | `Spec => []VersionInv` |
| `NoUpdateLost`, `NoPolicyRevived` | the action properties `NoLostUpdate`, `NoRevival` |
| `WrittenOnce` | `Spec => []WroteOnce` |
| `ListTypeCorrect` | `Spec => []TypeOK` (ListPages) |
| `LastRequestWanted` | `Spec => []AskedLast`, for every page |
| `RestIsFresh` | `Spec => []FreshAtRest` |
| `FormTypeCorrect` | `FormSpec => []FormTypeOK` |
| `SubmissionIsShown` | `FormSpec => []SavesWhatIsShown` |
| `EditsKeepTheRest` | `FormSpec => []UntouchedKept`, for any jobs |
| `StopsHold` | `FormSpec => []StopHolds`, in any number of clusters |
| `WizardKeepsLock` | `FormSpec => []WizardLocked` |
| `CreatedAsListed` | `DefinitionSpec => []CreatesWhatIsListed`, for any number of items |
| `FailureTakesItsOwn` | `DefinitionSpec => FailureTakesOne` |
| `NotOntoItself`, `RequestedOnce` | `OperationSpec => []NeverOntoItself`, `[]SentOnce` |
| `OwnWorkIsShown` | `OperationSpec => []ShowsOwnWork` |
| `DefinitionTyped`, `OperationTyped`, `UpdateTypeCorrect` | the type invariants of the other three parts of the forms |
| `FormsTyped` | `MCSpec => []FormsTypeOK`, whichever part acts |
| `SavedWhenTold` | `UpdateSpec => SuccessIsSaved` |
| `OthersAreKept` | `UpdateSpec => OthersKept`, for any items and any order of the aliases |
| `BodyTypeCorrect`, `IdsStayApart` | `BodySpec => []BodyTypeOK`, `[]IdsApart` |
| `EditsHitTheirEntry` | `BodySpec => EditHitsItsEntry` |
| `PagesTyped` | `Spec => []TypeOK` (VisualPolicy) |
| `NamesStayUnique` | `Spec => []UniqueNames` if `OneEdit` |
| `EditsStayInPlace` | `Spec => []EditInPlace` if `OneEdit`, for lists of any length |
| `DefaultIsAState` | the default state is in the list, or the list is empty, if `OthersOnly` |
| `OneStateAtATimeHolds` | `Spec => OneStateAtATime`, the refinement of PolicyStates, if `OthersOnly` |
| `EditorTyped` | `MCSpec => []EditorTypeOK`, whichever half acts |

**TimersTracked** is inductive as it stands: a timer is only set with its map entry,
and each removal of an entry clears the timer.

**TimeoutsHonest** is not. That the task had no result when its hour ended must be
carried from where the code learns it (a request answered without a result, by a run
started after the hour) to where the toast is shown: through the answer, the new
record, the stored list, the copies of that list other chains hold in mid-update,
and `loopJob`. `HonestInv` says so for each of these places; `WellFormedChain` says
which tab and job a chain has. Both hypotheses are needed: `JobScheduler_remote`
violates it with a remote task, and a failed last request has the same effect.
It is restricted to registered tabs, since an unregistered one runs a job without
asking for its result; its records are on the other key.

**OneTabHolds** is about one tab, loaded any number of times. None of the properties is
inductive, since what they say of a tab at rest comes about in several microtasks;
`OneTabInv` says what holds between them, in five parts, each preserved given the ones
before it. `OneAtATime`: one piece of code of the tab is active, so what it has read from
localStorage is still there when it writes back, and a staled record has a chain that is
about to remove it. `JobsApart`: nobody knows of a job before its operation was accepted;
a job that is being stored or removed is not in the map; a job is in one of the two lists,
and only who uses that list handles it. `PollsTracked`: a job of the map and of the list
has a timer or a poll, and not two polls. `ToastsLeft` counts: each unspent poll, each first-run timer
and each record can end in one toast, a toast uses one of them up, and only `addJob`
creates them; so the toasts shown and those left never exceed what is allowed.
`Followed`: up to the first reload an operation that was accepted has had its toast, is
stored, or is about to be. TLC checks `OneTabInv` in `JobScheduler_reload`.
**PromiseKept** takes the number of toasts from `ToastsLeft`, and from `HonestInv` that
each one is justified; that no request is lost and no task is remote is needed for the
second only, hence `NoMoreToasts` without it. With two tabs both may show a toast.

**The theorems on PolicyDoc** rest on `VersionInv`: whoever holds a sequence number,
a page or a request under way, holds one that is not newer than the document's, and
if it is the current one has seen the current text; a put carries its page's number;
a page that has written holds an outdated one. From it a step that replaces the
document keeps what was in it. `NoPolicyRevived` only needs that the cluster takes an
update of what does not exist for an error, and that the service does not turn an update
into a creation.

**LastRequestWanted** rests on `LastWanted` alone: unless the debounce has a call to make,
the last request is for the search and the data source of the page. **RestIsFresh** needs
`Fresh`: beside types and `LastWanted`, that the last request and its rows belong to the
data source asked (`Numbered`); that, when no operation is under way and none has failed
without a refresh, its answer and its rows hold every write there (`SeesWrites`); and that
an operation has rows (`HasRows`).

**SubmissionIsShown** rests on `Agrees`: an input that is copied at once says what the
document says, in a wizard only during its first mount; and on `CleanBase`: before that
the shared base object is untouched. The late inputs are written at submission.
**EditsKeepTheRest** needs `FillsUntouched`: a field the user has not touched is in the
document as it was loaded, but for a policy's cron expression with ranges
(`DocAsLoaded`), and a late one is in its input as the load shows it, but for an age that
is not seen (`InputAsLoaded`); and `JobsCohere`: an interval of a rollup has no time zone
and a policy that keeps its snapshots no conditions of a deletion, in the cluster, as
loaded and as sent. From these, what `Complete` writes for an untouched field is what was
loaded, or a case of `Rewrites`: one step of the proof for each way a field is written.
**StopsHold** rests on `Versions`: no version a stop left is newer than the job, a deleted
job has none, and a request that names a version was filled from it.
**WizardKeepsLock** rests on `Locks`: a wizard without asynchronous checks locks on its way
past the first step.

**NotOntoItself** rests on `Apart`, which says it of a submission from its check on, as
long as the form has not been changed. **RequestedOnce** needs `Guarded => Alone`: on a page
that locks, without checks and without others who open the index, at most one submission is
unanswered, and the page, if it is there, is busy with it; and in shrink nothing has been
submitted while the page itself opens the index, whose end would turn the button on
(`Listens` says when a page waits for such an end).
**OwnWorkIsShown** needs `SourceShown`: undisturbed, one reading at a time is under way,
and for each of the two things a page needs to know, either the page's own change of it
waits to be read (`"done"`), or the source as it is has been shown, has been read, or is
yet to be read (`OpenKnown`, `PreparedKnown`; Split keeps the first answer with the
reading, the others show it at once).

**CreatedAsListed** and **FailureTakesItsOwn** need that the lists name items that were
made (`DefinitionTyped`). `OfType`, the groups in the order of the list, is a recursive
function; `OfTypeListed` shows by induction on the length of the list that it exists and
is a list of such items. For `FailureTakesItsOwn` the first item of the failed preview's name
is what `FindIndex` gives, by `Smallest`, if there is one.

**SavedWhenTold** rests on `Sound`, for each submission: its requests cover what it
changes, but for a setting or parameter that was removed (`Covers`), an applied one has
brought the items its user changed into the cluster unless written over (`Carried`), and
what is in a request was changed by its user or is swept along (`Swept`); the aliases that
are moved are none that he changed (`Moves`). `OthersLeft` says that the form leaves the
items of other groups alone.
**OthersAreKept** needs `SeenByForm` besides: what another user wrote, and the form has
seen, is in the form as the cluster holds it, and so for each submission and what was not
unseen or written over since (`KnownTo`). So an unchanged item that is sent carries the
other user's value, unless it is `stale` or `over`.

**The theorems on StateBody** rest on `BodyInv`: types, `IdsApart`, that the draft has the id
of the entry under edit or one of no entry (`DraftApart`), and that a panel has a place
just when it edits an entry (`Places`). Moving and deleting need what `RemoveAt` and
`InsertAt` of the community modules do to a sequence, and a new entry that a finite list
leaves ids over: lemmas of their own in `SequenceFacts` and at the head of `StateBodyProofs`.

**The theorems on VisualPolicy** have hypotheses on what the user does behind the open
flyout, because the code does not hold without them: `OneEdit` (no "edit" of another
state, nothing before the policy has arrived) and `OthersOnly` (no "delete" of a state
that the flyout refers to, either). `VisualPolicy_switch` shows what "edit" does, and
"What the violation runs show" names the rest. `UniqueNames` needs `NameFree`: the name
in an open flyout, checked when it was typed, is still free. What a save does follows from
`GetUpdatedStates`: the list is the join of one piece for each state (`Piece`: none, the
state, the saved one, or both in the order chosen), and `SequenceFacts` says what a join
holds and at which places. So the new list has the saved state once and every other state
but the edited one once (`UpdatedHas`, `UpdatedDistinct`), and with the order and target of
`GetOrderInfo` each state is where it was (`StaysInPlace`). `OneStateAtATime` needs
`Refers` besides: the default state is in the list, and so are the state under edit and
the one the flyout puts it next to, without which a save would lose the state.

**FormsTyped** and **EditorTyped** are compositions: the parts share no variable, so each
behaviour of the whole is one of every part, and the theorems of the parts apply.

## 5. Only model-checked

* Liveness (`JobsEnd`, `Settles`, `LoadingEnds`, `SubmittingEnds`, `TasksWatched`):
  fairness and ENABLED are out of the prover's reach.
* What holds of two tabs beyond `ArmedTracked` and `HonestTimeout`: the one-tab theorems
  do not hold of them, since both read the list and poll its jobs.
* The counterexamples of the violation runs.

Induction over the length of a list is done where a proof needs it. The library's
induction theorems take an operator as a parameter, which the provers at hand cannot
instantiate, so `SequenceFacts` derives from the one on well-founded relations, which
takes a set, that a set of numbers has a least member (`Smallest`), and from that that a
set with 1 and with each next number has them all (`OneAfterTheOther`). Recursion is by
recursive functions, of this project and of the community modules.

## 6. Not modelled

* The form library (`public/lib/field`): values, and validators that a page awaits before
  it submits. In the modules a submission happens after it, with its result as guard.
* Helpers, formatting, cron and time strings, JSON schemas: pure functions without
  state, and no property is about wording.
* Routes, services and `CommonService`: stateless, they pass a request on. Their failures
  are the failed and lost answers of every module.
* Creation pages with a single request (index, alias, template, data stream, repository,
  snapshot), modals with a single request (close, apply policy, retry, flush, refresh,
  clear cache), the policy details page and the restore flyout: what they do to a list is
  what a deletion does in `ListPages`.
* In the policy editor: ISM templates, the error notification, the channels of a
  notification and the JSON form of old notifications; submission of the visual editor
  with an empty id or invalid JSON.
* localStorage running full, colliding job ids, `changeJob` (used by no code but its
  test), several users of one browser, the router (a late answer navigates away from
  another page), a change of data source in an editor of policies.
* Presentation: columns, cells, popovers, headers, the data grid of transforms. Most lines
  of `public/pages` are this, and no state of the plugin depends on them; the map covers
  the handlers, not the markup around them.

## 7. Plan

Done: what sections 2 to 4 describe. What could come next, in this order:

1. Two tabs: what is left of `StoredIsWatched` and of the number of toasts when each of
   them polls (a toast per tab), with an invariant for the stored list that two tabs write.
2. Interfaces as theorems: a saved panel of `StateBody` is one `EditBody` of
   `VisualPolicy`, a task of `IndexOperation` one `SubmitJob` of `JobScheduler`.
3. The restore flyout (snapshot chosen, indices loaded, options, submission and its
   result) and the notification dialog of an operation, as further pages of
   `IndexOperation`.
4. `Field`: validators that answer late, under a form that submits when they are done.
5. `DataSource`: Main's selected source with its pages remounted, composed with
   `JobScheduler`'s `Remote`.
6. Reference definitions for shard options of shrink and split and for mappings.
