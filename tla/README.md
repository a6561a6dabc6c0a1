# IronTester in TLA+

IronTester is a demonstration of NServiceBus: users ask for a code base to be tested, a saga in the
server walks each request through four workers (validation, initialization, build, tests), and a
website shows how far each request has got. This directory models its protocol: TLA+ modules
translated from the C# source, TLC configurations that check small instances, and TLAPS proofs for
all instances.

## 1. The system and its parts

### Testing request saga - `IronTester.Server/Saga`
* **State**: one `TestingRequestData` per request, stored in RavenDB: `CurrentState` (an enumeration
  from `Failed = -1` to `Finished = 13`), the source path, and for each of the four stages a denial
  reason, a progress, a success flag, a fail reason and, but for validation, a location. Pending
  timeouts (`RestartTimeout`, one minute; `PossibleTestingLoop`) are kept by the timeout manager.
* **Operations**: `PleaseDoTests` starts a saga; `PleaseCancelTests` and `PleaseRestart` come from the
  user; a confirmation, a status and a result come from each worker; two timeouts.
* **Interaction**: publishes `IPleaseValidate`, `IPleaseInitialize`, `IPleaseBuild`, `IPleaseTest` and
  `IPleaseCancel` to the workers, and the notifications the website subscribes to.
* **Hard**: messages of an earlier run, repeated results and messages of workers that go on after a
  cancellation arrive in any state; timeouts outlive the run that requested them; `StopAllOperations`
  swallows an exception, and only two of its three callers look at what it returns.
* **Correct when**: the record always describes one run; no worker is asked twice in a run; a saga at
  work has asked the worker it waits for; only the user revives a stopped request; each stage works on
  what its predecessor produced; cancelled sagas and hanging tests are resolved.

### Workers - `IronTester.Validator`, `.Initializer`, `.Builder`, `.Tester`
* **State**: a static `ConcurrentDictionary` from request id to `RequestModel`, in memory only.
* **Operations**: the bus thread adds an entry on an `IPlease...` message, confirms or declines, and
  removes it on `IPleaseCancel`. A timer callback runs every 60 seconds, works on every entry in
  parallel (statuses 0 to 50, a check, statuses to 100 if it succeeds, the result, `WasProcessed`), and
  then removes what was processed.
* **Hard**: callbacks overlap when a pass takes longer than a minute; the listing and the removal of
  processed entries are two steps; an entry can be cancelled and added anew at any time; a rollback
  does not undo the dictionary; a restart empties it; a pass publishes outside any transaction.
* **Correct when**: every accepted request gets its result or is cancelled; the dictionary forgets it
  afterwards, for it declines a known id; no callback says anything after its own result.

### Message contracts and metadata - `IronTester.Common`
The message interfaces, the states, and the lists of valid tests and paths. No behaviour of its own.

### Queues between the endpoints
* **State**: one MSMQ input queue per endpoint, transactional: nothing is lost, what one endpoint sends
  another stays in order, and a message whose handler fails goes back and is handled again.
* **Operations**: what a handler or a pass publishes is put into the subscribers' queues; an endpoint
  takes the first message of its own.
* **Hard**: a bus thread publishes when its handler commits and a timer's pass publishes at once, so a
  status or a result can leave before the confirmation; messages of different workers overtake each
  other; a message in hand is received again after a restart.
* **Correct when**: a worker is told to let go of a request before it is asked for it anew; a saga is
  left waiting in vain only by what a worker forgets or by statuses that all overtook the confirmation;
  without these every stage ends.

### Website - `IronTester.Website`
* **State**: a static dictionary with the last notification of every request, in memory only; in each
  browser a table ("All requests") or a chart ("Dashboard").
* **Operations**: three bus handlers, one of them for the base interface of the other two, each of which
  writes the dictionary, then broadcasts the row, then broadcasts the statistics; `getAllRequests`, which
  sends all rows from a thread of its own; cancel, restart and create commands to the server.
* **Hard**: the handlers of one notification run one after the other and are all repeated when one
  fails; one that throws after its write leaves the dictionary ahead of the tables; a restart of the
  process forgets the dictionary but not the queue; a page hears only what happens while it is open; a
  copied row is sent after a newer one; the chart is cut by an index that is meant as a length.
* **Correct when**: dictionary, tables and charts show what the sagas are, once everything on its way
  has arrived and been handled.

### Request producer - `IronTester.RequestProducer`
* **State**: a field that holds a timer. **Operations**: `a` starts a timer that sends 30 requests every
  minute, `m` disposes of it and sends 30 requests on a key, `x` ends the program.
* **Hard**: starting the timer twice; a callback that runs while its timer is disposed of.
* **Correct when**: nothing is produced behind the manual mode, and the automatic mode goes on.

### Manual messages pusher, endpoint configuration, third-party trees
A stateless loop; start-up code; samples of NServiceBus and a RavenDB distribution.

## 2. The modules

| Module | Models | Built on |
|---|---|---|
| `TestingRequestSaga` | the saga: every handler, both timeouts | - |
| `RequestLifecycle` | abstract specification: what a user is promised about a request | implemented by `TestingRequestSaga` |
| `StageWorker` | one worker: bus thread, overlapping passes, their tasks, retries, restarts | - |
| `WorkerState`, `WorkerContract` | abstract specification: what the server may rely on of a worker | implemented by `StageWorker` |
| `Pipeline` | the server, its four workers and the queues between them | `TestingRequestSaga`, `WorkerState` |
| `Website` | the website's bus handlers and hub, its tables and charts | - |
| `Portal` | the server and the website, notifications and commands between them | `TestingRequestSaga`, `Website` |
| `RequestProducer` | the console program and its timers | - |
| `MC...` | finite instances: only the values of sets | the module of the same name |
| `TestingRequestSaga_proofs`, `SagaRecord_proofs`, `StageWorker_proofs`, `WorkerRefinement_proofs`, `Pipeline_proofs`, `Website_proofs`, `Portal_proofs`, `RequestProducer_proofs` | proofs | section 4 |

Operators named `...Variant` are slips a programmer could make in the definition that follows them. They
are used nowhere; each was put in the place of that definition once to see the property that guards it
fail, and `PROJECT.json` says which.

### `TestingRequestSaga`
The variables `state`, `source`, `denial`, `progress`, `success`, `failReason` and `location` are the
fields of `TestingRequestData`, the last five indexed by stage, because the four files of the saga
repeat the same three handlers. `sagas` says which sagas are stored, `restartTimers` and `loopTimers`
count pending timeouts, `outgoing` holds what the last handler published. Three history variables
change nothing: `asked` counts the requests to each worker since it was last told to cancel, and the
two `stale...` counters tell timeouts of an earlier run from those of the present one.

NServiceBus handles a message in one transaction (receive, saga data, sends), so a handler is one
action. An early return changes nothing and is a stuttering step; so is a handler that throws. The
handlers of stage *s* differ only in names and are generic actions; the three places where they do not
repeat each other have operators of their own: `WatchForTestingLoop` (only the statuses of the tests
request a timeout), `LocationAfter` (validation has none) and `AnnouncedReason` (the tests announce the
builds' reason).

The environment is open: any message of any worker about a live saga can be handled at any time. This
covers lost, late, repeated and reordered messages and workers that go on after a cancellation, and
makes every safety result independent of how the workers behave. `FailedPublishReaches` says which
workers a publish that throws may have reached; `{{}}` means none.

Timeouts of one kind have one delay, so they are taken in the order in which they were requested. This
only matters to the history counters.

### `RequestLifecycle`
A request is unknown, running, failed, cancelled, finished or over, and `done` counts the stages its
present run has passed. `TestingRequestSaga` implements it with `phase` read off the saga's state and
`done` off its success flags; its fairness (a cancelled request is forgotten in the end) is implemented
by the timeout manager's.

### `StageWorker`
`requests` is the dictionary; each `RequestModel` is a number, so that a task that goes on with a
removed entry can be told from one that works on its successor. `inHand` is the answer of the handler
that runs between its `TryAdd` and its commit; a pass is idle, working (inside `Parallel.ForEach`) or
sweeping; `due` are the keys its enumeration must still come to, `item` its tasks, `sweep` what is left
of `requestsToBeRemoved`. NServiceBus 4 handles one message at a time in these endpoints. `Half` and
`Full` are 5 and 10 in the code. `Valid` abstracts the lists of `ValidationData`. The random location in
a result is left out. An exception in a timer callback ends the process, and is a `Crash`.

`ConcurrentDictionary`'s enumeration comes to every entry that stays, to none twice, and may or may not
come to one that is added meanwhile: `due` is what a pass owes, `TakeUp` what it may take.

### `WorkerState` and `WorkerContract`
A worker without its threads, its `RequestModel`s and its removal list: the keys it holds, the answer
under way, how far the task of each pass and request has got, and which requests ever had a result. It
answers a request with yes if and only if it did not hold it; what it holds is taken up; a task reports
statuses that count up from 0 and then one result; a request can be dropped once it ever had a result.
The last clause is as weak as it is because of the removal by key (`processed_thrown_out`). `WorkerState`
has the steps as operators on a record, so that `Pipeline` can hold four workers in a function;
`WorkerContract` is the specification of one, and `StageWorker` implements it, fairness included
(`KeepsContract`).

### `Pipeline`
`workers[s]` is the state of the worker of stage *s*, `toWorker[s]` its input queue, `toServer[s]` what it
has sent and the server has not received. The server's input queue is kept as one queue per worker,
because only messages of one sender stay in order. Each action of the server is a handler of
`TestingRequestSaga` with `Deliver`, which puts what it published into the workers' queues;
`ServerReceives` takes a message whether its handler goes on or returns early. An endpoint that is not in
`Running` is down, and its queue fills. A failing handler and a restart put the message in hand back
(`Redeliver`). `Prompt` says whether a handler commits before a pass reports the last status (the last of
the `FewestStatuses` that every task reports): it has seconds for it, for a pass waits three seconds after
each status. `entry` is a history variable: what became of the first entry that a worker made for a
request, and whether a status of it was sent after the confirmation ("heard").

### `Website`
`inbox` is the input queue, `todo` the handlers that must still run for its first message: a notification
of a derived interface runs the handler of the base interface first, in the order in which the class
lists its interfaces. `doing` is what the running handler does next: `AddOrUpdate` writes the dictionary
(`requests`), `TellTables` broadcasts the row, `SendStats` the statistics. `HandlerFails` may strike before
each of the three; the message is handled again from its first handler on, and neither the dictionary nor
a broadcast is taken back. `SiteRestarts` empties the dictionary and drops the calls on their way; the
queue, and the pages, which connect again, keep what they have. `channel[q]` are the SignalR calls on their
way to page *q*; a page keeps only those it does something with. `TableAfter` is the table's script, `Cut`
the chart's. `told`, the last two statistics that were broadcast, and `overtaken`, the requests whose last
row to the tables came from `getAllRequests` when the dictionary already had another, are history variables.

### `Portal`
The saga of `TestingRequestSaga` with an input queue of commands, the website of `Website` (INSTANCE with
`rows` for its dictionary), and the notifications between them. Commands come from the buttons of rows
that a page shows, and from `CreateRequest`. The workers are as open as in `TestingRequestSaga`. A restart of the
website and `getAllRequests` are left to `Website`: after a restart the dictionary shows no request until
its next notification, so that nothing about the saga's state can be said of it.

### `RequestProducer`
`timer` is the field, `live` the timers that fire, `sending[t]` what the callback of *t* has yet to send:
disposing of a timer does not stop the callback that runs. A second callback of the same timer while one
runs is left out: a batch takes half of the minute between two callbacks.

## 3. The runs

| Run | Instance | Shows |
|---|---|---|
| `saga_safety` | 1 request, 2 locations, 2 percentages, 2 timers of a kind, a failing publish that reaches nobody, the first worker, or two of them; 210 000 states | the record of a saga describes one run, no worker is asked twice in a run, the timeouts that are needed are pending, only the user revives a stopped request, each stage works on what its predecessor made |
| `saga_liveness` | 1 location, a failing publish reaches nobody; 4 000 states | a saga waits only for a worker that has its request; cancelled sagas and hanging tests are resolved; the refinement of `RequestLifecycle` |
| `worker_overlap` | 1 request sent twice, 2 overlapping passes, 1 failing handler, 1 restart; 269 000 states | what was processed is swept, no callback reports on what it has published a result for, every entry leaves the dictionary, the refinement of `WorkerContract` |
| `worker_liveness` | 2 requests, one of them valid, 1 pass at a time, 1 failing handler; 15 000 states | every entry gets a result or is cancelled |
| `pipeline_safety` | 1 request, 2 stages with a worker, 1 message in transit from each, 1 cancellation, 1 restart by the user, 1 failing handler, 1 restart of a worker, handlers that commit at any time; 1 762 000 states | without a retry no worker declines; a saga is left waiting in vain only by a restart of a worker, by a pass that removes an entry made anew, or by one that removes an entry all of whose statuses overtook the confirmation |
| `pipeline_liveness` | the same with 2 or 3 statuses and 2 messages in transit, 1 cancellation, no faults, prompt handlers; 170 000 states | every stage that begins ends, also when the first status overtakes the confirmation |
| `website` | 1 request, 1 table, 1 chart cut to 3 points, 1 notification in the queue, 1 call in transit to each page, 2 failing handlers or restarts of the process, 1 call of `getAllRequests`; 617 000 states | a table follows the dictionary; a chart lags by one broadcast at most; what the tables are being told of reaches them |
| `portal` | 1 request, 1 table, 2 notifications and 1 call in transit, 1 failing handler; 534 000 states | the website shows each saga's state, progress and reason; an open table catches up |
| `producer_modes` | 3 timers, batches of 2 | nothing fires behind the manual mode but after a double start; the automatic mode goes on |

Runs that are expected to find a violation, each of a statement the source makes about itself:

| Run | What it finds |
|---|---|
| `stale_timeouts` | cancel, restart, cancel: the `RestartTimeout` of the first cancellation ends the request before the grace of the second one is over (a `PossibleTestingLoop` of an earlier run ends fresh tests likewise) |
| `failure_reason` | failing tests are announced without a reason |
| `processed_thrown_out` | an entry that was cancelled and added anew between listing and removal is thrown out unprocessed |

Seen while modelling, without a statement in the repository that a run could refute: a handler that is
retried after its `TryAdd` declines its own request (`NobodyDeclines` therefore excepts retries); when
`StopAllOperations` fails inside `PossibleTestingLoop`, the saga ends and the tester is never told; the
statistics count states by substrings of their names, so that `ValidationFinished` counts as finished; a
second `a` in the producer loses the first timer for good (`ManualIsManual` excepts it); a page shows no
request that it did not hear of while it was open, because the call of `getAllRequests` is commented out.

**Bounds.** Sagas do not interact (each handler reads and writes one saga), so one request shows all
that several would; the proofs are for any number. The same holds for the rows of the website but for
the statistics, which `Stats` computes for any number. Two pending timeouts of a kind are enough for one
of an earlier run beside one of the present run. Two locations tell the source from a product. The
failing publish of `saga_safety` reaches no worker, the one that is asked first, or two in the middle:
workers differ only in whether they are at work, before it or after it. Two `RequestModel`s are a request and
its successor after a cancellation; two passes are enough to overlap, and a third adds no new pair. In
`worker_liveness` there is no successor, because an entry added between listing and removal may be lost
(`processed_thrown_out`), and no restart, because a restart loses what the worker held; entries that are
added again, and overlapping passes with their repeated results, are in `worker_overlap`. One status on either side of the check
(`Half = 1`, `Full = 2`) exercises both loops and their ends.

`Pipeline` runs two workers of four: the handlers of all stages are the same, the second one shows the
hand-over from stage to stage, and a saga that comes to the third waits in the open (`Running`). One
cancellation and one restart by the user are enough for messages of an earlier run to meet the next one.
One message in transit from each worker still lets the two workers' messages overtake each other, and
in `pipeline_liveness` two let a status follow its predecessor at once. There every task reports at least
two statuses, so that the first one, which nothing holds back, can come before the confirmation and be
ignored (the code's tasks report at least six).

`ChartSize` is 3 instead of 10: the slip in `slice` needs one point more than the chart holds, and the run
goes past that several times. The notifications of `website` speak of a state with a reason and of the one
that is shown as complete. Two failures or restarts let a handler fail again when it is repeated, or the
process restart after a failure. One request is enough to be in progress, which `TableFollows` excepts, and
then to be judged; TLC has checked `TypeOK` and `TableFollows` also with two requests and a table (3 540 000
states), and `ChartLagsByOne` with two calls in transit and states that are counted in one column, in two
and in three (452 000). `portal` has one percentage; with two it has been checked for safety
(1 435 000 states), and the proofs are for any.

The instances that set `CHECK_DEADLOCK FALSE` may stop: once the only request is over, or the producer
has exited, nothing is left to do. `StageWorker` never deadlocks, because its timer keeps firing, nor does
`Website`, whose pages can always be opened or closed.

**Fairness.** The saga's runs assume only that a pending timeout is handled in the end: the timeout
manager stores it and delivers it until it is handled. No user and no worker is assumed to act. The
worker's runs assume that its timer keeps firing while a callback is free, that threads and tasks are
scheduled, that an entry present when a pass begins is come to, and that a failed message is delivered
again. Handler failures, cancellations and restarts are never forced. `Pipeline` assumes what
`WorkerContract` promises of each running worker (which `worker_overlap` shows that the threads keep),
and that endpoints receive what is in their queues. `Website` and `Portal` assume that the bus thread goes on
(each step of a handler by itself, for a handler may fail instead) and that the calls to an open page
arrive. In `Website` every broadcast (`TellTables`, `SendStats`, `SendRow`) has strong fairness, because the
bound on calls in transit, which the code does not have, would let the hub's thread and the bus thread
starve each other; `Portal` has no hub thread, and weak fairness is enough. The producer's timers fire.

**What liveness depends on.** `StagesEnd` needs `Prompt`: if a handler takes longer to commit than a pass
to work through its request, status and result arrive before the confirmation, the saga ignores them,
and waits for ever once the pass has removed the entry. `OnlyWorkersOrphan` names that removal as one of
the three steps that orphan a saga; it allows the removal of a worker's first entry for a request only if
no status of it was sent after its confirmation. `StagesEnd` is stated without failing handlers and restarts
of workers, because both lose requests: the first by declining them, the second by forgetting them.

`TableFollows` has two exceptions. The request of the notification in progress is excepted until its
running handler has told the tables, because a handler that throws after its write leaves the dictionary
ahead of them; it is not excepted once the handler has told them. And a request is excepted while the
last row that the tables were sent of it is one that `getAllRequests` had copied before a newer one was
written (`overtaken`); no shipped script makes that call.

## 4. What is proved

For all values of the constants that satisfy the named assumptions (`SagaAssumption`,
`WorkerAssumption`, `PipelineAssumption`, `WebsiteAssumption`, `PortalAssumption`; the producer's proof
needs none):

| Theorem | States |
|---|---|
| `TestingRequestSaga_proofs!TypeCorrect` | `Spec => []TypeOK` |
| `TestingRequestSaga_proofs!AskedOnce` | `Spec => []AskedOncePerRun` |
| `TestingRequestSaga_proofs!TimeoutPending` | `Spec => []TimeoutIsPending` |
| `TestingRequestSaga_proofs!WaitsForAsked` | `FailedPublishReaches = {{}} => (Spec => []WaitsForAskedWorker)` |
| `SagaRecord_proofs!RecordConsistent` | `Spec => []RecordMatchesState` |
| `SagaRecord_proofs!RevivedByUser` | `Spec => RevivedOnlyByUser` |
| `SagaRecord_proofs!KeepsLifecycle` | `Spec => Lifecycle!SafeSpec` |
| `TestingRequestSaga_proofs!StageFed` | `Spec => StageFedByPredecessor` |
| `WorkerRefinement_proofs!KeepsContractSafely` | `Spec => Contract!SafeSpec` |
| `RequestProducer_proofs!NothingBehindManual` | `Spec => []ManualIsManual` |
| `StageWorker_proofs!TypeCorrect` | `Spec => []TypeOK` |
| `StageWorker_proofs!ProcessedSwept` | `Spec => []ProcessedIsSwept` |
| `StageWorker_proofs!NothingAfterResult` | `Spec => []ResultIsLast` |
| `Pipeline_proofs!PipelineTypeCorrect` | `PipelineSpec => []PipelineTypeOK` |
| `Pipeline_proofs!NobodyEverDeclines` | `PipelineSpec => []NobodyDeclines` |
| `Pipeline_proofs!PipelineRunsSaga` | `PipelineSpec => Init /\ [][Next]_vars` |
| `Website_proofs!TypeCorrect` | `Spec => []TypeOK` |
| `Website_proofs!TablesFollow` | `Spec => []TableFollows` |
| `Website_proofs!ChartsLagByOne` | `Spec => []ChartLagsByOne` |
| `Portal_proofs!PortalTypeCorrect` | `PortalSpec => []PortalTypeOK` |
| `Portal_proofs!SiteShowsSaga` | `PortalSpec => []SiteFollowsSaga` |

* *One request per run* needs `AskedInv`: no worker of a later stage has been asked since it was last
  told to cancel, and nobody was asked before the request was submitted. A result is accepted in one
  state only and leaves it, so the next worker is asked once. A failing publish only ever resets counts.
  What each kind of handler asks for is a lemma of its own (`SubmitAsks`, `CancelAsks`, `RestartAsks`,
  `ReportAsks`, `FinishAsks`, `TimeoutAsks`), used here and by the next theorem.
* *A saga waits for a worker that was asked* needs `AskedOncePerRun` and that a publish that throws has
  sent nothing: otherwise `StopAllOperationsFails` takes a request away from a worker at work.
* *The record* needs `RecordInv`: nothing is recorded about a request without a saga, so that a new one
  starts blank. The central lemma is that a state names its stage: each handler's guard then says how
  far the run has got, and the handler's assignments touch that stage alone.
* *Pending timeouts* is inductive by itself.
* *Stopped sagas* follows from types alone: no state that a worker's handler accepts is a stopped one.
* *The lifecycle* is refined step by step: a handler that goes on maps to a step of `RequestLifecycle`,
  every other one to a stutter. That a request finishes only after four successes comes from `RecordInv`.
* *What a stage is fed* needs `SourceKnown` (a saga's request has a source); the rest is in the one handler
  that can ask for a later stage, the one of a result. That no other handler asks is a lemma for each
  kind of step.
* *The worker's contract* needs `ResultsFirst`: a task reports its result when it has reported enough
  statuses, and a request on a list of processed keys once had a result, so that its removal is allowed.
* *The producer*: until a timer is started while another is live, the field holds the only live timer.
* *Sweeping* needs that `RequestModel`s are numbered in order (a fresh entry is not marked), that a
  task with something to do has a `RequestModel`, and that redeliveries are bounded by failures and
  restarts. Each pass keeps its tasks until it lists what was processed, so the list cannot miss an
  entry that one of its own tasks marked.
* *Nothing after the result* needs `LastInv`: a callback's tasks that still have something to report have
  no result of the same callback behind them; a `RequestModel` with a result has a number that is not given
  out again; while it is in the dictionary it is marked, or the callback that published the result is about
  to mark it or to remove it; so that, with sweeping, a callback that begins takes up only what has had no
  result. Callbacks may overlap: one that took the `RequestModel` up before another's result still reports
  on it, which `ResultIsLast` allows, for the code does.
* *Nobody declines* needs `PipelineInv`, and in it `AskedAnew`: whatever made a worker know a request (an
  entry of its dictionary, its message in hand, or an earlier letter of its queue) is followed by a
  cancellation before the next letter that asks for that request; and if the saga has not asked since it
  last told the worker to cancel, the same holds at the end of the queue, so that it may ask. The lemmas
  say what one letter more, one letter less, and a letter put back do to this. They speak of positions in
  a queue and need no induction. That a handler sends at most one cancellation and one request, in
  this order, that they agree with the history `asked`, and that `asked` never exceeds one, comes from
  the proofs about the saga (`AskedInv`). A crash empties the dictionary before the message in hand is
  received again; a handler that fails keeps its entry, and here `failures = 0` is needed. TLC has checked
  `PipelineInv` as an invariant of `pipeline_safety`'s instance, and of one with one worker, three
  restarts by the user, two crashes and no failing handler.
* *The pipeline runs the saga*: every message in a queue to the server is one that a worker can send
  (`PipelineTypeOK`), and so its handler is a step of `TestingRequestSaga`.
* *Tables follow* needs, in `Website`'s `Inv`, for every table and request, `Follows`: the last call about
  it that is still on its way carries the dictionary's row, and without one the table shows that row if
  it shows any. It needs `TodoInv`, too: between the write and the broadcasts of a handler the dictionary
  has that handler's row, also after earlier failures, so that the broadcast ends the exception. A row that
  `getAllRequests` sends is the dictionary's, or puts its request among the overtaken ones.
* *Charts lag by one* needs `Lags`: the calls on their way to a chart end in the last one or two statistics
  of `told`, and only a chart that is full and about to lose its next point may end in the last but one.
  It holds for every `ChartSize` above 1. TLC has checked `Inv` as an invariant of the website's instances.
* *The website shows the saga* needs that each handler and each timeout of the saga publishes nothing that
  the website hears, and leaves what it shows alone, or publishes exactly one notification that says what
  became of the request (`IsTold`, one lemma for each kind of handler); and that of the notifications about
  a request in the queue the last one says what its saga is. The website's own steps are shown once, by
  the lemmas of `Website_proofs`, which `Portal_proofs` takes with INSTANCE.

**Only model-checked**: `OnlyWorkersOrphan`, whose `Reached` folds over all that a worker has sent; all
liveness, and with it the fairness of the two refinements (the theorems are about `SafeSpec`, the runs
about the whole abstract specification), because the proof system treats neither fairness nor
`ENABLED`. What a fold computes in general takes induction over data, which it does not offer either;
the proofs above state what they need of sequences by positions, and of `Stats` by its columns.

## 5. Not modelled

* *Implementation files by language.* Nearly all the JavaScript of the repository is vendored (jQuery,
  DataTables, flot, Morris, Bootstrap, SignalR, AngularJS and the samples' copies of them) and is no part
  of the program's logic. Its own script is `IronTesterAngularApp.js`, which `Website` models but for its
  button styles; the chart's script is inside `Index.cshtml`. The program itself is C#.
* *`getAllStats`.* Its only call comes before the connection has started. The classes (colours) of a row
  have no property anyone has stated. The SignalR transport, its reconnections and its groups are
  libraries.
* *NServiceBus, MSMQ and RavenDB* appear only as the source uses them: transactional handlers,
  redelivery, stored timeouts, atomic publishing. Second-level retries, which would handle a message
  after later ones, and the error queue are beyond the bounds on failures.
* *`PleaseFail` and `PleaseThrowException`* are sent by nobody; the manual messages pusher is a stateless
  loop; the endpoints' configuration is start-up code, whose choices the modules assume.
* *Data.* The messages' wording, the console's colours, the pages' layout, and which tests and paths are
  drawn at random have no properties.

## 6. What is left

* A proof of `OnlyWorkersOrphan`: it needs a form of `Reached` that can be reasoned about without induction,
  say the existence of the states in between.
* The portal with restarts of the website, once a page's wait for the next notification is worth a property.
* Second-level retries at the website and in the pipeline, which would let a message overtake later ones
  of its own sender.

