------------------------- MODULE TestingRequestSaga -------------------------
(***************************************************************************)
(* The saga of IronTester.Server: one TestingRequestSaga per request walks *)
(* the request through the four workers (validation, initialization,       *)
(* builds, tests), reacts to the user's cancel and restart commands and to *)
(* its own two timeouts.                                                   *)
(*                                                                         *)
(* A handler runs in one transaction that receives its message, saves the  *)
(* saga and sends what it publishes, so it is one action.  The environment *)
(* is open: any message of a worker about a live saga may be handled at    *)
(* any time, which stands for late, repeated and reordered messages.  A    *)
(* message that meets no saga, or a saga in a state its handler does not   *)
(* accept, changes nothing: the handler's early return is a stuttering     *)
(* step.  A handler that throws is rolled back and is a stuttering step.   *)
(***************************************************************************)
EXTENDS Integers, FiniteSets

CONSTANTS
    Requests,              \* request ids; the website draws a fresh Guid each
    Paths,                 \* source, initialized-files and artifact locations
    Reasons,               \* denial and failure texts
    Null,                  \* C#'s null
    Progress,              \* the percentages a worker reports
    FailedPublishReaches,  \* the sets of workers a publish may have reached
                           \* when it throws; {{}} if it is all-or-nothing
    MaxTimers              \* bound: pending timeouts of one kind per saga

Validation == 1
Initialization == 2
Builds == 3
Tests == 4
Stages == 1..4

ASSUME SagaAssumption ==
    /\ Null \notin Paths \cup Reasons
    /\ 0 \in Progress
    /\ Progress \subseteq Nat
    /\ FailedPublishReaches \subseteq (SUBSET Stages) \ {Stages}
    /\ MaxTimers \in Nat \ {0}

(* TestingRequestSagaStates, with the values of the enumeration.  Stage s  *)
(* is awaited in the state in which stage s - 1 is done.                   *)
Failed == -1
Cancelled == 0
TestingRequested == 1
Finished == 13
States == Failed..Finished

Awaited(s) == 3 * s - 2
Started(s) == 3 * s - 1
InProgress(s) == 3 * s
Done(s) == 3 * s + 1

VARIABLES
    requested,    \* requests ever submitted
    sagas,        \* requests whose saga is stored and not complete
    state,        \* CurrentState; 0, as in a new object, without a saga
    source,       \* SourceCodeLocation
    denial, progress, success, failReason, location,
                  \* the fields of each stage: <Stage>DenialReason,
                  \* <Stage>Progress, <Stage>Successful, <Stage>FailReason
                  \* and PathToInitializedFiles, PathToBuildsArtifacts,
                  \* TestsArtifactsLocation
    restartTimers, loopTimers,
                  \* pending RestartTimeout and PossibleTestingLoop
    staleRestartTimers, staleLoopTimers,
                  \* history: how many of these an earlier run requested
    outgoing,     \* the messages of the last handler that changed anything
    asked         \* history: requests sent to a worker since it was last told
                  \* to cancel

fields == <<denial, progress, success, failReason, location>>
timers == <<restartTimers, loopTimers, staleRestartTimers, staleLoopTimers>>
vars == <<requested, sagas, state, source, fields, timers, outgoing, asked>>

-----------------------------------------------------------------------------
(* Messages                                                                *)

Please(s, r, path) ==
    [kind |-> "Please", stage |-> s, request |-> r, path |-> path]

PleaseCancel(w, r) ==
    [kind |-> "PleaseCancel", worker |-> w, request |-> r]

Notification(r, st, text) ==
    IF st = Failed
    THEN [kind |-> "ProcessFailed", request |-> r, reasons |-> text]
    ELSE [kind |-> "StateHasChanged", request |-> r, state |-> st]

ProgressNotification(r, st, p) ==
    [kind |-> "ProcessUpdate", request |-> r, state |-> st, progress |-> p]

Messages ==
    [kind : {"Please"}, stage : Stages, request : Requests,
     path : Paths \cup {Null}]
    \cup [kind : {"PleaseCancel"}, worker : Stages, request : Requests]
    \cup [kind : {"ProcessFailed"}, request : Requests,
          reasons : Reasons \cup {Null}]
    \cup [kind : {"StateHasChanged"}, request : Requests, state : States]
    \cup [kind : {"ProcessUpdate"}, request : Requests, state : States,
          progress : Progress]

(* What a worker answers: it accepts without a text or denies with one;    *)
(* a finished stage names a location whether or not it succeeded.          *)
Confirmations ==
    [will : {TRUE}, reason : {Null}] \cup [will : {FALSE}, reason : Reasons]

Outcomes ==
    [ok : {TRUE}, reason : {Null}, path : Paths]
    \cup [ok : {FALSE}, reason : Reasons, path : Paths]

-----------------------------------------------------------------------------
(* Bookkeeping                                                             *)

EveryStage(value) == [s \in Stages |-> value]

(* Operators named ...Variant are plausible slips, each in place of the    *)
(* definition after it: the properties must notice them.                   *)

WipeCleanVariant(r) ==
    /\ denial' = [denial EXCEPT ![r] = EveryStage(Null)]
    /\ progress' = [progress EXCEPT ![r] = EveryStage(0)]
    /\ success' = [success EXCEPT ![r] = EveryStage(FALSE)]
    /\ failReason' = [failReason EXCEPT ![r] = EveryStage(Null)]
    /\ UNCHANGED location

(* The fields of r that TestingRequestData.WipeClean resets.               *)
WipeClean(r) ==
    /\ denial' = [denial EXCEPT ![r] = EveryStage(Null)]
    /\ progress' = [progress EXCEPT ![r] = EveryStage(0)]
    /\ success' = [success EXCEPT ![r] = EveryStage(FALSE)]
    /\ failReason' = [failReason EXCEPT ![r] = EveryStage(Null)]
    /\ location' = [location EXCEPT ![r] = EveryStage(Null)]

(* MarkAsComplete: the saga is deleted, its pending timeouts with it.      *)
MarkAsComplete(r) ==
    /\ sagas' = sagas \ {r}
    /\ state' = [state EXCEPT ![r] = Cancelled]
    /\ source' = [source EXCEPT ![r] = Null]
    /\ WipeClean(r)
    /\ restartTimers' = [restartTimers EXCEPT ![r] = 0]
    /\ loopTimers' = [loopTimers EXCEPT ![r] = 0]
    /\ staleRestartTimers' = [staleRestartTimers EXCEPT ![r] = 0]
    /\ staleLoopTimers' = [staleLoopTimers EXCEPT ![r] = 0]

(* StopAllOperations: what a publish that reached the workers told sent.   *)
Cancellation(r, told) == {PleaseCancel(w, r) : w \in told}

(* Bus.Publish, within the transaction of the handler: sent is everything  *)
(* the handler sends, and the history of requests follows.                 *)
Asks(sent, s, r) ==
    \E path \in Paths \cup {Null} : Please(s, r, path) \in sent

AskedAfter(sent, s, r) ==
    (IF PleaseCancel(s, r) \in sent THEN 0 ELSE asked[r][s])
    + (IF Asks(sent, s, r) THEN 1 ELSE 0)

Publish(r, sent) ==
    /\ outgoing' = sent
    /\ asked' = [asked EXCEPT ![r] = [s \in Stages |-> AskedAfter(sent, s, r)]]

-----------------------------------------------------------------------------
(* Commands of the user                                                    *)

HandlePleaseDoTests(r, path) ==
    /\ r \notin requested
    /\ requested' = requested \cup {r}
    /\ sagas' = sagas \cup {r}
    /\ state' = [state EXCEPT ![r] = TestingRequested]
    /\ source' = [source EXCEPT ![r] = path]
    /\ Publish(r, {Notification(r, TestingRequested, Null),
                   Please(Validation, r, Null)})
    /\ UNCHANGED <<fields, timers>>

(* StopAllOperations caught an exception: the handler returns, and keeps   *)
(* what the failed publish had already sent.                               *)
StopAllOperationsFails(r) ==
    /\ r \in sagas
    /\ \E told \in FailedPublishReaches : Publish(r, Cancellation(r, told))
    /\ UNCHANGED <<requested, sagas, state, source, fields, timers>>

RequestRestartTimeoutVariant(r) == UNCHANGED restartTimers

RequestRestartTimeout(r) ==
    /\ restartTimers[r] < MaxTimers
    /\ restartTimers' = [restartTimers EXCEPT ![r] = @ + 1]

HandlePleaseCancelTests(r) ==
    /\ r \in sagas
    /\ state' = [state EXCEPT ![r] = Cancelled]
    /\ RequestRestartTimeout(r)
    /\ Publish(r, Cancellation(r, Stages)
                  \cup {Notification(r, Cancelled, Null)})
    /\ UNCHANGED <<requested, sagas, source, fields, loopTimers,
                   staleRestartTimers, staleLoopTimers>>

HandlePleaseRestart(r) ==
    /\ r \in sagas
    /\ WipeClean(r)
    /\ state' = [state EXCEPT ![r] = TestingRequested]
    /\ staleRestartTimers' =
          [staleRestartTimers EXCEPT ![r] = restartTimers[r]]
    /\ staleLoopTimers' = [staleLoopTimers EXCEPT ![r] = loopTimers[r]]
    /\ Publish(r, Cancellation(r, Stages)
                  \cup {Notification(r, TestingRequested, Null),
                        Please(Validation, r, Null)})
    /\ UNCHANGED <<requested, sagas, source, restartTimers, loopTimers>>

-----------------------------------------------------------------------------
(* Messages of the workers.  The four files of the saga repeat these three *)
(* handlers; the stage is their parameter.                                 *)

(* The early return of each handler, as the states in which it goes on.    *)
AcceptsConfirmation(s) == {Awaited(s)}
AcceptsStatusVariant(s) == States
AcceptsStatusStrictVariant(s) == {InProgress(s)}
AcceptsStatus(s) == {Started(s), InProgress(s)}
AcceptsFinishedVariant(s) == {InProgress(s), Done(s)}
AcceptsFinished(s) == {InProgress(s)}

HandleConfirmation(s, r, will, reason) ==
    LET next == IF will THEN Started(s) ELSE Failed
    IN  /\ r \in sagas
        /\ state[r] \in AcceptsConfirmation(s)
        /\ state' = [state EXCEPT ![r] = next]
        /\ denial' = [denial EXCEPT ![r] = [@ EXCEPT ![s] = reason]]
        /\ Publish(r, {Notification(r, next, reason)})
        /\ UNCHANGED <<requested, sagas, source, progress, success,
                       failReason, location, timers>>

HandleStatus(s, r, p) ==
    /\ r \in sagas
    /\ state[r] \in AcceptsStatus(s)
    /\ state' = [state EXCEPT ![r] = InProgress(s)]
    /\ progress' = [progress EXCEPT ![r] = [@ EXCEPT ![s] = p]]
    /\ Publish(r, {ProgressNotification(r, InProgress(s), p)})
    /\ UNCHANGED <<requested, sagas, source, denial, success, failReason,
                   location, restartTimers, staleRestartTimers,
                   staleLoopTimers>>

WatchForTestingLoopVariant(s, r) ==
    IF s = Builds
    THEN /\ loopTimers[r] < MaxTimers
         /\ loopTimers' = [loopTimers EXCEPT ![r] = @ + 1]
    ELSE UNCHANGED loopTimers

(* Every status of the tests requests one more PossibleTestingLoop.        *)
WatchForTestingLoop(s, r) ==
    IF s = Tests
    THEN /\ loopTimers[r] < MaxTimers
         /\ loopTimers' = [loopTimers EXCEPT ![r] = @ + 1]
    ELSE UNCHANGED loopTimers

(* The text announced when stage s finishes: its own reason, but the       *)
(* handler of ITestsFinished passes BuildsFailReason.                      *)
AnnouncedReason(s, r, reason) ==
    IF s = Tests THEN failReason[r][Builds] ELSE reason

(* IValidationFinished has no location.                                    *)
LocationAfter(s, r, path) ==
    IF s = Validation THEN location[r] ELSE [location[r] EXCEPT ![s] = path]

NextRequestVariant(s, r, path) == {Please(s + 1, r, path)}

NextRequestOffByOneVariant(s, r, path) ==
    IF s >= Builds THEN {}
    ELSE {Please(s + 1, r, IF s = Validation THEN source[r] ELSE path)}

NextRequestOfSourceVariant(s, r, path) ==
    IF s = Tests THEN {} ELSE {Please(s + 1, r, source[r])}

(* The request for the stage after s, which works on what s produced.      *)
NextRequest(s, r, path) ==
    IF s = Tests THEN {}
    ELSE {Please(s + 1, r, IF s = Validation THEN source[r] ELSE path)}

HandleFinished(s, r, ok, reason, path) ==
    LET next == IF ok THEN Done(s) ELSE Failed
    IN  /\ r \in sagas
        /\ state[r] \in AcceptsFinished(s)
        /\ state' = [state EXCEPT ![r] = next]
        /\ success' = [success EXCEPT ![r] = [@ EXCEPT ![s] = ok]]
        /\ failReason' = [failReason EXCEPT ![r] = [@ EXCEPT ![s] = reason]]
        /\ location' = [location EXCEPT ![r] = LocationAfter(s, r, path)]
        /\ Publish(r, {Notification(r, next, AnnouncedReason(s, r, reason))}
                      \cup (IF ok THEN NextRequest(s, r, path) ELSE {}))
        /\ UNCHANGED <<requested, sagas, source, denial, progress, timers>>

Confirmation(s, r) ==
    \E c \in Confirmations : HandleConfirmation(s, r, c.will, c.reason)

Status(s, r) ==
    \E p \in Progress : HandleStatus(s, r, p) /\ WatchForTestingLoop(s, r)

Finish(s, r) ==
    \E o \in Outcomes : HandleFinished(s, r, o.ok, o.reason, o.path)

HandleValidationRequestConfirmation(r) == Confirmation(Validation, r)
HandleValidationStatus(r) == Status(Validation, r)
HandleValidationFinished(r) == Finish(Validation, r)

HandleInitializeRequestConfirmation(r) == Confirmation(Initialization, r)
HandleInitializeStatus(r) == Status(Initialization, r)
HandleInitializeFinished(r) == Finish(Initialization, r)

HandleBuildsRequestConfirmation(r) == Confirmation(Builds, r)
HandleBuildsStatus(r) == Status(Builds, r)
HandleBuildsFinished(r) == Finish(Builds, r)

HandleTestsRequestConfirmation(r) == Confirmation(Tests, r)
HandleTestsStatus(r) == Status(Tests, r)
HandleTestsFinished(r) == Finish(Tests, r)

-----------------------------------------------------------------------------
(* Timeouts.  Timeouts of one kind have one delay, so they come due in the *)
(* order in which they were requested: the stale ones first.               *)

OneLess(n) == IF n > 0 THEN n - 1 ELSE 0

TimeoutRestart(r) ==
    /\ r \in sagas
    /\ restartTimers[r] > 0
    /\ Publish(r, {})
    /\ \/ /\ state[r] = Cancelled
          /\ MarkAsComplete(r)
       \/ /\ state[r] # Cancelled
          /\ restartTimers' = [restartTimers EXCEPT ![r] = @ - 1]
          /\ staleRestartTimers' =
                [staleRestartTimers EXCEPT ![r] = OneLess(@)]
          /\ UNCHANGED <<sagas, state, source, fields, loopTimers,
                         staleLoopTimers>>
    /\ UNCHANGED requested

(* The result of StopAllOperations is ignored here.                        *)
TimeoutPossibleTestingLoop(r) ==
    /\ r \in sagas
    /\ loopTimers[r] > 0
    /\ \/ /\ state[r] = InProgress(Tests)
          /\ \E told \in FailedPublishReaches \cup {Stages} :
                Publish(r, Cancellation(r, told)
                           \cup {Notification(r, Cancelled, Null)})
          /\ MarkAsComplete(r)
       \/ /\ state[r] # InProgress(Tests)
          /\ loopTimers' = [loopTimers EXCEPT ![r] = @ - 1]
          /\ staleLoopTimers' =
                [staleLoopTimers EXCEPT ![r] = OneLess(@)]
          /\ Publish(r, {})
          /\ UNCHANGED <<sagas, state, source, fields, restartTimers,
                         staleRestartTimers>>
    /\ UNCHANGED requested

-----------------------------------------------------------------------------
Init ==
    /\ requested = {}
    /\ sagas = {}
    /\ state = [r \in Requests |-> Cancelled]
    /\ source = [r \in Requests |-> Null]
    /\ denial = [r \in Requests |-> EveryStage(Null)]
    /\ progress = [r \in Requests |-> EveryStage(0)]
    /\ success = [r \in Requests |-> EveryStage(FALSE)]
    /\ failReason = [r \in Requests |-> EveryStage(Null)]
    /\ location = [r \in Requests |-> EveryStage(Null)]
    /\ restartTimers = [r \in Requests |-> 0]
    /\ loopTimers = [r \in Requests |-> 0]
    /\ staleRestartTimers = [r \in Requests |-> 0]
    /\ staleLoopTimers = [r \in Requests |-> 0]
    /\ outgoing = {}
    /\ asked = [r \in Requests |-> EveryStage(0)]

UserCommand(r) ==
    \/ \E path \in Paths : HandlePleaseDoTests(r, path)
    \/ StopAllOperationsFails(r)
    \/ HandlePleaseCancelTests(r)
    \/ HandlePleaseRestart(r)

WorkerMessage(r) ==
    \/ HandleValidationRequestConfirmation(r)
    \/ HandleValidationStatus(r)
    \/ HandleValidationFinished(r)
    \/ HandleInitializeRequestConfirmation(r)
    \/ HandleInitializeStatus(r)
    \/ HandleInitializeFinished(r)
    \/ HandleBuildsRequestConfirmation(r)
    \/ HandleBuildsStatus(r)
    \/ HandleBuildsFinished(r)
    \/ HandleTestsRequestConfirmation(r)
    \/ HandleTestsStatus(r)
    \/ HandleTestsFinished(r)

Timeout(r) == TimeoutRestart(r) \/ TimeoutPossibleTestingLoop(r)

Next == \E r \in Requests : UserCommand(r) \/ WorkerMessage(r) \/ Timeout(r)

(* A pending timeout is stored by the timeout manager and is delivered,    *)
(* again after a failure, until it is handled.  Nothing obliges a user or  *)
(* a worker to act.                                                        *)
Fairness ==
    \A r \in Requests :
        /\ WF_vars(TimeoutRestart(r))
        /\ WF_vars(TimeoutPossibleTestingLoop(r))

Spec == Init /\ [][Next]_vars /\ Fairness

-----------------------------------------------------------------------------
(* Properties                                                              *)

(* Every variable holds what the fields of TestingRequestData, the stored  *)
(* timeouts and the messages of IronTester.Common can hold.                *)
TypeOK ==
    /\ requested \subseteq Requests
    /\ sagas \subseteq requested
    /\ state \in [Requests -> States]
    /\ source \in [Requests -> Paths \cup {Null}]
    /\ denial \in [Requests -> [Stages -> Reasons \cup {Null}]]
    /\ progress \in [Requests -> [Stages -> Progress]]
    /\ success \in [Requests -> [Stages -> BOOLEAN]]
    /\ failReason \in [Requests -> [Stages -> Reasons \cup {Null}]]
    /\ location \in [Requests -> [Stages -> Paths \cup {Null}]]
    /\ restartTimers \in [Requests -> 0..MaxTimers]
    /\ loopTimers \in [Requests -> 0..MaxTimers]
    /\ staleRestartTimers \in [Requests -> 0..MaxTimers]
    /\ staleLoopTimers \in [Requests -> 0..MaxTimers]
    /\ outgoing \subseteq Messages
    /\ asked \in [Requests -> [Stages -> Nat]]

(* Nothing of the present run is recorded about stage s of r.              *)
Untouched(r, s) ==
    /\ denial[r][s] = Null
    /\ progress[r][s] = 0
    /\ ~success[r][s]
    /\ failReason[r][s] = Null
    /\ location[r][s] = Null

(* Stage s of r was accepted and finished well.                            *)
Passed(r, s) ==
    /\ denial[r][s] = Null
    /\ success[r][s]
    /\ failReason[r][s] = Null
    /\ s # Validation => location[r][s] \in Paths

(* The states in which a saga waits for the worker of stage f.             *)
AtWork(f) == {Awaited(f), Started(f), InProgress(f)}

(* The states in which the run of a saga is at stage f, or past the last.  *)
StatesAt(f) ==
    IF f \in Stages THEN AtWork(f) \cup {Failed}
    ELSE {Finished}

RunIsAt(r, f) ==
    /\ state[r] \in StatesAt(f) \cup {Cancelled}
    /\ \A s \in Stages :
          /\ s < f => Passed(r, s)
          /\ s > f => Untouched(r, s)
    /\ f \in Stages =>
          /\ ~success[r][f]
          /\ state[r] = Awaited(f) => Untouched(r, f)
          /\ state[r] \in {Started(f), InProgress(f)} => denial[r][f] = Null
          /\ state[r] = Failed => denial[r][f] # Null \/ failReason[r][f] # Null

(* The record of a saga always describes one run that got as far as its    *)
(* state says: every earlier stage passed with the location the next one   *)
(* needs, no later stage has left a trace, a failed run has the reason at  *)
(* the stage where it stopped.  In particular WipeClean leaves nothing of  *)
(* the run before a restart, and no late message slips in.                 *)
RecordMatchesState == \A r \in sagas : \E f \in 1..5 : RunIsAt(r, f)

(* Since it was last told to cancel, a worker was asked at most once for   *)
(* a request: however often statuses and results are repeated, no run      *)
(* publishes an IPlease message twice, so no worker has to deny one as     *)
(* already existing.                                                       *)
AskedOncePerRun == \A r \in Requests, s \in Stages : asked[r][s] <= 1

(* A cancelled saga has the RestartTimeout pending that will end it, and   *)
(* one whose tests run has the PossibleTestingLoop that will stop them,    *)
(* whatever timeouts of earlier runs came in between.                      *)
TimeoutIsPending ==
    \A r \in sagas :
        /\ state[r] = Cancelled => restartTimers[r] > 0
        /\ state[r] = InProgress(Tests) => loopTimers[r] > 0

(* A saga that waits for a worker has asked it and has not told it to      *)
(* cancel since.  It takes a StopAllOperations that throws to have sent    *)
(* nothing: see FailedPublishReaches.                                      *)
WaitsForAskedWorker ==
    \A r \in sagas, s \in Stages : state[r] \in AtWork(s) => asked[r][s] = 1

(* A failed, cancelled or finished saga only changes its state in a step   *)
(* that tells all four workers to cancel: no message of a worker that is   *)
(* still at it revives the request.                                        *)
OnlyUserRevives ==
    \A r \in sagas :
        state[r] \in {Failed, Cancelled, Finished}
            /\ r \in sagas' /\ state'[r] # state[r]
        => \A w \in Stages : PleaseCancel(w, r) \in outgoing'

RevivedOnlyByUser == [][OnlyUserRevives]_vars

(* A stage is asked for in the step in which its predecessor of this run   *)
(* passed, and is handed what that predecessor produced: the source for    *)
(* the initialization, the initialized files for the builds, the           *)
(* artifacts for the tests.                                                *)
FedByPredecessor ==
    \A m \in outgoing' : m.kind = "Please" /\ m.stage # Validation =>
        LET r == m.request
            s == m.stage
        IN  /\ state'[r] = Awaited(s) /\ success'[r][s - 1]
            /\ m.path = IF s = Initialization THEN source'[r]
                        ELSE location'[r][s - 1]
            /\ m.path # Null

StageFedByPredecessor == [][FedByPredecessor]_vars

(* A saga cancelled by its user is restarted or forgotten within the time  *)
(* the RestartTimeout grants, and one that runs tests leaves them.         *)
CancelledIsResolved ==
    \A r \in Requests :
        r \in sagas /\ state[r] = Cancelled
            ~> r \notin sagas \/ state[r] # Cancelled

TestsDoNotHang ==
    \A r \in Requests :
        r \in sagas /\ state[r] = InProgress(Tests)
            ~> r \notin sagas \/ state[r] # InProgress(Tests)

(* The inductive strengthening of the invariants above.                    *)

(* Without a saga nothing is recorded.                                     *)
BlankWithoutSaga ==
    \A r \in Requests \ sagas, s \in Stages : Untouched(r, s)

RecordInv == RecordMatchesState /\ BlankWithoutSaga

(* No worker was asked before the request was submitted, nor is one asked  *)
(* for a stage beyond the one that is at work.                             *)
AskedInv ==
    /\ AskedOncePerRun
    /\ \A r \in Requests \ requested, s \in Stages : asked[r][s] = 0
    /\ \A r \in sagas, f \in Stages :
          state[r] \in AtWork(f) =>
              \A s \in Stages : s > f => asked[r][s] = 0

Inv == TypeOK /\ RecordInv /\ AskedInv /\ TimeoutIsPending

(* The refinement: the state of a saga as the phase of its request, the    *)
(* recorded successes as the number of stages it has passed.               *)
phaseOf(r) ==
    IF r \notin requested THEN "unknown"
    ELSE IF r \notin sagas THEN "over"
    ELSE IF state[r] = Failed THEN "failed"
    ELSE IF state[r] = Cancelled THEN "cancelled"
    ELSE IF state[r] = Finished THEN "finished"
    ELSE "running"

passed(r) ==
    IF success[r][Tests] THEN 4
    ELSE IF success[r][Builds] THEN 3
    ELSE IF success[r][Initialization] THEN 2
    ELSE IF success[r][Validation] THEN 1
    ELSE 0

Lifecycle == INSTANCE RequestLifecycle
    WITH StageCount <- 4,
         phase <- [r \in Requests |-> phaseOf(r)],
         done <- [r \in Requests |-> passed(r)]

(* The saga keeps the promises of RequestLifecycle.                        *)
ImplementsLifecycle == Lifecycle!Spec

(* What the source says of itself, and the runs refute.                    *)

(* "Time for restarting cancelled build is out, end saga"                  *)
(* (TestingRequestSagaBase.cs:138), "Tests are propably looped - fail      *)
(* saga" (TestingRequestSagaTests.cs:52): a timeout that ends a saga was   *)
(* not requested before the request's last restart.                        *)
OwnTimeoutsEnd ==
    [][\A r \in sagas :
          /\ TimeoutRestart(r) /\ r \notin sagas'
                => staleRestartTimers[r] = 0
          /\ TimeoutPossibleTestingLoop(r) /\ r \notin sagas'
                => staleLoopTimers[r] = 0]_vars

(* IProcessFailed carries "FailureReasons"                                 *)
(* (TestingRequestSagaUpdates.cs): a failure is announced with a reason.   *)
FailureIsExplained ==
    \A m \in outgoing : m.kind = "ProcessFailed" => m.reasons # Null

=============================================================================
