---------------------- MODULE TestingRequestSaga_proofs ----------------------
(***************************************************************************)
(* Theorems about TestingRequestSaga, for any requests, locations, texts   *)
(* and bounds.                                                             *)
(***************************************************************************)
EXTENDS TestingRequestSaga, TLAPS

-----------------------------------------------------------------------------
(* Facts about the definitions                                             *)

(* Whatever a handler publishes is one of the messages of the system.      *)
LEMMA MessageTypes ==
    ASSUME SagaAssumption, NEW r \in Requests
    PROVE  /\ \A s \in Stages, path \in Paths \cup {Null} :
                 Please(s, r, path) \in Messages
           /\ \A told \in SUBSET Stages : Cancellation(r, told) \subseteq Messages
           /\ \A st \in States, text \in Reasons \cup {Null} :
                 Notification(r, st, text) \in Messages
           /\ \A st \in States, p \in Progress :
                 ProgressNotification(r, st, p) \in Messages
<1>1. \A s \in Stages, path \in Paths \cup {Null} :
         Please(s, r, path) \in Messages
  BY DEF Please, Messages
<1>2. \A w \in Stages : PleaseCancel(w, r) \in Messages
  BY DEF PleaseCancel, Messages
<1>3. \A told \in SUBSET Stages : Cancellation(r, told) \subseteq Messages
  BY <1>2 DEF Cancellation
<1>4. \A st \in States, text \in Reasons \cup {Null} :
         Notification(r, st, text) \in Messages
  BY DEF Notification, Messages
<1>5. \A st \in States, p \in Progress :
         ProgressNotification(r, st, p) \in Messages
  BY DEF ProgressNotification, Messages
<1> QED
  BY <1>1, <1>3, <1>4, <1>5

(* The states named by the stage that is at work.                          *)
LEMMA StageStates ==
    /\ \A s \in Stages : /\ Awaited(s) \in States \ {Failed, Cancelled}
                         /\ Started(s) \in States \ {Failed, Cancelled}
                         /\ InProgress(s) \in States \ {Failed, Cancelled}
                         /\ Done(s) \in States \ {Failed, Cancelled}
    /\ {Failed, Cancelled, TestingRequested, Finished} \subseteq States
  BY DEF Stages, States, Failed, Cancelled, TestingRequested, Finished,
         Awaited, Started, InProgress, Done

(* Publishing keeps the two message variables well-typed.                  *)
LEMMA PublishType ==
    ASSUME TypeOK, NEW r \in Requests, NEW sent \in SUBSET Messages,
           Publish(r, sent)
    PROVE  /\ outgoing' \subseteq Messages
           /\ asked' \in [Requests -> [Stages -> Nat]]
  BY DEF TypeOK, Publish, AskedAfter

LEMMA WipeCleanType ==
    ASSUME SagaAssumption, TypeOK, NEW r \in Requests, WipeClean(r)
    PROVE  /\ denial' \in [Requests -> [Stages -> Reasons \cup {Null}]]
           /\ progress' \in [Requests -> [Stages -> Progress]]
           /\ success' \in [Requests -> [Stages -> BOOLEAN]]
           /\ failReason' \in [Requests -> [Stages -> Reasons \cup {Null}]]
           /\ location' \in [Requests -> [Stages -> Paths \cup {Null}]]
  BY DEF SagaAssumption, TypeOK, WipeClean, EveryStage

LEMMA MarkAsCompleteType ==
    ASSUME SagaAssumption, TypeOK, NEW r \in Requests, MarkAsComplete(r)
    PROVE  /\ sagas' \subseteq requested
           /\ state' \in [Requests -> States]
           /\ source' \in [Requests -> Paths \cup {Null}]
           /\ restartTimers' \in [Requests -> 0..MaxTimers]
           /\ loopTimers' \in [Requests -> 0..MaxTimers]
           /\ staleRestartTimers' \in [Requests -> 0..MaxTimers]
           /\ staleLoopTimers' \in [Requests -> 0..MaxTimers]
  BY StageStates DEF SagaAssumption, TypeOK, MarkAsComplete

-----------------------------------------------------------------------------
(* Type correctness                                                        *)

LEMMA UserCommandType ==
    ASSUME SagaAssumption, TypeOK, NEW r \in Requests, UserCommand(r)
    PROVE  TypeOK'
<1>1. ASSUME NEW path \in Paths, HandlePleaseDoTests(r, path) PROVE TypeOK'
  <2> DEFINE sent == {Notification(r, TestingRequested, Null),
                      Please(Validation, r, Null)}
  <2>1. sent \in SUBSET Messages
    BY MessageTypes, StageStates DEF Validation, Stages
  <2>2. outgoing' \subseteq Messages /\ asked' \in [Requests -> [Stages -> Nat]]
    BY <1>1, <2>1, PublishType DEF HandlePleaseDoTests
  <2> QED
    BY <1>1, <2>2, StageStates DEF HandlePleaseDoTests, TypeOK, fields, timers
<1>2. ASSUME StopAllOperationsFails(r) PROVE TypeOK'
  <2>1. PICK told \in FailedPublishReaches : Publish(r, Cancellation(r, told))
    BY <1>2 DEF StopAllOperationsFails
  <2>2. Cancellation(r, told) \in SUBSET Messages
    BY MessageTypes DEF SagaAssumption
  <2>3. outgoing' \subseteq Messages /\ asked' \in [Requests -> [Stages -> Nat]]
    BY <2>1, <2>2, PublishType
  <2> QED
    BY <1>2, <2>3 DEF StopAllOperationsFails, TypeOK, fields, timers
<1>3. ASSUME HandlePleaseCancelTests(r) PROVE TypeOK'
  <2> DEFINE sent == Cancellation(r, Stages)
                     \cup {Notification(r, Cancelled, Null)}
  <2>1. sent \in SUBSET Messages
    BY MessageTypes, StageStates
  <2>2. outgoing' \subseteq Messages /\ asked' \in [Requests -> [Stages -> Nat]]
    BY <1>3, <2>1, PublishType DEF HandlePleaseCancelTests
  <2>3. restartTimers' \in [Requests -> 0..MaxTimers]
    BY <1>3
    DEF HandlePleaseCancelTests, RequestRestartTimeout, TypeOK, SagaAssumption
  <2>4. state' \in [Requests -> States]
    BY <1>3, StageStates DEF HandlePleaseCancelTests, TypeOK
  <2> QED
    BY <1>3, <2>2, <2>3, <2>4 DEF HandlePleaseCancelTests, TypeOK, fields
<1>4. ASSUME HandlePleaseRestart(r) PROVE TypeOK'
  <2> DEFINE sent == Cancellation(r, Stages)
                     \cup {Notification(r, TestingRequested, Null),
                           Please(Validation, r, Null)}
  <2>1. sent \in SUBSET Messages
    BY MessageTypes, StageStates DEF Validation, Stages
  <2>2. outgoing' \subseteq Messages /\ asked' \in [Requests -> [Stages -> Nat]]
    BY <1>4, <2>1, PublishType DEF HandlePleaseRestart
  <2>3. WipeClean(r)
    BY <1>4 DEF HandlePleaseRestart
  <2> QED
    BY <1>4, <2>2, <2>3, WipeCleanType, StageStates
    DEF HandlePleaseRestart, TypeOK
<1> QED
  BY <1>1, <1>2, <1>3, <1>4 DEF UserCommand

LEMMA ConfirmationType ==
    ASSUME SagaAssumption, TypeOK, NEW r \in Requests, NEW s \in Stages,
           Confirmation(s, r)
    PROVE  TypeOK'
<1>1. PICK c \in Confirmations : HandleConfirmation(s, r, c.will, c.reason)
  BY DEF Confirmation
<1>2. c.will \in BOOLEAN /\ c.reason \in Reasons \cup {Null}
  BY DEF Confirmations
<1> DEFINE next == IF c.will THEN Started(s) ELSE Failed
<1>3. next \in States
  BY StageStates
<1>4. {Notification(r, next, c.reason)} \in SUBSET Messages
  BY <1>2, <1>3, MessageTypes
<1>5. outgoing' \subseteq Messages /\ asked' \in [Requests -> [Stages -> Nat]]
  BY <1>1, <1>4, PublishType DEF HandleConfirmation
<1>6. state' \in [Requests -> States]
  BY <1>1, <1>3 DEF HandleConfirmation, TypeOK
<1>7. denial' \in [Requests -> [Stages -> Reasons \cup {Null}]]
  BY <1>1, <1>2 DEF HandleConfirmation, TypeOK
<1> QED
  BY <1>1, <1>5, <1>6, <1>7 DEF HandleConfirmation, TypeOK, timers

LEMMA StatusType ==
    ASSUME SagaAssumption, TypeOK, NEW r \in Requests, NEW s \in Stages,
           Status(s, r)
    PROVE  TypeOK'
<1>1. PICK p \in Progress : HandleStatus(s, r, p) /\ WatchForTestingLoop(s, r)
  BY DEF Status
<1>2. {ProgressNotification(r, InProgress(s), p)} \in SUBSET Messages
  BY MessageTypes, StageStates
<1>3. outgoing' \subseteq Messages /\ asked' \in [Requests -> [Stages -> Nat]]
  BY <1>1, <1>2, PublishType DEF HandleStatus
<1>4. loopTimers' \in [Requests -> 0..MaxTimers]
  <2>1. loopTimers \in [Requests -> 0..MaxTimers] /\ MaxTimers \in Nat
    BY DEF TypeOK, SagaAssumption
  <2>2. CASE s = Tests
    <3>1. loopTimers[r] + 1 \in 0..MaxTimers
      BY <1>1, <2>1, <2>2 DEF WatchForTestingLoop
    <3> QED
      BY <1>1, <2>1, <2>2, <3>1 DEF WatchForTestingLoop
  <2>3. CASE s # Tests
    BY <1>1, <2>1, <2>3 DEF WatchForTestingLoop
  <2> QED
    BY <2>2, <2>3
<1> QED
  BY <1>1, <1>3, <1>4, StageStates DEF HandleStatus, TypeOK

LEMMA FinishType ==
    ASSUME SagaAssumption, TypeOK, NEW r \in Requests, NEW s \in Stages,
           Finish(s, r)
    PROVE  TypeOK'
<1>1. PICK o \in Outcomes : HandleFinished(s, r, o.ok, o.reason, o.path)
  BY DEF Finish
<1>2. o.ok \in BOOLEAN /\ o.reason \in Reasons \cup {Null} /\ o.path \in Paths
  BY DEF Outcomes
<1> DEFINE next == IF o.ok THEN Done(s) ELSE Failed
           sent == {Notification(r, next, AnnouncedReason(s, r, o.reason))}
                   \cup (IF o.ok THEN NextRequest(s, r, o.path) ELSE {})
<1>3. next \in States
  BY StageStates
<1>4. AnnouncedReason(s, r, o.reason) \in Reasons \cup {Null}
  BY <1>2 DEF AnnouncedReason, TypeOK, Builds, Stages
<1>5. NextRequest(s, r, o.path) \subseteq Messages
  <2>1. s # Tests => s + 1 \in Stages
    BY DEF Stages, Tests
  <2> QED
    BY <1>2, <2>1, MessageTypes DEF NextRequest, TypeOK
<1>6. sent \in SUBSET Messages
  BY <1>3, <1>4, <1>5, MessageTypes
<1>7. outgoing' \subseteq Messages /\ asked' \in [Requests -> [Stages -> Nat]]
  BY <1>1, <1>6, PublishType DEF HandleFinished
<1>8. LocationAfter(s, r, o.path) \in [Stages -> Paths \cup {Null}]
  BY <1>2 DEF LocationAfter, TypeOK
<1>9. state' \in [Requests -> States]
  BY <1>1, <1>3 DEF HandleFinished, TypeOK
<1>10. success' \in [Requests -> [Stages -> BOOLEAN]]
  BY <1>1, <1>2 DEF HandleFinished, TypeOK
<1>11. failReason' \in [Requests -> [Stages -> Reasons \cup {Null}]]
  BY <1>1, <1>2 DEF HandleFinished, TypeOK
<1>12. location' \in [Requests -> [Stages -> Paths \cup {Null}]]
  BY <1>1, <1>8 DEF HandleFinished, TypeOK
<1> QED
  BY <1>1, <1>7, <1>9, <1>10, <1>11, <1>12 DEF HandleFinished, TypeOK, timers

LEMMA TimeoutType ==
    ASSUME SagaAssumption, TypeOK, NEW r \in Requests, Timeout(r)
    PROVE  TypeOK'
<1>1. \A n \in 0..MaxTimers : OneLess(n) \in 0..MaxTimers
  BY DEF OneLess, SagaAssumption
<1>2. ASSUME TimeoutRestart(r) PROVE TypeOK'
  <2>1. outgoing' \subseteq Messages /\ asked' \in [Requests -> [Stages -> Nat]]
    BY <1>2, PublishType DEF TimeoutRestart
  <2>2. CASE MarkAsComplete(r)
    <3>1. WipeClean(r)
      BY <2>2 DEF MarkAsComplete
    <3> QED
      BY <1>2, <2>1, <2>2, <3>1, WipeCleanType, MarkAsCompleteType
      DEF TimeoutRestart, TypeOK
  <2>3. CASE ~MarkAsComplete(r)
    <3>1. restartTimers' \in [Requests -> 0..MaxTimers]
      BY <1>2, <2>3 DEF TimeoutRestart, TypeOK, SagaAssumption
    <3>2. staleRestartTimers' \in [Requests -> 0..MaxTimers]
      BY <1>1, <1>2, <2>3 DEF TimeoutRestart, TypeOK
    <3>3. UNCHANGED <<requested, sagas, state, source, fields, loopTimers,
                      staleLoopTimers>>
      BY <1>2, <2>3 DEF TimeoutRestart
    <3> QED
      BY <2>1, <3>1, <3>2, <3>3 DEF TypeOK, fields
  <2> QED
    BY <2>2, <2>3
<1>3. ASSUME TimeoutPossibleTestingLoop(r) PROVE TypeOK'
  <2>1. CASE state[r] = InProgress(Tests)
    <3>1. PICK told \in FailedPublishReaches \cup {Stages} :
             Publish(r, Cancellation(r, told)
                        \cup {Notification(r, Cancelled, Null)})
      BY <1>3, <2>1 DEF TimeoutPossibleTestingLoop
    <3>2. Cancellation(r, told) \cup {Notification(r, Cancelled, Null)}
             \in SUBSET Messages
      BY MessageTypes, StageStates DEF SagaAssumption
    <3>3. outgoing' \subseteq Messages
          /\ asked' \in [Requests -> [Stages -> Nat]]
      BY <3>1, <3>2, PublishType
    <3>4. MarkAsComplete(r) /\ WipeClean(r)
      BY <1>3, <2>1 DEF TimeoutPossibleTestingLoop, MarkAsComplete
    <3> QED
      BY <1>3, <3>3, <3>4, WipeCleanType, MarkAsCompleteType
      DEF TimeoutPossibleTestingLoop, TypeOK
  <2>2. CASE state[r] # InProgress(Tests)
    <3>1. outgoing' \subseteq Messages
          /\ asked' \in [Requests -> [Stages -> Nat]]
      BY <1>3, <2>2, PublishType DEF TimeoutPossibleTestingLoop
    <3>2. loopTimers' \in [Requests -> 0..MaxTimers]
      BY <1>3, <2>2 DEF TimeoutPossibleTestingLoop, TypeOK, SagaAssumption
    <3>3. staleLoopTimers' \in [Requests -> 0..MaxTimers]
      <4>1. staleLoopTimers' = [staleLoopTimers EXCEPT
                                  ![r] = OneLess(staleLoopTimers[r])]
        BY <1>3, <2>2 DEF TimeoutPossibleTestingLoop
      <4>2. staleLoopTimers \in [Requests -> 0..MaxTimers]
        BY DEF TypeOK
      <4> QED
        BY <1>1, <4>1, <4>2
    <3>4. UNCHANGED <<requested, sagas, state, source, fields, restartTimers,
                      staleRestartTimers>>
      BY <1>3, <2>2 DEF TimeoutPossibleTestingLoop
    <3> QED
      BY <3>1, <3>2, <3>3, <3>4 DEF TypeOK, fields
  <2> QED
    BY <2>1, <2>2
<1> QED
  BY <1>2, <1>3 DEF Timeout

(* A message of a worker is a confirmation, a status or a result of one of *)
(* the four stages.                                                        *)
LEMMA WorkerMessageCases ==
    ASSUME NEW r, WorkerMessage(r)
    PROVE  \E s \in Stages : Confirmation(s, r) \/ Status(s, r) \/ Finish(s, r)
  BY DEF WorkerMessage, Stages, Validation, Initialization, Builds, Tests,
         HandleValidationRequestConfirmation, HandleValidationStatus,
         HandleValidationFinished, HandleInitializeRequestConfirmation,
         HandleInitializeStatus, HandleInitializeFinished,
         HandleBuildsRequestConfirmation, HandleBuildsStatus,
         HandleBuildsFinished, HandleTestsRequestConfirmation,
         HandleTestsStatus, HandleTestsFinished

LEMMA InitType == ASSUME SagaAssumption, Init PROVE TypeOK
  BY StageStates DEF SagaAssumption, Init, TypeOK, EveryStage

LEMMA NextType ==
    ASSUME SagaAssumption, TypeOK, [Next]_vars
    PROVE  TypeOK'
<1>1. CASE UNCHANGED vars
  BY <1>1 DEF vars, fields, timers, TypeOK
<1>2. CASE Next
  <2>1. PICK r \in Requests : UserCommand(r) \/ WorkerMessage(r) \/ Timeout(r)
    BY <1>2 DEF Next
  <2>2. CASE WorkerMessage(r)
    BY <2>2, WorkerMessageCases, ConfirmationType, StatusType, FinishType
  <2> QED
    BY <2>1, <2>2, UserCommandType, TimeoutType
<1> QED
  BY <1>1, <1>2

(* The variables of the saga keep their types: whatever arrives, the       *)
(* record of a saga, its pending timeouts and what it publishes stay       *)
(* within what TestingRequestData and the message contracts can hold.      *)
THEOREM TypeCorrect == Spec => []TypeOK
<1>1. Init => TypeOK
  BY InitType, SagaAssumption
<1>2. TypeOK /\ [Next]_vars => TypeOK'
  BY NextType, SagaAssumption
<1> QED
  BY <1>1, <1>2, PTL DEF Spec

-----------------------------------------------------------------------------
(* What a handler's messages do to the history of requests                 *)

LEMMA MessageKinds ==
    /\ \A s, r, path : /\ Please(s, r, path).kind = "Please"
                       /\ Please(s, r, path).stage = s
    /\ \A s, r : /\ PleaseCancel(s, r).kind = "PleaseCancel"
                 /\ PleaseCancel(s, r).worker = s
    /\ \A r, st, text : Notification(r, st, text).kind
                           \notin {"Please", "PleaseCancel"}
    /\ \A r, st, p : ProgressNotification(r, st, p).kind
                        \notin {"Please", "PleaseCancel"}
  BY DEF Please, PleaseCancel, Notification, ProgressNotification

LEMMA CancellationMembers ==
    ASSUME NEW r, NEW told
    PROVE  /\ \A t : PleaseCancel(t, r) \in Cancellation(r, told) <=> t \in told
           /\ \A m \in Cancellation(r, told) : m.kind = "PleaseCancel"
  BY MessageKinds DEF Cancellation

LEMMA PublishAsked ==
    ASSUME TypeOK, NEW r \in Requests, NEW sent, Publish(r, sent)
    PROVE  \A q \in Requests, t \in Stages :
              asked'[q][t] = IF q = r THEN AskedAfter(sent, t, r)
                             ELSE asked[q][t]
  BY DEF TypeOK, Publish

(* Publishing a notification, or nothing, asks and cancels nothing.        *)
LEMMA NotificationAsksNothing ==
    ASSUME TypeOK, NEW r \in Requests, NEW sent, Publish(r, sent),
           \A m \in sent : m.kind \notin {"Please", "PleaseCancel"}
    PROVE  \A q \in Requests, t \in Stages : asked'[q][t] = asked[q][t]
<1>1. \A t \in Stages : ~Asks(sent, t, r)
  BY MessageKinds DEF Asks
<1>2. \A t \in Stages : PleaseCancel(t, r) \notin sent
  BY MessageKinds
<1>3. \A t \in Stages : asked[r][t] \in Nat
  BY DEF TypeOK
<1> QED
  BY <1>1, <1>2, <1>3, PublishAsked DEF AskedAfter

(* Telling workers to cancel resets their history, and only theirs.        *)
LEMMA CancellationResets ==
    ASSUME TypeOK, NEW r \in Requests, NEW told, NEW sent, Publish(r, sent),
           \A t \in Stages : PleaseCancel(t, r) \in sent <=> t \in told,
           \A m \in sent : m.kind # "Please"
    PROVE  \A q \in Requests, t \in Stages :
              asked'[q][t] = IF q = r /\ t \in told THEN 0 ELSE asked[q][t]
<1>1. \A t \in Stages : ~Asks(sent, t, r)
  BY MessageKinds DEF Asks
<1>2. \A t \in Stages : asked[r][t] \in Nat
  BY DEF TypeOK
<1> QED
  BY <1>1, <1>2, PublishAsked DEF AskedAfter

-----------------------------------------------------------------------------
(* What each step does to the history of requests                          *)

LEMMA SubmitAsks ==
    ASSUME TypeOK, NEW r \in Requests, NEW path \in Paths,
           HandlePleaseDoTests(r, path)
    PROVE  \A q \in Requests, t \in Stages :
              asked'[q][t] = IF q # r THEN asked[q][t]
                             ELSE asked[r][t]
                                  + (IF t = Validation THEN 1 ELSE 0)
<1> DEFINE sent == {Notification(r, TestingRequested, Null),
                    Please(Validation, r, Null)}
<1>1. Publish(r, sent)
  BY DEF HandlePleaseDoTests
<1>2. \A t \in Stages : PleaseCancel(t, r) \notin sent
  BY MessageKinds
<1>3. \A t \in Stages : Asks(sent, t, r) <=> t = Validation
  BY MessageKinds DEF Asks
<1> HIDE DEF sent
<1> QED
  BY <1>1, <1>2, <1>3, PublishAsked DEF AskedAfter

LEMMA CancelAsks ==
    ASSUME TypeOK, NEW r \in Requests, HandlePleaseCancelTests(r)
    PROVE  \A q \in Requests, t \in Stages :
              asked'[q][t] = IF q = r THEN 0 ELSE asked[q][t]
<1> DEFINE sent == Cancellation(r, Stages)
                   \cup {Notification(r, Cancelled, Null)}
<1>1. Publish(r, sent)
  BY DEF HandlePleaseCancelTests
<1>2. /\ \A t \in Stages : PleaseCancel(t, r) \in sent <=> t \in Stages
      /\ \A m \in sent : m.kind # "Please"
  BY MessageKinds, CancellationMembers
<1> HIDE DEF sent
<1>3. \A q \in Requests, t \in Stages :
         asked'[q][t] = IF q = r /\ t \in Stages THEN 0 ELSE asked[q][t]
  BY <1>1, <1>2, CancellationResets
<1> QED
  BY <1>3

LEMMA RestartAsks ==
    ASSUME TypeOK, NEW r \in Requests, HandlePleaseRestart(r)
    PROVE  \A q \in Requests, t \in Stages :
              asked'[q][t] = IF q # r THEN asked[q][t]
                             ELSE IF t = Validation THEN 1 ELSE 0
<1> DEFINE sent == Cancellation(r, Stages)
                   \cup {Notification(r, TestingRequested, Null),
                         Please(Validation, r, Null)}
<1>1. Publish(r, sent)
  BY DEF HandlePleaseRestart
<1>2. \A t \in Stages : PleaseCancel(t, r) \in sent
  BY CancellationMembers
<1>3. \A t \in Stages : Asks(sent, t, r) <=> t = Validation
  BY MessageKinds, CancellationMembers DEF Asks
<1> HIDE DEF sent
<1> QED
  BY <1>1, <1>2, <1>3, PublishAsked DEF AskedAfter

(* A confirmation and a status ask nothing, and leave the stage at work or *)
(* fail the saga.                                                          *)
LEMMA ReportAsks ==
    ASSUME TypeOK, NEW r \in Requests, NEW s \in Stages,
           Confirmation(s, r) \/ Status(s, r)
    PROVE  /\ r \in sagas
           /\ UNCHANGED <<requested, sagas>>
           /\ state[r] \in AtWork(s)
           /\ state'[r] \in AtWork(s) \cup {Failed}
           /\ \A q \in Requests : q # r => state'[q] = state[q]
           /\ \A q \in Requests, t \in Stages : asked'[q][t] = asked[q][t]
<1>1. /\ r \in sagas
      /\ requested' = requested /\ sagas' = sagas
      /\ state[r] \in AtWork(s)
      /\ \E st \in AtWork(s) \cup {Failed} :
            state' = [state EXCEPT ![r] = st]
      /\ \E sent : /\ Publish(r, sent)
                   /\ \A m \in sent : m.kind \notin {"Please", "PleaseCancel"}
  <2>1. CASE Confirmation(s, r)
    <3>1. PICK c \in Confirmations :
             HandleConfirmation(s, r, c.will, c.reason)
      BY <2>1 DEF Confirmation
    <3> DEFINE next == IF c.will THEN Started(s) ELSE Failed
    <3>2. \A m \in {Notification(r, next, c.reason)} :
             m.kind \notin {"Please", "PleaseCancel"}
      BY MessageKinds
    <3>3. next \in AtWork(s) \cup {Failed}
      BY DEF AtWork
    <3>4. /\ r \in sagas /\ state[r] \in AtWork(s)
          /\ requested' = requested /\ sagas' = sagas
          /\ state' = [state EXCEPT ![r] = next]
          /\ Publish(r, {Notification(r, next, c.reason)})
      BY <3>1 DEF HandleConfirmation, AcceptsConfirmation, AtWork
    <3> HIDE DEF next
    <3>5. \E sent : /\ Publish(r, sent)
                    /\ \A m \in sent :
                          m.kind \notin {"Please", "PleaseCancel"}
      BY <3>2, <3>4
    <3> QED
      BY <3>3, <3>4, <3>5
  <2>2. CASE Status(s, r)
    <3>1. PICK p \in Progress : HandleStatus(s, r, p)
      BY <2>2 DEF Status
    <3>2. \A m \in {ProgressNotification(r, InProgress(s), p)} :
             m.kind \notin {"Please", "PleaseCancel"}
      BY MessageKinds
    <3> QED
      BY <3>1, <3>2 DEF HandleStatus, AcceptsStatus, AtWork
  <2> QED
    BY <2>1, <2>2
<1>2. \A q \in Requests : q # r => state'[q] = state[q]
  BY <1>1 DEF TypeOK
<1>3. state'[r] \in AtWork(s) \cup {Failed}
  BY <1>1 DEF TypeOK
<1>4. \A q \in Requests, t \in Stages : asked'[q][t] = asked[q][t]
  BY <1>1, NotificationAsksNothing
<1> QED
  BY <1>1, <1>2, <1>3, <1>4

(* A stage that finishes well asks for the next one, and nothing else.     *)
LEMMA FinishAsks ==
    ASSUME TypeOK, NEW r \in Requests, NEW s \in Stages, Finish(s, r)
    PROVE  \E ok \in BOOLEAN :
              /\ r \in sagas
              /\ UNCHANGED <<requested, sagas>>
              /\ state[r] \in AtWork(s)
              /\ \A q \in Requests :
                    state'[q] = IF q # r THEN state[q]
                                ELSE IF ok THEN Done(s) ELSE Failed
              /\ \A q \in Requests, t \in Stages :
                    asked'[q][t] =
                        IF q = r /\ ok /\ s # Tests /\ t = s + 1
                        THEN asked[q][t] + 1 ELSE asked[q][t]
<1>1. PICK o \in Outcomes : HandleFinished(s, r, o.ok, o.reason, o.path)
  BY DEF Finish
<1> DEFINE next == IF o.ok THEN Done(s) ELSE Failed
           rest == {Notification(r, next, AnnouncedReason(s, r, o.reason))}
<1>2. /\ r \in sagas
      /\ UNCHANGED <<requested, sagas>>
      /\ state[r] \in AtWork(s)
      /\ state' = [state EXCEPT ![r] = next]
      /\ Publish(r, rest \cup (IF o.ok THEN NextRequest(s, r, o.path) ELSE {}))
  BY <1>1 DEF HandleFinished, AcceptsFinished, AtWork
<1>3. \A q \in Requests : state'[q] = IF q = r THEN next ELSE state[q]
  BY <1>2 DEF TypeOK
<1>4. \A m \in rest : m.kind \notin {"Please", "PleaseCancel"}
  BY MessageKinds
<1>5. o.ok \in BOOLEAN
  BY DEF Outcomes
<1>6. \A q \in Requests, t \in Stages :
         asked'[q][t] = IF q = r /\ o.ok /\ s # Tests /\ t = s + 1
                        THEN asked[q][t] + 1 ELSE asked[q][t]
  <2>1. CASE o.ok /\ s # Tests
    <3>1. PICK path \in Paths \cup {Null} :
             NextRequest(s, r, o.path) = {Please(s + 1, r, path)}
      BY <2>1 DEF NextRequest, TypeOK, Outcomes
    <3> DEFINE sent == rest \cup {Please(s + 1, r, path)}
    <3>2. Publish(r, sent)
      BY <1>2, <2>1, <3>1
    <3>3. \A t \in Stages : PleaseCancel(t, r) \notin sent
      BY <1>4, MessageKinds
    <3>4. \A t \in Stages : Asks(sent, t, r) <=> t = s + 1
      BY <1>4, MessageKinds DEF Asks
    <3> HIDE DEF sent
    <3>5. \A t \in Stages : asked[r][t] \in Nat
      BY DEF TypeOK
    <3>6. \A q \in Requests, t \in Stages :
             asked'[q][t] = IF q # r THEN asked[q][t]
                            ELSE asked[r][t] + (IF t = s + 1 THEN 1 ELSE 0)
      BY <3>2, <3>3, <3>4, PublishAsked DEF AskedAfter
    <3> QED
      BY <2>1, <3>5, <3>6
  <2>2. CASE ~(o.ok /\ s # Tests)
    <3>1. Publish(r, rest)
      <4>1. rest \cup {} = rest
        OBVIOUS
      <4> QED
        BY <1>2, <2>2, <4>1 DEF NextRequest
    <3>2. \A q \in Requests, t \in Stages : asked'[q][t] = asked[q][t]
      BY <1>4, <3>1, NotificationAsksNothing
    <3> QED
      BY <2>2, <3>2
  <2> QED
    BY <2>1, <2>2
<1> WITNESS o.ok \in BOOLEAN
<1> QED
  BY <1>2, <1>3, <1>6

(* A timeout asks nothing; it cancels, or leaves the saga as it is.        *)
LEMMA TimeoutAsks ==
    ASSUME SagaAssumption, TypeOK, NEW r \in Requests, Timeout(r)
    PROVE  /\ r \in sagas /\ sagas' \subseteq sagas
           /\ requested' = requested
           /\ \A q \in Requests : q # r => state'[q] = state[q]
           /\ r \in sagas' => state'[r] = state[r]
           /\ \A q \in Requests, t \in Stages :
                 \/ asked'[q][t] = asked[q][t]
                 \/ q = r /\ asked'[q][t] = 0 /\ r \notin sagas'
<1>1. \/ MarkAsComplete(r)
      \/ Publish(r, {}) /\ UNCHANGED <<sagas, state>>
  BY DEF Timeout, TimeoutRestart, TimeoutPossibleTestingLoop
<1>2. r \in sagas /\ requested' = requested
  BY DEF Timeout, TimeoutRestart, TimeoutPossibleTestingLoop
<1>3. \/ Publish(r, {})
      \/ \E told \in SUBSET Stages :
            Publish(r, Cancellation(r, told)
                       \cup {Notification(r, Cancelled, Null)})
  BY DEF Timeout, TimeoutRestart, TimeoutPossibleTestingLoop, SagaAssumption
<1>4. \A q \in Requests, t \in Stages :
         \/ asked'[q][t] = asked[q][t]
         \/ q = r /\ asked'[q][t] = 0
  <2>1. CASE Publish(r, {})
    <3>1. \A q \in Requests, t \in Stages : asked'[q][t] = asked[q][t]
      BY <2>1, NotificationAsksNothing
    <3> QED
      BY <3>1
  <2>2. ASSUME NEW told \in SUBSET Stages,
               Publish(r, Cancellation(r, told)
                          \cup {Notification(r, Cancelled, Null)})
        PROVE  \A q \in Requests, t \in Stages :
                  \/ asked'[q][t] = asked[q][t]
                  \/ q = r /\ asked'[q][t] = 0
    <3> DEFINE sent == Cancellation(r, told)
                       \cup {Notification(r, Cancelled, Null)}
    <3>1. /\ \A t \in Stages : PleaseCancel(t, r) \in sent <=> t \in told
          /\ \A m \in sent : m.kind # "Please"
      BY MessageKinds, CancellationMembers
    <3>2. Publish(r, sent)
      BY <2>2
    <3> HIDE DEF sent
    <3>3. \A q \in Requests, t \in Stages :
             asked'[q][t] = IF q = r /\ t \in told THEN 0 ELSE asked[q][t]
      BY <3>1, <3>2, CancellationResets
    <3> QED
      BY <3>3
  <2> QED
    BY <1>3, <2>1, <2>2
<1>5. CASE MarkAsComplete(r)
  <2>1. sagas' = sagas \ {r} /\ \A q \in Requests : q # r => state'[q] = state[q]
    BY <1>5 DEF MarkAsComplete, TypeOK
  <2> QED
    BY <1>2, <1>4, <2>1
<1>6. CASE Publish(r, {}) /\ UNCHANGED <<sagas, state>>
  <2>1. \A q \in Requests, t \in Stages : asked'[q][t] = asked[q][t]
    BY <1>6, NotificationAsksNothing
  <2> QED
    BY <1>2, <1>6, <2>1
<1> QED
  BY <1>1, <1>5, <1>6

-----------------------------------------------------------------------------
(* No worker is asked twice in a run                                       *)

(* The stage at work is the one the state names.                           *)
LEMMA AtWorkUnique ==
    ASSUME NEW f \in Stages, NEW s \in Stages
    PROVE  /\ AtWork(f) \cap AtWork(s) # {} => f = s
           /\ Done(s) \in AtWork(f) <=> f = s + 1
           /\ TestingRequested \in AtWork(f) <=> f = Validation
           /\ Failed \notin AtWork(f) /\ Cancelled \notin AtWork(f)
           /\ {Awaited(f), Started(f), InProgress(f)} \subseteq AtWork(f)
  BY DEF AtWork, Stages, Awaited, Started, InProgress, Done, TestingRequested,
         Validation, Failed, Cancelled

(* AskedInv survives a step about r if it survives for r.                  *)
LEMMA AskedStep ==
    ASSUME TypeOK, AskedInv, NEW r \in Requests,
           r \in requested', requested \subseteq requested',
           sagas' \subseteq sagas \cup {r},
           \A q \in Requests : q # r =>
              /\ state'[q] = state[q]
              /\ \A t \in Stages : asked'[q][t] = asked[q][t],
           \A t \in Stages : asked'[r][t] <= 1,
           r \in sagas' => \A f \in Stages : state'[r] \in AtWork(f) =>
              \A t \in Stages : t > f => asked'[r][t] = 0
    PROVE  AskedInv'
<1>1. AskedOncePerRun'
  BY DEF AskedInv, AskedOncePerRun
<1>2. \A q \in Requests \ requested', t \in Stages : asked'[q][t] = 0
  BY DEF AskedInv
<1>3. \A q \in sagas', f \in Stages :
         state'[q] \in AtWork(f) => \A t \in Stages : t > f => asked'[q][t] = 0
  <2> SUFFICES ASSUME NEW q \in sagas', NEW f \in Stages,
                      state'[q] \in AtWork(f), NEW t \in Stages, t > f
               PROVE  asked'[q][t] = 0
    OBVIOUS
  <2>1. CASE q = r
    BY <2>1
  <2>2. CASE q # r
    BY <2>2 DEF AskedInv, TypeOK
  <2> QED
    BY <2>1, <2>2
<1> QED
  BY <1>1, <1>2, <1>3 DEF AskedInv

LEMMA InitAsked == ASSUME Init PROVE AskedInv
  BY DEF Init, AskedInv, AskedOncePerRun, EveryStage

LEMMA NextAsked ==
    ASSUME SagaAssumption, TypeOK, AskedInv, [Next]_vars
    PROVE  AskedInv'
<1>0. /\ sagas \subseteq requested
      /\ requested \subseteq Requests
      /\ \A q \in Requests, t \in Stages : asked[q][t] <= 1
      /\ \A q \in Requests, t \in Stages : asked[q][t] \in Nat
      /\ \A q \in sagas, f \in Stages : state[q] \in AtWork(f) =>
            \A t \in Stages : t > f => asked[q][t] = 0
  BY DEF TypeOK, AskedInv, AskedOncePerRun
<1>1. CASE UNCHANGED vars
  BY <1>1 DEF vars, AskedInv, AskedOncePerRun
<1>2. ASSUME NEW r \in Requests, NEW path \in Paths, HandlePleaseDoTests(r, path)
      PROVE  AskedInv'
  <2>1. \A q \in Requests, t \in Stages :
           asked'[q][t] = IF q # r THEN asked[q][t]
                          ELSE asked[r][t]
                               + (IF t = Validation THEN 1 ELSE 0)
    BY <1>2, SubmitAsks
  <2>2. \A t \in Stages : asked[r][t] = 0
    BY <1>2 DEF HandlePleaseDoTests, AskedInv
  <2>3. \A q \in Requests : state'[q] = IF q = r THEN TestingRequested
                                        ELSE state[q]
    BY <1>2 DEF HandlePleaseDoTests, TypeOK
  <2>4. \A t \in Stages : /\ asked'[r][t] <= 1
                          /\ t > Validation => asked'[r][t] = 0
    BY <2>1, <2>2 DEF Validation
  <2>5. /\ r \in requested' /\ requested \subseteq requested'
        /\ sagas' \subseteq sagas \cup {r}
    BY <1>2 DEF HandlePleaseDoTests
  <2>6. \A f \in Stages : state'[r] \in AtWork(f) => f = Validation
    BY <2>3, AtWorkUnique
  <2> QED
    BY <2>1, <2>3, <2>4, <2>5, <2>6, AskedStep
<1>3. ASSUME NEW r \in Requests, StopAllOperationsFails(r) PROVE AskedInv'
  <2>1. PICK told \in FailedPublishReaches : Publish(r, Cancellation(r, told))
    BY <1>3 DEF StopAllOperationsFails
  <2>2. \A q \in Requests, t \in Stages :
           asked'[q][t] = IF q = r /\ t \in told THEN 0 ELSE asked[q][t]
    BY <2>1, CancellationMembers, CancellationResets
  <2>3. r \in sagas /\ UNCHANGED <<requested, sagas, state>>
    BY <1>3 DEF StopAllOperationsFails
  <2> QED
    BY <1>0, <2>2, <2>3, AskedStep
<1>4. ASSUME NEW r \in Requests, HandlePleaseCancelTests(r) PROVE AskedInv'
  <2>1. \A q \in Requests, t \in Stages :
           asked'[q][t] = IF q = r THEN 0 ELSE asked[q][t]
    BY <1>4, CancelAsks
  <2>2. \A q \in Requests : q # r => state'[q] = state[q]
    BY <1>4 DEF HandlePleaseCancelTests, TypeOK
  <2>3. r \in sagas /\ UNCHANGED <<requested, sagas>>
    BY <1>4 DEF HandlePleaseCancelTests
  <2> QED
    BY <1>0, <2>1, <2>2, <2>3, AskedStep
<1>5. ASSUME NEW r \in Requests, HandlePleaseRestart(r) PROVE AskedInv'
  <2>1. \A q \in Requests, t \in Stages :
           asked'[q][t] = IF q # r THEN asked[q][t]
                          ELSE IF t = Validation THEN 1 ELSE 0
    BY <1>5, RestartAsks
  <2>2. \A q \in Requests : state'[q] = IF q = r THEN TestingRequested
                                        ELSE state[q]
    BY <1>5 DEF HandlePleaseRestart, TypeOK
  <2>3. \A t \in Stages : /\ asked'[r][t] <= 1
                          /\ t > Validation => asked'[r][t] = 0
    BY <2>1 DEF Validation
  <2>4. \A f \in Stages : state'[r] \in AtWork(f) => f = Validation
    BY <2>2, AtWorkUnique
  <2>5. r \in sagas /\ UNCHANGED <<requested, sagas>>
    BY <1>5 DEF HandlePleaseRestart
  <2> QED
    BY <1>0, <2>1, <2>2, <2>3, <2>4, <2>5, AskedStep
<1>6. ASSUME NEW r \in Requests, NEW s \in Stages,
             Confirmation(s, r) \/ Status(s, r)
      PROVE  AskedInv'
  <2>1. /\ r \in sagas
        /\ UNCHANGED <<requested, sagas>>
        /\ state[r] \in AtWork(s)
        /\ state'[r] \in AtWork(s) \cup {Failed}
        /\ \A q \in Requests : q # r => state'[q] = state[q]
        /\ \A q \in Requests, t \in Stages : asked'[q][t] = asked[q][t]
    BY <1>6, ReportAsks
  <2>2. \A f \in Stages : state'[r] \in AtWork(f) => f = s
    BY <2>1, AtWorkUnique
  <2>3. \A t \in Stages : /\ asked[r][t] <= 1
                          /\ t > s => asked[r][t] = 0
    BY <1>0, <2>1
  <2> QED
    BY <1>0, <2>1, <2>2, <2>3, AskedStep
<1>7. ASSUME NEW r \in Requests, NEW s \in Stages, Finish(s, r)
      PROVE  AskedInv'
  <2>1. PICK ok \in BOOLEAN :
           /\ r \in sagas
           /\ UNCHANGED <<requested, sagas>>
           /\ state[r] \in AtWork(s)
           /\ \A q \in Requests :
                 state'[q] = IF q # r THEN state[q]
                             ELSE IF ok THEN Done(s) ELSE Failed
           /\ \A q \in Requests, t \in Stages :
                 asked'[q][t] =
                     IF q = r /\ ok /\ s # Tests /\ t = s + 1
                     THEN asked[q][t] + 1 ELSE asked[q][t]
    BY <1>7, FinishAsks
  <2>2. \A t \in Stages : /\ asked[r][t] <= 1
                          /\ t > s => asked[r][t] = 0
    BY <1>0, <2>1
  <2>3. \A f \in Stages : state'[r] \in AtWork(f) => ok /\ f = s + 1
    BY <2>1, AtWorkUnique
  <2>4. \A t \in Stages : asked'[r][t] <= 1
    <3> SUFFICES ASSUME NEW t \in Stages PROVE asked'[r][t] <= 1
      OBVIOUS
    <3>1. t = s + 1 => t > s
      BY DEF Stages
    <3> QED
      BY <1>0, <2>1, <2>2, <3>1
  <2>5. \A t \in Stages : t > s + 1 => asked'[r][t] = 0
    <3> SUFFICES ASSUME NEW t \in Stages, t > s + 1 PROVE asked'[r][t] = 0
      OBVIOUS
    <3>1. t > s /\ t # s + 1
      BY DEF Stages
    <3> QED
      BY <2>1, <2>2, <3>1
  <2> QED
    BY <1>0, <2>1, <2>3, <2>4, <2>5, AskedStep
<1>8. ASSUME NEW r \in Requests, Timeout(r) PROVE AskedInv'
  <2>1. /\ r \in sagas /\ sagas' \subseteq sagas
        /\ requested' = requested
        /\ \A q \in Requests : q # r => state'[q] = state[q]
        /\ r \in sagas' => state'[r] = state[r]
        /\ \A q \in Requests, t \in Stages :
              \/ asked'[q][t] = asked[q][t]
              \/ q = r /\ asked'[q][t] = 0 /\ r \notin sagas'
    BY <1>8, TimeoutAsks
  <2>2. \A t \in Stages : asked'[r][t] <= 1
    BY <1>0, <2>1
  <2>3. r \in sagas' => \A f \in Stages : state'[r] \in AtWork(f) =>
           \A t \in Stages : t > f => asked'[r][t] = 0
    BY <1>0, <2>1
  <2> QED
    BY <1>0, <2>1, <2>2, <2>3, AskedStep
<1>9. CASE Next
  <2>1. PICK r \in Requests : UserCommand(r) \/ WorkerMessage(r) \/ Timeout(r)
    BY <1>9 DEF Next
  <2>2. CASE UserCommand(r)
    BY <2>2, <1>2, <1>3, <1>4, <1>5 DEF UserCommand
  <2>3. CASE WorkerMessage(r)
    BY <2>3, WorkerMessageCases, <1>6, <1>7
  <2> QED
    BY <2>1, <2>2, <2>3, <1>8
<1> QED
  BY <1>1, <1>9

(* A worker gets at most one request for each run of a TestingRequestSaga, *)
(* however its statuses and results are delayed, repeated or reordered and *)
(* however often the user cancels and restarts.                            *)
THEOREM AskedOnce == Spec => []AskedOncePerRun
<1>1. Init => TypeOK /\ AskedInv
  BY InitType, InitAsked, SagaAssumption
<1>2. TypeOK /\ AskedInv /\ [Next]_vars => (TypeOK /\ AskedInv)'
  BY NextType, NextAsked, SagaAssumption
<1>3. AskedInv => AskedOncePerRun
  BY DEF AskedInv
<1> QED
  BY <1>1, <1>2, <1>3, PTL DEF Spec

-----------------------------------------------------------------------------
(* A timeout is pending where one is needed                                *)

LEMMA InitPending == ASSUME Init PROVE TimeoutIsPending
  BY DEF Init, TimeoutIsPending

LEMMA NextPending ==
    ASSUME SagaAssumption, TypeOK, TimeoutIsPending, [Next]_vars
    PROVE  TimeoutIsPending'
<1> USE DEF TimeoutIsPending
<1>0. /\ \A s \in Stages : InProgress(s) # Cancelled
      /\ \A s \in Stages : InProgress(s) = InProgress(Tests) => s = Tests
      /\ \A s \in Stages : {Started(s), Done(s), Failed, TestingRequested}
                              \cap {Cancelled, InProgress(Tests)} = {}
      /\ Tests \in Stages
  BY DEF Stages, Tests, Started, InProgress, Done, Failed, Cancelled,
         TestingRequested
<1>1. CASE UNCHANGED vars
  BY <1>1 DEF vars, timers
<1>2. ASSUME NEW r \in Requests, UserCommand(r) PROVE TimeoutIsPending'
  <2>1. ASSUME NEW path \in Paths, HandlePleaseDoTests(r, path)
        PROVE  TimeoutIsPending'
    <3>1. \A q \in Requests : state'[q] = IF q = r THEN TestingRequested
                                          ELSE state[q]
      BY <2>1 DEF HandlePleaseDoTests, TypeOK
    <3>2. /\ sagas' = sagas \cup {r}
          /\ UNCHANGED <<restartTimers, loopTimers>>
      BY <2>1 DEF HandlePleaseDoTests, timers
    <3>3. sagas \subseteq Requests
      BY DEF TypeOK
    <3>4. TestingRequested \notin {Cancelled, InProgress(Tests)}
      BY DEF TestingRequested, Cancelled, InProgress, Tests
    <3> QED
      BY <3>1, <3>2, <3>3, <3>4
  <2>2. CASE StopAllOperationsFails(r)
    BY <2>2 DEF StopAllOperationsFails, timers
  <2>3. CASE HandlePleaseCancelTests(r)
    <3>1. restartTimers'[r] > 0
      BY <2>3 DEF HandlePleaseCancelTests, RequestRestartTimeout, TypeOK
    <3>2. \A q \in sagas : q # r => /\ restartTimers'[q] = restartTimers[q]
                                    /\ state'[q] = state[q]
      BY <2>3 DEF HandlePleaseCancelTests, RequestRestartTimeout, TypeOK
    <3>3. state'[r] = Cancelled /\ sagas' = sagas /\ loopTimers' = loopTimers
      BY <2>3 DEF HandlePleaseCancelTests, TypeOK
    <3> QED
      BY <1>0, <3>1, <3>2, <3>3
  <2>4. CASE HandlePleaseRestart(r)
    BY <2>4, <1>0 DEF HandlePleaseRestart, TypeOK
  <2> QED
    BY <1>2, <2>1, <2>2, <2>3, <2>4 DEF UserCommand
<1>3. ASSUME NEW r \in Requests, NEW s \in Stages, Confirmation(s, r)
      PROVE  TimeoutIsPending'
  BY <1>3, <1>0 DEF Confirmation, HandleConfirmation, TypeOK, timers
<1>4. ASSUME NEW r \in Requests, NEW s \in Stages, Status(s, r)
      PROVE  TimeoutIsPending'
  <2>1. /\ state' = [state EXCEPT ![r] = InProgress(s)]
        /\ UNCHANGED <<sagas, restartTimers>>
        /\ WatchForTestingLoop(s, r)
    BY <1>4 DEF Status, HandleStatus
  <2>2. \A q \in Requests : q # r => loopTimers'[q] = loopTimers[q]
    BY <2>1 DEF WatchForTestingLoop, TypeOK
  <2>3. s = Tests => loopTimers'[r] > 0
    BY <2>1 DEF WatchForTestingLoop, TypeOK
  <2> QED
    BY <1>0, <2>1, <2>2, <2>3 DEF TypeOK
<1>5. ASSUME NEW r \in Requests, NEW s \in Stages, Finish(s, r)
      PROVE  TimeoutIsPending'
  <2>1. PICK next \in {Done(s), Failed} :
           /\ state' = [state EXCEPT ![r] = next]
           /\ UNCHANGED <<sagas, restartTimers, loopTimers>>
    BY <1>5 DEF Finish, HandleFinished, timers
  <2> QED
    BY <1>0, <2>1 DEF TypeOK
<1>6. ASSUME NEW r \in Requests, TimeoutRestart(r) PROVE TimeoutIsPending'
  <2>1. CASE state[r] = Cancelled
    <3>1. MarkAsComplete(r)
      BY <1>6, <2>1 DEF TimeoutRestart
    <3> QED
      BY <3>1 DEF MarkAsComplete, TypeOK
  <2>2. CASE state[r] # Cancelled
    BY <1>6, <2>2 DEF TimeoutRestart, TypeOK
  <2> QED
    BY <2>1, <2>2
<1>7. ASSUME NEW r \in Requests, TimeoutPossibleTestingLoop(r)
      PROVE  TimeoutIsPending'
  <2>1. CASE state[r] = InProgress(Tests)
    <3>1. MarkAsComplete(r)
      BY <1>7, <2>1 DEF TimeoutPossibleTestingLoop
    <3> QED
      BY <3>1 DEF MarkAsComplete, TypeOK
  <2>2. CASE state[r] # InProgress(Tests)
    BY <1>7, <2>2 DEF TimeoutPossibleTestingLoop, TypeOK
  <2> QED
    BY <2>1, <2>2
<1>8. CASE Next
  <2>1. PICK r \in Requests : UserCommand(r) \/ WorkerMessage(r) \/ Timeout(r)
    BY <1>8 DEF Next
  <2>2. CASE WorkerMessage(r)
    BY <2>2, WorkerMessageCases, <1>3, <1>4, <1>5
  <2> QED
    BY <2>1, <2>2, <1>2, <1>6, <1>7 DEF Timeout
<1> QED
  BY <1>1, <1>8

(* No cancelled saga is left without the RestartTimeout that ends it, and  *)
(* no saga runs tests without the PossibleTestingLoop that stops them.     *)
THEOREM TimeoutPending == Spec => []TimeoutIsPending
<1>1. Init => TypeOK /\ TimeoutIsPending
  BY InitType, InitPending, SagaAssumption
<1>2. TypeOK /\ TimeoutIsPending /\ [Next]_vars => (TypeOK /\ TimeoutIsPending)'
  BY NextType, NextPending, SagaAssumption
<1> QED
  BY <1>1, <1>2, PTL DEF Spec

-----------------------------------------------------------------------------
(* A saga only waits for a worker that has its request                     *)

(* WaitsForAskedWorker survives a step about r if it survives for r.       *)
LEMMA WaitingStep ==
    ASSUME TypeOK, WaitsForAskedWorker, NEW r \in Requests,
           sagas' \subseteq sagas \cup {r},
           \A q \in Requests : q # r =>
              /\ state'[q] = state[q]
              /\ \A t \in Stages : asked'[q][t] = asked[q][t],
           r \in sagas' => \A f \in Stages :
              state'[r] \in AtWork(f) => asked'[r][f] = 1
    PROVE  WaitsForAskedWorker'
<1> SUFFICES ASSUME NEW q \in sagas', NEW f \in Stages, state'[q] \in AtWork(f)
             PROVE  asked'[q][f] = 1
  BY DEF WaitsForAskedWorker
<1>1. CASE q = r
  BY <1>1
<1>2. CASE q # r
  BY <1>2 DEF WaitsForAskedWorker, TypeOK
<1> QED
  BY <1>1, <1>2

LEMMA InitWaiting == ASSUME Init PROVE WaitsForAskedWorker
  BY DEF Init, WaitsForAskedWorker

LEMMA CommandWaiting ==
    ASSUME SagaAssumption, FailedPublishReaches = {{}}, TypeOK, AskedInv,
           WaitsForAskedWorker, NEW r \in Requests, UserCommand(r)
    PROVE  WaitsForAskedWorker'
<1>0. \A f \in Stages : r \in sagas /\ state[r] \in AtWork(f) => asked[r][f] = 1
  BY DEF WaitsForAskedWorker
<1>1. ASSUME NEW path \in Paths, HandlePleaseDoTests(r, path)
      PROVE  WaitsForAskedWorker'
  <2>1. \A q \in Requests, t \in Stages :
           asked'[q][t] = IF q # r THEN asked[q][t]
                          ELSE asked[r][t]
                               + (IF t = Validation THEN 1 ELSE 0)
    BY <1>1, SubmitAsks
  <2>2. asked[r][Validation] = 0
    BY <1>1 DEF HandlePleaseDoTests, AskedInv, Validation, Stages
  <2>3. \A q \in Requests : state'[q] = IF q = r THEN TestingRequested
                                        ELSE state[q]
    BY <1>1 DEF HandlePleaseDoTests, TypeOK
  <2>4. sagas' \subseteq sagas \cup {r}
    BY <1>1 DEF HandlePleaseDoTests
  <2>5. asked'[r][Validation] = 1
    BY <2>1, <2>2 DEF Validation, Stages
  <2>6. \A f \in Stages : state'[r] \in AtWork(f) => f = Validation
    BY <2>3, AtWorkUnique
  <2> QED
    BY <2>1, <2>3, <2>4, <2>5, <2>6, WaitingStep
<1>2. ASSUME StopAllOperationsFails(r) PROVE WaitsForAskedWorker'
  <2>1. Publish(r, Cancellation(r, {})) /\ UNCHANGED <<sagas, state>>
    BY <1>2 DEF StopAllOperationsFails
  <2>2. \A m \in Cancellation(r, {}) : m.kind \notin {"Please", "PleaseCancel"}
    BY DEF Cancellation
  <2>3. \A q \in Requests, t \in Stages : asked'[q][t] = asked[q][t]
    BY <2>1, <2>2, NotificationAsksNothing
  <2> QED
    BY <1>0, <2>1, <2>3, WaitingStep
<1>3. ASSUME HandlePleaseCancelTests(r) PROVE WaitsForAskedWorker'
  <2>1. \A q \in Requests, t \in Stages :
           asked'[q][t] = IF q = r THEN 0 ELSE asked[q][t]
    BY <1>3, CancelAsks
  <2>2. /\ sagas' = sagas
        /\ \A q \in Requests : state'[q] = IF q = r THEN Cancelled ELSE state[q]
    BY <1>3 DEF HandlePleaseCancelTests, TypeOK
  <2>3. \A f \in Stages : state'[r] \notin AtWork(f)
    BY <2>2, AtWorkUnique
  <2> QED
    BY <2>1, <2>2, <2>3, WaitingStep
<1>4. ASSUME HandlePleaseRestart(r) PROVE WaitsForAskedWorker'
  <2>1. \A q \in Requests, t \in Stages :
           asked'[q][t] = IF q # r THEN asked[q][t]
                          ELSE IF t = Validation THEN 1 ELSE 0
    BY <1>4, RestartAsks
  <2>2. /\ sagas' = sagas
        /\ \A q \in Requests : state'[q] = IF q = r THEN TestingRequested
                                           ELSE state[q]
    BY <1>4 DEF HandlePleaseRestart, TypeOK
  <2>3. \A f \in Stages : state'[r] \in AtWork(f) => f = Validation
    BY <2>2, AtWorkUnique
  <2> QED
    BY <2>1, <2>2, <2>3, WaitingStep
<1> QED
  BY <1>1, <1>2, <1>3, <1>4 DEF UserCommand

LEMMA WorkerMessageWaiting ==
    ASSUME SagaAssumption, TypeOK, AskedInv, WaitsForAskedWorker,
           NEW r \in Requests, WorkerMessage(r)
    PROVE  WaitsForAskedWorker'
<1>1. ASSUME NEW s \in Stages, Confirmation(s, r) \/ Status(s, r)
      PROVE  WaitsForAskedWorker'
  <2>1. /\ r \in sagas
        /\ UNCHANGED <<requested, sagas>>
        /\ state[r] \in AtWork(s)
        /\ state'[r] \in AtWork(s) \cup {Failed}
        /\ \A q \in Requests : q # r => state'[q] = state[q]
        /\ \A q \in Requests, t \in Stages : asked'[q][t] = asked[q][t]
    BY <1>1, ReportAsks
  <2>2. \A f \in Stages : state'[r] \in AtWork(f) => f = s
    BY <2>1, AtWorkUnique
  <2>3. asked[r][s] = 1
    BY <2>1 DEF WaitsForAskedWorker
  <2> QED
    BY <2>1, <2>2, <2>3, WaitingStep
<1>2. ASSUME NEW s \in Stages, Finish(s, r) PROVE WaitsForAskedWorker'
  <2>1. PICK ok \in BOOLEAN :
           /\ r \in sagas
           /\ UNCHANGED <<requested, sagas>>
           /\ state[r] \in AtWork(s)
           /\ \A q \in Requests :
                 state'[q] = IF q # r THEN state[q]
                             ELSE IF ok THEN Done(s) ELSE Failed
           /\ \A q \in Requests, t \in Stages :
                 asked'[q][t] =
                     IF q = r /\ ok /\ s # Tests /\ t = s + 1
                     THEN asked[q][t] + 1 ELSE asked[q][t]
    BY <1>2, FinishAsks
  <2>2. \A f \in Stages : state'[r] \in AtWork(f) => ok /\ f = s + 1
    BY <2>1, AtWorkUnique
  <2>3. \A f \in Stages : f = s + 1 => asked[r][f] = 0 /\ s # Tests
    <3> SUFFICES ASSUME NEW f \in Stages, f = s + 1
                 PROVE  asked[r][f] = 0 /\ s # Tests
      OBVIOUS
    <3>1. f > s /\ s # Tests
      BY DEF Stages, Tests
    <3> QED
      BY <2>1, <3>1 DEF AskedInv
  <2>4. \A f \in Stages : state'[r] \in AtWork(f) => asked'[r][f] = 1
    BY <2>1, <2>2, <2>3
  <2> QED
    BY <2>1, <2>4, WaitingStep
<1> QED
  BY <1>1, <1>2, WorkerMessageCases

LEMMA NextWaiting ==
    ASSUME SagaAssumption, FailedPublishReaches = {{}}, TypeOK, AskedInv,
           WaitsForAskedWorker, [Next]_vars
    PROVE  WaitsForAskedWorker'
<1>1. CASE UNCHANGED vars
  BY <1>1 DEF vars, WaitsForAskedWorker
<1>2. ASSUME NEW r \in Requests, Timeout(r) PROVE WaitsForAskedWorker'
  <2>1. /\ r \in sagas /\ sagas' \subseteq sagas
        /\ requested' = requested
        /\ \A q \in Requests : q # r => state'[q] = state[q]
        /\ r \in sagas' => state'[r] = state[r]
        /\ \A q \in Requests, t \in Stages :
              \/ asked'[q][t] = asked[q][t]
              \/ q = r /\ asked'[q][t] = 0 /\ r \notin sagas'
    BY <1>2, TimeoutAsks
  <2>2. r \in sagas' => \A f \in Stages :
           state'[r] \in AtWork(f) => asked'[r][f] = 1
    BY <2>1 DEF WaitsForAskedWorker
  <2> QED
    BY <2>1, <2>2, WaitingStep
<1>3. CASE Next
  <2>1. PICK r \in Requests : UserCommand(r) \/ WorkerMessage(r) \/ Timeout(r)
    BY <1>3 DEF Next
  <2> QED
    BY <2>1, <1>2, CommandWaiting, WorkerMessageWaiting
<1> QED
  BY <1>1, <1>3

(* If a publish that throws has sent nothing, then a TestingRequestSaga    *)
(* that waits for a worker has sent it the request of this run once, and   *)
(* no IPleaseCancel since: whatever arrives late or twice, and whenever    *)
(* the user cancels, restarts or a timeout comes due.                      *)
THEOREM WaitsForAsked ==
    FailedPublishReaches = {{}} => (Spec => []WaitsForAskedWorker)
<1> SUFFICES ASSUME FailedPublishReaches = {{}}
             PROVE  Spec => []WaitsForAskedWorker
  OBVIOUS
<1>1. Init => TypeOK /\ AskedInv /\ WaitsForAskedWorker
  BY InitType, InitAsked, InitWaiting, SagaAssumption
<1>2. TypeOK /\ AskedInv /\ WaitsForAskedWorker /\ [Next]_vars
         => (TypeOK /\ AskedInv /\ WaitsForAskedWorker)'
  BY NextType, NextAsked, NextWaiting, SagaAssumption
<1> QED
  BY <1>1, <1>2, PTL DEF Spec

-----------------------------------------------------------------------------
(* A stage is asked for when its predecessor has passed                    *)

(* A saga knows where the source code of its request is.                   *)
SourceKnown == \A r \in sagas : source[r] \in Paths

LEMMA NextSource ==
    ASSUME TypeOK, SourceKnown, [Next]_vars
    PROVE  SourceKnown'
<1>1. CASE UNCHANGED vars
  BY <1>1 DEF vars, SourceKnown
<1>2. ASSUME NEW r \in Requests, UserCommand(r) PROVE SourceKnown'
  <2>1. ASSUME NEW path \in Paths, HandlePleaseDoTests(r, path)
        PROVE  SourceKnown'
    <3>1. /\ sagas' = sagas \cup {r}
          /\ source' = [source EXCEPT ![r] = path]
          /\ DOMAIN source = Requests
      BY <2>1 DEF HandlePleaseDoTests, TypeOK
    <3>2. sagas \subseteq Requests
      BY DEF TypeOK
    <3> QED
      BY <3>1, <3>2 DEF SourceKnown
  <2>2. CASE UNCHANGED <<sagas, source>>
    BY <2>2 DEF SourceKnown
  <2>3. CASE StopAllOperationsFails(r) \/ HandlePleaseCancelTests(r)
             \/ HandlePleaseRestart(r)
    <3>1. UNCHANGED <<sagas, source>>
      BY <2>3 DEF StopAllOperationsFails, HandlePleaseCancelTests,
         HandlePleaseRestart
    <3> QED
      BY <3>1, <2>2
  <2> QED
    BY <1>2, <2>1, <2>3 DEF UserCommand
<1>3. ASSUME NEW r \in Requests, WorkerMessage(r) PROVE SourceKnown'
  <2>1. UNCHANGED <<sagas, source>>
    BY <1>3, WorkerMessageCases DEF Confirmation, Status, Finish,
       HandleConfirmation, HandleStatus, HandleFinished
  <2> QED
    BY <2>1 DEF SourceKnown
<1>4. ASSUME NEW r \in Requests, Timeout(r) PROVE SourceKnown'
  <2>1. CASE MarkAsComplete(r)
    BY <2>1 DEF MarkAsComplete, SourceKnown, TypeOK
  <2>2. CASE UNCHANGED <<sagas, source>>
    BY <2>2 DEF SourceKnown
  <2> QED
    BY <1>4, <2>1, <2>2 DEF Timeout, TimeoutRestart,
       TimeoutPossibleTestingLoop
<1> QED
  BY <1>1, <1>2, <1>3, <1>4 DEF Next

LEMMA SourceInvariance == Spec => [](TypeOK /\ SourceKnown)
<1>1. Init => TypeOK /\ SourceKnown
  BY InitType, SagaAssumption DEF Init, SourceKnown
<1>2. TypeOK /\ SourceKnown /\ [Next]_vars => (TypeOK /\ SourceKnown)'
  BY NextType, NextSource, SagaAssumption
<1> QED
  BY <1>1, <1>2, PTL DEF Spec

-----------------------------------------------------------------------------
(* Which steps ask a worker                                                *)

(* The step asks for no stage but the first.                               *)
AsksNoFurther ==
    \A m \in outgoing' : m.kind = "Please" => m.stage = Validation

LEMMA CommandsAskNoFurther ==
    ASSUME NEW r \in Requests, UserCommand(r)
    PROVE  AsksNoFurther
<1>1. ASSUME NEW path \in Paths, HandlePleaseDoTests(r, path)
      PROVE  AsksNoFurther
  BY <1>1, MessageKinds DEF HandlePleaseDoTests, Publish, AsksNoFurther
<1>2. CASE StopAllOperationsFails(r)
  BY <1>2, CancellationMembers DEF StopAllOperationsFails, Publish,
     AsksNoFurther
<1>3. CASE HandlePleaseCancelTests(r)
  BY <1>3, CancellationMembers, MessageKinds DEF HandlePleaseCancelTests,
     Publish, AsksNoFurther
<1>4. CASE HandlePleaseRestart(r)
  BY <1>4, CancellationMembers, MessageKinds DEF HandlePleaseRestart,
     Publish, AsksNoFurther
<1> QED
  BY <1>1, <1>2, <1>3, <1>4 DEF UserCommand

LEMMA ReportsAskNothing ==
    ASSUME NEW r \in Requests, NEW s \in Stages,
           Confirmation(s, r) \/ Status(s, r)
    PROVE  AsksNoFurther
<1>1. CASE Confirmation(s, r)
  <2>1. PICK c \in Confirmations : HandleConfirmation(s, r, c.will, c.reason)
    BY <1>1 DEF Confirmation
  <2> DEFINE note == Notification(r, IF c.will THEN Started(s) ELSE Failed,
                                  c.reason)
  <2>2. outgoing' = {note}
    BY <2>1 DEF HandleConfirmation, Publish
  <2>3. note.kind # "Please"
    BY MessageKinds
  <2> HIDE DEF note
  <2> QED
    BY <2>2, <2>3 DEF AsksNoFurther
<1>2. CASE Status(s, r)
  <2>1. PICK p \in Progress : HandleStatus(s, r, p)
    BY <1>2 DEF Status
  <2> DEFINE note == ProgressNotification(r, InProgress(s), p)
  <2>2. outgoing' = {note}
    BY <2>1 DEF HandleStatus, Publish
  <2>3. note.kind # "Please"
    BY MessageKinds
  <2> HIDE DEF note
  <2> QED
    BY <2>2, <2>3 DEF AsksNoFurther
<1> QED
  BY <1>1, <1>2

LEMMA TimeoutsAskNothing ==
    ASSUME NEW r \in Requests, Timeout(r)
    PROVE  AsksNoFurther
<1>1. CASE outgoing' = {}
  BY <1>1 DEF AsksNoFurther
<1>2. ASSUME NEW told,
             outgoing' = Cancellation(r, told)
                             \cup {Notification(r, Cancelled, Null)}
      PROVE  AsksNoFurther
  BY <1>2, CancellationMembers, MessageKinds DEF AsksNoFurther
<1> QED
  BY <1>1, <1>2 DEF Timeout, TimeoutRestart, TimeoutPossibleTestingLoop,
     Publish

LEMMA ResultsFeed ==
    ASSUME SagaAssumption, TypeOK, SourceKnown, NEW r \in Requests,
           NEW s \in Stages, Finish(s, r)
    PROVE  FedByPredecessor
<1> PICK o \in Outcomes : HandleFinished(s, r, o.ok, o.reason, o.path)
  BY DEF Finish
<1> DEFINE next == IF o.ok THEN Done(s) ELSE Failed
           note == Notification(r, next, AnnouncedReason(s, r, o.reason))
           path == IF s = Validation THEN source[r] ELSE o.path
<1>1. /\ r \in sagas /\ source' = source
      /\ state' = [state EXCEPT ![r] = next]
      /\ success' = [success EXCEPT ![r] = [@ EXCEPT ![s] = o.ok]]
      /\ location' = [location EXCEPT ![r] = LocationAfter(s, r, o.path)]
      /\ outgoing' = {note} \cup (IF o.ok THEN NextRequest(s, r, o.path)
                                  ELSE {})
  BY DEF HandleFinished, Publish
<1>2. path \in Paths /\ path # Null
  BY <1>1 DEF SourceKnown, SagaAssumption, Outcomes
<1> SUFFICES ASSUME NEW m \in outgoing', m.kind = "Please"
             PROVE  LET q == m.request
                        t == m.stage
                    IN  /\ state'[q] = Awaited(t) /\ success'[q][t - 1]
                        /\ m.path = IF t = Initialization THEN source'[q]
                                    ELSE location'[q][t - 1]
                        /\ m.path # Null
  BY DEF FedByPredecessor
<1>3. o.ok /\ s # Tests /\ m = Please(s + 1, r, path)
  <2>1. m # note
    BY MessageKinds
  <2> QED
    BY <1>1, <2>1 DEF NextRequest
<1>4. m.request = r /\ m.stage = s + 1 /\ m.path = path
  BY <1>3 DEF Please
<1>5. (s + 1) - 1 = s /\ Awaited(s + 1) = Done(s)
      /\ (s + 1 = Initialization <=> s = Validation)
  BY DEF Stages, Awaited, Done, Initialization, Validation
<1>6. state'[r] = Done(s) /\ success'[r][s]
  BY <1>1, <1>3 DEF TypeOK
<1>7. path = IF s = Validation THEN source'[r] ELSE location'[r][s]
  <2>1. s # Validation => location'[r] = [location[r] EXCEPT ![s] = o.path]
    BY <1>1 DEF TypeOK, LocationAfter
  <2> QED
    BY <1>1, <2>1 DEF TypeOK
<1> HIDE DEF path
<1> QED
  BY <1>2, <1>4, <1>5, <1>6, <1>7

LEMMA NextFeeds ==
    ASSUME SagaAssumption, TypeOK, SourceKnown, Next
    PROVE  FedByPredecessor
<1>1. AsksNoFurther => FedByPredecessor
  BY DEF AsksNoFurther, FedByPredecessor
<1>2. ASSUME NEW r \in Requests, WorkerMessage(r)
      PROVE  FedByPredecessor
  BY <1>1, <1>2, WorkerMessageCases, ReportsAskNothing, ResultsFeed
<1> QED
  BY <1>1, <1>2, CommandsAskNoFurther, TimeoutsAskNothing DEF Next

(* Whatever late or repeated results arrive, a worker is only asked for a  *)
(* stage whose predecessor has passed in this run, and is given what that  *)
(* one produced, never null and never what an earlier run left.            *)
THEOREM StageFed == Spec => StageFedByPredecessor
<1>1. TypeOK /\ SourceKnown /\ [Next]_vars => [FedByPredecessor]_vars
  BY NextFeeds, SagaAssumption
<1> QED
  BY <1>1, SourceInvariance, PTL DEF Spec, StageFedByPredecessor

=============================================================================
