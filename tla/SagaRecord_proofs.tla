-------------------------- MODULE SagaRecord_proofs --------------------------
(***************************************************************************)
(* The record of a TestingRequestSaga describes one run, and every step of *)
(* a saga is a step of RequestLifecycle, or none: for any requests,        *)
(* locations, texts and bounds.                                            *)
(***************************************************************************)
EXTENDS TestingRequestSaga_proofs

-----------------------------------------------------------------------------
(* States and stages                                                       *)

(* The state of a run at stage f tells f, unless the run has stopped.      *)
LEMMA StageOfState ==
    /\ \A s \in Stages, f \in 1..5 :
          /\ Awaited(s) \in StatesAt(f) \cup {Cancelled} => f = s
          /\ Started(s) \in StatesAt(f) \cup {Cancelled} => f = s
          /\ InProgress(s) \in StatesAt(f) \cup {Cancelled} => f = s
    /\ \A s \in Stages :
          /\ Started(s) \in StatesAt(s) /\ InProgress(s) \in StatesAt(s)
          /\ Failed \in StatesAt(s)
          /\ Done(s) \in StatesAt(s + 1)
          /\ s # Tests => Done(s) = Awaited(s + 1) /\ s + 1 \in Stages
          /\ s = Tests => s + 1 \notin Stages
          /\ s + 1 \in 1..5
    /\ TestingRequested = Awaited(Validation)
    /\ TestingRequested \in StatesAt(Validation)
  BY DEF Stages, StatesAt, AtWork, Awaited, Started, InProgress, Done, Failed,
         Cancelled, Finished, TestingRequested, Validation, Tests

(* The states of one stage are different, and none of them is Failed.      *)
LEMMA StatesDiffer ==
    \A s \in Stages, t \in Stages :
        /\ Awaited(s) \notin {Started(t), InProgress(t), Failed, Cancelled}
        /\ Started(s) \notin {InProgress(t), Failed, Cancelled}
        /\ InProgress(s) \notin {Failed, Cancelled}
        /\ Cancelled # Failed
  BY DEF Stages, Awaited, Started, InProgress, Failed, Cancelled

-----------------------------------------------------------------------------
(* One step of one saga                                                    *)

(* The record of q is what it was.                                         *)
SameRecord(q) ==
    /\ denial'[q] = denial[q]
    /\ progress'[q] = progress[q]
    /\ success'[q] = success[q]
    /\ failReason'[q] = failReason[q]
    /\ location'[q] = location[q]

(* RecordInv survives a step about r if it survives for r.                 *)
LEMMA RecordStep ==
    ASSUME TypeOK, RecordInv, NEW r \in Requests,
           sagas' \subseteq sagas \cup {r}, sagas \subseteq sagas' \cup {r},
           \A q \in Requests : q # r => SameRecord(q) /\ state'[q] = state[q],
           r \in sagas' => \E f \in 1..5 : RunIsAt(r, f)',
           r \notin sagas' => \A s \in Stages : Untouched(r, s)'
    PROVE  RecordInv'
<1>1. ASSUME NEW q \in sagas', q # r PROVE \E f \in 1..5 : RunIsAt(q, f)'
  <2>1. q \in sagas /\ q \in Requests
    BY <1>1 DEF TypeOK
  <2>2. PICK f \in 1..5 : RunIsAt(q, f)
    BY <2>1 DEF RecordInv, RecordMatchesState
  <2>3. RunIsAt(q, f)'
    BY <1>1, <2>1, <2>2 DEF RunIsAt, SameRecord, Passed, Untouched
  <2> QED
    BY <2>3
<1>2. ASSUME NEW q \in Requests \ sagas', q # r, NEW s \in Stages
      PROVE  Untouched(q, s)'
  <2>1. q \in Requests \ sagas
    BY <1>2
  <2> QED
    BY <1>2, <2>1 DEF RecordInv, BlankWithoutSaga, Untouched, SameRecord
<1>3. RecordMatchesState'
  BY <1>1 DEF RecordMatchesState
<1>4. BlankWithoutSaga'
  BY <1>2 DEF BlankWithoutSaga
<1> QED
  BY <1>3, <1>4 DEF RecordInv

(* After WipeClean nothing is recorded about r, and nothing has changed    *)
(* about any other request.                                                *)
LEMMA Wiped ==
    ASSUME TypeOK, NEW r \in Requests, WipeClean(r)
    PROVE  /\ \A s \in Stages : Untouched(r, s)'
           /\ \A q \in Requests : q # r => SameRecord(q)
  BY DEF TypeOK, WipeClean, EveryStage, Untouched, SameRecord

(* A saga about which nothing is recorded is at the first stage.           *)
LEMMA FreshRun ==
    ASSUME NEW r \in Requests, state'[r] = TestingRequested,
           \A s \in Stages : Untouched(r, s)'
    PROVE  \E f \in 1..5 : RunIsAt(r, f)'
<1>1. Validation \in Stages /\ \A s \in Stages : ~(s < Validation)
  BY DEF Stages, Validation
<1>2. /\ state'[r] \in StatesAt(Validation) \cup {Cancelled}
      /\ state'[r] = Awaited(Validation)
      /\ state'[r] # Failed
      /\ state'[r] \notin {Started(Validation), InProgress(Validation)}
  BY <1>1, StageOfState, StatesDiffer
<1>3. ~success'[r][Validation]
  BY <1>1 DEF Untouched
<1>4. RunIsAt(r, Validation)'
  BY <1>1, <1>2, <1>3 DEF RunIsAt
<1> QED
  BY <1>1, <1>4 DEF Stages

LEMMA SubmitRecord ==
    ASSUME SagaAssumption, TypeOK, RecordInv, NEW r \in Requests,
           NEW path \in Paths, HandlePleaseDoTests(r, path)
    PROVE  RecordInv'
<1>1. /\ r \notin sagas /\ sagas' = sagas \cup {r}
      /\ state' = [state EXCEPT ![r] = TestingRequested]
      /\ UNCHANGED <<denial, progress, success, failReason, location>>
  BY DEF HandlePleaseDoTests, TypeOK, fields
<1>2. \A s \in Stages : Untouched(r, s)'
  BY <1>1 DEF RecordInv, BlankWithoutSaga, Untouched
<1>3. state'[r] = TestingRequested
  BY <1>1 DEF TypeOK
<1>4. \A q \in Requests : q # r => SameRecord(q) /\ state'[q] = state[q]
  BY <1>1 DEF TypeOK, SameRecord
<1> QED
  BY <1>1, <1>2, <1>3, <1>4, FreshRun, RecordStep

LEMMA CancelRecord ==
    ASSUME SagaAssumption, TypeOK, RecordInv, NEW r \in Requests,
           HandlePleaseCancelTests(r)
    PROVE  RecordInv'
<1>1. /\ r \in sagas /\ sagas' = sagas
      /\ state' = [state EXCEPT ![r] = Cancelled]
      /\ UNCHANGED <<denial, progress, success, failReason, location>>
  BY DEF HandlePleaseCancelTests, fields
<1>2. state'[r] = Cancelled
  BY <1>1 DEF TypeOK
<1>3. PICK f \in 1..5 : RunIsAt(r, f)
  BY <1>1 DEF RecordInv, RecordMatchesState
<1>4. RunIsAt(r, f)'
  BY <1>1, <1>2, <1>3, StatesDiffer DEF RunIsAt, Passed, Untouched
<1>5. \A q \in Requests : q # r => SameRecord(q) /\ state'[q] = state[q]
  BY <1>1 DEF TypeOK, SameRecord
<1> QED
  BY <1>1, <1>4, <1>5, RecordStep

LEMMA RestartRecord ==
    ASSUME SagaAssumption, TypeOK, RecordInv, NEW r \in Requests,
           HandlePleaseRestart(r)
    PROVE  RecordInv'
<1>1. /\ r \in sagas /\ sagas' = sagas
      /\ state' = [state EXCEPT ![r] = TestingRequested]
      /\ WipeClean(r)
  BY DEF HandlePleaseRestart
<1>2. state'[r] = TestingRequested
  BY <1>1 DEF TypeOK
<1>3. \A q \in Requests : q # r => state'[q] = state[q]
  BY <1>1 DEF TypeOK
<1> QED
  BY <1>1, <1>2, <1>3, Wiped, FreshRun, RecordStep

LEMMA CompleteRecord ==
    ASSUME SagaAssumption, TypeOK, RecordInv, NEW r \in Requests,
           MarkAsComplete(r)
    PROVE  RecordInv'
<1>1. /\ sagas' = sagas \ {r} /\ WipeClean(r)
      /\ state' = [state EXCEPT ![r] = Cancelled]
  BY DEF MarkAsComplete
<1>2. \A q \in Requests : q # r => state'[q] = state[q]
  BY <1>1 DEF TypeOK
<1> QED
  BY <1>1, <1>2, Wiped, RecordStep

-----------------------------------------------------------------------------
(* The messages of the workers                                             *)

LEMMA ConfirmationRecord ==
    ASSUME SagaAssumption, TypeOK, RecordInv, NEW r \in Requests,
           NEW s \in Stages, Confirmation(s, r)
    PROVE  RecordInv'
<1> PICK c \in Confirmations : HandleConfirmation(s, r, c.will, c.reason)
  BY DEF Confirmation
<1> DEFINE next == IF c.will THEN Started(s) ELSE Failed
<1>1. /\ r \in sagas /\ sagas' = sagas
      /\ state[r] = Awaited(s)
      /\ state' = [state EXCEPT ![r] = next]
      /\ denial' = [denial EXCEPT ![r] = [@ EXCEPT ![s] = c.reason]]
      /\ UNCHANGED <<progress, success, failReason, location>>
  BY DEF HandleConfirmation, AcceptsConfirmation
<1>2. /\ c.will => c.reason = Null
      /\ ~c.will => c.reason # Null
  BY DEF Confirmations, SagaAssumption
<1>3. RunIsAt(r, s)
  <2>1. PICK f \in 1..5 : RunIsAt(r, f)
    BY <1>1 DEF RecordInv, RecordMatchesState
  <2>2. f = s
    BY <1>1, <2>1, StageOfState DEF RunIsAt
  <2> QED
    BY <2>1, <2>2
<1>4. /\ state'[r] = next
      /\ denial'[r][s] = c.reason
      /\ \A t \in Stages : t # s => denial'[r][t] = denial[r][t]
      /\ \A q \in Requests : q # r => SameRecord(q) /\ state'[q] = state[q]
  BY <1>1 DEF TypeOK, SameRecord
<1>5. next \in StatesAt(s) /\ next # Awaited(s)
  BY StageOfState, StatesDiffer
<1>6. next = Failed => denial'[r][s] # Null
  BY <1>2, <1>4, StatesDiffer
<1>7. next \in {Started(s), InProgress(s)} => denial'[r][s] = Null
  BY <1>2, <1>4, StatesDiffer
<1> HIDE DEF next
<1>8. RunIsAt(r, s)'
  <2>1. \A t \in Stages : t < s => Passed(r, t)'
    BY <1>1, <1>3, <1>4 DEF RunIsAt, Passed
  <2>2. ASSUME NEW t \in Stages, t > s PROVE Untouched(r, t)'
    <3>1. t # s
      BY <2>2 DEF Stages
    <3>2. Untouched(r, t)
      BY <1>3, <2>2 DEF RunIsAt
    <3> QED
      BY <1>1, <1>4, <3>1, <3>2 DEF Untouched
  <2>3. ~success'[r][s]
    BY <1>1, <1>3 DEF RunIsAt
  <2> QED
    BY <1>4, <1>5, <1>6, <1>7, <2>1, <2>2, <2>3 DEF RunIsAt
<1> QED
  BY <1>1, <1>4, <1>8, RecordStep DEF Stages

LEMMA StatusRecord ==
    ASSUME SagaAssumption, TypeOK, RecordInv, NEW r \in Requests,
           NEW s \in Stages, Status(s, r)
    PROVE  RecordInv'
<1> PICK p \in Progress : HandleStatus(s, r, p)
  BY DEF Status
<1>1. /\ r \in sagas /\ sagas' = sagas
      /\ state[r] \in {Started(s), InProgress(s)}
      /\ state' = [state EXCEPT ![r] = InProgress(s)]
      /\ progress' = [progress EXCEPT ![r] = [@ EXCEPT ![s] = p]]
      /\ UNCHANGED <<denial, success, failReason, location>>
  BY DEF HandleStatus, AcceptsStatus
<1>2. RunIsAt(r, s)
  <2>1. PICK f \in 1..5 : RunIsAt(r, f)
    BY <1>1 DEF RecordInv, RecordMatchesState
  <2>2. f = s
    BY <1>1, <2>1, StageOfState DEF RunIsAt
  <2> QED
    BY <2>1, <2>2
<1>3. /\ state'[r] = InProgress(s)
      /\ \A t \in Stages : t # s => progress'[r][t] = progress[r][t]
      /\ \A q \in Requests : q # r => SameRecord(q) /\ state'[q] = state[q]
  BY <1>1 DEF TypeOK, SameRecord
<1>4. RunIsAt(r, s)'
  <2>1. \A t \in Stages : t < s => Passed(r, t)'
    BY <1>1, <1>2 DEF RunIsAt, Passed
  <2>2. ASSUME NEW t \in Stages, t > s PROVE Untouched(r, t)'
    <3>1. t # s
      BY <2>2 DEF Stages
    <3>2. Untouched(r, t)
      BY <1>2, <2>2 DEF RunIsAt
    <3> QED
      BY <1>1, <1>3, <3>1, <3>2 DEF Untouched
  <2>3. ~success'[r][s] /\ denial'[r][s] = Null
    BY <1>1, <1>2 DEF RunIsAt
  <2>4. /\ state'[r] \in StatesAt(s)
        /\ state'[r] # Awaited(s) /\ state'[r] # Failed
    BY <1>3, StageOfState, StatesDiffer
  <2> QED
    BY <2>1, <2>2, <2>3, <2>4 DEF RunIsAt
<1> QED
  BY <1>1, <1>3, <1>4, RecordStep DEF Stages

LEMMA FinishRecord ==
    ASSUME SagaAssumption, TypeOK, RecordInv, NEW r \in Requests,
           NEW s \in Stages, Finish(s, r)
    PROVE  RecordInv'
<1> PICK o \in Outcomes : HandleFinished(s, r, o.ok, o.reason, o.path)
  BY DEF Finish
<1> DEFINE next == IF o.ok THEN Done(s) ELSE Failed
           loc == LocationAfter(s, r, o.path)
<1>1. /\ r \in sagas /\ sagas' = sagas
      /\ state[r] = InProgress(s)
      /\ state' = [state EXCEPT ![r] = next]
      /\ success' = [success EXCEPT ![r] = [@ EXCEPT ![s] = o.ok]]
      /\ failReason' = [failReason EXCEPT ![r] = [@ EXCEPT ![s] = o.reason]]
      /\ location' = [location EXCEPT ![r] = loc]
      /\ UNCHANGED <<denial, progress>>
  BY DEF HandleFinished, AcceptsFinished
<1>2. /\ o.ok \in BOOLEAN
      /\ o.ok => o.reason = Null
      /\ ~o.ok => o.reason # Null
      /\ o.path \in Paths
  BY DEF Outcomes, SagaAssumption
<1>3. RunIsAt(r, s)
  <2>1. PICK f \in 1..5 : RunIsAt(r, f)
    BY <1>1 DEF RecordInv, RecordMatchesState
  <2>2. f = s
    BY <1>1, <2>1, StageOfState DEF RunIsAt
  <2> QED
    BY <2>1, <2>2
<1>4. /\ s # Validation => loc[s] = o.path
      /\ \A t \in Stages : t # s => loc[t] = location[r][t]
  BY DEF LocationAfter, TypeOK
<1>5. state'[r] = next /\ location'[r] = loc
  BY <1>1 DEF TypeOK
<1> HIDE DEF next, loc
<1>6. /\ success'[r][s] = o.ok
      /\ failReason'[r][s] = o.reason
      /\ \A t \in Stages : t # s => /\ success'[r][t] = success[r][t]
                                    /\ failReason'[r][t] = failReason[r][t]
                                    /\ location'[r][t] = location[r][t]
      /\ s # Validation => location'[r][s] = o.path
  BY <1>1, <1>4, <1>5 DEF TypeOK
<1>7. \A q \in Requests : q # r => SameRecord(q) /\ state'[q] = state[q]
  BY <1>1 DEF TypeOK, SameRecord
<1>8. ASSUME NEW t \in Stages, t < s PROVE Passed(r, t)'
  <2>1. t # s /\ Passed(r, t)
    BY <1>3, <1>8 DEF RunIsAt, Stages
  <2> QED
    BY <1>1, <1>6, <2>1 DEF Passed
<1>9. ASSUME NEW t \in Stages, t > s PROVE Untouched(r, t)'
  <2>1. t # s /\ Untouched(r, t)
    BY <1>3, <1>9 DEF RunIsAt, Stages
  <2> QED
    BY <1>1, <1>6, <2>1 DEF Untouched
<1>10. CASE o.ok
  <2>1. state'[r] = Done(s)
    BY <1>5, <1>10 DEF next
  <2>2. Passed(r, s)'
    <3>1. denial'[r][s] = Null
      BY <1>1, <1>3 DEF RunIsAt
    <3> QED
      BY <1>2, <1>6, <1>10, <3>1 DEF Passed
  <2>3. \A t \in Stages : t < s + 1 => Passed(r, t)'
    BY <1>8, <2>2 DEF Stages
  <2>4. \A t \in Stages : t > s + 1 => Untouched(r, t)'
    BY <1>9 DEF Stages
  <2>5. /\ state'[r] \in StatesAt(s + 1) \cup {Cancelled}
        /\ s + 1 \in 1..5
    BY <2>1, StageOfState
  <2>6. ASSUME s + 1 \in Stages
        PROVE  /\ Untouched(r, s + 1)'
               /\ state'[r] = Awaited(s + 1)
    BY <1>9, <2>1, <2>6, StageOfState DEF Stages
  <2>7. s + 1 \in Stages =>
           /\ ~success'[r][s + 1]
           /\ state'[r] = Awaited(s + 1) => Untouched(r, s + 1)'
           /\ state'[r] \notin {Started(s + 1), InProgress(s + 1), Failed}
    BY <2>6, StatesDiffer DEF Untouched
  <2> DEFINE f == s + 1
  <2> HIDE DEF f
  <2>8. RunIsAt(r, f)'
    BY <2>3, <2>4, <2>5, <2>7 DEF RunIsAt, f
  <2> QED
    BY <1>1, <1>7, <2>5, <2>8, RecordStep DEF f
<1>11. CASE ~o.ok
  <2>1. state'[r] = Failed
    BY <1>5, <1>11 DEF next
  <2>2. ~success'[r][s] /\ failReason'[r][s] # Null
    BY <1>2, <1>6, <1>11
  <2>3. /\ state'[r] \in StatesAt(s)
        /\ state'[r] \notin {Awaited(s), Started(s), InProgress(s)}
    BY <2>1, StageOfState, StatesDiffer
  <2>4. RunIsAt(r, s)'
    BY <1>8, <1>9, <2>2, <2>3 DEF RunIsAt
  <2> QED
    BY <1>1, <1>7, <2>4, RecordStep DEF Stages
<1> QED
  BY <1>2, <1>10, <1>11

-----------------------------------------------------------------------------
(* The invariant                                                           *)

LEMMA SameRecords ==
    ASSUME RecordInv, UNCHANGED <<sagas, state, fields>>
    PROVE  RecordInv'
  BY DEF RecordInv, RecordMatchesState, BlankWithoutSaga, RunIsAt, Passed,
         Untouched, fields

LEMMA InitRecord == ASSUME Init PROVE RecordInv
  BY DEF Init, RecordInv, RecordMatchesState, BlankWithoutSaga, Untouched,
         EveryStage

LEMMA NextRecord ==
    ASSUME SagaAssumption, TypeOK, RecordInv, [Next]_vars
    PROVE  RecordInv'
<1>1. CASE UNCHANGED vars
  BY <1>1, SameRecords DEF vars
<1>2. ASSUME NEW r \in Requests, UserCommand(r) PROVE RecordInv'
  <2>1. CASE StopAllOperationsFails(r)
    BY <2>1, SameRecords DEF StopAllOperationsFails
  <2> QED
    BY <1>2, <2>1, SubmitRecord, CancelRecord, RestartRecord DEF UserCommand
<1>3. ASSUME NEW r \in Requests, WorkerMessage(r) PROVE RecordInv'
  BY <1>3, WorkerMessageCases, ConfirmationRecord, StatusRecord, FinishRecord
<1>4. ASSUME NEW r \in Requests, TimeoutRestart(r) PROVE RecordInv'
  BY <1>4, CompleteRecord, SameRecords DEF TimeoutRestart
<1>5. ASSUME NEW r \in Requests, TimeoutPossibleTestingLoop(r)
      PROVE  RecordInv'
  BY <1>5, CompleteRecord, SameRecords DEF TimeoutPossibleTestingLoop
<1> QED
  BY <1>1, <1>2, <1>3, <1>4, <1>5 DEF Next, Timeout

LEMMA RecordInvariance == Spec => [](TypeOK /\ RecordInv)
<1>1. Init => TypeOK /\ RecordInv
  BY InitType, InitRecord, SagaAssumption
<1>2. TypeOK /\ RecordInv /\ [Next]_vars => (TypeOK /\ RecordInv)'
  BY NextType, NextRecord, SagaAssumption
<1> QED
  BY <1>1, <1>2, PTL DEF Spec

(* Whatever messages of whatever runs arrive, the record of a saga is that *)
(* of one run: the handlers' early returns keep late messages out, and     *)
(* WipeClean takes everything of the last run away.                        *)
THEOREM RecordConsistent == Spec => []RecordMatchesState
<1>1. RecordInv => RecordMatchesState
  BY DEF RecordInv
<1> QED
  BY <1>1, RecordInvariance, PTL

-----------------------------------------------------------------------------
(* No message of a worker moves a saga that has stopped                    *)

Stopped == {Failed, Cancelled, Finished}

Revived(r) ==
    /\ r \in sagas /\ r \in sagas'
    /\ state[r] \in Stopped /\ state'[r] # state[r]

ToldAll(r) == \A w \in Stages : PleaseCancel(w, r) \in outgoing'

LEMMA StoppedStates ==
    \A s \in Stages : {Awaited(s), Started(s), InProgress(s)} \cap Stopped = {}
  BY DEF Stages, Stopped, Awaited, Started, InProgress, Failed, Cancelled,
         Finished

LEMMA UserRevives ==
    ASSUME TypeOK, NEW r \in Requests, UserCommand(r),
           NEW q \in Requests, Revived(q)
    PROVE  ToldAll(q)
<1>1. ASSUME NEW path \in Paths, HandlePleaseDoTests(r, path)
      PROVE  FALSE
  <2>1. r \notin sagas /\ state' = [state EXCEPT ![r] = TestingRequested]
    BY <1>1 DEF HandlePleaseDoTests, TypeOK
  <2> QED
    BY <2>1 DEF Revived, TypeOK
<1>2. CASE StopAllOperationsFails(r)
  BY <1>2 DEF StopAllOperationsFails, Revived
<1>3. CASE HandlePleaseCancelTests(r)
  <2>1. q = r
    BY <1>3 DEF HandlePleaseCancelTests, Revived, TypeOK
  <2>2. Cancellation(r, Stages) \subseteq outgoing'
    BY <1>3 DEF HandlePleaseCancelTests, Publish
  <2> QED
    BY <2>1, <2>2 DEF Cancellation, ToldAll
<1>4. CASE HandlePleaseRestart(r)
  <2>1. q = r
    BY <1>4 DEF HandlePleaseRestart, Revived, TypeOK
  <2>2. Cancellation(r, Stages) \subseteq outgoing'
    BY <1>4 DEF HandlePleaseRestart, Publish
  <2> QED
    BY <2>1, <2>2 DEF Cancellation, ToldAll
<1> QED
  BY <1>1, <1>2, <1>3, <1>4 DEF UserCommand

LEMMA OthersDoNotRevive ==
    ASSUME TypeOK, NEW r \in Requests, WorkerMessage(r) \/ Timeout(r),
           NEW q \in Requests
    PROVE  ~Revived(q)
<1>1. CASE WorkerMessage(r)
  <2>1. PICK s \in Stages : Confirmation(s, r) \/ Status(s, r) \/ Finish(s, r)
    BY <1>1, WorkerMessageCases
  <2>2. /\ state[r] \in {Awaited(s), Started(s), InProgress(s)}
        /\ \E next : state' = [state EXCEPT ![r] = next]
    BY <2>1 DEF Confirmation, Status, Finish, HandleConfirmation, HandleStatus,
                HandleFinished, AcceptsConfirmation, AcceptsStatus,
                AcceptsFinished
  <2> QED
    BY <2>2, StoppedStates DEF Revived, TypeOK
<1>2. CASE TimeoutRestart(r)
  BY <1>2 DEF TimeoutRestart, MarkAsComplete, Revived, TypeOK
<1>3. CASE TimeoutPossibleTestingLoop(r)
  BY <1>3 DEF TimeoutPossibleTestingLoop, MarkAsComplete, Revived, TypeOK
<1> QED
  BY <1>1, <1>2, <1>3 DEF Timeout

(* However long a worker goes on after a request has failed, was cancelled *)
(* or is finished, only the user's commands change its state, and they     *)
(* tell every worker to let go of it.                                      *)
THEOREM RevivedByUser == Spec => RevivedOnlyByUser
<1>1. ASSUME TypeOK, [Next]_vars PROVE [OnlyUserRevives]_vars
  <2>1. ASSUME Next, NEW q \in sagas, Revived(q) PROVE ToldAll(q)
    <3>1. q \in Requests
      BY <1>1 DEF TypeOK
    <3>2. PICK r \in Requests : UserCommand(r) \/ WorkerMessage(r) \/ Timeout(r)
      BY <2>1 DEF Next
    <3> QED
      BY <1>1, <2>1, <3>1, <3>2, UserRevives, OthersDoNotRevive
  <2> QED
    BY <1>1, <2>1 DEF Revived, Stopped, ToldAll, OnlyUserRevives
<1>2. TypeOK /\ [Next]_vars => [OnlyUserRevives]_vars
  BY <1>1
<1> QED
  BY <1>2, TypeCorrect, PTL DEF Spec, RevivedOnlyByUser

-----------------------------------------------------------------------------
(* How many stages a run has passed                                        *)

LEMMA Counts ==
    ASSUME NEW r \in Requests, NEW n \in 0..4
    PROVE  /\ (\A t \in Stages : success[r][t] <=> t <= n) => passed(r) = n
           /\ (\A t \in Stages : success'[r][t] <=> t <= n) => passed(r)' = n
  BY DEF passed, Stages, Validation, Initialization, Builds, Tests

(* The successes of a run at stage s are those of the stages before it.    *)
LEMMA RunCounts ==
    ASSUME NEW r \in Requests, NEW s \in Stages, RunIsAt(r, s)
    PROVE  /\ \A t \in Stages : success[r][t] <=> t <= s - 1
           /\ passed(r) = s - 1
<1>1. ASSUME NEW t \in Stages PROVE success[r][t] <=> t <= s - 1
  <2>1. t < s => success[r][t]
    BY DEF RunIsAt, Passed
  <2>2. t > s => ~success[r][t]
    BY DEF RunIsAt, Untouched
  <2>3. t = s => ~success[r][t]
    BY DEF RunIsAt
  <2> QED
    BY <2>1, <2>2, <2>3 DEF Stages
<1>2. s - 1 \in 0..4
  BY DEF Stages
<1> DEFINE n == s - 1
<1>3. n \in 0..4 /\ \A t \in Stages : success[r][t] <=> t <= n
  BY <1>1, <1>2
<1> HIDE DEF n
<1>4. passed(r) = n
  BY <1>3, Counts
<1> QED
  BY <1>1, <1>4 DEF n

(* A saga that a worker of stage s is waited for is at stage s.            *)
LEMMA AtStage ==
    ASSUME RecordInv, NEW r \in sagas, NEW s \in Stages, r \in Requests,
           state[r] \in AtWork(s)
    PROVE  RunIsAt(r, s)
<1>1. PICK f \in 1..5 : RunIsAt(r, f)
  BY DEF RecordInv, RecordMatchesState
<1>2. f = s
  BY <1>1, StageOfState DEF RunIsAt, AtWork
<1> QED
  BY <1>1, <1>2

-----------------------------------------------------------------------------
(* Phases                                                                  *)

LEMMA PhaseOfState ==
    ASSUME NEW r \in Requests, r \in requested, r \in sagas
    PROVE  /\ state[r] = Failed => phaseOf(r) = "failed"
           /\ state[r] = Cancelled => phaseOf(r) = "cancelled"
           /\ state[r] = Finished => phaseOf(r) = "finished"
           /\ \A s \in Stages : state[r] \in AtWork(s) => phaseOf(r) = "running"
           /\ phaseOf(r) \in {"running", "failed", "cancelled", "finished"}
  BY DEF phaseOf, AtWork, Stages, Awaited, Started, InProgress, Failed,
         Cancelled, Finished

LEMMA PhaseOfNextState ==
    ASSUME NEW r \in Requests, r \in requested', r \in sagas'
    PROVE  /\ state'[r] = Failed => phaseOf(r)' = "failed"
           /\ state'[r] = Cancelled => phaseOf(r)' = "cancelled"
           /\ state'[r] = Finished => phaseOf(r)' = "finished"
           /\ \A s \in Stages :
                 state'[r] \in AtWork(s) => phaseOf(r)' = "running"
  BY DEF phaseOf, AtWork, Stages, Awaited, Started, InProgress, Failed,
         Cancelled, Finished

(* Nothing a user can see of q has changed.                                *)
SamePhase(q) ==
    /\ q \in requested' <=> q \in requested
    /\ q \in sagas' <=> q \in sagas
    /\ state'[q] = state[q]
    /\ success'[q] = success[q]

LEMMA SamePhases ==
    ASSUME NEW q \in Requests, SamePhase(q)
    PROVE  phaseOf(q)' = phaseOf(q) /\ passed(q)' = passed(q)
  BY DEF SamePhase, phaseOf, passed

(* A step about r moves r, and r alone.                                    *)
LEMMA Moves ==
    ASSUME NEW r \in Requests, NEW p, NEW n,
           \A q \in Requests : q # r => SamePhase(q),
           phaseOf(r)' = p, passed(r)' = n
    PROVE  Lifecycle!MoveTo(r, p, n)
<1>1. \A q \in Requests : q # r =>
         phaseOf(q)' = phaseOf(q) /\ passed(q)' = passed(q)
  BY SamePhases
<1> QED
  BY <1>1 DEF Lifecycle!MoveTo

LEMMA Stutters ==
    ASSUME \A q \in Requests : phaseOf(q)' = phaseOf(q) /\ passed(q)' = passed(q)
    PROVE  UNCHANGED Lifecycle!lifecycle
  BY DEF Lifecycle!lifecycle

-----------------------------------------------------------------------------
(* The commands of the user                                                *)

LEMMA SubmitRefines ==
    ASSUME SagaAssumption, TypeOK, RecordInv, NEW r \in Requests,
           NEW path \in Paths, HandlePleaseDoTests(r, path)
    PROVE  Lifecycle!Submit(r)
<1>1. /\ r \notin requested /\ requested' = requested \cup {r}
      /\ sagas' = sagas \cup {r}
      /\ state' = [state EXCEPT ![r] = TestingRequested]
      /\ success' = success
  BY DEF HandlePleaseDoTests, fields
<1>2. phaseOf(r) = "unknown"
  BY <1>1 DEF phaseOf
<1>3. phaseOf(r)' = "running"
  <2>1. state'[r] = TestingRequested
    BY <1>1 DEF TypeOK
  <2>2. state'[r] \in AtWork(Validation) /\ Validation \in Stages
    BY <2>1 DEF AtWork, Awaited, TestingRequested, Stages, Validation
  <2> QED
    BY <1>1, <2>2, PhaseOfNextState
<1>4. passed(r)' = 0
  <2>1. r \notin sagas
    BY <1>1 DEF TypeOK
  <2>2. \A t \in Stages : ~success'[r][t]
    BY <1>1, <2>1 DEF RecordInv, BlankWithoutSaga, Untouched
  <2>3. \A t \in Stages : success'[r][t] <=> t <= 0
    BY <2>2 DEF Stages
  <2> QED
    BY <2>3, Counts
<1>5. \A q \in Requests : q # r => SamePhase(q)
  BY <1>1 DEF TypeOK, SamePhase
<1>6. Lifecycle!MoveTo(r, "running", 0)
  BY <1>3, <1>4, <1>5, Moves
<1> QED
  BY <1>2, <1>6 DEF Lifecycle!Submit

LEMMA AliveSaga ==
    ASSUME TypeOK, NEW r \in sagas, r \in Requests PROVE Lifecycle!Alive(r)
  BY PhaseOfState DEF TypeOK, Lifecycle!Alive

LEMMA CancelRefines ==
    ASSUME SagaAssumption, TypeOK, RecordInv, NEW r \in Requests,
           HandlePleaseCancelTests(r)
    PROVE  Lifecycle!Cancel(r)
<1>1. /\ r \in sagas /\ sagas' = sagas
      /\ requested' = requested /\ r \in requested
      /\ state' = [state EXCEPT ![r] = Cancelled]
      /\ success' = success
  BY DEF HandlePleaseCancelTests, fields, TypeOK
<1>2. phaseOf(r)' = "cancelled"
  <2>1. state'[r] = Cancelled
    BY <1>1 DEF TypeOK
  <2> QED
    BY <1>1, <2>1, PhaseOfNextState
<1>3. passed(r)' = passed(r)
  BY <1>1 DEF passed
<1>4. \A q \in Requests : q # r => SamePhase(q)
  BY <1>1 DEF TypeOK, SamePhase
<1>5. Lifecycle!MoveTo(r, "cancelled", passed(r))
  BY <1>2, <1>3, <1>4, Moves
<1> QED
  BY <1>1, <1>5, AliveSaga DEF Lifecycle!Cancel

LEMMA WipedCounts ==
    ASSUME TypeOK, NEW r \in Requests, WipeClean(r)
    PROVE  /\ passed(r)' = 0
           /\ \A q \in Requests : q # r => success'[q] = success[q]
<1>1. /\ \A t \in Stages : ~success'[r][t]
      /\ \A q \in Requests : q # r => success'[q] = success[q]
  BY Wiped DEF Untouched, SameRecord
<1>2. \A t \in Stages : success'[r][t] <=> t <= 0
  BY <1>1 DEF Stages
<1> QED
  BY <1>1, <1>2, Counts

LEMMA RestartRefines ==
    ASSUME SagaAssumption, TypeOK, NEW r \in Requests, HandlePleaseRestart(r)
    PROVE  Lifecycle!Restart(r)
<1>1. /\ r \in sagas /\ sagas' = sagas
      /\ requested' = requested /\ r \in requested
      /\ state' = [state EXCEPT ![r] = TestingRequested]
      /\ WipeClean(r)
  BY DEF HandlePleaseRestart, TypeOK
<1>2. phaseOf(r)' = "running"
  <2>1. state'[r] = TestingRequested
    BY <1>1 DEF TypeOK
  <2>2. state'[r] \in AtWork(Validation) /\ Validation \in Stages
    BY <2>1 DEF AtWork, Awaited, TestingRequested, Stages, Validation
  <2> QED
    BY <1>1, <2>2, PhaseOfNextState
<1>3. passed(r)' = 0
  BY <1>1, WipedCounts
<1>4. \A q \in Requests : q # r => SamePhase(q)
  BY <1>1, WipedCounts DEF TypeOK, SamePhase
<1>5. Lifecycle!MoveTo(r, "running", 0)
  BY <1>2, <1>3, <1>4, Moves
<1> QED
  BY <1>1, <1>5, AliveSaga DEF Lifecycle!Restart

-----------------------------------------------------------------------------
(* The messages of the workers                                             *)

LEMMA ConfirmationRefines ==
    ASSUME SagaAssumption, TypeOK, RecordInv, NEW r \in Requests,
           NEW s \in Stages, Confirmation(s, r)
    PROVE  Lifecycle!FailStage(r) \/ UNCHANGED Lifecycle!lifecycle
<1> PICK c \in Confirmations : HandleConfirmation(s, r, c.will, c.reason)
  BY DEF Confirmation
<1> DEFINE next == IF c.will THEN Started(s) ELSE Failed
<1>1. /\ r \in sagas /\ sagas' = sagas
      /\ requested' = requested /\ r \in requested
      /\ state[r] = Awaited(s)
      /\ state' = [state EXCEPT ![r] = next]
      /\ success' = success
  BY DEF HandleConfirmation, AcceptsConfirmation, TypeOK
<1>2. state'[r] = next
  BY <1>1 DEF TypeOK
<1>3. \A q \in Requests : q # r => SamePhase(q)
  BY <1>1 DEF TypeOK, SamePhase
<1>4. phaseOf(r) = "running" /\ passed(r)' = passed(r)
  BY <1>1, PhaseOfState DEF AtWork, passed
<1>5. CASE c.will
  <2>1. state'[r] \in AtWork(s)
    BY <1>2, <1>5 DEF AtWork
  <2>2. phaseOf(r)' = phaseOf(r)
    BY <1>1, <1>4, <2>1, PhaseOfNextState
  <2> QED
    BY <1>3, <1>4, <2>2, SamePhases, Stutters
<1>6. CASE ~c.will
  <2>1. phaseOf(r)' = "failed"
    BY <1>1, <1>2, <1>6, PhaseOfNextState
  <2>2. Lifecycle!MoveTo(r, "failed", passed(r))
    BY <1>3, <1>4, <2>1, Moves
  <2> QED
    BY <1>4, <2>2 DEF Lifecycle!FailStage
<1> QED
  BY <1>5, <1>6

LEMMA StatusRefines ==
    ASSUME SagaAssumption, TypeOK, NEW r \in Requests,
           NEW s \in Stages, Status(s, r)
    PROVE  UNCHANGED Lifecycle!lifecycle
<1>1. /\ r \in sagas /\ sagas' = sagas
      /\ requested' = requested /\ r \in requested
      /\ state[r] \in {Started(s), InProgress(s)}
      /\ state' = [state EXCEPT ![r] = InProgress(s)]
      /\ success' = success
  BY DEF Status, HandleStatus, AcceptsStatus, TypeOK
<1>2. state'[r] = InProgress(s)
  BY <1>1 DEF TypeOK
<1>3. \A q \in Requests : q # r => SamePhase(q)
  BY <1>1 DEF TypeOK, SamePhase
<1>4. phaseOf(r) = "running" /\ passed(r)' = passed(r)
  BY <1>1, PhaseOfState DEF AtWork, passed
<1>5. phaseOf(r)' = "running"
  BY <1>1, <1>2, PhaseOfNextState DEF AtWork
<1> QED
  BY <1>3, <1>4, <1>5, SamePhases, Stutters

(* A result ends the stage at work, one way or the other.                  *)
LEMMA FinishRefines ==
    ASSUME SagaAssumption, TypeOK, RecordInv, NEW r \in Requests,
           NEW s \in Stages, Finish(s, r)
    PROVE  Lifecycle!PassStage(r) \/ Lifecycle!FailStage(r)
<1> PICK o \in Outcomes : HandleFinished(s, r, o.ok, o.reason, o.path)
  BY DEF Finish
<1> DEFINE next == IF o.ok THEN Done(s) ELSE Failed
<1>1. /\ r \in sagas /\ sagas' = sagas
      /\ requested' = requested /\ r \in requested
      /\ state[r] = InProgress(s)
      /\ state' = [state EXCEPT ![r] = next]
      /\ success' = [success EXCEPT ![r] = [@ EXCEPT ![s] = o.ok]]
  BY DEF HandleFinished, AcceptsFinished, TypeOK
<1>2. state'[r] = next
  BY <1>1 DEF TypeOK
<1>3. \A q \in Requests : q # r => SamePhase(q)
  BY <1>1 DEF TypeOK, SamePhase
<1>4. /\ phaseOf(r) = "running"
      /\ passed(r) = s - 1
      /\ \A t \in Stages : success[r][t] <=> t <= s - 1
  <2>1. state[r] \in AtWork(s)
    BY <1>1 DEF AtWork
  <2>2. RunIsAt(r, s)
    BY <1>1, <2>1, AtStage
  <2> QED
    BY <1>1, <2>1, <2>2, PhaseOfState, RunCounts
<1>5. /\ success'[r][s] <=> o.ok
      /\ \A t \in Stages : t # s => success'[r][t] = success[r][t]
  BY <1>1 DEF TypeOK, Outcomes
<1>6. CASE o.ok
  <2> DEFINE p == IF s = 4 THEN "finished" ELSE "running"
  <2>1. \A t \in Stages : success'[r][t] <=> t <= s
    BY <1>4, <1>5, <1>6 DEF Stages
  <2>2. passed(r)' = s
    BY <2>1, Counts DEF Stages
  <2>3. phaseOf(r)' = p
    <3>1. state'[r] = Done(s)
      BY <1>2, <1>6
    <3>2. CASE s = 4
      <4>1. state'[r] = Finished
        BY <3>1, <3>2 DEF Done, Finished
      <4> QED
        BY <1>1, <3>2, <4>1, PhaseOfNextState
    <3>3. CASE s # 4
      <4>1. state'[r] = Awaited(s + 1) /\ s + 1 \in Stages
        BY <3>1, <3>3 DEF Done, Awaited, Stages
      <4> QED
        BY <1>1, <3>3, <4>1, PhaseOfNextState DEF AtWork
    <3> QED
      BY <3>2, <3>3
  <2>4. Lifecycle!MoveTo(r, p, s)
    BY <1>3, <2>2, <2>3, Moves
  <2>5. passed(r) + 1 = s
    BY <1>4 DEF Stages
  <2> QED
    BY <1>4, <2>4, <2>5 DEF Lifecycle!PassStage
<1>7. CASE ~o.ok
  <2>1. \A t \in Stages : success'[r][t] <=> t <= s - 1
    BY <1>4, <1>5, <1>7 DEF Stages
  <2>2. passed(r)' = passed(r)
    <3> DEFINE n == s - 1
    <3>1. n \in 0..4 /\ \A t \in Stages : success'[r][t] <=> t <= n
      BY <2>1 DEF Stages
    <3> HIDE DEF n
    <3>2. passed(r)' = n
      BY <3>1, Counts
    <3> QED
      BY <1>4, <3>2 DEF n
  <2>3. phaseOf(r)' = "failed"
    BY <1>1, <1>2, <1>7, PhaseOfNextState
  <2>4. Lifecycle!MoveTo(r, "failed", passed(r))
    BY <1>3, <2>2, <2>3, Moves
  <2> QED
    BY <1>4, <2>4 DEF Lifecycle!FailStage
<1> QED
  BY <1>6, <1>7

-----------------------------------------------------------------------------
(* Timeouts                                                                *)

LEMMA CompletedSaga ==
    ASSUME TypeOK, NEW r \in sagas, r \in Requests, MarkAsComplete(r),
           requested' = requested
    PROVE  Lifecycle!MoveTo(r, "over", 0)
<1>1. /\ sagas' = sagas \ {r} /\ WipeClean(r)
      /\ state' = [state EXCEPT ![r] = Cancelled]
  BY DEF MarkAsComplete
<1>2. phaseOf(r)' = "over"
  BY <1>1 DEF phaseOf, TypeOK
<1>3. \A q \in Requests : q # r => SamePhase(q)
  BY <1>1, WipedCounts DEF TypeOK, SamePhase
<1> QED
  BY <1>1, <1>2, <1>3, WipedCounts, Moves

LEMMA NothingMoved ==
    ASSUME UNCHANGED <<requested, sagas, state, success>>
    PROVE  UNCHANGED Lifecycle!lifecycle
<1>1. \A q \in Requests : SamePhase(q)
  BY DEF SamePhase
<1> QED
  BY <1>1, SamePhases, Stutters

LEMMA RestartTimeoutRefines ==
    ASSUME TypeOK, NEW r \in Requests, TimeoutRestart(r)
    PROVE  Lifecycle!Forget(r) \/ UNCHANGED Lifecycle!lifecycle
<1>1. CASE state[r] = Cancelled
  <2>1. MarkAsComplete(r) /\ requested' = requested /\ r \in sagas
    BY <1>1 DEF TimeoutRestart
  <2>2. phaseOf(r) = "cancelled"
    BY <1>1, <2>1, PhaseOfState DEF TypeOK
  <2> QED
    BY <2>1, <2>2, CompletedSaga DEF Lifecycle!Forget
<1>2. CASE state[r] # Cancelled
  BY <1>2, NothingMoved DEF TimeoutRestart, fields
<1> QED
  BY <1>1, <1>2

LEMMA LoopTimeoutRefines ==
    ASSUME TypeOK, RecordInv, NEW r \in Requests,
           TimeoutPossibleTestingLoop(r)
    PROVE  Lifecycle!GiveUp(r) \/ UNCHANGED Lifecycle!lifecycle
<1>1. CASE state[r] = InProgress(Tests)
  <2>1. MarkAsComplete(r) /\ requested' = requested /\ r \in sagas
    BY <1>1 DEF TimeoutPossibleTestingLoop
  <2>2. Tests \in Stages /\ state[r] \in AtWork(Tests)
    BY <1>1 DEF AtWork, Stages, Tests
  <2>3. phaseOf(r) = "running" /\ passed(r) = Tests - 1
    BY <2>1, <2>2, AtStage, RunCounts, PhaseOfState DEF TypeOK
  <2>4. passed(r) = 4 - 1
    BY <2>3 DEF Tests
  <2> QED
    BY <2>1, <2>3, <2>4, CompletedSaga DEF Lifecycle!GiveUp
<1>2. CASE state[r] # InProgress(Tests)
  BY <1>2, NothingMoved DEF TimeoutPossibleTestingLoop, fields
<1> QED
  BY <1>1, <1>2

-----------------------------------------------------------------------------
(* The refinement                                                          *)

LEMMA InitRefines == ASSUME Init PROVE Lifecycle!Init
  BY DEF Init, Lifecycle!Init, phaseOf, passed, EveryStage, Stages,
         Validation, Initialization, Builds, Tests

LEMMA NextRefines ==
    ASSUME SagaAssumption, TypeOK, RecordInv, [Next]_vars
    PROVE  [Lifecycle!Next]_(Lifecycle!lifecycle)
<1>1. CASE UNCHANGED vars
  BY <1>1, NothingMoved DEF vars, fields
<1>2. ASSUME NEW r \in Requests, UserCommand(r)
      PROVE  Lifecycle!Next \/ UNCHANGED Lifecycle!lifecycle
  <2>1. CASE StopAllOperationsFails(r)
    BY <2>1, NothingMoved DEF StopAllOperationsFails, fields
  <2> QED
    BY <1>2, <2>1, SubmitRefines, CancelRefines, RestartRefines
       DEF UserCommand, Lifecycle!Next
<1>3. ASSUME NEW r \in Requests, WorkerMessage(r)
      PROVE  Lifecycle!Next \/ UNCHANGED Lifecycle!lifecycle
  BY <1>3, WorkerMessageCases, ConfirmationRefines, StatusRefines,
     FinishRefines DEF Lifecycle!Next
<1>4. ASSUME NEW r \in Requests, Timeout(r)
      PROVE  Lifecycle!Next \/ UNCHANGED Lifecycle!lifecycle
  BY <1>4, RestartTimeoutRefines, LoopTimeoutRefines
     DEF Timeout, Lifecycle!Next
<1> QED
  BY <1>1, <1>2, <1>3, <1>4 DEF Next

(* Whatever the workers send and whenever the timeouts come due, a saga    *)
(* keeps the safety part of what RequestLifecycle promises the user: it    *)
(* runs through its stages one at a time, and only a cancellation that     *)
(* nobody took back, or tests that take too long, end it.                  *)
THEOREM KeepsLifecycle == Spec => Lifecycle!SafeSpec
<1>1. Init => Lifecycle!Init
  BY InitRefines
<1>2. TypeOK /\ RecordInv /\ [Next]_vars
         => [Lifecycle!Next]_(Lifecycle!lifecycle)
  BY NextRefines, SagaAssumption
<1> QED
  BY <1>1, <1>2, RecordInvariance, PTL DEF Spec, Lifecycle!SafeSpec

=============================================================================
