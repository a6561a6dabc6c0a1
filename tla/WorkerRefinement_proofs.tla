----------------------- MODULE WorkerRefinement_proofs -----------------------
(***************************************************************************)
(* Every step of a worker's threads is a step of WorkerContract, or none,  *)
(* for any requests, any number of overlapping passes and any bounds.      *)
(***************************************************************************)
EXTENDS StageWorker_proofs

-----------------------------------------------------------------------------
(* What has had a result                                                   *)

(* A task finishes after enough statuses and marks what it has published,  *)
(* and no key is listed for removal but one that ever had a result.        *)
ResultsFirst ==
    /\ processed \subseteq finished
    /\ \A p \in Passes, r \in Requests :
          /\ item[p][r].todo = "finish" => item[p][r].progress >= Half
          /\ item[p][r].todo = "mark" => <<r, item[p][r].object>> \in finished
    /\ \A p \in Passes : \A r \in sweep[p] : hasResult(r)

LEMMA FinishedStays == UNCHANGED results => UNCHANGED finished
  BY DEF finished

LEMMA FinishedGrows ==
    ASSUME NEW p \in Passes, NEW m \in Models,
           results' = results \cup {<<p, m>>}
    PROVE  finished' = finished \cup {m}
  BY DEF finished

(* Where tasks, marks and lists stay, so does what is said of them.        *)
LEMMA ResultsStay ==
    ASSUME ResultsFirst, UNCHANGED <<processed, item, sweep>>,
           finished \subseteq finished'
    PROVE  ResultsFirst'
  BY DEF ResultsFirst, hasResult

(* One task goes on, and leaves what is said of it true.                   *)
LEMMA TaskResults ==
    ASSUME TypeOK, ResultsFirst, NEW p \in Passes, NEW r \in Requests, NEW t,
           item' = [item EXCEPT ![p][r] = t], sweep' = sweep,
           finished \subseteq finished', processed' \subseteq finished',
           t.todo = "finish" => t.progress >= Half,
           t.todo = "mark" => <<r, t.object>> \in finished'
    PROVE  ResultsFirst'
<1>1. \A v \in Passes, q \in Requests :
         \/ item'[v][q] = item[v][q]
         \/ v = p /\ q = r /\ item'[v][q] = t
  BY DEF TypeOK
<1>2. \A v \in Passes, q \in Requests :
         /\ item'[v][q].todo = "finish" => item'[v][q].progress >= Half
         /\ item'[v][q].todo = "mark" => <<q, item'[v][q].object>> \in finished'
  BY <1>1 DEF ResultsFirst
<1>3. \A v \in Passes : \A q \in sweep'[v] : hasResult(q)'
  BY DEF ResultsFirst, hasResult
<1> QED
  BY <1>2, <1>3 DEF ResultsFirst

LEMMA ReportStatusResults ==
    ASSUME WorkerAssumption, Inv, ResultsFirst, NEW p \in Passes,
           NEW r \in Requests, ReportStatus(p, r)
    PROVE  ResultsFirst'
<1> DEFINE old == item[p][r]
           t == AfterStatus(old, r)
<1>1. /\ TypeOK /\ old \in Tasks /\ old.todo = "report"
      /\ UNCHANGED <<processed, sweep, finished>>
  BY WorkingTask, FinishedStays DEF Inv, ReportStatus, dictionary, history
<1>2. item' = [item EXCEPT ![p][r] = t]
  BY <1>1 DEF TypeOK, ReportStatus
<1>3. t.todo # "mark" /\ (t.todo = "finish" => t.progress >= Half)
  <2>1. LastStatus(r) >= Half /\ LastStatus(r) \in Nat /\ Half \in Nat
    BY DEF WorkerAssumption, LastStatus
  <2>2. old.progress \in Nat
    <3>1. old.progress \in 0..Full
      BY <1>1, TaskTypes
    <3> QED
      BY <3>1 DEF WorkerAssumption
  <2>3. CASE old.progress < LastStatus(r)
    <3>1. t = [old EXCEPT !.progress = @ + 1]
      BY <2>3 DEF AfterStatus
    <3>2. t.todo = "report"
      BY <1>1, <3>1 DEF Tasks
    <3> QED
      BY <3>2
  <2>4. CASE ~(old.progress < LastStatus(r))
    <3>1. t = [old EXCEPT !.todo = "finish"]
      BY <2>4 DEF AfterStatus
    <3>2. t.todo = "finish" /\ t.progress = old.progress
      BY <1>1, <3>1 DEF Tasks
    <3> QED
      BY <2>1, <2>2, <2>4, <3>2
  <2> QED
    BY <2>3, <2>4
<1> HIDE DEF t
<1>4. processed' \subseteq finished'
  BY <1>1 DEF ResultsFirst
<1> QED
  BY <1>1, <1>2, <1>3, <1>4, TaskResults

LEMMA TaskStepResults ==
    ASSUME WorkerAssumption, Inv, ResultsFirst, NEW p \in Passes,
           NEW r \in Requests, Task(p, r)
    PROVE  ResultsFirst'
<1>0. TypeOK /\ processed \subseteq finished
  BY DEF Inv, ResultsFirst
<1>1. CASE TakeUp(p, r)
  <2> DEFINE t == [object |-> requests[r], todo |-> "report", progress |-> 0]
  <2>1. /\ item' = [item EXCEPT ![p][r] = t]
        /\ UNCHANGED <<processed, sweep, finished>>
    BY <1>1, FinishedStays DEF TakeUp, dictionary, history
  <2>2. t.todo = "report"
    OBVIOUS
  <2> HIDE DEF t
  <2> QED
    BY <1>0, <2>1, <2>2, TaskResults
<1>2. CASE ReportStatus(p, r)
  BY <1>2, ReportStatusResults
<1>3. CASE ReportFinished(p, r)
  <2> DEFINE old == item[p][r]
             t == [old EXCEPT !.todo = "mark"]
  <2> DEFINE m == <<r, old.object>>
  <2>1. /\ old \in Tasks /\ m \in Models
        /\ results' = results \cup {<<p, m>>}
        /\ UNCHANGED <<processed, sweep>>
    BY <1>0, <1>3, WorkingTask DEF TypeOK, ReportFinished, dictionary
  <2>2. item' = [item EXCEPT ![p][r] = t]
    BY <1>0, <1>3 DEF TypeOK, ReportFinished
  <2>3. t.todo = "mark" /\ t.object = old.object
    BY <2>1 DEF Tasks
  <2>4. finished' = finished \cup {<<r, old.object>>}
    <3> HIDE DEF m
    <3>1. finished' = finished \cup {m}
      BY <2>1, FinishedGrows
    <3> QED
      BY <3>1 DEF m
  <2> HIDE DEF t
  <2> QED
    BY <1>0, <2>1, <2>2, <2>3, <2>4, TaskResults
<1>4. CASE MarkProcessed(p, r)
  <2> DEFINE old == item[p][r]
             t == [old EXCEPT !.todo = "over"]
  <2>1. /\ old \in Tasks
        /\ processed' = processed \cup {<<r, old.object>>}
        /\ <<r, old.object>> \in finished
        /\ UNCHANGED <<sweep, finished>>
    BY <1>0, <1>4, FinishedStays
    DEF TypeOK, MarkProcessed, history, ResultsFirst
  <2>2. item' = [item EXCEPT ![p][r] = t]
    BY <1>0, <1>4 DEF TypeOK, MarkProcessed
  <2>3. t.todo = "over"
    BY <2>1 DEF Tasks
  <2> HIDE DEF t
  <2> QED
    BY <1>0, <2>1, <2>2, <2>3, TaskResults
<1> QED
  BY <1>1, <1>2, <1>3, <1>4 DEF Task

LEMMA NextResults ==
    ASSUME WorkerAssumption, Inv, ResultsFirst, [Next]_vars
    PROVE  ResultsFirst'
<1>1. CASE UNCHANGED vars
  BY <1>1, ResultsStay, FinishedStays DEF vars, dictionary, timer, history
<1>2. CASE Handler
  BY <1>2, ResultsStay, FinishedStays
  DEF Handler, HandlePlease, HandlePleaseAgain,
     AddUnlessKnown, HandlePleaseCancel, ConfirmRequest, HandlerFails,
     dictionary, timer, history
<1>3. ASSUME NEW p \in Passes, TimerFires(p) \/ EndPass(p)
      PROVE  ResultsFirst'
  BY <1>3, ResultsStay, FinishedStays
  DEF TimerFires, EndPass, dictionary, history
<1>4. ASSUME NEW p \in Passes, NEW r \in Requests, Task(p, r)
      PROVE  ResultsFirst'
  BY <1>4, TaskStepResults
<1>5. ASSUME NEW p \in Passes, NEW r \in Requests, ThrowOut(p, r)
      PROVE  ResultsFirst'
  <2>1. /\ sweep \in [Passes -> SUBSET Requests]
        /\ sweep' = [sweep EXCEPT ![p] = @ \ {r}]
        /\ UNCHANGED <<processed, item, finished>>
    BY <1>5, FinishedStays DEF Inv, TypeOK, ThrowOut, history
  <2>2. \A v \in Passes : sweep'[v] \subseteq sweep[v]
    BY <2>1
  <2> QED
    BY <2>1, <2>2 DEF ResultsFirst, hasResult
<1>6. ASSUME NEW p \in Passes, ListProcessed(p)
      PROVE  ResultsFirst'
  <2>1. /\ item' = [item EXCEPT ![p] = [r \in Requests |-> Untaken]]
        /\ sweep' = [sweep EXCEPT ![p] =
                        {r \in Requests : <<r, requests[r]>> \in processed}]
        /\ UNCHANGED <<processed, finished>>
    BY <1>6, FinishedStays DEF ListProcessed, dictionary, history
  <2>2. \A v \in Passes, q \in Requests :
           item'[v][q] = item[v][q] \/ item'[v][q].todo = "over"
    BY <2>1 DEF Inv, TypeOK, Untaken
  <2>3. \A r \in Requests : <<r, requests[r]>> \in processed => hasResult(r)
    BY DEF Inv, TypeOK, Models, ResultsFirst, hasResult
  <2>4. \A v \in Passes : \A q \in sweep'[v] : hasResult(q)
    BY <2>1, <2>3 DEF Inv, TypeOK, ResultsFirst
  <2> QED
    BY <2>1, <2>2, <2>4 DEF ResultsFirst, hasResult
<1>7. CASE Crash
  BY <1>7, FinishedStays DEF Crash, history, ResultsFirst, Untaken
<1> QED
  BY <1>1, <1>2, <1>3, <1>4, <1>5, <1>6, <1>7 DEF Next, Callback

LEMMA ResultsInvariance == Spec => [](Inv /\ ResultsFirst)
<1>1. Init => Inv /\ ResultsFirst
  BY WorkerAssumption, InitInv DEF Init, ResultsFirst, Untaken
<1>2. Inv /\ ResultsFirst /\ [Next]_vars => (Inv /\ ResultsFirst)'
  BY WorkerAssumption, NextInv, StutterInv, NextResults
<1> QED
  BY <1>1, <1>2, PTL DEF Spec

-----------------------------------------------------------------------------
(* The bus thread                                                          *)

LEMMA IsFreeWorker ==
    ASSUME inHand = {} PROVE Contract!IsFree(asWorker)
  BY DEF Contract!IsFree, asWorker, answersInHand

LEMMA AddRefines ==
    ASSUME WorkerAssumption, Inv, NEW r \in Requests, AddUnlessKnown(r)
    PROVE  Contract!Take(r)
<1>0. TypeOK /\ MaxObjects \in Nat
  BY DEF Inv, WorkerAssumption
<1>1. heldKeys' = heldKeys \cup {r}
  <2>1. \A q \in Requests : q # r => requests'[q] = requests[q]
    BY <1>0 DEF AddUnlessKnown, TypeOK
  <2>2. requests'[r] # Absent
    BY <1>0 DEF AddUnlessKnown, TypeOK, Absent
  <2> QED
    BY <2>1, <2>2 DEF heldKeys
<1>2. answersInHand' = {[request |-> r, will |-> r \notin heldKeys]}
  BY DEF AddUnlessKnown, answersInHand, heldKeys
<1>3. tasksBegun' = tasksBegun /\ haveResults' = haveResults
  BY FinishedStays
  DEF AddUnlessKnown, timer, history, tasksBegun, statuses, haveResults,
         hasResult
<1>4. asWorker' = Contract!Took(asWorker, r)
  <2> DEFINE answer == {[request |-> r, will |-> r \notin heldKeys]}
  <2>1. asWorker.held = heldKeys
    BY DEF asWorker
  <2>2. Contract!Took(asWorker, r) =
           [asWorker EXCEPT !.held = heldKeys \cup {r}, !.answers = answer]
    BY <2>1 DEF Contract!Took
  <2>3. answersInHand' = answer
    BY <1>2
  <2> HIDE DEF answer
  <2> QED
    BY <1>1, <1>3, <2>2, <2>3 DEF asWorker
<1>5. Contract!IsFree(asWorker) /\ outgoing' = outgoing
  BY IsFreeWorker DEF AddUnlessKnown
<1> QED
  BY <1>4, <1>5 DEF Contract!Take, Contract!Quietly

LEMMA CancelRefines ==
    ASSUME WorkerAssumption, Inv, NEW r \in Requests, HandlePleaseCancel(r)
    PROVE  Contract!Cancel(r)
<1>0. TypeOK /\ Remove(r)
  BY DEF Inv, HandlePleaseCancel
<1>1. heldKeys' = heldKeys \ {r} /\ r \in heldKeys
  BY <1>0, RemoveFacts DEF HandlePleaseCancel, heldKeys
<1>2. /\ answersInHand' = answersInHand
      /\ tasksBegun' = tasksBegun /\ haveResults' = haveResults
  BY FinishedStays
  DEF HandlePleaseCancel, bus, answersInHand, tasksBegun, statuses,
         haveResults, hasResult
<1>3. asWorker' = Contract!Without(asWorker, r)
  BY <1>1, <1>2 DEF asWorker, Contract!Without
<1>4. Contract!IsFree(asWorker) /\ outgoing' = outgoing
  BY IsFreeWorker DEF HandlePleaseCancel
<1>5. r \in asWorker.held
  BY <1>1 DEF asWorker
<1> QED
  BY <1>3, <1>4, <1>5 DEF Contract!Cancel, Contract!Quietly

(* The running handler ends, and nothing else does.                        *)
LEMMA Releases ==
    ASSUME inHand' = {}, UNCHANGED <<dictionary, timer, finished>>
    PROVE  asWorker' = Contract!Released(asWorker)
<1>1. /\ heldKeys' = heldKeys /\ answersInHand' = {}
      /\ tasksBegun' = tasksBegun /\ haveResults' = haveResults
  BY DEF dictionary, timer, heldKeys, answersInHand, tasksBegun, statuses,
         haveResults, hasResult
<1> QED
  BY <1>1 DEF asWorker, Contract!Released

LEMMA ConfirmRefines ==
    ASSUME ConfirmRequest PROVE Contract!Answer
<1>1. PICK a \in inHand :
         /\ inHand' = {}
         /\ outgoing' = {Confirmation(a.request, a.known = Absent)}
         /\ UNCHANGED <<dictionary, timer, finished>>
  BY FinishedStays DEF ConfirmRequest, Publish
<1> DEFINE b == [request |-> a.request, will |-> a.known = Absent]
<1>2. b \in asWorker.answers
  BY DEF asWorker, answersInHand
<1>3. asWorker' = Contract!Released(asWorker)
  BY <1>1, Releases
<1>4. outgoing' = {Contract!Confirmation(b.request, b.will)}
  BY <1>1 DEF Confirmation, Contract!Confirmation
<1> HIDE DEF b
<1> QED
  BY <1>2, <1>3, <1>4 DEF Contract!Answer, Contract!Sending

LEMMA FailureRefines ==
    ASSUME HandlerFails PROVE Contract!Abandon
<1>1. /\ inHand # {} /\ inHand' = {} /\ outgoing' = outgoing
      /\ UNCHANGED <<dictionary, timer, finished>>
  BY FinishedStays DEF HandlerFails, history
<1>2. ~Contract!IsFree(asWorker)
  BY <1>1 DEF Contract!IsFree, asWorker, answersInHand
<1> QED
  BY <1>1, <1>2, Releases DEF Contract!Abandon, Contract!Quietly

-----------------------------------------------------------------------------
(* The timer callbacks                                                     *)

LEMMA TaskValue ==
    ASSUME NEW p \in Passes, NEW r \in Requests
    PROVE  /\ asWorker.held = heldKeys
           /\ asWorker.tasks = tasksBegun
           /\ asWorker.reported = haveResults
           /\ asWorker.tasks[p][r] = statuses(p, r)
  BY DEF asWorker, tasksBegun

(* No other task than that of p and r has moved.                           *)
OthersStay(p, r) ==
    \A v \in Passes, q \in Requests :
        v # p \/ q # r => item'[v][q] = item[v][q]

(* The task of p and r has come to n statuses, and no other one has moved. *)
HasBegun(p, r, n) == tasksBegun' = [tasksBegun EXCEPT ![p][r] = n]

LEMMA TaskMoves ==
    ASSUME NEW p \in Passes, NEW r \in Requests, OthersStay(p, r),
           NEW n, statuses(p, r)' = n
    PROVE  HasBegun(p, r, n)
<1>1. \A v \in Passes, q \in Requests :
         v # p \/ q # r => statuses(v, q)' = statuses(v, q)
  BY DEF OthersStay, statuses
<1> QED
  BY <1>1 DEF tasksBegun, HasBegun

LEMMA TakeUpRefines ==
    ASSUME WorkerAssumption, Inv, NEW p \in Passes, NEW r \in Requests,
           TakeUp(p, r)
    PROVE  Contract!TakeUp(p, r)
<1> DEFINE t == [object |-> requests[r], todo |-> "report", progress |-> 0]
<1>1. /\ TypeOK /\ requests[r] # Absent
      /\ item[p][r].todo = "over"
      /\ item' = [item EXCEPT ![p][r] = t]
      /\ UNCHANGED <<requests, inHand, outgoing, finished>>
  BY FinishedStays DEF Inv, TakeUp, Untaken, dictionary, bus, history
<1>2. /\ heldKeys' = heldKeys /\ answersInHand' = answersInHand
      /\ haveResults' = haveResults
  BY <1>1 DEF heldKeys, answersInHand, haveResults, hasResult
<1>3. Contract!CanTakeUp(asWorker, p, r)
  <2>1. statuses(p, r) = 0
    BY <1>1 DEF statuses
  <2>2. r \in heldKeys
    BY <1>1 DEF heldKeys
  <2> QED
    BY <2>1, <2>2, TaskValue DEF Contract!CanTakeUp, Contract!NoTask
<1>4. statuses(p, r)' = 1
  <2>1. item'[p][r] = t
    BY <1>1 DEF TypeOK
  <2> QED
    BY <2>1 DEF statuses
<1> HIDE DEF t
<1>5. tasksBegun' = [tasksBegun EXCEPT ![p][r] = 1]
  <2> DEFINE n == 1
  <2>1. statuses(p, r)' = n
    BY <1>4
  <2> HIDE DEF n
  <2>2. OthersStay(p, r)
    BY <1>1 DEF OthersStay, TypeOK
  <2>3. HasBegun(p, r, n)
    BY <2>1, <2>2, TaskMoves
  <2> QED
    BY <2>3 DEF n, HasBegun
<1>6. asWorker' = Contract!TakenUp(asWorker, p, r)
  BY <1>2, <1>5 DEF asWorker, Contract!TakenUp, Contract!Fresh
<1> QED
  BY <1>1, <1>3, <1>6 DEF Contract!TakeUp, Contract!Quietly

LEMMA ReportStatusRefines ==
    ASSUME WorkerAssumption, Inv, NEW p \in Passes, NEW r \in Requests,
           ReportStatus(p, r)
    PROVE  Contract!Report(p, r)
<1> DEFINE old == item[p][r]
           t == AfterStatus(old, r)
           k == old.progress
<1>1. /\ TypeOK /\ old \in Tasks /\ old.todo = "report"
      /\ outgoing' = {Status(r, k)}
      /\ UNCHANGED <<requests, inHand, finished>>
  BY WorkingTask, FinishedStays
  DEF Inv, ReportStatus, Publish, dictionary, bus, history
<1>2. item' = [item EXCEPT ![p][r] = t]
  BY <1>1 DEF TypeOK, ReportStatus
<1>3. k \in 0..Full /\ Full \in Nat
  BY <1>1, TaskTypes DEF WorkerAssumption
<1>4. /\ heldKeys' = heldKeys /\ answersInHand' = answersInHand
      /\ haveResults' = haveResults
  BY <1>1 DEF heldKeys, answersInHand, haveResults, hasResult
<1>5. statuses(p, r) = k + 1
  BY <1>1 DEF statuses
<1>6. statuses(p, r)' = k + 1 + 1
  <2>1. item'[p][r] = t
    BY <1>1, <1>2 DEF TypeOK
  <2>2. CASE k < LastStatus(r)
    <3>1. t = [old EXCEPT !.progress = @ + 1]
      BY <2>2 DEF AfterStatus
    <3>2. t.todo = "report" /\ t.progress = k + 1
      BY <1>1, <3>1 DEF Tasks
    <3> QED
      BY <2>1, <3>2 DEF statuses
  <2>3. CASE ~(k < LastStatus(r))
    <3>1. t = [old EXCEPT !.todo = "finish"]
      BY <2>3 DEF AfterStatus
    <3>2. t.todo = "finish" /\ t.progress = k
      BY <1>1, <3>1 DEF Tasks
    <3>3. statuses(p, r)' = k + 2
      BY <2>1, <3>2 DEF statuses
    <3> QED
      BY <1>3, <3>3
  <2> QED
    BY <2>2, <2>3
<1> HIDE DEF t
<1>7. tasksBegun' = [tasksBegun EXCEPT ![p][r] = k + 1 + 1]
  <2> DEFINE n == k + 1 + 1
  <2>1. statuses(p, r)' = n
    BY <1>6
  <2> HIDE DEF n
  <2>2. OthersStay(p, r)
    BY <1>1, <1>2 DEF OthersStay, TypeOK
  <2>3. HasBegun(p, r, n)
    BY <2>1, <2>2, TaskMoves
  <2> QED
    BY <2>3 DEF n, HasBegun
<1> HIDE DEF k
<1>8. asWorker' = Contract!Reported(asWorker, p, r)
  <2>1. tasksBegun[p][r] = k + 1
    BY <1>5 DEF tasksBegun
  <2> QED
    BY <1>4, <1>7, <2>1 DEF asWorker, Contract!Reported
<1>9. Contract!CanReport(asWorker, p, r)
  BY <1>3, <1>5, TaskValue DEF Contract!CanReport, Contract!Fresh
<1>10. outgoing' = {Contract!Status(r, asWorker.tasks[p][r] - Contract!Fresh)}
  <2>1. asWorker.tasks[p][r] - Contract!Fresh = k
    BY <1>3, <1>5, TaskValue DEF Contract!Fresh
  <2> QED
    BY <1>1, <2>1 DEF Status, Contract!Status, k
<1> QED
  BY <1>8, <1>9, <1>10 DEF Contract!Report, Contract!Sending

LEMMA ReportFinishedRefines ==
    ASSUME WorkerAssumption, Inv, ResultsFirst, NEW p \in Passes,
           NEW r \in Requests, ReportFinished(p, r)
    PROVE  Contract!Finish(p, r)
<1> DEFINE old == item[p][r]
           t == [old EXCEPT !.todo = "mark"]
           k == old.progress
<1>1. /\ TypeOK /\ old \in Tasks /\ old.todo = "finish"
      /\ <<r, old.object>> \in Models
      /\ outgoing' = {Outcome(r, r \in Valid)}
      /\ results' = results \cup {<<p, <<r, old.object>>>>}
      /\ UNCHANGED <<requests, inHand>>
  BY WorkingTask DEF Inv, ReportFinished, Publish, dictionary, bus
<1>2. item' = [item EXCEPT ![p][r] = t]
  BY <1>1 DEF TypeOK, ReportFinished
<1>3. k \in 0..Full /\ Full \in Nat /\ Half \in Nat /\ k >= Half
  BY <1>1, TaskTypes DEF WorkerAssumption, ResultsFirst
<1>4. heldKeys' = heldKeys /\ answersInHand' = answersInHand
  BY <1>1 DEF heldKeys, answersInHand
<1>5. haveResults' = haveResults \cup {r}
  <2> DEFINE m == <<r, old.object>>
  <2> HIDE DEF m
  <2>1. finished' = finished \cup {m}
    BY <1>1, FinishedGrows DEF m
  <2> QED
    BY <1>1, <2>1 DEF haveResults, hasResult, Models, m
<1>6. statuses(p, r) = k + 2
  BY <1>1 DEF statuses
<1>7. statuses(p, r)' = 0
  <2>1. item'[p][r] = t
    BY <1>1, <1>2 DEF TypeOK
  <2>2. t.todo = "mark"
    BY <1>1 DEF Tasks
  <2> QED
    BY <2>1, <2>2 DEF statuses
<1> HIDE DEF t
<1>8. tasksBegun' = [tasksBegun EXCEPT ![p][r] = 0]
  <2> DEFINE n == 0
  <2>1. statuses(p, r)' = n
    BY <1>7
  <2> HIDE DEF n
  <2>2. OthersStay(p, r)
    BY <1>1, <1>2 DEF OthersStay, TypeOK
  <2>3. HasBegun(p, r, n)
    BY <2>1, <2>2, TaskMoves
  <2> QED
    BY <2>3 DEF n, HasBegun
<1>9. asWorker' = Contract!Ended(asWorker, p, r)
  <2> DEFINE tasks == [tasksBegun EXCEPT ![p][r] = 0]
             reported == haveResults \cup {r}
  <2>1. Contract!Ended(asWorker, p, r) =
           [asWorker EXCEPT !.tasks = tasks, !.reported = reported]
    BY TaskValue DEF Contract!Ended, Contract!NoTask
  <2>2. tasksBegun' = tasks /\ haveResults' = reported
    BY <1>5, <1>8
  <2> HIDE DEF tasks, reported
  <2> QED
    BY <1>4, <2>1, <2>2 DEF asWorker
<1>10. Contract!CanFinish(asWorker, p, r)
  BY <1>3, <1>6, TaskValue DEF Contract!CanFinish
<1>11. outgoing' = {Contract!Outcome(r, r \in Valid)}
  BY <1>1 DEF Outcome, Contract!Outcome
<1>12. (r \in Valid) \in verdicts[r]
  BY DEF verdicts
<1> QED
  BY <1>9, <1>10, <1>11, <1>12 DEF Contract!Finish, Contract!Sending

(* What only the threads of a worker know.                                 *)
LEMMA Unnoticed ==
    ASSUME UNCHANGED <<requests, inHand, finished, outgoing>>,
           \A p \in Passes, r \in Requests : statuses(p, r)' = statuses(p, r)
    PROVE  UNCHANGED Contract!contract
<1>1. /\ heldKeys' = heldKeys /\ answersInHand' = answersInHand
      /\ tasksBegun' = tasksBegun /\ haveResults' = haveResults
  BY DEF heldKeys, answersInHand, tasksBegun, haveResults, hasResult
<1> QED
  BY <1>1 DEF Contract!contract, asWorker

LEMMA MarkUnnoticed ==
    ASSUME WorkerAssumption, Inv, NEW p \in Passes, NEW r \in Requests,
           MarkProcessed(p, r)
    PROVE  UNCHANGED Contract!contract
<1> DEFINE old == item[p][r]
           t == [old EXCEPT !.todo = "over"]
<1>1. /\ TypeOK /\ old \in Tasks /\ old.todo = "mark"
      /\ UNCHANGED <<requests, inHand, finished, outgoing>>
  BY WorkingTask, FinishedStays DEF Inv, MarkProcessed, bus, history
<1>2. item' = [item EXCEPT ![p][r] = t]
  BY <1>1 DEF TypeOK, MarkProcessed
<1>3. t.todo = "over"
  BY <1>1 DEF Tasks
<1> HIDE DEF t
<1>4. \A v \in Passes, q \in Requests :
         \/ item'[v][q] = item[v][q]
         \/ item[v][q].todo = "mark" /\ item'[v][q].todo = "over"
  BY <1>1, <1>2, <1>3 DEF TypeOK
<1>5. \A v \in Passes, q \in Requests : statuses(v, q)' = statuses(v, q)
  BY <1>4 DEF statuses
<1> QED
  BY <1>1, <1>5, Unnoticed

LEMMA ListUnnoticed ==
    ASSUME WorkerAssumption, Inv, NEW p \in Passes, ListProcessed(p)
    PROVE  UNCHANGED Contract!contract
<1>1. /\ TypeOK
      /\ \A q \in Requests : item[p][q].todo = "over"
      /\ item' = [item EXCEPT ![p] = [r \in Requests |-> Untaken]]
      /\ UNCHANGED <<requests, inHand, finished, outgoing>>
  BY FinishedStays DEF Inv, ListProcessed, dictionary, bus, history
<1>2. \A v \in Passes, q \in Requests :
         \/ item'[v][q] = item[v][q]
         \/ item[v][q].todo = "over" /\ item'[v][q].todo = "over"
  BY <1>1 DEF TypeOK, Untaken
<1>3. \A v \in Passes, q \in Requests : statuses(v, q)' = statuses(v, q)
  BY <1>2 DEF statuses
<1> QED
  BY <1>1, <1>3, Unnoticed

LEMMA ThrowOutRefines ==
    ASSUME WorkerAssumption, Inv, ResultsFirst, NEW p \in Passes,
           NEW r \in Requests, ThrowOut(p, r)
    PROVE  Contract!Drop(r) \/ UNCHANGED Contract!contract
<1>1. /\ TypeOK /\ Remove(r) /\ hasResult(r)
      /\ UNCHANGED <<inHand, item, finished, outgoing>>
  BY FinishedStays DEF Inv, ResultsFirst, ThrowOut, bus, history
<1>2. /\ heldKeys' = heldKeys \ {r}
      /\ answersInHand' = answersInHand
      /\ tasksBegun' = tasksBegun /\ haveResults' = haveResults
  BY <1>1, RemoveFacts DEF heldKeys, answersInHand, tasksBegun, statuses,
                           haveResults, hasResult
<1>3. CASE r \in heldKeys
  <2>1. asWorker' = Contract!Without(asWorker, r)
    BY <1>2 DEF asWorker, Contract!Without
  <2>2. Contract!CanDrop(asWorker, r)
    BY <1>1, <1>3 DEF Contract!CanDrop, asWorker, haveResults
  <2> QED
    BY <1>1, <2>1, <2>2 DEF Contract!Drop, Contract!Quietly
<1>4. CASE r \notin heldKeys
  <2>1. heldKeys' = heldKeys
    BY <1>2, <1>4
  <2> QED
    BY <1>1, <1>2, <2>1 DEF Contract!contract, asWorker
<1> QED
  BY <1>3, <1>4

LEMMA CrashRefines ==
    ASSUME Crash PROVE Contract!Restart
<1>1. /\ heldKeys' = {} /\ answersInHand' = {}
      /\ haveResults' = haveResults /\ outgoing' = outgoing
  BY FinishedStays
  DEF Crash, history, heldKeys, answersInHand, haveResults, hasResult
<1>2. tasksBegun' = [p \in Passes |-> [r \in Requests |-> 0]]
  BY DEF Crash, tasksBegun, statuses, Untaken
<1>3. asWorker' = Contract!Restarted(asWorker)
  BY <1>1, <1>2 DEF asWorker, Contract!Restarted, Contract!NewWorker,
                    Contract!NoTask
<1> QED
  BY <1>1, <1>3 DEF Contract!Restart, Contract!Quietly

-----------------------------------------------------------------------------
(* The refinement                                                          *)

LEMMA InitRefines == ASSUME Init PROVE Contract!Init
<1>1. /\ heldKeys = {} /\ answersInHand = {} /\ haveResults = {}
      /\ outgoing = {}
  BY DEF Init, heldKeys, answersInHand, haveResults, hasResult, finished
<1>2. tasksBegun = [p \in Passes |-> [r \in Requests |-> 0]]
  BY DEF Init, tasksBegun, statuses, Untaken
<1> QED
  BY <1>1, <1>2 DEF Contract!Init, Contract!NewWorker, Contract!NoTask,
                    asWorker

LEMMA NextRefines ==
    ASSUME WorkerAssumption, Inv, ResultsFirst, [Next]_vars
    PROVE  [Contract!Next]_(Contract!contract)
<1>1. CASE UNCHANGED vars
  <2>1. UNCHANGED <<requests, inHand, finished, outgoing, item>>
    BY <1>1, FinishedStays DEF vars, dictionary, bus, timer, history
  <2> QED
    BY <2>1, Unnoticed DEF statuses
<1>2. CASE Handler
  BY <1>2, AddRefines, CancelRefines, ConfirmRefines, FailureRefines
     DEF Handler, HandlePlease, HandlePleaseAgain, Contract!Next
<1>3. ASSUME NEW p \in Passes, TimerFires(p) \/ EndPass(p)
      PROVE  UNCHANGED Contract!contract
  <2>1. UNCHANGED <<requests, inHand, finished, outgoing, item>>
    BY <1>3, FinishedStays DEF TimerFires, EndPass, dictionary, bus, history
  <2> QED
    BY <2>1, Unnoticed DEF statuses
<1>4. ASSUME NEW p \in Passes, NEW r \in Requests, Task(p, r)
      PROVE  Contract!Next \/ UNCHANGED Contract!contract
  BY <1>4, TakeUpRefines, ReportStatusRefines, ReportFinishedRefines,
     MarkUnnoticed DEF Task, Contract!Next
<1>5. ASSUME NEW p \in Passes, NEW r \in Requests, ThrowOut(p, r)
      PROVE  Contract!Next \/ UNCHANGED Contract!contract
  BY <1>5, ThrowOutRefines DEF Contract!Next
<1>6. CASE Crash
  BY <1>6, CrashRefines DEF Contract!Next
<1> QED
  BY <1>1, <1>2, <1>3, <1>4, <1>5, <1>6, ListUnnoticed DEF Next, Callback

(* Overlapping passes, tasks that outlive a cancellation, retries and      *)
(* restarts included, a worker does nothing but what WorkerContract allows *)
(* it: Pipeline may put the contract in the place of its threads.          *)
THEOREM KeepsContractSafely == Spec => Contract!SafeSpec
<1>1. Init => Contract!Init
  BY InitRefines
<1>2. Inv /\ ResultsFirst /\ [Next]_vars
         => [Contract!Next]_(Contract!contract)
  BY NextRefines, WorkerAssumption
<1> QED
  BY <1>1, <1>2, ResultsInvariance, PTL DEF Spec, Contract!SafeSpec

=============================================================================
