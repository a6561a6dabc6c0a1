--------------------------- MODULE WorkerContract ---------------------------
(***************************************************************************)
(* What the server may rely on of a worker.  It answers a request with yes *)
(* if and only if it did not hold it; what it holds is taken up again and  *)
(* again until it is dropped; each time it reports statuses that count up  *)
(* from 0 and then one result.  It may drop a request once  *)
(* it has published any result for it, and forgets everything when its     *)
(* process ends.                                                           *)
(***************************************************************************)
EXTENDS WorkerState

VARIABLES
    worker,      \* the state of the worker, a record
    outgoing     \* the messages of its last step that sent any

contract == <<worker, outgoing>>

-----------------------------------------------------------------------------
Quietly(w) == worker' = w /\ UNCHANGED outgoing

Sending(w, m) == worker' = w /\ outgoing' = {m}

Take(r) == IsFree(worker) /\ Quietly(Took(worker, r))

Answer ==
    \E a \in worker.answers :
        Sending(Released(worker), Confirmation(a.request, a.will))

Abandon == ~IsFree(worker) /\ Quietly(Released(worker))

Cancel(r) ==
    IsFree(worker) /\ r \in worker.held /\ Quietly(Without(worker, r))

TakeUp(p, r) == CanTakeUp(worker, p, r) /\ Quietly(TakenUp(worker, p, r))

Report(p, r) ==
    /\ CanReport(worker, p, r)
    /\ Sending(Reported(worker, p, r), Status(r, worker.tasks[p][r] - Fresh))

Finish(p, r) ==
    /\ CanFinish(worker, p, r)
    /\ \E ok \in Verdicts[r] : Sending(Ended(worker, p, r), Outcome(r, ok))

Drop(r) == CanDrop(worker, r) /\ Quietly(Without(worker, r))

Restart == Quietly(Restarted(worker))

Init == worker = NewWorker /\ outgoing = {}

Next ==
    \/ \E r \in Requests : Take(r) \/ Cancel(r) \/ Drop(r)
    \/ Answer
    \/ Abandon
    \/ \E p \in Passes, r \in Requests :
          TakeUp(p, r) \/ Report(p, r) \/ Finish(p, r)
    \/ Restart

SafeSpec == Init /\ [][Next]_contract

(* A handler gets through, what is held is taken up and dropped in the     *)
(* end, and a task that was begun publishes its statuses and its result.   *)
Spec ==
    /\ SafeSpec
    /\ WF_contract(Answer)
    /\ \A r \in Requests :
          /\ WF_contract(Drop(r))
          /\ \A p \in Passes :
                /\ WF_contract(TakeUp(p, r))
                /\ WF_contract(Report(p, r) \/ Finish(p, r))

=============================================================================
