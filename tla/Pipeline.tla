------------------------------ MODULE Pipeline ------------------------------
(***************************************************************************)
(* The server and its four workers, each with its input queue.  The saga   *)
(* is TestingRequestSaga, a worker is what WorkerContract promises of it.  *)
(*                                                                         *)
(* Queues are transactional: nothing is lost, and what one endpoint sends  *)
(* another stays in order.  Messages of different workers overtake each    *)
(* other freely, so the server's queue is one queue per worker.  Within an *)
(* endpoint the bus thread and the passes send independently.              *)
(***************************************************************************)
EXTENDS TestingRequestSaga, SequencesExt

CONSTANTS
    Passes,        \* timer callbacks of a worker that can be active at once
    FewestStatuses, MostStatuses,
                   \* how many statuses a task reports
    Running,       \* the stages whose worker's endpoint is up; messages for
                   \* the others stay in their queues
    Prompt,        \* whether a handler commits before a pass reports the
                   \* last status: it has several seconds
    MaxInTransit,  \* bound: messages on their way from a worker
    MaxCancels, MaxRestarts, MaxFailures, MaxCrashes
                   \* bounds: the user's commands, handlers that fail,
                   \* restarts of workers

ASSUME PipelineAssumption ==
    /\ FewestStatuses \in Nat \ {0}
    /\ MostStatuses \in Nat
    /\ FewestStatuses <= MostStatuses
    /\ 0..(MostStatuses - 1) \subseteq Progress
    /\ Running \subseteq Stages
    /\ Prompt \in BOOLEAN
    /\ {MaxInTransit, MaxCancels, MaxRestarts, MaxFailures, MaxCrashes}
          \subseteq Nat

VARIABLES
    workers,       \* the state of each stage's worker
    toWorker,      \* each worker's input queue
    toServer,      \* what each worker has sent and the server not received
    cancels, restarts, failures, crashes,  \* so far
    entry          \* history: what became of the first entry that a worker
                   \* made for a request; "heard" is one of which a status
                   \* has followed the confirmation

W == INSTANCE WorkerState WITH Verdicts <- [r \in Requests |-> BOOLEAN]

saga == vars
queues == <<toWorker, toServer>>
counts == <<cancels, restarts, failures, crashes>>
pipeline == <<saga, workers, queues, counts, entry>>

-----------------------------------------------------------------------------
(* Queues                                                                  *)

PleaseWork(r) == [kind |-> "Please", request |-> r]
PleaseStop(r) == [kind |-> "PleaseCancel", request |-> r]

(* Operators named ...Variant are plausible slips, each in place of the    *)
(* definition after it: the properties must notice them.                   *)

LettersVariant(sent, s, r) ==
    (IF Asks(sent, s, r) THEN <<PleaseWork(r)>> ELSE <<>>)
    \o (IF PleaseCancel(s, r) \in sent THEN <<PleaseStop(r)>> ELSE <<>>)

LettersStopVariant(sent, s, r) ==
    IF PleaseCancel(s, r) \in sent THEN <<PleaseStop(r)>>
    ELSE IF Asks(sent, s, r) THEN <<PleaseWork(r)>> ELSE <<>>

(* What a handler sends the worker of stage s: StopAllOperations comes     *)
(* first.                                                                  *)
Letters(sent, s, r) ==
    (IF PleaseCancel(s, r) \in sent THEN <<PleaseStop(r)>> ELSE <<>>)
    \o (IF Asks(sent, s, r) THEN <<PleaseWork(r)>> ELSE <<>>)

Deliver(r) ==
    toWorker' = [s \in Stages |-> toWorker[s] \o Letters(outgoing', s, r)]

HasRoom(s) == Len(toServer[s]) < MaxInTransit

Reply(s, m) == toServer' = [toServer EXCEPT ![s] = Append(@, m)]

FirstEntry(first, isHeld, isHeard) ==
    CASE first = "none" -> IF isHeld THEN "unheard" ELSE "none"
      [] ~isHeld -> "gone"
      [] first = "unheard" /\ isHeard -> "heard"
      [] OTHER -> first

SetWorkerHeard(s, w, heard) ==
    /\ workers' = [workers EXCEPT ![s] = w]
    /\ entry' = [entry EXCEPT ![s] = [r \in Requests |->
                    FirstEntry(entry[s][r], r \in w.held, r \in heard)]]

SetWorker(s, w) == SetWorkerHeard(s, w, {})

-----------------------------------------------------------------------------
(* The server                                                              *)

Submit(r) ==
    /\ \E path \in Paths : HandlePleaseDoTests(r, path)
    /\ Deliver(r)
    /\ UNCHANGED <<workers, toServer, counts, entry>>

CancelByUser(r) ==
    /\ cancels < MaxCancels
    /\ cancels' = cancels + 1
    /\ HandlePleaseCancelTests(r) \/ StopAllOperationsFails(r)
    /\ Deliver(r)
    /\ UNCHANGED <<workers, toServer, restarts, failures, crashes, entry>>

RestartByUser(r) ==
    /\ restarts < MaxRestarts
    /\ restarts' = restarts + 1
    /\ HandlePleaseRestart(r)
    /\ Deliver(r)
    /\ UNCHANGED <<workers, toServer, cancels, failures, crashes, entry>>

TimeoutFires(r) ==
    /\ Timeout(r)
    /\ Deliver(r)
    /\ UNCHANGED <<workers, toServer, counts, entry>>

(* The server's handler of a worker's message, past its early return.      *)
HandleReply(s, m) ==
    \/ /\ m.kind = "Confirmation"
       /\ \E c \in Confirmations :
             /\ c.will = m.will
             /\ HandleConfirmation(s, m.request, c.will, c.reason)
    \/ /\ m.kind = "Status"
       /\ HandleStatus(s, m.request, m.progress)
       /\ WatchForTestingLoop(s, m.request)
    \/ /\ m.kind = "Finished"
       /\ \E o \in Outcomes :
             /\ o.ok = m.ok
             /\ HandleFinished(s, m.request, o.ok, o.reason, o.path)

Accepts(s, m) ==
    /\ m.request \in sagas
    /\ state[m.request] \in CASE m.kind = "Confirmation" ->
                                    AcceptsConfirmation(s)
                              [] m.kind = "Status" -> AcceptsStatus(s)
                              [] m.kind = "Finished" -> AcceptsFinished(s)

ServerReceives(s) ==
    /\ toServer[s] # <<>>
    /\ toServer' = [toServer EXCEPT ![s] = Tail(@)]
    /\ LET m == Head(toServer[s])
       IN  \/ HandleReply(s, m) /\ Deliver(m.request)
           \/ ~Accepts(s, m) /\ UNCHANGED <<saga, toWorker>>
    /\ UNCHANGED <<workers, counts, entry>>

-----------------------------------------------------------------------------
(* The workers                                                             *)

WorkerReceives(s) ==
    /\ toWorker[s] # <<>>
    /\ W!IsFree(workers[s])
    /\ LET m == Head(toWorker[s])
       IN  SetWorker(s, IF m.kind = "Please" THEN W!Took(workers[s], m.request)
                        ELSE W!Without(workers[s], m.request))
    /\ toWorker' = [toWorker EXCEPT ![s] = Tail(@)]
    /\ UNCHANGED <<saga, toServer, counts>>

WorkerAnswers(s) ==
    /\ HasRoom(s)
    /\ \E a \in workers[s].answers :
          Reply(s, W!Confirmation(a.request, a.will))
    /\ SetWorker(s, W!Released(workers[s]))
    /\ UNCHANGED <<saga, toWorker, counts>>

(* The message in hand, if any, is the first to be received again.         *)
InHand(w) == [i \in 1..Cardinality(w.answers) |->
                 PleaseWork((CHOOSE a \in w.answers : TRUE).request)]

RedeliverVariant(s) == UNCHANGED toWorker

Redeliver(s) ==
    toWorker' = [toWorker EXCEPT ![s] = InHand(workers[s]) \o @]

WorkerFails(s) ==
    /\ ~W!IsFree(workers[s])
    /\ failures < MaxFailures
    /\ failures' = failures + 1
    /\ Redeliver(s)
    /\ SetWorker(s, W!Released(workers[s]))
    /\ UNCHANGED <<saga, toServer, cancels, restarts, crashes>>

WorkerCrashes(s) ==
    /\ crashes < MaxCrashes
    /\ crashes' = crashes + 1
    /\ Redeliver(s)
    /\ SetWorker(s, W!Restarted(workers[s]))
    /\ UNCHANGED <<saga, toServer, cancels, restarts, failures>>

PassTakesUp(s, p, r) ==
    /\ W!CanTakeUp(workers[s], p, r)
    /\ SetWorker(s, W!TakenUp(workers[s], p, r))
    /\ UNCHANGED <<saga, queues, counts>>

IsAnswered(s, r) == \A a \in workers[s].answers : a.request # r

PassReportsVariant(s, p, r) ==
    /\ HasRoom(s)
    /\ W!CanReport(workers[s], p, r)
    /\ Reply(s, W!Status(r, workers[s].tasks[p][r] - W!Fresh))
    /\ SetWorker(s, W!Reported(workers[s], p, r))
    /\ UNCHANGED <<saga, toWorker, counts>>

PassReports(s, p, r) ==
    /\ HasRoom(s)
    /\ W!CanReport(workers[s], p, r)
    /\ Prompt => IsAnswered(s, r) \/ workers[s].tasks[p][r] < FewestStatuses
    /\ Reply(s, W!Status(r, workers[s].tasks[p][r] - W!Fresh))
    /\ SetWorkerHeard(s, W!Reported(workers[s], p, r),
                      IF IsAnswered(s, r) THEN {r} ELSE {})
    /\ UNCHANGED <<saga, toWorker, counts>>

PassFinishes(s, p, r) ==
    /\ HasRoom(s)
    /\ W!CanFinish(workers[s], p, r)
    /\ \E ok \in BOOLEAN : Reply(s, W!Outcome(r, ok))
    /\ SetWorker(s, W!Ended(workers[s], p, r))
    /\ UNCHANGED <<saga, toWorker, counts>>

PassDrops(s, r) ==
    /\ W!CanDrop(workers[s], r)
    /\ SetWorker(s, W!Without(workers[s], r))
    /\ UNCHANGED <<saga, queues, counts>>

-----------------------------------------------------------------------------
PipelineInit ==
    /\ Init
    /\ workers = [s \in Stages |-> W!NewWorker]
    /\ toWorker = [s \in Stages |-> <<>>]
    /\ toServer = [s \in Stages |-> <<>>]
    /\ cancels = 0 /\ restarts = 0 /\ failures = 0 /\ crashes = 0
    /\ entry = [s \in Stages |-> [r \in Requests |-> "none"]]

ServerActs(r) ==
    Submit(r) \/ CancelByUser(r) \/ RestartByUser(r) \/ TimeoutFires(r)

PassActs(s, p, r) ==
    PassTakesUp(s, p, r) \/ PassReports(s, p, r) \/ PassFinishes(s, p, r)

WorkerActs(s) ==
    \/ WorkerReceives(s)
    \/ WorkerAnswers(s)
    \/ WorkerFails(s)
    \/ WorkerCrashes(s)
    \/ \E r \in Requests :
          PassDrops(s, r) \/ \E p \in Passes : PassActs(s, p, r)

PipelineNext ==
    \/ \E r \in Requests : ServerActs(r)
    \/ \E s \in Running : ServerReceives(s) \/ WorkerActs(s)

(* Endpoints receive what is in their queues, timeouts come due, handlers  *)
(* get through, and passes go on.  Users need not act, nothing must fail.  *)
PipelineFairness ==
    /\ \A r \in Requests : WF_pipeline(TimeoutFires(r))
    /\ \A s \in Running :
          /\ WF_pipeline(ServerReceives(s))
          /\ WF_pipeline(WorkerReceives(s))
          /\ WF_pipeline(WorkerAnswers(s))
          /\ \A r \in Requests :
                /\ WF_pipeline(PassDrops(s, r))
                /\ \A p \in Passes :
                      /\ WF_pipeline(PassTakesUp(s, p, r))
                      /\ WF_pipeline(PassReports(s, p, r)
                                     \/ PassFinishes(s, p, r))

PipelineSpec == PipelineInit /\ [][PipelineNext]_pipeline /\ PipelineFairness

-----------------------------------------------------------------------------
(* Properties                                                              *)

Letter == [kind : {"Please", "PleaseCancel"}, request : Requests]

Replies ==
    [kind : {"Confirmation"}, request : Requests, will : BOOLEAN]
    \cup [kind : {"Status"}, request : Requests,
          progress : 0..(MostStatuses - 1)]
    \cup [kind : {"Finished"}, request : Requests, ok : BOOLEAN]

Entries == {"none", "unheard", "heard", "gone"}

(* The saga, the workers and the queues hold what they can hold.           *)
PipelineTypeOK ==
    /\ TypeOK
    /\ workers \in [Stages -> W!Workers]
    /\ toWorker \in [Stages -> Seq(Letter)]
    /\ toServer \in [Stages -> Seq(Replies)]
    /\ cancels \in 0..MaxCancels
    /\ restarts \in 0..MaxRestarts
    /\ failures \in 0..MaxFailures
    /\ crashes \in 0..MaxCrashes
    /\ entry \in [Stages -> [Requests -> Entries]]

(* As long as no handler is retried, no worker declines a request: the     *)
(* saga asks for each stage once in a run, and a cancellation reaches a    *)
(* worker before the request of the next run.  It takes the order of the   *)
(* queues, the saga's early returns and the worker's dictionary together.  *)
NobodyDeclines ==
    failures = 0 =>
        \A s \in Stages :
            /\ \A a \in workers[s].answers : a.will
            /\ \A i \in 1..Len(toServer[s]) :
                  toServer[s][i].kind = "Confirmation" => toServer[s][i].will

(* The inductive strengthening of the invariants above.                    *)

(* A handler answers one request at a time.                                *)
OneInHand == \A s \in Stages : \A a, b \in workers[s].answers : a = b

(* The requests that a worker has in its dictionary, or would find there   *)
(* if it had to handle its message in hand again.                          *)
Known(w) == w.held \cup {a.request : a \in w.answers}

IsStopped(letters, r, from, to) ==
    \E j \in 1..Len(letters) :
        from < j /\ j < to /\ letters[j] = PleaseStop(r)

(* When the worker comes to the n-th letter of its queue, a cancellation   *)
(* has followed whatever made it know r.                                   *)
HasForgotten(letters, known, r, n) ==
    /\ r \in known => IsStopped(letters, r, 0, n)
    /\ \A k \in 1..Len(letters) :
          k < n /\ letters[k] = PleaseWork(r) => IsStopped(letters, r, k, n)

IsAskedAnew(letters, known, r) ==
    \A i \in 1..Len(letters) :
        letters[i] = PleaseWork(r) => HasForgotten(letters, known, r, i)

(* Each request in the queue of a worker comes when the worker has         *)
(* forgotten those before, and so would the one that the saga may send.    *)
AskedAnew ==
    \A s \in Stages, r \in Requests :
        LET letters == toWorker[s]
            known == Known(workers[s])
        IN  /\ IsAskedAnew(letters, known, r)
            /\ asked[r][s] = 0
                  => HasForgotten(letters, known, r, Len(letters) + 1)

PipelineInv ==
    /\ PipelineTypeOK /\ AskedInv /\ OneInHand /\ NobodyDeclines
    /\ failures = 0 => AskedAnew

(* The state that a saga in state x enters on a message of stage s.        *)
After(s, x, m) ==
    CASE m.kind = "Confirmation" /\ x \in AcceptsConfirmation(s) ->
            IF m.will THEN Started(s) ELSE Failed
      [] m.kind = "Status" /\ x \in AcceptsStatus(s) -> InProgress(s)
      [] m.kind = "Finished" /\ x \in AcceptsFinished(s) ->
            IF m.ok THEN Done(s) ELSE Failed
      [] OTHER -> x

(* Where r will be when all that worker s has sent so far is received.     *)
Reached(s, r) ==
    FoldLeft(LAMBDA x, m : IF m.request = r THEN After(s, x, m) ELSE x,
             state[r], toServer[s])

IsQueued(s, letter) == \E i \in 1..Len(toWorker[s]) : toWorker[s][i] = letter

(* Enough is under way to take the saga of r out of stage s: its request,  *)
(* or a no, or the answer and an entry that a pass will take up or a task  *)
(* that has yet to publish what the saga waits for.                        *)
IsServed(s, r) ==
    LET x == Reached(s, r)
        w == workers[s]
    IN  \/ x \notin AtWork(s)
        \/ IsQueued(s, PleaseWork(r))
        \/ x = Awaited(s) /\ [request |-> r, will |-> FALSE] \in w.answers
        \/ /\ ~IsQueued(s, PleaseStop(r))
           /\ x = Awaited(s) => ~IsAnswered(s, r)
           /\ \/ r \in w.held
              \/ x = Started(s) /\ \E p \in Passes : w.tasks[p][r] = W!Fresh
              \/ x = InProgress(s) /\ \E p \in Passes :
                                          w.tasks[p][r] # W!NoTask

IsOrphaned(s, r) ==
    r \in sagas /\ state[r] \in AtWork(s) /\ ~IsServed(s, r)

(* A saga that waits for a worker comes to wait in vain in three ways: the *)
(* worker is restarted, a pass removes an entry that was made anew, or a   *)
(* pass removes an entry all of whose statuses overtook its confirmation.  *)
(* No cancellation, restart or timeout, no failing handler and no early    *)
(* return does it, nor the removal of a worker's first entry for a request *)
(* once a status has followed the confirmation.                            *)
OnlyWorkersOrphan ==
    [][\A s \in Stages, r \in Requests :
          IsOrphaned(s, r)' =>
              \/ IsOrphaned(s, r)
              \/ WorkerCrashes(s)
              \/ PassDrops(s, r) /\ entry[s][r] # "heard"]_pipeline

(* When handlers commit in time, workers are not restarted and the user    *)
(* restarts nothing, then every stage a request comes to comes to an end.  *)
StagesEnd ==
    \A s \in Running, r \in Requests :
        []<>~(r \in sagas /\ state[r] \in AtWork(s))

=============================================================================
