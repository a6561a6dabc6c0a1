----------------------------- MODULE WorkerState -----------------------------
(***************************************************************************)
(* A worker as its state and the steps that change it, without the         *)
(* worker's threads, its RequestModels and its removal list.  The steps    *)
(* are operators on the state, so that several workers can be composed;    *)
(* WorkerContract says when one worker takes which step.                   *)
(***************************************************************************)
EXTENDS Naturals

CONSTANTS
    Requests,
    Passes,      \* timer callbacks that can be active at the same time
    Verdicts,    \* the results a request can have, a set for each request
    FewestStatuses, MostStatuses
                 \* how many statuses a task reports

Confirmation(r, will) ==
    [kind |-> "Confirmation", request |-> r, will |-> will]
Status(r, k) == [kind |-> "Status", request |-> r, progress |-> k]
Outcome(r, ok) == [kind |-> "Finished", request |-> r, ok |-> ok]

(* A task is a number: none, or one more than the statuses it reported.    *)
NoTask == 0
Fresh == 1

Workers ==
    [held : SUBSET Requests,       \* the keys of the dictionary
     answers : SUBSET [request : Requests, will : BOOLEAN],
                                   \* what the running handler will answer
     tasks : [Passes -> [Requests -> 0..(MostStatuses + 1)]],
     reported : SUBSET Requests]   \* those that ever had a result

NewWorker ==
    [held |-> {}, answers |-> {},
     tasks |-> [p \in Passes |-> [r \in Requests |-> NoTask]],
     reported |-> {}]

-----------------------------------------------------------------------------
(* The steps of a worker w.                                                *)

IsFree(w) == w.answers = {}

Took(w, r) ==
    [w EXCEPT !.held = @ \cup {r},
              !.answers = {[request |-> r, will |-> r \notin w.held]}]

(* The handler is through, or has failed.                                  *)
Released(w) == [w EXCEPT !.answers = {}]

(* Cancelled by the server, or removed after a pass.                       *)
Without(w, r) == [w EXCEPT !.held = @ \ {r}]

CanTakeUp(w, p, r) == r \in w.held /\ w.tasks[p][r] = NoTask

TakenUp(w, p, r) == [w EXCEPT !.tasks[p][r] = Fresh]

(* Operators named ...Variant are plausible slips, each in place of the    *)
(* definition after it: the properties must notice them.                   *)

CanReportVariant(w, p, r) == w.tasks[p][r] >= Fresh

CanReport(w, p, r) == w.tasks[p][r] \in Fresh..MostStatuses

Reported(w, p, r) == [w EXCEPT !.tasks[p][r] = @ + 1]

CanFinish(w, p, r) == w.tasks[p][r] > FewestStatuses

Ended(w, p, r) ==
    [w EXCEPT !.tasks[p][r] = NoTask, !.reported = @ \cup {r}]

CanDrop(w, r) == r \in w.held \cap w.reported

Restarted(w) == [NewWorker EXCEPT !.reported = w.reported]

=============================================================================
