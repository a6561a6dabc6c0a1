----------------------------- MODULE StageWorker -----------------------------
(***************************************************************************)
(* One worker of IronTester: the Validator, Initializer, Builder and       *)
(* Tester endpoints are the same program but for the names of their        *)
(* messages and the lists they check a request against.                    *)
(*                                                                         *)
(* Three kinds of threads share the dictionary Requests: the bus thread    *)
(* that handles IPlease... and IPleaseCancel messages, one at a time; the  *)
(* timer callbacks, one every 60 seconds whether or not the last one is    *)
(* through, called passes here; and the tasks of Parallel.ForEach, one for *)
(* each request a pass has taken up.  A handler's messages are sent when   *)
(* its transaction commits; a pass has no transaction and sends at once.   *)
(* What a handler did to the dictionary is not undone by a rollback.       *)
(***************************************************************************)
EXTENDS Integers, FiniteSets

CONSTANTS
    Requests,      \* request ids
    Valid,         \* those whose tests or path are in the lists of
                   \* ValidationData that this worker consults
    Passes,        \* timer callbacks that can be active at the same time
    Half, Full,    \* the statuses are 0..Half, and up to Full if valid: 5
                   \* and 10 in the code, for 50 and 100 per cent
    MaxObjects,    \* bound: entries made for one request
    MaxFailures,   \* bound: handlers that fail and are retried
    MaxCrashes     \* bound: restarts of the endpoint

ASSUME WorkerAssumption ==
    /\ Valid \subseteq Requests
    /\ Half \in Nat /\ Full \in Nat /\ Half < Full
    /\ MaxObjects \in Nat /\ MaxFailures \in Nat /\ MaxCrashes \in Nat

VARIABLES
    requests,    \* the dictionary: the entry under each request id, as the
                 \* number of the RequestModel, 0 if there is none
    created,     \* how many RequestModels were made for each request
    processed,   \* the RequestModels with WasProcessed set
    inHand,      \* what the running IPlease... handler is about to answer;
                 \* empty if none runs
    retries,     \* how many IPlease... messages wait for their redelivery
    pass,        \* what each timer callback is doing
    due,         \* the keys its enumeration must still come to
    item,        \* its tasks, one for each request
    sweep,       \* requestsToBeRemoved, what is left of it
    failures, crashes,  \* so far
    outgoing,    \* the messages of the last step that sent any
    cancelled, results
                 \* history: the RequestModels that a cancellation removed,
                 \* and the results sent, as timer callback and RequestModel

dictionary == <<requests, created, processed>>
bus == <<inHand, retries>>
timer == <<pass, due, item, sweep>>
history == <<cancelled, results>>
vars == <<dictionary, bus, timer, failures, crashes, outgoing, history>>

-----------------------------------------------------------------------------
Absent == 0
Objects == 1..MaxObjects
Models == Requests \X Objects

HasPublished(p, r, o) == <<p, <<r, o>>>> \in results

(* The RequestModels whose result was sent.                                *)
finished == {m \in Models : \E p \in Passes : <<p, m>> \in results}

Confirmation(r, will) ==
    [kind |-> "Confirmation", request |-> r, will |-> will]
Status(r, k) == [kind |-> "Status", request |-> r, progress |-> k]
Outcome(r, ok) == [kind |-> "Finished", request |-> r, ok |-> ok]

Messages ==
    [kind : {"Confirmation"}, request : Requests, will : BOOLEAN]
    \cup [kind : {"Status"}, request : Requests, progress : 0..Full]
    \cup [kind : {"Finished"}, request : Requests, ok : BOOLEAN]

(* What a handler found: the entry that makes it decline, or Absent.       *)
Answers == [request : Requests, known : Objects \cup {Absent}]

(* A task of a pass: the RequestModel that its enumeration captured, and   *)
(* what the task does next.                                                *)
Untaken == [object |-> Absent, todo |-> "over", progress |-> 0]
Tasks == [object : Objects \cup {Absent},
          todo : {"report", "finish", "mark", "over"}, progress : 0..Full]

Publish(sent) == outgoing' = sent

(* TryRemove of the entry under r, from every enumeration's way.           *)
Remove(r) ==
    /\ requests' = [requests EXCEPT ![r] = Absent]
    /\ due' = [p \in Passes |-> due[p] \ {r}]

-----------------------------------------------------------------------------
(* The bus thread                                                          *)

(* Operators named ...Variant are plausible slips, each in place of the    *)
(* definition after it: the properties must notice them.                   *)

(* ContainsKey and TryAdd: no other thread adds entries.                   *)
AddUnlessKnown(r) ==
    /\ inHand = {}
    /\ inHand' = {[request |-> r, known |-> requests[r]]}
    /\ IF requests[r] = Absent
       THEN /\ created[r] < MaxObjects
            /\ created' = [created EXCEPT ![r] = @ + 1]
            /\ requests' = [requests EXCEPT ![r] = created'[r]]
       ELSE UNCHANGED <<requests, created>>
    /\ UNCHANGED <<processed, timer, failures, crashes, outgoing, history>>

HandlePlease(r) == AddUnlessKnown(r) /\ UNCHANGED retries

(* The message of a handler that failed is delivered again.                *)
HandlePleaseAgain(r) ==
    /\ retries[r] > 0
    /\ AddUnlessKnown(r)
    /\ retries' = [retries EXCEPT ![r] = @ - 1]

(* The handler's transaction commits and its confirmation leaves.          *)
ConfirmRequest ==
    \E a \in inHand :
        /\ inHand' = {}
        /\ Publish({Confirmation(a.request, a.known = Absent)})
        /\ UNCHANGED <<dictionary, retries, timer, failures, crashes,
                       cancelled, results>>

(* The message in hand, if any, goes back to its queue.                    *)
Redeliver ==
    retries' = [r \in Requests |->
                   IF \E a \in inHand : a.request = r
                   THEN retries[r] + 1 ELSE retries[r]]

(* The publish or the commit fails: the handler's transaction rolls back.  *)
HandlerFails ==
    /\ inHand # {}
    /\ failures < MaxFailures
    /\ failures' = failures + 1
    /\ inHand' = {}
    /\ Redeliver
    /\ UNCHANGED <<dictionary, timer, crashes, outgoing, history>>

HandlePleaseCancel(r) ==
    /\ inHand = {}
    /\ requests[r] # Absent
    /\ Remove(r)
    /\ cancelled' = cancelled \cup {<<r, requests[r]>>}
    /\ UNCHANGED <<created, processed, bus, pass, item, sweep, failures,
                   crashes, outgoing, results>>

-----------------------------------------------------------------------------
(* The timer callbacks and their tasks                                     *)

TimerFires(p) ==
    /\ pass[p] = "idle"
    /\ pass' = [pass EXCEPT ![p] = "working"]
    /\ due' = [due EXCEPT ![p] = {r \in Requests : requests[r] # Absent}]
    /\ UNCHANGED <<dictionary, bus, item, sweep, failures, crashes, outgoing,
                   history>>

(* Parallel.ForEach comes to an entry.  It comes to every entry that stays *)
(* in the dictionary from its start on, to none twice, and may come to one *)
(* that was added meanwhile.                                               *)
TakeUp(p, r) ==
    /\ pass[p] = "working"
    /\ requests[r] # Absent
    /\ item[p][r] = Untaken
    /\ item' = [item EXCEPT ![p][r] =
                   [object |-> requests[r], todo |-> "report", progress |-> 0]]
    /\ due' = [due EXCEPT ![p] = @ \ {r}]
    /\ UNCHANGED <<dictionary, bus, pass, sweep, failures, crashes, outgoing,
                   history>>

LastStatusVariant(r) == IF r \in Valid THEN Full + 1 ELSE Half

(* The two loops of a task: the second one runs if the request is valid.   *)
LastStatus(r) == IF r \in Valid THEN Full ELSE Half

AfterStatus(task, r) ==
    IF task.progress < LastStatus(r)
    THEN [task EXCEPT !.progress = @ + 1]
    ELSE [task EXCEPT !.todo = "finish"]

ReportStatus(p, r) ==
    /\ item[p][r].todo = "report"
    /\ Publish({Status(r, item[p][r].progress)})
    /\ item' = [item EXCEPT ![p][r] = AfterStatus(@, r)]
    /\ UNCHANGED <<dictionary, bus, pass, due, sweep, failures, crashes,
                   history>>

ReportFinishedVariant(p, r) ==
    /\ item[p][r].todo = "finish"
    /\ r \in Valid
    /\ Publish({Outcome(r, TRUE)})
    /\ item' = [item EXCEPT ![p][r].todo = "mark"]
    /\ results' = results \cup {<<p, <<r, item[p][r].object>>>>}
    /\ UNCHANGED <<dictionary, bus, pass, due, sweep, failures, crashes,
                   cancelled>>

ReportFinished(p, r) ==
    /\ item[p][r].todo = "finish"
    /\ Publish({Outcome(r, r \in Valid)})
    /\ item' = [item EXCEPT ![p][r].todo = "mark"]
    /\ results' = results \cup {<<p, <<r, item[p][r].object>>>>}
    /\ UNCHANGED <<dictionary, bus, pass, due, sweep, failures, crashes,
                   cancelled>>

MarkProcessedVariant(p, r) ==
    /\ item[p][r].todo = "mark"
    /\ item' = [item EXCEPT ![p][r].todo = "over"]
    /\ UNCHANGED <<dictionary, bus, pass, due, sweep, failures, crashes,
                   outgoing, history>>

MarkProcessedByKeyVariant(p, r) ==
    /\ item[p][r].todo = "mark"
    /\ item' = [item EXCEPT ![p][r].todo = "over"]
    /\ processed' = IF requests[r] = Absent THEN processed
                    ELSE processed \cup {<<r, requests[r]>>}
    /\ UNCHANGED <<requests, created, bus, pass, due, sweep, failures,
                   crashes, outgoing, history>>

MarkProcessed(p, r) ==
    /\ item[p][r].todo = "mark"
    /\ item' = [item EXCEPT ![p][r].todo = "over"]
    /\ processed' = processed \cup {<<r, item[p][r].object>>}
    /\ UNCHANGED <<requests, created, bus, pass, due, sweep, failures,
                   crashes, outgoing, history>>

ListProcessedVariant(p) ==
    /\ pass[p] = "working"
    /\ due[p] = {}
    /\ \A r \in Requests : item[p][r].todo = "over"
    /\ pass' = [pass EXCEPT ![p] = "sweeping"]
    /\ item' = [item EXCEPT ![p] = [r \in Requests |-> Untaken]]
    /\ sweep' = [sweep EXCEPT ![p] = {r \in Requests : requests[r] # Absent}]
    /\ UNCHANGED <<dictionary, bus, due, failures, crashes, outgoing, history>>

(* Parallel.ForEach returns and the processed requests are listed.         *)
ListProcessed(p) ==
    /\ pass[p] = "working"
    /\ due[p] = {}
    /\ \A r \in Requests : item[p][r].todo = "over"
    /\ pass' = [pass EXCEPT ![p] = "sweeping"]
    /\ item' = [item EXCEPT ![p] = [r \in Requests |-> Untaken]]
    /\ sweep' = [sweep EXCEPT ![p] =
                    {r \in Requests : <<r, requests[r]>> \in processed}]
    /\ UNCHANGED <<dictionary, bus, due, failures, crashes, outgoing, history>>

(* The entry is removed by its key, whichever RequestModel it holds now.   *)
ThrowOut(p, r) ==
    /\ r \in sweep[p]
    /\ sweep' = [sweep EXCEPT ![p] = @ \ {r}]
    /\ Remove(r)
    /\ UNCHANGED <<created, processed, bus, pass, item, failures, crashes,
                   outgoing, history>>

EndPass(p) ==
    /\ pass[p] = "sweeping"
    /\ sweep[p] = {}
    /\ pass' = [pass EXCEPT ![p] = "idle"]
    /\ UNCHANGED <<dictionary, bus, due, item, sweep, failures, crashes,
                   outgoing, history>>

-----------------------------------------------------------------------------
(* The process ends and is started again: the dictionary was in memory, a  *)
(* message in hand returns to its queue.                                   *)
Crash ==
    /\ crashes < MaxCrashes
    /\ crashes' = crashes + 1
    /\ requests' = [r \in Requests |-> Absent]
    /\ inHand' = {}
    /\ Redeliver
    /\ pass' = [p \in Passes |-> "idle"]
    /\ due' = [p \in Passes |-> {}]
    /\ item' = [p \in Passes |-> [r \in Requests |-> Untaken]]
    /\ sweep' = [p \in Passes |-> {}]
    /\ UNCHANGED <<created, processed, failures, outgoing, history>>

Init ==
    /\ requests = [r \in Requests |-> Absent]
    /\ created = [r \in Requests |-> 0]
    /\ processed = {}
    /\ inHand = {}
    /\ retries = [r \in Requests |-> 0]
    /\ pass = [p \in Passes |-> "idle"]
    /\ due = [p \in Passes |-> {}]
    /\ item = [p \in Passes |-> [r \in Requests |-> Untaken]]
    /\ sweep = [p \in Passes |-> {}]
    /\ failures = 0
    /\ crashes = 0
    /\ outgoing = {}
    /\ cancelled = {}
    /\ results = {}

Handler ==
    \/ \E r \in Requests :
          HandlePlease(r) \/ HandlePleaseAgain(r) \/ HandlePleaseCancel(r)
    \/ ConfirmRequest
    \/ HandlerFails

Task(p, r) ==
    TakeUp(p, r) \/ ReportStatus(p, r) \/ ReportFinished(p, r)
        \/ MarkProcessed(p, r)

Callback(p) ==
    \/ TimerFires(p)
    \/ \E r \in Requests : Task(p, r) \/ ThrowOut(p, r)
    \/ ListProcessed(p)
    \/ EndPass(p)

Next == Handler \/ (\E p \in Passes : Callback(p)) \/ Crash

(* The timer keeps firing while a callback is free, threads and tasks are  *)
(* scheduled, and a message that failed is delivered again.  An entry that *)
(* was there when a pass began is taken up; nothing obliges a pass to come *)
(* to one that was added later.                                            *)
Fairness ==
    /\ WF_vars(ConfirmRequest)
    /\ \A r \in Requests : WF_vars(HandlePleaseAgain(r))
    /\ \A p \in Passes :
          /\ WF_vars(TimerFires(p))
          /\ WF_vars(ListProcessed(p))
          /\ WF_vars(EndPass(p))
          /\ \A r \in Requests :
                /\ WF_vars(r \in due[p] /\ TakeUp(p, r))
                /\ WF_vars(ReportStatus(p, r))
                /\ WF_vars(ReportFinished(p, r))
                /\ WF_vars(MarkProcessed(p, r))
                /\ WF_vars(ThrowOut(p, r))

Spec == Init /\ [][Next]_vars /\ Fairness

-----------------------------------------------------------------------------
(* Properties                                                              *)

(* Every variable holds what the dictionary, the threads and the messages  *)
(* can hold; in particular no status is beyond 100 per cent.               *)
TypeOK ==
    /\ requests \in [Requests -> Objects \cup {Absent}]
    /\ created \in [Requests -> 0..MaxObjects]
    /\ processed \subseteq Models
    /\ inHand \subseteq Answers
    /\ retries \in [Requests -> 0..(MaxFailures + MaxCrashes)]
    /\ pass \in [Passes -> {"idle", "working", "sweeping"}]
    /\ due \in [Passes -> SUBSET Requests]
    /\ item \in [Passes -> [Requests -> Tasks]]
    /\ sweep \in [Passes -> SUBSET Requests]
    /\ failures \in 0..MaxFailures
    /\ crashes \in 0..MaxCrashes
    /\ outgoing \subseteq Messages
    /\ cancelled \subseteq Models
    /\ results \subseteq Passes \X Models

(* A timer callback says nothing of a RequestModel after the result it     *)
(* published for it, and a RequestModel stays in the dictionary no longer  *)
(* than the callbacks that published its result: one that begins after     *)
(* them finds it gone.  Only a callback that overlaps another can still    *)
(* report what the other has finished.                                     *)
ResultIsLast ==
    \A p \in Passes, r \in Requests :
        /\ item[p][r].todo \in {"report", "finish"}
              => ~HasPublished(p, r, item[p][r].object)
        /\ HasPublished(p, r, requests[r]) => pass[p] # "idle"

(* A RequestModel that was processed does not stay: a pass that has not    *)
(* listed the processed requests yet worked on it, or one that has listed  *)
(* it will throw it out.  This holds for overlapping passes too.           *)
ProcessedIsSwept ==
    \A r \in Requests :
        <<r, requests[r]>> \in processed =>
            \E p \in Passes :
                \/ item[p][r].object = requests[r]
                \/ r \in sweep[p]

(* The inductive strengthening of TypeOK and ProcessedIsSwept.             *)

(* RequestModels are numbered as they are made: the dictionary, the tasks, *)
(* the marks and the running handler speak of none beyond the last.        *)
Numbered ==
    /\ \A r \in Requests : requests[r] <= created[r]
    /\ \A r \in Requests, o \in Objects :
          <<r, o>> \in processed => o <= created[r]
    /\ \A p \in Passes, r \in Requests : item[p][r].object <= created[r]
    /\ \A a \in inHand : a.known = Absent => created[a.request] > 0

(* Only a task that has a RequestModel has work to do.                     *)
TasksHaveModels ==
    \A p \in Passes, r \in Requests :
        item[p][r].object = Absent => item[p][r].todo = "over"

(* Each redelivery stems from a failure or a crash.                        *)
RetriesExplained == \A r \in Requests : retries[r] <= failures + crashes

Inv == TypeOK /\ Numbered /\ TasksHaveModels /\ RetriesExplained
           /\ ProcessedIsSwept

(* Every request in the dictionary is finished or cancelled.               *)
EveryRequestFinishes ==
    \A r \in Requests, o \in Objects :
        requests[r] = o ~> <<r, o>> \in finished \cup cancelled

(* The dictionary forgets every request, so that it can be sent again.     *)
EveryRequestLeaves ==
    \A r \in Requests, o \in Objects : []<>(requests[r] # o)

(* The refinement: of the entries only the keys, of a task only how many   *)
(* statuses it has published, of the results only for whom there were any. *)
statuses(p, r) ==
    CASE item[p][r].todo = "report" -> item[p][r].progress + 1
      [] item[p][r].todo = "finish" -> item[p][r].progress + 2
      [] OTHER -> 0

hasResult(r) == \E o \in Objects : <<r, o>> \in finished

heldKeys == {r \in Requests : requests[r] # Absent}
answersInHand ==
    {[request |-> a.request, will |-> a.known = Absent] : a \in inHand}
tasksBegun == [p \in Passes |-> [r \in Requests |-> statuses(p, r)]]
haveResults == {r \in Requests : hasResult(r)}

verdicts == [r \in Requests |-> {(r \in Valid)}]

asWorker == [held |-> heldKeys, answers |-> answersInHand,
             tasks |-> tasksBegun, reported |-> haveResults]

Contract == INSTANCE WorkerContract
    WITH Verdicts <- verdicts,
         FewestStatuses <- Half + 1,
         MostStatuses <- Full + 1,
         worker <- asWorker

(* A worker keeps the promises of WorkerContract.                          *)
KeepsContract == Contract!Spec

(* What the source says of itself, and the runs refute.                    *)

(* "Throw out processed requests" (ValidationWorker.cs:101): an entry that *)
(* a pass removes had been processed.                                      *)
OnlyProcessedThrownOut ==
    [][\A p \in Passes, r \in Requests :
          ThrowOut(p, r) /\ requests[r] # Absent
              => <<r, requests[r]>> \in processed]_vars

=============================================================================
