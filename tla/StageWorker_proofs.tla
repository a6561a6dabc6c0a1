------------------------- MODULE StageWorker_proofs -------------------------
(***************************************************************************)
(* Theorems about StageWorker, for any requests, any number of overlapping *)
(* passes and any bounds.                                                  *)
(***************************************************************************)
EXTENDS StageWorker, TLAPS

(* The five messages a worker publishes are messages of the system.        *)
LEMMA MessageTypes ==
    ASSUME WorkerAssumption, NEW r \in Requests
    PROVE  /\ \A will \in BOOLEAN : Confirmation(r, will) \in Messages
           /\ \A k \in 0..Full : Status(r, k) \in Messages
           /\ \A ok \in BOOLEAN : Outcome(r, ok) \in Messages
  BY DEF Confirmation, Status, Outcome, Messages

(* A task keeps its type and its RequestModel while it goes on.            *)
LEMMA TaskTypes ==
    ASSUME WorkerAssumption
    PROVE  /\ Untaken \in Tasks
           /\ \A o \in Objects :
                 [object |-> o, todo |-> "report", progress |-> 0] \in Tasks
           /\ \A t \in Tasks :
                 /\ t.object \in Objects \cup {Absent}
                 /\ t.progress \in 0..Full
                 /\ \A d \in {"finish", "mark", "over"} :
                       [t EXCEPT !.todo = d] \in Tasks
                 /\ t.progress < Full =>
                       [t EXCEPT !.progress = @ + 1] \in Tasks
  BY DEF WorkerAssumption, Untaken, Tasks

-----------------------------------------------------------------------------
(* The dictionary                                                          *)

LEMMA AddInv ==
    ASSUME WorkerAssumption, Inv, NEW r \in Requests, AddUnlessKnown(r),
           retries' \in [Requests -> 0..(MaxFailures + MaxCrashes)],
           \A q \in Requests : retries'[q] <= retries[q]
    PROVE  Inv'
<1> DEFINE o == created[r] + 1
<1>0. /\ requests[r] \in Objects \cup {Absent}
      /\ created \in [Requests -> 0..MaxObjects]
      /\ MaxObjects \in Nat
  BY DEF Inv, TypeOK, WorkerAssumption
<1>a. /\ created' = IF requests[r] = Absent
                    THEN [created EXCEPT ![r] = o] ELSE created
      /\ requests' = IF requests[r] = Absent
                     THEN [requests EXCEPT ![r] = o] ELSE requests
      /\ requests[r] = Absent => o \in Objects
  BY <1>0 DEF AddUnlessKnown, Objects
<1>b. created' \in [Requests -> 0..MaxObjects]
  BY <1>0, <1>a DEF Objects
<1>c. requests' \in [Requests -> Objects \cup {Absent}]
  BY <1>a DEF Inv, TypeOK
<1>d. inHand' \subseteq Answers
  BY <1>0 DEF AddUnlessKnown, Answers
<1>1. TypeOK'
  BY <1>b, <1>c, <1>d DEF Inv, TypeOK, AddUnlessKnown, timer, history
<1>2. Numbered'
  <2>1. \A q \in Requests : created[q] <= created'[q]
    BY <1>0, <1>a
  <2>2. \A q \in Requests : requests'[q] <= created'[q]
    BY <1>0, <1>a DEF Inv, TypeOK, Numbered
  <2>3. \A q \in Requests, n \in Objects :
           <<q, n>> \in processed' => n <= created'[q]
    BY <1>0, <1>b, <2>1 DEF Inv, Numbered, AddUnlessKnown, Objects
  <2>4. \A p \in Passes, q \in Requests : item'[p][q].object <= created'[q]
    <3> SUFFICES ASSUME NEW p \in Passes, NEW q \in Requests
                 PROVE  item[p][q].object <= created'[q]
      BY DEF AddUnlessKnown, timer
    <3>1. item[p][q].object \in Objects \cup {Absent}
      <4>1. item[p][q] \in Tasks
        BY DEF Inv, TypeOK
      <4> QED
        BY <4>1, TaskTypes
    <3>2. item[p][q].object <= created[q]
      BY DEF Inv, Numbered
    <3>3. item[p][q].object \in Nat
      BY <1>0, <3>1 DEF Objects, Absent
    <3>4. created[q] \in Nat /\ created'[q] \in Nat
      BY <1>0, <1>b
    <3>5. created[q] <= created'[q]
      BY <2>1
    <3> HIDE DEF o
    <3> QED
      BY <3>2, <3>3, <3>4, <3>5
  <2>5. \A a \in inHand' : a.known = Absent => created'[a.request] > 0
    BY <1>0, <1>a DEF AddUnlessKnown
  <2> QED
    BY <2>2, <2>3, <2>4, <2>5 DEF Numbered
<1>3. TasksHaveModels'
  BY DEF Inv, TasksHaveModels, AddUnlessKnown, timer
<1>4. RetriesExplained'
  BY DEF Inv, TypeOK, RetriesExplained, AddUnlessKnown
<1>5. ProcessedIsSwept'
  <2>1. TypeOK /\ Numbered /\ ProcessedIsSwept
    BY DEF Inv
  <2>2. UNCHANGED <<processed, item, sweep>>
    BY DEF AddUnlessKnown, timer
  <2> SUFFICES ASSUME NEW q \in Requests, <<q, requests'[q]>> \in processed
               PROVE  \E p \in Passes : \/ item[p][q].object = requests'[q]
                                        \/ q \in sweep[p]
    BY <2>2 DEF ProcessedIsSwept
  <2>3. requests'[q] \in Objects /\ requests'[q] <= created[q]
    BY <2>1 DEF TypeOK, Models, Numbered
  <2>4. requests'[q] # created[q] + 1
    BY <2>3, <1>0
  <2>5. requests'[q] = requests[q] \/ requests'[q] = created[q] + 1
    BY <2>1 DEF TypeOK, AddUnlessKnown
  <2> QED
    BY <2>1, <2>4, <2>5 DEF ProcessedIsSwept
<1> QED
  BY <1>1, <1>2, <1>3, <1>4, <1>5 DEF Inv

(* What a removal by key does to the dictionary and the enumerations.      *)
LEMMA RemoveFacts ==
    ASSUME WorkerAssumption, TypeOK, NEW r \in Requests, Remove(r)
    PROVE  /\ requests' \in [Requests -> Objects \cup {Absent}]
           /\ due' \in [Passes -> SUBSET Requests]
           /\ requests'[r] = Absent
           /\ \A q \in Requests : q # r => requests'[q] = requests[q]
           /\ \A q \in Requests : requests'[q] <= requests[q]
  BY DEF WorkerAssumption, TypeOK, Remove, Objects, Absent

(* Nothing absent is marked, so a removal leaves no mark to be swept.      *)
LEMMA AbsentIsUnmarked ==
    ASSUME TypeOK, NEW r \in Requests
    PROVE  <<r, Absent>> \notin processed
  BY DEF TypeOK, Models, Objects, Absent

LEMMA RemoveNumbered ==
    ASSUME WorkerAssumption, Inv, NEW r \in Requests, Remove(r),
           UNCHANGED <<created, processed, inHand, item>>
    PROVE  Numbered'
<1>1. \A q \in Requests : /\ requests[q] \in Nat
                          /\ requests'[q] \in Nat
                          /\ created[q] \in Nat
  BY RemoveFacts DEF Inv, TypeOK, WorkerAssumption, Objects, Absent
<1>2. \A q \in Requests : requests'[q] <= requests[q]
  BY RemoveFacts DEF Inv
<1>3. \A q \in Requests : requests[q] <= created[q]
  BY DEF Inv, Numbered
<1>4. \A q \in Requests : requests'[q] <= created[q]
  BY <1>1, <1>2, <1>3
<1> QED
  BY <1>4 DEF Inv, Numbered

LEMMA CancelInv ==
    ASSUME WorkerAssumption, Inv, NEW r \in Requests, HandlePleaseCancel(r)
    PROVE  Inv'
<1> USE DEF HandlePleaseCancel, bus
<1>0. TypeOK
  BY DEF Inv
<1>1. TypeOK'
  <2>1. <<r, requests[r]>> \in Models
    BY <1>0 DEF TypeOK, Models
  <2> QED
    BY <1>0, <2>1, RemoveFacts DEF TypeOK
<1>2. Numbered'
  BY RemoveNumbered
<1>3. TasksHaveModels' /\ RetriesExplained'
  BY DEF Inv, TasksHaveModels, RetriesExplained
<1>4. ProcessedIsSwept'
  BY <1>0, RemoveFacts, AbsentIsUnmarked DEF Inv, ProcessedIsSwept
<1> QED
  BY <1>1, <1>2, <1>3, <1>4 DEF Inv

(* A handler that ends without success, or with its process, puts its      *)
(* message back.                                                           *)
LEMMA RedeliverFacts ==
    ASSUME WorkerAssumption, Inv, Redeliver, failures + crashes <
              MaxFailures + MaxCrashes
    PROVE  /\ retries' \in [Requests -> 0..(MaxFailures + MaxCrashes)]
           /\ \A r \in Requests : retries'[r] <= failures + crashes + 1
<1>1. /\ failures + crashes \in Nat
      /\ MaxFailures + MaxCrashes \in Nat
      /\ \A r \in Requests : retries[r] \in Nat
      /\ \A r \in Requests : retries[r] <= failures + crashes
  BY DEF Inv, TypeOK, WorkerAssumption, RetriesExplained
<1>2. \A r \in Requests : retries'[r] \in {retries[r], retries[r] + 1}
  BY DEF Redeliver
<1>3. \A r \in Requests : /\ retries'[r] \in 0..(MaxFailures + MaxCrashes)
                          /\ retries'[r] <= failures + crashes + 1
  BY <1>1, <1>2
<1>4. retries' = [r \in Requests |-> retries'[r]]
  BY DEF Redeliver
<1> QED
  BY <1>3, <1>4

LEMMA FailureInv ==
    ASSUME WorkerAssumption, Inv, HandlerFails
    PROVE  Inv'
<1> USE DEF HandlerFails, dictionary, timer, history
<1>0. /\ TypeOK
      /\ failures \in 0..MaxFailures /\ crashes \in 0..MaxCrashes
      /\ MaxFailures \in Nat /\ MaxCrashes \in Nat
  BY DEF Inv, TypeOK, WorkerAssumption
<1>1. /\ retries' \in [Requests -> 0..(MaxFailures + MaxCrashes)]
      /\ \A r \in Requests : retries'[r] <= failures' + crashes'
  <2>1. failures + crashes < MaxFailures + MaxCrashes
    BY <1>0
  <2>2. failures' + crashes' = failures + crashes + 1
    BY <1>0
  <2> QED
    BY <2>1, <2>2, RedeliverFacts
<1>2. failures' \in 0..MaxFailures
  BY <1>0
<1>3. TypeOK'
  BY <1>0, <1>1, <1>2 DEF TypeOK
<1>4. RetriesExplained'
  BY <1>1 DEF RetriesExplained
<1>5. Numbered' /\ TasksHaveModels' /\ ProcessedIsSwept'
  BY DEF Inv, Numbered, TasksHaveModels, ProcessedIsSwept
<1> QED
  BY <1>3, <1>4, <1>5 DEF Inv

LEMMA ConfirmInv ==
    ASSUME WorkerAssumption, Inv, ConfirmRequest
    PROVE  Inv'
<1> PICK a \in inHand :
       /\ inHand' = {}
       /\ Publish({Confirmation(a.request, a.known = Absent)})
       /\ UNCHANGED <<dictionary, retries, timer, failures, crashes,
                      cancelled, results>>
  BY DEF ConfirmRequest
<1> USE DEF dictionary, timer
<1>0. /\ TypeOK
      /\ a.request \in Requests
      /\ (a.known = Absent) \in BOOLEAN
  BY DEF Inv, TypeOK, Answers
<1>1. outgoing' \subseteq Messages
  BY <1>0, MessageTypes DEF Publish
<1>2. TypeOK'
  BY <1>0, <1>1 DEF TypeOK
<1>3. Numbered' /\ TasksHaveModels' /\ RetriesExplained' /\ ProcessedIsSwept'
  BY DEF Inv, Numbered, TasksHaveModels, RetriesExplained, ProcessedIsSwept
<1> QED
  BY <1>2, <1>3 DEF Inv

-----------------------------------------------------------------------------
(* The timer callbacks                                                     *)

(* A task that goes on with its RequestModel disturbs nothing else.        *)
LEMMA TaskGoesOn ==
    ASSUME WorkerAssumption, Inv, NEW p \in Passes, NEW r \in Requests,
           NEW t \in Tasks, item' = [item EXCEPT ![p][r] = t],
           t.object = item[p][r].object, t.object # Absent,
           UNCHANGED <<dictionary, bus, pass, due, sweep, failures, crashes>>
    PROVE  /\ item' \in [Passes -> [Requests -> Tasks]]
           /\ Numbered' /\ TasksHaveModels' /\ RetriesExplained'
           /\ ProcessedIsSwept'
<1> USE DEF dictionary, bus
<1>1. item' \in [Passes -> [Requests -> Tasks]]
  BY DEF Inv, TypeOK
<1>2. \A v \in Passes, q \in Requests :
         /\ item'[v][q].object = item[v][q].object
         /\ item'[v][q].todo = item[v][q].todo \/ item'[v][q].object # Absent
  BY DEF Inv, TypeOK
<1> QED
  BY <1>1, <1>2 DEF Inv, Numbered, TasksHaveModels, RetriesExplained,
                    ProcessedIsSwept

(* A task that has something to do has a RequestModel to do it with.       *)
LEMMA WorkingTask ==
    ASSUME WorkerAssumption, Inv, NEW p \in Passes, NEW r \in Requests,
           item[p][r].todo # "over"
    PROVE  /\ item[p][r] \in Tasks
           /\ item[p][r].object # Absent
           /\ <<r, item[p][r].object>> \in Models
<1>1. item[p][r] \in Tasks
  BY DEF Inv, TypeOK
<1>2. item[p][r].object # Absent
  BY DEF Inv, TasksHaveModels
<1> QED
  BY <1>1, <1>2, TaskTypes DEF Models

LEMMA TakeUpInv ==
    ASSUME WorkerAssumption, Inv, NEW p \in Passes, NEW r \in Requests,
           TakeUp(p, r)
    PROVE  Inv'
<1> DEFINE t == [object |-> requests[r], todo |-> "report", progress |-> 0]
<1> USE DEF TakeUp, dictionary, bus, history
<1>0. /\ TypeOK
      /\ requests[r] \in Objects
      /\ item[p][r].object = Absent
  BY DEF Inv, TypeOK, Untaken
<1>1. t \in Tasks /\ t.object = requests[r]
  BY <1>0, TaskTypes
<1>2. item' = [item EXCEPT ![p][r] = t]
  OBVIOUS
<1> HIDE DEF t
<1>3. item' \in [Passes -> [Requests -> Tasks]]
  BY <1>0, <1>1, <1>2 DEF TypeOK
<1>4. \A v \in Passes, q \in Requests :
         \/ item'[v][q] = item[v][q]
         \/ v = p /\ q = r /\ item'[v][q] = t
  BY <1>0, <1>2 DEF TypeOK
<1>5. TypeOK'
  BY <1>0, <1>3 DEF TypeOK
<1>6. Numbered'
  BY <1>1, <1>4 DEF Inv, Numbered
<1>7. TasksHaveModels' /\ RetriesExplained'
  BY <1>0, <1>1, <1>4 DEF Inv, TasksHaveModels, RetriesExplained, Objects,
                          Absent
<1>8. ProcessedIsSwept'
  BY <1>0, <1>1, <1>4 DEF Inv, ProcessedIsSwept
<1> QED
  BY <1>5, <1>6, <1>7, <1>8 DEF Inv

LEMMA ReportStatusInv ==
    ASSUME WorkerAssumption, Inv, NEW p \in Passes, NEW r \in Requests,
           ReportStatus(p, r)
    PROVE  Inv'
<1> DEFINE old == item[p][r]
           t == AfterStatus(old, r)
<1>0. /\ TypeOK /\ old \in Tasks /\ old.object # Absent
      /\ UNCHANGED <<dictionary, bus, pass, due, sweep, failures, crashes,
                     history>>
  BY WorkingTask DEF Inv, ReportStatus
<1>1. old.progress \in 0..Full
  BY <1>0, TaskTypes
<1>2. t \in Tasks /\ t.object = old.object
  <2>1. LastStatus(r) <= Full
    BY DEF WorkerAssumption, LastStatus
  <2>2. LastStatus(r) \in Nat
    BY DEF WorkerAssumption, LastStatus
  <2>3. CASE old.progress < LastStatus(r)
    <3>1. t = [old EXCEPT !.progress = @ + 1]
      BY <2>3 DEF AfterStatus
    <3>2. old.progress < Full
      BY <1>1, <2>1, <2>2, <2>3 DEF WorkerAssumption
    <3> QED
      BY <1>0, <3>1, <3>2, TaskTypes DEF Tasks
  <2>4. CASE ~(old.progress < LastStatus(r))
    <3>1. t = [old EXCEPT !.todo = "finish"]
      BY <2>4 DEF AfterStatus
    <3> QED
      BY <1>0, <3>1, TaskTypes DEF Tasks
  <2> QED
    BY <2>3, <2>4
<1>4. item' = [item EXCEPT ![p][r] = t]
  BY <1>0 DEF TypeOK, ReportStatus
<1>5. outgoing' \subseteq Messages
  <2>1. Status(r, old.progress) \in Messages
    BY <1>1, MessageTypes
  <2> QED
    BY <2>1 DEF ReportStatus, Publish
<1> HIDE DEF t
<1>6. /\ item' \in [Passes -> [Requests -> Tasks]]
      /\ Numbered' /\ TasksHaveModels' /\ RetriesExplained'
      /\ ProcessedIsSwept'
  BY <1>0, <1>2, <1>4, TaskGoesOn
<1> QED
  BY <1>0, <1>5, <1>6 DEF Inv, TypeOK, dictionary, bus, history

LEMMA ReportFinishedInv ==
    ASSUME WorkerAssumption, Inv, NEW p \in Passes, NEW r \in Requests,
           ReportFinished(p, r)
    PROVE  Inv'
<1> DEFINE old == item[p][r]
           t == [old EXCEPT !.todo = "mark"]
<1>0. /\ TypeOK /\ old \in Tasks /\ old.object # Absent
      /\ <<r, old.object>> \in Models
      /\ results' = results \cup {<<p, <<r, old.object>>>>}
      /\ UNCHANGED <<dictionary, bus, pass, due, sweep, failures, crashes,
                     cancelled>>
  BY WorkingTask DEF Inv, ReportFinished
<1>1. t \in Tasks /\ t.object = old.object
  BY <1>0, TaskTypes DEF Tasks
<1>2. item' = [item EXCEPT ![p][r] = t]
  BY <1>0 DEF TypeOK, ReportFinished
<1>3. outgoing' \subseteq Messages
  <2>1. Outcome(r, r \in Valid) \in Messages
    BY DEF Outcome, Messages
  <2> QED
    BY <2>1 DEF ReportFinished, Publish
<1> HIDE DEF t
<1>4. /\ item' \in [Passes -> [Requests -> Tasks]]
      /\ Numbered' /\ TasksHaveModels' /\ RetriesExplained'
      /\ ProcessedIsSwept'
  BY <1>0, <1>1, <1>2, TaskGoesOn
<1>5. results' \subseteq Passes \X Models
  <2>1. <<p, <<r, old.object>>>> \in Passes \X Models
    BY <1>0
  <2> QED
    BY <1>0, <2>1 DEF TypeOK
<1> HIDE DEF old
<1>6. TypeOK'
  BY <1>0, <1>3, <1>4, <1>5 DEF TypeOK, dictionary, bus
<1> QED
  BY <1>4, <1>6 DEF Inv

LEMMA MarkProcessedInv ==
    ASSUME WorkerAssumption, Inv, NEW p \in Passes, NEW r \in Requests,
           MarkProcessed(p, r)
    PROVE  Inv'
<1> DEFINE old == item[p][r]
           t == [old EXCEPT !.todo = "over"]
<1>0. /\ TypeOK /\ old \in Tasks /\ old.object # Absent
      /\ <<r, old.object>> \in Models
      /\ processed' = processed \cup {<<r, old.object>>}
      /\ UNCHANGED <<requests, created, bus, pass, due, sweep, failures,
                     crashes, outgoing, history>>
  BY WorkingTask DEF Inv, MarkProcessed
<1>1. t \in Tasks /\ t.object = old.object
  BY <1>0, TaskTypes DEF Tasks
<1>2. item' = [item EXCEPT ![p][r] = t]
  BY <1>0 DEF TypeOK, MarkProcessed
<1> HIDE DEF t
<1> USE DEF bus, history
<1>3. item' \in [Passes -> [Requests -> Tasks]]
  BY <1>0, <1>1, <1>2 DEF TypeOK
<1>4. \A v \in Passes, q \in Requests :
         /\ item'[v][q].object = item[v][q].object
         /\ item'[v][q].todo = item[v][q].todo \/ item'[v][q].object # Absent
  BY <1>0, <1>1, <1>2 DEF TypeOK
<1>5. TypeOK'
  BY <1>0, <1>3 DEF TypeOK
<1>6. Numbered'
  <2>1. old.object <= created[r]
    BY DEF Inv, Numbered
  <2>2. \A q \in Requests, o \in Objects :
           <<q, o>> \in processed' =>
              <<q, o>> \in processed \/ (q = r /\ o = old.object)
    BY <1>0
  <2> QED
    BY <1>0, <1>4, <2>1, <2>2 DEF Inv, Numbered
<1>7. TasksHaveModels' /\ RetriesExplained'
  BY <1>0, <1>4 DEF Inv, TasksHaveModels, RetriesExplained
<1>8. ProcessedIsSwept'
  <2>1. \A q \in Requests : <<q, requests[q]>> \in processed' =>
           \/ <<q, requests[q]>> \in processed
           \/ q = r /\ item'[p][q].object = requests[q]
    BY <1>0, <1>4
  <2> QED
    BY <1>0, <1>4, <2>1 DEF Inv, ProcessedIsSwept
<1> QED
  BY <1>5, <1>6, <1>7, <1>8 DEF Inv

LEMMA ListProcessedInv ==
    ASSUME WorkerAssumption, Inv, NEW p \in Passes, ListProcessed(p)
    PROVE  Inv'
<1> DEFINE blank == [r \in Requests |-> Untaken]
           listed == {r \in Requests : <<r, requests[r]>> \in processed}
<1>0. /\ TypeOK
      /\ pass' = [pass EXCEPT ![p] = "sweeping"]
      /\ item' = [item EXCEPT ![p] = blank]
      /\ sweep' = [sweep EXCEPT ![p] = listed]
      /\ UNCHANGED <<requests, created, processed, inHand, retries, due,
                     failures, crashes, outgoing, cancelled,
                     results>>
  BY DEF Inv, ListProcessed, dictionary, bus, history
<1>1. blank \in [Requests -> Tasks] /\ listed \in SUBSET Requests
  BY TaskTypes
<1>2. /\ item' \in [Passes -> [Requests -> Tasks]]
      /\ sweep' \in [Passes -> SUBSET Requests]
      /\ pass' \in [Passes -> {"idle", "working", "sweeping"}]
  <2> HIDE DEF blank, listed
  <2> QED
    BY <1>0, <1>1 DEF TypeOK
<1>3. \A v \in Passes, q \in Requests :
         \/ item'[v][q] = item[v][q] /\ sweep'[v] = sweep[v]
         \/ v = p /\ item'[v][q] = Untaken /\ sweep'[v] = listed
  BY <1>0 DEF TypeOK
<1>4. TypeOK'
  BY <1>0, <1>2 DEF TypeOK
<1>5. Numbered'
  <2>1. \A q \in Requests : Untaken.object <= created[q]
    BY <1>0 DEF TypeOK, WorkerAssumption, Untaken, Absent
  <2> QED
    BY <1>0, <1>3, <2>1 DEF Inv, Numbered
<1>6. TasksHaveModels' /\ RetriesExplained'
  BY <1>0, <1>3 DEF Inv, TasksHaveModels, RetriesExplained, Untaken
<1>7. ProcessedIsSwept'
  <2> SUFFICES ASSUME NEW q \in Requests, <<q, requests[q]>> \in processed
               PROVE  \E v \in Passes : \/ item'[v][q].object = requests[q]
                                       \/ q \in sweep'[v]
    BY <1>0 DEF ProcessedIsSwept
  <2>1. q \in sweep'[p]
    BY <1>0 DEF TypeOK
  <2> QED
    BY <2>1
<1> QED
  BY <1>4, <1>5, <1>6, <1>7 DEF Inv

LEMMA ThrowOutInv ==
    ASSUME WorkerAssumption, Inv, NEW p \in Passes, NEW r \in Requests,
           ThrowOut(p, r)
    PROVE  Inv'
<1>0. /\ TypeOK
      /\ Remove(r)
      /\ sweep' = [sweep EXCEPT ![p] = @ \ {r}]
      /\ UNCHANGED <<created, processed, inHand, retries, pass, item,
                     failures, crashes, outgoing, cancelled,
                     results>>
  BY DEF Inv, ThrowOut, bus, history
<1>1. sweep' \in [Passes -> SUBSET Requests]
  BY <1>0 DEF TypeOK
<1>2. TypeOK'
  BY <1>0, <1>1, RemoveFacts DEF TypeOK
<1>3. Numbered'
  BY <1>0, RemoveNumbered
<1>4. TasksHaveModels' /\ RetriesExplained'
  BY <1>0 DEF Inv, TasksHaveModels, RetriesExplained
<1>5. ProcessedIsSwept'
  <2> SUFFICES ASSUME NEW q \in Requests, <<q, requests'[q]>> \in processed
               PROVE  \E v \in Passes : \/ item[v][q].object = requests'[q]
                                       \/ q \in sweep'[v]
    BY <1>0 DEF ProcessedIsSwept
  <2>1. q # r
    BY <1>0, RemoveFacts, AbsentIsUnmarked
  <2>2. requests'[q] = requests[q]
    BY <1>0, <2>1, RemoveFacts
  <2>3. \A v \in Passes : q \in sweep[v] => q \in sweep'[v]
    BY <1>0, <2>1 DEF TypeOK
  <2> QED
    BY <2>2, <2>3 DEF Inv, ProcessedIsSwept
<1> QED
  BY <1>2, <1>3, <1>4, <1>5 DEF Inv

LEMMA CrashInv ==
    ASSUME WorkerAssumption, Inv, Crash
    PROVE  Inv'
<1> USE DEF Crash, history
<1>0. /\ TypeOK
      /\ failures \in 0..MaxFailures /\ crashes \in 0..MaxCrashes
      /\ MaxFailures \in Nat /\ MaxCrashes \in Nat
  BY DEF Inv, TypeOK, WorkerAssumption
<1>1. /\ retries' \in [Requests -> 0..(MaxFailures + MaxCrashes)]
      /\ \A r \in Requests : retries'[r] <= failures' + crashes'
  <2>1. failures + crashes < MaxFailures + MaxCrashes
    BY <1>0
  <2>2. failures' + crashes' = failures + crashes + 1
    BY <1>0
  <2> QED
    BY <2>1, <2>2, RedeliverFacts
<1>2. crashes' \in 0..MaxCrashes
  BY <1>0
<1>3. item' \in [Passes -> [Requests -> Tasks]]
  BY TaskTypes
<1>4. /\ requests' \in [Requests -> Objects \cup {Absent}]
      /\ pass' \in [Passes -> {"idle", "working", "sweeping"}]
      /\ due' \in [Passes -> SUBSET Requests]
      /\ sweep' \in [Passes -> SUBSET Requests]
      /\ inHand' \subseteq Answers
  OBVIOUS
<1>5. TypeOK'
  BY <1>0, <1>1, <1>2, <1>3, <1>4 DEF TypeOK
<1>6. Numbered'
  BY <1>0 DEF Inv, TypeOK, WorkerAssumption, Numbered, Untaken, Absent
<1>7. TasksHaveModels' /\ RetriesExplained'
  BY <1>1 DEF TasksHaveModels, RetriesExplained, Untaken
<1>8. ProcessedIsSwept'
  BY <1>0, AbsentIsUnmarked DEF ProcessedIsSwept
<1> QED
  BY <1>5, <1>6, <1>7, <1>8 DEF Inv

-----------------------------------------------------------------------------
(* The invariant                                                           *)

LEMMA InitInv ==
    ASSUME WorkerAssumption, Init
    PROVE  Inv
<1> USE DEF Init
<1>1. TypeOK
  BY TaskTypes DEF TypeOK, WorkerAssumption, Objects, Absent
<1>2. Numbered /\ TasksHaveModels /\ RetriesExplained
  BY DEF Numbered, TasksHaveModels, RetriesExplained, Untaken, Absent
<1>3. ProcessedIsSwept
  BY DEF ProcessedIsSwept
<1> QED
  BY <1>1, <1>2, <1>3 DEF Inv

LEMMA NextInv ==
    ASSUME WorkerAssumption, Inv, Next
    PROVE  Inv'
<1>1. ASSUME NEW r \in Requests, HandlePlease(r)
      PROVE  Inv'
  <2>1. retries' = retries
    BY <1>1 DEF HandlePlease
  <2>2. /\ retries' \in [Requests -> 0..(MaxFailures + MaxCrashes)]
        /\ \A q \in Requests : retries'[q] <= retries[q]
    BY <2>1 DEF Inv, TypeOK, WorkerAssumption
  <2> QED
    BY <1>1, <2>2, AddInv DEF HandlePlease
<1>2. ASSUME NEW r \in Requests, HandlePleaseAgain(r)
      PROVE  Inv'
  <2>1. retries' = [retries EXCEPT ![r] = @ - 1] /\ retries[r] > 0
    BY <1>2 DEF HandlePleaseAgain
  <2>2. /\ retries' \in [Requests -> 0..(MaxFailures + MaxCrashes)]
        /\ \A q \in Requests : retries'[q] <= retries[q]
    BY <2>1 DEF Inv, TypeOK, WorkerAssumption
  <2> QED
    BY <1>2, <2>2, AddInv DEF HandlePleaseAgain
<1>3. ASSUME NEW r \in Requests, HandlePleaseCancel(r)
      PROVE  Inv'
  BY <1>3, CancelInv
<1>4. CASE ConfirmRequest
  BY <1>4, ConfirmInv
<1>5. CASE HandlerFails
  BY <1>5, FailureInv
<1>6. ASSUME NEW p \in Passes, TimerFires(p)
      PROVE  Inv'
  <2>1. TypeOK'
    BY <1>6 DEF Inv, TypeOK, TimerFires, dictionary, bus, history
  <2>2. Numbered' /\ TasksHaveModels' /\ RetriesExplained' /\ ProcessedIsSwept'
    BY <1>6 DEF Inv, TimerFires, dictionary, bus, Numbered, TasksHaveModels,
                RetriesExplained, ProcessedIsSwept
  <2> QED
    BY <2>1, <2>2 DEF Inv
<1>7. ASSUME NEW p \in Passes, NEW r \in Requests, Task(p, r)
      PROVE  Inv'
  BY <1>7, TakeUpInv, ReportStatusInv, ReportFinishedInv, MarkProcessedInv
     DEF Task
<1>8. ASSUME NEW p \in Passes, NEW r \in Requests, ThrowOut(p, r)
      PROVE  Inv'
  BY <1>8, ThrowOutInv
<1>9. ASSUME NEW p \in Passes, ListProcessed(p)
      PROVE  Inv'
  BY <1>9, ListProcessedInv
<1>10. ASSUME NEW p \in Passes, EndPass(p)
       PROVE  Inv'
  <2>1. TypeOK'
    BY <1>10 DEF Inv, TypeOK, EndPass, dictionary, bus, history
  <2>2. Numbered' /\ TasksHaveModels' /\ RetriesExplained' /\ ProcessedIsSwept'
    BY <1>10 DEF Inv, EndPass, dictionary, bus, Numbered, TasksHaveModels,
                 RetriesExplained, ProcessedIsSwept
  <2> QED
    BY <2>1, <2>2 DEF Inv
<1>11. CASE Crash
  BY <1>11, CrashInv
<1> QED
  BY <1>1, <1>2, <1>3, <1>4, <1>5, <1>6, <1>7, <1>8, <1>9, <1>10, <1>11
     DEF Next, Handler, Callback

LEMMA StutterInv ==
    ASSUME Inv, UNCHANGED vars
    PROVE  Inv'
  BY DEF Inv, TypeOK, Numbered, TasksHaveModels, RetriesExplained,
         ProcessedIsSwept, vars, dictionary, bus, timer, history

LEMMA Invariance == Spec => []Inv
<1>1. Init => Inv
  BY WorkerAssumption, InitInv
<1>2. Inv /\ [Next]_vars => Inv'
  BY WorkerAssumption, NextInv, StutterInv
<1> QED
  BY <1>1, <1>2, PTL DEF Spec

(* The variables keep their types: in particular no task goes beyond the   *)
(* last status and no RequestModel is mentioned that was not made.         *)
THEOREM TypeCorrect == Spec => []TypeOK
<1>1. Inv => TypeOK
  BY DEF Inv
<1> QED
  BY <1>1, Invariance, PTL

(* The two steps that end a pass leave no processed entry behind, however  *)
(* passes overlap, requests are cancelled and sent again, handlers fail    *)
(* and the endpoint restarts.                                              *)
THEOREM ProcessedSwept == Spec => []ProcessedIsSwept
<1>1. Inv => ProcessedIsSwept
  BY DEF Inv
<1> QED
  BY <1>1, Invariance, PTL

-----------------------------------------------------------------------------
(* Nothing after the result                                                *)

(* The inductive strengthening of ResultIsLast: a RequestModel with a      *)
(* result is no new one, only a callback that works has tasks, and while a *)
(* RequestModel is in the dictionary, each callback that published its     *)
(* result has it in hand, to mark it, to list it or to throw it out.       *)
TasksSilent ==
    \A p \in Passes, r \in Requests :
        item[p][r].todo \in {"report", "finish"}
            => ~HasPublished(p, r, item[p][r].object)

ResultsNumbered ==
    \A p \in Passes, r \in Requests, o \in Objects :
        HasPublished(p, r, o) => o <= created[r]

TasksAtWork ==
    \A p \in Passes, r \in Requests :
        item[p][r].todo # "over" => pass[p] = "working"

HasInHand(p, r) ==
    \/ /\ pass[p] = "working"
       /\ item[p][r].object = requests[r]
       /\ \/ item[p][r].todo = "mark"
          \/ item[p][r].todo = "over" /\ <<r, requests[r]>> \in processed
    \/ pass[p] = "sweeping" /\ r \in sweep[p]

ResultsInHand ==
    \A p \in Passes, r \in Requests :
        HasPublished(p, r, requests[r]) => HasInHand(p, r)

LastInv == TasksSilent /\ ResultsNumbered /\ TasksAtWork /\ ResultsInHand

LEMMA PublishedTypes ==
    ASSUME Inv, NEW p, NEW r, NEW o, HasPublished(p, r, o)
    PROVE  o \in Objects /\ o # Absent
<1>1. o \in Objects
  BY DEF Inv, TypeOK, HasPublished, Models
<1> QED
  BY <1>1 DEF Objects, Absent

(* A step that leaves the tasks alone, and what each callback has in hand  *)
(* of the entries that stay.                                               *)
LEMMA EntriesLast ==
    ASSUME WorkerAssumption, Inv, LastInv, TasksAtWork',
           UNCHANGED <<item, results>>,
           \A q \in Requests :
               /\ created'[q] \in Nat /\ created[q] <= created'[q]
               /\ \/ requests'[q] = requests[q]
                  \/ requests'[q] = Absent
                  \/ requests'[q] = created[q] + 1,
           \A v \in Passes, q \in Requests :
               /\ requests'[q] = requests[q] /\ requests[q] # Absent
               /\ HasInHand(v, q)
               => HasInHand(v, q)'
    PROVE  LastInv'
<1>1. \A q \in Requests : created[q] \in Nat
  BY DEF Inv, TypeOK, WorkerAssumption
<1>2. \A o \in Objects : o \in Nat
  BY DEF Objects, WorkerAssumption
<1>3. \A v, q, o : HasPublished(v, q, o)' <=> HasPublished(v, q, o)
  BY DEF HasPublished
<1>4. ResultsNumbered'
  BY <1>1, <1>2, <1>3 DEF LastInv, ResultsNumbered
<1>5. TasksSilent'
  BY <1>3 DEF LastInv, TasksSilent
<1>6. ResultsInHand'
  <2> SUFFICES ASSUME NEW v \in Passes, NEW q \in Requests,
                      HasPublished(v, q, requests'[q])
               PROVE  HasInHand(v, q)'
    BY <1>3 DEF ResultsInHand
  <2>1. requests'[q] \in Objects /\ requests'[q] # Absent
    BY PublishedTypes
  <2>2. requests'[q] <= created[q]
    BY <2>1 DEF LastInv, ResultsNumbered
  <2>3. requests'[q] # created[q] + 1
    BY <1>1, <2>2
  <2>4. requests'[q] = requests[q]
    BY <2>1, <2>3
  <2> QED
    BY <2>1, <2>4 DEF LastInv, ResultsInHand
<1> QED
  BY <1>4, <1>5, <1>6 DEF LastInv

(* A callback that works goes on with its task of r.                       *)
LEMMA TaskLast ==
    ASSUME WorkerAssumption, Inv, LastInv, NEW p \in Passes,
           NEW r \in Requests, NEW t,
           pass[p] = "working",
           item' = [item EXCEPT ![p][r] = t],
           UNCHANGED <<requests, created, pass, sweep>>,
           ResultsNumbered', processed \subseteq processed',
           \A v, q, o : HasPublished(v, q, o)' =>
               \/ HasPublished(v, q, o)
               \/ v = p /\ q = r,
           t.todo \in {"report", "finish"} => ~HasPublished(p, r, t.object)',
           HasPublished(p, r, requests[r])' =>
               /\ t.object = requests[r]
               /\ \/ t.todo = "mark"
                  \/ t.todo = "over" /\ <<r, requests[r]>> \in processed'
    PROVE  LastInv'
<1>1. /\ item'[p][r] = t
      /\ \A v \in Passes, q \in Requests :
            v # p \/ q # r => item'[v][q] = item[v][q]
  BY DEF Inv, TypeOK
<1>2. TasksSilent'
  <2> SUFFICES ASSUME NEW v \in Passes, NEW q \in Requests, NEW o,
                      item'[v][q].todo \in {"report", "finish"},
                      o = item'[v][q].object
               PROVE  ~HasPublished(v, q, o)'
    BY DEF TasksSilent
  <2>1. CASE v = p /\ q = r
    BY <1>1, <2>1
  <2>2. CASE v # p \/ q # r
    <3>1. item'[v][q] = item[v][q]
      BY <1>1, <2>2
    <3>2. ~HasPublished(v, q, o)
      BY <3>1 DEF LastInv, TasksSilent
    <3> QED
      BY <2>2, <3>2
  <2> QED
    BY <2>1, <2>2
<1>3. TasksAtWork'
  <2> SUFFICES ASSUME NEW v \in Passes, NEW q \in Requests,
                      item'[v][q].todo # "over"
               PROVE  pass[v] = "working"
    BY DEF TasksAtWork
  <2>1. CASE v = p
    BY <2>1
  <2>2. CASE v # p
    BY <1>1, <2>2 DEF LastInv, TasksAtWork
  <2> QED
    BY <2>1, <2>2
<1>4. ResultsInHand'
  <2> SUFFICES ASSUME NEW v \in Passes, NEW q \in Requests,
                      HasPublished(v, q, requests[q])'
               PROVE  HasInHand(v, q)'
    BY DEF ResultsInHand
  <2>1. CASE v = p /\ q = r
    BY <1>1, <2>1 DEF HasInHand
  <2>2. CASE v # p \/ q # r
    <3>1. item'[v][q] = item[v][q]
      BY <1>1, <2>2
    <3>2. HasPublished(v, q, requests[q])
      BY <2>2
    <3>3. HasInHand(v, q)
      BY <3>2 DEF LastInv, ResultsInHand
    <3> QED
      BY <3>1, <3>3 DEF HasInHand
  <2> QED
    BY <2>1, <2>2
<1> QED
  BY <1>2, <1>3, <1>4 DEF LastInv

LEMMA TaskStepLast ==
    ASSUME WorkerAssumption, Inv, LastInv, NEW p \in Passes,
           NEW r \in Requests, Task(p, r)
    PROVE  LastInv'
<1> DEFINE old == item[p][r]
<1>0. /\ TypeOK /\ ResultsNumbered
      /\ \A o \in Objects : HasPublished(p, r, o) => o <= created[r]
      /\ HasPublished(p, r, requests[r]) => HasInHand(p, r)
      /\ old.todo # "over" => pass[p] = "working"
      /\ old.todo \in {"report", "finish"} => ~HasPublished(p, r, old.object)
  BY DEF Inv, LastInv, ResultsNumbered, ResultsInHand, TasksAtWork, TasksSilent
<1>a. UNCHANGED results => \A v, q, o : HasPublished(v, q, o)' <=>
                                        HasPublished(v, q, o)
  BY DEF HasPublished
<1>b. UNCHANGED <<created, results>> => ResultsNumbered'
  BY <1>0, <1>a DEF ResultsNumbered
<1>1. CASE TakeUp(p, r)
  <2> DEFINE t == [object |-> requests[r], todo |-> "report", progress |-> 0]
  <2>1. /\ item' = [item EXCEPT ![p][r] = t] /\ old = Untaken
        /\ pass[p] = "working" /\ requests[r] # Absent
        /\ UNCHANGED <<requests, created, processed, results, pass, sweep>>
    BY <1>1 DEF TakeUp, dictionary, history
  <2>2. t.object = requests[r] /\ old.object = Absent
    BY <2>1 DEF Untaken
  <2>3. ~HasPublished(p, r, requests[r])
    BY <1>0, <2>1, <2>2 DEF HasInHand
  <2>4. processed \subseteq processed'
    BY <2>1
  <2> HIDE DEF t, old
  <2> QED
    BY <1>a, <1>b, <2>1, <2>2, <2>3, <2>4, TaskLast
<1>2. CASE ReportStatus(p, r)
  <2> DEFINE t == AfterStatus(old, r)
  <2>1. /\ old \in Tasks /\ old.todo = "report"
        /\ item' = [item EXCEPT ![p][r] = t]
        /\ UNCHANGED <<requests, created, processed, results, pass, sweep>>
    BY <1>0, <1>2, WorkingTask DEF ReportStatus, TypeOK, dictionary, history
  <2>2. t.object = old.object
    BY <2>1 DEF AfterStatus, Tasks
  <2>3. pass[p] = "working" /\ ~HasPublished(p, r, old.object)
    BY <1>0, <2>1
  <2>4. ~HasPublished(p, r, requests[r])
    BY <1>0, <2>1, <2>3 DEF HasInHand
  <2>5. processed \subseteq processed'
    BY <2>1
  <2> HIDE DEF t, old
  <2> QED
    BY <1>a, <1>b, <2>1, <2>2, <2>3, <2>4, <2>5, TaskLast
<1>3. CASE ReportFinished(p, r)
  <2> DEFINE t == [old EXCEPT !.todo = "mark"]
  <2>1. /\ old \in Tasks /\ old.todo = "finish"
        /\ item' = [item EXCEPT ![p][r] = t]
        /\ results' = results \cup {<<p, <<r, old.object>>>>}
        /\ UNCHANGED <<requests, created, processed, pass, sweep>>
    BY <1>0, <1>3, WorkingTask DEF ReportFinished, TypeOK, dictionary
  <2>2. t.object = old.object /\ t.todo = "mark"
    BY <2>1 DEF Tasks
  <2>3. old.object <= created[r]
    BY DEF Inv, Numbered
  <2>4. \A v, q, o : HasPublished(v, q, o)' <=>
           \/ HasPublished(v, q, o)
           \/ v = p /\ q = r /\ o = old.object
    BY <2>1 DEF HasPublished
  <2>5. ResultsNumbered'
    BY <1>0, <2>1, <2>3, <2>4 DEF ResultsNumbered
  <2>6. pass[p] = "working" /\ ~HasPublished(p, r, requests[r])
    BY <1>0, <2>1 DEF HasInHand
  <2>7. processed \subseteq processed'
    BY <2>1
  <2> HIDE DEF t, old
  <2> QED
    BY <2>1, <2>2, <2>4, <2>5, <2>6, <2>7, TaskLast
<1>4. CASE MarkProcessed(p, r)
  <2> DEFINE t == [old EXCEPT !.todo = "over"]
  <2>1. /\ old \in Tasks /\ old.todo = "mark"
        /\ item' = [item EXCEPT ![p][r] = t]
        /\ processed' = processed \cup {<<r, old.object>>}
        /\ UNCHANGED <<requests, created, results, pass, sweep>>
    BY <1>0, <1>4, WorkingTask DEF MarkProcessed, TypeOK, history
  <2>2. t.object = old.object /\ t.todo = "over"
    BY <2>1 DEF Tasks
  <2>3. pass[p] = "working"
    BY <1>0, <2>1
  <2>4. HasPublished(p, r, requests[r]) => old.object = requests[r]
    BY <1>0, <2>3 DEF HasInHand
  <2>5. /\ processed \subseteq processed'
        /\ old.object = requests[r] => <<r, requests[r]>> \in processed'
    BY <2>1
  <2> HIDE DEF t, old
  <2> QED
    BY <1>a, <1>b, <2>1, <2>2, <2>3, <2>4, <2>5, TaskLast
<1> QED
  BY <1>1, <1>2, <1>3, <1>4 DEF Task

LEMMA ListLast ==
    ASSUME Inv, LastInv, NEW p \in Passes, ListProcessed(p)
    PROVE  LastInv'
<1>1. /\ pass[p] = "working"
      /\ \A r \in Requests : item[p][r].todo = "over"
      /\ item' = [item EXCEPT ![p] = [r \in Requests |-> Untaken]]
      /\ pass' = [pass EXCEPT ![p] = "sweeping"]
      /\ sweep' = [sweep EXCEPT ![p] =
                      {r \in Requests : <<r, requests[r]>> \in processed}]
      /\ UNCHANGED <<requests, created, processed, results>>
  BY DEF ListProcessed, dictionary, history
<1>2. \A v, q, o : HasPublished(v, q, o)' <=> HasPublished(v, q, o)
  BY <1>1 DEF HasPublished
<1>3. /\ \A r \in Requests : item'[p][r].todo = "over"
      /\ pass'[p] = "sweeping"
      /\ sweep'[p] = {r \in Requests : <<r, requests[r]>> \in processed}
      /\ \A v \in Passes : v # p => /\ item'[v] = item[v]
                                    /\ pass'[v] = pass[v]
                                    /\ sweep'[v] = sweep[v]
  BY <1>1 DEF Inv, TypeOK, Untaken
<1>4. TasksSilent'
  BY <1>2, <1>3 DEF LastInv, TasksSilent
<1>5. ResultsNumbered'
  BY <1>1, <1>2 DEF LastInv, ResultsNumbered
<1>6. TasksAtWork'
  BY <1>3 DEF LastInv, TasksAtWork
<1>7. ResultsInHand'
  <2> SUFFICES ASSUME NEW v \in Passes, NEW q \in Requests,
                      HasPublished(v, q, requests[q])
               PROVE  HasInHand(v, q)'
    BY <1>1, <1>2 DEF ResultsInHand
  <2>1. HasInHand(v, q)
    BY DEF LastInv, ResultsInHand
  <2>2. CASE v = p
    <3>1. <<q, requests[q]>> \in processed
      BY <1>1, <2>1, <2>2 DEF HasInHand
    <3> QED
      BY <1>3, <2>2, <3>1 DEF HasInHand
  <2>3. CASE v # p
    BY <1>1, <1>3, <2>1, <2>3 DEF HasInHand
  <2> QED
    BY <2>2, <2>3
<1> QED
  BY <1>4, <1>5, <1>6, <1>7 DEF LastInv

LEMMA NextLast ==
    ASSUME WorkerAssumption, Inv, LastInv, [Next]_vars
    PROVE  LastInv'
<1>0. \A q \in Requests : created[q] \in Nat /\ created[q] <= created[q]
  BY DEF Inv, TypeOK, WorkerAssumption
<1>a. ASSUME UNCHANGED <<item, pass>> PROVE TasksAtWork'
  BY <1>a DEF LastInv, TasksAtWork
<1>1. ASSUME NEW r \in Requests, AddUnlessKnown(r)
      PROVE  LastInv'
  <2>1. /\ UNCHANGED <<processed, item, results, pass, sweep>>
        /\ \/ UNCHANGED <<requests, created>>
           \/ /\ created' = [created EXCEPT ![r] = created[r] + 1]
              /\ requests' = [requests EXCEPT ![r] = created'[r]]
    BY <1>1 DEF AddUnlessKnown, timer, history
  <2>2. \A q \in Requests :
           /\ created'[q] \in Nat /\ created[q] <= created'[q]
           /\ \/ requests'[q] = requests[q]
              \/ requests'[q] = created[q] + 1
    BY <1>0, <2>1 DEF Inv, TypeOK
  <2>3. \A v \in Passes, q \in Requests :
           requests'[q] = requests[q] /\ HasInHand(v, q) => HasInHand(v, q)'
    BY <2>1 DEF HasInHand
  <2> QED
    BY <1>a, <2>1, <2>2, <2>3, EntriesLast
<1>2. ASSUME NEW r \in Requests, Remove(r),
             UNCHANGED <<created, processed, item, results, pass>>,
             \A v \in Passes, q \in Requests :
                 q # r /\ q \in sweep[v] => q \in sweep'[v]
      PROVE  LastInv'
  <2>1. /\ requests'[r] = Absent
        /\ \A q \in Requests : q # r => requests'[q] = requests[q]
    BY <1>2 DEF Remove, Inv, TypeOK
  <2>2. \A v \in Passes, q \in Requests :
           /\ requests'[q] = requests[q] /\ requests[q] # Absent
           /\ HasInHand(v, q)
           => HasInHand(v, q)'
    BY <1>2, <2>1 DEF HasInHand
  <2> QED
    BY <1>0, <1>a, <1>2, <2>1, <2>2, EntriesLast
<1>3. CASE Handler
  <2>1. ASSUME NEW r \in Requests, HandlePleaseCancel(r)
        PROVE  LastInv'
    <3>1. /\ Remove(r)
          /\ UNCHANGED <<created, processed, item, results, pass, sweep>>
      BY <2>1 DEF HandlePleaseCancel
    <3> QED
      BY <1>2, <3>1
  <2>2. CASE ConfirmRequest \/ HandlerFails
    <3>1. UNCHANGED <<requests, created, processed, item, results, pass,
                      sweep>>
      BY <2>2 DEF ConfirmRequest, HandlerFails, dictionary, timer, history
    <3>2. \A v \in Passes, q \in Requests : HasInHand(v, q) => HasInHand(v, q)'
      BY <3>1 DEF HasInHand
    <3> QED
      BY <1>0, <1>a, <3>1, <3>2, EntriesLast
  <2> QED
    BY <1>1, <1>3, <2>1, <2>2 DEF Handler, HandlePlease, HandlePleaseAgain
<1>4. ASSUME NEW p \in Passes, Callback(p)
      PROVE  LastInv'
  <2>1. ASSUME NEW r \in Requests, ThrowOut(p, r)
        PROVE  LastInv'
    <3>1. /\ Remove(r) /\ sweep' = [sweep EXCEPT ![p] = @ \ {r}]
          /\ UNCHANGED <<created, processed, item, results, pass>>
      BY <2>1 DEF ThrowOut, history
    <3>2. \A v \in Passes, q \in Requests :
             q # r /\ q \in sweep[v] => q \in sweep'[v]
      BY <3>1 DEF Inv, TypeOK
    <3> QED
      BY <1>2, <3>1, <3>2
  <2>2. ASSUME UNCHANGED <<requests, created, processed, item, results, sweep>>,
               NEW now, pass' = [pass EXCEPT ![p] = now],
               pass[p] # "working",
               pass[p] = "sweeping" => sweep[p] = {}
        PROVE  LastInv'
    <3>1. \A v \in Passes : v # p => pass'[v] = pass[v]
      BY <2>2 DEF Inv, TypeOK
    <3>2. \A v \in Passes, q \in Requests :
             HasInHand(v, q) => v # p
      BY <2>2 DEF HasInHand
    <3>3. \A v \in Passes, q \in Requests : HasInHand(v, q) => HasInHand(v, q)'
      BY <2>2, <3>1, <3>2 DEF HasInHand
    <3>4. TasksAtWork'
      BY <2>2, <3>1 DEF LastInv, TasksAtWork
    <3> QED
      BY <1>0, <2>2, <3>3, <3>4, EntriesLast
  <2>3. CASE TimerFires(p)
    <3>1. /\ UNCHANGED <<requests, created, processed, item, results, sweep>>
          /\ pass[p] = "idle" /\ pass' = [pass EXCEPT ![p] = "working"]
      BY <2>3 DEF TimerFires, dictionary, history
    <3> QED
      BY <2>2, <3>1
  <2>4. CASE EndPass(p)
    <3>1. /\ UNCHANGED <<requests, created, processed, item, results, sweep>>
          /\ pass[p] = "sweeping" /\ sweep[p] = {}
          /\ pass' = [pass EXCEPT ![p] = "idle"]
      BY <2>4 DEF EndPass, dictionary, history
    <3> QED
      BY <2>2, <3>1
  <2> QED
    BY <1>4, <2>1, <2>3, <2>4, TaskStepLast, ListLast DEF Callback
<1>5. CASE Crash
  <2>1. /\ requests' = [r \in Requests |-> Absent]
        /\ item' = [p \in Passes |-> [r \in Requests |-> Untaken]]
        /\ UNCHANGED <<created, results>>
    BY <1>5 DEF Crash, history
  <2>2. \A v, q, o : HasPublished(v, q, o)' <=> HasPublished(v, q, o)
    BY <2>1 DEF HasPublished
  <2>3. TasksSilent' /\ TasksAtWork'
    BY <2>1 DEF TasksSilent, TasksAtWork, Untaken
  <2>4. ResultsNumbered'
    BY <2>1, <2>2 DEF LastInv, ResultsNumbered
  <2>5. ResultsInHand'
    BY <2>1, <2>2, PublishedTypes DEF ResultsInHand
  <2> QED
    BY <2>3, <2>4, <2>5 DEF LastInv
<1>6. CASE UNCHANGED vars
  <2>1. UNCHANGED <<requests, created, processed, item, results, pass, sweep>>
    BY <1>6 DEF vars, dictionary, timer, history
  <2>2. \A v \in Passes, q \in Requests : HasInHand(v, q) => HasInHand(v, q)'
    BY <2>1 DEF HasInHand
  <2> QED
    BY <1>0, <1>a, <2>1, <2>2, EntriesLast
<1> QED
  BY <1>3, <1>4, <1>5, <1>6 DEF Next

(* However callbacks overlap, requests are cancelled and sent again,       *)
(* handlers fail and the endpoint restarts, a callback says nothing after  *)
(* a result of its own, and leaves nothing it has finished to those that   *)
(* begin after it.                                                         *)
THEOREM NothingAfterResult == Spec => []ResultIsLast
<1>1. Init => LastInv
  BY DEF Init, LastInv, TasksSilent, ResultsNumbered, TasksAtWork,
     ResultsInHand, HasPublished, Untaken
<1>2. Inv /\ LastInv /\ [Next]_vars => LastInv'
  BY WorkerAssumption, NextLast
<1>3. LastInv => ResultIsLast
  BY DEF LastInv, ResultIsLast, TasksSilent, ResultsInHand, HasInHand
<1> QED
  BY <1>1, <1>2, <1>3, Invariance, PTL DEF Spec

=============================================================================
