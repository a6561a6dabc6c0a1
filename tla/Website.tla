------------------------------- MODULE Website -------------------------------
(***************************************************************************)
(* IronTester.Website: the bus handlers that keep the dictionary of the    *)
(* last notification of every request and tell every open page, the table  *)
(* of a page "All requests" and the chart of a page "Dashboard".           *)
(*                                                                         *)
(* The bus thread handles one notification after the other; a notification *)
(* of a derived interface runs the handler of the base interface too.  A   *)
(* handler writes the dictionary, then tells the tables, then the charts,  *)
(* and may throw at each of them: the notification is handled again, while *)
(* what was written and sent stays.  The process may restart, which loses  *)
(* the dictionary, for it is a static field, but not the queue.  SignalR   *)
(* delivers the calls of a connection in order.                            *)
(***************************************************************************)
EXTENDS Integers, FiniteSets, SequencesExt

CONSTANTS
    Requests,      \* request ids
    Reasons,       \* failure texts
    Null,          \* C#'s and JavaScript's null
    Progress,      \* the percentages of notifications
    Seen,          \* bound: the states that notifications speak of
    Tables,        \* pages "All requests"
    Dashboards,    \* pages "Dashboard"
    ChartSize,     \* 10: what the chart is cut to
    MaxInbox, MaxInTransit, MaxFailures, MaxRefreshes
                   \* bounds: notifications in the queue, calls on the way to
                   \* a page, handlers that fail and restarts of the process,
                   \* calls of getAllRequests

ASSUME WebsiteAssumption ==
    /\ Null \notin Reasons
    /\ 0 \in Progress /\ Progress \subseteq Nat
    /\ Seen \subseteq -1..13
    /\ Tables \cap Dashboards = {}
    /\ ChartSize \in Nat /\ ChartSize > 1
    /\ {MaxInbox, MaxInTransit, MaxFailures, MaxRefreshes} \subseteq Nat

(* TestingRequestSagaStates; the number stands for the name.               *)
Failed == -1
Cancelled == 0
Finished == 13
States == Failed..Finished

(* The states whose names contain ...                                      *)
Named(word) ==
    CASE word = "failed" -> {Failed}
      [] word = "cancelled" -> {Cancelled}
      [] word = "validation" -> 2..4
      [] word = "initialization" -> 5..7
      [] word = "build" -> 8..10
      [] word = "test" -> {1, 11, 12}
      [] word = "finished" -> {4, 7, 10, Finished}

Pages == Tables \cup Dashboards

VARIABLES
    inbox,       \* the notifications in the input queue; the first one stays
                 \* until it is handled
    todo,        \* the handlers that must still run for it, the first first
    doing,       \* what the first of these does next
    requests,    \* AllRequestsHub.Requests: the last row of each request
    connected,   \* pages that are open
    channel,     \* the calls on their way to each page
    table,       \* $scope.requests of each table
    data,        \* the points of each chart
    told,        \* history: the last two statistics that were broadcast
    refreshing,  \* the rows a running getAllRequests must still send
    overtaken,   \* history: the requests whose last row to the tables came
                 \* from getAllRequests and was no longer the dictionary's
    failures, refreshes   \* so far

pages == <<connected, channel, table, data>>
bus == <<inbox, todo, doing, requests, told, failures>>
hub == <<refreshing, overtaken, refreshes>>
vars == <<bus, hub, pages>>

-----------------------------------------------------------------------------
StateHasChanged(r, s) == [kind |-> "StateHasChanged", request |-> r, state |-> s]
ProcessUpdate(r, s, p) ==
    [kind |-> "ProcessUpdate", request |-> r, state |-> s, progress |-> p]
ProcessFailed(r, text) ==
    [kind |-> "ProcessFailed", request |-> r, reasons |-> text]

Notifications ==
    [kind : {"StateHasChanged"}, request : Requests, state : States]
    \cup [kind : {"ProcessUpdate"}, request : Requests, state : States,
          progress : Progress]
    \cup [kind : {"ProcessFailed"}, request : Requests,
          reasons : Reasons \cup {Null}]

(* A row: the dictionary's without a request is NoRow.                     *)
Row(s, p, text) == [state |-> s, progress |-> p, reasons |-> text]
NoRow == Row(Cancelled, -1, Null)
Rows == [state : States, progress : Progress \cup {-1, 100},
         reasons : Reasons \cup {Null}]

Exists(row) == row # NoRow

StateOf(m) == IF m.kind = "ProcessFailed" THEN Failed ELSE m.state

(* Operators named ...Variant are plausible slips, each in place of the    *)
(* definition after it: the properties must notice them.                   *)

HandlersVariant(m) ==
    IF m.kind = "StateHasChanged" THEN <<m.kind>>
    ELSE <<m.kind, "StateHasChanged">>

(* The handlers of a notification, in the order in which the class lists   *)
(* the interfaces it implements: the base interface comes first.           *)
Handlers(m) ==
    IF m.kind = "StateHasChanged" THEN <<m.kind>>
    ELSE <<"StateHasChanged", m.kind>>

RowByVariant(handler, m) ==
    CASE handler = "StateHasChanged" -> Row(StateOf(m), 0, Null)
      [] handler = "ProcessUpdate" -> Row(StateOf(m), m.progress + 1, Null)
      [] handler = "ProcessFailed" -> Row(StateOf(m), 0, m.reasons)

(* The row that a handler makes of a notification.                         *)
RowBy(handler, m) ==
    CASE handler = "StateHasChanged" -> Row(StateOf(m), 0, Null)
      [] handler = "ProcessUpdate" -> Row(StateOf(m), m.progress, Null)
      [] handler = "ProcessFailed" -> Row(StateOf(m), 0, m.reasons)

(* What a notification says.                                               *)
Content(m) == RowBy(m.kind, m)

(* SendStats: the columns but for the time.                                *)
Count(rows, states) ==
    Cardinality({r \in Requests : Exists(rows[r]) /\ rows[r].state \in states})

Stats(rows) ==
    [total |-> Count(rows, States),
     failed |-> Count(rows, Named("failed")),
     cancelled |-> Count(rows, Named("cancelled")),
     validated |-> Count(rows, Named("validation")),
     initialized |-> Count(rows, Named("initialization")),
     build |-> Count(rows, Named("build")),
     tested |-> Count(rows, Named("test") \cup Named("finished")),
     finished |-> Count(rows, Named("finished"))]

-----------------------------------------------------------------------------
(* The bus thread                                                          *)

Arrive(m) ==
    /\ Len(inbox) < MaxInbox
    /\ inbox' = Append(inbox, m)
    /\ UNCHANGED <<todo, doing, requests, told, failures, hub, pages>>

(* Clients.All: a page takes only the calls it does something with.        *)
Broadcast(rowCalls, stats) ==
    /\ channel' =
          [q \in Pages |->
              IF q \notin connected THEN channel[q]
              ELSE channel[q] \o (IF q \in Tables THEN rowCalls ELSE stats)]
    /\ \A q \in connected : Len(channel'[q]) <= MaxInTransit
    /\ UNCHANGED <<connected, table, data>>

LastTwo(s) == IF Len(s) > 2 THEN Tail(s) ELSE s

Dispatch ==
    /\ todo = <<>> /\ inbox # <<>>
    /\ todo' = Handlers(Head(inbox))
    /\ UNCHANGED <<inbox, doing, requests, told, failures, hub, pages>>

(* The request model of the running handler.                               *)
RequestModel == RowBy(Head(todo), Head(inbox))

(* The three steps of a handler.                                           *)
AddOrUpdate ==
    /\ todo # <<>> /\ doing = "write"
    /\ doing' = "tell tables"
    /\ requests' = [requests EXCEPT ![Head(inbox).request] = RequestModel]
    /\ UNCHANGED <<inbox, todo, told, failures, hub, pages>>

TellTables ==
    /\ todo # <<>> /\ doing = "tell tables"
    /\ doing' = "tell charts"
    /\ Broadcast(<<[request |-> Head(inbox).request, row |-> RequestModel]>>,
                 <<>>)
    /\ overtaken' = overtaken \ {Head(inbox).request}
    /\ UNCHANGED <<inbox, todo, requests, told, failures, refreshing,
                   refreshes>>

(* After the last handler the notification leaves the queue.               *)
SendStats ==
    /\ todo # <<>> /\ doing = "tell charts"
    /\ doing' = "write"
    /\ Broadcast(<<>>, <<Stats(requests)>>)
    /\ told' = LastTwo(Append(told, Stats(requests)))
    /\ todo' = Tail(todo)
    /\ inbox' = IF Len(todo) = 1 THEN Tail(inbox) ELSE inbox
    /\ UNCHANGED <<requests, failures, hub>>

HandlerFailsVariant ==
    /\ todo # <<>>
    /\ failures < MaxFailures
    /\ failures' = failures + 1
    /\ todo' = <<>> /\ doing' = "write"
    /\ inbox' = Tail(inbox)
    /\ UNCHANGED <<requests, told, hub, pages>>

(* A handler throws, before its first step or between two of them: the     *)
(* notification stays first in the queue, the rest as it is.               *)
HandlerFails ==
    /\ todo # <<>>
    /\ failures < MaxFailures
    /\ failures' = failures + 1
    /\ todo' = <<>> /\ doing' = "write"
    /\ UNCHANGED <<inbox, requests, told, hub, pages>>

EmptyTable == [r \in Requests |-> NoRow]

(* The process restarts.  The scripts of open pages connect again and keep *)
(* what they show; one that does not is as good as closed.                 *)
SiteRestarts ==
    /\ failures < MaxFailures
    /\ failures' = failures + 1
    /\ todo' = <<>> /\ doing' = "write"
    /\ requests' = EmptyTable
    /\ refreshing' = <<>>
    /\ channel' = [q \in Pages |-> <<>>]
    /\ told' = <<>>
    /\ UNCHANGED <<inbox, connected, table, data, overtaken, refreshes>>

(* The hub's getAllRequests, on a thread of its own: it copies the values  *)
(* and then sends one after the other.  The call in the table's script is  *)
(* commented out.                                                          *)
GetAllRequests ==
    /\ refreshes < MaxRefreshes
    /\ refreshing = <<>>
    /\ refreshes' = refreshes + 1
    /\ \E order \in [1..Count(requests, States) -> Requests] :
          /\ {order[i] : i \in DOMAIN order} =
                {r \in Requests : Exists(requests[r])}
          /\ refreshing' = [i \in DOMAIN order |->
                [request |-> order[i], row |-> requests[order[i]]]]
    /\ UNCHANGED <<bus, overtaken, pages>>

SendRow ==
    /\ refreshing # <<>>
    /\ refreshing' = Tail(refreshing)
    /\ Broadcast(<<Head(refreshing)>>, <<>>)
    /\ overtaken' =
          IF Head(refreshing).row = requests[Head(refreshing).request]
          THEN overtaken \ {Head(refreshing).request}
          ELSE overtaken \cup {Head(refreshing).request}
    /\ UNCHANGED <<bus, refreshes>>

-----------------------------------------------------------------------------
(* The pages                                                               *)

(* The scripts start, and the hub's connection.                            *)
OpenPage(q) ==
    /\ q \notin connected
    /\ connected' = connected \cup {q}
    /\ UNCHANGED <<channel, table, data, bus, hub>>

ClosePage(q) ==
    /\ q \in connected
    /\ connected' = connected \ {q}
    /\ channel' = [channel EXCEPT ![q] = <<>>]
    /\ table' = [table EXCEPT ![q] = EmptyTable]
    /\ data' = [data EXCEPT ![q] = <<>>]
    /\ UNCHANGED <<bus, hub>>

TableAfterVariant(rows, call) ==
    IF Exists(rows[call.request]) THEN rows
    ELSE [rows EXCEPT ![call.request] = call.row]

TableAfterPushVariant(rows, call) ==
    IF Exists(rows[call.request])
    THEN [rows EXCEPT ![call.request] = call.row] ELSE rows

(* A new row is shown as it came, an old one that finishes as complete.    *)
TableAfter(rows, call) ==
    [rows EXCEPT ![call.request] =
        IF Exists(@) /\ call.row.state = Finished
        THEN [call.row EXCEPT !.progress = 100]
        ELSE call.row]

RequestStateChanged(q) ==
    /\ q \in Tables
    /\ channel[q] # <<>>
    /\ table' = [table EXCEPT ![q] = TableAfter(@, Head(channel[q]))]
    /\ channel' = [channel EXCEPT ![q] = Tail(@)]
    /\ UNCHANGED <<connected, data, bus, hub>>

(* data.slice(from, to), whose second argument is an index.                *)
Slice(points, from, to) == SubSeq(points, from + 1, to)

CutVariant(points) ==
    IF Len(points) > ChartSize THEN Slice(points, 0, ChartSize) ELSE points

Cut(points) ==
    IF Len(points) > ChartSize
    THEN Slice(points, Len(points) - ChartSize, ChartSize)
    ELSE points

ConsumeStats(q) ==
    /\ q \in Dashboards
    /\ channel[q] # <<>>
    /\ data' = [data EXCEPT ![q] = Cut(Append(@, Head(channel[q])))]
    /\ channel' = [channel EXCEPT ![q] = Tail(@)]
    /\ UNCHANGED <<connected, table, bus, hub>>

-----------------------------------------------------------------------------
Init ==
    /\ inbox = <<>>
    /\ todo = <<>> /\ doing = "write"
    /\ requests = EmptyTable
    /\ connected = {}
    /\ channel = [q \in Pages |-> <<>>]
    /\ table = [q \in Pages |-> EmptyTable]
    /\ data = [q \in Pages |-> <<>>]
    /\ told = <<>>
    /\ refreshing = <<>> /\ overtaken = {}
    /\ failures = 0 /\ refreshes = 0

BusThread ==
    Dispatch \/ AddOrUpdate \/ TellTables \/ SendStats \/ HandlerFails

HubThread == GetAllRequests \/ SendRow

Page(q) ==
    OpenPage(q) \/ ClosePage(q) \/ RequestStateChanged(q) \/ ConsumeStats(q)

Next ==
    \/ \E m \in Notifications : StateOf(m) \in Seen /\ Arrive(m)
    \/ BusThread
    \/ HubThread
    \/ SiteRestarts
    \/ \E q \in Pages : Page(q)

(* Threads are scheduled and calls arrive.  Nobody need open a page or     *)
(* call getAllRequests, and nothing need fail.  A broadcast waits for      *)
(* nothing but the bound MaxInTransit, which must not starve it.           *)
Fairness ==
    /\ WF_vars(Dispatch)
    /\ WF_vars(AddOrUpdate)
    /\ SF_vars(TellTables)
    /\ SF_vars(SendStats)
    /\ SF_vars(SendRow)
    /\ \A q \in Tables : WF_vars(RequestStateChanged(q))
    /\ \A q \in Dashboards : WF_vars(ConsumeStats(q))

Spec == Init /\ [][Next]_vars /\ Fairness

-----------------------------------------------------------------------------
(* Properties                                                              *)

RowCalls == [request : Requests, row : Rows]

Statistics ==
    [total : Nat, failed : Nat, cancelled : Nat, validated : Nat,
     initialized : Nat, build : Nat, tested : Nat, finished : Nat]

(* The queue, the rows, the calls and the charts hold what they can hold.  *)
TypeOK ==
    /\ inbox \in Seq(Notifications)
    /\ todo \in Seq({"StateHasChanged", "ProcessUpdate", "ProcessFailed"})
    /\ doing \in {"write", "tell tables", "tell charts"}
    /\ requests \in [Requests -> Rows]
    /\ connected \subseteq Pages
    /\ DOMAIN channel = Pages
    /\ \A q \in Tables : channel[q] \in Seq(RowCalls)
    /\ \A q \in Dashboards : channel[q] \in Seq(Statistics)
    /\ table \in [Pages -> [Requests -> Rows]]
    /\ data \in [Pages -> Seq(Statistics)]
    /\ told \in Seq(Statistics) /\ Len(told) <= 2
    /\ refreshing \in Seq(RowCalls) /\ overtaken \subseteq Requests
    /\ failures \in 0..MaxFailures
    /\ refreshes \in 0..MaxRefreshes

Agrees(shown, row) ==
    /\ shown.state = row.state
    /\ shown.reasons = row.reasons
    /\ shown.progress \in {row.progress} \cup (IF row.state = Finished
                                               THEN {100} ELSE {})

(* The notification that is first in the queue is about r, and its running *)
(* handler, if there is one, has not yet told the tables.  A handler that  *)
(* failed after its write leaves the dictionary ahead of the tables until  *)
(* the notification is handled again.                                      *)
Changing(r) ==
    inbox # <<>> /\ Head(inbox).request = r /\ doing # "tell charts"

(* A table shows of every request it has heard of, once its calls have     *)
(* arrived, what the dictionary has, whichever handlers ran, failed        *)
(* between two steps and ran again, and whenever the process restarted.    *)
(* There are two exceptions: the request of the notification in progress,  *)
(* and one whose last row came from getAllRequests after a bus handler had *)
(* replaced it, for the hub sends what it copied, at any time later on.    *)
TableFollows ==
    \A q \in Tables \cap connected, r \in Requests \ overtaken :
        ~Changing(r) /\ channel[q] = <<>> /\ Exists(table[q][r])
        /\ Exists(requests[r])
            => Agrees(table[q][r], requests[r])

(* The last point of a chart is at most one broadcast old, once its calls  *)
(* have arrived: it is cut to ten points now and to nine then, and the     *)
(* point that goes is the newest.  After a restart of the process it takes *)
(* two broadcasts, for the calls on their way are lost.                    *)
ChartLagsByOne ==
    \A q \in Dashboards \cap connected :
        channel[q] = <<>> /\ data[q] # <<>> /\ Len(told) = 2
            => Contains(told, Last(data[q]))

(* The inductive strengthening of the invariants above.                    *)

(* What is still to do for a notification is all of it, or its own handler *)
(* after that of the base interface.  Once a handler has written, the      *)
(* dictionary has its row.                                                 *)
TodoInv ==
    /\ todo = <<>> => doing = "write"
    /\ todo # <<>> =>
        /\ inbox # <<>>
        /\ todo \in {Handlers(Head(inbox)), <<Head(inbox).kind>>}
        /\ doing # "write" => requests[Head(inbox).request] = RequestModel

(* However many ids there are, the dictionary can be counted.              *)
FiniteDictionary == IsFiniteSet({r \in Requests : Exists(requests[r])})

(* Nothing is on its way to a page that is not open, nor shown by it.      *)
ClosedIsBlank ==
    \A q \in Pages \ connected :
        channel[q] = <<>> /\ table[q] = EmptyTable /\ data[q] = <<>>

(* The messages or calls of the sequence s that are about r.               *)
IsAbout(s, r) == \E i \in 1..Len(s) : s[i].request = r

IsLastAbout(s, r, i) ==
    s[i].request = r /\ \A j \in (i + 1)..Len(s) : s[j].request # r

(* The last call about r on its way to a table carries the dictionary's    *)
(* row; without one the table shows that row, if both show r.              *)
Follows(calls, shown, row, r) ==
    /\ \A i \in 1..Len(calls) : IsLastAbout(calls, r, i) => calls[i].row = row
    /\ ~IsAbout(calls, r) /\ Exists(shown) /\ Exists(row) => Agrees(shown, row)

TableInv ==
    \A q \in Tables, r \in Requests \ overtaken :
        ~Changing(r) => Follows(channel[q], table[q][r], requests[r], r)

(* The points of a chart, the calls on their way to it and the last two    *)
(* statistics: the calls end in those, and only a full chart, which is     *)
(* about to lose its next point, has the last but one of them as its end.  *)
Lags(points, calls, last) ==
    /\ Len(points) <= ChartSize
    /\ calls # <<>> => last # <<>> /\ Last(calls) = Last(last)
    /\ \A i \in 1..Len(calls) :
          i + 1 = Len(calls) => Len(last) = 2 /\ calls[i] = last[1]
    /\ Len(calls) = 1 /\ Len(points) = ChartSize /\ Len(last) = 2
          => Last(points) = last[1]
    /\ calls = <<>> /\ points # <<>> /\ Len(last) = 2
          => Contains(last, Last(points))
    /\ calls = <<>> /\ Len(points) = ChartSize /\ last # <<>>
          => Last(points) = Last(last)

ChartInv == \A q \in Dashboards : Lags(data[q], channel[q], told)

Inv == TypeOK /\ TodoInv /\ FiniteDictionary /\ ClosedIsBlank /\ TableInv
       /\ ChartInv

(* A page that is open comes to show a request that the dictionary knows   *)
(* and of which a handler or getAllRequests is about to tell the tables,   *)
(* however often handlers fail before they do, unless the process restarts *)
(* and the dictionary loses the request.                                   *)
RequestsReachTables ==
    \A q \in Tables, r \in Requests :
        q \in connected /\ Exists(requests[r])
        /\ (Changing(r) \/ IsAbout(refreshing, r))
            ~> q \notin connected \/ Exists(table[q][r]) \/ ~Exists(requests[r])

=============================================================================
