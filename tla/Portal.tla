------------------------------- MODULE Portal -------------------------------
(***************************************************************************)
(* The server and its website: what the sagas publish goes to the input    *)
(* queue of the website, and the commands that users give on a page go to  *)
(* the input queue of the server.  Both are transactional queues: nothing  *)
(* is lost, and the order is kept.  The workers are as open as in          *)
(* TestingRequestSaga.                                                     *)
(***************************************************************************)
EXTENDS TestingRequestSaga, SequencesExt

CONSTANTS
    Tables,        \* pages "All requests"
    MaxCommands,   \* bound: commands on their way to the server
    MaxInbox, MaxInTransit, MaxFailures   \* see Website

ASSUME PortalAssumption ==
    {MaxCommands, MaxInbox, MaxInTransit, MaxFailures} \subseteq Nat

VARIABLES
    commands,      \* the input queue of the server
    inbox, todo, doing, rows, connected, channel, table, data, told,
    refreshing, overtaken, failures, refreshes
                   \* the variables of Website; rows its dictionary

Site == INSTANCE Website
    WITH Seen <- {}, Dashboards <- {}, ChartSize <- 10, MaxRefreshes <- 0,
         requests <- rows

(* The website but for its queue, and with it.                             *)
handling == <<todo, doing, rows, connected, channel, table, data, told,
              refreshing, overtaken, failures, refreshes>>
website == <<inbox, handling>>
portal == <<vars, commands, website>>

-----------------------------------------------------------------------------
(* Commands                                                                *)

PleaseDoTests(r) == [kind |-> "PleaseDoTests", request |-> r]
PleaseCancelTests(r) == [kind |-> "PleaseCancelTests", request |-> r]
PleaseRestart(r) == [kind |-> "PleaseRestart", request |-> r]

Send(command) ==
    /\ Len(commands) < MaxCommands
    /\ commands' = Append(commands, command)
    /\ UNCHANGED <<vars, website>>

(* The page "Create request" and the producer draw a fresh id.             *)
CreateRequest(r) ==
    /\ r \notin requested
    /\ ~Contains(commands, PleaseDoTests(r))
    /\ Send(PleaseDoTests(r))

(* The buttons of a row; the hub passes the command on.                    *)
Cancel(q, r) == Site!Exists(table[q][r]) /\ Send(PleaseCancelTests(r))
Restart(q, r) == Site!Exists(table[q][r]) /\ Send(PleaseRestart(r))

-----------------------------------------------------------------------------
(* The server                                                              *)

IsNotification(m) ==
    m.kind \in {"StateHasChanged", "ProcessUpdate", "ProcessFailed"}

(* Operators named ...Variant are plausible slips, each in place of the    *)
(* definition after it: the properties must notice them.                   *)

NotifyVariant ==
    LET sent == SetToSeq(outgoing')
    IN  /\ Len(inbox) + Len(sent) <= MaxInbox
        /\ inbox' = inbox \o sent
        /\ UNCHANGED handling

(* A handler publishes at most one notification.                           *)
Notify ==
    LET sent == SetToSeq({m \in outgoing' : IsNotification(m)})
    IN  /\ Len(inbox) + Len(sent) <= MaxInbox
        /\ inbox' = inbox \o sent
        /\ UNCHANGED handling

HandleCommand(c) ==
    \/ c.kind = "PleaseDoTests"
       /\ \E path \in Paths : HandlePleaseDoTests(c.request, path)
    \/ c.kind = "PleaseCancelTests" /\ HandlePleaseCancelTests(c.request)
    \/ c.kind = "PleaseRestart" /\ HandlePleaseRestart(c.request)
    \/ c.kind # "PleaseDoTests" /\ StopAllOperationsFails(c.request)

(* A command that meets no saga is dropped.                                *)
ReceiveCommand ==
    /\ commands # <<>>
    /\ commands' = Tail(commands)
    /\ \/ HandleCommand(Head(commands)) /\ Notify
       \/ /\ Head(commands).kind # "PleaseDoTests"
          /\ Head(commands).request \notin sagas
          /\ UNCHANGED <<vars, website>>

SagaProceeds(r) ==
    /\ WorkerMessage(r) \/ Timeout(r)
    /\ Notify
    /\ UNCHANGED commands

-----------------------------------------------------------------------------
(* The website                                                             *)

SiteProceeds ==
    /\ Site!BusThread \/ \E q \in Tables : Site!Page(q)
    /\ UNCHANGED <<vars, commands>>

PortalInit == Init /\ Site!Init /\ commands = <<>>

PortalNext ==
    \/ \E r \in Requests : CreateRequest(r)
    \/ \E q \in Tables, r \in Requests : Cancel(q, r) \/ Restart(q, r)
    \/ ReceiveCommand
    \/ \E r \in Requests : SagaProceeds(r)
    \/ SiteProceeds

(* The website's bus thread goes on and calls arrive.  No user, no worker  *)
(* and no timeout is assumed to act.                                       *)
PortalFairness ==
    /\ WF_portal(Site!Dispatch /\ UNCHANGED <<vars, commands>>)
    /\ WF_portal(Site!AddOrUpdate /\ UNCHANGED <<vars, commands>>)
    /\ WF_portal(Site!TellTables /\ UNCHANGED <<vars, commands>>)
    /\ WF_portal(Site!SendStats /\ UNCHANGED <<vars, commands>>)
    /\ \A q \in Tables :
          WF_portal(Site!RequestStateChanged(q)
                    /\ UNCHANGED <<vars, commands>>)

PortalSpec == PortalInit /\ [][PortalNext]_portal /\ PortalFairness

-----------------------------------------------------------------------------
(* Properties                                                              *)

Commands == [kind : {"PleaseDoTests", "PleaseCancelTests", "PleaseRestart"},
             request : Requests]

(* The saga, the website and the queues hold what they can hold.           *)
PortalTypeOK == TypeOK /\ Site!TypeOK /\ commands \in Seq(Commands)

(* What the website ought to show of a saga: its state, how far the stage  *)
(* in progress has got, why it failed.                                     *)
Describes(row, r) ==
    /\ row.state = state[r]
    /\ \A s \in Stages : state[r] = InProgress(s) =>
                             row.progress = progress[r][s]
    /\ state[r] \notin {InProgress(s) : s \in Stages} => row.progress = 0
    /\ state[r] # Failed => row.reasons = Null
    /\ state[r] = Failed /\ failReason[r][Tests] = Null =>
          \E s \in Stages :
              row.reasons \in {denial[r][s], failReason[r][s]} \ {Null}

Shows(row, r) ==
    IF r \in sagas THEN Describes(row, r)
    ELSE IF r \in requested THEN row.state = Cancelled
    ELSE row = Site!NoRow

(* The website's dictionary shows each saga as it is, once it has handled  *)
(* the notifications that are on their way: the last of them says it, and  *)
(* without one the row does.  Every handler and timeout of the saga        *)
(* publishes what it changed, and whatever handlers of the website run,    *)
(* fail and run again, the last one has the last word.                     *)
SiteFollowsSaga ==
    \A r \in Requests :
        /\ \A i \in 1..Len(inbox) :
              Site!IsLastAbout(inbox, r, i) => Shows(Site!Content(inbox[i]), r)
        /\ ~Site!IsAbout(inbox, r) => Shows(rows[r], r)

(* A table that shows a request at all comes to show the state of its      *)
(* saga, unless that changes again and again, or the page is closed.       *)
TableCatchesUp ==
    \A q \in Tables, r \in Requests :
        \/ []<><<state[r]' # state[r]>>_state
        \/ []<>(r \in sagas /\ Site!Exists(table[q][r])
                   => table[q][r].state = state[r])

=============================================================================
