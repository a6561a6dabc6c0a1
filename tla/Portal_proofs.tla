---------------------------- MODULE Portal_proofs -----------------------------
(***************************************************************************)
(* Theorems about Portal, the server and its website, for any requests,    *)
(* texts, percentages, pages and bounds.  What the website does by itself  *)
(* is taken from Website_proofs.                                           *)
(***************************************************************************)
EXTENDS Portal, TestingRequestSaga_proofs, SequenceTheorems, FiniteSetTheorems

SiteProofs == INSTANCE Website_proofs
    WITH Seen <- {}, Dashboards <- {}, ChartSize <- 10, MaxRefreshes <- 0,
         requests <- rows

-----------------------------------------------------------------------------
(* The website of the portal is that of Website_proofs                     *)

LEMMA SiteAssumption == SiteProofs!WebsiteAssumption
  BY SagaAssumption, PortalAssumption
  DEF SagaAssumption, PortalAssumption, SiteProofs!WebsiteAssumption

LEMMA SameNotifications ==
    /\ Site!Notifications = SiteProofs!Notifications
    /\ \A m : Site!Content(m) = SiteProofs!Content(m)
    /\ Site!NoRow = SiteProofs!NoRow
    /\ \A s, r : Site!IsAbout(s, r) <=> SiteProofs!IsAbout(s, r)
    /\ \A s, r, i :
          Site!IsLastAbout(s, r, i) <=> SiteProofs!IsLastAbout(s, r, i)
  BY DEF Site!Notifications, SiteProofs!Notifications, Site!Content,
         SiteProofs!Content, Site!NoRow, SiteProofs!NoRow, Site!IsAbout,
         SiteProofs!IsAbout, Site!IsLastAbout, SiteProofs!IsLastAbout,
         Site!RowBy, SiteProofs!RowBy, Site!Row, SiteProofs!Row, Site!StateOf,
         SiteProofs!StateOf, Site!States, SiteProofs!States, Site!Failed,
         SiteProofs!Failed, Site!Finished, SiteProofs!Finished,
         Site!Cancelled, SiteProofs!Cancelled

LEMMA SameTypes == SiteProofs!TypeOK => Site!TypeOK
  BY DEF Site!TypeOK, SiteProofs!TypeOK, Site!Notifications,
         SiteProofs!Notifications, Site!Rows, SiteProofs!Rows, Site!RowCalls,
         SiteProofs!RowCalls, Site!Statistics, SiteProofs!Statistics,
         Site!Pages, SiteProofs!Pages, Site!States, SiteProofs!States,
         Site!Failed, SiteProofs!Failed, Site!Finished, SiteProofs!Finished

LEMMA SameStats == \A d : Site!Stats(d) = SiteProofs!Stats(d)
<1>1. \A S : Site!Cardinality(S) = SiteProofs!Cardinality(S)
  BY DEF Site!Cardinality, SiteProofs!Cardinality
<1>2. \A word : Site!Named(word) = SiteProofs!Named(word)
  BY DEF Site!Named, SiteProofs!Named, Site!Failed, SiteProofs!Failed,
     Site!Finished, SiteProofs!Finished, Site!Cancelled, SiteProofs!Cancelled
<1>3. \A d, S : Site!Count(d, S) = SiteProofs!Count(d, S)
  BY <1>1 DEF Site!Count, SiteProofs!Count, Site!Exists, SiteProofs!Exists,
     Site!NoRow, SiteProofs!NoRow, Site!Row, SiteProofs!Row,
     Site!Cancelled, SiteProofs!Cancelled
<1>4. Site!States = SiteProofs!States
  BY DEF Site!States, SiteProofs!States, Site!Failed, SiteProofs!Failed,
     Site!Finished, SiteProofs!Finished
<1> QED
  BY <1>2, <1>3, <1>4 DEF Site!Stats, SiteProofs!Stats

LEMMA SameBusThread ==
    /\ Site!Dispatch => SiteProofs!Dispatch
    /\ Site!AddOrUpdate => SiteProofs!AddOrUpdate
    /\ Site!TellTables => SiteProofs!TellTables
    /\ Site!SendStats => SiteProofs!SendStats
    /\ Site!HandlerFails => SiteProofs!HandlerFails
<1>1. Site!RequestModel = SiteProofs!RequestModel
  BY DEF Site!RequestModel, SiteProofs!RequestModel, Site!RowBy,
     SiteProofs!RowBy, Site!Row, SiteProofs!Row, Site!StateOf,
     SiteProofs!StateOf, Site!Failed, SiteProofs!Failed
<1>2. \A s : Site!LastTwo(s) = SiteProofs!LastTwo(s)
  BY DEF Site!LastTwo, SiteProofs!LastTwo
<1>3. \A c, d : Site!Broadcast(c, d) <=> SiteProofs!Broadcast(c, d)
  BY DEF Site!Broadcast, SiteProofs!Broadcast, Site!Pages, SiteProofs!Pages
<1>4. Site!Stats(rows) = SiteProofs!Stats(rows)
  BY SameStats
<1>5. Site!Dispatch => SiteProofs!Dispatch
  BY DEF Site!Dispatch, SiteProofs!Dispatch, Site!Handlers,
     SiteProofs!Handlers, Site!hub, SiteProofs!hub, Site!pages, SiteProofs!pages
<1>6. Site!AddOrUpdate => SiteProofs!AddOrUpdate
  BY <1>1 DEF Site!AddOrUpdate, SiteProofs!AddOrUpdate, Site!hub,
     SiteProofs!hub, Site!pages, SiteProofs!pages
<1>7. Site!TellTables => SiteProofs!TellTables
  BY <1>1, <1>3, Zenon DEF Site!TellTables, SiteProofs!TellTables
<1>8. Site!SendStats => SiteProofs!SendStats
  BY <1>2, <1>3, <1>4, Zenon DEF Site!SendStats, SiteProofs!SendStats,
     Site!hub, SiteProofs!hub
<1>9. Site!HandlerFails => SiteProofs!HandlerFails
  BY DEF Site!HandlerFails, SiteProofs!HandlerFails, Site!hub,
     SiteProofs!hub, Site!pages, SiteProofs!pages
<1> QED
  BY <1>5, <1>6, <1>7, <1>8, <1>9

LEMMA SamePage == \A q \in Tables : Site!Page(q) => SiteProofs!Page(q)
<1> SUFFICES ASSUME NEW q \in Tables
             PROVE  Site!Page(q) => SiteProofs!Page(q)
  OBVIOUS
<1>1. Site!EmptyTable = SiteProofs!EmptyTable
  BY DEF Site!EmptyTable, SiteProofs!EmptyTable, Site!NoRow, SiteProofs!NoRow,
     Site!Row, SiteProofs!Row, Site!Cancelled, SiteProofs!Cancelled
<1>2. \A d, c : Site!TableAfter(d, c) = SiteProofs!TableAfter(d, c)
  BY DEF Site!TableAfter, SiteProofs!TableAfter, Site!Exists,
     SiteProofs!Exists, Site!NoRow, SiteProofs!NoRow, Site!Row,
     SiteProofs!Row, Site!Cancelled, SiteProofs!Cancelled, Site!Finished,
     SiteProofs!Finished
<1>3. Site!OpenPage(q) => SiteProofs!OpenPage(q)
  BY DEF Site!OpenPage, SiteProofs!OpenPage, Site!bus, SiteProofs!bus,
     Site!hub, SiteProofs!hub
<1>4. Site!ClosePage(q) => SiteProofs!ClosePage(q)
  BY <1>1 DEF Site!ClosePage, SiteProofs!ClosePage, Site!bus, SiteProofs!bus,
     Site!hub, SiteProofs!hub
<1>5. Site!RequestStateChanged(q) => SiteProofs!RequestStateChanged(q)
  BY <1>2 DEF Site!RequestStateChanged, SiteProofs!RequestStateChanged,
     Site!bus, SiteProofs!bus, Site!hub, SiteProofs!hub
<1>6. ~Site!ConsumeStats(q)
  BY DEF Site!ConsumeStats
<1> QED
  BY <1>3, <1>4, <1>5, <1>6 DEF Site!Page, SiteProofs!Page

LEMMA SameInit == Site!Init => SiteProofs!Init
  BY DEF Site!Init, SiteProofs!Init, Site!EmptyTable, SiteProofs!EmptyTable,
     Site!NoRow, SiteProofs!NoRow, Site!Row, SiteProofs!Row,
     Site!Cancelled, SiteProofs!Cancelled, Site!Pages, SiteProofs!Pages

-----------------------------------------------------------------------------
(* What a handler publishes for the website                                *)

(* A step about r leaves what is to be shown of the other requests.  It    *)
(* publishes either no notification, and what showed r still does, or a    *)
(* single one, which shows what became of r.                               *)
OthersStay(r) ==
    \A q \in Requests \ {r} : \A row : Shows(row, q) => Shows(row, q)'

Silent(r) ==
    /\ {m \in outgoing' : IsNotification(m)} = {}
    /\ \A row : Shows(row, r) => Shows(row, r)'

Tells(r, n) ==
    /\ n \in Site!Notifications /\ n.request = r
    /\ {m \in outgoing' : IsNotification(m)} = {n}
    /\ \A row : row = Site!Content(n) => Shows(row, r)'

IsTold(r) == OthersStay(r) /\ (Silent(r) \/ \E n : Tells(r, n))

LEMMA Kinds ==
    /\ \A t, r, path : ~IsNotification(Please(t, r, path))
    /\ \A r, reached : \A m \in Cancellation(r, reached) : ~IsNotification(m)
    /\ \A r, st, text : IsNotification(Notification(r, st, text))
    /\ \A r, st, p : IsNotification(ProgressNotification(r, st, p))
  BY DEF IsNotification, Please, Cancellation, PleaseCancel, Notification,
         ProgressNotification

(* What the notifications of the saga say.                                 *)
LEMMA Contents ==
    ASSUME SagaAssumption, NEW r \in Requests
    PROVE  /\ \A text : \A st \in States \ {Failed} :
                 /\ Notification(r, st, text) \in Site!Notifications
                 /\ Notification(r, st, text).request = r
                 /\ Site!Content(Notification(r, st, text))
                       = [state |-> st, progress |-> 0, reasons |-> Null]
           /\ \A text \in Reasons \cup {Null} :
                 /\ Notification(r, Failed, text) \in Site!Notifications
                 /\ Notification(r, Failed, text).request = r
                 /\ Site!Content(Notification(r, Failed, text))
                       = [state |-> Failed, progress |-> 0, reasons |-> text]
           /\ \A st \in States, p \in Progress :
                 /\ ProgressNotification(r, st, p) \in Site!Notifications
                 /\ ProgressNotification(r, st, p).request = r
                 /\ Site!Content(ProgressNotification(r, st, p))
                       = [state |-> st, progress |-> p, reasons |-> Null]
<1> USE DEF Site!Content, Site!RowBy, Site!Row, Site!StateOf, Site!Failed,
            Site!States, Site!Finished, Failed, States, Finished,
            Site!Notifications
<1>1. ASSUME NEW st \in States \ {Failed}, NEW text
      PROVE  /\ Notification(r, st, text) \in Site!Notifications
             /\ Notification(r, st, text).request = r
             /\ Site!Content(Notification(r, st, text))
                   = [state |-> st, progress |-> 0, reasons |-> Null]
  <2>1. Notification(r, st, text)
           = [kind |-> "StateHasChanged", request |-> r, state |-> st]
    BY DEF Notification
  <2> QED
    BY <2>1
<1>2. ASSUME NEW text \in Reasons \cup {Null}
      PROVE  /\ Notification(r, Failed, text) \in Site!Notifications
             /\ Notification(r, Failed, text).request = r
             /\ Site!Content(Notification(r, Failed, text))
                   = [state |-> Failed, progress |-> 0, reasons |-> text]
  <2>1. Notification(r, Failed, text)
           = [kind |-> "ProcessFailed", request |-> r, reasons |-> text]
    BY DEF Notification
  <2> QED
    BY <2>1
<1>3. ASSUME NEW st \in States, NEW p \in Progress
      PROVE  /\ ProgressNotification(r, st, p) \in Site!Notifications
             /\ ProgressNotification(r, st, p).request = r
             /\ Site!Content(ProgressNotification(r, st, p))
                   = [state |-> st, progress |-> p, reasons |-> Null]
  BY DEF ProgressNotification
<1> QED
  BY <1>1, <1>2, <1>3

(* A request that the step does not touch.                                 *)
LEMMA SameShown ==
    ASSUME NEW q, q \in sagas' <=> q \in sagas,
           q \in requested' <=> q \in requested,
           state'[q] = state[q], progress'[q] = progress[q],
           denial'[q] = denial[q], failReason'[q] = failReason[q]
    PROVE  \A row : Shows(row, q) => Shows(row, q)'
  BY Zenon DEF Shows, Describes

(* The state is shown, and no stage is in progress: a bare row will do.    *)
LEMMA BareRow ==
    ASSUME NEW r, NEW row, r \in sagas', state'[r] # Failed,
           \A s \in Stages : state'[r] # InProgress(s),
           row = [state |-> state'[r], progress |-> 0, reasons |-> Null]
    PROVE  Shows(row, r)'
<1>1. row.state = state'[r] /\ row.progress = 0 /\ row.reasons = Null
  OBVIOUS
<1> QED
  BY <1>1 DEF Shows, Describes

LEMMA AnnouncedStates ==
    /\ {Cancelled, TestingRequested} \subseteq States \ {Failed}
    /\ \A s \in Stages :
          /\ {Started(s), Done(s), InProgress(s)}
                \subseteq States \ {Failed, Cancelled}
          /\ \A t \in Stages :
                /\ InProgress(s) \notin {Cancelled, TestingRequested, Failed}
                /\ InProgress(s) \notin {Started(t), Done(t)}
                /\ InProgress(s) = InProgress(t) => s = t
  BY DEF Stages, States, Failed, Cancelled, TestingRequested, Finished,
         Started, Done, InProgress

-----------------------------------------------------------------------------
(* The commands                                                            *)

LEMMA DoTestsTells ==
    ASSUME SagaAssumption, TypeOK, NEW r \in Requests, NEW path \in Paths,
           HandlePleaseDoTests(r, path)
    PROVE  IsTold(r)
<1> DEFINE n == Notification(r, TestingRequested, Null)
<1>1. /\ requested' = requested \cup {r} /\ sagas' = sagas \cup {r}
      /\ state' = [state EXCEPT ![r] = TestingRequested]
      /\ outgoing' = {n, Please(Validation, r, Null)}
      /\ UNCHANGED fields
  BY DEF HandlePleaseDoTests, Publish
<1>2. state'[r] = TestingRequested
      /\ \A q \in Requests \ {r} : state'[q] = state[q]
  BY <1>1 DEF TypeOK
<1>3. OthersStay(r)
  BY <1>1, <1>2, SameShown DEF OthersStay, fields
<1>4. {m \in outgoing' : IsNotification(m)} = {n}
  BY <1>1, Kinds
<1>5. ASSUME NEW row, row = Site!Content(n) PROVE Shows(row, r)'
  <2>1. row = [state |-> state'[r], progress |-> 0, reasons |-> Null]
    BY <1>2, <1>5, Contents, AnnouncedStates
  <2>2. r \in sagas' /\ state'[r] # Failed
        /\ \A s \in Stages : state'[r] # InProgress(s)
    BY <1>1, <1>2, AnnouncedStates
  <2> QED
    BY <2>1, <2>2, BareRow
<1>6. n \in Site!Notifications /\ n.request = r
  BY Contents, AnnouncedStates
<1> QED
  BY <1>3, <1>4, <1>5, <1>6 DEF IsTold, Tells

LEMMA StopFailsTells ==
    ASSUME NEW r \in Requests, StopAllOperationsFails(r)
    PROVE  IsTold(r)
<1>1. UNCHANGED <<requested, sagas, state, denial, progress, failReason>>
  BY DEF StopAllOperationsFails, fields
<1>2. {m \in outgoing' : IsNotification(m)} = {}
  BY Kinds DEF StopAllOperationsFails, Publish
<1> QED
  BY <1>1, <1>2, SameShown DEF IsTold, OthersStay, Silent

LEMMA CancelTells ==
    ASSUME SagaAssumption, TypeOK, NEW r \in Requests,
           HandlePleaseCancelTests(r)
    PROVE  IsTold(r)
<1> DEFINE n == Notification(r, Cancelled, Null)
<1>1. /\ r \in sagas
      /\ state' = [state EXCEPT ![r] = Cancelled]
      /\ outgoing' = Cancellation(r, Stages) \cup {n}
      /\ UNCHANGED <<requested, sagas, progress, denial, failReason>>
  BY DEF HandlePleaseCancelTests, Publish, fields
<1>2. state'[r] = Cancelled
      /\ \A q \in Requests \ {r} : state'[q] = state[q]
  BY <1>1 DEF TypeOK
<1>3. OthersStay(r)
  BY <1>1, <1>2, SameShown DEF OthersStay
<1>4. {m \in outgoing' : IsNotification(m)} = {n}
  BY <1>1, Kinds
<1>5. ASSUME NEW row, row = Site!Content(n) PROVE Shows(row, r)'
  <2>1. row = [state |-> state'[r], progress |-> 0, reasons |-> Null]
    BY <1>2, <1>5, Contents, AnnouncedStates
  <2>2. r \in sagas' /\ state'[r] # Failed
        /\ \A s \in Stages : state'[r] # InProgress(s)
    BY <1>1, <1>2, AnnouncedStates
  <2> QED
    BY <2>1, <2>2, BareRow
<1>6. n \in Site!Notifications /\ n.request = r
  BY Contents, AnnouncedStates
<1> QED
  BY <1>3, <1>4, <1>5, <1>6 DEF IsTold, Tells

LEMMA RestartTells ==
    ASSUME SagaAssumption, TypeOK, NEW r \in Requests, HandlePleaseRestart(r)
    PROVE  IsTold(r)
<1> DEFINE n == Notification(r, TestingRequested, Null)
<1>1. /\ r \in sagas /\ WipeClean(r)
      /\ state' = [state EXCEPT ![r] = TestingRequested]
      /\ outgoing' = Cancellation(r, Stages)
                        \cup {n, Please(Validation, r, Null)}
      /\ UNCHANGED <<requested, sagas>>
  BY DEF HandlePleaseRestart, Publish
<1>2. state'[r] = TestingRequested
      /\ \A q \in Requests \ {r} :
            /\ state'[q] = state[q] /\ progress'[q] = progress[q]
            /\ denial'[q] = denial[q] /\ failReason'[q] = failReason[q]
  BY <1>1 DEF TypeOK, WipeClean
<1>3. OthersStay(r)
  BY <1>1, <1>2, SameShown DEF OthersStay
<1>4. {m \in outgoing' : IsNotification(m)} = {n}
  BY <1>1, Kinds
<1>5. ASSUME NEW row, row = Site!Content(n) PROVE Shows(row, r)'
  <2>1. row = [state |-> state'[r], progress |-> 0, reasons |-> Null]
    BY <1>2, <1>5, Contents, AnnouncedStates
  <2>2. r \in sagas' /\ state'[r] # Failed
        /\ \A s \in Stages : state'[r] # InProgress(s)
    BY <1>1, <1>2, AnnouncedStates
  <2> QED
    BY <2>1, <2>2, BareRow
<1>6. n \in Site!Notifications /\ n.request = r
  BY Contents, AnnouncedStates
<1> QED
  BY <1>3, <1>4, <1>5, <1>6 DEF IsTold, Tells

-----------------------------------------------------------------------------
(* The messages of the workers                                             *)

(* A failure is shown with the text that the saga has recorded, unless its *)
(* tests failed.                                                           *)
LEMMA FailedRow ==
    ASSUME NEW r, NEW row, NEW text, r \in sagas', state'[r] = Failed,
           row = [state |-> Failed, progress |-> 0, reasons |-> text],
           failReason'[r][Tests] = Null =>
              \E s \in Stages :
                 text \in {denial'[r][s], failReason'[r][s]} \ {Null}
    PROVE  Shows(row, r)'
<1>1. row.state = state'[r] /\ row.progress = 0 /\ row.reasons = text
  OBVIOUS
<1>2. \A s \in Stages : state'[r] # InProgress(s)
  BY AnnouncedStates
<1> QED
  BY <1>1, <1>2 DEF Shows, Describes

LEMMA ConfirmationTells ==
    ASSUME SagaAssumption, TypeOK, NEW r \in Requests, NEW s \in Stages,
           Confirmation(s, r)
    PROVE  IsTold(r)
<1>1. PICK c \in Confirmations : HandleConfirmation(s, r, c.will, c.reason)
  BY DEF Confirmation
<1> DEFINE next == IF c.will THEN Started(s) ELSE Failed
           n == Notification(r, next, c.reason)
<1>2. /\ r \in sagas
      /\ state' = [state EXCEPT ![r] = next]
      /\ denial' = [denial EXCEPT ![r] = [denial[r] EXCEPT ![s] = c.reason]]
      /\ outgoing' = {n}
      /\ UNCHANGED <<requested, sagas, progress, failReason>>
  BY <1>1 DEF HandleConfirmation, Publish
<1>3. /\ state'[r] = next /\ denial'[r][s] = c.reason
      /\ \A q \in Requests \ {r} :
            state'[q] = state[q] /\ denial'[q] = denial[q]
  BY <1>2 DEF TypeOK
<1>4. OthersStay(r)
  BY <1>2, <1>3, SameShown DEF OthersStay
<1>5. {m \in outgoing' : IsNotification(m)} = {n}
  BY <1>2, Kinds
<1>6. CASE c.will
  <2>1. next = Started(s) /\ next \in States \ {Failed}
    BY <1>6, AnnouncedStates
  <2>2. n \in Site!Notifications /\ n.request = r
    BY <2>1, Contents
  <2>3. ASSUME NEW row, row = Site!Content(n) PROVE Shows(row, r)'
    <3>1. row = [state |-> state'[r], progress |-> 0, reasons |-> Null]
      BY <1>3, <2>1, <2>3, Contents
    <3>2. state'[r] # Failed /\ \A t \in Stages : state'[r] # InProgress(t)
      BY <1>3, <2>1, AnnouncedStates
    <3> QED
      BY <1>2, <3>1, <3>2, BareRow
  <2> QED
    BY <1>4, <1>5, <2>2, <2>3 DEF IsTold, Tells
<1>7. CASE ~c.will
  <2>1. next = Failed /\ c.reason \in Reasons /\ c.reason # Null
    BY <1>7 DEF Confirmations, SagaAssumption
  <2>2. n \in Site!Notifications /\ n.request = r
    BY <2>1, Contents
  <2>3. ASSUME NEW row, row = Site!Content(n) PROVE Shows(row, r)'
    <3>1. row = [state |-> Failed, progress |-> 0, reasons |-> c.reason]
      BY <2>1, <2>3, Contents
    <3>2. r \in sagas' /\ state'[r] = Failed
      BY <1>2, <1>3, <2>1
    <3>3. c.reason \in {denial'[r][s], failReason'[r][s]} \ {Null}
      BY <1>3, <2>1
    <3> QED
      BY <3>1, <3>2, <3>3, FailedRow
  <2> QED
    BY <1>4, <1>5, <2>2, <2>3 DEF IsTold, Tells
<1> QED
  BY <1>6, <1>7

LEMMA StatusTells ==
    ASSUME SagaAssumption, TypeOK, NEW r \in Requests, NEW s \in Stages,
           Status(s, r)
    PROVE  IsTold(r)
<1>1. PICK p \in Progress : HandleStatus(s, r, p)
  BY DEF Status
<1> DEFINE n == ProgressNotification(r, InProgress(s), p)
<1>2. /\ r \in sagas
      /\ state' = [state EXCEPT ![r] = InProgress(s)]
      /\ progress' = [progress EXCEPT ![r] = [progress[r] EXCEPT ![s] = p]]
      /\ outgoing' = {n}
      /\ UNCHANGED <<requested, sagas, denial, failReason>>
  BY <1>1 DEF HandleStatus, Publish
<1>3. /\ state'[r] = InProgress(s) /\ progress'[r][s] = p
      /\ \A q \in Requests \ {r} :
            state'[q] = state[q] /\ progress'[q] = progress[q]
  BY <1>2 DEF TypeOK
<1>4. OthersStay(r)
  BY <1>2, <1>3, SameShown DEF OthersStay
<1>5. {m \in outgoing' : IsNotification(m)} = {n}
  BY <1>2, Kinds
<1>6. n \in Site!Notifications /\ n.request = r
  BY Contents, AnnouncedStates
<1>7. ASSUME NEW row, row = Site!Content(n) PROVE Shows(row, r)'
  <2>1. row = [state |-> InProgress(s), progress |-> p, reasons |-> Null]
    BY <1>7, Contents, AnnouncedStates
  <2>2. row.state = state'[r] /\ row.progress = p /\ row.reasons = Null
    BY <1>3, <2>1
  <2>3. \A t \in Stages : state'[r] = InProgress(t) => t = s
    BY <1>3, AnnouncedStates
  <2>4. state'[r] # Failed
    BY <1>3, AnnouncedStates
  <2>5. \A t \in Stages : state'[r] = InProgress(t)
           => row.progress = progress'[r][t]
    BY <1>3, <2>2, <2>3
  <2> QED
    BY <1>2, <1>3, <2>2, <2>4, <2>5 DEF Shows, Describes
<1> QED
  BY <1>4, <1>5, <1>6, <1>7 DEF IsTold, Tells

LEMMA FinishTells ==
    ASSUME SagaAssumption, TypeOK, NEW r \in Requests, NEW s \in Stages,
           Finish(s, r)
    PROVE  IsTold(r)
<1>1. PICK o \in Outcomes : HandleFinished(s, r, o.ok, o.reason, o.path)
  BY DEF Finish
<1> DEFINE next == IF o.ok THEN Done(s) ELSE Failed
           text == AnnouncedReason(s, r, o.reason)
           n == Notification(r, next, text)
           asks == IF o.ok THEN NextRequest(s, r, o.path) ELSE {}
<1>2. /\ r \in sagas
      /\ state' = [state EXCEPT ![r] = next]
      /\ failReason' =
            [failReason EXCEPT ![r] = [failReason[r] EXCEPT ![s] = o.reason]]
      /\ outgoing' = {n} \cup asks
      /\ UNCHANGED <<requested, sagas, progress, denial>>
  BY <1>1 DEF HandleFinished, Publish
<1>3. /\ state'[r] = next /\ failReason'[r][s] = o.reason
      /\ \A q \in Requests \ {r} :
            state'[q] = state[q] /\ failReason'[q] = failReason[q]
  BY <1>2 DEF TypeOK
<1>4. OthersStay(r)
  BY <1>2, <1>3, SameShown DEF OthersStay
<1>5. {m \in outgoing' : IsNotification(m)} = {n}
  <2>1. \A m \in asks : ~IsNotification(m)
    BY Kinds DEF NextRequest
  <2> HIDE DEF asks
  <2> QED
    BY <1>2, <2>1, Kinds
<1>6. CASE o.ok
  <2>1. next = Done(s) /\ next \in States \ {Failed}
    BY <1>6, AnnouncedStates
  <2>2. n \in Site!Notifications /\ n.request = r
    BY <2>1, Contents
  <2>3. ASSUME NEW row, row = Site!Content(n) PROVE Shows(row, r)'
    <3>1. row = [state |-> state'[r], progress |-> 0, reasons |-> Null]
      BY <1>3, <2>1, <2>3, Contents
    <3>2. state'[r] # Failed /\ \A t \in Stages : state'[r] # InProgress(t)
      BY <1>3, <2>1, AnnouncedStates
    <3> QED
      BY <1>2, <3>1, <3>2, BareRow
  <2> QED
    BY <1>4, <1>5, <2>2, <2>3 DEF IsTold, Tells
<1>7. CASE ~o.ok
  <2>1. next = Failed /\ o.reason \in Reasons /\ o.reason # Null
    BY <1>7 DEF Outcomes, SagaAssumption
  <2>2. text \in Reasons \cup {Null}
    BY <2>1 DEF AnnouncedReason, TypeOK, Stages, Builds
  <2>3. n \in Site!Notifications /\ n.request = r
    BY <2>1, <2>2, Contents
  <2>4. ASSUME NEW row, row = Site!Content(n) PROVE Shows(row, r)'
    <3>1. row = [state |-> Failed, progress |-> 0, reasons |-> text]
      BY <2>1, <2>2, <2>4, Contents
    <3>2. r \in sagas' /\ state'[r] = Failed
      BY <1>2, <1>3, <2>1
    <3>3. failReason'[r][Tests] = Null
             => /\ s # Tests
                /\ text \in {denial'[r][s], failReason'[r][s]} \ {Null}
      BY <1>3, <2>1 DEF AnnouncedReason
    <3> QED
      BY <3>1, <3>2, <3>3, FailedRow
  <2> QED
    BY <1>4, <1>5, <2>3, <2>4 DEF IsTold, Tells
<1> QED
  BY <1>6, <1>7

-----------------------------------------------------------------------------
(* The timeouts                                                            *)

LEMMA CompletionStays ==
    ASSUME TypeOK, NEW r \in Requests, MarkAsComplete(r), UNCHANGED requested
    PROVE  /\ OthersStay(r)
           /\ r \notin sagas'
<1>1. /\ sagas' = sagas \ {r}
      /\ state' = [state EXCEPT ![r] = Cancelled]
      /\ WipeClean(r)
  BY DEF MarkAsComplete
<1>2. \A q \in Requests \ {r} :
         /\ state'[q] = state[q] /\ progress'[q] = progress[q]
         /\ denial'[q] = denial[q] /\ failReason'[q] = failReason[q]
  BY <1>1 DEF TypeOK, WipeClean
<1> QED
  BY <1>1, <1>2, SameShown DEF OthersStay

LEMMA TimeoutTells ==
    ASSUME SagaAssumption, TypeOK, NEW r \in Requests, Timeout(r)
    PROVE  IsTold(r)
<1>1. CASE TimeoutRestart(r)
  <2>1. outgoing' = {} /\ r \in sagas /\ UNCHANGED requested
    BY <1>1 DEF TimeoutRestart, Publish
  <2>2. CASE state[r] = Cancelled /\ MarkAsComplete(r)
    <3>1. OthersStay(r) /\ r \notin sagas'
      BY <2>1, <2>2, CompletionStays
    <3>2. r \in requested'
      BY <2>1 DEF TypeOK
    <3>3. \A row : Shows(row, r) => Shows(row, r)'
      BY <2>1, <2>2, <3>1, <3>2 DEF Shows, Describes
    <3> QED
      BY <2>1, <3>1, <3>3 DEF IsTold, Silent
  <2>3. CASE UNCHANGED <<sagas, state, fields>>
    BY <2>1, <2>3, SameShown DEF IsTold, OthersStay, Silent, fields
  <2> QED
    BY <1>1, <2>2, <2>3 DEF TimeoutRestart
<1>2. CASE TimeoutPossibleTestingLoop(r)
  <2>1. r \in sagas /\ UNCHANGED requested
    BY <1>2 DEF TimeoutPossibleTestingLoop
  <2> DEFINE n == Notification(r, Cancelled, Null)
  <2>2. CASE /\ MarkAsComplete(r)
             /\ \E reached : outgoing' = Cancellation(r, reached) \cup {n}
    <3>1. OthersStay(r) /\ r \notin sagas'
      BY <2>1, <2>2, CompletionStays
    <3>2. r \in requested'
      BY <2>1 DEF TypeOK
    <3>3. {m \in outgoing' : IsNotification(m)} = {n}
      BY <2>2, Kinds
    <3>4. ASSUME NEW row, row = Site!Content(n) PROVE Shows(row, r)'
      <4>1. row.state = Cancelled
        BY <3>4, Contents, AnnouncedStates
      <4> QED
        BY <3>1, <3>2, <4>1 DEF Shows
    <3>5. n \in Site!Notifications /\ n.request = r
      BY Contents, AnnouncedStates
    <3> QED
      BY <3>1, <3>3, <3>4, <3>5 DEF IsTold, Tells
  <2>3. CASE UNCHANGED <<sagas, state, fields>> /\ outgoing' = {}
    BY <2>1, <2>3, SameShown DEF IsTold, OthersStay, Silent, fields
  <2> QED
    BY <1>2, <2>2, <2>3 DEF TimeoutPossibleTestingLoop, Publish
<1> QED
  BY <1>1, <1>2 DEF Timeout

LEMMA CommandTells ==
    ASSUME SagaAssumption, TypeOK, NEW c \in Commands, HandleCommand(c)
    PROVE  IsTold(c.request)
<1> c.request \in Requests
  BY DEF Commands
<1> QED
  BY DoTestsTells, CancelTells, RestartTells, StopFailsTells DEF HandleCommand

LEMMA ProceedingTells ==
    ASSUME SagaAssumption, TypeOK, NEW r \in Requests,
           WorkerMessage(r) \/ Timeout(r)
    PROVE  IsTold(r)
  BY WorkerMessageCases, ConfirmationTells, StatusTells, FinishTells,
     TimeoutTells

-----------------------------------------------------------------------------
(* The notifications on their way to the website                           *)

LEMMA SequenceOfAtMostOne ==
    /\ SetToSeq({}) = <<>>
    /\ \A x : SetToSeq({x}) = <<x>>
<1>1. SetToSeq({}) = <<>>
  <2>1. Cardinality({}) = 0
    BY FS_EmptySet
  <2> DEFINE f == <<>>
  <2>2. f \in [1..0 -> {}] /\ IsInjective(f)
    BY DEF IsInjective
  <2>3. SetToSeq({}) \in [1..0 -> {}]
    BY <2>1, <2>2 DEF SetToSeq
  <2> QED
    BY <2>3
<1>2. ASSUME NEW x PROVE SetToSeq({x}) = <<x>>
  <2>1. Cardinality({x}) = 1
    BY FS_Singleton
  <2> DEFINE f == <<x>>
  <2>2. f \in [1..1 -> {x}] /\ IsInjective(f)
    BY DEF IsInjective
  <2>3. SetToSeq({x}) \in [1..1 -> {x}]
    BY <2>1, <2>2 DEF SetToSeq
  <2> HIDE DEF f
  <2>4. SetToSeq({x}) = [i \in 1..1 |-> x]
    BY <2>3
  <2>5. <<x>> = [i \in 1..1 |-> x]
    OBVIOUS
  <2> QED
    BY <2>4, <2>5
<1> QED
  BY <1>1, <1>2

(* SiteFollowsSaga for one request, in the words of Website_proofs.        *)
Followed(r) ==
    \A row :
       /\ \A i \in 1..Len(inbox) :
             /\ SiteProofs!IsLastAbout(inbox, r, i)
             /\ row = SiteProofs!Content(inbox[i])
             => Shows(row, r)
       /\ ~SiteProofs!IsAbout(inbox, r) /\ row = rows[r] => Shows(row, r)

AllFollowed == \A r \in Requests : Followed(r)

LEMMA SiteFollows ==
    (SiteFollowsSaga <=> AllFollowed) /\ (SiteFollowsSaga' <=> AllFollowed')
<1>1. SiteFollowsSaga <=> AllFollowed
  BY SameNotifications, Zenon DEF SiteFollowsSaga, AllFollowed, Followed
<1> QED
  BY <1>1, PTL

PInv ==
    /\ TypeOK /\ SiteProofs!Inv
    /\ commands \in Seq(Commands)
    /\ SiteFollowsSaga

(* What a step about r publishes keeps the website following the saga.     *)
LEMMA NotifyFollows ==
    ASSUME PInv, NEW r \in Requests, IsTold(r), Notify
    PROVE  SiteProofs!Inv' /\ SiteFollowsSaga'
<1> DEFINE sent == SetToSeq({m \in outgoing' : IsNotification(m)})
<1>1. /\ inbox' = inbox \o sent
      /\ Len(inbox) + Len(sent) <= MaxInbox
      /\ UNCHANGED handling
  BY DEF Notify
<1>2. inbox \in Seq(SiteProofs!Notifications) /\ SiteProofs!Inv
  BY DEF PInv, SiteProofs!Inv, SiteProofs!TypeOK
<1>3. \A q \in Requests : Followed(q)
  BY SiteFollows DEF PInv, AllFollowed
<1>4. \A q \in Requests \ {r} : \A row : Shows(row, q) => Shows(row, q)'
  BY DEF IsTold, OthersStay
<1>5. CASE Silent(r)
  <2>1. sent = <<>>
    BY <1>5, SequenceOfAtMostOne DEF Silent
  <2>2. inbox' = inbox
    BY <1>1, <1>2, <2>1, ConcatEmptySeq
  <2>3. UNCHANGED SiteProofs!vars
    BY <1>1, <2>2 DEF SiteProofs!vars, SiteProofs!bus, SiteProofs!hub,
                      SiteProofs!pages, handling
  <2>4. SiteProofs!Inv'
    BY <1>2, <2>3, SiteProofs!NextInv, SiteAssumption
  <2>5. \A q \in Requests : \A row : Shows(row, q) => Shows(row, q)'
    BY <1>4, <1>5 DEF Silent
  <2>6. \A q \in Requests : Followed(q)'
    BY <1>1, <1>3, <2>2, <2>5 DEF Followed, handling
  <2> QED
    BY <2>4, <2>6, SiteFollows DEF AllFollowed
<1>6. ASSUME NEW n, Tells(r, n)
      PROVE  SiteProofs!Inv' /\ SiteFollowsSaga'
  <2>1. sent = <<n>> /\ n \in SiteProofs!Notifications /\ n.request = r
    BY <1>6, SequenceOfAtMostOne, SameNotifications DEF Tells
  <2>2. inbox' = Append(inbox, n)
    BY <1>1, <1>2, <2>1, AppendIsConcat
  <2>3. SiteProofs!Arrive(n)
    <3>1. Len(inbox) < MaxInbox
      <4>1. PICK k \in Nat : Len(inbox) = k
        BY <1>2, LenProperties
      <4>2. Len(sent) = 1
        BY <2>1
      <4>3. MaxInbox \in Nat /\ k + 1 <= MaxInbox
        <5> HIDE DEF sent
        <5> QED
          BY <1>1, <4>1, <4>2, PortalAssumption DEF PortalAssumption
      <4> QED
        BY <4>1, <4>3
    <3> QED
      BY <1>1, <2>2, <3>1 DEF SiteProofs!Arrive, SiteProofs!hub,
                              SiteProofs!pages, handling
  <2>4. SiteProofs!Inv'
    BY <1>2, <2>1, <2>3, SiteProofs!ArriveInv, SiteAssumption
  <2>5. ASSUME NEW q \in Requests PROVE Followed(q)'
    <3>1. ASSUME NEW i \in 1..Len(inbox'),
                 SiteProofs!IsLastAbout(inbox', q, i),
                 NEW row, row = SiteProofs!Content(inbox'[i])
          PROVE  Shows(row, q)'
      <4>1. IF n.request = q
            THEN Append(inbox, n)[i] = n
            ELSE /\ i \in 1..Len(inbox)
                 /\ SiteProofs!IsLastAbout(inbox, q, i)
                 /\ Append(inbox, n)[i] = inbox[i]
        BY <1>2, <2>1, <2>2, <3>1, SiteProofs!LastAboutAppend, SiteAssumption
      <4>2. CASE q = r
        <5>1. inbox'[i] = n
          BY <2>1, <2>2, <4>1, <4>2
        <5> QED
          BY <1>6, <3>1, <4>2, <5>1, SameNotifications DEF Tells
      <4>3. CASE q # r
        <5>1. /\ i \in 1..Len(inbox)
              /\ SiteProofs!IsLastAbout(inbox, q, i)
              /\ inbox'[i] = inbox[i]
          BY <2>1, <2>2, <4>1, <4>3
        <5>2. Shows(SiteProofs!Content(inbox[i]), q)
          BY <1>3, <5>1 DEF Followed
        <5> QED
          BY <1>4, <3>1, <4>3, <5>1, <5>2
      <4> QED
        BY <4>2, <4>3
    <3>2. ASSUME ~SiteProofs!IsAbout(inbox', q)
          PROVE  \A row : row = rows'[q] => Shows(row, q)'
      <4>1. ~SiteProofs!IsAbout(inbox, q) /\ q # r
        BY <1>2, <2>1, <2>2, <3>2, SiteProofs!AboutAppend, SiteAssumption
      <4>2. Shows(rows[q], q)
        BY <1>3, <4>1 DEF Followed
      <4> QED
        BY <1>1, <1>4, <4>1, <4>2 DEF handling
    <3> QED
      BY <3>1, <3>2 DEF Followed
  <2> QED
    BY <2>4, <2>5, SiteFollows DEF AllFollowed
<1> QED
  BY <1>5, <1>6 DEF IsTold

-----------------------------------------------------------------------------
(* The website by itself                                                   *)

LEMMA SameSagas ==
    ASSUME UNCHANGED vars
    PROVE  \A q \in Requests : \A row : Shows(row, q) => Shows(row, q)'
  BY SameShown DEF vars, fields

(* The dictionary shows what a notification that is still in the queue is  *)
(* about: that notification, or a later one, has the last word.            *)
LEMMA AddOrUpdateFollows ==
    ASSUME PInv, SiteProofs!AddOrUpdate, UNCHANGED vars
    PROVE  SiteFollowsSaga'
<1> DEFINE m == Head(inbox)
<1>1. /\ todo # <<>> /\ UNCHANGED inbox
      /\ rows' = [rows EXCEPT ![m.request] = SiteProofs!RequestModel]
  BY DEF SiteProofs!AddOrUpdate
<1>2. SiteProofs!Inv /\ inbox \in Seq(SiteProofs!Notifications)
      /\ DOMAIN rows = Requests
  BY DEF PInv, SiteProofs!Inv, SiteProofs!TypeOK
<1>3. m = inbox[1] /\ 1 \in 1..Len(inbox)
  <2>1. inbox # <<>>
    BY <1>1, <1>2, SiteProofs!InHandler, SiteAssumption
  <2>2. PICK n \in Nat : Len(inbox) = n /\ (inbox = <<>> <=> n = 0)
    BY <1>2, SiteProofs!Lengths, SiteAssumption
  <2>3. n > 0
    BY <2>1, <2>2
  <2> QED
    BY <1>2, <2>1, <2>2, <2>3, SiteProofs!HeadAndTail, SiteAssumption
<1>4. \A q \in Requests : q # m.request => rows'[q] = rows[q]
  BY <1>1, <1>2
<1>5. /\ \A q \in Requests : Followed(q)
      /\ \A q \in Requests : \A row : Shows(row, q) => Shows(row, q)'
  BY SiteFollows, SameSagas DEF PInv, AllFollowed
<1> HIDE DEF m
<1> SUFFICES ASSUME NEW q \in Requests PROVE Followed(q)'
  BY SiteFollows DEF AllFollowed
<1>6. ASSUME ~SiteProofs!IsAbout(inbox, q) PROVE rows'[q] = rows[q]
  <2>1. m.request # q
    BY <1>3, <1>6 DEF SiteProofs!IsAbout
  <2> QED
    BY <1>4, <2>1
<1> QED
  BY <1>1, <1>5, <1>6 DEF Followed

(* When the last handler of a notification ends, the dictionary shows it.  *)
LEMMA SendStatsFollows ==
    ASSUME PInv, SiteProofs!SendStats, UNCHANGED vars
    PROVE  SiteFollowsSaga'
<1> DEFINE m == Head(inbox)
<1>1. /\ todo # <<>> /\ doing = "tell charts" /\ UNCHANGED rows
      /\ inbox' = IF Len(todo) = 1 THEN Tail(inbox) ELSE inbox
  BY DEF SiteProofs!SendStats
<1>2. SiteProofs!Inv /\ inbox \in Seq(SiteProofs!Notifications)
  BY DEF PInv, SiteProofs!Inv, SiteProofs!TypeOK
<1>3. /\ inbox # <<>>
      /\ Len(todo) = 1 => todo = <<m.kind>>
  BY <1>1, <1>2, SiteProofs!InHandler, SiteAssumption
<1>4. Len(todo) = 1 => rows[m.request] = SiteProofs!Content(m)
  <2>1. rows[m.request] = SiteProofs!RowBy(Head(todo), m)
    BY <1>1, <1>2 DEF SiteProofs!Inv, SiteProofs!TodoInv,
                      SiteProofs!RequestModel
  <2>2. Len(todo) = 1 => Head(todo) = m.kind
    BY <1>3
  <2> QED
    BY <2>1, <2>2 DEF SiteProofs!Content
<1>5. m = inbox[1] /\ 1 \in 1..Len(inbox)
  <2>1. PICK n \in Nat : Len(inbox) = n /\ (inbox = <<>> <=> n = 0)
    BY <1>2, SiteProofs!Lengths, SiteAssumption
  <2>2. n > 0
    BY <1>3, <2>1
  <2> QED
    BY <1>2, <1>3, <2>1, <2>2, SiteProofs!HeadAndTail, SiteAssumption
<1>6. /\ \A q \in Requests : Followed(q)
      /\ \A q \in Requests : \A row : Shows(row, q) => Shows(row, q)'
  BY SiteFollows, SameSagas DEF PInv, AllFollowed
<1> HIDE DEF m
<1> SUFFICES ASSUME NEW q \in Requests PROVE Followed(q)'
  BY SiteFollows DEF AllFollowed
<1>7. CASE Len(todo) = 1
  <2>1. inbox' = Tail(inbox)
    BY <1>1, <1>7
  <2>2. ASSUME NEW row, NEW i \in 1..Len(Tail(inbox)),
               SiteProofs!IsLastAbout(Tail(inbox), q, i),
               row = SiteProofs!Content(Tail(inbox)[i])
        PROVE  Shows(row, q)'
    <3>1. /\ i + 1 \in 1..Len(inbox)
          /\ SiteProofs!IsLastAbout(inbox, q, i + 1)
          /\ Tail(inbox)[i] = inbox[i + 1]
      BY <1>2, <1>3, <2>2, SiteProofs!LastAboutTail, SiteAssumption
    <3>2. Shows(row, q)
      BY <1>6, <2>2, <3>1 DEF Followed
    <3> QED
      BY <1>6, <3>2
  <2>3. ASSUME NEW row, ~SiteProofs!IsAbout(Tail(inbox), q), row = rows[q]
        PROVE  Shows(row, q)'
    <3>1. IF inbox[1].request = q
          THEN 1 \in 1..Len(inbox) /\ SiteProofs!IsLastAbout(inbox, q, 1)
          ELSE ~SiteProofs!IsAbout(inbox, q)
      BY <1>2, <1>3, <2>3, SiteProofs!AboutTail, SiteAssumption
    <3>2. CASE m.request = q
      <4>1. row = SiteProofs!Content(inbox[1])
        BY <1>4, <1>5, <1>7, <2>3, <3>2
      <4> QED
        BY <1>5, <1>6, <3>1, <3>2, <4>1 DEF Followed
    <3>3. CASE m.request # q
      BY <1>5, <1>6, <2>3, <3>1, <3>3 DEF Followed
    <3> QED
      BY <3>2, <3>3
  <2> QED
    BY <1>1, <2>1, <2>2, <2>3 DEF Followed
<1>8. CASE Len(todo) # 1
  <2>1. inbox' = inbox
    BY <1>1, <1>8
  <2> QED
    BY <1>1, <1>6, <2>1 DEF Followed
<1> QED
  BY <1>7, <1>8

(* Whatever else the website does, its queue and its dictionary stay.      *)
LEMMA SiteStepFollows ==
    ASSUME PInv, SiteProceeds
    PROVE  SiteProofs!Inv' /\ SiteFollowsSaga'
<1>1. UNCHANGED vars /\ SiteProofs!Inv
  BY DEF SiteProceeds, PInv
<1>2. \A q \in Requests : \A row : Shows(row, q) => Shows(row, q)'
  BY <1>1, SameSagas
<1>3. ASSUME UNCHANGED <<inbox, rows>> PROVE SiteFollowsSaga'
  BY <1>2, <1>3, SiteFollows DEF PInv, AllFollowed, Followed
<1>4. CASE Site!BusThread
  <2>1. SiteProofs!BusThread
    BY <1>4, SameBusThread DEF Site!BusThread, SiteProofs!BusThread
  <2>2. SiteProofs!Inv'
    BY <1>1, <2>1, SiteProofs!BusThreadInv, SiteAssumption
  <2>3. \/ SiteProofs!AddOrUpdate \/ SiteProofs!SendStats
        \/ UNCHANGED <<inbox, rows>>
    BY <2>1 DEF SiteProofs!BusThread, SiteProofs!Dispatch,
                SiteProofs!TellTables, SiteProofs!HandlerFails
  <2> QED
    BY <1>1, <1>3, <2>2, <2>3, AddOrUpdateFollows, SendStatsFollows
<1>5. ASSUME NEW q \in Tables, Site!Page(q)
      PROVE  SiteProofs!Inv' /\ SiteFollowsSaga'
  <2>1. SiteProofs!Page(q) /\ q \in SiteProofs!Pages
    BY <1>5, SamePage DEF SiteProofs!Pages
  <2>2. SiteProofs!Inv'
    BY <1>1, <2>1, SiteProofs!PageInv, SiteAssumption
  <2>3. UNCHANGED <<inbox, rows>>
    BY <2>1 DEF SiteProofs!Page, SiteProofs!OpenPage, SiteProofs!ClosePage,
                SiteProofs!RequestStateChanged, SiteProofs!ConsumeStats,
                SiteProofs!bus
  <2> QED
    BY <1>3, <2>2, <2>3
<1> QED
  BY <1>4, <1>5 DEF SiteProceeds

-----------------------------------------------------------------------------
(* The invariant                                                           *)

(* The notifications, and the website, as long as the saga is not touched. *)
LEMMA ElsewhereFollows ==
    ASSUME PInv, UNCHANGED <<vars, website>>
    PROVE  TypeOK' /\ SiteProofs!Inv' /\ SiteFollowsSaga'
<1>1. \A q \in Requests : \A row : Shows(row, q) => Shows(row, q)'
  BY SameSagas
<1>2. SiteFollowsSaga'
  BY <1>1, SiteFollows DEF PInv, AllFollowed, Followed, website, handling
<1>3. TypeOK'
  BY NextType, SagaAssumption DEF PInv
<1>4. UNCHANGED SiteProofs!vars
  BY DEF website, handling, SiteProofs!vars, SiteProofs!bus, SiteProofs!hub,
     SiteProofs!pages
<1>5. SiteProofs!Inv'
  BY <1>4, SiteProofs!NextInv, SiteAssumption DEF PInv
<1> QED
  BY <1>2, <1>3, <1>5

LEMMA CommandTypes ==
    \A r \in Requests : {PleaseDoTests(r), PleaseCancelTests(r),
                          PleaseRestart(r)} \subseteq Commands
  BY DEF PleaseDoTests, PleaseCancelTests, PleaseRestart, Commands

LEMMA SendInv ==
    ASSUME PInv, NEW c \in Commands, Send(c)
    PROVE  PInv'
<1>1. commands' \in Seq(Commands)
  BY AppendProperties DEF Send, PInv
<1> QED
  BY <1>1, ElsewhereFollows DEF Send, PInv

LEMMA PortalInitInv == ASSUME PortalInit PROVE PInv
<1>1. TypeOK
  BY InitType, SagaAssumption DEF PortalInit
<1>2. SiteProofs!Init
  BY SameInit DEF PortalInit
<1>3. SiteProofs!Inv
  BY <1>2, SiteProofs!InitInv, SiteAssumption
<1>4. commands \in Seq(Commands)
  BY EmptySeq DEF PortalInit
<1>5. SiteFollowsSaga
  <2>1. inbox = <<>> /\ requested = {} /\ sagas = {}
        /\ \A r \in Requests : rows[r] = Site!NoRow
    BY DEF PortalInit, Init, Site!Init, Site!EmptyTable
  <2>2. \A r \in Requests : Shows(rows[r], r)
    BY <2>1 DEF Shows
  <2> QED
    BY <2>1, <2>2 DEF SiteFollowsSaga
<1> QED
  BY <1>1, <1>3, <1>4, <1>5 DEF PInv

LEMMA HandlerTypes ==
    /\ \A c \in Commands : HandleCommand(c) => Next
    /\ \A r \in Requests : WorkerMessage(r) \/ Timeout(r) => Next
  BY DEF Commands, HandleCommand, UserCommand, Next

LEMMA PortalNextInv ==
    ASSUME PInv, [PortalNext]_portal
    PROVE  PInv'
<1>1. CASE UNCHANGED portal
  BY <1>1, ElsewhereFollows DEF portal, PInv
<1>2. ASSUME NEW r \in Requests, CreateRequest(r) PROVE PInv'
  BY <1>2, SendInv, CommandTypes DEF CreateRequest
<1>3. ASSUME NEW q \in Tables, NEW r \in Requests,
             Cancel(q, r) \/ Restart(q, r)
      PROVE  PInv'
  BY <1>3, SendInv, CommandTypes DEF Cancel, Restart
<1>4. CASE ReceiveCommand
  <2>1. /\ commands # <<>> /\ commands' = Tail(commands)
        /\ commands \in Seq(Commands)
    BY <1>4 DEF ReceiveCommand, PInv
  <2>2. Head(commands) \in Commands /\ commands' \in Seq(Commands)
    BY <2>1, HeadTailProperties
  <2>3. CASE HandleCommand(Head(commands)) /\ Notify
    <3> DEFINE c == Head(commands)
    <3>1. c \in Commands /\ HandleCommand(c) /\ c.request \in Requests
      BY <2>2, <2>3 DEF Commands
    <3> HIDE DEF c
    <3>2. IsTold(c.request)
      BY <3>1, CommandTells, SagaAssumption DEF PInv
    <3>3. TypeOK'
      BY <3>1, HandlerTypes, NextType, SagaAssumption DEF PInv
    <3>4. SiteProofs!Inv' /\ SiteFollowsSaga'
      BY <2>3, <3>1, <3>2, NotifyFollows
    <3> QED
      BY <2>2, <3>3, <3>4 DEF PInv
  <2>4. CASE UNCHANGED <<vars, website>>
    BY <2>2, <2>4, ElsewhereFollows DEF PInv
  <2> QED
    BY <1>4, <2>3, <2>4 DEF ReceiveCommand
<1>5. ASSUME NEW r \in Requests, SagaProceeds(r) PROVE PInv'
  <2>1. /\ WorkerMessage(r) \/ Timeout(r)
        /\ Notify /\ UNCHANGED commands
    BY <1>5 DEF SagaProceeds
  <2>2. IsTold(r)
    BY <2>1, ProceedingTells, SagaAssumption DEF PInv
  <2>3. TypeOK'
    BY <2>1, HandlerTypes, NextType, SagaAssumption DEF PInv
  <2> QED
    BY <2>1, <2>2, <2>3, NotifyFollows DEF PInv
<1>6. CASE SiteProceeds
  <2>1. UNCHANGED <<vars, commands>>
    BY <1>6 DEF SiteProceeds
  <2>2. TypeOK'
    BY <2>1, NextType, SagaAssumption DEF PInv
  <2> QED
    BY <1>6, <2>1, <2>2, SiteStepFollows DEF PInv
<1> QED
  BY <1>1, <1>2, <1>3, <1>4, <1>5, <1>6 DEF PortalNext

LEMMA PortalInvariance == PortalSpec => []PInv
  BY PortalInitInv, PortalNextInv, PTL DEF PortalSpec

(* The saga, the website and the two queues between them keep their types, *)
(* for any number of requests, pages, commands on their way and failing    *)
(* handlers.                                                               *)
THEOREM PortalTypeCorrect == PortalSpec => []PortalTypeOK
<1>1. PInv => PortalTypeOK
  BY SameTypes DEF PInv, PortalTypeOK, SiteProofs!Inv
<1> QED
  BY <1>1, PortalInvariance, PTL

(* Once the notifications about a request are handled the website shows    *)
(* its saga as it is: every handler and timeout of the saga publishes what *)
(* it changed, in one notification that says all of it, and whichever      *)
(* handlers of the website run, fail and run again, the last one has the   *)
(* last word.                                                              *)
THEOREM SiteShowsSaga == PortalSpec => []SiteFollowsSaga
<1>1. PInv => SiteFollowsSaga
  BY DEF PInv
<1> QED
  BY <1>1, PortalInvariance, PTL

=============================================================================
