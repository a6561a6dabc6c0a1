------------------------ MODULE RequestProducer_proofs ------------------------
(***************************************************************************)
(* Nothing is produced behind the manual mode, for any number of timers    *)
(* and any size of the batches.                                            *)
(***************************************************************************)
EXTENDS RequestProducer, TLAPS

(* The field holds the one timer that can be live, until one is started    *)
(* while another fires.                                                    *)
FieldHoldsLive == ~doubled => live \subseteq {timer}

Held == FieldHoldsLive /\ ManualIsManual

LEMMA InitHeld == Init => Held
  BY DEF Init, Held, FieldHoldsLive, ManualIsManual

LEMMA NextHeld ==
    ASSUME Held, [Next]_vars
    PROVE  Held'
<1> USE DEF Held, FieldHoldsLive, ManualIsManual
<1>1. CASE AutomaticLoopMode
  <2>1. PICK t \in Timers : Start(t)
    BY <1>1 DEF AutomaticLoopMode
  <2>2. live' = live \cup {t} /\ timer' = t
    BY <2>1 DEF Start
  <2>3. at' = "read" /\ (doubled' <=> (doubled \/ live # {}))
    BY <1>1 DEF AutomaticLoopMode
  <2> QED
    BY <2>2, <2>3
<1>2. CASE ManualMode
  <2>1. live' = live \ {timer} /\ timer' = timer /\ doubled' = doubled
    BY <1>2 DEF ManualMode
  <2>2. ~doubled => live' = {}
    BY <2>1
  <2> QED
    BY <2>1, <2>2
<1>3. CASE ReadKey \/ SendThirtyRequests
  <2>1. UNCHANGED <<live, timer, doubled>> /\ at \in {"key", "send"}
    BY <1>3 DEF ReadKey, SendThirtyRequests
  <2> QED
    BY <2>1
<1>4. CASE Exit
  BY <1>4 DEF Exit
<1>5. CASE UNCHANGED <<live, timer, doubled, at>>
  BY <1>5
<1>6. ASSUME NEW t \in Timers, TimerFires(t) \/ CallbackSends(t)
      PROVE  UNCHANGED <<live, timer, doubled, at>>
  BY <1>6 DEF TimerFires, CallbackSends
<1> QED
  BY <1>1, <1>2, <1>3, <1>4, <1>5, <1>6 DEF Next, Main, vars

(* While the program waits in manual mode, or sends the batch of the key,  *)
(* no timer is live, unless one was started while another was.             *)
THEOREM NothingBehindManual == Spec => []ManualIsManual
<1>1. Held => ManualIsManual
  BY DEF Held
<1> QED
  BY <1>1, InitHeld, NextHeld, PTL DEF Spec

===============================================================================
