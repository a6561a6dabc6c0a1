--------------------------- MODULE RequestProducer ---------------------------
(***************************************************************************)
(* The console program that produces requests: a loop that reads one       *)
(* letter after the other, and a timer whose callback sends a batch of     *)
(* them on a thread of its own.  Disposing of a timer stops its further    *)
(* callbacks and not the one that runs.                                    *)
(***************************************************************************)
EXTENDS Naturals

CONSTANTS
    Timers,     \* bound: the timers that the program makes
    Batch       \* requests of a batch: 30

ASSUME ProducerAssumption == Batch \in Nat \ {0}

None == "none"

VARIABLES
    at,         \* what the main thread does: it reads a letter, waits for a
                \* key, sends a batch, or has exited
    timer,      \* the field _timer: the timer it holds, disposed of or not
    made,       \* the timers that were ever started
    live,       \* those that fire
    sending,    \* the requests that the callback of each timer has yet to send
    left,       \* those that the main thread has yet to send
    mode,       \* what the console said of the automatic mode
    doubled     \* history: whether a timer was started while one was live

vars == <<at, timer, made, live, sending, left, mode, doubled>>

-----------------------------------------------------------------------------
(* Operators named ...Variant are plausible slips, each in place of the    *)
(* definition after it: the properties must notice them.                   *)

StartLocalVariant(t) == live' = live \cup {t} /\ UNCHANGED timer

StartOnceVariant(t) ==
    IF timer = None THEN live' = live \cup {t} /\ timer' = t
    ELSE UNCHANGED <<live, timer>>

(* A timer that the field held before is not disposed of.                  *)
Start(t) == live' = live \cup {t} /\ timer' = t

AutomaticLoopMode ==
    /\ at = "read"
    /\ \E t \in Timers \ made : Start(t) /\ made' = made \cup {t}
    /\ mode' = "on"
    /\ doubled' = (doubled \/ live # {})
    /\ UNCHANGED <<at, sending, left>>

ManualMode ==
    /\ at = "read"
    /\ at' = "key"
    /\ live' = live \ {timer}
    /\ mode' = IF timer = None THEN mode ELSE "off"
    /\ UNCHANGED <<timer, made, sending, left, doubled>>

ReadKey ==
    /\ at = "key"
    /\ at' = "send"
    /\ left' = Batch
    /\ UNCHANGED <<timer, made, live, sending, mode, doubled>>

SendThirtyRequests ==
    /\ at = "send"
    /\ left' = left - 1
    /\ at' = IF left = 1 THEN "read" ELSE at
    /\ UNCHANGED <<timer, made, live, sending, mode, doubled>>

(* Main returns, and the process ends with all its timers.                 *)
Exit ==
    /\ at = "read"
    /\ at' = "exited"
    /\ live' = {}
    /\ sending' = [t \in Timers |-> 0]
    /\ UNCHANGED <<timer, made, left, mode, doubled>>

TimerFires(t) ==
    /\ t \in live
    /\ sending[t] = 0
    /\ sending' = [sending EXCEPT ![t] = Batch]
    /\ UNCHANGED <<at, timer, made, live, left, mode, doubled>>

CallbackSends(t) ==
    /\ sending[t] > 0
    /\ sending' = [sending EXCEPT ![t] = @ - 1]
    /\ UNCHANGED <<at, timer, made, live, left, mode, doubled>>

Init ==
    /\ at = "read"
    /\ timer = None
    /\ made = {} /\ live = {}
    /\ sending = [t \in Timers |-> 0]
    /\ left = 0
    /\ mode = "unsaid"
    /\ doubled = FALSE

Main == AutomaticLoopMode \/ ManualMode \/ ReadKey \/ SendThirtyRequests \/ Exit

Next == Main \/ \E t \in Timers : TimerFires(t) \/ CallbackSends(t)

(* Timers fire and callbacks are scheduled; nobody need press a key.       *)
Spec ==
    /\ Init /\ [][Next]_vars
    /\ \A t \in Timers : WF_vars(TimerFires(t)) /\ WF_vars(CallbackSends(t))

-----------------------------------------------------------------------------
(* Properties                                                              *)

(* Nothing fires behind the manual mode, as long as nobody started a timer *)
(* while one was live: however often the modes change, the timer that runs *)
(* is the one that "m" and "x" dispose of.                                 *)
ManualIsManual == at \in {"key", "send"} /\ ~doubled => live = {}

(* In automatic mode batches go on, until it is left.                      *)
AutomaticGoesOn ==
    mode = "on" /\ at # "exited"
        ~> mode # "on" \/ at = "exited" \/ \E t \in Timers : sending[t] > 0

=============================================================================
