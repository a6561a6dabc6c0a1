-------------------------- MODULE RequestLifecycle --------------------------
(***************************************************************************)
(* What a user of IronTester is promised about a request: it runs through  *)
(* its stages one at a time, fails at most one of them, can be cancelled   *)
(* and restarted as long as it exists, and once it is over it stays over.  *)
(* A cancelled request does not stay around for ever.                      *)
(***************************************************************************)
EXTENDS Naturals

CONSTANTS
    Requests,
    StageCount   \* how many stages a run has, at least one

VARIABLES
    phase,   \* where each request stands
    done     \* how many stages its present run has passed

lifecycle == <<phase, done>>

Phases == {"unknown", "running", "failed", "cancelled", "finished", "over"}

Alive(r) == phase[r] \in {"running", "failed", "cancelled", "finished"}

MoveTo(r, p, n) ==
    /\ phase' = [phase EXCEPT ![r] = p]
    /\ done' = [done EXCEPT ![r] = n]

Submit(r) ==
    /\ phase[r] = "unknown"
    /\ MoveTo(r, "running", 0)

PassStage(r) ==
    /\ phase[r] = "running"
    /\ MoveTo(r, IF done[r] + 1 = StageCount THEN "finished" ELSE "running",
              done[r] + 1)

FailStage(r) ==
    /\ phase[r] = "running"
    /\ MoveTo(r, "failed", done[r])

Cancel(r) ==
    /\ Alive(r)
    /\ MoveTo(r, "cancelled", done[r])

Restart(r) ==
    /\ Alive(r)
    /\ MoveTo(r, "running", 0)

(* Nobody restarted the cancelled request in time.                         *)
Forget(r) ==
    /\ phase[r] = "cancelled"
    /\ MoveTo(r, "over", 0)

(* The last stage takes too long and the request is given up.              *)
GiveUp(r) ==
    /\ phase[r] = "running"
    /\ done[r] = StageCount - 1
    /\ MoveTo(r, "over", 0)

Init ==
    /\ phase = [r \in Requests |-> "unknown"]
    /\ done = [r \in Requests |-> 0]

Next ==
    \E r \in Requests :
        \/ Submit(r)
        \/ PassStage(r)
        \/ FailStage(r)
        \/ Cancel(r)
        \/ Restart(r)
        \/ Forget(r)
        \/ GiveUp(r)

SafeSpec == Init /\ [][Next]_lifecycle

Spec == SafeSpec /\ \A r \in Requests : WF_lifecycle(Forget(r))

TypeOK ==
    /\ phase \in [Requests -> Phases]
    /\ done \in [Requests -> 0..StageCount]

=============================================================================
