-------------------------- MODULE AppLifecycleProofs --------------------------
(***************************************************************************)
(* Proofs about one application, whatever faults occur and however often   *)
(* its container crashes: its type invariant, that a running container it  *)
(* watches is followed, and that a removal which returned left nothing     *)
(* behind that podman did not refuse to let go.                            *)
(***************************************************************************)
EXTENDS AppLifecycle, TLAPS

(* A log stream belongs to a run of the container and ends with it.        *)
StreamIsLive == stream => container = "running"

(* The stronger form of RunningIsFollowed: it holds at every point of the  *)
(* loop, not only where the loop rests.                                    *)
KnownRunningIsFollowed ==
  remover = "live" /\ container = "running" /\ old = "running" => stream

(* Only a notification ends the loop, and only a removal leaves one; only  *)
(* a task that has ended lets the removal return.                          *)
EndIsAskedFor ==
  /\ permit \/ pc \in {"stop", "destroy", "done"} => remover # "live"
  /\ remover = "removed" => pc = "done"

(* What the task may leave behind when it is about to end, and at its end. *)
EndIsClean ==
  /\ pc = "destroy" => container # "running" \/ swallowed
  /\ pc = "done" => container = "gone" \/ swallowed
  /\ container = "gone" => pc = "done"

Invariant ==
  /\ TypeOK
  /\ StreamIsLive
  /\ KnownRunningIsFollowed
  /\ EndIsAskedFor
  /\ EndIsClean

-----------------------------------------------------------------------------

LEMMA FaultTyped ==
  ASSUME NEW kind, TypeOK, Fault(kind)
  PROVE  faults' \in Nat /\ crashes' \in Nat
BY DEF TypeOK, Fault

LEMMA LeavesTyped ==
  ASSUME NEW s, TypeOK, LeavesRunning(s)
  PROVE  crashes' \in Nat /\ faults' \in Nat
BY DEF TypeOK, LeavesRunning

LEMMA InitInvariant == Init => Invariant
<1> SUFFICES ASSUME Init PROVE Invariant
  OBVIOUS
<1>1. TypeOK
  BY DEF Init, TypeOK, PC, ContainerState
<1>2. StreamIsLive /\ KnownRunningIsFollowed
  BY DEF Init, StreamIsLive, KnownRunningIsFollowed
<1>3. EndIsAskedFor /\ EndIsClean
  BY DEF Init, EndIsAskedFor, EndIsClean
<1>4. QED
  BY <1>1, <1>2, <1>3 DEF Invariant

LEMMA NextInvariant == Invariant /\ [Next]_vars => Invariant'
<1> SUFFICES ASSUME Invariant, [Next]_vars PROVE Invariant'
  OBVIOUS
<1> USE DEF Invariant, TypeOK, PC, ContainerState, StreamIsLive,
            KnownRunningIsFollowed, EndIsAskedFor, EndIsClean, budgets
<1>1. CASE Inspect
  BY <1>1 DEF Inspect, EnteredRunning
<1>2. CASE InspectFails
  BY <1>2, FaultTyped DEF InspectFails, BreakInner
<1>3. CASE Start
  BY <1>3 DEF Start
<1>4. CASE StartFails
  BY <1>4, FaultTyped DEF StartFails, BreakInner
<1>5. CASE WaitReturns
  BY <1>5 DEF WaitReturns
<1>6. CASE WaitFails
  BY <1>6, FaultTyped DEF WaitFails, BreakInner
<1>7. CASE Timeout
  BY <1>7 DEF Timeout
<1>8. CASE Notified
  BY <1>8 DEF Notified
<1>9. CASE Stop
  BY <1>9 DEF Stop
<1>10. CASE StopFails
  BY <1>10, FaultTyped DEF StopFails
<1>11. CASE Destroy
  BY <1>11 DEF Destroy
<1>12. CASE DestroyFails
  BY <1>12, FaultTyped DEF DestroyFails
<1>13. CASE Backoff
  BY <1>13 DEF Backoff
<1>14. CASE RequestRemoval
  BY <1>14 DEF RequestRemoval
<1>15. CASE RemovalReturns
  BY <1>15 DEF RemovalReturns
<1>16. CASE Crash
  <2>1. crashes' \in Nat /\ faults' \in Nat
    BY <1>16, LeavesTyped DEF Crash
  <2>2. QED
    BY <1>16, <2>1 DEF Crash, LeavesRunning
<1>17. CASE BecomesAmbiguous
  <2>1. crashes' \in Nat /\ faults' \in Nat
    BY <1>17, LeavesTyped DEF BecomesAmbiguous
  <2>2. QED
    BY <1>17, <2>1 DEF BecomesAmbiguous, LeavesRunning
<1>18. CASE AmbiguitySettles
  BY <1>18 DEF AmbiguitySettles
<1>19. CASE UNCHANGED vars
  BY <1>19 DEF vars
<1>20. QED
  BY <1>1, <1>2, <1>3, <1>4, <1>5, <1>6, <1>7, <1>8, <1>9, <1>10, <1>11, <1>12,
     <1>13, <1>14, <1>15, <1>16, <1>17, <1>18, <1>19 DEF Next, LoopStep

LEMMA AlwaysInvariant == Spec => []Invariant
BY InitInvariant, NextInvariant, PTL DEF Spec

-----------------------------------------------------------------------------

(* The variables of the loop, the container and the removal keep to their  *)
(* ranges (application.rs:65-218).                                         *)
THEOREM TypeCorrect == Spec => []TypeOK
<1>1. Invariant => TypeOK
  BY DEF Invariant
<1>2. QED
  BY <1>1, AlwaysInvariant, PTL

(* The logs of a container the loop knows to be running are followed, for  *)
(* every number of crashes and faults (application.rs:132-152).            *)
THEOREM Followed == Spec => []RunningIsFollowed
<1>1. Invariant => RunningIsFollowed
  BY DEF Invariant, KnownRunningIsFollowed, RunningIsFollowed
<1>2. QED
  BY <1>1, AlwaysInvariant, PTL

(* A removal that returned left neither container nor log stream, unless   *)
(* podman refused the stop or the delete (application.rs:65-71,201-211).   *)
THEOREM RemovalIsClean == Spec => []RemovedIsGone
<1>1. Invariant => RemovedIsGone
  BY DEF Invariant, EndIsAskedFor, EndIsClean, StreamIsLive, RemovedIsGone
<1>2. QED
  BY <1>1, AlwaysInvariant, PTL
===============================================================================
