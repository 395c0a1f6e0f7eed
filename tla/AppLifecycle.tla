----------------------------- MODULE AppLifecycle -----------------------------
(***************************************************************************)
(* One application of the device agent (orchestrator/src/application.rs):  *)
(* the task that keeps its container alive, and the removal the            *)
(* application loop asks for through a Notify and then waits on.           *)
(*                                                                         *)
(* The task and the container run concurrently: between the inspection of  *)
(* the container and the wait for its next change the container may crash, *)
(* and the removal may be requested at any point of the loop.  The counter *)
(* that only decides when a warning is logged is left out.  The agent owns *)
(* podman (wrapper.rs:2): nobody else touches the container.               *)
(*                                                                         *)
(* A definition whose name starts with Bug is the definition after it with *)
(* a plausible mistake in the code.  Nothing uses it: it is substituted to *)
(* show that a property notices the mistake.                               *)
(***************************************************************************)
EXTENDS Naturals

CONSTANTS
  Startable,    \* FALSE: podman cannot start the container, whenever it tries
                \* (a wrong entry point, a device or port that is missing)
  FaultKinds,   \* the faults a run injects, among AllFaultKinds
  MaxFaults,    \* bound on the number of injected faults
  MaxCrashes    \* bound on the number of times the container leaves Running by itself

AllFaultKinds == {"inspect", "start", "wait", "stop", "destroy"}

ASSUME StartableAssumption == Startable \in BOOLEAN
ASSUME BoundAssumption ==
  /\ FaultKinds \subseteq AllFaultKinds
  /\ MaxFaults \in Nat
  /\ MaxCrashes \in Nat

VARIABLES
  container,   \* podman: the state of the container, "gone" when it is deleted
  stream,      \* log registry: a log stream of this run of the container is open
  pc,          \* await point of run_lifecycle_loop
  old,         \* old_state: what the last completed pass saw, "none" on entry
  timeout,     \* how long the select sleeps: 10 s, 10 min or forever
  permit,      \* the permit stored by delete_notifier.notify_one()
  remover,     \* the application loop: it has not asked, awaits, or is done
  swallowed,   \* history: a failed stop or delete was only logged
  faults, crashes   \* bounded counters of the environment

vars == <<container, stream, pc, old, timeout, permit, remover, swallowed, faults, crashes>>
budgets == <<faults, crashes>>

ContainerState == {"stopped", "running", "ambiguous"}
PC == {"inspect", "start", "select", "stop", "destroy", "backoff", "done"}

Fault(kind) ==
  /\ kind \in FaultKinds
  /\ faults < MaxFaults
  /\ faults' = faults + 1
  /\ UNCHANGED crashes

-----------------------------------------------------------------------------
(* The lifecycle loop.                                                     *)

BugEnteredRunning == container = "running" /\ old \in {"stopped", "ambiguous"}

(* "Re-register the log stream every time the container becomes Running."  *)
EnteredRunning == container = "running" /\ old # "running"

Inspect ==
  /\ pc = "inspect"
  /\ stream' = (stream \/ EnteredRunning)
  /\ \/ /\ container = "stopped"
        /\ pc' = "start"
        /\ UNCHANGED <<old, timeout>>
     \/ /\ container = "ambiguous"
        /\ pc' = "select" /\ old' = container
        /\ timeout' = "10s"
     \/ /\ container = "running"
        /\ pc' = "select" /\ old' = container
        /\ timeout' = IF old \in {"stopped", "ambiguous"} THEN "10min" ELSE "never"
  /\ UNCHANGED <<container, permit, remover, swallowed, budgets>>

BugBreakInner ==
  /\ pc' = "backoff"
  /\ UNCHANGED <<container, stream, old, timeout, permit, remover, swallowed>>

(* Any error leaves the inner loop: ten seconds of rest, then from scratch. *)
BreakInner ==
  /\ pc' = "backoff"
  /\ old' = "none"
  /\ UNCHANGED <<container, stream, timeout, permit, remover, swallowed>>

InspectFails ==
  /\ pc = "inspect"
  /\ Fault("inspect")
  /\ BreakInner

BugStart ==
  /\ pc = "start"
  /\ container = "stopped" => Startable
  /\ container' = IF container = "stopped" THEN "running" ELSE container
  /\ pc' = "select"
  /\ old' = "stopped"
  /\ timeout' = "never"
  /\ UNCHANGED <<stream, permit, remover, swallowed, budgets>>

(* PodmanContainer::start inspects again and starts only what is stopped.  *)
Start ==
  /\ pc = "start"
  /\ container = "stopped" => Startable
  /\ container' = IF container = "stopped" THEN "running" ELSE container
  /\ pc' = "select"
  /\ old' = "stopped"
  /\ timeout' = "10s"
  /\ UNCHANGED <<stream, permit, remover, swallowed, budgets>>

StartFails ==
  /\ pc = "start"
  /\ \/ Fault("start")
     \/ container = "stopped" /\ ~Startable /\ UNCHANGED budgets
  /\ BreakInner

(* The three branches of the select, and the error of its wait.  podman's  *)
(* wait is level-triggered: it also returns for a change that happened     *)
(* before it was called.                                                   *)
WaitReturns ==
  /\ pc = "select"
  /\ container # old
  /\ pc' = "inspect"
  /\ UNCHANGED <<container, stream, old, timeout, permit, remover, swallowed, budgets>>

WaitFails ==
  /\ pc = "select"
  /\ Fault("wait")
  /\ BreakInner

Timeout ==
  /\ pc = "select"
  /\ timeout # "never"
  /\ pc' = "inspect"
  /\ UNCHANGED <<container, stream, old, timeout, permit, remover, swallowed, budgets>>

BugNotified ==
  /\ pc = "select"
  /\ permit
  /\ permit' = FALSE
  /\ pc' = "destroy"
  /\ UNCHANGED <<container, stream, old, timeout, remover, swallowed, budgets>>

Notified ==
  /\ pc = "select"
  /\ permit
  /\ permit' = FALSE
  /\ pc' = "stop"
  /\ UNCHANGED <<container, stream, old, timeout, remover, swallowed, budgets>>

(* The end of a run closes its log stream, and the registry drops it.      *)
Stop ==
  /\ pc = "stop"
  /\ container' = IF container = "running" THEN "stopped" ELSE container
  /\ stream' = (stream /\ container # "running")
  /\ pc' = "destroy"
  /\ UNCHANGED <<old, timeout, permit, remover, swallowed, budgets>>

StopFails ==
  /\ pc = "stop"
  /\ Fault("stop")
  /\ swallowed' = TRUE
  /\ pc' = "destroy"
  /\ UNCHANGED <<container, stream, old, timeout, permit, remover>>

(* podman refuses to delete a running container, and may refuse one that   *)
(* is in transition.  The error is logged and the task ends all the same.  *)
(* The first refusal is the task's own doing, unless a stop failed before. *)
Destroy ==
  /\ pc = "destroy"
  /\ container \in {"stopped", "ambiguous"}
  /\ container' = "gone"
  /\ pc' = "done"
  /\ UNCHANGED <<stream, old, timeout, permit, remover, swallowed, budgets>>

DestroyFails ==
  /\ pc = "destroy"
  /\ Fault("destroy") \/ (container \in {"running", "ambiguous"} /\ UNCHANGED budgets)
  /\ swallowed' = (swallowed \/ container # "running")
  /\ pc' = "done"
  /\ UNCHANGED <<container, stream, old, timeout, permit, remover>>

Backoff ==
  /\ pc = "backoff"
  /\ pc' = "inspect"
  /\ UNCHANGED <<container, stream, old, timeout, permit, remover, swallowed, budgets>>

-----------------------------------------------------------------------------
(* The application loop removes the application: it drops the log stream,  *)
(* leaves a permit and waits for the task to end.                          *)

BugRequestRemoval ==
  /\ remover = "live"
  /\ remover' = "removing"
  /\ stream' = FALSE
  /\ permit' = (pc = "select")
  /\ UNCHANGED <<container, pc, old, timeout, swallowed, budgets>>

RequestRemoval ==
  /\ remover = "live"
  /\ remover' = "removing"
  /\ stream' = FALSE
  /\ permit' = TRUE
  /\ UNCHANGED <<container, pc, old, timeout, swallowed, budgets>>

RemovalReturns ==
  /\ remover = "removing"
  /\ pc = "done"
  /\ remover' = "removed"
  /\ UNCHANGED <<container, stream, pc, old, timeout, permit, swallowed, budgets>>

-----------------------------------------------------------------------------
(* The container by itself.                                                *)

LeavesRunning(s) ==
  /\ container = "running"
  /\ crashes < MaxCrashes
  /\ crashes' = crashes + 1
  /\ container' = s
  /\ stream' = FALSE
  /\ UNCHANGED <<pc, old, timeout, permit, remover, swallowed, faults>>

Crash == LeavesRunning("stopped")
BecomesAmbiguous == LeavesRunning("ambiguous")

AmbiguitySettles ==
  /\ container = "ambiguous"
  /\ container' = "stopped"
  /\ UNCHANGED <<stream, pc, old, timeout, permit, remover, swallowed, budgets>>

-----------------------------------------------------------------------------

(* A container just created, or one found running when the agent started.  *)
Init ==
  /\ container \in {"stopped", "running"}
  /\ stream = FALSE
  /\ pc = "inspect"
  /\ old = "none"
  /\ timeout = "10s"
  /\ permit = FALSE
  /\ remover = "live"
  /\ swallowed = FALSE
  /\ faults = 0
  /\ crashes = 0

LoopStep ==
  \/ Inspect \/ Start \/ Stop \/ Destroy \/ Backoff
  \/ InspectFails \/ StartFails \/ StopFails \/ DestroyFails

Next ==
  \/ LoopStep
  \/ WaitReturns \/ WaitFails \/ Timeout \/ Notified
  \/ RequestRemoval \/ RemovalReturns
  \/ Crash \/ BecomesAmbiguous \/ AmbiguitySettles

(* The task is polled, the 10 s and 10 min sleeps end, a stored permit is  *)
(* noticed, podman reports the states it can wait for.  A select that has  *)
(* several ready branches picks one at random, so a branch that is ready   *)
(* again and again is taken: strong fairness for the notification.         *)
Fairness ==
  /\ WF_vars(LoopStep)
  /\ WF_vars(Timeout)
  /\ WF_vars(WaitReturns /\ container # "ambiguous")
  /\ SF_vars(Notified)
  /\ WF_vars(RemovalReturns)
  /\ WF_vars(AmbiguitySettles)

Spec == Init /\ [][Next]_vars
FairSpec == Spec /\ Fairness

-----------------------------------------------------------------------------

TypeOK ==
  /\ container \in ContainerState \cup {"gone"}
  /\ stream \in BOOLEAN
  /\ pc \in PC
  /\ old \in ContainerState \cup {"none"}
  /\ pc = "backoff" => old = "none"
  /\ pc \in {"select", "stop", "destroy", "done"} => old # "none"
  /\ timeout \in {"10s", "10min", "never"}
  /\ permit \in BOOLEAN
  /\ remover \in {"live", "removing", "removed"}
  /\ swallowed \in BOOLEAN
  /\ faults \in Nat
  /\ crashes \in Nat

(* Whenever the loop rests with a container it knows to be running, the    *)
(* logs of this very run are being followed, however often the container   *)
(* crashed, was restarted or became unreadable before (application.rs:     *)
(* 132-152).                                                               *)
RunningIsFollowed ==
  remover = "live" /\ pc = "select" /\ container = "running" /\ old = "running" => stream

(* A removal that has returned leaves nothing behind, neither the container *)
(* nor a log stream the task opened after the registry was told to forget  *)
(* the application, unless podman refused the stop or the delete, which    *)
(* the task only logs (application.rs:65-71,201-211).                      *)
RemovedIsGone == remover = "removed" => (container = "gone" /\ ~stream) \/ swallowed

(* The container is kept alive: one that is stopped is running again       *)
(* sooner or later, as long as nobody removes it (application.rs:93-218).  *)
KeptAlive ==
  container = "stopped" /\ remover = "live" ~> container = "running" \/ remover # "live"

(* A removal that is asked for ends: remove() awaits the lifecycle task,   *)
(* and with it the whole application loop waits (application.rs:65-71).    *)
RemovalCompletes == remover = "removing" ~> remover = "removed"

===============================================================================
