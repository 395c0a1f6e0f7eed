------------------------------- MODULE OsUpdate -------------------------------
(***************************************************************************)
(* The OS update loop of the device agent (orchestrator/src/loop_os.rs):   *)
(* the polling loop that compares the deployment bootc reports with the    *)
(* version the cloud assigns, stages it, and either applies it at once or  *)
(* leaves the reboot to a countdown task; the flag it shares with the      *)
(* application loop; and, as their environment, bootc itself, the operator *)
(* who assigns versions, and the restarts of the process and the device.   *)
(*                                                                         *)
(* An await point of try_switch is a value of pc; what happens between two *)
(* awaits is one action.  bootc and the registry are external: they are    *)
(* modelled by what util/bootc_wrapper.rs asks of them.                    *)
(***************************************************************************)
EXTENDS Naturals, Sequences

CONSTANTS
  Image,           \* OS deployments
  Name,            \* what a target's commit_hash may hold: checksums, image references
  NamesOf,         \* the checksum and the references a deployment answers to
  FactoryImage,    \* the deployment the device is installed with
  Unhealthy,       \* deployments whose greenboot health check fails
  NoImage,         \* no deployment (a None of bootc status)
  NoTarget,        \* no OS version is assigned: the endpoint answers with an error
  FaultKinds,      \* the faults a run injects, among AllFaultKinds
  MaxFaults,       \* bound on the number of injected faults
  MaxAssignments   \* bound on the number of assignments an operator makes

AllFaultKinds ==
  {"status", "target", "report", "switch", "timerStatus", "apply", "restart", "power"}

ASSUME NamesAssumption ==
  /\ NamesOf \in [Image -> SUBSET Name]
  /\ \A i \in Image : NamesOf[i] # {}
ASSUME ImageAssumption ==
  /\ FactoryImage \in Image
  /\ Unhealthy \subseteq Image
  /\ NoImage \notin Image
ASSUME TargetAssumption == NoTarget \notin [name : Name, immediate : BOOLEAN]
ASSUME BoundAssumption ==
  /\ FaultKinds \subseteq AllFaultKinds
  /\ MaxFaults \in Nat
  /\ MaxAssignments \in Nat

VARIABLES
  target,       \* cloud: the version assigned to this device
  booted,       \* bootc: the running deployment
  staged,       \* bootc: the deployment the next orderly boot activates
  tracked,      \* bootc: the name it was staged under, NoTarget if nothing is
  fallback,     \* bootc: the deployment a failed health check returns to
  rebooting,    \* an apply succeeded and the system is going down
  pc,           \* await point of try_switch
  seen,         \* OsState: what the last bootc status reported
  want,         \* the target fetched in this cycle
  countdown,    \* OsState.countdown_started
  flag,         \* os_upgrade_in_progress, shared with the application loop
  timers,       \* countdown tasks still asleep, oldest first, each with the
                \* name it was started for (the task itself does not know it)
  applies,      \* countdown tasks that have expired and await bootc.apply()
  reported,     \* the last version reported as current to the cloud
  everAssigned, \* history: every name ever assigned
  forgot,       \* history: a fault hit what was staged since it was staged
  faults, assignments   \* bounded counters of the environment

bootcVars   == <<booted, staged, tracked, fallback, rebooting, forgot>>
processVars == <<pc, seen, want, countdown, flag, timers, applies>>
cloudVars   == <<target, everAssigned, assignments>>
vars == <<bootcVars, processVars, cloudVars, reported, faults>>

Target == [name : Name, immediate : BOOLEAN]
ImageOrNone == Image \cup {NoImage}
Status == [booted : Image, staged : ImageOrNone]
PC == {"idle", "fetch", "report", "switch", "stage", "startTimer", "apply"}

(* A deployment is the one a target names when its checksum or its image   *)
(* reference equals the commit_hash.                                       *)
Matches(img, n) == img # NoImage /\ n \in NamesOf[img]

CurrentStatus == [booted |-> booted, staged |-> staged]

Fault(kind) ==
  /\ kind \in FaultKinds
  /\ faults < MaxFaults
  /\ faults' = faults + 1

(* A fault after which nothing may be left to boot what is staged.         *)
Forget ==
  /\ forgot' = (staged # NoImage)
  /\ UNCHANGED <<booted, staged, tracked, fallback, rebooting>>

-----------------------------------------------------------------------------
(* The polling loop, one cycle of try_switch.                              *)

Goto(label) == pc' = label /\ UNCHANGED <<seen, countdown, timers, applies>>

(* A definition whose name starts with Bug is the definition after it with *)
(* a plausible mistake in the code.  Nothing uses it: it is substituted to *)
(* show that a property notices the mistake.                               *)
BugEndCycle == Goto("idle") /\ UNCHANGED want

(* The cycle is over; its locals go out of scope.                          *)
EndCycle == Goto("idle") /\ want' = NoTarget

BugReadStatus ==
  /\ pc = "idle"
  /\ pc' = "fetch"
  /\ UNCHANGED <<bootcVars, cloudVars, seen, want, countdown, flag, timers, applies>>
  /\ UNCHANGED <<reported, faults>>

(* Every cycle starts by replacing OsState with what bootc reports.        *)
ReadStatus ==
  /\ pc = "idle"
  /\ pc' = "fetch"
  /\ seen' = CurrentStatus
  /\ UNCHANGED <<bootcVars, cloudVars, want, countdown, flag, timers, applies, reported, faults>>

ReadStatusFails ==
  /\ pc = "idle"
  /\ Fault("status")
  /\ UNCHANGED <<bootcVars, processVars, cloudVars, reported>>

(* Without an assigned version the endpoint answers 500, and the cycle ends. *)
FetchNoTarget ==
  /\ pc = "fetch" /\ target = NoTarget
  /\ EndCycle
  /\ UNCHANGED <<bootcVars, cloudVars, flag, reported, faults>>

FetchFails ==
  /\ pc = "fetch"
  /\ Fault("target")
  /\ EndCycle
  /\ UNCHANGED <<bootcVars, cloudVars, flag, reported>>

BugFetchUpToDate ==
  /\ pc = "fetch" /\ target # NoTarget
  /\ Matches(seen.booted, target.name) \/ Matches(seen.staged, target.name)
  /\ want' = target
  /\ Goto("report")
  /\ UNCHANGED <<bootcVars, cloudVars, flag, reported, faults>>

FetchUpToDate ==
  /\ pc = "fetch" /\ target # NoTarget
  /\ Matches(seen.booted, target.name)
  /\ want' = target
  /\ Goto("report")
  /\ UNCHANGED <<bootcVars, cloudVars, flag, reported, faults>>

BugFetchForceStaged ==
  /\ pc = "fetch" /\ target # NoTarget
  /\ ~Matches(seen.booted, target.name)
  /\ Matches(seen.staged, target.name)
  /\ target.immediate
  /\ EndCycle
  /\ UNCHANGED <<bootcVars, cloudVars, flag, reported, faults>>

(* Staged and immediate: lock the application loop, then apply.            *)
FetchForceStaged ==
  /\ pc = "fetch" /\ target # NoTarget
  /\ ~Matches(seen.booted, target.name)
  /\ Matches(seen.staged, target.name)
  /\ target.immediate
  /\ want' = target
  /\ flag' = TRUE
  /\ Goto("apply")
  /\ UNCHANGED <<bootcVars, cloudVars, reported, faults>>

(* Staged and deferred: "counting down. Waiting for timer."                *)
FetchAwaitTimer ==
  /\ pc = "fetch" /\ target # NoTarget
  /\ ~Matches(seen.booted, target.name)
  /\ Matches(seen.staged, target.name)
  /\ ~target.immediate
  /\ EndCycle
  /\ UNCHANGED <<bootcVars, cloudVars, flag, reported, faults>>

(* Neither booted nor staged and immediate: the lock comes before the pull. *)
FetchImmediate ==
  /\ pc = "fetch" /\ target # NoTarget
  /\ ~Matches(seen.booted, target.name)
  /\ ~Matches(seen.staged, target.name)
  /\ target.immediate
  /\ want' = target
  /\ flag' = TRUE
  /\ Goto("switch")
  /\ UNCHANGED <<bootcVars, cloudVars, reported, faults>>

BugFetchDeferred ==
  /\ pc = "fetch" /\ target # NoTarget
  /\ ~Matches(seen.booted, target.name)
  /\ ~Matches(seen.staged, target.name)
  /\ ~target.immediate
  /\ want' = target
  /\ flag' = TRUE
  /\ Goto("stage")
  /\ UNCHANGED <<bootcVars, cloudVars, reported, faults>>

FetchDeferred ==
  /\ pc = "fetch" /\ target # NoTarget
  /\ ~Matches(seen.booted, target.name)
  /\ ~Matches(seen.staged, target.name)
  /\ ~target.immediate
  /\ want' = target
  /\ Goto("stage")
  /\ UNCHANGED <<bootcVars, cloudVars, flag, reported, faults>>

Report ==
  /\ pc = "report"
  /\ reported' = want.name
  /\ EndCycle
  /\ UNCHANGED <<bootcVars, cloudVars, flag, faults>>

ReportFails ==
  /\ pc = "report"
  /\ Fault("report")
  /\ EndCycle
  /\ UNCHANGED <<bootcVars, cloudVars, flag, reported>>

BugStage(n) ==
  /\ \E img \in Image : staged' = img
  /\ tracked' = n
  /\ forgot' = FALSE
  /\ UNCHANGED <<booted, fallback, rebooting>>

(* bootc switch pulls the image and replaces whatever was staged.  A tag   *)
(* may have moved: the registry serves any deployment of that name.        *)
Stage(n) ==
  /\ \E img \in Image : n \in NamesOf[img] /\ staged' = img
  /\ tracked' = n
  /\ forgot' = FALSE
  /\ UNCHANGED <<booted, fallback, rebooting>>

SwitchImmediate ==
  /\ pc = "switch"
  /\ Stage(want.name)
  /\ Goto("apply")
  /\ UNCHANGED <<cloudVars, want, flag, reported, faults>>

SwitchDeferred ==
  /\ pc = "stage"
  /\ Stage(want.name)
  /\ pc' = "startTimer"
  /\ countdown' = TRUE
  /\ UNCHANGED <<cloudVars, seen, want, flag, timers, applies, reported, faults>>

SwitchFails ==
  /\ pc \in {"switch", "stage"}
  /\ Fault("switch")
  /\ EndCycle
  /\ UNCHANGED <<bootcVars, cloudVars, flag, reported>>

BugStartTimer ==
  /\ pc = "startTimer"
  /\ EndCycle
  /\ UNCHANGED <<bootcVars, cloudVars, flag, reported, faults>>

(* A second bootc status stands between the staging and the spawn of the   *)
(* countdown task; when it fails the task is never spawned.                *)
StartTimer ==
  /\ pc = "startTimer"
  /\ timers' = Append(timers, want.name)
  /\ pc' = "idle"
  /\ want' = NoTarget
  /\ UNCHANGED <<bootcVars, cloudVars, seen, countdown, flag, applies, reported, faults>>

StartTimerFails ==
  /\ pc = "startTimer"
  /\ Fault("timerStatus")
  /\ EndCycle
  /\ Forget
  /\ UNCHANGED <<cloudVars, flag, reported>>

(* An apply is bootc upgrade --apply: it first asks for what the tracked   *)
(* name means by now and, when the tag has moved, stages the newer         *)
(* deployment.  The polling loop or a countdown task is awaiting it; what  *)
(* else the agent does meanwhile goes on.                                  *)
UpgradeStages ==
  /\ pc = "apply" \/ applies > 0
  /\ Stage(tracked)
  /\ staged' # staged
  /\ UNCHANGED <<processVars, cloudVars, reported, faults>>

(* Then it reboots into what is staged.                                    *)
Apply ==
  /\ pc = "apply"
  /\ rebooting' = TRUE
  /\ EndCycle
  /\ UNCHANGED <<booted, staged, tracked, fallback, forgot, cloudVars, flag, reported, faults>>

(* A non-zero exit, before or after the upgrade has staged something, or   *)
(* an exit no reboot follows, be it 137 or for a tag that has moved back   *)
(* to what is booted: all only end the cycle.                              *)
ApplyFails ==
  /\ pc = "apply"
  /\ Fault("apply")
  /\ EndCycle
  /\ Forget
  /\ UNCHANGED <<cloudVars, flag, reported>>

-----------------------------------------------------------------------------
(* The countdown tasks.  All sleep for the same deferred_timer, so the     *)
(* oldest wakes first; none is ever cancelled.                             *)

BugTimerUnlocked ==
  /\ timers # <<>>
  /\ timers' = Tail(timers)
  /\ applies' = applies + 1
  /\ UNCHANGED <<bootcVars, cloudVars, pc, seen, want, countdown, flag, reported, faults>>

TimerExpires ==
  /\ timers # <<>>
  /\ timers' = Tail(timers)
  /\ flag' = TRUE
  /\ applies' = applies + 1
  /\ UNCHANGED <<bootcVars, cloudVars, pc, seen, want, countdown, reported, faults>>

TimerApply ==
  /\ applies > 0
  /\ applies' = applies - 1
  /\ rebooting' = TRUE
  /\ UNCHANGED <<booted, staged, tracked, fallback, forgot, cloudVars, reported, faults>>
  /\ UNCHANGED <<pc, seen, want, countdown, flag, timers>>

TimerApplyFails ==
  /\ applies > 0
  /\ Fault("apply")
  /\ applies' = applies - 1
  /\ Forget
  /\ UNCHANGED <<cloudVars, reported, pc, seen, want, countdown, flag, timers>>

-----------------------------------------------------------------------------
(* Processes and devices that start again.                                 *)

NothingStaged == staged' = NoImage /\ tracked' = NoTarget

(* main: OsState from bootc status, a fresh flag, no countdown task.       *)
FreshProcess ==
  /\ pc' = "idle"
  /\ seen' = [booted |-> booted', staged |-> staged']
  /\ want' = NoTarget
  /\ countdown' = FALSE
  /\ flag' = FALSE
  /\ timers' = <<>>
  /\ applies' = 0

(* The orderly reboot of bootc upgrade --apply: the staged deployment is   *)
(* finalised on the way down.                                              *)
Reboot ==
  /\ rebooting
  /\ booted' = staged
  /\ fallback' = booted
  /\ NothingStaged
  /\ forgot' = FALSE
  /\ rebooting' = FALSE
  /\ FreshProcess
  /\ UNCHANGED <<cloudVars, reported, faults>>

(* greenboot: the health check of the new deployment fails.                *)
Rollback ==
  /\ booted \in Unhealthy
  /\ fallback # NoImage
  /\ booted' = fallback
  /\ fallback' = NoImage
  /\ NothingStaged
  /\ forgot' = FALSE
  /\ rebooting' = FALSE
  /\ FreshProcess
  /\ UNCHANGED <<cloudVars, reported, faults>>

(* systemd restarts the agent; bootc's state is on disk.                   *)
Restart ==
  /\ Fault("restart")
  /\ Forget
  /\ UNCHANGED <<cloudVars, reported>>
  /\ FreshProcess

(* A power loss reboots without finalising what was staged.                *)
PowerLoss ==
  /\ Fault("power")
  /\ NothingStaged
  /\ forgot' = FALSE
  /\ rebooting' = FALSE
  /\ UNCHANGED <<booted, fallback, cloudVars, reported>>
  /\ FreshProcess

(* An operator assigns a version, changes the assignment, or deletes it.   *)
Assign(t) ==
  /\ assignments < MaxAssignments
  /\ t # target
  /\ assignments' = assignments + 1
  /\ target' = t
  /\ everAssigned' = everAssigned \cup (IF t = NoTarget THEN {} ELSE {t.name})
  /\ UNCHANGED <<bootcVars, processVars, reported, faults>>

-----------------------------------------------------------------------------

Init ==
  /\ target = NoTarget
  /\ booted = FactoryImage
  /\ staged = NoImage
  /\ tracked = NoTarget
  /\ fallback = NoImage
  /\ rebooting = FALSE
  /\ forgot = FALSE
  /\ pc = "idle"
  /\ seen = CurrentStatus
  /\ want = NoTarget
  /\ countdown = FALSE
  /\ flag = FALSE
  /\ timers = <<>>
  /\ applies = 0
  /\ reported = NoTarget
  /\ everAssigned = {}
  /\ faults = 0
  /\ assignments = 0

LoopStep ==
  \/ ReadStatus \/ Report \/ FetchNoTarget
  \/ FetchUpToDate \/ FetchForceStaged \/ FetchAwaitTimer \/ FetchImmediate \/ FetchDeferred
  \/ SwitchImmediate \/ SwitchDeferred \/ StartTimer \/ Apply

LoopFailure ==
  \/ ReadStatusFails \/ FetchFails \/ ReportFails \/ SwitchFails
  \/ StartTimerFails \/ ApplyFails

Next ==
  \/ LoopStep
  \/ LoopFailure
  \/ TimerExpires \/ TimerApply \/ TimerApplyFails
  \/ UpgradeStages
  \/ Reboot \/ Rollback \/ Restart \/ PowerLoss
  \/ \E t \in Target \cup {NoTarget} : Assign(t)

(* tokio polls every task that is ready: the loop takes its next step, a   *)
(* sleep ends, a child process exits, a reboot in progress completes.  No  *)
(* fairness on failures, on the operator, on the health check or on the    *)
(* moves of a tag.                                                         *)
Fairness ==
  /\ WF_vars(LoopStep)
  /\ WF_vars(TimerExpires)
  /\ WF_vars(TimerApply)
  /\ WF_vars(Reboot)

Spec == Init /\ [][Next]_vars

-----------------------------------------------------------------------------

TypeOK ==
  /\ target \in Target \cup {NoTarget}
  /\ booted \in Image
  /\ staged \in ImageOrNone
  /\ tracked \in Name \cup {NoTarget}
  /\ fallback \in ImageOrNone
  /\ rebooting \in BOOLEAN
  /\ forgot \in BOOLEAN
  /\ pc \in PC
  /\ seen \in Status
  /\ want \in Target \cup {NoTarget}
  /\ pc \in {"idle", "fetch"} <=> want = NoTarget
  /\ countdown \in BOOLEAN
  /\ flag \in BOOLEAN
  /\ timers \in Seq(Name)
  /\ applies \in Nat
  /\ reported \in Name \cup {NoTarget}
  /\ everAssigned \subseteq Name
  /\ faults \in Nat
  /\ assignments \in Nat

(* The status a cycle read before the HTTP round trip is still true when   *)
(* the cycle acts on it, with one exception: the apply of a countdown task *)
(* may have replaced what is staged.  Even then the application loop is    *)
(* locked, something is still staged, and both deployments bear the name   *)
(* bootc tracks; and what is booted never changes behind the back of a     *)
(* cycle (loop_os.rs:46-104, 138-146, bootc_wrapper.rs:160-165).           *)
OnlyUpgradesOutdateStatus ==
  pc \in {"fetch", "report", "switch", "stage"} =>
    /\ seen.booted = booted
    /\ \/ seen.staged = staged
       \/ flag /\ Matches(seen.staged, tracked) /\ Matches(staged, tracked)

(* bootc apply runs under the lock: whoever asks for it, the polling loop  *)
(* or any countdown task, the application loop was told to freeze first,   *)
(* and nothing in the same process unfreezes it (loop_os.rs:80,114,142).   *)
ApplyIsLocked == pc \in {"switch", "apply"} \/ applies > 0 => flag

(* A staged deployment has something left that will boot it: a countdown   *)
(* task, an apply that has been asked for, or a cycle about to do either.  *)
(* Only three faults make try_switch forget it: a restart of the agent, a  *)
(* failed status before the spawn of the countdown task, and a failed      *)
(* apply (loop_os.rs:71-88, 125-146).                                      *)
StagedHasTrigger ==
  staged # NoImage /\ ~forgot =>
    rebooting \/ applies > 0 \/ timers # <<>> \/ pc \in {"startTimer", "apply"}

(* The cloud is only ever told that a version is current while a           *)
(* deployment of that name is the booted one (loop_os.rs:63-68).           *)
ReportsOnlyWhatIsBooted ==
  [][reported' # reported => Matches(booted, reported')]_vars

(* Seen from outside, the device moves atomically from one deployment to   *)
(* another: it boots only deployments an operator has assigned, keeps the  *)
(* previous one to return to, and nothing the agent, its timers or its     *)
(* crashes do is visible as anything else.                                 *)
Atomic == INSTANCE AtomicUpgrade WITH assigned <- everAssigned
RefinesAtomicUpgrade == Atomic!Spec

(* The promise of an assignment: a healthy version that stays assigned     *)
(* ends up booted and stays booted.                                        *)
Healthy(n) == \A img \in Image : n \in NamesOf[img] => img \notin Unhealthy
StaysAssigned(n, now) == <>[](target = [name |-> n, immediate |-> now])
StaysBooted(n) == <>[]Matches(booted, n)

(* Immediate versions are retried by every cycle, whatever failed before:  *)
(* pulls, applies, restarts and power losses only delay them               *)
(* (loop_os.rs:75-84,106-117).                                             *)
ImmediateConverges ==
  \A n \in Name : Healthy(n) => (StaysAssigned(n, TRUE) => StaysBooted(n))

(* The same for deferred versions, whose only trigger is the countdown     *)
(* task (loop_os.rs:85-87,118-147).                                        *)
DeferredConverges ==
  \A n \in Name : Healthy(n) => (StaysAssigned(n, FALSE) => StaysBooted(n))

(* It holds of every execution in which what is staged does not stay       *)
(* forgotten: pulls, reports, power losses, other assignments and even a   *)
(* forgetting fault that a later staging makes good only delay it.         *)
HealthyVersionsConverge == ImmediateConverges /\ (<>[]~forgot => DeferredConverges)
=============================================================================
