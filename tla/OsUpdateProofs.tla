---------------------------- MODULE OsUpdateProofs ----------------------------
(***************************************************************************)
(* Proofs about the OS update loop, for every set of images, names and     *)
(* faults and every bound: its type invariant, the invariants the runs     *)
(* check, the reporting property, and that it implements AtomicUpgrade.    *)
(***************************************************************************)
EXTENDS OsUpdate, SequenceTheorems, TLAPS

(* Whoever may ask for a reboot, a countdown task, an apply under way or a *)
(* cycle past its switch, has something staged to boot.                    *)
RebootHasStaged ==
  rebooting \/ applies > 0 \/ timers # <<>> \/ pc \in {"startTimer", "apply"}
    => staged # NoImage

(* What is staged bears the name it was staged under, to which an upgrade  *)
(* looks for something newer.                                              *)
StagedIsTracked == staged # NoImage => tracked \in Name /\ Matches(staged, tracked)

(* Every name the device holds, in a target it fetched or as what it       *)
(* staged a deployment under, was assigned at some time.                   *)
NamesWereAssigned ==
  /\ target # NoTarget => target.name \in everAssigned
  /\ want # NoTarget => want.name \in everAssigned
  /\ staged # NoImage => tracked \in everAssigned

ReportsTheBooted == pc = "report" => Matches(booted, want.name)

(* The inductive part: a reboot boots an image only because something is   *)
(* staged; something is staged when an apply is forced only because the    *)
(* cycle that saw it staged is still right about that; and it is, whatever *)
(* a countdown's upgrade has done meanwhile, only because an upgrade stays *)
(* with the tracked name and runs under the lock.                          *)
Core ==
  /\ TypeOK /\ ApplyIsLocked
  /\ RebootHasStaged /\ StagedIsTracked /\ OnlyUpgradesOutdateStatus

LEMMA NoneTyped == ~(NoTarget \in Target) /\ ~(NoImage \in Image) /\ FactoryImage \in Image
BY TargetAssumption, ImageAssumption DEF Target

LEMMA EmptyTimers == <<>> \in Seq(Name)
BY EmptySeq

-----------------------------------------------------------------------------
(* The lock.  It is taken on every path to an apply and released only with *)
(* the process that holds it.                                              *)

LEMMA NextLocked == TypeOK /\ ApplyIsLocked /\ [Next]_vars => ApplyIsLocked'
<1> SUFFICES ASSUME TypeOK, ApplyIsLocked, [Next]_vars PROVE ApplyIsLocked'
  OBVIOUS
<1> USE DEF ApplyIsLocked, TypeOK, EndCycle, Goto, Fault, processVars
<1>1. CASE LoopStep
  BY <1>1 DEF LoopStep, ReadStatus, Report, FetchNoTarget, FetchUpToDate,
       FetchForceStaged, FetchAwaitTimer, FetchImmediate, FetchDeferred,
       SwitchImmediate, SwitchDeferred, StartTimer, Apply
<1>2. CASE LoopFailure
  BY <1>2 DEF LoopFailure, ReadStatusFails, FetchFails, ReportFails, SwitchFails,
       StartTimerFails, ApplyFails
<1>3. CASE TimerExpires \/ TimerApply \/ TimerApplyFails \/ UpgradeStages
  BY <1>3 DEF TimerExpires, TimerApply, TimerApplyFails, UpgradeStages
<1>4. CASE Reboot \/ Rollback \/ Restart \/ PowerLoss
  BY <1>4 DEF Reboot, Rollback, Restart, PowerLoss, FreshProcess
<1>5. CASE \E t \in Target \cup {NoTarget} : Assign(t)
  BY <1>5 DEF Assign
<1>6. CASE UNCHANGED vars
  BY <1>6 DEF vars
<1>7. QED
  BY <1>1, <1>2, <1>3, <1>4, <1>5, <1>6 DEF Next

-----------------------------------------------------------------------------

LEMMA InitCore == Init => Core
<1> SUFFICES ASSUME Init PROVE Core
  OBVIOUS
<1>1. timers \in Seq(Name)
  BY EmptyTimers DEF Init
<1>2. /\ RebootHasStaged /\ StagedIsTracked
      /\ ApplyIsLocked /\ OnlyUpgradesOutdateStatus
      /\ seen \in Status
  BY NoneTyped DEF Init, RebootHasStaged, StagedIsTracked, ApplyIsLocked,
       OnlyUpgradesOutdateStatus, CurrentStatus, Status, ImageOrNone
<1>3. QED
  BY <1>1, <1>2, NoneTyped DEF Init, Core, TypeOK, ImageOrNone, PC

(* However the process starts again, a fresh one satisfies Core as long as *)
(* bootc and the environment are in order and no reboot is in progress.    *)
LEMMA FreshCore ==
  ASSUME Core, FreshProcess,
         booted' \in Image, staged' \in ImageOrNone, fallback' \in ImageOrNone,
         tracked' \in Name \cup {NoTarget}, StagedIsTracked',
         rebooting' \in BOOLEAN, rebooting' => staged' # NoImage, forgot' \in BOOLEAN,
         UNCHANGED cloudVars, UNCHANGED reported, faults' \in Nat
  PROVE  Core'
<1>1. timers' \in Seq(Name)
  BY EmptyTimers DEF FreshProcess
<1>2. /\ RebootHasStaged'
      /\ ApplyIsLocked' /\ OnlyUpgradesOutdateStatus'
      /\ seen' \in Status
  BY DEF FreshProcess, RebootHasStaged, ApplyIsLocked, OnlyUpgradesOutdateStatus, Status
<1>3. QED
  BY <1>1, <1>2 DEF FreshProcess, Core, TypeOK, PC, cloudVars

LEMMA RestartsCore == Core /\ (Reboot \/ Rollback \/ Restart \/ PowerLoss) => Core'
<1> SUFFICES ASSUME Core, Reboot \/ Rollback \/ Restart \/ PowerLoss PROVE Core'
  OBVIOUS
<1>1. FreshProcess /\ UNCHANGED cloudVars /\ UNCHANGED reported
  BY DEF Reboot, Rollback, Restart, PowerLoss
<1>2. faults' \in Nat
  BY DEF Reboot, Rollback, Restart, PowerLoss, Fault, Core, TypeOK
<1>3. /\ booted' \in Image
      /\ staged' \in ImageOrNone
      /\ fallback' \in ImageOrNone
      /\ tracked' \in Name \cup {NoTarget}
      /\ StagedIsTracked'
      /\ rebooting' \in BOOLEAN
      /\ rebooting' => staged' # NoImage
      /\ forgot' \in BOOLEAN
  <2> USE DEF Core, TypeOK, RebootHasStaged, StagedIsTracked, Matches, ImageOrNone, Forget,
              NothingStaged
  <2>1. CASE Reboot
    BY <2>1 DEF Reboot
  <2>2. CASE Rollback
    BY <2>2 DEF Rollback
  <2>3. CASE Restart
    BY <2>3 DEF Restart
  <2>4. CASE PowerLoss
    BY <2>4 DEF PowerLoss
  <2>5. QED
    BY <2>1, <2>2, <2>3, <2>4
<1>4. QED
  BY <1>1, <1>2, <1>3, FreshCore

(* Core is inductive: one step per action.                                 *)
LEMMA NextCore == Core /\ [Next]_vars => Core'
<1> SUFFICES ASSUME Core, [Next]_vars PROVE Core'
  OBVIOUS
<1> USE NoneTyped
    DEF Core, TypeOK, RebootHasStaged, StagedIsTracked, OnlyUpgradesOutdateStatus, Matches,
        CurrentStatus, ImageOrNone, Status, PC, bootcVars, processVars, cloudVars, Forget
<1>0. ApplyIsLocked'
  BY ONLY Core, [Next]_vars, NextLocked DEF Core
<1>1. CASE ReadStatus
  BY <1>0, <1>1 DEF ReadStatus, CurrentStatus
<1>2. CASE Report
  BY <1>0, <1>2 DEF Report, EndCycle, Goto, Target
<1>3. CASE FetchNoTarget
  BY <1>0, <1>3 DEF FetchNoTarget, EndCycle, Goto
<1>4. CASE FetchUpToDate
  BY <1>0, <1>4 DEF FetchUpToDate, Goto
<1>5. CASE FetchForceStaged
  BY <1>0, <1>5 DEF FetchForceStaged, Goto
<1>6. CASE FetchAwaitTimer
  BY <1>0, <1>6 DEF FetchAwaitTimer, EndCycle, Goto
<1>7. CASE FetchImmediate
  BY <1>0, <1>7 DEF FetchImmediate, Goto
<1>8. CASE FetchDeferred
  BY <1>0, <1>8 DEF FetchDeferred, Goto
<1>9. CASE SwitchImmediate
  BY <1>0, <1>9 DEF SwitchImmediate, Goto, Stage, Target
<1>10. CASE SwitchDeferred
  BY <1>0, <1>10 DEF SwitchDeferred, Stage, Target
<1>11. CASE StartTimer
  BY <1>0, <1>11 DEF StartTimer, Target
<1>12. CASE Apply
  BY <1>0, <1>12 DEF Apply, EndCycle, Goto
<1>13. CASE ReadStatusFails
  BY <1>0, <1>13 DEF ReadStatusFails, Fault
<1>14. CASE FetchFails
  BY <1>0, <1>14 DEF FetchFails, Fault, EndCycle, Goto
<1>15. CASE ReportFails
  BY <1>0, <1>15 DEF ReportFails, Fault, EndCycle, Goto
<1>16. CASE SwitchFails
  BY <1>0, <1>16 DEF SwitchFails, Fault, EndCycle, Goto
<1>17. CASE StartTimerFails
  BY <1>0, <1>17 DEF StartTimerFails, Fault, EndCycle, Goto
<1>18. CASE ApplyFails
  BY <1>0, <1>18 DEF ApplyFails, Fault, EndCycle, Goto
<1>19. CASE TimerExpires
  BY <1>0, <1>19 DEF TimerExpires
<1>20. CASE TimerApply
  BY <1>0, <1>20 DEF TimerApply
<1>21. CASE TimerApplyFails
  BY <1>0, <1>21 DEF TimerApplyFails, Fault
<1>22. CASE Reboot \/ Rollback \/ Restart \/ PowerLoss
  BY ONLY <1>22, Core, RestartsCore
<1>23. ASSUME NEW t \in Target \cup {NoTarget}, Assign(t)
      PROVE  Core'
  BY <1>0, <1>23 DEF Assign, Target
<1>24. CASE UNCHANGED vars
  BY <1>0, <1>24 DEF vars
<1>25. CASE UpgradeStages
  <2>1. staged # NoImage /\ flag
    BY <1>0, <1>25 DEF UpgradeStages, ApplyIsLocked
  <2>2. QED
    BY <1>0, <1>25, <2>1 DEF UpgradeStages, Stage
<1>26. QED
  BY <1>1, <1>2, <1>3, <1>4, <1>5, <1>6, <1>7, <1>8, <1>9,
     <1>10, <1>11, <1>12, <1>13, <1>14, <1>15, <1>16, <1>17, <1>18,
     <1>19, <1>20, <1>21, <1>22, <1>23, <1>24, <1>25
     DEF Next, LoopStep, LoopFailure

(* Every variable has its type, and the device only ever goes down with    *)
(* something staged to come up with.                                       *)
THEOREM TypeCorrect == Spec => [](TypeOK /\ RebootHasStaged)
<1>1. Core => TypeOK /\ RebootHasStaged
  BY DEF Core
<1>2. QED
  BY <1>1, InitCore, NextCore, PTL DEF Spec

(* A cycle acts on a status that still holds but for what the upgrade of a *)
(* countdown task has staged anew, under the lock and the tracked name     *)
(* (loop_os.rs:46-104, 138-146, bootc_wrapper.rs:160-165).                 *)
THEOREM StatusHoldsButForUpgrades == Spec => []OnlyUpgradesOutdateStatus
<1>1. Core => OnlyUpgradesOutdateStatus
  BY DEF Core
<1>2. QED
  BY <1>1, InitCore, NextCore, PTL DEF Spec

LEMMA AlwaysCore == Spec => []Core
BY InitCore, NextCore, PTL DEF Spec

(* Every apply runs under the lock (loop_os.rs:80,114,142).                *)
THEOREM ApplyAlwaysLocked == Spec => []ApplyIsLocked
<1>1. Core => ApplyIsLocked
  BY DEF Core
<1>2. QED
  BY <1>1, AlwaysCore, PTL

-----------------------------------------------------------------------------
(* What is staged is not forgotten, unless one of the three faults hits it. *)

LEMMA NextTrigger == Core /\ StagedHasTrigger /\ [Next]_vars => StagedHasTrigger'
<1> SUFFICES ASSUME Core, StagedHasTrigger, [Next]_vars, ~forgot', staged' # NoImage
             PROVE  \/ rebooting' \/ applies' > 0 \/ timers' # <<>>
                    \/ pc' \in {"startTimer", "apply"}
  BY DEF StagedHasTrigger
<1> USE DEF StagedHasTrigger, Core, TypeOK, EndCycle, Goto, Forget, processVars, bootcVars
<1>1. CASE LoopStep
  <2>1. CASE StartTimer
    <3>1. timers' = Append(timers, want.name) /\ want.name \in Name
      BY <2>1 DEF StartTimer, Target
    <3>2. timers' # <<>>
      BY <3>1, AppendProperties
    <3>3. QED
      BY <3>2
  <2>2. CASE SwitchImmediate \/ SwitchDeferred \/ Apply \/ FetchForceStaged
    BY <2>2 DEF SwitchImmediate, SwitchDeferred, Apply, FetchForceStaged
  <2>3. CASE \/ ReadStatus \/ Report \/ FetchNoTarget \/ FetchUpToDate
             \/ FetchAwaitTimer \/ FetchImmediate \/ FetchDeferred
    BY <2>3 DEF ReadStatus, Report, FetchNoTarget, FetchUpToDate,
         FetchAwaitTimer, FetchImmediate, FetchDeferred
  <2>4. QED
    BY <1>1, <2>1, <2>2, <2>3 DEF LoopStep
<1>2. CASE LoopFailure
  BY <1>2 DEF LoopFailure, ReadStatusFails, FetchFails, ReportFails,
       SwitchFails, StartTimerFails, ApplyFails
<1>3. CASE TimerExpires \/ TimerApply \/ TimerApplyFails \/ UpgradeStages
  <2>1. CASE TimerExpires
    BY <2>1 DEF TimerExpires
  <2>2. CASE TimerApply
    BY <2>2 DEF TimerApply
  <2>3. CASE TimerApplyFails
    BY <2>3 DEF TimerApplyFails
  <2>4. CASE UpgradeStages
    BY <2>4 DEF UpgradeStages
  <2>5. QED
    BY <1>3, <2>1, <2>2, <2>3, <2>4
<1>4. CASE Reboot \/ Rollback \/ Restart \/ PowerLoss
  BY <1>4 DEF Reboot, Rollback, Restart, PowerLoss, NothingStaged
<1>5. CASE \E t \in Target \cup {NoTarget} : Assign(t)
  BY <1>5 DEF Assign
<1>6. CASE UNCHANGED vars
  BY <1>6 DEF vars
<1>7. QED
  BY <1>1, <1>2, <1>3, <1>4, <1>5, <1>6 DEF Next

(* Unless a restart, a failed status before the spawn or a failed apply    *)
(* hits it, a staged deployment always has something left that will boot   *)
(* it (loop_os.rs:71-88,118-147).                                          *)
THEOREM StagedNeverForgotten == Spec => []StagedHasTrigger
<1>1. Init => StagedHasTrigger
  BY DEF Init, StagedHasTrigger
<1>2. QED
  BY <1>1, NextTrigger, AlwaysCore, PTL DEF Spec

-----------------------------------------------------------------------------
(* Names and reports.                                                      *)

Assigned == NamesWereAssigned /\ ReportsTheBooted

LEMMA NextAssigned == Core /\ Assigned /\ [Next]_vars => Assigned'
<1> SUFFICES ASSUME Core, Assigned, [Next]_vars PROVE Assigned'
  OBVIOUS
<1> USE NoneTyped DEF Assigned, NamesWereAssigned, ReportsTheBooted, Matches, Core, TypeOK,
      OnlyUpgradesOutdateStatus, StagedIsTracked, CurrentStatus, bootcVars, processVars, cloudVars, Forget
<1>1. CASE LoopStep
  <2>1. CASE SwitchImmediate \/ SwitchDeferred
    BY <2>1 DEF SwitchImmediate, SwitchDeferred, Stage, Goto
  <2>2. CASE \/ FetchNoTarget \/ FetchUpToDate \/ FetchForceStaged
             \/ FetchAwaitTimer \/ FetchImmediate \/ FetchDeferred
    BY <2>2 DEF FetchNoTarget, FetchUpToDate, FetchForceStaged, FetchAwaitTimer,
         FetchImmediate, FetchDeferred, EndCycle, Goto
  <2>3. CASE ReadStatus \/ Report \/ StartTimer \/ Apply
    BY <2>3 DEF ReadStatus, Report, StartTimer, Apply, EndCycle, Goto
  <2>4. QED
    BY <1>1, <2>1, <2>2, <2>3 DEF LoopStep
<1>2. CASE LoopFailure
  BY <1>2 DEF LoopFailure, ReadStatusFails, FetchFails, ReportFails, SwitchFails,
       StartTimerFails, ApplyFails, Fault, EndCycle, Goto
<1>3. CASE TimerExpires \/ TimerApply \/ TimerApplyFails
  BY <1>3 DEF TimerExpires, TimerApply, TimerApplyFails, Fault
<1>4. CASE Reboot \/ Rollback \/ Restart \/ PowerLoss
  BY <1>4 DEF Reboot, Rollback, Restart, PowerLoss, FreshProcess, NothingStaged
<1>5. ASSUME NEW t \in Target \cup {NoTarget}, Assign(t)
      PROVE  Assigned'
  BY <1>5 DEF Assign
<1>6. CASE UNCHANGED vars
  BY <1>6 DEF vars
<1>7. CASE UpgradeStages
  <2>1. staged # NoImage
    BY <1>7 DEF UpgradeStages, RebootHasStaged
  <2>2. tracked' = tracked
    BY <1>7 DEF UpgradeStages, Stage
  <2>3. QED
    BY <1>7, <2>1, <2>2 DEF UpgradeStages, Stage
<1>8. QED
  BY <1>1, <1>2, <1>3, <1>4, <1>5, <1>6, <1>7 DEF Next

LEMMA AlwaysAssigned == Spec => []Assigned
<1>1. Init => Assigned
  BY DEF Init, Assigned, NamesWereAssigned, ReportsTheBooted
<1>2. QED
  BY <1>1, NextAssigned, AlwaysCore, PTL DEF Spec

LEMMA ReportStep ==
  Core /\ Assigned /\ [Next]_vars => [reported' # reported => Matches(booted, reported')]_vars
<1> SUFFICES ASSUME Assigned, Next, reported' # reported
             PROVE  Matches(booted, reported')
  BY DEF vars
<1>1. Report
  BY DEF Next, LoopStep, LoopFailure, ReadStatus, FetchNoTarget, FetchUpToDate,
       FetchForceStaged, FetchAwaitTimer, FetchImmediate, FetchDeferred,
       SwitchImmediate, SwitchDeferred, StartTimer, Apply, ReadStatusFails,
       FetchFails, ReportFails, SwitchFails, StartTimerFails, ApplyFails,
       TimerExpires, TimerApply, TimerApplyFails, UpgradeStages, Reboot, Rollback, Restart,
       PowerLoss, Assign
<1>2. QED
  BY <1>1 DEF Report, Assigned, ReportsTheBooted

(* The cloud is told that a version is current only while it is booted     *)
(* (loop_os.rs:63-68).                                                     *)
THEOREM ReportsTrue == Spec => ReportsOnlyWhatIsBooted
BY ReportStep, AlwaysCore, AlwaysAssigned, PTL DEF Spec, ReportsOnlyWhatIsBooted

-----------------------------------------------------------------------------
(* Refinement: every step is an assignment, an upgrade or a rollback of    *)
(* AtomicUpgrade, or leaves its variables alone.                           *)

LEMMA AtomicStep == Core /\ Assigned /\ [Next]_vars => [Atomic!Next]_(Atomic!vars)
<1> SUFFICES ASSUME Core, Assigned, [Next]_vars PROVE [Atomic!Next]_(Atomic!vars)
  OBVIOUS
<1> USE DEF Atomic!vars, bootcVars, cloudVars, Forget
<1>1. CASE Reboot
  <2>1. staged \in Image
    BY <1>1 DEF Reboot, Core, TypeOK, RebootHasStaged, ImageOrNone
  <2>2. NamesOf[staged] \cap everAssigned # {}
    BY <2>1, NoneTyped DEF Assigned, NamesWereAssigned, Core, StagedIsTracked, Matches
  <2>3. Atomic!Upgrade(staged)
    BY <1>1, <2>2 DEF Reboot, Atomic!Upgrade
  <2>4. QED
    BY <2>1, <2>3 DEF Atomic!Next
<1>2. CASE Rollback
  BY <1>2 DEF Rollback, Atomic!Next, Atomic!Rollback
<1>3. ASSUME NEW t \in Target \cup {NoTarget}, Assign(t)
      PROVE  [Atomic!Next]_(Atomic!vars)
  <2>1. CASE t = NoTarget
    BY <1>3, <2>1 DEF Assign
  <2>2. CASE t # NoTarget
    <3>1. t.name \in Name
      BY <2>2 DEF Target
    <3>2. Atomic!Assign(t.name)
      BY <1>3, <2>2 DEF Assign, Atomic!Assign
    <3>3. QED
      BY <3>1, <3>2 DEF Atomic!Next
  <2>3. QED
    BY <2>1, <2>2
<1>4. CASE Restart \/ PowerLoss
  BY <1>4 DEF Restart, PowerLoss
<1>5. CASE LoopStep
  BY <1>5 DEF LoopStep, ReadStatus, Report, FetchNoTarget, FetchUpToDate,
       FetchForceStaged, FetchAwaitTimer, FetchImmediate, FetchDeferred,
       SwitchImmediate, SwitchDeferred, Stage, StartTimer, Apply
<1>6. CASE LoopFailure
  BY <1>6 DEF LoopFailure, ReadStatusFails, FetchFails, ReportFails, SwitchFails,
       StartTimerFails, ApplyFails
<1>7. CASE TimerExpires \/ TimerApply \/ TimerApplyFails \/ UpgradeStages
  BY <1>7 DEF TimerExpires, TimerApply, TimerApplyFails, UpgradeStages, Stage
<1>8. CASE UNCHANGED vars
  BY <1>8 DEF vars
<1>9. QED
  BY <1>1, <1>2, <1>3, <1>4, <1>5, <1>6, <1>7, <1>8 DEF Next

(* The OS update implements the atomic upgrade (loop_os.rs:39-149).        *)
THEOREM ImplementsAtomicUpgrade == Spec => RefinesAtomicUpgrade
<1>1. Init => Atomic!Init
  BY DEF Init, Atomic!Init
<1>2. QED
  BY <1>1, AtomicStep, AlwaysCore, AlwaysAssigned, PTL
     DEF Spec, RefinesAtomicUpgrade, Atomic!Spec

=============================================================================
