-------------------------------- MODULE Device --------------------------------
(***************************************************************************)
(* The two loops of the agent of a device in one process: the OS loop      *)
(* raises the flag os_upgrade_in_progress, the application loop reads it   *)
(* when a tick comes, and a restart of the process or of the device starts *)
(* both afresh (orchestrator/src/main.rs, loop_os.rs, loop_apps.rs).       *)
(*                                                                         *)
(* OsUpdate is extended; the variables of AppReconcile whose names it uses *)
(* have another name here.                                                 *)
(***************************************************************************)
EXTENDS OsUpdate, FiniteSets, Functions

CONSTANTS
  Config, Application, Reference, Stripped, ContainerName, Digest, NoDigest,
  AppFaultKinds,                \* the faults of the application loop a run injects
  MaxAppFaults,                 \* bound on their number
  MaxAppAssignments,            \* bound on the assignments of applications
  Budgets                       \* how much of everything a behaviour has at most

Budget == [names : SUBSET Name, assignments : Nat, faults : Nat,
           apps : BOOLEAN, appAssignments : Nat, appFaults : Nat]
ASSUME DeviceAssumption == Budgets \subseteq Budget
ASSUME AppsAssumption == IsFiniteSet(Config)

VARIABLES
  assigned, running,                       \* cloud: the configs assigned, those reported
  containers, local,                       \* podman
  appPc, wanted, apps, current, targets,   \* the application loop
  appFaults, appAssignments,               \* bounded counters of the environment
  stranded,    \* history: what the lock was taken for failed in this process
  budget       \* the budget of this behaviour

appVars == <<assigned, running, containers, local, appPc, wanted, apps, current, targets,
             appFaults, appAssignments>>
deviceVars == <<vars, appVars, stranded, budget>>

Apps == INSTANCE AppReconcile WITH
  frozen <- flag, reported <- running, pc <- appPc, want <- wanted, target <- targets,
  faults <- appFaults, assignments <- appAssignments,
  FaultKinds <- AppFaultKinds, MaxFaults <- MaxAppFaults, MaxAssignments <- MaxAppAssignments

-----------------------------------------------------------------------------

OsLoopActs ==
  /\ LoopStep \/ ReadStatusFails \/ FetchFails \/ ReportFails \/ StartTimerFails
  /\ UNCHANGED <<appVars, stranded>>

CountdownActs ==
  /\ TimerExpires \/ TimerApply \/ UpgradeStages
  /\ UNCHANGED <<appVars, stranded>>

(* Nothing lowers the flag again but a new process.                        *)
LockedForNothing ==
  /\ SwitchFails \/ ApplyFails \/ TimerApplyFails
  /\ stranded' = flag
  /\ UNCHANGED appVars

AppLoopActs ==
  /\ budget.apps
  /\ Apps!PassStep \/ Apps!PassFailure
  /\ UNCHANGED <<vars, stranded>>

(* Whatever ends the process, the next one finds its applications anew and *)
(* has a flag of its own; the containers are still there.                  *)
AgentStartsAnew ==
  /\ Reboot \/ Rollback \/ Restart \/ PowerLoss
  /\ Apps!StartsAnew
  /\ stranded' = FALSE

Offered == [name : budget.names, immediate : BOOLEAN]

OperatorAssigns ==
  /\ \/ (\E t \in Offered \cup {NoTarget} : Assign(t)) /\ UNCHANGED appVars
     \/ (\E A \in Apps!Assignments : Apps!Assign(A)) /\ UNCHANGED vars
  /\ UNCHANGED stranded

WithinBudget ==
  /\ faults <= budget.faults /\ assignments <= budget.assignments
  /\ appFaults <= budget.appFaults /\ appAssignments <= budget.appAssignments

DeviceInit == Init /\ Apps!Init /\ stranded = FALSE /\ budget \in Budgets

DeviceNext ==
  /\ \/ OsLoopActs \/ CountdownActs \/ LockedForNothing
     \/ AppLoopActs
     \/ AgentStartsAnew
     \/ OperatorAssigns
  /\ UNCHANGED budget
  /\ WithinBudget'

(* Each loop has the fairness of its module.                               *)
DeviceFairness ==
  /\ Fairness
  /\ WF_deviceVars(AppLoopActs /\ Apps!PassStep /\ UNCHANGED budget)

DeviceSpec == DeviceInit /\ [][DeviceNext]_deviceVars /\ DeviceFairness

-----------------------------------------------------------------------------

(* The lock is stranded only as long as it is held.                        *)
DeviceTypeOK == TypeOK /\ Apps!TypeOK /\ budget \in Budgets /\ (stranded => flag)

(* Applications that stay assigned are deployed and reported although OS   *)
(* updates freeze the loop, reboot the device in the middle of a pass and  *)
(* roll back, once the assignment of the OS rests on a healthy version or  *)
(* on none, and unless a pull or an apply failed for which the lock had    *)
(* been taken (main.rs:134-150, loop_apps.rs:29-40, loop_os.rs:80,114,142).*)
OsRests ==
  \/ <>[](target = NoTarget)
  \/ \E n \in Name, now \in BOOLEAN : Healthy(n) /\ StaysAssigned(n, now)
ApplicationsConverge ==
  OsRests /\ <>[]~stranded =>
    \A A \in Apps!Assignments :
      <>[](assigned = A /\ containers = Range(apps))
        => <>[](Apps!Configs(containers) = A /\ running = A)
===============================================================================
