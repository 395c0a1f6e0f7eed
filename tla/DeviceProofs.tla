----------------------------- MODULE DeviceProofs -----------------------------
(***************************************************************************)
(* What is proved of the OS loop holds of it beside the application loop:  *)
(* a step of the device is a step of OsUpdate or leaves its variables as   *)
(* they are, the flag included.                                            *)
(***************************************************************************)
EXTENDS Device, OsUpdateProofs, FiniteSetTheorems

LEMMA AlwaysBudgeted == DeviceSpec => [](budget \in Budgets)
<1>1. DeviceInit => budget \in Budgets
  BY DEF DeviceInit
<1>2. budget \in Budgets /\ [DeviceNext]_deviceVars => (budget \in Budgets)'
  BY DEF DeviceNext, deviceVars
<1>3. QED
  BY <1>1, <1>2, PTL DEF DeviceSpec

LEMMA DeviceStep == budget \in Budgets /\ DeviceNext => [Next]_vars
<1> SUFFICES ASSUME budget \in Budgets, DeviceNext PROVE Next \/ UNCHANGED vars
  OBVIOUS
<1>1. CASE OsLoopActs
  BY <1>1 DEF OsLoopActs, Next, LoopFailure
<1>2. CASE CountdownActs
  BY <1>2 DEF CountdownActs, Next
<1>3. CASE LockedForNothing
  BY <1>3 DEF LockedForNothing, Next, LoopFailure
<1>4. CASE AppLoopActs
  BY <1>4 DEF AppLoopActs
<1>5. CASE AgentStartsAnew
  BY <1>5 DEF AgentStartsAnew, Next
<1>6. CASE OperatorAssigns
  <2>1. CASE \E t \in Offered \cup {NoTarget} : Assign(t)
    <3>1. Offered \subseteq Target
      BY DeviceAssumption DEF Offered, Target, Budget
    <3>2. QED
      BY <2>1, <3>1 DEF Next
  <2>2. QED
    BY <1>6, <2>1 DEF OperatorAssigns
<1>7. QED
  BY <1>1, <1>2, <1>3, <1>4, <1>5, <1>6 DEF DeviceNext

(* The process with both loops implements the OS loop by itself: neither   *)
(* the passes of the application loop nor their restarts are visible to it *)
(* (main.rs:134-151).                                                      *)
THEOREM DeviceImplementsOsUpdate == DeviceSpec => Spec
<1>1. DeviceInit => Init
  BY DEF DeviceInit
<1>2. UNCHANGED deviceVars => UNCHANGED vars
  BY DEF deviceVars
<1>3. QED
  BY <1>1, <1>2, DeviceStep, AlwaysBudgeted, PTL DEF DeviceSpec, Spec

(* Beside the application loop, too, only a locked upgrade outdates what a *)
(* cycle has read, and the device applies under the lock, forgets nothing  *)
(* staged, reports what is booted and moves atomically (loop_os.rs:39-149, *)
(* bootc_wrapper.rs:160-165).                                              *)
THEOREM DeviceKeepsOsPromises ==
  DeviceSpec => /\ [](OnlyUpgradesOutdateStatus /\ ApplyIsLocked /\ StagedHasTrigger)
                /\ ReportsOnlyWhatIsBooted
                /\ RefinesAtomicUpgrade
BY DeviceImplementsOsUpdate, StatusHoldsButForUpgrades, ApplyAlwaysLocked, StagedNeverForgotten,
   ReportsTrue, ImplementsAtomicUpgrade, PTL

-----------------------------------------------------------------------------
(* The application loop beside the OS loop.                                *)

LEMMA FlagIsBoolean == DeviceSpec => [](flag \in BOOLEAN)
<1>1. TypeOK => flag \in BOOLEAN
  BY DEF TypeOK
<1>2. QED
  BY <1>1, DeviceImplementsOsUpdate, TypeCorrect, PTL

(* In a process, the flag only ever rises.                                 *)
LEMMA FlagRises ==
  ASSUME OsLoopActs \/ CountdownActs \/ LockedForNothing
  PROVE  flag' = flag \/ flag' = TRUE
BY DEF OsLoopActs, CountdownActs, LockedForNothing, LoopStep, ReadStatus, ReadStatusFails,
       FetchNoTarget, FetchFails, FetchUpToDate, FetchForceStaged, FetchAwaitTimer,
       FetchImmediate, FetchDeferred, Report, ReportFails, SwitchImmediate, SwitchDeferred,
       SwitchFails, StartTimer, StartTimerFails, Apply, ApplyFails, TimerExpires, TimerApply,
       TimerApplyFails, UpgradeStages, processVars

(* To the application loop, a step of the OS loop raises the flag or is    *)
(* none at all.                                                            *)
LEMMA OsLoopFreezes ==
  ASSUME flag \in BOOLEAN, OsLoopActs \/ CountdownActs \/ LockedForNothing
  PROVE  Apps!Freeze \/ UNCHANGED Apps!vars
<1>1. UNCHANGED appVars
  BY DEF OsLoopActs, CountdownActs, LockedForNothing
<1>2. UNCHANGED <<Apps!passVars, Apps!cloudVars, Apps!podmanVars, apps, appFaults>>
  BY <1>1 DEF appVars, Apps!passVars, Apps!cloudVars, Apps!podmanVars
<1>3. CASE flag' = flag
  BY <1>2, <1>3 DEF Apps!vars
<1>4. CASE ~flag /\ flag' = TRUE
  BY <1>2, <1>4 DEF Apps!Freeze
<1>5. QED
  BY <1>3, <1>4, FlagRises

LEMMA AppLoopStep ==
  ASSUME flag \in BOOLEAN, DeviceNext
  PROVE  Apps!LoopNext \/ UNCHANGED Apps!vars
<1>1. CASE OsLoopActs \/ CountdownActs \/ LockedForNothing
  BY <1>1, OsLoopFreezes DEF Apps!LoopNext, Apps!Next
<1>2. CASE AppLoopActs
  BY <1>2 DEF AppLoopActs, Apps!LoopNext, Apps!Next
<1>3. CASE AgentStartsAnew
  BY <1>3 DEF AgentStartsAnew, Apps!LoopNext
<1>4. CASE (\E A \in Apps!Assignments : Apps!Assign(A)) /\ OperatorAssigns
  BY <1>4 DEF Apps!LoopNext, Apps!Next
<1>5. CASE UNCHANGED appVars /\ OperatorAssigns
  <2>1. CASE \E t \in Offered \cup {NoTarget} : Assign(t)
    <3>1. flag' = flag
      BY <2>1 DEF Assign, processVars
    <3>2. QED
      BY <1>5, <3>1 DEF appVars, Apps!vars, Apps!passVars, Apps!cloudVars, Apps!podmanVars
  <2>2. CASE \E A \in Apps!Assignments : Apps!Assign(A)
    BY <2>2 DEF Apps!LoopNext, Apps!Next
  <2>3. QED
    BY <1>5, <2>1, <2>2 DEF OperatorAssigns
<1>6. QED
  BY <1>1, <1>2, <1>3, <1>4, <1>5 DEF DeviceNext, OperatorAssigns

(* The process with both loops implements the application loop in a        *)
(* process that may end at any time: all it sees of OS updates, reboots    *)
(* and rollbacks is the flag and the next start (main.rs:120-151,          *)
(* loop_apps.rs:29-40).                                                    *)
THEOREM DeviceImplementsAppReconcile == DeviceSpec => Apps!LoopSpec
<1>1. DeviceInit => Apps!Init
  BY DEF DeviceInit
<1>2. UNCHANGED deviceVars => UNCHANGED Apps!vars
  BY DEF deviceVars, vars, processVars, appVars, Apps!vars, Apps!passVars, Apps!cloudVars,
         Apps!podmanVars
<1>3. flag \in BOOLEAN /\ [DeviceNext]_deviceVars => [Apps!LoopNext]_Apps!vars
  BY <1>2, AppLoopStep
<1>4. QED
  BY <1>1, <1>3, FlagIsBoolean, PTL DEF DeviceSpec, Apps!LoopSpec

-----------------------------------------------------------------------------
(* Types.  The vectors of the application loop are arrangements of finite  *)
(* sets of containers.                                                     *)

AppsTyped == Apps!TypeOK /\ IsFiniteSet(containers)

LEMMA FunctionIsSeq == ASSUME NEW T, NEW n \in Nat, NEW s \in [1..n -> T] PROVE s \in Seq(T)
OBVIOUS

LEMMA ElementsOf ==
  ASSUME NEW T, NEW s \in Seq(T)
  PROVE  /\ DOMAIN s = 1..Len(s) /\ Len(s) \in Nat
         /\ \A i \in 1..Len(s) : s[i] \in T
         /\ Range(s) \in SUBSET T /\ IsFiniteSet(Range(s))
         /\ s # <<>> => Head(s) \in T /\ Tail(s) \in Seq(T)
<1>1. DOMAIN s = 1..Len(s) /\ Len(s) \in Nat /\ \A i \in 1..Len(s) : s[i] \in T
  BY LenProperties, ElementOfSeq
<1>2. Range(s) \in SUBSET T
  BY <1>1 DEF Range
<1>3. IsFiniteSet(1..Len(s))
  BY <1>1, FS_Interval
<1>4. [i \in 1..Len(s) |-> s[i]] \in Surjection(1..Len(s), Range(s))
  BY <1>1 DEF Surjection, Range
<1>5. IsFiniteSet(Range(s))
  BY <1>3, <1>4, FS_Surjection
<1>6. s # <<>> => Head(s) \in T /\ Tail(s) \in Seq(T)
  BY HeadTailProperties
<1>7. QED
  BY <1>1, <1>2, <1>5, <1>6

LEMMA BackwardsTyped == ASSUME NEW T, NEW s \in Seq(T) PROVE Apps!Backwards(s) \in Seq(T)
<1>1. DOMAIN s = 1..Len(s) /\ Len(s) \in Nat /\ \A i \in 1..Len(s) : s[i] \in T
  BY ElementsOf
<1>2. \A i \in 1..Len(s) : Len(s) + 1 - i \in 1..Len(s)
  BY <1>1
<1>3. Apps!Backwards(s) \in [1..Len(s) -> T]
  BY <1>1, <1>2 DEF Apps!Backwards
<1>4. QED
  BY <1>1, <1>3, FunctionIsSeq

LEMMA SwapRemoveTyped ==
  ASSUME NEW T, NEW s \in Seq(T), NEW i
  PROVE  Apps!SwapRemove(s, i) \in Seq(T)
<1>1. Len(s) \in Nat /\ \A j \in 1..Len(s) : s[j] \in T
  BY ElementsOf
<1>2. CASE Len(s) = 0
  <2>1. Apps!SwapRemove(s, i) \in [1..0 -> T]
    BY <1>2 DEF Apps!SwapRemove
  <2>2. QED
    BY <2>1, FunctionIsSeq
<1>3. CASE Len(s) # 0
  <2>1. Len(s) - 1 \in Nat /\ Len(s) \in 1..Len(s)
    BY <1>1, <1>3
  <2>2. \A j \in 1..(Len(s) - 1) : j \in 1..Len(s)
    BY <1>1
  <2>3. Apps!SwapRemove(s, i) \in [1..(Len(s) - 1) -> T]
    BY <1>1, <2>1, <2>2 DEF Apps!SwapRemove
  <2>4. QED
    BY <2>1, <2>3, FunctionIsSeq
<1>4. QED
  BY <1>2, <1>3

LEMMA EntriesTyped ==
  ASSUME NEW s \in Seq(Apps!Container)
  PROVE  Apps!Entries(s) \in Seq(Apps!Entry)
<1>1. DOMAIN s = 1..Len(s) /\ Len(s) \in Nat /\ \A i \in 1..Len(s) : s[i] \in Apps!Container
  BY ElementsOf
<1>2. \A c \in Apps!Container, n \in Nat : [app |-> c, index |-> n] \in Apps!Entry
  BY DEF Apps!Entry
<1>3. \A i \in 1..Len(s) : Len(s) + 1 - i \in 1..Len(s) /\ Len(s) + 1 - i \in Nat
  BY <1>1
<1>4. \A i \in 1..Len(s) :
        [app |-> s[Len(s) + 1 - i], index |-> Len(s) + 1 - i] \in Apps!Entry
  BY <1>1, <1>2, <1>3
<1>5. Apps!Entries(s) \in [1..Len(s) -> Apps!Entry]
  BY <1>1, <1>4 DEF Apps!Entries
<1>6. QED
  BY <1>1, <1>5, FunctionIsSeq

LEMMA ArrangementTyped ==
  ASSUME NEW T, NEW S \in SUBSET T, IsFiniteSet(S), NEW s \in Apps!Arrangements(S)
  PROVE  s \in Seq(T) /\ Range(s) = S
<1>1. Cardinality(S) \in Nat /\ Apps!Cardinality(S) = Cardinality(S)
  BY FS_CardinalityType DEF Apps!Cardinality, Cardinality
<1>2. s \in [1..Cardinality(S) -> S] /\ \A x \in S : \E i \in 1..Cardinality(S) : s[i] = x
  BY <1>1 DEF Apps!Arrangements, Apps!Bijection, Apps!Injection, Apps!Surjection, Apps!IsInjective
<1>3. s \in [1..Cardinality(S) -> T]
  BY <1>2
<1>4. Range(s) = S
  BY <1>2 DEF Range
<1>5. QED
  BY <1>1, <1>3, <1>4, FunctionIsSeq

LEMMA SortedTyped ==
  ASSUME NEW T, NEW s \in Seq(T), NEW t \in Apps!Sorted(s)
  PROVE  t \in Seq(T) /\ Range(t) = Range(s)
<1>1. Range(s) \in SUBSET T /\ IsFiniteSet(Range(s))
  BY ElementsOf
<1>2. t \in Apps!Arrangements(Range(s))
  BY DEF Apps!Sorted, Apps!Range, Range
<1>3. QED
  BY <1>1, <1>2, ArrangementTyped

-----------------------------------------------------------------------------

(* A pass that is left holds nothing.                                      *)
LEMMA AbortTyped ==
  ASSUME AppsTyped, Apps!Abort, UNCHANGED <<assigned, running, containers, appAssignments>>,
         flag' \in BOOLEAN, local' \in [Apps!References -> Digest \cup {NoDigest}],
         apps' \in Seq(Apps!Container), appFaults' \in Nat
  PROVE  AppsTyped'
<1>1. <<>> \in Seq(Apps!Entry) /\ <<>> \in Seq(Apps!Container)
  BY EmptySeq
<1>2. QED
  BY <1>1 DEF AppsTyped, Apps!TypeOK, Apps!Abort, Apps!PC

LEMMA AppFaultTyped ==
  ASSUME AppsTyped, NEW kind, Apps!Fault(kind)
  PROVE  appFaults' \in Nat
BY DEF AppsTyped, Apps!TypeOK, Apps!Fault

LEMMA FailureTyped ==
  ASSUME AppsTyped, Apps!Abort, appFaults' \in Nat,
         UNCHANGED <<assigned, running, appAssignments, containers, local, apps, flag>>
  PROVE  AppsTyped'
BY AbortTyped DEF AppsTyped, Apps!TypeOK

LEMMA StartTyped ==
  ASSUME AppsTyped, appFaults' \in Nat, Apps!StartAgent(containers)
  PROVE  AppsTyped'
<1>1. containers \in SUBSET Apps!Container /\ IsFiniteSet(containers)
  BY DEF AppsTyped, Apps!TypeOK
<1>2. apps' \in Seq(Apps!Container)
  BY <1>1, ArrangementTyped DEF Apps!StartAgent
<1>3. QED
  BY <1>2, AbortTyped DEF AppsTyped, Apps!TypeOK, Apps!StartAgent, Apps!cloudVars, Apps!podmanVars

(* What has been pulled has a digest.                                      *)
LEMMA PullTyped == ASSUME AppsTyped, Apps!Pull PROVE AppsTyped'
<1> DEFINE images == {[config |-> c, digest |-> local'[Reference[c]]] : c \in wanted}
<1>1. PICK storage \in [Apps!References -> Digest \cup {NoDigest}] :
        Apps!PulledInto({Reference[c] : c \in wanted}, storage) /\ local' = storage
  BY DEF Apps!Pull
<1>2. ASSUME NEW c \in wanted
      PROVE  [config |-> c, digest |-> local'[Reference[c]]] \in Apps!Container
  <2>1. c \in Config /\ Reference[c] \in Apps!References
    BY DEF AppsTyped, Apps!TypeOK, Apps!References
  <2>2. local'[Reference[c]] \in Digest \cup {NoDigest} /\ local'[Reference[c]] # NoDigest
    BY <1>1, <2>1 DEF Apps!PulledInto
  <2>3. QED
    BY <2>1, <2>2 DEF Apps!Container
<1>3. IsFiniteSet(images)
  <2> DEFINE f == [c \in wanted |-> [config |-> c, digest |-> local'[Reference[c]]]]
  <2>1. f \in Surjection(wanted, images)
    BY DEF Surjection
  <2>2. IsFiniteSet(wanted)
    BY AppsAssumption, FS_Subset DEF AppsTyped, Apps!TypeOK
  <2> HIDE DEF f, images
  <2>3. QED
    BY <2>1, <2>2, FS_Surjection
<1>4. images \in SUBSET Apps!Container
  BY <1>2
<1>5. \E a \in Apps!Arrangements(images) : \E s \in Apps!Sorted(a) : targets' = Apps!Backwards(s)
  BY DEF Apps!Pull
<1> HIDE DEF images
<1>6. targets' \in Seq(Apps!Container)
  <2>1. PICK a \in Apps!Arrangements(images) :
          \E s \in Apps!Sorted(a) : targets' = Apps!Backwards(s)
    BY <1>5
  <2>2. a \in Seq(Apps!Container)
    BY <1>3, <1>4, ArrangementTyped
  <2>3. PICK s \in Apps!Sorted(a) : targets' = Apps!Backwards(s)
    BY <2>1
  <2>4. s \in Seq(Apps!Container)
    BY <2>2, SortedTyped
  <2>5. QED
    BY <2>3, <2>4, BackwardsTyped
<1>7. apps' \in Seq(Apps!Container) /\ current' \in Seq(Apps!Entry)
  <2>1. PICK s \in Apps!Sorted(apps) : apps' = s /\ current' = Apps!Entries(s)
    BY DEF Apps!Pull
  <2>2. s \in Seq(Apps!Container)
    BY SortedTyped DEF AppsTyped, Apps!TypeOK
  <2>3. QED
    BY <2>1, <2>2, EntriesTyped
<1>8. /\ appPc' = "merge"
      /\ UNCHANGED <<wanted, assigned, running, appAssignments, containers, flag, appFaults>>
  BY DEF Apps!Pull, Apps!cloudVars
<1>9. QED
  BY <1>1, <1>6, <1>7, <1>8 DEF AppsTyped, Apps!TypeOK, Apps!PC

LEMMA PullFailsTyped == ASSUME AppsTyped, Apps!PullFails PROVE AppsTyped'
<1>1. local' \in [Apps!References -> Digest \cup {NoDigest}]
  BY DEF Apps!PullFails
<1>2. appFaults' \in Nat
  BY AppFaultTyped DEF Apps!PullFails
<1>3. QED
  BY <1>1, <1>2, AbortTyped DEF Apps!PullFails, AppsTyped, Apps!TypeOK, Apps!cloudVars

LEMMA PruneTyped == ASSUME AppsTyped, Apps!Prune PROVE AppsTyped'
<1>1. local' \in [Apps!References -> Digest \cup {NoDigest}]
  BY DEF Apps!Prune, AppsTyped, Apps!TypeOK
<1>2. QED
  BY <1>1, AbortTyped DEF Apps!Prune, AppsTyped, Apps!TypeOK, Apps!cloudVars

LEMMA KeepTyped == ASSUME AppsTyped, Apps!Keep PROVE AppsTyped'
<1>1. Tail(current) \in Seq(Apps!Entry) /\ Tail(targets) \in Seq(Apps!Container)
  BY ElementsOf DEF Apps!Keep, Apps!SameNext, AppsTyped, Apps!TypeOK
<1>2. QED
  BY <1>1 DEF Apps!Keep, AppsTyped, Apps!TypeOK, Apps!cloudVars, Apps!podmanVars

LEMMA LaunchTyped ==
  ASSUME AppsTyped, appPc \in {"merge", "launch"}, targets # <<>>, Apps!LaunchHead
  PROVE  AppsTyped'
<1>1. Head(targets) \in Apps!Container /\ Tail(targets) \in Seq(Apps!Container)
  BY ElementsOf DEF AppsTyped, Apps!TypeOK
<1>2. Append(apps, Head(targets)) \in Seq(Apps!Container)
  BY <1>1, AppendProperties DEF AppsTyped, Apps!TypeOK
<1>3. IsFiniteSet(containers')
  BY FS_AddElement DEF Apps!LaunchHead, AppsTyped
<1>4. QED
  BY <1>1, <1>2, <1>3 DEF Apps!LaunchHead, AppsTyped, Apps!TypeOK, Apps!PC, Apps!cloudVars

LEMMA RemoveTyped ==
  ASSUME AppsTyped, NEW next \in {"merge", "launch"}, current # <<>>,
         next = "launch" => targets # <<>>, appPc = "merge", Apps!RemoveHead(next)
  PROVE  AppsTyped'
<1>1. Tail(current) \in Seq(Apps!Entry)
  BY ElementsOf DEF AppsTyped, Apps!TypeOK
<1>2. apps' \in Seq(Apps!Container)
  BY SwapRemoveTyped DEF Apps!RemoveHead, AppsTyped, Apps!TypeOK
<1>3. PICK app : app = apps[Head(current).index]
  OBVIOUS
<1>4. \/ containers' = containers \ {app} /\ UNCHANGED appFaults
      \/ Apps!Fault("destroy") /\ UNCHANGED containers
  BY <1>3 DEF Apps!RemoveHead
<1>5. containers' \in SUBSET Apps!Container /\ IsFiniteSet(containers')
  <2>1. containers \in SUBSET Apps!Container /\ IsFiniteSet(containers)
    BY DEF AppsTyped, Apps!TypeOK
  <2>2. IsFiniteSet(containers \ {app})
    BY <2>1, FS_RemoveElement
  <2>3. QED
    BY <1>4, <2>1, <2>2
<1>6. appFaults' \in Nat
  BY <1>4, AppFaultTyped DEF AppsTyped, Apps!TypeOK
<1>7. /\ current' = Tail(current) /\ appPc' = next
      /\ UNCHANGED <<wanted, targets, assigned, running, appAssignments, local, flag>>
  BY DEF Apps!RemoveHead, Apps!cloudVars
<1>8. QED
  BY <1>1, <1>2, <1>5, <1>6, <1>7 DEF AppsTyped, Apps!TypeOK, Apps!PC

LEMMA AppPassTyped == ASSUME AppsTyped, Apps!PassStep \/ Apps!PassFailure PROVE AppsTyped'
<1>1. CASE Apps!Tick \/ Apps!Fetch
  BY <1>1 DEF Apps!Tick, Apps!Fetch, AppsTyped, Apps!TypeOK, Apps!PC, Apps!cloudVars, Apps!podmanVars
<1>2. CASE Apps!Pull
  BY <1>2, PullTyped
<1>3. CASE Apps!Keep
  BY <1>3, KeepTyped
<1>4. CASE Apps!Create \/ Apps!UpdateLaunch
  BY <1>4, LaunchTyped DEF Apps!Create, Apps!CreateNext, Apps!UpdateLaunch, AppsTyped, Apps!TypeOK
<1>5. CASE Apps!Remove
  BY <1>5, RemoveTyped DEF Apps!Remove, Apps!RemoveNext
<1>6. CASE Apps!UpdateRemove
  BY <1>6, RemoveTyped DEF Apps!UpdateRemove, Apps!SameNext
<1>7. CASE Apps!CreateFails \/ Apps!UpdateLaunchFails
  <2>1. Apps!LaunchHeadFails
    BY <1>7 DEF Apps!CreateFails, Apps!UpdateLaunchFails
  <2>2. appFaults' \in Nat
    BY <2>1, AppFaultTyped DEF Apps!LaunchHeadFails, AppsTyped, Apps!TypeOK
  <2>3. QED
    BY <2>1, <2>2, FailureTyped DEF Apps!LaunchHeadFails, Apps!cloudVars, Apps!podmanVars
<1>8. CASE Apps!Report
  BY <1>8 DEF Apps!Report, AppsTyped, Apps!TypeOK, Apps!PC, Apps!podmanVars
<1>9. CASE Apps!Prune
  BY <1>9, PruneTyped
<1>10. CASE Apps!FetchFails \/ Apps!ReportFails \/ Apps!PruneFails
  BY <1>10, AppFaultTyped, FailureTyped
  DEF Apps!FetchFails, Apps!ReportFails, Apps!PruneFails, Apps!cloudVars, Apps!podmanVars
<1>11. CASE Apps!PullFails
  BY <1>11, PullFailsTyped
<1>12. QED
  BY <1>1, <1>2, <1>3, <1>4, <1>5, <1>6, <1>7, <1>8, <1>9, <1>10, <1>11
  DEF Apps!PassStep, Apps!PassFailure

LEMMA AppsInitTyped == ASSUME Apps!Init PROVE AppsTyped
<1>1. <<>> \in Seq(Apps!Entry) /\ <<>> \in Seq(Apps!Container) /\ IsFiniteSet({})
  BY EmptySeq, FS_EmptySet
<1>2. QED
  BY <1>1 DEF Apps!Init, AppsTyped, Apps!TypeOK, Apps!PC

LEMMA AppsStayTyped ==
  ASSUME AppsTyped, flag' \in BOOLEAN, UNCHANGED appVars
  PROVE  AppsTyped'
BY DEF AppsTyped, Apps!TypeOK, appVars

LEMMA DeviceStepTyped ==
  ASSUME AppsTyped, flag' \in BOOLEAN, [DeviceNext]_deviceVars
  PROVE  AppsTyped'
<1>1. CASE OsLoopActs \/ CountdownActs \/ LockedForNothing
  BY <1>1, AppsStayTyped DEF OsLoopActs, CountdownActs, LockedForNothing
<1>2. CASE AppLoopActs
  BY <1>2, AppPassTyped DEF AppLoopActs
<1>3. CASE AgentStartsAnew
  <2>1. Apps!StartAgent(containers) /\ appFaults' = appFaults
    BY <1>3 DEF AgentStartsAnew, Apps!StartsAnew
  <2>2. QED
    BY <2>1, StartTyped DEF AppsTyped, Apps!TypeOK
<1>4. CASE \E A \in Apps!Assignments : Apps!Assign(A)
  BY <1>4 DEF Apps!Assign, Apps!Assignments, AppsTyped, Apps!TypeOK, Apps!passVars, Apps!podmanVars
<1>5. CASE UNCHANGED appVars
  BY <1>5, AppsStayTyped
<1>6. QED
  BY <1>1, <1>2, <1>3, <1>4, <1>5 DEF DeviceNext, OperatorAssigns, deviceVars

LEMMA StrandedOnlyLocked ==
  ASSUME stranded => flag, [DeviceNext]_deviceVars
  PROVE  (stranded => flag)'
<1>1. CASE OsLoopActs \/ CountdownActs
  BY <1>1, FlagRises DEF OsLoopActs, CountdownActs
<1>2. CASE LockedForNothing
  BY <1>2, FlagRises DEF LockedForNothing
<1>3. CASE AgentStartsAnew
  BY <1>3 DEF AgentStartsAnew
<1>4. CASE AppLoopActs
  BY <1>4 DEF AppLoopActs, vars, processVars
<1>5. CASE OperatorAssigns
  BY <1>5 DEF OperatorAssigns, Assign, processVars, Apps!Assign, vars
<1>6. CASE UNCHANGED deviceVars
  BY <1>6 DEF deviceVars, vars, processVars
<1>7. QED
  BY <1>1, <1>2, <1>3, <1>4, <1>5, <1>6 DEF DeviceNext

(* Both loops keep their types over passes, freezes, reboots and rollbacks *)
(* of one another, and the lock is stranded only while it is held          *)
(* (main.rs:120-151, loop_os.rs:39-149, loop_apps.rs:29-112).              *)
THEOREM DeviceTypeCorrect == DeviceSpec => []DeviceTypeOK
<1> DEFINE Inv == AppsTyped /\ (stranded => flag)
<1>1. DeviceInit => Inv
  BY AppsInitTyped DEF DeviceInit
<1>2. Inv /\ (flag \in BOOLEAN)' /\ [DeviceNext]_deviceVars => Inv'
  BY DeviceStepTyped, StrandedOnlyLocked
<1>3. DeviceSpec => []Inv
  <2> HIDE DEF Inv
  <2>1. QED
    BY <1>1, <1>2, FlagIsBoolean, PTL DEF DeviceSpec
<1>4. TypeOK /\ budget \in Budgets /\ Inv => DeviceTypeOK
  BY DEF AppsTyped, DeviceTypeOK
<1>5. QED
  <2> HIDE DEF Inv
  <2>1. QED
    BY <1>3, <1>4, AlwaysBudgeted, DeviceImplementsOsUpdate, TypeCorrect, PTL
===============================================================================
