----------------------------- MODULE AppReconcile -----------------------------
(***************************************************************************)
(* The application loop of the device agent (orchestrator/src/loop_apps.rs):*)
(* a pass fetches the application configs the cloud assigns, pulls their   *)
(* images, sorts the applications and the targets by image reference, and  *)
(* merges the two lists from the back, creating, updating and removing     *)
(* applications in the very vector the merge holds indices into.  Every    *)
(* await is a step: the pass may fail, the agent may restart, the cloud    *)
(* may change its mind and the OS loop may raise its flag between any two. *)
(*                                                                         *)
(* An application and its container are one record; what its lifecycle     *)
(* task does with it is AppLifecycle.  References are their ranks in the   *)
(* order of strings.  podman, the cloud and the OS loop are external.      *)
(*                                                                         *)
(* A definition whose name starts with Bug is the definition after it with *)
(* a plausible mistake in the code.  Nothing uses it: it is substituted to *)
(* show that a property notices the mistake.                               *)
(***************************************************************************)
EXTENDS Naturals, Sequences, FiniteSets, Functions

CONSTANTS
  Config,          \* application configs; an edit of an application mints a new one
  Application,     \* the application a config belongs to
  Reference,       \* rank of the reference of its image, "docker.io/library/web:1"
  Stripped,        \* rank of that reference up to its first colon
  ContainerName,   \* last path segment of the image, without the tag
  Digest,          \* fingerprints of images
  NoDigest,        \* the image is not in the local storage
  FaultKinds,      \* the faults a run injects, among AllFaultKinds
  MaxFaults,       \* bound on the number of injected faults
  MaxAssignments   \* bound on the number of assignments an operator makes

AllFaultKinds ==
  {"fetch", "pull", "create", "destroy", "report", "prune", "restart", "list"}

References == {Reference[c] : c \in Config}

ASSUME ConfigAssumption ==
  /\ IsFiniteSet(Config)
  /\ DOMAIN Application = Config
  /\ Reference \in [Config -> Nat]
  /\ Stripped \in [Config -> Nat]
  /\ DOMAIN ContainerName = Config
  /\ \A c, d \in Config : Reference[c] = Reference[d] => Stripped[c] = Stripped[d]
  /\ \A c, d \in Config : Stripped[c] = Stripped[d] => ContainerName[c] = ContainerName[d]
ASSUME DigestAssumption == Digest # {} /\ NoDigest \notin Digest
ASSUME BoundAssumption ==
  /\ FaultKinds \subseteq AllFaultKinds
  /\ MaxFaults \in Nat
  /\ MaxAssignments \in Nat

VARIABLES
  assigned,    \* cloud: the configs assigned to this device
  reported,    \* cloud: the configs the device last reported as current
  frozen,      \* os_upgrade_in_progress
  containers,  \* podman: the containers that exist
  local,       \* podman: the digest each reference has in the local storage
  pc,          \* await point of try_update
  want,        \* target_app_configs of this pass
  apps,        \* the vector of applications the loop owns
  current,     \* ReconcileIterator: entries of apps still to merge, last first
  target,      \* ReconcileIterator: target images still to merge, last first
  faults, assignments   \* bounded counters of the environment

passVars   == <<pc, want, current, target>>
cloudVars  == <<assigned, reported, assignments>>
podmanVars == <<containers, local>>
vars == <<passVars, cloudVars, podmanVars, apps, frozen, faults>>

(* A container: the config in its label and the digest of its image.       *)
Container == [config : Config, digest : Digest]
Entry == [app : Container, index : Nat]
PC == {"idle", "fetch", "pull", "merge", "launch", "prune"}

(* The server holds at most one config per application and device.         *)
Assignments ==
  {A \in SUBSET Config : \A c, d \in A : Application[c] = Application[d] => c = d}

Fault(kind) ==
  /\ kind \in FaultKinds
  /\ faults < MaxFaults
  /\ faults' = faults + 1

-----------------------------------------------------------------------------
(* Sequences.                                                              *)

Backwards(s) == [i \in DOMAIN s |-> s[Len(s) + 1 - i]]

(* Vec::swap_remove: the last element takes the place of the removed one.  *)
SwapRemove(s, i) == [j \in 1..(Len(s) - 1) |-> IF j = i THEN s[Len(s)] ELSE s[j]]

(* The arrangements of a set of containers as a vector, and those that     *)
(* order_reference sorts; equal references keep an order of their own.     *)
Arrangements(S) == Bijection(1..Cardinality(S), S)

BugSorted(s) == {s}

Sorted(s) ==
  {t \in Arrangements(Range(s)) :
     \A i, j \in DOMAIN t : i < j => Reference[t[i].config] <= Reference[t[j].config]}

-----------------------------------------------------------------------------
(* One pass of try_update.                                                 *)

(* `?` leaves the pass; apps keeps what was done so far.                   *)
BugAbort == pc' = "idle" /\ UNCHANGED <<want, current, target>>

Abort ==
  /\ pc' = "idle"
  /\ want' = {}
  /\ current' = <<>>
  /\ target' = <<>>

(* A tick while the flag is up skips the pass; the flag is not read again. *)
Tick ==
  /\ pc = "idle" /\ ~frozen
  /\ pc' = "fetch"
  /\ UNCHANGED <<want, current, target, cloudVars, podmanVars, apps, frozen, faults>>

Fetch ==
  /\ pc = "fetch"
  /\ want' = assigned
  /\ pc' = "pull"
  /\ UNCHANGED <<current, target, cloudVars, podmanVars, apps, frozen, faults>>

FetchFails ==
  /\ pc = "fetch"
  /\ Fault("fetch")
  /\ Abort
  /\ UNCHANGED <<cloudVars, podmanVars, apps, frozen>>

(* PullIfMissing: a reference in the local storage is what it is, however  *)
(* far the tag has moved in the registry since.                            *)
PulledInto(references, storage) ==
  /\ storage \in [References -> Digest \cup {NoDigest}]
  /\ \A r \in References :
       IF r \in references /\ local[r] = NoDigest
         THEN storage[r] # NoDigest
         ELSE storage[r] = local[r]

BugEntries(s) == [i \in DOMAIN s |-> [app |-> s[i], index |-> i]]

(* Entries of the vector from the last to the first, each with its index.  *)
Entries(s) ==
  [i \in DOMAIN s |-> [app |-> s[Len(s) + 1 - i], index |-> Len(s) + 1 - i]]

Pull ==
  /\ pc = "pull"
  /\ \E storage \in [References -> Digest \cup {NoDigest}] :
       /\ PulledInto({Reference[c] : c \in want}, storage)
       /\ local' = storage
  /\ LET images == {[config |-> c, digest |-> local'[Reference[c]]] : c \in want}
     IN  \E a \in Arrangements(images) : \E s \in Sorted(a) : target' = Backwards(s)
  /\ \E s \in Sorted(apps) : apps' = s /\ current' = Entries(s)
  /\ pc' = "merge"
  /\ UNCHANGED <<want, cloudVars, containers, frozen, faults>>

(* One image that cannot be pulled fails the pass for all; the others stay. *)
PullFails ==
  /\ pc = "pull"
  /\ Fault("pull")
  /\ \E missing \in want : \E storage \in [References -> Digest \cup {NoDigest}] :
       /\ PulledInto({Reference[c] : c \in want} \ {Reference[missing]}, storage)
       /\ local' = storage
  /\ Abort
  /\ UNCHANGED <<cloudVars, containers, apps, frozen>>

-----------------------------------------------------------------------------
(* The merge: what ReconcileIterator::next answers for the two heads.      *)

HeadKey == Stripped[Head(current).app.config]
TargetKey == Stripped[Head(target).config]

CreateNext == target # <<>> /\ (current # <<>> => HeadKey < TargetKey)

BugRemoveNext == current # <<>> /\ target # <<>> /\ HeadKey > TargetKey

RemoveNext == current # <<>> /\ (target # <<>> => HeadKey > TargetKey)
SameNext == current # <<>> /\ target # <<>> /\ HeadKey = TargetKey

(* "Update if the image changed ... or the application_config changed."    *)
OutOfDate == Head(current).app # Head(target)

Keep ==
  /\ pc = "merge" /\ SameNext /\ ~OutOfDate
  /\ current' = Tail(current)
  /\ target' = Tail(target)
  /\ UNCHANGED <<pc, want, cloudVars, podmanVars, apps, frozen, faults>>

(* Application::launch_from_image: podman refuses a name that is taken.    *)
NameTaken(image) ==
  \E c \in containers : ContainerName[c.config] = ContainerName[image.config]

LaunchHead ==
  /\ ~NameTaken(Head(target))
  /\ containers' = containers \cup {Head(target)}
  /\ apps' = Append(apps, Head(target))
  /\ target' = Tail(target)
  /\ pc' = "merge"
  /\ UNCHANGED <<want, current, cloudVars, local, frozen, faults>>

LaunchHeadFails ==
  /\ Fault("create") \/ (NameTaken(Head(target)) /\ UNCHANGED faults)
  /\ Abort
  /\ UNCHANGED <<cloudVars, podmanVars, apps, frozen>>

(* apps.swap_remove(application_index).remove().await: the lifecycle task  *)
(* stops and deletes the container; when podman refuses, it only logs.     *)
RemoveHead(next) ==
  LET index == Head(current).index
      app == apps[index]
  IN  /\ apps' = SwapRemove(apps, index)
      /\ \/ containers' = containers \ {app} /\ UNCHANGED faults
         \/ Fault("destroy") /\ UNCHANGED containers
      /\ current' = Tail(current)
      /\ pc' = next
      /\ UNCHANGED <<want, target, cloudVars, local, frozen>>

Create == pc = "merge" /\ CreateNext /\ LaunchHead

BugCreateFails ==
  /\ pc = "merge" /\ CreateNext
  /\ Fault("create") \/ (NameTaken(Head(target)) /\ UNCHANGED faults)
  /\ target' = Tail(target)
  /\ UNCHANGED <<pc, want, current, cloudVars, podmanVars, apps, frozen>>

CreateFails == pc = "merge" /\ CreateNext /\ LaunchHeadFails
Remove == pc = "merge" /\ RemoveNext /\ RemoveHead("merge")

(* An update removes the old application first, then launches the new one. *)
UpdateRemove == pc = "merge" /\ SameNext /\ OutOfDate /\ RemoveHead("launch")
UpdateLaunch == pc = "launch" /\ LaunchHead
UpdateLaunchFails == pc = "launch" /\ LaunchHeadFails

(* The merge is done: the ids that were fetched are reported as current.   *)
Report ==
  /\ pc = "merge" /\ current = <<>> /\ target = <<>>
  /\ reported' = want
  /\ pc' = "prune"
  /\ UNCHANGED <<want, current, target, assigned, assignments>>
  /\ UNCHANGED <<podmanVars, apps, frozen, faults>>

ReportFails ==
  /\ pc = "merge" /\ current = <<>> /\ target = <<>>
  /\ Fault("report")
  /\ Abort
  /\ UNCHANGED <<cloudVars, podmanVars, apps, frozen>>

(* Images no container uses are deleted.                                   *)
Prune ==
  /\ pc = "prune"
  /\ local' = [r \in References |->
       IF \E c \in containers : Reference[c.config] = r THEN local[r] ELSE NoDigest]
  /\ Abort
  /\ UNCHANGED <<cloudVars, containers, apps, frozen, faults>>

PruneFails ==
  /\ pc = "prune"
  /\ Fault("prune")
  /\ Abort
  /\ UNCHANGED <<cloudVars, podmanVars, apps, frozen>>

-----------------------------------------------------------------------------
(* The environment.                                                        *)

(* main: every container podman lists is wrapped, in podman's order; a     *)
(* container whose image cannot be inspected is left out without a word.   *)
StartAgent(listed) ==
  /\ apps' \in Arrangements(listed)
  /\ frozen' = FALSE
  /\ Abort
  /\ UNCHANGED <<cloudVars, podmanVars>>

Restart == Fault("restart") /\ StartAgent(containers)
RestartMisses == Fault("list") /\ \E c \in containers : StartAgent(containers \ {c})

(* The OS loop raises the flag at any time, and only a reboot lowers it.   *)
Freeze ==
  /\ ~frozen
  /\ frozen' = TRUE
  /\ UNCHANGED <<passVars, cloudVars, podmanVars, apps, faults>>

StartsAnew == StartAgent(containers) /\ UNCHANGED faults
Reboot == frozen /\ StartsAnew

Assign(A) ==
  /\ assignments < MaxAssignments
  /\ A # assigned
  /\ assigned' = A
  /\ assignments' = assignments + 1
  /\ UNCHANGED <<passVars, reported, podmanVars, apps, frozen, faults>>

-----------------------------------------------------------------------------

Init ==
  /\ assigned = {} /\ reported = {}
  /\ frozen = FALSE
  /\ containers = {}
  /\ local = [r \in References |-> NoDigest]
  /\ pc = "idle"
  /\ want = {}
  /\ apps = <<>> /\ current = <<>> /\ target = <<>>
  /\ faults = 0 /\ assignments = 0

PassStep ==
  \/ Tick \/ Fetch \/ Pull
  \/ Keep \/ Create \/ Remove \/ UpdateRemove \/ UpdateLaunch
  \/ CreateFails \/ UpdateLaunchFails
  \/ Report \/ Prune

PassFailure == FetchFails \/ PullFails \/ ReportFails \/ PruneFails

Next ==
  \/ PassStep \/ PassFailure
  \/ Restart \/ RestartMisses \/ Freeze \/ Reboot
  \/ \E A \in Assignments : Assign(A)

(* tokio polls the loop whenever what it awaits is ready.  No fairness on  *)
(* failures, on the operator, or on the OS loop and its reboots.           *)
Spec == Init /\ [][Next]_vars
FairSpec == Spec /\ WF_vars(PassStep)

(* The loop in a process that may end at any time, for whatever reason.    *)
LoopNext == Next \/ StartsAnew
LoopSpec == Init /\ [][LoopNext]_vars

-----------------------------------------------------------------------------

Configs(S) == {c.config : c \in S}

TypeOK ==
  /\ assigned \in SUBSET Config
  /\ reported \in SUBSET Config
  /\ frozen \in BOOLEAN
  /\ containers \in SUBSET Container
  /\ local \in [References -> Digest \cup {NoDigest}]
  /\ pc \in PC
  /\ want \in SUBSET Config
  /\ apps \in Seq(Container)
  /\ current \in Seq(Entry)
  /\ target \in Seq(Container)
  /\ pc \in {"idle", "fetch"} => want = {}
  /\ pc \in {"merge", "launch"} \/ (current = <<>> /\ target = <<>>)
  /\ pc = "launch" => target # <<>>
  /\ faults \in Nat
  /\ assignments \in Nat

(* Removals and appends move applications about in the vector while the    *)
(* merge still holds indices into it; every index that is still to be used *)
(* keeps pointing at the application it was taken from                     *)
(* (loop_apps.rs:64-102,182-196).                                          *)
IndicesStayValid ==
  \A k \in DOMAIN current :
    LET e == current[k] IN e.index \in DOMAIN apps /\ apps[e.index] = e.app

(* Whatever failed before, a pass that gets to its report has exactly the  *)
(* applications it reports, each with its container (loop_apps.rs:104-107).*)
ReportsWhatRuns ==
  [][pc = "merge" /\ pc' = "prune" =>
       Configs(Range(apps)) = reported' /\ Range(apps) \subseteq containers]_vars

(* Zero downtime for what has not changed: no pass tears down a container  *)
(* of a config that is still wanted (loop_apps.rs:60-102,218-268).         *)
KeepsWhatIsWanted ==
  [][\A c \in containers \ containers' : c.config \notin want]_vars

(* An assignment that stays is deployed and reported, whatever failed      *)
(* before, once the flag of the OS loop stays down and no container is     *)
(* left that the agent has forgotten (loop_apps.rs:29-112).                *)
Settled(A) == assigned = A /\ ~frozen /\ containers = Range(apps)
Converges ==
  \A A \in Assignments :
    <>[]Settled(A) => <>[](Configs(containers) = A /\ reported = A)

===============================================================================
