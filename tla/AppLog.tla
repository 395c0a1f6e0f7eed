-------------------------------- MODULE AppLog --------------------------------
(***************************************************************************)
(* The logs of the applications on their way to the cloud (orchestrator/   *)
(* src/podman/log_registry.rs): one task that takes commands of the        *)
(* lifecycle tasks, reads the followed streams of all containers, keeps a  *)
(* buffer for each application and pushes them one after another.          *)
(*                                                                         *)
(* A line is the number it has in the log that podman keeps of the         *)
(* application's container; a stream is the number of the next line it     *)
(* will yield, or 0 where none is followed.                                *)
(***************************************************************************)
EXTENDS LogBuffer, FiniteSets, Functions

CONSTANTS
  App,                \* applications
  MaxLines,           \* bound on the lines all containers write
  MaxCommands,        \* bound on the registrations and removals
  AppLogFaultKinds,   \* the faults a run injects, among AllAppLogFaultKinds
  MaxAppLogFaults     \* bound on the number of injected faults

AllAppLogFaultKinds == {"unreachable", "lostAnswer", "stream"}

ASSUME AppLogAssumption ==
  /\ IsFiniteSet(App)
  /\ MaxLines \in Nat
  /\ MaxCommands \in Nat
  /\ MaxAppLogFaults \in Nat
  /\ AppLogFaultKinds \subseteq AllAppLogFaultKinds

VARIABLES
  written,      \* podman: the lines each container has written
  followed,     \* lifecycle tasks: the first line of the last stream, 0 if none yet
  commands,     \* the channel to the registry
  streams,      \* the registry's StreamMap
  buffers,      \* the registry's buffers
  registry,     \* what the registry task awaits
  appRows,      \* cloud: the device's rows of application_logs, in insertion order
  taken,        \* history: lines read from a stream
  cut,          \* history: lines the cap on a buffer discarded
  forsaken,     \* history: lines that went with a removal or with the process
  given,        \* bounded counter: commands given so far
  appLogFaults  \* bounded counter of the environment

containerVars == <<written, followed, given>>
registryVars  == <<commands, streams, buffers, registry>>
appHistoryVars == <<taken, cut, forsaken>>
appLogVars == <<containerVars, registryVars, appHistoryVars, appRows, appLogFaults>>

Line == App \X (Nat \ {0})
Select == [at |-> "select"]
(* A push of the buffer of app, in a batch, after its removal, or on a     *)
(* tick, which goes on with the buffers of rest.                           *)
Push(why, app, rest) == [at |-> why, app |-> app, rest |-> rest]
Pushes == [at : {"batch", "remove", "tick"}, app : App, rest : SUBSET App]

AppLogFault(kind) ==
  /\ kind \in AppLogFaultKinds
  /\ appLogFaults < MaxAppLogFaults
  /\ appLogFaults' = appLogFaults + 1

Buffered == UNION {Range(buffers[a]) : a \in App}

-----------------------------------------------------------------------------
(* The containers and their lifecycle tasks.                               *)

SumOfLines == FoldFunction(LAMBDA x, y : x + y, 0, written)

Write(a) ==
  /\ SumOfLines < MaxLines
  /\ written' = [written EXCEPT ![a] = @ + 1]
  /\ UNCHANGED <<followed, given, registryVars, appHistoryVars, appRows, appLogFaults>>

(* A container is seen running: its stream is registered, the first time   *)
(* with its whole log, later with what is not older than the present       *)
(* second: any suffix, but never one that begins before the last did.      *)
Register(a) ==
  /\ given < MaxCommands
  /\ given' = given + 1
  /\ \E from \in IF followed[a] = 0 THEN {1} ELSE followed[a]..(written[a] + 1) :
       /\ followed' = [followed EXCEPT ![a] = from]
       /\ commands' = Append(commands, [op |-> "add", app |-> a, from |-> from])
  /\ UNCHANGED <<written, streams, buffers, registry, appHistoryVars, appRows, appLogFaults>>

(* Application::remove, before it notifies the lifecycle task.             *)
Unregister(a) ==
  /\ given < MaxCommands
  /\ given' = given + 1
  /\ commands' = Append(commands, [op |-> "remove", app |-> a, from |-> 0])
  /\ UNCHANGED <<written, followed, streams, buffers, registry>>
  /\ UNCHANGED <<appHistoryVars, appRows, appLogFaults>>

(* The agent's process is gone; a new one follows every log from its start. *)
AgentGone ==
  /\ followed' = [a \in App |-> 0]
  /\ commands' = <<>>
  /\ streams' = [a \in App |-> 0]
  /\ buffers' = [a \in App |-> <<>>]
  /\ registry' = Select
  /\ forsaken' = forsaken \cup Buffered
  /\ UNCHANGED <<written, given, taken, cut, appRows, appLogFaults>>

-----------------------------------------------------------------------------
(* The registry task.                                                      *)

HandleAdd ==
  /\ registry = Select
  /\ commands # <<>> /\ Head(commands).op = "add"
  /\ commands' = Tail(commands)
  /\ streams' = [streams EXCEPT ![Head(commands).app] = Head(commands).from]
  /\ UNCHANGED <<buffers, registry, containerVars, appHistoryVars, appRows, appLogFaults>>

BugHandleRemove ==
  /\ registry = Select
  /\ commands # <<>> /\ Head(commands).op = "remove"
  /\ LET a == Head(commands).app IN
       /\ commands' = Tail(commands)
       /\ streams' = [streams EXCEPT ![a] = 0]
       /\ buffers' = [buffers EXCEPT ![a] = <<>>]
  /\ UNCHANGED <<registry, containerVars, appHistoryVars, appRows, appLogFaults>>

(* The stream is dropped, and the buffer is pushed once.                   *)
HandleRemove ==
  /\ registry = Select
  /\ commands # <<>> /\ Head(commands).op = "remove"
  /\ LET a == Head(commands).app IN
       /\ commands' = Tail(commands)
       /\ streams' = [streams EXCEPT ![a] = 0]
       /\ registry' = IF buffers[a] = <<>> THEN Select ELSE Push("remove", a, {})
  /\ UNCHANGED <<buffers, containerVars, appHistoryVars, appRows, appLogFaults>>

ReadLine(a) ==
  /\ registry = Select
  /\ streams[a] \in 1..written[a]
  /\ streams' = [streams EXCEPT ![a] = @ + 1]
  /\ buffers' = [buffers EXCEPT ![a] = Append(@, <<a, streams[a]>>)]
  /\ taken' = taken \cup {<<a, streams[a]>>}
  /\ registry' = IF BatchIsFull(Len(buffers[a]) + 1) THEN Push("batch", a, {}) ELSE Select
  /\ UNCHANGED <<commands, containerVars, cut, forsaken, appRows, appLogFaults>>

(* The container stopped: its stream ends with its last line.              *)
StreamEnds(a) ==
  /\ registry = Select
  /\ streams[a] = written[a] + 1
  /\ streams' = [streams EXCEPT ![a] = 0]
  /\ UNCHANGED <<commands, buffers, registry, containerVars, appHistoryVars, appRows>>
  /\ UNCHANGED appLogFaults

(* An error is the last thing a stream yields.                             *)
StreamFails(a) ==
  /\ registry = Select
  /\ streams[a] # 0
  /\ AppLogFault("stream")
  /\ streams' = [streams EXCEPT ![a] = 0]
  /\ UNCHANGED <<commands, buffers, registry, containerVars, appHistoryVars, appRows>>

BugAppTick ==
  /\ registry = Select
  /\ \E a \in {b \in App : buffers[b] # <<>> /\ streams[b] # 0} : registry' = Push("tick", a, {})
  /\ UNCHANGED <<commands, streams, buffers, containerVars, appHistoryVars, appRows>>
  /\ UNCHANGED appLogFaults

(* A tick pushes every buffer that is not empty, in any order.             *)
AppTick ==
  /\ registry = Select
  /\ LET full == {a \in App : buffers[a] # <<>>} IN
       \E a \in full : registry' = Push("tick", a, full \ {a})
  /\ UNCHANGED <<commands, streams, buffers, containerVars, appHistoryVars, appRows>>
  /\ UNCHANGED appLogFaults

(* The push is over.  A removal forgets the buffer whatever the push left  *)
(* of it; a tick goes on with the next.                                    *)
AppPushReturns(left, stored) ==
  LET a == registry.app IN
  /\ registry # Select
  /\ buffers' = [buffers EXCEPT ![a] = IF registry.at = "remove" THEN <<>> ELSE left]
  /\ forsaken' = IF registry.at = "remove" THEN forsaken \cup Range(left) ELSE forsaken
  /\ cut' = cut \cup (Range(buffers[a]) \ (Range(left) \cup stored))
  /\ \/ registry.rest = {} /\ registry' = Select
     \/ \E b \in registry.rest : registry' = Push("tick", b, registry.rest \ {b})

AppPushStored ==
  /\ registry # Select /\ Accepts(buffers[registry.app])
  /\ appRows' = appRows \o buffers[registry.app]
  /\ AppPushReturns(<<>>, Range(buffers[registry.app]))
  /\ UNCHANGED <<commands, streams, containerVars, taken, appLogFaults>>

AppPushTooLarge ==
  /\ registry # Select /\ ~Accepts(buffers[registry.app])
  /\ AppPushReturns(Newest(buffers[registry.app]), {})
  /\ UNCHANGED <<commands, streams, containerVars, taken, appRows, appLogFaults>>

AppPushFails ==
  /\ registry # Select
  /\ AppLogFault("unreachable")
  /\ AppPushReturns(Newest(buffers[registry.app]), {})
  /\ UNCHANGED <<commands, streams, containerVars, taken, appRows>>

AppPushAnswerLost ==
  /\ registry # Select /\ Accepts(buffers[registry.app])
  /\ AppLogFault("lostAnswer")
  /\ appRows' = appRows \o buffers[registry.app]
  /\ AppPushReturns(Newest(buffers[registry.app]), Range(buffers[registry.app]))
  /\ UNCHANGED <<commands, streams, containerVars, taken>>

-----------------------------------------------------------------------------

AppLogInit ==
  /\ written = [a \in App |-> 0]
  /\ followed = [a \in App |-> 0]
  /\ given = 0
  /\ commands = <<>>
  /\ streams = [a \in App |-> 0]
  /\ buffers = [a \in App |-> <<>>]
  /\ registry = Select
  /\ appRows = <<>>
  /\ taken = {} /\ cut = {} /\ forsaken = {}
  /\ appLogFaults = 0

HandleCommand == HandleAdd \/ HandleRemove
ReadStream == \E a \in App : ReadLine(a) \/ StreamEnds(a)
AppPushEnds == AppPushStored \/ AppPushTooLarge

AppLogNext ==
  \/ \E a \in App : Write(a) \/ Register(a) \/ Unregister(a) \/ StreamFails(a)
  \/ HandleCommand \/ ReadStream \/ AppTick
  \/ AppPushEnds \/ AppPushFails \/ AppPushAnswerLost

(* As for the device's log: select! picks at random among its ready        *)
(* branches, and a request ends because it has a timeout.                  *)
AppLogFairness ==
  /\ SF_appLogVars(HandleCommand)
  /\ SF_appLogVars(AppTick)
  /\ WF_appLogVars(AppPushEnds)

AppLogSpec == AppLogInit /\ [][AppLogNext]_appLogVars

-----------------------------------------------------------------------------

AppLogTypeOK ==
  /\ written \in [App -> Nat] /\ followed \in [App -> Nat]
  /\ commands \in Seq([op : {"add", "remove"}, app : App, from : Nat])
  /\ streams \in [App -> Nat]
  /\ buffers \in [App -> Seq(Line)]
  /\ registry \in {Select} \cup Pushes
  /\ registry # Select => buffers[registry.app] # <<>>
  /\ appRows \in Seq(Line)
  /\ taken \subseteq Line /\ cut \subseteq Line /\ forsaken \subseteq Line
  /\ given \in Nat /\ appLogFaults \in Nat

(* A line read from a container is stored, or waits in the buffer of its   *)
(* own application, or was discarded by the cap, or went with the removal  *)
(* of the application or with the process (log_registry.rs:86-140).        *)
NoLineIsLost ==
  /\ taken \subseteq Range(appRows) \cup Buffered \cup cut \cup forsaken
  /\ \A a \in App : Range(buffers[a]) \subseteq {a} \X Nat
  /\ \A a \in App : WithinBounds(buffers[a])

(* A line that is read is in the end stored or given up: neither a quiet   *)
(* container, nor a stream that has ended, nor the pushes of the other     *)
(* applications keep a buffer for ever, not even those that are refused    *)
(* for ever.  Only its own application's buffer does, when an outage has   *)
(* let it grow past what the server takes in one request                   *)
(* (log_registry.rs:118-135, 155-168).                                     *)
EveryLineIsSettled ==
  \A l \in App \X (1..MaxLines) :
    l \in taken ~> l \in Range(appRows) \cup cut \cup forsaken \/ ~Accepts(buffers[l[1]])
=============================================================================
