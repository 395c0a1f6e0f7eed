------------------------------- MODULE LogPath -------------------------------
(***************************************************************************)
(* The logs from a device to the screen: the agent's own log, the logs of  *)
(* its applications, and a viewer that follows what the server stores of   *)
(* them.  The device and the application shipper share the process of the  *)
(* agent; the server publishes what it has inserted                        *)
(* (routes/device/logs.rs).                                                *)
(***************************************************************************)
EXTENDS DeviceLog, AppLog, LogViewer

CONSTANTS
  ThisDevice,   \* the device whose agent this is
  Loads         \* how much of each kind of work a behaviour has at most

Load == [entries : Nat, logFaults : Nat, lines : Nat, commands : Nat,
         appLogFaults : Nat, viewer : BOOLEAN, device : Nat, keys : Nat, breaks : Nat]

ASSUME LogPathAssumption ==
  /\ ThisDevice \in Device
  /\ App \subseteq Application
  /\ Loads \subseteq Load

VARIABLE load   \* the load of this behaviour

pathVars == <<deviceLogVars, appLogVars, viewerVars, load>>

(* Warnings and errors alternate: a level for every other entry.           *)
LevelOf(n) == IF n % 2 = 0 THEN 4 ELSE 2
DeviceEvent(e) ==
  [kind |-> "device", device |-> ThisDevice, application |-> None, level |-> LevelOf(e)]
ApplicationEvent(line) ==
  [kind |-> "application", device |-> ThisDevice, application |-> line[1],
   level |-> LevelOf(line[2])]

ViewerRests == UNCHANGED <<tasks, queue, screenVars, keys, breaks>>

(* The handler inserts all rows of a request, then publishes each.         *)
PublishDevice ==
  Publish([i \in 1..(Len(rows') - Len(rows)) |-> DeviceEvent(rows'[Len(rows) + i])])
PublishApplication ==
  Publish([i \in 1..(Len(appRows') - Len(appRows)) |->
             ApplicationEvent(appRows'[Len(appRows) + i])])

(* A request whose connection is lost may be dropped between the two.      *)
DeviceShips ==
  /\ \/ PushStored /\ PublishDevice
     \/ PushAnswerLost /\ (PublishDevice \/ UNCHANGED published)
  /\ ViewerRests /\ UNCHANGED appLogVars

ApplicationShips ==
  /\ \/ AppPushStored /\ PublishApplication
     \/ AppPushAnswerLost /\ (PublishApplication \/ UNCHANGED published)
  /\ ViewerRests /\ UNCHANGED deviceLogVars

AgentEnds ==
  /\ FailEarly \/ ExitAfterFlush \/ EndOk \/ Crash
  /\ AgentGone
  /\ UNCHANGED viewerVars

AgentLogs ==
  /\ \/ Emit \/ Spawn \/ Run \/ Fail \/ StartAgain
     \/ Receive \/ Tick \/ PushTooLarge \/ PushFails \/ PushUnknown
  /\ UNCHANGED <<appLogVars, viewerVars>>

(* The loops of the agent run; the containers run on without it.           *)
ApplicationLogs ==
  /\ \/ \E a \in App : Write(a)
     \/ /\ phase = "running"
        /\ \/ \E a \in App : Register(a) \/ Unregister(a) \/ StreamFails(a)
           \/ HandleCommand \/ ReadStream \/ AppTick \/ AppPushTooLarge \/ AppPushFails
  /\ UNCHANGED <<deviceLogVars, viewerVars>>

UserWatches == load.viewer /\ ViewerNext /\ UNCHANGED <<deviceLogVars, appLogVars>>

WithinLoad ==
  /\ emitted <= load.entries /\ logFaults <= load.logFaults
  /\ SumOfLines <= load.lines /\ given <= load.commands /\ appLogFaults <= load.appLogFaults
  /\ keys <= load.keys /\ breaks <= load.breaks

PathInit ==
  /\ load \in Loads
  /\ DeviceLogInit /\ AppLogInit
  /\ ViewerInit /\ selected = load.device /\ minLevel = NoLevel

PathNext ==
  /\ \/ AgentLogs \/ AgentEnds \/ DeviceShips
     \/ ApplicationLogs \/ ApplicationShips
     \/ UserWatches
  /\ UNCHANGED load
  /\ WithinLoad'

PathSpec ==
  PathInit /\ [][PathNext]_pathVars /\ DeviceLogFairness /\ AppLogFairness

-----------------------------------------------------------------------------

PathTypeOK == DeviceLogTypeOK /\ AppLogTypeOK /\ ViewerTypeOK /\ load \in Loads
=============================================================================
