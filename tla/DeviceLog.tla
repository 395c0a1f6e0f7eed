------------------------------ MODULE DeviceLog ------------------------------
(***************************************************************************)
(* The agent's own log on its way to the cloud (orchestrator/src/          *)
(* logging.rs): the tracing layer that puts every event into an unbounded  *)
(* channel, the shipper task that buffers them and pushes the buffer, and  *)
(* the flush that main asks for before it exits because of an error.       *)
(*                                                                         *)
(* An entry is the number of its event.  A push is one POST /device/logs,  *)
(* which inserts all entries of the buffer in one statement or none; what  *)
(* the agent learns of it is a second matter.                              *)
(***************************************************************************)
EXTENDS LogBuffer, FiniteSets, Functions

CONSTANTS
  MaxEntries,     \* bound on the events logged
  LogFaultKinds,  \* the faults a run injects, among AllLogFaultKinds
  MaxLogFaults    \* bound on the number of injected faults

AllLogFaultKinds == {"unreachable", "lostAnswer", "unknown", "fatal", "end", "crash"}

ASSUME LogBoundAssumption ==
  /\ MaxEntries \in Nat
  /\ MaxLogFaults \in Nat
  /\ LogFaultKinds \subseteq AllLogFaultKinds

VARIABLES
  phase,      \* where main is
  channel,    \* log_rx: entries, and 0 for a request to flush
  shipper,    \* the await point of the shipper task
  buffer,     \* entries received and not known to be stored
  acked,      \* the shipper has answered the request to flush
  rows,       \* cloud: the device's rows of device_logs, in insertion order
  emitted,    \* number of events logged so far
  dropped,    \* history: entries the cap on the buffer discarded
  lost,       \* history: entries that went with a process
  fatal,      \* history: the error main exits for, 0 if none
  lostAnswers,  \* history: pushes stored whose answer was lost
  logFaults   \* bounded counter of the environment

agentLogVars == <<phase, channel, shipper, buffer, acked, emitted, fatal>>
historyVars  == <<dropped, lost>>
deviceLogVars == <<agentLogVars, historyVars, rows, lostAnswers, logFaults>>

Phase == {"starting", "spawned", "running", "flushing", "failed", "ended"}
Alive == phase \in {"starting", "spawned", "running", "flushing"}
Flush == 0
Entries(s) == Range(s) \ {Flush}

LogFault(kind) ==
  /\ kind \in LogFaultKinds
  /\ logFaults < MaxLogFaults
  /\ logFaults' = logFaults + 1

-----------------------------------------------------------------------------
(* main and the tasks that log.                                            *)

(* Any task logs an event: the layer puts it into the channel.             *)
Emit ==
  /\ Alive
  /\ emitted < MaxEntries
  /\ emitted' = emitted + 1
  /\ channel' = Append(channel, emitted + 1)
  /\ UNCHANGED <<phase, shipper, buffer, acked, fatal, historyVars, rows, lostAnswers, logFaults>>

(* The API client exists: the shipper task gets the receiver.              *)
Spawn ==
  /\ phase = "starting"
  /\ phase' = "spawned"
  /\ shipper' = "select"
  /\ UNCHANGED <<channel, buffer, acked, emitted, fatal, historyVars, rows, lostAnswers, logFaults>>

Run ==
  /\ phase = "spawned"
  /\ phase' = "running"
  /\ UNCHANGED <<channel, shipper, buffer, acked, emitted, fatal, historyVars>>
  /\ UNCHANGED <<rows, lostAnswers, logFaults>>

BugFail ==
  /\ phase = "spawned"
  /\ emitted < MaxEntries
  /\ LogFault("fatal")
  /\ phase' = "flushing"
  /\ emitted' = emitted + 1
  /\ fatal' = emitted + 1
  /\ channel' = channel \o <<Flush, emitted + 1>>
  /\ UNCHANGED <<shipper, buffer, acked, historyVars, rows, lostAnswers>>

(* run() fails with the shipper running: main logs the error, asks for a   *)
(* flush and waits for it.                                                 *)
Fail ==
  /\ phase = "spawned"
  /\ emitted < MaxEntries
  /\ LogFault("fatal")
  /\ phase' = "flushing"
  /\ emitted' = emitted + 1
  /\ fatal' = emitted + 1
  /\ channel' = channel \o <<emitted + 1, Flush>>
  /\ UNCHANGED <<shipper, buffer, acked, historyVars, rows, lostAnswers>>

(* The process is gone, and with it everything that is not stored.         *)
Gone(newPhase) ==
  /\ phase' = newPhase
  /\ lost' = lost \cup ((Entries(channel) \cup Entries(buffer)) \ Range(rows))
  /\ channel' = <<>>
  /\ buffer' = <<>>
  /\ shipper' = "none"
  /\ acked' = FALSE
  /\ fatal' = 0
  /\ UNCHANGED <<emitted, dropped, rows, lostAnswers>>

(* Before the spawn, run() owns the logger: its return drops the receiver, *)
(* the flush is a no-op, and main exits at once.                           *)
FailEarly == phase = "starting" /\ LogFault("fatal") /\ Gone("failed")

ExitAfterFlush == phase = "flushing" /\ acked /\ Gone("failed") /\ UNCHANGED logFaults

(* A task has ended or a signal arrived: run() returns Ok, nothing flushes. *)
EndOk == phase = "running" /\ LogFault("end") /\ Gone("ended")

Crash == Alive /\ LogFault("crash") /\ Gone("failed")

(* systemd restarts the agent on a failure, and only then.                 *)
StartAgain ==
  /\ phase = "failed"
  /\ phase' = "starting"
  /\ UNCHANGED <<channel, shipper, buffer, acked, emitted, fatal, historyVars>>
  /\ UNCHANGED <<rows, lostAnswers, logFaults>>

-----------------------------------------------------------------------------
(* The shipper task.  It awaits one thing at a time: while a push is under *)
(* way, the channel fills up.                                              *)

ReceiveEntry ==
  /\ shipper = "select"
  /\ channel # <<>> /\ Head(channel) # Flush
  /\ channel' = Tail(channel)
  /\ buffer' = Append(buffer, Head(channel))
  /\ shipper' = IF BatchIsFull(Len(buffer) + 1) THEN "pushing" ELSE "select"
  /\ UNCHANGED <<phase, acked, emitted, fatal, historyVars, rows, lostAnswers, logFaults>>

BugReceiveFlush ==
  /\ shipper = "select"
  /\ channel # <<>> /\ Head(channel) = Flush
  /\ buffer # <<>>
  /\ channel' = Tail(channel)
  /\ shipper' = "pushingForFlush"
  /\ UNCHANGED <<phase, buffer, acked, emitted, fatal, historyVars, rows, lostAnswers, logFaults>>

(* With nothing in the buffer, the answer comes at once.                   *)
ReceiveFlush ==
  /\ shipper = "select"
  /\ channel # <<>> /\ Head(channel) = Flush
  /\ channel' = Tail(channel)
  /\ acked' = (buffer = <<>>)
  /\ shipper' = IF buffer = <<>> THEN "select" ELSE "pushingForFlush"
  /\ UNCHANGED <<phase, buffer, emitted, fatal, historyVars, rows, lostAnswers, logFaults>>

BugTickEmpty ==
  /\ shipper = "select"
  /\ shipper' = "pushing"
  /\ UNCHANGED <<phase, channel, buffer, acked, emitted, fatal, historyVars>>
  /\ UNCHANGED <<rows, lostAnswers, logFaults>>

BugTickFull ==
  /\ shipper = "select"
  /\ BatchIsFull(Len(buffer))
  /\ shipper' = "pushing"
  /\ UNCHANGED <<phase, channel, buffer, acked, emitted, fatal, historyVars>>
  /\ UNCHANGED <<rows, lostAnswers, logFaults>>

Tick ==
  /\ shipper = "select"
  /\ buffer # <<>>
  /\ shipper' = "pushing"
  /\ UNCHANGED <<phase, channel, buffer, acked, emitted, fatal, historyVars>>
  /\ UNCHANGED <<rows, lostAnswers, logFaults>>

Pushing == shipper \in {"pushing", "pushingForFlush"}

(* The push is over: the buffer is what it leaves, a flush is answered.    *)
PushReturns(newBuffer) ==
  /\ Pushing
  /\ buffer' = newBuffer
  /\ shipper' = "select"
  /\ acked' = (acked \/ shipper = "pushingForFlush")

BugDropOldest(stored) ==
  /\ PushReturns(<<>>)
  /\ UNCHANGED dropped

DropOldest(stored) ==
  /\ PushReturns(Newest(buffer))
  /\ dropped' = dropped \cup (Entries(buffer) \ (Entries(Newest(buffer)) \cup stored))

BugPushStored ==
  /\ Accepts(buffer)
  /\ rows' = rows \o buffer
  /\ PushReturns(buffer)
  /\ UNCHANGED <<phase, channel, emitted, fatal, historyVars, lostAnswers, logFaults>>

PushStored ==
  /\ Accepts(buffer)
  /\ rows' = rows \o buffer
  /\ PushReturns(<<>>)
  /\ UNCHANGED <<phase, channel, emitted, fatal, historyVars, lostAnswers, logFaults>>

(* The server takes a request of this size or it does not: a larger one    *)
(* fails every time.                                                       *)
PushTooLarge ==
  /\ ~Accepts(buffer)
  /\ DropOldest({})
  /\ UNCHANGED <<phase, channel, emitted, fatal, lost, rows, lostAnswers, logFaults>>

PushFails ==
  /\ LogFault("unreachable")
  /\ DropOldest({})
  /\ UNCHANGED <<phase, channel, emitted, fatal, lost, rows, lostAnswers>>

(* Stored, but the agent sees a timeout or a broken connection.            *)
PushAnswerLost ==
  /\ Accepts(buffer)
  /\ LogFault("lostAnswer")
  /\ rows' = rows \o buffer
  /\ DropOldest(Entries(buffer))
  /\ lostAnswers' = lostAnswers + 1
  /\ UNCHANGED <<phase, channel, emitted, fatal, lost>>

(* The server answers 418: the client logs a warning, which is an event    *)
(* like any other, registers the device, and fails the push all the same.  *)
PushUnknown ==
  /\ emitted < MaxEntries
  /\ LogFault("unknown")
  /\ DropOldest({})
  /\ emitted' = emitted + 1
  /\ channel' = Append(channel, emitted + 1)
  /\ UNCHANGED <<phase, fatal, lost, rows, lostAnswers>>

-----------------------------------------------------------------------------

DeviceLogInit ==
  /\ phase = "starting"
  /\ channel = <<>>
  /\ shipper = "none"
  /\ buffer = <<>>
  /\ acked = FALSE
  /\ rows = <<>>
  /\ emitted = 0
  /\ dropped = {} /\ lost = {}
  /\ fatal = 0
  /\ lostAnswers = 0
  /\ logFaults = 0

Receive == ReceiveEntry \/ ReceiveFlush
PushEnds == PushStored \/ PushTooLarge

DeviceLogNext ==
  \/ Emit \/ Spawn \/ Run \/ Fail
  \/ FailEarly \/ ExitAfterFlush \/ EndOk \/ Crash \/ StartAgain
  \/ Receive \/ Tick
  \/ PushEnds \/ PushFails \/ PushAnswerLost \/ PushUnknown

(* The runtime polls what is ready: main's straight-line start and exit,   *)
(* and the end of a request, which has a timeout.  tokio's select! picks   *)
(* at random among its ready branches, so neither the channel nor the      *)
(* interval is passed over for ever.  No fairness on faults or on events.  *)
DeviceLogFairness ==
  /\ WF_deviceLogVars(Spawn)
  /\ WF_deviceLogVars(ExitAfterFlush)
  /\ SF_deviceLogVars(Receive)
  /\ SF_deviceLogVars(Tick)
  /\ WF_deviceLogVars(PushEnds)

DeviceLogSpec == DeviceLogInit /\ [][DeviceLogNext]_deviceLogVars
FairDeviceLogSpec == DeviceLogSpec /\ DeviceLogFairness

-----------------------------------------------------------------------------

DeviceLogTypeOK ==
  /\ phase \in Phase
  /\ channel \in Seq(Nat)
  /\ shipper \in {"none", "select", "pushing", "pushingForFlush"}
  /\ shipper # "none" <=> phase \in {"spawned", "running", "flushing"}
  /\ buffer \in Seq(Nat)
  /\ Pushing => buffer # <<>>
  /\ acked \in BOOLEAN
  /\ rows \in Seq(Nat)
  /\ emitted \in Nat
  /\ dropped \subseteq Nat /\ lost \subseteq Nat
  /\ fatal \in Nat
  /\ lostAnswers \in Nat
  /\ logFaults \in Nat

(* No event disappears in the agent: each is stored, or still on its way,  *)
(* or was discarded by the cap, or went with the process that logged it;   *)
(* and the cap discards the oldest: nothing older than a discarded entry   *)
(* is still on its way.  Nor does an outage let the buffer grow: the batch *)
(* size and the cap bound it together (logging.rs:135-140, 160-188).       *)
OnItsWay == Entries(channel) \cup Entries(buffer)
NothingIsLost ==
  /\ 1..emitted \subseteq Range(rows) \cup OnItsWay \cup dropped \cup lost
  /\ \A d \in dropped, e \in OnItsWay : d < e
  /\ WithinBounds(buffer)

(* The log the cloud has never shows an event without the ones before it,  *)
(* except those discarded by the cap or gone with a process.  It may show  *)
(* some twice (logging.rs:135-150, 160-169).                               *)
StoredInOrder ==
  \A i \in DOMAIN rows : \A e \in 1..(rows[i] - 1) :
    e \in dropped \cup lost \/ \E j \in 1..(i - 1) : rows[j] = e

(* "A flush request is guaranteed to be processed after every entry sent   *)
(* ahead of it": once main has its answer, no event up to the fatal error  *)
(* is still in the channel (logging.rs:21-24, 140-143).                    *)
FlushIsABarrier == acked => \A e \in Entries(channel) : e > fatal

(* An entry is stored twice only because the answer to an earlier push of  *)
(* it was lost (logging.rs:164-167).                                       *)
Copies(e) == Cardinality({i \in DOMAIN rows : rows[i] = e})
DuplicatesAreLostAnswers == \A e \in 1..emitted : Copies(e) <= 1 + lostAnswers

(* Every event is in the end stored, unless the cap discards it or its     *)
(* process ends, or an outage has let the buffer grow past what the server *)
(* takes in one request: the whole buffer is the next request, and it is   *)
(* refused from then on (logging.rs:126-158, 164).                         *)
EveryEntryIsSettled ==
  \A e \in 1..MaxEntries :
    emitted >= e ~> e \in Range(rows) \cup dropped \cup lost \/ ~Accepts(buffer)

(* "Maximum number of log lines sent in a single batch" (orchestrator/     *)
(* config.example.toml:37): with a maximum that the server takes, no push  *)
(* is too large for it, and what an outage has left in the buffer is       *)
(* shipped when the cloud is back.                                         *)
OutagesPass == MaxBatch <= MaxAccept => []<>(buffer = <<>>)

(* A fatal error never leaves the agent hanging in the flush it waits for, *)
(* whatever the cloud does (main.rs:74-80, logging.rs:44-49).              *)
FatalExitCompletes == phase = "flushing" ~> phase # "flushing"
=============================================================================
