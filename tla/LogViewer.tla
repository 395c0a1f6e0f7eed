------------------------------ MODULE LogViewer ------------------------------
(***************************************************************************)
(* The live tail of the logs: the broadcast channel of the API server      *)
(* (log_stream.rs, routes/logs.rs), one stream of server-sent events for   *)
(* each subscription, the task of the viewer that reads it, and the user   *)
(* interface that opens a new subscription with every change of a filter   *)
(* (log-tui).                                                              *)
(*                                                                         *)
(* An event is known by the position it was published at.                  *)
(***************************************************************************)
EXTENDS Integers, Sequences, FiniteSets

CONSTANTS
  Device,         \* devices that log
  Application,    \* applications that log
  Devices,        \* the devices the viewer lists: a sequence, fetched once
  LevelKeys,      \* the levels its keys select
  RingSize,       \* events the broadcast channel retains
  WireSize,       \* bound on the events under way to the viewer
  QueueSize,      \* capacity of the viewer's own channel
  MaxLogs,        \* --max-logs
  Viewport,       \* rows of the log pane
  MaxKeys,        \* bound on the keys pressed
  MaxBreaks       \* bound on the connections that fail

Unset == "unset"  \* a filter that is not set
NoLevel == 0 - 1  \* and no level either
None == "none"    \* the application of a device's own event
Level == 0..5     \* trace, debug, info, warn, error, fatal
LevelName == <<"trace", "debug", "info", "warn", "error", "fatal">>

Event == [kind : {"device"}, device : Device, application : {None}, level : Level]
  \cup   [kind : {"application"}, device : Device, application : Application, level : Level]
Filter == [kind : {Unset, "device", "application"}, device : Device \cup {Unset},
           application : Application \cup {Unset}, level : Level \cup {NoLevel}]

ASSUME LogViewerAssumption ==
  /\ Devices \in Seq(Device)
  /\ LevelKeys \subseteq Level
  /\ {RingSize, WireSize, QueueSize, MaxLogs, Viewport} \subseteq Nat \ {0}
  /\ {MaxKeys, MaxBreaks} \subseteq Nat

VARIABLES
  published,   \* the events sent to the broadcast channel
  tasks,       \* the subscriptions: tasks[e] is that of epoch e
  queue,       \* the channel from the stream tasks to the interface
  selected,    \* the device selected: a position in Devices, 0 for all
  minLevel,    \* the level selected
  shown,       \* the viewer's logs
  scroll,      \* rows scrolled up
  conn,        \* what the footer says of the connection
  seen,        \* history: the events received since the last subscription
  keys,        \* bounded counter: keys pressed
  breaks       \* bounded counter: connections that failed

screenVars == <<selected, minLevel, shown, scroll, conn, seen>>
viewerVars == <<published, tasks, queue, screenVars, keys, breaks>>

Epoch == Len(tasks)
MinOf(a, b) == IF a < b THEN a ELSE b
MaxOf(a, b) == IF a < b THEN b ELSE a

-----------------------------------------------------------------------------
(* The two ways the server selects events: the filter of the stream, and   *)
(* the query of the historic logs, whose column holds the name of a level. *)

Matches(event, filter) ==
  /\ filter.kind \in {Unset, event.kind}
  /\ filter.device \in {Unset, event.device}
  /\ filter.application \in {Unset, event.application}
  /\ filter.level = NoLevel \/ event.level >= filter.level

LevelsAtLeast(min) == {LevelName[l + 1] : l \in {k \in Level : k >= min}}

ListDeviceLogs(filter) ==
  {i \in DOMAIN published :
     /\ published[i].kind = "device"
     /\ filter.device \in {Unset, published[i].device}
     /\ filter.level = NoLevel \/ LevelName[published[i].level + 1] \in LevelsAtLeast(filter.level)}

ListApplicationLogs(filter) ==
  {i \in DOMAIN published :
     /\ published[i].kind = "application"
     /\ filter.device \in {Unset, published[i].device}
     /\ filter.application \in {Unset, published[i].application}
     /\ filter.level = NoLevel \/ LevelName[published[i].level + 1] \in LevelsAtLeast(filter.level)}

-----------------------------------------------------------------------------
(* The server's end of a subscription.                                     *)

Publish(events) == published' = published \o events

Oldest == MaxOf(1, Len(published) - RingSize + 1)

(* stream_logs subscribes before it answers: only what is published from   *)
(* now on will be sent.                                                    *)
Subscribe(e) ==
  /\ tasks[e].state = "connecting"
  /\ tasks' = [tasks EXCEPT ![e].state = "accepted", ![e].since = Len(published) + 1,
                            ![e].next = Len(published) + 1]
  /\ UNCHANGED <<published, queue, screenVars, keys, breaks>>

Send(e) ==
  /\ tasks[e].state \in {"accepted", "open"}
  /\ tasks[e].next \in Oldest..Len(published)
  /\ Len(tasks[e].wire) < WireSize
  /\ LET n == tasks[e].next IN
       tasks' = [tasks EXCEPT ![e].next = n + 1,
         ![e].wire = IF Matches(published[n], tasks[e].filter) THEN Append(@, n) ELSE @]
  /\ UNCHANGED <<published, queue, screenVars, keys, breaks>>

(* A receiver that lags behind the channel goes on with the oldest event   *)
(* retained; the error that says so is filtered out.                       *)
SkipLagged(e) ==
  /\ tasks[e].state \in {"accepted", "open"}
  /\ tasks[e].next < Oldest
  /\ tasks' = [tasks EXCEPT ![e].next = Oldest,
                            ![e].skipped = @ \cup (tasks[e].next..(Oldest - 1))]
  /\ UNCHANGED <<published, queue, screenVars, keys, breaks>>

-----------------------------------------------------------------------------
(* The stream task of an epoch.  It waits for room in the queue.           *)

Tell(e, kind, n) ==
  /\ Len(queue) < QueueSize
  /\ queue' = Append(queue, [epoch |-> e, kind |-> kind, n |-> n])

TaskConnected(e) ==
  /\ tasks[e].state = "accepted"
  /\ Tell(e, "connected", 0)
  /\ tasks' = [tasks EXCEPT ![e].state = "open"]
  /\ UNCHANGED <<published, screenVars, keys, breaks>>

BugTaskReads(e) ==
  /\ tasks[e].state = "open" /\ tasks[e].wire # <<>>
  /\ queue' = IF Len(queue) < QueueSize
                THEN Append(queue, [epoch |-> e, kind |-> "log", n |-> Head(tasks[e].wire)])
                ELSE queue
  /\ tasks' = [tasks EXCEPT ![e].wire = Tail(@)]
  /\ UNCHANGED <<published, screenVars, keys, breaks>>

TaskReads(e) ==
  /\ tasks[e].state = "open" /\ tasks[e].wire # <<>>
  /\ Tell(e, "log", Head(tasks[e].wire))
  /\ tasks' = [tasks EXCEPT ![e].wire = Tail(@)]
  /\ UNCHANGED <<published, screenVars, keys, breaks>>

Ended(task) == [task EXCEPT !.state = "ended", !.wire = <<>>]

(* The request is refused or the connection breaks, with what was on it.   *)
TaskFails(e) ==
  /\ tasks[e].state # "ended"
  /\ breaks < MaxBreaks
  /\ breaks' = breaks + 1
  /\ Tell(e, "disconnected", 0)
  /\ tasks' = [tasks EXCEPT ![e] = Ended(@)]
  /\ UNCHANGED <<published, screenVars, keys>>

(* The server ends the stream in good order.  The task ends with it and    *)
(* tells the interface nothing.                                            *)
StreamIsOver(e) ==
  /\ tasks[e].state = "open" /\ tasks[e].wire = <<>>
  /\ breaks < MaxBreaks
  /\ breaks' = breaks + 1
  /\ tasks' = [tasks EXCEPT ![e] = Ended(@)]
  /\ UNCHANGED <<published, queue, screenVars, keys>>

(* The abort of an older task takes effect, with the connection closed.    *)
TaskAborted(e) ==
  /\ e < Epoch /\ tasks[e].state # "ended"
  /\ tasks' = [tasks EXCEPT ![e] = Ended(@)]
  /\ UNCHANGED <<published, queue, screenVars, keys, breaks>>

-----------------------------------------------------------------------------
(* The interface.  Every step ends with a draw, which clamps the scroll.   *)

Clamped(rows, length) == MinOf(rows, MaxOf(0, length - Viewport))

BugForMe(msg) == TRUE
(* Messages of a torn-down stream are not for this epoch.                  *)
ForMe(msg) == msg.epoch = Epoch

PushLog(logs, n) ==
  LET all == Append(logs, n) IN IF Len(all) > MaxLogs THEN Tail(all) ELSE all

OnLog(n) ==
  /\ shown' = PushLog(shown, n)
  /\ seen' = seen \cup {n}
  /\ scroll' = Clamped(IF scroll > 0 THEN scroll + 1 ELSE 0, Len(shown'))

(* The loop drains the queue before it draws.  A key between two messages  *)
(* of a burst finds what it finds when the second comes after the drain,   *)
(* and the clamps of the messages add up to that of the burst.             *)
OnMsg ==
  /\ queue # <<>>
  /\ queue' = Tail(queue)
  /\ LET msg == Head(queue) IN
       \/ /\ ForMe(msg)
          /\ conn' = IF msg.kind = "disconnected" THEN "error" ELSE "live"
          /\ \/ msg.kind = "log" /\ OnLog(msg.n)
             \/ msg.kind # "log" /\ UNCHANGED <<shown, seen, scroll>>
       \/ ~ForMe(msg) /\ UNCHANGED <<shown, seen, scroll, conn>>
  /\ UNCHANGED <<published, tasks, selected, minLevel, keys, breaks>>

CurrentQuery(position, level) ==
  [kind |-> Unset, application |-> Unset, level |-> level,
   device |-> IF position = 0 THEN Unset ELSE Devices[position]]

NewTask(filter) ==
  [state |-> "connecting", filter |-> filter, since |-> 0, next |-> 0,
   wire |-> <<>>, skipped |-> {}]

(* The old task is told to abort, which takes its time; the logs stay.     *)
Reconnect(position, level) ==
  /\ <<position, level>> # <<selected, minLevel>>
  /\ keys < MaxKeys
  /\ keys' = keys + 1
  /\ selected' = position
  /\ minLevel' = level
  /\ tasks' = Append(tasks, NewTask(CurrentQuery(position, level)))
  /\ conn' = "reconnecting"
  /\ scroll' = 0
  /\ seen' = {}
  /\ UNCHANGED <<published, queue, shown, breaks>>

SetLevel(level) == Reconnect(selected, level)
SelectNext == selected < Len(Devices) /\ Reconnect(selected + 1, minLevel)
SelectPrev == selected > 0 /\ Reconnect(selected - 1, minLevel)
SelectAll == selected # 0 /\ Reconnect(0, minLevel)

ClearLogs ==
  /\ shown # <<>> /\ keys < MaxKeys
  /\ keys' = keys + 1
  /\ shown' = <<>>
  /\ scroll' = 0
  /\ UNCHANGED <<published, tasks, queue, selected, minLevel, conn, seen, breaks>>

ScrollStep == MaxOf(1, Viewport \div 2)

Scroll(rows) ==
  /\ rows # scroll /\ keys < MaxKeys
  /\ keys' = keys + 1
  /\ scroll' = rows
  /\ UNCHANGED <<published, tasks, queue, selected, minLevel, shown, conn, seen, breaks>>

ScrollUp == Scroll(Clamped(scroll + ScrollStep, Len(shown)))
ScrollDown == Scroll(MaxOf(0, scroll - ScrollStep))

-----------------------------------------------------------------------------

(* --device and --level choose what is followed first.                     *)
ViewerInit ==
  /\ published = <<>>
  /\ selected \in 0..Len(Devices)
  /\ minLevel \in LevelKeys \cup {NoLevel}
  /\ tasks = <<NewTask(CurrentQuery(selected, minLevel))>>
  /\ queue = <<>>
  /\ shown = <<>>
  /\ scroll = 0
  /\ conn = "reconnecting"
  /\ seen = {}
  /\ keys = 0 /\ breaks = 0

OnKey ==
  \/ \E level \in LevelKeys \cup {NoLevel} : SetLevel(level)
  \/ SelectNext \/ SelectPrev \/ SelectAll
  \/ ClearLogs \/ ScrollUp \/ ScrollDown

StreamTask(e) ==
  \/ Subscribe(e) \/ Send(e) \/ SkipLagged(e)
  \/ TaskConnected(e) \/ TaskReads(e)
  \/ TaskFails(e) \/ StreamIsOver(e) \/ TaskAborted(e)

ViewerNext == OnMsg \/ OnKey \/ \E e \in 1..Epoch : StreamTask(e)

-----------------------------------------------------------------------------

ViewerTypeOK ==
  /\ published \in Seq(Event)
  /\ tasks \in Seq([state : {"connecting", "accepted", "open", "ended"}, filter : Filter,
                    since : Nat, next : Nat, wire : Seq(DOMAIN published),
                    skipped : SUBSET DOMAIN published])
  /\ queue \in Seq([epoch : 1..Epoch, kind : {"connected", "log", "disconnected"},
                    n : 0..Len(published)])
  /\ selected \in 0..Len(Devices)
  /\ minLevel \in Level \cup {NoLevel}
  /\ shown \in Seq(DOMAIN published) /\ Len(shown) <= MaxLogs
  /\ scroll \in 0..MaxLogs
  /\ conn \in {"reconnecting", "live", "error"}
  /\ seen \subseteq DOMAIN published
  /\ keys \in Nat /\ breaks \in Nat

(* What reaches the screen after a filter was changed is what the historic *)
(* logs would list under the filter in force, although the stream of the   *)
(* old filter may still be delivering (app.rs:90-107, routes/logs.rs:      *)
(* 87-123).                                                                *)
ShownMatchesFilter ==
  LET filter == CurrentQuery(selected, minLevel) IN
  seen \subseteq ListDeviceLogs(filter) \cup ListApplicationLogs(filter)

(* The live tail has no gap and no repetition: the screen is in the order  *)
(* of publication, and between the first event of a subscription and the   *)
(* last one received, whatever matches was received, or was overwritten in *)
(* the channel before this subscriber was served (log_stream.rs:6-20,      *)
(* routes/logs.rs:126-144, client.rs:145-170).                             *)
LiveTailIsComplete ==
  /\ \A i, j \in DOMAIN shown : i < j => shown[i] < shown[j]
  /\ LET task == tasks[Epoch] IN
       \A n \in seen : \A m \in task.since..n :
         Matches(published[m], task.filter) => m \in seen \cup task.skipped
=============================================================================
