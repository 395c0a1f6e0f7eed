---------------------------- MODULE LogPathProofs ----------------------------
(***************************************************************************)
(* Proofs about the whole path of the logs: the promises of the agent's    *)
(* own log hold beside the applications and a viewer, no line of an        *)
(* application disappears, and the live tail shows what matches its        *)
(* filter, in order and without a gap.                                     *)
(***************************************************************************)
EXTENDS LogPath, DeviceLogProofs

-----------------------------------------------------------------------------
(* The agent's own log: a step of the path is one of the log or leaves it. *)

LEMMA StepOfTheDeviceLog == [PathNext]_pathVars => [DeviceLogNext]_deviceLogVars
<1> SUFFICES ASSUME [PathNext]_pathVars PROVE [DeviceLogNext]_deviceLogVars
  OBVIOUS
<1>1. CASE AgentLogs
  BY <1>1, Zenon DEF AgentLogs, DeviceLogNext, PushEnds
<1>2. CASE AgentEnds
  BY <1>2, Zenon DEF AgentEnds, DeviceLogNext
<1>3. CASE DeviceShips
  BY <1>3, Zenon DEF DeviceShips, DeviceLogNext, PushEnds
<1>4. CASE ApplicationLogs \/ ApplicationShips \/ UserWatches
  BY <1>4, Zenon DEF ApplicationLogs, ApplicationShips, UserWatches
<1>5. CASE UNCHANGED pathVars
  BY <1>5, Zenon DEF pathVars
<1>6. QED
  BY <1>1, <1>2, <1>3, <1>4, <1>5, Zenon DEF PathNext

LEMMA PathHasTheDeviceLog == PathSpec => DeviceLogSpec
<1>1. PathInit => DeviceLogInit
  BY DEF PathInit
<1>2. QED
  BY <1>1, StepOfTheDeviceLog, PTL DEF PathSpec, DeviceLogSpec

(* What is promised of the agent's own log holds in the agent as a whole,  *)
(* with its applications and a viewer beside it (logging.rs:126-188).      *)
THEOREM DeviceLogKeepsItsPromises ==
  PathSpec => [](NothingIsLost /\ StoredInOrder /\ FlushIsABarrier /\ DuplicatesAreLostAnswers)
BY PathHasTheDeviceLog, NoEntryDisappears, RowsStayInOrder, FlushWaitsForEntries,
   RepeatsAreLostAnswers, PTL

-----------------------------------------------------------------------------
(* Sequences over any set and what is in them.                             *)

LEMMA InSequence ==
  ASSUME NEW S, NEW s \in Seq(S)
  PROVE  /\ \A x : x \in Range(s) <=> \E i \in 1..Len(s) : s[i] = x
         /\ Range(s) \subseteq S
         /\ Len(s) \in Nat
<1>1. DOMAIN s = 1..Len(s) /\ Len(s) \in Nat /\ \A i \in 1..Len(s) : s[i] \in S
  BY LenProperties, ElementOfSeq
<1>2. QED
  BY <1>1 DEF Range

LEMMA InEmpty == Range(<<>>) = {} /\ Len(<<>>) = 0 /\ \A S : <<>> \in Seq(S)
<1>1. Len(<<>>) = 0 /\ \A S : <<>> \in Seq(S)
  BY EmptySeq
<1>2. Range(<<>>) = {}
  BY RangeOfEmpty
<1>3. QED
  BY <1>1, <1>2

LEMMA InAppended ==
  ASSUME NEW S, NEW s \in Seq(S), NEW e \in S
  PROVE  /\ Append(s, e) \in Seq(S)
         /\ Len(Append(s, e)) = Len(s) + 1
         /\ Append(s, e) # <<>>
         /\ Range(Append(s, e)) = Range(s) \cup {e}
<1>1. /\ Append(s, e) \in Seq(S)
      /\ Len(s) \in Nat
      /\ Len(Append(s, e)) = Len(s) + 1
      /\ \A i \in 1..Len(s) : Append(s, e)[i] = s[i]
      /\ Append(s, e)[Len(s) + 1] = e
  BY AppendProperties, LenProperties
<1>2. \A x : x \in Range(Append(s, e)) <=> x \in Range(s) \/ x = e
  <2> TAKE x
  <2>1. x \in Range(Append(s, e)) <=> \E i \in 1..(Len(s) + 1) : Append(s, e)[i] = x
    <3>1. x \in Range(Append(s, e)) <=> \E i \in 1..Len(Append(s, e)) : Append(s, e)[i] = x
      BY <1>1, InSequence
    <3>2. QED
      BY <1>1, <3>1
  <2>2. x \in Range(s) <=> \E i \in 1..Len(s) : s[i] = x
    BY InSequence
  <2>3. QED
    BY <1>1, <2>1, <2>2
<1>3. Append(s, e) # <<>>
  BY <1>1, EmptySeq
<1>4. QED
  BY <1>1, <1>2, <1>3

LEMMA InConcatenated ==
  ASSUME NEW S, NEW s \in Seq(S), NEW t \in Seq(S)
  PROVE  s \o t \in Seq(S) /\ Range(s \o t) = Range(s) \cup Range(t)
<1>1. /\ s \o t \in Seq(S)
      /\ Len(s) \in Nat /\ Len(t) \in Nat
      /\ Len(s \o t) = Len(s) + Len(t)
      /\ \A i \in 1..(Len(s) + Len(t)) :
           (s \o t)[i] = IF i <= Len(s) THEN s[i] ELSE t[i - Len(s)]
  BY ConcatProperties, LenProperties
<1>2. \A i \in 1..Len(t) : Len(s) + i \in 1..(Len(s) + Len(t)) /\ (s \o t)[Len(s) + i] = t[i]
  BY <1>1
<1>3. \A i \in 1..(Len(s) + Len(t)) :
        \/ i \in 1..Len(s) /\ (s \o t)[i] = s[i]
        \/ i - Len(s) \in 1..Len(t) /\ (s \o t)[i] = t[i - Len(s)]
  BY <1>1
<1>4. \A i \in 1..Len(s) : i \in 1..(Len(s) + Len(t)) /\ (s \o t)[i] = s[i]
  BY <1>1
<1>5. \A x : x \in Range(s \o t) <=> x \in Range(s) \/ x \in Range(t)
  <2> TAKE x
  <2>1. /\ x \in Range(s \o t) <=> \E i \in 1..(Len(s) + Len(t)) : (s \o t)[i] = x
        /\ x \in Range(s) <=> \E i \in 1..Len(s) : s[i] = x
        /\ x \in Range(t) <=> \E i \in 1..Len(t) : t[i] = x
    BY <1>1, InSequence
  <2>2. QED
    BY <1>2, <1>3, <1>4, <2>1
<1>6. QED
  BY <1>1, <1>5

(* What a failed push leaves of a buffer was in it, and within the cap.    *)
LEMMA InNewest ==
  ASSUME NEW S, NEW s \in Seq(S)
  PROVE  /\ Newest(s) \in Seq(S)
         /\ Range(Newest(s)) \subseteq Range(s)
         /\ Len(Newest(s)) <= MaxBuffer
<1>1. Len(s) \in Nat /\ \A i \in 1..Len(s) : s[i] \in S
  BY LenProperties, ElementOfSeq
<1>2. CASE Len(s) <= MaxBuffer
  <2>1. Newest(s) = s
    BY <1>1, <1>2, SizesTyped DEF Newest
  <2>2. QED
    BY <1>2, <2>1
<1>3. CASE Len(s) > MaxBuffer
  <2> DEFINE k == Len(s) - MaxBuffer
             t == SubSeq(s, k + 1, Len(s))
  <2>1. k \in Nat /\ Len(s) - (k + 1) + 1 = MaxBuffer /\ k + MaxBuffer = Len(s)
    BY <1>1, <1>3, SizesTyped
  <2>2. Newest(s) = t
    BY <1>1, <1>3, SizesTyped DEF Newest
  <2>3. /\ t \in Seq(S)
        /\ Len(t) = IF k + 1 <= Len(s) THEN Len(s) - (k + 1) + 1 ELSE 0
        /\ \A i \in 1..(Len(s) - (k + 1) + 1) : t[i] = s[(k + 1) + i - 1]
    <3>1. k + 1 \in Int /\ Len(s) \in Int /\ \A i \in (k + 1)..Len(s) : s[i] \in S
      BY <1>1, <1>3, <2>1, SizesTyped
    <3> HIDE DEF k
    <3>2. QED
      BY <3>1, SubSeqProperties
  <2> HIDE DEF k, t
  <2>4. Len(t) = MaxBuffer
    BY <1>1, <1>3, <2>1, <2>3, SizesTyped
  <2>5. \A i \in 1..MaxBuffer : (k + 1) + i - 1 \in 1..Len(s) /\ t[i] = s[(k + 1) + i - 1]
    BY <1>1, <2>1, <2>3, SizesTyped
  <2>6. Range(t) \subseteq Range(s)
    <3>1. \A x : x \in Range(t) <=> \E i \in 1..Len(t) : t[i] = x
      BY <2>3, InSequence
    <3>2. \A x : x \in Range(s) <=> \E i \in 1..Len(s) : s[i] = x
      BY InSequence
    <3>3. QED
      BY <2>4, <2>5, <3>1, <3>2
  <2>7. QED
    BY <2>2, <2>3, <2>4, <2>6, SizesTyped
<1>4. QED
  BY <1>1, <1>2, <1>3, SizesTyped

-----------------------------------------------------------------------------
(* The lines of the applications.  Outside a push a buffer has room for    *)
(* one more line; a tick goes on only to buffers that hold something, and  *)
(* never to the one it has just pushed.                                    *)

HasRoomFor(s) == Len(s) < MaxBatch \/ Len(s) <= MaxBuffer

AppBuffersAreSound ==
  /\ \A a \in App : registry = Select \/ registry.app # a => HasRoomFor(buffers[a])
  /\ registry # Select =>
       registry.app \notin registry.rest /\ \A b \in registry.rest : buffers[b] # <<>>

AppLogInv == AppLogTypeOK /\ NoLineIsLost /\ AppBuffersAreSound

LEMMA RoomIsWithinBounds ==
  ASSUME NEW s \in Seq(Line), HasRoomFor(s)
  PROVE  WithinBounds(s)
<1>1. Len(s) \in Nat
  BY LenProperties
<1>2. QED
  BY <1>1, SizesTyped DEF HasRoomFor, WithinBounds

LEMMA PushIsNotSelect ==
  ASSUME NEW why \in {"batch", "remove", "tick"}, NEW a \in App, NEW rest \in SUBSET App
  PROVE  /\ Push(why, a, rest) # Select
         /\ Push(why, a, rest) \in Pushes
         /\ Push(why, a, rest).app = a /\ Push(why, a, rest).rest = rest
<1>1. Push(why, a, rest) \in Pushes
  BY DEF Push, Pushes
<1>2. Push(why, a, rest).at = why /\ Push(why, a, rest).app = a /\ Push(why, a, rest).rest = rest
  BY DEF Push
<1>3. Select.at = "select"
  BY DEF Select
<1>4. why # "select"
  OBVIOUS
<1>5. QED
  BY <1>1, <1>2, <1>3, <1>4

LEMMA InitAppLogInv == AppLogInit => AppLogInv
<1> SUFFICES ASSUME AppLogInit PROVE AppLogInv
  OBVIOUS
<1>1. \A a \in App : buffers[a] = <<>>
  BY DEF AppLogInit
<1>2. <<>> \in Seq(Line) /\ <<>> \in Seq([op : {"add", "remove"}, app : App, from : Nat])
  BY InEmpty
<1>3. AppLogTypeOK
  BY <1>2 DEF AppLogInit, AppLogTypeOK
<1>4. HasRoomFor(<<>>) /\ WithinBounds(<<>>)
  BY InEmpty, SizesTyped DEF HasRoomFor, WithinBounds
<1>5. NoLineIsLost
  BY <1>1, <1>4, InEmpty DEF AppLogInit, NoLineIsLost
<1>6. AppBuffersAreSound
  BY <1>1, <1>4 DEF AppLogInit, AppBuffersAreSound
<1>7. QED
  BY <1>3, <1>5, <1>6 DEF AppLogInv

(* A step that moves no line and leaves the registry where it is.          *)
LEMMA LinesStay ==
  ASSUME AppLogInv, UNCHANGED <<buffers, registry, appRows, appHistoryVars>>, AppLogTypeOK'
  PROVE  AppLogInv'
<1>1. UNCHANGED <<buffers, registry, appRows, taken, cut, forsaken>>
  BY DEF appHistoryVars
<1>2. NoLineIsLost'
  BY <1>1 DEF AppLogInv, NoLineIsLost, Buffered, WithinBounds
<1>3. AppBuffersAreSound'
  BY <1>1 DEF AppLogInv, AppBuffersAreSound, HasRoomFor
<1>4. QED
  BY <1>2, <1>3 DEF AppLogInv

LEMMA ContainersInv ==
  ASSUME AppLogInv, NEW a \in App, Write(a) \/ Register(a) \/ Unregister(a) \/ StreamFails(a) \/ StreamEnds(a)
  PROVE  AppLogInv'
<1> DEFINE C == [op : {"add", "remove"}, app : App, from : Nat]
<1>1. AppLogTypeOK
  BY DEF AppLogInv
<1>2. CASE Write(a)
  <2>1. UNCHANGED <<followed, given, commands, streams, buffers, registry, taken, cut, forsaken,
                    appRows, appLogFaults>>
    BY <1>2 DEF Write, registryVars, appHistoryVars
  <2>2. written' \in [App -> Nat]
    BY <1>1, <1>2 DEF Write, AppLogTypeOK
  <2>3. AppLogTypeOK'
    BY <1>1, <2>1, <2>2 DEF AppLogTypeOK
  <2>4. QED
    BY <2>1, <2>3, LinesStay DEF appHistoryVars
<1>3. CASE Register(a)
  <2>1. UNCHANGED <<written, streams, buffers, registry, taken, cut, forsaken, appRows, appLogFaults>>
        /\ given' = given + 1
    BY <1>3 DEF Register, appHistoryVars
  <2>2. PICK from \in IF followed[a] = 0 THEN {1} ELSE followed[a]..(written[a] + 1) :
          /\ followed' = [followed EXCEPT ![a] = from]
          /\ commands' = Append(commands, [op |-> "add", app |-> a, from |-> from])
    BY <1>3 DEF Register
  <2>3. from \in Nat
    BY <1>1, <2>2 DEF AppLogTypeOK
  <2>4. [op |-> "add", app |-> a, from |-> from] \in C
    BY <2>3
  <2>5. commands' \in Seq(C)
    BY <1>1, <2>2, <2>4, AppendProperties DEF AppLogTypeOK
  <2>6. followed' \in [App -> Nat] /\ given' \in Nat
    BY <1>1, <2>1, <2>2, <2>3 DEF AppLogTypeOK
  <2>7. AppLogTypeOK'
    BY <1>1, <2>1, <2>5, <2>6 DEF AppLogTypeOK
  <2>8. QED
    BY <2>1, <2>7, LinesStay DEF appHistoryVars
<1>4. CASE Unregister(a)
  <2>1. UNCHANGED <<written, followed, streams, buffers, registry, taken, cut, forsaken, appRows,
                    appLogFaults>> /\ given' = given + 1
        /\ commands' = Append(commands, [op |-> "remove", app |-> a, from |-> 0])
    BY <1>4 DEF Unregister, appHistoryVars
  <2>2. [op |-> "remove", app |-> a, from |-> 0] \in C
    OBVIOUS
  <2>3. commands' \in Seq(C)
    BY <1>1, <2>1, <2>2, AppendProperties DEF AppLogTypeOK
  <2>4. given' \in Nat
    BY <1>1, <2>1 DEF AppLogTypeOK
  <2>5. AppLogTypeOK'
    BY <1>1, <2>1, <2>3, <2>4 DEF AppLogTypeOK
  <2>6. QED
    BY <2>1, <2>5, LinesStay DEF appHistoryVars
<1>5. CASE StreamFails(a) \/ StreamEnds(a)
  <2>1. UNCHANGED <<written, followed, given, commands, buffers, registry, taken, cut, forsaken, appRows>>
        /\ streams' = [streams EXCEPT ![a] = 0] /\ appLogFaults' \in {appLogFaults, appLogFaults + 1}
    BY <1>5 DEF StreamFails, StreamEnds, AppLogFault, containerVars, appHistoryVars
  <2>2. streams' \in [App -> Nat] /\ appLogFaults' \in Nat
    BY <1>1, <2>1 DEF AppLogTypeOK
  <2>3. AppLogTypeOK'
    BY <1>1, <2>1, <2>2 DEF AppLogTypeOK
  <2>4. QED
    BY <2>1, <2>3, LinesStay DEF appHistoryVars
<1>6. QED
  BY <1>2, <1>3, <1>4, <1>5

LEMMA HeadOfCommands ==
  ASSUME AppLogTypeOK, commands # <<>>
  PROVE  /\ Head(commands).app \in App /\ Head(commands).from \in Nat
         /\ Tail(commands) \in Seq([op : {"add", "remove"}, app : App, from : Nat])
<1> DEFINE C == [op : {"add", "remove"}, app : App, from : Nat]
<1>1. commands \in Seq(C)
  BY DEF AppLogTypeOK
<1>2. Head(commands) \in C /\ Tail(commands) \in Seq(C)
  BY <1>1, HeadTailProperties
<1>3. QED
  BY <1>2

LEMMA HandleAddInv == ASSUME AppLogInv, HandleAdd PROVE AppLogInv'
<1>1. AppLogTypeOK
  BY DEF AppLogInv
<1>2. UNCHANGED <<written, followed, given, buffers, registry, taken, cut, forsaken, appRows,
                  appLogFaults>>
      /\ commands # <<>> /\ commands' = Tail(commands)
      /\ streams' = [streams EXCEPT ![Head(commands).app] = Head(commands).from]
  BY DEF HandleAdd, containerVars, appHistoryVars
<1>3. commands' \in Seq([op : {"add", "remove"}, app : App, from : Nat])
  BY <1>1, <1>2, HeadOfCommands
<1>4. streams' \in [App -> Nat]
  <2>1. Head(commands).app \in App /\ Head(commands).from \in Nat /\ streams \in [App -> Nat]
    BY <1>1, <1>2, HeadOfCommands DEF AppLogTypeOK
  <2>2. QED
    BY <1>2, <2>1
<1>5. AppLogTypeOK'
  BY <1>1, <1>2, <1>3, <1>4 DEF AppLogTypeOK
<1>6. QED
  BY <1>2, <1>5, LinesStay DEF appHistoryVars

(* The registry begins to push a buffer, or has nothing to push.           *)
LEMMA PushBegins ==
  ASSUME AppLogInv, registry = Select, UNCHANGED <<buffers, appRows, taken, cut, forsaken>>,
         /\ written' \in [App -> Nat] /\ followed' \in [App -> Nat]
         /\ commands' \in Seq([op : {"add", "remove"}, app : App, from : Nat])
         /\ streams' \in [App -> Nat] /\ given' \in Nat /\ appLogFaults' \in Nat,
         \/ registry' = Select
         \/ \E why \in {"batch", "remove", "tick"}, a \in App, rest \in SUBSET App :
              /\ registry' = Push(why, a, rest)
              /\ a \notin rest /\ buffers[a] # <<>> /\ \A b \in rest : buffers[b] # <<>>
  PROVE  AppLogInv'
<1>1. \/ registry' = Select
      \/ /\ registry' \in Pushes /\ buffers[registry'.app] # <<>>
         /\ registry'.app \notin registry'.rest /\ \A b \in registry'.rest : buffers[b] # <<>>
  <2> SUFFICES ASSUME NEW why \in {"batch", "remove", "tick"}, NEW a \in App, NEW rest \in SUBSET App,
                      registry' = Push(why, a, rest),
                      a \notin rest, buffers[a] # <<>>, \A b \in rest : buffers[b] # <<>>
               PROVE  /\ registry' \in Pushes /\ buffers[registry'.app] # <<>>
                      /\ registry'.app \notin registry'.rest
                      /\ \A b \in registry'.rest : buffers[b] # <<>>
    BY Zenon
  <2>1. registry' \in Pushes /\ registry'.app = a /\ registry'.rest = rest
    BY PushIsNotSelect
  <2>2. QED
    BY <2>1
<1>2. AppLogTypeOK'
  BY <1>1 DEF AppLogInv, AppLogTypeOK
<1>3. NoLineIsLost'
  BY DEF AppLogInv, NoLineIsLost, Buffered, WithinBounds
<1>4. \A a \in App : HasRoomFor(buffers[a])
  BY DEF AppLogInv, AppBuffersAreSound
<1>5. AppBuffersAreSound'
  BY <1>1, <1>4 DEF AppBuffersAreSound, HasRoomFor
<1>6. QED
  BY <1>2, <1>3, <1>5 DEF AppLogInv

LEMMA HandleRemoveInv == ASSUME AppLogInv, HandleRemove PROVE AppLogInv'
<1>1. AppLogTypeOK
  BY DEF AppLogInv
<1>2. PICK a : a = Head(commands).app
  OBVIOUS
<1>3. UNCHANGED <<written, followed, given, buffers, taken, cut, forsaken, appRows, appLogFaults>>
      /\ registry = Select /\ commands # <<>> /\ commands' = Tail(commands)
      /\ streams' = [streams EXCEPT ![a] = 0]
      /\ registry' = IF buffers[a] = <<>> THEN Select ELSE Push("remove", a, {})
  BY <1>2 DEF HandleRemove, containerVars, appHistoryVars
<1>4. a \in App /\ commands' \in Seq([op : {"add", "remove"}, app : App, from : Nat])
  BY <1>1, <1>2, <1>3, HeadOfCommands
<1>5. streams' \in [App -> Nat]
  BY <1>1, <1>3, <1>4 DEF AppLogTypeOK
<1>6. written' \in [App -> Nat] /\ followed' \in [App -> Nat] /\ given' \in Nat /\ appLogFaults' \in Nat
  BY <1>1, <1>3 DEF AppLogTypeOK
<1>7. \/ registry' = Select
      \/ /\ registry' = Push("remove", a, {}) /\ a \notin {} /\ {} \in SUBSET App
         /\ buffers[a] # <<>> /\ \A b \in {} : buffers[b] # <<>>
  BY <1>3
<1>8. QED
  BY <1>3, <1>4, <1>5, <1>6, <1>7, PushBegins

LEMMA AppTickInv == ASSUME AppLogInv, AppTick PROVE AppLogInv'
<1>1. AppLogTypeOK
  BY DEF AppLogInv
<1>2. UNCHANGED <<commands, streams, written, followed, given, buffers, taken, cut, forsaken, appRows,
                  appLogFaults>> /\ registry = Select
  BY DEF AppTick, containerVars, appHistoryVars
<1>3. PICK a \in {b \in App : buffers[b] # <<>>} :
        registry' = Push("tick", a, {b \in App : buffers[b] # <<>>} \ {a})
  BY DEF AppTick
<1>4. PICK rest : rest = {b \in App : buffers[b] # <<>>} \ {a}
  OBVIOUS
<1>5. /\ registry' = Push("tick", a, rest)
      /\ a \in App /\ a \notin rest /\ rest \in SUBSET App
      /\ buffers[a] # <<>> /\ \A b \in rest : buffers[b] # <<>>
  BY <1>3, <1>4
<1>6. /\ written' \in [App -> Nat] /\ followed' \in [App -> Nat] /\ given' \in Nat
      /\ appLogFaults' \in Nat /\ streams' \in [App -> Nat]
      /\ commands' \in Seq([op : {"add", "remove"}, app : App, from : Nat])
  BY <1>1, <1>2 DEF AppLogTypeOK
<1>7. QED
  BY <1>2, <1>5, <1>6, PushBegins

LEMMA ReadLineInv == ASSUME AppLogInv, NEW a \in App, ReadLine(a) PROVE AppLogInv'
<1>1. AppLogTypeOK
  BY DEF AppLogInv
<1>2. PICK l : l = <<a, streams[a]>>
  OBVIOUS
<1>3. PICK s : s = Append(buffers[a], l)
  OBVIOUS
<1>4. /\ UNCHANGED <<commands, written, followed, given, cut, forsaken, appRows, appLogFaults>>
      /\ registry = Select /\ streams[a] \in 1..written[a]
      /\ streams' = [streams EXCEPT ![a] = @ + 1]
      /\ buffers' = [buffers EXCEPT ![a] = s]
      /\ taken' = taken \cup {l}
      /\ registry' = IF BatchIsFull(Len(buffers[a]) + 1) THEN Push("batch", a, {}) ELSE Select
  BY <1>2, <1>3 DEF ReadLine, containerVars
<1>5. streams \in [App -> Nat] /\ written \in [App -> Nat] /\ buffers \in [App -> Seq(Line)]
  BY <1>1 DEF AppLogTypeOK
<1>6. l \in Line /\ l \in {a} \X Nat
  BY <1>2, <1>4, <1>5 DEF Line
<1>7. /\ buffers[a] \in Seq(Line) /\ Len(buffers[a]) \in Nat
      /\ s \in Seq(Line) /\ Len(s) = Len(buffers[a]) + 1 /\ s # <<>>
      /\ Range(s) = Range(buffers[a]) \cup {l}
  <2>1. buffers[a] \in Seq(Line)
    BY <1>5
  <2>2. Len(buffers[a]) \in Nat
    BY <2>1, LenProperties
  <2>3. /\ Append(buffers[a], l) \in Seq(Line)
        /\ Len(Append(buffers[a], l)) = Len(buffers[a]) + 1
        /\ Append(buffers[a], l) # <<>>
        /\ Range(Append(buffers[a], l)) = Range(buffers[a]) \cup {l}
    BY <1>6, <2>1, InAppended
  <2>4. QED
    BY <1>3, <2>1, <2>2, <2>3, Zenon
<1>8. buffers' \in [App -> Seq(Line)] /\ buffers'[a] = s /\ \A b \in App \ {a} : buffers'[b] = buffers[b]
  BY <1>4, <1>5, <1>7
<1>9. HasRoomFor(buffers[a])
  BY <1>4 DEF AppLogInv, AppBuffersAreSound
<1>10. WithinBounds(s)
  BY <1>7, <1>9, SizesTyped DEF HasRoomFor, WithinBounds
<1>11. \/ registry' = Select /\ HasRoomFor(s)
       \/ /\ registry' # Select /\ registry' \in Pushes
          /\ registry'.app = a /\ registry'.rest = {}
  BY <1>4, <1>7, PushIsNotSelect, SizesTyped DEF BatchIsFull, HasRoomFor
<1>12. AppLogTypeOK'
  <2>1. streams' \in [App -> Nat]
    BY <1>4, <1>5
  <2>2. taken' \subseteq Line
    BY <1>1, <1>4, <1>6 DEF AppLogTypeOK
  <2>3. registry' # Select => buffers'[registry'.app] # <<>>
    BY <1>7, <1>8, <1>11
  <2>4. QED
    BY <1>1, <1>4, <1>8, <1>11, <2>1, <2>2, <2>3 DEF AppLogTypeOK
<1>13. NoLineIsLost'
  <2>1. Buffered' = Buffered \cup {l}
    BY <1>7, <1>8 DEF Buffered
  <2>2. taken' \subseteq Range(appRows)' \cup Buffered' \cup cut' \cup forsaken'
    BY <1>4, <2>1 DEF AppLogInv, NoLineIsLost
  <2>3. \A b \in App : Range(buffers'[b]) \subseteq {b} \X Nat
    BY <1>6, <1>7, <1>8 DEF AppLogInv, NoLineIsLost
  <2>4. \A b \in App : WithinBounds(buffers'[b])
    BY <1>8, <1>10 DEF AppLogInv, NoLineIsLost
  <2>5. QED
    BY <2>2, <2>3, <2>4 DEF NoLineIsLost
<1>14. AppBuffersAreSound'
  <2>1. \A b \in App \ {a} : HasRoomFor(buffers'[b])
    BY <1>4, <1>8 DEF AppLogInv, AppBuffersAreSound
  <2>2. QED
    BY <1>8, <1>11, <2>1 DEF AppBuffersAreSound
<1>15. QED
  BY <1>12, <1>13, <1>14 DEF AppLogInv

(* What the push leaves was in the buffer and within the cap; the rest of  *)
(* the buffer was stored or counts as cut.                                 *)
LEMMA AppPushReturnsInv ==
  ASSUME AppLogInv, NEW left \in Seq(Line), NEW stored, AppPushReturns(left, stored),
         Range(left) \subseteq Range(buffers[registry.app]), Len(left) <= MaxBuffer,
         UNCHANGED <<commands, streams, written, followed, given, taken>>,
         appLogFaults' \in Nat, appRows' \in Seq(Line),
         Range(appRows) \subseteq Range(appRows'), stored \subseteq Range(appRows')
  PROVE  AppLogInv'
<1>1. AppLogTypeOK
  BY DEF AppLogInv
<1>2. registry # Select /\ registry \in Pushes
  BY <1>1 DEF AppPushReturns, AppLogTypeOK
<1>3. PICK a, rest : a = registry.app /\ rest = registry.rest
  OBVIOUS
<1>4. a \in App /\ rest \in SUBSET App /\ a \notin rest /\ \A b \in rest : buffers[b] # <<>>
  BY <1>2, <1>3 DEF Pushes, AppLogInv, AppBuffersAreSound
<1>5. PICK s : s = IF registry.at = "remove" THEN <<>> ELSE left
  OBVIOUS
<1>6. /\ buffers' = [buffers EXCEPT ![a] = s]
      /\ forsaken' = IF registry.at = "remove" THEN forsaken \cup Range(left) ELSE forsaken
      /\ cut' = cut \cup (Range(buffers[a]) \ (Range(left) \cup stored))
      /\ \/ registry' = Select
         \/ \E b \in rest : registry' = Push("tick", b, rest \ {b})
  BY <1>3, <1>5 DEF AppPushReturns
<1>7. /\ s \in Seq(Line) /\ Range(s) \subseteq Range(buffers[a]) /\ Len(s) <= MaxBuffer
      /\ s = <<>> \/ s = left
  BY <1>3, <1>5, InEmpty, SizesTyped
<1>8. buffers \in [App -> Seq(Line)]
  BY <1>1 DEF AppLogTypeOK
<1>9. buffers' \in [App -> Seq(Line)] /\ buffers'[a] = s /\ \A b \in App \ {a} : buffers'[b] = buffers[b]
  BY <1>4, <1>6, <1>7, <1>8
<1>10. \A b \in App : HasRoomFor(buffers'[b])
  BY <1>2, <1>3, <1>7, <1>9 DEF HasRoomFor, AppLogInv, AppBuffersAreSound
<1>11. \/ registry' = Select
       \/ /\ registry' \in Pushes /\ buffers'[registry'.app] # <<>>
          /\ registry'.app \notin registry'.rest /\ \A b \in registry'.rest : buffers'[b] # <<>>
  <2> SUFFICES ASSUME NEW b \in rest, registry' = Push("tick", b, rest \ {b})
               PROVE  /\ registry' \in Pushes /\ buffers'[registry'.app] # <<>>
                      /\ registry'.app \notin registry'.rest
                      /\ \A c \in registry'.rest : buffers'[c] # <<>>
    BY <1>6, Zenon
  <2>1. PICK others : others = rest \ {b}
    OBVIOUS
  <2>2. others \in SUBSET App /\ b \in App
    BY <1>4, <2>1
  <2>3. registry' \in Pushes /\ registry'.app = b /\ registry'.rest = others
    BY <2>1, <2>2, PushIsNotSelect
  <2>4. b # a /\ a \notin others /\ b \notin others
    BY <1>4, <2>1
  <2>5. QED
    BY <1>4, <1>9, <2>1, <2>2, <2>3, <2>4
<1>12. Range(buffers[a]) \subseteq Line /\ Range(left) \subseteq Line
  BY <1>4, <1>8, InSequence
<1>13. AppLogTypeOK'
  <2>1. cut' \subseteq Line /\ forsaken' \subseteq Line
    BY <1>1, <1>6, <1>12 DEF AppLogTypeOK
  <2>2. registry' \in {Select} \cup Pushes /\ (registry' # Select => buffers'[registry'.app] # <<>>)
    BY <1>11
  <2>3. QED
    BY <1>1, <1>9, <2>1, <2>2 DEF AppLogTypeOK
<1>14. NoLineIsLost'
  <2>1. Buffered \subseteq Buffered' \cup Range(buffers[a])
    BY <1>4, <1>9 DEF Buffered
  <2>2. Range(s) \subseteq Buffered'
    BY <1>4, <1>9 DEF Buffered
  <2>3. Range(left) \subseteq Buffered' \cup forsaken'
    BY <1>5, <1>6, <2>2
  <2>4. Range(buffers[a]) \subseteq Range(appRows') \cup Buffered' \cup cut' \cup forsaken'
    BY <1>6, <2>3
  <2>5. cut \subseteq cut' /\ forsaken \subseteq forsaken'
    BY <1>6
  <2>6. taken' \subseteq Range(appRows') \cup Buffered' \cup cut' \cup forsaken'
    BY <2>1, <2>4, <2>5 DEF AppLogInv, NoLineIsLost
  <2>7. \A b \in App : Range(buffers'[b]) \subseteq {b} \X Nat
    BY <1>4, <1>7, <1>9 DEF AppLogInv, NoLineIsLost
  <2>8. \A b \in App : WithinBounds(buffers'[b])
    BY <1>9, <1>10, RoomIsWithinBounds
  <2>9. QED
    BY <2>6, <2>7, <2>8 DEF NoLineIsLost
<1>15. AppBuffersAreSound'
  BY <1>10, <1>11 DEF AppBuffersAreSound
<1>16. QED
  BY <1>13, <1>14, <1>15 DEF AppLogInv

LEMMA AppPushInv ==
  ASSUME AppLogInv, AppPushEnds \/ AppPushFails \/ AppPushAnswerLost
  PROVE  AppLogInv'
<1>1. AppLogTypeOK /\ registry # Select
  BY DEF AppLogInv, AppPushEnds, AppPushStored, AppPushTooLarge, AppPushFails, AppPushAnswerLost
<1>2. PICK s : s = buffers[registry.app]
  OBVIOUS
<1>3. s \in Seq(Line) /\ appRows \in Seq(Line) /\ appLogFaults \in Nat
  BY <1>1, <1>2 DEF AppLogTypeOK, Pushes
<1>4. /\ Newest(s) \in Seq(Line) /\ Range(Newest(s)) \subseteq Range(s) /\ Len(Newest(s)) <= MaxBuffer
  BY <1>3, InNewest
<1>5. /\ appRows \o s \in Seq(Line) /\ Range(appRows \o s) = Range(appRows) \cup Range(s)
  BY <1>3, InConcatenated
<1>6. <<>> \in Seq(Line) /\ Range(<<>>) \subseteq Range(s) /\ Len(<<>>) <= MaxBuffer
  BY InEmpty, SizesTyped
<1>7. CASE AppPushStored
  <2>1. /\ UNCHANGED <<commands, streams, written, followed, given, taken, appLogFaults>>
        /\ appRows' = appRows \o s /\ AppPushReturns(<<>>, Range(s))
    BY <1>2, <1>7 DEF AppPushStored, containerVars
  <2>2. /\ appRows' \in Seq(Line) /\ Range(appRows) \subseteq Range(appRows')
        /\ Range(s) \subseteq Range(appRows') /\ appLogFaults' \in Nat
    BY <1>3, <1>5, <2>1
  <2>3. QED
    BY <1>2, <1>6, <2>1, <2>2, AppPushReturnsInv
<1>8. CASE AppPushTooLarge \/ AppPushFails
  <2>1. /\ UNCHANGED <<commands, streams, written, followed, given, taken, appRows>>
        /\ appLogFaults' \in {appLogFaults, appLogFaults + 1} /\ AppPushReturns(Newest(s), {})
    BY <1>2, <1>8 DEF AppPushTooLarge, AppPushFails, AppLogFault, containerVars
  <2>2. appRows' \in Seq(Line) /\ appRows' = appRows /\ appLogFaults' \in Nat
    BY <1>3, <2>1
  <2>3. Range(appRows) \subseteq Range(appRows') /\ {} \subseteq Range(appRows')
    BY <2>2
  <2>4. QED
    BY <1>2, <1>4, <2>1, <2>2, <2>3, AppPushReturnsInv
<1>9. CASE AppPushAnswerLost
  <2>1. /\ UNCHANGED <<commands, streams, written, followed, given, taken>>
        /\ appLogFaults' = appLogFaults + 1
        /\ appRows' = appRows \o s /\ AppPushReturns(Newest(s), Range(s))
    BY <1>2, <1>9 DEF AppPushAnswerLost, AppLogFault, containerVars
  <2>2. /\ appRows' \in Seq(Line) /\ Range(appRows) \subseteq Range(appRows')
        /\ Range(s) \subseteq Range(appRows') /\ appLogFaults' \in Nat
    BY <1>3, <1>5, <2>1
  <2>3. QED
    BY <1>2, <1>4, <2>1, <2>2, AppPushReturnsInv
<1>10. QED
  BY <1>7, <1>8, <1>9 DEF AppPushEnds

LEMMA AgentGoneInv == ASSUME AppLogInv, AgentGone PROVE AppLogInv'
<1>1. AppLogTypeOK
  BY DEF AppLogInv
<1>2. \A a \in App : buffers'[a] = <<>>
  BY DEF AgentGone
<1>3. HasRoomFor(<<>>) /\ WithinBounds(<<>>)
  BY InEmpty, SizesTyped DEF HasRoomFor, WithinBounds
<1>4. AppLogTypeOK'
  <2>1. Buffered \subseteq Line
    BY <1>1, InSequence DEF Buffered, AppLogTypeOK
  <2>2. <<>> \in Seq(Line) /\ <<>> \in Seq([op : {"add", "remove"}, app : App, from : Nat])
    BY InEmpty
  <2>3. /\ buffers' \in [App -> Seq(Line)] /\ streams' \in [App -> Nat] /\ followed' \in [App -> Nat]
        /\ commands' \in Seq([op : {"add", "remove"}, app : App, from : Nat])
    BY <2>2 DEF AgentGone
  <2>4. forsaken' \subseteq Line
    BY <1>1, <2>1 DEF AgentGone, AppLogTypeOK
  <2>5. QED
    BY <1>1, <2>3, <2>4 DEF AgentGone, AppLogTypeOK
<1>5. NoLineIsLost'
  BY <1>2, <1>3, InEmpty DEF AppLogInv, NoLineIsLost, AgentGone
<1>6. AppBuffersAreSound'
  BY <1>2, <1>3 DEF AppBuffersAreSound, AgentGone
<1>7. QED
  BY <1>4, <1>5, <1>6 DEF AppLogInv

LEMMA StepAppLogInv == AppLogInv /\ [AppLogNext \/ AgentGone]_appLogVars => AppLogInv'
<1> SUFFICES ASSUME AppLogInv, [AppLogNext \/ AgentGone]_appLogVars PROVE AppLogInv'
  OBVIOUS
<1>1. CASE \E a \in App : Write(a) \/ Register(a) \/ Unregister(a) \/ StreamFails(a)
  BY <1>1, ContainersInv
<1>2. CASE HandleCommand
  BY <1>2, HandleAddInv, HandleRemoveInv DEF HandleCommand
<1>3. CASE ReadStream
  BY <1>3, ReadLineInv, ContainersInv DEF ReadStream
<1>4. CASE AppTick
  BY <1>4, AppTickInv
<1>5. CASE AppPushEnds \/ AppPushFails \/ AppPushAnswerLost
  BY <1>5, AppPushInv
<1>6. CASE AgentGone
  BY <1>6, AgentGoneInv
<1>7. CASE UNCHANGED appLogVars
  <2>1. UNCHANGED <<written, followed, given, commands, streams, buffers, registry, taken, cut,
                    forsaken, appRows, appLogFaults>>
    BY <1>7 DEF appLogVars, containerVars, registryVars, appHistoryVars
  <2>2. AppLogTypeOK'
    BY <2>1 DEF AppLogInv, AppLogTypeOK
  <2>3. QED
    BY <2>1, <2>2, LinesStay DEF appHistoryVars
<1>8. QED
  BY <1>1, <1>2, <1>3, <1>4, <1>5, <1>6, <1>7 DEF AppLogNext

LEMMA StepOfTheAppLog == [PathNext]_pathVars => [AppLogNext \/ AgentGone]_appLogVars
<1> SUFFICES ASSUME [PathNext]_pathVars PROVE [AppLogNext \/ AgentGone]_appLogVars
  OBVIOUS
<1>1. CASE ApplicationLogs
  BY <1>1, Zenon DEF ApplicationLogs, AppLogNext, AppPushEnds
<1>2. CASE ApplicationShips
  BY <1>2, Zenon DEF ApplicationShips, AppLogNext, AppPushEnds
<1>3. CASE AgentEnds
  BY <1>3, Zenon DEF AgentEnds
<1>4. CASE AgentLogs \/ DeviceShips \/ UserWatches
  BY <1>4, Zenon DEF AgentLogs, DeviceShips, UserWatches
<1>5. CASE UNCHANGED pathVars
  BY <1>5, Zenon DEF pathVars
<1>6. QED
  BY <1>1, <1>2, <1>3, <1>4, <1>5, Zenon DEF PathNext

LEMMA AlwaysAppLogInv == PathSpec => []AppLogInv
<1>1. PathInit => AppLogInv
  BY InitAppLogInv DEF PathInit
<1>2. QED
  BY <1>1, StepOfTheAppLog, StepAppLogInv, PTL DEF PathSpec

(* A line read from a container is stored, or in the buffer of its own     *)
(* application, or was cut by the cap, or went with a removal or with the  *)
(* process; and no outage lets a buffer grow beyond the batch size and the *)
(* cap (log_registry.rs:86-177).                                           *)
THEOREM NoLineDisappears == PathSpec => []NoLineIsLost
<1>1. AppLogInv => NoLineIsLost
  BY DEF AppLogInv
<1>2. QED
  BY <1>1, AlwaysAppLogInv, PTL

-----------------------------------------------------------------------------
(* The live tail.  What the newest subscription has delivered lies below   *)
(* what waits in the queue, that below what is on the wire, and that below *)
(* the position the stream has reached; and nothing that matches is        *)
(* missing in between.                                                     *)

Below(A, B) == \A x \in A, y \in B : x < y
Rising(s) == \A i, j \in 1..Len(s) : i < j => s[i] < s[j]

Task(length) ==
  [state : {"connecting", "accepted", "open", "ended"}, filter : Filter, since : Nat, next : Nat,
   wire : Seq(1..length), skipped : SUBSET (1..length)]
Message(epoch, length) ==
  [epoch : 1..epoch, kind : {"connected", "log", "disconnected"}, n : 0..length]

LogsIn(q, e) == {i \in 1..Len(q) : q[i].epoch = e /\ q[i].kind = "log"}
Queued(q, e) == {q[i].n : i \in LogsIn(q, e)}
QueueRises(q, e) == \A i, j \in LogsIn(q, e) : i < j => q[i].n < q[j].n

(* For events p, the task t, the numbers q queued for it, those seen and   *)
(* those on the screen.                                                    *)
Known(t, q, s) == s \cup q \cup Range(t.wire)
Accounts(p, t, known, limit) ==
  \A m \in t.since..limit : Matches(p[m], t.filter) => m \in known \cup t.skipped

Delivers(p, t, q, s, screen) ==
  /\ Known(t, q, s) \cup screen \subseteq 1..Len(p)
  /\ Rising(t.wire)
  /\ Below(q, Range(t.wire))
  /\ Below(s \cup screen, q \cup Range(t.wire))
  /\ \A n \in Known(t, q, s) :
       /\ Matches(p[n], t.filter)
       /\ 1 <= t.since
       /\ Accounts(p, t, Known(t, q, s), n)
  /\ t.state = "connecting" => Known(t, q, s) = {}
  /\ t.state \in {"accepted", "open"} =>
       /\ 1 <= t.since /\ t.since <= t.next /\ t.next <= Len(p) + 1
       /\ Below(Known(t, q, s) \cup screen, {t.next})
       /\ Accounts(p, t, Known(t, q, s), t.next - 1)

ViewerTyped ==
  /\ published \in Seq(Event)
  /\ tasks \in Seq(Task(Len(published)))
  /\ queue \in Seq(Message(Epoch, Len(published)))
  /\ selected \in 0..Len(Devices)
  /\ minLevel \in Level \cup {NoLevel}
  /\ shown \in Seq(1..Len(published)) /\ Len(shown) <= MaxLogs
  /\ scroll \in 0..MaxLogs
  /\ conn \in {"reconnecting", "live", "error"}
  /\ keys \in Nat /\ breaks \in Nat

(* A stream that is served has a position.                                 *)
Positioned == \A e \in 1..Epoch : tasks[e].state \in {"accepted", "open"} => 1 <= tasks[e].next

ViewerInv ==
  /\ ViewerTyped
  /\ Positioned
  /\ Epoch >= 1
  /\ tasks[Epoch].filter = CurrentQuery(selected, minLevel)
  /\ Rising(shown)
  /\ QueueRises(queue, Epoch)
  /\ Delivers(published, tasks[Epoch], Queued(queue, Epoch), seen, Range(shown))

LEMMA TaskFields ==
  ASSUME NEW n \in Nat, NEW t \in Task(n)
  PROVE  /\ t.state \in {"connecting", "accepted", "open", "ended"}
         /\ t.filter \in Filter
         /\ t.since \in Nat /\ t.next \in Nat
         /\ t.wire \in Seq(1..n) /\ t.wire \in Seq(Nat) /\ Range(t.wire) \subseteq 1..n
         /\ t.skipped \subseteq 1..n
<1>1. /\ t.state \in {"connecting", "accepted", "open", "ended"} /\ t.filter \in Filter
      /\ t.since \in Nat /\ t.next \in Nat
      /\ t.wire \in Seq(1..n) /\ t.skipped \subseteq 1..n
  BY DEF Task
<1>2. 1..n \subseteq Nat
  OBVIOUS
<1>3. t.wire \in Seq(Nat)
  BY <1>1, <1>2, SeqMonotonic
<1>4. Range(t.wire) \subseteq 1..n
  BY <1>1, InSequence
<1>5. QED
  BY <1>1, <1>3, <1>4

(* What is delivered stays accounted for while more is published ...       *)
LEMMA DeliversPublished ==
  ASSUME NEW p, NEW pp, Len(p) \in Nat, Len(pp) \in Nat, Len(p) <= Len(pp),
         \A i \in 1..Len(p) : pp[i] = p[i],
         NEW t \in Task(Len(p)), NEW q, NEW s, NEW screen, Delivers(p, t, q, s, screen)
  PROVE  Delivers(pp, t, q, s, screen)
<1> DEFINE K == Known(t, q, s)
<1>1. K \cup screen \subseteq 1..Len(p) /\ t.since \in Nat /\ t.next \in Nat
  BY TaskFields DEF Delivers
<1> HIDE DEF K
<1>2. ASSUME NEW n \in 0..Len(p), 1 <= t.since, Accounts(p, t, K, n)
      PROVE  Accounts(pp, t, K, n)
  <2> SUFFICES ASSUME NEW m \in t.since..n, Matches(pp[m], t.filter) PROVE m \in K \cup t.skipped
    BY DEF Accounts
  <2>1. m \in 1..Len(p) /\ pp[m] = p[m]
    BY <1>1, <1>2
  <2>2. QED
    BY <1>2, <2>1 DEF Accounts
<1>3. \A n \in K : Matches(pp[n], t.filter) /\ 1 <= t.since /\ Accounts(pp, t, K, n)
  <2> TAKE n \in K
  <2>1. n \in 1..Len(p) /\ pp[n] = p[n]
    BY <1>1
  <2>2. Matches(p[n], t.filter) /\ 1 <= t.since /\ Accounts(p, t, K, n)
    BY DEF Delivers, K
  <2>3. QED
    BY <1>2, <2>1, <2>2
<1>4. t.state \in {"accepted", "open"} =>
       /\ 1 <= t.since /\ t.since <= t.next /\ t.next <= Len(pp) + 1
       /\ Below(K \cup screen, {t.next})
       /\ Accounts(pp, t, K, t.next - 1)
  <2> HAVE t.state \in {"accepted", "open"}
  <2>1. /\ 1 <= t.since /\ t.since <= t.next /\ t.next <= Len(p) + 1
        /\ Below(K \cup screen, {t.next})
        /\ Accounts(p, t, K, t.next - 1)
    BY DEF Delivers, K
  <2>2. t.next - 1 \in 0..Len(p) /\ t.next <= Len(pp) + 1
    BY <1>1, <2>1
  <2>3. QED
    BY <1>2, <2>1, <2>2
<1>5. K \cup screen \subseteq 1..Len(pp)
  BY <1>1
<1>6. QED
  BY <1>3, <1>4, <1>5 DEF Delivers, K

(* ... and when the connection ends with what was on it.                   *)
LEMMA DeliversEnded ==
  ASSUME NEW p, Len(p) \in Nat, NEW t \in Task(Len(p)), NEW q, NEW s, NEW screen,
         Delivers(p, t, q, s, screen)
  PROVE  Delivers(p, Ended(t), q, s, screen)
<1>1. PICK u : u = Ended(t)
  OBVIOUS
<1>2. /\ u.state = "ended" /\ u.wire = <<>> /\ u.since = t.since /\ u.filter = t.filter
      /\ u.skipped = t.skipped
  BY <1>1 DEF Ended, Task
<1>3. PICK W : W = Range(t.wire)
  OBVIOUS
<1>4. /\ Known(t, q, s) = s \cup q \cup W /\ Known(u, q, s) = s \cup q
      /\ Range(u.wire) = {} /\ Rising(u.wire)
  BY <1>2, <1>3, InEmpty DEF Known, Rising
<1>5. s \cup q \cup W \cup screen \subseteq 1..Len(p) /\ t.since \in Nat
  BY <1>4, TaskFields DEF Delivers
<1>6. Below(s \cup q, W)
  BY <1>3 DEF Delivers, Below
<1>7. ASSUME NEW n \in s \cup q
      PROVE  Matches(p[n], u.filter) /\ 1 <= u.since /\ Accounts(p, u, s \cup q, n)
  <2>1. Matches(p[n], t.filter) /\ 1 <= t.since /\ Accounts(p, t, s \cup q \cup W, n)
    BY <1>4 DEF Delivers
  <2>2. \A m \in t.since..n : m \notin W
    BY <1>5, <1>6 DEF Below
  <2>3. Accounts(p, u, s \cup q, n)
    BY <1>2, <2>1, <2>2 DEF Accounts
  <2>4. QED
    BY <1>2, <2>1, <2>3
<1>8. Below(s \cup screen, q)
  BY DEF Delivers, Below
<1>9. QED
  BY <1>1, <1>2, <1>4, <1>5, <1>7, <1>8 DEF Delivers, Below

(* The interface takes the first of what is queued; the screen shows it,   *)
(* or no longer shows what it did.                                         *)
LEMMA DeliversReceived ==
  ASSUME NEW p, NEW t, NEW q, NEW s, NEW screen, Delivers(p, t, q, s, screen),
         NEW taking, taking \subseteq q, Below(taking, q \ taking),
         NEW shows, shows \subseteq screen \cup taking
  PROVE  Delivers(p, t, q \ taking, s \cup taking, shows)
<1>1. Known(t, q \ taking, s \cup taking) = Known(t, q, s)
  BY DEF Known
<1>2. Below(q \ taking, Range(t.wire)) /\ Below(taking, Range(t.wire))
  BY DEF Delivers, Below
<1>3. Below((s \cup taking) \cup shows, (q \ taking) \cup Range(t.wire))
  BY <1>2 DEF Delivers, Below
<1>4. Known(t, q, s) \cup shows \subseteq Known(t, q, s) \cup screen
  BY DEF Known
<1>5. QED
  BY <1>1, <1>2, <1>3, <1>4 DEF Delivers, Below

(* The stream task moves the first event on the wire to the queue.         *)
LEMMA DeliversRead ==
  ASSUME NEW p, Len(p) \in Nat, NEW t \in Task(Len(p)), NEW q, NEW s, NEW screen,
         Delivers(p, t, q, s, screen), t.wire # <<>>
  PROVE  Delivers(p, [t EXCEPT !.wire = Tail(@)], q \cup {Head(t.wire)}, s, screen)
<1>1. PICK u : u = [t EXCEPT !.wire = Tail(@)]
  OBVIOUS
<1>2. PICK h, w : h = Head(t.wire) /\ w = Tail(t.wire)
  OBVIOUS
<1>3. /\ u.state = t.state /\ u.wire = w /\ u.since = t.since /\ u.filter = t.filter
      /\ u.skipped = t.skipped /\ u.next = t.next
  BY <1>1, <1>2 DEF Task
<1>4. /\ t.wire \in Seq(Nat) /\ Range(t.wire) \subseteq 1..Len(p)
  BY TaskFields
<1>5. /\ h \in Nat /\ w \in Seq(Nat) /\ Len(t.wire) \in Nat /\ 1 <= Len(t.wire) /\ t.wire[1] = h
      /\ Len(w) = Len(t.wire) - 1
      /\ \A i \in 1..Len(w) : w[i] = t.wire[i + 1]
      /\ Range(t.wire) = Range(w) \cup {h}
  BY <1>2, <1>4, TailFacts
<1>6. Rising(w)
  <2>1. Rising(t.wire)
    BY DEF Delivers
  <2>2. ASSUME NEW i \in 1..Len(w), NEW j \in 1..Len(w), i < j PROVE w[i] < w[j]
    <3>1. i + 1 \in 1..Len(t.wire) /\ j + 1 \in 1..Len(t.wire) /\ i + 1 < j + 1
      BY <1>5, <2>2
    <3>2. QED
      BY <1>5, <2>1, <3>1 DEF Rising
  <2>3. QED
    BY <2>2 DEF Rising
<1>7. Below({h}, Range(w))
  <2> SUFFICES ASSUME NEW y \in Range(w) PROVE h < y
    BY DEF Below
  <2>1. PICK i \in 1..Len(w) : w[i] = y
    BY <1>5, InSequence
  <2>2. i + 1 \in 1..Len(t.wire) /\ 1 \in 1..Len(t.wire) /\ 1 < i + 1
    BY <1>5
  <2>3. QED
    BY <1>5, <2>1, <2>2 DEF Delivers, Rising
<1>8. Known(u, q \cup {h}, s) = Known(t, q, s)
  BY <1>3, <1>5 DEF Known
<1>9. Below(q \cup {h}, Range(w))
  BY <1>5, <1>7 DEF Delivers, Below
<1>10. Below(s \cup screen, (q \cup {h}) \cup Range(w))
  BY <1>5 DEF Delivers, Below
<1>11. QED
  BY <1>1, <1>2, <1>3, <1>6, <1>8, <1>9, <1>10 DEF Delivers, Accounts

(* The server sends the event its position is at, or passes over it.       *)
LEMMA DeliversSent ==
  ASSUME NEW p, Len(p) \in Nat, NEW t \in Task(Len(p)), NEW q, NEW s, NEW screen,
         Delivers(p, t, q, s, screen), t.state \in {"accepted", "open"}, t.next <= Len(p),
         NEW u, u = [t EXCEPT !.next = t.next + 1,
                              !.wire = IF Matches(p[t.next], t.filter) THEN Append(@, t.next) ELSE @]
  PROVE  Delivers(p, u, q, s, screen) /\ u.wire \in Seq(1..Len(p))
<1>1. PICK n : n = t.next
  OBVIOUS
<1>2. /\ u.state = t.state /\ u.since = t.since /\ u.filter = t.filter
      /\ u.skipped = t.skipped /\ u.next = n + 1
      /\ u.wire = IF Matches(p[n], t.filter) THEN Append(t.wire, n) ELSE t.wire
  BY <1>1 DEF Task
<1>3. PICK K : K = Known(t, q, s)
  OBVIOUS
<1>4. /\ K \cup screen \subseteq 1..Len(p)
      /\ 1 <= t.since /\ t.since <= n /\ n <= Len(p) /\ n \in Nat /\ t.since \in Nat
      /\ \A x \in K \cup screen : x < n
      /\ Accounts(p, t, K, n - 1)
      /\ \A k \in K : Matches(p[k], t.filter) /\ Accounts(p, t, K, k)
  BY <1>1, <1>3, TaskFields DEF Delivers, Below
<1>5. t.wire \in Seq(1..Len(p)) /\ t.wire \in Seq(Nat) /\ Rising(t.wire) /\ Range(t.wire) \subseteq K
  BY <1>3, TaskFields DEF Delivers, Known
<1>6. CASE ~Matches(p[n], t.filter)
  <2>1. u.wire = t.wire /\ Known(u, q, s) = K
    BY <1>2, <1>3, <1>6 DEF Known
  <2>2. Accounts(p, u, K, n)
    <3> SUFFICES ASSUME NEW m \in t.since..n, Matches(p[m], t.filter) PROVE m \in K \cup t.skipped
      BY <1>2 DEF Accounts
    <3>1. m \in t.since..(n - 1)
      BY <1>4, <1>6
    <3>2. QED
      BY <1>4, <3>1 DEF Accounts
  <2>3. Below(K \cup screen, {n + 1}) /\ (n + 1) - 1 = n /\ n + 1 <= Len(p) + 1 /\ t.since <= n + 1
    BY <1>4 DEF Below
  <2>4. QED
    BY <1>2, <1>3, <1>4, <1>5, <2>1, <2>2, <2>3 DEF Delivers, Accounts
<1>7. CASE Matches(p[n], t.filter)
  <2>1. u.wire = Append(t.wire, n)
    BY <1>2, <1>7
  <2>2. /\ Append(t.wire, n) \in Seq(1..Len(p))
        /\ Range(u.wire) = Range(t.wire) \cup {n}
    <3>1. n \in 1..Len(p)
      BY <1>4
    <3>2. QED
      BY <1>5, <2>1, <3>1, InAppended
  <2>3. Known(u, q, s) = K \cup {n}
    BY <1>3, <2>2 DEF Known
  <2>4. Rising(u.wire)
    <3>1. /\ Len(t.wire) \in Nat /\ Len(u.wire) = Len(t.wire) + 1
          /\ \A i \in 1..Len(t.wire) : u.wire[i] = t.wire[i]
          /\ u.wire[Len(t.wire) + 1] = n
      BY <1>4, <1>5, <2>1, AppendFacts, LenProperties
    <3>2. \A i \in 1..Len(t.wire) : t.wire[i] < n
      BY <1>4, <1>5, InSequence
    <3>3. ASSUME NEW i \in 1..Len(u.wire), NEW j \in 1..Len(u.wire), i < j
          PROVE  u.wire[i] < u.wire[j]
      <4>1. i \in 1..Len(t.wire)
        BY <3>1, <3>3
      <4>2. CASE j = Len(t.wire) + 1
        BY <3>1, <3>2, <4>1, <4>2
      <4>3. CASE j \in 1..Len(t.wire)
        BY <1>5, <3>1, <3>3, <4>1, <4>3 DEF Rising
      <4>4. QED
        BY <3>1, <4>2, <4>3
    <3>4. QED
      BY <3>3 DEF Rising
  <2>5. Below(q, Range(u.wire)) /\ Below(s \cup screen, q \cup Range(u.wire))
    <3>1. \A x \in q \cup s \cup screen : x < n
      BY <1>3, <1>4 DEF Known
    <3>2. QED
      BY <2>2, <3>1 DEF Delivers, Below
  <2>6. \A k \in K : Accounts(p, u, K \cup {n}, k)
    BY <1>2, <1>4 DEF Accounts
  <2>7. Accounts(p, u, K \cup {n}, n)
    <3> SUFFICES ASSUME NEW m \in t.since..n, Matches(p[m], t.filter), m # n
                 PROVE  m \in K \cup t.skipped
      BY <1>2 DEF Accounts
    <3>1. m \in t.since..(n - 1)
      BY <1>4
    <3>2. QED
      BY <1>4, <3>1 DEF Accounts
  <2>8. /\ Below((K \cup {n}) \cup screen, {n + 1}) /\ (n + 1) - 1 = n
        /\ n + 1 <= Len(p) + 1 /\ t.since <= n + 1
    BY <1>4 DEF Below
  <2>9. (K \cup {n}) \cup screen \subseteq 1..Len(p)
    BY <1>4
  <2>10. \A k \in K \cup {n} :
           Matches(p[k], t.filter) /\ 1 <= t.since /\ Accounts(p, u, K \cup {n}, k)
    BY <1>4, <1>7, <2>6, <2>7
  <2>11. QED
    BY <1>2, <2>1, <2>2, <2>3, <2>4, <2>5, <2>7, <2>8, <2>9, <2>10 DEF Delivers
<1>8. QED
  BY <1>6, <1>7

(* A stream that lags goes on with the oldest event still retained, and    *)
(* what it passes over is known as skipped.                                *)
LEMMA DeliversSkipped ==
  ASSUME NEW p, Len(p) \in Nat, NEW t \in Task(Len(p)), NEW q, NEW s, NEW screen,
         Delivers(p, t, q, s, screen), t.state \in {"accepted", "open"},
         NEW oldest \in Nat, t.next < oldest, oldest <= Len(p) + 1,
         NEW u, u = [t EXCEPT !.next = oldest, !.skipped = @ \cup (t.next..(oldest - 1))]
  PROVE  Delivers(p, u, q, s, screen) /\ u.skipped \subseteq 1..Len(p)
<1>1. PICK n : n = t.next
  OBVIOUS
<1>2. /\ u.state = t.state /\ u.since = t.since /\ u.filter = t.filter /\ u.wire = t.wire
      /\ u.next = oldest /\ u.skipped = t.skipped \cup (n..(oldest - 1))
  BY <1>1 DEF Task
<1>3. PICK K : K = Known(t, q, s)
  OBVIOUS
<1>4. /\ K \cup screen \subseteq 1..Len(p) /\ t.skipped \subseteq 1..Len(p)
      /\ 1 <= t.since /\ t.since <= n /\ n < oldest /\ n \in Nat /\ t.since \in Nat
      /\ \A x \in K \cup screen : x < n
      /\ Accounts(p, t, K, n - 1)
      /\ \A k \in K : Matches(p[k], t.filter) /\ Accounts(p, t, K, k)
  BY <1>1, <1>3, TaskFields DEF Delivers, Below
<1>5. Known(u, q, s) = K
  BY <1>2, <1>3 DEF Known
<1>6. \A k \in K : Accounts(p, u, K, k)
  BY <1>2, <1>4 DEF Accounts
<1>7. Accounts(p, u, K, oldest - 1)
  <2> SUFFICES ASSUME NEW m \in t.since..(oldest - 1), Matches(p[m], t.filter), m \notin n..(oldest - 1)
               PROVE  m \in K \cup t.skipped
    BY <1>2 DEF Accounts
  <2>1. m \in t.since..(n - 1)
    BY <1>4
  <2>2. QED
    BY <1>4, <2>1 DEF Accounts
<1>8. Below(K \cup screen, {oldest}) /\ t.since <= oldest
  BY <1>4 DEF Below
<1>9. u.skipped \subseteq 1..Len(p)
  BY <1>2, <1>4
<1>10. Rising(u.wire) /\ Below(q, Range(u.wire)) /\ Below(s \cup screen, q \cup Range(u.wire))
  BY <1>2 DEF Delivers
<1>11. \A k \in K : Matches(p[k], u.filter) /\ 1 <= u.since /\ Accounts(p, u, K, k)
  BY <1>2, <1>4, <1>6
<1>12. /\ 1 <= u.since /\ u.since <= u.next /\ u.next <= Len(p) + 1
       /\ Below(K \cup screen, {u.next}) /\ Accounts(p, u, K, u.next - 1)
  BY <1>2, <1>4, <1>7, <1>8
<1>13. u.state # "connecting"
  BY <1>2
<1>14. QED
  BY <1>4, <1>5, <1>9, <1>10, <1>11, <1>12, <1>13 DEF Delivers

(* A new subscription starts after everything published so far.            *)
LEMMA DeliversSubscribed ==
  ASSUME NEW p, Len(p) \in Nat, NEW t \in Task(Len(p)), NEW q, NEW s, NEW screen,
         Delivers(p, t, q, s, screen), t.state = "connecting",
         NEW u, u = [t EXCEPT !.state = "accepted", !.since = Len(p) + 1, !.next = Len(p) + 1]
  PROVE  Delivers(p, u, q, s, screen)
<1>1. /\ u.state = "accepted" /\ u.filter = t.filter /\ u.wire = t.wire /\ u.skipped = t.skipped
      /\ u.since = Len(p) + 1 /\ u.next = Len(p) + 1
  BY DEF Task
<1>2. Known(t, q, s) = {} /\ Known(u, q, s) = {} /\ screen \subseteq 1..Len(p)
  BY <1>1 DEF Delivers, Known
<1>3. \A m \in (Len(p) + 1)..(Len(p) + 1 - 1) : FALSE
  OBVIOUS
<1>4. Accounts(p, u, {}, u.next - 1)
  BY <1>1, <1>3 DEF Accounts
<1>5. Below({} \cup screen, {u.next})
  BY <1>1, <1>2 DEF Below
<1>6. Rising(u.wire) /\ Below(q, Range(u.wire)) /\ Below(s \cup screen, q \cup Range(u.wire))
  BY <1>1 DEF Delivers
<1>7. 1 <= u.since /\ u.since <= u.next /\ u.next <= Len(p) + 1 /\ u.state # "connecting"
  BY <1>1
<1>8. PICK K : K = Known(u, q, s)
  OBVIOUS
<1>9. /\ K \cup screen \subseteq 1..Len(p)
      /\ \A n \in K : Matches(p[n], u.filter) /\ 1 <= u.since /\ Accounts(p, u, K, n)
      /\ Below(K \cup screen, {u.next}) /\ Accounts(p, u, K, u.next - 1)
  BY <1>2, <1>4, <1>5, <1>8
<1>10. QED
  BY <1>6, <1>7, <1>8, <1>9 DEF Delivers

LEMMA DeliversNothingYet ==
  ASSUME NEW p, NEW filter, NEW screen, screen \subseteq 1..Len(p)
  PROVE  Delivers(p, NewTask(filter), {}, {}, screen)
<1>1. NewTask(filter).state = "connecting" /\ NewTask(filter).wire = <<>>
  BY DEF NewTask
<1>2. Range(NewTask(filter).wire) = {} /\ Rising(NewTask(filter).wire)
  BY <1>1, InEmpty DEF Rising
<1>3. QED
  BY <1>1, <1>2 DEF Delivers, Known, Below

-----------------------------------------------------------------------------
(* The queue of the viewer.                                                *)

IsLog(msg, e) == msg.epoch = e /\ msg.kind = "log"

LEMMA QueueGrows ==
  ASSUME NEW M, NEW q \in Seq(M), NEW msg \in M, NEW e
  PROVE  /\ IsLog(msg, e) => Queued(Append(q, msg), e) = Queued(q, e) \cup {msg.n}
         /\ ~IsLog(msg, e) => Queued(Append(q, msg), e) = Queued(q, e)
         /\ /\ QueueRises(q, e)
            /\ IsLog(msg, e) => Below(Queued(q, e), {msg.n})
            => QueueRises(Append(q, msg), e)
<1>1. PICK r : r = Append(q, msg)
  OBVIOUS
<1>2. PICK l : l = Len(q)
  OBVIOUS
<1>3. /\ l \in Nat /\ Len(r) = l + 1
      /\ \A i \in 1..l : r[i] = q[i]
      /\ r[l + 1] = msg
  BY <1>1, <1>2, AppendProperties, LenProperties
<1>4. /\ IsLog(msg, e) => LogsIn(r, e) = LogsIn(q, e) \cup {l + 1}
      /\ ~IsLog(msg, e) => LogsIn(r, e) = LogsIn(q, e)
  <2>1. ASSUME NEW i \in 1..(l + 1) PROVE i = l + 1 \/ i \in 1..l
    BY <1>3
  <2>2. \A i : i \in LogsIn(r, e) <=> i \in LogsIn(q, e) \/ (i = l + 1 /\ IsLog(msg, e))
    BY <1>2, <1>3, <2>1 DEF LogsIn, IsLog
  <2>3. QED
    BY <2>2
<1>5. LogsIn(q, e) \subseteq 1..l
  BY <1>2 DEF LogsIn
<1>6. IsLog(msg, e) => Queued(r, e) = Queued(q, e) \cup {msg.n}
  BY <1>3, <1>4, <1>5 DEF Queued
<1>7. ~IsLog(msg, e) => Queued(r, e) = Queued(q, e)
  BY <1>3, <1>4, <1>5 DEF Queued
<1>8. ASSUME QueueRises(q, e), IsLog(msg, e) => Below(Queued(q, e), {msg.n})
      PROVE  QueueRises(r, e)
  <2> SUFFICES ASSUME NEW i \in LogsIn(r, e), NEW j \in LogsIn(r, e), i < j PROVE r[i].n < r[j].n
    BY DEF QueueRises
  <2>1. CASE i \in LogsIn(q, e) /\ j \in LogsIn(q, e)
    BY <1>3, <1>5, <1>8, <2>1 DEF QueueRises
  <2>2. CASE i \in LogsIn(q, e) /\ j = l + 1 /\ IsLog(msg, e)
    <3>1. r[i].n = q[i].n /\ q[i].n \in Queued(q, e)
      BY <1>3, <1>5, <2>2 DEF Queued
    <3>2. q[i].n < msg.n
      BY <1>8, <2>2, <3>1 DEF Below
    <3>3. QED
      BY <1>3, <2>2, <3>1, <3>2
  <2>3. QED
    BY <1>3, <1>4, <1>5, <2>1, <2>2
<1>9. QED
  BY <1>1, <1>6, <1>7, <1>8

LEMMA QueueShrinks ==
  ASSUME NEW M, NEW q \in Seq(M), q # <<>>, NEW e, QueueRises(q, e),
         \A msg \in M : msg.n \in Nat
  PROVE  /\ QueueRises(Tail(q), e)
         /\ IsLog(Head(q), e) =>
              /\ Head(q).n \in Queued(q, e)
              /\ Queued(Tail(q), e) = Queued(q, e) \ {Head(q).n}
              /\ Below({Head(q).n}, Queued(q, e) \ {Head(q).n})
         /\ ~IsLog(Head(q), e) => Queued(Tail(q), e) = Queued(q, e)
<1>1. PICK h, r : h = Head(q) /\ r = Tail(q)
  OBVIOUS
<1>2. PICK l : l = Len(q)
  OBVIOUS
<1>3. /\ l \in Nat /\ 1 <= l /\ q[1] = h /\ Len(r) = l - 1
      /\ \A i \in 1..(l - 1) : r[i] = q[i + 1]
  BY <1>1, <1>2, HeadTailProperties, LenProperties, EmptySeq
<1>4. \A i \in 1..l : q[i] \in M /\ q[i].n \in Nat
  BY <1>2, ElementOfSeq
<1>5. \A i \in 1..(l - 1) : i + 1 \in 2..l /\ i + 1 \in 1..l
  BY <1>3
<1>6. \A j \in 1..l : j = 1 \/ (j - 1 \in 1..(l - 1) /\ (j - 1) + 1 = j)
  BY <1>3
<1>7. \A i \in 1..(l - 1) : i \in LogsIn(r, e) <=> i + 1 \in LogsIn(q, e)
  BY <1>2, <1>3, <1>5 DEF LogsIn
<1>8. /\ LogsIn(r, e) \subseteq 1..(l - 1) /\ LogsIn(q, e) \subseteq 1..l
      /\ 1 \in LogsIn(q, e) <=> IsLog(h, e)
  BY <1>2, <1>3 DEF LogsIn, IsLog
<1>9. QueueRises(r, e)
  <2> SUFFICES ASSUME NEW i \in LogsIn(r, e), NEW j \in LogsIn(r, e), i < j PROVE r[i].n < r[j].n
    BY DEF QueueRises
  <2>1. i \in 1..(l - 1) /\ j \in 1..(l - 1) /\ i + 1 < j + 1
    BY <1>3, <1>8
  <2>2. i + 1 \in LogsIn(q, e) /\ j + 1 \in LogsIn(q, e)
    BY <1>7, <2>1
  <2>3. q[i + 1].n < q[j + 1].n
    BY <2>1, <2>2 DEF QueueRises
  <2>4. QED
    BY <1>3, <2>1, <2>3
<1>10. \A x : x \in Queued(r, e) <=> \E j \in LogsIn(q, e) : j # 1 /\ q[j].n = x
  <2> TAKE x
  <2>1. ASSUME NEW i \in LogsIn(r, e), r[i].n = x PROVE \E j \in LogsIn(q, e) : j # 1 /\ q[j].n = x
    <3>1. i \in 1..(l - 1)
      BY <1>8
    <3>2. i + 1 \in LogsIn(q, e) /\ q[i + 1].n = x /\ i + 1 # 1
      BY <1>3, <1>7, <2>1, <3>1
    <3>3. QED
      BY <3>2
  <2>2. ASSUME NEW j \in LogsIn(q, e), j # 1, q[j].n = x PROVE \E i \in LogsIn(r, e) : r[i].n = x
    <3>1. j - 1 \in 1..(l - 1) /\ (j - 1) + 1 = j
      BY <1>6, <1>8, <2>2
    <3>2. j - 1 \in LogsIn(r, e) /\ r[j - 1].n = x
      BY <1>3, <1>7, <2>2, <3>1
    <3>3. QED
      BY <3>2
  <2>3. QED
    BY <2>1, <2>2 DEF Queued
<1>11. CASE IsLog(h, e)
  <2>1. 1 \in LogsIn(q, e) /\ q[1] = h
    BY <1>3, <1>8, <1>11
  <2>2. \A j \in LogsIn(q, e) : j # 1 => q[1].n < q[j].n
    <3> SUFFICES ASSUME NEW j \in LogsIn(q, e), j # 1 PROVE q[1].n < q[j].n
      OBVIOUS
    <3>1. 1 < j
      BY <1>3, <1>8
    <3>2. QED
      BY <2>1, <3>1 DEF QueueRises
  <2>3. \A x : x \in Queued(r, e) <=> x \in Queued(q, e) /\ x # h.n
    <3> TAKE x
    <3>1. \A j \in LogsIn(q, e) : q[j].n \in Nat
      BY <1>4, <1>8
    <3>2. x \in Queued(q, e) <=> \E j \in LogsIn(q, e) : q[j].n = x
      BY DEF Queued
    <3>3. QED
      BY <1>10, <2>1, <2>2, <3>1, <3>2
  <2>4. h.n \in Queued(q, e)
    BY <2>1 DEF Queued
  <2>5. Below({h.n}, Queued(q, e) \ {h.n})
    <3> SUFFICES ASSUME NEW y \in Queued(q, e), y # h.n PROVE h.n < y
      BY DEF Below
    <3>1. PICK j \in LogsIn(q, e) : q[j].n = y
      BY DEF Queued
    <3>2. QED
      BY <2>1, <2>2, <3>1
  <2>6. QED
    BY <1>1, <1>9, <1>11, <2>3, <2>4, <2>5
<1>12. CASE ~IsLog(h, e)
  <2>1. \A x : x \in Queued(r, e) <=> x \in Queued(q, e)
    BY <1>8, <1>10, <1>12 DEF Queued
  <2>2. QED
    BY <1>1, <1>9, <1>12, <2>1
<1>13. QED
  BY <1>11, <1>12

(* The screen drops its oldest line when it is full.                       *)
LEMMA PushedLog ==
  ASSUME NEW k \in Nat, NEW s \in Seq(1..k), Rising(s), Len(s) <= MaxLogs,
         NEW n \in 1..k, Below(Range(s), {n})
  PROVE  /\ PushLog(s, n) \in Seq(1..k) /\ Rising(PushLog(s, n))
         /\ Len(PushLog(s, n)) <= MaxLogs
         /\ Range(PushLog(s, n)) \subseteq Range(s) \cup {n}
<1>1. PICK a : a = Append(s, n)
  OBVIOUS
<1>2. s \in Seq(Nat) /\ n \in Nat /\ MaxLogs \in Nat /\ MaxLogs >= 1
  <2>1. 1..k \subseteq Nat
    OBVIOUS
  <2>2. QED
    BY <2>1, SeqMonotonic, LogViewerAssumption
<1>3. /\ Len(s) \in Nat /\ Len(a) = Len(s) + 1
      /\ \A i \in 1..Len(s) : a[i] = s[i]
      /\ a[Len(s) + 1] = n
  BY <1>1, <1>2, AppendFacts, LenProperties
<1>4. a \in Seq(1..k) /\ a # <<>> /\ Range(a) = Range(s) \cup {n}
  BY <1>1, InAppended
<1>5. \A i \in 1..Len(s) : s[i] < n
  BY <1>2, InSequence DEF Below
<1>6. Rising(a)
  <2> SUFFICES ASSUME NEW i \in 1..Len(a), NEW j \in 1..Len(a), i < j PROVE a[i] < a[j]
    BY DEF Rising
  <2>1. i \in 1..Len(s)
    BY <1>3
  <2>2. CASE j = Len(s) + 1
    BY <1>3, <1>5, <2>1, <2>2
  <2>3. CASE j \in 1..Len(s)
    BY <1>3, <2>1, <2>3 DEF Rising
  <2>4. QED
    BY <1>3, <2>2, <2>3
<1>7. CASE Len(a) > MaxLogs
  <2>1. PICK t : t = Tail(a)
    OBVIOUS
  <2>2. PushLog(s, n) = t
    BY <1>1, <1>7, <2>1 DEF PushLog
  <2>3. t \in Seq(1..k) /\ Len(t) = Len(a) - 1 /\ \A i \in 1..Len(t) : t[i] = a[i + 1]
    BY <1>4, <2>1, HeadTailProperties
  <2>4. \A i \in 1..Len(t) : i + 1 \in 1..Len(a)
    BY <1>3, <2>3
  <2>5. Rising(t)
    <3> SUFFICES ASSUME NEW i \in 1..Len(t), NEW j \in 1..Len(t), i < j PROVE t[i] < t[j]
      BY DEF Rising
    <3>1. i + 1 \in 1..Len(a) /\ j + 1 \in 1..Len(a) /\ i + 1 < j + 1
      BY <1>3, <2>3, <2>4
    <3>2. QED
      BY <1>6, <2>3, <3>1 DEF Rising
  <2>6. Range(t) \subseteq Range(a)
    <3>1. \A x : x \in Range(t) <=> \E i \in 1..Len(t) : t[i] = x
      BY <2>3, InSequence
    <3>2. \A x : x \in Range(a) <=> \E i \in 1..Len(a) : a[i] = x
      BY <1>4, InSequence
    <3>3. QED
      BY <2>3, <2>4, <3>1, <3>2
  <2>7. QED
    BY <1>2, <1>3, <1>4, <2>2, <2>3, <2>5, <2>6
<1>8. CASE ~(Len(a) > MaxLogs)
  <2>1. PushLog(s, n) = a
    BY <1>1, <1>8 DEF PushLog
  <2>2. QED
    BY <1>2, <1>3, <1>4, <1>6, <1>8, <2>1
<1>9. QED
  BY <1>7, <1>8

-----------------------------------------------------------------------------
(* The steps of the viewer and of the streams it reads.                    *)

LEMMA LengthsTyped ==
  ASSUME ViewerTyped
  PROVE  Len(published) \in Nat /\ Epoch \in Nat
BY LenProperties DEF ViewerTyped, Epoch

LEMMA CurrentTask ==
  ASSUME ViewerInv
  PROVE  Epoch \in 1..Epoch /\ tasks[Epoch] \in Task(Len(published))
<1>1. Epoch \in 1..Epoch
  BY LengthsTyped DEF ViewerInv
<1>2. tasks \in Seq(Task(Len(published))) /\ Epoch = Len(tasks)
  BY DEF ViewerInv, ViewerTyped, Epoch
<1>3. QED
  BY <1>1, <1>2, ElementOfSeq

LEMMA TaskReplaced ==
  ASSUME ViewerInv, NEW e \in 1..Epoch, NEW t \in Task(Len(published)),
         tasks' = [tasks EXCEPT ![e] = t]
  PROVE  /\ tasks' \in Seq(Task(Len(published))) /\ Epoch' = Epoch
         /\ \A k \in 1..Epoch : tasks'[k] = IF k = e THEN t ELSE tasks[k]
<1>1. tasks \in Seq(Task(Len(published))) /\ e \in 1..Len(tasks) /\ Epoch \in 1..Len(tasks)
  BY CurrentTask DEF ViewerInv, ViewerTyped, Epoch
<1>2. QED
  BY <1>1, ExceptSeq DEF Epoch

(* A step of one stream: its task becomes t, and a message is told or not. *)
LEMMA StreamMoves ==
  ASSUME ViewerInv, NEW e \in 1..Epoch, NEW t \in Task(Len(published)),
         tasks' = [tasks EXCEPT ![e] = t], t.filter = tasks[e].filter,
         UNCHANGED <<published, screenVars>>, keys' \in Nat, breaks' \in Nat,
         queue' \in Seq(Message(Epoch, Len(published))),
         e # Epoch => Queued(queue', Epoch) = Queued(queue, Epoch),
         QueueRises(queue', Epoch),
         t.state \in {"accepted", "open"} => 1 <= t.next,
         e = Epoch => Delivers(published, t, Queued(queue', Epoch), seen, Range(shown))
  PROVE  ViewerInv'
<1>1. UNCHANGED <<published, selected, minLevel, shown, scroll, conn, seen>>
  BY DEF screenVars
<1>2. /\ tasks' \in Seq(Task(Len(published))) /\ Epoch' = Epoch
      /\ \A k \in 1..Epoch : tasks'[k] = IF k = e THEN t ELSE tasks[k]
  BY TaskReplaced
<1>3. ViewerTyped'
  BY <1>1, <1>2 DEF ViewerInv, ViewerTyped
<1>4. tasks'[Epoch].filter = CurrentQuery(selected, minLevel)
  BY <1>2, CurrentTask DEF ViewerInv
<1>5. Delivers(published, tasks'[Epoch], Queued(queue', Epoch), seen, Range(shown))
  BY <1>2, CurrentTask DEF ViewerInv
<1>6. Rising(shown) /\ Epoch >= 1
  BY DEF ViewerInv
<1>7. CurrentQuery(selected, minLevel)' = CurrentQuery(selected, minLevel)
  BY <1>1 DEF CurrentQuery
<1>8. Positioned'
  BY <1>2 DEF ViewerInv, Positioned
<1>9. QED
  BY <1>1, <1>2, <1>3, <1>4, <1>5, <1>6, <1>7, <1>8 DEF ViewerInv

LEMMA SubscribeInv == ASSUME ViewerInv, NEW e \in 1..Epoch, Subscribe(e) PROVE ViewerInv'
<1>1. PICK p : p = Len(published)
  OBVIOUS
<1>2. tasks[e] \in Task(p) /\ p \in Nat
  BY <1>1, LengthsTyped, ElementOfSeq DEF ViewerInv, ViewerTyped, Epoch
<1>3. PICK t : t = [tasks[e] EXCEPT !.state = "accepted", !.since = p + 1, !.next = p + 1]
  OBVIOUS
<1>4. tasks' = [tasks EXCEPT ![e] = t]
  BY <1>1, <1>3 DEF Subscribe, ViewerInv, ViewerTyped
<1>5. t \in Task(p) /\ t.filter = tasks[e].filter
  <2>1. PICK a, b : a = tasks[e] /\ b = p + 1
    OBVIOUS
  <2>2. a \in Task(p) /\ b \in Nat /\ t = [a EXCEPT !.state = "accepted", !.since = b, !.next = b]
    BY <1>2, <1>3, <2>1
  <2>3. t \in Task(p) /\ t.filter = a.filter
    BY <2>2 DEF Task
  <2>4. QED
    BY <2>1, <2>3
<1>6. e = Epoch => Delivers(published, t, Queued(queue, Epoch), seen, Range(shown))
  <2> HAVE e = Epoch
  <2>1. Delivers(published, tasks[e], Queued(queue, Epoch), seen, Range(shown))
    BY DEF ViewerInv
  <2>2. QED
    BY <1>1, <1>2, <1>3, <2>1, DeliversSubscribed DEF Subscribe
<1>7. UNCHANGED <<published, queue, screenVars, keys, breaks>>
  BY DEF Subscribe
<1>8. /\ keys' \in Nat /\ breaks' \in Nat /\ queue' \in Seq(Message(Epoch, p))
      /\ QueueRises(queue', Epoch) /\ queue' = queue
  BY <1>1, <1>7 DEF ViewerInv, ViewerTyped
<1>9. 1 <= t.next
  BY <1>2, <1>3 DEF Task
<1>10. QED
  BY <1>1, <1>4, <1>5, <1>6, <1>7, <1>8, <1>9, StreamMoves

LEMMA TaskOf ==
  ASSUME ViewerInv, NEW e \in 1..Epoch
  PROVE  /\ Len(published) \in Nat /\ tasks[e] \in Task(Len(published))
         /\ tasks[e].state \in {"accepted", "open"} => 1 <= tasks[e].next
         /\ e = Epoch =>
              Delivers(published, tasks[e], Queued(queue, Epoch), seen, Range(shown))
<1>1. Len(published) \in Nat /\ tasks[e] \in Task(Len(published))
  BY LengthsTyped, ElementOfSeq DEF ViewerInv, ViewerTyped, Epoch
<1>2. QED
  BY <1>1 DEF ViewerInv, Positioned

LEMMA SendInv == ASSUME ViewerInv, NEW e \in 1..Epoch, Send(e) PROVE ViewerInv'
<1>1. PICK p, a : p = Len(published) /\ a = tasks[e]
  OBVIOUS
<1>2. /\ p \in Nat /\ a \in Task(p)
      /\ e = Epoch => Delivers(published, a, Queued(queue, Epoch), seen, Range(shown))
  BY <1>1, TaskOf
<1>3. /\ a.state \in {"accepted", "open"} /\ a.next \in Oldest..p
      /\ UNCHANGED <<published, queue, screenVars, keys, breaks>>
  BY <1>1 DEF Send
<1>4. PICK t : t = [a EXCEPT !.next = a.next + 1,
                    !.wire = IF Matches(published[a.next], a.filter) THEN Append(@, a.next) ELSE @]
  OBVIOUS
<1>5. tasks' = [tasks EXCEPT ![e] = t]
  BY <1>1, <1>4 DEF Send, ViewerInv, ViewerTyped
<1>6. a.next \in 1..p
  <2>1. Oldest \in Int /\ 1 <= Oldest
    BY <1>1, <1>2, LogViewerAssumption DEF Oldest, MaxOf
  <2>2. QED
    BY <1>2, <1>3, <2>1
<1>7. t \in Task(p) /\ t.filter = a.filter
  <2>1. PICK n, w : /\ n = a.next + 1
                    /\ w = IF Matches(published[a.next], a.filter) THEN Append(a.wire, a.next) ELSE a.wire
    OBVIOUS
  <2>2. a.wire \in Seq(1..p)
    BY <1>2, TaskFields
  <2>3. Append(a.wire, a.next) \in Seq(1..p)
    BY <1>6, <2>2, AppendProperties
  <2>4. n \in Nat /\ w \in Seq(1..p)
    <3>1. n \in Nat
      BY <1>6, <2>1
    <3>2. w \in Seq(1..p)
      BY <2>1, <2>2, <2>3, Zenon
    <3>3. QED
      BY <3>1, <3>2
  <2>5. t = [a EXCEPT !.next = n, !.wire = w]
    BY <1>4, <2>1
  <2>6. QED
    BY <1>2, <2>4, <2>5 DEF Task
<1>8. e = Epoch => Delivers(published, t, Queued(queue, Epoch), seen, Range(shown))
  <2> HAVE e = Epoch
  <2>1. Delivers(published, a, Queued(queue, Epoch), seen, Range(shown)) /\ a.next <= Len(published)
    BY <1>1, <1>2, <1>6
  <2>2. Len(published) \in Nat /\ a \in Task(Len(published))
    BY <1>1, <1>2
  <2>3. QED
    BY <1>3, <1>4, <2>1, <2>2, DeliversSent
<1>9. /\ keys' \in Nat /\ breaks' \in Nat /\ queue' \in Seq(Message(Epoch, p))
      /\ QueueRises(queue', Epoch) /\ queue' = queue
  BY <1>1, <1>3 DEF ViewerInv, ViewerTyped
<1>10. 1 <= t.next
  BY <1>2, <1>4, <1>6 DEF Task
<1>11. QED
  BY <1>1, <1>3, <1>5, <1>7, <1>8, <1>9, <1>10, StreamMoves

LEMMA SkipLaggedInv == ASSUME ViewerInv, NEW e \in 1..Epoch, SkipLagged(e) PROVE ViewerInv'
<1>1. PICK p, a, o : p = Len(published) /\ a = tasks[e] /\ o = Oldest
  OBVIOUS
<1>2. /\ p \in Nat /\ a \in Task(p)
      /\ e = Epoch => Delivers(published, a, Queued(queue, Epoch), seen, Range(shown))
  BY <1>1, TaskOf
<1>3. /\ a.state \in {"accepted", "open"} /\ a.next < o
      /\ UNCHANGED <<published, queue, screenVars, keys, breaks>>
  BY <1>1 DEF SkipLagged
<1>4. PICK t : t = [a EXCEPT !.next = o, !.skipped = @ \cup (a.next..(o - 1))]
  OBVIOUS
<1>5. tasks' = [tasks EXCEPT ![e] = t]
  BY <1>1, <1>4 DEF SkipLagged, ViewerInv, ViewerTyped
<1>6. o \in Nat /\ o <= p + 1 /\ o - 1 <= p
  BY <1>1, <1>2, LogViewerAssumption DEF Oldest, MaxOf
<1>7. a.next \in Nat /\ a.skipped \subseteq 1..p
  BY <1>2, TaskFields
<1>8. a.state \in {"accepted", "open"} => 1 <= a.next
  BY <1>1, TaskOf
<1>9. t \in Task(p) /\ t.filter = a.filter /\ t.state = a.state /\ t.next = o
  <2>1. PICK k : k = a.skipped \cup (a.next..(o - 1))
    OBVIOUS
  <2>2. t = [a EXCEPT !.next = o, !.skipped = k]
    BY <1>4, <2>1
  <2>3. k \subseteq 1..p
    BY <1>2, <1>3, <1>6, <1>7, <1>8, <2>1
  <2>4. QED
    BY <1>2, <1>6, <2>2, <2>3 DEF Task
<1>10. e = Epoch => Delivers(published, t, Queued(queue, Epoch), seen, Range(shown))
  <2> HAVE e = Epoch
  <2>1. /\ Len(published) \in Nat /\ a \in Task(Len(published)) /\ o <= Len(published) + 1
        /\ Delivers(published, a, Queued(queue, Epoch), seen, Range(shown))
    BY <1>1, <1>2, <1>6
  <2>2. QED
    BY <1>3, <1>4, <1>6, <2>1, DeliversSkipped
<1>11. /\ keys' \in Nat /\ breaks' \in Nat /\ queue' \in Seq(Message(Epoch, p))
       /\ QueueRises(queue', Epoch) /\ queue' = queue
  BY <1>1, <1>3 DEF ViewerInv, ViewerTyped
<1>12. t.state \in {"accepted", "open"} => 1 <= t.next
  BY <1>3, <1>6, <1>7, <1>8, <1>9
<1>13. QED
  BY <1>1, <1>3, <1>5, <1>9, <1>10, <1>11, <1>12, StreamMoves

(* A message that is no log of the newest subscription leaves its queue.   *)
LEMMA QueueTold ==
  ASSUME ViewerInv, NEW e \in 1..Epoch, NEW kind \in {"connected", "log", "disconnected"},
         NEW n \in 0..Len(published), Tell(e, kind, n)
  PROVE  /\ queue' \in Seq(Message(Epoch, Len(published)))
         /\ e = Epoch /\ kind = "log" =>
              /\ Queued(queue', Epoch) = Queued(queue, Epoch) \cup {n}
              /\ Below(Queued(queue, Epoch), {n}) => QueueRises(queue', Epoch)
         /\ ~(e = Epoch /\ kind = "log") =>
              Queued(queue', Epoch) = Queued(queue, Epoch) /\ QueueRises(queue', Epoch)
<1>1. PICK M, msg : /\ M = Message(Epoch, Len(published))
                    /\ msg = [epoch |-> e, kind |-> kind, n |-> n]
  OBVIOUS
<1>2. queue' = Append(queue, msg) /\ queue \in Seq(M) /\ QueueRises(queue, Epoch)
  BY <1>1 DEF Tell, ViewerInv, ViewerTyped
<1>3. msg \in M /\ msg.epoch = e /\ msg.kind = kind /\ msg.n = n
  BY <1>1 DEF Message
<1>4. IsLog(msg, Epoch) <=> e = Epoch /\ kind = "log"
  BY <1>3 DEF IsLog
<1>5. queue' \in Seq(M)
  BY <1>2, <1>3, AppendProperties
<1>6. /\ IsLog(msg, Epoch) => Queued(queue', Epoch) = Queued(queue, Epoch) \cup {msg.n}
      /\ ~IsLog(msg, Epoch) => Queued(queue', Epoch) = Queued(queue, Epoch)
      /\ (IsLog(msg, Epoch) => Below(Queued(queue, Epoch), {msg.n})) => QueueRises(queue', Epoch)
  BY <1>2, <1>3, QueueGrows
<1>7. QED
  BY <1>1, <1>3, <1>4, <1>5, <1>6

LEMMA TaskConnectedInv == ASSUME ViewerInv, NEW e \in 1..Epoch, TaskConnected(e) PROVE ViewerInv'
<1>1. PICK p, a : p = Len(published) /\ a = tasks[e]
  OBVIOUS
<1>2. /\ p \in Nat /\ a \in Task(p)
      /\ a.state \in {"accepted", "open"} => 1 <= a.next
      /\ e = Epoch => Delivers(published, a, Queued(queue, Epoch), seen, Range(shown))
  BY <1>1, TaskOf
<1>3. /\ a.state = "accepted" /\ Tell(e, "connected", 0)
      /\ UNCHANGED <<published, screenVars, keys, breaks>>
  BY <1>1 DEF TaskConnected
<1>4. PICK t : t = [a EXCEPT !.state = "open"]
  OBVIOUS
<1>5. tasks' = [tasks EXCEPT ![e] = t]
  BY <1>1, <1>4 DEF TaskConnected, ViewerInv, ViewerTyped
<1>6. /\ t \in Task(p) /\ t.filter = a.filter /\ t.state = "open" /\ t.next = a.next
      /\ t.since = a.since /\ t.wire = a.wire /\ t.skipped = a.skipped
  BY <1>2, <1>4 DEF Task
<1>7. /\ queue' \in Seq(Message(Epoch, p)) /\ Queued(queue', Epoch) = Queued(queue, Epoch)
      /\ QueueRises(queue', Epoch)
  <2>1. 0 \in 0..Len(published)
    BY <1>1, <1>2
  <2>2. QED
    BY <1>1, <1>3, <2>1, QueueTold
<1>8. e = Epoch => Delivers(published, t, Queued(queue', Epoch), seen, Range(shown))
  <2> HAVE e = Epoch
  <2>1. Delivers(published, a, Queued(queue', Epoch), seen, Range(shown))
    BY <1>2, <1>7
  <2>2. QED
    BY <1>3, <1>6, <2>1 DEF Delivers, Known, Accounts
<1>9. keys' \in Nat /\ breaks' \in Nat
  BY <1>3 DEF ViewerInv, ViewerTyped
<1>10. QED
  BY <1>1, <1>2, <1>3, <1>5, <1>6, <1>7, <1>8, <1>9, StreamMoves

LEMMA TaskReadsInv == ASSUME ViewerInv, NEW e \in 1..Epoch, TaskReads(e) PROVE ViewerInv'
<1>1. PICK p, a, h : p = Len(published) /\ a = tasks[e] /\ h = Head(a.wire)
  OBVIOUS
<1>2. /\ p \in Nat /\ a \in Task(p)
      /\ a.state \in {"accepted", "open"} => 1 <= a.next
      /\ e = Epoch => Delivers(published, a, Queued(queue, Epoch), seen, Range(shown))
  BY <1>1, TaskOf
<1>3. /\ a.wire # <<>> /\ Tell(e, "log", h)
      /\ UNCHANGED <<published, screenVars, keys, breaks>>
  BY <1>1 DEF TaskReads
<1>4. PICK t : t = [a EXCEPT !.wire = Tail(@)]
  OBVIOUS
<1>5. tasks' = [tasks EXCEPT ![e] = t]
  BY <1>1, <1>4 DEF TaskReads, ViewerInv, ViewerTyped
<1>6. h \in 1..p /\ Tail(a.wire) \in Seq(1..p) /\ h \in Range(a.wire)
  <2>1. a.wire \in Seq(1..p) /\ a.wire \in Seq(Nat)
    BY <1>2, TaskFields
  <2>2. h \in 1..p /\ Tail(a.wire) \in Seq(1..p)
    BY <1>1, <1>3, <2>1, HeadTailProperties
  <2>3. h \in Range(a.wire)
    BY <1>1, <1>3, <2>1, TailFacts
  <2>4. QED
    BY <2>2, <2>3
<1>7. t \in Task(p) /\ t.filter = a.filter /\ t.state = a.state /\ t.next = a.next
  BY <1>2, <1>4, <1>6 DEF Task
<1>8. e = Epoch => Below(Queued(queue, Epoch), {h})
  BY <1>2, <1>6 DEF Delivers, Below
<1>9. /\ queue' \in Seq(Message(Epoch, p))
      /\ e = Epoch => Queued(queue', Epoch) = Queued(queue, Epoch) \cup {h}
      /\ e # Epoch => Queued(queue', Epoch) = Queued(queue, Epoch)
      /\ QueueRises(queue', Epoch)
  <2>1. h \in 0..Len(published)
    BY <1>1, <1>2, <1>6
  <2>2. QED
    BY <1>1, <1>3, <1>8, <2>1, QueueTold
<1>10. e = Epoch => Delivers(published, t, Queued(queue', Epoch), seen, Range(shown))
  <2> HAVE e = Epoch
  <2>1. /\ Len(published) \in Nat /\ a \in Task(Len(published))
        /\ Delivers(published, a, Queued(queue, Epoch), seen, Range(shown))
    BY <1>1, <1>2
  <2>2. Delivers(published, t, Queued(queue, Epoch) \cup {h}, seen, Range(shown))
    BY <1>1, <1>3, <1>4, <2>1, DeliversRead
  <2>3. QED
    BY <1>9, <2>2
<1>11. keys' \in Nat /\ breaks' \in Nat
  BY <1>3 DEF ViewerInv, ViewerTyped
<1>12. QED
  BY <1>1, <1>2, <1>3, <1>5, <1>7, <1>9, <1>10, <1>11, StreamMoves

LEMMA TaskEndsInv ==
  ASSUME ViewerInv, NEW e \in 1..Epoch, TaskFails(e) \/ StreamIsOver(e) \/ TaskAborted(e)
  PROVE  ViewerInv'
<1>1. PICK p, a : p = Len(published) /\ a = tasks[e]
  OBVIOUS
<1>2. /\ p \in Nat /\ a \in Task(p)
      /\ e = Epoch => Delivers(published, a, Queued(queue, Epoch), seen, Range(shown))
  BY <1>1, TaskOf
<1>3. /\ Tell(e, "disconnected", 0) \/ queue' = queue
      /\ UNCHANGED <<published, screenVars, keys>> /\ breaks' \in {breaks, breaks + 1}
  BY DEF TaskFails, StreamIsOver, TaskAborted
<1>4. PICK t : t = Ended(a)
  OBVIOUS
<1>5. tasks' = [tasks EXCEPT ![e] = t]
  BY <1>1, <1>4 DEF TaskFails, StreamIsOver, TaskAborted, ViewerInv, ViewerTyped
<1>6. t \in Task(p) /\ t.filter = a.filter /\ t.state = "ended"
  <2>1. <<>> \in Seq(1..p)
    BY InEmpty
  <2>2. QED
    BY <1>2, <1>4, <2>1 DEF Task, Ended
<1>7. /\ queue' \in Seq(Message(Epoch, p)) /\ Queued(queue', Epoch) = Queued(queue, Epoch)
      /\ QueueRises(queue', Epoch)
  <2>1. CASE Tell(e, "disconnected", 0)
    <3>1. 0 \in 0..Len(published)
      BY <1>1, <1>2
    <3>2. QED
      BY <1>1, <2>1, <3>1, QueueTold
  <2>2. CASE queue' = queue
    BY <1>1, <2>2 DEF ViewerInv, ViewerTyped
  <2>3. QED
    BY <1>3, <2>1, <2>2
<1>8. e = Epoch => Delivers(published, t, Queued(queue', Epoch), seen, Range(shown))
  <2> HAVE e = Epoch
  <2>1. /\ Len(published) \in Nat /\ a \in Task(Len(published))
        /\ Delivers(published, a, Queued(queue, Epoch), seen, Range(shown))
    BY <1>1, <1>2
  <2>2. Delivers(published, t, Queued(queue, Epoch), seen, Range(shown))
    BY <1>4, <2>1, DeliversEnded
  <2>3. QED
    BY <1>7, <2>2
<1>9. keys' \in Nat /\ breaks' \in Nat
  BY <1>3 DEF ViewerInv, ViewerTyped
<1>10. QED
  BY <1>1, <1>3, <1>5, <1>6, <1>7, <1>8, <1>9, StreamMoves

LEMMA ClampedTyped ==
  ASSUME NEW lines \in Nat, NEW length \in 0..MaxLogs
  PROVE  Clamped(lines, length) \in 0..MaxLogs
<1>1. MaxLogs \in Nat /\ Viewport \in Nat /\ Viewport >= 1
  BY LogViewerAssumption
<1>2. QED
  BY <1>1 DEF Clamped, MinOf, MaxOf

(* A step of the screen: the streams and the filters stay.                 *)
LEMMA ScreenMoves ==
  ASSUME ViewerInv, UNCHANGED <<published, tasks, selected, minLevel>>,
         queue' \in Seq(Message(Epoch, Len(published))),
         shown' \in Seq(1..Len(published)), Len(shown') <= MaxLogs,
         scroll' \in 0..MaxLogs, conn' \in {"reconnecting", "live", "error"},
         keys' \in Nat, breaks' \in Nat,
         Rising(shown'), QueueRises(queue', Epoch),
         Delivers(published, tasks[Epoch], Queued(queue', Epoch), seen', Range(shown'))
  PROVE  ViewerInv'
<1>1. Epoch' = Epoch /\ tasks' = tasks
  BY DEF Epoch
<1>2. ViewerTyped'
  BY <1>1 DEF ViewerInv, ViewerTyped
<1>3. Positioned' /\ Epoch >= 1
  BY <1>1 DEF ViewerInv, Positioned
<1>4. tasks[Epoch].filter = CurrentQuery(selected, minLevel)
  BY DEF ViewerInv
<1>5. CurrentQuery(selected, minLevel)' = CurrentQuery(selected, minLevel)
  BY DEF CurrentQuery
<1>6. QED
  BY <1>1, <1>2, <1>3, <1>4, <1>5 DEF ViewerInv

LEMMA OnMsgInv == ASSUME ViewerInv, OnMsg PROVE ViewerInv'
<1>1. PICK p, a, msg : p = Len(published) /\ a = tasks[Epoch] /\ msg = Head(queue)
  OBVIOUS
<1>2. /\ queue # <<>> /\ queue' = Tail(queue)
      /\ UNCHANGED <<published, tasks, selected, minLevel, keys, breaks>>
      /\ \/ /\ msg.epoch = Epoch
            /\ conn' = IF msg.kind = "disconnected" THEN "error" ELSE "live"
            /\ \/ msg.kind = "log" /\ OnLog(msg.n)
               \/ msg.kind # "log" /\ UNCHANGED <<shown, seen, scroll>>
         \/ msg.epoch # Epoch /\ UNCHANGED <<shown, seen, scroll, conn>>
  BY <1>1 DEF OnMsg, ForMe
<1>3. /\ p \in Nat /\ Epoch \in 1..Epoch /\ a \in Task(p)
      /\ Delivers(published, a, Queued(queue, Epoch), seen, Range(shown))
  BY <1>1, CurrentTask, TaskOf DEF ViewerInv
<1>4. /\ queue \in Seq(Message(Epoch, p)) /\ QueueRises(queue, Epoch)
      /\ shown \in Seq(1..p) /\ Len(shown) <= MaxLogs /\ Rising(shown)
      /\ scroll \in 0..MaxLogs /\ conn \in {"reconnecting", "live", "error"}
      /\ keys' \in Nat /\ breaks' \in Nat
  BY <1>1, <1>2 DEF ViewerInv, ViewerTyped
<1>5. \A m \in Message(Epoch, p) : m.n \in Nat
  BY <1>3 DEF Message
<1>6. queue' \in Seq(Message(Epoch, p))
  BY <1>2, <1>4, HeadTailProperties
<1>7. /\ QueueRises(queue', Epoch)
      /\ IsLog(msg, Epoch) =>
           /\ msg.n \in Queued(queue, Epoch)
           /\ Queued(queue', Epoch) = Queued(queue, Epoch) \ {msg.n}
           /\ Below({msg.n}, Queued(queue, Epoch) \ {msg.n})
      /\ ~IsLog(msg, Epoch) => Queued(queue', Epoch) = Queued(queue, Epoch)
  BY <1>1, <1>2, <1>4, <1>5, QueueShrinks
<1>8. conn' \in {"reconnecting", "live", "error"}
  BY <1>2, <1>4
<1>9. CASE IsLog(msg, Epoch)
  <2>1. PICK n : n = msg.n
    OBVIOUS
  <2>2. /\ shown' = PushLog(shown, n) /\ seen' = seen \cup {n}
        /\ scroll' = Clamped(IF scroll > 0 THEN scroll + 1 ELSE 0, Len(shown'))
    BY <1>2, <1>9, <2>1 DEF IsLog, OnLog
  <2>3. n \in 1..p /\ Below(Range(shown), {n})
    BY <1>1, <1>3, <1>7, <1>9, <2>1 DEF Delivers, Known, Below
  <2>4. /\ shown' \in Seq(1..p) /\ Rising(shown') /\ Len(shown') <= MaxLogs
        /\ Range(shown') \subseteq Range(shown) \cup {n}
    BY <1>3, <1>4, <2>2, <2>3, PushedLog
  <2>5. scroll' \in 0..MaxLogs
    <3>1. MaxLogs \in Nat /\ Len(shown') \in Nat
      BY <2>4, LenProperties, LogViewerAssumption
    <3>2. Len(shown') \in 0..MaxLogs /\ (IF scroll > 0 THEN scroll + 1 ELSE 0) \in Nat
      BY <1>4, <2>4, <3>1
    <3>3. QED
      BY <2>2, <3>2, ClampedTyped
  <2>6. Delivers(published, a, Queued(queue', Epoch), seen', Range(shown'))
    <3>1. {n} \subseteq Queued(queue, Epoch) /\ Below({n}, Queued(queue, Epoch) \ {n})
      BY <1>7, <1>9, <2>1
    <3>2. Delivers(published, a, Queued(queue, Epoch) \ {n}, seen \cup {n}, Range(shown'))
      BY <1>3, <2>4, <3>1, DeliversReceived
    <3>3. QED
      BY <1>7, <1>9, <2>1, <2>2, <3>2
  <2>7. QED
    BY <1>1, <1>2, <1>4, <1>6, <1>7, <1>8, <2>4, <2>5, <2>6, ScreenMoves
<1>10. CASE ~IsLog(msg, Epoch)
  <2>1. UNCHANGED <<shown, seen, scroll>>
    BY <1>2, <1>10 DEF IsLog
  <2>2. Delivers(published, a, Queued(queue', Epoch), seen', Range(shown'))
    BY <1>3, <1>7, <1>10, <2>1
  <2>3. QED
    BY <1>1, <1>2, <1>4, <1>6, <1>7, <1>8, <2>1, <2>2, ScreenMoves
<1>11. QED
  BY <1>9, <1>10

LEMMA ScrollInv ==
  ASSUME ViewerInv, ScrollUp \/ ScrollDown \/ ClearLogs
  PROVE  ViewerInv'
<1>1. PICK p : p = Len(published)
  OBVIOUS
<1>2. /\ shown \in Seq(1..p) /\ Len(shown) <= MaxLogs /\ scroll \in 0..MaxLogs
      /\ keys \in Nat /\ breaks \in Nat /\ conn \in {"reconnecting", "live", "error"}
      /\ queue \in Seq(Message(Epoch, p)) /\ QueueRises(queue, Epoch) /\ Rising(shown)
      /\ Delivers(published, tasks[Epoch], Queued(queue, Epoch), seen, Range(shown))
  BY <1>1 DEF ViewerInv, ViewerTyped
<1>3. /\ MaxLogs \in Nat /\ Viewport \in Nat /\ Viewport >= 1 /\ Len(shown) \in 0..MaxLogs
      /\ ScrollStep \in Nat
  <2>1. MaxLogs \in Nat /\ Viewport \in Nat /\ Viewport >= 1 /\ Len(shown) \in Nat
    BY <1>2, LenProperties, LogViewerAssumption
  <2>2. Viewport \div 2 \in Nat
    BY <2>1
  <2>3. QED
    BY <1>2, <2>1, <2>2 DEF ScrollStep, MaxOf
<1>4. CASE ScrollUp \/ ScrollDown
  <2>1. Clamped(scroll + ScrollStep, Len(shown)) \in 0..MaxLogs
    <3>1. scroll + ScrollStep \in Nat
      BY <1>2, <1>3
    <3>2. QED
      BY <1>3, <3>1, ClampedTyped
  <2>2. MaxOf(0, scroll - ScrollStep) \in 0..MaxLogs
    BY <1>2, <1>3 DEF MaxOf
  <2>3. scroll' \in 0..MaxLogs
    BY <1>4, <2>1, <2>2 DEF ScrollUp, ScrollDown, Scroll
  <2>4. /\ UNCHANGED <<published, tasks, queue, selected, minLevel, shown, conn, seen, breaks>>
        /\ keys' = keys + 1
    BY <1>4 DEF ScrollUp, ScrollDown, Scroll
  <2>5. keys' \in Nat /\ breaks' \in Nat
    BY <1>2, <2>4
  <2>6. QED
    BY <1>1, <1>2, <2>3, <2>4, <2>5, ScreenMoves
<1>5. CASE ClearLogs
  <2>1. /\ UNCHANGED <<published, tasks, queue, selected, minLevel, conn, seen, breaks>>
        /\ keys' = keys + 1 /\ shown' = <<>> /\ scroll' = 0
    BY <1>5 DEF ClearLogs
  <2>2. keys' \in Nat /\ breaks' \in Nat /\ scroll' \in 0..MaxLogs
    BY <1>2, <1>3, <2>1
  <2>3. /\ shown' \in Seq(1..p) /\ Len(shown') <= MaxLogs /\ Rising(shown') /\ Range(shown') = {}
    BY <1>3, <2>1, InEmpty DEF Rising
  <2>4. Delivers(published, tasks[Epoch], Queued(queue', Epoch), seen', Range(shown'))
    BY <1>2, <2>1, <2>3 DEF Delivers, Below
  <2>5. QED
    BY <1>1, <1>2, <2>1, <2>2, <2>3, <2>4, ScreenMoves
<1>6. QED
  BY <1>4, <1>5

LEMMA QueryTyped ==
  ASSUME NEW position \in 0..Len(Devices), NEW level \in Level \cup {NoLevel}
  PROVE  CurrentQuery(position, level) \in Filter
<1>1. Devices \in Seq(Device) /\ Len(Devices) \in Nat
  BY LogViewerAssumption, LenProperties
<1>2. position # 0 => Devices[position] \in Device
  BY <1>1, ElementOfSeq
<1>3. PICK d : d = IF position = 0 THEN Unset ELSE Devices[position]
  OBVIOUS
<1>4. d \in Device \cup {Unset}
  BY <1>2, <1>3
<1>5. CurrentQuery(position, level) = [kind |-> Unset, application |-> Unset, level |-> level, device |-> d]
  BY <1>3 DEF CurrentQuery
<1>6. QED
  BY <1>4, <1>5 DEF Filter

LEMMA NewTaskTyped ==
  ASSUME NEW p \in Nat, NEW filter \in Filter
  PROVE  NewTask(filter) \in Task(p) /\ NewTask(filter).filter = filter
                                     /\ NewTask(filter).state = "connecting"
<1>1. <<>> \in Seq(1..p) /\ {} \subseteq 1..p
  BY InEmpty
<1>2. QED
  BY <1>1 DEF NewTask, Task

(* A new subscription: what still waits in the queue is for older ones.    *)
LEMMA ReconnectInv ==
  ASSUME ViewerInv, NEW position \in 0..Len(Devices), NEW level \in Level \cup {NoLevel},
         Reconnect(position, level)
  PROVE  ViewerInv'
<1>1. PICK p, e, t : p = Len(published) /\ e = Epoch /\ t = NewTask(CurrentQuery(position, level))
  OBVIOUS
<1>2. /\ UNCHANGED <<published, queue, shown, breaks>> /\ keys' = keys + 1
      /\ selected' = position /\ minLevel' = level /\ tasks' = Append(tasks, t)
      /\ conn' = "reconnecting" /\ scroll' = 0 /\ seen' = {}
  BY <1>1 DEF Reconnect
<1>3. /\ p \in Nat /\ e \in Nat /\ e >= 1
      /\ tasks \in Seq(Task(p)) /\ Len(tasks) = e
      /\ queue \in Seq(Message(e, p))
      /\ shown \in Seq(1..p) /\ Len(shown) <= MaxLogs /\ Rising(shown)
      /\ keys \in Nat /\ breaks \in Nat /\ MaxLogs \in Nat
  BY <1>1, LengthsTyped, LogViewerAssumption DEF ViewerInv, ViewerTyped, Epoch
<1>4. t \in Task(p) /\ t.filter = CurrentQuery(position, level) /\ t.state = "connecting"
  BY <1>1, <1>3, QueryTyped, NewTaskTyped
<1>5. /\ tasks' \in Seq(Task(p)) /\ Epoch' = e + 1
      /\ tasks'[e + 1] = t /\ \A k \in 1..e : tasks'[k] = tasks[k]
  BY <1>2, <1>3, <1>4, AppendProperties DEF Epoch
<1>6. queue \in Seq(Message(e + 1, p))
  <2>1. Message(e, p) \subseteq Message(e + 1, p)
    <3>1. 1..e \subseteq 1..(e + 1)
      BY <1>3
    <3>2. QED
      BY <3>1 DEF Message
  <2>2. QED
    BY <1>3, <2>1, SeqMonotonic
<1>7. LogsIn(queue, e + 1) = {}
  <2>1. \A i \in 1..Len(queue) : queue[i].epoch \in 1..e
    <3>1. \A i \in 1..Len(queue) : queue[i] \in Message(e, p)
      BY <1>3, ElementOfSeq
    <3>2. QED
      BY <3>1 DEF Message
  <2>2. e + 1 \notin 1..e
    BY <1>3
  <2>3. QED
    BY <2>1, <2>2 DEF LogsIn
<1>8. Queued(queue, e + 1) = {} /\ QueueRises(queue, e + 1)
  BY <1>7 DEF Queued, QueueRises
<1>9. ViewerTyped'
  <2>1. keys' \in Nat /\ breaks' \in Nat /\ 0 \in 0..MaxLogs
    BY <1>2, <1>3
  <2>2. published \in Seq(Event)
    BY DEF ViewerInv, ViewerTyped
  <2>3. QED
    BY <1>1, <1>2, <1>3, <1>5, <1>6, <2>1, <2>2 DEF ViewerTyped
<1>10. Positioned'
  <2>1. ASSUME NEW k \in 1..(e + 1) PROVE tasks'[k].state \in {"accepted", "open"} => 1 <= tasks'[k].next
    <3>1. CASE k = e + 1
      BY <1>4, <1>5, <3>1
    <3>2. CASE k \in 1..e
      BY <1>1, <1>5, <3>2 DEF ViewerInv, Positioned
    <3>3. QED
      BY <1>3, <3>1, <3>2
  <2>2. QED
    BY <1>5, <2>1 DEF Positioned
<1>11. Delivers(published, t, {}, {}, Range(shown))
  <2>1. Range(shown) \subseteq 1..Len(published)
    BY <1>1, <1>3, InSequence
  <2>2. QED
    BY <1>1, <2>1, DeliversNothingYet
<1>12. CurrentQuery(selected, minLevel)' = CurrentQuery(position, level)
  BY <1>2 DEF CurrentQuery
<1>13. Rising(shown)' /\ QueueRises(queue, Epoch)'
  BY <1>2, <1>3, <1>5, <1>8
<1>14. Delivers(published, tasks[Epoch], Queued(queue, Epoch), seen, Range(shown))'
  BY <1>2, <1>5, <1>8, <1>11
<1>15. Epoch' >= 1 /\ tasks'[Epoch'].filter = CurrentQuery(selected, minLevel)'
  BY <1>3, <1>4, <1>5, <1>12
<1>16. QED
  BY <1>9, <1>10, <1>13, <1>14, <1>15 DEF ViewerInv

LEMMA OnKeyInv == ASSUME ViewerInv, OnKey PROVE ViewerInv'
<1>1. /\ selected \in 0..Len(Devices) /\ minLevel \in Level \cup {NoLevel}
      /\ Len(Devices) \in Nat /\ LevelKeys \subseteq Level
  BY LogViewerAssumption, LenProperties DEF ViewerInv, ViewerTyped
<1>2. CASE \E level \in LevelKeys \cup {NoLevel} : SetLevel(level)
  BY <1>1, <1>2, ReconnectInv DEF SetLevel
<1>3. CASE SelectNext
  <2>1. selected + 1 \in 0..Len(Devices) /\ Reconnect(selected + 1, minLevel)
    BY <1>1, <1>3 DEF SelectNext
  <2>2. QED
    BY <1>1, <2>1, ReconnectInv
<1>4. CASE SelectPrev
  <2>1. selected - 1 \in 0..Len(Devices) /\ Reconnect(selected - 1, minLevel)
    BY <1>1, <1>4 DEF SelectPrev
  <2>2. QED
    BY <1>1, <2>1, ReconnectInv
<1>5. CASE SelectAll
  <2>1. 0 \in 0..Len(Devices) /\ Reconnect(0, minLevel)
    BY <1>1, <1>5 DEF SelectAll
  <2>2. QED
    BY <1>1, <2>1, ReconnectInv
<1>6. CASE ClearLogs \/ ScrollUp \/ ScrollDown
  BY <1>6, ScrollInv
<1>7. QED
  BY <1>2, <1>3, <1>4, <1>5, <1>6 DEF OnKey

LEMMA ViewerNextInv == ASSUME ViewerInv, ViewerNext PROVE ViewerInv'
<1>1. CASE OnMsg
  BY <1>1, OnMsgInv
<1>2. CASE OnKey
  BY <1>2, OnKeyInv
<1>3. CASE \E e \in 1..Epoch : StreamTask(e)
  <2>1. PICK e \in 1..Epoch : StreamTask(e)
    BY <1>3
  <2>2. QED
    BY <2>1, SubscribeInv, SendInv, SkipLaggedInv, TaskConnectedInv, TaskReadsInv, TaskEndsInv
    DEF StreamTask
<1>4. QED
  BY <1>1, <1>2, <1>3 DEF ViewerNext

-----------------------------------------------------------------------------
(* The server publishes what the agent has shipped.                        *)

LEMMA DeviceEventTyped == ASSUME NEW e PROVE DeviceEvent(e) \in Event
<1>1. LevelOf(e) \in Level
  BY DEF LevelOf, Level
<1>2. ThisDevice \in Device
  BY LogPathAssumption
<1>3. QED
  BY <1>1, <1>2 DEF DeviceEvent, Event

LEMMA ApplicationEventTyped == ASSUME NEW line \in Line PROVE ApplicationEvent(line) \in Event
<1>1. LevelOf(line[2]) \in Level
  BY DEF LevelOf, Level
<1>2. ThisDevice \in Device /\ line[1] \in Application
  BY LogPathAssumption DEF Line
<1>3. QED
  BY <1>1, <1>2 DEF ApplicationEvent, Event

LEMMA PublishInv ==
  ASSUME ViewerInv, ViewerRests, NEW events \in Seq(Event), Publish(events)
  PROVE  ViewerInv'
<1>1. PICK p, pp : p = Len(published) /\ pp = Len(published')
  OBVIOUS
<1>2. /\ published \in Seq(Event) /\ p \in Nat
      /\ tasks \in Seq(Task(p)) /\ queue \in Seq(Message(Epoch, p)) /\ shown \in Seq(1..p)
  BY <1>1, LengthsTyped DEF ViewerInv, ViewerTyped
<1>3. /\ published' \in Seq(Event) /\ pp \in Nat /\ p <= pp
      /\ \A i \in 1..p : published'[i] = published[i]
  <2>1. /\ published' \in Seq(Event) /\ pp = p + Len(events) /\ Len(events) \in Nat
        /\ \A i \in 1..(p + Len(events)) :
             published'[i] = IF i <= p THEN published[i] ELSE events[i - p]
    BY <1>1, <1>2, ConcatProperties, LenProperties DEF Publish
  <2>2. \A i \in 1..p : i \in 1..(p + Len(events)) /\ i <= p
    BY <1>2, <2>1
  <2>3. \A i \in 1..p : published'[i] = published[i]
    BY <2>1, <2>2
  <2>4. pp \in Nat /\ p <= pp
    BY <1>2, <2>1
  <2>5. QED
    BY <2>1, <2>3, <2>4
<1>4. UNCHANGED <<tasks, queue, selected, minLevel, shown, scroll, conn, seen, keys, breaks>>
      /\ Epoch' = Epoch
  BY DEF ViewerRests, screenVars, Epoch
<1>5. 1..p \subseteq 1..pp /\ 0..p \subseteq 0..pp
  BY <1>2, <1>3
<1>6. Task(p) \subseteq Task(pp)
  <2>1. Seq(1..p) \subseteq Seq(1..pp)
    BY <1>5, SeqMonotonic
  <2>2. QED
    BY <1>5, <2>1 DEF Task
<1>7. Message(Epoch, p) \subseteq Message(Epoch, pp)
  BY <1>5 DEF Message
<1>8. tasks \in Seq(Task(pp)) /\ queue \in Seq(Message(Epoch, pp)) /\ shown \in Seq(1..pp)
  BY <1>2, <1>5, <1>6, <1>7, SeqMonotonic
<1>9. ViewerTyped'
  BY <1>1, <1>3, <1>4, <1>8 DEF ViewerInv, ViewerTyped
<1>10. Delivers(published', tasks[Epoch], Queued(queue, Epoch), seen, Range(shown))
  <2>1. /\ tasks[Epoch] \in Task(Len(published)) /\ Len(published) \in Nat
        /\ Delivers(published, tasks[Epoch], Queued(queue, Epoch), seen, Range(shown))
    BY CurrentTask, LengthsTyped DEF ViewerInv
  <2>2. /\ Len(published') \in Nat /\ Len(published) <= Len(published')
        /\ \A i \in 1..Len(published) : published'[i] = published[i]
    BY <1>1, <1>3
  <2>3. QED
    BY <2>1, <2>2, DeliversPublished
<1>11. Positioned' /\ Rising(shown)' /\ QueueRises(queue, Epoch)' /\ Epoch' >= 1
  BY <1>4 DEF ViewerInv, Positioned
<1>12. tasks'[Epoch].filter = CurrentQuery(selected, minLevel)'
  BY <1>4 DEF ViewerInv, CurrentQuery
<1>13. QED
  BY <1>4, <1>9, <1>10, <1>11, <1>12 DEF ViewerInv

LEMMA ViewerStays == ASSUME ViewerInv, UNCHANGED viewerVars PROVE ViewerInv'
<1>1. UNCHANGED <<published, tasks, queue, selected, minLevel, shown, scroll, conn, seen, keys, breaks>>
  BY DEF viewerVars, screenVars
<1>2. Epoch' = Epoch /\ CurrentQuery(selected, minLevel)' = CurrentQuery(selected, minLevel)
  BY <1>1 DEF Epoch, CurrentQuery
<1>3. ViewerTyped' /\ Positioned'
  BY <1>1, <1>2 DEF ViewerInv, ViewerTyped, Positioned
<1>4. QED
  BY <1>1, <1>2, <1>3 DEF ViewerInv

LEMMA DeviceShipsInv == ASSUME DeviceLogInv, ViewerInv, DeviceShips PROVE ViewerInv'
<1>1. rows \in Seq(Nat) /\ buffer \in Seq(Nat)
  BY HeldTyped DEF DeviceLogInv
<1>2. rows' = rows \o buffer
  BY DEF DeviceShips, PushStored, PushAnswerLost
<1>3. PICK n : n = Len(rows') - Len(rows)
  OBVIOUS
<1>4. n \in Nat
  BY <1>1, <1>2, <1>3, ConcatFacts
<1>5. PICK events : events = [i \in 1..n |-> DeviceEvent(rows'[Len(rows) + i])]
  OBVIOUS
<1>6. events \in Seq(Event)
  <2>1. \A i \in 1..n : DeviceEvent(rows'[Len(rows) + i]) \in Event
    BY DeviceEventTyped
  <2>2. events \in [1..n -> Event]
    BY <1>5, <2>1
  <2>3. QED
    BY <1>4, <2>2
<1>7. ViewerRests /\ (Publish(events) \/ UNCHANGED published)
  BY <1>3, <1>5 DEF DeviceShips, PublishDevice
<1>8. CASE Publish(events)
  BY <1>6, <1>7, <1>8, PublishInv
<1>9. CASE UNCHANGED published
  BY <1>7, <1>9, ViewerStays DEF ViewerRests, viewerVars
<1>10. QED
  BY <1>7, <1>8, <1>9

LEMMA ApplicationShipsInv == ASSUME AppLogInv, ViewerInv, ApplicationShips PROVE ViewerInv'
<1>1. appRows \in Seq(Line) /\ buffers[registry.app] \in Seq(Line)
  BY DEF ApplicationShips, AppPushStored, AppPushAnswerLost, AppLogInv, AppLogTypeOK, Pushes
<1>2. appRows' = appRows \o buffers[registry.app]
  BY DEF ApplicationShips, AppPushStored, AppPushAnswerLost
<1>3. PICK n, l : n = Len(appRows') - Len(appRows) /\ l = Len(appRows)
  OBVIOUS
<1>4. n \in Nat /\ l \in Nat /\ Len(appRows') = l + n /\ appRows' \in Seq(Line)
  <2>1. /\ appRows' \in Seq(Line) /\ Len(appRows') = l + Len(buffers[registry.app])
        /\ l \in Nat /\ Len(buffers[registry.app]) \in Nat
    BY <1>1, <1>2, <1>3, ConcatProperties, LenProperties
  <2>2. QED
    BY <1>3, <2>1
<1>5. PICK events : events = [i \in 1..n |-> ApplicationEvent(appRows'[l + i])]
  OBVIOUS
<1>6. events \in Seq(Event)
  <2>1. \A i \in 1..n : l + i \in 1..Len(appRows')
    BY <1>4
  <2>2. \A i \in 1..n : ApplicationEvent(appRows'[l + i]) \in Event
    BY <1>4, <2>1, ElementOfSeq, ApplicationEventTyped
  <2>3. events \in [1..n -> Event]
    BY <1>5, <2>2
  <2>4. QED
    BY <1>4, <2>3
<1>7. ViewerRests /\ (Publish(events) \/ UNCHANGED published)
  BY <1>3, <1>5 DEF ApplicationShips, PublishApplication
<1>8. CASE Publish(events)
  BY <1>6, <1>7, <1>8, PublishInv
<1>9. CASE UNCHANGED published
  BY <1>7, <1>9, ViewerStays DEF ViewerRests, viewerVars
<1>10. QED
  BY <1>7, <1>8, <1>9

LEMMA StepViewerInv ==
  DeviceLogInv /\ AppLogInv /\ ViewerInv /\ [PathNext]_pathVars => ViewerInv'
<1> SUFFICES ASSUME DeviceLogInv, AppLogInv, ViewerInv, [PathNext]_pathVars PROVE ViewerInv'
  OBVIOUS
<1>1. CASE DeviceShips
  BY <1>1, DeviceShipsInv
<1>2. CASE ApplicationShips
  BY <1>2, ApplicationShipsInv
<1>3. CASE UserWatches
  BY <1>3, ViewerNextInv DEF UserWatches
<1>4. CASE AgentLogs \/ AgentEnds \/ ApplicationLogs
  BY <1>4, ViewerStays DEF AgentLogs, AgentEnds, ApplicationLogs
<1>5. CASE UNCHANGED pathVars
  BY <1>5, ViewerStays DEF pathVars
<1>6. QED
  BY <1>1, <1>2, <1>3, <1>4, <1>5 DEF PathNext

LEMMA InitViewerInv == ASSUME ViewerInit PROVE ViewerInv
<1>1. PICK t : t = NewTask(CurrentQuery(selected, minLevel))
  OBVIOUS
<1>2. /\ published = <<>> /\ tasks = <<t>> /\ queue = <<>> /\ shown = <<>> /\ scroll = 0
      /\ conn = "reconnecting" /\ seen = {} /\ keys = 0 /\ breaks = 0
      /\ selected \in 0..Len(Devices) /\ minLevel \in Level \cup {NoLevel}
  BY <1>1, LogViewerAssumption DEF ViewerInit
<1>3. /\ Len(published) = 0 /\ Len(queue) = 0 /\ Len(shown) = 0
      /\ published \in Seq(Event) /\ queue \in Seq(Message(1, 0)) /\ shown \in Seq(1..0)
      /\ Range(shown) = {}
  BY <1>2, InEmpty
<1>4. t \in Task(0) /\ t.filter = CurrentQuery(selected, minLevel) /\ t.state = "connecting"
  BY <1>1, <1>2, QueryTyped, NewTaskTyped
<1>5. tasks \in Seq(Task(0)) /\ Epoch = 1 /\ tasks[1] = t
  BY <1>2, <1>4 DEF Epoch
<1>6. ViewerTyped
  <2>1. MaxLogs \in Nat
    BY LogViewerAssumption
  <2>2. QED
    BY <1>2, <1>3, <1>5, <2>1 DEF ViewerTyped
<1>7. Positioned
  BY <1>4, <1>5 DEF Positioned
<1>8. Queued(queue, Epoch) = {} /\ QueueRises(queue, Epoch) /\ Rising(shown)
  BY <1>3 DEF Queued, QueueRises, LogsIn, Rising
<1>9. Delivers(published, t, {}, {}, Range(shown))
  <2>1. Range(shown) \subseteq 1..Len(published)
    BY <1>3
  <2>2. QED
    BY <1>1, <2>1, DeliversNothingYet
<1>10. Delivers(published, tasks[Epoch], Queued(queue, Epoch), seen, Range(shown))
  BY <1>2, <1>5, <1>8, <1>9
<1>11. QED
  BY <1>4, <1>5, <1>6, <1>7, <1>8, <1>10 DEF ViewerInv

LEMMA AlwaysViewerInv == PathSpec => []ViewerInv
<1>1. PathInit => ViewerInv
  BY InitViewerInv DEF PathInit
<1>2. QED
  BY <1>1, StepViewerInv, PathHasTheDeviceLog, AlwaysDeviceLogInv, AlwaysAppLogInv, PTL DEF PathSpec

-----------------------------------------------------------------------------

(* What is received after a change of filter is what the historic logs     *)
(* would list under the filter in force, whatever the older streams still  *)
(* deliver (app.rs:90-107, routes/logs.rs:87-123).                         *)
THEOREM TailShowsWhatMatches == PathSpec => []ShownMatchesFilter
<1>1. ViewerInv => ShownMatchesFilter
  <2> SUFFICES ASSUME ViewerInv, NEW n \in seen
               PROVE  n \in ListDeviceLogs(CurrentQuery(selected, minLevel))
                            \cup ListApplicationLogs(CurrentQuery(selected, minLevel))
    BY DEF ShownMatchesFilter
  <2>1. PICK f : f = CurrentQuery(selected, minLevel)
    OBVIOUS
  <2>2. f.kind = Unset /\ f.application = Unset
    BY <2>1 DEF CurrentQuery
  <2>3. n \in 1..Len(published) /\ Matches(published[n], f)
    BY <2>1 DEF ViewerInv, Delivers, Known
  <2>4. n \in DOMAIN published /\ published[n] \in Event
    BY <2>3, LenProperties, ElementOfSeq DEF ViewerInv, ViewerTyped
  <2>5. published[n].kind \in {"device", "application"} /\ published[n].level \in Level
    BY <2>4 DEF Event
  <2>6. f.level = NoLevel \/ LevelName[published[n].level + 1] \in LevelsAtLeast(f.level)
    BY <2>3, <2>5 DEF Matches, LevelsAtLeast
  <2>7. QED
    BY <2>1, <2>2, <2>3, <2>4, <2>5, <2>6 DEF ListDeviceLogs, ListApplicationLogs, Matches
<1>2. QED
  BY <1>1, AlwaysViewerInv, PTL

(* The screen is in the order of publication; from the first event of a    *)
(* subscription to the last one received, whatever matches was received or *)
(* was overwritten in the channel (log_stream.rs:6-20, routes/logs.rs:     *)
(* 126-144, client.rs:145-170).                                            *)
THEOREM TailHasNoGap == PathSpec => []LiveTailIsComplete
<1>1. ViewerInv => LiveTailIsComplete
  <2> SUFFICES ASSUME ViewerInv PROVE LiveTailIsComplete
    OBVIOUS
  <2>1. PICK t, Q : t = tasks[Epoch] /\ Q = Queued(queue, Epoch)
    OBVIOUS
  <2>2. Delivers(published, t, Q, seen, Range(shown)) /\ t.since \in Nat
    BY <2>1, CurrentTask, LengthsTyped, TaskFields DEF ViewerInv
  <2>3. \A i, j \in DOMAIN shown : i < j => shown[i] < shown[j]
    <3>1. DOMAIN shown = 1..Len(shown)
      BY LenProperties DEF ViewerInv, ViewerTyped
    <3>2. QED
      BY <3>1 DEF ViewerInv, Rising
  <2>4. ASSUME NEW n \in seen, NEW m \in t.since..n, Matches(published[m], t.filter)
        PROVE  m \in seen \cup t.skipped
    <3>1. /\ n \in Nat /\ Accounts(published, t, Known(t, Q, seen), n)
          /\ \A x \in Q \cup Range(t.wire) : n < x
      <4>1. n \in Known(t, Q, seen) /\ Known(t, Q, seen) \subseteq 1..Len(published)
        BY <2>2 DEF Delivers, Known
      <4>2. Len(published) \in Nat
        BY LengthsTyped DEF ViewerInv
      <4>3. n \in Nat
        BY <4>1, <4>2
      <4>4. Accounts(published, t, Known(t, Q, seen), n)
        BY <2>2, <4>1 DEF Delivers
      <4>5. \A x \in Q \cup Range(t.wire) : n < x
        BY <2>2 DEF Delivers, Below
      <4>6. QED
        BY <4>3, <4>4, <4>5
    <3>2. m \in Known(t, Q, seen) \cup t.skipped /\ m <= n
      BY <2>2, <2>4, <3>1 DEF Accounts
    <3>3. m \notin Q \cup Range(t.wire)
      BY <2>2, <2>4, <3>1, <3>2
    <3>4. QED
      BY <3>2, <3>3 DEF Known
  <2>5. QED
    BY <2>1, <2>3, <2>4 DEF LiveTailIsComplete
<1>2. QED
  BY <1>1, AlwaysViewerInv, PTL

(* Every variable of the path keeps its type: no queue, screen or scroll   *)
(* leaves its bounds (logging.rs, log_registry.rs, app.rs).                *)
THEOREM PathTypeCorrect == PathSpec => []PathTypeOK
<1>1. ViewerInv => ViewerTypeOK
  <2> SUFFICES ASSUME ViewerInv PROVE ViewerTypeOK
    OBVIOUS
  <2>1. DOMAIN published = 1..Len(published) /\ Len(published) \in Nat
    BY LenProperties DEF ViewerInv, ViewerTyped
  <2>2. tasks \in Seq([state : {"connecting", "accepted", "open", "ended"}, filter : Filter,
                       since : Nat, next : Nat, wire : Seq(DOMAIN published),
                       skipped : SUBSET DOMAIN published])
    BY <2>1 DEF ViewerInv, ViewerTyped, Task
  <2>3. seen \subseteq DOMAIN published
    BY <2>1 DEF ViewerInv, Delivers, Known
  <2>4. QED
    BY <2>1, <2>2, <2>3 DEF ViewerInv, ViewerTyped, ViewerTypeOK, Message
<1>2. AppLogInv => AppLogTypeOK
  BY DEF AppLogInv
<1>3. load \in Loads /\ [PathNext]_pathVars => (load \in Loads)'
  BY DEF PathNext, pathVars
<1>4. PathInit => load \in Loads
  BY DEF PathInit
<1>5. DeviceLogTypeOK /\ AppLogTypeOK /\ ViewerTypeOK /\ load \in Loads => PathTypeOK
  BY DEF PathTypeOK
<1>6. PathSpec => [](load \in Loads)
  BY <1>3, <1>4, PTL DEF PathSpec
<1>7. QED
  BY <1>1, <1>2, <1>5, <1>6, PathHasTheDeviceLog, DeviceLogTypeCorrect, AlwaysAppLogInv,
     AlwaysViewerInv, PTL
=============================================================================
