-------------------------- MODULE EeVideoSrcProofs --------------------------
(***************************************************************************)
(* Proofs about EeVideoSrc, for every set of frames and formats, every     *)
(* size of the channel, every timeout and every number of packets and      *)
(* starts.                                                                 *)
(***************************************************************************)
EXTENDS EeVideoSrc, NatFacts

Event == {Failure} \cup [type: {"frame"}, number: Nat, format: Formats]

ThreadTypes ==
  /\ phase \in {"stopped", "running", "flushing", "joining"}
  /\ unlocked \in BOOLEAN /\ stop \in BOOLEAN /\ changed \in BOOLEAN
  /\ thread \in {"off", "top", "recv", "reap"}
  /\ creator \in {"out", "loop", "wait"}
  /\ flow \in {"ok", "flushing", "eos", "error", "not-negotiated"}

FrameTypes ==
  /\ waited \in 0 .. Poll
  /\ partial \in [Frames -> Partial \cup {None}]
  /\ current \in Formats \cup {None} /\ caps \in Formats \cup {None}

ChannelTypes == queue \in Seq(Event) /\ Len(queue) <= Capacity

CountTypes ==
  /\ dropped \in Nat /\ ingested \in Nat /\ starts \in Nat
  /\ completed \in Nat /\ pushed \in Nat
  /\ account \in [{"pushed", "unfinished", "refused", "discarded"} -> Nat]
  /\ early \in 0 .. Timeout

SrcTypes == ThreadTypes /\ FrameTypes /\ ChannelTypes /\ CountTypes

(* A stopped element has no thread and an empty channel.                   *)
StoppedEmpty == phase = "stopped" => thread = "off" /\ queue = <<>>

QueueOrder ==
  /\ StoppedEmpty
  /\ ErrorIsLast
  /\ InOrder
  /\ pushed <= completed

(* What is in the channel, what was negotiated and what the receiver       *)
(* thread compares with are one format, in every phase.                    *)
Uniform ==
  /\ \A i \in DOMAIN queue :
       queue[i].type = "frame" =>
         queue[i].format = current /\ expected \in {None, queue[i].format}
  /\ caps \in {None, current}

(* The age the code sees exceeds the silence by at most one read timeout.  *)
NearTimeout ==
  /\ ReapedNearTimeout
  /\ \A f \in Frames : Live(f) => partial[f].idle <= partial[f].silent + Poll

SrcInv ==
  /\ SrcTypes
  /\ QueueOrder
  /\ FramesCounted
  /\ Uniform
  /\ NearTimeout

---------------------------------------------------------------------------
(* An event is a frame or the failure.                                     *)
LEMMA EventFacts ==
  ASSUME ChannelTypes
  PROVE  /\ Len(queue) \in Nat /\ DOMAIN queue = 1 .. Len(queue)
         /\ \A i \in DOMAIN queue :
              /\ queue[i] \in Event
              /\ queue[i].type = "frame" <=> queue[i] # Failure
              /\ queue[i].type = "frame" =>
                   queue[i].number \in Nat /\ queue[i].format \in Formats
BY DEF ChannelTypes, Event, Failure

(* The parts make up the type invariant.                                   *)
LEMMA TypesOK ==
  SrcTypes => TypeOK
BY EventFacts
   DEF SrcTypes, TypeOK, ThreadTypes, FrameTypes, ChannelTypes, CountTypes

(* With an error only at the end, the frames of a channel are the          *)
(* positions before it.                                                    *)
FramesOf(q) ==
  IF q # <<>> /\ q[Len(q)] = Failure THEN Len(q) - 1 ELSE Len(q)

(* Counting them needs no more than the length and the last event.         *)
LEMMA FramesOfFacts ==
  ASSUME NEW q \in Seq(Event),
         \A i \in DOMAIN q : q[i] = Failure => i = Len(q)
  PROVE  /\ FramesOf(q) \in Nat
         /\ Cardinality({i \in DOMAIN q : q[i].type = "frame"}) = FramesOf(q)
<1>1. Len(q) \in Nat /\ DOMAIN q = 1 .. Len(q)
  OBVIOUS
<1>2. \A i \in DOMAIN q : q[i].type = "frame" <=> q[i] # Failure
  BY DEF Event, Failure
<1>3. FramesOf(q) \in Nat
  BY <1>1 DEF FramesOf
<1>4. {i \in DOMAIN q : q[i].type = "frame"} = 1 .. FramesOf(q)
  BY <1>1, <1>2 DEF FramesOf
<1> QED
  BY <1>3, <1>4, CountTo

(* InQueue before and after a step.                                        *)
LEMMA InQueueFacts ==
  ASSUME ChannelTypes, ErrorIsLast
  PROVE  InQueue \in Nat /\ InQueue = FramesOf(queue)
BY FramesOfFacts DEF InQueue, ChannelTypes, ErrorIsLast

(* The frames that can be opened are finitely many.                        *)
LEMMA FrameCounts ==
  /\ \A f \in Frames : Cardinality({f} \cap LiveFrames) \in Nat
  /\ Cardinality(Expired) \in Nat
<1>1. ASSUME NEW f \in Frames PROVE Cardinality({f} \cap LiveFrames) \in Nat
  BY FramesAssumption, FS_Subset, FS_CardinalityType DEF LiveFrames
<1>2. IsFiniteSet(Expired)
  BY FramesAssumption, FS_Subset DEF Expired, LiveFrames
<1> QED
  BY <1>1, <1>2, FS_CardinalityType

(* The shortest silence is one of those it is taken from.                  *)
LEMMA EarlyFacts ==
  ASSUME SrcTypes, Reap
  PROVE  \/ early' = early
         \/ \E f \in Expired : early' = partial[f].silent
<1> DEFINE S == {early} \cup {partial[f].silent : f \in Expired}
<1>1. S \in SUBSET Nat /\ S # {}
  BY DEF SrcTypes, FrameTypes, CountTypes, Partial, Expired, LiveFrames, Live
<1>2. early' = Least(S)
  BY DEF Reap
<1> HIDE DEF S
<1>3. \E n \in S : \A m \in S : n <= m
  BY <1>1, NatLeast
<1>4. Least(S) \in S
  BY <1>3, Zenon DEF Least
<1> QED
  BY <1>2, <1>4 DEF S

---------------------------------------------------------------------------
(* The element starts with nothing in it.                                  *)
LEMMA InitInv ==
  ASSUME Init PROVE SrcInv
<1> USE DEF Init
<1>1. SrcTypes
  <2>1. ThreadTypes
    BY DEF ThreadTypes
  <2>2. FrameTypes /\ ChannelTypes
    BY CapacityAssumption, TimesAssumption
       DEF FrameTypes, ChannelTypes, NoFrames
  <2>3. CountTypes
    BY TimesAssumption DEF CountTypes
  <2> QED
    BY <2>1, <2>2, <2>3 DEF SrcTypes
<1>2. QueueOrder /\ Uniform
  BY DEF QueueOrder, StoppedEmpty, ErrorIsLast, InOrder, Uniform
<1>3. FramesCounted
  BY <1>1, <1>2, InQueueFacts
     DEF FramesCounted, QueueOrder, SrcTypes, FramesOf
<1>4. NearTimeout
  BY TimesAssumption DEF NearTimeout, ReapedNearTimeout, Live, NoFrames
<1> QED
  BY <1>1, <1>2, <1>3, <1>4 DEF SrcInv

(* What every step does to the channel: nothing, or it is one of six.      *)
ChannelSame ==
  /\ UNCHANGED <<queue, current, caps, expected, completed, pushed>>
  /\ thread = "off" => thread' = "off"
  /\ phase' = "stopped" => phase = "stopped"

ChannelStep ==
  \/ Start \/ StopEnd \/ RecvFailure \/ TakeFrame \/ TakeError
  \/ \E f \in Frames : RecvLast(f)

(* Only these six steps touch the channel.                                 *)
LEMMA ChannelSteps ==
  ASSUME [Next]_vars PROVE ChannelSame \/ ChannelStep
<1> USE DEF ChannelSame, ChannelStep, vars, element, life, receiver, stream,
            reports
<1>1. CASE UNCHANGED vars
  BY <1>1
<1>2. CASE Application
  BY <1>2 DEF Application, Unlock, UnlockStop, StopBegin
<1>3. CASE Create
  BY <1>3 DEF Create, Enter, CheckUnlocked, WaitTimeout, Disconnected, Return
<1>4. CASE Receive
  BY <1>4 DEF Receive, RecvLeader, RecvPart, RecvBad, RecvForeign, Packet
<1>5. CASE Receiver \/ Tick
  BY <1>5 DEF Receiver, Top, RecvTimeout, Reap, Tick
<1> QED
  BY <1>1, <1>2, <1>3, <1>4, <1>5 DEF Next

---------------------------------------------------------------------------
(* record_drop adds to frames-dropped and to one fate.                     *)
LEMMA CountFacts ==
  ASSUME CountTypes, NEW n \in Nat,
         NEW fate \in {"pushed", "unfinished", "refused", "discarded"},
         CountDrops(n, fate)
  PROVE  /\ dropped' \in Nat /\ dropped' = dropped + n
         /\ account' \in [{"pushed", "unfinished", "refused", "discarded"} -> Nat]
         /\ account'[fate] = account[fate] + n
         /\ \A other \in {"pushed", "unfinished", "refused", "discarded"} :
              other # fate => account'[other] = account[other]
BY DEF CountTypes, CountDrops

(* What can happen to the channel keeps its type.                          *)
LEMMA ChannelFacts ==
  ASSUME ChannelTypes
  PROVE  /\ \A n \in Nat, fmt \in Formats :
              Room /\ queue' = Append(queue, FrameOf(n, fmt)) => ChannelTypes'
         /\ ReportFailure => ChannelTypes'
         /\ queue' = <<>> => ChannelTypes'
         /\ queue # <<>> =>
              /\ Taken \in Event /\ Taken = queue[1]
              /\ queue' = Tail(queue) => ChannelTypes'
<1> USE CapacityAssumption DEF ChannelTypes
<1>1. \A e \in Event : Room /\ queue' = Append(queue, e) => ChannelTypes'
  BY DEF Room
<1>2. Failure \in Event
  BY DEF Event
<1>3. \A n \in Nat, fmt \in Formats : FrameOf(n, fmt) \in Event
  BY DEF Event, FrameOf
<1>4. queue' = <<>> => ChannelTypes'
  OBVIOUS
<1>5. queue # <<>> => Taken \in Event /\ Taken = queue[1]
  BY DEF Taken
<1>6. queue # <<>> /\ queue' = Tail(queue) => ChannelTypes'
  OBVIOUS
<1>7. ReportFailure => ChannelTypes'
  BY <1>1, <1>2 DEF ReportFailure
<1> QED
  BY <1>1, <1>3, <1>4, <1>5, <1>6, <1>7

(* The threads and the flags keep their types.                             *)
LEMMA ThreadTypesStep ==
  ASSUME SrcTypes, [Next]_vars PROVE ThreadTypes'
<1> USE DEF SrcTypes, ThreadTypes, element, life, receiver, stream, reports
<1>1. CASE UNCHANGED vars
  BY <1>1 DEF vars
<1>2. CASE Application
  BY <1>2 DEF Application, Start, Unlock, UnlockStop, StopBegin, StopEnd
<1>3. CASE Create
  BY <1>3
     DEF Create, Enter, CheckUnlocked, WaitTimeout, Disconnected, TakeFrame,
         TakeError, Take, Return
<1>4. CASE Receive
  BY <1>4
     DEF Receive, RecvLeader, RecvPart, RecvBad, RecvLast, Offer, RecvForeign,
         RecvFailure, Packet
<1>5. CASE Receiver \/ Tick
  BY <1>5 DEF Receiver, Top, RecvTimeout, Reap, Tick
<1> QED
  BY <1>1, <1>2, <1>3, <1>4, <1>5 DEF Next

(* A frame that grows older keeps its format, and both ages grow alike     *)
(* until they reach the timeout.                                           *)
LEMMA AgedFacts ==
  ASSUME NEW p \in Partial, p # None
  PROVE  /\ Aged(p) \in Partial
         /\ Aged(p).idle = Older(p.idle) /\ Aged(p).silent = Older(p.silent)
<1>1. Older(p.idle) \in Nat /\ Older(p.silent) \in 0 .. Timeout
  BY TimesAssumption DEF Older, Partial
<1>2. Aged(p) = [p EXCEPT !.idle = Older(p.idle), !.silent = Older(p.silent)]
  BY DEF Aged
<1> QED
  BY <1>1, <1>2 DEF Partial

(* The assembler's frames and the formats keep their types.                *)
LEMMA FrameTypesStep ==
  ASSUME SrcTypes, [Next]_vars PROVE FrameTypes'
<1> USE DEF SrcTypes, FrameTypes, element, life, receiver, stream, reports
<1>1. CASE UNCHANGED vars
  BY <1>1 DEF vars
<1>2. CASE Application
  BY <1>2, TimesAssumption
     DEF Application, Start, Unlock, UnlockStop, StopBegin, StopEnd, NoFrames
<1>3. CASE Create
  <2>1. queue # <<>> /\ Taken.type = "frame" => Taken.format \in Formats
    BY ChannelFacts DEF Event, Failure
  <2> QED
    BY <1>3, <2>1
       DEF Create, Enter, CheckUnlocked, WaitTimeout, Disconnected, TakeFrame,
           TakeError, Take, Return
<1>4. \A fmt \in Formats : Touched(fmt) \in Partial
  BY TimesAssumption DEF Touched, Partial
<1>5. \A f \in Frames : Live(f) => partial[f].format \in Formats
  BY DEF Live, Partial
<1>6. ASSUME NEW f \in Frames, NEW fmt \in Formats, RecvLeader(f, fmt)
      PROVE  FrameTypes'
  BY <1>4, <1>6 DEF RecvLeader, Packet
<1>7. ASSUME NEW f \in Frames, RecvPart(f) \/ RecvBad(f) PROVE FrameTypes'
  BY <1>4, <1>5, <1>7 DEF RecvPart, RecvBad, Packet
<1>8. ASSUME NEW f \in Frames, RecvLast(f) PROVE FrameTypes'
  BY <1>5, <1>8 DEF RecvLast, Offer, Packet, NoFrames
<1>9. CASE RecvForeign \/ RecvFailure
  BY <1>9 DEF RecvForeign, RecvFailure, NoFrames
<1>10. CASE Top
  BY <1>10, TimesAssumption DEF Top, NoFrames
<1>11. CASE RecvTimeout \/ Reap
  BY <1>11 DEF RecvTimeout, Reap
<1>12. CASE Tick
  <2>1. \A p \in Partial \cup {None} : Aged(p) \in Partial \cup {None}
    BY AgedFacts DEF Aged
  <2>2. waited' \in 0 .. Poll
    BY <1>12, TimesAssumption DEF Tick
  <2> QED
    BY <1>12, <2>1, <2>2 DEF Tick
<1> QED
  BY <1>1, <1>2, <1>3, <1>6, <1>7, <1>8, <1>9, <1>10, <1>11, <1>12
     DEF Next, Receive, Receiver

(* The channel keeps its type and its bound.                               *)
LEMMA ChannelTypesStep ==
  ASSUME SrcTypes, [Next]_vars PROVE ChannelTypes'
<1> USE DEF SrcTypes
<1>1. CASE ChannelSame
  BY <1>1 DEF ChannelSame, ChannelTypes
<1>2. CASE Start \/ StopEnd
  BY <1>2, ChannelFacts DEF Start, StopEnd
<1>3. CASE RecvFailure
  BY <1>3, ChannelFacts DEF RecvFailure
<1>4. CASE TakeFrame \/ TakeError
  BY <1>4, ChannelFacts DEF TakeFrame, TakeError, Take
<1>5. ASSUME NEW f \in Frames, RecvLast(f) PROVE ChannelTypes'
  <2>1. partial[f].format \in Formats /\ completed + 1 \in Nat
    BY <1>5 DEF RecvLast, Offer, Live, Partial, FrameTypes, CountTypes
  <2>2. \/ ReportFailure
        \/ UNCHANGED queue
        \/ /\ Room
           /\ queue' = Append(queue, FrameOf(completed + 1, partial[f].format))
    BY <1>5 DEF RecvLast, Offer
  <2> QED
    BY <2>1, <2>2, ChannelFacts DEF ChannelTypes
<1> QED
  BY <1>1, <1>2, <1>3, <1>4, <1>5, ChannelSteps DEF ChannelStep

(* The counters keep their types.                                          *)
LEMMA CountTypesStep ==
  ASSUME SrcTypes, QueueOrder, [Next]_vars PROVE CountTypes'
<1> USE DEF SrcTypes, element, life, receiver, stream, reports
<1>1. CASE UNCHANGED vars
  BY <1>1 DEF vars, CountTypes
<1>2. CASE Application
  <2>1. InQueue \in Nat
    BY InQueueFacts DEF QueueOrder, SrcTypes
  <2>2. CASE StopEnd
    BY <2>1, <2>2 DEF StopEnd, CountTypes
  <2>3. CASE Start
    BY <2>3 DEF Start, CountTypes
  <2>4. CASE Unlock \/ UnlockStop \/ StopBegin
    BY <2>4 DEF Unlock, UnlockStop, StopBegin, CountTypes
  <2> QED
    BY <1>2, <2>2, <2>3, <2>4 DEF Application
<1>3. CASE Create
  <2>1. queue # <<>> /\ Taken.type = "frame" => Taken.number \in Nat
    BY ChannelFacts DEF Event, Failure
  <2>2. CASE TakeFrame
    <3>1. CASE CountDrops(1, "refused") /\ UNCHANGED pushed
      BY <2>2, <3>1, CountFacts DEF TakeFrame, Take, CountTypes
    <3>2. CASE /\ pushed' = Taken.number /\ UNCHANGED dropped
               /\ account' = [account EXCEPT !.pushed = @ + 1]
      <4>1. account' \in [{"pushed", "unfinished", "refused", "discarded"} -> Nat]
        BY <3>2 DEF CountTypes
      <4>2. pushed' \in Nat
        BY <2>1, <2>2, <3>2 DEF TakeFrame, Take
      <4> QED
        BY <2>2, <3>2, <4>1, <4>2 DEF TakeFrame, Take, CountTypes
    <3>3. CASE /\ UNCHANGED <<pushed, dropped>>
               /\ account' = [account EXCEPT !.discarded = @ + 1]
      BY <2>2, <3>3 DEF TakeFrame, Take, CountTypes
    <3> QED
      BY <2>2, <3>1, <3>2, <3>3 DEF TakeFrame
  <2>3. CASE TakeError
    BY <2>3 DEF TakeError, Take, CountTypes
  <2> QED
    BY <1>3, <2>2, <2>3
       DEF Create, Enter, CheckUnlocked, WaitTimeout, Disconnected, CountTypes
<1>4. ASSUME NEW f \in Frames, NEW fmt \in Formats, RecvLeader(f, fmt)
      PROVE  CountTypes'
  BY <1>4, CountFacts, FrameCounts DEF RecvLeader, Packet, CountTypes
<1>5. ASSUME NEW f \in Frames, RecvBad(f) PROVE CountTypes'
  BY <1>5, CountFacts DEF RecvBad, Packet, CountTypes
<1>6. ASSUME NEW f \in Frames, RecvPart(f) PROVE CountTypes'
  BY <1>6 DEF RecvPart, Packet, CountTypes
<1>7. ASSUME NEW f \in Frames, RecvLast(f) PROVE CountTypes'
  <2>1. CountDrops(1, "refused") \/ UNCHANGED <<dropped, account>>
    BY <1>7 DEF RecvLast, Offer
  <2> QED
    BY <1>7, <2>1, CountFacts DEF RecvLast, Offer, Packet, CountTypes
<1>8. CASE RecvForeign \/ RecvFailure \/ Top \/ RecvTimeout \/ Tick
  BY <1>8 DEF RecvForeign, RecvFailure, Top, RecvTimeout, Tick, CountTypes
<1>9. CASE Reap
  <2>1. early' \in 0 .. Timeout
    BY <1>9, EarlyFacts
       DEF Expired, LiveFrames, Live, Partial, FrameTypes, CountTypes
  <2> QED
    BY <1>9, <2>1, CountFacts, FrameCounts DEF Reap, CountTypes
<1> QED
  BY <1>1, <1>2, <1>3, <1>4, <1>5, <1>6, <1>7, <1>8, <1>9
     DEF Next, Receive, Receiver

(* Every step keeps the types.                                             *)
LEMMA TypesStep ==
  ASSUME SrcTypes, QueueOrder, [Next]_vars PROVE SrcTypes'
BY ThreadTypesStep, FrameTypesStep, ChannelTypesStep, CountTypesStep
   DEF SrcTypes

---------------------------------------------------------------------------
(* Order: a thread that still runs has reported no error, so an event that *)
(* is appended follows frames only.                                        *)
LEMMA NoErrorYet ==
  ASSUME SrcTypes, QueueOrder, thread # "off"
  PROVE  phase # "stopped" /\ \A i \in DOMAIN queue : queue[i].type = "frame"
BY EventFacts DEF SrcTypes, QueueOrder, StoppedEmpty, ErrorIsLast

(* The numbers of the frames, event by event.                              *)
LEMMA NumberFacts ==
  ASSUME QueueOrder
  PROVE  /\ \A i \in DOMAIN queue : queue[i].type = "frame" =>
              queue[i].number \in pushed + 1 .. completed
         /\ \A i, j \in DOMAIN queue :
              queue[i].type = "frame" /\ queue[j].type = "frame" /\ i < j =>
                queue[i].number < queue[j].number
BY DEF QueueOrder, InOrder

(* The failure of the receiver thread is the last event.                   *)
LEMMA ReportOrder ==
  ASSUME SrcTypes, QueueOrder, thread # "off", ReportFailure,
         thread' = "off", UNCHANGED <<phase, pushed>>,
         completed' \in {completed, completed + 1}
  PROVE  QueueOrder'
<1> USE DEF SrcTypes, ChannelTypes
<1>1. /\ phase' # "stopped" /\ completed' >= completed
      /\ \A i \in DOMAIN queue : queue[i].type = "frame"
  BY NoErrorYet DEF CountTypes
<1>2. /\ DOMAIN queue' \in {DOMAIN queue, 1 .. Len(queue) + 1}
      /\ \A i \in DOMAIN queue : queue'[i] = queue[i]
      /\ \A i \in DOMAIN queue' : i \notin DOMAIN queue =>
           i = Len(queue') /\ queue'[i] = Failure
  BY DEF ReportFailure
<1>3. ErrorIsLast'
  BY <1>1, <1>2, EventFacts DEF ErrorIsLast
<1>4. InOrder'
  <2>1. \A i \in DOMAIN queue' : queue'[i].type = "frame" =>
          i \in DOMAIN queue /\ queue'[i] = queue[i]
    BY <1>2 DEF Failure
  <2>2. \A i \in DOMAIN queue' : queue'[i].type = "frame" =>
          queue'[i].number \in pushed' + 1 .. completed'
    BY <1>1, <2>1, NumberFacts, EventFacts DEF CountTypes
  <2> QED
    BY <2>1, <2>2, NumberFacts DEF InOrder
<1> QED
  BY <1>1, <1>3, <1>4 DEF QueueOrder, StoppedEmpty, CountTypes

(* A completed frame follows those completed before it.                    *)
LEMMA LastOrder ==
  ASSUME SrcTypes, QueueOrder, NEW f \in Frames, RecvLast(f)
  PROVE  QueueOrder'
<1> USE DEF SrcTypes, ChannelTypes
<1>1. /\ thread = "recv" /\ UNCHANGED <<phase, pushed>>
      /\ completed' = completed + 1 /\ completed \in Nat
  BY DEF RecvLast, Offer, Packet, element, CountTypes
<1>2. /\ phase # "stopped"
      /\ \A i \in DOMAIN queue : queue[i].type = "frame"
  BY <1>1, NoErrorYet
<1>3. CASE WrongFormat(partial[f].format)
  BY <1>1, <1>3, ReportOrder DEF RecvLast, Offer
<1>4. CASE ~WrongFormat(partial[f].format)
  <2>1. CASE UNCHANGED queue
    BY <1>1, <1>2, <2>1, EventFacts
       DEF QueueOrder, StoppedEmpty, ErrorIsLast, InOrder, CountTypes, Failure
  <2>2. CASE queue' = Append(queue, FrameOf(completed + 1, partial[f].format))
    <3>1. /\ DOMAIN queue' = 1 .. Len(queue) + 1
          /\ \A i \in DOMAIN queue : queue'[i] = queue[i]
          /\ queue'[Len(queue) + 1].type = "frame"
          /\ queue'[Len(queue) + 1].number = completed + 1
      BY <2>2 DEF FrameOf
    <3>2. ErrorIsLast'
      BY <1>2, <3>1, EventFacts DEF ErrorIsLast, Failure
    <3>3. \A i \in DOMAIN queue : queue[i].number \in pushed + 1 .. completed
      BY <1>2, NumberFacts
    <3>4. \A i \in DOMAIN queue' :
            queue'[i].number \in pushed' + 1 .. completed'
      BY <1>1, <3>1, <3>3 DEF QueueOrder, CountTypes
    <3>5. \A i, j \in DOMAIN queue' :
            i < j => queue'[i].number < queue'[j].number
      <4> SUFFICES ASSUME NEW i \in DOMAIN queue', NEW j \in DOMAIN queue', i < j
                   PROVE  queue'[i].number < queue'[j].number
        OBVIOUS
      <4>1. i \in DOMAIN queue
        BY <3>1
      <4>2. CASE j \in DOMAIN queue
        BY <1>2, <3>1, <4>1, <4>2, NumberFacts
      <4>3. CASE j = Len(queue) + 1
        BY <1>1, <3>1, <3>3, <4>1, <4>3 DEF QueueOrder, CountTypes
      <4> QED
        BY <3>1, <4>2, <4>3
    <3>6. InOrder'
      BY <3>4, <3>5 DEF InOrder
    <3> QED
      BY <1>1, <1>2, <3>2, <3>6 DEF QueueOrder, StoppedEmpty, CountTypes
  <2> QED
    BY <1>4, <2>1, <2>2 DEF RecvLast, Offer
<1> QED
  BY <1>3, <1>4

(* create() takes the oldest event.                                        *)
LEMMA TakeOrder ==
  ASSUME SrcTypes, QueueOrder, Take,
         \/ UNCHANGED pushed
         \/ Taken.type = "frame" /\ pushed' = Taken.number
  PROVE  QueueOrder'
<1> USE DEF SrcTypes, ChannelTypes
<1>1. /\ queue # <<>> /\ UNCHANGED <<phase, thread, completed>>
      /\ DOMAIN queue' = 1 .. Len(queue) - 1 /\ Len(queue') = Len(queue) - 1
      /\ \A i \in DOMAIN queue' : i + 1 \in DOMAIN queue /\ queue'[i] = queue[i + 1]
      /\ Taken = queue[1]
  BY DEF Take, Taken, element, receiver, reports
<1>2. ErrorIsLast'
  BY <1>1, EventFacts DEF QueueOrder, ErrorIsLast
<1>3. pushed' \in Nat /\ pushed' <= completed
  BY <1>1, EventFacts DEF QueueOrder, InOrder, CountTypes
<1>4. InOrder'
  <2>1. \A i \in DOMAIN queue' :
          queue'[i].type = "frame" => queue'[i].number \in pushed' + 1 .. completed'
    <3> SUFFICES ASSUME NEW i \in DOMAIN queue', queue'[i].type = "frame"
                 PROVE  queue'[i].number \in pushed' + 1 .. completed'
      OBVIOUS
    <3>1. /\ i + 1 \in DOMAIN queue /\ queue'[i] = queue[i + 1]
          /\ 1 \in DOMAIN queue /\ i \in Nat /\ 1 < i + 1
      BY <1>1
    <3>2. queue'[i].number \in pushed + 1 .. completed
      BY <3>1, NumberFacts
    <3>3. Taken.type = "frame" => Taken.number < queue'[i].number
      BY <1>1, <3>1, NumberFacts
    <3> QED
      BY <1>1, <1>3, <3>2, <3>3 DEF CountTypes
  <2>2. \A i, j \in DOMAIN queue' :
          /\ queue'[i].type = "frame" /\ queue'[j].type = "frame" /\ i < j
          => queue'[i].number < queue'[j].number
    BY <1>1, NumberFacts
  <2> QED
    BY <2>1, <2>2 DEF InOrder
<1> QED
  BY <1>1, <1>2, <1>3, <1>4 DEF QueueOrder, StoppedEmpty

(* Every step keeps the order.                                             *)
LEMMA OrderStep ==
  ASSUME SrcTypes, QueueOrder, [Next]_vars PROVE QueueOrder'
<1>1. CASE ChannelSame
  BY <1>1
     DEF ChannelSame, QueueOrder, StoppedEmpty, ErrorIsLast, InOrder
<1>2. CASE Start
  BY <1>2
     DEF Start, reports, QueueOrder, StoppedEmpty, ErrorIsLast, InOrder
<1>3. CASE StopEnd
  BY <1>3
     DEF StopEnd, receiver, reports, QueueOrder, StoppedEmpty, ErrorIsLast,
         InOrder
<1>4. CASE RecvFailure
  BY <1>4, ReportOrder DEF RecvFailure, element, reports
<1>5. CASE TakeFrame \/ TakeError
  BY <1>5, TakeOrder DEF TakeFrame, TakeError
<1> QED
  BY <1>1, <1>2, <1>3, <1>4, <1>5, LastOrder, ChannelSteps DEF ChannelStep

---------------------------------------------------------------------------
(* Counting: what a frame that is taken, or an event that is appended,     *)
(* does to the number of frames in the channel.                            *)
LEMMA CountInQueue ==
  ASSUME SrcTypes, QueueOrder, [Next]_vars
  PROVE  /\ InQueue \in Nat /\ InQueue' \in Nat
         /\ UNCHANGED queue => InQueue' = InQueue
         /\ queue' = <<>> => InQueue' = 0
         /\ thread # "off" =>
              /\ ReportFailure => InQueue' = InQueue
              /\ \A n, fmt : queue' = Append(queue, FrameOf(n, fmt))
                            => InQueue' = InQueue + 1
         /\ Take => /\ Taken.type = "frame" => InQueue = InQueue' + 1
                    /\ Taken.type = "error" => InQueue' = InQueue
<1>1. QueueOrder' /\ SrcTypes'
  BY OrderStep, TypesStep
<1>2. InQueue \in Nat /\ InQueue = FramesOf(queue)
  BY InQueueFacts DEF SrcTypes, QueueOrder
<1>3. InQueue' \in Nat /\ InQueue' = FramesOf(queue')
  BY <1>1, FramesOfFacts
     DEF InQueue, SrcTypes, ChannelTypes, QueueOrder, ErrorIsLast
<1> USE DEF SrcTypes, ChannelTypes
<1>4. queue' = <<>> => FramesOf(queue') = 0
  BY DEF FramesOf
<1>5. ASSUME thread # "off"
      PROVE  FramesOf(queue) = Len(queue)
  <2>1. \A i \in DOMAIN queue : queue[i] # Failure
    BY <1>5, NoErrorYet, EventFacts
  <2>2. queue # <<>> => Len(queue) \in DOMAIN queue
    OBVIOUS
  <2> QED
    BY <2>1, <2>2 DEF FramesOf
<1>6. ASSUME thread # "off", ReportFailure
      PROVE  FramesOf(queue') = FramesOf(queue)
  <2>1. CASE UNCHANGED queue
    BY <2>1
  <2>2. CASE queue' = Append(queue, Failure)
    <3>1. queue' # <<>> /\ Len(queue') = Len(queue) + 1 /\ queue'[Len(queue')] = Failure
      BY <2>2
    <3> QED
      BY <1>5, <1>6, <3>1 DEF FramesOf
  <2> QED
    BY <1>6, <2>1, <2>2 DEF ReportFailure
<1>7. ASSUME thread # "off", NEW n, NEW fmt,
             queue' = Append(queue, FrameOf(n, fmt))
      PROVE  FramesOf(queue') = FramesOf(queue) + 1
  <2>1. /\ queue' # <<>> /\ Len(queue') = Len(queue) + 1
        /\ queue'[Len(queue')] # Failure
    BY <1>7 DEF FrameOf, Failure
  <2> QED
    BY <1>5, <1>7, <2>1 DEF FramesOf
<1>8. ASSUME Take
      PROVE  /\ Taken.type = "frame" => FramesOf(queue) = FramesOf(queue') + 1
             /\ Taken.type = "error" => FramesOf(queue') = FramesOf(queue)
  <2>1. /\ queue # <<>> /\ queue' = Tail(queue) /\ Taken = queue[1]
        /\ Len(queue) \in Nat \ {0} /\ DOMAIN queue = 1 .. Len(queue)
    BY <1>8 DEF Take, Taken
  <2>2. Len(queue') = Len(queue) - 1 /\ (queue' = <<>> <=> Len(queue) = 1)
    BY <2>1
  <2>3. Len(queue) > 1 => queue'[Len(queue')] = queue[Len(queue)]
    BY <2>1
  <2>4. CASE Taken = Failure
    <3>1. Len(queue) = 1
      <4>1. 1 \in DOMAIN queue /\ queue[1] = Failure
        BY <2>1, <2>4
      <4> QED
        BY <4>1 DEF QueueOrder, ErrorIsLast
    <3>2. FramesOf(queue) = 0 /\ FramesOf(queue') = 0
      BY <2>1, <2>2, <2>4, <3>1 DEF FramesOf
    <3> QED
      BY <2>4, <3>2 DEF Failure
  <2>5. CASE Taken # Failure
    <3>1. Taken.type = "frame"
      BY <2>1, <2>5, EventFacts
    <3> QED
      BY <2>1, <2>2, <2>3, <2>5, <3>1 DEF FramesOf
  <2> QED
    BY <2>4, <2>5
<1> QED
  BY <1>2, <1>3, <1>4, <1>6, <1>7, <1>8

(* A step that completes, counts and queues nothing keeps the balance.     *)
LEMMA CountQuiet ==
  ASSUME FramesCounted, InQueue' = InQueue,
         UNCHANGED <<completed, dropped, account>>
  PROVE  FramesCounted'
BY DEF FramesCounted

(* Unfinished frames are counted in both.                                  *)
LEMMA CountUnfinishedOnly ==
  ASSUME SrcTypes, FramesCounted, InQueue \in Nat, InQueue' = InQueue,
         UNCHANGED completed, NEW n \in Nat, CountDrops(n, "unfinished")
  PROVE  FramesCounted'
BY CountFacts DEF FramesCounted, SrcTypes, CountTypes

(* The frames the assembler completes are accounted for.                   *)
LEMMA CountLast ==
  ASSUME SrcTypes, QueueOrder, FramesCounted, [Next]_vars,
         NEW f \in Frames, RecvLast(f)
  PROVE  FramesCounted'
<1>1. /\ thread # "off" /\ completed' = completed + 1
      /\ InQueue \in Nat /\ InQueue' \in Nat
  BY CountInQueue DEF RecvLast, Offer, Packet
<1>2. CASE CountDrops(1, "refused") /\ InQueue' = InQueue
  BY <1>1, <1>2, CountFacts DEF FramesCounted, SrcTypes, CountTypes
<1>3. CASE UNCHANGED <<dropped, account>> /\ InQueue' = InQueue + 1
  BY <1>1, <1>3 DEF FramesCounted, SrcTypes, CountTypes
<1>4. CASE WrongFormat(partial[f].format)
  BY <1>1, <1>2, <1>4, CountInQueue DEF RecvLast, Offer
<1>5. CASE ~WrongFormat(partial[f].format)
  BY <1>1, <1>2, <1>3, <1>5, CountInQueue DEF RecvLast, Offer
<1> QED
  BY <1>4, <1>5

(* A frame that leaves the channel is pushed, refused or discarded.        *)
LEMMA CountTaken ==
  ASSUME SrcTypes, QueueOrder, FramesCounted, [Next]_vars, TakeFrame
  PROVE  FramesCounted'
<1>1. /\ InQueue = InQueue' + 1 /\ InQueue \in Nat /\ InQueue' \in Nat
      /\ UNCHANGED completed
  BY CountInQueue DEF TakeFrame, Take, reports
<1>2. CASE CountDrops(1, "refused")
  BY <1>1, <1>2, CountFacts DEF FramesCounted, SrcTypes, CountTypes
<1>3. CASE UNCHANGED dropped /\ account' = [account EXCEPT !.pushed = @ + 1]
  BY <1>1, <1>3 DEF FramesCounted, SrcTypes, CountTypes
<1>4. CASE UNCHANGED dropped /\ account' = [account EXCEPT !.discarded = @ + 1]
  BY <1>1, <1>4 DEF FramesCounted, SrcTypes, CountTypes
<1> QED
  BY <1>2, <1>3, <1>4 DEF TakeFrame

(* Every step keeps the balance.                                           *)
LEMMA CountStep ==
  ASSUME SrcTypes, QueueOrder, FramesCounted, [Next]_vars PROVE FramesCounted'
<1> USE DEF element, life, receiver, stream, reports
<1>1. /\ InQueue \in Nat /\ InQueue' \in Nat
      /\ UNCHANGED queue => InQueue' = InQueue
  BY CountInQueue
<1>2. CASE UNCHANGED vars
  BY <1>1, <1>2, CountQuiet DEF vars
<1>3. CASE Application
  <2>1. CASE Start
    <3>1. UNCHANGED queue
      BY <2>1 DEF Start, QueueOrder, StoppedEmpty
    <3> QED
      BY <1>1, <2>1, <3>1, CountQuiet DEF Start
  <2>2. CASE StopEnd
    <3>1. /\ InQueue' = 0 /\ UNCHANGED <<completed, dropped>>
          /\ account' = [account EXCEPT !.discarded = @ + InQueue]
      BY <2>2, CountInQueue DEF StopEnd
    <3> QED
      BY <1>1, <3>1 DEF FramesCounted, SrcTypes, CountTypes
  <2> QED
    BY <1>1, <1>3, <2>1, <2>2, CountQuiet
       DEF Application, Unlock, UnlockStop, StopBegin
<1>4. CASE Create
  <2>1. CASE TakeError
    BY <2>1, CountInQueue, CountQuiet DEF TakeError, Take
  <2> QED
    BY <1>1, <1>4, <2>1, CountTaken, CountQuiet
       DEF Create, Enter, CheckUnlocked, WaitTimeout, Disconnected
<1>5. ASSUME NEW f \in Frames, NEW fmt \in Formats, RecvLeader(f, fmt)
      PROVE  FramesCounted'
  BY <1>1, <1>5, FrameCounts, CountUnfinishedOnly DEF RecvLeader, Packet
<1>6. ASSUME NEW f \in Frames, RecvBad(f) PROVE FramesCounted'
  BY <1>1, <1>6, CountUnfinishedOnly DEF RecvBad, Packet
<1>7. ASSUME NEW f \in Frames, RecvPart(f) PROVE FramesCounted'
  BY <1>1, <1>7, CountQuiet DEF RecvPart, Packet
<1>8. CASE RecvFailure
  BY <1>8, CountInQueue, CountQuiet DEF RecvFailure
<1>9. CASE Reap
  BY <1>1, <1>9, FrameCounts, CountUnfinishedOnly DEF Reap
<1>10. CASE RecvForeign \/ Top \/ RecvTimeout \/ Tick
  BY <1>1, <1>10, CountQuiet DEF RecvForeign, Top, RecvTimeout, Tick
<1> QED
  BY <1>2, <1>3, <1>4, <1>5, <1>6, <1>7, <1>8, <1>9, <1>10, CountLast
     DEF Next, Receive, Receiver

---------------------------------------------------------------------------
(* Formats: what is compared, queued and negotiated stays one format.      *)
LEMMA UniformStep ==
  ASSUME SrcTypes, QueueOrder, Uniform, [Next]_vars PROVE Uniform'
<1> USE DEF SrcTypes, ChannelTypes, element, life, receiver, stream, reports
<1>1. CASE ChannelSame
  BY <1>1 DEF ChannelSame, Uniform
<1>2. CASE Start \/ StopEnd
  BY <1>2 DEF Start, StopEnd, Uniform
<1>3. ASSUME ReportFailure, UNCHANGED <<expected, current, caps>>
      PROVE  Uniform'
  <2>1. \A i \in DOMAIN queue' : queue'[i].type = "frame" =>
          i \in DOMAIN queue /\ queue'[i] = queue[i]
    BY <1>3 DEF ReportFailure, Failure
  <2> QED
    BY <1>3, <2>1 DEF Uniform
<1>4. CASE RecvFailure
  BY <1>3, <1>4 DEF RecvFailure
<1>5. ASSUME NEW f \in Frames, RecvLast(f) PROVE Uniform'
  <2>1. UNCHANGED <<expected, caps>>
    BY <1>5 DEF RecvLast, Offer, Packet
  <2>2. CASE WrongFormat(partial[f].format)
    BY <1>3, <1>5, <2>1, <2>2 DEF RecvLast, Offer
  <2>3. CASE ~WrongFormat(partial[f].format)
    <3> DEFINE fmt == partial[f].format
    <3>1. /\ fmt \in Formats /\ current' = fmt /\ current \in {None, fmt}
          /\ expected \in {None, fmt}
      BY <1>5, <2>3 DEF RecvLast, Offer, WrongFormat, Live, Partial, FrameTypes
    <3>2. \A i \in DOMAIN queue : queue[i].type = "frame" =>
            queue[i].format = current' /\ expected \in {None, queue[i].format}
      BY <3>1, EventFacts, SrcFormatsAssumption DEF Uniform
    <3>3. caps \in {None, current'}
      BY <3>1 DEF Uniform
    <3>4. CASE UNCHANGED queue
      BY <2>1, <3>2, <3>3, <3>4 DEF Uniform
    <3>5. CASE queue' = Append(queue, FrameOf(completed + 1, fmt))
      <4>1. \A i \in DOMAIN queue' :
              \/ i \in DOMAIN queue /\ queue'[i] = queue[i]
              \/ queue'[i] = FrameOf(completed + 1, fmt)
        BY <3>5
      <4>2. FrameOf(completed + 1, fmt).format = fmt
        BY DEF FrameOf
      <4> HIDE DEF fmt
      <4> QED
        BY <2>1, <3>1, <3>2, <3>3, <4>1, <4>2 DEF Uniform
    <3> QED
      BY <1>5, <2>3, <3>4, <3>5 DEF RecvLast, Offer
  <2> QED
    BY <2>2, <2>3
<1>6. CASE TakeFrame \/ TakeError
  <2>1. /\ UNCHANGED <<expected, current>>
        /\ \A i \in DOMAIN queue' : i + 1 \in DOMAIN queue /\ queue'[i] = queue[i + 1]
        /\ Taken = queue[1] /\ 1 \in DOMAIN queue
    BY <1>6 DEF TakeFrame, TakeError, Take, Taken
  <2>2. caps' = caps \/ (Taken.type = "frame" /\ caps' = Taken.format)
    BY <1>6 DEF TakeFrame, TakeError
  <2>3. caps' \in {None, current'}
    BY <2>1, <2>2 DEF Uniform
  <2> QED
    BY <2>1, <2>3 DEF Uniform
<1> QED
  BY <1>1, <1>2, <1>4, <1>5, <1>6, ChannelSteps DEF ChannelStep

---------------------------------------------------------------------------
(* Timeouts: a packet, read after a wait, makes its frame at most one      *)
(* read timeout old, and from then on both ages grow alike.                *)
LEMMA NearStep ==
  ASSUME SrcTypes, NearTimeout, [Next]_vars PROVE NearTimeout'
<1> USE DEF SrcTypes, element, life, receiver, stream, reports
<1>1. ASSUME UNCHANGED early,
             \A f \in Frames : partial'[f] \in {None, partial[f]}
      PROVE  NearTimeout'
  BY <1>1 DEF NearTimeout, ReapedNearTimeout, Live
<1>2. ASSUME NEW f \in Frames, NEW fmt \in Formats, UNCHANGED early,
             partial' = [partial EXCEPT ![f] = Touched(fmt)]
      PROVE  NearTimeout'
  BY <1>2, TimesAssumption
     DEF NearTimeout, ReapedNearTimeout, Live, Touched, FrameTypes
<1>3. ASSUME NEW f \in Frames, NEW fmt \in Formats, RecvLeader(f, fmt)
      PROVE  NearTimeout'
  BY <1>2, <1>3 DEF RecvLeader
<1>4. ASSUME NEW f \in Frames, RecvPart(f) PROVE NearTimeout'
  <2>1. partial[f].format \in Formats
    BY <1>4 DEF RecvPart, Live, Partial, FrameTypes
  <2> QED
    BY <1>2, <1>4, <2>1 DEF RecvPart
<1>5. ASSUME NEW f \in Frames, RecvBad(f) \/ RecvLast(f) PROVE NearTimeout'
  BY <1>1, <1>5 DEF RecvBad, RecvLast, Offer, NoFrames, FrameTypes
<1>6. CASE Reap
  <2>1. /\ \A f \in Frames : partial'[f] \in {None, partial[f]}
    BY <1>6 DEF Reap
  <2>2. early' + Poll >= Timeout
    <3>1. ASSUME NEW f \in Expired PROVE partial[f].silent + Poll >= Timeout
      BY <3>1, TimesAssumption
         DEF Expired, LiveFrames, Live, NearTimeout, FrameTypes, Partial
    <3> QED
      BY <1>6, <3>1, EarlyFacts DEF NearTimeout, ReapedNearTimeout
  <2> QED
    BY <2>1, <2>2 DEF NearTimeout, ReapedNearTimeout, Live
<1>7. CASE Tick
  <2>1. ASSUME NEW f \in Frames, Live(f)'
        PROVE  partial'[f].idle <= partial'[f].silent + Poll
    <3>1. Live(f) /\ partial'[f] = Aged(partial[f]) /\ partial[f] \in Partial
      BY <1>7, <2>1 DEF Tick, Live, Aged, FrameTypes
    <3>2. /\ partial'[f].idle = Older(partial[f].idle)
          /\ partial'[f].silent = Older(partial[f].silent)
      BY <3>1, AgedFacts DEF Live
    <3> QED
      BY <3>1, <3>2, TimesAssumption DEF NearTimeout, Older, Partial
  <2> QED
    BY <1>7, <2>1 DEF NearTimeout, ReapedNearTimeout, Tick
<1>8. CASE UNCHANGED vars \/ Application \/ Create \/ RecvForeign
           \/ RecvFailure \/ Top \/ RecvTimeout
  BY <1>1, <1>8
     DEF vars, Application, Start, Unlock, UnlockStop, StopBegin, StopEnd,
         Create, Enter, CheckUnlocked, TakeFrame, TakeError, Take, WaitTimeout,
         Disconnected, RecvForeign, RecvFailure, Top, RecvTimeout, NoFrames
<1> QED
  BY <1>3, <1>4, <1>5, <1>6, <1>7, <1>8 DEF Next, Receive, Receiver

---------------------------------------------------------------------------
(* The invariant holds of every behaviour.                                 *)
LEMMA SrcInvariant ==
  FairSpec => []SrcInv
<1>1. SrcInv /\ [Next]_vars => SrcInv'
  BY TypesStep, OrderStep, CountStep, UniformStep, NearStep DEF SrcInv
<1> QED
  BY <1>1, InitInv, PTL DEF FairSpec, Spec

(* Every variable keeps its type and the channel its bound, for every size *)
(* of the channel and every timeout, also one shorter than the poll.       *)
THEOREM SrcTyping ==
  FairSpec => []TypeOK
<1>1. SrcInv => TypeOK
  BY TypesOK DEF SrcInv
<1> QED
  BY <1>1, SrcInvariant, PTL

(* Frames reach the pipeline in order and once, across full channels,      *)
(* flushes and restarts.                                                   *)
THEOREM Ordered ==
  FairSpec => []InOrder
<1>1. SrcInv => InOrder
  BY DEF SrcInv, QueueOrder
<1> QED
  BY <1>1, SrcInvariant, PTL

(* No frame is lost without being counted, and none is counted twice.      *)
THEOREM Counted ==
  FairSpec => []FramesCounted
<1>1. SrcInv => FramesCounted
  BY DEF SrcInv
<1> QED
  BY <1>1, SrcInvariant, PTL

(* An error the receiver thread reports is the last event of the channel.  *)
THEOREM ErrorEnds ==
  FairSpec => []ErrorIsLast
<1>1. SrcInv => ErrorIsLast
  BY DEF SrcInv, QueueOrder
<1> QED
  BY <1>1, SrcInvariant, PTL

(* One run of the element carries one format.                              *)
THEOREM SingleFormat ==
  FairSpec => []OneFormat
<1>1. SrcInv => OneFormat
  <2> SUFFICES ASSUME SrcInv PROVE OneFormat
    OBVIOUS
  <2>1. \A i \in DOMAIN queue : queue[i].type = "frame" =>
          /\ queue[i].format = current /\ caps \in {None, queue[i].format}
          /\ expected \in {None, queue[i].format}
    BY DEF SrcInv, Uniform
  <2> QED
    BY <2>1 DEF SrcInv, Uniform, OneFormat
<1> QED
  BY <1>1, SrcInvariant, PTL

(* No frame is reaped earlier than one read timeout before its timeout.    *)
THEOREM ReapedInTime ==
  FairSpec => []ReapedNearTimeout
<1>1. SrcInv => ReapedNearTimeout
  BY DEF SrcInv, NearTimeout
<1> QED
  BY <1>1, SrcInvariant, PTL
=============================================================================
