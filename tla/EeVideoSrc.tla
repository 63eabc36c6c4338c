----------------------------- MODULE EeVideoSrc -----------------------------
(***************************************************************************)
(* The GStreamer source element of crates/gst-plugin-eevideo: a receiver   *)
(* thread reads datagrams, assembles frames and puts them into a bounded   *)
(* channel; the streaming thread takes them out in create(); the           *)
(* application starts, flushes and stops the element.                      *)
(*                                                                         *)
(* FrameAssembler is the detailed model of assembly; here a partial frame  *)
(* is its format and the time since its last_update, and any packet may    *)
(* keep, complete or spoil it.  Time is in ticks; `idle' is the age the    *)
(* code sees, `silent' the time since the frame's last packet in fact.     *)
(***************************************************************************)
EXTENDS Naturals, Sequences, FiniteSets

CONSTANTS
  Frames,         \* frame ids
  Formats,        \* frame formats: size, pixel format and payload type
  Expectations,   \* formats managed control may apply, None without it
  Capacity,       \* slots of the channel (8 in the code)
  Poll,           \* read timeout of the socket, in ticks (100 ms)
  Timeout,        \* timeout-ms, in ticks
  DropIncomplete, \* drop-incomplete
  MaxPackets,     \* bound: frame packets received in one behaviour
  MaxStarts,      \* bound: starts of the element
  None

ASSUME FramesAssumption == IsFiniteSet(Frames)
ASSUME SrcFormatsAssumption == None \notin Formats
ASSUME ExpectationsAssumption == Expectations \subseteq Formats \cup {None}
ASSUME CapacityAssumption == Capacity \in Nat \ {0}
ASSUME TimesAssumption == Poll \in Nat \ {0} /\ Timeout \in Nat \ {0}
ASSUME DropIncompleteAssumption == DropIncomplete \in BOOLEAN

Partial == [format: Formats, idle: Nat, silent: 0 .. Timeout]

VARIABLES
  phase,     \* the element, as the application drives it
  expected,  \* expected_format of the receiver thread, or None
  unlocked,  \* the flag of unlock() and unlock_stop()
  stop,      \* the receiver thread's stop flag
  thread,    \* the receiver thread: off, at the loop top, in recv or reap
  waited,    \* ticks the thread has been in recv_from since it read `now'
  partial,   \* the assembler's frames
  current,   \* current_format of the receiver thread
  queue,     \* the channel
  creator,   \* the streaming thread: out of create(), at its loop, waiting
  caps,      \* negotiated_format
  flow,      \* what create() last returned
  dropped,   \* frames-dropped
  ingested,  \* packets received (bound)
  starts,    \* starts so far (bound)
  completed, \* history: frames the assembler completed
  pushed,    \* history: number of the last frame create() returned
  account,   \* history: what became of frames, by fate
  changed,   \* history: the thread gave up over a frame's format
  early      \* history: the shortest silence after which a frame was reaped

life     == <<starts, expected>>
element  == <<phase, life>>
receiver == <<thread, waited, partial, current>>
stream   == <<creator, caps, flow>>
reports  == <<completed, changed, early>>
vars == <<element, unlocked, stop, receiver, queue, stream, dropped,
          ingested, reports, pushed, account>>

FrameOf(n, fmt) == [type |-> "frame", number |-> n, format |-> fmt]
Failure == [type |-> "error"]

NoFrames == [f \in Frames |-> None]

Live(f) == partial[f] # None
LiveFrames == {f \in Frames : Live(f)}

Init ==
  /\ phase = "stopped" /\ starts = 0 /\ expected = None
  /\ unlocked = FALSE /\ stop = FALSE
  /\ thread = "off" /\ waited = 0 /\ partial = NoFrames /\ current = None
  /\ queue = <<>>
  /\ creator = "out" /\ caps = None /\ flow = "ok"
  /\ dropped = 0 /\ ingested = 0
  /\ completed = 0 /\ changed = FALSE /\ early = Timeout
  /\ pushed = 0
  /\ account = [pushed |-> 0, unfinished |-> 0, refused |-> 0, discarded |-> 0]

---------------------------------------------------------------------------
(* The application, as GstBaseSrc lets it in: it flushes the streaming     *)
(* thread out of create() before unlock_stop() and stop().                 *)

Start ==
  /\ phase = "stopped" /\ starts < MaxStarts
  /\ phase' = "running" /\ starts' = starts + 1
  /\ expected' \in Expectations
  /\ unlocked' = FALSE /\ stop' = FALSE
  /\ thread' = "top" /\ waited' = 0 /\ partial' = NoFrames /\ current' = None
  /\ queue' = <<>>
  /\ caps' = None /\ flow' = "ok" /\ UNCHANGED creator
  /\ changed' = FALSE /\ UNCHANGED <<completed, early>>
  /\ UNCHANGED <<dropped, ingested, pushed, account>>

Unlock ==
  /\ phase = "running"
  /\ phase' = "flushing" /\ unlocked' = TRUE
  /\ UNCHANGED <<life, stop, receiver, queue, stream, dropped, ingested,
                 reports, pushed, account>>

UnlockStop ==
  /\ phase = "flushing" /\ creator = "out"
  /\ phase' = "running" /\ unlocked' = FALSE
  /\ flow' = IF flow = "flushing" THEN "ok" ELSE flow
  /\ UNCHANGED <<life, stop, receiver, queue, creator, caps, dropped,
                 ingested, reports, pushed, account>>

(* stop(): the state is taken, the flag is set, the thread is joined.      *)
StopBegin ==
  /\ phase = "flushing" /\ creator = "out"
  /\ phase' = "joining" /\ stop' = TRUE
  /\ UNCHANGED <<life, unlocked, receiver, queue, stream, dropped,
                 ingested, reports, pushed, account>>

InQueue == Cardinality({i \in DOMAIN queue : queue[i].type = "frame"})

StopEnd ==
  /\ phase = "joining" /\ thread = "off"
  /\ phase' = "stopped" /\ unlocked' = FALSE
  /\ queue' = <<>>
  /\ account' = [account EXCEPT !.discarded = @ + InQueue]
  /\ UNCHANGED <<life, stop, receiver, stream, dropped, ingested, reports,
                 pushed>>

---------------------------------------------------------------------------
(* The receiver thread                                                     *)

(* record_drop, n times.                                                   *)
CountDrops(n, fate) ==
  /\ dropped' = dropped + n
  /\ account' = [account EXCEPT ![fate] = @ + n]

Top ==
  /\ thread = "top"
  /\ thread' = IF stop THEN "off" ELSE "recv"
  /\ waited' = 0
  /\ partial' = IF stop THEN NoFrames ELSE partial
  /\ UNCHANGED <<element, unlocked, stop, current, queue, stream, dropped,
                 ingested, reports, pushed, account>>

(* The datagram parses and ingest_view looks at it.                        *)
Packet ==
  /\ thread = "recv" /\ ingested < MaxPackets
  /\ ingested' = ingested + 1
  /\ UNCHANGED <<element, unlocked, stop, waited, stream, pushed>>

(* last_update is the `now' read before recv_from.                         *)
Touched(fmt) == [format |-> fmt, idle |-> waited, silent |-> 0]

RecvLeader(f, fmt) ==
  /\ Packet
  /\ partial' = [partial EXCEPT ![f] = Touched(fmt)]
  /\ CountDrops(Cardinality({f} \cap LiveFrames), "unfinished")
  /\ thread' = "reap"
  /\ UNCHANGED <<current, queue, reports>>

RecvPart(f) ==
  /\ Packet /\ Live(f)
  /\ partial' = [partial EXCEPT ![f] = Touched(partial[f].format)]
  /\ thread' = "reap"
  /\ UNCHANGED <<current, queue, dropped, reports, account>>

(* FrameEvent::Dropped, for a frame that is live or was never opened, or   *)
(* Err for a leader whose format is not supported.                         *)
RecvBad(f) ==
  /\ Packet
  /\ partial' \in {[partial EXCEPT ![f] = None], partial}
  /\ CountDrops(1, "unfinished")
  /\ thread' = "reap"
  /\ UNCHANGED <<current, queue, reports>>

(* try_send finds a free slot.                                             *)
Room == Len(queue) < Capacity

ReportFailure == queue' = IF Room THEN Append(queue, Failure) ELSE queue

(* Mutant: a frame refused by a full channel is not counted.               *)
OfferUncounted(fmt) ==
  /\ account' = IF Room THEN account ELSE [account EXCEPT !.refused = @ + 1]
  /\ queue' = IF Room THEN Append(queue, FrameOf(completed + 1, fmt))
              ELSE queue
  /\ UNCHANGED dropped

(* A frame goes into the channel, or is dropped when that is full.         *)
Offer(fmt) ==
  \/ /\ Room
     /\ queue' = Append(queue, FrameOf(completed + 1, fmt))
     /\ UNCHANGED <<dropped, account>>
  \/ /\ ~Room
     /\ CountDrops(1, "refused")
     /\ UNCHANGED queue

(* Mutant: only the format applied by managed control is enforced.         *)
NotExpected(fmt) == expected # None /\ fmt # expected

WrongFormat(fmt) ==
  (expected # None /\ fmt # expected) \/ (current # None /\ fmt # current)

(* The last packet of frame f: the frame is offered to the channel, unless *)
(* its format is not the expected or the current one.                      *)
RecvLast(f) ==
  /\ Packet /\ Live(f)
  /\ completed' = completed + 1
  /\ LET fmt == partial[f].format IN
     \/ /\ WrongFormat(fmt)
        /\ ReportFailure
        /\ thread' = "off" /\ partial' = NoFrames
        /\ changed' = TRUE
        /\ CountDrops(1, "refused")
        /\ UNCHANGED current
     \/ /\ ~WrongFormat(fmt)
        /\ current' = fmt
        /\ thread' = "reap" /\ partial' = [partial EXCEPT ![f] = None]
        /\ Offer(fmt)
        /\ UNCHANGED changed
  /\ UNCHANGED early

(* CompatPacketView::parse fails: `continue', without a reap.              *)
RecvForeign ==
  /\ thread = "recv"
  /\ thread' = "top"
  /\ UNCHANGED <<element, unlocked, stop, waited, partial, current, queue,
                 stream, dropped, ingested, reports, pushed, account>>

(* Mutant: the socket has no read timeout.                                 *)
RecvForever == FALSE /\ UNCHANGED vars

RecvTimeout ==
  /\ thread = "recv" /\ waited >= Poll
  /\ thread' = IF DropIncomplete THEN "reap" ELSE "top"
  /\ UNCHANGED <<element, unlocked, stop, waited, partial, current, queue,
                 stream, dropped, ingested, reports, pushed, account>>

(* Mutant: the thread carries on after a receive error.                    *)
RecvFailureIgnored ==
  /\ thread = "recv"
  /\ ReportFailure
  /\ thread' = "top"
  /\ UNCHANGED <<element, unlocked, stop, waited, partial, current, stream,
                 dropped, ingested, reports, pushed, account>>

RecvFailure ==
  /\ thread = "recv"
  /\ ReportFailure
  /\ thread' = "off" /\ partial' = NoFrames
  /\ UNCHANGED <<element, unlocked, stop, waited, current, stream,
                 dropped, ingested, reports, pushed, account>>

(* Mutant: a frame that would expire during the next wait is reaped now.   *)
SoonExpired == {f \in LiveFrames : partial[f].idle + Poll >= Timeout}

Expired == {f \in LiveFrames : partial[f].idle >= Timeout}

Least(S) == CHOOSE n \in S : \A m \in S : n <= m

Reap ==
  /\ thread = "reap"
  /\ thread' = "top"
  /\ partial' = [f \in Frames |-> IF f \in Expired THEN None ELSE partial[f]]
  /\ CountDrops(Cardinality(Expired), "unfinished")
  /\ early' = Least({early} \cup {partial[f].silent : f \in Expired})
  /\ UNCHANGED <<element, unlocked, stop, waited, current, queue, stream,
                 ingested, completed, changed, pushed>>

(* Time passes while the thread waits for a datagram; the steps between    *)
(* two waits take no time.                                                 *)
Older(n) == IF n < Timeout THEN n + 1 ELSE n

(* Mutant: every return of recv_from renews last_update.                   *)
Renewed(s) ==
  IF s = None THEN None ELSE [s EXCEPT !.idle = 0, !.silent = Older(@)]

Aged(s) ==
  IF s = None THEN None
  ELSE [s EXCEPT !.idle = Older(@), !.silent = Older(@)]

Tick ==
  /\ thread = "recv" /\ waited < Poll
  /\ waited' = waited + 1
  /\ partial' = [f \in Frames |-> Aged(partial[f])]
  /\ UNCHANGED <<element, unlocked, stop, thread, current, queue, stream,
                 dropped, ingested, reports, pushed, account>>

---------------------------------------------------------------------------
(* The streaming thread in create()                                        *)

Enter ==
  /\ creator = "out" /\ phase = "running" /\ flow = "ok"
  /\ creator' = "loop"
  /\ UNCHANGED <<element, unlocked, stop, receiver, queue, caps, flow,
                 dropped, ingested, reports, pushed, account>>

Return(result) == creator' = "out" /\ flow' = result

CheckUnlocked ==
  /\ creator = "loop"
  /\ IF unlocked THEN Return("flushing")
     ELSE creator' = "wait" /\ UNCHANGED flow
  /\ UNCHANGED <<element, unlocked, stop, receiver, queue, caps, dropped,
                 ingested, reports, pushed, account>>

(* Mutant: the newest event is handled instead of the oldest.              *)
Newest == queue[Len(queue)]

Taken == Head(queue)

Take ==
  /\ creator = "wait" /\ queue # <<>>
  /\ queue' = Tail(queue)
  /\ UNCHANGED <<element, unlocked, stop, receiver, ingested, reports>>

(* The first frame negotiates the caps, which downstream may refuse; the   *)
(* frame is then lost, and not counted.                                    *)
TakeFrame ==
  /\ Take /\ Taken.type = "frame"
  /\ IF caps \notin {None, Taken.format}
     THEN /\ Return("not-negotiated")
          /\ CountDrops(1, "refused")
          /\ UNCHANGED <<caps, pushed>>
     ELSE \/ /\ caps' = Taken.format
             /\ Return("ok")
             /\ pushed' = Taken.number
             /\ account' = [account EXCEPT !.pushed = @ + 1]
             /\ UNCHANGED dropped
          \/ /\ caps = None
             /\ Return("not-negotiated")
             /\ account' = [account EXCEPT !.discarded = @ + 1]
             /\ UNCHANGED <<caps, pushed, dropped>>

TakeError ==
  /\ Take /\ Taken.type = "error"
  /\ Return("error")
  /\ UNCHANGED <<caps, dropped, pushed, account>>

(* Mutant: recv() in place of recv_timeout().                              *)
WaitForever == FALSE /\ UNCHANGED vars

(* Mutant: a channel without a sender is polled again.                     *)
KeepPolling ==
  /\ creator = "wait" /\ queue = <<>> /\ thread = "off"
  /\ creator' = "loop"
  /\ UNCHANGED <<element, unlocked, stop, receiver, queue, caps, flow,
                 dropped, ingested, reports, pushed, account>>

(* recv_timeout: 50 ms without an event, or no sender any more.            *)
WaitTimeout ==
  /\ creator = "wait" /\ queue = <<>> /\ thread # "off"
  /\ creator' = "loop"
  /\ UNCHANGED <<element, unlocked, stop, receiver, queue, caps, flow,
                 dropped, ingested, reports, pushed, account>>

Disconnected ==
  /\ creator = "wait" /\ queue = <<>> /\ thread = "off"
  /\ Return("eos")
  /\ UNCHANGED <<element, unlocked, stop, receiver, queue, caps, dropped,
                 ingested, reports, pushed, account>>

---------------------------------------------------------------------------
Create == \/ Enter \/ CheckUnlocked \/ TakeFrame \/ TakeError
          \/ WaitTimeout \/ Disconnected

Application == Start \/ Unlock \/ UnlockStop \/ StopBegin \/ StopEnd

Receive ==
  \/ \E f \in Frames, fmt \in Formats : RecvLeader(f, fmt)
  \/ \E f \in Frames : RecvPart(f) \/ RecvBad(f) \/ RecvLast(f)
  \/ RecvForeign \/ RecvFailure

Receiver == Top \/ RecvTimeout \/ Reap

Next == Application \/ Create \/ Receive \/ Receiver \/ Tick

Spec == Init /\ [][Next]_vars

(* Both threads run, time passes, and join() returns when it can.          *)
FairSpec ==
  /\ Spec
  /\ WF_vars(Receiver) /\ WF_vars(Tick) /\ WF_vars(Create)
  /\ WF_vars(StopEnd)

---------------------------------------------------------------------------
(* Properties                                                              *)

(* Every variable keeps its type; the channel never exceeds its slots.     *)
TypeOK ==
  /\ phase \in {"stopped", "running", "flushing", "joining"}
  /\ unlocked \in BOOLEAN /\ stop \in BOOLEAN /\ changed \in BOOLEAN
  /\ thread \in {"off", "top", "recv", "reap"}
  /\ waited \in 0 .. Poll
  /\ partial \in [Frames -> Partial \cup {None}]
  /\ current \in Formats \cup {None} /\ caps \in Formats \cup {None}
  /\ Len(queue) <= Capacity
  /\ \A i \in DOMAIN queue :
       queue[i] # Failure =>
         queue[i].type = "frame" /\ queue[i].format \in Formats
  /\ creator \in {"out", "loop", "wait"}
  /\ flow \in {"ok", "flushing", "eos", "error", "not-negotiated"}
  /\ {dropped, ingested, starts, completed, pushed} \subseteq Nat
  /\ account \in [{"pushed", "unfinished", "refused", "discarded"} -> Nat]
  /\ early \in 0 .. Timeout

(* Frames reach the pipeline in the order they were completed, and none    *)
(* twice, across full channels, flushes and restarts.                      *)
InOrder ==
  LET FrameAt == {i \in DOMAIN queue : queue[i].type = "frame"} IN
  /\ \A i \in FrameAt : queue[i].number \in pushed + 1 .. completed
  /\ \A i, j \in FrameAt : i < j => queue[i].number < queue[j].number

(* Every frame the assembler completed was pushed, is in the channel, was  *)
(* discarded by a stop or refused caps, or is counted in frames-dropped,   *)
(* which counts the unfinished frames as well and nothing twice.           *)
FramesCounted ==
  /\ completed = account.pushed + InQueue + account.refused + account.discarded
  /\ dropped = account.unfinished + account.refused

(* One run of the element carries one format: what is in the channel, what *)
(* was negotiated and what the thread compares with agree, so create()'s   *)
(* own mid-stream check never fires, also after a flush.                   *)
OneFormat ==
  /\ phase \in {"running", "flushing"} =>
       \A i \in DOMAIN queue :
         queue[i].type = "frame" =>
           /\ caps \in {None, queue[i].format}
           /\ expected \in {None, queue[i].format}
  /\ phase = "running" /\ caps # None => current = caps

(* After an error nothing follows in the channel: a frame completed after  *)
(* the failure never overtakes or trails the error event.                  *)
ErrorIsLast ==
  \A i \in DOMAIN queue :
    queue[i] = Failure => i = Len(queue) /\ thread = "off"

(* When the receiver thread ends, by itself or not, a pipeline that keeps  *)
(* pulling learns of it: create() does not wait for ever (create's         *)
(* Disconnected branch).                                                   *)
EndIsNoticed ==
  phase = "running" /\ thread = "off" ~> phase # "running" \/ flow # "ok"

(* unlock() gets the streaming thread out of create(), frames or not.      *)
UnlockReturns == phase = "flushing" ~> creator = "out"

(* stop() returns: joining the receiver thread never hangs, whatever is in *)
(* the channel nobody reads any more (try_send, the read timeout).         *)
StopReturns == phase = "joining" ~> phase = "stopped"

(* With drop-incomplete an unfinished frame is reaped, once no more of the *)
(* datagrams that do not parse arrive: each of them restarts the wait      *)
(* without a reap.                                                         *)
GapsReaped ==
  (<>[][~RecvForeign]_vars)
    => \A f \in Frames : Live(f) ~> ~Live(f) \/ phase # "running"

(* What docs/compatibility-stream-profile.md:80 says: "a frame with        *)
(* unresolved gaps is dropped on timeout", here whatever else arrives.     *)
GapsAlwaysReaped ==
  \A f \in Frames : Live(f) ~> ~Live(f) \/ phase # "running"

(* The time to reap is right up to one read timeout, by which a frame may  *)
(* be reaped early: the instant its last packet is given is read before    *)
(* recv_from blocks (imp.rs:768).                                          *)
ReapedNearTimeout == early + Poll >= Timeout

(* What docs/compatibility-stream-profile.md:28 says: "Any mid-stream      *)
(* change to those values is treated as a stream error by `eevideosrc`".   *)
(* The error is lost when the channel is full; create() then returns Eos.  *)
FormatChangeIsError == changed => flow # "eos"
=============================================================================
