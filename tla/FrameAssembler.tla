--------------------------- MODULE FrameAssembler ---------------------------
(***************************************************************************)
(* The frame assembler of crates/eevideo-proto: it turns the leader,       *)
(* payload and trailer packets of the compatibility stream profile, which  *)
(* the network may lose, duplicate and reorder, back into video frames.    *)
(*                                                                         *)
(* A payload's bytes are a member of Bodies with a size; the image buffer  *)
(* is the sequence of the bodies copied into it, and `offset' the bytes    *)
(* they fill.  Pixel format, timestamp and dimensions are abstracted to    *)
(* `len', the payload length they imply; length 0 stands for the           *)
(* dimensions payload_len() rejects.  Instants are abstracted to the ticks *)
(* since a frame's last update, which stop growing at Timeout.             *)
(***************************************************************************)
EXTENDS Naturals, Sequences, FiniteSets

CONSTANTS
  FrameIds,   \* the frame ids packets carry
  MaxId,      \* the largest packet id (u32::MAX in the code)
  Bodies,     \* payload contents
  Size,       \* Size[b]: the bytes of payload content b
  Lengths,    \* payload lengths a leader may announce
  Timeout,    \* ticks without an update after which a frame is reaped
  MaxPackets, \* bound: packets ingested in one behaviour
  None        \* no frame, no payload, no trailer

ASSUME FrameIdsAssumption == IsFiniteSet(FrameIds)
ASSUME MaxIdAssumption == MaxId \in Nat \ {0}
ASSUME BodiesAssumption == Size \in [Bodies -> Nat]
ASSUME LengthsAssumption == Lengths \subseteq Nat
ASSUME TimeoutAssumption == Timeout \in Nat
ASSUME MaxPacketsAssumption == MaxPackets \in Nat

PacketIds == 0 .. MaxId

Leaders  == [type: {"leader"}, frame: FrameIds, id: PacketIds, len: Lengths]
Payloads == [type: {"payload"}, frame: FrameIds, id: PacketIds, body: Bodies]
Trailers == [type: {"trailer"}, frame: FrameIds, id: PacketIds]
Packets  == Leaders \cup Payloads \cup Trailers

DropReason == {"PayloadOverflow", "Timeout", "DuplicateLeader",
               "PayloadBeforeLeader", "TrailerBeforeLeader",
               "PacketAfterTrailer", "ShortFrame"}

Buffer == [PacketIds -> Bodies \cup {None}]

PartialFrame ==
  [packetId: PacketIds, len: Nat \ {0}, offset: Nat, data: Seq(Bodies),
   pending: Buffer, trailer: PacketIds \cup {None}, idle: 0 .. Timeout]

ASSUME NoneAssumption ==
  None \notin Bodies /\ None \notin Nat /\ None \notin PartialFrame

FrameEvent ==
  [kind: {"complete"}, frame: FrameIds, data: Seq(Bodies)]
    \cup [kind: {"dropped"}, frame: FrameIds, reason: DropReason]

Wire == [lead: PacketIds, len: Nat, got: Buffer, end: PacketIds \cup {None}]

Stats == [packets: Nat, frames: Nat, dropped: Nat, anomalies: Nat]

VARIABLES
  frames,   \* the partial frame of each frame id, or None
  stats,    \* StreamStats
  output,   \* the events the last call returned
  wire,     \* history: what each frame id's packets said since its leader
  led,      \* history: leaders that opened a frame
  orphans   \* history: drops reported for packets that had no frame

history == <<wire, led, orphans>>
vars == <<frames, stats, output, history>>

Empty == [p \in PacketIds |-> None]

Init ==
  /\ frames = [f \in FrameIds |-> None]
  /\ stats = [packets |-> 0, frames |-> 0, dropped |-> 0, anomalies |-> 0]
  /\ output = {}
  /\ wire = [f \in FrameIds |->
               [lead |-> 0, len |-> 0, got |-> Empty, end |-> None]]
  /\ led = 0
  /\ orphans = 0

Live(f) == frames[f] # None

LiveFrames == {f \in FrameIds : Live(f)}

---------------------------------------------------------------------------
(* Helpers on one partial frame.                                           *)

SizeOf(b) == IF b = None THEN 0 ELSE Size[b]

(* The bytes the packets lo .. hi of a buffer hold.                        *)
ByteSum(buffer, lo, hi) ==
  LET sum[p \in Nat] ==
        IF p < lo THEN 0
        ELSE SizeOf(buffer[p]) + (IF p = 0 THEN 0 ELSE sum[p - 1])
  IN  sum[hi]

PendingBytes(s) == ByteSum(s.pending, 0, MaxId)

(* Mutant: the bytes already buffered are not counted.                     *)
OverflowOfPacket(s, body) == Size[body] > s.len - s.offset

PendingOverflow(s, body) == PendingBytes(s) + Size[body] > s.len - s.offset

(* Whether e ends the gap-free run of buffered packets after packetId.     *)
IsRunEnd(s, e) ==
  /\ \A p \in (s.packetId + 1) .. e : s.pending[p] # None
  /\ e < MaxId => s.pending[e + 1] = None

(* Mutant: an `if' where flush_pending_payloads has a `while'.             *)
NextOnly(s) ==
  IF s.packetId < MaxId /\ s.pending[s.packetId + 1] # None
  THEN s.packetId + 1 ELSE s.packetId

RunEnd(s) == CHOOSE e \in s.packetId .. MaxId : IsRunEnd(s, e)

(* Mutant: the offset is set where it should be advanced.                  *)
FilledByRun(s) == ByteSum(s.pending, s.packetId + 1, RunEnd(s))

FilledTo(s) == s.offset + ByteSum(s.pending, s.packetId + 1, RunEnd(s))

(* A run fits when the bytes it fills the image to are within the image.   *)
Fits(s) == FilledTo(s) \in 0 .. s.len

(* Mutant: the run is copied from the buffer but not removed from it.      *)
CopiedOnly(s) ==
  [s EXCEPT !.packetId = RunEnd(s), !.offset = FilledTo(s), !.idle = 0,
            !.data = @ \o [i \in 1 .. (RunEnd(s) - s.packetId) |->
                             s.pending[s.packetId + i]]]

(* flush_pending_payloads: the gap-free run moves into the image.  Every   *)
(* caller has just set last_update, so the frame is also fresh.            *)
Flushed(s) ==
  LET e == RunEnd(s) IN
  [packetId |-> e,
   len      |-> s.len,
   offset   |-> FilledTo(s),
   data     |-> s.data \o [i \in 1 .. (e - s.packetId) |->
                             s.pending[s.packetId + i]],
   pending  |-> [p \in PacketIds |->
                   IF p \in (s.packetId + 1) .. e THEN None
                   ELSE s.pending[p]],
   trailer  |-> s.trailer,
   idle     |-> 0]

---------------------------------------------------------------------------
(* The ways a call ends.  Each leaves record_packet to the handler.        *)

Count(packets, done, drops, anomalies) ==
  stats' = [packets   |-> stats.packets + packets,
            frames    |-> stats.frames + done,
            dropped   |-> stats.dropped + drops,
            anomalies |-> stats.anomalies + anomalies]

Dropped(f, reason) == [kind |-> "dropped", frame |-> f, reason |-> reason]

(* Mutant: an ignored packet's frame is not put back into the map.         *)
Forget(f) ==
  /\ frames' = [frames EXCEPT ![f] = None]
  /\ Count(1, 0, 0, 1)
  /\ output' = {}

(* The frame is put back with a fresh last_update; the packet is ignored.  *)
Ignore(f) ==
  /\ frames' = [frames EXCEPT ![f].idle = 0]
  /\ Count(1, 0, 0, 1)
  /\ output' = {}

(* The frame has been removed from the map and is not put back.            *)
Discard(f, reason) ==
  /\ frames' = [frames EXCEPT ![f] = None]
  /\ Count(1, 0, 1, 1)
  /\ output' = {Dropped(f, reason)}

Keep(f, s) ==
  /\ frames' = [frames EXCEPT ![f] = s]
  /\ Count(1, 0, 0, 0)
  /\ output' = {}

Deliver(f, s) ==
  /\ frames' = [frames EXCEPT ![f] = None]
  /\ Count(1, 1, 0, 0)
  /\ output' = {[kind |-> "complete", frame |-> f, data |-> s.data]}

(* Mutant: a full image is delivered without waiting for the trailer.      *)
DeliverWhenFull(f, s) ==
  \/ ~Fits(s) /\ Discard(f, "PayloadOverflow")
  \/ Fits(s) /\ Flushed(s).offset = s.len /\ Deliver(f, Flushed(s))
  \/ Fits(s) /\ Flushed(s).offset # s.len /\ Keep(f, Flushed(s))

(* reconcile_frame and progress_frame.                                     *)
Reconcile(f, s) ==
  \/ ~Fits(s) /\ Discard(f, "PayloadOverflow")
  \/ Fits(s) /\ RunEnd(s) = MaxId /\ Discard(f, "PacketAfterTrailer")
  \/ /\ Fits(s) /\ RunEnd(s) < MaxId
     /\ LET g == Flushed(s) IN
        \/ g.trailer # g.packetId + 1 /\ Keep(f, g)
        \/ /\ g.trailer = g.packetId + 1 /\ g.offset # g.len
           /\ Discard(f, "ShortFrame")
        \/ g.trailer = g.packetId + 1 /\ g.offset = g.len /\ Deliver(f, g)

---------------------------------------------------------------------------
(* ingest_view                                                             *)

(* Mutant: the leader's own id is expected again.                          *)
NewFrameAtLeader(p) ==
  [packetId |-> p.id - 1, len |-> p.len, offset |-> 0, data |-> <<>>,
   pending |-> Empty, trailer |-> None, idle |-> 0]

NewFrame(p) ==
  [packetId |-> p.id, len |-> p.len, offset |-> 0, data |-> <<>>,
   pending |-> Empty, trailer |-> None, idle |-> 0]

RejectLeader(p) ==
  /\ p.len = 0
  /\ Count(1, 0, 0, 0)
  /\ output' = {}
  /\ UNCHANGED <<frames, history>>

AcceptLeader(p) ==
  /\ p.len > 0
  /\ frames' = [frames EXCEPT ![p.frame] = NewFrame(p)]
  /\ \/ /\ Live(p.frame)
        /\ Count(1, 0, 1, 1)
        /\ output' = {Dropped(p.frame, "DuplicateLeader")}
     \/ /\ ~Live(p.frame)
        /\ Count(1, 0, 0, 0)
        /\ output' = {}
  /\ wire' = [wire EXCEPT ![p.frame] =
                [lead |-> p.id, len |-> p.len, got |-> Empty, end |-> None]]
  /\ led' = led + 1
  /\ UNCHANGED orphans

(* Mutant: a leader does not replace the frame that has its id.            *)
FirstLeaderWins(p) ==
  \/ RejectLeader(p)
  \/ ~Live(p.frame) /\ AcceptLeader(p)
  \/ /\ Live(p.frame) /\ p.len > 0
     /\ Count(1, 0, 0, 1)
     /\ output' = {}
     /\ UNCHANGED <<frames, history>>

IngestLeader(p) == RejectLeader(p) \/ AcceptLeader(p)

(* A payload or a trailer that finds no active frame.                      *)
Orphan(p, reason) ==
  /\ ~Live(p.frame)
  /\ Discard(p.frame, reason)
  /\ orphans' = orphans + 1
  /\ UNCHANGED <<wire, led>>

(* The first non-empty content seen for a packet id is the one that counts *)
ObservePayload(p) ==
  /\ wire' = IF /\ Size[p.body] > 0
                /\ p.id > wire[p.frame].lead
                /\ wire[p.frame].got[p.id] = None
             THEN [wire EXCEPT ![p.frame].got[p.id] = p.body]
             ELSE wire
  /\ UNCHANGED <<led, orphans>>

ObserveTrailer(p) ==
  /\ wire' = IF wire[p.frame].end = None
             THEN [wire EXCEPT ![p.frame].end = p.id]
             ELSE wire
  /\ UNCHANGED <<led, orphans>>

(* Mutant: a second payload for a buffered id replaces the first.          *)
BehindOnly(s, id) == id <= s.packetId

Repeated(s, id) == id <= s.packetId \/ s.pending[id] # None

(* Mutant: the last payload counts as past the trailer.                    *)
AtLastOrPast(s, id) == s.trailer # None /\ id + 1 >= s.trailer

PastTrailer(s, id) == s.trailer # None /\ id >= s.trailer

IngestPayload(p) ==
  \/ Orphan(p, "PayloadBeforeLeader")
  \/ /\ Live(p.frame)
     /\ ObservePayload(p)
     /\ LET s == frames[p.frame] IN
        \/ Repeated(s, p.id) /\ Ignore(p.frame)
        \/ /\ ~Repeated(s, p.id) /\ PastTrailer(s, p.id)
           /\ Discard(p.frame, "PacketAfterTrailer")
        \/ /\ ~Repeated(s, p.id) /\ ~PastTrailer(s, p.id)
           /\ Size[p.body] = 0
           /\ Ignore(p.frame)
        \/ /\ ~Repeated(s, p.id) /\ ~PastTrailer(s, p.id)
           /\ Size[p.body] > 0
           /\ IF p.id # s.packetId + 1 /\ PendingOverflow(s, p.body)
              THEN Discard(p.frame, "PayloadOverflow")
              ELSE Reconcile(p.frame, [s EXCEPT !.pending[p.id] = p.body])

(* Mutant: the last of several trailers wins.                              *)
LastTrailerWins(p) ==
  \/ Orphan(p, "TrailerBeforeLeader")
  \/ /\ Live(p.frame)
     /\ ObserveTrailer(p)
     /\ LET s == frames[p.frame] IN
        \/ p.id <= s.packetId /\ Discard(p.frame, "ShortFrame")
        \/ p.id > s.packetId /\ Reconcile(p.frame, [s EXCEPT !.trailer = p.id])

IngestTrailer(p) ==
  \/ Orphan(p, "TrailerBeforeLeader")
  \/ /\ Live(p.frame)
     /\ ObserveTrailer(p)
     /\ LET s == frames[p.frame] IN
        \/ p.id <= s.packetId /\ Discard(p.frame, "ShortFrame")
        \/ p.id > s.packetId /\ s.trailer = p.id /\ Ignore(p.frame)
        \/ /\ p.id > s.packetId /\ s.trailer \notin {None, p.id}
           /\ Discard(p.frame, "PacketAfterTrailer")
        \/ /\ p.id > s.packetId /\ s.trailer = None
           /\ Reconcile(p.frame, [s EXCEPT !.trailer = p.id])

Ingest(p) ==
  /\ stats.packets < MaxPackets
  /\ \/ p.type = "leader"  /\ IngestLeader(p)
     \/ p.type = "payload" /\ IngestPayload(p)
     \/ p.type = "trailer" /\ IngestTrailer(p)

---------------------------------------------------------------------------
(* Time and reap_timeouts                                                  *)

(* Mutant: only frames that wait for their end are reaped.                 *)
EndedOnly ==
  {f \in LiveFrames : frames[f].idle >= Timeout /\ frames[f].trailer # None}

Expired == {f \in LiveFrames : frames[f].idle >= Timeout}

ReapTimeouts ==
  /\ Expired # {}
  /\ frames' = [f \in FrameIds |-> IF f \in Expired THEN None ELSE frames[f]]
  /\ Count(0, 0, Cardinality(Expired), Cardinality(Expired))
  /\ output' = {Dropped(f, "Timeout") : f \in Expired}
  /\ UNCHANGED history

Aged(s) == IF s # None /\ s.idle < Timeout
           THEN [s EXCEPT !.idle = @ + 1] ELSE s

Tick ==
  /\ \E f \in LiveFrames : frames[f].idle < Timeout
  /\ frames' = [f \in FrameIds |-> Aged(frames[f])]
  /\ output' = {}
  /\ UNCHANGED <<stats, history>>

Next == (\E p \in Packets : Ingest(p)) \/ ReapTimeouts \/ Tick

Spec == Init /\ [][Next]_vars

(* The receiver thread reaps after every packet and after every 100 ms of  *)
(* silence (eevideosrc/imp.rs), so a due reap is not put off for ever.     *)
FairSpec == Spec /\ WF_vars(Tick) /\ WF_vars(ReapTimeouts)
---------------------------------------------------------------------------
(* Properties                                                              *)

(* Every variable keeps its type: StreamStats counters, the frame map of   *)
(* FrameAssembler, the events a call returns and the history.              *)
StateOK ==
  /\ frames \in [FrameIds -> PartialFrame \cup {None}]
  /\ stats \in Stats
  /\ output \subseteq FrameEvent

HistoryOK ==
  /\ wire \in [FrameIds -> Wire]
  /\ led \in Nat
  /\ orphans \in Nat

TypeOK == StateOK /\ HistoryOK

(* A frame that is emitted is the one its packets describe: the contents   *)
(* first received for the ids between leader and trailer, in id order,     *)
(* none missing, whatever the network repeated or reordered                *)
(* (append_payload_bytes, flush_pending_payloads, progress_frame).         *)
DeliveredInOrder ==
  \A e \in output : e.kind = "complete" =>
    LET w == wire[e.frame] IN
    /\ w.end = w.lead + Len(e.data) + 1
    /\ \A i \in 1 .. Len(e.data) : e.data[i] = w.got[w.lead + i]

(* An emitted frame has no hole and no excess: the bytes received between  *)
(* its leader and its trailer are the length the leader implies            *)
(* (the offset comparison of progress_frame).                              *)
DeliveredInFull ==
  \A e \in output : e.kind = "complete" =>
    LET w == wire[e.frame] IN
    ByteSum(w.got, w.lead + 1, w.end - 1) = w.len

(* No frame vanishes and none is counted twice: each accepted leader is    *)
(* still being assembled, was emitted, or was counted as dropped.  The     *)
(* handlers take the frame out of the map first and put it back on some    *)
(* paths only, so a forgotten insert would break this (ingest_view).       *)
Accounted ==
  led + orphans =
    stats.frames + stats.dropped + Cardinality(LiveFrames)

(* reconcile_frame leaves no work behind: a frame kept in the map cannot   *)
(* take its next packet from its own buffer and is not waiting for nothing *)
(* once its trailer's range is filled.                                     *)
IsReconciled(s) ==
  s.packetId < MaxId => /\ s.pending[s.packetId + 1] = None
                        /\ s.trailer # s.packetId + 1

Reconciled == \A f \in FrameIds : Live(f) => IsReconciled(frames[f])

(* What an unfinished frame holds is what was received for it, each        *)
(* content in one place: copied into the image up to packetId, buffered    *)
(* above it (append_payload_bytes, flush_pending_payloads).                *)
Holds(s, w) ==
  /\ s.len = w.len /\ s.trailer = w.end
  /\ w.lead + Len(s.data) = s.packetId
  /\ \A i \in 1 .. Len(s.data) : s.data[i] = w.got[w.lead + i]
  /\ \A p \in PacketIds :
       s.pending[p] = IF p > s.packetId THEN w.got[p] ELSE None

HoldsWhatArrived == \A f \in FrameIds : Live(f) => Holds(frames[f], wire[f])

(* The memory of a frame is bounded by twice its image, however many       *)
(* payloads arrive ahead of a gap (buffered_payloads_overflow).            *)
MemoryBounded ==
  \A f \in FrameIds : Live(f) =>
    /\ frames[f].offset <= frames[f].len
    /\ PendingBytes(frames[f]) <= frames[f].len

(* Until a new leader replaces it, a frame only grows: packetId never goes *)
(* back and bytes already in the image never change, so a late duplicate   *)
(* cannot overwrite what was assembled.                                    *)
OnlyGrows ==
  [][\A f \in FrameIds :
       Live(f) /\ Live(f)' /\ led' = led =>
         /\ frames'[f].packetId >= frames[f].packetId
         /\ frames'[f].data =
              frames[f].data \o SubSeq(frames'[f].data,
                                       Len(frames[f].data) + 1,
                                       Len(frames'[f].data))
         /\ frames[f].trailer # None =>
              frames'[f].trailer = frames[f].trailer]_vars

(* Once its packets stop coming, an unfinished frame is not kept for ever: *)
(* it is dropped by timeout (reap_timeouts).                               *)
GapsTimeOut == \A f \in FrameIds : Live(f) ~> ~Live(f)

(* What docs/compatibility-stream-profile.md:74 says: "payload packets at  *)
(* or beyond the declared trailer boundary drop the frame".  The code      *)
(* checks payloads that come after the trailer; one buffered before it and *)
(* beyond it stays in the buffer while the frame is completed and emitted. *)
NothingPastTrailer ==
  \A e \in output : e.kind = "complete" =>
    \A p \in PacketIds :
      p >= wire[e.frame].end => wire[e.frame].got[p] = None
=============================================================================
