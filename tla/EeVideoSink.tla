----------------------------- MODULE EeVideoSink -----------------------------
(***************************************************************************)
(* The GStreamer sink element of crates/gst-plugin-eevideo: the            *)
(* application starts, flushes and stops it; the streaming thread          *)
(* negotiates caps and renders buffers, each of which becomes one frame    *)
(* of the compatibility stream.  The buffers are numbered, and a payload   *)
(* is <<buffer, format, chunk number>>.                                    *)
(*                                                                         *)
(* The element's control session has the no-op backend, which never fails  *)
(* and sends nothing: it is left out.  So are the steps that return an     *)
(* error at once: a start whose socket cannot be set up, caps in another   *)
(* format than negotiated, a buffer before start or caps or while unlocked.*)
(***************************************************************************)
EXTENDS Naturals

CONSTANTS
  NFrames,     \* bound: buffers rendered in one behaviour
  Formats,     \* formats the caps may name
  FrameLength, \* FrameLength[fmt]: payload_len() of a format
  ChunkLen,    \* bytes of payload per packet (payload_chunk_len)
  MaxStarts,   \* bound: starts of the element
  None

ASSUME ChunkAssumption ==
  FrameLength \in [Formats -> Nat \ {0}] /\ ChunkLen \in Nat \ {0}
ASSUME NFramesAssumption == NFrames \in Nat

(* RunningState, while the element is started.                             *)
RunningStates == [nextId: Nat, format: Formats \cup {None}]

ASSUME SinkNoneAssumption == None \notin Formats \cup Nat \cup RunningStates

VARIABLES
  sink,      \* RunningState: next_frame_id and negotiated_format, or None
  unlocked,  \* the flag of unlock() and unlock_stop()
  rendering, \* the buffer render() is sending and the packet to send next
  starts,    \* starts so far (bound)
  buffers,   \* buffers so far (bound); the last one is being rendered
  sinkStats, \* StreamStats
  sent       \* history: per buffer, its frame id, format, run and how far
             \* it was sent

sinkVars == <<sink, unlocked, rendering, starts, buffers, sinkStats, sent>>

Contents == 1 .. NFrames

NChunks(fmt) == (FrameLength[fmt] + ChunkLen - 1) \div ChunkLen

Chunks ==
  UNION {Contents \X {fmt} \X (1 .. NChunks(fmt)) : fmt \in Formats}

(* data.chunks(chunk_len): every chunk is full but the last.               *)
ChunkSize ==
  [b \in Chunks |-> IF b[3] < NChunks(b[2]) THEN ChunkLen
                    ELSE FrameLength[b[2]] - (NChunks(b[2]) - 1) * ChunkLen]

Unsent == [id |-> 0, format |-> None, run |-> 0, packets |-> 0]

SinkInit ==
  /\ sink = None /\ unlocked = FALSE /\ rendering = None
  /\ starts = 0 /\ buffers = 0
  /\ sinkStats = [frames |-> 0, dropped |-> 0, anomalies |-> 0]
  /\ sent = [c \in Contents |-> Unsent]

SinkStart ==
  /\ sink = None /\ starts < MaxStarts
  /\ starts' = starts + 1
  /\ sink' = [nextId |-> 1, format |-> None]
  /\ unlocked' = FALSE
  /\ UNCHANGED <<rendering, buffers, sinkStats, sent>>

(* GstBaseSink stops the streaming thread before it calls stop().          *)
SinkStop ==
  /\ sink # None /\ rendering = None
  /\ sink' = None
  /\ unlocked' = FALSE
  /\ UNCHANGED <<rendering, starts, buffers, sinkStats, sent>>

(* A flush finds a render() that waits for the network, or none.           *)
SinkUnlock ==
  /\ sink # None
  /\ unlocked' = TRUE
  /\ UNCHANGED <<sink, rendering, starts, buffers, sinkStats, sent>>

SinkUnlockStop ==
  /\ sink # None /\ rendering = None
  /\ unlocked' = FALSE
  /\ UNCHANGED <<sink, rendering, starts, buffers, sinkStats, sent>>

SetCaps(fmt) ==
  /\ sink # None /\ rendering = None /\ sink.format = None
  /\ sink' = [sink EXCEPT !.format = fmt]
  /\ UNCHANGED <<unlocked, rendering, starts, buffers, sinkStats, sent>>

---------------------------------------------------------------------------
(* render()                                                                *)

RenderBegins ==
  /\ sink # None /\ sink.format # None /\ rendering = None /\ ~unlocked
  /\ buffers < NFrames
  /\ buffers' = buffers + 1
  /\ UNCHANGED <<sink, unlocked, starts>>

(* record_drop and record_packet_anomaly.                                  *)
CountFailure ==
  sinkStats' = [sinkStats EXCEPT !.dropped = @ + 1, !.anomalies = @ + 1]

RenderWrongLength ==
  /\ RenderBegins
  /\ CountFailure
  /\ UNCHANGED <<rendering, sent>>

Render ==
  /\ RenderBegins
  /\ rendering' = 0
  /\ sent' = [sent EXCEPT ![buffers + 1] =
                [id |-> sink.nextId, format |-> sink.format, run |-> starts,
                 packets |-> 0]]
  /\ UNCHANGED sinkStats

Trailer == NChunks(sink.format) + 1

(* emit_packets: leader, chunks and trailer, with ids 0, 1, 2, ...; `of'   *)
(* is the buffer, which no packet says.                                    *)
PacketAt(n) ==
  LET f == sink.nextId
      fmt == sink.format
  IN
  IF n = 0
  THEN [type |-> "leader", frame |-> f, id |-> 0, len |-> FrameLength[fmt],
        of |-> buffers]
  ELSE IF n < Trailer
       THEN [type |-> "payload", frame |-> f, id |-> n, of |-> buffers,
             body |-> <<buffers, fmt, n>>]
  ELSE [type |-> "trailer", frame |-> f, id |-> n, of |-> buffers]

(* Mutant: next_frame_id is not advanced.                                  *)
SameId(s) == s

(* next_frame_id wraps at 2^32 (wrapping_add); a run of the element here    *)
(* has fewer frames than that, so the wrap is not modelled.                *)
NextId(s) == [s EXCEPT !.nextId = @ + 1]

(* The next packet goes out; after the last one the frame is counted.      *)
SendPacket ==
  /\ rendering # None
  /\ sent' = [sent EXCEPT ![buffers].packets = @ + 1]
  /\ IF rendering < Trailer
     THEN rendering' = rendering + 1 /\ UNCHANGED <<sink, sinkStats>>
     ELSE /\ rendering' = None
          /\ sink' = NextId(sink)
          /\ sinkStats' = [sinkStats EXCEPT !.frames = @ + 1]
  /\ UNCHANGED <<unlocked, starts, buffers>>

(* A send fails: render() returns, and the next frame takes the same id.   *)
SendFails ==
  /\ rendering # None
  /\ rendering' = None
  /\ CountFailure
  /\ UNCHANGED <<sink, unlocked, starts, buffers, sent>>

---------------------------------------------------------------------------
Begun(c) == sent[c].id # 0

(* All payloads of a buffer have been sent, or its trailer too.            *)
SentWhole(c) == Begun(c) /\ sent[c].packets > NChunks(sent[c].format)
SentOut(c) == Begun(c) /\ sent[c].packets > NChunks(sent[c].format) + 1

ShareId(c, d) == c # d /\ Begun(c) /\ Begun(d) /\ sent[c].id = sent[d].id

(* Why two frames, c before d, got one id: the element was restarted       *)
(* between them, or c was not sent to its end (render's next_frame_id).    *)
IdReused(c, d) ==
  /\ c < d /\ ShareId(c, d)
  /\ sent[c].run # sent[d].run \/ ~SentOut(c)
=============================================================================
