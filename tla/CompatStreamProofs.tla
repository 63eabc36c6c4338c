------------------------- MODULE CompatStreamProofs -------------------------
(***************************************************************************)
(* Proofs about the compatibility stream end to end, for any number of     *)
(* buffers, any formats, packet sizes and networks.                        *)
(***************************************************************************)
EXTENDS CompatStream, NatFacts

(* The receiver with what is proved about it.                              *)
Assembler == INSTANCE FrameAssemblerProofs
  WITH FrameIds <- Contents, Bodies <- Chunks, Size <- ChunkSize,
       Lengths <- {FrameLength[fmt] : fmt \in Formats}

---------------------------------------------------------------------------
(* Constants                                                               *)

(* data.chunks(chunk_len): the chunks but the last do not hold the image,  *)
(* all together do.                                                        *)
LEMMA ChunkCount ==
  ASSUME NEW fmt \in Formats
  PROVE  /\ NChunks(fmt) \in Nat \ {0}
         /\ (NChunks(fmt) - 1) * ChunkLen < FrameLength[fmt]
         /\ FrameLength[fmt] <= NChunks(fmt) * ChunkLen
<1> DEFINE a == FrameLength[fmt] + ChunkLen - 1
           n == a \div ChunkLen
<1>1. ChunkLen \in Nat \ {0} /\ FrameLength[fmt] \in Nat \ {0} /\ a \in Nat
  BY ChunkAssumption
<1>2. n \in Int /\ ChunkLen * n <= a /\ a < ChunkLen * n + ChunkLen
  <2> HIDE DEF a
  <2> QED
    BY <1>1
<1>3. NChunks(fmt) = n
  BY DEF NChunks
<1> HIDE DEF n
<1>4. ChunkLen * n > 0
  <2> DEFINE k == ChunkLen * n
  <2>1. k \in Int /\ a < k + ChunkLen
    BY <1>1, <1>2
  <2> HIDE DEF k
  <2>2. k > 0
    BY <1>1, <2>1
  <2> QED
    BY <2>2 DEF k
<1>5. /\ n > 0 /\ ChunkLen * n = n * ChunkLen
      /\ (n - 1) * ChunkLen = n * ChunkLen - ChunkLen
  BY <1>1, <1>2, <1>4
<1> QED
  BY <1>1, <1>2, <1>3, <1>5

(* Every chunk has bytes, and no more than a packet takes.                 *)
LEMMA ChunkSizes ==
  /\ ChunkSize \in [Chunks -> Nat]
  /\ \A b \in Chunks : ChunkSize[b] > 0
<1>1. ASSUME NEW b \in Chunks
      PROVE  /\ b[2] \in Formats
             /\ (IF b[3] < NChunks(b[2]) THEN ChunkLen
                 ELSE FrameLength[b[2]] - (NChunks(b[2]) - 1) * ChunkLen) \in Nat \ {0}
  <2>1. PICK fmt \in Formats : b \in Contents \X {fmt} \X (1 .. NChunks(fmt))
    BY DEF Chunks
  <2>2. b[2] = fmt
    BY <2>1
  <2>3. FrameLength[fmt] \in Nat /\ ChunkLen \in Nat \ {0}
    BY ChunkAssumption
  <2> DEFINE k == (NChunks(fmt) - 1) * ChunkLen
  <2>4. k \in Int /\ k < FrameLength[fmt]
    BY <2>3, ChunkCount
  <2> HIDE DEF k
  <2>5. FrameLength[fmt] - k \in Nat \ {0}
    BY <2>3, <2>4
  <2> QED
    BY <2>2, <2>3, <2>5 DEF k
<1> QED
  BY <1>1 DEF ChunkSize

(* The assumptions of the frame assembler hold of the stream's receiver.   *)
LEMMA ReceiverConstants ==
  /\ IsFiniteSet(Contents) /\ MaxId \in Nat \ {0}
  /\ ChunkSize \in [Chunks -> Nat]
  /\ {FrameLength[fmt] : fmt \in Formats} \subseteq Nat
  /\ Timeout \in Nat /\ MaxPackets \in Nat
  /\ None \notin Chunks /\ None \notin Nat /\ None \notin PartialFrame
<1>1. IsFiniteSet(Contents)
  BY NFramesAssumption, CountTo DEF Contents
<1> QED
  BY <1>1, ChunkSizes, ChunkAssumption, PacketIdsAssumption, ReceiverAssumption,
     StreamNoneAssumption, SinkNoneAssumption

(* What is proved of the assembler holds of the receiver.                  *)
LEMMA ReceiverInvariant == Assembler!Spec => []Assembler!FillInv
<1>1. Assembler!PartialFrame = PartialFrame
  BY DEF Assembler!PartialFrame, PartialFrame, Assembler!PacketIds, PacketIds,
         Assembler!Buffer, Buffer
<1>2. Assembler!IsFiniteSet(Contents)
  BY ReceiverConstants DEF IsFiniteSet, Assembler!IsFiniteSet
<1> QED
  BY <1>1, <1>2, ReceiverConstants, Assembler!FillInvHolds

---------------------------------------------------------------------------
(* The receiver of the stream takes the assembler's steps                  *)

(* What a packet says, without the buffer it is of.                        *)
Bare(p) ==
  CASE p.type = "leader"  -> [type |-> "leader", frame |-> p.frame, id |-> p.id,
                              len |-> p.len]
    [] p.type = "payload" -> [type |-> "payload", frame |-> p.frame, id |-> p.id,
                              body |-> p.body]
    [] OTHER              -> [type |-> "trailer", frame |-> p.frame, id |-> p.id]

(* reconcile_frame is the same here and there.                             *)
LEMMA SameReconcile ==
  ASSUME NEW f, NEW s, Reconcile(f, s)
  PROVE  Assembler!Reconcile(f, s)
<1>1. \A b, lo, hi : ByteSum(b, lo, hi) = Assembler!ByteSum(b, lo, hi)
  BY DEF ByteSum, Assembler!ByteSum, SizeOf, Assembler!SizeOf
<1>2. RunEnd(s) = Assembler!RunEnd(s)
  BY DEF RunEnd, Assembler!RunEnd, IsRunEnd, Assembler!IsRunEnd
<1>3. FilledTo(s) = Assembler!FilledTo(s)
  BY <1>1, <1>2 DEF FilledTo, Assembler!FilledTo
<1>4. Flushed(s) = Assembler!Flushed(s)
  BY <1>2, <1>3 DEF Flushed, Assembler!Flushed, PacketIds, Assembler!PacketIds
<1> QED
  BY <1>2, <1>3, <1>4
  DEF Reconcile, Assembler!Reconcile, Fits, Assembler!Fits, Discard,
      Assembler!Discard, Keep, Assembler!Keep, Deliver, Assembler!Deliver,
      Count, Assembler!Count, Dropped, Assembler!Dropped

(* ingest_view, of a packet and of what it says: a leader.                 *)
LEMMA SameLeader ==
  ASSUME NEW p, NEW q, q.frame = p.frame, q.id = p.id, q.len = p.len,
         IngestLeader(p)
  PROVE  Assembler!IngestLeader(q)
<1>1. Assembler!NewFrame(q) = NewFrame(p) /\ Assembler!Empty = Empty
  BY DEF NewFrame, Assembler!NewFrame, Empty, Assembler!Empty,
         PacketIds, Assembler!PacketIds
<1> QED
  BY <1>1
  DEF IngestLeader, Assembler!IngestLeader, RejectLeader, Assembler!RejectLeader,
      AcceptLeader, Assembler!AcceptLeader, Count, Assembler!Count, Dropped,
      Assembler!Dropped, Live, Assembler!Live, history, Assembler!history

(* A payload.                                                             *)
LEMMA SamePayload ==
  ASSUME NEW p, NEW q, q.frame = p.frame, q.id = p.id, q.body = p.body,
         IngestPayload(p)
  PROVE  Assembler!IngestPayload(q)
<1>1. ASSUME NEW f, NEW s, NEW b
      PROVE  PendingOverflow(s, b) = Assembler!PendingOverflow(s, b)
  <2>1. ByteSum(s.pending, 0, MaxId) = Assembler!ByteSum(s.pending, 0, MaxId)
    BY DEF ByteSum, Assembler!ByteSum, SizeOf, Assembler!SizeOf
  <2> QED
    BY <2>1 DEF PendingOverflow, Assembler!PendingOverflow, PendingBytes,
                Assembler!PendingBytes
<1>2. CASE Orphan(p, "PayloadBeforeLeader")
  BY <1>2
  DEF Assembler!IngestPayload, Orphan, Assembler!Orphan, Live, Assembler!Live,
      Discard, Assembler!Discard, Count, Assembler!Count, Dropped,
      Assembler!Dropped
<1>3. CASE ~Orphan(p, "PayloadBeforeLeader")
  <2> DEFINE s == frames[p.frame]
  <2>1. Live(p.frame) /\ ObservePayload(p)
    BY <1>3 DEF IngestPayload
  <2>2. Assembler!Live(q.frame) /\ Assembler!ObservePayload(q)
    BY <2>1 DEF Live, Assembler!Live, ObservePayload, Assembler!ObservePayload
  <2>3. \A r : /\ Discard(p.frame, r) => Assembler!Discard(p.frame, r)
               /\ Ignore(p.frame) => Assembler!Ignore(p.frame)
    BY DEF Discard, Assembler!Discard, Count, Assembler!Count, Dropped,
           Assembler!Dropped, Ignore, Assembler!Ignore
  <2>4. /\ Repeated(s, p.id) = Assembler!Repeated(s, p.id)
        /\ PastTrailer(s, p.id) = Assembler!PastTrailer(s, p.id)
    BY DEF Repeated, Assembler!Repeated, PastTrailer, Assembler!PastTrailer
  <2>5. \A t : Reconcile(p.frame, t) => Assembler!Reconcile(p.frame, t)
    BY SameReconcile
  <2> QED
    BY <1>1, <1>3, <2>2, <2>3, <2>4, <2>5 DEF IngestPayload, Assembler!IngestPayload
<1> QED
  BY <1>2, <1>3

(* A trailer.                                                              *)
LEMMA SameTrailer ==
  ASSUME NEW p, NEW q, q.frame = p.frame, q.id = p.id, IngestTrailer(p)
  PROVE  Assembler!IngestTrailer(q)
<1>1. CASE Orphan(p, "TrailerBeforeLeader")
  BY <1>1
  DEF Assembler!IngestTrailer, Orphan, Assembler!Orphan, Live, Assembler!Live,
      Discard, Assembler!Discard, Count, Assembler!Count, Dropped,
      Assembler!Dropped
<1>2. CASE ~Orphan(p, "TrailerBeforeLeader")
  <2>1. Live(p.frame) /\ ObserveTrailer(p)
    BY <1>2 DEF IngestTrailer
  <2>2. Assembler!Live(q.frame) /\ Assembler!ObserveTrailer(q)
    BY <2>1 DEF Live, Assembler!Live, ObserveTrailer, Assembler!ObserveTrailer
  <2>3. \A r : /\ Discard(p.frame, r) => Assembler!Discard(p.frame, r)
               /\ Ignore(p.frame) => Assembler!Ignore(p.frame)
    BY DEF Discard, Assembler!Discard, Count, Assembler!Count, Dropped,
           Assembler!Dropped, Ignore, Assembler!Ignore
  <2>4. \A t : Reconcile(p.frame, t) => Assembler!Reconcile(p.frame, t)
    BY SameReconcile
  <2> QED
    BY <1>2, <2>2, <2>3, <2>4 DEF IngestTrailer, Assembler!IngestTrailer
<1> QED
  BY <1>1, <1>2

(* Each packet is taken as what it says.                                   *)
LEMMA SameIngest ==
  ASSUME NEW p, Ingest(p)
  PROVE  Assembler!Ingest(Bare(p))
<1>1. stats.packets < MaxPackets
  BY DEF Ingest
<1>2. CASE p.type = "leader" /\ IngestLeader(p)
  BY <1>1, <1>2, SameLeader DEF Assembler!Ingest, Bare
<1>3. CASE p.type = "payload" /\ IngestPayload(p)
  BY <1>1, <1>3, SamePayload DEF Assembler!Ingest, Bare
<1>4. CASE p.type = "trailer" /\ IngestTrailer(p)
  BY <1>1, <1>4, SameTrailer DEF Assembler!Ingest, Bare
<1> QED
  BY <1>2, <1>3, <1>4 DEF Ingest

(* Time and reap_timeouts.                                                 *)
LEMMA SameTime ==
  /\ Tick => Assembler!Tick
  /\ ReapTimeouts => Assembler!ReapTimeouts
<1>1. /\ Expired = Assembler!Expired /\ LiveFrames = Assembler!LiveFrames
      /\ \A s : Aged(s) = Assembler!Aged(s)
  BY DEF Expired, Assembler!Expired, LiveFrames, Assembler!LiveFrames, Live,
         Assembler!Live, Aged, Assembler!Aged
<1>2. Cardinality(Expired) = Assembler!Cardinality(Expired)
  BY DEF Cardinality, Assembler!Cardinality
<1> QED
  BY <1>1, <1>2
  DEF Tick, Assembler!Tick, ReapTimeouts, Assembler!ReapTimeouts, Count,
      Assembler!Count, Dropped, Assembler!Dropped, history, Assembler!history

---------------------------------------------------------------------------
(* The sink                                                                *)

SinkTypes ==
  /\ sink \in RunningStates \cup {None}
  /\ rendering \in Nat \cup {None}
  /\ starts \in Nat /\ buffers \in 0 .. NFrames
  /\ sinkStats \in [frames: Nat, dropped: Nat, anomalies: Nat]
  /\ sent \in [Contents -> [id: Nat, format: Formats \cup {None}, run: Nat,
                            packets: Nat]]

(* What has been sent of each buffer, and what is being sent.              *)
SentInv ==
  /\ \A c \in Contents : Begun(c) =>
       /\ c <= buffers /\ sent[c].id <= c /\ sent[c].run <= starts
       /\ sent[c].format \in Formats
       /\ sent[c].packets <= NChunks(sent[c].format) + 2
  /\ sink # None =>
       /\ sink.nextId >= 1
       /\ sink.nextId <= IF rendering = None THEN buffers + 1 ELSE buffers
  /\ rendering # None =>
       /\ sink # None /\ sink.format \in Formats /\ buffers >= 1
       /\ sent[buffers] = [id |-> sink.nextId, format |-> sink.format,
                           run |-> starts, packets |-> rendering]
       /\ rendering <= NChunks(sink.format) + 1

(* Within a run ids do not go back, and go on after each frame that was    *)
(* sent to its end.                                                        *)
RunIds ==
  /\ sink # None =>
       \A c \in Contents : Begun(c) /\ sent[c].run = starts =>
         /\ sent[c].id <= sink.nextId
         /\ SentOut(c) => sent[c].id < sink.nextId
  /\ \A c, d \in Contents :
       c < d /\ Begun(c) /\ Begun(d) /\ sent[c].run = sent[d].run =>
         /\ sent[c].id <= sent[d].id
         /\ SentOut(c) => sent[c].id < sent[d].id

SinkInv == SinkTypes /\ SentInv /\ RunIds

(* Starts, stops, flushes, caps and refused buffers send nothing.          *)
SinkQuiet ==
  \/ SinkStart \/ SinkStop \/ SinkUnlock \/ SinkUnlockStop
  \/ \E fmt \in Formats : SetCaps(fmt)
  \/ RenderWrongLength \/ SendFails

(* A failure changes the counters of failures.                             *)
LEMMA FailureCounted ==
  ASSUME SinkTypes, CountFailure
  PROVE  /\ sinkStats' \in [frames: Nat, dropped: Nat, anomalies: Nat]
         /\ sinkStats'.frames = sinkStats.frames
<1>1. sinkStats \in [frames: Nat, dropped: Nat, anomalies: Nat]
  BY DEF SinkTypes
<1>2. sinkStats' = [sinkStats EXCEPT !.dropped = @ + 1, !.anomalies = @ + 1]
  BY DEF CountFailure
<1>3. sinkStats.dropped + 1 \in Nat /\ sinkStats.anomalies + 1 \in Nat
  BY <1>1
<1>4. sinkStats' = [frames    |-> sinkStats.frames,
                    dropped   |-> sinkStats.dropped + 1,
                    anomalies |-> sinkStats.anomalies + 1]
  BY <1>1, <1>2
<1> QED
  BY <1>1, <1>3, <1>4

(* Such steps keep what is known of what was sent.                         *)
LEMMA QuietSink ==
  ASSUME SinkInv, SinkQuiet
  PROVE  SinkInv' /\ sent' = sent
<1> USE SinkNoneAssumption, NFramesAssumption
<1>1. CASE SinkStart
  <2>1. SinkTypes'
    BY <1>1 DEF SinkInv, SinkTypes, SinkStart, RunningStates
  <2>2. SentInv'
    BY <1>1 DEF SinkInv, SinkTypes, SentInv, SinkStart, Begun
  <2>3. \A c \in Contents : Begun(c) => sent[c].run # starts'
    BY <1>1 DEF SinkInv, SinkTypes, SentInv, SinkStart
  <2>4. RunIds'
    BY <1>1, <2>3 DEF SinkInv, RunIds, SinkStart, Begun, SentOut
  <2> QED
    BY <1>1, <2>1, <2>2, <2>4 DEF SinkInv, SinkStart
<1>2. CASE SinkStop
  BY <1>2 DEF SinkInv, SinkTypes, SentInv, RunIds, SinkStop, Begun, SentOut
<1>3. CASE SinkUnlock \/ SinkUnlockStop
  BY <1>3 DEF SinkInv, SinkTypes, SentInv, RunIds, SinkUnlock, SinkUnlockStop,
              Begun, SentOut
<1>4. ASSUME NEW fmt \in Formats, SetCaps(fmt)
      PROVE  SinkInv' /\ sent' = sent
  <2>1. SinkTypes'
    BY <1>4 DEF SinkInv, SinkTypes, SetCaps, RunningStates
  <2>2. sink.nextId = sink'.nextId /\ sink' # None
    BY <1>4, <2>1 DEF SinkInv, SinkTypes, SetCaps, RunningStates
  <2>3. SentInv'
    BY <1>4, <2>2 DEF SinkInv, SinkTypes, SentInv, SetCaps, Begun
  <2>4. RunIds'
    BY <1>4, <2>2 DEF SinkInv, RunIds, SetCaps, Begun, SentOut
  <2> QED
    BY <1>4, <2>1, <2>3, <2>4 DEF SinkInv, SetCaps
<1>5. CASE RenderWrongLength
  <2>1. SinkTypes'
    BY <1>5, FailureCounted DEF SinkInv, SinkTypes, RenderWrongLength, RenderBegins
  <2>2. buffers \in Nat /\ buffers' = buffers + 1 /\ rendering = None
    BY <1>5 DEF SinkInv, SinkTypes, RenderWrongLength, RenderBegins
  <2>3. SentInv'
    <3>1. \A c \in Contents : c <= buffers => c <= buffers'
      BY <2>2 DEF Contents
    <3>2. sink # None => sink.nextId <= buffers' + 1
      BY <1>5, <2>2 DEF SinkInv, SinkTypes, SentInv, RunningStates
    <3> QED
      BY <1>5, <2>2, <3>1, <3>2 DEF SinkInv, SentInv, RenderWrongLength, RenderBegins, Begun
  <2>4. RunIds'
    BY <1>5 DEF SinkInv, RunIds, RenderWrongLength, RenderBegins, Begun, SentOut
  <2> QED
    BY <1>5, <2>1, <2>3, <2>4 DEF SinkInv, RenderWrongLength
<1>6. CASE SendFails
  <2>1. SinkTypes'
    BY <1>6, FailureCounted DEF SinkInv, SinkTypes, SendFails
  <2>2. SentInv'
    BY <1>6 DEF SinkInv, SinkTypes, SentInv, SendFails, RunningStates, Begun
  <2>3. RunIds'
    BY <1>6 DEF SinkInv, RunIds, SendFails, Begun, SentOut
  <2> QED
    BY <1>6, <2>1, <2>2, <2>3 DEF SinkInv, SendFails
<1> QED
  BY <1>1, <1>2, <1>3, <1>4, <1>5, <1>6 DEF SinkQuiet

(* A new buffer gets the next id.                                          *)
LEMMA RenderedBuffer ==
  ASSUME SinkInv, Render
  PROVE  /\ buffers' \in Contents /\ ~Begun(buffers')
         /\ sent' = [sent EXCEPT ![buffers'] =
                       [id |-> sink.nextId, format |-> sink.format,
                        run |-> starts, packets |-> 0]]
         /\ sink.nextId \in Nat \ {0} /\ sink.format \in Formats
         /\ rendering' = 0 /\ sink' = sink
         /\ SinkInv'
<1> USE SinkNoneAssumption, NFramesAssumption
<1> DEFINE b == buffers + 1
           entry == [id |-> sink.nextId, format |-> sink.format,
                     run |-> starts, packets |-> 0]
<1>1. /\ b \in Contents /\ buffers' = b /\ sink' = sink /\ starts' = starts
      /\ rendering' = 0 /\ sinkStats' = sinkStats /\ rendering = None
      /\ sink # None /\ sink.format # None
      /\ sent' = [sent EXCEPT ![b] = entry]
  BY DEF SinkInv, SinkTypes, Render, RenderBegins, Contents
<1>2. /\ sink.nextId \in Nat \ {0} /\ sink.nextId <= b /\ sink.format \in Formats
      /\ buffers \in Nat /\ b \in Nat /\ starts \in Nat
  BY <1>1 DEF SinkInv, SinkTypes, SentInv, RunningStates
<1>3. ~Begun(b) /\ \A c \in Contents : Begun(c) => c < b
  BY <1>1, <1>2 DEF SinkInv, SentInv, Contents
<1> HIDE DEF b
<1>4. /\ sent'[b] = entry
      /\ \A c \in Contents : c # b => sent'[c] = sent[c]
      /\ sent' \in [Contents -> [id: Nat, format: Formats \cup {None}, run: Nat,
                                 packets: Nat]]
  BY <1>1, <1>2 DEF SinkInv, SinkTypes
<1>5. SinkTypes'
  <2>1. buffers' \in 0 .. NFrames
    BY <1>1, <1>2 DEF Contents
  <2> QED
    BY <1>1, <1>4, <2>1 DEF SinkInv, SinkTypes
<1>6. SentInv'
  <2>1. ASSUME NEW c \in Contents, Begun(c)'
        PROVE  /\ c <= b /\ sent'[c].id <= c /\ sent'[c].run <= starts
               /\ sent'[c].format \in Formats
               /\ sent'[c].packets <= NChunks(sent'[c].format) + 2
    <3>1. CASE c = b
      BY <1>2, <1>4, <3>1, ChunkCount
    <3>2. CASE c # b
      <4>1. Begun(c) /\ sent'[c] = sent[c]
        BY <1>4, <2>1, <3>2 DEF Begun
      <4>2. c <= b
        BY <1>2, <1>3, <4>1 DEF Contents
      <4> QED
        BY <4>1, <4>2 DEF SinkInv, SentInv
    <3> QED
      BY <3>1, <3>2
  <2>2. b >= 1 /\ sink.nextId >= 1
    BY <1>1, <1>2 DEF Contents
  <2>3. 0 <= NChunks(sink.format) + 1
    BY <1>2, ChunkCount
  <2> QED
    BY <1>1, <1>2, <1>4, <2>1, <2>2, <2>3 DEF SentInv
<1>7. RunIds'
  <2>1. \A c \in Contents : Begun(c)' /\ c # b =>
          Begun(c) /\ sent'[c] = sent[c] /\ SentOut(c)' = SentOut(c) /\ c < b
    BY <1>3, <1>4 DEF Begun, SentOut
  <2>2. \A c \in Contents : c = b => ~SentOut(c)'
    BY <1>2, <1>4, ChunkCount DEF SentOut
  <2>3. \A c \in Contents : Begun(c)' /\ sent'[c].run = starts =>
          /\ sent'[c].id <= sink.nextId
          /\ SentOut(c)' => sent'[c].id < sink.nextId
    BY <1>1, <1>2, <1>4, <2>1, <2>2 DEF SinkInv, RunIds
  <2>4. ASSUME NEW c \in Contents, NEW d \in Contents, c < d, Begun(c)',
               Begun(d)', sent'[c].run = sent'[d].run
        PROVE  /\ sent'[c].id <= sent'[d].id
               /\ SentOut(c)' => sent'[c].id < sent'[d].id
    <3>1. CASE d = b
      BY <1>1, <1>2, <1>4, <2>1, <2>4, <3>1 DEF SinkInv, RunIds, Contents
    <3>2. CASE d # b
      <4>1. d < b /\ c # b
        BY <1>2, <2>1, <2>4, <3>2 DEF Contents
      <4> QED
        BY <2>1, <2>4, <3>2, <4>1 DEF SinkInv, RunIds
    <3> QED
      BY <3>1, <3>2
  <2> QED
    BY <1>1, <2>3, <2>4 DEF RunIds
<1> QED
  BY <1>1, <1>2, <1>3, <1>4, <1>5, <1>6, <1>7 DEF SinkInv

(* The n-th packet of a buffer, as PacketAt makes it.                      *)
PacketOf(c, n) ==
  LET f == sent[c].id
      fmt == sent[c].format
  IN
  IF n = 0
  THEN [type |-> "leader", frame |-> f, id |-> 0, len |-> FrameLength[fmt],
        of |-> c]
  ELSE IF n <= NChunks(fmt)
       THEN [type |-> "payload", frame |-> f, id |-> n, of |-> c,
             body |-> <<c, fmt, n>>]
  ELSE [type |-> "trailer", frame |-> f, id |-> n, of |-> c]

(* A packet goes out: the next one of the buffer being rendered.           *)
LEMMA SentNext ==
  ASSUME SinkInv, SendPacket
  PROVE  /\ buffers \in Contents /\ Begun(buffers) /\ buffers' = buffers
         /\ sent[buffers].packets = rendering
         /\ PacketAt(rendering) = PacketOf(buffers, rendering)
         /\ sent' = [sent EXCEPT ![buffers].packets = @ + 1]
         /\ SinkInv'
<1> USE SinkNoneAssumption, NFramesAssumption
<1> DEFINE fmt == sink.format
           n == NChunks(fmt)
<1>1. /\ rendering # None /\ sink # None /\ fmt \in Formats /\ buffers >= 1
      /\ rendering \in Nat /\ buffers \in Contents /\ starts \in Nat
      /\ sink.nextId \in Nat \ {0}
      /\ sent[buffers] = [id |-> sink.nextId, format |-> fmt,
                          run |-> starts, packets |-> rendering]
      /\ rendering <= n + 1 /\ buffers \in Nat /\ sink.nextId <= buffers
  BY DEF SinkInv, SinkTypes, SentInv, SendPacket, RunningStates, Contents
<1>2. n \in Nat \ {0}
  BY <1>1, ChunkCount
<1>3. /\ sent' = [sent EXCEPT ![buffers].packets = @ + 1]
      /\ buffers' = buffers /\ starts' = starts
      /\ \/ /\ rendering < n + 1
            /\ rendering' = rendering + 1 /\ sink' = sink /\ sinkStats' = sinkStats
         \/ /\ rendering = n + 1 /\ rendering' = None /\ sink' = NextId(sink)
            /\ sinkStats' = [sinkStats EXCEPT !.frames = @ + 1]
  BY <1>1, <1>2 DEF SendPacket, Trailer
<1> DEFINE entry == [id |-> sink.nextId, format |-> fmt, run |-> starts,
                     packets |-> rendering + 1]
<1>4. /\ sent'[buffers] = entry
      /\ \A c \in Contents : c # buffers => sent'[c] = sent[c]
      /\ sent' \in [Contents -> [id: Nat, format: Formats \cup {None}, run: Nat,
                                 packets: Nat]]
  BY <1>1, <1>3 DEF SinkInv, SinkTypes
<1>5. /\ sink' \in RunningStates /\ sink'.format = fmt
      /\ sink'.nextId = IF rendering < n + 1 THEN sink.nextId
                        ELSE sink.nextId + 1
  BY <1>1, <1>2, <1>3 DEF SinkInv, SinkTypes, RunningStates, NextId
<1> HIDE DEF n
<1>6. SinkTypes'
  <2>1. sinkStats' \in [frames: Nat, dropped: Nat, anomalies: Nat]
    BY <1>3 DEF SinkInv, SinkTypes
  <2> QED
    BY <1>1, <1>3, <1>4, <1>5, <2>1 DEF SinkInv, SinkTypes
<1>7. \A c \in Contents : Begun(c)' <=> Begun(c)
  BY <1>1, <1>4 DEF Begun
<1>8. SentInv'
  <2>1. ASSUME NEW c \in Contents, Begun(c)
        PROVE  /\ c <= buffers /\ sent'[c].id <= c /\ sent'[c].run <= starts
               /\ sent'[c].format \in Formats
               /\ sent'[c].packets <= NChunks(sent'[c].format) + 2
    <3>1. CASE c = buffers
      BY <1>1, <1>2, <1>4, <3>1 DEF n
    <3>2. CASE c # buffers
      BY <1>4, <2>1, <3>2 DEF SinkInv, SentInv
    <3> QED
      BY <3>1, <3>2
  <2>2. /\ sink' # None /\ sink'.nextId >= 1
        /\ sink'.nextId <= IF rendering' = None THEN buffers + 1 ELSE buffers
    BY <1>1, <1>2, <1>3, <1>5
  <2>3. rendering' # None =>
          /\ sent'[buffers] = [id |-> sink'.nextId, format |-> sink'.format,
                               run |-> starts, packets |-> rendering']
          /\ rendering' <= n + 1
    BY <1>1, <1>2, <1>3, <1>4, <1>5
  <2> QED
    BY <1>1, <1>3, <1>5, <1>7, <2>1, <2>2, <2>3 DEF SentInv, n
<1>9. RunIds'
  <2>1. \A c \in Contents : c # buffers =>
          sent'[c] = sent[c] /\ SentOut(c)' = SentOut(c)
    BY <1>4 DEF SentOut, Begun
  <2>2. SentOut(buffers)' => rendering = n + 1 /\ sink'.nextId = sink.nextId + 1
    BY <1>1, <1>2, <1>3, <1>4, <1>5 DEF SentOut, n
  <2>3. ASSUME NEW c \in Contents, Begun(c), sent'[c].run = starts
        PROVE  /\ sent'[c].id <= sink'.nextId
               /\ SentOut(c)' => sent'[c].id < sink'.nextId
    <3>1. CASE c = buffers
      BY <1>1, <1>2, <1>3, <1>4, <1>5, <2>2, <3>1
    <3>2. CASE c # buffers
      <4>1. /\ sent[c].id <= sink.nextId
            /\ SentOut(c) => sent[c].id < sink.nextId
        BY <1>1, <2>1, <2>3, <3>2 DEF SinkInv, RunIds
      <4>2. sent[c].id \in Nat /\ sink'.nextId >= sink.nextId
        BY <1>1, <1>2, <1>5 DEF SinkInv, SinkTypes
      <4> QED
        BY <1>1, <1>5, <2>1, <3>2, <4>1, <4>2
    <3> QED
      BY <3>1, <3>2
  <2>4. ASSUME NEW c \in Contents, NEW d \in Contents, c < d, Begun(c),
               Begun(d), sent'[c].run = sent'[d].run
        PROVE  /\ sent'[c].id <= sent'[d].id
               /\ SentOut(c)' => sent'[c].id < sent'[d].id
    <3>1. d <= buffers /\ c # buffers
      BY <1>1, <2>4 DEF SinkInv, SentInv, Contents
    <3>2. sent'[d].run = sent[d].run /\ sent'[d].id = sent[d].id
      BY <1>1, <1>4
    <3> QED
      BY <2>1, <2>4, <3>1, <3>2 DEF SinkInv, RunIds
  <2> QED
    BY <1>1, <1>3, <1>7, <2>3, <2>4 DEF RunIds
<1>10. PacketAt(rendering) = PacketOf(buffers, rendering)
  <2>1. rendering < Trailer <=> rendering <= n
    BY <1>1, <1>2 DEF Trailer, n
  <2> QED
    BY <1>1, <2>1 DEF PacketAt, PacketOf, n
<1> QED
  BY <1>1, <1>3, <1>6, <1>8, <1>9, <1>10 DEF SinkInv, Begun

(* What a step of the sink leaves of what was sent.                        *)
SentGrows ==
  \A c \in Contents : Begun(c) =>
    /\ Begun(c)' /\ sent'[c].id = sent[c].id
    /\ sent'[c].format = sent[c].format /\ sent'[c].run = sent[c].run
    /\ sent'[c].packets >= sent[c].packets
    /\ c # buffers => sent'[c] = sent[c]

SinkMoves == SinkQuiet \/ Render \/ SendPacket \/ UNCHANGED sinkVars

(* What was sent stays sent, under the same id and in the same format.     *)
LEMMA SinkGrows ==
  ASSUME SinkInv, SinkMoves
  PROVE  SinkInv' /\ SentGrows
<1>1. \A c \in Contents : sent[c].packets \in Nat
  BY DEF SinkInv, SinkTypes
<1>2. CASE SinkQuiet
  BY <1>1, <1>2, QuietSink DEF SentGrows, Begun
<1>3. CASE Render
  BY <1>1, <1>3, RenderedBuffer DEF SentGrows, SinkInv, SinkTypes, Begun
<1>4. CASE SendPacket
  <2>1. /\ buffers \in Contents /\ SinkInv'
        /\ sent' = [sent EXCEPT ![buffers].packets = @ + 1]
    BY <1>4, SentNext
  <2>2. /\ \A c \in Contents : c # buffers => sent'[c] = sent[c]
        /\ sent'[buffers] = [sent[buffers] EXCEPT !.packets = @ + 1]
    BY <2>1 DEF SinkInv, SinkTypes
  <2>3. /\ sent'[buffers].id = sent[buffers].id
        /\ sent'[buffers].format = sent[buffers].format
        /\ sent'[buffers].run = sent[buffers].run
        /\ sent'[buffers].packets = sent[buffers].packets + 1
    BY <2>1, <2>2 DEF SinkInv, SinkTypes
  <2> QED
    BY <1>1, <2>1, <2>2, <2>3 DEF SentGrows, Begun
<1>5. CASE UNCHANGED sinkVars
  BY <1>1, <1>5 DEF sinkVars, SentGrows, SinkInv, SinkTypes, SentInv, RunIds,
                    Begun, SentOut
<1> QED
  BY <1>2, <1>3, <1>4, <1>5 DEF SinkMoves

---------------------------------------------------------------------------
(* The network                                                             *)

IsSent(q) ==
  /\ q.of \in Contents /\ Begun(q.of)
  /\ q.id \in Nat /\ q.id < sent[q.of].packets
  /\ q = PacketOf(q.of, q.id)

NetInv ==
  /\ abilities \subseteq Abilities
  /\ \A q \in network : IsSent(q)

(* A packet that was sent is one that ingest_view may get.                 *)
LEMMA SentPacket ==
  ASSUME SinkInv, NEW q, IsSent(q)
  PROVE  /\ q.frame = sent[q.of].id /\ q.frame \in Contents
         /\ q.id \in PacketIds
         /\ \/ /\ q.type = "leader" /\ q.id = 0
               /\ q.len = FrameLength[sent[q.of].format]
            \/ /\ q.type = "payload" /\ q.id \in 1 .. NChunks(sent[q.of].format)
               /\ q.body = <<q.of, sent[q.of].format, q.id>> /\ q.body \in Chunks
            \/ q.type = "trailer" /\ q.id = NChunks(sent[q.of].format) + 1
<1> DEFINE c == q.of
           n == q.id
           fmt == sent[c].format
<1>1. /\ c \in Contents /\ n \in Nat /\ n < sent[c].packets
      /\ fmt \in Formats /\ sent[c].packets <= NChunks(fmt) + 2
      /\ sent[c].packets \in Nat /\ sent[c].id \in Nat \ {0} /\ sent[c].id <= c
      /\ q = PacketOf(c, n)
  BY DEF IsSent, SinkInv, SinkTypes, SentInv, Begun
<1>2. NChunks(fmt) \in Nat \ {0} /\ NChunks(fmt) + 1 <= MaxId /\ MaxId \in Nat
  BY <1>1, ChunkCount, PacketIdsAssumption
<1> HIDE DEF c, n, fmt
<1>3. n <= NChunks(fmt) + 1 /\ n \in PacketIds
  BY <1>1, <1>2 DEF PacketIds
<1>4. sent[c].id \in Contents
  BY <1>1, NFramesAssumption DEF Contents
<1>5. CASE n = 0
  BY <1>1, <1>3, <1>4, <1>5 DEF PacketOf, c, n, fmt
<1>6. CASE n # 0 /\ n <= NChunks(fmt)
  <2>1. n \in 1 .. NChunks(fmt)
    BY <1>1, <1>2, <1>6
  <2>2. <<c, fmt, n>> \in Chunks
    BY <1>1, <2>1 DEF Chunks
  <2>3. q = [type |-> "payload", frame |-> sent[c].id, id |-> n, of |-> c,
             body |-> <<c, fmt, n>>]
    BY <1>1, <1>6 DEF PacketOf, fmt
  <2> QED
    BY <1>3, <1>4, <2>1, <2>2, <2>3 DEF c, n, fmt
<1>7. CASE n # 0 /\ ~(n <= NChunks(fmt))
  <2>1. n = NChunks(fmt) + 1
    BY <1>1, <1>2, <1>3, <1>7
  <2>2. q = [type |-> "trailer", frame |-> sent[c].id, id |-> n, of |-> c]
    BY <1>1, <1>7 DEF PacketOf, fmt
  <2> QED
    BY <1>3, <1>4, <2>1, <2>2 DEF c, n, fmt
<1> QED
  BY <1>5, <1>6, <1>7

(* A packet stays one that was sent.                                       *)
LEMMA StaysSent ==
  ASSUME SinkInv, SinkInv', SentGrows, NEW q, IsSent(q)
  PROVE  IsSent(q)'
<1>1. /\ q.of \in Contents /\ Begun(q.of) /\ q.id \in Nat
      /\ sent[q.of].packets \in Nat /\ q.id < sent[q.of].packets
      /\ q = PacketOf(q.of, q.id)
  BY DEF IsSent, SinkInv, SinkTypes
<1>2. /\ Begun(q.of)' /\ sent'[q.of].id = sent[q.of].id
      /\ sent'[q.of].format = sent[q.of].format
      /\ sent'[q.of].packets >= sent[q.of].packets
      /\ sent'[q.of].packets \in Nat
  BY <1>1 DEF SentGrows, SinkInv, SinkTypes
<1>3. PacketOf(q.of, q.id)' = PacketOf(q.of, q.id)
  BY <1>2 DEF PacketOf
<1> QED
  BY <1>1, <1>2, <1>3 DEF IsSent

---------------------------------------------------------------------------
(* Steps of the stream                                                     *)

SinkStill ==
  SinkSteps /\ UNCHANGED <<network, abilities, copies, observed, receiver>>

SinkSends ==
  /\ SendPacket /\ network' = network \cup {PacketAt(rendering)}
  /\ UNCHANGED <<abilities, copies, observed, receiver>>

Arrives(p) ==
  /\ p \in network /\ Arrive(p)
  /\ \/ network' = network \ {p}
     \/ "repeats" \in abilities /\ network' = network

Loses(p) ==
  /\ p \in network /\ Lose(p)

(* What a step may be.                                                     *)
LEMMA StreamCases ==
  ASSUME [StreamNext]_streamVars
  PROVE  \/ SinkStill \/ SinkSends \/ Pause \/ UNCHANGED streamVars
         \/ \E p \in network : Arrives(p) \/ Loses(p)
<1>1. Sink => SinkStill \/ SinkSends
  BY DEF Sink, SinkStill, SinkSends
<1>2. \A p \in network : Receive(p) \/ Duplicate(p) => Arrives(p)
  BY DEF Receive, Duplicate, Arrives
<1> QED
  BY <1>1, <1>2 DEF StreamNext, Loses

BaseInv == SinkInv /\ NetInv

(* What is under way was sent, and stays sent.                             *)
LEMMA BaseStep ==
  ASSUME BaseInv, [StreamNext]_streamVars
  PROVE  BaseInv' /\ SentGrows
<1>1. SinkMoves
  <2>1. SinkSteps => SinkQuiet \/ Render
    BY DEF SinkSteps, SinkQuiet
  <2> QED
    BY <2>1, StreamCases DEF SinkMoves, SinkStill, SinkSends, Arrives, Arrive,
                             Loses, Lose, Pause, streamVars
<1>2. SinkInv' /\ SentGrows
  BY <1>1, SinkGrows DEF BaseInv
<1>3. \A q : IsSent(q) => IsSent(q)'
  BY <1>2, StaysSent DEF BaseInv
<1>4. abilities' = abilities
  BY StreamCases DEF SinkStill, SinkSends, Arrives, Arrive, Loses, Lose, Pause,
                     streamVars
<1>5. CASE SinkSends
  <2>1. /\ PacketAt(rendering) = PacketOf(buffers, rendering) /\ Begun(buffers)
        /\ buffers \in Contents /\ sent[buffers].packets = rendering
        /\ sent' = [sent EXCEPT ![buffers].packets = @ + 1]
    BY <1>5, SentNext DEF SinkSends, BaseInv
  <2>2. PICK b : b = buffers
    OBVIOUS
  <2>3. /\ sent'[b].packets = rendering + 1 /\ rendering \in Nat
        /\ sent'[b].id = sent[b].id /\ sent'[b].format = sent[b].format
    BY <2>1, <2>2 DEF BaseInv, SinkInv, SinkTypes
  <2>4. PICK p : p = PacketAt(rendering)
    OBVIOUS
  <2>5. p.of = b /\ p.id = rendering
    BY <2>1, <2>2, <2>3, <2>4 DEF PacketOf
  <2>6. IsSent(p)'
    <3>1. PICK n \in Nat : n = rendering
      BY <2>3
    <3>2. PacketOf(b, n) = PacketOf(b, n)' /\ p = PacketOf(b, n)
      BY <2>1, <2>2, <2>3, <2>4, <3>1 DEF PacketOf
    <3>3. n < sent'[b].packets /\ b \in Contents /\ Begun(b)'
      BY <2>1, <2>2, <2>3, <3>1 DEF Begun
    <3> QED
      BY <2>5, <3>1, <3>2, <3>3 DEF IsSent
  <2> QED
    BY <1>2, <1>3, <1>4, <1>5, <2>4, <2>6 DEF SinkSends, BaseInv, NetInv
<1>6. CASE ~SinkSends
  <2>1. network' \subseteq network
    BY <1>6, StreamCases DEF SinkStill, Arrives, Loses, Lose, Pause, streamVars
  <2> QED
    BY <1>2, <1>3, <1>4, <2>1 DEF BaseInv, NetInv
<1> QED
  BY <1>5, <1>6

(* The receiver's part of a step is a step of the assembler.               *)
LEMMA ReceiverStep ==
  ASSUME BaseInv, [StreamNext]_streamVars
  PROVE  [Assembler!Next]_Assembler!vars
<1>1. ASSUME NEW p \in network, Arrives(p)
      PROVE  Assembler!Next
  <2>1. Ingest(p) /\ IsSent(p)
    BY <1>1 DEF Arrives, Arrive, BaseInv, NetInv
  <2>2. Assembler!Ingest(Bare(p))
    BY <2>1, SameIngest
  <2>3. sent[p.of].format \in Formats
    BY <2>1 DEF IsSent, BaseInv, SinkInv, SentInv
  <2>4. Bare(p) \in Assembler!Packets
    BY <2>1, <2>3, SentPacket
    DEF BaseInv, Bare, Assembler!Packets, Assembler!Leaders, Assembler!Payloads,
        Assembler!Trailers, Assembler!PacketIds, PacketIds
  <2> QED
    BY <2>2, <2>4 DEF Assembler!Next
<1>2. CASE Pause
  BY <1>2, SameTime DEF Pause, Assembler!Next
<1>3. CASE UNCHANGED receiver
  BY <1>3 DEF receiver, Assembler!vars, Assembler!history
<1> QED
  BY <1>1, <1>2, <1>3, StreamCases
  DEF SinkStill, SinkSends, Loses, Lose, streamVars

(* The receiver's first state is the assembler's.                          *)
LEMMA ReceiverInit == StreamInit => BaseInv /\ Assembler!Init
<1> SUFFICES ASSUME StreamInit PROVE BaseInv /\ Assembler!Init
  OBVIOUS
<1>1. SinkInv
  BY SinkNoneAssumption, NFramesAssumption
  DEF StreamInit, SinkInit, SinkInv, SinkTypes, SentInv, RunIds, Unsent, Begun
<1>2. NetInv
  BY NetworkAssumption DEF StreamInit, NetInv
<1>3. Assembler!Init
  BY DEF StreamInit, Init, Assembler!Init, Empty, Assembler!Empty, PacketIds,
         Assembler!PacketIds
<1> QED
  BY <1>1, <1>2, <1>3 DEF BaseInv

(* What the assembler keeps, in terms of the stream.                       *)
Filled(f) ==
  /\ frames[f].offset =
       ByteSum(wire[f].got, wire[f].lead + 1, frames[f].packetId)
  /\ frames[f].offset <= frames[f].len

ReceiverInv ==
  /\ TypeOK /\ DeliveredInOrder /\ HoldsWhatArrived /\ Reconciled
  /\ \A f \in Contents : Live(f) => Filled(f)

(* The types are the same here and there, ...                              *)
LEMMA SameTypes == Assembler!TypeOK => TypeOK
BY DEF Assembler!TypeOK, TypeOK, Assembler!StateOK, StateOK,
       Assembler!HistoryOK, HistoryOK, Assembler!PartialFrame, PartialFrame,
       Assembler!Buffer, Buffer, Assembler!PacketIds, PacketIds, Assembler!Stats,
       Stats, Assembler!FrameEvent, FrameEvent, Assembler!DropReason,
       DropReason, Assembler!Wire, Wire

(* ... and so is what is known of the frames.                              *)
LEMMA ReceiverFacts ==
  ASSUME Assembler!FillInv
  PROVE  ReceiverInv
<1>1. Assembler!AssemblyInv /\ Assembler!AllFilled
  BY DEF Assembler!FillInv
<1>2. TypeOK
  BY <1>1, SameTypes DEF Assembler!AssemblyInv
<1>3. DeliveredInOrder
  BY <1>1 DEF Assembler!AssemblyInv, Assembler!DeliveredInOrder, DeliveredInOrder
<1>4. ASSUME NEW f \in Contents, Live(f)
      PROVE  /\ Holds(frames[f], wire[f]) /\ IsReconciled(frames[f])
             /\ Filled(f)
  <2>1. /\ Assembler!Holds(frames[f], wire[f])
        /\ Assembler!IsReconciled(frames[f])
        /\ Assembler!Filled(frames[f], wire[f])
    BY <1>1, <1>4 DEF Assembler!AssemblyInv, Assembler!AllSound, Assembler!Sound,
                      Assembler!AllFilled, Live
  <2>2. Holds(frames[f], wire[f]) /\ IsReconciled(frames[f])
    BY <2>1 DEF Holds, Assembler!Holds, IsReconciled, Assembler!IsReconciled,
                PacketIds, Assembler!PacketIds
  <2>3. \A b, lo, hi : ByteSum(b, lo, hi) = Assembler!ByteSum(b, lo, hi)
    BY DEF ByteSum, Assembler!ByteSum, SizeOf, Assembler!SizeOf
  <2> QED
    BY <2>1, <2>2, <2>3 DEF Filled, Assembler!Filled
<1> QED
  BY <1>2, <1>3, <1>4 DEF ReceiverInv, HoldsWhatArrived, Reconciled

(* In every behaviour of the stream what is under way was sent, ...        *)
LEMMA StreamBase == StreamSpec => []BaseInv
<1>1. BaseInv /\ [StreamNext]_streamVars => BaseInv'
  BY BaseStep
<1> QED
  BY <1>1, ReceiverInit, PTL DEF StreamSpec

(* ... and the receiver is a frame assembler: it takes each packet as what *)
(* the packet says, whichever buffer it is of.                             *)
THEOREM ReceiverAssembles == StreamSpec => Assembler!Spec
<1>1. BaseInv /\ [StreamNext]_streamVars => [Assembler!Next]_Assembler!vars
  BY ReceiverStep
<1> QED
  BY <1>1, StreamBase, ReceiverInit, PTL DEF StreamSpec, Assembler!Spec

(* So all that is proved of the assembler holds of the receiver.           *)
LEMMA StreamReceiver == StreamSpec => [](BaseInv /\ ReceiverInv)
<1>1. Assembler!FillInv => ReceiverInv
  BY ReceiverFacts
<1> QED
  BY <1>1, StreamBase, ReceiverAssembles, ReceiverInvariant, PTL

---------------------------------------------------------------------------
(* What the arrival of a packet changes                                    *)

(* A packet concerns the frame of its id only.                             *)
LEMMA OthersStay ==
  ASSUME ReceiverInv, NEW p, p.frame \in Contents, Ingest(p)
  PROVE  \A g \in Contents : g # p.frame =>
           frames'[g] = frames[g] /\ wire'[g] = wire[g]
<1> DEFINE f == p.frame
           Changed == \E s : frames' = [frames EXCEPT ![f] = s]
           Seen == \E w : wire' = [wire EXCEPT ![f] = w]
<1>1. frames = [g \in Contents |-> frames[g]] /\ wire = [g \in Contents |-> wire[g]]
  BY DEF ReceiverInv, TypeOK, StateOK, HistoryOK
<1>2. frames' = frames => Changed
  <2>1. frames = [frames EXCEPT ![f] = frames[f]]
    BY <1>1
  <2> QED
    BY <2>1
<1>3. wire' = wire => Seen
  <2>1. wire = [wire EXCEPT ![f] = wire[f]]
    BY <1>1
  <2> QED
    BY <2>1
<1>4. \A r : Discard(f, r) => Changed
  BY DEF Discard
<1>5. Ignore(f) => Changed
  BY DEF Ignore
<1>6. \A s : Reconcile(f, s) => Changed
  BY <1>4 DEF Reconcile, Keep, Deliver
<1>7. \A r : Orphan(p, r) => Changed /\ Seen
  BY <1>3, <1>4 DEF Orphan
<1>8. ObservePayload(p) => Seen
  <2>1. \A i, b : [wire EXCEPT ![f].got[i] = b] =
                    [wire EXCEPT ![f] = [@ EXCEPT !.got[i] = b]]
    OBVIOUS
  <2> QED
    BY <1>3, <2>1 DEF ObservePayload
<1>9. ObserveTrailer(p) => Seen
  <2>1. \A i : [wire EXCEPT ![f].end = i] = [wire EXCEPT ![f] = [@ EXCEPT !.end = i]]
    OBVIOUS
  <2> QED
    BY <1>3, <2>1 DEF ObserveTrailer
<1>10. IngestLeader(p) => Changed /\ Seen
  BY <1>2, <1>3 DEF IngestLeader, RejectLeader, AcceptLeader, history
<1> HIDE DEF Changed, Seen
<1>11. IngestPayload(p) => Changed /\ Seen
  BY <1>4, <1>5, <1>6, <1>7, <1>8 DEF IngestPayload
<1>12. IngestTrailer(p) => Changed /\ Seen
  BY <1>4, <1>5, <1>6, <1>7, <1>9 DEF IngestTrailer
<1>13. Changed /\ Seen
  BY <1>10, <1>11, <1>12 DEF Ingest
<1> QED
  BY <1>1, <1>13 DEF Changed, Seen

(* A leader begins a frame anew.                                           *)
LEMMA LeaderBegins ==
  ASSUME ReceiverInv, NEW p, p.frame \in Contents, p.id \in PacketIds,
         p.len \in Nat \ {0}, p.type = "leader", Ingest(p)
  PROVE  /\ Live(p.frame)' /\ frames'[p.frame] = NewFrame(p)
         /\ wire'[p.frame] = [lead |-> p.id, len |-> p.len, got |-> Empty,
                              end |-> None]
         /\ Live(p.frame) \/ (stats'.dropped = stats.dropped
                              /\ stats'.anomalies = stats.anomalies)
         /\ stats'.frames = stats.frames
         /\ \A e \in output' : e.kind # "complete"
<1>1. AcceptLeader(p)
  BY DEF Ingest, IngestLeader, RejectLeader
<1>2. /\ frames' = [frames EXCEPT ![p.frame] = NewFrame(p)]
      /\ wire' = [wire EXCEPT ![p.frame] = [lead |-> p.id, len |-> p.len,
                                            got |-> Empty, end |-> None]]
      /\ DOMAIN frames = Contents /\ DOMAIN wire = Contents /\ stats \in Stats
  BY <1>1 DEF AcceptLeader, ReceiverInv, TypeOK, StateOK, HistoryOK
<1>3. NewFrame(p) # None
  <2>1. Empty \in Buffer
    BY DEF Empty, Buffer
  <2>2. 0 \in 0 .. Timeout /\ << >> \in Seq(Chunks)
    BY ReceiverConstants
  <2>3. NewFrame(p) \in PartialFrame
    BY <2>1, <2>2 DEF NewFrame, PartialFrame
  <2> QED
    BY <2>3, ReceiverConstants
<1> QED
  BY <1>1, <1>2, <1>3 DEF AcceptLeader, Count, Live, Dropped, Stats

(* A payload or a trailer without a frame changes no frame.                *)
LEMMA OrphanArrives ==
  ASSUME ReceiverInv, NEW p, p.frame \in Contents, p.type \in {"payload", "trailer"},
         ~Live(p.frame), Ingest(p)
  PROVE  /\ frames' = frames /\ wire' = wire
         /\ \A e \in output' : e.kind # "complete"
<1>1. PICK r : Orphan(p, r)
  BY DEF Ingest, IngestPayload, IngestTrailer
<1>2. frames' = [frames EXCEPT ![p.frame] = None] /\ wire' = wire
  BY <1>1 DEF Orphan, Discard
<1>3. frames[p.frame] = None /\ frames = [g \in Contents |-> frames[g]]
  BY DEF Live, ReceiverInv, TypeOK, StateOK
<1>4. frames' = frames
  BY <1>2, <1>3
<1> QED
  BY <1>1, <1>2, <1>4 DEF Orphan, Discard, Dropped

(* The first payload for an id is what the frame gets.                     *)
LEMMA PayloadSeen ==
  ASSUME ReceiverInv, NEW p, p.frame \in Contents, p.type = "payload",
         Live(p.frame), Ingest(p)
  PROVE  LET w == wire[p.frame] IN
         wire'[p.frame] =
           IF ChunkSize[p.body] > 0 /\ p.id > w.lead /\ w.got[p.id] = None
           THEN [w EXCEPT !.got[p.id] = p.body] ELSE w
<1> QED
  BY DEF Ingest, IngestPayload, Orphan, ObservePayload, ReceiverInv, TypeOK,
         HistoryOK

(* The first trailer is the end of the frame.                              *)
LEMMA TrailerSeen ==
  ASSUME ReceiverInv, NEW p, p.frame \in Contents, p.type = "trailer",
         Live(p.frame), Ingest(p)
  PROVE  LET w == wire[p.frame] IN
         wire'[p.frame] = IF w.end = None THEN [w EXCEPT !.end = p.id] ELSE w
<1> QED
  BY DEF Ingest, IngestTrailer, Orphan, ObserveTrailer, ReceiverInv, TypeOK,
         HistoryOK

Emitted == {e \in output : e.kind = "complete"}

(* A packet completes no frame or its own, which is then gone.             *)
LEMMA OneEmitted ==
  ASSUME ReceiverInv, NEW p, p.frame \in Contents,
         p.type = "leader" => p.len \in Nat \ {0} /\ p.id \in PacketIds, Ingest(p)
  PROVE  \/ Emitted' = {}
         \/ /\ p.type \in {"payload", "trailer"}
            /\ Live(p.frame) /\ ~Live(p.frame)'
            /\ \E e : Emitted' = {e} /\ e.frame = p.frame /\ e \in output'
<1> DEFINE f == p.frame
           None1 == \A e \in output' : e.kind # "complete"
           One == /\ ~Live(f)'
                  /\ \E e : output' = {e} /\ e.frame = f /\ e.kind = "complete"
<1>1. \A r : Discard(f, r) => None1
  BY DEF Discard, Dropped
<1>2. Ignore(f) => None1
  BY DEF Ignore
<1>3. \A s : Reconcile(f, s) => None1 \/ One
  <2>1. \A s : Keep(f, s) => None1
    BY DEF Keep
  <2>2. ASSUME NEW s, Deliver(f, s) PROVE One
    <3> DEFINE e == [kind |-> "complete", frame |-> f, data |-> s.data]
    <3>1. frames' = [frames EXCEPT ![f] = None] /\ output' = {e}
      BY <2>2 DEF Deliver
    <3>2. ~Live(f)'
      BY <3>1 DEF Live, ReceiverInv, TypeOK, StateOK
    <3>3. e.frame = f /\ e.kind = "complete"
      OBVIOUS
    <3> QED
      BY <3>1, <3>2, <3>3
  <2> HIDE DEF None1, One
  <2> QED
    BY <1>1, <2>1, <2>2 DEF Reconcile
<1>4. p.type = "leader" => None1
  BY LeaderBegins
<1>5. p.type # "leader" /\ ~Live(f) => None1
  BY OrphanArrives DEF Ingest
<1> HIDE DEF None1, One
<1>6. p.type # "leader" /\ Live(f) => None1 \/ One
  BY <1>1, <1>2, <1>3 DEF Ingest, IngestPayload, IngestTrailer, Orphan
<1>7. None1 => Emitted' = {}
  BY DEF None1, Emitted
<1>8. One => ~Live(f)' /\ \E e : Emitted' = {e} /\ e.frame = f /\ e \in output'
  BY DEF One, Emitted
<1> QED
  BY <1>4, <1>5, <1>6, <1>7, <1>8 DEF Ingest

---------------------------------------------------------------------------
(* What is observed downstream                                             *)

ObservedTypes ==
  /\ arrived \subseteq Contents /\ \A c \in arrived : Begun(c)
  /\ deliveries \in [Contents -> Nat] /\ foreign \in BOOLEAN

(* No two buffers make the same image.                                     *)
LEMMA ImagesDiffer ==
  ASSUME SinkInv, NEW c \in Contents, Begun(c), NEW d, Image(c) = Image(d)
  PROVE  c = d
<1>1. NChunks(sent[c].format) \in Nat \ {0}
  BY ChunkCount DEF SinkInv, SentInv
<1>2. 1 \in 1 .. NChunks(sent[c].format)
  BY <1>1
<1>3. Image(c) = [i \in 1 .. NChunks(sent[c].format) |-> <<c, sent[c].format, i>>]
  BY DEF Image
<1>4. Image(d) = [i \in 1 .. NChunks(sent[d].format) |-> <<d, sent[d].format, i>>]
  BY DEF Image
<1>5. DOMAIN Image(d) = 1 .. NChunks(sent[d].format)
  BY <1>4
<1>6. 1 \in DOMAIN Image(d) /\ Image(d)[1] = <<c, sent[c].format, 1>>
  BY <1>2, <1>3
<1>7. Image(d)[1] = <<d, sent[d].format, 1>>
  BY <1>4, <1>5, <1>6
<1> QED
  BY <1>6, <1>7

IsOneMore(c) ==
  /\ deliveries' = [deliveries EXCEPT ![c] = @ + 1]
  /\ foreign' = foreign

(* A frame that is emitted is one more delivery of the buffer it is an     *)
(* image of, or a foreign one.                                             *)
LEMMA Observation ==
  ASSUME SinkInv, ObservedTypes, Observe,
         Emitted' = {} \/ \E e : Emitted' = {e}
  PROVE  \/ Emitted' = {} /\ deliveries' = deliveries /\ foreign' = foreign
         \/ \E e \in Emitted', c \in Contents :
              Begun(c) /\ e.data = Image(c) /\ IsOneMore(c)
         \/ /\ \E e \in Emitted' : \A c \in Contents : ~Begun(c) \/ e.data # Image(c)
            /\ deliveries' = deliveries /\ foreign' = TRUE
<1> DEFINE H(E, c) == {e \in E : Begun(c) /\ e.data = Image(c)}
<1>1. PICK E : E = Emitted'
  OBVIOUS
<1>2. /\ deliveries' = [c \in Contents |-> deliveries[c] + Cardinality(H(E, c))]
      /\ foreign' = (foreign \/ \E e \in E : \A c \in Contents :
                                   ~Begun(c) \/ e.data # Image(c))
  BY <1>1 DEF Observe, Emitted
<1>3. /\ deliveries = [c \in Contents |-> deliveries[c]]
      /\ \A c \in Contents : deliveries[c] \in Nat
      /\ foreign \in BOOLEAN
  BY DEF ObservedTypes
<1>4. ASSUME NEW c \in Contents, H(E, c) = {}
      PROVE  deliveries'[c] = deliveries[c]
  <2>1. Cardinality(H(E, c)) = 0
    BY <1>4, FS_EmptySet
  <2> QED
    BY <1>2, <1>3, <2>1
<1>5. (\A c \in Contents : H(E, c) = {}) => deliveries' = deliveries
  <2>1. SUFFICES ASSUME \A c \in Contents : H(E, c) = {}
                 PROVE  deliveries' = deliveries
    OBVIOUS
  <2>2. \A c \in Contents : deliveries'[c] = deliveries[c]
    BY <1>4, <2>1
  <2>3. deliveries' = [c \in Contents |-> deliveries'[c]]
    BY <1>2
  <2> HIDE DEF H
  <2> QED
    BY <1>3, <2>2, <2>3
<1>6. CASE E = {}
  BY <1>1, <1>2, <1>3, <1>5, <1>6
<1>7. CASE E # {}
  <2>1. PICK e : E = {e}
    BY <1>1, <1>7
  <2>2. CASE \A c \in Contents : ~Begun(c) \/ e.data # Image(c)
    <3>1. \A c \in Contents : H(E, c) = {}
      BY <2>1, <2>2
    <3>2. foreign' = TRUE
      BY <1>2, <2>1, <2>2
    <3> QED
      BY <1>1, <1>5, <2>1, <2>2, <3>1, <3>2
  <2>3. CASE ~ \A c \in Contents : ~Begun(c) \/ e.data # Image(c)
    <3>1. PICK c \in Contents : Begun(c) /\ e.data = Image(c)
      BY <2>3
    <3>2. \A d \in Contents : d # c => H(E, d) = {}
      BY <2>1, <3>1, ImagesDiffer
    <3>3. H(E, c) = {e}
      BY <2>1, <3>1
    <3>4. Cardinality(H(E, c)) = 1
      BY <3>3, FS_Singleton
    <3>5. deliveries'[c] = deliveries[c] + 1
      BY <1>2, <3>4
    <3>6. \A d \in Contents : d # c => deliveries'[d] = deliveries[d]
      BY <1>4, <3>2
    <3>7. deliveries' = [deliveries EXCEPT ![c] = @ + 1]
      <4>1. deliveries' = [d \in Contents |-> deliveries'[d]]
        BY <1>2
      <4> HIDE DEF H
      <4> QED
        BY <1>3, <3>5, <3>6, <4>1
    <3>8. foreign' = foreign
      BY <1>2, <1>3, <2>1, <3>1
    <3> QED
      BY <1>1, <2>1, <3>1, <3>7, <3>8 DEF IsOneMore
  <2> QED
    BY <2>2, <2>3
<1> QED
  BY <1>6, <1>7

---------------------------------------------------------------------------
(* What the receiver has was sent                                          *)

GotSent(f, p) ==
  wire[f].got[p] # None =>
    \E c \in Contents :
      /\ Begun(c) /\ sent[c].id = f
      /\ p \in 1 .. NChunks(sent[c].format) /\ p < sent[c].packets
      /\ wire[f].got[p] = <<c, sent[c].format, p>>

EndSent(f) ==
  wire[f].end # None =>
    \E c \in Contents :
      /\ SentOut(c) /\ sent[c].id = f
      /\ wire[f].end = NChunks(sent[c].format) + 1

Opened(f) == Live(f) => \E c \in arrived : sent[c].id = f

WireInv ==
  \A f \in Contents :
    /\ wire[f].lead = 0 /\ EndSent(f) /\ Opened(f)
    /\ \A p \in PacketIds : GotSent(f, p)

(* More sent is more that may have been received.                          *)
LEMMA SentLater ==
  ASSUME SinkInv, SinkInv', SentGrows, NEW f \in Contents
  PROVE  /\ \A p \in PacketIds : GotSent(f, p) /\ wire'[f].got[p] = wire[f].got[p]
                                   => GotSent(f, p)'
         /\ EndSent(f) /\ wire'[f].end = wire[f].end => EndSent(f)'
<1>1. \A c \in Contents : SentOut(c) => SentOut(c)'
  <2>1. ASSUME NEW c \in Contents, SentOut(c) PROVE SentOut(c)'
    <3>1. /\ Begun(c) /\ sent[c].format \in Formats
          /\ sent[c].packets > NChunks(sent[c].format) + 1
      BY <2>1 DEF SentOut, SinkInv, SentInv
    <3>2. /\ Begun(c)' /\ sent'[c].format = sent[c].format
          /\ sent'[c].packets >= sent[c].packets
          /\ sent[c].packets \in Nat /\ sent'[c].packets \in Nat
      BY <3>1 DEF SentGrows, SinkInv, SinkTypes
    <3>3. NChunks(sent[c].format) \in Nat
      BY <3>1, ChunkCount
    <3> QED
      BY <3>1, <3>2, <3>3 DEF SentOut
  <2> QED
    BY <2>1
<1>2. \A c \in Contents : SentOut(c) => Begun(c)
  BY DEF SentOut
<1>3. EndSent(f) /\ wire'[f].end = wire[f].end => EndSent(f)'
  BY <1>1, <1>2 DEF EndSent, SentGrows
<1>4. ASSUME NEW p \in PacketIds, GotSent(f, p), wire'[f].got[p] = wire[f].got[p]
      PROVE  GotSent(f, p)'
  <2>1. SUFFICES ASSUME wire[f].got[p] # None
                 PROVE  \E c \in Contents :
                          /\ Begun(c)' /\ sent'[c].id = f
                          /\ p \in 1 .. NChunks(sent'[c].format)
                          /\ p < sent'[c].packets
                          /\ wire'[f].got[p] = <<c, sent'[c].format, p>>
    BY <1>4 DEF GotSent
  <2>2. PICK c \in Contents :
          /\ Begun(c) /\ sent[c].id = f
          /\ p \in 1 .. NChunks(sent[c].format) /\ p < sent[c].packets
          /\ wire[f].got[p] = <<c, sent[c].format, p>>
    BY <1>4, <2>1 DEF GotSent
  <2>3. /\ Begun(c)' /\ sent'[c].id = sent[c].id
        /\ sent'[c].format = sent[c].format
        /\ sent'[c].packets >= sent[c].packets
        /\ sent[c].packets \in Nat /\ sent'[c].packets \in Nat
    BY <2>2 DEF SentGrows, SinkInv, SinkTypes
  <2>4. p \in Nat
    BY PacketIdsAssumption DEF PacketIds
  <2> QED
    BY <1>4, <2>2, <2>3, <2>4
<1> QED
  BY <1>3, <1>4

(* What arrives was sent.                                                  *)
LEMMA WireArrival ==
  ASSUME BaseInv, ReceiverInv, ReceiverInv', WireInv, ObservedTypes,
         NEW q \in network, Arrives(q)
  PROVE  WireInv'
<1> DEFINE f == q.frame
           fmt == sent[q.of].format
<1>1. Ingest(q) /\ IsSent(q) /\ sinkVars' = sinkVars
  BY DEF Arrives, Arrive, BaseInv, NetInv
<1>2. sent' = sent /\ arrived' = IF q.type = "leader" THEN arrived \cup {q.of}
                                                       ELSE arrived
  BY <1>1 DEF sinkVars, Arrives, Arrive
<1>3. /\ f = sent[q.of].id /\ f \in Contents /\ q.id \in PacketIds
      /\ q.of \in Contents /\ Begun(q.of) /\ q.id < sent[q.of].packets
      /\ fmt \in Formats
      /\ q.type = "leader" => q.id = 0 /\ q.len \in Nat \ {0}
      /\ q.type = "payload" =>
           q.id \in 1 .. NChunks(fmt) /\ q.body = <<q.of, fmt, q.id>>
      /\ q.type = "trailer" => q.id = NChunks(fmt) + 1
      /\ q.type \in {"leader", "payload", "trailer"}
  BY <1>1, SentPacket, ChunkAssumption DEF BaseInv, IsSent, SinkInv, SentInv
<1> HIDE DEF f, fmt
<1>4. SinkInv' /\ SentGrows
  BY <1>1, SinkGrows DEF SinkMoves, BaseInv
<1>5. ASSUME NEW g \in Contents,
             g # f \/ (q.type # "leader" /\ wire'[g] = wire[g]
                       /\ (Live(g)' => Live(g)))
      PROVE  /\ wire'[g].lead = 0 /\ EndSent(g)' /\ Opened(g)'
             /\ \A p \in PacketIds : GotSent(g, p)'
  <2>1. wire'[g] = wire[g] /\ (Live(g)' => Live(g))
    BY <1>1, <1>3, <1>5, OthersStay DEF Live, f
  <2> QED
    BY <1>2, <2>1 DEF WireInv, EndSent, SentOut, Begun, GotSent, Opened
<1>6. CASE q.type = "leader"
  <2>1. wire'[f] = [lead |-> 0, len |-> q.len, got |-> Empty, end |-> None]
    BY <1>1, <1>3, <1>6, LeaderBegins DEF f
  <2>2. wire'[f].lead = 0 /\ wire'[f].got = Empty /\ wire'[f].end = None
    BY <2>1
  <2>3. \A p \in PacketIds : GotSent(f, p)'
    <3>1. \A p \in PacketIds : wire'[f].got[p] = None
      BY <2>2 DEF Empty
    <3> QED
      BY <3>1 DEF GotSent, f
  <2>4. EndSent(f)'
    BY <2>2 DEF EndSent, f
  <2>5. Opened(f)'
    BY <1>2, <1>3, <1>6 DEF Opened, f
  <2> QED
    BY <1>5, <2>2, <2>3, <2>4, <2>5 DEF WireInv, f
<1>7. CASE q.type # "leader" /\ ~Live(f)
  <2>1. wire' = wire /\ frames' = frames
    BY <1>1, <1>3, <1>7, OrphanArrives DEF f
  <2> QED
    BY <1>5, <1>7, <2>1 DEF WireInv, Live
<1>8. CASE q.type = "payload" /\ Live(f)
  <2>1. \/ wire'[f] = wire[f]
        \/ wire'[f] = [wire[f] EXCEPT !.got[q.id] = q.body]
    BY <1>1, <1>3, <1>8, PayloadSeen DEF f
  <2>2. wire[f] \in Wire
    BY <1>3 DEF ReceiverInv, TypeOK, HistoryOK
  <2>3. /\ wire'[f].lead = wire[f].lead /\ wire'[f].end = wire[f].end
        /\ \A p \in PacketIds :
             \/ wire'[f].got[p] = wire[f].got[p]
             \/ p = q.id /\ wire'[f].got[p] = q.body
    <3>1. CASE wire'[f] = wire[f]
      BY <3>1
    <3>2. CASE wire'[f] = [wire[f] EXCEPT !.got[q.id] = q.body]
      <4>1. /\ wire'[f].lead = wire[f].lead /\ wire'[f].end = wire[f].end
            /\ wire'[f].got = [wire[f].got EXCEPT ![q.id] = q.body]
        BY <2>2, <3>2 DEF Wire
      <4> QED
        BY <2>2, <4>1 DEF Wire, Buffer
    <3> QED
      BY <2>1, <3>1, <3>2
  <2>4. ASSUME NEW p \in PacketIds PROVE GotSent(f, p)'
    <3>1. CASE wire'[f].got[p] = wire[f].got[p]
      BY <1>3, <1>4, <3>1, SentLater DEF WireInv, BaseInv
    <3>2. CASE p = q.id /\ wire'[f].got[p] = q.body
      BY <1>2, <1>3, <1>8, <3>2 DEF GotSent, Begun, f, fmt
    <3> QED
      BY <2>3, <3>1, <3>2
  <2>5. wire'[f].lead = 0 /\ EndSent(f)' /\ Opened(f)'
    BY <1>2, <1>3, <1>8, <2>3 DEF WireInv, EndSent, SentOut, Begun, Opened, f
  <2> QED
    BY <1>5, <2>4, <2>5 DEF WireInv, f
<1>9. CASE q.type = "trailer" /\ Live(f)
  <2>1. \/ wire'[f] = wire[f]
        \/ wire'[f] = [wire[f] EXCEPT !.end = q.id]
    BY <1>1, <1>3, <1>9, TrailerSeen DEF f
  <2>2. wire[f] \in Wire
    BY <1>3 DEF ReceiverInv, TypeOK, HistoryOK
  <2>3. /\ wire'[f].lead = wire[f].lead /\ wire'[f].got = wire[f].got
        /\ wire'[f].end = wire[f].end \/ wire'[f].end = q.id
    BY <2>1, <2>2 DEF Wire
  <2>4. SentOut(q.of)
    <3>1. NChunks(fmt) \in Nat /\ sent[q.of].packets \in Nat
      BY <1>3, ChunkCount DEF BaseInv, SinkInv, SinkTypes
    <3> QED
      BY <1>3, <1>9, <3>1 DEF SentOut, fmt
  <2>5. EndSent(f)'
    <3>1. CASE wire'[f].end = wire[f].end
      BY <1>2, <1>3, <3>1 DEF WireInv, EndSent, SentOut, Begun, f
    <3>2. CASE wire'[f].end = q.id
      BY <1>2, <1>3, <1>9, <2>4, <3>2 DEF EndSent, SentOut, Begun, f, fmt
    <3> QED
      BY <2>3, <3>1, <3>2
  <2>6. \A p \in PacketIds : GotSent(f, p)'
    BY <1>3, <1>4, <2>3, SentLater DEF WireInv, BaseInv
  <2>7. wire'[f].lead = 0 /\ Opened(f)'
    BY <1>2, <1>3, <1>9, <2>3 DEF WireInv, Opened, f
  <2> QED
    BY <1>5, <2>5, <2>6, <2>7 DEF WireInv, f
<1> QED
  BY <1>3, <1>6, <1>7, <1>8, <1>9

(* Nothing else changes what the receiver has, but time may take frames    *)
(* away.                                                                   *)
LEMMA NoArrival ==
  ASSUME BaseInv, ReceiverInv, ObservedTypes,
         SinkStill \/ SinkSends \/ Pause \/ UNCHANGED streamVars
           \/ \E p \in network : Loses(p)
  PROVE  /\ wire' = wire /\ arrived' = arrived /\ abilities' = abilities
         /\ deliveries' = deliveries /\ foreign' = foreign
         /\ \A f \in Contents : Live(f)' => Live(f)
<1>1. CASE Pause
  <2>1. Emitted' = {}
    BY <1>1 DEF Pause, ReapTimeouts, Tick, Dropped, Emitted
  <2>2. deliveries' = deliveries /\ foreign' = foreign
    BY <1>1, <2>1, Observation DEF Pause, BaseInv
  <2>3. \A f \in Contents : Live(f)' => Live(f)
    BY <1>1 DEF Pause, ReapTimeouts, Tick, Aged, Live
  <2> QED
    BY <1>1, <2>2, <2>3 DEF Pause, ReapTimeouts, Tick, history
<1>2. CASE ~Pause
  BY <1>2 DEF SinkStill, SinkSends, Loses, Lose, receiver, observed, streamVars,
              Live
<1> QED
  BY <1>1, <1>2

(* A packet that arrives was sent.                                         *)
LEMMA ArrivingPacket ==
  ASSUME BaseInv, NEW q \in network, Arrives(q)
  PROVE  /\ Ingest(q) /\ IsSent(q) /\ Observe
         /\ q.frame = sent[q.of].id /\ q.frame \in Contents /\ q.id \in PacketIds
         /\ q.of \in Contents /\ Begun(q.of) /\ q.id < sent[q.of].packets
         /\ q = PacketOf(q.of, q.id) /\ sent[q.of].format \in Formats
         /\ \/ /\ q.type = "leader" /\ q.id = 0
               /\ q.len = FrameLength[sent[q.of].format] /\ q.len \in Nat \ {0}
            \/ /\ q.type = "payload" /\ q.id \in 1 .. NChunks(sent[q.of].format)
               /\ q.body = <<q.of, sent[q.of].format, q.id>> /\ q.body \in Chunks
            \/ q.type = "trailer" /\ q.id = NChunks(sent[q.of].format) + 1
         /\ sent' = sent /\ sinkVars' = sinkVars /\ abilities' = abilities
         /\ arrived' = IF q.type = "leader" THEN arrived \cup {q.of} ELSE arrived
<1>1. Ingest(q) /\ IsSent(q) /\ Observe /\ sinkVars' = sinkVars
  BY DEF Arrives, Arrive, BaseInv, NetInv
<1>2. /\ sent[q.of].format \in Formats /\ q.of \in Contents /\ Begun(q.of)
      /\ q.id < sent[q.of].packets /\ q = PacketOf(q.of, q.id)
  BY <1>1 DEF IsSent, BaseInv, SinkInv, SentInv
<1> QED
  BY <1>1, <1>2, SentPacket, ChunkAssumption
  DEF BaseInv, sinkVars, Arrives, Arrive

(* ... and is observed as such, or completes a frame.                      *)
LEMMA ArrivalObserved ==
  ASSUME BaseInv, ReceiverInv, ObservedTypes, NEW q \in network, Arrives(q)
  PROVE  \/ deliveries' = deliveries /\ foreign' = foreign
         \/ /\ q.type # "leader" /\ Live(q.frame) /\ ~Live(q.frame)'
            /\ \E e \in output' :
                 /\ e.kind = "complete" /\ e.frame = q.frame
                 /\ \/ \E c \in Contents :
                         Begun(c) /\ e.data = Image(c) /\ IsOneMore(c)
                    \/ /\ \A c \in Contents : ~Begun(c) \/ e.data # Image(c)
                       /\ deliveries' = deliveries /\ foreign' = TRUE
<1>1. /\ q.frame \in Contents /\ Ingest(q) /\ Observe
      /\ q.type = "leader" => q.len \in Nat \ {0} /\ q.id \in PacketIds
  BY ArrivingPacket
<1>2. \/ Emitted' = {}
      \/ /\ q.type \in {"payload", "trailer"} /\ Live(q.frame) /\ ~Live(q.frame)'
         /\ \E e : Emitted' = {e} /\ e.frame = q.frame /\ e \in output'
  BY <1>1, OneEmitted
<1>3. CASE Emitted' = {}
  BY <1>1, <1>3, Observation DEF BaseInv
<1>4. CASE Emitted' # {}
  <2>1. PICK e : Emitted' = {e} /\ e.frame = q.frame /\ e \in output'
    BY <1>2, <1>4
  <2>2. e.kind = "complete"
    BY <2>1 DEF Emitted
  <2>3. \/ \E c \in Contents : Begun(c) /\ e.data = Image(c) /\ IsOneMore(c)
        \/ /\ \A c \in Contents : ~Begun(c) \/ e.data # Image(c)
           /\ deliveries' = deliveries /\ foreign' = TRUE
    BY <1>1, <1>4, <2>1, Observation DEF BaseInv
  <2> QED
    BY <1>2, <1>4, <2>1, <2>2, <2>3
<1> QED
  BY <1>3, <1>4

KnownInv == BaseInv /\ ReceiverInv /\ ObservedTypes /\ WireInv

(* Whatever the sink, the network and time do, the receiver has what was   *)
(* sent.                                                                   *)
LEMMA KnownStep ==
  ASSUME KnownInv, [StreamNext]_streamVars, BaseInv', ReceiverInv'
  PROVE  ObservedTypes' /\ WireInv'
<1>1. SentGrows
  BY BaseStep DEF KnownInv
<1>2. ASSUME NEW q \in network, Arrives(q)
      PROVE  ObservedTypes' /\ WireInv'
  <2>1. WireInv'
    BY <1>2, WireArrival DEF KnownInv
  <2>2. /\ q.of \in Contents /\ Begun(q.of) /\ sent' = sent
        /\ arrived' \subseteq arrived \cup {q.of}
    BY <1>2, ArrivingPacket DEF KnownInv
  <2>3. deliveries' \in [Contents -> Nat] /\ foreign' \in BOOLEAN
    <3>1. CASE deliveries' = deliveries
      BY <1>2, <3>1, ArrivalObserved DEF KnownInv, ObservedTypes, IsOneMore
    <3>2. ASSUME NEW c \in Contents, IsOneMore(c)
          PROVE  deliveries' \in [Contents -> Nat] /\ foreign' \in BOOLEAN
      BY <3>2 DEF IsOneMore, KnownInv, ObservedTypes
    <3> QED
      BY <1>2, <3>1, <3>2, ArrivalObserved DEF KnownInv
  <2> QED
    BY <2>1, <2>2, <2>3 DEF KnownInv, ObservedTypes, Begun
<1>3. CASE ~ \E q \in network : Arrives(q)
  <2>1. /\ wire' = wire /\ arrived' = arrived
        /\ deliveries' = deliveries /\ foreign' = foreign
        /\ \A f \in Contents : Live(f)' => Live(f)
    BY <1>3, StreamCases, NoArrival DEF KnownInv
  <2>2. ObservedTypes'
    BY <1>1, <2>1 DEF KnownInv, ObservedTypes, SentGrows
  <2>3. ASSUME NEW f \in Contents
        PROVE  /\ wire'[f].lead = 0 /\ EndSent(f)' /\ Opened(f)'
               /\ \A p \in PacketIds : GotSent(f, p)'
    <3>1. /\ wire[f].lead = 0 /\ EndSent(f) /\ Opened(f)
          /\ \A p \in PacketIds : GotSent(f, p)
      BY DEF KnownInv, WireInv
    <3>2. EndSent(f)' /\ \A p \in PacketIds : GotSent(f, p)'
      BY <1>1, <2>1, <3>1, SentLater DEF KnownInv, BaseInv
    <3>3. Opened(f)'
      BY <1>1, <2>1, <3>1 DEF Opened, KnownInv, ObservedTypes, SentGrows
    <3> QED
      BY <2>1, <3>1, <3>2, <3>3
  <2> QED
    BY <2>2, <2>3 DEF WireInv
<1> QED
  BY <1>2, <1>3

(* The start.                                                              *)
LEMMA KnownInit == StreamInit => ObservedTypes /\ WireInv
<1> SUFFICES ASSUME StreamInit PROVE ObservedTypes /\ WireInv
  OBVIOUS
<1>1. ObservedTypes
  BY DEF StreamInit, ObservedTypes
<1>2. \A f \in Contents : /\ wire[f].lead = 0 /\ wire[f].got = Empty
                          /\ wire[f].end = None /\ ~Live(f)
  BY DEF StreamInit, Init, Live
<1> QED
  BY <1>1, <1>2 DEF WireInv, EndSent, Opened, GotSent, Empty

(* In every behaviour.                                                     *)
LEMMA StreamKnown == StreamSpec => []KnownInv
<1>1. KnownInv /\ [StreamNext]_streamVars /\ (BaseInv /\ ReceiverInv)'
        => (ObservedTypes /\ WireInv)'
  BY KnownStep
<1> QED
  BY <1>1, KnownInit, StreamReceiver, PTL DEF StreamSpec, KnownInv

---------------------------------------------------------------------------
(* FrameDelivery: only what was sent, once                                 *)

(* The image of a buffer is emitted after all its chunks were sent, and a  *)
(* trailer of its id.                                                      *)
LEMMA EmittedWasSent ==
  ASSUME KnownInv, ReceiverInv', WireInv', sent' = sent,
         NEW e \in output', e.kind = "complete",
         NEW c \in Contents, Begun(c), e.data = Image(c), e.frame \in Contents
  PROVE  /\ Whole(c) /\ sent[c].packets > 1
         /\ sent[c].id = e.frame
         /\ wire'[e.frame].got[1] = <<c, sent[c].format, 1>>
<1> DEFINE f == e.frame
           fmt == sent[c].format
           n == NChunks(fmt)
<1>1. fmt \in Formats /\ n \in Nat \ {0} /\ n + 1 <= MaxId
  BY ChunkCount, PacketIdsAssumption DEF KnownInv, BaseInv, SinkInv, SentInv
<1> HIDE DEF n
<1>2. e.data = [i \in 1 .. n |-> <<c, fmt, i>>]
  BY DEF Image, n
<1>3. Len(e.data) = n
  BY <1>1, <1>2
<1>4. /\ wire'[f].end = wire'[f].lead + n + 1
      /\ \A i \in 1 .. n : e.data[i] = wire'[f].got[wire'[f].lead + i]
  BY <1>3 DEF ReceiverInv, DeliveredInOrder
<1>5. wire'[f].lead = 0
  BY DEF WireInv
<1>6. wire'[f].end = n + 1 /\ \A i \in 1 .. n : wire'[f].got[i] = <<c, fmt, i>>
  BY <1>1, <1>2, <1>4, <1>5
<1>7. ASSUME NEW i \in 1 .. n
      PROVE  sent[c].id = f /\ i < sent[c].packets
  <2>1. i \in PacketIds /\ i \in Nat
    BY <1>1, <1>7, PacketIdsAssumption DEF PacketIds
  <2>2. <<c, fmt, i>> \in Chunks
    BY <1>1, <1>7 DEF Chunks, n
  <2>3. wire'[f].got[i] # None /\ wire'[f].got[i] = <<c, fmt, i>>
    BY <1>6, <1>7, <2>2, StreamNoneAssumption
  <2>4. GotSent(f, i)'
    BY <2>1 DEF WireInv
  <2>5. PICK d \in Contents : /\ sent[d].id = f /\ i < sent[d].packets
                              /\ wire'[f].got[i] = <<d, sent[d].format, i>>
    BY <2>3, <2>4 DEF GotSent
  <2>6. d = c
    BY <2>3, <2>5
  <2> QED
    BY <2>5, <2>6
<1>8. 1 \in 1 .. n /\ n \in 1 .. n
  BY <1>1
<1>9. sent[c].packets \in Nat
  BY DEF KnownInv, BaseInv, SinkInv, SinkTypes
<1>10. SentWhole(c)
  <2>1. n < sent[c].packets
    BY <1>7, <1>8
  <2> QED
    BY <1>1, <1>9, <2>1 DEF SentWhole, n
<1>11. PICK d \in Contents : SentOut(d) /\ sent[d].id = f
  <2>1. wire'[f].end # None
    BY <1>1, <1>6, SinkNoneAssumption
  <2>2. EndSent(f)'
    BY DEF WireInv
  <2> QED
    BY <2>1, <2>2 DEF EndSent, SentOut, Begun
<1>12. Whole(c)
  <2>1. CASE d = c
    BY <1>11, <2>1 DEF Whole
  <2>2. CASE d # c
    BY <1>7, <1>8, <1>10, <1>11, <2>2 DEF Whole, ShareId, SentOut
  <2> QED
    BY <2>1, <2>2
<1>13. sent[c].packets > 1
  BY <1>7, <1>8, <1>9
<1> QED
  BY <1>6, <1>7, <1>8, <1>12, <1>13

(* Whether the first chunk of a buffer is under way, and whether a frame   *)
(* has it.                                                                 *)
FirstUnderWay(c) == \E q \in network : q.of = c /\ q.id = 1

Having(f, c) == wire[f].got[1] # None /\ wire[f].got[1][1] = c

Holding(f, c) == Live(f) /\ Having(f, c)

(* Unless packets are repeated, the first chunk of a buffer is under way,  *)
(* or held, or gone; and it is gone when the buffer was delivered.         *)
OnceInv ==
  "repeats" \notin abilities =>
    \A c \in Contents :
      /\ deliveries[c] # 0 =>
           /\ Begun(c) /\ sent[c].packets > 1 /\ ~FirstUnderWay(c)
           /\ \A f \in Contents : ~Holding(f, c)
      /\ \A f \in Contents : Holding(f, c) => ~FirstUnderWay(c)

(* A frame that has the first chunk of a buffer had it, or it arrives.     *)
LEMMA FirstArrives ==
  ASSUME KnownInv, NEW q \in network, Arrives(q), NEW f \in Contents,
         NEW c, Having(f, c)', Live(f)' \/ (f = q.frame /\ Live(f))
  PROVE  Holding(f, c) \/ (q.of = c /\ q.id = 1)
<1>1. /\ Ingest(q) /\ q.frame \in Contents /\ q.id \in PacketIds
      /\ \/ q.type = "leader" /\ q.len \in Nat \ {0}
         \/ q.type = "payload" /\ q.body[1] = q.of
         \/ q.type = "trailer"
  BY ArrivingPacket DEF KnownInv
<1>2. ReceiverInv /\ 1 \in PacketIds
  BY ReceiverConstants DEF KnownInv, PacketIds
<1>3. CASE f # q.frame
  BY <1>1, <1>2, <1>3, OthersStay DEF Holding, Having, Live
<1>4. CASE f = q.frame /\ q.type = "leader"
  <2>1. wire'[q.frame] = [lead |-> q.id, len |-> q.len, got |-> Empty, end |-> None]
    BY <1>1, <1>2, <1>4, LeaderBegins
  <2>2. wire'[f].got = Empty
    BY <1>4, <2>1
  <2> QED
    BY <1>2, <2>2 DEF Having, Empty
<1>5. CASE f = q.frame /\ q.type # "leader" /\ ~Live(f)
  BY <1>1, <1>2, <1>5, OrphanArrives DEF Live
<1>6. CASE f = q.frame /\ q.type = "payload" /\ Live(f)
  <2>1. \/ wire'[f] = wire[f]
        \/ wire'[f] = [wire[f] EXCEPT !.got[q.id] = q.body]
    BY <1>1, <1>2, <1>6, PayloadSeen
  <2>2. wire[f] \in Wire
    BY <1>2 DEF ReceiverInv, TypeOK, HistoryOK
  <2>3. \/ wire'[f].got = wire[f].got
        \/ wire'[f].got = [wire[f].got EXCEPT ![q.id] = q.body]
    BY <2>1, <2>2 DEF Wire
  <2>4. \/ wire'[f].got[1] = wire[f].got[1]
        \/ q.id = 1 /\ wire'[f].got[1] = q.body
    BY <1>2, <2>2, <2>3 DEF Wire, Buffer
  <2> QED
    BY <1>1, <1>6, <2>4 DEF Holding, Having
<1>7. CASE f = q.frame /\ q.type = "trailer" /\ Live(f)
  <2>1. \/ wire'[f] = wire[f]
        \/ wire'[f] = [wire[f] EXCEPT !.end = q.id]
    BY <1>1, <1>2, <1>7, TrailerSeen
  <2>2. wire[f] \in Wire
    BY <1>2 DEF ReceiverInv, TypeOK, HistoryOK
  <2>3. wire'[f].got = wire[f].got
    BY <2>1, <2>2 DEF Wire
  <2> QED
    BY <1>7, <2>3 DEF Holding, Having
<1> QED
  BY <1>1, <1>3, <1>4, <1>5, <1>6, <1>7

(* A frame has the first chunk of one buffer, which was sent under its id. *)
LEMMA HeldFirst ==
  ASSUME WireInv, NEW f \in Contents, NEW c, Having(f, c)
  PROVE  c \in Contents /\ Begun(c) /\ sent[c].id = f /\ sent[c].packets > 1
<1>1. 1 \in PacketIds
  BY ReceiverConstants DEF PacketIds
<1>2. GotSent(f, 1)
  BY <1>1 DEF WireInv
<1>3. PICK d \in Contents : /\ Begun(d) /\ sent[d].id = f /\ 1 < sent[d].packets
                            /\ wire[f].got[1] = <<d, sent[d].format, 1>>
  BY <1>2 DEF GotSent, Having
<1> QED
  BY <1>3 DEF Having

(* OnceInv is kept: when a packet is sent, ...                             *)
LEMMA OnceSent ==
  ASSUME KnownInv, OnceInv, SinkSends, SentGrows
  PROVE  OnceInv'
<1> SUFFICES ASSUME "repeats" \notin abilities PROVE OnceInv'
  BY DEF OnceInv, SinkSends
<1>1. /\ wire' = wire /\ frames' = frames /\ deliveries' = deliveries
      /\ network' = network \cup {PacketAt(rendering)}
  BY DEF SinkSends, receiver, observed
<1>2. /\ PacketAt(rendering) = PacketOf(buffers, rendering)
      /\ buffers \in Contents /\ sent[buffers].packets = rendering
  BY SentNext DEF KnownInv, BaseInv, SinkSends
<1>3. rendering \in Nat
  BY <1>2 DEF KnownInv, BaseInv, SinkInv, SinkTypes
<1>4. PICK p : p = PacketAt(rendering)
  OBVIOUS
<1>5. p.of = buffers /\ p.id = rendering
  BY <1>2, <1>3, <1>4 DEF PacketOf
<1>6. ASSUME NEW c \in Contents, FirstUnderWay(c)'
      PROVE  FirstUnderWay(c) \/ sent[c].packets = 1
  BY <1>1, <1>2, <1>4, <1>5, <1>6 DEF FirstUnderWay
<1>7. ASSUME NEW c \in Contents, NEW f \in Contents, Holding(f, c)'
      PROVE  Holding(f, c) /\ ~FirstUnderWay(c)'
  <2>1. Holding(f, c)
    BY <1>1, <1>7 DEF Holding, Having, Live
  <2>2. sent[c].packets > 1
    BY <2>1, HeldFirst DEF KnownInv, Holding
  <2> QED
    BY <1>6, <2>1, <2>2 DEF OnceInv
<1>8. ASSUME NEW c \in Contents, deliveries[c] # 0
      PROVE  Begun(c)' /\ sent'[c].packets > 1 /\ ~FirstUnderWay(c)'
  <2>1. Begun(c) /\ sent[c].packets > 1 /\ ~FirstUnderWay(c)
    BY <1>8 DEF OnceInv
  <2>2. Begun(c)' /\ sent'[c].packets >= sent[c].packets
    BY <2>1 DEF SentGrows
  <2>3. sent[c].packets \in Nat /\ sent'[c].packets \in Nat
    <3>1. SinkInv'
      BY SentNext DEF KnownInv, BaseInv, SinkSends
    <3> QED
      BY <3>1 DEF KnownInv, BaseInv, SinkInv, SinkTypes
  <2> QED
    BY <1>6, <2>1, <2>2, <2>3
<1> QED
  BY <1>1, <1>7, <1>8 DEF OnceInv

(* ... when one arrives, ...                                               *)
LEMMA OnceArrives ==
  ASSUME KnownInv, KnownInv', OnceInv, NEW q \in network, Arrives(q)
  PROVE  OnceInv'
<1> SUFFICES ASSUME "repeats" \notin abilities PROVE OnceInv'
  BY ArrivingPacket DEF OnceInv, KnownInv
<1>1. /\ q.frame \in Contents /\ q.frame = sent[q.of].id /\ IsSent(q)
      /\ sent' = sent /\ network' = network \ {q}
  BY ArrivingPacket DEF KnownInv, Arrives
<1>2. ASSUME NEW c, q.of = c, q.id = 1 PROVE ~FirstUnderWay(c)'
  <2>1. ASSUME NEW p \in network, p.of = c, p.id = 1 PROVE p = q
    <3>1. IsSent(p)
      BY <2>1 DEF KnownInv, BaseInv, NetInv
    <3> QED
      BY <1>1, <1>2, <2>1, <3>1 DEF IsSent
  <2> QED
    BY <1>1, <2>1 DEF FirstUnderWay
<1>3. \A c : FirstUnderWay(c)' => FirstUnderWay(c)
  BY <1>1 DEF FirstUnderWay
<1>4. ASSUME NEW f \in Contents, NEW c \in Contents, Having(f, c)',
             Live(f)' \/ (f = q.frame /\ Live(f))
      PROVE  /\ ~FirstUnderWay(c)' /\ deliveries[c] = 0 /\ sent[c].id = f
             /\ Begun(c) /\ sent[c].packets > 1
  <2>1. Holding(f, c) \/ (q.of = c /\ q.id = 1)
    BY <1>4, FirstArrives
  <2>2. Holding(f, c) \/ FirstUnderWay(c)
    BY <2>1 DEF FirstUnderWay
  <2>3. Begun(c)' /\ sent'[c].id = f /\ sent'[c].packets > 1
    <3>1. GotSent(f, 1)'
      <4>1. 1 \in PacketIds
        BY ReceiverConstants DEF PacketIds
      <4> QED
        BY <4>1 DEF KnownInv, WireInv
    <3>2. PICK d \in Contents :
            /\ Begun(d)' /\ sent'[d].id = f /\ 1 < sent'[d].packets
            /\ wire'[f].got[1] = <<d, sent'[d].format, 1>>
      BY <1>4, <3>1 DEF GotSent, Having
    <3> QED
      BY <1>4, <3>2 DEF Having
  <2> QED
    BY <1>1, <1>2, <1>3, <2>1, <2>2, <2>3 DEF OnceInv, Begun
<1>5. ASSUME NEW f \in Contents, NEW c \in Contents, Holding(f, c)'
      PROVE  ~FirstUnderWay(c)' /\ deliveries[c] = 0 /\ sent[c].id = f
  BY <1>4, <1>5 DEF Holding
<1>6. CASE deliveries' = deliveries
  BY <1>1, <1>3, <1>5, <1>6 DEF OnceInv, Begun
<1>7. CASE deliveries' # deliveries
  <2>1. PICK e \in output', c \in Contents :
          /\ Live(q.frame) /\ ~Live(q.frame)' /\ e.kind = "complete"
          /\ e.frame = q.frame /\ Begun(c) /\ e.data = Image(c) /\ IsOneMore(c)
    BY <1>7, ArrivalObserved DEF KnownInv
  <2>2. /\ sent[c].id = q.frame /\ sent[c].packets > 1
        /\ wire'[q.frame].got[1] = <<c, sent[c].format, 1>>
    BY <1>1, <2>1, EmittedWasSent DEF KnownInv
  <2>3. Having(q.frame, c)'
    <3>1. <<c, sent[c].format, 1>> \in Chunks
      <4>1. NChunks(sent[c].format) \in Nat \ {0} /\ sent[c].format \in Formats
        BY <2>1, ChunkCount DEF KnownInv, BaseInv, SinkInv, SentInv
      <4> QED
        BY <4>1 DEF Chunks
    <3> QED
      BY <2>2, <3>1, StreamNoneAssumption DEF Having
  <2>4. ~FirstUnderWay(c)'
    BY <1>1, <1>4, <2>1, <2>3
  <2>5. \A f \in Contents : ~Holding(f, c)'
    BY <1>5, <2>1, <2>2 DEF Holding
  <2>6. \A d \in Contents : d # c => deliveries'[d] = deliveries[d]
    BY <2>1 DEF IsOneMore, KnownInv, ObservedTypes
  <2> QED
    BY <1>1, <1>3, <1>5, <2>1, <2>2, <2>4, <2>5, <2>6 DEF OnceInv, Begun
<1> QED
  BY <1>6, <1>7

(* ... and otherwise.                                                      *)
LEMMA OnceStill ==
  ASSUME KnownInv, BaseInv', OnceInv, SentGrows,
         SinkStill \/ Pause \/ UNCHANGED streamVars
           \/ \E p \in network : Loses(p)
  PROVE  OnceInv'
<1>1. /\ wire' = wire /\ deliveries' = deliveries /\ abilities' = abilities
      /\ \A f \in Contents : Live(f)' => Live(f)
  BY NoArrival DEF KnownInv
<1>2. network' \subseteq network
  BY DEF SinkStill, Pause, streamVars, Loses, Lose
<1>3. ASSUME NEW c \in Contents, Begun(c), sent[c].packets > 1
      PROVE  Begun(c)' /\ sent'[c].packets > 1
  <2>1. /\ Begun(c)' /\ sent'[c].packets >= sent[c].packets
        /\ sent[c].packets \in Nat /\ sent'[c].packets \in Nat
    BY <1>3 DEF SentGrows, KnownInv, BaseInv, SinkInv, SinkTypes
  <2> QED
    BY <1>3, <2>1
<1>4. \A c : FirstUnderWay(c)' => FirstUnderWay(c)
  BY <1>2 DEF FirstUnderWay
<1>5. \A f \in Contents : \A c : Holding(f, c)' => Holding(f, c)
  BY <1>1 DEF Holding, Having
<1> QED
  BY <1>1, <1>3, <1>4, <1>5 DEF OnceInv

(* Nothing that was sent whole becomes less, ...                           *)
LEMMA WholeStays ==
  ASSUME KnownInv, BaseInv', SentGrows, NEW c \in Contents, Whole(c)
  PROVE  Whole(c)'
<1>1. /\ Begun(c) /\ sent[c].format \in Formats
      /\ sent[c].packets \in Nat /\ sent'[c].packets \in Nat
      /\ Begun(c)' /\ sent'[c].format = sent[c].format
      /\ sent'[c].packets >= sent[c].packets
  BY DEF Whole, SentOut, SentWhole, KnownInv, BaseInv, SinkInv, SinkTypes,
         SentInv, SentGrows
<1>2. NChunks(sent[c].format) \in Nat
  BY <1>1, ChunkCount
<1>3. SentOut(c) => SentOut(c)'
  BY <1>1, <1>2 DEF SentOut
<1>4. SentWhole(c) => SentWhole(c)'
  BY <1>1, <1>2 DEF SentWhole
<1>5. \A d \in Contents : ShareId(c, d) => ShareId(c, d)'
  BY DEF ShareId, SentGrows
<1> QED
  BY <1>3, <1>4, <1>5 DEF Whole

(* ... and a step makes at most one buffer whole: the one whose last       *)
(* packet is sent, or one that waited for its id to be used again.         *)
LEMMA OneMoreWhole ==
  ASSUME KnownInv, BaseInv', SentGrows,
         SinkStill \/ SinkSends \/ sent' = sent,
         NEW c \in Contents, Whole(c)', ~Whole(c),
         NEW d \in Contents, Whole(d)', ~Whole(d)
  PROVE  c = d
<1>1. \A x \in Contents : sent'[x] = sent[x] =>
        /\ SentOut(x)' = SentOut(x) /\ SentWhole(x)' = SentWhole(x)
        /\ Begun(x)' = Begun(x)
  BY DEF SentOut, SentWhole, Begun
<1>2. CASE sent' = sent
  BY <1>1, <1>2 DEF Whole, ShareId
<1>3. CASE SinkStill /\ Render
  <2>1. PICK b \in Contents :
          /\ buffers' = b /\ ~Begun(b)
          /\ sent' = [sent EXCEPT ![b] = [id |-> sink.nextId,
                 format |-> sink.format, run |-> starts, packets |-> 0]]
          /\ sink.format \in Formats
    BY <1>3, RenderedBuffer DEF KnownInv, BaseInv
  <2>2. /\ sent'[b].packets = 0 /\ sent'[b].format \in Formats
        /\ \A x \in Contents : x # b => sent'[x] = sent[x]
    BY <2>1 DEF KnownInv, BaseInv, SinkInv, SinkTypes
  <2>3. ~SentWhole(b)' /\ ~SentOut(b)'
    <3>1. NChunks(sent'[b].format) \in Nat
      BY <2>2, ChunkCount
    <3> QED
      BY <2>2, <3>1 DEF SentWhole, SentOut
  <2>4. ASSUME NEW x \in Contents, Whole(x)', ~Whole(x)
        PROVE  x # b /\ SentWhole(x) /\ sent[x].id = sent'[b].id
    <3>1. x # b /\ sent'[x] = sent[x]
      BY <2>2, <2>3, <2>4 DEF Whole
    <3>2. SentWhole(x) /\ ~SentOut(x)
      BY <1>1, <2>4, <3>1 DEF Whole
    <3>3. PICK y \in Contents : ShareId(x, y)'
      BY <1>1, <2>4, <3>1, <3>2 DEF Whole
    <3>4. y = b
      BY <1>1, <2>2, <2>4, <3>1, <3>2, <3>3 DEF Whole, ShareId
    <3> QED
      BY <3>1, <3>2, <3>3, <3>4 DEF ShareId
  <2>5. /\ SentWhole(c) /\ SentWhole(d) /\ sent[c].id = sent[d].id
    BY <2>4
  <2> QED
    BY <2>5 DEF Whole, ShareId, SentWhole
<1>4. CASE SinkStill /\ ~Render
  <2>1. SinkQuiet
    BY <1>4 DEF SinkStill, SinkSteps, SinkQuiet
  <2> QED
    BY <1>2, <2>1, QuietSink DEF KnownInv, BaseInv
<1>5. CASE SinkSends
  <2>1. PICK b \in Contents :
          b = buffers /\ sent' = [sent EXCEPT ![b].packets = @ + 1]
    BY <1>5, SentNext DEF KnownInv, BaseInv, SinkSends
  <2>2. \A x \in Contents : x # b => sent'[x] = sent[x]
    BY <2>1 DEF KnownInv, BaseInv, SinkInv, SinkTypes
  <2>3. \A x \in Contents : Begun(x)' = Begun(x) /\ sent'[x].id = sent[x].id
    BY <2>1 DEF KnownInv, BaseInv, SinkInv, SinkTypes, Begun
  <2>4. \A x \in Contents : x # b => Whole(x)' = Whole(x)
    BY <1>1, <2>2, <2>3 DEF Whole, ShareId
  <2> QED
    BY <2>4
<1> QED
  BY <1>2, <1>3, <1>4, <1>5

(* OnceInv at the start and in every step.                                 *)
LEMMA OnceStep ==
  ASSUME KnownInv, KnownInv', OnceInv, [StreamNext]_streamVars
  PROVE  OnceInv' /\ SentGrows
<1>1. SentGrows
  BY BaseStep DEF KnownInv
<1> QED
  BY <1>1, StreamCases, OnceSent, OnceArrives, OnceStill DEF KnownInv

---------------------------------------------------------------------------
(* MixNeedsReuse: what a frame of several buffers takes                    *)

(* An id is given twice only after a restart or a failed send.             *)
LEMMA ReuseExplained ==
  ASSUME SinkInv, NEW c \in Contents, NEW d \in Contents, ShareId(c, d)
  PROVE  \E x, y \in Contents : IdReused(x, y)
<1>1. c \in Nat /\ d \in Nat /\ c # d
  BY NFramesAssumption DEF ShareId, Contents
<1>2. ASSUME NEW x \in Contents, NEW y \in Contents, x < y, ShareId(x, y)
      PROVE  IdReused(x, y)
  <2>1. sent[x].id \in Nat /\ sent[x].id = sent[y].id /\ Begun(x) /\ Begun(y)
    BY <1>2 DEF ShareId, SinkInv, SinkTypes
  <2>2. sent[x].run = sent[y].run => ~SentOut(x)
    BY <1>2, <2>1 DEF SinkInv, RunIds
  <2> QED
    BY <1>2, <2>2 DEF IdReused
<1>3. ShareId(d, c)
  BY DEF ShareId
<1>4. CASE c < d
  BY <1>2, <1>4
<1>5. CASE d < c
  BY <1>2, <1>3, <1>5
<1> QED
  BY <1>1, <1>4, <1>5

(* What a payload or a trailer adds to what is seen.                       *)
LEMMA ArrivalSeen ==
  ASSUME KnownInv, NEW q \in network, Arrives(q), q.type # "leader",
         NEW f \in Contents
  PROVE  /\ Live(f)' => Live(f)
         /\ \/ wire'[f].end = wire[f].end
            \/ q.type = "trailer" /\ f = q.frame /\ wire'[f].end = q.id
         /\ \A p \in PacketIds :
              \/ wire'[f].got[p] = wire[f].got[p]
              \/ /\ q.type = "payload" /\ f = q.frame /\ p = q.id
                 /\ wire'[f].got[p] = q.body
<1>1. /\ Ingest(q) /\ q.frame \in Contents /\ q.id \in PacketIds
      /\ q.type \in {"payload", "trailer"}
  BY ArrivingPacket DEF KnownInv
<1>2. ReceiverInv /\ wire[f] \in Wire
  BY DEF KnownInv, ReceiverInv, TypeOK, HistoryOK
<1>3. CASE f # q.frame
  BY <1>1, <1>2, <1>3, OthersStay DEF Live
<1>4. CASE f = q.frame /\ ~Live(f)
  BY <1>1, <1>2, <1>4, OrphanArrives DEF Live
<1>5. CASE f = q.frame /\ Live(f) /\ q.type = "payload"
  <2>1. \/ wire'[f] = wire[f]
        \/ wire'[f] = [wire[f] EXCEPT !.got[q.id] = q.body]
    BY <1>1, <1>2, <1>5, PayloadSeen
  <2>2. /\ wire'[f].end = wire[f].end
        /\ \/ wire'[f].got = wire[f].got
           \/ wire'[f].got = [wire[f].got EXCEPT ![q.id] = q.body]
    BY <1>2, <2>1 DEF Wire
  <2> QED
    BY <1>2, <1>5, <2>2 DEF Wire, Buffer
<1>6. CASE f = q.frame /\ Live(f) /\ q.type = "trailer"
  <2>1. \/ wire'[f] = wire[f]
        \/ wire'[f] = [wire[f] EXCEPT !.end = q.id]
    BY <1>1, <1>2, <1>6, TrailerSeen
  <2> QED
    BY <1>2, <1>6, <2>1 DEF Wire
<1> QED
  BY <1>1, <1>3, <1>4, <1>5, <1>6

(* What is seen under an id is of one buffer.                              *)
AllOf(f, c) ==
  /\ \A p \in PacketIds : wire[f].got[p] # None =>
       wire[f].got[p] = <<c, sent[c].format, p>>
  /\ wire[f].end # None => wire[f].end = NChunks(sent[c].format) + 1

(* A frame of one buffer is emitted as its image.                          *)
LEMMA OneBufferEmitted ==
  ASSUME KnownInv, KnownInv', sent' = sent,
         NEW e \in output', e.kind = "complete", e.frame \in Contents,
         NEW c \in Contents, Begun(c), AllOf(e.frame, c)'
  PROVE  e.data = Image(c)
<1> DEFINE f == e.frame
           fmt == sent[c].format
           n == NChunks(fmt)
<1>1. n \in Nat \ {0} /\ n + 1 <= MaxId
  BY ChunkCount, PacketIdsAssumption DEF KnownInv, BaseInv, SinkInv, SentInv
<1> HIDE DEF n
<1>2. e.data \in Seq(Chunks)
  <2>1. output' \subseteq FrameEvent
    BY DEF KnownInv, ReceiverInv, TypeOK, StateOK
  <2> QED
    BY <2>1 DEF FrameEvent
<1>3. /\ wire'[f].end = wire'[f].lead + Len(e.data) + 1
      /\ \A i \in 1 .. Len(e.data) : e.data[i] = wire'[f].got[wire'[f].lead + i]
      /\ wire'[f].lead = 0
  BY DEF KnownInv, ReceiverInv, DeliveredInOrder, WireInv
<1>4. Len(e.data) \in Nat
  BY <1>2
<1>5. wire'[f].end = n + 1
  <2>1. wire'[f].end # None
    BY <1>3, <1>4, SinkNoneAssumption
  <2> QED
    BY <2>1 DEF AllOf, n
<1>6. Len(e.data) = n
  BY <1>1, <1>3, <1>4, <1>5
<1>7. ASSUME NEW i \in 1 .. n PROVE e.data[i] = <<c, fmt, i>>
  <2>1. e.data[i] \in Chunks /\ e.data[i] = wire'[f].got[i]
    BY <1>2, <1>3, <1>6, <1>7
  <2>2. i \in PacketIds
    BY <1>1, <1>7, PacketIdsAssumption DEF PacketIds
  <2> QED
    BY <2>1, <2>2, StreamNoneAssumption DEF AllOf
<1>8. e.data = [i \in 1 .. n |-> e.data[i]]
  BY <1>2, <1>6
<1>9. Image(c) = [i \in 1 .. n |-> <<c, fmt, i>>]
  BY DEF Image, n
<1> QED
  BY <1>7, <1>8, <1>9

(* Without a shared id, an emitted frame is of one buffer.                 *)
LEMMA UnsharedEmitted ==
  ASSUME KnownInv, KnownInv', sent' = sent,
         NEW e \in output', e.kind = "complete", e.frame \in Contents,
         \A c, d \in Contents : ~ShareId(c, d)
  PROVE  \E c \in Contents : Begun(c) /\ e.data = Image(c)
<1> DEFINE f == e.frame
<1>1. /\ EndSent(f)' /\ \A p \in PacketIds : GotSent(f, p)'
      /\ wire'[f].end # None
  <2>1. /\ wire'[f].lead = 0 /\ Len(e.data) \in Nat
        /\ wire'[f].end = wire'[f].lead + Len(e.data) + 1
    <3>1. output' \subseteq FrameEvent
      BY DEF KnownInv, ReceiverInv, TypeOK, StateOK
    <3>2. e.data \in Seq(Chunks)
      BY <3>1 DEF FrameEvent
    <3> QED
      BY <3>2 DEF KnownInv, WireInv, ReceiverInv, DeliveredInOrder
  <2>2. wire'[f].end # None
    BY <2>1, SinkNoneAssumption
  <2> QED
    BY <2>2 DEF KnownInv, WireInv
<1>2. PICK c \in Contents : /\ Begun(c)' /\ sent'[c].id = f
                            /\ wire'[f].end = NChunks(sent'[c].format) + 1
  BY <1>1 DEF EndSent, SentOut, Begun
<1>3. ASSUME NEW p \in PacketIds, wire'[f].got[p] # None
      PROVE  wire'[f].got[p] = <<c, sent[c].format, p>>
  <2>1. PICK d \in Contents : /\ Begun(d)' /\ sent'[d].id = f
                              /\ wire'[f].got[p] = <<d, sent'[d].format, p>>
    BY <1>1, <1>3 DEF GotSent
  <2>2. d = c
    BY <1>2, <2>1 DEF ShareId, Begun
  <2> QED
    BY <2>1, <2>2
<1>4. AllOf(f, c)'
  BY <1>2, <1>3 DEF AllOf
<1> QED
  BY <1>2, <1>4, OneBufferEmitted DEF Begun

LeaderUnderWay(c) == \E q \in network : q.of = c /\ q.id = 0

Last(f, c) == /\ c \in arrived /\ sent[c].id = f
              /\ \A d \in arrived : sent[d].id = f => d <= c

(* In such a network buffers arrive one after another, and each frame is   *)
(* of the last one that began under its id.                                *)
OrderInv ==
  Orderly =>
    /\ \A q \in network, d \in arrived : d <= q.of
    /\ \A c \in Contents : Begun(c) /\ sent[c].packets > 0 =>
         LeaderUnderWay(c) \/ c \in arrived
    /\ \A f \in Contents : Live(f) => \E c \in arrived : Last(f, c) /\ AllOf(f, c)

(* So a payload or a trailer finds the frame of its buffer.                *)
LEMMA OrderFinds ==
  ASSUME KnownInv, OrderInv, Orderly, NEW q \in network, Arrives(q),
         q.type # "leader"
  PROVE  /\ q.of \in arrived /\ Last(q.frame, q.of)
         /\ Live(q.frame) => AllOf(q.frame, q.of) /\ AllOf(q.frame, q.of)'
<1>1. /\ q.of \in Contents /\ Begun(q.of) /\ q.id < sent[q.of].packets
      /\ q.frame = sent[q.of].id /\ q.frame \in Contents /\ q.id \in PacketIds
      /\ q.type = "payload" => q.body = <<q.of, sent[q.of].format, q.id>>
      /\ q.type = "trailer" => q.id = NChunks(sent[q.of].format) + 1
      /\ q.type \in {"payload", "trailer"} /\ sent' = sent
      /\ q = PacketOf(q.of, q.id)
  BY ArrivingPacket DEF KnownInv
<1>2. q.id \in Nat /\ q.id # 0 /\ q.of \in Nat
  BY <1>1, PacketIdsAssumption, NFramesAssumption DEF PacketIds, PacketOf, Contents
<1>3. \A p \in network : ~Earlier(p, q)
  BY DEF Arrives, Arrive, Deliverable, Orderly
<1>4. ~LeaderUnderWay(q.of)
  BY <1>2, <1>3 DEF Earlier, LeaderUnderWay
<1>5. q.of \in arrived
  <2>1. sent[q.of].packets \in Nat
    BY <1>1 DEF KnownInv, BaseInv, SinkInv, SinkTypes
  <2>2. sent[q.of].packets > 0
    BY <1>1, <1>2, <2>1
  <2> QED
    BY <1>1, <1>4, <2>2 DEF OrderInv
<1>6. Last(q.frame, q.of)
  BY <1>1, <1>5 DEF Last, OrderInv
<1>7. ASSUME Live(q.frame)
      PROVE  AllOf(q.frame, q.of) /\ AllOf(q.frame, q.of)'
  <2>1. PICK c \in arrived : Last(q.frame, c) /\ AllOf(q.frame, c)
    BY <1>1, <1>7 DEF OrderInv
  <2>2. c \in Nat
    BY <2>1, NFramesAssumption DEF KnownInv, ObservedTypes, Contents
  <2>3. c <= q.of /\ q.of <= c
    BY <1>5, <1>6, <2>1 DEF Last
  <2>4. AllOf(q.frame, q.of)
    BY <1>2, <2>1, <2>2, <2>3
  <2>5. AllOf(q.frame, q.of)'
    BY <1>1, <2>4, ArrivalSeen DEF AllOf
  <2> QED
    BY <2>4, <2>5
<1> QED
  BY <1>5, <1>6, <1>7

(* OrderInv is kept: when a packet arrives, ...                            *)
LEMMA OrderArrives ==
  ASSUME KnownInv, KnownInv', OrderInv, NEW q \in network, Arrives(q)
  PROVE  OrderInv'
<1>1. /\ q.of \in Contents /\ q.frame = sent[q.of].id /\ q.frame \in Contents
      /\ sent' = sent /\ abilities' = abilities
      /\ arrived' = IF q.type = "leader" THEN arrived \cup {q.of} ELSE arrived
      /\ q = PacketOf(q.of, q.id) /\ q.id \in PacketIds
      /\ network' \subseteq network /\ network \subseteq network' \cup {q}
  BY ArrivingPacket DEF KnownInv, Arrives
<1> SUFFICES ASSUME Orderly PROVE OrderInv'
  BY <1>1 DEF OrderInv, Orderly
<1>2. arrived \subseteq Contents /\ \A c \in Contents : c \in Nat
  BY NFramesAssumption DEF KnownInv, ObservedTypes, Contents
<1>3. \A p \in network : q.of <= p.of
  <2>1. \A p \in network : ~Earlier(p, q)
    BY DEF Arrives, Arrive, Deliverable, Orderly
  <2>2. \A p \in network : p.of \in Contents
    BY DEF KnownInv, BaseInv, NetInv, IsSent
  <2> QED
    BY <1>1, <1>2, <2>1, <2>2 DEF Earlier
<1>4. \A p \in network', d \in arrived' : d <= p.of
  BY <1>1, <1>3 DEF OrderInv
<1>5. q.type = "leader" <=> q.id = 0
  BY <1>1 DEF PacketOf
<1>6. \A c \in Contents : LeaderUnderWay(c) =>
        LeaderUnderWay(c)' \/ c \in arrived'
  BY <1>1, <1>5 DEF LeaderUnderWay
<1>7. \A d \in arrived : d <= q.of
  BY DEF OrderInv
<1>8. ASSUME NEW f \in Contents, Live(f)'
      PROVE  \E c \in arrived' : Last(f, c)' /\ AllOf(f, c)'
  <2>1. CASE q.type = "leader" /\ f = q.frame
    <3>1. q.len \in Nat \ {0} /\ Ingest(q)
      BY <2>1, ArrivingPacket DEF KnownInv
    <3>2. wire'[f] = [lead |-> q.id, len |-> q.len, got |-> Empty, end |-> None]
      BY <1>1, <2>1, <3>1, LeaderBegins DEF KnownInv
    <3>3. \A p \in PacketIds : wire'[f].got[p] = None
      BY <3>2 DEF Empty
    <3>4. AllOf(f, q.of)'
      BY <3>2, <3>3 DEF AllOf
    <3>5. Last(f, q.of)'
      BY <1>1, <1>2, <1>7, <2>1 DEF Last
    <3> QED
      BY <1>1, <2>1, <3>4, <3>5
  <2>2. CASE q.type = "leader" /\ f # q.frame
    <3>1. frames'[f] = frames[f] /\ wire'[f] = wire[f]
      BY <1>1, <2>2, OthersStay, ArrivingPacket DEF KnownInv
    <3>2. PICK c \in arrived : Last(f, c) /\ AllOf(f, c)
      BY <1>8, <3>1 DEF OrderInv, Live
    <3>3. Last(f, c)' /\ AllOf(f, c)'
      BY <1>1, <2>2, <3>1, <3>2 DEF Last, AllOf
    <3> QED
      BY <1>1, <3>2, <3>3
  <2>3. CASE q.type # "leader" /\ f = q.frame
    <3>1. Live(f)
      BY <1>8, <2>3, ArrivalSeen
    <3>2. q.of \in arrived /\ Last(f, q.of) /\ AllOf(f, q.of)'
      BY <2>3, <3>1, OrderFinds
    <3>3. Last(f, q.of)'
      BY <1>1, <2>3, <3>2 DEF Last
    <3> QED
      BY <1>1, <2>3, <3>2, <3>3
  <2>4. CASE q.type # "leader" /\ f # q.frame
    <3>1. frames'[f] = frames[f] /\ wire'[f] = wire[f]
      BY <1>1, <2>4, OthersStay, ArrivingPacket DEF KnownInv
    <3>2. PICK c \in arrived : Last(f, c) /\ AllOf(f, c)
      BY <1>8, <3>1 DEF OrderInv, Live
    <3>3. Last(f, c)' /\ AllOf(f, c)'
      BY <1>1, <2>4, <3>1, <3>2 DEF Last, AllOf
    <3> QED
      BY <1>1, <2>4, <3>2, <3>3
  <2> QED
    BY <2>1, <2>2, <2>3, <2>4
<1>9. \A c \in Contents : Begun(c)' /\ sent'[c].packets > 0 =>
        LeaderUnderWay(c)' \/ c \in arrived'
  BY <1>1, <1>6 DEF OrderInv, Begun
<1> QED
  BY <1>4, <1>8, <1>9 DEF OrderInv

(* ... when one is sent, ...                                               *)
LEMMA OrderSent ==
  ASSUME KnownInv, KnownInv', OrderInv, SinkSends, SentGrows
  PROVE  OrderInv'
<1>1. /\ wire' = wire /\ frames' = frames /\ arrived' = arrived
      /\ network' = network \cup {PacketAt(rendering)} /\ abilities' = abilities
  BY DEF SinkSends, receiver, observed
<1> SUFFICES ASSUME Orderly PROVE OrderInv'
  BY <1>1 DEF OrderInv, Orderly
<1>2. PICK b \in Contents :
        /\ b = buffers /\ PacketAt(rendering) = PacketOf(b, rendering)
        /\ sent[b].packets = rendering
        /\ sent' = [sent EXCEPT ![b].packets = @ + 1]
  BY SentNext DEF KnownInv, BaseInv, SinkSends
<1>3. rendering \in Nat
  BY <1>2 DEF KnownInv, BaseInv, SinkInv, SinkTypes
<1>4. PICK p : p = PacketAt(rendering)
  OBVIOUS
<1>5. p.of = b /\ p.id = rendering /\ p \in network'
      /\ \A q \in network' : q \in network \/ q = p
  BY <1>1, <1>2, <1>3, <1>4 DEF PacketOf
<1>6. \A d \in arrived : d \in Contents /\ Begun(d) /\ d <= b
  BY <1>2 DEF KnownInv, ObservedTypes, BaseInv, SinkInv, SentInv
<1>7. \A q \in network', d \in arrived' : d <= q.of
  BY <1>1, <1>5, <1>6 DEF OrderInv
<1>8. ASSUME NEW c \in Contents, Begun(c)', sent'[c].packets > 0
      PROVE  LeaderUnderWay(c)' \/ c \in arrived'
  <2>1. Begun(c) /\ (c # b => sent'[c] = sent[c])
    BY <1>2, <1>8 DEF Begun, KnownInv, BaseInv, SinkInv, SinkTypes
  <2>2. CASE sent[c].packets > 0
    BY <1>1, <2>1, <2>2 DEF OrderInv, LeaderUnderWay
  <2>3. CASE ~(sent[c].packets > 0)
    <3>1. c = b /\ rendering = 0
      BY <1>2, <1>3, <1>8, <2>1, <2>3
    <3> QED
      BY <1>5, <3>1 DEF LeaderUnderWay
  <2> QED
    BY <2>2, <2>3
<1>9. ASSUME NEW f \in Contents, Live(f)'
      PROVE  \E c \in arrived' : Last(f, c)' /\ AllOf(f, c)'
  <2>1. PICK c \in arrived : Last(f, c) /\ AllOf(f, c)
    BY <1>1, <1>9 DEF OrderInv, Live
  <2>2. Last(f, c)' /\ AllOf(f, c)'
    BY <1>1, <1>6, <2>1 DEF Last, AllOf, SentGrows
  <2> QED
    BY <1>1, <2>1, <2>2
<1> QED
  BY <1>7, <1>8, <1>9 DEF OrderInv

(* ... and otherwise.                                                      *)
LEMMA OrderStill ==
  ASSUME KnownInv, KnownInv', OrderInv, SentGrows,
         SinkStill \/ Pause \/ UNCHANGED streamVars
           \/ \E p \in network : Loses(p)
  PROVE  OrderInv'
<1>1. /\ wire' = wire /\ arrived' = arrived /\ abilities' = abilities
      /\ \A f \in Contents : Live(f)' => Live(f)
  BY NoArrival DEF KnownInv
<1> SUFFICES ASSUME Orderly PROVE OrderInv'
  BY <1>1 DEF OrderInv, Orderly
<1>2. network' = network
  BY DEF SinkStill, Pause, streamVars, Loses, Lose, Orderly
<1>3. \A d \in arrived : d \in Contents /\ Begun(d)
  BY DEF KnownInv, ObservedTypes
<1>4. ASSUME NEW c \in Contents, Begun(c)', sent'[c].packets > 0
      PROVE  LeaderUnderWay(c)' \/ c \in arrived'
  <2>1. CASE sent' = sent
    BY <1>1, <1>2, <1>4, <2>1 DEF OrderInv, Begun, LeaderUnderWay
  <2>2. CASE Render
    <3>1. PICK b \in Contents :
            sent' = [sent EXCEPT ![b] = [id |-> sink.nextId,
                 format |-> sink.format, run |-> starts, packets |-> 0]]
      BY <2>2, RenderedBuffer DEF KnownInv, BaseInv
    <3>2. c # b /\ sent'[c] = sent[c]
      BY <1>4, <3>1 DEF KnownInv, BaseInv, SinkInv, SinkTypes
    <3> QED
      BY <1>1, <1>2, <1>4, <3>2 DEF OrderInv, Begun, LeaderUnderWay
  <2>3. Render \/ sent' = sent
    <3>1. SinkStill /\ ~Render => SinkQuiet
      BY DEF SinkStill, SinkSteps, SinkQuiet
    <3> QED
      BY <3>1, QuietSink DEF KnownInv, BaseInv, Pause, Loses, Lose, streamVars,
                             sinkVars
  <2> QED
    BY <2>1, <2>2, <2>3
<1>5. ASSUME NEW f \in Contents, Live(f)'
      PROVE  \E c \in arrived' : Last(f, c)' /\ AllOf(f, c)'
  <2>1. PICK c \in arrived : Last(f, c) /\ AllOf(f, c)
    BY <1>1, <1>5 DEF OrderInv
  <2>2. Last(f, c)' /\ AllOf(f, c)'
    BY <1>1, <1>3, <2>1 DEF Last, AllOf, SentGrows
  <2> QED
    BY <1>1, <2>1, <2>2
<1> QED
  BY <1>1, <1>2, <1>4, <1>5 DEF OrderInv

(* A mixed frame was emitted only with a shared id, out of order.          *)
MixInv == foreign => ~Orderly /\ \E c, d \in Contents : ShareId(c, d)

(* MixInv is kept.                                                         *)
LEMMA MixStep ==
  ASSUME KnownInv, KnownInv', OrderInv, MixInv, [StreamNext]_streamVars
  PROVE  OrderInv' /\ MixInv'
<1>1. SentGrows
  BY BaseStep DEF KnownInv
<1>2. abilities' = abilities
  BY StreamCases DEF SinkStill, SinkSends, Arrives, Arrive, Loses, Lose, Pause,
                     streamVars
<1>3. CASE foreign' = foreign
  <2>1. (\E c, d \in Contents : ShareId(c, d))
          => \E c, d \in Contents : ShareId(c, d)'
    BY <1>1 DEF ShareId, SentGrows
  <2>2. MixInv'
    BY <1>2, <1>3, <2>1 DEF MixInv, Orderly
  <2> QED
    BY <1>1, <2>2, StreamCases, OrderArrives, OrderSent, OrderStill
<1>4. CASE foreign' # foreign
  <2>1. PICK q \in network : Arrives(q)
    BY <1>4, StreamCases, NoArrival DEF KnownInv
  <2>2. PICK e \in output' :
          /\ q.type # "leader" /\ Live(q.frame) /\ e.kind = "complete"
          /\ e.frame = q.frame
          /\ \A c \in Contents : ~Begun(c) \/ e.data # Image(c)
    BY <1>4, <2>1, ArrivalObserved DEF KnownInv, IsOneMore
  <2>3. sent' = sent /\ q.frame \in Contents /\ q.of \in Contents /\ Begun(q.of)
    BY <2>1, ArrivingPacket DEF KnownInv
  <2>4. ~Orderly
    BY <2>1, <2>2, <2>3, OrderFinds, OneBufferEmitted
  <2>5. \E c, d \in Contents : ShareId(c, d)
    BY <2>2, <2>3, UnsharedEmitted
  <2>6. MixInv'
    BY <1>2, <2>3, <2>4, <2>5 DEF MixInv, Orderly, ShareId, Begun
  <2> QED
    BY <2>1, <2>6, OrderArrives
<1> QED
  BY <1>3, <1>4

(* The start.                                                              *)
LEMMA MixInit == StreamInit => OrderInv /\ MixInv
<1> SUFFICES ASSUME StreamInit PROVE OrderInv /\ MixInv
  OBVIOUS
<1>1. /\ ~foreign /\ network = {} /\ arrived = {}
      /\ \A c \in Contents : ~Begun(c)
  BY DEF StreamInit, SinkInit, Begun, Unsent
<1>2. \A f \in Contents : ~Live(f)
  BY DEF StreamInit, Init, Live
<1> QED
  BY <1>1, <1>2 DEF OrderInv, MixInv

(* An emitted frame that mixes buffers or misplaces a chunk takes an id    *)
(* used twice, hence a restart or a failed send, and a network that does   *)
(* not merely deliver in order (render's next_frame_id).                   *)
THEOREM MixHolds == StreamSpec => []MixNeedsReuse
<1>1. KnownInv /\ KnownInv' /\ OrderInv /\ MixInv /\ [StreamNext]_streamVars
        => (OrderInv /\ MixInv)'
  BY MixStep
<1>2. KnownInv /\ MixInv => MixNeedsReuse
  <2> SUFFICES ASSUME KnownInv, MixInv, foreign PROVE MixNeedsReuse
    BY DEF MixNeedsReuse
  <2>1. ~Orderly /\ \E c, d \in Contents : ShareId(c, d)
    BY DEF MixInv
  <2>2. \E c, d \in Contents : IdReused(c, d)
    BY <2>1, ReuseExplained DEF KnownInv, BaseInv
  <2> QED
    BY <2>1, <2>2 DEF MixNeedsReuse, Orderly
<1> QED
  BY <1>1, <1>2, MixInit, StreamKnown, PTL DEF StreamSpec

---------------------------------------------------------------------------
(* The refinement                                                          *)

(* Every step is one of FrameDelivery's, or none.                          *)
LEMMA DeliveryStep ==
  ASSUME KnownInv, KnownInv', OnceInv, MixInv, MixInv', SentGrows,
         [StreamNext]_streamVars
  PROVE  [Delivery!Next]_Delivery!vars
<1> DEFINE once == "repeats" \notin abilities
           whole == {c \in Contents : Whole(c)}
           reused == \E c, d \in Contents : ShareId(c, d)
<1>1. abilities' = abilities /\ Orderly' = Orderly
  <2>1. abilities' = abilities
    BY StreamCases DEF SinkStill, SinkSends, Arrives, Arrive, Loses, Lose, Pause,
                       streamVars
  <2> QED
    BY <2>1 DEF Orderly
<1>2. CASE \E q \in network : Arrives(q)
  <2>1. PICK q \in network : Arrives(q)
    BY <1>2
  <2>2. sent' = sent /\ q.frame \in Contents /\ q.frame = sent[q.of].id
    BY <2>1, ArrivingPacket DEF KnownInv
  <2>3. whole' = whole /\ reused' = reused
    BY <2>2 DEF Whole, SentOut, SentWhole, ShareId, Begun
  <2>4. CASE deliveries' = deliveries /\ foreign' = foreign
    BY <1>1, <2>3, <2>4 DEF Delivery!vars
  <2>5. CASE foreign' # foreign
    <3>1. foreign' /\ deliveries' = deliveries
      BY <2>1, <2>5, ArrivalObserved DEF KnownInv, IsOneMore
    <3>2. ~Orderly /\ reused
      BY <1>1, <2>3, <3>1 DEF MixInv
    <3>3. Delivery!DeliverMixed
      BY <1>1, <2>3, <3>1, <3>2 DEF Delivery!DeliverMixed
    <3> QED
      BY <3>3 DEF Delivery!Next
  <2>6. CASE deliveries' # deliveries /\ foreign' = foreign
    <3>1. PICK e \in output', c \in Contents :
            /\ Live(q.frame) /\ e.kind = "complete" /\ e.frame = q.frame
            /\ Begun(c) /\ e.data = Image(c) /\ IsOneMore(c)
      BY <2>1, <2>6, ArrivalObserved DEF KnownInv
    <3>2. /\ Whole(c)
          /\ wire'[q.frame].got[1] = <<c, sent[c].format, 1>>
      BY <2>2, <3>1, EmittedWasSent DEF KnownInv
    <3>3. <<c, sent[c].format, 1>> \in Chunks
      <4>1. NChunks(sent[c].format) \in Nat \ {0} /\ sent[c].format \in Formats
        BY <3>1, ChunkCount DEF KnownInv, BaseInv, SinkInv, SentInv
      <4> QED
        BY <4>1 DEF Chunks
    <3>4. Having(q.frame, c)'
      BY <3>2, <3>3, StreamNoneAssumption DEF Having
    <3>5. Holding(q.frame, c) \/ (q.of = c /\ q.id = 1)
      BY <2>1, <2>2, <3>1, <3>4, FirstArrives
    <3>6. once => deliveries[c] = 0
      BY <2>2, <3>5 DEF OnceInv, FirstUnderWay
    <3>7. Delivery!Deliver(c)
      BY <1>1, <2>3, <3>1, <3>2, <3>6 DEF Delivery!Deliver, IsOneMore
    <3> QED
      BY <3>7 DEF Delivery!Next, Contents
  <2> QED
    BY <2>4, <2>5, <2>6
<1>3. CASE ~ \E q \in network : Arrives(q)
  <2>1. deliveries' = deliveries /\ foreign' = foreign
    BY <1>3, StreamCases, NoArrival DEF KnownInv
  <2>2. SinkStill \/ SinkSends \/ sent' = sent
    BY <1>3, StreamCases DEF Pause, Loses, Lose, streamVars, sinkVars
  <2>3. \A c \in Contents : Whole(c) => Whole(c)'
    BY WholeStays DEF KnownInv
  <2>4. reused => reused'
    BY DEF ShareId, SentGrows
  <2>5. \/ whole' = whole
        \/ \E c \in Contents : c \notin whole /\ whole' = whole \cup {c}
    <3>1. CASE whole' # whole
      <4>1. PICK c \in Contents : Whole(c)' /\ ~Whole(c)
        BY <2>3, <3>1
      <4>2. whole' = whole \cup {c}
        BY <2>2, <2>3, <4>1, OneMoreWhole DEF KnownInv
      <4> QED
        BY <4>1, <4>2
    <3> QED
      BY <3>1
  <2>6. CASE reused' # reused
    <3>1. ~reused /\ reused'
      BY <2>4, <2>6
    <3>2. Delivery!ReuseId
      BY <1>1, <2>1, <2>5, <3>1 DEF Delivery!ReuseId, Contents
    <3> QED
      BY <3>2 DEF Delivery!Next
  <2>7. CASE reused' = reused /\ whole' = whole
    BY <1>1, <2>1, <2>7 DEF Delivery!vars
  <2>8. CASE reused' = reused /\ whole' # whole
    <3>1. PICK c \in Contents : c \notin whole /\ whole' = whole \cup {c}
      BY <2>5, <2>8
    <3>2. Delivery!Send(c)
      BY <1>1, <2>1, <2>8, <3>1 DEF Delivery!Send
    <3> QED
      BY <3>2 DEF Delivery!Next, Contents
  <2> QED
    BY <2>6, <2>7, <2>8
<1> QED
  BY <1>2, <1>3

(* At the start nothing was sent.                                          *)
LEMMA DeliveryInit == StreamInit => OnceInv /\ Delivery!Init
<1> SUFFICES ASSUME StreamInit PROVE OnceInv /\ Delivery!Init
  OBVIOUS
<1>1. \A c \in Contents : deliveries[c] = 0 /\ ~Begun(c)
  BY DEF StreamInit, SinkInit, Begun, Unsent
<1>2. \A f \in Contents : ~Live(f)
  BY DEF StreamInit, Init, Live
<1>3. /\ {c \in Contents : Whole(c)} = {}
      /\ (\E c, d \in Contents : ShareId(c, d)) = FALSE
  BY <1>1 DEF Whole, SentOut, SentWhole, ShareId
<1>4. deliveries = [c \in 1 .. NFrames |-> 0] /\ foreign = FALSE
  BY DEF StreamInit, Contents
<1> QED
  BY <1>1, <1>2, <1>3, <1>4 DEF OnceInv, Holding, Orderly, Delivery!Init

(* The stream implements FrameDelivery: whatever the network reorders,     *)
(* loses or repeats, and however often the sink fails or restarts, every   *)
(* frame that reaches the pipeline is a whole frame that was sent before,  *)
(* and the same one again only if packets are repeated; the exception is a *)
(* frame that mixes two of one id, which takes an id given twice and a     *)
(* network that is not orderly (emit_packets, ingest_view).                *)
THEOREM StreamImplementsDelivery == StreamSpec => ImplementsDelivery
<1>1. /\ KnownInv /\ KnownInv' /\ OnceInv /\ OrderInv /\ MixInv
      /\ [StreamNext]_streamVars
      => (OnceInv /\ OrderInv /\ MixInv)' /\ [Delivery!Next]_Delivery!vars
  BY OnceStep, MixStep, DeliveryStep
<1>2. StreamInit => OnceInv /\ OrderInv /\ MixInv /\ Delivery!Init
  BY DeliveryInit, MixInit
<1> QED
  BY <1>1, <1>2, StreamKnown, PTL DEF StreamSpec, ImplementsDelivery, Delivery!Spec

---------------------------------------------------------------------------
(* The bytes of an image                                                   *)

(* The receiver has the assembler's operators.                             *)
LEMMA SameOperators ==
  /\ Assembler!IsFiniteSet(Contents)
  /\ Assembler!PacketIds = PacketIds /\ Assembler!Buffer = Buffer
  /\ Assembler!PartialFrame = PartialFrame /\ Assembler!Empty = Empty
  /\ \A b, lo, hi : Assembler!ByteSum(b, lo, hi) = ByteSum(b, lo, hi)
  /\ \A b : Assembler!SizeOf(b) = SizeOf(b)
  /\ \A s, e : Assembler!IsRunEnd(s, e) = IsRunEnd(s, e)
  /\ \A s : Assembler!RunEnd(s) = RunEnd(s)
<1>1. Assembler!IsFiniteSet(Contents)
  BY ReceiverConstants DEF IsFiniteSet, Assembler!IsFiniteSet
<1>2. /\ Assembler!PacketIds = PacketIds /\ Assembler!Buffer = Buffer
      /\ Assembler!PartialFrame = PartialFrame /\ Assembler!Empty = Empty
  BY DEF Assembler!PartialFrame, PartialFrame, Assembler!PacketIds, PacketIds,
         Assembler!Buffer, Buffer, Assembler!Empty, Empty
<1>3. /\ \A b, lo, hi : Assembler!ByteSum(b, lo, hi) = ByteSum(b, lo, hi)
      /\ \A b : Assembler!SizeOf(b) = SizeOf(b)
  BY DEF ByteSum, Assembler!ByteSum, SizeOf, Assembler!SizeOf
<1>4. /\ \A s, e : Assembler!IsRunEnd(s, e) = IsRunEnd(s, e)
      /\ \A s : Assembler!RunEnd(s) = RunEnd(s)
  BY DEF RunEnd, Assembler!RunEnd, IsRunEnd, Assembler!IsRunEnd
<1> QED
  BY <1>1, <1>2, <1>3, <1>4

(* Sums go on by one packet, ...                                           *)
LEMMA BytesStep ==
  ASSUME NEW b, NEW lo \in Nat, NEW n \in Nat
  PROVE  /\ n < lo => ByteSum(b, lo, n) = 0
         /\ lo <= n + 1 => ByteSum(b, lo, n + 1) =
                             SizeOf(b[n + 1]) + ByteSum(b, lo, n)
BY SameOperators, ReceiverConstants, Assembler!SumSteps

(* ... are numbers, ...                                                    *)
LEMMA BytesType ==
  ASSUME NEW b \in Buffer, NEW lo \in Nat, NEW n \in PacketIds
  PROVE  ByteSum(b, lo, n) \in Nat
BY SameOperators, ReceiverConstants, Assembler!SumType

(* ... add up, ...                                                         *)
LEMMA BytesSplit ==
  ASSUME NEW b \in Buffer, NEW lo \in Nat, NEW m \in Nat, NEW hi \in PacketIds,
         lo <= m + 1, m <= hi
  PROVE  ByteSum(b, lo, hi) = ByteSum(b, lo, m) + ByteSum(b, m + 1, hi)
BY SameOperators, ReceiverConstants, Assembler!SumSplit

(* ... are of the packets between their bounds, ...                        *)
LEMMA BytesSame ==
  ASSUME NEW b \in Buffer, NEW d \in Buffer, NEW lo \in Nat, NEW hi \in PacketIds,
         \A p \in PacketIds : p >= lo /\ p <= hi => b[p] = d[p]
  PROVE  ByteSum(b, lo, hi) = ByteSum(d, lo, hi)
BY SameOperators, ReceiverConstants, Assembler!SumSame

(* ... and zero if those are none, and grow with each.                     *)
LEMMA BytesNone ==
  ASSUME NEW b \in Buffer, NEW lo \in Nat, NEW hi \in PacketIds,
         \A p \in PacketIds : p >= lo /\ p <= hi => b[p] = None
  PROVE  ByteSum(b, lo, hi) = 0
<1>1. Empty \in Buffer
  BY DEF Empty, Buffer
<1>2. ByteSum(Empty, lo, hi) = 0
  BY SameOperators, ReceiverConstants, Assembler!SumOfNothing
<1>3. \A p \in PacketIds : p >= lo /\ p <= hi => b[p] = Empty[p]
  BY DEF Empty
<1> QED
  BY <1>1, <1>2, <1>3, BytesSame

(* A buffer that has more has more bytes.                                  *)
LEMMA BytesMore ==
  ASSUME NEW b \in Buffer, NEW d \in Buffer, NEW lo \in Nat, NEW hi \in PacketIds,
         \A p \in PacketIds : b[p] = None \/ b[p] = d[p]
  PROVE  ByteSum(b, lo, hi) <= ByteSum(d, lo, hi)
<1>1. \A p \in PacketIds : SizeOf(b[p]) \in Nat /\ SizeOf(d[p]) \in Nat
  BY ReceiverConstants DEF Buffer, SizeOf
<1>2. \A p \in PacketIds : SizeOf(b[p]) <= SizeOf(d[p])
  BY <1>1 DEF SizeOf
<1> QED
  BY <1>2, SameOperators, ReceiverConstants, Assembler!SumMonotone

(* A chunk that is added counts with its bytes.                            *)
LEMMA BytesAdd ==
  ASSUME NEW b \in Buffer, NEW q \in PacketIds, b[q] = None, NEW x \in Chunks
  PROVE  /\ [b EXCEPT ![q] = x] \in Buffer
         /\ ByteSum([b EXCEPT ![q] = x], 0, MaxId)
              = ByteSum(b, 0, MaxId) + ChunkSize[x]
<1> DEFINE d == [b EXCEPT ![q] = x]
<1>1. d \in Buffer /\ ChunkSize[x] \in Nat /\ x # None
  BY ReceiverConstants DEF Buffer
<1>2. d[q] = x /\ \A p \in PacketIds : p # q => d[p] = b[p]
  BY DEF Buffer
<1>3. SizeOf(d[q]) = SizeOf(b[q]) + ChunkSize[x]
  BY <1>1, <1>2 DEF SizeOf
<1> HIDE DEF d
<1>4. ByteSum(d, 0, MaxId) = ByteSum(b, 0, MaxId) + ChunkSize[x]
  BY <1>1, <1>2, <1>3, SameOperators, ReceiverConstants, Assembler!SumAdds
<1> QED
  BY <1>1, <1>4 DEF d

(* A buffer that holds some of the chunks of an image.                     *)
PartOf(b, c, fmt) ==
  /\ b \in Buffer
  /\ \A p \in PacketIds : b[p] # None =>
       p \in 1 .. NChunks(fmt) /\ b[p] = <<c, fmt, p>>

FullImage(c, fmt) ==
  [p \in PacketIds |-> IF p \in 1 .. NChunks(fmt) THEN <<c, fmt, p>> ELSE None]

(* The ids of the packets of a frame are packet ids.                       *)
LEMMA ImageIds ==
  ASSUME NEW fmt \in Formats
  PROVE  /\ NChunks(fmt) \in Nat \ {0} /\ NChunks(fmt) + 1 \in PacketIds
         /\ NChunks(fmt) \in PacketIds /\ NChunks(fmt) < MaxId
         /\ MaxId \in PacketIds /\ MaxId \in Nat
         /\ \A p \in 1 .. NChunks(fmt) : p \in PacketIds /\ p \in Nat
BY ChunkCount, PacketIdsAssumption DEF PacketIds

(* The chunks of an image are as many bytes as the format has.             *)
LEMMA FullBytes ==
  ASSUME NEW c \in Contents, NEW fmt \in Formats
  PROVE  /\ FullImage(c, fmt) \in Buffer
         /\ ByteSum(FullImage(c, fmt), 1, NChunks(fmt)) = FrameLength[fmt]
         /\ ByteSum(FullImage(c, fmt), 1, MaxId) = FrameLength[fmt]
<1> DEFINE n == NChunks(fmt)
           b == FullImage(c, fmt)
           T == {k \in Nat : k < n => ByteSum(b, 1, k) = k * ChunkLen}
<1>1. /\ n \in Nat \ {0} /\ n + 1 \in PacketIds /\ n \in PacketIds /\ n < MaxId
      /\ MaxId \in PacketIds /\ MaxId \in Nat
      /\ \A p \in 1 .. n : p \in PacketIds /\ p \in Nat
      /\ ChunkLen \in Nat \ {0} /\ FrameLength[fmt] \in Nat
  BY ImageIds, ChunkAssumption
<1>2. \A p \in 1 .. n : <<c, fmt, p>> \in Chunks
  BY DEF Chunks
<1>3. b \in Buffer /\ \A p \in PacketIds :
                        b[p] = IF p \in 1 .. n THEN <<c, fmt, p>> ELSE None
  BY <1>2 DEF FullImage, Buffer
<1>4. ASSUME NEW p \in 1 .. n
      PROVE  SizeOf(b[p]) = IF p < n THEN ChunkLen
                            ELSE FrameLength[fmt] - (n - 1) * ChunkLen
  <2>1. PICK x \in Chunks : x = <<c, fmt, p>>
    BY <1>2
  <2>2. b[p] = x /\ x # None /\ x[2] = fmt /\ x[3] = p
    BY <1>1, <1>3, <2>1, StreamNoneAssumption
  <2>3. SizeOf(b[p]) = ChunkSize[x]
    BY <2>2 DEF SizeOf
  <2>4. ChunkSize[x] = IF x[3] < NChunks(x[2]) THEN ChunkLen
                       ELSE FrameLength[x[2]] - (NChunks(x[2]) - 1) * ChunkLen
    BY DEF ChunkSize
  <2> QED
    BY <2>2, <2>3, <2>4
<1> HIDE DEF n, b
<1>5. 0 \in T
  <2>1. \A lo, k \in Nat : k < lo => ByteSum(b, lo, k) = 0
    BY BytesStep
  <2>2. ByteSum(b, 1, 0) = 0
    BY <2>1
  <2>3. 0 * ChunkLen = 0
    BY <1>1
  <2> QED
    BY <2>2, <2>3
<1>6. ASSUME NEW k \in Nat, k \in T PROVE k + 1 \in T
  <2> SUFFICES ASSUME k + 1 < n PROVE ByteSum(b, 1, k + 1) = (k + 1) * ChunkLen
    OBVIOUS
  <2>1. k + 1 \in 1 .. n /\ k < n
    BY <1>1
  <2>2. SizeOf(b[k + 1]) = ChunkLen
    BY <1>4, <2>1
  <2>3. ByteSum(b, 1, k + 1) = ChunkLen + k * ChunkLen
    BY <1>6, <2>1, <2>2, BytesStep
  <2>4. (k + 1) * ChunkLen = ChunkLen + k * ChunkLen
    BY <1>1
  <2> QED
    BY <2>3, <2>4
<1> HIDE DEF T
<1>7. \A k \in Nat : k \in T
  BY <1>5, <1>6, NatSetInduction
<1>8. ByteSum(b, 1, n) = FrameLength[fmt]
  <2> DEFINE m == n - 1
  <2>1. m \in Nat /\ m < n /\ m + 1 = n /\ n \in 1 .. n
    BY <1>1
  <2>2. SizeOf(b[n]) = FrameLength[fmt] - m * ChunkLen
    BY <1>1, <1>4, <2>1
  <2> HIDE DEF m
  <2>3. ByteSum(b, 1, m) = m * ChunkLen
    BY <1>7, <2>1 DEF T
  <2>4. ByteSum(b, 1, m + 1) = SizeOf(b[m + 1]) + ByteSum(b, 1, m)
    BY <2>1, BytesStep
  <2> DEFINE x == m * ChunkLen
  <2>5. x \in Int /\ ByteSum(b, 1, n) = FrameLength[fmt] - x + x
    BY <1>1, <2>1, <2>2, <2>3, <2>4
  <2> HIDE DEF x
  <2> QED
    BY <1>1, <2>5
<1>9. ByteSum(b, 1, MaxId) = ByteSum(b, 1, n) + ByteSum(b, n + 1, MaxId)
  BY <1>1, <1>3, BytesSplit
<1>10. ByteSum(b, n + 1, MaxId) = 0
  <2>1. ASSUME NEW p \in PacketIds, p >= n + 1 PROVE b[p] = None
    <3>1. p \in Nat /\ p \notin 1 .. n
      BY <1>1, <2>1 DEF PacketIds
    <3> QED
      BY <1>3, <3>1
  <2> QED
    BY <1>1, <1>3, <2>1, BytesNone
<1> QED
  BY <1>1, <1>3, <1>8, <1>9, <1>10 DEF n, b

(* Some of the chunks are no more bytes, and all of them as many.          *)
LEMMA PartBytes ==
  ASSUME NEW c \in Contents, NEW fmt \in Formats, NEW b, PartOf(b, c, fmt)
  PROVE  /\ \A hi \in PacketIds : ByteSum(b, 1, hi) <= FrameLength[fmt]
         /\ (\A p \in 1 .. NChunks(fmt) : b[p] # None)
              => ByteSum(b, 1, NChunks(fmt)) = FrameLength[fmt]
<1> DEFINE full == FullImage(c, fmt)
<1>1. /\ b \in Buffer /\ full \in Buffer
      /\ \A p \in PacketIds : b[p] = None \/ b[p] = full[p]
  BY FullBytes DEF PartOf, FullImage
<1>2. MaxId \in PacketIds /\ MaxId \in Nat /\ FrameLength[fmt] \in Nat
  BY ImageIds, ChunkAssumption
<1>3. ByteSum(full, 1, MaxId) = FrameLength[fmt]
  BY FullBytes
<1>4. ASSUME NEW hi \in PacketIds
      PROVE  ByteSum(b, 1, hi) <= FrameLength[fmt]
  <2>1. ByteSum(b, 1, MaxId) <= FrameLength[fmt]
    BY <1>1, <1>2, <1>3, BytesMore
  <2>2. hi \in Nat /\ hi <= MaxId /\ 1 <= hi + 1
    BY <1>2 DEF PacketIds
  <2>3. ByteSum(b, 1, MaxId) = ByteSum(b, 1, hi) + ByteSum(b, hi + 1, MaxId)
    BY <1>1, <1>2, <2>2, BytesSplit
  <2>4. /\ ByteSum(b, 1, hi) \in Nat /\ ByteSum(b, hi + 1, MaxId) \in Nat
    <3>1. hi + 1 \in Nat
      BY <2>2
    <3> QED
      BY <1>1, <1>2, <3>1, BytesType
  <2> QED
    BY <1>2, <2>1, <2>3, <2>4
<1>5. ASSUME \A p \in 1 .. NChunks(fmt) : b[p] # None
      PROVE  ByteSum(b, 1, NChunks(fmt)) = FrameLength[fmt]
  <2>1. \A p \in PacketIds : p >= 1 /\ p <= NChunks(fmt) => b[p] = full[p]
    <3>1. \A p \in PacketIds : p \in Nat
      BY <1>2 DEF PacketIds
    <3>2. NChunks(fmt) \in Nat
      BY ImageIds
    <3> QED
      BY <1>1, <1>5, <3>1, <3>2
  <2>2. ByteSum(b, 1, NChunks(fmt)) = ByteSum(full, 1, NChunks(fmt))
    BY <1>1, <2>1, BytesSame, ImageIds
  <2> QED
    BY <2>2, FullBytes
<1> QED
  BY <1>4, <1>5

---------------------------------------------------------------------------
(* A frame that holds chunks of one image goes on                          *)

(* Frame s holds the chunks b of an image, and its end if that came.       *)
Shows(s, b, c, fmt) ==
  /\ s \in PartialFrame /\ PartOf(b, c, fmt)
  /\ s.packetId <= NChunks(fmt)
  /\ s.offset = ByteSum(b, 1, s.packetId)
  /\ s.len = FrameLength[fmt] /\ s.trailer \in {None, NChunks(fmt) + 1}
  /\ \A p \in PacketIds : s.pending[p] = IF p > s.packetId THEN b[p] ELSE None
  /\ \A p \in 1 .. s.packetId : b[p] # None

(* Such a frame overflows nowhere: its run ends within the image, which is *)
(* full when the run ends at the trailer.                                  *)
LEMMA ShownFits ==
  ASSUME NEW c \in Contents, NEW fmt \in Formats, NEW b, NEW s,
         Shows(s, b, c, fmt)
  PROVE  /\ s.offset + PendingBytes(s) <= s.len
         /\ Fits(s) /\ RunEnd(s) < MaxId
         /\ s.trailer = RunEnd(s) + 1 => FilledTo(s) = s.len
<1> DEFINE n == NChunks(fmt)
           k == s.packetId
           e == RunEnd(s)
<1>1. /\ n \in Nat /\ n \in PacketIds /\ n < MaxId /\ MaxId \in Nat
      /\ MaxId \in PacketIds /\ \A p \in PacketIds : p \in Nat /\ p <= MaxId
  BY ImageIds DEF PacketIds
<1>2. /\ k \in PacketIds /\ k <= n /\ s.pending \in Buffer /\ b \in Buffer
      /\ s.len = FrameLength[fmt] /\ s.len \in Nat
      /\ s.offset = ByteSum(b, 1, k)
      /\ \A p \in PacketIds : s.pending[p] = IF p > k THEN b[p] ELSE None
      /\ \A p \in 1 .. k : b[p] # None
      /\ \A p \in PacketIds : b[p] # None => p \in 1 .. n
  BY ChunkAssumption DEF Shows, PartOf, PartialFrame
<1>3. k \in Nat /\ k <= MaxId /\ k + 1 \in Nat
  <2> HIDE DEF k, n, e
  <2>1. k \in Nat /\ k <= MaxId
    BY <1>1, <1>2
  <2> QED
    BY <2>1
<1>4. e \in k .. MaxId /\ IsRunEnd(s, e)
  BY SameOperators, ReceiverConstants, Assembler!RunEndExists DEF Shows
<1> HIDE DEF n, k, e
<1>5. /\ e \in Nat /\ k <= e /\ e <= n /\ e \in PacketIds
      /\ \A p \in (k + 1) .. e : p \in PacketIds /\ s.pending[p] # None
  <2>1. e \in Nat /\ k <= e /\ e <= MaxId /\ e \in PacketIds
    BY <1>1, <1>3, <1>4 DEF PacketIds
  <2>2. \A p \in (k + 1) .. e : p \in PacketIds /\ s.pending[p] # None
    BY <1>1, <1>3, <1>4, <2>1 DEF IsRunEnd, PacketIds, k
  <2>3. e > k => e <= n
    <3> SUFFICES ASSUME e > k PROVE e <= n
      OBVIOUS
    <3>1. e \in (k + 1) .. e
      BY <1>3, <2>1
    <3>2. b[e] # None
      BY <1>2, <2>1, <2>2, <3>1
    <3> QED
      BY <1>1, <1>2, <2>1, <3>2
  <2> QED
    BY <1>1, <1>2, <1>3, <2>1, <2>2, <2>3
<1>6. FilledTo(s) = ByteSum(b, 1, e)
  <2>1. \A p \in PacketIds : p >= k + 1 /\ p <= e => s.pending[p] = b[p]
    BY <1>1, <1>2, <1>3
  <2>2. ByteSum(s.pending, k + 1, e) = ByteSum(b, k + 1, e)
    BY <1>2, <1>3, <1>5, <2>1, BytesSame
  <2>3. ByteSum(b, 1, e) = ByteSum(b, 1, k) + ByteSum(b, k + 1, e)
    BY <1>2, <1>3, <1>5, BytesSplit
  <2> QED
    BY <1>2, <2>2, <2>3 DEF FilledTo, k, e
<1>7. ByteSum(b, 1, e) \in Nat /\ ByteSum(b, 1, e) <= s.len
  BY <1>2, <1>5, BytesType, PartBytes DEF Shows
<1>8. Fits(s)
  BY <1>2, <1>6, <1>7 DEF Fits
<1>9. RunEnd(s) < MaxId
  BY <1>1, <1>5 DEF e
<1>10. ASSUME s.trailer = RunEnd(s) + 1 PROVE FilledTo(s) = s.len
  <2>1. e = n
    <3>1. s.trailer = e + 1 /\ e + 1 \in Nat /\ s.trailer \in {None, n + 1}
      BY <1>5, <1>10 DEF Shows, e, n
    <3> QED
      BY <1>1, <1>5, <3>1, SinkNoneAssumption
  <2>2. ASSUME NEW p \in 1 .. n PROVE b[p] # None
    <3>1. p \in PacketIds /\ p \in Nat
      BY <1>1 DEF PacketIds
    <3>2. p \in 1 .. k \/ p \in (k + 1) .. e
      BY <1>3, <1>5, <2>1, <3>1
    <3> QED
      BY <1>2, <1>5, <3>1, <3>2
  <2>3. ByteSum(b, 1, n) = FrameLength[fmt]
    BY <2>2, PartBytes DEF Shows, n
  <2> QED
    BY <1>2, <1>6, <2>1, <2>3
<1>11. s.offset + PendingBytes(s) <= s.len
  <2>1. ByteSum(s.pending, 0, MaxId)
          = ByteSum(s.pending, 0, k) + ByteSum(s.pending, k + 1, MaxId)
    BY <1>1, <1>2, <1>3, BytesSplit
  <2>2. ByteSum(s.pending, 0, k) = 0
    <3>1. \A p \in PacketIds : p >= 0 /\ p <= k => s.pending[p] = None
      BY <1>1, <1>2, <1>3
    <3> QED
      BY <1>2, <3>1, BytesNone
  <2>3. ByteSum(s.pending, k + 1, MaxId) = ByteSum(b, k + 1, MaxId)
    <3>1. \A p \in PacketIds : p >= k + 1 /\ p <= MaxId => s.pending[p] = b[p]
      BY <1>1, <1>2, <1>3
    <3> QED
      BY <1>1, <1>2, <1>3, <3>1, BytesSame
  <2>4. ByteSum(b, 1, MaxId) = ByteSum(b, 1, k) + ByteSum(b, k + 1, MaxId)
    BY <1>1, <1>2, <1>3, BytesSplit
  <2>5. ByteSum(b, 1, MaxId) <= s.len
    BY <1>1, <1>2, PartBytes DEF Shows
  <2>6. ByteSum(b, k + 1, MaxId) \in Nat /\ ByteSum(b, 1, k) \in Nat
    BY <1>1, <1>2, <1>3, BytesType
  <2>7. PendingBytes(s) = ByteSum(b, k + 1, MaxId)
    BY <2>1, <2>2, <2>3, <2>6 DEF PendingBytes
  <2> QED
    BY <1>2, <2>4, <2>5, <2>7
<1> QED
  BY <1>8, <1>9, <1>10, <1>11

(* reconcile_frame then keeps the frame or emits it.                       *)
LEMMA ShownReconciles ==
  ASSUME NEW c \in Contents, NEW fmt \in Formats, NEW b, NEW s, NEW f,
         Shows(s, b, c, fmt), Reconcile(f, s)
  PROVE  \E g : (Keep(f, g) /\ g # None) \/ Deliver(f, g)
<1>1. /\ Fits(s) /\ RunEnd(s) < MaxId
      /\ s.trailer = RunEnd(s) + 1 => FilledTo(s) = s.len
  BY ShownFits
<1>2. RunEnd(s) # MaxId
  <2>1. MaxId \in Nat
    BY ImageIds
  <2> QED
    BY <1>1, <2>1
<1>3. /\ Flushed(s).trailer = s.trailer /\ Flushed(s).packetId = RunEnd(s)
      /\ Flushed(s).offset = FilledTo(s) /\ Flushed(s).len = s.len
  BY DEF Flushed
<1>4. Flushed(s) # None
  <2>1. Assembler!Flushed(s) \in PartialFrame
    <3>1. Assembler!FilledTo(s) = FilledTo(s)
      BY SameOperators DEF Assembler!FilledTo, FilledTo
    <3>2. Assembler!Fits(s)
      BY <1>1, <3>1 DEF Assembler!Fits, Fits
    <3> QED
      BY <3>2, SameOperators, ReceiverConstants, Assembler!FlushedFacts DEF Shows
  <2>2. Assembler!Flushed(s) = Flushed(s)
    BY SameOperators DEF Assembler!Flushed, Flushed, Assembler!FilledTo, FilledTo
  <2> QED
    BY <2>1, <2>2, StreamNoneAssumption
<1>5. Keep(f, Flushed(s)) \/ Deliver(f, Flushed(s))
  BY <1>1, <1>2, <1>3 DEF Reconcile
<1> QED
  BY <1>4, <1>5

(* What is seen under an id when the packets A of a buffer have arrived.   *)
GotOf(A, c, fmt) ==
  [p \in PacketIds |-> IF p \in A /\ p <= NChunks(fmt) THEN <<c, fmt, p>> ELSE None]

Saw(w, A, c, fmt) ==
  /\ w.lead = 0 /\ w.len = FrameLength[fmt] /\ w.got = GotOf(A, c, fmt)
  /\ w.end = IF NChunks(fmt) + 1 \in A THEN NChunks(fmt) + 1 ELSE None

(* An unfinished frame then shows these chunks, and not all have arrived.  *)
LEMMA SawShows ==
  ASSUME NEW c \in Contents, NEW fmt \in Formats,
         NEW A \in SUBSET (1 .. NChunks(fmt) + 1),
         NEW s \in PartialFrame, NEW w, Saw(w, A, c, fmt),
         Holds(s, w), IsReconciled(s),
         s.offset = ByteSum(w.got, w.lead + 1, s.packetId)
  PROVE  Shows(s, GotOf(A, c, fmt), c, fmt) /\ A # 1 .. NChunks(fmt) + 1
<1> DEFINE n == NChunks(fmt)
           k == s.packetId
           b == GotOf(A, c, fmt)
<1>1. /\ n \in Nat \ {0} /\ n \in PacketIds /\ n < MaxId /\ MaxId \in Nat
      /\ \A p \in PacketIds : p \in Nat
      /\ \A p \in 1 .. n : p \in PacketIds
      /\ n + 1 \in PacketIds
  BY ImageIds DEF PacketIds
<1>2. /\ k \in PacketIds /\ s.data \in Seq(Chunks) /\ Len(s.data) = k
      /\ \A i \in 1 .. k : s.data[i] = b[i]
      /\ \A p \in PacketIds : s.pending[p] = IF p > k THEN b[p] ELSE None
      /\ s.len = FrameLength[fmt] /\ s.offset = ByteSum(b, 1, k)
      /\ s.trailer = IF n + 1 \in A THEN n + 1 ELSE None
  <2>1. Len(s.data) \in Nat /\ s.data \in Seq(Chunks) /\ k \in PacketIds
    BY DEF PartialFrame
  <2> QED
    BY <2>1 DEF Holds, Saw
<1> HIDE DEF n, k
<1>3. \A p \in PacketIds : b[p] = IF p \in A /\ p <= n THEN <<c, fmt, p>> ELSE None
  BY DEF GotOf, n
<1>4. \A p \in 1 .. n : <<c, fmt, p>> \in Chunks /\ <<c, fmt, p>> # None
  BY StreamNoneAssumption DEF Chunks, n
<1>5. \A p \in PacketIds : p \in A /\ p <= n => p \in 1 .. n
  BY <1>1 DEF n
<1>6. PartOf(b, c, fmt)
  <2>1. \A p \in PacketIds : b[p] \in Chunks \cup {None}
    BY <1>3, <1>4, <1>5
  <2>2. b \in Buffer
    BY <2>1 DEF GotOf, Buffer
  <2> QED
    BY <1>3, <1>5, <2>2 DEF PartOf, n
<1>7. k \in Nat /\ \A p \in 1 .. k : p \in PacketIds /\ b[p] # None
  <2>1. k \in Nat
    BY <1>1, <1>2
  <2>2. \A p \in 1 .. k : b[p] \in Chunks
    BY <1>2, <2>1
  <2>3. \A p \in 1 .. k : p \in PacketIds
    BY <1>1, <1>2, <2>1 DEF PacketIds
  <2> QED
    BY <2>1, <2>2, <2>3, StreamNoneAssumption
<1>8. k <= n
  <2>1. CASE k = 0
    BY <1>1, <2>1
  <2>2. CASE k # 0
    <3>1. k \in 1 .. k
      BY <1>7, <2>2
    <3> QED
      BY <1>3, <1>7, <3>1
  <2> QED
    BY <2>1, <2>2
<1>9. Shows(s, b, c, fmt)
  BY <1>2, <1>6, <1>7, <1>8 DEF Shows, n, k
<1>10. A # 1 .. n + 1
  <2> SUFFICES ASSUME A = 1 .. n + 1 PROVE FALSE
    OBVIOUS
  <2>1. CASE k = n
    <3>1. n + 1 \in A
      BY <1>1
    <3>2. s.trailer = k + 1
      BY <1>2, <2>1, <3>1
    <3> QED
      BY <1>1, <2>1, <3>2 DEF IsReconciled, k
  <2>2. CASE k # n
    <3>1. k < n /\ k + 1 \in 1 .. n
      BY <1>1, <1>7, <1>8, <2>2
    <3>2. b[k + 1] # None
      <4>1. k + 1 \in PacketIds /\ k + 1 \in A /\ k + 1 <= n
        BY <1>1, <3>1
      <4> QED
        BY <1>3, <1>4, <3>1, <4>1
    <3>3. s.pending[k + 1] = b[k + 1]
      <4>1. k + 1 \in PacketIds /\ k + 1 > k
        BY <1>1, <1>7, <3>1
      <4> QED
        BY <1>2, <4>1
    <3>4. k < MaxId
      BY <1>1, <1>7, <3>1
    <3> QED
      BY <3>2, <3>3, <3>4 DEF IsReconciled, k
  <2> QED
    BY <2>1, <2>2
<1> QED
  BY <1>9, <1>10 DEF n

---------------------------------------------------------------------------
(* Networks that repeat nothing                                            *)

(* Which packets of a buffer are under way, wanted, and there.             *)
UnderWay(c, n) == \E q \in network : q.of = c /\ q.id = n

Needed(c) == 1 .. NChunks(sent[c].format) + 1

Arrived(c) == {n \in Needed(c) : n < sent[c].packets /\ ~UnderWay(c, n)}

(* The frame of a buffer has what arrived of it.                           *)
Reflects(c) ==
  /\ Live(sent[c].id)
  /\ Saw(wire[sent[c].id], Arrived(c), c, sent[c].format)

(* It is then not complete, and goes on with the next packet.              *)
LEMMA ReflectedShows ==
  ASSUME KnownInv, NEW c \in Contents, Begun(c), Reflects(c)
  PROVE  LET s == frames[sent[c].id]
             b == GotOf(Arrived(c), c, sent[c].format)
         IN  /\ Shows(s, b, c, sent[c].format) /\ Arrived(c) # Needed(c)
             /\ wire[sent[c].id] \in Wire /\ s # None
             /\ s.trailer = wire[sent[c].id].end
             /\ sent[c].id \in Contents /\ sent[c].format \in Formats
<1> DEFINE f == sent[c].id
<1>1. f \in Contents /\ sent[c].format \in Formats
  <2>1. f \in Nat \ {0} /\ f <= c
    BY DEF KnownInv, BaseInv, SinkInv, SinkTypes, SentInv, Begun
  <2> QED
    BY <2>1, NFramesAssumption DEF KnownInv, BaseInv, SinkInv, SentInv, Contents
<1>2. /\ frames[f] \in PartialFrame /\ wire[f] \in Wire /\ frames[f] # None
      /\ Holds(frames[f], wire[f]) /\ IsReconciled(frames[f]) /\ Filled(f)
  BY <1>1 DEF KnownInv, ReceiverInv, TypeOK, StateOK, HistoryOK, Reflects, Live,
              HoldsWhatArrived, Reconciled
<1>3. Saw(wire[f], Arrived(c), c, sent[c].format)
  BY DEF Reflects
<1>4. Arrived(c) \in SUBSET (1 .. NChunks(sent[c].format) + 1)
  BY DEF Arrived, Needed
<1>5. frames[f].offset =
        ByteSum(wire[f].got, wire[f].lead + 1, frames[f].packetId)
  BY <1>2 DEF Filled
<1>6. /\ Shows(frames[f], GotOf(Arrived(c), c, sent[c].format), c, sent[c].format)
      /\ Arrived(c) # 1 .. NChunks(sent[c].format) + 1
  BY <1>1, <1>2, <1>3, <1>4, <1>5, SawShows
<1> QED
  BY <1>1, <1>2, <1>6 DEF Needed, Holds

(* A payload that is wanted is taken, ...                                  *)
LEMMA PayloadGoesOn ==
  ASSUME KnownInv, NEW q \in network, Arrives(q), q.type = "payload",
         Reflects(q.of), q.id \notin Arrived(q.of)
  PROVE  \E g : (Keep(q.frame, g) /\ g # None) \/ Deliver(q.frame, g)
<1> DEFINE c == q.of
           fmt == sent[c].format
           f == q.frame
           n == NChunks(fmt)
           s == frames[f]
           b == GotOf(Arrived(c), c, fmt)
           t == [s EXCEPT !.pending[q.id] = q.body]
           d == [b EXCEPT ![q.id] = q.body]
<1>1. /\ Ingest(q) /\ c \in Contents /\ Begun(c) /\ f = sent[c].id
      /\ fmt \in Formats /\ q.id \in 1 .. n /\ q.id \in PacketIds
      /\ q.body = <<c, fmt, q.id>> /\ q.body \in Chunks
  BY ArrivingPacket DEF KnownInv
<1>2. Shows(s, b, c, fmt) /\ s # None
  BY <1>1, ReflectedShows
<1>3. /\ n \in Nat \ {0} /\ MaxId \in Nat /\ \A p \in PacketIds : p \in Nat
  BY <1>1, ImageIds DEF PacketIds
<1>4. q.body # None /\ ChunkSize[q.body] > 0 /\ ChunkSize[q.body] \in Nat
  BY <1>1, ChunkSizes, StreamNoneAssumption
<1>5. b[q.id] = None
  BY <1>1 DEF GotOf
<1> HIDE DEF n, fmt, c, f, b
<1>6. /\ s \in PartialFrame /\ PartOf(b, c, fmt) /\ b \in Buffer
      /\ s.packetId \in PacketIds /\ s.packetId \in Nat /\ s.packetId <= n
      /\ s.pending \in Buffer /\ s.offset = ByteSum(b, 1, s.packetId)
      /\ s.len = FrameLength[fmt] /\ s.trailer \in {None, n + 1}
      /\ \A p \in PacketIds :
           s.pending[p] = IF p > s.packetId THEN b[p] ELSE None
      /\ \A p \in 1 .. s.packetId : b[p] # None
  BY <1>2, <1>3 DEF Shows, PartOf, PartialFrame, n
<1>7. q.id \in Nat /\ q.id > s.packetId /\ s.pending[q.id] = None
  <2>1. q.id \in Nat /\ q.id >= 1
    BY <1>1, <1>3
  <2>2. q.id \notin 1 .. s.packetId
    BY <1>5, <1>6
  <2> QED
    BY <1>1, <1>5, <1>6, <2>1, <2>2
<1>8. ~Repeated(s, q.id) /\ ~PastTrailer(s, q.id)
  <2>1. q.id <= n /\ q.id < n + 1
    BY <1>1, <1>3
  <2> QED
    BY <1>3, <1>6, <1>7, <2>1, SinkNoneAssumption DEF Repeated, PastTrailer
<1>9. /\ d \in Buffer /\ t.pending \in Buffer
      /\ d[q.id] = q.body /\ \A p \in PacketIds : p # q.id => d[p] = b[p]
      /\ t.pending = [s.pending EXCEPT ![q.id] = q.body]
      /\ t.packetId = s.packetId /\ t.offset = s.offset /\ t.len = s.len
      /\ t.trailer = s.trailer /\ t \in PartialFrame
  <2>1. /\ t.pending = [s.pending EXCEPT ![q.id] = q.body]
        /\ t.packetId = s.packetId /\ t.offset = s.offset /\ t.len = s.len
        /\ t.trailer = s.trailer
    BY <1>6 DEF PartialFrame
  <2>2. d \in Buffer /\ [s.pending EXCEPT ![q.id] = q.body] \in Buffer
    BY <1>1, <1>6 DEF Buffer
  <2>3. t \in PartialFrame
    BY <1>6, <2>1, <2>2 DEF PartialFrame
  <2>4. d[q.id] = q.body /\ \A p \in PacketIds : p # q.id => d[p] = b[p]
    BY <1>1, <1>6 DEF Buffer
  <2> QED
    BY <2>1, <2>2, <2>3, <2>4
<1> HIDE DEF d, t
<1>10. Shows(t, d, c, fmt)
  <2>1. PartOf(d, c, fmt)
    BY <1>1, <1>6, <1>9 DEF PartOf, n
  <2>2. ByteSum(d, 1, s.packetId) = ByteSum(b, 1, s.packetId)
    <3>1. \A p \in PacketIds : p >= 1 /\ p <= s.packetId => d[p] = b[p]
      BY <1>6, <1>7, <1>9
    <3> QED
      BY <1>6, <1>9, <3>1, BytesSame
  <2>3. ASSUME NEW p \in PacketIds
        PROVE  t.pending[p] = IF p > t.packetId THEN d[p] ELSE None
    <3>1. CASE p = q.id
      BY <1>1, <1>6, <1>7, <1>9, <3>1 DEF Buffer
    <3>2. CASE p # q.id
      BY <1>1, <1>6, <1>9, <3>2 DEF Buffer
    <3> QED
      BY <3>1, <3>2
  <2>4. \A p \in 1 .. t.packetId : d[p] # None
    <3>1. \A p \in 1 .. t.packetId : p \in PacketIds
      BY <1>3, <1>6, <1>9 DEF PacketIds
    <3> QED
      BY <1>4, <1>6, <1>9, <3>1
  <2> QED
    BY <1>6, <1>9, <2>1, <2>2, <2>3, <2>4 DEF Shows, n
<1>11. ~PendingOverflow(s, q.body)
  <2>1. t.offset + PendingBytes(t) <= t.len
    BY <1>1, <1>10, ShownFits DEF c, fmt
  <2>2. PendingBytes(t) = PendingBytes(s) + ChunkSize[q.body]
    BY <1>1, <1>6, <1>7, <1>9, BytesAdd DEF PendingBytes
  <2>3. PendingBytes(s) \in Nat
    BY <1>1, <1>6, BytesType, ImageIds DEF PendingBytes, fmt
  <2>4. s.offset \in Nat /\ s.len \in Nat
    BY <1>6 DEF PartialFrame
  <2> QED
    BY <1>4, <1>9, <2>1, <2>2, <2>3, <2>4 DEF PendingOverflow
<1>12. Reconcile(f, t)
  BY <1>1, <1>2, <1>4, <1>8, <1>11
  DEF Ingest, IngestPayload, Orphan, Live, f, t
<1> QED
  BY <1>1, <1>10, <1>12, ShownReconciles DEF f, c, fmt

(* ... and so is its trailer.                                              *)
LEMMA TrailerGoesOn ==
  ASSUME KnownInv, NEW q \in network, Arrives(q), q.type = "trailer",
         Reflects(q.of), q.id \notin Arrived(q.of)
  PROVE  \E g : (Keep(q.frame, g) /\ g # None) \/ Deliver(q.frame, g)
<1> DEFINE c == q.of
           fmt == sent[c].format
           f == q.frame
           n == NChunks(fmt)
           s == frames[f]
           b == GotOf(Arrived(c), c, fmt)
           t == [s EXCEPT !.trailer = q.id]
<1>1. /\ Ingest(q) /\ c \in Contents /\ Begun(c) /\ f = sent[c].id
      /\ fmt \in Formats /\ q.id = n + 1 /\ q.id \in PacketIds
  BY ArrivingPacket DEF KnownInv
<1>2. Shows(s, b, c, fmt) /\ s # None /\ s.trailer = wire[f].end
  BY <1>1, ReflectedShows
<1>3. s.trailer = None
  BY <1>1, <1>2 DEF Reflects, Saw
<1>4. n \in Nat \ {0}
  BY <1>1, ImageIds
<1> HIDE DEF n, fmt, c, f, b
<1>5. /\ s \in PartialFrame /\ s.packetId \in PacketIds /\ s.packetId <= n
  BY <1>2 DEF Shows, PartialFrame, n
<1>6. s.packetId \in Nat
  BY <1>5, PacketIdsAssumption DEF PacketIds
<1>7. /\ t \in PartialFrame /\ t.trailer = n + 1 /\ t.packetId = s.packetId
      /\ t.len = s.len /\ t.offset = s.offset /\ t.pending = s.pending
  <2>1. /\ t.trailer = q.id /\ t.packetId = s.packetId
        /\ t.len = s.len /\ t.offset = s.offset /\ t.pending = s.pending
    BY <1>5 DEF PartialFrame
  <2>2. t \in PartialFrame
    BY <1>1, <1>5, <2>1 DEF PartialFrame
  <2> QED
    BY <1>1, <2>1, <2>2
<1> HIDE DEF t
<1>8. Shows(t, b, c, fmt)
  BY <1>2, <1>7 DEF Shows, n
<1>9. Reconcile(f, t)
  <2>1. q.id > s.packetId
    BY <1>1, <1>4, <1>5, <1>6
  <2> QED
    BY <1>1, <1>2, <1>3, <1>4, <1>6, <2>1, SinkNoneAssumption
    DEF Ingest, IngestTrailer, Orphan, Live, f, t
<1> QED
  BY <1>1, <1>8, <1>9, ShownReconciles DEF f, c, fmt

(* It is then seen.                                                        *)
LEMMA ArrivalIsSeen ==
  ASSUME KnownInv, NEW q \in network, Arrives(q), q.type # "leader",
         Reflects(q.of), q.id \notin Arrived(q.of)
  PROVE  Saw(wire'[q.frame], Arrived(q.of) \cup {q.id}, q.of, sent[q.of].format)
<1> DEFINE c == q.of
           fmt == sent[c].format
           f == q.frame
           n == NChunks(fmt)
           A == Arrived(c)
           w == wire[f]
<1>1. /\ Ingest(q) /\ c \in Contents /\ Begun(c) /\ f = sent[c].id
      /\ f \in Contents /\ fmt \in Formats /\ q.id \in PacketIds
      /\ \/ /\ q.type = "payload" /\ q.id \in 1 .. n
            /\ q.body = <<c, fmt, q.id>> /\ q.body \in Chunks
         \/ q.type = "trailer" /\ q.id = n + 1
  BY ArrivingPacket DEF KnownInv
<1>2. w \in Wire /\ Live(f) /\ Saw(w, A, c, fmt)
  BY <1>1, ReflectedShows DEF Reflects
<1>3. n \in Nat \ {0} /\ \A p \in PacketIds : p \in Nat
  BY <1>1, ImageIds DEF PacketIds
<1> HIDE DEF n, A, w, fmt, c, f
<1>4. CASE q.type = "payload"
  <2>1. q.id \in 1 .. n /\ q.body = <<c, fmt, q.id>> /\ q.body \in Chunks
    BY <1>1, <1>4
  <2>2. w.got[q.id] = None /\ w.lead = 0
    BY <1>1, <1>2 DEF Saw, GotOf, A, c
  <2>3. wire'[f] = IF ChunkSize[q.body] > 0 /\ q.id > w.lead /\ w.got[q.id] = None
                   THEN [w EXCEPT !.got[q.id] = q.body] ELSE w
    BY <1>1, <1>2, <1>4, PayloadSeen DEF KnownInv, f, w
  <2>4. wire'[f] = [w EXCEPT !.got[q.id] = q.body]
    BY <1>3, <2>1, <2>2, <2>3, ChunkSizes
  <2>5. /\ wire'[f].lead = w.lead /\ wire'[f].len = w.len /\ wire'[f].end = w.end
        /\ wire'[f].got = [w.got EXCEPT ![q.id] = q.body]
    BY <1>2, <2>4 DEF Wire
  <2>6. wire'[f].got = GotOf(A \cup {q.id}, c, fmt)
    <3> DEFINE G == [w.got EXCEPT ![q.id] = q.body]
               H == GotOf(A \cup {q.id}, c, fmt)
    <3>1. DOMAIN G = PacketIds /\ DOMAIN H = PacketIds
      BY <1>2 DEF Saw, GotOf
    <3>2. ASSUME NEW p \in PacketIds PROVE G[p] = H[p]
      <4>1. G[p] = IF p = q.id THEN q.body ELSE w.got[p]
        BY <1>2, <3>2 DEF Saw, GotOf
      <4>2. q.id <= n
        BY <1>3, <2>1
      <4> QED
        BY <1>2, <2>1, <3>2, <4>1, <4>2 DEF Saw, GotOf, n
    <3>3. G = H
      <4>1. G = [p \in PacketIds |-> G[p]] /\ H = [p \in PacketIds |-> H[p]]
        BY <1>2 DEF Saw, GotOf
      <4> HIDE DEF G, H
      <4> QED
        BY <3>2, <4>1
    <3> QED
      BY <2>5, <3>3
  <2>7. n + 1 \in A \cup {q.id} <=> n + 1 \in A
    BY <1>3, <2>1
  <2> QED
    BY <1>2, <2>5, <2>6, <2>7 DEF Saw, A, fmt, c, f, n
<1>5. CASE q.type = "trailer"
  <2>1. q.id = n + 1 /\ w.end = None
    BY <1>1, <1>2, <1>5 DEF Saw, A, c, n
  <2>2. wire'[f] = IF w.end = None THEN [w EXCEPT !.end = q.id] ELSE w
    BY <1>1, <1>2, <1>5, TrailerSeen DEF KnownInv, f, w
  <2>3. /\ wire'[f].lead = w.lead /\ wire'[f].len = w.len
        /\ wire'[f].got = w.got /\ wire'[f].end = n + 1
    BY <1>2, <2>1, <2>2 DEF Wire
  <2>4. GotOf(A \cup {q.id}, c, fmt) = GotOf(A, c, fmt)
    <3>1. \A p \in PacketIds : p <= n => p # q.id
      BY <1>3, <2>1
    <3> QED
      BY <3>1 DEF GotOf, n
  <2>5. n + 1 \in A \cup {q.id}
    BY <2>1
  <2> QED
    BY <1>2, <2>3, <2>4, <2>5 DEF Saw, A, fmt, c, f, n
<1> QED
  BY <1>1, <1>4, <1>5

(* The packet is one of those that were wanted.                            *)
LEMMA ArrivedGrows ==
  ASSUME KnownInv, "repeats" \notin abilities, NEW q \in network, Arrives(q)
  PROVE  /\ q.id \notin Arrived(q.of) /\ sent' = sent
         /\ network' = network \ {q}
         /\ \A c, n : UnderWay(c, n)' <=> UnderWay(c, n) /\ ~(c = q.of /\ n = q.id)
         /\ \A c \in Contents : Needed(c)' = Needed(c)
         /\ \A c \in Contents : c # q.of => Arrived(c)' = Arrived(c)
         /\ Arrived(q.of)' = Arrived(q.of) \cup ({q.id} \ {0})
<1>1. /\ sent' = sent /\ network' = network \ {q} /\ IsSent(q)
      /\ q.of \in Contents /\ sent[q.of].format \in Formats
      /\ q.id = 0 \/ q.id \in Needed(q.of)
  <2>1. /\ sent' = sent /\ IsSent(q) /\ q.of \in Contents
        /\ sent[q.of].format \in Formats
        /\ q.id = 0 \/ q.id \in 1 .. NChunks(sent[q.of].format)
             \/ q.id = NChunks(sent[q.of].format) + 1
    BY ArrivingPacket DEF KnownInv
  <2>2. NChunks(sent[q.of].format) \in Nat
    BY <2>1, ImageIds
  <2> QED
    BY <2>1, <2>2 DEF Arrives, Needed
<1>2. ASSUME NEW p \in network, p.of = q.of, p.id = q.id PROVE p = q
  <2>1. IsSent(p)
    BY DEF KnownInv, BaseInv, NetInv
  <2> QED
    BY <1>1, <1>2, <2>1 DEF IsSent
<1>3. \A c, n : UnderWay(c, n)' <=> UnderWay(c, n) /\ ~(c = q.of /\ n = q.id)
  BY <1>1, <1>2 DEF UnderWay
<1>4. \A c \in Contents : Needed(c)' = Needed(c)
  BY <1>1 DEF Needed
<1>5. UnderWay(q.of, q.id)
  BY DEF UnderWay
<1>6. \A c \in Contents : c # q.of => Arrived(c)' = Arrived(c)
  BY <1>1, <1>3, <1>4 DEF Arrived
<1>7. Arrived(q.of)' = Arrived(q.of) \cup ({q.id} \ {0})
  <2>1. 0 \notin Needed(q.of) /\ q.id < sent[q.of].packets
    BY <1>1 DEF Needed, IsSent
  <2> QED
    BY <1>1, <1>3, <1>4, <1>5, <2>1 DEF Arrived
<1>8. q.id \notin Arrived(q.of)
  BY <1>5 DEF Arrived
<1> QED
  BY <1>1, <1>3, <1>4, <1>6, <1>7, <1>8

(* A packet that arrives for a frame of its buffer is no anomaly; the last *)
(* one delivers the buffer, any other leaves the frame as it should be.    *)
LEMMA Progress ==
  ASSUME KnownInv, KnownInv', "repeats" \notin abilities,
         NEW q \in network, Arrives(q), q.type # "leader", Reflects(q.of)
  PROVE  /\ stats'.dropped = stats.dropped
         /\ stats'.anomalies = stats.anomalies
         /\ \/ /\ Arrived(q.of)' = Needed(q.of) /\ ~Live(q.frame)'
               /\ IsOneMore(q.of) /\ stats'.frames = stats.frames + 1
            \/ /\ Arrived(q.of)' # Needed(q.of) /\ Reflects(q.of)'
               /\ deliveries' = deliveries /\ stats'.frames = stats.frames
<1> DEFINE c == q.of
           fmt == sent[c].format
           f == q.frame
           n == NChunks(fmt)
           A == Arrived(c) \cup {q.id}
<1>1. /\ c \in Contents /\ Begun(c) /\ f = sent[c].id /\ f \in Contents
      /\ fmt \in Formats /\ sent' = sent /\ Observe
      /\ q.type \in {"payload", "trailer"}
      /\ q.id \in PacketIds /\ q = PacketOf(c, q.id)
  BY ArrivingPacket DEF KnownInv
<1>2. /\ q.id \notin Arrived(c) /\ Arrived(c)' = A /\ Needed(c)' = Needed(c)
      /\ A \in SUBSET Needed(c)
  <2>1. q.id # 0
    BY <1>1 DEF PacketOf
  <2>2. /\ q.id \notin Arrived(c) /\ Needed(c)' = Needed(c)
        /\ Arrived(c)' = Arrived(c) \cup ({q.id} \ {0})
    BY <1>1, ArrivedGrows
  <2>3. Arrived(c)' \in SUBSET Needed(c)'
    BY DEF Arrived
  <2> QED
    BY <2>1, <2>2, <2>3
<1>3. PICK g : (Keep(f, g) /\ g # None) \/ Deliver(f, g)
  BY <1>1, <1>2, PayloadGoesOn, TrailerGoesOn
<1>4. Saw(wire'[f], A, c, fmt)
  BY <1>1, <1>2, ArrivalIsSeen
<1>5. stats \in Stats /\ DOMAIN frames = Contents
  BY DEF KnownInv, ReceiverInv, TypeOK, StateOK
<1>6. /\ stats'.dropped = stats.dropped /\ stats'.anomalies = stats.anomalies
      /\ Deliver(f, g) => stats'.frames = stats.frames + 1
      /\ Keep(f, g) => stats'.frames = stats.frames
  BY <1>3, <1>5 DEF Keep, Deliver, Count, Stats
<1>7. n \in Nat \ {0} /\ \A p \in 1 .. n : p \in PacketIds
  BY <1>1, ImageIds
<1>8. AllOf(f, c)'
  <2>1. \A p \in PacketIds : wire'[f].got[p] # None =>
          wire'[f].got[p] = <<c, fmt, p>>
    BY <1>4 DEF Saw, GotOf
  <2>2. wire'[f].end # None => wire'[f].end = n + 1
    BY <1>4 DEF Saw
  <2> QED
    BY <1>1, <2>1, <2>2 DEF AllOf
<1> HIDE DEF A
<1>9. CASE Keep(f, g) /\ g # None
  <2>1. Emitted' = {}
    BY <1>9 DEF Keep, Emitted
  <2>2. deliveries' = deliveries
    BY <1>1, <2>1, Observation DEF KnownInv, BaseInv
  <2>3. frames'[f] = g /\ Live(f)'
    BY <1>1, <1>5, <1>9 DEF Keep, Live
  <2>4. Reflects(c)'
    BY <1>1, <1>2, <1>4, <2>3 DEF Reflects
  <2>5. Arrived(c)' # Needed(c)
    <3>1. /\ frames'[f] \in PartialFrame
          /\ Holds(frames'[f], wire'[f]) /\ IsReconciled(frames'[f])
          /\ Filled(f)'
      BY <1>1, <2>3 DEF KnownInv, ReceiverInv, TypeOK, StateOK, Live,
                        HoldsWhatArrived, Reconciled
    <3>2. frames'[f].offset =
            ByteSum(wire'[f].got, wire'[f].lead + 1, frames'[f].packetId)
      BY <3>1 DEF Filled
    <3>3. A # 1 .. n + 1
      BY <1>1, <1>2, <1>4, <3>1, <3>2, SawShows DEF Needed
    <3> QED
      BY <1>2, <3>3 DEF Needed
  <2> QED
    BY <1>6, <1>9, <2>2, <2>4, <2>5
<1>10. CASE Deliver(f, g)
  <2> DEFINE e == [kind |-> "complete", frame |-> f, data |-> g.data]
  <2>1. output' = {e} /\ frames' = [frames EXCEPT ![f] = None]
    BY <1>10 DEF Deliver
  <2>2. ~Live(f)'
    BY <1>1, <1>5, <2>1 DEF Live
  <2>3. e.kind = "complete" /\ e.frame = f /\ e \in output' /\ Emitted' = {e}
    BY <2>1 DEF Emitted
  <2> HIDE DEF e
  <2>4. e.data = Image(c)
    BY <1>1, <1>8, <2>3, OneBufferEmitted
  <2>5. IsOneMore(c)
    <3>1. \/ \E x \in Emitted', d \in Contents :
               Begun(d) /\ x.data = Image(d) /\ IsOneMore(d)
          \/ \E x \in Emitted' : \A d \in Contents : ~Begun(d) \/ x.data # Image(d)
      BY <1>1, <2>3, Observation DEF KnownInv, BaseInv
    <3>2. PICK d \in Contents : Begun(d) /\ e.data = Image(d) /\ IsOneMore(d)
      BY <1>1, <2>3, <2>4, <3>1
    <3>3. d = c
      BY <1>1, <2>4, <3>2, ImagesDiffer DEF KnownInv, BaseInv
    <3> QED
      BY <3>2, <3>3
  <2>6. A = Needed(c)
    <3>1. e.data = [i \in 1 .. n |-> <<c, fmt, i>>]
      BY <2>4 DEF Image
    <3>2. Len(e.data) = n /\ \A i \in 1 .. n : e.data[i] = <<c, fmt, i>>
      BY <1>7, <3>1
    <3>3. /\ wire'[f].end = wire'[f].lead + n + 1
          /\ \A i \in 1 .. n : e.data[i] = wire'[f].got[wire'[f].lead + i]
      BY <2>3, <3>2 DEF KnownInv, ReceiverInv, DeliveredInOrder
    <3>4. wire'[f].lead = 0
      BY <1>4 DEF Saw
    <3>5. n + 1 \in A
      <4>1. wire'[f].end = n + 1 /\ n + 1 # None
        BY <1>7, <3>3, <3>4, SinkNoneAssumption
      <4> QED
        BY <1>4, <4>1 DEF Saw
    <3>6. ASSUME NEW i \in 1 .. n PROVE i \in A
      <4>1. <<c, fmt, i>> \in Chunks
        BY <1>1 DEF Chunks
      <4>2. wire'[f].got[i] # None /\ i \in PacketIds
        <5>1. i \in Nat /\ i \in PacketIds
          BY <1>7
        <5>2. wire'[f].got[i] = <<c, fmt, i>>
          BY <3>2, <3>3, <3>4, <5>1
        <5> QED
          BY <4>1, <5>1, <5>2, StreamNoneAssumption
      <4> QED
        BY <1>4, <4>2 DEF Saw, GotOf
    <3>7. Needed(c) = (1 .. n) \cup {n + 1}
      BY <1>7 DEF Needed
    <3> QED
      BY <1>2, <3>5, <3>6, <3>7
  <2> QED
    BY <1>2, <1>6, <1>10, <2>2, <2>5, <2>6
<1> QED
  BY <1>3, <1>9, <1>10

(* What was sent of a buffer is all under way.                             *)
Early(c) == \A n \in 0 .. sent[c].packets - 1 : UnderWay(c, n)

(* A leader begins a frame that has nothing yet.                           *)
LEMMA FrameBegins ==
  ASSUME KnownInv, "repeats" \notin abilities, NEW q \in network, Arrives(q),
         q.type = "leader", Early(q.of)
  PROVE  /\ Arrived(q.of)' = {} /\ Reflects(q.of)'
         /\ deliveries' = deliveries /\ stats'.frames = stats.frames
         /\ ~Live(q.frame) => /\ stats'.dropped = stats.dropped
                              /\ stats'.anomalies = stats.anomalies
<1> DEFINE c == q.of
           fmt == sent[c].format
           f == q.frame
<1>1. /\ Ingest(q) /\ c \in Contents /\ Begun(c) /\ f = sent[c].id
      /\ f \in Contents /\ fmt \in Formats /\ q.id = 0 /\ q.id \in PacketIds
      /\ q.len = FrameLength[fmt] /\ q.len \in Nat \ {0} /\ sent' = sent
  BY ArrivingPacket DEF KnownInv
<1>2. NChunks(fmt) \in Nat
  BY <1>1, ImageIds
<1>3. Arrived(c) = {}
  <2>1. sent[c].packets \in Nat
    BY <1>1 DEF KnownInv, BaseInv, SinkInv, SinkTypes
  <2>2. \A n \in Needed(c) : n \in Nat
    BY <1>2 DEF Needed
  <2>3. \A n \in Needed(c) : n < sent[c].packets => n \in 0 .. sent[c].packets - 1
    BY <2>1, <2>2
  <2> QED
    BY <2>3 DEF Arrived, Early
<1>4. Arrived(c)' = {}
  BY <1>1, <1>3, ArrivedGrows
<1>5. /\ Live(f)' /\ wire'[f] = [lead |-> q.id, len |-> q.len, got |-> Empty,
                                 end |-> None]
      /\ Live(f) \/ (stats'.dropped = stats.dropped
                     /\ stats'.anomalies = stats.anomalies)
      /\ stats'.frames = stats.frames
  BY <1>1, LeaderBegins DEF KnownInv
<1>6. Saw(wire'[f], {}, c, fmt)
  <2>1. GotOf({}, c, fmt) = Empty
    BY DEF GotOf, Empty
  <2> QED
    BY <1>1, <1>5, <2>1 DEF Saw
<1>7. Reflects(c)'
  BY <1>1, <1>4, <1>5, <1>6 DEF Reflects
<1>8. deliveries' = deliveries
  BY ArrivalObserved DEF KnownInv
<1> QED
  BY <1>4, <1>5, <1>7, <1>8

(* A packet leaves the frames of other ids as they are.                    *)
LEMMA OthersReflect ==
  ASSUME KnownInv, "repeats" \notin abilities, NEW q \in network, Arrives(q),
         NEW d \in Contents, Begun(d), d # q.of, sent[d].id # q.frame
  PROVE  /\ Reflects(d) => Reflects(d)'
         /\ ~Live(sent[d].id) => ~Live(sent[d].id)'
<1>1. /\ sent[d].id \in Contents /\ sent' = sent /\ Arrived(d)' = Arrived(d)
  <2>1. sent[d].id \in Nat \ {0} /\ sent[d].id <= d
    BY DEF KnownInv, BaseInv, SinkInv, SinkTypes, SentInv, Begun
  <2> QED
    BY <2>1, ArrivedGrows, NFramesAssumption DEF Contents
<1>2. /\ frames'[sent[d].id] = frames[sent[d].id]
      /\ wire'[sent[d].id] = wire[sent[d].id]
  BY <1>1, OthersStay, ArrivingPacket DEF KnownInv
<1> QED
  BY <1>1, <1>2 DEF Reflects, Live

(* A packet that goes out is under way.                                    *)
LEMMA SentUnderWay ==
  ASSUME KnownInv, SinkSends
  PROVE  /\ buffers \in Contents /\ Begun(buffers) /\ rendering \in Nat
         /\ sent[buffers].packets = rendering
         /\ \A c, n : UnderWay(c, n)' <=>
                        UnderWay(c, n) \/ (c = buffers /\ n = rendering)
         /\ \A c \in Contents :
              /\ Begun(c)' = Begun(c) /\ sent'[c].id = sent[c].id
              /\ sent'[c].format = sent[c].format /\ sent'[c].run = sent[c].run
              /\ sent'[c].packets = IF c = buffers THEN rendering + 1
                                    ELSE sent[c].packets
              /\ Needed(c)' = Needed(c)
              /\ Begun(c) => Arrived(c)' = Arrived(c)
              /\ Begun(c) /\ Reflects(c) => Reflects(c)'
              /\ Early(c) => Early(c)'
<1>1. PICK b \in Contents, r \in Nat :
        /\ b = buffers /\ r = rendering /\ Begun(b)
        /\ PacketAt(rendering) = PacketOf(b, r) /\ sent[b].packets = r
        /\ sent' = [sent EXCEPT ![b].packets = @ + 1]
  <2>1. /\ buffers \in Contents /\ Begun(buffers)
        /\ PacketAt(rendering) = PacketOf(buffers, rendering)
        /\ sent[buffers].packets = rendering
        /\ sent' = [sent EXCEPT ![buffers].packets = @ + 1]
    BY SentNext DEF KnownInv, BaseInv, SinkSends
  <2>2. rendering \in Nat
    BY <2>1 DEF KnownInv, BaseInv, SinkInv, SinkTypes
  <2> QED
    BY <2>1, <2>2
<1>2. /\ wire' = wire /\ frames' = frames
      /\ network' = network \cup {PacketAt(rendering)}
  BY DEF SinkSends, receiver
<1>3. PICK p : p = PacketAt(rendering)
  OBVIOUS
<1>4. p.of = b /\ p.id = r
  BY <1>1, <1>3 DEF PacketOf
<1>5. \A c, n : UnderWay(c, n)' <=> UnderWay(c, n) \/ (c = b /\ n = r)
  BY <1>2, <1>3, <1>4 DEF UnderWay
<1>6. ASSUME NEW c \in Contents
      PROVE  /\ Begun(c)' = Begun(c) /\ sent'[c].id = sent[c].id
             /\ sent'[c].format = sent[c].format /\ sent'[c].run = sent[c].run
             /\ sent'[c].packets = IF c = b THEN r + 1 ELSE sent[c].packets
             /\ Needed(c)' = Needed(c) /\ sent[c].packets \in Nat
  <2>1. sent[c] \in [id: Nat, format: Formats \cup {None}, run: Nat, packets: Nat]
    BY DEF KnownInv, BaseInv, SinkInv, SinkTypes
  <2>2. /\ sent'[c].id = sent[c].id
        /\ sent'[c].format = sent[c].format /\ sent'[c].run = sent[c].run
        /\ sent'[c].packets = IF c = b THEN r + 1 ELSE sent[c].packets
    BY <1>1, <2>1 DEF KnownInv, BaseInv, SinkInv, SinkTypes
  <2> QED
    BY <2>1, <2>2 DEF Begun, Needed
<1>7. ASSUME NEW c \in Contents, Begun(c)
      PROVE  Arrived(c)' = Arrived(c) /\ (Reflects(c) => Reflects(c)')
  <2>1. \A n \in Needed(c) : n \in Nat
    <3>1. NChunks(sent[c].format) \in Nat
      BY <1>7, ImageIds DEF KnownInv, BaseInv, SinkInv, SentInv
    <3> QED
      BY <3>1 DEF Needed
  <2>2. \A n \in Needed(c) : n < sent'[c].packets /\ ~UnderWay(c, n)'
                               <=> n < sent[c].packets /\ ~UnderWay(c, n)
    BY <1>1, <1>5, <1>6, <2>1
  <2>3. Arrived(c)' = Arrived(c)
    BY <1>6, <2>2 DEF Arrived
  <2> QED
    BY <1>2, <1>6, <2>3 DEF Reflects, Live
<1>8. ASSUME NEW c \in Contents, Early(c) PROVE Early(c)'
  <2>1. \A n \in 0 .. sent'[c].packets - 1 :
          n \in 0 .. sent[c].packets - 1 \/ (c = b /\ n = r)
    BY <1>1, <1>6
  <2> QED
    BY <1>5, <1>8, <2>1 DEF Early
<1> QED
  BY <1>1, <1>5, <1>6, <1>7, <1>8

(* Other steps of the sink move no packet; a buffer may begin.             *)
LEMMA StillUnderWay ==
  ASSUME KnownInv, SinkStill \/ UNCHANGED streamVars
  PROVE  /\ wire' = wire /\ frames' = frames /\ arrived' = arrived
         /\ deliveries' = deliveries /\ stats' = stats
         /\ abilities' = abilities /\ network' = network
         /\ \A c, n : UnderWay(c, n)' = UnderWay(c, n)
         /\ \A c \in Contents : Begun(c) =>
              /\ sent'[c] = sent[c] /\ Begun(c)' /\ Needed(c)' = Needed(c)
              /\ Arrived(c)' = Arrived(c) /\ (Reflects(c) => Reflects(c)')
              /\ Early(c) => Early(c)'
         /\ \A c \in Contents : Begun(c)' /\ ~Begun(c) =>
              /\ Render /\ c = buffers' /\ sent'[c].id = sink.nextId
              /\ sent'[c].packets = 0 /\ sent'[c].run = starts /\ Early(c)'
<1>1. /\ wire' = wire /\ frames' = frames /\ arrived' = arrived
      /\ deliveries' = deliveries /\ stats' = stats
      /\ abilities' = abilities /\ network' = network
  BY DEF SinkStill, receiver, observed, streamVars
<1>2. \A c, n : UnderWay(c, n)' = UnderWay(c, n)
  BY <1>1 DEF UnderWay
<1>3. ASSUME NEW c \in Contents, Begun(c), sent'[c] = sent[c]
      PROVE  /\ Begun(c)' /\ Needed(c)' = Needed(c) /\ Arrived(c)' = Arrived(c)
             /\ Reflects(c) => Reflects(c)'
             /\ Early(c) => Early(c)'
  <2>1. Begun(c)' /\ Needed(c)' = Needed(c)
    BY <1>3 DEF Begun, Needed
  <2>2. Arrived(c)' = Arrived(c)
    BY <1>2, <1>3, <2>1 DEF Arrived
  <2> QED
    BY <1>1, <1>2, <1>3, <2>1, <2>2 DEF Reflects, Live, Early
<1>4. CASE Render
  <2>1. PICK b \in Contents :
          /\ b = buffers' /\ ~Begun(b)
          /\ sent' = [sent EXCEPT ![b] = [id |-> sink.nextId,
                 format |-> sink.format, run |-> starts, packets |-> 0]]
    BY <1>4, RenderedBuffer DEF KnownInv, BaseInv
  <2>2. /\ sent'[b] = [id |-> sink.nextId, format |-> sink.format,
                       run |-> starts, packets |-> 0]
        /\ \A c \in Contents : c # b => sent'[c] = sent[c]
    BY <2>1 DEF KnownInv, BaseInv, SinkInv, SinkTypes
  <2>3. sent'[b].packets = 0
    BY <2>2
  <2>4. Early(b)'
    BY <2>3 DEF Early
  <2> QED
    BY <1>1, <1>2, <1>3, <1>4, <2>1, <2>2, <2>4 DEF Begun
<1>5. CASE ~Render
  <2>1. sent' = sent
    <3>1. SinkStill => SinkQuiet
      BY <1>5 DEF SinkStill, SinkSteps, SinkQuiet
    <3> QED
      BY <3>1, QuietSink DEF KnownInv, BaseInv, streamVars, sinkVars
  <2> QED
    BY <1>1, <1>2, <1>3, <2>1 DEF Begun
<1> QED
  BY <1>4, <1>5

---------------------------------------------------------------------------
(* ReorderingIsFree: what becomes of a buffer when nothing is lost         *)

(* Until its leader arrives, all of a buffer is under way; it is delivered *)
(* when all has arrived.                                                   *)
Fate(c) ==
  /\ c \notin arrived => deliveries[c] = 0 /\ (Begun(c) => Early(c))
  /\ c \in arrived => /\ ~UnderWay(c, 0) /\ sent[c].packets > 0
                      /\ deliveries[c] = IF Arrived(c) = Needed(c) THEN 1 ELSE 0

Fates == \A c \in Contents : Fate(c)

(* A packet that arrives is of a frame that has its place.                 *)
Placed(q) == q.type # "leader" => q.of \in arrived /\ Reflects(q.of)

(* A leader that is under way is of a buffer whose frame is yet to begin.  *)
LEMMA LeaderFirst ==
  ASSUME KnownInv, Fates, NEW q \in network, IsSent(q), q.id = 0
  PROVE  q.of \notin arrived /\ Early(q.of) /\ deliveries[q.of] = 0
<1>1. UnderWay(q.of, 0)
  BY DEF UnderWay
<1> QED
  BY <1>1 DEF Fates, Fate, IsSent

(* Fates go on when packets arrive, ...                                    *)
LEMMA FatesArrive ==
  ASSUME KnownInv, KnownInv', Fates, "repeats" \notin abilities,
         NEW q \in network, Arrives(q), Placed(q)
  PROVE  Fates' /\ \A d \in Contents : d # q.of => deliveries'[d] = deliveries[d]
<1>1. /\ q.of \in Contents /\ IsSent(q) /\ Begun(q.of) /\ sent' = sent
      /\ arrived' = IF q.type = "leader" THEN arrived \cup {q.of} ELSE arrived
      /\ q.type = "leader" => q.id = 0
      /\ q.type # "leader" => q.id \in Needed(q.of)
  <2>1. /\ q.of \in Contents /\ IsSent(q) /\ Begun(q.of) /\ sent' = sent
        /\ arrived' = IF q.type = "leader" THEN arrived \cup {q.of} ELSE arrived
        /\ q.type = "leader" => q.id = 0
        /\ q.type # "leader" => \/ q.id \in 1 .. NChunks(sent[q.of].format)
                                \/ q.id = NChunks(sent[q.of].format) + 1
        /\ sent[q.of].format \in Formats
    BY ArrivingPacket DEF KnownInv
  <2>2. NChunks(sent[q.of].format) \in Nat
    BY <2>1, ImageIds
  <2> QED
    BY <2>1, <2>2 DEF Needed
<1>2. /\ \A c, n : UnderWay(c, n)' <=> UnderWay(c, n) /\ ~(c = q.of /\ n = q.id)
      /\ \A c \in Contents : Needed(c)' = Needed(c)
      /\ \A c \in Contents : c # q.of => Arrived(c)' = Arrived(c)
      /\ q.id \notin Arrived(q.of)
  BY ArrivedGrows
<1>3. /\ \A d \in Contents : d # q.of => deliveries'[d] = deliveries[d]
      /\ Fate(q.of)'
  <2>1. CASE q.type = "leader"
    <3>1. Early(q.of) /\ deliveries[q.of] = 0
      BY <1>1, <2>1, LeaderFirst
    <3>2. Arrived(q.of)' = {} /\ deliveries' = deliveries
      BY <2>1, <3>1, FrameBegins
    <3>3. Needed(q.of)' # {}
      <4>1. sent[q.of].format \in Formats
        BY <1>1 DEF KnownInv, BaseInv, SinkInv, SentInv
      <4>2. 1 \in Needed(q.of)
        BY <4>1, ImageIds DEF Needed
      <4> QED
        BY <1>1, <1>2, <4>2
    <3>4. ~UnderWay(q.of, 0)' /\ q.of \in arrived' /\ sent'[q.of].packets > 0
      BY <1>1, <1>2, <2>1 DEF IsSent
    <3> QED
      BY <3>1, <3>2, <3>3, <3>4 DEF Fate
  <2>2. CASE q.type # "leader"
    <3>1. /\ q.of \in arrived' /\ ~UnderWay(q.of, 0)'
          /\ sent'[q.of].packets > 0 /\ deliveries[q.of] = 0
      <4>1. q.of \in arrived /\ Arrived(q.of) # Needed(q.of)
        BY <1>1, <2>2, ReflectedShows DEF Placed
      <4> QED
        BY <1>1, <1>2, <2>2, <4>1 DEF Fates, Fate
    <3>2. \/ Arrived(q.of)' = Needed(q.of) /\ IsOneMore(q.of)
          \/ Arrived(q.of)' # Needed(q.of) /\ deliveries' = deliveries
      BY <2>2, Progress DEF Placed
    <3>3. DOMAIN deliveries = Contents
      BY DEF KnownInv, ObservedTypes
    <3>4. CASE Arrived(q.of)' = Needed(q.of) /\ IsOneMore(q.of)
      <4>1. /\ deliveries'[q.of] = 1
            /\ \A d \in Contents : d # q.of => deliveries'[d] = deliveries[d]
        BY <1>1, <3>1, <3>3, <3>4 DEF IsOneMore
      <4> QED
        BY <1>1, <1>2, <3>1, <3>4, <4>1 DEF Fate
    <3>5. CASE Arrived(q.of)' # Needed(q.of) /\ deliveries' = deliveries
      BY <1>1, <1>2, <3>1, <3>5 DEF Fate
    <3> QED
      BY <3>2, <3>4, <3>5
  <2> QED
    BY <2>1, <2>2
<1>4. ASSUME NEW d \in Contents, d # q.of PROVE Fate(d)'
  <2>1. /\ deliveries'[d] = deliveries[d] /\ (d \in arrived' <=> d \in arrived)
        /\ \A n : UnderWay(d, n)' <=> UnderWay(d, n)
        /\ Arrived(d)' = Arrived(d) /\ Needed(d)' = Needed(d)
    BY <1>1, <1>2, <1>3, <1>4
  <2>2. Begun(d)' = Begun(d) /\ Early(d)' = Early(d)
    BY <1>1, <2>1 DEF Begun, Early
  <2>3. Fate(d) /\ sent' = sent
    BY <1>1 DEF Fates
  <2> QED
    BY <2>1, <2>2, <2>3 DEF Fate
<1> QED
  BY <1>3, <1>4 DEF Fates

(* ... when they are sent, and when buffers begin.                         *)
LEMMA FatesSent ==
  ASSUME KnownInv, Fates, SinkSends \/ SinkStill \/ UNCHANGED streamVars
  PROVE  Fates'
<1>1. CASE SinkSends
  <2>1. arrived' = arrived /\ deliveries' = deliveries
    BY <1>1 DEF SinkSends, observed
  <2>2. ASSUME NEW c \in Contents PROVE Fate(c)'
    <3>1. /\ Begun(c)' = Begun(c) /\ Needed(c)' = Needed(c)
          /\ Begun(c) => Arrived(c)' = Arrived(c)
          /\ Early(c) => Early(c)'
      BY <1>1, SentUnderWay
    <3>2. c \in arrived => Begun(c) /\ (UnderWay(c, 0)' => UnderWay(c, 0))
      <4> SUFFICES ASSUME c \in arrived
                   PROVE  Begun(c) /\ (UnderWay(c, 0)' => UnderWay(c, 0))
        OBVIOUS
      <4>1. Begun(c)
        BY DEF KnownInv, ObservedTypes
      <4>2. c = buffers => rendering # 0
        <5> SUFFICES ASSUME c = buffers, rendering = 0 PROVE FALSE
          OBVIOUS
        <5>1. sent[c].packets = 0 /\ c \in Contents
          BY <1>1, SentUnderWay
        <5> QED
          BY <5>1 DEF Fates, Fate
      <4> QED
        BY <1>1, <4>1, <4>2, SentUnderWay
    <3>3. c \in arrived => sent[c].packets > 0 /\ sent'[c].packets > 0
      <4>1. sent'[c].packets = IF c = buffers THEN rendering + 1 ELSE sent[c].packets
        BY <1>1, SentUnderWay
      <4>2. rendering \in Nat
        BY <1>1, SentUnderWay
      <4> QED
        BY <4>1, <4>2 DEF Fates, Fate
    <3> QED
      BY <2>1, <3>1, <3>2, <3>3 DEF Fates, Fate
  <2> QED
    BY <2>2 DEF Fates
<1>2. CASE SinkStill \/ UNCHANGED streamVars
  <2>1. ASSUME NEW c \in Contents PROVE Fate(c)'
    <3>1. /\ arrived' = arrived /\ deliveries' = deliveries
          /\ UnderWay(c, 0)' = UnderWay(c, 0)
          /\ Begun(c) => /\ Arrived(c)' = Arrived(c) /\ Needed(c)' = Needed(c)
                         /\ Begun(c)' /\ (Early(c) => Early(c)')
                         /\ sent'[c] = sent[c]
          /\ Begun(c)' /\ ~Begun(c) => Early(c)'
      BY <1>2, StillUnderWay
    <3>2. c \in arrived => Begun(c)
      BY DEF KnownInv, ObservedTypes
    <3> QED
      BY <3>1, <3>2 DEF Fates, Fate
  <2> QED
    BY <2>1 DEF Fates
<1> QED
  BY <1>1, <1>2

(* The sink is started once, and sends each buffer to its end.             *)
RunInv ==
  /\ sink = None => \A c \in Contents : ~Begun(c)
  /\ \A c \in Contents : Begun(c) =>
       /\ sent[c].run = starts
       /\ SentOut(c) \/ (rendering # None /\ c = buffers)

(* It goes on so.                                                          *)
LEMMA RunStep ==
  ASSUME KnownInv, RunInv, ~Faulty, SinkStill \/ SinkSends \/ sinkVars' = sinkVars
  PROVE  RunInv'
<1> USE SinkNoneAssumption
<1>1. CASE SinkSends
  <2>1. PICK b \in Contents :
          /\ b = buffers /\ buffers' = buffers /\ Begun(b)
          /\ sent[b].packets = rendering
          /\ sent' = [sent EXCEPT ![b].packets = @ + 1]
    BY <1>1, SentNext DEF SinkSends, KnownInv, BaseInv
  <2>2. /\ rendering \in Nat /\ sink # None /\ sink.format \in Formats
        /\ sent[b].format = sink.format /\ starts' = starts
        /\ sent[b] \in [id: Nat, format: Formats \cup {None}, run: Nat, packets: Nat]
    BY <1>1, <2>1 DEF SinkSends, SendPacket, KnownInv, BaseInv, SinkInv,
                      SinkTypes, SentInv
  <2>3. /\ \A c \in Contents : c # b => sent'[c] = sent[c]
        /\ sent'[b] = [sent[b] EXCEPT !.packets = @ + 1]
    BY <2>1 DEF KnownInv, BaseInv, SinkInv, SinkTypes
  <2>4. /\ sent'[b].id = sent[b].id /\ sent'[b].run = sent[b].run
        /\ sent'[b].format = sent[b].format /\ sent'[b].packets = rendering + 1
    BY <2>1, <2>2, <2>3
  <2>5. SentOut(b)' \/ rendering' # None
    <3>1. rendering < NChunks(sink.format) + 1 => rendering' = rendering + 1
      BY <1>1 DEF SinkSends, SendPacket, Trailer
    <3>2. NChunks(sink.format) \in Nat
      BY <2>2, ChunkCount
    <3>3. CASE rendering < NChunks(sink.format) + 1
      BY <2>2, <3>1, <3>3
    <3>4. CASE ~(rendering < NChunks(sink.format) + 1)
      BY <2>1, <2>2, <2>4, <3>2, <3>4 DEF SentOut, Begun
    <3> QED
      BY <3>3, <3>4
  <2>6. sink' # None
    BY <1>1, <2>2 DEF SinkSends, SendPacket, NextId, KnownInv, BaseInv, SinkInv,
                      SinkTypes, RunningStates
  <2>7. ASSUME NEW c \in Contents, Begun(c)'
        PROVE  /\ sent'[c].run = starts'
               /\ SentOut(c)' \/ (rendering' # None /\ c = buffers')
    <3>1. CASE c = b
      BY <2>1, <2>2, <2>4, <2>5, <3>1 DEF RunInv
    <3>2. CASE c # b
      BY <2>1, <2>2, <2>3, <2>7, <3>2 DEF RunInv, Begun, SentOut
    <3> QED
      BY <3>1, <3>2
  <2> QED
    BY <2>6, <2>7 DEF RunInv
<1>2. CASE SinkStill /\ Render
  <2>1. PICK b \in Contents :
          /\ b = buffers' /\ ~Begun(b) /\ rendering' = 0 /\ sink' = sink
          /\ sent' = [sent EXCEPT ![b] = [id |-> sink.nextId,
                 format |-> sink.format, run |-> starts, packets |-> 0]]
    BY <1>2, RenderedBuffer DEF KnownInv, BaseInv
  <2>2. /\ sent'[b].run = starts /\ rendering' # None
        /\ \A c \in Contents : c # b => sent'[c] = sent[c]
    BY <2>1 DEF KnownInv, BaseInv, SinkInv, SinkTypes
  <2>3. sink # None /\ rendering = None /\ starts' = starts
    BY <1>2 DEF Render, RenderBegins
  <2> QED
    BY <2>1, <2>2, <2>3 DEF RunInv, Begun, SentOut
<1>3. CASE SinkStill /\ SinkStart
  BY <1>3 DEF SinkStart, RunInv, Begun
<1>4. CASE SinkStill /\ \E fmt \in Formats : SetCaps(fmt)
  <2>1. PICK fmt \in Formats : SetCaps(fmt)
    BY <1>4
  <2>2. sink \in RunningStates
    BY <2>1 DEF SetCaps, KnownInv, BaseInv, SinkInv, SinkTypes
  <2>3. sink' \in RunningStates
    BY <2>1, <2>2 DEF SetCaps, RunningStates
  <2> QED
    BY <2>1, <2>3 DEF SetCaps, RunInv, Begun, SentOut
<1>5. CASE sinkVars' = sinkVars
  BY <1>5 DEF sinkVars, RunInv, Begun, SentOut
<1> QED
  BY <1>1, <1>2, <1>3, <1>4, <1>5 DEF SinkStill, SinkSteps

(* Then no id is given twice, ...                                          *)
LEMMA NoSharing ==
  ASSUME KnownInv, RunInv, NEW c \in Contents, NEW d \in Contents
  PROVE  ~ShareId(c, d)
<1>1. c \in Nat /\ d \in Nat /\ buffers \in Nat
  BY NFramesAssumption DEF Contents, KnownInv, BaseInv, SinkInv, SinkTypes
<1>2. ASSUME NEW x \in Contents, NEW y \in Contents, x < y, ShareId(x, y)
      PROVE  FALSE
  <2>1. Begun(x) /\ Begun(y) /\ sent[x].id \in Nat /\ sent[y].id = sent[x].id
    BY <1>2 DEF ShareId, KnownInv, BaseInv, SinkInv, SinkTypes
  <2>2. y <= buffers /\ x \in Nat /\ y \in Nat
    BY <2>1, NFramesAssumption DEF Contents, KnownInv, BaseInv, SinkInv, SentInv
  <2>3. SentOut(x) /\ sent[x].run = sent[y].run
    BY <1>1, <1>2, <2>1, <2>2 DEF RunInv
  <2> QED
    BY <1>2, <2>1, <2>3 DEF KnownInv, BaseInv, SinkInv, RunIds
<1>3. ShareId(c, d) => c # d /\ ShareId(d, c)
  BY DEF ShareId
<1> QED
  BY <1>1, <1>2, <1>3

(* ... and a new buffer finds no frame under its id.                       *)
LEMMA NewIdUnused ==
  ASSUME KnownInv, RunInv, Render
  PROVE  sink.nextId \in Contents /\ ~Live(sink.nextId)
<1>1. /\ sink # None /\ rendering = None /\ buffers < NFrames
      /\ sink.nextId \in Nat \ {0} /\ buffers \in Nat
      /\ sink.nextId <= buffers + 1
  BY SinkNoneAssumption
  DEF Render, RenderBegins, KnownInv, BaseInv, SinkInv, SinkTypes, SentInv,
      RunningStates
<1>2. sink.nextId \in Contents
  BY <1>1, NFramesAssumption DEF Contents
<1>3. ASSUME Live(sink.nextId) PROVE FALSE
  <2>1. PICK c \in arrived : sent[c].id = sink.nextId
    BY <1>2, <1>3 DEF KnownInv, WireInv, Opened
  <2>2. c \in Contents /\ Begun(c)
    BY DEF KnownInv, ObservedTypes
  <2>3. SentOut(c) /\ sent[c].run = starts
    BY <1>1, <2>2 DEF RunInv
  <2>4. sent[c].id < sink.nextId
    BY <1>1, <2>2, <2>3 DEF KnownInv, BaseInv, SinkInv, RunIds
  <2> QED
    BY <1>1, <2>1, <2>4
<1> QED
  BY <1>2, <1>3

(* When nothing is under way, what was sent to its end is delivered.       *)
LEMMA AllDelivered ==
  ASSUME KnownInv, Fates, network = {}, NEW c \in Contents, SentOut(c)
  PROVE  deliveries[c] = 1
<1>1. /\ Begun(c) /\ sent[c].format \in Formats
      /\ sent[c].packets > NChunks(sent[c].format) + 1
      /\ sent[c].packets \in Nat
  BY DEF SentOut, KnownInv, BaseInv, SinkInv, SinkTypes, SentInv
<1>2. NChunks(sent[c].format) \in Nat
  BY <1>1, ImageIds
<1>3. \A n : ~UnderWay(c, n)
  BY DEF UnderWay
<1>4. Arrived(c) = Needed(c)
  BY <1>1, <1>2, <1>3 DEF Arrived, Needed
<1>5. c \in arrived
  <2>1. 0 \in 0 .. sent[c].packets - 1
    BY <1>1, <1>2
  <2> QED
    BY <1>1, <1>3, <2>1 DEF Fates, Fate, Early
<1> QED
  BY <1>4, <1>5 DEF Fates, Fate

(* While a buffer arrives its frame has what arrived of it; before and     *)
(* after no frame has its id.                                              *)
Settled(c) ==
  IF c \in arrived /\ Arrived(c) # Needed(c) THEN Reflects(c)
  ELSE ~Live(sent[c].id)

(* A network that only reorders, and a sink that does not fail.            *)
ReorderInv ==
  abilities = {} =>
    /\ stats.dropped = 0 /\ stats.anomalies = 0
    /\ RunInv /\ Fates
    /\ \A c \in Contents : Begun(c) => Settled(c)

(* ReorderInv is kept when a packet arrives, ...                           *)
LEMMA ReorderArrives ==
  ASSUME KnownInv, KnownInv', ReorderInv, abilities = {},
         NEW q \in network, Arrives(q)
  PROVE  ReorderInv'
<1>1. /\ q.of \in Contents /\ Begun(q.of) /\ IsSent(q) /\ q.frame = sent[q.of].id
      /\ sent' = sent /\ sinkVars' = sinkVars
      /\ q.type = "leader" => q.id = 0
      /\ q.type # "leader" => \/ q.id \in 1 .. NChunks(sent[q.of].format)
                              \/ q.id = NChunks(sent[q.of].format) + 1
      /\ sent[q.of].format \in Formats
      /\ arrived' = IF q.type = "leader" THEN arrived \cup {q.of} ELSE arrived
  BY ArrivingPacket DEF KnownInv
<1>2. /\ stats.dropped = 0 /\ stats.anomalies = 0 /\ RunInv /\ Fates
      /\ \A c \in Contents : Begun(c) => Settled(c)
      /\ "repeats" \notin abilities
  BY DEF ReorderInv
<1>3. /\ q.id \notin Arrived(q.of)
      /\ \A c \in Contents : Needed(c)' = Needed(c)
      /\ \A c \in Contents : c # q.of => Arrived(c)' = Arrived(c)
  BY <1>2, ArrivedGrows
<1>4. Placed(q)
  <2> SUFFICES ASSUME q.type # "leader" PROVE q.of \in arrived /\ Reflects(q.of)
    BY DEF Placed
  <2>1. q.of \in arrived
    BY DEF Arrives, Arrive, Deliverable
  <2>2. q.id \in Needed(q.of)
    BY <1>1, ImageIds DEF Needed
  <2> QED
    BY <1>1, <1>2, <1>3, <2>1, <2>2 DEF Settled
<1>5. Fates'
  BY <1>2, <1>4, FatesArrive
<1>6. RunInv'
  BY <1>1, <1>2, RunStep DEF Faulty
<1>7. /\ stats'.dropped = 0 /\ stats'.anomalies = 0
      /\ Settled(q.of)'
  <2>1. CASE q.type = "leader"
    <3>1. q.of \notin arrived /\ Early(q.of)
      BY <1>1, <1>2, <2>1, LeaderFirst
    <3>2. ~Live(q.frame)
      BY <1>1, <1>2, <3>1 DEF Settled
    <3>3. /\ Arrived(q.of)' = {} /\ Reflects(q.of)'
          /\ stats'.dropped = stats.dropped /\ stats'.anomalies = stats.anomalies
      BY <1>2, <2>1, <3>1, <3>2, FrameBegins
    <3>4. 1 \in Needed(q.of)'
      BY <1>1, <1>3, ImageIds DEF Needed
    <3> QED
      BY <1>1, <1>2, <2>1, <3>3, <3>4 DEF Settled
  <2>2. CASE q.type # "leader"
    <3>1. Reflects(q.of)
      BY <2>2, <1>4 DEF Placed
    <3>2. /\ stats'.dropped = 0 /\ stats'.anomalies = 0
          /\ \/ Arrived(q.of)' = Needed(q.of) /\ ~Live(q.frame)'
             \/ Arrived(q.of)' # Needed(q.of) /\ Reflects(q.of)'
      BY <1>2, <2>2, <3>1, Progress
    <3>3. q.of \in arrived' /\ Needed(q.of)' = Needed(q.of)
      BY <1>1, <1>3, <1>4, <2>2 DEF Placed
    <3>4. CASE Arrived(q.of)' = Needed(q.of) /\ ~Live(q.frame)'
      <4>1. ~Live(sent[q.of].id)'
        BY <1>1, <3>4 DEF Live
      <4> QED
        BY <3>2, <3>3, <3>4, <4>1 DEF Settled
    <3>5. CASE Arrived(q.of)' # Needed(q.of) /\ Reflects(q.of)'
      BY <3>2, <3>3, <3>5 DEF Settled
    <3> QED
      BY <3>2, <3>4, <3>5
  <2> QED
    BY <2>1, <2>2
<1>8. ASSUME NEW d \in Contents, Begun(d)', d # q.of PROVE Settled(d)'
  <2>1. Begun(d) /\ Settled(d)
    BY <1>1, <1>2, <1>8 DEF Begun
  <2>2. sent[d].id # q.frame
    BY <1>1, <1>2, <1>8, <2>1, NoSharing DEF ShareId
  <2>3. /\ Reflects(d) => Reflects(d)'
        /\ ~Live(sent[d].id) => ~Live(sent[d].id)'
    BY <1>2, <1>8, <2>1, <2>2, OthersReflect
  <2> QED
    BY <1>1, <1>3, <1>8, <2>1, <2>3 DEF Settled
<1> QED
  BY <1>5, <1>6, <1>7, <1>8 DEF ReorderInv

(* ... and when it is sent.                                                *)
LEMMA ReorderSent ==
  ASSUME KnownInv, ReorderInv, abilities = {},
         SinkSends \/ SinkStill \/ UNCHANGED streamVars
  PROVE  ReorderInv'
<1>1. /\ stats.dropped = 0 /\ stats.anomalies = 0 /\ RunInv /\ Fates
      /\ \A c \in Contents : Begun(c) => Settled(c)
  BY DEF ReorderInv
<1>2. stats' = stats /\ frames' = frames /\ arrived' = arrived
  BY DEF SinkSends, SinkStill, streamVars, receiver, observed
<1>3. RunInv'
  BY <1>1, RunStep DEF Faulty, streamVars
<1>4. Fates'
  BY <1>1, FatesSent
<1>5. ASSUME NEW c \in Contents, Begun(c)' PROVE Settled(c)'
  <2>1. CASE Begun(c)
    <3>1. /\ sent'[c].id = sent[c].id /\ Arrived(c)' = Arrived(c)
          /\ Needed(c)' = Needed(c) /\ (Reflects(c) => Reflects(c)')
      BY <2>1, SentUnderWay, StillUnderWay
    <3>2. Settled(c)
      BY <1>1, <2>1
    <3> QED
      BY <1>2, <3>1, <3>2 DEF Settled, Live
  <2>2. CASE ~Begun(c)
    <3>1. ~SinkSends
      BY <1>5, <2>2, SentUnderWay
    <3>2. Render /\ sent'[c].id = sink.nextId
      BY <1>5, <2>2, <3>1, StillUnderWay
    <3>3. ~Live(sink.nextId)
      BY <1>1, <3>2, NewIdUnused
    <3>4. c \notin arrived'
      BY <1>2, <2>2 DEF KnownInv, ObservedTypes
    <3> QED
      BY <1>2, <3>2, <3>3, <3>4 DEF Settled, Live
  <2> QED
    BY <2>1, <2>2
<1> QED
  BY <1>1, <1>2, <1>3, <1>4, <1>5 DEF ReorderInv

(* The start.                                                              *)
LEMMA ReorderInit == StreamInit => Fates /\ ReorderInv
<1> SUFFICES ASSUME StreamInit PROVE Fates /\ ReorderInv
  OBVIOUS
<1>1. /\ stats.dropped = 0 /\ stats.anomalies = 0 /\ arrived = {}
      /\ \A c \in Contents : ~Begun(c) /\ deliveries[c] = 0
  BY DEF StreamInit, Init, SinkInit, Begun, Unsent
<1> QED
  BY <1>1 DEF ReorderInv, RunInv, Fates, Fate

(* Reordering alone, as long as a frame's leader arrives first, makes no   *)
(* frame or packet an anomaly, and every frame that was sent is delivered. *)
THEOREM ReorderHolds == StreamSpec => []ReorderingIsFree
<1>1. KnownInv /\ KnownInv' /\ ReorderInv /\ [StreamNext]_streamVars => ReorderInv'
  <2> SUFFICES ASSUME KnownInv, KnownInv', ReorderInv, [StreamNext]_streamVars
               PROVE  ReorderInv'
    OBVIOUS
  <2>1. abilities' = abilities
    BY StreamCases DEF SinkStill, SinkSends, Arrives, Arrive, Loses, Lose, Pause,
                       streamVars
  <2>2. CASE abilities = {}
    <3>1. \/ SinkSends \/ SinkStill \/ UNCHANGED streamVars
          \/ \E q \in network : Arrives(q)
      BY <2>2, StreamCases DEF Pause, Loses, Lose
    <3> QED
      BY <2>2, <3>1, ReorderArrives, ReorderSent
  <2>3. CASE abilities # {}
    BY <2>1, <2>3 DEF ReorderInv
  <2> QED
    BY <2>2, <2>3
<1>2. KnownInv /\ ReorderInv => ReorderingIsFree
  <2> SUFFICES ASSUME KnownInv, ReorderInv, abilities = {}
               PROVE  /\ stats.dropped = 0 /\ stats.anomalies = 0
                      /\ network = {} =>
                           \A c \in Contents : SentOut(c) => deliveries[c] = 1
    BY DEF ReorderingIsFree
  <2>1. ASSUME network = {}, NEW c \in Contents, SentOut(c)
        PROVE  deliveries[c] = 1
    BY <2>1, AllDelivered DEF ReorderInv
  <2> QED
    BY <2>1 DEF ReorderInv
<1> QED
  BY <1>1, <1>2, ReorderInit, StreamKnown, PTL DEF StreamSpec

---------------------------------------------------------------------------
(* OrderedReuseIsFree: buffers that arrive one after another               *)

(* The buffer whose leader came last.                                      *)
Newest(c) == c \in arrived /\ \A d \in arrived : d <= c

(* Its frame has what arrived of it, until it is complete.                 *)
NewestReflects ==
  \A c \in Contents : Newest(c) /\ Arrived(c) # Needed(c) => Reflects(c)

(* What is under way of a buffer are its last packets.                     *)
InSequence ==
  \A c \in Contents : \A m, n \in Nat :
    UnderWay(c, m) /\ m < n /\ n < sent[c].packets => UnderWay(c, n)

TrailersThere == {q \in network : q.type = "trailer"}

(* A frame that the sender counted is counted by the receiver or has its   *)
(* trailer under way.                                                      *)
SameCount ==
  /\ IsFiniteSet(TrailersThere)
  /\ sinkStats.frames = stats.frames + Cardinality(TrailersThere)

LosslessInv ==
  abilities = {"ordered", "faults"} =>
    Fates /\ NewestReflects /\ InSequence /\ SameCount

(* What arrives is the first packet under way, and of the newest buffer.   *)
LEMMA ArrivesFirst ==
  ASSUME KnownInv, OrderInv, Orderly, NEW q \in network, Arrives(q)
  PROVE  /\ \A m \in Nat : UnderWay(q.of, m) => q.id <= m
         /\ q.id \in Nat /\ \A d \in arrived : d <= q.of
         /\ q.type # "leader" => Newest(q.of)
<1>1. \A p \in network : ~Earlier(p, q)
  BY DEF Arrives, Arrive, Deliverable, Orderly
<1>2. q.id \in Nat
  BY ArrivingPacket, PacketIdsAssumption DEF KnownInv, PacketIds
<1>3. \A m \in Nat : UnderWay(q.of, m) => q.id <= m
  BY <1>1, <1>2 DEF UnderWay, Earlier
<1>4. \A d \in arrived : d <= q.of
  BY DEF OrderInv
<1> QED
  BY <1>2, <1>3, <1>4, OrderFinds DEF Newest

(* It has its place.                                                       *)
LEMMA InOrderPlaced ==
  ASSUME KnownInv, OrderInv, Orderly, NewestReflects, "repeats" \notin abilities,
         NEW q \in network, Arrives(q)
  PROVE  Placed(q)
<1> SUFFICES ASSUME q.type # "leader" PROVE q.of \in arrived /\ Reflects(q.of)
  BY DEF Placed
<1>1. /\ q.of \in Contents /\ sent[q.of].format \in Formats
      /\ \/ q.id \in 1 .. NChunks(sent[q.of].format)
         \/ q.id = NChunks(sent[q.of].format) + 1
  BY ArrivingPacket DEF KnownInv
<1>2. q.id \in Needed(q.of) /\ q.id \notin Arrived(q.of)
  BY <1>1, ImageIds, ArrivedGrows DEF Needed
<1>3. Newest(q.of)
  BY ArrivesFirst
<1> QED
  BY <1>1, <1>2, <1>3 DEF NewestReflects, Newest

(* The arrival of a trailer, and of nothing else, completes a frame.       *)
LEMMA InOrderCounts ==
  ASSUME KnownInv, KnownInv', OrderInv, Orderly, Fates, NewestReflects, InSequence,
         "repeats" \notin abilities, NEW q \in network, Arrives(q)
  PROVE  /\ stats'.frames = IF q.type = "trailer" THEN stats.frames + 1
                            ELSE stats.frames
         /\ Arrived(q.of)' # Needed(q.of)' => Reflects(q.of)'
<1> PICK n : n = NChunks(sent[q.of].format) + 1
  OBVIOUS
<1>1. /\ q.of \in Contents /\ Begun(q.of) /\ IsSent(q)
      /\ sent[q.of].format \in Formats /\ sent' = sent
      /\ q.type \in {"leader", "payload", "trailer"}
      /\ q.type = "leader" => q.id = 0
      /\ q.type = "payload" => q.id \in 1 .. NChunks(sent[q.of].format)
      /\ q.type = "trailer" => q.id = n
      /\ q.id < sent[q.of].packets
  BY ArrivingPacket DEF KnownInv
<1>2. /\ n \in Nat /\ n \in Needed(q.of) /\ NChunks(sent[q.of].format) \in Nat
      /\ \A i \in Needed(q.of) : i \in Nat /\ i <= n /\ i > 0
      /\ sent[q.of].packets \in Nat
  BY <1>1, ImageIds DEF Needed, KnownInv, BaseInv, SinkInv, SinkTypes
<1>3. /\ q.id \notin Arrived(q.of)
      /\ \A c, m : UnderWay(c, m)' <=> UnderWay(c, m) /\ ~(c = q.of /\ m = q.id)
      /\ Needed(q.of)' = Needed(q.of)
  BY <1>1, ArrivedGrows
<1>4. q.id \in Nat /\ \A m \in Nat : UnderWay(q.of, m) => q.id <= m
  BY ArrivesFirst
<1>5. UnderWay(q.of, q.id)
  BY DEF UnderWay
<1>6. CASE q.type = "leader"
  <2>1. Early(q.of)
    BY <1>1, <1>6, LeaderFirst
  <2> QED
    BY <1>6, <2>1, FrameBegins
<1>7. CASE q.type # "leader"
  <2>1. Reflects(q.of)
    BY <1>7, InOrderPlaced DEF Placed
  <2>2. \/ Arrived(q.of)' = Needed(q.of) /\ stats'.frames = stats.frames + 1
        \/ /\ Arrived(q.of)' # Needed(q.of) /\ Reflects(q.of)'
           /\ stats'.frames = stats.frames
    BY <1>7, <2>1, Progress
  <2>3. CASE q.type = "trailer"
    <3>1. ASSUME NEW i \in Needed(q.of) PROVE i \in Arrived(q.of)'
      <4>1. i \in Nat /\ i <= q.id /\ i < sent[q.of].packets
        BY <1>1, <1>2, <1>4, <2>3
      <4>2. ~UnderWay(q.of, i)'
        BY <1>3, <1>4, <4>1
      <4> QED
        BY <1>1, <1>3, <4>1, <4>2 DEF Arrived
    <3>2. Arrived(q.of)' \subseteq Needed(q.of)
      BY <1>3 DEF Arrived
    <3> QED
      BY <1>3, <2>2, <2>3, <3>1, <3>2
  <2>4. CASE q.type = "payload"
    <3>1. n \notin Arrived(q.of)'
      <4> SUFFICES ASSUME n < sent[q.of].packets PROVE UnderWay(q.of, n)'
        <5>1. n \in Arrived(q.of)' => n < sent'[q.of].packets /\ ~UnderWay(q.of, n)'
          BY DEF Arrived
        <5> QED
          BY <1>1, <5>1
      <4>1. q.id < n
        BY <1>1, <1>2, <2>4
      <4>2. UnderWay(q.of, n)
        BY <1>1, <1>2, <1>4, <1>5, <4>1 DEF InSequence
      <4> QED
        BY <1>3, <4>1, <4>2, <1>2
    <3> QED
      BY <1>2, <1>3, <2>2, <2>4, <3>1
  <2> QED
    BY <1>1, <1>7, <2>3, <2>4
<1> QED
  BY <1>6, <1>7

(* LosslessInv is kept when a packet arrives, ...                          *)
LEMMA LosslessArrives ==
  ASSUME KnownInv, KnownInv', OrderInv, LosslessInv,
         abilities = {"ordered", "faults"}, NEW q \in network, Arrives(q)
  PROVE  LosslessInv'
<1>1. /\ Orderly /\ "repeats" \notin abilities
      /\ Fates /\ NewestReflects /\ InSequence /\ SameCount
  BY DEF Orderly, LosslessInv
<1>2. Fates'
  BY <1>1, InOrderPlaced, FatesArrive
<1>3. /\ q.of \in Contents /\ sent' = sent /\ sinkStats' = sinkStats
      /\ arrived' = IF q.type = "leader" THEN arrived \cup {q.of} ELSE arrived
  BY ArrivingPacket DEF KnownInv, sinkVars
<1>4. /\ \A m \in Nat : UnderWay(q.of, m) => q.id <= m
      /\ q.id \in Nat /\ \A d \in arrived : d <= q.of
      /\ q.type # "leader" => Newest(q.of)
  BY <1>1, ArrivesFirst
<1>5. /\ \A c, n : UnderWay(c, n)' <=> UnderWay(c, n) /\ ~(c = q.of /\ n = q.id)
      /\ network' = network \ {q}
  BY <1>1, ArrivedGrows
<1>6. /\ stats'.frames = IF q.type = "trailer" THEN stats.frames + 1
                         ELSE stats.frames
      /\ Arrived(q.of)' # Needed(q.of)' => Reflects(q.of)'
  BY <1>1, InOrderCounts
<1>7. NewestReflects'
  <2> SUFFICES ASSUME NEW c \in Contents, Newest(c)', Arrived(c)' # Needed(c)'
               PROVE  Reflects(c)'
    BY DEF NewestReflects
  <2>1. q.of \in arrived'
    BY <1>3, <1>4 DEF Newest
  <2>2. q.of <= c /\ c <= q.of /\ c \in Nat /\ q.of \in Nat
    BY <1>3, <1>4, <2>1, NFramesAssumption DEF Newest, Contents
  <2>3. c = q.of
    BY <2>2
  <2> QED
    BY <1>6, <2>3
<1>8. InSequence'
  <2> SUFFICES ASSUME NEW c \in Contents, NEW m \in Nat, NEW n \in Nat,
                      UnderWay(c, m)', m < n, n < sent'[c].packets
               PROVE  UnderWay(c, n)'
    BY DEF InSequence
  <2>1. UnderWay(c, m) /\ ~(c = q.of /\ m = q.id)
    BY <1>5
  <2>2. UnderWay(c, n)
    BY <1>1, <1>3, <2>1 DEF InSequence
  <2>3. ~(c = q.of /\ n = q.id)
    BY <1>4, <2>1
  <2> QED
    BY <1>5, <2>2, <2>3
<1>9. SameCount'
  <2>1. TrailersThere' = TrailersThere \ {q}
    BY <1>5 DEF TrailersThere
  <2>2. q \in TrailersThere <=> q.type = "trailer"
    BY DEF TrailersThere
  <2>3. IsFiniteSet(TrailersThere) /\ Cardinality(TrailersThere) \in Nat
    BY <1>1, FS_CardinalityType DEF SameCount
  <2>4. IsFiniteSet(TrailersThere') /\ Cardinality(TrailersThere') =
          IF q.type = "trailer" THEN Cardinality(TrailersThere) - 1
          ELSE Cardinality(TrailersThere)
    BY <2>1, <2>2, <2>3, FS_RemoveElement
  <2>5. stats.frames \in Nat
    BY DEF KnownInv, ReceiverInv, TypeOK, StateOK, Stats
  <2>6. sinkStats.frames = stats.frames + Cardinality(TrailersThere)
    BY <1>1 DEF SameCount
  <2> QED
    BY <1>3, <1>6, <2>3, <2>4, <2>5, <2>6 DEF SameCount
<1> QED
  BY <1>2, <1>7, <1>8, <1>9 DEF LosslessInv

(* ... when one is sent, ...                                               *)
LEMMA LosslessSent ==
  ASSUME KnownInv, LosslessInv, abilities = {"ordered", "faults"}, SinkSends
  PROVE  LosslessInv'
<1>1. Fates /\ NewestReflects /\ InSequence /\ SameCount
  BY DEF LosslessInv
<1>2. Fates'
  BY <1>1, FatesSent
<1>3. /\ arrived' = arrived /\ stats' = stats
      /\ network' = network \cup {PacketAt(rendering)}
  BY DEF SinkSends, receiver, observed
<1>4. PICK b \in Contents :
        /\ b = buffers /\ Begun(b) /\ sent[b].packets = rendering
        /\ PacketAt(rendering) = PacketOf(b, rendering)
  BY SentNext DEF SinkSends, KnownInv, BaseInv
<1>5. PICK n \in Nat : n = rendering
  BY SentUnderWay
<1>6. /\ \A c, m : UnderWay(c, m)' <=> UnderWay(c, m) \/ (c = b /\ m = n)
      /\ \A c \in Contents :
           /\ sent'[c].packets = IF c = b THEN n + 1 ELSE sent[c].packets
           /\ Needed(c)' = Needed(c) /\ (Begun(c) => Arrived(c)' = Arrived(c))
           /\ Begun(c) /\ Reflects(c) => Reflects(c)'
  BY <1>4, <1>5, SentUnderWay
<1>7. NewestReflects'
  <2> SUFFICES ASSUME NEW c \in Contents, Newest(c)', Arrived(c)' # Needed(c)'
               PROVE  Reflects(c)'
    BY DEF NewestReflects
  <2>1. Newest(c) /\ Begun(c)
    BY <1>3 DEF Newest, KnownInv, ObservedTypes
  <2> QED
    BY <1>1, <1>6, <2>1 DEF NewestReflects
<1>8. InSequence'
  <2> SUFFICES ASSUME NEW c \in Contents, NEW m \in Nat, NEW k \in Nat,
                      UnderWay(c, m)', m < k, k < sent'[c].packets
               PROVE  UnderWay(c, k)'
    BY DEF InSequence
  <2>1. CASE c = b /\ k = n
    BY <1>6, <2>1
  <2>2. CASE ~(c = b /\ k = n)
    <3>1. k < sent[c].packets
      BY <1>4, <1>5, <1>6, <2>2
    <3>2. ~(c = b /\ m = n)
      BY <1>4, <1>5, <3>1
    <3> QED
      BY <1>1, <1>6, <3>1, <3>2 DEF InSequence
  <2> QED
    BY <2>1, <2>2
<1>9. SameCount'
  <2>1. PICK p : p = PacketOf(b, n)
    OBVIOUS
  <2>2. p \notin network
    <3> SUFFICES ASSUME p \in network PROVE FALSE
      OBVIOUS
    <3>1. p.of = b /\ p.id = n
      BY <2>1 DEF PacketOf
    <3>2. n < sent[b].packets
      BY <3>1 DEF KnownInv, BaseInv, NetInv, IsSent
    <3> QED
      BY <1>4, <1>5, <3>2
  <2>3. TrailersThere' = IF p.type = "trailer" THEN TrailersThere \cup {p} ELSE TrailersThere
    BY <1>3, <1>4, <1>5, <2>1 DEF TrailersThere
  <2>4. IsFiniteSet(TrailersThere) /\ Cardinality(TrailersThere) \in Nat /\ p \notin TrailersThere
    BY <1>1, <2>2, FS_CardinalityType DEF SameCount, TrailersThere
  <2>5. IsFiniteSet(TrailersThere') /\ Cardinality(TrailersThere') =
          IF p.type = "trailer" THEN Cardinality(TrailersThere) + 1
          ELSE Cardinality(TrailersThere)
    BY <2>3, <2>4, FS_AddElement
  <2>6. /\ stats.frames \in Nat
        /\ sinkStats \in [frames: Nat, dropped: Nat, anomalies: Nat]
    BY DEF KnownInv, ReceiverInv, TypeOK, StateOK, Stats, BaseInv, SinkInv, SinkTypes
  <2>7. sinkStats.frames = stats.frames + Cardinality(TrailersThere)
    BY <1>1 DEF SameCount
  <2>8. sinkStats'.frames = IF p.type = "trailer" THEN sinkStats.frames + 1
                            ELSE sinkStats.frames
    <3>1. /\ rendering # None /\ sent[b].format = sink.format
          /\ sink.format \in Formats
      BY <1>4 DEF SinkSends, SendPacket, KnownInv, BaseInv, SinkInv, SentInv
    <3>2. NChunks(sink.format) \in Nat
      BY <3>1, ChunkCount
    <3>3. p.type = "trailer" <=> ~(n < NChunks(sink.format) + 1)
      BY <1>5, <2>1, <3>1, <3>2 DEF PacketOf
    <3>4. /\ n < NChunks(sink.format) + 1 => sinkStats' = sinkStats
          /\ ~(n < NChunks(sink.format) + 1) =>
               sinkStats' = [sinkStats EXCEPT !.frames = @ + 1]
      BY <1>5 DEF SinkSends, SendPacket, Trailer
    <3> QED
      BY <2>6, <3>3, <3>4
  <2> QED
    BY <1>3, <2>4, <2>5, <2>6, <2>7, <2>8 DEF SameCount
<1> QED
  BY <1>2, <1>7, <1>8, <1>9 DEF LosslessInv

(* ... and by the other steps of the sink.                                 *)
LEMMA LosslessStill ==
  ASSUME KnownInv, LosslessInv, abilities = {"ordered", "faults"},
         SinkStill \/ UNCHANGED streamVars
  PROVE  LosslessInv'
<1>1. Fates /\ NewestReflects /\ InSequence /\ SameCount
  BY DEF LosslessInv
<1>2. Fates'
  BY <1>1, FatesSent
<1>3. /\ arrived' = arrived /\ stats' = stats /\ network' = network
      /\ \A c, n : UnderWay(c, n)' = UnderWay(c, n)
      /\ \A c \in Contents : Begun(c) =>
           /\ sent'[c] = sent[c] /\ Needed(c)' = Needed(c)
           /\ Arrived(c)' = Arrived(c) /\ (Reflects(c) => Reflects(c)')
      /\ \A c \in Contents : Begun(c)' /\ ~Begun(c) => sent'[c].packets = 0
  BY StillUnderWay
<1>4. NewestReflects'
  <2> SUFFICES ASSUME NEW c \in Contents, Newest(c)', Arrived(c)' # Needed(c)'
               PROVE  Reflects(c)'
    BY DEF NewestReflects
  <2>1. Newest(c) /\ Begun(c)
    BY <1>3 DEF Newest, KnownInv, ObservedTypes
  <2> QED
    BY <1>1, <1>3, <2>1 DEF NewestReflects
<1>5. InSequence'
  <2> SUFFICES ASSUME NEW c \in Contents, NEW m \in Nat, NEW n \in Nat,
                      UnderWay(c, m)', m < n, n < sent'[c].packets
               PROVE  UnderWay(c, n)'
    BY DEF InSequence
  <2>1. Begun(c)
    <3>1. PICK q \in network : q.of = c
      BY <1>3 DEF UnderWay
    <3> QED
      BY <3>1 DEF KnownInv, BaseInv, NetInv, IsSent
  <2> QED
    BY <1>1, <1>3, <2>1 DEF InSequence
<1>6. SameCount'
  <2>1. TrailersThere' = TrailersThere
    BY <1>3 DEF TrailersThere
  <2>2. sinkStats'.frames = sinkStats.frames
    BY FailureCounted
    DEF SinkStill, SinkSteps, SinkStart, Render, SetCaps, SinkStop, SinkUnlock,
        SinkUnlockStop, RenderWrongLength, SendFails, streamVars, sinkVars,
        KnownInv, BaseInv, SinkInv
  <2> QED
    BY <1>1, <1>3, <2>1, <2>2 DEF SameCount
<1> QED
  BY <1>2, <1>4, <1>5, <1>6 DEF LosslessInv

(* The start.                                                              *)
LEMMA LosslessInit == StreamInit => LosslessInv
<1> SUFFICES ASSUME StreamInit PROVE LosslessInv
  OBVIOUS
<1>1. /\ network = {} /\ arrived = {} /\ stats.frames = 0 /\ sinkStats.frames = 0
  BY DEF StreamInit, Init, SinkInit
<1>2. NewestReflects /\ InSequence
  BY <1>1 DEF NewestReflects, Newest, InSequence, UnderWay
<1>3. SameCount
  <2>1. TrailersThere = {}
    BY <1>1 DEF TrailersThere
  <2> QED
    BY <1>1, <2>1, FS_EmptySet DEF SameCount
<1> QED
  BY <1>2, <1>3, ReorderInit DEF LosslessInv

(* A network that keeps the order and loses nothing delivers every frame   *)
(* that was sent to its end, over restarts and failed sends, and receiver  *)
(* and sender count the same frames.                                       *)
THEOREM OrderedReuseHolds == StreamSpec => []OrderedReuseIsFree
<1>1. KnownInv /\ KnownInv' /\ OrderInv /\ MixInv /\ LosslessInv
        /\ [StreamNext]_streamVars
        => (OrderInv /\ MixInv /\ LosslessInv)'
  <2> SUFFICES ASSUME KnownInv, KnownInv', OrderInv, MixInv, LosslessInv,
                      [StreamNext]_streamVars
               PROVE  OrderInv' /\ MixInv' /\ LosslessInv'
    OBVIOUS
  <2>1. abilities' = abilities
    BY StreamCases DEF SinkStill, SinkSends, Arrives, Arrive, Loses, Lose, Pause,
                       streamVars
  <2>2. CASE abilities = {"ordered", "faults"}
    <3>1. \/ SinkSends \/ SinkStill \/ UNCHANGED streamVars
          \/ \E q \in network : Arrives(q)
      BY <2>2, StreamCases DEF Pause, Loses, Lose
    <3> QED
      BY <2>2, <3>1, MixStep, LosslessArrives, LosslessSent, LosslessStill
  <2>3. CASE abilities # {"ordered", "faults"}
    BY <2>1, <2>3, MixStep DEF LosslessInv
  <2> QED
    BY <2>2, <2>3
<1>2. KnownInv /\ LosslessInv => OrderedReuseIsFree
  <2> SUFFICES ASSUME KnownInv, LosslessInv, abilities = {"ordered", "faults"},
                      network = {}
               PROVE  /\ \A c \in Contents : SentOut(c) => deliveries[c] = 1
                      /\ stats.frames = sinkStats.frames
    BY DEF OrderedReuseIsFree
  <2>1. \A c \in Contents : SentOut(c) => deliveries[c] = 1
    BY AllDelivered DEF LosslessInv
  <2>2. TrailersThere = {}
    BY DEF TrailersThere
  <2>3. Cardinality(TrailersThere) = 0 /\ stats.frames \in Nat
    BY <2>2, FS_EmptySet DEF KnownInv, ReceiverInv, TypeOK, StateOK, Stats
  <2> QED
    BY <2>1, <2>3 DEF LosslessInv, SameCount
<1> QED
  BY <1>1, <1>2, MixInit, LosslessInit, StreamKnown, PTL DEF StreamSpec
=============================================================================
