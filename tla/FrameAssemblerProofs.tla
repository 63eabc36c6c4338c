------------------------ MODULE FrameAssemblerProofs ------------------------
(***************************************************************************)
(* Proofs about FrameAssembler, for every set of frame ids, every packet   *)
(* id width, every payload content and every bound.                        *)
(***************************************************************************)
EXTENDS FrameAssembler, NatFacts, SequenceTheorems, FiniteSetTheorems, TLAPS

(* The run of buffered payloads that follows packetId ends somewhere, so   *)
(* the loop of flush_pending_payloads stops: RunEnd is well defined.       *)
LEMMA RunEndExists ==
  ASSUME NEW s \in PartialFrame
  PROVE  /\ RunEnd(s) \in s.packetId .. MaxId
         /\ IsRunEnd(s, RunEnd(s))
<1> USE MaxIdAssumption
<1> DEFINE Stops == {e \in s.packetId .. MaxId :
                       e < MaxId => s.pending[e + 1] = None}
<1>1. s.packetId \in Nat /\ s.packetId <= MaxId
  BY DEF PartialFrame, PacketIds
<1>2. Stops \in SUBSET Nat /\ MaxId \in Stops
  BY <1>1
<1>3. PICK e \in Stops : \A x \in Stops : e <= x
  <2> HIDE DEF Stops
  <2> QED BY <1>2, NatLeast
<1>4. \A p \in (s.packetId + 1) .. e : s.pending[p] # None
  <2> SUFFICES ASSUME NEW p \in (s.packetId + 1) .. e, s.pending[p] = None
               PROVE  FALSE
    OBVIOUS
  <2>1. p - 1 \in s.packetId .. MaxId /\ (p - 1) + 1 = p /\ p - 1 < e
    BY <1>1
  <2>2. p - 1 \in Stops
    BY <2>1
  <2> QED
    BY <2>1, <2>2, <1>1, <1>3
<1>5. e \in s.packetId .. MaxId /\ IsRunEnd(s, e)
  BY <1>4 DEF IsRunEnd
<1> HIDE DEF Stops
<1>6. \E x \in s.packetId .. MaxId : IsRunEnd(s, x)
  BY <1>5
<1> QED
  BY <1>6, Zenon DEF RunEnd

(* Flushing keeps a frame well typed and moves exactly the run: it extends *)
(* the image by the buffered contents up to RunEnd, in id order.           *)
LEMMA FlushedFacts ==
  ASSUME NEW s \in PartialFrame, Fits(s)
  PROVE  LET g == Flushed(s)
             e == RunEnd(s)
         IN  /\ g \in PartialFrame
             /\ g.packetId = e /\ g.len = s.len /\ g.trailer = s.trailer
             /\ Len(g.data) = Len(s.data) + (e - s.packetId)
             /\ \A i \in 1 .. Len(g.data) :
                  g.data[i] = IF i <= Len(s.data) THEN s.data[i]
                              ELSE s.pending[s.packetId + (i - Len(s.data))]
             /\ \A p \in PacketIds :
                  g.pending[p] = IF p \in (s.packetId + 1) .. e THEN None
                                 ELSE s.pending[p]
<1> DEFINE e == RunEnd(s)
           run == [i \in 1 .. (e - s.packetId) |-> s.pending[s.packetId + i]]
<1>1. /\ s.packetId \in Nat /\ s.packetId <= MaxId /\ MaxId \in Nat
      /\ s.data \in Seq(Bodies) /\ s.pending \in Buffer
      /\ s.len \in Nat \ {0} /\ 0 \in 0 .. Timeout
      /\ s.trailer \in PacketIds \cup {None} /\ s.offset \in Nat
  BY MaxIdAssumption, TimeoutAssumption DEF PartialFrame, PacketIds
<1>2. e \in s.packetId .. MaxId /\ IsRunEnd(s, e)
  BY RunEndExists
<1> HIDE DEF e
<1>3. e - s.packetId \in Nat
  BY <1>1, <1>2
<1>4. \A i \in 1 .. (e - s.packetId) : s.pending[s.packetId + i] \in Bodies
  <2> TAKE i \in 1 .. (e - s.packetId)
  <2>1. /\ s.packetId + i \in (s.packetId + 1) .. e
        /\ s.packetId + i \in PacketIds
    BY <1>1, <1>2, <1>3 DEF PacketIds
  <2> QED
    BY <2>1, <1>1, <1>2 DEF IsRunEnd, Buffer
<1>5. run \in Seq(Bodies) /\ Len(run) = e - s.packetId
  <2>1. run \in [1 .. (e - s.packetId) -> Bodies]
    BY <1>4
  <2> QED
    BY <2>1, <1>3, SeqDef
<1> DEFINE rest == [p \in PacketIds |-> IF p \in (s.packetId + 1) .. e
                                        THEN None ELSE s.pending[p]]
<1>6. rest \in Buffer
  BY <1>1 DEF Buffer
<1>7. Flushed(s) = [packetId |-> e, len |-> s.len, offset |-> FilledTo(s),
                    data |-> s.data \o run, pending |-> rest,
                    trailer |-> s.trailer, idle |-> 0]
  BY DEF Flushed, e
<1>8. /\ s.data \o run \in Seq(Bodies)
      /\ Len(s.data \o run) = Len(s.data) + (e - s.packetId)
      /\ \A i \in 1 .. Len(s.data) + Len(run) :
           (s.data \o run)[i] = IF i <= Len(s.data) THEN s.data[i]
                                ELSE run[i - Len(s.data)]
  <2> HIDE DEF run
  <2> QED BY <1>1, <1>5, ConcatProperties
<1>9. Len(s.data) \in Nat
  BY <1>1, LenProperties
<1>10. \A i \in 1 .. Len(s.data \o run) :
         (s.data \o run)[i] =
           IF i <= Len(s.data) THEN s.data[i]
           ELSE s.pending[s.packetId + (i - Len(s.data))]
  <2> TAKE i \in 1 .. Len(s.data \o run)
  <2>1. i > Len(s.data) => i - Len(s.data) \in 1 .. (e - s.packetId)
    BY <1>3, <1>8, <1>9
  <2> QED
    BY <2>1, <1>3, <1>5, <1>8, <1>9
<1>11. FilledTo(s) \in Nat
  BY <1>1 DEF Fits
<1>12. e \in PacketIds
  BY <1>1, <1>2 DEF PacketIds
<1> HIDE DEF run, rest
<1>13. Flushed(s) \in PartialFrame
  BY <1>1, <1>6, <1>7, <1>8, <1>11, <1>12 DEF PartialFrame
<1>14. /\ Flushed(s).packetId = e /\ Flushed(s).len = s.len
       /\ Flushed(s).trailer = s.trailer
       /\ Flushed(s).data = s.data \o run /\ Flushed(s).pending = rest
  BY <1>7 DEF PartialFrame
<1> QED
  BY <1>8, <1>10, <1>13, <1>14 DEF e, rest
---------------------------------------------------------------------------
(* The ways a call ends keep the types.                                    *)

(* Counting keeps the counters natural numbers (StreamStats).              *)
LEMMA CountType ==
  ASSUME stats \in Stats, NEW a \in Nat, NEW b \in Nat, NEW c \in Nat,
         NEW d \in Nat, Count(a, b, c, d)
  PROVE  stats' \in Stats
BY DEF Count, Stats

(* A packet that is ignored touches only the frame's idle time.            *)
LEMMA IgnoreType ==
  ASSUME StateOK, NEW f \in FrameIds, Live(f), Ignore(f)
  PROVE  StateOK'
<1>1. [frames[f] EXCEPT !.idle = 0] \in PartialFrame
  BY TimeoutAssumption DEF StateOK, PartialFrame, Live
<1>2. frames' = [frames EXCEPT ![f] = [frames[f] EXCEPT !.idle = 0]]
  BY DEF Ignore
<1>3. stats' \in Stats
  BY CountType DEF StateOK, Ignore
<1> QED
  BY <1>1, <1>2, <1>3 DEF StateOK, Ignore

(* Dropping a frame keeps the types (drop_frame).                          *)
LEMMA DiscardType ==
  ASSUME StateOK, NEW f \in FrameIds, NEW r \in DropReason, Discard(f, r)
  PROVE  StateOK'
<1>1. stats' \in Stats
  BY CountType DEF StateOK, Discard
<1> QED
  BY <1>1 DEF StateOK, Discard, Dropped, FrameEvent

(* Putting an unfinished frame back keeps the types.                       *)
LEMMA KeepType ==
  ASSUME StateOK, NEW f \in FrameIds, NEW s \in PartialFrame, Keep(f, s)
  PROVE  StateOK'
<1>1. stats' \in Stats
  BY CountType DEF StateOK, Keep
<1> QED
  BY <1>1 DEF StateOK, Keep

(* Emitting a frame keeps the types.                                       *)
LEMMA DeliverType ==
  ASSUME StateOK, NEW f \in FrameIds, NEW s \in PartialFrame, Deliver(f, s)
  PROVE  StateOK'
<1>1. stats' \in Stats
  BY CountType DEF StateOK, Deliver
<1>2. s.data \in Seq(Bodies)
  BY DEF PartialFrame
<1> QED
  BY <1>1, <1>2 DEF StateOK, Deliver, FrameEvent

(* reconcile_frame ends in exactly one of three ways.                      *)
LEMMA ReconcileEnds ==
  ASSUME NEW f \in FrameIds, NEW s \in PartialFrame, Reconcile(f, s)
  PROVE  \/ \E r \in DropReason : Discard(f, r)
         \/ /\ Fits(s) /\ RunEnd(s) < MaxId
            /\ Flushed(s).trailer # Flushed(s).packetId + 1
            /\ Keep(f, Flushed(s))
         \/ /\ Fits(s) /\ RunEnd(s) < MaxId
            /\ Flushed(s).trailer = Flushed(s).packetId + 1
            /\ Flushed(s).offset = Flushed(s).len
            /\ Deliver(f, Flushed(s))
BY DEF Reconcile, DropReason

(* All three ends of reconcile_frame keep the types.                       *)
LEMMA ReconcileType ==
  ASSUME StateOK, NEW f \in FrameIds, NEW s \in PartialFrame,
         Reconcile(f, s)
  PROVE  StateOK'
BY ReconcileEnds, FlushedFacts, DiscardType, KeepType, DeliverType

(* What a packet of each type carries is of the expected kind.             *)
LEMMA PacketFields ==
  ASSUME NEW p \in Packets
  PROVE  /\ p.frame \in FrameIds /\ p.id \in PacketIds
         /\ p.type = "leader" => p.len \in Nat
         /\ p.type = "payload" => p.body \in Bodies /\ Size[p.body] \in Nat
BY LengthsAssumption, BodiesAssumption
   DEF Packets, Leaders, Payloads, Trailers

(* ingest_leader keeps the types, accepted or rejected.                    *)
LEMMA IngestLeaderType ==
  ASSUME TypeOK, NEW p \in Packets, p.type = "leader", IngestLeader(p)
  PROVE  TypeOK'
<1> USE PacketFields DEF TypeOK
<1>1. CASE RejectLeader(p)
  <2>1. stats' \in Stats
    BY <1>1, CountType DEF RejectLeader, StateOK
  <2> QED
    BY <1>1, <2>1 DEF RejectLeader, StateOK, HistoryOK, history
<1>2. CASE AcceptLeader(p)
  <2>1. Empty \in Buffer
    BY DEF Empty, Buffer
  <2>2. NewFrame(p) \in PartialFrame
    <3>1. p.len \in Nat \ {0} /\ 0 \in 0 .. Timeout /\ << >> \in Seq(Bodies)
      BY <1>2, TimeoutAssumption DEF AcceptLeader
    <3> QED
      BY <2>1, <3>1 DEF NewFrame, PartialFrame
  <2>3. stats' \in Stats
    BY <1>2, CountType DEF AcceptLeader, StateOK
  <2>4. output' \subseteq FrameEvent
    BY <1>2 DEF AcceptLeader, Dropped, FrameEvent, DropReason
  <2>5. frames' \in [FrameIds -> PartialFrame \cup {None}]
    BY <1>2, <2>2 DEF AcceptLeader, StateOK
  <2>6. wire' \in [FrameIds -> Wire]
    BY <1>2, <2>1 DEF AcceptLeader, HistoryOK, Wire
  <2> QED
    BY <1>2, <2>3, <2>4, <2>5, <2>6 DEF AcceptLeader, StateOK, HistoryOK
<1> QED
  BY <1>1, <1>2 DEF IngestLeader

(* A packet without its leader keeps the types.                            *)
LEMMA OrphanType ==
  ASSUME TypeOK, NEW p \in Packets, NEW r \in DropReason, Orphan(p, r)
  PROVE  TypeOK'
<1>1. StateOK'
  BY DiscardType, PacketFields DEF Orphan, TypeOK
<1> QED
  BY <1>1 DEF Orphan, TypeOK, HistoryOK

(* What ObservePayload and ObserveTrailer record.                          *)
LEMMA ObservedPayload ==
  ASSUME HistoryOK, NEW p \in Packets, p.type = "payload", ObservePayload(p)
  PROVE  /\ HistoryOK'
         /\ \A f \in FrameIds : f # p.frame => wire'[f] = wire[f]
         /\ LET w == wire[p.frame]  v == wire'[p.frame] IN
            /\ v.lead = w.lead /\ v.len = w.len /\ v.end = w.end
            /\ \A q \in PacketIds :
                 v.got[q] = IF /\ q = p.id /\ Size[p.body] > 0
                               /\ q > w.lead /\ w.got[q] = None
                            THEN p.body ELSE w.got[q]
<1> DEFINE f == p.frame
           new == [wire[f].got EXCEPT ![p.id] = p.body]
<1>1. /\ f \in FrameIds /\ p.id \in PacketIds /\ p.body \in Bodies
      /\ wire[f] \in Wire /\ wire[f].got \in Buffer
      /\ wire \in [FrameIds -> Wire]
  BY PacketFields DEF HistoryOK, Wire
<1>2. CASE /\ Size[p.body] > 0
           /\ p.id > wire[f].lead
           /\ wire[f].got[p.id] = None
  <2>1. wire' = [wire EXCEPT ![f] = [wire[f] EXCEPT !.got = new]]
    BY <1>2 DEF ObservePayload
  <2>2. new \in Buffer
    BY <1>1 DEF Buffer
  <2>3. /\ [wire[f] EXCEPT !.got = new] \in Wire
        /\ wire'[f] = [wire[f] EXCEPT !.got = new]
    BY <1>1, <2>1, <2>2 DEF Wire
  <2>4. \A q \in PacketIds :
          new[q] = IF q = p.id THEN p.body ELSE wire[f].got[q]
    BY <1>1 DEF Buffer
  <2>5. /\ wire'[f].got = new /\ wire'[f].lead = wire[f].lead
        /\ wire'[f].len = wire[f].len /\ wire'[f].end = wire[f].end
    BY <2>3, <1>1 DEF Wire
  <2>6. /\ wire' \in [FrameIds -> Wire]
        /\ \A g \in FrameIds : g # f => wire'[g] = wire[g]
    BY <1>1, <2>1, <2>3
  <2> HIDE DEF new
  <2>7. \A q \in PacketIds :
          wire'[f].got[q] = IF /\ q = p.id /\ Size[p.body] > 0
                               /\ q > wire[f].lead /\ wire[f].got[q] = None
                            THEN p.body ELSE wire[f].got[q]
    BY <1>2, <2>4, <2>5
  <2>8. HistoryOK'
    BY <2>6 DEF HistoryOK, ObservePayload
  <2> QED
    BY <2>5, <2>6, <2>7, <2>8
<1>3. CASE ~ (/\ Size[p.body] > 0
              /\ p.id > wire[f].lead
              /\ wire[f].got[p.id] = None)
  BY <1>1, <1>3 DEF ObservePayload, HistoryOK
<1> QED
  BY <1>2, <1>3

(* Noting a trailer in the history changes only its frame's end, once.     *)
LEMMA ObservedTrailer ==
  ASSUME HistoryOK, NEW p \in Packets, ObserveTrailer(p)
  PROVE  /\ HistoryOK'
         /\ \A f \in FrameIds : f # p.frame => wire'[f] = wire[f]
         /\ LET w == wire[p.frame]  v == wire'[p.frame] IN
            /\ v.lead = w.lead /\ v.len = w.len /\ v.got = w.got
            /\ v.end = IF w.end = None THEN p.id ELSE w.end
<1> DEFINE f == p.frame
<1>1. /\ f \in FrameIds /\ p.id \in PacketIds /\ wire[f] \in Wire
      /\ wire \in [FrameIds -> Wire]
  BY PacketFields DEF HistoryOK
<1>2. CASE wire[f].end = None
  <2>1. wire' = [wire EXCEPT ![f] = [wire[f] EXCEPT !.end = p.id]]
    BY <1>2 DEF ObserveTrailer
  <2>2. [wire[f] EXCEPT !.end = p.id] \in Wire
    BY <1>1 DEF Wire
  <2>3. /\ wire' \in [FrameIds -> Wire]
        /\ \A g \in FrameIds : g # f => wire'[g] = wire[g]
        /\ wire'[f] = [wire[f] EXCEPT !.end = p.id]
    BY <1>1, <2>1, <2>2
  <2> QED
    BY <1>1, <1>2, <2>3 DEF HistoryOK, ObserveTrailer, Wire
<1>3. CASE wire[f].end # None
  BY <1>1, <1>3 DEF ObserveTrailer, HistoryOK
<1> QED
  BY <1>2, <1>3

(* Buffering a payload changes one entry of the frame's buffer.            *)
LEMMA WithPayload ==
  ASSUME NEW s \in PartialFrame, NEW id \in PacketIds, NEW b \in Bodies
  PROVE  LET t == [s EXCEPT !.pending[id] = b] IN
         /\ t \in PartialFrame
         /\ t.packetId = s.packetId /\ t.len = s.len
         /\ t.data = s.data /\ t.trailer = s.trailer
         /\ \A q \in PacketIds :
              t.pending[q] = IF q = id THEN b ELSE s.pending[q]
<1> DEFINE new == [s.pending EXCEPT ![id] = b]
           t == [s EXCEPT !.pending[id] = b]
<1>1. s.pending \in Buffer
  BY DEF PartialFrame
<1>2. /\ new \in Buffer
      /\ \A q \in PacketIds : new[q] = IF q = id THEN b ELSE s.pending[q]
  BY <1>1 DEF Buffer
<1>3. t = [s EXCEPT !.pending = new]
  OBVIOUS
<1> HIDE DEF new, t
<1>4. t \in PartialFrame
  BY <1>2, <1>3 DEF PartialFrame
<1>5. /\ t.pending = new /\ t.packetId = s.packetId /\ t.len = s.len
      /\ t.data = s.data /\ t.trailer = s.trailer
  BY <1>3 DEF PartialFrame
<1> QED
  BY <1>2, <1>4, <1>5 DEF t

(* ingest_payload keeps the types in each of its branches.                 *)
LEMMA IngestPayloadType ==
  ASSUME TypeOK, NEW p \in Packets, p.type = "payload", IngestPayload(p)
  PROVE  TypeOK'
<1> USE DEF DropReason
<1>1. CASE Orphan(p, "PayloadBeforeLeader")
  BY <1>1, OrphanType
<1>2. CASE Live(p.frame) /\ ObservePayload(p)
  <2> DEFINE s == frames[p.frame]
             t == [s EXCEPT !.pending[p.id] = p.body]
  <2>1. HistoryOK'
    BY <1>2, ObservedPayload DEF TypeOK
  <2>2. p.frame \in FrameIds /\ s \in PartialFrame /\ t \in PartialFrame
    BY <1>2, PacketFields, WithPayload DEF TypeOK, StateOK, Live
  <2> HIDE DEF t
  <2>3. \/ Ignore(p.frame) \/ (\E r \in DropReason : Discard(p.frame, r))
        \/ Reconcile(p.frame, t)
    BY <1>2 DEF IngestPayload, Orphan, t
  <2>4. StateOK'
    BY <1>2, <2>2, <2>3, IgnoreType, DiscardType, ReconcileType DEF TypeOK
  <2> QED
    BY <2>1, <2>4 DEF TypeOK
<1> QED
  BY <1>1, <1>2 DEF IngestPayload

(* ingest_trailer keeps the types in each of its branches.                 *)
LEMMA IngestTrailerType ==
  ASSUME TypeOK, NEW p \in Packets, p.type = "trailer", IngestTrailer(p)
  PROVE  TypeOK'
<1> USE DEF DropReason
<1>1. CASE Orphan(p, "TrailerBeforeLeader")
  BY <1>1, OrphanType
<1>2. CASE Live(p.frame) /\ ObserveTrailer(p)
  <2> DEFINE s == frames[p.frame]
             t == [s EXCEPT !.trailer = p.id]
  <2>1. HistoryOK'
    BY <1>2, ObservedTrailer DEF TypeOK
  <2>2. p.frame \in FrameIds /\ s \in PartialFrame
    BY <1>2, PacketFields DEF TypeOK, StateOK, Live
  <2>3. t \in PartialFrame
    BY <2>2, PacketFields DEF PartialFrame
  <2> HIDE DEF t
  <2>4. \/ Ignore(p.frame) \/ (\E r \in DropReason : Discard(p.frame, r))
        \/ Reconcile(p.frame, t)
    BY <1>2 DEF IngestTrailer, Orphan, t
  <2>5. StateOK'
    BY <1>2, <2>2, <2>3, <2>4, IgnoreType, DiscardType, ReconcileType
       DEF TypeOK
  <2> QED
    BY <2>1, <2>5 DEF TypeOK
<1> QED
  BY <1>1, <1>2 DEF IngestTrailer

(* reap_timeouts keeps the types.                                          *)
LEMMA ReapType ==
  ASSUME TypeOK, ReapTimeouts
  PROVE  TypeOK'
<1>1. Cardinality(Expired) \in Nat
  BY FrameIdsAssumption, FS_Subset, FS_CardinalityType DEF Expired, LiveFrames
<1>2. stats' \in Stats
  BY <1>1, CountType DEF ReapTimeouts, TypeOK, StateOK
<1>3. frames' \in [FrameIds -> PartialFrame \cup {None}]
  BY DEF ReapTimeouts, TypeOK, StateOK
<1>4. output' \subseteq FrameEvent
  BY DEF ReapTimeouts, Expired, LiveFrames, Dropped, FrameEvent, DropReason
<1>5. StateOK'
  BY <1>2, <1>3, <1>4 DEF StateOK
<1> QED
  BY <1>5 DEF ReapTimeouts, TypeOK, HistoryOK, history

(* Ageing a frame changes nothing but its idle time.                       *)
LEMMA AgedType ==
  ASSUME NEW s \in PartialFrame \cup {None}
  PROVE  /\ Aged(s) \in PartialFrame \cup {None}
         /\ s # None =>
              /\ Aged(s) # None /\ Aged(s).packetId = s.packetId
              /\ Aged(s).len = s.len /\ Aged(s).data = s.data
              /\ Aged(s).trailer = s.trailer /\ Aged(s).pending = s.pending
         /\ s = None => Aged(s) = None
<1>1. CASE s # None /\ s.idle < Timeout
  <2>1. s \in PartialFrame /\ s.idle + 1 \in 0 .. Timeout
    BY <1>1, TimeoutAssumption DEF PartialFrame
  <2>2. Aged(s) = [s EXCEPT !.idle = s.idle + 1]
    BY <1>1 DEF Aged
  <2>3. Aged(s) \in PartialFrame
    BY <2>1, <2>2 DEF PartialFrame
  <2> QED
    BY <1>1, <2>1, <2>2, <2>3, NoneAssumption DEF PartialFrame
<1>2. CASE ~(s # None /\ s.idle < Timeout)
  BY <1>2 DEF Aged
<1> QED
  BY <1>1, <1>2

(* The passing of time keeps the types.                                    *)
LEMMA TickType ==
  ASSUME TypeOK, Tick
  PROVE  TypeOK'
BY AgedType DEF Tick, TypeOK, StateOK, HistoryOK, history

(* TypeOK holds in every reachable state of the assembler.                 *)
THEOREM TypeCorrect == Spec => []TypeOK
<1>1. Init => TypeOK
  BY MaxIdAssumption
     DEF Init, TypeOK, StateOK, HistoryOK, Stats, Wire, Empty, Buffer,
         PacketIds
<1>2. TypeOK /\ [Next]_vars => TypeOK'
  <2> SUFFICES ASSUME TypeOK, [Next]_vars PROVE TypeOK'
    OBVIOUS
  <2>1. ASSUME NEW p \in Packets, Ingest(p) PROVE TypeOK'
    BY <2>1, IngestLeaderType, IngestPayloadType, IngestTrailerType
       DEF Ingest
  <2>2. CASE ReapTimeouts
    BY <2>2, ReapType
  <2>3. CASE Tick
    BY <2>3, TickType
  <2>4. CASE UNCHANGED vars
    BY <2>4 DEF vars, history, TypeOK, StateOK, HistoryOK
  <2> QED
    BY <2>1, <2>2, <2>3, <2>4 DEF Next
<1> QED
  BY <1>1, <1>2, PTL DEF Spec
---------------------------------------------------------------------------
(* The assembly invariant                                                  *)

(* What a slot of the map must satisfy given what arrived for its id.      *)
Sound(s, w) == s # None => Holds(s, w) /\ IsReconciled(s)

AllSound == \A f \in FrameIds : Sound(frames[f], wire[f])

AssemblyInv == TypeOK /\ AllSound /\ DeliveredInOrder

(* Moving the run into the image keeps the frame equal to what arrived.    *)
LEMMA FlushedHolds ==
  ASSUME NEW s \in PartialFrame, NEW w \in Wire, Holds(s, w), Fits(s)
  PROVE  Holds(Flushed(s), w)
<1> DEFINE g == Flushed(s)
           e == RunEnd(s)
           n == Len(s.data)
<1>1. /\ s.packetId \in Nat /\ w.lead \in Nat /\ MaxId \in Nat
      /\ n \in Nat /\ w.lead + n = s.packetId
  BY MaxIdAssumption, LenProperties DEF PartialFrame, Wire, PacketIds, Holds
<1>2. e \in s.packetId .. MaxId
  BY RunEndExists
<1>3. /\ g.packetId = e /\ g.len = s.len /\ g.trailer = s.trailer
      /\ Len(g.data) = n + (e - s.packetId)
      /\ \A i \in 1 .. Len(g.data) :
           g.data[i] = IF i <= n THEN s.data[i]
                       ELSE s.pending[s.packetId + (i - n)]
      /\ \A p \in PacketIds :
           g.pending[p] = IF p \in (s.packetId + 1) .. e THEN None
                          ELSE s.pending[p]
  BY FlushedFacts
<1> HIDE DEF g, e
<1>4. \A i \in 1 .. Len(g.data) : g.data[i] = w.got[w.lead + i]
  <2> TAKE i \in 1 .. Len(g.data)
  <2>1. CASE i <= n
    BY <1>1, <1>2, <1>3, <2>1 DEF Holds
  <2>2. CASE i > n
    <3> HIDE DEF n
    <3>1. i \in Nat /\ i <= n + (e - s.packetId)
      BY <1>1, <1>2, <1>3
    <3>2. s.packetId + (i - n) = w.lead + i
      BY <1>1, <3>1
    <3>3. /\ w.lead + i > s.packetId /\ w.lead + i <= e
          /\ w.lead + i \in PacketIds
      BY <1>1, <1>2, <2>2, <3>1 DEF PacketIds
    <3>4. s.pending[w.lead + i] = w.got[w.lead + i]
      BY <3>3 DEF Holds
    <3>5. g.data[i] = s.pending[s.packetId + (i - n)]
      BY <1>1, <1>3, <2>2, <3>1
    <3> QED
      BY <3>2, <3>4, <3>5
  <2>3. i <= n \/ i > n
    BY <1>1, <1>2, <1>3
  <2> QED
    BY <2>1, <2>2, <2>3
<1>5. \A p \in PacketIds :
        g.pending[p] = IF p > g.packetId THEN w.got[p] ELSE None
  BY <1>1, <1>2, <1>3 DEF Holds, PacketIds
<1>6. w.lead + Len(g.data) = g.packetId
  BY <1>1, <1>2, <1>3
<1>7. Holds(g, w)
  BY <1>3, <1>4, <1>5, <1>6 DEF Holds
<1> QED
  BY <1>7 DEF g

(* A flushed frame that is not complete cannot go on from its own buffer.  *)
LEMMA FlushedReconciled ==
  ASSUME NEW s \in PartialFrame, Fits(s), RunEnd(s) < MaxId,
         Flushed(s).trailer # Flushed(s).packetId + 1
  PROVE  IsReconciled(Flushed(s))
<1> DEFINE e == RunEnd(s)
<1>1. /\ e \in s.packetId .. MaxId /\ s.pending[e + 1] = None
      /\ s.packetId \in Nat /\ MaxId \in Nat
  BY RunEndExists, MaxIdAssumption DEF IsRunEnd, PartialFrame, PacketIds
<1>2. Flushed(s).packetId = e /\ e + 1 \in PacketIds
  BY <1>1, FlushedFacts DEF PacketIds
<1>3. Flushed(s).pending[e + 1] = s.pending[e + 1]
  BY <1>1, <1>2, FlushedFacts
<1> QED
  BY <1>1, <1>2, <1>3 DEF IsReconciled

(* The three ends of reconcile_frame re-establish the invariant for the    *)
(* frame they concern, and only touch that frame.                          *)
Others(f) == \A h \in FrameIds : h # f => frames'[h] = frames[h]

(* reconcile_frame leaves its frame sound and emits in order.              *)
LEMMA ReconcileSound ==
  ASSUME StateOK, NEW f \in FrameIds, NEW s \in PartialFrame,
         NEW w \in Wire, Holds(s, w), Reconcile(f, s), wire'[f] = w
  PROVE  /\ Others(f) /\ Sound(frames'[f], wire'[f])
         /\ DeliveredInOrder'
<1>1. CASE \E r \in DropReason : Discard(f, r)
  BY <1>1 DEF Discard, Dropped, Others, Sound, DeliveredInOrder, StateOK
<1>2. CASE /\ Fits(s) /\ RunEnd(s) < MaxId
           /\ Flushed(s).trailer # Flushed(s).packetId + 1
           /\ Keep(f, Flushed(s))
  <2>1. Holds(Flushed(s), w) /\ IsReconciled(Flushed(s))
    BY <1>2, FlushedHolds, FlushedReconciled
  <2>2. Others(f) /\ frames'[f] = Flushed(s) /\ output' = {}
    BY <1>2 DEF Keep, StateOK, Others
  <2> QED
    BY <2>1, <2>2 DEF Sound, DeliveredInOrder
<1>3. CASE /\ Fits(s) /\ RunEnd(s) < MaxId
           /\ Flushed(s).trailer = Flushed(s).packetId + 1
           /\ Deliver(f, Flushed(s))
  <2>1. Holds(Flushed(s), w)
    BY <1>3, FlushedHolds
  <2>2. /\ Others(f) /\ frames'[f] = None
        /\ output' = {[kind |-> "complete", frame |-> f,
                       data |-> Flushed(s).data]}
    BY <1>3 DEF Deliver, StateOK, Others
  <2>3. w.end = w.lead + Len(Flushed(s).data) + 1
    BY <1>3, <2>1 DEF Holds
  <2> QED
    BY <2>1, <2>2, <2>3 DEF Sound, DeliveredInOrder, Holds
<1> QED
  BY <1>1, <1>2, <1>3, ReconcileEnds

(* Dropping a frame leaves the others sound.                               *)
LEMMA DiscardSound ==
  ASSUME StateOK, NEW f \in FrameIds, NEW r, Discard(f, r)
  PROVE  /\ Others(f) /\ Sound(frames'[f], wire'[f])
         /\ DeliveredInOrder'
BY DEF Discard, Dropped, Others, Sound, DeliveredInOrder, StateOK

(* Ignoring a packet leaves its frame and the others sound.                *)
LEMMA IgnoreSound ==
  ASSUME StateOK, NEW f \in FrameIds, Live(f), Ignore(f),
         Holds(frames[f], wire'[f]), IsReconciled(frames[f])
  PROVE  /\ Others(f) /\ Sound(frames'[f], wire'[f])
         /\ DeliveredInOrder'
<1> DEFINE s == frames[f]
           t == [s EXCEPT !.idle = 0]
<1>1. s \in PartialFrame
  BY DEF StateOK, Live
<1>2. frames' = [frames EXCEPT ![f] = t] /\ output' = {}
  BY DEF Ignore
<1>3. /\ t.packetId = s.packetId /\ t.len = s.len /\ t.data = s.data
      /\ t.pending = s.pending /\ t.trailer = s.trailer
  BY <1>1 DEF PartialFrame
<1> HIDE DEF t
<1>4. Holds(t, wire'[f]) /\ IsReconciled(t)
  BY <1>3 DEF Holds, IsReconciled
<1> QED
  BY <1>2, <1>4 DEF Others, Sound, DeliveredInOrder, StateOK

(* ingest_leader keeps the frames sound: an accepted one starts empty.     *)
LEMMA LeaderSound ==
  ASSUME AssemblyInv, NEW p \in Packets, p.type = "leader", IngestLeader(p)
  PROVE  AllSound' /\ DeliveredInOrder'
<1>1. CASE RejectLeader(p)
  BY <1>1 DEF RejectLeader, AssemblyInv, AllSound, DeliveredInOrder, history
<1>2. CASE AcceptLeader(p)
  <2> DEFINE f == p.frame
             v == [lead |-> p.id, len |-> p.len, got |-> Empty, end |-> None]
  <2>1. /\ f \in FrameIds /\ p.id \in PacketIds
    BY PacketFields
  <2>2. /\ frames' = [frames EXCEPT ![f] = NewFrame(p)]
        /\ wire' = [wire EXCEPT ![f] = v]
        /\ output' \in {{}, {Dropped(f, "DuplicateLeader")}}
    BY <1>2 DEF AcceptLeader
  <2>3. p.id \in Nat /\ p.id < MaxId => p.id + 1 \in PacketIds
    BY <2>1, MaxIdAssumption DEF PacketIds
  <2>4. Holds(NewFrame(p), v) /\ IsReconciled(NewFrame(p))
    <3>1. /\ NewFrame(p).packetId = p.id /\ NewFrame(p).len = p.len
          /\ NewFrame(p).data = << >> /\ NewFrame(p).pending = Empty
          /\ NewFrame(p).trailer = None
      BY DEF NewFrame
    <3>2. p.id \in Nat /\ p.id + 0 = p.id /\ Len(<< >>) = 0
      BY <2>1, MaxIdAssumption DEF PacketIds
    <3>3. None # p.id + 1
      BY <3>2, NoneAssumption
    <3> QED
      BY <2>3, <3>1, <3>2, <3>3 DEF Holds, IsReconciled, Empty
  <2> HIDE DEF v
  <2>5. /\ frames'[f] = NewFrame(p) /\ wire'[f] = v
        /\ \A h \in FrameIds : h # f => /\ frames'[h] = frames[h]
                                       /\ wire'[h] = wire[h]
    BY <2>1, <2>2 DEF AssemblyInv, TypeOK, StateOK, HistoryOK
  <2> QED
    BY <2>2, <2>4, <2>5
       DEF AssemblyInv, AllSound, Sound, DeliveredInOrder, Dropped
<1> QED
  BY <1>1, <1>2 DEF IngestLeader

(* A packet without its leader keeps the frames sound.                     *)
LEMMA OrphanSound ==
  ASSUME AssemblyInv, NEW p \in Packets, NEW r, Orphan(p, r)
  PROVE  AllSound' /\ DeliveredInOrder'
<1>1. p.frame \in FrameIds /\ StateOK /\ Discard(p.frame, r) /\ wire' = wire
  BY PacketFields DEF Orphan, AssemblyInv, TypeOK
<1> QED
  BY <1>1, DiscardSound DEF Others, AssemblyInv, AllSound

(* An id after the leader and up to packetId has a place in the image.     *)
LEMMA PlaceInImage ==
  ASSUME NEW lead \in Nat, NEW n \in Nat, NEW id \in Nat,
         id > lead, id <= lead + n
  PROVE  id - lead \in 1 .. n /\ lead + (id - lead) = id
OBVIOUS

(* A payload that is repeated was received before.                         *)
LEMMA RepeatedKnown ==
  ASSUME NEW s \in PartialFrame, NEW w \in Wire, Holds(s, w),
         NEW id \in PacketIds, Repeated(s, id), id > w.lead
  PROVE  w.got[id] # None
<1>1. /\ s.packetId \in Nat /\ w.lead \in Nat /\ id \in Nat
      /\ Len(s.data) \in Nat /\ w.lead + Len(s.data) = s.packetId
  BY MaxIdAssumption, LenProperties DEF PartialFrame, Wire, PacketIds, Holds
<1>2. CASE s.pending[id] # None
  BY <1>2 DEF Holds
<1>3. CASE id <= s.packetId
  <2>1. id - w.lead \in 1 .. Len(s.data) /\ w.lead + (id - w.lead) = id
    <3>1. id > w.lead /\ id <= w.lead + Len(s.data)
      BY <1>1, <1>3
    <3> QED
      BY <1>1, <3>1, PlaceInImage
  <2>2. w.got[id] = s.data[id - w.lead]
    BY <2>1 DEF Holds
  <2>3. s.data \in Seq(Bodies)
    BY DEF PartialFrame
  <2> QED
    BY <2>1, <2>2, <2>3, ElementOfSeq, NoneAssumption
<1> QED
  BY <1>2, <1>3 DEF Repeated

(* What a payload p changes of what was received, from w to v, and that    *)
(* the frame s holds it: a repeated or empty one changes nothing, another  *)
(* one is buffered, in t.                                                  *)
Taken(p, s, w, v, t) ==
  /\ s \in PartialFrame /\ w \in Wire /\ v \in Wire
  /\ Holds(s, w) /\ IsReconciled(s)
  /\ v.lead = w.lead /\ v.len = w.len /\ v.end = w.end
  /\ Repeated(s, p.id) \/ Size[p.body] = 0 => v.got = w.got /\ Holds(s, v)
  /\ ~Repeated(s, p.id) /\ Size[p.body] > 0 =>
       /\ t \in PartialFrame /\ Holds(t, v)
       /\ p.id > s.packetId /\ s.pending[p.id] = None
       /\ t.packetId = s.packetId /\ t.len = s.len /\ t.offset = s.offset
       /\ \A q \in PacketIds :
            /\ t.pending[q] = IF q = p.id THEN p.body ELSE s.pending[q]
            /\ v.got[q] = IF q = p.id THEN p.body ELSE w.got[q]

(* So it is when a payload arrives for a live frame.                       *)
LEMMA PayloadArrives ==
  ASSUME AssemblyInv, NEW p \in Packets, p.type = "payload", Live(p.frame),
         ObservePayload(p), NEW s, s = frames[p.frame],
         NEW w, w = wire[p.frame], NEW v, v = wire'[p.frame],
         NEW t, t = [s EXCEPT !.pending[p.id] = p.body]
  PROVE  /\ Taken(p, s, w, v, t)
         /\ \A h \in FrameIds : h # p.frame => wire'[h] = wire[h]
<1> DEFINE f == p.frame
<1>1. /\ f \in FrameIds /\ p.id \in PacketIds /\ p.body \in Bodies
      /\ s \in PartialFrame /\ w \in Wire /\ HistoryOK
  BY PacketFields DEF AssemblyInv, TypeOK, StateOK, HistoryOK, Live
<1>2. /\ HistoryOK' /\ v \in Wire
      /\ \A h \in FrameIds : h # f => wire'[h] = wire[h]
      /\ v.lead = w.lead /\ v.len = w.len /\ v.end = w.end
      /\ \A q \in PacketIds :
           v.got[q] = IF /\ q = p.id /\ Size[p.body] > 0
                         /\ q > w.lead /\ w.got[q] = None
                      THEN p.body ELSE w.got[q]
  BY <1>1, ObservedPayload DEF HistoryOK
<1>3. Holds(s, w) /\ IsReconciled(s)
  BY <1>1 DEF AssemblyInv, AllSound, Sound, Live
<1>4. /\ s.packetId \in Nat /\ w.lead \in Nat /\ p.id \in Nat
      /\ Len(s.data) \in Nat /\ w.lead + Len(s.data) = s.packetId
      /\ s.packetId <= MaxId /\ MaxId \in Nat
  BY <1>1, <1>3, MaxIdAssumption, LenProperties
     DEF PartialFrame, Wire, PacketIds, Holds
<1>5. ASSUME Repeated(s, p.id) \/ Size[p.body] = 0
      PROVE  v.got = w.got /\ Holds(s, v)
  <2>1. \A q \in PacketIds : v.got[q] = w.got[q]
    <3>1. CASE Size[p.body] = 0
      BY <1>2, <3>1
    <3>2. CASE Repeated(s, p.id)
      <4>1. p.id > w.lead => w.got[p.id] # None
        BY <1>1, <1>3, <3>2, RepeatedKnown
      <4> QED
        BY <1>2, <4>1
    <3> QED
      BY <1>5, <3>1, <3>2
  <2>2. v.got = w.got
    BY <1>1, <1>2, <2>1 DEF Wire, Buffer
  <2> QED
    BY <1>2, <1>3, <2>2 DEF Holds
<1>6. ASSUME ~Repeated(s, p.id), Size[p.body] > 0
      PROVE  /\ t \in PartialFrame /\ Holds(t, v)
             /\ p.id > s.packetId /\ s.pending[p.id] = None
             /\ t.packetId = s.packetId /\ t.len = s.len /\ t.offset = s.offset
             /\ \A q \in PacketIds :
                  /\ t.pending[q] = IF q = p.id THEN p.body ELSE s.pending[q]
                  /\ v.got[q] = IF q = p.id THEN p.body ELSE w.got[q]
  <2>1. /\ t \in PartialFrame
        /\ t.packetId = s.packetId /\ t.len = s.len
        /\ t.data = s.data /\ t.trailer = s.trailer
        /\ \A q \in PacketIds :
             t.pending[q] = IF q = p.id THEN p.body ELSE s.pending[q]
    BY <1>1, WithPayload
  <2>2. p.id > s.packetId /\ s.pending[p.id] = None
    BY <1>4, <1>6 DEF Repeated
  <2>3. w.got[p.id] = None /\ p.id > w.lead
    BY <1>1, <1>3, <1>4, <2>2 DEF Holds
  <2>4. \A q \in PacketIds :
          v.got[q] = IF q = p.id THEN p.body ELSE w.got[q]
    BY <1>2, <1>6, <2>3
  <2>5. \A q \in PacketIds :
          t.pending[q] = IF q > t.packetId THEN v.got[q] ELSE None
    BY <1>3, <2>1, <2>2, <2>4 DEF Holds
  <2>6. \A i \in 1 .. Len(s.data) :
          w.lead + i \in PacketIds /\ w.lead + i # p.id
    <3> DEFINE n == Len(s.data)
    <3>1. n \in Nat /\ w.lead + n = s.packetId
      BY <1>4
    <3> HIDE DEF n
    <3>2. \A i \in 1 .. n : w.lead + i \in Nat /\ w.lead + i <= s.packetId
      BY <1>4, <3>1
    <3> QED
      BY <1>4, <2>2, <3>2 DEF PacketIds, n
  <2>7. Holds(t, v)
    BY <1>2, <1>3, <2>1, <2>4, <2>5, <2>6 DEF Holds
  <2>8. t.offset = s.offset
    BY <1>1 DEF PartialFrame
  <2> QED
    BY <2>1, <2>2, <2>4, <2>7, <2>8
<1> QED
  BY <1>1, <1>2, <1>3, <1>5, <1>6 DEF Taken

(* ingest_payload keeps the frames sound: a repeated payload is not taken. *)
LEMMA PayloadSound ==
  ASSUME AssemblyInv, NEW p \in Packets, p.type = "payload", IngestPayload(p)
  PROVE  AllSound' /\ DeliveredInOrder'
<1>1. CASE Orphan(p, "PayloadBeforeLeader")
  BY <1>1, OrphanSound
<1>2. CASE Live(p.frame) /\ ObservePayload(p)
  <2> DEFINE f == p.frame
             s == frames[f]
             w == wire[f]
             v == wire'[f]
             t == [s EXCEPT !.pending[p.id] = p.body]
  <2>0. /\ f \in FrameIds /\ StateOK /\ Live(f) /\ Taken(p, s, w, v, t)
        /\ \A h \in FrameIds : h # f => wire'[h] = wire[h]
    BY <1>2, PacketFields, PayloadArrives DEF AssemblyInv, TypeOK
  <2>1. /\ f \in FrameIds /\ StateOK /\ Live(f)
        /\ s \in PartialFrame /\ v \in Wire /\ IsReconciled(s)
        /\ \A h \in FrameIds : h # f => wire'[h] = wire[h]
        /\ Repeated(s, p.id) \/ Size[p.body] = 0 => Holds(s, v)
        /\ ~Repeated(s, p.id) /\ Size[p.body] > 0 =>
             t \in PartialFrame /\ Holds(t, v)
    BY <2>0 DEF Taken
  <2> HIDE DEF v, t
  <2>2. CASE (Repeated(s, p.id) \/ Size[p.body] = 0) /\ Ignore(f)
    BY <2>1, <2>2, IgnoreSound DEF Others, AssemblyInv, AllSound, v
  <2>3. CASE \E r \in DropReason : Discard(f, r)
    BY <2>1, <2>3, DiscardSound DEF Others, AssemblyInv, AllSound
  <2>4. CASE ~Repeated(s, p.id) /\ Size[p.body] > 0 /\ Reconcile(f, t)
    BY <2>1, <2>4, ReconcileSound DEF Others, AssemblyInv, AllSound, v
  <2> QED
    BY <1>2, <2>2, <2>3, <2>4 DEF IngestPayload, Orphan, DropReason, t
<1> QED
  BY <1>1, <1>2 DEF IngestPayload

(* ingest_trailer keeps the frames sound.                                  *)
LEMMA TrailerSound ==
  ASSUME AssemblyInv, NEW p \in Packets, p.type = "trailer", IngestTrailer(p)
  PROVE  AllSound' /\ DeliveredInOrder'
<1>1. CASE Orphan(p, "TrailerBeforeLeader")
  BY <1>1, OrphanSound
<1>2. CASE Live(p.frame) /\ ObserveTrailer(p)
  <2> DEFINE f == p.frame
             s == frames[f]
             w == wire[f]
             v == wire'[f]
             t == [s EXCEPT !.trailer = p.id]
  <2>1. /\ f \in FrameIds /\ p.id \in PacketIds
        /\ s \in PartialFrame /\ w \in Wire /\ StateOK /\ HistoryOK
        /\ Live(f) /\ ObserveTrailer(p)
    BY <1>2, PacketFields
       DEF AssemblyInv, TypeOK, StateOK, HistoryOK, Live
  <2>2. /\ HistoryOK' /\ v \in Wire
        /\ \A h \in FrameIds : h # f => wire'[h] = wire[h]
        /\ v.lead = w.lead /\ v.len = w.len /\ v.got = w.got
        /\ v.end = IF w.end = None THEN p.id ELSE w.end
    BY <2>1, ObservedTrailer DEF HistoryOK
  <2>3. Holds(s, w) /\ IsReconciled(s)
    BY <2>1 DEF AssemblyInv, AllSound, Sound, Live
  <2> HIDE DEF v, t
  <2>4. CASE s.trailer = p.id /\ Ignore(f)
    <3>1. p.id # None
      BY <2>1, NoneAssumption, MaxIdAssumption DEF PacketIds
    <3>2. Holds(s, v)
      BY <2>2, <2>3, <2>4, <3>1 DEF Holds
    <3> QED
      BY <2>1, <2>2, <2>3, <2>4, <3>2, IgnoreSound
         DEF Others, AssemblyInv, AllSound, v
  <2>5. CASE \E r \in DropReason : Discard(f, r)
    BY <2>1, <2>2, <2>5, DiscardSound DEF Others, AssemblyInv, AllSound
  <2>6. CASE s.trailer = None /\ Reconcile(f, t)
    <3>1. /\ t \in PartialFrame /\ t.trailer = p.id
          /\ t.packetId = s.packetId /\ t.len = s.len
          /\ t.data = s.data /\ t.pending = s.pending
      BY <2>1 DEF PartialFrame, t
    <3>2. Holds(t, v)
      BY <2>2, <2>3, <2>6, <3>1 DEF Holds
    <3> QED
      BY <2>1, <2>2, <2>6, <3>1, <3>2, ReconcileSound
         DEF Others, AssemblyInv, AllSound, v
  <2> QED
    BY <1>2, <2>4, <2>5, <2>6 DEF IngestTrailer, Orphan, DropReason, t
<1> QED
  BY <1>1, <1>2 DEF IngestTrailer

(* The passing of time keeps the frames sound.                             *)
LEMMA TickSound ==
  ASSUME AssemblyInv, Tick
  PROVE  AllSound' /\ DeliveredInOrder'
<1>1. \A f \in FrameIds : frames[f] \in PartialFrame \cup {None}
  BY DEF AssemblyInv, TypeOK, StateOK
<1>2. ASSUME NEW f \in FrameIds PROVE Sound(frames'[f], wire'[f])
  <2>1. frames'[f] = Aged(frames[f]) /\ wire'[f] = wire[f]
    BY DEF Tick, history
  <2>2. Sound(frames[f], wire[f])
    BY DEF AssemblyInv, AllSound
  <2>3. /\ frames[f] # None =>
             /\ frames'[f].packetId = frames[f].packetId
             /\ frames'[f].len = frames[f].len
             /\ frames'[f].data = frames[f].data
             /\ frames'[f].trailer = frames[f].trailer
             /\ frames'[f].pending = frames[f].pending
        /\ frames[f] = None => frames'[f] = None
    BY <1>1, <2>1, AgedType
  <2> QED
    BY <2>1, <2>2, <2>3 DEF Sound, Holds, IsReconciled
<1> QED
  BY <1>2 DEF Tick, AllSound, DeliveredInOrder

(* reap_timeouts keeps the remaining frames sound.                         *)
LEMMA ReapSound ==
  ASSUME AssemblyInv, ReapTimeouts
  PROVE  AllSound' /\ DeliveredInOrder'
BY DEF ReapTimeouts, AssemblyInv, AllSound, Sound, DeliveredInOrder, Dropped,
       history

(* The inductive invariant holds in every reachable state.                 *)
LEMMA AssemblyInvHolds == Spec => []AssemblyInv
<1>1. Init => AssemblyInv
  <2>1. Init => TypeOK
    BY MaxIdAssumption
       DEF Init, TypeOK, StateOK, HistoryOK, Stats, Wire, Empty, Buffer,
           PacketIds
  <2> QED
    BY <2>1 DEF Init, AssemblyInv, AllSound, Sound, DeliveredInOrder
<1>2. TypeOK /\ TypeOK' /\ AssemblyInv /\ [Next]_vars => AssemblyInv'
  <2> SUFFICES ASSUME TypeOK', AssemblyInv, [Next]_vars
               PROVE  AllSound' /\ DeliveredInOrder'
    BY DEF AssemblyInv
  <2>1. ASSUME NEW p \in Packets, Ingest(p)
        PROVE  AllSound' /\ DeliveredInOrder'
    BY <2>1, LeaderSound, PayloadSound, TrailerSound DEF Ingest
  <2>2. CASE ReapTimeouts
    BY <2>2, ReapSound
  <2>3. CASE Tick
    BY <2>3, TickSound
  <2>4. CASE UNCHANGED vars
    BY <2>4
       DEF vars, history, AssemblyInv, AllSound, DeliveredInOrder
  <2> QED
    BY <2>1, <2>2, <2>3, <2>4 DEF Next
<1> QED
  BY <1>1, <1>2, TypeCorrect, PTL DEF Spec

(* Every emitted frame is its packets' contents in packet id order, with   *)
(* none missing, under any loss, duplication and reordering.               *)
THEOREM DeliveryCorrect == Spec => []DeliveredInOrder
<1>1. AssemblyInv => DeliveredInOrder
  BY DEF AssemblyInv
<1> QED
  BY <1>1, AssemblyInvHolds, PTL

(* An unfinished frame holds exactly what arrived for it.                  *)
THEOREM HoldingCorrect == Spec => []HoldsWhatArrived
<1>1. AssemblyInv => HoldsWhatArrived
  BY DEF AssemblyInv, AllSound, Sound, HoldsWhatArrived, Live
<1> QED
  BY <1>1, AssemblyInvHolds, PTL

(* No frame that could advance or be emitted is left waiting.              *)
THEOREM ReconciliationCorrect == Spec => []Reconciled
<1>1. AssemblyInv => Reconciled
  BY DEF AssemblyInv, AllSound, Sound, Reconciled, Live
<1> QED
  BY <1>1, AssemblyInvHolds, PTL
---------------------------------------------------------------------------
(* Conservation of frames                                                  *)

(* The frames in the map can be counted.                                   *)
LEMMA LiveFramesFinite ==
  /\ IsFiniteSet(LiveFrames)
  /\ Cardinality(LiveFrames) \in Nat
BY FrameIdsAssumption, FS_Subset, FS_CardinalityType DEF LiveFrames

(* Emptying the slot of a frame takes one frame out of the map; filling it *)
(* puts one in when it was empty.                                          *)
LEMMA SlotEmptied ==
  ASSUME StateOK, NEW f \in FrameIds, frames' = [frames EXCEPT ![f] = None]
  PROVE  Cardinality(LiveFrames') =
           IF Live(f) THEN Cardinality(LiveFrames) - 1
           ELSE Cardinality(LiveFrames)
<1>1. LiveFrames' = LiveFrames \ {f}
  BY DEF LiveFrames, Live, StateOK
<1>2. f \in LiveFrames <=> Live(f)
  BY DEF LiveFrames
<1> QED
  BY <1>1, <1>2, LiveFramesFinite, FS_RemoveElement

(* Putting a frame in adds one to the map if it was not there.             *)
LEMMA SlotFilled ==
  ASSUME StateOK, NEW f \in FrameIds, NEW s \in PartialFrame,
         frames' = [frames EXCEPT ![f] = s]
  PROVE  Cardinality(LiveFrames') =
           IF Live(f) THEN Cardinality(LiveFrames)
           ELSE Cardinality(LiveFrames) + 1
<1>1. LiveFrames' = LiveFrames \cup {f}
  BY NoneAssumption DEF LiveFrames, Live, StateOK
<1>2. f \in LiveFrames <=> Live(f)
  BY DEF LiveFrames
<1> QED
  BY <1>1, <1>2, LiveFramesFinite, FS_AddElement

(* Each way a call ends balances the account when the frame was live.      *)
LEMMA EndsBalance ==
  ASSUME TypeOK, Accounted, NEW f \in FrameIds, Live(f),
         \/ Ignore(f)
         \/ \E r \in DropReason : Discard(f, r)
         \/ \E s \in PartialFrame : Keep(f, s) \/ Deliver(f, s),
         led' = led, orphans' = orphans
  PROVE  Accounted'
<1>1. /\ StateOK /\ led \in Nat /\ orphans \in Nat
      /\ stats.frames \in Nat /\ stats.dropped \in Nat
      /\ Cardinality(LiveFrames) \in Nat
  BY LiveFramesFinite DEF TypeOK, StateOK, HistoryOK, Stats
<1>2. CASE Ignore(f)
  <2>1. [frames[f] EXCEPT !.idle = 0] \in PartialFrame
    BY TimeoutAssumption DEF TypeOK, StateOK, PartialFrame, Live
  <2>2. frames' = [frames EXCEPT ![f] = [frames[f] EXCEPT !.idle = 0]]
    BY <1>2 DEF Ignore
  <2>3. Cardinality(LiveFrames') = Cardinality(LiveFrames)
    BY <1>1, <2>1, <2>2, SlotFilled
  <2>4. stats'.frames = stats.frames /\ stats'.dropped = stats.dropped
    BY <1>1, <1>2 DEF Ignore, Count
  <2> QED
    BY <2>3, <2>4 DEF Accounted
<1>3. CASE \E r \in DropReason : Discard(f, r)
  <2>1. Cardinality(LiveFrames') = Cardinality(LiveFrames) - 1
    BY <1>1, <1>3, SlotEmptied DEF Discard
  <2>2. stats'.frames = stats.frames /\ stats'.dropped = stats.dropped + 1
    BY <1>1, <1>3 DEF Discard, Count
  <2> QED
    BY <1>1, <2>1, <2>2 DEF Accounted
<1>4. CASE \E s \in PartialFrame : Keep(f, s)
  <2>1. Cardinality(LiveFrames') = Cardinality(LiveFrames)
    BY <1>1, <1>4, SlotFilled DEF Keep
  <2>2. stats'.frames = stats.frames /\ stats'.dropped = stats.dropped
    BY <1>1, <1>4 DEF Keep, Count
  <2> QED
    BY <2>1, <2>2 DEF Accounted
<1>5. CASE \E s \in PartialFrame : Deliver(f, s)
  <2>1. Cardinality(LiveFrames') = Cardinality(LiveFrames) - 1
    BY <1>1, <1>5, SlotEmptied DEF Deliver
  <2>2. stats'.frames = stats.frames + 1 /\ stats'.dropped = stats.dropped
    BY <1>1, <1>5 DEF Deliver, Count
  <2> QED
    BY <1>1, <2>1, <2>2 DEF Accounted
<1> QED
  BY <1>2, <1>3, <1>4, <1>5

(* reconcile_frame moves its frame between the accounts.                   *)
LEMMA ReconcileBalances ==
  ASSUME TypeOK, Accounted, NEW f \in FrameIds, Live(f),
         NEW s \in PartialFrame, Reconcile(f, s),
         led' = led, orphans' = orphans
  PROVE  Accounted'
BY ReconcileEnds, FlushedFacts, EndsBalance

(* A packet without its leader is counted as a drop and as an orphan.      *)
LEMMA OrphanBalances ==
  ASSUME TypeOK, Accounted, NEW p \in Packets, NEW r, Orphan(p, r)
  PROVE  Accounted'
<1>1. /\ StateOK /\ led \in Nat /\ orphans \in Nat
      /\ stats.frames \in Nat /\ stats.dropped \in Nat
      /\ Cardinality(LiveFrames) \in Nat
  BY LiveFramesFinite DEF TypeOK, StateOK, HistoryOK, Stats
<1>2. Cardinality(LiveFrames') = Cardinality(LiveFrames)
  BY <1>1, PacketFields, SlotEmptied DEF Orphan, Discard
<1>3. /\ stats'.frames = stats.frames /\ stats'.dropped = stats.dropped + 1
      /\ led' = led /\ orphans' = orphans + 1
  BY <1>1 DEF Orphan, Discard, Count
<1> QED
  BY <1>1, <1>2, <1>3 DEF Accounted

(* ingest_leader balances: a replaced frame is counted as dropped.         *)
LEMMA LeaderBalances ==
  ASSUME TypeOK, Accounted, NEW p \in Packets, p.type = "leader",
         IngestLeader(p)
  PROVE  Accounted'
<1>1. /\ StateOK /\ led \in Nat /\ orphans \in Nat
      /\ stats.frames \in Nat /\ stats.dropped \in Nat
      /\ Cardinality(LiveFrames) \in Nat /\ p.frame \in FrameIds
  BY LiveFramesFinite, PacketFields DEF TypeOK, StateOK, HistoryOK, Stats
<1>2. CASE RejectLeader(p)
  <2>1. stats'.frames = stats.frames /\ stats'.dropped = stats.dropped
    BY <1>1, <1>2 DEF RejectLeader, Count
  <2>2. LiveFrames' = LiveFrames
    BY <1>2 DEF RejectLeader, LiveFrames, Live
  <2> QED
    BY <1>2, <2>1, <2>2 DEF RejectLeader, Accounted, history
<1>3. CASE AcceptLeader(p)
  <2>1. NewFrame(p) \in PartialFrame
    <3>1. /\ p.len \in Nat \ {0} /\ 0 \in 0 .. Timeout
          /\ << >> \in Seq(Bodies) /\ Empty \in Buffer /\ p.id \in PacketIds
      BY <1>3, PacketFields, TimeoutAssumption DEF AcceptLeader, Empty, Buffer
    <3> QED
      BY <3>1 DEF NewFrame, PartialFrame
  <2>2. Cardinality(LiveFrames') =
          IF Live(p.frame) THEN Cardinality(LiveFrames)
          ELSE Cardinality(LiveFrames) + 1
    BY <1>1, <1>3, <2>1, SlotFilled DEF AcceptLeader
  <2>3. /\ stats'.frames = stats.frames
        /\ stats'.dropped = IF Live(p.frame) THEN stats.dropped + 1
                            ELSE stats.dropped
        /\ led' = led + 1 /\ orphans' = orphans
    BY <1>1, <1>3 DEF AcceptLeader, Count
  <2> QED
    BY <1>1, <2>2, <2>3 DEF Accounted
<1> QED
  BY <1>2, <1>3 DEF IngestLeader

(* ingest_payload balances in each of its branches.                        *)
LEMMA PayloadBalances ==
  ASSUME TypeOK, Accounted, NEW p \in Packets, p.type = "payload",
         IngestPayload(p)
  PROVE  Accounted'
<1> DEFINE f == p.frame
           t == [frames[f] EXCEPT !.pending[p.id] = p.body]
<1>1. CASE Orphan(p, "PayloadBeforeLeader")
  BY <1>1, OrphanBalances
<1>2. CASE Live(f) /\ ObservePayload(p)
  <2>1. f \in FrameIds /\ t \in PartialFrame
    BY <1>2, PacketFields, WithPayload DEF TypeOK, StateOK, Live
  <2>2. led' = led /\ orphans' = orphans
    BY <1>2 DEF ObservePayload
  <2> HIDE DEF t
  <2>3. \/ Ignore(f) \/ (\E r \in DropReason : Discard(f, r))
        \/ Reconcile(f, t)
    BY <1>2 DEF IngestPayload, Orphan, DropReason, t
  <2> QED
    BY <1>2, <2>1, <2>2, <2>3, EndsBalance, ReconcileBalances
<1> QED
  BY <1>1, <1>2 DEF IngestPayload

(* ingest_trailer balances in each of its branches.                        *)
LEMMA TrailerBalances ==
  ASSUME TypeOK, Accounted, NEW p \in Packets, p.type = "trailer",
         IngestTrailer(p)
  PROVE  Accounted'
<1> DEFINE f == p.frame
           t == [frames[f] EXCEPT !.trailer = p.id]
<1>1. CASE Orphan(p, "TrailerBeforeLeader")
  BY <1>1, OrphanBalances
<1>2. CASE Live(f) /\ ObserveTrailer(p)
  <2>1. f \in FrameIds /\ frames[f] \in PartialFrame /\ p.id \in PacketIds
    BY <1>2, PacketFields DEF TypeOK, StateOK, Live
  <2>2. t \in PartialFrame
    BY <2>1 DEF PartialFrame
  <2>3. led' = led /\ orphans' = orphans
    BY <1>2 DEF ObserveTrailer
  <2> HIDE DEF t
  <2>4. \/ Ignore(f) \/ (\E r \in DropReason : Discard(f, r))
        \/ Reconcile(f, t)
    BY <1>2 DEF IngestTrailer, Orphan, DropReason, t
  <2> QED
    BY <1>2, <2>1, <2>2, <2>3, <2>4, EndsBalance, ReconcileBalances
<1> QED
  BY <1>1, <1>2 DEF IngestTrailer

(* reap_timeouts counts exactly the frames it removes.                     *)
LEMMA ReapBalances ==
  ASSUME TypeOK, Accounted, ReapTimeouts
  PROVE  Accounted'
<1>1. LiveFrames' = LiveFrames \ Expired /\ Expired \subseteq LiveFrames
  BY DEF ReapTimeouts, LiveFrames, Live, Expired
<1>2. /\ Cardinality(LiveFrames') =
           Cardinality(LiveFrames) - Cardinality(Expired)
      /\ Cardinality(Expired) \in Nat
  <2>1. LiveFrames \cap Expired = Expired
    BY <1>1
  <2> QED
    <3>1. IsFiniteSet(LiveFrames) /\ Expired \in SUBSET LiveFrames
      BY <1>1, LiveFramesFinite
    <3>2. IsFiniteSet(Expired)
      BY <3>1, FS_Subset
    <3>3. Cardinality(Expired) \in Nat
      BY <3>2, FS_CardinalityType
    <3>4. Cardinality(LiveFrames \ Expired) =
            Cardinality(LiveFrames) - Cardinality(LiveFrames \cap Expired)
      BY <3>1, FS_Difference, Zenon
    <3> QED
      BY <1>1, <2>1, <3>3, <3>4
<1>3. /\ stats'.frames = stats.frames
      /\ stats'.dropped = stats.dropped + Cardinality(Expired)
      /\ led' = led /\ orphans' = orphans
      /\ led \in Nat /\ orphans \in Nat
      /\ stats.frames \in Nat /\ stats.dropped \in Nat
  BY DEF ReapTimeouts, Count, history, TypeOK, StateOK, HistoryOK, Stats
<1> QED
  BY <1>2, <1>3, LiveFramesFinite DEF Accounted

(* The passing of time moves no frame between the accounts.                *)
LEMMA TickBalances ==
  ASSUME TypeOK, Accounted, Tick
  PROVE  Accounted'
<1>1. LiveFrames' = LiveFrames
  BY AgedType DEF Tick, LiveFrames, Live, TypeOK, StateOK
<1> QED
  BY <1>1 DEF Tick, history, Accounted

(* Every leader that opened a frame is accounted for exactly once, as      *)
(* emitted, dropped or still being assembled.                              *)
THEOREM FramesConserved == Spec => []Accounted
<1>1. Init => Accounted
  <2>1. Init => LiveFrames = {}
    BY DEF Init, LiveFrames, Live
  <2> QED
    BY <2>1, FS_EmptySet DEF Init, Accounted
<1>2. TypeOK /\ Accounted /\ [Next]_vars => Accounted'
  <2> SUFFICES ASSUME TypeOK, Accounted, [Next]_vars PROVE Accounted'
    OBVIOUS
  <2>1. ASSUME NEW p \in Packets, Ingest(p) PROVE Accounted'
    BY <2>1, LeaderBalances, PayloadBalances, TrailerBalances DEF Ingest
  <2>2. CASE ReapTimeouts
    BY <2>2, ReapBalances
  <2>3. CASE Tick
    BY <2>3, TickBalances
  <2>4. CASE UNCHANGED vars
    BY <2>4 DEF vars, history, Accounted, LiveFrames, Live
  <2> QED
    BY <2>1, <2>2, <2>3, <2>4 DEF Next
<1> QED
  BY <1>1, <1>2, TypeCorrect, PTL DEF Spec

---------------------------------------------------------------------------
(* A frame only grows                                                      *)

Extends(d, e) == e = d \o SubSeq(e, Len(d) + 1, Len(e))

Grown(s, t) ==
  /\ t.packetId >= s.packetId
  /\ Extends(s.data, t.data)
  /\ s.trailer # None => t.trailer = s.trailer

(* An image that begins with another extends it.                           *)
LEMMA PrefixExtends ==
  ASSUME NEW d \in Seq(Bodies), NEW e \in Seq(Bodies), Len(d) <= Len(e),
         \A i \in 1 .. Len(d) : e[i] = d[i]
  PROVE  Extends(d, e)
<1> DEFINE n == Len(d)
           m == Len(e)
           r == SubSeq(e, n + 1, m)
<1>1. n \in Nat /\ m \in Nat /\ n <= m
  BY LenProperties
<1>2. \A i \in n + 1 .. m : e[i] \in Bodies
  <2>1. \A i \in 1 .. m : e[i] \in Bodies
    BY LenProperties
  <2> QED
    BY <1>1, <2>1
<1>3. /\ r \in Seq(Bodies) /\ Len(r) = m - n
      /\ \A i \in 1 .. m - n : r[i] = e[n + i]
  <2> HIDE DEF n, m
  <2>1. n + 1 \in Int /\ m \in Int
    BY <1>1
  <2>2. /\ SubSeq(e, n + 1, m) \in Seq(Bodies)
        /\ Len(SubSeq(e, n + 1, m)) = IF n + 1 <= m THEN m - (n + 1) + 1 ELSE 0
        /\ \A i \in 1 .. m - (n + 1) + 1 : SubSeq(e, n + 1, m)[i] = e[(n + 1) + i - 1]
    BY <1>2, <2>1, SubSeqProperties
  <2> HIDE DEF r
  <2>3. /\ r \in Seq(Bodies)
        /\ Len(r) = IF n + 1 <= m THEN m - (n + 1) + 1 ELSE 0
        /\ \A i \in 1 .. m - (n + 1) + 1 : r[i] = e[(n + 1) + i - 1]
    BY <2>2 DEF r
  <2>4. m - (n + 1) + 1 = m - n /\ \A i \in 1 .. m - n : (n + 1) + i - 1 = n + i
    BY <1>1
  <2> QED
    BY <1>1, <2>3, <2>4
<1> HIDE DEF r
<1>4. /\ d \o r \in Seq(Bodies) /\ Len(d \o r) = n + Len(r)
      /\ \A i \in 1 .. n + Len(r) :
           (d \o r)[i] = IF i <= n THEN d[i] ELSE r[i - n]
  BY <1>3, ConcatProperties
<1> DEFINE c == d \o r
<1> HIDE DEF c
<1>5. /\ c \in Seq(Bodies) /\ Len(c) = n + Len(r)
      /\ \A i \in 1 .. n + Len(r) : c[i] = IF i <= n THEN d[i] ELSE r[i - n]
  BY <1>4 DEF c
<1> HIDE DEF n, m
<1>6. Len(c) = m
  BY <1>1, <1>3, <1>5
<1>7. ASSUME NEW i \in 1 .. m PROVE c[i] = e[i]
  <2>1. CASE i <= n
    BY <1>1, <1>3, <1>5, <2>1 DEF n
  <2>2. CASE i > n
    <3> DEFINE j == i - n
    <3>1. j \in 1 .. m - n /\ n + j = i /\ i \in 1 .. n + (m - n) /\ ~(i <= n)
      BY <1>1, <2>2
    <3>2. c[i] = r[j]
      BY <1>3, <1>5, <3>1
    <3> HIDE DEF j
    <3>3. r[j] = e[n + j]
      BY <1>3, <3>1
    <3> QED
      BY <3>1, <3>2, <3>3
  <2> QED
    BY <1>1, <2>1, <2>2
<1>8. c = e
  BY <1>5, <1>6, <1>7, SeqEqual DEF m
<1> QED
  BY <1>8 DEF Extends, c, r, n, m

(* What is only touched has grown, too.                                    *)
LEMMA TouchedGrown ==
  ASSUME NEW s \in PartialFrame, NEW t,
         t.packetId = s.packetId, t.data = s.data,
         s.trailer # None => t.trailer = s.trailer
  PROVE  Grown(s, t)
<1>1. s.packetId \in Nat /\ s.data \in Seq(Bodies) /\ Len(s.data) \in Nat
  BY LenProperties, MaxIdAssumption DEF PartialFrame, PacketIds
<1>2. Extends(s.data, s.data)
  BY <1>1, PrefixExtends
<1> QED
  BY <1>1, <1>2 DEF Grown

(* A run that is flushed lengthens the image at its end.                   *)
LEMMA FlushedGrown ==
  ASSUME NEW s \in PartialFrame, NEW t \in PartialFrame, Fits(t),
         t.packetId = s.packetId, t.data = s.data,
         s.trailer # None => t.trailer = s.trailer
  PROVE  Grown(s, Flushed(t))
<1> DEFINE g == Flushed(t)
           e == RunEnd(t)
<1>1. /\ g \in PartialFrame
      /\ g.packetId = e /\ g.trailer = t.trailer
      /\ Len(g.data) = Len(t.data) + (e - t.packetId)
      /\ \A i \in 1 .. Len(g.data) :
           g.data[i] = IF i <= Len(t.data) THEN t.data[i]
                       ELSE t.pending[t.packetId + (i - Len(t.data))]
  BY FlushedFacts
<1>2. e \in t.packetId .. MaxId
  BY RunEndExists
<1> HIDE DEF g, e
<1>3. /\ t.packetId \in Nat /\ MaxId \in Nat /\ t.data \in Seq(Bodies)
      /\ Len(t.data) \in Nat /\ g.data \in Seq(Bodies)
  BY <1>1, LenProperties, MaxIdAssumption DEF PartialFrame, PacketIds
<1>4. e \in Nat /\ e >= t.packetId /\ Len(t.data) <= Len(g.data)
  BY <1>1, <1>2, <1>3
<1>5. \A i \in 1 .. Len(t.data) : g.data[i] = t.data[i]
  BY <1>1, <1>3, <1>4
<1>6. Extends(t.data, g.data)
  BY <1>3, <1>4, <1>5, PrefixExtends
<1> QED
  BY <1>1, <1>4, <1>6 DEF Grown, g

Growth(f) == Live(f) /\ Live(f)' => Grown(frames[f], frames'[f])

(* reconcile_frame puts back what it was given, or its flushed form.       *)
LEMMA ReconcileGrows ==
  ASSUME StateOK, NEW f \in FrameIds, Live(f), NEW t \in PartialFrame,
         t.packetId = frames[f].packetId, t.data = frames[f].data,
         frames[f].trailer # None => t.trailer = frames[f].trailer,
         Reconcile(f, t)
  PROVE  Others(f) /\ Growth(f)
<1>1. frames[f] \in PartialFrame /\ frames \in [FrameIds -> PartialFrame \cup {None}]
  BY DEF StateOK, Live
<1>2. CASE \E r \in DropReason : Discard(f, r)
  BY <1>1, <1>2 DEF Discard, Others, Growth, Live
<1>3. CASE Fits(t) /\ Keep(f, Flushed(t))
  <2>1. Others(f) /\ frames'[f] = Flushed(t)
    BY <1>1, <1>3 DEF Keep, Others
  <2>2. Grown(frames[f], Flushed(t))
    BY <1>1, <1>3, FlushedGrown
  <2> QED
    BY <2>1, <2>2 DEF Growth
<1>4. CASE Deliver(f, Flushed(t))
  BY <1>1, <1>4 DEF Deliver, Others, Growth, Live
<1> QED
  BY <1>2, <1>3, <1>4, ReconcileEnds

(* A packet that is ignored, or that ends its frame.                       *)
LEMMA IgnoredGrows ==
  ASSUME StateOK, NEW f \in FrameIds, Live(f),
         Ignore(f) \/ \E r \in DropReason : Discard(f, r)
  PROVE  Others(f) /\ Growth(f)
<1>1. frames[f] \in PartialFrame /\ frames \in [FrameIds -> PartialFrame \cup {None}]
  BY DEF StateOK, Live
<1>2. CASE Ignore(f)
  <2> DEFINE t == [frames[f] EXCEPT !.idle = 0]
  <2>1. frames' = [frames EXCEPT ![f] = t]
    BY <1>2 DEF Ignore
  <2>2. /\ t.packetId = frames[f].packetId /\ t.data = frames[f].data
        /\ t.trailer = frames[f].trailer
    BY <1>1 DEF PartialFrame
  <2> HIDE DEF t
  <2>3. Grown(frames[f], t)
    BY <1>1, <2>2, TouchedGrown
  <2> QED
    BY <1>1, <2>1, <2>3 DEF Others, Growth
<1>3. CASE \E r \in DropReason : Discard(f, r)
  BY <1>1, <1>3 DEF Discard, Others, Growth, Live
<1> QED
  BY <1>2, <1>3

(* A packet that finds its frame grows it at most, and touches no other.   *)
LEMMA IngestGrows ==
  ASSUME StateOK, NEW p \in Packets, p.type \in {"payload", "trailer"}, Ingest(p)
  PROVE  \A f \in FrameIds : Growth(f)
<1> DEFINE f == p.frame
           s == frames[f]
<1>1. f \in FrameIds /\ p.id \in PacketIds
  BY PacketFields
<1>2. ASSUME NEW h \in FrameIds, frames'[h] = frames[h] PROVE Growth(h)
  BY <1>2, TouchedGrown DEF Growth, StateOK, Live
<1>3. CASE ~Live(f)
  <2>1. \E r : Discard(f, r)
    BY <1>3 DEF Ingest, IngestPayload, IngestTrailer, Orphan
  <2>2. Others(f) /\ frames'[f] = None
    BY <1>1, <2>1 DEF Discard, Others, StateOK
  <2> QED
    BY <1>2, <2>2 DEF Others, Growth, Live
<1>4. CASE Live(f)
  <2>1. s \in PartialFrame
    BY <1>1, <1>4 DEF StateOK, Live
  <2>2. CASE Ignore(f) \/ \E r \in DropReason : Discard(f, r)
    BY <1>1, <1>2, <1>4, <2>2, IgnoredGrows DEF Others
  <2>3. CASE /\ p.type = "payload"
             /\ Reconcile(f, [s EXCEPT !.pending[p.id] = p.body])
    <3> DEFINE t == [s EXCEPT !.pending[p.id] = p.body]
    <3>1. /\ t \in PartialFrame /\ t.packetId = s.packetId /\ t.data = s.data
          /\ t.trailer = s.trailer
      BY <2>1, <2>3, PacketFields, WithPayload
    <3>2. Reconcile(f, t)
      BY <2>3
    <3> HIDE DEF t
    <3>3. Others(f) /\ Growth(f)
      BY <1>1, <1>4, <3>1, <3>2, ReconcileGrows
    <3> QED
      BY <1>2, <3>3 DEF Others
  <2>4. CASE s.trailer = None /\ Reconcile(f, [s EXCEPT !.trailer = p.id])
    <3> DEFINE t == [s EXCEPT !.trailer = p.id]
    <3>1. /\ t \in PartialFrame /\ t.packetId = s.packetId /\ t.data = s.data
      BY <1>1, <2>1 DEF PartialFrame
    <3>2. Reconcile(f, t)
      BY <2>4
    <3> HIDE DEF t
    <3>3. Others(f) /\ Growth(f)
      BY <1>1, <1>4, <2>4, <3>1, <3>2, ReconcileGrows
    <3> QED
      BY <1>2, <3>3 DEF Others
  <2>5. CASE p.type = "payload"
    <3>1. IngestPayload(p)
      BY <2>5 DEF Ingest
    <3> QED
      BY <1>4, <2>2, <2>3, <2>5, <3>1 DEF IngestPayload, Orphan, DropReason
  <2>6. CASE p.type = "trailer"
    <3>1. IngestTrailer(p)
      BY <2>6 DEF Ingest
    <3> QED
      BY <1>4, <2>2, <2>4, <3>1 DEF IngestTrailer, Orphan, DropReason
  <2> QED
    BY <2>5, <2>6
<1> QED
  BY <1>3, <1>4

(* Until a leader replaces it a frame only grows.                          *)
THEOREM Growing == Spec => OnlyGrows
<1>1. TypeOK /\ [Next]_vars =>
        [\A f \in FrameIds :
           Live(f) /\ Live(f)' /\ led' = led =>
             /\ frames'[f].packetId >= frames[f].packetId
             /\ frames'[f].data =
                  frames[f].data \o SubSeq(frames'[f].data,
                                           Len(frames[f].data) + 1,
                                           Len(frames'[f].data))
             /\ frames[f].trailer # None =>
                  frames'[f].trailer = frames[f].trailer]_vars
  <2> SUFFICES ASSUME TypeOK, Next, NEW f \in FrameIds, led' = led PROVE Growth(f)
    BY DEF Growth, Grown, Extends
  <2>1. StateOK /\ led \in Nat
    BY DEF TypeOK, HistoryOK
  <2>2. ASSUME frames'[f] = frames[f] PROVE Growth(f)
    BY <2>1, <2>2, TouchedGrown DEF Growth, StateOK, Live
  <2>3. ASSUME NEW p \in Packets, Ingest(p) PROVE Growth(f)
    <3>1. CASE p.type \in {"payload", "trailer"}
      BY <2>1, <2>3, <3>1, IngestGrows
    <3>2. CASE p.type = "leader"
      <4>1. RejectLeader(p)
        BY <2>1, <2>3, <3>2 DEF Ingest, IngestLeader, AcceptLeader
      <4> QED
        BY <2>2, <4>1 DEF RejectLeader
    <3> QED
      BY <2>3, <3>1, <3>2 DEF Ingest
  <2>4. CASE ReapTimeouts
    <3>1. frames'[f] = None \/ frames'[f] = frames[f]
      BY <2>4 DEF ReapTimeouts
    <3> QED
      BY <2>2, <3>1 DEF Growth, Live
  <2>5. CASE Tick
    <3>1. frames'[f] = Aged(frames[f])
      BY <2>5 DEF Tick
    <3>2. frames[f] \in PartialFrame \cup {None}
      BY <2>1 DEF StateOK
    <3> QED
      BY <3>1, <3>2, AgedType, TouchedGrown DEF Growth, Live
  <2> QED
    BY <2>3, <2>4, <2>5 DEF Next
<1> QED
  BY <1>1, TypeCorrect, PTL DEF Spec, OnlyGrows
---------------------------------------------------------------------------
(* The byte sums: ByteSum is a recursive function, which exists and obeys  *)
(* its recursion; what the sums of a frame have to do with each other      *)
(* follows by induction on the last packet id.                             *)

(* The recursion of ByteSum.                                               *)
LEMMA SumRecursion ==
  ASSUME NEW buffer, NEW lo \in Nat, NEW hi \in Nat
  PROVE  ByteSum(buffer, lo, hi) =
           IF hi < lo THEN 0
           ELSE SizeOf(buffer[hi]) +
                (IF hi = 0 THEN 0 ELSE ByteSum(buffer, lo, hi - 1))
<1> DEFINE w == [p \in Nat |-> SizeOf(buffer[p])]
           F(f) == [p \in Nat |->
                      IF p < lo THEN 0
                      ELSE SizeOf(buffer[p]) + (IF p = 0 THEN 0 ELSE f[p - 1])]
           sum == CHOOSE f : f = F(f)
<1>1. \E f : f = F(f)
  <2>1. PICK f : f = [p \in Nat |-> SumStep(w, lo, f, p)]
    <3> HIDE DEF w
    <3> QED
      BY RunningSum
  <2>2. \A p \in Nat : w[p] = SizeOf(buffer[p])
    OBVIOUS
  <2> HIDE DEF w
  <2>3. [p \in Nat |-> SumStep(w, lo, f, p)] = F(f)
    BY <2>2 DEF SumStep
  <2>4. f = F(f)
    BY <2>1, <2>3, Zenon
  <2> QED
    BY <2>4
<1>2. sum = F(sum)
  BY <1>1, Zenon
<1>3. \A h \in Nat : ByteSum(buffer, lo, h) = sum[h]
  BY DEF ByteSum
<1> HIDE DEF sum
<1>4. sum[hi] = IF hi < lo THEN 0
                ELSE SizeOf(buffer[hi]) + (IF hi = 0 THEN 0 ELSE sum[hi - 1])
  BY <1>2
<1>5. hi # 0 => ByteSum(buffer, lo, hi - 1) = sum[hi - 1]
  <2>1. hi # 0 => hi - 1 \in Nat
    OBVIOUS
  <2> QED
    BY <1>3, <2>1
<1>6. ByteSum(buffer, lo, hi) = sum[hi]
  BY <1>3
<1> HIDE DEF F
<1> QED
  BY <1>4, <1>5, <1>6

(* The same by steps: nothing before lo, and one packet more at a time.    *)
LEMMA SumSteps ==
  ASSUME NEW buffer, NEW lo \in Nat, NEW n \in Nat
  PROVE  /\ n < lo => ByteSum(buffer, lo, n) = 0
         /\ 0 = lo => ByteSum(buffer, lo, 0) = SizeOf(buffer[0]) + 0
         /\ lo <= n + 1 => ByteSum(buffer, lo, n + 1) =
                             SizeOf(buffer[n + 1]) + ByteSum(buffer, lo, n)
<1>1. n < lo => ByteSum(buffer, lo, n) = 0
  BY SumRecursion
<1>2. 0 = lo => ByteSum(buffer, lo, 0) = SizeOf(buffer[0]) + 0
  BY SumRecursion
<1>3. lo <= n + 1 => ByteSum(buffer, lo, n + 1) =
                       SizeOf(buffer[n + 1]) + ByteSum(buffer, lo, n)
  <2> DEFINE m == n + 1
  <2>1. m \in Nat /\ m # 0 /\ m - 1 = n
    OBVIOUS
  <2> HIDE DEF m
  <2>2. lo <= m => ByteSum(buffer, lo, m) =
                     SizeOf(buffer[m]) + ByteSum(buffer, lo, n)
    BY <2>1, SumRecursion
  <2> QED
    BY <2>2 DEF m
<1> QED
  BY <1>1, <1>2, <1>3

(* What a buffered packet adds is a number of bytes.                       *)
LEMMA SizeType ==
  ASSUME NEW b \in Buffer
  PROVE  \A p \in PacketIds : SizeOf(b[p]) \in Nat
BY BodiesAssumption DEF Buffer, SizeOf

(* A sum of bytes is a number of bytes.                                    *)
LEMMA SumType ==
  ASSUME NEW b \in Buffer, NEW lo \in Nat
  PROVE  \A n \in PacketIds : ByteSum(b, lo, n) \in Nat
<1> DEFINE T == {n \in Nat : n <= MaxId => ByteSum(b, lo, n) \in Nat}
<1>1. \A p \in Nat : p <= MaxId => SizeOf(b[p]) \in Nat
  BY SizeType, MaxIdAssumption DEF PacketIds
<1>2. 0 \in T
  <2>1. 0 <= MaxId /\ SizeOf(b[0]) \in Nat /\ (0 < lo \/ 0 = lo)
    BY <1>1, MaxIdAssumption
  <2> QED
    BY <2>1, SumSteps
<1>3. ASSUME NEW n \in Nat, n \in T PROVE n + 1 \in T
  <2> SUFFICES ASSUME n + 1 <= MaxId PROVE ByteSum(b, lo, n + 1) \in Nat
    OBVIOUS
  <2>1. ByteSum(b, lo, n) \in Nat /\ SizeOf(b[n + 1]) \in Nat
    <3>1. n <= MaxId /\ n + 1 \in Nat
      BY MaxIdAssumption
    <3> QED
      BY <1>1, <1>3, <3>1
  <2>2. CASE lo <= n + 1
    <3>1. ByteSum(b, lo, n + 1) = SizeOf(b[n + 1]) + ByteSum(b, lo, n)
      BY <2>2, SumSteps
    <3> QED
      BY <2>1, <3>1
  <2>3. CASE n + 1 < lo
    <3>1. n + 1 \in Nat
      OBVIOUS
    <3>2. ByteSum(b, lo, n + 1) = 0
      BY <2>3, <3>1, SumSteps
    <3> QED
      BY <3>2
  <2> QED
    BY <2>2, <2>3
<1>4. \A n \in Nat : n \in T
  <2> HIDE DEF T
  <2> QED
    BY <1>2, <1>3, NatSetInduction
<1> QED
  BY <1>4, MaxIdAssumption DEF PacketIds

(* Packets of no less bytes have no less bytes together.                   *)
LEMMA SumMonotone ==
  ASSUME NEW b \in Buffer, NEW c \in Buffer, NEW lo \in Nat, NEW hi \in PacketIds,
         \A p \in PacketIds : p >= lo /\ p <= hi => SizeOf(b[p]) <= SizeOf(c[p])
  PROVE  ByteSum(b, lo, hi) <= ByteSum(c, lo, hi)
<1> DEFINE T == {n \in Nat : n <= hi => ByteSum(b, lo, n) <= ByteSum(c, lo, n)}
<1>1. hi \in Nat /\ hi <= MaxId /\ MaxId \in Nat
  BY MaxIdAssumption DEF PacketIds
<1>2. \A p \in Nat : p <= hi =>
        /\ SizeOf(b[p]) \in Nat /\ SizeOf(c[p]) \in Nat
        /\ ByteSum(b, lo, p) \in Nat /\ ByteSum(c, lo, p) \in Nat
        /\ p >= lo => SizeOf(b[p]) <= SizeOf(c[p])
  BY <1>1, SizeType, SumType DEF PacketIds
<1>3. 0 \in T
  <2>1. SizeOf(b[0]) \in Nat /\ SizeOf(c[0]) \in Nat /\ (0 < lo \/ 0 = lo)
        /\ (0 = lo => SizeOf(b[0]) <= SizeOf(c[0]))
    BY <1>1, <1>2
  <2>2. 0 < lo => ByteSum(b, lo, 0) = 0 /\ ByteSum(c, lo, 0) = 0
    BY SumSteps
  <2>3. 0 = lo => /\ ByteSum(b, lo, 0) = SizeOf(b[0]) + 0
                  /\ ByteSum(c, lo, 0) = SizeOf(c[0]) + 0
    BY SumSteps
  <2> QED
    BY <2>1, <2>2, <2>3
<1>4. ASSUME NEW n \in Nat, n \in T PROVE n + 1 \in T
  <2> SUFFICES ASSUME n + 1 <= hi
               PROVE  ByteSum(b, lo, n + 1) <= ByteSum(c, lo, n + 1)
    OBVIOUS
  <2>1. /\ ByteSum(b, lo, n) <= ByteSum(c, lo, n)
        /\ ByteSum(b, lo, n) \in Nat /\ ByteSum(c, lo, n) \in Nat
        /\ SizeOf(b[n + 1]) \in Nat /\ SizeOf(c[n + 1]) \in Nat
        /\ lo <= n + 1 => SizeOf(b[n + 1]) <= SizeOf(c[n + 1])
    <3>1. n <= hi /\ n + 1 \in Nat
      BY <1>1
    <3> QED
      BY <1>2, <1>4, <3>1
  <2>2. CASE lo <= n + 1
    <3>1. /\ ByteSum(b, lo, n + 1) = SizeOf(b[n + 1]) + ByteSum(b, lo, n)
          /\ ByteSum(c, lo, n + 1) = SizeOf(c[n + 1]) + ByteSum(c, lo, n)
      BY <2>2, SumSteps
    <3> QED
      BY <2>1, <2>2, <3>1
  <2>3. CASE n + 1 < lo
    <3>1. n + 1 \in Nat
      OBVIOUS
    <3>2. ByteSum(b, lo, n + 1) = 0 /\ ByteSum(c, lo, n + 1) = 0
      BY <2>3, <3>1, SumSteps
    <3> QED
      BY <3>2
  <2> QED
    BY <2>2, <2>3
<1>5. \A n \in Nat : n \in T
  <2> HIDE DEF T
  <2> QED
    BY <1>3, <1>4, NatSetInduction
<1> QED
  BY <1>1, <1>5

(* The bytes of two adjacent ranges are the bytes of both together.        *)
LEMMA SumSplit ==
  ASSUME NEW b \in Buffer, NEW lo \in Nat, NEW m \in Nat, NEW hi \in PacketIds,
         lo <= m + 1, m <= hi
  PROVE  ByteSum(b, lo, hi) = ByteSum(b, lo, m) + ByteSum(b, m + 1, hi)
<1> DEFINE T == {k \in Nat : m + k <= hi =>
                   ByteSum(b, lo, m + k) =
                     ByteSum(b, lo, m) + ByteSum(b, m + 1, m + k)}
<1>1. hi \in Nat /\ hi <= MaxId /\ MaxId \in Nat /\ m + 1 \in Nat
  BY MaxIdAssumption DEF PacketIds
<1>2. \A p \in Nat : p <= hi =>
        /\ SizeOf(b[p]) \in Nat
        /\ ByteSum(b, lo, p) \in Nat /\ ByteSum(b, m + 1, p) \in Nat
  BY <1>1, SizeType, SumType DEF PacketIds
<1>3. 0 \in T
  <2>1. m + 0 = m /\ m < m + 1 /\ ByteSum(b, lo, m) \in Nat
    BY <1>2
  <2>2. ByteSum(b, m + 1, m) = 0
    BY <1>1, <2>1, SumSteps
  <2> QED
    BY <2>1, <2>2
<1>4. ASSUME NEW k \in Nat, k \in T PROVE k + 1 \in T
  <2> DEFINE n == m + k
  <2> SUFFICES ASSUME m + (k + 1) <= hi
               PROVE  ByteSum(b, lo, m + (k + 1)) =
                        ByteSum(b, lo, m) + ByteSum(b, m + 1, m + (k + 1))
    OBVIOUS
  <2>1. n \in Nat /\ n <= hi /\ n + 1 <= hi /\ lo <= n + 1 /\ m + 1 <= n + 1
        /\ m + (k + 1) = n + 1 /\ n + 1 \in Nat
    BY <1>1
  <2>2. ByteSum(b, lo, n) = ByteSum(b, lo, m) + ByteSum(b, m + 1, n)
    BY <1>4, <2>1
  <2> HIDE DEF n
  <2>3. /\ SizeOf(b[n + 1]) \in Nat /\ ByteSum(b, lo, m) \in Nat
        /\ ByteSum(b, lo, n) \in Nat /\ ByteSum(b, m + 1, n) \in Nat
    BY <1>1, <1>2, <2>1
  <2>4. ByteSum(b, lo, n + 1) = SizeOf(b[n + 1]) + ByteSum(b, lo, n)
    BY <2>1, SumSteps
  <2>5. ByteSum(b, m + 1, n + 1) = SizeOf(b[n + 1]) + ByteSum(b, m + 1, n)
    BY <1>1, <2>1, SumSteps
  <2>6. ByteSum(b, lo, n + 1) = ByteSum(b, lo, m) + ByteSum(b, m + 1, n + 1)
    BY <2>2, <2>3, <2>4, <2>5
  <2> QED
    BY <2>1, <2>6
<1>5. \A k \in Nat : k \in T
  <2> HIDE DEF T
  <2> QED
    BY <1>3, <1>4, NatSetInduction
<1>6. hi - m \in Nat /\ m + (hi - m) = hi
  BY <1>1
<1> QED
  BY <1>1, <1>5, <1>6

(* A packet more in the range adds its bytes.                              *)
LEMMA SumAdds ==
  ASSUME NEW b \in Buffer, NEW c \in Buffer, NEW q \in PacketIds,
         NEW x \in Nat, SizeOf(c[q]) = SizeOf(b[q]) + x,
         \A p \in PacketIds : p # q => c[p] = b[p]
  PROVE  ByteSum(c, 0, MaxId) = ByteSum(b, 0, MaxId) + x
<1> DEFINE T == {n \in Nat : n <= MaxId =>
                   ByteSum(c, 0, n) = ByteSum(b, 0, n) + (IF q <= n THEN x ELSE 0)}
<1>1. MaxId \in Nat /\ q \in Nat /\ q <= MaxId
  BY MaxIdAssumption DEF PacketIds
<1>2. \A p \in Nat : p <= MaxId =>
        /\ SizeOf(b[p]) \in Nat /\ SizeOf(c[p]) \in Nat
        /\ ByteSum(b, 0, p) \in Nat
        /\ p # q => SizeOf(c[p]) = SizeOf(b[p])
  BY <1>1, SizeType, SumType DEF PacketIds
<1>3. 0 \in T
  <2>1. /\ ByteSum(b, 0, 0) = SizeOf(b[0]) + 0
        /\ ByteSum(c, 0, 0) = SizeOf(c[0]) + 0
    BY SumSteps
  <2>2. SizeOf(b[0]) \in Nat /\ SizeOf(c[0]) \in Nat /\ (0 # q => SizeOf(c[0]) = SizeOf(b[0]))
    BY <1>1, <1>2
  <2>3. CASE q = 0
    BY <2>1, <2>2, <2>3
  <2>4. CASE q # 0
    <3>1. ~(q <= 0)
      BY <1>1, <2>4
    <3> QED
      BY <2>1, <2>2, <2>4, <3>1
  <2> QED
    BY <2>3, <2>4
<1>4. ASSUME NEW n \in Nat, n \in T PROVE n + 1 \in T
  <2> SUFFICES ASSUME n + 1 <= MaxId
               PROVE  ByteSum(c, 0, n + 1) =
                        ByteSum(b, 0, n + 1) + (IF q <= n + 1 THEN x ELSE 0)
    OBVIOUS
  <2>1. /\ ByteSum(c, 0, n) = ByteSum(b, 0, n) + (IF q <= n THEN x ELSE 0)
        /\ ByteSum(b, 0, n) \in Nat
        /\ SizeOf(b[n + 1]) \in Nat /\ SizeOf(c[n + 1]) \in Nat
        /\ n + 1 # q => SizeOf(c[n + 1]) = SizeOf(b[n + 1])
    <3>1. n <= MaxId /\ n + 1 \in Nat
      BY <1>1
    <3> QED
      BY <1>2, <1>4, <3>1
  <2>2. /\ ByteSum(b, 0, n + 1) = SizeOf(b[n + 1]) + ByteSum(b, 0, n)
        /\ ByteSum(c, 0, n + 1) = SizeOf(c[n + 1]) + ByteSum(c, 0, n)
    <3>1. 0 \in Nat /\ 0 <= n + 1
      OBVIOUS
    <3> QED
      BY <3>1, SumSteps
  <2>3. CASE n + 1 = q
    <3>1. SizeOf(c[n + 1]) = SizeOf(b[n + 1]) + x /\ ~(q <= n) /\ q <= n + 1
      BY <1>1, <2>3
    <3> QED
      BY <2>1, <2>2, <3>1
  <2>4. CASE n + 1 # q
    <3>1. q <= n + 1 <=> q <= n
      BY <1>1, <2>4
    <3> QED
      BY <2>1, <2>2, <2>4, <3>1
  <2> QED
    BY <2>3, <2>4
<1>5. \A n \in Nat : n \in T
  <2> HIDE DEF T
  <2> QED
    BY <1>3, <1>4, NatSetInduction
<1> QED
  BY <1>1, <1>5

(* An empty buffer has no bytes.                                           *)
LEMMA SumOfNothing ==
  ASSUME NEW lo \in Nat
  PROVE  \A n \in PacketIds : ByteSum(Empty, lo, n) = 0
<1> DEFINE T == {n \in Nat : n <= MaxId => ByteSum(Empty, lo, n) = 0}
<1>1. \A p \in Nat : p <= MaxId => SizeOf(Empty[p]) = 0
  BY MaxIdAssumption DEF SizeOf, Empty, PacketIds
<1>2. 0 \in T
  <2>1. SizeOf(Empty[0]) = 0 /\ (0 < lo \/ 0 = lo)
    BY <1>1, MaxIdAssumption
  <2> QED
    BY <2>1, SumSteps
<1>3. ASSUME NEW n \in Nat, n \in T PROVE n + 1 \in T
  <2> SUFFICES ASSUME n + 1 <= MaxId PROVE ByteSum(Empty, lo, n + 1) = 0
    OBVIOUS
  <2>1. ByteSum(Empty, lo, n) = 0 /\ SizeOf(Empty[n + 1]) = 0 /\ n + 1 \in Nat
    <3>1. n <= MaxId /\ n + 1 \in Nat
      BY MaxIdAssumption
    <3> QED
      BY <1>1, <1>3, <3>1
  <2>2. CASE lo <= n + 1
    <3>1. ByteSum(Empty, lo, n + 1) = SizeOf(Empty[n + 1]) + ByteSum(Empty, lo, n)
      BY <2>2, SumSteps
    <3> QED
      BY <2>1, <3>1
  <2>3. CASE n + 1 < lo
    BY <2>1, <2>3, SumSteps
  <2> QED
    BY <2>2, <2>3
<1>4. \A n \in Nat : n \in T
  <2> HIDE DEF T
  <2> QED
    BY <1>2, <1>3, NatSetInduction
<1> QED
  BY <1>4, MaxIdAssumption DEF PacketIds
(* Buffers with the same packets in a range have the same bytes there.     *)
LEMMA SumSame ==
  ASSUME NEW b \in Buffer, NEW c \in Buffer, NEW lo \in Nat, NEW hi \in PacketIds,
         \A p \in PacketIds : p >= lo /\ p <= hi => b[p] = c[p]
  PROVE  ByteSum(b, lo, hi) = ByteSum(c, lo, hi)
<1>1. \A p \in PacketIds : p >= lo /\ p <= hi =>
        SizeOf(b[p]) <= SizeOf(c[p]) /\ SizeOf(c[p]) <= SizeOf(b[p])
  <2> TAKE p \in PacketIds
  <2>1. SizeOf(b[p]) \in Nat /\ SizeOf(c[p]) \in Nat
    BY SizeType
  <2>2. b[p] = c[p] => SizeOf(b[p]) = SizeOf(c[p])
    OBVIOUS
  <2> QED
    BY <2>1, <2>2
<1>2. ByteSum(b, lo, hi) <= ByteSum(c, lo, hi)
  BY <1>1, SumMonotone
<1>3. ByteSum(c, lo, hi) <= ByteSum(b, lo, hi)
  BY <1>1, SumMonotone
<1>4. ByteSum(b, lo, hi) \in Nat /\ ByteSum(c, lo, hi) \in Nat
  BY SumType
<1> QED
  BY <1>2, <1>3, <1>4

---------------------------------------------------------------------------
(* Frames are filled to the byte                                           *)

(* The offset of a frame is the bytes received for the ids up to packetId, *)
(* within the image, and what is buffered is no more than an image.        *)
Filled(s, w) ==
  /\ s.offset = ByteSum(w.got, w.lead + 1, s.packetId)
  /\ s.offset <= s.len
  /\ PendingBytes(s) <= s.len

AllFilled == \A f \in FrameIds : frames[f] # None => Filled(frames[f], wire[f])

FillInv == AssemblyInv /\ AllFilled /\ DeliveredInFull

(* What is about to be reconciled: its offset is right, and what will stay *)
(* buffered when the run is gone is no more than b, which fits.            *)
FillsWithin(s, w, b) ==
  /\ s.offset = ByteSum(w.got, w.lead + 1, s.packetId)
  /\ b \in Buffer /\ ByteSum(b, 0, MaxId) <= s.len
  /\ \A p \in PacketIds :
       p \in (s.packetId + 1) .. RunEnd(s) \/ SizeOf(s.pending[p]) <= SizeOf(b[p])

(* The run that is flushed fills the image by exactly its bytes.           *)
LEMMA FlushedFilled ==
  ASSUME NEW s \in PartialFrame, NEW w \in Wire, Holds(s, w), Fits(s),
         NEW b, FillsWithin(s, w, b)
  PROVE  Filled(Flushed(s), w)
<1> DEFINE g == Flushed(s)
           e == RunEnd(s)
           n == s.packetId
<1>1. /\ n \in Nat /\ w.lead \in Nat /\ MaxId \in Nat /\ w.lead <= n
      /\ s.len \in Nat /\ s.pending \in Buffer /\ w.got \in Buffer /\ b \in Buffer
  BY MaxIdAssumption, LenProperties
     DEF PartialFrame, Wire, PacketIds, Holds, FillsWithin
<1>2. e \in n .. MaxId
  BY RunEndExists
<1>3. /\ g.packetId = e /\ g.len = s.len /\ g.pending \in Buffer
      /\ \A p \in PacketIds :
           g.pending[p] = IF p \in (n + 1) .. e THEN None ELSE s.pending[p]
  BY FlushedFacts DEF PartialFrame
<1>4. g.offset = FilledTo(s)
  BY DEF Flushed
<1> HIDE DEF g, e, n
<1>5. e \in PacketIds /\ n + 1 \in Nat /\ w.lead + 1 \in Nat /\ n <= e
      /\ w.lead + 1 <= n + 1 /\ e \in Nat
  BY <1>1, <1>2 DEF PacketIds
<1>6. \A p \in PacketIds : p >= n + 1 /\ p <= e =>
        s.pending[p] = w.got[p]
  <2>1. \A p \in PacketIds : p >= n + 1 => p > n
    BY <1>1, MaxIdAssumption DEF PacketIds
  <2>2. \A p \in PacketIds : p > n => s.pending[p] = w.got[p]
    BY DEF Holds, n
  <2> QED
    BY <2>1, <2>2
<1>7. ByteSum(s.pending, n + 1, e) = ByteSum(w.got, n + 1, e)
  BY <1>1, <1>5, <1>6, SumSame
<1>8. ByteSum(w.got, w.lead + 1, e) =
        ByteSum(w.got, w.lead + 1, n) + ByteSum(w.got, n + 1, e)
  BY <1>1, <1>5, SumSplit
<1>9. FilledTo(s) = ByteSum(w.got, w.lead + 1, e)
  BY <1>7, <1>8 DEF FilledTo, FillsWithin, n, e
<1>10. g.offset <= g.len
  BY <1>1, <1>3, <1>4 DEF Fits
<1>11. PendingBytes(g) <= g.len
  <2>1. \A p \in PacketIds : SizeOf(g.pending[p]) <= SizeOf(b[p])
    <3> TAKE p \in PacketIds
    <3>1. SizeOf(b[p]) \in Nat
      BY <1>1, SizeType
    <3>2. CASE p \in (n + 1) .. e
      BY <1>3, <3>1, <3>2 DEF SizeOf
    <3>3. CASE p \notin (n + 1) .. e
      BY <1>3, <3>3 DEF FillsWithin, n, e
    <3> QED
      BY <3>2, <3>3
  <2>2. MaxId \in PacketIds /\ 0 \in Nat
    BY <1>1 DEF PacketIds
  <2>3. ByteSum(g.pending, 0, MaxId) <= ByteSum(b, 0, MaxId)
    BY <1>1, <1>3, <2>1, <2>2, SumMonotone
  <2>4. ByteSum(g.pending, 0, MaxId) \in Nat /\ ByteSum(b, 0, MaxId) \in Nat
    BY <1>1, <1>3, <2>2, SumType
  <2> QED
    BY <1>1, <1>3, <2>3, <2>4 DEF PendingBytes, FillsWithin
<1> QED
  BY <1>3, <1>4, <1>9, <1>10, <1>11 DEF Filled, g

(* reconcile_frame leaves its frame filled and emits full frames only.     *)
LEMMA ReconcileFilled ==
  ASSUME StateOK, NEW f \in FrameIds, NEW s \in PartialFrame, NEW w \in Wire,
         Holds(s, w), NEW b, FillsWithin(s, w, b), Reconcile(f, s), wire'[f] = w
  PROVE  /\ Others(f)
         /\ frames'[f] # None => Filled(frames'[f], wire'[f])
         /\ DeliveredInFull'
<1>1. CASE \E r \in DropReason : Discard(f, r)
  BY <1>1 DEF Discard, Dropped, Others, DeliveredInFull, StateOK
<1>2. CASE /\ Fits(s) /\ RunEnd(s) < MaxId
           /\ Flushed(s).trailer # Flushed(s).packetId + 1
           /\ Keep(f, Flushed(s))
  <2>1. Filled(Flushed(s), w)
    BY <1>2, FlushedFilled
  <2>2. Others(f) /\ frames'[f] = Flushed(s) /\ output' = {}
    BY <1>2 DEF Keep, StateOK, Others
  <2> QED
    BY <2>1, <2>2 DEF DeliveredInFull
<1>3. CASE /\ Fits(s) /\ RunEnd(s) < MaxId
           /\ Flushed(s).trailer = Flushed(s).packetId + 1
           /\ Flushed(s).offset = Flushed(s).len
           /\ Deliver(f, Flushed(s))
  <2> DEFINE g == Flushed(s)
  <2>1. /\ Others(f) /\ frames'[f] = None
        /\ output' = {[kind |-> "complete", frame |-> f, data |-> g.data]}
    BY <1>3 DEF Deliver, StateOK, Others
  <2>2. Filled(g, w) /\ Holds(g, w) /\ g \in PartialFrame
    BY <1>3, FlushedFilled, FlushedHolds, FlushedFacts
  <2>3. g.offset = g.len
    BY <1>3
  <2> HIDE DEF g
  <2>4. g.packetId \in Nat /\ (g.packetId + 1) - 1 = g.packetId
    BY <2>2, MaxIdAssumption DEF PartialFrame, PacketIds
  <2>5. w.end - 1 = g.packetId
    BY <1>3, <2>2, <2>4 DEF Holds, g
  <2>6. ByteSum(w.got, w.lead + 1, w.end - 1) = w.len
    BY <2>2, <2>3, <2>5 DEF Filled, Holds
  <2> QED
    BY <2>1, <2>6 DEF DeliveredInFull
<1> QED
  BY <1>1, <1>2, <1>3, ReconcileEnds

(* What is filled stays so while nothing but the time of its last update   *)
(* changes.                                                                *)
LEMMA TouchedFilled ==
  ASSUME NEW s, NEW t, NEW w, NEW v, Filled(s, w),
         t.offset = s.offset, t.len = s.len, t.packetId = s.packetId,
         t.pending = s.pending, v.got = w.got, v.lead = w.lead
  PROVE  Filled(t, v)
BY DEF Filled, PendingBytes

(* An ignored packet leaves its frame filled.                              *)
LEMMA IgnoreFilled ==
  ASSUME StateOK, NEW f \in FrameIds, NEW s \in PartialFrame, s = frames[f],
         NEW w, NEW v, v = wire'[f], Filled(s, w), Ignore(f),
         v.got = w.got, v.lead = w.lead
  PROVE  Others(f) /\ Filled(frames'[f], wire'[f]) /\ DeliveredInFull'
<1> DEFINE t == [s EXCEPT !.idle = 0]
<1>1. frames' = [frames EXCEPT ![f] = t] /\ output' = {}
  BY DEF Ignore
<1>2. /\ t.offset = s.offset /\ t.len = s.len /\ t.packetId = s.packetId
      /\ t.pending = s.pending
  BY DEF PartialFrame
<1> HIDE DEF t
<1>3. Filled(t, v)
  BY <1>2, TouchedFilled
<1> QED
  BY <1>1, <1>3 DEF Others, DeliveredInFull, StateOK

(* A dropped frame is not emitted.                                         *)
LEMMA DiscardFilled ==
  ASSUME StateOK, NEW f \in FrameIds, NEW r, Discard(f, r)
  PROVE  Others(f) /\ frames'[f] = None /\ DeliveredInFull'
BY DEF Discard, Dropped, Others, DeliveredInFull, StateOK

(* The frames of other ids stay filled.                                    *)
LEMMA OthersFilled ==
  ASSUME AllFilled, NEW f \in FrameIds, Others(f),
         \A h \in FrameIds : h # f => wire'[h] = wire[h],
         frames'[f] # None => Filled(frames'[f], wire'[f])
  PROVE  AllFilled'
BY DEF AllFilled, Others

(* ingest_leader starts with nothing of an image.                          *)
LEMMA LeaderFilled ==
  ASSUME FillInv, NEW p \in Packets, p.type = "leader", IngestLeader(p)
  PROVE  AllFilled' /\ DeliveredInFull'
<1>1. CASE RejectLeader(p)
  BY <1>1 DEF RejectLeader, FillInv, AllFilled, DeliveredInFull, history
<1>2. CASE AcceptLeader(p)
  <2> DEFINE f == p.frame
             v == [lead |-> p.id, len |-> p.len, got |-> Empty, end |-> None]
  <2>1. f \in FrameIds /\ p.id \in PacketIds /\ p.len \in Nat
    BY PacketFields
  <2>2. /\ frames' = [frames EXCEPT ![f] = NewFrame(p)]
        /\ wire' = [wire EXCEPT ![f] = v]
        /\ output' \in {{}, {Dropped(f, "DuplicateLeader")}}
    BY <1>2 DEF AcceptLeader
  <2>3. /\ NewFrame(p).packetId = p.id /\ NewFrame(p).len = p.len
        /\ NewFrame(p).offset = 0 /\ NewFrame(p).pending = Empty
        /\ v.lead = p.id /\ v.got = Empty
    BY DEF NewFrame
  <2>4. p.id + 1 \in Nat /\ 0 \in Nat /\ MaxId \in PacketIds
    BY <2>1, MaxIdAssumption DEF PacketIds
  <2> HIDE DEF v
  <2>5. Filled(NewFrame(p), v)
    <3>1. ByteSum(Empty, p.id + 1, p.id) = 0
      BY <2>1, <2>4, SumOfNothing
    <3>2. ByteSum(Empty, 0, MaxId) = 0
      BY <2>4, SumOfNothing
    <3> QED
      BY <2>1, <2>3, <3>1, <3>2 DEF Filled, PendingBytes
  <2>6. /\ frames'[f] = NewFrame(p) /\ wire'[f] = v
        /\ \A h \in FrameIds : h # f => /\ frames'[h] = frames[h]
                                       /\ wire'[h] = wire[h]
    BY <2>1, <2>2 DEF FillInv, AssemblyInv, TypeOK, StateOK, HistoryOK
  <2> QED
    BY <2>1, <2>2, <2>5, <2>6, OthersFilled
       DEF FillInv, Others, DeliveredInFull, Dropped
<1> QED
  BY <1>1, <1>2 DEF IngestLeader

(* A packet without its leader touches no frame.                           *)
LEMMA OrphanFilled ==
  ASSUME FillInv, NEW p \in Packets, NEW r, Orphan(p, r)
  PROVE  AllFilled' /\ DeliveredInFull'
<1>1. p.frame \in FrameIds /\ StateOK /\ Discard(p.frame, r) /\ wire' = wire
  BY PacketFields DEF Orphan, FillInv, AssemblyInv, TypeOK
<1> QED
  BY <1>1, DiscardFilled, OthersFilled DEF FillInv

(* A payload that is buffered: if it is not the next one, what is buffered *)
(* then fits; if it is, it moves on with the run.                          *)
LEMMA PayloadFits ==
  ASSUME NEW s \in PartialFrame, NEW w \in Wire, NEW v \in Wire, Filled(s, w),
         NEW id \in PacketIds, NEW body \in Bodies, NEW t \in PartialFrame,
         Holds(s, w), v.lead = w.lead, id > s.packetId, s.pending[id] = None,
         t.packetId = s.packetId, t.len = s.len, t.offset = s.offset,
         \A q \in PacketIds :
           /\ t.pending[q] = IF q = id THEN body ELSE s.pending[q]
           /\ v.got[q] = IF q = id THEN body ELSE w.got[q],
         ~(id # s.packetId + 1 /\ PendingOverflow(s, body))
  PROVE  \E b : FillsWithin(t, v, b)
<1>1. /\ s.packetId \in Nat /\ s.packetId \in PacketIds /\ w.lead \in Nat
      /\ id \in Nat /\ MaxId \in Nat /\ MaxId \in PacketIds /\ id <= MaxId
      /\ s.pending \in Buffer /\ t.pending \in Buffer
      /\ w.got \in Buffer /\ v.got \in Buffer
      /\ s.len \in Nat /\ s.offset \in Nat /\ Size[body] \in Nat
      /\ w.lead + 1 \in Nat
  BY MaxIdAssumption, BodiesAssumption DEF PartialFrame, Wire, PacketIds
<1>2. t.offset = ByteSum(v.got, v.lead + 1, t.packetId)
  <2>1. \A q \in PacketIds : q >= w.lead + 1 /\ q <= s.packetId => v.got[q] = w.got[q]
    BY <1>1 DEF PacketIds
  <2>2. ByteSum(v.got, w.lead + 1, s.packetId) = ByteSum(w.got, w.lead + 1, s.packetId)
    BY <1>1, <2>1, SumSame
  <2> QED
    BY <2>2 DEF Filled
<1>3. CASE id = s.packetId + 1
  <2>1. RunEnd(t) \in s.packetId .. MaxId /\ IsRunEnd(t, RunEnd(t))
    BY RunEndExists
  <2>2. t.pending[id] # None
    BY NoneAssumption
  <2>3. RunEnd(t) # s.packetId
    BY <1>1, <1>3, <2>1, <2>2 DEF IsRunEnd
  <2>4. id \in (t.packetId + 1) .. RunEnd(t)
    BY <1>1, <1>3, <2>1, <2>3
  <2>5. \A q \in PacketIds :
          q # id => SizeOf(t.pending[q]) <= SizeOf(s.pending[q])
    <3> TAKE q \in PacketIds
    <3>1. SizeOf(s.pending[q]) \in Nat
      BY <1>1, SizeType
    <3>2. q # id => t.pending[q] = s.pending[q]
      OBVIOUS
    <3>3. q # id => SizeOf(t.pending[q]) = SizeOf(s.pending[q])
      BY <3>2
    <3> QED
      BY <3>1, <3>3
  <2>6. ByteSum(s.pending, 0, MaxId) <= t.len
    BY DEF Filled, PendingBytes
  <2>7. FillsWithin(t, v, s.pending)
    BY <1>1, <1>2, <2>4, <2>5, <2>6 DEF FillsWithin
  <2> QED
    BY <2>7
<1>4. CASE id # s.packetId + 1
  <2>1. /\ PendingBytes(s) \in Nat
        /\ ByteSum(t.pending, 0, MaxId) = PendingBytes(s) + Size[body]
    <3>1. SizeOf(t.pending[id]) = SizeOf(s.pending[id]) + Size[body]
      BY <1>1, NoneAssumption DEF SizeOf
    <3>2. \A q \in PacketIds : q # id => t.pending[q] = s.pending[q]
      OBVIOUS
    <3>3. ByteSum(s.pending, 0, MaxId) \in Nat
      <4>1. 0 \in Nat
        OBVIOUS
      <4> QED
        BY <1>1, <4>1, SumType
    <3>4. ByteSum(t.pending, 0, MaxId) = ByteSum(s.pending, 0, MaxId) + Size[body]
      BY <1>1, <3>1, <3>2, SumAdds
    <3> QED
      BY <3>3, <3>4 DEF PendingBytes
  <2>2. ByteSum(t.pending, 0, MaxId) <= t.len
    BY <1>1, <1>4, <2>1 DEF PendingOverflow, Filled
  <2>3. \A q \in PacketIds : SizeOf(t.pending[q]) <= SizeOf(t.pending[q])
    <3>1. \A q \in PacketIds : SizeOf(t.pending[q]) \in Nat
      BY <1>1, SizeType
    <3> QED
      BY <3>1
  <2>4. FillsWithin(t, v, t.pending)
    BY <1>1, <1>2, <2>2, <2>3 DEF FillsWithin
  <2> QED
    BY <2>4
<1> QED
  BY <1>3, <1>4

(* ingest_payload keeps the frames filled.                                 *)
LEMMA PayloadFilled ==
  ASSUME FillInv, NEW p \in Packets, p.type = "payload", IngestPayload(p)
  PROVE  AllFilled' /\ DeliveredInFull'
<1>1. CASE Orphan(p, "PayloadBeforeLeader")
  BY <1>1, OrphanFilled
<1>2. CASE Live(p.frame) /\ ObservePayload(p)
  <2> DEFINE f == p.frame
             s == frames[f]
             w == wire[f]
             v == wire'[f]
             t == [s EXCEPT !.pending[p.id] = p.body]
  <2>1. /\ f \in FrameIds /\ StateOK /\ AssemblyInv /\ AllFilled
        /\ p.id \in PacketIds /\ p.body \in Bodies /\ Live(f) /\ ObservePayload(p)
    BY <1>2, PacketFields DEF FillInv, AssemblyInv, TypeOK
  <2>2. Taken(p, s, w, v, t) /\ \A h \in FrameIds : h # f => wire'[h] = wire[h]
    BY <2>1, PayloadArrives
  <2>3. Filled(s, w)
    BY <2>1 DEF AllFilled, Live
  <2> HIDE DEF s, w, v, t
  <2>4. CASE (Repeated(s, p.id) \/ Size[p.body] = 0) /\ Ignore(f)
    <3>1. Others(f) /\ Filled(frames'[f], wire'[f]) /\ DeliveredInFull'
      BY <2>1, <2>2, <2>3, <2>4, IgnoreFilled DEF Taken, s, v
    <3> QED
      BY <2>1, <2>2, <3>1, OthersFilled
  <2>5. CASE \E r \in DropReason : Discard(f, r)
    BY <2>1, <2>2, <2>5, DiscardFilled, OthersFilled
  <2>6. CASE /\ ~Repeated(s, p.id) /\ Size[p.body] > 0
             /\ ~(p.id # s.packetId + 1 /\ PendingOverflow(s, p.body))
             /\ Reconcile(f, t)
    <3>1. \E b : FillsWithin(t, v, b)
      BY <2>1, <2>2, <2>3, <2>6, PayloadFits DEF Taken
    <3>2. /\ Others(f)
          /\ frames'[f] # None => Filled(frames'[f], wire'[f])
          /\ DeliveredInFull'
      BY <2>1, <2>2, <2>6, <3>1, ReconcileFilled DEF Taken, v
    <3> QED
      BY <2>1, <2>2, <3>2, OthersFilled
  <2> QED
    BY <1>2, <2>4, <2>5, <2>6 DEF IngestPayload, Orphan, DropReason, s, t
<1> QED
  BY <1>1, <1>2 DEF IngestPayload
(* ingest_trailer keeps the frames filled.                                 *)
LEMMA TrailerFilled ==
  ASSUME FillInv, NEW p \in Packets, p.type = "trailer", IngestTrailer(p)
  PROVE  AllFilled' /\ DeliveredInFull'
<1>1. CASE Orphan(p, "TrailerBeforeLeader")
  BY <1>1, OrphanFilled
<1>2. CASE Live(p.frame) /\ ObserveTrailer(p)
  <2> DEFINE f == p.frame
             s == frames[f]
             w == wire[f]
             v == wire'[f]
             t == [s EXCEPT !.trailer = p.id]
  <2>1. /\ f \in FrameIds /\ p.id \in PacketIds
        /\ s \in PartialFrame /\ w \in Wire /\ StateOK /\ HistoryOK
        /\ Live(f) /\ ObserveTrailer(p) /\ AllFilled
    BY <1>2, PacketFields
       DEF FillInv, AssemblyInv, TypeOK, StateOK, HistoryOK, Live
  <2>2. /\ v \in Wire
        /\ \A h \in FrameIds : h # f => wire'[h] = wire[h]
        /\ v.lead = w.lead /\ v.len = w.len /\ v.got = w.got
        /\ v.end = IF w.end = None THEN p.id ELSE w.end
    BY <2>1, ObservedTrailer DEF HistoryOK
  <2>3. Holds(s, w) /\ Filled(s, w)
    BY <2>1 DEF FillInv, AssemblyInv, AllSound, Sound, AllFilled, Live
  <2>4. /\ t \in PartialFrame /\ t.trailer = p.id /\ t.offset = s.offset
        /\ t.packetId = s.packetId /\ t.len = s.len
        /\ t.data = s.data /\ t.pending = s.pending
    BY <2>1 DEF PartialFrame
  <2> HIDE DEF s, w, v, t
  <2>5. CASE Ignore(f)
    <3>1. Others(f) /\ Filled(frames'[f], wire'[f]) /\ DeliveredInFull'
      BY <2>1, <2>2, <2>3, <2>5, IgnoreFilled DEF s, v
    <3> QED
      BY <2>1, <2>2, <3>1, OthersFilled
  <2>6. CASE \E r \in DropReason : Discard(f, r)
    BY <2>1, <2>2, <2>6, DiscardFilled, OthersFilled
  <2>7. CASE s.trailer = None /\ Reconcile(f, t)
    <3>1. Holds(t, v)
      BY <2>2, <2>3, <2>4, <2>7 DEF Holds
    <3>2. s.pending \in Buffer
      BY <2>1 DEF PartialFrame
    <3>3. \A q \in PacketIds : SizeOf(t.pending[q]) <= SizeOf(s.pending[q])
      <4>1. \A q \in PacketIds : SizeOf(s.pending[q]) \in Nat
        BY <3>2, SizeType
      <4> QED
        BY <2>4, <4>1
    <3>4. FillsWithin(t, v, s.pending)
      BY <2>2, <2>3, <2>4, <3>2, <3>3 DEF FillsWithin, Filled, PendingBytes
    <3>5. /\ Others(f)
          /\ frames'[f] # None => Filled(frames'[f], wire'[f])
          /\ DeliveredInFull'
      BY <2>1, <2>2, <2>4, <2>7, <3>1, <3>4, ReconcileFilled DEF v
    <3> QED
      BY <2>1, <2>2, <3>5, OthersFilled
  <2> QED
    BY <1>2, <2>5, <2>6, <2>7 DEF IngestTrailer, Orphan, DropReason, s, t
<1> QED
  BY <1>1, <1>2 DEF IngestTrailer

(* The passing of time fills nothing, and emits nothing.                   *)
LEMMA TickFilled ==
  ASSUME FillInv, Tick
  PROVE  AllFilled' /\ DeliveredInFull'
<1>1. ASSUME NEW f \in FrameIds, frames'[f] # None
      PROVE  Filled(frames'[f], wire'[f])
  <2>1. /\ frames'[f] = Aged(frames[f]) /\ wire'[f] = wire[f]
        /\ frames[f] \in PartialFrame \cup {None}
    BY DEF Tick, history, FillInv, AssemblyInv, TypeOK, StateOK
  <2>2. frames[f] # None
    BY <1>1, <2>1 DEF Aged
  <2>3. /\ frames'[f].packetId = frames[f].packetId
        /\ frames'[f].len = frames[f].len
        /\ frames'[f].offset = frames[f].offset
        /\ frames'[f].pending = frames[f].pending
    <3> DEFINE s == frames[f]
    <3>1. s \in PartialFrame /\ frames'[f] = Aged(s) /\ s # None
      BY <2>1, <2>2
    <3> HIDE DEF s
    <3>2. /\ Aged(s).packetId = s.packetId /\ Aged(s).len = s.len
          /\ Aged(s).offset = s.offset /\ Aged(s).pending = s.pending
      BY <3>1 DEF Aged, PartialFrame
    <3> QED
      BY <3>1, <3>2 DEF s
  <2>4. Filled(frames[f], wire[f])
    BY <2>2 DEF FillInv, AllFilled
  <2> QED
    BY <2>1, <2>3, <2>4, TouchedFilled
<1> QED
  BY <1>1 DEF Tick, AllFilled, DeliveredInFull

(* reap_timeouts only drops frames.                                        *)
LEMMA ReapFilled ==
  ASSUME FillInv, ReapTimeouts
  PROVE  AllFilled' /\ DeliveredInFull'
BY DEF ReapTimeouts, FillInv, AllFilled, DeliveredInFull, Dropped, history

(* Every frame stays filled, and every emitted one is full.                *)
LEMMA FillInvHolds == Spec => []FillInv
<1>1. Init /\ AssemblyInv => FillInv
  BY DEF Init, FillInv, AllFilled, DeliveredInFull
<1>2. AssemblyInv' /\ FillInv /\ [Next]_vars => FillInv'
  <2> SUFFICES ASSUME AssemblyInv', FillInv, [Next]_vars
               PROVE  AllFilled' /\ DeliveredInFull'
    BY DEF FillInv
  <2>1. ASSUME NEW p \in Packets, Ingest(p)
        PROVE  AllFilled' /\ DeliveredInFull'
    BY <2>1, LeaderFilled, PayloadFilled, TrailerFilled DEF Ingest
  <2>2. CASE ReapTimeouts
    BY <2>2, ReapFilled
  <2>3. CASE Tick
    BY <2>3, TickFilled
  <2>4. CASE UNCHANGED vars
    BY <2>4 DEF vars, history, FillInv, AllFilled, DeliveredInFull
  <2> QED
    BY <2>1, <2>2, <2>3, <2>4 DEF Next
<1> QED
  BY <1>1, <1>2, AssemblyInvHolds, PTL DEF Spec

(* An emitted frame has exactly the bytes its leader announced.            *)
THEOREM FullDelivery == Spec => []DeliveredInFull
<1>1. FillInv => DeliveredInFull
  BY DEF FillInv
<1> QED
  BY <1>1, FillInvHolds, PTL

(* A frame never needs more than twice the bytes of its image, although    *)
(* the next payload is not checked when it is buffered: it is flushed at   *)
(* once, and what was ahead of it fitted before.                           *)
THEOREM BoundedMemory == Spec => []MemoryBounded
<1>1. FillInv => MemoryBounded
  BY DEF FillInv, AllFilled, Filled, MemoryBounded, Live
<1> QED
  BY <1>1, FillInvHolds, PTL
=============================================================================
