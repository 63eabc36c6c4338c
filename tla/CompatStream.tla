---------------------------- MODULE CompatStream ----------------------------
(***************************************************************************)
(* The compatibility stream end to end: the sink element with its          *)
(* packetizer, a datagram network, and the frame assembler.  The device's  *)
(* sender numbers its frames the same way, from 1 for each capture.        *)
(***************************************************************************)
EXTENDS EeVideoSink, Sequences, FiniteSets

CONSTANTS
  MaxCopies, \* bound: packets the network repeats in one behaviour
  Networks,  \* what may happen, see Abilities
  MaxId, Timeout, MaxPackets

(* A network reorders, packets of a frame not before its leader unless it  *)
(* is "disorderly", and not at all if it is "ordered"; "loss" and          *)
(* "repeats" are of packets; "silence" lets the receiver see time pass.    *)
(* With "faults" sends fail and the sink is flushed, restarted and given   *)
(* buffers of a wrong length.                                              *)
Abilities == {"disorderly", "ordered", "loss", "repeats", "silence", "faults"}

ASSUME NetworkAssumption == Networks \subseteq SUBSET Abilities

VARIABLES
  abilities,  \* of the network, fixed
  network,    \* packets sent and not yet taken from the network
  copies,     \* packets repeated so far (bound)
  arrived,    \* history: buffers whose leader the receiver got
  deliveries, \* history: how often each buffer was emitted downstream
  foreign,    \* history: an emitted frame was no buffer that was sent
  frames, stats, output, wire, led, orphans

INSTANCE FrameAssembler
  WITH FrameIds <- Contents, Bodies <- Chunks, Size <- ChunkSize,
       Lengths <- {FrameLength[fmt] : fmt \in Formats}

(* No frame has so many packets that emit_packets wraps their u32 ids.     *)
ASSUME PacketIdsAssumption ==
  MaxId \in Nat /\ \A fmt \in Formats : NChunks(fmt) + 1 <= MaxId
ASSUME ReceiverAssumption ==
  Timeout \in Nat /\ MaxPackets \in Nat /\ MaxId # 0
ASSUME StreamNoneAssumption == None \notin Chunks /\ None \notin PartialFrame

receiver == <<frames, stats, output, wire, led, orphans>>
observed == <<arrived, deliveries, foreign>>
streamVars == <<sinkVars, abilities, network, copies, observed, receiver>>

StreamInit ==
  /\ Init /\ SinkInit
  /\ abilities \in Networks
  /\ network = {}
  /\ copies = 0
  /\ arrived = {}
  /\ deliveries = [c \in Contents |-> 0]
  /\ foreign = FALSE

Faulty == "faults" \in abilities

SinkSteps ==
  \/ SinkStart \/ Render \/ \E fmt \in Formats : SetCaps(fmt)
  \/ /\ Faulty
     /\ \/ SinkStop \/ SinkUnlock \/ SinkUnlockStop
        \/ RenderWrongLength \/ SendFails

Sink ==
  /\ \/ SinkSteps /\ UNCHANGED network
     \/ SendPacket /\ network' = network \cup {PacketAt(rendering)}
  /\ UNCHANGED <<abilities, copies, observed, receiver>>

Image(c) ==
  LET fmt == sent[c].format IN
  [i \in 1 .. NChunks(fmt) |-> <<c, fmt, i>>]

(* The receiver thread hands a completed frame downstream.                 *)
Observe ==
  LET done == {e \in output' : e.kind = "complete"} IN
  /\ deliveries' = [c \in Contents |-> deliveries[c] +
       Cardinality({e \in done : Begun(c) /\ e.data = Image(c)})]
  /\ foreign' = (foreign \/ \E e \in done : \A c \in Contents :
                              ~Begun(c) \/ e.data # Image(c))

Earlier(p, q) == p.of < q.of \/ (p.of = q.of /\ p.id < q.id)

Deliverable(p) ==
  IF "ordered" \in abilities
  THEN \A q \in network : ~Earlier(q, p)
  ELSE "disorderly" \in abilities \/ p.type = "leader" \/ p.of \in arrived

Arrive(p) ==
  /\ Deliverable(p)
  /\ arrived' = IF p.type = "leader" THEN arrived \cup {p.of} ELSE arrived
  /\ Ingest(p)
  /\ Observe
  /\ UNCHANGED <<sinkVars, abilities>>

Receive(p) ==
  /\ Arrive(p)
  /\ network' = network \ {p}
  /\ UNCHANGED copies

Duplicate(p) ==
  /\ "repeats" \in abilities /\ copies < MaxCopies
  /\ copies' = copies + 1
  /\ Arrive(p)
  /\ UNCHANGED network

Lose(p) ==
  /\ "loss" \in abilities
  /\ network' = network \ {p}
  /\ UNCHANGED <<sinkVars, abilities, copies, observed, receiver>>

Pause ==
  /\ "silence" \in abilities
  /\ ReapTimeouts \/ Tick
  /\ Observe
  /\ UNCHANGED <<sinkVars, abilities, network, copies, arrived>>

StreamNext ==
  \/ Sink
  \/ \E p \in network : Receive(p) \/ Duplicate(p) \/ Lose(p)
  \/ Pause

StreamSpec == StreamInit /\ [][StreamNext]_streamVars

---------------------------------------------------------------------------
(* Properties                                                              *)

(* A frame is sent when its trailer is, or when all its payloads are and   *)
(* another frame, whose trailer will do, has its id.                       *)
Whole(c) == SentOut(c) \/ (SentWhole(c) /\ \E d \in Contents : ShareId(c, d))

(* A network that keeps the order and loses nothing.                       *)
Orderly == "ordered" \in abilities /\ "loss" \notin abilities

(* The stream implements FrameDelivery, every frame handed downstream      *)
(* counted: it is a whole frame that was sent before, and the same one     *)
(* twice only when the network duplicates packets, over reordering, loss,  *)
(* failed sends and restarts; a frame that nobody sent takes an id given   *)
(* to two frames and a network that is not orderly (emit_packets,          *)
(* ingest_view).                                                           *)
Delivery == INSTANCE FrameDelivery
              WITH once <- "repeats" \notin abilities,
                   orderly <- Orderly,
                   reused <- \E c, d \in Contents : ShareId(c, d),
                   whole <- {c \in Contents : Whole(c)},
                   mixed <- foreign

ImplementsDelivery == Delivery!Spec

(* An emitted frame that mixes the chunks of two frames or misplaces one   *)
(* needs a frame id used twice, which takes a restart of the sink or a     *)
(* failed send (render's next_frame_id), and a network that does more than *)
(* deliver every packet in order.                                          *)
MixNeedsReuse ==
  foreign =>
    /\ \E c, d \in Contents : IdReused(c, d)
    /\ ~Orderly

(* Reordering alone costs nothing: if every packet arrives once, and each  *)
(* frame's leader before the rest, no frame is dropped and no packet is    *)
(* counted as an anomaly, even if a trailer overtakes all payloads; and    *)
(* every frame that was sent has been delivered when its packets have      *)
(* arrived.                                                                *)
ReorderingIsFree ==
  abilities = {} =>
    /\ stats.dropped = 0 /\ stats.anomalies = 0
    /\ network = {} =>
         \A c \in Contents : SentOut(c) => deliveries[c] = 1

(* In a network that keeps the order and loses nothing, every frame that   *)
(* was sent to its end is delivered, also when its id was used before: a   *)
(* leader clears what an unfinished frame left under the id.  Sender and   *)
(* receiver then count the same frames.                                    *)
OrderedReuseIsFree ==
  abilities = {"ordered", "faults"} /\ network = {} =>
    /\ \A c \in Contents : SentOut(c) => deliveries[c] = 1
    /\ stats.frames = sinkStats.frames
=============================================================================
