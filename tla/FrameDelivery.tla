---------------------------- MODULE FrameDelivery ----------------------------
(***************************************************************************)
(* What the compatibility stream promises its user, without packets: the   *)
(* sender sends frames, and the receiver is handed whole frames of those,  *)
(* late, in any order, or not at all.  A frame is handed over again only   *)
(* if the network may duplicate packets.  The promise has one exception:   *)
(* a frame mixed of several may be handed over once two frames were given  *)
(* one id, unless the network keeps the order and loses nothing.           *)
(***************************************************************************)
EXTENDS Naturals

CONSTANT NFrames \* bound: frames sent in one behaviour

VARIABLES
  once,       \* whether a frame may be handed over only once
  orderly,    \* whether the network keeps the order and loses nothing
  reused,     \* whether two frames were given one id
  whole,      \* the frames that have been sent
  deliveries, \* deliveries[c]: how often frame c was handed over
  mixed       \* whether a frame was handed over that nobody sent

vars == <<once, orderly, reused, whole, deliveries, mixed>>

Init ==
  /\ once \in BOOLEAN /\ orderly \in BOOLEAN
  /\ reused = FALSE
  /\ whole = {}
  /\ deliveries = [c \in 1 .. NFrames |-> 0]
  /\ mixed = FALSE

Send(c) ==
  /\ c \notin whole
  /\ whole' = whole \cup {c}
  /\ UNCHANGED <<once, orderly, reused, deliveries, mixed>>

(* A frame takes the id of another, whose own trailer was not sent and     *)
(* which may now be completed by the trailer of the new one.               *)
ReuseId ==
  /\ ~reused
  /\ reused' = TRUE
  /\ whole' = whole \/ \E c \in 1 .. NFrames : whole' = whole \cup {c}
  /\ UNCHANGED <<once, orderly, deliveries, mixed>>

Deliver(c) ==
  /\ c \in whole
  /\ once => deliveries[c] = 0
  /\ deliveries' = [deliveries EXCEPT ![c] = @ + 1]
  /\ UNCHANGED <<once, orderly, reused, whole, mixed>>

DeliverMixed ==
  /\ reused /\ ~orderly
  /\ mixed' = TRUE
  /\ UNCHANGED <<once, orderly, reused, whole, deliveries>>

Next ==
  \/ \E c \in 1 .. NFrames : Send(c) \/ Deliver(c)
  \/ ReuseId \/ DeliverMixed

Spec == Init /\ [][Next]_vars
=============================================================================
