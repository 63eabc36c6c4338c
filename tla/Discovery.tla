----------------------------- MODULE Discovery -----------------------------
(***************************************************************************)
(* discover_devices of crates/eevideo-control/src/discovery.rs: one        *)
(* multicast request on every interface, one interface after the other,    *)
(* and the answers that come in before the line falls silent.              *)
(*                                                                         *)
(* Devices and network are external: an answer may be lost, repeated or    *)
(* late, and other hosts may answer what is no advertisement.              *)
(***************************************************************************)
EXTENDS Naturals, FiniteSets, Sequences, SequencesExt

CONSTANTS
  Interfaces, \* the IPv4 interfaces that are not loopback
  Devices,    \* the devices, named by their address
  MaxRepeats, \* bound: answers that arrive a second time
  None

VARIABLES
  search,    \* off, next, recv, done, or failed
  toAsk,     \* the interfaces the loop has still to visit
  current,   \* the interface of this iteration, or None
  underway,  \* external: the devices whose answer to `current' may arrive
  responses, \* the responses, in the order they were pushed
  repeats,   \* bound
  heard      \* history: the answers that were received, by interface

discovery == <<search, toAsk, current, underway, responses, repeats, heard>>

DiscoveryInit ==
  /\ search = "off" /\ current = None /\ toAsk = {} /\ underway = {}
  /\ responses = <<>> /\ repeats = 0 /\ heard = {}

Begin ==
  /\ search' = "next" /\ toAsk' = Interfaces /\ current' = None
  /\ UNCHANGED <<underway, responses, repeats, heard>>

(* A new socket per interface, so no answer to an earlier request gets in. *)
Ask ==
  /\ search = "next"
  /\ \E i \in toAsk :
       /\ current' = i /\ toAsk' = toAsk \ {i}
       /\ underway' \in SUBSET Devices
  /\ search' = "recv"
  /\ UNCHANGED <<responses, repeats, heard>>

(* An error ends the call, and the responses it has are lost.              *)
Lose ==
  /\ search' = "failed" /\ responses' = <<>> /\ current' = None
  /\ toAsk' = {} /\ underway' = {} /\ heard' = {} /\ UNCHANGED repeats

(* Of the list of interfaces, the socket, the request, or the receive.     *)
Abort == search \in {"next", "recv"} /\ Lose

(* Any host may send a datagram that is no CoAP message, or a content that *)
(* is no list of links; those of other codes are skipped.                  *)
BadDatagram == search = "recv" /\ Lose

(* An interface is its name, its only address, and one round of the loop.  *)
(* The code has a round per address and compares names: one with two       *)
(* addresses is asked twice, and lists its devices once all the same.      *)
Seen(i, d) == [interface |-> i, device |-> d] \in ToSet(responses)

(* An answer; the network may deliver it once more.                        *)
Answer(d) ==
  /\ search = "recv" /\ d \in underway
  /\ \/ underway' = underway \ {d} /\ UNCHANGED repeats
     \/ repeats < MaxRepeats /\ repeats' = repeats + 1 /\ UNCHANGED underway
  /\ heard' = heard \cup {[interface |-> current, device |-> d]}
  /\ responses' = IF Seen(current, d) THEN responses
                  ELSE Append(responses, [interface |-> current, device |-> d])
  /\ UNCHANGED <<search, toAsk, current>>

(* 200 ms without a datagram, or the deadline: what is still under way is  *)
(* not waited for.                                                         *)
Silence ==
  /\ search = "recv"
  /\ search' = "next" /\ current' = None /\ underway' = {}
  /\ UNCHANGED <<toAsk, responses, repeats, heard>>

Found ==
  /\ search = "next" /\ toAsk = {}
  /\ search' = "done"
  /\ UNCHANGED <<toAsk, current, underway, responses, repeats, heard>>

(* What the call kept is gone with it.                                     *)
Forget ==
  /\ search' = "off" /\ responses' = <<>> /\ repeats' = 0 /\ heard' = {}
  /\ UNCHANGED <<toAsk, current, underway>>

Searching ==
  \/ Ask \/ Abort \/ BadDatagram \/ Silence \/ Found
  \/ \E d \in Devices : Answer(d)
=============================================================================
