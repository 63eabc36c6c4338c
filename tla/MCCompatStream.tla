--------------------------- MODULE MCCompatStream ---------------------------
(* Instances of CompatStream for TLC: networks that only reorder, repeat   *)
(* or lose packets under a sink without faults, and a failing sink in an   *)
(* ordered network and in ones that delay or lose packets.                 *)
EXTENDS CompatStream

MCNetworks ==
  {{}, {"disorderly", "repeats"}, {"disorderly", "loss", "silence"},
   {"ordered", "faults"}, {"ordered", "loss", "faults"}, {"faults"}}

(* One format takes two packets of payload, the other one.                 *)
MCFrameLength == [a |-> 3, b |-> 2]
=============================================================================
