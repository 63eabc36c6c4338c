-------------------------- MODULE MCRegisterFields --------------------------
(* An instance of RegisterFields for TLC: a register of four bits with the *)
(* layout of MaxPacketSize, a flag above a number, and a bit of no field.  *)
EXTENDS RegisterFields

MCLayout ==
  [enable |-> [msb |-> 3, len |-> 1], maxPkt |-> [msb |-> 2, len |-> 2]]

FieldWrite(f, v) == [kind |-> "fields", values |-> [g \in {f} |-> v]]

MCCommands ==
  {FieldWrite("enable", {0}), FieldWrite("enable", {}),
   FieldWrite("maxPkt", {1}), FieldWrite("maxPkt", {0}),
   FieldWrite("enable", {0, 1}), FieldWrite("delay", {0}),
   [kind |-> "fields", values |-> [enable |-> {}, maxPkt |-> {0, 1}]],
   [kind |-> "word", word |-> {0, 2}]}
=============================================================================
