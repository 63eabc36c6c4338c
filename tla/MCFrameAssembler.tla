-------------------------- MODULE MCFrameAssembler --------------------------
(* Instances of FrameAssembler for TLC: payload contents of one and two    *)
(* bytes and an empty one.                                                 *)
EXTENDS FrameAssembler

CONSTANTS b0, b1, b2

MCBodies == {b0, b1, b2}
MCSize == [b \in MCBodies |-> IF b = b0 THEN 0 ELSE IF b = b1 THEN 1 ELSE 2]
=============================================================================
