---------------------------- MODULE MCEeVideoSrc ----------------------------
(* Instances of EeVideoSrc for TLC.                                        *)
EXTENDS EeVideoSrc
=============================================================================
