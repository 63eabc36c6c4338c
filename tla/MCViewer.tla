------------------------------ MODULE MCViewer ------------------------------
(* Instances of Viewer for TLC: eeview and one other client.               *)
EXTENDS Viewer
=============================================================================
