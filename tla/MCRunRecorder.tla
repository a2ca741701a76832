--------------------------- MODULE MCRunRecorder ---------------------------
(* The recorder of one run, on small bounds.                               *)
EXTENDS RunRecorder
=============================================================================
