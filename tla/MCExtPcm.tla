------------------------------ MODULE MCExtPcm ------------------------------
(* Small instances of ExtPcm for TLC.  No symmetry: the run checks liveness,*)
(* for which symmetry reduction is unsound.                                 *)
EXTENDS ExtPcm
=============================================================================
