------------------------------ MODULE MCInStream ------------------------------
(* Small instances of InStream for TLC.                                     *)
EXTENDS InStream
=============================================================================
