----------------------------- MODULE MCOutStream -----------------------------
(* Small instances of OutStream for TLC.                                    *)
EXTENDS OutStream
=============================================================================
