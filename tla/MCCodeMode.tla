----------------------------- MODULE MCCodeMode -----------------------------
(* A small instance of CodeMode for TLC.                                   *)
EXTENDS CodeMode
=============================================================================
