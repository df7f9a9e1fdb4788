---------------------------- MODULE MCHttpCache -----------------------------
(* Small instances of HttpCache for TLC.                                   *)
EXTENDS HttpCache, TLC

\* The tasks are interchangeable; the keys are not (one of them may be null).
CallerSymmetry == Permutations(Callers)
=============================================================================
