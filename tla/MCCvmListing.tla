---------------------------- MODULE MCCvmListing ----------------------------
(* A small instance of CvmListing for TLC.                                 *)
EXTENDS CvmListing
=============================================================================
