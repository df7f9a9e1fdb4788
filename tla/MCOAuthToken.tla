---------------------------- MODULE MCOAuthToken ----------------------------
(* Small instances of OAuthToken for TLC.                                  *)
EXTENDS OAuthToken, TLC
=============================================================================
