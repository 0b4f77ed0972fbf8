---------------------------- MODULE MCCliSession ----------------------------
(* CliSession for TLC.                                                      *)
EXTENDS CliSession
=============================================================================
