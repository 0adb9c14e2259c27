---------------------------- MODULE MCPageStream ----------------------------
(* Small instances of PageStream for TLC.                                  *)
EXTENDS PageStream
=============================================================================
