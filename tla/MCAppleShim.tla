---------------------------- MODULE MCAppleShim ----------------------------
(* Small instances of AppleShim for TLC.                                   *)
EXTENDS AppleShim
=============================================================================
