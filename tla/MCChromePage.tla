---------------------------- MODULE MCChromePage ----------------------------
(* Small instances of ChromePage for TLC.                                  *)
EXTENDS ChromePage

CONSTANTS s1, s2, c1, p1, p2

MCSource == [c \in Clones |-> s1]
MCOn == [p \in Prompts |-> IF p = p2 /\ Clones # {} THEN c1 ELSE s1]
=============================================================================
