------------------------- MODULE MCOdaiConversation -------------------------
(* Small instances of OdaiConversation for TLC.                            *)
EXTENDS OdaiConversation
=============================================================================
