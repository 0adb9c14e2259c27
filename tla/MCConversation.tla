--------------------------- MODULE MCConversation ---------------------------
(* Small instances of Conversation for TLC.                                *)
EXTENDS Conversation

CONSTANTS p1, p2, s1, q1

MCContentSize == [c \in TurnCalls |-> IF c = p2 THEN 2 ELSE 1]
MCReplySizes == {0, 1}
MCSeed == <<>>
MCRestores == {<<[call |-> None, size |-> 2]>>}
=============================================================================
