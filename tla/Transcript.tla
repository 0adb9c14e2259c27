----------------------------- MODULE Transcript -----------------------------
(***************************************************************************)
(* What a conversation promises about its transcript, with no session, no  *)
(* job and no signal: turns are accepted into a line, and each leaves the  *)
(* line from its front, either into the transcript or without a trace.     *)
(* Both end together at a reset.                                           *)
(***************************************************************************)
EXTENDS Integers, Sequences

CONSTANTS Callers, MaxTurns, MaxCharacters, Sizes, Starts,
          Characters(_)   \* how long a transcript is

VARIABLES history, waiting, ended

vars == <<history, waiting, ended>>

Init ==
  /\ history \in Starts
  /\ waiting = <<>>
  /\ ended = FALSE

Accept(c) ==
  /\ ~ended
  /\ Len(history) + Len(waiting) < MaxTurns
  /\ waiting' = Append(waiting, c)
  /\ UNCHANGED <<history, ended>>

Commit(size) ==
  /\ waiting # <<>>
  /\ Characters(history) + size <= MaxCharacters
  /\ history' = Append(history, [call |-> Head(waiting), size |-> size])
  /\ waiting' = Tail(waiting)
  /\ UNCHANGED ended

Drop ==
  /\ waiting # <<>>
  /\ waiting' = Tail(waiting)
  /\ UNCHANGED <<history, ended>>

Restart(transcript) ==
  /\ ~ended
  /\ history' = transcript
  /\ waiting' = <<>>
  /\ UNCHANGED ended

Close ==
  /\ ~ended
  /\ history' = <<>>
  /\ waiting' = <<>>
  /\ ended' = TRUE

Next ==
  \/ \E c \in Callers : Accept(c)
  \/ \E size \in Sizes : Commit(size)
  \/ Drop
  \/ \E transcript \in Starts : Restart(transcript)
  \/ Close

Spec == Init /\ [][Next]_vars
=============================================================================
