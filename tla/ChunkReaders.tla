---------------------------- MODULE ChunkReaders ----------------------------
(***************************************************************************)
(* What a streamed reply promises to those who read it, with no queue, no  *)
(* page and no message: a source yields numbered chunks, readers come one  *)
(* after the other, and the n-th of them comes to the n-th chunk, or to an *)
(* end that everybody who waits is told at once and nobody reads beyond.   *)
(***************************************************************************)
EXTENDS Integers, Sequences

CONSTANTS Done, Error, None

VARIABLES
  outcomes,   \* outcomes[n]: what reader n came to, None while it waits
  yielded,    \* chunks the source has yielded
  completed,  \* the source has no more
  returned    \* the stream was given up by who reads it

vars == <<outcomes, yielded, completed, returned>>

Waiting == {n \in DOMAIN outcomes : outcomes[n] = None}
Told(e) == \E n \in DOMAIN outcomes : outcomes[n] = e
Over == Told(Done) \/ Told(Error)

\* May a reader be told e?  An error may happen at any time; "done" is told
\* when all was read, or after the stream was given up or failed.
MayEnd(e) ==
  \/ e = Error
  \/ e = Done /\ (returned \/ Told(Error))
  \/ e = Done /\ completed /\ \A n \in 1 .. yielded : n \in DOMAIN outcomes /\ outcomes[n] = n

\* All who wait are told e.
Tell(e) == outcomes' = [n \in DOMAIN outcomes |-> IF n \in Waiting THEN e ELSE outcomes[n]]

Init ==
  /\ outcomes = <<>>
  /\ yielded = 0
  /\ completed = FALSE
  /\ returned = FALSE

Yield ==
  /\ ~ completed
  /\ yielded' = yielded + 1
  /\ UNCHANGED <<outcomes, completed, returned>>

Complete ==
  /\ completed' = TRUE
  /\ UNCHANGED <<outcomes, yielded, returned>>

\* A reader comes and waits.
Wait ==
  /\ ~ Over
  /\ outcomes' = Append(outcomes, None)
  /\ UNCHANGED <<yielded, completed, returned>>

\* A reader comes when nobody waits, and its chunk is there.
Read ==
  LET n == Len(outcomes) + 1
  IN /\ ~ Over /\ Waiting = {}
     /\ n <= yielded
     /\ outcomes' = Append(outcomes, n)
     /\ UNCHANGED <<yielded, completed, returned>>

\* A reader comes when nobody waits, and the stream is at its end.
ReadEnd(e) ==
  /\ Waiting = {}
  /\ MayEnd(e)
  /\ outcomes' = Append(outcomes, e)
  /\ UNCHANGED <<yielded, completed, returned>>

\* The reader that waits longest is given its chunk.
Hand(n) ==
  /\ ~ Over
  /\ n \in Waiting /\ \A m \in Waiting : n <= m
  /\ n <= yielded
  /\ outcomes' = [outcomes EXCEPT ![n] = n]
  /\ UNCHANGED <<yielded, completed, returned>>

End(e) ==
  /\ MayEnd(e)
  /\ Tell(e)
  /\ UNCHANGED <<yielded, completed, returned>>

\* The stream is given up.
Return ==
  /\ returned' = TRUE
  /\ Tell(Done)
  /\ UNCHANGED <<yielded, completed>>

Next ==
  \/ Yield \/ Complete \/ Wait \/ Read \/ Return
  \/ \E n \in DOMAIN outcomes : Hand(n)
  \/ \E e \in {Done, Error} : ReadEnd(e) \/ End(e)

Spec == Init /\ [][Next]_vars
=============================================================================
