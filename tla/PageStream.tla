----------------------------- MODULE PageStream -----------------------------
(***************************************************************************)
(* One streamed reply of a Chrome page (chrome-page/stream.mts, queue.mts  *)
(* and pagePromptStreaming): the page pumps the native stream and emits    *)
(* one payload at a time through a binding; the host queues payloads and   *)
(* hands them to the callers of next(), of whom several may wait.  The     *)
(* stream can be closed by return() or throw(), by its signal, with its    *)
(* session and with the whole bridge, before, while and after it runs.     *)
(*                                                                         *)
(* The n-th call of next() is reader n.  A payload is the number of a      *)
(* chunk, Done or Error.                                                   *)
(***************************************************************************)
EXTENDS Integers, Sequences, FiniteSets

CONSTANTS
  MaxReaders,   \* bound on the calls of next()
  MaxChunks,    \* bound on the chunks the native stream yields
  None

Readers == 1 .. MaxReaders
Chunks == 1 .. MaxChunks
Done == 0
Error == -1
Ends == {Done, Error}
Payloads == Chunks \cup Ends

ASSUME PageStreamAssumption ==
  /\ MaxReaders \in Nat
  /\ MaxChunks \in Nat
  /\ None \notin Payloads

VARIABLES
  called,      \* calls of next() so far
  reader,      \* reader[r]: "idle", "waiting", "resolved" or "back"
  got,         \* got[r]: the payload or end that next() came to
  buffered, terminal, pending,  \* the StreamQueue
  stopped,     \* the iterator is finished
  listed,      \* the queue is in bridge.streams
  operation,   \* "none", "beginning", "invoking", "over": the page operation
  settled,     \* "none", "value", "rejected", "handled": its promise
  closers,     \* who closed the stream: subset of {"return", "signal", "session", "bridge"}
  wire,        \* evaluate requests and replies, binding calls and receipts
  registered, aborted,          \* the page's operation and its controller
  pump,        \* "none", "reading", "emitting", "ending", "over": pagePromptStreaming
  cursor,      \* "none", "open", "cancelled", "completed": the native reader
  produced,    \* chunks the native stream has yielded
  native       \* "open", "destroyed" or "gone": the page's session

readerVars == <<called, reader, got>>
queueVars == <<buffered, terminal, pending>>
operationVars == <<operation, settled>>
pageVars == <<registered, aborted, pump, cursor, produced, native>>
vars == <<readerVars, queueVars, stopped, listed, operationVars, closers, wire, pageVars>>

Settled == settled # "none"

Init ==
  /\ called = 0
  /\ reader = [r \in Readers |-> "idle"]
  /\ got = [r \in Readers |-> None]
  /\ buffered = <<>> /\ terminal = None /\ pending = <<>>
  /\ stopped = FALSE /\ listed = FALSE
  /\ operation = "none" /\ settled = "none"
  /\ closers = {}
  /\ wire = {}
  /\ registered = FALSE /\ aborted = FALSE
  /\ pump = "none" /\ cursor = "none" /\ produced = 0 /\ native = "open"

----------------------------------------------------------------------------
(* The queue.                                                              *)

\* Every reader in rs is given payload p.
Resolve(rs, p) ==
  /\ reader' = [r \in Readers |-> IF r \in rs THEN "resolved" ELSE reader[r]]
  /\ got' = [r \in Readers |-> IF r \in rs THEN p ELSE got[r]]

Waiters == {pending[i] : i \in 1 .. Len(pending)}
First == IF pending = <<>> THEN {} ELSE {Head(pending)}

\* Mutant: readers that wait are forgotten.
CloseForgetsWaiters(p) ==
  /\ terminal' = p
  /\ buffered' = <<>>
  /\ pending' = <<>>
  /\ UNCHANGED readerVars

\* StreamQueue.close: what is buffered is dropped, who waits gets the end.
Close(p) ==
  /\ terminal' = p
  /\ buffered' = <<>>
  /\ pending' = <<>>
  /\ Resolve(Waiters, p)
  /\ UNCHANGED called

\* Mutant: an end, too, goes to the first reader only.
PushToFirst(p) ==
  IF terminal # None
  THEN UNCHANGED <<queueVars, readerVars>>
  ELSE /\ buffered' = IF pending = <<>> THEN Append(buffered, p) ELSE buffered
       /\ terminal' = IF p \in Ends THEN p ELSE None
       /\ pending' = IF pending = <<>> THEN <<>> ELSE Tail(pending)
       /\ Resolve(First, p)
       /\ UNCHANGED called

\* StreamQueue.push: the first reader that waits gets the payload; an end is
\* kept and goes to all of them.
Push(p) ==
  IF terminal # None
  THEN UNCHANGED <<queueVars, readerVars>>
  ELSE /\ buffered' = IF pending = <<>> THEN Append(buffered, p) ELSE buffered
       /\ terminal' = IF p \in Ends THEN p ELSE None
       /\ pending' = IF p \in Ends \/ pending = <<>> THEN <<>> ELSE Tail(pending)
       /\ Resolve(IF p \in Ends THEN Waiters ELSE First, p)
       /\ UNCHANGED called

----------------------------------------------------------------------------
(* The host.                                                               *)

Request(fn) == [fn |-> fn]
Reply(fn, ok) == [fn |-> fn, ok |-> ok]
Emit(p) == [fn |-> "emit", payload |-> p]

\* Message m arrives and is answered at once, if answers is not empty.
Exchange(m, answers) == m \in wire /\ wire' = (wire \ {m}) \cup answers

\* operation.cancel, and what it sends: an operation whose registration is
\* not confirmed is cancelled once it is (Begun).
Cancelling == operation \in {"beginning", "invoking"} /\ ~Settled
CancelOperation == settled' = IF Cancelling THEN "rejected" ELSE settled
CancelRequest == IF Cancelling /\ operation = "invoking" THEN {Request("cancel")} ELSE {}

\* start(): the page operation, unless the signal is aborted already.
Start ==
  /\ listed' = TRUE
  /\ IF "signal" \in closers
     THEN /\ operation' = "over"
          /\ settled' = "rejected"
          /\ UNCHANGED wire
     ELSE /\ operation' = "beginning"
          /\ wire' = wire \cup {Request("begin")}
          /\ UNCHANGED settled

\* queue.next() by reader r.
Take(r) ==
  LET payload == IF buffered = <<>> THEN terminal ELSE Head(buffered)
  IN /\ reader' = [reader EXCEPT ![r] = IF payload = None THEN "waiting" ELSE "resolved"]
     /\ got' = [got EXCEPT ![r] = payload]
     /\ buffered' = IF buffered = <<>> THEN <<>> ELSE Tail(buffered)
     /\ pending' = IF payload = None THEN Append(pending, r) ELSE pending
     /\ UNCHANGED terminal

\* next() returns or throws without a look at the queue.
Refuse(r, end) ==
  /\ reader' = [reader EXCEPT ![r] = "back"]
  /\ got' = [got EXCEPT ![r] = end]
  /\ UNCHANGED <<queueVars, listed, operationVars, wire>>

NextCall ==
  LET r == called + 1
      refused == operation = "none" /\ "session" \in closers
  IN /\ r \in Readers
     /\ called' = r
     /\ IF stopped THEN Refuse(r, Done)
        ELSE IF refused THEN Refuse(r, Error)
        ELSE /\ Take(r)
             /\ IF operation = "none" THEN Start ELSE UNCHANGED <<listed, operationVars, wire>>
     /\ UNCHANGED <<stopped, closers, pageVars>>

\* finish(): the iterator is over for every reader.
Finish ==
  /\ stopped' = TRUE
  /\ listed' = FALSE
  /\ Close(Done)

\* next() continues with the payload it waited for.
Resume(r) ==
  /\ reader[r] = "resolved"
  /\ IF got[r] \in Ends
     THEN /\ stopped' = TRUE
          /\ listed' = FALSE
          /\ terminal' = Done
          /\ buffered' = <<>>
          /\ pending' = <<>>
          /\ reader' = [q \in Readers |-> IF q = r THEN "back"
                                          ELSE IF q \in Waiters THEN "resolved" ELSE reader[q]]
          /\ got' = [q \in Readers |-> IF q \in Waiters THEN Done ELSE got[q]]
     ELSE /\ reader' = [reader EXCEPT ![r] = "back"]
          /\ UNCHANGED <<got, queueVars, stopped, listed>>
  /\ UNCHANGED <<called, operationVars, closers, wire, pageVars>>

\* return() and throw().
Return ==
  /\ "return" \notin closers
  /\ closers' = closers \cup {"return"}
  /\ Finish
  /\ CancelOperation
  /\ wire' = wire \cup CancelRequest
  /\ UNCHANGED <<operation, pageVars>>

\* The caller aborts the stream's signal, or destroys its session.
Abort ==
  /\ "signal" \notin closers
  /\ closers' = closers \cup {"signal"}
  /\ CancelOperation
  /\ wire' = wire \cup CancelRequest
  /\ UNCHANGED <<readerVars, queueVars, stopped, listed, operation, pageVars>>

DestroySession ==
  /\ "session" \notin closers
  /\ closers' = closers \cup {"session"}
  /\ CancelOperation
  /\ wire' = wire \cup CancelRequest \cup {Request("destroy")}
  /\ UNCHANGED <<readerVars, queueVars, stopped, listed, operation, pageVars>>

\* The bridge closes: all its streams end, then the browser goes.
CloseBridge ==
  /\ "bridge" \notin closers
  /\ closers' = closers \cup {"bridge"}
  /\ IF listed THEN Close(Error) ELSE UNCHANGED <<queueVars, readerVars>>
  /\ listed' = FALSE
  /\ UNCHANGED <<stopped, operationVars, wire, pageVars>>

BrowserGoes ==
  /\ "bridge" \in closers
  /\ native # "gone"
  /\ native' = "gone"
  /\ wire' = {}
  /\ registered' = FALSE
  /\ UNCHANGED <<readerVars, queueVars, stopped, listed, operationVars, closers,
                 aborted, pump, cursor, produced>>

\* evaluate rejects: there is no page any more.
EvaluateFails ==
  /\ native = "gone"
  /\ operation \in {"beginning", "invoking"}
  /\ operation' = "over"
  /\ settled' = IF Settled THEN settled ELSE "rejected"
  /\ wire' = {}
  /\ UNCHANGED <<readerVars, queueVars, stopped, listed, closers, pageVars>>

\* Mutant: an operation cancelled early is forgotten.
BegunForgetsCancel(ok) ==
  /\ operation = "beginning"
  /\ IF ok /\ ~Settled
     THEN /\ Exchange(Reply("begun", ok), {Request("run")})
          /\ operation' = "invoking"
          /\ UNCHANGED settled
     ELSE /\ Exchange(Reply("begun", ok), {})
          /\ operation' = "over"
          /\ settled' = IF Settled THEN settled ELSE "rejected"
  /\ UNCHANGED <<readerVars, queueVars, stopped, listed, closers, pageVars>>

\* The reply to pageBeginOperation.
Begun(ok) ==
  /\ operation = "beginning"
  /\ IF ok /\ ~Settled
     THEN /\ Exchange(Reply("begun", ok), {Request("run")})
          /\ operation' = "invoking"
          /\ UNCHANGED settled
     ELSE /\ Exchange(Reply("begun", ok), {Request("cancel")})
          /\ operation' = "over"
          /\ settled' = IF Settled THEN settled ELSE "rejected"
  /\ UNCHANGED <<readerVars, queueVars, stopped, listed, closers, pageVars>>

\* The reply to pagePromptStreaming.
Ran ==
  /\ Exchange(Reply("ran", TRUE), {})
  /\ operation' = "over"
  /\ settled' = IF Settled THEN settled ELSE "value"
  /\ UNCHANGED <<readerVars, queueVars, stopped, listed, closers, pageVars>>

\* The continuations of the operation's promise.
OperationSettles ==
  /\ settled \in {"value", "rejected"}
  /\ settled' = "handled"
  /\ listed' = FALSE
  /\ IF settled = "rejected" THEN Close(Error) ELSE UNCHANGED <<queueVars, readerVars>>
  /\ UNCHANGED <<stopped, operation, closers, wire, pageVars>>

\* The binding is called: a stream that is no longer listed drops it.
Deliver(p) ==
  /\ Exchange(Emit(p), {Reply("receipt", p \notin Ends)})
  /\ IF listed THEN Push(p) ELSE UNCHANGED <<queueVars, readerVars>>
  /\ UNCHANGED <<stopped, listed, operationVars, closers, pageVars>>

----------------------------------------------------------------------------
(* The page.                                                               *)

\* The page's controller is aborted and its reader cancelled.
StopOperation ==
  /\ registered' = FALSE
  /\ aborted' = (aborted \/ registered)
  /\ cursor' = IF registered /\ cursor = "open" THEN "cancelled" ELSE cursor

PageBeginOperation ==
  LET known == native = "open"
  IN /\ native # "gone"
     /\ Exchange(Request("begin"), {Reply("begun", known)})
     /\ registered' = known
     /\ UNCHANGED <<readerVars, queueVars, stopped, listed, operationVars, closers,
                    aborted, pump, cursor, produced, native>>

PageCancelOperation ==
  /\ native # "gone"
  /\ Exchange(Request("cancel"), {})
  /\ StopOperation
  /\ UNCHANGED <<readerVars, queueVars, stopped, listed, operationVars, closers,
                 pump, produced, native>>

PageDestroySession ==
  /\ native # "gone"
  /\ Exchange(Request("destroy"), {})
  /\ native' = "destroyed"
  /\ StopOperation
  /\ UNCHANGED <<readerVars, queueVars, stopped, listed, operationVars, closers,
                 pump, produced>>

\* pagePromptStreaming begins: refused, it emits an error and is over.
PageRun ==
  LET accepted == native = "open" /\ registered
  IN /\ native # "gone"
     /\ Exchange(Request("run"), IF accepted THEN {} ELSE {Emit(Error)})
     /\ pump' = IF accepted THEN "reading" ELSE "ending"
     /\ cursor' = IF accepted THEN "open" ELSE cursor
     /\ registered' = (registered /\ native = "open")
     /\ UNCHANGED <<readerVars, queueVars, stopped, listed, operationVars, closers,
                    aborted, produced, native>>

\* Mutant: the page emits without waiting for receipts.
PumpAhead(p) ==
  /\ native # "gone"
  /\ pump = "reading"
  /\ IF aborted THEN p = Error ELSE p \in Ends \cup {produced + 1}
  /\ p \in Payloads
  /\ produced' = IF p \in Ends THEN produced ELSE produced + 1
  /\ cursor' = IF p = Done THEN "completed" ELSE cursor
  /\ pump' = IF p \in Ends THEN "ending" ELSE "reading"
  /\ wire' = wire \cup {Emit(p)}
  /\ UNCHANGED <<readerVars, queueVars, stopped, listed, operationVars, closers,
                 registered, aborted, native>>

\* The native reader yields a chunk, ends, fails, or is given up because the
\* controller is aborted.
Pump(p) ==
  /\ native # "gone"
  /\ pump = "reading"
  /\ IF aborted THEN p = Error ELSE p \in Ends \cup {produced + 1}
  /\ p \in Payloads
  /\ produced' = IF p \in Ends THEN produced ELSE produced + 1
  /\ cursor' = IF p = Done THEN "completed" ELSE cursor
  /\ pump' = IF p \in Ends THEN "ending" ELSE "emitting"
  /\ wire' = wire \cup {Emit(p)}
  /\ UNCHANGED <<readerVars, queueVars, stopped, listed, operationVars, closers,
                 registered, aborted, native>>

\* The receipt of an emit; after the last one the reader is cancelled or
\* released, and the operation leaves the registry.
Received(more) ==
  /\ native # "gone"
  /\ Exchange(Reply("receipt", more), IF more THEN {} ELSE {Reply("ran", TRUE)})
  /\ pump' = IF more THEN "reading" ELSE "over"
  /\ cursor' = IF ~more /\ cursor = "open" THEN "cancelled" ELSE cursor
  /\ registered' = (registered /\ more)
  /\ UNCHANGED <<readerVars, queueVars, stopped, listed, operationVars, closers,
                 aborted, produced, native>>

----------------------------------------------------------------------------
Caller == NextCall \/ Return \/ Abort \/ DestroySession \/ CloseBridge

\* What host and page do without help from the caller or the native model.
Due ==
  \/ \E r \in Readers : Resume(r)
  \/ \E ok \in BOOLEAN : Begun(ok)
  \/ Ran
  \/ OperationSettles
  \/ \E p \in Payloads : Deliver(p)
  \/ BrowserGoes
  \/ EvaluateFails
  \/ PageBeginOperation
  \/ PageCancelOperation
  \/ PageDestroySession
  \/ PageRun
  \/ aborted /\ Pump(Error)
  \/ \E more \in BOOLEAN : Received(more)

Native == \E p \in Payloads : Pump(p)

Next == Caller \/ Due \/ Native

Spec == Init /\ [][Next]_vars

\* What is due happens; the native stream owes nothing.
DeliverySpec == Spec /\ WF_vars(Due)

----------------------------------------------------------------------------
(* Properties                                                              *)

\* Chunks reach the calls of next() in order, each once and none left out,
\* however many calls wait at the same time.
ChunksInOrder == \A r \in Readers : got[r] \in Chunks => got[r] = r

\* After one call of next() came to an end, no later call gets a chunk.
NoChunkAfterEnd ==
  \A q, r \in Readers : (q < r /\ got[q] \in Ends) => got[r] \notin Chunks

\* A reader is told "done" only if the stream was closed, or has handed over
\* all its chunks, or another reader was told of the failure.
DoneMeansComplete ==
  \A r \in Readers : got[r] = Done =>
    \/ "return" \in closers
    \/ \E q \in Readers : got[q] = Error
    \/ cursor = "completed" /\ \A n \in 1 .. produced : \E q \in Readers : got[q] = n

\* What the readers see is the page's stream (push and next on one side, the
\* pump and its awaited receipts on the other): its chunks in order from the
\* first, then the end, and no false end.
ReadersFollowStream == ChunksInOrder /\ NoChunkAfterEnd /\ DoneMeansComplete

Promise == INSTANCE ChunkReaders WITH
  outcomes <- [n \in 1 .. called |-> got[n]],
  yielded <- produced,
  completed <- cursor = "completed",
  returned <- "return" \in closers

\* Whatever closes the stream and whenever, reader n of the queue comes to
\* chunk n or to an end that all who wait are told together.
ImplementsChunkReaders == Promise!Spec

\* Something of what is Due can happen.
HasDue ==
  \/ \E r \in Readers : reader[r] = "resolved"
  \/ settled \in {"value", "rejected"}
  \/ operation = "beginning" /\ \E ok \in BOOLEAN : Reply("begun", ok) \in wire
  \/ Reply("ran", TRUE) \in wire
  \/ \E p \in Payloads : Emit(p) \in wire
  \/ IF native = "gone" THEN operation \in {"beginning", "invoking"}
     ELSE \/ "bridge" \in closers
          \/ \E fn \in {"begin", "run", "cancel", "destroy"} : Request(fn) \in wire
          \/ \E more \in BOOLEAN : Reply("receipt", more) \in wire
          \/ aborted /\ pump = "reading"

\* Nobody is stranded: a reader waits for a step that is due, or for the
\* native stream of a stream that nobody has closed; and when nothing is due
\* any more, a closed stream has left nothing on the page.
NobodyIsStranded ==
  /\ \A r \in Readers : reader[r] = "waiting" => HasDue \/ (closers = {} /\ pump = "reading")
  /\ closers # {} /\ ~ HasDue => native = "gone" \/ (cursor # "open" /\ ~ registered)

\* Closing the stream, one way or another, releases every reader that waits,
\* also when the native stream never answers again.
ClosedStreamReleasesReaders ==
  \A r \in Readers : (closers # {} /\ reader[r] = "waiting") ~> (reader[r] = "back")

\* It also reaches the page: the native reader is cancelled or completed and
\* no controller stays registered.
ClosedStreamReleasesPage ==
  (closers # {}) ~> [](native = "gone" \/ (cursor # "open" /\ ~registered))

\* Each of the four ways to close a stream ends it on both sides.
ClosedStreamIsReleased == ClosedStreamReleasesReaders /\ ClosedStreamReleasesPage

\* While the native stream goes on, every call of next() returns.
EveryNextReturns ==
  WF_vars(Native) => \A r \in Readers : (reader[r] = "waiting") ~> (reader[r] = "back")

\* Nobody waits for ever: a closed stream lets go of its readers and its page,
\* and an open one answers as long as its native stream does.
StreamWorkEnds == ClosedStreamIsReleased /\ EveryNextReturns
=============================================================================
