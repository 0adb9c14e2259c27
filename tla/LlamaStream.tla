---------------------------- MODULE LlamaStream ----------------------------
(***************************************************************************)
(* Prompts of one llama-server session (backends/llama-server.mts and      *)
(* stream.mts): postChat sends the request under the signals of the        *)
(* caller, the session and a timer.  prompt() waits for the whole answer;  *)
(* streamChat reads its lines, and consumeStream merges their chunks and   *)
(* hands them to a callback, which may throw.                              *)
(*                                                                         *)
(* The server sends deltas, then "[DONE]" or not, and closes its answer,   *)
(* whose last line may lack its newline; or it falls silent.  Lines that   *)
(* carry no delta are skipped by the code and left out here.               *)
(***************************************************************************)
EXTENDS Naturals, SequencesExt

CONSTANTS
  Streams,   \* the calls of streamPrompt() and prompt() on the session
  Deltas,    \* the texts that a delta may have, as sequences
  MaxDeltas  \* bound on the deltas of an answer

ASSUME DeltasAreTexts == \A d \in Deltas : d \in Seq(Range(d))

VARIABLES
  plain,        \* the calls that are prompt(), without a stream
  sessionGone,  \* destroy() was called
  abandoned,    \* the streams whose caller aborted its signal
  stream,       \* stream[c]: "none", "posting", "reading" or its outcome
  request,      \* request[c]: the HTTP request is "none", "open" or "closed"
  answer,       \* answer[c]: the deltas that the server sent, and
  ended,        \* ended[c]: whether it closed its answer
  arriving,     \* arriving[c]: the lines that read() is still to bring
  unparsed,     \* unparsed[c]: the lines that it brought and are not parsed
  raw           \* raw[c]: the text so far

streamVars == <<plain, sessionGone, abandoned, stream, request, answer, ended,
                arriving, unparsed, raw>>
signals == <<plain, sessionGone, abandoned>>
server == <<answer, ended>>
text == <<arriving, unparsed, raw>>

\* The lines of an answer: a delta, the mark "[DONE]", and a last line that
\* has no newline and is parsed only at the end of the body.
Delta(d) == [kind |-> "delta", text |-> d, newline |-> TRUE]
DoneLine == [kind |-> "done", text |-> <<>>, newline |-> TRUE]

Outcomes == {"value", "error", "aborted"}

StreamsInit ==
  /\ plain \in SUBSET Streams
  /\ sessionGone = FALSE /\ abandoned = {}
  /\ stream = [c \in Streams |-> "none"]
  /\ request = [c \in Streams |-> "none"]
  /\ answer = [c \in Streams |-> <<>>]
  /\ ended = [c \in Streams |-> FALSE]
  /\ arriving = [c \in Streams |-> <<>>]
  /\ unparsed = [c \in Streams |-> <<>>]
  /\ raw = [c \in Streams |-> <<>>]

Under(c, from, to) == stream[c] = from /\ stream' = [stream EXCEPT ![c] = to]
Closes(c) == request' = [request EXCEPT ![c] = "closed"]

\* mergeStreamChunk: a longer chunk that begins with the text is all of it.
Merged(old, chunk) ==
  IF Len(chunk) > Len(old) /\ IsPrefix(old, chunk) THEN chunk ELSE old \o chunk

----------------------------------------------------------------------------
(* The request.                                                            *)

\* fetch, under three signals: it fails at once if the session is gone.
Posts(c) ==
  /\ stream[c] = "none"
  /\ IF c \in abandoned \/ sessionGone
     THEN /\ stream' = [stream EXCEPT ![c] = IF c \in abandoned THEN "aborted" ELSE "error"]
          /\ UNCHANGED request
     ELSE /\ stream' = [stream EXCEPT ![c] = "posting"]
          /\ request' = [request EXCEPT ![c] = "open"]
  /\ UNCHANGED <<signals, server, text>>

\* The response begins, or has another status than 200.
Responds(c) ==
  /\ request[c] = "open"
  /\ \/ Under(c, "posting", "reading") /\ UNCHANGED request
     \/ Under(c, "posting", "error") /\ Closes(c)
  /\ UNCHANGED <<signals, server, text>>

\* The caller's signal closes the request; who waits is told at once.
CallerAborts(c) ==
  /\ c \notin abandoned /\ abandoned' = abandoned \cup {c}
  /\ request' = [request EXCEPT ![c] = IF @ = "open" THEN "closed" ELSE @]
  /\ stream' = [stream EXCEPT ![c] = IF @ \in {"posting", "reading"} THEN "aborted" ELSE @]
  /\ UNCHANGED <<plain, sessionGone, server, text>>

\* Mutant: promptStreaming() does not listen to the session's controller.
SessionDestroysNothing ==
  /\ ~ sessionGone /\ sessionGone' = TRUE
  /\ UNCHANGED <<plain, abandoned, stream, request, server, text>>

\* destroy() aborts the controller that every request of the session has.
SessionDestroys ==
  /\ ~ sessionGone /\ sessionGone' = TRUE
  /\ request' = [c \in Streams |-> IF request[c] = "open" THEN "closed" ELSE request[c]]
  /\ UNCHANGED <<plain, abandoned, stream, server, text>>

\* requestTimeoutMs, which goes on over the body; or the connection breaks.
RequestTimesOut(c) ==
  /\ request[c] = "open" /\ Closes(c)
  /\ UNCHANGED <<signals, stream, server, text>>

----------------------------------------------------------------------------
(* The server.                                                             *)

Sending(c) == request[c] = "open" /\ stream[c] # "posting" /\ ~ ended[c]

\* The answer to a prompt() is one text.
SendsDelta(c) ==
  /\ Sending(c) /\ Len(answer[c]) < (IF c \in plain THEN 1 ELSE MaxDeltas)
  /\ \E d \in Deltas :
       /\ answer' = [answer EXCEPT ![c] = Append(@, d)]
       /\ arriving' = [arriving EXCEPT ![c] = Append(@, Delta(d))]
  /\ UNCHANGED <<signals, stream, request, ended, unparsed, raw>>

\* The end, after "[DONE]" or not; the last line may be without its newline.
EndsAnswer(c) ==
  /\ Sending(c)
  /\ ended' = [ended EXCEPT ![c] = TRUE]
  /\ \E marked, newline \in BOOLEAN :
       LET all == IF marked THEN Append(arriving[c], DoneLine) ELSE arriving[c]
       IN arriving' = [arriving EXCEPT ![c] =
            IF all = <<>> THEN all ELSE [all EXCEPT ![Len(all)].newline = newline]]
  /\ UNCHANGED <<signals, stream, request, answer, unparsed, raw>>

----------------------------------------------------------------------------
(* streamChat and its consumer.                                            *)

\* reader.read() brings what has arrived, some lines at a time.
ReadsBody(c) ==
  /\ c \notin plain /\ stream[c] = "reading" /\ request[c] = "open"
  /\ unparsed[c] = <<>>
  /\ \E n \in 1 .. Len(arriving[c]) :
       /\ unparsed' = [unparsed EXCEPT ![c] = SubSeq(arriving[c], 1, n)]
       /\ arriving' = [arriving EXCEPT ![c] = SubSeq(@, n + 1, Len(@))]
  /\ UNCHANGED <<signals, stream, request, server, raw>>

LineOf(c) == Head(unparsed[c])
HasLineOf(c) == stream[c] = "reading" /\ unparsed[c] # <<>> /\ LineOf(c).newline

\* A delta is yielded and merged.  The callback of an early field, which needs
\* some text, may throw: that ends the stream, whose generator lets go of its
\* reader and leaves the request open.
Yields(c) ==
  /\ HasLineOf(c) /\ LineOf(c).kind = "delta"
  /\ raw' = [raw EXCEPT ![c] = Merged(@, LineOf(c).text)]
  /\ unparsed' = [unparsed EXCEPT ![c] = Tail(@)]
  /\ Under(c, "reading", "reading") \/ (raw'[c] # <<>> /\ Under(c, "reading", "error"))
  /\ UNCHANGED <<signals, request, server, arriving>>

\* "[DONE]": the generator returns, and the rest of the body is not read.
SaysDone(c) ==
  /\ HasLineOf(c) /\ LineOf(c).kind = "done"
  /\ Under(c, "reading", "value")
  /\ UNCHANGED <<signals, request, server, text>>

\* Mutant: what follows the last newline is forgotten.
BodyEndsAtNewline(c) ==
  /\ c \notin plain
  /\ ended[c] /\ request[c] = "open" /\ arriving[c] = <<>>
  /\ unparsed[c] # <<>> => ~ LineOf(c).newline
  /\ Under(c, "reading", "value") /\ Closes(c)
  /\ UNCHANGED <<signals, server, text>>

\* The end of the body, and a last line without its newline: a delta in it is
\* yielded as well, and its callback may throw.
BodyEnds(c) ==
  /\ c \notin plain
  /\ ended[c] /\ request[c] = "open" /\ arriving[c] = <<>>
  /\ \/ /\ unparsed[c] # <<>> => (~ LineOf(c).newline /\ LineOf(c).kind = "done")
        /\ Under(c, "reading", "value") /\ UNCHANGED raw
     \/ /\ unparsed[c] # <<>> /\ ~ LineOf(c).newline /\ LineOf(c).kind = "delta"
        /\ raw' = [raw EXCEPT ![c] = Merged(@, LineOf(c).text)]
        /\ Under(c, "reading", "value") \/ (raw'[c] # <<>> /\ Under(c, "reading", "error"))
  /\ Closes(c)
  /\ UNCHANGED <<signals, server, arriving, unparsed>>

\* prompt(): the body is over, and is read as one answer with a text or not.
ReturnsAnswer(c) ==
  /\ c \in plain /\ ended[c] /\ request[c] = "open"
  /\ \/ /\ Under(c, "reading", "value") /\ answer[c] # <<>>
        /\ raw' = [raw EXCEPT ![c] = Head(answer[c])]
     \/ Under(c, "reading", "error") /\ UNCHANGED raw
  /\ Closes(c)
  /\ UNCHANGED <<signals, server, arriving, unparsed>>

\* fetch or read() rejects once the request is closed; the lines that were
\* read before go to the consumer first.
ReadFails(c) ==
  /\ request[c] = "closed"
  /\ \/ Under(c, "posting", "error")
     \/ ~ HasLineOf(c) /\ Under(c, "reading", "error")
  /\ UNCHANGED <<signals, request, server, text>>

Consumes(c) ==
  \/ ReadsBody(c) \/ Yields(c) \/ SaysDone(c) \/ BodyEnds(c)
  \/ ReturnsAnswer(c) \/ ReadFails(c)

StreamsNext ==
  \/ SessionDestroys
  \/ \E c \in Streams :
       \/ Posts(c) \/ Responds(c) \/ CallerAborts(c) \/ RequestTimesOut(c)
       \/ SendsDelta(c) \/ EndsAnswer(c) \/ Consumes(c)

\* The consumer goes on and the timer goes off; the server owes nothing.
StreamsFairness ==
  \A c \in Streams : WF_streamVars(Consumes(c)) /\ WF_streamVars(RequestTimesOut(c))

StreamsSpec == StreamsInit /\ [][StreamsNext]_streamVars /\ StreamsFairness

----------------------------------------------------------------------------
(* Properties.                                                             *)

\* A reply is what mergeChunks makes of all the deltas that the server sent,
\* or the one text of a prompt(), however read() cut the body up and whatever
\* its last line looked like.
ReplyIsWhole ==
  \A c \in Streams : stream[c] = "value" =>
    ended[c] /\ raw[c] = FoldLeft(Merged, <<>>, answer[c])

\* A request that is open is awaited by its call, and neither its session nor
\* its caller has given it up -- or its generator ended before the body did,
\* at "[DONE]" or because a callback threw: then only the timer ends it, or
\* the end of the session.
RequestsAreOwned ==
  \A c \in Streams : request[c] = "open" =>
    /\ ~ sessionGone /\ c \notin abandoned
    /\ \/ stream[c] \in {"posting", "reading"}
       \/ stream[c] = "value" /\ ended[c]
       \/ stream[c] = "error" /\ raw[c] # <<>>

\* Every stream comes to an outcome and every request is closed, though the
\* server may say nothing.
StreamsEnd ==
  \A c \in Streams : (stream[c] # "none") ~> (stream[c] \in Outcomes /\ request[c] # "open")

\* What the tests of mergeChunks ask of a stream of deltas: each chunk appends.
DeltasAreKept ==
  \A c \in Streams : stream[c] = "value" => raw[c] = FlattenSeq(answer[c])

=============================================================================
