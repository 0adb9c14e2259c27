---------------------------- MODULE Conversation ----------------------------
(***************************************************************************)
(* A conversation (src/conversation): calls queue behind one another on a  *)
(* promise tail, each runs its job against a provider session, and a turn  *)
(* enters the transcript only when it completes.  Any call can be aborted  *)
(* by its own signal at any time, reset() and destroy() invalidate every   *)
(* outstanding call, and the provider answers late, badly or never.        *)
(*                                                                         *)
(* One action is one continuation of the code between two awaits.  A call  *)
(* is cancelled (its combined AbortSignal is aborted) when its own signal  *)
(* is, or when the generation it captured is over: reset and destroy both  *)
(* abort the controller of the generation they end.                        *)
(*                                                                         *)
(* Data: a turn is a user message with its reply, [call, size]; lengths    *)
(* are small numbers.  A leading system message only takes characters and  *)
(* is part of the size of the transcript's first turn.                     *)
(***************************************************************************)
EXTENDS Integers, FiniteSets, SequencesExt

CONSTANTS
  Prompts,        \* prompt() and promptStreaming() calls: a reply is committed
  Structured,     \* promptStructured() calls: a reply is committed when it parses
  Statuses,       \* contextStatus() calls: queued, but not a turn
  Mode,           \* factory.contextMode: "native" or "replay"
  MaxTurns,       \* limits.maxTurns
  MaxCharacters,  \* limits.maxCharacters
  Retries,        \* options.retries of the structured calls
  ContentSize,    \* ContentSize[c]: length of the content of turn call c
  ReplySizes,     \* lengths a reply may have; 0 stands for a blank reply
  Seed,           \* the initial transcript
  Restores,       \* transcripts given to reset()
  MaxResets,      \* bound on the number of resets
  None

TurnCalls == Prompts \cup Structured
Calls == TurnCalls \cup Statuses
Generations == 0 .. MaxResets + 1

\* The session that attempt k of call c creates.
Sessions == Calls \X (0 .. Retries)

Turns == [call: Calls \cup {None}, size: Nat]

ASSUME ConversationAssumption ==
  /\ Prompts \cap Structured = {}
  /\ Statuses \cap TurnCalls = {}
  /\ IsFiniteSet(Calls)
  /\ None \notin Calls
  /\ None \notin Sessions
  /\ Mode \in {"native", "replay"}
  /\ MaxTurns \in Nat \ {0}
  /\ MaxCharacters \in Nat \ {0}
  /\ Retries \in Nat
  /\ MaxResets \in Nat
  /\ ContentSize \in [TurnCalls -> Nat \ {0}]
  /\ ReplySizes \subseteq Nat
  /\ Seed \in Seq(Turns)
  /\ Restores \subseteq Seq(Turns)
  \* A given transcript holds turns of earlier conversations.
  /\ \A given \in {Seed} \cup Restores : \A i \in DOMAIN given : given[i].call = None

VARIABLES
  closed, generation, turns, pendingTurns, characters, messages, session,
  chain,          \* chain[g]: the jobs chained on state.tail in generation g
  pc,             \* where each call's job is
  gen,            \* operation.generation of each call
  aborted,        \* the call's own abort signal
  attempt,        \* the structured retry loop's counter
  owned,          \* the session a running job holds
  reply,          \* length of the reply a job is about to commit
  result,         \* what the job returned or threw
  outcome,        \* what the caller was told
  sessionStatus,  \* the provider sessions
  retained        \* retained[s]: the calls whose turns session s remembers

stateVars == <<closed, generation, turns, pendingTurns, characters, messages>>
callVars == <<pc, gen, aborted, attempt, owned, reply, result, outcome>>
sessionVars == <<session, sessionStatus, retained>>
vars == <<stateVars, callVars, sessionVars, chain>>

----------------------------------------------------------------------------
ConversationCharacters(transcript) ==
  FoldLeft(LAMBDA total, turn : total + turn.size, 0, transcript)

\* validateConversationMessages: what an initial transcript must satisfy.
ValidTranscript(transcript) ==
  /\ Len(transcript) <= MaxTurns
  /\ ConversationCharacters(transcript) \in 0 .. MaxCharacters

CallsOf(transcript) == [i \in 1 .. Len(transcript) |-> transcript[i].call]

\* Mutant: a reset or destroy does not cancel what is outstanding.
CancelledBySignalOnly(c) == aborted[c]

Cancelled(c) == aborted[c] \/ gen[c] # generation

Accepted(c) == pc[c] \notin {"idle", "refused"}

InJob(c) == pc[c] \in {"creating", "checking", "checked", "generating", "confirming", "retrying"}

\* The session the current attempt of call c creates.
OwnSession(c) == <<c, attempt[c]>>

\* Mutant: the session is kept.
DiscardNothing(s) == UNCHANGED <<sessionStatus, session>>

\* Mutant: state.session is not cleared.
DiscardLeavesReference(s) ==
  /\ sessionStatus' = IF s # None /\ sessionStatus[s] = "live"
                      THEN [sessionStatus EXCEPT ![s] = "disposed"] ELSE sessionStatus
  /\ UNCHANGED session

\* discardConversationSession: a session is destroyed at most once, and
\* state.session is cleared only if it is that very session.
Discard(s) ==
  IF s # None /\ sessionStatus[s] = "live"
  THEN /\ sessionStatus' = [sessionStatus EXCEPT ![s] = "disposed"]
       /\ session' = IF session = s THEN None ELSE session
  ELSE UNCHANGED <<sessionStatus, session>>

\* Mutant: the error is swallowed.
FinishSwallowsErrors(c, what) ==
  /\ pc' = [pc EXCEPT ![c] = "done"]
  /\ result' = [result EXCEPT ![c] = "value"]
  /\ owned' = [owned EXCEPT ![c] = None]

\* The job's function returns or throws; enqueueConversation's finally block
\* runs in a later continuation (Settle).
Finish(c, what) ==
  /\ pc' = [pc EXCEPT ![c] = "done"]
  /\ result' = [result EXCEPT ![c] = what]
  /\ owned' = [owned EXCEPT ![c] = None]

\* The catch blocks of runConversationTurn and conversationStatus.
JobFails(c) ==
  /\ Discard(owned[c])
  /\ Finish(c, "error")
  /\ UNCHANGED <<stateVars, chain, gen, aborted, attempt, reply, outcome, retained>>

----------------------------------------------------------------------------
Init ==
  /\ closed = FALSE
  /\ generation = 0
  /\ ValidTranscript(Seed)
  /\ messages = Seed
  /\ turns = Len(Seed)
  /\ characters = ConversationCharacters(Seed)
  /\ pendingTurns = 0
  /\ session = None
  /\ chain = [g \in Generations |-> <<>>]
  /\ pc = [c \in Calls |-> "idle"]
  /\ gen = [c \in Calls |-> 0]
  /\ aborted = [c \in Calls |-> FALSE]
  /\ attempt = [c \in Calls |-> 0]
  /\ owned = [c \in Calls |-> None]
  /\ reply = [c \in Calls |-> 0]
  /\ result = [c \in Calls |-> "none"]
  /\ outcome = [c \in Calls |-> "none"]
  /\ sessionStatus = [s \in Sessions |-> "none"]
  /\ retained = [s \in Sessions |-> <<>>]

----------------------------------------------------------------------------
(* The caller's side: enqueueConversation, reset, destroy.                 *)

\* Mutant: queued turns are not counted.
RefusedForgetsQueue(c) ==
  \/ closed
  \/ aborted[c]
  \/ c \in TurnCalls /\ ContentSize[c] > MaxCharacters
  \/ c \in TurnCalls /\ turns >= MaxTurns

\* What enqueueConversation, and assertConversationInput before it, refuse
\* synchronously.  contextStatus() takes no signal.
Refused(c) ==
  \/ closed
  \/ aborted[c]
  \/ c \in TurnCalls /\ ContentSize[c] > MaxCharacters
  \/ c \in TurnCalls /\ turns + pendingTurns >= MaxTurns

Refuse(c) ==
  /\ pc[c] = "idle"
  /\ Refused(c)
  /\ pc' = [pc EXCEPT ![c] = "refused"]
  /\ outcome' = [outcome EXCEPT ![c] = "error"]
  /\ UNCHANGED <<stateVars, sessionVars, chain, gen, aborted, attempt, owned, reply, result>>

EnqueueConversation(c) ==
  /\ pc[c] = "idle"
  /\ ~Refused(c)
  /\ gen' = [gen EXCEPT ![c] = generation]
  /\ pendingTurns' = IF c \in TurnCalls THEN pendingTurns + 1 ELSE pendingTurns
  /\ chain' = [chain EXCEPT ![generation] = Append(@, c)]
  /\ pc' = [pc EXCEPT ![c] = "queued"]
  /\ UNCHANGED <<closed, generation, turns, characters, messages, sessionVars,
                 aborted, attempt, owned, reply, result, outcome>>

\* The caller aborts the call's own signal.
Abort(c) ==
  /\ c \in TurnCalls
  /\ ~aborted[c]
  /\ outcome[c] = "none"
  /\ aborted' = [aborted EXCEPT ![c] = TRUE]
  /\ UNCHANGED <<stateVars, sessionVars, chain, pc, gen, attempt, owned, reply, result, outcome>>

ResetConversationState(transcript) ==
  /\ ~closed
  /\ ValidTranscript(transcript)
  /\ generation < MaxResets
  /\ generation' = generation + 1
  /\ Discard(session)
  /\ messages' = transcript
  /\ turns' = Len(transcript)
  /\ characters' = ConversationCharacters(transcript)
  /\ pendingTurns' = 0
  /\ UNCHANGED <<closed, callVars, chain, retained>>

\* destroy(), or the abort of the conversation's own lifetime signal.
DestroyConversationState ==
  /\ ~closed
  /\ closed' = TRUE
  /\ generation' = generation + 1
  /\ Discard(session)
  /\ messages' = <<>>
  /\ turns' = 0
  /\ characters' = 0
  /\ pendingTurns' = 0
  /\ UNCHANGED <<callVars, chain, retained>>

\* Mutant: enqueueConversation returns the queued promise itself.
CallerAbortedLate(c) ==
  /\ pc[c] = "settled"
  /\ outcome[c] = "none"
  /\ Cancelled(c)
  /\ outcome' = [outcome EXCEPT ![c] = "aborted"]
  /\ UNCHANGED <<stateVars, sessionVars, chain, pc, gen, aborted, attempt, owned, reply, result>>

\* waitForConversation around the queued job: an abort is reported at once,
\* and wins over a value that is already there.
CallerAborted(c) ==
  /\ Accepted(c)
  /\ outcome[c] = "none"
  /\ Cancelled(c)
  /\ outcome' = [outcome EXCEPT ![c] = "aborted"]
  /\ UNCHANGED <<stateVars, sessionVars, chain, pc, gen, aborted, attempt, owned, reply, result>>

CallerReceives(c) ==
  /\ pc[c] = "settled"
  /\ outcome[c] = "none"
  /\ result[c] = "error" \/ ~Cancelled(c)
  /\ outcome' = [outcome EXCEPT ![c] = result[c]]
  /\ UNCHANGED <<stateVars, sessionVars, chain, pc, gen, aborted, attempt, owned, reply, result>>

----------------------------------------------------------------------------
(* The job's side: runConversationTurn, its retries, conversationStatus.   *)

\* Mutant: the job does not wait for the tail.
ReadyAtOnce(c) == pc[c] \in {"queued", "retrying"}

\* The job may run: the jobs before it on the tail have settled, or it goes
\* round the retry loop.
Ready(c) ==
  \/ pc[c] = "queued" /\ chain[gen[c]] # <<>> /\ Head(chain[gen[c]]) = c
  \/ pc[c] = "retrying"

\* The checks before a turn touches the provider.
TurnRejected(c) ==
  \/ Cancelled(c)
  \/ ContentSize[c] > MaxCharacters - characters
  \/ turns >= MaxTurns

RejectTurn(c) ==
  /\ c \in TurnCalls
  /\ Ready(c)
  /\ TurnRejected(c)
  /\ JobFails(c)

\* acquireConversationSession: a native conversation keeps its session.
ReuseSession(c) ==
  /\ c \in TurnCalls
  /\ Ready(c)
  /\ ~TurnRejected(c)
  /\ Mode = "native" /\ session # None
  /\ owned' = [owned EXCEPT ![c] = session]
  /\ pc' = [pc EXCEPT ![c] = "checking"]
  /\ UNCHANGED <<stateVars, sessionVars, chain, gen, aborted, attempt, reply, result, outcome>>

\* ... and otherwise asks the factory for one, seeded (if native) with the
\* committed messages.
RequestSession(c) ==
  /\ c \in TurnCalls
  /\ Ready(c)
  /\ ~TurnRejected(c)
  /\ ~(Mode = "native" /\ session # None)
  /\ pc' = [pc EXCEPT ![c] = "creating"]
  /\ sessionStatus' = [sessionStatus EXCEPT ![OwnSession(c)] = "requested"]
  /\ retained' = [retained EXCEPT ![OwnSession(c)] =
                    IF Mode = "native" THEN CallsOf(messages) ELSE <<>>]
  /\ UNCHANGED <<stateVars, session, chain, gen, aborted, attempt, owned, reply, result, outcome>>

\* The microtask that calls factory.create, unless the signal is aborted by then.
CallFactory(s) ==
  /\ sessionStatus[s] = "requested"
  /\ sessionStatus' = [sessionStatus EXCEPT ![s] =
                         IF Cancelled(s[1]) THEN "failed" ELSE "creating"]
  /\ UNCHANGED <<stateVars, callVars, session, retained, chain>>

\* The job that asked for session s no longer waits for it.
Abandoned(s) == ~(pc[s[1]] = "creating" /\ attempt[s[1]] = s[2])

\* Mutant: a late session is not noticed.
SessionArrivesUnowned(s) ==
  /\ sessionStatus[s] = "creating"
  /\ sessionStatus' = [sessionStatus EXCEPT ![s] = "live"]
  /\ UNCHANGED <<stateVars, callVars, session, retained, chain>>

\* The provider delivers a session; one that comes too late is destroyed.
SessionArrives(s) ==
  /\ sessionStatus[s] = "creating"
  /\ sessionStatus' = [sessionStatus EXCEPT ![s] =
                         IF Abandoned(s) THEN "disposed" ELSE "live"]
  /\ UNCHANGED <<stateVars, callVars, session, retained, chain>>

SessionFails(s) ==
  /\ sessionStatus[s] = "creating"
  /\ sessionStatus' = [sessionStatus EXCEPT ![s] = "failed"]
  /\ UNCHANGED <<stateVars, callVars, session, retained, chain>>

AcquireSession(c) ==
  /\ pc[c] = "creating"
  /\ sessionStatus[OwnSession(c)] = "live"
  /\ ~Cancelled(c)
  /\ session' = OwnSession(c)
  /\ owned' = [owned EXCEPT ![c] = OwnSession(c)]
  /\ pc' = [pc EXCEPT ![c] = "checking"]
  /\ UNCHANGED <<stateVars, sessionStatus, retained, chain, gen, aborted, attempt, reply, result, outcome>>

\* The wait ends without a session: what has arrived is discarded, what has
\* not is abandoned.
AbandonSession(c) ==
  /\ pc[c] = "creating"
  /\ Cancelled(c) \/ sessionStatus[OwnSession(c)] = "failed"
  /\ Discard(OwnSession(c))
  /\ Finish(c, "error")
  /\ UNCHANGED <<stateVars, chain, gen, aborted, attempt, reply, outcome, retained>>

\* conversationStatus: with no native session there is nothing to ask.
StartStatus(c) ==
  /\ c \in Statuses
  /\ Ready(c)
  /\ IF Cancelled(c) \/ Mode = "replay" \/ session = None
     THEN /\ Finish(c, IF Cancelled(c) THEN "error" ELSE "value")
     ELSE /\ owned' = [owned EXCEPT ![c] = session]
          /\ pc' = [pc EXCEPT ![c] = "checking"]
          /\ UNCHANGED result
  /\ UNCHANGED <<stateVars, sessionVars, chain, gen, aborted, attempt, reply, outcome>>

FinishStatus(c) ==
  /\ c \in Statuses
  /\ pc[c] = "checking"
  /\ ~Cancelled(c)
  /\ Finish(c, "value")
  /\ UNCHANGED <<stateVars, sessionVars, chain, gen, aborted, attempt, reply, outcome>>

\* A wait of the job, or the check that follows it, ends because the signal is
\* aborted.
CancelJob(c) ==
  /\ pc[c] \in {"checking", "generating", "confirming"}
  /\ Cancelled(c)
  /\ JobFails(c)

\* contextStatus() rejects, is invalid, or reports lost history.
ContextFails(c) ==
  /\ Mode = "native"
  /\ pc[c] \in {"checking", "confirming"}
  /\ ~Cancelled(c)
  /\ JobFails(c)

\* The last look at signal and generation before the prompt; a native session
\* has reported its history as whole.
ContextPasses(c) ==
  /\ c \in TurnCalls
  /\ pc[c] = "checking"
  /\ ~Cancelled(c)
  /\ pc' = [pc EXCEPT ![c] = "checked"]
  /\ UNCHANGED <<stateVars, sessionVars, chain, gen, aborted, attempt, owned,
                 reply, result, outcome>>

\* The session is prompted with the turn, in a later continuation, and nothing
\* is looked at again: an abort, reset or destroy in between is noticed only
\* after the prompt.
Generate(c) ==
  /\ c \in TurnCalls
  /\ pc[c] = "checked"
  /\ pc' = [pc EXCEPT ![c] = "generating"]
  /\ retained' = [retained EXCEPT ![owned[c]] = Append(@, c)]
  /\ UNCHANGED <<stateVars, session, sessionStatus, chain, gen, aborted, attempt,
                 owned, reply, result, outcome>>

\* Mutant: the new message is not counted.
RemainingWithoutContent(c) == MaxCharacters - characters

Remaining(c) == MaxCharacters - characters - ContentSize[c]

\* The provider rejects, the reply is too long, or it is blank.
GenerationFails(c) ==
  /\ pc[c] = "generating"
  /\ ~Cancelled(c)
  /\ JobFails(c)

\* A structured reply that does not parse: its session is discarded and the
\* turn is tried again on committed history, or given up as a failed value.
RetryTurn(c) ==
  /\ c \in Structured
  /\ pc[c] = "generating"
  /\ ~Cancelled(c)
  /\ \E n \in ReplySizes : n <= Remaining(c)
  /\ Discard(owned[c])
  /\ IF attempt[c] < Retries
     THEN /\ attempt' = [attempt EXCEPT ![c] = @ + 1]
          /\ pc' = [pc EXCEPT ![c] = "retrying"]
          /\ owned' = [owned EXCEPT ![c] = None]
          /\ UNCHANGED result
     ELSE /\ Finish(c, "invalid")
          /\ UNCHANGED attempt
  /\ UNCHANGED <<stateVars, chain, gen, aborted, reply, outcome, retained>>

AcceptReply(c, n) ==
  /\ pc[c] = "generating"
  /\ ~Cancelled(c)
  /\ n > 0 /\ n <= Remaining(c)
  /\ reply' = [reply EXCEPT ![c] = n]
  /\ pc' = [pc EXCEPT ![c] = "confirming"]
  /\ UNCHANGED <<stateVars, sessionVars, chain, gen, aborted, attempt, owned, result, outcome>>

\* The turn enters the transcript; a replayed turn gives up its session.
CommitTurn(c) ==
  /\ pc[c] = "confirming"
  /\ ~Cancelled(c)
  /\ messages' = Append(messages, [call |-> c, size |-> ContentSize[c] + reply[c]])
  /\ characters' = characters + ContentSize[c] + reply[c]
  /\ turns' = turns + 1
  /\ IF Mode = "replay" THEN Discard(owned[c]) ELSE UNCHANGED <<session, sessionStatus>>
  /\ Finish(c, "value")
  /\ UNCHANGED <<closed, generation, pendingTurns, chain, gen, aborted, attempt,
                 reply, outcome, retained>>

HoldsReservation(c) == c \in TurnCalls /\ gen[c] = generation

\* Mutant: a job that is rejected rejects the tail.
TailAfterValue(c) == IF result[c] = "error" THEN chain ELSE [chain EXCEPT ![gen[c]] = Tail(@)]

TailAfter(c) == [chain EXCEPT ![gen[c]] = Tail(@)]

\* enqueueConversation's finally block; the next job on the tail may run.
Settle(c) ==
  /\ pc[c] = "done"
  /\ pc' = [pc EXCEPT ![c] = "settled"]
  /\ pendingTurns' = IF HoldsReservation(c) THEN pendingTurns - 1 ELSE pendingTurns
  /\ chain' = TailAfter(c)
  /\ UNCHANGED <<closed, generation, turns, characters, messages, sessionVars,
                 gen, aborted, attempt, owned, reply, result, outcome>>

----------------------------------------------------------------------------
Caller(c) ==
  \/ Refuse(c)
  \/ EnqueueConversation(c)
  \/ Abort(c)
  \/ CallerAborted(c)
  \/ CallerReceives(c)

Job(c) ==
  \/ RejectTurn(c)
  \/ ReuseSession(c)
  \/ RequestSession(c)
  \/ AcquireSession(c)
  \/ AbandonSession(c)
  \/ StartStatus(c)
  \/ FinishStatus(c)
  \/ CancelJob(c)
  \/ ContextFails(c)
  \/ ContextPasses(c)
  \/ Generate(c)
  \/ GenerationFails(c)
  \/ RetryTurn(c)
  \/ \E n \in ReplySizes : AcceptReply(c, n)
  \/ CommitTurn(c)
  \/ Settle(c)

Provider(s) == CallFactory(s) \/ SessionArrives(s) \/ SessionFails(s)

Next ==
  \/ \E c \in Calls : Caller(c) \/ Job(c)
  \/ \E s \in Sessions : Provider(s)
  \/ \E transcript \in {Seed} \cup Restores : ResetConversationState(transcript)
  \/ DestroyConversationState

Spec == Init /\ [][Next]_vars

\* Continuations that are due run: the event loop takes them without help
\* from the provider or the caller.
DueStep(c) ==
  \/ CallerAborted(c)
  \/ CallerReceives(c)
  \/ RejectTurn(c)
  \/ ReuseSession(c)
  \/ RequestSession(c)
  \/ AcquireSession(c)
  \/ AbandonSession(c)
  \/ StartStatus(c)
  \/ CancelJob(c)
  \/ Mode = "replay" /\ (ContextPasses(c) \/ CommitTurn(c))
  \/ Generate(c)
  \/ Settle(c)

EventLoop == \A c \in Calls : WF_vars(DueStep(c))

EventLoopSpec == Spec /\ EventLoop

\* A provider that answers every request, one way or another.
ResponsiveProvider ==
  /\ \A s \in Sessions : WF_vars(Provider(s))
  /\ \A c \in Calls : WF_vars(Job(c))

----------------------------------------------------------------------------
(* Properties                                                              *)

SessionStatuses == {"none", "requested", "creating", "live", "failed", "disposed"}

StateTypeOK ==
  /\ closed \in BOOLEAN
  /\ generation \in Generations
  /\ closed \/ generation <= MaxResets
  /\ turns \in 0 .. MaxTurns
  /\ pendingTurns \in Nat
  /\ characters \in 0 .. MaxCharacters
  /\ messages \in Seq(Turns)

CallTypeOK ==
  /\ chain \in [Generations -> Seq(Calls)]
  /\ pc \in [Calls -> {"idle", "refused", "queued", "retrying", "creating", "checking",
                       "checked", "generating", "confirming", "done", "settled"}]
  /\ gen \in [Calls -> Generations]
  /\ aborted \in [Calls -> BOOLEAN]
  /\ attempt \in [Calls -> 0 .. Retries]
  /\ owned \in [Calls -> Sessions \cup {None}]
  /\ reply \in [Calls -> Nat]
  /\ result \in [Calls -> {"none", "value", "invalid", "error"}]
  /\ outcome \in [Calls -> {"none", "value", "invalid", "error", "aborted"}]

SessionTypeOK ==
  /\ session \in Sessions \cup {None}
  /\ sessionStatus \in [Sessions -> SessionStatuses]
  /\ retained \in [Sessions -> Seq(Calls \cup {None})]

\* The state of the conversation is well formed: in particular neither limit
\* is ever exceeded by the counters, and the reservations never go below 0.
TypeOK == StateTypeOK /\ CallTypeOK /\ SessionTypeOK

\* Turn calls of the running generation whose job has not ended, and those
\* of them that still may add a turn.
Unsettled == {c \in TurnCalls : Accepted(c) /\ pc[c] # "settled" /\ gen[c] = generation}
Uncommitted == {c \in Unsettled : pc[c] # "done"}

\* A turn that was let into the queue has its place in the transcript: the
\* maxTurns check that runConversationTurn repeats never fails for a call of
\* the running generation, whatever was committed, aborted or retried since.
\* (session.mts:142 behind state.mts:124.)
ReservationHolds ==
  \A c \in TurnCalls : (pc[c] \in {"queued", "retrying"} /\ gen[c] = generation) => turns < MaxTurns

\* The reservation counter is exact: it is what is queued or running in this
\* generation, also after a reset while jobs of the old one still unwind.
PendingIsExact == pendingTurns = Cardinality(Unsettled)

\* The committed turns and every turn still to come fit the limit together.
TurnsFit == turns + Cardinality(Uncommitted) <= MaxTurns

\* What is reserved is what is still to come, and all of it fits: the counter
\* that admits turns (state.mts:122-146) may drift neither way.
ReservationsBalance == PendingIsExact /\ TurnsFit

\* The transcript itself never exceeds the limits, although the length of a
\* reply is compared with what was left before the waits of its turn.
TranscriptWithinLimits ==
  /\ Len(messages) <= MaxTurns
  /\ ConversationCharacters(messages) <= MaxCharacters

\* No two jobs of one generation are between their start and their end, and
\* the running one is the first of the chain.
OneJobPerGeneration ==
  \A c, d \in Calls :
    (InJob(c) /\ InJob(d) /\ gen[c] = gen[d]) => c = d

\* A continuation of the job is due: one of its steps in DueStep is enabled.
JobIsDue(c) ==
  \/ pc[c] \in {"queued", "retrying", "checked", "done"}
  \/ pc[c] = "creating" /\ (Cancelled(c) \/ sessionStatus[OwnSession(c)] \in {"live", "failed"})
  \/ pc[c] \in {"checking", "generating", "confirming"} /\ Cancelled(c)
  \/ pc[c] \in {"checking", "confirming"} /\ Mode = "replay" /\ c \in TurnCalls

\* The job waits for a provider that has been asked: for its session, or for
\* an answer of a session that is alive.
AwaitsProvider(c) ==
  /\ ~Cancelled(c)
  /\ \/ pc[c] = "creating" /\ sessionStatus[OwnSession(c)] \in {"requested", "creating"}
     \/ /\ pc[c] \in {"checking", "generating", "confirming"}
        /\ owned[c] # None /\ sessionStatus[owned[c]] = "live"

\* No job is stuck: a call that was let in stands in its chain until it has
\* settled, and the first job of a chain, also of one that reset left behind,
\* can go on, unless it waits for the provider with its signals not aborted.
NoJobIsStuck ==
  /\ \A c \in Calls : Accepted(c) /\ pc[c] # "settled" =>
       \E i \in DOMAIN chain[gen[c]] : chain[gen[c]][i] = c
  /\ \A g \in Generations : chain[g] # <<>> =>
       LET c == Head(chain[g]) IN gen[c] = g /\ (JobIsDue(c) \/ AwaitsProvider(c))

\* The jobs of a chain take turns, and none keeps the others waiting for nothing.
JobsTakeTurns == OneJobPerGeneration /\ NoJobIsStuck

\* The session kept for reuse is alive, and belongs to the running generation:
\* nothing that unwinds from an older one leaves a destroyed session behind.
KeptSessionIsUsable ==
  session # None =>
    /\ sessionStatus[session] = "live"
    /\ gen[session[1]] = generation

\* No provider session leaks: one that is alive is either the conversation's
\* own, or on its way to the job that asked for it and still waits.
NoSessionLeaks ==
  \A s \in Sessions : sessionStatus[s] = "live" => session = s \/ ~Abandoned(s)

\* Between turns, the native session remembers exactly the committed turns:
\* no failed, cancelled or half-generated turn, and none missing.
NativeHistoryIsCommitted ==
  (/\ Mode = "native" /\ session # None
   /\ \A c \in Calls : gen[c] = generation => pc[c] \notin {"generating", "confirming"})
    => retained[session] = CallsOf(messages)

\* A native turn prompts the session that the conversation keeps, and that is
\* alive.  A job whose generation ended between its last look (session.mts:100)
\* and its prompt (session.mts:159) prompts only the destroyed session of that
\* generation: never one that the new generation keeps, nor a live stray.
PromptsStayInGeneration ==
  [][\A c \in Calls :
       (Mode = "native" /\ pc[c] = "checked" /\ pc'[c] = "generating")
         => IF gen[c] = generation
            THEN owned[c] = session /\ sessionStatus[session] = "live"
            ELSE sessionStatus[owned[c]] = "disposed"]_vars

\* A caller that was given a value finds its turn in the transcript, until a
\* reset or destroy; a caller that was given a failed value does not.
ValueMeansCommitted ==
  \A c \in TurnCalls : gen[c] = generation =>
    LET committed == \E i \in 1 .. Len(messages) : messages[i].call = c
    IN /\ outcome[c] = "value" => committed
       /\ outcome[c] \in {"invalid", "error"} => ~committed

\* practices.md:46 says that cancelled turns do not enter committed history.
\* A signal that aborts after the commit, but before the caller's own wait
\* has run, still rejects the call (state.mts:187), and the turn stays.
CancelledTurnsNotCommitted ==
  \A i \in 1 .. Len(messages) :
    messages[i].call # None => outcome[messages[i].call] # "aborted"

\* Whatever the provider does, a call that is cancelled is reported to its
\* caller, also while its job waits behind one that never ends.
CancelledCallReturns ==
  \A c \in Calls : (Accepted(c) /\ Cancelled(c)) ~> (outcome[c] # "none")

\* A cancelled job gives the queue free although the provider never answers.
CancelledJobEnds ==
  \A c \in Calls : (InJob(c) /\ Cancelled(c)) ~> (pc[c] = "settled")

\* With a provider that answers, every accepted call ends and is reported.
EveryCallReturns ==
  ResponsiveProvider =>
    \A c \in Calls : Accepted(c) ~> (pc[c] = "settled" /\ outcome[c] # "none")

\* Once the conversation is destroyed, a responsive provider's sessions all
\* end: none is alive for ever.
DestroyedFreesSessions ==
  ResponsiveProvider => (closed ~> [](\A s \in Sessions : sessionStatus[s] # "live"))

\* No wait is for ever: cancelled calls return and their jobs end whatever the
\* provider does, and with one that answers every call returns and a destroyed
\* conversation frees its sessions.
WaitsEnd ==
  CancelledCallReturns /\ CancelledJobEnds /\ EveryCallReturns /\ DestroyedFreesSessions

----------------------------------------------------------------------------
\* The calls of a queue that are in a set, in their order.
Chosen(queue, calls) ==
  FoldLeft(LAMBDA line, c : IF c \in calls THEN Append(line, c) ELSE line, <<>>, queue)

\* The turn calls of the running generation whose job has not ended.
Unfinished == {c \in TurnCalls : pc[c] # "done"}
Line == Chosen(chain[generation], Unfinished)

\* The conversation implements Transcript.
Promise == INSTANCE Transcript WITH
  Callers <- TurnCalls,
  Sizes <- 1 .. MaxCharacters,
  Starts <- {Seed} \cup Restores,
  Characters <- ConversationCharacters,
  history <- messages,
  waiting <- Line,
  ended <- closed

\* Whatever aborts, resets and provider answers do, turns are committed in
\* the order of the calls, each at most once and within the limits, and a
\* call that ends otherwise leaves nothing in the transcript.
ImplementsTranscript == Promise!Spec
=============================================================================
