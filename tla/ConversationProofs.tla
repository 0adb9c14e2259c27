------------------------- MODULE ConversationProofs -------------------------
(***************************************************************************)
(* What holds of a conversation for every set of calls, every limit and    *)
(* every number of resets.                                                 *)
(*                                                                         *)
(* QueueInv says which job of a queue runs, and what is reserved for those *)
(* that do not; SessionInv who keeps, holds or awaits a provider session;  *)
(* CommitInv which calls have their turn in the transcript; HistoryInv     *)
(* what the kept session remembers at each point of a turn; CountersFit    *)
(* that the counters are those of the transcript; LineInv that a queue     *)
(* holds its calls once, and WaitInv that nobody is lost from it, and that *)
(* what a job waits for is there.  The refinement of Transcript needs      *)
(* QueueInv, CountersFit and LineInv.                                      *)
(***************************************************************************)
EXTENDS Conversation, FoldLemmas, SequenceTheorems, FiniteSetTheorems, TLAPS

\* A job that has started and not settled is the first of its chain.
JobIsHead ==
  \A c \in Calls : (InJob(c) \/ pc[c] = "done") =>
    chain[gen[c]] # <<>> /\ Head(chain[gen[c]]) = c

\* A call belongs to this generation or to one that is over.
GenerationReached == \A c \in Calls : gen[c] <= generation

\* Only turn calls reach the provider.
OnlyTurnsGenerate ==
  \A c \in Calls :
    pc[c] \in {"retrying", "creating", "checked", "generating", "confirming"} => c \in TurnCalls

\* The reply a job is about to commit still fits.
ReplyFits ==
  \A c \in Calls : (pc[c] = "confirming" /\ gen[c] = generation) =>
    characters + ContentSize[c] + reply[c] <= MaxCharacters

QueueInv ==
  /\ TypeOK
  /\ JobIsHead
  /\ GenerationReached
  /\ OnlyTurnsGenerate
  /\ ReplyFits
  /\ PendingIsExact
  /\ TurnsFit

----------------------------------------------------------------------------
LEMMA UnsettledFinite == IsFiniteSet(Unsettled) /\ IsFiniteSet(Uncommitted)
<1>1. IsFiniteSet(Calls)
  BY ConversationAssumption
<1>2. Unsettled \subseteq Calls /\ Uncommitted \subseteq Calls
  BY DEF Unsettled, Uncommitted, Calls
<1>3. QED
  BY <1>1, <1>2, FS_Subset

LEMMA CallsOfType ==
  ASSUME NEW t \in Seq(Turns)
  PROVE  CallsOf(t) \in Seq(Calls \cup {None})
<1>1. ASSUME NEW i \in 1 .. Len(t)
      PROVE  t[i].call \in Calls \cup {None}
  <2>1. t[i] \in Turns
    OBVIOUS
  <2>2. QED
    BY <2>1 DEF Turns
<1>2. QED
  BY <1>1 DEF CallsOf

LEMMA DiscardType ==
  ASSUME SessionTypeOK, NEW s \in Sessions \cup {None}, Discard(s)
  PROVE  /\ sessionStatus' \in [Sessions -> SessionStatuses]
         /\ session' \in Sessions \cup {None}
BY DEF Discard, SessionTypeOK, SessionStatuses

LEMMA FinishType ==
  ASSUME CallTypeOK, NEW c \in Calls,
         NEW what \in {"none", "value", "invalid", "error"}, Finish(c, what)
  PROVE  /\ pc' \in [Calls -> {"idle", "refused", "queued", "retrying", "creating", "checking",
                               "checked", "generating", "confirming", "done", "settled"}]
         /\ owned' \in [Calls -> Sessions \cup {None}]
         /\ result' \in [Calls -> {"none", "value", "invalid", "error"}]
BY DEF Finish, CallTypeOK

LEMMA JobFailsType ==
  ASSUME TypeOK, NEW c \in Calls, JobFails(c)
  PROVE  TypeOK'
<1>1. owned[c] \in Sessions \cup {None}
  BY DEF TypeOK, CallTypeOK
<1>2. StateTypeOK'
  BY DEF TypeOK, StateTypeOK, JobFails, stateVars
<1>3. CallTypeOK'
  BY FinishType DEF TypeOK, CallTypeOK, JobFails
<1>4. SessionTypeOK'
  BY <1>1, DiscardType DEF TypeOK, SessionTypeOK, JobFails
<1>5. QED
  BY <1>2, <1>3, <1>4 DEF TypeOK

LEMMA CallerType ==
  ASSUME TypeOK, NEW c \in Calls, Caller(c)
  PROVE  TypeOK'
<1>1. CASE Refuse(c)
  BY <1>1 DEF TypeOK, StateTypeOK, CallTypeOK, SessionTypeOK, Refuse, stateVars, sessionVars
<1>2. CASE EnqueueConversation(c)
  <2>1. closed' = closed /\ ~closed
    BY <1>2 DEF EnqueueConversation, Refused
  <2>2. StateTypeOK'
    BY <1>2, <2>1 DEF TypeOK, StateTypeOK, EnqueueConversation
  <2>3. CallTypeOK'
    BY <1>2, <2>1 DEF TypeOK, StateTypeOK, CallTypeOK, EnqueueConversation
  <2>4. SessionTypeOK'
    BY <1>2 DEF TypeOK, SessionTypeOK, EnqueueConversation, sessionVars
  <2>5. QED
    BY <2>2, <2>3, <2>4 DEF TypeOK
<1>3. CASE Abort(c)
  BY <1>3 DEF TypeOK, StateTypeOK, CallTypeOK, SessionTypeOK, Abort, stateVars, sessionVars
<1>4. CASE CallerAborted(c)
  BY <1>4 DEF TypeOK, StateTypeOK, CallTypeOK, SessionTypeOK, CallerAborted, stateVars, sessionVars
<1>5. CASE CallerReceives(c)
  BY <1>5 DEF TypeOK, StateTypeOK, CallTypeOK, SessionTypeOK, CallerReceives, stateVars, sessionVars
<1>6. QED
  BY <1>1, <1>2, <1>3, <1>4, <1>5 DEF Caller

----------------------------------------------------------------------------
(* The two counted sets.                                                   *)

LEMMA Room ==
  ASSUME TypeOK, TurnsFit, PendingIsExact, NEW c \in Uncommitted
  PROVE  turns < MaxTurns /\ pendingTurns > 0
<1>1. c \in Unsettled
  BY DEF Uncommitted
<1>2. Cardinality(Uncommitted) \in Nat /\ Cardinality(Uncommitted) # 0
  BY UnsettledFinite, FS_CardinalityType, FS_EmptySet
<1>3. Cardinality(Unsettled) \in Nat /\ Cardinality(Unsettled) # 0
  BY <1>1, UnsettledFinite, FS_CardinalityType, FS_EmptySet
<1>4. turns \in Nat /\ MaxTurns \in Nat
  BY ConversationAssumption DEF TypeOK, StateTypeOK
<1>5. QED
  BY <1>2, <1>3, <1>4 DEF TurnsFit, PendingIsExact

LEMMA HeldReservation ==
  ASSUME TypeOK, PendingIsExact, NEW c \in Unsettled
  PROVE  pendingTurns > 0
<1>1. Cardinality(Unsettled) \in Nat /\ Cardinality(Unsettled) # 0
  BY UnsettledFinite, FS_CardinalityType, FS_EmptySet
<1>2. QED
  BY <1>1 DEF PendingIsExact

\* A subset of the finite set Uncommitted is no larger.
LEMMA FewerUncommitted ==
  ASSUME TurnsFit, turns \in Nat, NEW S, S \subseteq Uncommitted
  PROVE  turns + Cardinality(S) <= MaxTurns
<1>1. Cardinality(S) <= Cardinality(Uncommitted)
  BY UnsettledFinite, FS_Subset
<1>2. Cardinality(S) \in Nat /\ Cardinality(Uncommitted) \in Nat
  BY UnsettledFinite, FS_Subset, FS_CardinalityType
<1>3. QED
  BY <1>1, <1>2, ConversationAssumption DEF TurnsFit

----------------------------------------------------------------------------
(* The shape of a job's steps.                                             *)

Started == {"retrying", "creating", "checking", "checked", "generating", "confirming"}

\* A step of a job moves that job only, and leaves the queue alone.
LEMMA JobShape ==
  ASSUME TypeOK, NEW c \in Calls, Job(c), ~Settle(c)
  PROVE  /\ pc[c] \in Started \/ (pc[c] = "queued" /\ chain[gen[c]] # <<>> /\ Head(chain[gen[c]]) = c)
         /\ pc'[c] \in Started \cup {"done"}
         /\ \A d \in Calls : d # c => pc'[d] = pc[d]
         /\ UNCHANGED <<closed, generation, pendingTurns, chain, gen, aborted, outcome>>
<1> USE DEF Started, TypeOK, CallTypeOK
<1>1. CASE RejectTurn(c)
  BY <1>1 DEF RejectTurn, Ready, JobFails, Finish, stateVars
<1>2. CASE ReuseSession(c)
  BY <1>2 DEF ReuseSession, Ready, stateVars
<1>3. CASE RequestSession(c)
  BY <1>3 DEF RequestSession, Ready, stateVars
<1>4. CASE AcquireSession(c)
  BY <1>4 DEF AcquireSession, stateVars
<1>5. CASE AbandonSession(c)
  BY <1>5 DEF AbandonSession, Finish, stateVars
<1>6. CASE StartStatus(c)
  BY <1>6 DEF StartStatus, Ready, Finish, stateVars
<1>7. CASE FinishStatus(c)
  BY <1>7 DEF FinishStatus, Finish, stateVars
<1>8. CASE CancelJob(c)
  BY <1>8 DEF CancelJob, JobFails, Finish, stateVars
<1>9. CASE ContextFails(c)
  BY <1>9 DEF ContextFails, JobFails, Finish, stateVars
<1>10. CASE Generate(c)
  BY <1>10 DEF Generate, stateVars
<1>11. CASE GenerationFails(c)
  BY <1>11 DEF GenerationFails, JobFails, Finish, stateVars
<1>12. CASE RetryTurn(c)
  BY <1>12 DEF RetryTurn, Finish, stateVars
<1>13. ASSUME NEW n \in ReplySizes, AcceptReply(c, n)
       PROVE  /\ pc[c] = "generating" /\ pc'[c] = "confirming"
              /\ \A d \in Calls : d # c => pc'[d] = pc[d]
              /\ UNCHANGED <<closed, generation, pendingTurns, chain, gen, aborted, outcome>>
  BY <1>13 DEF AcceptReply, stateVars
<1>14. CASE CommitTurn(c)
  BY <1>14 DEF CommitTurn, Finish
<1>15. CASE ContextPasses(c)
  BY <1>15 DEF ContextPasses, stateVars
<1>16. QED
  BY <1>1, <1>2, <1>3, <1>4, <1>5, <1>6, <1>7, <1>8, <1>9, <1>10, <1>11, <1>12, <1>13, <1>14, <1>15
     DEF Job

----------------------------------------------------------------------------
(* Types are kept.                                                         *)

LEMMA SettleType ==
  ASSUME QueueInv, NEW c \in Calls, Settle(c)
  PROVE  TypeOK'
<1>1. pendingTurns' \in Nat
  <2>1. CASE HoldsReservation(c)
    <3>1. c \in Unsettled
      BY <2>1 DEF HoldsReservation, Unsettled, Accepted, Settle
    <3>2. QED
      BY <2>1, <3>1, HeldReservation DEF QueueInv, TypeOK, StateTypeOK, Settle
  <2>2. CASE ~HoldsReservation(c)
    BY <2>2 DEF QueueInv, TypeOK, StateTypeOK, Settle
  <2>3. QED
    BY <2>1, <2>2
<1>2. StateTypeOK'
  BY <1>1 DEF QueueInv, TypeOK, StateTypeOK, Settle
<1>3. chain[gen[c]] \in Seq(Calls) /\ chain[gen[c]] # <<>>
  BY DEF QueueInv, TypeOK, CallTypeOK, JobIsHead, Settle
<1>4. Tail(chain[gen[c]]) \in Seq(Calls)
  BY <1>3
<1>5. CallTypeOK'
  BY <1>4 DEF QueueInv, TypeOK, CallTypeOK, Settle, TailAfter
<1>6. SessionTypeOK'
  BY DEF QueueInv, TypeOK, SessionTypeOK, Settle, sessionVars
<1>7. QED
  BY <1>2, <1>5, <1>6 DEF TypeOK

LEMMA CommitType ==
  ASSUME QueueInv, NEW c \in Calls, CommitTurn(c)
  PROVE  TypeOK'
<1>1. c \in TurnCalls /\ gen[c] = generation
  BY DEF CommitTurn, Cancelled, QueueInv, OnlyTurnsGenerate
<1>2. c \in Uncommitted
  BY <1>1 DEF Uncommitted, Unsettled, Accepted, CommitTurn
<1>3. turns' \in 0 .. MaxTurns
  BY <1>2, Room, ConversationAssumption DEF QueueInv, TypeOK, StateTypeOK, CommitTurn
<1>4. ContentSize[c] \in Nat /\ reply[c] \in Nat
  BY <1>1, ConversationAssumption DEF QueueInv, TypeOK, CallTypeOK
<1>5. characters' \in 0 .. MaxCharacters
  BY <1>1, <1>4, ConversationAssumption
     DEF QueueInv, TypeOK, StateTypeOK, CommitTurn, ReplyFits
<1>6. [call |-> c, size |-> ContentSize[c] + reply[c]] \in Turns
  BY <1>4 DEF Turns
<1>7. messages' \in Seq(Turns)
  BY <1>6 DEF QueueInv, TypeOK, StateTypeOK, CommitTurn
<1>8. StateTypeOK'
  BY <1>3, <1>5, <1>7 DEF QueueInv, TypeOK, StateTypeOK, CommitTurn
<1>9. CallTypeOK'
  BY FinishType DEF QueueInv, TypeOK, CallTypeOK, CommitTurn
<1>10. owned[c] \in Sessions \cup {None}
  BY DEF QueueInv, TypeOK, CallTypeOK
<1>11. SessionTypeOK'
  BY <1>10, DiscardType DEF QueueInv, TypeOK, SessionTypeOK, CommitTurn
<1>12. QED
  BY <1>8, <1>9, <1>11 DEF TypeOK

LEMMA JobType ==
  ASSUME QueueInv, NEW c \in Calls, Job(c)
  PROVE  TypeOK'
<1> USE DEF QueueInv
<1>0. OwnSession(c) \in Sessions /\ owned[c] \in Sessions \cup {None}
  BY DEF TypeOK, CallTypeOK, OwnSession, Sessions
<1>1. CASE RejectTurn(c)
  BY <1>1, JobFailsType DEF RejectTurn
<1>2. CASE ReuseSession(c)
  BY <1>2 DEF TypeOK, StateTypeOK, CallTypeOK, SessionTypeOK, ReuseSession, stateVars, sessionVars
<1>3. CASE RequestSession(c)
  <2>1. CallsOf(messages) \in Seq(Calls \cup {None})
    BY CallsOfType DEF TypeOK, StateTypeOK
  <2>2. SessionTypeOK'
    <3>1. sessionStatus' \in [Sessions -> SessionStatuses]
      BY <1>3, <1>0 DEF TypeOK, SessionTypeOK, RequestSession, SessionStatuses
    <3>2. <<>> \in Seq(Calls \cup {None})
      OBVIOUS
    <3>3. (IF Mode = "native" THEN CallsOf(messages) ELSE <<>>) \in Seq(Calls \cup {None})
      BY <2>1, <3>2
    <3>4. retained' \in [Sessions -> Seq(Calls \cup {None})]
      BY <1>3, <1>0, <3>3 DEF TypeOK, SessionTypeOK, RequestSession
    <3>5. QED
      BY <1>3, <3>1, <3>4 DEF TypeOK, SessionTypeOK, RequestSession
  <2>3. StateTypeOK' /\ CallTypeOK'
    BY <1>3 DEF TypeOK, StateTypeOK, CallTypeOK, RequestSession, stateVars
  <2>4. QED
    BY <2>2, <2>3 DEF TypeOK
<1>4. CASE AcquireSession(c)
  BY <1>4, <1>0 DEF TypeOK, StateTypeOK, CallTypeOK, SessionTypeOK, AcquireSession, stateVars
<1>5. CASE AbandonSession(c)
  <2>1. StateTypeOK'
    BY <1>5 DEF TypeOK, StateTypeOK, AbandonSession, stateVars
  <2>2. CallTypeOK'
    BY <1>5, FinishType DEF TypeOK, CallTypeOK, AbandonSession
  <2>3. SessionTypeOK'
    BY <1>5, <1>0, DiscardType DEF TypeOK, SessionTypeOK, AbandonSession
  <2>4. QED
    BY <2>1, <2>2, <2>3 DEF TypeOK
<1>6. CASE StartStatus(c)
  BY <1>6 DEF TypeOK, StateTypeOK, CallTypeOK, SessionTypeOK, StartStatus, Finish, stateVars, sessionVars
<1>7. CASE FinishStatus(c)
  BY <1>7 DEF TypeOK, StateTypeOK, CallTypeOK, SessionTypeOK, FinishStatus, Finish, stateVars, sessionVars
<1>8. CASE CancelJob(c)
  BY <1>8, JobFailsType DEF CancelJob
<1>9. CASE ContextFails(c)
  BY <1>9, JobFailsType DEF ContextFails
<1>10. CASE Generate(c)
  <2>1. \A s \in Sessions : Append(retained[s], c) \in Seq(Calls \cup {None})
    BY DEF TypeOK, SessionTypeOK
  <2>2. retained' \in [Sessions -> Seq(Calls \cup {None})]
    BY <1>10, <2>1 DEF TypeOK, SessionTypeOK, Generate
  <2>3. SessionTypeOK'
    BY <1>10, <2>2 DEF TypeOK, SessionTypeOK, Generate
  <2>4. StateTypeOK' /\ CallTypeOK'
    BY <1>10 DEF TypeOK, StateTypeOK, CallTypeOK, Generate, stateVars
  <2>5. QED
    BY <2>3, <2>4 DEF TypeOK
<1>11. CASE GenerationFails(c)
  BY <1>11, JobFailsType DEF GenerationFails
<1>12. CASE RetryTurn(c)
  <2>1. StateTypeOK'
    BY <1>12 DEF TypeOK, StateTypeOK, RetryTurn, stateVars
  <2>2. CallTypeOK'
    <3>1. attempt[c] \in 0 .. Retries /\ Retries \in Nat
      BY ConversationAssumption DEF TypeOK, CallTypeOK
    <3>2. CASE attempt[c] < Retries
      <4>1. attempt[c] + 1 \in 0 .. Retries
        BY <3>1, <3>2
      <4>2. attempt' = [attempt EXCEPT ![c] = attempt[c] + 1]
        BY <1>12, <3>2 DEF RetryTurn
      <4>3. attempt' \in [Calls -> 0 .. Retries]
        BY <4>1, <4>2 DEF TypeOK, CallTypeOK
      <4>4. QED
        BY <1>12, <3>2, <4>3 DEF TypeOK, CallTypeOK, RetryTurn
    <3>3. CASE ~(attempt[c] < Retries)
      BY <1>12, <3>3, FinishType DEF TypeOK, CallTypeOK, RetryTurn
    <3>4. QED
      BY <3>2, <3>3
  <2>3. SessionTypeOK'
    BY <1>12, <1>0, DiscardType DEF TypeOK, SessionTypeOK, RetryTurn
  <2>4. QED
    BY <2>1, <2>2, <2>3 DEF TypeOK
<1>13. ASSUME NEW n \in ReplySizes, AcceptReply(c, n)
       PROVE  TypeOK'
  <2>1. n \in Nat
    BY ConversationAssumption
  <2>2. QED
    BY <1>13, <2>1 DEF TypeOK, StateTypeOK, CallTypeOK, SessionTypeOK, AcceptReply, stateVars, sessionVars
<1>14. CASE CommitTurn(c)
  BY <1>14, CommitType
<1>15. CASE Settle(c)
  BY <1>15, SettleType
<1>16. CASE ContextPasses(c)
  BY <1>16 DEF TypeOK, StateTypeOK, CallTypeOK, SessionTypeOK, ContextPasses, stateVars, sessionVars
<1>17. QED
  BY <1>1, <1>2, <1>3, <1>4, <1>5, <1>6, <1>7, <1>8, <1>9, <1>10, <1>11, <1>12, <1>13, <1>14, <1>15,
     <1>16 DEF Job

LEMMA OtherType ==
  ASSUME TypeOK
  PROVE  /\ \A s \in Sessions : Provider(s) => TypeOK'
         /\ \A t \in {Seed} \cup Restores : ResetConversationState(t) => TypeOK'
         /\ DestroyConversationState => TypeOK'
         /\ UNCHANGED vars => TypeOK'
<1>1. ASSUME NEW s \in Sessions, Provider(s)
      PROVE  TypeOK'
  BY <1>1 DEF TypeOK, StateTypeOK, CallTypeOK, SessionTypeOK, SessionStatuses, Provider,
     CallFactory, SessionArrives, SessionFails, stateVars, callVars
<1>2. ASSUME NEW t \in {Seed} \cup Restores, ResetConversationState(t)
      PROVE  TypeOK'
  <2>1. t \in Seq(Turns) /\ Len(t) \in 0 .. MaxTurns
    BY <1>2, ConversationAssumption DEF ResetConversationState, ValidTranscript
  <2>2. StateTypeOK'
    BY <1>2, <2>1, ConversationAssumption
       DEF TypeOK, StateTypeOK, ResetConversationState, ValidTranscript, Generations
  <2>3. CallTypeOK'
    BY <1>2 DEF TypeOK, CallTypeOK, ResetConversationState, callVars
  <2>4. SessionTypeOK'
    BY <1>2, DiscardType DEF TypeOK, SessionTypeOK, ResetConversationState
  <2>5. QED
    BY <2>2, <2>3, <2>4 DEF TypeOK
<1>3. ASSUME DestroyConversationState
      PROVE  TypeOK'
  <2>1. StateTypeOK'
    BY <1>3, ConversationAssumption
       DEF TypeOK, StateTypeOK, DestroyConversationState, Generations
  <2>2. CallTypeOK'
    BY <1>3 DEF TypeOK, CallTypeOK, DestroyConversationState, callVars
  <2>3. SessionTypeOK'
    BY <1>3, DiscardType DEF TypeOK, SessionTypeOK, DestroyConversationState
  <2>4. QED
    BY <2>1, <2>2, <2>3 DEF TypeOK
<1>4. ASSUME UNCHANGED vars
      PROVE  TypeOK'
  BY <1>4 DEF TypeOK, StateTypeOK, CallTypeOK, SessionTypeOK, vars, stateVars, callVars, sessionVars
<1>5. QED
  BY <1>1, <1>2, <1>3, <1>4

----------------------------------------------------------------------------
(* The queue invariant is inductive.                                       *)

LEMMA QueueInit == Init => QueueInv
<1> SUFFICES ASSUME Init
             PROVE  QueueInv
  OBVIOUS
<1> USE ConversationAssumption DEF Init
<1>1. TypeOK
  <2>1. Seed \in Seq(Turns) /\ Len(Seed) \in 0 .. MaxTurns
    BY DEF ValidTranscript
  <2>2. StateTypeOK
    <3>1. generation \in Generations /\ generation <= MaxResets
      BY DEF Generations
    <3>2. turns \in 0 .. MaxTurns /\ characters \in 0 .. MaxCharacters /\ messages \in Seq(Turns)
      BY <2>1 DEF ValidTranscript
    <3>3. QED
      BY <3>1, <3>2 DEF StateTypeOK
  <2>3. CallTypeOK
    BY DEF CallTypeOK, Generations
  <2>4. SessionTypeOK
    BY DEF SessionTypeOK, SessionStatuses
  <2>5. QED
    BY <2>2, <2>3, <2>4 DEF TypeOK
<1>2. JobIsHead /\ GenerationReached /\ OnlyTurnsGenerate /\ ReplyFits
  BY DEF JobIsHead, GenerationReached, OnlyTurnsGenerate, ReplyFits, InJob
<1>3. Unsettled = {} /\ Uncommitted = {}
  BY DEF Unsettled, Uncommitted, Accepted, Calls
<1>4. PendingIsExact /\ TurnsFit
  BY <1>3, FS_EmptySet DEF PendingIsExact, TurnsFit, ValidTranscript
<1>5. QED
  BY <1>1, <1>2, <1>4 DEF QueueInv

LEMMA QueueEnqueue ==
  ASSUME QueueInv, NEW c \in Calls, EnqueueConversation(c)
  PROVE  QueueInv'
<1> USE DEF QueueInv
<1>1. TypeOK'
  BY CallerType DEF Caller
<1>2. pc[c] = "idle" /\ pc' = [pc EXCEPT ![c] = "queued"] /\ gen' = [gen EXCEPT ![c] = generation]
  BY DEF EnqueueConversation
<1>3. JobIsHead'
  <2> SUFFICES ASSUME NEW d \in Calls, InJob(d)' \/ pc'[d] = "done"
               PROVE  chain'[gen'[d]] # <<>> /\ Head(chain'[gen'[d]]) = d
    BY DEF JobIsHead
  <2>1. d # c /\ gen'[d] = gen[d] /\ (InJob(d) \/ pc[d] = "done")
    BY <1>2 DEF InJob, TypeOK, CallTypeOK
  <2>2. chain[gen[d]] \in Seq(Calls) /\ chain[gen[d]] # <<>> /\ Head(chain[gen[d]]) = d
    BY <2>1 DEF JobIsHead, TypeOK, CallTypeOK
  <2>3. chain'[gen[d]] = chain[gen[d]] \/ chain'[gen[d]] = Append(chain[gen[d]], c)
    BY DEF EnqueueConversation, TypeOK, CallTypeOK
  <2>4. QED
    BY <2>1, <2>2, <2>3
<1>4. GenerationReached'
  BY <1>2 DEF GenerationReached, EnqueueConversation, TypeOK, StateTypeOK, CallTypeOK, Generations
<1>5. OnlyTurnsGenerate'
  BY <1>2 DEF OnlyTurnsGenerate, TypeOK, CallTypeOK
<1>6. ReplyFits'
  BY <1>2 DEF ReplyFits, EnqueueConversation, TypeOK, CallTypeOK
<1>7. CASE c \in Statuses
  <2>1. c \notin TurnCalls
    BY <1>7, ConversationAssumption
  <2>2. Unsettled' = Unsettled /\ Uncommitted' = Uncommitted
    BY <1>2, <2>1, ConversationAssumption
       DEF Unsettled, Uncommitted, Accepted, EnqueueConversation, TypeOK, CallTypeOK, Calls
  <2>3. PendingIsExact' /\ TurnsFit'
    BY <2>1, <2>2 DEF PendingIsExact, TurnsFit, EnqueueConversation
  <2>4. QED
    BY <1>1, <1>3, <1>4, <1>5, <1>6, <2>3
<1>8. CASE c \in TurnCalls
  <2>1. c \notin Unsettled /\ c \notin Uncommitted
    BY <1>2 DEF Unsettled, Uncommitted, Accepted
  <2>2. Unsettled' = Unsettled \cup {c} /\ Uncommitted' = Uncommitted \cup {c}
    BY <1>2, <1>8 DEF Unsettled, Uncommitted, Accepted, EnqueueConversation, TypeOK, CallTypeOK, Calls
  <2>3. /\ Cardinality(Unsettled') = Cardinality(Unsettled) + 1
        /\ Cardinality(Uncommitted') = Cardinality(Uncommitted) + 1
    BY <2>1, <2>2, UnsettledFinite, FS_AddElement
  <2>4. Cardinality(Uncommitted) <= Cardinality(Unsettled)
    <3>1. Uncommitted \in SUBSET Unsettled
      BY DEF Uncommitted
    <3>2. QED
      BY <3>1, UnsettledFinite, FS_Subset
  <2>5. turns + pendingTurns < MaxTurns
    BY <1>8, ConversationAssumption DEF EnqueueConversation, Refused, TypeOK, StateTypeOK
  <2>6. Cardinality(Uncommitted) \in Nat /\ Cardinality(Unsettled) \in Nat
    BY UnsettledFinite, FS_CardinalityType
  <2>7. PendingIsExact'
    BY <1>8, <2>3 DEF PendingIsExact, EnqueueConversation
  <2>8. TurnsFit'
    BY <2>3, <2>4, <2>5, <2>6, ConversationAssumption
       DEF PendingIsExact, TurnsFit, EnqueueConversation, TypeOK, StateTypeOK
  <2>9. QED
    BY <1>1, <1>3, <1>4, <1>5, <1>6, <2>7, <2>8
<1>9. QED
  BY <1>7, <1>8 DEF Calls

\* Steps of the caller that leave every job where it is.
LEMMA QueueCaller ==
  ASSUME QueueInv, NEW c \in Calls, Caller(c)
  PROVE  QueueInv'
<1>1. CASE EnqueueConversation(c)
  BY <1>1, QueueEnqueue
<1>2. ASSUME Refuse(c) \/ Abort(c) \/ CallerAborted(c) \/ CallerReceives(c)
      PROVE  QueueInv'
  <2>1. /\ UNCHANGED <<generation, turns, pendingTurns, characters, chain, gen, reply>>
        /\ pc' = pc \/ (pc[c] = "idle" /\ pc' = [pc EXCEPT ![c] = "refused"])
    BY <1>2 DEF Refuse, Abort, CallerAborted, CallerReceives, stateVars
  <2>2. Unsettled' = Unsettled /\ Uncommitted' = Uncommitted
    BY <2>1 DEF Unsettled, Uncommitted, Accepted, QueueInv, TypeOK, CallTypeOK, Calls
  <2>3. JobIsHead' /\ GenerationReached' /\ OnlyTurnsGenerate' /\ ReplyFits'
    BY <2>1 DEF JobIsHead, GenerationReached, OnlyTurnsGenerate, ReplyFits, InJob,
       QueueInv, TypeOK, CallTypeOK
  <2>4. TypeOK'
    BY CallerType DEF QueueInv
  <2>5. PendingIsExact' /\ TurnsFit'
    BY <2>1, <2>2 DEF PendingIsExact, TurnsFit, QueueInv
  <2>6. QED
    BY <2>3, <2>4, <2>5 DEF QueueInv
<1>3. QED
  BY <1>1, <1>2 DEF Caller

\* Two jobs of one generation never run at the same time.
LEMMA OneRuns ==
  ASSUME JobIsHead, NEW c \in Calls, NEW d \in Calls,
         InJob(c), InJob(d), gen[c] = gen[d]
  PROVE  c = d
BY DEF JobIsHead

\* What a job's step does to the counters.
LEMMA JobData ==
  ASSUME TypeOK, OnlyTurnsGenerate, NEW c \in Calls, Job(c), ~Settle(c)
  PROVE  /\ pc'[c] \in {"retrying", "creating", "checked", "generating", "confirming"} => c \in TurnCalls
         /\ CommitTurn(c) \/ UNCHANGED <<turns, characters>>
         /\ UNCHANGED reply \/ \E n \in ReplySizes : AcceptReply(c, n)
         /\ pc'[c] = "confirming" => \E n \in ReplySizes : AcceptReply(c, n)
<1> USE DEF TypeOK, CallTypeOK
<1>1. CASE RejectTurn(c)
  BY <1>1 DEF RejectTurn, JobFails, Finish, stateVars
<1>2. CASE ReuseSession(c)
  BY <1>2 DEF ReuseSession, stateVars
<1>3. CASE RequestSession(c)
  BY <1>3 DEF RequestSession, stateVars
<1>4. CASE AcquireSession(c)
  BY <1>4 DEF AcquireSession, stateVars
<1>5. CASE AbandonSession(c)
  BY <1>5 DEF AbandonSession, Finish, stateVars
<1>6. CASE StartStatus(c)
  BY <1>6 DEF StartStatus, Finish, stateVars
<1>7. CASE FinishStatus(c)
  BY <1>7 DEF FinishStatus, Finish, stateVars
<1>8. CASE CancelJob(c)
  BY <1>8 DEF CancelJob, JobFails, Finish, stateVars
<1>9. CASE ContextFails(c)
  BY <1>9 DEF ContextFails, JobFails, Finish, stateVars
<1>10. CASE Generate(c)
  BY <1>10 DEF Generate, stateVars
<1>11. CASE GenerationFails(c)
  BY <1>11 DEF GenerationFails, JobFails, Finish, stateVars
<1>12. CASE RetryTurn(c)
  BY <1>12 DEF RetryTurn, Finish, stateVars, TurnCalls
<1>13. CASE \E n \in ReplySizes : AcceptReply(c, n)
  BY <1>13 DEF AcceptReply, stateVars, OnlyTurnsGenerate
<1>14. CASE CommitTurn(c)
  BY <1>14 DEF CommitTurn, Finish
<1>15. CASE ContextPasses(c)
  BY <1>15 DEF ContextPasses, stateVars
<1>16. QED
  BY <1>1, <1>2, <1>3, <1>4, <1>5, <1>6, <1>7, <1>8, <1>9, <1>10, <1>11, <1>12, <1>13, <1>14, <1>15
     DEF Job

LEMMA QueueJob ==
  ASSUME QueueInv, NEW c \in Calls, Job(c), ~Settle(c)
  PROVE  QueueInv'
<1> USE DEF QueueInv, Started
<1>1. TypeOK'
  BY JobType
<1>2. /\ pc[c] \in Started \/ (pc[c] = "queued" /\ chain[gen[c]] # <<>> /\ Head(chain[gen[c]]) = c)
      /\ pc'[c] \in Started \cup {"done"}
      /\ \A d \in Calls : d # c => pc'[d] = pc[d]
      /\ UNCHANGED <<generation, pendingTurns, chain, gen>>
  BY JobShape
<1>3. JobIsHead'
  BY <1>2 DEF JobIsHead, InJob
<1>4. GenerationReached'
  BY <1>2 DEF GenerationReached
<1>5. OnlyTurnsGenerate'
  BY <1>2, JobData DEF OnlyTurnsGenerate
<1>6. ReplyFits'
  <2> SUFFICES ASSUME NEW d \in Calls, pc'[d] = "confirming", gen'[d] = generation'
               PROVE  characters' + ContentSize[d] + reply'[d] <= MaxCharacters
    BY DEF ReplyFits
  <2>1. CASE d = c
    <3>1. PICK n \in ReplySizes : AcceptReply(c, n)
      BY <2>1, JobData
    <3>2. c \in TurnCalls /\ n \in Nat /\ n <= Remaining(c) /\ reply'[c] = n /\ characters' = characters
      BY <3>1, ConversationAssumption
         DEF AcceptReply, OnlyTurnsGenerate, TypeOK, CallTypeOK, stateVars
    <3>3. ContentSize[c] \in Nat /\ characters \in Nat /\ MaxCharacters \in Nat
      BY <3>2, ConversationAssumption DEF TypeOK, StateTypeOK
    <3>4. QED
      BY <2>1, <3>2, <3>3 DEF Remaining
  <2>2. CASE d # c
    <3>1. pc[d] = "confirming" /\ gen[d] = generation
      BY <1>2, <2>2
    <3>2. reply'[d] = reply[d]
      <4>1. reply' = reply \/ \E n \in ReplySizes : AcceptReply(c, n)
        BY JobData
      <4>2. CASE \E n \in ReplySizes : AcceptReply(c, n)
        BY <2>2, <4>2 DEF AcceptReply, TypeOK, CallTypeOK
      <4>3. QED
        BY <4>1, <4>2
    <3>3. ~CommitTurn(c)
      BY <2>2, <3>1, OneRuns DEF CommitTurn, Cancelled, InJob
    <3>4. characters' = characters
      BY <3>3, JobData
    <3>5. QED
      BY <3>1, <3>2, <3>4 DEF ReplyFits
  <2>3. QED
    BY <2>1, <2>2
<1>7. Unsettled' = Unsettled
  BY <1>2 DEF Unsettled, Accepted, Calls
<1>8. PendingIsExact'
  BY <1>2, <1>7 DEF PendingIsExact
<1>9. TurnsFit'
  <2>1. CASE CommitTurn(c)
    <3>1. c \in TurnCalls /\ gen[c] = generation /\ pc[c] = "confirming" /\ pc'[c] = "done"
      BY <2>1 DEF CommitTurn, Cancelled, Finish, OnlyTurnsGenerate, TypeOK, CallTypeOK
    <3>2. c \in Uncommitted
      BY <3>1 DEF Uncommitted, Unsettled, Accepted
    <3>3. Uncommitted' = Uncommitted \ {c}
      BY <1>2, <1>7, <3>1 DEF Uncommitted, Unsettled, Calls
    <3>4. Cardinality(Uncommitted') = Cardinality(Uncommitted) - 1
      BY <3>2, <3>3, UnsettledFinite, FS_RemoveElement
    <3>5. turns' = turns + 1 /\ turns \in Nat /\ Cardinality(Uncommitted) \in Nat
      BY <2>1, UnsettledFinite, FS_CardinalityType DEF CommitTurn, TypeOK, StateTypeOK
    <3>6. QED
      BY <3>4, <3>5, ConversationAssumption DEF TurnsFit
  <2>2. CASE ~CommitTurn(c)
    <3>1. turns' = turns /\ turns \in Nat
      BY <2>2, JobData DEF TypeOK, StateTypeOK
    <3>2. Uncommitted' \subseteq Uncommitted
      BY <1>2, <1>7 DEF Uncommitted, Unsettled, Calls
    <3>3. QED
      BY <3>1, <3>2, FewerUncommitted DEF TurnsFit
  <2>3. QED
    BY <2>1, <2>2
<1>10. QED
  BY <1>1, <1>3, <1>4, <1>5, <1>6, <1>8, <1>9

LEMMA QueueSettle ==
  ASSUME QueueInv, NEW c \in Calls, Settle(c)
  PROVE  QueueInv'
<1> USE DEF QueueInv
<1>1. TypeOK'
  BY SettleType
<1>2. /\ pc[c] = "done" /\ pc' = [pc EXCEPT ![c] = "settled"]
      /\ chain' = [chain EXCEPT ![gen[c]] = Tail(@)]
      /\ UNCHANGED <<generation, turns, characters, gen, reply>>
  BY DEF Settle, TailAfter
<1>3. JobIsHead'
  <2> SUFFICES ASSUME NEW d \in Calls, InJob(d)' \/ pc'[d] = "done"
               PROVE  chain'[gen'[d]] # <<>> /\ Head(chain'[gen'[d]]) = d
    BY DEF JobIsHead
  <2>1. d # c /\ gen'[d] = gen[d] /\ (InJob(d) \/ pc[d] = "done")
    BY <1>2 DEF InJob, TypeOK, CallTypeOK
  <2>2. gen[d] # gen[c]
    BY <1>2, <2>1 DEF JobIsHead
  <2>3. chain'[gen[d]] = chain[gen[d]]
    BY <1>2, <2>2 DEF TypeOK, CallTypeOK
  <2>4. QED
    BY <2>1, <2>3 DEF JobIsHead
<1>4. GenerationReached' /\ OnlyTurnsGenerate' /\ ReplyFits'
  BY <1>2 DEF GenerationReached, OnlyTurnsGenerate, ReplyFits, TypeOK, CallTypeOK
<1>5. Uncommitted' = Uncommitted
  BY <1>2 DEF Uncommitted, Unsettled, Accepted, TypeOK, CallTypeOK, Calls
<1>6. TurnsFit'
  BY <1>2, <1>5 DEF TurnsFit
<1>7. PendingIsExact'
  <2>1. CASE HoldsReservation(c)
    <3>1. c \in Unsettled
      BY <1>2, <2>1 DEF HoldsReservation, Unsettled, Accepted
    <3>2. Unsettled' = Unsettled \ {c}
      BY <1>2 DEF Unsettled, Accepted, TypeOK, CallTypeOK, Calls
    <3>3. QED
      BY <2>1, <3>1, <3>2, UnsettledFinite, FS_RemoveElement DEF PendingIsExact, Settle
  <2>2. CASE ~HoldsReservation(c)
    <3>1. Unsettled' = Unsettled
      BY <1>2, <2>2 DEF HoldsReservation, Unsettled, Accepted, TypeOK, CallTypeOK, Calls
    <3>2. QED
      BY <2>2, <3>1 DEF PendingIsExact, Settle
  <2>3. QED
    BY <2>1, <2>2
<1>8. QED
  BY <1>1, <1>3, <1>4, <1>6, <1>7

\* A new generation starts with no reservation, and no older job counts.
LEMMA QueueRestart ==
  ASSUME QueueInv, TypeOK', generation' = generation + 1, pendingTurns' = 0,
         UNCHANGED <<chain, pc, gen, reply>>, NEW n \in 0 .. MaxTurns, turns' = n
  PROVE  QueueInv'
<1>1. \A c \in Calls : gen'[c] < generation'
  BY DEF QueueInv, GenerationReached, TypeOK, StateTypeOK, CallTypeOK, Generations
<1>2. JobIsHead' /\ OnlyTurnsGenerate'
  BY DEF QueueInv, JobIsHead, OnlyTurnsGenerate, InJob
<1>3. \A c \in Calls : gen'[c] \in Nat /\ generation' \in Nat
  BY ConversationAssumption DEF TypeOK, StateTypeOK, CallTypeOK, Generations
<1>4. GenerationReached' /\ ReplyFits'
  BY <1>1, <1>3 DEF GenerationReached, ReplyFits
<1>5. Unsettled' = {} /\ Uncommitted' = {}
  BY <1>1, <1>3 DEF Unsettled, Uncommitted, Calls
<1>6. PendingIsExact' /\ TurnsFit'
  BY <1>5, FS_EmptySet, ConversationAssumption DEF PendingIsExact, TurnsFit
<1>7. QED
  BY <1>2, <1>4, <1>6 DEF QueueInv

LEMMA QueueOther ==
  ASSUME QueueInv
  PROVE  /\ \A s \in Sessions : Provider(s) => QueueInv'
         /\ \A t \in {Seed} \cup Restores : ResetConversationState(t) => QueueInv'
         /\ DestroyConversationState => QueueInv'
         /\ UNCHANGED vars => QueueInv'
<1>1. ASSUME UNCHANGED <<generation, turns, pendingTurns, characters, chain, pc, gen, reply>>, TypeOK'
      PROVE  QueueInv'
  <2>1. Unsettled' = Unsettled /\ Uncommitted' = Uncommitted
    BY <1>1 DEF Unsettled, Uncommitted, Accepted
  <2>2. QED
    BY <1>1, <2>1 DEF QueueInv, JobIsHead, GenerationReached, OnlyTurnsGenerate, ReplyFits,
       InJob, PendingIsExact, TurnsFit
<1>2. ASSUME NEW s \in Sessions, Provider(s)
      PROVE  QueueInv'
  BY <1>1, <1>2, OtherType
     DEF QueueInv, Provider, CallFactory, SessionArrives, SessionFails, stateVars, callVars
<1>3. ASSUME NEW t \in {Seed} \cup Restores, ResetConversationState(t)
      PROVE  QueueInv'
  <2>1. Len(t) \in 0 .. MaxTurns
    BY <1>3, ConversationAssumption DEF ResetConversationState, ValidTranscript
  <2>2. QED
    BY <1>3, <2>1, OtherType, QueueRestart DEF QueueInv, ResetConversationState, callVars
<1>4. ASSUME DestroyConversationState
      PROVE  QueueInv'
  <2>1. 0 \in 0 .. MaxTurns
    BY ConversationAssumption
  <2>2. QED
    BY <1>4, <2>1, OtherType, QueueRestart DEF QueueInv, DestroyConversationState, callVars
<1>5. ASSUME UNCHANGED vars
      PROVE  QueueInv'
  BY <1>1, <1>5, OtherType DEF QueueInv, vars, stateVars, callVars
<1>6. QED
  BY <1>2, <1>3, <1>4, <1>5

LEMMA QueueStep == QueueInv /\ [Next]_vars => QueueInv'
<1> SUFFICES ASSUME QueueInv, [Next]_vars
             PROVE  QueueInv'
  OBVIOUS
<1>1. ASSUME NEW c \in Calls, Caller(c) \/ Job(c)
      PROVE  QueueInv'
  BY <1>1, QueueCaller, QueueJob, QueueSettle
<1>2. QED
  BY <1>1, QueueOther DEF Next

\* The inductive invariant holds in every reachable state.
THEOREM QueueInvariant == Spec => []QueueInv
BY QueueInit, QueueStep, PTL DEF Spec

----------------------------------------------------------------------------
(* What follows from it.                                                   *)

\* The state stays well formed; neither counter exceeds its limit.
THEOREM TypeCorrect == Spec => []TypeOK
<1>1. QueueInv => TypeOK
  BY DEF QueueInv
<1>2. QED
  BY <1>1, QueueInvariant, PTL

\* pendingTurns is exactly the number of unsettled turns of this generation.
THEOREM ReservationsExact == Spec => []PendingIsExact
<1>1. QueueInv => PendingIsExact
  BY DEF QueueInv
<1>2. QED
  BY <1>1, QueueInvariant, PTL

\* Committed turns and accepted turns fit maxTurns together.
THEOREM AcceptedTurnsFit == Spec => []TurnsFit
<1>1. QueueInv => TurnsFit
  BY DEF QueueInv
<1>2. QED
  BY <1>1, QueueInvariant, PTL

\* The counter that admits turns is exact, and all that it admitted fits.
THEOREM ReservationsBalanced == Spec => []ReservationsBalance
<1>1. PendingIsExact /\ TurnsFit => ReservationsBalance
  BY DEF ReservationsBalance
<1>2. QED
  BY <1>1, ReservationsExact, AcceptedTurnsFit, PTL

\* The second maxTurns check never fails for a call of this generation.
THEOREM AcceptedTurnHasRoom == Spec => []ReservationHolds
<1>1. QueueInv => ReservationHolds
  <2> SUFFICES ASSUME QueueInv, NEW c \in TurnCalls,
                      pc[c] \in {"queued", "retrying"}, gen[c] = generation
               PROVE  turns < MaxTurns
    BY DEF ReservationHolds
  <2>1. c \in Uncommitted
    BY DEF Uncommitted, Unsettled, Accepted
  <2>2. QED
    BY <2>1, Room DEF QueueInv
<1>2. QED
  BY <1>1, QueueInvariant, PTL

\* The promise tail keeps the jobs of a generation apart.
THEOREM JobsAreSerial == Spec => []OneJobPerGeneration
<1>1. QueueInv => OneJobPerGeneration
  BY OneRuns DEF QueueInv, OneJobPerGeneration
<1>2. QED
  BY <1>1, QueueInvariant, PTL

----------------------------------------------------------------------------
(* Sessions                                                                *)

\* An attempt that has not asked for its session has none.
NotYetRequested ==
  \A s \in Sessions :
    (\/ pc[s[1]] \in {"idle", "refused"}
     \/ s[2] > attempt[s[1]]
     \/ s[2] = attempt[s[1]] /\ pc[s[1]] \in {"queued", "retrying"})
      => sessionStatus[s] = "none"

\* A job that waits for its session does so because none is kept.
NoneKeptWhileCreating ==
  \A c \in Calls : (pc[c] = "creating" /\ gen[c] = generation) => session = None

\* In replay mode a kept session is held by a running turn.
ReplayHolds ==
  (Mode = "replay" /\ session # None) =>
    \E c \in Calls : /\ pc[c] \in {"checking", "checked", "generating", "confirming"}
                     /\ gen[c] = generation
                     /\ owned[c] = session

\* In replay mode contextStatus never waits.
StatusNeverWaits ==
  Mode = "replay" => \A c \in Calls : pc[c] = "checking" => c \in TurnCalls

SessionInv ==
  /\ KeptSessionIsUsable
  /\ NoSessionLeaks
  /\ NotYetRequested
  /\ NoneKeptWhileCreating
  /\ ReplayHolds
  /\ StatusNeverWaits

LEMMA SessionParts ==
  /\ \A s \in Sessions : s[1] \in Calls /\ s[2] \in Nat /\ s = <<s[1], s[2]>>
  /\ \A c \in Calls : attempt[c] \in 0 .. Retries =>
       OwnSession(c) \in Sessions /\ OwnSession(c)[1] = c /\ OwnSession(c)[2] = attempt[c]
BY ConversationAssumption DEF Sessions, OwnSession

\* A step that leaves the sessions alone, and moves job c only.
LEMMA SessionFrame ==
  ASSUME QueueInv, SessionInv, NEW c \in Calls,
         UNCHANGED <<session, sessionStatus, generation, attempt>>,
         \A d \in Calls : d # c => pc'[d] = pc[d] /\ gen'[d] = gen[d] /\ owned'[d] = owned[d],
         gen'[c] = gen[c] \/ (pc[c] = "idle" /\ pc'[c] = "queued"),
         pc[c] # "creating" /\ pc'[c] # "creating",
         \/ pc'[c] = pc[c]
         \/ pc[c] = "idle" /\ pc'[c] \in {"refused", "queued"}
         \/ pc'[c] \notin {"idle", "refused", "queued", "retrying"},
         Mode = "replay" =>
           /\ pc[c] \in {"checking", "checked", "generating", "confirming"} =>
                pc'[c] \in {"checking", "checked", "generating", "confirming"} /\ owned'[c] = owned[c]
           /\ pc'[c] = "checking" => c \in TurnCalls
  PROVE  SessionInv'
<1> USE SessionParts DEF QueueInv, TypeOK, CallTypeOK, SessionTypeOK, SessionInv
<1>1. NotYetRequested'
  BY DEF NotYetRequested
<1>2. KeptSessionIsUsable'
  <2> SUFFICES ASSUME session # None
               PROVE  sessionStatus[session] = "live" /\ gen'[session[1]] = generation
    BY DEF KeptSessionIsUsable
  <2>1. session \in Sessions /\ sessionStatus[session] = "live" /\ gen[session[1]] = generation
    BY DEF KeptSessionIsUsable
  <2>2. ~(session[1] = c /\ pc[c] = "idle")
    BY <2>1 DEF NotYetRequested
  <2>3. QED
    BY <2>1, <2>2
<1>3. NoSessionLeaks'
  <2> SUFFICES ASSUME NEW s \in Sessions, sessionStatus[s] = "live", session # s
               PROVE  pc'[s[1]] = "creating" /\ attempt[s[1]] = s[2]
    BY DEF NoSessionLeaks, Abandoned
  <2>1. pc[s[1]] = "creating" /\ attempt[s[1]] = s[2]
    BY DEF NoSessionLeaks, Abandoned
  <2>2. QED
    BY <2>1
<1>4. NoneKeptWhileCreating'
  <2> SUFFICES ASSUME NEW d \in Calls, pc'[d] = "creating", gen'[d] = generation
               PROVE  session = None
    BY DEF NoneKeptWhileCreating
  <2>1. d # c
    OBVIOUS
  <2>2. pc[d] = "creating" /\ gen[d] = generation
    BY <2>1
  <2>3. QED
    BY <2>2 DEF NoneKeptWhileCreating
<1>5. ReplayHolds'
  <2> SUFFICES ASSUME Mode = "replay", session # None
               PROVE  \E d \in Calls : /\ pc'[d] \in {"checking", "checked", "generating", "confirming"}
                                       /\ gen'[d] = generation
                                       /\ owned'[d] = session
    BY DEF ReplayHolds
  <2>1. PICK d \in Calls : /\ pc[d] \in {"checking", "checked", "generating", "confirming"}
                           /\ gen[d] = generation
                           /\ owned[d] = session
    BY DEF ReplayHolds
  <2>2. CASE d = c
    BY <2>1, <2>2
  <2>3. CASE d # c
    BY <2>1, <2>3
  <2>4. QED
    BY <2>2, <2>3
<1>6. StatusNeverWaits'
  BY DEF StatusNeverWaits
<1>7. QED
  BY <1>1, <1>2, <1>3, <1>4, <1>5, <1>6

\* A job ends, or its attempt does, and discards the session it holds.
LEMMA SessionDiscard ==
  ASSUME QueueInv, SessionInv, NEW c \in Calls, NEW x \in Sessions \cup {None}, Discard(x),
         UNCHANGED <<generation, gen>>,
         \A d \in Calls : d # c => pc'[d] = pc[d] /\ owned'[d] = owned[d] /\ attempt'[d] = attempt[d],
         \/ pc'[c] = "done" /\ attempt'[c] = attempt[c]
         \/ pc'[c] = "retrying" /\ attempt'[c] = attempt[c] + 1,
         pc[c] = "creating" => x = OwnSession(c),
         pc[c] \in {"checking", "checked", "generating", "confirming"} => x = owned[c]
  PROVE  SessionInv'
<1> USE SessionParts DEF QueueInv, TypeOK, CallTypeOK, SessionTypeOK, SessionInv
<1>1. /\ session' # None => session' = session /\ session # x
      /\ \A s \in Sessions : sessionStatus'[s] = sessionStatus[s] \/ (s = x /\ sessionStatus'[s] = "disposed"
                                                                      /\ sessionStatus[s] = "live")
      /\ x # None => sessionStatus'[x] # "live"
  BY DEF Discard, KeptSessionIsUsable
<1>2. NotYetRequested'
  <2> SUFFICES ASSUME NEW s \in Sessions,
                      \/ pc'[s[1]] \in {"idle", "refused"}
                      \/ s[2] > attempt'[s[1]]
                      \/ s[2] = attempt'[s[1]] /\ pc'[s[1]] \in {"queued", "retrying"}
               PROVE  sessionStatus'[s] = "none"
    BY DEF NotYetRequested
  <2>1. attempt[c] \in Int /\ s[2] \in Int /\ s[1] \in Calls
    OBVIOUS
  <2> HIDE SessionParts DEF QueueInv, TypeOK, CallTypeOK, SessionTypeOK, SessionInv
  <2>2. sessionStatus[s] = "none"
    <3>1. \/ pc[s[1]] \in {"idle", "refused"}
          \/ s[2] > attempt[s[1]]
          \/ s[2] = attempt[s[1]] /\ pc[s[1]] \in {"queued", "retrying"}
      <4>1. CASE s[1] = c
        BY <2>1, <4>1
      <4>2. CASE s[1] # c
        BY <2>1, <4>2
      <4>3. QED
        BY <4>1, <4>2
    <3>2. QED
      BY <3>1 DEF SessionInv, NotYetRequested
  <2>3. QED
    BY <1>1, <2>2
<1>3. KeptSessionIsUsable'
  BY <1>1 DEF KeptSessionIsUsable
<1>4. NoSessionLeaks'
  <2> SUFFICES ASSUME NEW s \in Sessions, sessionStatus'[s] = "live"
               PROVE  session' = s \/ ~Abandoned(s)'
    BY DEF NoSessionLeaks
  <2>0. x = s => sessionStatus'[s] # "live"
    <3>1. s # None
      BY ConversationAssumption
    <3>2. QED
      BY <3>1, <1>1
  <2>1. s # x /\ sessionStatus[s] = "live"
    BY <1>1, <2>0
  <2>2. CASE session = s
    BY <2>1, <2>2, ConversationAssumption DEF Discard
  <2>3. CASE ~Abandoned(s)
    <3>0. pc[s[1]] = "creating" /\ attempt[s[1]] = s[2]
      BY <2>3 DEF Abandoned
    <3>1. s[1] # c
      <4> SUFFICES ASSUME s[1] = c
                   PROVE  FALSE
        OBVIOUS
      <4>1. x = <<c, attempt[c]>>
        BY <3>0 DEF OwnSession
      <4>2. s = <<c, attempt[c]>>
        BY <3>0
      <4>3. QED
        BY <2>1, <4>1, <4>2
    <3>2. QED
      BY <2>3, <3>1 DEF Abandoned
  <2>4. QED
    BY <2>1, <2>2, <2>3 DEF NoSessionLeaks
<1>5. NoneKeptWhileCreating'
  <2> SUFFICES ASSUME NEW d \in Calls, pc'[d] = "creating", gen'[d] = generation
               PROVE  session' = None
    BY DEF NoneKeptWhileCreating
  <2>1. session = None
    BY DEF NoneKeptWhileCreating
  <2>2. QED
    BY <1>1, <2>1
<1>6. ReplayHolds'
  <2> SUFFICES ASSUME Mode = "replay", session' # None
               PROVE  \E d \in Calls : /\ pc'[d] \in {"checking", "checked", "generating", "confirming"}
                                       /\ gen'[d] = generation
                                       /\ owned'[d] = session'
    BY DEF ReplayHolds
  <2>1. session' = session /\ session # x
    BY <1>1
  <2>2. PICK d \in Calls : /\ pc[d] \in {"checking", "checked", "generating", "confirming"}
                           /\ gen[d] = generation
                           /\ owned[d] = session
    BY <2>1 DEF ReplayHolds
  <2>3. d # c
    BY <2>1, <2>2
  <2>4. QED
    BY <2>1, <2>2, <2>3
<1>7. StatusNeverWaits'
  BY DEF StatusNeverWaits
<1>8. QED
  BY <1>2, <1>3, <1>4, <1>5, <1>6, <1>7

LEMMA SessionCaller ==
  ASSUME QueueInv, SessionInv, NEW c \in Calls, Caller(c)
  PROVE  SessionInv'
<1> USE DEF QueueInv, TypeOK, CallTypeOK
<1>1. CASE Refuse(c)
  BY <1>1, SessionFrame DEF Refuse, stateVars, sessionVars
<1>2. CASE EnqueueConversation(c)
  BY <1>2, SessionFrame DEF EnqueueConversation, sessionVars
<1>3. CASE Abort(c) \/ CallerAborted(c) \/ CallerReceives(c)
  <2>1. UNCHANGED <<session, sessionStatus, generation, attempt, pc, gen, owned>>
    BY <1>3 DEF Abort, CallerAborted, CallerReceives, stateVars, sessionVars
  <2>2. QED
    BY <2>1 DEF SessionInv, KeptSessionIsUsable, NoSessionLeaks, Abandoned, NotYetRequested,
       NoneKeptWhileCreating, ReplayHolds, StatusNeverWaits
<1>4. QED
  BY <1>1, <1>2, <1>3 DEF Caller

\* JobFails, wherever it is used.
LEMMA SessionJobFails ==
  ASSUME QueueInv, SessionInv, NEW c \in Calls, JobFails(c), pc[c] # "creating"
  PROVE  SessionInv'
<1>1. owned[c] \in Sessions \cup {None}
  BY DEF QueueInv, TypeOK, CallTypeOK
<1>2. /\ Discard(owned[c]) /\ UNCHANGED <<generation, gen, attempt>>
      /\ pc'[c] = "done"
      /\ \A d \in Calls : d # c => pc'[d] = pc[d] /\ owned'[d] = owned[d]
  BY DEF JobFails, Finish, stateVars, QueueInv, TypeOK, CallTypeOK
<1>3. QED
  BY <1>1, <1>2, SessionDiscard

\* Steps of a job that keep the sessions as they are.
LEMMA SessionJobKeeps ==
  ASSUME QueueInv, SessionInv, NEW c \in Calls,
         \/ ReuseSession(c) \/ StartStatus(c) \/ FinishStatus(c) \/ ContextPasses(c) \/ Generate(c)
         \/ \E n \in ReplySizes : AcceptReply(c, n)
         \/ Settle(c)
         \/ CommitTurn(c) /\ Mode = "native"
  PROVE  SessionInv'
<1> USE DEF QueueInv, TypeOK, CallTypeOK
<1>1. CASE ReuseSession(c)
  BY <1>1, SessionFrame DEF ReuseSession, Ready, stateVars, sessionVars
<1>2. CASE StartStatus(c)
  <2>1. c \in Statuses /\ c \notin TurnCalls /\ pc[c] = "queued"
    <3>1. c \in Statuses /\ Ready(c)
      BY <1>2 DEF StartStatus
    <3>2. c \notin TurnCalls
      BY <3>1, ConversationAssumption
    <3>3. pc[c] = "queued"
      BY <3>1, <3>2 DEF Ready, OnlyTurnsGenerate
    <3>4. QED
      BY <3>1, <3>2, <3>3
  <2>2. QED
    BY <1>2, <2>1, SessionFrame DEF StartStatus, Finish, Ready, stateVars, sessionVars
<1>3. CASE FinishStatus(c)
  BY <1>3, SessionFrame, ConversationAssumption
  DEF FinishStatus, Finish, stateVars, sessionVars, SessionInv, StatusNeverWaits, TurnCalls
<1>4. CASE Generate(c)
  BY <1>4, SessionFrame DEF Generate, stateVars
<1>5. CASE \E n \in ReplySizes : AcceptReply(c, n)
  BY <1>5, SessionFrame DEF AcceptReply, stateVars, sessionVars
<1>6. CASE Settle(c)
  BY <1>6, SessionFrame DEF Settle, sessionVars
<1>7. CASE CommitTurn(c) /\ Mode = "native"
  BY <1>7, SessionFrame DEF CommitTurn, Finish
<1>8. CASE ContextPasses(c)
  BY <1>8, SessionFrame DEF ContextPasses, stateVars, sessionVars
<1>9. QED
  BY <1>1, <1>2, <1>3, <1>4, <1>5, <1>6, <1>7, <1>8

\* Steps of a job that discard the session it holds or waits for.
LEMMA SessionJobEnds ==
  ASSUME QueueInv, SessionInv, NEW c \in Calls,
         \/ RejectTurn(c) \/ CancelJob(c) \/ ContextFails(c) \/ GenerationFails(c)
         \/ AbandonSession(c) \/ RetryTurn(c)
         \/ CommitTurn(c) /\ Mode = "replay"
  PROVE  SessionInv'
<1> USE DEF QueueInv, TypeOK, CallTypeOK
<1>1. CASE RejectTurn(c) \/ CancelJob(c) \/ ContextFails(c) \/ GenerationFails(c)
  <2>1. JobFails(c) /\ pc[c] # "creating"
    BY <1>1 DEF RejectTurn, Ready, CancelJob, ContextFails, GenerationFails
  <2>2. QED
    BY <2>1, SessionJobFails
<1>2. CASE AbandonSession(c)
  <2>1. OwnSession(c) \in Sessions
    BY SessionParts
  <2>2. QED
    BY <1>2, <2>1, SessionDiscard DEF AbandonSession, Finish, stateVars
<1>3. CASE RetryTurn(c)
  BY <1>3, SessionDiscard DEF RetryTurn, Finish, stateVars
<1>4. CASE CommitTurn(c) /\ Mode = "replay"
  BY <1>4, SessionDiscard DEF CommitTurn, Finish
<1>5. QED
  BY <1>1, <1>2, <1>3, <1>4

\* A new session is asked for only when none is kept.
LEMMA SessionRequest ==
  ASSUME QueueInv, SessionInv, NEW c \in Calls, RequestSession(c)
  PROVE  SessionInv'
<1>1. /\ UNCHANGED <<session, generation, gen, attempt, owned>>
      /\ pc[c] \in {"queued", "retrying"} /\ pc'[c] = "creating"
      /\ \A d \in Calls : d # c => pc'[d] = pc[d]
      /\ OwnSession(c) \in Sessions
      /\ OwnSession(c)[1] = c /\ OwnSession(c)[2] = attempt[c]
      /\ sessionStatus'[OwnSession(c)] = "requested"
      /\ \A s \in Sessions : s # OwnSession(c) => sessionStatus'[s] = sessionStatus[s]
  BY SessionParts DEF RequestSession, Ready, stateVars, QueueInv, TypeOK, CallTypeOK, SessionTypeOK
<1>2. sessionStatus[OwnSession(c)] = "none"
  BY <1>1 DEF SessionInv, NotYetRequested
<1>3. session = None
  <2> SUFFICES ASSUME Mode = "replay", session # None
               PROVE  FALSE
    BY ConversationAssumption DEF RequestSession
  <2>1. PICK d \in Calls : /\ pc[d] \in {"checking", "checked", "generating", "confirming"}
                           /\ gen[d] = generation
                           /\ owned[d] = session
    BY DEF SessionInv, ReplayHolds
  <2>2. gen[c] = generation
    BY DEF RequestSession, TurnRejected, Cancelled
  <2>3. d = c
    <3>1. Head(chain[gen[c]]) = c
      BY DEF RequestSession, Ready, QueueInv, JobIsHead, InJob
    <3>2. Head(chain[gen[d]]) = d
      BY <2>1 DEF QueueInv, JobIsHead, InJob
    <3>3. QED
      BY <2>1, <2>2, <3>1, <3>2
  <2>4. QED
    BY <2>1, <2>3, <1>1
<1>4. KeptSessionIsUsable'
  BY <1>1, <1>3 DEF KeptSessionIsUsable
<1>5. NoSessionLeaks'
  <2> SUFFICES ASSUME NEW s \in Sessions, sessionStatus'[s] = "live"
               PROVE  ~Abandoned(s)'
    BY DEF NoSessionLeaks
  <2>1. s # OwnSession(c) /\ sessionStatus[s] = "live"
    BY <1>1
  <2>2. pc[s[1]] = "creating" /\ attempt[s[1]] = s[2]
    BY <2>1, <1>3, ConversationAssumption DEF SessionInv, NoSessionLeaks, Abandoned
  <2>3. s[1] # c /\ s[1] \in Calls
    BY <2>2, <1>1, SessionParts
  <2>4. QED
    BY <2>2, <2>3, <1>1 DEF Abandoned
<1>6. NotYetRequested'
  <2> SUFFICES ASSUME NEW s \in Sessions,
                      \/ pc'[s[1]] \in {"idle", "refused"}
                      \/ s[2] > attempt[s[1]]
                      \/ s[2] = attempt[s[1]] /\ pc'[s[1]] \in {"queued", "retrying"}
               PROVE  sessionStatus'[s] = "none"
    BY <1>1 DEF NotYetRequested
  <2>1. s[1] \in Calls /\ s[2] \in Nat /\ s = <<s[1], s[2]>> /\ attempt[s[1]] \in Nat
    BY SessionParts DEF QueueInv, TypeOK, CallTypeOK
  <2>2. s # OwnSession(c)
    BY <1>1, <2>1
  <2>3. \/ pc[s[1]] \in {"idle", "refused"}
        \/ s[2] > attempt[s[1]]
        \/ s[2] = attempt[s[1]] /\ pc[s[1]] \in {"queued", "retrying"}
    BY <2>1, <1>1
  <2>4. QED
    BY <1>1, <2>2, <2>3 DEF SessionInv, NotYetRequested
<1>7. NoneKeptWhileCreating'
  BY <1>1, <1>3 DEF NoneKeptWhileCreating
<1>8. ReplayHolds'
  BY <1>1, <1>3 DEF ReplayHolds
<1>9. StatusNeverWaits'
  BY <1>1 DEF SessionInv, StatusNeverWaits
<1>10. QED
  BY <1>4, <1>5, <1>6, <1>7, <1>8, <1>9 DEF SessionInv

\* The session the job waited for becomes the conversation's own.
LEMMA SessionAcquire ==
  ASSUME QueueInv, SessionInv, NEW c \in Calls, AcquireSession(c)
  PROVE  SessionInv'
<1>1. /\ UNCHANGED <<sessionStatus, generation, gen, attempt>>
      /\ pc[c] = "creating" /\ pc'[c] = "checking"
      /\ gen[c] = generation
      /\ \A d \in Calls : d # c => pc'[d] = pc[d] /\ owned'[d] = owned[d]
      /\ OwnSession(c) \in Sessions
      /\ OwnSession(c)[1] = c /\ OwnSession(c)[2] = attempt[c]
      /\ sessionStatus[OwnSession(c)] = "live"
      /\ session' = OwnSession(c) /\ owned'[c] = OwnSession(c)
  BY SessionParts DEF AcquireSession, Cancelled, stateVars, QueueInv, TypeOK, CallTypeOK
<1>2. session = None
  BY <1>1 DEF SessionInv, NoneKeptWhileCreating
<1>3. c \in TurnCalls
  BY <1>1 DEF QueueInv, OnlyTurnsGenerate
<1>4. KeptSessionIsUsable'
  BY <1>1 DEF KeptSessionIsUsable
<1>5. NoSessionLeaks'
  <2> SUFFICES ASSUME NEW s \in Sessions, sessionStatus[s] = "live", s # OwnSession(c)
               PROVE  ~Abandoned(s)'
    BY <1>1 DEF NoSessionLeaks
  <2>1. pc[s[1]] = "creating" /\ attempt[s[1]] = s[2]
    BY <1>2, ConversationAssumption DEF SessionInv, NoSessionLeaks, Abandoned
  <2>2. s[1] # c /\ s[1] \in Calls
    BY <2>1, SessionParts DEF OwnSession
  <2>3. QED
    BY <2>1, <2>2, <1>1 DEF Abandoned
<1>6. NotYetRequested'
  <2> SUFFICES ASSUME NEW s \in Sessions,
                      \/ pc'[s[1]] \in {"idle", "refused"}
                      \/ s[2] > attempt[s[1]]
                      \/ s[2] = attempt[s[1]] /\ pc'[s[1]] \in {"queued", "retrying"}
               PROVE  sessionStatus[s] = "none"
    BY <1>1 DEF NotYetRequested
  <2>1. s[1] \in Calls
    BY SessionParts
  <2>2. \/ pc[s[1]] \in {"idle", "refused"}
        \/ s[2] > attempt[s[1]]
        \/ s[2] = attempt[s[1]] /\ pc[s[1]] \in {"queued", "retrying"}
    BY <2>1, <1>1
  <2>3. QED
    BY <2>2 DEF SessionInv, NotYetRequested
<1>7. NoneKeptWhileCreating'
  <2> SUFFICES ASSUME NEW d \in Calls, pc'[d] = "creating", gen[d] = generation
               PROVE  FALSE
    BY <1>1 DEF NoneKeptWhileCreating
  <2>1. d # c /\ pc[d] = "creating"
    BY <1>1
  <2>2. QED
    BY <2>1, <1>1, OneRuns DEF QueueInv, InJob
<1>8. ReplayHolds'
  BY <1>1 DEF ReplayHolds
<1>9. StatusNeverWaits'
  BY <1>1, <1>3 DEF SessionInv, StatusNeverWaits
<1>10. QED
  BY <1>4, <1>5, <1>6, <1>7, <1>8, <1>9 DEF SessionInv

LEMMA SessionJob ==
  ASSUME QueueInv, SessionInv, NEW c \in Calls, Job(c)
  PROVE  SessionInv'
BY SessionJobKeeps, SessionJobEnds, SessionRequest, SessionAcquire, ConversationAssumption DEF Job

\* The provider's steps: a session arrives alive only if it is waited for.
LEMMA SessionProvider ==
  ASSUME QueueInv, SessionInv, NEW x \in Sessions, Provider(x)
  PROVE  SessionInv'
<1>1. /\ UNCHANGED <<session, generation, gen, attempt, pc, owned>>
      /\ sessionStatus[x] \in {"requested", "creating"}
      /\ sessionStatus'[x] = "live" => ~Abandoned(x)
      /\ \A s \in Sessions : s # x => sessionStatus'[s] = sessionStatus[s]
  BY DEF Provider, CallFactory, SessionArrives, SessionFails, stateVars, callVars,
         QueueInv, TypeOK, SessionTypeOK
<1>2. session # None => session \in Sessions /\ session # x
  BY <1>1 DEF SessionInv, KeptSessionIsUsable, QueueInv, TypeOK, SessionTypeOK
<1>3. KeptSessionIsUsable'
  BY <1>1, <1>2 DEF SessionInv, KeptSessionIsUsable
<1>4. NoSessionLeaks'
  <2> SUFFICES ASSUME NEW s \in Sessions, sessionStatus'[s] = "live"
               PROVE  session = s \/ ~Abandoned(s)
    BY <1>1 DEF NoSessionLeaks, Abandoned
  <2>1. QED
    BY <1>1 DEF SessionInv, NoSessionLeaks
<1>5. NotYetRequested'
  BY <1>1 DEF SessionInv, NotYetRequested
<1>6. QED
  BY <1>1, <1>3, <1>4, <1>5
  DEF SessionInv, NoneKeptWhileCreating, ReplayHolds, StatusNeverWaits

\* A new generation starts without a session.
LEMMA SessionRestart ==
  ASSUME QueueInv, SessionInv,
         \/ \E transcript \in {Seed} \cup Restores : ResetConversationState(transcript)
         \/ DestroyConversationState
  PROVE  SessionInv'
<1>1. /\ UNCHANGED <<gen, attempt, pc, owned>>
      /\ Discard(session)
  BY DEF ResetConversationState, DestroyConversationState, callVars
<1>2. /\ session' = None
      /\ session # None => sessionStatus'[session] # "live"
      /\ \A s \in Sessions : sessionStatus'[s] = sessionStatus[s]
                             \/ (sessionStatus[s] = "live" /\ sessionStatus'[s] = "disposed")
  BY <1>1 DEF Discard, SessionInv, KeptSessionIsUsable, QueueInv, TypeOK, SessionTypeOK
<1>3. KeptSessionIsUsable' /\ NoneKeptWhileCreating' /\ ReplayHolds'
  BY <1>2 DEF KeptSessionIsUsable, NoneKeptWhileCreating, ReplayHolds
<1>4. NoSessionLeaks'
  <2> SUFFICES ASSUME NEW s \in Sessions, sessionStatus'[s] = "live"
               PROVE  ~Abandoned(s)
    BY <1>1 DEF NoSessionLeaks, Abandoned
  <2>1. sessionStatus[s] = "live" /\ (session = None \/ session # s)
    BY <1>2
  <2>2. session # s
    BY <2>1, ConversationAssumption
  <2>3. QED
    BY <2>1, <2>2 DEF SessionInv, NoSessionLeaks
<1>5. NotYetRequested'
  <2> SUFFICES ASSUME NEW s \in Sessions,
                      \/ pc[s[1]] \in {"idle", "refused"}
                      \/ s[2] > attempt[s[1]]
                      \/ s[2] = attempt[s[1]] /\ pc[s[1]] \in {"queued", "retrying"}
               PROVE  sessionStatus'[s] = "none"
    BY <1>1 DEF NotYetRequested
  <2>1. sessionStatus[s] = "none"
    BY DEF SessionInv, NotYetRequested
  <2>2. QED
    BY <1>2, <2>1
<1>6. StatusNeverWaits'
  BY <1>1 DEF SessionInv, StatusNeverWaits
<1>7. QED
  BY <1>3, <1>4, <1>5, <1>6 DEF SessionInv

LEMMA SessionInit == Init => SessionInv
<1> SUFFICES ASSUME Init
             PROVE  SessionInv
  OBVIOUS
<1>1. \A s \in Sessions : sessionStatus[s] = "none"
  BY DEF Init
<1>2. session = None /\ \A c \in Calls : pc[c] = "idle"
  BY DEF Init
<1>3. QED
  BY <1>1, <1>2 DEF SessionInv, KeptSessionIsUsable, NoSessionLeaks, NotYetRequested,
     NoneKeptWhileCreating, ReplayHolds, StatusNeverWaits

LEMMA SessionStep == QueueInv /\ SessionInv /\ [Next]_vars => SessionInv'
<1> SUFFICES ASSUME QueueInv, SessionInv, [Next]_vars
             PROVE  SessionInv'
  OBVIOUS
<1>1. ASSUME NEW c \in Calls, Caller(c) \/ Job(c)
      PROVE  SessionInv'
  BY <1>1, SessionCaller, SessionJob
<1>2. ASSUME NEW s \in Sessions, Provider(s)
      PROVE  SessionInv'
  BY <1>2, SessionProvider
<1>3. CASE UNCHANGED vars
  BY <1>3 DEF vars, stateVars, callVars, sessionVars, SessionInv, KeptSessionIsUsable,
     NoSessionLeaks, Abandoned, NotYetRequested, NoneKeptWhileCreating, ReplayHolds,
     StatusNeverWaits
<1>4. QED
  BY <1>1, <1>2, <1>3, SessionRestart DEF Next

\* What is kept, held, awaited and abandoned among the provider sessions, in
\* every reachable state.
THEOREM SessionInvariant == Spec => []SessionInv
<1>1. Init => SessionInv
  BY SessionInit
<1>2. QueueInv /\ SessionInv /\ [Next]_vars => SessionInv'
  BY SessionStep
<1>3. QED
  BY <1>1, <1>2, QueueInvariant, PTL DEF Spec

\* The session kept for reuse is alive and belongs to the running generation
\* (state.session, through reset, destroy and late jobs).
THEOREM KeptSessionsUsable == Spec => []KeptSessionIsUsable
<1>1. SessionInv => KeptSessionIsUsable
  BY DEF SessionInv
<1>2. QED
  BY <1>1, SessionInvariant, PTL

\* A live provider session is always somebody's: the conversation's own, or
\* on its way to a job that still waits for it.
THEOREM SessionsNeverLeak == Spec => []NoSessionLeaks
<1>1. SessionInv => NoSessionLeaks
  BY DEF SessionInv
<1>2. QED
  BY <1>1, SessionInvariant, PTL

----------------------------------------------------------------------------
(* Committed turns and what the callers were told.                         *)

Committed(c) == \E i \in 1 .. Len(messages) : messages[i].call = c

\* The transcript holds the turn of a call exactly when its job, of this
\* generation, returned a value; a caller hears what its settled job returned,
\* or was refused.
CommitInv ==
  \A c \in TurnCalls :
    /\ Committed(c) =>
         gen[c] = generation /\ pc[c] \in {"done", "settled"} /\ result[c] = "value"
    /\ gen[c] = generation /\ result[c] = "value" => Committed(c)
    /\ result[c] # "none" => pc[c] \in {"done", "settled"}
    /\ outcome[c] \in {"value", "invalid", "error"} =>
         \/ pc[c] = "settled" /\ result[c] = outcome[c]
         \/ pc[c] = "refused" /\ outcome[c] = "error"

\* A turn's job returns a value only by committing, and ends when it returns.
LEMMA JobResult ==
  ASSUME TypeOK, NEW c \in Calls, Job(c), ~Settle(c)
  PROVE  /\ \A d \in Calls : d # c => result'[d] = result[d]
         /\ pc'[c] # "done" => result'[c] = result[c]
         /\ CommitTurn(c) \/ UNCHANGED messages
         /\ CommitTurn(c) \/ c \notin TurnCalls \/ result'[c] # "value" \/ result'[c] = result[c]
<1> USE DEF TypeOK, CallTypeOK
<1>1. CASE RejectTurn(c)
  BY <1>1 DEF RejectTurn, JobFails, Finish, stateVars
<1>2. CASE ReuseSession(c)
  BY <1>2 DEF ReuseSession, stateVars
<1>3. CASE RequestSession(c)
  BY <1>3 DEF RequestSession, stateVars
<1>4. CASE AcquireSession(c)
  BY <1>4 DEF AcquireSession, stateVars
<1>5. CASE AbandonSession(c)
  BY <1>5 DEF AbandonSession, Finish, stateVars
<1>6. CASE StartStatus(c)
  BY <1>6, ConversationAssumption DEF StartStatus, Finish, stateVars
<1>7. CASE FinishStatus(c)
  BY <1>7, ConversationAssumption DEF FinishStatus, Finish, stateVars
<1>8. CASE CancelJob(c)
  BY <1>8 DEF CancelJob, JobFails, Finish, stateVars
<1>9. CASE ContextFails(c)
  BY <1>9 DEF ContextFails, JobFails, Finish, stateVars
<1>10. CASE Generate(c)
  BY <1>10 DEF Generate, stateVars
<1>11. CASE GenerationFails(c)
  BY <1>11 DEF GenerationFails, JobFails, Finish, stateVars
<1>12. CASE RetryTurn(c)
  BY <1>12 DEF RetryTurn, Finish, stateVars
<1>13. CASE \E n \in ReplySizes : AcceptReply(c, n)
  BY <1>13 DEF AcceptReply, stateVars
<1>14. CASE CommitTurn(c)
  BY <1>14 DEF CommitTurn, Finish
<1>15. CASE ContextPasses(c)
  BY <1>15 DEF ContextPasses, stateVars
<1>16. QED
  BY <1>1, <1>2, <1>3, <1>4, <1>5, <1>6, <1>7, <1>8, <1>9, <1>10, <1>11, <1>12, <1>13, <1>14, <1>15
     DEF Job

\* Whose turns the transcript holds after a commit.
LEMMA AfterCommit ==
  ASSUME QueueInv, NEW c \in Calls, CommitTurn(c)
  PROVE  \A d \in Calls : Committed(d)' <=> (d = c \/ Committed(d))
<1>1. messages \in Seq(Turns) /\ Len(messages) \in Nat
  BY DEF QueueInv, TypeOK, StateTypeOK
<1> DEFINE turn == [call |-> c, size |-> ContentSize[c] + reply[c]]
<1>2. messages' = Append(messages, turn)
  BY DEF CommitTurn
<1>3. turn.call = c
  OBVIOUS
<1> HIDE DEF turn
<1>4. /\ Len(messages') = Len(messages) + 1
      /\ \A i \in 1 .. Len(messages) : messages'[i] = messages[i]
      /\ messages'[Len(messages) + 1] = turn
  BY <1>1, <1>2
<1>5. \A n, i \in Int : n >= 0 => (i \in 1 .. n + 1 <=> i \in 1 .. n \/ i = n + 1)
  OBVIOUS
<1>6. QED
  BY <1>1, <1>3, <1>4, <1>5 DEF Committed

LEMMA CommitCaller ==
  ASSUME QueueInv, CommitInv, NEW c \in Calls, Caller(c)
  PROVE  CommitInv'
<1>1. UNCHANGED <<messages, generation, result>>
  BY DEF Caller, Refuse, EnqueueConversation, Abort, CallerAborted, CallerReceives, stateVars
<1>2. \A d \in Calls : d # c => pc'[d] = pc[d] /\ gen'[d] = gen[d] /\ outcome'[d] = outcome[d]
  BY DEF Caller, Refuse, EnqueueConversation, Abort, CallerAborted, CallerReceives, stateVars,
     QueueInv, TypeOK, CallTypeOK
<1>3. \/ pc'[c] = pc[c] /\ gen'[c] = gen[c]
      \/ pc[c] = "idle" /\ pc'[c] = "queued"
      \/ pc[c] = "idle" /\ pc'[c] = "refused" /\ gen'[c] = gen[c]
  BY DEF Caller, Refuse, EnqueueConversation, Abort, CallerAborted, CallerReceives, stateVars,
     QueueInv, TypeOK, CallTypeOK
<1>4. \/ outcome'[c] = outcome[c] /\ pc'[c] # "refused"
      \/ outcome'[c] = outcome[c] /\ pc[c] = "refused" /\ pc'[c] = pc[c]
      \/ pc'[c] = "refused" /\ outcome'[c] = "error"
      \/ outcome'[c] = "aborted"
      \/ pc[c] = "settled" /\ outcome'[c] = result[c]
  BY DEF Caller, Refuse, EnqueueConversation, Abort, CallerAborted, CallerReceives, stateVars,
     QueueInv, TypeOK, CallTypeOK
<1>5. \A d \in Calls : Committed(d)' <=> Committed(d)
  BY <1>1 DEF Committed
<1>6. TurnCalls \subseteq Calls
  BY DEF Calls
<1>7. pc[c] = "idle" => outcome[c] \notin {"value", "invalid", "error"} \/ c \notin TurnCalls
  BY DEF CommitInv
<1>8. QED
  BY <1>1, <1>2, <1>3, <1>4, <1>5, <1>6, <1>7 DEF CommitInv

LEMMA CommitJob ==
  ASSUME QueueInv, CommitInv, NEW c \in Calls, Job(c)
  PROVE  CommitInv'
<1> USE DEF Calls, Started
<1>1. CASE Settle(c)
  <2>1. /\ UNCHANGED <<messages, generation, gen, result, outcome>>
        /\ pc[c] = "done" /\ pc'[c] = "settled"
        /\ \A d \in Calls : d # c => pc'[d] = pc[d]
    BY <1>1 DEF Settle, QueueInv, TypeOK, CallTypeOK
  <2>2. \A d \in Calls : Committed(d)' <=> Committed(d)
    BY <2>1 DEF Committed
  <2>3. QED
    BY <2>1, <2>2 DEF CommitInv
<1>2. CASE ~Settle(c)
  <2>1. /\ pc[c] \in Started \cup {"queued"}
        /\ pc'[c] \in Started \cup {"done"}
        /\ \A d \in Calls : d # c => pc'[d] = pc[d]
        /\ UNCHANGED <<generation, gen, outcome>>
    BY <1>2, JobShape DEF QueueInv
  <2>2. /\ \A d \in Calls : d # c => result'[d] = result[d]
        /\ pc'[c] # "done" => result'[c] = result[c]
        /\ CommitTurn(c) \/ UNCHANGED messages
        /\ CommitTurn(c) \/ c \notin TurnCalls \/ result'[c] # "value" \/ result'[c] = result[c]
    BY <1>2, JobResult DEF QueueInv
  <2>3. c \in TurnCalls => result[c] = "none" /\ ~Committed(c)
    BY <2>1 DEF CommitInv
  <2>4. CASE CommitTurn(c)
    <3>1. pc'[c] = "done" /\ result'[c] = "value" /\ gen[c] = generation /\ c \in TurnCalls
      BY <2>4 DEF CommitTurn, Finish, Cancelled, QueueInv, OnlyTurnsGenerate, TypeOK, CallTypeOK
    <3>2. \A d \in Calls : Committed(d)' <=> (d = c \/ Committed(d))
      BY <2>4, AfterCommit
    <3>3. QED
      BY <2>1, <2>2, <2>3, <3>1, <3>2 DEF CommitInv
  <2>5. CASE ~CommitTurn(c)
    <3>1. \A d \in Calls : Committed(d)' <=> Committed(d)
      BY <2>2, <2>5 DEF Committed
    <3>2. QED
      BY <2>1, <2>2, <2>3, <2>5, <3>1 DEF CommitInv
  <2>6. QED
    BY <2>4, <2>5
<1>3. QED
  BY <1>1, <1>2

\* A given transcript holds no call's turn.
LEMMA GivenHoldsNone ==
  ASSUME NEW t \in {Seed} \cup Restores, NEW i \in 1 .. Len(t)
  PROVE  t[i].call \notin Calls
<1>1. t \in Seq(Turns)
  BY ConversationAssumption
<1>2. t[i].call = None
  BY <1>1, ConversationAssumption
<1>3. QED
  BY <1>2, ConversationAssumption

LEMMA CommitRestart ==
  ASSUME QueueInv, CommitInv,
         \/ \E t \in {Seed} \cup Restores : ResetConversationState(t)
         \/ DestroyConversationState
  PROVE  CommitInv'
<1>1. /\ generation' = generation + 1
      /\ UNCHANGED <<pc, gen, result, outcome>>
      /\ messages' \in {Seed} \cup Restores \/ messages' = <<>>
  BY DEF ResetConversationState, DestroyConversationState, callVars
<1>2. \A c \in Calls : gen'[c] # generation'
  BY <1>1 DEF QueueInv, GenerationReached, TypeOK, StateTypeOK, CallTypeOK, Generations
<1>3. \A c \in Calls : ~Committed(c)'
  BY <1>1, GivenHoldsNone DEF Committed
<1>4. QED
  BY <1>1, <1>2, <1>3 DEF CommitInv, Calls

LEMMA CommitStep == QueueInv /\ CommitInv /\ [Next]_vars => CommitInv'
<1> SUFFICES ASSUME QueueInv, CommitInv, [Next]_vars
             PROVE  CommitInv'
  OBVIOUS
<1>1. ASSUME NEW c \in Calls, Caller(c) \/ Job(c)
      PROVE  CommitInv'
  BY <1>1, CommitCaller, CommitJob
<1>2. ASSUME UNCHANGED <<messages, generation, pc, gen, result, outcome>>
      PROVE  CommitInv'
  BY <1>2 DEF CommitInv, Committed
<1>3. ASSUME NEW s \in Sessions, Provider(s)
      PROVE  CommitInv'
  BY <1>2, <1>3 DEF Provider, CallFactory, SessionArrives, SessionFails, stateVars, callVars
<1>4. CASE UNCHANGED vars
  BY <1>2, <1>4 DEF vars, stateVars, callVars
<1>5. QED
  BY <1>1, <1>3, <1>4, CommitRestart DEF Next

LEMMA CommitInit == Init => CommitInv
<1> SUFFICES ASSUME Init
             PROVE  CommitInv
  OBVIOUS
<1>1. \A c \in Calls : ~Committed(c)
  BY GivenHoldsNone DEF Init, Committed
<1>2. QED
  BY <1>1 DEF Init, CommitInv, Calls

\* A value means that the turn is in the transcript, and any other answer of
\* the job that it is not, for any transcripts, limits and resets (what the
\* caller of prompt() relies on, session.mts and state.mts:187).
THEOREM ValuesAreCommitted == Spec => []ValueMeansCommitted
<1>1. CommitInv => ValueMeansCommitted
  BY DEF CommitInv, ValueMeansCommitted, Committed
<1>2. QED
  BY <1>1, CommitInit, CommitStep, QueueInvariant, PTL DEF Spec

----------------------------------------------------------------------------
(* What a native session remembers.                                        *)

Holding == {"checking", "checked", "generating", "confirming"}

\* A job holds a session only while it uses it, and one of its generation.
HeldInGeneration ==
  \A c \in Calls :
    /\ pc[c] \notin Holding => owned[c] = None
    /\ owned[c] # None =>
         pc[owned[c][1]] \notin {"idle", "refused"} /\ gen[owned[c][1]] = gen[c]

\* A session on its way was seeded with the transcript as it still is.
SeededWithTranscript ==
  \A c \in Calls : (pc[c] = "creating" /\ gen[c] = generation) =>
    retained[OwnSession(c)] = CallsOf(messages)

\* The running job of a native conversation uses the session that is kept.
HoldsKept ==
  \A c \in Calls : (pc[c] \in Holding /\ gen[c] = generation) =>
    session # None /\ owned[c] = session

\* The kept session remembers the transcript and, while a turn is generated,
\* that turn.
RemembersTurn ==
  \A c \in Calls : (pc[c] \in {"generating", "confirming"} /\ gen[c] = generation) =>
    retained[session] = Append(CallsOf(messages), c)

Quiet == \A c \in Calls : gen[c] = generation => pc[c] \notin {"generating", "confirming"}

RemembersTranscript == (session # None /\ Quiet) => retained[session] = CallsOf(messages)

HistoryInv ==
  /\ HeldInGeneration
  /\ Mode = "native" =>
       SeededWithTranscript /\ HoldsKept /\ RemembersTurn /\ RemembersTranscript

\* What Discard leaves as the kept session.
LEMMA DiscardKept ==
  ASSUME SessionInv, SessionTypeOK, NEW s \in Sessions \cup {None}, Discard(s)
  PROVE  /\ session = s => session' = None
         /\ session # s => session' = session
BY DEF Discard, SessionInv, KeptSessionIsUsable, SessionTypeOK

\* A step that leaves sessions and messages alone, and no job prompting.
LEMMA HistoryFrame ==
  ASSUME QueueInv, SessionInv, HistoryInv, NEW c \in Calls,
         UNCHANGED <<session, generation, messages, attempt, retained>>,
         \A d \in Calls : d # c => pc'[d] = pc[d] /\ gen'[d] = gen[d] /\ owned'[d] = owned[d],
         \/ /\ gen'[c] = gen[c] /\ owned'[c] = owned[c]
            /\ \/ pc'[c] = pc[c]
               \/ pc[c] \notin Holding \cup {"creating"} /\ pc'[c] \notin Holding \cup {"creating"}
               \/ pc[c] = "generating" /\ pc'[c] = "confirming"
               \/ pc[c] = "checking" /\ pc'[c] = "checked"
         \/ pc[c] = "idle" /\ pc'[c] = "queued" /\ owned'[c] = owned[c]
         \/ /\ pc[c] \notin {"creating", "generating", "confirming"}
            /\ pc'[c] = "done" /\ owned'[c] = None /\ gen'[c] = gen[c],
         pc[c] \notin {"idle", "refused"} => pc'[c] \notin {"idle", "refused"}
  PROVE  HistoryInv'
<1> USE DEF HistoryInv, Holding
<1>0. owned[c] \in Sessions \cup {None} /\ \A d \in Calls : owned[d] \in Sessions \cup {None}
  BY DEF QueueInv, TypeOK, CallTypeOK
<1>1. HeldInGeneration'
  <2> SUFFICES ASSUME NEW d \in Calls
               PROVE  /\ pc'[d] \notin Holding => owned'[d] = None
                      /\ owned'[d] # None =>
                           /\ pc'[owned'[d][1]] \notin {"idle", "refused"}
                           /\ gen'[owned'[d][1]] = gen'[d]
    BY DEF HeldInGeneration
  <2>1. pc'[d] \notin Holding => owned'[d] = None
    BY DEF HeldInGeneration
  <2>2. ASSUME owned'[d] # None
        PROVE  /\ pc'[owned'[d][1]] \notin {"idle", "refused"}
               /\ gen'[owned'[d][1]] = gen'[d]
    <3>1. owned'[d] = owned[d] /\ owned[d] # None
      BY <2>2
    <3>2. owned[d][1] \in Calls
      BY <1>0, <3>1, SessionParts
    <3>3. pc[owned[d][1]] \notin {"idle", "refused"} /\ gen[owned[d][1]] = gen[d]
      BY <3>1 DEF HeldInGeneration
    <3>4. pc[d] \in Holding
      BY <3>1 DEF HeldInGeneration
    <3>5. gen'[d] = gen[d]
      BY <3>4
    <3>6. gen'[owned[d][1]] = gen[owned[d][1]] /\ pc'[owned[d][1]] \notin {"idle", "refused"}
      BY <3>2, <3>3
    <3>7. QED
      BY <3>1, <3>3, <3>5, <3>6
  <2>3. QED
    BY <2>1, <2>2
<1>2. Mode = "native" => SeededWithTranscript' /\ HoldsKept'
  BY DEF SeededWithTranscript, HoldsKept, OwnSession
<1>3. Mode = "native" => RemembersTurn'
  BY DEF RemembersTurn
<1>4. Quiet' => Quiet
  BY DEF Quiet
<1>5. Mode = "native" => RemembersTranscript'
  BY <1>4 DEF RemembersTranscript
<1>6. QED
  BY <1>1, <1>2, <1>3, <1>5

\* A job ends, or its attempt does, without a commit.
LEMMA HistoryEnds ==
  ASSUME QueueInv, SessionInv, HistoryInv, NEW c \in Calls, NEW s \in Sessions \cup {None},
         Discard(s), s = owned[c] \/ (pc[c] = "creating" /\ s = OwnSession(c)),
         UNCHANGED <<generation, messages, gen, retained>>,
         \A d \in Calls : d # c => /\ pc'[d] = pc[d] /\ owned'[d] = owned[d]
                                   /\ attempt'[d] = attempt[d],
         pc[c] \notin {"idle", "refused"}, pc'[c] \in {"done", "retrying"}, owned'[c] = None
  PROVE  HistoryInv'
<1> USE DEF HistoryInv, Holding
<1>0. \A d \in Calls : owned[d] \in Sessions \cup {None}
  BY DEF QueueInv, TypeOK, CallTypeOK
<1>1. HeldInGeneration'
  BY <1>0, SessionParts, ConversationAssumption DEF HeldInGeneration
<1>2. session' = session \/ session' = None
  BY DEF Discard
<1>3. session # None /\ session' = None => s = session
  BY DiscardKept DEF QueueInv, TypeOK
<1>4. session # None /\ s = session => gen[c] = generation
  <2>1. session # None => session \in Sessions /\ gen[session[1]] = generation
    BY DEF SessionInv, KeptSessionIsUsable, QueueInv, TypeOK, SessionTypeOK
  <2>2. OwnSession(c)[1] = c
    BY DEF OwnSession
  <2>3. QED
    BY <2>1, <2>2 DEF HeldInGeneration
<1>5. ASSUME NEW d \in Calls, d # c, pc[d] \in Holding, gen[d] = generation
      PROVE  pc[c] \notin Holding \cup {"creating"} \/ gen[c] # generation
  BY <1>5, OneRuns DEF QueueInv, InJob
<1>6. ASSUME Mode = "native"
      PROVE  SeededWithTranscript'
  BY <1>6 DEF SeededWithTranscript, OwnSession
<1>7. ASSUME Mode = "native"
      PROVE  HoldsKept'
  <2> SUFFICES ASSUME NEW d \in Calls, pc'[d] \in Holding, gen'[d] = generation'
               PROVE  session' # None /\ owned'[d] = session'
    BY DEF HoldsKept
  <2>1. d # c /\ pc[d] \in Holding /\ gen[d] = generation /\ owned[d] = owned'[d]
    OBVIOUS
  <2>2. session # None /\ owned[d] = session
    BY <1>7, <2>1 DEF HoldsKept
  <2>3. session' # None
    <3> SUFFICES ASSUME session' = None
                 PROVE  FALSE
      OBVIOUS
    <3>1. s = session /\ gen[c] = generation
      BY <1>3, <1>4, <2>2
    <3>2. pc[c] \notin Holding \cup {"creating"}
      BY <1>5, <2>1, <3>1
    <3>3. owned[c] = None
      BY <3>2 DEF HeldInGeneration
    <3>4. QED
      BY <2>2, <3>1, <3>2, <3>3
  <2>4. QED
    BY <1>2, <2>1, <2>2, <2>3
<1>8. ASSUME Mode = "native"
      PROVE  RemembersTurn'
  <2> SUFFICES ASSUME NEW d \in Calls, pc'[d] \in {"generating", "confirming"}, gen'[d] = generation'
               PROVE  retained'[session'] = Append(CallsOf(messages)', d)
    BY DEF RemembersTurn, CallsOf
  <2>1. d # c /\ pc[d] \in {"generating", "confirming"} /\ gen[d] = generation
    OBVIOUS
  <2>2. session' # None
    BY <1>7, <1>8 DEF HoldsKept
  <2>3. retained[session] = Append(CallsOf(messages), d)
    BY <1>8, <2>1 DEF RemembersTurn
  <2>4. CallsOf(messages)' = CallsOf(messages)
    BY DEF CallsOf
  <2>5. QED
    BY <1>2, <2>2, <2>3, <2>4
<1>9. ASSUME Mode = "native"
      PROVE  RemembersTranscript'
  <2> SUFFICES ASSUME session' # None, Quiet'
               PROVE  retained'[session'] = CallsOf(messages)'
    BY DEF RemembersTranscript, CallsOf
  <2>1. session' = session /\ session # None
    BY <1>2
  <2>2. CallsOf(messages)' = CallsOf(messages)
    BY DEF CallsOf
  <2>3. Quiet
    <3> SUFFICES ASSUME pc[c] \in {"generating", "confirming"}, gen[c] = generation
                 PROVE  FALSE
      BY DEF Quiet
    <3>1. owned[c] = session
      BY <1>9 DEF HoldsKept
    <3>2. s = session
      BY <3>1
    <3>3. session' = None
      BY <3>2, DiscardKept DEF QueueInv, TypeOK
    <3>4. QED
      BY <2>1, <3>3
  <2>4. QED
    BY <1>9, <2>1, <2>2, <2>3 DEF RemembersTranscript
<1>10. QED
  BY <1>1, <1>6, <1>7, <1>8, <1>9

LEMMA HistoryCaller ==
  ASSUME QueueInv, SessionInv, HistoryInv, NEW c \in Calls, Caller(c)
  PROVE  HistoryInv'
<1> USE DEF QueueInv, TypeOK, CallTypeOK, Holding
<1>1. CASE Refuse(c)
  BY <1>1, HistoryFrame DEF Refuse, stateVars, sessionVars
<1>2. CASE EnqueueConversation(c)
  BY <1>2, HistoryFrame DEF EnqueueConversation, sessionVars
<1>3. CASE Abort(c) \/ CallerAborted(c) \/ CallerReceives(c)
  BY <1>3, HistoryFrame DEF Abort, CallerAborted, CallerReceives, stateVars, sessionVars
<1>4. QED
  BY <1>1, <1>2, <1>3 DEF Caller

\* Steps of a job that ends without a session, or goes on with the one it has.
LEMMA HistoryKeeps ==
  ASSUME QueueInv, SessionInv, HistoryInv, NEW c \in Calls,
         \/ FinishStatus(c) \/ Settle(c) \/ ContextPasses(c)
         \/ \E n \in ReplySizes : AcceptReply(c, n)
  PROVE  HistoryInv'
<1> USE DEF QueueInv, TypeOK, CallTypeOK, Holding
<1>1. CASE FinishStatus(c)
  BY <1>1, HistoryFrame DEF FinishStatus, Finish, stateVars, sessionVars
<1>2. CASE Settle(c)
  BY <1>2, HistoryFrame DEF Settle, sessionVars
<1>3. CASE \E n \in ReplySizes : AcceptReply(c, n)
  BY <1>3, HistoryFrame DEF AcceptReply, stateVars, sessionVars
<1>4. CASE ContextPasses(c)
  BY <1>4, HistoryFrame DEF ContextPasses, stateVars, sessionVars
<1>5. QED
  BY <1>1, <1>2, <1>3, <1>4

LEMMA HistoryDiscards ==
  ASSUME QueueInv, SessionInv, HistoryInv, NEW c \in Calls,
         \/ RejectTurn(c) \/ CancelJob(c) \/ ContextFails(c) \/ GenerationFails(c)
         \/ AbandonSession(c) \/ RetryTurn(c)
  PROVE  HistoryInv'
<1> USE DEF QueueInv, TypeOK, CallTypeOK
<1>0. owned[c] \in Sessions \cup {None} /\ OwnSession(c) \in Sessions
  BY SessionParts
<1>1. CASE RejectTurn(c) \/ CancelJob(c) \/ ContextFails(c) \/ GenerationFails(c)
  <2>1. JobFails(c) /\ pc[c] \notin {"idle", "refused"}
    BY <1>1 DEF RejectTurn, Ready, CancelJob, ContextFails, GenerationFails
  <2>2. QED
    BY <2>1, <1>0, HistoryEnds DEF JobFails, Finish, stateVars
<1>2. CASE AbandonSession(c)
  BY <1>2, <1>0, HistoryEnds DEF AbandonSession, Finish, stateVars
<1>3. CASE RetryTurn(c)
  BY <1>3, <1>0, HistoryEnds DEF RetryTurn, Finish, stateVars
<1>4. QED
  BY <1>1, <1>2, <1>3

\* A job of this generation that is about to run: no other is running.
LEMMA RunsAlone ==
  ASSUME QueueInv, NEW c \in Calls, Ready(c) \/ InJob(c),
         NEW d \in Calls, d # c, gen[d] = gen[c]
  PROVE  pc[d] \notin Holding \cup {"creating"}
BY DEF QueueInv, JobIsHead, Ready, InJob, Holding

\* A job takes the session that is kept: for its turn, or to ask its status.
LEMMA HistoryTakes ==
  ASSUME QueueInv, SessionInv, HistoryInv, NEW c \in Calls,
         ReuseSession(c) \/ StartStatus(c)
  PROVE  HistoryInv'
<1> USE DEF QueueInv, TypeOK, CallTypeOK, Holding
<1>0. pc[c] \in {"queued", "retrying"}
  BY DEF ReuseSession, StartStatus, Ready
<1>1. CASE pc'[c] = "done"
  BY <1>0, <1>1, HistoryFrame DEF ReuseSession, StartStatus, Finish, stateVars, sessionVars
<1>2. CASE pc'[c] # "done"
  <2>1. /\ UNCHANGED <<session, generation, messages, attempt, retained, gen>>
        /\ gen[c] = generation /\ session # None
        /\ pc'[c] = "checking" /\ owned'[c] = session
        /\ \A d \in Calls : d # c => pc'[d] = pc[d] /\ owned'[d] = owned[d]
    BY <1>2 DEF ReuseSession, StartStatus, TurnRejected, Cancelled, Finish, stateVars, sessionVars
  <2>2. session \in Sessions /\ session[1] \in Calls /\ gen[session[1]] = generation
        /\ pc[session[1]] \notin {"idle", "refused"}
    BY <2>1, SessionParts
       DEF SessionInv, KeptSessionIsUsable, NotYetRequested, SessionTypeOK
  <2>3. HeldInGeneration'
    <3> SUFFICES ASSUME NEW d \in Calls
                 PROVE  /\ pc'[d] \notin Holding => owned'[d] = None
                        /\ owned'[d] # None =>
                             /\ pc'[owned'[d][1]] \notin {"idle", "refused"}
                             /\ gen'[owned'[d][1]] = gen'[d]
      BY DEF HeldInGeneration
    <3>1. CASE d = c
      BY <2>1, <2>2, <3>1
    <3>2. CASE d # c
      <4>1. owned[d] # None => owned[d][1] \in Calls
        BY SessionParts
      <4>2. QED
        BY <1>0, <2>1, <3>2, <4>1 DEF HistoryInv, HeldInGeneration
    <3>3. QED
      BY <3>1, <3>2
  <2>4. SeededWithTranscript' <=> SeededWithTranscript
    BY <1>0, <2>1 DEF SeededWithTranscript, OwnSession
  <2>5. HoldsKept => HoldsKept'
    BY <2>1 DEF HoldsKept
  <2>6. RemembersTurn => RemembersTurn'
    BY <2>1 DEF RemembersTurn
  <2>7. RemembersTranscript => RemembersTranscript'
    <3>1. Quiet' => Quiet
      BY <1>0, <2>1 DEF Quiet
    <3>2. QED
      BY <2>1, <3>1 DEF RemembersTranscript
  <2>8. QED
    BY <2>3, <2>4, <2>5, <2>6, <2>7 DEF HistoryInv
<1>3. QED
  BY <1>1, <1>2

\* A new session is seeded with the transcript.
LEMMA HistoryRequest ==
  ASSUME QueueInv, SessionInv, HistoryInv, NEW c \in Calls, RequestSession(c)
  PROVE  HistoryInv'
<1> USE DEF Holding
<1>1. /\ UNCHANGED <<session, generation, messages, attempt, gen, owned>>
      /\ gen[c] = generation /\ pc[c] \in {"queued", "retrying"} /\ pc'[c] = "creating"
      /\ Mode = "native" => session = None
      /\ Mode = "native" => retained'[OwnSession(c)] = CallsOf(messages)
      /\ \A d \in Calls : d # c => pc'[d] = pc[d]
  BY SessionParts DEF RequestSession, Ready, TurnRejected, Cancelled, stateVars,
     QueueInv, TypeOK, CallTypeOK, SessionTypeOK
<1>2. HeldInGeneration'
  <2> SUFFICES ASSUME NEW d \in Calls
               PROVE  /\ pc'[d] \notin Holding => owned[d] = None
                      /\ owned[d] # None =>
                           /\ pc'[owned[d][1]] \notin {"idle", "refused"}
                           /\ gen[owned[d][1]] = gen[d]
    BY <1>1 DEF HeldInGeneration
  <2>1. owned[d] # None => owned[d][1] \in Calls
    BY SessionParts DEF QueueInv, TypeOK, CallTypeOK
  <2>2. QED
    BY <1>1, <2>1 DEF HistoryInv, HeldInGeneration
<1>3. ASSUME Mode = "native"
      PROVE  SeededWithTranscript' /\ HoldsKept' /\ RemembersTurn' /\ RemembersTranscript'
  <2>1. session' = None
    BY <1>1, <1>3
  <2>2. HoldsKept'
    BY <1>1, <1>3 DEF HistoryInv, HoldsKept
  <2>3. RemembersTurn' /\ RemembersTranscript'
    BY <2>1, <2>2 DEF RemembersTurn, RemembersTranscript, HoldsKept
  <2>4. SeededWithTranscript'
    <3> SUFFICES ASSUME NEW d \in Calls, pc'[d] = "creating", gen[d] = generation
                 PROVE  retained'[OwnSession(d)] = CallsOf(messages)
      BY <1>1 DEF SeededWithTranscript, OwnSession, CallsOf
    <3>1. d = c
      <4> SUFFICES ASSUME d # c
                   PROVE  FALSE
        OBVIOUS
      <4>1. QED
        BY <1>1, RunsAlone DEF RequestSession
    <3>2. QED
      BY <1>1, <1>3, <3>1
  <2>5. QED
    BY <2>2, <2>3, <2>4
<1>4. QED
  BY <1>2, <1>3 DEF HistoryInv

\* The session that was waited for is the one that is kept.
LEMMA HistoryAcquire ==
  ASSUME QueueInv, SessionInv, HistoryInv, NEW c \in Calls, AcquireSession(c)
  PROVE  HistoryInv'
<1> USE DEF Holding
<1>1. /\ UNCHANGED <<generation, messages, attempt, gen, retained>>
      /\ gen[c] = generation /\ pc[c] = "creating" /\ pc'[c] = "checking"
      /\ session' = OwnSession(c) /\ owned'[c] = OwnSession(c)
      /\ OwnSession(c) \in Sessions /\ OwnSession(c)[1] = c /\ OwnSession(c) # None
      /\ \A d \in Calls : d # c => pc'[d] = pc[d] /\ owned'[d] = owned[d]
  BY SessionParts, ConversationAssumption DEF AcquireSession, Cancelled, stateVars,
     QueueInv, TypeOK, CallTypeOK
<1>2. HeldInGeneration'
  <2> SUFFICES ASSUME NEW d \in Calls
               PROVE  /\ pc'[d] \notin Holding => owned'[d] = None
                      /\ owned'[d] # None =>
                           /\ pc'[owned'[d][1]] \notin {"idle", "refused"}
                           /\ gen[owned'[d][1]] = gen[d]
    BY <1>1 DEF HeldInGeneration
  <2>1. owned[d] # None => owned[d][1] \in Calls
    BY SessionParts DEF QueueInv, TypeOK, CallTypeOK
  <2>2. CASE d = c
    BY <1>1, <2>2
  <2>3. CASE d # c
    BY <1>1, <2>1, <2>3 DEF HistoryInv, HeldInGeneration
  <2>4. QED
    BY <2>2, <2>3
<1>3. \A d \in Calls : d # c /\ gen[d] = generation => pc[d] \notin Holding \cup {"creating"}
  BY <1>1, RunsAlone DEF InJob
<1>4. ASSUME Mode = "native"
      PROVE  SeededWithTranscript' /\ HoldsKept' /\ RemembersTurn' /\ RemembersTranscript'
  <2>1. SeededWithTranscript' /\ HoldsKept' /\ RemembersTurn'
    BY <1>1, <1>3 DEF SeededWithTranscript, HoldsKept, RemembersTurn
  <2>2. retained[OwnSession(c)] = CallsOf(messages)
    BY <1>1, <1>4 DEF HistoryInv, SeededWithTranscript
  <2>3. RemembersTranscript'
    BY <1>1, <2>2 DEF RemembersTranscript, CallsOf
  <2>4. QED
    BY <2>1, <2>3
<1>5. QED
  BY <1>2, <1>4 DEF HistoryInv

\* The turn is prompted: the kept session remembers it from now on.
LEMMA HistoryGenerate ==
  ASSUME QueueInv, SessionInv, HistoryInv, NEW c \in Calls, Generate(c)
  PROVE  HistoryInv'
<1> USE DEF Holding
<1>1. /\ UNCHANGED <<session, generation, messages, attempt, gen, owned>>
      /\ pc[c] = "checked" /\ pc'[c] = "generating"
      /\ retained' = [retained EXCEPT ![owned[c]] = Append(@, c)]
      /\ \A d \in Calls : d # c => pc'[d] = pc[d]
  BY ConversationAssumption DEF Generate, Cancelled, stateVars, QueueInv, TypeOK, CallTypeOK
<1>2. HeldInGeneration'
  <2> SUFFICES ASSUME NEW d \in Calls
               PROVE  /\ pc'[d] \notin Holding => owned[d] = None
                      /\ owned[d] # None =>
                           /\ pc'[owned[d][1]] \notin {"idle", "refused"}
                           /\ gen[owned[d][1]] = gen[d]
    BY <1>1 DEF HeldInGeneration
  <2>1. owned[d] # None => owned[d][1] \in Calls
    BY SessionParts DEF QueueInv, TypeOK, CallTypeOK
  <2>2. QED
    BY <1>1, <2>1 DEF HistoryInv, HeldInGeneration
<1>3. ASSUME Mode = "native", gen[c] = generation
      PROVE  SeededWithTranscript' /\ HoldsKept' /\ RemembersTurn' /\ RemembersTranscript'
  <2>1. \A d \in Calls : d # c /\ gen[d] = generation => pc[d] \notin Holding \cup {"creating"}
    BY <1>1, <1>3, RunsAlone DEF InJob
  <2>2. owned[c] = session /\ session # None /\ gen[c] = generation
    BY <1>1, <1>3 DEF HistoryInv, HoldsKept
  <2>3. retained[session] = CallsOf(messages)
    <3>1. Quiet
      BY <1>1, <2>1 DEF Quiet
    <3>2. QED
      BY <1>3, <2>2, <3>1 DEF HistoryInv, RemembersTranscript
  <2>4. session \in Sessions
    BY <2>2 DEF QueueInv, TypeOK, SessionTypeOK
  <2>5. retained'[session] = Append(CallsOf(messages), c)
    BY <1>1, <2>2, <2>3, <2>4 DEF QueueInv, TypeOK, SessionTypeOK
  <2>6. SeededWithTranscript' /\ HoldsKept'
    BY <1>1, <1>3, <2>1 DEF HistoryInv, SeededWithTranscript, HoldsKept
  <2>7. RemembersTurn'
    BY <1>1, <2>1, <2>5 DEF RemembersTurn, CallsOf
  <2>8. ~Quiet'
    BY <1>1, <2>2 DEF Quiet
  <2>9. RemembersTranscript'
    BY <2>8 DEF RemembersTranscript
  <2>10. QED
    BY <2>6, <2>7, <2>9
\* The generation ended between the check and the prompt: the session that is
\* prompted is not the one that is kept now.
<1>4. ASSUME Mode = "native", gen[c] # generation
      PROVE  SeededWithTranscript' /\ HoldsKept' /\ RemembersTurn' /\ RemembersTranscript'
  <2>1. SeededWithTranscript' /\ HoldsKept'
    <3>1. \A d \in Calls : pc[d] = "creating" /\ gen[d] = generation =>
            OwnSession(d) \in Sessions /\ gen[OwnSession(d)[1]] = generation
      BY SessionParts DEF QueueInv, TypeOK, CallTypeOK
    <3>2. \A d \in Calls : pc[d] = "creating" /\ gen[d] = generation => OwnSession(d) # owned[c]
      BY <1>4, <3>1, ConversationAssumption DEF HistoryInv, HeldInGeneration
    <3>3. \A d \in Calls : OwnSession(d)' = OwnSession(d)
      BY <1>1 DEF OwnSession
    <3>4. CallsOf(messages)' = CallsOf(messages)
      BY <1>1 DEF CallsOf
    <3>5. retained \in [Sessions -> Seq(Calls \cup {None})]
      BY DEF QueueInv, TypeOK, SessionTypeOK
    <3>6. SeededWithTranscript'
      BY <1>1, <1>4, <3>1, <3>2, <3>3, <3>4, <3>5 DEF HistoryInv, SeededWithTranscript
    <3>7. HoldsKept'
      BY <1>1, <1>4 DEF HistoryInv, HoldsKept
    <3>8. QED
      BY <3>6, <3>7
  <2>2. ASSUME session # None
        PROVE  retained'[session] = retained[session]
    <3>1. session \in Sessions /\ gen[session[1]] = generation
      BY <2>2 DEF SessionInv, KeptSessionIsUsable, QueueInv, TypeOK, SessionTypeOK
    <3>2. owned[c] # session
      BY <1>4, <2>2, <3>1 DEF HistoryInv, HeldInGeneration
    <3>3. QED
      BY <1>1, <3>1, <3>2 DEF QueueInv, TypeOK, SessionTypeOK
  <2>3. CallsOf(messages)' = CallsOf(messages)
    BY <1>1 DEF CallsOf
  <2>4. ASSUME NEW d \in Calls, pc'[d] \in {"generating", "confirming"}, gen[d] = generation
        PROVE  retained'[session] = Append(CallsOf(messages), d)
    <3>1. d # c /\ pc[d] \in {"generating", "confirming"}
      BY <1>1, <1>4, <2>4
    <3>2. session # None /\ retained[session] = Append(CallsOf(messages), d)
      BY <1>4, <2>4, <3>1 DEF HistoryInv, HoldsKept, RemembersTurn
    <3>3. QED
      BY <2>2, <3>2
  <2>5. RemembersTurn'
    BY <1>1, <2>3, <2>4 DEF RemembersTurn
  <2>6. Quiet' => Quiet
    BY <1>1, <1>4 DEF Quiet
  <2>7. RemembersTranscript'
    BY <1>1, <1>4, <2>2, <2>3, <2>6 DEF HistoryInv, RemembersTranscript
  <2>8. QED
    BY <2>1, <2>5, <2>7
<1>5. QED
  BY <1>2, <1>3, <1>4 DEF HistoryInv

\* The turn enters the transcript as the kept session remembers it.
LEMMA CallsOfAppend ==
  ASSUME NEW t \in Seq(Turns), NEW turn \in Turns
  PROVE  CallsOf(Append(t, turn)) = Append(CallsOf(t), turn.call)
<1>1. CallsOf(t) \in Seq(Calls \cup {None}) /\ turn.call \in Calls \cup {None}
  BY CallsOfType DEF Turns
<1>2. Append(t, turn) \in Seq(Turns) /\ Len(Append(t, turn)) = Len(t) + 1 /\ Len(t) \in Nat
  OBVIOUS
<1>3. CallsOf(Append(t, turn)) \in Seq(Calls \cup {None})
  BY <1>2, CallsOfType
<1>4. /\ Len(CallsOf(t)) = Len(t)
      /\ \A i \in 1 .. Len(t) : CallsOf(t)[i] = t[i].call
  BY DEF CallsOf
<1>5. /\ Len(CallsOf(Append(t, turn))) = Len(t) + 1
      /\ \A i \in 1 .. Len(t) + 1 : CallsOf(Append(t, turn))[i] = Append(t, turn)[i].call
  BY <1>2 DEF CallsOf
<1>6. \A i \in 1 .. Len(t) : Append(t, turn)[i] = t[i]
  OBVIOUS
<1>7. Append(t, turn)[Len(t) + 1] = turn
  OBVIOUS
<1> DEFINE longer == CallsOf(Append(t, turn))
           added == Append(CallsOf(t), turn.call)
<1>8. added \in Seq(Calls \cup {None}) /\ Len(added) = Len(t) + 1
  BY <1>1, <1>2, <1>4
<1>9. \A i \in 1 .. Len(t) : added[i] = t[i].call
  BY <1>1, <1>4
<1>10. added[Len(t) + 1] = turn.call
  BY <1>1, <1>4
<1>11. \A n, i \in Int : n >= 0 => (i \in 1 .. n + 1 <=> i \in 1 .. n \/ i = n + 1)
  OBVIOUS
<1>12. ASSUME NEW i \in 1 .. Len(t) + 1
       PROVE  longer[i] = added[i]
  <2>1. longer[i] = Append(t, turn)[i].call
    BY <1>5
  <2>2. i \in 1 .. Len(t) \/ i = Len(t) + 1
    BY <1>2, <1>11
  <2> HIDE DEF longer, added
  <2>3. QED
    BY <2>1, <2>2, <1>6, <1>7, <1>9, <1>10
<1> HIDE DEF longer, added
<1>13. longer = added
  BY <1>3, <1>5, <1>8, <1>12, SeqEqual DEF longer
<1>14. QED
  BY <1>13 DEF longer, added

LEMMA HistoryCommit ==
  ASSUME QueueInv, SessionInv, HistoryInv, NEW c \in Calls, CommitTurn(c)
  PROVE  HistoryInv'
<1> USE DEF Holding
<1>0. owned[c] \in Sessions \cup {None}
  BY DEF QueueInv, TypeOK, CallTypeOK
<1>1. /\ UNCHANGED <<generation, attempt, gen, retained>>
      /\ gen[c] = generation /\ pc[c] = "confirming" /\ pc'[c] = "done" /\ owned'[c] = None
      /\ \A d \in Calls : d # c => pc'[d] = pc[d] /\ owned'[d] = owned[d]
      /\ Mode = "native" => session' = session
  BY ConversationAssumption DEF CommitTurn, Cancelled, Finish, QueueInv, TypeOK, CallTypeOK
<1>2. HeldInGeneration'
  <2> SUFFICES ASSUME NEW d \in Calls
               PROVE  /\ pc'[d] \notin Holding => owned'[d] = None
                      /\ owned'[d] # None =>
                           /\ pc'[owned'[d][1]] \notin {"idle", "refused"}
                           /\ gen[owned'[d][1]] = gen[d]
    BY <1>1 DEF HeldInGeneration
  <2>1. owned[d] # None => owned[d][1] \in Calls
    BY SessionParts DEF QueueInv, TypeOK, CallTypeOK
  <2>2. QED
    BY <1>1, <2>1 DEF HistoryInv, HeldInGeneration
<1>3. ASSUME Mode = "native"
      PROVE  SeededWithTranscript' /\ HoldsKept' /\ RemembersTurn' /\ RemembersTranscript'
  <2>1. \A d \in Calls : d # c /\ gen[d] = generation => pc[d] \notin Holding \cup {"creating"}
    BY <1>1, RunsAlone DEF InJob
  <2>2. SeededWithTranscript' /\ HoldsKept' /\ RemembersTurn'
    BY <1>1, <2>1 DEF SeededWithTranscript, HoldsKept, RemembersTurn
  <2>3. retained[session] = Append(CallsOf(messages), c)
    BY <1>1, <1>3 DEF HistoryInv, RemembersTurn
  <2> DEFINE turn == [call |-> c, size |-> ContentSize[c] + reply[c]]
  <2>4. messages \in Seq(Turns) /\ reply[c] \in Nat /\ c \in TurnCalls
    BY <1>1 DEF QueueInv, TypeOK, StateTypeOK, CallTypeOK, OnlyTurnsGenerate
  <2>5. turn \in Turns /\ turn.call = c
    BY <2>4, ConversationAssumption DEF Turns
  <2>6. CallsOf(messages)' = Append(CallsOf(messages), c)
    <3>1. messages' = Append(messages, turn)
      BY DEF CommitTurn
    <3> HIDE DEF turn
    <3>2. CallsOf(Append(messages, turn)) = Append(CallsOf(messages), c)
      BY <2>4, <2>5, CallsOfAppend
    <3>3. CallsOf(messages)' = CallsOf(Append(messages, turn))
      BY <3>1 DEF CallsOf
    <3>4. QED
      BY <3>2, <3>3
  <2>7. RemembersTranscript'
    BY <1>1, <1>3, <2>3, <2>6 DEF RemembersTranscript
  <2>8. QED
    BY <2>2, <2>7
<1>4. QED
  BY <1>2, <1>3 DEF HistoryInv

LEMMA HistoryRestart ==
  ASSUME QueueInv, SessionInv, HistoryInv,
         \/ \E t \in {Seed} \cup Restores : ResetConversationState(t)
         \/ DestroyConversationState
  PROVE  HistoryInv'
<1>1. /\ generation' = generation + 1
      /\ UNCHANGED <<pc, gen, owned>>
      /\ Discard(session)
  BY DEF ResetConversationState, DestroyConversationState, callVars
<1>2. \A c \in Calls : gen'[c] # generation'
  BY <1>1 DEF QueueInv, GenerationReached, TypeOK, StateTypeOK, CallTypeOK, Generations
<1>3. session' = None
  BY <1>1, DiscardKept DEF QueueInv, TypeOK, SessionTypeOK
<1>4. HeldInGeneration'
  BY <1>1 DEF HistoryInv, HeldInGeneration
<1>5. QED
  BY <1>2, <1>3, <1>4
     DEF HistoryInv, SeededWithTranscript, HoldsKept, RemembersTurn, RemembersTranscript

LEMMA HistoryStep == QueueInv /\ SessionInv /\ HistoryInv /\ [Next]_vars => HistoryInv'
<1> SUFFICES ASSUME QueueInv, SessionInv, HistoryInv, [Next]_vars
             PROVE  HistoryInv'
  OBVIOUS
<1>1. ASSUME NEW c \in Calls, Caller(c) \/ Job(c)
      PROVE  HistoryInv'
  BY <1>1, HistoryCaller, HistoryKeeps, HistoryDiscards, HistoryTakes, HistoryRequest,
     HistoryAcquire, HistoryGenerate, HistoryCommit DEF Job
<1>2. ASSUME UNCHANGED <<messages, generation, pc, gen, owned, attempt, session, retained>>
      PROVE  HistoryInv'
  BY <1>2 DEF HistoryInv, HeldInGeneration, SeededWithTranscript, HoldsKept, RemembersTurn,
     RemembersTranscript, Quiet, OwnSession, CallsOf
<1>3. ASSUME NEW s \in Sessions, Provider(s)
      PROVE  HistoryInv'
  BY <1>2, <1>3 DEF Provider, CallFactory, SessionArrives, SessionFails, stateVars, callVars
<1>4. CASE UNCHANGED vars
  BY <1>2, <1>4 DEF vars, stateVars, callVars, sessionVars
<1>5. QED
  BY <1>1, <1>3, <1>4, HistoryRestart DEF Next

LEMMA HistoryInit == Init => HistoryInv
BY DEF Init, HistoryInv, HeldInGeneration, SeededWithTranscript, HoldsKept, RemembersTurn,
   RemembersTranscript, Holding

\* What a conversation's sessions remember, in every reachable state.
THEOREM HistoryInvariant == Spec => []HistoryInv
BY HistoryInit, HistoryStep, QueueInvariant, SessionInvariant, PTL DEF Spec

\* Between turns the kept native session remembers the committed turns and no
\* others, whatever was aborted, retried or reset before (session.mts).
THEOREM NativeHistoryKept == Spec => []NativeHistoryIsCommitted
<1>1. HistoryInv => NativeHistoryIsCommitted
  BY DEF HistoryInv, RemembersTranscript, Quiet, NativeHistoryIsCommitted
<1>2. QED
  BY <1>1, HistoryInvariant, PTL

\* A job that holds a session holds one that was delivered.
HeldWasDelivered ==
  \A c \in Calls : pc[c] \in Holding =>
    owned[c] \in Sessions /\ sessionStatus[owned[c]] \in {"live", "disposed"}

\* A session that was delivered stays so.
DeliveredStay ==
  \A s \in Sessions : sessionStatus[s] \in {"live", "disposed"} =>
    sessionStatus'[s] \in {"live", "disposed"}

LEMMA DiscardKeepsDelivered ==
  ASSUME SessionTypeOK, NEW s \in Sessions \cup {None}, Discard(s)
  PROVE  DeliveredStay
BY DEF DeliveredStay, Discard, SessionTypeOK

LEMMA DeliveredStep == QueueInv /\ SessionInv /\ HeldWasDelivered /\ [Next]_vars => HeldWasDelivered'
<1> SUFFICES ASSUME QueueInv, SessionInv, HeldWasDelivered, [Next]_vars
             PROVE  HeldWasDelivered'
  OBVIOUS
<1> USE DEF QueueInv, TypeOK, CallTypeOK, Holding
<1>1. ASSUME DeliveredStay,
             NEW c \in Calls, \A d \in Calls : d # c => pc'[d] = pc[d] /\ owned'[d] = owned[d],
             \/ pc'[c] \notin Holding
             \/ pc[c] \in Holding /\ owned'[c] = owned[c]
             \/ owned'[c] \in Sessions /\ sessionStatus'[owned'[c]] = "live"
      PROVE  HeldWasDelivered'
  BY <1>1 DEF HeldWasDelivered, DeliveredStay
<1>2. ASSUME UNCHANGED <<pc, owned>>, DeliveredStay
      PROVE  HeldWasDelivered'
  BY <1>2 DEF HeldWasDelivered, DeliveredStay
<1>3. UNCHANGED sessionStatus => DeliveredStay
  BY DEF DeliveredStay
<1>4. ASSUME NEW c \in Calls, Caller(c)
      PROVE  HeldWasDelivered'
  BY <1>1, <1>2, <1>3, <1>4 DEF Caller, Refuse, EnqueueConversation, Abort, CallerAborted, CallerReceives,
     stateVars, sessionVars
<1>5. ASSUME NEW c \in Calls, Job(c)
      PROVE  HeldWasDelivered'
  <2>0. owned[c] \in Sessions \cup {None} /\ OwnSession(c) \in Sessions
    BY SessionParts
  <2>1. CASE RejectTurn(c) \/ CancelJob(c) \/ ContextFails(c) \/ GenerationFails(c)
    <3>1. JobFails(c)
      BY <2>1 DEF RejectTurn, CancelJob, ContextFails, GenerationFails
    <3>2. DeliveredStay
      BY <2>0, <3>1, DiscardKeepsDelivered DEF JobFails
    <3>3. QED
      BY <1>1, <3>1, <3>2 DEF JobFails, Finish
  <2>2. CASE AbandonSession(c)
    <3>1. DeliveredStay
      BY <2>0, <2>2, DiscardKeepsDelivered DEF AbandonSession
    <3>2. QED
      BY <1>1, <2>2, <3>1 DEF AbandonSession, Finish
  <2>3. CASE RetryTurn(c)
    <3>1. DeliveredStay
      BY <2>0, <2>3, DiscardKeepsDelivered DEF RetryTurn
    <3>2. QED
      BY <1>1, <2>3, <3>1 DEF RetryTurn, Finish
  <2>4. CASE CommitTurn(c)
    <3>1. DeliveredStay
      BY <1>3, <2>0, <2>4, DiscardKeepsDelivered DEF CommitTurn
    <3>2. QED
      BY <1>1, <2>4, <3>1 DEF CommitTurn, Finish
  <2>5. CASE RequestSession(c)
    <3>1. sessionStatus[OwnSession(c)] = "none"
      BY <2>0, <2>5, SessionParts DEF RequestSession, Ready, SessionInv, NotYetRequested
    <3>2. DeliveredStay
      BY <2>0, <2>5, <3>1 DEF RequestSession, DeliveredStay, SessionTypeOK
    <3>3. QED
      BY <1>1, <2>5, <3>2 DEF RequestSession
  <2>6. CASE ReuseSession(c) \/ StartStatus(c)
    <3>1. session # None => session \in Sessions /\ sessionStatus[session] = "live"
      BY DEF SessionInv, KeptSessionIsUsable, SessionTypeOK
    <3>2. UNCHANGED <<session, sessionStatus>>
      BY <2>6 DEF ReuseSession, StartStatus, sessionVars
    <3>3. /\ pc'[c] = "done" \/ (session # None /\ owned'[c] = session)
          /\ \A d \in Calls : d # c => pc'[d] = pc[d] /\ owned'[d] = owned[d]
      <4>1. CASE ReuseSession(c)
        BY <4>1 DEF ReuseSession
      <4>2. CASE StartStatus(c)
        BY <4>2 DEF StartStatus, Finish
      <4>3. QED
        BY <2>6, <4>1, <4>2
    <3>4. QED
      BY <1>1, <1>3, <3>1, <3>2, <3>3
  <2>7. CASE AcquireSession(c)
    BY <1>1, <1>3, <2>0, <2>7 DEF AcquireSession
  <2>8. CASE FinishStatus(c) \/ Settle(c) \/ ContextPasses(c) \/ Generate(c)
    BY <1>1, <1>3, <2>8 DEF FinishStatus, Finish, Settle, ContextPasses, Generate, sessionVars
  <2>9. ASSUME NEW n \in ReplySizes, AcceptReply(c, n)
        PROVE  HeldWasDelivered'
    BY <1>1, <1>3, <2>9 DEF AcceptReply, sessionVars
  <2>10. QED
    BY <1>5, <2>1, <2>2, <2>3, <2>4, <2>5, <2>6, <2>7, <2>8, <2>9 DEF Job
<1>6. ASSUME NEW s \in Sessions, Provider(s)
      PROVE  HeldWasDelivered'
  <2>1. DeliveredStay
    BY <1>6 DEF Provider, CallFactory, SessionArrives, SessionFails, DeliveredStay, SessionTypeOK
  <2>2. QED
    BY <1>2, <1>6, <2>1 DEF Provider, CallFactory, SessionArrives, SessionFails, callVars
<1>7. ASSUME \/ \E t \in {Seed} \cup Restores : ResetConversationState(t)
             \/ DestroyConversationState
      PROVE  HeldWasDelivered'
  <2>1. Discard(session) /\ UNCHANGED <<pc, owned>>
    BY <1>7 DEF ResetConversationState, DestroyConversationState, callVars
  <2>2. DeliveredStay
    BY <2>1, DiscardKeepsDelivered DEF SessionTypeOK
  <2>3. QED
    BY <1>2, <2>1, <2>2
<1>8. CASE UNCHANGED vars
  BY <1>2, <1>3, <1>8 DEF vars, callVars, sessionVars
<1>9. QED
  BY <1>4, <1>5, <1>6, <1>7, <1>8 DEF Next

LEMMA DeliveredInvariant == Spec => []HeldWasDelivered
<1>1. Init => HeldWasDelivered
  BY DEF Init, HeldWasDelivered, Holding
<1>2. QED
  BY <1>1, DeliveredStep, QueueInvariant, SessionInvariant, PTL DEF Spec

\* A native turn prompts the live session that the conversation keeps.  A job
\* whose generation ended between its last look and its prompt reaches only a
\* session that was destroyed (runConversationTurn, session.mts).
THEOREM NativePromptsStayInGeneration == Spec => PromptsStayInGeneration
<1> DEFINE Prompted(c) ==
      (Mode = "native" /\ pc[c] = "checked" /\ pc'[c] = "generating")
        => IF gen[c] = generation
           THEN owned[c] = session /\ sessionStatus[session] = "live"
           ELSE sessionStatus[owned[c]] = "disposed"
<1>1. ASSUME QueueInv, SessionInv, HistoryInv, HeldWasDelivered, NEW c \in Calls,
             Mode = "native", pc[c] = "checked"
      PROVE  Prompted(c)
  <2>1. ASSUME gen[c] = generation
        PROVE  owned[c] = session /\ sessionStatus[session] = "live"
    <3>1. session # None /\ owned[c] = session
      BY <1>1, <2>1 DEF HistoryInv, HoldsKept, Holding
    <3>2. QED
      BY <1>1, <3>1 DEF SessionInv, KeptSessionIsUsable
  <2>2. ASSUME gen[c] # generation
        PROVE  sessionStatus[owned[c]] = "disposed"
    <3>1. owned[c] \in Sessions /\ sessionStatus[owned[c]] \in {"live", "disposed"}
      BY <1>1 DEF HeldWasDelivered, Holding
    <3>2. owned[c][1] \in Calls /\ owned[c] # None
      BY <3>1, SessionParts, ConversationAssumption
    <3>3. gen[owned[c][1]] = gen[c]
      BY <1>1, <3>2 DEF HistoryInv, HeldInGeneration
    <3>4. owned[c] # session
      BY <1>1, <2>2, <3>2, <3>3 DEF SessionInv, KeptSessionIsUsable
    <3>5. pc[owned[c][1]] # "creating"
      BY <1>1, <3>2, <3>3, OneRuns DEF QueueInv, InJob
    <3>6. Abandoned(owned[c])
      BY <3>5 DEF Abandoned
    <3>7. QED
      BY <1>1, <3>1, <3>4, <3>6 DEF SessionInv, NoSessionLeaks
  <2>3. QED
    BY <2>1, <2>2
<1>2. QueueInv /\ SessionInv /\ HistoryInv /\ HeldWasDelivered /\ [Next]_vars
        => \A c \in Calls : Prompted(c)
  BY <1>1
<1>3. QED
  BY <1>2, QueueInvariant, SessionInvariant, HistoryInvariant, DeliveredInvariant, PTL
     DEF Spec, PromptsStayInGeneration

----------------------------------------------------------------------------
(* The length of a transcript: the fold of conversationCharacters, element *)
(* by element, and the counters that stand for it between two commits.     *)

SizeStep(s) == [x \in (1 .. Len(s)) \X Nat |-> x[2] + s[x[1]].size]

LEMMA SizeStepType ==
  ASSUME NEW s \in Seq(Turns)
  PROVE  SizeStep(s) \in [(1 .. Len(s)) \X Nat -> Nat]
<1>1. ASSUME NEW i \in 1 .. Len(s)
      PROVE  s[i].size \in Nat
  <2>1. s[i] \in Turns
    OBVIOUS
  <2>2. QED
    BY <2>1 DEF Turns
<1>2. QED
  BY <1>1 DEF SizeStep

LEMMA CharactersAreFold ==
  ASSUME NEW s \in Seq(Turns)
  PROVE  ConversationCharacters(s) = FoldValue(Nat, 0, Len(s), SizeStep(s))
<1> DEFINE n == Len(s)
           Folded(g) == [t \in SUBSET (DOMAIN s) |->
                           IF t = {} THEN 0 ELSE g[t \ {Max(t)}] + s[Max(t)].size]
           iter == CHOOSE g : g = Folded(g)
           h == FoldFunctionUpTo(Nat, 0, n, SizeStep(s))
<1>1. ConversationCharacters(s) = iter[DOMAIN s]
  BY DEF ConversationCharacters, FoldLeft, MapThenFoldSet
<1>2. DOMAIN s = 1 .. n /\ n \in Nat
  OBVIOUS
<1>3. h \in [SUBSET (1 .. n) -> Nat] /\ FoldsUpTo(h, n, 0, SizeStep(s))
  BY <1>2, SizeStepType, FoldFunctionFolds
<1> HIDE DEF h, n
<1>4. ASSUME NEW t \in SUBSET (1 .. n), t # {}
      PROVE  h[t] = h[t \ {Max(t)}] + s[Max(t)].size
  <2>1. Max(t) \in 1 .. n /\ t \ {Max(t)} \in SUBSET (1 .. n)
    BY <1>2, <1>4, MaxOfInterval
  <2>2. h[t] = SizeStep(s)[<<Max(t), h[t \ {Max(t)}]>>]
    BY <1>3, <1>4 DEF FoldsUpTo
  <2>3. QED
    BY <1>3, <2>1, <2>2 DEF SizeStep, n
<1>5. h[{}] = 0
  BY <1>3 DEF FoldsUpTo
<1>6. h = Folded(h)
  BY <1>2, <1>3, <1>4, <1>5
<1>7. iter = Folded(iter)
  BY <1>6
<1> HIDE DEF iter
<1>8. iter[{}] = 0
  BY <1>2, <1>7
<1>9. \A t \in SUBSET (1 .. n) : t # {} => iter[t] = iter[t \ {Max(t)}] + s[Max(t)].size
  BY <1>2, <1>7
<1> DEFINE A == {t \in SUBSET (1 .. n) : iter[t] = h[t]}
<1>10. A \in SUBSET (SUBSET (1 .. n)) /\ {} \in A
  BY <1>5, <1>8
<1>11. \A t \in SUBSET (1 .. n) : t # {} /\ t \ {Max(t)} \in A => t \in A
  BY <1>4, <1>9
<1> HIDE DEF A
<1>12. A = SUBSET (1 .. n)
  BY <1>2, <1>10, <1>11, IndexInduction
<1>13. 1 .. n \in SUBSET (1 .. n)
  OBVIOUS
<1>14. iter[1 .. n] = h[1 .. n]
  BY <1>12, <1>13 DEF A
<1>15. QED
  BY <1>1, <1>2, <1>14 DEF FoldValue, h, n

LEMMA CharactersNothing == ConversationCharacters(<<>>) = 0
<1>1. <<>> \in Seq(Turns) /\ Len(<<>>) = 0 /\ 0 \in Nat
  OBVIOUS
<1>2. SizeStep(<<>>) \in [(1 .. 0) \X Nat -> Nat]
  BY <1>1, SizeStepType
<1>3. ConversationCharacters(<<>>) = FoldValue(Nat, 0, 0, SizeStep(<<>>))
  BY <1>1, CharactersAreFold
<1> DEFINE step == SizeStep(<<>>)
<1> HIDE DEF step
<1>4. FoldValue(Nat, 0, 0, step) = 0
  BY <1>1, <1>2, FoldNothing DEF step
<1>5. QED
  BY <1>3, <1>4 DEF step

LEMMA CharactersAppend ==
  ASSUME NEW s \in Seq(Turns), NEW turn \in Turns
  PROVE  ConversationCharacters(Append(s, turn)) = ConversationCharacters(s) + turn.size
<1> DEFINE n == Len(s)
           t == Append(s, turn)
<1>1. /\ n \in Nat /\ t \in Seq(Turns) /\ Len(t) = n + 1 /\ t[n + 1] = turn
      /\ \A i \in 1 .. n : t[i] = s[i]
  OBVIOUS
<1>2. SizeStep(s) \in [(1 .. n) \X Nat -> Nat]
  BY SizeStepType
<1> HIDE DEF n, t
<1>3. SizeStep(t) \in [(1 .. n + 1) \X Nat -> Nat]
  BY <1>1, SizeStepType
<1>4. \A i \in 1 .. n, v \in Nat : SizeStep(t)[<<i, v>>] = SizeStep(s)[<<i, v>>]
  <2> TAKE i \in 1 .. n, v \in Nat
  <2>1. i \in 1 .. n + 1
    BY <1>1
  <2>2. QED
    BY <1>1, <2>1 DEF SizeStep, n
<1>5. FoldValue(Nat, 0, n + 1, SizeStep(t))
        = SizeStep(t)[<<n + 1, FoldValue(Nat, 0, n, SizeStep(s))>>]
  <2>1. 0 \in Nat
    OBVIOUS
  <2>2. QED
    BY <1>1, <1>2, <1>3, <1>4, <2>1, FoldLast, ZenonT(60)
<1>6. FoldValue(Nat, 0, n, SizeStep(s)) \in Nat
  BY <1>1, <1>2, FoldType
<1>7. /\ ConversationCharacters(s) = FoldValue(Nat, 0, n, SizeStep(s))
      /\ ConversationCharacters(t) = FoldValue(Nat, 0, n + 1, SizeStep(t))
  BY <1>1, CharactersAreFold DEF n
<1>8. ConversationCharacters(t) = SizeStep(t)[<<n + 1, ConversationCharacters(s)>>]
  BY <1>5, <1>7
<1>9. n + 1 \in 1 .. n + 1
  BY <1>1
<1>10. QED
  BY <1>1, <1>6, <1>7, <1>8, <1>9 DEF SizeStep, t

\* The counters are those of the transcript.
CountersFit == turns = Len(messages) /\ characters = ConversationCharacters(messages)

LEMMA CountersCommit ==
  ASSUME QueueInv, CountersFit, NEW c \in Calls, CommitTurn(c)
  PROVE  CountersFit'
<1> DEFINE turn == [call |-> c, size |-> ContentSize[c] + reply[c]]
<1>1. c \in TurnCalls /\ messages \in Seq(Turns)
  BY DEF CommitTurn, QueueInv, OnlyTurnsGenerate, TypeOK, StateTypeOK
<1>2. ContentSize[c] \in Nat /\ reply[c] \in Nat /\ characters \in Nat /\ turns \in Nat
  BY <1>1, ConversationAssumption DEF QueueInv, TypeOK, CallTypeOK, StateTypeOK
<1>3. turn \in Turns /\ turn.size = ContentSize[c] + reply[c]
  BY <1>2 DEF Turns
<1>4. /\ messages' = Append(messages, turn) /\ turns' = turns + 1
      /\ characters' = characters + ContentSize[c] + reply[c]
  BY DEF CommitTurn
<1> HIDE DEF turn
<1>5. ConversationCharacters(messages') = characters + turn.size
  BY <1>1, <1>3, <1>4, CharactersAppend DEF CountersFit
<1>6. characters' = characters + turn.size
  BY <1>2, <1>3, <1>4
<1>7. turns' = Len(messages')
  BY <1>1, <1>3, <1>4 DEF CountersFit
<1>8. characters' = ConversationCharacters(messages')
  BY <1>5, <1>6
<1>9. QED
  BY <1>7, <1>8 DEF CountersFit

LEMMA CountersStep == QueueInv /\ CountersFit /\ [Next]_vars => CountersFit'
<1> SUFFICES ASSUME QueueInv, CountersFit, [Next]_vars
             PROVE  CountersFit'
  OBVIOUS
<1>1. ASSUME UNCHANGED <<messages, turns, characters>>
      PROVE  CountersFit'
  BY <1>1 DEF CountersFit
<1>2. ASSUME NEW c \in Calls, Caller(c)
      PROVE  CountersFit'
  BY <1>1, <1>2 DEF Caller, Refuse, EnqueueConversation, Abort, CallerAborted, CallerReceives,
     stateVars
<1>3. ASSUME NEW c \in Calls, Job(c)
      PROVE  CountersFit'
  BY <1>1, <1>3, CountersCommit
     DEF Job, RejectTurn, ReuseSession, RequestSession, AcquireSession, AbandonSession, StartStatus,
         FinishStatus, CancelJob, ContextFails, ContextPasses, Generate, GenerationFails, RetryTurn, AcceptReply,
         Settle, JobFails, stateVars
<1>4. ASSUME NEW s \in Sessions, Provider(s)
      PROVE  CountersFit'
  BY <1>1, <1>4 DEF Provider, CallFactory, SessionArrives, SessionFails, stateVars
<1>5. ASSUME NEW transcript, ResetConversationState(transcript)
      PROVE  CountersFit'
  BY <1>5 DEF ResetConversationState, CountersFit
<1>6. CASE DestroyConversationState
  <2>1. Len(<<>>) = 0
    OBVIOUS
  <2>2. QED
    BY <1>6, <2>1, CharactersNothing DEF DestroyConversationState, CountersFit
<1>7. CASE UNCHANGED vars
  BY <1>1, <1>7 DEF vars, stateVars
<1>8. QED
  BY <1>2, <1>3, <1>4, <1>5, <1>6, <1>7 DEF Next

\* The counters that the limits are compared with are those of the transcript
\* (state.turns and state.characters, of commit, reset and destroy).
THEOREM CountersInvariant == Spec => []CountersFit
<1>1. Init => CountersFit
  BY DEF Init, CountersFit
<1>2. QED
  BY <1>1, CountersStep, QueueInvariant, PTL DEF Spec

\* No transcript outgrows its limits, for any turns, replies and resets: what
\* is measured is the transcript itself, and not the counters that are compared
\* with the limits (runConversationTurn, session.mts).
THEOREM TranscriptsStayWithinLimits == Spec => []TranscriptWithinLimits
<1>1. QueueInv /\ CountersFit => TranscriptWithinLimits
  BY DEF QueueInv, TypeOK, StateTypeOK, CountersFit, TranscriptWithinLimits
<1>2. QED
  BY <1>1, QueueInvariant, CountersInvariant, PTL

----------------------------------------------------------------------------
(* The line of a queue: what the fold of Chosen makes of a queue that      *)
(* grows at its end, and of one that loses its head.                       *)

ChooseStep(s, P) ==
  [x \in (1 .. Len(s)) \X Seq(Calls) |-> IF s[x[1]] \in P THEN Append(x[2], s[x[1]]) ELSE x[2]]

LEMMA ChooseStepType ==
  ASSUME NEW s \in Seq(Calls), NEW P
  PROVE  ChooseStep(s, P) \in [(1 .. Len(s)) \X Seq(Calls) -> Seq(Calls)]
<1>1. ASSUME NEW i \in 1 .. Len(s), NEW v \in Seq(Calls)
      PROVE  (IF s[i] \in P THEN Append(v, s[i]) ELSE v) \in Seq(Calls)
  <2>1. s[i] \in Calls
    OBVIOUS
  <2>2. QED
    BY <2>1
<1>2. QED
  BY <1>1 DEF ChooseStep

LEMMA ChosenIsFold ==
  ASSUME NEW s \in Seq(Calls), NEW P
  PROVE  Chosen(s, P) = FoldValue(Seq(Calls), <<>>, Len(s), ChooseStep(s, P))
<1> DEFINE n == Len(s)
           Folded(g) == [t \in SUBSET (DOMAIN s) |->
                           IF t = {} THEN <<>>
                           ELSE IF s[Max(t)] \in P
                                THEN Append(g[t \ {Max(t)}], s[Max(t)]) ELSE g[t \ {Max(t)}]]
           iter == CHOOSE g : g = Folded(g)
           h == FoldFunctionUpTo(Seq(Calls), <<>>, n, ChooseStep(s, P))
<1>1. Chosen(s, P) = iter[DOMAIN s]
  BY DEF Chosen, FoldLeft, MapThenFoldSet
<1>2. DOMAIN s = 1 .. n /\ n \in Nat /\ <<>> \in Seq(Calls)
  OBVIOUS
<1>3. h \in [SUBSET (1 .. n) -> Seq(Calls)] /\ FoldsUpTo(h, n, <<>>, ChooseStep(s, P))
  BY <1>2, ChooseStepType, FoldFunctionFolds
<1> HIDE DEF h, n
<1>4. ASSUME NEW t \in SUBSET (1 .. n), t # {}
      PROVE  h[t] = IF s[Max(t)] \in P
                    THEN Append(h[t \ {Max(t)}], s[Max(t)]) ELSE h[t \ {Max(t)}]
  <2>1. Max(t) \in 1 .. n /\ t \ {Max(t)} \in SUBSET (1 .. n)
    BY <1>2, <1>4, MaxOfInterval
  <2>2. h[t] = ChooseStep(s, P)[<<Max(t), h[t \ {Max(t)}]>>]
    BY <1>3, <1>4 DEF FoldsUpTo
  <2>3. QED
    BY <1>3, <2>1, <2>2 DEF ChooseStep, n
<1>5. h[{}] = <<>>
  BY <1>3 DEF FoldsUpTo
<1>6. h = Folded(h)
  BY <1>2, <1>3, <1>4, <1>5
<1>7. iter = Folded(iter)
  BY <1>6
<1> HIDE DEF iter
<1>8. iter[{}] = <<>>
  BY <1>2, <1>7
<1>9. \A t \in SUBSET (1 .. n) : t # {} =>
        iter[t] = IF s[Max(t)] \in P
                  THEN Append(iter[t \ {Max(t)}], s[Max(t)]) ELSE iter[t \ {Max(t)}]
  BY <1>2, <1>7
<1> DEFINE A == {t \in SUBSET (1 .. n) : iter[t] = h[t]}
<1>10. A \in SUBSET (SUBSET (1 .. n)) /\ {} \in A
  BY <1>5, <1>8
<1>11. \A t \in SUBSET (1 .. n) : t # {} /\ t \ {Max(t)} \in A => t \in A
  BY <1>4, <1>9
<1> HIDE DEF A
<1>12. A = SUBSET (1 .. n)
  BY <1>2, <1>10, <1>11, IndexInduction
<1>13. 1 .. n \in SUBSET (1 .. n)
  OBVIOUS
<1>14. iter[1 .. n] = h[1 .. n]
  BY <1>12, <1>13 DEF A
<1>15. QED
  BY <1>1, <1>2, <1>14 DEF FoldValue, h, n

LEMMA ChosenNothing == \A P : Chosen(<<>>, P) = <<>>
<1> TAKE P
<1>1. <<>> \in Seq(Calls) /\ Len(<<>>) = 0
  OBVIOUS
<1>2. Chosen(<<>>, P) = FoldValue(Seq(Calls), <<>>, 0, ChooseStep(<<>>, P))
  BY <1>1, ChosenIsFold
<1>3. ChooseStep(<<>>, P) \in [(1 .. 0) \X Seq(Calls) -> Seq(Calls)]
  BY <1>1, ChooseStepType
<1> DEFINE step == ChooseStep(<<>>, P)
<1> HIDE DEF step
<1>4. FoldValue(Seq(Calls), <<>>, 0, step) = <<>>
  BY <1>1, <1>3, FoldNothing DEF step
<1>5. QED
  BY <1>2, <1>4 DEF step

LEMMA ChosenType ==
  ASSUME NEW s \in Seq(Calls), NEW P
  PROVE  Chosen(s, P) \in Seq(Calls)
<1>1. Len(s) \in Nat /\ <<>> \in Seq(Calls)
  OBVIOUS
<1>2. ChooseStep(s, P) \in [(1 .. Len(s)) \X Seq(Calls) -> Seq(Calls)]
  BY ChooseStepType
<1>3. FoldValue(Seq(Calls), <<>>, Len(s), ChooseStep(s, P)) \in Seq(Calls)
  BY <1>1, <1>2, FoldType
<1>4. QED
  BY <1>3, ChosenIsFold

LEMMA ChosenAppend ==
  ASSUME NEW s \in Seq(Calls), NEW c \in Calls, NEW P
  PROVE  Chosen(Append(s, c), P) = IF c \in P THEN Append(Chosen(s, P), c) ELSE Chosen(s, P)
<1> DEFINE n == Len(s)
           t == Append(s, c)
<1>1. /\ n \in Nat /\ t \in Seq(Calls) /\ Len(t) = n + 1 /\ t[n + 1] = c
      /\ \A i \in 1 .. n : t[i] = s[i]
  OBVIOUS
<1>2. ChooseStep(s, P) \in [(1 .. n) \X Seq(Calls) -> Seq(Calls)]
  BY ChooseStepType
<1> HIDE DEF n, t
<1>3. ChooseStep(t, P) \in [(1 .. n + 1) \X Seq(Calls) -> Seq(Calls)]
  BY <1>1, ChooseStepType
<1>4. \A i \in 1 .. n, v \in Seq(Calls) : ChooseStep(t, P)[<<i, v>>] = ChooseStep(s, P)[<<i, v>>]
  <2> TAKE i \in 1 .. n, v \in Seq(Calls)
  <2>1. i \in 1 .. n + 1
    BY <1>1
  <2>2. QED
    BY <1>1, <2>1 DEF ChooseStep, n
<1>5. FoldValue(Seq(Calls), <<>>, n + 1, ChooseStep(t, P))
        = ChooseStep(t, P)[<<n + 1, FoldValue(Seq(Calls), <<>>, n, ChooseStep(s, P))>>]
  <2>1. <<>> \in Seq(Calls)
    OBVIOUS
  <2>2. QED
    BY <1>1, <1>2, <1>3, <1>4, <2>1, FoldLast, ZenonT(60)
<1>6. /\ Chosen(s, P) = FoldValue(Seq(Calls), <<>>, n, ChooseStep(s, P))
      /\ Chosen(t, P) = FoldValue(Seq(Calls), <<>>, n + 1, ChooseStep(t, P))
      /\ Chosen(s, P) \in Seq(Calls)
  BY <1>1, ChosenIsFold, ChosenType DEF n
<1>7. Chosen(t, P) = ChooseStep(t, P)[<<n + 1, Chosen(s, P)>>]
  BY <1>5, <1>6
<1>8. n + 1 \in 1 .. n + 1
  BY <1>1
<1>9. QED
  BY <1>1, <1>6, <1>7, <1>8 DEF ChooseStep, t

\* Only the members of the queue matter.
LEMMA ChosenAgree ==
  ASSUME NEW s \in Seq(Calls), NEW P, NEW Q,
         \A i \in 1 .. Len(s) : s[i] \in P <=> s[i] \in Q
  PROVE  Chosen(s, P) = Chosen(s, Q)
<1>1. ChooseStep(s, P) = ChooseStep(s, Q)
  BY DEF ChooseStep
<1>2. QED
  BY <1>1, ChosenIsFold

LEMMA ChosenHead ==
  ASSUME NEW s \in Seq(Calls), s # <<>>, NEW P
  PROVE  Chosen(s, P) = IF Head(s) \in P
                        THEN <<Head(s)>> \o Chosen(Tail(s), P) ELSE Chosen(Tail(s), P)
<1> DEFINE Split(t) == Chosen(t, P) = IF Head(t) \in P
                                      THEN <<Head(t)>> \o Chosen(Tail(t), P)
                                      ELSE Chosen(Tail(t), P)
           Good(n) == \A t \in Seq(Calls) : Len(t) = n + 1 => Split(t)
           S == {n \in Nat : Good(n)}
<1>1. 0 \in S
  <2>1. ASSUME NEW t \in Seq(Calls), Len(t) = 0 + 1
        PROVE  Split(t)
    <3>1. t # <<>> /\ <<>> \in Seq(Calls)
      BY <2>1
    <3>2. PICK f \in Seq(Calls), c \in Calls : t = Append(f, c)
      BY <3>1, SequenceEmptyOrAppend
    <3>3. f = <<>>
      <4>1. Len(f) = 0
        BY <2>1, <3>2
      <4>2. QED
        BY <4>1, EmptySeq
    <3>4. Head(t) = c /\ Tail(t) = <<>>
      BY <3>2, <3>3, HeadTailAppend
    <3>5. Chosen(Append(<<>>, c), P) = IF c \in P THEN Append(Chosen(<<>>, P), c)
                                       ELSE Chosen(<<>>, P)
      BY <3>1, ChosenAppend
    <3>6. Chosen(<<>>, P) = <<>>
      BY ChosenNothing
    <3>7. Append(<<>>, c) = <<c>> \o <<>>
      OBVIOUS
    <3>8. QED
      BY <3>2, <3>3, <3>4, <3>5, <3>6, <3>7
  <2> HIDE DEF Split
  <2>2. Good(0)
    BY <2>1
  <2> HIDE DEF Good
  <2>3. QED
    BY <2>2
<1>2. ASSUME NEW n \in S
      PROVE  n + 1 \in S
  <2> HIDE DEF Split
  <2>1. n \in Nat /\ Good(n)
    OBVIOUS
  <2> HIDE DEF S
  <2>2. ASSUME NEW t \in Seq(Calls), Len(t) = (n + 1) + 1
        PROVE  Split(t)
    <3>1. t # <<>>
      BY <2>1, <2>2
    <3>2. PICK f \in Seq(Calls), x \in Calls : t = Append(f, x)
      BY <3>1, SequenceEmptyOrAppend
    <3>3. Len(f) = n + 1
      BY <2>1, <2>2, <3>2
    <3>4. f # <<>> /\ Head(f) \in Calls /\ Tail(f) \in Seq(Calls)
      <4>1. f # <<>>
        BY <2>1, <3>3
      <4>2. QED
        BY <4>1, HeadTailProperties
    <3>5. Head(t) = Head(f) /\ Tail(t) = Append(Tail(f), x)
      BY <3>2, <3>4, HeadTailAppend
    <3>6. Split(f)
      BY <2>1, <3>3
    <3>7. /\ Chosen(t, P) = IF x \in P THEN Append(Chosen(f, P), x) ELSE Chosen(f, P)
          /\ Chosen(Tail(t), P) = IF x \in P THEN Append(Chosen(Tail(f), P), x)
                                  ELSE Chosen(Tail(f), P)
      <4>1. Chosen(Append(f, x), P) = IF x \in P THEN Append(Chosen(f, P), x) ELSE Chosen(f, P)
        BY ChosenAppend
      <4> DEFINE u == Tail(f)
      <4>2. u \in Seq(Calls)
        BY <3>4
      <4> HIDE DEF u
      <4>3. Chosen(Append(u, x), P) = IF x \in P THEN Append(Chosen(u, P), x) ELSE Chosen(u, P)
        BY <4>2, ChosenAppend
      <4>4. QED
        BY <3>2, <3>5, <4>1, <4>3 DEF u
    <3>8. Chosen(f, P) = IF Head(f) \in P
                         THEN <<Head(f)>> \o Chosen(Tail(f), P) ELSE Chosen(Tail(f), P)
      BY <3>6 DEF Split
    <3> DEFINE w == Chosen(Tail(f), P)
    <3>9. w \in Seq(Calls)
      BY <3>4, ChosenType
    <3> HIDE DEF w
    <3>10. Append(<<Head(f)>> \o w, x) = <<Head(f)>> \o Append(w, x)
      <4> DEFINE one == <<Head(f)>>
      <4>1. one \in Seq(Calls)
        BY <3>4
      <4> HIDE DEF one
      <4>2. Append(one \o w, x) = (one \o w) \o <<x>> /\ Append(w, x) = w \o <<x>>
        BY <3>9, <4>1, AppendIsConcat, ConcatProperties
      <4>3. <<x>> \in Seq(Calls)
        OBVIOUS
      <4>4. QED
        BY <3>9, <4>1, <4>2, <4>3, ConcatAssociative DEF one
    <3>11. QED
      BY <3>5, <3>7, <3>8, <3>10 DEF Split, w
  <2>3. Good(n + 1)
    BY <2>2
  <2> HIDE DEF Good
  <2>4. QED
    BY <2>1, <2>3 DEF S
<1>3. S = Nat
  <2> HIDE DEF Good
  <2>1. S \in SUBSET Nat
    OBVIOUS
  <2> HIDE DEF S
  <2>2. QED
    BY <1>1, <1>2, <2>1, SetInduction
<1>4. Len(s) - 1 \in Nat /\ Len(s) = (Len(s) - 1) + 1
  <2>1. Len(s) \in Nat /\ Len(s) # 0
    BY EmptySeq
  <2>2. QED
    BY <2>1
<1>5. Good(Len(s) - 1)
  <2> HIDE DEF Good
  <2>1. Len(s) - 1 \in S
    BY <1>3, <1>4
  <2>2. QED
    BY <2>1
<1>6. Split(s)
  <2> HIDE DEF Split
  <2>1. QED
    BY <1>4, <1>5
<1>7. QED
  BY <1>6

----------------------------------------------------------------------------
(* The queue of every generation: each of its calls is in it once, and no  *)
(* call is in the queue of a generation that is still to come.             *)

InQueue == {"queued", "done"} \cup Started

QueuedOnce ==
  \A g \in Generations : \A i, j \in 1 .. Len(chain[g]) : chain[g][i] = chain[g][j] => i = j

QueueOfGeneration ==
  \A g \in Generations : \A i \in 1 .. Len(chain[g]) :
    gen[chain[g][i]] = g /\ pc[chain[g][i]] \in InQueue

FutureIsEmpty == \A g \in Generations : g > generation => chain[g] = <<>>

\* What is reserved is the turns of the queue, in their order.
PendingIsQueued == pendingTurns = Len(Chosen(chain[generation], TurnCalls))

LineInv == QueuedOnce /\ QueueOfGeneration /\ FutureIsEmpty /\ PendingIsQueued

LEMMA QueueTypes ==
  ASSUME TypeOK
  PROVE  /\ \A g \in Generations : chain[g] \in Seq(Calls) /\ Len(chain[g]) \in Nat
         /\ generation \in Generations /\ \A c \in Calls : gen[c] \in Generations
         /\ \A g \in Generations : \A i \in 1 .. Len(chain[g]) : chain[g][i] \in Calls
BY DEF TypeOK, StateTypeOK, CallTypeOK

LEMMA LineInit == Init => LineInv
<1> SUFFICES ASSUME Init
             PROVE  LineInv
  OBVIOUS
<1>1. Len(<<>>) = 0 /\ \A g \in Generations : chain[g] = <<>>
  BY DEF Init
<1>2. generation = 0 /\ 0 \in Generations
  BY ConversationAssumption DEF Init, Generations
<1>3. PendingIsQueued
  BY <1>1, <1>2, ChosenNothing DEF Init, PendingIsQueued
<1>4. QED
  BY <1>1, <1>3 DEF LineInv, QueuedOnce, QueueOfGeneration, FutureIsEmpty

LEMMA LineKeeps ==
  ASSUME TypeOK, LineInv, UNCHANGED <<generation, pendingTurns, chain, gen>>,
         \A d \in Calls : pc[d] \in InQueue => pc'[d] \in InQueue
  PROVE  LineInv'
<1>1. QueueOfGeneration'
  BY QueueTypes DEF LineInv, QueueOfGeneration
<1>2. QED
  BY <1>1 DEF LineInv, QueuedOnce, FutureIsEmpty, PendingIsQueued

LEMMA LineEnqueue ==
  ASSUME QueueInv, LineInv, NEW c \in Calls, EnqueueConversation(c)
  PROVE  LineInv'
<1> DEFINE s == chain[generation]
<1>1. /\ pc[c] = "idle" /\ UNCHANGED generation
      /\ pc' = [pc EXCEPT ![c] = "queued"] /\ gen' = [gen EXCEPT ![c] = generation]
      /\ chain' = [chain EXCEPT ![generation] = Append(s, c)]
      /\ pendingTurns' = IF c \in TurnCalls THEN pendingTurns + 1 ELSE pendingTurns
  BY DEF EnqueueConversation
<1>2. /\ generation \in Generations /\ s \in Seq(Calls) /\ Len(s) \in Nat
      /\ \A g \in Generations : \A i \in 1 .. Len(chain[g]) : chain[g][i] \in Calls
  BY QueueTypes DEF QueueInv
<1>3. /\ chain'[generation] = Append(s, c)
      /\ \A g \in Generations : g # generation => chain'[g] = chain[g]
  BY <1>1, <1>2 DEF QueueInv, TypeOK, CallTypeOK
<1>4. \A g \in Generations : \A i \in 1 .. Len(chain[g]) : chain[g][i] # c
  BY <1>1 DEF LineInv, QueueOfGeneration, InQueue, Started
<1>5. /\ pc'[c] = "queued" /\ gen'[c] = generation
      /\ \A d \in Calls : d # c => pc'[d] = pc[d] /\ gen'[d] = gen[d]
  BY <1>1 DEF QueueInv, TypeOK, CallTypeOK
<1> DEFINE t == Append(s, c)
<1>6. Len(t) = Len(s) + 1 /\ t[Len(s) + 1] = c /\ \A i \in 1 .. Len(s) : t[i] = s[i]
  BY <1>2
<1>7. \A i \in 1 .. Len(s) + 1 : i \in 1 .. Len(s) \/ i = Len(s) + 1
  BY <1>2
<1> HIDE DEF t
<1>8. QueuedOnce'
  <2>1. \A i, j \in 1 .. Len(t) : t[i] = t[j] => i = j
    BY <1>2, <1>4, <1>6, <1>7 DEF LineInv, QueuedOnce
  <2>2. QED
    BY <1>3, <2>1 DEF t, LineInv, QueuedOnce
<1>9. QueueOfGeneration'
  <2>1. \A i \in 1 .. Len(t) : gen'[t[i]] = generation /\ pc'[t[i]] \in InQueue
    <3> TAKE i \in 1 .. Len(t)
    <3>1. CASE i \in 1 .. Len(s)
      BY <1>2, <1>4, <1>5, <1>6, <3>1 DEF LineInv, QueueOfGeneration
    <3>2. CASE i = Len(s) + 1
      BY <1>5, <1>6, <3>2 DEF InQueue
    <3>3. QED
      BY <1>6, <1>7, <3>1, <3>2
  <2>2. \A g \in Generations : g # generation =>
          \A i \in 1 .. Len(chain[g]) : gen'[chain[g][i]] = g /\ pc'[chain[g][i]] \in InQueue
    BY <1>2, <1>4, <1>5 DEF LineInv, QueueOfGeneration
  <2>3. QED
    BY <1>3, <2>1, <2>2 DEF t, QueueOfGeneration
<1>10. FutureIsEmpty'
  <2>1. generation \in Nat
    BY <1>2, ConversationAssumption DEF Generations
  <2>2. QED
    BY <1>1, <1>3, <2>1 DEF LineInv, FutureIsEmpty
<1>11. PendingIsQueued'
  <2>1. Chosen(t, TurnCalls) = IF c \in TurnCalls THEN Append(Chosen(s, TurnCalls), c)
                               ELSE Chosen(s, TurnCalls)
    BY <1>2, ChosenAppend DEF t
  <2> DEFINE l == Chosen(s, TurnCalls)
  <2>2. l \in Seq(Calls) /\ pendingTurns = Len(l)
    BY <1>2, ChosenType DEF LineInv, PendingIsQueued
  <2> HIDE DEF l
  <2>3. Len(Append(l, c)) = Len(l) + 1
    BY <2>2
  <2>4. chain'[generation'] = t
    BY <1>1, <1>3 DEF t
  <2>5. pendingTurns' = Len(Chosen(t, TurnCalls))
    BY <1>1, <2>1, <2>2, <2>3 DEF l
  <2>6. QED
    BY <2>4, <2>5 DEF PendingIsQueued
<1>12. QED
  BY <1>8, <1>9, <1>10, <1>11 DEF LineInv

\* A job that has ended is the first of its queue, and in it once.
LEMMA QueueHead ==
  ASSUME QueueInv, LineInv, NEW c \in Calls, InJob(c) \/ pc[c] = "done"
  PROVE  /\ chain[gen[c]] \in Seq(Calls) /\ chain[gen[c]] # <<>> /\ Head(chain[gen[c]]) = c
         /\ Tail(chain[gen[c]]) \in Seq(Calls) /\ Len(chain[gen[c]]) \in Nat
         /\ Len(Tail(chain[gen[c]])) = Len(chain[gen[c]]) - 1
         /\ \A i \in 1 .. Len(Tail(chain[gen[c]])) :
              /\ Tail(chain[gen[c]])[i] = chain[gen[c]][i + 1]
              /\ i + 1 \in 1 .. Len(chain[gen[c]])
              /\ chain[gen[c]][i + 1] # c
<1> DEFINE s == chain[gen[c]]
<1>1. s \in Seq(Calls) /\ Len(s) \in Nat /\ gen[c] \in Generations
  BY QueueTypes DEF QueueInv
<1>2. s # <<>> /\ Head(s) = c
  BY DEF QueueInv, JobIsHead
<1>3. \A i, j \in 1 .. Len(s) : s[i] = s[j] => i = j
  BY <1>1 DEF LineInv, QueuedOnce
<1> HIDE DEF s
<1>4. /\ Tail(s) \in Seq(Calls) /\ Len(Tail(s)) = Len(s) - 1
      /\ \A i \in 1 .. Len(Tail(s)) : Tail(s)[i] = s[i + 1]
  BY <1>1, <1>2, HeadTailProperties
<1>5. s[1] = c /\ 1 \in 1 .. Len(s)
  <2>1. Len(s) # 0
    BY <1>1, <1>2, EmptySeq
  <2>2. QED
    BY <1>1, <1>2, <2>1
<1>6. \A i \in 1 .. Len(Tail(s)) : i + 1 \in 1 .. Len(s) /\ i + 1 # 1
  BY <1>1, <1>4
<1>7. \A i \in 1 .. Len(Tail(s)) : s[i + 1] # c
  BY <1>3, <1>5, <1>6
<1>8. QED
  BY <1>1, <1>2, <1>4, <1>6, <1>7 DEF s

LEMMA LineSettle ==
  ASSUME QueueInv, LineInv, NEW c \in Calls, Settle(c)
  PROVE  LineInv'
<1> DEFINE s == chain[gen[c]]
           t == Tail(s)
<1>1. /\ pc[c] = "done" /\ UNCHANGED <<generation, gen>>
      /\ pc' = [pc EXCEPT ![c] = "settled"] /\ chain' = [chain EXCEPT ![gen[c]] = t]
      /\ pendingTurns' = IF HoldsReservation(c) THEN pendingTurns - 1 ELSE pendingTurns
  BY DEF Settle, TailAfter
<1>2. /\ s \in Seq(Calls) /\ s # <<>> /\ Head(s) = c /\ t \in Seq(Calls) /\ Len(s) \in Nat
      /\ Len(t) = Len(s) - 1
      /\ \A i \in 1 .. Len(t) : t[i] = s[i + 1] /\ i + 1 \in 1 .. Len(s) /\ s[i + 1] # c
  BY <1>1, QueueHead
<1>3. /\ generation \in Generations /\ gen[c] \in Generations
      /\ \A g \in Generations : \A i \in 1 .. Len(chain[g]) : chain[g][i] \in Calls
  BY QueueTypes DEF QueueInv
<1>4. chain'[gen[c]] = t /\ \A g \in Generations : g # gen[c] => chain'[g] = chain[g]
  BY <1>1, <1>3 DEF QueueInv, TypeOK, CallTypeOK
<1>5. \A d \in Calls : d # c => pc'[d] = pc[d]
  BY <1>1 DEF QueueInv, TypeOK, CallTypeOK
<1> HIDE DEF t
<1>6. QueuedOnce'
  <2>1. \A i, j \in 1 .. Len(t) : t[i] = t[j] => i = j
    <3> TAKE i, j \in 1 .. Len(t)
    <3> HAVE t[i] = t[j]
    <3>1. i + 1 = j + 1
      BY <1>2, <1>3 DEF LineInv, QueuedOnce
    <3>2. QED
      BY <3>1
  <2>2. QED
    BY <1>4, <2>1 DEF LineInv, QueuedOnce
<1>7. QueueOfGeneration'
  <2>1. \A i \in 1 .. Len(t) : gen'[t[i]] = gen[c] /\ pc'[t[i]] \in InQueue
    <3> TAKE i \in 1 .. Len(t)
    <3>1. t[i] = s[i + 1] /\ i + 1 \in 1 .. Len(s) /\ t[i] # c /\ t[i] \in Calls
      BY <1>2
    <3>2. gen[t[i]] = gen[c] /\ pc[t[i]] \in InQueue
      BY <1>3, <3>1 DEF LineInv, QueueOfGeneration
    <3>3. QED
      BY <1>1, <1>5, <3>1, <3>2
  <2>2. \A g \in Generations : g # gen[c] =>
          \A i \in 1 .. Len(chain[g]) : gen[chain[g][i]] = g /\ pc'[chain[g][i]] \in InQueue
    BY <1>3, <1>5 DEF LineInv, QueueOfGeneration
  <2>3. QED
    BY <1>1, <1>4, <2>1, <2>2 DEF QueueOfGeneration
<1>8. FutureIsEmpty'
  <2>1. ~(gen[c] > generation)
    BY <1>2, <1>3 DEF LineInv, FutureIsEmpty
  <2>2. QED
    BY <1>1, <1>4, <2>1 DEF LineInv, FutureIsEmpty
<1>9. PendingIsQueued'
  <2>1. CASE gen[c] = generation
    <3>1. Chosen(s, TurnCalls) = IF c \in TurnCalls THEN <<c>> \o Chosen(t, TurnCalls)
                                 ELSE Chosen(t, TurnCalls)
      <4>1. s \in Seq(Calls) /\ s # <<>> /\ Head(s) = c /\ Tail(s) = t
        BY <1>2 DEF t
      <4>2. QED
        BY <4>1, ChosenHead, ZenonT(60)
    <3> DEFINE l == Chosen(t, TurnCalls)
    <3>2. l \in Seq(Calls)
      BY <1>2, ChosenType
    <3> HIDE DEF l
    <3>3. Len(<<c>> \o l) = 1 + Len(l) /\ Len(l) \in Nat
      BY <3>2
    <3>4. pendingTurns = Len(Chosen(s, TurnCalls))
      BY <2>1 DEF LineInv, PendingIsQueued
    <3>5. pendingTurns' = Len(l)
      BY <1>1, <2>1, <3>1, <3>3, <3>4 DEF HoldsReservation, l
    <3>6. chain'[generation'] = t
      BY <1>1, <1>4, <2>1
    <3>7. QED
      BY <3>5, <3>6 DEF PendingIsQueued, l
  <2>2. CASE gen[c] # generation
    BY <1>1, <1>3, <1>4, <2>2 DEF LineInv, PendingIsQueued, HoldsReservation
  <2>3. QED
    BY <2>1, <2>2
<1>10. QED
  BY <1>6, <1>7, <1>8, <1>9 DEF LineInv

\* A new generation begins with an empty queue.
LEMMA LineRestart ==
  ASSUME QueueInv, LineInv, generation' = generation + 1, pendingTurns' = 0, ~closed,
         UNCHANGED <<chain, pc, gen>>
  PROVE  LineInv' /\ chain'[generation'] = <<>>
<1>1. generation \in Nat /\ generation + 1 \in Generations /\ Len(<<>>) = 0
  BY ConversationAssumption DEF QueueInv, TypeOK, StateTypeOK, Generations
<1>2. chain'[generation'] = <<>>
  BY <1>1 DEF LineInv, FutureIsEmpty
<1>3. PendingIsQueued'
  BY <1>1, <1>2, ChosenNothing DEF PendingIsQueued
<1>4. FutureIsEmpty'
  <2>1. \A g \in Generations : g \in Nat
    BY ConversationAssumption DEF Generations
  <2>2. QED
    BY <1>1, <2>1 DEF LineInv, FutureIsEmpty
<1>5. QED
  BY <1>2, <1>3, <1>4 DEF LineInv, QueuedOnce, QueueOfGeneration

LEMMA LineStep == QueueInv /\ LineInv /\ [Next]_vars => LineInv'
<1> SUFFICES ASSUME QueueInv, LineInv, [Next]_vars
             PROVE  LineInv'
  OBVIOUS
<1>0. TypeOK
  BY DEF QueueInv
<1>1. ASSUME UNCHANGED <<generation, pendingTurns, chain, gen, pc>>
      PROVE  LineInv'
  BY <1>0, <1>1, LineKeeps
<1>2. ASSUME NEW c \in Calls, Caller(c)
      PROVE  LineInv'
  <2>1. CASE Refuse(c)
    <3>1. \A d \in Calls : pc[d] \in InQueue => pc'[d] \in InQueue
      BY <1>0, <2>1 DEF Refuse, InQueue, Started, TypeOK, CallTypeOK
    <3>2. QED
      BY <1>0, <2>1, <3>1, LineKeeps DEF Refuse, stateVars
  <2>2. CASE Abort(c) \/ CallerAborted(c) \/ CallerReceives(c)
    BY <1>1, <2>2 DEF Abort, CallerAborted, CallerReceives, stateVars
  <2>3. QED
    BY <1>2, <2>1, <2>2, LineEnqueue DEF Caller
<1>3. ASSUME NEW c \in Calls, Job(c), ~Settle(c)
      PROVE  LineInv'
  <2>1. \A d \in Calls : pc[d] \in InQueue => pc'[d] \in InQueue
    BY <1>0, <1>3, JobShape DEF InQueue
  <2>2. QED
    BY <1>0, <1>3, <2>1, JobShape, LineKeeps
<1>4. ASSUME NEW s \in Sessions, Provider(s)
      PROVE  LineInv'
  BY <1>1, <1>4 DEF Provider, CallFactory, SessionArrives, SessionFails, stateVars, callVars
<1>5. ASSUME \/ \E t \in {Seed} \cup Restores : ResetConversationState(t)
             \/ DestroyConversationState
      PROVE  LineInv'
  BY <1>5, LineRestart DEF ResetConversationState, DestroyConversationState, callVars
<1>6. CASE UNCHANGED vars
  BY <1>1, <1>6 DEF vars, stateVars, callVars
<1>7. QED
  BY <1>2, <1>3, <1>4, <1>5, <1>6, LineSettle DEF Next

\* What every queue holds, in every reachable state.
THEOREM LineInvariant == Spec => []LineInv
BY LineInit, LineStep, QueueInvariant, PTL DEF Spec

----------------------------------------------------------------------------
(* Nobody in a queue waits for nothing.                                    *)

\* A call stands in the queue of its generation until it has settled.
InItsQueue ==
  \A c \in Calls : pc[c] \in InQueue =>
    \E i \in 1 .. Len(chain[gen[c]]) : chain[gen[c]][i] = c

\* Nobody takes away the session that a job of this generation waits for.
AskedFor ==
  \A c \in Calls : (pc[c] = "creating" /\ gen[c] = generation) =>
    sessionStatus[OwnSession(c)] \in {"requested", "creating", "live", "failed"}

WaitInv == InItsQueue /\ AskedFor /\ HoldsKept

\* A queue that grows at its end or stays keeps who is in it.
LEMMA InItsQueueKept ==
  ASSUME InItsQueue,
         \A d \in Calls : pc'[d] \in InQueue =>
           /\ pc[d] \in InQueue /\ gen'[d] = gen[d]
           /\ \A i \in 1 .. Len(chain[gen[d]]) :
                i \in 1 .. Len(chain'[gen[d]]) /\ chain'[gen[d]][i] = chain[gen[d]][i]
  PROVE  InItsQueue'
<1> SUFFICES ASSUME NEW d \in Calls, pc'[d] \in InQueue
             PROVE  \E i \in 1 .. Len(chain'[gen'[d]]) : chain'[gen'[d]][i] = d
  BY DEF InItsQueue, InQueue, Started
<1>1. PICK i \in 1 .. Len(chain[gen[d]]) : chain[gen[d]][i] = d
  BY DEF InItsQueue
<1>2. i \in 1 .. Len(chain'[gen[d]]) /\ chain'[gen[d]][i] = d /\ gen'[d] = gen[d]
  BY <1>1
<1> QED
  BY <1>2

LEMMA InItsQueueEnqueue ==
  ASSUME QueueInv, InItsQueue, NEW c \in Calls, EnqueueConversation(c)
  PROVE  InItsQueue'
<1> DEFINE s == chain[generation]
           t == Append(s, c)
<1>1. /\ pc' = [pc EXCEPT ![c] = "queued"] /\ gen' = [gen EXCEPT ![c] = generation]
      /\ chain' = [chain EXCEPT ![generation] = t]
  BY DEF EnqueueConversation
<1>2. generation \in Generations /\ s \in Seq(Calls) /\ Len(s) \in Nat
  BY QueueTypes DEF QueueInv
<1>3. Len(t) = Len(s) + 1 /\ t[Len(s) + 1] = c /\ \A i \in 1 .. Len(s) : t[i] = s[i]
  BY <1>2
<1>4. /\ chain'[generation] = t /\ \A g \in Generations : g # generation => chain'[g] = chain[g]
      /\ gen'[c] = generation
      /\ \A d \in Calls : gen[d] \in Generations
      /\ \A d \in Calls : d # c => pc'[d] = pc[d] /\ gen'[d] = gen[d]
  BY <1>1, <1>2 DEF QueueInv, TypeOK, CallTypeOK
<1> HIDE DEF t
<1> SUFFICES ASSUME NEW d \in Calls, pc'[d] \in InQueue
             PROVE  \E i \in 1 .. Len(chain'[gen'[d]]) : chain'[gen'[d]][i] = d
  BY DEF InItsQueue, InQueue, Started
<1>5. CASE d = c
  <2>1. Len(s) + 1 \in 1 .. Len(t)
    BY <1>2, <1>3
  <2>2. QED
    BY <1>3, <1>4, <1>5, <2>1
<1>6. CASE d # c
  <2>1. PICK i \in 1 .. Len(chain[gen[d]]) : chain[gen[d]][i] = d
    BY <1>4, <1>6 DEF InItsQueue
  <2>2. CASE gen[d] = generation
    <3>1. i \in 1 .. Len(t) /\ t[i] = d
      BY <1>2, <1>3, <2>1, <2>2
    <3>2. QED
      BY <1>4, <1>6, <2>2, <3>1
  <2>3. CASE gen[d] # generation
    <3>1. chain'[gen'[d]] = chain[gen[d]]
      BY <1>4, <1>6, <2>3
    <3>2. QED
      BY <2>1, <3>1
  <2>4. QED
    BY <2>2, <2>3
<1>7. QED
  BY <1>5, <1>6

LEMMA InItsQueueSettle ==
  ASSUME QueueInv, LineInv, InItsQueue, NEW c \in Calls, Settle(c)
  PROVE  InItsQueue'
<1> DEFINE s == chain[gen[c]]
           t == Tail(s)
<1>1. /\ pc[c] = "done" /\ UNCHANGED gen
      /\ pc' = [pc EXCEPT ![c] = "settled"] /\ chain' = [chain EXCEPT ![gen[c]] = t]
  BY DEF Settle, TailAfter
<1>2. s \in Seq(Calls) /\ s # <<>> /\ Head(s) = c /\ Len(s) \in Nat /\ Len(t) = Len(s) - 1
  BY <1>1, QueueHead
<1>3. \A i \in 1 .. Len(t) : t[i] = s[i + 1]
  BY <1>1, QueueHead
<1>4. /\ chain'[gen[c]] = t
      /\ \A d \in Calls : gen[d] # gen[c] => chain'[gen[d]] = chain[gen[d]]
      /\ pc'[c] = "settled" /\ \A d \in Calls : d # c => pc'[d] = pc[d]
  BY <1>1, QueueTypes DEF QueueInv, TypeOK, CallTypeOK
<1>5. s[1] = c
  BY <1>2
<1> HIDE DEF t
<1> SUFFICES ASSUME NEW d \in Calls, pc'[d] \in InQueue
             PROVE  \E i \in 1 .. Len(chain'[gen[d]]) : chain'[gen[d]][i] = d
  BY <1>1 DEF InItsQueue, InQueue, Started
<1>6. d # c /\ pc[d] \in InQueue
  BY <1>4 DEF InQueue, Started
<1>7. PICK i \in 1 .. Len(chain[gen[d]]) : chain[gen[d]][i] = d
  BY <1>6 DEF InItsQueue
<1>8. CASE gen[d] = gen[c]
  <2>1. i # 1 /\ i \in 1 .. Len(s) /\ s[i] = d
    BY <1>5, <1>6, <1>7, <1>8
  <2>2. i - 1 \in 1 .. Len(t) /\ (i - 1) + 1 = i
    BY <1>2, <2>1
  <2>3. t[i - 1] = d
    BY <1>3, <2>1, <2>2
  <2>4. QED
    BY <1>4, <1>8, <2>2, <2>3
<1>9. CASE gen[d] # gen[c]
  BY <1>4, <1>7, <1>9
<1>10. QED
  BY <1>8, <1>9

LEMMA InItsQueueStep == QueueInv /\ LineInv /\ InItsQueue /\ [Next]_vars => InItsQueue'
<1> SUFFICES ASSUME QueueInv, LineInv, InItsQueue, [Next]_vars
             PROVE  InItsQueue'
  OBVIOUS
<1>0. TypeOK
  BY DEF QueueInv
<1>1. ASSUME UNCHANGED <<chain, gen>>, \A d \in Calls : pc'[d] \in InQueue => pc[d] \in InQueue
      PROVE  InItsQueue'
  BY <1>1, InItsQueueKept
<1>2. ASSUME NEW c \in Calls, Caller(c)
      PROVE  InItsQueue'
  <2>1. CASE Refuse(c)
    <3>1. \A d \in Calls : pc'[d] \in InQueue => pc[d] \in InQueue
      BY <1>0, <2>1 DEF Refuse, InQueue, Started, TypeOK, CallTypeOK
    <3>2. QED
      BY <1>1, <2>1, <3>1 DEF Refuse
  <2>2. CASE Abort(c) \/ CallerAborted(c) \/ CallerReceives(c)
    BY <1>1, <2>2 DEF Abort, CallerAborted, CallerReceives
  <2>3. QED
    BY <1>2, <2>1, <2>2, InItsQueueEnqueue DEF Caller
<1>3. ASSUME NEW c \in Calls, Job(c), ~Settle(c)
      PROVE  InItsQueue'
  <2>1. \A d \in Calls : pc'[d] \in InQueue => pc[d] \in InQueue
    BY <1>0, <1>3, JobShape DEF InQueue
  <2>2. QED
    BY <1>0, <1>1, <1>3, <2>1, JobShape
<1>4. ASSUME NEW s \in Sessions, Provider(s)
      PROVE  InItsQueue'
  BY <1>1, <1>4 DEF Provider, CallFactory, SessionArrives, SessionFails, callVars
<1>5. ASSUME \/ \E t \in {Seed} \cup Restores : ResetConversationState(t)
             \/ DestroyConversationState
      PROVE  InItsQueue'
  BY <1>1, <1>5 DEF ResetConversationState, DestroyConversationState, callVars
<1>6. CASE UNCHANGED vars
  BY <1>1, <1>6 DEF vars, callVars
<1>7. QED
  BY <1>2, <1>3, <1>4, <1>5, <1>6, InItsQueueSettle DEF Next

\* A step that leaves the sessions alone, and moves one job only.
LEMMA WaitFrame ==
  ASSUME AskedFor, HoldsKept, NEW c \in Calls, UNCHANGED <<session, sessionStatus, generation, attempt>>,
         \A d \in Calls : d # c => pc'[d] = pc[d] /\ gen'[d] = gen[d] /\ owned'[d] = owned[d],
         \/ pc'[c] \notin Holding \cup {"creating"}
         \/ /\ pc'[c] = pc[c] \/ (pc[c] \in Holding /\ pc'[c] \in Holding)
            /\ gen'[c] = gen[c] /\ owned'[c] = owned[c]
  PROVE  AskedFor' /\ HoldsKept'
<1>1. AskedFor'
  BY DEF AskedFor, OwnSession, Holding
<1>2. HoldsKept'
  BY DEF HoldsKept, Holding
<1>3. QED
  BY <1>1, <1>2

\* A job, or its attempt, ends and discards what it holds or waits for.
LEMMA WaitEnds ==
  ASSUME QueueInv, SessionInv, HistoryInv, AskedFor, HoldsKept,
         NEW c \in Calls, NEW s \in Sessions \cup {None}, Discard(s),
         s = owned[c] \/ (pc[c] = "creating" /\ s = OwnSession(c)),
         UNCHANGED <<generation, gen>>,
         \A d \in Calls : d # c => pc'[d] = pc[d] /\ owned'[d] = owned[d] /\ attempt'[d] = attempt[d],
         pc'[c] \in {"done", "retrying"}
  PROVE  AskedFor' /\ HoldsKept'
<1> USE DEF Holding
<1>1. \A d \in Calls : /\ owned[d] \in Sessions \cup {None} /\ OwnSession(d) \in Sessions
                       /\ OwnSession(d)[1] = d /\ OwnSession(d) # None
  BY SessionParts, ConversationAssumption DEF QueueInv, TypeOK, CallTypeOK
<1>2. /\ session' = session \/ session' = None
      /\ \A x \in Sessions : x # s => sessionStatus'[x] = sessionStatus[x]
  BY DEF Discard, QueueInv, TypeOK, SessionTypeOK
<1>3. ASSUME NEW d \in Calls, d # c, pc[d] \in Holding \cup {"creating"}, gen[d] = generation
      PROVE  pc[c] \notin Holding \cup {"creating"} \/ gen[c] # generation
  BY <1>3, OneRuns DEF QueueInv, InJob
<1>4. AskedFor'
  <2> SUFFICES ASSUME NEW d \in Calls, pc'[d] = "creating", gen'[d] = generation'
               PROVE  sessionStatus'[OwnSession(d)'] \in {"requested", "creating", "live", "failed"}
    BY DEF AskedFor
  <2>1. d # c /\ pc[d] = "creating" /\ gen[d] = generation /\ OwnSession(d)' = OwnSession(d)
    BY DEF OwnSession
  <2>2. OwnSession(d) # s
    <3> SUFFICES ASSUME OwnSession(d) = s
                 PROVE  FALSE
      OBVIOUS
    <3>1. s = owned[c]
      BY <1>1, <2>1
    <3>2. pc[c] \in Holding /\ gen[c] = gen[d]
      BY <1>1, <3>1 DEF HistoryInv, HeldInGeneration
    <3>3. QED
      BY <1>3, <2>1, <3>2
  <2>3. QED
    BY <1>1, <1>2, <2>1, <2>2 DEF AskedFor
<1>5. HoldsKept'
  <2> SUFFICES ASSUME NEW d \in Calls, pc'[d] \in Holding, gen'[d] = generation'
               PROVE  session' # None /\ owned'[d] = session'
    BY DEF HoldsKept
  <2>1. d # c /\ pc[d] \in Holding /\ gen[d] = generation /\ owned'[d] = owned[d]
    OBVIOUS
  <2>2. session # None /\ owned[d] = session
    BY <2>1 DEF HoldsKept
  <2>3. session' # None
    <3> SUFFICES ASSUME session' = None
                 PROVE  FALSE
      OBVIOUS
    <3>1. s = session
      BY <2>2, DiscardKept DEF QueueInv, TypeOK
    <3>2. s \in Sessions /\ gen[s[1]] = generation
      BY <2>2, <3>1 DEF SessionInv, KeptSessionIsUsable, QueueInv, TypeOK, SessionTypeOK
    <3>3. gen[c] = generation /\ pc[c] \in Holding \cup {"creating"}
      BY <1>1, <2>2, <3>1, <3>2 DEF HistoryInv, HeldInGeneration
    <3>4. QED
      BY <1>3, <2>1, <3>3
  <2>4. QED
    BY <1>2, <2>1, <2>2, <2>3
<1>6. QED
  BY <1>4, <1>5

\* A job takes the session that is kept, or the one that it asked for.
LEMMA WaitTakes ==
  ASSUME QueueInv, SessionInv, AskedFor, HoldsKept, NEW c \in Calls, Ready(c) \/ InJob(c),
         gen[c] = generation, UNCHANGED <<sessionStatus, generation, gen, attempt>>,
         \A d \in Calls : d # c => pc'[d] = pc[d] /\ owned'[d] = owned[d],
         pc'[c] = "checking", session' # None, owned'[c] = session'
  PROVE  AskedFor' /\ HoldsKept'
<1>1. \A d \in Calls : d # c /\ gen[d] = generation => pc[d] \notin Holding \cup {"creating"}
  BY RunsAlone
<1>2. AskedFor'
  BY <1>1 DEF AskedFor
<1>3. HoldsKept'
  BY <1>1 DEF HoldsKept
<1>4. QED
  BY <1>2, <1>3

LEMMA WaitRequest ==
  ASSUME QueueInv, AskedFor, HoldsKept, NEW c \in Calls, RequestSession(c)
  PROVE  AskedFor' /\ HoldsKept'
<1>1. /\ UNCHANGED <<session, generation, gen, owned, attempt>> /\ pc'[c] = "creating"
      /\ \A d \in Calls : d # c => pc'[d] = pc[d]
  BY DEF RequestSession, stateVars, QueueInv, TypeOK, CallTypeOK
<1>2. \A d \in Calls : OwnSession(d) \in Sessions /\ OwnSession(d)[1] = d /\ OwnSession(d)' = OwnSession(d)
  BY <1>1, SessionParts DEF OwnSession, QueueInv, TypeOK, CallTypeOK
<1>3. /\ sessionStatus'[OwnSession(c)] = "requested"
      /\ \A d \in Calls : d # c => sessionStatus'[OwnSession(d)] = sessionStatus[OwnSession(d)]
  BY <1>2 DEF RequestSession, QueueInv, TypeOK, SessionTypeOK
<1>4. AskedFor'
  BY <1>1, <1>2, <1>3 DEF AskedFor
<1>5. HoldsKept'
  BY <1>1 DEF HoldsKept, Holding
<1>6. QED
  BY <1>4, <1>5

LEMMA WaitCaller ==
  ASSUME QueueInv, AskedFor, HoldsKept, NEW c \in Calls, Caller(c)
  PROVE  AskedFor' /\ HoldsKept'
<1> USE DEF QueueInv, TypeOK, CallTypeOK, Holding
<1>1. CASE Refuse(c)
  BY <1>1, WaitFrame DEF Refuse, stateVars, sessionVars
<1>2. CASE EnqueueConversation(c)
  BY <1>2, WaitFrame DEF EnqueueConversation, sessionVars
<1>3. CASE Abort(c) \/ CallerAborted(c) \/ CallerReceives(c)
  BY <1>3, WaitFrame DEF Abort, CallerAborted, CallerReceives, stateVars, sessionVars
<1>4. QED
  BY <1>1, <1>2, <1>3 DEF Caller

LEMMA WaitJob ==
  ASSUME QueueInv, SessionInv, HistoryInv, AskedFor, HoldsKept, NEW c \in Calls, Job(c)
  PROVE  AskedFor' /\ HoldsKept'
<1> USE DEF QueueInv, TypeOK, CallTypeOK
<1>0. owned[c] \in Sessions \cup {None} /\ OwnSession(c) \in Sessions /\ OwnSession(c) # None
  BY SessionParts, ConversationAssumption
<1>1. CASE RejectTurn(c) \/ CancelJob(c) \/ ContextFails(c) \/ GenerationFails(c)
  <2>1. JobFails(c)
    BY <1>1 DEF RejectTurn, CancelJob, ContextFails, GenerationFails
  <2>2. QED
    BY <2>1, <1>0, WaitEnds DEF JobFails, Finish, stateVars
<1>2. CASE AbandonSession(c)
  BY <1>2, <1>0, WaitEnds DEF AbandonSession, Finish, stateVars
<1>3. CASE RetryTurn(c)
  BY <1>3, <1>0, WaitEnds DEF RetryTurn, Finish, stateVars
<1>4. CASE CommitTurn(c)
  <2>1. CASE Mode = "replay"
    BY <1>4, <2>1, <1>0, WaitEnds DEF CommitTurn, Finish
  <2>2. CASE Mode # "replay"
    BY <1>4, <2>2, WaitFrame DEF CommitTurn, Finish, Holding
  <2>3. QED
    BY <2>1, <2>2
<1>5. CASE FinishStatus(c)
  BY <1>5, WaitFrame DEF FinishStatus, Finish, stateVars, sessionVars, Holding
<1>6. CASE Settle(c)
  BY <1>6, WaitFrame DEF Settle, sessionVars, Holding
<1>7. CASE StartStatus(c)
  <2>1. Ready(c) /\ UNCHANGED <<session, sessionStatus, generation, gen, attempt>>
    BY <1>7 DEF StartStatus, stateVars, sessionVars
  <2>2. CASE Cancelled(c) \/ Mode = "replay" \/ session = None
    BY <1>7, <2>1, <2>2, WaitFrame DEF StartStatus, Finish, Holding
  <2>3. CASE ~(Cancelled(c) \/ Mode = "replay" \/ session = None)
    BY <1>7, <2>1, <2>3, WaitTakes DEF StartStatus, Cancelled
  <2>4. QED
    BY <2>2, <2>3
<1>8. CASE ReuseSession(c)
  BY <1>8, WaitTakes DEF ReuseSession, TurnRejected, Cancelled, stateVars, sessionVars
<1>9. CASE AcquireSession(c)
  BY <1>9, <1>0, WaitTakes DEF AcquireSession, Cancelled, InJob, stateVars
<1>10. CASE Generate(c)
  BY <1>10, WaitFrame DEF Generate, stateVars, Holding
<1>11. CASE \E n \in ReplySizes : AcceptReply(c, n)
  BY <1>11, WaitFrame DEF AcceptReply, stateVars, sessionVars, Holding
<1>12. CASE ContextPasses(c)
  BY <1>12, WaitFrame DEF ContextPasses, stateVars, sessionVars, Holding
<1>13. QED
  BY <1>1, <1>2, <1>3, <1>4, <1>5, <1>6, <1>7, <1>8, <1>9, <1>10, <1>11, <1>12, WaitRequest DEF Job

\* The provider may be late only for a job that no longer waits.
LEMMA WaitProvider ==
  ASSUME QueueInv, AskedFor, HoldsKept, NEW x \in Sessions, Provider(x)
  PROVE  AskedFor' /\ HoldsKept'
<1>1. /\ UNCHANGED <<session, generation, gen, attempt, pc, owned>>
      /\ sessionStatus'[x] \in {"creating", "live", "failed"} \/ Abandoned(x)
      /\ \A s \in Sessions : s # x => sessionStatus'[s] = sessionStatus[s]
  BY DEF Provider, CallFactory, SessionArrives, SessionFails, stateVars, callVars,
         QueueInv, TypeOK, SessionTypeOK
<1>2. \A c \in Calls : OwnSession(c) \in Sessions /\ OwnSession(c)' = OwnSession(c)
  BY <1>1, SessionParts DEF OwnSession, QueueInv, TypeOK, CallTypeOK
<1>3. \A c \in Calls : pc[c] = "creating" => ~Abandoned(OwnSession(c))
  BY DEF Abandoned, OwnSession
<1>4. AskedFor'
  BY <1>1, <1>2, <1>3 DEF AskedFor
<1>5. HoldsKept'
  BY <1>1 DEF HoldsKept
<1>6. QED
  BY <1>4, <1>5

LEMMA WaitStep == QueueInv /\ SessionInv /\ HistoryInv /\ LineInv /\ WaitInv /\ [Next]_vars => WaitInv'
<1> SUFFICES ASSUME QueueInv, SessionInv, HistoryInv, LineInv, WaitInv, [Next]_vars
             PROVE  WaitInv'
  OBVIOUS
<1>1. ASSUME \/ \E t \in {Seed} \cup Restores : ResetConversationState(t)
             \/ DestroyConversationState
      PROVE  AskedFor' /\ HoldsKept'
  <2>1. generation' = generation + 1 /\ UNCHANGED <<pc, gen>>
    BY <1>1 DEF ResetConversationState, DestroyConversationState, callVars
  <2>2. \A c \in Calls : gen'[c] # generation'
    BY <2>1 DEF QueueInv, GenerationReached, TypeOK, StateTypeOK, CallTypeOK, Generations
  <2>3. QED
    BY <2>2 DEF AskedFor, HoldsKept
<1>2. ASSUME UNCHANGED vars
      PROVE  AskedFor' /\ HoldsKept'
  BY <1>2 DEF vars, stateVars, callVars, sessionVars, WaitInv, AskedFor, HoldsKept, OwnSession
<1>3. AskedFor' /\ HoldsKept'
  BY <1>1, <1>2, WaitCaller, WaitJob, WaitProvider DEF WaitInv, Next
<1>4. QED
  BY <1>3, InItsQueueStep DEF WaitInv

LEMMA WaitInit == Init => WaitInv
BY DEF Init, WaitInv, InItsQueue, AskedFor, HoldsKept, InQueue, Started, Holding

LEMMA WaitInvMeans ==
  ASSUME QueueInv, SessionInv, LineInv, WaitInv
  PROVE  NoJobIsStuck
<1>0. TypeOK /\ ConversationAssumption
  BY ConversationAssumption DEF QueueInv
<1>1. ASSUME NEW c \in Calls, Accepted(c), pc[c] # "settled"
      PROVE  \E i \in DOMAIN chain[gen[c]] : chain[gen[c]][i] = c
  <2>1. pc[c] \in InQueue
    BY <1>0, <1>1 DEF Accepted, InQueue, Started, TypeOK, CallTypeOK
  <2>2. chain[gen[c]] \in Seq(Calls)
    BY <1>0, QueueTypes
  <2>3. DOMAIN chain[gen[c]] = 1 .. Len(chain[gen[c]])
    BY <2>2
  <2>4. QED
    BY <2>1, <2>3 DEF WaitInv, InItsQueue
<1>2. ASSUME NEW g \in Generations, chain[g] # <<>>, NEW c, c = Head(chain[g])
      PROVE  gen[c] = g /\ (JobIsDue(c) \/ AwaitsProvider(c))
  <2> DEFINE s == chain[g]
  <2>1. s \in Seq(Calls) /\ Len(s) \in Nat
    BY <1>0, QueueTypes
  <2> HIDE DEF s
  <2>2. 1 \in 1 .. Len(s) /\ c = s[1]
    BY <1>2, <2>1, EmptySeq DEF s
  <2>3. c \in Calls /\ gen[c] = g /\ pc[c] \in InQueue
    BY <2>1, <2>2 DEF s, LineInv, QueueOfGeneration
  <2>4. CASE pc[c] \in {"queued", "retrying", "checked", "done"}
    BY <2>3, <2>4 DEF JobIsDue
  <2>5. CASE Cancelled(c) /\ pc[c] = "creating"
    BY <2>3, <2>5 DEF JobIsDue
  <2>6. CASE ~Cancelled(c) /\ pc[c] = "creating"
    <3>1. sessionStatus[OwnSession(c)] \in {"requested", "creating", "live", "failed"}
      BY <2>3, <2>6 DEF WaitInv, AskedFor, Cancelled
    <3>2. QED
      BY <2>3, <2>6, <3>1 DEF JobIsDue, AwaitsProvider
  <2>7. CASE Cancelled(c) /\ pc[c] \in Holding
    <3>1. Mode = "replay" /\ pc[c] = "checking" => c \in TurnCalls
      BY <2>3 DEF SessionInv, StatusNeverWaits
    <3>2. QED
      BY <1>0, <2>3, <2>7, <3>1 DEF JobIsDue, Holding, ConversationAssumption
  <2>8. CASE ~Cancelled(c) /\ pc[c] \in Holding \ {"checked"}
    <3>1. session # None /\ owned[c] = session
      BY <2>3, <2>8 DEF WaitInv, HoldsKept, Cancelled
    <3>2. sessionStatus[session] = "live"
      BY <3>1 DEF SessionInv, KeptSessionIsUsable
    <3>3. QED
      BY <2>3, <2>8, <3>1, <3>2 DEF AwaitsProvider, Holding
  <2>9. QED
    BY <2>3, <2>4, <2>5, <2>6, <2>7, <2>8 DEF InQueue, Started, Holding
<1>3. QED
  BY <1>1, <1>2 DEF NoJobIsStuck

\* The jobs of a chain run one at a time (the promise tail of state.mts:176),
\* and no call in it waits for nothing: it stands there until it has settled,
\* and the first job can go on by itself, or waits for a session that it asked
\* for, or for an answer of a session that is alive, with no signal aborted.
THEOREM ChainsGoOn == Spec => []JobsTakeTurns
<1>2. Spec => []WaitInv
  BY WaitInit, WaitStep, QueueInvariant, SessionInvariant, HistoryInvariant, LineInvariant, PTL DEF Spec
<1>3. QueueInv /\ SessionInv /\ LineInv /\ WaitInv => NoJobIsStuck
  BY WaitInvMeans
<1>4. OneJobPerGeneration /\ NoJobIsStuck => JobsTakeTurns
  BY DEF JobsTakeTurns
<1>5. QED
  BY <1>2, <1>3, <1>4, JobsAreSerial, QueueInvariant, SessionInvariant, LineInvariant, PTL

----------------------------------------------------------------------------
(* The conversation implements Transcript: every step accepts a turn at    *)
(* the end of the line, commits or drops the one at its front, ends the    *)
(* line, or changes neither line nor transcript.                           *)

LEMMA LineStays ==
  ASSUME TypeOK, chain'[generation'] = chain[generation],
         \A i \in 1 .. Len(chain[generation]) :
           chain[generation][i] \in Unfinished' <=> chain[generation][i] \in Unfinished
  PROVE  Line' = Line
<1> DEFINE s == chain[generation]
<1>1. s \in Seq(Calls)
  BY QueueTypes
<1> DEFINE U == Unfinished
           V == Unfinished'
<1> HIDE DEF s, U, V
<1>2. \A i \in 1 .. Len(s) : s[i] \in V <=> s[i] \in U
  BY DEF s, U, V
<1>3. Chosen(s, V) = Chosen(s, U)
  BY <1>1, <1>2, ChosenAgree
<1>4. Line = Chosen(s, U) /\ Line' = Chosen(s, V)
  BY DEF Line, s, U, V
<1>5. QED
  BY <1>3, <1>4

\* Nothing ends: the line stays.
LEMMA NoneEnds ==
  ASSUME TypeOK, UNCHANGED <<chain, generation>>,
         \A d \in TurnCalls : pc'[d] = "done" <=> pc[d] = "done"
  PROVE  Line' = Line
<1>1. Unfinished' = Unfinished
  BY DEF Unfinished
<1>2. QED
  BY <1>1, LineStays

\* A job ends: if it is a turn of this generation it leaves the line's front.
LEMMA JobLeavesLine ==
  ASSUME QueueInv, LineInv, NEW c \in Calls, UNCHANGED <<chain, generation>>,
         InJob(c) \/ (pc[c] = "queued" /\ chain[gen[c]] # <<>> /\ Head(chain[gen[c]]) = c),
         pc'[c] = "done", \A d \in Calls : d # c => pc'[d] = pc[d]
  PROVE  IF c \in TurnCalls /\ gen[c] = generation
         THEN Line # <<>> /\ Head(Line) = c /\ Line' = Tail(Line) ELSE Line' = Line
<1> DEFINE s == chain[generation]
           t == Tail(s)
           U == Unfinished
           V == Unfinished'
<1>1. /\ s \in Seq(Calls) /\ generation \in Generations /\ Len(s) \in Nat
      /\ \A i \in 1 .. Len(s) : s[i] \in Calls
  BY QueueTypes DEF QueueInv
<1>2. pc[c] # "done"
  BY DEF InJob
<1>3. V = U \ {c} /\ (c \in TurnCalls <=> c \in U)
  BY <1>2 DEF Unfinished, TurnCalls, Calls
<1>4. CASE c \notin TurnCalls
  <2>1. V = U
    BY <1>3, <1>4
  <2>2. QED
    BY <1>4, <2>1, LineStays DEF QueueInv
<1>5. CASE gen[c] # generation
  <2>1. \A i \in 1 .. Len(s) : s[i] # c
    BY <1>1, <1>5 DEF LineInv, QueueOfGeneration
  <2>2. \A i \in 1 .. Len(s) : s[i] \in V <=> s[i] \in U
    BY <1>3, <2>1
  <2>3. QED
    BY <1>5, <2>2, LineStays DEF QueueInv
<1>6. CASE c \in TurnCalls /\ gen[c] = generation
  <2>1. s # <<>> /\ Head(s) = c
    BY <1>6 DEF QueueInv, JobIsHead
  <2>2. /\ t \in Seq(Calls) /\ Len(t) = Len(s) - 1
        /\ \A i \in 1 .. Len(t) : t[i] = s[i + 1]
    BY <1>1, <2>1, HeadTailProperties
  <2>3. s[1] = c /\ 1 \in 1 .. Len(s)
    <3>1. Len(s) # 0
      BY <1>1, <2>1, EmptySeq
    <3>2. QED
      BY <1>1, <2>1, <3>1
  <2>4. \A i \in 1 .. Len(t) : t[i] # c
    <3>1. \A i \in 1 .. Len(t) : i + 1 \in 1 .. Len(s) /\ i + 1 # 1
      BY <1>1, <2>2
    <3>2. \A i, j \in 1 .. Len(s) : s[i] = s[j] => i = j
      BY <1>1 DEF LineInv, QueuedOnce
    <3> HIDE DEF s, t
    <3>3. QED
      BY <2>2, <2>3, <3>1, <3>2
  <2>5. Line = Chosen(s, U) /\ Line' = Chosen(s, V)
    BY DEF Line
  <2> HIDE DEF s, t, U, V
  <2>6. Chosen(s, U) = <<c>> \o Chosen(t, U)
    BY <1>1, <1>3, <1>6, <2>1, ChosenHead DEF t
  <2>7. Chosen(s, V) = Chosen(t, V)
    BY <1>1, <1>3, <2>1, ChosenHead DEF t
  <2>8. Chosen(t, V) = Chosen(t, U)
    <3>1. \A i \in 1 .. Len(t) : t[i] \in V <=> t[i] \in U
      BY <1>3, <2>4
    <3>2. QED
      BY <2>2, <3>1, ChosenAgree
  <2> DEFINE l == Chosen(t, U)
  <2>9. l \in Seq(Calls)
    BY <2>2, ChosenType
  <2> HIDE DEF l
  <2>10. <<c>> \o l # <<>> /\ Head(<<c>> \o l) = c /\ Tail(<<c>> \o l) = l
    BY <2>9
  <2>11. QED
    BY <1>6, <2>5, <2>6, <2>7, <2>8, <2>10 DEF l
<1>7. QED
  BY <1>4, <1>5, <1>6

\* The line is no longer than what is reserved: only its first job may have
\* ended.
LEMMA LineIsReserved ==
  ASSUME QueueInv, LineInv
  PROVE  Line \in Seq(Calls) /\ Len(Line) \in Nat /\ Len(Line) <= pendingTurns
<1> DEFINE s == chain[generation]
           t == Tail(s)
           U == Unfinished
<1>1. /\ s \in Seq(Calls) /\ generation \in Generations /\ Len(s) \in Nat
      /\ \A i \in 1 .. Len(s) : s[i] \in Calls
  BY QueueTypes DEF QueueInv
<1>2. \A d \in Calls : d \in U <=> (d \in TurnCalls /\ pc[d] # "done")
  BY DEF Unfinished
<1>3. \A i \in 1 .. Len(s) : gen[s[i]] = generation
  BY <1>1 DEF LineInv, QueueOfGeneration
<1>4. pendingTurns = Len(Chosen(s, TurnCalls)) /\ Line = Chosen(s, U)
  BY DEF LineInv, PendingIsQueued, Line
<1> HIDE DEF U
<1>5. Chosen(s, U) \in Seq(Calls)
  BY <1>1, ChosenType
<1>6. CASE \A i \in 1 .. Len(s) : pc[s[i]] # "done"
  <2> HIDE DEF s
  <2>1. \A i \in 1 .. Len(s) : s[i] \in U <=> s[i] \in TurnCalls
    BY <1>1, <1>2, <1>6
  <2>2. Chosen(s, U) = Chosen(s, TurnCalls)
    BY <1>1, <2>1, ChosenAgree
  <2> DEFINE l == Chosen(s, TurnCalls)
  <2>3. l \in Seq(Calls)
    BY <1>1, ChosenType
  <2> HIDE DEF l
  <2>4. Len(l) \in Nat /\ Len(l) <= Len(l)
    BY <2>3
  <2>5. QED
    BY <1>4, <2>2, <2>3, <2>4 DEF l
<1>7. ASSUME NEW i \in 1 .. Len(s), pc[s[i]] = "done"
      PROVE  Len(Line) \in Nat /\ Len(Line) <= pendingTurns
  <2> DEFINE c == s[i]
  <2>1. c \in Calls /\ gen[c] = generation
    BY <1>1, <1>3
  <2>2. /\ s # <<>> /\ Head(s) = c /\ t \in Seq(Calls)
        /\ \A j \in 1 .. Len(t) : t[j] = s[j + 1] /\ j + 1 \in 1 .. Len(s) /\ s[j + 1] # c
    BY <1>7, <2>1, QueueHead
  <2>3. \A d \in Calls : d # c /\ (\E j \in 1 .. Len(s) : s[j] = d) => pc[d] # "done"
    <3> SUFFICES ASSUME NEW j \in 1 .. Len(s), pc[s[j]] = "done"
                 PROVE  s[j] = c
      OBVIOUS
    <3>1. s[j] \in Calls /\ gen[s[j]] = generation
      BY <1>1, <1>3
    <3>2. Head(s) = s[j]
      BY <3>1 DEF QueueInv, JobIsHead
    <3>3. QED
      BY <2>2, <3>2
  <2>4. \A j \in 1 .. Len(t) : t[j] \in U <=> t[j] \in TurnCalls
    <3> TAKE j \in 1 .. Len(t)
    <3>1. t[j] = s[j + 1] /\ j + 1 \in 1 .. Len(s) /\ t[j] # c
      BY <2>2
    <3>2. t[j] \in Calls /\ pc[t[j]] # "done"
      BY <1>1, <2>3, <3>1
    <3>3. QED
      BY <1>2, <3>2
  <2>5. c \notin U
    BY <1>2, <1>7, <2>1
  <2> HIDE DEF s, t, c
  <2>6. Chosen(s, U) = Chosen(t, U)
    BY <1>1, <2>2, <2>5, ChosenHead DEF t
  <2>7. Chosen(t, U) = Chosen(t, TurnCalls)
    BY <2>2, <2>4, ChosenAgree
  <2>8. Chosen(s, TurnCalls) = IF c \in TurnCalls THEN <<c>> \o Chosen(t, TurnCalls)
                               ELSE Chosen(t, TurnCalls)
    BY <1>1, <2>2, ChosenHead DEF t
  <2> DEFINE l == Chosen(t, TurnCalls)
  <2>9. l \in Seq(Calls)
    BY <2>2, ChosenType
  <2> HIDE DEF l
  <2>10. Len(l) \in Nat /\ Len(<<c>> \o l) = 1 + Len(l)
    BY <2>1, <2>9
  <2>11. Len(Line) = Len(l) /\ (pendingTurns = Len(l) \/ pendingTurns = 1 + Len(l))
    BY <1>4, <2>6, <2>7, <2>8, <2>10 DEF l
  <2>12. QED
    BY <2>10, <2>11
<1>8. QED
  BY <1>4, <1>5, <1>6, <1>7

LEMMA AcceptsOrStays ==
  ASSUME QueueInv, LineInv, CountersFit, NEW c \in Calls, Caller(c)
  PROVE  (Promise!Accept(c) /\ c \in TurnCalls) \/ UNCHANGED Promise!vars
<1>1. TypeOK
  BY DEF QueueInv
<1>2. CASE EnqueueConversation(c)
  <2> DEFINE s == chain[generation]
             U == Unfinished
  <2>1. /\ pc[c] = "idle" /\ ~Refused(c) /\ UNCHANGED <<generation, messages, closed>>
        /\ pc' = [pc EXCEPT ![c] = "queued"]
        /\ chain' = [chain EXCEPT ![generation] = Append(s, c)]
    BY <1>2 DEF EnqueueConversation
  <2>2. Unfinished' = U /\ (c \in TurnCalls <=> c \in U)
    BY <1>1, <2>1 DEF Unfinished, TypeOK, CallTypeOK, Calls
  <2>3. s \in Seq(Calls) /\ chain'[generation'] = Append(s, c)
    BY <1>1, <2>1, QueueTypes DEF TypeOK, CallTypeOK
  <2>4. Line = Chosen(s, U) /\ Line' = Chosen(Append(s, c), U)
    BY <2>2, <2>3 DEF Line
  <2> HIDE DEF s, U
  <2>5. Line' = IF c \in TurnCalls THEN Append(Line, c) ELSE Line
    BY <2>2, <2>3, <2>4, ChosenAppend
  <2>6. CASE c \in TurnCalls
    <3>1. ~closed /\ ~(turns + pendingTurns >= MaxTurns)
      BY <2>1, <2>6 DEF Refused
    <3>2. Len(messages) + Len(Line) < MaxTurns
      <4>1. /\ turns = Len(messages) /\ turns \in Nat /\ pendingTurns \in Nat
            /\ MaxTurns \in Nat
        BY <1>1, ConversationAssumption DEF CountersFit, TypeOK, StateTypeOK
      <4>2. Len(Line) \in Nat /\ Len(Line) <= pendingTurns
        BY LineIsReserved
      <4>3. QED
        BY <3>1, <4>1, <4>2
    <3>3. QED
      BY <2>1, <2>5, <2>6, <3>1, <3>2 DEF Promise!Accept
  <2>7. CASE c \notin TurnCalls
    BY <2>1, <2>5, <2>7 DEF Promise!vars
  <2>8. QED
    BY <2>6, <2>7
<1>3. CASE Refuse(c)
  <2>1. \A d \in TurnCalls : pc'[d] = "done" <=> pc[d] = "done"
    BY <1>1, <1>3 DEF Refuse, TypeOK, CallTypeOK, Calls
  <2>2. QED
    BY <1>1, <1>3, <2>1, NoneEnds DEF Refuse, stateVars, Promise!vars
<1>4. CASE Abort(c) \/ CallerAborted(c) \/ CallerReceives(c)
  <2>1. UNCHANGED <<chain, generation, pc, messages, closed>>
    BY <1>4 DEF Abort, CallerAborted, CallerReceives, stateVars
  <2>2. QED
    BY <1>1, <2>1, NoneEnds DEF Promise!vars
<1>5. QED
  BY <1>2, <1>3, <1>4 DEF Caller

LEMMA CommitsOrDrops ==
  ASSUME QueueInv, LineInv, CountersFit, NEW c \in Calls, Job(c), ~Settle(c)
  PROVE  \/ \E size \in 1 .. MaxCharacters : Promise!Commit(size)
         \/ Promise!Drop
         \/ UNCHANGED Promise!vars
<1>1. TypeOK
  BY DEF QueueInv
<1>2. /\ InJob(c) \/ pc[c] = "retrying"
         \/ (pc[c] = "queued" /\ chain[gen[c]] # <<>> /\ Head(chain[gen[c]]) = c)
      /\ pc[c] # "done"
      /\ pc'[c] \in Started \cup {"done"}
      /\ \A d \in Calls : d # c => pc'[d] = pc[d]
      /\ UNCHANGED <<closed, generation, chain, gen>>
  BY <1>1, JobShape DEF Started, InJob
<1>3. CASE pc'[c] # "done"
  <2>1. UNCHANGED messages
    <3>1. ~ CommitTurn(c)
      BY <1>1, <1>3 DEF CommitTurn, Finish, TypeOK, CallTypeOK
    <3>2. QED
      BY <1>1, <3>1, JobResult
  <2>2. \A d \in TurnCalls : pc'[d] = "done" <=> pc[d] = "done"
    BY <1>2, <1>3 DEF Calls
  <2>3. QED
    BY <1>1, <1>2, <2>1, <2>2, NoneEnds DEF Promise!vars
<1>4. CASE pc'[c] = "done"
  <2>1. IF c \in TurnCalls /\ gen[c] = generation
        THEN Line # <<>> /\ Head(Line) = c /\ Line' = Tail(Line) ELSE Line' = Line
    BY <1>2, <1>4, JobLeavesLine DEF InJob
  <2>2. CASE CommitTurn(c)
    <3> DEFINE size == ContentSize[c] + reply[c]
    <3>1. c \in TurnCalls /\ gen[c] = generation /\ pc[c] = "confirming"
      BY <2>2 DEF CommitTurn, Cancelled, QueueInv, OnlyTurnsGenerate
    <3>2. /\ ContentSize[c] \in Nat \ {0} /\ reply[c] \in Nat
          /\ characters \in Nat /\ MaxCharacters \in Nat
      BY <1>1, <3>1, ConversationAssumption DEF TypeOK, StateTypeOK, CallTypeOK
    <3>3. characters + ContentSize[c] + reply[c] <= MaxCharacters
      BY <3>1 DEF QueueInv, ReplyFits
    <3>4. size \in 1 .. MaxCharacters /\ characters + size <= MaxCharacters
      BY <3>2, <3>3
    <3>5. messages' = Append(messages, [call |-> c, size |-> size])
      BY <2>2 DEF CommitTurn
    <3> HIDE DEF size
    <3>6. ConversationCharacters(messages) + size <= MaxCharacters
      BY <3>4 DEF CountersFit
    <3>7. Promise!Commit(size)
      BY <1>2, <2>1, <3>1, <3>5, <3>6 DEF Promise!Commit
    <3>8. QED
      BY <3>4, <3>7
  <2>3. CASE ~CommitTurn(c)
    <3>1. UNCHANGED messages
      BY <1>1, <2>3, JobResult
    <3>2. CASE c \in TurnCalls /\ gen[c] = generation
      BY <1>2, <2>1, <3>1, <3>2 DEF Promise!Drop
    <3>3. CASE ~(c \in TurnCalls /\ gen[c] = generation)
      BY <1>2, <2>1, <3>1, <3>3 DEF Promise!vars
    <3>4. QED
      BY <3>2, <3>3
  <2>4. QED
    BY <2>2, <2>3
<1>5. QED
  BY <1>3, <1>4

\* The queue moves up behind a job that has left the line.
LEMMA SettleStays ==
  ASSUME QueueInv, LineInv, NEW c \in Calls, Settle(c)
  PROVE  UNCHANGED Promise!vars
<1> DEFINE s == chain[gen[c]]
           t == Tail(s)
           U == Unfinished
           V == Unfinished'
<1>1. /\ pc[c] = "done" /\ UNCHANGED <<generation, messages, closed>>
      /\ pc' = [pc EXCEPT ![c] = "settled"] /\ chain' = [chain EXCEPT ![gen[c]] = t]
  BY DEF Settle, TailAfter
<1>2. /\ s \in Seq(Calls) /\ s # <<>> /\ Head(s) = c /\ t \in Seq(Calls)
      /\ \A i \in 1 .. Len(t) : t[i] = s[i + 1] /\ s[i + 1] # c
  BY <1>1, QueueHead
<1>3. /\ generation \in Generations /\ gen[c] \in Generations
      /\ \A g \in Generations : \A i \in 1 .. Len(chain[g]) : chain[g][i] \in Calls
  BY QueueTypes DEF QueueInv
<1>4. chain'[gen[c]] = t /\ \A g \in Generations : g # gen[c] => chain'[g] = chain[g]
  BY <1>1, <1>3 DEF QueueInv, TypeOK, CallTypeOK
<1>5. c \notin U /\ \A d \in Calls : d # c => (d \in V <=> d \in U)
  BY <1>1 DEF Unfinished, QueueInv, TypeOK, CallTypeOK
<1>6. CASE gen[c] = generation
  <2>1. Line = Chosen(s, U) /\ Line' = Chosen(t, V)
    BY <1>1, <1>4, <1>6 DEF Line
  <2>2. \A i \in 1 .. Len(t) : t[i] \in Calls /\ t[i] # c
    BY <1>2
  <2> HIDE DEF s, t, U, V
  <2>3. Chosen(s, U) = Chosen(t, U)
    BY <1>2, <1>5, ChosenHead DEF t
  <2>4. Chosen(t, V) = Chosen(t, U)
    BY <1>2, <1>5, <2>2, ChosenAgree
  <2>5. QED
    BY <1>1, <2>1, <2>3, <2>4 DEF Promise!vars
<1>7. CASE gen[c] # generation
  <2>1. \A i \in 1 .. Len(chain[generation]) :
          chain[generation][i] # c /\ chain[generation][i] \in Calls
    BY <1>3, <1>7 DEF LineInv, QueueOfGeneration
  <2>2. Line' = Line
    BY <1>1, <1>3, <1>4, <1>5, <1>7, <2>1, LineStays DEF QueueInv
  <2>3. QED
    BY <1>1, <2>2 DEF Promise!vars
<1>8. QED
  BY <1>6, <1>7

LEMMA EndsLine ==
  ASSUME QueueInv, LineInv
  PROVE  /\ \A t \in {Seed} \cup Restores : ResetConversationState(t) => Promise!Restart(t)
         /\ DestroyConversationState => Promise!Close
<1>1. ASSUME NEW t \in {Seed} \cup Restores, ResetConversationState(t)
      PROVE  Promise!Restart(t)
  <2>1. chain'[generation'] = <<>>
    BY <1>1, LineRestart DEF ResetConversationState, callVars
  <2>2. Line' = <<>>
    BY <2>1, ChosenNothing DEF Line
  <2>3. QED
    BY <1>1, <2>2 DEF ResetConversationState, Promise!Restart
<1>2. ASSUME DestroyConversationState
      PROVE  Promise!Close
  <2>1. chain'[generation'] = <<>>
    BY <1>2, LineRestart DEF DestroyConversationState, callVars
  <2>2. Line' = <<>>
    BY <2>1, ChosenNothing DEF Line
  <2>3. QED
    BY <1>2, <2>2 DEF DestroyConversationState, Promise!Close
<1>3. QED
  BY <1>1, <1>2

LEMMA PromiseInit == Init => Promise!Init
<1> SUFFICES ASSUME Init
             PROVE  Promise!Init
  OBVIOUS
<1>1. chain[generation] = <<>>
  BY ConversationAssumption DEF Init, Generations
<1>2. QED
  BY <1>1, ChosenNothing DEF Init, Promise!Init, Line

LEMMA PromiseStep ==
  QueueInv /\ LineInv /\ CountersFit /\ [Next]_vars => [Promise!Next]_(Promise!vars)
<1> SUFFICES ASSUME QueueInv, LineInv, CountersFit, [Next]_vars
             PROVE  Promise!Next \/ UNCHANGED Promise!vars
  OBVIOUS
<1>1. ASSUME UNCHANGED <<chain, generation, pc, messages, closed>>
      PROVE  UNCHANGED Promise!vars
  BY <1>1, NoneEnds DEF Promise!vars, QueueInv
<1>2. ASSUME NEW s \in Sessions, Provider(s)
      PROVE  UNCHANGED Promise!vars
  BY <1>1, <1>2 DEF Provider, CallFactory, SessionArrives, SessionFails, stateVars, callVars
<1>3. CASE UNCHANGED vars
  BY <1>1, <1>3 DEF vars, stateVars, callVars
<1>4. ASSUME NEW c \in Calls, Caller(c)
      PROVE  Promise!Next \/ UNCHANGED Promise!vars
  BY <1>4, AcceptsOrStays DEF Promise!Next
<1>5. ASSUME NEW c \in Calls, Job(c)
      PROVE  Promise!Next \/ UNCHANGED Promise!vars
  BY <1>5, CommitsOrDrops, SettleStays DEF Promise!Next
<1>6. QED
  BY <1>2, <1>3, <1>4, <1>5, EndsLine DEF Next, Promise!Next

\* A conversation implements Transcript for any calls, limits, replies and
\* resets: turns leave a line in the order in which they were accepted, each
\* into the transcript and within its limits or without a trace (the queue of
\* state.mts and runConversationTurn of session.mts).
THEOREM ConversationImplementsTranscript == Spec => ImplementsTranscript
BY PromiseInit, PromiseStep, QueueInvariant, LineInvariant, CountersInvariant, PTL
   DEF Spec, ImplementsTranscript, Promise!Spec
=============================================================================
