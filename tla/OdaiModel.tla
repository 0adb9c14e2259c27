----------------------------- MODULE OdaiModel -----------------------------
(***************************************************************************)
(* A model and its requests (model.mts, session.mts, cancellation.mts,     *)
(* lifecycle.mts).  createOdaiModel makes a base session by a ladder of    *)
(* create() attempts and asks a probe session for the model's name; every  *)
(* attempt of a request gets a session of its own.  withOdaiModel does the *)
(* same under a deadline, without the probe, for one callback.             *)
(*                                                                         *)
(* Every wait for the provider races with a signal or a timer, and a       *)
(* session that arrives for nobody is destroyed on arrival.  The provider  *)
(* may answer late or never.  The n-th session made for owner o is <<o,n>>.*)
(***************************************************************************)
EXTENDS Naturals

CONSTANTS
  Requests,     \* calls of promptStructured() and promptStreaming()
  MaxAttempts,  \* retries + 1
  Base,         \* owner of the model's own session
  NameProbe     \* owner of the session that is asked for the model's name

Owners == Requests \cup {Base, NameProbe}
Rungs == 1 .. 3  \* full, reduced and system-only options of createWithFallback

ASSUME OdaiModelAssumption ==
  /\ MaxAttempts \in Nat \ {0}
  /\ Base \notin Requests /\ NameProbe \notin Requests /\ Base # NameProbe

VARIABLES
  interactive,  \* withOdaiModel, or createOdaiModel alone
  cloneCapable, \* sessions have clone()
  model,        \* where the model is
  modelAborted, \* the signal of the model, with the deadline and the finish
  pc,           \* pc[o]: "idle", "acquiring", "prompting", "settled"
  structured,   \* the requests that are promptStructured() calls
  attempt,      \* attempt[o]: attempts of owner o so far
  rung,         \* rung[o]: the create() attempt under way
  late,         \* owners that gave up while their session was being made
  live          \* the sessions the provider has made and not destroyed

modelVars == <<interactive, cloneCapable, model, modelAborted, pc, structured,
          attempt, rung, late, live>>
fixed == <<interactive, cloneCapable>>

ModelStates ==
  {"idle", "selecting", "creating", "detecting", "ready", "failed", "finished"}

ModelTypeOK ==
  /\ interactive \in BOOLEAN /\ cloneCapable \in BOOLEAN /\ modelAborted \in BOOLEAN
  /\ model \in ModelStates
  /\ pc \in [Owners -> {"idle", "acquiring", "prompting", "settled"}]
  /\ structured \subseteq Requests
  /\ attempt \in [Owners -> 0 .. MaxAttempts]
  /\ rung \in [Owners -> Rungs]
  /\ late \subseteq Owners
  /\ live \subseteq Owners \X (1 .. MaxAttempts)

ModelInit ==
  /\ interactive \in BOOLEAN /\ cloneCapable \in BOOLEAN
  /\ model = "idle" /\ modelAborted = FALSE
  /\ pc = [o \in Owners |-> "idle"]
  /\ structured \in SUBSET Requests
  /\ attempt = [o \in Owners |-> 0]
  /\ rung = [o \in Owners |-> 1]
  /\ late = {} /\ live = {}

SessionOf(o) == <<o, attempt[o]>>
Active(r) == pc[r] \in {"acquiring", "prompting"}
SessionsInUse == {SessionOf(o) : o \in {p \in Owners : pc[p] = "prompting"}}

\* cloneSession, and createWithFallback for the base session.
ByLadder(o) == o = Base \/ ~ cloneCapable

----------------------------------------------------------------------------
(* Owners give up, and sessions are destroyed.                             *)

\* Owners os stop waiting: awaitCancellable rejects, the session in use is
\* destroyed in the finally block, one still being made on its arrival.
GiveUp(os) ==
  /\ late' = late \cup {o \in os : pc[o] = "acquiring"}
  /\ live' = live \ {SessionOf(o) : o \in {p \in os : pc[p] = "prompting"}}
  /\ pc' = [o \in Owners |-> IF o \in os THEN "settled" ELSE pc[o]]

\* The name detection hears of the model's signal only through create().
Cancellable == {o \in Owners : Active(o) /\ (o = NameProbe => pc[o] = "acquiring" /\ ByLadder(o))}

\* The signal aborts, and the model comes to its end or stays.  Its base
\* session is in use ("prompting") while there is a model.
Stops(to) ==
  /\ model' = to
  /\ modelAborted' = TRUE
  /\ GiveUp(IF to = "ready" THEN Cancellable \ {Base} ELSE Cancellable)

----------------------------------------------------------------------------
(* The model.                                                              *)

\* selectBackend and languageModel are awaited first.
CreateModel ==
  /\ model = "idle"
  /\ model' = "selecting"
  /\ UNCHANGED <<fixed, modelAborted, pc, structured, attempt, rung, late, live>>

Begin(o) ==
  /\ attempt' = [attempt EXCEPT ![o] = @ + 1]
  /\ rung' = [rung EXCEPT ![o] = 1]

BackendSelected ==
  /\ model = "selecting"
  /\ model' = "creating"
  /\ pc' = [pc EXCEPT ![Base] = "acquiring"]
  /\ Begin(Base)
  /\ UNCHANGED <<fixed, modelAborted, structured, late, live>>

SelectionFails ==
  /\ model = "selecting"
  /\ model' = "failed"
  /\ UNCHANGED <<fixed, modelAborted, pc, structured, attempt, rung, late, live>>

\* The model's signal: the caller's, or the deadline of withOdaiModel.  Until
\* the model is ready createOdaiModel fails with it; withOdaiModel then ends,
\* while a model without a deadline stays and refuses further requests.
AbortModel ==
  /\ ~ modelAborted
  /\ model \notin {"idle", "failed"}
  /\ Stops(IF model # "ready" THEN "failed" ELSE IF interactive THEN "finished" ELSE "ready")
  /\ UNCHANGED <<fixed, structured, attempt, rung>>

\* The callback of withOdaiModel settles: what it still waits for is aborted.
Finish ==
  /\ interactive
  /\ model = "ready"
  /\ Stops("finished")
  /\ UNCHANGED <<fixed, structured, attempt, rung>>

----------------------------------------------------------------------------
(* Requests.                                                               *)

\* A request after the model's signal aborted is refused at once.
RequestBegins(r) ==
  /\ pc[r] = "idle"
  /\ model \in {"ready", "finished"}
  /\ IF modelAborted
     THEN pc' = [pc EXCEPT ![r] = "settled"] /\ UNCHANGED <<attempt, rung>>
     ELSE pc' = [pc EXCEPT ![r] = "acquiring"] /\ Begin(r)
  /\ UNCHANGED <<fixed, model, modelAborted, structured, late, live>>

AbortRequest(r) ==
  /\ Active(r)
  /\ GiveUp({r})
  /\ UNCHANGED <<fixed, model, modelAborted, structured, attempt, rung>>

\* A reply that cannot be parsed costs its session; the next attempt begins
\* with a fresh one.
NextAttempt(r) ==
  /\ pc[r] = "prompting" /\ r \in structured
  /\ attempt[r] < MaxAttempts
  /\ live' = live \ {SessionOf(r)}
  /\ pc' = [pc EXCEPT ![r] = "acquiring"]
  /\ Begin(r)
  /\ UNCHANGED <<fixed, model, modelAborted, structured, late>>

\* A usable reply, the last unusable one, or an error.
RequestEnds(r) ==
  /\ pc[r] = "prompting"
  /\ GiveUp({r})
  /\ UNCHANGED <<fixed, model, modelAborted, structured, attempt, rung>>

----------------------------------------------------------------------------
(* The name detection.                                                     *)

\* finish(): once, and the creation goes on if it still waits for it.
ProbeEnds ==
  /\ GiveUp({NameProbe})
  /\ model' = IF model = "detecting" THEN "ready" ELSE model
  /\ UNCHANGED <<fixed, modelAborted, structured, attempt, rung>>

ProbeAnswers == pc[NameProbe] = "prompting" /\ ProbeEnds

ProbeTimer == Active(NameProbe) /\ ProbeEnds

----------------------------------------------------------------------------
(* The provider makes a session for owner o, or refuses to.                *)

Arrives(o) ==
  /\ pc[o] = "acquiring"
  /\ pc' = [[pc EXCEPT ![o] = "prompting"] EXCEPT
       ![NameProbe] = IF o = Base /\ ~ interactive THEN "acquiring" ELSE @]
  /\ live' = live \cup {SessionOf(o)}
  /\ IF o = Base
     THEN /\ model' = IF interactive THEN "ready" ELSE "detecting"
          /\ IF interactive THEN UNCHANGED <<attempt, rung>> ELSE Begin(NameProbe)
     ELSE UNCHANGED <<model, attempt, rung>>
  /\ UNCHANGED <<fixed, modelAborted, structured, late>>

\* Mutant: awaitCancellable has no disposeLate.
ArrivesLateKept(o) ==
  /\ o \in late
  /\ late' = late \ {o}
  /\ live' = live \cup {SessionOf(o)}
  /\ UNCHANGED <<fixed, model, modelAborted, pc, structured, attempt, rung>>

\* Nobody waits: disposeLate.
ArrivesLate(o) ==
  /\ o \in late
  /\ late' = late \ {o}
  /\ UNCHANGED <<fixed, model, modelAborted, pc, structured, attempt, rung, live>>

\* An unsupported option: the next rung.
Unsupported(o) ==
  /\ pc[o] = "acquiring" /\ ByLadder(o)
  /\ rung[o] < 3
  /\ rung' = [rung EXCEPT ![o] = @ + 1]
  /\ UNCHANGED <<fixed, model, modelAborted, pc, structured, attempt, late, live>>

\* Any other failure, or the last rung.
SessionFails(o) ==
  /\ pc[o] = "acquiring"
  /\ pc' = [pc EXCEPT ![o] = "settled"]
  /\ model' = CASE o = Base -> "failed"
                [] o = NameProbe /\ model = "detecting" -> "ready"
                [] OTHER -> model
  /\ UNCHANGED <<fixed, modelAborted, structured, attempt, rung, late, live>>

Provider(o) == Arrives(o) \/ ArrivesLate(o) \/ Unsupported(o) \/ SessionFails(o)

----------------------------------------------------------------------------

ModelNext ==
  \/ CreateModel \/ BackendSelected \/ SelectionFails \/ AbortModel \/ Finish
  \/ \E r \in Requests : RequestBegins(r) \/ AbortRequest(r) \/ NextAttempt(r) \/ RequestEnds(r)
  \/ ProbeAnswers \/ ProbeTimer
  \/ \E o \in Owners : Provider(o)

\* Timers fire: the five seconds of the detection and, in withOdaiModel, the
\* deadline.  The provider need never answer.
Timers == WF_modelVars(ProbeTimer) /\ WF_modelVars(interactive /\ AbortModel)

ModelSpec == ModelInit /\ [][ModelNext]_modelVars
TimerSpec == ModelSpec /\ Timers

----------------------------------------------------------------------------
(* Properties.                                                             *)

\* The sessions that live are those in use: the base session of a model that
\* exists, the probe while the detection runs, one for each request that
\* prompts.  None is lost to a cancelled creation, a late arrival, a failed
\* attempt or a detection that timed out, and none is destroyed under its
\* owner.
SessionsMatchOwners ==
  /\ live = SessionsInUse
  /\ SessionOf(Base) \in live <=> model \in {"detecting", "ready"}

\* withOdaiModel ends by its deadline whatever the provider does: selection,
\* creation and callback are all awaited against it.
InteractiveEnds ==
  interactive /\ model # "idle" ~> model \in {"failed", "finished"}

\* The detection of the model's name delays createOdaiModel by its timer at
\* most, though neither the probe session nor its answer may come.
DetectionEnds == model = "detecting" ~> model # "detecting"

\* A model that failed or finished leaves no session behind, not even with a
\* provider that answers late: requests and creation are cancelled, and the
\* probe, which the signal may not reach, has its own timer.
EndedModelFreesSessions ==
  model \in {"failed", "finished"} ~> [](live = {})

\* What is begun for a model comes to an end within its timers.
ModelWorkEnds == InteractiveEnds /\ DetectionEnds /\ EndedModelFreesSessions

=============================================================================
