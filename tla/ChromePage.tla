----------------------------- MODULE ChromePage -----------------------------
(***************************************************************************)
(* The bridge to a model in a Chrome page (src/backends/chrome-page).  The *)
(* host keeps session objects and operations; the page keeps the native    *)
(* sessions and a registry of abortable operations.  They share nothing    *)
(* but page.evaluate: a request and its reply are each delivered once,     *)
(* some time, in any order.                                                *)
(*                                                                         *)
(* A create() call and its session have one name here, as have a clone()   *)
(* call and its session; the code numbers all of them, and the operations, *)
(* from one counter that is never reset, so no name is used twice.         *)
(***************************************************************************)
EXTENDS FiniteSets

CONSTANTS
  Created,          \* sessions, each made by one create() call
  Clones,           \* sessions, each made by one clone() call
  Prompts,          \* prompt() calls
  Source,           \* Source[c]: the session that clone() call c is made on
  On,               \* On[p]: the session that prompt() call p is made on
  Abortable,        \* the create() and prompt() calls that carry a signal
  MicrotaskAborts   \* whether a signal may abort between two microtasks

Sessions == Created \cup Clones
Operations == (Created \cap Abortable) \cup Prompts
Calls == Sessions \cup Prompts

ASSUME ChromePageAssumption ==
  /\ Created \cap Clones = {}
  /\ Prompts \cap Sessions = {}
  /\ Source \in [Clones -> Sessions]
  /\ On \in [Prompts -> Sessions]
  /\ Abortable \subseteq Created \cup Prompts
  /\ MicrotaskAborts \in BOOLEAN

VARIABLES
  call,        \* call[x]: where the host's code for call x is
  outcome,     \* outcome[x]: what the caller of x was told
  signal,      \* the signals that are aborted
  host,        \* host[s]: the host's session object
  wire,        \* evaluate requests and replies on their way
  registered,  \* the page's registry of operations, __odaiOperations
  stopped,     \* operations whose page-side controller is aborted
  work,        \* work[x]: the native call the page makes for x
  native       \* native[s]: the page's session, "alive" while in __odaiSessions

hostVars == <<call, outcome, signal, host>>
pageVars == <<registered, stopped, work, native>>
vars == <<hostVars, wire, pageVars>>

SessionOf(o) == IF o \in Prompts THEN On[o] ELSE o

Request(fn, x) == [fn |-> fn, about |-> x]
Reply(fn, x, ok) == [fn |-> fn, about |-> x, ok |-> ok]

Requests == [fn : {"begin", "run", "cancel", "clone", "destroy"}, about : Calls]
Replies == [fn : {"begun", "ran", "cloned"}, about : Calls, ok : BOOLEAN]

Settled(x) == outcome[x] # "none"

\* The page receives request m and answers it at once, if answers is a reply.
Exchange(m, answers) == m \in wire /\ wire' = (wire \ {m}) \cup answers

Init ==
  /\ call = [x \in Calls |-> "idle"]
  /\ outcome = [x \in Calls |-> "none"]
  /\ signal = {}
  /\ host = [s \in Sessions |-> "none"]
  /\ wire = {}
  /\ registered = {}
  /\ stopped = {}
  /\ work = [x \in Calls |-> "none"]
  /\ native = [s \in Sessions |-> "none"]

----------------------------------------------------------------------------
(* The host.                                                               *)

\* createPageOperation: an aborted signal ends the call before it begins.
StartOperation(o) ==
  IF o \in signal
  THEN /\ call' = [call EXCEPT ![o] = "over"]
       /\ outcome' = [outcome EXCEPT ![o] = "aborted"]
       /\ UNCHANGED wire
  ELSE /\ call' = [call EXCEPT ![o] = "beginning"]
       /\ wire' = wire \cup {Request("begin", o)}
       /\ UNCHANGED outcome

\* create(): without a signal there is no operation.
Create(s) ==
  /\ s \in Created
  /\ call[s] = "idle"
  /\ IF s \in Abortable
     THEN StartOperation(s)
     ELSE /\ call' = [call EXCEPT ![s] = "invoking"]
          /\ wire' = wire \cup {Request("run", s)}
          /\ UNCHANGED outcome
  /\ UNCHANGED <<signal, host, pageVars>>

Prompt(p) ==
  /\ p \in Prompts
  /\ call[p] = "idle"
  /\ host[On[p]] = "open"
  /\ StartOperation(p)
  /\ UNCHANGED <<signal, host, pageVars>>

Clone(c) ==
  /\ c \in Clones
  /\ call[c] = "idle"
  /\ host[Source[c]] = "open"
  /\ call' = [call EXCEPT ![c] = "invoking"]
  /\ wire' = wire \cup {Request("clone", c)}
  /\ UNCHANGED <<outcome, signal, host, pageVars>>

\* The operations that cancel() rejects; those whose registration has not
\* been confirmed are cancelled on the page once it is (Begun).
Cancels(ops) == {Request("cancel", o) : o \in {o \in ops : call[o] # "beginning"}}

\* The caller aborts a signal.
Abort(o) ==
  /\ o \in Abortable \ signal
  /\ ~Settled(o)
  /\ call[o] = "returned" => MicrotaskAborts
  /\ signal' = signal \cup {o}
  /\ IF call[o] = "idle"
     THEN UNCHANGED <<outcome, wire>>
     ELSE /\ outcome' = [outcome EXCEPT ![o] = "aborted"]
          /\ wire' = wire \cup Cancels({o})
  /\ UNCHANGED <<call, host, pageVars>>

\* Mutant: an operation cancelled early is forgotten.
BegunForgetsCancel(o, ok) ==
  /\ call[o] = "beginning"
  /\ IF ok /\ ~Settled(o)
     THEN /\ Exchange(Reply("begun", o, ok), {Request("run", o)})
          /\ call' = [call EXCEPT ![o] = "invoking"]
          /\ UNCHANGED outcome
     ELSE /\ Exchange(Reply("begun", o, ok), {})
          /\ call' = [call EXCEPT ![o] = "over"]
          /\ outcome' = [outcome EXCEPT ![o] = IF Settled(o) THEN @ ELSE "error"]
  /\ UNCHANGED <<signal, host, pageVars>>

\* The reply to pageBeginOperation.
Begun(o, ok) ==
  /\ call[o] = "beginning"
  /\ IF ok /\ ~Settled(o)
     THEN /\ Exchange(Reply("begun", o, ok), {Request("run", o)})
          /\ call' = [call EXCEPT ![o] = "invoking"]
          /\ UNCHANGED outcome
     ELSE /\ Exchange(Reply("begun", o, ok), {Request("cancel", o)})
          /\ call' = [call EXCEPT ![o] = "over"]
          /\ outcome' = [outcome EXCEPT ![o] = IF Settled(o) THEN @ ELSE "error"]
  /\ UNCHANGED <<signal, host, pageVars>>

\* Mutant: a reply that comes after the operation was cancelled counts.
PromptedLate(p, ok) ==
  /\ p \in Prompts
  /\ Exchange(Reply("ran", p, ok), {})
  /\ call' = [call EXCEPT ![p] = "over"]
  /\ outcome' = [outcome EXCEPT ![p] = IF ok THEN "value" ELSE "error"]
  /\ UNCHANGED <<signal, host, pageVars>>

\* The reply to pagePrompt.
Prompted(p, ok) ==
  /\ p \in Prompts
  /\ Exchange(Reply("ran", p, ok), {})
  /\ call' = [call EXCEPT ![p] = "over"]
  /\ outcome' = [outcome EXCEPT ![p] = IF Settled(p) THEN @ ELSE IF ok THEN "value" ELSE "error"]
  /\ UNCHANGED <<signal, host, pageVars>>

\* Mutant: a session that comes too late is not destroyed.
SessionCreatedUnwanted(s, ok) ==
  /\ s \in Created
  /\ Exchange(Reply("ran", s, ok), {})
  /\ call' = [call EXCEPT ![s] = IF ok /\ s \notin signal THEN "returned" ELSE "over"]
  /\ outcome' = [outcome EXCEPT ![s] = IF Settled(s) \/ ok THEN @ ELSE "error"]
  /\ UNCHANGED <<signal, host, pageVars>>

\* The reply to pageCreateSession, in create()'s invoke: with an aborted
\* signal the session is destroyed and the operation cancelled once more.
SessionCreated(s, ok) ==
  /\ s \in Created
  /\ Exchange(Reply("ran", s, ok),
       IF s \in signal THEN {Request("destroy", s), Request("cancel", s)} ELSE {})
  /\ call' = [call EXCEPT ![s] = IF ok /\ s \notin signal THEN "returned" ELSE "over"]
  /\ outcome' = [outcome EXCEPT ![s] = IF Settled(s) \/ ok THEN @ ELSE "error"]
  /\ UNCHANGED <<signal, host, pageVars>>

\* The continuation of createPageOperation that waits for invoke.
Deliver(s) ==
  /\ call[s] = "returned"
  /\ call' = [call EXCEPT ![s] = "over"]
  /\ IF Settled(s)
     THEN UNCHANGED <<outcome, host>>
     ELSE /\ outcome' = [outcome EXCEPT ![s] = "value"]
          /\ host' = [host EXCEPT ![s] = "open"]
  /\ UNCHANGED <<signal, wire, pageVars>>

\* Mutant: the clone of a destroyed session is destroyed and handed out.
ClonedAnyway(c, ok) ==
  LET wanted == host[Source[c]] = "open"
  IN /\ Exchange(Reply("cloned", c, ok),
                 IF ok /\ ~wanted THEN {Request("destroy", c)} ELSE {})
     /\ call' = [call EXCEPT ![c] = "over"]
     /\ outcome' = [outcome EXCEPT ![c] = IF ok THEN "value" ELSE "error"]
     /\ host' = [host EXCEPT ![c] = IF ok THEN "open" ELSE @]
     /\ UNCHANGED <<signal, pageVars>>

\* The reply to pageCloneSession.
Cloned(c, ok) ==
  LET wanted == host[Source[c]] = "open"
  IN /\ Exchange(Reply("cloned", c, ok),
                 IF ok /\ ~wanted THEN {Request("destroy", c)} ELSE {})
     /\ call' = [call EXCEPT ![c] = "over"]
     /\ outcome' = [outcome EXCEPT ![c] = IF ok /\ wanted THEN "value" ELSE "error"]
     /\ host' = [host EXCEPT ![c] = IF ok /\ wanted THEN "open" ELSE @]
     /\ UNCHANGED <<signal, pageVars>>

\* The operations in a session's set of active ones.
Active(s) == {p \in Prompts : On[p] = s /\ call[p] \in {"beginning", "invoking"} /\ ~Settled(p)}

\* destroy() of the host's session object.
Destroy(s) ==
  /\ host[s] = "open"
  /\ host' = [host EXCEPT ![s] = "destroyed"]
  /\ outcome' = [x \in Calls |-> IF x \in Active(s) THEN "aborted" ELSE outcome[x]]
  /\ wire' = wire \cup Cancels(Active(s)) \cup {Request("destroy", s)}
  /\ UNCHANGED <<call, signal, pageVars>>

----------------------------------------------------------------------------
(* The page.                                                               *)

\* Aborting a controller takes its operation out of the registry.
StopOperations(ops) ==
  /\ registered' = registered \ ops
  /\ stopped' = stopped \cup (ops \cap registered)

PageBeginOperation(o) ==
  LET known == o \in Created \/ native[SessionOf(o)] = "alive"
  IN /\ Exchange(Request("begin", o), {Reply("begun", o, known)})
     /\ registered' = IF known THEN registered \cup {o} ELSE registered
     /\ UNCHANGED <<hostVars, stopped, work, native>>

PageCancelOperation(o) ==
  /\ Exchange(Request("cancel", o), {})
  /\ StopOperations({o})
  /\ UNCHANGED <<hostVars, work, native>>

\* Mutant: what is refused is not answered.
PageRunSilent(x) ==
  LET known == x \in Created \/ native[SessionOf(x)] = "alive"
      wanted == x \in Operations => x \in registered
  IN /\ Exchange(Request("run", x), {})
     /\ work' = [work EXCEPT ![x] = IF known /\ wanted THEN "running" ELSE "over"]
     /\ registered' = IF known THEN registered ELSE registered \ {x}
     /\ UNCHANGED <<hostVars, stopped, native>>

\* pageCreateSession and pagePrompt: what they refuse, and their native call.
PageRun(x) ==
  LET known == x \in Created \/ native[SessionOf(x)] = "alive"
      wanted == x \in Operations => x \in registered
  IN /\ Exchange(Request("run", x), IF known /\ wanted THEN {} ELSE {Reply("ran", x, FALSE)})
     /\ work' = [work EXCEPT ![x] = IF known /\ wanted THEN "running" ELSE "over"]
     /\ registered' = IF known THEN registered ELSE registered \ {x}
     /\ UNCHANGED <<hostVars, stopped, native>>

\* The native create() settles; a session for an aborted operation is destroyed.
NativeCreates(s, ok) ==
  LET kept == ok /\ s \notin stopped
  IN /\ s \in Created
     /\ work[s] = "running"
     /\ work' = [work EXCEPT ![s] = "over"]
     /\ native' = [native EXCEPT ![s] = IF kept THEN "alive" ELSE @]
     /\ registered' = registered \ {s}
     /\ wire' = wire \cup {Reply("ran", s, kept)}
     /\ UNCHANGED <<hostVars, stopped>>

\* Mutant: pagePrompt waits for the native prompt only.
PageAbortsNothing(p) ==
  /\ p \in Prompts \cap stopped
  /\ work[p] = "over"
  /\ UNCHANGED vars

\* pagePrompt stops waiting as soon as its controller is aborted.  Nothing
\* makes pageCreateSession stop but the native create().
PageAborts(p) ==
  /\ p \in Prompts \cap stopped
  /\ work[p] = "running"
  /\ work' = [work EXCEPT ![p] = "over"]
  /\ wire' = wire \cup {Reply("ran", p, FALSE)}
  /\ UNCHANGED <<hostVars, registered, stopped, native>>

\* The native prompt() settles.
NativeAnswers(p, ok) ==
  /\ p \in Prompts
  /\ work[p] = "running"
  /\ work' = [work EXCEPT ![p] = "over"]
  /\ registered' = registered \ {p}
  /\ wire' = wire \cup {Reply("ran", p, ok)}
  /\ UNCHANGED <<hostVars, stopped, native>>

PageCloneSession(c) ==
  LET known == native[Source[c]] = "alive"
  IN /\ Exchange(Request("clone", c), IF known THEN {} ELSE {Reply("cloned", c, FALSE)})
     /\ work' = [work EXCEPT ![c] = IF known THEN "running" ELSE "over"]
     /\ UNCHANGED <<hostVars, registered, stopped, native>>

\* The native clone() settles; the clone of a session that is gone goes too.
NativeClones(c, ok) ==
  LET kept == ok /\ native[Source[c]] = "alive"
  IN /\ c \in Clones
     /\ work[c] = "running"
     /\ work' = [work EXCEPT ![c] = "over"]
     /\ native' = [native EXCEPT ![c] = IF kept THEN "alive" ELSE @]
     /\ wire' = wire \cup {Reply("cloned", c, kept)}
     /\ UNCHANGED <<hostVars, registered, stopped>>

PageDestroySession(s) ==
  /\ Exchange(Request("destroy", s), {})
  /\ native' = [native EXCEPT ![s] = IF @ = "alive" THEN "destroyed" ELSE @]
  /\ StopOperations({o \in Operations : SessionOf(o) = s})
  /\ UNCHANGED <<hostVars, work>>

----------------------------------------------------------------------------
Caller ==
  \/ \E s \in Sessions : Create(s) \/ Clone(s) \/ Destroy(s)
  \/ \E p \in Prompts : Prompt(p)
  \/ \E o \in Operations : Abort(o)

\* What the host and the page do with what has arrived.
Due(x) ==
  \/ \E ok \in BOOLEAN :
       \/ x \in Operations /\ Begun(x, ok)
       \/ Prompted(x, ok)
       \/ SessionCreated(x, ok)
       \/ x \in Clones /\ Cloned(x, ok)
  \/ Deliver(x)
  \/ PageBeginOperation(x)
  \/ PageCancelOperation(x)
  \/ PageRun(x)
  \/ PageAborts(x)
  \/ x \in Clones /\ PageCloneSession(x)
  \/ x \in Sessions /\ PageDestroySession(x)

\* What the native model does when it likes.
Native(x) ==
  \E ok \in BOOLEAN : NativeCreates(x, ok) \/ NativeAnswers(x, ok) \/ NativeClones(x, ok)

Next == Caller \/ \E x \in Calls : Due(x) \/ Native(x)

Spec == Init /\ [][Next]_vars

\* The event loops of host and page run, and what evaluate sends arrives.
\* Nothing is assumed of the callers and of the native model.
Delivery == \A x \in Calls : WF_vars(Due(x))

DeliverySpec == Spec /\ Delivery

----------------------------------------------------------------------------
(* Properties                                                              *)

TypeOK ==
  /\ call \in [Calls -> {"idle", "beginning", "invoking", "returned", "over"}]
  /\ outcome \in [Calls -> {"none", "value", "error", "aborted"}]
  /\ signal \subseteq Operations
  /\ host \in [Sessions -> {"none", "open", "destroyed"}]
  /\ wire \subseteq Requests \cup Replies
  /\ registered \subseteq Operations
  /\ stopped \subseteq Operations
  /\ work \in [Calls -> {"none", "running", "over"}]
  /\ native \in [Sessions -> {"none", "alive", "destroyed"}]

\* The page never destroys a session that its caller still holds open,
\* whichever aborts and late replies preceded it (factory.mts:103, 142).
HostSessionIsBacked ==
  \A s \in Sessions : host[s] = "open" => native[s] = "alive"

\* No session is left behind on the page: one that is alive is held by the
\* caller, or is about to be handed over, or is about to be destroyed.
NoPageSessionLeaks ==
  \A s \in Sessions : native[s] = "alive" =>
    \/ host[s] = "open"
    \/ Reply("ran", s, TRUE) \in wire \/ Reply("cloned", s, TRUE) \in wire
    \/ call[s] = "returned" /\ ~Settled(s)
    \/ Request("destroy", s) \in wire

\* An operation is released on the page once its caller has an answer: its
\* cancellation is on the way there, or follows the registration's receipt
\* (operation.mts:40, "an early abort cannot miss its controller").
SettledMeansReleased ==
  \A o \in Operations : (Settled(o) /\ o \in registered) =>
    Request("cancel", o) \in wire \/ Reply("begun", o, TRUE) \in wire

\* Something of what is Due can happen for call x.
HasDue(x) ==
  \/ \E m \in wire : m.about = x
  \/ call[x] = "returned"
  \/ x \in Prompts \cap stopped /\ work[x] = "running"

\* No call is lost between host and page: one under way waits for a step that
\* is due or for the native model, and what was given up waits for neither --
\* a prompt or a creation that was answered has nothing registered and no
\* prompt at work, a destroyed session is gone -- once nothing is due for it.
NoCallIsLost ==
  /\ \A x \in Calls : call[x] \in {"beginning", "invoking"} => HasDue(x) \/ work[x] = "running"
  /\ \A o \in Operations : Settled(o) /\ ~ HasDue(o) =>
       o \notin registered /\ (o \in Prompts => work[o] # "running")
  /\ \A s \in Sessions : host[s] = "destroyed" /\ ~ HasDue(s) => native[s] = "destroyed"

\* What was answered is let go of, and what was not goes on.
CallsGoOn == SettledMeansReleased /\ NoCallIsLost

\* A prompt gives its value only while its session is open and its signal is
\* not aborted, although the page answers after either.
ValuesComeInTime ==
  [][\A p \in Prompts :
       (outcome[p] # "value" /\ outcome'[p] = "value")
         => host[On[p]] = "open" /\ p \notin signal /\ outcome[p] = "none"]_vars

\* A native prompt never runs on a session that was destroyed before it
\* started, and never for a call that was cancelled before it was registered.
PromptsRunByInvitation ==
  [][\A p \in Prompts :
       (work[p] # "running" /\ work'[p] = "running")
         => call[p] = "invoking" /\ native[On[p]] = "alive" /\ p \in registered]_vars

\* A prompt runs only for a call that waits for it, and its value counts only
\* for one that still does.
PromptsKeepTheirTime == ValuesComeInTime /\ PromptsRunByInvitation

\* Cancelling reaches the page: nothing works for ever on a prompt that was
\* answered, and no controller stays registered for it, also when the native
\* prompt never settles.
CancelReachesPage ==
  \A p \in Prompts : Settled(p) ~> [](work[p] # "running" /\ p \notin registered)

\* A session its caller has destroyed ends on the page.
DestroyedSessionsEnd ==
  \A s \in Sessions : host[s] = "destroyed" ~> native[s] = "destroyed"

\* What the caller has given up ends on the page.
PageWorkEnds == CancelReachesPage /\ DestroyedSessionsEnd
=============================================================================
