----------------------------- MODULE AppleShim -----------------------------
(***************************************************************************)
(* The Apple Foundation Models session over a Swift child process          *)
(* (apple-fm-shim.mts: createShimSession, spawnShim) and the availability  *)
(* probe that drives a child of its own (apple-fm.mts: probeAppleFm).      *)
(*                                                                         *)
(* A child answers one line per request line; the host matches an answer   *)
(* with the oldest request it has pending.  The child may crash, stay      *)
(* silent, refuse, or print a line that is no JSON at any point.  Every    *)
(* call spawns at most one child, so a child has the name of the call that *)
(* spawned it, and a reply the name of the call whose request it answers.  *)
(***************************************************************************)
EXTENDS Naturals, FiniteSets, SequencesExt

CONSTANTS
  Prompts,  \* calls of prompt() on one session
  Probes,   \* calls of probeAppleFm()
  MaxCalls, \* bound on the calls that start
  None

Calls == Prompts \cup Probes
Request == [op : {"create", "prompt", "availability"}, call : Calls]
Failures == {"failed", "unreadable", "timedout"}
Answer == {"ok", "error", "garbage"}

ASSUME AppleShimAssumption ==
  /\ Prompts \cap Probes = {}
  /\ MaxCalls \in Nat
  /\ None \notin Calls \cup Failures
  /\ Calls \cap Failures = {}

VARIABLES
  handle,     \* the session's child, or None
  destroyed,  \* destroy() came after the last call of prompt()
  call,       \* call[c]: where the call is, on which child, and its outcome
  child       \* child[s]: the process, its pipes and the host's pending replies

vars == <<handle, destroyed, call, child>>

CallState ==
  [pc : {"idle", "create", "prompt", "availability", "settled"},
   shim : Calls \cup {None},
   result : Calls \cup Failures \cup {None},
   displaced : Calls \cup {None}]  \* the handle its create reply replaced

ChildState ==
  [process : {"none", "running", "gone"}, killed : BOOLEAN, exited : BOOLEAN,
   stdin : Seq(Request), stdout : Seq([request : Request, answer : Answer]),
   pending : Seq(Request), timers : SUBSET Request]

\* Types, and a call has an outcome exactly when it is over (the promises of
\* request() and promptOnce() settle with a value or an error).
TypeOK ==
  /\ handle \in Calls \cup {None}
  /\ destroyed \in BOOLEAN
  /\ call \in [Calls -> CallState]
  /\ \A c \in Calls : call[c].pc = "settled" <=> call[c].result # None
  /\ child \in [Calls -> ChildState]

Init ==
  /\ handle = None
  /\ destroyed = FALSE
  /\ call = [c \in Calls |->
       [pc |-> "idle", shim |-> None, result |-> None, displaced |-> None]]
  /\ child = [c \in Calls |->
       [process |-> "none", killed |-> FALSE, exited |-> FALSE,
        stdin |-> <<>>, stdout |-> <<>>, pending |-> <<>>, timers |-> {}]]

Req(op, c) == [op |-> op, call |-> c]

----------------------------------------------------------------------------
(* Effects on one child and on its calls.                                  *)

\* request(): the entry, its timer and the line.
Post(s, r) ==
  [s EXCEPT !.pending = Append(@, r), !.timers = @ \cup {r}, !.stdin = Append(@, r)]

\* Mutant: the entry of a request that failed stays.
ForgetTimer(s, r) == [s EXCEPT !.timers = @ \ {r}]

\* The entry of r leaves the pending replies, if it is still there.
Forget(s, r) == [s EXCEPT !.pending = RemoveFirst(@, r), !.timers = @ \ {r}]

\* A signal to a process that is gone does nothing.
Kill(s) == [s EXCEPT !.killed = @ \/ s.process = "running"]

\* dispose()
Dispose(s) == IF s.exited THEN s ELSE Kill(s)

\* Does call c wait for the answer to r?
Awaits(c, r) == r.call = c /\ r.op = call[c].pc

Outcome(c, result) == [call[c] EXCEPT !.pc = "settled", !.result = result]

\* The promises of requests rs are rejected, and the calls that wait for them.
Rejected(rs, why) ==
  [c \in Calls |-> IF \E r \in rs : Awaits(c, r) THEN Outcome(c, why) ELSE call[c]]

\* A probe disposes of its child whatever the answer was.
AfterProbe(s, r) == IF r.op = "availability" THEN Dispose(s) ELSE s

----------------------------------------------------------------------------
(* Calls.                                                                  *)

MayStart(c) ==
  call[c].pc = "idle" /\ Cardinality({d \in Calls : call[d].pc # "idle"}) < MaxCalls

\* Call c spawns its child and posts its first request.  When the command
\* cannot be spawned there is no stdin pipe and the request is refused.
Spawn(c, op) ==
  \E spawns \in BOOLEAN :
    IF spawns
    THEN /\ child' = [child EXCEPT ![c] = Post([@ EXCEPT !.process = "running"], Req(op, c))]
         /\ call' = [call EXCEPT ![c] = [@ EXCEPT !.pc = op, !.shim = c]]
    ELSE /\ child' = [child EXCEPT ![c].process = "gone"]
         /\ call' = [call EXCEPT ![c] = [Outcome(c, "failed") EXCEPT !.shim = c]]

\* ensureHandle() of a session without a handle.
Create(p) ==
  /\ p \in Prompts
  /\ MayStart(p)
  /\ handle = None
  /\ Spawn(p, "create")
  /\ destroyed' = FALSE
  /\ UNCHANGED handle

\* promptOnce() on a handle: an exited child refuses at once.
Prompt(p) ==
  /\ p \in Prompts
  /\ MayStart(p)
  /\ handle # None
  /\ IF child[handle].exited
     THEN /\ call' = [call EXCEPT ![p] = [Outcome(p, "failed") EXCEPT !.shim = handle]]
          /\ UNCHANGED child
     ELSE /\ call' = [call EXCEPT ![p] = [@ EXCEPT !.pc = "prompt", !.shim = handle]]
          /\ child' = [child EXCEPT ![handle] = Post(@, Req("prompt", p))]
  /\ destroyed' = FALSE
  /\ UNCHANGED handle

Probe(p) ==
  /\ p \in Probes
  /\ MayStart(p)
  /\ Spawn(p, "availability")
  /\ UNCHANGED <<handle, destroyed>>

Destroy ==
  /\ \E p \in Prompts : call[p].pc # "idle"
  /\ IF handle = None THEN UNCHANGED child
     ELSE child' = [child EXCEPT ![handle] = Dispose(@)]
  /\ handle' = None
  /\ destroyed' = TRUE
  /\ UNCHANGED call

----------------------------------------------------------------------------
(* The host's events for child s.                                          *)

\* Mutant: a line is given to the newest pending entry.
Newest(s) == Last(child[s].pending)

\* The reply that a line of s is given to: the oldest pending one.
Oldest(s) == Head(child[s].pending)

\* Child s after its next line was given to the oldest entry.
Shifted(s) ==
  [child[s] EXCEPT !.stdout = Tail(@), !.pending = Tail(@), !.timers = @ \ {Oldest(s)}]

Line(s) == Head(child[s].stdout)

HasLine(s) == child[s].stdout # <<>>
HasReply(s, op) == HasLine(s) /\ child[s].pending # <<>> /\ Oldest(s).op = op

\* A line that nothing waits for is dropped.
Unsolicited(s) ==
  /\ HasLine(s)
  /\ child[s].pending = <<>>
  /\ child' = [child EXCEPT ![s].stdout = Tail(@)]
  /\ UNCHANGED <<handle, destroyed, call>>

\* A line that is no JSON: the child stays as it is, except a probe's.
Unreadable(s) ==
  /\ HasLine(s)
  /\ child[s].pending # <<>>
  /\ Line(s).answer = "garbage"
  /\ child' = [child EXCEPT ![s] = AfterProbe(Shifted(s), Oldest(s))]
  /\ call' = Rejected({Oldest(s)}, "unreadable")
  /\ UNCHANGED <<handle, destroyed>>

\* ensureHandle() goes on with the handle, and promptOnce() posts its prompt.
Created(s) ==
  /\ HasReply(s, "create")
  /\ Line(s).answer = "ok"
  /\ LET c == Oldest(s).call
     IN /\ child' = [child EXCEPT ![s] = Post(Shifted(s), Req("prompt", c))]
        /\ call' = [call EXCEPT ![c] = [@ EXCEPT !.pc = "prompt", !.displaced = handle]]
  /\ handle' = s
  /\ UNCHANGED destroyed

\* Mutant: a refused create does not dispose of its child.
CreateRefusedKept(s) ==
  /\ HasReply(s, "create")
  /\ Line(s).answer = "error"
  /\ child' = [child EXCEPT ![s] = Shifted(s)]
  /\ call' = Rejected({Oldest(s)}, "failed")
  /\ UNCHANGED <<handle, destroyed>>

CreateRefused(s) ==
  /\ HasReply(s, "create")
  /\ Line(s).answer = "error"
  /\ child' = [child EXCEPT ![s] = Dispose(Shifted(s))]
  /\ call' = Rejected({Oldest(s)}, "failed")
  /\ UNCHANGED <<handle, destroyed>>

\* The reply to a prompt or to a probe.
Replied(s) ==
  /\ HasReply(s, "prompt") \/ HasReply(s, "availability")
  /\ Line(s).answer # "garbage"
  /\ LET r == Oldest(s)
         result == IF Line(s).answer = "ok" THEN Line(s).request.call ELSE "failed"
     IN /\ child' = [child EXCEPT ![s] = AfterProbe(Shifted(s), r)]
        /\ call' = [call EXCEPT ![r.call] = Outcome(r.call, result)]
  /\ UNCHANGED <<handle, destroyed>>

\* The write of a line into the pipe of a process that is gone fails.
WriteFails(s) ==
  /\ child[s].process = "gone"
  /\ child[s].stdin # <<>>
  /\ LET r == Head(child[s].stdin)
         t == [child[s] EXCEPT !.stdin = Tail(@)]
     IN /\ child' = [child EXCEPT ![s] = AfterProbe(Forget(t, r), r)]
        /\ call' = Rejected({r}, "failed")
  /\ UNCHANGED <<handle, destroyed>>

Timeout(s, r) ==
  /\ r \in child[s].timers
  /\ child' = [child EXCEPT ![s] = Kill(Forget(@, r))]
  /\ call' = Rejected({r}, "timedout")
  /\ UNCHANGED <<handle, destroyed>>

\* The spawn promise settles once the process is gone and its output read:
\* failAll() rejects what is pending.
Closed(s) ==
  /\ child[s].process = "gone" /\ ~ child[s].exited /\ child[s].stdout = <<>>
  /\ child' = [child EXCEPT ![s] = [@ EXCEPT !.exited = TRUE, !.pending = <<>>, !.timers = {}]]
  /\ call' = Rejected(ToSet(child[s].pending), "failed")
  /\ UNCHANGED <<handle, destroyed>>

----------------------------------------------------------------------------
(* The Swift process.                                                      *)

\* One reply object per request line, in order.
Serve(s) ==
  /\ child[s].process = "running"
  /\ child[s].stdin # <<>>
  /\ \E answer \in Answer :
       child' = [child EXCEPT
         ![s].stdin = Tail(@),
         ![s].stdout = Append(@, [request |-> Head(child[s].stdin), answer |-> answer])]
  /\ UNCHANGED <<handle, destroyed, call>>

\* It is killed, or crashes.  What was written into its pipe is lost without
\* a word; a write still under way fails.
Dies(s) ==
  /\ child[s].process = "running"
  /\ \E lost \in 0 .. Len(child[s].stdin) :
       child' = [child EXCEPT
         ![s].process = "gone",
         ![s].stdin = SubSeq(@, lost + 1, Len(@))]
  /\ UNCHANGED <<handle, destroyed, call>>

----------------------------------------------------------------------------

HostEvent(s) ==
  \/ Unsolicited(s) \/ Unreadable(s) \/ Created(s) \/ CreateRefused(s)
  \/ Replied(s) \/ WriteFails(s) \/ Closed(s)
  \/ \E r \in Request : Timeout(s, r)

Next ==
  \/ \E c \in Calls : Create(c) \/ Prompt(c) \/ Probe(c)
  \/ Destroy
  \/ \E s \in Calls : HostEvent(s) \/ Serve(s) \/ Dies(s)

\* The event loop runs every timer and every event it was told of, and a
\* signalled process ends.  Nothing makes a child answer.
Fairness ==
  /\ \A s \in Calls : WF_vars(HostEvent(s)) /\ WF_vars(child[s].killed /\ Dies(s))
  /\ \A s \in Calls, r \in Request : WF_vars(Timeout(s, r))

Spec == Init /\ [][Next]_vars
FairSpec == Spec /\ Fairness

----------------------------------------------------------------------------
(* Properties.                                                             *)

\* The host's books balance: what is pending on a child is what its calls
\* wait for, each once and each with a timer, and a child that has exited
\* owes nothing (request, its data handler, its timer, its write callback
\* and failAll each undo a part of it).
PendingIsAwaited ==
  \A s \in Calls :
    LET waiting == {r \in Request : Awaits(r.call, r) /\ call[r.call].shim = s}
    IN /\ ToSet(child[s].pending) = waiting
       /\ IsInjective(child[s].pending)
       /\ child[s].timers = waiting
       /\ child[s].exited => waiting = {}

\* A prompt comes back with the reply to that prompt, whatever the other
\* calls, the process and the pipes do -- unless another request on the same
\* child timed out: its entry is gone from pending while its reply may still
\* be in the pipe, and the next entry takes it.
RepliesMatchPrompts ==
  \A p \in Prompts : call[p].result \in Calls =>
    \/ call[p].result = p
    \/ \E q \in Calls \ {p} : call[q].result = "timedout" /\ call[q].shim = call[p].shim

\* A child that runs and was not told to stop is the session's handle, or
\* the call that spawned it still waits for its first reply.  The code leaks
\* two kinds of children: one whose create reply could not be parsed, and a
\* handle that a concurrent first prompt replaced.
ChildrenAreOwned ==
  \A s \in Calls : child[s].process = "running" /\ ~ child[s].killed =>
    \/ handle = s
    \/ call[s].pc \in {"create", "availability"}
    \/ call[s].result = "unreadable" /\ s \in Prompts
    \/ \E c \in Prompts : call[c].displaced = s

\* Every call of prompt() and every probe settles, though the child may never
\* answer: a reply, the timer, a failed write or the exit ends each request.
EveryCallSettles ==
  \A c \in Calls : call[c].pc # "idle" ~> call[c].pc = "settled" /\ call[c].result # None

\* What perf/design.md asks for: a request session is disposed of afterwards,
\* so a destroyed session whose prompts are over has no child left to run.
DestroyedSessionHasNoShim ==
  (destroyed /\ \A p \in Prompts : call[p].pc \in {"idle", "settled"})
    => \A s \in Prompts : child[s].process = "running" =>
         child[s].killed \/ call[s].result = "unreadable"

=============================================================================
