-------------------------- MODULE ChromePageProofs --------------------------
(***************************************************************************)
(* Proofs about the bridge to a model in a Chrome page.                    *)
(*                                                                         *)
(* Host and page see each other only through evaluate, so what one of them *)
(* knows of the other is which message there still is.  PageInv says it    *)
(* call by call: a call has one request or reply on its way, or one native *)
(* call at work, at a time; a session is destroyed on the page only when   *)
(* the call that made it is over and its caller does not hold it; and an   *)
(* operation that is registered is known to the host, or its receipt is    *)
(* on the way.                                                             *)
(***************************************************************************)
EXTENDS ChromePage, TLAPS

\* Which calls have a request of a kind on its way, and which a reply.
AskBegin == {x \in Calls : Request("begin", x) \in wire}
AskRun == {x \in Calls : Request("run", x) \in wire}
AskCancel == {x \in Calls : Request("cancel", x) \in wire}
AskClone == {x \in Calls : Request("clone", x) \in wire}
AskDestroy == {x \in Calls : Request("destroy", x) \in wire}
BegunYes == {x \in Calls : Reply("begun", x, TRUE) \in wire}
BegunNo == {x \in Calls : Reply("begun", x, FALSE) \in wire}
RanYes == {x \in Calls : Reply("ran", x, TRUE) \in wire}
RanNo == {x \in Calls : Reply("ran", x, FALSE) \in wire}
ClonedYes == {x \in Calls : Reply("cloned", x, TRUE) \in wire}
ClonedNo == {x \in Calls : Reply("cloned", x, FALSE) \in wire}

Requested == <<AskBegin, AskRun, AskCancel, AskClone, AskDestroy>>
Replied == <<BegunYes, BegunNo, RanYes, RanNo, ClonedYes, ClonedNo>>

\* The registration of an operation, and its receipt.
Begins(x) ==
  /\ x \in AskBegin =>
       x \in Operations /\ call[x] = "beginning" /\ x \notin registered \cup stopped
  /\ x \in BegunYes \cup BegunNo => call[x] = "beginning" /\ x \notin AskBegin
  /\ x \in BegunYes => x \notin BegunNo
  /\ call[x] = "beginning" /\ x \in registered => x \in BegunYes

\* The request for native work, the work, and its answer.
Works(x) ==
  /\ x \in AskRun \cup AskClone => call[x] = "invoking" /\ work[x] = "none"
  /\ x \in RanYes \cup RanNo \cup ClonedYes \cup ClonedNo =>
       call[x] = "invoking" /\ work[x] = "over"
  /\ x \in RanYes \cup ClonedYes => x \notin RanNo \cup ClonedNo
  /\ x \in AskRun \cup RanYes \cup RanNo => x \notin Clones
  /\ x \in AskClone \cup ClonedYes \cup ClonedNo => x \in Clones

\* A call that has not begun has left no trace, and one that works is waited for.
CallFits(x) ==
  /\ call[x] = "idle" => x \notin registered \cup stopped /\ outcome[x] = "none"
  /\ call[x] \in {"idle", "beginning"} => work[x] = "none"
  /\ work[x] = "running" => call[x] = "invoking"
  /\ work[x] = "over" \/ x \in stopped => x \notin registered
  /\ call[x] = "beginning" => x \in Operations

\* A prompt that waits for its answer.
PromptWaits(p) ==
  /\ call[p] # "returned"
  /\ call[p] \in {"beginning", "invoking"} /\ ~ Settled(p) =>
       host[On[p]] = "open" /\ p \notin signal

\* The two ends of a session.
SessionFits(s) ==
  /\ work[s] # "over" => native[s] = "none"
  /\ host[s] # "none" => call[s] = "over"
  /\ host[s] = "open" => native[s] = "alive"
  /\ s \in AskDestroy => call[s] = "over" /\ host[s] # "open"
  /\ s \in RanYes \cup ClonedYes => native[s] = "alive"
  /\ s \in RanNo \cup ClonedNo => native[s] = "none"
  /\ call[s] = "returned" => s \in Created /\ native[s] = "alive" /\ work[s] = "over"
  /\ Settled(s) /\ call[s] # "over" => s \in signal
  /\ ~ MicrotaskAborts /\ call[s] = "returned" => ~ Settled(s)

\* SettledMeansReleased and NoPageSessionLeaks, call by call.
Released(x) == Settled(x) /\ x \in registered => x \in AskCancel \cup BegunYes
Held(s) ==
  native[s] = "alive" =>
    \/ host[s] = "open"
    \/ s \in RanYes \cup ClonedYes \cup AskDestroy
    \/ call[s] = "returned" /\ ~ Settled(s)

Fits(x) == Begins(x) /\ Works(x) /\ CallFits(x) /\ Released(x)

PageInv ==
  /\ TypeOK
  /\ \A x \in Calls : Fits(x)
  /\ \A p \in Prompts : PromptWaits(p)
  /\ \A s \in Sessions : SessionFits(s) /\ (MicrotaskAborts \/ Held(s))

----------------------------------------------------------------------------
(* Types.                                                                  *)

LEMMA PageInvInit == Init => PageInv
  BY ChromePageAssumption DEF Init, PageInv, TypeOK, Fits, Begins, Works, CallFits, Released, PromptWaits,
     SessionFits, Held, Settled, Calls, Sessions, Operations, AskBegin, AskRun, AskCancel, AskClone,
     AskDestroy, BegunYes, BegunNo, RanYes, RanNo, ClonedYes, ClonedNo

\* What may be on the way.
LEMMA MessagesAreTyped ==
  /\ \A fn \in {"begin", "run", "cancel", "clone", "destroy"}, x \in Calls :
       Request(fn, x) \in Requests
  /\ \A fn \in {"begun", "ran", "cloned"}, x \in Calls :
       /\ Reply(fn, x, TRUE) \in Replies /\ Reply(fn, x, FALSE) \in Replies
       /\ \A ok \in BOOLEAN : Reply(fn, x, ok) \in Replies
  BY DEF Request, Reply, Requests, Replies

LEMMA PageBeginOperationReplies ==
  ASSUME NEW o, PageBeginOperation(o)
  PROVE  \E known \in BOOLEAN :
           /\ known = (o \in Created \/ native[SessionOf(o)] = "alive")
           /\ Exchange(Request("begin", o), {Reply("begun", o, known)})
           /\ registered' = IF known THEN registered \cup {o} ELSE registered
           /\ UNCHANGED <<hostVars, stopped, work, native>>
  <1> WITNESS (o \in Created \/ native[SessionOf(o)] = "alive") \in BOOLEAN
  <1> QED BY DEF PageBeginOperation

LEMMA NativeCreatesReplies ==
  ASSUME NEW s, NEW ok \in BOOLEAN, NativeCreates(s, ok)
  PROVE  \E kept \in BOOLEAN :
           /\ kept = (ok /\ s \notin stopped)
           /\ s \in Created /\ work[s] = "running"
           /\ work' = [work EXCEPT ![s] = "over"]
           /\ native' = [native EXCEPT ![s] = IF kept THEN "alive" ELSE @]
           /\ registered' = registered \ {s}
           /\ wire' = wire \cup {Reply("ran", s, kept)}
           /\ UNCHANGED <<hostVars, stopped>>
  <1> WITNESS (ok /\ s \notin stopped) \in BOOLEAN
  <1> QED BY DEF NativeCreates

LEMMA NativeClonesReplies ==
  ASSUME NEW c, NEW ok \in BOOLEAN, NativeClones(c, ok)
  PROVE  \E kept \in BOOLEAN :
           /\ kept = (ok /\ native[Source[c]] = "alive")
           /\ c \in Clones /\ work[c] = "running"
           /\ work' = [work EXCEPT ![c] = "over"]
           /\ native' = [native EXCEPT ![c] = IF kept THEN "alive" ELSE @]
           /\ wire' = wire \cup {Reply("cloned", c, kept)}
           /\ UNCHANGED <<hostVars, registered, stopped>>
  <1> WITNESS (ok /\ native[Source[c]] = "alive") \in BOOLEAN
  <1> QED BY DEF NativeClones

\* The type of a step's wire, apart from the other variables.
LEMMA WireTyped == TypeOK /\ [Next]_vars => wire' \subseteq Requests \cup Replies
  <1> SUFFICES ASSUME TypeOK, [Next]_vars PROVE wire' \subseteq Requests \cup Replies OBVIOUS
  <1> DEFINE Typed == wire' \subseteq Requests \cup Replies
  <1>a. Sessions \subseteq Calls /\ Prompts \subseteq Calls /\ Operations \subseteq Calls
        /\ Created \subseteq Calls /\ Clones \subseteq Calls
    BY ChromePageAssumption DEF Calls, Sessions, Operations
  <1>b. wire \subseteq Requests \cup Replies BY DEF TypeOK
  <1> HIDE DEF Typed
  <1>1. ASSUME NEW s \in Sessions, Create(s) \/ Clone(s) PROVE Typed
    <2>1. Request("begin", s) \in Requests /\ Request("run", s) \in Requests
          /\ Request("clone", s) \in Requests
      BY <1>a, MessagesAreTyped
    <2> QED BY <1>b, <1>1, <2>1 DEF Create, StartOperation, Clone, Typed
  <1>2. ASSUME NEW p \in Prompts, Prompt(p) PROVE Typed
    <2>1. Request("begin", p) \in Requests BY <1>a, MessagesAreTyped
    <2> QED BY <1>b, <1>2, <2>1 DEF Prompt, StartOperation, Typed
  <1>3. ASSUME NEW o \in Operations, Abort(o) PROVE Typed
    <2>1. Cancels({o}) \subseteq Requests BY <1>a, MessagesAreTyped DEF Cancels
    <2> QED BY <1>b, <1>3, <2>1 DEF Abort, Typed
  <1>4. ASSUME NEW s \in Sessions, Destroy(s) PROVE Typed
    <2>1. Cancels(Active(s)) \subseteq Requests BY <1>a, MessagesAreTyped DEF Cancels, Active
    <2>2. Request("destroy", s) \in Requests BY <1>a, MessagesAreTyped
    <2> QED BY <1>b, <1>4, <2>1, <2>2 DEF Destroy, Typed
  <1>5. ASSUME NEW x \in Calls, NEW ok \in BOOLEAN,
               Begun(x, ok) \/ Prompted(x, ok) \/ SessionCreated(x, ok) \/ Cloned(x, ok)
        PROVE Typed
    <2>1. Request("run", x) \in Requests /\ Request("cancel", x) \in Requests
          /\ Request("destroy", x) \in Requests
      BY MessagesAreTyped
    <2> QED BY <1>b, <1>5, <2>1 DEF Begun, Prompted, SessionCreated, Cloned, Exchange, Typed
  <1>6. ASSUME NEW x \in Calls, Deliver(x) \/ PageCancelOperation(x) \/ PageDestroySession(x)
        PROVE Typed
    BY <1>b, <1>6 DEF Deliver, PageCancelOperation, PageDestroySession, Exchange, Typed
  <1>7. ASSUME NEW x \in Calls, PageBeginOperation(x) PROVE Typed
    <2>1. \A ok \in BOOLEAN : Reply("begun", x, ok) \in Replies BY MessagesAreTyped
    <2> QED BY <1>b, <1>7, <2>1, PageBeginOperationReplies DEF Exchange, Typed
  <1>8. ASSUME NEW x \in Calls, PageRun(x) \/ PageAborts(x) \/ PageCloneSession(x) PROVE Typed
    <2>1. Reply("ran", x, FALSE) \in Replies /\ Reply("cloned", x, FALSE) \in Replies
      BY MessagesAreTyped
    <2> QED BY <1>b, <1>8, <2>1 DEF PageRun, PageAborts, PageCloneSession, Exchange, Typed
  <1>9. ASSUME NEW x \in Calls, Native(x) PROVE Typed
    <2>1. \A ok \in BOOLEAN : Reply("ran", x, ok) \in Replies /\ Reply("cloned", x, ok) \in Replies
      BY MessagesAreTyped
    <2>2. PICK ok \in BOOLEAN : NativeCreates(x, ok) \/ NativeAnswers(x, ok) \/ NativeClones(x, ok)
      BY <1>9 DEF Native
    <2>3. CASE NativeCreates(x, ok) BY <1>b, <2>1, <2>3, NativeCreatesReplies DEF Typed
    <2>4. CASE NativeAnswers(x, ok) BY <1>b, <2>1, <2>4 DEF NativeAnswers, Typed
    <2>5. CASE NativeClones(x, ok) BY <1>b, <2>1, <2>5, NativeClonesReplies DEF Typed
    <2> QED BY <2>2, <2>3, <2>4, <2>5
  <1>10. CASE UNCHANGED vars BY <1>b, <1>10 DEF vars, Typed
  <1> QED BY <1>a, <1>1, <1>2, <1>3, <1>4, <1>5, <1>6, <1>7, <1>8, <1>9, <1>10
        DEF Next, Caller, Due, Typed

\* Only an operation asks to be registered.
LEMMA TypeOKNext == TypeOK /\ AskBegin \subseteq Operations /\ [Next]_vars => TypeOK'
  <1> SUFFICES ASSUME TypeOK, AskBegin \subseteq Operations, [Next]_vars PROVE TypeOK' OBVIOUS
  <1>w. wire' \subseteq Requests \cup Replies BY WireTyped
  <1> USE ChromePageAssumption, <1>w
        DEF TypeOK, hostVars, pageVars, Calls, Sessions, Operations, Exchange, Settled
  <1>1. ASSUME NEW s \in Sessions, Create(s) PROVE TypeOK' BY <1>1 DEF Create, StartOperation
  <1>2. ASSUME NEW p \in Prompts, Prompt(p) PROVE TypeOK' BY <1>2 DEF Prompt, StartOperation
  <1>3. ASSUME NEW c \in Sessions, Clone(c) PROVE TypeOK' BY <1>3 DEF Clone
  <1>4. ASSUME NEW o \in Operations, Abort(o) PROVE TypeOK' BY <1>4 DEF Abort, Cancels
  <1>5. ASSUME NEW s \in Sessions, Destroy(s) PROVE TypeOK' BY <1>5 DEF Destroy, Cancels, Active
  <1>6. ASSUME NEW x \in Operations, NEW ok \in BOOLEAN, Begun(x, ok) PROVE TypeOK' BY <1>6 DEF Begun
  <1>7. ASSUME NEW x \in Calls, NEW ok \in BOOLEAN, Prompted(x, ok) PROVE TypeOK' BY <1>7 DEF Prompted
  <1>8. ASSUME NEW x \in Calls, NEW ok \in BOOLEAN, SessionCreated(x, ok) PROVE TypeOK'
    BY <1>8 DEF SessionCreated
  <1>9. ASSUME NEW x \in Clones, NEW ok \in BOOLEAN, Cloned(x, ok) PROVE TypeOK' BY <1>9 DEF Cloned
  <1>10. ASSUME NEW x \in Calls, Deliver(x) PROVE TypeOK' BY <1>10 DEF Deliver
  <1>11. ASSUME NEW x \in Calls, PageBeginOperation(x) PROVE TypeOK'
    <2> HIDE DEF TypeOK
    <2>1. UNCHANGED <<hostVars, stopped, work, native>> BY <1>11 DEF PageBeginOperation
    <2>2. registered' \subseteq registered \cup {x} BY <1>11 DEF PageBeginOperation
    <2>3. x \in AskBegin BY <1>11 DEF PageBeginOperation, AskBegin
    <2> QED BY <2>1, <2>2, <2>3 DEF TypeOK
  <1>12. ASSUME NEW x \in Calls, PageCancelOperation(x) PROVE TypeOK'
    BY <1>12 DEF PageCancelOperation, StopOperations
  <1>13. ASSUME NEW x \in Calls, PageRun(x) PROVE TypeOK' BY <1>13 DEF PageRun
  <1>14. ASSUME NEW x \in Calls, PageAborts(x) PROVE TypeOK'
    BY <1>14 DEF PageAborts
  <1>15. ASSUME NEW x \in Clones, PageCloneSession(x) PROVE TypeOK'
    BY <1>15 DEF PageCloneSession
  <1>16. ASSUME NEW x \in Sessions, PageDestroySession(x) PROVE TypeOK'
    BY <1>16 DEF PageDestroySession, StopOperations
  <1>17. ASSUME NEW x \in Calls, NEW ok \in BOOLEAN, NativeCreates(x, ok) PROVE TypeOK'
    BY <1>17 DEF NativeCreates
  <1>18. ASSUME NEW x \in Calls, NEW ok \in BOOLEAN, NativeAnswers(x, ok) PROVE TypeOK'
    BY <1>18 DEF NativeAnswers
  <1>19. ASSUME NEW x \in Calls, NEW ok \in BOOLEAN, NativeClones(x, ok) PROVE TypeOK'
    BY <1>19 DEF NativeClones
  <1>20. CASE UNCHANGED vars BY <1>20 DEF vars
  <1> QED BY <1>1, <1>2, <1>3, <1>4, <1>5, <1>6, <1>7, <1>8, <1>9, <1>10, <1>11, <1>12, <1>13,
        <1>14, <1>15, <1>16, <1>17, <1>18, <1>19, <1>20 DEF Next, Caller, Due, Native

----------------------------------------------------------------------------
(* What each action does to the messages on their way.                     *)

CreateWire(s) ==
  /\ UNCHANGED <<AskCancel, AskClone, AskDestroy, Replied>>
  /\ IF s \in Abortable /\ s \notin signal
     THEN AskBegin' = AskBegin \cup {s} ELSE UNCHANGED AskBegin
  /\ IF s \notin Abortable THEN AskRun' = AskRun \cup {s} ELSE UNCHANGED AskRun

LEMMA CreateEffect == ASSUME NEW s \in Sessions, Create(s) PROVE CreateWire(s)
  BY DEF CreateWire, Create, StartOperation, Sessions, Calls, Request, Reply, AskBegin, AskRun,
     AskCancel, AskClone,
     AskDestroy, Replied, BegunYes, BegunNo, RanYes, RanNo, ClonedYes, ClonedNo

PromptWire(p) ==
  /\ UNCHANGED <<AskRun, AskCancel, AskClone, AskDestroy, Replied>>
  /\ IF p \notin signal THEN AskBegin' = AskBegin \cup {p} ELSE UNCHANGED AskBegin

LEMMA PromptEffect == ASSUME NEW p \in Prompts, Prompt(p) PROVE PromptWire(p)
  BY DEF PromptWire, Prompt, StartOperation, Calls, Request, Reply, AskBegin, AskRun, AskCancel, AskClone,
     AskDestroy, Replied, BegunYes, BegunNo, RanYes, RanNo, ClonedYes, ClonedNo

CloneWire(c) ==
  /\ UNCHANGED <<AskBegin, AskRun, AskCancel, AskDestroy, Replied>>
  /\ AskClone' = AskClone \cup {c}

LEMMA CloneEffect == ASSUME NEW c \in Sessions, Clone(c) PROVE CloneWire(c)
  BY DEF CloneWire, Clone, Sessions, Calls, Request, Reply, AskBegin, AskRun, AskCancel, AskClone,
     AskDestroy, Replied, BegunYes, BegunNo, RanYes, RanNo, ClonedYes, ClonedNo

AbortWire(o) ==
  /\ UNCHANGED <<AskBegin, AskRun, AskClone, AskDestroy, Replied>>
  /\ IF call[o] \in {"idle", "beginning"} THEN UNCHANGED AskCancel
     ELSE AskCancel' = AskCancel \cup {o}

LEMMA AbortEffect == ASSUME NEW o \in Operations, Abort(o) PROVE AbortWire(o)
  BY ChromePageAssumption DEF AbortWire, Abort, Cancels, Operations, Sessions, Calls, Request,
     Reply, AskBegin, AskRun,
     AskCancel, AskClone, AskDestroy, Replied, BegunYes, BegunNo, RanYes, RanNo, ClonedYes, ClonedNo

DestroyWire(s) ==
  /\ UNCHANGED <<AskBegin, AskRun, AskClone, Replied>>
  /\ AskCancel' = AskCancel \cup {o \in Active(s) : call[o] # "beginning"}
  /\ AskDestroy' = AskDestroy \cup {s}

LEMMA DestroyEffect == ASSUME NEW s \in Sessions, Destroy(s) PROVE DestroyWire(s)
  BY DEF DestroyWire, Destroy, Cancels, Active, Sessions, Calls, Request, Reply, AskBegin, AskRun,
     AskCancel, AskClone,
     AskDestroy, Replied, BegunYes, BegunNo, RanYes, RanNo, ClonedYes, ClonedNo

BegunWire(o, ok) ==
  /\ UNCHANGED <<AskBegin, AskClone, AskDestroy, RanYes, RanNo, ClonedYes, ClonedNo>>
  /\ IF ok THEN o \in BegunYes /\ BegunYes' = BegunYes \ {o} /\ UNCHANGED BegunNo
           ELSE o \in BegunNo /\ BegunNo' = BegunNo \ {o} /\ UNCHANGED BegunYes
  /\ IF ok /\ ~ Settled(o) THEN AskRun' = AskRun \cup {o} /\ UNCHANGED AskCancel
                           ELSE AskCancel' = AskCancel \cup {o} /\ UNCHANGED AskRun

LEMMA BegunEffect == ASSUME NEW o \in Calls, NEW ok \in BOOLEAN, Begun(o, ok) PROVE BegunWire(o, ok)
  BY DEF BegunWire, Begun, Exchange, Request, Reply, AskBegin, AskRun, AskCancel, AskClone,
     AskDestroy, Replied, BegunYes, BegunNo, RanYes, RanNo, ClonedYes, ClonedNo

PromptedWire(p, ok) ==
  /\ UNCHANGED <<Requested, BegunYes, BegunNo, ClonedYes, ClonedNo>>
  /\ IF ok THEN p \in RanYes /\ RanYes' = RanYes \ {p} /\ UNCHANGED RanNo
           ELSE p \in RanNo /\ RanNo' = RanNo \ {p} /\ UNCHANGED RanYes

LEMMA PromptedEffect == ASSUME NEW p \in Calls, NEW ok \in BOOLEAN, Prompted(p, ok) PROVE PromptedWire(p, ok)
  BY DEF PromptedWire, Prompted, Exchange, Request, Reply, Requested, AskBegin, AskRun, AskCancel, AskClone,
     AskDestroy, BegunYes, BegunNo, RanYes, RanNo, ClonedYes, ClonedNo

SessionCreatedWire(s, ok) ==
  /\ UNCHANGED <<AskBegin, AskRun, AskClone, BegunYes, BegunNo, ClonedYes, ClonedNo>>
  /\ IF s \in signal
     THEN AskDestroy' = AskDestroy \cup {s} /\ AskCancel' = AskCancel \cup {s}
     ELSE UNCHANGED <<AskDestroy, AskCancel>>
  /\ IF ok THEN s \in RanYes /\ RanYes' = RanYes \ {s} /\ UNCHANGED RanNo
           ELSE s \in RanNo /\ RanNo' = RanNo \ {s} /\ UNCHANGED RanYes

LEMMA SessionCreatedEffect ==
  ASSUME NEW s \in Calls, NEW ok \in BOOLEAN, SessionCreated(s, ok)
  PROVE SessionCreatedWire(s, ok)
  BY DEF SessionCreatedWire, SessionCreated, Exchange, Request, Reply, AskBegin, AskRun, AskCancel, AskClone,
     AskDestroy, BegunYes, BegunNo, RanYes, RanNo, ClonedYes, ClonedNo

ClonedWire(c, ok) ==
  /\ UNCHANGED <<AskBegin, AskRun, AskCancel, AskClone, BegunYes, BegunNo, RanYes, RanNo>>
  /\ IF ok /\ host[Source[c]] # "open"
     THEN AskDestroy' = AskDestroy \cup {c} ELSE UNCHANGED AskDestroy
  /\ IF ok THEN c \in ClonedYes /\ ClonedYes' = ClonedYes \ {c} /\ UNCHANGED ClonedNo
           ELSE c \in ClonedNo /\ ClonedNo' = ClonedNo \ {c} /\ UNCHANGED ClonedYes

LEMMA ClonedEffect == ASSUME NEW c \in Calls, NEW ok \in BOOLEAN, Cloned(c, ok) PROVE ClonedWire(c, ok)
  BY DEF ClonedWire, Cloned, Exchange, Request, Reply, AskBegin, AskRun, AskCancel, AskClone,
     AskDestroy, BegunYes, BegunNo, RanYes, RanNo, ClonedYes, ClonedNo

PageBeginWire(o) ==
  /\ o \in AskBegin /\ AskBegin' = AskBegin \ {o}
  /\ UNCHANGED <<AskRun, AskCancel, AskClone, AskDestroy, RanYes, RanNo, ClonedYes, ClonedNo>>
  /\ UNCHANGED <<hostVars, stopped, work, native>>
  /\ \/ BegunYes' = BegunYes \cup {o} /\ UNCHANGED BegunNo /\ registered' = registered \cup {o}
     \/ BegunNo' = BegunNo \cup {o} /\ UNCHANGED <<BegunYes, registered>>

LEMMA PageBeginEffect == ASSUME NEW o \in Calls, PageBeginOperation(o) PROVE PageBeginWire(o)
  <1> PICK known \in BOOLEAN : 
           /\ Exchange(Request("begin", o), {Reply("begun", o, known)})
           /\ registered' = IF known THEN registered \cup {o} ELSE registered
           /\ UNCHANGED <<hostVars, stopped, work, native>>
    BY PageBeginOperationReplies
  <1> QED BY DEF PageBeginWire, Exchange, Request, Reply, AskBegin, AskRun, AskCancel, AskClone,
     AskDestroy, BegunYes, BegunNo, RanYes, RanNo, ClonedYes, ClonedNo

PageCancelWire(o) ==
  /\ UNCHANGED <<AskBegin, AskRun, AskClone, AskDestroy, Replied>>
  /\ AskCancel' = AskCancel \ {o}

LEMMA PageCancelEffect == ASSUME NEW o \in Calls, PageCancelOperation(o) PROVE PageCancelWire(o)
  BY DEF PageCancelWire, PageCancelOperation, Exchange, Request, Reply, Replied, AskBegin, AskRun,
     AskCancel, AskClone,
     AskDestroy, BegunYes, BegunNo, RanYes, RanNo, ClonedYes, ClonedNo

PageRunWire(x) ==
  /\ x \in AskRun /\ AskRun' = AskRun \ {x}
  /\ UNCHANGED <<AskBegin, AskCancel, AskClone, AskDestroy, BegunYes, BegunNo, RanYes,
                 ClonedYes, ClonedNo>>
  /\ UNCHANGED <<hostVars, stopped, native>>
  /\ \/ UNCHANGED <<RanNo, registered>> /\ work' = [work EXCEPT ![x] = "running"]
     \/ /\ RanNo' = RanNo \cup {x} /\ work' = [work EXCEPT ![x] = "over"]
        /\ registered' = registered \ {x}

LEMMA PageRunEffect == ASSUME NEW x \in Calls, PageRun(x) PROVE PageRunWire(x)
  <1>1. /\ x \in AskRun /\ AskRun' = AskRun \ {x}
        /\ UNCHANGED <<AskBegin, AskCancel, AskClone, AskDestroy, BegunYes, BegunNo, RanYes,
                       ClonedYes, ClonedNo>>
    BY DEF PageRun, Exchange, Request, Reply, AskBegin, AskRun, AskCancel, AskClone,
       AskDestroy, BegunYes, BegunNo, RanYes, RanNo, ClonedYes, ClonedNo
  <1>2. \/ UNCHANGED <<RanNo, registered>> /\ work' = [work EXCEPT ![x] = "running"]
        \/ /\ RanNo' = RanNo \cup {x} /\ work' = [work EXCEPT ![x] = "over"]
           /\ registered' = registered \ {x}
    BY ChromePageAssumption DEF PageRun, Exchange, Request, Reply, RanNo, Calls, Operations, Sessions
  <1> QED BY <1>1, <1>2 DEF PageRunWire, PageRun

PageAbortsWire(p) ==
  /\ UNCHANGED <<Requested, BegunYes, BegunNo, RanYes, ClonedYes, ClonedNo>>
  /\ RanNo' = RanNo \cup {p}

LEMMA PageAbortsEffect == ASSUME NEW p \in Calls, PageAborts(p) PROVE PageAbortsWire(p)
  BY DEF PageAbortsWire, PageAborts, Request, Reply, Requested, AskBegin, AskRun, AskCancel, AskClone,
     AskDestroy, BegunYes, BegunNo, RanYes, RanNo, ClonedYes, ClonedNo

PageCloneWire(c) ==
  /\ c \in AskClone /\ AskClone' = AskClone \ {c}
  /\ UNCHANGED <<AskBegin, AskRun, AskCancel, AskDestroy, BegunYes, BegunNo, RanYes, RanNo, ClonedYes>>
  /\ \/ UNCHANGED ClonedNo /\ work' = [work EXCEPT ![c] = "running"]
     \/ ClonedNo' = ClonedNo \cup {c} /\ work' = [work EXCEPT ![c] = "over"]

LEMMA PageCloneEffect == ASSUME NEW c \in Calls, PageCloneSession(c) PROVE PageCloneWire(c)
  BY DEF PageCloneWire, PageCloneSession, Exchange, Request, Reply, AskBegin, AskRun, AskCancel, AskClone,
     AskDestroy, BegunYes, BegunNo, RanYes, RanNo, ClonedYes, ClonedNo

PageDestroyWire(s) ==
  /\ UNCHANGED <<AskBegin, AskRun, AskCancel, AskClone, Replied>>
  /\ s \in AskDestroy /\ AskDestroy' = AskDestroy \ {s}

LEMMA PageDestroyEffect == ASSUME NEW s \in Calls, PageDestroySession(s) PROVE PageDestroyWire(s)
  BY DEF PageDestroyWire, PageDestroySession, Exchange, Request, Reply, Replied, AskBegin, AskRun,
     AskCancel, AskClone,
     AskDestroy, BegunYes, BegunNo, RanYes, RanNo, ClonedYes, ClonedNo

NativeCreatesWire(s, ok) ==
  /\ UNCHANGED <<Requested, BegunYes, BegunNo, ClonedYes, ClonedNo>>
  /\ \/ /\ RanYes' = RanYes \cup {s} /\ UNCHANGED RanNo
        /\ native' = [native EXCEPT ![s] = "alive"]
     \/ /\ RanNo' = RanNo \cup {s} /\ UNCHANGED RanYes
        /\ native' = [native EXCEPT ![s] = @]

LEMMA NativeCreatesEffect ==
  ASSUME NEW s \in Calls, NEW ok \in BOOLEAN, NativeCreates(s, ok)
  PROVE NativeCreatesWire(s, ok)
  <1> PICK kept \in BOOLEAN :
           /\ native' = [native EXCEPT ![s] = IF kept THEN "alive" ELSE @]
           /\ wire' = wire \cup {Reply("ran", s, kept)}
    BY NativeCreatesReplies
  <1> QED BY DEF NativeCreatesWire, Request, Reply, Requested, AskBegin, AskRun, AskCancel, AskClone,
     AskDestroy, BegunYes, BegunNo, RanYes, RanNo, ClonedYes, ClonedNo

NativeAnswersWire(p, ok) ==
  /\ UNCHANGED <<Requested, BegunYes, BegunNo, ClonedYes, ClonedNo>>
  /\ \/ RanYes' = RanYes \cup {p} /\ UNCHANGED RanNo
     \/ RanNo' = RanNo \cup {p} /\ UNCHANGED RanYes

LEMMA NativeAnswersEffect ==
  ASSUME NEW p \in Calls, NEW ok \in BOOLEAN, NativeAnswers(p, ok)
  PROVE NativeAnswersWire(p, ok)
  BY DEF NativeAnswersWire, NativeAnswers, Request, Reply, Requested, AskBegin, AskRun, AskCancel, AskClone,
     AskDestroy, BegunYes, BegunNo, RanYes, RanNo, ClonedYes, ClonedNo

NativeClonesWire(c, ok) ==
  /\ UNCHANGED <<Requested, BegunYes, BegunNo, RanYes, RanNo>>
  /\ \/ /\ ClonedYes' = ClonedYes \cup {c} /\ UNCHANGED ClonedNo
        /\ native' = [native EXCEPT ![c] = "alive"]
     \/ /\ ClonedNo' = ClonedNo \cup {c} /\ UNCHANGED ClonedYes
        /\ native' = [native EXCEPT ![c] = @]

LEMMA NativeClonesEffect ==
  ASSUME NEW c \in Calls, NEW ok \in BOOLEAN, NativeClones(c, ok)
  PROVE NativeClonesWire(c, ok)
  <1> PICK kept \in BOOLEAN :
           /\ native' = [native EXCEPT ![c] = IF kept THEN "alive" ELSE @]
           /\ wire' = wire \cup {Reply("cloned", c, kept)}
    BY NativeClonesReplies
  <1> QED BY DEF NativeClonesWire, Request, Reply, Requested, AskBegin, AskRun, AskCancel, AskClone,
     AskDestroy, BegunYes, BegunNo, RanYes, RanNo, ClonedYes, ClonedNo

QuietWire == UNCHANGED <<Requested, Replied>>

LEMMA QuietEffect == ASSUME UNCHANGED wire PROVE QuietWire
  BY DEF QuietWire, Requested, Replied, AskBegin, AskRun, AskCancel, AskClone,
     AskDestroy, BegunYes, BegunNo, RanYes, RanNo, ClonedYes, ClonedNo


----------------------------------------------------------------------------
(* The invariant.                                                          *)

\* What the functions of the state are defined on, and its names.
LEMMA Typed ==
  ASSUME PageInv
  PROVE  /\ call \in [Calls -> {"idle", "beginning", "invoking", "returned", "over"}]
         /\ outcome \in [Calls -> {"none", "value", "error", "aborted"}]
         /\ host \in [Sessions -> {"none", "open", "destroyed"}]
         /\ work \in [Calls -> {"none", "running", "over"}]
         /\ native \in [Sessions -> {"none", "alive", "destroyed"}]
         /\ registered \subseteq Operations
  BY DEF PageInv, TypeOK

LEMMA Names ==
  /\ Sessions \subseteq Calls /\ Prompts \subseteq Operations /\ Operations \subseteq Calls
  /\ Created \subseteq Sessions /\ Clones \subseteq Sessions /\ Clones \cap Created = {}
  /\ Prompts \cap Sessions = {} /\ Operations \cap Clones = {}
  /\ Sessions \cap Operations \subseteq Abortable /\ Created \cap Abortable \subseteq Operations
  BY ChromePageAssumption DEF Sessions, Operations, Calls

LEMMA FitsNext == PageInv /\ [Next]_vars => \A y \in Calls : Fits(y)'
  <1> SUFFICES ASSUME PageInv, [Next]_vars, NEW y \in Calls PROVE Fits(y)' OBVIOUS
  <1>a. Fits(y) BY Names DEF PageInv
  <1> USE <1>a, Typed, Names
        DEF Fits, Begins, Works, CallFits, Released, SessionFits, hostVars, pageVars, Requested, Replied, Settled
  <1>1. ASSUME NEW s \in Sessions, Create(s) PROVE Fits(y)'
    <2>1. Fits(s) /\ CreateWire(s) BY <1>1, Names, CreateEffect DEF PageInv
    <2> QED BY <1>1, <2>1 DEF CreateWire, Create, StartOperation
  <1>2. ASSUME NEW p \in Prompts, Prompt(p) PROVE Fits(y)'
    <2>1. Fits(p) /\ PromptWire(p) BY <1>2, Names, PromptEffect DEF PageInv
    <2> QED BY <1>2, <2>1 DEF PromptWire, Prompt, StartOperation
  <1>3. ASSUME NEW c \in Sessions, Clone(c) PROVE Fits(y)'
    <2>1. Fits(c) /\ CloneWire(c) BY <1>3, Names, CloneEffect DEF PageInv
    <2> QED BY <1>3, <2>1 DEF CloneWire, Clone
  <1>4. ASSUME NEW o \in Operations, Abort(o) PROVE Fits(y)'
    <2>1. Fits(o) /\ AbortWire(o) BY <1>4, Names, AbortEffect DEF PageInv
    <2> QED BY <1>4, <2>1 DEF AbortWire, Abort
  <1>5. ASSUME NEW s \in Sessions, Destroy(s) PROVE Fits(y)'
    <2>1. Fits(s) /\ DestroyWire(s) BY <1>5, Names, DestroyEffect DEF PageInv
    <2> QED BY <1>5, <2>1 DEF DestroyWire, Destroy, Active
  <1>6. ASSUME NEW o \in Operations, NEW ok \in BOOLEAN, Begun(o, ok) PROVE Fits(y)'
    <2>1. Fits(o) /\ BegunWire(o, ok) BY <1>6, Names, BegunEffect DEF PageInv
    <2> QED BY <1>6, <2>1 DEF BegunWire, Begun
  <1>7. ASSUME NEW p \in Calls, NEW ok \in BOOLEAN, Prompted(p, ok) PROVE Fits(y)'
    <2>1. Fits(p) /\ PromptedWire(p, ok) BY <1>7, Names, PromptedEffect DEF PageInv
    <2> QED BY <1>7, <2>1 DEF PromptedWire, Prompted
  <1>8. ASSUME NEW s \in Calls, NEW ok \in BOOLEAN, SessionCreated(s, ok) PROVE Fits(y)'
    <2>1. Fits(s) /\ SessionCreatedWire(s, ok) BY <1>8, Names, SessionCreatedEffect DEF PageInv
    <2> QED BY <1>8, <2>1 DEF SessionCreatedWire, SessionCreated
  <1>9. ASSUME NEW c \in Clones, NEW ok \in BOOLEAN, Cloned(c, ok) PROVE Fits(y)'
    <2>1. Fits(c) /\ ClonedWire(c, ok) BY <1>9, Names, ClonedEffect DEF PageInv
    <2> QED BY <1>9, <2>1 DEF ClonedWire, Cloned
  <1>10. ASSUME NEW s \in Calls, Deliver(s) PROVE Fits(y)'
    <2>1. s \in Sessions /\ Fits(s) /\ SessionFits(s) /\ QuietWire
      BY <1>10, Names, QuietEffect DEF PageInv, Deliver, PromptWaits, Calls
    <2> QED BY <1>10, <2>1 DEF QuietWire, Deliver
  <1>11. ASSUME NEW o \in Calls, PageBeginOperation(o) PROVE Fits(y)'
    <2>1. Fits(o) /\ PageBeginWire(o) BY <1>11, Names, PageBeginEffect DEF PageInv
    <2> QED BY <1>11, <2>1 DEF PageBeginWire
  <1>12. ASSUME NEW o \in Calls, PageCancelOperation(o) PROVE Fits(y)'
    <2>1. Fits(o) /\ PageCancelWire(o) BY <1>12, Names, PageCancelEffect DEF PageInv
    <2> QED BY <1>12, <2>1 DEF PageCancelWire, PageCancelOperation, StopOperations
  <1>13. ASSUME NEW x \in Calls, PageRun(x) PROVE Fits(y)'
    <2>1. Fits(x) /\ PageRunWire(x) BY <1>13, Names, PageRunEffect DEF PageInv
    <2> QED BY <1>13, <2>1 DEF PageRunWire
  <1>14. ASSUME NEW p \in Calls, PageAborts(p) PROVE Fits(y)'
    <2>1. Fits(p) /\ PageAbortsWire(p) BY <1>14, Names, PageAbortsEffect DEF PageInv
    <2> QED BY <1>14, <2>1 DEF PageAbortsWire, PageAborts
  <1>15. ASSUME NEW c \in Clones, PageCloneSession(c) PROVE Fits(y)'
    <2>1. Fits(c) /\ PageCloneWire(c) BY <1>15, Names, PageCloneEffect DEF PageInv
    <2> QED BY <1>15, <2>1 DEF PageCloneWire, PageCloneSession
  <1>16. ASSUME NEW s \in Sessions, PageDestroySession(s) PROVE Fits(y)'
    <2>1. Fits(s) /\ PageDestroyWire(s) BY <1>16, Names, PageDestroyEffect DEF PageInv
    <2> QED BY <1>16, <2>1 DEF PageDestroyWire, PageDestroySession, StopOperations
  <1>17. ASSUME NEW s \in Calls, NEW ok \in BOOLEAN, NativeCreates(s, ok) PROVE Fits(y)'
    <2>1. Fits(s) /\ NativeCreatesWire(s, ok) BY <1>17, Names, NativeCreatesEffect DEF PageInv
    <2> QED BY <1>17, <2>1 DEF NativeCreatesWire, NativeCreates
  <1>18. ASSUME NEW p \in Calls, NEW ok \in BOOLEAN, NativeAnswers(p, ok) PROVE Fits(y)'
    <2>1. Fits(p) /\ NativeAnswersWire(p, ok) BY <1>18, Names, NativeAnswersEffect DEF PageInv
    <2> QED BY <1>18, <2>1 DEF NativeAnswersWire, NativeAnswers
  <1>19. ASSUME NEW c \in Calls, NEW ok \in BOOLEAN, NativeClones(c, ok) PROVE Fits(y)'
    <2>1. Fits(c) /\ NativeClonesWire(c, ok) BY <1>19, Names, NativeClonesEffect DEF PageInv
    <2> QED BY <1>19, <2>1 DEF NativeClonesWire, NativeClones
  <1>20. CASE UNCHANGED vars BY <1>20, QuietEffect DEF vars, QuietWire
  <1> HIDE DEF Fits, Begins, Works, CallFits, Released, SessionFits, hostVars, pageVars, Requested, Replied, Settled
  <1> QED BY <1>1, <1>2, <1>3, <1>4, <1>5, <1>6, <1>7, <1>8, <1>9, <1>10, <1>11, <1>12, <1>13,
     <1>14, <1>15, <1>16, <1>17, <1>18, <1>19, <1>20 DEF Next, Caller, Due, Native

LEMMA PromptWaitsNext == PageInv /\ [Next]_vars => \A y \in Prompts : PromptWaits(y)'
  <1> SUFFICES ASSUME PageInv, [Next]_vars, NEW y \in Prompts PROVE PromptWaits(y)' OBVIOUS
  <1>a. PromptWaits(y) /\ On[y] \in Sessions /\ y \in Calls
    BY Names, ChromePageAssumption DEF PageInv
  <1> USE <1>a, Typed, Names DEF PromptWaits, hostVars, pageVars, Settled
  <1>1. ASSUME NEW s \in Sessions, Create(s) PROVE PromptWaits(y)' BY <1>1 DEF Create, StartOperation
  <1>2. ASSUME NEW p \in Prompts, Prompt(p) PROVE PromptWaits(y)' BY <1>2 DEF Prompt, StartOperation
  <1>3. ASSUME NEW c \in Sessions, Clone(c) PROVE PromptWaits(y)' BY <1>3 DEF Clone
  <1>4. ASSUME NEW o \in Operations, Abort(o) PROVE PromptWaits(y)' BY <1>4 DEF Abort
  <1>5. ASSUME NEW s \in Sessions, Destroy(s) PROVE PromptWaits(y)' BY <1>5 DEF Destroy, Active
  <1>6. ASSUME NEW o \in Operations, NEW ok \in BOOLEAN, Begun(o, ok) PROVE PromptWaits(y)' BY <1>6 DEF Begun
  <1>7. ASSUME NEW p \in Calls, NEW ok \in BOOLEAN, Prompted(p, ok) PROVE PromptWaits(y)' BY <1>7 DEF Prompted
  <1>8. ASSUME NEW s \in Calls, NEW ok \in BOOLEAN, SessionCreated(s, ok) PROVE PromptWaits(y)'
    BY <1>8 DEF SessionCreated
  <1>9. ASSUME NEW c \in Clones, NEW ok \in BOOLEAN, Cloned(c, ok) PROVE PromptWaits(y)' BY <1>9 DEF Cloned
  <1>10. ASSUME NEW s \in Calls, Deliver(s) PROVE PromptWaits(y)' BY <1>10 DEF Deliver
  <1>11. CASE \/ UNCHANGED vars \/ \E x \in Calls : Native(x)
              \/ \E x \in Calls : \/ PageBeginOperation(x) \/ PageCancelOperation(x) \/ PageRun(x)
                                 \/ PageAborts(x) \/ PageCloneSession(x) \/ PageDestroySession(x)
    <2>1. UNCHANGED hostVars
      BY <1>11 DEF vars, Native, NativeCreates, NativeAnswers, NativeClones, PageBeginOperation,
         PageCancelOperation, PageRun, PageAborts, PageCloneSession, PageDestroySession
    <2> QED BY <2>1
  <1> QED BY <1>1, <1>2, <1>3, <1>4, <1>5, <1>6, <1>7, <1>8, <1>9, <1>10, <1>11 DEF Next, Caller, Due

LEMMA SessionFitsNext == PageInv /\ [Next]_vars => \A y \in Sessions : SessionFits(y)'
  <1> SUFFICES ASSUME PageInv, [Next]_vars, NEW y \in Sessions PROVE SessionFits(y)' OBVIOUS
  <1>a. Fits(y) /\ SessionFits(y) BY Names DEF PageInv
  <1> USE <1>a, Typed, Names
        DEF Fits, Begins, Works, CallFits, SessionFits, hostVars, pageVars, Requested, Replied, Settled
  <1>1. ASSUME NEW s \in Sessions, Create(s) PROVE SessionFits(y)'
    <2>1. Fits(s) /\ CreateWire(s) BY <1>1, Names, CreateEffect DEF PageInv
    <2> QED BY <1>1, <2>1 DEF CreateWire, Create, StartOperation
  <1>2. ASSUME NEW p \in Prompts, Prompt(p) PROVE SessionFits(y)'
    <2>1. Fits(p) /\ PromptWire(p) BY <1>2, Names, PromptEffect DEF PageInv
    <2> QED BY <1>2, <2>1 DEF PromptWire, Prompt, StartOperation
  <1>3. ASSUME NEW c \in Sessions, Clone(c) PROVE SessionFits(y)'
    <2>1. Fits(c) /\ CloneWire(c) BY <1>3, Names, CloneEffect DEF PageInv
    <2> QED BY <1>3, <2>1 DEF CloneWire, Clone
  <1>4. ASSUME NEW o \in Operations, Abort(o) PROVE SessionFits(y)'
    <2>1. Fits(o) /\ AbortWire(o) BY <1>4, Names, AbortEffect DEF PageInv
    <2> QED BY <1>4, <2>1 DEF AbortWire, Abort
  <1>5. ASSUME NEW s \in Sessions, Destroy(s) PROVE SessionFits(y)'
    <2>1. Fits(s) /\ DestroyWire(s) BY <1>5, Names, DestroyEffect DEF PageInv
    <2> QED BY <1>5, <2>1 DEF DestroyWire, Destroy, Active
  <1>6. ASSUME NEW o \in Operations, NEW ok \in BOOLEAN, Begun(o, ok) PROVE SessionFits(y)'
    <2>1. Fits(o) /\ BegunWire(o, ok) BY <1>6, Names, BegunEffect DEF PageInv
    <2> QED BY <1>6, <2>1 DEF BegunWire, Begun
  <1>7. ASSUME NEW p \in Calls, NEW ok \in BOOLEAN, Prompted(p, ok) PROVE SessionFits(y)'
    <2>1. Fits(p) /\ PromptedWire(p, ok) BY <1>7, Names, PromptedEffect DEF PageInv
    <2> QED BY <1>7, <2>1 DEF PromptedWire, Prompted
  <1>8. ASSUME NEW s \in Calls, NEW ok \in BOOLEAN, SessionCreated(s, ok) PROVE SessionFits(y)'
    <2>1. Fits(s) /\ SessionCreatedWire(s, ok) BY <1>8, Names, SessionCreatedEffect DEF PageInv
    <2> QED BY <1>8, <2>1 DEF SessionCreatedWire, SessionCreated
  <1>9. ASSUME NEW c \in Clones, NEW ok \in BOOLEAN, Cloned(c, ok) PROVE SessionFits(y)'
    <2>1. Fits(c) /\ ClonedWire(c, ok) BY <1>9, Names, ClonedEffect DEF PageInv
    <2> QED BY <1>9, <2>1 DEF ClonedWire, Cloned
  <1>10. ASSUME NEW s \in Calls, Deliver(s) PROVE SessionFits(y)'
    <2>1. s \in Sessions /\ Fits(s) /\ SessionFits(s) /\ QuietWire
      BY <1>10, Names, QuietEffect DEF PageInv, Deliver, PromptWaits, Calls
    <2> QED BY <1>10, <2>1 DEF QuietWire, Deliver
  <1>11. ASSUME NEW o \in Calls, PageBeginOperation(o) PROVE SessionFits(y)'
    <2>1. Fits(o) /\ PageBeginWire(o) BY <1>11, Names, PageBeginEffect DEF PageInv
    <2> QED BY <1>11, <2>1 DEF PageBeginWire
  <1>12. ASSUME NEW o \in Calls, PageCancelOperation(o) PROVE SessionFits(y)'
    <2>1. Fits(o) /\ PageCancelWire(o) BY <1>12, Names, PageCancelEffect DEF PageInv
    <2> QED BY <1>12, <2>1 DEF PageCancelWire, PageCancelOperation, StopOperations
  <1>13. ASSUME NEW x \in Calls, PageRun(x) PROVE SessionFits(y)'
    <2>1. Fits(x) /\ PageRunWire(x) BY <1>13, Names, PageRunEffect DEF PageInv
    <2> QED BY <1>13, <2>1 DEF PageRunWire
  <1>14. ASSUME NEW p \in Calls, PageAborts(p) PROVE SessionFits(y)'
    <2>1. Fits(p) /\ PageAbortsWire(p) BY <1>14, Names, PageAbortsEffect DEF PageInv
    <2> QED BY <1>14, <2>1 DEF PageAbortsWire, PageAborts
  <1>15. ASSUME NEW c \in Clones, PageCloneSession(c) PROVE SessionFits(y)'
    <2>1. Fits(c) /\ PageCloneWire(c) BY <1>15, Names, PageCloneEffect DEF PageInv
    <2> QED BY <1>15, <2>1 DEF PageCloneWire, PageCloneSession
  <1>16. ASSUME NEW s \in Sessions, PageDestroySession(s) PROVE SessionFits(y)'
    <2>1. Fits(s) /\ PageDestroyWire(s) BY <1>16, Names, PageDestroyEffect DEF PageInv
    <2> QED BY <1>16, <2>1 DEF PageDestroyWire, PageDestroySession, StopOperations
  <1>17. ASSUME NEW s \in Calls, NEW ok \in BOOLEAN, NativeCreates(s, ok) PROVE SessionFits(y)'
    <2>1. Fits(s) /\ NativeCreatesWire(s, ok) BY <1>17, Names, NativeCreatesEffect DEF PageInv
    <2> QED BY <1>17, <2>1 DEF NativeCreatesWire, NativeCreates
  <1>18. ASSUME NEW p \in Calls, NEW ok \in BOOLEAN, NativeAnswers(p, ok) PROVE SessionFits(y)'
    <2>1. Fits(p) /\ NativeAnswersWire(p, ok) BY <1>18, Names, NativeAnswersEffect DEF PageInv
    <2> QED BY <1>18, <2>1 DEF NativeAnswersWire, NativeAnswers
  <1>19. ASSUME NEW c \in Calls, NEW ok \in BOOLEAN, NativeClones(c, ok) PROVE SessionFits(y)'
    <2>1. Fits(c) /\ NativeClonesWire(c, ok) BY <1>19, Names, NativeClonesEffect DEF PageInv
    <2> QED BY <1>19, <2>1 DEF NativeClonesWire, NativeClones
  <1>20. CASE UNCHANGED vars BY <1>20, QuietEffect DEF vars, QuietWire
  <1> HIDE DEF Fits, Begins, Works, CallFits, SessionFits, hostVars, pageVars, Requested, Replied, Settled
  <1> QED BY <1>1, <1>2, <1>3, <1>4, <1>5, <1>6, <1>7, <1>8, <1>9, <1>10, <1>11, <1>12, <1>13,
     <1>14, <1>15, <1>16, <1>17, <1>18, <1>19, <1>20 DEF Next, Caller, Due, Native

LEMMA HeldNext == PageInv /\ [Next]_vars => (~ MicrotaskAborts => \A y \in Sessions : Held(y)')
  <1> SUFFICES ASSUME PageInv, [Next]_vars, NEW y \in Sessions, ~ MicrotaskAborts PROVE Held(y)' OBVIOUS
  <1>a. Fits(y) /\ SessionFits(y) /\ Held(y) BY Names DEF PageInv
  <1> USE <1>a, Typed, Names
        DEF Fits, Begins, Works, CallFits, SessionFits, Held, hostVars, pageVars, Requested, Replied, Settled
  <1>1. ASSUME NEW s \in Sessions, Create(s) PROVE Held(y)'
    <2>1. Fits(s) /\ CreateWire(s) BY <1>1, Names, CreateEffect DEF PageInv
    <2> QED BY <1>1, <2>1 DEF CreateWire, Create, StartOperation
  <1>2. ASSUME NEW p \in Prompts, Prompt(p) PROVE Held(y)'
    <2>1. Fits(p) /\ PromptWire(p) BY <1>2, Names, PromptEffect DEF PageInv
    <2> QED BY <1>2, <2>1 DEF PromptWire, Prompt, StartOperation
  <1>3. ASSUME NEW c \in Sessions, Clone(c) PROVE Held(y)'
    <2>1. Fits(c) /\ CloneWire(c) BY <1>3, Names, CloneEffect DEF PageInv
    <2> QED BY <1>3, <2>1 DEF CloneWire, Clone
  <1>4. ASSUME NEW o \in Operations, Abort(o) PROVE Held(y)'
    <2>1. Fits(o) /\ AbortWire(o) BY <1>4, Names, AbortEffect DEF PageInv
    <2> QED BY <1>4, <2>1 DEF AbortWire, Abort
  <1>5. ASSUME NEW s \in Sessions, Destroy(s) PROVE Held(y)'
    <2>1. Fits(s) /\ DestroyWire(s) BY <1>5, Names, DestroyEffect DEF PageInv
    <2> QED BY <1>5, <2>1 DEF DestroyWire, Destroy, Active
  <1>6. ASSUME NEW o \in Operations, NEW ok \in BOOLEAN, Begun(o, ok) PROVE Held(y)'
    <2>1. Fits(o) /\ BegunWire(o, ok) BY <1>6, Names, BegunEffect DEF PageInv
    <2> QED BY <1>6, <2>1 DEF BegunWire, Begun
  <1>7. ASSUME NEW p \in Calls, NEW ok \in BOOLEAN, Prompted(p, ok) PROVE Held(y)'
    <2>1. Fits(p) /\ PromptedWire(p, ok) BY <1>7, Names, PromptedEffect DEF PageInv
    <2> QED BY <1>7, <2>1 DEF PromptedWire, Prompted
  <1>8. ASSUME NEW s \in Calls, NEW ok \in BOOLEAN, SessionCreated(s, ok) PROVE Held(y)'
    <2>1. Fits(s) /\ SessionCreatedWire(s, ok) BY <1>8, Names, SessionCreatedEffect DEF PageInv
    <2> QED BY <1>8, <2>1 DEF SessionCreatedWire, SessionCreated
  <1>9. ASSUME NEW c \in Clones, NEW ok \in BOOLEAN, Cloned(c, ok) PROVE Held(y)'
    <2>1. Fits(c) /\ ClonedWire(c, ok) BY <1>9, Names, ClonedEffect DEF PageInv
    <2> QED BY <1>9, <2>1 DEF ClonedWire, Cloned
  <1>10. ASSUME NEW s \in Calls, Deliver(s) PROVE Held(y)'
    <2>1. s \in Sessions /\ Fits(s) /\ SessionFits(s) /\ QuietWire
      BY <1>10, Names, QuietEffect DEF PageInv, Deliver, PromptWaits, Calls
    <2> QED BY <1>10, <2>1 DEF QuietWire, Deliver
  <1>11. ASSUME NEW o \in Calls, PageBeginOperation(o) PROVE Held(y)'
    <2>1. Fits(o) /\ PageBeginWire(o) BY <1>11, Names, PageBeginEffect DEF PageInv
    <2> QED BY <1>11, <2>1 DEF PageBeginWire
  <1>12. ASSUME NEW o \in Calls, PageCancelOperation(o) PROVE Held(y)'
    <2>1. Fits(o) /\ PageCancelWire(o) BY <1>12, Names, PageCancelEffect DEF PageInv
    <2> QED BY <1>12, <2>1 DEF PageCancelWire, PageCancelOperation, StopOperations
  <1>13. ASSUME NEW x \in Calls, PageRun(x) PROVE Held(y)'
    <2>1. Fits(x) /\ PageRunWire(x) BY <1>13, Names, PageRunEffect DEF PageInv
    <2> QED BY <1>13, <2>1 DEF PageRunWire
  <1>14. ASSUME NEW p \in Calls, PageAborts(p) PROVE Held(y)'
    <2>1. Fits(p) /\ PageAbortsWire(p) BY <1>14, Names, PageAbortsEffect DEF PageInv
    <2> QED BY <1>14, <2>1 DEF PageAbortsWire, PageAborts
  <1>15. ASSUME NEW c \in Clones, PageCloneSession(c) PROVE Held(y)'
    <2>1. Fits(c) /\ PageCloneWire(c) BY <1>15, Names, PageCloneEffect DEF PageInv
    <2> QED BY <1>15, <2>1 DEF PageCloneWire, PageCloneSession
  <1>16. ASSUME NEW s \in Sessions, PageDestroySession(s) PROVE Held(y)'
    <2>1. Fits(s) /\ PageDestroyWire(s) BY <1>16, Names, PageDestroyEffect DEF PageInv
    <2> QED BY <1>16, <2>1 DEF PageDestroyWire, PageDestroySession, StopOperations
  <1>17. ASSUME NEW s \in Calls, NEW ok \in BOOLEAN, NativeCreates(s, ok) PROVE Held(y)'
    <2>1. Fits(s) /\ NativeCreatesWire(s, ok) BY <1>17, Names, NativeCreatesEffect DEF PageInv
    <2> QED BY <1>17, <2>1 DEF NativeCreatesWire, NativeCreates
  <1>18. ASSUME NEW p \in Calls, NEW ok \in BOOLEAN, NativeAnswers(p, ok) PROVE Held(y)'
    <2>1. Fits(p) /\ NativeAnswersWire(p, ok) BY <1>18, Names, NativeAnswersEffect DEF PageInv
    <2> QED BY <1>18, <2>1 DEF NativeAnswersWire, NativeAnswers
  <1>19. ASSUME NEW c \in Calls, NEW ok \in BOOLEAN, NativeClones(c, ok) PROVE Held(y)'
    <2>1. Fits(c) /\ NativeClonesWire(c, ok) BY <1>19, Names, NativeClonesEffect DEF PageInv
    <2> QED BY <1>19, <2>1 DEF NativeClonesWire, NativeClones
  <1>20. CASE UNCHANGED vars BY <1>20, QuietEffect DEF vars, QuietWire
  <1> HIDE DEF Fits, Begins, Works, CallFits, SessionFits, Held, hostVars, pageVars, Requested, Replied, Settled
  <1> QED BY <1>1, <1>2, <1>3, <1>4, <1>5, <1>6, <1>7, <1>8, <1>9, <1>10, <1>11, <1>12, <1>13,
     <1>14, <1>15, <1>16, <1>17, <1>18, <1>19, <1>20 DEF Next, Caller, Due, Native

LEMMA PageInvNext == PageInv /\ [Next]_vars => PageInv'
  <1> SUFFICES ASSUME PageInv, [Next]_vars PROVE PageInv' OBVIOUS
  <1>1. AskBegin \subseteq Operations BY DEF PageInv, Fits, Begins, AskBegin
  <1>2. TypeOK' BY <1>1, TypeOKNext DEF PageInv
  <1> QED BY <1>2, FitsNext, PromptWaitsNext, SessionFitsNext, HeldNext DEF PageInv

LEMMA PageInvHolds == Spec => []PageInv
  BY PageInvInit, PageInvNext, PTL DEF Spec

----------------------------------------------------------------------------
(* No call is lost.                                                        *)

\* A call under way has its message on its way, or its native call at work; a
\* prompt at work can be stopped; and a session that its caller destroyed is
\* destroyed on the page, or is going to be.
GoesOn(x) ==
  /\ call[x] = "beginning" => x \in AskBegin \cup BegunYes \cup BegunNo
  /\ call[x] = "invoking" =>
       \/ x \in AskRun \cup AskClone \cup RanYes \cup RanNo \cup ClonedYes \cup ClonedNo
       \/ work[x] = "running"
  /\ x \in Prompts /\ work[x] = "running" => x \in registered \cup stopped
  /\ x \in Sessions /\ host[x] = "destroyed" =>
       native[x] = "destroyed" \/ (native[x] = "alive" /\ x \in AskDestroy)

WorkInv == \A x \in Calls : GoesOn(x)

LEMMA WorkInvInit == Init => WorkInv
  BY Names DEF Init, WorkInv, GoesOn

LEMMA GoesOnNext == PageInv /\ WorkInv /\ [Next]_vars => \A y \in Calls : GoesOn(y)'
  <1> SUFFICES ASSUME PageInv, WorkInv, [Next]_vars, NEW y \in Calls PROVE GoesOn(y)' OBVIOUS
  <1>a. Fits(y) /\ GoesOn(y) BY Names DEF PageInv, WorkInv
  <1> USE <1>a, Typed, Names
        DEF Fits, Begins, Works, CallFits, GoesOn, hostVars, pageVars, Requested, Replied, Settled
  <1>1. ASSUME NEW s \in Sessions, Create(s) PROVE GoesOn(y)'
    <2>1. Fits(s) /\ CreateWire(s) BY <1>1, Names, CreateEffect DEF PageInv
    <2> QED BY <1>1, <2>1 DEF CreateWire, Create, StartOperation
  <1>2. ASSUME NEW p \in Prompts, Prompt(p) PROVE GoesOn(y)'
    <2>1. Fits(p) /\ PromptWire(p) BY <1>2, Names, PromptEffect DEF PageInv
    <2> QED BY <1>2, <2>1 DEF PromptWire, Prompt, StartOperation
  <1>3. ASSUME NEW c \in Sessions, Clone(c) PROVE GoesOn(y)'
    <2>1. Fits(c) /\ CloneWire(c) BY <1>3, Names, CloneEffect DEF PageInv
    <2> QED BY <1>3, <2>1 DEF CloneWire, Clone
  <1>4. ASSUME NEW o \in Operations, Abort(o) PROVE GoesOn(y)'
    <2>1. Fits(o) /\ AbortWire(o) BY <1>4, Names, AbortEffect DEF PageInv
    <2> QED BY <1>4, <2>1 DEF AbortWire, Abort
  <1>5. ASSUME NEW s \in Sessions, Destroy(s) PROVE GoesOn(y)'
    <2>1. Fits(s) /\ DestroyWire(s) BY <1>5, Names, DestroyEffect DEF PageInv
    <2>2. native[s] = "alive" BY <1>5 DEF Destroy, PageInv, SessionFits
    <2> QED BY <1>5, <2>1, <2>2 DEF DestroyWire, Destroy, Active
  <1>6. ASSUME NEW o \in Operations, NEW ok \in BOOLEAN, Begun(o, ok) PROVE GoesOn(y)'
    <2>1. Fits(o) /\ BegunWire(o, ok) BY <1>6, Names, BegunEffect DEF PageInv
    <2> QED BY <1>6, <2>1 DEF BegunWire, Begun
  <1>7. ASSUME NEW p \in Calls, NEW ok \in BOOLEAN, Prompted(p, ok) PROVE GoesOn(y)'
    <2>1. Fits(p) /\ PromptedWire(p, ok) BY <1>7, Names, PromptedEffect DEF PageInv
    <2> QED BY <1>7, <2>1 DEF PromptedWire, Prompted
  <1>8. ASSUME NEW s \in Calls, NEW ok \in BOOLEAN, SessionCreated(s, ok) PROVE GoesOn(y)'
    <2>1. Fits(s) /\ SessionCreatedWire(s, ok) BY <1>8, Names, SessionCreatedEffect DEF PageInv
    <2> QED BY <1>8, <2>1 DEF SessionCreatedWire, SessionCreated
  <1>9. ASSUME NEW c \in Clones, NEW ok \in BOOLEAN, Cloned(c, ok) PROVE GoesOn(y)'
    <2>1. Fits(c) /\ ClonedWire(c, ok) BY <1>9, Names, ClonedEffect DEF PageInv
    <2> QED BY <1>9, <2>1 DEF ClonedWire, Cloned
  <1>10. ASSUME NEW s \in Calls, Deliver(s) PROVE GoesOn(y)'
    <2>1. s \in Sessions /\ Fits(s) /\ SessionFits(s) /\ QuietWire
      BY <1>10, Names, QuietEffect DEF PageInv, Deliver, PromptWaits, Calls
    <2> QED BY <1>10, <2>1 DEF QuietWire, Deliver
  <1>11. ASSUME NEW o \in Calls, PageBeginOperation(o) PROVE GoesOn(y)'
    <2>1. Fits(o) /\ PageBeginWire(o) BY <1>11, Names, PageBeginEffect DEF PageInv
    <2> QED BY <1>11, <2>1 DEF PageBeginWire
  <1>12. ASSUME NEW o \in Calls, PageCancelOperation(o) PROVE GoesOn(y)'
    <2>1. Fits(o) /\ PageCancelWire(o) BY <1>12, Names, PageCancelEffect DEF PageInv
    <2> QED BY <1>12, <2>1 DEF PageCancelWire, PageCancelOperation, StopOperations
  <1>13. ASSUME NEW x \in Calls, PageRun(x) PROVE GoesOn(y)'
    <2>1. Fits(x) /\ PageRunWire(x) BY <1>13, Names, PageRunEffect DEF PageInv
    <2>2. x \in Prompts /\ work'[x] = "running" => x \in registered BY <1>13 DEF PageRun
    <2> QED BY <1>13, <2>1, <2>2 DEF PageRunWire
  <1>14. ASSUME NEW p \in Calls, PageAborts(p) PROVE GoesOn(y)'
    <2>1. Fits(p) /\ PageAbortsWire(p) BY <1>14, Names, PageAbortsEffect DEF PageInv
    <2> QED BY <1>14, <2>1 DEF PageAbortsWire, PageAborts
  <1>15. ASSUME NEW c \in Clones, PageCloneSession(c) PROVE GoesOn(y)'
    <2>1. Fits(c) /\ PageCloneWire(c) BY <1>15, Names, PageCloneEffect DEF PageInv
    <2> QED BY <1>15, <2>1 DEF PageCloneWire, PageCloneSession
  <1>16. ASSUME NEW s \in Sessions, PageDestroySession(s) PROVE GoesOn(y)'
    <2>1. Fits(s) /\ PageDestroyWire(s) BY <1>16, Names, PageDestroyEffect DEF PageInv
    <2>2. \A o \in registered : o \in registered' \/ o \in stopped'
      BY <1>16 DEF PageDestroySession, StopOperations
    <2>3. /\ stopped \subseteq stopped' /\ UNCHANGED <<call, host, work>>
          /\ native' = [native EXCEPT ![s] = IF @ = "alive" THEN "destroyed" ELSE @]
      BY <1>16 DEF PageDestroySession, StopOperations
    <2>4. y \in Sessions /\ host[y] = "destroyed" =>
            native'[y] = "destroyed" \/ (native'[y] = "alive" /\ y \in AskDestroy')
      BY <2>1, <2>3 DEF PageDestroyWire
    <2> QED BY <2>1, <2>2, <2>3, <2>4 DEF PageDestroyWire
  <1>17. ASSUME NEW s \in Calls, NEW ok \in BOOLEAN, NativeCreates(s, ok) PROVE GoesOn(y)'
    <2>1. Fits(s) /\ NativeCreatesWire(s, ok) BY <1>17, Names, NativeCreatesEffect DEF PageInv
    <2>2. s \in Sessions /\ host[s] # "destroyed" BY <1>17, Names DEF NativeCreates, PageInv, SessionFits
    <2> QED BY <1>17, <2>1, <2>2 DEF NativeCreatesWire, NativeCreates
  <1>18. ASSUME NEW p \in Calls, NEW ok \in BOOLEAN, NativeAnswers(p, ok) PROVE GoesOn(y)'
    <2>1. Fits(p) /\ NativeAnswersWire(p, ok) BY <1>18, Names, NativeAnswersEffect DEF PageInv
    <2> QED BY <1>18, <2>1 DEF NativeAnswersWire, NativeAnswers
  <1>19. ASSUME NEW c \in Calls, NEW ok \in BOOLEAN, NativeClones(c, ok) PROVE GoesOn(y)'
    <2>1. Fits(c) /\ NativeClonesWire(c, ok) BY <1>19, Names, NativeClonesEffect DEF PageInv
    <2>2. c \in Sessions /\ host[c] # "destroyed" BY <1>19, Names DEF NativeClones, PageInv, SessionFits
    <2> QED BY <1>19, <2>1, <2>2 DEF NativeClonesWire, NativeClones
  <1>20. CASE UNCHANGED vars BY <1>20, QuietEffect DEF vars, QuietWire
  <1> HIDE DEF Fits, Begins, Works, CallFits, GoesOn, hostVars, pageVars, Requested, Replied, Settled
  <1> QED BY <1>1, <1>2, <1>3, <1>4, <1>5, <1>6, <1>7, <1>8, <1>9, <1>10, <1>11, <1>12, <1>13,
        <1>14, <1>15, <1>16, <1>17, <1>18, <1>19, <1>20 DEF Next, Caller, Due, Native

LEMMA WorkInvHolds == Spec => []WorkInv
  <1>1. PageInv /\ WorkInv /\ [Next]_vars => WorkInv'
    BY GoesOnNext DEF WorkInv
  <1> QED BY <1>1, WorkInvInit, PageInvHolds, PTL DEF Spec

\* A message about x is due.
LEMMA MessagesAreDue ==
  ASSUME NEW x \in Calls,
         x \in AskBegin \cup AskRun \cup AskCancel \cup AskClone \cup AskDestroy \cup BegunYes \cup BegunNo
              \cup RanYes \cup RanNo \cup ClonedYes \cup ClonedNo
  PROVE  HasDue(x)
  <1>1. /\ \A fn : Request(fn, x).about = x
        /\ \A fn, ok : Reply(fn, x, ok).about = x
    BY DEF Request, Reply
  <1>2. (\E fn : Request(fn, x) \in wire) \/ (\E fn, ok : Reply(fn, x, ok) \in wire)
    BY DEF AskBegin, AskRun, AskCancel, AskClone, AskDestroy, BegunYes, BegunNo, RanYes, RanNo,
       ClonedYes, ClonedNo
  <1> QED BY <1>1, <1>2 DEF HasDue

LEMMA WorkInvMeans == PageInv /\ WorkInv => NoCallIsLost
  <1> SUFFICES ASSUME PageInv, WorkInv PROVE NoCallIsLost OBVIOUS
  <1>1. ASSUME NEW x \in Calls, call[x] \in {"beginning", "invoking"}
        PROVE  HasDue(x) \/ work[x] = "running"
    BY <1>1, MessagesAreDue DEF WorkInv, GoesOn
  <1>2. ASSUME NEW o \in Operations, Settled(o), ~ HasDue(o) PROVE o \notin registered
    BY <1>2, Names, MessagesAreDue DEF PageInv, Fits, Released
  <1>3. ASSUME NEW p \in Prompts, Settled(p), ~ HasDue(p) PROVE work[p] # "running"
    <2>1. p \in Operations /\ p \in Calls BY Names
    <2>2. p \notin registered BY <1>2, <1>3, <2>1
    <2> QED BY <1>3, <2>1, <2>2 DEF WorkInv, GoesOn, HasDue
  <1>4. ASSUME NEW s \in Sessions, host[s] = "destroyed", ~ HasDue(s) PROVE native[s] = "destroyed"
    BY <1>4, Names, MessagesAreDue DEF WorkInv, GoesOn
  <1> QED BY <1>1, <1>2, <1>3, <1>4 DEF NoCallIsLost

----------------------------------------------------------------------------
(* Theorems.                                                               *)

\* The page keeps a session as long as its caller holds it, for any number of
\* sessions, clones, prompts and aborts.
THEOREM HostSessionsAreBacked == Spec => []HostSessionIsBacked
  <1>1. PageInv => HostSessionIsBacked
    BY DEF PageInv, SessionFits, HostSessionIsBacked
  <1> QED BY <1>1, PageInvHolds, PTL

\* No session is left behind on the page, provided that no signal aborts
\* between the microtask that ends create()'s invoke and the one that hands the
\* session over.
THEOREM PageSessionsDoNotLeak ==
  ASSUME ~ MicrotaskAborts PROVE Spec => []NoPageSessionLeaks
  <1>1. PageInv => NoPageSessionLeaks
    BY DEF PageInv, Held, NoPageSessionLeaks, RanYes, ClonedYes, AskDestroy
  <1> QED BY <1>1, PageInvHolds, PTL

\* What was answered is released on the page: the cancellation is on its way, or
\* the receipt that sends it.  And no call is lost: one under way has a message
\* on its way, a continuation, or the native model that works for it, and what
\* was given up has nothing left on the page once nothing is due for it (the
\* safety half of PageWorkEnds).
THEOREM PageCallsGoOn == Spec => []CallsGoOn
  <1>1. PageInv => SettledMeansReleased
    BY Names DEF PageInv, Fits, Released, SettledMeansReleased, AskCancel, BegunYes
  <1>2. PageInv /\ WorkInv => CallsGoOn
    BY <1>1, WorkInvMeans DEF CallsGoOn
  <1> QED BY <1>2, PageInvHolds, WorkInvHolds, PTL

\* A prompt runs only for a call that waits for it, on a session that is there,
\* and gives a value only to a call that still waits.
THEOREM PromptsAreInTime == Spec => PromptsKeepTheirTime
  <1> DEFINE InTime == \A p \in Prompts :
               (outcome[p] # "value" /\ outcome'[p] = "value")
                 => host[On[p]] = "open" /\ p \notin signal /\ outcome[p] = "none"
             Invited == \A p \in Prompts :
               (work[p] # "running" /\ work'[p] = "running")
                 => call[p] = "invoking" /\ native[On[p]] = "alive" /\ p \in registered
  <1>1. PageInv /\ [Next]_vars => [InTime]_vars
    <2> SUFFICES ASSUME PageInv, [Next]_vars, NEW p \in Prompts,
                        outcome[p] # "value", outcome'[p] = "value"
                 PROVE  host[On[p]] = "open" /\ p \notin signal /\ outcome[p] = "none"
      OBVIOUS
    <2> USE Names, Typed
    <2>1. CASE \E ok \in BOOLEAN : Prompted(p, ok)
      <3>1. PICK ok \in BOOLEAN : Prompted(p, ok) BY <2>1
      <3>2. call[p] = "invoking"
        BY <3>1, PromptedEffect DEF PromptedWire, PageInv, Fits, Works
      <3>3. outcome[p] = "none" BY <3>1 DEF Prompted, Settled
      <3> QED BY <3>2, <3>3 DEF PageInv, PromptWaits, Settled
    <2>2. CASE \E s \in Calls : Deliver(s)
      <3>1. PICK s \in Calls : Deliver(s) BY <2>2
      <3>2. s # p BY <3>1 DEF Deliver, PageInv, PromptWaits
      <3> QED BY <3>1, <3>2 DEF Deliver
    <2>3. CASE \/ UNCHANGED outcome
               \/ \E s \in Sessions : Create(s) \/ Destroy(s)
               \/ \E q \in Prompts : Prompt(q)
               \/ \E o \in Operations : Abort(o)
               \/ \E o \in Operations, ok \in BOOLEAN : Begun(o, ok)
      <3>1. ASSUME NEW t \in Sessions, Create(t) PROVE FALSE
        BY <3>1 DEF Create, StartOperation
      <3>2. ASSUME NEW t \in Sessions, Destroy(t) PROVE FALSE
        BY <3>2 DEF Destroy, Active, PageInv, PromptWaits
      <3>3. ASSUME NEW q \in Prompts, Prompt(q) PROVE FALSE
        BY <3>3 DEF Prompt, StartOperation
      <3>4. ASSUME NEW o \in Operations, Abort(o) PROVE FALSE
        BY <3>4 DEF Abort
      <3>5. ASSUME NEW o \in Operations, NEW ok \in BOOLEAN, Begun(o, ok) PROVE FALSE
        BY <3>5 DEF Begun
      <3> QED BY <2>3, <3>1, <3>2, <3>3, <3>4, <3>5
    <2>4. CASE \/ \E q \in Calls \ {p}, ok \in BOOLEAN : Prompted(q, ok)
               \/ \E s \in Calls, ok \in BOOLEAN : SessionCreated(s, ok)
               \/ \E c \in Clones, ok \in BOOLEAN : Cloned(c, ok)
      <3>1. ASSUME NEW q \in Calls \ {p}, NEW ok \in BOOLEAN, Prompted(q, ok) PROVE FALSE
        BY <3>1 DEF Prompted
      <3>2. ASSUME NEW s \in Calls, NEW ok \in BOOLEAN, SessionCreated(s, ok) PROVE FALSE
        BY <3>2 DEF SessionCreated, Settled
      <3>3. ASSUME NEW c \in Clones, NEW ok \in BOOLEAN, Cloned(c, ok) PROVE FALSE
        BY <3>3 DEF Cloned
      <3> QED BY <2>4, <3>1, <3>2, <3>3
    <2> QED BY <2>1, <2>2, <2>3, <2>4 DEF Next, Caller, Due, Native, Clone, PageBeginOperation,
          PageCancelOperation, PageRun, PageAborts, PageCloneSession, PageDestroySession,
          NativeCreates, NativeAnswers, NativeClones, vars, hostVars
  <1>2. PageInv /\ [Next]_vars => [Invited]_vars
    <2> SUFFICES ASSUME PageInv, [Next]_vars, NEW p \in Prompts,
                        work[p] # "running", work'[p] = "running"
                 PROVE  call[p] = "invoking" /\ native[On[p]] = "alive" /\ p \in registered
      OBVIOUS
    <2> USE Names, Typed
    <2>1. CASE PageRun(p)
      <3>1. call[p] = "invoking" BY <2>1, PageRunEffect DEF PageRunWire, PageInv, Fits, Works
      <3>2. native[On[p]] = "alive" /\ p \in registered BY <2>1 DEF PageRun, SessionOf
      <3> QED BY <3>1, <3>2
    <2>2. CASE \/ \E x \in Calls \ {p} : PageRun(x)
               \/ \E x \in Calls : PageAborts(x) \/ Native(x)
               \/ \E c \in Clones : PageCloneSession(c)
      <3>1. ASSUME NEW x \in Calls \ {p}, PageRun(x) PROVE FALSE
        BY <3>1 DEF PageRun
      <3>2. ASSUME NEW x \in Calls, PageAborts(x) PROVE FALSE
        BY <3>2 DEF PageAborts
      <3>3. ASSUME NEW x \in Calls, Native(x) PROVE FALSE
        BY <3>3 DEF Native, NativeCreates, NativeAnswers, NativeClones
      <3>4. ASSUME NEW c \in Clones, PageCloneSession(c) PROVE FALSE
        BY <3>4 DEF PageCloneSession
      <3> QED BY <2>2, <3>1, <3>2, <3>3, <3>4
    <2>3. CASE UNCHANGED work BY <2>3
    <2> QED BY <2>1, <2>2, <2>3 DEF Next, Caller, Due, Create, Prompt, Clone, Abort, Destroy, Begun,
          Prompted, SessionCreated, Cloned, Deliver, PageBeginOperation, PageCancelOperation,
          PageDestroySession, vars, pageVars
  <1> QED BY <1>1, <1>2, PageInvHolds, PTL DEF Spec, PromptsKeepTheirTime, ValuesComeInTime,
            PromptsRunByInvitation

=============================================================================
