-------------------------- MODULE AppleShimProofs --------------------------
(***************************************************************************)
(* Proofs about the Apple Foundation Models session over its children.     *)
(*                                                                         *)
(* A reply carries no name, so ShimInv follows the requests of each child  *)
(* by their places.  Balanced: pending list and timers are what calls wait *)
(* for on the child.  Ordered, while no request of the child has timed     *)
(* out: the lines that are not read yet answer the first of the pending    *)
(* list, and what the child has not read are the others; Matched follows,  *)
(* and survives the end of a call because what a call was told stays.      *)
(* Owned: who knows of a child that runs.                                  *)
(***************************************************************************)
EXTENDS AppleShim, SequenceTheorems, TLAPS

LEMMA AppendLemma ==
  ASSUME NEW S, NEW s \in Seq(S), NEW e \in S
  PROVE  /\ ToSet(Append(s, e)) = ToSet(s) \cup {e}
         /\ IsInjective(s) /\ e \notin ToSet(s) => IsInjective(Append(s, e))
<1> DEFINE t == Append(s, e)
<1>1. /\ DOMAIN s = 1 .. Len(s) /\ DOMAIN t = 1 .. Len(s) + 1 /\ Len(s) \in Nat
      /\ t[Len(s) + 1] = e /\ \A i \in 1 .. Len(s) : t[i] = s[i]
  BY SMT
<1> HIDE DEF t
<1>2. ToSet(t) = ToSet(s) \cup {e}
  BY <1>1, SMT DEF ToSet
<1>3. IsInjective(s) /\ e \notin ToSet(s) => IsInjective(t)
  BY <1>1, SMT DEF ToSet, IsInjective
<1> QED
  BY <1>2, <1>3 DEF t

LEMMA TailLemma ==
  ASSUME NEW S, NEW s \in Seq(S), s # <<>>, IsInjective(s)
  PROVE  /\ ToSet(Tail(s)) = ToSet(s) \ {Head(s)}
         /\ IsInjective(Tail(s))
         /\ Head(s) \in ToSet(s)
<1> DEFINE t == Tail(s)
<1>1. /\ DOMAIN s = 1 .. Len(s) /\ DOMAIN t = 1 .. Len(s) - 1 /\ Len(s) \in Nat \ {0}
      /\ Head(s) = s[1] /\ \A i \in 1 .. Len(s) - 1 : t[i] = s[i + 1]
  BY SMT
<1> HIDE DEF t
<1>2. \A i \in 1 .. Len(s) : i = 1 \/ (i - 1 \in 1 .. Len(s) - 1 /\ s[i] = t[i - 1])
  <2> SUFFICES ASSUME NEW i \in 1 .. Len(s), i # 1
               PROVE  i - 1 \in 1 .. Len(s) - 1 /\ s[i] = t[i - 1]
    OBVIOUS
  <2>1. i - 1 \in 1 .. Len(s) - 1 /\ (i - 1) + 1 = i
    BY <1>1, SMT
  <2> QED
    BY <1>1, <2>1
<1>3. ToSet(t) \subseteq ToSet(s) \ {Head(s)}
  BY <1>1, SMT DEF ToSet, IsInjective
<1>4. ToSet(s) \ {Head(s)} \subseteq ToSet(t)
  BY <1>1, <1>2, SMT DEF ToSet
<1>5. IsInjective(t)
  BY <1>1, SMT DEF IsInjective
<1>6. Head(s) \in ToSet(s)
  BY <1>1, SMT DEF ToSet
<1> QED
  BY <1>3, <1>4, <1>5, <1>6 DEF t

LEMMA RemoveFirstLemma ==
  ASSUME NEW S, NEW s \in Seq(S), NEW e, IsInjective(s)
  PROVE  /\ RemoveFirst(s, e) \in Seq(S)
         /\ ToSet(RemoveFirst(s, e)) = ToSet(s) \ {e}
         /\ IsInjective(RemoveFirst(s, e))
         /\ \A k \in 0 .. Len(s) : (\A i \in 1 .. k : s[i] # e) =>
              /\ k <= Len(RemoveFirst(s, e))
              /\ \A i \in 1 .. k : RemoveFirst(s, e)[i] = s[i]
<1>1. CASE ~ \E i \in 1 .. Len(s) : s[i] = e
  BY <1>1, SMT DEF RemoveFirst, ToSet
<1>2. ASSUME NEW j \in 1 .. Len(s), s[j] = e
      PROVE  /\ RemoveFirst(s, e) \in Seq(S)
             /\ Len(RemoveFirst(s, e)) = Len(s) - 1
             /\ \A i \in 1 .. Len(s) - 1 :
                  RemoveFirst(s, e)[i] = IF i < j THEN s[i] ELSE s[i + 1]
  <2> DEFINE I == {i \in 1 .. Len(s) : s[i] = e}
  <2>1. I = {j}
    BY <1>2, SMT DEF IsInjective
  <2>2. (CHOOSE x \in {j} : \A y \in {j} : x <= y) = j
    BY SMT
  <2>3. Min(I) = j
    BY <2>1, <2>2, Zenon DEF Min
  <2>4. SelectInSeq(s, LAMBDA v : v = e) = IF I # {} THEN Min(I) ELSE 0
    BY Zenon DEF SelectInSeq
  <2>5. RemoveFirst(s, e) = RemoveAt(s, IF I # {} THEN Min(I) ELSE 0)
    BY <1>2, Zenon DEF RemoveFirst, SelectInSeq
  <2>6. RemoveFirst(s, e) = RemoveAt(s, j)
    BY <2>1, <2>3, <2>5
  <2>7. RemoveFirst(s, e) = SubSeq(s, 1, j - 1) \o SubSeq(s, j + 1, Len(s))
    BY <2>6 DEF RemoveAt
  <2> DEFINE x == SubSeq(s, 1, j - 1)
             y == SubSeq(s, j + 1, Len(s))
  <2>8. x \in Seq(S) /\ Len(x) = j - 1 /\ \A i \in 1 .. j - 1 : x[i] = s[i]
    BY SMT
  <2>9. y \in Seq(S) /\ Len(y) = Len(s) - j /\ \A i \in 1 .. Len(s) - j : y[i] = s[j + i]
    BY SMT
  <2> HIDE DEF x, y
  <2>10. /\ x \o y \in Seq(S) /\ Len(x \o y) = Len(x) + Len(y)
         /\ \A i \in 1 .. Len(x) + Len(y) :
              (x \o y)[i] = IF i <= Len(x) THEN x[i] ELSE y[i - Len(x)]
    BY <2>8, <2>9, ConcatProperties, Zenon
  <2>11. \A i \in 1 .. Len(s) - 1 : (x \o y)[i] = IF i < j THEN s[i] ELSE s[i + 1]
    BY <2>8, <2>9, <2>10, SMT
  <2>12. Len(x \o y) = Len(s) - 1
    BY <2>8, <2>9, <2>10, SMT
  <2> QED
    BY <2>7, <2>10, <2>11, <2>12 DEF x, y
<1>3. ASSUME NEW j \in 1 .. Len(s), s[j] = e
      PROVE  /\ ToSet(RemoveFirst(s, e)) = ToSet(s) \ {e}
             /\ IsInjective(RemoveFirst(s, e))
  <2> DEFINE t == RemoveFirst(s, e)
             old(i) == IF i < j THEN i ELSE i + 1
  <2>1. /\ Len(s) \in Nat \ {0} /\ DOMAIN s = 1 .. Len(s) /\ DOMAIN t = 1 .. Len(s) - 1
        /\ \A i \in 1 .. Len(s) - 1 :
             t[i] = s[old(i)] /\ old(i) \in 1 .. Len(s) /\ old(i) # j
    BY <1>2, <1>3, SMT
  <2> HIDE DEF t
  <2>2. \A i \in 1 .. Len(s) : i = j \/ \E m \in 1 .. Len(s) - 1 : i = old(m)
    <3> SUFFICES ASSUME NEW i \in 1 .. Len(s), i # j
                 PROVE  \E m \in 1 .. Len(s) - 1 : i = old(m)
      OBVIOUS
    <3>1. CASE i < j
      BY <3>1, <2>1, SMT
    <3>2. CASE i > j
      <4>1. i - 1 \in 1 .. Len(s) - 1 /\ i = old(i - 1)
        BY <3>2, <2>1, SMT
      <4> QED
        BY <4>1
    <3> QED
      BY <3>1, <3>2, SMT
  <2>3. \A i, m \in 1 .. Len(s) - 1 : old(i) = old(m) => i = m
    BY <2>1, SMT
  <2> HIDE DEF old
  <2>4. \A i \in 1 .. Len(s) : s[i] = e => i = j
    BY <1>3, <2>1, SMT DEF IsInjective
  <2>5. ToSet(t) \subseteq ToSet(s) \ {e}
    BY <2>1, <2>4, SMT DEF ToSet
  <2>6. ToSet(s) \ {e} \subseteq ToSet(t)
    <3> SUFFICES ASSUME NEW i \in 1 .. Len(s), s[i] # e
                 PROVE  s[i] \in ToSet(t)
      BY <2>1 DEF ToSet
    <3>1. PICK m \in 1 .. Len(s) - 1 : i = old(m)
      BY <1>3, <2>2
    <3> QED
      BY <2>1, <3>1 DEF ToSet
  <2>7. IsInjective(t)
    BY <2>1, <2>3 DEF IsInjective
  <2> QED
    BY <2>5, <2>6, <2>7 DEF t
<1>4. ASSUME NEW j \in 1 .. Len(s), s[j] = e, NEW k \in 0 .. Len(s),
             \A i \in 1 .. k : s[i] # e
      PROVE  /\ k <= Len(RemoveFirst(s, e))
             /\ \A i \in 1 .. k : RemoveFirst(s, e)[i] = s[i]
  BY <1>4, <1>2, SMT
<1> QED
  BY <1>1, <1>2, <1>3, <1>4

LEMMA SuffixLemma ==
  ASSUME NEW S, NEW s \in Seq(S), NEW k \in 0 .. Len(s)
  PROVE  /\ SubSeq(s, k + 1, Len(s)) \in Seq(S)
         /\ Len(SubSeq(s, k + 1, Len(s))) = Len(s) - k
         /\ \A i \in 1 .. Len(s) - k : SubSeq(s, k + 1, Len(s))[i] = s[k + i]
BY SMT

----------------------------------------------------------------------------
(* The effects on one child.                                               *)

\* x and y are the same child but for the signals it was sent.
SameBooks(x, y) ==
  /\ x.process = y.process /\ x.exited = y.exited /\ x.stdin = y.stdin
  /\ x.stdout = y.stdout /\ x.pending = y.pending /\ x.timers = y.timers

\* A child that was disposed of does not run on unless it was told to stop.
LEMMA KillLemma ==
  ASSUME NEW x \in ChildState
  PROVE  /\ Kill(x) \in ChildState /\ SameBooks(Kill(x), x)
         /\ x.killed => Kill(x).killed
         /\ x.process = "running" => Kill(x).killed
<1>1. PICK k \in BOOLEAN : k = (x.killed \/ x.process = "running")
  OBVIOUS
<1>2. Kill(x) = [x EXCEPT !.killed = k]
  BY <1>1, Zenon DEF Kill
<1>3. Kill(x) \in ChildState
  BY <1>2, Zenon DEF ChildState
<1>4. SameBooks(Kill(x), x) /\ Kill(x).killed = k
  BY <1>2, SMT DEF ChildState, SameBooks
<1> QED
  BY <1>1, <1>3, <1>4

LEMMA DisposeLemma ==
  ASSUME NEW x \in ChildState, x.exited => x.process = "gone"
  PROVE  /\ Dispose(x) \in ChildState /\ SameBooks(Dispose(x), x)
         /\ x.killed => Dispose(x).killed
         /\ x.process = "running" => Dispose(x).killed
<1>1. x.exited \in BOOLEAN
  BY DEF ChildState
<1>2. CASE x.exited
  <2>1. Dispose(x) = x
    BY <1>2, Zenon DEF Dispose
  <2> QED
    BY <1>2, <2>1, Zenon DEF SameBooks
<1>3. CASE ~ x.exited
  BY <1>3, KillLemma DEF Dispose
<1> QED
  BY <1>1, <1>2, <1>3

LEMMA AfterProbeLemma ==
  ASSUME NEW x \in ChildState, NEW r, x.exited => x.process = "gone"
  PROVE  /\ AfterProbe(x, r) \in ChildState /\ SameBooks(AfterProbe(x, r), x)
         /\ x.killed => AfterProbe(x, r).killed
         /\ x.process = "running" /\ r.op = "availability" => AfterProbe(x, r).killed
BY DisposeLemma DEF AfterProbe, SameBooks

LEMMA ForgetFields ==
  ASSUME NEW x \in ChildState, NEW r \in Request, IsInjective(x.pending)
  PROVE  LET y == Forget(x, r)
         IN /\ y \in ChildState
            /\ y.process = x.process /\ y.killed = x.killed /\ y.exited = x.exited
            /\ y.stdin = x.stdin /\ y.stdout = x.stdout
            /\ y.pending = RemoveFirst(x.pending, r) /\ y.timers = x.timers \ {r}
<1> DEFINE p == RemoveFirst(x.pending, r)
           t == x.timers \ {r}
           y == Forget(x, r)
<1>1. x.pending \in Seq(Request) /\ t \in SUBSET Request
  BY DEF ChildState
<1>2. p \in Seq(Request)
  BY <1>1, RemoveFirstLemma
<1>3. y = [x EXCEPT !.pending = p, !.timers = t]
  BY DEF Forget
<1> HIDE DEF p, t, y
<1>4. y \in ChildState
  BY <1>1, <1>2, <1>3, Zenon DEF ChildState
<1>5. /\ y.process = x.process /\ y.killed = x.killed /\ y.exited = x.exited
      /\ y.stdin = x.stdin /\ y.stdout = x.stdout
      /\ y.pending = p /\ y.timers = t
  BY <1>3, SMT DEF ChildState
<1> QED
  BY <1>4, <1>5 DEF p, t, y

LEMMA PostFields ==
  ASSUME NEW x \in ChildState, NEW r \in Request
  PROVE  LET y == Post(x, r)
         IN /\ y \in ChildState
            /\ y.process = x.process /\ y.killed = x.killed /\ y.exited = x.exited
            /\ y.stdin = Append(x.stdin, r) /\ y.stdout = x.stdout
            /\ y.pending = Append(x.pending, r) /\ y.timers = x.timers \cup {r}
<1> DEFINE p == Append(x.pending, r)
           i == Append(x.stdin, r)
           t == x.timers \cup {r}
           y == Post(x, r)
<1>1. p \in Seq(Request) /\ i \in Seq(Request) /\ t \in SUBSET Request
  BY SMT DEF ChildState
<1>2. y = [x EXCEPT !.pending = p, !.timers = t, !.stdin = i]
  BY DEF Post
<1> HIDE DEF p, i, t, y
<1>3. y \in ChildState
  BY <1>1, <1>2, Zenon DEF ChildState
<1>4. /\ y.process = x.process /\ y.killed = x.killed /\ y.exited = x.exited
      /\ y.stdin = i /\ y.stdout = x.stdout
      /\ y.pending = p /\ y.timers = t
  BY <1>2, SMT DEF ChildState
<1> QED
  BY <1>3, <1>4 DEF p, i, t, y

----------------------------------------------------------------------------
(* The inductive invariant.                                                *)

\* The requests that calls wait for on child s.
Waiting(s) == {r \in Request : Awaits(r.call, r) /\ call[r.call].shim = s}

\* The books of child s balance.
Balanced(s) ==
  /\ ToSet(child[s].pending) = Waiting(s)
  /\ IsInjective(child[s].pending)
  /\ child[s].timers = Waiting(s)
  /\ child[s].exited => Waiting(s) = {}

\* A call's phase says which child it is on and which kind of call it is.
CallFits(c) ==
  /\ call[c].pc = "idle" => child[c].process = "none" /\ call[c].shim = None
  /\ call[c].pc # "idle" => call[c].shim \in Calls /\ child[call[c].shim].process # "none"
  /\ call[c].pc \in {"create", "availability"} => call[c].shim = c
  /\ call[c].pc \in {"create", "prompt"} => c \in Prompts
  /\ call[c].pc = "availability" => c \in Probes
  /\ call[c].displaced # None => call[c].pc \in {"prompt", "settled"}

\* A child that was not spawned has nothing, one that has exited was read to
\* its last line.
ChildFits(s) ==
  /\ child[s].process = "none" =>
       /\ ~ child[s].killed /\ ~ child[s].exited
       /\ child[s].stdin = <<>> /\ child[s].stdout = <<>>
       /\ child[s].pending = <<>> /\ child[s].timers = {}
  /\ child[s].exited => child[s].process = "gone" /\ child[s].stdout = <<>>

HandleFits == handle # None => handle \in Prompts /\ child[handle].process # "none"

\* Request r was written to child s by its call, which is on s or was.
Posted(r, s) ==
  /\ call[r.call].shim = s
  /\ \/ call[r.call].pc \in {r.op, "settled"}
     \/ r.op = "create" /\ call[r.call].pc = "prompt"

\* What is in the pipes of child s was posted.
Written(s) ==
  /\ \A i \in 1 .. Len(child[s].stdin) : Posted(child[s].stdin[i], s)
  /\ \A i \in 1 .. Len(child[s].stdout) : Posted(child[s].stdout[i].request, s)

TimedOut(s) == \E q \in Calls : call[q].result = "timedout" /\ call[q].shim = s

\* The lines of child x answer its oldest requests in their order; the others
\* are in its pipe in their order while it runs, and what is left of them there
\* after it is gone has not been answered.
Ordered(x) ==
  /\ \A i \in 1 .. Len(x.stdout) :
       i <= Len(x.pending) /\ x.stdout[i].request = x.pending[i]
  /\ x.process = "running" =>
       /\ Len(x.pending) = Len(x.stdout) + Len(x.stdin)
       /\ \A j \in 1 .. Len(x.stdin) : x.pending[Len(x.stdout) + j] = x.stdin[j]
  /\ x.process = "gone" =>
       \A j \in 1 .. Len(x.stdin), i \in 1 .. Len(x.stdout) :
         x.stdout[i].request # x.stdin[j]

\* The reply that call c was given is its own.
Matched(c) ==
  call[c].result \in Calls => call[c].result = c \/ TimedOut(call[c].shim)

\* Child s is known to somebody, or is one of those that the code leaks.
Owned(s) ==
  child[s].process = "running" /\ ~ child[s].killed =>
    \/ handle = s
    \/ call[s].pc \in {"create", "availability"}
    \/ call[s].result = "unreadable" /\ s \in Prompts
    \/ \E c \in Prompts : call[c].displaced = s

ShimInv ==
  /\ TypeOK
  /\ \A c \in Calls : CallFits(c)
  /\ \A s \in Calls : ChildFits(s)
  /\ HandleFits
  /\ \A s \in Calls : Balanced(s)
  /\ \A s \in Calls : Written(s)
  /\ \A s \in Calls : TimedOut(s) \/ Ordered(child[s])
  /\ \A c \in Calls : Matched(c)
  /\ \A s \in Calls : Owned(s)

LEMMA ShimInvMeans ==
  ASSUME ShimInv
  PROVE  PendingIsAwaited /\ RepliesMatchPrompts /\ ChildrenAreOwned
<1>1. PendingIsAwaited
  BY DEF ShimInv, Balanced, Waiting, PendingIsAwaited
<1>2. RepliesMatchPrompts
  <2> SUFFICES ASSUME NEW p \in Prompts, call[p].result \in Calls
               PROVE  \/ call[p].result = p
                      \/ \E q \in Calls \ {p} : call[q].result = "timedout"
                                                /\ call[q].shim = call[p].shim
    BY DEF RepliesMatchPrompts
  <2>1. call[p].result = p \/ TimedOut(call[p].shim)
    BY DEF ShimInv, Matched, Calls
  <2>2. call[p].result # "timedout"
    BY AppleShimAssumption DEF AppleShimAssumption, Failures
  <2> QED
    BY <2>1, <2>2 DEF TimedOut
<1>3. ChildrenAreOwned
  BY DEF ShimInv, Owned, ChildrenAreOwned
<1> QED
  BY <1>1, <1>2, <1>3

LEMMA ShimInvInit == Init => ShimInv
<1> SUFFICES ASSUME Init PROVE ShimInv
  OBVIOUS
<1> DEFINE idle == [pc |-> "idle", shim |-> None, result |-> None, displaced |-> None]
           blank == [process |-> "none", killed |-> FALSE, exited |-> FALSE,
                     stdin |-> <<>>, stdout |-> <<>>, pending |-> <<>>, timers |-> {}]
<1>1. idle \in CallState /\ blank \in ChildState
  <2>1. <<>> \in Seq(Request) /\ <<>> \in Seq([request : Request, answer : Answer])
    BY EmptySeq
  <2> QED
    BY <2>1, Zenon DEF CallState, ChildState
<1>2. \A c \in Calls : call[c] = idle /\ child[c] = blank
  BY DEF Init
<1>3. /\ handle = None /\ destroyed = FALSE
      /\ call \in [Calls -> CallState] /\ child \in [Calls -> ChildState]
  BY <1>1 DEF Init
<1>4. \A c \in Calls :
        /\ call[c].pc = "idle" /\ call[c].shim = None /\ call[c].result = None
        /\ call[c].displaced = None
        /\ child[c].process = "none" /\ child[c].killed = FALSE /\ child[c].exited = FALSE
        /\ child[c].stdin = <<>> /\ child[c].stdout = <<>> /\ child[c].pending = <<>>
        /\ child[c].timers = {}
  BY <1>2
<1> HIDE DEF idle, blank
<1>5. TypeOK
  BY <1>3, <1>4 DEF TypeOK
<1>6. \A c \in Calls : CallFits(c) /\ ChildFits(c)
  BY <1>4 DEF CallFits, ChildFits
<1>7. HandleFits
  BY <1>3 DEF HandleFits
<1>8. \A s \in Calls : Balanced(s)
  <2>1. \A s : Waiting(s) = {}
    BY <1>4 DEF Waiting, Awaits, Request
  <2>2. ToSet(<<>>) = {} /\ IsInjective(<<>>)
    BY SMT DEF ToSet, IsInjective
  <2> QED
    BY <1>4, <2>1, <2>2 DEF Balanced
<1>9. \A s \in Calls : Written(s) /\ Ordered(child[s])
  <2>1. Len(<<>>) = 0 /\ \A i : i \notin 1 .. 0
    BY EmptySeq, SMT
  <2> QED
    BY <1>4, <2>1, Zenon DEF Written, Ordered
<1>10. \A c \in Calls : Matched(c) /\ Owned(c)
  BY <1>4, AppleShimAssumption DEF Matched, Owned, AppleShimAssumption
<1> QED
  BY <1>5, <1>6, <1>7, <1>8, <1>9, <1>10 DEF ShimInv

----------------------------------------------------------------------------
(* The effects of the actions.                                             *)

\* At most child s, or call c, is another one afterwards.
OnlyChild(s) ==
  child' \in [Calls -> ChildState] /\ \A x \in Calls \ {s} : child'[x] = child[x]
OnlyCall(c) ==
  call' \in [Calls -> CallState] /\ \A d \in Calls \ {c} : call'[d] = call[d]

SpawnEffect(c, op) ==
  /\ OnlyChild(c) /\ OnlyCall(c) /\ handle' = handle
  /\ op \in {"create", "availability"}
  /\ c \in (IF op = "create" THEN Prompts ELSE Probes)
  /\ call[c].pc = "idle"
  /\ call'[c].shim = c /\ call'[c].displaced = None
  /\ child'[c].stdout = <<>> /\ ~ child'[c].exited /\ ~ child'[c].killed
  /\ \/ /\ call'[c].pc = op /\ call'[c].result = None
        /\ child'[c].process = "running"
        /\ child'[c].pending = <<Req(op, c)>> /\ child'[c].timers = {Req(op, c)}
        /\ child'[c].stdin = <<Req(op, c)>>
     \/ /\ call'[c].pc = "settled" /\ call'[c].result = "failed"
        /\ child'[c].process = "gone"
        /\ child'[c].pending = <<>> /\ child'[c].timers = {} /\ child'[c].stdin = <<>>

\* Call p posts its prompt on a session's handle s.
PostEffect(s, p) ==
  /\ OnlyChild(s) /\ OnlyCall(p) /\ handle' = handle
  /\ s = handle /\ handle # None
  /\ p \in Prompts /\ call[p].pc = "idle" /\ ~ child[s].exited
  /\ call'[p].pc = "prompt" /\ call'[p].shim = s
  /\ call'[p].result = None /\ call'[p].displaced = None
  /\ child'[s].process = child[s].process /\ child'[s].killed = child[s].killed
  /\ child'[s].exited = child[s].exited /\ child'[s].stdout = child[s].stdout
  /\ child'[s].stdin = Append(child[s].stdin, Req("prompt", p))
  /\ child'[s].pending = Append(child[s].pending, Req("prompt", p))
  /\ child'[s].timers = child[s].timers \cup {Req("prompt", p)}

RefusedEffect(p) ==
  /\ child' = child /\ OnlyCall(p) /\ handle' = handle
  /\ p \in Prompts /\ call[p].pc = "idle" /\ handle # None
  /\ call'[p].pc = "settled" /\ call'[p].shim = handle
  /\ call'[p].result = "failed" /\ call'[p].displaced = None

DestroyEffect ==
  /\ call' = call /\ handle' = None
  /\ IF handle = None THEN child' = child
     ELSE /\ OnlyChild(handle) /\ SameBooks(child'[handle], child[handle])
          /\ child[handle].killed => child'[handle].killed
          /\ child[handle].process = "running" => child'[handle].killed

\* The create reply of child s: its call posts its prompt there.
CreatedEffect(s) ==
  /\ OnlyChild(s) /\ OnlyCall(s) /\ handle' = s
  /\ child[s].stdout # <<>> /\ child[s].pending # <<>>
  /\ Head(child[s].pending) = Req("create", s)
  /\ s \in Prompts /\ call[s].pc = "create"
  /\ call'[s].pc = "prompt" /\ call'[s].shim = s
  /\ call'[s].result = None /\ call'[s].displaced = handle
  /\ child'[s].process = child[s].process /\ child'[s].killed = child[s].killed
  /\ child'[s].exited = child[s].exited /\ child'[s].stdout = Tail(child[s].stdout)
  /\ child'[s].stdin = Append(child[s].stdin, Req("prompt", s))
  /\ child'[s].pending = Append(Tail(child[s].pending), Req("prompt", s))
  /\ child'[s].timers =
       (child[s].timers \ {Req("create", s)}) \cup {Req("prompt", s)}

\* The calls that wait for requests ended get the outcomes f.
CallsEnd(ended, f) ==
  /\ call' \in [Calls -> CallState]
  /\ \A c \in Calls :
       IF \E r \in ended : Awaits(c, r)
       THEN /\ call'[c].pc = "settled" /\ call'[c].result = f[c]
            /\ call'[c].shim = call[c].shim /\ call'[c].displaced = call[c].displaced
       ELSE call'[c] = call[c]

\* Requests ended of child s are over, and so are the calls that wait for them.
EndEffect(s, ended, f) ==
  /\ OnlyChild(s) /\ handle' = handle
  /\ ended \subseteq ToSet(child[s].pending)
  /\ f \in [Calls -> Calls \cup Failures]
  /\ CallsEnd(ended, f)
  /\ ToSet(child'[s].pending) = ToSet(child[s].pending) \ ended
  /\ IsInjective(child'[s].pending)
  /\ child'[s].timers = child[s].timers \ ended
  /\ child'[s].process = child[s].process
  /\ child[s].killed => child'[s].killed
  /\ \/ child'[s].exited = child[s].exited
     \/ /\ child'[s].process = "gone" /\ child'[s].stdout = <<>>
        /\ ended = ToSet(child[s].pending)
  /\ child[s].process # "none"
  /\ child[s].exited => child'[s].stdout = <<>>
  /\ \A i \in 1 .. Len(child'[s].stdin) :
       \E j \in 1 .. Len(child[s].stdin) : child'[s].stdin[i] = child[s].stdin[j]
  /\ \A i \in 1 .. Len(child'[s].stdout) :
       \E j \in 1 .. Len(child[s].stdout) : child'[s].stdout[i] = child[s].stdout[j]
  /\ \A r \in ended : f[r.call] \in Calls => f[r.call] = r.call \/ TimedOut(s)
  /\ TimedOut(s) \/ (\E r \in ended : f[r.call] = "timedout") \/ Ordered(child'[s])
  /\ \A r \in ended : r.op # "prompt" =>
       \/ child'[s].process = "running" => child'[s].killed
       \/ r.op = "create" /\ f[r.call] = "unreadable"

\* The pipes of child s, the process and a line that nobody waits for.
PipeEffect(s) ==
  /\ OnlyChild(s) /\ call' = call /\ handle' = handle
  /\ child'[s].pending = child[s].pending /\ child'[s].timers = child[s].timers
  /\ child'[s].killed = child[s].killed /\ child'[s].exited = child[s].exited
  /\ child[s].process # "none"
  /\ child'[s].process \in {child[s].process, "gone"}
  /\ child[s].exited => child'[s].stdout = <<>>
  /\ \A i \in 1 .. Len(child'[s].stdin) :
       \E j \in 1 .. Len(child[s].stdin) : child'[s].stdin[i] = child[s].stdin[j]
  /\ \A i \in 1 .. Len(child'[s].stdout) :
       \/ \E j \in 1 .. Len(child[s].stdout) : child'[s].stdout[i] = child[s].stdout[j]
       \/ \E j \in 1 .. Len(child[s].stdin) :
            child'[s].stdout[i].request = child[s].stdin[j]
  /\ TimedOut(s) \/ Ordered(child'[s])

LEMMA Typed ==
  ASSUME ShimInv
  PROVE  /\ child \in [Calls -> ChildState] /\ call \in [Calls -> CallState]
         /\ \A s \in Calls :
              /\ child[s] \in ChildState
              /\ child[s].process \in {"none", "running", "gone"}
              /\ child[s].killed \in BOOLEAN /\ child[s].exited \in BOOLEAN
              /\ child[s].stdin \in Seq(Request) /\ child[s].pending \in Seq(Request)
              /\ child[s].stdout \in Seq([request : Request, answer : Answer])
              /\ child[s].timers \in SUBSET Request
         /\ \A c \in Calls :
              /\ call[c] \in CallState
              /\ call[c].pc \in {"idle", "create", "prompt", "availability", "settled"}
              /\ call[c].shim \in Calls \cup {None}
              /\ call[c].result \in Calls \cup Failures \cup {None}
              /\ call[c].displaced \in Calls \cup {None}
              /\ call[c].pc = "settled" <=> call[c].result # None
BY DEF ShimInv, TypeOK, ChildState, CallState

\* A request in Request is what its operation and its call say.
LEMMA ReqLemma ==
  /\ \A c \in Calls : \A op \in {"create", "prompt", "availability"} :
       /\ Req(op, c) \in Request /\ Req(op, c).op = op /\ Req(op, c).call = c
  /\ \A r \in Request :
       /\ r.op \in {"create", "prompt", "availability"} /\ r.call \in Calls
       /\ r = Req(r.op, r.call)
BY DEF Req, Request

LEMMA OldestLemma ==
  ASSUME ShimInv, NEW s \in Calls, child[s].pending # <<>>
  PROVE  /\ Oldest(s) \in Request /\ Oldest(s) \in Waiting(s)
         /\ Oldest(s) \in ToSet(child[s].pending)
         /\ Awaits(Oldest(s).call, Oldest(s)) /\ call[Oldest(s).call].shim = s
         /\ ~ child[s].exited /\ child[s].process # "none"
<1>1. child[s].pending \in Seq(Request) /\ Balanced(s) /\ ChildFits(s)
  BY Typed DEF ShimInv
<1>2. Oldest(s) \in ToSet(child[s].pending)
  BY <1>1, TailLemma DEF Oldest, Balanced
<1>3. Oldest(s) \in Waiting(s) /\ ~ child[s].exited
  BY <1>1, <1>2 DEF Balanced
<1> QED
  BY <1>1, <1>2, <1>3 DEF Waiting, ChildFits

\* Both sequences of an ordered child lose their first element.
LEMMA OrderedShift ==
  ASSUME NEW x \in ChildState, NEW y \in ChildState, Ordered(x),
         x.stdout # <<>>, x.pending # <<>>,
         y.stdout = Tail(x.stdout), y.pending = Tail(x.pending),
         y.stdin = x.stdin, y.process = x.process
  PROVE  Ordered(y)
<1> DEFINE Lines == [request : Request, answer : Answer]
<1>1. /\ x.stdout \in Seq(Lines) /\ x.pending \in Seq(Request)
      /\ x.stdin \in Seq(Request)
  BY DEF ChildState
<1>2. /\ Len(y.stdout) = Len(x.stdout) - 1 /\ Len(x.stdout) \in Nat \ {0}
      /\ \A i \in 1 .. Len(x.stdout) - 1 : y.stdout[i] = x.stdout[i + 1]
  BY <1>1, HeadTailProperties, EmptySeq
<1>3. /\ Len(y.pending) = Len(x.pending) - 1 /\ Len(x.pending) \in Nat \ {0}
      /\ \A i \in 1 .. Len(x.pending) - 1 : y.pending[i] = x.pending[i + 1]
  BY <1>1, HeadTailProperties, EmptySeq
<1>4. Len(x.stdin) \in Nat /\ Len(y.stdin) = Len(x.stdin)
  BY <1>1, LenProperties
<1> DEFINE a == Len(x.stdout)
           b == Len(x.pending)
           d == Len(x.stdin)
<1>5. ASSUME NEW i \in 1 .. Len(y.stdout)
      PROVE  i <= Len(y.pending) /\ y.stdout[i].request = y.pending[i]
  <2>1. i + 1 \in 1 .. Len(x.stdout) /\ i \in 1 .. Len(x.stdout) - 1
    BY <1>2, SMT
  <2>2. i + 1 <= Len(x.pending) /\ x.stdout[i + 1].request = x.pending[i + 1]
    BY <2>1 DEF Ordered
  <2>3. i \in 1 .. Len(x.pending) - 1 /\ i <= Len(y.pending)
    BY <1>3, <2>1, <2>2, SMT
  <2> QED
    BY <1>2, <1>3, <2>1, <2>2, <2>3
<1>6. ASSUME x.process = "running"
      PROVE  /\ Len(y.pending) = Len(y.stdout) + Len(y.stdin)
             /\ \A j \in 1 .. Len(y.stdin) : y.pending[Len(y.stdout) + j] = y.stdin[j]
  <2>1. /\ Len(x.pending) = Len(x.stdout) + Len(x.stdin)
        /\ \A j \in 1 .. Len(x.stdin) : x.pending[Len(x.stdout) + j] = x.stdin[j]
    BY <1>6 DEF Ordered
  <2>2. Len(y.pending) = Len(y.stdout) + Len(y.stdin)
    <3>1. a \in Nat /\ b \in Nat /\ d \in Nat /\ b = a + d
      BY <1>2, <1>3, <1>4, <2>1
    <3>2. b - 1 = (a - 1) + d
      BY <3>1, SMT
    <3> QED
      BY <1>2, <1>3, <1>4, <3>2
  <2>3. ASSUME NEW j \in 1 .. d
        PROVE  y.pending[Len(y.stdout) + j] = x.stdin[j]
    <3>1. a \in Nat \ {0} /\ b \in Nat /\ d \in Nat /\ b = a + d
      BY <1>2, <1>3, <1>4, <2>1
    <3> HIDE DEF a, b, d
    <3>2. (a - 1) + j \in 1 .. b - 1 /\ (a - 1) + j + 1 = a + j
      BY <3>1, SMT
    <3>3. y.pending[(a - 1) + j] = x.pending[a + j]
      BY <1>3, <3>2 DEF b
    <3> QED
      BY <1>2, <2>1, <3>3 DEF a, d
  <2> QED
    BY <2>2, <2>3
<1>7. ASSUME x.process = "gone",
             NEW j \in 1 .. Len(y.stdin), NEW i \in 1 .. Len(y.stdout)
      PROVE  y.stdout[i].request # y.stdin[j]
  <2>1. i + 1 \in 1 .. Len(x.stdout) /\ i \in 1 .. Len(x.stdout) - 1
    BY <1>2, SMT
  <2> QED
    BY <1>2, <1>7, <2>1 DEF Ordered
<1> QED
  BY <1>5, <1>6, <1>7 DEF Ordered

LEMMA ShiftedFields ==
  ASSUME ShimInv, NEW s \in Calls, child[s].stdout # <<>>, child[s].pending # <<>>
  PROVE  LET y == Shifted(s)
         IN /\ y \in ChildState
            /\ y.process = child[s].process /\ y.killed = child[s].killed
            /\ y.exited = child[s].exited /\ y.stdin = child[s].stdin
            /\ y.stdout = Tail(child[s].stdout) /\ y.pending = Tail(child[s].pending)
            /\ y.timers = child[s].timers \ {Oldest(s)}
            /\ ToSet(y.pending) = ToSet(child[s].pending) \ {Oldest(s)}
            /\ IsInjective(y.pending)
            /\ Ordered(child[s]) => Ordered(y)
            /\ \A i \in 1 .. Len(y.stdout) :
                 \E j \in 1 .. Len(child[s].stdout) : y.stdout[i] = child[s].stdout[j]
<1> DEFINE x == child[s]
           o == Tail(x.stdout)
           p == Tail(x.pending)
           t == x.timers \ {Oldest(s)}
           y == Shifted(s)
<1>1. /\ x \in ChildState /\ x.stdout \in Seq([request : Request, answer : Answer])
      /\ x.pending \in Seq(Request) /\ t \in SUBSET Request
  BY Typed
<1>2. o \in Seq([request : Request, answer : Answer]) /\ p \in Seq(Request)
  BY <1>1, HeadTailProperties
<1>3. y = [x EXCEPT !.stdout = o, !.pending = p, !.timers = t]
  BY DEF Shifted
<1> HIDE DEF o, p, t, y
<1>4. y \in ChildState
  BY <1>1, <1>2, <1>3, Zenon DEF ChildState
<1>5. /\ y.process = x.process /\ y.killed = x.killed /\ y.exited = x.exited
      /\ y.stdin = x.stdin /\ y.stdout = o /\ y.pending = p /\ y.timers = t
  BY <1>1, <1>3, SMT DEF ChildState
<1>6. IsInjective(x.pending)
  BY DEF ShimInv, Balanced
<1>7. ToSet(p) = ToSet(x.pending) \ {Oldest(s)} /\ IsInjective(p)
  BY <1>1, <1>6, TailLemma DEF p, Oldest
<1>8. Ordered(x) => Ordered(y)
  BY <1>1, <1>4, <1>5, OrderedShift DEF o, p
<1>9. \A i \in 1 .. Len(o) : \E j \in 1 .. Len(x.stdout) : o[i] = x.stdout[j]
  <2>1. /\ Len(o) = Len(x.stdout) - 1 /\ Len(x.stdout) \in Nat \ {0}
        /\ \A i \in 1 .. Len(o) : o[i] = x.stdout[i + 1]
    BY <1>1, HeadTailProperties, EmptySeq DEF o
  <2>2. \A i \in 1 .. Len(o) : i + 1 \in 1 .. Len(x.stdout)
    BY <2>1, SMT
  <2> QED
    BY <2>1, <2>2
<1> QED
  BY <1>4, <1>5, <1>7, <1>8, <1>9 DEF o, p, t, y

LEMMA OutcomeFields ==
  ASSUME ShimInv, NEW c \in Calls, NEW w \in Calls \cup Failures
  PROVE  LET o == Outcome(c, w)
         IN /\ o \in CallState /\ o.pc = "settled" /\ o.result = w
            /\ o.shim = call[c].shim /\ o.displaced = call[c].displaced
<1>1. call[c] \in CallState
  BY Typed
<1>2. Outcome(c, w) \in CallState
  BY <1>1, Zenon DEF Outcome, CallState
<1> QED
  BY <1>1, <1>2, SMT DEF Outcome, CallState

LEMMA SpawnGives ==
  ASSUME ShimInv, NEW c \in Calls, NEW op \in {"create", "availability"},
         c \in (IF op = "create" THEN Prompts ELSE Probes),
         MayStart(c), Spawn(c, op), handle' = handle
  PROVE  SpawnEffect(c, op)
<1>1. /\ call[c].pc = "idle" /\ call[c].result = None /\ call[c].displaced = None
      /\ child[c].process = "none" /\ ~ child[c].killed /\ ~ child[c].exited
      /\ child[c].stdin = <<>> /\ child[c].stdout = <<>>
      /\ child[c].pending = <<>> /\ child[c].timers = {}
  BY Typed DEF MayStart, ShimInv, CallFits, ChildFits
<1>2. /\ child \in [Calls -> ChildState] /\ call \in [Calls -> CallState]
      /\ child[c] \in ChildState /\ call[c] \in CallState /\ Req(op, c) \in Request
  BY Typed, ReqLemma
<1> DEFINE r == Req(op, c)
<1>3. ASSUME child' = [child EXCEPT ![c] = Post([@ EXCEPT !.process = "running"], r)],
             call' = [call EXCEPT ![c] = [@ EXCEPT !.pc = op, !.shim = c]]
      PROVE  SpawnEffect(c, op)
  <2> DEFINE x == [child[c] EXCEPT !.process = "running"]
             y == Post(x, r)
             d == [call[c] EXCEPT !.pc = op, !.shim = c]
  <2>1. x \in ChildState
    BY <1>2, Zenon DEF ChildState
  <2>2. /\ x.process = "running" /\ x.killed = child[c].killed
        /\ x.exited = child[c].exited /\ x.stdin = child[c].stdin
        /\ x.stdout = child[c].stdout /\ x.pending = child[c].pending
        /\ x.timers = child[c].timers
    BY <1>2, SMT DEF ChildState
  <2> HIDE DEF x
  <2>3. /\ y \in ChildState
        /\ y.process = x.process /\ y.killed = x.killed /\ y.exited = x.exited
        /\ y.stdin = Append(x.stdin, r) /\ y.stdout = x.stdout
        /\ y.pending = Append(x.pending, r) /\ y.timers = x.timers \cup {r}
    BY <1>2, <2>1, PostFields
  <2>4. Append(<<>>, r) = <<r>>
    BY SMT
  <2>5. d \in CallState
    BY <1>2, Zenon DEF CallState
  <2>6. d.pc = op /\ d.shim = c /\ d.result = None /\ d.displaced = None
    BY <1>1, <1>2, SMT DEF CallState
  <2>7. child' = [child EXCEPT ![c] = y] /\ call' = [call EXCEPT ![c] = d]
    BY <1>3 DEF x
  <2> HIDE DEF y, d
  <2>8. OnlyChild(c) /\ OnlyCall(c) /\ child'[c] = y /\ call'[c] = d
    BY <1>2, <2>3, <2>5, <2>7, Zenon DEF OnlyChild, OnlyCall
  <2>9. /\ y.process = "running" /\ ~ y.killed /\ ~ y.exited /\ y.stdout = <<>>
        /\ y.stdin = <<r>> /\ y.pending = <<r>> /\ y.timers = {r}
    BY <1>1, <2>2, <2>3, <2>4
  <2> QED
    BY <1>1, <2>6, <2>8, <2>9 DEF SpawnEffect
<1>4. ASSUME child' = [child EXCEPT ![c].process = "gone"],
             call' = [call EXCEPT ![c] = [Outcome(c, "failed") EXCEPT !.shim = c]]
      PROVE  SpawnEffect(c, op)
  <2> DEFINE x == [child[c] EXCEPT !.process = "gone"]
             o == Outcome(c, "failed")
             d == [o EXCEPT !.shim = c]
  <2>1. x \in ChildState
    BY <1>2, Zenon DEF ChildState
  <2>2. /\ x.process = "gone" /\ x.killed = child[c].killed
        /\ x.exited = child[c].exited /\ x.stdin = child[c].stdin
        /\ x.stdout = child[c].stdout /\ x.pending = child[c].pending
        /\ x.timers = child[c].timers
    BY <1>2, SMT DEF ChildState
  <2>3. o \in CallState /\ o.pc = "settled" /\ o.result = "failed" /\ o.displaced = None
    BY <1>1, OutcomeFields DEF Failures
  <2> HIDE DEF o
  <2>4. d \in CallState
    BY <2>3, Zenon DEF CallState
  <2>5. d.pc = "settled" /\ d.shim = c /\ d.result = "failed" /\ d.displaced = None
    BY <2>3, SMT DEF CallState
  <2>6. child' = [child EXCEPT ![c] = x] /\ call' = [call EXCEPT ![c] = d]
    BY <1>4 DEF o
  <2> HIDE DEF x, d
  <2>7. OnlyChild(c) /\ OnlyCall(c) /\ child'[c] = x /\ call'[c] = d
    BY <1>2, <2>1, <2>4, <2>6, Zenon DEF OnlyChild, OnlyCall
  <2> QED
    BY <1>1, <2>2, <2>5, <2>7 DEF SpawnEffect
<1> QED
  BY <1>3, <1>4 DEF Spawn

LEMMA PromptGives ==
  ASSUME ShimInv, NEW p \in Calls, Prompt(p)
  PROVE  PostEffect(handle, p) \/ RefusedEffect(p)
<1>1. /\ p \in Prompts /\ handle # None /\ handle' = handle /\ handle \in Calls
      /\ call[p].pc = "idle" /\ call[p].result = None /\ call[p].displaced = None
  BY Typed DEF Prompt, MayStart, ShimInv, TypeOK, CallFits
<1>2. /\ child \in [Calls -> ChildState] /\ call \in [Calls -> CallState]
      /\ child[handle] \in ChildState /\ call[p] \in CallState
      /\ Req("prompt", p) \in Request
  BY <1>1, Typed, ReqLemma
<1>3. CASE child[handle].exited
  <2> DEFINE o == Outcome(p, "failed")
             d == [o EXCEPT !.shim = handle]
  <2>1. o \in CallState /\ o.pc = "settled" /\ o.result = "failed" /\ o.displaced = None
    BY <1>1, OutcomeFields DEF Failures
  <2>2. child' = child /\ call' = [call EXCEPT ![p] = d]
    BY <1>3 DEF Prompt
  <2> HIDE DEF o
  <2>3. d \in CallState
    BY <1>1, <2>1, Zenon DEF CallState
  <2>4. d.pc = "settled" /\ d.shim = handle /\ d.result = "failed" /\ d.displaced = None
    BY <2>1, SMT DEF CallState
  <2> HIDE DEF d
  <2>5. OnlyCall(p) /\ call'[p] = d
    BY <1>2, <2>2, <2>3, Zenon DEF OnlyCall
  <2> QED
    BY <1>1, <2>2, <2>4, <2>5 DEF RefusedEffect
<1>4. CASE ~ child[handle].exited
  <2> DEFINE y == Post(child[handle], Req("prompt", p))
             d == [call[p] EXCEPT !.pc = "prompt", !.shim = handle]
  <2>1. child' = [child EXCEPT ![handle] = y] /\ call' = [call EXCEPT ![p] = d]
    BY <1>4 DEF Prompt
  <2>2. d \in CallState
    BY <1>1, <1>2, Zenon DEF CallState
  <2>3. d.pc = "prompt" /\ d.shim = handle /\ d.result = None /\ d.displaced = None
    BY <1>1, <1>2, SMT DEF CallState
  <2>4. /\ y \in ChildState
        /\ y.process = child[handle].process /\ y.killed = child[handle].killed
        /\ y.exited = child[handle].exited /\ y.stdout = child[handle].stdout
        /\ y.stdin = Append(child[handle].stdin, Req("prompt", p))
        /\ y.pending = Append(child[handle].pending, Req("prompt", p))
        /\ y.timers = child[handle].timers \cup {Req("prompt", p)}
    BY <1>2, PostFields
  <2> HIDE DEF y, d
  <2>5. OnlyChild(handle) /\ OnlyCall(p) /\ child'[handle] = y /\ call'[p] = d
    BY <1>1, <1>2, <2>1, <2>2, <2>4, Zenon DEF OnlyChild, OnlyCall
  <2> QED
    BY <1>1, <1>4, <2>3, <2>4, <2>5 DEF PostEffect
<1> QED
  BY <1>3, <1>4

LEMMA DestroyGives ==
  ASSUME ShimInv, Destroy
  PROVE  DestroyEffect
<1>1. call' = call /\ handle' = None
  BY DEF Destroy
<1>2. CASE handle = None
  BY <1>1, <1>2 DEF Destroy, DestroyEffect
<1>3. CASE handle # None
  <2> DEFINE y == Dispose(child[handle])
  <2>1. handle \in Calls
    BY <1>3 DEF ShimInv, TypeOK
  <2>2. /\ child \in [Calls -> ChildState] /\ child[handle] \in ChildState
        /\ child[handle].exited => child[handle].process = "gone"
    BY <2>1, Typed DEF ShimInv, ChildFits
  <2>3. /\ y \in ChildState /\ SameBooks(y, child[handle])
        /\ child[handle].killed => y.killed
        /\ child[handle].process = "running" => y.killed
    BY <2>2, DisposeLemma
  <2>4. child' = [child EXCEPT ![handle] = y]
    BY <1>3 DEF Destroy
  <2> HIDE DEF y
  <2>5. OnlyChild(handle) /\ child'[handle] = y
    BY <2>1, <2>2, <2>3, <2>4, Zenon DEF OnlyChild
  <2> QED
    BY <1>1, <1>3, <2>3, <2>5 DEF DestroyEffect
<1> QED
  BY <1>2, <1>3

LEMMA RejectedGives ==
  ASSUME ShimInv, NEW rs, NEW ended, NEW why \in Failures,
         \A c \in Calls : (\E r \in rs : Awaits(c, r)) <=> (\E r \in ended : Awaits(c, r)),
         call' = Rejected(rs, why)
  PROVE  /\ CallsEnd(ended, [c \in Calls |-> why])
         /\ [c \in Calls |-> why] \in [Calls -> Calls \cup Failures]
<1> DEFINE A(c) == \E r \in ended : Awaits(c, r)
<1>1. \A c \in Calls :
        LET o == Outcome(c, why)
        IN /\ o \in CallState /\ o.pc = "settled" /\ o.result = why
           /\ o.shim = call[c].shim /\ o.displaced = call[c].displaced
  BY OutcomeFields
<1>2. call' = [c \in Calls |-> IF A(c) THEN Outcome(c, why) ELSE call[c]]
  BY Zenon DEF Rejected
<1>3. \A c \in Calls : call[c] \in CallState
  BY Typed
<1> HIDE DEF A
<1>4. call' \in [Calls -> CallState]
  BY <1>1, <1>2, <1>3, Zenon
<1>5. \A c \in Calls : IF A(c) THEN call'[c] = Outcome(c, why) ELSE call'[c] = call[c]
  BY <1>2, Zenon
<1>6. ASSUME NEW c \in Calls
      PROVE  IF A(c)
             THEN /\ call'[c].pc = "settled" /\ call'[c].result = why
                  /\ call'[c].shim = call[c].shim /\ call'[c].displaced = call[c].displaced
             ELSE call'[c] = call[c]
  BY <1>1, <1>5, Zenon
<1> QED
  BY <1>4, <1>6, Zenon DEF CallsEnd, A

\* A line of child s is given to its oldest request, whatever it says.
LEMMA LineGives ==
  ASSUME ShimInv, NEW s \in Calls, child[s].stdout # <<>>, child[s].pending # <<>>,
         NEW y \in ChildState, SameBooks(y, Shifted(s)), Shifted(s).killed => y.killed,
         NEW f \in [Calls -> Calls \cup Failures], CallsEnd({Oldest(s)}, f),
         child' = [child EXCEPT ![s] = y], handle' = handle,
         f[Oldest(s).call] \in Calls => f[Oldest(s).call] = Oldest(s).call \/ TimedOut(s),
         Oldest(s).op # "prompt" =>
           \/ y.process = "running" => y.killed
           \/ Oldest(s).op = "create" /\ f[Oldest(s).call] = "unreadable"
  PROVE  EndEffect(s, {Oldest(s)}, f)
<1> DEFINE x == Shifted(s)
<1>1. /\ Oldest(s) \in ToSet(child[s].pending)
      /\ ~ child[s].exited /\ child[s].process # "none"
      /\ child \in [Calls -> ChildState]
  BY OldestLemma, Typed
<1>2. /\ x.process = child[s].process /\ x.killed = child[s].killed
      /\ x.exited = child[s].exited /\ x.stdin = child[s].stdin
      /\ x.timers = child[s].timers \ {Oldest(s)}
      /\ ToSet(x.pending) = ToSet(child[s].pending) \ {Oldest(s)}
      /\ IsInjective(x.pending)
      /\ Ordered(child[s]) => Ordered(x)
      /\ \A i \in 1 .. Len(x.stdout) :
           \E j \in 1 .. Len(child[s].stdout) : x.stdout[i] = child[s].stdout[j]
  BY ShiftedFields
<1> HIDE DEF x
<1>3. SameBooks(y, x) /\ (x.killed => y.killed)
  BY DEF x
<1>4. OnlyChild(s) /\ child'[s] = y
  BY <1>1, Zenon DEF OnlyChild
<1>5. Ordered(y) <=> Ordered(x)
  BY <1>3 DEF Ordered, SameBooks
<1>6. TimedOut(s) \/ Ordered(child[s])
  BY DEF ShimInv
<1>7. /\ y.process = child[s].process /\ y.exited = child[s].exited
      /\ y.timers = child[s].timers \ {Oldest(s)} /\ y.stdin = child[s].stdin
      /\ ToSet(y.pending) = ToSet(child[s].pending) \ {Oldest(s)}
      /\ IsInjective(y.pending)
      /\ child[s].killed => y.killed
  BY <1>2, <1>3 DEF SameBooks
<1>8. /\ \A i \in 1 .. Len(y.stdout) :
           \E j \in 1 .. Len(child[s].stdout) : y.stdout[i] = child[s].stdout[j]
      /\ TimedOut(s) \/ Ordered(y)
  BY <1>2, <1>3, <1>5, <1>6 DEF SameBooks
<1> QED
  BY <1>1, <1>4, <1>7, <1>8 DEF EndEffect

LEMMA UnreadableGives ==
  ASSUME ShimInv, NEW s \in Calls, Unreadable(s)
  PROVE  \E ended, f : EndEffect(s, ended, f)
<1> DEFINE f == [c \in Calls |-> "unreadable"]
           x == Shifted(s)
           y == AfterProbe(x, Oldest(s))
<1>1. /\ child[s].stdout # <<>> /\ child[s].pending # <<>> /\ handle' = handle
      /\ child' = [child EXCEPT ![s] = y] /\ call' = Rejected({Oldest(s)}, "unreadable")
  BY DEF Unreadable, HasLine
<1>2. /\ ~ child[s].exited
      /\ Oldest(s).op \in {"create", "availability", "prompt"} /\ Oldest(s).call \in Calls
  BY <1>1, OldestLemma, ReqLemma
<1>3. x \in ChildState /\ ~ x.exited
  BY <1>1, <1>2, ShiftedFields
<1>4. /\ y \in ChildState /\ SameBooks(y, x)
      /\ x.killed => y.killed
      /\ x.process = "running" /\ Oldest(s).op = "availability" => y.killed
  BY <1>3, AfterProbeLemma
<1>5. "unreadable" \in Failures /\ "unreadable" \notin Calls
  BY AppleShimAssumption DEF AppleShimAssumption, Failures
<1>6. CallsEnd({Oldest(s)}, f) /\ f \in [Calls -> Calls \cup Failures]
  <2> HIDE DEF x, y
  <2>1. "unreadable" \in Failures
    BY <1>5
  <2>2. call' = Rejected({Oldest(s)}, "unreadable")
    BY <1>1
  <2> QED
    BY <2>1, <2>2, RejectedGives, Zenon
<1>7. f[Oldest(s).call] = "unreadable"
  BY <1>2
<1> HIDE DEF f, y
<1>8. Oldest(s).op # "prompt" =>
        \/ y.process = "running" => y.killed
        \/ Oldest(s).op = "create" /\ f[Oldest(s).call] = "unreadable"
  BY <1>2, <1>4, <1>7 DEF SameBooks
<1> QED
  BY <1>1, <1>4, <1>5, <1>6, <1>7, <1>8, LineGives

LEMMA CreateRefusedGives ==
  ASSUME ShimInv, NEW s \in Calls, CreateRefused(s)
  PROVE  \E ended, f : EndEffect(s, ended, f)
<1> DEFINE f == [c \in Calls |-> "failed"]
           x == Shifted(s)
           y == Dispose(x)
<1>1. /\ child[s].stdout # <<>> /\ child[s].pending # <<>> /\ handle' = handle
      /\ child' = [child EXCEPT ![s] = y] /\ call' = Rejected({Oldest(s)}, "failed")
  BY DEF CreateRefused, HasReply, HasLine
<1>2. ~ child[s].exited /\ Oldest(s).call \in Calls
  BY <1>1, OldestLemma, ReqLemma
<1>3. x \in ChildState /\ ~ x.exited
  BY <1>1, <1>2, ShiftedFields
<1>4. /\ y \in ChildState /\ SameBooks(y, x)
      /\ x.killed => y.killed
      /\ x.process = "running" => y.killed
  BY <1>3, DisposeLemma
<1>5. "failed" \in Failures /\ "failed" \notin Calls
  BY AppleShimAssumption DEF AppleShimAssumption, Failures
<1>6. CallsEnd({Oldest(s)}, f) /\ f \in [Calls -> Calls \cup Failures]
  <2> HIDE DEF x, y
  <2>1. "failed" \in Failures
    BY <1>5
  <2>2. call' = Rejected({Oldest(s)}, "failed")
    BY <1>1
  <2> QED
    BY <2>1, <2>2, RejectedGives, Zenon
<1>7. f[Oldest(s).call] = "failed"
  BY <1>2
<1> HIDE DEF f, y
<1>8. y.process = "running" => y.killed
  BY <1>4 DEF SameBooks
<1> QED
  BY <1>1, <1>4, <1>5, <1>6, <1>7, <1>8, LineGives

LEMMA RepliedGives ==
  ASSUME ShimInv, NEW s \in Calls, Replied(s)
  PROVE  \E ended, f : EndEffect(s, ended, f)
<1> DEFINE r == Oldest(s)
           result == IF Line(s).answer = "ok" THEN Line(s).request.call ELSE "failed"
           f == [c \in Calls |-> result]
           x == Shifted(s)
           y == AfterProbe(x, r)
<1>1. /\ child[s].stdout # <<>> /\ child[s].pending # <<>> /\ handle' = handle
      /\ child' = [child EXCEPT ![s] = y]
      /\ call' = [call EXCEPT ![r.call] = Outcome(r.call, result)]
      /\ r.op \in {"prompt", "availability"}
  BY DEF Replied, HasReply, HasLine
<1>2. /\ ~ child[s].exited /\ r \in Request /\ r.call \in Calls /\ Awaits(r.call, r)
      /\ call \in [Calls -> CallState]
  BY <1>1, OldestLemma, ReqLemma, Typed
<1>3. x \in ChildState /\ ~ x.exited
  BY <1>1, <1>2, ShiftedFields
<1>4. /\ y \in ChildState /\ SameBooks(y, x)
      /\ x.killed => y.killed
      /\ x.process = "running" /\ r.op = "availability" => y.killed
  BY <1>3, AfterProbeLemma
<1>5. /\ Line(s) = child[s].stdout[1] /\ 1 \in 1 .. Len(child[s].stdout)
      /\ r = child[s].pending[1] /\ Line(s).request \in Request
  <2>1. /\ child[s].stdout \in Seq([request : Request, answer : Answer])
        /\ child[s].pending \in Seq(Request)
    BY Typed
  <2>2. Line(s) \in [request : Request, answer : Answer]
    BY <1>1, <2>1, HeadTailProperties DEF Line
  <2> QED
    BY <1>1, <2>1, <2>2, SMT DEF Line, Oldest
<1>6. result \in Calls \cup Failures
  BY <1>5, ReqLemma DEF Failures
<1>7. result \in Calls => result = r.call \/ TimedOut(s)
  <2>1. CASE TimedOut(s)
    BY <2>1
  <2>2. CASE ~ TimedOut(s)
    <3>1. Ordered(child[s])
      BY <2>2 DEF ShimInv
    <3>2. Line(s).request = r
      BY <1>5, <3>1 DEF Ordered
    <3>3. "failed" \notin Calls
      BY AppleShimAssumption DEF AppleShimAssumption, Failures
    <3> QED
      BY <3>2, <3>3
  <2> QED
    BY <2>1, <2>2
<1>8. f \in [Calls -> Calls \cup Failures] /\ f[r.call] = result
  BY <1>2, <1>6
<1> HIDE DEF y, result, f
<1>9. CallsEnd({r}, f)
  <2> DEFINE o == Outcome(r.call, result)
  <2>1. /\ o \in CallState /\ o.pc = "settled" /\ o.result = result
        /\ o.shim = call[r.call].shim /\ o.displaced = call[r.call].displaced
    BY <1>2, <1>6, OutcomeFields
  <2> HIDE DEF o
  <2>2. call' = [call EXCEPT ![r.call] = o]
    BY <1>1 DEF o
  <2>3. /\ call' \in [Calls -> CallState] /\ call'[r.call] = o
        /\ \A c \in Calls \ {r.call} : call'[c] = call[c]
    BY <1>2, <2>1, <2>2, Zenon
  <2>4. \A c \in Calls : (\E q \in {r} : Awaits(c, q)) <=> c = r.call
    BY <1>2 DEF Awaits
  <2> QED
    BY <1>2, <1>8, <2>1, <2>3, <2>4 DEF CallsEnd
<1>10. r.op # "prompt" => (y.process = "running" => y.killed)
  BY <1>1, <1>4 DEF SameBooks
<1> QED
  BY <1>1, <1>4, <1>7, <1>8, <1>9, <1>10, LineGives

LEMMA CreatedGives ==
  ASSUME ShimInv, NEW s \in Calls, Created(s)
  PROVE  CreatedEffect(s)
<1> DEFINE c == Oldest(s).call
           r == Req("prompt", c)
           x == Shifted(s)
           y == Post(x, r)
           d == [call[c] EXCEPT !.pc = "prompt", !.displaced = handle]
<1>1. /\ child[s].stdout # <<>> /\ child[s].pending # <<>> /\ handle' = s
      /\ child' = [child EXCEPT ![s] = y] /\ call' = [call EXCEPT ![c] = d]
      /\ Oldest(s).op = "create"
  BY DEF Created, HasReply, HasLine
<1>2. /\ Oldest(s) \in Request /\ c \in Calls /\ call[c].pc = "create"
      /\ call[c].shim = s /\ call[c] \in CallState /\ call[c].result = None
      /\ child \in [Calls -> ChildState] /\ call \in [Calls -> CallState]
  BY <1>1, OldestLemma, ReqLemma, Typed DEF Awaits
<1>3. c = s /\ s \in Prompts
  BY <1>2 DEF ShimInv, CallFits
<1>4. Oldest(s) = Req("create", s) /\ r = Req("prompt", s) /\ r \in Request
  BY <1>1, <1>2, <1>3, ReqLemma
<1>5. /\ x \in ChildState
      /\ x.process = child[s].process /\ x.killed = child[s].killed
      /\ x.exited = child[s].exited /\ x.stdin = child[s].stdin
      /\ x.stdout = Tail(child[s].stdout) /\ x.pending = Tail(child[s].pending)
      /\ x.timers = child[s].timers \ {Oldest(s)}
  BY <1>1, ShiftedFields
<1> HIDE DEF x
<1>6. /\ y \in ChildState
      /\ y.process = x.process /\ y.killed = x.killed /\ y.exited = x.exited
      /\ y.stdin = Append(x.stdin, r) /\ y.stdout = x.stdout
      /\ y.pending = Append(x.pending, r) /\ y.timers = x.timers \cup {r}
  BY <1>4, <1>5, PostFields
<1>7. handle \in Calls \cup {None}
  BY DEF ShimInv, TypeOK
<1>8. d \in CallState
  BY <1>2, <1>7, Zenon DEF CallState
<1>9. /\ d.pc = "prompt" /\ d.shim = s /\ d.result = None /\ d.displaced = handle
  BY <1>2, SMT DEF CallState
<1> HIDE DEF y, d
<1>10. OnlyChild(s) /\ OnlyCall(s) /\ child'[s] = y /\ call'[s] = d
  BY <1>1, <1>2, <1>3, <1>6, <1>8, Zenon DEF OnlyChild, OnlyCall
<1> QED
  BY <1>1, <1>2, <1>3, <1>4, <1>5, <1>6, <1>9, <1>10 DEF CreatedEffect, Oldest

LEMMA WriteFailsGives ==
  ASSUME ShimInv, NEW s \in Calls, WriteFails(s)
  PROVE  \E ended, f : EndEffect(s, ended, f)
<1> DEFINE r == Head(child[s].stdin)
           t == [child[s] EXCEPT !.stdin = Tail(@)]
           x == Forget(t, r)
           y == AfterProbe(x, r)
           ended == {r} \cap ToSet(child[s].pending)
           f == [c \in Calls |-> "failed"]
<1>1. /\ child[s].process = "gone" /\ child[s].stdin # <<>> /\ handle' = handle
      /\ child' = [child EXCEPT ![s] = y] /\ call' = Rejected({r}, "failed")
  BY DEF WriteFails
<1>2. /\ child[s] \in ChildState /\ child \in [Calls -> ChildState]
      /\ child[s].stdin \in Seq(Request) /\ child[s].pending \in Seq(Request)
      /\ child[s].stdout \in Seq([request : Request, answer : Answer])
      /\ Balanced(s) /\ Written(s) /\ ChildFits(s)
  BY Typed DEF ShimInv
<1>3. /\ r \in Request /\ r = child[s].stdin[1] /\ 1 \in 1 .. Len(child[s].stdin)
      /\ Tail(child[s].stdin) \in Seq(Request)
      /\ \A i \in 1 .. Len(Tail(child[s].stdin)) :
           /\ i + 1 \in 1 .. Len(child[s].stdin)
           /\ Tail(child[s].stdin)[i] = child[s].stdin[i + 1]
  BY <1>1, <1>2, SMT
<1>4. r.call \in Calls /\ call[r.call].shim = s
  <2>1. Posted(r, s)
    BY <1>2, <1>3 DEF Written
  <2> QED
    BY <1>3, <2>1, ReqLemma DEF Posted
<1>5. t \in ChildState
  BY <1>2, <1>3, Zenon DEF ChildState
<1>6. /\ t.process = child[s].process /\ t.killed = child[s].killed
      /\ t.exited = child[s].exited /\ t.stdin = Tail(child[s].stdin)
      /\ t.stdout = child[s].stdout /\ t.pending = child[s].pending
      /\ t.timers = child[s].timers
  BY <1>2, SMT DEF ChildState
<1>7. IsInjective(child[s].pending)
  BY <1>2 DEF Balanced
<1> HIDE DEF r, t
<1>8. /\ x \in ChildState
      /\ x.process = t.process /\ x.killed = t.killed /\ x.exited = t.exited
      /\ x.stdin = t.stdin /\ x.stdout = t.stdout
      /\ x.pending = RemoveFirst(t.pending, r) /\ x.timers = t.timers \ {r}
  BY <1>3, <1>5, <1>6, <1>7, ForgetFields
<1> HIDE DEF x
<1>9. /\ y \in ChildState /\ SameBooks(y, x)
      /\ x.killed => y.killed
  BY <1>1, <1>6, <1>8, AfterProbeLemma
<1> HIDE DEF y
<1>10. OnlyChild(s) /\ child'[s] = y
  BY <1>1, <1>2, <1>9, Zenon DEF OnlyChild
<1>11. /\ y.process = "gone" /\ y.exited = child[s].exited
       /\ y.stdin = Tail(child[s].stdin) /\ y.stdout = child[s].stdout
       /\ y.pending = RemoveFirst(child[s].pending, r)
       /\ y.timers = child[s].timers \ {r}
       /\ child[s].killed => y.killed
  BY <1>1, <1>6, <1>8, <1>9 DEF SameBooks
<1>12. "failed" \in Failures /\ "failed" \notin Calls
  BY AppleShimAssumption DEF AppleShimAssumption, Failures
<1>13. CallsEnd(ended, f) /\ f \in [Calls -> Calls \cup Failures]
  <2>1. ASSUME NEW c \in Calls
        PROVE  (\E q \in {r} : Awaits(c, q)) <=> (\E q \in ended : Awaits(c, q))
    <3>1. Awaits(c, r) => c = r.call /\ Awaits(r.call, r)
      BY DEF Awaits
    <3>2. Awaits(r.call, r) => r \in Waiting(s)
      BY <1>3, <1>4 DEF Waiting
    <3>3. Waiting(s) = ToSet(child[s].pending)
      BY <1>2 DEF Balanced
    <3> QED
      BY <3>1, <3>2, <3>3
  <2>2. call' = Rejected({r}, "failed") /\ "failed" \in Failures
    BY <1>1, <1>12
  <2> DEFINE rs == {r}
  <2>3. \A c \in Calls : (\E q \in rs : Awaits(c, q)) <=> (\E q \in ended : Awaits(c, q))
    BY <2>1
  <2>4. call' = Rejected(rs, "failed")
    BY <2>2
  <2> HIDE DEF ended, rs
  <2> QED
    BY <2>2, <2>3, <2>4, RejectedGives, Zenon
<1>14. /\ ToSet(y.pending) = ToSet(child[s].pending) \ ended
       /\ IsInjective(y.pending)
       /\ y.timers = child[s].timers \ ended
  <2>1. /\ ToSet(y.pending) = ToSet(child[s].pending) \ {r}
        /\ IsInjective(y.pending)
    BY <1>2, <1>7, <1>11, RemoveFirstLemma
  <2>2. child[s].timers = ToSet(child[s].pending)
    BY <1>2 DEF Balanced
  <2> QED
    BY <1>11, <2>1, <2>2
<1>15. TimedOut(s) \/ Ordered(y)
  <2>1. CASE TimedOut(s)
    BY <2>1
  <2>2. CASE Ordered(child[s])
    <3> DEFINE k == Len(child[s].stdout)
    <3>1. /\ k \in Nat /\ Len(child[s].pending) \in Nat
          /\ \A i \in 1 .. k : /\ i <= Len(child[s].pending)
                               /\ child[s].stdout[i].request = child[s].pending[i]
                               /\ child[s].stdout[i].request # r
      BY <1>1, <1>2, <1>3, <2>2, LenProperties DEF Ordered
    <3>2. k \in 0 .. Len(child[s].pending)
      <4>1. k = 0 \/ k \in 1 .. k
        BY <3>1, SMT
      <4>2. k = 0 \/ k <= Len(child[s].pending)
        BY <3>1, <4>1
      <4> QED
        BY <3>1, <4>2, SMT
    <3>3. /\ k <= Len(y.pending)
          /\ \A i \in 1 .. k : y.pending[i] = child[s].pending[i]
      <4>1. \A i \in 1 .. k : child[s].pending[i] # r
        BY <3>1
      <4> DEFINE q == child[s].pending
      <4>2. q \in Seq(Request) /\ IsInjective(q) /\ k \in 0 .. Len(q) /\ \A i \in 1 .. k : q[i] # r
        BY <1>2, <1>7, <3>2, <4>1
      <4> HIDE DEF q, k
      <4>3. k <= Len(RemoveFirst(q, r)) /\ \A i \in 1 .. k : RemoveFirst(q, r)[i] = q[i]
        BY <4>2, RemoveFirstLemma
      <4> QED
        BY <1>11, <4>3 DEF q
    <3>4. y.pending \in Seq(Request)
      BY <1>9 DEF ChildState
    <3>5. \A i \in 1 .. k : i <= Len(y.pending)
      BY <3>1, <3>3, <3>4, SMT
    <3> QED
      BY <1>1, <1>3, <1>11, <2>2, <3>1, <3>3, <3>5 DEF Ordered
  <2> QED
    BY <2>1, <2>2 DEF ShimInv
<1>16. \A q \in ended : f[q.call] = "failed"
  BY <1>4
<1>17. child[s].exited => child[s].stdout = <<>>
  BY <1>2 DEF ChildFits
<1>18. \A i \in 1 .. Len(y.stdin) :
         \E j \in 1 .. Len(child[s].stdin) : y.stdin[i] = child[s].stdin[j]
  BY <1>3, <1>11
<1> HIDE DEF f
<1>19. ended \subseteq ToSet(child[s].pending)
  OBVIOUS
<1> HIDE DEF ended
<1>20. EndEffect(s, ended, f)
  <2>1. /\ \A q \in ended : f[q.call] \in Calls => f[q.call] = q.call \/ TimedOut(s)
        /\ \A q \in ended : q.op # "prompt" =>
             \/ child'[s].process = "running" => child'[s].killed
             \/ q.op = "create" /\ f[q.call] = "unreadable"
    BY <1>10, <1>11, <1>12, <1>16
  <2>2. \A i \in 1 .. Len(child'[s].stdout) :
          \E j \in 1 .. Len(child[s].stdout) : child'[s].stdout[i] = child[s].stdout[j]
    BY <1>10, <1>11
  <2>3. /\ OnlyChild(s) /\ handle' = handle
        /\ ended \subseteq ToSet(child[s].pending)
        /\ f \in [Calls -> Calls \cup Failures]
        /\ CallsEnd(ended, f)
        /\ ToSet(child'[s].pending) = ToSet(child[s].pending) \ ended
        /\ IsInjective(child'[s].pending)
        /\ child'[s].timers = child[s].timers \ ended
        /\ child'[s].process = child[s].process
        /\ child[s].killed => child'[s].killed
    BY <1>1, <1>10, <1>11, <1>13, <1>14, <1>19
  <2>4. /\ child'[s].exited = child[s].exited
        /\ child[s].process # "none"
        /\ child[s].exited => child'[s].stdout = <<>>
        /\ \A i \in 1 .. Len(child'[s].stdin) :
             \E j \in 1 .. Len(child[s].stdin) : child'[s].stdin[i] = child[s].stdin[j]
        /\ TimedOut(s) \/ Ordered(child'[s])
    <3>1. child'[s] = y
      BY <1>10
    <3>2. y.exited = child[s].exited /\ (child[s].exited => y.stdout = <<>>)
      BY <1>11, <1>17
    <3>3. child[s].process # "none"
      BY <1>1
    <3> QED
      BY <1>15, <1>18, <3>1, <3>2, <3>3
  <2> QED
    BY <2>1, <2>2, <2>3, <2>4 DEF EndEffect
<1> QED
  BY <1>20

LEMMA TimeoutGives ==
  ASSUME ShimInv, NEW s \in Calls, NEW r, Timeout(s, r)
  PROVE  \E ended, f : EndEffect(s, ended, f)
<1> DEFINE x == Forget(child[s], r)
           y == Kill(x)
           f == [c \in Calls |-> "timedout"]
<1>1. /\ r \in child[s].timers /\ handle' = handle
      /\ child' = [child EXCEPT ![s] = y] /\ call' = Rejected({r}, "timedout")
  BY DEF Timeout
<1>2. /\ child[s] \in ChildState /\ child \in [Calls -> ChildState]
      /\ child[s].pending \in Seq(Request)
      /\ Balanced(s) /\ ChildFits(s)
      /\ r \in Request /\ r.call \in Calls
  BY <1>1, Typed, ReqLemma DEF ShimInv
<1>3. r \in ToSet(child[s].pending) /\ IsInjective(child[s].pending)
  BY <1>1, <1>2 DEF Balanced
<1>4. /\ x \in ChildState
      /\ x.process = child[s].process /\ x.killed = child[s].killed
      /\ x.exited = child[s].exited
      /\ x.stdin = child[s].stdin /\ x.stdout = child[s].stdout
      /\ x.pending = RemoveFirst(child[s].pending, r)
      /\ x.timers = child[s].timers \ {r}
  BY <1>2, <1>3, ForgetFields
<1> HIDE DEF x
<1>5. /\ y \in ChildState /\ SameBooks(y, x)
      /\ x.killed => y.killed
      /\ x.process = "running" => y.killed
  BY <1>4, KillLemma
<1> HIDE DEF y
<1>6. OnlyChild(s) /\ child'[s] = y
  BY <1>1, <1>2, <1>5, Zenon DEF OnlyChild
<1>7. "timedout" \in Failures /\ "timedout" \notin Calls
  BY AppleShimAssumption DEF AppleShimAssumption, Failures
<1>8. CallsEnd({r}, f) /\ f \in [Calls -> Calls \cup Failures]
  <2>1. call' = Rejected({r}, "timedout") /\ "timedout" \in Failures
    BY <1>1, <1>7
  <2> QED
    BY <2>1, RejectedGives, Zenon
<1>9. f[r.call] = "timedout"
  BY <1>2
<1> HIDE DEF f
<1>10. /\ ToSet(y.pending) = ToSet(child[s].pending) \ {r}
       /\ IsInjective(y.pending)
  BY <1>2, <1>3, <1>4, <1>5, RemoveFirstLemma DEF SameBooks
<1>11. child[s].process # "none" /\ (child[s].exited => child[s].stdout = <<>>)
  BY <1>1, <1>2 DEF ChildFits
<1>12. EndEffect(s, {r}, f)
  BY <1>1, <1>3, <1>4, <1>5, <1>6, <1>7, <1>8, <1>9, <1>10, <1>11
     DEF EndEffect, SameBooks
<1> QED
  BY <1>12

LEMMA ClosedGives ==
  ASSUME ShimInv, NEW s \in Calls, Closed(s)
  PROVE  \E ended, f : EndEffect(s, ended, f)
<1> DEFINE ended == ToSet(child[s].pending)
           f == [c \in Calls |-> "failed"]
           y == [child[s] EXCEPT !.exited = TRUE, !.pending = <<>>, !.timers = {}]
<1>1. /\ child[s].process = "gone" /\ ~ child[s].exited /\ child[s].stdout = <<>>
      /\ handle' = handle
      /\ child' = [child EXCEPT ![s] = y] /\ call' = Rejected(ended, "failed")
  BY DEF Closed
<1>2. /\ child[s] \in ChildState /\ child \in [Calls -> ChildState]
      /\ child[s].pending \in Seq(Request) /\ Balanced(s)
  BY Typed DEF ShimInv
<1>3. <<>> \in Seq(Request) /\ Len(<<>>) = 0 /\ \A i : i \notin 1 .. 0
  BY EmptySeq, SMT
<1>4. y \in ChildState
  <2>1. {} \in SUBSET Request /\ TRUE \in BOOLEAN
    OBVIOUS
  <2> QED
    BY <1>2, <1>3, <2>1, Zenon DEF ChildState
<1>5. /\ y.process = child[s].process /\ y.killed = child[s].killed /\ y.exited
      /\ y.stdin = child[s].stdin /\ y.stdout = child[s].stdout
      /\ y.pending = <<>> /\ y.timers = {}
  BY <1>2, SMT DEF ChildState
<1> HIDE DEF y
<1>6. OnlyChild(s) /\ child'[s] = y
  BY <1>1, <1>2, <1>4, Zenon DEF OnlyChild
<1>7. "failed" \in Failures /\ "failed" \notin Calls
  BY AppleShimAssumption DEF AppleShimAssumption, Failures
<1>8. ToSet(<<>>) = {} /\ IsInjective(<<>>)
  BY SMT DEF ToSet, IsInjective
<1>9. ended \subseteq Request /\ child[s].timers = ended
  BY <1>2 DEF Balanced, Waiting
<1> HIDE DEF ended
<1>10. CallsEnd(ended, f) /\ f \in [Calls -> Calls \cup Failures]
  <2>1. call' = Rejected(ended, "failed") /\ "failed" \in Failures
    BY <1>1, <1>7
  <2> QED
    BY <2>1, RejectedGives, Zenon
<1>11. \A q \in ended : f[q.call] = "failed"
  BY <1>9, ReqLemma
<1> HIDE DEF f
<1>12. Ordered(y)
  BY <1>1, <1>3, <1>5, Zenon DEF Ordered
<1>13. ended = ToSet(child[s].pending)
  BY DEF ended
<1>14. EndEffect(s, ended, f)
  BY <1>1, <1>3, <1>5, <1>6, <1>7, <1>8, <1>9, <1>10, <1>11, <1>12, <1>13 DEF EndEffect
<1> QED
  BY <1>14

LEMMA UnsolicitedGives ==
  ASSUME ShimInv, NEW s \in Calls, Unsolicited(s)
  PROVE  PipeEffect(s)
<1> DEFINE o == Tail(child[s].stdout)
           y == [child[s] EXCEPT !.stdout = o]
<1>1. /\ child[s].stdout # <<>> /\ child[s].pending = <<>>
      /\ call' = call /\ handle' = handle /\ child' = [child EXCEPT ![s] = y]
  BY DEF Unsolicited, HasLine
<1>2. /\ child[s] \in ChildState /\ child \in [Calls -> ChildState]
      /\ child[s].stdout \in Seq([request : Request, answer : Answer])
      /\ ChildFits(s)
  BY Typed DEF ShimInv
<1>3. /\ o \in Seq([request : Request, answer : Answer])
      /\ 1 \in 1 .. Len(child[s].stdout)
      /\ \A i \in 1 .. Len(o) :
           i + 1 \in 1 .. Len(child[s].stdout) /\ o[i] = child[s].stdout[i + 1]
  BY <1>1, <1>2, SMT
<1> HIDE DEF o
<1>4. y \in ChildState
  BY <1>2, <1>3, Zenon DEF ChildState
<1>5. /\ y.process = child[s].process /\ y.killed = child[s].killed
      /\ y.exited = child[s].exited /\ y.stdin = child[s].stdin /\ y.stdout = o
      /\ y.pending = child[s].pending /\ y.timers = child[s].timers
  BY <1>2, SMT DEF ChildState
<1> HIDE DEF y
<1>6. OnlyChild(s) /\ child'[s] = y
  BY <1>1, <1>2, <1>4, Zenon DEF OnlyChild
<1>7. TimedOut(s)
  <2>1. ~ (1 <= Len(<<>>))
    BY EmptySeq, SMT
  <2>2. ~ Ordered(child[s])
    BY <1>1, <1>3, <2>1 DEF Ordered
  <2> QED
    BY <2>2 DEF ShimInv
<1>8. ~ child[s].exited /\ child[s].process # "none"
  BY <1>1, <1>2 DEF ChildFits
<1> QED
  BY <1>1, <1>3, <1>5, <1>6, <1>7, <1>8 DEF PipeEffect

LEMMA ServeGives ==
  ASSUME ShimInv, NEW s \in Calls, Serve(s)
  PROVE  PipeEffect(s)
<1> PICK answer \in Answer :
       child' = [child EXCEPT
         ![s].stdin = Tail(@),
         ![s].stdout = Append(@, [request |-> Head(child[s].stdin), answer |-> answer])]
  BY DEF Serve
<1> DEFINE q == Head(child[s].stdin)
           line == [request |-> q, answer |-> answer]
           i == Tail(child[s].stdin)
           o == Append(child[s].stdout, line)
           y == [child[s] EXCEPT !.stdin = i, !.stdout = o]
           n == Len(child[s].stdout)
<1>1. /\ child[s].process = "running" /\ child[s].stdin # <<>>
      /\ call' = call /\ handle' = handle
  BY DEF Serve
<1>2. /\ child[s] \in ChildState /\ child \in [Calls -> ChildState]
      /\ child[s].stdout \in Seq([request : Request, answer : Answer])
      /\ child[s].stdin \in Seq(Request) /\ child[s].pending \in Seq(Request)
      /\ ChildFits(s)
  BY Typed DEF ShimInv
<1>3. /\ q \in Request /\ q = child[s].stdin[1] /\ 1 \in 1 .. Len(child[s].stdin)
      /\ i \in Seq(Request) /\ Len(i) = Len(child[s].stdin) - 1
      /\ Len(child[s].stdin) \in Nat
      /\ \A j \in 1 .. Len(i) :
           j + 1 \in 1 .. Len(child[s].stdin) /\ i[j] = child[s].stdin[j + 1]
  BY <1>1, <1>2, SMT
<1> HIDE DEF q, i
<1>4. line \in [request : Request, answer : Answer] /\ line.request = q
  BY <1>3
<1> HIDE DEF line
<1>5. /\ o \in Seq([request : Request, answer : Answer]) /\ Len(o) = n + 1 /\ n \in Nat
      /\ o[n + 1] = line
      /\ \A j \in 1 .. n : o[j] = child[s].stdout[j]
      /\ \A j \in 1 .. Len(o) : j \in 1 .. n \/ j = n + 1
  BY <1>2, <1>4, SMT
<1> HIDE DEF o
<1>6. y \in ChildState
  BY <1>2, <1>3, <1>5, Zenon DEF ChildState
<1>7. /\ y.process = child[s].process /\ y.killed = child[s].killed
      /\ y.exited = child[s].exited /\ y.stdin = i /\ y.stdout = o
      /\ y.pending = child[s].pending /\ y.timers = child[s].timers
  BY <1>2, SMT DEF ChildState
<1>8. child' = [child EXCEPT ![s] = y]
  BY <1>2, Zenon DEF y, i, o, line, q
<1> HIDE DEF y
<1>9. OnlyChild(s) /\ child'[s] = y
  BY <1>2, <1>6, <1>8, Zenon DEF OnlyChild
<1>10. ~ child[s].exited
  BY <1>1, <1>2 DEF ChildFits
<1>11. TimedOut(s) \/ Ordered(y)
  <2>1. CASE TimedOut(s)
    BY <2>1
  <2>2. CASE Ordered(child[s])
    <3>1. /\ Len(child[s].pending) = n + Len(child[s].stdin)
          /\ \A j \in 1 .. Len(child[s].stdin) : child[s].pending[n + j] = child[s].stdin[j]
          /\ \A j \in 1 .. n : /\ j <= Len(child[s].pending)
                               /\ child[s].stdout[j].request = child[s].pending[j]
      BY <1>1, <2>2 DEF Ordered
    <3> HIDE DEF n
    <3>2. n + 1 <= Len(child[s].pending) /\ child[s].pending[n + 1] = q
      BY <1>3, <1>5, <3>1, SMT
    <3>3. \A j \in 1 .. Len(o) :
            j <= Len(child[s].pending) /\ o[j].request = child[s].pending[j]
      BY <1>4, <1>5, <3>1, <3>2
    <3>4. Len(child[s].pending) = Len(o) + Len(i)
      <4>1. /\ Len(o) = n + 1 /\ Len(i) = Len(child[s].stdin) - 1
            /\ n \in Nat /\ Len(child[s].stdin) \in Nat
            /\ Len(child[s].pending) = n + Len(child[s].stdin)
        BY <1>3, <1>5, <3>1
      <4>2. \A a, b \in Nat : a + b = (a + 1) + (b - 1)
        BY SMT
      <4> QED
        BY <4>1, <4>2, Zenon
    <3>5. ASSUME NEW j \in 1 .. Len(i)
          PROVE  child[s].pending[Len(o) + j] = i[j]
      <4>1. Len(o) + j = n + (j + 1)
        BY <1>3, <1>5, SMT
      <4> QED
        BY <1>3, <3>1, <4>1
    <3> QED
      BY <1>1, <1>7, <3>3, <3>4, <3>5 DEF Ordered
  <2> QED
    BY <2>1, <2>2 DEF ShimInv
<1>12. \A j \in 1 .. Len(o) :
         \/ \E k \in 1 .. Len(child[s].stdout) : o[j] = child[s].stdout[k]
         \/ \E k \in 1 .. Len(child[s].stdin) : o[j].request = child[s].stdin[k]
  BY <1>3, <1>4, <1>5
<1> QED
  BY <1>1, <1>3, <1>7, <1>9, <1>10, <1>11, <1>12 DEF PipeEffect

LEMMA DiesGives ==
  ASSUME ShimInv, NEW s \in Calls, Dies(s)
  PROVE  PipeEffect(s)
<1>1. PICK lost \in 0 .. Len(child[s].stdin) :
        child' = [child EXCEPT
          ![s].process = "gone",
          ![s].stdin = SubSeq(@, lost + 1, Len(@))]
  BY DEF Dies
<1> DEFINE i == SubSeq(child[s].stdin, lost + 1, Len(child[s].stdin))
           y == [child[s] EXCEPT !.process = "gone", !.stdin = i]
           n == Len(child[s].stdout)
<1>2. child[s].process = "running" /\ call' = call /\ handle' = handle
  BY DEF Dies
<1>3. /\ child[s] \in ChildState /\ child \in [Calls -> ChildState]
      /\ child[s].stdout \in Seq([request : Request, answer : Answer])
      /\ child[s].stdin \in Seq(Request) /\ child[s].pending \in Seq(Request)
      /\ ChildFits(s) /\ Balanced(s)
  BY Typed DEF ShimInv
<1>4. /\ i \in Seq(Request) /\ Len(i) = Len(child[s].stdin) - lost
      /\ \A j \in 1 .. Len(child[s].stdin) - lost : i[j] = child[s].stdin[lost + j]
      /\ Len(child[s].stdin) \in Nat /\ n \in Nat
  BY <1>3, SuffixLemma, LenProperties
<1>5. \A j \in 1 .. Len(i) : lost + j \in 1 .. Len(child[s].stdin)
  BY <1>4, SMT
<1>6. child' = [child EXCEPT ![s] = y]
  BY <1>1, <1>3, Zenon
<1> HIDE DEF i
<1>7. y \in ChildState
  BY <1>3, <1>4, Zenon DEF ChildState
<1>8. /\ y.process = "gone" /\ y.killed = child[s].killed
      /\ y.exited = child[s].exited /\ y.stdin = i /\ y.stdout = child[s].stdout
      /\ y.pending = child[s].pending /\ y.timers = child[s].timers
  BY <1>3, SMT DEF ChildState
<1> HIDE DEF y
<1>9. OnlyChild(s) /\ child'[s] = y
  BY <1>3, <1>6, <1>7, Zenon DEF OnlyChild
<1>10. ~ child[s].exited
  BY <1>2, <1>3 DEF ChildFits
<1>11. TimedOut(s) \/ Ordered(y)
  <2>1. CASE TimedOut(s)
    BY <2>1
  <2>2. CASE Ordered(child[s])
    <3>1. /\ Len(child[s].pending) = n + Len(child[s].stdin)
          /\ \A j \in 1 .. Len(child[s].stdin) : child[s].pending[n + j] = child[s].stdin[j]
          /\ \A j \in 1 .. n : /\ j <= Len(child[s].pending)
                               /\ child[s].stdout[j].request = child[s].pending[j]
      BY <1>2, <2>2 DEF Ordered
    <3>2. \A a, b \in 1 .. Len(child[s].pending) :
            child[s].pending[a] = child[s].pending[b] => a = b
      BY <1>3, LenProperties DEF Balanced, IsInjective
    <3>3. ASSUME NEW j \in 1 .. Len(i), NEW k \in 1 .. n
          PROVE  child[s].stdout[k].request # i[j]
      <4>1. i[j] = child[s].pending[n + (lost + j)]
        BY <1>4, <1>5, <3>1
      <4> HIDE DEF n
      <4>2. /\ n + (lost + j) \in 1 .. Len(child[s].pending)
            /\ k \in 1 .. Len(child[s].pending) /\ k # n + (lost + j)
        BY <1>4, <1>5, <3>1, SMT
      <4> QED
        BY <3>1, <3>2, <4>1, <4>2
    <3> QED
      BY <1>8, <3>1, <3>3 DEF Ordered
  <2> QED
    BY <2>1, <2>2 DEF ShimInv
<1> QED
  BY <1>2, <1>4, <1>5, <1>8, <1>9, <1>10, <1>11 DEF PipeEffect

\* What every step does.
StepEffect ==
  \/ \E c \in Calls, op \in {"create", "availability"} : SpawnEffect(c, op)
  \/ \E p \in Calls : PostEffect(handle, p)
  \/ \E p \in Calls : RefusedEffect(p)
  \/ DestroyEffect
  \/ \E s \in Calls : CreatedEffect(s)
  \/ \E s \in Calls : \E ended, f : EndEffect(s, ended, f)
  \/ \E s \in Calls : PipeEffect(s)

LEMMA StepGives ==
  ASSUME ShimInv, Next
  PROVE  StepEffect /\ destroyed' \in BOOLEAN
<1>1. destroyed \in BOOLEAN
  BY DEF ShimInv, TypeOK
<1>2. ASSUME NEW c \in Calls, Create(c) \/ Prompt(c) \/ Probe(c)
      PROVE  StepEffect /\ destroyed' \in BOOLEAN
  <2>1. CASE Create(c)
    <3>1. SpawnEffect(c, "create")
      BY <2>1, SpawnGives DEF Create
    <3> QED
      BY <2>1, <3>1 DEF Create, StepEffect
  <2>2. CASE Prompt(c)
    BY <2>2, PromptGives DEF Prompt, StepEffect
  <2>3. CASE Probe(c)
    <3>1. SpawnEffect(c, "availability")
      BY <2>3, SpawnGives DEF Probe
    <3> QED
      BY <1>1, <2>3, <3>1 DEF Probe, StepEffect
  <2> QED
    BY <1>2, <2>1, <2>2, <2>3
<1>3. ASSUME Destroy
      PROVE  StepEffect /\ destroyed' \in BOOLEAN
  BY <1>3, DestroyGives DEF Destroy, StepEffect
<1>4. ASSUME NEW s \in Calls, HostEvent(s)
      PROVE  StepEffect
  <2>1. CASE Unsolicited(s)
    BY <2>1, UnsolicitedGives DEF StepEffect
  <2>2. CASE Unreadable(s)
    BY <2>2, UnreadableGives DEF StepEffect
  <2>3. CASE Created(s)
    BY <2>3, CreatedGives DEF StepEffect
  <2>4. CASE CreateRefused(s)
    BY <2>4, CreateRefusedGives DEF StepEffect
  <2>5. CASE Replied(s)
    BY <2>5, RepliedGives DEF StepEffect
  <2>6. CASE WriteFails(s)
    BY <2>6, WriteFailsGives DEF StepEffect
  <2>7. CASE Closed(s)
    BY <2>7, ClosedGives DEF StepEffect
  <2>8. CASE \E r \in Request : Timeout(s, r)
    BY <2>8, TimeoutGives DEF StepEffect
  <2> QED
    BY <1>4, <2>1, <2>2, <2>3, <2>4, <2>5, <2>6, <2>7, <2>8 DEF HostEvent
<1>5. ASSUME NEW s \in Calls, HostEvent(s)
      PROVE  destroyed' = destroyed
  BY <1>5 DEF HostEvent, Unsolicited, Unreadable, Created, CreateRefused, Replied,
     WriteFails, Closed, Timeout
<1>6. ASSUME NEW s \in Calls, Serve(s) \/ Dies(s)
      PROVE  StepEffect /\ destroyed' = destroyed
  BY <1>6, ServeGives, DiesGives DEF Serve, Dies, StepEffect
<1> QED
  BY <1>1, <1>2, <1>3, <1>4, <1>5, <1>6 DEF Next

----------------------------------------------------------------------------
(* Every step preserves the invariant.                                     *)

\* Steps keep what calls and children have got.
Grows ==
  /\ child' \in [Calls -> ChildState] /\ call' \in [Calls -> CallState]
  /\ handle' \in Calls \cup {None}
  /\ \A c \in Calls :
       /\ call[c].pc # "idle" => call'[c].pc # "idle" /\ call'[c].shim = call[c].shim
       /\ call[c].pc = "settled" => call'[c] = call[c]
       /\ call[c].displaced # None => call'[c].displaced = call[c].displaced
       /\ child[c].process # "none" => child'[c].process # "none"
       /\ call'[c].pc = "settled" <=> call'[c].result # None

LEMMA StepsGrow ==
  ASSUME ShimInv, StepEffect
  PROVE  Grows
<1>1. /\ child \in [Calls -> ChildState] /\ call \in [Calls -> CallState]
      /\ handle \in Calls \cup {None} /\ (handle # None => handle \in Calls)
      /\ \A c \in Calls : /\ CallFits(c)
                          /\ call[c].pc = "settled" <=> call[c].result # None
  BY DEF ShimInv, TypeOK
<1>2. None \notin Calls \cup Failures
  BY AppleShimAssumption DEF AppleShimAssumption
<1>3. "failed" # None
  BY <1>2 DEF Failures
<1>4. ASSUME NEW c \in Calls, NEW op \in {"create", "availability"}, SpawnEffect(c, op)
      PROVE  Grows
  BY <1>1, <1>3, <1>4 DEF SpawnEffect, OnlyChild, OnlyCall, CallFits, Grows
<1>5. ASSUME NEW p \in Calls, PostEffect(handle, p)
      PROVE  Grows
  BY <1>1, <1>5 DEF PostEffect, OnlyChild, OnlyCall, CallFits, Grows, HandleFits, ShimInv
<1>6. ASSUME NEW p \in Calls, RefusedEffect(p)
      PROVE  Grows
  BY <1>1, <1>3, <1>6 DEF RefusedEffect, OnlyCall, CallFits, Grows
<1>7. ASSUME DestroyEffect
      PROVE  Grows
  BY <1>1, <1>7 DEF DestroyEffect, OnlyChild, SameBooks, Grows
<1>8. ASSUME NEW s \in Calls, CreatedEffect(s)
      PROVE  Grows
  BY <1>1, <1>8 DEF CreatedEffect, OnlyChild, OnlyCall, CallFits, Grows
<1>9. ASSUME NEW s \in Calls, NEW ended, NEW f, EndEffect(s, ended, f)
      PROVE  Grows
  <2>1. \A c \in Calls : f[c] # None
    BY <1>2, <1>9 DEF EndEffect
  <2>2. \A c \in Calls : \A r \in ended : Awaits(c, r) => call[c].pc \notin {"idle", "settled"}
    <3>1. ended \subseteq Request
      BY <1>9 DEF EndEffect, ShimInv, Balanced, Waiting
    <3> QED
      BY <3>1, ReqLemma DEF Awaits
  <2>3. /\ child' \in [Calls -> ChildState] /\ handle' \in Calls \cup {None}
        /\ \A c \in Calls : child[c].process # "none" => child'[c].process # "none"
    BY <1>1, <1>9 DEF EndEffect, OnlyChild
  <2>4. CallsEnd(ended, f)
    BY <1>9 DEF EndEffect
  <2>5. ASSUME NEW c \in Calls
        PROVE  /\ call[c].pc # "idle" => call'[c].pc # "idle" /\ call'[c].shim = call[c].shim
               /\ call[c].pc = "settled" => call'[c] = call[c]
               /\ call[c].displaced # None => call'[c].displaced = call[c].displaced
               /\ call'[c].pc = "settled" <=> call'[c].result # None
    BY <1>1, <2>1, <2>2, <2>4 DEF CallsEnd
  <2> QED
    BY <2>3, <2>4, <2>5 DEF Grows, CallsEnd
<1>10. ASSUME NEW s \in Calls, PipeEffect(s)
       PROVE  Grows
  BY <1>1, <1>10 DEF PipeEffect, OnlyChild, Grows
<1> QED
  BY <1>4, <1>5, <1>6, <1>7, <1>8, <1>9, <1>10 DEF StepEffect

LEMMA FitsNext ==
  ASSUME ShimInv, StepEffect
  PROVE  /\ \A c \in Calls : CallFits(c)'
         /\ \A s \in Calls : ChildFits(s)'
         /\ HandleFits'
<1>1. /\ \A c \in Calls : CallFits(c) /\ ChildFits(c)
      /\ HandleFits /\ Prompts \subseteq Calls /\ Probes \subseteq Calls
  BY DEF ShimInv, Calls
<1>2. Grows
  BY StepsGrow
<1>3. None \notin Calls
  BY AppleShimAssumption DEF AppleShimAssumption
<1> DEFINE Fits == /\ \A c \in Calls : CallFits(c)'
                   /\ \A s \in Calls : ChildFits(s)'
                   /\ HandleFits'
<1>4. ASSUME NEW c \in Calls, NEW op \in {"create", "availability"}, SpawnEffect(c, op)
      PROVE  Fits
  <2>1. ASSUME NEW d \in Calls PROVE CallFits(d)'
    BY <1>1, <1>2, <1>3, <1>4 DEF SpawnEffect, OnlyChild, OnlyCall, CallFits, Grows
  <2>2. ASSUME NEW d \in Calls PROVE ChildFits(d)'
    BY <1>1, <1>4 DEF SpawnEffect, OnlyChild, ChildFits
  <2>3. HandleFits'
    BY <1>1, <1>2, <1>4 DEF SpawnEffect, HandleFits, Grows
  <2> QED
    BY <2>1, <2>2, <2>3
<1>5. ASSUME NEW p \in Calls, PostEffect(handle, p)
      PROVE  Fits
  <2>1. ASSUME NEW d \in Calls PROVE CallFits(d)'
    <3>1. child'[d].process = child[d].process /\ child[handle].process # "none"
      BY <1>1, <1>3, <1>5 DEF PostEffect, OnlyChild, HandleFits
    <3>2. CASE d # p
      <4>1. call'[d] = call[d]
        BY <1>5, <3>2 DEF PostEffect, OnlyCall
      <4> QED
        BY <1>1, <1>2, <3>1, <4>1 DEF CallFits, Grows
    <3>3. CASE d = p
      <4>1. handle \in Calls /\ child'[handle].process # "none"
        BY <1>1, <1>2, <1>3, <1>5, <3>1 DEF PostEffect, HandleFits, Grows
      <4> QED
        BY <1>1, <1>5, <3>3, <4>1 DEF PostEffect, CallFits
    <3> QED
      BY <3>2, <3>3
  <2>2. ASSUME NEW d \in Calls PROVE ChildFits(d)'
    BY <1>1, <1>3, <1>5 DEF PostEffect, OnlyChild, ChildFits, HandleFits
  <2>3. HandleFits'
    BY <1>1, <1>2, <1>5 DEF PostEffect, HandleFits, Grows
  <2> QED
    BY <2>1, <2>2, <2>3
<1>6. ASSUME NEW p \in Calls, RefusedEffect(p)
      PROVE  Fits
  <2>1. ASSUME NEW d \in Calls PROVE CallFits(d)'
    BY <1>1, <1>2, <1>3, <1>6 DEF RefusedEffect, OnlyCall, CallFits, Grows, HandleFits
  <2>2. ASSUME NEW d \in Calls PROVE ChildFits(d)'
    BY <1>1, <1>6 DEF RefusedEffect, ChildFits
  <2>3. HandleFits'
    BY <1>1, <1>2, <1>6 DEF RefusedEffect, HandleFits, Grows
  <2> QED
    BY <2>1, <2>2, <2>3
<1>7. ASSUME DestroyEffect
      PROVE  Fits
  <2>1. ASSUME NEW d \in Calls PROVE CallFits(d)'
    BY <1>1, <1>2, <1>7 DEF DestroyEffect, OnlyChild, SameBooks, CallFits, Grows
  <2>2. ASSUME NEW d \in Calls PROVE ChildFits(d)'
    BY <1>1, <1>7 DEF DestroyEffect, OnlyChild, SameBooks, ChildFits, HandleFits
  <2>3. HandleFits'
    BY <1>7 DEF DestroyEffect, HandleFits
  <2> QED
    BY <2>1, <2>2, <2>3
<1>8. ASSUME NEW s \in Calls, CreatedEffect(s)
      PROVE  Fits
  <2>1. ASSUME NEW d \in Calls PROVE CallFits(d)'
    BY <1>1, <1>2, <1>8 DEF CreatedEffect, OnlyChild, OnlyCall, CallFits, Grows
  <2>2. ASSUME NEW d \in Calls PROVE ChildFits(d)'
    BY <1>1, <1>8 DEF CreatedEffect, OnlyChild, ChildFits
  <2>3. HandleFits'
    BY <1>1, <1>2, <1>8 DEF CreatedEffect, HandleFits, CallFits, Grows
  <2> QED
    BY <2>1, <2>2, <2>3
<1>9. ASSUME NEW s \in Calls, NEW ended, NEW f, EndEffect(s, ended, f)
      PROVE  Fits
  <2>1. ASSUME NEW d \in Calls PROVE CallFits(d)'
    <3>1. child'[d].process = child[d].process
      BY <1>9 DEF EndEffect, OnlyChild
    <3>2. \/ call'[d] = call[d]
          \/ call'[d].pc = "settled" /\ call[d].pc # "idle"
      <4>1. \A r \in ended : Awaits(d, r) => call[d].pc # "idle"
        BY <1>9, ReqLemma DEF EndEffect, ShimInv, Balanced, Waiting, Awaits
      <4> QED
        BY <1>9, <4>1 DEF EndEffect, CallsEnd
    <3> QED
      BY <1>1, <1>2, <3>1, <3>2 DEF CallFits, Grows
  <2>2. ASSUME NEW d \in Calls PROVE ChildFits(d)'
    BY <1>1, <1>2, <1>9 DEF EndEffect, OnlyChild, ChildFits, Grows
  <2>3. HandleFits'
    BY <1>1, <1>2, <1>9 DEF EndEffect, HandleFits, Grows
  <2> QED
    BY <2>1, <2>2, <2>3
<1>10. ASSUME NEW s \in Calls, PipeEffect(s)
       PROVE  Fits
  <2>1. ASSUME NEW d \in Calls PROVE CallFits(d)'
    BY <1>1, <1>2, <1>10 DEF PipeEffect, OnlyChild, CallFits, Grows
  <2>2. ASSUME NEW d \in Calls PROVE ChildFits(d)'
    BY <1>1, <1>2, <1>10 DEF PipeEffect, OnlyChild, ChildFits, Grows
  <2>3. HandleFits'
    BY <1>1, <1>2, <1>10 DEF PipeEffect, HandleFits, Grows
  <2> QED
    BY <2>1, <2>2, <2>3
<1> QED
  BY <1>4, <1>5, <1>6, <1>7, <1>8, <1>9, <1>10 DEF StepEffect

\* What calls wait for on child s after a step.
LEMMA BalancedNext ==
  ASSUME ShimInv, StepEffect, NEW x \in Calls
  PROVE  Balanced(x)'
<1>1. /\ Balanced(x) /\ ChildFits(x) /\ child[x].pending \in Seq(Request)
      /\ Prompts \subseteq Calls /\ Probes \subseteq Calls
  BY Typed DEF ShimInv, Calls
<1>2. None \notin Calls
  BY AppleShimAssumption DEF AppleShimAssumption
\* A call that starts or goes on to its prompt waits for that request only.
<1>3. ASSUME NEW c \in Calls, OnlyCall(c)
      PROVE  \A r \in Request :
               r \in Waiting(x)' <=>
                 IF r.call = c THEN call'[c].pc = r.op /\ call'[c].shim = x
                 ELSE r \in Waiting(x)
  BY <1>3, ReqLemma DEF OnlyCall, Waiting, Awaits
<1>4. ASSUME NEW c \in Calls, NEW op \in {"create", "availability"}, SpawnEffect(c, op)
      PROVE  Balanced(x)'
  <2>1. \A r \in Waiting(x) : r.call # c
    BY <1>4, ReqLemma DEF Waiting, Awaits, SpawnEffect
  <2>2. CASE x # c
    <3>1. Waiting(x)' = Waiting(x)
      BY <1>3, <1>4, <2>1, <2>2 DEF SpawnEffect, Waiting
    <3>2. child'[x] = child[x]
      BY <1>4, <2>2 DEF SpawnEffect, OnlyChild
    <3> QED
      BY <1>1, <3>1, <3>2 DEF Balanced
  <2>3. CASE x = c
    <3>1. child[x].pending = <<>>
      BY <1>1, <1>4, <2>3 DEF SpawnEffect, ShimInv, CallFits, ChildFits
    <3>2. Waiting(x) = {}
      <4>1. ToSet(<<>>) = {}
        BY SMT DEF ToSet
      <4> QED
        BY <1>1, <3>1, <4>1 DEF Balanced
    <3>3. Waiting(x)' = IF call'[c].pc = "settled" THEN {} ELSE {Req(op, c)}
      BY <1>3, <1>4, <2>3, <3>2, ReqLemma DEF SpawnEffect, Waiting
    <3>4. /\ ToSet(<<>>) = {} /\ IsInjective(<<>>)
          /\ ToSet(<<Req(op, c)>>) = {Req(op, c)} /\ IsInjective(<<Req(op, c)>>)
      BY SMT DEF ToSet, IsInjective
    <3> QED
      BY <1>4, <2>3, <3>3, <3>4 DEF SpawnEffect, Balanced
  <2> QED
    BY <2>2, <2>3
<1>5. ASSUME NEW p \in Calls, PostEffect(handle, p)
      PROVE  Balanced(x)'
  <2> DEFINE r == Req("prompt", p)
  <2>1. r \in Request /\ r.call = p /\ r.op = "prompt" /\ \A q \in Waiting(x) : q.call # p
    BY <1>5, ReqLemma DEF Waiting, Awaits, PostEffect
  <2>2. CASE x # handle
    <3>1. Waiting(x)' = Waiting(x)
      BY <1>3, <1>5, <2>1, <2>2 DEF PostEffect, Waiting
    <3>2. child'[x] = child[x]
      BY <1>5, <2>2 DEF PostEffect, OnlyChild
    <3> QED
      BY <1>1, <3>1, <3>2 DEF Balanced
  <2>3. CASE x = handle
    <3>1. Waiting(x)' = Waiting(x) \cup {r}
      <4>1. \A q \in Request : q.call = p /\ q.op = "prompt" => q = r
        BY ReqLemma
      <4>2. \A q \in Waiting(x) \cup Waiting(x)' \cup {r} : q \in Request
        BY <2>1 DEF Waiting
      <4>3. OnlyCall(p) /\ call'[p].pc = "prompt" /\ call'[p].shim = x
        BY <1>5, <2>3 DEF PostEffect
      <4>4. \A q \in Request : q \in Waiting(x)' <=> q \in Waiting(x) \/ q = r
        BY <1>3, <2>1, <4>1, <4>3
      <4> QED
        BY <4>2, <4>4, Zenon
    <3>2. r \notin ToSet(child[x].pending)
      BY <1>1, <2>1 DEF Balanced
    <3>3. /\ ToSet(Append(child[x].pending, r)) = ToSet(child[x].pending) \cup {r}
          /\ IsInjective(Append(child[x].pending, r))
      BY <1>1, <2>1, <3>2, AppendLemma DEF Balanced
    <3> QED
      BY <1>1, <1>5, <2>3, <3>1, <3>3 DEF PostEffect, Balanced
  <2> QED
    BY <2>2, <2>3
<1>6. ASSUME NEW p \in Calls, RefusedEffect(p)
      PROVE  Balanced(x)'
  <2>1. \A q \in Waiting(x) : q.call # p
    BY <1>6, ReqLemma DEF Waiting, Awaits, RefusedEffect
  <2>2. Waiting(x)' = Waiting(x)
    BY <1>3, <1>6, <2>1, ReqLemma DEF RefusedEffect, Waiting
  <2> QED
    BY <1>1, <1>6, <2>2 DEF RefusedEffect, Balanced
<1>7. ASSUME DestroyEffect
      PROVE  Balanced(x)'
  <2>1. Waiting(x)' = Waiting(x)
    BY <1>7 DEF DestroyEffect, Waiting, Awaits
  <2> QED
    BY <1>1, <1>7, <2>1 DEF DestroyEffect, OnlyChild, SameBooks, Balanced
<1>8. ASSUME NEW s \in Calls, CreatedEffect(s)
      PROVE  Balanced(x)'
  <2> DEFINE r == Req("prompt", s)
             old == Req("create", s)
  <2>1. /\ r \in Request /\ r.call = s /\ r.op = "prompt"
        /\ old \in Request /\ old.call = s /\ old.op = "create"
    BY ReqLemma
  <2>2. CASE x # s
    <3>1. Waiting(x)' = Waiting(x)
      <4>1. \A q \in Waiting(x) : q.call # s
        BY <1>8, <2>2 DEF CreatedEffect, Waiting, ShimInv, CallFits
      <4> QED
        BY <1>3, <1>8, <2>2, <4>1 DEF CreatedEffect, Waiting
    <3>2. child'[x] = child[x]
      BY <1>8, <2>2 DEF CreatedEffect, OnlyChild
    <3> QED
      BY <1>1, <3>1, <3>2 DEF Balanced
  <2>3. CASE x = s
    <3>1. Waiting(x)' = (Waiting(x) \ {old}) \cup {r}
      <4>1. \A q \in Request : /\ q.call = s /\ q.op = "prompt" => q = r
                               /\ q.call = s /\ q.op = "create" => q = old
        BY ReqLemma
      <4>2. \A q \in Waiting(x) \cup Waiting(x)' \cup {r} : q \in Request
        BY <2>1 DEF Waiting
      <4>3. /\ OnlyCall(s) /\ call'[s].pc = "prompt" /\ call'[s].shim = x
            /\ call[s].pc = "create"
        BY <1>8, <2>3 DEF CreatedEffect
      <4>4. \A q \in Waiting(x) : q.call = s => q.op = "create"
        BY <4>3 DEF Waiting, Awaits
      <4>5. \A q \in Request :
              q \in Waiting(x)' <=> (q \in Waiting(x) /\ q # old) \/ q = r
        BY <1>3, <2>1, <4>1, <4>3, <4>4
      <4> QED
        BY <4>2, <4>5, Zenon
    <3>2. /\ child[x].pending # <<>> /\ Head(child[x].pending) = old
          /\ IsInjective(child[x].pending)
      BY <1>1, <1>8, <2>3 DEF CreatedEffect, Balanced
    <3>3. /\ ToSet(Tail(child[x].pending)) = ToSet(child[x].pending) \ {old}
          /\ IsInjective(Tail(child[x].pending))
          /\ Tail(child[x].pending) \in Seq(Request)
          /\ old \in ToSet(child[x].pending)
      BY <1>1, <3>2, TailLemma, HeadTailProperties
    <3>4. r \notin ToSet(child[x].pending)
      BY <1>1, <1>8, <2>1, <2>3 DEF CreatedEffect, Balanced, Waiting, Awaits
    <3>5. /\ ToSet(Append(Tail(child[x].pending), r)) =
               ToSet(Tail(child[x].pending)) \cup {r}
          /\ IsInjective(Append(Tail(child[x].pending), r))
      <4> DEFINE t == Tail(child[x].pending)
      <4>1. t \in Seq(Request) /\ IsInjective(t) /\ r \notin ToSet(t) /\ r \in Request
        BY <2>1, <3>3, <3>4
      <4> HIDE DEF t, r
      <4>2. ToSet(Append(t, r)) = ToSet(t) \cup {r} /\ IsInjective(Append(t, r))
        BY <4>1, AppendLemma
      <4> QED
        BY <4>2 DEF t
    <3>6. ~ child'[x].exited
      BY <1>1, <1>8, <2>3, <3>3 DEF CreatedEffect, Balanced
    <3>7. child[x].timers = Waiting(x) /\ ToSet(child[x].pending) = Waiting(x)
      BY <1>1 DEF Balanced
    <3> QED
      BY <1>8, <2>3, <3>1, <3>3, <3>5, <3>6, <3>7 DEF CreatedEffect, Balanced
  <2> QED
    BY <2>2, <2>3
<1>9. ASSUME NEW s \in Calls, NEW ended, NEW f, EndEffect(s, ended, f)
      PROVE  Balanced(x)'
  <2>1. ended \subseteq Waiting(s) /\ CallsEnd(ended, f)
    BY <1>9 DEF EndEffect, ShimInv, Balanced
  <2>2. \A q \in Request : Awaits(q.call, q)' <=> Awaits(q.call, q) /\ q \notin ended
    <3> SUFFICES ASSUME NEW q \in Request
                 PROVE  Awaits(q.call, q)' <=> Awaits(q.call, q) /\ q \notin ended
      OBVIOUS
    <3>1. q.call \in Calls /\ q.op # "settled"
      BY ReqLemma
    <3>2. CASE \E r \in ended : Awaits(q.call, r)
      <4>1. PICK r \in ended : Awaits(q.call, r)
        BY <3>2
      <4>2. r \in Request
        BY <2>1, <4>1 DEF Waiting
      <4>3. Awaits(q.call, q) => q = r
        BY <4>1, <4>2, ReqLemma DEF Awaits
      <4>4. call'[q.call].pc = "settled"
        BY <2>1, <3>1, <3>2 DEF CallsEnd
      <4> QED
        BY <3>1, <4>1, <4>3, <4>4 DEF Awaits
    <3>3. CASE ~ \E r \in ended : Awaits(q.call, r)
      <4>1. call'[q.call] = call[q.call]
        BY <2>1, <3>1, <3>3 DEF CallsEnd
      <4> QED
        BY <3>3, <4>1 DEF Awaits
    <3> QED
      BY <3>2, <3>3
  <2>3. Waiting(x)' = Waiting(x) \ ended
    <3>1. \A q \in Request : Awaits(q.call, q) => call'[q.call].shim = call[q.call].shim
      BY <2>1, ReqLemma DEF CallsEnd
    <3> QED
      BY <2>2, <3>1 DEF Waiting
  <2>4. CASE x # s
    <3>1. Waiting(x)' = Waiting(x)
      BY <2>1, <2>3, <2>4 DEF Waiting
    <3>2. child'[x] = child[x]
      BY <1>9, <2>4 DEF EndEffect, OnlyChild
    <3> QED
      BY <1>1, <3>1, <3>2 DEF Balanced
  <2>5. CASE x = s
    BY <1>1, <1>9, <2>3, <2>5 DEF EndEffect, Balanced
  <2> QED
    BY <2>4, <2>5
<1>10. ASSUME NEW s \in Calls, PipeEffect(s)
       PROVE  Balanced(x)'
  <2>1. Waiting(x)' = Waiting(x)
    BY <1>10 DEF PipeEffect, Waiting, Awaits
  <2> QED
    BY <1>1, <1>10, <2>1 DEF PipeEffect, OnlyChild, Balanced
<1> QED
  BY <1>4, <1>5, <1>6, <1>7, <1>8, <1>9, <1>10 DEF StepEffect

\* Request r is one that was posted to child s, after the step.
PostedNext(r, s) ==
  /\ call'[r.call].shim = s
  /\ \/ call'[r.call].pc \in {r.op, "settled"}
     \/ r.op = "create" /\ call'[r.call].pc = "prompt"

\* A request that was posted stays one.
LEMMA PostedStays ==
  ASSUME ShimInv, StepEffect, NEW s \in Calls, NEW r \in Request, Posted(r, s)
  PROVE  PostedNext(r, s)
<1> DEFINE c == r.call
<1>1. c \in Calls /\ r.op \in {"create", "prompt", "availability"}
  BY ReqLemma
<1>2. Grows /\ call[c].pc # "idle" /\ call[c].shim = s
  BY <1>1, StepsGrow DEF Posted
<1>3. call'[c].shim = s
  BY <1>1, <1>2 DEF Grows
<1>4. \/ call'[c].pc = call[c].pc
      \/ call'[c].pc = "settled"
      \/ call[c].pc = "create" /\ call'[c].pc = "prompt"
  <2>1. ASSUME NEW p \in Calls, OnlyCall(p), p # c
        PROVE  call'[c].pc = call[c].pc
    BY <1>1, <2>1 DEF OnlyCall
  <2>2. ASSUME NEW p \in Calls, NEW op \in {"create", "availability"}, SpawnEffect(p, op)
        PROVE  call'[c].pc = call[c].pc
    BY <1>2, <2>1, <2>2 DEF SpawnEffect
  <2>3. ASSUME NEW p \in Calls, PostEffect(handle, p) \/ RefusedEffect(p)
        PROVE  call'[c].pc = call[c].pc
    BY <1>2, <2>1, <2>3 DEF PostEffect, RefusedEffect
  <2>4. ASSUME DestroyEffect
        PROVE  call'[c].pc = call[c].pc
    BY <2>4 DEF DestroyEffect
  <2>5. ASSUME NEW q \in Calls, CreatedEffect(q)
        PROVE  call'[c].pc = call[c].pc \/ (call[c].pc = "create" /\ call'[c].pc = "prompt")
    BY <2>1, <2>5 DEF CreatedEffect
  <2>6. ASSUME NEW q \in Calls, NEW ended, NEW f, EndEffect(q, ended, f)
        PROVE  call'[c].pc \in {call[c].pc, "settled"}
    BY <1>1, <2>6 DEF EndEffect, CallsEnd
  <2>7. ASSUME NEW q \in Calls, PipeEffect(q)
        PROVE  call'[c].pc = call[c].pc
    BY <2>7 DEF PipeEffect
  <2> QED
    BY <1>2, <2>2, <2>3, <2>4, <2>5, <2>6, <2>7 DEF StepEffect
<1> QED
  BY <1>1, <1>2, <1>3, <1>4 DEF Posted, PostedNext

LEMMA WrittenNext ==
  ASSUME ShimInv, StepEffect, NEW x \in Calls
  PROVE  Written(x)'
<1> DEFINE In(r) == PostedNext(r, x)
<1>1. /\ Written(x) /\ child[x].stdin \in Seq(Request)
      /\ child[x].stdout \in Seq([request : Request, answer : Answer])
  BY Typed DEF ShimInv
<1>2. /\ \A i \in 1 .. Len(child[x].stdin) :
           child[x].stdin[i] \in Request /\ In(child[x].stdin[i])
      /\ \A i \in 1 .. Len(child[x].stdout) :
           child[x].stdout[i].request \in Request /\ In(child[x].stdout[i].request)
  <2>1. /\ \A i \in 1 .. Len(child[x].stdin) : child[x].stdin[i] \in Request
        /\ \A i \in 1 .. Len(child[x].stdout) : child[x].stdout[i].request \in Request
    <3>1. \A i \in 1 .. Len(child[x].stdin) : child[x].stdin[i] \in Request
      BY <1>1, ElementOfSeq
    <3>2. \A i \in 1 .. Len(child[x].stdout) :
            child[x].stdout[i] \in [request : Request, answer : Answer]
      BY <1>1, ElementOfSeq
    <3> QED
      BY <3>1, <3>2
  <2> QED
    BY <1>1, <2>1, PostedStays DEF Written
<1>3. CASE child'[x] = child[x]
  BY <1>2, <1>3 DEF Written, Posted, PostedNext
\* A request that is posted now is one.
<1>4. ASSUME NEW r \in Request, In(r),
             child'[x].stdin = Append(child[x].stdin, r),
             \A i \in 1 .. Len(child'[x].stdout) :
               \E j \in 1 .. Len(child[x].stdout) : child'[x].stdout[i] = child[x].stdout[j]
      PROVE  Written(x)'
  <2>1. \A i \in 1 .. Len(child'[x].stdin) :
          \/ i \in 1 .. Len(child[x].stdin) /\ child'[x].stdin[i] = child[x].stdin[i]
          \/ child'[x].stdin[i] = r
    BY <1>1, <1>4, SMT
  <2> HIDE DEF In
  <2>2. \A i \in 1 .. Len(child'[x].stdin) : In(child'[x].stdin[i])
    BY <1>2, <1>4, <2>1
  <2>3. \A i \in 1 .. Len(child'[x].stdout) : In(child'[x].stdout[i].request)
    BY <1>2, <1>4
  <2> QED
    BY <2>2, <2>3 DEF Written, Posted, PostedNext, In
<1>5. ASSUME \A i \in 1 .. Len(child'[x].stdin) :
               \E j \in 1 .. Len(child[x].stdin) : child'[x].stdin[i] = child[x].stdin[j],
             \A i \in 1 .. Len(child'[x].stdout) :
               \/ \E j \in 1 .. Len(child[x].stdout) :
                    child'[x].stdout[i] = child[x].stdout[j]
               \/ \E j \in 1 .. Len(child[x].stdin) :
                    child'[x].stdout[i].request = child[x].stdin[j]
      PROVE  Written(x)'
  <2> HIDE DEF In
  <2>1. \A i \in 1 .. Len(child'[x].stdin) : In(child'[x].stdin[i])
    BY <1>2, <1>5
  <2>2. \A i \in 1 .. Len(child'[x].stdout) : In(child'[x].stdout[i].request)
    BY <1>2, <1>5
  <2> QED
    BY <2>1, <2>2 DEF Written, Posted, PostedNext, In
<1>6. ASSUME NEW c \in Calls, NEW op \in {"create", "availability"}, SpawnEffect(c, op)
      PROVE  Written(x)'
  <2>1. CASE x # c
    BY <1>3, <1>6, <2>1 DEF SpawnEffect, OnlyChild
  <2>2. CASE x = c /\ call'[c].pc = "settled"
    <3>1. child'[x].stdin = <<>> /\ child'[x].stdout = <<>>
      BY <1>6, <2>2 DEF SpawnEffect
    <3>2. Len(<<>>) = 0 /\ \A i : i \notin 1 .. 0
      BY EmptySeq, SMT
    <3> QED
      BY <3>1, <3>2, Zenon DEF Written
  <2>3. CASE x = c /\ call'[c].pc = op
    <3> DEFINE r == Req(op, c)
    <3>1. child'[x].stdin = <<r>> /\ child'[x].stdout = <<>> /\ call'[c].shim = x
      BY <1>6, <2>3 DEF SpawnEffect
    <3>2. r \in Request /\ r.call = c /\ r.op = op
      BY ReqLemma
    <3>3. In(r)
      BY <2>3, <3>1, <3>2 DEF PostedNext
    <3>4. child[x].stdin = <<>>
      BY <1>6, <2>3 DEF SpawnEffect, ShimInv, CallFits, ChildFits
    <3>5. <<r>> = Append(<<>>, r) /\ Len(<<>>) = 0 /\ \A i : i \notin 1 .. 0
      BY EmptySeq, SMT
    <3> HIDE DEF r, In
    <3> QED
      BY <1>4, <3>1, <3>2, <3>3, <3>4, <3>5
  <2> QED
    BY <1>6, <2>1, <2>2, <2>3 DEF SpawnEffect
<1>7. ASSUME NEW p \in Calls, PostEffect(handle, p)
      PROVE  Written(x)'
  <2>1. CASE x # handle
    BY <1>3, <1>7, <2>1 DEF PostEffect, OnlyChild
  <2>2. CASE x = handle
    <3> DEFINE r == Req("prompt", p)
    <3>1. r \in Request /\ r.call = p /\ r.op = "prompt"
      BY ReqLemma
    <3>2. In(r)
      BY <1>7, <2>2, <3>1 DEF PostEffect, PostedNext
    <3> HIDE DEF r
    <3> QED
      BY <1>4, <1>7, <2>2, <3>1, <3>2 DEF PostEffect, r
  <2> QED
    BY <2>1, <2>2
<1>8. ASSUME NEW p \in Calls, RefusedEffect(p)
      PROVE  Written(x)'
  BY <1>3, <1>8 DEF RefusedEffect
<1>9. ASSUME DestroyEffect
      PROVE  Written(x)'
  <2>1. child'[x].stdin = child[x].stdin /\ child'[x].stdout = child[x].stdout
    BY <1>9 DEF DestroyEffect, OnlyChild, SameBooks
  <2> QED
    BY <1>5, <2>1
<1>10. ASSUME NEW s \in Calls, CreatedEffect(s)
       PROVE  Written(x)'
  <2>1. CASE x # s
    BY <1>3, <1>10, <2>1 DEF CreatedEffect, OnlyChild
  <2>2. CASE x = s
    <3> DEFINE r == Req("prompt", s)
    <3>1. r \in Request /\ r.call = s /\ r.op = "prompt"
      BY ReqLemma
    <3>2. In(r)
      BY <1>10, <2>2, <3>1 DEF CreatedEffect, PostedNext
    <3>3. \A i \in 1 .. Len(child'[x].stdout) :
            \E j \in 1 .. Len(child[x].stdout) : child'[x].stdout[i] = child[x].stdout[j]
      <4>1. child[x].stdout # <<>> /\ child'[x].stdout = Tail(child[x].stdout)
        BY <1>10, <2>2 DEF CreatedEffect
      <4>2. \A i \in 1 .. Len(Tail(child[x].stdout)) :
              /\ i + 1 \in 1 .. Len(child[x].stdout)
              /\ Tail(child[x].stdout)[i] = child[x].stdout[i + 1]
        BY <1>1, <4>1, SMT
      <4> QED
        BY <4>1, <4>2
    <3> HIDE DEF r
    <3> QED
      BY <1>4, <1>10, <2>2, <3>1, <3>2, <3>3 DEF CreatedEffect, r
  <2> QED
    BY <2>1, <2>2
<1>11. ASSUME NEW s \in Calls, NEW ended, NEW f, EndEffect(s, ended, f)
       PROVE  Written(x)'
  <2>1. CASE x # s
    BY <1>3, <1>11, <2>1 DEF EndEffect, OnlyChild
  <2>2. CASE x = s
    BY <1>5, <1>11, <2>2 DEF EndEffect
  <2> QED
    BY <2>1, <2>2
<1>12. ASSUME NEW s \in Calls, PipeEffect(s)
       PROVE  Written(x)'
  <2>1. CASE x # s
    BY <1>3, <1>12, <2>1 DEF PipeEffect, OnlyChild
  <2>2. CASE x = s
    BY <1>5, <1>12, <2>2 DEF PipeEffect
  <2> QED
    BY <2>1, <2>2
<1> QED
  BY <1>6, <1>7, <1>8, <1>9, <1>10, <1>11, <1>12 DEF StepEffect

LEMMA TimedOutStays ==
  ASSUME ShimInv, StepEffect, NEW s, TimedOut(s)
  PROVE  TimedOut(s)'
<1>1. PICK q \in Calls : call[q].result = "timedout" /\ call[q].shim = s
  BY DEF TimedOut
<1>2. call[q].pc = "settled"
  BY <1>1, AppleShimAssumption, Typed DEF AppleShimAssumption, Failures
<1>3. call'[q] = call[q]
  BY <1>2, StepsGrow DEF Grows
<1> QED
  BY <1>1, <1>3 DEF TimedOut

\* A request that is no line's is posted to an ordered child.
LEMMA OrderedPost ==
  ASSUME NEW x \in ChildState, NEW y \in ChildState, NEW r \in Request, Ordered(x),
         y.stdin = Append(x.stdin, r), y.pending = Append(x.pending, r),
         y.stdout = x.stdout, y.process = x.process,
         \A i \in 1 .. Len(x.stdout) : x.stdout[i].request # r
  PROVE  Ordered(y)
<1> DEFINE n == Len(x.stdout)
           a == Len(x.stdin)
           b == Len(x.pending)
<1>1. /\ x.stdout \in Seq([request : Request, answer : Answer])
      /\ x.pending \in Seq(Request) /\ x.stdin \in Seq(Request)
  BY DEF ChildState
<1>2. /\ n \in Nat /\ a \in Nat /\ b \in Nat
      /\ Len(y.stdin) = a + 1 /\ y.stdin[a + 1] = r
      /\ \A i \in 1 .. a : y.stdin[i] = x.stdin[i]
      /\ Len(y.pending) = b + 1 /\ y.pending[b + 1] = r
      /\ \A i \in 1 .. b : y.pending[i] = x.pending[i]
  BY <1>1, SMT
<1>3. /\ \A i \in 1 .. n : i <= b /\ x.stdout[i].request = x.pending[i]
      /\ x.process = "running" =>
           b = n + a /\ \A j \in 1 .. a : x.pending[n + j] = x.stdin[j]
      /\ x.process = "gone" =>
           \A j \in 1 .. a, i \in 1 .. n : x.stdout[i].request # x.stdin[j]
  BY DEF Ordered
<1>4. Len(y.stdout) = n
  OBVIOUS
<1> HIDE DEF n, a, b
<1>5. \A j \in 1 .. a + 1 : j \in 1 .. a \/ j = a + 1
  BY <1>2, SMT
<1>6. ASSUME NEW i \in 1 .. n
      PROVE  i <= b + 1 /\ y.stdout[i].request = y.pending[i]
  <2>1. i <= b + 1 /\ i \in 1 .. b
    BY <1>2, <1>3, SMT
  <2> QED
    BY <1>2, <1>3, <2>1
<1>7. ASSUME x.process = "running"
      PROVE  /\ b + 1 = n + (a + 1)
             /\ \A j \in 1 .. a + 1 : y.pending[n + j] = y.stdin[j]
  <2>1. b = n + a /\ \A j \in 1 .. a : x.pending[n + j] = x.stdin[j]
    BY <1>3, <1>7
  <2>2. b + 1 = n + (a + 1)
    BY <1>2, <2>1, SMT
  <2>3. \A j \in 1 .. a : n + j \in 1 .. b
    BY <1>2, <2>1, SMT
  <2> QED
    BY <1>2, <1>5, <2>1, <2>2, <2>3
<1>8. ASSUME x.process = "gone", NEW j \in 1 .. a + 1, NEW i \in 1 .. n
      PROVE  y.stdout[i].request # y.stdin[j]
  BY <1>2, <1>3, <1>5, <1>8 DEF n
<1> QED
  BY <1>2, <1>4, <1>6, <1>7, <1>8 DEF Ordered

LEMMA OrderedNext ==
  ASSUME ShimInv, StepEffect, NEW x \in Calls
  PROVE  (TimedOut(x) \/ Ordered(child[x]))'
<1>1. CASE TimedOut(x)
  BY <1>1, TimedOutStays
<1> SUFFICES ASSUME ~ TimedOut(x) PROVE TimedOut(x)' \/ Ordered(child'[x])
  BY <1>1
<1>2. /\ Ordered(child[x]) /\ child[x] \in ChildState /\ child'[x] \in ChildState
      /\ Written(x) /\ Prompts \subseteq Calls
  BY Typed, StepsGrow DEF ShimInv, Grows, Calls
<1>3. ASSUME NEW c \in Calls, NEW op \in {"create", "availability"}, SpawnEffect(c, op)
      PROVE  Ordered(child'[x])
  <2>1. CASE x # c
    BY <1>2, <1>3, <2>1 DEF SpawnEffect, OnlyChild
  <2>2. CASE x = c
    <3> DEFINE r == Req(op, c)
    <3>1. /\ Len(<<>>) = 0 /\ \A i : i \notin 1 .. 0
          /\ Len(<<r>>) = 1 /\ 1 = 0 + 1 /\ \A i \in 1 .. 1 : 0 + i = i
      BY EmptySeq, SMT
    <3>2. /\ child'[x].stdout = <<>>
          /\ \/ child'[x].stdin = <<r>> /\ child'[x].pending = <<r>>
             \/ child'[x].process = "gone"
      BY <1>3, <2>2 DEF SpawnEffect
    <3> HIDE DEF r
    <3> QED
      BY <3>1, <3>2 DEF Ordered
  <2> QED
    BY <2>1, <2>2
<1>4. ASSUME NEW p \in Calls, PostEffect(handle, p)
      PROVE  Ordered(child'[x])
  <2>1. CASE x # handle
    BY <1>2, <1>4, <2>1 DEF PostEffect, OnlyChild
  <2>2. CASE x = handle
    <3> DEFINE r == Req("prompt", p)
    <3>1. r \in Request /\ r.call = p /\ r.op = "prompt"
      BY ReqLemma
    <3> HIDE DEF r
    <3>2. ASSUME NEW i \in 1 .. Len(child[x].stdout), child[x].stdout[i].request = r
          PROVE  FALSE
      <4>1. Posted(r, x)
        BY <1>2, <3>2 DEF Written
      <4>2. call[p].pc = "idle"
        BY <1>4 DEF PostEffect
      <4> QED
        BY <3>1, <4>1, <4>2 DEF Posted
    <3>3. /\ child'[x].stdin = Append(child[x].stdin, r)
          /\ child'[x].pending = Append(child[x].pending, r)
          /\ child'[x].stdout = child[x].stdout
          /\ child'[x].process = child[x].process
      BY <1>4, <2>2 DEF PostEffect, r
    <3> QED
      BY <1>2, <3>1, <3>2, <3>3, OrderedPost
  <2> QED
    BY <2>1, <2>2
<1>5. ASSUME NEW p \in Calls, RefusedEffect(p)
      PROVE  Ordered(child'[x])
  BY <1>2, <1>5 DEF RefusedEffect
<1>6. ASSUME DestroyEffect
      PROVE  Ordered(child'[x])
  <2>1. /\ child'[x].process = child[x].process /\ child'[x].stdin = child[x].stdin
        /\ child'[x].stdout = child[x].stdout /\ child'[x].pending = child[x].pending
    BY <1>6 DEF DestroyEffect, OnlyChild, SameBooks
  <2> QED
    BY <1>2, <2>1 DEF Ordered
<1>7. ASSUME NEW s \in Calls, CreatedEffect(s)
      PROVE  Ordered(child'[x])
  <2>1. CASE x # s
    BY <1>2, <1>7, <2>1 DEF CreatedEffect, OnlyChild
  <2>2. CASE x = s
    <3> DEFINE r == Req("prompt", s)
               z == Shifted(s)
    <3>1. child[s].stdout # <<>> /\ child[s].pending # <<>> /\ call[s].pc = "create"
      BY <1>7 DEF CreatedEffect
    <3>2. /\ z \in ChildState /\ Ordered(z) /\ z.process = child[s].process
          /\ z.stdin = child[s].stdin /\ z.stdout = Tail(child[s].stdout)
          /\ z.pending = Tail(child[s].pending)
          /\ \A i \in 1 .. Len(z.stdout) :
               \E j \in 1 .. Len(child[s].stdout) : z.stdout[i] = child[s].stdout[j]
      BY <1>2, <2>2, <3>1, ShiftedFields
    <3> HIDE DEF z
    <3>3. r \in Request /\ r.call = s /\ r.op = "prompt"
      BY ReqLemma
    <3> HIDE DEF r
    <3>4. ASSUME NEW i \in 1 .. Len(child[s].stdout), child[s].stdout[i].request = r
          PROVE  FALSE
      <4>1. Posted(r, s)
        BY <1>2, <2>2, <3>4 DEF Written
      <4> QED
        BY <3>1, <3>3, <4>1 DEF Posted
    <3> USE DEF r
    <3>5. \A i \in 1 .. Len(z.stdout) : z.stdout[i].request # r
      BY <3>2, <3>4
    <3>6. /\ child'[x].stdin = Append(z.stdin, r)
          /\ child'[x].pending = Append(z.pending, r)
          /\ child'[x].stdout = z.stdout
          /\ child'[x].process = z.process
      BY <1>7, <2>2, <3>2 DEF CreatedEffect
    <3> HIDE DEF r
    <3> QED
      BY <1>2, <3>2, <3>3, <3>5, <3>6, OrderedPost
  <2> QED
    BY <2>1, <2>2
<1>8. ASSUME NEW s \in Calls, NEW ended, NEW f, EndEffect(s, ended, f)
      PROVE  TimedOut(x)' \/ Ordered(child'[x])
  <2>1. CASE x # s
    BY <1>2, <1>8, <2>1 DEF EndEffect, OnlyChild
  <2>2. CASE x = s
    <3>1. ASSUME NEW r \in ended, f[r.call] = "timedout"
          PROVE  TimedOut(x)'
      <4>1. r \in Request /\ Awaits(r.call, r) /\ call[r.call].shim = s
        BY <1>8 DEF EndEffect, ShimInv, Balanced, Waiting
      <4>2. r.call \in Calls
        BY <4>1, ReqLemma
      <4>3. call'[r.call].result = "timedout" /\ call'[r.call].shim = s
        BY <1>8, <3>1, <4>1, <4>2 DEF EndEffect, CallsEnd
      <4> QED
        BY <2>2, <4>2, <4>3 DEF TimedOut
    <3> QED
      BY <1>8, <2>2, <3>1 DEF EndEffect
  <2> QED
    BY <2>1, <2>2
<1>9. ASSUME NEW s \in Calls, PipeEffect(s)
      PROVE  Ordered(child'[x])
  <2>1. CASE x # s
    BY <1>2, <1>9, <2>1 DEF PipeEffect, OnlyChild
  <2>2. CASE x = s
    BY <1>9, <2>2 DEF PipeEffect
  <2> QED
    BY <2>1, <2>2
<1> QED
  BY <1>3, <1>4, <1>5, <1>6, <1>7, <1>8, <1>9 DEF StepEffect

LEMMA MatchedNext ==
  ASSUME ShimInv, StepEffect, NEW c \in Calls
  PROVE  Matched(c)'
<1>1. Grows /\ Matched(c) /\ (call[c].result # None => call[c].pc = "settled")
  BY StepsGrow, Typed DEF ShimInv
<1>2. "failed" \notin Calls /\ None \notin Calls
  BY AppleShimAssumption DEF AppleShimAssumption, Failures
<1>3. CASE call'[c] = call[c]
  <2>1. ASSUME NEW s, TimedOut(s)
        PROVE  \E q \in Calls : call'[q].result = "timedout" /\ call'[q].shim = s
    BY <2>1, TimedOutStays DEF TimedOut
  <2> QED
    BY <1>1, <1>3, <2>1 DEF Matched, TimedOut
<1>4. CASE call'[c].result \notin Calls
  BY <1>4 DEF Matched
<1>5. ASSUME NEW s \in Calls, NEW ended, NEW f, EndEffect(s, ended, f),
             call'[c] # call[c]
      PROVE  Matched(c)'
  <2>1. PICK r \in ended : Awaits(c, r)
    BY <1>5 DEF EndEffect, CallsEnd
  <2>2. r.call = c /\ call[c].shim = s
    BY <1>5, <2>1 DEF EndEffect, ShimInv, Balanced, Waiting, Awaits
  <2>3. call'[c].result = f[c] /\ call'[c].shim = s
    BY <1>5, <2>1, <2>2 DEF EndEffect, CallsEnd
  <2>4. f[c] \in Calls => f[c] = c \/ TimedOut(s)
    BY <1>5, <2>1, <2>2 DEF EndEffect
  <2>5. TimedOut(s) => \E q \in Calls : call'[q].result = "timedout" /\ call'[q].shim = s
    BY TimedOutStays DEF TimedOut
  <2> QED
    BY <2>3, <2>4, <2>5 DEF Matched, TimedOut
<1>6. \/ call'[c] = call[c]
      \/ call'[c].result \in {None, "failed"}
      \/ \E s \in Calls : \E ended, f : EndEffect(s, ended, f)
  BY DEF StepEffect, SpawnEffect, PostEffect, RefusedEffect, DestroyEffect,
     CreatedEffect, PipeEffect, OnlyCall
<1> QED
  BY <1>2, <1>3, <1>4, <1>5, <1>6

LEMMA OwnedNext ==
  ASSUME ShimInv, StepEffect, NEW x \in Calls
  PROVE  Owned(x)'
<1>1. /\ Grows /\ Owned(x) /\ CallFits(x) /\ ChildFits(x) /\ Prompts \subseteq Calls
      /\ call[x].result # None => call[x].pc = "settled"
      /\ child[x].process \in {"none", "running", "gone"} /\ child[x].killed \in BOOLEAN
  BY StepsGrow, Typed DEF ShimInv, Calls
<1>2. None \notin Calls /\ "unreadable" # None
  BY AppleShimAssumption DEF AppleShimAssumption, Failures
\* What a step leaves alone keeps its owner.
<1>3. ASSUME child[x].process = "running" /\ ~ child[x].killed,
             handle = x => handle' = x \/ \E c \in Prompts : call'[c].displaced = x,
             call[x].pc \in {"create", "availability"} =>
               \/ call'[x].pc \in {"create", "availability"}
               \/ handle' = x
               \/ call'[x].result = "unreadable" /\ x \in Prompts
      PROVE  Owned(x)'
  <2>1. call[x].result = "unreadable" => call'[x].result = "unreadable"
    BY <1>1, <1>2 DEF Grows
  <2>2. ASSUME NEW c \in Prompts, call[c].displaced = x
        PROVE  call'[c].displaced = x
    BY <1>1, <1>2, <2>2 DEF Grows
  <2>3. \/ handle = x
        \/ call[x].pc \in {"create", "availability"}
        \/ call[x].result = "unreadable" /\ x \in Prompts
        \/ \E c \in Prompts : call[c].displaced = x
    BY <1>1, <1>3 DEF Owned
  <2> QED
    BY <1>3, <2>1, <2>2, <2>3 DEF Owned
<1> SUFFICES ASSUME child'[x].process = "running", ~ child'[x].killed
             PROVE  Owned(x)'
  BY DEF Owned
<1>4. ASSUME NEW c \in Calls, NEW op \in {"create", "availability"}, SpawnEffect(c, op)
      PROVE  Owned(x)'
  <2>1. CASE x # c
    <3>1. child'[x] = child[x] /\ call'[x] = call[x] /\ handle' = handle
      BY <1>4, <2>1 DEF SpawnEffect, OnlyChild, OnlyCall
    <3> QED
      BY <1>3, <3>1
  <2>2. CASE x = c
    BY <1>4, <2>2 DEF SpawnEffect, Owned
  <2> QED
    BY <2>1, <2>2
<1>5. ASSUME NEW p \in Calls, PostEffect(handle, p)
      PROVE  Owned(x)'
  <2>1. child[x].process = "running" /\ ~ child[x].killed /\ handle' = handle
    BY <1>5 DEF PostEffect, OnlyChild
  <2>2. x # p => call'[x] = call[x]
    BY <1>5 DEF PostEffect, OnlyCall
  <2>3. x = p => call[x].pc = "idle"
    BY <1>5 DEF PostEffect
  <2> QED
    BY <1>3, <2>1, <2>2, <2>3
<1>6. ASSUME NEW p \in Calls, RefusedEffect(p)
      PROVE  Owned(x)'
  <2>1. child[x].process = "running" /\ ~ child[x].killed /\ handle' = handle
    BY <1>6 DEF RefusedEffect
  <2>2. x # p => call'[x] = call[x]
    BY <1>6 DEF RefusedEffect, OnlyCall
  <2>3. x = p => call[x].pc = "idle"
    BY <1>6 DEF RefusedEffect
  <2> QED
    BY <1>3, <2>1, <2>2, <2>3
<1>7. ASSUME DestroyEffect
      PROVE  Owned(x)'
  <2>1. CASE handle = x
    BY <1>1, <1>2, <1>7, <2>1 DEF DestroyEffect, SameBooks
  <2>2. CASE handle # x
    <3>1. child'[x] = child[x] /\ call' = call
      BY <1>7, <2>2 DEF DestroyEffect, OnlyChild
    <3> QED
      BY <1>3, <2>2, <3>1
  <2> QED
    BY <2>1, <2>2
<1>8. ASSUME NEW s \in Calls, CreatedEffect(s)
      PROVE  Owned(x)'
  <2>1. /\ child[x].process = "running" /\ ~ child[x].killed
        /\ handle' = s /\ s \in Prompts /\ call'[s].displaced = handle
        /\ x # s => call'[x] = call[x]
    BY <1>8 DEF CreatedEffect, OnlyChild, OnlyCall
  <2> QED
    BY <1>3, <2>1
<1>9. ASSUME NEW s \in Calls, NEW ended, NEW f, EndEffect(s, ended, f)
      PROVE  Owned(x)'
  <2>1. child[x].process = "running" /\ ~ child[x].killed /\ handle' = handle
    BY <1>9 DEF EndEffect, OnlyChild
  <2>2. ASSUME call[x].pc \in {"create", "availability"}, call'[x] # call[x]
        PROVE  call'[x].result = "unreadable" /\ x \in Prompts
    <3>1. PICK r \in ended : Awaits(x, r)
      BY <1>9, <2>2 DEF EndEffect, CallsEnd
    <3>2. r.call = x /\ r.op = call[x].pc /\ call[x].shim = s
      BY <1>9, <3>1 DEF EndEffect, ShimInv, Balanced, Waiting, Awaits
    <3>3. x = s
      BY <1>1, <2>2, <3>2 DEF CallFits
    <3>4. r.op = "create" /\ f[x] = "unreadable"
      BY <1>9, <2>2, <3>1, <3>2, <3>3 DEF EndEffect
    <3>5. call'[x].result = f[x]
      BY <1>9, <3>1 DEF EndEffect, CallsEnd
    <3> QED
      BY <1>1, <3>2, <3>4, <3>5 DEF CallFits
  <2> QED
    BY <1>3, <2>1, <2>2
<1>10. ASSUME NEW s \in Calls, PipeEffect(s)
       PROVE  Owned(x)'
  <2>1. child[x].process = "running" /\ ~ child[x].killed /\ handle' = handle /\ call' = call
    BY <1>10 DEF PipeEffect, OnlyChild
  <2> QED
    BY <1>3, <2>1
<1> QED
  BY <1>4, <1>5, <1>6, <1>7, <1>8, <1>9, <1>10 DEF StepEffect

LEMMA ShimInvNext ==
  ASSUME ShimInv, [Next]_vars
  PROVE  ShimInv'
<1>1. CASE UNCHANGED vars
  <2>1. handle' = handle /\ destroyed' = destroyed /\ call' = call /\ child' = child
    BY <1>1 DEF vars
  <2>2. TypeOK' /\ HandleFits'
    BY <2>1 DEF ShimInv, TypeOK, HandleFits
  <2>3. ASSUME NEW s \in Calls
        PROVE  CallFits(s)' /\ ChildFits(s)' /\ Owned(s)'
    BY <2>1 DEF ShimInv, CallFits, ChildFits, Owned
  <2>4. ASSUME NEW s \in Calls
        PROVE  Balanced(s)'
    <3>1. Waiting(s)' = Waiting(s)
      BY <2>1 DEF Waiting, Awaits
    <3> QED
      BY <2>1, <3>1 DEF ShimInv, Balanced
  <2>5. ASSUME NEW s \in Calls
        PROVE  Written(s)'
    <3>1. \A r : Posted(r, s)' <=> Posted(r, s)
      BY <2>1 DEF Posted
    <3> QED
      BY <2>1, <3>1 DEF ShimInv, Written
  <2>6. ASSUME NEW s \in Calls
        PROVE  (TimedOut(s) \/ Ordered(child[s]))' /\ Matched(s)'
    <3>1. \A q : TimedOut(q)' <=> TimedOut(q)
      BY <2>1 DEF TimedOut
    <3>2. Ordered(child[s])' <=> Ordered(child[s])
      BY <2>1
    <3> QED
      BY <2>1, <3>1, <3>2 DEF ShimInv, Matched
  <2> QED
    BY <2>2, <2>3, <2>4, <2>5, <2>6 DEF ShimInv
<1>2. CASE Next
  <2>1. StepEffect /\ destroyed' \in BOOLEAN
    BY <1>2, StepGives
  <2>2. TypeOK'
    BY <2>1, StepsGrow DEF Grows, TypeOK
  <2>3. /\ \A c \in Calls : CallFits(c)'
        /\ \A s \in Calls : ChildFits(s)'
        /\ HandleFits'
    BY <2>1, FitsNext
  <2>4. \A s \in Calls : Balanced(s)'
    BY <2>1, BalancedNext
  <2>5. \A s \in Calls : Written(s)'
    BY <2>1, WrittenNext
  <2>6. \A s \in Calls : (TimedOut(s) \/ Ordered(child[s]))'
    BY <2>1, OrderedNext
  <2>7. \A c \in Calls : Matched(c)'
    BY <2>1, MatchedNext
  <2>8. \A s \in Calls : Owned(s)'
    BY <2>1, OwnedNext
  <2> QED
    BY <2>2, <2>3, <2>4, <2>5, <2>6, <2>7, <2>8 DEF ShimInv
<1> QED
  BY <1>1, <1>2

LEMMA ShimInvHolds == Spec => []ShimInv
<1>1. Init => ShimInv
  BY ShimInvInit
<1>2. ShimInv /\ [Next]_vars => ShimInv'
  BY ShimInvNext
<1> QED
  BY <1>1, <1>2, PTL DEF Spec

----------------------------------------------------------------------------

\* The host's books balance: what is pending on a child, each entry with its
\* timer, is what calls wait for on it (request, its data handler, its timer,
\* its write callback and failAll each undo a part).
THEOREM ShimBooksBalance == Spec => []PendingIsAwaited
<1>1. ShimInv => PendingIsAwaited
  BY ShimInvMeans
<1> QED
  BY <1>1, ShimInvHolds, PTL

\* The reply a prompt comes back with is its own, unless another request of its
\* child has timed out: the data handler's pending.shift() meets the lines in
\* the order of the requests.
THEOREM ShimRepliesMatch == Spec => []RepliesMatchPrompts
<1>1. ShimInv => RepliesMatchPrompts
  BY ShimInvMeans
<1> QED
  BY <1>1, ShimInvHolds, PTL

\* No child runs on unknown to its session but those of the two leaks: a create
\* reply that is no JSON, and a handle that a second first prompt replaced.
THEOREM ShimChildrenAreOwned == Spec => []ChildrenAreOwned
<1>1. ShimInv => ChildrenAreOwned
  BY ShimInvMeans
<1> QED
  BY <1>1, ShimInvHolds, PTL

=============================================================================
