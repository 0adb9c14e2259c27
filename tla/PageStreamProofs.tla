-------------------------- MODULE PageStreamProofs --------------------------
(***************************************************************************)
(* Proofs about one streamed reply of a Chrome page.                       *)
(*                                                                         *)
(* The readers' side is a queue: reader n is to get chunk n, so that the   *)
(* numbers of the calls, of the chunks that wait and of the readers that   *)
(* wait tell how many chunks were delivered.  The page's side emits one    *)
(* payload at a time.  StreamInv ties the two together: until an end was   *)
(* delivered, what the readers and the queue have got is what the page has *)
(* produced, but for the one chunk that is on its way.                     *)
(***************************************************************************)
EXTENDS PageStream, SequenceTheorems, TLAPS

StreamTypes ==
  /\ called \in 0 .. MaxReaders
  /\ got \in [Readers -> Payloads \cup {None}]
  /\ buffered \in Seq(Payloads) /\ pending \in Seq(Readers)
  /\ terminal \in Ends \cup {None}
  /\ produced \in 0 .. MaxChunks

\* What is buffered is for the calls to come, who waits are the last calls.
QueueFits ==
  /\ \A i \in 1 .. Len(buffered) :
       /\ buffered[i] \in Chunks => buffered[i] = called + i
       /\ buffered[i] \in Ends => i = Len(buffered) /\ buffered[i] = terminal
  /\ \A i \in 1 .. Len(pending) :
       pending[i] = (called - Len(pending)) + i /\ got[pending[i]] = None
  /\ pending # <<>> => buffered = <<>> /\ terminal = None

\* A reader that got a chunk got its own, and was called before those that
\* wait.
ReadersFit ==
  /\ \A r \in Readers : r > called => got[r] = None
  /\ \A r \in Readers : got[r] \in Chunks => got[r] = r /\ r <= called - Len(pending)

\* An end is the last thing that readers get.
EndsAreLast ==
  /\ NoChunkAfterEnd
  /\ \A q \in Readers : got[q] \in Ends =>
       /\ \A i \in 1 .. Len(buffered) : buffered[i] \notin Chunks
       /\ terminal # None \/ (operation = "none" /\ "session" \in closers)

\* What the phase of the operation says about the queue and the page.
OperationFits ==
  /\ operation = "none" =>
       /\ ~ listed /\ settled = "none" /\ buffered = <<>> /\ pending = <<>>
       /\ terminal # None => stopped
       /\ terminal = None /\ called # 0 => "session" \in closers
  /\ operation # "none" /\ ~ listed => terminal # None
  /\ stopped => terminal # None /\ buffered = <<>>
  /\ settled = "value" => terminal # None
  /\ operation \in {"none", "beginning"} => pump = "none" /\ Request("run") \notin wire

\* One payload or its receipt is on its way while the page waits for it.
PageFits ==
  /\ Request("run") \in wire => pump = "none"
  /\ pump = "none" => produced = 0
  /\ cursor = "completed" => pump \in {"ending", "over"}
  /\ \A p \in Payloads : Emit(p) \in wire =>
       /\ native # "gone"
       /\ pump = IF p \in Chunks THEN "emitting" ELSE "ending"
       /\ p \in Chunks => p = produced
       /\ p = Done => cursor = "completed"
       /\ \A b \in BOOLEAN : Reply("receipt", b) \notin wire
       /\ \A q \in Payloads : Emit(q) \in wire => q = p
  /\ Reply("receipt", TRUE) \in wire => pump = "emitting"
  /\ Reply("receipt", FALSE) \in wire => pump = "ending" /\ terminal # None
  /\ Reply("ran", TRUE) \in wire => pump = "over" /\ terminal # None

Emitting == \E p \in Chunks : Emit(p) \in wire

\* Until an end is delivered, all that was produced was delivered, but for the
\* chunk that is on its way.
NothingIsLost ==
  operation # "none" /\ terminal = None =>
    /\ \A n \in 1 .. called - Len(pending) : got[n] = n
    /\ native # "gone" =>
         called + Len(buffered) - Len(pending) = IF Emitting THEN produced - 1 ELSE produced

\* The stream was closed or failed, or all its chunks came to readers.
Complete ==
  \/ "return" \in closers
  \/ \E q \in Readers : got[q] = Error
  \/ cursor = "completed" /\ \A n \in 1 .. produced : \E q \in Readers : got[q] = n

\* They did, or wait in the queue.
Delivered ==
  /\ cursor = "completed"
  /\ \A n \in 1 .. produced :
       \/ \E q \in Readers : got[q] = n
       \/ \E i \in 1 .. Len(buffered) : buffered[i] = n

DoneFits ==
  /\ stopped => Complete
  /\ \A r \in Readers : got[r] = Done => Complete
  /\ terminal = Done => Complete \/ Delivered

StreamInv ==
  /\ StreamTypes /\ QueueFits /\ ReadersFit /\ EndsAreLast /\ OperationFits
  /\ PageFits /\ NothingIsLost /\ DoneFits

LEMMA StreamInvMeans == StreamInv => ReadersFollowStream
BY DEF StreamInv, ReadersFit, EndsAreLast, DoneFits, Complete, ReadersFollowStream,
   ChunksInOrder, DoneMeansComplete

LEMMA StreamInvInit == Init => StreamInv
<1> SUFFICES ASSUME Init PROVE StreamInv
  OBVIOUS
<1> USE PageStreamAssumption
<1>1. /\ called = 0 /\ terminal = None /\ produced = 0 /\ buffered = <<>> /\ pending = <<>>
      /\ operation = "none" /\ settled = "none" /\ ~ stopped /\ ~ listed /\ closers = {} /\ wire = {}
      /\ pump = "none" /\ cursor = "none" /\ native = "open"
      /\ \A r \in Readers : got[r] = None
      /\ Len(buffered) = 0 /\ Len(pending) = 0
  BY DEF Init
<1>2. StreamTypes
  BY DEF Init, StreamTypes
<1>3. QueueFits
  BY <1>1 DEF QueueFits
<1>4. ReadersFit
  BY <1>1 DEF ReadersFit, Payloads
<1>5. EndsAreLast
  BY <1>1 DEF EndsAreLast, NoChunkAfterEnd, Payloads
<1>6. OperationFits
  BY <1>1 DEF OperationFits
<1>7. PageFits
  BY <1>1 DEF PageFits
<1>8. NothingIsLost
  BY <1>1 DEF NothingIsLost
<1>9. DoneFits
  BY <1>1 DEF DoneFits, Payloads, Ends
<1> QED
  BY <1>2, <1>3, <1>4, <1>5, <1>6, <1>7, <1>8, <1>9 DEF StreamInv

(***************************************************************************)
(* What the operations do to the queue, told by lengths and places.        *)
(***************************************************************************)

\* The last reader that does not wait.
Base == called - Len(pending)

QueueTypes ==
  /\ got \in [Readers -> Payloads \cup {None}]
  /\ buffered \in Seq(Payloads) /\ pending \in Seq(Readers)
  /\ terminal \in Ends \cup {None}

Gives(p, from, to) ==
  \A r \in Readers : got'[r] = IF from <= r /\ r <= to THEN p ELSE got[r]

Appended(p) ==
  /\ Len(buffered') = Len(buffered) + 1
  /\ \A i \in 1 .. Len(buffered) : buffered'[i] = buffered[i]
  /\ buffered'[Len(buffered) + 1] = p

QueueStays == UNCHANGED <<called, got, buffered, terminal, pending>>

Ended(p) ==
  /\ called' = called /\ terminal' = p
  /\ Len(buffered') = 0 /\ Len(pending') = 0
  /\ Gives(p, Base + 1, called)

PushesEnd(p) ==
  /\ called' = called /\ terminal' = p /\ Len(pending') = 0
  /\ Gives(p, Base + 1, called)
  /\ IF Len(pending) = 0 THEN Appended(p) ELSE Len(buffered') = 0

Buffers(p) ==
  /\ Len(pending) = 0
  /\ UNCHANGED <<called, got, terminal, pending>>
  /\ Appended(p)

Hands(p) ==
  /\ Len(pending) > 0
  /\ UNCHANGED <<called, terminal, buffered>>
  /\ Len(pending') = Len(pending) - 1
  /\ \A i \in 1 .. Len(pending) - 1 : pending'[i] = pending[i + 1]
  /\ Gives(p, Base + 1, Base + 1)

Answers(e) ==
  /\ called' = called + 1 /\ called + 1 \in Readers
  /\ Len(buffered) = 0 /\ Len(pending) = 0
  /\ UNCHANGED <<buffered, terminal, pending>>
  /\ Gives(e, called + 1, called + 1)

TakesHead ==
  /\ called' = called + 1 /\ called + 1 \in Readers
  /\ Len(buffered) > 0
  /\ UNCHANGED <<terminal, pending>>
  /\ Len(buffered') = Len(buffered) - 1
  /\ \A i \in 1 .. Len(buffered) - 1 : buffered'[i] = buffered[i + 1]
  /\ Gives(buffered[1], called + 1, called + 1)

StartsToWait ==
  /\ called' = called + 1 /\ called + 1 \in Readers
  /\ Len(buffered) = 0 /\ terminal = None
  /\ UNCHANGED <<terminal, got, buffered>>
  /\ Len(pending') = Len(pending) + 1
  /\ \A i \in 1 .. Len(pending) : pending'[i] = pending[i]
  /\ pending'[Len(pending) + 1] = called + 1

LEMMA QueueLens ==
  ASSUME StreamTypes, QueueFits
  PROVE  /\ Len(buffered) \in Nat /\ Len(pending) \in Nat /\ called \in Nat /\ Base \in Nat
         /\ Len(pending) > 0 => Len(buffered) = 0 /\ terminal = None
         /\ buffered = <<>> <=> Len(buffered) = 0
         /\ pending = <<>> <=> Len(pending) = 0
         /\ Waiters = (Base + 1) .. called
<1> USE PageStreamAssumption
<1>1. /\ Len(buffered) \in Nat /\ Len(pending) \in Nat /\ called \in Nat
      /\ buffered = <<>> <=> Len(buffered) = 0
      /\ pending = <<>> <=> Len(pending) = 0
  BY LenProperties, EmptySeq DEF StreamTypes
<1>2. Len(pending) > 0 => pending[1] = Base + 1 /\ pending[1] \in Readers
  BY <1>1, ElementOfSeq DEF StreamTypes, QueueFits, Base
<1>3. Base \in Nat
  BY <1>1, <1>2 DEF Base, Readers
<1>4. Waiters = (Base + 1) .. called
  <2>1. \A i \in 1 .. Len(pending) : pending[i] = Base + i
    BY DEF QueueFits, Base
  <2>2. ASSUME NEW x \in (Base + 1) .. called PROVE x \in Waiters
    <3>1. x - Base \in 1 .. Len(pending) /\ Base + (x - Base) = x
      BY <1>1, <1>3 DEF Base
    <3> QED
      BY <2>1, <3>1 DEF Waiters
  <2>3. ASSUME NEW i \in 1 .. Len(pending) PROVE Base + i \in (Base + 1) .. called
    BY <1>1, <1>3 DEF Base
  <2> QED
    BY <2>1, <2>2, <2>3 DEF Waiters
<1> QED
  BY <1>1, <1>3, <1>4 DEF QueueFits

LEMMA CloseEffect ==
  ASSUME StreamTypes, QueueFits, NEW p \in Ends, Close(p)
  PROVE  QueueTypes' /\ Ended(p)
<1> USE PageStreamAssumption
<1>1. /\ called' = called /\ terminal' = p /\ buffered' = <<>> /\ pending' = <<>>
      /\ got' = [r \in Readers |-> IF r \in (Base + 1) .. called THEN p ELSE got[r]]
  BY QueueLens DEF Close, Resolve
<1>2. QueueTypes'
  BY <1>1 DEF QueueTypes, StreamTypes, Payloads
<1>3. Len(buffered') = 0 /\ Len(pending') = 0
  BY <1>1
<1>4. Gives(p, Base + 1, called)
  BY <1>1, QueueLens DEF Gives, Readers
<1> QED
  BY <1>1, <1>2, <1>3, <1>4 DEF Ended

LEMMA PushEffect ==
  ASSUME StreamTypes, QueueFits, NEW p \in Payloads, Push(p)
  PROVE  /\ QueueTypes'
         /\ \/ terminal # None /\ QueueStays
            \/ terminal = None /\ p \in Ends /\ PushesEnd(p)
            \/ terminal = None /\ p \in Chunks /\ (Buffers(p) \/ Hands(p))
<1> USE PageStreamAssumption
<1>n. p \in Ends <=> p \notin Chunks
  BY DEF Payloads, Ends, Chunks, Done, Error
<1>t. None \notin Ends
  BY DEF Payloads
<1>1. CASE terminal # None
  BY <1>1 DEF Push, QueueStays, queueVars, readerVars, QueueTypes, StreamTypes
<1>2. CASE terminal = None /\ p \in Ends
  <2>1. /\ called' = called /\ terminal' = p /\ pending' = <<>>
        /\ got' = [r \in Readers |-> IF r \in (Base + 1) .. called THEN p ELSE got[r]]
        /\ buffered' = IF pending = <<>> THEN Append(buffered, p) ELSE buffered
    BY <1>2, QueueLens DEF Push, Resolve
  <2>2. buffered \in Seq(Payloads)
    BY DEF StreamTypes
  <2>3. /\ Append(buffered, p) \in Seq(Payloads)
        /\ Len(Append(buffered, p)) = Len(buffered) + 1
        /\ \A i \in 1 .. Len(buffered) : Append(buffered, p)[i] = buffered[i]
        /\ Append(buffered, p)[Len(buffered) + 1] = p
    BY <2>2, AppendProperties
  <2>4. QueueTypes'
    <3>1. got' \in [Readers -> Payloads \cup {None}]
      BY <2>1 DEF StreamTypes
    <3>2. buffered' \in Seq(Payloads)
      BY <2>1, <2>2, <2>3
    <3> QED
      BY <3>1, <3>2, <2>1, <1>2 DEF QueueTypes
  <2>5. Gives(p, Base + 1, called)
    BY <2>1, QueueLens DEF Gives, Readers
  <2>6. Len(pending') = 0
    BY <2>1
  <2>7. IF Len(pending) = 0 THEN Appended(p) ELSE Len(buffered') = 0
    BY <2>1, <2>3, QueueLens DEF Appended
  <2> QED
    BY <1>2, <2>1, <2>4, <2>5, <2>6, <2>7 DEF PushesEnd
<1>3. CASE terminal = None /\ p \notin Ends /\ pending = <<>>
  <2>1. /\ called' = called /\ terminal' = None /\ pending' = <<>>
        /\ got' = [r \in Readers |-> IF r \in {} THEN p ELSE got[r]]
        /\ buffered' = Append(buffered, p)
    BY <1>3 DEF Push, Resolve, First
  <2>2. got' = got
    BY <2>1 DEF StreamTypes
  <2>3. buffered \in Seq(Payloads)
    BY DEF StreamTypes
  <2>4. buffered' \in Seq(Payloads) /\ Appended(p)
    BY <2>1, <2>3, AppendProperties DEF Appended
  <2> QED
    BY <1>3, <1>n, <2>1, <2>2, <2>4, QueueLens DEF Buffers, QueueTypes, StreamTypes
<1>4. CASE terminal = None /\ p \notin Ends /\ pending # <<>>
  <2>1. /\ called' = called /\ terminal' = None /\ pending' = Tail(pending)
        /\ got' = [r \in Readers |-> IF r \in {Head(pending)} THEN p ELSE got[r]]
        /\ buffered' = buffered
    BY <1>4 DEF Push, Resolve, First
  <2>2. pending \in Seq(Readers)
    BY DEF StreamTypes
  <2>3. /\ Tail(pending) \in Seq(Readers)
        /\ Len(Tail(pending)) = Len(pending) - 1
        /\ \A i \in 1 .. Len(Tail(pending)) : Tail(pending)[i] = pending[i+1]
    BY <2>2, <1>4, HeadTailProperties
  <2>4. Len(pending) > 0
    BY <1>4, QueueLens
  <2>5. Head(pending) = Base + 1
    <3>1. Head(pending) = pending[1]
      BY <2>2, <2>4
    <3> QED
      BY <3>1, <2>4, QueueLens DEF QueueFits, Base
  <2>6. Gives(p, Base + 1, Base + 1)
    BY <2>1, <2>5, QueueLens DEF Gives, Readers
  <2>7. Hands(p)
    BY <2>1, <2>3, <2>4, <2>6, <1>4 DEF Hands
  <2>8. QueueTypes'
    <3>1. got' \in [Readers -> Payloads \cup {None}]
      BY <2>1 DEF StreamTypes
    <3> QED
      BY <2>1, <2>3, <3>1 DEF QueueTypes, StreamTypes
  <2> QED
    BY <1>4, <1>n, <2>7, <2>8
<1> QED
  BY <1>1, <1>2, <1>3, <1>4

\* The call of next() that looks into the queue.
LEMMA TakeEffect ==
  ASSUME StreamTypes, QueueFits, ReadersFit,
         called + 1 \in Readers, called' = called + 1, Take(called + 1)
  PROVE  /\ QueueTypes'
         /\ \/ terminal # None /\ Answers(terminal)
            \/ TakesHead
            \/ StartsToWait
<1> USE PageStreamAssumption
<1> DEFINE r == called + 1
<1>1. r \in Readers /\ r > called /\ got[r] = None /\ got \in [Readers -> Payloads \cup {None}]
  BY QueueLens DEF ReadersFit, StreamTypes
<1>2. CASE buffered = <<>> /\ terminal # None
  <2>1. /\ UNCHANGED <<buffered, pending, terminal>>
        /\ got' = [got EXCEPT ![r] = terminal]
    BY <1>2 DEF Take
  <2>2. Gives(terminal, r, r)
    BY <2>1, <1>1, QueueLens DEF Gives, Readers
  <2>3. Len(buffered) = 0 /\ Len(pending) = 0
    BY <1>2, QueueLens
  <2>4. QueueTypes'
    BY <2>1, <1>1, <1>2 DEF QueueTypes, StreamTypes, Payloads
  <2> QED
    BY <1>2, <2>1, <2>2, <2>3, <2>4 DEF Answers
<1>3. CASE buffered = <<>> /\ terminal = None
  <2>1. /\ UNCHANGED <<buffered, terminal>>
        /\ got' = [got EXCEPT ![r] = None]
        /\ pending' = Append(pending, r)
    BY <1>3 DEF Take
  <2>2. got' = got
    BY <2>1, <1>1
  <2>3. /\ pending' \in Seq(Readers)
        /\ Len(pending') = Len(pending) + 1
        /\ \A i \in 1 .. Len(pending) : pending'[i] = pending[i]
        /\ pending'[Len(pending) + 1] = r
    BY <2>1, <1>1, AppendProperties DEF StreamTypes
  <2> QED
    BY <1>3, <2>1, <2>2, <2>3, QueueLens DEF StartsToWait, QueueTypes, StreamTypes
<1>4. CASE buffered # <<>>
  <2>0. buffered \in Seq(Payloads) /\ Len(buffered) > 0
    BY <1>4, QueueLens DEF StreamTypes
  <2>1. Head(buffered) = buffered[1] /\ buffered[1] \in Payloads
    BY <2>0, ElementOfSeq
  <2>2. /\ Tail(buffered) \in Seq(Payloads)
        /\ Len(Tail(buffered)) = Len(buffered) - 1
        /\ \A i \in 1 .. Len(Tail(buffered)) : Tail(buffered)[i] = buffered[i+1]
    BY <2>0, <1>4, HeadTailProperties
  <2>3. /\ buffered' = Tail(buffered) /\ UNCHANGED <<terminal, pending>>
        /\ got' = [got EXCEPT ![r] = buffered[1]]
    BY <1>4, <2>1 DEF Take
  <2>4. Gives(buffered[1], r, r)
    BY <2>3, <1>1, QueueLens DEF Gives, Readers
  <2>5. QueueTypes'
    BY <2>1, <2>2, <2>3, <1>1 DEF QueueTypes, StreamTypes
  <2> QED
    BY <2>0, <2>2, <2>3, <2>4, <2>5 DEF TakesHead
<1> QED
  BY <1>2, <1>3, <1>4

(***************************************************************************)
(* The steps, seen by the queue.                                           *)
(***************************************************************************)

\* A payload that is not dropped.
Arrives(p) ==
  /\ terminal = None /\ operation # "none"
  /\ p \in Chunks => p = produced /\ p = Base + Len(buffered) + 1 /\ (Buffers(p) \/ Hands(p))
  /\ p \in Ends => PushesEnd(p)
  /\ p = Done =>
       /\ cursor = "completed" /\ Base + Len(buffered) = produced
       /\ \A n \in 1 .. Base : got[n] = n

Refused == operation = "none" /\ "session" \in closers

\* What the host's own steps do to the queue.
HostStep ==
  \/ QueueStays
  \/ \E p \in Ends : Ended(p) /\ (p = Done => Complete \/ "return" \in closers')
  \/ \E p \in Ends : Answers(p) /\ (p = Done => Complete) /\ (terminal # None \/ Refused)
  \/ TakesHead /\ operation # "none"
  \/ StartsToWait /\ ~ Refused

QueueStep == HostStep \/ \E p \in Payloads : Arrives(p)

Keeps ==
  /\ closers \subseteq closers'
  /\ operation # "none" => operation' # "none"
  /\ operation = "none" /\ operation' # "none" => StartsToWait
  /\ cursor = "completed" => cursor' = "completed" /\ produced' = produced
  /\ stopped' => stopped \/ Complete \/ "return" \in closers'
  /\ produced' \in 0 .. MaxChunks

LEMMA KindsDiffer ==
  /\ \A p \in Payloads : (p \in Ends <=> p \notin Chunks) /\ p # None
  /\ None \notin Ends /\ None \notin Chunks
  /\ Ends \subseteq Payloads /\ Chunks \subseteq Payloads
  /\ Done \in Ends /\ Error \in Ends /\ Done # Error
BY PageStreamAssumption DEF Payloads, Ends, Chunks, Done, Error

\* What the queue does from step to step.
LEMMA QueueGrows ==
  ASSUME StreamTypes, QueueFits, ReadersFit, QueueStep
  PROVE  /\ called' \in 0 .. MaxReaders /\ called' >= called
         /\ \A q \in Readers : got[q] # None => got'[q] = got[q]
         /\ terminal # None => terminal' # None
<1> USE PageStreamAssumption, KindsDiffer, QueueLens
<1>1. \A q \in Readers : q > Base => got[q] = None
  <2> SUFFICES ASSUME NEW q \in Readers, q > Base PROVE got[q] = None
    OBVIOUS
  <2>1. CASE q > called
    BY <2>1 DEF ReadersFit
  <2>2. CASE q <= called
    <3>1. q - Base \in 1 .. Len(pending) /\ q = (called - Len(pending)) + (q - Base)
      BY <2>2 DEF Base, Readers
    <3> QED
      BY <3>1 DEF QueueFits
  <2> QED
    BY <2>1, <2>2 DEF Readers
<1>b. Base <= called /\ called \in 0 .. MaxReaders
  BY DEF Base, StreamTypes
<1>2. CASE QueueStays
  BY <1>2, <1>b DEF QueueStays
<1>3. ASSUME NEW p \in Ends, Ended(p) \/ PushesEnd(p)
      PROVE  called' = called /\ terminal' # None /\ Gives(p, Base + 1, called)
  BY <1>3 DEF Ended, PushesEnd
<1>4. ASSUME NEW p, Gives(p, Base + 1, called) \/ Gives(p, called + 1, called + 1)
      PROVE  \A q \in Readers : got[q] # None => got'[q] = got[q]
  BY <1>1, <1>4, <1>b DEF Gives, Readers
<1>5. CASE \E p \in Ends : Answers(p)
  BY <1>5, <1>4 DEF Answers, Readers
<1>6. CASE TakesHead
  BY <1>6, <1>4 DEF TakesHead, Readers
<1>7. CASE StartsToWait
  BY <1>7 DEF StartsToWait, Readers
<1>8. ASSUME NEW p \in Chunks, Buffers(p) \/ Hands(p)
      PROVE  /\ called' = called /\ terminal' = terminal
             /\ \A q \in Readers : got[q] # None => got'[q] = got[q]
  BY <1>8, <1>1 DEF Buffers, Hands, Gives, Readers
<1> QED
  BY <1>2, <1>3, <1>4, <1>5, <1>6, <1>7, <1>8, <1>b DEF QueueStep, HostStep, Arrives

LEMMA CompleteStays ==
  ASSUME StreamTypes, QueueFits, ReadersFit, QueueStep, Keeps, Complete
  PROVE  Complete'
<1>1. \A q \in Readers : got[q] # None => got'[q] = got[q]
  BY QueueGrows
<1>2. CASE "return" \in closers
  BY <1>2 DEF Keeps, Complete
<1>3. CASE \E q \in Readers : got[q] = Error
  BY <1>1, <1>3, KindsDiffer DEF Complete
<1>4. CASE cursor = "completed" /\ \A n \in 1 .. produced : \E q \in Readers : got[q] = n
  <2>1. cursor' = "completed" /\ produced' = produced
    BY <1>4 DEF Keeps
  <2>2. \A n \in 1 .. produced : n # None
    BY PageStreamAssumption, KindsDiffer DEF StreamTypes, Chunks
  <2>3. ASSUME NEW n \in 1 .. produced PROVE \E q \in Readers : got'[q] = n
    BY <1>1, <1>4, <2>2
  <2> QED
    BY <2>1, <2>3 DEF Complete
<1> QED
  BY <1>2, <1>3, <1>4 DEF Complete

LEMMA QueueFitsStays ==
  ASSUME StreamTypes, QueueFits, ReadersFit, QueueStep, QueueTypes'
  PROVE  QueueFits'
<1> USE KindsDiffer
<1>0. /\ Len(buffered) \in Nat /\ Len(pending) \in Nat /\ called \in Nat /\ Base \in Nat
      /\ Len(pending) > 0 => Len(buffered) = 0 /\ terminal = None
      /\ Len(buffered') \in Nat /\ Len(pending') \in Nat
      /\ pending' # <<>> => Len(pending') > 0
      /\ Len(buffered') = 0 => buffered' = <<>>
      /\ called = Base + Len(pending)
  BY QueueLens, LenProperties, EmptySeq DEF QueueTypes, Base
<1>1. CASE QueueStays
  BY <1>1 DEF QueueStays, QueueFits
<1>2. ASSUME NEW p \in Ends, Ended(p) PROVE QueueFits'
  BY <1>2, <1>0 DEF QueueFits, Ended
<1>3. ASSUME NEW p \in Ends, Answers(p) PROVE QueueFits'
  BY <1>3, <1>0 DEF QueueFits, Answers
<1>4. ASSUME TakesHead PROVE QueueFits'
  <2>1. ASSUME NEW i \in 1 .. Len(buffered')
        PROVE  /\ buffered'[i] \in Chunks => buffered'[i] = called' + i
               /\ buffered'[i] \in Ends => i = Len(buffered') /\ buffered'[i] = terminal'
    <3>1. i \in 1 .. Len(buffered) - 1 /\ i + 1 \in 1 .. Len(buffered) /\ buffered'[i] = buffered[i + 1]
      BY <1>4, <1>0 DEF TakesHead
    <3>2. /\ buffered[i + 1] \in Chunks => buffered[i + 1] = called + (i + 1)
          /\ buffered[i + 1] \in Ends => i + 1 = Len(buffered) /\ buffered[i + 1] = terminal
      BY <3>1 DEF QueueFits
    <3>3. called' = called + 1 /\ Len(buffered') = Len(buffered) - 1 /\ terminal' = terminal
      BY <1>4 DEF TakesHead
    <3>4. called + (i + 1) = called' + i /\ (i + 1 = Len(buffered) => i = Len(buffered'))
      BY <3>3, <1>0
    <3> QED
      BY <3>1, <3>2, <3>3, <3>4
  <2>2. pending' = pending /\ Len(pending) = 0
    BY <1>4, <1>0 DEF TakesHead
  <2> QED
    BY <2>1, <2>2, <1>0 DEF QueueFits
<1>5. ASSUME StartsToWait PROVE QueueFits'
  <2>1. /\ terminal' = None /\ called' = called + 1 /\ got' = got /\ buffered' = buffered
        /\ Len(buffered) = 0 /\ Len(pending') = Len(pending) + 1 /\ called + 1 \in Readers
    BY <1>5 DEF StartsToWait
  <2>2. ASSUME NEW i \in 1 .. Len(pending')
        PROVE  pending'[i] = (called' - Len(pending')) + i /\ got'[pending'[i]] = None
    <3>1. CASE i = Len(pending) + 1
      <4>1. pending'[i] = called + 1
        BY <3>1, <1>5 DEF StartsToWait
      <4>2. got[called + 1] = None
        BY <2>1, <1>0 DEF ReadersFit
      <4> QED
        BY <3>1, <4>1, <4>2, <2>1, <1>0
    <3>2. CASE i # Len(pending) + 1
      <4>1. i \in 1 .. Len(pending)
        BY <3>2, <2>1, <1>0
      <4>2. pending'[i] = pending[i]
        BY <4>1, <1>5 DEF StartsToWait
      <4>3. pending[i] = (called - Len(pending)) + i /\ got[pending[i]] = None
        BY <4>1 DEF QueueFits
      <4> QED
        BY <4>1, <4>2, <4>3, <2>1, <1>0
    <3> QED
      BY <3>1, <3>2
  <2> QED
    BY <2>1, <2>2, <1>0 DEF QueueFits
<1>6. ASSUME NEW p \in Ends, terminal = None, PushesEnd(p) PROVE QueueFits'
  <2>1. called' = called /\ terminal' = p /\ Len(pending') = 0
    BY <1>6 DEF PushesEnd
  <2>2. ASSUME Len(pending) = 0, NEW i \in 1 .. Len(buffered')
        PROVE  /\ buffered'[i] \in Chunks => buffered'[i] = called' + i
               /\ buffered'[i] \in Ends => i = Len(buffered') /\ buffered'[i] = terminal'
    <3>1. Appended(p)
      BY <1>6, <2>2 DEF PushesEnd
    <3>2. CASE i = Len(buffered) + 1
      BY <3>1, <3>2, <2>1 DEF Appended
    <3>3. CASE i # Len(buffered) + 1
      <4>1. i \in 1 .. Len(buffered) /\ buffered'[i] = buffered[i]
        BY <3>1, <3>3, <1>0 DEF Appended
      <4> QED
        BY <4>1, <2>1, <1>6 DEF QueueFits
    <3> QED
      BY <3>2, <3>3
  <2>3. Len(pending) # 0 => Len(buffered') = 0
    BY <1>6 DEF PushesEnd
  <2> QED
    BY <2>1, <2>2, <2>3, <1>0 DEF QueueFits
<1>7. ASSUME NEW p \in Chunks, terminal = None, p = Base + Len(buffered) + 1, Buffers(p) PROVE QueueFits'
  <2>1. called' = called /\ terminal' = terminal /\ pending' = pending /\ Len(pending) = 0 /\ Appended(p)
    BY <1>7 DEF Buffers
  <2>2. ASSUME NEW i \in 1 .. Len(buffered)
        PROVE  buffered'[i] = buffered[i] /\ buffered[i] \notin Ends
    BY <2>1, <1>7 DEF Appended, QueueFits
  <2>3. ASSUME NEW i \in 1 .. Len(buffered')
        PROVE  (buffered'[i] \in Chunks => buffered'[i] = called' + i) /\ buffered'[i] \notin Ends
    <3>1. CASE i = Len(buffered) + 1
      BY <3>1, <2>1, <1>7, <1>0 DEF Appended
    <3>2. CASE i # Len(buffered) + 1
      <4>1. i \in 1 .. Len(buffered)
        BY <2>1, <3>2, <1>0 DEF Appended
      <4> QED
        BY <4>1, <2>1, <2>2, <2>3 DEF QueueFits
    <3> QED
      BY <3>1, <3>2
  <2> QED
    BY <2>1, <2>3, <1>0 DEF QueueFits
<1>8. ASSUME NEW p \in Chunks, Hands(p) PROVE QueueFits'
  <2>1. /\ called' = called /\ terminal' = terminal /\ buffered' = buffered
        /\ Len(pending) > 0 /\ Len(pending') = Len(pending) - 1
        /\ Gives(p, Base + 1, Base + 1)
    BY <1>8 DEF Hands
  <2>2. ASSUME NEW i \in 1 .. Len(pending')
        PROVE  pending'[i] = (called' - Len(pending')) + i /\ got'[pending'[i]] = None
    <3>1. i + 1 \in 1 .. Len(pending) /\ pending'[i] = pending[i + 1]
      BY <1>8, <2>1, <1>0 DEF Hands
    <3>2. pending[i + 1] = (called - Len(pending)) + (i + 1) /\ got[pending[i + 1]] = None
      BY <3>1 DEF QueueFits
    <3>3. pending[i + 1] \in Readers /\ pending[i + 1] # Base + 1
      BY <3>1, <3>2, <1>0, ElementOfSeq DEF StreamTypes
    <3>4. got'[pending[i + 1]] = got[pending[i + 1]]
      BY <2>1, <3>3, <1>0 DEF Gives, Readers
    <3> QED
      BY <3>1, <3>2, <3>4, <2>1, <1>0
  <2> QED
    BY <2>1, <2>2, <1>0 DEF QueueFits
<1> QED
  BY <1>1, <1>2, <1>3, <1>4, <1>5, <1>6, <1>7, <1>8 DEF QueueStep, HostStep, Arrives

LEMMA ReadersFitStays ==
  ASSUME StreamTypes, QueueFits, ReadersFit, QueueStep, QueueTypes'
  PROVE  ReadersFit'
<1> USE KindsDiffer
<1>0. /\ Len(buffered) \in Nat /\ Len(pending) \in Nat /\ called \in Nat /\ Base \in Nat
      /\ Len(pending) > 0 => Len(buffered) = 0
      /\ called = Base + Len(pending)
      /\ Readers \subseteq Int
  BY QueueLens DEF Base, Readers
<1>1. \A r \in Readers :
        /\ r > called => got[r] = None
        /\ got[r] \in Chunks => got[r] = r /\ r <= Base
  BY DEF ReadersFit, Base
<1> SUFFICES ASSUME NEW r \in Readers
             PROVE  /\ r > called' => got'[r] = None
                    /\ got'[r] \in Chunks => got'[r] = r /\ r <= called' - Len(pending')
  BY DEF ReadersFit
<1>2. CASE QueueStays
  BY <1>1, <1>2 DEF QueueStays, Base
<1>3. ASSUME NEW p \in Ends, Ended(p) \/ PushesEnd(p)
      PROVE  /\ r > called' => got'[r] = None
             /\ got'[r] \in Chunks => got'[r] = r /\ r <= called' - Len(pending')
  <2>1. called' = called /\ Len(pending') = 0 /\ Gives(p, Base + 1, called)
    BY <1>3 DEF Ended, PushesEnd
  <2> QED
    BY <2>1, <1>0, <1>1 DEF Gives
<1>4. CASE \E p \in Ends : Answers(p)
  BY <1>4, <1>0, <1>1 DEF Answers, Gives
<1>5. CASE TakesHead
  <2>1. buffered[1] \in Chunks => buffered[1] = called + 1
    BY <1>5, <1>0 DEF TakesHead, QueueFits
  <2> QED
    BY <2>1, <1>5, <1>0, <1>1 DEF TakesHead, Gives
<1>6. CASE StartsToWait
  BY <1>6, <1>0, <1>1 DEF StartsToWait
<1>7. ASSUME NEW p \in Chunks, Buffers(p)
      PROVE  /\ r > called' => got'[r] = None
             /\ got'[r] \in Chunks => got'[r] = r /\ r <= called' - Len(pending')
  BY <1>7, <1>0, <1>1 DEF Buffers
<1>8. ASSUME NEW p \in Chunks, p = Base + Len(buffered) + 1, Hands(p)
      PROVE  /\ r > called' => got'[r] = None
             /\ got'[r] \in Chunks => got'[r] = r /\ r <= called' - Len(pending')
  <2>1. /\ called' = called /\ Len(buffered) = 0 /\ Len(pending') = Len(pending) - 1
        /\ Len(pending) > 0
        /\ Gives(p, Base + 1, Base + 1)
    BY <1>8, <1>0 DEF Hands
  <2> QED
    BY <2>1, <1>8, <1>0, <1>1 DEF Gives
<1> QED
  BY <1>2, <1>3, <1>4, <1>5, <1>6, <1>7, <1>8 DEF QueueStep, HostStep, Arrives

LEMMA EndsAreLastStays ==
  ASSUME StreamTypes, QueueFits, ReadersFit, EndsAreLast, QueueStep, Keeps, QueueTypes'
  PROVE  EndsAreLast'
<1> USE KindsDiffer
<1>0. /\ Len(buffered) \in Nat /\ Len(pending) \in Nat /\ called \in Nat /\ Base \in Nat
      /\ Len(pending) > 0 => Len(buffered) = 0
      /\ called = Base + Len(pending)
      /\ Readers \subseteq Int
  BY QueueLens DEF Base, Readers
<1>1. \A r \in Readers :
        /\ r > called => got[r] = None
        /\ got[r] \in Chunks => got[r] = r /\ r <= Base
  BY DEF ReadersFit, Base
<1>2. /\ \A q, r \in Readers : q < r /\ got[q] \in Ends => got[r] \notin Chunks
      /\ \A q \in Readers : got[q] \in Ends =>
           /\ \A i \in 1 .. Len(buffered) : buffered[i] \notin Chunks
           /\ terminal # None \/ Refused
  BY DEF EndsAreLast, NoChunkAfterEnd, Refused
<1> DEFINE Goal ==
  /\ \A q, r \in Readers : q < r /\ got'[q] \in Ends => got'[r] \notin Chunks
  /\ \A q \in Readers : got'[q] \in Ends =>
       /\ \A i \in 1 .. Len(buffered') : buffered'[i] \notin Chunks
       /\ terminal' # None \/ Refused'
<1>3. Refused => Refused' \/ StartsToWait
  BY DEF Keeps, Refused
<1>4. ASSUME QueueStays PROVE Goal
  <2>1. ~ StartsToWait
    BY <1>4, <1>0 DEF QueueStays, StartsToWait
  <2>2. UNCHANGED <<got, buffered, terminal>>
    BY <1>4 DEF QueueStays
  <2> QED
    BY <1>2, <1>3, <2>1, <2>2
<1>5. ASSUME NEW p \in Ends, Ended(p) \/ (PushesEnd(p) /\ terminal = None /\ ~ Refused)
      PROVE  Goal
  <2>1. called' = called /\ Gives(p, Base + 1, called) /\ terminal' = p
    BY <1>5 DEF Ended, PushesEnd
  <2>2. \A q, r \in Readers : q < r /\ got'[q] \in Ends => got'[r] \notin Chunks
    BY <2>1, <1>0, <1>1, <1>2 DEF Gives
  <2>3. ASSUME NEW q \in Readers, got'[q] \in Ends, NEW i \in 1 .. Len(buffered')
        PROVE  buffered'[i] \notin Chunks
    <3>1. CASE Len(buffered') = 0
      BY <3>1
    <3>2. CASE Len(buffered') # 0
      <4>1. PushesEnd(p) /\ Len(pending) = 0 /\ terminal = None /\ ~ Refused
        BY <1>5, <3>2 DEF Ended, PushesEnd
      <4>2. got[q] \in Ends
        BY <4>1, <2>1, <2>3, <1>0 DEF Gives
      <4> QED
        BY <4>1, <4>2, <1>2
    <3> QED
      BY <3>1, <3>2
  <2> QED
    BY <2>1, <2>2, <2>3
<1>6. ASSUME NEW p \in Ends, Answers(p), terminal # None \/ Refused PROVE Goal
  <2>1. /\ called' = called + 1 /\ Gives(p, called + 1, called + 1)
        /\ UNCHANGED <<buffered, terminal>>
        /\ Len(buffered) = 0 /\ Len(pending) = 0 /\ pending' = pending
    BY <1>6 DEF Answers
  <2>2. ~ StartsToWait
    BY <2>1, <1>0 DEF StartsToWait
  <2>3. \A q, r \in Readers : q < r /\ got'[q] \in Ends => got'[r] \notin Chunks
    BY <2>1, <1>0, <1>1, <1>2 DEF Gives
  <2> QED
    BY <2>1, <2>2, <2>3, <1>3, <1>6
<1>7. ASSUME TakesHead, operation # "none" PROVE Goal
  <2>1. /\ called' = called + 1 /\ Gives(buffered[1], called + 1, called + 1)
        /\ Len(buffered) > 0 /\ Len(pending) = 0 /\ terminal' = terminal
        /\ Len(buffered') = Len(buffered) - 1
    BY <1>7, <1>0 DEF TakesHead
  <2>2. buffered[1] \in Ends => terminal # None /\ Len(buffered') = 0
    BY <2>1, <1>0 DEF QueueFits
  <2>3. buffered[1] \in Chunks => \A q \in Readers : got[q] \notin Ends
    BY <2>1, <1>0, <1>2
  <2>4. \A i \in 1 .. Len(buffered') : i + 1 \in 1 .. Len(buffered) /\ buffered'[i] = buffered[i + 1]
    BY <2>1, <1>7, <1>0 DEF TakesHead
  <2>5. \A q, r \in Readers : q < r /\ got'[q] \in Ends => got'[r] \notin Chunks
    BY <2>1, <2>3, <1>0, <1>1, <1>2 DEF Gives
  <2>6. \A q \in Readers : got'[q] \in Ends => got[q] \in Ends \/ buffered[1] \in Ends
    BY <2>1 DEF Gives
  <2>7. ~ Refused
    BY <1>7 DEF Refused
  <2>8. ASSUME NEW q \in Readers, got'[q] \in Ends
        PROVE  (\A i \in 1 .. Len(buffered') : buffered'[i] \notin Chunks) /\ terminal' # None
    <3>1. CASE got[q] \in Ends
      BY <2>1, <2>4, <2>7, <3>1, <1>2
    <3>2. CASE buffered[1] \in Ends
      BY <2>1, <2>2, <3>2
    <3> QED
      BY <3>1, <3>2, <2>6, <2>8
  <2> QED
    BY <2>5, <2>8
<1>8. ASSUME StartsToWait, ~ Refused PROVE Goal
  <2>1. got' = got /\ buffered' = buffered /\ terminal = None
    BY <1>8 DEF StartsToWait
  <2> QED
    BY <2>1, <1>2, <1>8
<1>9. ASSUME NEW p \in Chunks, terminal = None, ~ Refused, Buffers(p) \/ Hands(p) PROVE Goal
  <2>1. \A q \in Readers : got[q] \notin Ends
    BY <1>2, <1>9
  <2>2. \A q \in Readers : got'[q] = got[q] \/ got'[q] = p
    BY <1>9 DEF Buffers, Hands, Gives
  <2> QED
    BY <2>1, <2>2
<1>10. Goal => EndsAreLast'
  BY DEF EndsAreLast, NoChunkAfterEnd, Refused
<1>11. operation # "none" => ~ Refused
  BY DEF Refused
<1> HIDE DEF Goal
<1>12. (\E p \in Payloads : Arrives(p)) => Goal
  BY <1>5, <1>9, <1>11 DEF Arrives
<1> QED
  BY <1>4, <1>5, <1>6, <1>7, <1>8, <1>10, <1>11, <1>12 DEF QueueStep, HostStep

LEMMA DoneFitsStays ==
  ASSUME StreamTypes, QueueFits, ReadersFit, DoneFits, QueueStep, Keeps, QueueTypes'
  PROVE  DoneFits'
<1> USE KindsDiffer
<1>0. /\ Len(buffered) \in Nat /\ Len(pending) \in Nat /\ called \in Nat /\ Base \in Nat
      /\ Len(pending) > 0 => Len(buffered) = 0
      /\ called = Base + Len(pending)
      /\ Readers \subseteq Int /\ 1 .. produced \subseteq Chunks /\ produced \in Nat
      /\ 1 .. called \subseteq Readers /\ 1 .. Base \subseteq Readers
  BY QueueLens, PageStreamAssumption DEF Base, Readers, StreamTypes, Chunks
<1>1. /\ \A q \in Readers : got[q] # None => got'[q] = got[q]
      /\ Complete => Complete'
      /\ "return" \in closers' => Complete'
  BY QueueGrows, CompleteStays DEF Complete
<1>2. /\ stopped => Complete
      /\ \A r \in Readers : got[r] = Done => Complete
      /\ terminal = Done => Complete \/ Delivered
  BY DEF DoneFits
<1>3. stopped' => Complete'
  BY <1>1, <1>2 DEF Keeps
<1> DEFINE Goal ==
  /\ \A r \in Readers : got'[r] = Done => Complete'
  /\ terminal' = Done => Complete' \/ Delivered'
<1> SUFFICES Goal
  BY <1>3 DEF DoneFits
\* All that was produced is with readers, or is still buffered.
<1>4. ASSUME cursor = "completed",
             \A n \in 1 .. produced :
               (\E q \in Readers : got[q] = n) \/ (\E i \in 1 .. Len(buffered') : buffered'[i] = n)
      PROVE  Delivered'
  <2>1. cursor' = "completed" /\ produced' = produced
    BY <1>4 DEF Keeps
  <2>2. ASSUME NEW n \in 1 .. produced
        PROVE  (\E q \in Readers : got'[q] = n) \/ (\E i \in 1 .. Len(buffered') : buffered'[i] = n)
    <3>1. n # None
      BY <1>0
    <3> QED
      BY <3>1, <1>1, <1>4
  <2> QED
    BY <2>1, <2>2 DEF Delivered
<1>5. Delivered /\ buffered' = buffered => Delivered'
  BY <1>4 DEF Delivered
<1>6. Delivered /\ (\A i \in 1 .. Len(buffered) : buffered[i] \notin Chunks) => Complete
  BY <1>0 DEF Delivered, Complete
<1>7. ASSUME QueueStays PROVE Goal
  BY <1>1, <1>2, <1>5, <1>7 DEF QueueStays
<1>8. ASSUME NEW p \in Ends, Ended(p), p = Done => Complete \/ "return" \in closers' PROVE Goal
  BY <1>1, <1>2, <1>8 DEF Ended, Gives
<1>9. ASSUME NEW p \in Ends, Answers(p), p = Done => Complete PROVE Goal
  BY <1>1, <1>2, <1>5, <1>9 DEF Answers, Gives
<1>10. ASSUME TakesHead PROVE Goal
  <2>1. /\ called + 1 \in Readers /\ Gives(buffered[1], called + 1, called + 1)
        /\ Len(buffered) > 0 /\ terminal' = terminal
        /\ Len(buffered') = Len(buffered) - 1
        /\ \A i \in 1 .. Len(buffered) - 1 : buffered'[i] = buffered[i + 1]
    BY <1>10 DEF TakesHead
  <2>2. buffered[1] \in Ends => Len(buffered) = 1 /\ terminal = buffered[1]
    BY <2>1, <1>0 DEF QueueFits
  <2>3. buffered[1] = Done => Complete
    <3> SUFFICES ASSUME buffered[1] = Done PROVE Complete
      OBVIOUS
    <3>1. Len(buffered) = 1 /\ terminal = Done
      BY <2>2
    <3>2. \A i \in 1 .. Len(buffered) : i = 1
      BY <3>1
    <3> QED
      BY <3>1, <3>2, <1>2, <1>6
  <2>4. \A r \in Readers : got'[r] = Done => Complete'
    BY <2>1, <2>3, <1>1, <1>2 DEF Gives
  <2>5. got'[called + 1] = buffered[1]
    BY <2>1, <1>0 DEF Gives
  <2>6. ASSUME Delivered PROVE Delivered'
    <3>1. cursor' = "completed" /\ produced' = produced
      BY <2>6 DEF Keeps, Delivered
    <3>2. ASSUME NEW n \in 1 .. produced
          PROVE  (\E q \in Readers : got'[q] = n) \/ (\E i \in 1 .. Len(buffered') : buffered'[i] = n)
      <4>1. CASE \E q \in Readers : got[q] = n
        <5>1. n # None
          BY <1>0
        <5> QED
          BY <4>1, <5>1, <1>1
      <4>2. CASE buffered[1] = n
        BY <4>2, <2>1, <2>5
      <4>3. CASE \E i \in 1 .. Len(buffered) : i # 1 /\ buffered[i] = n
        <5>1. PICK i \in 1 .. Len(buffered) : i # 1 /\ buffered[i] = n
          BY <4>3
        <5>2. i - 1 \in 1 .. Len(buffered) - 1 /\ (i - 1) + 1 = i
          BY <5>1, <1>0
        <5>3. buffered'[i - 1] = n /\ i - 1 \in 1 .. Len(buffered')
          BY <5>1, <5>2, <2>1
        <5> QED
          BY <5>3
      <4> QED
        BY <4>1, <4>2, <4>3, <2>6 DEF Delivered
    <3> QED
      BY <3>1, <3>2 DEF Delivered
  <2> QED
    BY <2>1, <2>4, <2>6, <1>1, <1>2
<1>11. ASSUME StartsToWait PROVE Goal
  BY <1>11, <1>1, <1>2 DEF StartsToWait
<1>12. ASSUME NEW p \in Ends, PushesEnd(p), terminal = None,
              p = Done => /\ cursor = "completed" /\ Base + Len(buffered) = produced
                          /\ \A n \in 1 .. Base : got[n] = n
       PROVE  Goal
  <2>1. /\ called' = called /\ terminal' = p /\ Gives(p, Base + 1, called)
        /\ IF Len(pending) = 0 THEN Appended(p) ELSE Len(buffered') = 0
    BY <1>12 DEF PushesEnd
  <2>2. CASE Len(pending) = 0
    <3>0. Base = called
      BY <2>2, <1>0
    <3>1. \A r \in Readers : got'[r] = got[r]
      BY <2>1, <3>0, <1>0 DEF Gives
    <3>2. ASSUME p = Done, NEW n \in 1 .. produced
          PROVE  (\E q \in Readers : got[q] = n) \/ (\E i \in 1 .. Len(buffered') : buffered'[i] = n)
      <4>1. CASE n \in 1 .. called
        <5>1. n \in Readers /\ got[n] = n
          BY <4>1, <3>0, <3>2, <1>0, <1>12
        <5> QED
          BY <5>1
      <4>2. CASE n > called
        <5>1. n - called \in 1 .. Len(buffered) /\ called + (n - called) = n
          BY <4>2, <3>2, <2>2, <1>0, <1>12
        <5>2. buffered[n - called] \in Payloads /\ buffered[n - called] \notin Ends
          BY <5>1, <1>12, ElementOfSeq DEF StreamTypes, QueueFits
        <5>3. buffered[n - called] = n
          BY <5>1, <5>2 DEF QueueFits
        <5>4. n - called \in 1 .. Len(buffered') /\ buffered'[n - called] = n
          BY <5>1, <5>3, <2>1, <2>2, <1>0 DEF Appended
        <5> QED
          BY <5>4
      <4> QED
        BY <4>1, <4>2, <1>0
    <3>3. p = Done => Delivered'
      BY <3>2, <1>4, <1>12
    <3> QED
      BY <3>1, <3>3, <2>1, <1>1, <1>2
  <2>3. CASE Len(pending) # 0
    <3>1. Len(buffered) = 0
      BY <2>3, <1>0
    <3>2. p = Done => Complete
      BY <3>1, <1>0, <1>12 DEF Complete
    <3> QED
      BY <3>2, <2>1, <1>1, <1>2 DEF Gives
  <2> QED
    BY <2>2, <2>3
<1>13. ASSUME NEW p \in Chunks, terminal = None, Buffers(p) \/ Hands(p) PROVE Goal
  BY <1>13, <1>1, <1>2 DEF Buffers, Hands, Gives
<1> HIDE DEF Goal
<1>14. (\E p \in Payloads : Arrives(p)) => Goal
  BY <1>12, <1>13 DEF Arrives
<1> QED
  BY <1>7, <1>8, <1>9, <1>10, <1>11, <1>14 DEF QueueStep, HostStep

(***************************************************************************)
(* Steps that send nothing of the page's, and do not run the pump.         *)
(***************************************************************************)

Quiet ==
  /\ UNCHANGED <<pump, produced>>
  /\ cursor' = "completed" <=> cursor = "completed"
  /\ native' = "gone" <=> native = "gone"
  /\ \A p \in Payloads : Emit(p) \in wire' <=> Emit(p) \in wire
  /\ \A b \in BOOLEAN : Reply("receipt", b) \in wire' => Reply("receipt", b) \in wire
  /\ Reply("ran", TRUE) \in wire' => Reply("ran", TRUE) \in wire
  /\ Request("run") \in wire' => Request("run") \in wire \/ pump = "none"

LEMMA QuietPageFits ==
  ASSUME PageFits, Quiet, terminal # None => terminal' # None
  PROVE  PageFits'
<1>1. /\ UNCHANGED <<pump, produced>>
      /\ Request("run") \in wire' => pump = "none"
      /\ cursor' = "completed" <=> cursor = "completed"
      /\ Reply("receipt", TRUE) \in wire' => Reply("receipt", TRUE) \in wire
      /\ Reply("receipt", FALSE) \in wire' => Reply("receipt", FALSE) \in wire
      /\ Reply("ran", TRUE) \in wire' => Reply("ran", TRUE) \in wire
  BY DEF Quiet, PageFits
<1>2. ASSUME NEW p \in Payloads, Emit(p) \in wire'
      PROVE  /\ native' # "gone"
             /\ pump' = IF p \in Chunks THEN "emitting" ELSE "ending"
             /\ p \in Chunks => p = produced'
             /\ p = Done => cursor' = "completed"
             /\ \A b \in BOOLEAN : Reply("receipt", b) \notin wire'
             /\ \A q \in Payloads : Emit(q) \in wire' => q = p
  BY <1>1, <1>2 DEF Quiet, PageFits
<1>3. pump' = "none" => produced' = 0
  BY <1>1 DEF PageFits
<1>4. cursor' = "completed" => pump' \in {"ending", "over"}
  BY <1>1 DEF PageFits
<1>5. Reply("receipt", TRUE) \in wire' => pump' = "emitting"
  BY <1>1 DEF PageFits
<1>6. Reply("receipt", FALSE) \in wire' => pump' = "ending" /\ terminal' # None
  BY <1>1 DEF PageFits
<1>7. Reply("ran", TRUE) \in wire' => pump' = "over" /\ terminal' # None
  BY <1>1 DEF PageFits
<1> QED
  BY <1>1, <1>2, <1>3, <1>4, <1>5, <1>6, <1>7 DEF PageFits

LEMMA QuietNothingIsLost ==
  ASSUME StreamInv, Quiet, HostStep, Keeps
  PROVE  NothingIsLost'
<1> USE KindsDiffer
<1>i. StreamTypes /\ QueueFits /\ ReadersFit /\ OperationFits /\ PageFits /\ NothingIsLost
  BY DEF StreamInv
<1>0. /\ Len(buffered) \in Nat /\ Len(pending) \in Nat /\ called \in Nat /\ Base \in Nat
      /\ Len(pending) > 0 => Len(buffered) = 0
      /\ called = Base + Len(pending)
      /\ Readers \subseteq Int
      /\ \A n \in 1 .. called : n \in Readers
  BY <1>i, QueueLens, PageStreamAssumption DEF Base, Readers, StreamTypes
<1> SUFFICES ASSUME operation' # "none", terminal' = None
             PROVE  /\ \A n \in 1 .. called' - Len(pending') : got'[n] = n
                    /\ native' # "gone" =>
                         called' + Len(buffered') - Len(pending')
                           = IF Emitting' THEN produced' - 1 ELSE produced'
  BY DEF NothingIsLost
<1>1. /\ produced' = produced /\ (native' # "gone" <=> native # "gone")
      /\ Emitting' <=> Emitting
  BY DEF Quiet, Emitting
<1>2. operation = "none" => StartsToWait
  BY DEF Keeps
<1>3. operation # "none" /\ terminal = None =>
        /\ \A n \in 1 .. Base : got[n] = n
        /\ native # "gone" => called + Len(buffered) - Len(pending)
                              = IF Emitting THEN produced - 1 ELSE produced
  BY <1>i DEF NothingIsLost, Base
<1>4. CASE QueueStays
  <2>1. operation # "none"
    BY <1>2, <1>4, <1>0 DEF QueueStays, StartsToWait
  <2>2. UNCHANGED <<called, got, buffered, terminal, pending>>
    BY <1>4 DEF QueueStays
  <2> QED
    BY <1>1, <1>3, <2>1, <2>2 DEF Base
<1>5. CASE \E p \in Ends : Ended(p)
  BY <1>5 DEF Ended
<1>6. ASSUME NEW p \in Ends, Answers(p), terminal # None \/ Refused PROVE FALSE
  BY <1>6, <1>2, <1>0 DEF Answers, StartsToWait, Refused
<1>7. CASE TakesHead /\ operation # "none"
  <2>1. /\ called' = called + 1 /\ called + 1 \in Readers /\ pending' = pending
        /\ Len(buffered) > 0 /\ Len(pending) = 0 /\ terminal = None
        /\ Len(buffered') = Len(buffered) - 1
        /\ Gives(buffered[1], called + 1, called + 1)
    BY <1>7, <1>0 DEF TakesHead
  <2>2. buffered[1] = called + 1
    <3>1. buffered[1] \in Payloads
      BY <1>i, <2>1, <1>0, ElementOfSeq DEF StreamTypes
    <3> QED
      BY <3>1, <1>i, <2>1, <1>0 DEF QueueFits
  <2>3. ASSUME NEW n \in 1 .. called + 1 PROVE got'[n] = n
    <3>1. CASE n = called + 1
      BY <3>1, <2>1, <2>2, <1>0 DEF Gives
    <3>2. CASE n # called + 1
      <4>1. n \in 1 .. called /\ Base = called
        BY <3>2, <2>1, <1>0
      <4> QED
        BY <4>1, <2>1, <1>0, <1>3, <1>7 DEF Gives
    <3> QED
      BY <3>1, <3>2
  <2>4. called' + Len(buffered') - Len(pending') = called + Len(buffered) - Len(pending)
    BY <2>1, <1>0
  <2>5. called' - Len(pending') = called + 1
    BY <2>1, <1>0
  <2> QED
    BY <2>1, <2>3, <2>4, <2>5, <1>1, <1>3, <1>7
<1>8. CASE StartsToWait /\ ~ Refused
  <2>1. /\ called' = called + 1 /\ got' = got /\ buffered' = buffered
        /\ Len(buffered) = 0 /\ Len(pending') = Len(pending) + 1 /\ terminal = None
    BY <1>8 DEF StartsToWait
  <2>2. /\ called' - Len(pending') = Base
        /\ called' + Len(buffered') - Len(pending') = called + Len(buffered) - Len(pending)
    BY <2>1, <1>0
  <2>3. CASE operation # "none"
    BY <2>1, <2>2, <2>3, <1>1, <1>3
  <2>4. CASE operation = "none"
    <3>1. called = 0 /\ pump = "none"
      BY <2>1, <2>4, <1>8, <1>i DEF OperationFits, Refused
    <3>2. Base = 0 /\ called + Len(buffered) - Len(pending) = 0
      BY <3>1, <2>1, <1>0
    <3>3. produced = 0 /\ ~ Emitting
      BY <3>1, <1>i DEF PageFits, Emitting
    <3> QED
      BY <2>1, <2>2, <3>2, <3>3, <1>1
  <2> QED
    BY <2>3, <2>4
<1> QED
  BY <1>4, <1>5, <1>6, <1>7, <1>8 DEF HostStep

(***************************************************************************)
(* The actions.                                                            *)
(***************************************************************************)

LEMMA MessagesDiffer ==
  /\ \A p, q : Emit(p) = Emit(q) => p = q
  /\ \A p, fn : Emit(p) # Request(fn)
  /\ \A p, fn, b : Emit(p) # Reply(fn, b)
  /\ \A fn, gn, b : Request(fn) # Reply(gn, b)
  /\ \A fn, gn : Request(fn) = Request(gn) => fn = gn
  /\ \A fn, gn, b, c : Reply(fn, b) = Reply(gn, c) => fn = gn /\ b = c
BY DEF Emit, Request, Reply

\* What a host step leaves of the books it does not touch.
HostFits == QueueTypes' /\ HostStep /\ Keeps /\ Quiet /\ OperationFits'

LEMMA NextCallFits ==
  ASSUME StreamInv, NextCall PROVE HostFits
<1> USE KindsDiffer
<1>i. StreamTypes /\ QueueFits /\ ReadersFit /\ OperationFits /\ PageFits /\ DoneFits /\ EndsAreLast
  BY DEF StreamInv
<1>l. /\ Len(buffered) \in Nat /\ Len(pending) \in Nat /\ called \in Nat
      /\ buffered = <<>> <=> Len(buffered) = 0
      /\ pending = <<>> <=> Len(pending) = 0
      /\ Len(pending) > 0 => terminal = None
  BY <1>i, QueueLens
<1>0. /\ called' = called + 1 /\ called + 1 \in Readers
      /\ UNCHANGED <<stopped, closers, registered, aborted, pump, cursor, produced, native>>
  BY DEF NextCall, pageVars
<1>1. CASE stopped
  <2>1. Refuse(called + 1, Done)
    BY <1>1 DEF NextCall
  <2>2. /\ UNCHANGED <<buffered, terminal, pending, listed, operation, settled, wire>>
        /\ got' = [got EXCEPT ![called + 1] = Done]
    BY <2>1 DEF Refuse, queueVars, operationVars
  <2>3. terminal # None /\ buffered = <<>> /\ Complete
    BY <1>1, <1>i DEF OperationFits, DoneFits
  <2>4. Gives(Done, called + 1, called + 1)
    BY <1>0, <1>i, <1>l, <2>2 DEF Gives, Readers, StreamTypes
  <2>5. Answers(Done)
    BY <1>0, <1>l, <2>2, <2>3, <2>4 DEF Answers
  <2>6. QueueTypes'
    BY <1>0, <1>i, <2>2 DEF QueueTypes, StreamTypes
  <2>7. HostStep
    BY <2>3, <2>5 DEF HostStep
  <2>8. Keeps
    BY <1>0, <1>i, <2>2 DEF Keeps, StreamTypes
  <2>9. Quiet
    BY <1>0, <2>2 DEF Quiet
  <2>10. OperationFits'
    BY <1>0, <1>i, <2>2, <2>3 DEF OperationFits
  <2> QED
    BY <2>6, <2>7, <2>8, <2>9, <2>10 DEF HostFits
<1>2. CASE ~ stopped /\ Refused
  <2>1. Refuse(called + 1, Error)
    BY <1>2 DEF NextCall, Refused
  <2>2. /\ UNCHANGED <<buffered, terminal, pending, listed, operation, settled, wire>>
        /\ got' = [got EXCEPT ![called + 1] = Error]
    BY <2>1 DEF Refuse, queueVars, operationVars
  <2>3. buffered = <<>> /\ pending = <<>>
    BY <1>2, <1>i DEF OperationFits, Refused
  <2>4. Gives(Error, called + 1, called + 1)
    BY <1>0, <1>i, <1>l, <2>2 DEF Gives, Readers, StreamTypes
  <2>5. Answers(Error)
    BY <1>0, <1>l, <2>2, <2>3, <2>4 DEF Answers
  <2>6. QueueTypes'
    BY <1>0, <1>i, <2>2 DEF QueueTypes, StreamTypes
  <2>7. HostStep
    BY <1>2, <2>5 DEF HostStep
  <2>8. Keeps
    BY <1>0, <1>i, <2>2 DEF Keeps, StreamTypes
  <2>9. Quiet
    BY <1>0, <2>2 DEF Quiet
  <2>10. OperationFits'
    BY <1>0, <1>2, <1>i, <2>2, <2>3 DEF OperationFits, Refused
  <2> QED
    BY <2>6, <2>7, <2>8, <2>9, <2>10 DEF HostFits
<1>3. CASE ~ stopped /\ ~ Refused
  <2>1. /\ Take(called + 1)
        /\ IF operation = "none" THEN Start ELSE UNCHANGED <<listed, operationVars, wire>>
    BY <1>3 DEF NextCall, Refused
  <2>2. /\ QueueTypes'
        /\ (terminal # None /\ Answers(terminal)) \/ TakesHead \/ StartsToWait
    BY <1>0, <1>i, <2>1, TakeEffect
  <2>3. terminal' = terminal
    BY <2>2 DEF Answers, TakesHead, StartsToWait
  <2>4. CASE operation # "none"
    <3>1. UNCHANGED <<listed, operation, settled, wire>>
      BY <2>1, <2>4 DEF operationVars
    <3>2. terminal # None /\ Answers(terminal) => buffered = <<>> /\ terminal \in Ends
      BY <1>i, <1>l DEF Answers, StreamTypes
    <3>3. terminal = Done /\ buffered = <<>> => Complete
      <4> SUFFICES ASSUME Delivered, buffered = <<>> PROVE Complete
        BY <1>i DEF DoneFits
      <4>1. \A i : i \notin 1 .. Len(buffered)
        BY <1>l
      <4> QED
        BY <4>1 DEF Delivered, Complete
    <3>4. HostStep
      BY <1>3, <2>2, <2>4, <3>2, <3>3 DEF HostStep
    <3>5. Keeps
      BY <1>0, <1>i, <3>1 DEF Keeps, StreamTypes
    <3>6. Quiet
      BY <1>0, <3>1 DEF Quiet
    <3>7. OperationFits'
      BY <1>0, <1>3, <1>i, <2>3, <2>4, <3>1 DEF OperationFits
    <3> QED
      BY <2>2, <3>4, <3>5, <3>6, <3>7 DEF HostFits
  <2>5. CASE operation = "none"
    <3>1. terminal = None /\ settled = "none" /\ buffered = <<>> /\ pump = "none" /\ Request("run") \notin wire
      BY <1>3, <2>5, <1>i DEF OperationFits
    <3>2. StartsToWait
      BY <2>2, <3>1, <1>l DEF TakesHead
    <3>3. /\ listed' = TRUE
          /\ operation' \in {"beginning", "over"}
          /\ wire' = wire \/ wire' = wire \cup {Request("begin")}
          /\ settled' # "value"
      BY <2>1, <2>5, <3>1 DEF Start
    <3>4. HostStep
      BY <1>3, <3>2 DEF HostStep
    <3>5. Keeps
      BY <1>0, <1>i, <2>5, <3>2 DEF Keeps, StreamTypes
    <3>6. /\ \A m : m \in wire' <=> m \in wire \/ (m = Request("begin") /\ wire' # wire)
          /\ Request("run") \notin wire'
      BY <3>1, <3>3, MessagesDiffer
    <3>7. Quiet
      <4>1. \A p \in Payloads : Emit(p) \in wire' <=> Emit(p) \in wire
        BY <3>6, MessagesDiffer
      <4>2. /\ \A b \in BOOLEAN : Reply("receipt", b) \in wire' => Reply("receipt", b) \in wire
            /\ Reply("ran", TRUE) \in wire' => Reply("ran", TRUE) \in wire
        <5>1. \A fn, b : Reply(fn, b) # Request("begin")
          BY MessagesDiffer
        <5>2. \A fn, b : Reply(fn, b) \in wire' => Reply(fn, b) \in wire
          BY <3>6, <5>1
        <5> QED
          BY <5>2
      <4> QED
        BY <1>0, <3>6, <4>1, <4>2 DEF Quiet
    <3>8. OperationFits'
      BY <1>0, <1>3, <3>1, <3>3, <3>6 DEF OperationFits
    <3> QED
      BY <2>2, <3>4, <3>5, <3>7, <3>8 DEF HostFits
  <2> QED
    BY <2>4, <2>5
<1> QED
  BY <1>1, <1>2, <1>3

\* Messages that the page's own work is not about.
LEMMA QuietWire ==
  ASSUME NEW ms, UNCHANGED <<pump, cursor, produced, native>>, wire' = wire \cup ms,
         ms \subseteq {Request("cancel"), Request("destroy"), Request("begin")}
  PROVE  Quiet /\ (Request("run") \in wire' => Request("run") \in wire)
<1>1. \A p \in Payloads : Emit(p) \in wire' <=> Emit(p) \in wire
  BY MessagesDiffer
<1>2. /\ \A fn, b : Reply(fn, b) \in wire' => Reply(fn, b) \in wire
      /\ Request("run") \in wire' => Request("run") \in wire
  BY MessagesDiffer
<1> QED
  BY <1>1, <1>2 DEF Quiet

\* A step that ends the queue, or leaves it alone.
EndingStep ==
  /\ Quiet /\ UNCHANGED operation /\ closers \subseteq closers'
  /\ \/ QueueStays /\ QueueTypes'
     \/ Close(Error) /\ operation # "none"
     \/ Close(Done) /\ stopped' /\ "return" \in closers'
  /\ stopped' = stopped \/ (terminal' # None /\ buffered' = <<>> /\ "return" \in closers')
  /\ stopped => stopped'
  /\ operation = "none" => settled' = settled /\ ~ listed'
  /\ (listed' <=> listed) \/ (~ listed' /\ (terminal' # None))
  /\ settled' = "value" => settled = "value"
  /\ Request("run") \in wire' => Request("run") \in wire

LEMMA EndingFits == StreamInv /\ EndingStep => HostFits
<1> SUFFICES ASSUME StreamInv, EndingStep PROVE HostFits
  OBVIOUS
<1> USE KindsDiffer
<1>i. StreamTypes /\ QueueFits /\ OperationFits
  BY DEF StreamInv
<1>e. /\ Quiet /\ operation' = operation /\ closers \subseteq closers'
      /\ stopped' = stopped \/ (terminal' # None /\ buffered' = <<>> /\ "return" \in closers')
      /\ stopped => stopped'
      /\ operation = "none" => settled' = settled /\ ~ listed'
      /\ (listed' <=> listed) \/ (~ listed' /\ (terminal' # None))
      /\ settled' = "value" => settled = "value"
      /\ Request("run") \in wire' => Request("run") \in wire
  BY DEF EndingStep
<1>1. \/ QueueStays /\ QueueTypes'
      \/ Close(Error) /\ operation # "none"
      \/ Close(Done) /\ stopped' /\ "return" \in closers'
  BY DEF EndingStep
<1>2. ASSUME NEW p \in Ends, Close(p)
      PROVE  QueueTypes' /\ Ended(p) /\ terminal' = p /\ buffered' = <<>> /\ pending' = <<>>
  BY <1>i, <1>2, CloseEffect DEF Close
<1>3. QueueTypes'
  BY <1>1, <1>2
<1>4. HostStep
  BY <1>1, <1>2 DEF HostStep
<1>5. pump' = pump /\ produced' = produced /\ (cursor = "completed" => cursor' = "completed")
  BY <1>e DEF Quiet
<1>6. Keeps
  BY <1>e, <1>i, <1>5 DEF Keeps, StreamTypes
<1>7. CASE QueueStays
  <2>1. called' = called /\ terminal' = terminal /\ buffered' = buffered /\ pending' = pending
    BY <1>7 DEF QueueStays
  <2>2. OperationFits'
    BY <2>1, <1>e, <1>i, <1>5 DEF OperationFits
  <2> QED
    BY <2>2, <1>e, <1>3, <1>4, <1>6 DEF HostFits
<1>8. ASSUME NEW p \in Ends, Close(p), operation # "none" \/ stopped' PROVE HostFits
  <2>1. terminal' = p /\ buffered' = <<>> /\ pending' = <<>> /\ p # None
    BY <1>2, <1>8
  <2>2. OperationFits'
    BY <2>1, <1>8, <1>e, <1>i, <1>5 DEF OperationFits
  <2> QED
    BY <2>2, <1>e, <1>3, <1>4, <1>6 DEF HostFits
<1> QED
  BY <1>1, <1>7, <1>8

LEMMA ResumeFits ==
  ASSUME StreamInv, NEW r \in Readers, Resume(r) PROVE HostFits
<1> USE KindsDiffer
<1>i. StreamTypes /\ QueueFits /\ OperationFits /\ DoneFits
  BY DEF StreamInv
<1>0. UNCHANGED <<called, operation, settled, closers, wire, registered, aborted, pump, cursor,
                  produced, native>>
  BY DEF Resume, operationVars, pageVars
<1>1. Quiet
  BY <1>0 DEF Quiet
<1>2. CASE got[r] \in Ends
  <2>1. /\ stopped' = TRUE /\ listed' = FALSE /\ terminal' = Done /\ buffered' = <<>> /\ pending' = <<>>
        /\ got' = [q \in Readers |-> IF q \in Waiters THEN Done ELSE got[q]]
    BY <1>2 DEF Resume
  <2>2. Complete
    BY <1>2, <1>i DEF DoneFits, Complete, Ends
  <2>3. QueueTypes' /\ Ended(Done)
    <3>1. got' = [q \in Readers |-> IF q \in (Base + 1) .. called THEN Done ELSE got[q]]
      BY <2>1, <1>i, QueueLens
    <3>2. Gives(Done, Base + 1, called)
      BY <3>1, <1>i, QueueLens DEF Gives, Readers
    <3>3. Len(buffered') = 0 /\ Len(pending') = 0
      BY <2>1
    <3>4. QueueTypes'
      BY <2>1, <3>1, <1>i DEF QueueTypes, StreamTypes
    <3> QED
      BY <2>1, <3>2, <3>3, <3>4, <1>0 DEF Ended
  <2>4. HostStep
    BY <2>2, <2>3 DEF HostStep
  <2>5. Keeps
    BY <1>0, <1>i, <2>2 DEF Keeps, StreamTypes
  <2>6. OperationFits'
    BY <1>0, <1>i, <2>1 DEF OperationFits
  <2> QED
    BY <1>1, <2>3, <2>4, <2>5, <2>6 DEF HostFits
<1>3. CASE got[r] \notin Ends
  <2>1. UNCHANGED <<got, buffered, terminal, pending, stopped, listed>>
    BY <1>3 DEF Resume, queueVars
  <2>2. QueueStays /\ QueueTypes'
    BY <1>0, <1>i, <2>1 DEF QueueStays, QueueTypes, StreamTypes
  <2>3. operation = "none" => ~ listed
    BY <1>i DEF OperationFits
  <2>4. EndingStep
    BY <1>0, <1>1, <2>1, <2>2, <2>3 DEF EndingStep
  <2> QED
    BY <2>4, EndingFits
<1> QED
  BY <1>2, <1>3

LEMMA StaysTyped ==
  ASSUME StreamInv, UNCHANGED <<readerVars, queueVars>> PROVE QueueStays /\ QueueTypes'
BY DEF StreamInv, StreamTypes, QueueTypes, QueueStays, readerVars, queueVars

LEMMA CancelFits ==
  ASSUME StreamInv, CancelOperation
  PROVE  /\ CancelRequest \subseteq {Request("cancel")}
         /\ settled' = "value" => settled = "value"
         /\ operation = "none" => settled' = settled
BY DEF CancelOperation, CancelRequest, Cancelling

LEMMA ReturnFits ==
  ASSUME StreamInv, Return PROVE HostFits
<1>i. OperationFits
  BY DEF StreamInv
<1>0. /\ UNCHANGED <<operation, registered, aborted, pump, cursor, produced, native>>
      /\ closers' = closers \cup {"return"} /\ wire' = wire \cup CancelRequest /\ CancelOperation
      /\ stopped' = TRUE /\ listed' = FALSE /\ Close(Done) /\ terminal' = Done /\ buffered' = <<>>
  BY DEF Return, Finish, pageVars, Close
<1>1. Quiet /\ (Request("run") \in wire' => Request("run") \in wire)
  BY <1>0, CancelFits, QuietWire
<1>2. EndingStep
  BY <1>0, <1>1, CancelFits, KindsDiffer DEF EndingStep
<1> QED
  BY <1>2, EndingFits

LEMMA AbortFits ==
  ASSUME StreamInv, Abort \/ DestroySession PROVE HostFits
<1>i. OperationFits
  BY DEF StreamInv
<1>0. /\ UNCHANGED <<operation, pump, cursor, produced, native, stopped, listed, readerVars, queueVars>>
      /\ closers \subseteq closers' /\ CancelOperation
  BY DEF Abort, DestroySession, pageVars
<1>1. wire' = wire \cup (wire' \ wire) /\ wire' \ wire \subseteq CancelRequest \cup {Request("destroy")}
  BY DEF Abort, DestroySession
<1>2. Quiet /\ (Request("run") \in wire' => Request("run") \in wire)
  BY <1>0, <1>1, CancelFits, QuietWire
<1>3. operation = "none" => ~ listed
  BY <1>i DEF OperationFits
<1>4. EndingStep
  BY <1>0, <1>2, <1>3, CancelFits, StaysTyped DEF EndingStep
<1> QED
  BY <1>4, EndingFits

LEMMA CloseBridgeFits ==
  ASSUME StreamInv, CloseBridge PROVE HostFits
<1>i. OperationFits
  BY DEF StreamInv
<1>0. /\ UNCHANGED <<operation, settled, wire, pump, cursor, produced, native, stopped>>
      /\ closers \subseteq closers' /\ listed' = FALSE
      /\ IF listed THEN Close(Error) ELSE UNCHANGED <<readerVars, queueVars>>
  BY DEF CloseBridge, pageVars, operationVars
<1>1. Quiet
  BY <1>0 DEF Quiet
<1>2. (operation = "none" => ~ listed) /\ (operation # "none" /\ ~ listed => terminal # None)
  BY <1>i DEF OperationFits
<1>3. CASE listed
  <2>1. Close(Error) /\ terminal' # None /\ operation # "none"
    BY <1>0, <1>2, <1>3, KindsDiffer DEF Close
  <2>2. EndingStep
    BY <2>1, <1>0, <1>1 DEF EndingStep
  <2> QED
    BY <2>2, EndingFits
<1>4. CASE ~ listed
  <2>1. QueueStays /\ QueueTypes'
    BY <1>0, <1>4, StaysTyped
  <2>2. EndingStep
    BY <2>1, <1>0, <1>1, <1>4 DEF EndingStep
  <2> QED
    BY <2>2, EndingFits
<1> QED
  BY <1>3, <1>4

LEMMA BegunFits ==
  ASSUME StreamInv, NEW ok \in BOOLEAN, Begun(ok) PROVE HostFits
<1>i. StreamTypes /\ OperationFits
  BY DEF StreamInv
<1>0. /\ UNCHANGED <<pump, cursor, produced, native, stopped, listed, closers, readerVars, queueVars>>
      /\ operation = "beginning" /\ operation' \in {"invoking", "over"}
      /\ settled' = "value" => settled = "value"
      /\ wire' \subseteq wire \cup {Request("run"), Request("cancel")}
      /\ wire \ wire' \subseteq {Reply("begun", TRUE), Reply("begun", FALSE)}
  BY DEF Begun, Exchange, pageVars
<1>1. pump = "none"
  BY <1>0, <1>i DEF OperationFits
<1>2. Quiet
  <2>0. \A m : /\ m \in wire' => m \in wire \/ m \in {Request("run"), Request("cancel")}
               /\ m \in wire => m \in wire' \/ m \in {Reply("begun", TRUE), Reply("begun", FALSE)}
    BY <1>0
  <2>d. /\ \A p : Emit(p) \notin {Request("run"), Request("cancel")}
                             \cup {Reply("begun", TRUE), Reply("begun", FALSE)}
        /\ \A b : Reply("receipt", b) \notin {Request("run"), Request("cancel")}
        /\ Reply("ran", TRUE) \notin {Request("run"), Request("cancel")}
    BY MessagesDiffer, "begun" # "receipt", "begun" # "ran"
  <2>1. \A p \in Payloads : Emit(p) \in wire' <=> Emit(p) \in wire
    BY <2>0, <2>d
  <2>2. \A b \in BOOLEAN : Reply("receipt", b) \in wire' => Reply("receipt", b) \in wire
    BY <2>0, <2>d
  <2>3. Reply("ran", TRUE) \in wire' => Reply("ran", TRUE) \in wire
    BY <2>0, <2>d
  <2> QED
    BY <2>1, <2>2, <2>3, <1>0, <1>1 DEF Quiet
<1>3. QueueStays /\ QueueTypes' /\ HostStep
  BY <1>0, StaysTyped DEF HostStep
<1>4. Keeps
  BY <1>0, <1>i DEF Keeps, StreamTypes
<1>5. OperationFits'
  BY <1>0, <1>i DEF OperationFits, readerVars, queueVars
<1> QED
  BY <1>2, <1>3, <1>4, <1>5 DEF HostFits

LEMMA RanFits ==
  ASSUME StreamInv, Ran PROVE HostFits
<1>i. StreamTypes /\ OperationFits /\ PageFits
  BY DEF StreamInv
<1>0. /\ UNCHANGED <<pump, cursor, produced, native, stopped, listed, closers, readerVars, queueVars>>
      /\ operation' = "over" /\ Reply("ran", TRUE) \in wire
      /\ wire' = wire \ {Reply("ran", TRUE)}
  BY DEF Ran, Exchange, pageVars
<1>1. pump # "none" /\ terminal # None
  BY <1>0, <1>i DEF PageFits
<1>2. Quiet
  BY <1>0, MessagesDiffer DEF Quiet
<1>3. QueueStays /\ QueueTypes' /\ HostStep
  BY <1>0, StaysTyped DEF HostStep
<1>4. operation # "none"
  BY <1>1, <1>i DEF OperationFits
<1>5. Keeps
  BY <1>0, <1>4, <1>i DEF Keeps, StreamTypes
<1>6. OperationFits'
  BY <1>0, <1>1, <1>4, <1>i DEF OperationFits, readerVars, queueVars
<1> QED
  BY <1>2, <1>3, <1>5, <1>6 DEF HostFits

LEMMA OperationSettlesFits ==
  ASSUME StreamInv, OperationSettles PROVE HostFits
<1>i. OperationFits
  BY DEF StreamInv
<1>0. /\ UNCHANGED <<operation, wire, pump, cursor, produced, native, stopped, closers>>
      /\ settled' = "handled" /\ listed' = FALSE /\ settled \in {"value", "rejected"}
      /\ IF settled = "rejected" THEN Close(Error) ELSE UNCHANGED <<readerVars, queueVars>>
  BY DEF OperationSettles, pageVars
<1>1. Quiet
  BY <1>0 DEF Quiet
<1>2. operation # "none" /\ (settled = "value" => terminal # None)
  BY <1>0, <1>i DEF OperationFits
<1>3. CASE settled = "rejected"
  <2>1. Close(Error) /\ terminal' # None
    BY <1>0, <1>3, KindsDiffer DEF Close
  <2>2. EndingStep
    BY <2>1, <1>0, <1>1, <1>2 DEF EndingStep
  <2> QED
    BY <2>2, EndingFits
<1>4. CASE settled = "value"
  <2>1. QueueStays /\ QueueTypes' /\ terminal' # None
    BY <1>0, <1>2, <1>4, StaysTyped DEF QueueStays
  <2>2. EndingStep
    BY <2>1, <1>0, <1>1, <1>2 DEF EndingStep
  <2> QED
    BY <2>2, EndingFits
<1> QED
  BY <1>0, <1>3, <1>4

\* The page registers, cancels or destroys: the pump goes on as it was.
LEMMA PageRequestFits ==
  ASSUME StreamInv, PageBeginOperation \/ PageCancelOperation \/ PageDestroySession PROVE HostFits
<1>i. OperationFits
  BY DEF StreamInv
<1>0. /\ UNCHANGED <<operation, settled, pump, produced, stopped, listed, closers, readerVars, queueVars>>
      /\ cursor' = cursor \/ (cursor = "open" /\ cursor' = "cancelled")
      /\ native # "gone" /\ native' # "gone"
      /\ wire' \subseteq wire \cup {Reply("begun", TRUE), Reply("begun", FALSE)}
      /\ wire \ wire' \subseteq {Request("begin"), Request("cancel"), Request("destroy")}
  <2>1. CASE PageBeginOperation
    <3>1. PICK known \in BOOLEAN : Exchange(Request("begin"), {Reply("begun", known)})
      BY <2>1 DEF PageBeginOperation
    <3>2. /\ UNCHANGED <<operation, settled, pump, produced, stopped, listed, closers, readerVars, queueVars>>
          /\ cursor' = cursor /\ native # "gone" /\ native' = native
      BY <2>1 DEF PageBeginOperation, operationVars
    <3>3. /\ wire' \subseteq wire \cup {Reply("begun", TRUE), Reply("begun", FALSE)}
          /\ wire \ wire' \subseteq {Request("begin")}
      BY <3>1 DEF Exchange
    <3> QED
      BY <3>2, <3>3
  <2>2. CASE PageCancelOperation \/ PageDestroySession
    BY <2>2 DEF PageCancelOperation, PageDestroySession, StopOperation, Exchange, operationVars
  <2> QED
    BY <2>1, <2>2
<1>1. Quiet /\ (Request("run") \in wire' => Request("run") \in wire)
  <2>0. \A m : /\ m \in wire' => m \in wire \/ m \in {Reply("begun", TRUE), Reply("begun", FALSE)}
               /\ m \in wire => m \in wire' \/ m \in {Request("begin"), Request("cancel"), Request("destroy")}
    BY <1>0
  <2>d. /\ \A p : Emit(p) \notin {Reply("begun", TRUE), Reply("begun", FALSE)}
                             \cup {Request("begin"), Request("cancel"), Request("destroy")}
        /\ \A b : Reply("receipt", b) \notin {Reply("begun", TRUE), Reply("begun", FALSE)}
        /\ Reply("ran", TRUE) \notin {Reply("begun", TRUE), Reply("begun", FALSE)}
        /\ Request("run") \notin {Reply("begun", TRUE), Reply("begun", FALSE)}
    BY MessagesDiffer, "begun" # "receipt", "begun" # "ran"
  <2>1. \A p \in Payloads : Emit(p) \in wire' <=> Emit(p) \in wire
    BY <2>0, <2>d
  <2>2. \A b \in BOOLEAN : Reply("receipt", b) \in wire' => Reply("receipt", b) \in wire
    BY <2>0, <2>d
  <2>3. Reply("ran", TRUE) \in wire' => Reply("ran", TRUE) \in wire
    BY <2>0, <2>d
  <2>4. Request("run") \in wire' => Request("run") \in wire
    BY <2>0, <2>d
  <2> QED
    BY <2>1, <2>2, <2>3, <2>4, <1>0 DEF Quiet
<1>2. operation = "none" => ~ listed
  BY <1>i DEF OperationFits
<1>3. EndingStep
  BY <1>0, <1>1, <1>2, StaysTyped DEF EndingStep
<1> QED
  BY <1>3, EndingFits

(***************************************************************************)
(* The pump, and the browser that goes: the queue stays as it is.          *)
(***************************************************************************)

StepFits == QueueTypes' /\ QueueStep /\ Keeps /\ OperationFits' /\ PageFits' /\ NothingIsLost'

LEMMA HostStepFits == StreamInv /\ HostFits => StepFits
<1> SUFFICES ASSUME StreamInv, HostFits PROVE StepFits
  OBVIOUS
<1>1. QueueTypes' /\ HostStep /\ Keeps /\ Quiet /\ OperationFits' /\ QueueStep
  BY DEF HostFits, QueueStep
<1>2. terminal # None => terminal' # None
  BY <1>1, QueueGrows DEF StreamInv
<1>3. PageFits'
  BY <1>1, <1>2, QuietPageFits DEF StreamInv
<1>4. NothingIsLost'
  BY <1>1, QuietNothingIsLost
<1> QED
  BY <1>1, <1>3, <1>4 DEF StepFits

\* The rest of a page's step, once the page's own books are known to fit.
LEMMA PageStepFits ==
  ASSUME StreamInv, UNCHANGED <<readerVars, queueVars, stopped, listed, closers, operation, settled>>,
         operation \notin {"none", "beginning"},
         produced' \in 0 .. MaxChunks, PageFits',
         cursor = "completed" => cursor' = "completed" /\ produced' = produced,
         native' # "gone" =>
           /\ native # "gone"
           /\ (IF Emitting' THEN produced' - 1 ELSE produced') = (IF Emitting THEN produced - 1 ELSE produced)
  PROVE  StepFits
<1>i. OperationFits /\ NothingIsLost
  BY DEF StreamInv
<1>1. QueueStays /\ QueueTypes' /\ QueueStep
  BY StaysTyped DEF QueueStep, HostStep
<1>2. UNCHANGED <<called, got, buffered, terminal, pending>>
  BY <1>1 DEF QueueStays
<1>3. Keeps
  BY DEF Keeps
<1>4. OperationFits'
  BY <1>i, <1>2 DEF OperationFits
<1>5. NothingIsLost'
  BY <1>i, <1>2 DEF NothingIsLost
<1> QED
  BY <1>1, <1>3, <1>4, <1>5 DEF StepFits

LEMMA BrowserGoesFits ==
  ASSUME StreamInv, BrowserGoes \/ EvaluateFails PROVE StepFits
<1>i. StreamTypes /\ OperationFits /\ PageFits /\ NothingIsLost
  BY DEF StreamInv
<1>0. /\ UNCHANGED <<pump, cursor, produced, stopped, listed, closers, readerVars, queueVars>>
      /\ wire' = {} /\ native' = "gone"
      /\ \/ operation' = operation /\ settled' = settled
         \/ operation \in {"beginning", "invoking"} /\ operation' = "over"
            /\ (settled' = "value" => settled = "value")
  BY DEF BrowserGoes, EvaluateFails, pageVars, operationVars
<1>1. QueueStays /\ QueueTypes' /\ QueueStep
  BY <1>0, StaysTyped DEF QueueStep, HostStep
<1>2. UNCHANGED <<called, got, buffered, terminal, pending>>
  BY <1>1 DEF QueueStays
<1>3. Keeps
  BY <1>0, <1>i DEF Keeps, StreamTypes
<1>4. OperationFits'
  BY <1>i, <1>0, <1>2 DEF OperationFits
<1>5. PageFits'
  BY <1>i, <1>0, <1>2 DEF PageFits
<1>6. NothingIsLost'
  BY <1>i, <1>0, <1>2 DEF NothingIsLost
<1> QED
  BY <1>1, <1>3, <1>4, <1>5, <1>6 DEF StepFits

LEMMA PageRunFits ==
  ASSUME StreamInv, PageRun PROVE StepFits
<1> USE KindsDiffer
<1>i. StreamTypes /\ OperationFits /\ PageFits
  BY DEF StreamInv
<1> DEFINE accepted == native = "open" /\ registered
<1>0. /\ UNCHANGED <<produced, native, stopped, listed, closers, operation, settled, readerVars, queueVars>>
      /\ native # "gone" /\ Request("run") \in wire
      /\ wire' = (wire \ {Request("run")}) \cup (IF accepted THEN {} ELSE {Emit(Error)})
      /\ pump' = IF accepted THEN "reading" ELSE "ending"
      /\ cursor' = IF accepted THEN "open" ELSE cursor
  BY DEF PageRun, Exchange, operationVars
<1> HIDE DEF accepted
<1>1. pump = "none" /\ produced = 0 /\ cursor # "completed" /\ operation \notin {"none", "beginning"}
  BY <1>0, <1>i DEF OperationFits, PageFits
<1>2. /\ \A p \in Payloads : Emit(p) \notin wire
      /\ \A b \in BOOLEAN : Reply("receipt", b) \notin wire
      /\ Reply("ran", TRUE) \notin wire
  <2>1. \A p \in Payloads : Emit(p) \notin wire
    BY <1>1, <1>i DEF PageFits
  <2>2. Reply("receipt", TRUE) \notin wire /\ Reply("receipt", FALSE) \notin wire
    BY <1>1, <1>i DEF PageFits
  <2>3. Reply("ran", TRUE) \notin wire
    BY <1>1, <1>i DEF PageFits
  <2> QED
    BY <2>1, <2>2, <2>3
<1>3. /\ \A p \in Payloads : Emit(p) \in wire' => p = Error /\ ~ accepted
      /\ \A b \in BOOLEAN : Reply("receipt", b) \notin wire'
      /\ Reply("ran", TRUE) \notin wire' /\ Request("run") \notin wire'
  BY <1>0, <1>2, MessagesDiffer
<1>4. PageFits'
  <2>1. ASSUME NEW p \in Payloads, Emit(p) \in wire'
        PROVE  /\ native' # "gone"
               /\ pump' = IF p \in Chunks THEN "emitting" ELSE "ending"
               /\ p \in Chunks => p = produced'
               /\ p = Done => cursor' = "completed"
               /\ \A b \in BOOLEAN : Reply("receipt", b) \notin wire'
               /\ \A q \in Payloads : Emit(q) \in wire' => q = p
    BY <2>1, <1>0, <1>3
  <2> QED
    BY <2>1, <1>0, <1>1, <1>3 DEF PageFits
<1>5. ~ Emitting /\ ~ Emitting'
  BY <1>2, <1>3 DEF Emitting
<1> QED
  BY <1>0, <1>1, <1>4, <1>5, <1>i, PageStepFits DEF StreamTypes

LEMMA PumpFits ==
  ASSUME StreamInv, NEW p \in Payloads, Pump(p) PROVE StepFits
<1> USE KindsDiffer
<1>i. StreamTypes /\ OperationFits /\ PageFits
  BY DEF StreamInv
<1>0. /\ UNCHANGED <<native, stopped, listed, closers, operation, settled, readerVars, queueVars>>
      /\ native # "gone" /\ pump = "reading" /\ wire' = wire \cup {Emit(p)}
      /\ p \in Chunks => p = produced + 1
      /\ produced' = IF p \in Chunks THEN produced + 1 ELSE produced
      /\ cursor' = IF p = Done THEN "completed" ELSE cursor
      /\ pump' = IF p \in Chunks THEN "emitting" ELSE "ending"
  BY DEF Pump, operationVars
<1>1. operation \notin {"none", "beginning"} /\ cursor # "completed"
  BY <1>0, <1>i DEF OperationFits, PageFits
<1>2. /\ \A q \in Payloads : Emit(q) \notin wire
      /\ \A b \in BOOLEAN : Reply("receipt", b) \notin wire
      /\ Reply("ran", TRUE) \notin wire /\ Request("run") \notin wire
  <2>1. \A q \in Payloads : Emit(q) \notin wire
    BY <1>0, <1>i DEF PageFits
  <2>2. Reply("receipt", TRUE) \notin wire /\ Reply("receipt", FALSE) \notin wire
    BY <1>0, <1>i DEF PageFits
  <2>3. Reply("ran", TRUE) \notin wire /\ Request("run") \notin wire
    BY <1>0, <1>i DEF PageFits
  <2> QED
    BY <2>1, <2>2, <2>3
<1>3. /\ \A q \in Payloads : Emit(q) \in wire' <=> q = p
      /\ \A b \in BOOLEAN : Reply("receipt", b) \notin wire'
      /\ Reply("ran", TRUE) \notin wire' /\ Request("run") \notin wire'
  BY <1>0, <1>2, MessagesDiffer
<1>4. PageFits'
  <2>1. ASSUME NEW q \in Payloads, Emit(q) \in wire'
        PROVE  /\ native' # "gone"
               /\ pump' = IF q \in Chunks THEN "emitting" ELSE "ending"
               /\ q \in Chunks => q = produced'
               /\ q = Done => cursor' = "completed"
               /\ \A b \in BOOLEAN : Reply("receipt", b) \notin wire'
               /\ \A r \in Payloads : Emit(r) \in wire' => r = q
    BY <2>1, <1>0, <1>3
  <2>2. pump' # "none" /\ (cursor' = "completed" => pump' = "ending")
    BY <1>0, <1>1
  <2> QED
    BY <2>1, <2>2, <1>3 DEF PageFits
<1>5. ~ Emitting /\ (Emitting' <=> p \in Chunks)
  BY <1>2, <1>3 DEF Emitting
<1>6. produced \in Nat /\ produced' \in 0 .. MaxChunks
  BY <1>0, <1>i, PageStreamAssumption DEF StreamTypes, Chunks
<1>7. (IF Emitting' THEN produced' - 1 ELSE produced') = (IF Emitting THEN produced - 1 ELSE produced)
  BY <1>0, <1>5, <1>6
<1> QED
  BY <1>0, <1>1, <1>4, <1>6, <1>7, PageStepFits

LEMMA ReceivedFits ==
  ASSUME StreamInv, NEW more \in BOOLEAN, Received(more) PROVE StepFits
<1> USE KindsDiffer
<1>i. StreamTypes /\ OperationFits /\ PageFits
  BY DEF StreamInv
<1>0. /\ UNCHANGED <<native, produced, stopped, listed, closers, operation, settled, readerVars, queueVars>>
      /\ native # "gone" /\ Reply("receipt", more) \in wire
      /\ wire' = (wire \ {Reply("receipt", more)}) \cup (IF more THEN {} ELSE {Reply("ran", TRUE)})
      /\ cursor' = cursor \/ (cursor # "completed" /\ cursor' = "cancelled")
      /\ pump' = IF more THEN "reading" ELSE "over"
  BY DEF Received, Exchange, operationVars
<1>1. /\ pump = IF more THEN "emitting" ELSE "ending"
      /\ ~ more => terminal # None
  BY <1>0, <1>i DEF PageFits
<1>2. /\ \A q \in Payloads : Emit(q) \notin wire
      /\ Reply("receipt", ~ more) \notin wire
      /\ Reply("ran", TRUE) \notin wire /\ Request("run") \notin wire
  <2>1. \A q \in Payloads : Emit(q) \notin wire
    BY <1>0, <1>i DEF PageFits
  <2>2. Reply("receipt", ~ more) \notin wire
    BY <1>1, <1>i DEF PageFits
  <2>3. Reply("ran", TRUE) \notin wire /\ Request("run") \notin wire
    BY <1>1, <1>i DEF PageFits
  <2> QED
    BY <2>1, <2>2, <2>3
<1>3. /\ \A q \in Payloads : Emit(q) \notin wire'
      /\ \A b \in BOOLEAN : Reply("receipt", b) \notin wire'
      /\ Reply("ran", TRUE) \in wire' => ~ more
      /\ Request("run") \notin wire'
  BY <1>0, <1>2, MessagesDiffer
<1>4. terminal' = terminal
  BY <1>0 DEF queueVars
<1>5. cursor' = "completed" => ~ more
  BY <1>0, <1>1, <1>i DEF PageFits
<1>6. PageFits'
  BY <1>0, <1>1, <1>3, <1>4, <1>5 DEF PageFits
<1>7. ~ Emitting /\ ~ Emitting'
  BY <1>2, <1>3 DEF Emitting
<1>8. operation \notin {"none", "beginning"}
  BY <1>1, <1>i DEF OperationFits
<1>9. cursor = "completed" => cursor' = "completed"
  BY <1>0
<1> QED
  BY <1>0, <1>6, <1>7, <1>8, <1>9, <1>i, PageStepFits DEF StreamTypes

(***************************************************************************)
(* A payload comes to the host.                                            *)
(***************************************************************************)

LEMMA DeliverPageFits ==
  ASSUME StreamInv, NEW p \in Payloads, Deliver(p),
         terminal # None => terminal' # None, p \in Ends => terminal' # None
  PROVE  PageFits'
<1> USE KindsDiffer
<1>i. PageFits
  BY DEF StreamInv
<1>1. PICK k \in BOOLEAN :
        /\ k <=> p \in Chunks
        /\ wire' = (wire \ {Emit(p)}) \cup {Reply("receipt", k)}
  BY DEF Deliver, Exchange
<1>2. Emit(p) \in wire /\ UNCHANGED <<pump, cursor, produced, native>>
  BY DEF Deliver, Exchange, pageVars
<1>3. /\ pump = IF p \in Chunks THEN "emitting" ELSE "ending"
      /\ \A b \in BOOLEAN : Reply("receipt", b) \notin wire
      /\ \A q \in Payloads : Emit(q) \in wire => q = p
  BY <1>2, <1>i DEF PageFits
<1>4. Request("run") \notin wire /\ Reply("ran", TRUE) \notin wire
  BY <1>3, <1>i DEF PageFits
<1>5. /\ \A q \in Payloads : Emit(q) \notin wire'
      /\ \A b \in BOOLEAN : Reply("receipt", b) \in wire' => b = k
      /\ Request("run") \notin wire' /\ Reply("ran", TRUE) \notin wire'
  <2>0. \A m : m \in wire' <=> (m \in wire /\ m # Emit(p)) \/ m = Reply("receipt", k)
    BY <1>1
  <2>1. \A q \in Payloads : Emit(q) \notin wire'
    BY <2>0, <1>3, MessagesDiffer
  <2>2. \A b \in BOOLEAN : Reply("receipt", b) \in wire' => b = k
    BY <2>0, <1>3, MessagesDiffer
  <2>3. Request("run") \notin wire'
    BY <2>0, <1>4, MessagesDiffer
  <2>4. Reply("ran", TRUE) # Reply("receipt", k)
    BY MessagesDiffer, "receipt" # "ran"
  <2>5. Reply("ran", TRUE) \notin wire'
    BY <2>0, <2>4, <1>4
  <2> QED
    BY <2>1, <2>2, <2>3, <2>5
<1>6. /\ Reply("receipt", TRUE) \in wire' => pump' = "emitting"
      /\ Reply("receipt", FALSE) \in wire' => pump' = "ending" /\ terminal' # None
  BY <1>1, <1>2, <1>3, <1>5
<1>7. /\ pump' = "none" => produced' = 0
      /\ cursor' = "completed" => pump' \in {"ending", "over"}
  BY <1>2, <1>i DEF PageFits
<1> QED
  BY <1>5, <1>6, <1>7 DEF PageFits

LEMMA DeliverFits ==
  ASSUME StreamInv, NEW p \in Payloads, Deliver(p) PROVE StepFits
<1> USE KindsDiffer
<1>i. StreamTypes /\ QueueFits /\ ReadersFit /\ OperationFits /\ PageFits /\ NothingIsLost
  BY DEF StreamInv
<1>l. /\ Len(buffered) \in Nat /\ Len(pending) \in Nat /\ called \in Nat /\ Base \in Nat
      /\ Len(pending) > 0 => Len(buffered) = 0
      /\ called = Base + Len(pending)
      /\ Readers \subseteq Int /\ \A n \in 1 .. called : n \in Readers
  BY <1>i, QueueLens, PageStreamAssumption DEF Base, Readers, StreamTypes
<1>0. /\ UNCHANGED <<stopped, listed, operation, settled, closers, pump, cursor, produced, native>>
      /\ IF listed THEN Push(p) ELSE UNCHANGED <<readerVars, queueVars>>
      /\ Emit(p) \in wire
  BY DEF Deliver, Exchange, operationVars, pageVars
<1>r. Request("run") \notin wire' \/ Request("run") \in wire
  <2>1. PICK k \in BOOLEAN : wire' = (wire \ {Emit(p)}) \cup {Reply("receipt", k)}
    BY DEF Deliver, Exchange
  <2> QED
    BY <2>1, MessagesDiffer
<1>1. /\ native # "gone" /\ pump # "none"
      /\ p \in Chunks => p = produced /\ Emitting
      /\ p \in Ends => ~ Emitting
      /\ p = Done => cursor = "completed"
  BY <1>0, <1>i DEF PageFits, Emitting
<1>2. operation \notin {"none", "beginning"}
  BY <1>1, <1>i DEF OperationFits
<1>3. Keeps
  BY <1>0, <1>i DEF Keeps, StreamTypes
<1>4. CASE terminal # None
  <2>1. QueueStays /\ QueueTypes'
    BY <1>0, <1>4, <1>i, PushEffect, StaysTyped
  <2>2. UNCHANGED <<called, got, buffered, terminal, pending>>
    BY <2>1 DEF QueueStays
  <2>3. QueueStep
    BY <2>1 DEF QueueStep, HostStep
  <2>4. OperationFits'
    BY <1>0, <1>r, <1>2, <1>i, <2>2 DEF OperationFits
  <2>5. PageFits'
    BY <2>2, <1>4, DeliverPageFits
  <2>6. NothingIsLost'
    BY <2>2, <1>4 DEF NothingIsLost
  <2> QED
    BY <2>1, <2>3, <2>4, <2>5, <2>6, <1>3 DEF StepFits
<1>5. CASE terminal = None
  <2>1. Push(p)
    BY <1>0, <1>2, <1>5, <1>i DEF OperationFits
  <2>2. /\ QueueTypes'
        /\ p \in Ends => PushesEnd(p)
        /\ p \in Chunks => Buffers(p) \/ Hands(p)
    BY <2>1, <1>5, <1>i, PushEffect
  <2>3. /\ \A n \in 1 .. Base : got[n] = n
        /\ Base + Len(buffered) = IF Emitting THEN produced - 1 ELSE produced
    <3>1. /\ \A n \in 1 .. called - Len(pending) : got[n] = n
          /\ called + Len(buffered) - Len(pending) = IF Emitting THEN produced - 1 ELSE produced
      BY <1>1, <1>2, <1>5, <1>i DEF NothingIsLost
    <3>2. Base = called - Len(pending) /\ Base + Len(buffered) = called + Len(buffered) - Len(pending)
      BY <1>l
    <3> QED
      BY <3>1, <3>2
  <2>4. produced \in Nat
    BY <1>i, PageStreamAssumption DEF StreamTypes
  <2>5. p \in Chunks => p = Base + Len(buffered) + 1
    BY <2>3, <2>4, <1>1, <1>l
  <2>6. Arrives(p)
    BY <2>2, <2>3, <2>5, <1>1, <1>2, <1>5 DEF Arrives
  <2>7. QueueStep
    BY <2>6 DEF QueueStep
  <2>8. p \in Ends => terminal' # None
    BY <2>2 DEF PushesEnd
  <2>9. PageFits'
    BY <2>8, <1>5, DeliverPageFits
  <2>10. OperationFits'
    <3>1. ~ stopped /\ settled # "value" /\ listed
      BY <1>2, <1>5, <1>i DEF OperationFits
    <3> QED
      BY <3>1, <1>0, <1>2 DEF OperationFits
  <2>11. NothingIsLost'
    <3>1. CASE p \in Ends
      BY <2>8, <3>1 DEF NothingIsLost
    <3>2. CASE p \in Chunks
      <4>1. ~ Emitting'
        <5>1. PICK k \in BOOLEAN : wire' = (wire \ {Emit(p)}) \cup {Reply("receipt", k)}
          BY DEF Deliver, Exchange
        <5>2. \A q \in Chunks : Emit(q) \in wire => q = p
          BY <1>0, <1>i DEF PageFits
        <5> QED
          BY <5>1, <5>2, MessagesDiffer DEF Emitting
      <4>2. Base + Len(buffered) + 1 = produced
        BY <2>5, <3>2, <1>1
      <4>3. CASE Buffers(p)
        <5>1. /\ called' = called /\ got' = got /\ pending' = pending
              /\ Len(pending) = 0 /\ Len(buffered') = Len(buffered) + 1
          BY <4>3 DEF Buffers, Appended
        <5>2. called' - Len(pending') = Base /\ called' + Len(buffered') - Len(pending') = produced
          BY <5>1, <4>2, <1>l
        <5> QED
          BY <5>1, <5>2, <4>1, <2>3, <1>0 DEF NothingIsLost
      <4>4. CASE Hands(p)
        <5>1. /\ called' = called /\ Len(buffered') = Len(buffered)
              /\ Len(pending) > 0 /\ Len(pending') = Len(pending) - 1
              /\ Gives(p, Base + 1, Base + 1)
          BY <4>4 DEF Hands
        <5>2. /\ called' - Len(pending') = Base + 1
              /\ called' + Len(buffered') - Len(pending') = produced
              /\ Len(buffered) = 0 /\ p = Base + 1 /\ Base + 1 \in 1 .. called
          BY <5>1, <4>2, <2>5, <3>2, <1>l
        <5>3. ASSUME NEW n \in 1 .. Base + 1 PROVE got'[n] = n
          <6>1. n \in Readers /\ (n # Base + 1 => n \in 1 .. Base)
            BY <5>2, <1>l
          <6> QED
            BY <6>1, <5>1, <5>2, <2>3, <1>l DEF Gives
        <5> QED
          BY <5>2, <5>3, <4>1, <1>0 DEF NothingIsLost
      <4> QED
        BY <4>3, <4>4, <2>2, <3>2
    <3> QED
      BY <3>1, <3>2
  <2> QED
    BY <2>2, <2>7, <2>9, <2>10, <2>11, <1>3 DEF StepFits
<1> QED
  BY <1>4, <1>5

(***************************************************************************)
(* The invariant.                                                          *)
(***************************************************************************)

LEMMA NextFits == StreamInv /\ Next => StepFits
<1> SUFFICES ASSUME StreamInv, Next PROVE StepFits
  OBVIOUS
<1>1. CASE Caller
  BY <1>1, NextCallFits, ReturnFits, AbortFits, CloseBridgeFits, HostStepFits DEF Caller
<1>2. CASE \E r \in Readers : Resume(r)
  BY <1>2, ResumeFits, HostStepFits
<1>3. CASE (\E ok \in BOOLEAN : Begun(ok)) \/ Ran \/ OperationSettles
  BY <1>3, BegunFits, RanFits, OperationSettlesFits, HostStepFits
<1>4. CASE \E p \in Payloads : Deliver(p)
  BY <1>4, DeliverFits
<1>5. CASE BrowserGoes \/ EvaluateFails
  BY <1>5, BrowserGoesFits
<1>6. CASE PageBeginOperation \/ PageCancelOperation \/ PageDestroySession
  BY <1>6, PageRequestFits, HostStepFits
<1>7. CASE PageRun
  BY <1>7, PageRunFits
<1>8. CASE \E p \in Payloads : Pump(p)
  BY <1>8, PumpFits
<1>9. CASE \E more \in BOOLEAN : Received(more)
  BY <1>9, ReceivedFits
<1> QED
  BY <1>1, <1>2, <1>3, <1>4, <1>5, <1>6, <1>7, <1>8, <1>9, KindsDiffer DEF Next, Due, Native

LEMMA StreamInvStep == StreamInv /\ [Next]_vars => StreamInv'
<1> SUFFICES ASSUME StreamInv, [Next]_vars PROVE StreamInv'
  OBVIOUS
<1>1. CASE Next
  <2>1. QueueTypes' /\ QueueStep /\ Keeps /\ OperationFits' /\ PageFits' /\ NothingIsLost'
    BY <1>1, NextFits DEF StepFits
  <2>2. StreamTypes /\ QueueFits /\ ReadersFit /\ EndsAreLast /\ DoneFits
    BY DEF StreamInv
  <2>3. StreamTypes'
    BY <2>1, <2>2, QueueGrows DEF StreamTypes, QueueTypes, Keeps
  <2>4. QueueFits' /\ ReadersFit' /\ EndsAreLast' /\ DoneFits'
    BY <2>1, <2>2, QueueFitsStays, ReadersFitStays, EndsAreLastStays, DoneFitsStays
  <2> QED
    BY <2>1, <2>3, <2>4 DEF StreamInv
<1>2. CASE UNCHANGED vars
  <2>0. /\ UNCHANGED <<called, got, buffered, terminal, pending, stopped, listed, operation, settled>>
        /\ UNCHANGED <<closers, wire, pump, cursor, produced, native>>
    BY <1>2 DEF vars, readerVars, queueVars, operationVars, pageVars
  <2>1. StreamTypes /\ QueueFits /\ ReadersFit /\ EndsAreLast /\ OperationFits
        /\ PageFits /\ NothingIsLost /\ DoneFits
    BY DEF StreamInv
  <2>2. StreamTypes' /\ QueueFits' /\ ReadersFit'
    BY <2>0, <2>1 DEF StreamTypes, QueueFits, ReadersFit
  <2>3. EndsAreLast' /\ DoneFits'
    BY <2>0, <2>1 DEF EndsAreLast, NoChunkAfterEnd, DoneFits, Complete, Delivered
  <2>4. OperationFits' /\ NothingIsLost'
    BY <2>0, <2>1 DEF OperationFits, NothingIsLost, Emitting
  <2>5. PageFits'
    BY <2>0, <2>1 DEF PageFits
  <2> QED
    BY <2>2, <2>3, <2>4, <2>5 DEF StreamInv
<1> QED
  BY <1>1, <1>2

\* What the readers see is the page's stream: reader n gets chunk n, an end is
\* the last thing that any of them gets, and "done" is told only of a stream
\* that was closed or failed, or whose chunks all came to readers (queue.mts
\* push, next and close against the pump of page-functions.mts).
THEOREM ReadersSeeTheStream == Spec => []ReadersFollowStream
<1>1. Spec => []StreamInv
  BY StreamInvInit, StreamInvStep, PTL DEF Spec
<1> QED
  BY <1>1, StreamInvMeans, PTL
(***************************************************************************)
(* Nobody is stranded.                                                     *)
(***************************************************************************)

\* Who waits is in the queue.
Wakes ==
  /\ reader \in [Readers -> {"idle", "waiting", "resolved", "back"}]
  /\ \A r \in Readers : reader[r] = "waiting" => r \in Waiters

\* What closed the stream has rejected the operation, if there is one.
ClosersFit ==
  /\ closers \subseteq {"return", "signal", "session", "bridge"}
  /\ operation \in {"none", "beginning", "invoking", "over"}
  /\ settled \in {"none", "value", "rejected", "handled"}
  /\ "return" \in closers => stopped
  /\ operation \in {"beginning", "invoking"} /\ closers \cap {"return", "signal", "session"} # {}
       => Settled
  /\ operation = "over" => Settled
  /\ settled = "handled" => ~ listed

\* The messages by which the operation begins, ends and is cancelled.
BeginAsked == Request("begin") \in wire
BegunYes == Reply("begun", TRUE) \in wire
BegunNo == Reply("begun", FALSE) \in wire
CancelAsked == Request("cancel") \in wire

\* A registration is under way while the operation waits for it.
BeginFits ==
  /\ BeginAsked => operation = "beginning" /\ ~ registered /\ ~ BegunYes /\ ~ BegunNo
  /\ BegunYes => operation = "beginning" /\ ~ BegunNo
  /\ BegunNo => operation = "beginning"
  /\ operation = "beginning" /\ native # "gone" => BeginAsked \/ BegunYes \/ BegunNo

\* A registered operation is waited for, or its cancellation is under way.
RegisteredFits ==
  /\ registered =>
       /\ native = "open" /\ pump # "over"
       /\ \/ operation = "beginning" /\ BegunYes
          \/ operation = "invoking" /\ (Settled => CancelAsked)
          \/ operation = "over" /\ CancelAsked
  /\ cursor = "open" => registered \/ native = "gone"

\* The run of the operation has somebody to go on with it.
RunFits ==
  operation = "invoking" /\ native # "gone" =>
    \/ Request("run") \in wire
    \/ pump = "reading"
    \/ \E p \in Payloads : Emit(p) \in wire
    \/ \E more \in BOOLEAN : Reply("receipt", more) \in wire
    \/ Reply("ran", TRUE) \in wire

StrandInv == Wakes /\ ClosersFit /\ BeginFits /\ RegisteredFits /\ RunFits

LEMMA StrandInvMeans == StreamInv /\ StrandInv => NobodyIsStranded
<1> SUFFICES ASSUME StreamInv, StrandInv PROVE NobodyIsStranded
  OBVIOUS
<1> USE KindsDiffer
<1>i. OperationFits /\ QueueFits /\ StreamTypes /\ ClosersFit /\ BeginFits /\ RegisteredFits /\ RunFits
  BY DEF StreamInv, StrandInv
<1>1. operation \in {"beginning", "invoking"} => HasDue \/ (native # "gone" /\ pump = "reading")
  <2>1. CASE native = "gone"
    BY <2>1 DEF HasDue
  <2>2. CASE native # "gone" /\ operation = "beginning"
    BY <1>i, <2>2 DEF HasDue, BeginFits, BeginAsked, BegunYes, BegunNo
  <2>3. CASE native # "gone" /\ operation = "invoking"
    BY <1>i, <2>3 DEF HasDue, RunFits
  <2> QED
    BY <2>1, <2>2, <2>3
<1>2. ASSUME NEW r \in Readers, reader[r] = "waiting", ~ HasDue
      PROVE  closers = {} /\ pump = "reading"
  <2>1. pending # <<>> /\ terminal = None
    <3>1. r \in Waiters
      BY <1>2 DEF StrandInv, Wakes
    <3>2. Len(pending) > 0
      BY <1>i, <3>1, QueueLens DEF Waiters
    <3> QED
      BY <1>i, <3>2, QueueLens
  <2>2. operation # "none" /\ listed /\ settled = "none"
    BY <1>i, <1>2, <2>1 DEF OperationFits, ClosersFit, HasDue
  <2>3. operation \in {"beginning", "invoking"}
    BY <1>i, <2>2 DEF ClosersFit, Settled
  <2>4. native # "gone" /\ pump = "reading"
    BY <1>1, <1>2, <2>3
  <2>5. "bridge" \notin closers
    BY <1>2, <2>4 DEF HasDue
  <2>6. closers \cap {"return", "signal", "session"} = {}
    BY <1>i, <2>2, <2>3 DEF ClosersFit, Settled
  <2>7. closers = {}
    BY <1>i, <2>5, <2>6 DEF ClosersFit
  <2> QED
    BY <2>4, <2>7
<1>3. ASSUME closers # {}, ~ HasDue, native # "gone", registered
      PROVE  FALSE
  <2>1. "bridge" \notin closers /\ ~ CancelAsked /\ ~ BegunYes
    <3>1. BegunYes => operation = "beginning"
      BY <1>i DEF BeginFits
    <3> QED
      BY <1>3, <3>1 DEF HasDue, CancelAsked, BegunYes, BegunNo
  <2>2. operation = "invoking" /\ ~ Settled
    BY <1>i, <1>3, <2>1 DEF RegisteredFits
  <2>3. closers \cap {"return", "signal", "session"} # {}
    BY <1>i, <1>3, <2>1 DEF ClosersFit
  <2> QED
    BY <1>i, <2>2, <2>3 DEF ClosersFit
<1> QED
  BY <1>2, <1>3, <1>i DEF NobodyIsStranded, RegisteredFits

LEMMA StrandInvInit == Init => StrandInv
BY KindsDiffer DEF Init, StrandInv, Wakes, ClosersFit, BeginFits, BeginAsked, BegunYes, BegunNo,
   RegisteredFits, RunFits,
   Settled

LEMMA ClosersFitStays ==
  ASSUME StreamInv, ClosersFit, Next
  PROVE  ClosersFit'
<1> USE DEF StreamInv, OperationFits, ClosersFit, Settled, readerVars, queueVars, operationVars,
   pageVars
<1>1. ASSUME NextCall PROVE ClosersFit'
  BY <1>1 DEF NextCall, Refuse, Take, Start
<1>2. ASSUME Return PROVE ClosersFit'
  BY <1>2 DEF Return, Finish, Close, Resolve, CancelOperation, CancelRequest, Cancelling
<1>3. ASSUME Abort PROVE ClosersFit'
  BY <1>3 DEF Abort, CancelOperation, CancelRequest, Cancelling
<1>4. ASSUME DestroySession PROVE ClosersFit'
  BY <1>4 DEF DestroySession, CancelOperation, CancelRequest, Cancelling
<1>5. ASSUME CloseBridge PROVE ClosersFit'
  BY <1>5 DEF CloseBridge, Close, Resolve
<1>6. ASSUME NEW r \in Readers, Resume(r) PROVE ClosersFit'
  BY <1>6 DEF Resume
<1>7. ASSUME NEW ok \in BOOLEAN, Begun(ok) PROVE ClosersFit'
  BY <1>7 DEF Begun, Exchange
<1>8. ASSUME Ran PROVE ClosersFit'
  BY <1>8 DEF Ran, Exchange
<1>9. ASSUME OperationSettles PROVE ClosersFit'
  BY <1>9 DEF OperationSettles, Close, Resolve
<1>10. ASSUME NEW p \in Payloads, Deliver(p) PROVE ClosersFit'
  BY <1>10 DEF Deliver, Exchange, Push, Resolve
<1>11. ASSUME BrowserGoes PROVE ClosersFit'
  BY <1>11 DEF BrowserGoes
<1>12. ASSUME EvaluateFails PROVE ClosersFit'
  BY <1>12 DEF EvaluateFails
<1>13. ASSUME PageBeginOperation PROVE ClosersFit'
  BY <1>13 DEF PageBeginOperation, Exchange
<1>14. ASSUME PageCancelOperation PROVE ClosersFit'
  BY <1>14 DEF PageCancelOperation, Exchange, StopOperation
<1>15. ASSUME PageDestroySession PROVE ClosersFit'
  BY <1>15 DEF PageDestroySession, Exchange, StopOperation
<1>16. ASSUME PageRun PROVE ClosersFit'
  BY <1>16 DEF PageRun, Exchange
<1>17. ASSUME NEW p \in Payloads, Pump(p) PROVE ClosersFit'
  BY <1>17 DEF Pump
<1>18. ASSUME NEW more \in BOOLEAN, Received(more) PROVE ClosersFit'
  BY <1>18 DEF Received, Exchange
<1> HIDE DEF StreamInv, OperationFits, ClosersFit, Settled, readerVars, queueVars, operationVars,
   pageVars
<1> QED
  BY <1>1, <1>2, <1>3, <1>4, <1>5, <1>6, <1>7, <1>8, <1>9, <1>10, <1>11, <1>12, <1>13, <1>14, <1>15,
     <1>16, <1>17, <1>18, KindsDiffer DEF Next, Caller, Due, Native

\* A step that leaves the registration alone.
LEMMA BeginFitsFrame ==
  ASSUME BeginFits, UNCHANGED <<operation, native>>, registered' => registered,
         BeginAsked' <=> BeginAsked,
         BegunYes' <=> BegunYes, BegunNo' <=> BegunNo
  PROVE  BeginFits'
BY DEF BeginFits

LEMMA BeginFitsStays ==
  ASSUME StreamInv, BeginFits, ClosersFit, RegisteredFits, Next
  PROVE  BeginFits'
<1>1. ASSUME NextCall PROVE BeginFits'
  <2>1. UNCHANGED <<registered, native>>
    BY <1>1 DEF NextCall, pageVars
  <2>2. CASE UNCHANGED <<operation, wire>>
    BY <2>1, <2>2, BeginFitsFrame DEF BeginAsked, BegunYes, BegunNo
  <2>3. CASE operation = "none" /\ Start
    <3>1. ~ BeginAsked /\ ~ BegunYes /\ ~ BegunNo /\ ~ registered
      BY <2>3 DEF BeginFits, RegisteredFits
    <3>2. CASE "signal" \in closers
      BY <2>1, <2>3, <3>1, <3>2 DEF Start, BeginFits, BeginAsked, BegunYes, BegunNo
    <3>3. CASE "signal" \notin closers
      <4>1. operation' = "beginning" /\ wire' = wire \cup {Request("begin")}
        BY <2>3, <3>3 DEF Start
      <4>2. BeginAsked' /\ ~ BegunYes' /\ ~ BegunNo'
        BY <3>1, <4>1, MessagesDiffer DEF BeginAsked, BegunYes, BegunNo
      <4> QED
        BY <2>1, <3>1, <4>1, <4>2 DEF BeginFits
    <3> QED
      BY <3>2, <3>3
  <2> QED
    BY <1>1, <2>2, <2>3 DEF NextCall, Refuse, operationVars
<1>2. ASSUME NEW ok \in BOOLEAN, Begun(ok) PROVE BeginFits'
  <2>1. /\ operation = "beginning" /\ Reply("begun", ok) \in wire /\ UNCHANGED <<registered, native>>
        /\ operation' \in {"invoking", "over"}
        /\ \E fn \in {"run", "cancel"} : wire' = (wire \ {Reply("begun", ok)}) \cup {Request(fn)}
    BY <1>2 DEF Begun, Exchange, BegunYes, BegunNo, pageVars
  <2>2. ~ BeginAsked /\ ~ (BegunYes /\ BegunNo)
    <3>1. BegunYes \/ BegunNo
      BY <2>1 DEF BegunYes, BegunNo
    <3> QED
      BY <3>1 DEF BeginFits
  <2>3. ~ BeginAsked'
    BY <2>1, <2>2, MessagesDiffer DEF BeginAsked
  <2>4. ~ BegunYes' /\ ~ BegunNo'
    BY <2>1, <2>2, MessagesDiffer DEF BegunYes, BegunNo
  <2> QED
    BY <2>1, <2>3, <2>4 DEF BeginFits
<1>3. ASSUME Ran PROVE BeginFits'
  <2>1. /\ Reply("ran", TRUE) \in wire /\ wire' = (wire \ {Reply("ran", TRUE)}) \cup {}
        /\ operation' = "over" /\ UNCHANGED <<registered, native>>
    BY <1>3 DEF Ran, Exchange, pageVars
  <2>2. pump = "over" /\ operation \notin {"none", "beginning"}
    BY <2>1 DEF StreamInv, OperationFits, PageFits
  <2>3. ~ BeginAsked' /\ ~ BegunYes' /\ ~ BegunNo'
    BY <2>1, <2>2 DEF BeginFits, BeginAsked, BegunYes, BegunNo
  <2> QED
    BY <2>1, <2>3 DEF BeginFits
<1>4. ASSUME NEW p \in Payloads, Deliver(p) PROVE BeginFits'
  <2>1. PICK more \in BOOLEAN :
          /\ wire' = (wire \ {Emit(p)}) \cup {Reply("receipt", more)}
          /\ UNCHANGED <<operation, registered, native>>
    <3> WITNESS (p \notin Ends) \in BOOLEAN
    <3> QED
      BY <1>4 DEF Deliver, Exchange, operationVars, pageVars
  <2>2. /\ BeginAsked' <=> BeginAsked
        /\ BegunYes' <=> BegunYes
        /\ BegunNo' <=> BegunNo
    <3>1. \A ok : Reply("begun", ok) # Emit(p)
      BY MessagesDiffer
    <3>2. \A ok : Reply("begun", ok) # Reply("receipt", more)
      BY MessagesDiffer
    <3>3. Request("begin") # Reply("receipt", more) /\ Request("begin") # Emit(p)
      BY MessagesDiffer
    <3> QED
      BY <2>1, <3>1, <3>2, <3>3 DEF BeginAsked, BegunYes, BegunNo
  <2> QED
    BY <2>1, <2>2, BeginFitsFrame
<1>5. ASSUME PageBeginOperation PROVE BeginFits'
  <2> DEFINE known == native = "open"
  <2>1. /\ BeginAsked /\ wire' = (wire \ {Request("begin")}) \cup {Reply("begun", known)}
        /\ registered' = known /\ UNCHANGED <<operation, native>>
    BY <1>5 DEF PageBeginOperation, Exchange, BeginAsked, operationVars
  <2>2. operation = "beginning" /\ ~ BegunYes /\ ~ BegunNo
    BY <2>1 DEF BeginFits
  <2>3. ~ BeginAsked'
    BY <2>1, MessagesDiffer DEF BeginAsked
  <2>4. CASE known
    <3>1. wire' = (wire \ {Request("begin")}) \cup {Reply("begun", TRUE)}
      BY <2>1, <2>4
    <3>2. BegunYes' /\ ~ BegunNo'
      BY <2>2, <3>1, MessagesDiffer DEF BegunYes, BegunNo
    <3> QED
      BY <2>1, <2>2, <2>3, <3>2 DEF BeginFits
  <2>5. CASE ~ known
    <3>1. wire' = (wire \ {Request("begin")}) \cup {Reply("begun", FALSE)}
      BY <2>1, <2>5
    <3>2. ~ BegunYes' /\ BegunNo'
      BY <2>2, <3>1, MessagesDiffer DEF BegunYes, BegunNo
    <3> QED
      BY <2>1, <2>2, <2>3, <3>2 DEF BeginFits
  <2> QED
    BY <2>4, <2>5
<1>6. ASSUME NEW more \in BOOLEAN, Received(more) PROVE BeginFits'
  <2>1. /\ wire' \in {wire \ {Reply("receipt", more)},
                      (wire \ {Reply("receipt", more)}) \cup {Reply("ran", TRUE)}}
        /\ registered' => registered
        /\ UNCHANGED <<operation, native>>
    BY <1>6 DEF Received, Exchange, operationVars
  <2>2. /\ BeginAsked' <=> BeginAsked
        /\ BegunYes' <=> BegunYes
        /\ BegunNo' <=> BegunNo
    <3>1. \A ok \in BOOLEAN :
            /\ Reply("begun", ok) # Reply("receipt", more)
            /\ Reply("begun", ok) # Reply("ran", TRUE)
      BY MessagesDiffer
    <3>2. /\ Request("begin") # Reply("receipt", more)
          /\ Request("begin") # Reply("ran", TRUE)
      BY MessagesDiffer
    <3> QED
      BY <2>1, <3>1, <3>2 DEF BeginAsked, BegunYes, BegunNo
  <2> QED
    BY <2>1, <2>2, BeginFitsFrame
<1> USE MessagesDiffer, KindsDiffer DEF StreamInv, OperationFits, BeginFits, BeginAsked, BegunYes,
   BegunNo, Settled, readerVars, queueVars, operationVars, pageVars
<1>7. ASSUME Return PROVE BeginFits'
  BY <1>7 DEF Return, Finish, Close, Resolve, CancelOperation, CancelRequest, Cancelling
<1>8. ASSUME Abort PROVE BeginFits'
  BY <1>8 DEF Abort, CancelOperation, CancelRequest, Cancelling
<1>9. ASSUME DestroySession PROVE BeginFits'
  BY <1>9 DEF DestroySession, CancelOperation, CancelRequest, Cancelling
<1>10. ASSUME CloseBridge PROVE BeginFits'
  BY <1>10 DEF CloseBridge, Close, Resolve
<1>11. ASSUME NEW r \in Readers, Resume(r) PROVE BeginFits'
  BY <1>11 DEF Resume
<1>12. ASSUME OperationSettles PROVE BeginFits'
  BY <1>12 DEF OperationSettles, Close, Resolve
<1>13. ASSUME BrowserGoes PROVE BeginFits'
  BY <1>13 DEF BrowserGoes
<1>14. ASSUME EvaluateFails PROVE BeginFits'
  BY <1>14 DEF EvaluateFails
<1>15. ASSUME PageCancelOperation PROVE BeginFits'
  BY <1>15 DEF PageCancelOperation, Exchange, StopOperation
<1>16. ASSUME PageDestroySession PROVE BeginFits'
  BY <1>16 DEF PageDestroySession, Exchange, StopOperation
<1>17. ASSUME PageRun PROVE BeginFits'
  BY <1>17 DEF PageRun, Exchange
<1>18. ASSUME NEW p \in Payloads, Pump(p) PROVE BeginFits'
  BY <1>18 DEF Pump
<1> HIDE DEF StreamInv, OperationFits, BeginFits, BeginAsked, BegunYes, BegunNo, Settled,
   readerVars, queueVars, operationVars, pageVars
<1> QED
  BY <1>1, <1>2, <1>3, <1>4, <1>5, <1>6, <1>7, <1>8, <1>9, <1>10, <1>11, <1>12, <1>13, <1>14, <1>15,
     <1>16, <1>17, <1>18, KindsDiffer DEF Next, Caller, Due, Native

LEMMA RegisteredFitsStays ==
  ASSUME StreamInv, BeginFits, ClosersFit, RegisteredFits, Next
  PROVE  RegisteredFits'
<1>1. ASSUME PageRun PROVE RegisteredFits'
  <2>1. /\ Request("run") \in wire /\ native # "gone"
        /\ \E ms \in {{}, {Emit(Error)}} : wire' = (wire \ {Request("run")}) \cup ms
        /\ pump' \in {"reading", "ending"} /\ registered' = (registered /\ native = "open")
        /\ cursor' = cursor \/ (cursor' = "open" /\ registered')
        /\ UNCHANGED <<operation, settled, native>>
    BY <1>1 DEF PageRun, Exchange, operationVars
  <2>2. CancelAsked' <=> CancelAsked
    BY <2>1, MessagesDiffer DEF CancelAsked
  <2>3. BegunYes' <=> BegunYes
    BY <2>1, MessagesDiffer DEF BegunYes
  <2>4. cursor = "open" => registered'
    BY <2>1 DEF RegisteredFits
  <2> QED
    BY <2>1, <2>2, <2>3, <2>4 DEF RegisteredFits, Settled
<1>2. ASSUME NEW more \in BOOLEAN, Received(more) PROVE RegisteredFits'
  <2>1. CASE more
    <3>1. /\ wire' = (wire \ {Reply("receipt", more)}) \cup {}
          /\ pump' = "reading" /\ registered' = (registered /\ more)
          /\ UNCHANGED <<cursor, operation, settled, native>>
      BY <1>2, <2>1 DEF Received, Exchange, operationVars
    <3>2. (CancelAsked => CancelAsked') /\ (BegunYes => BegunYes')
      BY <3>1, MessagesDiffer DEF CancelAsked, BegunYes
    <3> QED
      BY <2>1, <3>1, <3>2 DEF RegisteredFits, Settled
  <2>2. CASE ~ more
    <3>1. ~ registered' /\ cursor' # "open"
      BY <1>2, <2>2 DEF Received
    <3> QED
      BY <3>1 DEF RegisteredFits
  <2> QED
    BY <2>1, <2>2
<1> USE MessagesDiffer, KindsDiffer DEF StreamInv, OperationFits, PageFits, BeginFits, BeginAsked,
   BegunYes, BegunNo, CancelAsked, RegisteredFits, Settled, readerVars, queueVars, operationVars,
   pageVars
<1>3. ASSUME NextCall PROVE RegisteredFits'
  BY <1>3 DEF NextCall, Refuse, Take, Start
<1>4. ASSUME Return PROVE RegisteredFits'
  BY <1>4 DEF Return, Finish, Close, Resolve, CancelOperation, CancelRequest, Cancelling
<1>5. ASSUME Abort PROVE RegisteredFits'
  BY <1>5 DEF Abort, CancelOperation, CancelRequest, Cancelling
<1>6. ASSUME DestroySession PROVE RegisteredFits'
  BY <1>6 DEF DestroySession, CancelOperation, CancelRequest, Cancelling
<1>7. ASSUME CloseBridge PROVE RegisteredFits'
  BY <1>7 DEF CloseBridge, Close, Resolve
<1>8. ASSUME NEW r \in Readers, Resume(r) PROVE RegisteredFits'
  BY <1>8 DEF Resume
<1>9. ASSUME NEW ok \in BOOLEAN, Begun(ok) PROVE RegisteredFits'
  BY <1>9 DEF Begun, Exchange
<1>10. ASSUME Ran PROVE RegisteredFits'
  BY <1>10 DEF Ran, Exchange
<1>11. ASSUME OperationSettles PROVE RegisteredFits'
  BY <1>11 DEF OperationSettles, Close, Resolve
<1>12. ASSUME NEW p \in Payloads, Deliver(p) PROVE RegisteredFits'
  BY <1>12 DEF Deliver, Exchange, Push, Resolve
<1>13. ASSUME BrowserGoes PROVE RegisteredFits'
  BY <1>13 DEF BrowserGoes
<1>14. ASSUME EvaluateFails PROVE RegisteredFits'
  BY <1>14 DEF EvaluateFails
<1>15. ASSUME PageBeginOperation PROVE RegisteredFits'
  BY <1>15 DEF PageBeginOperation, Exchange
<1>16. ASSUME PageCancelOperation PROVE RegisteredFits'
  BY <1>16 DEF PageCancelOperation, Exchange, StopOperation
<1>17. ASSUME PageDestroySession PROVE RegisteredFits'
  BY <1>17 DEF PageDestroySession, Exchange, StopOperation
<1>18. ASSUME NEW p \in Payloads, Pump(p) PROVE RegisteredFits'
  BY <1>18 DEF Pump
<1> HIDE DEF StreamInv, OperationFits, PageFits, BeginFits, BeginAsked, BegunYes, BegunNo,
   CancelAsked, RegisteredFits, Settled, readerVars, queueVars, operationVars, pageVars
<1> QED
  BY <1>1, <1>2, <1>3, <1>4, <1>5, <1>6, <1>7, <1>8, <1>9, <1>10, <1>11, <1>12, <1>13, <1>14, <1>15,
     <1>16, <1>17, <1>18, KindsDiffer DEF Next, Caller, Due, Native

LEMMA RunFitsStays ==
  ASSUME StreamInv, RunFits, Next
  PROVE  RunFits'
<1> USE MessagesDiffer, KindsDiffer DEF StreamInv, PageFits, RunFits, Settled, readerVars,
   queueVars, operationVars, pageVars
<1>1. ASSUME NextCall PROVE RunFits'
  BY <1>1 DEF NextCall, Refuse, Take, Start
<1>2. ASSUME Return PROVE RunFits'
  BY <1>2 DEF Return, Finish, Close, Resolve, CancelOperation, CancelRequest, Cancelling
<1>3. ASSUME Abort PROVE RunFits'
  BY <1>3 DEF Abort, CancelOperation, CancelRequest, Cancelling
<1>4. ASSUME DestroySession PROVE RunFits'
  BY <1>4 DEF DestroySession, CancelOperation, CancelRequest, Cancelling
<1>5. ASSUME CloseBridge PROVE RunFits'
  BY <1>5 DEF CloseBridge, Close, Resolve
<1>6. ASSUME NEW r \in Readers, Resume(r) PROVE RunFits'
  BY <1>6 DEF Resume
<1>7. ASSUME NEW ok \in BOOLEAN, Begun(ok) PROVE RunFits'
  BY <1>7 DEF Begun, Exchange
<1>8. ASSUME Ran PROVE RunFits'
  BY <1>8 DEF Ran, Exchange
<1>9. ASSUME OperationSettles PROVE RunFits'
  BY <1>9 DEF OperationSettles, Close, Resolve
<1>10. ASSUME NEW p \in Payloads, Deliver(p) PROVE RunFits'
  BY <1>10 DEF Deliver, Exchange, Push, Resolve
<1>11. ASSUME BrowserGoes PROVE RunFits'
  BY <1>11 DEF BrowserGoes
<1>12. ASSUME EvaluateFails PROVE RunFits'
  BY <1>12 DEF EvaluateFails
<1>13. ASSUME PageBeginOperation PROVE RunFits'
  BY <1>13 DEF PageBeginOperation, Exchange
<1>14. ASSUME PageCancelOperation PROVE RunFits'
  BY <1>14 DEF PageCancelOperation, Exchange, StopOperation
<1>15. ASSUME PageDestroySession PROVE RunFits'
  BY <1>15 DEF PageDestroySession, Exchange, StopOperation
<1>16. ASSUME PageRun PROVE RunFits'
  BY <1>16 DEF PageRun, Exchange
<1>17. ASSUME NEW p \in Payloads, Pump(p) PROVE RunFits'
  BY <1>17 DEF Pump
<1>18. ASSUME NEW more \in BOOLEAN, Received(more) PROVE RunFits'
  BY <1>18 DEF Received, Exchange
<1> HIDE DEF StreamInv, PageFits, RunFits, Settled, readerVars, queueVars, operationVars, pageVars
<1> QED
  BY <1>1, <1>2, <1>3, <1>4, <1>5, <1>6, <1>7, <1>8, <1>9, <1>10, <1>11, <1>12, <1>13, <1>14, <1>15,
     <1>16, <1>17, <1>18, KindsDiffer DEF Next, Caller, Due, Native

\* What a queue of readers that wait has when one comes and when one goes.
LEMMA WaitersMove ==
  ASSUME pending \in Seq(Readers)
  PROVE  /\ pending # <<>> =>
              Waiters \ {Head(pending)} \subseteq {Tail(pending)[i] : i \in 1 .. Len(Tail(pending))}
         /\ \A r \in Readers :
              Waiters \cup {r} \subseteq {Append(pending, r)[i] : i \in 1 .. Len(Append(pending, r))}
<1>1. ASSUME pending # <<>>, NEW i \in 1 .. Len(pending), pending[i] # Head(pending)
      PROVE  \E j \in 1 .. Len(Tail(pending)) : Tail(pending)[j] = pending[i]
  <2>1. i - 1 \in 1 .. Len(Tail(pending)) /\ Tail(pending)[i - 1] = pending[i]
    BY <1>1
  <2> QED
    BY <2>1
<1>2. ASSUME NEW r \in Readers, NEW x \in Waiters \cup {r}
      PROVE  \E j \in 1 .. Len(Append(pending, r)) : Append(pending, r)[j] = x
  <2>1. Len(Append(pending, r)) = Len(pending) + 1 /\ Len(pending) \in Nat
    OBVIOUS
  <2>2. CASE x = r
    <3>1. Append(pending, r)[Len(pending) + 1] = r
      OBVIOUS
    <3> QED
      BY <2>1, <2>2, <3>1
  <2>3. CASE x \in Waiters
    <3>1. PICK i \in 1 .. Len(pending) : pending[i] = x
      BY <2>3 DEF Waiters
    <3>2. Append(pending, r)[i] = x /\ i \in 1 .. Len(pending) + 1
      BY <3>1, <2>1
    <3> QED
      BY <2>1, <3>2
  <2> QED
    BY <1>2, <2>2, <2>3
<1>3. ASSUME pending # <<>>, NEW x \in Waiters \ {Head(pending)}
      PROVE  \E j \in 1 .. Len(Tail(pending)) : Tail(pending)[j] = x
  <2>1. PICK i \in 1 .. Len(pending) : pending[i] = x /\ x # Head(pending)
    BY <1>3 DEF Waiters
  <2> QED
    BY <1>1, <1>3, <2>1
<1> QED
  BY <1>2, <1>3

\* All who wait are given an end, or stay where they are.
LEMMA WakesFrame ==
  ASSUME Wakes, \/ UNCHANGED <<reader, pending>>
                \/ \E p : Resolve(Waiters, p)
  PROVE  Wakes'
<1>1. CASE UNCHANGED <<reader, pending>>
  BY <1>1 DEF Wakes, Waiters
<1>2. ASSUME NEW p, Resolve(Waiters, p) PROVE Wakes'
  <2>1. reader' = [r \in Readers |-> IF r \in Waiters THEN "resolved" ELSE reader[r]]
    BY <1>2 DEF Resolve
  <2>2. reader' \in [Readers -> {"idle", "waiting", "resolved", "back"}]
    BY <2>1 DEF Wakes
  <2>3. \A r \in Readers : reader'[r] # "waiting"
    BY <2>1 DEF Wakes
  <2> QED
    BY <2>2, <2>3 DEF Wakes
<1> QED
  BY <1>1, <1>2

LEMMA WakesStays ==
  ASSUME StreamInv, Wakes, Next
  PROVE  Wakes'
<1>0. pending \in Seq(Readers)
  BY DEF StreamInv, StreamTypes
<1>1. ASSUME NextCall PROVE Wakes'
  <2> DEFINE r == called + 1
  <2>0. r \in Readers /\ DOMAIN reader = Readers
    BY <1>1 DEF NextCall, Wakes
  <2>1. CASE \E e : Refuse(r, e)
    <3>1. reader' = [reader EXCEPT ![r] = "back"] /\ pending' = pending
      BY <2>1 DEF Refuse, queueVars
    <3> QED
      BY <2>0, <3>1 DEF Wakes, Waiters
  <2>2. CASE Take(r)
    <3>1. CASE reader' = [reader EXCEPT ![r] = "waiting"] /\ pending' = Append(pending, r)
      <4>1. Waiters \cup {r} \subseteq Waiters'
        BY <1>0, <2>0, <3>1, WaitersMove DEF Waiters
      <4>2. reader' \in [Readers -> {"idle", "waiting", "resolved", "back"}]
        BY <3>1 DEF Wakes
      <4>3. \A q \in Readers : reader'[q] = "waiting" => q \in Waiters \cup {r}
        BY <2>0, <3>1 DEF Wakes
      <4> QED
        BY <4>1, <4>2, <4>3 DEF Wakes
    <3>2. CASE reader' = [reader EXCEPT ![r] = "resolved"] /\ pending' = pending
      BY <2>0, <3>2 DEF Wakes, Waiters
    <3> QED
      BY <2>2, <3>1, <3>2 DEF Take
  <2> QED
    BY <1>1, <2>1, <2>2 DEF NextCall
<1>2. ASSUME NEW r \in Readers, Resume(r) PROVE Wakes'
  <2>1. CASE got[r] \in Ends
    <3>1. reader' = [q \in Readers |-> IF q = r THEN "back"
                                       ELSE IF q \in Waiters THEN "resolved" ELSE reader[q]]
      BY <1>2, <2>1 DEF Resume
    <3>2. reader' \in [Readers -> {"idle", "waiting", "resolved", "back"}]
      BY <3>1 DEF Wakes
    <3>3. \A q \in Readers : reader'[q] # "waiting"
      BY <3>1 DEF Wakes
    <3> QED
      BY <3>2, <3>3 DEF Wakes
  <2>2. CASE got[r] \notin Ends
    <3>1. reader' = [reader EXCEPT ![r] = "back"] /\ pending' = pending
      BY <1>2, <2>2 DEF Resume, queueVars
    <3> QED
      BY <3>1 DEF Wakes, Waiters
  <2> QED
    BY <2>1, <2>2
<1>3. ASSUME NEW p \in Payloads, Deliver(p) PROVE Wakes'
  <2>1. CASE UNCHANGED <<reader, pending>>
    BY <2>1, WakesFrame
  <2>2. CASE \E q : Resolve(Waiters, q)
    BY <2>2, WakesFrame
  <2>3. CASE pending # <<>> /\ pending' = Tail(pending) /\ Resolve({Head(pending)}, p)
    <3>1. reader' = [q \in Readers |-> IF q = Head(pending) THEN "resolved" ELSE reader[q]]
      BY <2>3 DEF Resolve
    <3>2. reader' \in [Readers -> {"idle", "waiting", "resolved", "back"}]
      BY <3>1 DEF Wakes
    <3>3. \A q \in Readers : reader'[q] = "waiting" => q \in Waiters \ {Head(pending)}
      BY <3>1 DEF Wakes
    <3>4. Waiters \ {Head(pending)} \subseteq Waiters'
      BY <1>0, <2>3, WaitersMove DEF Waiters
    <3> QED
      BY <3>2, <3>3, <3>4 DEF Wakes
  <2>4. CASE listed /\ terminal = None
    <3>1. Push(p)
      BY <1>3, <2>4 DEF Deliver
    <3>2. CASE p \in Ends
      BY <2>2, <2>4, <3>1, <3>2 DEF Push
    <3>3. CASE p \notin Ends /\ pending = <<>>
      <4>1. pending' = pending /\ Resolve({}, p)
        BY <2>4, <3>1, <3>3 DEF Push, First
      <4>2. \A q \in Readers : reader'[q] = reader[q]
        BY <4>1 DEF Resolve
      <4>3. reader' = [q \in Readers |-> reader[q]]
        BY <4>1 DEF Resolve
      <4> QED
        BY <4>1, <4>2, <4>3 DEF Wakes, Waiters
    <3>4. CASE p \notin Ends /\ pending # <<>>
      BY <2>3, <2>4, <3>1, <3>4 DEF Push, First
    <3> QED
      BY <3>2, <3>3, <3>4
  <2> QED
    BY <1>3, <2>1, <2>4 DEF Deliver, Push, queueVars, readerVars
<1>4. CASE Return \/ CloseBridge \/ OperationSettles
  BY <1>4, WakesFrame DEF Return, Finish, CloseBridge, OperationSettles, Close, queueVars, readerVars
<1>5. CASE Abort \/ DestroySession
  BY <1>5, WakesFrame DEF Abort, DestroySession, queueVars, readerVars
<1>6. CASE (\E ok \in BOOLEAN : Begun(ok)) \/ Ran \/ BrowserGoes \/ EvaluateFails
  BY <1>6, WakesFrame DEF Begun, Ran, BrowserGoes, EvaluateFails, queueVars, readerVars
<1>7. CASE PageBeginOperation \/ PageCancelOperation \/ PageDestroySession \/ PageRun
  BY <1>7, WakesFrame
  DEF PageBeginOperation, PageCancelOperation, PageDestroySession, PageRun, queueVars, readerVars
<1>8. CASE (\E p \in Payloads : Pump(p)) \/ (\E more \in BOOLEAN : Received(more))
  BY <1>8, WakesFrame DEF Pump, Received, queueVars, readerVars
<1> QED
  BY <1>1, <1>2, <1>3, <1>4, <1>5, <1>6, <1>7, <1>8, KindsDiffer DEF Next, Caller, Due, Native

LEMMA StrandInvStep == StreamInv /\ StrandInv /\ [Next]_vars => StrandInv'
<1> SUFFICES ASSUME StreamInv, StrandInv, [Next]_vars PROVE StrandInv'
  OBVIOUS
<1>1. CASE Next
  BY <1>1, WakesStays, ClosersFitStays, BeginFitsStays, RegisteredFitsStays, RunFitsStays DEF StrandInv
<1>2. CASE UNCHANGED vars
  <2>1. /\ UNCHANGED <<reader, pending, stopped, listed, operation, settled, closers, wire>>
        /\ UNCHANGED <<registered, pump, cursor, native>>
    BY <1>2 DEF vars, readerVars, queueVars, operationVars, pageVars
  <2>2. Wakes' /\ ClosersFit'
    <3>1. Waiters' = Waiters
      BY <2>1 DEF Waiters
    <3>2. Wakes'
      BY <2>1, <3>1 DEF StrandInv, Wakes
    <3>3. ClosersFit
      BY DEF StrandInv
    <3>4. ClosersFit'
      BY <2>1, <3>3 DEF ClosersFit, Settled
    <3> QED
      BY <3>2, <3>4
  <2>3. BeginFits'
    BY <2>1 DEF StrandInv, BeginFits, BeginAsked, BegunYes, BegunNo
  <2>4. RegisteredFits' /\ RunFits'
    BY <2>1 DEF StrandInv, RegisteredFits, RunFits, CancelAsked, BegunYes, Settled
  <2> QED
    BY <2>2, <2>3, <2>4 DEF StrandInv
<1> QED
  BY <1>1, <1>2

\* Nobody waits for nothing: as long as a reader waits, a message, a callback
\* or a continuation is due that goes on for it, or the native stream of an
\* open stream has to answer; and once nothing is due, a closed stream has no
\* reader and no controller left on the page (the safety half of
\* StreamWorkEnds, for any number of readers and chunks).
THEOREM StreamStrandsNobody == Spec => []NobodyIsStranded
<1>1. Spec => []StreamInv
  BY StreamInvInit, StreamInvStep, PTL DEF Spec
<1>2. Spec => []StrandInv
  BY <1>1, StrandInvInit, StrandInvStep, PTL DEF Spec
<1> QED
  BY <1>1, <1>2, StrandInvMeans, PTL

(***************************************************************************)
(* The promise to the readers.                                             *)
(***************************************************************************)

\* Only the last readers wait, and what is buffered was produced.
ViewInv ==
  /\ \A n \in 1 .. Base : got[n] # None
  /\ \A i \in 1 .. Len(buffered) : buffered[i] \in Chunks => buffered[i] <= produced

LEMMA ViewInvInit == Init => ViewInv
<1> SUFFICES ASSUME Init PROVE ViewInv
  OBVIOUS
<1>1. called = 0 /\ buffered = <<>> /\ Len(pending) = 0 /\ Len(buffered) = 0
  BY DEF Init
<1> QED
  BY <1>1 DEF ViewInv, Base

\* What the source does, apart from what the queue does.
LEMMA SourceSteps ==
  ASSUME StreamInv, Next
  PROVE  \/ /\ UNCHANGED <<called, got, closers, buffered, pending>>
            /\ cursor # "completed"
            /\ \/ cursor' # "completed" /\ produced' = produced + 1
               \/ cursor' = "completed" /\ produced' = produced
         \/ /\ produced' = produced
            /\ cursor' = "completed" <=> cursor = "completed"
            /\ \/ "return" \in closers' <=> "return" \in closers
               \/ "return" \in closers' /\ Ended(Done)
<1> USE KindsDiffer
<1>i. StreamTypes /\ QueueFits /\ PageFits
  BY DEF StreamInv
<1>1. CASE NextCall
  BY <1>1 DEF NextCall, pageVars
<1>2. CASE Return
  <2>1. Ended(Done)
    BY <1>2, <1>i, CloseEffect DEF Return, Finish
  <2> QED
    BY <1>2, <2>1 DEF Return, pageVars
<1>3. CASE Abort \/ DestroySession \/ CloseBridge
  BY <1>3 DEF Abort, DestroySession, CloseBridge, pageVars
<1>4. CASE (\E r \in Readers : Resume(r)) \/ (\E ok \in BOOLEAN : Begun(ok)) \/ Ran
  BY <1>4 DEF Resume, Begun, Ran, pageVars
<1>5. CASE OperationSettles \/ (\E p \in Payloads : Deliver(p)) \/ BrowserGoes \/ EvaluateFails
  BY <1>5 DEF OperationSettles, Deliver, BrowserGoes, EvaluateFails, pageVars
<1>6. CASE PageBeginOperation \/ PageCancelOperation \/ PageDestroySession
  BY <1>6 DEF PageBeginOperation, PageCancelOperation, PageDestroySession, StopOperation
<1>7. CASE PageRun
  <2>1. pump = "none" /\ cursor # "completed"
    BY <1>7, <1>i DEF PageRun, Exchange, PageFits
  <2> QED
    BY <1>7, <2>1 DEF PageRun
<1>8. ASSUME NEW p \in Payloads, Pump(p)
      PROVE  /\ UNCHANGED <<called, got, closers, buffered, pending>>
             /\ cursor # "completed"
             /\ \/ cursor' # "completed" /\ produced' = produced + 1
                \/ cursor' = "completed" /\ produced' = produced
                \/ cursor' # "completed" /\ produced' = produced
  BY <1>8, <1>i DEF Pump, PageFits, readerVars, queueVars
<1>9. CASE \E more \in BOOLEAN : Received(more)
  BY <1>9 DEF Received
<1> QED
  BY <1>1, <1>2, <1>3, <1>4, <1>5, <1>6, <1>7, <1>8, <1>9 DEF Next, Caller, Due, Native

LEMMA ViewInvStays ==
  ASSUME StreamInv, ViewInv, Next
  PROVE  ViewInv'
<1> USE KindsDiffer
<1>i. StreamTypes /\ QueueFits
  BY DEF StreamInv
<1>l. /\ Len(buffered) \in Nat /\ Len(pending) \in Nat /\ called \in Nat /\ Base \in Nat
      /\ Len(pending) > 0 => Len(buffered) = 0
      /\ called = Base + Len(pending) /\ Base' = called' - Len(pending')
      /\ \A n \in 1 .. called : n \in Readers
      /\ produced \in Int /\ Chunks \subseteq Int /\ Readers \subseteq Int
  BY <1>i, QueueLens, PageStreamAssumption DEF Base, Readers, StreamTypes, Chunks
<1>p. produced' >= produced /\ produced' \in Int
  BY <1>l, SourceSteps
<1>b. \A i \in 1 .. Len(buffered) : buffered[i] \in Chunks => buffered[i] <= produced'
  <2> SUFFICES ASSUME NEW i \in 1 .. Len(buffered), buffered[i] \in Chunks
               PROVE  buffered[i] <= produced'
    OBVIOUS
  <2>1. buffered[i] <= produced /\ buffered[i] \in Int
    BY <1>l DEF ViewInv
  <2> QED
    BY <2>1, <1>l, <1>p
<1>s. QueueStep
  BY NextFits DEF StepFits
<1>1. CASE QueueStays
  <2>1. UNCHANGED <<called, got, buffered, pending>>
    BY <1>1 DEF QueueStays
  <2>2. Base' = Base
    BY <2>1, <1>l DEF Base
  <2> QED
    BY <2>1, <2>2, <1>b DEF ViewInv
<1>2. ASSUME NEW p \in Ends, Ended(p) \/ PushesEnd(p) PROVE ViewInv'
  <2>1. called' = called /\ Base' = called /\ Gives(p, Base + 1, called)
    BY <1>2, <1>l DEF Ended, PushesEnd
  <2>2. \A n \in 1 .. Base' : got'[n] # None
    BY <2>1, <1>l DEF ViewInv, Gives
  <2>3. Len(buffered') = 0 \/ Appended(p)
    BY <1>2 DEF Ended, PushesEnd
  <2>4. \A i \in 1 .. Len(buffered') : buffered'[i] \in Chunks => buffered'[i] <= produced'
    <3>1. CASE Len(buffered') = 0
      BY <3>1
    <3>2. CASE Appended(p)
      BY <3>2, <1>l, <1>b DEF Appended
    <3> QED
      BY <2>3, <3>1, <3>2
  <2> QED
    BY <2>2, <2>4 DEF ViewInv
<1>3. ASSUME NEW p \in Payloads, Answers(p) PROVE ViewInv'
  <2>1. /\ called' = called + 1 /\ Base' = called + 1 /\ Base = called
        /\ Gives(p, called + 1, called + 1) /\ buffered' = buffered
    BY <1>3, <1>l DEF Answers
  <2>2. \A n \in 1 .. Base' : got'[n] # None
    BY <2>1, <1>l, <1>3 DEF ViewInv, Gives, Answers
  <2> QED
    BY <2>1, <2>2, <1>b DEF ViewInv
<1>4. CASE TakesHead
  <2>1. /\ called' = called + 1 /\ Base' = called + 1 /\ Base = called
        /\ called + 1 \in Readers /\ Gives(buffered[1], called + 1, called + 1)
        /\ buffered[1] \in Payloads /\ buffered[1] # None
    <3>1. 1 \in 1 .. Len(buffered) /\ buffered \in Seq(Payloads)
      BY <1>4, <1>l, <1>i DEF TakesHead, StreamTypes
    <3>2. buffered[1] \in Payloads
      BY <3>1, ElementOfSeq
    <3>3. buffered[1] # None
      BY <3>2
    <3>4. /\ called' = called + 1 /\ pending' = pending /\ called + 1 \in Readers
          /\ Gives(buffered[1], called + 1, called + 1)
      BY <1>4 DEF TakesHead
    <3>5. Len(pending) = 0
      BY <1>4, <1>l DEF TakesHead
    <3> QED
      BY <1>l, <3>2, <3>3, <3>4, <3>5
  <2>2. \A n \in 1 .. Base' : got'[n] # None
    BY <2>1, <1>l DEF ViewInv, Gives
  <2>3. ASSUME NEW i \in 1 .. Len(buffered'), buffered'[i] \in Chunks
        PROVE  buffered'[i] <= produced'
    <3>1. i + 1 \in 1 .. Len(buffered) /\ buffered'[i] = buffered[i + 1]
      BY <1>4, <1>l, <2>3 DEF TakesHead
    <3> QED
      BY <2>3, <3>1, <1>b
  <2> QED
    BY <2>2, <2>3 DEF ViewInv
<1>5. CASE StartsToWait
  <2>1. Base' = Base /\ got' = got /\ buffered' = buffered
    BY <1>5, <1>l DEF StartsToWait
  <2> QED
    BY <2>1, <1>b DEF ViewInv
<1>6. ASSUME NEW p \in Chunks, p = produced, Buffers(p) PROVE ViewInv'
  <2>1. Base' = Base /\ got' = got
    BY <1>6, <1>l DEF Buffers
  <2>2. \A i \in 1 .. Len(buffered') : buffered'[i] \in Chunks => buffered'[i] <= produced'
    BY <1>6, <1>l, <1>p, <1>b DEF Buffers, Appended
  <2> QED
    BY <2>1, <2>2 DEF ViewInv
<1>7. ASSUME NEW p \in Chunks, Hands(p) PROVE ViewInv'
  <2>1. Base' = Base + 1 /\ Base + 1 \in 1 .. called /\ buffered' = buffered /\ Gives(p, Base + 1, Base + 1)
    BY <1>7, <1>l DEF Hands
  <2>2. \A n \in 1 .. Base' : got'[n] # None
    BY <2>1, <1>l DEF ViewInv, Gives
  <2> QED
    BY <2>1, <2>2, <1>b DEF ViewInv
<1> QED
  BY <1>s, <1>1, <1>2, <1>3, <1>4, <1>5, <1>6, <1>7 DEF QueueStep, HostStep, Arrives

\* The readers, as the promise sees them.
Outcomes == [n \in 1 .. called |-> got[n]]

LEMMA OutcomesView ==
  ASSUME StreamInv, ViewInv
  PROVE  /\ DOMAIN Outcomes = 1 .. called /\ Len(Outcomes) = called
         /\ Outcomes \in Seq(Payloads \cup {None})
         /\ \A n \in 1 .. called : Outcomes[n] = got[n] /\ n \in Readers
         /\ Promise!Waiting = (Base + 1) .. called
         /\ Promise!Over => \E q \in Readers : got[q] \in Ends
         /\ Complete => Promise!MayEnd(Done)
         /\ Promise!MayEnd(Error)
<1> USE KindsDiffer
<1>i. StreamTypes /\ QueueFits /\ ReadersFit
  BY DEF StreamInv
<1>l. /\ Len(pending) \in Nat /\ called \in Nat /\ Base \in Nat /\ called = Base + Len(pending)
      /\ \A n \in 1 .. called : n \in Readers
      /\ Readers \subseteq Int /\ \A r \in Readers : r >= 1
      /\ produced \in 0 .. MaxChunks /\ \A n \in 1 .. produced : n \in Chunks
  BY <1>i, QueueLens, PageStreamAssumption DEF Base, Readers, StreamTypes, Chunks
<1>1. /\ DOMAIN Outcomes = 1 .. called
      /\ \A n \in 1 .. called : Outcomes[n] = got[n]
      /\ Outcomes \in Seq(Payloads \cup {None}) /\ Len(Outcomes) = called
  <2>1. \A n \in 1 .. called : got[n] \in Payloads \cup {None}
    BY <1>i, <1>l DEF StreamTypes
  <2> QED
    BY <2>1, <1>l DEF Outcomes
<1>2. Promise!Waiting = (Base + 1) .. called
  <2>1. ASSUME NEW n \in (Base + 1) .. called PROVE n \in 1 .. called /\ got[n] = None
    <3>1. n - Base \in 1 .. Len(pending) /\ (called - Len(pending)) + (n - Base) = n
      BY <1>l
    <3>2. pending[n - Base] = n /\ got[pending[n - Base]] = None
      BY <3>1, <1>i DEF QueueFits
    <3> QED
      BY <3>2, <1>l
  <2>2. ASSUME NEW n \in 1 .. called, got[n] = None PROVE n \in (Base + 1) .. called
    BY <2>2, <1>l DEF ViewInv
  <2> QED
    BY <1>1, <2>1, <2>2 DEF Promise!Waiting, Outcomes
<1>3. Promise!Over => \E q \in Readers : got[q] \in Ends
  BY <1>1, <1>l DEF Promise!Over, Promise!Told, Outcomes
<1>4. ASSUME Complete PROVE Promise!MayEnd(Done)
  <2>1. CASE "return" \in closers
    BY <2>1 DEF Promise!MayEnd
  <2>2. CASE \E q \in Readers : got[q] = Error
    <3>1. PICK q \in Readers : got[q] = Error
      BY <2>2
    <3>2. q \in 1 .. called
      BY <3>1, <1>i, <1>l DEF ReadersFit
    <3>3. Promise!Told(Error)
      BY <3>1, <3>2, <1>1 DEF Promise!Told, Outcomes
    <3> QED
      BY <3>3 DEF Promise!MayEnd
  <2>3. CASE cursor = "completed" /\ \A n \in 1 .. produced : \E q \in Readers : got[q] = n
    <3>1. ASSUME NEW n \in 1 .. produced PROVE n \in 1 .. called /\ got[n] = n
      <4>1. PICK q \in Readers : got[q] = n
        BY <2>3
      <4>2. n \in Chunks
        BY <1>l
      <4>3. got[q] = q /\ q <= called
        BY <4>1, <4>2, <1>i, <1>l DEF ReadersFit
      <4> QED
        BY <4>1, <4>3, <1>l
    <3> QED
      BY <2>3, <3>1, <1>1 DEF Promise!MayEnd, Outcomes
  <2> QED
    BY <1>4, <2>1, <2>2, <2>3 DEF Complete
<1>5. Promise!MayEnd(Error)
  BY DEF Promise!MayEnd
<1> QED
  BY <1>1, <1>2, <1>3, <1>4, <1>5, <1>l

\* Who waits is told an end, the first who waits is given a chunk, and who
\* comes is answered or waits: in the outcomes.
LEMMA OutcomesMove ==
  ASSUME StreamInv, ViewInv, got' \in [Readers -> Payloads \cup {None}]
  PROVE  /\ UNCHANGED <<called, got>> => Outcomes' = Outcomes
         /\ \A e : called' = called /\ Gives(e, Base + 1, called) => Promise!Tell(e)
         /\ called' = called /\ Base < called /\ Gives(Base + 1, Base + 1, Base + 1)
              => Outcomes' = [Outcomes EXCEPT ![Base + 1] = Base + 1]
         /\ \A v \in Payloads \cup {None} :
              called' = called + 1 /\ called + 1 \in Readers /\ Gives(v, called + 1, called + 1)
                => Outcomes' = Append(Outcomes, v)
<1>l. /\ called \in Nat /\ Base \in Nat /\ Readers \subseteq Int
      /\ DOMAIN Outcomes = 1 .. called /\ Len(Outcomes) = called
      /\ Outcomes \in Seq(Payloads \cup {None})
      /\ \A n \in 1 .. called : Outcomes[n] = got[n] /\ n \in Readers
      /\ Promise!Waiting = (Base + 1) .. called
  BY OutcomesView, QueueLens, PageStreamAssumption DEF StreamInv, Readers
<1>1. UNCHANGED <<called, got>> => Outcomes' = Outcomes
  BY DEF Outcomes
<1>2. ASSUME NEW e, called' = called, Gives(e, Base + 1, called)
      PROVE  Promise!Tell(e)
  <2>1. \A n \in 1 .. called : got'[n] = IF n \in Promise!Waiting THEN e ELSE Outcomes[n]
    BY <1>l, <1>2 DEF Gives
  <2>2. Outcomes' = [n \in 1 .. called |-> got'[n]]
    BY <1>2 DEF Outcomes
  <2>3. Outcomes' = [n \in DOMAIN Outcomes |-> IF n \in Promise!Waiting THEN e ELSE Outcomes[n]]
    BY <1>l, <2>1, <2>2
  <2> QED
    BY <2>3 DEF Promise!Tell, Outcomes
<1>3. ASSUME called' = called, Base < called, Gives(Base + 1, Base + 1, Base + 1)
      PROVE  Outcomes' = [Outcomes EXCEPT ![Base + 1] = Base + 1]
  <2>1. \A n \in 1 .. called : got'[n] = IF n = Base + 1 THEN Base + 1 ELSE Outcomes[n]
    BY <1>l, <1>3 DEF Gives
  <2>2. Outcomes' = [n \in 1 .. called |-> got'[n]]
    BY <1>3 DEF Outcomes
  <2>3. [Outcomes EXCEPT ![Base + 1] = Base + 1]
          = [n \in 1 .. called |-> IF n = Base + 1 THEN Base + 1 ELSE Outcomes[n]]
    BY <1>l
  <2> QED
    BY <2>1, <2>2, <2>3
<1>4. ASSUME NEW v \in Payloads \cup {None}, called' = called + 1, called + 1 \in Readers,
             Gives(v, called + 1, called + 1)
      PROVE  Outcomes' = Append(Outcomes, v)
  <2>1. \A n \in 1 .. called + 1 : got'[n] = IF n = called + 1 THEN v ELSE Outcomes[n]
    BY <1>l, <1>4 DEF Gives
  <2>2. Outcomes' = [n \in 1 .. called + 1 |-> got'[n]]
    BY <1>4 DEF Outcomes
  <2>3. /\ Append(Outcomes, v) \in Seq(Payloads \cup {None}) /\ Len(Append(Outcomes, v)) = called + 1
        /\ \A n \in 1 .. called : Append(Outcomes, v)[n] = Outcomes[n]
        /\ Append(Outcomes, v)[called + 1] = v
    BY <1>l, AppendProperties
  <2>4. \A n \in 1 .. called + 1 : got'[n] \in Payloads \cup {None} /\ Outcomes'[n] = got'[n]
    BY <1>l, <1>4, <2>2
  <2>5. Outcomes' \in Seq(Payloads \cup {None}) /\ Len(Outcomes') = called + 1
    BY <1>l, <2>2, <2>4
  <2>6. \A n \in 1 .. called + 1 : Outcomes'[n] = Append(Outcomes, v)[n]
    BY <1>l, <2>1, <2>3, <2>4
  <2> HIDE DEF Outcomes
  <2> QED
    BY <2>3, <2>5, <2>6, SeqEqual
<1> QED
  BY <1>1, <1>2, <1>3, <1>4

\* Every step of host and page is a step of the promise, or none of it.
LEMMA PromiseStep ==
  ASSUME StreamInv, ViewInv, Next, StreamTypes'
  PROVE  Promise!Next \/ UNCHANGED Promise!vars
<1> USE KindsDiffer
<1>i. StreamTypes /\ QueueFits /\ ReadersFit /\ EndsAreLast /\ DoneFits
  BY DEF StreamInv
<1>l. /\ Len(buffered) \in Nat /\ Len(pending) \in Nat /\ called \in Nat /\ Base \in Nat
      /\ Len(pending) > 0 => Len(buffered) = 0 /\ terminal = None
      /\ called = Base + Len(pending)
  BY <1>i, QueueLens DEF Base
<1>v. /\ Len(Outcomes) = called /\ DOMAIN Outcomes = 1 .. called
      /\ Promise!Waiting = (Base + 1) .. called
      /\ Promise!Over => \E q \in Readers : got[q] \in Ends
      /\ Complete => Promise!MayEnd(Done)
      /\ Promise!MayEnd(Error)
  BY OutcomesView
<1>m. /\ UNCHANGED <<called, got>> => Outcomes' = Outcomes
      /\ \A e : called' = called /\ Gives(e, Base + 1, called) => Promise!Tell(e)
      /\ called' = called /\ Base < called /\ Gives(Base + 1, Base + 1, Base + 1)
           => Outcomes' = [Outcomes EXCEPT ![Base + 1] = Base + 1]
      /\ \A v \in Payloads \cup {None} :
           called' = called + 1 /\ called + 1 \in Readers /\ Gives(v, called + 1, called + 1)
             => Outcomes' = Append(Outcomes, v)
  BY OutcomesMove DEF StreamTypes
<1>1. CASE /\ UNCHANGED <<called, got, closers, buffered, pending>>
           /\ cursor # "completed"
           /\ \/ cursor' # "completed" /\ produced' = produced + 1
              \/ cursor' = "completed" /\ produced' = produced
  <2>1. Outcomes' = Outcomes /\ closers' = closers
    BY <1>1, <1>m
  <2>2. CASE cursor' # "completed" /\ produced' = produced + 1
    <3>1. Promise!Yield
      BY <1>1, <2>1, <2>2 DEF Promise!Yield, Outcomes
    <3> QED
      BY <3>1 DEF Promise!Next
  <2>3. CASE cursor' = "completed" /\ produced' = produced
    <3>1. Promise!Complete
      BY <1>1, <2>1, <2>3 DEF Promise!Complete, Outcomes
    <3> QED
      BY <3>1 DEF Promise!Next
  <2> QED
    BY <1>1, <2>2, <2>3
<1>2. CASE /\ produced' = produced /\ (cursor' = "completed" <=> cursor = "completed")
           /\ "return" \in closers' /\ Ended(Done)
  <2>1. Promise!Tell(Done)
    BY <1>2, <1>m DEF Ended
  <2>2. Promise!Return
    BY <1>2, <2>1 DEF Promise!Return
  <2> QED
    BY <2>2 DEF Promise!Next
<1>3. CASE /\ produced' = produced /\ (cursor' = "completed" <=> cursor = "completed")
           /\ "return" \in closers' <=> "return" \in closers
  <2> DEFINE SourceStays == /\ produced' = produced /\ (cursor' = "completed" <=> cursor = "completed")
                            /\ "return" \in closers' <=> "return" \in closers
  <2>s. QueueStep
    BY NextFits DEF StepFits
  <2>u. UNCHANGED <<produced, cursor = "completed", "return" \in closers>>
    BY <1>3
  <2>0. ASSUME UNCHANGED <<called, got>> PROVE UNCHANGED Promise!vars
    <3>1. Outcomes' = Outcomes
      BY <2>0, <1>m
    <3> QED
      BY <1>3, <3>1 DEF Promise!vars, Outcomes
  <2>1. CASE QueueStays
    BY <2>0, <2>1 DEF QueueStays
  <2>2. ASSUME NEW p \in Ends, called' = called, Gives(p, Base + 1, called), p = Done => Promise!MayEnd(Done)
        PROVE  Promise!Next
    <3>1. Promise!Tell(p) /\ Promise!MayEnd(p)
      BY <2>2, <1>m, <1>v DEF Ends
    <3>2. Promise!End(p)
      BY <1>3, <3>1 DEF Promise!End
    <3> QED
      BY <3>2 DEF Promise!Next, Ends
  <2>3. ASSUME NEW p \in Ends, called' = called + 1, called + 1 \in Readers,
               Gives(p, called + 1, called + 1), Base = called, p = Done => Promise!MayEnd(Done)
        PROVE  Promise!Next
    <3>1. Outcomes' = Append(Outcomes, p) /\ Promise!MayEnd(p)
      BY <2>3, <1>m, <1>v DEF Ends
    <3>2. Promise!Waiting = {}
      BY <2>3, <1>v, <1>l
    <3>3. Promise!ReadEnd(p)
      BY <2>u, <3>1, <3>2, Zenon DEF Promise!ReadEnd, Outcomes
    <3> QED
      BY <3>3 DEF Promise!Next, Ends
  <2>4. ASSUME NEW p \in Ends, Ended(p), p = Done => Complete \/ "return" \in closers'
        PROVE  Promise!Next
    <3>1. p = Done => Promise!MayEnd(Done)
      BY <2>4, <1>3, <1>v DEF Complete
    <3> QED
      BY <2>2, <2>4, <3>1 DEF Ended
  <2>5. ASSUME NEW p \in Ends, Answers(p), p = Done => Complete
        PROVE  Promise!Next
    BY <2>3, <2>5, <1>l, <1>v DEF Answers
  <2>6. CASE TakesHead /\ operation # "none"
    <3>1. /\ called' = called + 1 /\ called + 1 \in Readers /\ Len(buffered) > 0 /\ Base = called
          /\ Gives(buffered[1], called + 1, called + 1)
      BY <2>6, <1>l DEF TakesHead
    <3>2. 1 \in 1 .. Len(buffered) /\ buffered[1] \in Payloads
      BY <3>1, <1>l, <1>i, ElementOfSeq DEF StreamTypes
    <3>3. CASE buffered[1] \in Ends
      <4>1. Len(buffered) = 1 /\ buffered[1] = terminal
        BY <3>2, <3>3, <1>i DEF QueueFits
      <4>2. ASSUME terminal = Done, Delivered PROVE Complete
        <5>1. \A i \in 1 .. Len(buffered) : \A n \in 1 .. produced : buffered[i] # n
          <6>1. \A i \in 1 .. Len(buffered) : i = 1
            BY <4>1
          <6>2. \A n \in 1 .. produced : n \in Chunks
            BY <1>i, PageStreamAssumption DEF StreamTypes, Chunks
          <6> QED
            BY <3>3, <6>1, <6>2
        <5> QED
          BY <4>2, <5>1 DEF Delivered, Complete
      <4>3. buffered[1] = Done => Promise!MayEnd(Done)
        BY <4>1, <4>2, <1>i, <1>v DEF DoneFits
      <4> QED
        BY <2>3, <3>1, <3>3, <4>3
    <3>4. CASE buffered[1] \in Chunks
      <4>1. buffered[1] = called + 1 /\ called + 1 <= produced
        BY <3>2, <3>4, <1>i DEF QueueFits, ViewInv
      <4>2. ~ Promise!Over
        BY <3>2, <3>4, <1>i, <1>v DEF EndsAreLast
      <4>3. Promise!Waiting = {}
        BY <3>1, <1>v, <1>l
      <4>4. Outcomes' = Append(Outcomes, called + 1)
        BY <3>1, <3>2, <4>1, <1>m
      <4>5. /\ Len(Outcomes) + 1 <= produced
            /\ Outcomes' = Append(Outcomes, Len(Outcomes) + 1)
        BY <1>v, <4>1, <4>4
      <4>6. Promise!Read
        BY <2>u, <4>2, <4>3, <4>5, Zenon DEF Promise!Read, Outcomes
      <4> QED
        BY <4>6 DEF Promise!Next
    <3> QED
      BY <3>2, <3>3, <3>4
  <2>7. CASE StartsToWait /\ ~ Refused
    <3>1. /\ called' = called + 1 /\ called + 1 \in Readers /\ got' = got /\ terminal = None
      BY <2>7 DEF StartsToWait
    <3>2. got[called + 1] = None
      BY <3>1, <1>i, <1>l DEF ReadersFit
    <3>3. Gives(None, called + 1, called + 1)
      BY <3>1, <3>2, <1>l, PageStreamAssumption DEF Gives, Readers
    <3>4. Outcomes' = Append(Outcomes, None)
      BY <3>1, <3>3, <1>m
    <3>5. ~ Promise!Over
      BY <2>7, <3>1, <1>i, <1>v DEF EndsAreLast, Refused
    <3>6. Promise!Wait
      BY <2>u, <3>4, <3>5, Zenon DEF Promise!Wait, Outcomes
    <3> QED
      BY <3>6 DEF Promise!Next
  <2>8. ASSUME NEW p \in Chunks, Arrives(p), Hands(p)
        PROVE  Promise!Next
    <3>1. /\ called' = called /\ Base < called /\ Base + 1 \in 1 .. called
          /\ p = Base + 1 /\ Base + 1 <= produced /\ Gives(Base + 1, Base + 1, Base + 1)
      BY <2>8, <1>l DEF Arrives, Hands
    <3>2. Outcomes' = [Outcomes EXCEPT ![Base + 1] = Base + 1]
      BY <3>1, <1>m
    <3>3. ~ Promise!Over
      BY <2>8, <1>i, <1>v DEF EndsAreLast, Arrives
    <3>4. Base + 1 \in Promise!Waiting /\ \A m \in Promise!Waiting : Base + 1 <= m
      BY <3>1, <1>v, <1>l
    <3>5. PICK m \in DOMAIN Outcomes : m = Base + 1
      BY <3>1, <1>v
    <3>6. /\ m \in Promise!Waiting /\ \A n \in Promise!Waiting : m <= n
          /\ m <= produced /\ Outcomes' = [Outcomes EXCEPT ![m] = m]
      BY <3>1, <3>2, <3>4, <3>5
    <3>7. Promise!Hand(m)
      BY <2>u, <3>3, <3>6, Zenon DEF Promise!Hand, Outcomes
    <3> QED
      BY <3>7 DEF Promise!Next, Outcomes
  <2>9. ASSUME NEW p \in Ends, Arrives(p) PROVE Promise!Next \/ UNCHANGED Promise!vars
    <3>1. PushesEnd(p)
      BY <2>9 DEF Arrives
    <3>2. CASE Len(pending) = 0
      <4>1. called' = called /\ \A r \in Readers : got'[r] = got[r]
        BY <3>1, <3>2, <1>l, PageStreamAssumption DEF PushesEnd, Gives, Readers
      <4>2. got' = got
        BY <4>1, <1>i DEF StreamTypes
      <4> QED
        BY <2>0, <4>1, <4>2
    <3>3. CASE Len(pending) > 0
      <4>1. ASSUME p = Done PROVE Promise!MayEnd(Done)
        <5>1. cursor = "completed" /\ Base = produced /\ \A n \in 1 .. Base : got[n] = n
          BY <2>9, <4>1, <3>3, <1>l DEF Arrives
        <5>2. \A n \in 1 .. produced : n \in Readers
          <6>1. produced <= MaxReaders /\ produced \in Nat /\ MaxReaders \in Nat
            BY <5>1, <1>i, <1>l, PageStreamAssumption DEF StreamTypes
          <6> QED
            BY <6>1 DEF Readers
        <5>3. Complete
          BY <5>1, <5>2 DEF Complete
        <5> QED
          BY <5>3, <1>v
      <4> QED
        BY <2>2, <3>1, <4>1 DEF PushesEnd
    <3> QED
      BY <3>2, <3>3, <1>l
  <2>10. ASSUME NEW p \in Chunks, Arrives(p), Buffers(p) PROVE UNCHANGED Promise!vars
    BY <2>0, <2>10 DEF Buffers
  <2> QED
    BY <2>s, <2>1, <2>4, <2>5, <2>6, <2>7, <2>8, <2>9, <2>10 DEF QueueStep, HostStep, Arrives
<1> QED
  BY <1>1, <1>2, <1>3, SourceSteps

LEMMA PromiseInit == Init => Promise!Init
<1> SUFFICES ASSUME Init PROVE Promise!Init
  OBVIOUS
<1>1. called = 0 /\ produced = 0 /\ closers = {} /\ cursor = "none"
  BY DEF Init
<1>2. [n \in 1 .. called |-> got[n]] = <<>>
  BY <1>1
<1> QED
  BY <1>1, <1>2 DEF Promise!Init

\* The stream of a page implements ChunkReaders for any readers, chunks and
\* closers: reader n comes to chunk n, or to an end that all who wait are told
\* together, whatever of queue.mts, stream.mts and prompt.mts moves in between.
THEOREM StreamImplementsChunkReaders == Spec => ImplementsChunkReaders
<1>1. Spec => []StreamInv
  BY StreamInvInit, StreamInvStep, PTL DEF Spec
<1>2. Init => ViewInv /\ Promise!Init
  BY ViewInvInit, PromiseInit
<1>3. StreamInv /\ StreamInv' /\ ViewInv /\ [Next]_vars => ViewInv' /\ [Promise!Next]_(Promise!vars)
  <2> SUFFICES ASSUME StreamInv, StreamInv', ViewInv, [Next]_vars
               PROVE  ViewInv' /\ [Promise!Next]_(Promise!vars)
    OBVIOUS
  <2>1. CASE Next
    <3>1. StreamTypes'
      BY DEF StreamInv
    <3> QED
      BY <2>1, <3>1, ViewInvStays, PromiseStep
  <2>2. CASE UNCHANGED vars
    BY <2>2 DEF vars, readerVars, queueVars, operationVars, pageVars, ViewInv, Base, Promise!vars
  <2> QED
    BY <2>1, <2>2
<1> QED
  BY <1>1, <1>2, <1>3, PTL DEF Spec, ImplementsChunkReaders, Promise!Spec
=============================================================================
