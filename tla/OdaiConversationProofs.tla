----------------------- MODULE OdaiConversationProofs -----------------------
(***************************************************************************)
(* Proofs about Chrome's bridges and the conversations over them.          *)
(*                                                                         *)
(* BridgeInv: bridges are started in their order and the memo is for the   *)
(* newest one; the promise of a bridge that may still run is the memo's,   *)
(* or a close() waits for it, or it was lost to an older start that failed *)
(* after its close().  OwnerInv: until an owner's conversation has ended   *)
(* nobody closes its backend.                                              *)
(***************************************************************************)
EXTENDS OdaiConversation, TLAPS

Lost(b) == \E older \in closing : older < b /\ status[older] = "failed"
Kept(b) == memo = b \/ b \in closing \/ Lost(b)

StartsInOrder ==
  /\ \A b, c \in Bridges : b < c /\ status[c] # "none" => status[b] # "none"
  /\ memo # NoBridge => \A b \in Bridges : status[b] # "none" => b <= memo

PromisesAreKept ==
  \A b \in Bridges :
    status[b] \in {"checking", "launched", "abandoning", "open"} => Kept(b)

BridgeInv == BridgeTypeOK /\ StartsInOrder /\ PromisesAreKept

Serving(c) == pc[c] \in {"launching", "open"}

OwnerInv ==
  owned =>
    /\ \A c, d \in Conversations : pc[c] # "idle" /\ pc[d] # "idle" => c = d
    /\ (\A c \in Conversations : pc[c] \notin {"failed", "closed"}) =>
         closing = {} /\ \A b \in Bridges : status[b] \notin {"stopping", "closed"}
    /\ \A c \in Conversations : Serving(c) => lm[c] \in Bridges
    /\ OwnedBridgeServes

OdaiInv == TypeOK /\ BridgeInv /\ OwnerInv

LEMMA OdaiInvInit == Init => OdaiInv
  BY ChromeBridgeAssumption
  DEF Init, BridgeInit, OdaiInv, TypeOK, BridgeInv, BridgeTypeOK, Status, StartsInOrder,
      PromisesAreKept, OwnerInv, Serving, OwnedBridgeServes, NoBridge, Conversations

----------------------------------------------------------------------------
(* The bridges.                                                            *)

LEMMA LanguageModelKeepsBridges ==
  ASSUME BridgeInv, NEW u \in Users, LanguageModel(u)
  PROVE  BridgeInv'
  <1> USE ChromeBridgeAssumption DEF BridgeInv, BridgeTypeOK, StartsInOrder, PromisesAreKept,
        Kept, Lost, Bridges, NoBridge, Status
  <1>1. CASE memo # NoBridge BY <1>1 DEF LanguageModel
  <1>2. CASE memo = NoBridge
    <2> PICK b \in Unused :
          /\ \A other \in Unused : b <= other
          /\ memo' = b
          /\ status' = [status EXCEPT ![b] = "checking"]
          /\ lm' = [lm EXCEPT ![u] = b]
      BY <1>2 DEF LanguageModel
    <2>1. b \in Bridges /\ status[b] = "none" BY DEF Unused
    <2>2. \A c \in Bridges : c < b => status[c] # "none" BY <2>1 DEF Unused
    <2>3. \A c \in Bridges : status[c] # "none" => c < b BY <2>1
    <2>4. BridgeTypeOK' BY <2>1 DEF LanguageModel
    <2>5. StartsInOrder' BY <2>1, <2>2, <2>3
    <2>6. PromisesAreKept' BY <2>1 DEF LanguageModel
    <2> QED BY <2>4, <2>5, <2>6
  <1> QED BY <1>1, <1>2

LEMMA CloseKeepsBridges ==
  ASSUME BridgeInv, Close
  PROVE  BridgeInv'
  BY ChromeBridgeAssumption
  DEF BridgeInv, BridgeTypeOK, StartsInOrder, PromisesAreKept, Kept, Lost, Bridges, NoBridge,
      Status, Close

\* A step of bridge b's own: its status, and the memo if its start failed.
LEMMA BecomesChangesOne ==
  ASSUME BridgeTypeOK, NEW b \in Bridges, NEW from, NEW to \in Status, Becomes(b, from, to)
  PROVE  /\ status[b] \in from
         /\ status' \in [Bridges -> Status] /\ status'[b] = to
         /\ \A c \in Bridges \ {b} : status'[c] = status[c]
  BY DEF BridgeTypeOK, Becomes

LEMMA ProgressKeepsBridges ==
  ASSUME BridgeInv, NEW b \in Bridges, Progress(b) \/ Crash(b)
  PROVE  BridgeInv'
  <1> USE BecomesChangesOne DEF BridgeInv, BridgeTypeOK, StartsInOrder, PromisesAreKept, Kept, Lost,
        Status
  <1>1. CASE Launch(b) BY <1>1 DEF Launch
  <1>2. CASE StartFails(b)
    <2>1. \A c \in Bridges \ {b} : memo = c => b < c
      BY <1>2, ChromeBridgeAssumption DEF StartFails, Bridges, NoBridge
    <2>2. \A c \in Bridges \ {b} : memo = c => Lost(c)'
      <3> SUFFICES ASSUME NEW c \in Bridges \ {b}, memo = c PROVE Lost(c)' OBVIOUS
      <3>1. b < c BY <2>1
      <3>2. b \in closing \/ Lost(b) BY <1>2 DEF StartFails
      <3>3. closing' = closing /\ status'[b] = "failed" BY <1>2 DEF StartFails
      <3>4. CASE b \in closing BY <3>1, <3>3, <3>4
      <3>5. CASE Lost(b)
        <4> PICK older \in closing : older < b /\ status[older] = "failed" BY <3>5
        <4>1. older \in Nat /\ b \in Nat /\ c \in Nat BY DEF Bridges
        <4>2. older < c BY <3>1, <4>1
        <4>3. status'[older] = "failed" BY <1>2 DEF StartFails
        <4> QED BY <3>3, <4>2, <4>3
      <3> QED BY <3>2, <3>4, <3>5
    <2>3. BridgeTypeOK' /\ StartsInOrder' BY <1>2 DEF StartFails
    <2>4. PromisesAreKept' BY <1>2, <2>2 DEF StartFails
    <2> QED BY <2>3, <2>4
  <1>3. CASE SetupFails(b) BY <1>3 DEF SetupFails
  <1>4. CASE BridgeOpens(b)
    <2>1. (IF b \in closing THEN "stopping" ELSE "open") \in Status OBVIOUS
    <2> QED BY <1>4, <2>1 DEF BridgeOpens
  <1>5. CASE ContextCloses(b) BY <1>5 DEF ContextCloses
  <1>6. CASE Crash(b) BY <1>6 DEF Crash
  <1> QED BY <1>1, <1>2, <1>3, <1>4, <1>5, <1>6 DEF Progress

LEMMA BridgeInvNext == BridgeInv /\ [Next]_vars => BridgeInv'
  <1> SUFFICES ASSUME BridgeInv, [Next]_vars PROVE BridgeInv' OBVIOUS
  <1>1. CASE UNCHANGED bridgeVars
    BY <1>1 DEF bridgeVars, BridgeInv, BridgeTypeOK, StartsInOrder, PromisesAreKept, Kept, Lost
  <1>2. ASSUME NEW c \in Conversations, Start(c) \/ Settle(c) \/ Abort(c) \/ Destroy(c)
        PROVE  UNCHANGED bridgeVars \/ LanguageModel(c) \/ Close
    BY <1>2 DEF Start, Settle, Selected, SelectionFails, Created, Rejected, LaunchFails, Abort,
       Destroy, CloseOwned
  <1>3. CallerCloses => Close BY DEF CallerCloses
  <1>4. ASSUME NEW b \in Bridges, BridgeStep(b) PROVE BridgeInv'
    BY <1>4, ProgressKeepsBridges DEF BridgeStep
  <1>5. UNCHANGED vars => UNCHANGED bridgeVars BY DEF vars
  <1> QED BY <1>1, <1>2, <1>3, <1>4, <1>5, LanguageModelKeepsBridges, CloseKeepsBridges
        DEF Next, Conversations

----------------------------------------------------------------------------
(* The conversations.                                                      *)

LEMMA TypeOKNext == OdaiInv /\ [Next]_vars => TypeOK'
  <1> SUFFICES ASSUME OdaiInv, [Next]_vars PROVE TypeOK' OBVIOUS
  <1>1. BridgeTypeOK' BY BridgeInvNext DEF OdaiInv, BridgeInv
  <1> USE <1>1 DEF OdaiInv, TypeOK, Conversations, Goes, conversationVars
  <1>2. CASE UNCHANGED vars BY <1>2 DEF vars
  <1>3. ASSUME NEW c \in Conversations, Start(c) PROVE TypeOK' BY <1>3 DEF Start
  <1>4. ASSUME NEW c \in Conversations, Selected(c) PROVE TypeOK' BY <1>4 DEF Selected
  <1>5. ASSUME NEW c \in Conversations, SelectionFails(c) PROVE TypeOK'
    BY <1>5 DEF SelectionFails
  <1>6. ASSUME NEW c \in Conversations, Created(c) PROVE TypeOK' BY <1>6 DEF Created
  <1>7. ASSUME NEW c \in Conversations, Rejected(c) PROVE TypeOK' BY <1>7 DEF Rejected
  <1>8. ASSUME NEW c \in Conversations, LaunchFails(c) PROVE TypeOK' BY <1>8 DEF LaunchFails
  <1>9. ASSUME NEW c \in Conversations, Abort(c) PROVE TypeOK' BY <1>9 DEF Abort
  <1>10. ASSUME NEW c \in Conversations, Destroy(c) PROVE TypeOK' BY <1>10 DEF Destroy
  <1>11. CASE CallerCloses BY <1>11 DEF CallerCloses
  <1>12. ASSUME NEW b \in Bridges, BridgeStep(b) PROVE TypeOK' BY <1>12 DEF BridgeStep
  <1> QED BY <1>2, <1>3, <1>4, <1>5, <1>6, <1>7, <1>8, <1>9, <1>10, <1>11, <1>12
        DEF Next, Settle

\* Of an owner's conversations one has begun: once it is over nothing of
\* OwnerInv is left to hold.
LEMMA OwnerInvNext == OdaiInv /\ [Next]_vars => OwnerInv'
  <1> SUFFICES ASSUME OdaiInv, [Next]_vars, owned' PROVE OwnerInv'
    BY DEF OwnerInv
  <1>0. owned
    BY DEF Next, vars, conversationVars, Start, Settle, Selected, SelectionFails, Created,
       Rejected, LaunchFails, Abort, Destroy, CallerCloses, BridgeStep
  <1> USE <1>0 DEF OdaiInv, TypeOK, BridgeTypeOK, OwnerInv, Serving, OwnedBridgeServes,
        Conversations, Goes, bridgeVars, conversationVars
  <1>1. CASE UNCHANGED vars BY <1>1 DEF vars
  <1>2. ASSUME NEW c \in Conversations, Start(c) PROVE OwnerInv' BY <1>2 DEF Start
  <1>3. ASSUME NEW c \in Conversations, Selected(c) PROVE OwnerInv'
    <2>1. CASE pc[c] = "failed" /\ UNCHANGED pc BY <1>3, <2>1 DEF Selected
    <2>2. CASE pc[c] = "selecting" /\ Goes(c, "launching") /\ LanguageModel(c)
      <3>1. \A d \in Conversations : pc[d] # "idle" => d = c BY <2>2
      <3>2. \A d \in Conversations : pc[d] \notin {"failed", "closed"} BY <2>2, <3>1
      <3>3. /\ closing = {} /\ closing' = {}
            /\ \A b \in Bridges : status[b] \notin {"stopping", "closed"}
        BY <2>2, <3>2 DEF LanguageModel
      <3>4. lm'[c] \in Bridges
        BY <2>2 DEF LanguageModel, NoBridge, Unused
      <3>5. \A b \in Bridges : status'[b] \in {status[b], "checking"}
        BY <2>2 DEF LanguageModel, Unused
      <3>6. \A d \in Conversations : pc'[d] # "idle" => d = c BY <2>2, <3>1
      <3>7. pc'[c] = "launching" BY <2>2
      <3> QED BY <3>3, <3>4, <3>5, <3>6, <3>7
    <2> QED BY <1>3, <2>1, <2>2 DEF Selected
  <1>4. ASSUME NEW c \in Conversations, SelectionFails(c) PROVE OwnerInv'
    BY <1>4 DEF SelectionFails
  <1>5. ASSUME NEW c \in Conversations, Created(c) PROVE OwnerInv'
    BY <1>5 DEF Created, Ready
  <1>6. ASSUME NEW c \in Conversations, Rejected(c) \/ LaunchFails(c) \/ Destroy(c)
        PROVE  OwnerInv'
    BY <1>6 DEF Rejected, LaunchFails, Destroy
  <1>7. ASSUME NEW c \in Conversations, Abort(c) PROVE OwnerInv' BY <1>7 DEF Abort
  <1>8. CASE CallerCloses BY <1>8 DEF CallerCloses
  <1>9. ASSUME NEW b \in Bridges, BridgeStep(b) PROVE OwnerInv'
    <2>1. /\ UNCHANGED <<closing, lm, pc>>
          /\ status'[b] = "stopping" => b \in closing
          /\ status'[b] = "closed" => status[b] = "stopping"
          /\ status[b] \in {"open", "crashed"} => status'[b] = "crashed"
          /\ \A other \in Bridges \ {b} : status'[other] = status[other]
      <3>1. UNCHANGED <<closing, lm, pc>>
        BY <1>9 DEF BridgeStep, Progress, Launch, StartFails, SetupFails, BridgeOpens,
           ContextCloses, Crash
      <3>2. CASE Launch(b) BY <3>1, <3>2 DEF Launch, Becomes
      <3>3. CASE StartFails(b) BY <3>1, <3>3 DEF StartFails, Becomes
      <3>4. CASE SetupFails(b) BY <3>1, <3>4 DEF SetupFails, Becomes
      <3>5. CASE BridgeOpens(b) BY <3>1, <3>5 DEF BridgeOpens, Becomes
      <3>6. CASE ContextCloses(b) BY <3>1, <3>6 DEF ContextCloses, Becomes
      <3>7. CASE Crash(b) BY <3>1, <3>7 DEF Crash, Becomes
      <3> QED BY <1>9, <3>2, <3>3, <3>4, <3>5, <3>6, <3>7 DEF BridgeStep, Progress
    <2>2. \A c \in Conversations : pc[c] = "open" =>
            lm[c] \in Bridges /\ status[lm[c]] \in {"open", "crashed"} /\ lm[c] \notin closing
      OBVIOUS
    <2>3. \A c \in Conversations : pc[c] = "open" =>
            status'[lm[c]] \in {"open", "crashed"} /\ lm[c] \notin closing
      BY <2>1, <2>2
    <2> QED BY <2>1, <2>3
  <1> QED BY <1>1, <1>2, <1>3, <1>4, <1>5, <1>6, <1>7, <1>8, <1>9 DEF Next, Settle

LEMMA OdaiInvHolds == Spec => []OdaiInv
  <1>1. OdaiInv /\ [Next]_vars => OdaiInv'
    BY TypeOKNext, BridgeInvNext, OwnerInvNext DEF OdaiInv
  <1> QED BY <1>1, OdaiInvInit, PTL DEF Spec

\* A Chrome that runs can be closed by somebody, whoever started, closed and
\* lost bridges before -- but for one that an older failed start forgot -- and
\* an open conversation that owns its backend has a bridge that nobody closes.
THEOREM ChromesStayKept == Spec => []ChromesAreKept
  <1>1. OdaiInv => ChromeCanBeClosed
    BY DEF OdaiInv, BridgeInv, PromisesAreKept, Kept, Lost, Running, ChromeCanBeClosed
  <1>2. OdaiInv => OwnedBridgeServes
    BY DEF OdaiInv, OwnerInv, OwnedBridgeServes
  <1>3. OdaiInv => ChromesAreKept
    BY <1>1, <1>2 DEF ChromesAreKept
  <1> QED BY <1>3, OdaiInvHolds, PTL

=============================================================================
