-------------------------- MODULE OdaiConversation --------------------------
(***************************************************************************)
(* Conversations over a backend (conversation/odai.mts).                   *)
(* createOdaiConversation selects a backend, starts its model and creates  *)
(* the conversation, each of them awaited against the caller's signal.     *)
(* Unless the caller gave it a backend object it owns the backend and      *)
(* closes it with the conversation, or when the creation fails or is       *)
(* abandoned.  A backend object may serve several conversations, and its   *)
(* caller closes it.                                                       *)
(***************************************************************************)
EXTENDS ChromeBridge

VARIABLES
  owned,      \* no backend object was given
  pc,         \* pc[c]: where createOdaiConversation or its conversation is
  selection,  \* selection[c]: "none", "pending" or "over": selectBackend
  aborted     \* the callers whose signal aborted

conversationVars == <<owned, pc, selection, aborted>>
vars == <<bridgeVars, conversationVars>>

Conversations == Users

TypeOK ==
  /\ BridgeTypeOK
  /\ owned \in BOOLEAN
  /\ pc \in [Conversations -> {"idle", "selecting", "launching", "open", "failed", "closed"}]
  /\ selection \in [Conversations -> {"none", "pending", "over"}]
  /\ aborted \subseteq Conversations

Init ==
  /\ BridgeInit
  /\ owned \in BOOLEAN
  /\ pc = [c \in Conversations |-> "idle"]
  /\ selection = [c \in Conversations |-> "none"]
  /\ aborted = {}

\* closeConversationBackend, for an owned backend.
CloseOwned == IF owned THEN Close ELSE UNCHANGED bridgeVars

Goes(c, to) == pc' = [pc EXCEPT ![c] = to]

----------------------------------------------------------------------------

\* An owned backend is made for one conversation.
Start(c) ==
  /\ pc[c] = "idle"
  /\ c \notin aborted
  /\ owned => \A other \in Conversations : pc[other] = "idle"
  /\ Goes(c, "selecting")
  /\ selection' = [selection EXCEPT ![c] = "pending"]
  /\ UNCHANGED <<bridgeVars, owned, aborted>>

\* selectBackend() resolves: the conversation goes on, or was abandoned.
Selected(c) ==
  /\ selection[c] = "pending"
  /\ selection' = [selection EXCEPT ![c] = "over"]
  /\ \/ pc[c] = "selecting" /\ Goes(c, "launching") /\ LanguageModel(c)
     \/ pc[c] = "failed" /\ CloseOwned /\ UNCHANGED pc
  /\ UNCHANGED <<owned, aborted>>

SelectionFails(c) ==
  /\ selection[c] = "pending"
  /\ selection' = [selection EXCEPT ![c] = "over"]
  /\ IF pc[c] = "selecting" THEN Goes(c, "failed") ELSE UNCHANGED pc
  /\ UNCHANGED <<bridgeVars, owned, aborted>>

\* languageModel() resolved and the options are valid.
Created(c) ==
  /\ pc[c] = "launching"
  /\ Ready(lm[c])
  /\ Goes(c, "open")
  /\ UNCHANGED <<bridgeVars, owned, selection, aborted>>

\* createConversation() throws: its options are invalid.
Rejected(c) ==
  /\ pc[c] = "launching"
  /\ Ready(lm[c])
  /\ Goes(c, "failed")
  /\ CloseOwned
  /\ UNCHANGED <<owned, selection, aborted>>

LaunchFails(c) ==
  /\ pc[c] = "launching"
  /\ status[lm[c]] = "failed"
  /\ Goes(c, "failed")
  /\ CloseOwned
  /\ UNCHANGED <<owned, selection, aborted>>

\* Mutant: an aborted creation leaves the backend alone.
AbortOpenOnly(c) ==
  /\ c \notin aborted
  /\ aborted' = aborted \cup {c}
  /\ pc' = [pc EXCEPT ![c] =
       CASE @ \in {"selecting", "launching"} -> "failed" [] @ = "open" -> "closed" [] OTHER -> @]
  /\ IF pc[c] = "open" THEN CloseOwned ELSE UNCHANGED bridgeVars
  /\ UNCHANGED <<owned, selection>>

\* Mutant: the wait for the model ignores the signal.
AbortKeepsWaiting(c) ==
  /\ c \notin aborted
  /\ aborted' = aborted \cup {c}
  /\ pc' = [pc EXCEPT ![c] = CASE @ = "selecting" -> "failed" [] @ = "open" -> "closed" [] OTHER -> @]
  /\ IF pc[c] \in {"launching", "open"} THEN CloseOwned ELSE UNCHANGED bridgeVars
  /\ UNCHANGED <<owned, selection>>

\* The caller's signal: a creation is given up, a conversation destroyed.
\* While it selects there is no backend to close yet.
Abort(c) ==
  /\ c \notin aborted
  /\ aborted' = aborted \cup {c}
  /\ pc' = [pc EXCEPT ![c] =
       CASE @ \in {"selecting", "launching"} -> "failed" [] @ = "open" -> "closed" [] OTHER -> @]
  /\ IF pc[c] \in {"launching", "open"} THEN CloseOwned ELSE UNCHANGED bridgeVars
  /\ UNCHANGED <<owned, selection>>

Destroy(c) ==
  /\ pc[c] = "open"
  /\ Goes(c, "closed")
  /\ CloseOwned
  /\ UNCHANGED <<owned, selection, aborted>>

\* The caller closes its own backend object.
CallerCloses ==
  /\ ~ owned
  /\ memo # NoBridge
  /\ Close
  /\ UNCHANGED conversationVars

BridgeStep(b) == (Progress(b) \/ Crash(b)) /\ UNCHANGED conversationVars

Settle(c) == Selected(c) \/ SelectionFails(c) \/ Created(c) \/ Rejected(c) \/ LaunchFails(c)

Next ==
  \/ \E c \in Conversations : Start(c) \/ Settle(c) \/ Abort(c) \/ Destroy(c)
  \/ CallerCloses
  \/ \E b \in Bridges : BridgeStep(b)

\* Selection, launch, readiness poll and context.close() each have a timeout
\* or end with Chrome; continuations run.  Nobody need abort or destroy.
Fairness ==
  /\ \A c \in Conversations : WF_vars(Settle(c))
  /\ \A b \in Bridges : WF_vars(Progress(b) /\ UNCHANGED conversationVars)

Spec == Init /\ [][Next]_vars
FairSpec == Spec /\ Fairness

----------------------------------------------------------------------------
(* Properties.                                                             *)

\* An open conversation that owns its backend has a bridge that nobody is
\* closing: an abort during the creation closes the backend and the
\* conversation never comes out, one after it destroys both.
OwnedBridgeServes ==
  \A c \in Conversations : owned /\ pc[c] = "open" =>
    status[lm[c]] \in {"open", "crashed"} /\ lm[c] \notin closing

\* Chromes are kept as long as they are wanted and can be closed then: one
\* that runs has somebody who can close it, and an owner's is not closed
\* under it.
ChromesAreKept == ChromeCanBeClosed /\ OwnedBridgeServes

\* A conversation that owns its backend leaves no Chrome behind: whether the
\* selection or the launch failed, the creation was abandoned at any point or
\* the conversation was destroyed, in the end nothing runs and nothing is
\* started any more.
OwnedChromeEnds ==
  \A c \in Conversations :
    owned /\ pc[c] \in {"failed", "closed"} ~> [] \A b \in Bridges : ~ Running(b)

\* createOdaiConversation settles, aborted or not.
CreationSettles ==
  \A c \in Conversations : pc[c] \in {"selecting", "launching"} ~> pc[c] \in {"open", "failed", "closed"}

\* Creations and the Chromes of owners come to an end.
CreationsAndOwnersEnd == CreationSettles /\ OwnedChromeEnds

=============================================================================
