---------------------------- MODULE ChromeBridge ----------------------------
(***************************************************************************)
(* The headless Chrome that a chrome-builtin backend starts on demand      *)
(* (chrome-builtin.mts: createChromeBuiltinBackend, startBridge).  The     *)
(* promise of the bridge is memoized; close() takes the memo away before   *)
(* it waits for the bridge, and a languageModel() call whose start fails   *)
(* clears whatever the memo holds by then.                                 *)
(*                                                                         *)
(* Bridges are numbered in the order in which they are started.            *)
(***************************************************************************)
EXTENDS Naturals, FiniteSets

CONSTANTS
  Users,       \* calls of languageModel()
  MaxBridges   \* bound on the starts of Chrome

Bridges == 1 .. MaxBridges
NoBridge == 0

ASSUME ChromeBridgeAssumption == MaxBridges \in Nat

VARIABLES
  memo,     \* bridgePromise: the bridge it is for, or NoBridge
  status,   \* status[b]: how far startBridge or close is with bridge b
  closing,  \* the bridges that a close() call waits for
  lm        \* lm[u]: the bridge that languageModel() call u awaits or got

bridgeVars == <<memo, status, closing, lm>>

Status ==
  {"none",       \* not started
   "checking",   \* configuration, profile and storage are looked at
   "launched",   \* Chrome runs, its page and model are not ready
   "abandoning", \* the setup failed, its context is being closed
   "failed",     \* the promise was rejected
   "open",       \* the promise was fulfilled
   "crashed",    \* Chrome went away by itself
   "stopping",   \* bridge.close() waits for the context
   "closed"}

BridgeTypeOK ==
  /\ memo \in Bridges \cup {NoBridge}
  /\ status \in [Bridges -> Status]
  /\ closing \subseteq Bridges
  /\ lm \in [Users -> Bridges \cup {NoBridge}]

BridgeInit ==
  /\ memo = NoBridge
  /\ status = [b \in Bridges |-> "none"]
  /\ closing = {}
  /\ lm = [u \in Users |-> NoBridge]

Running(b) == status[b] \in {"launched", "abandoning", "open", "stopping"}
Ready(b) == status[b] \in {"open", "crashed", "stopping", "closed"}
Unused == {b \in Bridges : status[b] = "none"}

----------------------------------------------------------------------------
(* The backend's operations.                                               *)

\* bridgePromise ??= startBridge(opts)
LanguageModel(u) ==
  /\ IF memo # NoBridge
     THEN /\ lm' = [lm EXCEPT ![u] = memo]
          /\ UNCHANGED <<memo, status>>
     ELSE \E b \in Unused :
            /\ \A other \in Unused : b <= other
            /\ memo' = b
            /\ status' = [status EXCEPT ![b] = "checking"]
            /\ lm' = [lm EXCEPT ![u] = b]
  /\ UNCHANGED closing

\* Mutant: a bridge that is not ready is forgotten instead of awaited.
CloseReadyOnly ==
  /\ memo' = NoBridge
  /\ status' = [b \in Bridges |->
       IF b = memo /\ status[b] \in {"open", "crashed"} THEN "stopping" ELSE status[b]]
  /\ UNCHANGED <<closing, lm>>

\* close(): an open bridge is stopped now, one under way when it is ready.
Close ==
  /\ memo' = NoBridge
  /\ status' = [b \in Bridges |->
       IF b = memo /\ status[b] \in {"open", "crashed"} THEN "stopping" ELSE status[b]]
  /\ closing' = closing \cup ({memo} \cap Bridges)
  /\ UNCHANGED lm

----------------------------------------------------------------------------
(* The progress of bridge b.                                               *)

Becomes(b, from, to) == status[b] \in from /\ status' = [status EXCEPT ![b] = to]

Launch(b) == Becomes(b, {"checking"}, "launched") /\ UNCHANGED <<memo, closing, lm>>

\* The promise of b is rejected: whoever awaits it in languageModel() drops
\* the memo.  The call that started b always awaits it.
StartFails(b) ==
  /\ Becomes(b, {"checking", "abandoning"}, "failed")
  /\ memo' = NoBridge
  /\ UNCHANGED <<closing, lm>>

\* No page, or the model did not become ready: the context is closed first.
SetupFails(b) ==
  /\ Becomes(b, {"launched"}, "abandoning")
  /\ UNCHANGED <<memo, closing, lm>>

\* The bridge is ready, and a close() that waited for it stops it.
BridgeOpens(b) ==
  /\ Becomes(b, {"launched"}, IF b \in closing THEN "stopping" ELSE "open")
  /\ UNCHANGED <<memo, closing, lm>>

ContextCloses(b) == Becomes(b, {"stopping"}, "closed") /\ UNCHANGED <<memo, closing, lm>>

Crash(b) == Becomes(b, {"open"}, "crashed") /\ UNCHANGED <<memo, closing, lm>>

Progress(b) ==
  Launch(b) \/ StartFails(b) \/ SetupFails(b) \/ BridgeOpens(b) \/ ContextCloses(b)

----------------------------------------------------------------------------
(* Properties.                                                             *)

\* A Chrome that runs can be stopped: it is the memo's, or it is being
\* stopped, or a close() waits for it.  The code loses one Chrome: a start
\* that fails after close() took it from the memo clears the memo of the
\* bridge that was started meanwhile.
ChromeCanBeClosed ==
  \A b \in Bridges : Running(b) =>
    \/ memo = b
    \/ status[b] \in {"abandoning", "stopping"}
    \/ b \in closing
    \/ \E older \in closing : older < b /\ status[older] = "failed"

=============================================================================
