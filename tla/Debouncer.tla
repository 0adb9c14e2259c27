----------------------------- MODULE Debouncer -----------------------------
(***************************************************************************)
(* createDebouncer (debounce.mts): each request waits for its delay, then  *)
(* runs a function with a signal.  A newer request aborts the last one and *)
(* takes its timer away.                                                   *)
(*                                                                         *)
(* What the function does is the caller's: it may answer although its      *)
(* signal is aborted, or never.                                            *)
(***************************************************************************)
EXTENDS Naturals, FiniteSets

CONSTANT Schedules  \* the requests

NoRequest == "none"

ASSUME DebouncerAssumption == NoRequest \notin Schedules

VARIABLES
  debounced,      \* debounced[r]: its promise, and whether its function runs
  signalled,      \* the requests whose controller is aborted
  armed,          \* the timers that are set
  activeTimeout,  \* the timer that the debouncer knows of, or NoRequest
  newest          \* the request of activeController, or NoRequest

debounceVars == <<debounced, signalled, armed, activeTimeout, newest>>

DebounceInit ==
  /\ debounced = [r \in Schedules |-> "unmade"]
  /\ signalled = {} /\ armed = {}
  /\ activeTimeout = NoRequest /\ newest = NoRequest

\* Mutant: a request that runs already is not aborted.
SchedulesBeside(r) ==
  /\ debounced[r] = "unmade"
  /\ debounced' = [debounced EXCEPT ![r] = "waiting"]
  /\ signalled' = (signalled \cup {activeTimeout}) \ {NoRequest}
  /\ armed' = (armed \ {activeTimeout}) \cup {r}
  /\ activeTimeout' = r /\ newest' = r

Schedule(r) ==
  /\ debounced[r] = "unmade"
  /\ debounced' = [debounced EXCEPT ![r] = "waiting"]
  /\ signalled' = (signalled \cup {newest}) \ {NoRequest}
  /\ armed' = (armed \ {activeTimeout}) \cup {r}
  /\ activeTimeout' = r /\ newest' = r

\* DebouncedRequest.abort, of any request at any time.
AbortDebounced(r) ==
  /\ debounced[r] # "unmade" /\ signalled' = signalled \cup {r}
  /\ UNCHANGED <<debounced, armed, activeTimeout, newest>>

\* The delay has passed.
DelayEnds(r) ==
  /\ r \in armed
  /\ armed' = armed \ {r} /\ activeTimeout' = NoRequest
  /\ debounced' = [debounced EXCEPT ![r] = IF r \in signalled THEN "rejected" ELSE "running"]
  /\ UNCHANGED <<signalled, newest>>

FunctionEnds(r) ==
  /\ debounced[r] = "running"
  /\ \E outcome \in {"resolved", "rejected"} : debounced' = [debounced EXCEPT ![r] = outcome]
  /\ UNCHANGED <<signalled, armed, activeTimeout, newest>>

DebounceNext ==
  \E r \in Schedules : Schedule(r) \/ AbortDebounced(r) \/ DelayEnds(r) \/ FunctionEnds(r)

\* Timers go off.  The function owes nothing.
DebounceFairness == \A r \in Schedules : WF_debounceVars(DelayEnds(r))

DebounceSpec == DebounceInit /\ [][DebounceNext]_debounceVars /\ DebounceFairness

----------------------------------------------------------------------------
(* Properties.                                                             *)

\* One request at a time goes on to an answer that is wanted: whichever timers
\* are set, functions run and calls were aborted, it is the newest.
OnlyTheNewestRuns ==
  /\ Cardinality(armed) <= 1
  /\ \A r \in Schedules :
       r \in armed \/ (debounced[r] = "running" /\ r \notin signalled) => r = newest

\* A request that waits comes to its function or is refused, unless a newer
\* one came before its delay was over: that leaves its promise open for ever.
NewestComesToItsTurn ==
  \A r \in Schedules : (debounced[r] = "waiting") ~> (debounced[r] # "waiting" \/ newest # r)

=============================================================================
