---------------------------- MODULE LocalFactory ----------------------------
(***************************************************************************)
(* createLocalLanguageModelFactory (provider.mts): calls of availability() *)
(* and create() share a selection of a backend.  A selection that failed   *)
(* stays until an availability() that waited for it drops it.              *)
(*                                                                         *)
(* Two calls that see the same selection fail need not go on one after the *)
(* other: the later one may have come when it had failed already, and a    *)
(* third call, in a microtask between theirs, makes a selection anew.      *)
(***************************************************************************)
EXTENDS Naturals, Sequences, FiniteSets

CONSTANTS
  AvailabilityCalls,  \* the calls of availability()
  CreateCalls         \* the calls of create()

FactoryCalls == AvailabilityCalls \cup CreateCalls

ASSUME LocalFactoryAssumption == AvailabilityCalls \cap CreateCalls = {}

VARIABLES
  selection,       \* the selections made so far: "pending", "found", "failed"
  backendPromise,  \* the selection that is memoized, or 0
  factoryCall,     \* factoryCall[c]: how far call c is
  awaited          \* awaited[c]: the selection it uses, or 0

factoryVars == <<selection, backendPromise, factoryCall, awaited>>

FactoryInit ==
  /\ selection = <<>> /\ backendPromise = 0
  /\ factoryCall = [c \in FactoryCalls |-> "none"]
  /\ awaited = [c \in FactoryCalls |-> 0]

\* resolveBackend: the memo, or a selection that begins.
ResolvesBackend(c) ==
  /\ factoryCall[c] = "none"
  /\ factoryCall' = [factoryCall EXCEPT ![c] = "selecting"]
  /\ selection' = IF backendPromise = 0 THEN Append(selection, "pending") ELSE selection
  /\ backendPromise' = IF backendPromise = 0 THEN Len(selection) + 1 ELSE backendPromise
  /\ awaited' = [awaited EXCEPT ![c] = backendPromise']

\* selectBackend finds an available backend, or throws.
SelectionEnds(s) ==
  /\ selection[s] = "pending"
  /\ \E outcome \in {"found", "failed"} : selection' = [selection EXCEPT ![s] = outcome]
  /\ UNCHANGED <<backendPromise, factoryCall, awaited>>

CallEnds(c, outcome) ==
  /\ factoryCall' = [factoryCall EXCEPT ![c] = outcome]
  /\ UNCHANGED <<selection, awaited>>

\* Mutant: the answer is the last use of the selection.
SaysAvailableOnce(c) ==
  /\ factoryCall[c] = "selecting" /\ selection[awaited[c]] = "found"
  /\ CallEnds(c, "available") /\ backendPromise' = 0

SaysAvailable(c) ==
  /\ factoryCall[c] = "selecting" /\ selection[awaited[c]] = "found"
  /\ CallEnds(c, "available") /\ UNCHANGED backendPromise

\* Whatever is memoized by now is dropped.
SaysUnavailable(c) ==
  /\ factoryCall[c] = "selecting" /\ selection[awaited[c]] = "failed"
  /\ CallEnds(c, "unavailable") /\ backendPromise' = 0

\* create() goes on to the model of its backend, or fails with the selection.
UsesBackend(c) ==
  /\ factoryCall[c] = "selecting" /\ selection[awaited[c]] # "pending"
  /\ CallEnds(c, IF selection[awaited[c]] = "found" THEN "creating" ELSE "rejected")
  /\ UNCHANGED backendPromise

\* languageModel() and its create() end.
CreationEnds(c) ==
  /\ factoryCall[c] = "creating"
  /\ \E outcome \in {"session", "rejected"} : CallEnds(c, outcome)
  /\ UNCHANGED backendPromise

CallGoesOn(c) ==
  \/ c \in AvailabilityCalls /\ (SaysAvailable(c) \/ SaysUnavailable(c))
  \/ c \in CreateCalls /\ (UsesBackend(c) \/ CreationEnds(c))

FactoryNext ==
  \/ \E c \in FactoryCalls : ResolvesBackend(c) \/ CallGoesOn(c)
  \/ \E s \in DOMAIN selection : SelectionEnds(s)

FactorySpec == FactoryInit /\ [][FactoryNext]_factoryVars

----------------------------------------------------------------------------
(* Properties.                                                             *)

BackendsInUse == {awaited[c] : c \in {d \in FactoryCalls :
                    factoryCall[d] \in {"available", "creating", "session"}}}

\* The backend that availability() found is the one that create() uses, for all
\* calls of a factory -- unless two availability() calls had seen one selection
\* fail before: the later of them drops the selection that was made meanwhile.
SelectionIsShared ==
  \A s, t \in BackendsInUse : s < t =>
    \E u \in 1 .. s - 1 :
      Cardinality({c \in AvailabilityCalls :
        awaited[c] = u /\ factoryCall[c] = "unavailable"}) >= 2

\* A selection is made anew only where availability() found that one failed.
\* Calls of create() alone fail for ever with the first one.
FailureIsKeptUntilAsked ==
  \A s \in DOMAIN selection : s > 1 =>
    \E c \in AvailabilityCalls : awaited[c] < s /\ factoryCall[c] = "unavailable"

=============================================================================
