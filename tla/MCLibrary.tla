----------------------------- MODULE MCLibrary -----------------------------
(* Small instances of the library's smaller programs for TLC.  They share  *)
(* no state: every behaviour is one of them, chosen at the start, and the  *)
(* others stay as they are.                                                *)
EXTENDS AppleShim, OdaiModel, LocalService, MCLlamaStream, Debouncer,
        LocalFactory

VARIABLE program  \* the program that the behaviour is one of

Others(vs) == UNCHANGED <<program, vs>>

\* Init, with one choice for what the programs that do not run leave open.
LibraryInit ==
  /\ program \in {"shim", "model", "service", "stream", "debouncer", "factory"}
  /\ Init /\ ModelInit /\ ServiceInit /\ StreamsInit /\ DebounceInit /\ FactoryInit
  /\ program # "model" => ~ interactive /\ ~ cloneCapable /\ structured = {}
  /\ program # "service" => command = "backends"
  /\ program # "stream" => plain = {}

LibraryNext ==
  \/ program = "shim" /\ Next
       /\ Others(<<modelVars, serviceVars, streamVars, debounceVars, factoryVars>>)
  \/ program = "model" /\ ModelNext
       /\ Others(<<vars, serviceVars, streamVars, debounceVars, factoryVars>>)
  \/ program = "service" /\ ServiceNext
       /\ Others(<<vars, modelVars, streamVars, debounceVars, factoryVars>>)
  \/ program = "stream" /\ StreamsNext
       /\ Others(<<vars, modelVars, serviceVars, debounceVars, factoryVars>>)
  \/ program = "debouncer" /\ DebounceNext
       /\ Others(<<vars, modelVars, serviceVars, streamVars, factoryVars>>)
  \/ program = "factory" /\ FactoryNext
       /\ Others(<<vars, modelVars, serviceVars, streamVars, debounceVars>>)

\* None of the fair actions is enabled in a program that has not begun, so the
\* fairness of the programs that do not run asks nothing.
LibrarySpec ==
  /\ LibraryInit
  /\ [][LibraryNext]_<<program, vars, modelVars, serviceVars, streamVars, debounceVars,
                     factoryVars>>
  /\ Fairness /\ Timers /\ ServiceFairness /\ StreamsFairness /\ DebounceFairness

\* The helpers of a request: a factory keeps to one backend, a debouncer to one
\* request.
HelpersKeepOne == SelectionIsShared /\ FailureIsKeptUntilAsked /\ OnlyTheNewestRuns

\* Every call of the shim's session, every model and stream comes to its end,
\* and a debounced request to its turn, whatever the child, the provider and
\* the server leave unanswered; and so does a command, whatever its tasks do,
\* once its session is made.
LibraryWorkEnds ==
  /\ EveryCallSettles /\ ModelWorkEnds /\ CommandEnds /\ StreamsEnd
  /\ NewestComesToItsTurn
=============================================================================
