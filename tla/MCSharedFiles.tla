--------------------------- MODULE MCSharedFiles ---------------------------
(* Small instances for TLC of the programs that work on files which others *)
(* read and write at the same time, and which outlive them.  They share no *)
(* state: every behaviour is one of them, chosen at the start, and the     *)
(* others stay as they are.                                                *)
EXTENDS GemmaCache, TypecheckTurns, ReleaseScan, ChromeProfile, ShimBuild

CONSTANTS
  Apart,  \* the build call that is made in a process of its own
  Listed, \* the tree that git status tells from the others
  Broken  \* one of those others, which it does not tell apart

\* The other calls are made in one process and share its builds.
TwoProcesses == [b \in Builders |-> IF b = Apart THEN "other" ELSE "one"]

\* Each file in a directory of its own; the configuration alone is a manifest
\* model with its prompt.
OwnDirectories == [f \in Files |-> f]

\* One tree has a listing of its own, and the others share theirs.
TwoListings == [t \in Trees |-> IF t = Listed THEN "own" ELSE "shared"]

VARIABLE program  \* the program that the behaviour is one of

\* One of the trees that share a listing has errors that count, and so has the
\* tree with its own; the third has none, or foreign ones.
OneSoundTree == {t \in Trees : errors[t] = "own"} = {Listed, Broken}

\* Init, with one choice for what the programs that do not run leave open.
FilesInit ==
  /\ program \in {"cache", "push", "scan", "profile", "build"}
  /\ CacheInit /\ TurnsInit /\ ScanInit /\ ProfileInit /\ BuildInit
  /\ program # "cache" => original = Empty /\ ~ cpuOverride
  /\ IF program = "push" THEN OneSoundTree ELSE errors = [t \in Trees |-> "none"]
  /\ program # "scan" => sameBytes /\ findings = {}
  /\ program # "profile" => wantedModel = "nano" /\ ~ elsewhere

FilesNext ==
  \/ program = "cache" /\ CacheNext
       /\ UNCHANGED <<program, turnVars, scanVars, profileVars, buildVars>>
  \/ program = "push" /\ TurnsNext
       /\ UNCHANGED <<program, cacheVars, scanVars, profileVars, buildVars>>
  \/ program = "scan" /\ ScanNext
       /\ UNCHANGED <<program, cacheVars, turnVars, profileVars, buildVars>>
  \/ program = "profile" /\ ProfileNext
       /\ UNCHANGED <<program, cacheVars, turnVars, scanVars, buildVars>>
  \/ program = "build" /\ BuildNext
       /\ UNCHANGED <<program, cacheVars, turnVars, scanVars, profileVars>>

\* None of the fair actions is enabled in a program that has not begun, so the
\* fairness of the programs that do not run asks nothing.
FilesSpec ==
  /\ FilesInit
  /\ [][FilesNext]_<<program, cacheVars, turnVars, scanVars, profileVars, buildVars>>
  /\ CacheFairness /\ TurnsFairness /\ ScanFairness /\ BuildFairness

\* Every probe of a browser, every push, scan and build comes to its end,
\* whatever the page, the holder of the lock, the service and the other
\* processes leave undone.
FilesWorkEnds == BrowserProbeEnds /\ EveryPushEnds /\ ScanEnds /\ BuildsEnd
=============================================================================
