----------------------------- MODULE ShimBuild -----------------------------
(***************************************************************************)
(* The cached binary of the Swift shim (apple-fm-shim.mts:                 *)
(* ensureShimBinary, buildShimBinary).  Calls of one process share one     *)
(* build; processes share the directory with the source file and the       *)
(* binary.  A build writes the source, compiles it into a staging file     *)
(* that is named after its process, and renames that to the binary.        *)
(*                                                                         *)
(* What the compiler makes of a source that it read half is a failure or a *)
(* program of that half.                                                   *)
(***************************************************************************)
CONSTANTS
  Builders,  \* the calls of ensureShimBinary()
  ProcessOf  \* ProcessOf[b]: the process of call b

Hosts == {ProcessOf[b] : b \in Builders}
NoBuild == "none"

ASSUME ShimBuildAssumption == NoBuild \notin Builders

VARIABLES
  build,        \* build[b]: how far call b is
  shared,       \* shared[b]: the call whose build it awaits, or NoBuild
  inFlight,     \* inFlight[h]: the call that builds in process h, or NoBuild
  swiftSource,  \* the source file: "none", "torn" or "whole"
  staging,      \* staging[h]: the staging file of process h: "none", "half",
                \* "whole" or, made of half a source, "wrong"
  object,       \* object[b]: what the compiler of b makes
  binary,       \* the cached binary
  crossed       \* ghost: the source was written anew under a compiler

buildVars == <<build, shared, inFlight, swiftSource, staging, object, binary, crossed>>
sourceVars == <<swiftSource, crossed>>
compiler == <<staging, object>>

Finished == {"built", "failed", "dead"}

BuildInit ==
  /\ build = [b \in Builders |-> "none"]
  /\ shared = [b \in Builders |-> NoBuild]
  /\ inFlight = [h \in Hosts |-> NoBuild]
  /\ swiftSource = "none"
  /\ staging = [h \in Hosts |-> "none"]
  /\ object = [b \in Builders |-> "none"]
  /\ binary = "none"
  /\ crossed = FALSE

----------------------------------------------------------------------------
(* ensureShimBinary.                                                       *)

\* Mutant: every call builds for itself.
EnsuresAlone(b) ==
  /\ build[b] = "none"
  /\ build' = [build EXCEPT ![b] = "looking"]
  /\ shared' = [shared EXCEPT ![b] = b]
  /\ inFlight' = [inFlight EXCEPT ![ProcessOf[b]] = b]
  /\ UNCHANGED <<sourceVars, compiler, binary>>

\* The build of this process that is in flight, or a new one.
Ensures(b) ==
  /\ build[b] = "none"
  /\ IF inFlight[ProcessOf[b]] # NoBuild
     THEN /\ build' = [build EXCEPT ![b] = "sharing"]
          /\ shared' = [shared EXCEPT ![b] = inFlight[ProcessOf[b]]]
          /\ UNCHANGED inFlight
     ELSE /\ build' = [build EXCEPT ![b] = "looking"]
          /\ shared' = [shared EXCEPT ![b] = b]
          /\ inFlight' = [inFlight EXCEPT ![ProcessOf[b]] = b]
  /\ UNCHANGED <<sourceVars, compiler, binary>>

\* The promise of the build settles, for all who await it, and is forgotten.
Settles(b, result) ==
  /\ build' = [c \in Builders |-> IF shared[c] = b THEN result ELSE build[c]]
  /\ inFlight' = [inFlight EXCEPT ![ProcessOf[b]] = NoBuild]
  /\ UNCHANGED shared

GoesOn(b, from, to) ==
  /\ build[b] = from /\ build' = [build EXCEPT ![b] = to]
  /\ UNCHANGED <<shared, inFlight>>

----------------------------------------------------------------------------
(* buildShimBinary.                                                        *)

\* A binary that is there is taken as it is.
LooksForBinary(b) ==
  /\ IF binary # "none"
     THEN build[b] = "looking" /\ Settles(b, "built")
     ELSE GoesOn(b, "looking", "finding")
  /\ UNCHANGED <<sourceVars, compiler, binary>>

\* writeFile truncates the file, whoever reads it.
OpensSource(b) ==
  /\ GoesOn(b, "finding", "writing")
  /\ swiftSource' = "torn"
  /\ crossed' = (crossed \/ \E c \in Builders : build[c] = "compiling")
  /\ UNCHANGED <<compiler, binary>>

WritesSource(b) ==
  /\ GoesOn(b, "writing", "compiling")
  /\ swiftSource' = "whole"
  /\ UNCHANGED <<compiler, binary, crossed>>

\* xcrun swiftc reads the source, and starts to write its output.
ReadsSource(b) ==
  /\ GoesOn(b, "compiling", "linking")
  /\ object' = [object EXCEPT ![b] = IF swiftSource = "whole" THEN "whole" ELSE "wrong"]
  /\ staging' = [staging EXCEPT ![ProcessOf[b]] = "half"]
  /\ UNCHANGED <<sourceVars, binary>>

Links(b) ==
  /\ GoesOn(b, "linking", "renaming")
  /\ staging' = [staging EXCEPT ![ProcessOf[b]] = object[b]]
  /\ UNCHANGED <<sourceVars, object, binary>>

\* The name is of the process, and the file has been compiled to its end.
Publishes(b) ==
  /\ build[b] = "renaming" /\ staging[ProcessOf[b]] # "none"
  /\ binary' = staging[ProcessOf[b]]
  /\ staging' = [staging EXCEPT ![ProcessOf[b]] = "none"]
  /\ Settles(b, "built")
  /\ UNCHANGED <<sourceVars, object>>

\* There is no compiler, or it fails or takes too long, or a file operation
\* fails: what was written so far stays.
BuildFails(b) ==
  /\ build[b] \in {"finding", "writing", "compiling", "linking", "renaming"}
  /\ Settles(b, "failed")
  /\ UNCHANGED <<sourceVars, compiler, binary>>

\* The process ends.
HostDies(h) ==
  /\ build' = [b \in Builders |->
       IF ProcessOf[b] = h /\ build[b] \notin Finished THEN "dead" ELSE build[b]]
  /\ inFlight' = [inFlight EXCEPT ![h] = NoBuild]
  /\ UNCHANGED <<shared, sourceVars, compiler, binary>>

BuildStep(b) ==
  \/ LooksForBinary(b) \/ OpensSource(b) \/ WritesSource(b) \/ ReadsSource(b)
  \/ Links(b) \/ Publishes(b) \/ BuildFails(b)

BuildNext ==
  \/ \E b \in Builders : Ensures(b) \/ BuildStep(b)
  \/ \E h \in Hosts : HostDies(h)

\* File operations and the compiler end, by COMPILE_TIMEOUT_MS at the latest.
BuildFairness == \A b \in Builders : WF_buildVars(BuildStep(b))

BuildSpec == BuildInit /\ [][BuildNext]_buildVars /\ BuildFairness

----------------------------------------------------------------------------
(* Properties.                                                             *)

\* The binary that every later process runs was made of the whole source, to
\* its end, whichever builds overlapped, failed or died -- unless a process
\* wrote the source anew while the compiler of another one was to read it.
BinaryIsWhole == binary \in {"none", "whole"} \/ crossed

\* Every call of ensureShimBinary() settles, the ones that share a build too.
BuildsEnd == \A b \in Builders : (build[b] # "none") ~> (build[b] \in Finished)

=============================================================================
