--------------------------- MODULE ChromeProfile ---------------------------
(***************************************************************************)
(* The user-data directory that processes share when they start Chrome     *)
(* (backends/chrome-profile.mts, chrome-assets.mts, chrome/storage.mts):   *)
(* each looks for the model, clones it from the system's Chrome when the   *)
(* profile has none, seeds Local State, and launches.  Nothing keeps two   *)
(* processes from doing so at once, and either may die at any point.       *)
(*                                                                         *)
(* Gemma 4 counts as present when Local State has its ledger and its       *)
(* weights are not empty; Gemini Nano when its weights are not empty.      *)
(***************************************************************************)
EXTENDS FiniteSets

CONSTANT Seeders  \* the processes

VARIABLES
  wantedModel, \* the model that all of them want, and
  elsewhere,   \* whether the system's profile has it, with its ledger
  weights,     \* the profile's weights: "none", "partial" or "whole"
  localState,  \* Local State: "none", "torn" (half written), "bare" or "ledger"
  chrome,      \* the process whose Chrome runs in the profile, if any
  seeding,     \* seeding[p]: how far startBridge is in process p
  source,      \* source[p]: what findModelSource found
  read,        \* read[p]: whether a ledger was read for the seed
  died,        \* ghost: a process died or failed between two steps
  overlapped   \* ghost: one began beside another or under a running Chrome

Nobody == "nobody"

ASSUME ProfileAssumption == Nobody \notin Seeders

profileVars == <<wantedModel, elsewhere, weights, localState, chrome, seeding,
                 source, read, died, overlapped>>
ghosts == <<died, overlapped>>
wanted == <<wantedModel, elsewhere>>

UnderWay == {p \in Seeders : seeding[p] \notin {"none", "running"}}

ProfileInit ==
  /\ wantedModel \in {"nano", "gemma4"}
  /\ elsewhere \in BOOLEAN
  /\ weights = "none" /\ localState = "none"
  /\ chrome = Nobody
  /\ seeding = [p \in Seeders |-> "none"]
  /\ source = [p \in Seeders |-> "none"]
  /\ read = [p \in Seeders |-> FALSE]
  /\ died = FALSE /\ overlapped = FALSE

\* Mutant: Gemma is found by its weights alone.
PresentByWeights == weights # "none"

\* hasChromeModelAssets of the profile: whole or not, the weights are there.
Present == weights # "none" /\ (wantedModel = "gemma4" => localState = "ledger")

Goes(p, from, to) == seeding[p] = from /\ seeding' = [seeding EXCEPT ![p] = to]

----------------------------------------------------------------------------

\* findModelSource: the profile, then the system's, then a download.
Finds(p, kind) ==
  /\ Goes(p, "none", CASE kind = "system" -> "cloning" [] OTHER -> "reading")
  /\ kind = "profile" <=> Present
  /\ kind = "system" => elsewhere
  /\ kind = "download" => ~ elsewhere
  /\ source' = [source EXCEPT ![p] = kind]
  /\ overlapped' = (overlapped \/ UnderWay # {} \/ chrome # Nobody)
  /\ UNCHANGED <<wanted, weights, localState, chrome, read, died>>

\* cloneDir of the model's directory, over what the profile has of it.
CloneBegins(p) ==
  /\ Goes(p, "cloning", "copying")
  /\ weights' = "partial"
  /\ UNCHANGED <<wanted, localState, chrome, source, read, ghosts>>

CloneEnds(p) ==
  /\ Goes(p, "copying", "reading")
  /\ weights' = "whole"
  /\ UNCHANGED <<wanted, localState, chrome, source, read, ghosts>>

\* Mutant: the seed takes nothing from the system's Local State.
ReadsProfileOnly(p) ==
  /\ Goes(p, "reading", "seeding")
  /\ read' = [read EXCEPT ![p] = localState = "ledger"]
  /\ UNCHANGED <<wanted, weights, localState, chrome, source, ghosts>>

\* The profile's Local State, or nothing if it does not parse, and the
\* model_execution of the system's, which has the ledger.
Reads(p) ==
  /\ Goes(p, "reading", "seeding")
  /\ read' = [read EXCEPT ![p] = localState = "ledger" \/ source[p] = "system"]
  /\ UNCHANGED <<wanted, weights, localState, chrome, source, ghosts>>

\* writeJson, in place.
SeedBegins(p) ==
  /\ Goes(p, "seeding", "writing")
  /\ localState' = "torn"
  /\ UNCHANGED <<wanted, weights, chrome, source, read, ghosts>>

SeedEnds(p) ==
  /\ Goes(p, "writing", "seeded")
  /\ localState' = IF read[p] THEN "ledger" ELSE "bare"
  /\ UNCHANGED <<wanted, weights, chrome, source, read, ghosts>>

\* The disk has room and no other Chrome holds the profile.
Launches(p) ==
  /\ Goes(p, "seeded", "running")
  /\ chrome = Nobody /\ chrome' = p
  /\ UNCHANGED <<wanted, weights, localState, source, read, ghosts>>

\* assertChromeStorage fails, or Chrome finds the profile in use.
Refused(p) ==
  /\ Goes(p, "seeded", "none")
  /\ UNCHANGED <<wanted, weights, localState, chrome, source, read, ghosts>>

\* With downloads allowed Chrome fills the profile that it runs in.
Downloads(p) ==
  /\ chrome = p /\ weights = "none" /\ source[p] = "download"
  /\ weights' = "whole" /\ localState' = "ledger"
  /\ UNCHANGED <<wanted, chrome, seeding, source, read, ghosts>>

Quits(p) ==
  /\ Goes(p, "running", "none")
  /\ chrome' = Nobody
  /\ UNCHANGED <<wanted, weights, localState, source, read, ghosts>>

\* The process is killed, or its clone or its write fails.
SeederDies(p) ==
  /\ p \in UnderWay
  /\ seeding' = [seeding EXCEPT ![p] = "none"]
  /\ died' = TRUE
  /\ UNCHANGED <<wanted, weights, localState, chrome, source, read, overlapped>>

ProfileNext ==
  \E p \in Seeders :
    \/ \E kind \in {"profile", "system", "download"} : Finds(p, kind)
    \/ CloneBegins(p) \/ CloneEnds(p) \/ Reads(p) \/ SeedBegins(p) \/ SeedEnds(p)
    \/ Launches(p) \/ Refused(p) \/ Downloads(p) \/ Quits(p) \/ SeederDies(p)

ProfileSpec == ProfileInit /\ [][ProfileNext]_profileVars

----------------------------------------------------------------------------
(* Properties.                                                             *)

\* Chrome runs over half a model only if a process seeded the profile beside
\* another one or its Chrome or, for Gemini Nano, if one died in its clone: the
\* ledger that is written last makes a dead clone of Gemma be cloned again.
HalfModelNeedsFault ==
  chrome # Nobody /\ weights = "partial" =>
    overlapped \/ (wantedModel = "nano" /\ died)

\* A profile that holds the whole of Gemma goes on being found, unless a
\* process died while it wrote Local State, or wrote it beside another one or
\* under a Chrome that was running: the profile is seeded before it is known
\* whether Chrome may run in it.
SeededGemmaStays ==
  wantedModel = "gemma4" /\ weights = "whole" /\ UnderWay = {} =>
    localState = "ledger" \/ died \/ overlapped

=============================================================================
