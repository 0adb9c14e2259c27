----------------------------- MODULE GemmaCache -----------------------------
(***************************************************************************)
(* The Gemma profile of the repository's cache tooling                     *)
(* (scripts/repo/cache): a probe that starts Chrome in the profile to      *)
(* provision it (browser.mts), an export that copies its model files       *)
(* beside a manifest of their hashes, and the check of such a copy         *)
(* (util.mts).  They are commands of their own: nothing keeps a probe from *)
(* starting once an export has looked for Chrome's lock.                   *)
(*                                                                         *)
(* The contents of a file are a number that every write makes new; 0 is no *)
(* file.  An inventory lists each directory once, as it comes to it, and   *)
(* takes the hashes one file at a time.                                    *)
(***************************************************************************)
EXTENDS Naturals

CONSTANTS
  Files,         \* the files of a complete cache
  DirectoryOf,   \* DirectoryOf[f]: where f is
  ManifestModel, \* the files of OptGuideManifestModel
  PromptConfigs, \* the files that configure Gemma's prompt
  MaxFile        \* bound on the writes to a file

ASSUME CacheAssumption == ManifestModel \subseteq Files /\ PromptConfigs \subseteq Files

VARIABLES
  original,  \* original[f]: contents of f in the provisioned profile
  lock,      \* the profile has Chrome's SingletonLock
  browser,   \* Chrome runs in the profile
  context,   \* the probe holds its context
  probe,     \* how far probeGemmaBrowser is, or "none"
  proofAttempt, \* the attempt of probeGemmaProvision
  timedOut,  \* timedOut, nativeLogLimitReached: why a probe is to stop
  overLimit,
  cpuOverride,
  exporter,  \* how far exportGemmaCache is
  listed,    \* the directories whose names the inventory has read
  names,     \* the files that it read of
  late,      \* ghost: files that Chrome made after their directory was listed
  hashed,    \* hashed[f]: contents of f when it was hashed, 0 before
  moment,    \* ghost: the profile when its inventory was complete
  copy,      \* copy[f]: contents of f in the destination
  manifest,  \* the destination's manifest, or Empty
  accepted   \* ghost: the contents that verifyCacheManifest accepted, or Empty

probeVars == <<lock, browser, context, probe, proofAttempt, timedOut, overLimit, cpuOverride>>
inventoryVars == <<listed, names, late>>
exportVars == <<exporter, inventoryVars, hashed, moment, copy, manifest, accepted>>
cacheVars == <<original, probeVars, exportVars>>

Empty == [f \in Files |-> 0]
Directories == {DirectoryOf[f] : f \in Files}

CacheInit ==
  /\ original \in [Files -> 0 .. 1]
  /\ lock = FALSE /\ browser = FALSE /\ context = FALSE
  /\ probe = "none" /\ proofAttempt = 0
  /\ timedOut = FALSE /\ overLimit = FALSE
  /\ cpuOverride \in BOOLEAN
  /\ exporter = "none"
  /\ listed = {} /\ names = {} /\ late = {}
  /\ hashed = Empty /\ moment = Empty /\ copy = Empty
  /\ manifest = Empty /\ accepted = Empty

----------------------------------------------------------------------------
(* probeGemmaProvision and probeGemmaBrowser.                              *)

\* One attempt, its timer set.
Attempts ==
  /\ probe' = "preparing"
  /\ proofAttempt' = proofAttempt + 1
  /\ timedOut' = FALSE /\ overLimit' = FALSE

ProbeBegins ==
  /\ probe = "none" /\ Attempts
  /\ UNCHANGED <<original, lock, browser, context, cpuOverride, exportVars>>

\* The machine has no room for the model: no browser is started.
NoCapacity ==
  /\ probe = "none" /\ probe' = "ended"
  /\ UNCHANGED <<original, lock, browser, context, proofAttempt, timedOut, overLimit,
                 cpuOverride, exportVars>>

\* The native log is ready; a probe that timed out meanwhile stops.
NativeReady ==
  /\ probe = "preparing"
  /\ probe' = IF timedOut THEN "unwinding" ELSE "launching"
  /\ UNCHANGED <<original, lock, browser, context, proofAttempt, timedOut, overLimit,
                 cpuOverride, exportVars>>

\* The lock of a Chrome is there, or Chrome does not start; a page that
\* fails after the start, or a prompt, or an answer that names another model.
ProbeFails ==
  /\ probe \in {"preparing", "launching", "working"}
  /\ probe' = "unwinding"
  /\ UNCHANGED <<original, lock, browser, context, proofAttempt, timedOut, overLimit,
                 cpuOverride, exportVars>>

\* Mutant: a late browser is refused before the probe holds its context.
LaunchedUnheld ==
  /\ probe = "launching" /\ ~ lock
  /\ lock' = TRUE /\ browser' = TRUE
  /\ context' = ~ (timedOut \/ overLimit)
  /\ probe' = IF timedOut \/ overLimit THEN "unwinding" ELSE "working"
  /\ UNCHANGED <<original, proofAttempt, timedOut, overLimit, cpuOverride, exportVars>>

\* assertCacheProfile, then Chrome.  One that comes late is held all the same
\* and its probe stops.
Launched ==
  /\ probe = "launching" /\ ~ lock
  /\ lock' = TRUE /\ browser' = TRUE /\ context' = TRUE
  /\ probe' = IF timedOut \/ overLimit THEN "unwinding" ELSE "working"
  /\ UNCHANGED <<original, proofAttempt, timedOut, overLimit, cpuOverride, exportVars>>

\* context?.close(): the calls into the page that wait for it fail.
Interrupts ==
  /\ IF context THEN browser' = FALSE /\ lock' = (lock /\ ~ browser)
                ELSE UNCHANGED <<browser, lock>>
  /\ UNCHANGED <<original, context, probe, proofAttempt, cpuOverride, exportVars>>

\* Mutant: the timer says that it went off and leaves the browser alone.
TimerOnlyMarks ==
  /\ probe \in {"preparing", "launching", "working"} /\ ~ timedOut
  /\ timedOut' = TRUE
  /\ UNCHANGED <<original, lock, browser, context, probe, proofAttempt, overLimit,
                 cpuOverride, exportVars>>

Timer ==
  /\ probe \in {"preparing", "launching", "working"} /\ ~ timedOut
  /\ timedOut' = TRUE
  /\ Interrupts
  /\ UNCHANGED overLimit

LogLimit ==
  /\ probe \in {"launching", "working"} /\ ~ overLimit
  /\ overLimit' = TRUE
  /\ Interrupts
  /\ UNCHANGED timedOut

\* The model answered: the browser is closed and its flag looked at.
ProbeSucceeds ==
  /\ probe = "working" /\ browser
  /\ \E flagKept \in BOOLEAN : probe' = IF flagKept THEN "ended" ELSE "unwinding"
  /\ browser' = FALSE /\ lock' = FALSE /\ context' = FALSE
  /\ UNCHANGED <<original, proofAttempt, timedOut, overLimit, cpuOverride, exportVars>>

\* closeBrowser, and the one retry of a probe on the processor.
Unwinds ==
  /\ probe = "unwinding"
  /\ browser' = (browser /\ ~ context)
  /\ lock' = (lock /\ ~ (browser /\ context))
  /\ context' = FALSE
  /\ \/ cpuOverride /\ proofAttempt = 1 /\ ~ timedOut /\ Attempts
     \/ probe' = "ended" /\ UNCHANGED <<proofAttempt, timedOut, overLimit>>
  /\ UNCHANGED <<original, cpuOverride, exportVars>>

\* docker rm --force, or a kill: Chrome's lock is not taken away.
Killed ==
  /\ probe \notin {"none", "ended"}
  /\ probe' = "ended" /\ browser' = FALSE /\ context' = FALSE
  /\ UNCHANGED <<original, lock, proofAttempt, timedOut, overLimit, cpuOverride, exportVars>>

\* Chrome goes away by itself, without its lock: a second attempt meets it.
BrowserCrashes ==
  /\ browser /\ browser' = FALSE
  /\ UNCHANGED <<original, lock, context, probe, proofAttempt, timedOut, overLimit,
                 cpuOverride, exportVars>>

\* Chrome writes a file of its model, also long after its start.
BrowserWrites(f) ==
  /\ browser /\ original[f] < MaxFile
  /\ original' = [original EXCEPT ![f] = @ + 1]
  /\ late' = IF exporter = "hashing" /\ DirectoryOf[f] \in listed /\ original[f] = 0
             THEN late \cup {f} ELSE late
  /\ UNCHANGED <<probeVars, exporter, listed, names, hashed, moment, copy, manifest, accepted>>

----------------------------------------------------------------------------
(* exportGemmaCache.                                                       *)

\* assertCacheProfile: this is the one look at the lock.
ExportBegins ==
  /\ exporter = "none" /\ ~ lock
  /\ exporter' = "hashing"
  /\ UNCHANGED <<original, probeVars, inventoryVars, hashed, moment, copy, manifest, accepted>>

\* Mutant: a directory is listed without the files that are in use.
ListsInPart(d) ==
  /\ exporter = "hashing" /\ d \notin listed
  /\ listed' = listed \cup {d}
  /\ \E seen \in SUBSET {f \in Files : DirectoryOf[f] = d /\ original[f] # 0} : names' = names \cup seen
  /\ UNCHANGED <<original, probeVars, exporter, late, hashed, moment, copy, manifest, accepted>>

\* visit of a directory, readdir: a file that comes later is not seen.
Lists(d) ==
  /\ exporter = "hashing" /\ d \notin listed
  /\ listed' = listed \cup {d}
  /\ names' = names \cup {f \in Files : DirectoryOf[f] = d /\ original[f] # 0}
  /\ UNCHANGED <<original, probeVars, exporter, late, hashed, moment, copy, manifest, accepted>>

Hashes(f) ==
  /\ exporter = "hashing" /\ f \in names /\ hashed[f] = 0
  /\ hashed' = [hashed EXCEPT ![f] = original[f]]
  /\ UNCHANGED <<original, probeVars, exporter, inventoryVars, moment, copy, manifest, accepted>>

\* All that was listed is hashed, some model and some prompt configuration are
\* among it, and the new destination is made.
InventoryComplete ==
  /\ exporter = "hashing" /\ listed = Directories
  /\ \A f \in names : hashed[f] # 0
  /\ names \cap ManifestModel # {} /\ names \cap PromptConfigs # {}
  /\ exporter' = "copying"
  /\ moment' = original
  /\ UNCHANGED <<original, probeVars, inventoryVars, hashed, copy, manifest, accepted>>

Copies(f) ==
  /\ exporter = "copying" /\ f \in names /\ copy[f] = 0
  /\ copy' = [copy EXCEPT ![f] = original[f]]
  /\ UNCHANGED <<original, probeVars, exporter, inventoryVars, hashed, moment, manifest, accepted>>

\* Mutant: the manifest lists what was copied.
SealsCopy ==
  /\ exporter = "copying" /\ \A f \in names : copy[f] # 0
  /\ exporter' = "ended"
  /\ manifest' = copy
  /\ UNCHANGED <<original, probeVars, inventoryVars, hashed, moment, copy, accepted>>

\* The copy is hashed again, Local State is written, the manifest comes last.
Seals ==
  /\ exporter = "copying" /\ copy = hashed
  /\ exporter' = "ended"
  /\ manifest' = hashed
  /\ UNCHANGED <<original, probeVars, inventoryVars, hashed, moment, copy, accepted>>

\* Files are missing or changed, the destination exists, or the process dies.
ExportFails ==
  /\ exporter \in {"hashing", "copying"}
  /\ exporter' = "ended"
  /\ UNCHANGED <<original, probeVars, inventoryVars, hashed, moment, copy, manifest, accepted>>

\* The copy is changed where it lies, or on its way.
Damage(f) ==
  /\ exporter = "ended" /\ copy[f] # MaxFile + 1
  /\ copy' = [copy EXCEPT ![f] = MaxFile + 1]
  /\ UNCHANGED <<original, probeVars, exporter, inventoryVars, hashed, moment, manifest, accepted>>

\* verifyCacheManifest, which hashes one file after the other; no one writes
\* to a copy meanwhile.
Verifies ==
  /\ manifest # Empty /\ copy = manifest
  /\ accepted' = copy
  /\ UNCHANGED <<original, probeVars, exporter, inventoryVars, hashed, moment, copy, manifest>>

----------------------------------------------------------------------------

ProbeStep ==
  \/ ProbeBegins \/ NoCapacity \/ NativeReady \/ Launched \/ ProbeSucceeds
  \/ ProbeFails \/ Unwinds

CacheNext ==
  \/ ProbeStep \/ Timer \/ LogLimit \/ Killed \/ BrowserCrashes
  \/ ExportBegins \/ InventoryComplete \/ Seals \/ ExportFails \/ Verifies
  \/ \E f \in Files : BrowserWrites(f) \/ Hashes(f) \/ Copies(f) \/ Damage(f)
  \/ \E d \in Directories : Lists(d)

\* Chrome need not answer: what a probe waits for in its page may never come
\* while its browser is open.
CacheFairness ==
  /\ WF_cacheVars(NativeReady \/ Unwinds)
  /\ WF_cacheVars(probe = "launching" /\ (Launched \/ ProbeFails))
  /\ WF_cacheVars(~ browser /\ probe = "working" /\ ProbeFails)
  /\ WF_cacheVars(Timer)

CacheSpec == CacheInit /\ [][CacheNext]_cacheVars /\ CacheFairness

----------------------------------------------------------------------------
(* Properties.                                                             *)

\* Every file of a copy that is accepted is as it was in the profile at one
\* moment, though a Chrome may have started after the look at its lock and
\* written all along.  The copy lacks no file of that moment but those that
\* Chrome made after their directory had been listed (util.mts:198).
VerifiedIsOneMoment ==
  accepted # Empty =>
    \A f \in Files : accepted[f] = moment[f] \/ (accepted[f] = 0 /\ f \in late)

\* A probe that ends, or begins its second attempt, leaves no Chrome behind,
\* however late its Chrome came.
ProbeLeavesNoBrowser == browser => probe \in {"working", "unwinding"}

\* A probe ends, although its page may never answer.
BrowserProbeEnds == (probe # "none") ~> (probe = "ended")

=============================================================================
