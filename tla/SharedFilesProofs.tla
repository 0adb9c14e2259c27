------------------------- MODULE SharedFilesProofs -------------------------
(***************************************************************************)
(* Proofs about the programs that work on files which others read and      *)
(* write at the same time: Chrome's profile, the cached binary of the      *)
(* Swift shim, the copies of Gemma's cache, the lock and verdicts of the   *)
(* type check, the tarball of a release.  They share no state; each has    *)
(* an inductive invariant of its own.                                      *)
(*                                                                         *)
(* As long as no process began beside another one, ProfileInv knows what   *)
(* the one that is under way has found and written so far.  For Gemma the  *)
(* order of clone and ledger carries it: a ledger is in Local State only   *)
(* over whole weights.                                                     *)
(*                                                                         *)
(* BuildInv follows the source through the compiler: one build at a time   *)
(* in a process, so that the staging file is its own, and a compiler that  *)
(* reads the whole source unless it was crossed.                           *)
(*                                                                         *)
(* ExportInv places the inventory's moment between the hashes, which are   *)
(* older, and the copies, which are newer: a file of a copy with the hash  *)
(* of its inventory is as it was at that moment, whoever wrote.  What the  *)
(* inventory has not seen was not there, or was made behind its back.      *)
(*                                                                         *)
(* TurnsInv says who may hold the lock and whose verdicts there are: the   *)
(* holder is in its turn and has the handle to release it; in the ordinary *)
(* course nobody else is in a turn; and what is under a key, or is about   *)
(* to be, is the verdict of a tree with that key or the key is in mixed.   *)
(*                                                                         *)
(* ScanInv follows runScanCi: which files there can be on the way to its   *)
(* end, and what the results are known to be before they are judged: an    *)
(* answer that is "done" comes from a scan that is, and what is judged is  *)
(* some of what it found, and all of it unless the answer was cut short.   *)
(***************************************************************************)
EXTENDS ChromeProfile, ShimBuild, GemmaCache, TypecheckTurns, ReleaseScan,
        FiniteSetTheorems, TLAPS

----------------------------------------------------------------------------
(* Chrome's profile.                                                       *)

Moving(p) == seeding[p] \notin {"none", "running"}

ProfileTypes ==
  /\ wantedModel \in {"nano", "gemma4"} /\ elsewhere \in BOOLEAN
  /\ weights \in {"none", "partial", "whole"}
  /\ localState \in {"none", "torn", "bare", "ledger"}
  /\ seeding \in [Seeders -> {"none", "cloning", "copying", "reading", "seeding",
                              "writing", "seeded", "running"}]
  /\ source \in [Seeders -> {"none", "profile", "system", "download"}]
  /\ read \in [Seeders -> BOOLEAN]
  /\ died \in BOOLEAN /\ overlapped \in BOOLEAN

\* One process at a time, and none under a running Chrome.
Alone ==
  /\ \A p, q \in Seeders : Moving(p) /\ Moving(q) => p = q
  /\ \A p \in Seeders : Moving(p) => chrome = Nobody

\* Half a Nano is being copied, unless a process died.
NanoIsCopied ==
  wantedModel = "nano" /\ ~ died =>
    (weights = "partial" => \E p \in Seeders : seeding[p] = "copying")

\* A ledger means whole weights, and half of them can be had again.
LedgerIsLast ==
  /\ localState = "ledger" => weights = "whole"
  /\ weights = "partial" => elsewhere /\ chrome = Nobody
  /\ (\A p \in Seeders : ~ Moving(p)) /\ ~ died /\ weights = "whole" =>
       localState = "ledger"

\* What the process that is under way knows of Gemma.
SeederKnows(p) ==
  /\ seeding[p] \in {"cloning", "copying"} =>
       source[p] = "system" /\ elsewhere /\ localState # "ledger"
  /\ seeding[p] = "reading" =>
       /\ weights # "partial" /\ (source[p] = "system" => weights = "whole")
       /\ ~ died /\ weights = "whole" => localState = "ledger" \/ source[p] = "system"
  /\ seeding[p] \in {"seeding", "writing"} =>
       /\ weights # "partial" /\ (read[p] => weights = "whole")
       /\ ~ died /\ weights = "whole" => read[p]
  /\ seeding[p] = "seeded" =>
       /\ weights # "partial"
       /\ ~ died /\ weights = "whole" => localState = "ledger"

GemmaIsKnown ==
  wantedModel = "gemma4" => LedgerIsLast /\ \A p \in Seeders : SeederKnows(p)

ProfileInv ==
  /\ ProfileTypes
  /\ ~ overlapped => Alone /\ NanoIsCopied /\ GemmaIsKnown

LEMMA ProfileInvInit == ProfileInit => ProfileInv
  BY DEF ProfileInit, ProfileInv, ProfileTypes, Alone, NanoIsCopied, GemmaIsKnown,
     LedgerIsLast, SeederKnows, Moving

LEMMA ProfileInvNext == ProfileInv /\ [ProfileNext]_profileVars => ProfileInv'
  <1> SUFFICES ASSUME ProfileInv, [ProfileNext]_profileVars PROVE ProfileInv' OBVIOUS
  <1> USE DEF ProfileInv, ProfileTypes, Alone, NanoIsCopied, GemmaIsKnown,
        LedgerIsLast, SeederKnows, Moving, wanted, ghosts, Goes
  <1>1. CASE UNCHANGED profileVars BY <1>1 DEF profileVars
  <1>2. ASSUME NEW p \in Seeders, NEW kind \in {"profile", "system", "download"}, Finds(p, kind)
        PROVE ProfileInv'
    BY <1>2 DEF Finds, Present, UnderWay
  <1>3. ASSUME NEW p \in Seeders, CloneBegins(p) PROVE ProfileInv' BY <1>3 DEF CloneBegins
  <1>4. ASSUME NEW p \in Seeders, CloneEnds(p) PROVE ProfileInv' BY <1>4 DEF CloneEnds
  <1>5. ASSUME NEW p \in Seeders, Reads(p) PROVE ProfileInv' BY <1>5 DEF Reads
  <1>6. ASSUME NEW p \in Seeders, SeedBegins(p) PROVE ProfileInv' BY <1>6 DEF SeedBegins
  <1>7. ASSUME NEW p \in Seeders, SeedEnds(p) PROVE ProfileInv' BY <1>7 DEF SeedEnds
  <1>8. ASSUME NEW p \in Seeders, Launches(p) PROVE ProfileInv' BY <1>8 DEF Launches
  <1>9. ASSUME NEW p \in Seeders, Refused(p) PROVE ProfileInv' BY <1>9 DEF Refused
  <1>10. ASSUME NEW p \in Seeders, Downloads(p) PROVE ProfileInv'
    <2>1. chrome # Nobody BY <1>10, ProfileAssumption DEF Downloads
    <2> QED BY <1>10, <2>1 DEF Downloads
  <1>11. ASSUME NEW p \in Seeders, Quits(p) PROVE ProfileInv' BY <1>11 DEF Quits
  <1>12. ASSUME NEW p \in Seeders, SeederDies(p) PROVE ProfileInv' BY <1>12 DEF SeederDies, UnderWay
  <1> QED BY <1>1, <1>2, <1>3, <1>4, <1>5, <1>6, <1>7, <1>8, <1>9, <1>10, <1>11, <1>12
        DEF ProfileNext

LEMMA ProfileInvHolds == ProfileSpec => []ProfileInv
  BY ProfileInvInit, ProfileInvNext, PTL DEF ProfileSpec

\* Chrome never runs over half a Gemma that one process at a time provided,
\* though any of them may die at any point; over half a Nano only after one did.
THEOREM HalfModelsNeedFaults == ProfileSpec => []HalfModelNeedsFault
  <1>1. ProfileInv => HalfModelNeedsFault
    BY DEF ProfileInv, ProfileTypes, Alone, NanoIsCopied, GemmaIsKnown, LedgerIsLast,
       Moving, HalfModelNeedsFault
  <1> QED BY <1>1, ProfileInvHolds, PTL

\* A whole Gemma stays found as long as one process at a time starts and none
\* dies.
THEOREM SeededGemmasStay == ProfileSpec => []SeededGemmaStays
  <1>1. ProfileInv => SeededGemmaStays
    BY DEF ProfileInv, GemmaIsKnown, LedgerIsLast, Moving, UnderWay, SeededGemmaStays
  <1> QED BY <1>1, ProfileInvHolds, PTL

----------------------------------------------------------------------------
(* The shim's binary.                                                      *)

Building == {"looking", "finding", "writing", "compiling", "linking", "renaming"}

BuildTypes ==
  /\ build \in [Builders -> {"none", "sharing"} \cup Building \cup Finished]
  /\ shared \in [Builders -> Builders \cup {NoBuild}]
  /\ inFlight \in [Hosts -> Builders \cup {NoBuild}]
  /\ staging \in [Hosts -> {"none", "half", "whole", "wrong"}]
  /\ object \in [Builders -> {"none", "whole", "wrong"}]
  /\ crossed \in BOOLEAN

\* The build of a process is the one that is in flight, so there is one.
OneBuildPerHost ==
  \A b \in Builders : build[b] \in Building => inFlight[ProcessOf[b]] = b /\ shared[b] = b

\* The source is whole when a compiler is to read it.
CompilersReadTheWhole ==
  \A b \in Builders : build[b] = "compiling" => swiftSource = "whole" \/ crossed

\* What was compiled is the whole, and
ObjectsAreWhole ==
  \A b \in Builders : build[b] \in {"linking", "renaming"} => object[b] = "whole" \/ crossed

\* what is about to be published is what was compiled.
StagedIsOwn ==
  \A b \in Builders : build[b] = "renaming" => staging[ProcessOf[b]] = object[b]

BuildInv ==
  /\ BuildTypes /\ OneBuildPerHost /\ CompilersReadTheWhole
  /\ ObjectsAreWhole /\ StagedIsOwn /\ BinaryIsWhole

LEMMA HostOf == \A b \in Builders : ProcessOf[b] \in Hosts
  BY DEF Hosts

LEMMA BuildInvInit == BuildInit => BuildInv
  BY DEF BuildInit, BuildInv, BuildTypes, OneBuildPerHost, CompilersReadTheWhole,
     ObjectsAreWhole, StagedIsOwn, BinaryIsWhole, Building, Finished

\* A build that settles leaves its host without one.
LEMMA SettlesKeepsHosts ==
  ASSUME BuildInv, NEW b \in Builders, build[b] \in Building, NEW result \in Finished,
         Settles(b, result)
  PROVE  /\ build' \in [Builders -> {"none", "sharing"} \cup Building \cup Finished]
         /\ shared' \in [Builders -> Builders \cup {NoBuild}]
         /\ inFlight' \in [Hosts -> Builders \cup {NoBuild}]
         /\ OneBuildPerHost'
         /\ build'[b] = result
         /\ \A c \in Builders :
              build'[c] \in Building => build'[c] = build[c] /\ ProcessOf[c] # ProcessOf[b]
  <1>1. shared[b] = b /\ inFlight[ProcessOf[b]] = b BY DEF BuildInv, OneBuildPerHost
  <1>2. result \notin Building BY DEF Building, Finished
  <1>3. /\ build' \in [Builders -> {"none", "sharing"} \cup Building \cup Finished]
        /\ shared' \in [Builders -> Builders \cup {NoBuild}]
        /\ inFlight' \in [Hosts -> Builders \cup {NoBuild}]
    BY HostOf DEF BuildInv, BuildTypes, Settles
  <1>4. ASSUME NEW c \in Builders, build'[c] \in Building
        PROVE  build'[c] = build[c] /\ c # b /\ ProcessOf[c] # ProcessOf[b]
               /\ inFlight'[ProcessOf[c]] = c /\ shared'[c] = c
    <2>1. build'[c] = IF shared[c] = b THEN result ELSE build[c] BY DEF Settles
    <2>2. build'[c] = build[c] /\ shared[c] # b BY <1>2, <1>4, <2>1
    <2>3. inFlight[ProcessOf[c]] = c /\ shared[c] = c
      BY <1>4, <2>2 DEF BuildInv, OneBuildPerHost
    <2>4. c # b /\ ProcessOf[c] # ProcessOf[b] BY <1>1, <2>2, <2>3
    <2> QED BY <2>2, <2>3, <2>4, HostOf DEF Settles, BuildInv, BuildTypes
  <1>5. build'[b] = result BY <1>1 DEF Settles
  <1> QED BY <1>3, <1>4, <1>5 DEF OneBuildPerHost

LEMMA BuildInvNext == BuildInv /\ [BuildNext]_buildVars => BuildInv'
  <1> SUFFICES ASSUME BuildInv, [BuildNext]_buildVars PROVE BuildInv' OBVIOUS
  <1> USE HostOf DEF BuildInv, BuildTypes
  <1>1. ASSUME NEW b \in Builders, Ensures(b) PROVE BuildInv'
    <2>1. /\ build[b] = "none" /\ \A c \in Builders : c # b => build'[c] = build[c] /\ shared'[c] = shared[c]
          /\ build'[b] \in {"sharing", "looking"}
      BY <1>1 DEF Ensures
    <2>2. BuildTypes' BY <1>1 DEF Ensures, sourceVars, compiler, Building
    <2>3. OneBuildPerHost'
      BY <1>1, <2>1, ShimBuildAssumption DEF Ensures, OneBuildPerHost, Building
    <2>4. UNCHANGED <<swiftSource, crossed, staging, object, binary>>
      BY <1>1 DEF Ensures, sourceVars, compiler
    <2> QED BY <2>1, <2>2, <2>3, <2>4
        DEF CompilersReadTheWhole, ObjectsAreWhole, StagedIsOwn, BinaryIsWhole
  <1>2. ASSUME NEW b \in Builders, BuildStep(b) PROVE BuildInv'
    <2>1. CASE \E from, to \in Building : GoesOn(b, from, to)
      <3>1. PICK from \in Building, to \in Building : GoesOn(b, from, to) BY <2>1
      <3>2. /\ build' \in [Builders -> {"none", "sharing"} \cup Building \cup Finished]
            /\ UNCHANGED <<shared, inFlight>>
            /\ build[b] = from /\ build'[b] = to
            /\ \A c \in Builders : c # b => build'[c] = build[c]
        BY <3>1 DEF GoesOn
      <3>3. OneBuildPerHost' BY <3>2 DEF OneBuildPerHost
      <3>4. \A c \in Builders : c # b /\ build[c] \in Building => ProcessOf[c] # ProcessOf[b]
        BY <3>2 DEF OneBuildPerHost
      <3>5. CASE LooksForBinary(b)
        BY <3>2, <3>3, <3>5 DEF LooksForBinary, sourceVars, compiler, GoesOn, Settles,
           CompilersReadTheWhole, ObjectsAreWhole, StagedIsOwn, BinaryIsWhole, Building, Finished
      <3>6. CASE OpensSource(b)
        BY <3>2, <3>3, <3>6 DEF OpensSource, compiler, GoesOn,
           CompilersReadTheWhole, ObjectsAreWhole, StagedIsOwn, BinaryIsWhole
      <3>7. CASE WritesSource(b)
        BY <3>2, <3>3, <3>7 DEF WritesSource, compiler, GoesOn,
           CompilersReadTheWhole, ObjectsAreWhole, StagedIsOwn, BinaryIsWhole
      <3>8. CASE ReadsSource(b)
        <4>1. BuildTypes' BY <3>2, <3>8 DEF ReadsSource, sourceVars
        <4>2. CompilersReadTheWhole' /\ BinaryIsWhole' /\ ObjectsAreWhole'
          BY <3>2, <3>8 DEF ReadsSource, GoesOn, sourceVars, CompilersReadTheWhole,
             ObjectsAreWhole, BinaryIsWhole
        <4>3. StagedIsOwn'
          BY <3>2, <3>4, <3>8 DEF ReadsSource, GoesOn, sourceVars, StagedIsOwn, Building
        <4> QED BY <3>3, <4>1, <4>2, <4>3
      <3>9. CASE Links(b)
        <4>1. BuildTypes' BY <3>2, <3>9 DEF Links, sourceVars
        <4>2. CompilersReadTheWhole' /\ BinaryIsWhole' /\ ObjectsAreWhole'
          BY <3>2, <3>9 DEF Links, GoesOn, sourceVars, CompilersReadTheWhole,
             ObjectsAreWhole, BinaryIsWhole
        <4>3. StagedIsOwn'
          BY <3>2, <3>4, <3>9 DEF Links, GoesOn, sourceVars, StagedIsOwn, Building
        <4> QED BY <3>3, <4>1, <4>2, <4>3
      <3>10. CASE Publishes(b) \/ BuildFails(b)
        BY <3>2, <3>10 DEF Publishes, BuildFails, Settles, OneBuildPerHost, Building, Finished
      <3> QED BY <1>2, <3>5, <3>6, <3>7, <3>8, <3>9, <3>10 DEF BuildStep
    <2>2. CASE /\ build[b] \in Building
               /\ \E result \in Finished : Settles(b, result)
               /\ LooksForBinary(b) \/ Publishes(b) \/ BuildFails(b)
      <3>1. PICK result \in Finished : Settles(b, result) BY <2>2
      <3>2. /\ BuildTypes!1' /\ BuildTypes!2' /\ BuildTypes!3'
            /\ OneBuildPerHost' /\ build'[b] = result
            /\ \A c \in Builders :
                 build'[c] \in Building => build'[c] = build[c] /\ ProcessOf[c] # ProcessOf[b]
        BY <2>2, <3>1, SettlesKeepsHosts
      <3>3. UNCHANGED <<swiftSource, crossed, object>>
        BY <2>2 DEF LooksForBinary, Publishes, BuildFails, sourceVars, compiler
      <3>4. CompilersReadTheWhole' /\ ObjectsAreWhole'
        BY <3>2, <3>3 DEF CompilersReadTheWhole, ObjectsAreWhole, Building
      <3>5. CASE Publishes(b)
        <4>1. BuildTypes' BY <3>2, <3>3, <3>5 DEF Publishes
        <4>2. StagedIsOwn' BY <3>2, <3>3, <3>5 DEF Publishes, StagedIsOwn, Building
        <4>3. BinaryIsWhole'
          BY <3>3, <3>5 DEF Publishes, StagedIsOwn, ObjectsAreWhole, BinaryIsWhole
        <4> QED BY <3>2, <3>4, <4>1, <4>2, <4>3
      <3>6. CASE LooksForBinary(b) \/ BuildFails(b)
        <4>1. UNCHANGED <<staging, binary>>
          BY <3>6 DEF LooksForBinary, BuildFails, compiler
        <4> QED BY <3>2, <3>3, <3>4, <4>1 DEF StagedIsOwn, BinaryIsWhole, Building
      <3> QED BY <2>2, <3>5, <3>6
    <2> QED BY <1>2, <2>1, <2>2 DEF BuildStep, LooksForBinary, OpensSource, WritesSource, ReadsSource,
          Links, Publishes, BuildFails, Building, Finished, GoesOn
  <1>3. ASSUME NEW h \in Hosts, HostDies(h) PROVE BuildInv'
    <2>1. /\ UNCHANGED <<shared, swiftSource, crossed, staging, object, binary>>
          /\ \A b \in Builders : build'[b] \in Building => build'[b] = build[b] /\ ProcessOf[b] # h
      BY <1>3 DEF HostDies, sourceVars, compiler, Building, Finished
    <2>2. BuildTypes' BY <1>3, <2>1 DEF HostDies, Finished
    <2>3. OneBuildPerHost' BY <1>3, <2>1 DEF HostDies, OneBuildPerHost
    <2> QED BY <2>1, <2>2, <2>3
        DEF CompilersReadTheWhole, ObjectsAreWhole, StagedIsOwn, BinaryIsWhole, Building
  <1>4. CASE UNCHANGED buildVars
    BY <1>4 DEF buildVars, OneBuildPerHost, CompilersReadTheWhole, ObjectsAreWhole,
       StagedIsOwn, BinaryIsWhole
  <1> QED BY <1>1, <1>2, <1>3, <1>4 DEF BuildNext

LEMMA BuildInvHolds == BuildSpec => []BuildInv
  BY BuildInvInit, BuildInvNext, PTL DEF BuildSpec

\* The binary that later processes run was made of the whole source, for any
\* number of calls and processes, whichever of them fail or die, unless a
\* source was written anew under a compiler.
THEOREM BinariesAreWhole == BuildSpec => []BinaryIsWhole
  <1>1. BuildInv => BinaryIsWhole BY DEF BuildInv
  <1> QED BY <1>1, BuildInvHolds, PTL

----------------------------------------------------------------------------
(* The copies of Gemma's cache.                                            *)

ProbeInv ==
  browser => context /\ probe \in {"working", "unwinding"}

ExportTypes ==
  /\ original \in [Files -> Nat]
  /\ hashed \in [Files -> Nat]
  /\ moment \in [Files -> Nat]
  /\ exporter \in {"none", "hashing", "copying", "ended"}

HashesAreOlder ==
  /\ exporter = "none" => hashed = Empty
  /\ exporter = "hashing" => \A f \in Files : hashed[f] <= original[f]
  /\ exporter = "copying" =>
       \A f \in Files : hashed[f] <= moment[f] /\ moment[f] <= original[f]

\* What has no name in the inventory has no hash, and when its directory was
\* listed it was not there.
UnnamedIsLate ==
  /\ exporter = "none" => listed = {} /\ names = {}
  /\ \A f \in Files : hashed[f] # 0 => f \in names
  /\ exporter = "hashing" =>
       \A f \in Files : f \notin names /\ DirectoryOf[f] \in listed =>
         original[f] = 0 \/ f \in late
  /\ exporter = "copying" =>
       \A f \in Files : IF f \in names THEN hashed[f] # 0 ELSE moment[f] = 0 \/ f \in late

CopiesAreNewer ==
  /\ exporter \in {"none", "hashing"} => copy = Empty
  /\ exporter = "copying" =>
       /\ copy \in [Files -> Nat]
       /\ \A f \in Files : copy[f] = 0 \/ moment[f] <= copy[f]

OfTheMoment(contents) ==
  \A f \in Files : contents[f] = moment[f] \/ (contents[f] = 0 /\ f \in late)

ManifestIsMoment ==
  /\ exporter # "ended" => manifest = Empty
  /\ manifest # Empty => OfTheMoment(manifest)

ExportInv ==
  /\ ExportTypes /\ HashesAreOlder /\ UnnamedIsLate
  /\ CopiesAreNewer /\ ManifestIsMoment
  /\ VerifiedIsOneMoment
  /\ accepted # Empty => exporter = "ended"

CacheInv == ProbeInv /\ ExportInv

LEMMA CacheInvInit == CacheInit => CacheInv
  BY DEF CacheInit, CacheInv, ProbeInv, ExportInv, ExportTypes, HashesAreOlder,
     UnnamedIsLate, CopiesAreNewer, ManifestIsMoment, VerifiedIsOneMoment, Empty

\* The probe and its Chrome; an export only sees the files that it writes.
LEMMA ProbeInvNext == ProbeInv /\ [CacheNext]_cacheVars => ProbeInv'
  BY DEF ProbeInv, CacheNext, cacheVars, probeVars, exportVars, inventoryVars, ProbeStep, ProbeBegins,
     Attempts, NoCapacity, NativeReady, ProbeFails, Launched, Interrupts, Timer, LogLimit,
     ProbeSucceeds, Unwinds, Killed, BrowserCrashes, BrowserWrites, ExportBegins, Lists, Hashes,
     InventoryComplete, Copies, Seals, ExportFails, Damage, Verifies

\* What is sealed has been the profile when the inventory was complete.
LEMMA SealedIsMoment ==
  ASSUME ExportInv, Seals
  PROVE  OfTheMoment(hashed)
  <1> SUFFICES ASSUME NEW f \in Files
               PROVE  hashed[f] = moment[f] \/ (hashed[f] = 0 /\ f \in late)
    BY DEF OfTheMoment
  <1>1. hashed[f] \in Nat /\ moment[f] \in Nat BY DEF ExportInv, ExportTypes
  <1>2. CASE f \in names
    <2>1. hashed[f] # 0 /\ hashed[f] <= moment[f] /\ moment[f] <= hashed[f]
      BY <1>2 DEF ExportInv, HashesAreOlder, UnnamedIsLate, CopiesAreNewer, Seals
    <2> QED BY <1>1, <2>1
  <1>3. CASE f \notin names
    <2>1. hashed[f] = 0 /\ (moment[f] = 0 \/ f \in late)
      BY <1>3 DEF ExportInv, UnnamedIsLate, Seals
    <2> QED BY <2>1
  <1> QED BY <1>2, <1>3

LEMMA ExportInvNext == ExportInv /\ [CacheNext]_cacheVars => ExportInv'
  <1> SUFFICES ASSUME ExportInv, [CacheNext]_cacheVars PROVE ExportInv' OBVIOUS
  <1> USE DEF ExportInv, ExportTypes, HashesAreOlder, UnnamedIsLate, CopiesAreNewer,
        ManifestIsMoment, OfTheMoment, VerifiedIsOneMoment, Empty, inventoryVars
  <1>1. CASE UNCHANGED <<original, exportVars>> BY <1>1 DEF exportVars
  <1>2. ASSUME NEW f \in Files, BrowserWrites(f) PROVE ExportInv'
    BY <1>2 DEF BrowserWrites, exportVars
  <1>3. CASE ExportBegins BY <1>3 DEF ExportBegins
  <1>4. ASSUME NEW f \in Files, Hashes(f) PROVE ExportInv' BY <1>4 DEF Hashes
  <1>5. CASE InventoryComplete BY <1>5 DEF InventoryComplete, Directories
  <1>6. ASSUME NEW f \in Files, Copies(f) PROVE ExportInv' BY <1>6 DEF Copies
  <1>7. CASE Seals
    <2>1. OfTheMoment(hashed) BY <1>7, SealedIsMoment
    <2> QED BY <1>7, <2>1 DEF Seals
  <1>8. CASE ExportFails BY <1>8 DEF ExportFails
  <1>9. ASSUME NEW f \in Files, Damage(f) PROVE ExportInv' BY <1>9 DEF Damage
  <1>10. CASE Verifies BY <1>10 DEF Verifies
  <1>11. ASSUME NEW d \in Directories, Lists(d) PROVE ExportInv' BY <1>11 DEF Lists
  <1>12. ProbeStep \/ Timer \/ LogLimit \/ Killed \/ BrowserCrashes \/ UNCHANGED cacheVars
           => UNCHANGED <<original, exportVars>>
    BY DEF cacheVars, ProbeStep, ProbeBegins, Attempts, NoCapacity, NativeReady, ProbeFails,
       Launched, Interrupts, Timer, LogLimit, ProbeSucceeds, Unwinds, Killed, BrowserCrashes
  <1> QED BY <1>1, <1>2, <1>3, <1>4, <1>5, <1>6, <1>7, <1>8, <1>9, <1>10, <1>11, <1>12
        DEF CacheNext

LEMMA CacheInvHolds == CacheSpec => []CacheInv
  <1>1. CacheInv /\ [CacheNext]_cacheVars => CacheInv'
    BY ProbeInvNext, ExportInvNext DEF CacheInv
  <1> QED BY <1>1, CacheInvInit, PTL DEF CacheSpec

\* Every file of a copy that passes its manifest is of one moment, and it lacks
\* none but those that Chrome made after their directory was listed, though
\* the files were hashed and copied one by one beside a Chrome that writes.
THEOREM VerifiedCopiesAreOneMoment == CacheSpec => []VerifiedIsOneMoment
  <1>1. CacheInv => VerifiedIsOneMoment BY DEF CacheInv, ExportInv
  <1> QED BY <1>1, CacheInvHolds, PTL

\* Chrome runs only while its probe works in it or is about to close it.
THEOREM ProbesLeaveNoBrowser == CacheSpec => []ProbeLeavesNoBrowser
  <1>1. CacheInv => ProbeLeavesNoBrowser BY DEF CacheInv, ProbeInv, ProbeLeavesNoBrowser
  <1> QED BY <1>1, CacheInvHolds, PTL

----------------------------------------------------------------------------
(* The turns of the type check.                                            *)

InTurn == {"turn", "compiling", "writing", "releasing"}
Begun(p) == push[p] \notin Over \cup {"none"}

TurnTypes ==
  /\ tree \in Trees
  /\ cache \in [Listings -> Trees \cup {"none", "torn"}]
  /\ fixer \in Pushers \cup {Free}
  /\ push \in [Pushers -> InTurn \cup Over \cup {"none", "locking", "waiting", "rereading", "judging"}]
  /\ key \in [Pushers -> Trees \cup {"none"}]
  /\ held \in [Pushers -> BOOLEAN]
  /\ verdict \in [Pushers -> Trees \cup {"none", "busy"}]
  /\ calm \in BOOLEAN
  /\ \A p \in Pushers :
       /\ push[p] # "none" => key[p] \in Trees
       /\ push[p] = "compiling" => verdict[p] # "none"
       /\ push[p] = "writing" => verdict[p] \in Trees

\* Whoever the lock is held for can give it back.
HolderReleases ==
  fixer # Free => \/ push[fixer] \in InTurn /\ held[fixer]
                  \/ push[fixer] = "killed"

\* In the ordinary course a turn is had by the lock only.
TurnNeedsLock ==
  calm => \A p \in Pushers : push[p] \in InTurn => fixer = p

\* What is cached under a key is about a tree of that key, or known to be mixed.
CacheIsOwn ==
  \A k \in Listings : cache[k] \in Trees => KeyOf(cache[k]) = k \/ k \in mixed

\* A push whose tree stood still has its key from the tree of now.
KeyIsCurrent ==
  \A p \in Pushers : Begun(p) /\ p \notin touched => key[p] = tree

WriterIsOwn ==
  \A p \in Pushers : push[p] = "writing" =>
    KeyOf(verdict[p]) = KeyOf(key[p]) \/ KeyOf(key[p]) \in mixed

VerdictIsOwn ==
  \A p \in Pushers :
    push[p] \in {"compiling", "writing", "releasing", "judging"} /\ p \notin touched =>
      \/ verdict[p] = "busy"
      \/ verdict[p] \in Trees /\ KeyOf(verdict[p]) = KeyOf(key[p])
      \/ KeyOf(key[p]) \in mixed

TurnsInv ==
  /\ TurnTypes /\ HolderReleases /\ TurnNeedsLock
  /\ CacheIsOwn /\ KeyIsCurrent /\ WriterIsOwn /\ VerdictIsOwn
  /\ PassFitsTree

LEMMA TurnsInvInit == TurnsInit => TurnsInv
  <1> SUFFICES ASSUME TurnsInit PROVE TurnsInv OBVIOUS
  <1>1. tree \in Trees BY TurnsAssumption DEF TurnsInit
  <1> QED BY <1>1, TurnsAssumption DEF TurnsInit, TurnsInv, TurnTypes, HolderReleases,
        TurnNeedsLock, CacheIsOwn, KeyIsCurrent, WriterIsOwn, VerdictIsOwn, PassFitsTree,
        Begun, InTurn, Over

LEMMA TurnsInvNext == TurnsInv /\ [TurnsNext]_turnVars => TurnsInv'
  <1> SUFFICES ASSUME TurnsInv, [TurnsNext]_turnVars PROVE TurnsInv' OBVIOUS
  <1> USE TurnsAssumption DEF TurnsInv, TurnTypes, HolderReleases, TurnNeedsLock, CacheIsOwn,
        KeyIsCurrent, WriterIsOwn, VerdictIsOwn, PassFitsTree, Begun, InTurn, Over, world,
        Steps, KeyOf, Readable
  <1>1. CASE UNCHANGED turnVars BY <1>1 DEF turnVars
  <1>2. ASSUME NEW p \in Pushers, LooksUp(p) PROVE TurnsInv'
    <2>1. TurnTypes' BY <1>2 DEF LooksUp, Listings
    <2>2. HolderReleases' BY <1>2 DEF LooksUp
    <2>3. TurnNeedsLock' BY <1>2 DEF LooksUp
    <2>4. CacheIsOwn' BY <1>2 DEF LooksUp
    <2>5. KeyIsCurrent' BY <1>2 DEF LooksUp
    <2>6. WriterIsOwn' BY <1>2 DEF LooksUp
    <2>7. VerdictIsOwn'
      <3> SUFFICES ASSUME NEW q \in Pushers, q \notin touched,
                          push'[q] \in {"compiling", "writing", "releasing", "judging"}
                   PROVE  \/ verdict'[q] = "busy"
                          \/ verdict'[q] \in Trees /\ KeyOf(verdict'[q]) = KeyOf(key'[q])
                          \/ KeyOf(key'[q]) \in mixed
        BY <1>2 DEF LooksUp
      <3>1. CASE q # p BY <1>2, <3>1 DEF LooksUp
      <3>2. CASE q = p
        <4>1. tree \in Trees /\ key'[p] = tree /\ KeyOf(tree) \in Listings
          BY <1>2 DEF LooksUp, Listings
        <4>2. cache[KeyOf(tree)] \in Trees /\ verdict'[p] = cache[KeyOf(tree)]
          BY <1>2, <3>2 DEF LooksUp
        <4> QED BY <3>2, <4>1, <4>2
      <3> QED BY <3>1, <3>2
    <2>8. PassFitsTree' BY <1>2 DEF LooksUp
    <2> QED BY <2>1, <2>2, <2>3, <2>4, <2>5, <2>6, <2>7, <2>8
  <1>3. ASSUME NEW p \in Pushers, Locks(p) PROVE TurnsInv'
    <2>1. TurnTypes' BY <1>3 DEF Locks
    <2>2. HolderReleases' BY <1>3 DEF Locks
    <2>3. TurnNeedsLock' BY <1>3 DEF Locks
    <2>4. CacheIsOwn' BY <1>3 DEF Locks
    <2>5. KeyIsCurrent' BY <1>3 DEF Locks
    <2>6. WriterIsOwn' BY <1>3 DEF Locks
    <2>7. VerdictIsOwn' BY <1>3 DEF Locks
    <2>8. PassFitsTree' BY <1>3 DEF Locks
    <2> QED BY <2>1, <2>2, <2>3, <2>4, <2>5, <2>6, <2>7, <2>8
  <1>4. ASSUME NEW p \in Pushers, Acquires(p) PROVE TurnsInv'
    <2>1. TurnTypes' BY <1>4 DEF Acquires
    <2>2. HolderReleases' BY <1>4 DEF Acquires
    <2>3. TurnNeedsLock' BY <1>4 DEF Acquires
    <2>4. CacheIsOwn' BY <1>4 DEF Acquires
    <2>5. KeyIsCurrent' BY <1>4 DEF Acquires
    <2>6. WriterIsOwn' BY <1>4 DEF Acquires
    <2>7. VerdictIsOwn' BY <1>4 DEF Acquires
    <2>8. PassFitsTree' BY <1>4 DEF Acquires
    <2> QED BY <2>1, <2>2, <2>3, <2>4, <2>5, <2>6, <2>7, <2>8
  <1>5. ASSUME NEW p \in Pushers, PeerFinished(p) PROVE TurnsInv' BY <1>5 DEF PeerFinished
  <1>6. ASSUME NEW p \in Pushers, Rereads(p) PROVE TurnsInv'
    <2>1. TurnTypes' BY <1>6 DEF Rereads, Listings
    <2>2. HolderReleases' BY <1>6 DEF Rereads
    <2>3. TurnNeedsLock' BY <1>6 DEF Rereads
    <2>4. CacheIsOwn' BY <1>6 DEF Rereads
    <2>5. KeyIsCurrent' BY <1>6 DEF Rereads
    <2>6. WriterIsOwn' BY <1>6 DEF Rereads
    <2>7. VerdictIsOwn'
      <3> SUFFICES ASSUME NEW q \in Pushers, q \notin touched,
                          push'[q] \in {"compiling", "writing", "releasing", "judging"}
                   PROVE  \/ verdict'[q] = "busy"
                          \/ verdict'[q] \in Trees /\ KeyOf(verdict'[q]) = KeyOf(key'[q])
                          \/ KeyOf(key'[q]) \in mixed
        BY <1>6 DEF Rereads
      <3>1. CASE q # p BY <1>6, <3>1 DEF Rereads
      <3>2. CASE q = p
        <4>1. key[p] \in Trees /\ key'[p] = key[p] /\ KeyOf(key[p]) \in Listings
          BY <1>6 DEF Rereads, Listings
        <4>2. cache[KeyOf(key[p])] \in Trees /\ verdict'[p] = cache[KeyOf(key[p])]
          BY <1>6, <3>2 DEF Rereads
        <4> QED BY <3>2, <4>1, <4>2
      <3> QED BY <3>1, <3>2
    <2>8. PassFitsTree' BY <1>6 DEF Rereads
    <2> QED BY <2>1, <2>2, <2>3, <2>4, <2>5, <2>6, <2>7, <2>8
  <1>7. ASSUME NEW p \in Pushers, Deadline(p) PROVE TurnsInv'
    <2>1. TurnTypes' BY <1>7 DEF Deadline
    <2>2. HolderReleases' BY <1>7 DEF Deadline
    <2>3. TurnNeedsLock' BY <1>7 DEF Deadline
    <2>4. CacheIsOwn' BY <1>7 DEF Deadline
    <2>5. KeyIsCurrent' BY <1>7 DEF Deadline
    <2>6. WriterIsOwn' BY <1>7 DEF Deadline
    <2>7. VerdictIsOwn' BY <1>7 DEF Deadline
    <2>8. PassFitsTree' BY <1>7 DEF Deadline
    <2> QED BY <2>1, <2>2, <2>3, <2>4, <2>5, <2>6, <2>7, <2>8
  <1>8. ASSUME NEW p \in Pushers, Compiles(p) PROVE TurnsInv'
    <2>1. TurnTypes'
      <3>1. PICK result \in {tree, "busy"} : verdict' = [verdict EXCEPT ![p] = result]
        BY <1>8 DEF Compiles
      <3>2. result \in Trees \cup {"busy"} BY <3>1
      <3>3. verdict' \in [Pushers -> Trees \cup {"none", "busy"}] BY <3>1, <3>2
      <3>4. calm' \in BOOLEAN BY <1>8 DEF Compiles
      <3>5. push' \in [Pushers -> InTurn \cup Over \cup {"none", "locking", "waiting", "rereading", "judging"}]
        BY <1>8 DEF Compiles
      <3>6. \A q \in Pushers : push'[q] = "compiling" => verdict'[q] # "none"
        BY <1>8, <3>1, <3>2 DEF Compiles
      <3>7. \A q \in Pushers : push'[q] = "writing" => verdict'[q] \in Trees
        BY <1>8, <3>1 DEF Compiles
      <3> QED BY <1>8, <3>3, <3>4, <3>5, <3>6, <3>7 DEF Compiles
    <2>2. HolderReleases' BY <1>8 DEF Compiles
    <2>3. TurnNeedsLock' BY <1>8 DEF Compiles
    <2>4. CacheIsOwn' BY <1>8 DEF Compiles
    <2>5. KeyIsCurrent' BY <1>8 DEF Compiles
    <2>6. WriterIsOwn' BY <1>8 DEF Compiles
    <2>7. VerdictIsOwn' BY <1>8 DEF Compiles
    <2>8. PassFitsTree' BY <1>8 DEF Compiles
    <2> QED BY <2>1, <2>2, <2>3, <2>4, <2>5, <2>6, <2>7, <2>8
  <1>9. ASSUME NEW p \in Pushers, WriteBegins(p) PROVE TurnsInv' BY <1>9 DEF WriteBegins
  <1>10. ASSUME NEW p \in Pushers, WriteEnds(p) PROVE TurnsInv'
    <2>1. TurnTypes' BY <1>10 DEF WriteEnds
    <2>2. HolderReleases' BY <1>10 DEF WriteEnds
    <2>3. TurnNeedsLock' BY <1>10 DEF WriteEnds
    <2>4. CacheIsOwn' BY <1>10 DEF WriteEnds
    <2>5. KeyIsCurrent' BY <1>10 DEF WriteEnds
    <2>6. WriterIsOwn' BY <1>10 DEF WriteEnds
    <2>7. VerdictIsOwn' BY <1>10 DEF WriteEnds
    <2>8. PassFitsTree' BY <1>10 DEF WriteEnds
    <2> QED BY <2>1, <2>2, <2>3, <2>4, <2>5, <2>6, <2>7, <2>8
  <1>11. ASSUME NEW p \in Pushers, VerdictUnwritten(p) PROVE TurnsInv'
    <2>1. TurnTypes' BY <1>11 DEF VerdictUnwritten
    <2>2. HolderReleases' BY <1>11 DEF VerdictUnwritten
    <2>3. TurnNeedsLock' BY <1>11 DEF VerdictUnwritten
    <2>4. CacheIsOwn' BY <1>11 DEF VerdictUnwritten
    <2>5. KeyIsCurrent' BY <1>11 DEF VerdictUnwritten
    <2>6. WriterIsOwn' BY <1>11 DEF VerdictUnwritten
    <2>7. VerdictIsOwn' BY <1>11 DEF VerdictUnwritten
    <2>8. PassFitsTree' BY <1>11 DEF VerdictUnwritten
    <2> QED BY <2>1, <2>2, <2>3, <2>4, <2>5, <2>6, <2>7, <2>8
  <1>12. ASSUME NEW p \in Pushers, Releases(p) PROVE TurnsInv' BY <1>12 DEF Releases
  <1>13. ASSUME NEW p \in Pushers, Judges(p) PROVE TurnsInv'
    <2>1. TurnTypes' BY <1>13 DEF Judges
    <2>2. HolderReleases' BY <1>13 DEF Judges
    <2>3. TurnNeedsLock' BY <1>13 DEF Judges
    <2>4. CacheIsOwn' BY <1>13 DEF Judges
    <2>5. KeyIsCurrent' BY <1>13 DEF Judges
    <2>6. WriterIsOwn' BY <1>13 DEF Judges
    <2>7. VerdictIsOwn' BY <1>13 DEF Judges
    <2>8. PassFitsTree' BY <1>13 DEF Judges
    <2> QED BY <2>1, <2>2, <2>3, <2>4, <2>5, <2>6, <2>7, <2>8
  <1>14. ASSUME NEW p \in Pushers, PushKilled(p) PROVE TurnsInv'
    <2>1. TurnTypes' BY <1>14 DEF PushKilled
    <2>2. HolderReleases' BY <1>14 DEF PushKilled
    <2>3. TurnNeedsLock' BY <1>14 DEF PushKilled
    <2>4. CacheIsOwn' BY <1>14 DEF PushKilled
    <2>5. KeyIsCurrent' BY <1>14 DEF PushKilled
    <2>6. WriterIsOwn' BY <1>14 DEF PushKilled
    <2>7. VerdictIsOwn' BY <1>14 DEF PushKilled
    <2>8. PassFitsTree' BY <1>14 DEF PushKilled
    <2> QED BY <2>1, <2>2, <2>3, <2>4, <2>5, <2>6, <2>7, <2>8
  <1>15. ASSUME NEW t \in Trees, Edits(t) PROVE TurnsInv' BY <1>15 DEF Edits
  <1> QED BY <1>1, <1>2, <1>3, <1>4, <1>5, <1>6, <1>7, <1>8, <1>9, <1>10, <1>11, <1>12,
        <1>13, <1>14, <1>15 DEF TurnsNext, TurnStep

LEMMA TurnsInvHolds == TurnsSpec => []TurnsInv
  BY TurnsInvInit, TurnsInvNext, PTL DEF TurnsSpec

\* The lock comes back from every push that is not killed in its turn, and the
\* compiler runs for one push at a time as long as nothing extraordinary
\* happens: whatever the number of pushes, trees and edits.
THEOREM TurnsKept == TurnsSpec => []TurnsAreKept
  <1>1. TurnsInv => TurnsAreKept
    <2> SUFFICES ASSUME TurnsInv PROVE TurnsAreKept OBVIOUS
    <2>1. LockComesBack
      BY DEF TurnsInv, TurnTypes, HolderReleases, LockComesBack, InTurn
    <2>2. ASSUME calm PROVE Cardinality({p \in Pushers : push[p] = "compiling"}) <= 1
      <3> DEFINE C == {p \in Pushers : push[p] = "compiling"}
      <3>1. C \subseteq {fixer} BY <2>2 DEF TurnsInv, TurnNeedsLock, InTurn
      <3>2. IsFiniteSet({fixer}) /\ Cardinality({fixer}) = 1 BY FS_Singleton
      <3>3. Cardinality(C) <= Cardinality({fixer}) BY <3>1, <3>2, FS_Subset
      <3> QED BY <3>2, <3>3
    <2> QED BY <2>1, <2>2 DEF TurnsAreKept, TypechecksTakeTurns
  <1> QED BY <1>1, TurnsInvHolds, PTL

\* A push whose tree stood still passes only if that tree, or one that git
\* status lists as it does, has no error that counts against it, or the verdict
\* of its key came from a tree with another listing.
THEOREM PassesFitTrees == TurnsSpec => []PassFitsTree
  <1>1. TurnsInv => PassFitsTree BY DEF TurnsInv
  <1> QED BY <1>1, TurnsInvHolds, PTL

----------------------------------------------------------------------------
(* The release scan.                                                       *)

Early == {"none", "downloading", "packing", "hashing", "scanning"}
Later == {"requesting", "streaming", "polling", "judging", "discarding", "writing"}

ScanTypes ==
  /\ scanCi \in Early \cup Later \cup {"deleting", "cleaning", "ended"}
  /\ leftovers \subseteq {"tarball", "artifact", "download", "rest"}
  /\ stuck \subseteq {"tarball", "artifact"}

\* What the cleaning has done so far.
CleanedSoFar ==
  /\ scanCi \in {"none", "downloading", "packing"} => leftovers \subseteq {"download"}
  /\ scanCi = "cleaning" => leftovers \cap {"tarball"} \subseteq stuck
  /\ scanCi = "ended" => leftovers \ {"download", "rest"} \subseteq stuck

\* Before the upload there is no scan, and nothing is known of one.
NothingYet ==
  scanCi \in Early =>
    service = "none" /\ answering = "none" /\ ~ passing /\ ~ receipt

\* What is uploaded is what was staged.
UploadIsStaged == scanCi \in Later => sameBytes

\* Only a scan that is done has findings to tell,
AnswersFollowService ==
  /\ answering = "done" => service = "done"
  /\ received \subseteq findings
  /\ received # {} => answering = "done"

\* and what is judged is all of them, or nothing, or was cut short.
JudgedIsWhole ==
  scanCi = "judging" => received \in {findings, {}} \/ short

PassIsEarned ==
  /\ passing =>
       sameBytes /\ service = "done" /\ "clean" \in findings /\ (findings = {"clean"} \/ short)
  /\ scanCi = "writing" => passing
  /\ receipt => passing
  /\ scanCi \in {"requesting", "streaming", "polling", "judging"} => ~ passing /\ ~ receipt

ScanInv ==
  /\ ScanTypes /\ CleanedSoFar /\ NothingYet /\ UploadIsStaged
  /\ AnswersFollowService /\ JudgedIsWhole /\ PassIsEarned

LEMMA ScanInvInit == ScanInit => ScanInv
  BY DEF ScanInit, ScanInv, ScanTypes, CleanedSoFar, NothingYet, UploadIsStaged,
     AnswersFollowService, JudgedIsWhole, PassIsEarned, Early, Later

LEMMA ScanInvNext == ScanInv /\ [ScanNext]_scanVars => ScanInv'
  <1> SUFFICES ASSUME ScanInv, [ScanNext]_scanVars PROVE ScanInv' OBVIOUS
  <1> USE DEF ScanInv, ScanTypes, CleanedSoFar, NothingYet, UploadIsStaged,
        AnswersFollowService, JudgedIsWhole, PassIsEarned, Early, Later,
        response, reading, bytes, outcome, ScanMoves, Discards
  <1>1. CASE UNCHANGED scanVars BY <1>1 DEF scanVars
  <1>2. CASE StartsScan BY <1>2 DEF StartsScan
  <1>3. CASE DownloadsTarball BY <1>3 DEF DownloadsTarball
  <1>4. CASE PacksTarball BY <1>4 DEF PacksTarball
  <1>5. CASE HashesTarball BY <1>5 DEF HashesTarball
  <1>6. CASE Uploads BY <1>6 DEF Uploads
  <1>7. CASE ServiceFinishes BY <1>7 DEF ServiceFinishes
  <1>8. CASE ResponseBegins BY <1>8 DEF ResponseBegins
  <1>9. CASE LineArrives BY <1>9 DEF LineArrives
  <1>10. CASE ReadRefused BY <1>10 DEF ReadRefused
  <1>11. CASE ReadFailsAgain BY <1>11 DEF ReadFailsAgain
  <1>12. CASE ResponseEnds BY <1>12 DEF ResponseEnds
  <1>13. CASE PollsAgain BY <1>13 DEF PollsAgain
  <1>14. CASE JudgesScan BY <1>14 DEF JudgesScan
  <1>15. CASE DiscardsScanned BY <1>15 DEF DiscardsScanned
  <1>16. CASE WritesReceipt BY <1>16 DEF WritesReceipt
  <1>17. CASE DeletesTarball BY <1>17 DEF DeletesTarball
  <1>18. CASE CleansArtifact BY <1>18 DEF CleansArtifact
  <1> QED BY <1>1, <1>2, <1>3, <1>4, <1>5, <1>6, <1>7, <1>8, <1>9, <1>10, <1>11, <1>12,
        <1>13, <1>14, <1>15, <1>16, <1>17, <1>18 DEF ScanNext, ScanProceeds

LEMMA ScanInvHolds == ScanSpec => []ScanInv
  BY ScanInvInit, ScanInvNext, PTL DEF ScanSpec

\* A receipt says that the staged bytes were scanned to the end and have
\* nothing but clean findings, however many reads broke off, were repeated or
\* answered while the service went on working, unless the service ended its
\* last response early; and when the command ends, no tarball or prepared build
\* is left but one that could not be deleted, whichever step failed before.
THEOREM ScansLeaveOnlyTruth == ScanSpec => []ScanLeavesOnlyTruth
  <1>1. ScanInv => ReceiptMeansScanned
    BY DEF ScanInv, PassIsEarned, ReceiptMeansScanned
  <1>2. ScanInv => ScanLeavesNoFiles
    BY DEF ScanInv, CleanedSoFar, ScanLeavesNoFiles
  <1>3. ScanInv => ScanLeavesOnlyTruth
    BY <1>1, <1>2 DEF ScanLeavesOnlyTruth
  <1> QED BY <1>3, ScanInvHolds, PTL

=============================================================================
