---------------------------- MODULE ReleaseScan ----------------------------
(***************************************************************************)
(* The scan of a staged npm release in CI                                  *)
(* (scripts/fleet/npm/scan/staged.mts, registry/npm/scan): the staged      *)
(* tarball is downloaded or rebuilt, bound to the digest of the stage,     *)
(* uploaded as a full scan, whose results are read until they are there    *)
(* or a deadline passes, and a receipt is written for a passing verdict.   *)
(* The tarball is deleted whatever happens.  The directory that the        *)
(* download ran in stays, with what a failed download wrote into it.       *)
(*                                                                         *)
(* The service is external: it answers with a marker while it works, and   *)
(* then with a line for each kind of artifact it found and one of scores.  *)
(* Nothing in the code asks for the scores: whatever came before a clean   *)
(* end of the response counts as all that there is.                        *)
(***************************************************************************)
EXTENDS Naturals

CONSTANTS
  Retries,  \* retries of a read that failed transiently
  Polls     \* polls that fit before the deadline

VARIABLES
  scanCi,    \* how far runScanCi is
  sameBytes, \* whether the tarball in hand has the stage's digest
  leftovers, \* files of its own: "tarball", "artifact" (a prepared build),
             \* "download" (the directory) and "rest" (of a failed pack)
  stuck,     \* ghost: those of them whose deletion failed
  service,   \* the full scan: "none", "processing" or "done"
  findings,  \* the kinds of artifacts that the finished scan has
  answering, \* what the response under way answers with
  received,  \* the kinds of artifacts that it brought so far
  mark,      \* "none", "processing" or "scores": its last marker
  short,     \* ghost: the last response ended before all findings had come
  retried,   \* failed reads since the last response
  polled,    \* polls of a scan that was processing
  passing,   \* the verdict is a pass
  receipt    \* the receipt is written

scanVars == <<scanCi, sameBytes, leftovers, stuck, service, findings, answering,
              received, mark, short, retried, polled, passing, receipt>>
response == <<answering, received, mark>>
reading == <<response, short, retried, polled>>
bytes == <<sameBytes, leftovers, stuck>>
outcome == <<passing, receipt>>

Kinds == {"clean", "malware", "unresolved"}

ScanInit ==
  /\ scanCi = "none"
  /\ sameBytes \in BOOLEAN
  /\ leftovers = {} /\ stuck = {}
  /\ service = "none" /\ findings \in SUBSET Kinds
  /\ answering = "none" /\ received = {} /\ mark = "none"
  /\ short = FALSE
  /\ retried = 0 /\ polled = 0
  /\ passing = FALSE /\ receipt = FALSE

ScanMoves(from, to) == scanCi = from /\ scanCi' = to

----------------------------------------------------------------------------
(* The tarball.                                                            *)

\* The checkout and its package are those of the stage, or CI fails.
StartsScan ==
  /\ scanCi = "none" /\ scanCi' \in {"downloading", "ended"}
  /\ UNCHANGED <<bytes, service, findings, reading, outcome>>

\* npm stage download in a directory of its own: the file, nothing (also when
\* the command failed half way), or an exception.
DownloadsTarball ==
  /\ scanCi = "downloading"
  /\ \/ scanCi' = "scanning" /\ leftovers' = {"download", "tarball"}
     \/ scanCi' \in {"packing", "deleting"} /\ leftovers' = {"download"}
     \/ scanCi' = "deleting" /\ UNCHANGED leftovers
  /\ UNCHANGED <<sameBytes, stuck, service, findings, reading, outcome>>

\* A prepared artifact, or a build of the source, is packed.  What a failure
\* leaves has no name by which it would be deleted.
PacksTarball ==
  /\ scanCi = "packing"
  /\ \E prepared \in SUBSET {"artifact"}, rest \in SUBSET {"rest"} :
       \/ scanCi' = "hashing" /\ leftovers' = leftovers \cup prepared \cup {"tarball"}
       \/ scanCi' = "deleting" /\ leftovers' = leftovers \cup prepared \cup rest
  /\ UNCHANGED <<sameBytes, stuck, service, findings, reading, outcome>>

\* A tarball of our own has to be the staged one.
HashesTarball ==
  /\ ScanMoves("hashing", IF sameBytes THEN "scanning" ELSE "deleting")
  /\ UNCHANGED <<bytes, service, findings, reading, outcome>>

\* Authentication, the digest, the upload; each of them may refuse.
Uploads ==
  /\ scanCi = "scanning" /\ scanCi' \in {"requesting", "deleting"}
  /\ scanCi' = "requesting" => sameBytes
  /\ service' = IF scanCi' = "requesting" THEN "processing" ELSE service
  /\ UNCHANGED <<bytes, findings, reading, outcome>>

----------------------------------------------------------------------------
(* The results.                                                            *)

ServiceFinishes ==
  /\ service = "processing" /\ service' = "done"
  /\ UNCHANGED <<scanCi, bytes, findings, reading, outcome>>

ResponseBegins ==
  /\ ScanMoves("requesting", "streaming")
  /\ answering' = service /\ received' = {} /\ mark' = "none"
  /\ UNCHANGED <<bytes, service, findings, short, retried, polled, outcome>>

\* A line: a marker, an artifact before the scores, or the scores.
LineArrives ==
  /\ scanCi = "streaming"
  /\ \/ answering = "processing" /\ mark = "none"
        /\ mark' = "processing" /\ UNCHANGED received
     \/ answering = "done" /\ mark = "none"
        /\ \E kind \in findings \ received : received' = received \cup {kind}
        /\ UNCHANGED mark
     \/ answering = "done" /\ mark = "none" /\ received = findings
        /\ mark' = "scores" /\ UNCHANGED received
  /\ UNCHANGED <<scanCi, bytes, service, findings, answering, short, retried, polled, outcome>>

\* A line that cannot be read or is out of its place, a response that is too
\* long, a status that no retry helps, no stream at all: the scan is refused.
ReadRefused ==
  /\ scanCi \in {"requesting", "streaming"} /\ scanCi' = "discarding"
  /\ UNCHANGED <<bytes, service, findings, reading, outcome>>

\* Mutant: a response that breaks off with an error is taken for a whole one.
ReadCutShort ==
  /\ ScanMoves("streaming", "judging")
  /\ UNCHANGED <<bytes, service, findings, reading, outcome>>

\* The connection is lost, or the service is too busy: the read is repeated.
ReadFailsAgain ==
  /\ scanCi \in {"requesting", "streaming"}
  /\ \/ retried < Retries /\ scanCi' = "requesting" /\ retried' = retried + 1
     \/ retried = Retries /\ scanCi' = "discarding" /\ UNCHANGED retried
  /\ UNCHANGED <<bytes, service, findings, response, short, polled, outcome>>

\* The response ends without an error, wherever the service ends it.
ResponseEnds ==
  /\ ScanMoves("streaming", IF mark = "processing" THEN "polling" ELSE "judging")
  /\ short' = (answering = "done" /\ received # findings)
  /\ UNCHANGED <<bytes, service, findings, response, retried, polled, outcome>>

\* Mutant: a scan that goes on processing is polled for ever.
PollsForEver ==
  /\ ScanMoves("polling", "requesting")
  /\ polled' = IF polled < Polls THEN polled + 1 ELSE polled
  /\ retried' = 0
  /\ UNCHANGED <<bytes, service, findings, response, short, outcome>>

\* Another read in a second, unless the deadline is over by then.
PollsAgain ==
  /\ ScanMoves("polling", IF polled < Polls THEN "requesting" ELSE "discarding")
  /\ polled' = IF polled < Polls THEN polled + 1 ELSE polled
  /\ retried' = 0
  /\ UNCHANGED <<bytes, service, findings, response, short, outcome>>

\* No artifacts, an alert without a resolved action, malware: no pass.
JudgesScan ==
  /\ ScanMoves("judging", "discarding")
  /\ passing' = (received = {"clean"})
  /\ UNCHANGED <<bytes, service, findings, reading, receipt>>

----------------------------------------------------------------------------
(* The receipt and the files.                                              *)

\* safeDelete, which may fail.
Discards(file) ==
  \/ leftovers' = leftovers \ {file} /\ UNCHANGED stuck
  \/ stuck' = stuck \cup ({file} \cap leftovers) /\ UNCHANGED leftovers

\* The scan's own finally: a temporary tarball is deleted.  When that fails
\* the scan fails, and its verdict is lost.
DiscardsScanned ==
  /\ scanCi = "discarding"
  /\ \/ UNCHANGED <<leftovers, stuck>> /\ scanCi' = IF passing THEN "writing" ELSE "deleting"
     \/ Discards("tarball")
        /\ scanCi' = IF passing /\ stuck' = stuck THEN "writing" ELSE "deleting"
  /\ UNCHANGED <<sameBytes, service, findings, reading, outcome>>

\* The receipt is written, or its write fails.
WritesReceipt ==
  /\ ScanMoves("writing", "deleting")
  /\ receipt' \in BOOLEAN
  /\ UNCHANGED <<bytes, service, findings, reading, passing>>

\* Mutant: a tarball that cannot be deleted ends the cleaning.
DeletesAlone ==
  /\ scanCi = "deleting"
  /\ Discards("tarball")
  /\ scanCi' = IF "tarball" \in leftovers' THEN "ended" ELSE "cleaning"
  /\ UNCHANGED <<sameBytes, service, findings, reading, outcome>>

\* The finally block of runScanCi, and the one in it.
DeletesTarball ==
  /\ ScanMoves("deleting", "cleaning")
  /\ Discards("tarball")
  /\ UNCHANGED <<sameBytes, service, findings, reading, outcome>>

CleansArtifact ==
  /\ ScanMoves("cleaning", "ended")
  /\ Discards("artifact")
  /\ UNCHANGED <<sameBytes, service, findings, reading, outcome>>

ScanProceeds ==
  \/ DownloadsTarball \/ PacksTarball \/ HashesTarball \/ Uploads
  \/ ResponseBegins \/ LineArrives \/ ReadRefused \/ ReadFailsAgain \/ ResponseEnds
  \/ PollsAgain \/ JudgesScan \/ DiscardsScanned \/ WritesReceipt
  \/ DeletesTarball \/ CleansArtifact

ScanNext == StartsScan \/ ScanProceeds \/ ServiceFinishes

\* Commands, requests and the service's responses end; its scan may not.
ScanFairness == WF_scanVars(ScanProceeds)

ScanSpec == ScanInit /\ [][ScanNext]_scanVars /\ ScanFairness

----------------------------------------------------------------------------
(* Properties.                                                             *)

\* A receipt says that the staged bytes were scanned, that the scan was
\* finished and found something clean, and that all of its findings were read
\* and are no malware, though reads broke off and were repeated while the
\* service went on working -- unless the service itself ended its last response
\* early and without an error.
ReceiptMeansScanned ==
  receipt =>
    /\ sameBytes /\ service = "done"
    /\ "clean" \in findings
    /\ findings = {"clean"} \/ short

\* No tarball and no prepared build is left behind, whichever step failed, but
\* one whose own deletion failed.  The directory of the download and the rest
\* of a failed pack are.
ScanLeavesNoFiles ==
  scanCi = "ended" => leftovers \ {"download", "rest"} \subseteq stuck

\* What a scan that ended has left: no file that it knows of, and a receipt
\* only if it is true.
ScanLeavesOnlyTruth == ReceiptMeansScanned /\ ScanLeavesNoFiles

\* The scan ends, though the service may never finish: its reads are repeated
\* a bounded number of times and its polls stop at the deadline.
ScanEnds == (scanCi # "none") ~> (scanCi = "ended")

=============================================================================
