--------------------------- MODULE TypecheckTurns ---------------------------
(***************************************************************************)
(* The type check of concurrent pushes of one checkout                     *)
(* (.git-hooks/_shared/push/repo-gates.mts, typecheck-cache.mts): a push   *)
(* looks its tree up in a cache of verdicts and, on a miss, runs the       *)
(* compiler under a lock, for which it waits for a limited time.  Other    *)
(* sessions edit the checkout meanwhile.  The lock itself is external.     *)
(*                                                                         *)
(* The key of a tree is taken from what git status lists of it, and does   *)
(* not tell every two trees apart: a directory without tracked files is    *)
(* one entry, ignored files are none, and the first entry may be cut off   *)
(* (the output is trimmed before each line loses its status) and then      *)
(* counts as a missing file, whatever is in it.  A tree may come back, too,*)
(* as when an edit is undone.                                              *)
(***************************************************************************)
EXTENDS Naturals, FiniteSets

CONSTANTS
  Pushers,  \* the concurrent pushes
  Trees,    \* contents that the working tree may have
  ListingOf,\* ListingOf[t]: the commit of t and its entries, as they are read
  MaxEdits  \* bound on the edits

VARIABLES
  errors,   \* errors[t]: what the compiler finds in t: "none", "own" or, in
            \* uncommitted files that no push carries, "foreign"
  tree,     \* the working tree, and
  edits,    \* the edits so far
  cache,    \* cache[k]: "none", "torn" or the tree whose verdict is under the key k
  fixer,    \* the push that the fixer lock is held for, or Free
  push,     \* push[p]: how far scanTypeCheck is
  key,      \* key[p]: the tree that its cache key was taken from
  held,     \* held[p]: it has a handle of the lock to release
  verdict,  \* verdict[p]: the tree whose verdict it has, "busy" or "none"
  touched,  \* ghost: the pushes whose tree was edited since their key
  mixed,    \* ghost: the keys whose verdict came from a tree with another key
  calm      \* ghost: nothing out of the ordinary has happened

Free == "free"

Listings == {ListingOf[t] : t \in Trees}

\* No push is called as the free lock, nor a tree as an entry without verdict.
ASSUME TurnsAssumption ==
  /\ Free \notin Pushers
  /\ DOMAIN ListingOf = Trees
  /\ Trees # {} /\ Trees \cap {"none", "torn"} = {}

turnVars == <<errors, tree, edits, cache, fixer, push, key, held, verdict,
              touched, mixed, calm>>
world == <<errors, tree, edits, touched>>

Over == {"passed", "failed", "killed"}

TurnsInit ==
  /\ errors \in [Trees -> {"none", "own", "foreign"}]
  /\ tree = (CHOOSE t \in Trees : TRUE) /\ edits = 0
  /\ cache = [k \in Listings |-> "none"]
  /\ fixer = Free
  /\ push = [p \in Pushers |-> "none"]
  /\ key = [p \in Pushers |-> "none"]
  /\ held = [p \in Pushers |-> FALSE]
  /\ verdict = [p \in Pushers |-> "none"]
  /\ touched = {} /\ mixed = {}
  /\ calm = TRUE

Steps(p, from, to) == push[p] = from /\ push' = [push EXCEPT ![p] = to]

\* Mutant: a tree has the key of its commit.
KeyOfCommit(t) == ListingOf[CHOOSE first \in Trees : TRUE]

\* The commit, and path, size and time of every entry of the listing.
KeyOf(t) == ListingOf[t]

\* readTypecheckVerdict: half a verdict is none.
Readable(t) == cache[KeyOf(t)] \in Trees

----------------------------------------------------------------------------

\* The key is taken and the cache is looked at.
LooksUp(p) ==
  /\ Steps(p, "none", IF Readable(tree) THEN "judging" ELSE "locking")
  /\ key' = [key EXCEPT ![p] = tree]
  /\ verdict' = [verdict EXCEPT ![p] = IF Readable(tree) THEN cache[KeyOf(tree)] ELSE @]
  /\ calm' = (calm /\ cache[KeyOf(tree)] # "torn")
  /\ UNCHANGED <<world, cache, fixer, held, mixed>>

\* acquireFixerLock
Locks(p) ==
  /\ Steps(p, "locking", IF fixer = Free THEN "turn" ELSE "waiting")
  /\ held' = [held EXCEPT ![p] = fixer = Free]
  /\ fixer' = IF fixer = Free THEN p ELSE fixer
  /\ UNCHANGED <<world, cache, key, verdict, mixed, calm>>

\* Mutant: the handle of the first attempt is the one that is released.
AcquiresUnheld(p) ==
  /\ fixer = Free
  /\ Steps(p, "waiting", "turn")
  /\ fixer' = p
  /\ UNCHANGED <<world, cache, key, held, verdict, mixed, calm>>

\* A poll of waitForTypecheckTurn gets the lock.
Acquires(p) ==
  /\ fixer = Free
  /\ Steps(p, "waiting", "turn")
  /\ fixer' = p /\ held' = [held EXCEPT ![p] = TRUE]
  /\ UNCHANGED <<world, cache, key, verdict, mixed, calm>>

PeerFinished(p) ==
  /\ Steps(p, "waiting", "rereading")
  /\ Readable(key[p])
  /\ UNCHANGED <<world, cache, fixer, key, held, verdict, mixed, calm>>

\* The peer's verdict, unless it is being written anew.
Rereads(p) ==
  /\ push[p] = "rereading"
  /\ Steps(p, "rereading", IF Readable(key[p]) THEN "judging" ELSE "turn")
  /\ verdict' = [verdict EXCEPT ![p] = IF Readable(key[p]) THEN cache[KeyOf(key[p])] ELSE @]
  /\ calm' = (calm /\ Readable(key[p]))
  /\ UNCHANGED <<world, cache, fixer, key, held, mixed>>

\* Mutant: a push waits for the holder for ever.
NoDeadline(p) == FALSE /\ UNCHANGED turnVars

\* The deadline: the push goes on without the lock.
Deadline(p) ==
  /\ Steps(p, "waiting", "turn")
  /\ calm' = FALSE
  /\ UNCHANGED <<world, cache, fixer, key, held, verdict, mixed>>

\* tsc reads the tree as it is now, or is refused as one heavy job too many.
Compiles(p) ==
  /\ Steps(p, "turn", "compiling")
  /\ \/ verdict' = [verdict EXCEPT ![p] = tree] /\ calm' = calm
     \/ verdict' = [verdict EXCEPT ![p] = "busy"] /\ calm' = FALSE
  /\ UNCHANGED <<world, cache, fixer, key, held, mixed>>

\* writeTypecheckVerdict, which may fail at either end; "busy" is not written.
WriteBegins(p) ==
  /\ Steps(p, "compiling", "writing")
  /\ verdict[p] # "busy"
  /\ cache' = [cache EXCEPT ![KeyOf(key[p])] = "torn"]
  /\ mixed' = IF KeyOf(verdict[p]) = KeyOf(key[p]) THEN mixed
              ELSE mixed \cup {KeyOf(key[p])}
  /\ UNCHANGED <<world, fixer, key, held, verdict, calm>>

WriteEnds(p) ==
  /\ Steps(p, "writing", "releasing")
  /\ cache' = [cache EXCEPT ![KeyOf(key[p])] = verdict[p]]
  /\ UNCHANGED <<world, fixer, key, held, verdict, mixed, calm>>

VerdictUnwritten(p) ==
  /\ Steps(p, "compiling", "releasing") \/ Steps(p, "writing", "releasing")
  /\ calm' = FALSE
  /\ UNCHANGED <<world, cache, fixer, key, held, verdict, mixed>>

Releases(p) ==
  /\ Steps(p, "releasing", "judging")
  /\ held' = [held EXCEPT ![p] = FALSE]
  /\ fixer' = IF held[p] /\ fixer = p THEN Free ELSE fixer
  /\ UNCHANGED <<world, cache, key, verdict, mixed, calm>>

\* The errors are blamed on the files that are listed by now: after an edit
\* they may be others than those that were listed for the compiler.
Judges(p) ==
  /\ push[p] = "judging"
  /\ LET found == IF verdict[p] = "busy" THEN "own" ELSE errors[verdict[p]]
         certain == \/ found = "none" \/ verdict[p] = "busy"
                    \/ KeyOf(verdict[p]) = KeyOf(tree)
     IN \/ Steps(p, "judging", "passed") /\ (certain => found # "own")
        \/ Steps(p, "judging", "failed") /\ (certain => found = "own")
  /\ UNCHANGED <<world, cache, fixer, key, held, verdict, mixed, calm>>

\* Another session edits, or undoes an edit.
Edits(t) ==
  /\ edits < MaxEdits /\ t # tree
  /\ tree' = t /\ edits' = edits + 1
  /\ touched' = touched \cup {p \in Pushers : push[p] \notin Over \cup {"none"}}
  /\ calm' = FALSE
  /\ UNCHANGED <<errors, cache, fixer, push, key, held, verdict, mixed>>

\* A push is interrupted.  The lock may be taken from a dead holder.
PushKilled(p) ==
  /\ push[p] \notin Over \cup {"none"}
  /\ push' = [push EXCEPT ![p] = "killed"]
  /\ fixer' \in IF fixer = p THEN {Free, p} ELSE {fixer}
  /\ calm' = FALSE
  /\ UNCHANGED <<world, cache, key, held, verdict, mixed>>

TurnStep(p) ==
  \/ Locks(p) \/ Acquires(p) \/ PeerFinished(p) \/ Rereads(p) \/ Deadline(p)
  \/ Compiles(p) \/ WriteBegins(p) \/ WriteEnds(p) \/ VerdictUnwritten(p)
  \/ Releases(p) \/ Judges(p)

TurnsNext ==
  \/ \E p \in Pushers : LooksUp(p) \/ TurnStep(p) \/ PushKilled(p)
  \/ \E t \in Trees : Edits(t)

\* A push that runs goes on, and the compiler comes to an end.
TurnsFairness == \A p \in Pushers : WF_turnVars(TurnStep(p))

TurnsSpec == TurnsInit /\ [][TurnsNext]_turnVars /\ TurnsFairness

----------------------------------------------------------------------------
(* Properties.                                                             *)

\* A push that is over has given its turn back, whichever attempt got it,
\* unless it was killed.
LockComesBack ==
  fixer # Free =>
    push[fixer] \in {"turn", "compiling", "writing", "releasing", "killed"}

\* A push whose tree stands still passes only if that tree, or one with the
\* same listing, has no error that counts against it -- or if the verdict for
\* its key came from a tree with another listing: one that was edited between
\* the key and the compiler of an earlier push.
PassFitsTree ==
  \A p \in Pushers : push[p] = "passed" /\ p \notin touched =>
    \/ \E t \in Trees : ListingOf[t] = ListingOf[key[p]] /\ errors[t] # "own"
    \/ KeyOf(key[p]) \in mixed

\* The compiler runs for one push at a time, in the ordinary course.
TypechecksTakeTurns ==
  calm => Cardinality({p \in Pushers : push[p] = "compiling"}) <= 1

\* A push that runs the compiler has its turn, and turns are given back.
TurnsAreKept == LockComesBack /\ TypechecksTakeTurns

\* Every push ends, though the lock's holder may be gone without releasing it.
EveryPushEnds ==
  \A p \in Pushers : (push[p] # "none") ~> (push[p] \in Over)

=============================================================================
