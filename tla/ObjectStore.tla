---------------------------- MODULE ObjectStore ----------------------------
(***************************************************************************)
(* The content-addressed object store of a workspace and the sweep that    *)
(* removes its orphans (storage/object_*.go, storage/db.go Open and        *)
(* media/object_store.go).                                                 *)
(*                                                                         *)
(* Every process that opens the workspace tries to take a file lock        *)
(* exclusively, once; the one that gets it sweeps and then changes to the  *)
(* shared lock that all running processes hold.  The kernel drops the lock *)
(* of a process that dies.  The sweep moves an old file without a row into *)
(* a quarantine directory, looks at it again and unlinks it; what a crash  *)
(* leaves in quarantine the next sweep moves back first.                   *)
(*                                                                         *)
(* A file is known by its content, and of its times only whether it is     *)
(* older than orphanObjectMinimumAge.  The path checks, the directory      *)
(* descriptors and the probe for a no-replace rename are left out.         *)
(***************************************************************************)
EXTENDS Naturals, FiniteSets

CONSTANTS
  Proc,       \* processes that open the workspace
  Hash,       \* contents that are stored
  MaxStoreMishaps  \* bound: crashes, failed sweeps, failed locks

VARIABLES
  proc,      \* "down", "sweeping", "waiting" for the shared lock, or "live"
  lock,      \* the lock each process holds
  sweep,     \* its walk: hashes to come, the place in the code and the one at hand
  file,      \* the objects directory: "none", or the age of the file
  held,      \* the quarantine directories
  stored,    \* rows of the table `objects`
  hand,      \* the object a process's handler is about to store
  unlocked,  \* some process went on without a lock
  accidents

processes == <<proc, lock, sweep, unlocked, accidents>>
storeVars == <<processes, file, held, stored, hand>>

NoWalk == [todo |-> {}, at |-> "start", cur |-> {}]
EmptyHand == [pc |-> "empty"]

StoreInit ==
  /\ proc = [p \in Proc |-> "down"] /\ lock = [p \in Proc |-> "none"]
  /\ sweep = [p \in Proc |-> NoWalk]
  /\ file = [h \in Hash |-> "none"] /\ held = [h \in Hash |-> "none"]
  /\ stored = {} /\ hand = [p \in Proc |-> EmptyHand]
  /\ unlocked = FALSE /\ accidents = 0

Accident == accidents < MaxStoreMishaps /\ accidents' = accidents + 1

-----------------------------------------------------------------------------
(* Opening the workspace. *)

\* Mutant: the exclusive lock is granted beside shared ones.
FreeBesideShared(p, wanted) == \A q \in Proc \ {p} : lock[q] # "exclusive"

\* flock with LOCK_NB against the locks of the other open files.
Free(p, wanted) ==
  \A q \in Proc \ {p} : lock[q] = "none" \/ (wanted = "shared" /\ lock[q] = "shared")

\* The one attempt at the exclusive lock.
Open(p) ==
  /\ proc[p] = "down"
  /\ IF Free(p, "exclusive")
     THEN /\ proc' = [proc EXCEPT ![p] = "sweeping"]
          /\ lock' = [lock EXCEPT ![p] = "exclusive"]
     ELSE proc' = [proc EXCEPT ![p] = "waiting"] /\ UNCHANGED lock
  /\ UNCHANGED <<sweep, file, held, stored, hand, unlocked, accidents>>

\* The lock file cannot be opened: the process runs without lock and sweep.
OpenUnlocked(p) ==
  /\ proc[p] = "down" /\ Accident
  /\ proc' = [proc EXCEPT ![p] = "live"] /\ unlocked' = TRUE
  /\ UNCHANGED <<lock, sweep, file, held, stored, hand>>

\* The polling for the shared lock ends.
Share(p) ==
  /\ proc[p] = "waiting" /\ Free(p, "shared")
  /\ proc' = [proc EXCEPT ![p] = "live"] /\ lock' = [lock EXCEPT ![p] = "shared"]
  /\ UNCHANGED <<sweep, file, held, stored, hand, unlocked, accidents>>

-----------------------------------------------------------------------------
(* The sweep. *)

Stands(p, place, cur) == proc[p] = "sweeping" /\ sweep[p].at = place /\ sweep[p].cur = cur
Walking(p) == Stands(p, "walk", {})
Takes(p, place, h) ==
  sweep' = [sweep EXCEPT ![p] = [todo |-> sweep[p].todo \ {h}, at |-> place, cur |-> {h}]]
WalksOn(p) == sweep' = [sweep EXCEPT ![p].at = "walk", ![p].cur = {}]

\* What earlier sweeps left in quarantine goes back, unless the path is taken.
Recover(p) ==
  /\ Stands(p, "start", {})
  /\ file' = [h \in Hash |-> IF file[h] = "none" THEN held[h] ELSE file[h]]
  /\ held' = [h \in Hash |-> IF file[h] = "none" THEN "none" ELSE held[h]]
  /\ sweep' = [sweep EXCEPT ![p] = [todo |-> Hash, at |-> "walk", cur |-> {}]]
  /\ UNCHANGED <<proc, lock, stored, hand, unlocked, accidents>>

\* The walk reaches a file; the SELECT finds no row for it, or it is left alone.
Visit(p, h) ==
  /\ Walking(p) /\ h \in sweep[p].todo
  /\ IF file[h] # "none" /\ h \notin stored
     THEN Takes(p, "stat", h)
     ELSE sweep' = [sweep EXCEPT ![p].todo = sweep[p].todo \ {h}]
  /\ UNCHANGED <<proc, lock, file, held, stored, hand, unlocked, accidents>>

\* Only a regular file past the minimum age becomes a candidate.
Stat(p, h) ==
  /\ Stands(p, "stat", {h})
  /\ IF file[h] = "old" THEN Takes(p, "move", h) ELSE WalksOn(p)
  /\ UNCHANGED <<proc, lock, file, held, stored, hand, unlocked, accidents>>

Quarantine(p, h) ==
  /\ Stands(p, "move", {h})
  /\ IF file[h] = "none"
     THEN WalksOn(p) /\ UNCHANGED <<file, held>>
     ELSE /\ held' = [held EXCEPT ![h] = file[h]]
          /\ file' = [file EXCEPT ![h] = "none"]
          /\ Takes(p, "unlink", h)
  /\ UNCHANGED <<proc, lock, stored, hand, unlocked, accidents>>

\* The deferred restore: back to the path, unless somebody put a file there.
Restored(h) ==
  /\ file' = [file EXCEPT ![h] = IF @ = "none" THEN held[h] ELSE @]
  /\ held' = [held EXCEPT ![h] = IF file[h] = "none" THEN "none" ELSE @]

\* The second look: still the same old file, or it was replaced meanwhile.
Unlink(p, h) ==
  /\ Stands(p, "unlink", {h})
  /\ IF held[h] = "old" THEN held' = [held EXCEPT ![h] = "none"] /\ UNCHANGED file
                        ELSE Restored(h)
  /\ WalksOn(p)
  /\ UNCHANGED <<proc, lock, stored, hand, unlocked, accidents>>

\* The walk ends: the lock is closed and the shared one is asked for.
HandOver(p) ==
  /\ proc' = [proc EXCEPT ![p] = "waiting"] /\ lock' = [lock EXCEPT ![p] = "none"]
  /\ sweep' = [sweep EXCEPT ![p] = NoWalk]

SweepEnds(p) ==
  /\ Walking(p) /\ sweep[p].todo = {}
  /\ HandOver(p)
  /\ UNCHANGED <<file, held, stored, hand, unlocked, accidents>>

\* An error ends the sweep, never the opening.
SweepFails(p) ==
  /\ proc[p] = "sweeping" /\ Accident
  /\ IF sweep[p].at = "unlink"
     THEN \E h \in sweep[p].cur : Restored(h)
     ELSE UNCHANGED <<file, held>>
  /\ HandOver(p)
  /\ UNCHANGED <<stored, hand, unlocked>>

-----------------------------------------------------------------------------
(* A handler of a running process stores an object: an upload, a proxy, a
   preview, an export. *)

\* Put wrote the temporary file and looks for the destination.
PutLooks(p, h) ==
  /\ proc[p] = "live" /\ hand[p].pc = "empty"
  /\ hand' = [hand EXCEPT ![p] = [pc |-> IF file[h] = "none" THEN "absent" ELSE "put",
                                  hash |-> h]]
  /\ UNCHANGED <<processes, file, held, stored>>

\* The rename, over whatever another handler has put there since.
PutRenames(p) ==
  /\ hand[p].pc = "absent"
  /\ file' = [file EXCEPT ![hand[p].hash] = "fresh"]
  /\ hand' = [hand EXCEPT ![p].pc = "put"]
  /\ UNCHANGED <<processes, held, stored>>

\* ensureObject inside the transaction that refers to the object.
Commits(p) ==
  /\ hand[p].pc = "put"
  /\ stored' = stored \cup {hand[p].hash}
  /\ hand' = [hand EXCEPT ![p] = EmptyHand]
  /\ UNCHANGED <<processes, file, held>>

\* The handler fails or its transaction is refused.
DropsHand(p) ==
  /\ hand[p].pc # "empty"
  /\ hand' = [hand EXCEPT ![p] = EmptyHand]
  /\ UNCHANGED <<processes, file, held, stored>>

-----------------------------------------------------------------------------
\* A process stops, or dies: the kernel closes its files.
Quit(p) ==
  /\ proc[p] # "down" /\ Accident
  /\ proc' = [proc EXCEPT ![p] = "down"] /\ lock' = [lock EXCEPT ![p] = "none"]
  /\ sweep' = [sweep EXCEPT ![p] = NoWalk]
  /\ hand' = [hand EXCEPT ![p] = EmptyHand]
  /\ UNCHANGED <<file, held, stored, unlocked>>

Age(h) ==
  /\ file[h] = "fresh" /\ file' = [file EXCEPT ![h] = "old"]
  /\ UNCHANGED <<processes, held, stored, hand>>

SweepStep(p) ==
  \/ Recover(p) \/ SweepEnds(p) \/ SweepFails(p)
  \/ \E h \in Hash : Visit(p, h) \/ Stat(p, h) \/ Quarantine(p, h) \/ Unlink(p, h)

HandStep(p) == (\E h \in Hash : PutLooks(p, h)) \/ PutRenames(p) \/ Commits(p) \/ DropsHand(p)

StoreNext ==
  \/ \E p \in Proc : Open(p) \/ OpenUnlocked(p) \/ Share(p) \/ SweepStep(p) \/ HandStep(p) \/ Quit(p)
  \/ \E h \in Hash : Age(h)

StoreSpec == StoreInit /\ [][StoreNext]_storeVars

-----------------------------------------------------------------------------
\* A row of `objects` has its file, and so has the handler that was told by Put
\* that its object is there (it finds an old orphan and does not write it
\* again): no sweep of another process takes the file away, whatever crashed
\* in a sweep before. Only a process that got no lock file and went on without
\* the lock, as Open allows, takes this away.
ObjectsKept ==
  \A h \in Hash : file[h] = "none" =>
     \/ h \notin stored /\ \A p \in Proc : hand[p].pc = "put" => hand[p].hash # h
     \/ unlocked
=============================================================================
