-------------------------- MODULE WorkspaceProofs --------------------------
(***************************************************************************)
(* Proofs about the parts of a workspace that MCWorkspace checks beside    *)
(* its drafts, for any bounds: that no sweep takes a file away that a row  *)
(* or a handler relies on (ObjectStore), what the model is told of the     *)
(* conversation (Context), what a rewind withdraws of what the agent       *)
(* remembers (UserMemory), which turns a restart finds (TurnRecovery) and  *)
(* that the locks of the shared indexes exclude and let through who they   *)
(* must (IndexLocks).                                                      *)
(***************************************************************************)
EXTENDS ObjectStore, Context, UserMemory, TurnRecovery, IndexLocks,
        SequenceTheorems, FiniteSetTheorems, WellFoundedInduction, TLAPS

-----------------------------------------------------------------------------
(* ObjectStore: the inductive invariant. *)

\* The ages of a file, and the places of a sweep in which it has a file at hand.
Kept == {"none", "fresh", "old"}
AtHand == {"stat", "move", "unlink"}

\* Every variable keeps its shape.
StoreTypeOK ==
  /\ proc \in [Proc -> {"down", "sweeping", "waiting", "live"}]
  /\ lock \in [Proc -> {"none", "shared", "exclusive"}]
  /\ sweep \in [Proc -> [todo : SUBSET Hash, at : {"start", "walk"} \cup AtHand, cur : SUBSET Hash]]
  /\ file \in [Hash -> Kept] /\ held \in [Hash -> Kept]
  /\ stored \subseteq Hash
  /\ hand \in [Proc -> {EmptyHand} \cup [pc : {"absent", "put"}, hash : Hash]]
  /\ unlocked \in BOOLEAN

\* A sweep runs under the exclusive lock and nobody else is at a place in one; who
\* runs without a lock has said so; only a running process has something at hand.
LocksMatch ==
  \A p \in Proc :
    /\ proc[p] = "sweeping" => lock[p] = "exclusive"
    /\ proc[p] # "sweeping" => sweep[p].at = "start"
    /\ proc[p] = "live" /\ ~ unlocked => lock[p] = "shared"
    /\ hand[p] # EmptyHand => proc[p] = "live"
\* The kernel's locks exclude one another.
LocksExclude ==
  \A p, q \in Proc : p # q /\ lock[p] = "exclusive" => lock[q] = "none"
\* What a sweep has at hand has no row.
SweepsOrphans ==
  \A p \in Proc : (proc[p] = "sweeping" /\ sweep[p].at \in AtHand /\ ~ unlocked)
                  => sweep[p].cur \cap stored = {}

\* The inductive invariant: what a sweep may remove nobody has a row for, and
\* while it goes on nobody runs who could begin to rely on it.
StoreInv == StoreTypeOK /\ LocksMatch /\ LocksExclude /\ SweepsOrphans /\ ObjectsKept

-----------------------------------------------------------------------------
\* While a process sweeps, nobody has anything at hand, unless one runs
\* without a lock.
LEMMA NobodyRuns ==
  ASSUME StoreInv, NEW p \in Proc, proc[p] = "sweeping", ~ unlocked, NEW q \in Proc
  PROVE  hand[q] = EmptyHand
BY DEF StoreInv, StoreTypeOK, LocksMatch, LocksExclude

LEMMA InitInv == StoreInit => StoreInv
<1> SUFFICES ASSUME StoreInit PROVE StoreInv  OBVIOUS
<1> USE DEF StoreInit
<1>1. NoWalk \in [todo : SUBSET Hash, at : {"start", "walk"} \cup AtHand, cur : SUBSET Hash]
      /\ NoWalk.at = "start"
  BY DEF NoWalk
<1>2. StoreTypeOK  BY <1>1 DEF StoreTypeOK, Kept
<1>3. LocksMatch /\ LocksExclude /\ SweepsOrphans
  BY <1>1 DEF LocksMatch, LocksExclude, SweepsOrphans
<1>4. ObjectsKept  BY DEF ObjectsKept, EmptyHand
<1> QED  BY <1>2, <1>3, <1>4 DEF StoreInv

-----------------------------------------------------------------------------
(* ObjectStore: the opening of the workspace. *)

LEMMA OpenInv ==
  ASSUME StoreInv, NEW p \in Proc, Open(p) PROVE StoreInv'
<1> USE DEF StoreInv, Open
<1>1. StoreTypeOK'  BY DEF StoreTypeOK
<1>2. LocksMatch'  BY DEF StoreTypeOK, LocksMatch, Free
<1>3. LocksExclude'  BY DEF StoreTypeOK, LocksExclude, Free
<1>4. SweepsOrphans'  BY DEF StoreTypeOK, SweepsOrphans, LocksMatch, AtHand
<1>5. ObjectsKept'  BY DEF ObjectsKept
<1> QED  BY <1>1, <1>2, <1>3, <1>4, <1>5

LEMMA OpenUnlockedInv ==
  ASSUME StoreInv, NEW p \in Proc, OpenUnlocked(p) PROVE StoreInv'
<1> USE DEF StoreInv, OpenUnlocked
<1>1. StoreTypeOK'  BY DEF StoreTypeOK
<1>2. LocksMatch'  BY DEF StoreTypeOK, LocksMatch
<1>3. LocksExclude'  BY DEF LocksExclude
<1>4. SweepsOrphans' /\ ObjectsKept'  BY DEF SweepsOrphans, ObjectsKept
<1> QED  BY <1>1, <1>2, <1>3, <1>4

LEMMA ShareInv ==
  ASSUME StoreInv, NEW p \in Proc, Share(p) PROVE StoreInv'
<1> USE DEF StoreInv, Share
<1>1. StoreTypeOK'  BY DEF StoreTypeOK
<1>2. LocksMatch'  BY DEF StoreTypeOK, LocksMatch
<1>3. LocksExclude'  BY DEF StoreTypeOK, LocksExclude, Free
<1>4. SweepsOrphans'  BY DEF StoreTypeOK, SweepsOrphans
<1>5. ObjectsKept'  BY DEF ObjectsKept
<1> QED  BY <1>1, <1>2, <1>3, <1>4, <1>5

-----------------------------------------------------------------------------
(* ObjectStore: the sweep. *)

\* A file that goes back to its path takes nothing away.
LEMMA RestoredKeeps ==
  ASSUME StoreInv, NEW h \in Hash, Restored(h)
  PROVE  /\ file' \in [Hash -> Kept] /\ held' \in [Hash -> Kept]
         /\ \A k \in Hash : file[k] # "none" => file'[k] # "none"
BY DEF StoreInv, StoreTypeOK, Restored, Kept

\* A step that leaves processes, locks, rows and handlers alone.
LEMMA WalkInv ==
  ASSUME StoreInv, NEW p \in Proc, proc[p] = "sweeping",
         UNCHANGED <<proc, lock, stored, hand, unlocked>>,
         NEW w \in [todo : SUBSET Hash, at : {"start", "walk"} \cup AtHand, cur : SUBSET Hash],
         sweep' = [sweep EXCEPT ![p] = w],
         w.at \in AtHand /\ ~ unlocked => w.cur \cap stored = {},
         file' \in [Hash -> Kept], held' \in [Hash -> Kept],
         \A h \in Hash : file'[h] = "none" => file[h] = "none" \/ (h \in w.cur /\ w.at \in AtHand)
  PROVE  StoreInv'
<1> USE DEF StoreInv
<1>1. StoreTypeOK'  BY DEF StoreTypeOK
<1>2. LocksMatch'  BY DEF StoreTypeOK, LocksMatch
<1>3. LocksExclude'  BY DEF LocksExclude
<1>4. SweepsOrphans'  BY DEF StoreTypeOK, SweepsOrphans
<1>5. ObjectsKept'
  <2> SUFFICES ASSUME NEW h \in Hash, file'[h] = "none", ~ unlocked
               PROVE  h \notin stored /\ \A q \in Proc : hand[q].pc = "put" => hand[q].hash # h
    BY DEF ObjectsKept
  <2>1. \A q \in Proc : hand[q].pc # "put"  BY NobodyRuns DEF EmptyHand
  <2>2. CASE file[h] = "none"  BY <2>1, <2>2 DEF ObjectsKept
  <2>3. CASE h \in w.cur /\ w.at \in AtHand  BY <2>1, <2>3
  <2> QED  BY <2>2, <2>3
<1> QED  BY <1>1, <1>2, <1>3, <1>4, <1>5

LEMMA RecoverInv ==
  ASSUME StoreInv, NEW p \in Proc, Recover(p) PROVE StoreInv'
<1> DEFINE w == [todo |-> Hash, at |-> "walk", cur |-> {}]
<1>1. w \in [todo : SUBSET Hash, at : {"start", "walk"} \cup AtHand, cur : SUBSET Hash]
  OBVIOUS
<1>2. file' \in [Hash -> Kept] /\ held' \in [Hash -> Kept]
  BY DEF Recover, StoreInv, StoreTypeOK, Kept
<1>3. \A h \in Hash : file'[h] = "none" => file[h] = "none"
  BY DEF Recover
<1> QED  BY <1>1, <1>2, <1>3, WalkInv DEF Recover, Stands, AtHand

\* The places of a walk are of its type.
LEMMA VisitInv ==
  ASSUME StoreInv, NEW p \in Proc, NEW h \in Hash, Visit(p, h) PROVE StoreInv'
<1> USE DEF Visit, Walking, Stands
<1> DEFINE T == [todo : SUBSET Hash, at : {"start", "walk"} \cup AtHand, cur : SUBSET Hash]
<1>1. sweep \in [Proc -> T] /\ file' \in [Hash -> Kept] /\ held' \in [Hash -> Kept]
  BY DEF StoreInv, StoreTypeOK
<1>2. CASE file[h] # "none" /\ h \notin stored
  <2> DEFINE w == [todo |-> sweep[p].todo \ {h}, at |-> "stat", cur |-> {h}]
  <2>1. w \in T  BY <1>1 DEF AtHand
  <2> QED  BY <1>1, <1>2, <2>1, WalkInv DEF Takes
<1>3. CASE ~ (file[h] # "none" /\ h \notin stored)
  <2> DEFINE w == [sweep[p] EXCEPT !.todo = sweep[p].todo \ {h}]
  <2>1. w \in T /\ w.at = "walk"  BY <1>1
  <2>2. sweep' = [sweep EXCEPT ![p] = w]  BY <1>1, <1>3
  <2> QED  BY <1>1, <2>1, <2>2, WalkInv DEF AtHand
<1> QED  BY <1>2, <1>3

\* The walk goes on to the next file.
LEMMA WalksOnInv ==
  ASSUME StoreInv, NEW p \in Proc, proc[p] = "sweeping", WalksOn(p),
         UNCHANGED <<proc, lock, stored, hand, unlocked>>,
         file' \in [Hash -> Kept], held' \in [Hash -> Kept],
         \A h \in Hash : file'[h] = "none" => file[h] = "none"
  PROVE  StoreInv'
<1> DEFINE w == [sweep[p] EXCEPT !.at = "walk", !.cur = {}]
<1>1. sweep' = [sweep EXCEPT ![p] = w]
  BY DEF WalksOn, StoreInv, StoreTypeOK
<1>2. w \in [todo : SUBSET Hash, at : {"start", "walk"} \cup AtHand, cur : SUBSET Hash]
      /\ w.at = "walk"
  <2>1. sweep[p] \in [todo : SUBSET Hash, at : {"start", "walk"} \cup AtHand, cur : SUBSET Hash]
    BY DEF StoreInv, StoreTypeOK
  <2> QED  BY <2>1
<1>3. w.at \notin AtHand  BY <1>2 DEF AtHand
<1> HIDE DEF w
<1> QED  BY <1>1, <1>2, <1>3, WalkInv

\* The file at hand is an orphan still.
LEMMA TakesInv ==
  ASSUME StoreInv, NEW p \in Proc, NEW h \in Hash, NEW place \in AtHand, Takes(p, place, h),
         proc[p] = "sweeping", sweep[p].at \in AtHand, sweep[p].cur = {h},
         UNCHANGED <<proc, lock, stored, hand, unlocked>>,
         file' \in [Hash -> Kept], held' \in [Hash -> Kept],
         \A k \in Hash : file'[k] = "none" => file[k] = "none" \/ k = h
  PROVE  StoreInv'
<1> DEFINE w == [todo |-> sweep[p].todo \ {h}, at |-> place, cur |-> {h}]
<1>1. w \in [todo : SUBSET Hash, at : {"start", "walk"} \cup AtHand, cur : SUBSET Hash]
  BY DEF StoreInv, StoreTypeOK
<1>2. ~ unlocked => w.cur \cap stored = {}
  BY DEF StoreInv, SweepsOrphans
<1>3. sweep' = [sweep EXCEPT ![p] = w] /\ w.at \in AtHand /\ w.cur = {h}  BY DEF Takes
<1> HIDE DEF w
<1> QED  BY <1>1, <1>2, <1>3, WalkInv

LEMMA StatInv ==
  ASSUME StoreInv, NEW p \in Proc, NEW h \in Hash, Stat(p, h) PROVE StoreInv'
<1>1. file' \in [Hash -> Kept] /\ held' \in [Hash -> Kept] /\ file' = file
  BY DEF Stat, StoreInv, StoreTypeOK
<1>2. CASE Takes(p, "move", h)
  BY <1>1, <1>2, TakesInv DEF Stat, Stands, AtHand
<1>3. CASE WalksOn(p)
  BY <1>1, <1>3, WalksOnInv DEF Stat, Stands
<1> QED  BY <1>2, <1>3 DEF Stat

LEMMA QuarantineInv ==
  ASSUME StoreInv, NEW p \in Proc, NEW h \in Hash, Quarantine(p, h) PROVE StoreInv'
<1>1. CASE file[h] = "none"
  <2>1. file' \in [Hash -> Kept] /\ held' \in [Hash -> Kept] /\ file' = file
    BY <1>1 DEF Quarantine, StoreInv, StoreTypeOK
  <2> QED  BY <1>1, <2>1, WalksOnInv DEF Quarantine, Stands
<1>2. CASE file[h] # "none"
  <2>1. file' \in [Hash -> Kept] /\ held' \in [Hash -> Kept]
    BY <1>2 DEF Quarantine, StoreInv, StoreTypeOK, Kept
  <2>2. \A k \in Hash : file'[k] = "none" => file[k] = "none" \/ k = h
    BY <1>2 DEF Quarantine, StoreInv, StoreTypeOK
  <2> QED  BY <1>2, <2>1, <2>2, TakesInv DEF Quarantine, Stands, AtHand
<1> QED  BY <1>1, <1>2

LEMMA UnlinkInv ==
  ASSUME StoreInv, NEW p \in Proc, NEW h \in Hash, Unlink(p, h) PROVE StoreInv'
<1>1. /\ file' \in [Hash -> Kept] /\ held' \in [Hash -> Kept]
      /\ \A k \in Hash : file'[k] = "none" => file[k] = "none"
  <2>1. CASE held[h] = "old"
    BY <2>1 DEF Unlink, StoreInv, StoreTypeOK, Kept
  <2>2. CASE held[h] # "old"
    BY <2>2, RestoredKeeps DEF Unlink
  <2> QED  BY <2>1, <2>2
<1> QED  BY <1>1, WalksOnInv DEF Unlink, Stands

\* The sweep is over, and the lock given back.
LEMMA HandOverInv ==
  ASSUME StoreInv, NEW p \in Proc, proc[p] = "sweeping", HandOver(p),
         UNCHANGED <<stored, hand, unlocked>>,
         file' \in [Hash -> Kept], held' \in [Hash -> Kept],
         \A h \in Hash : file'[h] = "none" => file[h] = "none"
  PROVE  StoreInv'
<1> USE DEF StoreInv, HandOver
<1>1. StoreTypeOK'  BY DEF StoreTypeOK, NoWalk
<1>2. LocksMatch'  BY DEF StoreTypeOK, LocksMatch, NoWalk
<1>3. LocksExclude'  BY DEF StoreTypeOK, LocksExclude
<1>4. SweepsOrphans'  BY DEF StoreTypeOK, SweepsOrphans, NoWalk
<1>5. ObjectsKept'  BY DEF ObjectsKept
<1> QED  BY <1>1, <1>2, <1>3, <1>4, <1>5

LEMMA SweepEndsInv ==
  ASSUME StoreInv, NEW p \in Proc, SweepEnds(p) PROVE StoreInv'
<1>1. file' \in [Hash -> Kept] /\ held' \in [Hash -> Kept] /\ file' = file
  BY DEF SweepEnds, StoreInv, StoreTypeOK
<1> QED  BY <1>1, HandOverInv DEF SweepEnds, Walking, Stands

LEMMA SweepFailsInv ==
  ASSUME StoreInv, NEW p \in Proc, SweepFails(p) PROVE StoreInv'
<1>1. /\ file' \in [Hash -> Kept] /\ held' \in [Hash -> Kept]
      /\ \A k \in Hash : file'[k] = "none" => file[k] = "none"
  <2>1. CASE sweep[p].at = "unlink"
    <3>1. PICK h \in sweep[p].cur : Restored(h)  BY <2>1 DEF SweepFails
    <3>2. h \in Hash  BY <3>1 DEF StoreInv, StoreTypeOK
    <3> QED  BY <3>1, <3>2, RestoredKeeps
  <2>2. CASE sweep[p].at # "unlink"
    BY <2>2 DEF SweepFails, StoreInv, StoreTypeOK
  <2> QED  BY <2>1, <2>2
<1> QED  BY <1>1, HandOverInv DEF SweepFails

-----------------------------------------------------------------------------
(* ObjectStore: handlers, the end of a process, time. *)

LEMMA HandInv ==
  ASSUME StoreInv, NEW p \in Proc, HandStep(p) PROVE StoreInv'
<1> USE DEF StoreInv, processes
<1>1. ASSUME NEW h \in Hash, PutLooks(p, h) PROVE StoreInv'
  <2> USE <1>1 DEF PutLooks
  <2>1. StoreTypeOK'  BY DEF StoreTypeOK
  <2>2. LocksMatch' /\ LocksExclude' /\ SweepsOrphans'
    BY DEF StoreTypeOK, LocksMatch, LocksExclude, SweepsOrphans
  <2>3. ObjectsKept'  BY DEF StoreTypeOK, ObjectsKept
  <2> QED  BY <2>1, <2>2, <2>3
<1>2. ASSUME PutRenames(p) PROVE StoreInv'
  <2> USE <1>2 DEF PutRenames
  <2>0. hand[p] \in [pc : {"absent", "put"}, hash : Hash]  BY DEF StoreTypeOK, EmptyHand
  <2>1. StoreTypeOK'  BY <2>0 DEF StoreTypeOK, Kept
  <2>2. LocksMatch' /\ LocksExclude' /\ SweepsOrphans'
    BY <2>0 DEF StoreTypeOK, LocksMatch, LocksExclude, SweepsOrphans, EmptyHand
  <2>3. ObjectsKept'  BY <2>0 DEF StoreTypeOK, ObjectsKept
  <2> QED  BY <2>1, <2>2, <2>3
<1>3. ASSUME Commits(p) PROVE StoreInv'
  <2> USE <1>3 DEF Commits
  <2>0. hand[p] \in [pc : {"absent", "put"}, hash : Hash] /\ hand[p] # EmptyHand
    BY DEF StoreTypeOK, EmptyHand
  <2>1. StoreTypeOK'  BY <2>0 DEF StoreTypeOK
  <2>2. LocksMatch' /\ LocksExclude'  BY DEF StoreTypeOK, LocksMatch, LocksExclude
  <2>3. SweepsOrphans'  BY <2>0, NobodyRuns DEF SweepsOrphans
  <2>4. ObjectsKept'  BY <2>0 DEF StoreTypeOK, ObjectsKept, EmptyHand
  <2> QED  BY <2>1, <2>2, <2>3, <2>4
<1>4. ASSUME DropsHand(p) PROVE StoreInv'
  <2> USE <1>4 DEF DropsHand
  <2>1. StoreTypeOK'  BY DEF StoreTypeOK
  <2>2. LocksMatch' /\ LocksExclude' /\ SweepsOrphans'
    BY DEF StoreTypeOK, LocksMatch, LocksExclude, SweepsOrphans
  <2>3. ObjectsKept'  BY DEF StoreTypeOK, ObjectsKept, EmptyHand
  <2> QED  BY <2>1, <2>2, <2>3
<1> QED  BY <1>1, <1>2, <1>3, <1>4 DEF HandStep

LEMMA QuitInv ==
  ASSUME StoreInv, NEW p \in Proc, Quit(p) PROVE StoreInv'
<1> USE DEF StoreInv, Quit
<1>1. StoreTypeOK'  BY DEF StoreTypeOK, NoWalk
<1>2. LocksMatch'  BY DEF StoreTypeOK, LocksMatch, NoWalk
<1>3. LocksExclude'  BY DEF StoreTypeOK, LocksExclude
<1>4. SweepsOrphans'  BY DEF StoreTypeOK, SweepsOrphans, NoWalk
<1>5. ObjectsKept'  BY DEF StoreTypeOK, ObjectsKept, EmptyHand
<1> QED  BY <1>1, <1>2, <1>3, <1>4, <1>5

LEMMA AgeInv ==
  ASSUME StoreInv, NEW h \in Hash, Age(h) PROVE StoreInv'
<1> USE DEF StoreInv, Age, processes
<1>1. StoreTypeOK'  BY DEF StoreTypeOK, Kept
<1>2. LocksMatch' /\ LocksExclude' /\ SweepsOrphans'
  BY DEF LocksMatch, LocksExclude, SweepsOrphans
<1>3. ObjectsKept'  BY DEF StoreTypeOK, ObjectsKept
<1> QED  BY <1>1, <1>2, <1>3

LEMMA NextInv ==
  ASSUME StoreInv, [StoreNext]_storeVars PROVE StoreInv'
<1>1. CASE UNCHANGED storeVars
  BY <1>1 DEF StoreInv, StoreTypeOK, LocksMatch, LocksExclude, SweepsOrphans, ObjectsKept,
              storeVars, processes
<1>2. ASSUME NEW p \in Proc, SweepStep(p) PROVE StoreInv'
  BY <1>2, RecoverInv, VisitInv, StatInv, QuarantineInv, UnlinkInv, SweepEndsInv, SweepFailsInv
     DEF SweepStep
<1>3. CASE StoreNext
  BY <1>2, <1>3, OpenInv, OpenUnlockedInv, ShareInv, HandInv, QuitInv, AgeInv DEF StoreNext
<1> QED  BY <1>1, <1>3

\* The invariant holds always.
THEOREM StoreSafe == StoreSpec => []StoreInv
BY InitInv, NextInv, PTL DEF StoreSpec

\* No sweep of another process takes away a file that a row or a running handler
\* relies on, whatever crashed in a sweep before, unless a process runs without
\* the lock (object_gc.go, object_lock_unix.go, object_store.go Put).
THEOREM SweepTakesOrphansOnly == StoreSpec => []ObjectsKept
<1>1. StoreInv => ObjectsKept  BY DEF StoreInv
<1> QED  BY <1>1, StoreSafe, PTL

-----------------------------------------------------------------------------
(* Context: the inductive invariant. *)

ContextRow == [kind : {"user", "reply", "failure", "reset"}, hidden : BOOLEAN]
ContextPoint == [through : Nat, covered : SUBSET Nat]
ContextTurn == [pc : {"summarising", "again", "told"}, item : Nat,
                history : SUBSET Nat, covered : SUBSET Nat]

ContextTyped ==
    /\ messages \in Seq(ContextRow) /\ tail \in Nat /\ checkpoint \in ContextPoint
    /\ queue \in Seq(Nat) /\ turn \in {NoTurn} \cup ContextTurn

\* What a turn is to carry out is a message of the user, if it is one.
IsItem(rows, i) == i # 0 => i \in DOMAIN rows /\ rows[i].kind = "user"
ItemsAsked ==
    /\ \A q \in DOMAIN queue : IsItem(messages, queue[q])
    /\ turn # NoTurn => IsItem(messages, turn.item)

ShownRows == {i \in DOMAIN messages : ~ messages[i].hidden}
Replies == {i \in ShownRows : messages[i].kind = "reply" /\ i >= tail}

\* A summary covers the replies up to its boundary.
PointTrue ==
    /\ checkpoint.covered \subseteq ShownRows /\ checkpoint.through <= Len(messages)
    /\ \A i \in Replies : i \in checkpoint.covered <=> i <= checkpoint.through

\* A context that was built tells every reply once; what it tells from the
\* summary comes before its history.
TurnTrue ==
    turn # NoTurn =>
        /\ turn.covered \subseteq ShownRows /\ turn.history \subseteq ShownRows
        /\ turn.pc \in {"summarising", "told"} =>
             \A i \in Replies : (i \in turn.covered) # (i \in turn.history)
        /\ turn.pc = "summarising" =>
             \A i \in Replies : i \in turn.covered => \A j \in turn.history : i < j

ContextInv == ContextTyped /\ ItemsAsked /\ PointTrue /\ TurnTrue

-----------------------------------------------------------------------------
\* A set of places has a last one.
LEMMA LastOne ==
    ASSUME NEW n \in Nat, NEW rows \in SUBSET (1 .. n), rows # {}
    PROVE  Last(rows) \in rows /\ \A j \in rows : j <= Last(rows)
<1> DEFINE after(i) == {j \in rows : j > i}
           tails == {after(i) : i \in rows}
           places == 1 .. n
<1>1. IsFiniteSet(places)  BY FS_Interval
<1>2. FiniteSubsetsOf(places) = SUBSET places  BY <1>1, FS_FiniteSubsetsOfFinite
<1>3. IsWellFoundedOn(StrictSubsetOrdering(places), SUBSET places)
  BY <1>2, FS_StrictSubsetOrderingWellFounded
<1>4. tails \subseteq SUBSET places /\ tails # {}  OBVIOUS
<1>5. PICK x \in tails : \A y \in tails : ~ (<<y, x>> \in StrictSubsetOrdering(places))
  <2> HIDE DEF tails, places
  <2> QED  BY <1>3, <1>4, WFMin
<1>6. PICK i \in rows : x = after(i)  BY <1>5
<1>7. \A j \in rows : j <= i
  <2>1. SUFFICES ASSUME NEW j \in rows, ~ (j <= i) PROVE FALSE
    OBVIOUS
  <2>2. i \in Nat /\ j \in Nat /\ j > i  BY <2>1
  <2>3. after(j) \subseteq after(i) /\ j \in after(i) /\ j \notin after(j)
    <3>1. ASSUME NEW l \in rows, l > j PROVE l > i
      <4>1. l \in Nat  OBVIOUS
      <4> QED  BY <4>1, <3>1, <2>2
    <3>2. ~ (j > j)  BY <2>2
    <3> QED  BY <3>1, <3>2, <2>2
  <2>4. after(j) \in tails  OBVIOUS
  <2>5. <<after(j), x>> \in (SUBSET places) \X (SUBSET places)  BY <1>4, <2>4
  <2>6. <<after(j), x>> \in StrictSubsetOrdering(places)
    BY <1>6, <2>3, <2>5 DEF StrictSubsetOrdering
  <2> QED  BY <1>5, <2>4, <2>6
<1> QED  BY <1>7 DEF Last

LEMMA ContextRows ==
    ASSUME ContextTyped
    PROVE  /\ Len(messages) \in Nat /\ DOMAIN messages = 1 .. Len(messages)
           /\ \A i \in DOMAIN messages : messages[i] \in ContextRow /\ i \in Nat /\ i > 0
BY DEF ContextTyped

LEMMA RowAppended ==
    ASSUME ContextTyped, NEW row \in ContextRow, messages' = Append(messages, row)
    PROVE  LET n == Len(messages) + 1 IN
           /\ messages' \in Seq(ContextRow) /\ DOMAIN messages' = DOMAIN messages \cup {n}
           /\ n \in Nat /\ n > 0 /\ n \notin DOMAIN messages /\ messages'[n] = row
           /\ \A i \in DOMAIN messages : messages'[i] = messages[i] /\ i < n
<1>1. messages \in Seq(ContextRow)  BY DEF ContextTyped
<1>2. /\ messages' \in Seq(ContextRow) /\ Len(messages') = Len(messages) + 1
      /\ \A i \in 1 .. Len(messages) : messages'[i] = messages[i]
      /\ messages'[Len(messages) + 1] = row
  BY <1>1, AppendProperties
<1> QED  BY <1>1, <1>2

\* What is built tells every reply once, after the summary what comes after it.
LEMMA HistoryTells ==
    ASSUME ContextTyped, PointTrue, NEW item
    PROVE  LET h == History(item, checkpoint.through) IN
           /\ h \subseteq ShownRows /\ h \subseteq Nat
           /\ \A i \in Replies : (i \in checkpoint.covered) # (i \in h)
           /\ \A i \in Replies : i \in checkpoint.covered => \A j \in h : i < j
<1> DEFINE rows == ListMessagesAfter(checkpoint.through)
           picked == selectContextRows(rows, item)
           h == normalizeContextHistory(picked)
<1>1. \A i \in DOMAIN messages : i \in Nat  BY ContextRows
<1>2. checkpoint.through \in Nat /\ tail \in Nat  BY DEF ContextTyped, ContextPoint
<1>3. \A i : i \in rows <=> i \in ShownRows /\ i >= tail /\ i > checkpoint.through
  BY DEF ListMessagesAfter, ShownRows
<1> HIDE DEF rows
<1>4. picked \subseteq rows /\ \A i \in rows : messages[i].kind = "reply" => i \in picked
  BY DEF selectContextRows
<1> HIDE DEF picked
<1>5. h \subseteq picked /\ \A i \in picked : messages[i].kind = "reply" => i \in h
  BY DEF normalizeContextHistory
<1> HIDE DEF h
<1>6. \A i \in Replies : i \in h <=> i > checkpoint.through
  BY <1>3, <1>4, <1>5 DEF Replies
<1>7. \A i \in Replies : i \in Nat  BY <1>1 DEF Replies, ShownRows
<1>8. h \subseteq ShownRows /\ h \subseteq Nat
  BY <1>1, <1>3, <1>4, <1>5 DEF ShownRows
<1>9. \A i \in Replies : (i \in checkpoint.covered) # (i \in h)
  BY <1>2, <1>6, <1>7 DEF PointTrue
<1>10. ASSUME NEW i \in Replies, i \in checkpoint.covered, NEW j \in h PROVE i < j
  <2>1. i <= checkpoint.through  BY <1>10 DEF PointTrue
  <2>2. j > checkpoint.through /\ j \in Nat  BY <1>3, <1>4, <1>5, <1>8
  <2> QED  BY <2>1, <2>2, <1>2, <1>7
<1>11. h = History(item, checkpoint.through)  BY DEF h, picked, rows, History
<1> QED  BY <1>8, <1>9, <1>10, <1>11

-----------------------------------------------------------------------------
(* Context: the steps. *)

LEMMA NoTurnIsNoRow == NoTurn \notin ContextTurn
BY DEF NoTurn, ContextTurn

LEMMA TurnRows ==
    ASSUME ContextTyped, turn # NoTurn
    PROVE  /\ turn \in ContextTurn /\ turn.item \in Nat /\ turn.history \subseteq Nat
           /\ turn.covered \subseteq Nat /\ turn.pc \in {"summarising", "again", "told"}
BY DEF ContextTyped, ContextTurn

LEMMA TakenIs ==
    ASSUME NEW pc \in {"summarising", "again", "told"}, NEW item \in Nat,
           NEW history \in SUBSET Nat, NEW covered \in SUBSET Nat
    PROVE  LET t == Took(item, history, covered, pc) IN
           /\ t \in ContextTurn /\ t.pc = pc /\ t.item = item /\ t.history = history
           /\ t.covered = covered
BY DEF Took, ContextTurn

\* A turn with a context just built.
LEMMA BuiltStep ==
    ASSUME ContextInv, NEW item \in Nat, IsItem(messages, item), NEW pc \in {"summarising", "told"},
           turn' = Took(item, History(item, checkpoint.through), checkpoint.covered, pc),
           UNCHANGED <<messages, tail, checkpoint>>, queue' \in Seq(Nat),
           \A q \in DOMAIN queue' : IsItem(messages, queue'[q])
    PROVE  ContextInv'
<1> DEFINE h == History(item, checkpoint.through)
           c == checkpoint.covered
<1>1. ContextTyped /\ PointTrue  BY DEF ContextInv
<1>2. /\ h \subseteq ShownRows /\ h \subseteq Nat
      /\ \A i \in Replies : (i \in c) # (i \in h)
      /\ \A i \in Replies : i \in c => \A j \in h : i < j
  BY <1>1, HistoryTells
<1>3. c \subseteq Nat /\ c \subseteq ShownRows  BY <1>1 DEF ContextTyped, ContextPoint, PointTrue
<1>4. turn' = Took(item, h, c, pc)  OBVIOUS
<1> HIDE DEF h, c
<1>5. /\ turn' \in ContextTurn /\ turn'.pc = pc /\ turn'.item = item /\ turn'.history = h
      /\ turn'.covered = c
  BY <1>2, <1>3, <1>4, TakenIs
<1>6. ContextTyped'  BY <1>1, <1>5 DEF ContextTyped
<1>7. ItemsAsked'  BY <1>5 DEF ItemsAsked, IsItem
<1>8. PointTrue'  BY <1>1 DEF PointTrue, ShownRows, Replies
<1>9. ShownRows' = ShownRows /\ Replies' = Replies  BY DEF ShownRows, Replies
<1>10. TurnTrue'  BY <1>2, <1>3, <1>5, <1>9 DEF TurnTrue
<1> QED  BY <1>6, <1>7, <1>8, <1>10 DEF ContextInv

LEMMA BeginStep ==
    ASSUME ContextInv, NEW rebase, Begin(rebase)
    PROVE  ContextInv'
<1> DEFINE item == Head(queue)
           history == History(item, checkpoint.through)
           pc == IF NeedsCompaction(history) THEN "summarising" ELSE "told"
<1>1. /\ queue # <<>> /\ queue' = Tail(queue) /\ UNCHANGED <<messages, tail, checkpoint>>
      /\ turn' = Took(item, history, checkpoint.covered, pc)
  BY DEF Begin, Rebased
<1>2. queue \in Seq(Nat)  BY DEF ContextInv, ContextTyped
<1>3. item \in Nat /\ IsItem(messages, item)  BY <1>1, <1>2 DEF ContextInv, ItemsAsked
<1>4. queue' \in Seq(Nat)  BY <1>1, <1>2
<1>5. \A q \in DOMAIN queue' : IsItem(messages, queue'[q])
  <2>1. \A q \in DOMAIN queue' : q + 1 \in DOMAIN queue /\ queue'[q] = queue[q + 1]
    BY <1>1, <1>2
  <2> QED  BY <2>1 DEF ContextInv, ItemsAsked
<1>6. pc \in {"summarising", "told"}  OBVIOUS
<1> HIDE DEF item, pc
<1> QED  BY <1>1, <1>3, <1>4, <1>5, <1>6, BuiltStep

LEMMA BuildAgainStep ==
    ASSUME ContextInv, BuildAgain
    PROVE  ContextInv'
<1>1. /\ turn # NoTurn /\ UNCHANGED <<messages, tail, checkpoint, queue>>
      /\ turn' = Took(turn.item, History(turn.item, checkpoint.through), checkpoint.covered, "told")
  BY DEF BuildAgain, NoTurn
<1>2. turn.item \in Nat  BY <1>1, TurnRows DEF ContextInv
<1>3. IsItem(messages, turn.item) /\ \A q \in DOMAIN queue : IsItem(messages, queue[q])
  BY <1>1 DEF ContextInv, ItemsAsked
<1>4. queue' \in Seq(Nat)  BY <1>1 DEF ContextInv, ContextTyped
<1>5. \A q \in DOMAIN queue' : IsItem(messages, queue'[q])  BY <1>1, <1>3
<1> QED  BY <1>1, <1>2, <1>3, <1>4, <1>5, BuiltStep

\* The summary takes in what it was made from, the replies up to the last one.
LEMMA SummaryCovers ==
    ASSUME ContextInv, turn.pc = "summarising", turn # NoTurn,
           NEW made, made = Compacted(turn.history, turn.item), made # {}
    PROVE  /\ Last(made) \in Nat /\ Last(made) <= Len(messages) /\ made \subseteq ShownRows
           /\ \A i \in Replies : i \in turn.covered \cup made <=> i <= Last(made)
<1>1. ContextTyped /\ TurnTrue /\ IsItem(messages, turn.item)  BY DEF ContextInv, ItemsAsked
<1>2. /\ turn.covered \subseteq ShownRows /\ turn.history \subseteq ShownRows
      /\ \A i \in Replies : (i \in turn.covered) # (i \in turn.history)
      /\ \A i \in Replies : i \in turn.covered => \A j \in turn.history : i < j
  BY <1>1 DEF TurnTrue
<1>3. \A i : i \in made <=> /\ i \in turn.history /\ i # turn.item
                            /\ \E j \in turn.history : i <= j /\ messages[j].kind # "user"
  BY DEF Compacted, moveCurrentUserToHistoryTail
<1>4. Len(messages) \in Nat /\ ShownRows \subseteq 1 .. Len(messages)
  BY <1>1, ContextRows DEF ShownRows
<1>5. made \subseteq ShownRows /\ made \in SUBSET (1 .. Len(messages))  BY <1>2, <1>3, <1>4
<1>6. Last(made) \in made /\ \A j \in made : j <= Last(made)  BY <1>4, <1>5, LastOne
<1>7. Last(made) \in Nat /\ Last(made) <= Len(messages)  BY <1>4, <1>5, <1>6
<1>8. ASSUME NEW i \in Replies PROVE i \in turn.covered \cup made <=> i <= Last(made)
  <2>1. i \in Nat /\ i \in 1 .. Len(messages) /\ messages[i].kind = "reply" /\ i \in DOMAIN messages
    BY <1>4 DEF Replies, ShownRows
  <2>2. i # turn.item
    <3>1. turn.item # 0 => messages[turn.item].kind = "user"  BY <1>1 DEF IsItem
    <3> QED  BY <3>1, <2>1
  <2>3. CASE i \in turn.history
    <3>1. i \in made
      <4>1. i <= i /\ messages[i].kind # "user"  BY <2>1
      <4> QED  BY <4>1, <2>2, <2>3, <1>3
    <3> QED  BY <3>1, <1>6
  <2>4. CASE i \notin turn.history
    <3>1. i \in turn.covered  BY <2>4, <1>2
    <3>2. i < Last(made)  BY <3>1, <1>2, <1>3, <1>6
    <3> QED  BY <3>1, <3>2, <2>1, <1>7
  <2> QED  BY <2>3, <2>4
<1> QED  BY <1>5, <1>7, <1>8

LEMMA CompactStep ==
    ASSUME ContextInv, Compact
    PROVE  ContextInv'
<1> DEFINE made == Compacted(turn.history, turn.item)
           t == [turn EXCEPT !.pc = "again"]
<1>1. /\ turn.pc = "summarising" /\ turn # NoTurn /\ turn' = t
      /\ checkpoint' = IF made = {} THEN checkpoint ELSE Replaced([covered |-> turn.covered], made)
      /\ UNCHANGED <<messages, tail, queue>>
  BY DEF Compact, NoTurn
<1>2. ContextTyped /\ PointTrue /\ TurnTrue /\ ItemsAsked  BY DEF ContextInv
<1>3. /\ t \in ContextTurn /\ t.pc = "again" /\ t.item = turn.item
      /\ t.history = turn.history /\ t.covered = turn.covered
  <2>1. turn \in ContextTurn  BY <1>1, <1>2, TurnRows
  <2> QED  BY <2>1 DEF ContextTurn
<1>4. turn.covered \subseteq Nat  BY <1>1, <1>2, TurnRows
<1>m. made = Compacted(turn.history, turn.item)  OBVIOUS
<1> HIDE DEF made, t
<1>5. ShownRows' = ShownRows /\ Replies' = Replies /\ ShownRows \subseteq Nat
  <2>1. ShownRows' = ShownRows /\ Replies' = Replies  BY <1>1 DEF ShownRows, Replies
  <2> QED  BY <2>1, <1>2, ContextRows DEF ShownRows
<1>6. checkpoint' \in ContextPoint /\ PointTrue'
  <2>1. CASE made = {}
    <3>1. checkpoint' = checkpoint  BY <1>1, <2>1
    <3> QED  BY <3>1, <1>1, <1>2, <1>5 DEF PointTrue, ContextTyped
  <2>2. CASE made # {}
    <3>1. /\ Last(made) \in Nat /\ Last(made) <= Len(messages) /\ made \subseteq ShownRows
          /\ \A i \in Replies : i \in turn.covered \cup made <=> i <= Last(made)
      BY <1>1, <1>m, <2>2, SummaryCovers
    <3>2. checkpoint' = [through |-> Last(made), covered |-> turn.covered \cup made]
      BY <1>1, <2>2 DEF Replaced
    <3>3. checkpoint' \in ContextPoint  BY <3>1, <3>2, <1>4, <1>5 DEF ContextPoint
    <3>4. turn.covered \subseteq ShownRows  BY <1>1, <1>2 DEF TurnTrue
    <3>5. checkpoint'.through = Last(made) /\ checkpoint'.covered = turn.covered \cup made
      BY <3>2
    <3> QED  BY <3>1, <3>3, <3>4, <3>5, <1>1, <1>5 DEF PointTrue
  <2> QED  BY <2>1, <2>2
<1>7. ContextTyped'  BY <1>1, <1>2, <1>3, <1>6 DEF ContextTyped
<1>8. ItemsAsked'  BY <1>1, <1>2, <1>3 DEF ItemsAsked, IsItem
<1>9. TurnTrue'  BY <1>1, <1>2, <1>3, <1>5 DEF TurnTrue
<1> QED  BY <1>6, <1>7, <1>8, <1>9 DEF ContextInv

\* A row that is no reply, or the reply of a turn that ends with it.
LEMMA GrowStep ==
    ASSUME ContextInv, NEW row \in ContextRow, ~ row.hidden, messages' = Append(messages, row),
           UNCHANGED <<tail, checkpoint>>, queue' \in Seq(Nat),
           \A q \in DOMAIN queue' : IsItem(messages', queue'[q])
                \/ (queue'[q] = Len(messages) + 1 /\ row.kind = "user"),
           turn' = NoTurn \/ (turn' = turn /\ row.kind # "reply")
    PROVE  ContextInv'
<1> DEFINE n == Len(messages) + 1
<1>1. ContextTyped /\ PointTrue /\ TurnTrue /\ ItemsAsked  BY DEF ContextInv
<1>2. /\ messages' \in Seq(ContextRow) /\ DOMAIN messages' = DOMAIN messages \cup {n}
      /\ n \in Nat /\ n > 0 /\ n \notin DOMAIN messages /\ messages'[n] = row
      /\ \A i \in DOMAIN messages : messages'[i] = messages[i] /\ i < n
  BY <1>1, RowAppended
<1>3. Len(messages) \in Nat /\ Len(messages) < n /\ Len(messages') = n
  <2>1. messages \in Seq(ContextRow)  BY <1>1 DEF ContextTyped
  <2> QED  BY <2>1, AppendProperties
<1>n. n = Len(messages) + 1  OBVIOUS
<1> HIDE DEF n
<1>4. ShownRows' = ShownRows \cup {n} /\ n \notin ShownRows
  BY <1>2 DEF ShownRows
<1>5. \A i \in Replies' : i \in Replies \/ (i = n /\ row.kind = "reply")
  BY <1>2, <1>4 DEF Replies, ShownRows
<1>6. ContextTyped'  BY <1>1, <1>2 DEF ContextTyped
<1>7. ItemsAsked'
  <2>1. \A q \in DOMAIN queue' : IsItem(messages', queue'[q])  BY <1>2, <1>n DEF IsItem
  <2>2. turn' # NoTurn => turn' = turn /\ IsItem(messages, turn.item)  BY <1>1 DEF ItemsAsked
  <2>3. turn' # NoTurn => IsItem(messages', turn.item)  BY <2>2, <1>2 DEF IsItem
  <2> QED  BY <2>1, <2>3 DEF ItemsAsked
<1>8. PointTrue'
  <2>1. checkpoint.through \in Nat  BY <1>1 DEF ContextTyped, ContextPoint
  <2>2. checkpoint.through < n  BY <2>1, <1>1, <1>2, <1>3 DEF PointTrue
  <2>3. n \notin checkpoint.covered  BY <1>1, <1>4 DEF PointTrue
  <2>4. ASSUME NEW i \in Replies' PROVE i \in checkpoint.covered <=> i <= checkpoint.through
    <3>1. CASE i \in Replies  BY <3>1, <1>1 DEF PointTrue
    <3>2. CASE i = n  BY <3>2, <2>1, <2>2, <2>3, <1>2
    <3> QED  BY <3>1, <3>2, <1>5
  <2>5. checkpoint.covered \subseteq ShownRows'  BY <1>1, <1>4 DEF PointTrue
  <2>6. checkpoint.through <= Len(messages')  BY <2>1, <2>2, <1>2, <1>3
  <2> QED  BY <2>4, <2>5, <2>6 DEF PointTrue
<1>9. TurnTrue'
  <2>1. CASE turn' = NoTurn  BY <2>1 DEF TurnTrue
  <2>2. CASE turn' = turn /\ row.kind # "reply"
    <3>1. \A i \in Replies' : i \in Replies  BY <1>5, <2>2
    <3> QED  BY <3>1, <2>2, <1>1, <1>4 DEF TurnTrue
  <2> QED  BY <2>1, <2>2
<1> QED  BY <1>6, <1>7, <1>8, <1>9 DEF ContextInv

LEMMA RowsAre ==
    ASSUME NEW kind \in {"user", "reply", "failure", "reset"}
    PROVE  Row(kind) \in ContextRow /\ Row(kind).kind = kind /\ ~ Row(kind).hidden
BY DEF Row, ContextRow

\* Items stay what they are while messages only grow.
LEMMA QueueStays ==
    ASSUME ContextInv, NEW row \in ContextRow, messages' = Append(messages, row)
    PROVE  \A i : IsItem(messages, i) => IsItem(messages', i)
<1>1. \A i \in DOMAIN messages : i \in DOMAIN messages' /\ messages'[i] = messages[i]
  BY RowAppended DEF ContextInv
<1> QED  BY <1>1 DEF IsItem

LEMMA PostMessageStep ==
    ASSUME ContextInv, PostMessage
    PROVE  ContextInv'
<1> DEFINE row == Row("user")
           n == Len(messages) + 1
<1>1. /\ messages' = Append(messages, row) /\ queue' = Append(queue, n)
      /\ UNCHANGED <<tail, checkpoint, turn>>
  BY DEF PostMessage
<1>2. row \in ContextRow /\ row.kind = "user" /\ ~ row.hidden  BY RowsAre
<1>3. n \in Nat /\ queue \in Seq(Nat)  BY ContextRows DEF ContextInv, ContextTyped
<1>n. n = Len(messages) + 1  OBVIOUS
<1> HIDE DEF row, n
<1>4. /\ queue' \in Seq(Nat) /\ Len(queue') = Len(queue) + 1 /\ queue'[Len(queue) + 1] = n
      /\ \A q \in 1 .. Len(queue) : queue'[q] = queue[q]
  BY <1>1, <1>3, AppendProperties
<1>5. \A i : IsItem(messages, i) => IsItem(messages', i)  BY <1>1, <1>2, QueueStays
<1>6. \A q \in DOMAIN queue : IsItem(messages, queue[q])  BY DEF ContextInv, ItemsAsked
<1>7. ASSUME NEW q \in DOMAIN queue'
      PROVE  IsItem(messages', queue'[q]) \/ (queue'[q] = Len(messages) + 1 /\ row.kind = "user")
  <2>1. q \in 1 .. Len(queue) \/ q = Len(queue) + 1  BY <1>3, <1>4, <1>7
  <2>2. CASE q \in 1 .. Len(queue)
    <3>1. queue'[q] = queue[q] /\ q \in DOMAIN queue  BY <2>2, <1>3, <1>4
    <3>2. IsItem(messages, queue[q])  BY <3>1, <1>6
    <3> QED  BY <3>1, <3>2, <1>5
  <2>3. CASE q = Len(queue) + 1  BY <2>3, <1>2, <1>4, <1>n
  <2> QED  BY <2>1, <2>2, <2>3
<1> QED  BY <1>1, <1>2, <1>4, <1>7, GrowStep

LEMMA EndTurnStep ==
    ASSUME ContextInv, EndTurn
    PROVE  ContextInv'
<1>1. turn' = NoTurn /\ UNCHANGED <<tail, checkpoint, queue>>  BY DEF EndTurn
<1>2. ContextTyped /\ PointTrue /\ ItemsAsked  BY DEF ContextInv
<1>3. CASE UNCHANGED messages
  <2>1. ContextTyped'  BY <1>1, <1>2, <1>3 DEF ContextTyped
  <2>2. ItemsAsked'  BY <1>1, <1>2, <1>3 DEF ItemsAsked, IsItem
  <2>3. PointTrue'  BY <1>1, <1>2, <1>3 DEF PointTrue, ShownRows, Replies
  <2>4. TurnTrue'  BY <1>1 DEF TurnTrue
  <2> QED  BY <2>1, <2>2, <2>3, <2>4 DEF ContextInv
<1>4. ASSUME NEW kind \in {"reply", "failure"}, messages' = Append(messages, Row(kind))
      PROVE  ContextInv'
  <2> DEFINE row == Row(kind)
  <2>1. row \in ContextRow /\ ~ row.hidden  BY RowsAre
  <2>2. messages' = Append(messages, row)  BY <1>4
  <2> HIDE DEF row
  <2>3. \A i : IsItem(messages, i) => IsItem(messages', i)  BY <2>1, <2>2, QueueStays
  <2>4. queue' \in Seq(Nat)  BY <1>1, <1>2 DEF ContextTyped
  <2>5. \A q \in DOMAIN queue' : IsItem(messages', queue'[q])
    BY <1>1, <1>2, <2>3 DEF ItemsAsked
  <2> QED  BY <1>1, <2>1, <2>2, <2>4, <2>5, GrowStep
<1> QED  BY <1>3, <1>4 DEF EndTurn

\* Steps that change neither what was said nor what is told of it.
LEMMA QueueStep ==
    ASSUME ContextInv, UNCHANGED <<messages, tail, checkpoint, turn>>,
           queue' = queue \/ queue' = Append(queue, Answer)
    PROVE  ContextInv'
<1>1. ContextTyped /\ PointTrue /\ ItemsAsked /\ TurnTrue  BY DEF ContextInv
<1>2. queue \in Seq(Nat)  BY <1>1 DEF ContextTyped
<1>3. queue' \in Seq(Nat) /\ \A q \in DOMAIN queue' : IsItem(messages, queue'[q])
  <2>1. CASE queue' = queue  BY <2>1, <1>1, <1>2 DEF ItemsAsked
  <2>2. CASE queue' = Append(queue, Answer)
    <3>1. Answer \in Nat /\ IsItem(messages, Answer)  BY DEF Answer, IsItem
    <3>2. /\ queue' \in Seq(Nat) /\ Len(queue') = Len(queue) + 1
          /\ queue'[Len(queue) + 1] = Answer
          /\ \A q \in 1 .. Len(queue) : queue'[q] = queue[q]
      BY <2>2, <3>1, <1>2, AppendProperties
    <3>3. ASSUME NEW q \in DOMAIN queue' PROVE IsItem(messages, queue'[q])
      <4>1. q \in 1 .. Len(queue) \/ q = Len(queue) + 1  BY <1>2, <3>2
      <4>2. CASE q \in 1 .. Len(queue)
        <5>1. queue'[q] = queue[q] /\ q \in DOMAIN queue  BY <4>2, <1>2, <3>2
        <5> QED  BY <5>1, <1>1 DEF ItemsAsked
      <4> QED  BY <4>1, <4>2, <3>1, <3>2
    <3> QED  BY <3>2, <3>3
  <2> QED  BY <2>1, <2>2
<1>4. ContextTyped'  BY <1>1, <1>3 DEF ContextTyped
<1>5. ItemsAsked'  BY <1>1, <1>3 DEF ItemsAsked, IsItem
<1>6. PointTrue' /\ TurnTrue'  BY <1>1 DEF PointTrue, TurnTrue, ShownRows, Replies
<1> QED  BY <1>4, <1>5, <1>6 DEF ContextInv

LEMMA ClearCommitStep ==
    ASSUME ContextInv, ClearCommit
    PROVE  ContextInv'
<1>1. UNCHANGED <<queue, turn>>  BY DEF ClearCommit
<1>2. CASE clearing # "fresh"
  <2>1. UNCHANGED <<messages, tail, checkpoint>>  BY <1>2 DEF ClearCommit
  <2> QED  BY <2>1, <1>1, QueueStep
<1>3. CASE clearing = "fresh"
  <2> DEFINE row == Row("reset")
             n == Len(messages) + 1
  <2>1. messages' = Append(messages, row) /\ tail' = n /\ checkpoint' = NoCheckpoint
    BY <1>3 DEF ClearCommit
  <2>2. row \in ContextRow /\ row.kind = "reset" /\ ~ row.hidden  BY RowsAre
  <2>n. n = Len(messages) + 1  OBVIOUS
  <2> HIDE DEF row
  <2>3. ContextTyped /\ ItemsAsked /\ TurnTrue  BY DEF ContextInv
  <2>4. /\ messages' \in Seq(ContextRow) /\ DOMAIN messages' = DOMAIN messages \cup {n}
        /\ n \in Nat /\ n > 0 /\ n \notin DOMAIN messages /\ messages'[n] = row
        /\ \A i \in DOMAIN messages : messages'[i] = messages[i] /\ i < n
    BY <2>1, <2>2, <2>3, RowAppended
  <2>5. \A i : IsItem(messages, i) => IsItem(messages', i)  BY <2>1, <2>2, QueueStays
  <2>6. Len(messages') \in Nat  BY <2>4
  <2>7. \A i \in DOMAIN messages : i \in Nat  BY <2>3, ContextRows
  <2> HIDE DEF n
  <2>8. checkpoint' \in ContextPoint /\ checkpoint'.through = 0 /\ checkpoint'.covered = {}
    BY <2>1 DEF NoCheckpoint, ContextPoint
  <2>9. ContextTyped'  BY <1>1, <2>1, <2>3, <2>4, <2>8 DEF ContextTyped
  <2>10. ItemsAsked'
    <3>1. \A q \in DOMAIN queue' : IsItem(messages', queue'[q])
      BY <1>1, <2>3, <2>5 DEF ItemsAsked
    <3>2. turn' # NoTurn => IsItem(messages', turn'.item)  BY <1>1, <2>3, <2>5 DEF ItemsAsked
    <3> QED  BY <3>1, <3>2 DEF ItemsAsked
  <2>11. ShownRows \subseteq ShownRows'  BY <2>4 DEF ShownRows
  <2>12. Replies' = {}
    <3>1. ASSUME NEW i \in Replies' PROVE FALSE
      <4>1. i \in DOMAIN messages' /\ messages'[i].kind = "reply" /\ i >= n
        BY <2>1 DEF Replies, ShownRows
      <4>2. i = n  BY <4>1, <2>4, <2>7
      <4> QED  BY <4>1, <4>2, <2>2, <2>4
    <3> QED  BY <3>1
  <2>13. PointTrue'  BY <2>6, <2>8, <2>12 DEF PointTrue
  <2>14. TurnTrue'  BY <1>1, <2>3, <2>11, <2>12 DEF TurnTrue
  <2> QED  BY <2>9, <2>10, <2>13, <2>14 DEF ContextInv
<1> QED  BY <1>2, <1>3

LEMMA ResendStep ==
    ASSUME ContextInv, NEW m \in DOMAIN messages, Resend(m)
    PROVE  ContextInv'
<1> DEFINE n == Len(messages) + 1
           row == Row("user")
           cut == [i \in DOMAIN messages |->
                     [messages[i] EXCEPT !.hidden = messages[i].hidden \/ i >= m]]
<1>1. /\ messages' = Append(cut, row) /\ tail' = IF tail >= m THEN 0 ELSE tail
      /\ checkpoint' = NoCheckpoint /\ queue' = <<n>> /\ turn' = NoTurn
  BY DEF Resend, AfterRewind
<1>2. ContextTyped  BY DEF ContextInv
<1>3. row \in ContextRow /\ row.kind = "user" /\ ~ row.hidden  BY RowsAre
<1>4. messages \in Seq(ContextRow) /\ Len(messages) \in Nat /\ DOMAIN messages = 1 .. Len(messages)
  BY <1>2, ContextRows DEF ContextTyped
<1>5. \A i \in DOMAIN messages : cut[i] \in ContextRow
  <2>1. ASSUME NEW r \in ContextRow, NEW h \in BOOLEAN PROVE [r EXCEPT !.hidden = h] \in ContextRow
    BY <2>1 DEF ContextRow
  <2>2. \A i \in DOMAIN messages : (messages[i].hidden \/ i >= m) \in BOOLEAN
                                    /\ messages[i] \in ContextRow
    BY <1>2, ContextRows DEF ContextRow
  <2> QED  BY <2>1, <2>2
<1>6. cut \in Seq(ContextRow) /\ Len(cut) = Len(messages)
  <2>1. cut \in [1 .. Len(messages) -> ContextRow]  BY <1>4, <1>5
  <2> HIDE DEF cut
  <2> QED  BY <2>1, <1>4, SeqDef, LenProperties
<1>n. n = Len(messages) + 1 /\ n \in Nat /\ n > 0  BY <1>4
<1> HIDE DEF cut, row, n
<1>7. /\ messages' \in Seq(ContextRow) /\ Len(messages') = n /\ messages'[n] = row
  BY <1>1, <1>3, <1>6, <1>n, AppendProperties
<1>8. n \in DOMAIN messages'  BY <1>7, <1>n
<1>9. checkpoint' \in ContextPoint /\ checkpoint'.through = 0 /\ checkpoint'.covered = {}
  BY <1>1 DEF NoCheckpoint, ContextPoint
<1>10. ContextTyped'
  <2>1. tail' \in Nat  BY <1>1, <1>2 DEF ContextTyped
  <2>2. queue' \in Seq(Nat)  BY <1>1, <1>n
  <2> QED  BY <2>1, <2>2, <1>1, <1>7, <1>9 DEF ContextTyped
<1>11. ItemsAsked'
  <2>1. IsItem(messages', n)  BY <1>3, <1>7, <1>8 DEF IsItem
  <2>2. \A q \in DOMAIN queue' : queue'[q] = n  BY <1>1
  <2> QED  BY <2>1, <2>2, <1>1 DEF ItemsAsked
<1>12. PointTrue'
  <2>1. \A i \in Replies' : ~ (i <= 0)
    <3>1. DOMAIN messages' = 1 .. n  BY <1>7
    <3> QED  BY <3>1, <1>n DEF Replies, ShownRows
  <2>2. Len(messages') \in Nat  BY <1>7, <1>n
  <2> QED  BY <2>1, <2>2, <1>9 DEF PointTrue
<1>13. TurnTrue'  BY <1>1 DEF TurnTrue
<1> QED  BY <1>10, <1>11, <1>12, <1>13 DEF ContextInv

LEMMA ContextStarts == ContextInit => ContextInv
<1> SUFFICES ASSUME ContextInit PROVE ContextInv
  OBVIOUS
<1>1. /\ messages = <<>> /\ tail = 0 /\ queue = <<>> /\ turn = NoTurn
      /\ checkpoint = [through |-> 0, covered |-> {}]
  BY DEF ContextInit, NoCheckpoint
<1>2. ContextTyped  BY <1>1 DEF ContextTyped, ContextPoint
<1>3. ShownRows = {} /\ Replies = {} /\ Len(messages) = 0  BY <1>1 DEF ShownRows, Replies
<1>4. ItemsAsked /\ TurnTrue  BY <1>1 DEF ItemsAsked, TurnTrue
<1>5. PointTrue  BY <1>1, <1>3 DEF PointTrue
<1> QED  BY <1>2, <1>4, <1>5 DEF ContextInv

LEMMA ContextSteps == ContextInv /\ [ContextNext]_contextVars => ContextInv'
<1> SUFFICES ASSUME ContextInv, [ContextNext]_contextVars PROVE ContextInv'
  OBVIOUS
<1>1. CASE PostMessage  BY <1>1, PostMessageStep
<1>2. CASE \E rebase \in BOOLEAN : Begin(rebase)  BY <1>2, BeginStep
<1>3. CASE Compact  BY <1>3, CompactStep
<1>4. CASE BuildAgain  BY <1>4, BuildAgainStep
<1>5. CASE EndTurn  BY <1>5, EndTurnStep
<1>6. CASE Ask  BY <1>6, QueueStep DEF Ask
<1>7. CASE AnswerQuestion  BY <1>7, QueueStep DEF AnswerQuestion
<1>8. CASE ClearIdle  BY <1>8, QueueStep DEF ClearIdle
<1>9. CASE ClearCommit  BY <1>9, ClearCommitStep
<1>10. CASE \E m \in DOMAIN messages : Resend(m)  BY <1>10, ResendStep
<1>11. CASE UNCHANGED contextVars  BY <1>11, QueueStep DEF contextVars
<1> QED  BY <1>1, <1>2, <1>3, <1>4, <1>5, <1>6, <1>7, <1>8, <1>9, <1>10, <1>11 DEF ContextNext

\* The invariant of the context: a summary covers the replies up to its boundary and
\* nothing that is hidden, and a history that is told begins where its summary ends.
THEOREM ContextInvariant == ContextSpec => []ContextInv
BY ContextStarts, ContextSteps, PTL DEF ContextSpec

LEMMA ContextTells == ContextInv => ToldOnce
<1> SUFFICES ASSUME ContextInv PROVE ToldOnce
  OBVIOUS
<1>1. ContextTyped /\ PointTrue /\ TurnTrue  BY DEF ContextInv
<1>2. Told => turn # NoTurn  BY DEF Told, NoTurn
<1>3. RepliesOnce
  <2>1. ASSUME Told PROVE \A i \in Replies : (i \in turn.covered) # (i \in turn.history)
    BY <2>1, <1>1, <1>2 DEF TurnTrue, Told
  <2> QED  BY <2>1 DEF RepliesOnce, Replies, ShownRows
<1>4. RewoundForgotten
  <2>1. turn # NoTurn => turn.covered \cup turn.history \subseteq ShownRows
    BY <1>1 DEF TurnTrue
  <2>2. checkpoint.covered \subseteq ShownRows  BY <1>1 DEF PointTrue
  <2> QED  BY <2>1, <2>2 DEF RewoundForgotten, ShownRows
<1> QED  BY <1>3, <1>4 DEF ToldOnce

\* The model is told every reply of the conversation, from the history or from the
\* summary and never from both, and nothing that a rewind has hidden (build,
\* ReplaceHistory, applyConversationRewind).
THEOREM RepliesAreToldOnce == ContextSpec => []ToldOnce
BY ContextInvariant, ContextTells, PTL

-----------------------------------------------------------------------------
(* UserMemory: the inductive invariant. *)

PostRow == [at : Nat, asked : Nat, hidden : BOOLEAN]
QuestionRow == [answered : BOOLEAN, void : BOOLEAN, root : Nat]
GroundRow == [kind : {"user_message", "decision_answer"}, id : Nat]
MemoryRow == [kind : {"correction", "habit"}, ground : GroundRow, first : GroundRow,
              created : Nat, confirmed : Nat, used : Nat, revised : Nat,
              author : {"agent", "user"}]

\* A ground is a message or a question there is, and goes back to a message.
RootOf(asks, g) == IF g.kind = "user_message" THEN g.id ELSE asks[g.id].root
Real(said, asks, g) ==
    /\ g \in GroundRow
    /\ IF g.kind = "user_message" THEN g.id \in DOMAIN said ELSE g.id \in DOMAIN asks
    /\ RootOf(asks, g) \in DOMAIN said
Seen(said, asks, g) == said[RootOf(asks, g)].hidden = FALSE

\* Messages have the order of their times and of the questions before them.
PostsTrue ==
    /\ now \in Nat /\ posts \in Seq(PostRow)
    /\ \A i \in DOMAIN posts : posts[i].at <= now /\ posts[i].asked <= Len(questions)
    /\ \A i, j \in DOMAIN posts :
         i <= j => posts[i].at <= posts[j].at /\ posts[i].asked <= posts[j].asked

\* A question comes after the message whose turn asked it, and one that can be
\* answered goes with that message.
AskedAfter(said, asks, q) ==
    /\ asks[q].root \in DOMAIN said /\ said[asks[q].root].asked < q
    /\ (asks[q].answered = FALSE /\ asks[q].void = FALSE) => said[asks[q].root].hidden = FALSE
QuestionsTrue ==
    /\ questions \in Seq(QuestionRow)
    /\ \A q \in DOMAIN questions : AskedAfter(posts, questions, q)

\* A turn in the queue rests on what the user still sees.
GroundsTrue ==
    /\ grounds \in Seq(GroundRow)
    /\ \A t \in DOMAIN grounds :
         Real(posts, questions, grounds[t]) /\ Seen(posts, questions, grounds[t])

\* A memory was made after the message of its first ground; when the ground it
\* has now was taken back and the first was not, it goes back to a later message.
MemoryTrue(said, asks, time, m) ==
    /\ m \in MemoryRow /\ m.created <= time /\ m.confirmed <= time
    /\ Real(said, asks, m.first) /\ Real(said, asks, m.ground)
    /\ said[RootOf(asks, m.first)].at <= m.created
    /\ (Seen(said, asks, m.first) /\ ~ Seen(said, asks, m.ground))
         => RootOf(asks, m.first) <= RootOf(asks, m.ground)
MemoriesTrue == \A k \in DOMAIN memories : MemoryTrue(posts, questions, now, memories[k])

\* Of a row that is confirmed when the page says, the page shows author and ground.
AsShown(m, shown) ==
    m.confirmed = shown.confirmed => m.author = shown.author /\ m.ground = shown.ground
PageTrue ==
    /\ \A k \in DOMAIN page : page[k].confirmed \in Nat /\ page[k].confirmed <= now
    /\ \A k \in DOMAIN memories \cap DOMAIN page : AsShown(memories[k], page[k])

MemoryInv == PostsTrue /\ QuestionsTrue /\ GroundsTrue /\ MemoriesTrue /\ PageTrue

-----------------------------------------------------------------------------
(* UserMemory: what stays true. *)

LEMMA RootIs ==
    ASSUME NEW g
    PROVE  /\ RootOf(questions, g) = Root(g)
           /\ posts[Root(g)].hidden \in BOOLEAN => (Seen(posts, questions, g) <=> Visible(g))
BY DEF RootOf, Root, Seen, Visible

LEMMA PostsAre ==
    ASSUME PostsTrue
    PROVE  /\ now \in Nat /\ Len(posts) \in Nat /\ DOMAIN posts = 1 .. Len(posts)
           /\ \A i \in DOMAIN posts : /\ posts[i] \in PostRow /\ i \in Nat
                                      /\ posts[i].at \in Nat /\ posts[i].asked \in Nat
                                      /\ posts[i].hidden \in BOOLEAN
<1>1. posts \in Seq(PostRow) /\ now \in Nat  BY DEF PostsTrue
<1>2. \A i \in DOMAIN posts : posts[i] \in PostRow /\ i \in Nat  BY <1>1
<1>3. Len(posts) \in Nat /\ DOMAIN posts = 1 .. Len(posts)  BY <1>1
<1>4. \A r \in PostRow : r.at \in Nat /\ r.asked \in Nat /\ r.hidden \in BOOLEAN  BY DEF PostRow
<1> QED  BY <1>1, <1>2, <1>3, <1>4

LEMMA QuestionsAre ==
    ASSUME QuestionsTrue
    PROVE  /\ Len(questions) \in Nat /\ DOMAIN questions = 1 .. Len(questions)
           /\ \A q \in DOMAIN questions :
                /\ questions[q] \in QuestionRow /\ q \in Nat /\ questions[q].root \in Nat
                /\ questions[q].answered \in BOOLEAN /\ questions[q].void \in BOOLEAN
<1>1. questions \in Seq(QuestionRow)  BY DEF QuestionsTrue
<1>2. \A q \in DOMAIN questions : questions[q] \in QuestionRow /\ q \in Nat  BY <1>1
<1>3. Len(questions) \in Nat /\ DOMAIN questions = 1 .. Len(questions)  BY <1>1
<1>4. \A r \in QuestionRow : r.root \in Nat /\ r.answered \in BOOLEAN /\ r.void \in BOOLEAN
  BY DEF QuestionRow
<1> QED  BY <1>2, <1>3, <1>4

Longer(said, asks, more, many) ==
    /\ DOMAIN said \subseteq DOMAIN more /\ DOMAIN asks \subseteq DOMAIN many
    /\ \A q \in DOMAIN asks : many[q].root = asks[q].root
SameSeen(said, more) ==
    \A i \in DOMAIN said : more[i].at = said[i].at /\ more[i].hidden = said[i].hidden

\* A ground stays real, and goes back to the same message, while messages and
\* questions are only added.
LEMMA RealStays ==
    ASSUME NEW said, NEW asks, NEW more, NEW many, NEW g, Real(said, asks, g),
           Longer(said, asks, more, many)
    PROVE  Real(more, many, g) /\ RootOf(many, g) = RootOf(asks, g)
BY DEF Real, RootOf, Longer

LEMMA MemoryStays ==
    ASSUME NEW said, NEW asks, NEW more, NEW many, NEW m, NEW time \in Nat, NEW later \in Nat,
           MemoryTrue(said, asks, time, m), time <= later,
           Longer(said, asks, more, many), SameSeen(said, more)
    PROVE  MemoryTrue(more, many, later, m)
<1>1. Real(said, asks, m.first) /\ Real(said, asks, m.ground)  BY DEF MemoryTrue
<1>s. ASSUME NEW g, Real(said, asks, g)
      PROVE  Real(more, many, g) /\ RootOf(many, g) = RootOf(asks, g)
  BY <1>s, RealStays
<1>2. Real(more, many, m.first) /\ RootOf(many, m.first) = RootOf(asks, m.first)
  BY <1>1, <1>s
<1>3. Real(more, many, m.ground) /\ RootOf(many, m.ground) = RootOf(asks, m.ground)
  BY <1>1, <1>s
<1>4. /\ more[RootOf(many, m.first)].at = said[RootOf(asks, m.first)].at
      /\ more[RootOf(many, m.first)].hidden = said[RootOf(asks, m.first)].hidden
      /\ more[RootOf(many, m.ground)].hidden = said[RootOf(asks, m.ground)].hidden
  BY <1>1, <1>2, <1>3 DEF Real, SameSeen
<1>5. Seen(more, many, m.first) <=> Seen(said, asks, m.first)  BY <1>4 DEF Seen
<1>6. Seen(more, many, m.ground) <=> Seen(said, asks, m.ground)  BY <1>4 DEF Seen
<1>7. m \in MemoryRow /\ m.created <= later /\ m.confirmed <= later
  <2>1. m \in MemoryRow /\ m.created <= time /\ m.confirmed <= time  BY DEF MemoryTrue
  <2>2. m.created \in Nat /\ m.confirmed \in Nat  BY <2>1 DEF MemoryRow
  <2> QED  BY <2>1, <2>2
<1>8. more[RootOf(many, m.first)].at <= m.created  BY <1>4 DEF MemoryTrue
<1>9. (Seen(more, many, m.first) /\ ~ Seen(more, many, m.ground))
        => RootOf(many, m.first) <= RootOf(many, m.ground)
  BY <1>2, <1>3, <1>5, <1>6 DEF MemoryTrue
<1> QED  BY <1>2, <1>3, <1>7, <1>8, <1>9 DEF MemoryTrue

\* The conversation grows and time goes on: what the queue, the memories and the
\* page say stays true, if what was added to the queue is.
LEMMA GrownStep ==
    ASSUME MemoryInv, PostsTrue', QuestionsTrue', now <= now',
           Longer(posts, questions, posts', questions'), SameSeen(posts, posts'),
           UNCHANGED <<memories, page>>,
           grounds' \in Seq(GroundRow),
           \A t \in DOMAIN grounds' :
               \/ \E u \in DOMAIN grounds : grounds'[t] = grounds[u]
               \/ Real(posts', questions', grounds'[t]) /\ Seen(posts', questions', grounds'[t])
    PROVE  MemoryInv'
<1>1. PostsTrue /\ QuestionsTrue /\ GroundsTrue /\ MemoriesTrue /\ PageTrue  BY DEF MemoryInv
<1>2. now \in Nat /\ now' \in Nat  BY <1>1 DEF PostsTrue
<1>3. GroundsTrue'
  <2>1. ASSUME NEW g, Real(posts, questions, g), Seen(posts, questions, g)
        PROVE  Real(posts', questions', g) /\ Seen(posts', questions', g)
    <3>1. Real(posts', questions', g) /\ RootOf(questions', g) = RootOf(questions, g)
      BY <2>1, RealStays
    <3>2. posts'[RootOf(questions', g)].hidden = posts[RootOf(questions, g)].hidden
      BY <2>1, <3>1 DEF Real, SameSeen
    <3> QED  BY <2>1, <3>1, <3>2 DEF Seen
  <2>2. \A t \in DOMAIN grounds' :
          Real(posts', questions', grounds'[t]) /\ Seen(posts', questions', grounds'[t])
    BY <1>1, <2>1 DEF GroundsTrue
  <2> QED  BY <2>2 DEF GroundsTrue
<1>4. MemoriesTrue'
  <2>1. ASSUME NEW k \in DOMAIN memories PROVE MemoryTrue(posts', questions', now', memories[k])
    <3>1. MemoryTrue(posts, questions, now, memories[k])  BY <1>1 DEF MemoriesTrue
    <3> QED  BY <3>1, <1>2, MemoryStays
  <2> QED  BY <2>1 DEF MemoriesTrue
<1>5. PageTrue'
  <2>1. \A k \in DOMAIN page : page[k].confirmed \in Nat /\ page[k].confirmed <= now'
    BY <1>1, <1>2 DEF PageTrue
  <2> QED  BY <2>1, <1>1 DEF PageTrue
<1> QED  BY <1>3, <1>4, <1>5 DEF MemoryInv

-----------------------------------------------------------------------------
(* UserMemory: the steps of the conversation. *)

\* A message is added to the messages, of which a rewind may have hidden some.
LEMMA PostAdded ==
    ASSUME PostsTrue, NEW said \in Seq(PostRow), Len(said) = Len(posts),
           \A i \in DOMAIN posts : said[i].at = posts[i].at /\ said[i].asked = posts[i].asked,
           now' = now + 1, Len(questions) \in Nat, Len(questions') = Len(questions),
           posts' = Append(said, [at |-> now', asked |-> Len(questions), hidden |-> FALSE])
    PROVE  LET n == Len(posts) + 1 IN
           /\ PostsTrue' /\ DOMAIN posts' = DOMAIN posts \cup {n}
           /\ n \in Nat /\ n \notin DOMAIN posts
           /\ posts'[n].hidden = FALSE /\ \A i \in DOMAIN posts : posts'[i] = said[i]
<1> DEFINE n == Len(posts) + 1
           row == [at |-> now', asked |-> Len(questions), hidden |-> FALSE]
<1>1. /\ now \in Nat /\ Len(posts) \in Nat /\ DOMAIN posts = 1 .. Len(posts)
      /\ \A i \in DOMAIN posts : posts[i].at \in Nat /\ posts[i].asked \in Nat
  BY PostsAre
<1>2. now' \in Nat /\ now < now'  BY <1>1
<1>3. row \in PostRow /\ row.at = now' /\ row.asked = Len(questions) /\ row.hidden = FALSE
  BY <1>2 DEF PostRow
<1>4. posts' = Append(said, row)  OBVIOUS
<1>n. n = Len(posts) + 1 /\ n \in Nat  BY <1>1
<1> HIDE DEF row, n
<1>5. /\ posts' \in Seq(PostRow) /\ Len(posts') = n /\ posts'[n] = row
      /\ \A i \in 1 .. Len(said) : posts'[i] = said[i]
  <2> DEFINE longer == Append(said, row)
  <2>1. /\ longer \in Seq(PostRow) /\ Len(longer) = Len(said) + 1 /\ longer[Len(said) + 1] = row
        /\ \A i \in 1 .. Len(said) : longer[i] = said[i]
    BY <1>3, AppendProperties
  <2>2. posts' = longer  BY <1>4
  <2> HIDE DEF longer
  <2>3. Len(said) + 1 = n  BY <1>n
  <2> QED  BY <2>1, <2>2, <2>3
<1>6. /\ DOMAIN posts' = DOMAIN posts \cup {n} /\ n \notin DOMAIN posts
      /\ \A i \in DOMAIN posts : posts'[i] = said[i] /\ i <= n /\ i # n /\ i \in Nat
  BY <1>1, <1>5, <1>n
<1>7. /\ posts'[n].at = now' /\ posts'[n].asked = Len(questions)
      /\ \A i \in DOMAIN posts : posts'[i].at = posts[i].at /\ posts'[i].asked = posts[i].asked
  BY <1>3, <1>5, <1>6
<1>8. \A i \in DOMAIN posts : posts[i].at <= now /\ posts[i].asked <= Len(questions)
  BY DEF PostsTrue
<1>9. \A i \in DOMAIN posts' : posts'[i].at <= now' /\ posts'[i].asked <= Len(questions')
  <2>1. \A i \in DOMAIN posts : posts'[i].at <= now' /\ posts'[i].asked <= Len(questions')
    BY <1>1, <1>2, <1>7, <1>8
  <2> QED  BY <2>1, <1>2, <1>6, <1>7
<1>10. ASSUME NEW i \in DOMAIN posts', NEW j \in DOMAIN posts', i <= j
       PROVE  posts'[i].at <= posts'[j].at /\ posts'[i].asked <= posts'[j].asked
  <2>1. CASE j = n  BY <2>1, <1>7, <1>9
  <2>2. CASE j \in DOMAIN posts
    <3>1. i \in DOMAIN posts  BY <2>2, <1>1, <1>6, <1>10, <1>n
    <3> QED  BY <2>2, <3>1, <1>7, <1>10 DEF PostsTrue
  <2> QED  BY <2>1, <2>2, <1>6
<1>11. PostsTrue'  BY <1>2, <1>5, <1>9, <1>10 DEF PostsTrue
<1> QED  BY <1>3, <1>5, <1>6, <1>11, <1>n DEF n

\* A turn is added to the queue.
LEMMA GroundAdded ==
    ASSUME GroundsTrue, NEW g \in GroundRow, grounds' = Append(grounds, g),
           Real(posts', questions', g), Seen(posts', questions', g)
    PROVE  /\ grounds' \in Seq(GroundRow)
           /\ \A t \in DOMAIN grounds' :
                \/ \E u \in DOMAIN grounds : grounds'[t] = grounds[u]
                \/ Real(posts', questions', grounds'[t]) /\ Seen(posts', questions', grounds'[t])
<1>1. grounds \in Seq(GroundRow)  BY DEF GroundsTrue
<1>2. /\ grounds' \in Seq(GroundRow) /\ Len(grounds') = Len(grounds) + 1
      /\ grounds'[Len(grounds) + 1] = g
      /\ \A t \in 1 .. Len(grounds) : grounds'[t] = grounds[t]
  BY <1>1, AppendProperties
<1>3. ASSUME NEW t \in DOMAIN grounds'
      PROVE  \/ \E u \in DOMAIN grounds : grounds'[t] = grounds[u]
             \/ Real(posts', questions', grounds'[t]) /\ Seen(posts', questions', grounds'[t])
  <2>1. t \in 1 .. Len(grounds) \/ t = Len(grounds) + 1  BY <1>1, <1>2
  <2>2. CASE t \in 1 .. Len(grounds)
    <3>1. t \in DOMAIN grounds /\ grounds'[t] = grounds[t]  BY <2>2, <1>1, <1>2
    <3> QED  BY <3>1
  <2>3. CASE t = Len(grounds) + 1
    <3>1. grounds'[t] = g  BY <2>3, <1>2
    <3> QED  BY <3>1
  <2> QED  BY <2>1, <2>2, <2>3
<1> QED  BY <1>2, <1>3

\* The ground of the running turn.
LEMMA GroundIs ==
    ASSUME GroundsTrue, ~ Quiet
    PROVE  Ground \in GroundRow /\ Real(posts, questions, Ground) /\ Seen(posts, questions, Ground)
<1>1. grounds \in Seq(GroundRow) /\ grounds # <<>>  BY DEF GroundsTrue, Quiet
<1>2. 1 \in DOMAIN grounds /\ Ground = grounds[1]  BY <1>1 DEF Ground
<1> QED  BY <1>2 DEF GroundsTrue, Real

LEMMA MessageIs ==
    ASSUME NEW i \in Nat, NEW said, NEW asks, i \in DOMAIN said
    PROVE  /\ Message(i) \in GroundRow /\ Real(said, asks, Message(i))
           /\ RootOf(asks, Message(i)) = i /\ Message(i).kind = "user_message"
BY DEF Message, GroundRow, Real, RootOf

LEMMA DecisionIs ==
    ASSUME NEW q \in Nat, NEW said, NEW asks, q \in DOMAIN asks, asks[q].root \in DOMAIN said
    PROVE  /\ Decision(q) \in GroundRow /\ Real(said, asks, Decision(q))
           /\ RootOf(asks, Decision(q)) = asks[q].root
BY DEF Decision, GroundRow, Real, RootOf

LEMMA PostStep ==
    ASSUME MemoryInv, Post
    PROVE  MemoryInv'
<1> DEFINE n == Len(posts) + 1
           g == Message(n)
<1>1. /\ now' = now + 1 /\ grounds' = Append(grounds, g) /\ UNCHANGED <<questions, memories, page>>
      /\ posts' = Append(posts, [at |-> now', asked |-> Len(questions), hidden |-> FALSE])
  BY DEF Post, Clock, Posted
<1>2. PostsTrue /\ QuestionsTrue /\ GroundsTrue  BY DEF MemoryInv
<1>3. posts \in Seq(PostRow) /\ Len(questions) \in Nat /\ now \in Nat
  BY <1>2, QuestionsAre DEF PostsTrue
<1>4. /\ PostsTrue' /\ DOMAIN posts' = DOMAIN posts \cup {n} /\ n \in Nat
      /\ posts'[n].hidden = FALSE /\ \A i \in DOMAIN posts : posts'[i] = posts[i]
  BY <1>1, <1>2, <1>3, PostAdded
<1> HIDE DEF n
<1>5. /\ g \in GroundRow /\ Real(posts', questions', g) /\ RootOf(questions', g) = n
  BY <1>4, MessageIs
<1>6. Seen(posts', questions', g)  BY <1>4, <1>5 DEF Seen
<1> HIDE DEF g
<1>7. Longer(posts, questions, posts', questions') /\ SameSeen(posts, posts')
  BY <1>1, <1>4 DEF Longer, SameSeen
<1>8. QuestionsTrue'  BY <1>1, <1>2, <1>4 DEF QuestionsTrue, AskedAfter
<1>9. now <= now'  BY <1>1, <1>3
<1>10. /\ grounds' \in Seq(GroundRow)
       /\ \A t \in DOMAIN grounds' :
            \/ \E u \in DOMAIN grounds : grounds'[t] = grounds[u]
            \/ Real(posts', questions', grounds'[t]) /\ Seen(posts', questions', grounds'[t])
  BY <1>1, <1>2, <1>5, <1>6, GroundAdded
<1> QED  BY <1>1, <1>4, <1>7, <1>8, <1>9, <1>10, GrownStep

LEMMA AskStep ==
    ASSUME MemoryInv, AskDecision
    PROVE  MemoryInv'
<1> DEFINE r == Root(Ground)
           row == [answered |-> FALSE, void |-> FALSE, root |-> r]
           n == Len(questions) + 1
<1>1. /\ ~ Quiet /\ questions' = Append(questions, row)
      /\ UNCHANGED <<now, posts, grounds, memories, page>>
  BY DEF AskDecision
<1>2. PostsTrue /\ QuestionsTrue /\ GroundsTrue  BY DEF MemoryInv
<1>3. Real(posts, questions, Ground) /\ Seen(posts, questions, Ground)  BY <1>1, <1>2, GroundIs
<1>4. r \in DOMAIN posts /\ posts[r].hidden = FALSE
  <2>1. r = RootOf(questions, Ground)  BY RootIs
  <2> QED  BY <2>1, <1>3 DEF Real, Seen
<1>5. /\ r \in Nat /\ now \in Nat /\ posts[r].asked \in Nat
      /\ \A i \in DOMAIN posts : posts[i].asked \in Nat
  BY <1>2, <1>4, PostsAre
<1>6. row \in QuestionRow /\ row.root = r  BY <1>5 DEF QuestionRow
<1>7. /\ questions \in Seq(QuestionRow) /\ Len(questions) \in Nat
      /\ DOMAIN questions = 1 .. Len(questions)
  BY <1>2, QuestionsAre DEF QuestionsTrue
<1>n. n = Len(questions) + 1  OBVIOUS
<1> HIDE DEF row, r, n
<1>8. /\ questions' \in Seq(QuestionRow) /\ Len(questions') = n /\ questions'[n] = row
      /\ \A q \in 1 .. Len(questions) : questions'[q] = questions[q]
  BY <1>1, <1>6, <1>7, <1>n, AppendProperties
<1>9. DOMAIN questions' = DOMAIN questions \cup {n}  BY <1>7, <1>8, <1>n
<1>10. PostsTrue'
  <2>1. \A i \in DOMAIN posts : posts[i].asked <= Len(questions')
    BY <1>2, <1>5, <1>7, <1>8, <1>n DEF PostsTrue
  <2> QED  BY <2>1, <1>1, <1>2 DEF PostsTrue
<1>11. QuestionsTrue'
  <2>1. posts[r].asked < n  BY <1>2, <1>4, <1>5, <1>7, <1>n DEF PostsTrue
  <2>2. AskedAfter(posts, questions', n)
    <3>1. questions'[n].root = r  BY <1>6, <1>8
    <3> QED  BY <3>1, <2>1, <1>4 DEF AskedAfter
  <2>3. \A q \in DOMAIN questions : AskedAfter(posts, questions', q)
    BY <1>2, <1>7, <1>8 DEF QuestionsTrue, AskedAfter
  <2> QED  BY <2>2, <2>3, <1>1, <1>8, <1>9 DEF QuestionsTrue
<1>12. Longer(posts, questions, posts', questions') /\ SameSeen(posts, posts')
  BY <1>1, <1>7, <1>8, <1>9 DEF Longer, SameSeen
<1>13. grounds' \in Seq(GroundRow)
       /\ \A t \in DOMAIN grounds' : \E u \in DOMAIN grounds : grounds'[t] = grounds[u]
  BY <1>1, <1>2 DEF GroundsTrue
<1> QED  BY <1>1, <1>5, <1>10, <1>11, <1>12, <1>13, GrownStep

LEMMA AnswerStep ==
    ASSUME MemoryInv, NEW q \in DOMAIN questions, AnswerDecision(q)
    PROVE  MemoryInv'
<1> DEFINE row == [questions[q] EXCEPT !.answered = TRUE]
           g == Decision(q)
<1>1. /\ questions[q].answered = FALSE /\ questions[q].void = FALSE
      /\ questions' = [questions EXCEPT ![q] = row] /\ grounds' = Append(grounds, g)
      /\ UNCHANGED <<now, posts, memories, page>>
  <2>1. questions[q].answered \in BOOLEAN /\ questions[q].void \in BOOLEAN
    BY QuestionsAre DEF MemoryInv
  <2> QED  BY <2>1 DEF AnswerDecision
<1>2. PostsTrue /\ QuestionsTrue /\ GroundsTrue  BY DEF MemoryInv
<1>3. questions \in Seq(QuestionRow) /\ q \in Nat /\ questions[q] \in QuestionRow
  BY <1>2, QuestionsAre DEF QuestionsTrue
<1>4. row \in QuestionRow /\ row.root = questions[q].root /\ row.answered = TRUE
  BY <1>3 DEF QuestionRow
<1> HIDE DEF row
<1>5. /\ questions' \in Seq(QuestionRow) /\ Len(questions') = Len(questions)
      /\ DOMAIN questions' = DOMAIN questions /\ questions'[q] = row
      /\ \A p \in DOMAIN questions : p # q => questions'[p] = questions[p]
  BY <1>1, <1>3, <1>4
<1>6. \A p \in DOMAIN questions : questions'[p].root = questions[p].root  BY <1>4, <1>5
<1>7. PostsTrue'  BY <1>1, <1>2, <1>5 DEF PostsTrue
<1>8. QuestionsTrue'
  <2>1. AskedAfter(posts, questions', q)
    BY <1>2, <1>4, <1>5 DEF QuestionsTrue, AskedAfter
  <2>2. \A p \in DOMAIN questions : AskedAfter(posts, questions', p)
    BY <2>1, <1>2, <1>5 DEF QuestionsTrue, AskedAfter
  <2> QED  BY <2>2, <1>1, <1>5 DEF QuestionsTrue
<1>9. Longer(posts, questions, posts', questions') /\ SameSeen(posts, posts')
  BY <1>1, <1>5, <1>6 DEF Longer, SameSeen
<1>10. questions'[q].root \in DOMAIN posts' /\ posts'[questions'[q].root].hidden = FALSE
  BY <1>1, <1>2, <1>6 DEF QuestionsTrue, AskedAfter
<1>11. /\ g \in GroundRow /\ Real(posts', questions', g)
       /\ RootOf(questions', g) = questions'[q].root
  BY <1>3, <1>5, <1>10, DecisionIs
<1>12. Seen(posts', questions', g)  BY <1>10, <1>11 DEF Seen
<1> HIDE DEF g
<1>13. /\ grounds' \in Seq(GroundRow)
       /\ \A t \in DOMAIN grounds' :
            \/ \E u \in DOMAIN grounds : grounds'[t] = grounds[u]
            \/ Real(posts', questions', grounds'[t]) /\ Seen(posts', questions', grounds'[t])
  BY <1>1, <1>2, <1>11, <1>12, GroundAdded
<1>14. now <= now'
  BY <1>1, <1>2, PostsAre
<1> QED  BY <1>1, <1>7, <1>8, <1>9, <1>13, <1>14, GrownStep

-----------------------------------------------------------------------------
(* UserMemory: the steps that leave the conversation as it is. *)

LEMMA QuietStep ==
    ASSUME MemoryInv, UNCHANGED <<posts, questions>>, now' \in Nat, now <= now',
           grounds' = grounds \/ (~ Quiet /\ grounds' = Tail(grounds)),
           MemoriesTrue', PageTrue'
    PROVE  MemoryInv'
<1>1. PostsTrue /\ QuestionsTrue /\ GroundsTrue  BY DEF MemoryInv
<1>2. PostsTrue'
  <2>1. \A i \in DOMAIN posts : posts[i].at <= now'
    <3>1. now \in Nat /\ \A i \in DOMAIN posts : posts[i].at \in Nat /\ posts[i].at <= now
      BY <1>1, PostsAre DEF PostsTrue
    <3> QED  BY <3>1
  <2> QED  BY <2>1, <1>1 DEF PostsTrue
<1>3. QuestionsTrue'  BY <1>1 DEF QuestionsTrue, AskedAfter
<1>4. GroundsTrue'
  <2>1. CASE grounds' = grounds  BY <2>1, <1>1 DEF GroundsTrue
  <2>2. CASE ~ Quiet /\ grounds' = Tail(grounds)
    <3>1. grounds \in Seq(GroundRow) /\ grounds # <<>>  BY <2>2, <1>1 DEF GroundsTrue, Quiet
    <3>2. /\ grounds' \in Seq(GroundRow)
          /\ \A t \in DOMAIN grounds' : t + 1 \in DOMAIN grounds /\ grounds'[t] = grounds[t + 1]
      BY <2>2, <3>1
    <3> QED  BY <3>2, <1>1 DEF GroundsTrue
  <2> QED  BY <2>1, <2>2
<1> QED  BY <1>2, <1>3, <1>4 DEF MemoryInv

LEMMA MemoryIs ==
    ASSUME NEW m \in MemoryRow
    PROVE  /\ m.kind \in {"correction", "habit"} /\ m.ground \in GroundRow /\ m.first \in GroundRow
           /\ m.created \in Nat /\ m.confirmed \in Nat /\ m.used \in Nat /\ m.revised \in Nat
           /\ m.author \in {"agent", "user"}
BY DEF MemoryRow

\* What a memory says of itself apart from when it was used.
SameMemory(m, old) ==
    /\ m \in MemoryRow /\ m.first = old.first /\ m.ground = old.ground
    /\ m.created = old.created /\ m.confirmed = old.confirmed /\ m.author = old.author

LEMMA SameIsTrue ==
    ASSUME NEW said, NEW asks, NEW old, NEW m, NEW time \in Nat, NEW later \in Nat, time <= later,
           MemoryTrue(said, asks, time, old), SameMemory(m, old)
    PROVE  MemoryTrue(said, asks, later, m)
<1>1. /\ m \in MemoryRow /\ m.first = old.first /\ m.ground = old.ground
      /\ m.created = old.created /\ m.confirmed = old.confirmed
  BY DEF SameMemory
<1>2. m.created \in Nat /\ m.confirmed \in Nat  BY <1>1, MemoryIs
<1>3. m.created <= later /\ m.confirmed <= later
  <2>1. m.created <= time /\ m.confirmed <= time  BY <1>1 DEF MemoryTrue
  <2> QED  BY <2>1, <1>2
<1> QED  BY <1>1, <1>3 DEF MemoryTrue

\* Memories may go and be marked as used.
LEMMA KeepStep ==
    ASSUME MemoryInv, UNCHANGED <<posts, questions, page>>, now' \in Nat, now <= now',
           grounds' = grounds \/ (~ Quiet /\ grounds' = Tail(grounds)),
           DOMAIN memories' \subseteq DOMAIN memories,
           \A k \in DOMAIN memories' : SameMemory(memories'[k], memories[k])
    PROVE  MemoryInv'
<1>1. MemoriesTrue /\ PageTrue /\ PostsTrue  BY DEF MemoryInv
<1>2. now \in Nat  BY <1>1, PostsAre
<1>3. MemoriesTrue'
  <2>1. ASSUME NEW k \in DOMAIN memories' PROVE MemoryTrue(posts, questions, now', memories'[k])
    <3>1. MemoryTrue(posts, questions, now, memories[k])  BY <1>1 DEF MemoriesTrue
    <3> QED  BY <3>1, <1>2, SameIsTrue
  <2> QED  BY <2>1 DEF MemoriesTrue
<1>4. PageTrue'
  <2>1. \A k \in DOMAIN page : page[k].confirmed \in Nat /\ page[k].confirmed <= now'
    <3>1. \A k \in DOMAIN page : page[k].confirmed \in Nat /\ page[k].confirmed <= now
      BY <1>1 DEF PageTrue
    <3> QED  BY <3>1, <1>2
  <2>2. \A k \in DOMAIN memories' \cap DOMAIN page : AsShown(memories'[k], page[k])
    BY <1>1 DEF PageTrue, AsShown, SameMemory
  <2> QED  BY <2>1, <2>2 DEF PageTrue
<1> QED  BY <1>3, <1>4, QuietStep

LEMMA SameAsItself ==
    ASSUME MemoriesTrue, NEW k \in DOMAIN memories
    PROVE  SameMemory(memories[k], memories[k])
BY DEF MemoriesTrue, MemoryTrue, SameMemory

LEMMA DropStep ==
    ASSUME MemoryInv, NEW keys, Drop(keys), UNCHANGED <<now, posts, questions, grounds, page>>
    PROVE  MemoryInv'
<1>1. DOMAIN memories' = DOMAIN memories \ keys
      /\ \A k \in DOMAIN memories' : memories'[k] = memories[k]
  BY DEF Drop, Restricted
<1>2. MemoriesTrue /\ now \in Nat  BY PostsAre DEF MemoryInv
<1>3. \A k \in DOMAIN memories' : SameMemory(memories'[k], memories[k])
  BY <1>1, <1>2, SameAsItself
<1>4. now' \in Nat /\ now <= now'  BY <1>2
<1> QED  BY <1>1, <1>3, <1>4, KeepStep

LEMMA TurnEndsStep ==
    ASSUME MemoryInv, NEW success, TurnEnds(success)
    PROVE  MemoryInv'
<1>1. ~ Quiet /\ grounds' = Tail(grounds) /\ UNCHANGED <<posts, questions, page>>  BY DEF TurnEnds
<1>2. MemoriesTrue /\ now \in Nat  BY PostsAre DEF MemoryInv
<1>3. CASE UNCHANGED <<now, memories>>
  <2>1. DOMAIN memories' \subseteq DOMAIN memories
        /\ \A k \in DOMAIN memories' : SameMemory(memories'[k], memories[k])
    BY <1>2, <1>3, SameAsItself
  <2>2. now' \in Nat /\ now <= now'  BY <1>2, <1>3
  <2> QED  BY <2>1, <2>2, <1>1, KeepStep
<1>4. CASE Clock /\ memories' = Used(injected, now')
  <2>1. now' \in Nat /\ now <= now'  BY <1>2, <1>4 DEF Clock
  <2>2. /\ DOMAIN memories' = DOMAIN memories
        /\ \A k \in DOMAIN memories : memories'[k] = memories[k]
              \/ memories'[k] = [memories[k] EXCEPT !.used = now']
    BY <1>4 DEF Used
  <2>3. ASSUME NEW m \in MemoryRow, NEW at \in Nat PROVE SameMemory([m EXCEPT !.used = at], m)
    BY DEF MemoryRow, SameMemory
  <2>4. ASSUME NEW k \in DOMAIN memories' PROVE SameMemory(memories'[k], memories[k])
    <3>1. memories[k] \in MemoryRow  BY <1>2, <2>2 DEF MemoriesTrue, MemoryTrue
    <3>2. SameMemory([memories[k] EXCEPT !.used = now'], memories[k])  BY <3>1, <2>1, <2>3
    <3>3. SameMemory(memories[k], memories[k])  BY <1>2, <2>2, SameAsItself
    <3> QED  BY <3>2, <3>3, <2>2
  <2> QED  BY <2>1, <2>2, <2>4, <1>1, KeepStep
<1> QED  BY <1>3, <1>4 DEF TurnEnds

LEMMA LookStep ==
    ASSUME MemoryInv, Look
    PROVE  MemoryInv'
<1>1. page' = memories /\ UNCHANGED <<now, posts, questions, grounds, memories>>  BY DEF Look
<1>2. MemoriesTrue /\ now \in Nat  BY PostsAre DEF MemoryInv
<1>3. MemoriesTrue'  BY <1>1, <1>2 DEF MemoriesTrue
<1>4. PageTrue'
  <2>1. \A k \in DOMAIN memories : memories[k].confirmed \in Nat /\ memories[k].confirmed <= now
    BY <1>2, MemoryIs DEF MemoriesTrue, MemoryTrue
  <2> QED  BY <2>1, <1>1 DEF PageTrue, AsShown
<1>5. now' \in Nat /\ now <= now'  BY <1>1, <1>2
<1> QED  BY <1>1, <1>3, <1>4, <1>5, QuietStep

\* A step that writes memories at the new time: the rows it does not write are kept.
LEMMA WriteStep ==
    ASSUME MemoryInv, now' = now + 1, UNCHANGED <<posts, questions, grounds, page>>,
           \A k \in DOMAIN memories' :
               \/ k \in DOMAIN memories /\ memories'[k] = memories[k]
               \/ MemoryTrue(posts, questions, now', memories'[k]) /\ memories'[k].confirmed = now'
    PROVE  MemoryInv'
<1>1. MemoriesTrue /\ PageTrue /\ now \in Nat  BY PostsAre DEF MemoryInv
<1>2. now' \in Nat /\ now < now' /\ now <= now'  BY <1>1
<1>3. ASSUME NEW k \in DOMAIN memories, MemoryTrue(posts, questions, now, memories[k])
      PROVE  MemoryTrue(posts, questions, now', memories[k])
  <2>1. SameMemory(memories[k], memories[k])  BY <1>1, SameAsItself
  <2> QED  BY <2>1, <1>1, <1>2, <1>3, SameIsTrue
<1>4. MemoriesTrue'
  <2>1. \A k \in DOMAIN memories' : MemoryTrue(posts, questions, now', memories'[k])
    BY <1>1, <1>3 DEF MemoriesTrue
  <2> QED  BY <2>1 DEF MemoriesTrue
<1>5. PageTrue'
  <2>1. ASSUME NEW k \in DOMAIN page
        PROVE  page[k].confirmed \in Nat /\ page[k].confirmed <= now' /\ page[k].confirmed # now'
    <3>1. page[k].confirmed \in Nat /\ page[k].confirmed <= now  BY <1>1 DEF PageTrue
    <3> QED  BY <3>1, <1>1, <1>2
  <2>2. ASSUME NEW k \in DOMAIN memories' \cap DOMAIN page PROVE AsShown(memories'[k], page[k])
    <3>1. CASE k \in DOMAIN memories /\ memories'[k] = memories[k]
      BY <3>1, <1>1, <2>2 DEF PageTrue
    <3>2. CASE memories'[k].confirmed = now'
      <4>1. page[k].confirmed # now'  BY <2>1, <2>2
      <4> QED  BY <4>1, <3>2 DEF AsShown
    <3> QED  BY <3>1, <3>2, <2>2
  <2> QED  BY <2>1, <2>2 DEF PageTrue
<1> QED  BY <1>2, <1>4, <1>5, QuietStep

LEMMA ReviseStep ==
    ASSUME MemoryInv, NEW k \in Key, Revise(k)
    PROVE  MemoryInv'
<1> DEFINE m == memories[k]
           r == [m EXCEPT !.confirmed = now', !.revised = now', !.author = "user"]
<1>1. /\ k \in DOMAIN memories /\ now' = now + 1 /\ memories' = [memories EXCEPT ![k] = r]
      /\ UNCHANGED <<posts, questions, grounds, page>>
  BY DEF Revise, Clock
<1>2. now \in Nat /\ MemoryTrue(posts, questions, now, m)
  BY <1>1, PostsAre DEF MemoryInv, MemoriesTrue
<1>3. now' \in Nat /\ now <= now'  BY <1>1, <1>2
<1>4. m \in MemoryRow  BY <1>2 DEF MemoryTrue
<1>5. /\ r \in MemoryRow /\ r.confirmed = now' /\ r.first = m.first /\ r.ground = m.ground
      /\ r.created = m.created
  BY <1>3, <1>4 DEF MemoryRow
<1> HIDE DEF r, m
<1>6. r.created <= now' /\ r.confirmed <= now'
  <2>1. m.created <= now /\ m.created \in Nat  BY <1>2, <1>4, MemoryIs DEF MemoryTrue
  <2> QED  BY <2>1, <1>2, <1>3, <1>5
<1>7. MemoryTrue(posts, questions, now', r)  BY <1>2, <1>5, <1>6 DEF MemoryTrue
<1>8. ASSUME NEW l \in DOMAIN memories'
      PROVE  \/ l \in DOMAIN memories /\ memories'[l] = memories[l]
             \/ MemoryTrue(posts, questions, now', memories'[l]) /\ memories'[l].confirmed = now'
  <2>1. l = k => memories'[l] = r  BY <1>1, <1>8
  <2>2. l # k => l \in DOMAIN memories /\ memories'[l] = memories[l]  BY <1>1, <1>8
  <2> QED  BY <2>1, <2>2, <1>5, <1>7
<1> QED  BY <1>1, <1>8, WriteStep

\* A row that the running turn writes.
LEMMA WrittenIsTrue ==
    ASSUME MemoryInv, ~ Quiet, NEW kind \in {"correction", "habit"}, NEW k,
           NEW at \in Nat, at = now + 1
    PROVE  /\ MemoryTrue(posts, questions, at, Written(kind, k, at))
           /\ Written(kind, k, at).confirmed = at
<1>1. PostsTrue /\ GroundsTrue /\ MemoriesTrue /\ now \in Nat  BY PostsAre DEF MemoryInv
<1> DEFINE g == Ground
<1>2. g \in GroundRow /\ Real(posts, questions, g) /\ Seen(posts, questions, g)
  BY <1>1, GroundIs
<1>g. g = Ground  OBVIOUS
<1> HIDE DEF g
<1>3. CASE k \in DOMAIN memories
  <2> DEFINE m == memories[k]
             r == [m EXCEPT !.kind = kind, !.ground = g, !.confirmed = at, !.author = "agent"]
  <2>1. Written(kind, k, at) = r  BY <1>3, <1>g DEF Written
  <2>2. MemoryTrue(posts, questions, now, m)  BY <1>1, <1>3 DEF MemoriesTrue
  <2>3. m \in MemoryRow  BY <2>2 DEF MemoryTrue
  <2>4. /\ r \in MemoryRow /\ r.confirmed = at /\ r.first = m.first /\ r.ground = g
        /\ r.created = m.created
    BY <1>2, <2>3 DEF MemoryRow
  <2> HIDE DEF r, m
  <2>5. r.created <= at /\ r.confirmed <= at
    <3>1. m.created <= now /\ m.created \in Nat  BY <2>2, <2>3, MemoryIs DEF MemoryTrue
    <3> QED  BY <3>1, <2>4, <1>1
  <2>6. MemoryTrue(posts, questions, at, r)  BY <1>2, <2>2, <2>4, <2>5 DEF MemoryTrue
  <2> QED  BY <2>1, <2>4, <2>6
<1>4. CASE k \notin DOMAIN memories
  <2> DEFINE r == [kind |-> kind, ground |-> g, first |-> g, created |-> at,
                   confirmed |-> at, used |-> 0, revised |-> 0, author |-> "agent"]
  <2>1. Written(kind, k, at) = r  BY <1>4, <1>g DEF Written
  <2>2. /\ r \in MemoryRow /\ r.confirmed = at /\ r.created = at /\ r.first = g /\ r.ground = g
    BY <1>2 DEF MemoryRow
  <2> HIDE DEF r
  <2>3. posts[RootOf(questions, g)].at <= at
    <3>1. RootOf(questions, g) \in DOMAIN posts  BY <1>2 DEF Real
    <3>2. posts[RootOf(questions, g)].at \in Nat /\ posts[RootOf(questions, g)].at <= now
      BY <3>1, <1>1, PostsAre DEF PostsTrue
    <3> QED  BY <3>2, <1>1
  <2>4. MemoryTrue(posts, questions, at, r)  BY <1>2, <2>2, <2>3 DEF MemoryTrue
  <2> QED  BY <2>1, <2>2, <2>4
<1> QED  BY <1>3, <1>4

LEMMA SetStep ==
    ASSUME MemoryInv, NEW keys, NEW kind \in {"correction", "habit"}, Set(keys, kind)
    PROVE  MemoryInv'
<1> DEFINE rows == [k \in (DOMAIN memories \ keys) \cup keys |->
                        IF k \in keys THEN Written(kind, k, now') ELSE memories[k]]
<1>1. /\ ~ Quiet /\ now' = now + 1 /\ memories' = WithinLimit(rows)
      /\ UNCHANGED <<posts, questions, grounds, page>>
  BY DEF Set, Clock
<1>2. now \in Nat /\ now' \in Nat  BY <1>1, PostsAre DEF MemoryInv
<1>3. ASSUME NEW k \in DOMAIN rows
      PROVE  \/ k \in DOMAIN memories /\ rows[k] = memories[k]
             \/ MemoryTrue(posts, questions, now', rows[k]) /\ rows[k].confirmed = now'
  <2>1. CASE k \in keys
    <3>1. rows[k] = Written(kind, k, now')  BY <2>1, <1>3
    <3>2. MemoryTrue(posts, questions, now', Written(kind, k, now'))
          /\ Written(kind, k, now').confirmed = now'
      BY <1>1, <1>2, WrittenIsTrue
    <3> QED  BY <3>1, <3>2
  <2>2. CASE k \notin keys
    <3>1. k \in DOMAIN memories /\ rows[k] = memories[k]  BY <2>2, <1>3
    <3> QED  BY <3>1
  <2> QED  BY <2>1, <2>2
<1> HIDE DEF rows
<1>4. \A k \in DOMAIN memories' : k \in DOMAIN rows /\ memories'[k] = rows[k]
  BY <1>1 DEF WithinLimit, Restricted
<1>5. ASSUME NEW k \in DOMAIN memories'
      PROVE  \/ k \in DOMAIN memories /\ memories'[k] = memories[k]
             \/ MemoryTrue(posts, questions, now', memories'[k]) /\ memories'[k].confirmed = now'
  BY <1>3, <1>4, <1>5
<1> QED  BY <1>1, <1>5, WriteStep

-----------------------------------------------------------------------------
(* UserMemory: rewinding. *)

\* A rewind hides the messages since then and voids the questions after its
\* checkpoint that have no answer.
LEMMA RewindIs ==
    ASSUME PostsTrue, QuestionsTrue, NEW i \in DOMAIN posts, Rewind(i)
    PROVE  /\ PostsTrue' /\ posts[i].hidden = FALSE
           /\ Longer(posts, questions, posts', questions')
           /\ DOMAIN questions' = DOMAIN questions /\ questions' \in Seq(QuestionRow)
           /\ \A j \in DOMAIN posts :
                /\ posts'[j].at = posts[j].at /\ posts'[j].asked = posts[j].asked
                /\ posts'[j].hidden = FALSE <=> posts[j].hidden = FALSE /\ j < i
           /\ \A q \in DOMAIN questions :
                questions'[q].answered = FALSE /\ questions'[q].void = FALSE
                => questions[q].answered = FALSE /\ questions[q].void = FALSE /\ q <= posts[i].asked
           /\ now' = now + 1
           /\ \E n \in Nat : /\ n \in DOMAIN posts' /\ posts'[n].hidden = FALSE
                             /\ grounds' = <<Message(n)>>
<1> DEFINE said == [j \in DOMAIN posts |-> [posts[j] EXCEPT !.hidden = posts[j].hidden \/ j >= i]]
           asks == [q \in DOMAIN questions |-> [questions[q] EXCEPT
                     !.void = questions[q].void \/ (q > posts[i].asked /\ ~ questions[q].answered)]]
           n == Len(posts) + 1
<1>1. /\ ~ posts[i].hidden /\ now' = now + 1 /\ questions' = asks /\ grounds' = <<Message(n)>>
      /\ posts' = Append(said, [at |-> now', asked |-> Len(questions), hidden |-> FALSE])
  BY DEF Rewind, Clock
<1>2. /\ DOMAIN posts = 1 .. Len(posts) /\ Len(posts) \in Nat
      /\ \A j \in DOMAIN posts : /\ posts[j] \in PostRow /\ j \in Nat /\ posts[j].hidden \in BOOLEAN
                                 /\ posts[j].asked \in Nat
  BY PostsAre
<1>3. /\ DOMAIN questions = 1 .. Len(questions) /\ Len(questions) \in Nat
      /\ \A q \in DOMAIN questions : /\ questions[q] \in QuestionRow /\ q \in Nat
                                     /\ questions[q].answered \in BOOLEAN
                                     /\ questions[q].void \in BOOLEAN
  BY QuestionsAre
<1>4. ASSUME NEW r \in PostRow, NEW h \in BOOLEAN
      PROVE  LET s == [r EXCEPT !.hidden = h] IN
             s \in PostRow /\ s.at = r.at /\ s.asked = r.asked /\ s.hidden = h
  BY DEF PostRow
<1>5. ASSUME NEW r \in QuestionRow, NEW h \in BOOLEAN
      PROVE  LET s == [r EXCEPT !.void = h] IN
             s \in QuestionRow /\ s.root = r.root /\ s.answered = r.answered /\ s.void = h
  BY DEF QuestionRow
<1>6. ASSUME NEW j \in DOMAIN posts
      PROVE  /\ said[j] \in PostRow /\ said[j].at = posts[j].at /\ said[j].asked = posts[j].asked
             /\ said[j].hidden = (posts[j].hidden \/ j >= i)
  <2> DEFINE h == posts[j].hidden \/ j >= i
  <2>1. h \in BOOLEAN /\ said[j] = [posts[j] EXCEPT !.hidden = h]  BY <1>2
  <2> HIDE DEF h, said
  <2>2. /\ said[j] \in PostRow /\ said[j].at = posts[j].at /\ said[j].asked = posts[j].asked
        /\ said[j].hidden = h
    BY <2>1, <1>2, <1>4
  <2> QED  BY <2>2 DEF h
<1>7. ASSUME NEW q \in DOMAIN questions
      PROVE  /\ asks[q] \in QuestionRow /\ asks[q].root = questions[q].root
             /\ asks[q].answered = questions[q].answered
             /\ asks[q].void =
                  (questions[q].void \/ (q > posts[i].asked /\ ~ questions[q].answered))
  <2> DEFINE h == questions[q].void \/ (q > posts[i].asked /\ ~ questions[q].answered)
  <2>1. h \in BOOLEAN /\ asks[q] = [questions[q] EXCEPT !.void = h]  BY <1>3
  <2> HIDE DEF h, asks
  <2>2. /\ asks[q] \in QuestionRow /\ asks[q].root = questions[q].root
        /\ asks[q].answered = questions[q].answered /\ asks[q].void = h
    BY <2>1, <1>3, <1>5
  <2> QED  BY <2>2 DEF h
<1>8. said \in Seq(PostRow) /\ Len(said) = Len(posts)
  <2>1. said \in [1 .. Len(posts) -> PostRow]  BY <1>2, <1>6
  <2> HIDE DEF said
  <2> QED  BY <2>1, <1>2, SeqDef, LenProperties
<1>9. /\ asks \in Seq(QuestionRow) /\ Len(asks) = Len(questions)
      /\ DOMAIN asks = DOMAIN questions
  <2>1. asks \in [1 .. Len(questions) -> QuestionRow]  BY <1>3, <1>7
  <2>2. DOMAIN asks = DOMAIN questions  OBVIOUS
  <2> HIDE DEF asks
  <2> QED  BY <2>1, <2>2, <1>3, SeqDef, LenProperties
<1> HIDE DEF said, asks
<1>10. /\ PostsTrue' /\ DOMAIN posts' = DOMAIN posts \cup {n} /\ n \in Nat
       /\ posts'[n].hidden = FALSE /\ \A j \in DOMAIN posts : posts'[j] = said[j]
  <2>1. Len(questions') = Len(questions)  BY <1>1, <1>9
  <2> QED  BY <2>1, <1>1, <1>3, <1>6, <1>8, PostAdded
<1> HIDE DEF n
<1>11. ASSUME NEW j \in DOMAIN posts
       PROVE  /\ posts'[j].at = posts[j].at /\ posts'[j].asked = posts[j].asked
              /\ posts'[j].hidden = FALSE <=> posts[j].hidden = FALSE /\ j < i
  <2>1. /\ posts'[j].at = posts[j].at /\ posts'[j].asked = posts[j].asked
        /\ posts'[j].hidden = (posts[j].hidden \/ j >= i)
    BY <1>6, <1>10
  <2>2. j \in Nat /\ i \in Nat /\ posts[j].hidden \in BOOLEAN  BY <1>2
  <2>3. j >= i <=> ~ (j < i)  BY <2>2
  <2>4. posts'[j].hidden = FALSE <=> posts[j].hidden = FALSE /\ ~ (j >= i)
    BY <2>1, <2>2, Zenon
  <2> QED  BY <2>1, <2>3, <2>4
<1>12. ASSUME NEW q \in DOMAIN questions,
              questions'[q].answered = FALSE, questions'[q].void = FALSE
       PROVE  questions[q].answered = FALSE /\ questions[q].void = FALSE /\ q <= posts[i].asked
  <2>1. /\ questions'[q].answered = questions[q].answered
        /\ questions'[q].void =
             (questions[q].void \/ (q > posts[i].asked /\ ~ questions[q].answered))
    BY <1>1, <1>7
  <2>2. q \in Nat /\ posts[i].asked \in Nat /\ questions[q].void \in BOOLEAN  BY <1>2, <1>3
  <2>3. ~ (q > posts[i].asked) /\ questions[q].void = FALSE
    BY <2>1, <2>2, <1>12, Zenon
  <2> QED  BY <2>1, <2>2, <2>3, <1>12
<1>13. Longer(posts, questions, posts', questions')
  BY <1>1, <1>7, <1>9, <1>10 DEF Longer
<1>14. posts[i].hidden = FALSE  BY <1>1, <1>2
<1>15. n \in DOMAIN posts'  BY <1>10
<1> QED  BY <1>1, <1>9, <1>10, <1>11, <1>12, <1>13, <1>14, <1>15

LEMMA RewindStep ==
    ASSUME MemoryInv, NEW i \in DOMAIN posts, Rewind(i)
    PROVE  MemoryInv'
<1>1. PostsTrue /\ QuestionsTrue /\ MemoriesTrue /\ PageTrue  BY DEF MemoryInv
<1>2. UNCHANGED <<memories, page>>  BY DEF Rewind
<1>3. /\ PostsTrue' /\ posts[i].hidden = FALSE /\ Longer(posts, questions, posts', questions')
      /\ DOMAIN questions' = DOMAIN questions /\ questions' \in Seq(QuestionRow)
  BY <1>1, RewindIs
<1>4. \A j \in DOMAIN posts :
        /\ posts'[j].at = posts[j].at /\ posts'[j].asked = posts[j].asked
        /\ posts'[j].hidden = FALSE <=> posts[j].hidden = FALSE /\ j < i
  BY <1>1, RewindIs
<1>5. \A q \in DOMAIN questions :
        questions'[q].answered = FALSE /\ questions'[q].void = FALSE
        => questions[q].answered = FALSE /\ questions[q].void = FALSE /\ q <= posts[i].asked
  BY <1>1, RewindIs
<1>6. /\ now' = now + 1
      /\ \E n \in Nat : /\ n \in DOMAIN posts' /\ posts'[n].hidden = FALSE
                        /\ grounds' = <<Message(n)>>
  BY <1>1, RewindIs
<1>7. /\ now \in Nat /\ now' \in Nat /\ now <= now'
      /\ \A j \in DOMAIN posts : j \in Nat /\ posts[j].asked \in Nat /\ posts[j].at \in Nat
  BY <1>1, <1>6, PostsAre
<1>8. QuestionsTrue'
  <2>1. ASSUME NEW q \in DOMAIN questions PROVE AskedAfter(posts', questions', q)
    <3> DEFINE r == questions[q].root
    <3>1. /\ r \in DOMAIN posts /\ posts[r].asked < q
          /\ (questions[q].answered = FALSE /\ questions[q].void = FALSE) => posts[r].hidden = FALSE
      BY <1>1 DEF QuestionsTrue, AskedAfter
    <3>2. questions'[q].root = r /\ r \in DOMAIN posts'  BY <1>3, <3>1 DEF Longer
    <3> HIDE DEF r
    <3>3. posts'[r].asked < q  BY <1>4, <3>1
    <3>4. ASSUME questions'[q].answered = FALSE, questions'[q].void = FALSE
          PROVE  posts'[r].hidden = FALSE
      <4>1. posts[r].hidden = FALSE /\ q <= posts[i].asked  BY <1>5, <3>1, <3>4
      <4>2. q \in Nat  BY <1>1, QuestionsAre
      <4>3. ~ (i <= r)
        <5>1. i <= r => posts[i].asked <= posts[r].asked  BY <1>1, <3>1 DEF PostsTrue
        <5> QED  BY <5>1, <4>1, <4>2, <3>1, <1>7
      <4>4. r < i  BY <4>3, <3>1, <1>7
      <4> QED  BY <4>1, <4>4, <1>4, <3>1
    <3> QED  BY <3>2, <3>3, <3>4 DEF AskedAfter
  <2> QED  BY <2>1, <1>3 DEF QuestionsTrue
<1>9. GroundsTrue'
  <2>1. PICK n \in Nat : /\ n \in DOMAIN posts' /\ posts'[n].hidden = FALSE
                         /\ grounds' = <<Message(n)>>
    BY <1>6
  <2>2. /\ Message(n) \in GroundRow /\ Real(posts', questions', Message(n))
        /\ RootOf(questions', Message(n)) = n
    BY <2>1, MessageIs
  <2>3. Seen(posts', questions', Message(n))  BY <2>1, <2>2 DEF Seen
  <2>4. /\ grounds' \in Seq(GroundRow)
        /\ \A t \in DOMAIN grounds' : grounds'[t] = Message(n)
    BY <2>1, <2>2
  <2> QED  BY <2>2, <2>3, <2>4 DEF GroundsTrue
<1>10. MemoriesTrue'
  <2>1. ASSUME NEW k \in DOMAIN memories PROVE MemoryTrue(posts', questions', now', memories[k])
    <3> DEFINE m == memories[k]
               a == RootOf(questions, m.first)
               b == RootOf(questions, m.ground)
    <3>1. MemoryTrue(posts, questions, now, m)  BY <1>1 DEF MemoriesTrue
    <3>2. Real(posts, questions, m.first) /\ Real(posts, questions, m.ground)
      BY <3>1 DEF MemoryTrue
    <3>r. ASSUME NEW g, Real(posts, questions, g)
          PROVE  Real(posts', questions', g) /\ RootOf(questions', g) = RootOf(questions, g)
      BY <3>r, <1>3, RealStays
    <3>3. Real(posts', questions', m.first) /\ RootOf(questions', m.first) = a
      BY <3>2, <3>r
    <3>4. Real(posts', questions', m.ground) /\ RootOf(questions', m.ground) = b
      BY <3>2, <3>r
    <3>5. a \in DOMAIN posts /\ b \in DOMAIN posts  BY <3>2 DEF Real
    <3>6. /\ posts[a].at <= m.created /\ m \in MemoryRow /\ m.created <= now /\ m.confirmed <= now
          /\ (posts[a].hidden = FALSE /\ ~ (posts[b].hidden = FALSE)) => a <= b
      BY <3>1 DEF MemoryTrue, Seen
    <3> HIDE DEF a, b
    <3>7. m.created <= now' /\ m.confirmed <= now'
      <4>1. m.created \in Nat /\ m.confirmed \in Nat  BY <3>6, MemoryIs
      <4> QED  BY <4>1, <3>6, <1>7
    <3>8. posts'[a].at <= m.created  BY <3>5, <3>6, <1>4
    <3>9. (posts'[a].hidden = FALSE /\ ~ (posts'[b].hidden = FALSE)) => a <= b
      <4>1. SUFFICES ASSUME posts'[a].hidden = FALSE, ~ (posts'[b].hidden = FALSE) PROVE a <= b
        OBVIOUS
      <4>2. posts[a].hidden = FALSE /\ a < i  BY <4>1, <3>5, <1>4
      <4>3. ~ (posts[b].hidden = FALSE) \/ ~ (b < i)  BY <4>1, <3>5, <1>4
      <4> QED  BY <4>2, <4>3, <3>5, <3>6, <1>7
    <3> QED  BY <3>3, <3>4, <3>6, <3>7, <3>8, <3>9 DEF MemoryTrue, Seen
  <2> QED  BY <2>1, <1>2 DEF MemoriesTrue
<1>11. PageTrue'
  <2>1. \A k \in DOMAIN page : page[k].confirmed \in Nat /\ page[k].confirmed <= now'
    BY <1>1, <1>7 DEF PageTrue
  <2> QED  BY <2>1, <1>1, <1>2 DEF PageTrue
<1> QED  BY <1>3, <1>8, <1>9, <1>10, <1>11 DEF MemoryInv

LEMMA MemoryStarts == MemoryInit => MemoryInv
<1> SUFFICES ASSUME MemoryInit PROVE MemoryInv
  OBVIOUS
<1>1. /\ now = 0 /\ posts = <<>> /\ questions = <<>> /\ grounds = <<>>
      /\ memories = <<>> /\ page = <<>>
  BY DEF MemoryInit
<1>2. PostsTrue /\ QuestionsTrue /\ GroundsTrue  BY <1>1 DEF PostsTrue, QuestionsTrue, GroundsTrue
<1>3. MemoriesTrue /\ PageTrue  BY <1>1 DEF MemoriesTrue, PageTrue
<1> QED  BY <1>2, <1>3 DEF MemoryInv

LEMMA NothingStep ==
    ASSUME MemoryInv, UNCHANGED <<now, posts, questions, grounds, memories, page>>
    PROVE  MemoryInv'
<1>1. MemoriesTrue /\ now \in Nat  BY PostsAre DEF MemoryInv
<1>2. DOMAIN memories' \subseteq DOMAIN memories
      /\ \A k \in DOMAIN memories' : SameMemory(memories'[k], memories[k])
  BY <1>1, SameAsItself
<1>3. now' \in Nat /\ now <= now'  BY <1>1
<1> QED  BY <1>2, <1>3, KeepStep

LEMMA MemorySteps == MemoryInv /\ [MemoryNext]_memoryVars => MemoryInv'
<1> SUFFICES ASSUME MemoryInv, [MemoryNext]_memoryVars PROVE MemoryInv'
  OBVIOUS
<1>1. CASE Post  BY <1>1, PostStep
<1>2. CASE AskDecision  BY <1>2, AskStep
<1>3. CASE Inform  BY <1>3, NothingStep DEF Inform
<1>4. CASE \E q \in DOMAIN questions : AnswerDecision(q)  BY <1>4, AnswerStep
<1>5. CASE \E success \in BOOLEAN : TurnEnds(success)  BY <1>5, TurnEndsStep
<1>6. CASE \E keys \in SUBSET Key \ {{}}, kind \in {"correction", "habit"} :
             Cardinality(keys) <= Entries /\ Set(keys, kind)
  BY <1>6, SetStep
<1>7. ASSUME NEW k \in Key, Forget(k) \/ Delete(k) \/ Withdraw(k) PROVE MemoryInv'
  <2>1. Drop({k}) /\ UNCHANGED <<now, posts, questions, grounds, page>>
    BY <1>7 DEF Forget, Delete, Withdraw
  <2> QED  BY <2>1, DropStep
<1>8. ASSUME NEW k \in Key, Revise(k) PROVE MemoryInv'  BY <1>8, ReviseStep
<1>9. CASE Look  BY <1>9, LookStep
<1>10. CASE ClearAll
  <2>1. Drop(DOMAIN memories) /\ UNCHANGED <<now, posts, questions, grounds, page>>
    BY <1>10 DEF ClearAll
  <2> QED  BY <2>1, DropStep
<1>11. CASE \E i \in DOMAIN posts : Rewind(i)  BY <1>11, RewindStep
<1>12. CASE UNCHANGED memoryVars  BY <1>12, NothingStep DEF memoryVars
<1> QED  BY <1>1, <1>2, <1>3, <1>4, <1>5, <1>6, <1>7, <1>8, <1>9, <1>10, <1>11, <1>12 DEF MemoryNext

\* The invariant of the memories: every one rests on grounds there are, and the
\* page knows what it shows of them.
THEOREM MemoryInvariant == MemorySpec => []MemoryInv
BY MemoryStarts, MemorySteps, PTL DEF MemorySpec

-----------------------------------------------------------------------------
(* UserMemory: what a rewind offers to withdraw, and what is withdrawn. *)

\* Only a rewind hides a message.
LEMMA OnlyRewindHides ==
    ASSUME MemoryInv, [MemoryNext]_memoryVars,
           NEW j \in DOMAIN posts, posts'[j].hidden # posts[j].hidden
    PROVE  \E i \in DOMAIN posts : Rewind(i)
<1>1. CASE Post
  <2>1. posts' = Append(posts, [at |-> now', asked |-> Len(questions), hidden |-> FALSE])
    BY <1>1 DEF Post, Posted
  <2>2. posts'[j] = posts[j]
    <3> DEFINE row == [at |-> now', asked |-> Len(questions), hidden |-> FALSE]
    <3>1. posts \in Seq(PostRow) /\ j \in 1 .. Len(posts) /\ Len(posts) \in Nat
      BY PostsAre DEF MemoryInv, PostsTrue
    <3>2. posts' = Append(posts, row)  BY <2>1
    <3> HIDE DEF row
    <3> QED  BY <3>1, <3>2
  <2> QED  BY <2>2
<1>2. CASE UNCHANGED posts  BY <1>2
<1>3. CASE AskDecision \/ Inform \/ (\E q \in DOMAIN questions : AnswerDecision(q))
  BY <1>2, <1>3 DEF AskDecision, Inform, AnswerDecision
<1>4. CASE \E success \in BOOLEAN : TurnEnds(success)  BY <1>2, <1>4 DEF TurnEnds
<1>5. CASE \E keys \in SUBSET Key \ {{}}, kind \in {"correction", "habit"} :
             Cardinality(keys) <= Entries /\ Set(keys, kind)
  BY <1>2, <1>5 DEF Set
<1>6. CASE \E k \in Key : Forget(k) \/ Revise(k) \/ Delete(k) \/ Withdraw(k)
  BY <1>2, <1>6 DEF Forget, Revise, Delete, Withdraw
<1>7. CASE Look \/ ClearAll  BY <1>2, <1>7 DEF Look, ClearAll
<1>8. CASE UNCHANGED memoryVars  BY <1>2, <1>8 DEF memoryVars
<1> QED  BY <1>1, <1>3, <1>4, <1>5, <1>6, <1>7, <1>8 DEF MemoryNext

\* What a rewind to message i mentions.
LEMMA RewindMentions ==
    ASSUME MemoryInv, NEW i \in DOMAIN posts, Rewind(i), NEW k \in DOMAIN memories
    PROVE  LET m == memories[k]
               a == RootOf(questions, m.first)
               b == RootOf(questions, m.ground) IN
           /\ (/\ posts[a].hidden = FALSE /\ ~ (posts'[a].hidden = FALSE)
               /\ ~ (posts'[b].hidden = FALSE))
                => k \in affected'
           /\ (k \in affected' /\ m.ground.kind = "user_message") => ~ (posts'[b].hidden = FALSE)
<1> DEFINE m == memories[k]
           g == m.ground
           a == RootOf(questions, m.first)
           b == RootOf(questions, g)
           said == [j \in DOMAIN posts |-> [posts[j] EXCEPT !.hidden = posts[j].hidden \/ j >= i]]
<1>1. PostsTrue /\ QuestionsTrue /\ MemoriesTrue  BY DEF MemoryInv
<1>2. MemoryTrue(posts, questions, now, m)  BY <1>1 DEF MemoriesTrue
<1>3. \A j \in DOMAIN posts : posts'[j].hidden = FALSE <=> posts[j].hidden = FALSE /\ j < i
  BY <1>1, RewindIs
<1>4. k \in affected' <=>
        /\ m.created >= posts[i].at
        /\ IF g.kind = "user_message" THEN said[g.id].hidden ELSE g.id > posts[i].asked
  BY DEF Rewind, collectRewindAffectedMemories
<1>5. \A j \in DOMAIN posts : /\ j \in Nat /\ posts[j].hidden \in BOOLEAN
                              /\ posts[j].at \in Nat /\ posts[j].asked \in Nat
  BY <1>1, PostsAre
<1>6. ASSUME NEW j \in DOMAIN posts PROVE said[j].hidden <=> ~ (posts'[j].hidden = FALSE)
  <2>1. said[j].hidden = (posts[j].hidden \/ j >= i)
    <3>1. posts[j] \in PostRow  BY <1>1, PostsAre
    <3>2. said[j] = [posts[j] EXCEPT !.hidden = posts[j].hidden \/ j >= i]  OBVIOUS
    <3> QED  BY <3>1, <3>2 DEF PostRow
  <2>2. j >= i <=> ~ (j < i)  BY <1>5
  <2>3. posts'[j].hidden = FALSE <=> posts[j].hidden = FALSE /\ j < i  BY <1>3
  <2>4. posts[j].hidden \in BOOLEAN  BY <1>5
  <2> HIDE DEF said
  <2> QED  BY <2>1, <2>2, <2>3, <2>4, Zenon
<1>7. /\ a \in DOMAIN posts /\ b \in DOMAIN posts /\ g \in GroundRow
      /\ IF g.kind = "user_message" THEN g.id = b
         ELSE g.id \in DOMAIN questions /\ b = questions[g.id].root
  BY <1>2 DEF MemoryTrue, Real, RootOf
<1>8. /\ posts[a].at <= m.created /\ m \in MemoryRow
      /\ (posts[a].hidden = FALSE /\ ~ (posts[b].hidden = FALSE)) => a <= b
  BY <1>2 DEF MemoryTrue, Seen
<1>9. m.created \in Nat  BY <1>8, MemoryIs
<1>q. \A q \in DOMAIN questions : /\ q \in Nat /\ questions[q].root \in DOMAIN posts
                                  /\ posts[questions[q].root].asked < q
  BY <1>1, QuestionsAre DEF QuestionsTrue, AskedAfter
<1> HIDE DEF said, a, b, g, m
<1>10. ASSUME posts[a].hidden = FALSE, ~ (posts'[a].hidden = FALSE), ~ (posts'[b].hidden = FALSE)
       PROVE  k \in affected'
  <2>1. i <= a  BY <1>3, <1>5, <1>7, <1>10
  <2>2. m.created >= posts[i].at
    <3>1. posts[i].at <= posts[a].at  BY <2>1, <1>1, <1>7 DEF PostsTrue
    <3> QED  BY <3>1, <1>5, <1>7, <1>8, <1>9
  <2>3. CASE g.kind = "user_message"
    <3>1. said[g.id].hidden  BY <2>3, <1>6, <1>7, <1>10
    <3> QED  BY <2>2, <2>3, <3>1, <1>4
  <2>4. CASE g.kind # "user_message"
    <3>1. i <= b
      <4>1. ~ (posts[b].hidden = FALSE) \/ ~ (b < i)  BY <1>3, <1>7, <1>10
      <4>2. ~ (posts[b].hidden = FALSE) => a <= b  BY <1>8, <1>10
      <4> QED  BY <4>1, <4>2, <2>1, <1>5, <1>7
    <3>2. posts[i].asked <= posts[b].asked  BY <3>1, <1>1, <1>7 DEF PostsTrue
    <3>3. g.id \in Nat /\ posts[b].asked < g.id  BY <2>4, <1>7, <1>q
    <3>4. g.id > posts[i].asked  BY <3>2, <3>3, <1>5, <1>7
    <3> QED  BY <2>2, <2>4, <3>4, <1>4
  <2> QED  BY <2>3, <2>4
<1>11. ASSUME k \in affected', g.kind = "user_message"
       PROVE  ~ (posts'[b].hidden = FALSE)
  <2>1. said[g.id].hidden /\ g.id = b  BY <1>4, <1>7, <1>11
  <2> QED  BY <2>1, <1>6, <1>7
<1> QED  BY <1>10, <1>11 DEF a, b, g, m

LEMMA RewoundTold ==
    ASSUME MemoryInv, [MemoryNext]_memoryVars, NEW k \in DOMAIN memories,
           \E j \in DOMAIN posts : posts'[j].hidden # posts[j].hidden
    PROVE  LET m == memories[k] IN
           /\ (Visible(m.first) /\ ~ Visible(m.first)' /\ ~ Visible(m.ground)')
                => k \in affected'
           /\ (k \in affected' /\ m.ground.kind = "user_message") => ~ Visible(m.ground)'
<1> DEFINE m == memories[k]
           f == m.first
           g == m.ground
           a == RootOf(questions, f)
           b == RootOf(questions, g)
<1>1. PICK i \in DOMAIN posts : Rewind(i)  BY OnlyRewindHides
<1>2. PostsTrue /\ QuestionsTrue /\ MemoriesTrue  BY DEF MemoryInv
<1>3. MemoryInv' /\ memories' = memories  BY <1>1, RewindStep DEF Rewind
<1>4. /\ (posts[a].hidden = FALSE /\ ~ (posts'[a].hidden = FALSE) /\ ~ (posts'[b].hidden = FALSE))
           => k \in affected'
      /\ (k \in affected' /\ g.kind = "user_message") => ~ (posts'[b].hidden = FALSE)
  BY <1>1, RewindMentions
<1>5. Real(posts, questions, f) /\ Real(posts, questions, g)
  BY <1>2 DEF MemoriesTrue, MemoryTrue
<1>6. Longer(posts, questions, posts', questions')  BY <1>1, <1>2, RewindIs
<1>7. ASSUME NEW h, Real(posts, questions, h)
      PROVE  Real(posts', questions', h) /\ RootOf(questions', h) = RootOf(questions, h)
  BY <1>6, <1>7, RealStays
<1>8. a \in DOMAIN posts /\ b \in DOMAIN posts /\ a \in DOMAIN posts' /\ b \in DOMAIN posts'
  BY <1>5, <1>6 DEF Real, Longer
<1>9. /\ posts[a].hidden \in BOOLEAN /\ posts'[a].hidden \in BOOLEAN /\ posts'[b].hidden \in BOOLEAN
  <2>1. \A j \in DOMAIN posts : posts[j].hidden \in BOOLEAN  BY <1>2, PostsAre
  <2>2. PostsTrue'  BY <1>3 DEF MemoryInv
  <2>3. \A r \in PostRow : r.hidden \in BOOLEAN  BY DEF PostRow
  <2>4. \A j \in DOMAIN posts' : posts'[j] \in PostRow  BY <2>2 DEF PostsTrue
  <2> QED  BY <2>1, <2>3, <2>4, <1>8
<1>10. /\ RootOf(questions, f) = a /\ RootOf(questions', f) = a /\ RootOf(questions', g) = b
  BY <1>5, <1>7
<1>11. /\ Visible(f) <=> ~ posts[a].hidden
       /\ Visible(m.first)' <=> ~ posts'[a].hidden
       /\ Visible(m.ground)' <=> ~ posts'[b].hidden
  BY <1>3, <1>10 DEF Visible, Root, RootOf
<1> HIDE DEF a, b
<1> QED  BY <1>4, <1>9, <1>11

LEMMA WithdrawnIsShown ==
    ASSUME MemoryInv, NEW k \in Key, Withdraw(k)
    PROVE  /\ memories[k].author = page[k].author /\ memories[k].ground = page[k].ground
           /\ memories[k].confirmed = page[k].confirmed
<1>1. /\ k \in DOMAIN memories \cap DOMAIN page /\ memories[k].confirmed = page[k].confirmed
  BY DEF Withdraw, SameRow
<1>2. AsShown(memories[k], page[k])  BY <1>1 DEF MemoryInv, PageTrue
<1> QED  BY <1>1, <1>2 DEF AsShown

\* A rewind mentions every memory whose first and whose present ground it has just
\* taken back and none that rests on a message still there, and a withdrawal takes
\* away only what the page has shown (collectRewindAffectedMemories,
\* conditionallyRemoveUserMemory).
THEOREM WithdrawalsAreSound == MemorySpec => MemoriesSound
<1>1. MemoryInv /\ [MemoryNext]_memoryVars =>
        [\A k \in DOMAIN memories :
           LET m == memories[k] IN
           (\E i \in DOMAIN posts : posts'[i].hidden # posts[i].hidden)
           => /\ (Visible(m.first) /\ ~ Visible(m.first)' /\ ~ Visible(m.ground)')
                  => k \in affected'
              /\ (k \in affected' /\ m.ground.kind = "user_message")
                  => ~ Visible(m.ground)']_memoryVars
  BY RewoundTold
<1>2. MemoryInv /\ [MemoryNext]_memoryVars =>
        [\A k \in Key : Withdraw(k) =>
           /\ memories[k].author = page[k].author /\ memories[k].ground = page[k].ground
           /\ memories[k].confirmed = page[k].confirmed]_memoryVars
  BY WithdrawnIsShown
<1>3. MemorySpec => RewoundMentioned
  BY <1>1, MemoryInvariant, PTL DEF MemorySpec, RewoundMentioned
<1>4. MemorySpec => WithdrawsWhatWasSeen
  BY <1>2, MemoryInvariant, PTL DEF MemorySpec, WithdrawsWhatWasSeen
<1> QED  BY <1>3, <1>4, PTL DEF MemoriesSound

-----------------------------------------------------------------------------
(* TurnRecovery: the inductive invariant. *)

AllStored == {m \in Msg : Stored(m)}
AllDone == {m \in Msg : Done(m)}
\* f pairs the terminals of the log l with its messages.
Pairs(f, l) ==
  f = [k \in 0..Len(l) |-> IF k = 0 THEN <<>> ELSE Pair(f[k - 1], l[k])]
\* The message of m was stored before that of w.
Earlier(l, m, w) ==
  \E j, k \in DOMAIN l : j < k /\ l[j] = UserEntry(m) /\ l[k] = UserEntry(w)
Before(m, w) == Earlier(log, m, w)
\* What a POST, the queue with its runner, and a barrier have in their hands.
Posting == {m \in Msg : post[m] = "stored"}
Active == IF runner.pc = "answered" THEN {} ELSE {runner.of} \ {NoMsg}
Marked == IF barrier.pc = "marker" THEN barrier.turns ELSE {}

\* A message stands in the log once.
EntriesOnce ==
  /\ \A j, k \in DOMAIN log : log[j].kind = "user" /\ log[j] = log[k] => j = k
  /\ \A k \in DOMAIN log : log[k].kind = "user" => log[k].of \in Msg /\ log[k] = UserEntry(log[k].of)
\* A message is stored once, by its POST, and only a stored one is answered,
\* cancelled or in somebody's hands.
LogSound ==
  /\ EntriesOnce
  /\ \A m \in AllStored : post[m] \in {"stored", "over"}
  /\ IsFiniteSet(AllStored)
  /\ AllDone \cup Posting \cup Queued \cup ({runner.of} \ {NoMsg}) \cup barrier.turns \subseteq AllStored

\* What is unmatched stands in the order it was stored in, with all that came later.
LeftInOrder ==
  /\ Unmatched \in Seq(Msg) /\ Left \subseteq AllStored
  /\ \A i, j \in DOMAIN Unmatched : i < j => Before(Unmatched[i], Unmatched[j])
  /\ \A m \in Left, w \in Msg : Before(m, w) => w \in Left

\* A process that is down, and a draft that is being cancelled, hold nothing.
HandsEmpty ==
  /\ runner.pc # "begun" => runner.of \in Msg
  /\ barrier.pc # "open" => accepted = <<>> /\ runner = NoRun
  /\ ~ up => /\ accepted = <<>> /\ runner = NoRun /\ barrier = NoBarrier
             /\ \A m \in Msg : post[m] \in {"new", "over"}

\* There are at least as many unmatched messages as turns without a terminal.
Covered ==
  Cardinality(Posting) + Cardinality(Marked) + Len(accepted) + Cardinality(Active) <= Len(Unmatched)

\* Nobody holds a turn that is done or that another holds, and as many messages
\* are matched as turns are done.
Exact ==
  /\ (Posting \cup Marked \cup Queued \cup Active) \cap AllDone = {}
  /\ Posting \cap (Marked \cup Queued \cup Active) = {} /\ Queued \cap Active = {}
  /\ \A i, j \in DOMAIN accepted : accepted[i] = accepted[j] => i = j
  /\ Cardinality(AllStored) = Cardinality(AllDone) + Len(Unmatched)

\* A message nobody will ever answer has been passed over by a later one.
Forgotten ==
  \E w \in AllStored :
    /\ w \notin AllDone \cup Left \cup Marked \cup Queued \cup Active
    /\ post[w] = "over"
    /\ \E m \in AllDone : Before(w, m)

RecoveryInv ==
  /\ RecoveryTypeOK /\ Pairs(Pairing, log) /\ LogSound /\ LeftInOrder /\ HandsEmpty /\ Covered /\ NoOvercount
  /\ Exact \/ Forgotten

\* A nonempty set of naturals has a least member.
LEMMA LeastOne ==
  ASSUME NEW S \in SUBSET Nat, S # {}
  PROVE  \E k \in S : \A j \in S : k <= j
<1> DEFINE R == OpToRel(<, Nat)
<1>1. IsWellFoundedOn(R, Nat)  BY NatLessThanWellFounded
<1>2. PICK k \in S : \A j \in S : ~ (<<j, k>> \in R)
  <2> HIDE DEF R
  <2> QED  BY <1>1, WFMin
<1>3. \A j \in S : <<j, k>> \in R <=> j < k  BY DEF OpToRel
<1>4. k \in Nat /\ \A j \in S : j \in Nat /\ ~ (j < k)  BY <1>2, <1>3
<1> QED  BY <1>4

\* The pairing of a log is one function.
LEMMA PairsUnique ==
  ASSUME NEW l, Len(l) \in Nat, NEW f, NEW g, Pairs(f, l), Pairs(g, l)
  PROVE  f = g
<1> DEFINE apart == {k \in 0..Len(l) : f[k] # g[k]}
<1>1. SUFFICES ASSUME apart # {} PROVE FALSE
  <2>1. \A k \in 0..Len(l) : f[k] = g[k]  BY <1>1
  <2> QED  BY <2>1 DEF Pairs
<1>2. PICK k \in apart : \A j \in apart : k <= j
  <2>1. apart \in SUBSET Nat  OBVIOUS
  <2> HIDE DEF apart
  <2> QED  BY <1>1, <2>1, LeastOne
<1>3. k # 0  BY <1>2 DEF Pairs
<1>4. k - 1 \in 0..Len(l) /\ k - 1 < k  BY <1>2, <1>3
<1>5. f[k - 1] = g[k - 1]  BY <1>2, <1>4
<1>6. f[k] = Pair(f[k - 1], l[k]) /\ g[k] = Pair(g[k - 1], l[k])  BY <1>2, <1>3 DEF Pairs
<1> QED  BY <1>2, <1>5, <1>6

\* A log that grows by a message has the pairing it had, and one step more.
LEMMA PairsGrow ==
  ASSUME NEW l \in Seq(Fact), NEW e \in Fact, NEW f, Pairs(f, l)
  PROVE  LET g == [k \in 0..Len(l) + 1 |-> IF k <= Len(l) THEN f[k] ELSE Pair(f[Len(l)], e)]
         IN  Pairs(g, Append(l, e))
<1> DEFINE longer == Append(l, e)
           g == [k \in 0..Len(l) + 1 |-> IF k <= Len(l) THEN f[k] ELSE Pair(f[Len(l)], e)]
<1>1. /\ Len(longer) = Len(l) + 1 /\ longer[Len(l) + 1] = e /\ Len(l) \in Nat
      /\ \A k \in 1..Len(l) : longer[k] = l[k]
  BY AppendProperties
<1>2. ASSUME NEW k \in 0..Len(l) + 1
      PROVE  g[k] = IF k = 0 THEN <<>> ELSE Pair(g[k - 1], longer[k])
  <2>1. CASE k = 0  BY <2>1, <1>1 DEF Pairs
  <2>2. CASE k # 0 /\ k <= Len(l)
    <3>1. k \in 1..Len(l) /\ k - 1 \in 0..Len(l)  BY <2>2, <1>1
    <3>2. g[k] = f[k] /\ g[k - 1] = f[k - 1]  BY <3>1, <1>1
    <3> QED  BY <3>1, <3>2, <1>1 DEF Pairs
  <2>3. CASE k = Len(l) + 1
    <3>1. k # 0 /\ ~ (k <= Len(l)) /\ k - 1 = Len(l) /\ Len(l) \in 0..Len(l) /\ Len(l) \in 0..Len(l)+1  BY <2>3, <1>1
    <3>2. g[k] = Pair(f[Len(l)], e) /\ g[k - 1] = f[Len(l)]  BY <3>1, <1>1
    <3> QED  BY <3>1, <3>2, <2>3, <1>1
  <2> QED  BY <2>1, <2>2, <2>3, <1>1
<1> HIDE DEF longer
<1>3. Pairs(g, longer)  BY <1>1, <1>2 DEF Pairs
<1> QED  BY <1>3 DEF longer

\* What pairs the log is the pairing of the module.
LEMMA PairingIs ==
  ASSUME NEW f, Pairs(f, log'), Len(log') \in Nat
  PROVE  Pairing' = f
<1> DEFINE P(h) == h = [k \in 0..Len(log') |-> IF k = 0 THEN <<>> ELSE Pair(h[k - 1], log'[k])]
<1>1. Pairing' = CHOOSE h : P(h)  BY DEF Pairing, Pair
<1>2. P(f)  BY DEF Pairs
<1>3. P(Pairing')
  <2> HIDE DEF P
  <2> QED  BY <1>1, <1>2
<1>4. Pairs(Pairing', log')  BY <1>3 DEF Pairs
<1> HIDE DEF P
<1> QED  BY <1>4, PairsUnique

\* The pairing after a message is the pairing before it and that message.
LEMMA PairingGrows ==
  ASSUME log \in Seq(Fact), Pairs(Pairing, log), NEW e \in Fact, log' = Append(log, e)
  PROVE  /\ Pairs(Pairing, log)'
         /\ \A k \in 0..Len(log) : Pairing'[k] = Pairing[k]
         /\ Unmatched' = Pair(Unmatched, e)
<1> DEFINE g == [k \in 0..Len(log) + 1 |-> IF k <= Len(log) THEN Pairing[k] ELSE Pair(Pairing[Len(log)], e)]
<1>1. Pairs(g, log')  BY PairsGrow
<1>2. Len(log') = Len(log) + 1 /\ Len(log) \in Nat  BY AppendProperties
<1>3. Pairing' = g
  <2>1. Len(log') \in Nat  BY <1>2
  <2> HIDE DEF g
  <2> QED  BY <2>1, <1>1, PairingIs
<1>4. Pairs(Pairing', log')  BY <1>1, <1>3
<1>5. \A k \in 0..Len(log) : Pairing'[k] = Pairing[k]  BY <1>2, <1>3
<1>6. Unmatched' = Pairing'[Len(log')]  BY DEF Unmatched
<1>7. Pairing'[Len(log')] = Pair(Pairing[Len(log)], e)  BY <1>2, <1>3
<1> QED  BY <1>4, <1>5, <1>6, <1>7 DEF Unmatched, Pairs, Pair

\* The shape of the log.
LEMMA LogFacts ==
  ASSUME RecoveryTypeOK
  PROVE  /\ Len(log) \in Nat /\ DOMAIN log = 1..Len(log)
         /\ \A k \in DOMAIN log : log[k] \in Fact /\ log[k].count \in Nat
<1>1. log \in Seq(Fact)  BY DEF RecoveryTypeOK
<1>2. \A k \in 1..Len(log) : log[k] \in Fact  BY <1>1, ElementOfSeq
<1>3. \A f \in Fact : f.count \in Nat  BY DEF Fact
<1> QED  BY <1>1, <1>2, <1>3, LenProperties

\* The shape of what is unmatched.
LEMMA UnmatchedFacts ==
  ASSUME Unmatched \in Seq(Msg)
  PROVE  /\ Len(Unmatched) \in Nat /\ DOMAIN Unmatched = 1..Len(Unmatched)
         /\ \A k \in DOMAIN Unmatched : Unmatched[k] \in Msg
  OBVIOUS

\* A message has one place, so that the order of the messages is strict and total.
LEMMA BeforeOrders ==
  ASSUME RecoveryTypeOK, LogSound, NEW m \in AllStored, NEW w \in AllStored
  PROVE  /\ ~ (Before(m, w) /\ Before(w, m))
         /\ m # w => Before(m, w) \/ Before(w, m)
<1>1. PICK j \in DOMAIN log : log[j] = UserEntry(m)  BY DEF AllStored, Stored
<1>2. PICK k \in DOMAIN log : log[k] = UserEntry(w)  BY DEF AllStored, Stored
<1>3. \A i \in DOMAIN log : i \in Nat  BY LogFacts
<1>4. \A i \in DOMAIN log : log[i] = UserEntry(m) => i = j  BY <1>1 DEF LogSound, EntriesOnce, UserEntry
<1>5. \A i \in DOMAIN log : log[i] = UserEntry(w) => i = k  BY <1>2 DEF LogSound, EntriesOnce, UserEntry
<1>6. Before(m, w) <=> j < k  BY <1>1, <1>2, <1>4, <1>5 DEF Before, Earlier
<1>7. Before(w, m) <=> k < j  BY <1>1, <1>2, <1>4, <1>5 DEF Before, Earlier
<1>8. j = k => m = w  BY <1>1, <1>2 DEF UserEntry
<1> QED  BY <1>1, <1>2, <1>3, <1>6, <1>7, <1>8

\* A message is unmatched once.
LEMMA UnmatchedOnce ==
  ASSUME RecoveryTypeOK, LogSound, LeftInOrder
  PROVE  /\ \A i, j \in DOMAIN Unmatched : Unmatched[i] = Unmatched[j] => i = j
         /\ IsFiniteSet(Left) /\ Cardinality(Left) = Len(Unmatched)
<1>1. /\ Len(Unmatched) \in Nat /\ DOMAIN Unmatched = 1..Len(Unmatched)
      /\ \A k \in DOMAIN Unmatched : Unmatched[k] \in Left /\ Unmatched[k] \in AllStored
  BY UnmatchedFacts DEF LeftInOrder, Left
<1>2. ASSUME NEW i \in DOMAIN Unmatched, NEW j \in DOMAIN Unmatched, i < j PROVE Unmatched[i] # Unmatched[j]
  <2>1. Before(Unmatched[i], Unmatched[j])  BY <1>2 DEF LeftInOrder
  <2> QED  BY <2>1, <1>1, BeforeOrders
<1>3. \A i, j \in DOMAIN Unmatched : Unmatched[i] = Unmatched[j] => i = j
  <2> TAKE i, j \in DOMAIN Unmatched
  <2>1. i \in Nat /\ j \in Nat  BY <1>1
  <2> QED  BY <2>1, <1>2
<1>4. Unmatched \in [1..Len(Unmatched) -> Left]  BY <1>1 DEF LeftInOrder
<1>5. Unmatched \in Surjection(1..Len(Unmatched), Left)
  BY <1>1, <1>4 DEF Surjection, Left
<1>6. Unmatched \in Injection(1..Len(Unmatched), Left)
  BY <1>1, <1>3, <1>4 DEF Injection, IsInjective
<1>7. IsFiniteSet(1..Len(Unmatched)) /\ Cardinality(1..Len(Unmatched)) = Len(Unmatched)
  <2> DEFINE l == Len(Unmatched)
  <2>1. l \in Nat  BY <1>1
  <2> HIDE DEF l
  <2>2. IsFiniteSet(1..l) /\ Cardinality(1..l) = l  BY <2>1, FS_Interval
  <2> QED  BY <2>2 DEF l
<1>8. IsFiniteSet(Left) /\ Cardinality(Left) = Cardinality(1..Len(Unmatched))
  BY <1>5, <1>6, <1>7, FS_Surjection
<1> QED  BY <1>3, <1>7, <1>8

\* What can be counted, and that a runner has one turn.
LEMMA HandsFinite ==
  ASSUME RecoveryTypeOK, LogSound
  PROVE  /\ IsFiniteSet(AllDone) /\ IsFiniteSet(Posting) /\ IsFiniteSet(Marked) /\ IsFiniteSet(Active)
         /\ Cardinality(AllStored) \in Nat /\ Cardinality(AllDone) \in Nat
         /\ Cardinality(Posting) \in Nat /\ Cardinality(Marked) \in Nat /\ Cardinality(Active) \in Nat
         /\ Len(accepted) \in Nat
         /\ Active # {} => Cardinality(Active) = 1
         /\ Cardinality({}) = 0
<1>1. AllDone \subseteq AllStored /\ Posting \subseteq AllStored /\ Marked \subseteq AllStored /\ Active \subseteq AllStored
  BY DEF LogSound, Marked, Active
<1>2. IsFiniteSet(AllStored)  BY DEF LogSound
<1>3. /\ IsFiniteSet(AllDone) /\ IsFiniteSet(Posting) /\ IsFiniteSet(Marked) /\ IsFiniteSet(Active)
  BY <1>1, <1>2, FS_Subset
<1>4. Active # {} => Active = {runner.of}  BY DEF Active
<1>5. Active # {} => Cardinality(Active) = 1  BY <1>4, FS_Singleton
<1>6. Len(accepted) \in Nat  BY DEF RecoveryTypeOK
<1> QED  BY <1>2, <1>3, <1>5, <1>6, FS_CardinalityType, FS_EmptySet

\* What the queue holds are no more messages than it is long.
LEMMA QueuedBound ==
  ASSUME RecoveryTypeOK
  PROVE  IsFiniteSet(Queued) /\ Cardinality(Queued) <= Len(accepted)
<1>1. Len(accepted) \in Nat /\ DOMAIN accepted = 1..Len(accepted)  BY DEF RecoveryTypeOK
<1>2. accepted \in Surjection(1..Len(accepted), Queued)
  BY <1>1 DEF Surjection, Queued, RecoveryTypeOK
<1>3. IsFiniteSet(1..Len(accepted)) /\ Cardinality(1..Len(accepted)) = Len(accepted)
  <2> DEFINE n == Len(accepted)
  <2>1. n \in Nat  BY <1>1
  <2> HIDE DEF n
  <2>2. IsFiniteSet(1..n) /\ Cardinality(1..n) = n  BY <2>1, FS_Interval
  <2> QED  BY <2>2 DEF n
<1> QED  BY <1>2, <1>3, FS_Surjection

\* The candidates of a restart are unmatched messages that were not started, each
\* as often as it is unmatched.
LEMMA CandidatesSound ==
  ASSUME Unmatched \in Seq(Msg)
  PROVE  /\ Candidates \in Seq(Msg) /\ Len(Candidates) <= Len(Unmatched)
         /\ {Candidates[k] : k \in DOMAIN Candidates} \subseteq Left \ started
         /\ (\A i, j \in DOMAIN Unmatched : Unmatched[i] = Unmatched[j] => i = j)
            => \A i, j \in DOMAIN Candidates : Candidates[i] = Candidates[j] => i = j
<1> DEFINE fresh == {k \in DOMAIN Unmatched : Unmatched[k] \notin started}
           upto(k) == {j \in fresh : j <= k}
           rank == [k \in fresh |-> Cardinality(upto(k))]
           n == Cardinality(fresh)
           at(i) == CHOOSE k \in fresh : Cardinality(upto(k)) = i
<1>1. /\ Len(Unmatched) \in Nat /\ DOMAIN Unmatched = 1..Len(Unmatched)
      /\ \A k \in DOMAIN Unmatched : Unmatched[k] \in Msg
  BY UnmatchedFacts
<1>2. IsFiniteSet(1..Len(Unmatched)) /\ Cardinality(1..Len(Unmatched)) = Len(Unmatched)
  BY <1>1, FS_Interval
<1>3. fresh \subseteq 1..Len(Unmatched)  BY <1>1
<1>4. IsFiniteSet(fresh) /\ n \in Nat /\ n <= Len(Unmatched)
  BY <1>2, <1>3, FS_Subset, FS_CardinalityType
<1>5. ASSUME NEW k \in fresh
      PROVE  IsFiniteSet(upto(k)) /\ Cardinality(upto(k)) \in 1..n
  <2>1. upto(k) \subseteq fresh /\ k \in upto(k)  BY <1>3
  <2>2. IsFiniteSet(upto(k)) /\ Cardinality(upto(k)) <= n  BY <2>1, <1>4, FS_Subset
  <2>3. Cardinality(upto(k)) \in Nat /\ Cardinality(upto(k)) # 0
    BY <2>1, <2>2, FS_CardinalityType, FS_EmptySet
  <2> QED  BY <2>2, <2>3, <1>4
<1>6. ASSUME NEW j \in fresh, NEW k \in fresh, j < k
      PROVE  rank[j] # rank[k]
  <2>1. j \in Nat /\ k \in Nat  BY <1>3
  <2>2. upto(j) \subseteq upto(k) /\ k \in upto(k) /\ k \notin upto(j)
    <3>1. \A i \in fresh : i \in Nat  BY <1>3
    <3> QED  BY <3>1, <2>1, <1>6
  <2>3. Cardinality(upto(j)) # Cardinality(upto(k))
    <3> HIDE DEF upto, fresh, n
    <3> QED  BY <2>2, <1>5, FS_Subset
  <2> QED  BY <2>3
<1>7. rank \in Injection(fresh, 1..n)
  <2>1. rank \in [fresh -> 1..n]  BY <1>5
  <2>2. \A j, k \in fresh : rank[j] = rank[k] => j = k
    <3> TAKE j, k \in fresh
    <3>1. j \in Nat /\ k \in Nat  BY <1>3
    <3> QED  BY <3>1, <1>6
  <2> HIDE DEF rank
  <2> QED  BY <2>1, <2>2 DEF Injection, IsInjective
<1>8. rank \in Surjection(fresh, 1..n)
  <2>1. IsFiniteSet(1..n) /\ Cardinality(1..n) = n  BY <1>4, FS_Interval
  <2> HIDE DEF rank
  <2> QED  BY <1>7, <2>1, FS_Injection
<1>9. ASSUME NEW i \in 1..n
      PROVE  at(i) \in fresh /\ Cardinality(upto(at(i))) = i
  <2>1. \E k \in fresh : rank[k] = i
    <3> HIDE DEF rank
    <3> QED  BY <1>8 DEF Surjection
  <2>2. \E k \in fresh : Cardinality(upto(k)) = i  BY <2>1
  <2> QED  BY <2>2
<1>10. Candidates = [i \in 1..n |-> Unmatched[at(i)]]  BY DEF Candidates
<1> HIDE DEF at, n, upto
<1>11. \A i \in 1..n : Unmatched[at(i)] \in Msg /\ Unmatched[at(i)] \in Left \ started
  BY <1>1, <1>9 DEF Left
<1>12. Candidates \in [1..n -> Msg] /\ DOMAIN Candidates = 1..n  BY <1>10, <1>11
<1>13. Candidates \in Seq(Msg) /\ Len(Candidates) = n  BY <1>4, <1>12
<1>14. \A k \in 1..n : Candidates[k] \in Left \ started  BY <1>10, <1>11
<1>15. ASSUME \A i, j \in DOMAIN Unmatched : Unmatched[i] = Unmatched[j] => i = j,
              NEW i \in 1..n, NEW j \in 1..n, Candidates[i] = Candidates[j]
       PROVE  i = j
  <2>1. Unmatched[at(i)] = Unmatched[at(j)]  BY <1>10, <1>15
  <2>2. at(i) = at(j)  BY <2>1, <1>9, <1>15
  <2> QED  BY <2>2, <1>9
<1> QED  BY <1>4, <1>12, <1>13, <1>14, <1>15

\* What the log says changes only with the log.
LEMMA LogKept ==
  ASSUME RecoveryInv, UNCHANGED <<log, cancelled>>
  PROVE  /\ Unmatched' = Unmatched /\ Left' = Left /\ AllStored' = AllStored /\ AllDone' = AllDone
         /\ \A m, w \in Msg : Before(m, w)' <=> Before(m, w)
         /\ Pairs(Pairing, log)' /\ EntriesOnce' /\ LeftInOrder' /\ NoOvercount'
<1>1. log' = log /\ cancelled' = cancelled  OBVIOUS
<1>2. Pairing' = Pairing
  <2>1. Len(log) \in Nat  BY LogFacts DEF RecoveryInv
  <2>2. Pairs(Pairing, log') /\ Len(log') \in Nat  BY <1>1, <2>1 DEF RecoveryInv
  <2> QED  BY <2>2, PairingIs
<1>3. Unmatched' = Unmatched  BY <1>1, <1>2 DEF Unmatched
<1>4. Left' = Left  BY <1>3 DEF Left
<1>5. \A m \in Msg : (Stored(m)' <=> Stored(m)) /\ (Done(m)' <=> Done(m))
  BY <1>1 DEF Stored, Done, Answered, UserEntry, Reply
<1>6. AllStored' = AllStored /\ AllDone' = AllDone  BY <1>5 DEF AllStored, AllDone
<1>7. \A m, w \in Msg : Before(m, w)' <=> Before(m, w)  BY <1>1 DEF Before, Earlier, UserEntry
<1>8. Pairs(Pairing, log)'  BY <1>1, <1>2 DEF RecoveryInv, Pairs, Pair
<1>9. EntriesOnce'  BY <1>1 DEF RecoveryInv, LogSound, EntriesOnce, UserEntry
<1>10. NoOvercount'  BY <1>1, <1>2 DEF RecoveryInv, NoOvercount
<1>11. LeftInOrder'
  <2>1. LeftInOrder  BY DEF RecoveryInv
  <2>2. Left \subseteq Msg /\ \A k \in DOMAIN Unmatched : Unmatched[k] \in Msg
    BY <2>1, UnmatchedFacts DEF LeftInOrder, AllStored
  <2> QED  BY <1>3, <1>4, <1>6, <1>7, <2>1, <2>2 DEF LeftInOrder
<1> QED  BY <1>3, <1>4, <1>6, <1>7, <1>8, <1>9, <1>10, <1>11

\* A message at the end of the log changes nothing before it.
LEMMA LogGrows ==
  ASSUME RecoveryInv, NEW e \in Fact, log' = Append(log, e), e.count <= Len(Unmatched)
  PROVE  /\ log' \in Seq(Fact) /\ Len(log') = Len(log) + 1 /\ DOMAIN log' = 1..Len(log) + 1
         /\ log'[Len(log) + 1] = e
         /\ \A k \in DOMAIN log : k \in DOMAIN log' /\ log'[k] = log[k]
         /\ Pairs(Pairing, log)' /\ NoOvercount'
         /\ Unmatched' = Pair(Unmatched, e)
<1>1. log \in Seq(Fact) /\ Pairs(Pairing, log) /\ Len(log) \in Nat /\ DOMAIN log = 1..Len(log)
  BY LogFacts DEF RecoveryInv, RecoveryTypeOK
<1>2. /\ log' \in Seq(Fact) /\ Len(log') = Len(log) + 1 /\ log'[Len(log) + 1] = e
      /\ \A k \in 1..Len(log) : log'[k] = log[k]
  BY <1>1, AppendProperties
<1>3. DOMAIN log' = 1..Len(log) + 1  BY <1>2, LenProperties
<1>4. /\ Pairs(Pairing, log)' /\ Unmatched' = Pair(Unmatched, e)
      /\ \A k \in 0..Len(log) : Pairing'[k] = Pairing[k]
  BY <1>1, PairingGrows
<1>5. ASSUME NEW k \in DOMAIN log' PROVE log'[k].count <= Len(Pairing'[k - 1])
  <2>1. k - 1 \in 0..Len(log)  BY <1>3, <1>1
  <2>2. Pairing'[k - 1] = Pairing[k - 1]  BY <2>1, <1>4
  <2>3. CASE k \in 1..Len(log)
    <3>1. log[k].count <= Len(Pairing[k - 1])  BY <2>3, <1>1 DEF RecoveryInv, NoOvercount
    <3> QED  BY <3>1, <2>2, <2>3, <1>2
  <2>4. CASE k = Len(log) + 1
    <3>1. k - 1 = Len(log)  BY <2>4, <1>1
    <3> QED  BY <3>1, <2>2, <2>4, <1>2 DEF Unmatched
  <2> QED  BY <2>3, <2>4, <1>3, <1>1
<1>6. NoOvercount'  BY <1>5 DEF NoOvercount
<1>7. \A k \in DOMAIN log : k \in DOMAIN log' /\ log'[k] = log[k]  BY <1>1, <1>2, <1>3
<1> QED  BY <1>2, <1>3, <1>4, <1>6, <1>7

\* A terminal takes the oldest messages away.
LEMMA TerminalAppended ==
  ASSUME RecoveryInv, NEW e \in Fact, e.kind # "user", log' = Append(log, e),
         e.count <= Len(Unmatched)
  PROVE  /\ log' \in Seq(Fact) /\ Pairs(Pairing, log)' /\ EntriesOnce' /\ LeftInOrder' /\ NoOvercount'
         /\ AllStored' = AllStored /\ Left' \subseteq Left
         /\ \A m, w \in Msg : Before(m, w)' <=> Before(m, w)
         /\ \A m \in Msg : Answered(m)' <=> Answered(m) \/ e = Reply(m)
         /\ Len(Unmatched') = Len(Unmatched) - e.count
<1> DEFINE n == Len(log) + 1
           c == e.count
<1>1. /\ log' \in Seq(Fact) /\ DOMAIN log' = 1..n /\ log'[n] = e
      /\ \A k \in DOMAIN log : k \in DOMAIN log' /\ log'[k] = log[k]
      /\ Pairs(Pairing, log)' /\ NoOvercount' /\ Unmatched' = Pair(Unmatched, e)
  BY LogGrows
<1>2. Len(log) \in Nat /\ DOMAIN log = 1..Len(log)  BY LogFacts DEF RecoveryInv
<1>3. \A k \in DOMAIN log' : k \in DOMAIN log \/ k = n  BY <1>1, <1>2
<1>4. n \in DOMAIN log' /\ \A m \in Msg : e # UserEntry(m)  BY <1>1, <1>2 DEF UserEntry
<1>5. \A m \in Msg : Stored(m)' <=> Stored(m)
  BY <1>1, <1>3, <1>4 DEF Stored, UserEntry
<1>6. AllStored' = AllStored  BY <1>5 DEF AllStored
<1>7. \A m \in Msg : Answered(m)' <=> Answered(m) \/ e = Reply(m)
  BY <1>1, <1>3, <1>4 DEF Answered, Reply
<1>8. \A m, w \in Msg : Before(m, w)' <=> Before(m, w)
  BY <1>1, <1>3, <1>4 DEF Before, Earlier, UserEntry
<1>9. EntriesOnce'
  <2>1. EntriesOnce  BY DEF RecoveryInv, LogSound
  <2>2. \A k \in DOMAIN log' : log'[k].kind = "user" => k \in DOMAIN log /\ log'[k] = log[k]
    BY <1>1, <1>3
  <2>3. \A j \in DOMAIN log' : j \in DOMAIN log => log'[j] = log[j]  BY <1>1
  <2>4. \A j \in DOMAIN log' : j \notin DOMAIN log => log'[j].kind # "user"  BY <1>1, <1>3
  <2>5. \A j, k \in DOMAIN log' : log'[j].kind = "user" /\ log'[j] = log'[k] => j = k
    <3> SUFFICES ASSUME NEW j \in DOMAIN log', NEW k \in DOMAIN log', log'[j].kind = "user", log'[j] = log'[k]
                 PROVE  j = k
      OBVIOUS
    <3>1. j \in DOMAIN log /\ k \in DOMAIN log /\ log'[j] = log[j] /\ log'[k] = log[k]  BY <2>2
    <3> QED  BY <3>1, <2>1 DEF EntriesOnce
  <2>6. \A k \in DOMAIN log' : log'[k].kind = "user" => log'[k].of \in Msg /\ log'[k] = UserEntry(log'[k].of)
    BY <2>1, <2>2 DEF EntriesOnce
  <2> QED  BY <2>5, <2>6 DEF EntriesOnce, UserEntry
<1>10. /\ Unmatched \in Seq(Msg) /\ Len(Unmatched) \in Nat /\ DOMAIN Unmatched = 1..Len(Unmatched)
       /\ c \in Nat /\ c <= Len(Unmatched)
       /\ \A i \in DOMAIN Unmatched : Unmatched[i] \in Msg
  BY UnmatchedFacts DEF RecoveryInv, LeftInOrder, Fact
<1>11. /\ Unmatched' \in Seq(Msg) /\ Len(Unmatched') = Len(Unmatched) - c
       /\ \A i \in 1..Len(Unmatched) - c : Unmatched'[i] = Unmatched[i + c]
  <2>1. Unmatched' = SubSeq(Unmatched, c + 1, Len(Unmatched))  BY <1>1 DEF Pair
  <2> DEFINE l == Len(Unmatched)
  <2>2. l \in Nat /\ c \in Nat /\ c <= l  BY <1>10
  <2> DEFINE first == c + 1
             rest == SubSeq(Unmatched, first, l)
  <2>3. first \in Int /\ l \in Int /\ \A i \in first..l : i \in 1..l  BY <2>2
  <2>4. \A i \in first..l : Unmatched[i] \in Msg  BY <2>3, <1>10
  <2>5. l - first + 1 = l - c /\ l - c \in Nat /\ (first <= l \/ l - c = 0)
        /\ \A i \in 1..l - c : first + i - 1 = i + c
    BY <2>2
  <2> HIDE DEF first, l, c
  <2>6. /\ rest \in Seq(Msg) /\ Len(rest) = IF first <= l THEN l - first + 1 ELSE 0
        /\ \A i \in 1..l - first + 1 : rest[i] = Unmatched[first + i - 1]
    BY <2>3, <2>4, SubSeqProperties
  <2>7. Unmatched' = rest  BY <2>1 DEF first, l
  <2> HIDE DEF rest
  <2>8. \A i \in 1..l - c : rest[i] = Unmatched[i + c]  BY <2>5, <2>6
  <2>9. Len(rest) = l - c  BY <2>5, <2>6
  <2> QED  BY <2>6, <2>7, <2>8, <2>9 DEF l
<1>12. DOMAIN Unmatched' = 1..Len(Unmatched) - c
       /\ \A i \in DOMAIN Unmatched' : i + c \in DOMAIN Unmatched /\ Unmatched'[i] = Unmatched[i + c] /\ i \in Nat
  <2> DEFINE l == Len(Unmatched)
  <2>1. l \in Nat /\ DOMAIN Unmatched = 1..l /\ c \in Nat /\ c <= l  BY <1>10
  <2>2. DOMAIN Unmatched' = 1..l - c  BY <1>11, LenProperties
  <2>3. \A i \in 1..l - c : Unmatched'[i] = Unmatched[i + c]  BY <1>11
  <2> HIDE DEF l, c
  <2>4. \A i \in 1..l - c : i + c \in 1..l /\ i \in Nat  BY <2>1
  <2> QED  BY <2>1, <2>2, <2>3, <2>4 DEF l
<1>13. Left' \subseteq Left  BY <1>12 DEF Left
<1>14. LeftInOrder'
  <2>1. LeftInOrder /\ RecoveryTypeOK /\ LogSound  BY DEF RecoveryInv
  <2>2. ASSUME NEW i \in DOMAIN Unmatched', NEW j \in DOMAIN Unmatched', i < j
        PROVE  Earlier(log', Unmatched'[i], Unmatched'[j])
    <3>1. i + c < j + c /\ i + c \in DOMAIN Unmatched /\ j + c \in DOMAIN Unmatched
      BY <2>2, <1>10, <1>12
    <3>2. Before(Unmatched[i + c], Unmatched[j + c])  BY <3>1, <2>1 DEF LeftInOrder
    <3>3. Unmatched[i + c] \in Msg /\ Unmatched[j + c] \in Msg  BY <3>1, <1>10
    <3>4. PICK x, y \in Msg : x = Unmatched[i + c] /\ y = Unmatched[j + c]  BY <3>3
    <3>5. Before(x, y)'  BY <3>2, <3>4, <1>8
    <3>6. Earlier(log', x, y)  BY <3>5 DEF Before, Earlier, UserEntry
    <3> QED  BY <3>6, <3>4, <1>12
  <2>3. ASSUME NEW m \in Left', NEW w \in Msg, Before(m, w)
        PROVE  w \in Left'
    <3>1. PICK i \in DOMAIN Unmatched' : m = Unmatched'[i]  BY DEF Left
    <3>2. m = Unmatched[i + c] /\ i + c \in DOMAIN Unmatched /\ m \in Left  BY <3>1, <1>12, <1>13
    <3>3. w \in Left  BY <2>1, <2>3, <3>2 DEF LeftInOrder
    <3>4. PICK j \in DOMAIN Unmatched : w = Unmatched[j]  BY <3>3 DEF Left
    <3>5. m \in AllStored /\ w \in AllStored  BY <3>2, <3>3, <2>1 DEF LeftInOrder
    <3>6. ~ (j < i + c)
      <4>1. j < i + c => Before(w, m)  BY <3>2, <3>4, <2>1 DEF LeftInOrder
      <4> QED  BY <4>1, <3>5, <2>1, <2>3, BeforeOrders
    <3>7. j - c \in 1..Len(Unmatched) - c /\ (j - c) + c = j  BY <3>4, <3>6, <1>10, <1>12
    <3> QED  BY <3>4, <3>7, <1>12 DEF Left
  <2>4. Left' \subseteq AllStored'  BY <1>6, <1>13, <2>1 DEF LeftInOrder
  <2>5. \A m \in Left', w \in Msg : Before(m, w)' => w \in Left'
    <3>1. Left' \subseteq Msg  BY <2>4 DEF AllStored
    <3> QED  BY <3>1, <2>3, <1>8
  <2> QED  BY <1>11, <2>2, <2>4, <2>5 DEF LeftInOrder, Before, Earlier, UserEntry
<1> QED  BY <1>1, <1>6, <1>7, <1>8, <1>9, <1>11, <1>13, <1>14

\* A message that is stored stands behind all the others.
LEMMA UserAppended ==
  ASSUME RecoveryInv, NEW m \in Msg, post[m] = "checked",
         log' = Append(log, UserEntry(m)), cancelled' = cancelled
  PROVE  /\ log' \in Seq(Fact) /\ Pairs(Pairing, log)' /\ EntriesOnce' /\ LeftInOrder' /\ NoOvercount'
         /\ m \notin AllStored /\ AllStored' = AllStored \cup {m} /\ AllDone' = AllDone
         /\ Left' = Left \cup {m} /\ Len(Unmatched') = Len(Unmatched) + 1
         /\ \A x, w \in Msg : Before(x, w) => Before(x, w)'
<1> DEFINE n == Len(log) + 1
           e == UserEntry(m)
<1>1. /\ Unmatched \in Seq(Msg) /\ Len(Unmatched) \in Nat /\ DOMAIN Unmatched = 1..Len(Unmatched)
      /\ \A i \in DOMAIN Unmatched : Unmatched[i] \in Msg
  BY UnmatchedFacts DEF RecoveryInv, LeftInOrder
<1>2. e \in Fact /\ e.count <= Len(Unmatched)  BY <1>1 DEF UserEntry, Fact
<1>3. /\ log' \in Seq(Fact) /\ DOMAIN log' = 1..n /\ log'[n] = e
      /\ \A k \in DOMAIN log : k \in DOMAIN log' /\ log'[k] = log[k]
      /\ Pairs(Pairing, log)' /\ NoOvercount' /\ Unmatched' = Pair(Unmatched, e)
  <2>1. PICK f \in Fact : f = e  BY <1>2
  <2>2. log' = Append(log, f) /\ f.count <= Len(Unmatched)  BY <1>2, <2>1
  <2> HIDE DEF e
  <2>3. /\ log' \in Seq(Fact) /\ DOMAIN log' = 1..n /\ log'[n] = f
        /\ \A k \in DOMAIN log : k \in DOMAIN log' /\ log'[k] = log[k]
        /\ Pairs(Pairing, log)' /\ NoOvercount' /\ Unmatched' = Pair(Unmatched, f)
    BY <2>2, LogGrows
  <2> QED  BY <2>1, <2>3
<1>4. Len(log) \in Nat /\ DOMAIN log = 1..Len(log)  BY LogFacts DEF RecoveryInv
<1>5. \A k \in DOMAIN log' : k \in DOMAIN log \/ k = n  BY <1>3, <1>4
<1>6. n \in DOMAIN log' /\ \A k \in DOMAIN log : k < n /\ k \in Nat  BY <1>3, <1>4
<1>7. m \notin AllStored /\ \A k \in DOMAIN log : log[k] # e
  BY DEF RecoveryInv, LogSound, AllStored, Stored
<1>8. \A x \in Msg : Stored(x)' <=> Stored(x) \/ x = m
  BY <1>3, <1>5, <1>6 DEF Stored, UserEntry
<1>9. AllStored' = AllStored \cup {m}  BY <1>8 DEF AllStored
<1>10. \A x \in Msg : Answered(x)' <=> Answered(x)
  BY <1>3, <1>5, <1>6 DEF Answered, Reply, UserEntry
<1>11. AllDone' = AllDone  BY <1>10 DEF AllDone, Done
<1>12. \A x, w \in Msg : Before(x, w)' <=> (Before(x, w) \/ (x \in AllStored /\ w = m))
  <2> TAKE x, w \in Msg
  <2>1. Before(x, w) => Before(x, w)'  BY <1>3, <1>4 DEF Before, Earlier, UserEntry
  <2>2. x \in AllStored /\ w = m => Before(x, w)'
    BY <1>3, <1>6 DEF Before, Earlier, UserEntry, AllStored, Stored
  <2>3. ASSUME Before(x, w)' PROVE Before(x, w) \/ (x \in AllStored /\ w = m)
    <3>1. PICK j, k \in DOMAIN log' : j < k /\ log'[j] = UserEntry(x) /\ log'[k] = UserEntry(w)
      BY <2>3 DEF Before, Earlier, UserEntry
    <3>2. j \in DOMAIN log /\ log'[j] = log[j]
      <4>1. k \in 1..n /\ j \in 1..n  BY <3>1, <1>3
      <4>2. j # n  BY <4>1, <3>1, <1>4
      <4> QED  BY <4>2, <1>5, <1>3
    <3>3. x \in AllStored  BY <3>1, <3>2 DEF AllStored, Stored
    <3>4. CASE k = n
      <4>1. w = m  BY <3>1, <3>4, <1>3 DEF UserEntry
      <4> QED  BY <4>1, <3>3
    <3>5. CASE k \in DOMAIN log
      <4>1. log[k] = UserEntry(w) /\ log[j] = UserEntry(x)  BY <3>1, <3>2, <3>5, <1>3
      <4> QED  BY <4>1, <3>1, <3>2, <3>5 DEF Before, Earlier
    <3> QED  BY <3>4, <3>5, <1>5
  <2> QED  BY <2>1, <2>2, <2>3
<1>13. EntriesOnce'
  <2>1. EntriesOnce  BY DEF RecoveryInv, LogSound
  <2>2. \A j \in DOMAIN log' : (j \in DOMAIN log /\ log'[j] = log[j] /\ log'[j] # e) \/ (j = n /\ log'[j] = e)
    BY <1>3, <1>5, <1>7
  <2>3. \A j, k \in DOMAIN log' : log'[j].kind = "user" /\ log'[j] = log'[k] => j = k
    <3> SUFFICES ASSUME NEW j \in DOMAIN log', NEW k \in DOMAIN log', log'[j].kind = "user", log'[j] = log'[k]
                 PROVE  j = k
      OBVIOUS
    <3> HIDE DEF e, n
    <3> QED  BY <2>1, <2>2 DEF EntriesOnce
  <2>4. \A k \in DOMAIN log' : log'[k].kind = "user" => log'[k].of \in Msg /\ log'[k] = UserEntry(log'[k].of)
    <3>1. e.of \in Msg /\ e = UserEntry(e.of)  BY DEF UserEntry
    <3> HIDE DEF e, n
    <3> QED  BY <3>1, <2>1, <2>2 DEF EntriesOnce
  <2> QED  BY <2>3, <2>4 DEF EntriesOnce, UserEntry
<1>14. Unmatched' = Append(Unmatched, m)  BY <1>3 DEF Pair, UserEntry
<1> DEFINE l == Len(Unmatched)
<1>15. /\ Unmatched' \in Seq(Msg) /\ Len(Unmatched') = l + 1 /\ DOMAIN Unmatched' = 1..l + 1
       /\ Unmatched'[l + 1] = m /\ \A i \in 1..l : Unmatched'[i] = Unmatched[i]
  <2>1. /\ Unmatched' \in Seq(Msg) /\ Len(Unmatched') = l + 1
        /\ Unmatched'[l + 1] = m /\ \A i \in 1..l : Unmatched'[i] = Unmatched[i]
    BY <1>1, <1>14, AppendProperties
  <2> QED  BY <2>1, LenProperties
<1>16. \A i \in DOMAIN Unmatched' : i \in DOMAIN Unmatched \/ i = l + 1
  BY <1>1, <1>15
<1>17. l + 1 \in DOMAIN Unmatched' /\ \A i \in DOMAIN Unmatched : i \in DOMAIN Unmatched' /\ i < l + 1
  BY <1>1, <1>15
<1>18. Left' = Left \cup {m}
  <2>1. Left' = {Unmatched'[i] : i \in DOMAIN Unmatched'}  BY DEF Left
  <2> QED  BY <2>1, <1>1, <1>15, <1>16, <1>17 DEF Left
<1>19. LeftInOrder'
  <2>1. LeftInOrder  BY DEF RecoveryInv
  <2>2. ASSUME NEW i \in DOMAIN Unmatched', NEW j \in DOMAIN Unmatched', i < j
        PROVE  Earlier(log', Unmatched'[i], Unmatched'[j])
    <3>1. i \in DOMAIN Unmatched /\ Unmatched'[i] = Unmatched[i] /\ Unmatched[i] \in Msg
      <4>1. i # l + 1  BY <2>2, <1>1, <1>15
      <4> QED  BY <4>1, <1>1, <1>15, <1>16
    <3>2. PICK x \in Msg : x = Unmatched[i]  BY <3>1
    <3>3. CASE j = l + 1
      <4>1. x \in AllStored  BY <3>1, <3>2, <2>1 DEF LeftInOrder, Left
      <4>2. Before(x, m)'  BY <4>1, <1>12
      <4>3. Earlier(log', x, m)  BY <4>2 DEF Before, Earlier, UserEntry
      <4> QED  BY <4>3, <3>1, <3>2, <3>3, <1>15
    <3>4. CASE j \in DOMAIN Unmatched
      <4>1. Before(Unmatched[i], Unmatched[j]) /\ Unmatched[j] \in Msg
        BY <3>1, <3>4, <2>1, <2>2, <1>1 DEF LeftInOrder
      <4>2. PICK y \in Msg : y = Unmatched[j]  BY <4>1
      <4>3. Before(x, y)'  BY <4>1, <4>2, <3>2, <1>12
      <4>4. Earlier(log', x, y)  BY <4>3 DEF Before, Earlier, UserEntry
      <4> QED  BY <4>4, <4>2, <3>1, <3>2, <3>4, <1>1, <1>15
    <3> QED  BY <3>3, <3>4, <1>16
  <2>3. \A x \in Left', w \in Msg : Before(x, w)' => w \in Left'
    <3> SUFFICES ASSUME NEW x \in Left', NEW w \in Msg, Before(x, w)' PROVE w \in Left'
      OBVIOUS
    <3>1. x \in Left \cup {m} /\ x \in Msg  BY <1>18, <2>1 DEF LeftInOrder, AllStored
    <3>2. Before(x, w) \/ w = m  BY <3>1, <1>12
    <3>3. Before(x, w) => x \in AllStored  BY <3>1 DEF Before, Earlier, AllStored, Stored
    <3>4. Before(x, w) => w \in Left  BY <3>1, <3>3, <1>7, <2>1 DEF LeftInOrder
    <3> QED  BY <3>2, <3>4, <1>18
  <2>4. Left' \subseteq AllStored'  BY <1>9, <1>18, <2>1 DEF LeftInOrder
  <2> QED  BY <1>15, <2>2, <2>3, <2>4 DEF LeftInOrder, Before, Earlier, UserEntry
<1> QED  BY <1>3, <1>7, <1>9, <1>11, <1>12, <1>13, <1>15, <1>18, <1>19

-----------------------------------------------------------------------------
\* The last messages are left over when the oldest ones are done.
LEMMA ExactMatches ==
  ASSUME RecoveryInv
  PROVE  MatchExact
<1> SUFFICES ASSUME OldestFirst PROVE Left = AllStored \ AllDone
  BY DEF MatchExact, AllStored, AllDone
<1> DEFINE Rest == AllStored \ AllDone
<1>1. RecoveryTypeOK /\ LogSound /\ LeftInOrder  BY DEF RecoveryInv
<1>2. \A m, w \in AllStored : Before(m, w) /\ w \in AllDone => m \in AllDone
  <2> SUFFICES ASSUME NEW m \in AllStored, NEW w \in AllStored, Before(m, w), w \in AllDone
               PROVE  m \in AllDone
    OBVIOUS
  <2>1. PICK j, k \in DOMAIN log : j < k /\ log[j] = UserEntry(m) /\ log[k] = UserEntry(w)
    BY DEF Before, Earlier
  <2>2. log[j].kind = "user" /\ log[k].kind = "user" /\ log[j].of = m /\ log[k].of = w
    BY <2>1 DEF UserEntry
  <2>3. Done(log[k].of)  BY <2>2 DEF AllDone
  <2>4. Done(log[j].of)  BY <2>1, <2>2, <2>3 DEF OldestFirst
  <2> QED  BY <2>2, <2>4 DEF AllDone, AllStored
<1>3. ~ Forgotten
  <2> SUFFICES ASSUME NEW w \in AllStored, w \notin AllDone, NEW m \in AllDone, Before(w, m)
               PROVE  FALSE
    BY DEF Forgotten
  <2>1. m \in AllStored  BY <1>1 DEF LogSound
  <2> QED  BY <2>1, <1>2
<1>4. Exact  BY <1>3 DEF RecoveryInv
<1>5. AllDone \subseteq AllStored /\ IsFiniteSet(AllStored)  BY <1>1 DEF LogSound
<1>6. /\ IsFiniteSet(AllDone) /\ Cardinality(AllStored) \in Nat /\ Cardinality(AllDone) \in Nat
  BY <1>1, HandsFinite
<1>7. IsFiniteSet(Rest) /\ Cardinality(Rest) = Cardinality(AllStored) - Cardinality(AllDone)
  <2>1. AllStored \cap AllDone = AllDone  BY <1>5
  <2> QED  BY <2>1, <1>5, FS_Difference
<1>8. IsFiniteSet(Left) /\ Cardinality(Left) = Len(Unmatched) /\ Len(Unmatched) \in Nat
  BY <1>1, UnmatchedOnce, UnmatchedFacts DEF LeftInOrder
<1>9. Cardinality(Rest) = Cardinality(Left)  BY <1>4, <1>6, <1>7, <1>8 DEF Exact
<1>10. Left \subseteq Rest \/ Rest \subseteq Left
  <2> SUFFICES ASSUME NEW x \in Left, x \notin Rest, NEW y \in Rest, y \notin Left PROVE FALSE
    OBVIOUS
  <2>1. x \in AllStored /\ y \in AllStored /\ x \in AllDone /\ y \notin AllDone /\ y \in Msg
    BY <1>1 DEF LeftInOrder, AllStored
  <2>2. ~ Before(x, y)  BY <2>1, <1>1 DEF LeftInOrder
  <2>3. ~ Before(y, x)  BY <2>1, <1>2
  <2> QED  BY <2>1, <2>2, <2>3, <1>1, BeforeOrders
<1> HIDE DEF Rest
<1>11. Left = Rest  BY <1>7, <1>8, <1>9, <1>10, FS_Subset
<1> QED  BY <1>11 DEF Rest

Hands == Posting \cup Marked \cup Queued \cup Active
\* No two hold the same turn, and nobody holds one twice.
Apart ==
  /\ Posting \cap (Marked \cup Queued \cup Active) = {} /\ Queued \cap Active = {}
  /\ \A i, j \in DOMAIN accepted : accepted[i] = accepted[j] => i = j

\* A step that leaves the log alone and hands out no turn that nobody held.
LEMMA HandsMove ==
  ASSUME RecoveryInv, UNCHANGED <<log, cancelled>>, RecoveryTypeOK',
         Hands' \subseteq Hands,
         (({runner.of} \ {NoMsg}) \cup barrier.turns)' \subseteq AllStored,
         \A m \in AllStored : post'[m] \in {"stored", "over"},
         \A m \in Msg : post[m] = "over" => post'[m] = "over",
         HandsEmpty', Covered', Exact => Apart'
  PROVE  RecoveryInv'
<1>1. /\ Unmatched' = Unmatched /\ Left' = Left /\ AllStored' = AllStored /\ AllDone' = AllDone
      /\ \A m, w \in Msg : Before(m, w)' <=> Before(m, w)
      /\ Pairs(Pairing, log)' /\ EntriesOnce' /\ LeftInOrder' /\ NoOvercount'
  BY LogKept
<1>2. LogSound /\ RecoveryTypeOK /\ LeftInOrder  BY DEF RecoveryInv
<1>3. AllDone \subseteq AllStored /\ Posting \subseteq AllStored /\ Queued \subseteq AllStored
      /\ Marked \subseteq AllStored /\ Active \subseteq AllStored /\ IsFiniteSet(AllStored)
  BY <1>2 DEF LogSound, Marked, Active
<1>4. Posting' \subseteq AllStored /\ Queued' \subseteq AllStored  BY <1>3 DEF Hands
<1>5. LogSound'
  <2>1. \A m \in AllStored' : post'[m] \in {"stored", "over"}  BY <1>1
  <2>2. (AllDone \cup Posting \cup Queued \cup ({runner.of} \ {NoMsg}) \cup barrier.turns)' \subseteq AllStored'
    BY <1>1, <1>3, <1>4
  <2> QED  BY <2>1, <2>2, <1>1, <1>3 DEF LogSound
<1>6. CASE Exact
  <2>1. Hands' \cap AllDone' = {}  BY <1>1, <1>6 DEF Exact, Hands
  <2>2. Exact'  BY <2>1, <1>1, <1>6 DEF Exact, Hands, Apart
  <2> QED  BY <2>2, <1>1, <1>5 DEF RecoveryInv
<1>7. CASE Forgotten
  <2>1. PICK w \in AllStored : /\ w \notin AllDone \cup Left \cup Marked \cup Queued \cup Active
                               /\ post[w] = "over" /\ \E m \in AllDone : Before(w, m)
    BY <1>7 DEF Forgotten
  <2>2. PICK m \in AllDone : Before(w, m)  BY <2>1
  <2>3. w \in Msg /\ m \in Msg /\ w \notin Posting  BY <2>1 DEF AllStored, AllDone, Posting
  <2>4. w \notin Hands'  BY <2>1, <2>3 DEF Hands
  <2>5. Before(w, m)' /\ post'[w] = "over"  BY <2>1, <2>2, <2>3, <1>1
  <2>6. w \in AllStored' /\ w \notin (AllDone \cup Left \cup Marked \cup Queued \cup Active)' /\ m \in AllDone'
    BY <2>1, <2>4, <1>1 DEF Hands
  <2>7. Forgotten'  BY <2>5, <2>6 DEF Forgotten
  <2> QED  BY <2>7, <1>1, <1>5 DEF RecoveryInv
<1> QED  BY <1>6, <1>7 DEF RecoveryInv

\* Every step keeps the shapes.
LEMMA RecoveryTyped ==
  ASSUME RecoveryTypeOK, RecoveryNext, Unmatched \in Seq(Msg), IsFiniteSet(barrier.turns)
  PROVE  RecoveryTypeOK'
<1> USE RecoveryAssumption DEF RecoveryTypeOK, Fault
<1>0. faults' \in 0..MaxFaults
  <2>1. faults' = faults \/ (faults < MaxFaults /\ faults' = faults + 1)
    BY DEF RecoveryNext, CanEnqueue, Store, EnqueueUserMessage, TakeTurn, StartRun, CommitReply, FinishTurn,
           EndSilently, Cancel, StoreMarker, MarkerFails, Reopen, Crash, Restart
  <2> QED  BY <2>1
<1>1. ASSUME NEW m \in Msg, CanEnqueue(m) PROVE RecoveryTypeOK'
  BY <1>0, <1>1 DEF CanEnqueue
<1>2. ASSUME NEW m \in Msg, Store(m) PROVE RecoveryTypeOK'
  <2>1. UserEntry(m) \in Fact  BY DEF UserEntry, Fact
  <2>2. log' \in Seq(Fact)  BY <2>1, <1>2, AppendProperties DEF Store
  <2> QED  BY <2>2, <1>0, <1>2 DEF Store
<1>3. ASSUME NEW m \in Msg, EnqueueUserMessage(m) PROVE RecoveryTypeOK'
  <2>1. accepted' \in Seq(Msg)  BY <1>3, AppendProperties DEF EnqueueUserMessage
  <2> QED  BY <2>1, <1>0, <1>3 DEF EnqueueUserMessage
<1>4. CASE TakeTurn
  <2>1. Head(accepted) \in Msg /\ accepted' \in Seq(Msg)  BY <1>4, HeadTailProperties DEF TakeTurn
  <2> QED  BY <2>1, <1>0, <1>4 DEF TakeTurn
<1>5. CASE StartRun  BY <1>0, <1>5 DEF StartRun
<1>6. CASE CommitReply
  <2>1. Reply(runner.of) \in Fact  BY DEF Reply, Fact
  <2>2. log' \in Seq(Fact)  BY <2>1, <1>6, AppendProperties DEF CommitReply
  <2> QED  BY <2>2, <1>0, <1>6 DEF CommitReply
<1>7. CASE FinishTurn  BY <1>0, <1>7 DEF FinishTurn, NoRun
<1>8. CASE EndSilently  BY <1>0, <1>8 DEF EndSilently, NoRun
<1>9. CASE Cancel
  <2>1. Pending \subseteq Msg  BY DEF Pending, Queued
  <2>2. accepted' \in Seq(Msg)  BY <1>9 DEF Cancel
  <2> QED  BY <2>1, <2>2, <1>0, <1>9 DEF Cancel, NoRun
<1>11. CASE MarkerFails  BY <1>0, <1>11 DEF MarkerFails
<1>12. CASE Reopen  BY <1>0, <1>12 DEF Reopen, NoBarrier
<1>13. CASE Crash
  <2>1. /\ post' = [m \in Msg |-> IF post[m] \in {"checked", "stored"} THEN "over" ELSE post[m]]
        /\ accepted' = <<>> /\ runner' = NoRun /\ barrier' = NoBarrier /\ up' = FALSE
        /\ log' = log /\ started' = started /\ cancelled' = cancelled
    BY <1>13 DEF Crash
  <2>2. post' \in [Msg -> {"new", "checked", "stored", "over"}]  BY <2>1
  <2>3. accepted' \in Seq(Msg)
    <3>1. <<>> \in Seq(Msg)  OBVIOUS
    <3> QED  BY <3>1, <2>1
  <2>4. runner' \in [of : Msg \cup {NoMsg}, pc : {"begun", "running", "answered"}]  BY <2>1 DEF NoRun
  <2>5. barrier' \in [pc : {"open", "marker", "wait"}, turns : SUBSET Msg]  BY <2>1 DEF NoBarrier
  <2>6. up' \in BOOLEAN  BY <2>1
  <2>7. log' \in Seq(Fact) /\ started' \subseteq Msg /\ cancelled' \subseteq Msg  BY <2>1
  <2> QED  BY <2>2, <2>3, <2>4, <2>5, <2>6, <2>7, <1>0
<1>14. CASE Restart  BY <1>0, <1>14, CandidatesSound DEF Restart
<1>10. CASE StoreMarker
  <2>1. Marker(Cardinality(barrier.turns)) \in Fact  BY FS_CardinalityType DEF Marker, Fact
  <2>2. log' \in Seq(Fact)  BY <2>1, <1>10, AppendProperties DEF StoreMarker
  <2> QED  BY <2>2, <1>0, <1>10 DEF StoreMarker
<1> QED  BY <1>1, <1>2, <1>3, <1>4, <1>5, <1>6, <1>7, <1>8, <1>9, <1>10, <1>11, <1>12, <1>13, <1>14
         DEF RecoveryNext

\* What every step uses of the invariant.
LEMMA InvFacts ==
  ASSUME RecoveryInv
  PROVE  /\ RecoveryTypeOK /\ LogSound /\ LeftInOrder /\ HandsEmpty /\ Covered
         /\ Unmatched \in Seq(Msg) /\ Len(Unmatched) \in Nat
         /\ AllDone \cup Posting \cup Queued \cup ({runner.of} \ {NoMsg}) \cup barrier.turns \subseteq AllStored
         /\ \A m \in AllStored : m \in Msg /\ post[m] \in {"stored", "over"}
         /\ IsFiniteSet(AllStored) /\ IsFiniteSet(barrier.turns)
<1>1. LogSound  BY DEF RecoveryInv
<1>2. IsFiniteSet(AllStored) /\ barrier.turns \subseteq AllStored  BY <1>1 DEF LogSound
<1>3. IsFiniteSet(barrier.turns)  BY <1>2, FS_Subset
<1> QED  BY <1>1, <1>3, UnmatchedFacts DEF RecoveryInv, LeftInOrder, LogSound, AllStored

\* What is counted, and the bound.
LEMMA Counts ==
  ASSUME RecoveryInv
  PROVE  /\ Cardinality(Posting) \in Nat /\ Cardinality(Marked) \in Nat /\ Cardinality(Active) \in Nat
         /\ Len(accepted) \in Nat /\ Len(Unmatched) \in Nat
         /\ Covered
BY InvFacts, HandsFinite

\* A step from a state of the invariant keeps the shapes.
LEMMA NextTyped ==
  ASSUME RecoveryInv, RecoveryNext
  PROVE  RecoveryTypeOK'
BY InvFacts, RecoveryTyped

\* The draft begins empty.
LEMMA RecoveryInitInv == RecoveryInit => RecoveryInv
<1> SUFFICES ASSUME RecoveryInit PROVE RecoveryInv  OBVIOUS
<1> USE RecoveryAssumption DEF RecoveryInit
<1>1. RecoveryTypeOK  BY DEF RecoveryTypeOK, NoRun, NoBarrier
<1>2. Pairs(Pairing, log)
  <2> DEFINE P(h) == h = [k \in 0..Len(log) |-> IF k = 0 THEN <<>> ELSE Pair(h[k - 1], log[k])]
             none == [k \in 0..0 |-> <<>>]
  <2>1. Pairing = CHOOSE h : P(h)  BY DEF Pairing
  <2>2. P(none)
    <3>1. Len(log) = 0 /\ \A k \in 0..0 : k = 0  OBVIOUS
    <3> QED  BY <3>1
  <2>3. P(Pairing)
    <3> HIDE DEF P, none
    <3> QED  BY <2>1, <2>2
  <2> QED  BY <2>3 DEF Pairs
<1>3. Unmatched = <<>>
  <2>1. Len(log) = 0 /\ 0 \in 0..Len(log)  OBVIOUS
  <2>2. Pairing[0] = <<>>  BY <1>2, <2>1 DEF Pairs
  <2> QED  BY <2>1, <2>2 DEF Unmatched
<1>4. Left = {} /\ Len(Unmatched) = 0 /\ DOMAIN Unmatched = {} /\ Unmatched \in Seq(Msg)  BY <1>3 DEF Left
<1>5. DOMAIN log = {}  OBVIOUS
<1>6. AllStored = {} /\ AllDone = {}
  BY <1>5 DEF AllStored, AllDone, Stored, Done, Answered
<1>7. Posting = {} /\ Marked = {} /\ Queued = {} /\ Active = {}
  BY DEF Posting, Marked, Queued, Active, NoRun, NoBarrier
<1>8. IsFiniteSet({}) /\ Cardinality({}) = 0  BY FS_EmptySet
<1>9. LogSound /\ LeftInOrder /\ HandsEmpty /\ NoOvercount
  BY <1>4, <1>5, <1>6, <1>7, <1>8 DEF LogSound, EntriesOnce, LeftInOrder, HandsEmpty, NoOvercount, NoRun, NoBarrier
<1>10. Covered /\ Exact  BY <1>4, <1>6, <1>7, <1>8 DEF Covered, Exact
<1> QED  BY <1>1, <1>2, <1>9, <1>10 DEF RecoveryInv

\* A POST that is admitted holds nothing yet.
LEMMA CanEnqueueStep ==
  ASSUME RecoveryInv, RecoveryNext, NEW m \in Msg, CanEnqueue(m)
  PROVE  RecoveryInv'
<1> USE DEF CanEnqueue
<1>1. RecoveryTypeOK' /\ RecoveryTypeOK  BY NextTyped, InvFacts
<1>2. \A w \in Msg : post'[w] = IF w = m THEN "checked" ELSE post[w]  BY <1>1 DEF RecoveryTypeOK
<1>3. Posting' = Posting  BY <1>2 DEF Posting
<1>4. Marked' = Marked /\ Queued' = Queued /\ Active' = Active  BY DEF Marked, Queued, Active
<1>5. \A w \in AllStored : post'[w] \in {"stored", "over"}  BY <1>2, InvFacts
<1>6. HandsEmpty'  BY InvFacts DEF HandsEmpty
<1>7. Covered' /\ (Exact => Apart')
  <2>1. Unmatched' = Unmatched  BY LogKept
  <2>2. Covered'  BY <2>1, <1>3, <1>4, Counts DEF Covered
  <2> QED  BY <2>2, <1>3, <1>4 DEF Exact, Apart
<1> QED  BY <1>1, <1>2, <1>3, <1>4, <1>5, <1>6, <1>7, InvFacts, HandsMove DEF Hands

\* A POST gives its turn to the queue, or to nobody.
LEMMA EnqueueStep ==
  ASSUME RecoveryInv, RecoveryNext, NEW m \in Msg, EnqueueUserMessage(m)
  PROVE  RecoveryInv'
<1> USE DEF EnqueueUserMessage
<1>1. RecoveryTypeOK' /\ RecoveryTypeOK /\ LogSound  BY NextTyped, InvFacts
<1>2. \A w \in Msg : post'[w] = IF w = m THEN "over" ELSE post[w]  BY <1>1 DEF RecoveryTypeOK
<1>3. m \in Posting /\ Posting' = Posting \ {m}  BY <1>2 DEF Posting
<1>4. Marked' = Marked /\ Active' = Active  BY DEF Marked, Active
<1>5. \A w \in AllStored : post'[w] \in {"stored", "over"}  BY <1>2, InvFacts
<1>6. accepted \in Seq(Msg) /\ Len(accepted) \in Nat /\ DOMAIN accepted = 1..Len(accepted)
  BY <1>1 DEF RecoveryTypeOK
<1>7. CASE barrier.pc # "open"
  <2>1. accepted' = accepted  BY <1>7
  <2>2. Queued' = Queued  BY <2>1 DEF Queued
  <2>3. HandsEmpty'  BY <2>1, InvFacts DEF HandsEmpty
  <2>4. Cardinality(Posting') <= Cardinality(Posting) /\ Cardinality(Posting') \in Nat
    BY <1>1, <1>3, HandsFinite, FS_Subset, FS_CardinalityType
  <2>5. Unmatched' = Unmatched  BY LogKept
  <2>6. Covered'
    BY <2>1, <2>4, <2>5, <1>4, Counts DEF Covered
  <2>7. Exact => Apart'  BY <2>1, <2>2, <1>3, <1>4 DEF Exact, Apart
  <2> QED  BY <2>2, <2>3, <2>6, <2>7, <1>1, <1>2, <1>3, <1>4, <1>5, InvFacts, HandsMove DEF Hands
<1>8. CASE barrier.pc = "open"
  <2> DEFINE n == Len(accepted)
  <2>1. /\ accepted' \in Seq(Msg) /\ Len(accepted') = n + 1 /\ accepted'[n + 1] = m
        /\ \A i \in 1..n : accepted'[i] = accepted[i]
    BY <1>6, <1>8, AppendProperties
  <2>2. DOMAIN accepted' = 1..n + 1  BY <2>1, LenProperties
  <2>3. \A i \in DOMAIN accepted' : (i \in DOMAIN accepted /\ accepted'[i] = accepted[i])
                                    \/ (i = n + 1 /\ accepted'[i] = m)
    BY <2>1, <2>2, <1>6
  <2>4. \A i \in DOMAIN accepted : i \in DOMAIN accepted'  BY <2>2, <1>6
  <2>5. Queued' \subseteq Queued \cup {m}
    <3>1. Queued' = {accepted'[i] : i \in DOMAIN accepted'}  BY DEF Queued
    <3> QED  BY <3>1, <2>3 DEF Queued
  <2>6. HandsEmpty'  BY <1>8, InvFacts DEF HandsEmpty, NoBarrier
  <2>7. Covered'
    <3>1. Cardinality(Posting') = Cardinality(Posting) - 1
      BY <1>1, <1>3, HandsFinite, FS_RemoveElement
    <3>2. Unmatched' = Unmatched  BY LogKept
    <3> QED  BY <3>1, <3>2, <2>1, <1>4, <1>6, Counts DEF Covered
  <2>8. ASSUME Exact PROVE Apart'
    <3>1. Apart  BY <2>8 DEF Exact, Apart
    <3>2. \A i \in DOMAIN accepted : accepted[i] \in Queued /\ accepted[i] # m  BY <3>1, <1>3 DEF Apart, Queued
    <3>3. \A i, j \in DOMAIN accepted' : accepted'[i] = accepted'[j] => i = j
      BY <2>3, <3>1, <3>2 DEF Apart
    <3>4. Posting' \cap (Marked \cup Queued \cup Active)' = {} /\ Queued' \cap Active' = {}
      BY <3>1, <2>5, <1>3, <1>4 DEF Apart
    <3> QED  BY <3>3, <3>4 DEF Apart
  <2>9. Hands' \subseteq Hands  BY <2>5, <1>3, <1>4 DEF Hands
  <2> QED  BY <2>6, <2>7, <2>8, <2>9, <1>1, <1>2, <1>5, InvFacts, HandsMove
<1> QED  BY <1>7, <1>8

\* The runner takes the oldest turn of the queue.
LEMMA TakeTurnStep ==
  ASSUME RecoveryInv, RecoveryNext, TakeTurn
  PROVE  RecoveryInv'
<1> USE DEF TakeTurn
<1> DEFINE m == Head(accepted)
           n == Len(accepted)
<1>1. RecoveryTypeOK' /\ RecoveryTypeOK /\ LogSound  BY NextTyped, InvFacts
<1>2. accepted \in Seq(Msg) /\ n \in Nat /\ DOMAIN accepted = 1..n /\ accepted # <<>>
  BY <1>1 DEF RecoveryTypeOK
<1>3. /\ m \in Msg /\ m = accepted[1] /\ accepted' \in Seq(Msg) /\ Len(accepted') = n - 1
      /\ \A i \in 1..n - 1 : accepted'[i] = accepted[i + 1]
  BY <1>2, HeadTailProperties
<1>4. n > 0 /\ DOMAIN accepted' = 1..n - 1  BY <1>2, <1>3, LenProperties
<1>5. \A i \in DOMAIN accepted' : i + 1 \in DOMAIN accepted /\ accepted'[i] = accepted[i + 1] /\ i + 1 # 1
                                  /\ i \in Nat
  BY <1>2, <1>3, <1>4
<1>6. m \in Queued /\ Queued' \subseteq Queued
  <2>1. 1 \in DOMAIN accepted  BY <1>2, <1>4
  <2>2. Queued' = {accepted'[i] : i \in DOMAIN accepted'}  BY DEF Queued
  <2> QED  BY <2>1, <2>2, <1>3, <1>5 DEF Queued
<1>7. m # NoMsg /\ runner'.of = m /\ runner'.pc = "begun"  BY <1>3, RecoveryAssumption
<1>8. Active = {} /\ Active' = {m}  BY <1>7 DEF Active, NoRun
<1>9. Posting' = Posting /\ Marked' = Marked  BY DEF Posting, Marked
<1>10. HandsEmpty'  BY <1>2, <1>7, InvFacts DEF HandsEmpty
<1>11. Covered'
  <2>1. Cardinality(Active') = 1 /\ Cardinality(Active) = 0  BY <1>8, FS_Singleton, FS_EmptySet
  <2>2. Unmatched' = Unmatched  BY LogKept
  <2> QED  BY <2>1, <2>2, <1>2, <1>3, <1>9, Counts DEF Covered
<1>12. ASSUME Exact PROVE Apart'
  <2>1. Apart  BY <1>12 DEF Exact, Apart
  <2>2. m \notin Queued'
    <3>1. 1 \in DOMAIN accepted  BY <1>2, <1>4
    <3>2. \A i \in DOMAIN accepted' : accepted'[i] # m  BY <3>1, <2>1, <1>3, <1>5 DEF Apart
    <3>3. Queued' = {accepted'[i] : i \in DOMAIN accepted'}  BY DEF Queued
    <3> QED  BY <3>2, <3>3
  <2>3. \A i, j \in DOMAIN accepted' : accepted'[i] = accepted'[j] => i = j
    <3> TAKE i, j \in DOMAIN accepted'
    <3>1. accepted[i + 1] = accepted[j + 1] => i + 1 = j + 1  BY <1>5, <2>1 DEF Apart
    <3>2. i \in Nat /\ j \in Nat  BY <1>5
    <3> QED  BY <3>1, <3>2, <1>5
  <2>4. Posting' \cap (Marked \cup Queued \cup Active)' = {}
    BY <2>1, <1>6, <1>8, <1>9 DEF Apart
  <2> QED  BY <2>2, <2>3, <2>4, <1>8 DEF Apart
<1>13. Hands' \subseteq Hands  BY <1>6, <1>8, <1>9 DEF Hands
<1>14. (({runner.of} \ {NoMsg}) \cup barrier.turns)' \subseteq AllStored  BY <1>6, <1>7, InvFacts
<1>15. \A w \in AllStored : post'[w] \in {"stored", "over"}  BY InvFacts
<1> QED  BY <1>1, <1>10, <1>11, <1>12, <1>13, <1>14, <1>15, HandsMove

\* The runner goes on with its turn or gives it up.
LEMMA RunnerStep ==
  ASSUME RecoveryInv, RecoveryNext, StartRun \/ FinishTurn \/ EndSilently
  PROVE  RecoveryInv'
<1>1. RecoveryTypeOK' /\ RecoveryTypeOK /\ LogSound  BY NextTyped, InvFacts
<1>2. UNCHANGED <<log, cancelled, post, accepted, barrier, up>>
  BY DEF StartRun, FinishTurn, EndSilently
<1>3. Active' \subseteq Active /\ ({runner'.of} \ {NoMsg}) \subseteq {runner.of} \ {NoMsg}
  BY <1>1 DEF RecoveryTypeOK, StartRun, FinishTurn, EndSilently, NoRun, Active
<1>4. Queued' = Queued /\ Posting' = Posting /\ Marked' = Marked
  BY <1>2 DEF Queued, Posting, Marked
<1>5. HandsEmpty'
  <2>1. runner # NoRun  BY <1>1 DEF StartRun, FinishTurn, EndSilently, NoRun
  <2>2. up /\ barrier.pc = "open"  BY <2>1, InvFacts DEF HandsEmpty
  <2>3. runner'.pc # "begun" => runner'.of \in Msg
    BY <1>1 DEF StartRun, FinishTurn, EndSilently, NoRun, RecoveryTypeOK
  <2> QED  BY <2>2, <2>3, <1>2 DEF HandsEmpty
<1>6. Covered'
  <2>1. Cardinality(Active') <= Cardinality(Active) /\ Cardinality(Active') \in Nat
    BY <1>1, <1>3, HandsFinite, FS_Subset, FS_CardinalityType
  <2>2. Unmatched' = Unmatched  BY <1>2, LogKept
  <2> QED  BY <2>1, <2>2, <1>2, <1>4, Counts DEF Covered
<1>7. Exact => Apart'  BY <1>2, <1>3, <1>4 DEF Exact, Apart
<1>8. Hands' \subseteq Hands  BY <1>3, <1>4 DEF Hands
<1>9. (({runner.of} \ {NoMsg}) \cup barrier.turns)' \subseteq AllStored  BY <1>2, <1>3, InvFacts
<1>10. \A w \in AllStored : post'[w] \in {"stored", "over"}  BY <1>2, InvFacts
<1> QED  BY <1>1, <1>2, <1>5, <1>6, <1>7, <1>8, <1>9, <1>10, HandsMove

\* A cancellation takes over what the queue and the runner held.
LEMMA CancelStep ==
  ASSUME RecoveryInv, RecoveryNext, Cancel
  PROVE  RecoveryInv'
<1> USE DEF Cancel
<1>1. RecoveryTypeOK' /\ RecoveryTypeOK /\ LogSound  BY NextTyped, InvFacts
<1>2. Pending = Queued \cup Active  BY DEF Pending, Active
<1>3. Queued' = {} /\ Active' = {} /\ Marked = {} /\ Posting' = Posting
  BY DEF Queued, Active, Marked, Posting, NoRun
<1>4. Marked' = Pending
  <2>1. barrier'.turns = Pending /\ barrier'.pc = IF Pending = {} THEN "wait" ELSE "marker"  OBVIOUS
  <2> QED  BY <2>1 DEF Marked
<1>5. HandsEmpty'  BY DEF HandsEmpty, NoRun
<1>6. Covered'
  <2>1. IsFiniteSet(Queued) /\ Cardinality(Queued) <= Len(accepted) /\ Len(accepted) \in Nat
    BY <1>1, QueuedBound, HandsFinite
  <2>2. IsFiniteSet(Active)  BY <1>1, HandsFinite
  <2>3. Cardinality(Queued) \in Nat /\ Cardinality(Active) \in Nat
        /\ Cardinality(Queued \cap Active) \in Nat
    <3>1. IsFiniteSet(Queued \cap Active)  BY <2>1, FS_Intersection
    <3> QED  BY <3>1, <2>1, <2>2, FS_CardinalityType
  <2>4. Cardinality(Pending) = Cardinality(Queued) + Cardinality(Active) - Cardinality(Queued \cap Active)
        /\ IsFiniteSet(Pending)
    BY <2>1, <2>2, <1>2, FS_Union
  <2>5. Cardinality({}) = 0 /\ Len(accepted') = 0 /\ Cardinality(Pending) \in Nat
    BY <2>4, FS_EmptySet, FS_CardinalityType
  <2>6. Unmatched' = Unmatched  BY LogKept
  <2>7. Cardinality(Posting) \in Nat /\ Len(Unmatched) \in Nat  BY <1>1, HandsFinite, InvFacts
  <2>8. Cardinality(Posting) + Len(accepted) + Cardinality(Active) <= Len(Unmatched)
    <3>1. Covered /\ Cardinality(Marked) = 0  BY <2>5, <1>3, InvFacts
    <3> QED  BY <3>1, <2>1, <2>3, <2>7 DEF Covered
  <2>9. Cardinality(Pending) <= Len(accepted) + Cardinality(Active)  BY <2>1, <2>3, <2>4
  <2>10. Cardinality(Posting) + Cardinality(Pending) <= Len(Unmatched)
    BY <2>1, <2>3, <2>5, <2>7, <2>8, <2>9
  <2> QED  BY <2>5, <2>6, <2>7, <2>10, <1>3, <1>4 DEF Covered
<1>7. Exact => Apart'
  <2>1. DOMAIN accepted' = {}  OBVIOUS
  <2> QED  BY <2>1, <1>2, <1>3, <1>4 DEF Exact, Apart
<1>8. Hands' \subseteq Hands  BY <1>2, <1>3, <1>4 DEF Hands
<1>9. (({runner.of} \ {NoMsg}) \cup barrier.turns)' \subseteq AllStored
  <2>1. Pending \subseteq AllStored  BY <1>2, InvFacts DEF Active
  <2> QED  BY <2>1 DEF NoRun
<1>10. \A w \in AllStored : post'[w] \in {"stored", "over"}  BY InvFacts
<1> QED  BY <1>1, <1>5, <1>6, <1>7, <1>8, <1>9, <1>10, HandsMove

\* A cancellation that counts nothing gives its turns up.
LEMMA BarrierStep ==
  ASSUME RecoveryInv, RecoveryNext, MarkerFails \/ Reopen
  PROVE  RecoveryInv'
<1>1. RecoveryTypeOK' /\ RecoveryTypeOK /\ LogSound  BY NextTyped, InvFacts
<1>2. UNCHANGED <<log, cancelled, post, accepted, runner, up>>  BY DEF MarkerFails, Reopen
<1>3. Marked' = {} /\ barrier'.turns \subseteq barrier.turns
  BY <1>1 DEF RecoveryTypeOK, MarkerFails, Reopen, NoBarrier, Marked
<1>4. Queued' = Queued /\ Posting' = Posting /\ Active' = Active
  BY <1>2 DEF Queued, Posting, Active
<1>5. HandsEmpty'
  <2>1. barrier.pc # "open"  BY DEF MarkerFails, Reopen
  <2>2. up /\ accepted = <<>> /\ runner = NoRun  BY <2>1, InvFacts DEF HandsEmpty, NoBarrier
  <2> QED  BY <2>2, <1>2 DEF HandsEmpty, NoRun
<1>6. Covered'
  <2>1. Unmatched' = Unmatched  BY <1>2, LogKept
  <2>2. Cardinality({}) = 0  BY FS_EmptySet
  <2> QED  BY <2>1, <2>2, <1>2, <1>3, <1>4, Counts DEF Covered
<1>7. Exact => Apart'  BY <1>2, <1>3, <1>4 DEF Exact, Apart
<1>8. Hands' \subseteq Hands  BY <1>3, <1>4 DEF Hands
<1>9. (({runner.of} \ {NoMsg}) \cup barrier.turns)' \subseteq AllStored  BY <1>2, <1>3, InvFacts
<1>10. \A w \in AllStored : post'[w] \in {"stored", "over"}  BY <1>2, InvFacts
<1> QED  BY <1>1, <1>2, <1>5, <1>6, <1>7, <1>8, <1>9, <1>10, HandsMove

\* A crash empties every hand.
LEMMA CrashStep ==
  ASSUME RecoveryInv, RecoveryNext, Crash
  PROVE  RecoveryInv'
<1> USE DEF Crash
<1>1. RecoveryTypeOK' /\ RecoveryTypeOK /\ LogSound  BY NextTyped, InvFacts
<1>2. \A w \in Msg : post'[w] = IF post[w] \in {"checked", "stored"} THEN "over" ELSE post[w]  OBVIOUS
<1>3. Posting' = {} /\ Queued' = {} /\ Active' = {} /\ Marked' = {}
  BY <1>2 DEF Posting, Queued, Active, Marked, NoRun, NoBarrier
<1>4. HandsEmpty'
  <2>1. \A w \in Msg : post'[w] \in {"new", "over"}  BY <1>1, <1>2 DEF RecoveryTypeOK
  <2> QED  BY <2>1 DEF HandsEmpty, NoRun, NoBarrier
<1>5. Covered'
  <2>1. Unmatched' = Unmatched  BY LogKept
  <2>2. Cardinality({}) = 0 /\ Len(accepted') = 0  BY FS_EmptySet
  <2> QED  BY <2>1, <2>2, <1>3, Counts DEF Covered
<1>6. Apart' /\ Hands' \subseteq Hands
  <2>1. DOMAIN accepted' = {}  OBVIOUS
  <2> QED  BY <2>1, <1>3 DEF Apart, Hands
<1>7. (({runner.of} \ {NoMsg}) \cup barrier.turns)' \subseteq AllStored  BY DEF NoRun, NoBarrier
<1>8. \A w \in AllStored : post'[w] \in {"stored", "over"}  BY <1>2, InvFacts
<1> QED  BY <1>1, <1>2, <1>4, <1>5, <1>6, <1>7, <1>8, HandsMove

\* A message that is stored is unmatched, and in the hands of its POST.
LEMMA StoreStep ==
  ASSUME RecoveryInv, RecoveryNext, NEW m \in Msg, Store(m)
  PROVE  RecoveryInv'
<1> USE DEF Store
<1>1. RecoveryTypeOK' /\ RecoveryTypeOK /\ LogSound  BY NextTyped, InvFacts
<1>2. /\ log' \in Seq(Fact) /\ Pairs(Pairing, log)' /\ EntriesOnce' /\ LeftInOrder' /\ NoOvercount'
      /\ m \notin AllStored /\ AllStored' = AllStored \cup {m} /\ AllDone' = AllDone
      /\ Left' = Left \cup {m} /\ Len(Unmatched') = Len(Unmatched) + 1
      /\ \A x, w \in Msg : Before(x, w) => Before(x, w)'
  BY UserAppended
<1>3. \A w \in Msg : post'[w] = IF w = m THEN "stored" ELSE post[w]  BY <1>1 DEF RecoveryTypeOK
<1>4. Posting' = Posting \cup {m} /\ m \notin Posting  BY <1>3 DEF Posting
<1>5. Marked' = Marked /\ Queued' = Queued /\ Active' = Active  BY DEF Marked, Queued, Active
<1>6. LogSound'
  <2>1. IsFiniteSet(AllStored')  BY <1>2, InvFacts, FS_AddElement
  <2>2. \A w \in AllStored' : post'[w] \in {"stored", "over"}  BY <1>2, <1>3, InvFacts
  <2>3. (AllDone \cup Posting \cup Queued \cup ({runner.of} \ {NoMsg}) \cup barrier.turns)' \subseteq AllStored'
    BY <1>2, <1>4, <1>5, InvFacts
  <2> QED  BY <2>1, <2>2, <2>3, <1>2 DEF LogSound
<1>7. HandsEmpty'  BY InvFacts DEF HandsEmpty
<1>8. Covered'
  <2>1. Cardinality(Posting') = Cardinality(Posting) + 1  BY <1>1, <1>4, HandsFinite, FS_AddElement
  <2> QED  BY <2>1, <1>2, <1>5, Counts DEF Covered
<1>9. CASE Exact
  <2>1. m \notin AllDone \cup Marked \cup Queued \cup Active  BY <1>2, InvFacts DEF Marked, Active
  <2>2. Cardinality(AllStored') = Cardinality(AllStored) + 1  BY <1>2, InvFacts, FS_AddElement
  <2>3. Cardinality(AllStored') = Cardinality(AllDone') + Len(Unmatched')
    <3>1. Cardinality(AllDone) \in Nat /\ Len(Unmatched) \in Nat /\ Cardinality(AllStored) \in Nat
      BY <1>1, HandsFinite, InvFacts
    <3> QED  BY <3>1, <2>2, <1>2, <1>9 DEF Exact
  <2>4. Exact'  BY <2>1, <2>3, <1>2, <1>4, <1>5, <1>9 DEF Exact
  <2> QED  BY <2>4, <1>1, <1>2, <1>6, <1>7, <1>8 DEF RecoveryInv
<1>10. CASE Forgotten
  <2>1. PICK w \in AllStored : /\ w \notin AllDone \cup Left \cup Marked \cup Queued \cup Active
                               /\ post[w] = "over" /\ \E x \in AllDone : Before(w, x)
    BY <1>10 DEF Forgotten
  <2>2. PICK x \in AllDone : Before(w, x)  BY <2>1
  <2>3. w \in Msg /\ x \in Msg /\ w # m  BY <2>1, <1>2 DEF AllStored, AllDone
  <2>4. Before(w, x)' /\ post'[w] = "over"  BY <2>1, <2>2, <2>3, <1>2, <1>3
  <2>5. Forgotten'  BY <2>1, <2>3, <2>4, <1>2, <1>5 DEF Forgotten
  <2> QED  BY <2>5, <1>1, <1>2, <1>6, <1>7, <1>8 DEF RecoveryInv
<1> QED  BY <1>9, <1>10 DEF RecoveryInv

\* A terminal that answers the turns of S, which someone held, and nobody else does.
LEMMA TurnsAnswered ==
  ASSUME RecoveryInv, RecoveryTypeOK', NEW e \in Fact, e.kind # "user", log' = Append(log, e),
         NEW S \in SUBSET (Marked \cup Active), IsFiniteSet(S), e.count = Cardinality(S),
         e.count <= Len(Unmatched), AllDone' = AllDone \cup S,
         post' = post, accepted' = accepted, barrier'.turns = barrier.turns, runner'.of = runner.of,
         (Marked \cup Active)' = {}, Marked' = {}, Active' = {}, HandsEmpty', Covered'
  PROVE  RecoveryInv'
<1>1. /\ log' \in Seq(Fact) /\ Pairs(Pairing, log)' /\ EntriesOnce' /\ LeftInOrder' /\ NoOvercount'
      /\ AllStored' = AllStored /\ Left' \subseteq Left
      /\ \A m, w \in Msg : Before(m, w)' <=> Before(m, w)
      /\ Len(Unmatched') = Len(Unmatched) - e.count
  BY TerminalAppended
<1>2. LogSound /\ RecoveryTypeOK  BY InvFacts
<1>3. Posting' = Posting /\ Queued' = Queued  BY DEF Posting, Queued
<1>4. S \subseteq AllStored  BY InvFacts DEF Marked, Active
<1>5. LogSound'
  <2>1. \A w \in AllStored' : post'[w] \in {"stored", "over"}  BY <1>1, InvFacts
  <2>2. (AllDone \cup Posting \cup Queued \cup ({runner.of} \ {NoMsg}) \cup barrier.turns)' \subseteq AllStored'
    BY <1>1, <1>3, <1>4, InvFacts
  <2> QED  BY <2>1, <2>2, <1>1, InvFacts DEF LogSound
<1>6. CASE Exact
  <2>1. S \cap AllDone = {} /\ S \cap Posting = {}  BY <1>6 DEF Exact
  <2>2. Cardinality(AllDone') = Cardinality(AllDone) + Cardinality(S)
    <3>1. IsFiniteSet(AllDone) /\ Cardinality(AllDone) \in Nat /\ Cardinality(S) \in Nat
      BY <1>2, HandsFinite, FS_CardinalityType
    <3>2. Cardinality(AllDone \cap S) = 0  BY <2>1, FS_EmptySet
    <3>3. Cardinality(AllDone \cup S) = Cardinality(AllDone) + Cardinality(S) - Cardinality(AllDone \cap S)
      BY <3>1, FS_Union
    <3> QED  BY <3>1, <3>2, <3>3
  <2>3. Cardinality(AllStored') = Cardinality(AllDone') + Len(Unmatched')
    <3>1. Cardinality(AllDone) \in Nat /\ Len(Unmatched) \in Nat /\ Cardinality(AllStored) \in Nat
          /\ Cardinality(S) \in Nat
      BY <1>2, HandsFinite, InvFacts, FS_CardinalityType
    <3> QED  BY <3>1, <2>2, <1>1, <1>6 DEF Exact
  <2>4. (Posting \cup Marked \cup Queued \cup Active)' \cap AllDone' = {}
    <3>1. Marked # {} => Queued = {}  BY InvFacts DEF HandsEmpty, Marked, Queued
    <3>2. Queued \cap S = {}  BY <3>1, <1>6 DEF Exact
    <3> QED  BY <3>2, <2>1, <1>3, <1>6 DEF Exact
  <2>5. Exact'  BY <2>3, <2>4, <1>3, <1>6 DEF Exact
  <2> QED  BY <2>5, <1>1, <1>5 DEF RecoveryInv
<1>7. CASE Forgotten
  <2>1. PICK w \in AllStored : /\ w \notin AllDone \cup Left \cup Marked \cup Queued \cup Active
                               /\ post[w] = "over" /\ \E m \in AllDone : Before(w, m)
    BY <1>7 DEF Forgotten
  <2>2. PICK m \in AllDone : Before(w, m)  BY <2>1
  <2>3. w \in Msg /\ m \in Msg  BY <2>1 DEF AllStored, AllDone
  <2>4. Before(w, m)' /\ post'[w] = "over" /\ m \in AllDone'  BY <2>1, <2>2, <2>3, <1>1
  <2>5. w \in AllStored' /\ w \notin (AllDone \cup Left \cup Marked \cup Queued \cup Active)'
    BY <2>1, <1>1, <1>3
  <2>6. Forgotten'  BY <2>4, <2>5 DEF Forgotten
  <2> QED  BY <2>6, <1>1, <1>5 DEF RecoveryInv
<1> QED  BY <1>6, <1>7 DEF RecoveryInv

\* A reply answers the turn of the runner.
LEMMA CommitReplyStep ==
  ASSUME RecoveryInv, RecoveryNext, CommitReply
  PROVE  RecoveryInv'
<1> USE DEF CommitReply
<1>1. RecoveryTypeOK' /\ RecoveryTypeOK /\ LogSound  BY NextTyped, InvFacts
<1>2. runner.of \in Msg /\ runner.of # NoMsg  BY InvFacts, RecoveryAssumption DEF HandsEmpty
<1>3. runner # NoRun /\ barrier.pc = "open" /\ up  BY InvFacts DEF HandsEmpty, NoRun
<1>4. Active = {runner.of} /\ Marked = {} /\ Marked' = {}  BY <1>2, <1>3 DEF Active, Marked
<1>5. runner'.of = runner.of /\ runner'.pc = "answered"  BY <1>1 DEF RecoveryTypeOK
<1>6. Active' = {}  BY <1>5 DEF Active
<1>7. PICK e \in Fact : e = Reply(runner.of)  BY <1>2 DEF Reply, Fact
<1>8. e.kind # "user" /\ e.count = 1 /\ log' = Append(log, e)  BY <1>7 DEF Reply
<1>9. IsFiniteSet({runner.of}) /\ Cardinality({runner.of}) = 1  BY FS_Singleton
<1>10. Len(Unmatched) >= 1 /\ Len(Unmatched) \in Nat
  BY <1>4, <1>9, Counts DEF Covered
<1>11. AllDone' = AllDone \cup {runner.of}
  <2>1. \A m \in Msg : Answered(m)' <=> Answered(m) \/ e = Reply(m)  BY <1>8, <1>10, TerminalAppended
  <2>2. \A m \in Msg : e = Reply(m) <=> m = runner.of  BY <1>7 DEF Reply
  <2> QED  BY <2>1, <2>2, <1>2 DEF AllDone, Done
<1>12. HandsEmpty'  BY <1>2, <1>3, <1>5 DEF HandsEmpty
<1>13. Covered'
  <2>1. Len(Unmatched') = Len(Unmatched) - 1  BY <1>8, <1>10, TerminalAppended
  <2>2. Posting' = Posting /\ Cardinality({}) = 0  BY FS_EmptySet DEF Posting
  <2> QED  BY <2>1, <2>2, <1>4, <1>6, <1>9, Counts DEF Covered
<1> QED  BY <1>1, <1>4, <1>5, <1>6, <1>8, <1>9, <1>10, <1>11, <1>12, <1>13, TurnsAnswered

\* A marker counts exactly the turns it cancels.
LEMMA StoreMarkerStep ==
  ASSUME RecoveryInv, RecoveryNext, StoreMarker
  PROVE  RecoveryInv'
<1> USE DEF StoreMarker
<1> DEFINE S == barrier.turns
           n == Cardinality(S)
<1>1. RecoveryTypeOK' /\ RecoveryTypeOK /\ LogSound  BY NextTyped, InvFacts
<1>2. /\ Marked = S /\ Marked' = {} /\ barrier'.turns = S /\ barrier'.pc = "wait" /\ runner' = runner
      /\ post' = post /\ accepted' = accepted
  BY <1>1 DEF RecoveryTypeOK, Marked
<1>3. runner = NoRun /\ accepted = <<>> /\ up  BY InvFacts DEF HandsEmpty, NoBarrier
<1>4. Active = {} /\ Active' = {}  BY <1>2, <1>3 DEF Active, NoRun
<1>5. IsFiniteSet(S) /\ n \in Nat  BY InvFacts, FS_CardinalityType
<1>6. PICK e \in Fact : e = Marker(n)  BY <1>5 DEF Marker, Fact
<1>7. e.kind # "user" /\ e.count = n /\ log' = Append(log, e)  BY <1>6 DEF Marker
<1>8. n <= Len(Unmatched) /\ Len(Unmatched) \in Nat
  BY <1>2, <1>5, Counts DEF Covered
<1>9. AllDone' = AllDone \cup S
  <2>1. \A m \in Msg : Answered(m)' <=> Answered(m) \/ e = Reply(m)  BY <1>7, <1>8, TerminalAppended
  <2>2. \A m \in Msg : e # Reply(m)  BY <1>6 DEF Reply, Marker
  <2>3. S \subseteq Msg  BY <1>1 DEF RecoveryTypeOK
  <2> QED  BY <2>1, <2>2, <2>3 DEF AllDone, Done
<1>10. HandsEmpty'  BY <1>2, <1>3, InvFacts DEF HandsEmpty
<1>11. Covered'
  <2>1. Len(Unmatched') = Len(Unmatched) - n  BY <1>7, <1>8, TerminalAppended
  <2>2. Posting' = Posting /\ Cardinality({}) = 0  BY FS_EmptySet DEF Posting
  <2> HIDE DEF n, S
  <2> QED  BY <2>1, <2>2, <1>2, <1>4, <1>5, <1>8, Counts DEF Covered, n
<1>12. S \in SUBSET (Marked \cup Active) /\ (Marked \cup Active)' = {} /\ runner'.of = runner.of
  BY <1>2, <1>4
<1> QED  BY <1>1, <1>2, <1>4, <1>5, <1>7, <1>8, <1>9, <1>10, <1>11, <1>12, TurnsAnswered

\* When the pairing leaves a turn that is done, it has matched one that is not.
LEMMA PassedOver ==
  ASSUME RecoveryInv, Exact, NEW m \in Left, m \in AllDone
  PROVE  \E w \in AllStored : w \notin AllDone \cup Left /\ Before(w, m)
<1>1. RecoveryTypeOK /\ LogSound /\ LeftInOrder  BY InvFacts
<1>2. /\ IsFiniteSet(Left) /\ Cardinality(Left) = Len(Unmatched) /\ Len(Unmatched) \in Nat
      /\ IsFiniteSet(AllDone) /\ Cardinality(AllDone) \in Nat /\ IsFiniteSet(AllStored)
      /\ Left \subseteq AllStored /\ AllDone \subseteq AllStored /\ AllStored \subseteq Msg
  BY <1>1, UnmatchedOnce, HandsFinite, InvFacts DEF LeftInOrder, AllStored
<1>3. ~ (AllStored \subseteq AllDone \cup Left)
  <2> SUFFICES ASSUME AllStored \subseteq AllDone \cup Left PROVE FALSE  OBVIOUS
  <2>1. AllStored = AllDone \cup Left  BY <1>2
  <2>2. Cardinality(AllStored) = Cardinality(AllDone) + Cardinality(Left) - Cardinality(AllDone \cap Left)
    BY <2>1, <1>2, FS_Union
  <2>3. IsFiniteSet(AllDone \cap Left) /\ AllDone \cap Left # {}  BY <1>2, FS_Subset
  <2>4. Cardinality(AllDone \cap Left) \in Nat /\ Cardinality(AllDone \cap Left) # 0
    BY <2>3, FS_CardinalityType, FS_EmptySet
  <2> QED  BY <2>2, <2>4, <1>2 DEF Exact
<1>4. PICK w \in AllStored : w \notin AllDone \cup Left  BY <1>3
<1>5. Before(w, m)
  <2>1. m \in AllStored /\ w # m /\ w \in Msg  BY <1>2, <1>4
  <2>2. Before(w, m) \/ Before(m, w)  BY <2>1, <1>1, BeforeOrders
  <2>3. ~ Before(m, w)  BY <2>1, <1>1, <1>4 DEF LeftInOrder
  <2> QED  BY <2>2, <2>3
<1> QED  BY <1>4, <1>5

\* A restart puts into the queue what is unmatched and was never started.
LEMMA RestartStep ==
  ASSUME RecoveryInv, RecoveryNext, Restart
  PROVE  RecoveryInv'
<1> USE DEF Restart
<1>1. RecoveryTypeOK' /\ RecoveryTypeOK /\ LogSound /\ LeftInOrder  BY NextTyped, InvFacts
<1>2. /\ Unmatched' = Unmatched /\ Left' = Left /\ AllStored' = AllStored /\ AllDone' = AllDone
      /\ \A m, w \in Msg : Before(m, w)' <=> Before(m, w)
      /\ Pairs(Pairing, log)' /\ EntriesOnce' /\ LeftInOrder' /\ NoOvercount'
  BY LogKept
<1>3. /\ runner = NoRun /\ barrier = NoBarrier
      /\ \A m \in Msg : post[m] \in {"new", "over"}
  BY InvFacts DEF HandsEmpty
<1>4. Posting' = {} /\ Active' = {} /\ Marked' = {}
  BY <1>3 DEF Posting, Active, Marked, NoRun, NoBarrier
<1>5. /\ accepted' \in Seq(Msg) /\ Len(accepted') <= Len(Unmatched) /\ Queued' \subseteq Left
      /\ \A i, j \in DOMAIN accepted' : accepted'[i] = accepted'[j] => i = j
  BY <1>1, InvFacts, CandidatesSound, UnmatchedOnce DEF Queued
<1>6. LogSound'
  <2>1. Queued' \subseteq AllStored  BY <1>1, <1>5 DEF LeftInOrder
  <2>2. \A w \in AllStored' : post'[w] \in {"stored", "over"}  BY <1>2, InvFacts
  <2>3. (AllDone \cup Posting \cup Queued \cup ({runner.of} \ {NoMsg}) \cup barrier.turns)' \subseteq AllStored'
    BY <2>1, <1>2, <1>4, InvFacts
  <2> QED  BY <2>2, <2>3, <1>2, InvFacts DEF LogSound
<1>7. HandsEmpty'  BY <1>3 DEF HandsEmpty, NoRun, NoBarrier
<1>8. Covered'
  <2>1. Cardinality({}) = 0 /\ Len(accepted') \in Nat  BY <1>5, FS_EmptySet
  <2> QED  BY <2>1, <1>2, <1>4, <1>5, Counts DEF Covered
<1>9. ASSUME NEW w \in AllStored, NEW m \in AllDone, w \notin AllDone \cup Left, Before(w, m)
      PROVE  Forgotten'
  <2>1. w \in Msg /\ m \in Msg  BY <1>9 DEF AllStored, AllDone
  <2>2. post'[w] = "over"  BY <2>1, <1>3, InvFacts
  <2>3. w \notin (AllDone \cup Left \cup Marked \cup Queued \cup Active)' /\ w \in AllStored' /\ m \in AllDone'
    BY <1>2, <1>4, <1>5, <1>9
  <2> QED  BY <2>1, <2>2, <2>3, <1>2, <1>9 DEF Forgotten
<1>10. Exact' \/ Forgotten'
  <2>1. CASE Forgotten  BY <2>1, <1>9 DEF Forgotten
  <2>2. CASE Exact /\ Left \cap AllDone # {}
    <3>1. PICK m \in Left : m \in AllDone  BY <2>2
    <3>2. PICK w \in AllStored : w \notin AllDone \cup Left /\ Before(w, m)  BY <2>2, <3>1, PassedOver
    <3> QED  BY <3>1, <3>2, <1>9
  <2>3. CASE Exact /\ Left \cap AllDone = {}
    <3>1. Cardinality(AllStored') = Cardinality(AllDone') + Len(Unmatched')  BY <2>3, <1>2 DEF Exact
    <3>2. (Posting \cup Marked \cup Queued \cup Active)' \cap AllDone' = {}  BY <2>3, <1>2, <1>4, <1>5
    <3> QED  BY <3>1, <3>2, <1>4, <1>5 DEF Exact
  <2> QED  BY <2>1, <2>2, <2>3 DEF RecoveryInv
<1> QED  BY <1>1, <1>2, <1>6, <1>7, <1>8, <1>10 DEF RecoveryInv

\* A step that changes nothing of the recovery.
LEMMA RecoveryIdle ==
  ASSUME RecoveryInv, UNCHANGED recoveryVars
  PROVE  RecoveryInv'
<1> USE DEF recoveryVars
<1>1. RecoveryTypeOK'  BY InvFacts DEF RecoveryTypeOK
<1>2. Posting' = Posting /\ Marked' = Marked /\ Queued' = Queued /\ Active' = Active
  BY DEF Posting, Marked, Queued, Active
<1>3. Unmatched' = Unmatched  BY LogKept
<1>4. Covered'  BY <1>2, <1>3, Counts DEF Covered
<1>5. HandsEmpty'  BY InvFacts DEF HandsEmpty
<1>6. Exact => Apart'  BY <1>2 DEF Exact, Apart
<1>7. (({runner.of} \ {NoMsg}) \cup barrier.turns)' \subseteq AllStored  BY InvFacts
<1>8. \A w \in AllStored : post'[w] \in {"stored", "over"}  BY InvFacts
<1> QED  BY <1>1, <1>2, <1>4, <1>5, <1>6, <1>7, <1>8, HandsMove DEF Hands

\* The inductive invariant: the terminals match as many messages as they answer,
\* and nobody holds a turn that is done, unless a later turn was done before an
\* earlier one that nobody will answer (TurnRecovery).
THEOREM RecoveryInvariant == RecoverySpec => []RecoveryInv
<1>1. RecoveryInv /\ RecoveryNext => RecoveryInv'
  <2> SUFFICES ASSUME RecoveryInv, RecoveryNext PROVE RecoveryInv'  OBVIOUS
  <2>1. ASSUME NEW m \in Msg, CanEnqueue(m) \/ Store(m) \/ EnqueueUserMessage(m) PROVE RecoveryInv'
    BY <2>1, CanEnqueueStep, StoreStep, EnqueueStep
  <2>2. CASE TakeTurn  BY <2>2, TakeTurnStep
  <2>3. CASE StartRun \/ FinishTurn \/ EndSilently  BY <2>3, RunnerStep
  <2>4. CASE CommitReply  BY <2>4, CommitReplyStep
  <2>5. CASE Cancel  BY <2>5, CancelStep
  <2>6. CASE StoreMarker  BY <2>6, StoreMarkerStep
  <2>7. CASE MarkerFails \/ Reopen  BY <2>7, BarrierStep
  <2>8. CASE Crash  BY <2>8, CrashStep
  <2>9. CASE Restart  BY <2>9, RestartStep
  <2> QED  BY <2>1, <2>2, <2>3, <2>4, <2>5, <2>6, <2>7, <2>8, <2>9 DEF RecoveryNext
<1>2. RecoveryInv /\ [RecoveryNext]_recoveryVars => RecoveryInv'  BY <1>1, RecoveryIdle
<1> QED  BY <1>2, RecoveryInitInv, PTL DEF RecoverySpec

\* Over any number of messages, crashes, lost turns and cancellations, a restart
\* finds exactly the turns that are left whenever the oldest ones are done, takes
\* none twice and starts none again (ReconcilePersistedTurns).
THEOREM RecoveryIsExact == RecoverySpec => RecoveredExactly
<1> DEFINE Fresh == ~ up /\ up' => {accepted'[k] : k \in DOMAIN accepted'} \cap started = {}
<1>1. RecoveryInv => RecoveryTypeOK /\ MatchExact /\ NoOvercount  BY ExactMatches DEF RecoveryInv
<1>2. RecoveryInv /\ [RecoveryNext]_recoveryVars => [Fresh]_recoveryVars
  <2> SUFFICES ASSUME RecoveryInv, RecoveryNext, ~ up, up'
               PROVE  {accepted'[k] : k \in DOMAIN accepted'} \cap started = {}
    OBVIOUS
  <2>1. HandsEmpty /\ Unmatched \in Seq(Msg)  BY InvFacts
  <2>2. runner = NoRun /\ barrier = NoBarrier /\ accepted = <<>>  BY <2>1 DEF HandsEmpty
  <2>3. Restart
    BY <2>2 DEF RecoveryNext, CanEnqueue, Store, EnqueueUserMessage, TakeTurn, StartRun, CommitReply, FinishTurn,
                EndSilently, Cancel, StoreMarker, MarkerFails, Reopen, Crash, NoRun, NoBarrier
  <2>4. accepted' = Candidates  BY <2>3 DEF Restart
  <2> QED  BY <2>1, <2>4, CandidatesSound
<1>3. RecoverySpec => [](RecoveryTypeOK /\ MatchExact /\ NoOvercount)  BY <1>1, RecoveryInvariant, PTL
<1>4. RecoverySpec => NeverReplayed  BY <1>2, RecoveryInvariant, PTL DEF RecoverySpec, NeverReplayed
<1> QED  BY <1>3, <1>4, PTL DEF RecoveredExactly

-----------------------------------------------------------------------------
(* IndexLocks: the inductive invariant. *)

\* The locks of the model and the ways to take one.
LockSet == [of : Turn \cup {"shots", "speech"}, asset : 0..Assets]
TakeSet == [lock : LockSet, mode : {"read", "write", "one", "all"}]

LocksTypeOK ==
  /\ message \in [Turn -> Messages]
  /\ taken \in [Turn \X Places -> SUBSET TakeSet]
  /\ announced \in [Turn \X Places -> BOOLEAN]
  /\ over \subseteq Turn \X Places

\* A call takes its locks in their order, one by one, and only when it has begun;
\* a writer announces itself for the lock that it takes next.
InRank ==
  \A c \in Calls :
    /\ taken[c] \subseteq Locks(c)
    /\ \A k \in taken[c], j \in Lacks(c) : Rank(k.lock) < Rank(j.lock)
HasBegun ==
  \A c \in Calls :
    /\ (c \notin over /\ (taken[c] # {} \/ announced[c])) => Started(c)
    /\ announced[c] => Waits(c) /\ Wanted(c).mode \in {"write", "one"}
\* Who holds a lock in which mode beside whom.
Excludes ==
  \A c, d \in Calls \ over : c # d =>
    \A k \in taken[c] :
      /\ k.mode = "write" => Take(k.lock, "write") \notin taken[d] /\ Take(k.lock, "read") \notin taken[d]
      /\ k.mode = "one" => Take(k.lock, "all") \notin taken[d]

LocksInv == LocksTypeOK /\ InRank /\ HasBegun /\ Excludes

-----------------------------------------------------------------------------
\* The indexes that calls share, and what a call may do with them.
Domains == {"shots", "speech"}
AccessSet == [domain : Domains, assets : SUBSET (1..Assets), write : BOOLEAN]

\* What a call may be.
LEMMA CallFacts ==
  ASSUME message \in [Turn -> Messages], NEW c \in Calls
  PROVE  /\ c \in Turn \X Places /\ c[1] \in Turn /\ c[2] \in DOMAIN message[c[1]] /\ c = <<c[1], c[2]>>
         /\ message[c[1]] \in Seq([tool : STRING, assets : Seq(1..Assets)])
         /\ CallOf(c).assets \in Seq(1..Assets)
<1>1. c \in Turn \X Places /\ c[2] \in DOMAIN message[c[1]]  BY DEF Calls
<1>2. c[1] \in Turn /\ c = <<c[1], c[2]>>  BY <1>1
<1>3. message[c[1]] \in Seq([tool : STRING, assets : Seq(1..Assets)])
  BY <1>2, LocksAssumption
<1>4. CallOf(c) \in [tool : STRING, assets : Seq(1..Assets)]
  <2> DEFINE R == [tool : STRING, assets : Seq(1..Assets)]
  <2> HIDE DEF R
  <2> PICK s \in Seq(R) : s = message[c[1]]  BY <1>3 DEF R
  <2>1. \A k \in DOMAIN s : s[k] \in R  OBVIOUS
  <2> QED  BY <2>1, <1>1 DEF CallOf, R
<1> QED  BY <1>1, <1>2, <1>3, <1>4

\* A call accesses each index once.
LEMMA FootprintFacts ==
  ASSUME NEW a, a.assets \in Seq(1..Assets)
  PROVE  /\ indexedResourceFootprint(a) \subseteq AccessSet
         /\ \A x, y \in indexedResourceFootprint(a) : x.domain = y.domain => x = y
         /\ \A x \in indexedResourceFootprint(a) : x.write => x.assets # {}
<1> DEFINE named == {a.assets[k] : k \in DOMAIN a.assets}
           F == indexedResourceFootprint(a)
<1>1. named \in SUBSET (1..Assets)
  <2> DEFINE T == 1..Assets
  <2> HIDE DEF T
  <2> PICK s \in Seq(T) : s = a.assets  BY DEF T
  <2>1. \A k \in DOMAIN s : s[k] \in T  OBVIOUS
  <2> QED  BY <2>1 DEF T
<1>2. \/ F = {} \/ F = {Access("speech", {}, FALSE)}
      \/ named # {} /\ F = {Access("shots", named, TRUE)}
      \/ named # {} /\ F = {Access("speech", named, TRUE)}
      \/ F = {Access("speech", named, FALSE)}
      \/ F = {Access("shots", named, FALSE), Access("speech", named, FALSE)}
  BY DEF indexedResourceFootprint
<1> HIDE DEF named, F
<1>3. \A d \in Domains, w \in BOOLEAN :
        /\ Access(d, named, w) \in AccessSet /\ Access(d, {}, w) \in AccessSet
        /\ Access(d, named, w).domain = d /\ Access(d, named, w).assets = named
        /\ (Access(d, named, w).write <=> w)
  BY <1>1 DEF Access, AccessSet
<1>4. Access("speech", {}, FALSE).write = FALSE  BY DEF Access
<1>5. F \subseteq AccessSet  BY <1>2, <1>3 DEF Domains
<1>6. \A x, y \in F : x.domain = y.domain => x = y
  BY <1>2, <1>3 DEF Domains
<1>7. \A x \in F : x.write => x.assets # {}
  BY <1>2, <1>3, <1>4 DEF Domains
<1> QED  BY <1>5, <1>6, <1>7 DEF F

\* The locks of an access are of its domain, and each is taken in one way.
LEMMA ProgramFacts ==
  ASSUME NEW x \in AccessSet, x.write => x.assets # {}
  PROVE  /\ Program(x) \subseteq TakeSet
         /\ \A k \in Program(x) : k.lock.of = x.domain /\ (k.mode \in {"one", "all"} <=> k.lock.asset = 0)
         /\ \A j, k \in Program(x) : j.lock = k.lock => j = k
<1> DEFINE d == x.domain
           first == FirstOf(x.assets)
<1>1. d \in Domains /\ x.assets \in SUBSET (1..Assets) /\ Assets \in Nat
  BY LocksAssumption DEF AccessSet
<1>2. x.assets # {} => first \in 1..Assets
  <2> HAVE x.assets # {}
  <2>1. x.assets \in SUBSET Nat  BY <1>1
  <2>2. \E a \in x.assets : \A b \in x.assets : a <= b  BY <2>1, LeastOne
  <2>3. first \in x.assets  BY <2>2 DEF FirstOf
  <2> QED  BY <2>3, <1>1
<1>3. \A a \in 0..Assets, m \in {"read", "write", "one", "all"} :
        /\ Take(ResourceLock(d, a), m) \in TakeSet
        /\ Take(ResourceLock(d, a), m).lock.of = d /\ Take(ResourceLock(d, a), m).lock.asset = a
        /\ Take(ResourceLock(d, a), m).mode = m
  BY <1>1 DEF Take, ResourceLock, TakeSet, LockSet, Domains
<1>4. DomainLock(d) = ResourceLock(d, 0) /\ 0 \in 0..Assets  BY <1>1 DEF DomainLock, ResourceLock
<1>5. CASE Everything(x)
  <2>1. Program(x) = {Take(ResourceLock(d, 0), "all")}  BY <1>4, <1>5 DEF Program
  <2> QED  BY <2>1, <1>3, <1>4
<1>6. CASE ~ Everything(x) /\ x.write
  <2>1. Program(x) = {Take(ResourceLock(d, 0), "one"), Take(ResourceLock(d, first), "write")}
    BY <1>4, <1>6 DEF Program
  <2>2. first \in 0..Assets /\ first # 0  BY <1>1, <1>2, <1>6 DEF Everything
  <2> HIDE DEF first
  <2> QED  BY <2>1, <2>2, <1>3, <1>4
<1>7. CASE ~ Everything(x) /\ ~ x.write
  <2>1. Program(x) = {Take(ResourceLock(d, a), "read") : a \in x.assets}  BY <1>7 DEF Program
  <2>2. \A a \in x.assets : a \in 0..Assets /\ a # 0  BY <1>1
  <2> QED  BY <2>1, <2>2, <1>3
<1> QED  BY <1>5, <1>6, <1>7

\* What a call takes: its execution lock, and locks of domains and resources.
LEMMA LocksFacts ==
  ASSUME message \in [Turn -> Messages], NEW c \in Calls
  PROVE  /\ Locks(c) \subseteq TakeSet
         /\ \A k \in Locks(c) :
              \/ k.lock = ExecutionLock(c[1]) /\ k.mode \in {"read", "write"}
              \/ k.lock.of \in Domains /\ (k.mode \in {"one", "all"} <=> k.lock.asset = 0)
         /\ \A j, k \in Locks(c) : j.lock = k.lock => j = k
         /\ \A x \in indexedResourceFootprint(CallOf(c)) : x \in AccessSet /\ Program(x) \subseteq Locks(c)
<1> DEFINE F == indexedResourceFootprint(CallOf(c))
<1>1. /\ F \subseteq AccessSet /\ \A x, y \in F : x.domain = y.domain => x = y
      /\ \A x \in F : x.write => x.assets # {}
  BY CallFacts, FootprintFacts
<1>2. PICK m \in {"read", "write"} :
        Locks(c) = {Take(ExecutionLock(c[1]), m)} \cup UNION {Program(x) : x \in F}
  BY DEF Locks, beginToolCall
<1> HIDE DEF F
<1>3. \A x \in F :
        /\ Program(x) \subseteq TakeSet
        /\ \A k \in Program(x) : k.lock.of = x.domain /\ (k.mode \in {"one", "all"} <=> k.lock.asset = 0)
        /\ \A j, k \in Program(x) : j.lock = k.lock => j = k
  BY <1>1, ProgramFacts
<1> DEFINE own == Take(ExecutionLock(c[1]), m)
<1>4. own \in TakeSet /\ own.lock = ExecutionLock(c[1]) /\ own.mode = m /\ own.lock.of = c[1]
  BY CallFacts, LocksAssumption DEF Take, ExecutionLock, TakeSet, LockSet
<1>5. c[1] \notin Domains  BY CallFacts, LocksAssumption DEF Domains
<1> HIDE DEF own
<1>6. \A k \in Locks(c) : k = own \/ \E x \in F : k \in Program(x)  BY <1>2 DEF own
<1>7. Locks(c) \subseteq TakeSet  BY <1>3, <1>4, <1>6
<1>8. ASSUME NEW k \in Locks(c)
      PROVE  \/ k.lock = ExecutionLock(c[1]) /\ k.mode \in {"read", "write"}
             \/ k.lock.of \in Domains /\ (k.mode \in {"one", "all"} <=> k.lock.asset = 0)
  <2>1. CASE k = own  BY <2>1, <1>4
  <2>2. ASSUME NEW x \in F, k \in Program(x)
        PROVE  k.lock.of \in Domains /\ (k.mode \in {"one", "all"} <=> k.lock.asset = 0)
    BY <2>2, <1>1, <1>3 DEF AccessSet
  <2> QED  BY <2>1, <2>2, <1>6
<1>9. ASSUME NEW j \in Locks(c), NEW k \in Locks(c), j.lock = k.lock PROVE j = k
  <2>1. ASSUME NEW x \in F, NEW i \in Program(x) PROVE i.lock.of # c[1] /\ i.lock.of = x.domain
    BY <1>1, <1>3, <1>5 DEF AccessSet
  <2>2. CASE j = own \/ k = own  BY <2>1, <2>2, <1>4, <1>6, <1>9
  <2>3. ASSUME NEW x \in F, NEW y \in F, j \in Program(x), k \in Program(y) PROVE j = k
    <3>1. x = y  BY <2>1, <2>3, <1>1, <1>9
    <3> QED  BY <3>1, <2>3, <1>3, <1>9
  <2> QED  BY <2>2, <2>3, <1>6
<1>10. \A x \in F : x \in AccessSet /\ Program(x) \subseteq Locks(c)  BY <1>1, <1>2
<1> QED  BY <1>7, <1>8, <1>9, <1>10 DEF F

\* The order of the locks is total on those of a call, and bounded.
LEMMA RankFacts ==
  ASSUME message \in [Turn -> Messages], NEW c \in Calls
  PROVE  /\ \A k \in Locks(c) : Rank(k.lock) \in 0..(3 * Assets + 2)
         /\ \A j, k \in Locks(c) : Rank(j.lock) = Rank(k.lock) => j = k
<1> DEFINE A == Assets
<1>1. A \in Nat  BY LocksAssumption
<1>2. c[1] \in Turn /\ c[1] \notin Domains  BY CallFacts, LocksAssumption DEF Domains
<1>3. ASSUME NEW k \in Locks(c)
      PROVE  /\ k.lock.asset \in 0..A /\ k.lock = [of |-> k.lock.of, asset |-> k.lock.asset]
             /\ \/ k.lock.of = c[1] /\ k.lock.asset = 0 /\ Rank(k.lock) = 0
                \/ k.lock.of = "shots" /\ Rank(k.lock) = k.lock.asset + (A + 1)
                \/ k.lock.of = "speech" /\ Rank(k.lock) = k.lock.asset + 2 * (A + 1)
  <2>1. k.lock \in LockSet  BY <1>3, LocksFacts DEF TakeSet
  <2>2. k.lock.asset \in 0..A /\ k.lock = [of |-> k.lock.of, asset |-> k.lock.asset]  BY <2>1 DEF LockSet
  <2>3. CASE k.lock = ExecutionLock(c[1])
    <3>1. k.lock.of = c[1] /\ k.lock.asset = 0  BY <2>3 DEF ExecutionLock
    <3>2. Rank(k.lock) = 0  BY <3>1, <1>2 DEF Rank, Domains
    <3> QED  BY <3>1, <3>2, <2>2
  <2>4. CASE k.lock.of = "shots"  BY <2>2, <2>4 DEF Rank
  <2>5. CASE k.lock.of = "speech"  BY <2>2, <2>5 DEF Rank
  <2> QED  BY <2>3, <2>4, <2>5, LocksFacts DEF Domains
<1> HIDE DEF A
<1>4. ASSUME NEW k \in Locks(c) PROVE Rank(k.lock) \in 0..(3 * A + 2)
  <2> DEFINE n == k.lock.asset
             q == Rank(k.lock)
  <2>1. n \in 0..A /\ (q = 0 \/ q = n + (A + 1) \/ q = n + 2 * (A + 1))  BY <1>3
  <2> HIDE DEF n, q
  <2>2. q \in 0..(3 * A + 2)  BY <2>1, <1>1
  <2> QED  BY <2>2 DEF q
<1>5. ASSUME NEW j \in Locks(c), NEW k \in Locks(c), Rank(j.lock) = Rank(k.lock) PROVE j = k
  <2> DEFINE n == j.lock.asset
             m == k.lock.asset
             q == Rank(k.lock)
             d == j.lock.of
             e == k.lock.of
  <2>3. /\ n \in 0..A /\ m \in 0..A
        /\ (d = c[1] /\ n = 0 /\ q = 0) \/ (d = "shots" /\ q = n + (A + 1)) \/ (d = "speech" /\ q = n + 2 * (A + 1))
        /\ (e = c[1] /\ m = 0 /\ q = 0) \/ (e = "shots" /\ q = m + (A + 1)) \/ (e = "speech" /\ q = m + 2 * (A + 1))
    BY <1>3, <1>5
  <2>1. d = e /\ n = m
    <3> HIDE DEF n, m, q, d, e
    <3> QED  BY <2>3, <1>1
  <2>2. j.lock = k.lock  BY <2>1, <1>3
  <2> QED  BY <2>2, LocksFacts
<1> QED  BY <1>4, <1>5 DEF A

\* The next lock is the first of those a call has still to take.
LEMMA WantedFacts ==
  ASSUME message \in [Turn -> Messages], NEW c \in Calls, Lacks(c) # {}
  PROVE  /\ Wanted(c) \in Lacks(c) /\ Wanted(c) \in Locks(c)
         /\ \A j \in Lacks(c) : j # Wanted(c) => Rank(Wanted(c).lock) < Rank(j.lock)
<1> DEFINE R == {Rank(j.lock) : j \in Lacks(c)}
<1>1. \A j \in Lacks(c) : j \in Locks(c) /\ Rank(j.lock) \in Nat  BY RankFacts, LocksAssumption DEF Lacks
<1>2. R \in SUBSET Nat /\ R # {}  BY <1>1
<1>3. PICK r \in R : \A q \in R : r <= q  BY <1>2, LeastOne
<1>4. PICK k \in Lacks(c) : r = Rank(k.lock)  BY <1>3
<1>5. \A j \in Lacks(c) : Rank(k.lock) <= Rank(j.lock)  BY <1>3, <1>4
<1>6. Wanted(c) \in Lacks(c) /\ \A j \in Lacks(c) : Rank(Wanted(c).lock) <= Rank(j.lock)
  BY <1>4, <1>5 DEF Wanted
<1>7. \A j \in Lacks(c) : Rank(Wanted(c).lock) = Rank(j.lock) => j = Wanted(c)
  BY <1>1, <1>6, RankFacts
<1> QED  BY <1>1, <1>6, <1>7

-----------------------------------------------------------------------------
\* What depends on the locks a call has.
LEMMA SameLocks ==
  ASSUME message' = message
  PROVE  Calls' = Calls /\ \A c \in Calls : Locks(c)' = Locks(c) /\ CallOf(c)' = CallOf(c)
BY DEF Calls, Locks, CallOf

\* A call whose locks do not change wants what it wanted.
LEMMA SameWants ==
  ASSUME message' = message, NEW c, taken'[c] = taken[c]
  PROVE  Lacks(c)' = Lacks(c) /\ Wanted(c)' = Wanted(c)
<1>1. Lacks(c)' = Lacks(c)  BY DEF Lacks, Locks, CallOf
<1>2. \A k : k \in Lacks(c)' <=> k \in Lacks(c)  BY <1>1
<1>3. (CHOOSE k \in Lacks(c) : \A j \in Lacks(c) : Rank(k.lock) <= Rank(j.lock))'
      = CHOOSE k \in Lacks(c) : \A j \in Lacks(c) : Rank(k.lock) <= Rank(j.lock)
  BY <1>1 DEF Rank
<1> QED  BY <1>1, <1>3 DEF Wanted

\* What has begun stays begun.
LEMMA StillBegun ==
  ASSUME message' = message, over \subseteq over', NEW c, Started(c)
  PROVE  Started(c)'
BY DEF Started, canRunParallel

\* At first nobody has a lock.
LEMMA LocksInitInv ==
  ASSUME LocksInit
  PROVE  LocksInv
<1> USE DEF LocksInit
<1>1. LocksTypeOK  BY DEF LocksTypeOK
<1>2. \A c \in Calls : taken[c] = {} /\ announced[c] = FALSE  BY DEF Calls
<1>3. \A c \in Calls : ~ announced[c]  BY <1>2
<1> QED  BY <1>1, <1>2, <1>3 DEF LocksInv, InRank, HasBegun, Excludes

\* A writer that announces itself takes nothing.
LEMMA AnnounceStep ==
  ASSUME LocksInv, NEW c \in Calls, Announce(c)
  PROVE  LocksInv'
<1> USE DEF LocksInv, Announce
<1>1. message' = message /\ taken' = taken /\ over' = over /\ MayAnnounce(c)  OBVIOUS
<1>2. LocksTypeOK'  BY CallFacts DEF LocksTypeOK
<1>3. Calls' = Calls /\ \A d \in Calls : Locks(d)' = Locks(d)  BY <1>1, SameLocks
<1>4. \A d \in Calls : Lacks(d)' = Lacks(d) /\ Wanted(d)' = Wanted(d)  BY <1>1, SameWants
<1>5. \A d \in Calls : Started(d) => Started(d)'  BY <1>1, StillBegun
<1>6. InRank'  BY <1>1, <1>3, <1>4 DEF InRank, Rank
<1>7. ASSUME NEW d \in Calls
      PROVE  /\ (d \notin over /\ (taken[d] # {} \/ announced'[d])) => Started(d)'
             /\ announced'[d] => d \notin over /\ Lacks(d) # {} /\ Wanted(d).mode \in {"write", "one"}
  <2>1. c \in Turn \X Places /\ d \in Turn \X Places  BY DEF Calls
  <2>2. announced'[d] = IF d = c THEN TRUE ELSE announced[d]  BY <2>1 DEF LocksTypeOK
  <2>3. CASE d = c  BY <2>3, <1>1, <1>5 DEF MayAnnounce, Waits
  <2>4. CASE d # c  BY <2>2, <2>4, <1>5 DEF HasBegun, Waits
  <2> QED  BY <2>3, <2>4
<1>8. HasBegun'  BY <1>1, <1>3, <1>4, <1>7 DEF HasBegun, Waits
<1>9. Excludes'  BY <1>1, <1>3 DEF Excludes, Take
<1> QED  BY <1>2, <1>6, <1>8, <1>9

\* Who ends has everything it wanted and is no writer that waits.
LEMMA EndStep ==
  ASSUME LocksInv, NEW c \in Calls, End(c)
  PROVE  LocksInv'
<1> USE DEF LocksInv, End
<1>1. message' = message /\ taken' = taken /\ announced' = announced /\ over' = over \cup {c} /\ Inside(c)
  OBVIOUS
<1>2. LocksTypeOK'  BY CallFacts DEF LocksTypeOK
<1>3. Calls' = Calls /\ \A d \in Calls : Locks(d)' = Locks(d)  BY <1>1, SameLocks
<1>4. \A d \in Calls : Lacks(d)' = Lacks(d) /\ Wanted(d)' = Wanted(d)  BY <1>1, SameWants
<1>5. \A d \in Calls : Started(d) => Started(d)'  BY <1>1, StillBegun
<1>6. InRank'  BY <1>1, <1>3, <1>4 DEF InRank, Rank
<1>7. ASSUME NEW d \in Calls
      PROVE  /\ (d \notin over' /\ (taken[d] # {} \/ announced[d])) => Started(d)'
             /\ announced[d] => d \notin over' /\ Lacks(d) # {} /\ Wanted(d).mode \in {"write", "one"}
  <2>1. ~ announced[c]  BY <1>1 DEF HasBegun, Inside, Waits
  <2>2. CASE d = c  BY <2>1, <2>2, <1>1
  <2>3. CASE d # c  BY <2>3, <1>1, <1>5 DEF HasBegun, Waits
  <2> QED  BY <2>2, <2>3
<1>8. HasBegun'  BY <1>1, <1>3, <1>4, <1>7 DEF HasBegun, Waits
<1>9. Excludes'  BY <1>1, <1>3 DEF Excludes, Take
<1> QED  BY <1>2, <1>6, <1>8, <1>9

\* Who gets in is at its next lock, and that lock lets it in.
LEMMA AcquireStep ==
  ASSUME LocksInv, NEW c \in Calls, Acquire(c)
  PROVE  LocksInv'
<1> USE DEF LocksInv
<1> DEFINE w == Wanted(c)
<1>1. /\ message' = message /\ over' = over /\ MayAcquire(c) /\ c \notin over
      /\ taken' = [taken EXCEPT ![c] = @ \cup {w}] /\ announced' = [announced EXCEPT ![c] = FALSE]
  BY DEF Acquire, MayAcquire, Waits
<1>2. message \in [Turn -> Messages] /\ c \in Turn \X Places /\ Calls \subseteq Turn \X Places
  BY DEF LocksTypeOK, Calls
<1>3. /\ w \in Lacks(c) /\ w \in Locks(c) /\ w \in TakeSet
      /\ \A j \in Lacks(c) : j # w => Rank(w.lock) < Rank(j.lock)
  <2>1. Lacks(c) # {}  BY <1>1 DEF MayAcquire, Waits
  <2> QED  BY <2>1, <1>2, WantedFacts, LocksFacts
<1> HIDE DEF w
<1>4. \A d \in Calls : /\ taken'[d] = IF d = c THEN taken[d] \cup {w} ELSE taken[d]
                       /\ d # c => (announced'[d] <=> announced[d])
  BY <1>1, <1>2 DEF LocksTypeOK
<1>5. ~ announced'[c]  BY <1>1, <1>2 DEF LocksTypeOK
<1>6. LocksTypeOK'
  <2>1. taken' \in [Turn \X Places -> SUBSET TakeSet]  BY <1>1, <1>2, <1>3 DEF LocksTypeOK
  <2>2. announced' \in [Turn \X Places -> BOOLEAN]  BY <1>1, <1>2 DEF LocksTypeOK
  <2> QED  BY <2>1, <2>2, <1>1 DEF LocksTypeOK
<1>7. Calls' = Calls /\ \A d \in Calls : Locks(d)' = Locks(d)  BY <1>1, SameLocks
<1>8. \A d \in Calls : d # c => Lacks(d)' = Lacks(d) /\ Wanted(d)' = Wanted(d)  BY <1>1, <1>4, SameWants
<1>9. Lacks(c)' = Lacks(c) \ {w}  BY <1>1, <1>4, <1>7 DEF Lacks
<1>10. \A d \in Calls : Started(d) => Started(d)'  BY <1>1, StillBegun
<1>11. InRank'
  <2>1. ASSUME NEW d \in Calls
        PROVE  taken'[d] \subseteq Locks(d) /\ \A k \in taken'[d], j \in Lacks(d)' : Rank(k.lock) < Rank(j.lock)
    <3>1. CASE d # c  BY <3>1, <1>4, <1>8 DEF InRank
    <3>2. CASE d = c  BY <3>2, <1>3, <1>4, <1>9 DEF InRank
    <3> QED  BY <3>1, <3>2
  <2>2. \A l : Rank(l)' = Rank(l)  BY DEF Rank
  <2> QED  BY <2>1, <1>7 DEF InRank, Rank
<1>12. HasBegun'
  <2>1. ASSUME NEW d \in Calls
        PROVE  /\ (d \notin over /\ (taken'[d] # {} \/ announced'[d])) => Started(d)'
               /\ announced'[d] => Waits(d)' /\ Wanted(d)'.mode \in {"write", "one"}
    <3>1. CASE d # c  BY <3>1, <1>1, <1>4, <1>8, <1>10 DEF HasBegun, Waits
    <3>2. CASE d = c  BY <3>2, <1>1, <1>5, <1>10 DEF MayAcquire
    <3> QED  BY <3>1, <3>2
  <2> QED  BY <2>1, <1>1, <1>7 DEF HasBegun
<1>13. ASSUME NEW d \in Calls \ over, d # c, NEW k \in taken[d]
       PROVE  /\ k.lock = w.lock /\ w.mode = "write" => k.mode \notin {"read", "write"}
              /\ k.lock = w.lock /\ k.mode = "write" => w.mode \notin {"read", "write"}
              /\ k.lock = w.lock /\ w.mode = "one" => k.mode # "all"
              /\ k.lock = w.lock /\ k.mode = "one" => w.mode # "all"
  <2>1. k = Take(k.lock, k.mode)
    <3>1. k \in TakeSet  BY <1>2 DEF LocksTypeOK
    <3> QED  BY <3>1 DEF TakeSet, Take
  <2>2. k.lock = w.lock => d \in Holders(w.lock, k.mode)  BY <2>1, <1>13 DEF Holders
  <2>3. IsFree(w.lock, w.mode)  BY <1>1 DEF MayAcquire, w
  <2> QED  BY <2>2, <2>3 DEF IsFree
<1>14. Excludes'
  <2>1. ASSUME NEW d \in Calls \ over, NEW e \in Calls \ over, d # e, NEW k \in taken'[d]
        PROVE  /\ k.mode = "write" => Take(k.lock, "write") \notin taken'[e] /\ Take(k.lock, "read") \notin taken'[e]
               /\ k.mode = "one" => Take(k.lock, "all") \notin taken'[e]
    <3>1. \A l, m : Take(l, m).lock = l /\ Take(l, m).mode = m  BY DEF Take
    <3>2. CASE d # c /\ e # c  BY <3>2, <2>1, <1>4 DEF Excludes
    <3>3. CASE d = c /\ k \in taken[d]  BY <3>3, <2>1, <1>4 DEF Excludes
    <3>4. CASE d = c /\ k = w
      <4>1. taken'[e] = taken[e] /\ e # c  BY <3>4, <2>1, <1>4
      <4>2. \A j \in taken[e] :
              /\ j.lock = w.lock /\ w.mode = "write" => j.mode \notin {"read", "write"}
              /\ j.lock = w.lock /\ w.mode = "one" => j.mode # "all"
        BY <4>1, <2>1, <1>13
      <4>3. ASSUME NEW m, Take(w.lock, m) \in taken[e]
            PROVE  (w.mode = "write" => m \notin {"read", "write"}) /\ (w.mode = "one" => m # "all")
        <5>1. PICK j \in taken[e] : j = Take(w.lock, m)  BY <4>3
        <5>2. j.lock = w.lock /\ j.mode = m  BY <5>1, <3>1
        <5> QED  BY <5>2, <4>2
      <4>4. w.mode = "write" => Take(w.lock, "write") \notin taken[e] /\ Take(w.lock, "read") \notin taken[e]
        BY <4>3
      <4>5. w.mode = "one" => Take(w.lock, "all") \notin taken[e]  BY <4>3
      <4> QED  BY <4>1, <4>4, <4>5, <3>4
    <3>5. CASE e = c
      <4>1. k \in taken[d]  BY <3>5, <2>1, <1>4
      <4>2. \A m : Take(k.lock, m) \in taken'[e] => Take(k.lock, m) \in taken[e] \/ Take(k.lock, m) = w
        BY <3>5, <1>4
      <4> QED  BY <4>1, <4>2, <3>1, <3>5, <2>1, <1>13 DEF Excludes
    <3>6. d = c => k \in taken[d] \/ k = w  BY <2>1, <1>4
    <3> QED  BY <3>2, <3>3, <3>4, <3>5, <3>6
  <2> QED  BY <2>1, <1>1, <1>7 DEF Excludes, Take
<1> QED  BY <1>6, <1>11, <1>12, <1>14

-----------------------------------------------------------------------------
\* Who is inside has all its locks, so a writer's index is its own.
LEMMA WriterAlone ==
  ASSUME LocksInv
  PROVE  DetectorAlone
<1> SUFFICES ASSUME NEW c \in Calls, NEW d \in Calls,
                    NEW x \in indexedResourceFootprint(CallOf(c)),
                    NEW y \in indexedResourceFootprint(CallOf(d)),
                    Inside(c), Inside(d), c # d, x.write, ~ FirstOnly(x), ~ FirstOnly(y), Conflict(x, y)
             PROVE  FALSE
  BY DEF DetectorAlone
<1> USE DEF LocksInv
<1>1. message \in [Turn -> Messages]  BY DEF LocksTypeOK
<1>2. /\ x \in AccessSet /\ Program(x) \subseteq Locks(c)
      /\ y \in AccessSet /\ Program(y) \subseteq Locks(d)
  BY <1>1, LocksFacts
<1>3. Program(x) \subseteq taken[c] /\ Program(y) \subseteq taken[d] /\ c \notin over /\ d \notin over
  BY <1>2 DEF Inside, Lacks
<1>4. PICK a \in x.assets : x.assets = {a}  BY DEF FirstOnly, OfOneAsset
<1>5. /\ Take(DomainLock(x.domain), "one") \in taken[c]
      /\ Take(ResourceLock(x.domain, a), "write") \in taken[c]
  <2>1. ~ Everything(x) /\ FirstOf(x.assets) = a  BY <1>4 DEF Everything, FirstOf, AccessSet
  <2> QED  BY <2>1, <1>3 DEF Program
<1>6. x.domain = y.domain  BY DEF Conflict
<1>7. \A l, m : Take(l, m).lock = l /\ Take(l, m).mode = m  BY DEF Take
<1>8. /\ Take(DomainLock(x.domain), "all") \notin taken[d]
      /\ Take(ResourceLock(x.domain, a), "write") \notin taken[d]
      /\ Take(ResourceLock(x.domain, a), "read") \notin taken[d]
  BY <1>3, <1>5, <1>7 DEF Excludes
<1>9. CASE Everything(y)  BY <1>9, <1>3, <1>6, <1>8 DEF Program
<1>10. CASE ~ Everything(y)
  <2>1. a \in y.assets  BY <1>4, <1>10 DEF Conflict, Everything
  <2>2. CASE y.write
    <3>1. y.assets = {a}  BY <2>1, <2>2 DEF FirstOnly, OfOneAsset
    <3>2. a \in 1..Assets  BY <2>1, <1>2 DEF AccessSet
    <3>3. FirstOf(y.assets) = a  BY <3>1, <3>2 DEF FirstOf
    <3> QED  BY <3>3, <2>2, <1>3, <1>6, <1>8, <1>10 DEF Program
  <2>3. CASE ~ y.write  BY <2>1, <2>3, <1>3, <1>6, <1>8, <1>10 DEF Program
  <2> QED  BY <2>2, <2>3
<1> QED  BY <1>9, <1>10

\* Of the calls that wait, one waits for the last lock in the order.
LEMMA LastWaiter ==
  ASSUME LocksInv, NEW W \in SUBSET Calls, W # {}, \A c \in W : Waits(c)
  PROVE  \E c \in W : \A d \in W : Rank(Wanted(d).lock) <= Rank(Wanted(c).lock)
<1> DEFINE top == 3 * Assets + 2
           r(c) == Rank(Wanted(c).lock)
           R == {top - r(c) : c \in W}
<1>1. \A c \in W : r(c) \in 0..top
  BY WantedFacts, RankFacts DEF LocksInv, LocksTypeOK, Waits
<1>2. top \in Nat  BY LocksAssumption
<1> HIDE DEF top, r
<1>3. R \in SUBSET Nat /\ R # {}  BY <1>1, <1>2
<1>4. PICK n \in R : \A q \in R : n <= q  BY <1>3, LeastOne
<1>5. PICK c \in W : n = top - r(c)  BY <1>4
<1>6. \A d \in W : r(d) <= r(c)
  <2> TAKE d \in W
  <2>1. top - r(c) <= top - r(d)  BY <1>4, <1>5
  <2> QED  BY <2>1, <1>1, <1>2
<1> QED  BY <1>5, <1>6 DEF r

\* A call that has begun and can neither announce itself nor get in finds someone
\* inside the lock that it wants.
LEMMA SomeoneInside ==
  ASSUME LocksInv, NEW c \in Calls, Waits(c), Started(c),
         \A d \in Calls : Waits(d) /\ Started(d) => ~ MayAnnounce(d) /\ ~ MayAcquire(d)
  PROVE  \E e \in Calls \ over : \E m : Take(Wanted(c).lock, m) \in taken[e]
<1> USE DEF LocksInv
<1> DEFINE l == Wanted(c).lock
           Busy == \E m : Holders(l, m) # {}
<1>1. SUFFICES Busy  BY DEF Holders
<1>2. ASSUME NEW d \in Calls, Waits(d)
      PROVE  /\ Wanted(d).mode \in {"read", "write", "one", "all"}
             /\ Wanted(d).lock.of \in Turn => Wanted(d).mode \in {"read", "write"}
             /\ Wanted(d).lock.of \notin Turn
                => (Wanted(d).mode \in {"one", "all"} <=> Wanted(d).lock.asset = 0)
  <2>1. message \in [Turn -> Messages]  BY DEF LocksTypeOK
  <2>2. Wanted(d) \in Locks(d)  BY <2>1, <1>2, WantedFacts DEF Waits
  <2>3. Wanted(d) \in TakeSet  BY <2>1, <2>2, LocksFacts
  <2>4. Turn \cap Domains = {} /\ d[1] \in Turn  BY <2>1, CallFacts, LocksAssumption DEF Domains
  <2>5. \/ Wanted(d).lock = ExecutionLock(d[1]) /\ Wanted(d).mode \in {"read", "write"}
        \/ Wanted(d).lock.of \in Domains /\ (Wanted(d).mode \in {"one", "all"} <=> Wanted(d).lock.asset = 0)
    BY <2>1, <2>2, LocksFacts
  <2> QED  BY <2>3, <2>4, <2>5 DEF TakeSet, ExecutionLock
<1>3. ASSUME NEW d \in Announced(l)
      PROVE  /\ d \in Calls /\ Waits(d) /\ Started(d) /\ announced[d] /\ Wanted(d).lock = l
             /\ Wanted(d).mode \in {"write", "one"} /\ ~ IsFree(l, Wanted(d).mode)
  <2>1. d \in Calls /\ Waits(d) /\ announced[d] /\ Wanted(d).lock = l  BY <1>3 DEF Announced
  <2>2. Started(d) /\ Wanted(d).mode \in {"write", "one"}  BY <2>1 DEF HasBegun, Waits
  <2>3. ~ MayAcquire(d)  BY <2>1, <2>2
  <2> QED  BY <2>1, <2>2, <2>3 DEF MayAcquire
<1>4. Announced(l) # {} => Busy
  <2> SUFFICES ASSUME NEW d \in Announced(l) PROVE Busy  OBVIOUS
  <2> QED  BY <1>3 DEF IsFree
<1> HIDE DEF Busy
<1>5. ~ MayAnnounce(c) /\ ~ MayAcquire(c)  OBVIOUS
<1>6. CASE Wanted(c).mode \in {"read", "all"}
  <2>1. ~ IsFree(l, Wanted(c).mode)  BY <1>5, <1>6 DEF MayAcquire
  <2> QED  BY <2>1, <1>4, <1>6 DEF IsFree, Busy
<1>7. CASE Wanted(c).mode \in {"write", "one"} /\ announced[c]
  <2>1. ~ IsFree(l, Wanted(c).mode)  BY <1>5, <1>7 DEF MayAcquire
  <2> QED  BY <2>1, <1>7 DEF IsFree, Busy
<1>8. CASE Wanted(c).mode \in {"write", "one"} /\ ~ announced[c]
  <2>1. Announced(l) # {} \/ Holders(l, "write") # {}  BY <1>5, <1>8 DEF MayAnnounce
  <2> QED  BY <2>1, <1>4 DEF Busy
<1> QED  BY <1>2, <1>6, <1>7, <1>8

\* Of a message with calls that are not over, one has begun.
LEMMA SomeoneBegun ==
  ASSUME LocksInv, ~ (Calls \subseteq over)
  PROVE  \E c \in Calls \ over : Started(c)
<1>1. message \in [Turn -> Messages]  BY DEF LocksInv, LocksTypeOK
<1>2. PICK c \in Calls : c \notin over  OBVIOUS
<1> DEFINE t == c[1]
           K == {k \in DOMAIN message[t] : <<t, k>> \notin over}
<1>3. /\ t \in Turn /\ c = <<t, c[2]>> /\ c[2] \in DOMAIN message[t]
      /\ message[t] \in Seq([tool : STRING, assets : Seq(1..Assets)])
  BY <1>1, CallFacts
<1>4. PICK n \in Nat : DOMAIN message[t] = 1..n
  <2> DEFINE S == [tool : STRING, assets : Seq(1..Assets)]
  <2> HIDE DEF S
  <2> PICK s \in Seq(S) : s = message[t]  BY <1>3 DEF S
  <2> QED  OBVIOUS
<1>5. K \in SUBSET Nat /\ K # {}
  <2>1. K \subseteq 1..n  BY <1>4
  <2>2. c[2] \in K  BY <1>2, <1>3
  <2> QED  BY <2>1, <2>2
<1>6. PICK k \in K : \A j \in K : k <= j  BY <1>5, LeastOne
<1>7. <<t, k>> \in Calls \ over
  <2>1. k \in Places
    <3>1. message[t] \in Messages  BY <1>1, <1>3
    <3> QED  BY <3>1 DEF Places
  <2> QED  BY <2>1, <1>3 DEF Calls
<1>8. \A j \in 1..(k - 1) : <<t, j>> \in over
  <2> TAKE j \in 1..(k - 1)
  <2>1. k \in 1..n /\ j \in 1..n /\ ~ (k <= j)  BY <1>4
  <2>2. j \notin K  BY <2>1, <1>6
  <2> QED  BY <2>1, <2>2, <1>4
<1>9. Started(<<t, k>>)  BY <1>8 DEF Started
<1> QED  BY <1>7, <1>9

\* Who is inside the last lock that anybody waits for waits for a later one, or for none.
LEMMA NobodyStuck ==
  ASSUME LocksInv
  PROVE  NoCircle
<1> SUFFICES ASSUME ~ (Calls \subseteq over),
                    \A c \in Calls : ~ MayAnnounce(c) /\ ~ MayAcquire(c) /\ ~ Inside(c)
             PROVE  FALSE
  BY DEF NoCircle
<1> DEFINE W == {c \in Calls \ over : Started(c)}
<1>1. \A c \in Calls \ over : Waits(c)  BY DEF Inside, Waits
<1>2. W # {} /\ W \in SUBSET Calls /\ \A c \in W : Waits(c)  BY <1>1, SomeoneBegun
<1>3. PICK c \in W : \A d \in W : Rank(Wanted(d).lock) <= Rank(Wanted(c).lock)
  <2> HIDE DEF W
  <2> QED  BY <1>2, LastWaiter
<1>12. PICK e \in Calls \ over : \E m : Take(Wanted(c).lock, m) \in taken[e]  BY <1>2, SomeoneInside
<1>4. PICK m : Take(Wanted(c).lock, m) \in taken[e]  BY <1>12
<1>5. e \in W /\ Lacks(e) # {}  BY <1>1, <1>4 DEF LocksInv, HasBegun, Waits
<1>6. message \in [Turn -> Messages]  BY DEF LocksInv, LocksTypeOK
<1>7. Wanted(e) \in Lacks(e) /\ Rank(Wanted(e).lock) \in Nat
  <2>1. Wanted(e) \in Lacks(e) /\ Wanted(e) \in Locks(e)  BY <1>4, <1>5, <1>6, WantedFacts
  <2>2. Rank(Wanted(e).lock) \in 0..(3 * Assets + 2)  BY <2>1, <1>4, <1>6, RankFacts
  <2> QED  BY <2>1, <2>2
<1>8. Take(Wanted(c).lock, m).lock = Wanted(c).lock  BY DEF Take
<1>9. Rank(Wanted(c).lock) < Rank(Wanted(e).lock)  BY <1>4, <1>7, <1>8 DEF LocksInv, InRank
<1>10. Rank(Wanted(c).lock) \in Nat
  <2>1. Wanted(c) \in Locks(c)  BY <1>2, <1>6, WantedFacts DEF Waits
  <2>2. Rank(Wanted(c).lock) \in 0..(3 * Assets + 2)  BY <2>1, <1>6, RankFacts
  <2> QED  BY <2>2
<1>11. Rank(Wanted(e).lock) <= Rank(Wanted(c).lock)  BY <1>3, <1>5
<1> QED  BY <1>7, <1>9, <1>10, <1>11

\* A step that changes nothing of the locks.
LEMMA LocksIdle ==
  ASSUME LocksInv, UNCHANGED lockVars
  PROVE  LocksInv'
<1> USE DEF LocksInv, lockVars
<1>1. Calls' = Calls /\ \A d \in Calls : Locks(d)' = Locks(d)  BY SameLocks
<1>2. \A d \in Calls : Lacks(d)' = Lacks(d) /\ Wanted(d)' = Wanted(d)  BY SameWants
<1>3. \A d \in Calls : Started(d) => Started(d)'  BY StillBegun
<1>4. LocksTypeOK'  BY DEF LocksTypeOK
<1>5. InRank'  BY <1>1, <1>2 DEF InRank, Rank
<1>6. HasBegun'  BY <1>1, <1>2, <1>3 DEF HasBegun, Waits
<1>7. Excludes'  BY <1>1 DEF Excludes, Take
<1> QED  BY <1>4, <1>5, <1>6, <1>7

\* The inductive invariant: every call takes its locks in one order, writers wait only
\* for the lock they take next, and no lock has a writer beside anybody it must not
\* have (IndexedResourceCoordinator.Begin).
THEOREM LocksInvariant == LocksSpec => []LocksInv
<1>1. LocksInv /\ [LocksNext]_lockVars => LocksInv'
  BY AnnounceStep, AcquireStep, EndStep, LocksIdle DEF LocksNext
<1>2. LocksInit => LocksInv  BY LocksInitInv
<1> QED  BY <1>1, <1>2, PTL DEF LocksSpec

\* A detector that writes the index of an asset is alone with it, and as long as a
\* call is not over some call can take a step: for any number of turns, messages and
\* assets (IndexedResourceCoordinator, BeginIndexedToolCalls).
THEOREM LocksStaySound == LocksSpec => []LocksSound
<1>1. LocksInv => LocksSound  BY WriterAlone, NobodyStuck DEF LocksSound
<1> QED  BY <1>1, LocksInvariant, PTL
=============================================================================
