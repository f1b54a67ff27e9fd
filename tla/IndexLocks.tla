----------------------------- MODULE IndexLocks -----------------------------
(***************************************************************************)
(* Which tool calls may run beside one another: the router that runs the   *)
(* calls of a message at once or one by one (agent/tool_router.go), the    *)
(* execution lock of a turn and the locks of the indexes that all turns of *)
(* all drafts share (agentexec/interaction_state.go).                      *)
(*                                                                         *)
(* A call is [turn, nr]; Message gives the call of every turn, a sequence  *)
(* of records [tool, assets], assets being the sequence in the arguments,  *)
(* empty when the arguments name none.  sync.RWMutex is modelled by what   *)
(* it promises: a writer that waits keeps new readers out.                 *)
(***************************************************************************)
EXTENDS Integers, Sequences

CONSTANTS
    Turn,       \* turns, each of a draft of its own
    Assets,     \* how many assets there are, numbered in the order of their identifiers
    Messages    \* the messages a turn may begin with

ASSUME LocksAssumption ==
    /\ Assets \in Nat
    /\ Turn \cap {"shots", "speech"} = {}
    /\ \A m \in Messages : m \in Seq([tool : STRING, assets : Seq(1..Assets)])

VARIABLES
    message,    \* turn -> its message
    taken,       \* call -> the locks it has taken
    announced,  \* call -> whether it waits as the writer of its next lock
    over        \* calls that have ended

lockVars == <<message, taken, announced, over>>

-----------------------------------------------------------------------------
(* Footprints. *)

ReadOnly == {"speech.search", "shot.search", "timeline.check", "preview.check"}
Detectors == {"media.detect_shots", "speech.transcribe", "shot.deep_search"}
Access(domain, assets, write) == [domain |-> domain, assets |-> assets, write |-> write]
\* An access that names no asset is to the whole domain.
Everything(access) == access.assets = {}
\* A detector's arguments may name several shots of its asset.
OfOneAsset(access) == \E a \in access.assets : access.assets = {a}
\* Arguments without assets leave a search the whole index and a detector nothing.
\* (preview.check is the check of the picture: the other one reads no index.)
indexedResourceFootprint(c) ==
    LET named == {c.assets[k] : k \in DOMAIN c.assets} IN
    CASE c.tool = "media.detect_shots" /\ named # {} -> {Access("shots", named, TRUE)}
      [] c.tool = "speech.transcribe" /\ named # {} -> {Access("speech", named, TRUE)}
      [] c.tool = "speech.search" -> {Access("speech", named, FALSE)}
      [] c.tool = "shot.search" -> {Access("shots", named, FALSE), Access("speech", named, FALSE)}
      [] c.tool = "shot.deep_search" /\ named # {} -> {Access("shots", named, TRUE)}
      [] c.tool \in {"timeline.check", "preview.check"} -> {Access("speech", {}, FALSE)}
      [] OTHER -> {}
Conflict(x, y) ==
    x.domain = y.domain
    /\ (Everything(x) \/ Everything(y) \/ x.assets \cap y.assets # {})

\* The calls of a message run at once when each reads or is a detector of one
\* asset that no other call of the message detects or reads.
canRunParallel(calls) ==
    /\ calls # <<>>
    /\ \A i \in DOMAIN calls :
        \/ calls[i].tool \in ReadOnly
        \/ /\ calls[i].tool \in Detectors
           /\ \E x \in indexedResourceFootprint(calls[i]) : OfOneAsset(x)
           /\ \A j \in DOMAIN calls \ {i}, x \in indexedResourceFootprint(calls[i]) :
                \A y \in indexedResourceFootprint(calls[j]) : ~ Conflict(x, y)

-----------------------------------------------------------------------------
(* The locks a call takes, one after the other. *)

ExecutionLock(t) == [of |-> t, asset |-> 0]
DomainLock(d) == [of |-> d, asset |-> 0]
ResourceLock(d, a) == [of |-> d, asset |-> a]
Take(lock, mode) == [lock |-> lock, mode |-> mode]
\* A writer takes the lock of the first resource it names only.
FirstOf(assets) == CHOOSE a \in assets : \A b \in assets : a <= b
Program(x) ==
    IF Everything(x) THEN {Take(DomainLock(x.domain), "all")}
    ELSE IF x.write
    THEN {Take(DomainLock(x.domain), "one"), Take(ResourceLock(x.domain, FirstOf(x.assets)), "write")}
    ELSE {Take(ResourceLock(x.domain, a), "read") : a \in x.assets}
\* A call with a footprint shares the execution lock of its turn, and so does a
\* call that only reads; any other call has it for itself.
beginToolCall(t, c) ==
    LET footprint == indexedResourceFootprint(c)
        alone == footprint = {} /\ c.tool \notin ReadOnly
    IN  {Take(ExecutionLock(t), IF alone THEN "write" ELSE "read")}
        \cup UNION {Program(x) : x \in footprint}
\* The order in which a call takes its locks: the execution lock, then by domain
\* the domain's own lock, then the resources as their identifiers are sorted.
Rank(lock) ==
    lock.asset + CASE lock.of = "shots" -> Assets + 1
                   [] lock.of = "speech" -> 2 * (Assets + 1)
                   [] OTHER -> 0

Places == UNION {DOMAIN m : m \in Messages}
Calls == {c \in Turn \X Places : c[2] \in DOMAIN message[c[1]]}
CallOf(c) == message[c[1]][c[2]]
Locks(c) == beginToolCall(c[1], CallOf(c))
\* What a call has still to take, and what it waits for.
Lacks(c) == Locks(c) \ taken[c]
Holders(lock, mode) == {c \in Calls \ over : Take(lock, mode) \in taken[c]}
Waits(c) == c \notin over /\ Lacks(c) # {}
Wanted(c) == CHOOSE k \in Lacks(c) : \A j \in Lacks(c) : Rank(k.lock) <= Rank(j.lock)
Announced(lock) == {c \in Calls : Waits(c) /\ announced[c] /\ Wanted(c).lock = lock}
Inside(c) == c \notin over /\ Lacks(c) = {}

LocksInit ==
    /\ message \in [Turn -> Messages]
    /\ taken = [c \in Turn \X Places |-> {}]
    /\ announced = [c \in Turn \X Places |-> FALSE]
    /\ over = {}

\* A call of a message that does not run in parallel waits for those before it.
Started(c) ==
    canRunParallel(message[c[1]]) \/ \A k \in 1..(c[2] - 1) : <<c[1], k>> \in over

\* Writers wait in two steps: they announce themselves, and get in when those
\* that are inside have left.  The writers of a domain do not keep each other out.
MayAnnounce(c) ==
    /\ Waits(c) /\ Started(c) /\ ~ announced[c]
    /\ Wanted(c).mode \in {"write", "one"}
    /\ Wanted(c).mode = "write"
       => Announced(Wanted(c).lock) = {} /\ Holders(Wanted(c).lock, "write") = {}
Announce(c) ==
    /\ MayAnnounce(c)
    /\ announced' = [announced EXCEPT ![c] = TRUE]
    /\ UNCHANGED <<message, taken, over>>

\* Mutant: a detector does not look for readers of the whole domain.
FreeForOne(lock, mode) ==
    CASE mode = "read" -> Holders(lock, "write") = {} /\ Announced(lock) = {}
      [] mode = "write" -> Holders(lock, "read") = {} /\ Holders(lock, "write") = {}
      [] mode = "all" -> Holders(lock, "one") = {} /\ Announced(lock) = {}
      [] OTHER -> TRUE
IsFree(lock, mode) ==
    CASE mode = "read" -> Holders(lock, "write") = {} /\ Announced(lock) = {}
      [] mode = "write" -> Holders(lock, "read") = {} /\ Holders(lock, "write") = {}
      [] mode = "all" -> Holders(lock, "one") = {} /\ Announced(lock) = {}
      [] OTHER -> Holders(lock, "all") = {}
MayAcquire(c) ==
    /\ Waits(c) /\ Started(c)
    /\ Wanted(c).mode \in {"write", "one"} => announced[c]
    /\ IsFree(Wanted(c).lock, Wanted(c).mode)
Acquire(c) ==
    /\ MayAcquire(c)
    /\ taken' = [taken EXCEPT ![c] = @ \cup {Wanted(c)}]
    /\ announced' = [announced EXCEPT ![c] = FALSE]
    /\ UNCHANGED <<message, over>>

\* Locks are released together: no release waits.
End(c) ==
    /\ Inside(c)
    /\ over' = over \cup {c}
    /\ UNCHANGED <<message, taken, announced>>

LocksNext == \E c \in Calls : Announce(c) \/ Acquire(c) \/ End(c)
LocksSpec == LocksInit /\ [][LocksNext]_lockVars

-----------------------------------------------------------------------------
(* Properties. *)

\* While a detector writes the index of one asset no other call reads or writes
\* that index, be it of another turn or a search of everything
\* (IndexedResourceCoordinator.Begin).  Deep searches of several assets are left
\* out: they lock the first of them only.
FirstOnly(x) == x.write /\ ~ OfOneAsset(x)
DetectorAlone ==
    \A c, d \in Calls :
      \A x \in indexedResourceFootprint(CallOf(c)), y \in indexedResourceFootprint(CallOf(d)) :
        (Inside(c) /\ Inside(d) /\ c # d /\ x.write /\ ~ FirstOnly(x) /\ ~ FirstOnly(y))
        => ~ Conflict(x, y)

\* Calls never wait for one another in a circle, although a writer that waits
\* keeps out readers that come after it while readers take several locks: while
\* some call is not over, one can go on (BeginIndexedToolCalls).
NoCircle == Calls \subseteq over \/ \E c \in Calls : MayAnnounce(c) \/ MayAcquire(c) \/ Inside(c)

\* A detector that writes is alone, and everybody gets in.
LocksSound == DetectorAlone /\ NoCircle
=============================================================================
