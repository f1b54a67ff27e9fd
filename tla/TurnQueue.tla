------------------------------ MODULE TurnQueue ------------------------------
(***************************************************************************)
(* The in-memory queue that serialises the turns of one draft              *)
(* (go/internal/agent/turn_queue.go) and the cancellation barrier the HTTP *)
(* handlers drive.                                                         *)
(*                                                                         *)
(* A draft has one worker goroutine with a bounded channel. Enqueue counts *)
(* a turn in under the locks and sends it outside of them; a barrier       *)
(* cancels what was accepted, waits for it for half a second, then reopens *)
(* the draft or abandons the worker: its generation is sealed and drained, *)
(* and later turns get a new one. Close seals everything.                  *)
(*                                                                         *)
(* What is abstracted:                                                     *)
(*  - one draft: the others share only closed, ctx and the mutex;          *)
(*  - a section under queue.mu or worker.mu is one step;                   *)
(*  - the channel `drained' is closed exactly when pending = 0: it is      *)
(*    replaced by the first reservation only, which a barrier refuses;     *)
(*  - a turn is a member of Item; its context is live until it is          *)
(*    cancelled, and its terminal commit fails on a cancelled context;     *)
(*  - onConsumed callbacks and JoinDraft are left out.                     *)
(***************************************************************************)
EXTENDS Integers, Sequences, FiniteSets

CONSTANTS
    Item,       \* turns offered to the queue
    Caller,     \* requests that cancel the draft's turns
    Resender,   \* those that resend an edited message and never abandon
    Cap,        \* capacity of a worker's channel, 256 in the code
    MaxGen      \* bound on the workers made for the draft

ASSUME QueueAssumption ==
    /\ IsFiniteSet(Item) /\ IsFiniteSet(Caller)
    /\ Resender \subseteq Caller
    /\ Cap \in Nat \ {0}
    /\ MaxGen \in Nat

Gen == 1..MaxGen
NoItem == "none"
ASSUME NoItemAssumption == NoItem \notin Item

VARIABLES
    worker,    \* the workers, by generation
    cur,       \* queue.workers[draft], 0 when there is none
    made,      \* workers made so far
    leases,    \* cancelLeases[draft]
    done,      \* queue.ctx is cancelled
    closer,    \* progress of Close
    item,      \* where each turn is, and in which generation
    answered,  \* turns whose terminal message is in the database
    caller     \* the barriers

vars == <<worker, cur, made, leases, done, closer, item, answered, caller>>

-----------------------------------------------------------------------------
Worker == [pc : {"none", "select", "taken", "run", "drop", "exit"}, queue : Seq(Item),
           item : Item \cup {NoItem}, live : BOOLEAN, durable : BOOLEAN,
           canceling : BOOLEAN, retired : BOOLEAN, pending : Int]

NewWorker == [pc |-> "none", queue |-> <<>>, item |-> NoItem, live |-> FALSE, durable |-> FALSE,
              canceling |-> FALSE, retired |-> FALSE, pending |-> 0]

Place == [at : {"new", "reserved", "queued", "taken", "settled", "refused"}, gen : 0..MaxGen]

Barrier == [pc : {"idle", "wait", "drained", "seal", "producers", "drain", "unlock", "over"},
            gen : 0..MaxGen, covered : Int, turns : SUBSET Item, abandon : BOOLEAN]

InFlight(i) == item[i].at \in {"reserved", "queued", "taken"}

\* The turns a worker has counted in and not finished.
Accepted(g) == {i \in Item : InFlight(i) /\ item[i].gen = g}

\* Turns whose Enqueue is between its reservation and its send.
Producers(g) == {i \in Item : item[i].at = "reserved" /\ item[i].gen = g}

Settled(i) == [item EXCEPT ![i].at = "settled"]

\* The runner of the generation is inside a turn whose context is not cancelled.
RunsLive(g) == worker[g].pc = "run" /\ worker[g].live

-----------------------------------------------------------------------------
Init ==
    /\ worker = [g \in Gen |-> NewWorker]
    /\ cur = 0 /\ made = 0
    /\ leases = 0
    /\ done = FALSE
    /\ closer = [pc |-> "idle", gen |-> 0]
    /\ item = [i \in Item |-> [at |-> "new", gen |-> 0]]
    /\ answered = {}
    /\ caller = [c \in Caller |-> [pc |-> "idle", gen |-> 0, covered |-> 0, turns |-> {},
                                   abandon |-> FALSE]]

(* Enqueue. *)

\* Refused: the queue is closed, a barrier stands, or the draft is not idle
\* and the caller asked for an idle one.
Refuse(i) ==
    /\ item[i].at = "new"
    /\ \/ done \/ leases > 0
       \/ cur # 0 /\ (worker[cur].canceling \/ worker[cur].retired \/ worker[cur].pending > 0)
    /\ item' = [item EXCEPT ![i].at = "refused"]
    /\ UNCHANGED <<worker, cur, made, leases, done, closer, answered, caller>>

\* A worker is made when the draft has none, and the turn is counted in.
Reserve(i) ==
    /\ item[i].at = "new"
    /\ ~ done /\ leases = 0
    /\ IF cur = 0
       THEN /\ made < MaxGen
            /\ made' = made + 1 /\ cur' = made + 1
            /\ worker' = [worker EXCEPT ![made + 1] = [@ EXCEPT !.pc = "select", !.pending = 1]]
       ELSE /\ ~ worker[cur].canceling /\ ~ worker[cur].retired
            /\ worker' = [worker EXCEPT ![cur].pending = @ + 1]
            /\ UNCHANGED <<made, cur>>
    /\ item' = [item EXCEPT ![i] = [at |-> "reserved", gen |-> cur']]
    /\ UNCHANGED <<leases, done, closer, answered, caller>>

Send(i) ==
    LET g == item[i].gen IN
    /\ item[i].at = "reserved"
    /\ Len(worker[g].queue) < Cap
    /\ worker' = [worker EXCEPT ![g].queue = Append(@, i)]
    /\ item' = [item EXCEPT ![i].at = "queued"]
    /\ UNCHANGED <<cur, made, leases, done, closer, answered, caller>>

\* The other arms of Enqueue's select: the worker is retired or the queue's
\* context is cancelled while the turn waits for room.
Withdraw(i) ==
    LET g == item[i].gen IN
    /\ item[i].at = "reserved"
    /\ worker[g].retired \/ done
    /\ item' = Settled(i)
    /\ worker' = [worker EXCEPT ![g].pending = @ - 1]
    /\ UNCHANGED <<cur, made, leases, done, closer, answered, caller>>

(* The worker goroutine. *)

Take(g) ==
    LET next == Head(worker[g].queue) IN
    /\ worker[g].pc = "select" /\ worker[g].queue # <<>>
    /\ worker' = [worker EXCEPT ![g] =
         [worker[g] EXCEPT !.pc = "taken", !.item = next, !.queue = Tail(@)]]
    /\ item' = [item EXCEPT ![next].at = "taken"]
    /\ UNCHANGED <<cur, made, leases, done, closer, answered, caller>>

\* Mutant: the worker looks at canceling before it registers the turn.
BeginTurnUnchecked(g) ==
    /\ worker[g].pc = "taken" /\ ~ worker[g].retired
    /\ worker' = [worker EXCEPT ![g] =
         [@ EXCEPT !.pc = "run", !.durable = FALSE, !.live = ~ done]]
    /\ UNCHANGED <<cur, made, leases, done, closer, item, answered, caller>>

\* The turn becomes the current one. It is cancelled at once under a barrier;
\* in a retired generation the runner is not called (see Finish).
BeginTurn(g) ==
    /\ worker[g].pc = "taken" /\ ~ worker[g].retired
    /\ worker' = [worker EXCEPT ![g] =
         [@ EXCEPT !.pc = "run", !.durable = FALSE, !.live = ~ worker[g].canceling /\ ~ done]]
    /\ UNCHANGED <<cur, made, leases, done, closer, item, answered, caller>>

\* The runner returns, or was skipped; the turn is counted out.
Finish(g) ==
    /\ worker[g].pc = "run" \/ (worker[g].pc = "taken" /\ worker[g].retired)
    /\ worker' = [worker EXCEPT ![g] = [worker[g] EXCEPT !.pc = "select",
                     !.item = NoItem, !.live = FALSE, !.durable = FALSE, !.pending = @ - 1]]
    /\ item' = Settled(worker[g].item)
    /\ UNCHANGED <<cur, made, leases, done, closer, answered, caller>>

\* The retire arm of the select.
Retire(g) ==
    /\ worker[g].pc = "select" /\ worker[g].retired
    /\ worker' = [worker EXCEPT ![g].pc = "exit"]
    /\ UNCHANGED <<cur, made, leases, done, closer, item, answered, caller>>

\* A turn is taken out of the channel and counted out without being run.
DropHead(g) ==
    /\ worker[g].queue # <<>>
    /\ worker' = [worker EXCEPT ![g] =
         [worker[g] EXCEPT !.queue = Tail(@), !.pending = @ - 1]]
    /\ item' = Settled(Head(worker[g].queue))

\* The ctx arm: what is in the channel is dropped, then the goroutine ends.
Shutdown(g) ==
    /\ \/ /\ worker[g].pc = "select" /\ done
          /\ worker' = [worker EXCEPT ![g].pc = "drop"]
          /\ UNCHANGED item
       \/ worker[g].pc = "drop" /\ DropHead(g)
       \/ /\ worker[g].pc = "drop" /\ worker[g].queue = <<>>
          /\ worker' = [worker EXCEPT ![g].pc = "exit"]
          /\ UNCHANGED item
    /\ UNCHANGED <<cur, made, leases, done, closer, answered, caller>>

\* Mutant: the commit is not serialised with the barrier.
CommitUnmarked(g) ==
    /\ RunsLive(g) /\ worker[g].item \notin answered
    /\ answered' = answered \cup {worker[g].item}
    /\ UNCHANGED <<worker, cur, made, leases, done, closer, item, caller>>

\* CommitCurrentDurableTerminal: the runner stores the turn's terminal
\* message; the flag is set when the turn is still the draft's current one.
CommitCurrentDurableTerminal(g) ==
    /\ RunsLive(g) /\ worker[g].item \notin answered
    /\ answered' = answered \cup {worker[g].item}
    /\ worker' = IF cur = g THEN [worker EXCEPT ![g].durable = TRUE] ELSE worker
    /\ UNCHANGED <<cur, made, leases, done, closer, item, caller>>

RequestStop ==
    /\ cur # 0 /\ RunsLive(cur)
    /\ worker' = [worker EXCEPT ![cur].live = FALSE]
    /\ UNCHANGED <<cur, made, leases, done, closer, item, answered, caller>>

(* The cancellation barrier. *)

\* BeginDraftCancellation; a resend is refused while another one is draining.
\* `turns' is a history variable: the accepted turns without a terminal.
BeginDraftCancellation(c) ==
    /\ caller[c].pc = "idle" /\ ~ done
    /\ c \in Resender => \A d \in Resender : caller[d].pc \in {"idle", "over"}
    /\ leases' = leases + 1
    /\ IF cur = 0
       THEN /\ caller' = [caller EXCEPT ![c].pc = "wait"]
            /\ UNCHANGED worker
       ELSE LET w == worker[cur] IN
            /\ caller' = [caller EXCEPT ![c] =
                 [@ EXCEPT !.pc = "wait", !.gen = cur, !.turns = Accepted(cur) \ answered,
                           !.covered = IF w.pc = "run" /\ w.durable /\ w.pending > 0
                                       THEN w.pending - 1 ELSE w.pending]]
            /\ worker' = [worker EXCEPT ![cur] = [w EXCEPT !.canceling = TRUE, !.live = FALSE]]
    /\ UNCHANGED <<cur, made, done, closer, item, answered>>

\* Wait returns true.
Drained(c) ==
    /\ caller[c].pc = "wait"
    /\ caller[c].gen # 0 => worker[caller[c].gen].pending = 0
    /\ caller' = [caller EXCEPT ![c].pc = "drained"]
    /\ UNCHANGED <<worker, cur, made, leases, done, closer, item, answered>>

\* The clean-up is done and the barrier is released.
Release(c) ==
    /\ caller[c].pc = "drained"
    /\ caller' = [caller EXCEPT ![c].pc = "unlock"]
    /\ UNCHANGED <<worker, cur, made, leases, done, closer, item, answered>>

\* WaitForDrainOrQueueClose: a resend that timed out keeps the barrier until
\* the turns have drained or the queue is closed.
ReleaseOnClose(c) ==
    /\ caller[c].pc = "wait" /\ c \in Resender /\ done
    /\ caller' = [caller EXCEPT ![c].pc = "unlock"]
    /\ UNCHANGED <<worker, cur, made, leases, done, closer, item, answered>>

\* The wait, or the write of the cancellation marker, fails: the worker is
\* taken out of the map and sealed, unless another caller did that.
Abandon(c) ==
    LET g == caller[c].gen
        mine == g # 0 /\ cur = g
    IN
    /\ caller[c].pc = "wait" /\ c \notin Resender
    /\ caller' = [caller EXCEPT ![c] =
         [@ EXCEPT !.pc = IF mine THEN "producers" ELSE "unlock", !.abandon = TRUE]]
    /\ cur' = IF mine THEN 0 ELSE cur
    /\ worker' = IF mine THEN [worker EXCEPT ![g].retired = TRUE] ELSE worker
    /\ UNCHANGED <<made, leases, done, closer, item, answered>>

\* Mutant: the drain does not wait for the senders.
AwaitNobody(c) ==
    /\ caller[c].pc = "producers"
    /\ caller' = [caller EXCEPT ![c].pc = "drain"]
    /\ UNCHANGED <<worker, cur, made, leases, done, closer, item, answered>>

\* producers.Wait: every Enqueue has sent its turn or withdrawn it.
AwaitProducers(c) ==
    /\ caller[c].pc = "producers" /\ Producers(caller[c].gen) = {}
    /\ caller' = [caller EXCEPT ![c].pc = "drain"]
    /\ UNCHANGED <<worker, cur, made, leases, done, closer, item, answered>>

\* drainRetiredWorker, one turn at a time.
Drain(c) ==
    /\ caller[c].pc = "drain"
    /\ \/ DropHead(caller[c].gen) /\ UNCHANGED caller
       \/ /\ worker[caller[c].gen].queue = <<>>
          /\ caller' = [caller EXCEPT ![c].pc = "unlock"]
          /\ UNCHANGED <<worker, item>>
    /\ UNCHANGED <<cur, made, leases, done, closer, answered>>

\* The end of releaseDraftCancellation: the last lease reopens the worker.
Unlock(c) ==
    LET g == caller[c].gen IN
    /\ caller[c].pc = "unlock"
    /\ caller' = [caller EXCEPT ![c].pc = "over"]
    /\ leases' = IF leases = 0 THEN 0 ELSE leases - 1
    /\ worker' = IF leases' = 0 /\ ~ caller[c].abandon /\ g # 0 /\ cur = g
                 THEN [worker EXCEPT ![g].canceling = FALSE] ELSE worker
    /\ UNCHANGED <<cur, made, done, closer, item, answered>>

(* Shutdown. *)

\* Every turn's context descends from the queue's.
Cancelled == [g \in Gen |-> [worker[g] EXCEPT !.live = FALSE]]

\* The parent context ends before Close is called.
ParentDone ==
    /\ ~ done /\ done' = TRUE
    /\ worker' = Cancelled
    /\ UNCHANGED <<cur, made, leases, closer, item, answered, caller>>

Close ==
    /\ closer.pc = "idle"
    /\ closer' = [pc |-> IF cur = 0 THEN "over" ELSE "seal", gen |-> cur]
    /\ done' = TRUE
    /\ worker' = Cancelled
    /\ cur' = 0 /\ leases' = 0
    /\ UNCHANGED <<made, item, answered, caller>>

CloseSeal ==
    /\ closer.pc = "seal"
    /\ closer' = [closer EXCEPT !.pc = "producers"]
    /\ worker' = [worker EXCEPT ![closer.gen].retired = TRUE]
    /\ UNCHANGED <<cur, made, leases, done, item, answered, caller>>

CloseAwaitProducers ==
    /\ closer.pc = "producers" /\ Producers(closer.gen) = {}
    /\ closer' = [closer EXCEPT !.pc = "drain"]
    /\ UNCHANGED <<worker, cur, made, leases, done, item, answered, caller>>

\* The drain, then the wait for the running turn, which half a second bounds.
CloseDrain ==
    /\ closer.pc = "drain"
    /\ \/ DropHead(closer.gen) /\ UNCHANGED closer
       \/ /\ worker[closer.gen].queue = <<>>
          /\ closer' = [closer EXCEPT !.pc = "over"]
          /\ UNCHANGED <<worker, item>>
    /\ UNCHANGED <<cur, made, leases, done, answered, caller>>

-----------------------------------------------------------------------------
TurnStep(i) == Refuse(i) \/ Reserve(i) \/ Send(i) \/ Withdraw(i)

WorkerStep(g) ==
    \/ Take(g) \/ BeginTurn(g) \/ Finish(g) \/ Retire(g) \/ Shutdown(g)
    \/ CommitCurrentDurableTerminal(g)

CallerStep(c) ==
    \/ BeginDraftCancellation(c) \/ Drained(c) \/ Release(c) \/ ReleaseOnClose(c)
    \/ Abandon(c) \/ AwaitProducers(c) \/ Drain(c) \/ Unlock(c)

CloseStep == ParentDone \/ Close \/ CloseSeal \/ CloseAwaitProducers \/ CloseDrain

Next ==
    \/ \E i \in Item : TurnStep(i)
    \/ \E g \in Gen : WorkerStep(g)
    \/ \E c \in Caller : CallerStep(c)
    \/ RequestStop \/ CloseStep

Spec == Init /\ [][Next]_vars

\* Goroutines that can run do, and timers fire: the senders, the workers, the
\* callers of a barrier and Close, each of which takes one step after the other.
\* Nothing makes a runner return: a provider may ignore its cancelled context
\* for ever.
WorkerProceeds(g) ==
    Take(g) \/ Retire(g) \/ Shutdown(g) \/ BeginTurn(g) \/ (worker[g].pc = "taken" /\ Finish(g))
CallerProceeds(c) ==
    \/ Drained(c) \/ Abandon(c) \/ ReleaseOnClose(c) \/ AwaitProducers(c) \/ Drain(c)
    \/ Release(c) \/ Unlock(c)
Fairness ==
    /\ \A i \in Item : WF_vars(Send(i) \/ Withdraw(i))
    /\ \A g \in Gen : WF_vars(WorkerProceeds(g))
    /\ \A c \in Caller : WF_vars(CallerProceeds(c))
    /\ WF_vars(CloseSeal \/ CloseAwaitProducers \/ CloseDrain)

FairSpec == Spec /\ Fairness

-----------------------------------------------------------------------------
(* Properties. *)

WorkerOK == worker \in [Gen -> Worker] /\ \A g \in Gen : Len(worker[g].queue) <= Cap

RestOK ==
    /\ cur \in 0..MaxGen /\ made \in 0..MaxGen /\ cur <= made
    /\ leases \in Nat
    /\ done \in BOOLEAN
    /\ closer \in [pc : {"idle", "seal", "producers", "drain", "over"}, gen : 0..MaxGen]
    /\ item \in [Item -> Place]
    /\ answered \subseteq Item
    /\ caller \in [Caller -> Barrier]

\* Every variable keeps its shape; a channel holds at most Cap turns.
TypeOK == WorkerOK /\ RestOK

\* pendingCount is the number of turns counted in and not finished, in every
\* generation: `drained' is never closed twice nor left open.
PendingExact == \A g \in Gen : worker[g].pending = Cardinality(Accepted(g))

\* A barrier reports exactly the accepted turns without a terminal message,
\* and none of them gets one afterwards: the marker the API stores counts
\* neither a turn that has answered nor one that will.
CoveredExact ==
    \A c \in Caller :
        /\ caller[c].covered = Cardinality(caller[c].turns)
        /\ caller[c].turns \cap answered = {}

\* While a barrier stands, no turn of the draft runs with a live context.
QuietBarrier == leases > 0 => \A g \in Gen : ~ RunsLive(g)

\* Of all generations, one turn at most runs with a live context.
OneLiveTurn == \A g, h \in Gen : RunsLive(g) /\ RunsLive(h) => g = h

\* From a successful Wait to Release nothing the barrier covered is running.
DrainedIsEmpty ==
    \A c \in Caller : caller[c].pc = "drained" /\ caller[c].gen # 0 => Accepted(caller[c].gen) = {}

\* Turns of an abandoned generation that no runner holds are counted out, even
\* if the runner they wait behind never returns: none is in flight for ever.
Runs(g, i) == worker[g].pc = "run" /\ worker[g].item = i
RetiredDrains ==
    \A i \in Item : []<>~ (InFlight(i) /\ worker[item[i].gen].retired /\ ~ Runs(item[i].gen, i))

Open == leases = 0 /\ (done \/ cur = 0 \/ ~ worker[cur].canceling)

\* Cancellations never close the draft for good, even over a runner that does
\* not return: only a resend that waits for such a runner keeps it closed.
Reopens == []<>Open \/ <>[](\E c \in Resender : caller[c].pc = "wait")

\* What is counted is what is there: turns in a generation, turns under a
\* barrier, and nothing after a Wait.
CountsExact == PendingExact /\ CoveredExact /\ DrainedIsEmpty

\* Nobody waits for a runner that does not return: neither the turns behind it
\* nor the draft, which reopens.
NobodyWaitsForever == RetiredDrains /\ Reopens
=============================================================================
