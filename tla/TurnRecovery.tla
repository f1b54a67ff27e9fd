----------------------------- MODULE TurnRecovery -----------------------------
(***************************************************************************)
(* User messages of one draft from the POST to their turn, over crashes    *)
(* and restarts: go/internal/api/conversation.go, runTurn of               *)
(* go/internal/agent/service.go and go/internal/agent/turn_reconciliation. *)
(*                                                                         *)
(* A message is first stored, then handed to the in-memory queue. No table *)
(* says which turn answered which message: at startup the messages are     *)
(* paired first in, first out with the terminal messages after them (a     *)
(* reply, a failure, a cancellation marker that counts the turns it        *)
(* stopped), and what is left, and was never started, is run again.        *)
(*                                                                         *)
(* What is abstracted:                                                     *)
(*  - the queue is the sequence of accepted turns. TurnQueue shows that a  *)
(*    barrier covers exactly those without a terminal and that they have   *)
(*    no further durable effect, so the barrier empties it at once;        *)
(*  - created_at is the position in the log; rewinds and cleared contexts  *)
(*    are left out;                                                        *)
(*  - the draft never asks: a question that ends a turn is a terminal of   *)
(*    its own, the next terminal may be the same one, and the answer's     *)
(*    turn goes before the messages that waited. None of that is here.     *)
(***************************************************************************)
EXTENDS Integers, Sequences, FiniteSets

CONSTANTS
    Msg,        \* user messages
    MaxFaults   \* bound on crashes, failed statements and cancellations

NoMsg == "none"
ASSUME RecoveryAssumption == NoMsg \notin Msg /\ MaxFaults \in Nat

VARIABLES
    log,       \* messages of the draft: user messages and terminals
    started,   \* messages that have a row in agent_turn_runs
    post,      \* the POST of each message
    accepted,  \* turns accepted by the in-memory queue and not begun
    runner,    \* the turn the runner is in
    barrier,   \* the cancellation in progress
    up,        \* the API process runs
    cancelled, \* history: messages counted by a stored cancellation marker
    faults

recoveryVars == <<log, started, post, accepted, runner, barrier, up, cancelled, faults>>

-----------------------------------------------------------------------------
UserEntry(m) == [kind |-> "user", of |-> m, count |-> 0]
Reply(m) == [kind |-> "terminal", of |-> m, count |-> 1]
Marker(n) == [kind |-> "cancel", of |-> NoMsg, count |-> n]

Fact == [kind : {"user", "terminal", "cancel"}, of : Msg \cup {NoMsg}, count : Nat]
NoRun == [of |-> NoMsg, pc |-> "begun"]
NoBarrier == [pc |-> "open", turns |-> {}]

Stored(m) == \E k \in DOMAIN log : log[k] = UserEntry(m)
Answered(m) == \E k \in DOMAIN log : log[k] = Reply(m)

\* Accepted turns that have no terminal message: what a barrier covers.
Queued == {accepted[k] : k \in DOMAIN accepted}
Pending == Queued \cup (IF runner.pc = "answered" THEN {} ELSE {runner.of} \ {NoMsg})

Fault == faults < MaxFaults /\ faults' = faults + 1

\* The pairing of persistedTurnCandidates: a user message joins the unmatched
\* ones, a terminal takes the oldest ones, as many as it counts.
Pair(unmatched, fact) ==
    IF fact.kind = "user" THEN Append(unmatched, fact.of)
    ELSE SubSeq(unmatched, fact.count + 1, Len(unmatched))

\* What is unmatched after each message of the log, and after all of them.
Pairing[k \in 0..Len(log)] == IF k = 0 THEN <<>> ELSE Pair(Pairing[k - 1], log[k])
Unmatched == Pairing[Len(log)]
Left == {Unmatched[k] : k \in DOMAIN Unmatched}

\* Mutant: a turn that has already been started is a candidate too.
CandidatesAll == Unmatched

\* The unmatched messages that were never started, in their order.
Candidates ==
    LET fresh == {k \in DOMAIN Unmatched : Unmatched[k] \notin started}
        rank(k) == Cardinality({j \in fresh : j <= k}) IN
    [i \in 1..Cardinality(fresh) |-> Unmatched[CHOOSE k \in fresh : rank(k) = i]]

-----------------------------------------------------------------------------
RecoveryInit ==
    /\ log = <<>> /\ started = {} /\ accepted = <<>> /\ cancelled = {}
    /\ post = [m \in Msg |-> "new"]
    /\ runner = NoRun /\ barrier = NoBarrier
    /\ up = TRUE /\ faults = 0

(* The POST: CanEnqueue, the reducer's insert, Enqueue. *)

CanEnqueue(m) ==
    /\ up /\ post[m] = "new" /\ barrier.pc = "open"
    /\ post' = [post EXCEPT ![m] = "checked"]
    /\ UNCHANGED <<log, started, accepted, runner, barrier, up, cancelled, faults>>

Store(m) ==
    /\ up /\ post[m] = "checked"
    /\ post' = [post EXCEPT ![m] = "stored"]
    /\ log' = Append(log, UserEntry(m))
    /\ UNCHANGED <<started, accepted, runner, barrier, up, cancelled, faults>>

\* Refused with 503 when a cancellation has begun; the message stays.
EnqueueUserMessage(m) ==
    /\ up /\ post[m] = "stored"
    /\ post' = [post EXCEPT ![m] = "over"]
    /\ accepted' = IF barrier.pc = "open" THEN Append(accepted, m) ELSE accepted
    /\ UNCHANGED <<log, started, runner, barrier, up, cancelled, faults>>

(* The turn. *)

TakeTurn ==
    /\ barrier.pc = "open" /\ runner = NoRun /\ accepted # <<>>
    /\ runner' = [of |-> Head(accepted), pc |-> "begun"]
    /\ accepted' = Tail(accepted)
    /\ UNCHANGED <<log, started, post, barrier, up, cancelled, faults>>

\* startAgentTurnRun: the row is unique by source message.
StartRun ==
    /\ runner.of # NoMsg /\ runner.pc = "begun" /\ runner.of \notin started
    /\ started' = started \cup {runner.of}
    /\ runner' = [runner EXCEPT !.pc = "running"]
    /\ UNCHANGED <<log, post, accepted, barrier, up, cancelled, faults>>

\* The reply or the failure message is committed.
CommitReply ==
    /\ runner.pc = "running"
    /\ log' = Append(log, Reply(runner.of))
    /\ runner' = [runner EXCEPT !.pc = "answered"]
    /\ UNCHANGED <<started, post, accepted, barrier, up, cancelled, faults>>

FinishTurn ==
    /\ runner.pc = "answered"
    /\ runner' = NoRun
    /\ UNCHANGED <<log, started, post, accepted, barrier, up, cancelled, faults>>

\* The turn ends without a terminal message: its row cannot be written, its
\* edit lease is lost, or the commit of its reply fails.
EndSilently ==
    /\ runner.of # NoMsg /\ runner.pc # "answered"
    /\ Fault
    /\ runner' = NoRun
    /\ UNCHANGED <<log, started, post, accepted, barrier, up, cancelled>>

(* The user cancels. *)

\* BeginDraftCancellation; no marker is stored when nothing is covered.
Cancel ==
    /\ up /\ barrier.pc = "open"
    /\ Fault
    /\ barrier' = [pc |-> IF Pending = {} THEN "wait" ELSE "marker", turns |-> Pending]
    /\ accepted' = <<>> /\ runner' = NoRun
    /\ UNCHANGED <<log, started, post, up, cancelled>>

StoreMarker ==
    /\ barrier.pc = "marker"
    /\ log' = Append(log, Marker(Cardinality(barrier.turns)))
    /\ cancelled' = cancelled \cup barrier.turns
    /\ barrier' = [barrier EXCEPT !.pc = "wait"]
    /\ UNCHANGED <<started, post, accepted, runner, up, faults>>

MarkerFails ==
    /\ barrier.pc = "marker"
    /\ Fault
    /\ barrier' = [barrier EXCEPT !.pc = "wait"]
    /\ UNCHANGED <<log, started, post, accepted, runner, up, cancelled>>

\* Release or Abandon.
Reopen ==
    /\ barrier.pc = "wait"
    /\ barrier' = NoBarrier
    /\ UNCHANGED <<log, started, post, accepted, runner, up, cancelled, faults>>

(* Crash and restart. *)

Crash ==
    /\ up /\ up' = FALSE
    /\ Fault
    /\ accepted' = <<>> /\ runner' = NoRun /\ barrier' = NoBarrier
    /\ post' = [m \in Msg |-> IF post[m] \in {"checked", "stored"} THEN "over" ELSE post[m]]
    /\ UNCHANGED <<log, started, cancelled>>

\* ReconcilePersistedTurns, before the server listens.
Restart ==
    /\ ~ up /\ up' = TRUE
    /\ accepted' = Candidates
    /\ UNCHANGED <<log, started, post, runner, barrier, cancelled, faults>>

-----------------------------------------------------------------------------
RecoveryNext ==
    \/ \E m \in Msg : CanEnqueue(m) \/ Store(m) \/ EnqueueUserMessage(m)
    \/ TakeTurn \/ StartRun \/ CommitReply \/ FinishTurn \/ EndSilently
    \/ Cancel \/ StoreMarker \/ MarkerFails \/ Reopen
    \/ Crash \/ Restart

RecoverySpec == RecoveryInit /\ [][RecoveryNext]_recoveryVars

-----------------------------------------------------------------------------
(* Properties. *)

\* Every variable keeps its shape.
RecoveryTypeOK ==
    /\ log \in Seq(Fact)
    /\ started \subseteq Msg
    /\ post \in [Msg -> {"new", "checked", "stored", "over"}]
    /\ accepted \in Seq(Msg)
    /\ runner \in [of : Msg \cup {NoMsg}, pc : {"begun", "running", "answered"}]
    /\ barrier \in [pc : {"open", "marker", "wait"}, turns : SUBSET Msg]
    /\ up \in BOOLEAN
    /\ cancelled \subseteq Msg
    /\ faults \in 0..MaxFaults

Done(m) == Answered(m) \/ m \in cancelled

\* The turns that are done are the oldest ones.
OldestFirst ==
    \A j, k \in DOMAIN log :
        (j < k /\ log[j].kind = "user" /\ log[k].kind = "user" /\ Done(log[k].of)) => Done(log[j].of)

\* When the turns that are done are the oldest ones, the pairing leaves
\* exactly the others: nothing is lost and nothing is run again.
MatchExact == OldestFirst => Left = {m \in Msg : Stored(m) /\ ~ Done(m)}

\* The terminals never count more turns than there are messages before them,
\* over any number of restarts: the pairing never takes one from a later turn.
NoOvercount == \A k \in DOMAIN log : log[k].count <= Len(Pairing[k - 1])

\* A restart never runs a turn again that has been started.
NeverReplayed ==
    [][~ up /\ up' => {accepted'[k] : k \in DOMAIN accepted'} \cap started = {}]_recoveryVars

\* The restart knows from the messages alone which turns are left, and runs no
\* other (ReconcilePersistedTurns).
RecoveredExactly == [](RecoveryTypeOK /\ MatchExact /\ NoOvercount) /\ NeverReplayed
=============================================================================
