----------------------------- MODULE TurnStream -----------------------------
(***************************************************************************)
(* The turn stream: TurnStreamHub (go/internal/agent/turn_stream.go), the  *)
(* handler of a draft's event stream (go/internal/api/sse.go) and the page *)
(* whose EventSource reconnects (apps/web, useTurnStream.ts).              *)
(*                                                                         *)
(* Record, subscribe, unsubscribe and the two acknowledgements hold the    *)
(* hub's mutex, so each is one step. A handler writes frame after frame;   *)
(* between two of them the turn goes on, the client may vanish, and the    *)
(* same client may already be back on another connection.                  *)
(*                                                                         *)
(* The hub takes frames from whoever has a turn of the draft in hand: its  *)
(* current turn and those that the turn queue abandoned, which may go on   *)
(* for as long as their provider does.  Frames do not say of which turn    *)
(* they are, so a late turn_ended is the end of whatever turn runs.  And a *)
(* turn that cannot store its run stops without any terminal.              *)
(*                                                                         *)
(* What is abstracted: a frame is what the page and the hub make of it and *)
(* the recovery generation of a terminal; limits on bytes are limits on    *)
(* events; domain events on the same connection are left out; a flush that *)
(* succeeds has reached the client, one on a broken connection fails.      *)
(***************************************************************************)
EXTENDS Integers, FiniteSets, Sequences

CONSTANTS
    Draft, Client, Conn,
    Pages,          \* which draft each client may show
    QueueLimit,     \* frames a subscriber's channel holds, at least 2
    BufferLimit,    \* events a draft's replay buffer holds
    RecoveryLimit,  \* recovery buffers that wait for an absent client
    MaxTurns,       \* bound: turns recorded, over all drafts
    MaxFrames,      \* bound: frames of a draft between two turns that begin
    MaxBreaks       \* bound: connections lost

ASSUME TurnStreamAssumption ==
    /\ IsFiniteSet(Draft)
    /\ Pages \subseteq [Client -> Draft]
    /\ QueueLimit \in Nat /\ QueueLimit >= 2
    /\ BufferLimit \in Nat \ {0} /\ RecoveryLimit \in Nat
    /\ MaxTurns \in Nat /\ MaxFrames \in [Draft -> Nat] /\ MaxBreaks \in Nat

VARIABLES
    draftOf, \* the draft whose page a client shows
    turns,   \* turns begun by a draft, whether the last one runs, how many
             \* abandoned ones do, hub.activeDrafts, and the frames so far
    buffer,  \* hub.buffers
    subs,    \* hub.subs
    failed,  \* hub.failedClients: clients to be told again
    nextGen, \* hub.nextRecoveryGen
    conn,    \* the handlers of the open connections
    client,  \* what a page knows, and its connection
    dropped, \* history: clients the hub gave up or forgot
    silent,  \* history: drafts whose last turn stopped without a terminal
    breaks

hubVars == <<turns, buffer, subs, failed, nextGen, dropped, silent>>
streamVars == <<draftOf, hubVars, conn, client, breaks>>

NoConn == "none"
NoClient == "no client"
Gone == "gone"    \* a stream that is closed, where it is still in a table
ASSUME NullAssumption == {NoConn, Gone} \cap Conn = {} /\ NoClient \notin Client

-----------------------------------------------------------------------------
\* "delta" and "step" frames show the page that a turn runs, "note" ones (a
\* tool that finished, a message discarded) do not.
Frame(type) == [type |-> type, gen |-> 0]
Gap == Frame("gap")
Marker == Frame("truncated")
IsTerminal(f) == f.type = "ended"
EmptyBuffer == [events |-> <<>>, truncated |-> FALSE, gen |-> 0, pending |-> {}, failed |-> {}]
Idle == [state |-> "free", of |-> NoClient, snap |-> <<>>, ackGen |-> 0,
         queue |-> <<>>, closed |-> FALSE, broken |-> FALSE]

Deltas(s) == {i \in DOMAIN s : s[i].type = "delta"}

Over(s) == Len(s) > BufferLimit
Stuck(s) == Over(s) /\ Deltas(s) = {}
OnlyMarker(b) == [b EXCEPT !.events = <<Marker>>, !.truncated = TRUE]

\* The oldest delta goes. The loops of truncateBuffer run at most once: Record
\* adds one event to a buffer within its limit, the marker is one more.
Fitted(s) ==
    IF Over(s) THEN [i \in 1 .. Len(s) - 1 |->
                        IF \E k \in Deltas(s) : k <= i THEN s[i + 1] ELSE s[i]]
    ELSE s

\* truncateBuffer: the oldest delta goes, a marker goes in front the first
\* time; with no delta left only the marker stays.
Truncated(b) ==
    LET kept == Fitted(b.events)
        marked == <<Marker>> \o kept IN
    IF Stuck(b.events) THEN OnlyMarker(b)
    ELSE IF ~ Over(b.events) \/ b.truncated THEN [b EXCEPT !.events = kept]
    ELSE IF Stuck(marked) THEN OnlyMarker(b)
    ELSE [b EXCEPT !.events = Fitted(marked), !.truncated = TRUE]

\* newRecoveryBuffer: gap and terminal, or the terminal alone when the limit
\* leaves no room (the compact terminal carries no generation).
RecoveryBuffer(f, pending, clients) ==
    [events |-> IF BufferLimit >= 2 THEN <<Gap, f>> ELSE <<[f EXCEPT !.gen = 0]>>,
     truncated |-> TRUE, gen |-> f.gen, pending |-> pending, failed |-> clients]

\* enforceRecoveryLimit: the oldest recovery buffers nobody is reading go.
Waiting(buffers) == {d \in Draft : buffers[d].gen # 0 /\ buffers[d].pending = {}}
Evicted(buffers) ==
    LET w == Waiting(buffers) IN
    {d \in w : Cardinality({e \in w : buffers[e].gen > buffers[d].gen}) >= RecoveryLimit}

\* The tables after the limit was enforced; some clients were lost before.
Enforced(buffers, clients, lost) ==
    LET out == Evicted(buffers) IN
    /\ buffer' = [d \in Draft |-> IF d \in out THEN EmptyBuffer ELSE buffers[d]]
    /\ failed' = [d \in Draft |-> IF d \in out THEN {} ELSE clients[d]]
    /\ dropped' = dropped \cup lost \cup UNION {buffers[d].failed \cup clients[d] : d \in out}

-----------------------------------------------------------------------------
StreamInit ==
    /\ draftOf \in Pages
    /\ turns = [d \in Draft |-> [begun |-> 0, current |-> FALSE, late |-> 0,
                                 active |-> FALSE, frames |-> 0]]
    /\ buffer = [d \in Draft |-> EmptyBuffer]
    /\ subs = [d \in Draft |-> {}]
    /\ failed = [d \in Draft |-> {}]
    /\ nextGen = 0 /\ dropped = {} /\ silent = {} /\ breaks = 0
    /\ conn = [k \in Conn |-> Idle]
    /\ client = [c \in Client |-> [conn |-> NoConn, running |-> FALSE]]

ClientsOf(ks) == {conn[k].of : k \in ks}

\* One subscriber's channel: a full one is emptied for a gap (and the
\* terminal), and closed.
Sent(q, f) ==
    IF Len(q) < QueueLimit THEN Append(q, f)
    ELSE IF IsTerminal(f) THEN SubSeq(q, 3, Len(q)) \o <<Gap, f>>
    ELSE Append(Tail(q), Gap)

\* The subscribers of a draft whose channels are full.
Slow(d) == {k \in subs[d] : Len(conn[k].queue) >= QueueLimit}

\* The handlers after every subscriber of the draft was sent the frame.
Published(d, f) ==
    [k \in Conn |-> IF k \in subs[d]
        THEN [conn[k] EXCEPT !.queue = Sent(@, f), !.closed = k \in Slow(d)] ELSE conn[k]]

\* Some turn of the draft can still send frames.
Going(d) == turns[d].current \/ turns[d].late > 0
\* All have ended: what the hub recorded last is a terminal.
Quiet(d) == ~ Going(d) /\ d \notin silent

\* turn_started drops what was kept of the turn before, and who waits for it.
\* The queue runs one turn of a draft at a time, beside those it abandoned.
TurnStarted(d) ==
    /\ ~ turns[d].current
    /\ Cardinality(UNION {{e} \X (1 .. turns[e].begun) : e \in Draft}) < MaxTurns
    /\ turns' = [turns EXCEPT ![d].begun = @ + 1, ![d].current = TRUE,
                              ![d].active = TRUE, ![d].frames = 0]
    /\ buffer' = [buffer EXCEPT ![d] = [EmptyBuffer EXCEPT !.events = <<Frame("started")>>]]
    /\ conn' = Published(d, Frame("started"))
    /\ subs' = [subs EXCEPT ![d] = @ \ Slow(d)]
    /\ failed' = [failed EXCEPT ![d] = ClientsOf(Slow(d))]
    /\ dropped' = dropped \cup (failed[d] \ ClientsOf(subs[d]))
    /\ silent' = silent \ {d}
    /\ UNCHANGED <<draftOf, nextGen, client, breaks>>

\* startAgentTurnRun fails for another reason than a cancellation: runTurn
\* returns, and the hub hears nothing more of the turn. It has sent no frame
\* since turn_started; an abandoned turn may have.
RunFails(d) ==
    /\ turns[d].current /\ (turns[d].frames = 0 \/ turns[d].late > 0)
    /\ turns' = [turns EXCEPT ![d].current = FALSE]
    /\ silent' = silent \cup {d}
    /\ UNCHANGED <<draftOf, buffer, subs, failed, nextGen, dropped, conn, client, breaks>>

\* The queue gives up waiting for a cancelled turn (Abandon): it goes on.
Abandon(d) ==
    /\ turns[d].current
    /\ turns' = [turns EXCEPT ![d].current = FALSE, ![d].late = @ + 1]
    /\ UNCHANGED <<draftOf, buffer, subs, failed, nextGen, dropped, silent, conn, client, breaks>>

\* Record of a frame of any turn that goes on.
TurnFrame(d, type) ==
    /\ Going(d) /\ turns[d].frames < MaxFrames[d]
    /\ turns' = [turns EXCEPT ![d].frames = @ + 1]
    /\ buffer' = [buffer EXCEPT ![d] = Truncated([buffer[d] EXCEPT !.events = Append(@, Frame(type))])]
    /\ conn' = Published(d, Frame(type))
    /\ subs' = [subs EXCEPT ![d] = @ \ Slow(d)]
    /\ failed' = [failed EXCEPT ![d] = @ \cup ClientsOf(Slow(d))]
    /\ UNCHANGED <<draftOf, nextGen, client, dropped, silent, breaks>>

\* Record of turn_ended or turn_error. With a subscriber to acknowledge it, or
\* a client that lost its stream, it is kept under a new generation.
Terminal(d) ==
    LET keep == subs[d] # {} \/ failed[d] # {}
        f == [Frame("ended") EXCEPT !.gen = IF keep THEN nextGen + 1 ELSE 0]
        clients == [failed EXCEPT ![d] = @ \cup ClientsOf(Slow(d))] IN
    /\ nextGen' = IF keep THEN nextGen + 1 ELSE nextGen
    /\ conn' = Published(d, f)
    /\ subs' = [subs EXCEPT ![d] = @ \ Slow(d)]
    /\ Enforced([buffer EXCEPT ![d] = IF keep THEN RecoveryBuffer(f, subs[d] \ Slow(d), clients[d])
                                              ELSE EmptyBuffer], clients, {})
    /\ silent' = silent \ {d}
    /\ UNCHANGED <<draftOf, client, breaks>>

TurnEnded(d) ==
    /\ turns[d].current
    /\ turns' = [turns EXCEPT ![d].current = FALSE, ![d].active = FALSE]
    /\ Terminal(d)

\* The late turn_ended of an abandoned turn: the draft has no active turn from
\* here on, whether or not another one runs.
LateEnded(d) ==
    /\ turns[d].late > 0
    /\ turns' = [turns EXCEPT ![d].late = @ - 1, ![d].active = FALSE]
    /\ Terminal(d)

(* The connection. *)

\* subscribe: the snapshot and the channel are taken under one lock.
Connect(c) ==
    LET d == draftOf[c]
        free == {k \in Conn : conn[k].state = "free"}
        k == CHOOSE k \in free : TRUE IN
    /\ client[c].conn = NoConn /\ free # {}
    /\ conn' = [conn EXCEPT ![k] = [Idle EXCEPT !.state = "open", !.of = c,
                                    !.snap = buffer[d].events, !.ackGen = buffer[d].gen]]
    /\ subs' = [subs EXCEPT ![d] = @ \cup {k}]
    /\ client' = [client EXCEPT ![c].conn = k]
    /\ UNCHANGED <<draftOf, turns, buffer, failed, nextGen, dropped, silent, breaks>>

\* What a page shows after some frames: the last that says anything of it.
Shown(running, frames) ==
    LET told == {i \in DOMAIN frames : frames[i].type \notin {"gap", "truncated", "note"}} IN
    IF told = {} THEN running
    ELSE \E i \in told : frames[i].type # "ended" /\ \A j \in told : j <= i
Heard(c, f) == [client EXCEPT ![c].running = Shown(@, <<f>>)]

\* The end of both acknowledgements. Those who failed since the terminal was
\* kept go with it; and a client whose stream was cut off since is not told of
\* what comes.
Settle(d, k, b) ==
    LET clients == failed[d] \ {conn[k].of}
        cut == {conn[k].of} \ ClientsOf(subs[d]) IN
    IF b.pending = {} /\ b.failed = {}
    THEN /\ buffer' = [buffer EXCEPT ![d] = EmptyBuffer]
         /\ failed' = [failed EXCEPT ![d] = {}]
         /\ dropped' = dropped \cup cut \cup (clients \ ClientsOf(subs[d]))
    ELSE IF b.pending = {}
    THEN Enforced([buffer EXCEPT ![d] = b], [failed EXCEPT ![d] = clients], cut)
    ELSE /\ buffer' = [buffer EXCEPT ![d] = b]
         /\ failed' = [failed EXCEPT ![d] = clients]
         /\ dropped' = dropped \cup cut

\* acknowledgeEvent: only the stream that was subscribed when the turn ended.
AcknowledgeEvent(d, k, gen) ==
    LET b == buffer[d] IN
    IF gen = 0 \/ b.gen # gen \/ k \notin b.pending THEN UNCHANGED <<buffer, failed, dropped>>
    ELSE Settle(d, k, [b EXCEPT !.pending = @ \ {k}, !.failed = @ \ {conn[k].of}])

\* acknowledgeSnapshot: any stream that was given the kept terminal.
AcknowledgeSnapshot(d, k) ==
    LET b == buffer[d] IN
    IF conn[k].ackGen = 0 \/ b.gen # conn[k].ackGen THEN UNCHANGED <<buffer, failed, dropped>>
    ELSE Settle(d, k, [b EXCEPT !.failed = @ \ {conn[k].of}])

\* Mutant: the snapshot is acknowledged before its last frame is out.
LastOfSnapshotEarly(k) == TRUE
LastOfSnapshot(k) == Len(conn[k].snap) = 1

\* The next frame of the snapshot is written and flushed.
WriteSnapshot(k) ==
    LET c == conn[k].of
        f == Head(conn[k].snap) IN
    /\ conn[k].state = "open" /\ ~ conn[k].broken /\ conn[k].snap # <<>>
    /\ client' = Heard(c, f)
    /\ conn' = [conn EXCEPT ![k].snap = Tail(@)]
    /\ IF LastOfSnapshot(k) THEN AcknowledgeSnapshot(draftOf[c], k)
       ELSE AcknowledgeEvent(draftOf[c], k, f.gen)
    /\ UNCHANGED <<draftOf, turns, subs, nextGen, silent, breaks>>

\* The next live frame.
WriteLive(k) ==
    LET c == conn[k].of
        f == Head(conn[k].queue) IN
    /\ conn[k].state = "open" /\ ~ conn[k].broken
    /\ conn[k].snap = <<>> /\ conn[k].queue # <<>>
    /\ client' = Heard(c, f)
    /\ conn' = [conn EXCEPT ![k].queue = Tail(@)]
    /\ AcknowledgeEvent(draftOf[c], k, f.gen)
    /\ UNCHANGED <<draftOf, turns, subs, nextGen, silent, breaks>>

\* The network or the page drops the connection; the handler finds out later.
Break(k) ==
    /\ conn[k].state = "open" /\ ~ conn[k].broken /\ breaks < MaxBreaks
    /\ conn' = [conn EXCEPT ![k].broken = TRUE]
    /\ client' = [client EXCEPT ![conn[k].of].conn = NoConn]
    /\ breaks' = breaks + 1
    /\ UNCHANGED <<draftOf, hubVars>>

\* Mutant: a stream that closes while a turn runs is forgotten.
LostForgotten(d, k) == {}
\* The client that unsubscribe remembers: the hub knows of a turn.
Lost(d, k) == IF k \in subs[d] /\ turns[d].active THEN {conn[k].of} ELSE {}
\* One that it forgets, though turns have not ended: it knows of none, has no
\* other stream of the client and does not wait for it.
Missed(d, k, clients) ==
    IF ~ Quiet(d) /\ ~ turns[d].active
    THEN {conn[k].of} \ (clients \cup ClientsOf(subs[d] \ {k})) ELSE {}

\* The handler returns, on a failed write or a channel closed and read out,
\* and unsubscribes; a terminal it had not written is kept for its client.
\* Where the draft has no subscriber, unsubscribe returns at once: a stream that
\* was cut off after the terminal stays among those the terminal waits for.
Unsubscribe(k) ==
    LET c == conn[k].of
        d == draftOf[c]
        b == buffer[d]
        waits == k \in b.pending
        gone == [b EXCEPT !.pending = (@ \ {k}) \cup {Gone}]
        rest == [b EXCEPT !.pending = @ \ {k}, !.failed = @ \cup {c}]
        clients == [failed EXCEPT ![d] = @ \cup Lost(d, k) \cup IF waits THEN {c} ELSE {}] IN
    /\ conn[k].state = "open"
    /\ conn[k].broken \/ (conn[k].closed /\ conn[k].snap = <<>> /\ conn[k].queue = <<>>)
    /\ conn' = [conn EXCEPT ![k] = Idle]
    /\ client' = [client EXCEPT ![c].conn = IF @ = k THEN NoConn ELSE @]
    /\ subs' = [subs EXCEPT ![d] = @ \ {k}]
    /\ IF subs[d] = {}
       THEN /\ buffer' = IF waits THEN [buffer EXCEPT ![d] = gone] ELSE buffer
            /\ dropped' = dropped \cup Missed(d, k, failed[d])
            /\ UNCHANGED failed
       ELSE IF waits /\ rest.pending = {}
       THEN Enforced([buffer EXCEPT ![d] = rest], clients, {})
       ELSE /\ buffer' = IF waits THEN [buffer EXCEPT ![d] = rest] ELSE buffer
            /\ failed' = clients
            /\ dropped' = dropped \cup Missed(d, k, clients[d])
    /\ UNCHANGED <<draftOf, turns, nextGen, silent, breaks>>

-----------------------------------------------------------------------------
StreamNext ==
    \/ \E d \in Draft : \/ TurnStarted(d) \/ RunFails(d) \/ Abandon(d)
                        \/ TurnEnded(d) \/ LateEnded(d)
                        \/ \E type \in {"delta", "step", "note"} : TurnFrame(d, type)
    \/ \E c \in Client : Connect(c)
    \/ \E k \in Conn : WriteSnapshot(k) \/ WriteLive(k) \/ Break(k) \/ Unsubscribe(k)

StreamSpec == StreamInit /\ [][StreamNext]_streamVars

\* A turn ends or stops (TurnRecovery) unless it is abandoned, an EventSource
\* reconnects by itself, a handler that can write does, and one that cannot
\* finds out.
StreamFairness ==
    /\ \A d \in Draft : WF_streamVars(TurnEnded(d) \/ RunFails(d) \/ Abandon(d))
    /\ \A c \in Client : WF_streamVars(Connect(c))
    /\ \A k \in Conn : WF_streamVars(WriteSnapshot(k) \/ WriteLive(k) \/ Unsubscribe(k))

FairStream == StreamSpec /\ StreamFairness

-----------------------------------------------------------------------------
(* Properties. *)

\* Channels and buffers stay within their limits (a send that would block
\* inside the hub's mutex never happens), subscribers are open connections.
WithinLimits ==
    /\ \A k \in Conn : Len(conn[k].queue) <= QueueLimit
    /\ \A d \in Draft : /\ Len(buffer[d].events) <= BufferLimit
                        /\ subs[d] \subseteq {k \in Conn : conn[k].state = "open" /\ ~ conn[k].closed}
                        /\ buffer[d].pending \subseteq {Gone} \cup {k \in Conn : conn[k].state = "open"}
                        /\ buffer[d].failed \cup failed[d] \subseteq Client

\* What a page will read: the rest of its connection, and the next snapshot
\* where it has none or the hub has closed it.
Coming(c) ==
    LET k == client[c].conn
        next == buffer[draftOf[c]].events IN
    IF k = NoConn THEN next
    ELSE IF conn[k].closed THEN conn[k].snap \o conn[k].queue \o next
    ELSE conn[k].snap \o conn[k].queue

\* A page that believes a turn to be running, when all have ended, will be told:
\* the terminal is on its connection, or kept for the next one, unless the hub
\* gave its client up.
TerminalKept ==
    \A c \in Client : LET d == draftOf[c] IN
        (client[c].running /\ Quiet(d) /\ c \notin dropped)
            => ~ Shown(client[c].running, Coming(c))

\* A kept terminal is kept for somebody: a stream that has not acknowledged it
\* or a client to be told; and no more than RecoveryLimit wait for absentees.
KeptForSomebody ==
    /\ \A d \in Draft : buffer[d].gen # 0 => buffer[d].pending # {} \/ buffer[d].failed # {}
    /\ Cardinality(Waiting(buffer)) <= RecoveryLimit

\* A page that shows a running turn in the end learns that it is over, unless
\* an abandoned turn never ends, the last one stopped without a terminal, or
\* its terminal was given up.
LearnsUnlessDropped ==
    \A c \in Client : LET d == draftOf[c] IN
        []<>(~ client[c].running \/ c \in dropped \/ d \in silent \/ turns[d].late > 0)

\* The end of a turn is kept for those who have not seen it, for nobody else,
\* and within the limits (TurnHub.Record, Subscribe, acknowledge).
TerminalsKept == WithinLimits /\ TerminalKept /\ KeptForSomebody
=============================================================================
