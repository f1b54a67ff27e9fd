------------------------------ MODULE EditLease ------------------------------
(***************************************************************************)
(* Who may move a draft's timeline pointer: the agent edit lease of        *)
(* go/internal/agent/edit_lease.go and the write admission of              *)
(* go/internal/reducer/timeline_write_admission.go, for one draft.         *)
(*                                                                         *)
(* Every turn has a session with a random token. Before its first timeline *)
(* mutation the session takes the row of agent_edit_leases; a heartbeat    *)
(* goroutine renews it and close() deletes it. The reducer admits an agent *)
(* write only under the live row with the turn's token, and a manual write *)
(* only when no live row exists; both also need the state_version the edit *)
(* was computed from.                                                      *)
(*                                                                         *)
(* What is abstracted:                                                     *)
(*  - expires_at is only compared with `now': lease.left is the time left, *)
(*    negative when the row has expired, saturating at -MaxDelay;          *)
(*  - acquire and renew carry the time read before they waited for the     *)
(*    write connection: an in-flight statement has an age, at most         *)
(*    MaxDelay; admission reads the clock inside its transaction;          *)
(*  - state_version counts timeline writes only.                           *)
(***************************************************************************)
EXTENDS Integers

CONSTANTS
    Session,    \* turns, each with its lease session
    TTL,        \* agentEditLeaseTTL in ticks
    MaxDelay,   \* bound on the wait of one statement, in ticks
    Punctual,   \* sessions that the scheduler lets renew in time while they live
    MaxFaults,  \* bound on crashes and failed statements per behaviour
    MaxVersion  \* bound on timeline writes per behaviour

ASSUME LeaseAssumption ==
    /\ TTL \in Nat \ {0}
    /\ MaxDelay \in Nat
    /\ Punctual \subseteq Session
    /\ MaxFaults \in Nat
    /\ MaxVersion \in Nat

Nobody == "nobody"
ASSUME NobodyAssumption == Nobody \notin Session

VARIABLES
    lease,   \* the row of agent_edit_leases; by = Nobody when there is none
    turn,    \* local state of each turn and its session
    user,    \* the manual edit in flight
    tip,     \* state_version, and the base and author of the current timeline
    term,    \* history: when each session acquired the lease, 0 for never
    terms,   \* history: acquisitions so far
    up,      \* the API process runs
    faults

vars == <<lease, turn, user, tip, term, terms, up, faults>>

-----------------------------------------------------------------------------
NoLease == [by |-> Nobody, left |-> 0]
Lease == [by : Session \cup {Nobody}, left : (-MaxDelay)..TTL]

Fresh == [pc |-> "new", ctx |-> "live", base |-> 0, acquired |-> FALSE, lost |-> FALSE,
          close |-> "no", beat |-> "off", age |-> 0]

Turn == [pc : {"new", "think", "acquire", "granted", "edit", "leaving", "ended", "dead"},
         ctx : {"live", "cancelled"}, base : Nat, acquired : BOOLEAN, lost : BOOLEAN,
         close : {"no", "closing", "yes", "failed"}, beat : {"off", "idle", "renew"},
         age : 0..MaxDelay]

\* validateTimelineWriteAdmission for the turn s: a live row with its token.
Admits(s) == lease.by = s /\ lease.left > 0

Locked == lease.by # Nobody /\ lease.left > 0

\* Acquire's upsert: no row, or expires_at <= the time the session read.
Free(s) == lease.by = Nobody \/ lease.left <= -turn[s].age

\* markLost: cancels the turn unless the session is closed or lost already.
MarkLost(w) == IF w.close = "no" /\ ~ w.lost
               THEN [w EXCEPT !.lost = TRUE, !.ctx = "cancelled"] ELSE w

Running(s) == turn[s].pc \in {"think", "acquire", "granted", "edit", "leaving"}

Fault == faults < MaxFaults /\ faults' = faults + 1

-----------------------------------------------------------------------------
Init ==
    /\ lease = NoLease
    /\ turn = [s \in Session |-> Fresh]
    /\ user = [pc |-> "idle", base |-> 0]
    /\ tip = [version |-> 0, base |-> 0, by |-> Nobody]
    /\ term = [s \in Session |-> 0]
    /\ terms = 0
    /\ up = TRUE
    /\ faults = 0

(* One turn. *)

\* The draft's queue starts a turn when the others have ended, or were
\* cancelled and abandoned because their provider does not come back.
Start(s) ==
    /\ up /\ turn[s].pc = "new"
    /\ \A t \in Session : Running(t) => turn[t].ctx = "cancelled"
    /\ turn' = [turn EXCEPT ![s].pc = "think"]
    /\ UNCHANGED <<lease, user, tip, term, terms, up, faults>>

\* A mutating tool call passes ensure(). With the lease held the tool reads
\* state_version and the timeline; without it the acquire statement is sent,
\* the session's mutex being held until it returns.
Ensure(s) ==
    /\ turn[s].pc = "think"
    /\ turn[s].close = "no" /\ ~ turn[s].lost
    /\ turn' = [turn EXCEPT ![s] =
         IF turn[s].acquired THEN [@ EXCEPT !.pc = "edit", !.base = tip.version]
                             ELSE [@ EXCEPT !.pc = "acquire", !.age = 0]]
    /\ UNCHANGED <<lease, user, tip, term, terms, up, faults>>

\* The acquire transaction. A cancelled context or a live row fails the call.
Acquire(s) ==
    /\ turn[s].pc = "acquire"
    /\ IF turn[s].ctx = "live" /\ Free(s)
       THEN /\ lease' = [by |-> s, left |-> TTL - turn[s].age]
            /\ turn' = [turn EXCEPT ![s] = [@ EXCEPT !.pc = "granted", !.age = 0]]
            /\ term' = [term EXCEPT ![s] = terms + 1]
            /\ terms' = terms + 1
       ELSE /\ turn' = [turn EXCEPT ![s] = [@ EXCEPT !.pc = "think", !.age = 0]]
            /\ UNCHANGED <<lease, term, terms>>
    /\ UNCHANGED <<user, tip, up, faults>>

\* Back in ensure(): the flag is set, the heartbeat goroutine and the watcher
\* start, and the mutex is released.
Granted(s) ==
    /\ turn[s].pc = "granted"
    /\ turn' = [turn EXCEPT ![s] = [@ EXCEPT !.pc = "think", !.acquired = TRUE, !.beat = "idle"]]
    /\ UNCHANGED <<lease, user, tip, term, terms, up, faults>>

\* The acquire statement fails for another reason.
AcquireError(s) ==
    /\ turn[s].pc = "acquire"
    /\ Fault
    /\ turn' = [turn EXCEPT ![s] = [@ EXCEPT !.pc = "think", !.age = 0]]
    /\ UNCHANGED <<lease, user, tip, term, terms, up>>

\* Mutant: the write is not compared with the version it was computed from.
WriteUnversioned(s) ==
    LET w == [turn[s] EXCEPT !.pc = "think", !.base = 0] IN
    /\ turn[s].pc = "edit"
    /\ IF w.ctx = "live" /\ Admits(s)
       THEN /\ turn' = [turn EXCEPT ![s] = w]
            /\ tip.version < MaxVersion
            /\ tip' = [version |-> tip.version + 1, base |-> turn[s].base, by |-> s]
       ELSE /\ turn' = [turn EXCEPT ![s] = IF w.ctx = "live" THEN MarkLost(w) ELSE w]
            /\ UNCHANGED tip
    /\ UNCHANGED <<lease, user, term, terms, up, faults>>

\* Mutant: the edit is committed by a background job, outside the turn's
\* context and under the legacy origin.
WriteLegacy(s) ==
    LET w == [turn[s] EXCEPT !.pc = "think", !.base = 0] IN
    /\ turn[s].pc = "edit"
    /\ turn' = [turn EXCEPT ![s] = w]
    /\ IF ~ Locked /\ turn[s].base = tip.version
       THEN /\ tip.version < MaxVersion
            /\ tip' = [version |-> tip.version + 1, base |-> turn[s].base, by |-> s]
       ELSE UNCHANGED tip
    /\ UNCHANGED <<lease, user, term, terms, up, faults>>

\* The tool commits the new timeline: admission, then the strict preflight on
\* state_version, in one transaction. A write refused by admission marks the
\* session lost; a version conflict goes back to the model as a tool failure.
Write(s) ==
    LET w == [turn[s] EXCEPT !.pc = "think", !.base = 0] IN
    /\ turn[s].pc = "edit"
    /\ IF w.ctx = "live" /\ Admits(s)
       THEN /\ turn' = [turn EXCEPT ![s] = w]
            /\ IF turn[s].base = tip.version
               THEN /\ tip.version < MaxVersion
                    /\ tip' = [version |-> tip.version + 1, base |-> turn[s].base, by |-> s]
               ELSE UNCHANGED tip
       ELSE /\ turn' = [turn EXCEPT ![s] = IF w.ctx = "live" THEN MarkLost(w) ELSE w]
            /\ UNCHANGED tip
    /\ UNCHANGED <<lease, user, term, terms, up, faults>>

\* The user stops the turn, or the service shuts down.
Cancel(s) ==
    /\ Running(s) /\ turn[s].ctx = "live"
    /\ turn' = [turn EXCEPT ![s].ctx = "cancelled"]
    /\ UNCHANGED <<lease, user, tip, term, terms, up, faults>>

\* The model's loop is over; runTurn enters its deferred clean-up.
Leave(s) ==
    /\ turn[s].pc = "think"
    /\ turn' = [turn EXCEPT ![s].pc = "leaving"]
    /\ UNCHANGED <<lease, user, tip, term, terms, up, faults>>

End(s) ==
    /\ turn[s].pc = "leaving" /\ turn[s].close \in {"yes", "failed"}
    /\ turn' = [turn EXCEPT ![s].pc = "ended"]
    /\ UNCHANGED <<lease, user, tip, term, terms, up, faults>>

(* The session's goroutines: heartbeat, watcher, close. *)

BeatStart(s) ==
    /\ turn[s].beat = "idle"
    /\ turn' = [turn EXCEPT ![s].beat = "renew", ![s].age = 0]
    /\ UNCHANGED <<lease, user, tip, term, terms, up, faults>>

\* The renew transaction: the row still carries the token and had not expired
\* when the clock was read; otherwise the session is lost.
Renew(s) ==
    LET renewed == lease.by = s /\ lease.left > -turn[s].age
        rest    == [turn[s] EXCEPT !.beat = IF renewed THEN "idle" ELSE "off", !.age = 0]
    IN
    /\ turn[s].beat = "renew"
    /\ turn' = [turn EXCEPT ![s] = IF renewed THEN rest ELSE MarkLost(rest)]
    /\ lease' = IF renewed THEN [lease EXCEPT !.left = TTL - turn[s].age] ELSE lease
    /\ UNCHANGED <<user, tip, term, terms, up, faults>>

\* The renew statement fails or runs into its three seconds.
RenewError(s) ==
    /\ turn[s].beat = "renew"
    /\ Fault
    /\ turn' = [turn EXCEPT ![s] = MarkLost([@ EXCEPT !.beat = "off", !.age = 0])]
    /\ UNCHANGED <<lease, user, tip, term, terms, up>>

\* Mutant: the watcher starts with the session and close() takes no mutex.
CloseEarly(s) ==
    /\ turn[s].close = "no"
    /\ turn[s].pc = "leaving" \/ (Running(s) /\ turn[s].ctx = "cancelled")
    /\ turn' = [turn EXCEPT ![s] = [@ EXCEPT !.beat = "off", !.age = 0,
                     !.close = IF turn[s].acquired THEN "closing" ELSE "yes"]]
    /\ UNCHANGED <<lease, user, tip, term, terms, up, faults>>

\* Mutant: close() leaves the heartbeat running.
CloseKeepsBeat(s) ==
    /\ turn[s].close = "no"
    /\ turn[s].pc = "leaving" \/ (turn[s].pc \in {"think", "edit"} /\ turn[s].acquired
                                  /\ turn[s].ctx = "cancelled")
    /\ turn' = [turn EXCEPT ![s] = [@ EXCEPT
                     !.close = IF turn[s].acquired THEN "closing" ELSE "yes"]]
    /\ UNCHANGED <<lease, user, tip, term, terms, up, faults>>

\* close(), by the watcher of a cancelled turn or by the turn's own clean-up.
\* It waits for the mutex, so for an acquire in flight; the heartbeat ends.
Close(s) ==
    /\ turn[s].close = "no"
    /\ turn[s].pc = "leaving" \/ (turn[s].pc \in {"think", "edit"} /\ turn[s].acquired
                                  /\ turn[s].ctx = "cancelled")
    /\ turn' = [turn EXCEPT ![s] = [@ EXCEPT !.beat = "off", !.age = 0,
                     !.close = IF turn[s].acquired THEN "closing" ELSE "yes"]]
    /\ UNCHANGED <<lease, user, tip, term, terms, up, faults>>

Release(s) ==
    /\ turn[s].close = "closing" /\ turn[s].pc # "dead"
    /\ turn' = [turn EXCEPT ![s].close = "yes"]
    /\ lease' = IF lease.by = s THEN NoLease ELSE lease
    /\ UNCHANGED <<user, tip, term, terms, up, faults>>

\* The delete fails; its error is dropped and the row stays until it expires.
ReleaseError(s) ==
    /\ turn[s].close = "closing" /\ turn[s].pc # "dead"
    /\ Fault
    /\ turn' = [turn EXCEPT ![s].close = "failed"]
    /\ UNCHANGED <<lease, user, tip, term, terms, up>>

(* Manual edits: the timeline patch endpoint. *)

\* A patch of one or more operations. The handler looks at the lease on the
\* read connection once; every operation then takes its own snapshot.
UserRead ==
    /\ up
    /\ \/ user.pc = "idle" /\ ~ Locked
       \/ user.pc = "more"
    /\ user' = [pc |-> "commit", base |-> tip.version]
    /\ UNCHANGED <<lease, turn, tip, term, terms, up, faults>>

\* Mutant: the transaction trusts the early check.
UserWriteUnchecked ==
    /\ user.pc = "commit"
    /\ IF user.base = tip.version
       THEN /\ tip.version < MaxVersion
            /\ tip' = [version |-> tip.version + 1, base |-> user.base, by |-> Nobody]
            /\ \E pc \in {"idle", "more"} : user' = [pc |-> pc, base |-> 0]
       ELSE user' = [pc |-> "idle", base |-> 0] /\ UNCHANGED tip
    /\ UNCHANGED <<lease, turn, term, terms, up, faults>>

\* One operation is committed, in a transaction of its own; the first that is
\* refused ends the patch.
UserWrite ==
    /\ user.pc = "commit"
    /\ IF ~ Locked /\ user.base = tip.version
       THEN /\ tip.version < MaxVersion
            /\ tip' = [version |-> tip.version + 1, base |-> user.base, by |-> Nobody]
            /\ \E pc \in {"idle", "more"} : user' = [pc |-> pc, base |-> 0]
       ELSE user' = [pc |-> "idle", base |-> 0] /\ UNCHANGED tip
    /\ UNCHANGED <<lease, turn, term, terms, up, faults>>

(* The process and the clock. *)

Crash ==
    /\ up /\ up' = FALSE
    /\ Fault
    /\ turn' = [s \in Session |->
         IF Running(s) THEN [turn[s] EXCEPT !.pc = "dead", !.base = 0, !.beat = "off", !.age = 0]
                       ELSE turn[s]]
    /\ user' = [pc |-> "idle", base |-> 0]
    /\ UNCHANGED <<lease, tip, term, terms>>

\* newServiceWithModels deletes the rows that have expired.
Restart ==
    /\ ~ up /\ up' = TRUE
    /\ lease' = IF Locked THEN lease ELSE NoLease
    /\ UNCHANGED <<turn, user, tip, term, terms, faults>>

InFlight(s) == turn[s].pc = "acquire" \/ turn[s].beat = "renew"

\* The session still believes that it holds the lease.
Believes(s) == Running(s) /\ turn[s].acquired /\ ~ turn[s].lost /\ turn[s].close = "no"

Tick ==
    /\ \A s \in Session : InFlight(s) => turn[s].age < MaxDelay
    /\ \A s \in Punctual :
         /\ (Believes(s) \/ turn[s].pc = "granted") /\ lease.by = s => lease.left > 1
         /\ InFlight(s) => turn[s].age + 1 < TTL
    /\ turn' = [s \in Session |-> [turn[s] EXCEPT !.age = IF InFlight(s) THEN @ + 1 ELSE @]]
    /\ lease' = IF lease.by # Nobody /\ lease.left > -MaxDelay
                THEN [lease EXCEPT !.left = @ - 1] ELSE lease
    /\ <<lease', turn'>> # <<lease, turn>>
    /\ UNCHANGED <<user, tip, term, terms, up, faults>>

-----------------------------------------------------------------------------
TurnStep(s) ==
    \/ Start(s) \/ Ensure(s) \/ Acquire(s) \/ Granted(s) \/ AcquireError(s) \/ Write(s)
    \/ Cancel(s) \/ Leave(s) \/ End(s) \/ BeatStart(s) \/ Renew(s) \/ RenewError(s)
    \/ Close(s) \/ Release(s) \/ ReleaseError(s)

Next ==
    \/ \E s \in Session : TurnStep(s)
    \/ UserRead \/ UserWrite \/ Crash \/ Restart \/ Tick

Spec == Init /\ [][Next]_vars

\* Tickers tick, statements return and goroutines run: a turn that acquires, the
\* heartbeat and the close of every session, each of which takes one step after
\* the other. Nothing makes a provider come back, a user act or a statement fail.
Fairness ==
    /\ \A s \in Session : /\ WF_vars(Acquire(s) \/ Granted(s))
                         /\ WF_vars(BeatStart(s) \/ Renew(s))
                         /\ WF_vars(Close(s) \/ Release(s))
    /\ WF_vars(Tick)

FairSpec == Spec /\ Fairness

-----------------------------------------------------------------------------
(* Properties. *)

\* Every variable keeps its shape.
TypeOK ==
    /\ lease \in Lease
    /\ turn \in [Session -> Turn]
    /\ user \in [pc : {"idle", "commit", "more"}, base : Nat]
    /\ tip \in [version : Nat, base : Nat, by : Session \cup {Nobody}]
    /\ term \in [Session -> Nat]
    /\ terms \in Nat
    /\ up \in BOOLEAN
    /\ faults \in 0..MaxFaults

\* A session whose close() deleted its row never owns one again, although
\* acquire, renew, close and the watcher run in different goroutines.
NoGhostLease == \A s \in Session : turn[s].close = "yes" => lease.by # s

\* Once another session has acquired the lease, an earlier one never moves the
\* timeline again: abandoned turns cannot write into their successor's work.
Fenced ==
    [][\A s, t \in Session : 0 < term[t] /\ term[t] < term[s]
          => ~ (tip' # tip /\ tip'.by = t)]_vars

\* Every timeline was computed from the one it replaced: no edit is lost when
\* an expired lease lets a manual edit in between (the strict state_version).
NoLostEdit == tip.version > 0 => tip.base + 1 = tip.version

\* While a turn that renews in time believes that it holds the lease no manual
\* edit is committed, whatever the others do.
ManualKeptOut ==
    [][tip' # tip /\ tip'.by = Nobody => \A s \in Punctual : ~ Believes(s)]_vars

\* The row of a turn that is gone, crashed or failed to delete it, expires:
\* it does not hold the draft for ever.
DeadLeaseExpires ==
    \A s \in Session :
        []<>~ (lease.by = s /\ lease.left > 0 /\ turn[s].pc \in {"ended", "dead"})

\* A turn whose lease was taken or expired is stopped: it does not believe for
\* ever in a lease that admits none of its writes.
LostTurnStops ==
    \A s \in Session : []<>~ (Believes(s) /\ ~ Admits(s))

\* Leases end: with their turn, or else with their time, and a lost one ends
\* its turn.
LeasesEnd == DeadLeaseExpires /\ LostTurnStops
=============================================================================
