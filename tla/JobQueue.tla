------------------------------ MODULE JobQueue ------------------------------
(***************************************************************************)
(* The durable job queue of go/internal/worker: worker processes claim     *)
(* rows of the jobs table, keep the claim alive with heartbeats, run a     *)
(* handler and write its verdict through the reducer, while every process  *)
(* also recovers rows whose heartbeat went stale and the API cancels jobs. *)
(*                                                                         *)
(* One action is one SQLite write transaction (the database has a single   *)
(* write connection) or one local step between two of them.                *)
(*                                                                         *)
(* What is abstracted:                                                     *)
(*  - worker_id and started_at always travel together and a lane never     *)
(*    claims twice in one nanosecond, so the pair is one number, `claim',  *)
(*    counted per job; 0 is NULL/NULL.                                     *)
(*  - heartbeat_at is only compared with now - timeout and for equality:   *)
(*    `hb' is its age, saturating just above Timeout, and a recovery       *)
(*    snapshot carries `same', cleared by the next heartbeat.              *)
(*  - next_run_at is only compared with now: `wait' is the time left.      *)
(*  - payloads, results and progress fractions carry no control.           *)
(***************************************************************************)
EXTENDS Integers, FiniteSets

CONSTANTS
    Job,         \* job ids
    Proc,        \* worker processes sharing the workspace database
    Lane,        \* claim loops, over all processes
    ProcOf,      \* [Lane -> Proc]
    Filter,      \* [Lane -> SUBSET Job]: the jobs whose kind the lane admits
    Rank,        \* [Job -> Nat]: position in ORDER BY priority, created_at, job_id
    MaxRetries,  \* [Job -> Nat]: max_retries
    Timeout,     \* heartbeat timeout, in ticks
    Punctual,    \* TRUE: the scheduler lets a live lane beat and settle in time
    MaxMishaps   \* bound on crashes, stops and failed statements per behaviour

ASSUME QueueAssumption ==
    /\ ProcOf \in [Lane -> Proc]
    /\ Filter \in [Lane -> SUBSET Job]
    /\ Rank \in [Job -> Nat]
    /\ \A i, j \in Job : Rank[i] = Rank[j] => i = j
    /\ MaxRetries \in [Job -> Nat]
    /\ Timeout \in Nat
    /\ Punctual \in BOOLEAN
    /\ MaxMishaps \in Nat

NoJob == "no job"
ASSUME NoJobAssumption == NoJob \notin Job

VARIABLES
    row,      \* the jobs table
    claims,   \* claims made per job so far (each names a started_at)
    log,      \* terminal events of event_log, by job: the reducer's merge keys
    listed,   \* job ids in drafts.running_jobs_json
    lane,     \* local state of runOnce in each lane
    recov,    \* rows a process's RecoverStale has read and not yet handled
    proc,     \* life cycle of each worker process
    released, \* history: claims given back by ReleaseClaim
    mishaps   \* crashes, stops and failed statements so far

vars == <<row, claims, log, listed, lane, recov, proc, released, mishaps>>

-----------------------------------------------------------------------------
Verdict == {"JobSucceeded", "JobFailed", "JobCancelled"}
Settled == {"succeeded", "failed", "cancelled"}
Open    == {"pending", "running"}

StatusOf == [JobSucceeded |-> "succeeded", JobFailed |-> "failed",
             JobCancelled |-> "cancelled"]

Row == [status : {"absent"} \cup Open \cup Settled, claim : Nat,
        attempts : Nat, hb : 0..(Timeout + 1), wait : Nat]

\* The locals of runOnce between two jobs.
Idle == [pc |-> "idle", job |-> NoJob, claim |-> 0, attempts |-> 0,
         outcome |-> "none", ctx |-> "live"]

Worker == [pc : {"idle", "run", "back", "release", "retry", "finish"},
           job : Job \cup {NoJob}, claim : Nat, attempts : Nat,
           outcome : {"none", "ok", "error", "canceled"},
           ctx : {"live", "cancelled"}]

Snapshot == [job : Job, claim : Nat, attempts : Nat, same : BOOLEAN]

\* RetryDelay: 1 << min(attempts-1, 6) seconds, at most 60.
RetryDelay(attempts) ==
    IF attempts < 1 THEN 1
    ELSE IF attempts >= 7 THEN 60 ELSE <<1, 2, 4, 8, 16, 32>>[attempts]

\* Mutant: <= instead of < against the cutoff.
StaleEarly(j) == row[j].status = "running" /\ row[j].hb >= Timeout
Stale(j) == row[j].status = "running" /\ row[j].hb > Timeout

\* Mutant: worker_id and started_at are not compared.
OwnsByStatus(l) == row[lane[l].job].status = "running"
\* The fence of Heartbeat, ReleaseClaim, ScheduleRetry and the reducer's
\* JobClaim: the row still carries this lane's worker_id and started_at.
Owns(l) == /\ row[lane[l].job].status = "running"
           /\ row[lane[l].job].claim = lane[l].claim

ToPending(j, attempts, delay) ==
    row' = [row EXCEPT ![j] = [@ EXCEPT !.status = "pending", !.claim = 0, !.hb = 0,
                                        !.attempts = attempts, !.wait = delay]]

\* reducer.applyJob on a terminal event whose fences hold. An event whose
\* merge key (type, job_id) is already in event_log is skipped. The claim
\* columns stay as they are.
Terminal(j, event, attempts) ==
    IF event \in log[j]
    THEN UNCHANGED <<row, log, listed>>
    ELSE /\ row' = [row EXCEPT ![j].status = StatusOf[event], ![j].attempts = attempts]
         /\ log' = [log EXCEPT ![j] = @ \cup {event}]
         /\ listed' = listed \ {j}

Mishap == mishaps < MaxMishaps /\ mishaps' = mishaps + 1

-----------------------------------------------------------------------------
Init ==
    /\ row = [j \in Job |-> [status |-> "absent", claim |-> 0, attempts |-> 0,
                             hb |-> 0, wait |-> 0]]
    /\ claims = [j \in Job |-> 0]
    /\ log = [j \in Job |-> {}]
    /\ listed = {}
    /\ lane = [l \in Lane |-> Idle]
    /\ recov = [p \in Proc |-> {}]
    /\ proc = [p \in Proc |-> "starting"]
    /\ released = [j \in Job |-> 0]
    /\ mishaps = 0

(* The API server: enqueue and cancel. *)

Enqueue(j) ==
    /\ row[j].status = "absent"
    /\ row' = [row EXCEPT ![j].status = "pending"]
    /\ listed' = listed \cup {j}
    /\ UNCHANGED <<claims, log, lane, recov, proc, released, mishaps>>

\* Mutant: any job that exists can be cancelled.
CancelSettled(j) ==
    /\ row[j].status # "absent"
    /\ Terminal(j, "JobCancelled", row[j].attempts)
    /\ UNCHANGED <<claims, lane, recov, proc, released, mishaps>>

Cancel(j) ==
    /\ row[j].status \in Open
    /\ Terminal(j, "JobCancelled", row[j].attempts)
    /\ UNCHANGED <<claims, lane, recov, proc, released, mishaps>>

(* One lane: runOnce. *)

Due(l) == {j \in Filter[l] : row[j].status = "pending" /\ row[j].wait = 0}

Claim(l) ==
    /\ proc[ProcOf[l]] = "up"
    /\ lane[l].pc = "idle"
    /\ \E j \in Due(l) :
         /\ \A i \in Due(l) : Rank[j] <= Rank[i]
         /\ row' = [row EXCEPT ![j] = [@ EXCEPT !.status = "running", !.hb = 0,
                                                !.claim = claims[j] + 1]]
         /\ claims' = [claims EXCEPT ![j] = @ + 1]
         /\ lane' = [lane EXCEPT ![l] = [Idle EXCEPT !.pc = "run", !.job = j,
                        !.claim = claims[j] + 1, !.attempts = row[j].attempts]]
    /\ UNCHANGED <<log, listed, recov, proc, released, mishaps>>

\* The heartbeat goroutine: renew the claim, or cancel the handler's context.
Heartbeat(l) ==
    /\ lane[l].pc = "run" /\ lane[l].ctx = "live"
    /\ IF Owns(l)
       THEN /\ row' = [row EXCEPT ![lane[l].job].hb = 0]
            /\ recov' = [p \in Proc |->
                 {[s EXCEPT !.same = @ /\ s.job # lane[l].job] : s \in recov[p]}]
            /\ UNCHANGED lane
       ELSE /\ lane' = [lane EXCEPT ![l].ctx = "cancelled"]
            /\ UNCHANGED <<row, recov>>
    /\ UNCHANGED <<claims, log, listed, proc, released, mishaps>>

HeartbeatError(l) ==
    /\ lane[l].pc = "run" /\ lane[l].ctx = "live"
    /\ Mishap
    /\ lane' = [lane EXCEPT ![l].ctx = "cancelled"]
    /\ UNCHANGED <<row, claims, log, listed, recov, proc, released>>

\* Mutant: a cancelled job may report progress.
ProgressAfterCancel(l) ==
    LET j == lane[l].job IN
    /\ lane[l].pc = "run" /\ lane[l].ctx = "live"
    /\ row[j].claim = lane[l].claim
    /\ row' = [row EXCEPT ![j].status = "running"]
    /\ listed' = listed \cup {j}
    /\ UNCHANGED <<claims, log, lane, recov, proc, released, mishaps>>

\* Mutant: progress updates the jobs table and forgets running_jobs_json.
ProgressUnlisted(l) ==
    LET j == lane[l].job IN
    /\ lane[l].pc = "run" /\ lane[l].ctx = "live"
    /\ row[j].status # "cancelled"
    /\ row[j].claim = lane[l].claim
    /\ row' = [row EXCEPT ![j].status = "running"]
    /\ UNCHANGED <<claims, log, listed, lane, recov, proc, released, mishaps>>

\* A handler reports progress: a JobProgress event carrying worker_id and
\* started_at but no JobClaim, so only `cancelled' and the claim are checked.
Progress(l) ==
    LET j == lane[l].job IN
    /\ lane[l].pc = "run" /\ lane[l].ctx = "live"
    /\ row[j].status # "cancelled"
    /\ row[j].claim = lane[l].claim
    /\ row' = [row EXCEPT ![j].status = "running"]
    /\ listed' = listed \cup {j}
    /\ UNCHANGED <<claims, log, lane, recov, proc, released, mishaps>>

HandlerReturn(l) ==
    /\ lane[l].pc = "run"
    /\ \E o \in {"ok", "error", "canceled"} :
         /\ o = "canceled" => lane[l].ctx = "cancelled"
         /\ lane' = [lane EXCEPT ![l].pc = "back", ![l].outcome = o]
    /\ UNCHANGED <<row, claims, log, listed, recov, proc, released, mishaps>>

\* GetJob after the heartbeat goroutine ended, and the branch it leads to.
ReadBack(l) ==
    LET w == lane[l] IN
    /\ w.pc = "back"
    /\ lane' = [lane EXCEPT ![l] =
         IF ~ Owns(l) THEN Idle
         ELSE [w EXCEPT !.pc =
                 IF proc[ProcOf[l]] = "stopping" THEN "release"
                 ELSE IF w.outcome = "error" /\ w.attempts + 1 <= MaxRetries[w.job]
                      THEN "retry" ELSE "finish"]]
    /\ UNCHANGED <<row, claims, log, listed, recov, proc, released, mishaps>>

Release(l) ==
    LET w == lane[l] IN
    /\ w.pc = "release"
    /\ lane' = [lane EXCEPT ![l] = Idle]
    /\ IF Owns(l)
       THEN /\ ToPending(w.job, row[w.job].attempts, row[w.job].wait)
            /\ released' = [released EXCEPT ![w.job] = @ + 1]
       ELSE UNCHANGED <<row, released>>
    /\ UNCHANGED <<claims, log, listed, recov, proc, mishaps>>

\* Mutant: a retry does not count as an attempt.
RetryForFree(l) ==
    LET w == lane[l] IN
    /\ w.pc = "retry" /\ Owns(l)
    /\ ToPending(w.job, w.attempts, RetryDelay(w.attempts + 1))
    /\ lane' = [lane EXCEPT ![l] = Idle]
    /\ UNCHANGED <<claims, log, listed, recov, proc, released, mishaps>>

\* ScheduleRetry; a lane that lost its claim falls through to emitTerminal.
Retry(l) ==
    LET w == lane[l] IN
    /\ w.pc = "retry"
    /\ IF Owns(l)
       THEN /\ ToPending(w.job, w.attempts + 1, RetryDelay(w.attempts + 1))
            /\ lane' = [lane EXCEPT ![l] = Idle]
       ELSE /\ lane' = [lane EXCEPT ![l].pc = "finish"]
            /\ UNCHANGED row
    /\ UNCHANGED <<claims, log, listed, recov, proc, released, mishaps>>

\* emitTerminal: the verdict, fenced by JobClaim in the same transaction.
Finish(l) ==
    LET w == lane[l]
        event == IF w.outcome = "ok" THEN "JobSucceeded" ELSE "JobFailed"
    IN
    /\ w.pc = "finish"
    /\ lane' = [lane EXCEPT ![l] = Idle]
    /\ IF Owns(l) THEN Terminal(w.job, event, row[w.job].attempts)
                  ELSE UNCHANGED <<row, log, listed>>
    /\ UNCHANGED <<claims, recov, proc, released, mishaps>>

\* Any of the statements after the handler fails: runOnce returns the error
\* and the row stays running until somebody recovers it.
SettleError(l) ==
    /\ lane[l].pc \in {"back", "release", "retry", "finish"}
    /\ Mishap
    /\ lane' = [lane EXCEPT ![l] = Idle]
    /\ UNCHANGED <<row, claims, log, listed, recov, proc, released>>

(* One process: RecoverStale at start and then periodically, stop, crash. *)

\* Mutant: stale rows are recovered when a process starts and not after.
RecoverScanAtStart(p) ==
    /\ recov[p] = {}
    /\ proc[p] = "starting" /\ proc' = [proc EXCEPT ![p] = "recovering"]
    /\ recov' = [recov EXCEPT ![p] =
         {[job |-> j, claim |-> row[j].claim, attempts |-> row[j].attempts,
           same |-> TRUE] : j \in {i \in Job : Stale(i)}}]
    /\ UNCHANGED <<row, claims, log, listed, lane, released, mishaps>>

\* The SELECT, outside any transaction.
RecoverScan(p) ==
    /\ recov[p] = {}
    /\ \/ proc[p] = "starting" /\ proc' = [proc EXCEPT ![p] = "recovering"]
       \/ proc[p] = "up" /\ (\E j \in Job : Stale(j)) /\ UNCHANGED proc
    /\ recov' = [recov EXCEPT ![p] =
         {[job |-> j, claim |-> row[j].claim, attempts |-> row[j].attempts,
           same |-> TRUE] : j \in {i \in Job : Stale(i)}}]
    /\ UNCHANGED <<row, claims, log, listed, lane, released, mishaps>>

\* One row of the snapshot: back to pending, or failed when the retries are
\* used up. Both writes are fenced by the claim and by heartbeat_at.
RecoverRow(p, s) ==
    LET held == /\ row[s.job].status = "running"
                /\ row[s.job].claim = s.claim
                /\ s.same
    IN
    /\ s \in recov[p]
    /\ recov' = [recov EXCEPT ![p] = @ \ {s}]
    /\ IF ~ held THEN UNCHANGED <<row, log, listed>>
       ELSE IF s.attempts + 1 > MaxRetries[s.job]
       THEN Terminal(s.job, "JobFailed", s.attempts + 1)
       ELSE ToPending(s.job, s.attempts + 1, 0) /\ UNCHANGED <<log, listed>>
    /\ UNCHANGED <<claims, lane, proc, released, mishaps>>

StartLanes(p) ==
    /\ proc[p] = "recovering" /\ recov[p] = {}
    /\ proc' = [proc EXCEPT ![p] = "up"]
    /\ UNCHANGED <<row, claims, log, listed, lane, recov, released, mishaps>>

\* A statement of RecoverStale fails: the rest of the pass is dropped, and a
\* process that was starting exits.
RecoverError(p) ==
    /\ recov[p] # {}
    /\ Mishap
    /\ recov' = [recov EXCEPT ![p] = {}]
    /\ proc' = [proc EXCEPT ![p] = IF @ = "recovering" THEN "down" ELSE @]
    /\ UNCHANGED <<row, claims, log, listed, lane, released>>

LanesOf(p) == {l \in Lane : ProcOf[l] = p}

\* SIGTERM: the context of the runner, its handlers and its recovery ends.
Stop(p) ==
    /\ proc[p] = "up"
    /\ Mishap
    /\ proc' = [proc EXCEPT ![p] = "stopping"]
    /\ recov' = [recov EXCEPT ![p] = {}]
    /\ lane' = [l \in Lane |-> IF l \in LanesOf(p) /\ lane[l].pc = "run"
                               THEN [lane[l] EXCEPT !.ctx = "cancelled"] ELSE lane[l]]
    /\ UNCHANGED <<row, claims, log, listed, released>>

Exit(p) ==
    /\ proc[p] = "stopping"
    /\ \A l \in LanesOf(p) : lane[l].pc = "idle"
    /\ proc' = [proc EXCEPT ![p] = "down"]
    /\ UNCHANGED <<row, claims, log, listed, lane, recov, released, mishaps>>

Crash(p) ==
    /\ proc[p] # "down"
    /\ Mishap
    /\ proc' = [proc EXCEPT ![p] = "down"]
    /\ recov' = [recov EXCEPT ![p] = {}]
    /\ lane' = [l \in Lane |-> IF l \in LanesOf(p) THEN Idle ELSE lane[l]]
    /\ UNCHANGED <<row, claims, log, listed, released>>

Restart(p) ==
    /\ proc[p] = "down"
    /\ proc' = [proc EXCEPT ![p] = "starting"]
    /\ UNCHANGED <<row, claims, log, listed, lane, recov, released, mishaps>>

(* Time. *)

Busy(l) == lane[l].pc # "idle"

\* Under Punctual no claim held by a live lane outlives its timeout.
Tick ==
    /\ Punctual => \A l \in Lane : Busy(l) /\ Owns(l) => row[lane[l].job].hb < Timeout
    /\ row' = [j \in Job |->
         [row[j] EXCEPT !.hb = IF row[j].status = "running" /\ @ <= Timeout THEN @ + 1 ELSE @,
                        !.wait = IF @ > 0 THEN @ - 1 ELSE 0]]
    /\ row' # row
    /\ UNCHANGED <<claims, log, listed, lane, recov, proc, released, mishaps>>

-----------------------------------------------------------------------------
LaneStep(l) ==
    \/ Claim(l) \/ Heartbeat(l) \/ HeartbeatError(l) \/ Progress(l)
    \/ HandlerReturn(l) \/ ReadBack(l) \/ Release(l) \/ Retry(l) \/ Finish(l)
    \/ SettleError(l)

ProcStep(p) ==
    \/ RecoverScan(p) \/ (\E s \in recov[p] : RecoverRow(p, s)) \/ StartLanes(p)
    \/ RecoverError(p) \/ Stop(p) \/ Exit(p) \/ Crash(p) \/ Restart(p)

Next ==
    \/ \E j \in Job : Enqueue(j) \/ Cancel(j)
    \/ \E l \in Lane : LaneStep(l)
    \/ \E p \in Proc : ProcStep(p)
    \/ Tick

Spec == Init /\ [][Next]_vars

\* What the Go runtime and the tickers keep doing: goroutines run, loops poll,
\* a stopped worker is started again, and a handler comes back, at the latest
\* when its context is cancelled if its lane is not in Returning (ffmpeg is run
\* under that context). Nothing makes a user act, a process fail or a handler
\* report.
Fairness(Returning) ==
    /\ \A l \in Lane :
         /\ WF_vars(Claim(l)) /\ WF_vars(Heartbeat(l))
         /\ WF_vars(ReadBack(l) \/ Release(l) \/ Retry(l) \/ Finish(l))
         /\ WF_vars((l \in Returning \/ lane[l].ctx = "cancelled") /\ HandlerReturn(l))
    /\ \A p \in Proc :
         /\ WF_vars(RecoverScan(p)) /\ WF_vars(\E s \in recov[p] : RecoverRow(p, s))
         /\ WF_vars(StartLanes(p) \/ Exit(p) \/ Restart(p))
    /\ WF_vars(Tick)

FairSpec == Spec /\ Fairness(Lane)

-----------------------------------------------------------------------------
(* Properties. *)

\* Every variable keeps its shape; a busy lane holds a numbered claim.
TypeOK ==
    /\ row \in [Job -> Row]
    /\ claims \in [Job -> Nat]
    /\ log \in [Job -> SUBSET Verdict]
    /\ listed \subseteq Job
    /\ lane \in [Lane -> Worker]
    /\ \A l \in Lane : Busy(l) => lane[l].job \in Job /\ lane[l].claim > 0
    /\ recov \in [Proc -> SUBSET Snapshot]
    /\ proc \in [Proc -> {"down", "starting", "recovering", "up", "stopping"}]
    /\ released \in [Job -> Nat]
    /\ mishaps \in 0..MaxMishaps

\* Two lanes never both pass the claim fence for one job, whatever crashes,
\* pauses, retries and recoveries came before (Claim, RecoverStale, JobClaim).
OneOwner ==
    \A l, m \in Lane :
        /\ Busy(l) /\ Busy(m) /\ lane[l].job = lane[m].job
        /\ Owns(l) /\ Owns(m)
        => l = m

\* The attempts that count against max_retries.
Spent(attempts, j) == IF attempts <= MaxRetries[j] THEN attempts ELSE MaxRetries[j]

\* The attempts column has paid for every claim but the current one: a claim
\* that did not end in ReleaseClaim cost exactly one attempt, however retry
\* and recovery raced for it.
AttemptsPaid ==
    \A j \in Job : claims[j] = Spent(row[j].attempts, j) + released[j]
                               + (IF row[j].claim = 0 THEN 0 ELSE 1)

\* A job's handler is started at most max_retries + 1 times, plus once for
\* each claim that was given back by a graceful stop.
RetryBudget == \A j \in Job : claims[j] <= MaxRetries[j] + 1 + released[j]

\* running_jobs_json of the draft lists exactly the jobs that are still open,
\* although retry, release and recovery write the jobs table alone.
ListedIffOpen == \A j \in Job : j \in listed <=> row[j].status \in Open

\* A success or a cancellation is never taken back: no late heartbeat, progress
\* report, verdict or recovery changes the status or adds a terminal event.
DecidedIsFinal ==
    [][\A j \in Job : row[j].status \in {"succeeded", "cancelled"} =>
          row'[j].status = row[j].status /\ log'[j] = log[j]]_vars

\* A failure is never taken back either.
FailedIsFinal ==
    [][\A j \in Job : row[j].status = "failed" => row'[j].status = "failed"]_vars

\* A lane begins a job's handler when no other lane is inside of it.
BegunAlone ==
    [][\A l, m \in Lane : l # m /\ lane[l].pc # "run" /\ lane'[l].pc = "run"
                          => ~ (lane'[m].pc = "run" /\ lane'[m].job = lane'[l].job)]_vars

\* A job runs in one place at a time and not again after it has failed.
RunsOnce == BegunAlone /\ FailedIsFinal

\* Every job that was enqueued reaches a verdict.
AllSettle == \A j \in Job : row[j].status = "pending" ~> row[j].status \in Settled

-----------------------------------------------------------------------------
(* The inductive invariant behind OneOwner, RetryBudget, DecidedIsFinal and
   ListedIffOpen. *)

\* The lane's claim is the one the row carries, whatever the row's status.
Holds(l) == Busy(l) /\ row[lane[l].job].claim = lane[l].claim

ClaimsCounted ==
    /\ \A j \in Job : row[j].claim <= claims[j]
    /\ \A l \in Lane : Busy(l) => lane[l].claim <= claims[lane[l].job]
    /\ \A p \in Proc : \A s \in recov[p] : 0 < s.claim /\ s.claim <= claims[s.job]

ClaimsDistinct ==
    \A l, m \in Lane : Busy(l) /\ Busy(m) /\ lane[l].job = lane[m].job
                       /\ lane[l].claim = lane[m].claim => l = m

StatusMatchesClaim ==
    /\ \A j \in Job : row[j].status \in {"absent", "pending"} => row[j].claim = 0
    /\ \A j \in Job : row[j].status = "running" => row[j].claim > 0
    /\ \A l \in Lane : Holds(l) => row[lane[l].job].status \in {"running", "failed", "cancelled"}

SnapshotsAgree ==
    /\ \A l \in Lane : Holds(l) =>
         Spent(lane[l].attempts, lane[l].job) = Spent(row[lane[l].job].attempts, lane[l].job)
    /\ \A l \in Lane : lane[l].pc = "retry" => lane[l].attempts + 1 <= MaxRetries[lane[l].job]
    /\ \A p \in Proc : \A s \in recov[p] : s.claim = row[s.job].claim =>
         Spent(s.attempts, s.job) = Spent(row[s.job].attempts, s.job)

\* The claim bookkeeping: claim numbers never repeat, a lane that holds the
\* row's claim finds it running, failed or cancelled, what a lane or a recovery
\* pass read of the attempts is still true while its claim stands, and every
\* claim but the current one was paid for or given back.
Claims == /\ ClaimsCounted /\ ClaimsDistinct /\ StatusMatchesClaim
          /\ SnapshotsAgree /\ AttemptsPaid

-----------------------------------------------------------------------------
\* What the queue promises, by refinement (see JobLifecycle).
Lifecycle == INSTANCE JobLifecycle WITH
    phase <- [j \in Job |-> row[j].status],
    tries <- [j \in Job |-> Spent(row[j].attempts, j)]
LifecycleSpec == Lifecycle!Spec
=============================================================================
