# Rushes: TLA+ models and proofs

Rushes is a local-first conversational video editor. A Go API server runs one
agent turn after another for every draft, worker processes ingest, analyse and
render material, and all of them share one SQLite workspace that is only
written through the reducer. This directory holds TLA+ models of the Go
backend, TLC configurations that check them on small instances, and theorems
that TLAPS proves for every instance.

`PROJECT.json` lists the components, runs, mutants, hazards, findings and
theorems, and maps every definition that stands for code to its lines. Paths
below are relative to `src/go/internal` unless they start with `src/`.

    tlc -config JobQueue_paused.cfg MCJobQueue     # any run: cfg and module
    tlapm JobQueueProofs.tla                       # any of the *Proofs modules

## 1. The system

### 1.1 Components

| Component | State | Operations | Hard behaviours | What makes it correct |
|---|---|---|---|---|
| Job queue (`worker/job.go`, `runner.go`) | `jobs` rows, terminal events, `running_jobs_json`, the lanes' snapshots | enqueue, claim, heartbeat, progress, verdict, retry, release, recover, cancel | several processes, leases that lapse, late reports, crash between any two statements | exclusive claims, bounded attempts, final verdicts, every job settles |
| Edit lease (`agent/edit_lease.go`, `reducer/agent_edit_lease_rows.go`, `timeline_write_admission.go`) | `agent_edit_leases` row, session flags, `state_version` | acquire, renew, release, expire, agent write, manual write | four goroutines per session, abandoned turns that wake up, stale clocks | no lost edit, fencing, manual edits kept out |
| Turn queue (`agent/turn_queue.go`) | workers by generation, channel, pending counts, cancellation leases | enqueue, run, durable terminal, stop, barrier, abandon, close | overlapping barriers, half-second timeout, runners that never return | one live turn, exact counts, the draft reopens |
| Turn recovery (`agent/turn_reconciliation.go`, `turn_run.go`) | `messages`, `agent_turn_runs` | store, enqueue, start, answer, mark cancelled, reconcile at startup | crash anywhere, pairing by position | nothing replayed, exact pairing while turns are done in order |
| Turn stream (`agent/turn_stream.go`, `api/sse.go`, the page of `src/apps/web`: `useTurnStream.ts`) | replay buffers, subscribers, failed clients, running or not | record, subscribe, acknowledge, unsubscribe | slow and reconnecting clients, abandoned turns that still send, turns that stop without a terminal | a page that shows a running turn when all have ended is told so, unless the hub gave its client up |
| Agent turn (`agent/service.go`, `react_concurrent.go`, `model_retry.go`, `tool_*.go`, `automatic_*.go`, `terminal_truth.go`) | budgets, checks, previews, the reply | model calls, tool calls, stop gate, QA, guards, commit | retries after partial output, plans that change between check and reply, four budgets | an honest reply about the newest version, nothing half-written, an end |
| Context (`agent/context_manager.go`, `context_builder.go`) | checkpoint, summary, boundary | build, compact, clear | messages that come in between | every reply told once, the instruction told |
| Tool router and index locks (`agent/tool_router.go`, `agentexec/interaction_state.go`) | execution lock, index locks | calls side by side, detectors | writers that wait and keep readers out | while a detector writes the index of one asset nobody else uses that index; nobody waits in a circle |
| Timeline (`timeline/*.go`, `agentexec/tool_exec_timeline.go`, `timeline_integrity.go`, `atomic_edit_admission.go`) | the document, its versions | insert, trim, split, ripple, delete, validate, normalize | seven tracks, boundaries, sound that hangs over, several edits in one message | valid documents, music that stays, frames that were observed |
| Rendering (`media/render.go`, `agentexec/tool_exec_render.go`, `user_export.go`, `worker/render.go`) | render jobs, previews, exports | request, render, deliver, retry, cancel, copy a draft | versions replaced between check and insert, retries of retries | what is played is the document; what is delivered was asked for |
| Materials (`api/materials.go`, `worker/*.go`, `understanding/*.go`) | assets, links, ingest and analysis jobs, index generations, summaries | import, relink, delete, ingest, detect, refresh, publish, backfill | two assets of one content, lists read outside of the transaction | the state shown follows the rows; each generation once |
| Speech (`agentexec/speech_inspect.go`, `talking_head_quality.go`, `media/speech_pauses.go`) | transcripts | utterances, pauses, repetitions, islands, seams | overlapping words and pauses | evidence against a definition |
| Resend and rewind (`api/resend.go`, `reducer/rewind.go`, `storage/rewind.go`) | checkpoints, requests, hidden messages | resend an edited message | lost answers, cancellation that times out, other writers | idempotent per key, restores what stood |
| Object store (`media/object_store.go`, `storage/object_*.go`) | object files, quarantine, `objects` rows, file locks | put, sweep, recover quarantine | sweep against a put, crash in a sweep | no referenced file is removed |
| User memories (`agentexec/tool_exec_memory.go`, `api/memories.go`, `reducer/rewind.go`) | `user_memories` | set, remove, revise, withdraw after a rewind | written again under other messages | a withdrawal takes what the user saw |
| Reducer and event log (`reducer/reducer.go`) | `event_log`, projections, `state_version` | `Apply`: strict compare-and-set, merge keys, projection | batches, retried events | part of every module above |

Providers, ffmpeg, the tool schemas, configuration, telemetry, the process entry
points, the web front end but for the page's turn stream, and the tests are the
environment of these models:
see `components` in `PROJECT.json` for each one's status and reason.

### 1.2 Interactions

The front end posts a message (`api/conversation.go`): it is stored through the
reducer and handed to the draft's `TurnQueue`. The queue's worker goroutine runs
the turn; its timeline tools take the draft's edit lease and commit through the
reducer; long operations become rows of `jobs`, which worker processes claim.
A worker's verdict is an event again. A cancel or a resend raises a barrier on
the queue. After a crash the API process derives the unfinished turns from the
tables, and worker processes recover the rows whose heartbeat is stale.

SQLite has a single writing connection, so every write transaction is one atomic
step in all modules. What is read on a read connection is kept in a local
variable, or as a flag saying that it is still true, and used in a later step.

### 1.3 Hazards

`hazards` in `PROJECT.json` lists what is hard to test in this code, at its line,
with the properties that would catch it. They are of four kinds, mostly: values
read outside of the transaction that uses them (job recovery, publication,
rewind checkpoints, render checks), goroutines that outlive what they work for
(abandoned turns, paused lanes, watchers), positions that stand for identities
(the pairing of messages and replies, compaction boundaries, frame numbers), and
budgets and buffers that meet their limit together.

## 2. Modules

| Module | What it is |
|---|---|
| `JobQueue`, `JobLifecycle` | jobs, lanes, processes, recovery; the abstract job that `JobQueue` implements |
| `EditLease` | the lease of one draft with its turns, the user and the clock |
| `TurnQueue` | the queue of one draft with its barriers and shutdown |
| `TurnRecovery` | messages, turns and restarts of one draft over an abstract queue |
| `TurnStream` | the hub, the stream handler and a page that reconnects |
| `ToolLoop` | one turn from the first model call to the message that closes it |
| `Context` | messages, checkpoint and summary over turns, clears and resends |
| `IndexLocks` | the tool calls of two turns and the locks they take |
| `Materials` | from import to a published index |
| `Rewind` | the conversation of a draft with decisions, renders and resends |
| `Deliverables` | previews, exports and copies of drafts |
| `ObjectStore` | file locks, sweep, quarantine, Put and the rows |
| `UserMemory` | memories, revisions and withdrawals |
| `MCWorkspace` | composes `Deliverables`, `ObjectStore`, `Context`, `TurnRecovery`, `UserMemory` and `IndexLocks` |
| `Timeline`, `Render`, `TimelineEdit` | the document and its operations, what a render plays of it, the edit handler |
| `FilterGraph`, `Inspection` | the ffmpeg graph of a render; black, frozen and silent stretches |
| `Speech`, `SpeechEvidence` | recognition to utterances and pauses; repetitions, islands, seams |
| `Footage`, `ContentContract` | cutting material into segments; the acceptance of a content plan |
| `WorldState`, `TimelineView` | merge patches and waveform; the clips the model is shown |
| `Algorithms` | the pure modules against reference definitions |
| `*Proofs` | theorems, see section 4 |
| `MC*` | model values and small instances for TLC |

### 2.1 Jobs, leases and turns

**JobQueue.** One action is one transaction or one local step. `Claim`,
`Heartbeat`, `Progress`, `Retry`, `Release` and `Finish` are the statements of
`job.go` with the WHERE clauses as guards; `Owns` is the fence of `JobClaim`. A
lane keeps the attempts and the claim it read; `ReadBack` is the branch of
`runOnce` after the handler. `RecoverScan` reads the stale rows outside the
transactions in which `RecoverRow` handles them one by one. `worker_id` and
`started_at` are one number, counted per job. `heartbeat_at` is an age that
saturates just above the timeout. `Punctual` says whether the scheduler lets a
live lane beat in time; with FALSE a lane can be suspended and come back.

**EditLease.** `turn[s].pc` is the turn (`ensure`, the mutation, the deferred
close) and `close`, `beat` and `ctx` are the session shared with its heartbeat
and watcher goroutines. `Acquire` and `Renew` carry the time they read before
they waited for the write connection, as an age of at most `MaxDelay`; admission
reads the clock inside its transaction. `UserRead` and `UserWrite` are the patch
endpoint: the lease is looked at once, every operation of a batch commits by itself.

**TurnQueue.** A step is a section under `queue.mu` or `worker.mu`. `Reserve` and
`Send` are the two halves of `Enqueue`, with `Withdraw` for the other arms of its
select. `Take`, `BeginTurn` and `Finish` are `runWorker`;
`CommitCurrentDurableTerminal` is the commit under `worker.mu` on which the count
of a barrier depends. `BeginDraftCancellation`, `Drained`, `Release`, `Abandon`
and `Unlock` are a barrier's life; callers in `Resender` never abandon. `Close*`
is the shutdown. Several generations of the worker exist because an abandoned
one may still be inside its runner. `Close` waits half a second for producers,
and the model assumes that they leave their select in that time.

**TurnRecovery.** `CanEnqueue`, `Store` and `EnqueueUserMessage` are the three steps
of a POST; the crash may fall between any two. `Pair` and `Candidates` are the pairing
of `persistedTurnCandidates` for a draft that never asks: a user message joins the
unmatched ones, a terminal takes as many of the oldest as it counts. Left out are the
decision branches (`turn_reconciliation.go:321-353`): a question that ends a turn is a
terminal of its own, the next terminal may be the same one told again, and the turn of
an answer goes before the messages that waited. The queue is a sequence that a barrier empties at
once: `CountsExact` and `QuietBarrier` of `TurnQueue` are the facts this rests on.

**TurnStream.** Record, subscribe, unsubscribe and the acknowledgements hold the
hub's mutex, so each is one step; the handler writes frame by frame. A frame is
what the hub and the page make of its type (`started`, `delta`, `step`, `note`,
`ended`, `gap`, `truncated`) and a terminal's recovery generation. It does not say
of which turn it is, as in the code, where neither the hub nor the page asks. A draft
has at most one current turn and any number of abandoned ones beside it
(`Abandon`): these go on sending frames and each sends its `turn_ended` late
(`LateEnded`), which for the hub is the end of whatever turn runs. `RunFails` is the
return of `service.go:201-213` without a terminal. `silent` and `dropped` are history:
drafts whose last turn stopped so, and clients that the hub gave up or forgot.
`Gone` stands for a stream that is closed and still in `pendingSubscribers`.
`Shown` is what `useTurnStream.ts` shows after some frames. `Fitted` drops one delta
where the code has a loop: a buffer within its limit grows by one event, and by one
marker. That it is within its limit is part of what is proved.

### 2.2 The agent's turn

**ToolLoop.** The model is free: any message of `Messages` or any kind of text
(one that claims to be done, admits it is not, says neither, or nothing). A tool
call is its effect on version, plan, question and refusal. `truth` is
`terminalTimelineTruthState`, `gate` is `automaticPreviewQAState`; `checked` and
`viewed` are history: which version and plan have a successful check and preview.
`GateReads`, `GateChecks`, `GateDecides` are the branch after a text, `Guard*` the
guards of the final reply, `Commit*` its transaction. Graph steps are counted as
`2 * rounds - 1`. A reflection's restatement keeps the reply's claims, only the
harness checks and previews, and there is one kind of destructive call.

**Context.** A message is its rowid; `checkpoint` is its boundary and what its
summary was made from. **IndexLocks.** A call is the set of locks it takes;
a message runs its calls at once when each of them reads or is a detector of one asset
that no other call of it uses (`canRunParallel`), `shot.deep_search` among them;
`Rank` is the order in which `Begin` and `indexLocks` sort them, and a call wants the
first it lacks. A domain's own lock is number 0 of the domain, assets are numbered as
their identifiers are sorted; `sync.RWMutex` keeps new readers out while a writer
waits. What may happen is a guard (`MayAnnounce`, `MayAcquire`), so that `NoCircle`
can say without ENABLED that something may.

### 2.3 The workspace

**Materials.** One action is a reducer transaction or the reads before it; a job
row carries its handler's place, as `JobQueue` shows that one execution commits.
**Rewind.** A POST stores its message whenever `CanEnqueue` lets it and hands its turn
over later, so two may be under way, behind a waiting turn, or in the gap after a
resend's barrier. `fresh` says that no write touched the draft since a handler read its
`state_version`; the queue is reduced to what a barrier does. **Deliverables.**
`same` is the same flag for strict events. **ObjectStore.** A file is known by its
content and by whether it is older than `orphanObjectMinimumAge`; flock is modelled
by what it promises. **UserMemory.** Every write has a time of its own and all
statements are taken for the same text.

`MCWorkspace` lets one part move at a time. The parts share no state, so nothing
is lost by it and the product of their states is not built.

### 2.4 Timeline, rendering, speech, footage

Operations yield the set of documents they may produce, empty where the code
returns an error. Rates are small fractions; gains, effects, subtitle texts and
ducking's levels are left out. Algorithms that have no state are pure operators
and `Algorithms` takes one input at a time, of one part of the system
(`input.part`, chosen at the start). The content contract is checked for what it
keeps, covers and finds on the beat and for its length against several planned
lengths; the density of its cuts is left out.

## 3. Runs

| Run | Instance | Shows |
|---|---|---|
| `jobs_paused` | 1 job, 2 processes with a lane each, 1 retry, 2 mishaps, lanes may pause | `OneOwner`, `RetryBudget`, `ListedIffOpen`, `DecidedIsFinal` |
| `jobs_punctual` | the same, lanes beat in time | `RunsOnce`, refinement of `JobLifecycle` (`LifecycleSpec`), `AllSettle` |
| `lease` | 2 turns and the user, one session punctual, TTL 2, delay 1, faults and writes within 2 | `NoGhostLease`, `NoLostEdit`, `Fenced`, `ManualKeptOut`, `LeasesEnd` |
| `queue` | 3 turns, 2 barriers (one a resend), channel of 1, 2 generations | `CountsExact`, `QuietBarrier`, `OneLiveTurn`, `NobodyWaitsForever` |
| `materials_exact` | 2 assets of one file, 2 requests, 1 fault, a refresh with a retry | `MaterialsSound` |
| `stream` | 2 drafts, 2 pages, 2 connections, one recovery buffer, turns abandoned and stopped | `TerminalsKept`, `LearnsUnlessDropped` |
| `editing` | every request, two in a row and the stop gate, two documents | `DocumentSound`, `SoundsStay`, `PlayedExactly`, `FramesObserved` |
| `resend` | 2 handlers, 2 keys, 3 messages, 3 versions, 1 card, 1 render | `DraftPoints`, `ConversationNests`, `RestoredExactly` |
| `turn` | 2 rounds, 2 passes, 1 retry, 3 versions, 1 plan change, 2 mishaps | `RepliesSound`, `EndsWhole`, `TurnEnds` |
| `workspace` | the six parts of `MCWorkspace` | `ObjectsKept`, `ToldOnce`, `LocksSound`, `DeliveriesSound`, `RecoveredExactly`, `MemoriesSound` |
| `algorithms` | bounded inputs of every pure module | `RenderingExact`, `SpeechExact`, `ProjectExact`, `FootageExact` |
| `context_lost` | `Context` without clears | violated: `InstructionTold` (finding) |

Every property has a mutant in `PROJECT.json`: an operator beside the one it
replaces, marked "Mutant" in its comment, under which the run fails.

### 3.1 Bounds and why they are enough

- Two mishaps let a job be lost by one lane and again by the next, which is where
  the attempts of a lane and of a recovery pass meet. One fault is enough for a
  lease: a session has one row to lose. Four faults in the recovery part allow a
  crash, a silent end, a cancellation and another crash.
- Two lanes, sessions, barriers, handlers, processes, assets, tool calls: the
  properties are about pairs. The proofs cover any number.
- A channel of one (256 in the code) is full with two waiting turns. Two
  generations let an abandoned worker and its successor run side by side.
- Two rounds and two passes stand for the 40 and 3 of the code: the budgets meet
  in the same order.
- One question, clear, plan change or refresh at a time where a second one meets
  the same guards as the first.
- Where the product of all bounds is too large, an MC module bounds two counters
  together. `BoundedSpec` of `lease` takes faults and versions together, that of
  `turn` mishaps, plan changes and versions (`Within`), that of `materials_exact` one of
  refresh, deletion and lost import (`OneAtATime`: each still meets all that becomes of
  the base job), `WithinDeeds` versions, render jobs and copies, `FewEvents` turns and
  broken connections. `BoundedSpec` of `resend` has a question or a render but not both
  (`OneOfThem`: they share no row), and several turns handed over or waiting with one
  version, question or render at most (`FewTurns`). In `lease` and `stream` the
  steps so bounded are not under fairness; in `turn` some are, but a turn that is not
  over always has a step within the bound (the model may say something else, a
  statement succeed). So no bound makes a liveness property true by ending the behaviour.
- `InOrder` and `OrderedSpec` break symmetries: turns are sent, withdrawn or refused, and
  messages stored, in the order of their names, and any behaviour has a renaming that
  does so. Requests and keys are permuted by TLC where the run checks
  safety only. `editing` has a VIEW (`Future`) that leaves out who asked for the last
  edit, which nothing in the future of a state depends on.
- `CHECK_DEADLOCK FALSE` is used where the system may rest with the bounds used
  up and everything settled.

### 3.2 Fairness

Weak fairness stands for what the Go runtime and the tickers do: runnable
goroutines run, tickers tick, statements return, timers fire, a stopped worker
process is started again, `EventSource` reconnects. Nothing is assumed of users,
failures or providers, except that a call made under a context or a timeout
returns. In `JobQueue` a handler returns at the latest when its context is
cancelled (ffmpeg runs under it). Fairness is per goroutine, which takes one step after
the other: the acquiring turn, the heartbeat and the close of a session in `EditLease`,
the senders, workers, callers of a barrier and `Close` in `TurnQueue`. In `TurnQueue`
nothing makes a runner return: `NobodyWaitsForever` holds all the same, with the one
exception it states, a resend that waits for its cancelled turn. In `ToolLoop` the turn's goroutine runs on.
In `TurnStream` a turn that has begun ends, stops without a terminal or is abandoned;
nothing makes an abandoned turn end. Liveness is stated as `[]<>`: the page, the lease
or the turn is again and again where it should be.

### 3.3 Finding

`context_lost`: `context_manager.go:641-643` promises that the instruction a turn is
to carry out remains outside the summary. The boundary that a compaction stores
is the place of the last item that is not the user's; a reply of the turn before
may stand after an instruction that was queued while that turn was running, and
then the instruction is in neither the summary nor the rebuilt history.

### 3.4 Observations

What the models showed of the code besides, each kept in the model as it is.

- *Jobs.* A late progress report of a paused lane revives a job that recovery has
  failed (`reducer.go:1447`); if the lane then ends without a verdict, the second
  `JobFailed` is skipped as a duplicate and the row stays running.
- *Recovery.* An older message whose turn ended without a terminal absorbs the
  count of a cancellation marker, so that a cancelled turn runs after a restart; a
  message that was stored but not started before another is paired with the
  other's reply. `RecoveredExactly` says what holds while turns are done in the
  order in which their messages were stored; its proof shows that there is no other
  reason: where the pairing is off, a turn has been done before an older one.
- *Materials.* `AssetLinked` and `AssetUnlinked` carry merge keys that live for
  ever: importing a deleted asset again links nothing.
- *Stream.* `turn_started` forgets the clients that failed: one that is away over
  two turns is not told of the first one's end. When `startAgentTurnRun` fails for
  another reason than a cancellation, a failed statement say, `runTurn` returns without
  a terminal (`service.go:201-213`, `RunFails`): the page shows a running turn, and the
  draft stays among the active ones, until its next turn begins. `LearnsUnlessDropped`
  sets that aside as `silent`. (The comment at `205-207`, that the page must not be left
  running for good, is about cancelled turns, which are paired with a `turn_ended`.) The late `turn_ended` of an abandoned
  turn is taken for the end of its successor: pages show no running turn until the
  next `delta` or `step`, the draft is no longer active (`turn_stream.go:218`), and the
  client of a stream that is lost from there on is not remembered; it learns of the
  successor's end only if it is connected again by then. A stream that late frames cut
  off after a kept terminal loses its client to its own acknowledgement, and where the
  draft has no other subscriber the early return of `unsubscribe` leaves the stream
  among those the terminal waits for. An acknowledgement that empties the buffer deletes
  the clients that failed since. `dropped` records all of these, and
  `LearnsUnlessDropped` sets them aside.
- *Turn.* A turn that edits and then asks a blocking question cannot be checked
  (the barrier refuses the check) and ends failed. A lease lost as late as the
  commit is reported as the user's stop. A database error at the commit gives
  `turn_error` without `turn_ended`.
- *Context.* A clear reads `IsBusy` and commits without a lease; a message posted
  in between is hidden from its own turn. The turn of an answer has no boundary
  and may summarise queued messages.
- *Resend.* The barrier is released before the new message is enqueued; a retry
  of the same key in the gap enqueues it too.
- *Render.* A still at a rate above 1 plays shorter than planned; a timeline whose
  last original sound is deleted plays the pictures' own sound again. Where
  `visual_base` is muted that sound is played all the same (`render.go:68-108`,
  `359-376`), and the content contract does not count it (`content_contract.go:123-129`):
  `KeptIsHeard` leaves the case out of the half that says what is heard is found.
- *Speech.* Clauses on a stretch with fewer frames than clauses give an utterance
  that ends where it begins; a pause that two contiguous clips split is not
  reported as a residual breath.
- *Locks.* `shot.deep_search` may write the index of several assets and takes the
  lock of the first.
- *Deliverables.* Progress reports touch `state_version`, so a render can use up
  the attempts of an export request.

## 4. Theorems

All theorems are about the specification of their module for any values of the
constants and rest on the module's named ASSUME, two of them on `Punctual` too.
TLC evaluates the assumptions on every run. Each `*Proofs` module is about the
module it is named for; `WorkspaceProofs` is about the parts of `MCWorkspace` and
`LeaseStreamProofs` about `EditLease` and `TurnStream`, side by side.

- **JobQueue.** `TypeCorrect`; `ClaimsKept`: `TypeOK /\ Claims` is inductive.
  `OneOwner` alone is not: one must know that claim numbers never repeat
  (`ClaimsCounted`, `ClaimsDistinct`), what a claim says of the status, and that
  the attempts a lane or a recovery pass read are still true while its claim
  stands (`SnapshotsAgree`). `SingleOwner`, `RetriesBounded`, `VerdictsFinal`
  and `ListAgrees` follow.
- **JobQueue, when live lanes beat in time** (the hypothesis `Punctual`, the one
  difference between the two runs). `Beating`: a busy lane has its job's claim,
  on a running row with a fresh heartbeat or a cancelled one, and a row that a
  recovery pass may still take has a stale one. From it, step by step,
  `QueueImplementsLifecycle`: each step moves one job as `JobLifecycle` allows
  (`Allowed`) or none (`Stutters`). `JobsRunOnce`: a handler is in one lane at a
  time, and a failed job never runs again. `jobs_paused` shows why the
  hypothesis is there: a paused lane loses its claim, and only the fences hold.
- **EditLease** (`LeaseStreamProofs`). `TypeCorrect`; `ClosedSessionsOwnNothing` (no statement of a
  closed session is in flight); `StaleTurnsFenced` (the row carries the token of
  the last acquisition); `NoEditIsLost`; `PunctualKeepsUsersOut` (a session that
  renews in time and believes in its lease has a live row).
- **TurnQueue.** `Inv == TypeOK /\ Running /\ Leased`. `TypeOK` alone is not
  inductive: that the runner's turn is a turn needs `Running`. `Running` says
  that a live turn is in the current worker under no mark, and that other
  goroutines are sealed or ending. An abandoning caller removes the current
  worker, so `Running` needs `Leased`: until `Close` the leases count their
  holders, and while there is one the current worker is marked, hence nothing is
  live. `OneAtATime` and `BarrierHolds` follow.
- **TurnQueue, the counts** (second part of `TurnQueueProofs`). `QueueCounts`:
  `CountsExact` is invariant. `CountInv` follows every accepted turn: it is with its
  producer, in a channel, in a runner or settled (`Made`, `Channelled`, `Held`,
  `Marked`), so that a generation's pending count is the number of its turns that are
  not settled (`PendingExact`), what a barrier counted is what it stopped
  (`CoveredExact`), and a drained worker has an empty channel (`DrainedIsEmpty`).
  The lemmas treat the steps by kind: those that move no turn, those that move
  one, those that settle one.
- **ObjectStore** (`WorkspaceProofs`, like the next two). `StoreSafe`: `StoreInv` says
  what a lock lets its holder do (`LocksMatch`, `LocksExclude`), and what the sweep has
  at hand has no row and no handler (`SweepsOrphans`). `SweepTakesOrphansOnly` follows,
  for any number of processes, contents, crashes and failed sweeps.
- **Context.** `ContextInvariant`: `ContextInv` is inductive. `RepliesOnce` looks at the
  turn that is told, but what it is told was fixed before: by the boundary of the
  checkpoint, which is the place of the last item a summary was made from. So a
  checkpoint covers the replies up to its boundary and no other (`PointTrue`); a turn
  that summarises has all later replies in its history, after everything the summary
  covers (`TurnTrue`), and none of them is its own message, for that is the user's
  (`ItemsAsked`). `SummaryCovers` puts these together. A reply is written by the turn
  that runs, which is over then, a clear begins a new tail, a resend drops the
  checkpoint: the invariant needs no more. `RepliesAreToldOnce` follows. What it cannot
  say is refuted: the user's own messages (the finding of 3.3).
- **UserMemory.** `MemoryInvariant`: `MemoryInv` is inductive. That a rewind mentions
  what it took the ground from compares times, places and numbers of questions that are
  kept apart: messages have the order of their times and of the questions before them
  (`PostsTrue`), a question comes after the message whose turn asked it and can be
  answered only while that message is seen (`QuestionsTrue`), a turn in the queue rests
  on what is seen (`GroundsTrue`), and a memory with a hidden ground and a visible first
  one goes back to a later message (`MemoriesTrue`). `PageTrue` carries what the
  settings page shows: a row confirmed when the page says is the row it shows, for every
  write has a time of its own. `WithdrawalsAreSound` follows.
- **ToolLoop** (`ToolLoopProofs`). `TurnSafe`: `TurnInv` is inductive.
  `RepliesSound` and `EndsWhole` are far from it. That a text which says "done" is
  backed (`Backed`) rests on which version the gate looks at (`Targeted`), on no
  check or preview being newer than the newest version (`Bounded`), and on every
  version and plan that was claimed for a preview having passed it, being on its
  way or standing in the way (`Previewed`). That an undisturbed turn keeps its
  last graph step for the reply (`Budgeted`) rests on an exclusion: after the last
  round with tools the gate either speaks at most `Passes` times (`NoPreview`) or
  asks for one preview (`HadPreview`), never both. `TurnsEndWhole` and
  `RepliesAreSound` follow, for any rounds, passes, retries, versions and plans.
- **Rewind** (`RewindProofs`). `RewindInvariant`: `RewindInv` is inductive.
  The resend past its barrier holds it and nothing runs or waits under it
  (`BarrierHeld`), a resend that is not late knows the number of the next version
  (`NumberKnown`), a checkpoint holds what was shown and the timeline that stood
  when its message was sent (`CheckpointsTrue`), and what stood before a message
  was a whole conversation (`BeforeNests`). `QuestionsBelong` needs two facts more:
  which messages turns are of (`TurnsBelong`, true for a resend only because its
  barrier was drained) and that the questions up to the boundary of a checkpoint
  are of messages it shows (`BoundariesBelong`), for a later resend shows just
  these. `PointersStayTrue`, `ShownIsWhole` and `ResendRestores` follow.
- **Materials** (`MaterialsProofs`). `MaterialsInvariant`: `MaterialsInv` is
  inductive. `UnderstandingExact` needs only that jobs are of assets that exist
  (`Placed`), for a new asset must find no row of its own, and that a Completed
  event which the log skips had its summary (`Known`). `OnlyTheRaceMisses` speaks
  of states where nothing is left to do; `RaceOnly` says in every state who will
  still ask: a ready asset of an indexed content has its summary, was missed by a
  publication, or has an ingest before its look at the snapshot (`StillToAsk`).
  That a publication is of the next generation rests on what it read being of now
  or of before (`Placed`) and on the snapshot id being unique (`Fresh`).
  `MaterialsStaySound` follows, for any assets, contents, refreshes and faults.
- **Deliverables** (`DeliverablesProofs`). `DeliveriesInvariant`: `DeliveryInv` is
  inductive. `OneLiveRender` is not by itself: that a key differs from all keys in
  the table says nothing of the jobs under other keys. `Chained` does: the jobs of a
  target start with the one that is no retry, each other is the retry of an earlier
  lost one, and each but the last has been retried, so that all but the last are
  lost; what is lost stays lost. `CallsTrue` carries what a call has read over the
  steps of others: its retry is still of a lost job of the target, and unless it is
  stale its version is the one in force, for every step that moves a version makes
  its readers stale (`VersionsTold`). `Versioned` says that no document is of a
  version to come, so a version number is never used twice (`DraftsGrow`) and what a
  work was made of stays what its version is. A draft that is not there yet has no
  rows, hence a copy meets none (`CopyIsNew`). `DeliveriesStaySound` follows.

- **TurnRecovery** (`WorkspaceProofs`, last part). `RecoveryInvariant`:
  `RecoveryInv` is inductive, for any number of messages, faults and restarts.
  `MatchExact` is far from inductive: it speaks of the days on which the oldest turns
  are the ones that are done, and the next step may leave such a day or come back to
  one. `LeftInOrder` follows the pairing itself: what is unmatched stands in the order
  of the log, and whatever was stored after an unmatched message is unmatched too.
  `Covered` says that the messages posted, queued, in a runner or under a marker are
  never more than the unmatched ones, from which `NoOvercount` is kept. `Exact`
  compares numbers and not sets, for the pairing may well match the wrong message:
  as many messages are matched as turns are done, and nobody holds a turn that is
  done. `Exact` may end, at a restart that puts a turn into the queue which was done;
  then an older one has been passed over that nobody will answer (`PassedOver`), and
  that stays so (`Forgotten`). `ExactMatches` gets `MatchExact` from either.
  The pairing is a recursive function, of which only the step from one position to
  the next is used. `RecoveryIsExact` follows, and with it that a restart starts no
  turn twice, whatever the log says.

- **IndexLocks** (`WorkspaceProofs`). `LocksInvariant`: `LocksInv` is inductive; what
  a call has it took in the order of the ranks (`InRank`), a call has or wants nothing
  before it begins and announces itself only for its next lock (`HasBegun`), and no
  writer holds a lock beside anybody it must not have there (`Excludes`).
  `LocksStaySound`: two calls that are inside have all their locks, so `Excludes`
  forbids a conflict (`WriterAlone`). For `NoCircle`, let of all calls that have begun
  one wait for the lock of the greatest rank (`LastWaiter`). Were nobody able to go
  on, somebody would be inside that lock, if need be after a step over the writer that
  waits for it (`SomeoneInside`); by `InRank` that call wants a still greater one. It
  rests on the ranks of a call's locks being different (`RankFacts`): a call accesses
  each index once.

- **TurnStream** (`LeaseStreamProofs`, second part). `StreamInvariantHolds`:
  `StreamInvariant` is inductive, for any finite set of drafts, any clients and
  connections, any number of abandoned turns and failed starts, and limits as the
  constructor enforces them. `TerminalKept` is far from inductive: it looks at pages that
  show a turn when all have ended (`Quiet`), and does not say why the end was kept.
  `Told` looks ahead (`WillRun`): a page that shows a running turn, or will when its
  connection is read out, belongs to a subscriber or a client that failed while turns
  go on, and to those the kept terminal waits for when the draft is quiet. `EndsLast`
  adds that what is left to read on an open connection of a quiet draft ends with
  the end. An acknowledgement takes a client from those to be told, so it must be the
  last thing this page hears. While turns go on it need not be, for late frames follow
  terminals; in a quiet draft the last record was a terminal under a new generation,
  so one that is to be acknowledged is the last frame of its channel, and a snapshot with
  one ends with it and nothing follows it (`StreamSound`). Who is forgotten
  meanwhile is in `dropped`, which is why the model has to say so at each place.
  `Wired` ties handlers, subscriptions and pages together, and `BufferSound` says what a
  buffer keeps while it keeps a terminal. That a generation which comes back is of
  the terminal that is kept rests on generations being different (`Distinct`), and
  so does the limit on kept terminals, whose loop removes the oldest: `LimitEnforced`
  counts the rest by how many are newer. `TerminalsStayKept` follows.

Only model-checked, for want of a prover: all liveness, and what a fold or a recursive
operator computes (the documents of `editing` and everything in `algorithms`).

## 5. Not modelled

Providers, ffmpeg and ffprobe, prompts, schemas, telemetry, configuration, the web
front end but for what a page makes of the turn stream, and the tests. Of the modelled parts: gains, fades, effects, ducking
levels, subtitle texts and styles; the search for similar passages; token
estimates; receipts of tool calls by identifier; the wait of `preview.generate`;
creating, renaming and trashing a draft, which set fields no other part reads.
