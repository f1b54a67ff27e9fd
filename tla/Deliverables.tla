---------------------------- MODULE Deliverables ----------------------------
(***************************************************************************)
(* What a draft delivers: previews the agent asks for and exports the user *)
(* asks for, from the request over the render job to the stored object,    *)
(* and the copying of a draft with all of them (agentexec/                 *)
(* tool_exec_render.go, agentexec/user_export.go, worker/render.go,        *)
(* api/drafts.go and the reducer's events).                                *)
(*                                                                         *)
(* One action is a reducer transaction or the reads made before it.  A     *)
(* strict event is refused when the draft changed since its state_version  *)
(* was read: `same` says that it did not.  The claim protocol of a render  *)
(* job is JobQueue's; here one execution of a job commits at a time.       *)
(* Orientation is a part of the key like the version and is left out.      *)
(***************************************************************************)
EXTENDS Naturals, Sequences, FiniteSets

CONSTANTS
  Draft,
  Original,    \* the draft there is at first; the others are ids for copies
  Content,     \* timeline documents
  Valid,       \* those that pass the checks made before a render
  Renderer,    \* goroutines that run render jobs
  Agent, User, \* callers; an agent's call is a tool call of its turn
  Busy,        \* bound: the drafts that are worked on once they exist
  MaxVersion, MaxJobs, \* bounds of the instance
  MaxMishaps   \* bound: jobs that fail, are cancelled or lose their worker

ASSUME DeliverablesAssumption ==
  /\ Original \in Draft /\ Busy \subseteq Draft /\ Valid \subseteq Content
  /\ MaxVersion \in Nat /\ MaxJobs \in Nat /\ MaxMishaps \in Nat

VARIABLES
  draft,   \* rows of `drafts`; a job, preview or export is known by the job's number
  docs,    \* timeline_versions: of each draft, version -> document
  jobs,    \* the render jobs, in the order of their rowids
  works,   \* rows of `previews` and `exports`
  seen,    \* merge keys of PreviewViewed in event_log
  lease,   \* drafts whose timeline an agent's turn holds
  call,    \* caller -> its locals
  render,  \* renderer -> the job it renders, or 0
  mishaps

rows == <<draft, docs, jobs, works, seen, lease>>
vars == <<rows, call, render, mishaps>>

Caller == Agent \cup User
Idle == [pc |-> "idle"]
NoDraft == [here |-> FALSE, version |-> 0, checked |-> FALSE,
            preview |-> 0, viewed |-> 0, export |-> 0]

Init ==
  /\ draft = [d \in Draft |-> [NoDraft EXCEPT !.here = (d = Original)]]
  /\ docs = [d \in Draft |-> <<>>]
  /\ jobs = <<>> /\ works = {} /\ seen = {} /\ lease = {}
  /\ call = [c \in Caller |-> Idle] /\ render = [p \in Renderer |-> 0]
  /\ mishaps = 0

Mishap == mishaps < MaxMishaps /\ mishaps' = mishaps + 1

-----------------------------------------------------------------------------
(* The draft, its versions and its copies. *)

\* state_version of d changes: who read it before is refused.
Stale(d) == [c \in Caller |-> IF call[c] # Idle /\ call[c].draft = d
                              THEN [call[c] EXCEPT !.same = FALSE] ELSE call[c]]
Touched(d) == call' = Stale(d)

\* timeline_versions gets a row.
WithVersion(d, v, doc) ==
  docs' = [docs EXCEPT ![d] = [w \in DOMAIN docs[d] \cup {v} |->
                                 IF w = v THEN doc ELSE docs[d][w]]]

\* An edit commits the next version with its structural validation.
Edit(d, doc) ==
  /\ draft[d].here /\ draft[d].version < MaxVersion
  /\ LET v == draft[d].version + 1 IN
     /\ WithVersion(d, v, doc)
     /\ draft' = [draft EXCEPT ![d].version = v, ![d].checked = TRUE]
  /\ Touched(d)
  /\ UNCHANGED <<jobs, works, seen, lease, render, mishaps>>

\* A rewind makes an older document current again.
Rewound(d, v) ==
  [draft[d] EXCEPT !.version = v, !.checked = FALSE, !.preview = 0, !.export = 0]

\* The document restored gets a version of its own.
Restore(d, v) ==
  /\ draft[d].here /\ v \in DOMAIN docs[d] /\ v < draft[d].version
  /\ draft[d].version < MaxVersion
  /\ WithVersion(d, draft[d].version + 1, docs[d][v])
  /\ draft' = [draft EXCEPT ![d] = Rewound(d, draft[d].version + 1)]
  /\ Touched(d)
  /\ UNCHANGED <<jobs, works, seen, lease, render, mishaps>>

\* The previews and exports of a copy are rows of its own.
CopiedWorks(d, e) == {[w EXCEPT !.draft = e] : w \in {x \in works : x.draft = d}}

\* DraftCopied: the current version alone, all previews and exports, the
\* pointers moved to the copies; no jobs, messages or decisions.
Copy(d, e) ==
  /\ draft[d].here /\ ~ draft[e].here
  /\ draft' = [draft EXCEPT ![e] = draft[d]]
  /\ docs' = [docs EXCEPT ![e] = [v \in DOMAIN docs[d] \cap {draft[d].version} |-> docs[d][v]]]
  /\ works' = works \cup CopiedWorks(d, e)
  /\ UNCHANGED <<jobs, seen, lease, call, render, mishaps>>

\* The player reports a preview; a second report of it has the merge key of the
\* first and is skipped.
View(d, w) ==
  /\ w \in works /\ w.kind = "preview" /\ w.draft = d
  /\ <<d, w.job>> \notin seen /\ seen' = seen \cup {<<d, w.job>>}
  /\ draft' = [draft EXCEPT ![d].viewed = w.job]
  /\ Touched(d)
  /\ UNCHANGED <<docs, jobs, works, lease, render, mishaps>>

\* An agent's turn takes the edit lease of the draft, or leaves it.
LeaseMoves(d) ==
  /\ draft[d].here
  /\ lease' = IF d \in lease THEN lease \ {d} ELSE lease \cup {d}
  /\ UNCHANGED <<draft, docs, jobs, works, seen, call, render, mishaps>>

-----------------------------------------------------------------------------
(* Finding and enqueueing a render job. *)

SameTarget(i, kind, d, v) == jobs[i].kind = kind /\ jobs[i].draft = d /\ jobs[i].version = v
\* The row with an idempotency_key: the target, and the job that is retried.
WithKey(kind, d, v, retry) == {i \in DOMAIN jobs : SameTarget(i, kind, d, v) /\ jobs[i].retry = retry}

\* FindRenderJob with includeRetries: the last row of the target.
LatestOf(kind, d, v) ==
  LET all == {i \in DOMAIN jobs : SameTarget(i, kind, d, v)}
  IN  {i \in all : \A j \in all : j <= i}

Lost(i) == jobs[i].status \in {"failed", "cancelled"}
Unfinished(i) == jobs[i].status \in {"pending", "running"}

\* One transaction of the strict TimelineValidated and of JobEnqueued: other
\* readers of the draft are stale after it.
Enqueue(c, kind, d, v, retry) ==
  /\ Len(jobs) < MaxJobs
  /\ jobs' = Append(jobs, [kind |-> kind, draft |-> d, version |-> v, retry |-> retry,
                           status |-> "pending"])
  /\ draft' = [draft EXCEPT ![d].checked = @ \/ draft[d].version = v]
  /\ call' = [Stale(d) EXCEPT ![c] = Idle]

Ends(c) == call' = [call EXCEPT ![c] = Idle]
Goes(c, pc) == call' = [call EXCEPT ![c].pc = pc]
At(c, pc) == call[c].pc = pc
Reading(pc, d, v, retry) ==
  [pc |-> pc, draft |-> d, version |-> v, retry |-> retry, same |-> TRUE]

\* preview.generate reads the draft with its state_version, checks the document
\* in force and looks for jobs of the target. (The reads are one step: what comes
\* of them counts only while the draft stays as it was.)
AgentReads(c, d) ==
  /\ call[c] = Idle /\ draft[d].here /\ draft[d].version > 0
  /\ LET v == draft[d].version
         Then(pc, retry) == call' = [call EXCEPT ![c] = Reading(pc, d, v, retry)]
     IN \/ docs[d][v] \notin Valid /\ Then("refuse", 0)
        \/ docs[d][v] \in Valid /\ LatestOf("preview", d, v) = {} /\ Then("enqueue", 0)
        \/ /\ docs[d][v] \in Valid
           /\ \E i \in LatestOf("preview", d, v) :
                IF Lost(i) THEN Then("enqueue", i) ELSE Then("confirm", 0)
  /\ UNCHANGED <<rows, render, mishaps>>

\* TimelineValidationFailed is strict: a draft changed meanwhile keeps its flag.
AgentRefuses(c) ==
  /\ At(c, "refuse")
  /\ IF call[c].same
     THEN /\ draft' = [draft EXCEPT ![call[c].draft].checked = FALSE]
          /\ call' = [Stale(call[c].draft) EXCEPT ![c] = Idle]
     ELSE Ends(c) /\ UNCHANGED draft
  /\ UNCHANGED <<docs, jobs, works, seen, lease, render, mishaps>>

\* The flag a rewind cleared is set again, unless the draft changed; then the
\* wait for the job begins, which changes nothing.
AgentConfirms(c) ==
  /\ At(c, "confirm")
  /\ IF call[c].same /\ ~ draft[call[c].draft].checked
     THEN /\ draft' = [draft EXCEPT ![call[c].draft].checked = TRUE]
          /\ call' = [Stale(call[c].draft) EXCEPT ![c] = Idle]
     ELSE Ends(c) /\ UNCHANGED draft
  /\ UNCHANGED <<docs, jobs, works, seen, lease, render, mishaps>>

\* The transaction is refused when the draft changed or the key is taken; a job
\* with the key is then the answer, and without one the call fails.
AgentEnqueues(c) ==
  /\ At(c, "enqueue")
  /\ IF call[c].same /\ WithKey("preview", call[c].draft, call[c].version, call[c].retry) = {}
     THEN Enqueue(c, "preview", call[c].draft, call[c].version, call[c].retry)
     ELSE Ends(c) /\ UNCHANGED <<draft, jobs>>
  /\ UNCHANGED <<docs, works, seen, lease, render, mishaps>>

\* CreateUserExport: the document that passes the checks of a render.
UserAsks(c, d) ==
  /\ call[c] = Idle /\ draft[d].here
  /\ draft[d].version > 0 /\ docs[d][draft[d].version] \in Valid
  /\ call' = [call EXCEPT ![c] = Reading("try", d, draft[d].version, 0)]
  /\ UNCHANGED <<rows, render, mishaps>>

\* RetryUserExport: of a lost job, for its version whatever the current one is.
UserRetries(c, i) ==
  /\ call[c] = Idle /\ jobs[i].kind = "export" /\ Lost(i)
  /\ call' = [call EXCEPT ![c] = Reading("try", jobs[i].draft, jobs[i].version, i)]
  /\ UNCHANGED <<rows, render, mishaps>>

\* requireCurrent: a retry does not ask for the version in force.
OffTarget(c) == call[c].retry = 0 /\ draft[call[c].draft].version # call[c].version

\* Mutant: an export does not mind the turn that edits.
InForce(c) == ~ OffTarget(c)
\* The agent's lease and the version in force, read before and again inside the
\* transaction.
Admitted(c) == ~ OffTarget(c) /\ call[c].draft \notin lease

\* A round of the loop reads; a job with the key is the answer.
UserTries(c) ==
  /\ At(c, "try")
  /\ IF /\ WithKey("export", call[c].draft, call[c].version, call[c].retry) = {}
        /\ Admitted(c)
     THEN call' = [call EXCEPT ![c].pc = "apply", ![c].same = TRUE]
     ELSE Ends(c)
  /\ UNCHANGED <<rows, render, mishaps>>

\* The transaction of the round. After a conflict comes the next round, or the
\* caller has used up userExportApplyRetries, which are not counted here.
UserApplies(c) ==
  /\ At(c, "apply")
  /\ \/ /\ ~ call[c].same /\ (Goes(c, "try") \/ Ends(c))
        /\ UNCHANGED <<draft, jobs>>
     \/ /\ call[c].same
        /\ IF /\ WithKey("export", call[c].draft, call[c].version, call[c].retry) = {}
              /\ Admitted(c)
           THEN Enqueue(c, "export", call[c].draft, call[c].version, call[c].retry)
           ELSE Ends(c) /\ UNCHANGED <<draft, jobs>>
  /\ UNCHANGED <<docs, works, seen, lease, render, mishaps>>

-----------------------------------------------------------------------------
(* Rendering. *)

Status(i, status) == jobs' = [jobs EXCEPT ![i].status = status]

Claim(p, i) ==
  /\ render[p] = 0 /\ jobs[i].status = "pending" /\ Status(i, "running")
  /\ render' = [render EXCEPT ![p] = i]
  /\ UNCHANGED <<draft, docs, works, seen, lease, call, mishaps>>

\* A pointer moves to a work of the version in force only.
Shown(i) == draft[jobs[i].draft].version = jobs[i].version

\* JobSucceeded and the event of the artifact, made of the version the job
\* names, in one transaction; a job cancelled meanwhile drops the result.
RenderCommits(p) ==
  /\ render[p] # 0
  /\ LET i == render[p]  d == jobs[i].draft IN
     IF jobs[i].status = "running"
     THEN /\ Status(i, "succeeded") /\ Touched(d)
          /\ works' = works \cup {[kind |-> jobs[i].kind, job |-> i, draft |-> d,
                                   version |-> jobs[i].version,
                                   content |-> docs[d][jobs[i].version]]}
          /\ draft' = IF ~ Shown(i) THEN draft
                      ELSE IF jobs[i].kind = "preview" THEN [draft EXCEPT ![d].preview = i]
                      ELSE [draft EXCEPT ![d].export = i]
     ELSE UNCHANGED <<jobs, works, draft, call>>
  /\ render' = [render EXCEPT ![p] = 0]
  /\ UNCHANGED <<docs, seen, lease, mishaps>>

\* JobProgress is an event of the draft: it makes every strict reader stale.
Progress(p) ==
  /\ render[p] # 0 /\ jobs[render[p]].status = "running"
  /\ Touched(jobs[render[p]].draft)
  /\ UNCHANGED <<rows, render, mishaps>>

\* The render fails, or its worker is lost and the orphaned job reclaimed: a
\* preview may have attempts left, an export has none.
RenderFails(p) ==
  /\ render[p] # 0 /\ Mishap
  /\ LET i == render[p] IN
     \/ jobs[i].status = "running" /\ Status(i, "failed") /\ Touched(jobs[i].draft)
     \/ /\ jobs[i].status = "running" /\ jobs[i].kind = "preview"
        /\ Status(i, "pending") /\ UNCHANGED call
     \/ jobs[i].status # "running" /\ UNCHANGED <<jobs, call>>
  /\ render' = [render EXCEPT ![p] = 0]
  /\ UNCHANGED <<draft, docs, works, seen, lease>>

\* Somebody cancels a job; its renderer may learn of it only when it commits.
CancelJob(i) ==
  /\ Unfinished(i) /\ Mishap /\ Status(i, "cancelled")
  /\ Touched(jobs[i].draft)
  /\ UNCHANGED <<draft, docs, works, seen, lease, render>>

-----------------------------------------------------------------------------
CopyStep == \E d, e \in Draft : Copy(d, e)
DraftStep ==
  \E d \in Busy :
    \/ \E doc \in Content : Edit(d, doc)
    \/ \E v \in 1..MaxVersion : Restore(d, v)
    \/ \E w \in works : View(d, w)
    \/ LeaseMoves(d)

CallStep ==
  \/ \E c \in Agent : \/ \E d \in Busy : AgentReads(c, d)
                      \/ AgentRefuses(c) \/ AgentConfirms(c) \/ AgentEnqueues(c)
  \/ \E c \in User : \/ \E d \in Busy : UserAsks(c, d)
                     \/ \E i \in DOMAIN jobs : UserRetries(c, i)
                     \/ UserTries(c) \/ UserApplies(c)

RenderStep ==
  \/ \E p \in Renderer : \/ RenderCommits(p) \/ RenderFails(p) \/ Progress(p)
                         \/ \E i \in DOMAIN jobs : Claim(p, i)
  \/ \E i \in DOMAIN jobs : CancelJob(i)

Next == CopyStep \/ DraftStep \/ CallStep \/ RenderStep

Spec == Init /\ [][Next]_vars

-----------------------------------------------------------------------------
\* However requests, retries and cancellations cross, and whoever asks, a version
\* of a draft has one unfinished render job of a kind.
OneLiveRender ==
  \A i, j \in DOMAIN jobs :
     i # j /\ Unfinished(i) /\ Unfinished(j)
       => ~ SameTarget(i, jobs[j].kind, jobs[j].draft, jobs[j].version)

\* A render that is no retry enters the queue for the version in force at that
\* moment, never for one that was replaced between the checks and the insert,
\* although JobEnqueued alone ignores the base version; and no export of the user
\* enters it while the agent's turn holds the timeline.
EnqueuedOnTarget ==
  [][\A i \in DOMAIN jobs' \ DOMAIN jobs :
       LET j == jobs'[i] IN
       /\ j.retry = 0 => j.version = draft[j.draft].version
       /\ j.kind = "export" => j.draft \notin lease]_vars

\* Through edits, rewinds and copies, every preview and export of a version that
\* its draft has shows the document of that version.
ShowsItsVersion ==
  \A w \in works : w.version \in DOMAIN docs[w.draft] => docs[w.draft][w.version] = w.content

\* A draft, a copy too, points at works of its own; what it presents as its
\* export or preview exists, and never was made of a version later than its own.
OwnWorks ==
  \A d \in Draft :
    LET Has(kind, i) == \E w \in works : w.kind = kind /\ w.draft = d /\ w.job = i
                                        /\ w.version <= draft[d].version
    IN /\ draft[d].preview # 0 => Has("preview", draft[d].preview)
       /\ draft[d].viewed # 0 => Has("preview", draft[d].viewed)
       /\ draft[d].export # 0 => Has("export", draft[d].export)

\* A succeeded job has its work, whatever was cancelled, crashed or requeued
\* meanwhile, and no other job has one: a cancelled export never shows up.
DoneIsDelivered ==
  \A i \in DOMAIN jobs :
     jobs[i].status = "succeeded" <=> \E w \in works : w.job = i /\ w.draft = jobs[i].draft

\* From the request to the row that shows the work, in every state and at every
\* request, whatever edits, copies, retries and cancellations cross it.
DeliveriesSound ==
  []OneLiveRender /\ []ShowsItsVersion /\ []OwnWorks /\ []DoneIsDelivered /\ EnqueuedOnTarget
=============================================================================
