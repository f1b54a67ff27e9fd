------------------------------ MODULE Materials ------------------------------
(***************************************************************************)
(* Materials from import to understanding: the import and delete handlers  *)
(* of go/internal/api/materials.go, the ingest and understand handlers and *)
(* the base shot index of go/internal/worker, the tool media.detect_shots  *)
(* and the reducer's events on assets, links and understand jobs.          *)
(*                                                                         *)
(* One action is one reducer transaction or the reads made before it.      *)
(* Assets with equal bytes share one index snapshot and one base job, whose *)
(* idempotency key is made from the content; the handlers read the         *)
(* snapshot, the job and the list of assets outside of the transaction     *)
(* that writes.                                                            *)
(*                                                                         *)
(* What is abstracted:                                                     *)
(*  - all assets are videos imported by reference; probes, proxies, shots  *)
(*    and summaries are data. A summary is the asset it is of and its      *)
(*    origin: the job or the snapshot generation it was made from;         *)
(*  - claims: JobQueue shows that one execution of a job commits at a time *)
(*    and JobClaim rejects the others, so a job row carries its handler's  *)
(*    place. An attempt that fails, crashes or loses its claim is one step; *)
(*  - merge keys matter where an event can come twice: AssetProbed and     *)
(*    ProxyGenerated (first one wins), AssetLinked, AssetUnlinked and the  *)
(*    MaterialUnderstandingCompleted of a reused snapshot. The other       *)
(*    understanding events carry job and attempt.                          *)
(***************************************************************************)
EXTENDS Integers, FiniteSets

CONSTANTS
    Asset,    \* asset ids that may be drawn
    Content,  \* content hashes; a file is its content
    Draft,
    Req,      \* import requests
    MaxTries, \* attempts of a job (max_retries + 1), by its kind
    Forceable, \* bound: the assets that are refreshed by force
    MaxFaults  \* bound: attempts that fail and jobs cancelled

ASSUME MaterialsAssumption ==
    /\ IsFiniteSet(Asset)
    /\ MaxTries \in [{"ingest", "base", "refresh"} -> Nat \ {0}] /\ MaxFaults \in Nat
    /\ Forceable \subseteq Asset

NoAsset == "no asset"
NoContent == "no content"
ASSUME NullAssumption == NoAsset \notin Asset /\ NoContent \notin Content

Ingest(a) == <<"ingest", a>>
Base(c) == <<"base", c>>       \* BaseIndexIdempotencyKey: one per content
Refresh(a) == <<"refresh", a>> \* force_refresh, one nonce per asset

IngestJob == {Ingest(a) : a \in Asset}
UnderstandJob == {Base(c) : c \in Content} \cup {Refresh(a) : a \in Forceable}
Job == IngestJob \cup UnderstandJob

VARIABLES
    asset,     \* the assets table
    links,     \* draft_asset_links
    linkLog,   \* event_log: AssetLinked and AssetUnlinked by draft and asset
    job,       \* the jobs table, with the place of the running handler
    snapshot,  \* generation of the ready snapshot of each content, 0: none
    source,    \* source_asset_id of that snapshot
    summaries, \* material_summaries with status ready
    reused,    \* event_log: Completed events whose only merge key is the asset
    req,       \* import requests in flight
    missed     \* history: ready assets a publication did not know of

vars == <<asset, links, linkLog, job, snapshot, source, summaries, reused, req, missed>>
mediaVars == <<snapshot, source, summaries, reused, missed>>
linkVars == <<links, linkLog, req>>

-----------------------------------------------------------------------------
Open == {"pending", "running"}
NoRow == [status |-> "absent", of |-> NoAsset, tries |-> 0, pc |-> "start", gen |-> 0, seen |-> {}]
Enqueued(a) == [NoRow EXCEPT !.status = "pending", !.of = a]

At(j, pc) == job[j].status = "running" /\ job[j].pc = pc
ContentOf(a) == asset[a].content
Ready(a) == asset[a].ingest = "ready" /\ asset[a].usable
OfContent(c) == {a \in Asset : ContentOf(a) = c /\ Ready(a)}

HasSummary(s, a) == \E x \in s : x.of = a
ActiveFor(rows, a) == \E j \in UnderstandJob : rows[j].of = a /\ rows[j].status \in Open
FailedFor(rows, a) == \E j \in UnderstandJob : rows[j].of = a /\ rows[j].status = "failed"

\* reconcileUnderstandingAsset, over the job rows and summaries after the
\* event. `fallback': the event itself says that the analysis failed.
Reconciled(rows, a, fallback) ==
    CASE HasSummary(summaries, a) -> "ready"
      [] ~ HasSummary(summaries, a) /\ ActiveFor(rows, a) -> "running"
      [] ~ HasSummary(summaries, a) /\ ~ ActiveFor(rows, a)
         /\ (fallback \/ FailedFor(rows, a)) -> "failed"
      [] OTHER -> "none"

Put(j, r) == [job EXCEPT ![j] = r]
Goto(j, pc) == job' = Put(j, [job[j] EXCEPT !.pc = pc])

\* applyJob: the row, then reconcileUnderstandJobAsset or the failed ingest.
WriteJob(j, r) ==
    /\ job' = Put(j, r)
    /\ asset' = IF j \in UnderstandJob
                THEN [asset EXCEPT ![r.of].und = Reconciled(Put(j, r), r.of, FALSE)]
                ELSE IF r.status = "failed"
                     THEN [asset EXCEPT ![r.of].ingest = "failed", ![r.of].usable = FALSE]
                     ELSE asset

-----------------------------------------------------------------------------
Init ==
    /\ asset = [a \in Asset |-> [content |-> NoContent, ingest |-> "absent",
                                 usable |-> FALSE, und |-> "none"]]
    /\ links = {} /\ linkLog = {}
    /\ job = [j \in Job |-> NoRow]
    /\ snapshot = [c \in Content |-> 0] /\ source = [c \in Content |-> NoAsset]
    /\ summaries = {} /\ reused = {} /\ missed = {}
    /\ req = [r \in Req |-> [pc |-> "new", draft |-> NoAsset, file |-> NoContent, of |-> NoAsset]]

(* Import and delete. *)

ImportedFrom(f) == {a \in Asset : ContentOf(a) = f}

\* importEntries: assetLinkedByPath, assetByReferencePath; a file that is
\* linked already is a duplicate.
Look(r, d, f) ==
    LET known == ImportedFrom(f)
        Asked(pc, a) == req' = [req EXCEPT ![r] = [pc |-> pc, draft |-> d, file |-> f, of |-> a]] IN
    /\ req[r].pc = "new"
    /\ \/ (\E a \in known : <<d, a>> \in links) /\ Asked("over", NoAsset)
       \/ (\A a \in known : <<d, a>> \notin links) /\ \E a \in known : Asked("link", a)
       \/ known = {} /\ Asked("create", NoAsset)
    /\ UNCHANGED <<asset, links, linkLog, job, mediaVars>>

\* AssetLinked, skipped when its merge key is in the log.
AddLink(d, a) ==
    /\ links' = IF <<"AssetLinked", d, a>> \in linkLog THEN links ELSE links \cup {<<d, a>>}
    /\ linkLog' = linkLog \cup {<<"AssetLinked", d, a>>}

Relink(r) ==
    /\ req[r].pc = "link"
    /\ AddLink(req[r].draft, req[r].of)
    /\ req' = [req EXCEPT ![r].pc = "over"]
    /\ UNCHANGED <<asset, job, mediaVars>>

\* AssetImported, AssetLinked and JobEnqueued in one transaction.
Create(r, a) ==
    /\ req[r].pc = "create" /\ asset[a].ingest = "absent"
    /\ asset' = [asset EXCEPT ![a] = [content |-> req[r].file, ingest |-> "imported",
                                      usable |-> TRUE, und |-> "none"]]
    /\ AddLink(req[r].draft, a)
    /\ job' = Put(Ingest(a), Enqueued(a))
    /\ req' = [req EXCEPT ![r].pc = "over"]
    /\ UNCHANGED mediaVars

\* DeleteMaterial: 404 unless linked; the asset itself stays.
Unlink(d, a) ==
    /\ <<d, a>> \in links
    /\ links' = links \ {<<d, a>>}
    /\ linkLog' = linkLog \cup {<<"AssetUnlinked", d, a>>}
    /\ UNCHANGED <<asset, job, req, mediaVars>>

(* Jobs in general. *)

Faults == Cardinality(UNION {{j} \X (1 .. job[j].tries) : j \in Job})
          + Cardinality({j \in Job : job[j].status = "cancelled"})

Claim(j) ==
    /\ job[j].status = "pending"
    /\ job' = Put(j, [job[j] EXCEPT !.status = "running", !.pc = "start"])
    /\ UNCHANGED <<asset, linkVars, mediaVars>>

\* The attempts after which a job is not tried again.
Spent(j, tries) == tries >= MaxTries[j[1]]

\* The handler fails, or its worker dies and RecoverStale takes the row back.
AttemptEnds(j) ==
    /\ job[j].status = "running" /\ Faults < MaxFaults
    /\ LET r == [job[j] EXCEPT !.tries = @ + 1, !.gen = 0, !.seen = {}, !.pc = "start"] IN
       IF Spent(j, r.tries) THEN WriteJob(j, [r EXCEPT !.status = "failed"])
       ELSE job' = Put(j, [r EXCEPT !.status = "pending"]) /\ UNCHANGED asset
    /\ UNCHANGED <<linkVars, mediaVars>>

CancelJob(j) ==
    /\ job[j].status \in Open /\ Faults < MaxFaults
    /\ WriteJob(j, [job[j] EXCEPT !.status = "cancelled", !.pc = "start", !.gen = 0, !.seen = {}])
    /\ UNCHANGED <<linkVars, mediaVars>>

Succeed(j) ==
    /\ At(j, "done")
    /\ WriteJob(j, [job[j] EXCEPT !.status = "succeeded", !.pc = "start"])
    /\ UNCHANGED <<linkVars, mediaVars>>

(* The ingest handler. *)

\* AssetProbed; on a retry the merge key (asset_id) skips it.
Probe(a) ==
    /\ At(Ingest(a), "start")
    /\ asset' = [asset EXCEPT ![a].ingest = IF @ = "imported" THEN "probed" ELSE @]
    /\ Goto(Ingest(a), "proxy")
    /\ UNCHANGED <<linkVars, mediaVars>>

\* ProxyGenerated.
Proxy(a) ==
    /\ At(Ingest(a), "proxy")
    /\ asset' = [asset EXCEPT ![a].ingest = "ready"]
    /\ Goto(Ingest(a), "ensure")
    /\ UNCHANGED <<linkVars, mediaVars>>

\* ensureBaseShotIndexForAsset, first half: the snapshot is read.
Ensure(a) ==
    /\ At(Ingest(a), "ensure")
    /\ Goto(Ingest(a), IF snapshot[ContentOf(a)] > 0 THEN "reuse" ELSE "enqueue")
    /\ UNCHANGED <<asset, linkVars, mediaVars>>

\* Second half: the base job is looked up, and enqueued when there is none;
\* the unique key makes the loser of a race find the winner's job.
EnqueueBase(a) ==
    LET j == Base(ContentOf(a)) IN
    IF job[j].status # "absent" THEN UNCHANGED <<asset, job>>
    ELSE WriteJob(j, Enqueued(a))

EnsureJob(a) ==
    LET i == Ingest(a)
        j == Base(ContentOf(a))
        done == [job[i] EXCEPT !.pc = "done"] IN
    /\ At(i, "enqueue")
    /\ IF job[j].status # "absent" THEN job' = Put(i, done) /\ UNCHANGED asset
       ELSE /\ job' = [job EXCEPT ![i] = done, ![j] = Enqueued(a)]
            /\ asset' = [asset EXCEPT ![a].und = Reconciled(Put(j, Enqueued(a)), a, FALSE)]
    /\ UNCHANGED <<linkVars, mediaVars>>

\* materializeReadyBaseIndex: an asset that is served already is left alone;
\* otherwise its summary is stored with a Completed event, which the log
\* skips the second time.
Materialize(a) ==
    LET s == [of |-> a, from |-> <<"gen", snapshot[ContentOf(a)]>>]
        served == /\ asset[a].und = "ready"
                  /\ s \in summaries \/ source[ContentOf(a)] = a IN
    IF served THEN UNCHANGED <<asset, mediaVars>>
    ELSE /\ summaries' = summaries \cup {s}
         /\ asset' = [asset EXCEPT ![a].und = IF a \in reused THEN @ ELSE "ready"]
         /\ reused' = reused \cup {a}
         /\ UNCHANGED <<snapshot, source, missed>>

Reuse(j) ==
    /\ At(j, "reuse")
    /\ Materialize(job[j].of)
    /\ Goto(j, "done")
    /\ UNCHANGED linkVars

\* EnqueueBaseShotIndexBackfill, for one asset, when a worker process starts.
Backfill(a) ==
    /\ Ready(a)
    /\ IF snapshot[ContentOf(a)] > 0 THEN Materialize(a) /\ UNCHANGED job
       ELSE EnqueueBase(a) /\ UNCHANGED mediaVars
    /\ UNCHANGED linkVars

(* media.detect_shots on a linked and usable video. An existing job of the   *)
(* same key, or a snapshot, answers it.                                      *)

DetectShots(d, a) ==
    /\ <<d, a>> \in links /\ asset[a].usable
    /\ snapshot[ContentOf(a)] = 0
    /\ EnqueueBase(a)
    /\ UNCHANGED <<linkVars, mediaVars>>

ForceRefresh(d, a) ==
    /\ a \in Forceable
    /\ <<d, a>> \in links /\ asset[a].usable
    /\ job[Refresh(a)].status = "absent"
    /\ WriteJob(Refresh(a), Enqueued(a))
    /\ UNCHANGED <<linkVars, mediaVars>>

(* The understand handler. *)

Forced(j) == j[1] = "refresh"

\* The reads before any work: a snapshot, the summary of this very job.
Consult(j) ==
    /\ j \in UnderstandJob /\ At(j, "start")
    /\ LET a == job[j].of IN
       Goto(j, IF ~ Forced(j) /\ snapshot[ContentOf(a)] > 0 THEN "reuse"
               ELSE IF [of |-> a, from |-> j] \in summaries THEN "done" ELSE "begin")
    /\ UNCHANGED <<asset, linkVars, mediaVars>>

\* MaterialUnderstandingStarted.
Started(j) ==
    /\ At(j, "begin")
    /\ asset' = [asset EXCEPT ![job[j].of].und =
           IF HasSummary(summaries, job[j].of) THEN "ready" ELSE "running"]
    /\ Goto(j, "analyze")
    /\ UNCHANGED <<linkVars, mediaVars>>

\* MaterialUnderstandingFailed: the job is still running, so the asset is too.
AnalysisFails(j) ==
    /\ At(j, "analyze")
    /\ asset' = [asset EXCEPT ![job[j].of].und = Reconciled(job, job[j].of, TRUE)]
    /\ Goto(j, "failing")
    /\ UNCHANGED <<linkVars, mediaVars>>

\* publishBaseShotIndex, the reads: the next generation and the ready assets
\* of this content.
PublishRead(j) ==
    /\ At(j, "analyze")
    /\ LET c == ContentOf(job[j].of) IN
       job' = Put(j, [job[j] EXCEPT !.pc = "publish", !.gen = snapshot[c] + 1, !.seen = OfContent(c)])
    /\ UNCHANGED <<asset, linkVars, mediaVars>>

\* Mutant: the generation that was read is not protected by a unique id.
PublishFresh(c, g) == TRUE
\* The snapshot id is made from the generation: two publications of one
\* generation collide, and the second fails.
Fresh(c, g) == g > snapshot[c]

Served(j) == job[j].seen

\* The transaction: the older snapshot is superseded, every asset that was
\* read gets a summary and a Completed event.
Publish(j) ==
    LET a == job[j].of
        c == ContentOf(a) IN
    /\ At(j, "publish") /\ Fresh(c, job[j].gen)
    /\ snapshot' = [snapshot EXCEPT ![c] = job[j].gen]
    /\ source' = [source EXCEPT ![c] = a]
    /\ summaries' = summaries
           \cup {[of |-> b, from |-> IF b = a THEN j ELSE <<"gen", job[j].gen>>] : b \in Served(j)}
    /\ asset' = [b \in Asset |-> IF b \in Served(j) THEN [asset[b] EXCEPT !.und = "ready"] ELSE asset[b]]
    /\ missed' = missed \cup (OfContent(c) \ job[j].seen)
    /\ job' = Put(j, [job[j] EXCEPT !.pc = "done", !.gen = 0, !.seen = {}])
    /\ UNCHANGED <<linkVars, reused>>

-----------------------------------------------------------------------------
Next ==
    \/ \E r \in Req : \/ \E d \in Draft, f \in Content : Look(r, d, f)
                      \/ Relink(r)
                      \/ \E a \in Asset : Create(r, a)
    \/ \E d \in Draft, a \in Asset : Unlink(d, a) \/ DetectShots(d, a) \/ ForceRefresh(d, a)
    \/ \E j \in Job : \/ Claim(j) \/ AttemptEnds(j) \/ CancelJob(j) \/ Succeed(j)
                      \/ Reuse(j) \/ Consult(j) \/ Started(j) \/ AnalysisFails(j)
                      \/ PublishRead(j) \/ Publish(j)
    \/ \E a \in Asset : Probe(a) \/ Proxy(a) \/ Ensure(a) \/ EnsureJob(a) \/ Backfill(a)

Spec == Init /\ [][Next]_vars

-----------------------------------------------------------------------------
(* Properties. *)

\* The tables hold what their columns may hold.
TypeOK ==
    /\ asset \in [Asset -> [content : Content \cup {NoContent}, usable : BOOLEAN,
                            ingest : {"absent", "imported", "probed", "ready", "failed"},
                            und : {"none", "running", "ready", "failed"}]]
    /\ links \subseteq Draft \X Asset
    /\ snapshot \in [Content -> Nat] /\ source \in [Content -> Asset \cup {NoAsset}]
    /\ \A j \in Job : /\ job[j].status \in Open \cup {"absent", "succeeded", "failed", "cancelled"}
                      /\ job[j].tries \in 0 .. MaxTries[j[1]]
                      /\ job[j].pc \in {"start", "proxy", "ensure", "enqueue", "reuse", "begin",
                                        "analyze", "publish", "failing", "done"}

\* The understanding state shown for an asset is what its summaries and its
\* own jobs say, whatever event came last: a cancelled, late or failed job
\* never hides a ready summary or a job still at work (reconcileUnderstandingAsset).
UnderstandingExact ==
    \A a \in Asset : asset[a].ingest # "absent" => asset[a].und = Reconciled(job, a, FALSE)

\* A publication supersedes the snapshot it was computed from and no other:
\* two analyses of one content (the base job and forced refreshes of its
\* assets) never publish one generation twice nor go back to an older one.
EachGenerationOnce ==
    [][\A c \in Content : (snapshot[c] # snapshot'[c] \/ source[c] # source'[c])
           => snapshot'[c] = snapshot[c] + 1]_vars

\* When nothing is left to do, an asset of an indexed content that is ready
\* and has no summary is one that became ready between the publication's
\* read of the assets and its commit, or one whose own ingest never came to
\* ask for the index: the list of assets is read outside of the transaction.
OnlyTheRaceMisses ==
    (\A j \in Job : job[j].status \notin Open) =>
        \A c \in Content : snapshot[c] > 0 =>
            \A a \in OfContent(c) : \/ HasSummary(summaries, a)
                                    \/ a \in missed
                                    \/ job[Ingest(a)].status # "succeeded"

\* What is shown of a material and what is published for it, in every state
\* (reconcileUnderstandingAsset, completeUnderstanding).
MaterialsExact == TypeOK /\ UnderstandingExact /\ OnlyTheRaceMisses

\* What is shown is exact after every step, and every step publishes at most the
\* next generation.
MaterialsSound == [][MaterialsExact']_vars /\ EachGenerationOnce
=============================================================================
