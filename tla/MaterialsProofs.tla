--------------------------- MODULE MaterialsProofs ---------------------------
(***************************************************************************)
(* Proofs about Materials for any assets, contents, drafts, requests,      *)
(* attempts and faults.                                                    *)
(***************************************************************************)
EXTENDS Materials, TLAPS

-----------------------------------------------------------------------------
(* The inductive invariant. *)

Existing(a) == asset[a].ingest # "absent"

AssetRow == [content : Content \cup {NoContent}, usable : BOOLEAN,
             ingest : {"absent", "imported", "probed", "ready", "failed"},
             und : {"none", "running", "ready", "failed"}]
Place == {"start", "proxy", "ensure", "enqueue", "reuse", "begin",
          "analyze", "publish", "failing", "done"}
JobRow == [status : Open \cup {"absent", "succeeded", "failed", "cancelled"},
           of : Asset \cup {NoAsset}, tries : Nat,
           pc : Place, gen : Nat, seen : SUBSET Asset]
ReqRow == [pc : {"new", "over", "link", "create"}, draft : Draft \cup {NoAsset},
           file : Content \cup {NoContent}, of : Asset \cup {NoAsset}]

\* The tables have their shape.
Typed ==
    /\ asset \in [Asset -> AssetRow] /\ job \in [Job -> JobRow] /\ req \in [Req -> ReqRow]
    /\ links \subseteq Draft \X Asset
    /\ snapshot \in [Content -> Nat] /\ source \in [Content -> Asset \cup {NoAsset}]

\* Only what was imported has a content, can be used and is summarised.
Known ==
    \A a \in Asset : /\ Existing(a) => asset[a].content \in Content
                     /\ asset[a].usable => Existing(a)
                     /\ a \in reused => HasSummary(summaries, a)
                     /\ HasSummary(summaries, a) => Existing(a)

\* An import under way knows its draft and its file or its asset.
Requested ==
    \A r \in Req : /\ req[r].pc \in {"link", "create"} => req[r].draft \in Draft
                   /\ req[r].pc = "create" => req[r].file \in Content
                   /\ req[r].pc = "link" => req[r].of \in Asset

\* A job is of an asset that exists and its attempts are not used up while it
\* is open; what it read for a publication is of now or of before.
Good(j, r, assets, snapshots) ==
    /\ r.status # "absent" => r.of \in Asset /\ assets[r.of].ingest # "absent"
    /\ r.tries <= MaxTries[j[1]] /\ (r.status \in Open => r.tries < MaxTries[j[1]])
    /\ r.status = "running" /\ r.pc \in {"begin", "analyze", "publish", "failing"}
         => j \in UnderstandJob
    /\ r.status = "running" /\ r.pc = "publish"
         => r.gen <= snapshots[assets[r.of].content] + 1
    /\ \A b \in r.seen : assets[b].ingest # "absent"
    /\ \A a \in Asset : j = Ingest(a) /\ r.status # "absent" => r.of = a

Placed == \A j \in Job : Good(j, job[j], asset, snapshot)

\* An asset of an indexed content that is ready and has no summary was missed,
\* or its own ingest is still to ask for the index.
StillToAsk(row) == row.status # "succeeded" /\ row.pc \notin {"enqueue", "done"}
RaceOnly ==
    \A a \in Asset : Ready(a) /\ snapshot[ContentOf(a)] > 0 =>
        HasSummary(summaries, a) \/ a \in missed \/ StillToAsk(job[Ingest(a)])

MaterialsInv == Typed /\ Known /\ Requested /\ Placed /\ UnderstandingExact /\ RaceOnly

-----------------------------------------------------------------------------
(* Jobs and rows. *)

LEMMA JobNames ==
    /\ \A a \in Asset : /\ Ingest(a) \in Job /\ Ingest(a) \notin UnderstandJob
                        /\ \A b \in Asset : Ingest(a) = Ingest(b) => a = b
    /\ \A c \in Content : Base(c) \in UnderstandJob
    /\ \A a \in Forceable : Refresh(a) \in UnderstandJob
    /\ UnderstandJob \subseteq Job
    /\ \A j \in Job : j \in UnderstandJob \/ \E a \in Asset : j = Ingest(a)
    /\ \A j \in Job : MaxTries[j[1]] \in Nat /\ MaxTries[j[1]] > 0
<1>1. \A a \in Asset : Ingest(a) \in Job  BY DEF Job, IngestJob
<1>2. \A a \in Asset : Ingest(a) \notin UnderstandJob
  BY DEF UnderstandJob, Ingest, Base, Refresh
<1>3. \A a, b \in Asset : Ingest(a) = Ingest(b) => a = b  BY DEF Ingest
<1>4. \A c \in Content : Base(c) \in UnderstandJob  BY DEF UnderstandJob
<1>5. \A a \in Forceable : Refresh(a) \in UnderstandJob  BY DEF UnderstandJob
<1>6. UnderstandJob \subseteq Job  BY DEF Job
<1>7. \A j \in Job : j \in UnderstandJob \/ \E a \in Asset : j = Ingest(a)
  BY DEF Job, IngestJob
<1>8. \A j \in Job : j[1] \in {"ingest", "base", "refresh"}
  BY DEF Job, IngestJob, UnderstandJob, Ingest, Base, Refresh
<1>9. \A j \in Job : MaxTries[j[1]] \in Nat \ {0}
  BY <1>8, MaterialsAssumption
<1>10. \A j \in Job : MaxTries[j[1]] \in Nat /\ MaxTries[j[1]] > 0
  BY <1>9
<1> QED  BY <1>1, <1>2, <1>3, <1>4, <1>5, <1>6, <1>7, <1>10

LEMMA FreshRows ==
    /\ NoRow \in JobRow /\ NoRow.status = "absent" /\ NoRow.pc = "start"
    /\ NoRow.tries = 0 /\ NoRow.seen = {}
    /\ \A a \in Asset : /\ Enqueued(a) \in JobRow /\ Enqueued(a).status = "pending"
                        /\ Enqueued(a).of = a /\ Enqueued(a).pc = "start"
                        /\ Enqueued(a).tries = 0 /\ Enqueued(a).seen = {}
BY DEF NoRow, Enqueued, JobRow, Open, Place

\* A new job may start.
LEMMA FreshGood ==
    ASSUME NEW j \in Job, NEW a \in Asset, Existing(a), \A b \in Asset : j = Ingest(b) => a = b
    PROVE  Good(j, Enqueued(a), asset, snapshot)
BY FreshRows, JobNames DEF Good, Existing, Open

\* Reconciled by cases, over the summaries and the rows.
Und(s, rows, a) ==
    IF HasSummary(s, a) THEN "ready"
    ELSE IF ActiveFor(rows, a) THEN "running"
    ELSE IF FailedFor(rows, a) THEN "failed" ELSE "none"

LEMMA ExactIs ==
    /\ UnderstandingExact <=>
         \A a \in Asset : asset[a].ingest # "absent" => asset[a].und = Und(summaries, job, a)
    /\ UnderstandingExact' <=>
         \A a \in Asset : asset'[a].ingest # "absent" => asset'[a].und = Und(summaries', job', a)
    /\ \A rows, a : Reconciled(rows, a, FALSE) = Und(summaries, rows, a)
    /\ \A rows, a : ActiveFor(rows, a) => Reconciled(rows, a, TRUE) = Und(summaries, rows, a)
<1>1. \A rows, a : Reconciled(rows, a, FALSE) = Und(summaries, rows, a)
  BY DEF Reconciled, Und
<1>2. \A rows, a : ActiveFor(rows, a) => Reconciled(rows, a, TRUE) = Und(summaries, rows, a)
  BY DEF Reconciled, Und
<1>3. \A a : Reconciled(job, a, FALSE)' = Und(summaries', job', a)
  BY DEF Reconciled, Und
<1>4. UnderstandingExact <=>
        \A a \in Asset : asset[a].ingest # "absent" => asset[a].und = Und(summaries, job, a)
  BY <1>1 DEF UnderstandingExact
<1>5. UnderstandingExact' <=>
        \A a \in Asset : asset'[a].ingest # "absent" => asset'[a].und = Und(summaries', job', a)
  BY <1>3 DEF UnderstandingExact
<1> QED  BY <1>1, <1>2, <1>4, <1>5

LEMMA UndType == \A s, rows, a : Und(s, rows, a) \in {"none", "running", "ready", "failed"}
BY DEF Und

\* A row moves on and stays open, failed, or neither: for no asset the jobs say another thing.
LEMMA QuietRows ==
    ASSUME NEW rows \in [Job -> JobRow], NEW j \in Job, NEW r \in JobRow,
           j \in UnderstandJob => /\ r.of = rows[j].of
                                  /\ r.status \in Open <=> rows[j].status \in Open
                                  /\ r.status = "failed" <=> rows[j].status = "failed"
    PROVE  \A s, a : Und(s, [rows EXCEPT ![j] = r], a) = Und(s, rows, a)
<1> DEFINE new == [rows EXCEPT ![j] = r]
<1>1. \A i \in UnderstandJob : /\ new[i].of = rows[i].of
                               /\ new[i].status \in Open <=> rows[i].status \in Open
                               /\ new[i].status = "failed" <=> rows[i].status = "failed"
  BY JobNames
<1> HIDE DEF new
<1>2. \A a : (ActiveFor(new, a) <=> ActiveFor(rows, a)) /\ (FailedFor(new, a) <=> FailedFor(rows, a))
  BY <1>1 DEF ActiveFor, FailedFor
<1>3. \A s, a : Und(s, new, a) = Und(s, rows, a)  BY <1>2 DEF Und
<1> QED  BY <1>3 DEF new

\* A row of one asset says nothing of another.
LEMMA OtherRows ==
    ASSUME NEW rows \in [Job -> JobRow], NEW j \in Job, NEW r \in JobRow, NEW a \in Asset, a # r.of,
           j \in UnderstandJob /\ rows[j].status # "absent" => rows[j].of = r.of
    PROVE  \A s : Und(s, [rows EXCEPT ![j] = r], a) = Und(s, rows, a)
<1> DEFINE new == [rows EXCEPT ![j] = r]
<1>1. \A i \in UnderstandJob : i # j => new[i] = rows[i]
  BY JobNames
<1>2. j \in UnderstandJob => new[j] = r  OBVIOUS
<1>3. j \in UnderstandJob /\ rows[j].of = a => rows[j].status \notin Open \cup {"failed"}
  BY DEF Open
<1> HIDE DEF new
<1>4. (ActiveFor(new, a) <=> ActiveFor(rows, a)) /\ (FailedFor(new, a) <=> FailedFor(rows, a))
  BY <1>1, <1>2, <1>3 DEF ActiveFor, FailedFor
<1>5. \A s : Und(s, new, a) = Und(s, rows, a)  BY <1>4 DEF Und
<1> QED  BY <1>5 DEF new

-----------------------------------------------------------------------------
(* What the steps on jobs keep. *)

\* No asset appears, changes its bytes or becomes usable.
SameAssets ==
    \A a \in Asset : /\ asset'[a].content = asset[a].content
                     /\ asset'[a].ingest # "absent" <=> asset[a].ingest # "absent"
                     /\ asset'[a].usable => asset[a].usable

\* An asset that exists stays, with its bytes; generations do not go back.
Older ==
    /\ \A a \in Asset : Existing(a) => /\ asset'[a].ingest # "absent"
                                       /\ asset'[a].content = asset[a].content
    /\ \A c \in Content : snapshot'[c] \in Nat /\ snapshot[c] <= snapshot'[c]

WithUnd(tab, a, u) == [tab EXCEPT ![a].und = u]

LEMMA UndMoves ==
    ASSUME NEW tab \in [Asset -> AssetRow], NEW a \in Asset,
           NEW u \in {"none", "running", "ready", "failed"}
    PROVE  LET new == WithUnd(tab, a, u) IN
           /\ new \in [Asset -> AssetRow] /\ new[a].und = u
           /\ \A b \in Asset : /\ new[b].content = tab[b].content /\ new[b].ingest = tab[b].ingest
                               /\ new[b].usable = tab[b].usable
                               /\ b # a => new[b] = tab[b]
<1> DEFINE new == WithUnd(tab, a, u)
           row == [tab[a] EXCEPT !.und = u]
<1>1. tab[a] \in AssetRow  OBVIOUS
<1>2. /\ row \in AssetRow /\ row.und = u /\ row.content = tab[a].content
      /\ row.ingest = tab[a].ingest /\ row.usable = tab[a].usable
  BY <1>1 DEF AssetRow
<1>3. new = [tab EXCEPT ![a] = row]  BY DEF WithUnd
<1> HIDE DEF row, new
<1>4. new \in [Asset -> AssetRow]  BY <1>2, <1>3
<1>5. new[a] = row /\ \A b \in Asset : b # a => new[b] = tab[b]  BY <1>3
<1> QED  BY <1>2, <1>4, <1>5 DEF new

WithIngest(tab, a, s) == [tab EXCEPT ![a].ingest = s]

LEMMA IngestMoves ==
    ASSUME NEW tab \in [Asset -> AssetRow], NEW a \in Asset,
           NEW s \in {"probed", "ready", "failed"}
    PROVE  LET new == WithIngest(tab, a, s) IN
           /\ new \in [Asset -> AssetRow] /\ new[a].ingest = s
           /\ \A b \in Asset : /\ new[b].content = tab[b].content /\ new[b].und = tab[b].und
                               /\ new[b].usable = tab[b].usable
                               /\ b # a => new[b] = tab[b]
<1> DEFINE new == WithIngest(tab, a, s)
           row == [tab[a] EXCEPT !.ingest = s]
<1>1. tab[a] \in AssetRow  OBVIOUS
<1>2. /\ row \in AssetRow /\ row.ingest = s /\ row.content = tab[a].content
      /\ row.und = tab[a].und /\ row.usable = tab[a].usable
  BY <1>1 DEF AssetRow
<1>3. new = [tab EXCEPT ![a] = row]  BY DEF WithIngest
<1> HIDE DEF row, new
<1>4. new \in [Asset -> AssetRow]  BY <1>2, <1>3
<1>5. new[a] = row /\ \A b \in Asset : b # a => new[b] = tab[b]  BY <1>3
<1> QED  BY <1>2, <1>4, <1>5 DEF new

\* What was placed stays placed.
LEMMA GoodKept ==
    ASSUME Typed, Known, Older, NEW j \in Job, NEW r \in JobRow, Good(j, r, asset, snapshot)
    PROVE  Good(j, r, asset', snapshot')
<1>1. r.status # "absent" => r.of \in Asset /\ asset'[r.of].ingest # "absent"
  BY DEF Good, Older, Existing
<1>2. \A b \in r.seen : asset'[b].ingest # "absent"
  <2>1. r.seen \subseteq Asset  BY DEF JobRow
  <2> QED  BY <2>1 DEF Good, Older, Existing
<1>3. ASSUME r.status = "running", r.pc = "publish"
      PROVE  r.gen <= snapshot'[asset'[r.of].content] + 1
  <2>1. r.of \in Asset /\ Existing(r.of)  BY <1>3 DEF Good, Existing
  <2>2. asset[r.of].content \in Content  BY <2>1 DEF Known
  <2>3. asset'[r.of].content = asset[r.of].content  BY <2>1 DEF Older
  <2>4. r.gen <= snapshot[asset[r.of].content] + 1  BY <1>3 DEF Good
  <2>5. r.gen \in Nat /\ snapshot[asset[r.of].content] \in Nat  BY <2>2 DEF JobRow, Typed
  <2>6. /\ snapshot'[asset[r.of].content] \in Nat
        /\ snapshot[asset[r.of].content] <= snapshot'[asset[r.of].content]
    BY <2>2 DEF Older
  <2> QED  BY <2>3, <2>4, <2>5, <2>6
<1>4. /\ r.tries <= MaxTries[j[1]] /\ (r.status \in Open => r.tries < MaxTries[j[1]])
      /\ r.status = "running" /\ r.pc \in {"begin", "analyze", "publish", "failing"}
            => j \in UnderstandJob
      /\ \A a \in Asset : j = Ingest(a) /\ r.status # "absent" => r.of = a
  BY DEF Good
<1> QED  BY <1>1, <1>2, <1>3, <1>4 DEF Good

LEMMA PlacedKept ==
    ASSUME Typed, Known, Placed, Older,
           \A i \in Job : job'[i] = job[i] \/ (job'[i] \in JobRow /\ Good(i, job'[i], asset, snapshot))
    PROVE  Placed'
<1>1. ASSUME NEW i \in Job
      PROVE  Good(i, job'[i], asset', snapshot')
  <2>1. job[i] \in JobRow /\ Good(i, job[i], asset, snapshot)  BY DEF Typed, Placed
  <2>2. job'[i] \in JobRow /\ Good(i, job'[i], asset, snapshot)  BY <2>1
  <2> QED  BY <2>2, GoodKept
<1> QED  BY <1>1 DEF Placed

LEMMA SameOlder ==
    ASSUME Typed, SameAssets, UNCHANGED snapshot
    PROVE  Older
BY DEF SameAssets, Older, Existing, Typed

LEMMA KnownKept ==
    ASSUME Known, SameAssets,
           \A a \in Asset : /\ a \in reused' => HasSummary(summaries', a)
                            /\ HasSummary(summaries', a) => HasSummary(summaries, a) \/ Existing(a)
    PROVE  Known'
BY DEF Known, SameAssets, Existing

\* No asset becomes ready, and one that still was to ask asks, is answered or
\* has no index to ask for.
LEMMA RaceKept ==
    ASSUME RaceOnly, SameAssets, UNCHANGED <<snapshot, missed>>,
           \A a \in Asset : Ready(a)' => Ready(a) \/ StillToAsk(job'[Ingest(a)]),
           \A a \in Asset : HasSummary(summaries, a) => HasSummary(summaries', a),
           \A a \in Asset : StillToAsk(job[Ingest(a)]) =>
               \/ StillToAsk(job'[Ingest(a)]) \/ HasSummary(summaries', a)
               \/ ~ Ready(a)' \/ ~ snapshot[ContentOf(a)] > 0
    PROVE  RaceOnly'
<1>1. ASSUME NEW a \in Asset, Ready(a)', snapshot'[ContentOf(a)'] > 0
      PROVE  HasSummary(summaries', a) \/ a \in missed' \/ StillToAsk(job'[Ingest(a)])
  <2>1. CASE StillToAsk(job'[Ingest(a)])  BY <2>1
  <2>2. CASE ~ StillToAsk(job'[Ingest(a)])
    <3>1. Ready(a)  BY <2>2, <1>1
    <3>2. ContentOf(a)' = ContentOf(a)  BY DEF SameAssets, ContentOf
    <3>3. snapshot[ContentOf(a)] > 0  BY <3>2, <1>1
    <3>4. HasSummary(summaries, a) \/ a \in missed \/ StillToAsk(job[Ingest(a)])
      BY <3>1, <3>3 DEF RaceOnly
    <3> QED  BY <3>3, <3>4, <2>2, <1>1
  <2> QED  BY <2>1, <2>2
<1>2. RaceOnly' <=>
        \A a \in Asset : Ready(a)' /\ snapshot'[ContentOf(a)'] > 0 =>
            HasSummary(summaries', a) \/ a \in missed' \/ StillToAsk(job'[Ingest(a)])
  BY DEF RaceOnly, HasSummary, StillToAsk, Ingest
<1> QED  BY <1>1, <1>2

-----------------------------------------------------------------------------
(* Steps that publish nothing. *)

\* The inductive step, from what the action does to each table.
LEMMA Step ==
    ASSUME MaterialsInv, Typed', Requested', UnderstandingExact', SameAssets,
           UNCHANGED <<snapshot, missed>>,
           \A i \in Job : job'[i] = job[i] \/ Good(i, job'[i], asset, snapshot),
           \A a \in Asset : /\ a \in reused' => HasSummary(summaries', a)
                            /\ HasSummary(summaries', a) => HasSummary(summaries, a) \/ Existing(a)
                            /\ HasSummary(summaries, a) => HasSummary(summaries', a),
           \A a \in Asset : Ready(a)' => Ready(a) \/ StillToAsk(job'[Ingest(a)]),
           \A a \in Asset : StillToAsk(job[Ingest(a)]) =>
               \/ StillToAsk(job'[Ingest(a)]) \/ HasSummary(summaries', a)
               \/ ~ Ready(a)' \/ ~ snapshot[ContentOf(a)] > 0
    PROVE  MaterialsInv'
<1>1. Typed /\ Known /\ Placed /\ RaceOnly  BY DEF MaterialsInv
<1>2. Older  BY <1>1, SameOlder
<1>3. \A i \in Job : job'[i] \in JobRow  BY DEF Typed
<1>4. Placed'  BY <1>1, <1>2, <1>3, PlacedKept
<1>5. Known'  BY <1>1, KnownKept
<1>6. RaceOnly'  BY <1>1, RaceKept
<1> QED  BY <1>4, <1>5, <1>6 DEF MaterialsInv

LEMMA SameRequests ==
    ASSUME Requested, UNCHANGED linkVars
    PROVE  Requested'
BY DEF Requested, linkVars

LEMMA PutRows ==
    ASSUME Typed, NEW j \in Job, NEW r \in JobRow
    PROVE  /\ Put(j, r) \in [Job -> JobRow] /\ Put(j, r)[j] = r
           /\ \A i \in Job : i # j => Put(j, r)[i] = job[i]
BY DEF Typed, Put

\* One row moves, and no other job of an asset or asset changes its state.
LEMMA QuietJob ==
    ASSUME MaterialsInv, NEW j \in Job, NEW r \in JobRow, job' = Put(j, r),
           Good(j, r, asset, snapshot),
           j \in UnderstandJob => /\ r.of = job[j].of
                                  /\ r.status \in Open <=> job[j].status \in Open
                                  /\ r.status = "failed" <=> job[j].status = "failed",
           \A a \in Asset : j = Ingest(a) /\ StillToAsk(job[j]) =>
               StillToAsk(r) \/ ~ snapshot[ContentOf(a)] > 0,
           UNCHANGED <<asset, linkVars, mediaVars>>
    PROVE  MaterialsInv'
<1>1. Typed /\ Known /\ Requested /\ UnderstandingExact  BY DEF MaterialsInv
<1>2. /\ job' \in [Job -> JobRow] /\ job'[j] = r
      /\ \A i \in Job : i # j => job'[i] = job[i]
  BY <1>1, PutRows
<1>3. Typed'  BY <1>1, <1>2 DEF Typed, linkVars, mediaVars
<1>4. Requested'  BY <1>1, SameRequests
<1>5. \A a : Und(summaries, job', a) = Und(summaries, job, a)
  <2>1. job \in [Job -> JobRow] /\ job' = [job EXCEPT ![j] = r]  BY <1>1 DEF Typed, Put
  <2>2. \A s, a : Und(s, [job EXCEPT ![j] = r], a) = Und(s, job, a)
    BY <2>1, QuietRows
  <2> QED  BY <2>1, <2>2
<1>6. UnderstandingExact'  BY <1>1, <1>5, ExactIs DEF mediaVars
<1>7. SameAssets  BY DEF SameAssets
<1>8. \A i \in Job : job'[i] = job[i] \/ Good(i, job'[i], asset, snapshot)  BY <1>2
<1>9. \A a \in Asset : /\ a \in reused' => HasSummary(summaries', a)
                       /\ HasSummary(summaries', a) => HasSummary(summaries, a) \/ Existing(a)
                       /\ HasSummary(summaries, a) => HasSummary(summaries', a)
  BY <1>1 DEF Known, mediaVars
<1>10. \A a \in Asset : Ready(a)' => Ready(a)  BY DEF Ready
<1>11. \A a \in Asset : StillToAsk(job[Ingest(a)]) =>
           StillToAsk(job'[Ingest(a)]) \/ ~ snapshot[ContentOf(a)] > 0
  BY <1>2, JobNames
<1>12. UNCHANGED <<snapshot, missed>>  BY DEF mediaVars
<1> QED  BY <1>3, <1>4, <1>6, <1>7, <1>8, <1>9, <1>10, <1>11, <1>12, Step

\* applyJob keeps the state of the asset exact.
LEMMA WriteStep ==
    ASSUME MaterialsInv, NEW j \in Job, NEW r \in JobRow, WriteJob(j, r),
           r.of \in Asset, Existing(r.of), Good(j, r, asset, snapshot),
           j \in UnderstandJob /\ job[j].status # "absent" => job[j].of = r.of,
           \A a \in Asset : j = Ingest(a) => r.of = a,
           \A a \in Asset : j = Ingest(a) /\ StillToAsk(job[j]) =>
               StillToAsk(r) \/ r.status = "failed",
           UNCHANGED <<linkVars, mediaVars>>
    PROVE  MaterialsInv'
<1>1. Typed /\ Known /\ Requested /\ UnderstandingExact  BY DEF MaterialsInv
<1>2. job' = Put(j, r)  BY DEF WriteJob
<1>3. /\ job' \in [Job -> JobRow] /\ job'[j] = r
      /\ \A i \in Job : i # j => job'[i] = job[i]
  BY <1>1, <1>2, PutRows
<1>4. asset \in [Asset -> AssetRow] /\ job \in [Job -> JobRow]  BY <1>1 DEF Typed
<1>5. /\ asset' \in [Asset -> AssetRow] /\ SameAssets /\ UnderstandingExact'
      /\ \A a \in Asset : Ready(a)' => Ready(a)
      /\ \A a \in Asset : j = Ingest(a) /\ r.status = "failed" => ~ Ready(a)'
  <2>1. CASE j \in UnderstandJob
    <3> DEFINE u == Und(summaries, job', r.of)
    <3>1. asset' = WithUnd(asset, r.of, u)
      <4>1. Reconciled(Put(j, r), r.of, FALSE) = Und(summaries, Put(j, r), r.of)  BY ExactIs
      <4>2. asset' = [asset EXCEPT ![r.of].und = Reconciled(Put(j, r), r.of, FALSE)]
        BY <2>1 DEF WriteJob
      <4> QED  BY <4>1, <4>2, <1>2 DEF WithUnd
    <3>2. u \in {"none", "running", "ready", "failed"}  BY UndType
    <3>u. u = Und(summaries, job', r.of)  OBVIOUS
    <3> HIDE DEF u
    <3>3. /\ asset' \in [Asset -> AssetRow] /\ asset'[r.of].und = u
          /\ \A b \in Asset : /\ asset'[b].content = asset[b].content
                              /\ asset'[b].ingest = asset[b].ingest
                              /\ asset'[b].usable = asset[b].usable
                              /\ b # r.of => asset'[b] = asset[b]
      BY <3>1, <3>2, <1>4, UndMoves
    <3>4. SameAssets  BY <3>3 DEF SameAssets
    <3>5. \A a \in Asset : Ready(a)' => Ready(a)  BY <3>3 DEF Ready
    <3>6. \A a \in Asset : j # Ingest(a)  BY <2>1, JobNames
    <3>7. ASSUME NEW a \in Asset, a # r.of
          PROVE  Und(summaries, job', a) = Und(summaries, job, a)
      BY <3>7, <1>2, <1>4, OtherRows DEF Put
    <3>8. ASSUME NEW a \in Asset, asset'[a].ingest # "absent"
          PROVE  asset'[a].und = Und(summaries, job', a)
      <4>1. CASE a = r.of  BY <4>1, <3>3, <3>u
      <4>2. CASE a # r.of
        <5>1. asset[a].und = Und(summaries, job, a)  BY <3>3, <3>8, <1>1, ExactIs
        <5> QED  BY <5>1, <4>2, <3>3, <3>7
      <4> QED  BY <4>1, <4>2
    <3>9. UnderstandingExact'  BY <3>8, ExactIs DEF mediaVars
    <3> QED  BY <3>3, <3>4, <3>5, <3>6, <3>9
  <2>2. CASE j \notin UnderstandJob
    <3>1. \A a : Und(summaries, job', a) = Und(summaries, job, a)
      <4>1. job' = [job EXCEPT ![j] = r]  BY <1>2 DEF Put
      <4>2. \A s, a : Und(s, [job EXCEPT ![j] = r], a) = Und(s, job, a)
        BY <2>2, <1>4, QuietRows
      <4> QED  BY <4>1, <4>2
    <3>2. CASE r.status = "failed"
      <4> DEFINE row == [asset[r.of] EXCEPT !.ingest = "failed", !.usable = FALSE]
      <4>1. asset[r.of] \in AssetRow  BY <1>4
      <4>2. /\ row \in AssetRow /\ row.content = asset[r.of].content /\ row.und = asset[r.of].und
            /\ row.ingest = "failed" /\ row.usable = FALSE
        BY <4>1 DEF AssetRow
      <4>3. asset' = [asset EXCEPT ![r.of] = row]  BY <2>2, <3>2, <1>4 DEF WriteJob
      <4> HIDE DEF row
      <4>4. /\ asset' \in [Asset -> AssetRow] /\ asset'[r.of] = row
            /\ \A b \in Asset : b # r.of => asset'[b] = asset[b]
        BY <4>2, <4>3, <1>4
      <4>5. SameAssets
        <5>1. asset[r.of].ingest # "absent"  BY DEF Existing
        <5>2. ~ asset'[r.of].usable  BY <4>2, <4>4
        <5>3. \A a \in Asset : asset'[a].content = asset[a].content  BY <4>2, <4>4
        <5>4. \A a \in Asset : asset'[a].ingest # "absent" <=> asset[a].ingest # "absent"
          BY <4>2, <4>4, <5>1
        <5>5. \A a \in Asset : asset'[a].usable => asset[a].usable
          BY <4>4, <5>2
        <5> QED  BY <5>3, <5>4, <5>5 DEF SameAssets
      <4>6. \A a \in Asset : asset'[a].und = asset[a].und  BY <4>2, <4>4
      <4>7. UnderstandingExact'
        BY <4>5, <4>6, <3>1, <1>1, ExactIs DEF mediaVars, SameAssets
      <4>8. ~ Ready(r.of)'  BY <4>2, <4>4 DEF Ready
      <4>9. \A a \in Asset : Ready(a)' => Ready(a)
        BY <4>4, <4>8 DEF Ready
      <4> QED  BY <4>4, <4>5, <4>7, <4>8, <4>9
    <3>3. CASE r.status # "failed"
      <4>1. asset' = asset  BY <2>2, <3>3 DEF WriteJob
      <4>2. SameAssets  BY <4>1 DEF SameAssets
      <4>3. UnderstandingExact'  BY <4>1, <3>1, <1>1, ExactIs DEF mediaVars
      <4>4. \A a \in Asset : Ready(a)' => Ready(a)  BY <4>1 DEF Ready
      <4> QED  BY <4>1, <4>2, <4>3, <4>4, <3>3, <1>4
    <3> QED  BY <3>2, <3>3
  <2> QED  BY <2>1, <2>2
<1>6. Typed'  BY <1>1, <1>3, <1>5 DEF Typed, linkVars, mediaVars
<1>7. Requested'  BY <1>1, SameRequests
<1>8. \A i \in Job : job'[i] = job[i] \/ Good(i, job'[i], asset, snapshot)  BY <1>3
<1>9. \A a \in Asset : /\ a \in reused' => HasSummary(summaries', a)
                       /\ HasSummary(summaries', a) => HasSummary(summaries, a) \/ Existing(a)
                       /\ HasSummary(summaries, a) => HasSummary(summaries', a)
  BY <1>1 DEF Known, mediaVars
<1>10. \A a \in Asset : StillToAsk(job[Ingest(a)]) =>
           StillToAsk(job'[Ingest(a)]) \/ ~ Ready(a)'
  BY <1>3, <1>5, JobNames
<1>11. UNCHANGED <<snapshot, missed>>  BY DEF mediaVars
<1> QED  BY <1>5, <1>6, <1>7, <1>8, <1>9, <1>10, <1>11, Step

-----------------------------------------------------------------------------
(* Jobs that move on quietly. *)

LEMMA GotoRow ==
    ASSUME Typed, NEW j \in Job, NEW p \in Place
    PROVE  LET r == [job[j] EXCEPT !.pc = p] IN
           /\ r \in JobRow /\ r.pc = p /\ r.status = job[j].status /\ r.of = job[j].of
           /\ r.tries = job[j].tries /\ r.gen = job[j].gen /\ r.seen = job[j].seen
<1>1. job[j] \in JobRow  BY DEF Typed
<1> QED  BY <1>1 DEF JobRow

\* A handler at its next place, which is not that of a publication.
LEMMA GotoGood ==
    ASSUME Typed, Placed, NEW j \in Job, NEW p \in Place, p # "publish",
           job[j].status = "running",
           p \in {"begin", "analyze", "failing"} => j \in UnderstandJob
    PROVE  Good(j, [job[j] EXCEPT !.pc = p], asset, snapshot)
<1> DEFINE r == [job[j] EXCEPT !.pc = p]
<1>1. /\ r.pc = p /\ r.status = job[j].status /\ r.of = job[j].of
      /\ r.tries = job[j].tries /\ r.seen = job[j].seen
  BY GotoRow
<1>2. Good(j, job[j], asset, snapshot)  BY DEF Placed
<1> HIDE DEF r
<1>3. Good(j, r, asset, snapshot)  BY <1>1, <1>2 DEF Good, Open
<1> QED  BY <1>3 DEF r

LEMMA PlaceOf ==
    ASSUME MaterialsInv, NEW j \in Job, job[j].status # "absent"
    PROVE  /\ job[j].of \in Asset /\ Existing(job[j].of)
           /\ ContentOf(job[j].of) \in Content
           /\ \A a \in Asset : j = Ingest(a) => job[j].of = a
           /\ job[j].status = "running" /\ job[j].pc \in {"begin", "analyze", "publish", "failing"}
                => j \in UnderstandJob
<1>1. Good(j, job[j], asset, snapshot)  BY DEF MaterialsInv, Placed
<1>2. job[j].of \in Asset /\ Existing(job[j].of)  BY <1>1 DEF Good, Existing
<1>3. ContentOf(job[j].of) \in Content  BY <1>2 DEF MaterialsInv, Known, ContentOf
<1> QED  BY <1>1, <1>2, <1>3 DEF Good

LEMMA ClaimStep ==
    ASSUME MaterialsInv, NEW j \in Job, Claim(j)
    PROVE  MaterialsInv'
<1> DEFINE r == [job[j] EXCEPT !.status = "running", !.pc = "start"]
<1>1. job[j] \in JobRow /\ job[j].status = "pending"  BY DEF MaterialsInv, Typed, Claim
<1>2. /\ r \in JobRow /\ r.status = "running" /\ r.pc = "start" /\ r.of = job[j].of
      /\ r.tries = job[j].tries /\ r.seen = job[j].seen
  BY <1>1 DEF JobRow, Open, Place
<1>3. job' = Put(j, r) /\ UNCHANGED <<asset, linkVars, mediaVars>>  BY DEF Claim
<1> HIDE DEF r
<1>4. Good(j, job[j], asset, snapshot)  BY DEF MaterialsInv, Placed
<1>5. Good(j, r, asset, snapshot)  BY <1>1, <1>2, <1>4 DEF Good, Open
<1>6. /\ r.of = job[j].of
      /\ r.status \in Open <=> job[j].status \in Open
      /\ r.status = "failed" <=> job[j].status = "failed"
  BY <1>1, <1>2 DEF Open
<1>7. StillToAsk(r)  BY <1>2 DEF StillToAsk
<1> QED  BY <1>2, <1>3, <1>5, <1>6, <1>7, QuietJob

LEMMA EnsureStep ==
    ASSUME MaterialsInv, NEW a \in Asset, Ensure(a)
    PROVE  MaterialsInv'
<1> DEFINE j == Ingest(a)
           p == IF snapshot[ContentOf(a)] > 0 THEN "reuse" ELSE "enqueue"
           r == [job[j] EXCEPT !.pc = p]
<1>1. j \in Job /\ j \notin UnderstandJob  BY JobNames
<1>2. job[j].status = "running" /\ Typed /\ Placed  BY DEF Ensure, At, MaterialsInv
<1>3. p \in {"reuse", "enqueue"} /\ p \in Place  BY DEF Place
<1>4. /\ job' = Put(j, r) /\ UNCHANGED <<asset, linkVars, mediaVars>>  BY DEF Ensure, Goto
<1>5. snapshot[ContentOf(a)] > 0 => p = "reuse"  OBVIOUS
<1> HIDE DEF j, p
<1>6. r \in JobRow /\ r.pc = p /\ r.status = "running"  BY <1>1, <1>2, <1>3, GotoRow
<1>7. Good(j, r, asset, snapshot)  BY <1>1, <1>2, <1>3, GotoGood
<1> HIDE DEF r
<1>8. ASSUME NEW b \in Asset, j = Ingest(b)
      PROVE  StillToAsk(r) \/ ~ snapshot[ContentOf(b)] > 0
  <2>1. a = b  BY <1>8, JobNames DEF j
  <2> QED  BY <2>1, <1>5, <1>6 DEF StillToAsk
<1> QED  BY <1>1, <1>4, <1>6, <1>7, <1>8, QuietJob

LEMMA ConsultStep ==
    ASSUME MaterialsInv, NEW j \in Job, Consult(j)
    PROVE  MaterialsInv'
<1>1. PICK p \in {"reuse", "done", "begin"} : Goto(j, p)  BY DEF Consult
<1> DEFINE r == [job[j] EXCEPT !.pc = p]
<1>2. job[j].status = "running" /\ j \in UnderstandJob /\ Typed /\ Placed
  BY DEF Consult, At, MaterialsInv
<1>3. p \in Place /\ p # "publish"  BY DEF Place
<1>4. job' = Put(j, r) /\ UNCHANGED <<asset, linkVars, mediaVars>>  BY <1>1 DEF Consult, Goto
<1>5. /\ r \in JobRow /\ r.status = job[j].status /\ r.of = job[j].of
  BY <1>2, <1>3, GotoRow
<1>6. Good(j, r, asset, snapshot)  BY <1>2, <1>3, GotoGood
<1> HIDE DEF r
<1>7. \A a \in Asset : j # Ingest(a)  BY <1>2, JobNames
<1> QED  BY <1>4, <1>5, <1>6, <1>7, QuietJob

LEMMA PublishReadStep ==
    ASSUME MaterialsInv, NEW j \in Job, PublishRead(j)
    PROVE  MaterialsInv'
<1> DEFINE c == ContentOf(job[j].of)
           g == snapshot[c] + 1
           s == OfContent(c)
           r == [job[j] EXCEPT !.pc = "publish", !.gen = g, !.seen = s]
<1>1. job[j].status = "running" /\ job[j].pc = "analyze"  BY DEF PublishRead, At
<1>2. j \in UnderstandJob /\ c \in Content  BY <1>1, PlaceOf
<1>3. snapshot[c] \in Nat  BY <1>2 DEF MaterialsInv, Typed
<1>4. s \subseteq Asset /\ \A b \in s : Existing(b)
  BY DEF OfContent, Ready, MaterialsInv, Known
<1>5. job' = Put(j, r) /\ UNCHANGED <<asset, linkVars, mediaVars>>  BY DEF PublishRead
<1>6. job[j] \in JobRow  BY DEF MaterialsInv, Typed
<1>g. g \in Nat /\ g = snapshot[asset[job[j].of].content] + 1  BY <1>3 DEF ContentOf
<1> HIDE DEF c, g, s
<1>7. /\ r \in JobRow /\ r.pc = "publish" /\ r.status = job[j].status /\ r.of = job[j].of
      /\ r.tries = job[j].tries /\ r.gen = g /\ r.seen = s
  BY <1>g, <1>4, <1>6 DEF JobRow, Place
<1> HIDE DEF r
<1>8. Good(j, r, asset, snapshot)
  <2>1. Good(j, job[j], asset, snapshot)  BY DEF MaterialsInv, Placed
  <2>2. r.gen <= snapshot[asset[r.of].content] + 1  BY <1>g, <1>7
  <2>3. \A b \in r.seen : asset[b].ingest # "absent"  BY <1>4, <1>7 DEF Existing
  <2> QED  BY <2>1, <2>2, <2>3, <1>1, <1>2, <1>7 DEF Good, Open
<1>9. \A a \in Asset : j # Ingest(a)  BY <1>2, JobNames
<1> QED  BY <1>5, <1>7, <1>8, <1>9, QuietJob

-----------------------------------------------------------------------------
(* Jobs that end, and jobs that are asked for. *)

LEMMA StutterStep ==
    ASSUME MaterialsInv, UNCHANGED vars
    PROVE  MaterialsInv'
<1>1. /\ UNCHANGED <<asset, links, job, snapshot, source, summaries, reused, req, missed>>
      /\ Typed /\ Known /\ Requested /\ Placed /\ UnderstandingExact /\ RaceOnly
  BY DEF vars, MaterialsInv
<1>2. Typed'  BY <1>1 DEF Typed
<1>3. Known'  BY <1>1 DEF Known, Existing, HasSummary
<1>4. Requested'  BY <1>1 DEF Requested
<1>5. Placed'  BY <1>1 DEF Placed
<1>6. UnderstandingExact'  BY <1>1, ExactIs
<1>7. RaceOnly'  BY <1>1 DEF RaceOnly, Ready, ContentOf, HasSummary, StillToAsk, Ingest
<1> QED  BY <1>2, <1>3, <1>4, <1>5, <1>6, <1>7 DEF MaterialsInv

LEMMA AttemptEndsStep ==
    ASSUME MaterialsInv, NEW j \in Job, AttemptEnds(j)
    PROVE  MaterialsInv'
<1> DEFINE n == job[j].tries + 1
           r0 == [job[j] EXCEPT !.tries = n, !.gen = 0, !.seen = {}, !.pc = "start"]
<1>1. job[j].status = "running" /\ UNCHANGED <<linkVars, mediaVars>>  BY DEF AttemptEnds
<1>2. /\ job[j].of \in Asset /\ Existing(job[j].of)
      /\ \A a \in Asset : j = Ingest(a) => job[j].of = a
  BY <1>1, PlaceOf
<1>3. job[j] \in JobRow  BY DEF MaterialsInv, Typed
<1>4. job[j].tries \in Nat /\ job[j].tries < MaxTries[j[1]]
  BY <1>1, <1>3 DEF JobRow, MaterialsInv, Placed, Good, Open
<1>5. n \in Nat /\ MaxTries[j[1]] \in Nat /\ n <= MaxTries[j[1]]  BY <1>4, JobNames
<1>6. IF Spent(j, r0.tries) THEN WriteJob(j, [r0 EXCEPT !.status = "failed"])
      ELSE job' = Put(j, [r0 EXCEPT !.status = "pending"]) /\ UNCHANGED asset
  BY DEF AttemptEnds
<1> HIDE DEF n
<1>7. /\ r0 \in JobRow /\ r0.pc = "start" /\ r0.status = "running" /\ r0.of = job[j].of
      /\ r0.tries = n /\ r0.seen = {}
  BY <1>1, <1>3, <1>5 DEF JobRow, Place
<1> HIDE DEF r0
<1>8. CASE Spent(j, r0.tries)
  <2> DEFINE r == [r0 EXCEPT !.status = "failed"]
  <2>1. /\ r \in JobRow /\ r.pc = "start" /\ r.status = "failed" /\ r.of = r0.of
        /\ r.tries = r0.tries /\ r.seen = {}
    BY <1>7 DEF JobRow, Open
  <2>2. WriteJob(j, r)  BY <1>6, <1>8
  <2> HIDE DEF r
  <2>3. Good(j, r, asset, snapshot)
    BY <2>1, <1>2, <1>5, <1>7 DEF Good, Open, Existing
  <2> QED  BY <2>1, <2>2, <2>3, <1>1, <1>2, <1>7, WriteStep
<1>9. CASE ~ Spent(j, r0.tries)
  <2> DEFINE r == [r0 EXCEPT !.status = "pending"]
  <2>1. /\ r \in JobRow /\ r.pc = "start" /\ r.status = "pending" /\ r.of = r0.of
        /\ r.tries = r0.tries /\ r.seen = {}
    BY <1>7 DEF JobRow, Open
  <2>2. job' = Put(j, r) /\ UNCHANGED asset  BY <1>6, <1>9
  <2> HIDE DEF r
  <2>3. n < MaxTries[j[1]]  BY <1>5, <1>7, <1>9 DEF Spent
  <2>4. Good(j, r, asset, snapshot)
    BY <2>1, <2>3, <1>2, <1>5, <1>7 DEF Good, Open, Existing
  <2>5. /\ r.of = job[j].of
        /\ r.status \in Open <=> job[j].status \in Open
        /\ r.status = "failed" <=> job[j].status = "failed"
    BY <2>1, <1>1, <1>7 DEF Open
  <2>6. StillToAsk(r)  BY <2>1 DEF StillToAsk
  <2>7. UNCHANGED <<asset, linkVars, mediaVars>>  BY <2>2, <1>1
  <2> QED  BY <2>1, <2>2, <2>4, <2>5, <2>6, <2>7, QuietJob
<1> QED  BY <1>8, <1>9

LEMMA CancelStep ==
    ASSUME MaterialsInv, NEW j \in Job, CancelJob(j)
    PROVE  MaterialsInv'
<1> DEFINE r == [job[j] EXCEPT !.status = "cancelled", !.pc = "start", !.gen = 0, !.seen = {}]
<1>1. job[j].status \in Open /\ WriteJob(j, r) /\ UNCHANGED <<linkVars, mediaVars>>
  BY DEF CancelJob
<1>2. /\ job[j].of \in Asset /\ Existing(job[j].of)
      /\ \A a \in Asset : j = Ingest(a) => job[j].of = a
  BY <1>1, PlaceOf DEF Open
<1>3. job[j] \in JobRow /\ Good(j, job[j], asset, snapshot)
  BY DEF MaterialsInv, Typed, Placed
<1>4. /\ r \in JobRow /\ r.pc = "start" /\ r.status = "cancelled" /\ r.of = job[j].of
      /\ r.tries = job[j].tries /\ r.seen = {}
  BY <1>3 DEF JobRow, Place
<1> HIDE DEF r
<1>5. Good(j, r, asset, snapshot)  BY <1>2, <1>3, <1>4 DEF Good, Open, Existing
<1>6. StillToAsk(r)  BY <1>4 DEF StillToAsk
<1> QED  BY <1>1, <1>2, <1>4, <1>5, <1>6, WriteStep

LEMMA SucceedStep ==
    ASSUME MaterialsInv, NEW j \in Job, Succeed(j)
    PROVE  MaterialsInv'
<1> DEFINE r == [job[j] EXCEPT !.status = "succeeded", !.pc = "start"]
<1>1. /\ job[j].status = "running" /\ job[j].pc = "done"
      /\ WriteJob(j, r) /\ UNCHANGED <<linkVars, mediaVars>>
  BY DEF Succeed, At
<1>2. /\ job[j].of \in Asset /\ Existing(job[j].of)
      /\ \A a \in Asset : j = Ingest(a) => job[j].of = a
  BY <1>1, PlaceOf
<1>3. job[j] \in JobRow /\ Good(j, job[j], asset, snapshot)
  BY DEF MaterialsInv, Typed, Placed
<1>4. /\ r \in JobRow /\ r.pc = "start" /\ r.status = "succeeded" /\ r.of = job[j].of
      /\ r.tries = job[j].tries /\ r.seen = job[j].seen
  BY <1>3 DEF JobRow, Place
<1> HIDE DEF r
<1>5. Good(j, r, asset, snapshot)  BY <1>1, <1>2, <1>3, <1>4 DEF Good, Open, Existing
<1>6. ~ StillToAsk(job[j])  BY <1>1 DEF StillToAsk
<1> QED  BY <1>1, <1>2, <1>4, <1>5, <1>6, WriteStep

\* A base index or a refresh is asked for.
LEMMA EnqueueStep ==
    ASSUME MaterialsInv, NEW j \in UnderstandJob, NEW a \in Asset, asset[a].usable,
           job[j].status = "absent", WriteJob(j, Enqueued(a)), UNCHANGED <<linkVars, mediaVars>>
    PROVE  MaterialsInv'
<1>1. Existing(a)  BY DEF MaterialsInv, Known
<1>2. j \in Job /\ \A b \in Asset : j # Ingest(b)  BY JobNames
<1>3. Good(j, Enqueued(a), asset, snapshot)  BY <1>1, <1>2, FreshGood
<1> QED  BY <1>1, <1>2, <1>3, FreshRows, WriteStep

LEMMA EnqueueBaseStep ==
    ASSUME MaterialsInv, NEW a \in Asset, asset[a].usable,
           EnqueueBase(a), UNCHANGED <<linkVars, mediaVars>>
    PROVE  MaterialsInv'
<1>1. Existing(a)  BY DEF MaterialsInv, Known
<1>2. ContentOf(a) \in Content  BY <1>1 DEF MaterialsInv, Known, ContentOf
<1>3. Base(ContentOf(a)) \in UnderstandJob  BY <1>2, JobNames
<1>4. CASE job[Base(ContentOf(a))].status # "absent"
  <2>1. UNCHANGED <<asset, job>>  BY <1>4 DEF EnqueueBase
  <2>2. UNCHANGED vars  BY <2>1 DEF vars, linkVars, mediaVars
  <2> QED  BY <2>2, StutterStep
<1>5. CASE job[Base(ContentOf(a))].status = "absent"
  <2>1. WriteJob(Base(ContentOf(a)), Enqueued(a))  BY <1>5 DEF EnqueueBase
  <2> QED  BY <2>1, <1>3, <1>5, EnqueueStep
<1> QED  BY <1>4, <1>5

LEMMA ToolSteps ==
    ASSUME MaterialsInv, NEW d \in Draft, NEW a \in Asset, DetectShots(d, a) \/ ForceRefresh(d, a)
    PROVE  MaterialsInv'
<1>1. CASE DetectShots(d, a)  BY <1>1, EnqueueBaseStep DEF DetectShots
<1>2. CASE ForceRefresh(d, a)
  <2>1. Refresh(a) \in UnderstandJob  BY <1>2, JobNames DEF ForceRefresh
  <2> QED  BY <2>1, <1>2, EnqueueStep DEF ForceRefresh
<1> QED  BY <1>1, <1>2

-----------------------------------------------------------------------------
(* Handlers that write about their asset. *)

LEMMA GotoQuiet ==
    ASSUME Typed, NEW j \in Job, NEW p \in Place, Goto(j, p)
    PROVE  /\ job' \in [Job -> JobRow] /\ job'[j] = [job[j] EXCEPT !.pc = p]
           /\ \A i \in Job : i # j => job'[i] = job[i]
           /\ \A s, a : Und(s, job', a) = Und(s, job, a)
<1> DEFINE r == [job[j] EXCEPT !.pc = p]
<1>1. r \in JobRow /\ r.status = job[j].status /\ r.of = job[j].of  BY GotoRow
<1>2. job' = Put(j, r)  BY DEF Goto
<1>r. r = [job[j] EXCEPT !.pc = p]  OBVIOUS
<1> HIDE DEF r
<1>3. /\ job' \in [Job -> JobRow] /\ job'[j] = r
      /\ \A i \in Job : i # j => job'[i] = job[i]
  BY <1>1, <1>2, PutRows
<1>4. job \in [Job -> JobRow]  BY DEF Typed
<1>5. \A s, a : Und(s, [job EXCEPT ![j] = r], a) = Und(s, job, a)
  BY <1>1, <1>4, QuietRows
<1>6. job' = [job EXCEPT ![j] = r]  BY <1>2 DEF Put
<1> QED  BY <1>3, <1>5, <1>6, <1>r

LEMMA GotoStep ==
    ASSUME MaterialsInv, NEW j \in Job, NEW p \in Place, p # "publish",
           job[j].status = "running", Goto(j, p),
           p \in {"begin", "analyze", "failing"} => j \in UnderstandJob,
           asset' \in [Asset -> AssetRow], SameAssets, UnderstandingExact',
           \A a \in Asset : /\ a \in reused' => HasSummary(summaries', a)
                            /\ HasSummary(summaries', a) => HasSummary(summaries, a) \/ Existing(a)
                            /\ HasSummary(summaries, a) => HasSummary(summaries', a),
           \A a \in Asset : Ready(a)' => Ready(a) \/ (j = Ingest(a) /\ p \notin {"enqueue", "done"}),
           \A a \in Asset : j = Ingest(a) /\ StillToAsk(job[j]) =>
               p \notin {"enqueue", "done"} \/ HasSummary(summaries', a),
           UNCHANGED <<linkVars, snapshot, source, missed>>
    PROVE  MaterialsInv'
<1>1. Typed /\ Placed /\ Requested  BY DEF MaterialsInv
<1> DEFINE r == [job[j] EXCEPT !.pc = p]
<1>2. Good(j, r, asset, snapshot)  BY <1>1, GotoGood
<1>3. r.pc = p /\ r.status = "running"  BY <1>1, GotoRow
<1>4. job' \in [Job -> JobRow] /\ job'[j] = r /\ \A i \in Job : i # j => job'[i] = job[i]
  BY <1>1, GotoQuiet
<1> HIDE DEF r
<1>5. Typed'  BY <1>1, <1>4 DEF Typed, linkVars
<1>6. Requested'  BY <1>1, SameRequests
<1>7. \A i \in Job : job'[i] = job[i] \/ Good(i, job'[i], asset, snapshot)  BY <1>2, <1>4
<1>8. StillToAsk(r) <=> p \notin {"enqueue", "done"}  BY <1>3 DEF StillToAsk
<1>9. \A a \in Asset : Ready(a)' => Ready(a) \/ StillToAsk(job'[Ingest(a)])
  BY <1>4, <1>8
<1>10. \A a \in Asset : StillToAsk(job[Ingest(a)]) =>
           StillToAsk(job'[Ingest(a)]) \/ HasSummary(summaries', a)
  BY <1>4, <1>8, JobNames
<1> QED  BY <1>5, <1>6, <1>7, <1>9, <1>10, Step

\* The state of one asset is set to what its summaries and jobs say.
LEMMA UndSet ==
    ASSUME Typed, UnderstandingExact, NEW a \in Asset,
           asset' = WithUnd(asset, a, Und(summaries', job', a)),
           \A b \in Asset : b # a => Und(summaries', job', b) = Und(summaries, job, b)
    PROVE  /\ asset' \in [Asset -> AssetRow] /\ SameAssets /\ UnderstandingExact'
           /\ \A b \in Asset : Ready(b)' => Ready(b)
<1> DEFINE u == Und(summaries', job', a)
<1>1. u \in {"none", "running", "ready", "failed"}  BY UndType
<1>2. asset' = WithUnd(asset, a, u) /\ u = Und(summaries', job', a)  OBVIOUS
<1>3. asset \in [Asset -> AssetRow]  BY DEF Typed
<1> HIDE DEF u
<1>4. /\ asset' \in [Asset -> AssetRow] /\ asset'[a].und = u
      /\ \A b \in Asset : /\ asset'[b].content = asset[b].content
                          /\ asset'[b].ingest = asset[b].ingest
                          /\ asset'[b].usable = asset[b].usable
                          /\ b # a => asset'[b] = asset[b]
  BY <1>1, <1>2, <1>3, UndMoves
<1>5. SameAssets  BY <1>4 DEF SameAssets
<1>6. \A b \in Asset : Ready(b)' => Ready(b)  BY <1>4 DEF Ready
<1>7. ASSUME NEW b \in Asset, asset'[b].ingest # "absent"
      PROVE  asset'[b].und = Und(summaries', job', b)
  <2>1. CASE b = a  BY <2>1, <1>2, <1>4
  <2>2. CASE b # a
    <3>1. asset[b].und = Und(summaries, job, b)  BY <1>4, <1>7, ExactIs
    <3> QED  BY <3>1, <2>2, <1>4
  <2> QED  BY <2>1, <2>2
<1>8. UnderstandingExact'  BY <1>7, ExactIs
<1> QED  BY <1>4, <1>5, <1>6, <1>8

LEMMA SameSummaries ==
    ASSUME Known, UNCHANGED <<summaries, reused>>
    PROVE  \A a \in Asset : /\ a \in reused' => HasSummary(summaries', a)
                            /\ HasSummary(summaries', a) => HasSummary(summaries, a) \/ Existing(a)
                            /\ HasSummary(summaries, a) => HasSummary(summaries', a)
BY DEF Known

LEMMA StartedStep ==
    ASSUME MaterialsInv, NEW j \in Job, Started(j)
    PROVE  MaterialsInv'
<1> DEFINE a == job[j].of
<1>1. job[j].status = "running" /\ job[j].pc = "begin"  BY DEF Started, At
<1>2. /\ Typed /\ Known /\ UnderstandingExact
      /\ Goto(j, "analyze") /\ UNCHANGED <<linkVars, mediaVars>>
  BY DEF MaterialsInv, Started
<1>3. a \in Asset /\ j \in UnderstandJob  BY <1>1, PlaceOf
<1>4. "analyze" \in Place  BY DEF Place
<1>5. \A s, b : Und(s, job', b) = Und(s, job, b)  BY <1>2, <1>4, GotoQuiet
<1>6. ActiveFor(job, a)  BY <1>1, <1>3 DEF ActiveFor, Open
<1>7. Und(summaries, job, a) = IF HasSummary(summaries, a) THEN "ready" ELSE "running"
  BY <1>6 DEF Und
<1>8. asset' = WithUnd(asset, a, IF HasSummary(summaries, a) THEN "ready" ELSE "running")
  BY DEF Started, WithUnd
<1>9. summaries' = summaries  BY <1>2 DEF mediaVars
<1> HIDE DEF a
<1>10. asset' = WithUnd(asset, a, Und(summaries', job', a))  BY <1>5, <1>7, <1>8, <1>9
<1>11. /\ asset' \in [Asset -> AssetRow] /\ SameAssets /\ UnderstandingExact'
       /\ \A b \in Asset : Ready(b)' => Ready(b)
  BY <1>2, <1>3, <1>5, <1>9, <1>10, UndSet
<1>12. \A b \in Asset : /\ b \in reused' => HasSummary(summaries', b)
                        /\ HasSummary(summaries', b) => HasSummary(summaries, b) \/ Existing(b)
                        /\ HasSummary(summaries, b) => HasSummary(summaries', b)
  BY <1>2, SameSummaries DEF mediaVars
<1>13. UNCHANGED <<linkVars, snapshot, source, missed>>  BY <1>2 DEF mediaVars
<1> QED  BY <1>1, <1>2, <1>3, <1>4, <1>11, <1>12, <1>13, GotoStep

LEMMA AnalysisFailsStep ==
    ASSUME MaterialsInv, NEW j \in Job, AnalysisFails(j)
    PROVE  MaterialsInv'
<1> DEFINE a == job[j].of
<1>1. job[j].status = "running" /\ job[j].pc = "analyze"  BY DEF AnalysisFails, At
<1>2. /\ Typed /\ Known /\ UnderstandingExact
      /\ Goto(j, "failing") /\ UNCHANGED <<linkVars, mediaVars>>
  BY DEF MaterialsInv, AnalysisFails
<1>3. a \in Asset /\ j \in UnderstandJob  BY <1>1, PlaceOf
<1>4. "failing" \in Place  BY DEF Place
<1>5. \A s, b : Und(s, job', b) = Und(s, job, b)  BY <1>2, <1>4, GotoQuiet
<1>6. ActiveFor(job, a)  BY <1>1, <1>3 DEF ActiveFor, Open
<1>7. Reconciled(job, a, TRUE) = Und(summaries, job, a)  BY <1>6, ExactIs
<1>8. asset' = WithUnd(asset, a, Reconciled(job, a, TRUE))  BY DEF AnalysisFails, WithUnd
<1>9. summaries' = summaries  BY <1>2 DEF mediaVars
<1> HIDE DEF a
<1>10. asset' = WithUnd(asset, a, Und(summaries', job', a))  BY <1>5, <1>7, <1>8, <1>9
<1>11. /\ asset' \in [Asset -> AssetRow] /\ SameAssets /\ UnderstandingExact'
       /\ \A b \in Asset : Ready(b)' => Ready(b)
  BY <1>2, <1>3, <1>5, <1>9, <1>10, UndSet
<1>12. \A b \in Asset : /\ b \in reused' => HasSummary(summaries', b)
                        /\ HasSummary(summaries', b) => HasSummary(summaries, b) \/ Existing(b)
                        /\ HasSummary(summaries, b) => HasSummary(summaries', b)
  BY <1>2, SameSummaries DEF mediaVars
<1>13. UNCHANGED <<linkVars, snapshot, source, missed>>  BY <1>2 DEF mediaVars
<1> QED  BY <1>1, <1>2, <1>3, <1>4, <1>11, <1>12, <1>13, GotoStep

-----------------------------------------------------------------------------
(* The ingest handler. *)

LEMMA IngestSet ==
    ASSUME Typed, UnderstandingExact, NEW a \in Asset, Existing(a),
           NEW s \in {"probed", "ready", "failed"}, asset' = WithIngest(asset, a, s),
           \A b \in Asset : Und(summaries', job', b) = Und(summaries, job, b)
    PROVE  /\ asset' \in [Asset -> AssetRow] /\ SameAssets /\ UnderstandingExact'
           /\ \A b \in Asset : Ready(b)' => Ready(b) \/ (b = a /\ s = "ready")
<1>1. asset \in [Asset -> AssetRow]  BY DEF Typed
<1>2. /\ asset' \in [Asset -> AssetRow] /\ asset'[a].ingest = s
      /\ \A b \in Asset : /\ asset'[b].content = asset[b].content
                          /\ asset'[b].und = asset[b].und
                          /\ asset'[b].usable = asset[b].usable
                          /\ b # a => asset'[b] = asset[b]
  BY <1>1, IngestMoves
<1>3. \A b \in Asset : asset'[b].ingest # "absent" <=> asset[b].ingest # "absent"
  BY <1>2 DEF Existing
<1>4. SameAssets  BY <1>2, <1>3 DEF SameAssets
<1>5. UnderstandingExact'  BY <1>2, <1>3, ExactIs
<1>6. \A b \in Asset : Ready(b)' => Ready(b) \/ (b = a /\ s = "ready")
  BY <1>2 DEF Ready
<1> QED  BY <1>2, <1>4, <1>5, <1>6

LEMMA ProbeStep ==
    ASSUME MaterialsInv, NEW a \in Asset, Probe(a)
    PROVE  MaterialsInv'
<1> DEFINE j == Ingest(a)
<1>1. job[j].status = "running"  BY DEF Probe, At
<1>2. /\ Typed /\ Known /\ UnderstandingExact
      /\ Goto(j, "proxy") /\ UNCHANGED <<linkVars, mediaVars>>
  BY DEF MaterialsInv, Probe
<1>3. j \in Job /\ \A b \in Asset : j = Ingest(b) => b = a  BY JobNames
<1>4. Existing(a)  BY <1>1, <1>3, PlaceOf
<1>5. "proxy" \in Place  BY DEF Place
<1> HIDE DEF j
<1>6. \A s, b : Und(s, job', b) = Und(s, job, b)  BY <1>2, <1>3, <1>5, GotoQuiet
<1>7. summaries' = summaries /\ UNCHANGED <<linkVars, snapshot, source, missed, reused>>
  BY <1>2 DEF mediaVars
<1>8. /\ asset' \in [Asset -> AssetRow] /\ SameAssets /\ UnderstandingExact'
      /\ \A b \in Asset : Ready(b)' => Ready(b)
  <2>1. CASE asset[a].ingest = "imported"
    <3>1. asset' = WithIngest(asset, a, "probed")  BY <2>1 DEF Probe, WithIngest, Typed
    <3> QED  BY <3>1, <1>2, <1>4, <1>6, <1>7, IngestSet
  <2>2. CASE asset[a].ingest # "imported"
    <3>1. asset \in [Asset -> AssetRow]  BY <1>2 DEF Typed
    <3>2. asset' = [asset EXCEPT ![a].ingest = asset[a].ingest]  BY <2>2 DEF Probe
    <3>3. [asset[a] EXCEPT !.ingest = asset[a].ingest] = asset[a]
      <4>1. asset[a] \in AssetRow  BY <3>1
      <4> QED  BY <4>1 DEF AssetRow
    <3>4. asset' = [asset EXCEPT ![a] = asset[a]]  BY <3>2, <3>3
    <3>5. asset' = asset  BY <3>1, <3>4
    <3> QED  BY <3>1, <3>5, <1>2, <1>6, <1>7, ExactIs DEF SameAssets, Ready
  <2> QED  BY <2>1, <2>2
<1>9. \A b \in Asset : /\ b \in reused' => HasSummary(summaries', b)
                       /\ HasSummary(summaries', b) => HasSummary(summaries, b) \/ Existing(b)
                       /\ HasSummary(summaries, b) => HasSummary(summaries', b)
  BY <1>2, <1>7, SameSummaries
<1> QED  BY <1>1, <1>2, <1>3, <1>5, <1>7, <1>8, <1>9, GotoStep

LEMMA ProxyStep ==
    ASSUME MaterialsInv, NEW a \in Asset, Proxy(a)
    PROVE  MaterialsInv'
<1> DEFINE j == Ingest(a)
<1>1. job[j].status = "running"  BY DEF Proxy, At
<1>2. /\ Typed /\ Known /\ UnderstandingExact
      /\ Goto(j, "ensure") /\ UNCHANGED <<linkVars, mediaVars>>
  BY DEF MaterialsInv, Proxy
<1>3. j \in Job /\ \A b \in Asset : j = Ingest(b) => b = a  BY JobNames
<1>4. Existing(a)  BY <1>1, <1>3, PlaceOf
<1>5. "ensure" \in Place  BY DEF Place
<1>j. j = Ingest(a)  OBVIOUS
<1> HIDE DEF j
<1>6. \A s, b : Und(s, job', b) = Und(s, job, b)  BY <1>2, <1>3, <1>5, GotoQuiet
<1>7. summaries' = summaries /\ UNCHANGED <<linkVars, snapshot, source, missed, reused>>
  BY <1>2 DEF mediaVars
<1>8. /\ asset' \in [Asset -> AssetRow] /\ SameAssets /\ UnderstandingExact'
      /\ \A b \in Asset : Ready(b)' => Ready(b) \/ b = a
  <2>1. asset' = WithIngest(asset, a, "ready")  BY DEF Proxy, WithIngest
  <2> QED  BY <2>1, <1>2, <1>4, <1>6, <1>7, IngestSet
<1>9. \A b \in Asset : /\ b \in reused' => HasSummary(summaries', b)
                       /\ HasSummary(summaries', b) => HasSummary(summaries, b) \/ Existing(b)
                       /\ HasSummary(summaries, b) => HasSummary(summaries', b)
  BY <1>2, <1>7, SameSummaries
<1>10. \A b \in Asset : Ready(b)' => Ready(b) \/ j = Ingest(b)  BY <1>8, <1>j
<1> QED  BY <1>1, <1>2, <1>3, <1>5, <1>7, <1>8, <1>9, <1>10, GotoStep

\* The base job is enqueued and the ingest handler goes on, in one transaction.
LEMMA EnsureJobStep ==
    ASSUME MaterialsInv, NEW a \in Asset, EnsureJob(a)
    PROVE  MaterialsInv'
<1> DEFINE i == Ingest(a)
           j == Base(ContentOf(a))
           done == [job[i] EXCEPT !.pc = "done"]
           new == Enqueued(a)
<1>1. job[i].status = "running" /\ job[i].pc = "enqueue"  BY DEF EnsureJob, At
<1>2. /\ Typed /\ Known /\ Requested /\ Placed /\ UnderstandingExact
      /\ UNCHANGED <<linkVars, mediaVars>>
  BY DEF MaterialsInv, EnsureJob
<1>3. i \in Job /\ i \notin UnderstandJob /\ \A b \in Asset : i = Ingest(b) => b = a
  BY JobNames
<1>4. Existing(a) /\ ContentOf(a) \in Content
  <2>1. Existing(a)  BY <1>1, <1>3, PlaceOf
  <2> QED  BY <2>1, <1>2 DEF Known, ContentOf
<1>5. j \in UnderstandJob /\ j \in Job /\ \A b \in Asset : j # Ingest(b)
  BY <1>4, JobNames
<1>6. "done" \in Place  BY DEF Place
<1>7. /\ done \in JobRow /\ done.pc = "done" /\ done.status = "running" /\ done.of = job[i].of
      /\ Good(i, done, asset, snapshot)
  BY <1>1, <1>2, <1>3, <1>6, GotoRow, GotoGood
<1>8. /\ new \in JobRow /\ new.of = a /\ new.status = "pending"
      /\ Good(j, new, asset, snapshot)
  BY <1>4, <1>5, FreshRows, FreshGood
<1>9. /\ job[j].status # "absent" => job' = Put(i, done) /\ UNCHANGED asset
      /\ job[j].status = "absent" =>
           /\ job' = [job EXCEPT ![i] = done, ![j] = new]
           /\ asset' = [asset EXCEPT ![a].und = Reconciled(Put(j, new), a, FALSE)]
  BY DEF EnsureJob
<1>10. ~ StillToAsk(job[i])  BY <1>1 DEF StillToAsk
<1>11. job \in [Job -> JobRow]  BY <1>2 DEF Typed
<1>i. \A b \in Asset : Ingest(b) = i <=> b = a  BY <1>3
<1> HIDE DEF i, j, done, new
<1>12. CASE job[j].status # "absent"
  <2>1. job' = Put(i, done) /\ UNCHANGED <<asset, linkVars, mediaVars>>  BY <1>2, <1>9, <1>12
  <2> QED  BY <2>1, <1>3, <1>7, <1>10, QuietJob
<1>13. CASE job[j].status = "absent"
  <2> DEFINE rows == Put(j, new)
  <2>1. rows \in [Job -> JobRow] /\ rows = [job EXCEPT ![j] = new]
    BY <1>2, <1>5, <1>8, PutRows DEF Put
  <2>2. job' = [rows EXCEPT ![i] = done]
    BY <2>1, <1>3, <1>5, <1>9, <1>11, <1>13
  <2>3. asset' = WithUnd(asset, a, Reconciled(rows, a, FALSE))
    BY <1>9, <1>13 DEF WithUnd
  <2> HIDE DEF rows
  <2>4. \A s, b : Und(s, [rows EXCEPT ![i] = done], b) = Und(s, rows, b)
    BY <2>1, <1>3, <1>7, QuietRows
  <2>5. \A s, b : Und(s, job', b) = Und(s, rows, b)  BY <2>2, <2>4
  <2>6. ASSUME NEW b \in Asset, b # a
        PROVE  Und(summaries, rows, b) = Und(summaries, job, b)
    <3>1. \A s : Und(s, [job EXCEPT ![j] = new], b) = Und(s, job, b)
      BY <2>6, <1>5, <1>8, <1>11, <1>13, OtherRows
    <3> QED  BY <3>1, <2>1
  <2>7. summaries' = summaries /\ UNCHANGED <<snapshot, missed>>  BY <1>2 DEF mediaVars
  <2>8. asset' = WithUnd(asset, a, Und(summaries', job', a))
    <3>1. Reconciled(rows, a, FALSE) = Und(summaries, rows, a)  BY ExactIs
    <3>2. Und(summaries', job', a) = Und(summaries, rows, a)  BY <2>5, <2>7
    <3> QED  BY <3>1, <3>2, <2>3
  <2>9. /\ asset' \in [Asset -> AssetRow] /\ SameAssets /\ UnderstandingExact'
        /\ \A b \in Asset : Ready(b)' => Ready(b)
    BY <2>5, <2>6, <2>7, <2>8, <1>2, UndSet
  <2>10. /\ job' \in [Job -> JobRow] /\ job'[j] = new /\ job'[i] = done
         /\ \A k \in Job : k # i /\ k # j => job'[k] = job[k]
    BY <2>1, <2>2, <1>3, <1>5, <1>7, <1>8
  <2>11. Typed'  BY <2>9, <2>10, <1>2 DEF Typed, linkVars, mediaVars
  <2>12. Requested'  BY <1>2, SameRequests
  <2>13. \A k \in Job : job'[k] = job[k] \/ Good(k, job'[k], asset, snapshot)
    BY <2>10, <1>7, <1>8
  <2>14. \A b \in Asset : StillToAsk(job[Ingest(b)]) => StillToAsk(job'[Ingest(b)])
    BY <2>10, <1>5, <1>10, JobNames
  <2>15. \A b \in Asset : /\ b \in reused' => HasSummary(summaries', b)
                          /\ HasSummary(summaries', b) => HasSummary(summaries, b) \/ Existing(b)
                          /\ HasSummary(summaries, b) => HasSummary(summaries', b)
    BY <1>2, SameSummaries DEF mediaVars
  <2> QED  BY <2>7, <2>9, <2>11, <2>12, <2>13, <2>14, <2>15, Step
<1> QED  BY <1>12, <1>13

-----------------------------------------------------------------------------
(* A snapshot that is reused. *)

LEMMA Materialized ==
    ASSUME MaterialsInv, NEW a \in Asset, Existing(a), Materialize(a),
           \A s, b : Und(s, job', b) = Und(s, job, b)
    PROVE  /\ asset' \in [Asset -> AssetRow] /\ SameAssets /\ UnderstandingExact'
           /\ \A b \in Asset : Ready(b)' => Ready(b)
           /\ \A b \in Asset : /\ b \in reused' => HasSummary(summaries', b)
                               /\ HasSummary(summaries', b) => HasSummary(summaries, b) \/ Existing(b)
                               /\ HasSummary(summaries, b) => HasSummary(summaries', b)
           /\ HasSummary(summaries', a) /\ UNCHANGED <<snapshot, source, missed>>
<1> DEFINE s == [of |-> a, from |-> <<"gen", snapshot[ContentOf(a)]>>]
           served == asset[a].und = "ready" /\ (s \in summaries \/ source[ContentOf(a)] = a)
<1>1. Typed /\ Known /\ UnderstandingExact  BY DEF MaterialsInv
<1>2. asset[a].und = Und(summaries, job, a)  BY <1>1, ExactIs DEF Existing
<1>3. CASE served
  <2>1. HasSummary(summaries, a)  BY <1>2, <1>3 DEF Und
  <2>2. UNCHANGED <<asset, mediaVars>>  BY <1>3 DEF Materialize
  <2>3. UNCHANGED <<snapshot, source, summaries, reused, missed>>  BY <2>2 DEF mediaVars
  <2>4. UnderstandingExact'  BY <1>1, <2>2, <2>3, ExactIs
  <2> QED  BY <1>1, <2>1, <2>2, <2>3, <2>4, SameSummaries DEF Typed, SameAssets, Ready
<1>4. CASE ~ served
  <2>1. /\ summaries' = summaries \cup {s}
        /\ asset' = [asset EXCEPT ![a].und = IF a \in reused THEN asset[a].und ELSE "ready"]
        /\ reused' = reused \cup {a} /\ UNCHANGED <<snapshot, source, missed>>
    BY <1>4 DEF Materialize
  <2>2. s.of = a  OBVIOUS
  <2> HIDE DEF s, served
  <2>3. \A b : HasSummary(summaries', b) <=> HasSummary(summaries, b) \/ b = a
    BY <2>1, <2>2 DEF HasSummary
  <2>4. (IF a \in reused THEN asset[a].und ELSE "ready") = "ready"
    BY <1>1, <1>2 DEF Known, Und
  <2>5. Und(summaries', job', a) = "ready"  BY <2>3 DEF Und
  <2>6. asset' = WithUnd(asset, a, Und(summaries', job', a))
    BY <2>1, <2>4, <2>5 DEF WithUnd
  <2>7. ASSUME NEW b \in Asset, b # a
        PROVE  Und(summaries', job', b) = Und(summaries, job, b)
    <3>1. Und(summaries, job', b) = Und(summaries, job, b)  OBVIOUS
    <3>2. Und(summaries', job', b) = Und(summaries, job', b)  BY <2>3, <2>7 DEF Und
    <3> QED  BY <3>1, <3>2
  <2>8. /\ asset' \in [Asset -> AssetRow] /\ SameAssets /\ UnderstandingExact'
        /\ \A b \in Asset : Ready(b)' => Ready(b)
    BY <2>6, <2>7, <1>1, UndSet
  <2>9. \A b \in Asset : /\ b \in reused' => HasSummary(summaries', b)
                         /\ HasSummary(summaries', b) => HasSummary(summaries, b) \/ Existing(b)
                         /\ HasSummary(summaries, b) => HasSummary(summaries', b)
    BY <1>1, <2>1, <2>3 DEF Known
  <2> QED  BY <2>1, <2>3, <2>8, <2>9
<1> QED  BY <1>3, <1>4

LEMMA ReuseStep ==
    ASSUME MaterialsInv, NEW j \in Job, Reuse(j)
    PROVE  MaterialsInv'
<1>1. job[j].status = "running"  BY DEF Reuse, At
<1>2. /\ Typed /\ Goto(j, "done") /\ Materialize(job[j].of) /\ UNCHANGED linkVars
  BY DEF MaterialsInv, Reuse
<1>3. /\ job[j].of \in Asset /\ Existing(job[j].of)
      /\ \A b \in Asset : j = Ingest(b) => job[j].of = b
  BY <1>1, PlaceOf
<1>4. "done" \in Place  BY DEF Place
<1>5. \A s, b : Und(s, job', b) = Und(s, job, b)  BY <1>2, <1>4, GotoQuiet
<1>6. /\ asset' \in [Asset -> AssetRow] /\ SameAssets /\ UnderstandingExact'
      /\ \A b \in Asset : Ready(b)' => Ready(b)
      /\ \A b \in Asset : /\ b \in reused' => HasSummary(summaries', b)
                          /\ HasSummary(summaries', b) => HasSummary(summaries, b) \/ Existing(b)
                          /\ HasSummary(summaries, b) => HasSummary(summaries', b)
      /\ HasSummary(summaries', job[j].of) /\ UNCHANGED <<snapshot, source, missed>>
  BY <1>2, <1>3, <1>5, Materialized
<1>7. UNCHANGED <<linkVars, snapshot, source, missed>>  BY <1>2, <1>6
<1>8. \A b \in Asset : j = Ingest(b) => HasSummary(summaries', b)  BY <1>3, <1>6
<1> QED  BY <1>1, <1>2, <1>4, <1>6, <1>7, <1>8, GotoStep

LEMMA BackfillStep ==
    ASSUME MaterialsInv, NEW a \in Asset, Backfill(a)
    PROVE  MaterialsInv'
<1>1. asset[a].usable /\ UNCHANGED linkVars  BY DEF Backfill, Ready
<1>2. Typed /\ Known /\ Requested  BY DEF MaterialsInv
<1>3. CASE snapshot[ContentOf(a)] > 0
  <2>1. Materialize(a) /\ UNCHANGED job  BY <1>3 DEF Backfill
  <2>2. Existing(a)  BY <1>1, <1>2 DEF Known
  <2>3. \A s, b : Und(s, job', b) = Und(s, job, b)  BY <2>1
  <2>4. /\ asset' \in [Asset -> AssetRow] /\ SameAssets /\ UnderstandingExact'
        /\ \A b \in Asset : Ready(b)' => Ready(b)
        /\ \A b \in Asset : /\ b \in reused' => HasSummary(summaries', b)
                            /\ HasSummary(summaries', b) => HasSummary(summaries, b) \/ Existing(b)
                            /\ HasSummary(summaries, b) => HasSummary(summaries', b)
        /\ UNCHANGED <<snapshot, source, missed>>
    BY <2>1, <2>2, <2>3, Materialized
  <2>5. Typed'  BY <1>1, <1>2, <2>1, <2>4 DEF Typed, linkVars
  <2>6. Requested'  BY <1>1, <1>2, SameRequests
  <2>7. \A b \in Asset : StillToAsk(job[Ingest(b)]) => StillToAsk(job'[Ingest(b)])  BY <2>1
  <2>8. \A i \in Job : job'[i] = job[i]  BY <2>1
  <2> QED  BY <2>4, <2>5, <2>6, <2>7, <2>8, Step
<1>4. CASE ~ snapshot[ContentOf(a)] > 0
  <2>1. EnqueueBase(a) /\ UNCHANGED mediaVars  BY <1>4 DEF Backfill
  <2> QED  BY <2>1, <1>1, EnqueueBaseStep
<1> QED  BY <1>3, <1>4

-----------------------------------------------------------------------------
(* A snapshot that is published. *)

LEMMA PublishStep ==
    ASSUME MaterialsInv, NEW j \in Job, Publish(j)
    PROVE  /\ MaterialsInv'
           /\ \A c \in Content : snapshot[c] # snapshot'[c] \/ source[c] # source'[c]
                  => snapshot'[c] = snapshot[c] + 1
<1> DEFINE a == job[j].of
           c == ContentOf(a)
           g == job[j].gen
           seen == job[j].seen
           from(b) == IF b = a THEN j ELSE <<"gen", g>>
           r == [job[j] EXCEPT !.pc = "done", !.gen = 0, !.seen = {}]
<1>1. /\ job[j].status = "running" /\ job[j].pc = "publish" /\ g > snapshot[c]
      /\ snapshot' = [snapshot EXCEPT ![c] = g] /\ source' = [source EXCEPT ![c] = a]
      /\ summaries' = summaries \cup {[of |-> b, from |-> from(b)] : b \in seen}
      /\ asset' = [b \in Asset |-> IF b \in seen THEN [asset[b] EXCEPT !.und = "ready"] ELSE asset[b]]
      /\ missed' = missed \cup (OfContent(c) \ seen)
      /\ job' = Put(j, r) /\ UNCHANGED <<linkVars, reused>>
  BY DEF Publish, At, Fresh, Served
<1>2. Typed /\ Known /\ Requested /\ Placed /\ UnderstandingExact /\ RaceOnly
  BY DEF MaterialsInv
<1>3. a \in Asset /\ c \in Content /\ j \in UnderstandJob  BY <1>1, PlaceOf
<1>4. job[j] \in JobRow /\ Good(j, job[j], asset, snapshot)  BY <1>2 DEF Typed, Placed
<1>5. g \in Nat /\ seen \subseteq Asset  BY <1>4 DEF JobRow
<1>6. g <= snapshot[c] + 1  BY <1>1, <1>4 DEF Good, ContentOf
<1>7. \A b \in seen : Existing(b)  BY <1>4 DEF Good, Existing
<1>8. snapshot \in [Content -> Nat] /\ source \in [Content -> Asset \cup {NoAsset}]
      /\ asset \in [Asset -> AssetRow] /\ job \in [Job -> JobRow]
  BY <1>2 DEF Typed
<1>9. /\ r \in JobRow /\ r.pc = "done" /\ r.status = job[j].status /\ r.of = job[j].of
      /\ r.tries = job[j].tries /\ r.seen = {}
  BY <1>4 DEF JobRow, Place
<1> HIDE DEF c, g, seen, r
<1>10. g = snapshot[c] + 1  BY <1>1, <1>3, <1>5, <1>6, <1>8
<1>11. /\ snapshot' \in [Content -> Nat] /\ snapshot'[c] = g
       /\ \A d \in Content : d # c => snapshot'[d] = snapshot[d] /\ source'[d] = source[d]
  <2>1. /\ snapshot' = [snapshot EXCEPT ![c] = g] /\ source' = [source EXCEPT ![c] = a]
        /\ c \in Content /\ g \in Nat
    BY <1>1, <1>3, <1>5
  <2> QED  BY <2>1, <1>8
<1>12. source' \in [Content -> Asset \cup {NoAsset}]  BY <1>1, <1>3, <1>8
<1>13. \A b \in Asset : asset'[b] = IF b \in seen THEN [asset[b] EXCEPT !.und = "ready"] ELSE asset[b]
  BY <1>1
<1>14. ASSUME NEW b \in Asset
       PROVE  /\ asset'[b] \in AssetRow /\ asset'[b].content = asset[b].content
              /\ asset'[b].ingest = asset[b].ingest /\ asset'[b].usable = asset[b].usable
              /\ asset'[b].und = IF b \in seen THEN "ready" ELSE asset[b].und
  <2>1. asset[b] \in AssetRow  BY <1>8
  <2>2. CASE b \in seen
    <3>1. asset'[b] = [asset[b] EXCEPT !.und = "ready"]  BY <2>2, <1>13
    <3> QED  BY <2>1, <2>2, <3>1 DEF AssetRow
  <2>3. CASE b \notin seen  BY <2>1, <2>3, <1>13
  <2> QED  BY <2>2, <2>3
<1>15. asset' \in [Asset -> AssetRow]
  <2>1. asset' = [b \in Asset |-> asset'[b]]  BY <1>1
  <2> QED  BY <2>1, <1>14
<1>16. /\ job' \in [Job -> JobRow] /\ job'[j] = r /\ \A i \in Job : i # j => job'[i] = job[i]
  BY <1>1, <1>2, <1>9, PutRows
<1>17. Typed'  BY <1>1, <1>2, <1>11, <1>12, <1>15, <1>16 DEF Typed, linkVars
<1>18. Older
  <2>1. \A d \in Content : snapshot'[d] \in Nat /\ snapshot[d] <= snapshot'[d]
    <3>1. ASSUME NEW d \in Content
          PROVE  snapshot'[d] \in Nat /\ snapshot[d] <= snapshot'[d]
      <4>1. snapshot[d] \in Nat /\ snapshot'[d] \in Nat  BY <1>8, <1>11
      <4>2. d = c => snapshot'[d] = snapshot[d] + 1  BY <1>10, <1>11
      <4>3. d # c => snapshot'[d] = snapshot[d]  BY <1>11
      <4> QED  BY <4>1, <4>2, <4>3
    <3> QED  BY <3>1
  <2>2. \A b \in Asset : Existing(b) => /\ asset'[b].ingest # "absent"
                                        /\ asset'[b].content = asset[b].content
    BY <1>14 DEF Existing
  <2> QED  BY <2>1, <2>2 DEF Older
<1>19. Good(j, r, asset, snapshot)
  BY <1>1, <1>3, <1>4, <1>9 DEF Good, Open
<1>20. Placed'  BY <1>2, <1>9, <1>16, <1>18, <1>19, PlacedKept
<1>21. \A b \in Asset : HasSummary(summaries', b) <=> HasSummary(summaries, b) \/ b \in seen
  <2>1. \A x \in summaries' : x \in summaries \/ \E b \in seen : x = [of |-> b, from |-> from(b)]
    BY <1>1
  <2>2. \A b \in seen : [of |-> b, from |-> from(b)] \in summaries'  BY <1>1
  <2>3. \A b : [of |-> b, from |-> from(b)].of = b  OBVIOUS
  <2>4. summaries \subseteq summaries'  BY <1>1
  <2> HIDE DEF from
  <2> QED  BY <2>1, <2>2, <2>3, <2>4 DEF HasSummary
<1>22. SameAssets  BY <1>14 DEF SameAssets
<1>23. Known'
  <2>1. \A b \in Asset : /\ b \in reused' => HasSummary(summaries', b)
                         /\ HasSummary(summaries', b) => HasSummary(summaries, b) \/ Existing(b)
    BY <1>1, <1>2, <1>7, <1>21 DEF Known
  <2> QED  BY <2>1, <1>2, <1>22, KnownKept
<1>24. Requested'
  <2>1. UNCHANGED linkVars  BY <1>1
  <2> QED  BY <2>1, <1>2, SameRequests
<1>25. UnderstandingExact'
  <2>1. r.of = job[j].of /\ r.status = job[j].status  BY <1>9
  <2>2. \A s, b : Und(s, [job EXCEPT ![j] = r], b) = Und(s, job, b)
    BY <2>1, <1>8, <1>9, QuietRows
  <2>3. job' = [job EXCEPT ![j] = r]  BY <1>1 DEF Put
  <2>4. \A s, b : Und(s, job', b) = Und(s, job, b)  BY <2>2, <2>3
  <2>5. ASSUME NEW b \in Asset, asset'[b].ingest # "absent"
        PROVE  asset'[b].und = Und(summaries', job', b)
    <3>1. CASE b \in seen
      <4>1. HasSummary(summaries', b)  BY <3>1, <1>21
      <4> QED  BY <4>1, <3>1, <1>14 DEF Und
    <3>2. CASE b \notin seen
      <4>1. asset[b].und = Und(summaries, job, b)  BY <2>5, <1>2, <1>14, ExactIs
      <4>2. Und(summaries', job', b) = Und(summaries, job', b)  BY <3>2, <1>21 DEF Und
      <4>3. Und(summaries, job', b) = Und(summaries, job, b)  BY <2>4
      <4> QED  BY <4>1, <4>2, <4>3, <3>2, <1>14
    <3> QED  BY <3>1, <3>2
  <2> QED  BY <2>5, ExactIs
<1>26. RaceOnly'
  <2>1. ASSUME NEW b \in Asset, Ready(b)', snapshot'[asset'[b].content] > 0
        PROVE  HasSummary(summaries', b) \/ b \in missed' \/ StillToAsk(job'[Ingest(b)])
    <3>1. Ready(b) /\ asset'[b].content = ContentOf(b)  BY <2>1, <1>14 DEF Ready, ContentOf
    <3>2. CASE ContentOf(b) = c
      <4>1. b \in OfContent(c)  BY <3>1, <3>2 DEF OfContent
      <4> QED  BY <4>1, <1>1, <1>21
    <3>3. CASE ContentOf(b) # c
      <4>1. ContentOf(b) \in Content
        <5>1. Existing(b)  BY <3>1, <1>2 DEF Known, Ready
        <5> QED  BY <5>1, <1>2 DEF Known, ContentOf
      <4>2. snapshot[ContentOf(b)] > 0  BY <4>1, <3>1, <3>3, <2>1, <1>11
      <4>3. HasSummary(summaries, b) \/ b \in missed \/ StillToAsk(job[Ingest(b)])
        BY <4>2, <3>1, <1>2 DEF RaceOnly
      <4>4. job'[Ingest(b)] = job[Ingest(b)]  BY <1>3, <1>16, JobNames
      <4>5. missed \subseteq missed'  BY <1>1
      <4> QED  BY <4>3, <4>4, <4>5, <1>21
    <3> QED  BY <3>2, <3>3
  <2>2. RaceOnly' <=>
          \A b \in Asset : Ready(b)' /\ snapshot'[asset'[b].content] > 0 =>
              HasSummary(summaries', b) \/ b \in missed' \/ StillToAsk(job'[Ingest(b)])
    BY DEF RaceOnly, HasSummary, StillToAsk, Ingest, ContentOf
  <2> QED  BY <2>1, <2>2
<1>27. MaterialsInv'  BY <1>17, <1>20, <1>23, <1>24, <1>25, <1>26 DEF MaterialsInv
<1>28. \A d \in Content : snapshot[d] # snapshot'[d] \/ source[d] # source'[d]
           => snapshot'[d] = snapshot[d] + 1
  BY <1>10, <1>11
<1> QED  BY <1>27, <1>28

-----------------------------------------------------------------------------
(* Import and delete. *)

\* Nothing but links and requests changes.
LEMMA LinksStep ==
    ASSUME MaterialsInv, links' \subseteq Draft \X Asset, req' \in [Req -> ReqRow], Requested',
           UNCHANGED <<asset, job, mediaVars>>
    PROVE  MaterialsInv'
<1>1. /\ UNCHANGED <<asset, job, snapshot, source, summaries, reused, missed>>
      /\ Typed /\ Known /\ Placed /\ UnderstandingExact /\ RaceOnly
  BY DEF mediaVars, MaterialsInv
<1>2. Typed'  BY <1>1 DEF Typed
<1>3. Known'  BY <1>1 DEF Known, Existing, HasSummary
<1>4. Placed'  BY <1>1 DEF Placed
<1>5. UnderstandingExact'  BY <1>1, ExactIs
<1>6. RaceOnly'  BY <1>1 DEF RaceOnly, Ready, ContentOf, HasSummary, StillToAsk, Ingest
<1> QED  BY <1>2, <1>3, <1>4, <1>5, <1>6 DEF MaterialsInv

LEMMA LinkTyped ==
    ASSUME links \subseteq Draft \X Asset, NEW d \in Draft, NEW a \in Asset, AddLink(d, a)
    PROVE  links' \subseteq Draft \X Asset
BY DEF AddLink

LEMMA OverTyped ==
    ASSUME Typed, Requested, NEW r \in Req, req' = [req EXCEPT ![r].pc = "over"]
    PROVE  req' \in [Req -> ReqRow] /\ Requested'
<1> DEFINE row == [req[r] EXCEPT !.pc = "over"]
<1>1. req \in [Req -> ReqRow] /\ req[r] \in ReqRow  BY DEF Typed
<1>2. row \in ReqRow /\ row.pc = "over"  BY <1>1 DEF ReqRow
<1>3. req' = [req EXCEPT ![r] = row]  OBVIOUS
<1> HIDE DEF row
<1>4. req' \in [Req -> ReqRow]  BY <1>1, <1>2, <1>3
<1>5. req'[r] = row /\ \A q \in Req : q # r => req'[q] = req[q]  BY <1>1, <1>3
<1>6. Requested'  BY <1>2, <1>5 DEF Requested
<1> QED  BY <1>4, <1>6

LEMMA LookStep ==
    ASSUME MaterialsInv, NEW r \in Req, NEW d \in Draft, NEW f \in Content, Look(r, d, f)
    PROVE  MaterialsInv'
<1>1. PICK pc \in {"over", "link", "create"}, a \in Asset \cup {NoAsset} :
          /\ req' = [req EXCEPT ![r] = [pc |-> pc, draft |-> d, file |-> f, of |-> a]]
          /\ pc = "link" => a \in Asset
  <2>1. ImportedFrom(f) \subseteq Asset  BY DEF ImportedFrom
  <2>2. CASE req' = [req EXCEPT ![r] = [pc |-> "over", draft |-> d, file |-> f, of |-> NoAsset]]
    BY <2>2
  <2>3. CASE req' = [req EXCEPT ![r] = [pc |-> "create", draft |-> d, file |-> f, of |-> NoAsset]]
    BY <2>3
  <2>4. CASE \E a \in ImportedFrom(f) :
                req' = [req EXCEPT ![r] = [pc |-> "link", draft |-> d, file |-> f, of |-> a]]
    BY <2>1, <2>4
  <2> QED  BY <2>2, <2>3, <2>4 DEF Look
<1> DEFINE row == [pc |-> pc, draft |-> d, file |-> f, of |-> a]
<1>2. /\ row \in ReqRow /\ row.pc = pc /\ row.draft = d /\ row.file = f /\ row.of = a
  BY <1>1 DEF ReqRow
<1>3. req' = [req EXCEPT ![r] = row] /\ (pc = "link" => a \in Asset)  BY <1>1
<1> HIDE DEF row
<1>4. req \in [Req -> ReqRow] /\ Requested /\ links \subseteq Draft \X Asset
  BY DEF MaterialsInv, Typed
<1>5. req' \in [Req -> ReqRow]  BY <1>2, <1>3, <1>4
<1>6. req'[r] = row /\ \A q \in Req : q # r => req'[q] = req[q]  BY <1>3, <1>4
<1>7. Requested'
  <2>1. row.draft \in Draft /\ row.file \in Content /\ (row.pc = "link" => row.of \in Asset)
    BY <1>2, <1>3
  <2> QED  BY <2>1, <1>4, <1>6 DEF Requested
<1>8. UNCHANGED <<asset, links, job, mediaVars>>  BY DEF Look
<1> QED  BY <1>4, <1>5, <1>7, <1>8, LinksStep

LEMMA RelinkStep ==
    ASSUME MaterialsInv, NEW r \in Req, Relink(r)
    PROVE  MaterialsInv'
<1>1. /\ req[r].pc = "link" /\ AddLink(req[r].draft, req[r].of)
      /\ req' = [req EXCEPT ![r].pc = "over"] /\ UNCHANGED <<asset, job, mediaVars>>
  BY DEF Relink
<1>2. Typed /\ Requested /\ links \subseteq Draft \X Asset  BY DEF MaterialsInv, Typed
<1>3. req[r].draft \in Draft /\ req[r].of \in Asset  BY <1>1, <1>2 DEF Requested
<1>4. links' \subseteq Draft \X Asset  BY <1>1, <1>2, <1>3, LinkTyped
<1>5. req' \in [Req -> ReqRow] /\ Requested'  BY <1>1, <1>2, OverTyped
<1> QED  BY <1>1, <1>4, <1>5, LinksStep

LEMMA UnlinkStep ==
    ASSUME MaterialsInv, NEW d \in Draft, NEW a \in Asset, Unlink(d, a)
    PROVE  MaterialsInv'
<1>1. links' = links \ {<<d, a>>} /\ UNCHANGED <<asset, job, req, mediaVars>>  BY DEF Unlink
<1>2. links \subseteq Draft \X Asset /\ req \in [Req -> ReqRow] /\ Requested
  BY DEF MaterialsInv, Typed
<1>3. links' \subseteq Draft \X Asset  BY <1>1, <1>2
<1>4. Requested'  BY <1>1, <1>2 DEF Requested
<1> QED  BY <1>1, <1>2, <1>3, <1>4, LinksStep

\* The one step that brings a new asset: no job and no summary is of it yet.
LEMMA CreateStep ==
    ASSUME MaterialsInv, NEW r \in Req, NEW a \in Asset, Create(r, a)
    PROVE  MaterialsInv'
<1> DEFINE row == [content |-> req[r].file, ingest |-> "imported", usable |-> TRUE, und |-> "none"]
           j == Ingest(a)
           new == Enqueued(a)
<1>1. /\ req[r].pc = "create" /\ asset[a].ingest = "absent"
      /\ asset' = [asset EXCEPT ![a] = row] /\ AddLink(req[r].draft, a)
      /\ job' = Put(j, new) /\ req' = [req EXCEPT ![r].pc = "over"]
      /\ UNCHANGED mediaVars
  BY DEF Create
<1>2. /\ Typed /\ Known /\ Requested /\ Placed /\ UnderstandingExact /\ RaceOnly
      /\ asset \in [Asset -> AssetRow] /\ job \in [Job -> JobRow]
      /\ links \subseteq Draft \X Asset
  BY DEF MaterialsInv, Typed
<1>3. req[r].draft \in Draft /\ req[r].file \in Content  BY <1>1, <1>2 DEF Requested
<1>4. /\ row \in AssetRow /\ row.content \in Content /\ row.ingest = "imported" /\ row.und = "none"
  BY <1>3 DEF AssetRow
<1>5. j \in Job /\ j \notin UnderstandJob /\ \A b \in Asset : j = Ingest(b) => b = a  BY JobNames
<1>6. /\ new \in JobRow /\ new.of = a /\ new.status = "pending" /\ new.pc = "start"
      /\ new.tries = 0 /\ new.seen = {}
  BY FreshRows
<1>j. \A b \in Asset : Ingest(b) = j <=> b = a  BY <1>5
<1> HIDE DEF row, j, new
<1>7. /\ asset' \in [Asset -> AssetRow] /\ asset'[a] = row
      /\ \A b \in Asset : b # a => asset'[b] = asset[b]
  BY <1>1, <1>2, <1>4
<1>8. /\ job' \in [Job -> JobRow] /\ job'[j] = new /\ \A i \in Job : i # j => job'[i] = job[i]
  BY <1>1, <1>2, <1>5, <1>6, PutRows
<1>9. UNCHANGED <<snapshot, source, summaries, reused, missed>>  BY <1>1 DEF mediaVars
<1>10. links' \subseteq Draft \X Asset  BY <1>1, <1>2, <1>3, LinkTyped
<1>11. req' \in [Req -> ReqRow] /\ Requested'  BY <1>1, <1>2, OverTyped
<1>12. Typed'  BY <1>2, <1>7, <1>8, <1>9, <1>10, <1>11 DEF Typed
<1>13. ~ HasSummary(summaries, a)  BY <1>1, <1>2 DEF Known, Existing
<1>14. Known'
  <2>1. ASSUME NEW b \in Asset
        PROVE  /\ asset'[b].ingest # "absent" => asset'[b].content \in Content
               /\ asset'[b].usable => asset'[b].ingest # "absent"
               /\ HasSummary(summaries, b) => asset'[b].ingest # "absent"
    <3>1. CASE b = a  BY <3>1, <1>4, <1>7
    <3>2. CASE b # a
      <4>1. asset'[b] = asset[b]  BY <3>2, <1>7
      <4> QED  BY <4>1, <1>2 DEF Known, Existing
    <3> QED  BY <3>1, <3>2
  <2>2. \A b \in Asset : b \in reused' => HasSummary(summaries', b)
    BY <1>2, <1>9 DEF Known
  <2> QED  BY <2>1, <2>2, <1>9 DEF Known, Existing
<1>15. Placed'
  <2>1. Older
    <3>1. \A b \in Asset : Existing(b) => b # a  BY <1>1 DEF Existing
    <3>2. \A b \in Asset : Existing(b) => asset'[b] = asset[b]  BY <3>1, <1>7
    <3>3. \A c \in Content : snapshot'[c] \in Nat /\ snapshot[c] <= snapshot'[c]
      BY <1>2, <1>9 DEF Typed
    <3> QED  BY <3>2, <3>3 DEF Older, Existing
  <2>2. Good(j, new, asset', snapshot')
    <3>1. asset'[a].ingest # "absent"  BY <1>4, <1>7
    <3>2. MaxTries[j[1]] \in Nat /\ 0 < MaxTries[j[1]]  BY <1>5, JobNames
    <3> QED  BY <3>1, <3>2, <1>5, <1>6 DEF Good, Open
  <2>3. ASSUME NEW i \in Job
        PROVE  Good(i, job'[i], asset', snapshot')
    <3>1. CASE i = j  BY <3>1, <2>2, <1>8
    <3>2. CASE i # j
      <4>1. job'[i] = job[i] /\ job[i] \in JobRow /\ Good(i, job[i], asset, snapshot)
        BY <3>2, <1>2, <1>8 DEF Placed
      <4>2. Good(i, job[i], asset', snapshot')  BY <4>1, <2>1, <1>2, GoodKept
      <4> QED  BY <4>1, <4>2
    <3> QED  BY <3>1, <3>2
  <2> QED  BY <2>3 DEF Placed
<1>16. UnderstandingExact'
  <2>1. \A s, b : Und(s, [job EXCEPT ![j] = new], b) = Und(s, job, b)
    BY <1>2, <1>5, <1>6, QuietRows
  <2>2. job' = [job EXCEPT ![j] = new]  BY <1>1 DEF Put
  <2>3. \A s, b : Und(s, job', b) = Und(s, job, b)  BY <2>1, <2>2
  <2>4. Und(summaries, job, a) = "none"
    <3>1. \A i \in UnderstandJob : job[i].of = a => job[i].status = "absent"
      <4>1. ASSUME NEW i \in UnderstandJob, job[i].status # "absent"
            PROVE  job[i].of # a
        <5>1. i \in Job  BY JobNames
        <5>2. Existing(job[i].of)  BY <5>1, <4>1, PlaceOf
        <5> QED  BY <5>2, <1>1 DEF Existing
      <4> QED  BY <4>1
    <3>2. ~ ActiveFor(job, a) /\ ~ FailedFor(job, a)  BY <3>1 DEF ActiveFor, FailedFor, Open
    <3> QED  BY <3>2, <1>13 DEF Und
  <2>5. ASSUME NEW b \in Asset, asset'[b].ingest # "absent"
        PROVE  asset'[b].und = Und(summaries', job', b)
    <3>1. Und(summaries', job', b) = Und(summaries, job, b)  BY <2>3, <1>9
    <3>2. CASE b = a  BY <3>1, <3>2, <2>4, <1>4, <1>7
    <3>3. CASE b # a
      <4>1. asset'[b] = asset[b]  BY <3>3, <1>7
      <4>2. asset[b].und = Und(summaries, job, b)  BY <4>1, <2>5, <1>2, ExactIs
      <4> QED  BY <4>1, <4>2, <3>1
    <3> QED  BY <3>2, <3>3
  <2> QED  BY <2>5, ExactIs
<1>17. RaceOnly'
  <2>1. ASSUME NEW b \in Asset, Ready(b)', snapshot'[asset'[b].content] > 0
        PROVE  HasSummary(summaries', b) \/ b \in missed' \/ StillToAsk(job'[Ingest(b)])
    <3>1. b # a  BY <2>1, <1>4, <1>7 DEF Ready
    <3>2. asset'[b] = asset[b]  BY <3>1, <1>7
    <3>3. Ready(b) /\ snapshot[ContentOf(b)] > 0  BY <2>1, <3>2, <1>9 DEF Ready, ContentOf
    <3>4. job'[Ingest(b)] = job[Ingest(b)]  BY <3>1, <1>8, <1>j, JobNames
    <3>5. HasSummary(summaries, b) \/ b \in missed \/ StillToAsk(job[Ingest(b)])
      BY <3>3, <1>2 DEF RaceOnly
    <3> QED  BY <3>4, <3>5, <1>9
  <2>2. RaceOnly' <=>
          \A b \in Asset : Ready(b)' /\ snapshot'[asset'[b].content] > 0 =>
              HasSummary(summaries', b) \/ b \in missed' \/ StillToAsk(job'[Ingest(b)])
    BY DEF RaceOnly, HasSummary, StillToAsk, Ingest, ContentOf
  <2> QED  BY <2>1, <2>2
<1> QED  BY <1>11, <1>12, <1>14, <1>15, <1>16, <1>17 DEF MaterialsInv

-----------------------------------------------------------------------------
(* The invariant and what follows. *)

LEMMA InitHolds == Init => MaterialsInv
<1> SUFFICES ASSUME Init  PROVE MaterialsInv
  OBVIOUS
<1> DEFINE row == [content |-> NoContent, ingest |-> "absent", usable |-> FALSE, und |-> "none"]
           ask == [pc |-> "new", draft |-> NoAsset, file |-> NoContent, of |-> NoAsset]
<1>1. row \in AssetRow /\ row.ingest = "absent" /\ row.usable = FALSE  BY DEF AssetRow
<1>2. ask \in ReqRow /\ ask.pc = "new"  BY DEF ReqRow
<1>3. /\ asset = [a \in Asset |-> row] /\ req = [r \in Req |-> ask]
      /\ job = [j \in Job |-> NoRow] /\ links = {} /\ summaries = {} /\ reused = {}
      /\ snapshot = [c \in Content |-> 0] /\ source = [c \in Content |-> NoAsset]
  BY DEF Init
<1> HIDE DEF row, ask
<1>4. /\ \A a \in Asset : asset[a].ingest = "absent" /\ asset[a].usable = FALSE
      /\ \A r \in Req : req[r].pc = "new"
      /\ \A j \in Job : job[j] = NoRow
  BY <1>1, <1>2, <1>3
<1>5. Typed  BY <1>1, <1>2, <1>3, FreshRows DEF Typed
<1>6. \A a : ~ HasSummary(summaries, a)  BY <1>3 DEF HasSummary
<1>7. Known  BY <1>3, <1>4, <1>6 DEF Known, Existing
<1>8. Requested  BY <1>4 DEF Requested
<1>9. Placed
  <2>1. ASSUME NEW j \in Job
        PROVE  Good(j, NoRow, asset, snapshot)
    <3>1. MaxTries[j[1]] \in Nat  BY JobNames
    <3> QED  BY <3>1, FreshRows DEF Good, Open
  <2> QED  BY <2>1, <1>4 DEF Placed
<1>10. UnderstandingExact  BY <1>4 DEF UnderstandingExact
<1>11. RaceOnly  BY <1>4 DEF RaceOnly, Ready
<1> QED  BY <1>5, <1>7, <1>8, <1>9, <1>10, <1>11 DEF MaterialsInv

\* Generations move one by one.
OneOn == \A c \in Content : (snapshot[c] # snapshot'[c] \/ source[c] # source'[c])
             => snapshot'[c] = snapshot[c] + 1

LEMMA SameGenerations ==
    ASSUME UNCHANGED <<snapshot, source>>
    PROVE  OneOn
BY DEF OneOn

LEMMA NextKeeps ==
    ASSUME MaterialsInv, [Next]_vars
    PROVE  MaterialsInv' /\ OneOn
<1>1. ASSUME NEW r \in Req, NEW d \in Draft, NEW f \in Content, Look(r, d, f)
      PROVE  MaterialsInv' /\ OneOn
  BY <1>1, LookStep, SameGenerations DEF Look, mediaVars
<1>2. ASSUME NEW r \in Req, Relink(r)
      PROVE  MaterialsInv' /\ OneOn
  BY <1>2, RelinkStep, SameGenerations DEF Relink, mediaVars
<1>3. ASSUME NEW r \in Req, NEW a \in Asset, Create(r, a)
      PROVE  MaterialsInv' /\ OneOn
  BY <1>3, CreateStep, SameGenerations DEF Create, mediaVars
<1>4. ASSUME NEW d \in Draft, NEW a \in Asset, Unlink(d, a) \/ DetectShots(d, a) \/ ForceRefresh(d, a)
      PROVE  MaterialsInv' /\ OneOn
  <2>1. CASE Unlink(d, a)  BY <2>1, UnlinkStep, SameGenerations DEF Unlink, mediaVars
  <2>2. CASE DetectShots(d, a)
    BY <2>2, ToolSteps, SameGenerations DEF DetectShots, mediaVars
  <2>3. CASE ForceRefresh(d, a)
    BY <2>3, ToolSteps, SameGenerations DEF ForceRefresh, mediaVars
  <2> QED  BY <1>4, <2>1, <2>2, <2>3
<1>5. ASSUME NEW j \in Job, Claim(j) \/ AttemptEnds(j) \/ CancelJob(j) \/ Succeed(j)
      PROVE  MaterialsInv' /\ OneOn
  <2>1. CASE Claim(j)  BY <2>1, ClaimStep, SameGenerations DEF Claim, mediaVars
  <2>2. CASE AttemptEnds(j)
    <3>1. UNCHANGED mediaVars  BY <2>2 DEF AttemptEnds
    <3> QED  BY <3>1, <2>2, AttemptEndsStep, SameGenerations DEF mediaVars
  <2>3. CASE CancelJob(j)  BY <2>3, CancelStep, SameGenerations DEF CancelJob, mediaVars
  <2>4. CASE Succeed(j)  BY <2>4, SucceedStep, SameGenerations DEF Succeed, mediaVars
  <2> QED  BY <1>5, <2>1, <2>2, <2>3, <2>4
<1>6. ASSUME NEW a \in Asset, Materialize(a)
      PROVE  UNCHANGED <<snapshot, source>>
  <2> DEFINE s == [of |-> a, from |-> <<"gen", snapshot[ContentOf(a)]>>]
             served == asset[a].und = "ready" /\ (s \in summaries \/ source[ContentOf(a)] = a)
  <2>1. CASE served  BY <2>1, <1>6 DEF Materialize, mediaVars
  <2>2. CASE ~ served  BY <2>2, <1>6 DEF Materialize
  <2> QED  BY <2>1, <2>2
<1>7. ASSUME NEW j \in Job,
             Reuse(j) \/ Consult(j) \/ Started(j) \/ AnalysisFails(j) \/ PublishRead(j) \/ Publish(j)
      PROVE  MaterialsInv' /\ OneOn
  <2>1. CASE Reuse(j)
    <3>1. job[j].of \in Asset  BY <2>1, PlaceOf DEF Reuse, At
    <3>2. Materialize(job[j].of)  BY <2>1 DEF Reuse
    <3>3. UNCHANGED <<snapshot, source>>  BY <3>1, <3>2, <1>6
    <3> QED  BY <3>3, <2>1, ReuseStep, SameGenerations
  <2>2. CASE Consult(j)
    <3>1. UNCHANGED mediaVars  BY <2>2 DEF Consult
    <3> QED  BY <3>1, <2>2, ConsultStep, SameGenerations DEF mediaVars
  <2>3. CASE Started(j)  BY <2>3, StartedStep, SameGenerations DEF Started, mediaVars
  <2>4. CASE AnalysisFails(j)
    BY <2>4, AnalysisFailsStep, SameGenerations DEF AnalysisFails, mediaVars
  <2>5. CASE PublishRead(j)
    <3>1. UNCHANGED mediaVars  BY <2>5 DEF PublishRead
    <3> QED  BY <3>1, <2>5, PublishReadStep, SameGenerations DEF mediaVars
  <2>6. CASE Publish(j)  BY <2>6, PublishStep DEF OneOn
  <2> QED  BY <1>7, <2>1, <2>2, <2>3, <2>4, <2>5, <2>6
<1>8. ASSUME NEW a \in Asset, Probe(a) \/ Proxy(a) \/ Ensure(a) \/ EnsureJob(a) \/ Backfill(a)
      PROVE  MaterialsInv' /\ OneOn
  <2>1. CASE Probe(a)  BY <2>1, ProbeStep, SameGenerations DEF Probe, mediaVars
  <2>2. CASE Proxy(a)  BY <2>2, ProxyStep, SameGenerations DEF Proxy, mediaVars
  <2>3. CASE Ensure(a)
    <3>1. UNCHANGED mediaVars  BY <2>3 DEF Ensure
    <3> QED  BY <3>1, <2>3, EnsureStep, SameGenerations DEF mediaVars
  <2>4. CASE EnsureJob(a)
    <3>1. UNCHANGED mediaVars  BY <2>4 DEF EnsureJob
    <3> QED  BY <3>1, <2>4, EnsureJobStep, SameGenerations DEF mediaVars
  <2>5. CASE Backfill(a)
    <3>1. UNCHANGED <<snapshot, source>>  BY <2>5, <1>6 DEF Backfill, mediaVars
    <3> QED  BY <3>1, <2>5, BackfillStep, SameGenerations
  <2> QED  BY <1>8, <2>1, <2>2, <2>3, <2>4, <2>5
<1>9. CASE UNCHANGED vars
  BY <1>9, StutterStep, SameGenerations DEF vars
<1> QED  BY <1>1, <1>2, <1>3, <1>4, <1>5, <1>7, <1>8, <1>9 DEF Next

\* Whatever workers, tools and imports do in whatever order, crashes and retries
\* included: rows are well formed, the state shown for an asset is that of its
\* summaries and jobs, and a ready asset without a summary is one a publication
\* did not know of or one that has not asked yet.
THEOREM MaterialsInvariant == Spec => []MaterialsInv
<1>1. MaterialsInv /\ [Next]_vars => MaterialsInv'  BY NextKeeps
<1> QED  BY <1>1, InitHolds, PTL DEF Spec

LEMMA ExactFollows == MaterialsInv => MaterialsExact
<1> SUFFICES ASSUME MaterialsInv  PROVE MaterialsExact
  OBVIOUS
<1>1. Typed /\ Placed /\ UnderstandingExact /\ RaceOnly  BY DEF MaterialsInv
<1>2. ASSUME NEW j \in Job
      PROVE  /\ job[j].status \in Open \cup {"absent", "succeeded", "failed", "cancelled"}
             /\ job[j].tries \in 0 .. MaxTries[j[1]]
             /\ job[j].pc \in Place
  <2>1. job[j] \in JobRow  BY <1>1 DEF Typed
  <2>2. job[j].tries \in Nat /\ job[j].pc \in Place
        /\ job[j].status \in Open \cup {"absent", "succeeded", "failed", "cancelled"}
    BY <2>1 DEF JobRow
  <2>3. job[j].tries <= MaxTries[j[1]]  BY <1>1 DEF Placed, Good
  <2>4. MaxTries[j[1]] \in Nat  BY JobNames
  <2> QED  BY <2>2, <2>3, <2>4
<1>3. TypeOK
  <2>1. /\ asset \in [Asset -> AssetRow] /\ links \subseteq Draft \X Asset
        /\ snapshot \in [Content -> Nat] /\ source \in [Content -> Asset \cup {NoAsset}]
    BY <1>1 DEF Typed
  <2> QED  BY <2>1, <1>2 DEF TypeOK, AssetRow, Place
<1>4. OnlyTheRaceMisses
  <2>1. ASSUME NEW c \in Content, snapshot[c] > 0, NEW a \in OfContent(c)
        PROVE  HasSummary(summaries, a) \/ a \in missed \/ job[Ingest(a)].status # "succeeded"
    <3>1. a \in Asset /\ Ready(a) /\ ContentOf(a) = c  BY DEF OfContent
    <3> QED  BY <2>1, <3>1, <1>1 DEF RaceOnly, StillToAsk
  <2> QED  BY <2>1 DEF OnlyTheRaceMisses
<1> QED  BY <1>1, <1>3, <1>4 DEF MaterialsExact

\* Every step leaves what is shown of the materials exact and publishes at most
\* the next generation of a content's index, for any number of assets that share
\* their bytes and any number of refreshes.
THEOREM MaterialsStaySound == Spec => MaterialsSound
<1>1. ASSUME MaterialsInv, [Next]_vars
      PROVE  [MaterialsExact']_vars /\ [OneOn]_vars
  <2>1. MaterialsInv' /\ OneOn  BY <1>1, NextKeeps
  <2>2. MaterialsExact'  BY <2>1, ExactFollows, PTL
  <2> QED  BY <2>1, <2>2
<1>2. MaterialsInv /\ [Next]_vars => [MaterialsExact']_vars /\ [OneOn]_vars  BY <1>1
<1>3. Spec => [][MaterialsExact']_vars /\ [][OneOn]_vars
  BY <1>2, MaterialsInvariant, PTL DEF Spec
<1>4. [][OneOn]_vars <=> EachGenerationOnce  BY DEF OneOn, EachGenerationOnce
<1> QED  BY <1>3, <1>4 DEF MaterialsSound
=============================================================================
