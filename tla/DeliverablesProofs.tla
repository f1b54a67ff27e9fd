-------------------------- MODULE DeliverablesProofs --------------------------
(***************************************************************************)
(* Proofs about Deliverables for any drafts, callers, renderers, documents *)
(* and bounds.                                                             *)
(***************************************************************************)
EXTENDS Deliverables, SequenceTheorems, TLAPS

-----------------------------------------------------------------------------
(* The inductive invariant. *)

Kinds == {"preview", "export"}
DraftRow == [here : BOOLEAN, version : Nat, checked : BOOLEAN,
             preview : Nat, viewed : Nat, export : Nat]
Statuses == {"pending", "running", "succeeded", "failed", "cancelled"}
JobRow == [kind : Kinds, draft : Draft, version : Nat, retry : Nat,
           status : Statuses]
WorkRow == [kind : Kinds, job : Nat, draft : Draft, version : Nat, content : Content]
CallRow == [pc : {"refuse", "enqueue", "confirm", "try", "apply"}, draft : Draft,
            version : Nat, retry : Nat, same : BOOLEAN]

\* The tables have their shape.
Typed ==
    /\ draft \in [Draft -> DraftRow] /\ jobs \in Seq(JobRow) /\ works \subseteq WorkRow
    /\ call \in [Caller -> {Idle} \cup CallRow]
    /\ docs = [d \in Draft |-> docs[d]] /\ render = [p \in Renderer |-> render[p]]

\* A draft has no document of a version to come, and has the one in force.
Versioned ==
    \A d \in Draft :
        /\ \A v \in DOMAIN docs[d] : /\ v \in Nat /\ v > 0 /\ v <= draft[d].version
                                     /\ docs[d][v] \in Content
        /\ draft[d].here /\ draft[d].version > 0 => draft[d].version \in DOMAIN docs[d]
        /\ ~ draft[d].here => draft[d].version = 0

Stored(d, v) == draft[d].here /\ v \in DOMAIN docs[d]

\* Jobs and works are of drafts there are.
JobsStored == \A i \in DOMAIN jobs : Stored(jobs[i].draft, jobs[i].version)
WorksStored ==
    \A w \in works : /\ w.job \in DOMAIN jobs /\ draft[w.draft].here
                     /\ w.version <= draft[w.draft].version
RendersJobs == \A p \in Renderer : render[p] # 0 => render[p] \in DOMAIN jobs

\* What a retry is of: a lost job of the target.
Retried(i, kind, d, v) == i \in DOMAIN jobs /\ SameTarget(i, kind, d, v) /\ Lost(i)

\* The jobs of a target are a chain from the one that is no retry: each other is
\* the retry of an earlier one, and each but the last has been retried.
Chained ==
    \A i \in DOMAIN jobs :
        LET Mate(j) == SameTarget(j, jobs[i].kind, jobs[i].draft, jobs[i].version) IN
        /\ jobs[i].retry # 0 =>
             /\ Retried(jobs[i].retry, jobs[i].kind, jobs[i].draft, jobs[i].version)
             /\ jobs[i].retry < i
             /\ \E j \in DOMAIN jobs : Mate(j) /\ jobs[j].retry = 0
        /\ \A j \in DOMAIN jobs : i < j /\ Mate(j) =>
             \E k \in DOMAIN jobs : Mate(k) /\ jobs[k].retry = i

\* What a call holds is of a version stored, and a retry of a lost job; an agent's
\* call that is not stale is of the version in force.
CallsTrue ==
    \A c \in Caller : call[c] # Idle =>
        /\ Stored(call[c].draft, call[c].version)
        /\ call[c].retry # 0 =>
             /\ call[c].pc = "enqueue"
                  => Retried(call[c].retry, "preview", call[c].draft, call[c].version)
             /\ call[c].pc \in {"try", "apply"}
                  => Retried(call[c].retry, "export", call[c].draft, call[c].version)
        /\ call[c].pc = "enqueue" /\ call[c].same => call[c].version = draft[call[c].draft].version

DeliveryInv ==
    /\ Typed /\ Versioned /\ JobsStored /\ WorksStored /\ RendersJobs /\ Chained /\ CallsTrue
    /\ ShowsItsVersion /\ OwnWorks /\ DoneIsDelivered

-----------------------------------------------------------------------------
(* Rows that move. *)

LEMMA JobRows ==
    ASSUME Typed
    PROVE  /\ Len(jobs) \in Nat /\ DOMAIN jobs = 1 .. Len(jobs)
           /\ \A i \in DOMAIN jobs : /\ jobs[i] \in JobRow /\ i \in Nat /\ i > 0
                                     /\ jobs[i].draft \in Draft /\ jobs[i].kind \in Kinds
                                     /\ jobs[i].version \in Nat /\ jobs[i].retry \in Nat
<1>1. jobs \in Seq(JobRow)  BY DEF Typed
<1>2. Len(jobs) \in Nat /\ DOMAIN jobs = 1 .. Len(jobs)  BY <1>1
<1>3. \A i \in DOMAIN jobs : jobs[i] \in JobRow /\ i \in Nat /\ i > 0  BY <1>1, <1>2
<1>4. \A i \in DOMAIN jobs : /\ jobs[i].draft \in Draft /\ jobs[i].kind \in Kinds
                             /\ jobs[i].version \in Nat /\ jobs[i].retry \in Nat
  BY <1>3 DEF JobRow
<1> QED  BY <1>2, <1>3, <1>4

LEMMA JobAppended ==
    ASSUME Typed, NEW row \in JobRow, jobs' = Append(jobs, row)
    PROVE  LET n == Len(jobs) + 1 IN
           /\ jobs' \in Seq(JobRow) /\ DOMAIN jobs' = DOMAIN jobs \cup {n}
           /\ n \in Nat /\ n \notin DOMAIN jobs /\ jobs'[n] = row
           /\ \A i \in DOMAIN jobs : jobs'[i] = jobs[i] /\ i < n
<1>1. jobs \in Seq(JobRow)  BY DEF Typed
<1>2. jobs' \in Seq(JobRow) /\ Len(jobs') = Len(jobs) + 1
  BY <1>1, AppendProperties
<1>3. /\ \A i \in 1 .. Len(jobs) : jobs'[i] = jobs[i]
      /\ jobs'[Len(jobs) + 1] = row
  BY <1>1, AppendProperties
<1>4. Len(jobs) \in Nat /\ DOMAIN jobs = 1 .. Len(jobs) /\ DOMAIN jobs' = 1 .. Len(jobs) + 1
  BY <1>1, <1>2
<1> QED  BY <1>2, <1>3, <1>4

LEMMA StatusMoved ==
    ASSUME Typed, NEW i \in DOMAIN jobs, NEW s \in Statuses, Status(i, s)
    PROVE  /\ jobs' \in Seq(JobRow) /\ DOMAIN jobs' = DOMAIN jobs /\ jobs'[i].status = s
           /\ \A j \in DOMAIN jobs : /\ jobs'[j].kind = jobs[j].kind
                                     /\ jobs'[j].draft = jobs[j].draft
                                     /\ jobs'[j].version = jobs[j].version
                                     /\ jobs'[j].retry = jobs[j].retry
                                     /\ j # i => jobs'[j] = jobs[j]
<1> DEFINE row == [jobs[i] EXCEPT !.status = s]
<1>1. jobs \in Seq(JobRow) /\ jobs[i] \in JobRow  BY JobRows DEF Typed
<1>2. /\ row \in JobRow /\ row.status = s /\ row.kind = jobs[i].kind /\ row.draft = jobs[i].draft
      /\ row.version = jobs[i].version /\ row.retry = jobs[i].retry
  BY <1>1 DEF JobRow
<1>3. jobs' = [jobs EXCEPT ![i] = row]  BY DEF Status
<1> HIDE DEF row
<1>4. jobs' \in Seq(JobRow) /\ DOMAIN jobs' = DOMAIN jobs
  <2>1. Len(jobs) \in Nat /\ DOMAIN jobs = 1 .. Len(jobs)  BY JobRows
  <2>2. jobs \in [1 .. Len(jobs) -> JobRow]  BY <1>1, <2>1
  <2>3. jobs' \in [1 .. Len(jobs) -> JobRow]  BY <2>1, <2>2, <1>2, <1>3
  <2> QED  BY <2>1, <2>3
<1>5. jobs'[i] = row /\ \A j \in DOMAIN jobs : j # i => jobs'[j] = jobs[j]  BY <1>1, <1>3
<1> QED  BY <1>2, <1>4, <1>5

\* Calls go on with what they hold, or end.
Goal(r) == <<r.draft, r.version, r.retry>>
Follow(new, old) ==
    /\ new \in [Caller -> {Idle} \cup CallRow]
    /\ \A c \in Caller :
         new[c] = Idle
         \/ /\ old[c] # Idle /\ Goal(new[c]) = Goal(old[c])
            /\ new[c].pc = old[c].pc \/ (new[c].pc = "apply" /\ old[c].pc = "try")
                                     \/ (new[c].pc = "try" /\ old[c].pc = "apply")
            /\ new[c].pc = "enqueue" /\ new[c].same => old[c].same

LEMMA IdleIsNoRow == Idle \notin CallRow
<1>1. \A r \in CallRow : r.pc # "idle"  BY DEF CallRow
<1>2. Idle.pc = "idle"  BY DEF Idle
<1> QED  BY <1>1, <1>2

LEMMA CallRows ==
    ASSUME Typed, NEW c \in Caller, call[c] # Idle
    PROVE  /\ call[c] \in CallRow /\ call[c].draft \in Draft /\ call[c].version \in Nat
           /\ call[c].retry \in Nat /\ call[c].same \in BOOLEAN
<1>1. call[c] \in CallRow  BY DEF Typed
<1> QED  BY <1>1 DEF CallRow

LEMMA Stays == ASSUME Typed PROVE Follow(call, call)
BY DEF Typed, Follow

\* Whoever has read the draft is stale.
LEMMA StaleCalls ==
    ASSUME Typed, NEW d
    PROVE  /\ Follow(Stale(d), call)
           /\ \A c \in Caller : Stale(d)[c] # Idle /\ Stale(d)[c].draft = d => ~ Stale(d)[c].same
<1>1. \A c \in Caller : Stale(d)[c] = IF call[c] # Idle /\ call[c].draft = d
                                      THEN [call[c] EXCEPT !.same = FALSE] ELSE call[c]
  BY DEF Stale
<1>2. ASSUME NEW c \in Caller, call[c] # Idle
      PROVE  LET r == [call[c] EXCEPT !.same = FALSE] IN
             /\ r \in CallRow /\ r.pc = call[c].pc /\ Goal(r) = Goal(call[c]) /\ r.same = FALSE
  <2>1. call[c] \in CallRow  BY <1>2, CallRows
  <2> QED  BY <2>1 DEF CallRow, Goal
<1>3. ASSUME NEW c \in Caller
      PROVE  /\ Stale(d)[c] \in {Idle} \cup CallRow
             /\ Stale(d)[c] = Idle
                \/ /\ call[c] # Idle /\ Goal(Stale(d)[c]) = Goal(call[c])
                   /\ Stale(d)[c].pc = call[c].pc
                   /\ Stale(d)[c].same => call[c].same
             /\ Stale(d)[c] # Idle /\ Stale(d)[c].draft = d => ~ Stale(d)[c].same
  <2>1. CASE call[c] # Idle /\ call[c].draft = d
    <3>1. Stale(d)[c] = [call[c] EXCEPT !.same = FALSE]  BY <2>1, <1>1
    <3> QED  BY <3>1, <2>1, <1>2
  <2>2. CASE ~ (call[c] # Idle /\ call[c].draft = d)
    <3>1. Stale(d)[c] = call[c]  BY <2>2, <1>1
    <3> QED  BY <3>1, <2>2 DEF Typed
  <2> QED  BY <2>1, <2>2
<1>4. Stale(d) \in [Caller -> {Idle} \cup CallRow]
  <2>1. Stale(d) = [c \in Caller |-> Stale(d)[c]]  BY DEF Stale
  <2> QED  BY <2>1, <1>3
<1> QED  BY <1>3, <1>4 DEF Follow

LEMMA Ended ==
    ASSUME NEW new, Follow(new, call), NEW c \in Caller
    PROVE  LET last == [new EXCEPT ![c] = Idle] IN
           /\ Follow(last, call) /\ \A b \in Caller : last[b] # Idle => last[b] = new[b]
<1> DEFINE last == [new EXCEPT ![c] = Idle]
<1>1. new \in [Caller -> {Idle} \cup CallRow]  BY DEF Follow
<1>2. /\ last \in [Caller -> {Idle} \cup CallRow] /\ last[c] = Idle
      /\ \A b \in Caller : b # c => last[b] = new[b]
  BY <1>1
<1> HIDE DEF last
<1>3. Follow(last, call)  BY <1>2 DEF Follow
<1>4. \A b \in Caller : last[b] # Idle => last[b] = new[b]  BY <1>2
<1> QED  BY <1>3, <1>4 DEF last

-----------------------------------------------------------------------------
(* What every step but a copy keeps. *)

\* Drafts stay, versions go up, documents are never changed and new ones are of
\* new versions.
DraftsGrow ==
    \A d \in Draft :
        /\ draft[d].here => draft'[d].here
        /\ draft[d].version <= draft'[d].version
        /\ \A v \in DOMAIN docs[d] : v \in DOMAIN docs'[d] /\ docs'[d][v] = docs[d][v]
        /\ \A v \in DOMAIN docs'[d] : v \in DOMAIN docs[d] \/ v > draft[d].version

\* Jobs stay what they are of, and what is lost stays lost.
JobsGrow ==
    \A i \in DOMAIN jobs :
        /\ i \in DOMAIN jobs' /\ jobs'[i].kind = jobs[i].kind /\ jobs'[i].draft = jobs[i].draft
        /\ jobs'[i].version = jobs[i].version /\ jobs'[i].retry = jobs[i].retry
        /\ jobs[i].status \in {"failed", "cancelled"} => jobs'[i].status \in {"failed", "cancelled"}

\* Whose draft gets another version is stale.
VersionsTold ==
    \A c \in Caller : call'[c] # Idle /\ call'[c].pc = "enqueue" /\ call'[c].same =>
        draft'[call'[c].draft].version = draft[call'[c].draft].version

StoredNow(d, v) == draft'[d].here /\ v \in DOMAIN docs'[d]

LEMMA StoredKept ==
    ASSUME DraftsGrow, NEW d \in Draft, NEW v, Stored(d, v)
    PROVE  StoredNow(d, v)
BY DEF DraftsGrow, Stored, StoredNow

LEMMA JobsStoredKept ==
    ASSUME Typed, JobsStored, DraftsGrow, JobsGrow,
           \A i \in DOMAIN jobs' : i \in DOMAIN jobs \/ StoredNow(jobs'[i].draft, jobs'[i].version)
    PROVE  JobsStored'
<1>1. ASSUME NEW i \in DOMAIN jobs'
      PROVE  StoredNow(jobs'[i].draft, jobs'[i].version)
  <2>1. CASE i \in DOMAIN jobs
    <3>1. Stored(jobs[i].draft, jobs[i].version)  BY <2>1 DEF JobsStored
    <3>2. jobs[i].draft \in Draft  BY <2>1, JobRows
    <3>3. StoredNow(jobs[i].draft, jobs[i].version)  BY <3>1, <3>2, StoredKept
    <3> QED  BY <3>3, <2>1 DEF JobsGrow
  <2> QED  BY <2>1
<1> QED  BY <1>1 DEF JobsStored, Stored, StoredNow

LEMMA CallsKept ==
    ASSUME Typed, CallsTrue, DraftsGrow, JobsGrow, Follow(call', call), VersionsTold
    PROVE  CallsTrue'
<1>1. ASSUME NEW c \in Caller, call'[c] # Idle
      PROVE  /\ StoredNow(call'[c].draft, call'[c].version)
             /\ call'[c].retry # 0 =>
                  LET i == call'[c].retry
                      Of(kind) == /\ i \in DOMAIN jobs' /\ jobs'[i].kind = kind
                                  /\ jobs'[i].draft = call'[c].draft
                                  /\ jobs'[i].version = call'[c].version
                                  /\ jobs'[i].status \in {"failed", "cancelled"}
                  IN /\ call'[c].pc = "enqueue" => Of("preview")
                     /\ call'[c].pc \in {"try", "apply"} => Of("export")
             /\ call'[c].pc = "enqueue" /\ call'[c].same
                  => call'[c].version = draft'[call'[c].draft].version
  <2>1. /\ call[c] # Idle /\ Goal(call'[c]) = Goal(call[c])
        /\ call'[c].pc = call[c].pc \/ (call'[c].pc = "apply" /\ call[c].pc = "try")
                                    \/ (call'[c].pc = "try" /\ call[c].pc = "apply")
        /\ call'[c].pc = "enqueue" /\ call'[c].same => call[c].same
    BY <1>1 DEF Follow
  <2>2. /\ call'[c].draft = call[c].draft /\ call'[c].version = call[c].version
        /\ call'[c].retry = call[c].retry
    BY <2>1 DEF Goal
  <2>3. call[c].draft \in Draft  BY <2>1, CallRows
  <2>4. Stored(call[c].draft, call[c].version)  BY <2>1 DEF CallsTrue
  <2>5. StoredNow(call'[c].draft, call'[c].version)  BY <2>2, <2>3, <2>4, StoredKept
  <2>6. ASSUME call'[c].retry # 0, call'[c].pc = "enqueue"
        PROVE  LET i == call'[c].retry IN
               /\ i \in DOMAIN jobs' /\ jobs'[i].kind = "preview"
               /\ jobs'[i].draft = call'[c].draft /\ jobs'[i].version = call'[c].version
               /\ jobs'[i].status \in {"failed", "cancelled"}
    <3>1. Retried(call[c].retry, "preview", call[c].draft, call[c].version)
      BY <2>1, <2>2, <2>6 DEF CallsTrue
    <3> QED  BY <3>1, <2>2 DEF Retried, SameTarget, Lost, JobsGrow
  <2>7. ASSUME call'[c].retry # 0, call'[c].pc \in {"try", "apply"}
        PROVE  LET i == call'[c].retry IN
               /\ i \in DOMAIN jobs' /\ jobs'[i].kind = "export"
               /\ jobs'[i].draft = call'[c].draft /\ jobs'[i].version = call'[c].version
               /\ jobs'[i].status \in {"failed", "cancelled"}
    <3>1. Retried(call[c].retry, "export", call[c].draft, call[c].version)
      BY <2>1, <2>2, <2>7 DEF CallsTrue
    <3> QED  BY <3>1, <2>2 DEF Retried, SameTarget, Lost, JobsGrow
  <2>8. ASSUME call'[c].pc = "enqueue", call'[c].same
        PROVE  call'[c].version = draft'[call'[c].draft].version
    <3>1. call[c].version = draft[call[c].draft].version  BY <2>1, <2>8 DEF CallsTrue
    <3> QED  BY <3>1, <2>2, <2>8, <1>1 DEF VersionsTold
  <2> QED  BY <2>5, <2>6, <2>7, <2>8
<1> QED  BY <1>1 DEF CallsTrue, Stored, StoredNow, Retried, SameTarget, Lost

\* While no work appears.
LEMMA WorksKept ==
    ASSUME Typed, Versioned, WorksStored, ShowsItsVersion, DraftsGrow, JobsGrow,
           draft' \in [Draft -> DraftRow], UNCHANGED works
    PROVE  WorksStored' /\ ShowsItsVersion'
<1>1. ASSUME NEW w \in works
      PROVE  /\ w.job \in DOMAIN jobs' /\ draft'[w.draft].here
             /\ w.version <= draft'[w.draft].version
             /\ w.version \in DOMAIN docs'[w.draft] => docs'[w.draft][w.version] = w.content
  <2>1. w \in WorkRow  BY DEF Typed
  <2>2. w.draft \in Draft /\ w.version \in Nat  BY <2>1 DEF WorkRow
  <2>3. w.job \in DOMAIN jobs /\ draft[w.draft].here /\ w.version <= draft[w.draft].version
    BY DEF WorksStored
  <2>4. draft[w.draft].version \in Nat /\ draft'[w.draft].version \in Nat
    BY <2>2 DEF Typed, DraftRow
  <2>5. draft[w.draft].version <= draft'[w.draft].version /\ draft'[w.draft].here
    BY <2>2, <2>3 DEF DraftsGrow
  <2>6. w.version <= draft'[w.draft].version  BY <2>2, <2>3, <2>4, <2>5
  <2>7. w.job \in DOMAIN jobs'  BY <2>3 DEF JobsGrow
  <2>8. ASSUME w.version \in DOMAIN docs'[w.draft]
        PROVE  docs'[w.draft][w.version] = w.content
    <3>1. w.version \in DOMAIN docs[w.draft] \/ w.version > draft[w.draft].version
      BY <2>2, <2>8 DEF DraftsGrow
    <3>2. w.version \in DOMAIN docs[w.draft]  BY <3>1, <2>2, <2>3, <2>4
    <3>3. docs[w.draft][w.version] = w.content  BY <3>2 DEF ShowsItsVersion
    <3> QED  BY <3>2, <3>3, <2>2 DEF DraftsGrow
  <2> QED  BY <2>5, <2>6, <2>7, <2>8
<1> QED  BY <1>1 DEF WorksStored, ShowsItsVersion

HasNow(kind, d, i) ==
    \E w \in works' : /\ w.kind = kind /\ w.draft = d /\ w.job = i
                      /\ w.version <= draft'[d].version

\* A pointer is as it was, or of no work, or of one of the draft.
LEMMA OwnKept ==
    ASSUME Typed, OwnWorks, draft' \in [Draft -> DraftRow], works \subseteq works',
           \A d \in Draft :
              /\ draft[d].version <= draft'[d].version
              /\ draft'[d].preview \in {0, draft[d].preview} \/ HasNow("preview", d, draft'[d].preview)
              /\ draft'[d].viewed \in {0, draft[d].viewed} \/ HasNow("preview", d, draft'[d].viewed)
              /\ draft'[d].export \in {0, draft[d].export} \/ HasNow("export", d, draft'[d].export)
    PROVE  OwnWorks'
<1>1. ASSUME NEW d \in Draft, NEW kind, NEW i,
             \E w \in works : w.kind = kind /\ w.draft = d /\ w.job = i
                              /\ w.version <= draft[d].version
      PROVE  HasNow(kind, d, i)
  <2>1. PICK w \in works : w.kind = kind /\ w.draft = d /\ w.job = i
                           /\ w.version <= draft[d].version
    BY <1>1
  <2>2. w.version \in Nat  BY DEF Typed, WorkRow
  <2>3. draft[d].version \in Nat /\ draft'[d].version \in Nat  BY DEF Typed, DraftRow
  <2>4. w.version <= draft'[d].version  BY <2>1, <2>2, <2>3
  <2> QED  BY <2>1, <2>4 DEF HasNow
<1>2. ASSUME NEW d \in Draft
      PROVE  /\ draft'[d].preview # 0 => HasNow("preview", d, draft'[d].preview)
             /\ draft'[d].viewed # 0 => HasNow("preview", d, draft'[d].viewed)
             /\ draft'[d].export # 0 => HasNow("export", d, draft'[d].export)
  <2>1. draft[d].preview # 0 => HasNow("preview", d, draft[d].preview)  BY <1>1 DEF OwnWorks
  <2>2. draft[d].viewed # 0 => HasNow("preview", d, draft[d].viewed)  BY <1>1 DEF OwnWorks
  <2>3. draft[d].export # 0 => HasNow("export", d, draft[d].export)  BY <1>1 DEF OwnWorks
  <2> QED  BY <2>1, <2>2, <2>3
<1> QED  BY <1>2 DEF OwnWorks, HasNow

LEMMA SameJobs ==
    ASSUME Typed, UNCHANGED jobs
    PROVE  /\ JobsGrow /\ jobs' \in Seq(JobRow) /\ (Chained => Chained')
           /\ (UNCHANGED works /\ DoneIsDelivered => DoneIsDelivered')
<1>1. Chained => Chained'  BY DEF Chained, Retried, SameTarget, Lost
<1>2. UNCHANGED works /\ DoneIsDelivered => DoneIsDelivered'  BY DEF DoneIsDelivered
<1> QED  BY <1>1, <1>2 DEF JobsGrow, Typed

\* Neither versions nor documents change.
LEMMA SameDocs ==
    ASSUME Typed, Versioned, UNCHANGED docs, draft' \in [Draft -> DraftRow],
           \A d \in Draft : draft'[d].here = draft[d].here /\ draft'[d].version = draft[d].version
    PROVE  DraftsGrow /\ Versioned'
<1>1. \A d \in Draft : draft[d].version \in Nat  BY DEF Typed, DraftRow
<1>2. DraftsGrow  BY <1>1 DEF DraftsGrow
<1>3. Versioned'  BY DEF Versioned
<1> QED  BY <1>2, <1>3

\* The inductive step, from what it does to each table.
LEMMA Step ==
    ASSUME DeliveryInv, Typed', Versioned', Chained', RendersJobs', WorksStored',
           ShowsItsVersion', OwnWorks', DoneIsDelivered',
           DraftsGrow, JobsGrow, Follow(call', call), VersionsTold,
           \A i \in DOMAIN jobs' : i \in DOMAIN jobs \/ StoredNow(jobs'[i].draft, jobs'[i].version)
    PROVE  DeliveryInv'
<1>1. Typed /\ JobsStored /\ CallsTrue  BY DEF DeliveryInv
<1>2. JobsStored'  BY <1>1, JobsStoredKept
<1>3. CallsTrue'  BY <1>1, CallsKept
<1> QED  BY <1>2, <1>3 DEF DeliveryInv

-----------------------------------------------------------------------------
(* The chain of a target. *)

\* The chain, over a table.
Mates(js, i, j) == /\ js[j].kind = js[i].kind /\ js[j].draft = js[i].draft
                   /\ js[j].version = js[i].version
ChainOf(js) ==
    /\ \A i \in DOMAIN js : js[i].retry # 0 =>
         /\ js[i].retry \in DOMAIN js /\ js[i].retry < i
         /\ Mates(js, i, js[i].retry) /\ js[js[i].retry].status \in {"failed", "cancelled"}
         /\ \E j \in DOMAIN js : Mates(js, i, j) /\ js[j].retry = 0
    /\ \A i, j \in DOMAIN js : i < j /\ Mates(js, i, j) =>
         \E k \in DOMAIN js : Mates(js, i, k) /\ js[k].retry = i

LEMMA ChainIs == (Chained <=> ChainOf(jobs)) /\ (Chained' <=> ChainOf(jobs'))
<1>1. Chained <=> ChainOf(jobs)
  BY DEF Chained, ChainOf, Mates, Retried, SameTarget, Lost
<1>2. Chained' <=> ChainOf(jobs')
  BY DEF Chained, ChainOf, Mates, Retried, SameTarget, Lost
<1> QED  BY <1>1, <1>2

LEMMA ChainMoved ==
    ASSUME Typed, Chained, NEW i \in DOMAIN jobs, NEW s \in Statuses, Status(i, s),
           Lost(i) => s \in {"failed", "cancelled"}
    PROVE  /\ JobsGrow /\ Chained' /\ jobs' \in Seq(JobRow) /\ DOMAIN jobs' = DOMAIN jobs
           /\ jobs'[i].status = s /\ \A j \in DOMAIN jobs : j # i => jobs'[j] = jobs[j]
<1>1. /\ jobs' \in Seq(JobRow) /\ DOMAIN jobs' = DOMAIN jobs /\ jobs'[i].status = s
      /\ \A j \in DOMAIN jobs : /\ jobs'[j].kind = jobs[j].kind
                                /\ jobs'[j].draft = jobs[j].draft
                                /\ jobs'[j].version = jobs[j].version
                                /\ jobs'[j].retry = jobs[j].retry
                                /\ j # i => jobs'[j] = jobs[j]
  BY StatusMoved
<1>2. \A j \in DOMAIN jobs : jobs[j].status \in {"failed", "cancelled"}
          => jobs'[j].status \in {"failed", "cancelled"}
  BY <1>1 DEF Lost
<1>3. JobsGrow  BY <1>1, <1>2 DEF JobsGrow
<1>4. ChainOf(jobs)  BY ChainIs
<1>5. \A j, k \in DOMAIN jobs : Mates(jobs', j, k) <=> Mates(jobs, j, k)
  BY <1>1 DEF Mates
<1>6. ASSUME NEW k \in DOMAIN jobs', jobs'[k].retry # 0
      PROVE  LET r == jobs'[k].retry IN
             /\ r \in DOMAIN jobs' /\ r < k
             /\ Mates(jobs', k, r) /\ jobs'[r].status \in {"failed", "cancelled"}
             /\ \E j \in DOMAIN jobs' : Mates(jobs', k, j) /\ jobs'[j].retry = 0
  <2>1. k \in DOMAIN jobs /\ jobs[k].retry # 0 /\ jobs'[k].retry = jobs[k].retry  BY <1>1, <1>6
  <2>2. /\ jobs[k].retry \in DOMAIN jobs /\ jobs[k].retry < k
        /\ Mates(jobs, k, jobs[k].retry) /\ jobs[jobs[k].retry].status \in {"failed", "cancelled"}
        /\ \E j \in DOMAIN jobs : Mates(jobs, k, j) /\ jobs[j].retry = 0
    BY <2>1, <1>4 DEF ChainOf
  <2>3. PICK j \in DOMAIN jobs : Mates(jobs, k, j) /\ jobs[j].retry = 0  BY <2>2
  <2>4. \E l \in DOMAIN jobs' : Mates(jobs', k, l) /\ jobs'[l].retry = 0
    BY <2>1, <2>3, <1>1, <1>5
  <2> QED  BY <2>1, <2>2, <2>4, <1>1, <1>2, <1>5
<1>7. ASSUME NEW k \in DOMAIN jobs', NEW j \in DOMAIN jobs', k < j, Mates(jobs', k, j)
      PROVE  \E l \in DOMAIN jobs' : Mates(jobs', k, l) /\ jobs'[l].retry = k
  <2>1. k \in DOMAIN jobs /\ j \in DOMAIN jobs /\ Mates(jobs, k, j)  BY <1>1, <1>5, <1>7
  <2>2. PICK l \in DOMAIN jobs : Mates(jobs, k, l) /\ jobs[l].retry = k
    BY <2>1, <1>4, <1>7 DEF ChainOf
  <2> QED  BY <2>1, <2>2, <1>1, <1>5
<1>8. Chained'  BY <1>6, <1>7, ChainIs DEF ChainOf
<1> QED  BY <1>1, <1>3, <1>8

LEMMA ChainAppended ==
    ASSUME Typed, Chained, NEW row \in JobRow, jobs' = Append(jobs, row),
           WithKey(row.kind, row.draft, row.version, row.retry) = {},
           row.retry # 0 => Retried(row.retry, row.kind, row.draft, row.version)
    PROVE  JobsGrow /\ Chained'
<1> DEFINE n == Len(jobs) + 1
<1>1. /\ jobs' \in Seq(JobRow) /\ DOMAIN jobs' = DOMAIN jobs \cup {n}
      /\ n \in Nat /\ n \notin DOMAIN jobs /\ jobs'[n] = row
      /\ \A i \in DOMAIN jobs : jobs'[i] = jobs[i] /\ i < n
  BY JobAppended
<1>2. \A i \in DOMAIN jobs : i \in Nat /\ i > 0  BY JobRows
<1> HIDE DEF n
<1>3. JobsGrow  BY <1>1 DEF JobsGrow
<1>4. \A i \in DOMAIN jobs : jobs[i].retry # 0 =>
          /\ jobs[i].retry \in DOMAIN jobs /\ jobs[i].retry < i
          /\ Mates(jobs, i, jobs[i].retry) /\ jobs[jobs[i].retry].status \in {"failed", "cancelled"}
          /\ \E j \in DOMAIN jobs : Mates(jobs, i, j) /\ jobs[j].retry = 0
  BY ChainIs DEF ChainOf
<1>5. \A i, j \in DOMAIN jobs : i < j /\ Mates(jobs, i, j) =>
          \E k \in DOMAIN jobs : Mates(jobs, i, k) /\ jobs[k].retry = i
  BY ChainIs DEF ChainOf
<1>6. \A i \in DOMAIN jobs : jobs[i].kind = row.kind /\ jobs[i].draft = row.draft
                             /\ jobs[i].version = row.version => jobs[i].retry # row.retry
  BY DEF WithKey, SameTarget
<1>7. ASSUME row.retry # 0
      PROVE  /\ row.retry \in DOMAIN jobs /\ jobs[row.retry].status \in {"failed", "cancelled"}
             /\ jobs[row.retry].kind = row.kind /\ jobs[row.retry].draft = row.draft
             /\ jobs[row.retry].version = row.version
  BY <1>7 DEF Retried, SameTarget, Lost
<1>8. ASSUME NEW i \in DOMAIN jobs', jobs'[i].retry # 0
      PROVE  LET r == jobs'[i].retry IN
             /\ r \in DOMAIN jobs' /\ r < i /\ Mates(jobs', i, r)
             /\ jobs'[r].status \in {"failed", "cancelled"}
             /\ \E j \in DOMAIN jobs' : Mates(jobs', i, j) /\ jobs'[j].retry = 0
  <2>1. CASE i \in DOMAIN jobs
    <3>1. PICK j \in DOMAIN jobs : Mates(jobs, i, j) /\ jobs[j].retry = 0
      BY <2>1, <1>1, <1>4, <1>8 DEF Mates
    <3> QED  BY <2>1, <3>1, <1>1, <1>4, <1>8 DEF Mates
  <2>2. CASE i = n
    <3>1. /\ row.retry \in DOMAIN jobs /\ jobs[row.retry].status \in {"failed", "cancelled"}
          /\ jobs[row.retry].kind = row.kind /\ jobs[row.retry].draft = row.draft
          /\ jobs[row.retry].version = row.version
      BY <2>2, <1>1, <1>7, <1>8
    <3>2. \E j \in DOMAIN jobs : Mates(jobs, row.retry, j) /\ jobs[j].retry = 0
      <4>1. Mates(jobs, row.retry, row.retry)  BY DEF Mates
      <4> QED  BY <3>1, <4>1, <1>4
    <3>3. PICK j \in DOMAIN jobs : Mates(jobs, row.retry, j) /\ jobs[j].retry = 0
      BY <3>2
    <3>4. Mates(jobs', n, j) /\ jobs'[j].retry = 0 /\ j \in DOMAIN jobs'  BY <3>1, <3>3, <1>1 DEF Mates
    <3>5. /\ row.retry \in DOMAIN jobs' /\ row.retry < n /\ Mates(jobs', n, row.retry)
          /\ jobs'[row.retry].status \in {"failed", "cancelled"}
      BY <3>1, <1>1 DEF Mates
    <3> QED  BY <2>2, <3>4, <3>5, <1>1
  <2> QED  BY <2>1, <2>2, <1>1
<1>9. ASSUME NEW i \in DOMAIN jobs', NEW j \in DOMAIN jobs', i < j, Mates(jobs', i, j)
      PROVE  \E k \in DOMAIN jobs' : Mates(jobs', i, k) /\ jobs'[k].retry = i
  <2>1. i \in DOMAIN jobs
    <3>1. i # n  BY <1>1, <1>2, <1>9
    <3> QED  BY <3>1, <1>1
  <2>2. CASE j \in DOMAIN jobs
    <3>1. PICK k \in DOMAIN jobs : Mates(jobs, i, k) /\ jobs[k].retry = i
      BY <2>1, <2>2, <1>1, <1>5, <1>9 DEF Mates
    <3> QED  BY <2>1, <3>1, <1>1 DEF Mates
  <2>3. CASE j = n
    <3>1. jobs[i].kind = row.kind /\ jobs[i].draft = row.draft /\ jobs[i].version = row.version
      BY <2>1, <2>3, <1>1, <1>9 DEF Mates
    <3>2. row.retry # 0
      <4>1. SUFFICES ASSUME row.retry = 0  PROVE FALSE
        OBVIOUS
      <4>2. jobs[i].retry # 0  BY <2>1, <3>1, <4>1, <1>6
      <4>3. PICK k \in DOMAIN jobs : Mates(jobs, i, k) /\ jobs[k].retry = 0
        BY <2>1, <4>2, <1>4
      <4> QED  BY <3>1, <4>1, <4>3, <1>6 DEF Mates
    <3>3. CASE row.retry = i
      <4>1. Mates(jobs', i, n) /\ jobs'[n].retry = i  BY <2>1, <3>1, <3>3, <1>1 DEF Mates
      <4> QED  BY <4>1, <1>1
    <3>4. CASE row.retry # i
      <4>1. row.retry \in DOMAIN jobs /\ Mates(jobs, row.retry, i) /\ Mates(jobs, i, row.retry)
        BY <2>1, <3>1, <3>2, <1>7 DEF Mates
      <4>2. ~ row.retry < i
        <5>1. SUFFICES ASSUME row.retry < i  PROVE FALSE
          OBVIOUS
        <5>2. PICK k \in DOMAIN jobs : Mates(jobs, row.retry, k) /\ jobs[k].retry = row.retry
          BY <2>1, <4>1, <5>1, <1>5
        <5> QED  BY <5>2, <3>2, <1>6, <1>7 DEF Mates
      <4>3. i < row.retry  BY <2>1, <3>4, <4>1, <4>2, <1>2
      <4>4. PICK k \in DOMAIN jobs : Mates(jobs, i, k) /\ jobs[k].retry = i
        BY <2>1, <4>1, <4>3, <1>5
      <4> QED  BY <2>1, <4>4, <1>1 DEF Mates
    <3> QED  BY <3>3, <3>4
  <2> QED  BY <2>2, <2>3, <1>1
<1>10. Chained'
  BY <1>8, <1>9, ChainIs DEF ChainOf
<1> QED  BY <1>3, <1>10

LEMMA ChainIsLive == Typed /\ Chained => OneLiveRender
<1> SUFFICES ASSUME Typed, Chained  PROVE OneLiveRender
  OBVIOUS
<1>1. ASSUME NEW i \in DOMAIN jobs, NEW j \in DOMAIN jobs, i < j,
             SameTarget(i, jobs[j].kind, jobs[j].draft, jobs[j].version)
      PROVE  Lost(i)
  <2>1. \E k \in DOMAIN jobs : SameTarget(k, jobs[i].kind, jobs[i].draft, jobs[i].version)
                               /\ jobs[k].retry = i
    BY <1>1 DEF Chained, SameTarget
  <2>2. PICK k \in DOMAIN jobs : jobs[k].retry = i  BY <2>1
  <2>3. i # 0  BY JobRows
  <2> QED  BY <2>2, <2>3 DEF Chained, Retried
<1>2. \A i, j \in DOMAIN jobs : i # j => i < j \/ j < i  BY JobRows
<1> QED  BY <1>1, <1>2 DEF OneLiveRender, Unfinished, Lost, SameTarget

-----------------------------------------------------------------------------
(* Drafts and their documents. *)

\* A flag of one draft.
LEMMA FlagMoves ==
    ASSUME Typed, NEW d \in Draft, NEW b \in BOOLEAN, draft' = [draft EXCEPT ![d].checked = b]
    PROVE  /\ draft' \in [Draft -> DraftRow]
           /\ \A e \in Draft : /\ draft'[e].here = draft[e].here
                               /\ draft'[e].version = draft[e].version
                               /\ draft'[e].preview = draft[e].preview
                               /\ draft'[e].viewed = draft[e].viewed
                               /\ draft'[e].export = draft[e].export
<1> DEFINE row == [draft[d] EXCEPT !.checked = b]
<1>1. draft \in [Draft -> DraftRow] /\ draft[d] \in DraftRow  BY DEF Typed
<1>2. /\ row \in DraftRow /\ row.here = draft[d].here /\ row.version = draft[d].version
      /\ row.preview = draft[d].preview /\ row.viewed = draft[d].viewed
      /\ row.export = draft[d].export
  BY <1>1 DEF DraftRow
<1>3. draft' = [draft EXCEPT ![d] = row]  OBVIOUS
<1> HIDE DEF row
<1>4. draft' \in [Draft -> DraftRow]  BY <1>1, <1>2, <1>3
<1>5. draft'[d] = row /\ \A e \in Draft : e # d => draft'[e] = draft[e]  BY <1>1, <1>3
<1> QED  BY <1>2, <1>4, <1>5

\* Steps that move neither jobs nor works, and of the drafts a flag at most.
LEMMA FlagStep ==
    ASSUME DeliveryInv, draft' \in [Draft -> DraftRow],
           \A e \in Draft : /\ draft'[e].here = draft[e].here
                            /\ draft'[e].version = draft[e].version
                            /\ draft'[e].preview = draft[e].preview
                            /\ draft'[e].viewed = draft[e].viewed
                            /\ draft'[e].export = draft[e].export,
           Follow(call', call), UNCHANGED <<docs, jobs, works, render>>
    PROVE  DeliveryInv'
<1>1. /\ Typed /\ Versioned /\ WorksStored /\ RendersJobs /\ Chained
      /\ ShowsItsVersion /\ OwnWorks /\ DoneIsDelivered
  BY DEF DeliveryInv
<1>2. Typed'  BY <1>1 DEF Typed, Follow
<1>3. DraftsGrow /\ Versioned'  BY <1>1, SameDocs
<1>4. JobsGrow /\ Chained' /\ DoneIsDelivered'  BY <1>1, SameJobs
<1>5. RendersJobs'  BY <1>1 DEF RendersJobs
<1>6. WorksStored' /\ ShowsItsVersion'  BY <1>1, <1>3, <1>4, WorksKept
<1>7. OwnWorks'
  <2>1. \A d \in Draft : draft[d].version \in Nat  BY <1>1 DEF Typed, DraftRow
  <2>2. \A d \in Draft : draft[d].version <= draft'[d].version  BY <2>1
  <2> QED  BY <1>1, <2>2, OwnKept
<1>8. VersionsTold
  <2>1. \A c \in Caller : call'[c] # Idle => call'[c].draft \in Draft
    BY DEF Follow, CallRow
  <2> QED  BY <2>1 DEF VersionsTold
<1>9. \A i \in DOMAIN jobs' : i \in DOMAIN jobs  OBVIOUS
<1> QED  BY <1>2, <1>3, <1>4, <1>5, <1>6, <1>7, <1>8, <1>9, Step

LEMMA AgentRefusesStep ==
    ASSUME DeliveryInv, NEW c \in Agent, AgentRefuses(c)
    PROVE  DeliveryInv'
<1>1. Typed /\ c \in Caller /\ call[c] # Idle
  BY DEF DeliveryInv, Caller, AgentRefuses, At, Idle
<1>2. call[c].draft \in Draft  BY <1>1, CallRows
<1>3. UNCHANGED <<docs, jobs, works, render>>  BY DEF AgentRefuses
<1>4. CASE call[c].same
  <2>1. /\ draft' = [draft EXCEPT ![call[c].draft].checked = FALSE]
        /\ call' = [Stale(call[c].draft) EXCEPT ![c] = Idle]
    BY <1>4 DEF AgentRefuses
  <2>2. Follow(call', call)
    <3>1. Follow(Stale(call[c].draft), call)  BY <1>1, StaleCalls
    <3> QED  BY <2>1, <3>1, <1>1, Ended
  <2> QED  BY <2>1, <2>2, <1>1, <1>2, <1>3, FlagMoves, FlagStep
<1>5. CASE ~ call[c].same
  <2>1. draft' = draft /\ call' = [call EXCEPT ![c] = Idle]  BY <1>5 DEF AgentRefuses, Ends
  <2>2. Follow(call', call)  BY <2>1, <1>1, Ended, Stays
  <2>3. draft' \in [Draft -> DraftRow]  BY <2>1, <1>1 DEF Typed
  <2> QED  BY <2>1, <2>2, <2>3, <1>3, FlagStep
<1> QED  BY <1>4, <1>5

LEMMA AgentConfirmsStep ==
    ASSUME DeliveryInv, NEW c \in Agent, AgentConfirms(c)
    PROVE  DeliveryInv'
<1>1. Typed /\ c \in Caller /\ call[c] # Idle
  BY DEF DeliveryInv, Caller, AgentConfirms, At, Idle
<1>2. call[c].draft \in Draft  BY <1>1, CallRows
<1>3. UNCHANGED <<docs, jobs, works, render>>  BY DEF AgentConfirms
<1>4. CASE call[c].same /\ ~ draft[call[c].draft].checked
  <2>1. /\ draft' = [draft EXCEPT ![call[c].draft].checked = TRUE]
        /\ call' = [Stale(call[c].draft) EXCEPT ![c] = Idle]
    BY <1>4 DEF AgentConfirms
  <2>2. Follow(call', call)
    <3>1. Follow(Stale(call[c].draft), call)  BY <1>1, StaleCalls
    <3> QED  BY <2>1, <3>1, <1>1, Ended
  <2> QED  BY <2>1, <2>2, <1>1, <1>2, <1>3, FlagMoves, FlagStep
<1>5. CASE ~ (call[c].same /\ ~ draft[call[c].draft].checked)
  <2>1. draft' = draft /\ call' = [call EXCEPT ![c] = Idle]  BY <1>5 DEF AgentConfirms, Ends
  <2>2. Follow(call', call)  BY <2>1, <1>1, Ended, Stays
  <2>3. draft' \in [Draft -> DraftRow]  BY <2>1, <1>1 DEF Typed
  <2> QED  BY <2>1, <2>2, <2>3, <1>3, FlagStep
<1> QED  BY <1>4, <1>5

\* Nothing but calls and the lease changes.
LEMMA CallStepOnly ==
    ASSUME DeliveryInv, Follow(call', call), UNCHANGED <<draft, docs, jobs, works, render>>
    PROVE  DeliveryInv'
<1>1. draft' \in [Draft -> DraftRow]  BY DEF DeliveryInv, Typed
<1> QED  BY <1>1, FlagStep

LEMMA LeaseStep ==
    ASSUME DeliveryInv, NEW d \in Draft, LeaseMoves(d)
    PROVE  DeliveryInv'
<1>1. Follow(call', call)  BY Stays DEF LeaseMoves, DeliveryInv
<1> QED  BY <1>1, CallStepOnly DEF LeaseMoves

LEMMA ProgressStep ==
    ASSUME DeliveryInv, NEW p \in Renderer, Progress(p)
    PROVE  DeliveryInv'
<1>1. Follow(call', call)  BY StaleCalls DEF Progress, Touched, DeliveryInv
<1> QED  BY <1>1, CallStepOnly DEF Progress, rows

LEMMA StutterStep ==
    ASSUME DeliveryInv, UNCHANGED vars
    PROVE  DeliveryInv'
<1>1. Follow(call', call)  BY Stays DEF vars, DeliveryInv
<1> QED  BY <1>1, CallStepOnly DEF vars, rows

-----------------------------------------------------------------------------
(* Calls. *)

\* What a call has read is true.
LEMMA ReadStep ==
    ASSUME DeliveryInv, NEW c \in Caller, NEW row \in CallRow,
           call' = [call EXCEPT ![c] = row], UNCHANGED <<draft, docs, jobs, works, render>>,
           Stored(row.draft, row.version),
           row.retry # 0 =>
             /\ row.pc = "enqueue" => Retried(row.retry, "preview", row.draft, row.version)
             /\ row.pc \in {"try", "apply"} => Retried(row.retry, "export", row.draft, row.version),
           row.pc = "enqueue" => row.version = draft[row.draft].version
    PROVE  DeliveryInv'
<1>1. /\ Typed /\ Versioned /\ JobsStored /\ WorksStored /\ RendersJobs /\ Chained /\ CallsTrue
      /\ ShowsItsVersion /\ OwnWorks /\ DoneIsDelivered
  BY DEF DeliveryInv
<1>2. /\ call' \in [Caller -> {Idle} \cup CallRow] /\ call'[c] = row
      /\ \A b \in Caller : b # c => call'[b] = call[b]
  BY <1>1 DEF Typed
<1>3. Typed'  BY <1>1, <1>2 DEF Typed
<1>4. Versioned' /\ JobsStored' /\ WorksStored' /\ RendersJobs'
  BY <1>1 DEF Versioned, JobsStored, WorksStored, RendersJobs, Stored
<1>5. Chained' /\ DoneIsDelivered'  BY <1>1, SameJobs
<1>6. ShowsItsVersion' /\ OwnWorks'  BY <1>1 DEF ShowsItsVersion, OwnWorks
<1>7. CallsTrue'
  <2>1. ASSUME NEW b \in Caller, call'[b] # Idle
        PROVE  /\ Stored(call'[b].draft, call'[b].version)
               /\ call'[b].retry # 0 =>
                    /\ call'[b].pc = "enqueue"
                         => Retried(call'[b].retry, "preview", call'[b].draft, call'[b].version)
                    /\ call'[b].pc \in {"try", "apply"}
                         => Retried(call'[b].retry, "export", call'[b].draft, call'[b].version)
               /\ call'[b].pc = "enqueue" /\ call'[b].same
                    => call'[b].version = draft[call'[b].draft].version
    <3>1. CASE b = c  BY <3>1, <1>2
    <3>2. CASE b # c  BY <3>2, <2>1, <1>1, <1>2 DEF CallsTrue
    <3> QED  BY <3>1, <3>2
  <2> QED  BY <2>1 DEF CallsTrue, Stored, Retried, SameTarget, Lost
<1> QED  BY <1>3, <1>4, <1>5, <1>6, <1>7 DEF DeliveryInv

LEMMA Readings ==
    ASSUME NEW pc \in {"refuse", "enqueue", "confirm", "try", "apply"}, NEW d \in Draft,
           NEW v \in Nat, NEW i \in Nat
    PROVE  LET r == Reading(pc, d, v, i) IN
           r \in CallRow /\ r.pc = pc /\ r.draft = d /\ r.version = v /\ r.retry = i
BY DEF Reading, CallRow

LEMMA InForceStored ==
    ASSUME DeliveryInv, NEW d \in Draft, draft[d].here, draft[d].version > 0
    PROVE  draft[d].version \in Nat /\ Stored(d, draft[d].version)
<1>1. draft[d].version \in DOMAIN docs[d]  BY DEF DeliveryInv, Versioned
<1>2. draft[d].version \in Nat  BY DEF DeliveryInv, Typed, DraftRow
<1> QED  BY <1>1, <1>2 DEF Stored

LEMMA AgentReadsStep ==
    ASSUME DeliveryInv, NEW c \in Agent, NEW d \in Draft, AgentReads(c, d)
    PROVE  DeliveryInv'
<1> DEFINE v == draft[d].version
<1>1. /\ c \in Caller /\ draft[d].here /\ v > 0
      /\ UNCHANGED <<draft, docs, jobs, works, render>>
  BY DEF AgentReads, Caller, rows
<1>2. v \in Nat /\ Stored(d, v)  BY <1>1, InForceStored
<1>v. v = draft[d].version  OBVIOUS
<1> HIDE DEF v
<1>3. PICK pc \in {"refuse", "enqueue", "confirm"} : \E i \in {0} \cup DOMAIN jobs :
          /\ call' = [call EXCEPT ![c] = Reading(pc, d, v, i)]
          /\ i # 0 => Retried(i, "preview", d, v)
  <2>1. CASE call' = [call EXCEPT ![c] = Reading("refuse", d, v, 0)]  BY <2>1
  <2>2. CASE call' = [call EXCEPT ![c] = Reading("enqueue", d, v, 0)]  BY <2>2
  <2>3. CASE call' = [call EXCEPT ![c] = Reading("confirm", d, v, 0)]  BY <2>3
  <2>4. CASE \E i \in LatestOf("preview", d, v) :
               Lost(i) /\ call' = [call EXCEPT ![c] = Reading("enqueue", d, v, i)]
    <3>1. PICK i \in LatestOf("preview", d, v) :
               Lost(i) /\ call' = [call EXCEPT ![c] = Reading("enqueue", d, v, i)]
      BY <2>4
    <3>2. i \in DOMAIN jobs /\ Retried(i, "preview", d, v)  BY <3>1 DEF LatestOf, Retried
    <3> QED  BY <3>1, <3>2
  <2>5. \/ call' = [call EXCEPT ![c] = Reading("refuse", d, v, 0)]
        \/ call' = [call EXCEPT ![c] = Reading("enqueue", d, v, 0)]
        \/ call' = [call EXCEPT ![c] = Reading("confirm", d, v, 0)]
        \/ \E i \in LatestOf("preview", d, v) :
              Lost(i) /\ call' = [call EXCEPT ![c] = Reading("enqueue", d, v, i)]
    BY <1>v DEF AgentReads
  <2> QED  BY <2>1, <2>2, <2>3, <2>4, <2>5
<1>4. PICK i \in {0} \cup DOMAIN jobs :
          /\ call' = [call EXCEPT ![c] = Reading(pc, d, v, i)]
          /\ i # 0 => Retried(i, "preview", d, v)
  BY <1>3
<1>5. i \in Nat  BY <1>4, JobRows DEF DeliveryInv
<1> DEFINE row == Reading(pc, d, v, i)
<1>6. row \in CallRow /\ row.pc = pc /\ row.draft = d /\ row.version = v /\ row.retry = i
  BY <1>2, <1>5, Readings
<1>7. call' = [call EXCEPT ![c] = row]  BY <1>4
<1> HIDE DEF row
<1>8. row.retry # 0 =>
        /\ row.pc = "enqueue" => Retried(row.retry, "preview", row.draft, row.version)
        /\ row.pc \in {"try", "apply"} => Retried(row.retry, "export", row.draft, row.version)
  BY <1>4, <1>6
<1>9. row.pc = "enqueue" => row.version = draft[row.draft].version  BY <1>6, <1>v
<1>10. Stored(row.draft, row.version)  BY <1>2, <1>6
<1> QED  BY <1>1, <1>6, <1>7, <1>8, <1>9, <1>10, ReadStep

LEMMA UserAsksStep ==
    ASSUME DeliveryInv, NEW c \in User, NEW d \in Draft, UserAsks(c, d)
    PROVE  DeliveryInv'
<1> DEFINE v == draft[d].version
           row == Reading("try", d, v, 0)
<1>1. /\ c \in Caller /\ draft[d].here /\ v > 0
      /\ call' = [call EXCEPT ![c] = row]
      /\ UNCHANGED <<draft, docs, jobs, works, render>>
  BY DEF UserAsks, Caller, rows
<1>2. v \in Nat /\ Stored(d, v)  BY <1>1, InForceStored
<1> HIDE DEF v
<1>3. row \in CallRow /\ row.pc = "try" /\ row.draft = d /\ row.version = v /\ row.retry = 0
  BY <1>2, Readings
<1> HIDE DEF row
<1> QED  BY <1>1, <1>2, <1>3, ReadStep

LEMMA UserRetriesStep ==
    ASSUME DeliveryInv, NEW c \in User, NEW i \in DOMAIN jobs, UserRetries(c, i)
    PROVE  DeliveryInv'
<1> DEFINE d == jobs[i].draft
           v == jobs[i].version
           row == Reading("try", d, v, i)
<1>1. /\ c \in Caller /\ jobs[i].kind = "export" /\ Lost(i)
      /\ call' = [call EXCEPT ![c] = row]
      /\ UNCHANGED <<draft, docs, jobs, works, render>>
  BY DEF UserRetries, Caller, rows
<1>2. d \in Draft /\ v \in Nat /\ i \in Nat  BY JobRows DEF DeliveryInv
<1>3. Stored(d, v)  BY DEF DeliveryInv, JobsStored
<1>4. Retried(i, "export", d, v)  BY <1>1 DEF Retried, SameTarget
<1> HIDE DEF d, v
<1>5. row \in CallRow /\ row.pc = "try" /\ row.draft = d /\ row.version = v /\ row.retry = i
  BY <1>2, Readings
<1> HIDE DEF row
<1> QED  BY <1>1, <1>3, <1>4, <1>5, ReadStep

\* A round of the user's loop.
LEMMA RoundFollows ==
    ASSUME Typed, NEW c \in Caller, NEW row \in CallRow, call[c] # Idle,
           Goal(row) = Goal(call[c]),
           (row.pc = "apply" /\ call[c].pc = "try") \/ (row.pc = "try" /\ call[c].pc = "apply"),
           call' = [call EXCEPT ![c] = row]
    PROVE  Follow(call', call)
<1>1. /\ call' \in [Caller -> {Idle} \cup CallRow] /\ call'[c] = row
      /\ \A b \in Caller : b # c => call'[b] = call[b]
  BY DEF Typed
<1> QED  BY <1>1 DEF Follow

LEMMA UserTriesStep ==
    ASSUME DeliveryInv, NEW c \in User, UserTries(c)
    PROVE  DeliveryInv'
<1>1. Typed /\ c \in Caller /\ call[c] # Idle /\ call[c].pc = "try"
  BY DEF DeliveryInv, Caller, UserTries, At, Idle
<1>2. UNCHANGED <<draft, docs, jobs, works, render>>  BY DEF UserTries, rows
<1> DEFINE row == [call[c] EXCEPT !.pc = "apply", !.same = TRUE]
<1>3. row \in CallRow /\ Goal(row) = Goal(call[c]) /\ row.pc = "apply"
  <2>1. call[c] \in CallRow  BY <1>1, CallRows
  <2> QED  BY <2>1 DEF CallRow, Goal
<1>4. call' = [call EXCEPT ![c] = row] \/ call' = [call EXCEPT ![c] = Idle]
  BY DEF UserTries, Ends
<1> HIDE DEF row
<1>5. Follow(call', call)
  <2>1. CASE call' = [call EXCEPT ![c] = row]  BY <2>1, <1>1, <1>3, RoundFollows
  <2>2. CASE call' = [call EXCEPT ![c] = Idle]  BY <2>2, <1>1, Ended, Stays
  <2> QED  BY <1>4, <2>1, <2>2
<1> QED  BY <1>2, <1>5, CallStepOnly

\* A job enters the queue.
LEMMA EnqueueStep ==
    ASSUME DeliveryInv, NEW c \in Caller, NEW kind \in Kinds, NEW d \in Draft, NEW v \in Nat,
           NEW retry \in Nat, Enqueue(c, kind, d, v, retry), WithKey(kind, d, v, retry) = {},
           Stored(d, v), retry # 0 => Retried(retry, kind, d, v),
           UNCHANGED <<docs, works, render>>
    PROVE  /\ DeliveryInv'
           /\ \A i \in DOMAIN jobs' \ DOMAIN jobs : /\ jobs'[i].kind = kind /\ jobs'[i].draft = d
                                                    /\ jobs'[i].version = v /\ jobs'[i].retry = retry
<1> DEFINE row == [kind |-> kind, draft |-> d, version |-> v, retry |-> retry, status |-> "pending"]
           n == Len(jobs) + 1
           b == draft[d].checked \/ draft[d].version = v
<1>1. /\ Typed /\ Versioned /\ WorksStored /\ RendersJobs /\ Chained
      /\ ShowsItsVersion /\ OwnWorks /\ DoneIsDelivered
  BY DEF DeliveryInv
<1>2. /\ row \in JobRow /\ row.kind = kind /\ row.draft = d /\ row.version = v /\ row.retry = retry
      /\ row.status = "pending"
  BY DEF JobRow, Statuses
<1>3. /\ jobs' = Append(jobs, row)
      /\ draft' = [draft EXCEPT ![d].checked = b]
      /\ call' = [Stale(d) EXCEPT ![c] = Idle]
  BY DEF Enqueue
<1>b. b \in BOOLEAN  OBVIOUS
<1> HIDE DEF row, b
<1>4. /\ jobs' \in Seq(JobRow) /\ DOMAIN jobs' = DOMAIN jobs \cup {n}
      /\ n \notin DOMAIN jobs /\ jobs'[n] = row
      /\ \A i \in DOMAIN jobs : jobs'[i] = jobs[i]
  BY <1>1, <1>2, <1>3, JobAppended
<1> HIDE DEF n
<1>5. /\ draft' \in [Draft -> DraftRow]
      /\ \A e \in Draft : /\ draft'[e].here = draft[e].here
                          /\ draft'[e].version = draft[e].version
                          /\ draft'[e].preview = draft[e].preview
                          /\ draft'[e].viewed = draft[e].viewed
                          /\ draft'[e].export = draft[e].export
  BY <1>1, <1>3, <1>b, FlagMoves
<1>6. Follow(call', call)
  <2>1. Follow(Stale(d), call)  BY <1>1, StaleCalls
  <2> QED  BY <2>1, <1>3, Ended
<1>7. Typed'  BY <1>1, <1>4, <1>5, <1>6 DEF Typed, Follow
<1>8. DraftsGrow /\ Versioned'  BY <1>1, <1>5, SameDocs
<1>9. JobsGrow /\ Chained'  BY <1>1, <1>2, <1>3, ChainAppended
<1>10. RendersJobs'  BY <1>1, <1>4 DEF RendersJobs
<1>11. WorksStored' /\ ShowsItsVersion'  BY <1>1, <1>5, <1>8, <1>9, WorksKept
<1>12. OwnWorks'
  <2>1. \A e \in Draft : draft[e].version \in Nat  BY <1>1 DEF Typed, DraftRow
  <2>2. \A e \in Draft : draft[e].version <= draft'[e].version  BY <2>1, <1>5
  <2> QED  BY <1>1, <1>5, <2>2, OwnKept
<1>13. DoneIsDelivered'
  <2>1. ASSUME NEW i \in DOMAIN jobs'
        PROVE  jobs'[i].status = "succeeded" <=> \E w \in works : w.job = i /\ w.draft = jobs'[i].draft
    <3>1. CASE i \in DOMAIN jobs  BY <3>1, <1>1, <1>4 DEF DoneIsDelivered
    <3>2. CASE i = n
      <4>1. \A w \in works : w.job # n  BY <1>1, <1>4 DEF WorksStored
      <4> QED  BY <4>1, <3>2, <1>2, <1>4
    <3> QED  BY <3>1, <3>2, <1>4
  <2> QED  BY <2>1 DEF DoneIsDelivered
<1>14. VersionsTold
  <2>1. \A a \in Caller : call'[a] # Idle => call'[a].draft \in Draft
    BY <1>6 DEF Follow, CallRow
  <2> QED  BY <2>1, <1>5 DEF VersionsTold
<1>15. \A i \in DOMAIN jobs' : i \in DOMAIN jobs \/ StoredNow(jobs'[i].draft, jobs'[i].version)
  <2>1. StoredNow(d, v)  BY <1>8, StoredKept
  <2> QED  BY <2>1, <1>2, <1>4
<1>16. DeliveryInv'
  BY <1>6, <1>7, <1>8, <1>9, <1>10, <1>11, <1>12, <1>13, <1>14, <1>15, Step
<1>17. \A i \in DOMAIN jobs' \ DOMAIN jobs : /\ jobs'[i].kind = kind /\ jobs'[i].draft = d
                                             /\ jobs'[i].version = v /\ jobs'[i].retry = retry
  BY <1>2, <1>4
<1> QED  BY <1>16, <1>17

\* What enters the queue is asked for of the version in force.
OnTarget ==
    \A i \in DOMAIN jobs' \ DOMAIN jobs :
        /\ jobs'[i].retry = 0 => jobs'[i].version = draft[jobs'[i].draft].version
        /\ jobs'[i].kind = "export" => jobs'[i].draft \notin lease

LEMMA AgentEnqueuesStep ==
    ASSUME DeliveryInv, NEW c \in Agent, AgentEnqueues(c)
    PROVE  DeliveryInv' /\ OnTarget
<1>1. /\ Typed /\ c \in Caller /\ call[c] # Idle /\ call[c].pc = "enqueue"
      /\ UNCHANGED <<docs, works, render>>
  BY DEF DeliveryInv, Caller, AgentEnqueues, At, Idle
<1> DEFINE d == call[c].draft
           v == call[c].version
           r == call[c].retry
<1>2. d \in Draft /\ v \in Nat /\ r \in Nat  BY <1>1, CallRows
<1>3. Stored(d, v) /\ (r # 0 => Retried(r, "preview", d, v))
  BY <1>1 DEF DeliveryInv, CallsTrue
<1>4. call[c].same => v = draft[d].version  BY <1>1 DEF DeliveryInv, CallsTrue
<1>5. \/ /\ call[c].same /\ WithKey("preview", d, v, r) = {}
         /\ Enqueue(c, "preview", d, v, r)
      \/ call' = [call EXCEPT ![c] = Idle] /\ UNCHANGED <<draft, jobs>>
  BY DEF AgentEnqueues, Ends
<1> HIDE DEF d, v, r
<1>6. CASE call[c].same /\ WithKey("preview", d, v, r) = {} /\ Enqueue(c, "preview", d, v, r)
  <2>1. "preview" \in Kinds  BY DEF Kinds
  <2>2. /\ DeliveryInv'
        /\ \A i \in DOMAIN jobs' \ DOMAIN jobs : /\ jobs'[i].kind = "preview" /\ jobs'[i].draft = d
                                                 /\ jobs'[i].version = v /\ jobs'[i].retry = r
    BY <1>1, <1>2, <1>3, <1>6, <2>1, EnqueueStep
  <2> QED  BY <2>2, <1>4, <1>6 DEF OnTarget
<1>7. CASE call' = [call EXCEPT ![c] = Idle] /\ UNCHANGED <<draft, jobs>>
  <2>1. Follow(call', call)  BY <1>1, <1>7, Ended, Stays
  <2>2. DeliveryInv'  BY <2>1, <1>1, <1>7, CallStepOnly
  <2> QED  BY <2>2, <1>7 DEF OnTarget
<1> QED  BY <1>5, <1>6, <1>7

LEMMA UserAppliesStep ==
    ASSUME DeliveryInv, NEW c \in User, UserApplies(c)
    PROVE  DeliveryInv' /\ OnTarget
<1>1. /\ Typed /\ c \in Caller /\ call[c] # Idle /\ call[c].pc = "apply"
      /\ UNCHANGED <<docs, works, render>>
  BY DEF DeliveryInv, Caller, UserApplies, At, Idle
<1> DEFINE d == call[c].draft
           v == call[c].version
           r == call[c].retry
           row == [call[c] EXCEPT !.pc = "try"]
<1>2. d \in Draft /\ v \in Nat /\ r \in Nat  BY <1>1, CallRows
<1>3. Stored(d, v) /\ (r # 0 => Retried(r, "export", d, v))
  BY <1>1 DEF DeliveryInv, CallsTrue
<1>4. row \in CallRow /\ Goal(row) = Goal(call[c]) /\ row.pc = "try"
  <2>1. call[c] \in CallRow  BY <1>1, CallRows
  <2> QED  BY <2>1 DEF CallRow, Goal
<1>5. \/ call' = [call EXCEPT ![c] = row] /\ UNCHANGED <<draft, jobs>>
      \/ /\ WithKey("export", d, v, r) = {} /\ Enqueue(c, "export", d, v, r)
         /\ r = 0 => draft[d].version = v
         /\ d \notin lease
      \/ call' = [call EXCEPT ![c] = Idle] /\ UNCHANGED <<draft, jobs>>
  BY DEF UserApplies, Ends, Goes, Admitted, OffTarget
<1> HIDE DEF d, v, r, row
<1>6. CASE call' = [call EXCEPT ![c] = row] /\ UNCHANGED <<draft, jobs>>
  <2>1. Follow(call', call)  BY <1>1, <1>4, <1>6, RoundFollows
  <2>2. DeliveryInv'  BY <2>1, <1>1, <1>6, CallStepOnly
  <2> QED  BY <2>2, <1>6 DEF OnTarget
<1>7. CASE /\ WithKey("export", d, v, r) = {} /\ Enqueue(c, "export", d, v, r)
           /\ r = 0 => draft[d].version = v
           /\ d \notin lease
  <2>1. "export" \in Kinds  BY DEF Kinds
  <2>2. /\ DeliveryInv'
        /\ \A i \in DOMAIN jobs' \ DOMAIN jobs : /\ jobs'[i].kind = "export" /\ jobs'[i].draft = d
                                                 /\ jobs'[i].version = v /\ jobs'[i].retry = r
    BY <1>1, <1>2, <1>3, <1>7, <2>1, EnqueueStep
  <2> QED  BY <2>2, <1>7 DEF OnTarget
<1>8. CASE call' = [call EXCEPT ![c] = Idle] /\ UNCHANGED <<draft, jobs>>
  <2>1. Follow(call', call)  BY <1>1, <1>8, Ended, Stays
  <2>2. DeliveryInv'  BY <2>1, <1>1, <1>8, CallStepOnly
  <2> QED  BY <2>2, <1>8 DEF OnTarget
<1> QED  BY <1>5, <1>6, <1>7, <1>8

-----------------------------------------------------------------------------
(* Rendering. *)

\* Whether a job succeeded does not change.
LEMMA StatusStep ==
    ASSUME DeliveryInv, NEW i \in DOMAIN jobs, NEW s \in Statuses, Status(i, s),
           Lost(i) => s \in {"failed", "cancelled"},
           jobs[i].status # "succeeded", s # "succeeded",
           Follow(call', call), UNCHANGED <<draft, docs, works>>,
           render' = [p \in Renderer |-> render'[p]], RendersJobs'
    PROVE  DeliveryInv'
<1>1. /\ Typed /\ Versioned /\ WorksStored /\ RendersJobs /\ Chained
      /\ ShowsItsVersion /\ OwnWorks /\ DoneIsDelivered
  BY DEF DeliveryInv
<1>2. /\ JobsGrow /\ Chained' /\ jobs' \in Seq(JobRow) /\ DOMAIN jobs' = DOMAIN jobs
      /\ jobs'[i].status = s /\ \A j \in DOMAIN jobs : j # i => jobs'[j] = jobs[j]
  BY <1>1, ChainMoved
<1>3. draft' \in [Draft -> DraftRow]  BY <1>1 DEF Typed
<1>4. DraftsGrow /\ Versioned'  BY <1>1, <1>3, SameDocs
<1>5. Typed'  BY <1>1, <1>2 DEF Typed, Follow
<1>6. WorksStored' /\ ShowsItsVersion'  BY <1>1, <1>2, <1>3, <1>4, WorksKept
<1>7. OwnWorks'  BY <1>1 DEF OwnWorks
<1>8. DoneIsDelivered'
  <2>1. ASSUME NEW j \in DOMAIN jobs'
        PROVE  jobs'[j].status = "succeeded" <=> \E w \in works : w.job = j /\ w.draft = jobs'[j].draft
    <3>1. j \in DOMAIN jobs /\ jobs'[j].draft = jobs[j].draft  BY <2>1, <1>2 DEF JobsGrow
    <3>2. jobs'[j].status = "succeeded" <=> jobs[j].status = "succeeded"
      BY <3>1, <1>2
    <3> QED  BY <3>1, <3>2, <1>1 DEF DoneIsDelivered
  <2> QED  BY <2>1 DEF DoneIsDelivered
<1>9. VersionsTold  BY DEF VersionsTold
<1> QED  BY <1>1, <1>2, <1>4, <1>5, <1>6, <1>7, <1>8, <1>9, Step

LEMMA RendererFreed ==
    ASSUME DeliveryInv, NEW p \in Renderer, render' = [render EXCEPT ![p] = 0],
           \A i \in DOMAIN jobs : i \in DOMAIN jobs'
    PROVE  render' = [q \in Renderer |-> render'[q]] /\ RendersJobs'
BY DEF DeliveryInv, Typed, RendersJobs

LEMMA ClaimStep ==
    ASSUME DeliveryInv, NEW p \in Renderer, NEW i \in DOMAIN jobs, Claim(p, i)
    PROVE  DeliveryInv'
<1>1. /\ jobs[i].status = "pending" /\ Status(i, "running")
      /\ render' = [render EXCEPT ![p] = i] /\ UNCHANGED <<draft, docs, works, call>>
  BY DEF Claim
<1>2. "running" \in Statuses /\ ~ Lost(i)  BY <1>1 DEF Statuses, Lost
<1>3. Follow(call', call)  BY <1>1, Stays DEF DeliveryInv
<1>4. DOMAIN jobs' = DOMAIN jobs  BY <1>1 DEF Status
<1>5. render' = [q \in Renderer |-> render'[q]] /\ RendersJobs'
  BY <1>1, <1>4 DEF DeliveryInv, Typed, RendersJobs
<1> QED  BY <1>1, <1>2, <1>3, <1>5, StatusStep

LEMMA CancelStep ==
    ASSUME DeliveryInv, NEW i \in DOMAIN jobs, CancelJob(i)
    PROVE  DeliveryInv'
<1>1. /\ jobs[i].status # "succeeded" /\ Status(i, "cancelled")
      /\ call' = Stale(jobs[i].draft) /\ UNCHANGED <<draft, docs, works, render>>
  BY DEF CancelJob, Unfinished, Touched
<1>2. "cancelled" \in Statuses  BY DEF Statuses
<1>3. Follow(call', call)
  <2>1. Follow(Stale(jobs[i].draft), call)  BY StaleCalls DEF DeliveryInv
  <2> QED  BY <2>1, <1>1
<1>4. DOMAIN jobs' = DOMAIN jobs  BY <1>1 DEF Status
<1>5. render' = [q \in Renderer |-> render'[q]] /\ RendersJobs'
  BY <1>1, <1>4 DEF DeliveryInv, Typed, RendersJobs
<1> QED  BY <1>1, <1>2, <1>3, <1>5, StatusStep

\* A renderer without a job to commit.
LEMMA FreeStep ==
    ASSUME DeliveryInv, UNCHANGED <<draft, docs, jobs, works, call>>,
           render' = [q \in Renderer |-> render'[q]], RendersJobs'
    PROVE  DeliveryInv'
<1>1. /\ Typed /\ Versioned /\ JobsStored /\ WorksStored /\ Chained /\ CallsTrue
      /\ ShowsItsVersion /\ OwnWorks /\ DoneIsDelivered
  BY DEF DeliveryInv
<1>2. Typed'  BY <1>1 DEF Typed
<1>3. Versioned' /\ JobsStored' /\ WorksStored'
  BY <1>1 DEF Versioned, JobsStored, WorksStored, Stored
<1>4. Chained' /\ DoneIsDelivered'  BY <1>1, SameJobs
<1>5. CallsTrue'  BY <1>1 DEF CallsTrue, Stored, Retried, SameTarget, Lost
<1>6. ShowsItsVersion' /\ OwnWorks'  BY <1>1 DEF ShowsItsVersion, OwnWorks
<1> QED  BY <1>2, <1>3, <1>4, <1>5, <1>6 DEF DeliveryInv

LEMMA FailStep ==
    ASSUME DeliveryInv, NEW p \in Renderer, RenderFails(p)
    PROVE  DeliveryInv'
<1> DEFINE i == render[p]
<1>1. /\ i \in DOMAIN jobs /\ render' = [render EXCEPT ![p] = 0]
      /\ UNCHANGED <<draft, docs, works>>
  BY DEF RenderFails, DeliveryInv, RendersJobs
<1>2. Typed  BY DEF DeliveryInv
<1>3. \/ jobs[i].status = "running" /\ Status(i, "failed") /\ call' = Stale(jobs[i].draft)
      \/ jobs[i].status = "running" /\ Status(i, "pending") /\ UNCHANGED call
      \/ UNCHANGED <<jobs, call>>
  BY DEF RenderFails, Touched
<1>4. \A k \in DOMAIN jobs : k \in DOMAIN jobs'  BY <1>3 DEF Status
<1>5. render' = [q \in Renderer |-> render'[q]] /\ RendersJobs'
  BY <1>1, <1>4, RendererFreed
<1> HIDE DEF i
<1>6. CASE jobs[i].status = "running" /\ Status(i, "failed") /\ call' = Stale(jobs[i].draft)
  <2>1. "failed" \in Statuses  BY DEF Statuses
  <2>2. Follow(Stale(jobs[i].draft), call)  BY <1>2, StaleCalls
  <2>3. Follow(call', call)  BY <2>2, <1>6
  <2> QED  BY <2>1, <2>3, <1>1, <1>5, <1>6, StatusStep
<1>7. CASE jobs[i].status = "running" /\ Status(i, "pending") /\ UNCHANGED call
  <2>1. "pending" \in Statuses /\ ~ Lost(i)  BY <1>7 DEF Statuses, Lost
  <2>2. Follow(call', call)  BY <1>2, <1>7, Stays
  <2> QED  BY <2>1, <2>2, <1>1, <1>5, <1>7, StatusStep
<1>8. CASE UNCHANGED <<jobs, call>>
  BY <1>1, <1>5, <1>8, FreeStep
<1> QED  BY <1>3, <1>6, <1>7, <1>8

\* A pointer of one draft.
LEMMA PointerMoves ==
    ASSUME Typed, NEW d \in Draft, NEW i \in Nat,
           \/ draft' = draft
           \/ draft' = [draft EXCEPT ![d].preview = i]
           \/ draft' = [draft EXCEPT ![d].export = i]
           \/ draft' = [draft EXCEPT ![d].viewed = i]
    PROVE  /\ draft' \in [Draft -> DraftRow]
           /\ \A e \in Draft : draft'[e].here = draft[e].here /\ draft'[e].version = draft[e].version
<1>1. draft \in [Draft -> DraftRow] /\ draft[d] \in DraftRow  BY DEF Typed
<1> DEFINE shown == [draft[d] EXCEPT !.preview = i]
           made == [draft[d] EXCEPT !.export = i]
           looked == [draft[d] EXCEPT !.viewed = i]
<1>2. shown \in DraftRow /\ shown.here = draft[d].here /\ shown.version = draft[d].version
  BY <1>1 DEF DraftRow
<1>3. made \in DraftRow /\ made.here = draft[d].here /\ made.version = draft[d].version
  BY <1>1 DEF DraftRow
<1>4. looked \in DraftRow /\ looked.here = draft[d].here /\ looked.version = draft[d].version
  BY <1>1 DEF DraftRow
<1>5. \/ draft' = draft
      \/ draft' = [draft EXCEPT ![d] = shown]
      \/ draft' = [draft EXCEPT ![d] = made]
      \/ draft' = [draft EXCEPT ![d] = looked]
  OBVIOUS
<1> HIDE DEF shown, made, looked
<1>6. ASSUME NEW row \in DraftRow, row.here = draft[d].here, row.version = draft[d].version,
             draft' = [draft EXCEPT ![d] = row]
      PROVE  /\ draft' \in [Draft -> DraftRow]
             /\ \A e \in Draft : draft'[e].here = draft[e].here /\ draft'[e].version = draft[e].version
  <2>1. draft' \in [Draft -> DraftRow]  BY <1>1, <1>6
  <2>2. draft'[d] = row /\ \A e \in Draft : e # d => draft'[e] = draft[e]  BY <1>1, <1>6
  <2> QED  BY <2>1, <2>2, <1>6
<1>7. CASE draft' = draft  BY <1>1, <1>7
<1>8. CASE draft' = [draft EXCEPT ![d] = shown]  BY <1>2, <1>6, <1>8
<1>9. CASE draft' = [draft EXCEPT ![d] = made]  BY <1>3, <1>6, <1>9
<1>10. CASE draft' = [draft EXCEPT ![d] = looked]  BY <1>4, <1>6, <1>10
<1> QED  BY <1>5, <1>7, <1>8, <1>9, <1>10

LEMMA NoVersionTold ==
    ASSUME Typed, Follow(call', call), \A e \in Draft : draft'[e].version = draft[e].version
    PROVE  VersionsTold
<1>1. \A c \in Caller : call'[c] # Idle => call'[c].draft \in Draft  BY DEF Follow, CallRow
<1> QED  BY <1>1 DEF VersionsTold

LEMMA CommitStep ==
    ASSUME DeliveryInv, NEW p \in Renderer, RenderCommits(p)
    PROVE  DeliveryInv'
<1> DEFINE i == render[p]
           d == jobs[i].draft
           v == jobs[i].version
           kind == jobs[i].kind
           work == [kind |-> kind, job |-> i, draft |-> d, version |-> v, content |-> docs[d][v]]
<1>1. /\ Typed /\ Versioned /\ JobsStored /\ WorksStored /\ RendersJobs /\ Chained
      /\ ShowsItsVersion /\ OwnWorks /\ DoneIsDelivered
  BY DEF DeliveryInv
<1>2. /\ i \in DOMAIN jobs /\ render' = [render EXCEPT ![p] = 0] /\ UNCHANGED docs
  BY DEF RenderCommits, DeliveryInv, RendersJobs
<1>3. i \in Nat /\ d \in Draft /\ v \in Nat /\ kind \in Kinds  BY <1>1, <1>2, JobRows
<1>4. /\ Stored(d, v) /\ v <= draft[d].version /\ docs[d][v] \in Content
  BY <1>1, <1>2, <1>3 DEF JobsStored, Stored, Versioned
<1>5. work \in WorkRow /\ work.kind = kind /\ work.job = i /\ work.draft = d /\ work.version = v
      /\ work.content = docs[d][v]
  BY <1>3, <1>4 DEF WorkRow
<1>6. \/ /\ jobs[i].status = "running" /\ Status(i, "succeeded") /\ call' = Stale(d)
         /\ works' = works \cup {work}
         /\ draft' = IF ~ Shown(i) THEN draft
                     ELSE IF kind = "preview" THEN [draft EXCEPT ![d].preview = i]
                     ELSE [draft EXCEPT ![d].export = i]
      \/ UNCHANGED <<jobs, works, draft, call>>
  BY DEF RenderCommits, Touched
<1>k. kind = jobs[i].kind /\ d = jobs[i].draft /\ v = jobs[i].version  OBVIOUS
<1> HIDE DEF i, d, v, kind, work
<1>7. CASE /\ jobs[i].status = "running" /\ Status(i, "succeeded") /\ call' = Stale(d)
           /\ works' = works \cup {work}
           /\ draft' = IF ~ Shown(i) THEN draft
                       ELSE IF kind = "preview" THEN [draft EXCEPT ![d].preview = i]
                       ELSE [draft EXCEPT ![d].export = i]
  <2>1. "succeeded" \in Statuses /\ ~ Lost(i)  BY <1>7 DEF Statuses, Lost
  <2>2. /\ JobsGrow /\ Chained' /\ jobs' \in Seq(JobRow) /\ DOMAIN jobs' = DOMAIN jobs
        /\ jobs'[i].status = "succeeded" /\ \A j \in DOMAIN jobs : j # i => jobs'[j] = jobs[j]
    BY <1>1, <1>2, <1>7, <2>1, ChainMoved
  <2>3. /\ draft' \in [Draft -> DraftRow]
        /\ \A e \in Draft : draft'[e].here = draft[e].here /\ draft'[e].version = draft[e].version
    <3>1. \/ draft' = draft
          \/ draft' = [draft EXCEPT ![d].preview = i]
          \/ draft' = [draft EXCEPT ![d].export = i]
      BY <1>7
    <3> QED  BY <3>1, <1>1, <1>3, PointerMoves
  <2>4. Follow(call', call)
    <3>1. Follow(Stale(d), call)  BY <1>1, StaleCalls
    <3> QED  BY <3>1, <1>7
  <2>5. Typed'
    <3>1. render' = [q \in Renderer |-> render'[q]] /\ docs' = [e \in Draft |-> docs'[e]]
      BY <1>1, <1>2 DEF Typed
    <3>2. works' \subseteq WorkRow  BY <1>1, <1>5, <1>7 DEF Typed
    <3>3. call' \in [Caller -> {Idle} \cup CallRow]  BY <2>4 DEF Follow
    <3> QED  BY <3>1, <3>2, <3>3, <2>2, <2>3 DEF Typed
  <2>6. DraftsGrow /\ Versioned'  BY <1>1, <1>2, <2>3, SameDocs
  <2>7. RendersJobs'  BY <1>1, <1>2, <2>2 DEF RendersJobs, Typed
  <2>8. WorksStored'
    <3>1. ASSUME NEW w \in works
          PROVE  w.job \in DOMAIN jobs' /\ draft'[w.draft].here /\ w.version <= draft'[w.draft].version
      <4>1. w.draft \in Draft  BY <1>1 DEF Typed, WorkRow
      <4> QED  BY <4>1, <1>1, <2>2, <2>3 DEF WorksStored
    <3>2. work.job \in DOMAIN jobs' /\ draft'[d].here /\ v <= draft'[d].version
      BY <1>2, <1>3, <1>4, <1>5, <2>2, <2>3 DEF Stored
    <3> QED  BY <3>1, <3>2, <1>5, <1>7 DEF WorksStored
  <2>9. ShowsItsVersion'  BY <1>1, <1>2, <1>5, <1>7 DEF ShowsItsVersion
  <2>10. OwnWorks'
    <3>1. HasNow(kind, d, i)
      <4>1. work \in works'  BY <1>7
      <4>2. v <= draft'[d].version  BY <1>3, <1>4, <2>3
      <4> QED  BY <4>1, <4>2, <1>5 DEF HasNow
    <3>2. kind = "preview" \/ kind = "export"  BY <1>3 DEF Kinds
    <3>3. \A e \in Draft : draft[e].version \in Nat  BY <1>1 DEF Typed, DraftRow
    <3>4. draft = [e \in Draft |-> draft[e]]  BY <1>1 DEF Typed
    <3>5. ASSUME NEW e \in Draft
          PROVE  /\ draft'[e].preview \in {0, draft[e].preview} \/ HasNow("preview", e, draft'[e].preview)
                 /\ draft'[e].viewed \in {0, draft[e].viewed} \/ HasNow("preview", e, draft'[e].viewed)
                 /\ draft'[e].export \in {0, draft[e].export} \/ HasNow("export", e, draft'[e].export)
      <4>0. draft[d] \in DraftRow /\ draft[e] \in DraftRow  BY <1>1, <1>3 DEF Typed
      <4>1. CASE draft' = draft  BY <4>1
      <4>2. CASE kind = "preview" /\ draft' = [draft EXCEPT ![d].preview = i]
        <5>1. CASE e = d
          <6>1. draft'[e] = [draft[d] EXCEPT !.preview = i]  BY <3>4, <4>2, <5>1
          <6>2. /\ draft'[e].preview = i /\ draft'[e].viewed = draft[e].viewed
                /\ draft'[e].export = draft[e].export
            BY <6>1, <4>0, <5>1 DEF DraftRow
          <6> QED  BY <6>2, <3>1, <4>2, <5>1
        <5>2. CASE e # d
          <6>1. draft'[e] = draft[e]  BY <3>4, <4>2, <5>2
          <6> QED  BY <6>1
        <5> QED  BY <5>1, <5>2
      <4>3. CASE kind = "export" /\ draft' = [draft EXCEPT ![d].export = i]
        <5>1. CASE e = d
          <6>1. draft'[e] = [draft[d] EXCEPT !.export = i]  BY <3>4, <4>3, <5>1
          <6>2. /\ draft'[e].export = i /\ draft'[e].viewed = draft[e].viewed
                /\ draft'[e].preview = draft[e].preview
            BY <6>1, <4>0, <5>1 DEF DraftRow
          <6> QED  BY <6>2, <3>1, <4>3, <5>1
        <5>2. CASE e # d
          <6>1. draft'[e] = draft[e]  BY <3>4, <4>3, <5>2
          <6> QED  BY <6>1
        <5> QED  BY <5>1, <5>2
      <4> QED  BY <4>1, <4>2, <4>3, <3>2, <1>7
    <3>6. \A e \in Draft : draft[e].version <= draft'[e].version  BY <2>3, <3>3
    <3>7. works \subseteq works'  BY <1>7
    <3> QED  BY <3>5, <3>6, <3>7, <1>1, <2>3, OwnKept
  <2>11. DoneIsDelivered'
    <3>1. ASSUME NEW j \in DOMAIN jobs'
          PROVE  jobs'[j].status = "succeeded" <=> \E w \in works' : w.job = j /\ w.draft = jobs'[j].draft
      <4>1. CASE j = i
        <5>1. work \in works' /\ jobs'[i].draft = d  BY <1>2, <1>7, <1>k, <2>2 DEF JobsGrow
        <5> QED  BY <5>1, <4>1, <2>2, <1>5
      <4>2. CASE j # i
        <5>1. j \in DOMAIN jobs /\ jobs'[j] = jobs[j]  BY <3>1, <4>2, <2>2
        <5>2. \A w : w \in works' /\ w.job = j => w \in works  BY <4>2, <1>5, <1>7
        <5>3. works \subseteq works'  BY <1>7
        <5> QED  BY <5>1, <5>2, <5>3, <1>1 DEF DoneIsDelivered
      <4> QED  BY <4>1, <4>2
    <3> QED  BY <3>1 DEF DoneIsDelivered
  <2>12. VersionsTold  BY <1>1, <2>3, <2>4, NoVersionTold
  <2> QED  BY <2>2, <2>4, <2>5, <2>6, <2>7, <2>8, <2>9, <2>10, <2>11, <2>12, Step
<1>8. CASE UNCHANGED <<jobs, works, draft, call>>
  <2>1. render' = [q \in Renderer |-> render'[q]] /\ RendersJobs'
    BY <1>2, <1>8, RendererFreed
  <2> QED  BY <2>1, <1>2, <1>8, FreeStep
<1> QED  BY <1>6, <1>7, <1>8

\* The player looks at a preview.
LEMMA ViewStep ==
    ASSUME DeliveryInv, NEW d \in Draft, NEW w \in works, View(d, w)
    PROVE  DeliveryInv'
<1> DEFINE i == w.job
<1>1. /\ Typed /\ Versioned /\ JobsStored /\ WorksStored /\ RendersJobs /\ Chained
      /\ ShowsItsVersion /\ OwnWorks /\ DoneIsDelivered
  BY DEF DeliveryInv
<1>2. /\ w.kind = "preview" /\ w.draft = d /\ draft' = [draft EXCEPT ![d].viewed = i]
      /\ call' = Stale(d) /\ UNCHANGED <<docs, jobs, works, render>>
  BY DEF View, Touched
<1>3. i \in Nat /\ w \in WorkRow  BY <1>1 DEF Typed, WorkRow
<1>4. /\ draft' \in [Draft -> DraftRow]
      /\ \A e \in Draft : draft'[e].here = draft[e].here /\ draft'[e].version = draft[e].version
  BY <1>1, <1>2, <1>3, PointerMoves
<1>5. Follow(call', call)
  <2>1. Follow(Stale(d), call)  BY <1>1, StaleCalls
  <2> QED  BY <2>1, <1>2
<1>6. Typed'  BY <1>1, <1>2, <1>4, <1>5 DEF Typed, Follow
<1>7. DraftsGrow /\ Versioned'  BY <1>1, <1>2, <1>4, SameDocs
<1>8. JobsGrow /\ Chained' /\ DoneIsDelivered'  BY <1>1, <1>2, SameJobs
<1>9. RendersJobs'  BY <1>1, <1>2 DEF RendersJobs
<1>10. WorksStored' /\ ShowsItsVersion'  BY <1>1, <1>2, <1>4, <1>7, <1>8, WorksKept
<1>11. OwnWorks'
  <2>1. \A e \in Draft : draft[e].version \in Nat  BY <1>1 DEF Typed, DraftRow
  <2>2. \A e \in Draft : draft[e].version <= draft'[e].version  BY <2>1, <1>4
  <2>3. HasNow("preview", d, i)
    <3>1. w.version <= draft'[d].version  BY <1>1, <1>2, <1>4 DEF WorksStored
    <3> QED  BY <3>1, <1>2 DEF HasNow
  <2>4. draft = [e \in Draft |-> draft[e]]  BY <1>1 DEF Typed
  <2>5. ASSUME NEW e \in Draft
        PROVE  /\ draft'[e].preview = draft[e].preview /\ draft'[e].export = draft[e].export
               /\ draft'[e].viewed = draft[e].viewed \/ HasNow("preview", e, draft'[e].viewed)
    <3>0. draft[d] \in DraftRow  BY <1>1 DEF Typed
    <3>1. CASE e = d
      <4>1. draft'[e] = [draft[d] EXCEPT !.viewed = i]  BY <2>4, <1>2, <3>1
      <4>2. /\ draft'[e].viewed = i /\ draft'[e].preview = draft[e].preview
            /\ draft'[e].export = draft[e].export
        BY <4>1, <3>0, <3>1 DEF DraftRow
      <4> QED  BY <4>2, <2>3, <3>1
    <3>2. CASE e # d
      <4>1. draft'[e] = draft[e]  BY <2>4, <1>2, <3>2
      <4> QED  BY <4>1
    <3> QED  BY <3>1, <3>2
  <2>6. \A e \in Draft :
           /\ draft[e].version <= draft'[e].version
           /\ draft'[e].preview \in {0, draft[e].preview} \/ HasNow("preview", e, draft'[e].preview)
           /\ draft'[e].viewed \in {0, draft[e].viewed} \/ HasNow("preview", e, draft'[e].viewed)
           /\ draft'[e].export \in {0, draft[e].export} \/ HasNow("export", e, draft'[e].export)
    BY <2>2, <2>5
  <2>7. works \subseteq works'  BY <1>2
  <2> QED  BY <2>6, <2>7, <1>1, <1>4, OwnKept
<1>12. VersionsTold  BY <1>1, <1>4, <1>5, NoVersionTold
<1> QED  BY <1>2, <1>5, <1>6, <1>7, <1>8, <1>9, <1>10, <1>11, <1>12, Step

-----------------------------------------------------------------------------
(* Versions and copies. *)

\* A draft gets its next version: who has read it is stale.
LEMMA VersionStep ==
    ASSUME DeliveryInv, NEW d \in Draft, NEW doc \in Content, NEW row \in DraftRow,
           draft[d].here, row.here, row.version = draft[d].version + 1,
           row.preview \in {0, draft[d].preview}, row.viewed \in {0, draft[d].viewed},
           row.export \in {0, draft[d].export},
           draft' = [draft EXCEPT ![d] = row], WithVersion(d, draft[d].version + 1, doc),
           Touched(d), UNCHANGED <<jobs, works, render>>
    PROVE  DeliveryInv'
<1> DEFINE v == draft[d].version + 1
<1>1. /\ Typed /\ Versioned /\ JobsStored /\ WorksStored /\ RendersJobs /\ Chained
      /\ ShowsItsVersion /\ OwnWorks /\ DoneIsDelivered
  BY DEF DeliveryInv
<1>2. \A e \in Draft : draft[e] \in DraftRow /\ draft[e].version \in Nat
  BY <1>1 DEF Typed, DraftRow
<1>3. v \in Nat /\ v > 0 /\ draft[d].version < v /\ row.version = v  BY <1>2
<1>4. /\ draft' \in [Draft -> DraftRow] /\ draft'[d] = row
      /\ \A e \in Draft : e # d => draft'[e] = draft[e]
  BY <1>1 DEF Typed
<1>5. /\ docs' = [e \in Draft |-> docs'[e]]
      /\ DOMAIN docs'[d] = DOMAIN docs[d] \cup {v} /\ docs'[d][v] = doc
      /\ \A w \in DOMAIN docs[d] : w # v => docs'[d][w] = docs[d][w]
      /\ \A e \in Draft : e # d => docs'[e] = docs[e]
  <2> DEFINE f == [w \in DOMAIN docs[d] \cup {v} |-> IF w = v THEN doc ELSE docs[d][w]]
  <2>1. docs' = [docs EXCEPT ![d] = f] /\ docs = [e \in Draft |-> docs[e]]
    BY <1>1 DEF WithVersion, Typed
  <2>2. docs'[d] = f  BY <2>1
  <2>3. \A e \in Draft : e # d => docs'[e] = docs[e]  BY <2>1
  <2>4. docs' = [e \in Draft |-> docs'[e]]  BY <2>1
  <2>5. DOMAIN f = DOMAIN docs[d] \cup {v} /\ f[v] = doc
        /\ \A w \in DOMAIN docs[d] : w # v => f[w] = docs[d][w]
    OBVIOUS
  <2> QED  BY <2>2, <2>3, <2>4, <2>5
<1>v. v = draft[d].version + 1  OBVIOUS
<1> HIDE DEF v
<1>6. Follow(call', call)
  <2>1. Follow(Stale(d), call)  BY <1>1, StaleCalls
  <2> QED  BY <2>1 DEF Touched
<1>7. Typed'  BY <1>1, <1>4, <1>5, <1>6 DEF Typed, Follow
<1>8. Versioned'
  <2>1. ASSUME NEW e \in Draft
        PROVE  /\ \A w \in DOMAIN docs'[e] : /\ w \in Nat /\ w > 0 /\ w <= draft'[e].version
                                             /\ docs'[e][w] \in Content
               /\ draft'[e].here /\ draft'[e].version > 0 => draft'[e].version \in DOMAIN docs'[e]
               /\ ~ draft'[e].here => draft'[e].version = 0
    <3>1. CASE e # d  BY <3>1, <1>1, <1>4, <1>5 DEF Versioned
    <3>2. CASE e = d
      <4>1. ASSUME NEW w \in DOMAIN docs'[d]
            PROVE  w \in Nat /\ w > 0 /\ w <= v /\ docs'[d][w] \in Content
        <5>1. CASE w = v  BY <5>1, <1>3, <1>5
        <5>2. CASE w # v
          <6>1. w \in DOMAIN docs[d] /\ docs'[d][w] = docs[d][w]  BY <4>1, <5>2, <1>5
          <6>2. w \in Nat /\ w > 0 /\ w <= draft[d].version /\ docs[d][w] \in Content
            BY <6>1, <1>1 DEF Versioned
          <6>3. w <= v  BY <6>2, <1>2, <1>3
          <6> QED  BY <6>1, <6>2, <6>3
        <5> QED  BY <5>1, <5>2
      <4>2. v \in DOMAIN docs'[d]  BY <1>5
      <4> QED  BY <4>1, <4>2, <3>2, <1>3, <1>4
    <3> QED  BY <3>1, <3>2
  <2> QED  BY <2>1 DEF Versioned
<1>9. DraftsGrow
  <2>1. ASSUME NEW e \in Draft
        PROVE  /\ draft[e].here => draft'[e].here
               /\ draft[e].version <= draft'[e].version
               /\ \A w \in DOMAIN docs[e] : w \in DOMAIN docs'[e] /\ docs'[e][w] = docs[e][w]
               /\ \A w \in DOMAIN docs'[e] : w \in DOMAIN docs[e] \/ w > draft[e].version
    <3>1. CASE e # d
      <4>1. draft[e].version <= draft[e].version  BY <1>2
      <4> QED  BY <3>1, <4>1, <1>4, <1>5
    <3>2. CASE e = d
      <4>1. \A w \in DOMAIN docs[d] : w # v
        <5>1. \A w \in DOMAIN docs[d] : w \in Nat /\ w <= draft[d].version  BY <1>1 DEF Versioned
        <5> QED  BY <5>1, <1>2, <1>3
      <4>2. \A w \in DOMAIN docs[d] : w \in DOMAIN docs'[d] /\ docs'[d][w] = docs[d][w]
        BY <4>1, <1>5
      <4>3. \A w \in DOMAIN docs'[d] : w \in DOMAIN docs[d] \/ w > draft[d].version
        BY <1>2, <1>3, <1>5
      <4>4. draft'[d].here /\ draft[d].version <= draft'[d].version  BY <1>2, <1>3, <1>4
      <4> QED  BY <4>2, <4>3, <4>4, <3>2
    <3> QED  BY <3>1, <3>2
  <2> QED  BY <2>1 DEF DraftsGrow
<1>10. JobsGrow /\ Chained' /\ DoneIsDelivered'  BY <1>1, SameJobs
<1>11. RendersJobs'  BY <1>1 DEF RendersJobs
<1>12. WorksStored' /\ ShowsItsVersion'  BY <1>1, <1>4, <1>9, <1>10, WorksKept
<1>13. OwnWorks'
  <2>1. \A e \in Draft :
           /\ draft[e].version <= draft'[e].version
           /\ draft'[e].preview \in {0, draft[e].preview} \/ HasNow("preview", e, draft'[e].preview)
           /\ draft'[e].viewed \in {0, draft[e].viewed} \/ HasNow("preview", e, draft'[e].viewed)
           /\ draft'[e].export \in {0, draft[e].export} \/ HasNow("export", e, draft'[e].export)
    BY <1>4, <1>9 DEF DraftsGrow
  <2> QED  BY <2>1, <1>1, <1>4, OwnKept
<1>14. VersionsTold
  <2>1. \A c \in Caller : call'[c] # Idle => call'[c].draft \in Draft
    BY <1>6 DEF Follow, CallRow
  <2>2. \A c \in Caller : call'[c] # Idle /\ call'[c].draft = d => ~ call'[c].same
    <3>1. \A c \in Caller : Stale(d)[c] # Idle /\ Stale(d)[c].draft = d => ~ Stale(d)[c].same
      BY <1>1, StaleCalls
    <3> QED  BY <3>1 DEF Touched
  <2> QED  BY <2>1, <2>2, <1>4 DEF VersionsTold
<1> QED  BY <1>6, <1>7, <1>8, <1>9, <1>10, <1>11, <1>12, <1>13, <1>14, Step

LEMMA EditStep ==
    ASSUME DeliveryInv, NEW d \in Draft, NEW doc \in Content, Edit(d, doc)
    PROVE  DeliveryInv'
<1> DEFINE v == draft[d].version + 1
           row == [draft[d] EXCEPT !.version = v, !.checked = TRUE]
<1>1. /\ draft[d].here /\ WithVersion(d, v, doc) /\ Touched(d) /\ UNCHANGED <<jobs, works, render>>
      /\ draft' = [draft EXCEPT ![d].version = v, ![d].checked = TRUE]
  BY DEF Edit
<1>2. draft[d] \in DraftRow /\ v \in Nat /\ draft = [e \in Draft |-> draft[e]]
  BY DEF DeliveryInv, Typed, DraftRow
<1>v. v = draft[d].version + 1  OBVIOUS
<1> HIDE DEF v
<1>3. /\ row \in DraftRow /\ row.here = draft[d].here /\ row.version = v
      /\ row.preview = draft[d].preview /\ row.viewed = draft[d].viewed
      /\ row.export = draft[d].export
  BY <1>2 DEF DraftRow
<1>4. draft' = [draft EXCEPT ![d] = row]  BY <1>1, <1>2
<1> HIDE DEF row
<1> QED  BY <1>1, <1>3, <1>4, <1>v, VersionStep

LEMMA RestoreStep ==
    ASSUME DeliveryInv, NEW d \in Draft, NEW u, Restore(d, u)
    PROVE  DeliveryInv'
<1> DEFINE v == draft[d].version + 1
           row == Rewound(d, v)
           doc == docs[d][u]
<1>1. /\ draft[d].here /\ u \in DOMAIN docs[d] /\ WithVersion(d, v, doc) /\ Touched(d)
      /\ draft' = [draft EXCEPT ![d] = row]
      /\ UNCHANGED <<jobs, works, render>>
  BY DEF Restore
<1>2. doc \in Content  BY <1>1 DEF DeliveryInv, Versioned
<1>3. draft[d] \in DraftRow /\ v \in Nat  BY DEF DeliveryInv, Typed, DraftRow
<1>v. v = draft[d].version + 1  OBVIOUS
<1> HIDE DEF v, doc
<1>4. /\ row \in DraftRow /\ row.here = draft[d].here /\ row.version = v
      /\ row.preview = 0 /\ row.viewed = draft[d].viewed /\ row.export = 0
  BY <1>3 DEF DraftRow, Rewound
<1> HIDE DEF row
<1> QED  BY <1>1, <1>2, <1>4, <1>v, VersionStep

\* A copy is a draft there was not: nothing is of it yet.
LEMMA CopyIsNew ==
    ASSUME DeliveryInv, NEW e \in Draft, ~ draft[e].here
    PROVE  /\ draft[e].version = 0 /\ DOMAIN docs[e] = {}
           /\ \A i \in DOMAIN jobs : jobs[i].draft # e
           /\ \A w \in works : w.draft # e
           /\ \A c \in Caller : call[c] # Idle => call[c].draft # e
<1>1. draft[e].version = 0  BY DEF DeliveryInv, Versioned
<1>2. \A v \in DOMAIN docs[e] : v \in Nat /\ v > 0 /\ v <= 0
  BY <1>1 DEF DeliveryInv, Versioned
<1>3. DOMAIN docs[e] = {}  BY <1>2
<1>4. \A i \in DOMAIN jobs : jobs[i].draft # e  BY DEF DeliveryInv, JobsStored, Stored
<1>5. \A w \in works : w.draft # e  BY DEF DeliveryInv, WorksStored
<1>6. \A c \in Caller : call[c] # Idle => call[c].draft # e  BY DEF DeliveryInv, CallsTrue, Stored
<1> QED  BY <1>1, <1>3, <1>4, <1>5, <1>6

LEMMA CopyRows ==
    ASSUME Typed, NEW d \in Draft, NEW e
    PROVE  /\ \A w \in works : w.draft = d =>
                [w EXCEPT !.draft = e] \in CopiedWorks(d, e)
           /\ \A w \in CopiedWorks(d, e) : \E x \in works :
                /\ x.draft = d /\ w = [x EXCEPT !.draft = e]
BY DEF CopiedWorks

LEMMA CopyRow ==
    ASSUME Typed, NEW x \in works, NEW e \in Draft
    PROVE  LET w == [x EXCEPT !.draft = e] IN
           /\ w \in WorkRow /\ w.draft = e /\ w.kind = x.kind /\ w.job = x.job
           /\ w.version = x.version /\ w.content = x.content
<1>1. x \in WorkRow  BY DEF Typed
<1> QED  BY <1>1 DEF WorkRow

LEMMA CopyStepHolds ==
    ASSUME DeliveryInv, NEW d \in Draft, NEW e \in Draft, Copy(d, e)
    PROVE  DeliveryInv'
<1> DEFINE v == draft[d].version
           copies == CopiedWorks(d, e)
<1>1. /\ Typed /\ Versioned /\ JobsStored /\ WorksStored /\ RendersJobs /\ Chained
      /\ ShowsItsVersion /\ OwnWorks /\ DoneIsDelivered /\ CallsTrue
  BY DEF DeliveryInv
<1>2. /\ draft[d].here /\ ~ draft[e].here /\ d # e
      /\ draft' = [draft EXCEPT ![e] = draft[d]]
      /\ docs' = [docs EXCEPT ![e] = [u \in DOMAIN docs[d] \cap {v} |-> docs[d][u]]]
      /\ works' = works \cup copies /\ UNCHANGED <<jobs, call, render>>
  BY DEF Copy
<1>3. /\ draft[e].version = 0 /\ DOMAIN docs[e] = {}
      /\ \A i \in DOMAIN jobs : jobs[i].draft # e
      /\ \A w \in works : w.draft # e
      /\ \A c \in Caller : call[c] # Idle => call[c].draft # e
  BY <1>2, CopyIsNew
<1>4. \A b \in Draft : draft[b] \in DraftRow /\ draft[b].version \in Nat
  BY <1>1 DEF Typed, DraftRow
<1>5. /\ draft' \in [Draft -> DraftRow] /\ draft'[e] = draft[d]
      /\ \A b \in Draft : b # e => draft'[b] = draft[b]
  BY <1>1, <1>2, <1>4 DEF Typed
<1>6. /\ docs' = [b \in Draft |-> docs'[b]]
      /\ DOMAIN docs'[e] = DOMAIN docs[d] \cap {v}
      /\ \A u \in DOMAIN docs'[e] : docs'[e][u] = docs[d][u]
      /\ \A b \in Draft : b # e => docs'[b] = docs[b]
  <2> DEFINE f == [u \in DOMAIN docs[d] \cap {v} |-> docs[d][u]]
  <2>1. docs' = [docs EXCEPT ![e] = f] /\ docs = [b \in Draft |-> docs[b]]
    BY <1>1, <1>2 DEF Typed
  <2>2. docs'[e] = f  BY <2>1
  <2>3. \A b \in Draft : b # e => docs'[b] = docs[b]  BY <2>1
  <2>4. docs' = [b \in Draft |-> docs'[b]]  BY <2>1
  <2> QED  BY <2>2, <2>3, <2>4
<1>v. v = draft[d].version  OBVIOUS
<1>7. \A w \in copies : \E x \in works : x.draft = d /\ w = [x EXCEPT !.draft = e]
  BY <1>1, CopyRows
<1>8. \A w \in works : w.draft = d => [w EXCEPT !.draft = e] \in copies
  BY <1>1, CopyRows
<1> HIDE DEF v, copies
\* What a copied row is of.
<1>9. ASSUME NEW w \in copies
      PROVE  \E x \in works :
               /\ w \in WorkRow /\ x.draft = d /\ w.draft = e /\ w.kind = x.kind /\ w.job = x.job
               /\ w.version = x.version /\ w.content = x.content
  <2>1. PICK x \in works : x.draft = d /\ w = [x EXCEPT !.draft = e]  BY <1>7, <1>9
  <2> DEFINE y == [x EXCEPT !.draft = e]
  <2>2. /\ y \in WorkRow /\ y.draft = e /\ y.kind = x.kind /\ y.job = x.job
        /\ y.version = x.version /\ y.content = x.content
    BY <1>1, CopyRow
  <2>3. w = y  BY <2>1
  <2> HIDE DEF y
  <2> QED  BY <2>1, <2>2, <2>3
<1>10. Typed'
  <2>1. works' \subseteq WorkRow  BY <1>1, <1>2, <1>9 DEF Typed
  <2> QED  BY <2>1, <1>1, <1>2, <1>5, <1>6 DEF Typed
<1>11. Versioned'
  <2>1. ASSUME NEW b \in Draft
        PROVE  /\ \A u \in DOMAIN docs'[b] : /\ u \in Nat /\ u > 0 /\ u <= draft'[b].version
                                             /\ docs'[b][u] \in Content
               /\ draft'[b].here /\ draft'[b].version > 0 => draft'[b].version \in DOMAIN docs'[b]
               /\ ~ draft'[b].here => draft'[b].version = 0
    <3>1. CASE b # e  BY <3>1, <1>1, <1>5, <1>6 DEF Versioned
    <3>2. CASE b = e
      <4>1. \A u \in DOMAIN docs[d] : /\ u \in Nat /\ u > 0 /\ u <= draft[d].version
                                      /\ docs[d][u] \in Content
        BY <1>1 DEF Versioned
      <4>2. draft[d].version > 0 => draft[d].version \in DOMAIN docs[d]
        BY <1>1, <1>2 DEF Versioned
      <4>3. \A u \in DOMAIN docs'[e] : /\ u \in Nat /\ u > 0 /\ u <= draft[d].version
                                       /\ docs'[e][u] \in Content
        BY <4>1, <1>6
      <4>4. draft[d].version > 0 => draft[d].version \in DOMAIN docs'[e]
        BY <4>2, <1>6, <1>v
      <4> QED  BY <4>3, <4>4, <3>2, <1>2, <1>5
    <3> QED  BY <3>1, <3>2
  <2> QED  BY <2>1 DEF Versioned
<1>12. DraftsGrow
  <2>1. ASSUME NEW b \in Draft
        PROVE  /\ draft[b].here => draft'[b].here
               /\ draft[b].version <= draft'[b].version
               /\ \A u \in DOMAIN docs[b] : u \in DOMAIN docs'[b] /\ docs'[b][u] = docs[b][u]
               /\ \A u \in DOMAIN docs'[b] : u \in DOMAIN docs[b] \/ u > draft[b].version
    <3>1. CASE b # e
      <4>1. draft[b].version <= draft[b].version  BY <1>4
      <4> QED  BY <3>1, <4>1, <1>5, <1>6
    <3>2. CASE b = e
      <4>1. draft[e].version <= draft'[e].version  BY <1>3, <1>4, <1>5
      <4>2. \A u \in DOMAIN docs'[e] : u > draft[e].version
        BY <1>1, <1>3, <1>6 DEF Versioned
      <4> QED  BY <4>1, <4>2, <3>2, <1>2, <1>3
    <3> QED  BY <3>1, <3>2
  <2> QED  BY <2>1 DEF DraftsGrow
<1>13. JobsGrow /\ Chained' /\ DOMAIN jobs' = DOMAIN jobs  BY <1>1, <1>2, SameJobs
<1>14. RendersJobs'  BY <1>1, <1>2 DEF RendersJobs
<1>15. WorksStored'
  <2>1. ASSUME NEW w \in works
        PROVE  w.job \in DOMAIN jobs' /\ draft'[w.draft].here /\ w.version <= draft'[w.draft].version
    <3>1. w.draft \in Draft /\ w.draft # e  BY <1>1, <1>3 DEF Typed, WorkRow
    <3> QED  BY <3>1, <1>1, <1>5, <1>13 DEF WorksStored
  <2>2. ASSUME NEW w \in copies
        PROVE  w.job \in DOMAIN jobs' /\ draft'[w.draft].here /\ w.version <= draft'[w.draft].version
    <3>1. PICK x \in works : /\ x.draft = d /\ w.draft = e /\ w.job = x.job
                             /\ w.version = x.version
      BY <1>9
    <3> QED  BY <3>1, <1>1, <1>2, <1>5, <1>13 DEF WorksStored
  <2> QED  BY <2>1, <2>2, <1>2 DEF WorksStored
<1>16. ShowsItsVersion'
  <2>1. ASSUME NEW w \in works, w.version \in DOMAIN docs'[w.draft]
        PROVE  docs'[w.draft][w.version] = w.content
    <3>1. w.draft \in Draft /\ w.draft # e  BY <1>1, <1>3 DEF Typed, WorkRow
    <3>2. docs'[w.draft] = docs[w.draft]  BY <3>1, <1>6
    <3>3. w.version \in DOMAIN docs[w.draft] => docs[w.draft][w.version] = w.content
      BY <1>1 DEF ShowsItsVersion
    <3> QED  BY <3>2, <3>3, <2>1
  <2>2. ASSUME NEW w \in copies, w.version \in DOMAIN docs'[w.draft]
        PROVE  docs'[w.draft][w.version] = w.content
    <3>1. PICK x \in works : /\ x.draft = d /\ w.draft = e /\ w.version = x.version
                             /\ w.content = x.content
      BY <1>9
    <3>2. w.version \in DOMAIN docs'[e]  BY <2>2, <3>1
    <3>3. w.version \in DOMAIN docs[d] /\ docs'[e][w.version] = docs[d][w.version]
      BY <3>2, <1>6
    <3>4. docs[d][x.version] = x.content  BY <3>1, <3>3, <1>1 DEF ShowsItsVersion
    <3> QED  BY <3>1, <3>3, <3>4
  <2> QED  BY <2>1, <2>2, <1>2 DEF ShowsItsVersion
<1>17. OwnWorks'
  <2>1. ASSUME NEW b \in Draft
        PROVE  /\ draft'[b].preview # 0 => HasNow("preview", b, draft'[b].preview)
               /\ draft'[b].viewed # 0 => HasNow("preview", b, draft'[b].viewed)
               /\ draft'[b].export # 0 => HasNow("export", b, draft'[b].export)
    <3>1. ASSUME NEW a \in Draft, NEW kind, NEW i, draft'[b] = draft[a],
                 b = a \/ (a = d /\ b = e),
                 \E w \in works : w.kind = kind /\ w.draft = a /\ w.job = i
                                  /\ w.version <= draft[a].version
          PROVE  HasNow(kind, b, i)
      <4>1. PICK x \in works : /\ x.kind = kind /\ x.draft = a /\ x.job = i
                               /\ x.version <= draft[a].version
        BY <3>1
      <4>2. CASE b = a
        <5>1. x \in works'  BY <1>2
        <5> QED  BY <5>1, <4>1, <4>2, <3>1 DEF HasNow
      <4>3. CASE a = d /\ b = e
        <5> DEFINE y == [x EXCEPT !.draft = e]
        <5>1. y \in works'  BY <4>1, <4>3, <1>2, <1>8
        <5>2. y.draft = e /\ y.kind = x.kind /\ y.job = x.job /\ y.version = x.version
          BY <1>1, CopyRow
        <5> HIDE DEF y
        <5> QED  BY <5>1, <5>2, <4>1, <4>3, <3>1 DEF HasNow
      <4> QED  BY <4>2, <4>3, <3>1
    <3>2. PICK a \in Draft : draft'[b] = draft[a] /\ (b = a \/ (a = d /\ b = e))
      BY <1>5
    <3>3. /\ draft[a].preview # 0 => HasNow("preview", b, draft[a].preview)
          /\ draft[a].viewed # 0 => HasNow("preview", b, draft[a].viewed)
          /\ draft[a].export # 0 => HasNow("export", b, draft[a].export)
      BY <3>1, <3>2, <1>1 DEF OwnWorks
    <3> QED  BY <3>2, <3>3
  <2> QED  BY <2>1 DEF OwnWorks, HasNow
<1>18. DoneIsDelivered'
  <2>1. ASSUME NEW i \in DOMAIN jobs
        PROVE  jobs[i].status = "succeeded" <=> \E w \in works' : w.job = i /\ w.draft = jobs[i].draft
    <3>1. \A w \in copies : w.draft # jobs[i].draft  BY <1>3, <1>9
    <3>2. jobs[i].status = "succeeded" <=> \E w \in works : w.job = i /\ w.draft = jobs[i].draft
      BY <1>1 DEF DoneIsDelivered
    <3> QED  BY <3>1, <3>2, <1>2
  <2> QED  BY <2>1, <1>2 DEF DoneIsDelivered
<1>19. Follow(call', call)  BY <1>1, <1>2, Stays
<1>20. VersionsTold
  <2>1. \A c \in Caller : call[c] # Idle => call[c].draft \in Draft /\ call[c].draft # e
    BY <1>1, <1>3, CallRows
  <2> QED  BY <2>1, <1>2, <1>5 DEF VersionsTold
<1> QED
  BY <1>2, <1>10, <1>11, <1>12, <1>13, <1>14, <1>15, <1>16, <1>17, <1>18, <1>19, <1>20, Step

-----------------------------------------------------------------------------
(* The steps together. *)

LEMMA InitHolds == Init => DeliveryInv
<1> SUFFICES ASSUME Init PROVE DeliveryInv
  OBVIOUS
<1>1. /\ jobs = <<>> /\ works = {} /\ call = [c \in Caller |-> Idle]
      /\ render = [p \in Renderer |-> 0] /\ docs = [d \in Draft |-> <<>>]
      /\ DOMAIN jobs = {}
  BY DEF Init
<1>2. ASSUME NEW d \in Draft
      PROVE  /\ draft[d] \in DraftRow /\ draft[d].version = 0 /\ draft[d].preview = 0
             /\ draft[d].viewed = 0 /\ draft[d].export = 0
  <2> DEFINE row == [NoDraft EXCEPT !.here = (d = Original)]
  <2>1. draft[d] = row  BY DEF Init
  <2>2. /\ row \in DraftRow /\ row.version = 0 /\ row.preview = 0
        /\ row.viewed = 0 /\ row.export = 0
    BY DEF NoDraft, DraftRow
  <2> QED  BY <2>1, <2>2
<1>3. draft \in [Draft -> DraftRow]
  <2>1. draft = [d \in Draft |-> draft[d]]  BY DEF Init
  <2> QED  BY <2>1, <1>2
<1>4. jobs \in Seq(JobRow)  BY <1>1
<1>5. Typed
  <2>1. docs = [d \in Draft |-> docs[d]] /\ render = [p \in Renderer |-> render[p]]  BY <1>1
  <2>2. call \in [Caller -> {Idle} \cup CallRow]  BY <1>1
  <2> QED  BY <2>1, <2>2, <1>1, <1>3, <1>4 DEF Typed
<1>6. Versioned
  <2>1. \A d \in Draft : DOMAIN docs[d] = {}  BY <1>1
  <2> QED  BY <2>1, <1>2 DEF Versioned
<1>7. JobsStored /\ Chained /\ DoneIsDelivered  BY <1>1 DEF JobsStored, Chained, DoneIsDelivered
<1>8. WorksStored /\ ShowsItsVersion  BY <1>1 DEF WorksStored, ShowsItsVersion
<1>9. RendersJobs /\ CallsTrue  BY <1>1 DEF RendersJobs, CallsTrue
<1>10. OwnWorks  BY <1>2 DEF OwnWorks
<1> QED  BY <1>5, <1>6, <1>7, <1>8, <1>9, <1>10 DEF DeliveryInv

\* A step that appends no job.
LEMMA NothingEnqueued ==
    ASSUME DOMAIN jobs' = DOMAIN jobs
    PROVE  OnTarget
BY DEF OnTarget

LEMMA DraftStepKeeps == DeliveryInv /\ (CopyStep \/ DraftStep) => DeliveryInv' /\ OnTarget
<1> SUFFICES ASSUME DeliveryInv, CopyStep \/ DraftStep PROVE DeliveryInv' /\ OnTarget
  OBVIOUS
<1>1. Busy \subseteq Draft  BY DeliverablesAssumption
<1>2. UNCHANGED jobs
  BY DEF CopyStep, DraftStep, Copy, Edit, Restore, View, LeaseMoves
<1>3. OnTarget  BY <1>2, NothingEnqueued
<1>4. CASE CopyStep  BY <1>3, <1>4, CopyStepHolds DEF CopyStep
<1>5. CASE DraftStep
  <2>1. ASSUME NEW d \in Busy, NEW doc \in Content, Edit(d, doc) PROVE DeliveryInv'
    BY <2>1, <1>1, EditStep
  <2>2. ASSUME NEW d \in Busy, NEW v, Restore(d, v) PROVE DeliveryInv'
    BY <2>2, <1>1, RestoreStep
  <2>3. ASSUME NEW d \in Busy, NEW w \in works, View(d, w) PROVE DeliveryInv'
    BY <2>3, <1>1, ViewStep
  <2>4. ASSUME NEW d \in Busy, LeaseMoves(d) PROVE DeliveryInv'
    BY <2>4, <1>1, LeaseStep
  <2> QED  BY <1>3, <1>5, <2>1, <2>2, <2>3, <2>4 DEF DraftStep
<1> QED  BY <1>4, <1>5

LEMMA CallStepKeeps == DeliveryInv /\ CallStep => DeliveryInv' /\ OnTarget
<1> SUFFICES ASSUME DeliveryInv, CallStep PROVE DeliveryInv' /\ OnTarget
  OBVIOUS
<1>1. Busy \subseteq Draft  BY DeliverablesAssumption
<1>2. UNCHANGED jobs => OnTarget  BY NothingEnqueued
<1>3. ASSUME NEW c \in Agent, NEW d \in Busy, AgentReads(c, d) PROVE DeliveryInv' /\ OnTarget
  <2>1. UNCHANGED jobs  BY <1>3 DEF AgentReads, rows
  <2> QED  BY <2>1, <1>1, <1>2, <1>3, AgentReadsStep
<1>4. ASSUME NEW c \in Agent, AgentRefuses(c) PROVE DeliveryInv' /\ OnTarget
  <2>1. UNCHANGED jobs  BY <1>4 DEF AgentRefuses
  <2> QED  BY <2>1, <1>2, <1>4, AgentRefusesStep
<1>5. ASSUME NEW c \in Agent, AgentConfirms(c) PROVE DeliveryInv' /\ OnTarget
  <2>1. UNCHANGED jobs  BY <1>5 DEF AgentConfirms
  <2> QED  BY <2>1, <1>2, <1>5, AgentConfirmsStep
<1>6. ASSUME NEW c \in Agent, AgentEnqueues(c) PROVE DeliveryInv' /\ OnTarget
  BY <1>6, AgentEnqueuesStep
<1>7. ASSUME NEW c \in User, NEW d \in Busy, UserAsks(c, d) PROVE DeliveryInv' /\ OnTarget
  <2>1. UNCHANGED jobs  BY <1>7 DEF UserAsks, rows
  <2> QED  BY <2>1, <1>1, <1>2, <1>7, UserAsksStep
<1>8. ASSUME NEW c \in User, NEW i \in DOMAIN jobs, UserRetries(c, i)
      PROVE  DeliveryInv' /\ OnTarget
  <2>1. UNCHANGED jobs  BY <1>8 DEF UserRetries, rows
  <2> QED  BY <2>1, <1>2, <1>8, UserRetriesStep
<1>9. ASSUME NEW c \in User, UserTries(c) PROVE DeliveryInv' /\ OnTarget
  <2>1. UNCHANGED jobs  BY <1>9 DEF UserTries, rows
  <2> QED  BY <2>1, <1>2, <1>9, UserTriesStep
<1>10. ASSUME NEW c \in User, UserApplies(c) PROVE DeliveryInv' /\ OnTarget
  BY <1>10, UserAppliesStep
<1> QED  BY <1>3, <1>4, <1>5, <1>6, <1>7, <1>8, <1>9, <1>10 DEF CallStep

LEMMA RenderStepKeeps == DeliveryInv /\ RenderStep => DeliveryInv' /\ OnTarget
<1> SUFFICES ASSUME DeliveryInv, RenderStep PROVE DeliveryInv' /\ OnTarget
  OBVIOUS
<1>1. OnTarget
  <2>1. DOMAIN jobs' = DOMAIN jobs
    BY DEF RenderStep, RenderCommits, RenderFails, Progress, Claim, CancelJob, Status, rows
  <2> QED  BY <2>1, NothingEnqueued
<1>2. ASSUME NEW p \in Renderer, RenderCommits(p) PROVE DeliveryInv'  BY <1>2, CommitStep
<1>3. ASSUME NEW p \in Renderer, RenderFails(p) PROVE DeliveryInv'  BY <1>3, FailStep
<1>4. ASSUME NEW p \in Renderer, Progress(p) PROVE DeliveryInv'  BY <1>4, ProgressStep
<1>5. ASSUME NEW p \in Renderer, NEW i \in DOMAIN jobs, Claim(p, i) PROVE DeliveryInv'
  BY <1>5, ClaimStep
<1>6. ASSUME NEW i \in DOMAIN jobs, CancelJob(i) PROVE DeliveryInv'  BY <1>6, CancelStep
<1> QED  BY <1>1, <1>2, <1>3, <1>4, <1>5, <1>6 DEF RenderStep

LEMMA NextKeeps == DeliveryInv /\ [Next]_vars => DeliveryInv' /\ (OnTarget \/ UNCHANGED vars)
BY DraftStepKeeps, CallStepKeeps, RenderStepKeeps, StutterStep DEF Next

-----------------------------------------------------------------------------
\* The rows of drafts, jobs, works and calls agree, whatever crosses: the jobs of
\* a target are one chain of retries, what a call has read is true while it is not
\* stale, and no version is given out twice.
THEOREM DeliveriesInvariant == Spec => []DeliveryInv
BY InitHolds, NextKeeps, PTL DEF Spec

\* DeliveriesSound, for any number of drafts, callers, renderers and jobs: one
\* live render of a target, shown for the version it was made of, reached through
\* a pointer of its own draft, there exactly when its job succeeded, and asked for
\* of the version in force.
THEOREM DeliveriesStaySound == Spec => DeliveriesSound
<1>1. DeliveryInv => OneLiveRender /\ ShowsItsVersion /\ OwnWorks /\ DoneIsDelivered
  BY ChainIsLive DEF DeliveryInv
<1>2. DeliveryInv /\ [Next]_vars =>
        [\A i \in DOMAIN jobs' \ DOMAIN jobs :
           LET j == jobs'[i] IN
           /\ j.retry = 0 => j.version = draft[j.draft].version
           /\ j.kind = "export" => j.draft \notin lease]_vars
  BY NextKeeps DEF OnTarget
<1> QED  BY <1>1, <1>2, DeliveriesInvariant, PTL DEF Spec, DeliveriesSound, EnqueuedOnTarget
=============================================================================
