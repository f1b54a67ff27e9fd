--------------------------- MODULE JobQueueProofs ---------------------------
(***************************************************************************)
(* Proofs about JobQueue for every set of jobs, lanes and processes, every *)
(* retry budget and every timeout.                                         *)
(***************************************************************************)
EXTENDS JobQueue, TLAPS

\* The back-off is a natural number of ticks, whatever the attempt.
LEMMA RetryDelayNat == ASSUME NEW a \in Nat PROVE RetryDelay(a) \in Nat
<1>1. CASE a < 1 \/ a >= 7
  BY <1>1 DEF RetryDelay
<1>2. CASE a \in {1, 2, 3, 4, 5, 6}
  BY <1>2 DEF RetryDelay
<1> QED  BY <1>1, <1>2

\* Initially every variable has its shape.
LEMMA InitTypeOK == Init => TypeOK
BY QueueAssumption DEF Init, TypeOK, Row, Worker, Idle, Busy, Snapshot, Verdict, Open, Settled

\* ReleaseClaim, ScheduleRetry and the requeue of RecoverStale keep a table of rows.
LEMMA ToPendingType ==
  ASSUME row \in [Job -> Row], NEW j \in Job, NEW a \in Nat, NEW d \in Nat,
         ToPending(j, a, d)
  PROVE  row' \in [Job -> Row]
<1> DEFINE r == [row[j] EXCEPT !.status = "pending", !.claim = 0, !.hb = 0,
                               !.attempts = a, !.wait = d]
<1>1. 0 \in 0..(Timeout + 1)
  BY QueueAssumption
<1>2. r \in Row
  BY <1>1 DEF Row, Open
<1>3. row' = [row EXCEPT ![j] = r]
  BY DEF ToPending
<1> QED  BY <1>2, <1>3

\* A terminal event keeps the table, the log and the list well formed.
LEMMA TerminalType ==
  ASSUME row \in [Job -> Row], log \in [Job -> SUBSET Verdict], listed \subseteq Job,
         NEW j \in Job, NEW e \in Verdict, NEW a \in Nat, Terminal(j, e, a)
  PROVE  /\ row' \in [Job -> Row]
         /\ log' \in [Job -> SUBSET Verdict]
         /\ listed' \subseteq Job
<1>1. StatusOf[e] \in Settled
  BY DEF StatusOf, Settled, Verdict
<1> QED  BY <1>1 DEF Terminal, Row, Settled, Verdict

\* A row that is claimed, or whose heartbeat is renewed, is still a row.
LEMMA BeatType ==
  ASSUME NEW r \in Row, NEW c \in Nat
  PROVE  /\ [r EXCEPT !.hb = 0] \in Row
         /\ [r EXCEPT !.status = "running", !.hb = 0, !.claim = c] \in Row
<1>1. 0 \in 0..(Timeout + 1)
  BY QueueAssumption
<1> QED  BY <1>1 DEF Row, Open

\* Enqueue and JobProgress write the status column alone.
LEMMA StatusType ==
  ASSUME NEW r \in Row, NEW st \in Open
  PROVE  [r EXCEPT !.status = st] \in Row
BY DEF Row

LEMMA IdleType == Idle \in Worker /\ Idle.pc = "idle"
BY DEF Idle, Worker

\* Replacing one lane's locals keeps the lanes' part of TypeOK.
LEMMA LaneType ==
  ASSUME TypeOK, NEW l \in Lane, NEW w \in Worker,
         w.pc # "idle" => w.job \in Job /\ w.claim > 0,
         lane' = [lane EXCEPT ![l] = w]
  PROVE  /\ lane' \in [Lane -> Worker]
         /\ \A m \in Lane : Busy(m)' => lane'[m].job \in Job /\ lane'[m].claim > 0
BY DEF TypeOK, Busy

\* Cancelling a handler's context keeps the lanes' part of TypeOK.
LEMMA CtxType ==
  ASSUME TypeOK, NEW l \in Lane, lane' = [lane EXCEPT ![l].ctx = "cancelled"]
  PROVE  /\ lane' \in [Lane -> Worker]
         /\ \A m \in Lane : Busy(m)' => lane'[m].job \in Job /\ lane'[m].claim > 0
<1> DEFINE w == [lane[l] EXCEPT !.ctx = "cancelled"]
<1>1. w \in Worker /\ w.pc = lane[l].pc /\ w.job = lane[l].job /\ w.claim = lane[l].claim
  BY DEF TypeOK, Worker
<1>2. lane' = [lane EXCEPT ![l] = w]  OBVIOUS
<1>3. w.pc # "idle" => w.job \in Job /\ w.claim > 0
  BY <1>1 DEF TypeOK, Busy
<1> HIDE DEF w
<1> QED  BY <1>1, <1>2, <1>3, LaneType

\* Every step keeps the type invariant.
LEMMA NextTypeOK == TypeOK /\ [Next]_vars => TypeOK'
<1> SUFFICES ASSUME TypeOK, [Next]_vars PROVE TypeOK'
  OBVIOUS
<1> USE QueueAssumption
<1>1. ASSUME NEW j \in Job, Enqueue(j) PROVE TypeOK'
  <2>1. row' = [row EXCEPT ![j] = [row[j] EXCEPT !.status = "pending"]]
    BY <1>1 DEF Enqueue
  <2>2. row' \in [Job -> Row]
    BY <2>1, StatusType DEF TypeOK, Open
  <2> QED  BY <1>1, <2>2 DEF Enqueue, TypeOK, Busy
<1>2. ASSUME NEW j \in Job, Cancel(j) PROVE TypeOK'
  <2>1. row[j].attempts \in Nat  BY DEF TypeOK, Row
  <2>2. /\ row' \in [Job -> Row]
        /\ log' \in [Job -> SUBSET Verdict]
        /\ listed' \subseteq Job
    BY <1>2, <2>1, TerminalType DEF TypeOK, Cancel, Verdict
  <2> QED  BY <1>2, <2>2 DEF Cancel, TypeOK, Busy
<1>3. ASSUME NEW l \in Lane, Claim(l) PROVE TypeOK'
  <2>1. PICK j \in Due(l) :
          /\ row' = [row EXCEPT ![j] = [@ EXCEPT !.status = "running", !.hb = 0,
                                                 !.claim = claims[j] + 1]]
          /\ claims' = [claims EXCEPT ![j] = @ + 1]
          /\ lane' = [lane EXCEPT ![l] = [Idle EXCEPT !.pc = "run", !.job = j,
                        !.claim = claims[j] + 1, !.attempts = row[j].attempts]]
    BY <1>3 DEF Claim
  <2>2. j \in Job  BY <2>1 DEF Due
  <2>3. claims[j] + 1 \in Nat /\ claims[j] + 1 > 0 /\ row[j].attempts \in Nat
    BY <2>2 DEF TypeOK, Row
  <2>4. row' \in [Job -> Row]
    <3> DEFINE r == [row[j] EXCEPT !.status = "running", !.hb = 0, !.claim = claims[j] + 1]
    <3>1. r \in Row  BY <2>2, <2>3, BeatType DEF TypeOK
    <3>2. row' = [row EXCEPT ![j] = r]  BY <2>1
    <3> QED  BY <3>1, <3>2 DEF TypeOK
  <2>5. claims' \in [Job -> Nat]
    BY <2>1, <2>3 DEF TypeOK
  <2>6. /\ lane' \in [Lane -> Worker]
        /\ \A m \in Lane : Busy(m)' => lane'[m].job \in Job /\ lane'[m].claim > 0
    <3> DEFINE w == [Idle EXCEPT !.pc = "run", !.job = j,
                                 !.claim = claims[j] + 1, !.attempts = row[j].attempts]
    <3>1. w \in Worker /\ w.job = j /\ w.claim = claims[j] + 1
      BY <2>2, <2>3 DEF Worker, Idle
    <3>2. lane' = [lane EXCEPT ![l] = w]  BY <2>1
    <3> HIDE DEF w
    <3> QED  BY <3>1, <3>2, <2>2, <2>3, LaneType
  <2> QED  BY <1>3, <2>4, <2>5, <2>6 DEF Claim, TypeOK
<1>4. ASSUME NEW l \in Lane, Heartbeat(l) PROVE TypeOK'
  <2>1. CASE Owns(l)
    <3>1. lane[l].job \in Job  BY <1>4 DEF Heartbeat, TypeOK, Busy
    <3>2. row' = [row EXCEPT ![lane[l].job] = [row[lane[l].job] EXCEPT !.hb = 0]]
      BY <1>4, <2>1 DEF Heartbeat
    <3>3. row' \in [Job -> Row]
      BY <3>1, <3>2, BeatType DEF TypeOK
    <3>4. recov' \in [Proc -> SUBSET Snapshot]
      <4>1. ASSUME NEW s \in Snapshot
            PROVE  [s EXCEPT !.same = @ /\ s.job # lane[l].job] \in Snapshot
        BY DEF Snapshot
      <4> QED  BY <1>4, <2>1, <4>1 DEF Heartbeat, TypeOK
    <3> QED  BY <1>4, <2>1, <3>3, <3>4 DEF Heartbeat, TypeOK, Busy
  <2>2. CASE ~ Owns(l)
    BY <1>4, <2>2, CtxType DEF Heartbeat, TypeOK
  <2> QED  BY <2>1, <2>2
<1>5. ASSUME NEW l \in Lane, HeartbeatError(l) PROVE TypeOK'
  <2>1. lane' = [lane EXCEPT ![l].ctx = "cancelled"] /\ mishaps' \in 0..MaxMishaps
    BY <1>5 DEF HeartbeatError, Mishap, TypeOK
  <2> QED  BY <1>5, <2>1, CtxType DEF HeartbeatError, TypeOK
<1>6. ASSUME NEW l \in Lane, Progress(l) PROVE TypeOK'
  <2>1. lane[l].job \in Job  BY <1>6 DEF Progress, TypeOK, Busy
  <2>2. row' = [row EXCEPT ![lane[l].job] = [row[lane[l].job] EXCEPT !.status = "running"]]
    BY <1>6 DEF Progress
  <2>3. row' \in [Job -> Row]
    BY <2>1, <2>2, StatusType DEF TypeOK, Open
  <2> QED  BY <1>6, <2>1, <2>3 DEF Progress, TypeOK, Busy
<1>7. ASSUME NEW l \in Lane, HandlerReturn(l) PROVE TypeOK'
  <2>1. PICK o \in {"ok", "error", "canceled"} :
          lane' = [lane EXCEPT ![l].pc = "back", ![l].outcome = o]
    BY <1>7 DEF HandlerReturn
  <2> DEFINE w == [lane[l] EXCEPT !.pc = "back", !.outcome = o]
  <2>2. w \in Worker /\ w.job = lane[l].job /\ w.claim = lane[l].claim
    <3>1. lane[l] \in Worker  BY DEF TypeOK
    <3> QED  BY <3>1 DEF Worker
  <2>3. lane' = [lane EXCEPT ![l] = w]  BY <2>1
  <2>4. w.job \in Job /\ w.claim > 0
    BY <1>7, <2>2 DEF HandlerReturn, TypeOK, Busy
  <2> HIDE DEF w
  <2> QED  BY <1>7, <2>2, <2>3, <2>4, LaneType DEF HandlerReturn, TypeOK
<1>8. ASSUME NEW l \in Lane, ReadBack(l) PROVE TypeOK'
  <2> DEFINE w == IF ~ Owns(l) THEN Idle
         ELSE [lane[l] EXCEPT !.pc =
                 IF proc[ProcOf[l]] = "stopping" THEN "release"
                 ELSE IF lane[l].outcome = "error" /\ lane[l].attempts + 1 <= MaxRetries[lane[l].job]
                      THEN "retry" ELSE "finish"]
  <2>1. lane[l] \in Worker /\ lane[l].job \in Job /\ lane[l].claim > 0
    BY <1>8 DEF ReadBack, TypeOK, Busy
  <2>2. w \in Worker /\ (w.pc # "idle" => w.job \in Job /\ w.claim > 0)
    <3>1. CASE Owns(l)
      <4> DEFINE pc == IF proc[ProcOf[l]] = "stopping" THEN "release"
                 ELSE IF lane[l].outcome = "error" /\ lane[l].attempts + 1 <= MaxRetries[lane[l].job]
                      THEN "retry" ELSE "finish"
      <4>1. pc \in {"release", "retry", "finish"}  OBVIOUS
      <4>2. w = [lane[l] EXCEPT !.pc = pc]  BY <3>1
      <4> HIDE DEF pc, w
      <4> QED  BY <2>1, <4>1, <4>2 DEF Worker
    <3>2. CASE ~ Owns(l)  BY <3>2, IdleType
    <3> QED  BY <3>1, <3>2
  <2>3. lane' = [lane EXCEPT ![l] = w]  BY <1>8 DEF ReadBack
  <2> HIDE DEF w
  <2> QED  BY <1>8, <2>2, <2>3, LaneType DEF ReadBack, TypeOK
<1>9. ASSUME NEW l \in Lane, Release(l) PROVE TypeOK'
  <2>1. lane[l].job \in Job  BY <1>9 DEF Release, TypeOK, Busy
  <2>2. row' \in [Job -> Row]
    BY <1>9, <2>1, ToPendingType DEF Release, TypeOK, Row
  <2>3. released' \in [Job -> Nat]
    BY <1>9, <2>1 DEF Release, TypeOK
  <2> QED  BY <1>9, <2>2, <2>3, IdleType, LaneType DEF Release, TypeOK
<1>10. ASSUME NEW l \in Lane, Retry(l) PROVE TypeOK'
  <2>1. lane[l].job \in Job /\ lane[l].attempts + 1 \in Nat
    <3>1. lane[l] \in Worker /\ Busy(l)  BY <1>10 DEF Retry, TypeOK, Busy
    <3> QED  BY <3>1 DEF TypeOK, Worker
  <2>2. row' \in [Job -> Row]
    BY <1>10, <2>1, ToPendingType, RetryDelayNat DEF Retry, TypeOK
  <2>3. /\ lane' \in [Lane -> Worker]
        /\ \A m \in Lane : Busy(m)' => lane'[m].job \in Job /\ lane'[m].claim > 0
    <3>1. CASE Owns(l)
      BY <1>10, <3>1, IdleType, LaneType DEF Retry
    <3>2. CASE ~ Owns(l)
      <4> DEFINE w == [lane[l] EXCEPT !.pc = "finish"]
      <4>0. lane[l] \in Worker  BY DEF TypeOK
      <4>1. w \in Worker /\ w.job = lane[l].job /\ w.claim = lane[l].claim
        BY <4>0 DEF Worker
      <4>2. lane' = [lane EXCEPT ![l] = w]  BY <1>10, <3>2 DEF Retry
      <4>3. w.job \in Job /\ w.claim > 0
        BY <1>10, <4>1 DEF Retry, TypeOK, Busy
      <4> HIDE DEF w
      <4> QED  BY <4>1, <4>2, <4>3, LaneType
    <3> QED  BY <3>1, <3>2
  <2> QED  BY <1>10, <2>2, <2>3 DEF Retry, TypeOK
<1>11. ASSUME NEW l \in Lane, Finish(l) PROVE TypeOK'
  <2>1. lane[l].job \in Job /\ row[lane[l].job].attempts \in Nat
    BY <1>11 DEF Finish, TypeOK, Busy, Row
  <2>2. /\ row' \in [Job -> Row]
        /\ log' \in [Job -> SUBSET Verdict]
        /\ listed' \subseteq Job
    BY <1>11, <2>1, TerminalType DEF TypeOK, Finish, Verdict
  <2> QED  BY <1>11, <2>2, IdleType, LaneType DEF Finish, TypeOK
<1>12. ASSUME NEW l \in Lane, SettleError(l) PROVE TypeOK'
  <2>1. lane' = [lane EXCEPT ![l] = Idle] /\ mishaps' \in 0..MaxMishaps
    BY <1>12 DEF SettleError, Mishap, TypeOK
  <2> QED  BY <1>12, <2>1, IdleType, LaneType DEF SettleError, TypeOK
<1>13. ASSUME NEW p \in Proc, RecoverScan(p) PROVE TypeOK'
  <2>1. recov' \in [Proc -> SUBSET Snapshot]
    <3>1. \A j \in Job : [job |-> j, claim |-> row[j].claim, attempts |-> row[j].attempts,
                           same |-> TRUE] \in Snapshot
      BY DEF TypeOK, Snapshot, Row
    <3> QED  BY <1>13, <3>1 DEF RecoverScan, TypeOK
  <2> QED  BY <1>13, <2>1 DEF RecoverScan, TypeOK, Busy
<1>14. ASSUME NEW p \in Proc, NEW s \in recov[p], RecoverRow(p, s) PROVE TypeOK'
  <2>1. s \in Snapshot  BY DEF TypeOK
  <2>2. s.job \in Job /\ s.attempts + 1 \in Nat  BY <2>1 DEF Snapshot
  <2>3. /\ row' \in [Job -> Row]
        /\ log' \in [Job -> SUBSET Verdict]
        /\ listed' \subseteq Job
    BY <1>14, <2>2, TerminalType, ToPendingType DEF TypeOK, RecoverRow, Verdict
  <2> QED  BY <1>14, <2>3 DEF RecoverRow, TypeOK, Busy
<1>15. ASSUME NEW p \in Proc, StartLanes(p) PROVE TypeOK'
  BY <1>15 DEF StartLanes, TypeOK, Busy
<1>16. ASSUME NEW p \in Proc, RecoverError(p) PROVE TypeOK'
  BY <1>16 DEF RecoverError, Mishap, TypeOK, Busy
<1>17. ASSUME NEW p \in Proc, Stop(p) PROVE TypeOK'
  <2>1. \A m \in Lane : /\ lane'[m] \in Worker
                         /\ lane'[m].pc = lane[m].pc
                         /\ lane'[m].job = lane[m].job
                         /\ lane'[m].claim = lane[m].claim
    <3> SUFFICES ASSUME NEW m \in Lane
                 PROVE  /\ lane'[m] \in Worker
                        /\ lane'[m].pc = lane[m].pc
                        /\ lane'[m].job = lane[m].job
                        /\ lane'[m].claim = lane[m].claim
      OBVIOUS
    <3>1. lane[m] \in Worker  BY DEF TypeOK
    <3>2. lane'[m] = lane[m] \/ lane'[m] = [lane[m] EXCEPT !.ctx = "cancelled"]
      BY <1>17 DEF Stop
    <3> QED  BY <3>1, <3>2 DEF Worker
  <2>2. lane' \in [Lane -> Worker]  BY <1>17, <2>1 DEF Stop
  <2>3. \A m \in Lane : Busy(m)' => lane'[m].job \in Job /\ lane'[m].claim > 0
    BY <2>1 DEF TypeOK, Busy
  <2> QED  BY <1>17, <2>2, <2>3 DEF Stop, Mishap, TypeOK
<1>18. ASSUME NEW p \in Proc, Exit(p) PROVE TypeOK'
  BY <1>18 DEF Exit, TypeOK, Busy
<1>19. ASSUME NEW p \in Proc, Crash(p) PROVE TypeOK'
  <2>1. /\ lane' \in [Lane -> Worker]
        /\ \A m \in Lane : Busy(m)' => lane'[m] = lane[m] /\ Busy(m)
    BY <1>19, IdleType DEF Crash, TypeOK, Busy
  <2>2. /\ mishaps' \in 0..MaxMishaps
        /\ recov' \in [Proc -> SUBSET Snapshot]
        /\ proc' \in [Proc -> {"down", "starting", "recovering", "up", "stopping"}]
    BY <1>19 DEF Crash, Mishap, TypeOK
  <2> QED  BY <1>19, <2>1, <2>2 DEF Crash, TypeOK
<1>20. ASSUME NEW p \in Proc, Restart(p) PROVE TypeOK'
  BY <1>20 DEF Restart, TypeOK, Busy
<1>21. CASE Tick
  <2>1. \A j \in Job :
          [row[j] EXCEPT !.hb = IF row[j].status = "running" /\ @ <= Timeout THEN @ + 1 ELSE @,
                         !.wait = IF @ > 0 THEN @ - 1 ELSE 0] \in Row
    <3> SUFFICES ASSUME NEW r \in Row
                 PROVE  [r EXCEPT !.hb = IF r.status = "running" /\ @ <= Timeout THEN @ + 1 ELSE @,
                                  !.wait = IF @ > 0 THEN @ - 1 ELSE 0] \in Row
      BY DEF TypeOK
    <3> DEFINE h == IF r.status = "running" /\ r.hb <= Timeout THEN r.hb + 1 ELSE r.hb
               d == IF r.wait > 0 THEN r.wait - 1 ELSE 0
    <3>1. h \in 0..(Timeout + 1) /\ d \in Nat  BY DEF Row
    <3> HIDE DEF h, d
    <3>2. [r EXCEPT !.hb = h, !.wait = d] \in Row  BY <3>1 DEF Row
    <3> QED  BY <3>2 DEF h, d
  <2>2. row' \in [Job -> Row]  BY <1>21, <2>1 DEF Tick
  <2> QED  BY <1>21, <2>2 DEF Tick, TypeOK, Busy
<1>22. CASE UNCHANGED vars
  BY <1>22 DEF vars, TypeOK, Busy
<1> QED
  BY <1>1, <1>2, <1>3, <1>4, <1>5, <1>6, <1>7, <1>8, <1>9, <1>10, <1>11, <1>12,
     <1>13, <1>14, <1>15, <1>16, <1>17, <1>18, <1>19, <1>20, <1>21, <1>22
  DEF Next, LaneStep, ProcStep

\* Type correctness of the queue, for every instance.
THEOREM TypeCorrect == Spec => []TypeOK
<1>1. Init => TypeOK  BY InitTypeOK
<1>2. TypeOK /\ [Next]_vars => TypeOK'  BY NextTypeOK
<1> QED  BY <1>1, <1>2, PTL DEF Spec

-----------------------------------------------------------------------------
(* The inductive step of Claims. Most actions leave the claims alone, three
   end in a verdict (Cancel, Finish, RecoverRow) and three give a claim back
   (Release, Retry, RecoverRow): one lemma for each kind. *)

\* No lane takes up a claim, and a lane enters ScheduleRetry only with retries left.
LanesFrame ==
    \A m \in Lane : Busy(m)' =>
        /\ Busy(m)
        /\ lane'[m].job = lane[m].job
        /\ lane'[m].claim = lane[m].claim
        /\ lane'[m].attempts = lane[m].attempts
        /\ lane'[m].pc = "retry" => lane[m].attempts + 1 <= MaxRetries[lane[m].job]

\* No recovery pass reads a row.
SnapsFrame ==
    \A p \in Proc : \A s \in recov'[p] : \E t \in recov[p] :
        t.job = s.job /\ t.claim = s.claim /\ t.attempts = s.attempts

\* The claims, the attempts and the statuses of the table stay.
RowsFrame ==
    /\ \A j \in Job : /\ row'[j].claim = row[j].claim
                      /\ row'[j].attempts = row[j].attempts
                      /\ row'[j].status = row[j].status
    /\ claims' = claims /\ released' = released

LEMMA FrameInv ==
  ASSUME TypeOK, Claims, LanesFrame, SnapsFrame, RowsFrame
  PROVE  Claims'
<1> USE DEF Claims
<1>1. \A m \in Lane : Busy(m)' => lane[m].job \in Job
  BY DEF LanesFrame, TypeOK
<1>2. \A p \in Proc : \A t \in recov[p] : t.job \in Job
  BY DEF TypeOK, Snapshot
<1>3. ClaimsCounted'
  BY <1>1, <1>2 DEF ClaimsCounted, LanesFrame, SnapsFrame, RowsFrame
<1>4. ClaimsDistinct'
  BY DEF ClaimsDistinct, LanesFrame
<1>5. \A m \in Lane : Holds(m)' => Holds(m) /\ lane'[m].job = lane[m].job
                                   /\ lane'[m].attempts = lane[m].attempts
  BY <1>1 DEF Holds, LanesFrame, RowsFrame
<1>6. StatusMatchesClaim'
  BY <1>1, <1>5 DEF StatusMatchesClaim, RowsFrame, Holds
<1>7. SnapshotsAgree'
  <2>1. \A m \in Lane : Holds(m)' =>
          Spent(lane'[m].attempts, lane'[m].job) = Spent(row'[lane'[m].job].attempts, lane'[m].job)
    BY <1>1, <1>5 DEF SnapshotsAgree, RowsFrame, Holds
  <2>2. \A m \in Lane : lane'[m].pc = "retry" => lane'[m].attempts + 1 <= MaxRetries[lane'[m].job]
    BY DEF LanesFrame, Busy
  <2>3. \A p \in Proc : \A s \in recov'[p] : s.claim = row'[s.job].claim =>
          Spent(s.attempts, s.job) = Spent(row'[s.job].attempts, s.job)
    BY <1>2 DEF SnapshotsAgree, SnapsFrame, RowsFrame
  <2> QED  BY <2>1, <2>2, <2>3 DEF SnapshotsAgree, Spent
<1>8. AttemptsPaid'
  BY DEF AttemptsPaid, RowsFrame, Spent
<1> QED  BY <1>3, <1>4, <1>6, <1>7, <1>8

\* A verdict on an open job, by a writer whose attempts agree with the row. A
\* success comes from a lane that lets go of the claim.
LEMMA TerminalInv ==
  ASSUME TypeOK, Claims, LanesFrame, SnapsFrame, claims' = claims, released' = released,
         NEW j \in Job, NEW e \in Verdict, NEW a \in Nat, Terminal(j, e, a),
         row[j].status \in Open,
         Spent(a, j) = Spent(row[j].attempts, j),
         e = "JobSucceeded" => \A m \in Lane : Busy(m)' /\ lane[m].job = j
                                  => lane[m].claim # row[j].claim
  PROVE  Claims'
<1>1. CASE e \in log[j]
  <2>1. RowsFrame  BY <1>1 DEF Terminal, RowsFrame
  <2> QED  BY <2>1, FrameInv
<1>2. CASE e \notin log[j]
  <2> USE DEF Claims
  <2>1. /\ row'[j].claim = row[j].claim
        /\ row'[j].attempts = a
        /\ row'[j].status = StatusOf[e]
        /\ \A i \in Job : i # j => row'[i] = row[i]
    <3>1. row[j] \in Row  BY DEF TypeOK
    <3> QED  BY <1>2, <3>1 DEF Terminal, TypeOK, Row
  <2>2. StatusOf[e] \in Settled /\ (StatusOf[e] = "succeeded" => e = "JobSucceeded")
    BY DEF StatusOf, Settled, Verdict
  <2>3. \A m \in Lane : Busy(m)' => lane[m].job \in Job
    BY DEF LanesFrame, TypeOK
  <2>4. \A p \in Proc : \A t \in recov[p] : t.job \in Job
    BY DEF TypeOK, Snapshot
  <2>5. \A i \in Job : row'[i].claim = row[i].claim
    BY <2>1
  <2>6. \A i \in Job : Spent(row'[i].attempts, i) = Spent(row[i].attempts, i)
    BY <2>1
  <2>7. ClaimsCounted'
    BY <2>3, <2>4, <2>5 DEF ClaimsCounted, LanesFrame, SnapsFrame
  <2>8. ClaimsDistinct'
    BY DEF ClaimsDistinct, LanesFrame
  <2>9. \A m \in Lane : Holds(m)' => Holds(m) /\ lane'[m].job = lane[m].job
                                     /\ lane'[m].attempts = lane[m].attempts
    BY <2>3, <2>5 DEF Holds, LanesFrame
  <2>10. StatusMatchesClaim'
    <3>1. \A i \in Job : row'[i].status \in {"absent", "pending"} => row'[i].claim = 0
      BY <2>1, <2>2 DEF StatusMatchesClaim, Settled
    <3>2. \A i \in Job : row'[i].status = "running" => row'[i].claim > 0
      BY <2>1, <2>2 DEF StatusMatchesClaim, Settled
    <3>3. ASSUME NEW m \in Lane, Holds(m)'
          PROVE  row'[lane'[m].job].status \in {"running", "failed", "cancelled"}
      <4>1. CASE lane[m].job = j
        <5>1. StatusOf[e] # "succeeded"
          BY <2>2, <2>9, <3>3, <4>1 DEF Holds
        <5> QED  BY <2>1, <2>2, <2>9, <3>3, <4>1, <5>1 DEF Settled
      <4>2. CASE lane[m].job # j
        BY <2>1, <2>3, <2>9, <3>3, <4>2 DEF StatusMatchesClaim, Holds
      <4> QED  BY <4>1, <4>2
    <3> QED  BY <3>1, <3>2, <3>3 DEF StatusMatchesClaim
  <2>11. SnapshotsAgree'
    <3>1. \A m \in Lane : Holds(m)' =>
          Spent(lane'[m].attempts, lane'[m].job) = Spent(row'[lane'[m].job].attempts, lane'[m].job)
      BY <2>3, <2>6, <2>9 DEF SnapshotsAgree, Holds
    <3>2. \A m \in Lane : lane'[m].pc = "retry" => lane'[m].attempts + 1 <= MaxRetries[lane'[m].job]
      BY DEF LanesFrame, Busy
    <3>3. \A p \in Proc : \A s \in recov'[p] : s.claim = row'[s.job].claim =>
          Spent(s.attempts, s.job) = Spent(row'[s.job].attempts, s.job)
      BY <2>4, <2>5, <2>6 DEF SnapshotsAgree, SnapsFrame
    <3> QED  BY <3>1, <3>2, <3>3 DEF SnapshotsAgree, Spent
  <2>12. AttemptsPaid'
    <3>1. \A i \in Job : Spent(row[i].attempts, i)' = Spent(row'[i].attempts, i)
      BY DEF Spent
    <3> QED  BY <2>5, <2>6, <3>1 DEF AttemptsPaid
  <2> QED  BY <2>7, <2>8, <2>10, <2>11, <2>12
<1> QED  BY <1>1, <1>2

\* A running job goes back to pending: nobody's claim is the row's any more.
LEMMA ToPendingInv ==
  ASSUME TypeOK, Claims, LanesFrame, SnapsFrame, claims' = claims,
         NEW j \in Job, NEW a \in Nat, NEW d \in Nat, ToPending(j, a, d),
         row[j].status = "running",
         Spent(a, j) + released'[j] = Spent(row[j].attempts, j) + released[j] + 1,
         released' \in [Job -> Nat],
         \A i \in Job : i # j => released'[i] = released[i]
  PROVE  Claims'
<1> USE DEF Claims
<1>1. /\ row'[j].claim = 0 /\ row'[j].attempts = a /\ row'[j].status = "pending"
      /\ \A i \in Job : i # j => row'[i] = row[i]
  <2>1. row[j] \in Row  BY DEF TypeOK
  <2> QED  BY <2>1 DEF ToPending, TypeOK, Row
<1>2. \A m \in Lane : Busy(m)' => lane[m].job \in Job /\ lane[m].claim > 0
  BY DEF LanesFrame, TypeOK
<1>3. \A p \in Proc : \A t \in recov[p] : t.job \in Job /\ t.claim > 0
  BY DEF TypeOK, Snapshot, ClaimsCounted
<1>4. ClaimsCounted'
  <2>1. \A i \in Job : row'[i].claim <= claims'[i]
    BY <1>1 DEF ClaimsCounted, TypeOK
  <2> QED  BY <1>2, <1>3, <2>1 DEF ClaimsCounted, LanesFrame, SnapsFrame
<1>5. ClaimsDistinct'
  BY DEF ClaimsDistinct, LanesFrame
<1>6. \A m \in Lane : Holds(m)' => Holds(m) /\ lane'[m].job = lane[m].job /\ lane[m].job # j
                                   /\ lane'[m].attempts = lane[m].attempts
  BY <1>1, <1>2 DEF Holds, LanesFrame
<1>7. StatusMatchesClaim'
  BY <1>1, <1>2, <1>6 DEF StatusMatchesClaim, Holds
<1>8. SnapshotsAgree'
  <2>1. \A m \in Lane : Holds(m)' =>
          Spent(lane'[m].attempts, lane'[m].job) = Spent(row'[lane'[m].job].attempts, lane'[m].job)
    BY <1>1, <1>2, <1>6 DEF SnapshotsAgree, Holds
  <2>2. \A m \in Lane : lane'[m].pc = "retry" => lane'[m].attempts + 1 <= MaxRetries[lane'[m].job]
    BY DEF LanesFrame, Busy
  <2>3. \A p \in Proc : \A s \in recov'[p] : s.claim = row'[s.job].claim =>
          Spent(s.attempts, s.job) = Spent(row'[s.job].attempts, s.job)
    BY <1>1, <1>3 DEF SnapshotsAgree, SnapsFrame
  <2> QED  BY <2>1, <2>2, <2>3 DEF SnapshotsAgree, Spent
<1>9. AttemptsPaid'
  <2>1. row[j].claim > 0  BY DEF StatusMatchesClaim
  <2>2. /\ Spent(a, j) \in Int /\ released'[j] \in Int
        /\ Spent(row[j].attempts, j) \in Int /\ released[j] \in Int
    BY QueueAssumption DEF Spent, TypeOK, Row
  <2>3. claims[j] = Spent(row[j].attempts, j) + released[j] + 1
    BY <2>1 DEF AttemptsPaid, TypeOK, Row
  <2>4. claims'[j] = Spent(row'[j].attempts, j) + released'[j] + (IF row'[j].claim = 0 THEN 0 ELSE 1)
    BY <1>1, <2>2, <2>3
  <2>5. \A i \in Job : i # j => claims'[i] = Spent(row'[i].attempts, i) + released'[i]
                                  + (IF row'[i].claim = 0 THEN 0 ELSE 1)
    BY <1>1 DEF AttemptsPaid
  <2> QED  BY <2>4, <2>5 DEF AttemptsPaid, Spent
<1> QED  BY <1>4, <1>5, <1>7, <1>8, <1>9

\* Every step keeps the claim bookkeeping.
LEMMA NextClaims == TypeOK /\ Claims /\ [Next]_vars => Claims'
<1> SUFFICES ASSUME TypeOK, Claims, [Next]_vars PROVE Claims'
  OBVIOUS
<1> USE QueueAssumption
<1> DEFINE Frame == LanesFrame /\ SnapsFrame
<1>a. ASSUME UNCHANGED <<lane, recov>> PROVE Frame
  BY <1>a DEF LanesFrame, SnapsFrame, Claims, SnapshotsAgree, Busy
<1>b. ASSUME NEW l \in Lane, lane' = [lane EXCEPT ![l] = Idle], recov' = recov PROVE Frame
  BY <1>b DEF LanesFrame, SnapsFrame, Claims, SnapshotsAgree, Busy, Idle, TypeOK
<1>c. ASSUME UNCHANGED <<row, claims, released>> PROVE RowsFrame
  BY <1>c DEF RowsFrame
<1>1. ASSUME NEW j \in Job, Enqueue(j) PROVE Claims'
  <2>1. /\ row'[j].claim = row[j].claim /\ row'[j].attempts = row[j].attempts
        /\ row'[j].status = "pending" /\ row[j].status = "absent"
        /\ \A i \in Job : i # j => row'[i] = row[i]
    <3>1. row[j] \in Row  BY DEF TypeOK
    <3> QED  BY <1>1, <3>1 DEF Enqueue, TypeOK, Row
  <2>2. row[j].claim = 0  BY <2>1 DEF Claims, StatusMatchesClaim
  <2>3. \A m \in Lane : Busy(m) => lane[m].job \in Job /\ lane[m].claim > 0
    BY DEF TypeOK
  <2>4. \A p \in Proc : \A t \in recov[p] : t.job \in Job
    BY DEF TypeOK, Snapshot
  <2>5. \A i \in Job : row'[i].claim = row[i].claim /\ row'[i].attempts = row[i].attempts
    BY <2>1
  <2>6. ClaimsCounted'
    BY <1>1, <2>3, <2>4, <2>5 DEF Enqueue, Claims, ClaimsCounted, Busy
  <2>7. ClaimsDistinct'
    BY <1>1 DEF Enqueue, Claims, ClaimsDistinct, Busy
  <2>8. StatusMatchesClaim'
    BY <1>1, <2>1, <2>2, <2>3 DEF Enqueue, Claims, StatusMatchesClaim, Holds, Busy
  <2>9. SnapshotsAgree'
    BY <1>1, <2>3, <2>4, <2>5 DEF Enqueue, Claims, SnapshotsAgree, Spent, Holds, Busy
  <2>10. AttemptsPaid'
    BY <1>1, <2>5 DEF Enqueue, Claims, AttemptsPaid, Spent
  <2> QED  BY <2>6, <2>7, <2>8, <2>9, <2>10 DEF Claims
<1>2. ASSUME NEW j \in Job, Cancel(j) PROVE Claims'
  <2>1. row[j].attempts \in Nat  BY DEF TypeOK, Row
  <2>2. Frame  BY <1>2, <1>a DEF Cancel
  <2> QED  BY <1>2, <2>1, <2>2, TerminalInv DEF Cancel, Verdict
<1>3. ASSUME NEW l \in Lane, Claim(l) PROVE Claims'
  <2>1. PICK j \in Due(l) :
          /\ row' = [row EXCEPT ![j] = [@ EXCEPT !.status = "running", !.hb = 0,
                                                 !.claim = claims[j] + 1]]
          /\ claims' = [claims EXCEPT ![j] = @ + 1]
          /\ lane' = [lane EXCEPT ![l] = [Idle EXCEPT !.pc = "run", !.job = j,
                        !.claim = claims[j] + 1, !.attempts = row[j].attempts]]
    BY <1>3 DEF Claim
  <2>2. j \in Job /\ row[j].status = "pending" /\ row[j] \in Row /\ claims[j] \in Nat
    BY <2>1 DEF Due, TypeOK
  <2>3. /\ row'[j].claim = claims[j] + 1 /\ row'[j].attempts = row[j].attempts
        /\ row'[j].status = "running"
        /\ \A i \in Job : i # j => row'[i] = row[i]
    BY <2>1, <2>2 DEF TypeOK, Row
  <2>4. claims'[j] = claims[j] + 1 /\ \A i \in Job : i # j => claims'[i] = claims[i]
    BY <2>1, <2>2 DEF TypeOK
  <2>5. /\ lane'[l].pc = "run" /\ lane'[l].job = j
        /\ lane'[l].claim = claims[j] + 1 /\ lane'[l].attempts = row[j].attempts
        /\ \A m \in Lane : m # l => lane'[m] = lane[m]
    BY <2>1 DEF TypeOK, Idle
  <2>6. recov' = recov /\ released' = released /\ row[j].claim = 0
    BY <1>3, <2>2 DEF Claim, Claims, StatusMatchesClaim
  <2>7. \A m \in Lane : Busy(m) => /\ lane[m].job \in Job
                                   /\ lane[m].claim \in Nat /\ lane[m].claim > 0
                                   /\ lane[m].claim <= claims[lane[m].job]
    BY DEF TypeOK, Worker, Claims, ClaimsCounted
  <2>8. \A p \in Proc : \A s \in recov[p] : /\ s.job \in Job /\ s.claim \in Nat
                                            /\ 0 < s.claim /\ s.claim <= claims[s.job]
    BY DEF TypeOK, Snapshot, Claims, ClaimsCounted
  <2>9. \A m \in Lane : m # l => (Busy(m)' <=> Busy(m))
    BY <2>5 DEF Busy
  <2>10. ClaimsCounted'
    <3>1. \A i \in Job : row'[i].claim <= claims'[i]
      BY <2>2, <2>3, <2>4 DEF Claims, ClaimsCounted
    <3>2. \A m \in Lane : Busy(m)' => lane'[m].claim <= claims'[lane'[m].job]
      BY <2>2, <2>4, <2>5, <2>7, <2>9 DEF TypeOK
    <3>3. \A p \in Proc : \A s \in recov'[p] : 0 < s.claim /\ s.claim <= claims'[s.job]
      BY <2>2, <2>4, <2>6, <2>8 DEF TypeOK
    <3> QED  BY <3>1, <3>2, <3>3 DEF ClaimsCounted
  <2>11. ClaimsDistinct'
    BY <2>2, <2>5, <2>7, <2>9 DEF Claims, ClaimsDistinct
  <2>12. \A m \in Lane : Holds(m)' => m = l \/ (Holds(m) /\ lane[m].job # j /\ lane'[m] = lane[m])
    BY <2>2, <2>3, <2>5, <2>7, <2>9 DEF Holds
  <2>13. StatusMatchesClaim'
    <3>1. \A i \in Job : row'[i].status \in {"absent", "pending"} => row'[i].claim = 0
      BY <2>2, <2>3 DEF Claims, StatusMatchesClaim
    <3>2. \A i \in Job : row'[i].status = "running" => row'[i].claim > 0
      BY <2>2, <2>3 DEF Claims, StatusMatchesClaim
    <3>3. \A m \in Lane : Holds(m)' => row'[lane'[m].job].status \in {"running", "failed", "cancelled"}
      BY <2>3, <2>5, <2>7, <2>12 DEF Claims, StatusMatchesClaim, Holds
    <3> QED  BY <3>1, <3>2, <3>3 DEF StatusMatchesClaim
  <2>14. SnapshotsAgree'
    <3>1. \A m \in Lane : Holds(m)' =>
          Spent(lane'[m].attempts, lane'[m].job) = Spent(row'[lane'[m].job].attempts, lane'[m].job)
      BY <2>3, <2>5, <2>7, <2>12 DEF Claims, SnapshotsAgree, Holds
    <3>2. \A m \in Lane : lane'[m].pc = "retry" => lane'[m].attempts + 1 <= MaxRetries[lane'[m].job]
      BY <2>5 DEF Claims, SnapshotsAgree
    <3>3. \A p \in Proc : \A s \in recov'[p] : s.claim = row'[s.job].claim =>
          Spent(s.attempts, s.job) = Spent(row'[s.job].attempts, s.job)
      BY <2>2, <2>3, <2>6, <2>8 DEF Claims, SnapshotsAgree
    <3> QED  BY <3>1, <3>2, <3>3 DEF SnapshotsAgree, Spent
  <2>15. AttemptsPaid'
    <3>1. Spent(row[j].attempts, j) \in Int /\ released[j] \in Int
      BY <2>2 DEF Spent, Row, TypeOK
    <3>2. claims[j] = Spent(row[j].attempts, j) + released[j]
      BY <2>2, <2>6, <3>1 DEF Claims, AttemptsPaid
    <3>3. claims'[j] = Spent(row'[j].attempts, j) + released'[j] + (IF row'[j].claim = 0 THEN 0 ELSE 1)
      BY <2>2, <2>3, <2>4, <2>6, <3>1, <3>2
    <3>4. \A i \in Job : i # j => claims'[i] = Spent(row'[i].attempts, i) + released'[i]
                                    + (IF row'[i].claim = 0 THEN 0 ELSE 1)
      BY <2>3, <2>4, <2>6 DEF Claims, AttemptsPaid
    <3> QED  BY <3>3, <3>4 DEF AttemptsPaid, Spent
  <2> QED  BY <2>10, <2>11, <2>13, <2>14, <2>15 DEF Claims
<1>4. ASSUME NEW l \in Lane, Heartbeat(l) PROVE Claims'
  <2>1. lane[l].job \in Job  BY <1>4 DEF Heartbeat, TypeOK, Busy
  <2>2. CASE Owns(l)
    <3>1. row[lane[l].job] \in Row  BY <2>1 DEF TypeOK
    <3>2. row' = [row EXCEPT ![lane[l].job] = [row[lane[l].job] EXCEPT !.hb = 0]]
      BY <1>4, <2>2 DEF Heartbeat
    <3>3. LET r == [row[lane[l].job] EXCEPT !.hb = 0]
          IN  /\ r.claim = row[lane[l].job].claim
              /\ r.attempts = row[lane[l].job].attempts
              /\ r.status = row[lane[l].job].status
      BY <3>1 DEF Row
    <3>4. RowsFrame
      BY <1>4, <2>1, <3>2, <3>3 DEF Heartbeat, RowsFrame, TypeOK
    <3>5. LanesFrame
      BY <1>4, <2>2 DEF Heartbeat, LanesFrame, Claims, SnapshotsAgree, Busy
    <3>6. ASSUME NEW p \in Proc, NEW s \in recov'[p]
          PROVE  \E t \in recov[p] : t.job = s.job /\ t.claim = s.claim /\ t.attempts = s.attempts
      <4>1. recov'[p] = {[t EXCEPT !.same = @ /\ t.job # lane[l].job] : t \in recov[p]}
        BY <1>4, <2>2 DEF Heartbeat
      <4>2. PICK t \in recov[p] : s = [t EXCEPT !.same = @ /\ t.job # lane[l].job]
        BY <4>1
      <4>3. t \in Snapshot  BY DEF TypeOK
      <4>4. t.job = s.job /\ t.claim = s.claim /\ t.attempts = s.attempts
        BY <4>2, <4>3 DEF Snapshot
      <4> QED  BY <4>4
    <3>7. SnapsFrame  BY <3>6 DEF SnapsFrame
    <3> QED  BY <3>4, <3>5, <3>7, FrameInv
  <2>3. CASE ~ Owns(l)
    <3>1. lane' = [lane EXCEPT ![l].ctx = "cancelled"]  BY <1>4, <2>3 DEF Heartbeat
    <3>2. LanesFrame
      BY <3>1 DEF LanesFrame, Claims, SnapshotsAgree, Busy, TypeOK, Worker
    <3>3. SnapsFrame  BY <1>4, <2>3 DEF Heartbeat, SnapsFrame
    <3> QED  BY <1>4, <1>c, <2>3, <3>2, <3>3, FrameInv DEF Heartbeat
  <2> QED  BY <2>2, <2>3
<1>5. ASSUME NEW l \in Lane, HeartbeatError(l) PROVE Claims'
  <2>1. LanesFrame
    BY <1>5 DEF HeartbeatError, LanesFrame, Claims, SnapshotsAgree, Busy, TypeOK, Worker
  <2>2. SnapsFrame  BY <1>5 DEF HeartbeatError, SnapsFrame
  <2> QED  BY <1>5, <1>c, <2>1, <2>2, FrameInv DEF HeartbeatError
<1>6. ASSUME NEW l \in Lane, Progress(l) PROVE Claims'
  <2> DEFINE j == lane[l].job
  <2>1. j \in Job /\ Busy(l) /\ row[j] \in Row  BY <1>6 DEF Progress, TypeOK, Busy
  <2>2. Holds(l) /\ lane[l].claim > 0  BY <1>6, <2>1 DEF Progress, Holds, TypeOK
  <2>3. row[j].status \in {"running", "failed"}
    BY <1>6, <2>1, <2>2 DEF Progress, Claims, StatusMatchesClaim
  <2>4. /\ row'[j].claim = row[j].claim /\ row'[j].attempts = row[j].attempts
        /\ row'[j].status = "running" /\ row[j].claim > 0
        /\ \A i \in Job : i # j => row'[i] = row[i]
    BY <1>6, <2>1, <2>2 DEF Progress, TypeOK, Row, Holds
  <2>5. UNCHANGED <<claims, lane, recov, released>>  BY <1>6 DEF Progress
  <2>6. \A m \in Lane : Busy(m) => lane[m].job \in Job
    BY DEF TypeOK
  <2>7. \A p \in Proc : \A t \in recov[p] : t.job \in Job
    BY DEF TypeOK, Snapshot
  <2>8. \A i \in Job : row'[i].claim = row[i].claim /\ row'[i].attempts = row[i].attempts
    BY <2>4
  <2>9. ClaimsCounted'
    BY <2>5, <2>6, <2>7, <2>8 DEF Claims, ClaimsCounted, Busy
  <2>10. ClaimsDistinct'
    BY <2>5 DEF Claims, ClaimsDistinct, Busy
  <2>11. StatusMatchesClaim'
    BY <2>4, <2>5, <2>6 DEF Claims, StatusMatchesClaim, Holds, Busy
  <2>12. SnapshotsAgree'
    BY <2>5, <2>6, <2>7, <2>8 DEF Claims, SnapshotsAgree, Spent, Holds, Busy
  <2>13. AttemptsPaid'
    BY <2>5, <2>8 DEF Claims, AttemptsPaid, Spent
  <2> QED  BY <2>9, <2>10, <2>11, <2>12, <2>13 DEF Claims
<1>7. ASSUME NEW l \in Lane, HandlerReturn(l) PROVE Claims'
  <2>1. LanesFrame
    BY <1>7 DEF HandlerReturn, LanesFrame, Claims, SnapshotsAgree, Busy, TypeOK, Worker
  <2>2. SnapsFrame  BY <1>7 DEF HandlerReturn, SnapsFrame
  <2> QED  BY <1>7, <1>c, <2>1, <2>2, FrameInv DEF HandlerReturn
<1>8. ASSUME NEW l \in Lane, ReadBack(l) PROVE Claims'
  <2> DEFINE pc == IF proc[ProcOf[l]] = "stopping" THEN "release"
                   ELSE IF lane[l].outcome = "error" /\ lane[l].attempts + 1 <= MaxRetries[lane[l].job]
                        THEN "retry" ELSE "finish"
  <2>1. CASE Owns(l)
    <3>1. lane' = [lane EXCEPT ![l] = [lane[l] EXCEPT !.pc = pc]]
      BY <1>8, <2>1 DEF ReadBack
    <3>2. pc = "retry" => lane[l].attempts + 1 <= MaxRetries[lane[l].job]
      OBVIOUS
    <3> HIDE DEF pc
    <3>3. LanesFrame
      BY <1>8, <3>1, <3>2 DEF ReadBack, LanesFrame, Claims, SnapshotsAgree, Busy, TypeOK, Worker
    <3>4. SnapsFrame  BY <1>8 DEF ReadBack, SnapsFrame
    <3> QED  BY <1>8, <1>c, <3>3, <3>4, FrameInv DEF ReadBack
  <2>2. CASE ~ Owns(l)
    BY <1>8, <1>b, <1>c, <2>2, FrameInv DEF ReadBack
  <2> QED  BY <2>1, <2>2
<1>9. ASSUME NEW l \in Lane, Release(l) PROVE Claims'
  <2>1. lane[l].job \in Job  BY <1>9 DEF Release, TypeOK, Busy
  <2>2. Frame  BY <1>9, <1>b DEF Release
  <2>3. row[lane[l].job] \in Row /\ released \in [Job -> Nat]  BY <2>1 DEF TypeOK
  <2>4. CASE Owns(l)
    <3> DEFINE j == lane[l].job
    <3>1. row[j].attempts \in Nat /\ row[j].wait \in Nat /\ row[j].status = "running"
      BY <2>3, <2>4 DEF Row, Owns
    <3>2. ToPending(j, row[j].attempts, row[j].wait) /\ released' = [released EXCEPT ![j] = @ + 1]
      BY <1>9, <2>4 DEF Release
    <3>3. Spent(row[j].attempts, j) \in Int  BY <2>1, <3>1 DEF Spent
    <3>4. Spent(row[j].attempts, j) + released'[j] = Spent(row[j].attempts, j) + released[j] + 1
      BY <2>1, <2>3, <3>2, <3>3
    <3>5. released' \in [Job -> Nat] /\ \A i \in Job : i # j => released'[i] = released[i]
      BY <2>1, <2>3, <3>2
    <3> QED  BY <1>9, <2>1, <2>2, <3>1, <3>2, <3>4, <3>5, ToPendingInv DEF Release
  <2>5. CASE ~ Owns(l)
    BY <1>9, <1>c, <2>2, <2>5, FrameInv DEF Release
  <2> QED  BY <2>4, <2>5
<1>10. ASSUME NEW l \in Lane, Retry(l) PROVE Claims'
  <2>1. lane[l].job \in Job /\ lane[l] \in Worker  BY <1>10 DEF Retry, TypeOK, Busy
  <2>2. SnapsFrame  BY <1>10 DEF Retry, SnapsFrame
  <2>3. row[lane[l].job] \in Row /\ released \in [Job -> Nat]  BY <2>1 DEF TypeOK
  <2>4. CASE Owns(l)
    <3> DEFINE j == lane[l].job
               a == lane[l].attempts + 1
    <3>1. a \in Nat /\ RetryDelay(a) \in Nat /\ row[j].attempts \in Nat
      BY <2>1, <2>3, RetryDelayNat DEF Worker, Row
    <3>2. ToPending(j, a, RetryDelay(a)) /\ row[j].status = "running"
      BY <1>10, <2>4 DEF Retry, Owns
    <3>3. Frame  BY <1>10, <1>b, <2>4 DEF Retry
    <3>4. Holds(l)  BY <1>10, <2>4 DEF Retry, Owns, Holds, Busy
    <3>5. lane[l].attempts + 1 <= MaxRetries[j]
      BY <1>10 DEF Retry, Claims, SnapshotsAgree
    <3>6. Spent(lane[l].attempts, j) = Spent(row[j].attempts, j)
      BY <3>4 DEF Claims, SnapshotsAgree
    <3>7. Spent(a, j) = Spent(row[j].attempts, j) + 1
      BY <2>1, <3>1, <3>5, <3>6 DEF Spent, Worker
    <3>8. Spent(row[j].attempts, j) \in Int  BY <2>1, <3>1 DEF Spent
    <3>9. Spent(a, j) + released'[j] = Spent(row[j].attempts, j) + released[j] + 1
      BY <1>10, <2>1, <2>3, <3>7, <3>8 DEF Retry
    <3> HIDE DEF a
    <3> QED  BY <1>10, <2>1, <2>3, <3>1, <3>2, <3>3, <3>9, ToPendingInv DEF Retry
  <2>5. CASE ~ Owns(l)
    <3>1. LanesFrame
      BY <1>10, <2>5 DEF Retry, LanesFrame, Claims, SnapshotsAgree, Busy, TypeOK, Worker
    <3> QED  BY <1>10, <1>c, <2>2, <2>5, <3>1, FrameInv DEF Retry
  <2> QED  BY <2>4, <2>5
<1>11. ASSUME NEW l \in Lane, Finish(l) PROVE Claims'
  <2>1. lane[l].job \in Job /\ Busy(l)  BY <1>11 DEF Finish, TypeOK, Busy
  <2>2. Frame  BY <1>11, <1>b DEF Finish
  <2>3. CASE Owns(l)
    <3> DEFINE j == lane[l].job
               e == IF lane[l].outcome = "ok" THEN "JobSucceeded" ELSE "JobFailed"
    <3>1. e \in Verdict /\ row[j].attempts \in Nat /\ row[j].status \in Open
      BY <2>1, <2>3 DEF Verdict, TypeOK, Row, Owns, Open
    <3>2. Terminal(j, e, row[j].attempts)  BY <1>11, <2>3 DEF Finish
    <3>3. \A m \in Lane : Busy(m)' /\ lane[m].job = j => lane[m].claim # row[j].claim
      <4>1. \A m \in Lane : Busy(m)' => m # l /\ Busy(m)
        BY <1>11 DEF Finish, Busy, Idle, TypeOK
      <4> QED  BY <2>1, <2>3, <4>1 DEF Owns, Claims, ClaimsDistinct
    <3> HIDE DEF e
    <3> QED  BY <1>11, <2>1, <2>2, <3>1, <3>2, <3>3, TerminalInv DEF Finish
  <2>4. CASE ~ Owns(l)
    BY <1>11, <1>c, <2>2, <2>4, FrameInv DEF Finish
  <2> QED  BY <2>3, <2>4
<1>12. ASSUME NEW l \in Lane, SettleError(l) PROVE Claims'
  BY <1>12, <1>b, <1>c, FrameInv DEF SettleError
<1>13. ASSUME NEW p \in Proc, RecoverScan(p) PROVE Claims'
  <2>1. UNCHANGED <<row, claims, lane, released>>  BY <1>13 DEF RecoverScan
  <2>2. \A q \in Proc : \A s \in recov'[q] :
           \/ s \in recov[q]
           \/ /\ s.job \in Job /\ row[s.job].status = "running"
              /\ s.claim = row[s.job].claim /\ s.attempts = row[s.job].attempts
    BY <1>13 DEF RecoverScan, Stale, TypeOK
  <2>3. \A j \in Job : row[j].status = "running" => row[j].claim > 0 /\ row[j].claim <= claims[j]
    BY DEF Claims, StatusMatchesClaim, ClaimsCounted
  <2>4. \A q \in Proc : \A s \in recov'[q] :
           /\ 0 < s.claim /\ s.claim <= claims[s.job]
           /\ s.claim = row[s.job].claim =>
                Spent(s.attempts, s.job) = Spent(row[s.job].attempts, s.job)
    BY <2>2, <2>3 DEF Claims, ClaimsCounted, SnapshotsAgree
  <2>5. ClaimsCounted'
    BY <2>1, <2>4 DEF Claims, ClaimsCounted, Busy
  <2>6. SnapshotsAgree'
    BY <2>1, <2>4 DEF Claims, SnapshotsAgree, Spent, Holds, Busy
  <2>7. ClaimsDistinct' /\ StatusMatchesClaim' /\ AttemptsPaid'
    BY <2>1 DEF Claims, ClaimsDistinct, StatusMatchesClaim, AttemptsPaid, Spent, Holds, Busy
  <2> QED  BY <2>5, <2>6, <2>7 DEF Claims
<1>14. ASSUME NEW p \in Proc, NEW s \in recov[p], RecoverRow(p, s) PROVE Claims'
  <2> DEFINE held == row[s.job].status = "running" /\ row[s.job].claim = s.claim /\ s.same
             j == s.job
             a == s.attempts + 1
  <2>1. j \in Job /\ s.attempts \in Nat /\ a \in Nat  BY DEF TypeOK, Snapshot
  <2>2. row[j] \in Row /\ row[j].attempts \in Nat /\ MaxRetries[j] \in Nat
    BY <2>1 DEF TypeOK, Row
  <2>3. LanesFrame
    BY <1>14 DEF RecoverRow, LanesFrame, Claims, SnapshotsAgree, Busy
  <2>4. SnapsFrame  BY <1>14 DEF RecoverRow, SnapsFrame, TypeOK
  <2>5. UNCHANGED <<claims, released>>  BY <1>14 DEF RecoverRow
  <2>6. CASE ~ held
    BY <1>14, <1>c, <2>3, <2>4, <2>6, FrameInv DEF RecoverRow
  <2>7. CASE held
    <3>1. Spent(s.attempts, j) = Spent(row[j].attempts, j)
      BY <2>7 DEF Claims, SnapshotsAgree
    <3>2. CASE a > MaxRetries[j]
      <4>1. Terminal(j, "JobFailed", a)  BY <1>14, <2>7, <3>2 DEF RecoverRow
      <4>2. Spent(a, j) = Spent(row[j].attempts, j)
        BY <2>1, <2>2, <3>1, <3>2 DEF Spent
      <4> HIDE DEF a
      <4> QED  BY <2>1, <2>3, <2>4, <2>5, <2>7, <4>1, <4>2, TerminalInv DEF Verdict, Open
    <3>3. CASE ~ (a > MaxRetries[j])
      <4>1. ToPending(j, a, 0)  BY <1>14, <2>7, <3>3 DEF RecoverRow
      <4>2. Spent(a, j) = Spent(row[j].attempts, j) + 1
        BY <2>1, <2>2, <3>1, <3>3 DEF Spent
      <4>3. Spent(row[j].attempts, j) \in Int /\ released[j] \in Int /\ released' \in [Job -> Nat]
        BY <2>1, <2>2, <2>5 DEF Spent, TypeOK
      <4>4. Spent(a, j) + released'[j] = Spent(row[j].attempts, j) + released[j] + 1
        BY <2>5, <4>2, <4>3
      <4> HIDE DEF a
      <4> QED  BY <2>1, <2>3, <2>4, <2>5, <2>7, <4>1, <4>3, <4>4, ToPendingInv
    <3> QED  BY <3>2, <3>3
  <2> QED  BY <2>6, <2>7
<1>15. ASSUME NEW p \in Proc, StartLanes(p) PROVE Claims'
  BY <1>15, <1>a, <1>c, FrameInv DEF StartLanes
<1>16. ASSUME NEW p \in Proc, RecoverError(p) PROVE Claims'
  <2>1. LanesFrame
    BY <1>16 DEF RecoverError, LanesFrame, Claims, SnapshotsAgree, Busy
  <2>2. SnapsFrame  BY <1>16 DEF RecoverError, SnapsFrame, TypeOK
  <2> QED  BY <1>16, <1>c, <2>1, <2>2, FrameInv DEF RecoverError
<1>17. ASSUME NEW p \in Proc, Stop(p) PROVE Claims'
  <2>1. \A m \in Lane : /\ lane'[m].pc = lane[m].pc
                         /\ lane'[m].job = lane[m].job
                         /\ lane'[m].claim = lane[m].claim
                         /\ lane'[m].attempts = lane[m].attempts
    <3> SUFFICES ASSUME NEW m \in Lane
                 PROVE  /\ lane'[m].pc = lane[m].pc
                        /\ lane'[m].job = lane[m].job
                        /\ lane'[m].claim = lane[m].claim
                        /\ lane'[m].attempts = lane[m].attempts
      OBVIOUS
    <3>1. lane[m] \in Worker  BY DEF TypeOK
    <3>2. lane'[m] = lane[m] \/ lane'[m] = [lane[m] EXCEPT !.ctx = "cancelled"]
      BY <1>17 DEF Stop
    <3> QED  BY <3>1, <3>2 DEF Worker
  <2>2. LanesFrame
    BY <2>1 DEF LanesFrame, Claims, SnapshotsAgree, Busy
  <2>3. SnapsFrame  BY <1>17 DEF Stop, SnapsFrame, TypeOK
  <2> QED  BY <1>17, <1>c, <2>2, <2>3, FrameInv DEF Stop
<1>18. ASSUME NEW p \in Proc, Exit(p) PROVE Claims'
  BY <1>18, <1>a, <1>c, FrameInv DEF Exit
<1>19. ASSUME NEW p \in Proc, Crash(p) PROVE Claims'
  <2>1. \A m \in Lane : lane'[m] = lane[m] \/ lane'[m] = Idle
    BY <1>19 DEF Crash
  <2>2. LanesFrame
    BY <2>1 DEF LanesFrame, Claims, SnapshotsAgree, Busy, Idle
  <2>3. SnapsFrame  BY <1>19 DEF Crash, SnapsFrame, TypeOK
  <2> QED  BY <1>19, <1>c, <2>2, <2>3, FrameInv DEF Crash
<1>20. ASSUME NEW p \in Proc, Restart(p) PROVE Claims'
  BY <1>20, <1>a, <1>c, FrameInv DEF Restart
<1>21. CASE Tick
  <2>1. RowsFrame
    <3>1. \A j \in Job : row[j] \in Row  BY DEF TypeOK
    <3> QED  BY <1>21, <3>1 DEF Tick, RowsFrame, Row
  <2> QED  BY <1>21, <1>a, <2>1, FrameInv DEF Tick
<1>22. CASE UNCHANGED vars
  BY <1>22, <1>a, <1>c, FrameInv DEF vars
<1> QED
  BY <1>1, <1>2, <1>3, <1>4, <1>5, <1>6, <1>7, <1>8, <1>9, <1>10, <1>11, <1>12,
     <1>13, <1>14, <1>15, <1>16, <1>17, <1>18, <1>19, <1>20, <1>21, <1>22
  DEF Next, LaneStep, ProcStep

\* The initial state meets the bookkeeping: there are no claims and no lanes at work.
LEMMA InitClaims == Init => Claims
<1> SUFFICES ASSUME Init PROVE Claims
  OBVIOUS
<1>1. /\ \A j \in Job : row[j].status = "absent" /\ row[j].claim = 0 /\ row[j].attempts = 0
                        /\ claims[j] = 0 /\ released[j] = 0
      /\ \A l \in Lane : lane[l].pc = "idle"
      /\ \A p \in Proc : recov[p] = {}
  BY DEF Init, Idle
<1>2. \A j \in Job : Spent(0, j) = 0  BY QueueAssumption DEF Spent
<1>3. ClaimsCounted /\ ClaimsDistinct /\ StatusMatchesClaim /\ SnapshotsAgree
  BY <1>1 DEF ClaimsCounted, ClaimsDistinct, StatusMatchesClaim, SnapshotsAgree, Holds, Busy
<1>4. AttemptsPaid  BY <1>1, <1>2 DEF AttemptsPaid
<1> QED  BY <1>3, <1>4 DEF Claims

\* The bookkeeping holds in every reachable state.
THEOREM ClaimsKept == Spec => [](TypeOK /\ Claims)
<1>1. Init => TypeOK /\ Claims  BY InitTypeOK, InitClaims
<1>2. TypeOK /\ Claims /\ [Next]_vars => TypeOK' /\ Claims'  BY NextTypeOK, NextClaims
<1> QED  BY <1>1, <1>2, PTL DEF Spec

\* At most one lane passes the claim fence of a job, for any number of lanes,
\* processes, crashes, pauses and recoveries.
THEOREM SingleOwner == Spec => []OneOwner
<1>1. TypeOK /\ Claims => OneOwner
  BY DEF Claims, ClaimsDistinct, OneOwner, Owns
<1> QED  BY <1>1, ClaimsKept, PTL

\* The attempts column accounts for every claim, and so the number of handler
\* runs is bounded by max_retries + 1 and the graceful releases.
THEOREM RetriesBounded == Spec => [](AttemptsPaid /\ RetryBudget)
<1>1. TypeOK /\ Claims => AttemptsPaid /\ RetryBudget
  <2> SUFFICES ASSUME TypeOK, Claims, NEW j \in Job
               PROVE  claims[j] <= MaxRetries[j] + 1 + released[j]
    BY DEF RetryBudget, Claims
  <2>1. /\ row[j].attempts \in Nat /\ MaxRetries[j] \in Nat /\ released[j] \in Nat
        /\ row[j].claim \in Nat
    BY QueueAssumption DEF TypeOK, Row
  <2>2. Spent(row[j].attempts, j) \in Nat /\ Spent(row[j].attempts, j) <= MaxRetries[j]
    BY <2>1 DEF Spent
  <2>3. claims[j] = Spent(row[j].attempts, j) + released[j]
                    + (IF row[j].claim = 0 THEN 0 ELSE 1)
    BY DEF Claims, AttemptsPaid
  <2> QED  BY <2>1, <2>2, <2>3
<1> QED  BY <1>1, ClaimsKept, PTL

-----------------------------------------------------------------------------
(* Verdicts are final, and the draft's list agrees with the table. *)

\* What every step does to one job's status, terminal events and listing.
Fate(j) ==
    \/ row'[j].status = row[j].status /\ log'[j] = log[j] /\ (j \in listed' <=> j \in listed)
    \/ /\ row[j].status \in {"absent", "pending", "running", "failed"}
       /\ row'[j].status \in Open /\ log'[j] = log[j]
       /\ (row[j].status \in Open /\ (j \in listed' <=> j \in listed)) \/ j \in listed'
    \/ row[j].status \in Open /\ row'[j].status \in Settled /\ j \notin listed'

LEMMA TerminalFate ==
  ASSUME TypeOK, NEW i \in Job, NEW e \in Verdict, NEW a \in Nat, Terminal(i, e, a),
         row[i].status \in Open, NEW j \in Job
  PROVE  Fate(j)
<1>1. CASE e \in log[i] \/ j # i
  BY <1>1 DEF Terminal, Fate, TypeOK
<1>2. CASE e \notin log[i] /\ j = i
  <2>1. row[i] \in Row  BY DEF TypeOK
  <2>2. StatusOf[e] \in Settled  BY DEF StatusOf, Settled, Verdict
  <2>3. row'[i].status = StatusOf[e] /\ i \notin listed'
    BY <1>2, <2>1 DEF Terminal, TypeOK, Row
  <2> QED  BY <1>2, <2>2, <2>3 DEF Fate
<1> QED  BY <1>1, <1>2

LEMMA ToPendingFate ==
  ASSUME TypeOK, NEW i \in Job, NEW a \in Nat, NEW d \in Nat, ToPending(i, a, d),
         row[i].status = "running", UNCHANGED <<log, listed>>, NEW j \in Job
  PROVE  Fate(j)
<1>1. row[i] \in Row  BY DEF TypeOK
<1>2. row'[i].status = "pending" /\ (j # i => row'[j] = row[j])
  BY <1>1 DEF ToPending, TypeOK, Row
<1> QED  BY <1>2 DEF Fate, Open

LEMMA StepFate ==
  ASSUME TypeOK, Claims, [Next]_vars, NEW j \in Job
  PROVE  Fate(j)
<1> USE QueueAssumption
<1>a. ASSUME UNCHANGED <<row, log, listed>> PROVE Fate(j)
  BY <1>a DEF Fate
<1>1. ASSUME NEW i \in Job, Enqueue(i) PROVE Fate(j)
  <2>1. row[i] \in Row  BY DEF TypeOK
  <2>2. row'[i].status = "pending" /\ (j # i => row'[j] = row[j])
    BY <1>1, <2>1 DEF Enqueue, TypeOK, Row
  <2> QED  BY <1>1, <2>2 DEF Enqueue, Fate, Open
<1>2. ASSUME NEW i \in Job, Cancel(i) PROVE Fate(j)
  <2>1. row[i].attempts \in Nat  BY DEF TypeOK, Row
  <2> QED  BY <1>2, <2>1, TerminalFate DEF Cancel, Verdict
<1>3. ASSUME NEW l \in Lane, Claim(l) PROVE Fate(j)
  <2>1. PICK i \in Due(l) :
          row' = [row EXCEPT ![i] = [@ EXCEPT !.status = "running", !.hb = 0,
                                              !.claim = claims[i] + 1]]
    BY <1>3 DEF Claim
  <2>2. i \in Job /\ row[i].status = "pending" /\ row[i] \in Row
    BY <2>1 DEF Due, TypeOK
  <2>3. row'[i].status = "running" /\ (j # i => row'[j] = row[j])
    BY <2>1, <2>2 DEF TypeOK, Row
  <2> QED  BY <1>3, <2>2, <2>3 DEF Claim, Fate, Open
<1>4. ASSUME NEW l \in Lane, Heartbeat(l) PROVE Fate(j)
  <2>1. lane[l].job \in Job /\ row[lane[l].job] \in Row
    BY <1>4 DEF Heartbeat, TypeOK, Busy
  <2>2. row'[j].status = row[j].status
    BY <1>4, <2>1 DEF Heartbeat, TypeOK, Row
  <2> QED  BY <1>4, <2>2 DEF Heartbeat, Fate
<1>6. ASSUME NEW l \in Lane, Progress(l) PROVE Fate(j)
  <2> DEFINE i == lane[l].job
  <2>1. i \in Job /\ Busy(l) /\ row[i] \in Row  BY <1>6 DEF Progress, TypeOK, Busy
  <2>2. row[i].status \in {"running", "failed"}
    BY <1>6, <2>1 DEF Progress, Claims, StatusMatchesClaim, Holds
  <2>3. row'[i].status = "running" /\ (j # i => row'[j] = row[j])
    BY <1>6, <2>1 DEF Progress, TypeOK, Row
  <2> QED  BY <1>6, <2>2, <2>3 DEF Progress, Fate, Open
<1>9. ASSUME NEW l \in Lane, Release(l) PROVE Fate(j)
  <2>1. lane[l].job \in Job /\ row[lane[l].job] \in Row
    BY <1>9 DEF Release, TypeOK, Busy
  <2>2. row[lane[l].job].attempts \in Nat /\ row[lane[l].job].wait \in Nat
    BY <2>1 DEF Row
  <2> QED  BY <1>9, <1>a, <2>1, <2>2, ToPendingFate DEF Release, Owns
<1>10. ASSUME NEW l \in Lane, Retry(l) PROVE Fate(j)
  <2>1. lane[l].job \in Job /\ lane[l] \in Worker  BY <1>10 DEF Retry, TypeOK, Busy
  <2>2. lane[l].attempts + 1 \in Nat  BY <2>1 DEF Worker
  <2> QED  BY <1>10, <1>a, <2>1, <2>2, RetryDelayNat, ToPendingFate DEF Retry, Owns
<1>11. ASSUME NEW l \in Lane, Finish(l) PROVE Fate(j)
  <2>1. lane[l].job \in Job /\ row[lane[l].job] \in Row
    BY <1>11 DEF Finish, TypeOK, Busy
  <2>2. row[lane[l].job].attempts \in Nat  BY <2>1 DEF Row
  <2> QED  BY <1>11, <1>a, <2>1, <2>2, TerminalFate DEF Finish, Owns, Verdict, Open
<1>14. ASSUME NEW p \in Proc, NEW s \in recov[p], RecoverRow(p, s) PROVE Fate(j)
  <2>1. s.job \in Job /\ s.attempts + 1 \in Nat  BY DEF TypeOK, Snapshot
  <2>2. CASE /\ row[s.job].status = "running" /\ row[s.job].claim = s.claim /\ s.same
             /\ s.attempts + 1 > MaxRetries[s.job]
    BY <1>14, <2>1, <2>2, TerminalFate DEF RecoverRow, Verdict, Open
  <2>3. CASE /\ row[s.job].status = "running" /\ row[s.job].claim = s.claim /\ s.same
             /\ ~ (s.attempts + 1 > MaxRetries[s.job])
    BY <1>14, <2>1, <2>3, ToPendingFate DEF RecoverRow
  <2>4. CASE ~ (row[s.job].status = "running" /\ row[s.job].claim = s.claim /\ s.same)
    BY <1>14, <1>a, <2>4 DEF RecoverRow
  <2> QED  BY <2>2, <2>3, <2>4
<1>21. CASE Tick
  <2>1. row[j] \in Row  BY DEF TypeOK
  <2>2. row'[j].status = row[j].status  BY <1>21, <2>1 DEF Tick, Row
  <2> QED  BY <1>21, <2>2 DEF Tick, Fate
<1>22. CASE UNCHANGED <<row, log, listed>>
  BY <1>22, <1>a
<1>23. ASSUME NEW l \in Lane, \/ HeartbeatError(l) \/ HandlerReturn(l) \/ ReadBack(l) \/ SettleError(l)
       PROVE  UNCHANGED <<row, log, listed>>
  BY <1>23 DEF HeartbeatError, HandlerReturn, ReadBack, SettleError
<1>24. ASSUME NEW p \in Proc, \/ RecoverScan(p) \/ StartLanes(p) \/ RecoverError(p) \/ Stop(p)
                              \/ Exit(p) \/ Crash(p) \/ Restart(p)
       PROVE  UNCHANGED <<row, log, listed>>
  BY <1>24 DEF RecoverScan, StartLanes, RecoverError, Stop, Exit, Crash, Restart
<1>25. UNCHANGED vars => UNCHANGED <<row, log, listed>>
  BY DEF vars
<1> QED
  BY <1>1, <1>2, <1>3, <1>4, <1>6, <1>9, <1>10, <1>11, <1>14, <1>21, <1>22, <1>23, <1>24, <1>25
  DEF Next, LaneStep, ProcStep

\* A success or a cancellation is never revised, by nobody and in no order of
\* events, although claims outlive them in the row.
THEOREM VerdictsFinal == Spec => DecidedIsFinal
<1> DEFINE A == \A j \in Job : row[j].status \in {"succeeded", "cancelled"} =>
                  row'[j].status = row[j].status /\ log'[j] = log[j]
<1>1. TypeOK /\ Claims /\ [Next]_vars => [A]_vars
  BY StepFate DEF Fate, Open
<1>2. [][TypeOK /\ Claims /\ [Next]_vars]_vars => [][A]_vars
  BY <1>1, PTL
<1> QED  BY <1>1, ClaimsKept, PTL DEF Spec, DecidedIsFinal

\* running_jobs_json lists exactly the open jobs.
THEOREM ListAgrees == Spec => []ListedIffOpen
<1>1. Init => ListedIffOpen  BY DEF Init, ListedIffOpen, Open
<1>2. TypeOK /\ Claims /\ ListedIffOpen /\ [Next]_vars => ListedIffOpen'
  <2> SUFFICES ASSUME TypeOK, Claims, ListedIffOpen, [Next]_vars, NEW j \in Job
               PROVE  j \in listed' <=> row'[j].status \in Open
    BY DEF ListedIffOpen
  <2>1. Fate(j)  BY StepFate
  <2> QED  BY <2>1 DEF Fate, ListedIffOpen, Open, Settled
<1> QED  BY <1>1, <1>2, ClaimsKept, PTL DEF Spec

-----------------------------------------------------------------------------
(* When live lanes beat in time, a lane keeps its claim until it lets go of it. *)

\* A busy lane has the claim of its job, which is running with a fresh heartbeat
\* or cancelled; a row that a recovery pass may still take has a stale one.
Beating ==
    /\ \A l \in Lane : Busy(l) =>
         /\ row[lane[l].job].claim = lane[l].claim
         /\ row[lane[l].job].status \in {"running", "cancelled"}
         /\ row[lane[l].job].status = "running" => row[lane[l].job].hb <= Timeout
    /\ \A p \in Proc : \A s \in recov[p] :
         s.same /\ row[s.job].status = "running" /\ row[s.job].claim = s.claim
         => row[s.job].hb > Timeout

\* No lane takes up a claim.
LanesStay ==
    \A m \in Lane : Busy(m)' =>
        Busy(m) /\ lane'[m].job = lane[m].job /\ lane'[m].claim = lane[m].claim

\* No recovery pass reads a row.
SnapsStay ==
    \A p \in Proc : \A s \in recov'[p] : \E t \in recov[p] :
        t.job = s.job /\ t.claim = s.claim /\ (s.same => t.same)

LEMMA InitBeating == Init => Beating
BY DEF Init, Beating, Busy, Idle

\* A step that leaves claims, statuses and heartbeats alone.
LEMMA BeatingFrame ==
  ASSUME TypeOK, Beating, LanesStay, SnapsStay,
         \A j \in Job : /\ row'[j].claim = row[j].claim /\ row'[j].hb = row[j].hb
                        /\ row'[j].status = row[j].status
  PROVE  Beating'
<1>1. ASSUME NEW l \in Lane, Busy(l)'
      PROVE  /\ row'[lane'[l].job].claim = lane'[l].claim
             /\ row'[lane'[l].job].status \in {"running", "cancelled"}
             /\ row'[lane'[l].job].status = "running" => row'[lane'[l].job].hb <= Timeout
  <2>1. Busy(l) /\ lane'[l].job = lane[l].job /\ lane'[l].claim = lane[l].claim
        /\ lane[l].job \in Job
    BY <1>1 DEF LanesStay, TypeOK
  <2> QED  BY <2>1 DEF Beating
<1>2. ASSUME NEW p \in Proc, NEW s \in recov'[p], s.same, row'[s.job].status = "running",
             row'[s.job].claim = s.claim
      PROVE  row'[s.job].hb > Timeout
  <2>1. PICK t \in recov[p] : t.job = s.job /\ t.claim = s.claim /\ t.same
    BY <1>2 DEF SnapsStay
  <2>2. t.job \in Job  BY DEF TypeOK, Snapshot
  <2> QED  BY <1>2, <2>1, <2>2 DEF Beating
<1> QED  BY <1>1, <1>2 DEF Beating

\* A step that takes one job out of the running ones, or adds a pending one.
LEMMA BeatingSettled ==
  ASSUME TypeOK, Beating, LanesStay, SnapsStay, NEW j \in Job,
         \A i \in Job : i # j => row'[i] = row[i],
         row'[j].status # "running",
         \A m \in Lane : Busy(m)' /\ lane[m].job = j =>
            row'[j].claim = row[j].claim /\ row'[j].status = "cancelled"
  PROVE  Beating'
<1>1. ASSUME NEW l \in Lane, Busy(l)'
      PROVE  /\ row'[lane'[l].job].claim = lane'[l].claim
             /\ row'[lane'[l].job].status \in {"running", "cancelled"}
             /\ row'[lane'[l].job].status = "running" => row'[lane'[l].job].hb <= Timeout
  <2>1. Busy(l) /\ lane'[l].job = lane[l].job /\ lane'[l].claim = lane[l].claim
        /\ lane[l].job \in Job
    BY <1>1 DEF LanesStay, TypeOK
  <2>2. CASE lane[l].job = j  BY <1>1, <2>1, <2>2 DEF Beating
  <2>3. CASE lane[l].job # j  BY <2>1, <2>3 DEF Beating
  <2> QED  BY <2>2, <2>3
<1>2. ASSUME NEW p \in Proc, NEW s \in recov'[p], s.same, row'[s.job].status = "running",
             row'[s.job].claim = s.claim
      PROVE  row'[s.job].hb > Timeout
  <2>1. PICK t \in recov[p] : t.job = s.job /\ t.claim = s.claim /\ t.same
    BY <1>2 DEF SnapsStay
  <2>2. t.job \in Job  BY DEF TypeOK, Snapshot
  <2>3. s.job # j  BY <1>2
  <2>4. row'[s.job] = row[s.job]  BY <2>1, <2>2, <2>3
  <2> QED  BY <1>2, <2>1, <2>4 DEF Beating
<1> QED  BY <1>1, <1>2 DEF Beating

\* What Terminal and ToPending do to the rows.
LEMMA TerminalRows ==
  ASSUME TypeOK, NEW j \in Job, NEW e \in Verdict, NEW a \in Nat, Terminal(j, e, a)
  PROVE  \/ UNCHANGED <<row, log, listed>>
         \/ /\ \A i \in Job : i # j => row'[i] = row[i]
            /\ row'[j].status = StatusOf[e] /\ row'[j].attempts = a
            /\ row'[j].claim = row[j].claim /\ row'[j].hb = row[j].hb
<1>1. row[j] \in Row  BY DEF TypeOK
<1> QED  BY <1>1 DEF Terminal, TypeOK, Row

LEMMA ToPendingRows ==
  ASSUME TypeOK, NEW j \in Job, NEW a \in Nat, NEW d \in Nat, ToPending(j, a, d)
  PROVE  /\ \A i \in Job : i # j => row'[i] = row[i]
         /\ row'[j].status = "pending" /\ row'[j].attempts = a
<1>1. row[j] \in Row  BY DEF TypeOK
<1> QED  BY <1>1 DEF ToPending, TypeOK, Row

\* Nobody but the lane itself has its claim.
LEMMA Alone ==
  ASSUME TypeOK, Claims, Beating, NEW l \in Lane, NEW m \in Lane, Busy(l), Busy(m),
         lane[l].job = lane[m].job
  PROVE  l = m
BY DEF Beating, Claims, ClaimsDistinct

\* The rows stay as they are; a lane may let go, a handler's context may end.
LEMMA BeatingIdle ==
  ASSUME TypeOK, Beating, row' = row, LanesStay, SnapsStay
  PROVE  Beating'
BY BeatingFrame

\* The lane that settles is idle afterwards and no other lane had its job.
LEMMA LetGo ==
  ASSUME TypeOK, Claims, Beating, NEW l \in Lane, Busy(l),
         lane' = [lane EXCEPT ![l] = Idle]
  PROVE  LanesStay /\ \A m \in Lane : Busy(m)' => lane[m].job # lane[l].job
<1>1. \A m \in Lane : Busy(m)' => m # l /\ Busy(m) /\ lane'[m] = lane[m]
  BY DEF Busy, Idle, TypeOK
<1> QED  BY <1>1, Alone DEF LanesStay

LEMMA BeatingEnqueue ==
  ASSUME TypeOK, Beating, NEW j \in Job, Enqueue(j)
  PROVE  Beating'
<1>1. row[j] \in Row  BY DEF TypeOK
<1>2. LanesStay /\ SnapsStay  BY DEF Enqueue, LanesStay, SnapsStay, Busy
<1>3. row'[j].status = "pending" /\ \A i \in Job : i # j => row'[i] = row[i]
  BY <1>1 DEF Enqueue, TypeOK, Row
<1>4. \A m \in Lane : Busy(m)' => lane[m].job # j
  BY DEF Enqueue, Beating, Busy
<1> QED  BY <1>2, <1>3, <1>4, BeatingSettled

LEMMA BeatingCancel ==
  ASSUME TypeOK, Beating, NEW j \in Job, Cancel(j)
  PROVE  Beating'
<1>1. row[j].attempts \in Nat  BY DEF TypeOK, Row
<1>2. LanesStay /\ SnapsStay  BY DEF Cancel, LanesStay, SnapsStay, Busy
<1>3. \/ UNCHANGED <<row, log, listed>>
      \/ /\ \A i \in Job : i # j => row'[i] = row[i]
         /\ row'[j].status = "cancelled" /\ row'[j].claim = row[j].claim
  BY <1>1, TerminalRows DEF Cancel, Verdict, StatusOf
<1>4. CASE row' = row  BY <1>2, <1>4, BeatingIdle
<1>5. CASE /\ \A i \in Job : i # j => row'[i] = row[i]
           /\ row'[j].status = "cancelled" /\ row'[j].claim = row[j].claim
  BY <1>2, <1>5, BeatingSettled
<1> QED  BY <1>3, <1>4, <1>5

\* A new claim number is above every number a lane or a snapshot has.
LEMMA BeatingClaim ==
  ASSUME TypeOK, Claims, Beating, NEW l \in Lane, Claim(l)
  PROVE  Beating'
<1>1. PICK j \in Due(l) :
        /\ row' = [row EXCEPT ![j] = [@ EXCEPT !.status = "running", !.hb = 0,
                                               !.claim = claims[j] + 1]]
        /\ claims' = [claims EXCEPT ![j] = @ + 1]
        /\ lane' = [lane EXCEPT ![l] = [Idle EXCEPT !.pc = "run", !.job = j,
                      !.claim = claims[j] + 1, !.attempts = row[j].attempts]]
  BY DEF Claim
<1>2. j \in Job /\ row[j].status = "pending" /\ row[j] \in Row /\ claims[j] \in Nat
  BY <1>1, QueueAssumption DEF Due, TypeOK
<1>3. /\ row'[j].claim = claims[j] + 1 /\ row'[j].hb = 0 /\ row'[j].status = "running"
      /\ \A i \in Job : i # j => row'[i] = row[i]
  BY <1>1, <1>2 DEF TypeOK, Row
<1>4. /\ lane'[l].job = j /\ lane'[l].claim = claims[j] + 1
      /\ \A m \in Lane : m # l => lane'[m] = lane[m]
  BY <1>1 DEF TypeOK, Idle
<1>5. recov' = recov  BY DEF Claim
<1>6. ASSUME NEW m \in Lane, Busy(m)'
      PROVE  /\ row'[lane'[m].job].claim = lane'[m].claim
             /\ row'[lane'[m].job].status \in {"running", "cancelled"}
             /\ row'[lane'[m].job].status = "running" => row'[lane'[m].job].hb <= Timeout
  <2>1. CASE m = l
    BY <1>3, <1>4, <2>1, QueueAssumption
  <2>2. CASE m # l
    <3>1. Busy(m) /\ lane'[m] = lane[m] /\ lane[m].job \in Job
      BY <1>4, <1>6, <2>2 DEF Busy, TypeOK
    <3>2. lane[m].job # j  BY <1>2, <3>1 DEF Beating
    <3> QED  BY <1>3, <3>1, <3>2 DEF Beating
  <2> QED  BY <2>1, <2>2
<1>7. ASSUME NEW p \in Proc, NEW s \in recov'[p], s.same, row'[s.job].status = "running",
             row'[s.job].claim = s.claim
      PROVE  row'[s.job].hb > Timeout
  <2>1. s \in recov[p] /\ s.job \in Job /\ s.claim \in Nat /\ s.claim <= claims[s.job]
    BY <1>5 DEF TypeOK, Snapshot, Claims, ClaimsCounted
  <2>2. s.job # j  BY <1>2, <1>3, <1>7, <2>1
  <2> QED  BY <1>3, <1>7, <2>1, <2>2 DEF Beating
<1> QED  BY <1>6, <1>7 DEF Beating

LEMMA BeatingHeartbeat ==
  ASSUME TypeOK, Beating, NEW l \in Lane, Heartbeat(l)
  PROVE  Beating'
<1> DEFINE j == lane[l].job
<1>1. j \in Job /\ row[j] \in Row /\ Busy(l)  BY DEF Heartbeat, TypeOK, Busy
<1>2. CASE Owns(l)
  <2>1. /\ \A i \in Job : i # j => row'[i] = row[i]
        /\ row'[j].claim = row[j].claim /\ row'[j].status = row[j].status /\ row'[j].hb = 0
    BY <1>1, <1>2 DEF Heartbeat, TypeOK, Row
  <2>2. lane' = lane  BY <1>2 DEF Heartbeat
  <2>3. ASSUME NEW m \in Lane, Busy(m)'
        PROVE  /\ row'[lane'[m].job].claim = lane'[m].claim
               /\ row'[lane'[m].job].status \in {"running", "cancelled"}
               /\ row'[lane'[m].job].status = "running" => row'[lane'[m].job].hb <= Timeout
    <3>1. Busy(m) /\ lane[m].job \in Job  BY <2>2, <2>3 DEF Busy, TypeOK
    <3>2. CASE lane[m].job = j  BY <2>1, <2>2, <3>1, <3>2, QueueAssumption DEF Beating
    <3>3. CASE lane[m].job # j  BY <2>1, <2>2, <3>1, <3>3 DEF Beating
    <3> QED  BY <3>2, <3>3
  <2>4. ASSUME NEW p \in Proc, NEW s \in recov'[p], s.same, row'[s.job].status = "running",
               row'[s.job].claim = s.claim
        PROVE  row'[s.job].hb > Timeout
    <3>1. PICK t \in recov[p] : s = [t EXCEPT !.same = @ /\ t.job # j]
      BY <1>2 DEF Heartbeat
    <3>2. t \in Snapshot  BY DEF TypeOK
    <3>3. t.job = s.job /\ t.claim = s.claim /\ t.job \in Job
      BY <3>1, <3>2 DEF Snapshot
    <3>4. s.same = (t.same /\ t.job # j)
      BY <3>1, <3>2, Zenon DEF Snapshot
    <3>5. t.same /\ t.job # j  BY <2>4, <3>4
    <3>6. row'[s.job] = row[t.job]  BY <2>1, <3>3, <3>5
    <3> QED  BY <2>4, <3>3, <3>5, <3>6 DEF Beating
  <2> QED  BY <2>3, <2>4 DEF Beating
<1>3. CASE ~ Owns(l)
  <2>1. lane[l] \in Worker /\ lane' = [lane EXCEPT ![l].ctx = "cancelled"]
    BY <1>3 DEF Heartbeat, TypeOK
  <2>2. LanesStay  BY <2>1 DEF LanesStay, Busy, TypeOK, Worker
  <2>3. row' = row /\ recov' = recov  BY <1>3 DEF Heartbeat
  <2> QED  BY <2>2, <2>3, BeatingIdle DEF SnapsStay
<1> QED  BY <1>2, <1>3

\* The reporting lane has its claim, so the row it writes is running already.
LEMMA ProgressKeepsStatus ==
  ASSUME TypeOK, Beating, NEW l \in Lane, Progress(l)
  PROVE  \A i \in Job : /\ row'[i].claim = row[i].claim /\ row'[i].hb = row[i].hb
                        /\ row'[i].status = row[i].status
                        /\ row'[i].attempts = row[i].attempts
<1> DEFINE j == lane[l].job
<1>1. j \in Job /\ row[j] \in Row /\ Busy(l)  BY DEF Progress, TypeOK, Busy
<1>2. row[j].status = "running"  BY <1>1 DEF Progress, Beating
<1> QED  BY <1>1, <1>2 DEF Progress, TypeOK, Row

LEMMA BeatingRelease ==
  ASSUME TypeOK, Claims, Beating, NEW l \in Lane, Release(l)
  PROVE  Beating'
<1> DEFINE j == lane[l].job
<1>1. j \in Job /\ Busy(l) /\ row[j].attempts \in Nat /\ row[j].wait \in Nat
  BY DEF Release, TypeOK, Busy, Row
<1>2. LanesStay /\ \A m \in Lane : Busy(m)' => lane[m].job # j
  BY <1>1, LetGo DEF Release
<1>3. SnapsStay  BY DEF Release, SnapsStay
<1>4. CASE Owns(l)
  <2>1. /\ \A i \in Job : i # j => row'[i] = row[i]
        /\ row'[j].status = "pending"
    BY <1>1, <1>4, ToPendingRows DEF Release
  <2> QED  BY <1>1, <1>2, <1>3, <2>1, BeatingSettled
<1>5. CASE ~ Owns(l)  BY <1>2, <1>3, <1>5, BeatingIdle DEF Release
<1> QED  BY <1>4, <1>5

LEMMA BeatingRetry ==
  ASSUME TypeOK, Claims, Beating, NEW l \in Lane, Retry(l)
  PROVE  Beating'
<1> DEFINE j == lane[l].job
           a == lane[l].attempts + 1
<1>1. j \in Job /\ Busy(l) /\ lane[l] \in Worker  BY DEF Retry, TypeOK, Busy
<1>2. a \in Nat /\ RetryDelay(a) \in Nat  BY <1>1, RetryDelayNat DEF Worker
<1>3. SnapsStay  BY DEF Retry, SnapsStay
<1>4. CASE Owns(l)
  <2>1. LanesStay /\ \A m \in Lane : Busy(m)' => lane[m].job # j
    BY <1>1, <1>4, LetGo DEF Retry
  <2>2. ToPending(j, a, RetryDelay(a))  BY <1>4 DEF Retry
  <2> HIDE DEF a
  <2>3. /\ \A i \in Job : i # j => row'[i] = row[i]
        /\ row'[j].status = "pending"
    BY <1>1, <1>2, <2>2, ToPendingRows
  <2> QED  BY <1>1, <1>3, <2>1, <2>3, BeatingSettled
<1>5. CASE ~ Owns(l)
  <2>1. lane' = [lane EXCEPT ![l].pc = "finish"] /\ row' = row  BY <1>5 DEF Retry
  <2>2. LanesStay  BY <1>1, <2>1 DEF LanesStay, Busy, TypeOK, Worker
  <2> QED  BY <1>3, <2>1, <2>2, BeatingIdle
<1> QED  BY <1>4, <1>5

LEMMA BeatingFinish ==
  ASSUME TypeOK, Claims, Beating, NEW l \in Lane, Finish(l)
  PROVE  Beating'
<1> DEFINE j == lane[l].job
           e == IF lane[l].outcome = "ok" THEN "JobSucceeded" ELSE "JobFailed"
<1>1. j \in Job /\ Busy(l) /\ row[j].attempts \in Nat
  BY DEF Finish, TypeOK, Busy, Row
<1>2. LanesStay /\ \A m \in Lane : Busy(m)' => lane[m].job # j
  BY <1>1, LetGo DEF Finish
<1>3. SnapsStay  BY DEF Finish, SnapsStay
<1>4. CASE Owns(l)
  <2>1. e \in Verdict /\ StatusOf[e] # "running"  BY DEF Verdict, StatusOf
  <2>2. Terminal(j, e, row[j].attempts)  BY <1>4 DEF Finish
  <2> HIDE DEF e
  <2>3. \/ row' = row
        \/ /\ \A i \in Job : i # j => row'[i] = row[i]
           /\ row'[j].status # "running"
    BY <1>1, <2>1, <2>2, TerminalRows
  <2>4. CASE row' = row  BY <1>2, <1>3, <2>4, BeatingIdle
  <2>5. CASE /\ \A i \in Job : i # j => row'[i] = row[i]
             /\ row'[j].status # "running"
    BY <1>1, <1>2, <1>3, <2>5, BeatingSettled
  <2> QED  BY <2>3, <2>4, <2>5
<1>5. CASE ~ Owns(l)  BY <1>2, <1>3, <1>5, BeatingIdle DEF Finish
<1> QED  BY <1>4, <1>5

\* A recovery pass takes a row only when no lane works on it any more.
LEMMA BeatingRecoverRow ==
  ASSUME TypeOK, Beating, NEW p \in Proc, NEW s \in recov[p], RecoverRow(p, s)
  PROVE  Beating'
<1> DEFINE held == row[s.job].status = "running" /\ row[s.job].claim = s.claim /\ s.same
           j == s.job
           a == s.attempts + 1
<1>1. j \in Job /\ a \in Nat  BY DEF TypeOK, Snapshot
<1>2. LanesStay /\ SnapsStay
  BY DEF RecoverRow, LanesStay, SnapsStay, Busy, TypeOK
<1>3. CASE ~ held
  BY <1>2, <1>3, BeatingIdle DEF RecoverRow
<1>4. CASE held
  <2>1. row[j].hb > Timeout /\ row[j].hb \in Int /\ Timeout \in Int
    BY <1>1, <1>4, QueueAssumption DEF Beating, TypeOK, Row
  <2>2. \A m \in Lane : Busy(m)' => lane[m].job # j
    <3>1. \A m \in Lane : Busy(m)' => Busy(m)  BY <1>2 DEF LanesStay
    <3> QED  BY <1>4, <2>1, <3>1 DEF Beating
  <2>3. \/ Terminal(j, "JobFailed", a)
        \/ ToPending(j, a, 0)
    BY <1>4 DEF RecoverRow
  <2> HIDE DEF a
  <2>4. \/ row' = row
        \/ /\ \A i \in Job : i # j => row'[i] = row[i]
           /\ row'[j].status # "running"
    BY <1>1, <2>3, TerminalRows, ToPendingRows DEF Verdict, StatusOf
  <2>5. CASE row' = row  BY <1>2, <2>5, BeatingIdle
  <2>6. CASE /\ \A i \in Job : i # j => row'[i] = row[i]
             /\ row'[j].status # "running"
    BY <1>1, <1>2, <2>2, <2>6, BeatingSettled
  <2> QED  BY <2>4, <2>5, <2>6
<1> QED  BY <1>3, <1>4

LEMMA BeatingScan ==
  ASSUME TypeOK, Beating, NEW p \in Proc, RecoverScan(p)
  PROVE  Beating'
<1>1. row' = row /\ lane' = lane  BY DEF RecoverScan
<1>2. ASSUME NEW q \in Proc, NEW s \in recov'[q], s.same, row'[s.job].status = "running",
             row'[s.job].claim = s.claim
      PROVE  row'[s.job].hb > Timeout
  <2>1. CASE q = p
    <3>1. recov'[p] = {[job |-> j, claim |-> row[j].claim, attempts |-> row[j].attempts,
                        same |-> TRUE] : j \in {i \in Job : Stale(i)}}
      BY DEF RecoverScan, TypeOK
    <3>2. PICK j \in {i \in Job : Stale(i)} : s.job = j
      BY <2>1, <3>1
    <3> QED  BY <1>1, <3>2 DEF Stale
  <2>2. CASE q # p
    <3>1. recov'[q] = recov[q]  BY <2>2 DEF RecoverScan, TypeOK
    <3> QED  BY <1>1, <1>2, <3>1 DEF Beating
  <2> QED  BY <2>1, <2>2
<1> QED  BY <1>1, <1>2 DEF Beating, Busy

\* Time passes: the beating lanes are within their timeout, a stale row stays stale.
LEMMA BeatingTick ==
  ASSUME TypeOK, Beating, Tick,
         \A l \in Lane : Busy(l) /\ Owns(l) => row[lane[l].job].hb < Timeout
  PROVE  Beating'
<1>1. lane' = lane /\ recov' = recov  BY DEF Tick
<1>2. ASSUME NEW i \in Job
      PROVE  /\ row'[i].claim = row[i].claim /\ row'[i].status = row[i].status
             /\ row[i].hb \in Int /\ Timeout \in Int
             /\ row'[i].hb = row[i].hb \/ (row'[i].hb = row[i].hb + 1 /\ row[i].hb <= Timeout)
             /\ row[i].hb > Timeout => row'[i].hb = row[i].hb
  <2>1. row[i] \in Row  BY DEF TypeOK
  <2>2. row'[i] = [row[i] EXCEPT
           !.hb = IF row[i].status = "running" /\ @ <= Timeout THEN @ + 1 ELSE @,
           !.wait = IF @ > 0 THEN @ - 1 ELSE 0]
    BY DEF Tick
  <2>3. row[i].hb \in 0..(Timeout + 1) /\ Timeout \in Nat
    BY <2>1, QueueAssumption DEF Row
  <2>4. /\ row'[i].claim = row[i].claim /\ row'[i].status = row[i].status
        /\ row'[i].hb = IF row[i].status = "running" /\ row[i].hb <= Timeout
                        THEN row[i].hb + 1 ELSE row[i].hb
    BY <2>1, <2>2 DEF Row
  <2> QED  BY <2>3, <2>4
<1>3. ASSUME NEW m \in Lane, Busy(m)'
      PROVE  /\ row'[lane'[m].job].claim = lane'[m].claim
             /\ row'[lane'[m].job].status \in {"running", "cancelled"}
             /\ row'[lane'[m].job].status = "running" => row'[lane'[m].job].hb <= Timeout
  <2>1. Busy(m) /\ lane[m].job \in Job  BY <1>1, <1>3 DEF Busy, TypeOK
  <2>2. row[lane[m].job].status = "running" => row[lane[m].job].hb < Timeout
    BY <2>1 DEF Beating, Owns
  <2> QED  BY <1>1, <1>2, <2>1, <2>2 DEF Beating
<1>4. ASSUME NEW p \in Proc, NEW s \in recov'[p], s.same, row'[s.job].status = "running",
             row'[s.job].claim = s.claim
      PROVE  row'[s.job].hb > Timeout
  <2>1. s \in recov[p] /\ s.job \in Job  BY <1>1 DEF TypeOK, Snapshot
  <2>2. row[s.job].hb > Timeout  BY <1>2, <1>4, <2>1 DEF Beating
  <2> QED  BY <1>2, <2>1, <2>2
<1> QED  BY <1>3, <1>4 DEF Beating

\* The steps that leave the jobs table alone and take up no claim.
LEMMA BeatingLocal ==
  ASSUME TypeOK, Beating, NEW l \in Lane,
         HeartbeatError(l) \/ HandlerReturn(l) \/ ReadBack(l) \/ SettleError(l)
  PROVE  Beating'
<1>1. lane[l] \in Worker /\ row' = row /\ recov' = recov
  BY DEF HeartbeatError, HandlerReturn, ReadBack, SettleError, TypeOK
<1>2. \A m \in Lane : m # l => lane'[m] = lane[m]
  BY DEF HeartbeatError, HandlerReturn, ReadBack, SettleError, TypeOK
<1>3. \/ lane'[l] = Idle
      \/ Busy(l) /\ lane'[l].job = lane[l].job /\ lane'[l].claim = lane[l].claim
  <2>1. CASE HeartbeatError(l) \/ HandlerReturn(l)
    BY <1>1, <2>1 DEF HeartbeatError, HandlerReturn, Busy, TypeOK, Worker
  <2>2. CASE ReadBack(l)
    BY <1>1, <2>2 DEF ReadBack, Busy, TypeOK, Worker
  <2>3. CASE SettleError(l)
    BY <2>3 DEF SettleError, TypeOK
  <2> QED  BY <2>1, <2>2, <2>3
<1>4. LanesStay  BY <1>2, <1>3 DEF LanesStay, Busy, Idle
<1> QED  BY <1>1, <1>4, BeatingIdle DEF SnapsStay

LEMMA BeatingProc ==
  ASSUME TypeOK, Beating, NEW p \in Proc,
         StartLanes(p) \/ RecoverError(p) \/ Stop(p) \/ Exit(p) \/ Crash(p) \/ Restart(p)
  PROVE  Beating'
<1>1. row' = row
  BY DEF StartLanes, RecoverError, Stop, Exit, Crash, Restart
<1>2. \A q \in Proc : recov'[q] \subseteq recov[q]
  BY DEF StartLanes, RecoverError, Stop, Exit, Crash, Restart, TypeOK
<1>3. \A m \in Lane : \/ lane'[m] = lane[m] \/ lane'[m] = Idle
                      \/ lane'[m] = [lane[m] EXCEPT !.ctx = "cancelled"]
  BY DEF StartLanes, RecoverError, Stop, Exit, Crash, Restart
<1>4. LanesStay
  <2> SUFFICES ASSUME NEW m \in Lane, Busy(m)'
               PROVE  Busy(m) /\ lane'[m].job = lane[m].job /\ lane'[m].claim = lane[m].claim
    BY DEF LanesStay
  <2>1. lane[m] \in Worker  BY DEF TypeOK
  <2>2. CASE lane'[m] = lane[m]  BY <2>2 DEF Busy
  <2>3. CASE lane'[m] = Idle  BY <2>3 DEF Busy, Idle
  <2>4. CASE lane'[m] = [lane[m] EXCEPT !.ctx = "cancelled"]
    BY <2>1, <2>4 DEF Busy, Worker
  <2> QED  BY <1>3, <2>2, <2>3, <2>4
<1> QED  BY <1>1, <1>2, <1>4, BeatingIdle DEF SnapsStay

LEMMA NextBeating == Punctual /\ TypeOK /\ Claims /\ Beating /\ [Next]_vars => Beating'
<1> SUFFICES ASSUME Punctual, TypeOK, Claims, Beating, [Next]_vars PROVE Beating'
  OBVIOUS
<1>1. ASSUME NEW j \in Job, Enqueue(j) \/ Cancel(j) PROVE Beating'
  BY <1>1, BeatingEnqueue, BeatingCancel
<1>2. ASSUME NEW l \in Lane, Claim(l) \/ Heartbeat(l) \/ Release(l) \/ Retry(l) \/ Finish(l)
      PROVE  Beating'
  BY <1>2, BeatingClaim, BeatingHeartbeat, BeatingRelease, BeatingRetry, BeatingFinish
<1>3. ASSUME NEW l \in Lane, Progress(l) PROVE Beating'
  <2>1. LanesStay /\ SnapsStay  BY <1>3 DEF Progress, LanesStay, SnapsStay, Busy
  <2> QED  BY <1>3, <2>1, ProgressKeepsStatus, BeatingFrame
<1>4. ASSUME NEW l \in Lane,
             HeartbeatError(l) \/ HandlerReturn(l) \/ ReadBack(l) \/ SettleError(l)
      PROVE  Beating'
  BY <1>4, BeatingLocal
<1>5. ASSUME NEW p \in Proc, RecoverScan(p) \/ (\E s \in recov[p] : RecoverRow(p, s))
      PROVE  Beating'
  BY <1>5, BeatingScan, BeatingRecoverRow
<1>6. ASSUME NEW p \in Proc, \/ StartLanes(p) \/ RecoverError(p) \/ Stop(p)
                             \/ Exit(p) \/ Crash(p) \/ Restart(p)
      PROVE  Beating'
  BY <1>6, BeatingProc
<1>7. CASE Tick
  <2>1. \A l \in Lane : Busy(l) /\ Owns(l) => row[lane[l].job].hb < Timeout
    BY <1>7, Zenon DEF Tick
  <2> QED  BY <1>7, <2>1, BeatingTick
<1>8. CASE UNCHANGED vars
  <2>1. LanesStay /\ SnapsStay  BY <1>8 DEF vars, LanesStay, SnapsStay, Busy
  <2> QED  BY <1>8, <2>1, BeatingIdle DEF vars
<1> QED  BY <1>1, <1>2, <1>3, <1>4, <1>5, <1>6, <1>7, <1>8 DEF Next, LaneStep, ProcStep

-----------------------------------------------------------------------------
(* JobQueue implements JobLifecycle when live lanes beat in time. *)

\* One job's status moves and the rest of the table keeps statuses and spent attempts.
Moved(j, from, to) ==
    /\ row[j].status \in from /\ row'[j].status = to
    /\ \A i \in Job : i # j => row'[i].status = row[i].status
    /\ \A i \in Job : i # j => Spent(row'[i].attempts, i) = Spent(row[i].attempts, i)

\* The step costs the job no attempt, or one that it had left.
Free(j) == Spent(row'[j].attempts, j) = Spent(row[j].attempts, j)
Paid(j) == /\ Spent(row[j].attempts, j) < MaxRetries[j]
           /\ Spent(row'[j].attempts, j) = Spent(row[j].attempts, j) + 1

\* The steps of one job that the lifecycle allows.
Allowed(j) ==
    \/ Moved(j, {"absent"}, "pending") /\ Free(j)
    \/ Moved(j, {"pending"}, "running") /\ Free(j)
    \/ Moved(j, {"running"}, "pending") /\ (Free(j) \/ Paid(j))
    \/ Moved(j, {"running"}, "succeeded") /\ Free(j)
    \/ Moved(j, {"running"}, "failed") /\ Free(j)
    \/ Moved(j, Open, "cancelled") /\ Free(j)

\* No job's status or spent attempts change.
Stutters == \A i \in Job : /\ row'[i].status = row[i].status
                           /\ Spent(row'[i].attempts, i) = Spent(row[i].attempts, i)

LEMMA MovedMaps ==
  ASSUME NEW j \in Job, NEW from, NEW to, Moved(j, from, to)
  PROVE  Lifecycle!Move(j, from, to)
BY DEF Moved, Lifecycle!Move

LEMMA FreeMaps ==
  ASSUME NEW j \in Job, NEW from, NEW to, Moved(j, from, to), Free(j)
  PROVE  [i \in Job |-> Spent(row[i].attempts, i)]' = [i \in Job |-> Spent(row[i].attempts, i)]
BY DEF Moved, Free, Spent

LEMMA PaidMaps ==
  ASSUME NEW j \in Job, NEW from, NEW to, Moved(j, from, to), Paid(j)
  PROVE  LET tries == [i \in Job |-> Spent(row[i].attempts, i)]
         IN  tries[j] < MaxRetries[j] /\ tries' = [tries EXCEPT ![j] = @ + 1]
BY DEF Moved, Paid, Spent

LEMMA AllowedMaps ==
  ASSUME NEW j \in Job, Allowed(j)
  PROVE  Lifecycle!Next
<1>1. CASE Moved(j, {"absent"}, "pending") /\ Free(j)
  BY <1>1, MovedMaps, FreeMaps DEF Lifecycle!Next, Lifecycle!Submit
<1>2. CASE Moved(j, {"pending"}, "running") /\ Free(j)
  BY <1>2, MovedMaps, FreeMaps DEF Lifecycle!Next, Lifecycle!Begin
<1>3. CASE Moved(j, {"running"}, "pending") /\ Free(j)
  BY <1>3, MovedMaps, FreeMaps DEF Lifecycle!Next, Lifecycle!HandBack
<1>4. CASE Moved(j, {"running"}, "pending") /\ Paid(j)
  BY <1>4, MovedMaps, PaidMaps DEF Lifecycle!Next, Lifecycle!Lose
<1>5. CASE Moved(j, {"running"}, "succeeded") /\ Free(j)
  BY <1>5, MovedMaps, FreeMaps DEF Lifecycle!Next, Lifecycle!Succeed
<1>6. CASE Moved(j, {"running"}, "failed") /\ Free(j)
  BY <1>6, MovedMaps, FreeMaps DEF Lifecycle!Next, Lifecycle!Fail
<1>7. CASE Moved(j, Open, "cancelled") /\ Free(j)
  BY <1>7, MovedMaps, FreeMaps DEF Lifecycle!Next, Lifecycle!Cancel, Lifecycle!Open, Open
<1> QED  BY <1>1, <1>2, <1>3, <1>4, <1>5, <1>6, <1>7 DEF Allowed

LEMMA StuttersMap == Stutters => UNCHANGED Lifecycle!vars
BY DEF Stutters, Lifecycle!vars, Spent

LEMMA InitMaps == Init => Lifecycle!Init
<1> SUFFICES ASSUME Init PROVE Lifecycle!Init
  OBVIOUS
<1>1. \A j \in Job : row[j].status = "absent" /\ row[j].attempts = 0
  BY DEF Init
<1>2. \A j \in Job : Spent(0, j) = 0  BY QueueAssumption DEF Spent
<1> QED  BY <1>1, <1>2 DEF Lifecycle!Init, Spent

\* A terminal event is a move of its job, or nothing when it was logged already.
LEMMA TerminalMoves ==
  ASSUME TypeOK, NEW j \in Job, NEW e \in Verdict, NEW a \in Nat, Terminal(j, e, a),
         Spent(a, j) = Spent(row[j].attempts, j), NEW from, row[j].status \in from
  PROVE  Stutters \/ (Moved(j, from, StatusOf[e]) /\ Free(j))
<1>1. CASE UNCHANGED <<row, log, listed>>  BY <1>1 DEF Stutters
<1>2. CASE /\ \A i \in Job : i # j => row'[i] = row[i]
           /\ row'[j].status = StatusOf[e] /\ row'[j].attempts = a
  BY <1>2 DEF Moved, Free
<1> QED  BY <1>1, <1>2, TerminalRows

\* A job that goes back to the queue was not charged, or had an attempt left.
LEMMA ToPendingMoves ==
  ASSUME TypeOK, NEW j \in Job, NEW a \in Nat, NEW d \in Nat, ToPending(j, a, d),
         row[j].status = "running",
         \/ Spent(a, j) = Spent(row[j].attempts, j)
         \/ /\ Spent(row[j].attempts, j) < MaxRetries[j]
            /\ Spent(a, j) = Spent(row[j].attempts, j) + 1
  PROVE  Allowed(j)
<1>1. /\ \A i \in Job : i # j => row'[i] = row[i]
      /\ row'[j].status = "pending" /\ row'[j].attempts = a
  BY ToPendingRows
<1>2. Moved(j, {"running"}, "pending")  BY <1>1 DEF Moved
<1>3. Free(j) \/ Paid(j)  BY <1>1 DEF Free, Paid
<1> QED  BY <1>2, <1>3 DEF Allowed

\* The attempt after `a' is one that is left when it is within the budget.
LEMMA OneMore ==
  ASSUME NEW j \in Job, NEW a \in Nat, NEW b \in Nat, Spent(a, j) = Spent(b, j)
  PROVE  /\ a + 1 <= MaxRetries[j] =>
              Spent(b, j) < MaxRetries[j] /\ Spent(a + 1, j) = Spent(b, j) + 1
         /\ a + 1 > MaxRetries[j] => Spent(a + 1, j) = Spent(b, j)
<1>1. MaxRetries[j] \in Nat  BY QueueAssumption
<1> QED  BY <1>1 DEF Spent

\* Every step of the queue is a step of the lifecycle, of one job, or of none.
LEMMA NextMaps ==
  TypeOK /\ Claims /\ Beating /\ [Next]_vars => Stutters \/ \E j \in Job : Allowed(j)
<1> SUFFICES ASSUME TypeOK, Claims, Beating, [Next]_vars
             PROVE  Stutters \/ \E j \in Job : Allowed(j)
  OBVIOUS
<1>a. row' = row => Stutters  BY DEF Stutters
<1>b. \A j \in Job : row[j] \in Row /\ row[j].attempts \in Nat /\ row[j].wait \in Nat
  BY DEF TypeOK, Row
<1>1. ASSUME NEW j \in Job, Enqueue(j) PROVE Allowed(j)
  <2>1. /\ row[j].status = "absent" /\ row'[j].status = "pending"
        /\ row'[j].attempts = row[j].attempts
        /\ \A i \in Job : i # j => row'[i] = row[i]
    BY <1>1, <1>b DEF Enqueue, TypeOK, Row
  <2> QED  BY <2>1 DEF Allowed, Moved, Free
<1>2. ASSUME NEW j \in Job, Cancel(j) PROVE Stutters \/ Allowed(j)
  <2>1. Stutters \/ (Moved(j, Open, "cancelled") /\ Free(j))
    <3>1. Terminal(j, "JobCancelled", row[j].attempts) /\ row[j].status \in Open
      BY <1>2 DEF Cancel
    <3>2. "JobCancelled" \in Verdict /\ StatusOf["JobCancelled"] = "cancelled"
      BY DEF Verdict, StatusOf
    <3> QED  BY <1>b, <3>1, <3>2, TerminalMoves
  <2> QED  BY <2>1 DEF Allowed
<1>3. ASSUME NEW l \in Lane, Claim(l) PROVE \E j \in Job : Allowed(j)
  <2>1. PICK j \in Due(l) :
          row' = [row EXCEPT ![j] = [@ EXCEPT !.status = "running", !.hb = 0,
                                              !.claim = claims[j] + 1]]
    BY <1>3 DEF Claim
  <2>2. j \in Job /\ row[j].status = "pending"
    BY QueueAssumption DEF Due
  <2>3. /\ row'[j].status = "running" /\ row'[j].attempts = row[j].attempts
        /\ \A i \in Job : i # j => row'[i] = row[i]
    BY <1>b, <2>1, <2>2 DEF TypeOK, Row
  <2>4. Allowed(j)  BY <2>2, <2>3 DEF Allowed, Moved, Free
  <2> QED  BY <2>2, <2>4
<1>4. ASSUME NEW l \in Lane, Heartbeat(l) PROVE Stutters
  <2>1. CASE Owns(l)
    <3>1. lane[l].job \in Job  BY <1>4 DEF Heartbeat, TypeOK, Busy
    <3>2. row' = [row EXCEPT ![lane[l].job] = [row[lane[l].job] EXCEPT !.hb = 0]]
      BY <1>4, <2>1 DEF Heartbeat
    <3>3. \A i \in Job : row'[i].status = row[i].status /\ row'[i].attempts = row[i].attempts
      BY <1>b, <3>1, <3>2 DEF TypeOK, Row
    <3> QED  BY <3>3 DEF Stutters
  <2>2. CASE ~ Owns(l)  BY <1>4, <1>a, <2>2 DEF Heartbeat
  <2> QED  BY <2>1, <2>2
<1>5. ASSUME NEW l \in Lane, Progress(l) PROVE Stutters
  BY <1>5, ProgressKeepsStatus DEF Stutters
<1>6. ASSUME NEW l \in Lane, Release(l) PROVE Stutters \/ \E j \in Job : Allowed(j)
  <2>1. lane[l].job \in Job  BY <1>6 DEF Release, TypeOK, Busy
  <2>2. CASE Owns(l)
    <3>1. /\ ToPending(lane[l].job, row[lane[l].job].attempts, row[lane[l].job].wait)
          /\ row[lane[l].job].status = "running"
      BY <1>6, <2>2 DEF Release, Owns
    <3> QED  BY <1>b, <2>1, <3>1, ToPendingMoves
  <2>3. CASE ~ Owns(l)  BY <1>6, <1>a, <2>3 DEF Release
  <2> QED  BY <2>2, <2>3
<1>7. ASSUME NEW l \in Lane, Retry(l) PROVE Stutters \/ \E j \in Job : Allowed(j)
  <2> DEFINE j == lane[l].job
             a == lane[l].attempts
  <2>1. j \in Job /\ lane[l] \in Worker  BY <1>7 DEF Retry, TypeOK, Busy
  <2>2. a \in Nat /\ a + 1 \in Nat /\ RetryDelay(a + 1) \in Nat
    BY <2>1, RetryDelayNat DEF Worker
  <2>3. CASE Owns(l)
    <3>1. ToPending(j, a + 1, RetryDelay(a + 1)) /\ row[j].status = "running"
      BY <1>7, <2>3 DEF Retry, Owns
    <3>2. Spent(a, j) = Spent(row[j].attempts, j) /\ a + 1 <= MaxRetries[j]
      BY <1>7, <2>3 DEF Retry, Owns, Holds, Busy, Claims, SnapshotsAgree
    <3> HIDE DEF a, j
    <3>3. /\ Spent(row[j].attempts, j) < MaxRetries[j]
          /\ Spent(a + 1, j) = Spent(row[j].attempts, j) + 1
      BY <1>b, <2>1, <2>2, <3>2, OneMore
    <3>4. Allowed(j)  BY <2>1, <2>2, <3>1, <3>3, ToPendingMoves
    <3> QED  BY <2>1, <3>4
  <2>4. CASE ~ Owns(l)  BY <1>7, <1>a, <2>4 DEF Retry
  <2> QED  BY <2>3, <2>4
<1>8. ASSUME NEW l \in Lane, Finish(l) PROVE Stutters \/ \E j \in Job : Allowed(j)
  <2> DEFINE j == lane[l].job
             e == IF lane[l].outcome = "ok" THEN "JobSucceeded" ELSE "JobFailed"
  <2>1. j \in Job  BY <1>8 DEF Finish, TypeOK, Busy
  <2>2. CASE Owns(l)
    <3>1. e \in Verdict /\ StatusOf[e] \in {"succeeded", "failed"}
      BY DEF Verdict, StatusOf
    <3>2. Terminal(j, e, row[j].attempts) /\ row[j].status \in {"running"}
      BY <1>8, <2>2 DEF Finish, Owns
    <3> HIDE DEF e, j
    <3>3. Stutters \/ (Moved(j, {"running"}, StatusOf[e]) /\ Free(j))
      BY <1>b, <2>1, <3>1, <3>2, TerminalMoves
    <3> QED  BY <2>1, <3>1, <3>3 DEF Allowed
  <2>3. CASE ~ Owns(l)  BY <1>8, <1>a, <2>3 DEF Finish
  <2> QED  BY <2>2, <2>3
<1>9. ASSUME NEW p \in Proc, NEW s \in recov[p], RecoverRow(p, s)
      PROVE  Stutters \/ \E j \in Job : Allowed(j)
  <2> DEFINE j == s.job
             a == s.attempts
             held == row[j].status = "running" /\ row[j].claim = s.claim /\ s.same
  <2>1. j \in Job /\ a \in Nat /\ a + 1 \in Nat  BY DEF TypeOK, Snapshot
  <2>2. CASE ~ held  BY <1>9, <1>a, <2>2 DEF RecoverRow
  <2>3. CASE held
    <3>1. Spent(a, j) = Spent(row[j].attempts, j)
      BY <2>3 DEF Claims, SnapshotsAgree
    <3>2. /\ a + 1 > MaxRetries[j] => Terminal(j, "JobFailed", a + 1)
          /\ ~ (a + 1 > MaxRetries[j]) => ToPending(j, a + 1, 0)
      BY <1>9, <2>3 DEF RecoverRow
    <3>3. row[j].status \in {"running"}  BY <2>3
    <3> HIDE DEF a, j
    <3>4. CASE a + 1 > MaxRetries[j]
      <4>1. Spent(a + 1, j) = Spent(row[j].attempts, j)
        BY <1>b, <2>1, <3>1, <3>4, OneMore
      <4>2. "JobFailed" \in Verdict /\ StatusOf["JobFailed"] = "failed"
        BY DEF Verdict, StatusOf
      <4>3. Stutters \/ (Moved(j, {"running"}, "failed") /\ Free(j))
        BY <2>1, <3>2, <3>3, <3>4, <4>1, <4>2, TerminalMoves
      <4> QED  BY <2>1, <4>3 DEF Allowed
    <3>5. CASE ~ (a + 1 > MaxRetries[j])
      <4>1. a + 1 <= MaxRetries[j]  BY <2>1, <3>5, QueueAssumption
      <4>2. /\ Spent(row[j].attempts, j) < MaxRetries[j]
            /\ Spent(a + 1, j) = Spent(row[j].attempts, j) + 1
        BY <1>b, <2>1, <3>1, <4>1, OneMore
      <4>3. Allowed(j)  BY <2>1, <3>2, <3>3, <3>5, <4>2, ToPendingMoves
      <4> QED  BY <2>1, <4>3
    <3> QED  BY <3>4, <3>5
  <2> QED  BY <2>2, <2>3
<1>10. CASE Tick
  <2>1. \A i \in Job : row'[i].status = row[i].status /\ row'[i].attempts = row[i].attempts
    BY <1>10, <1>b DEF Tick, Row
  <2> QED  BY <2>1 DEF Stutters
<1>11. ASSUME NEW l \in Lane, \/ HeartbeatError(l) \/ HandlerReturn(l) \/ ReadBack(l) \/ SettleError(l)
       PROVE  row' = row
  BY <1>11 DEF HeartbeatError, HandlerReturn, ReadBack, SettleError
<1>12. ASSUME NEW p \in Proc, \/ RecoverScan(p) \/ StartLanes(p) \/ RecoverError(p) \/ Stop(p)
                              \/ Exit(p) \/ Crash(p) \/ Restart(p)
       PROVE  row' = row
  BY <1>12 DEF RecoverScan, StartLanes, RecoverError, Stop, Exit, Crash, Restart
<1>13. UNCHANGED vars => row' = row
  BY DEF vars
<1> QED
  BY <1>a, <1>1, <1>2, <1>3, <1>4, <1>5, <1>6, <1>7, <1>8, <1>9, <1>10, <1>11, <1>12, <1>13
  DEF Next, LaneStep, ProcStep

\* What the queue promises while live lanes beat in time: jobs are submitted,
\* begun, handed back, lost while they have tries left and settled once, and
\* lanes, claims, recovery passes and retries are only its implementation.
THEOREM QueueImplementsLifecycle == ASSUME Punctual PROVE Spec => LifecycleSpec
<1>1. Init => Lifecycle!Init  BY InitMaps
<1>2. TypeOK /\ Claims /\ Beating /\ [Next]_vars => [Lifecycle!Next]_(Lifecycle!vars)
  BY NextMaps, AllowedMaps, StuttersMap
<1>3. Init => Beating  BY InitBeating
<1>4. TypeOK /\ Claims /\ Beating /\ [Next]_vars => Beating'  BY NextBeating
<1>5. Spec => [](TypeOK /\ Claims)  BY ClaimsKept
<1> QED  BY <1>1, <1>2, <1>3, <1>4, <1>5, PTL DEF Spec, LifecycleSpec, Lifecycle!Spec

\* Only the claim of a pending job starts a handler, and a pending job is nobody's.
LEMMA StartsAlone ==
  ASSUME TypeOK, Claims, Beating, [Next]_vars, NEW l \in Lane, NEW m \in Lane,
         l # m, lane[l].pc # "run", lane'[l].pc = "run"
  PROVE  ~ (lane'[m].pc = "run" /\ lane'[m].job = lane'[l].job)
<1>1. Claim(l)
  <2>1. \A k \in Lane : lane[k] \in Worker  BY DEF TypeOK
  <2>2. lane' # lane  OBVIOUS
  <2>3. PICK k \in Lane : LaneStep(k) \/ \E p \in Proc : Stop(p) \/ Crash(p)
    BY <2>2 DEF Next, ProcStep, vars, Enqueue, Cancel, RecoverScan, RecoverRow, StartLanes,
                RecoverError, Exit, Restart, Tick
  <2>4. CASE \E p \in Proc : Stop(p) \/ Crash(p)
    BY <2>1, <2>4 DEF Stop, Crash, Idle, Worker
  <2>5. CASE Claim(k)
    BY <2>5 DEF Claim, TypeOK
  <2>6. CASE Heartbeat(k) \/ HeartbeatError(k) \/ HandlerReturn(k)
    BY <2>1, <2>6 DEF Heartbeat, HeartbeatError, HandlerReturn, TypeOK, Worker
  <2>7. CASE Progress(k)
    BY <2>2, <2>7 DEF Progress
  <2>8. CASE ReadBack(k)
    BY <2>1, <2>8 DEF ReadBack, TypeOK, Worker, Idle
  <2>9. CASE Release(k) \/ Finish(k) \/ SettleError(k)
    BY <2>9 DEF Release, Finish, SettleError, TypeOK, Idle
  <2>10. CASE Retry(k)
    BY <2>1, <2>10 DEF Retry, TypeOK, Worker, Idle
  <2> QED  BY <2>3, <2>4, <2>5, <2>6, <2>7, <2>8, <2>9, <2>10 DEF LaneStep
<1>2. PICK j \in Due(l) : lane' = [lane EXCEPT ![l] = [Idle EXCEPT !.pc = "run", !.job = j,
                            !.claim = claims[j] + 1, !.attempts = row[j].attempts]]
  BY <1>1 DEF Claim
<1>3. lane'[l].job = j /\ lane'[m] = lane[m] /\ row[j].status = "pending"
  BY <1>2 DEF TypeOK, Idle, Due
<1> QED  BY <1>3 DEF Beating, Busy

\* A failed job has no move left.
LEMMA FailedStays ==
  ASSUME TypeOK, Claims, Beating, [Next]_vars, NEW j \in Job, row[j].status = "failed"
  PROVE  row'[j].status = "failed"
<1>1. CASE Stutters  BY <1>1 DEF Stutters
<1>2. ASSUME NEW i \in Job, Allowed(i) PROVE row'[j].status = "failed"
  <2>1. j # i  BY <1>2 DEF Allowed, Moved, Open
  <2> QED  BY <1>2, <2>1 DEF Allowed, Moved
<1> QED  BY <1>1, <1>2, NextMaps

\* A job's handler runs in one lane at a time and never again after a failure,
\* through crashes, stops, retries and recoveries, while live lanes beat in time.
THEOREM JobsRunOnce == ASSUME Punctual PROVE Spec => RunsOnce
<1> DEFINE B == \A l, m \in Lane : l # m /\ lane[l].pc # "run" /\ lane'[l].pc = "run"
                   => ~ (lane'[m].pc = "run" /\ lane'[m].job = lane'[l].job)
           F == \A j \in Job : row[j].status = "failed" => row'[j].status = "failed"
<1>1. TypeOK /\ Claims /\ Beating /\ [Next]_vars => [B]_vars  BY StartsAlone
<1>2. TypeOK /\ Claims /\ Beating /\ [Next]_vars => [F]_vars  BY FailedStays
<1>3. Init => Beating  BY InitBeating
<1>4. TypeOK /\ Claims /\ Beating /\ [Next]_vars => Beating'  BY NextBeating
<1>5. Spec => [](TypeOK /\ Claims)  BY ClaimsKept
<1> HIDE DEF B, F
<1>6. Spec => [][B]_vars /\ [][F]_vars
  BY <1>1, <1>2, <1>3, <1>4, <1>5, PTL DEF Spec
<1> QED  BY <1>6 DEF B, F, RunsOnce, BegunAlone, FailedIsFinal
=============================================================================
