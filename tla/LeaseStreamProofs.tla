------------------------- MODULE LeaseStreamProofs -------------------------
(***************************************************************************)
(* Theorems about EditLease, for every number of turns, lease length and   *)
(* statement delay: closed sessions own no row, a superseded turn never    *)
(* writes, no edit is lost, and with a punctual scheduler manual edits     *)
(* stay out while a turn holds the lease.                                  *)
(*                                                                         *)
(* In the second part theorems about TurnStream, for every number of       *)
(* drafts, clients, connections, turns, frames and limits: the end of a    *)
(* turn is kept for those who have not seen it. The two parts share no     *)
(* definition and no variable.                                             *)
(***************************************************************************)
EXTENDS EditLease, TurnStream, FiniteSetTheorems, SequenceTheorems, TLAPS

-----------------------------------------------------------------------------
(* EditLease. *)

LEMMA ZeroAge == 0 \in 0..MaxDelay
BY LeaseAssumption

LEMMA TurnTyped ==
  ASSUME turn \in [Session -> Turn], NEW s \in Session, NEW w \in Turn
  PROVE  [turn EXCEPT ![s] = w] \in [Session -> Turn]
OBVIOUS

LEMMA MarkLostTyped ==
  ASSUME NEW w \in Turn
  PROVE  /\ MarkLost(w) \in Turn
         /\ MarkLost(w).pc = w.pc /\ MarkLost(w).acquired = w.acquired
         /\ MarkLost(w).close = w.close /\ MarkLost(w).beat = w.beat
         /\ MarkLost(w).age = w.age
         /\ MarkLost(w).lost \/ MarkLost(w).close # "no"
BY DEF MarkLost, Turn

LEMMA NextTypeOK == TypeOK /\ [Next]_vars => TypeOK'
<1> SUFFICES ASSUME TypeOK, [Next]_vars PROVE TypeOK'
  OBVIOUS
<1>0. CASE UNCHANGED vars
  BY <1>0 DEF TypeOK, vars
<1>1. ASSUME NEW s \in Session, TurnStep(s) PROVE TypeOK'
  <2>0. turn[s] \in Turn /\ turn[s].age \in 0..MaxDelay /\ turn[s].age \in Int
    BY DEF TypeOK, Turn
  <2>1. CASE Start(s)
    <3>1. [turn[s] EXCEPT !.pc = "think"] \in Turn  BY <2>0 DEF Turn
    <3> QED  BY <2>1, <3>1, TurnTyped DEF Start, TypeOK
  <2>2. CASE Ensure(s)
    <3>1. [turn[s] EXCEPT !.pc = "edit", !.base = tip.version] \in Turn
      BY <2>0 DEF Turn, TypeOK
    <3>2. [turn[s] EXCEPT !.pc = "acquire", !.age = 0] \in Turn
      BY <2>0, ZeroAge DEF Turn
    <3> QED  BY <2>2, <3>1, <3>2, TurnTyped DEF Ensure, TypeOK
  <2>3. CASE Acquire(s)
    <3>1. [turn[s] EXCEPT !.pc = "think", !.age = 0] \in Turn
      BY <2>0, ZeroAge DEF Turn
    <3>2. [turn[s] EXCEPT !.pc = "granted", !.age = 0] \in Turn
      BY <2>0, ZeroAge DEF Turn
    <3>3. [by |-> s, left |-> TTL - turn[s].age] \in Lease
      BY <2>0, LeaseAssumption DEF Lease
    <3> QED  BY <2>3, <3>1, <3>2, <3>3, TurnTyped DEF Acquire, TypeOK
  <2>4. CASE Granted(s)
    <3>1. [turn[s] EXCEPT !.pc = "think", !.acquired = TRUE, !.beat = "idle"] \in Turn
      BY <2>0 DEF Turn
    <3> QED  BY <2>4, <3>1, TurnTyped DEF Granted, TypeOK
  <2>5. CASE AcquireError(s)
    <3>1. [turn[s] EXCEPT !.pc = "think", !.age = 0] \in Turn
      BY <2>0, ZeroAge DEF Turn
    <3> QED  BY <2>5, <3>1, TurnTyped, LeaseAssumption DEF AcquireError, Fault, TypeOK
  <2>6. CASE Write(s)
    <3> DEFINE w == [turn[s] EXCEPT !.pc = "think", !.base = 0]
    <3>1. w \in Turn /\ turn[s].base \in Nat  BY <2>0 DEF Turn
    <3>2. MarkLost(w) \in Turn  BY <3>1, MarkLostTyped
    <3>3. tip' = tip \/ tip' = [version |-> tip.version + 1, base |-> turn[s].base, by |-> s]
      BY <2>6 DEF Write
    <3>4. tip' \in [version : Nat, base : Nat, by : Session \cup {Nobody}]
      BY <3>1, <3>3 DEF TypeOK
    <3>5. turn' = [turn EXCEPT ![s] = w] \/ turn' = [turn EXCEPT ![s] = MarkLost(w)]
      BY <2>6 DEF Write
    <3>6. turn' \in [Session -> Turn]
      BY <3>1, <3>2, <3>5, TurnTyped DEF TypeOK
    <3> QED  BY <2>6, <3>4, <3>6 DEF Write, TypeOK
  <2>7. CASE Cancel(s)
    <3>1. [turn[s] EXCEPT !.ctx = "cancelled"] \in Turn  BY <2>0 DEF Turn
    <3> QED  BY <2>7, <3>1, TurnTyped DEF Cancel, TypeOK
  <2>8. CASE Leave(s)
    <3>1. [turn[s] EXCEPT !.pc = "leaving"] \in Turn  BY <2>0 DEF Turn
    <3> QED  BY <2>8, <3>1, TurnTyped DEF Leave, TypeOK
  <2>9. CASE End(s)
    <3>1. [turn[s] EXCEPT !.pc = "ended"] \in Turn  BY <2>0 DEF Turn
    <3> QED  BY <2>9, <3>1, TurnTyped DEF End, TypeOK
  <2>10. CASE BeatStart(s)
    <3>1. [turn[s] EXCEPT !.beat = "renew", !.age = 0] \in Turn
      BY <2>0, ZeroAge DEF Turn
    <3>2. turn' = [turn EXCEPT ![s] = [turn[s] EXCEPT !.beat = "renew", !.age = 0]]
      BY <2>10 DEF BeatStart, TypeOK
    <3> QED  BY <2>10, <3>1, <3>2, TurnTyped DEF BeatStart, TypeOK
  <2>11. CASE Renew(s)
    <3> DEFINE renewed == lease.by = s /\ lease.left > -turn[s].age
               rest == [turn[s] EXCEPT !.beat = IF renewed THEN "idle" ELSE "off", !.age = 0]
    <3>1. rest \in Turn  BY <2>0, ZeroAge DEF Turn
    <3>2. MarkLost(rest) \in Turn  BY <3>1, MarkLostTyped
    <3>3. turn' = [turn EXCEPT ![s] = rest] \/ turn' = [turn EXCEPT ![s] = MarkLost(rest)]
      BY <2>11 DEF Renew
    <3>4. turn' \in [Session -> Turn]  BY <3>1, <3>2, <3>3, TurnTyped DEF TypeOK
    <3>5. [lease EXCEPT !.left = TTL - turn[s].age] \in Lease
      BY <2>0, LeaseAssumption DEF Lease, TypeOK
    <3>6. lease' \in Lease  BY <2>11, <3>5 DEF Renew, TypeOK
    <3> QED  BY <2>11, <3>4, <3>6 DEF Renew, TypeOK
  <2>12. CASE RenewError(s)
    <3> DEFINE rest == [turn[s] EXCEPT !.beat = "off", !.age = 0]
    <3>1. rest \in Turn  BY <2>0, ZeroAge DEF Turn
    <3>2. MarkLost(rest) \in Turn  BY <3>1, MarkLostTyped
    <3>3. turn' = [turn EXCEPT ![s] = MarkLost(rest)]
      BY <2>12 DEF RenewError, TypeOK
    <3>4. turn' \in [Session -> Turn]  BY <3>2, <3>3, TurnTyped DEF TypeOK
    <3> QED  BY <2>12, <3>4, LeaseAssumption DEF RenewError, Fault, TypeOK
  <2>13. CASE Close(s)
    <3>1. [turn[s] EXCEPT !.beat = "off", !.age = 0,
             !.close = IF turn[s].acquired THEN "closing" ELSE "yes"] \in Turn
      BY <2>0, ZeroAge DEF Turn
    <3> QED  BY <2>13, <3>1, TurnTyped DEF Close, TypeOK
  <2>14. CASE Release(s)
    <3>1. [turn[s] EXCEPT !.close = "yes"] \in Turn  BY <2>0 DEF Turn
    <3>2. NoLease \in Lease  BY LeaseAssumption DEF NoLease, Lease
    <3> QED  BY <2>14, <3>1, <3>2, TurnTyped DEF Release, TypeOK
  <2>15. CASE ReleaseError(s)
    <3>1. [turn[s] EXCEPT !.close = "failed"] \in Turn  BY <2>0 DEF Turn
    <3> QED  BY <2>15, <3>1, TurnTyped, LeaseAssumption DEF ReleaseError, Fault, TypeOK
  <2> QED
    BY <1>1, <2>1, <2>2, <2>3, <2>4, <2>5, <2>6, <2>7, <2>8, <2>9, <2>10, <2>11, <2>12,
       <2>13, <2>14, <2>15 DEF TurnStep
<1>2. CASE UserRead
  BY <1>2 DEF UserRead, TypeOK
<1>3. CASE UserWrite
  <2>1. tip' = tip \/ tip' = [version |-> tip.version + 1, base |-> user.base, by |-> Nobody]
    BY <1>3 DEF UserWrite
  <2>2. tip' \in [version : Nat, base : Nat, by : Session \cup {Nobody}]
    BY <2>1 DEF TypeOK
  <2> QED  BY <1>3, <2>2 DEF UserWrite, TypeOK
<1>4. CASE Crash
  <2>1. ASSUME NEW s \in Session
        PROVE  /\ turn[s] \in Turn
               /\ [turn[s] EXCEPT !.pc = "dead", !.base = 0, !.beat = "off", !.age = 0] \in Turn
    <3>1. turn[s] \in Turn  BY DEF TypeOK
    <3> QED  BY <3>1, ZeroAge DEF Turn
  <2>2. turn' \in [Session -> Turn]  BY Zenon, <1>4, <2>1 DEF Crash
  <2>0. Fault  BY Zenon, <1>4 DEF Crash
  <2>3. faults' \in 0..MaxFaults  BY <2>0, LeaseAssumption DEF Fault, TypeOK
  <2>4. user' \in [pc : {"idle", "commit", "more"}, base : Nat]  BY Zenon, <1>4 DEF Crash, TypeOK
  <2> QED  BY Zenon, <1>4, <2>2, <2>3, <2>4 DEF Crash, TypeOK
<1>5. CASE Restart
  <2>1. NoLease \in Lease  BY LeaseAssumption DEF NoLease, Lease
  <2> QED  BY <1>5, <2>1 DEF Restart, TypeOK
<1>6. CASE Tick
  <2>1. ASSUME NEW s \in Session
        PROVE  [turn[s] EXCEPT !.age = IF InFlight(s) THEN @ + 1 ELSE @] \in Turn
    <3>1. turn[s] \in Turn /\ turn[s].age \in 0..MaxDelay  BY DEF TypeOK, Turn
    <3>2. InFlight(s) => turn[s].age + 1 \in 0..MaxDelay
      BY <1>6, <3>1, LeaseAssumption DEF Tick
    <3> QED  BY <3>1, <3>2 DEF Turn
  <2>2. turn' \in [Session -> Turn]  BY <1>6, <2>1 DEF Tick
  <2>3. lease.left \in (-MaxDelay)..TTL  BY DEF TypeOK, Lease
  <2>4. CASE lease.by # Nobody /\ lease.left > -MaxDelay
    <3>1. lease.left - 1 \in (-MaxDelay)..TTL  BY <2>3, <2>4, LeaseAssumption
    <3>2. lease' = [lease EXCEPT !.left = lease.left - 1]  BY <1>6, <2>4 DEF Tick
    <3>3. lease' \in Lease  BY <3>1, <3>2 DEF TypeOK, Lease
    <3> QED  BY <1>6, <2>2, <3>3 DEF Tick, TypeOK
  <2>5. CASE ~ (lease.by # Nobody /\ lease.left > -MaxDelay)
    BY <1>6, <2>2, <2>5 DEF Tick, TypeOK
  <2> QED  BY <2>4, <2>5
<1> QED
  BY <1>0, <1>1, <1>2, <1>3, <1>4, <1>5, <1>6 DEF Next

\* Every reachable state is well typed.
THEOREM TypeCorrect == Spec => []TypeOK
<1>1. Init => TypeOK
  BY LeaseAssumption DEF Init, TypeOK, NoLease, Lease, Fresh, Turn
<1> QED  BY <1>1, NextTypeOK, PTL DEF Spec

-----------------------------------------------------------------------------
(* What one step of a turn leaves alone. *)

\* A step of one turn does not touch another one's.
LEMMA OtherTurns ==
  ASSUME TypeOK, NEW a \in Session, TurnStep(a), NEW s \in Session, s # a
  PROVE  turn'[s] = turn[s]
<1> USE DEF TypeOK
<1>1. CASE \/ Start(a) \/ Ensure(a) \/ Acquire(a) \/ Granted(a) \/ AcquireError(a) \/ Cancel(a)
           \/ Leave(a) \/ End(a)
  BY <1>1 DEF Start, Ensure, Acquire, Granted, AcquireError, Cancel, Leave, End
<1>2. CASE Write(a) \/ Renew(a) \/ RenewError(a)
  BY <1>2 DEF Write, Renew, RenewError
<1>3. CASE BeatStart(a) \/ Close(a) \/ Release(a) \/ ReleaseError(a)
  BY <1>3 DEF BeatStart, Close, Release, ReleaseError
<1> QED  BY <1>1, <1>2, <1>3 DEF TurnStep

-----------------------------------------------------------------------------
(* Terms: the owner of the row acquired it last. *)

Order == \A s \in Session : term[s] <= terms /\ (lease.by = s => term[s] = terms)

LEMMA NextOrder == TypeOK /\ Order /\ [Next]_vars => Order'
<1> SUFFICES ASSUME TypeOK, Order, [Next]_vars PROVE Order'
  OBVIOUS
<1>1. CASE \E a \in Session : Acquire(a)
  <2> PICK a \in Session : Acquire(a)  BY <1>1
  <2> QED  BY DEF Acquire, Order, TypeOK
<1>2. CASE UNCHANGED <<term, terms>> /\ (lease' = NoLease \/ lease'.by = lease.by)
  BY <1>2, NobodyAssumption DEF Order, NoLease
<1>3. ASSUME NEW a \in Session, TurnStep(a), ~ Acquire(a)
      PROVE  UNCHANGED <<term, terms>> /\ (lease' = NoLease \/ lease'.by = lease.by)
  BY <1>3 DEF TurnStep, Start, Ensure, Granted, AcquireError, Write, Cancel, Leave, End, BeatStart,
     Renew, RenewError, Close, Release, ReleaseError, TypeOK, Lease
<1>4. CASE UserRead \/ UserWrite \/ Crash \/ Restart \/ Tick \/ UNCHANGED vars
  BY Zenon, <1>4, <1>2 DEF UserRead, UserWrite, Crash, Restart, Tick, vars, TypeOK, Lease
<1> QED  BY <1>1, <1>2, <1>3, <1>4 DEF Next

\* Once a later session has acquired the lease, an earlier turn's edits are
\* refused for ever: the row carries the token of the last acquisition.
THEOREM StaleTurnsFenced == Spec => Fenced
<1> DEFINE Step == \A s, t \in Session : 0 < term[t] /\ term[t] < term[s]
                     => ~ (tip' # tip /\ tip'.by = t)
<1>1. Init => Order
  <2>1. ASSUME Init, NEW s \in Session PROVE term[s] = 0 /\ terms = 0
    BY <2>1 DEF Init
  <2>2. ASSUME Init, NEW s \in Session PROVE term[s] <= terms /\ (lease.by = s => term[s] = terms)
    BY <2>1, <2>2
  <2> QED  BY Zenon, <2>2 DEF Order
<1>2. TypeOK /\ Order /\ [Next]_vars => [Step]_vars
  <2> SUFFICES ASSUME TypeOK, Order, [Next]_vars, NEW s \in Session, NEW t \in Session,
                      term[t] < term[s], tip' # tip, tip'.by = t
               PROVE  FALSE
    OBVIOUS
  <2>1. CASE Write(t)
    <3>1. lease.by = t  BY <2>1 DEF Write, Admits
    <3> QED  BY <3>1 DEF Order, TypeOK
  <2>2. ASSUME NEW a \in Session, Write(a), a # t PROVE FALSE
    BY <2>2 DEF Write
  <2>3. CASE UserWrite
    BY <2>3, NobodyAssumption DEF UserWrite
  <2>4. ASSUME NEW a \in Session, TurnStep(a), ~ Write(a) PROVE tip' = tip
    BY <2>4 DEF TurnStep, Start, Ensure, Acquire, Granted, AcquireError, Cancel, Leave, End,
       BeatStart, Renew, RenewError, Close, Release, ReleaseError
  <2>5. CASE UserRead \/ Crash \/ Restart \/ Tick \/ UNCHANGED vars
    BY Zenon, <2>5 DEF UserRead, Crash, Restart, Tick, vars
  <2> QED  BY <2>1, <2>2, <2>3, <2>4, <2>5 DEF Next
<1>3. Spec => [](TypeOK /\ Order)
  BY <1>1, TypeCorrect, NextOrder, PTL DEF Spec
<1>4. Spec => [][Step]_vars
  BY <1>2, <1>3, PTL DEF Spec
<1> QED  BY <1>4 DEF Fenced

-----------------------------------------------------------------------------
(* A closed session owns no row. *)

\* The row is taken by a session in acquire and handed to acquired before the
\* session can be closed; no session starts a heartbeat before that.
Shape ==
    \A s \in Session :
        /\ turn[s].pc \in {"new", "acquire", "granted"} => ~ turn[s].acquired
        /\ ~ turn[s].acquired => turn[s].beat = "off"
        /\ turn[s].pc \in {"acquire", "granted"} => turn[s].close = "no"

\* The owner of the row is a session that has not closed.
Owned ==
    \A s \in Session : lease.by = s =>
        /\ turn[s].close # "yes"
        /\ turn[s].pc \in {"granted", "dead"} \/ turn[s].acquired

GhostInv == Shape /\ Owned

ShapeOf(w) == /\ w.pc \in {"new", "acquire", "granted"} => ~ w.acquired
              /\ ~ w.acquired => w.beat = "off"
              /\ w.pc \in {"acquire", "granted"} => w.close = "no"

OwnedOf(w) == w.close # "yes" /\ (w.pc \in {"granted", "dead"} \/ w.acquired)

LEMMA ActorShape ==
  ASSUME TypeOK, NEW a \in Session, TurnStep(a), ShapeOf(turn[a]),
         lease.by = a => OwnedOf(turn[a])
  PROVE  ShapeOf(turn'[a]) /\ (lease'.by = a => OwnedOf(turn'[a]))
<1>0. turn[a] \in Turn /\ turn \in [Session -> Turn] /\ lease \in Lease  BY DEF TypeOK
<1> USE <1>0 DEF ShapeOf, OwnedOf
<1>1. CASE Start(a)  BY <1>1 DEF Start, Turn
<1>2. CASE Ensure(a)  BY <1>2 DEF Ensure, Turn
<1>3. CASE Acquire(a)
  <2>1. turn[a].pc = "acquire" /\ turn[a].close = "no" /\ ~ turn[a].acquired
        /\ turn[a].beat = "off" /\ lease.by # a
    BY <1>3 DEF Acquire
  <2>2. CASE turn[a].ctx = "live" /\ Free(a)
    <3>1. turn'[a] = [turn[a] EXCEPT !.pc = "granted", !.age = 0]  BY <1>3, <2>2 DEF Acquire
    <3> QED  BY <2>1, <3>1 DEF Turn
  <2>3. CASE ~ (turn[a].ctx = "live" /\ Free(a))
    <3>1. turn'[a] = [turn[a] EXCEPT !.pc = "think", !.age = 0] /\ lease' = lease
      BY <1>3, <2>3 DEF Acquire
    <3> QED  BY <2>1, <3>1 DEF Turn
  <2> QED  BY <2>2, <2>3
<1>4. CASE Granted(a)  BY <1>4 DEF Granted, Turn
<1>5. CASE AcquireError(a)  BY <1>5 DEF AcquireError, Turn
<1>6. CASE Write(a)
  <2> DEFINE w == [turn[a] EXCEPT !.pc = "think", !.base = 0]
  <2>1. w \in Turn /\ w.pc = "think" /\ w.close = turn[a].close /\ w.beat = turn[a].beat
        /\ w.acquired = turn[a].acquired
    BY DEF Turn
  <2>2. turn'[a] = w \/ turn'[a] = MarkLost(w)  BY <1>6 DEF Write
  <2>3. lease' = lease /\ turn[a].pc = "edit"  BY <1>6 DEF Write
  <2> HIDE DEF w
  <2> QED  BY <2>1, <2>2, <2>3, MarkLostTyped
<1>7. CASE Cancel(a)  BY <1>7 DEF Cancel, Turn
<1>8. CASE Leave(a)  BY <1>8 DEF Leave, Turn
<1>9. CASE End(a)  BY <1>9 DEF End, Turn
<1>10. CASE BeatStart(a)  BY <1>10 DEF BeatStart, Turn
<1>11. CASE Renew(a)
  <2> DEFINE renewed == lease.by = a /\ lease.left > -turn[a].age
             rest == [turn[a] EXCEPT !.beat = IF renewed THEN "idle" ELSE "off", !.age = 0]
  <2>1. rest \in Turn /\ rest.pc = turn[a].pc /\ rest.close = turn[a].close
        /\ rest.acquired = turn[a].acquired
    BY ZeroAge DEF Turn
  <2>2. turn'[a] = rest \/ turn'[a] = MarkLost(rest)  BY <1>11 DEF Renew
  <2>3. lease'.by = lease.by /\ turn[a].beat = "renew"  BY <1>11 DEF Renew, Lease
  <2> HIDE DEF rest
  <2>4. turn'[a].pc = turn[a].pc /\ turn'[a].close = turn[a].close
        /\ turn'[a].acquired = turn[a].acquired
    BY <2>1, <2>2, MarkLostTyped
  <2> QED  BY <2>3, <2>4
<1>12. CASE RenewError(a)
  <2> DEFINE rest == [turn[a] EXCEPT !.beat = "off", !.age = 0]
  <2>1. rest \in Turn /\ rest.pc = turn[a].pc /\ rest.close = turn[a].close
        /\ rest.acquired = turn[a].acquired /\ rest.beat = "off"
    BY ZeroAge DEF Turn
  <2>2. turn'[a] = MarkLost(rest) /\ lease' = lease /\ turn[a].beat = "renew"
    BY <1>12 DEF RenewError
  <2> HIDE DEF rest
  <2> QED  BY <2>1, <2>2, MarkLostTyped
<1>13. CASE Close(a)  BY <1>13 DEF Close, Turn
<1>14. CASE Release(a)  BY <1>14, NobodyAssumption DEF Release, Turn, NoLease
<1>15. CASE ReleaseError(a)  BY <1>15 DEF ReleaseError, Turn
<1> QED
  BY <1>1, <1>2, <1>3, <1>4, <1>5, <1>6, <1>7, <1>8, <1>9, <1>10, <1>11, <1>12, <1>13, <1>14, <1>15
     DEF TurnStep

\* The row changes hands only by an acquire.
LEMMA OtherLease ==
  ASSUME TypeOK, NEW a \in Session, TurnStep(a), NEW s \in Session, s # a, lease'.by = s
  PROVE  lease.by = s
<1>0. lease \in Lease  BY DEF TypeOK
<1>1. CASE Acquire(a)  BY <1>1 DEF Acquire
<1>2. CASE Renew(a)  BY <1>0, <1>2 DEF Renew, Lease
<1>3. CASE Release(a)  BY <1>3, NobodyAssumption DEF Release, NoLease
<1>4. CASE ~ Acquire(a) /\ ~ Renew(a) /\ ~ Release(a)
  BY <1>4 DEF TurnStep, Start, Ensure, Granted, AcquireError, Write, Cancel, Leave, End, BeatStart,
     RenewError, Close, ReleaseError
<1> QED  BY <1>1, <1>2, <1>3, <1>4

LEMMA NextGhost == TypeOK /\ GhostInv /\ [Next]_vars => GhostInv'
<1> SUFFICES ASSUME TypeOK, GhostInv, [Next]_vars, NEW s \in Session
             PROVE  ShapeOf(turn'[s]) /\ (lease'.by = s => OwnedOf(turn'[s]))
  BY DEF GhostInv, Shape, Owned, ShapeOf, OwnedOf
<1>0. ShapeOf(turn[s]) /\ (lease.by = s => OwnedOf(turn[s]))
  BY DEF GhostInv, Shape, Owned, ShapeOf, OwnedOf
<1>1. CASE TurnStep(s)  BY <1>0, <1>1, ActorShape
<1>2. ASSUME NEW a \in Session, TurnStep(a), a # s
      PROVE  ShapeOf(turn'[s]) /\ (lease'.by = s => OwnedOf(turn'[s]))
  <2>1. turn'[s] = turn[s]  BY <1>2, OtherTurns
  <2>2. lease'.by = s => lease.by = s  BY <1>2, OtherLease
  <2> QED  BY <1>0, <2>1, <2>2
<1>3. CASE UserRead \/ UserWrite \/ UNCHANGED vars
  BY <1>0, <1>3 DEF UserRead, UserWrite, vars
<1>4. CASE Crash
  <2>1. turn'[s] = turn[s]
        \/ turn'[s] = [turn[s] EXCEPT !.pc = "dead", !.base = 0, !.beat = "off", !.age = 0]
    BY Zenon, <1>4 DEF Crash
  <2>2. turn[s] \in Turn /\ lease' = lease  BY Zenon, <1>4 DEF TypeOK, Crash
  <2> QED  BY <1>0, <2>1, <2>2 DEF Turn, ShapeOf, OwnedOf
<1>5. CASE Restart
  BY <1>0, <1>5, NobodyAssumption DEF Restart, NoLease
<1>6. CASE Tick
  <2>1. turn'[s] = [turn[s] EXCEPT !.age = IF InFlight(s) THEN turn[s].age + 1 ELSE turn[s].age]
    BY <1>6 DEF Tick
  <2>2. turn[s] \in Turn /\ lease \in Lease  BY DEF TypeOK
  <2>3. lease'.by = lease.by  BY <1>6, <2>2 DEF Tick, Lease
  <2> QED  BY <1>0, <2>1, <2>2, <2>3 DEF Turn, ShapeOf, OwnedOf
<1> QED  BY <1>1, <1>2, <1>3, <1>4, <1>5, <1>6 DEF Next

\* Whatever the order in which acquire, renew, release, the watcher and the
\* turn's clean-up run, a session that has closed owns no row again.
THEOREM ClosedSessionsOwnNothing == Spec => []NoGhostLease
<1>1. Init => GhostInv
  BY NobodyAssumption DEF Init, GhostInv, Shape, Owned, NoLease, Fresh
<1>2. GhostInv => NoGhostLease
  BY DEF GhostInv, Owned, NoGhostLease
<1> QED  BY <1>1, <1>2, TypeCorrect, NextGhost, PTL DEF Spec

-----------------------------------------------------------------------------
(* The strict state_version. *)

LEMMA NextNoLostEdit == TypeOK /\ NoLostEdit /\ [Next]_vars => NoLostEdit'
<1> SUFFICES ASSUME TypeOK, NoLostEdit, [Next]_vars PROVE NoLostEdit'
  OBVIOUS
<1>1. ASSUME NEW a \in Session, Write(a)
      PROVE  tip' = tip \/ (tip'.version = tip.version + 1 /\ tip'.base = tip.version)
  <2>1. tip' = tip \/ (turn[a].base = tip.version
                       /\ tip' = [version |-> tip.version + 1, base |-> turn[a].base, by |-> a])
    BY <1>1 DEF Write
  <2> QED  BY <2>1
<1>2. ASSUME NEW a \in Session, TurnStep(a), ~ Write(a) PROVE tip' = tip
  BY <1>2 DEF TurnStep, Start, Ensure, Acquire, Granted, AcquireError, Cancel, Leave, End,
     BeatStart, Renew, RenewError, Close, Release, ReleaseError
<1>3. UserWrite => tip' = tip \/ (tip'.version = tip.version + 1 /\ tip'.base = tip.version)
  BY DEF UserWrite
<1>4. CASE UserRead \/ Crash \/ Restart \/ Tick \/ UNCHANGED vars
  BY Zenon, <1>4 DEF UserRead, Crash, Restart, Tick, vars, NoLostEdit
<1>5. tip' = tip \/ (tip'.version = tip.version + 1 /\ tip'.base = tip.version)
  BY Zenon, <1>1, <1>2, <1>3, <1>4 DEF Next, UserRead, Crash, Restart, Tick, vars
<1> QED  BY <1>5 DEF NoLostEdit, TypeOK

\* No edit, of a turn or of the user, is computed from another timeline than
\* the one it replaces.
THEOREM NoEditIsLost == Spec => []NoLostEdit
<1>1. Init => NoLostEdit
  BY DEF Init, NoLostEdit
<1> QED  BY <1>1, TypeCorrect, NextNoLostEdit, PTL DEF Spec

-----------------------------------------------------------------------------
(* A punctual scheduler keeps manual edits out. *)

Holds(s) == Believes(s) \/ turn[s].pc = "granted"

\* A punctual session that believes it holds the lease does, and no statement in
\* flight is as old as the lease it renews.
HoldsLive ==
    \A s \in Punctual :
        /\ Holds(s) => lease.by = s /\ lease.left > 0
        /\ InFlight(s) => turn[s].age < TTL

LEMMA ActorHolds ==
  ASSUME TypeOK, GhostInv, HoldsLive, NEW a \in Punctual, TurnStep(a)
  PROVE  /\ Holds(a)' => lease'.by = a /\ lease'.left > 0
         /\ InFlight(a)' => turn'[a].age < TTL
<1>a. a \in Session  BY LeaseAssumption
<1>0. /\ a \in Session
      /\ turn[a] \in Turn /\ turn[a].age \in Int /\ turn \in [Session -> Turn] /\ lease \in Lease
      /\ ShapeOf(turn[a]) /\ TTL \in Int /\ 0 < TTL /\ lease.left \in Int
      /\ Holds(a) => lease.by = a /\ lease.left > 0
      /\ InFlight(a) => turn[a].age < TTL
  BY <1>a, LeaseAssumption DEF TypeOK, GhostInv, Shape, ShapeOf, HoldsLive, Turn, Lease
<1> USE <1>0 DEF ShapeOf, Holds, Believes, Running, InFlight
<1>1. CASE Start(a)  BY <1>1 DEF Start, Turn
<1>2. CASE Ensure(a)  BY <1>2 DEF Ensure, Turn
<1>3. CASE Acquire(a)
  <2>1. turn[a].pc = "acquire" /\ ~ turn[a].acquired /\ turn[a].beat = "off"
    BY <1>3 DEF Acquire
  <2>2. CASE turn[a].ctx = "live" /\ Free(a)
    <3>1. turn'[a] = [turn[a] EXCEPT !.pc = "granted", !.age = 0]
          /\ lease' = [by |-> a, left |-> TTL - turn[a].age]
      BY <1>3, <2>2 DEF Acquire
    <3> QED  BY <2>1, <3>1 DEF Turn
  <2>3. CASE ~ (turn[a].ctx = "live" /\ Free(a))
    <3>1. turn'[a] = [turn[a] EXCEPT !.pc = "think", !.age = 0] /\ lease' = lease
      BY <1>3, <2>3 DEF Acquire
    <3> QED  BY <2>1, <3>1 DEF Turn
  <2> QED  BY <2>2, <2>3
<1>4. CASE Granted(a)  BY <1>4 DEF Granted, Turn
<1>5. CASE AcquireError(a)  BY <1>5 DEF AcquireError, Turn
<1>6. CASE Write(a)
  <2> DEFINE w == [turn[a] EXCEPT !.pc = "think", !.base = 0]
  <2>1. /\ w \in Turn /\ w.pc = "think" /\ w.close = turn[a].close /\ w.beat = turn[a].beat
        /\ w.acquired = turn[a].acquired /\ w.lost = turn[a].lost /\ w.age = turn[a].age
    BY DEF Turn
  <2>2. turn'[a] = w \/ turn'[a] = MarkLost(w)  BY <1>6 DEF Write
  <2>3. lease' = lease /\ turn[a].pc = "edit"  BY <1>6 DEF Write
  <2> HIDE DEF w
  <2> QED  BY <2>1, <2>2, <2>3, MarkLostTyped
<1>7. CASE Cancel(a)  BY <1>7 DEF Cancel, Turn
<1>8. CASE Leave(a)  BY <1>8 DEF Leave, Turn
<1>9. CASE End(a)  BY <1>9 DEF End, Turn
<1>10. CASE BeatStart(a)  BY <1>10 DEF BeatStart, Turn
<1>11. CASE Renew(a)
  <2> DEFINE renewed == lease.by = a /\ lease.left > -turn[a].age
             rest == [turn[a] EXCEPT !.beat = IF renewed THEN "idle" ELSE "off", !.age = 0]
  <2>1. /\ rest \in Turn /\ rest.pc = turn[a].pc /\ rest.close = turn[a].close
        /\ rest.acquired = turn[a].acquired /\ rest.beat # "renew"
    BY ZeroAge DEF Turn
  <2>2. turn[a].beat = "renew" /\ turn[a].acquired /\ turn[a].age < TTL
        /\ turn[a].pc \notin {"acquire", "granted"}
    BY <1>11 DEF Renew
  <2>3. CASE renewed
    <3>1. turn'[a] = rest /\ lease' = [lease EXCEPT !.left = TTL - turn[a].age]
      BY <1>11, <2>3 DEF Renew
    <3>2. lease'.by = a /\ lease'.left = TTL - turn[a].age  BY <2>3, <3>1 DEF Lease
    <3> HIDE DEF rest
    <3> QED  BY <2>1, <2>2, <3>1, <3>2
  <2>4. CASE ~ renewed
    <3>1. turn'[a] = MarkLost(rest)  BY <1>11, <2>4 DEF Renew
    <3> HIDE DEF rest
    <3> QED  BY <2>1, <2>2, <3>1, MarkLostTyped
  <2> QED  BY <2>3, <2>4
<1>12. CASE RenewError(a)
  <2> DEFINE rest == [turn[a] EXCEPT !.beat = "off", !.age = 0]
  <2>1. /\ rest \in Turn /\ rest.pc = turn[a].pc /\ rest.close = turn[a].close
        /\ rest.acquired = turn[a].acquired /\ rest.beat = "off"
    BY ZeroAge DEF Turn
  <2>2. turn[a].beat = "renew" /\ turn[a].acquired /\ turn[a].pc \notin {"acquire", "granted"}
    BY <1>12 DEF RenewError
  <2>3. turn'[a] = MarkLost(rest)  BY <1>12 DEF RenewError
  <2> HIDE DEF rest
  <2> QED  BY <2>1, <2>2, <2>3, MarkLostTyped
<1>13. CASE Close(a)  BY <1>13 DEF Close, Turn
<1>14. CASE Release(a)
  <2>1. turn[a].close = "closing" /\ turn[a].pc \notin {"acquire", "granted"}
    BY <1>14 DEF Release
  <2>2. turn'[a] = [turn[a] EXCEPT !.close = "yes"]  BY <1>14 DEF Release
  <2>3. ~ Holds(a)'  BY <2>1, <2>2 DEF Turn
  <2>4. InFlight(a)' => InFlight(a) /\ turn'[a].age = turn[a].age  BY <2>1, <2>2 DEF Turn
  <2> QED  BY <2>3, <2>4
<1>15. CASE ReleaseError(a)  BY <1>15 DEF ReleaseError, Turn
<1> QED
  BY <1>1, <1>2, <1>3, <1>4, <1>5, <1>6, <1>7, <1>8, <1>9, <1>10, <1>11, <1>12, <1>13, <1>14, <1>15
     DEF TurnStep

\* A row that is live stays as it is while another turn steps.
LEMMA LiveRowStays ==
  ASSUME TypeOK, NEW a \in Session, TurnStep(a), NEW s \in Session, s # a,
         lease.by = s, lease.left > 0
  PROVE  lease' = lease
<1>0. lease.left \in Int /\ turn[a].age \in Nat
  BY LeaseAssumption DEF TypeOK, Lease, Turn
<1>1. CASE Acquire(a)
  <2>1. ~ Free(a)  BY <1>0, NobodyAssumption DEF Free
  <2> QED  BY <1>1, <2>1 DEF Acquire
<1>2. CASE Renew(a)  BY <1>2 DEF Renew
<1>3. CASE Release(a)  BY <1>3 DEF Release
<1>4. CASE ~ Acquire(a) /\ ~ Renew(a) /\ ~ Release(a)
  BY <1>4 DEF TurnStep, Start, Ensure, Granted, AcquireError, Write, Cancel, Leave, End, BeatStart,
     RenewError, Close, ReleaseError
<1> QED  BY <1>1, <1>2, <1>3, <1>4

LEMMA NextHolds ==
  TypeOK /\ GhostInv /\ HoldsLive /\ [Next]_vars => HoldsLive'
<1> DEFINE Good(s) == /\ Holds(s) => lease.by = s /\ lease.left > 0
                      /\ InFlight(s) => turn[s].age < TTL
<1> SUFFICES ASSUME TypeOK, GhostInv, HoldsLive, [Next]_vars, NEW s \in Punctual
             PROVE  Good(s)'
  BY DEF HoldsLive
<1>a. s \in Session  BY LeaseAssumption
<1>0. s \in Session /\ Good(s) /\ turn[s] \in Turn /\ lease \in Lease
  BY <1>a DEF HoldsLive, TypeOK
<1>1. CASE TurnStep(s)  BY <1>1, ActorHolds
<1>2. ASSUME NEW a \in Session, TurnStep(a), a # s PROVE Good(s)'
  <2>1. turn'[s] = turn[s]  BY <1>0, <1>2, OtherTurns
  <2>2. Holds(s) => lease' = lease  BY <1>0, <1>2, LiveRowStays
  <2> QED  BY <1>0, <2>1, <2>2 DEF Holds, Believes, Running, InFlight
<1>3. CASE UserRead \/ UserWrite \/ UNCHANGED vars
  BY <1>0, <1>3 DEF UserRead, UserWrite, vars, Holds, Believes, Running, InFlight
<1>4. CASE Crash
  <2>1. (~ Running(s) /\ turn'[s] = turn[s])
        \/ turn'[s] = [turn[s] EXCEPT !.pc = "dead", !.base = 0, !.beat = "off", !.age = 0]
    BY Zenon, <1>0, <1>4 DEF Crash
  <2>2. lease' = lease  BY Zenon, <1>4 DEF Crash
  <2> QED  BY <1>0, <2>1, <2>2 DEF Turn, Holds, Believes, Running, InFlight
<1>5. CASE Restart
  <2>1. turn' = turn  BY <1>5 DEF Restart
  <2>2. Holds(s) => lease' = lease  BY <1>0, <1>5, NobodyAssumption DEF Restart, Locked
  <2> QED  BY <1>0, <2>1, <2>2 DEF Holds, Believes, Running, InFlight
<1>6. CASE Tick
  <2>1. turn'[s] = [turn[s] EXCEPT !.age = IF InFlight(s) THEN turn[s].age + 1 ELSE turn[s].age]
    BY <1>0, <1>6 DEF Tick
  <2>2. /\ turn'[s].pc = turn[s].pc /\ turn'[s].acquired = turn[s].acquired
        /\ turn'[s].lost = turn[s].lost /\ turn'[s].close = turn[s].close
        /\ turn'[s].beat = turn[s].beat
        /\ InFlight(s) => turn'[s].age = turn[s].age + 1
    BY <1>0, <2>1 DEF Turn
  <2>3. InFlight(s) => turn[s].age + 1 < TTL  BY <1>6 DEF Tick
  <2>4. InFlight(s)' => turn'[s].age < TTL  BY <2>2, <2>3 DEF InFlight
  <2>5. Holds(s) => lease.by = s /\ lease.left > 1
    BY <1>0, <1>6 DEF Tick, Holds
  <2>6. Holds(s) => lease'.by = s /\ lease'.left > 0
    <3> SUFFICES ASSUME Holds(s) PROVE lease'.by = s /\ lease'.left > 0
      OBVIOUS
    <3>1. lease.left \in Int /\ lease.left > 1 /\ lease.by = s
      BY <1>0, <2>5, LeaseAssumption DEF Lease
    <3>2. lease' = [lease EXCEPT !.left = lease.left - 1] \/ lease' = lease
      BY <1>6 DEF Tick
    <3> QED  BY <1>0, <3>1, <3>2 DEF Lease
  <2>7. Holds(s)' => Holds(s)  BY <2>2 DEF Holds, Believes, Running
  <2> QED  BY <2>4, <2>6, <2>7
<1> QED  BY <1>1, <1>2, <1>3, <1>4, <1>5, <1>6 DEF Next

\* No manual edit is committed while a turn that renews in time believes that
\* it holds the lease.
THEOREM PunctualKeepsUsersOut == Spec => ManualKeptOut
<1> DEFINE Step == tip' # tip /\ tip'.by = Nobody => \A s \in Punctual : ~ Believes(s)
<1>1. Init => GhostInv /\ HoldsLive
  <2>1. ASSUME Init, NEW s \in Session
        PROVE  turn[s] = Fresh /\ lease.by = Nobody
    BY <2>1 DEF Init, NoLease
  <2>2. \A s \in Punctual : s \in Session  BY LeaseAssumption
  <2> QED  BY <2>1, <2>2, NobodyAssumption DEF GhostInv, Shape, Owned, HoldsLive, Holds, Believes,
              Running, InFlight, Fresh
<1>2. TypeOK /\ HoldsLive /\ [Next]_vars => [Step]_vars
  <2> SUFFICES ASSUME TypeOK, HoldsLive, [Next]_vars, tip' # tip, tip'.by = Nobody,
                      NEW s \in Punctual, Believes(s)
               PROVE  FALSE
    OBVIOUS
  <2>1. CASE UserWrite
    <3>1. ~ Locked  BY <2>1 DEF UserWrite
    <3>2. lease.by = s /\ lease.left > 0  BY DEF HoldsLive, Holds
    <3>3. s \in Session  BY LeaseAssumption
    <3> QED  BY <3>1, <3>2, <3>3, NobodyAssumption DEF Locked
  <2>2. ASSUME NEW a \in Session, Write(a) PROVE FALSE
    BY <2>2, NobodyAssumption DEF Write
  <2>3. ASSUME NEW a \in Session, TurnStep(a), ~ Write(a) PROVE tip' = tip
    BY <2>3 DEF TurnStep, Start, Ensure, Acquire, Granted, AcquireError, Cancel, Leave, End,
       BeatStart, Renew, RenewError, Close, Release, ReleaseError
  <2>4. CASE UserRead \/ Crash \/ Restart \/ Tick \/ UNCHANGED vars
    BY Zenon, <2>4 DEF UserRead, Crash, Restart, Tick, vars
  <2> QED  BY <2>1, <2>2, <2>3, <2>4 DEF Next
<1>3. Spec => [](TypeOK /\ GhostInv /\ HoldsLive)
  BY <1>1, TypeCorrect, NextGhost, NextHolds, PTL DEF Spec
<1>4. Spec => [][Step]_vars
  BY <1>2, <1>3, PTL DEF Spec
<1> QED  BY <1>4 DEF ManualKeptOut

-----------------------------------------------------------------------------
(* TurnStream. *)

RunTypes == {"started", "delta", "step"}
Frames == {f \in [type : RunTypes \cup {"ended", "gap", "truncated", "note"}, gen : Nat] :
             f.gen # 0 => f.type = "ended"}
Buffers == [events : Seq(Frames), truncated : BOOLEAN, gen : Nat,
            pending : SUBSET (Conn \cup {Gone}), failed : SUBSET Client]
Handlers == [state : {"free", "open"}, of : Client \cup {NoClient}, snap : Seq(Frames),
             ackGen : Nat, queue : Seq(Frames), closed : BOOLEAN, broken : BOOLEAN]
TurnCounts == [begun : Nat, current : BOOLEAN, late : Nat, active : BOOLEAN, frames : Nat]
PageStates == [conn : Conn \cup {NoConn}, running : BOOLEAN]

FramesOf(s) == {s[i] : i \in DOMAIN s}
Ends(s) == s # <<>> /\ s[Len(s)].type = "ended"

-----------------------------------------------------------------------------
(* Sequences of frames. *)

LEMMA FrameTyped ==
  ASSUME NEW type \in RunTypes \cup {"gap", "truncated", "note"}
  PROVE  Frame(type) \in Frames /\ Frame(type).type = type /\ Frame(type).gen = 0
BY DEF Frame, Frames

LEMMA MarkTyped ==
  /\ Gap \in Frames /\ Gap.type = "gap" /\ Gap.gen = 0
  /\ Marker \in Frames /\ Marker.type = "truncated" /\ Marker.gen = 0
BY FrameTyped DEF Gap, Marker

LEMMA EndTyped ==
  ASSUME NEW g \in Nat
  PROVE  LET f == [Frame("ended") EXCEPT !.gen = g] IN
         f \in Frames /\ f.type = "ended" /\ f.gen = g
BY DEF Frame, Frames

LEMMA NonEmpty ==
  ASSUME NEW s \in Seq(Frames), s # <<>>
  PROVE  /\ Len(s) \in Nat /\ Len(s) >= 1 /\ DOMAIN s = 1 .. Len(s)
         /\ Head(s) = s[1] /\ Head(s) \in Frames /\ Head(s) \in FramesOf(s)
         /\ Tail(s) \in Seq(Frames) /\ Len(Tail(s)) = Len(s) - 1
         /\ DOMAIN Tail(s) = 1 .. Len(s) - 1
         /\ \A i \in DOMAIN Tail(s) : i + 1 \in DOMAIN s /\ Tail(s)[i] = s[i + 1]
         /\ FramesOf(Tail(s)) \subseteq FramesOf(s)
<1>1. Len(s) \in Nat \ {0} /\ DOMAIN s = 1 .. Len(s)
  BY EmptySeq, LenProperties
<1>2. /\ Head(s) \in Frames /\ Tail(s) \in Seq(Frames) /\ Len(Tail(s)) = Len(s) - 1
      /\ \A i \in 1 .. Len(Tail(s)) : Tail(s)[i] = s[i + 1]
  BY HeadTailProperties
<1>3. DOMAIN Tail(s) = 1 .. Len(s) - 1
  BY <1>2, LenProperties
<1>4. Head(s) = s[1]  OBVIOUS
<1>5. \A i \in DOMAIN Tail(s) : i + 1 \in DOMAIN s /\ Tail(s)[i] = s[i + 1]
  BY <1>1, <1>2, <1>3
<1> QED  BY <1>1, <1>2, <1>3, <1>4, <1>5 DEF FramesOf

LEMMA SeqFrames ==
  ASSUME NEW s \in Seq(Frames)
  PROVE  FramesOf(s) \subseteq Frames /\ Len(s) \in Nat /\ DOMAIN s = 1 .. Len(s)
<1>1. Len(s) \in Nat /\ DOMAIN s = 1 .. Len(s) /\ s \in [1 .. Len(s) -> Frames]
  BY LenProperties
<1> QED  BY <1>1 DEF FramesOf

LEMMA EmptyFrames == <<>> \in Seq(Frames) /\ FramesOf(<<>>) = {} /\ Len(<<>>) = 0
BY EmptySeq DEF FramesOf

LEMMA OneFrame ==
  ASSUME NEW f \in Frames
  PROVE  <<f>> \in Seq(Frames) /\ Len(<<f>>) = 1 /\ FramesOf(<<f>>) = {f} /\ <<f>>[1] = f
<1>1. <<f>> \in Seq(Frames) /\ Len(<<f>>) = 1 /\ <<f>>[1] = f  OBVIOUS
<1>2. DOMAIN <<f>> = 1 .. 1  BY <1>1, LenProperties
<1> QED  BY <1>1, <1>2 DEF FramesOf

LEMMA TwoFrames ==
  ASSUME NEW e \in Frames, NEW f \in Frames
  PROVE  /\ <<e, f>> \in Seq(Frames) /\ Len(<<e, f>>) = 2 /\ FramesOf(<<e, f>>) = {e, f}
         /\ <<e, f>>[1] = e /\ <<e, f>>[2] = f
<1>1. <<e, f>> \in Seq(Frames) /\ Len(<<e, f>>) = 2 /\ <<e, f>>[1] = e /\ <<e, f>>[2] = f
  OBVIOUS
<1>2. DOMAIN <<e, f>> = 1 .. 2  BY <1>1, LenProperties
<1> QED  BY <1>1, <1>2 DEF FramesOf

LEMMA Joined ==
  ASSUME NEW s \in Seq(Frames), NEW t \in Seq(Frames)
  PROVE  /\ s \o t \in Seq(Frames) /\ Len(s \o t) = Len(s) + Len(t)
         /\ FramesOf(s \o t) = FramesOf(s) \cup FramesOf(t)
         /\ \A i \in 1 .. Len(s) + Len(t) :
              (s \o t)[i] = IF i <= Len(s) THEN s[i] ELSE t[i - Len(s)]
<1>1. /\ s \o t \in Seq(Frames) /\ Len(s \o t) = Len(s) + Len(t)
      /\ \A i \in 1 .. Len(s) + Len(t) :
           (s \o t)[i] = IF i <= Len(s) THEN s[i] ELSE t[i - Len(s)]
  BY ConcatProperties
<1>2. DOMAIN (s \o t) = 1 .. Len(s) + Len(t)  BY <1>1, SeqFrames
<1>3. /\ Len(s) \in Nat /\ DOMAIN s = 1 .. Len(s)
      /\ Len(t) \in Nat /\ DOMAIN t = 1 .. Len(t)
  BY SeqFrames
<1>4. FramesOf(s \o t) \subseteq FramesOf(s) \cup FramesOf(t)
  <2> SUFFICES ASSUME NEW i \in 1 .. Len(s) + Len(t)
               PROVE  (s \o t)[i] \in FramesOf(s) \cup FramesOf(t)
    BY <1>2 DEF FramesOf
  <2>1. CASE i <= Len(s)
    <3>1. i \in DOMAIN s /\ (s \o t)[i] = s[i]  BY <1>1, <1>3, <2>1
    <3> QED  BY <3>1 DEF FramesOf
  <2>2. CASE ~ (i <= Len(s))
    <3>1. i - Len(s) \in DOMAIN t /\ (s \o t)[i] = t[i - Len(s)]  BY <1>1, <1>3, <2>2
    <3> QED  BY <3>1 DEF FramesOf
  <2> QED  BY <2>1, <2>2
<1>5. FramesOf(s) \subseteq FramesOf(s \o t)
  <2> SUFFICES ASSUME NEW i \in DOMAIN s PROVE s[i] \in FramesOf(s \o t)
    BY DEF FramesOf
  <2>1. i \in 1 .. Len(s) + Len(t) /\ (s \o t)[i] = s[i]  BY <1>1, <1>3
  <2> QED  BY <2>1, <1>2 DEF FramesOf
<1>6. FramesOf(t) \subseteq FramesOf(s \o t)
  <2> SUFFICES ASSUME NEW i \in DOMAIN t PROVE t[i] \in FramesOf(s \o t)
    BY DEF FramesOf
  <2>1. i + Len(s) \in 1 .. Len(s) + Len(t) /\ (s \o t)[i + Len(s)] = t[i]  BY <1>1, <1>3
  <2> QED  BY <2>1, <1>2 DEF FramesOf
<1> QED  BY <1>1, <1>4, <1>5, <1>6

LEMMA Appended ==
  ASSUME NEW s \in Seq(Frames), NEW f \in Frames
  PROVE  /\ Append(s, f) \in Seq(Frames) /\ Len(Append(s, f)) = Len(s) + 1
         /\ FramesOf(Append(s, f)) = FramesOf(s) \cup {f}
         /\ \A i \in 1 .. Len(s) : Append(s, f)[i] = s[i]
         /\ Append(s, f)[Len(s) + 1] = f
<1>1. Append(s, f) = s \o <<f>>  BY AppendIsConcat
<1>2. <<f>> \in Seq(Frames) /\ Len(<<f>>) = 1 /\ FramesOf(<<f>>) = {f}  BY OneFrame
<1>3. FramesOf(Append(s, f)) = FramesOf(s) \cup {f}  BY <1>1, <1>2, Joined
<1>4. /\ Append(s, f) \in Seq(Frames) /\ Len(Append(s, f)) = Len(s) + 1
      /\ \A i \in 1 .. Len(s) : Append(s, f)[i] = s[i]
      /\ Append(s, f)[Len(s) + 1] = f
  BY AppendProperties
<1> QED  BY <1>3, <1>4

\* A frame put into a channel is its last, or the channel was closed for a gap;
\* nothing else gets in.
LEMMA SentSound ==
  ASSUME NEW q \in Seq(Frames), Len(q) <= QueueLimit, NEW f \in Frames
  PROVE  /\ Sent(q, f) \in Seq(Frames) /\ Len(Sent(q, f)) <= QueueLimit
         /\ FramesOf(Sent(q, f)) \subseteq FramesOf(q) \cup {Gap, f}
         /\ \A i \in DOMAIN Sent(q, f) :
              Sent(q, f)[i] \in FramesOf(q) \cup {Gap} \/ i = Len(Sent(q, f))
         /\ Len(q) < QueueLimit => Sent(q, f) # <<>> /\ Sent(q, f)[Len(Sent(q, f))] = f
<1>0. Len(q) \in Nat /\ DOMAIN q = 1 .. Len(q) /\ QueueLimit \in Nat /\ QueueLimit >= 2
      /\ Gap \in Frames
  BY SeqFrames, TurnStreamAssumption, MarkTyped
<1>1. CASE Len(q) < QueueLimit
  <2>1. Sent(q, f) = Append(q, f)  BY <1>1 DEF Sent
  <2>2. /\ Append(q, f) \in Seq(Frames) /\ Len(Append(q, f)) = Len(q) + 1
        /\ FramesOf(Append(q, f)) = FramesOf(q) \cup {f}
        /\ \A i \in 1 .. Len(q) : Append(q, f)[i] = q[i]
        /\ Append(q, f)[Len(q) + 1] = f
    BY Appended
  <2>3. DOMAIN Append(q, f) = 1 .. Len(q) + 1  BY <2>2, SeqFrames
  <2>4. \A i \in DOMAIN Append(q, f) : Append(q, f)[i] \in FramesOf(q) \/ i = Len(q) + 1
    <3> SUFFICES ASSUME NEW i \in 1 .. Len(q) + 1, i # Len(q) + 1
                 PROVE  Append(q, f)[i] \in FramesOf(q)
      BY <2>3
    <3>1. i \in DOMAIN q /\ Append(q, f)[i] = q[i]  BY <1>0, <2>2
    <3> QED  BY <3>1 DEF FramesOf
  <2>5. Append(q, f) # <<>>  BY <1>0, <2>2, EmptyFrames
  <2> QED  BY <1>0, <1>1, <2>1, <2>2, <2>4, <2>5
<1>2. CASE ~ (Len(q) < QueueLimit) /\ IsTerminal(f)
  <2> DEFINE r == SubSeq(q, 3, Len(q))
             t == <<Gap, f>>
  <2>1. Sent(q, f) = r \o t  BY <1>2 DEF Sent
  <2>2. \A i \in 3 .. Len(q) : q[i] \in Frames /\ q[i] \in FramesOf(q)
    <3> SUFFICES ASSUME NEW i \in 3 .. Len(q) PROVE q[i] \in FramesOf(q)
      BY SeqFrames
    <3>1. i \in DOMAIN q  BY <1>0
    <3> QED  BY <3>1 DEF FramesOf
  <2>3. /\ r \in Seq(Frames) /\ Len(r) = IF 3 <= Len(q) THEN Len(q) - 3 + 1 ELSE 0
        /\ \A i \in 1 .. Len(q) - 3 + 1 : r[i] = q[3 + i - 1]
    BY <1>0, <2>2, SubSeqProperties
  <2>4. /\ t \in Seq(Frames) /\ Len(t) = 2 /\ FramesOf(t) = {Gap, f}
        /\ t[1] = Gap /\ t[2] = f
    BY <1>0, TwoFrames
  <2>5. DOMAIN r = 1 .. Len(r) /\ Len(r) \in Nat  BY <2>3, SeqFrames
  <2>6. Len(r) = Len(q) - 2  BY <1>0, <1>2, <2>3
  <2>7. FramesOf(r) \subseteq FramesOf(q)
    <3> SUFFICES ASSUME NEW i \in DOMAIN r PROVE r[i] \in FramesOf(q)
      BY DEF FramesOf
    <3>1. i \in 1 .. Len(q) - 3 + 1 /\ 3 + i - 1 \in 3 .. Len(q)  BY <1>0, <2>5, <2>6
    <3>2. r[i] = q[3 + i - 1]  BY <2>3, <3>1
    <3> QED  BY <2>2, <3>1, <3>2
  <2> HIDE DEF r, t
  <2>8. /\ r \o t \in Seq(Frames) /\ Len(r \o t) = Len(r) + Len(t)
        /\ FramesOf(r \o t) = FramesOf(r) \cup FramesOf(t)
        /\ \A i \in 1 .. Len(r) + Len(t) :
             (r \o t)[i] = IF i <= Len(r) THEN r[i] ELSE t[i - Len(r)]
    BY <2>3, <2>4, Joined
  <2>9. DOMAIN (r \o t) = 1 .. Len(r) + 2  BY <2>8, <2>4, SeqFrames
  <2>10. \A i \in 1 .. Len(r) + 2 :
           (r \o t)[i] \in FramesOf(q) \cup {Gap} \/ i = Len(r) + 2
    <3> SUFFICES ASSUME NEW i \in 1 .. Len(r) + 2, i # Len(r) + 2
                 PROVE  (r \o t)[i] \in FramesOf(q) \cup {Gap}
      OBVIOUS
    <3>1. CASE i <= Len(r)
      <4>1. i \in DOMAIN r /\ (r \o t)[i] = r[i]  BY <2>4, <2>5, <2>8, <3>1
      <4> QED  BY <2>7, <4>1 DEF FramesOf
    <3>2. CASE ~ (i <= Len(r))
      <4>1. i - Len(r) = 1  BY <2>5, <3>2
      <4> QED  BY <2>4, <2>8, <3>2, <4>1
    <3> QED  BY <3>1, <3>2
  <2>11. Len(r \o t) = Len(r) + 2  BY <2>4, <2>8
  <2>12. Len(r \o t) <= QueueLimit  BY <1>0, <2>5, <2>6, <2>11
  <2>13. FramesOf(r \o t) \subseteq FramesOf(q) \cup {Gap, f}  BY <2>4, <2>7, <2>8
  <2>14. \A i \in DOMAIN (r \o t) :
           (r \o t)[i] \in FramesOf(q) \cup {Gap} \/ i = Len(r \o t)
    BY <2>9, <2>10, <2>11
  <2> QED  BY <1>2, <2>1, <2>8, <2>12, <2>13, <2>14
<1>3. CASE ~ (Len(q) < QueueLimit) /\ ~ IsTerminal(f)
  <2> DEFINE r == Tail(q)
  <2>1. Sent(q, f) = Append(r, Gap)  BY <1>3 DEF Sent
  <2>2. q # <<>>  BY <1>0, <1>3, EmptyFrames
  <2>3. r \in Seq(Frames) /\ Len(r) = Len(q) - 1 /\ FramesOf(r) \subseteq FramesOf(q)
    BY <2>2, NonEmpty
  <2> HIDE DEF r
  <2>4. /\ Append(r, Gap) \in Seq(Frames) /\ Len(Append(r, Gap)) = Len(r) + 1
        /\ FramesOf(Append(r, Gap)) = FramesOf(r) \cup {Gap}
    BY Zenon, <1>0, <2>3, Appended
  <2>5. \A i \in DOMAIN Append(r, Gap) : Append(r, Gap)[i] \in FramesOf(q) \cup {Gap}
    BY <2>3, <2>4 DEF FramesOf
  <2> QED  BY <1>0, <1>3, <2>1, <2>3, <2>4, <2>5
<1> QED  BY <1>1, <1>2, <1>3

\* What is left of a buffer that is over its limit by at most one frame.
LEMMA FittedSound ==
  ASSUME NEW s \in Seq(Frames), Len(s) <= BufferLimit + 1, ~ Stuck(s)
  PROVE  /\ Fitted(s) \in Seq(Frames) /\ Len(Fitted(s)) <= BufferLimit
         /\ FramesOf(Fitted(s)) \subseteq FramesOf(s)
         /\ Over(s) => Len(Fitted(s)) = BufferLimit
<1>0. Len(s) \in Nat /\ DOMAIN s = 1 .. Len(s) /\ BufferLimit \in Nat \ {0}
      /\ FramesOf(s) \subseteq Frames
  BY SeqFrames, TurnStreamAssumption
<1>1. CASE ~ Over(s)
  BY <1>0, <1>1 DEF Fitted, Over
<1>2. CASE Over(s)
  <2> DEFINE e(i) == IF \E k \in Deltas(s) : k <= i THEN s[i + 1] ELSE s[i]
             r == [i \in 1 .. Len(s) - 1 |-> e(i)]
  <2>1. Fitted(s) = r  BY <1>2 DEF Fitted
  <2>2. Len(s) = BufferLimit + 1
    <3>1. Len(s) \in Int /\ BufferLimit \in Int  BY <1>0
    <3>2. Len(s) > BufferLimit  BY <1>2 DEF Over
    <3> HIDE DEF r, e
    <3> QED  BY <3>1, <3>2
  <2>3. \A i \in 1 .. Len(s) - 1 : s[i] \in FramesOf(s) /\ s[i + 1] \in FramesOf(s)
    <3> SUFFICES ASSUME NEW i \in 1 .. Len(s) - 1
                 PROVE  s[i] \in FramesOf(s) /\ s[i + 1] \in FramesOf(s)
      OBVIOUS
    <3>1. i \in DOMAIN s /\ i + 1 \in DOMAIN s  BY <1>0
    <3> QED  BY <3>1 DEF FramesOf
  <2>4. \A i \in 1 .. Len(s) - 1 : e(i) \in FramesOf(s) /\ e(i) \in Frames
    BY <1>0, <2>3
  <2> HIDE DEF e
  <2>5. Len(s) - 1 \in Nat /\ r \in Seq(Frames)
    BY <1>0, <2>2, <2>4, IsASeq
  <2>6. DOMAIN r = 1 .. Len(s) - 1 /\ \A i \in DOMAIN r : r[i] = e(i)  OBVIOUS
  <2>7. Len(r) = Len(s) - 1  BY <2>5, <2>6, LenProperties, SeqFrames
  <2>8. FramesOf(r) \subseteq FramesOf(s)  BY <2>4, <2>6 DEF FramesOf
  <2> QED  BY <1>0, <2>1, <2>2, <2>5, <2>7, <2>8
<1> QED  BY <1>1, <1>2

LEMMA TruncatedSound ==
  ASSUME NEW b \in Buffers, Len(b.events) <= BufferLimit + 1
  PROVE  /\ Truncated(b) \in Buffers
         /\ Truncated(b).gen = b.gen /\ Truncated(b).pending = b.pending
         /\ Truncated(b).failed = b.failed
         /\ Len(Truncated(b).events) <= BufferLimit
         /\ FramesOf(Truncated(b).events) \subseteq FramesOf(b.events) \cup {Marker}
<1> DEFINE s == b.events
           kept == Fitted(s)
           marked == <<Marker>> \o kept
<1>0. s \in Seq(Frames) /\ BufferLimit \in Nat \ {0}  BY TurnStreamAssumption DEF Buffers
<1>1. Marker \in Frames /\ <<Marker>> \in Seq(Frames) /\ Len(<<Marker>>) = 1
      /\ FramesOf(<<Marker>>) = {Marker}
  BY MarkTyped, OneFrame
<1>2. /\ OnlyMarker(b) \in Buffers /\ OnlyMarker(b).events = <<Marker>>
      /\ OnlyMarker(b).gen = b.gen /\ OnlyMarker(b).pending = b.pending
      /\ OnlyMarker(b).failed = b.failed
  BY <1>1 DEF OnlyMarker, Buffers
<1> DEFINE Good(t) == /\ t \in Buffers /\ t.gen = b.gen /\ t.pending = b.pending
                      /\ t.failed = b.failed /\ Len(t.events) <= BufferLimit
                      /\ FramesOf(t.events) \subseteq FramesOf(s) \cup {Marker}
<1> SUFFICES Good(Truncated(b))  OBVIOUS
<1>5. Good(OnlyMarker(b))
  <2>1. Len(<<Marker>>) <= BufferLimit  BY <1>0, <1>1
  <2> QED  BY <1>1, <1>2, <2>1
<1>3. CASE Stuck(s)
  <2>1. Truncated(b) = OnlyMarker(b)  BY <1>3 DEF Truncated
  <2> HIDE DEF Good
  <2> QED  BY <1>5, <2>1
<1>4. CASE ~ Stuck(s)
  <2>1. kept \in Seq(Frames) /\ Len(kept) <= BufferLimit /\ FramesOf(kept) \subseteq FramesOf(s)
        /\ (Over(s) => Len(kept) = BufferLimit)
    BY <1>0, <1>4, FittedSound
  <2>2. CASE ~ Over(s) \/ b.truncated
    <3>1. Truncated(b) = [b EXCEPT !.events = kept]  BY <1>4, <2>2 DEF Truncated
    <3> HIDE DEF kept
    <3> QED  BY <2>1, <3>1 DEF Buffers
  <2>3. CASE ~ (~ Over(s) \/ b.truncated)
    <3> HIDE DEF kept
    <3>1. marked \in Seq(Frames) /\ Len(marked) = Len(<<Marker>>) + Len(kept)
          /\ FramesOf(marked) = FramesOf(<<Marker>>) \cup FramesOf(kept)
      BY <1>1, <2>1, Joined
    <3>2. FramesOf(marked) \subseteq FramesOf(s) \cup {Marker}  BY <1>1, <2>1, <3>1
    <3>3. Len(marked) <= BufferLimit + 1
      <4>1. Len(kept) = BufferLimit  BY <2>1, <2>3
      <4> QED  BY <1>0, <1>1, <3>1, <4>1
    <3>4. CASE Stuck(marked)
      <4>1. Truncated(b) = OnlyMarker(b)  BY <1>4, <2>3, <3>4 DEF Truncated, kept
      <4> HIDE DEF Good
      <4> QED  BY <1>5, <4>1
    <3>5. CASE ~ Stuck(marked)
      <4>1. Truncated(b) = [b EXCEPT !.events = Fitted(marked), !.truncated = TRUE]
        BY <1>4, <2>3, <3>5 DEF Truncated, kept
      <4> HIDE DEF marked
      <4>2. /\ Fitted(marked) \in Seq(Frames) /\ Len(Fitted(marked)) <= BufferLimit
            /\ FramesOf(Fitted(marked)) \subseteq FramesOf(marked)
        BY <3>1, <3>3, <3>5, FittedSound
      <4> QED  BY <3>2, <4>1, <4>2 DEF Buffers
    <3> QED  BY <3>4, <3>5
  <2> QED  BY <2>2, <2>3
<1> QED  BY <1>3, <1>4

LEMMA EmptyBufferTyped ==
  /\ EmptyBuffer \in Buffers /\ EmptyBuffer.events = <<>> /\ EmptyBuffer.gen = 0
  /\ EmptyBuffer.pending = {} /\ EmptyBuffer.failed = {}
BY EmptyFrames DEF EmptyBuffer, Buffers

LEMMA RecoveryBufferSound ==
  ASSUME NEW f \in Frames, f.type = "ended", NEW P \in SUBSET (Conn \cup {Gone}),
         NEW C \in SUBSET Client
  PROVE  LET b == RecoveryBuffer(f, P, C) IN
         /\ b \in Buffers /\ b.gen = f.gen /\ b.pending = P /\ b.failed = C
         /\ Ends(b.events) /\ Len(b.events) <= BufferLimit
         /\ \A e \in FramesOf(b.events) : e.type \in {"gap", "ended"} /\ e.gen \in {0, f.gen}
<1> DEFINE h == [f EXCEPT !.gen = 0]
           ev == IF BufferLimit >= 2 THEN <<Gap, f>> ELSE <<h>>
           b == RecoveryBuffer(f, P, C)
<1>0. BufferLimit \in Nat \ {0} /\ Gap \in Frames /\ Gap.type = "gap" /\ Gap.gen = 0
  BY TurnStreamAssumption, MarkTyped
<1>1. h \in Frames /\ h.type = "ended" /\ h.gen = 0 /\ f.gen \in Nat
  BY DEF Frames
<1>2. /\ ev \in Seq(Frames) /\ Len(ev) <= BufferLimit /\ ev # <<>>
      /\ ev[Len(ev)] \in {f, h} /\ FramesOf(ev) \subseteq {Gap, f, h}
  <2>1. CASE BufferLimit >= 2
    BY <1>0, <2>1, TwoFrames, EmptyFrames
  <2>2. CASE ~ (BufferLimit >= 2)
    <3> HIDE DEF h
    <3> QED  BY <1>0, <1>1, <2>2, OneFrame, EmptyFrames
  <2> QED  BY <2>1, <2>2
<1>3. b = [events |-> ev, truncated |-> TRUE, gen |-> f.gen, pending |-> P, failed |-> C]
  BY DEF RecoveryBuffer
<1> HIDE DEF ev, h, b
<1>4. b \in Buffers /\ b.events = ev /\ b.gen = f.gen /\ b.pending = P /\ b.failed = C
  BY <1>1, <1>2, <1>3 DEF Buffers
<1>5. Ends(b.events) /\ Len(b.events) <= BufferLimit  BY <1>1, <1>2, <1>4 DEF Ends
<1>6. \A e \in FramesOf(b.events) : e.type \in {"gap", "ended"} /\ e.gen \in {0, f.gen}
  BY <1>0, <1>1, <1>2, <1>4
<1> QED  BY <1>4, <1>5, <1>6 DEF b

-----------------------------------------------------------------------------
(* The inductive invariant. *)

StreamShape ==
    /\ draftOf \in [Client -> Draft] /\ turns \in [Draft -> TurnCounts]
    /\ buffer \in [Draft -> Buffers] /\ subs \in [Draft -> SUBSET Conn]
    /\ failed \in [Draft -> SUBSET Client] /\ nextGen \in Nat /\ dropped \subseteq Client
    /\ conn \in [Conn -> Handlers] /\ client \in [Client -> PageStates]

Open(k) == conn[k].state = "open"
Home(k) == draftOf[conn[k].of]

\* Handlers, subscriptions and pages point at each other.
Wired ==
    /\ \A k \in Conn : Open(k) => /\ conn[k].of \in Client
                                  /\ ~ conn[k].broken => client[conn[k].of].conn = k
                                  /\ ~ conn[k].closed => k \in subs[Home(k)]
    /\ \A d \in Draft : \A k \in subs[d] : Open(k) /\ ~ conn[k].closed /\ Home(k) = d
    /\ \A d \in Draft : \A k \in buffer[d].pending \ {Gone} : Open(k) /\ Home(k) = d
    /\ \A c \in Client : client[c].conn # NoConn =>
         /\ Open(client[c].conn) /\ conn[client[c].conn].of = c
         /\ ~ conn[client[c].conn].broken

Limits == /\ \A k \in Conn : Len(conn[k].queue) <= QueueLimit
          /\ \A d \in Draft : Len(buffer[d].events) <= BufferLimit
          /\ Cardinality(Waiting(buffer)) <= RecoveryLimit

\* No generation is newer than the last.
Upto(s, g) == \A f \in FramesOf(s) : f.gen <= g
Timely ==
    /\ \A d \in Draft : Upto(buffer[d].events, nextGen) /\ buffer[d].gen <= nextGen
    /\ \A k \in Conn : Open(k) => /\ Upto(conn[k].snap, nextGen) /\ Upto(conn[k].queue, nextGen)
                                  /\ conn[k].ackGen <= nextGen

Live(s) == \E f \in FramesOf(s) : f.type \in RunTypes

\* A draft's buffer: while it keeps a terminal, and when all its turns have ended.
BufferSound(d) ==
    LET b == buffer[d] IN
    /\ \A f \in FramesOf(b.events) : f.gen \in {0, b.gen}
    /\ b.gen = 0 => b.pending = {} /\ b.failed = {}
    /\ b.gen # 0 => b.pending # {} \/ b.failed # {}
    /\ Quiet(d) => /\ ~ turns[d].active /\ b.failed = failed[d] /\ ~ Live(b.events)
                   /\ b.pending \subseteq subs[d]
                   /\ b.gen # 0 => Ends(b.events)
Distinct == \A d, e \in Draft : buffer[d].gen = buffer[e].gen /\ buffer[d].gen # 0 => d = e
BuffersSound == (\A d \in Draft : BufferSound(d)) /\ Distinct

\* A stream that is to acknowledge the kept terminal, once all turns have ended,
\* holds it last.
StreamSound(k) ==
    LET b == buffer[Home(k)]
        w == conn[k] IN
    /\ \A f \in FramesOf(w.snap) : f.gen \in {0, w.ackGen}
    /\ b.gen # 0 /\ w.ackGen = b.gen => k \notin b.pending
    /\ Quiet(Home(k)) =>
         /\ b.gen # 0 /\ k \in b.pending =>
              \A i \in DOMAIN w.queue : w.queue[i].gen = b.gen => i = Len(w.queue)
         /\ b.gen # 0 /\ w.ackGen = b.gen =>
              w.queue = <<>> /\ ~ Live(w.snap) /\ (w.snap # <<>> => Ends(w.snap))
StreamsSound == \A k \in Conn : Open(k) => StreamSound(k)

\* A page that shows a running turn, or will, when its connection is read out.
WillRun(c) == \/ client[c].running
              \/ /\ client[c].conn # NoConn
                 /\ Live(conn[client[c].conn].snap) \/ Live(conn[client[c].conn].queue)

\* Who would be told of the end of a running turn, and is to be told of an end.
Watching(d) == failed[d] \cup ClientsOf(subs[d])
Awaited(d) == failed[d] \cup {conn[k].of : k \in buffer[d].pending \ {Gone}}

\* A client whose page shows a running turn is to be told: when one ends, or, as
\* all have, now.
Told(c) ==
    WillRun(c) /\ c \notin dropped =>
        IF Quiet(draftOf[c]) THEN buffer[draftOf[c]].gen # 0 /\ c \in Awaited(draftOf[c])
        ELSE c \in Watching(draftOf[c])
AllTold == \A c \in Client : Told(c)

\* And what is left to read on a connection that the hub has not closed ends
\* with the end.
EndsLast(c) ==
    LET k == client[c].conn
        d == draftOf[c] IN
    Quiet(d) /\ c \notin dropped /\ WillRun(c) /\ k \in subs[d] =>
        IF conn[k].queue # <<>> THEN Ends(conn[k].queue) ELSE Ends(conn[k].snap)
AllEnd == \A c \in Client : EndsLast(c)

StreamInvariant == /\ StreamShape /\ Wired /\ Limits /\ Timely
                   /\ BuffersSound /\ StreamsSound /\ AllTold /\ AllEnd

-----------------------------------------------------------------------------
(* The tables after a terminal was acknowledged, kept or given up. *)

LEMMA WaitingFinite ==
  ASSUME NEW b, Cardinality(Waiting(buffer)) <= RecoveryLimit,
         Waiting(b) \subseteq Waiting(buffer)
  PROVE  Cardinality(Waiting(b)) <= RecoveryLimit
<1>1. IsFiniteSet(Waiting(buffer))
  <2>1. Waiting(buffer) \in SUBSET Draft  BY DEF Waiting
  <2> QED  BY <2>1, TurnStreamAssumption, FS_Subset
<1>2. IsFiniteSet(Waiting(b))  BY <1>1, FS_Subset
<1>3. Cardinality(Waiting(b)) <= Cardinality(Waiting(buffer))  BY <1>1, FS_Subset
<1>4. Cardinality(Waiting(b)) \in Nat /\ Cardinality(Waiting(buffer)) \in Nat
      /\ RecoveryLimit \in Nat
  BY <1>1, <1>2, FS_CardinalityType, TurnStreamAssumption
<1> QED  BY <1>3, <1>4

\* The limit on kept terminals: those that stay have different ranks below it.
LEMMA LimitEnforced ==
  ASSUME NEW b \in [Draft -> Buffers],
         \A d, e \in Draft : b[d].gen = b[e].gen /\ b[d].gen # 0 => d = e
  PROVE  IsFiniteSet(Waiting(b) \ Evicted(b))
         /\ Cardinality(Waiting(b) \ Evicted(b)) <= RecoveryLimit
<1> DEFINE W == Waiting(b)
           K == W \ Evicted(b)
           Newer(d) == {e \in W : b[e].gen > b[d].gen}
           r == [d \in K |-> Cardinality(Newer(d))]
           T == 0 .. RecoveryLimit - 1
<1>1. IsFiniteSet(W) /\ W \subseteq Draft
  <2>1. W \in SUBSET Draft  BY DEF Waiting
  <2> QED  BY <2>1, TurnStreamAssumption, FS_Subset
<1>2. \A d \in W : IsFiniteSet(Newer(d)) /\ Cardinality(Newer(d)) \in Nat
  <2> SUFFICES ASSUME NEW d \in W
               PROVE  IsFiniteSet(Newer(d)) /\ Cardinality(Newer(d)) \in Nat
    OBVIOUS
  <2>1. Newer(d) \in SUBSET W  OBVIOUS
  <2>2. IsFiniteSet(Newer(d))  BY <1>1, <2>1, FS_Subset
  <2> QED  BY <2>2, FS_CardinalityType
<1>3. \A d \in K : ~ (Cardinality(Newer(d)) >= RecoveryLimit)
  BY DEF Evicted
<1>4. \A d \in K : Cardinality(Newer(d)) \in T
  <2> SUFFICES ASSUME NEW d \in K PROVE Cardinality(Newer(d)) \in T
    OBVIOUS
  <2> DEFINE n == Cardinality(Newer(d))
  <2>1. n \in Nat /\ ~ (n >= RecoveryLimit)  BY <1>2, <1>3
  <2>2. RecoveryLimit \in Nat  BY TurnStreamAssumption
  <2> HIDE DEF n
  <2>3. n \in 0 .. RecoveryLimit - 1  BY <2>1, <2>2
  <2> QED  BY <2>3 DEF n
<1>5. \A d, e \in K : d # e => Cardinality(Newer(d)) # Cardinality(Newer(e))
  <2>1. ASSUME NEW d \in K, NEW e \in K, b[d].gen < b[e].gen
        PROVE  Cardinality(Newer(d)) # Cardinality(Newer(e))
    <3>1. Newer(e) \in SUBSET Newer(d)
      <4>1. \A x \in W : b[x].gen \in Int  BY <1>1 DEF Buffers
      <4> QED  BY <1>1, <2>1, <4>1
    <3>2. e \in Newer(d)  BY <2>1
    <3>3. e \notin Newer(e)
      <4>1. b[e].gen \in Int  BY <1>1, <2>1 DEF Buffers
      <4> QED  BY <4>1
    <3>4. IsFiniteSet(Newer(d))  BY <1>2, <2>1
    <3> HIDE DEF Newer
    <3>5. Cardinality(Newer(e)) = Cardinality(Newer(d)) => Newer(e) = Newer(d)
      BY <3>1, <3>4, FS_Subset
    <3> QED  BY <3>2, <3>3, <3>5
  <2> SUFFICES ASSUME NEW d \in K, NEW e \in K, d # e
               PROVE  Cardinality(Newer(d)) # Cardinality(Newer(e))
    OBVIOUS
  <2>2. b[d].gen # b[e].gen /\ b[d].gen \in Int /\ b[e].gen \in Int
    BY <1>1 DEF Waiting, Buffers
  <2>3. b[d].gen < b[e].gen \/ b[e].gen < b[d].gen
    <3> DEFINE x == b[d].gen
               y == b[e].gen
    <3>1. x # y /\ x \in Int /\ y \in Int  BY <2>2
    <3> HIDE DEF x, y
    <3>2. x < y \/ y < x  BY <3>1
    <3> QED  BY <3>2 DEF x, y
  <2> HIDE DEF Newer, K, W
  <2> QED  BY <2>1, <2>3
<1>6. r \in Injection(K, T)
  <2>1. r \in [K -> T]  BY <1>4
  <2> HIDE DEF Newer, T
  <2>2. \A d, e \in K : r[d] = r[e] => d = e  BY <1>5
  <2> QED  BY <2>1, <2>2 DEF Injection, IsInjective
<1>7. IsFiniteSet(T) /\ Cardinality(T) = RecoveryLimit
  <2>1. RecoveryLimit \in Nat /\ 0 \in Int /\ RecoveryLimit - 1 \in Int
    BY TurnStreamAssumption
  <2>2. IsFiniteSet(T)
        /\ Cardinality(T) = IF 0 > RecoveryLimit - 1 THEN 0 ELSE RecoveryLimit - 1 - 0 + 1
    BY <2>1, FS_Interval
  <2> HIDE DEF T
  <2> QED  BY <2>1, <2>2
<1>8. IsFiniteSet(K) /\ Cardinality(K) <= Cardinality(T)
  <2> HIDE DEF K, T, r
  <2> QED  BY <1>6, <1>7, FS_Injection
<1> QED  BY <1>7, <1>8

LEMMA EnforcedSound ==
  ASSUME NEW b \in [Draft -> Buffers], NEW clients \in [Draft -> SUBSET Client],
         NEW lost \in SUBSET Client, dropped \subseteq Client,
         \A d, e \in Draft : b[d].gen = b[e].gen /\ b[d].gen # 0 => d = e,
         Enforced(b, clients, lost)
  PROVE  /\ buffer' \in [Draft -> Buffers] /\ failed' \in [Draft -> SUBSET Client]
         /\ dropped' \subseteq Client /\ dropped \cup lost \subseteq dropped'
         /\ Cardinality(Waiting(buffer')) <= RecoveryLimit
         /\ \A d \in Draft :
              \/ buffer'[d] = b[d] /\ failed'[d] = clients[d]
              \/ /\ buffer'[d] = EmptyBuffer /\ failed'[d] = {}
                 /\ b[d].gen # 0 /\ b[d].pending = {}
                 /\ b[d].failed \cup clients[d] \subseteq dropped'
<1> DEFINE out == Evicted(b)
<1>1. /\ buffer' = [d \in Draft |-> IF d \in out THEN EmptyBuffer ELSE b[d]]
      /\ failed' = [d \in Draft |-> IF d \in out THEN {} ELSE clients[d]]
      /\ dropped' = dropped \cup lost \cup UNION {b[d].failed \cup clients[d] : d \in out}
  BY DEF Enforced
<1>2. out \subseteq Waiting(b) /\ Waiting(b) \subseteq Draft
      /\ \A d \in Waiting(b) : b[d].gen # 0 /\ b[d].pending = {}
  BY DEF Evicted, Waiting
<1>3. EmptyBuffer \in Buffers /\ EmptyBuffer.gen = 0  BY EmptyBufferTyped
<1>4. Waiting(buffer') = Waiting(b) \ out
  <2> HIDE DEF out
  <2> QED  BY <1>1, <1>2, <1>3 DEF Waiting
<1>5. Cardinality(Waiting(buffer')) <= RecoveryLimit  BY <1>4, LimitEnforced
<1> HIDE DEF out
<1>6. buffer' \in [Draft -> Buffers] /\ failed' \in [Draft -> SUBSET Client]
  BY <1>1, <1>3
<1>7. dropped' \subseteq Client /\ dropped \cup lost \subseteq dropped'
  <2>1. \A d \in out : b[d].failed \cup clients[d] \subseteq Client  BY <1>2 DEF Buffers
  <2> QED  BY <1>1, <2>1
<1>8. ASSUME NEW d \in Draft
      PROVE  \/ buffer'[d] = b[d] /\ failed'[d] = clients[d]
             \/ /\ buffer'[d] = EmptyBuffer /\ failed'[d] = {}
                /\ b[d].gen # 0 /\ b[d].pending = {}
                /\ b[d].failed \cup clients[d] \subseteq dropped'
  <2>1. CASE d \in out  BY <1>1, <1>2, <2>1
  <2>2. CASE d \notin out  BY <1>1, <2>2
  <2> QED  BY <2>1, <2>2
<1> QED  BY <1>5, <1>6, <1>7, <1>8

\* A draft's kept terminal was given up, for the clients C that should have it.
GivenUp(d, C) ==
    buffer'[d] = EmptyBuffer /\ failed'[d] = {} /\ C \subseteq dropped'

\* The kept terminal of d now waits for the streams P and the clients B, and the
\* hub remembers the clients C; kept terminals may have been given up, that of d
\* not for the clients K.
Moved(d, P, B, C, K) ==
    /\ buffer' \in [Draft -> Buffers] /\ failed' \in [Draft -> SUBSET Client]
    /\ dropped' \subseteq Client /\ dropped \subseteq dropped'
    /\ Cardinality(Waiting(buffer')) <= RecoveryLimit
    /\ \A e \in Draft : e # d =>
         \/ buffer'[e] = buffer[e] /\ failed'[e] = failed[e]
         \/ /\ GivenUp(e, buffer[e].failed \cup failed[e])
            /\ buffer[e].gen # 0 /\ buffer[e].pending = {}
    /\ \/ /\ buffer'[d] = [buffer[d] EXCEPT !.pending = P, !.failed = B]
          /\ failed'[d] = C /\ (P # {} \/ B # {})
       \/ GivenUp(d, B \cup (C \ K)) /\ P = {}

LEMMA TablesMoved ==
  ASSUME StreamShape, Limits, Distinct, NEW d \in Draft,
         NEW P \in SUBSET (Conn \cup {Gone}), NEW B \in SUBSET Client, NEW C \in SUBSET Client,
         NEW lost \in SUBSET Client, P # {} \/ B # {},
         IF P = {}
         THEN Enforced([buffer EXCEPT ![d] = [buffer[d] EXCEPT !.pending = P, !.failed = B]],
                       [failed EXCEPT ![d] = C], lost)
         ELSE /\ buffer' = [buffer EXCEPT ![d] = [buffer[d] EXCEPT !.pending = P, !.failed = B]]
              /\ failed' = [failed EXCEPT ![d] = C]
              /\ dropped' = dropped \cup lost
  PROVE  Moved(d, P, B, C, {}) /\ lost \subseteq dropped'
<1> DEFINE new == [buffer[d] EXCEPT !.pending = P, !.failed = B]
           b == [buffer EXCEPT ![d] = new]
           clients == [failed EXCEPT ![d] = C]
<1>1. IF P = {} THEN Enforced(b, clients, lost)
      ELSE buffer' = b /\ failed' = clients /\ dropped' = dropped \cup lost
  OBVIOUS
<1>2. new \in Buffers /\ new.gen = buffer[d].gen /\ new.pending = P /\ new.failed = B
  <2>1. buffer[d] \in Buffers  BY DEF StreamShape
  <2> QED  BY <2>1 DEF Buffers
<1>3. /\ b \in [Draft -> Buffers] /\ b[d] = new /\ \A e \in Draft : e # d => b[e] = buffer[e]
      /\ clients \in [Draft -> SUBSET Client] /\ clients[d] = C
      /\ \A e \in Draft : e # d => clients[e] = failed[e]
  <2> HIDE DEF new
  <2> QED  BY <1>2 DEF StreamShape
<1>4. dropped \subseteq Client  BY DEF StreamShape
<1> SUFFICES /\ buffer' \in [Draft -> Buffers] /\ failed' \in [Draft -> SUBSET Client]
             /\ dropped' \subseteq Client /\ dropped \cup lost \subseteq dropped'
             /\ Cardinality(Waiting(buffer')) <= RecoveryLimit
             /\ \A e \in Draft : e # d =>
                  \/ buffer'[e] = buffer[e] /\ failed'[e] = failed[e]
                  \/ /\ GivenUp(e, buffer[e].failed \cup failed[e])
                     /\ buffer[e].gen # 0 /\ buffer[e].pending = {}
             /\ \/ buffer'[d] = new /\ failed'[d] = C
                \/ GivenUp(d, B \cup C) /\ P = {}
  <2>1. C \ {} = C  OBVIOUS
  <2> HIDE DEF b, clients
  <2> QED  BY <2>1 DEF Moved
<1> HIDE DEF b, clients, new
<1>5. CASE P = {}
  <2>1. Enforced(b, clients, lost)  BY <1>1, <1>5
  <2>2. \A e, h \in Draft : b[e].gen = b[h].gen /\ b[e].gen # 0 => e = h
    BY <1>2, <1>3 DEF Distinct
  <2>3. /\ buffer' \in [Draft -> Buffers] /\ failed' \in [Draft -> SUBSET Client]
        /\ dropped' \subseteq Client /\ dropped \cup lost \subseteq dropped'
        /\ Cardinality(Waiting(buffer')) <= RecoveryLimit
        /\ \A e \in Draft :
             \/ buffer'[e] = b[e] /\ failed'[e] = clients[e]
             \/ /\ buffer'[e] = EmptyBuffer /\ failed'[e] = {}
                /\ b[e].gen # 0 /\ b[e].pending = {}
                /\ b[e].failed \cup clients[e] \subseteq dropped'
    BY <1>3, <1>4, <2>1, <2>2, EnforcedSound
  <2>4. ASSUME NEW e \in Draft, e # d
        PROVE  \/ buffer'[e] = buffer[e] /\ failed'[e] = failed[e]
               \/ /\ GivenUp(e, buffer[e].failed \cup failed[e])
                  /\ buffer[e].gen # 0 /\ buffer[e].pending = {}
    BY <1>3, <2>3, <2>4 DEF GivenUp
  <2>5. \/ buffer'[d] = new /\ failed'[d] = C
        \/ GivenUp(d, B \cup C) /\ P = {}
    BY <1>2, <1>3, <1>5, <2>3 DEF GivenUp
  <2> QED  BY <2>3, <2>4, <2>5
<1>6. CASE P # {}
  <2>1. buffer' = b /\ failed' = clients /\ dropped' = dropped \cup lost  BY <1>1, <1>6
  <2>2. Waiting(buffer') \subseteq Waiting(buffer)
    <3> SUFFICES ASSUME NEW e \in Waiting(buffer') PROVE e \in Waiting(buffer)
      OBVIOUS
    <3>1. e \in Draft /\ b[e].gen # 0 /\ b[e].pending = {}  BY <2>1 DEF Waiting
    <3>2. e # d  BY <1>2, <1>3, <1>6, <3>1
    <3> QED  BY <1>3, <3>1, <3>2 DEF Waiting
  <2>3. Cardinality(Waiting(buffer')) <= RecoveryLimit  BY <2>2, WaitingFinite DEF Limits
  <2> QED  BY <1>3, <1>4, <1>6, <2>1, <2>3
<1> QED  BY <1>5, <1>6

\* After an acknowledgement the terminal waits for the streams P and the clients
\* B; of the others the hub remembers those it knew, and nobody without a stream.
LEMMA SettleMoves ==
  ASSUME StreamShape, Limits, Distinct, NEW d \in Draft, NEW k \in Conn, conn[k].of \in Client,
         NEW P \in SUBSET (Conn \cup {Gone}), NEW B \in SUBSET Client,
         Settle(d, k, [buffer[d] EXCEPT !.pending = P, !.failed = B])
  PROVE  /\ Moved(d, P, B, failed[d] \ {conn[k].of}, ClientsOf(subs[d]))
         /\ conn[k].of \in dropped' \cup ClientsOf(subs[d])
<1> DEFINE new == [buffer[d] EXCEPT !.pending = P, !.failed = B]
           C == failed[d] \ {conn[k].of}
           K == ClientsOf(subs[d])
           cut == {conn[k].of} \ K
<1>1. new.pending = P /\ new.failed = B  BY DEF StreamShape, Buffers
<1>2. C \in SUBSET Client /\ cut \in SUBSET Client /\ dropped \subseteq Client
  BY DEF StreamShape
<1>3. CASE P = {} /\ B = {}
  <2>1. /\ buffer' = [buffer EXCEPT ![d] = EmptyBuffer]
        /\ failed' = [failed EXCEPT ![d] = {}]
        /\ dropped' = dropped \cup cut \cup (C \ K)
    BY <1>1, <1>3 DEF Settle
  <2> HIDE DEF C, cut, K
  <2>2. EmptyBuffer \in Buffers /\ EmptyBuffer.gen = 0  BY EmptyBufferTyped
  <2>3. /\ buffer' \in [Draft -> Buffers] /\ failed' \in [Draft -> SUBSET Client]
        /\ dropped' \subseteq Client /\ dropped \subseteq dropped'
        /\ buffer'[d] = EmptyBuffer /\ failed'[d] = {}
        /\ \A e \in Draft : e # d => buffer'[e] = buffer[e] /\ failed'[e] = failed[e]
    BY <1>2, <2>1, <2>2 DEF StreamShape
  <2>4. Waiting(buffer') \subseteq Waiting(buffer)  BY <2>2, <2>3 DEF Waiting
  <2>5. Cardinality(Waiting(buffer')) <= RecoveryLimit  BY <2>4, WaitingFinite DEF Limits
  <2>6. Moved(d, P, B, C, K)  BY <1>3, <2>1, <2>3, <2>5 DEF Moved, GivenUp
  <2> QED  BY <2>1, <2>6 DEF C, cut, K
<1>4. CASE ~ (P = {} /\ B = {})
  <2>1. IF P = {}
        THEN Enforced([buffer EXCEPT ![d] = new], [failed EXCEPT ![d] = C], cut)
        ELSE /\ buffer' = [buffer EXCEPT ![d] = new]
             /\ failed' = [failed EXCEPT ![d] = C]
             /\ dropped' = dropped \cup cut
    BY <1>1, <1>4 DEF Settle
  <2> HIDE DEF C, cut, K
  <2>2. Moved(d, P, B, C, {}) /\ cut \subseteq dropped'  BY Zenon, <1>2, <1>4, <2>1, TablesMoved
  <2>3. Moved(d, P, B, C, K)  BY <2>2 DEF Moved, GivenUp
  <2> QED  BY <2>2, <2>3 DEF C, cut, K
<1> QED  BY <1>3, <1>4

-----------------------------------------------------------------------------
(* Record. *)

LEMMA PublishedSound ==
  ASSUME StreamShape, Limits, NEW d \in Draft, NEW f \in Frames, conn' = Published(d, f)
  PROVE  /\ conn' \in [Conn -> Handlers]
         /\ \A k \in Conn :
              /\ conn'[k].state = conn[k].state /\ conn'[k].of = conn[k].of
              /\ conn'[k].snap = conn[k].snap /\ conn'[k].ackGen = conn[k].ackGen
              /\ conn'[k].broken = conn[k].broken
              /\ Len(conn'[k].queue) <= QueueLimit
              /\ k \notin subs[d] => conn'[k] = conn[k]
              /\ k \in subs[d] =>
                   /\ conn'[k].closed = (k \in Slow(d))
                   /\ FramesOf(conn'[k].queue) \subseteq FramesOf(conn[k].queue) \cup {Gap, f}
                   /\ \A i \in DOMAIN conn'[k].queue :
                        \/ conn'[k].queue[i] \in FramesOf(conn[k].queue) \cup {Gap}
                        \/ i = Len(conn'[k].queue)
                   /\ k \notin Slow(d) =>
                        conn'[k].queue # <<>> /\ conn'[k].queue[Len(conn'[k].queue)] = f
<1>1. ASSUME NEW k \in Conn
      PROVE  /\ conn'[k] \in Handlers
             /\ conn'[k].state = conn[k].state /\ conn'[k].of = conn[k].of
             /\ conn'[k].snap = conn[k].snap /\ conn'[k].ackGen = conn[k].ackGen
             /\ conn'[k].broken = conn[k].broken
             /\ Len(conn'[k].queue) <= QueueLimit
             /\ k \notin subs[d] => conn'[k] = conn[k]
             /\ k \in subs[d] =>
                  /\ conn'[k].closed = (k \in Slow(d))
                  /\ FramesOf(conn'[k].queue) \subseteq FramesOf(conn[k].queue) \cup {Gap, f}
                  /\ \A i \in DOMAIN conn'[k].queue :
                       \/ conn'[k].queue[i] \in FramesOf(conn[k].queue) \cup {Gap}
                       \/ i = Len(conn'[k].queue)
                  /\ k \notin Slow(d) =>
                       conn'[k].queue # <<>> /\ conn'[k].queue[Len(conn'[k].queue)] = f
  <2>0. conn[k] \in Handlers /\ conn[k].queue \in Seq(Frames) /\ Len(conn[k].queue) <= QueueLimit
    BY DEF StreamShape, Limits, Handlers
  <2>1. CASE k \notin subs[d]
    <3>1. conn'[k] = conn[k]  BY Zenon, <2>1 DEF Published
    <3> QED  BY <2>0, <2>1, <3>1
  <2>2. CASE k \in subs[d]
    <3> DEFINE q == Sent(conn[k].queue, f)
               z == (k \in Slow(d))
    <3>1. conn'[k] = [conn[k] EXCEPT !.queue = q, !.closed = z]  BY Zenon, <2>2 DEF Published
    <3>2. /\ q \in Seq(Frames) /\ Len(q) <= QueueLimit
          /\ FramesOf(q) \subseteq FramesOf(conn[k].queue) \cup {Gap, f}
          /\ \A i \in DOMAIN q : q[i] \in FramesOf(conn[k].queue) \cup {Gap} \/ i = Len(q)
          /\ k \notin Slow(d) => q # <<>> /\ q[Len(q)] = f
      <4>1. Len(conn[k].queue) \in Nat /\ QueueLimit \in Nat
        BY <2>0, SeqFrames, TurnStreamAssumption
      <4>2. k \notin Slow(d) => Len(conn[k].queue) < QueueLimit  BY <2>2, <4>1 DEF Slow
      <4> QED  BY <2>0, <4>2, SentSound
    <3>3. z \in BOOLEAN  OBVIOUS
    <3> HIDE DEF q, z
    <3>4. /\ conn'[k] \in Handlers /\ conn'[k].queue = q /\ conn'[k].closed = z
          /\ conn'[k].state = conn[k].state /\ conn'[k].of = conn[k].of
          /\ conn'[k].snap = conn[k].snap /\ conn'[k].ackGen = conn[k].ackGen
          /\ conn'[k].broken = conn[k].broken
      BY <2>0, <3>1, <3>2, <3>3 DEF Handlers
    <3>5. conn'[k].closed = (k \in Slow(d))  BY <3>4 DEF z
    <3> QED  BY <2>2, <3>2, <3>4, <3>5
  <2> QED  BY <2>1, <2>2
<1>2. conn' = [k \in Conn |-> conn'[k]]  BY Zenon DEF Published
<1> QED  BY <1>1, <1>2

\* What the hub's three kinds of frames do to streams and pages.
Recorded(d, f) ==
    /\ conn' = Published(d, f)
    /\ subs' = [subs EXCEPT ![d] = @ \ Slow(d)]
    /\ UNCHANGED <<draftOf, client>>

LEMMA RecordedWired ==
  ASSUME StreamShape, Wired, Limits, NEW d \in Draft, NEW f \in Frames, Recorded(d, f),
         \A e \in Draft : buffer'[e].pending \ {Gone} \subseteq buffer[e].pending \cup subs[e],
         \A e \in Draft : buffer'[e] \in Buffers
  PROVE  Wired' /\ subs' \in [Draft -> SUBSET Conn]
<1>0. conn' = Published(d, f) /\ client' = client /\ draftOf' = draftOf
  BY DEF Recorded
<1>1. \A k \in Conn : /\ conn'[k].state = conn[k].state /\ conn'[k].of = conn[k].of
                      /\ conn'[k].broken = conn[k].broken
                      /\ k \notin subs[d] => conn'[k].closed = conn[k].closed
                      /\ k \in subs[d] => conn'[k].closed = (k \in Slow(d))
  BY <1>0, PublishedSound
<1>2. /\ subs' \in [Draft -> SUBSET Conn] /\ subs'[d] = subs[d] \ Slow(d)
      /\ \A e \in Draft : e # d => subs'[e] = subs[e]
  BY DEF Recorded, StreamShape
<1>3. ASSUME NEW k \in Conn, Open(k)'
      PROVE  /\ conn'[k].of \in Client
             /\ ~ conn'[k].broken => client'[conn'[k].of].conn = k
             /\ ~ conn'[k].closed => k \in subs'[Home(k)']
  <2>1. /\ Open(k) /\ conn[k].of \in Client /\ Home(k)' = Home(k) /\ Home(k) \in Draft
        /\ ~ conn[k].broken => client[conn[k].of].conn = k
        /\ ~ conn[k].closed => k \in subs[Home(k)]
    BY <1>0, <1>1, <1>3 DEF Wired, Open, Home, StreamShape
  <2>2. ~ conn'[k].closed => k \in subs'[Home(k)]
    <3>1. CASE k \in subs[d]
      <4>1. Home(k) = d  BY <3>1 DEF Wired
      <4> QED  BY <1>1, <1>2, <3>1, <4>1
    <3>2. CASE k \notin subs[d]
      BY <1>1, <1>2, <2>1, <3>2
    <3> QED  BY <3>1, <3>2
  <2> QED  BY <1>0, <1>1, <2>1, <2>2
<1>4. \A c \in Client : client'[c].conn # NoConn =>
         /\ Open(client[c].conn)' /\ conn'[client'[c].conn].of = c
         /\ ~ conn'[client'[c].conn].broken
  <2> SUFFICES ASSUME NEW c \in Client, client[c].conn # NoConn
               PROVE  /\ Open(client[c].conn)' /\ conn'[client[c].conn].of = c
                      /\ ~ conn'[client[c].conn].broken
    BY <1>0
  <2>1. client[c].conn \in Conn  BY DEF StreamShape, PageStates
  <2> QED  BY <1>0, <1>1, <2>1 DEF Wired, Open
<1>5. ASSUME NEW e \in Draft, NEW k \in subs'[e]
      PROVE  Open(k)' /\ ~ conn'[k].closed /\ Home(k)' = e
  <2>1. k \in subs[e] /\ k \in Conn /\ (e = d => k \notin Slow(d))  BY <1>2, <1>5 DEF StreamShape
  <2>2. Open(k) /\ ~ conn[k].closed /\ Home(k) = e  BY <2>1 DEF Wired
  <2>3. k \in subs[d] => e = d  BY <2>2 DEF Wired
  <2> QED  BY <1>0, <1>1, <2>1, <2>2, <2>3 DEF Open, Home
<1>6. ASSUME NEW e \in Draft, NEW k \in buffer'[e].pending \ {Gone}
      PROVE  Open(k)' /\ Home(k)' = e
  <2>1. k \in Conn  BY <1>6 DEF Buffers
  <2>2. Open(k) /\ Home(k) = e  BY <1>6, <2>1 DEF Wired
  <2> QED  BY <1>0, <1>1, <2>1, <2>2 DEF Open, Home
<1> HIDE DEF Recorded
<1> QED  BY <1>0, <1>2, <1>3, <1>4, <1>5, <1>6 DEF Wired

LEMMA RecordedTimely ==
  ASSUME StreamShape, Wired, Limits, Timely, NEW d \in Draft, NEW f \in Frames, Recorded(d, f),
         nextGen' \in Nat, nextGen <= nextGen', f.gen <= nextGen',
         \A e \in Draft : Upto(buffer'[e].events, nextGen') /\ buffer'[e].gen <= nextGen'
  PROVE  Timely'
<1>0. conn' = Published(d, f)
  BY DEF Recorded
<1>1. \A k \in Conn : /\ conn'[k].state = conn[k].state
                      /\ conn'[k].snap = conn[k].snap /\ conn'[k].ackGen = conn[k].ackGen
                      /\ k \notin subs[d] => conn'[k] = conn[k]
                      /\ k \in subs[d] =>
                           FramesOf(conn'[k].queue) \subseteq FramesOf(conn[k].queue) \cup {Gap, f}
  BY <1>0, PublishedSound
<1>2. Gap.gen = 0 /\ nextGen \in Nat  BY MarkTyped DEF StreamShape
<1>3. ASSUME NEW k \in Conn, Open(k)'
      PROVE  /\ Upto(conn'[k].snap, nextGen') /\ Upto(conn'[k].queue, nextGen')
             /\ conn'[k].ackGen <= nextGen'
  <2>1. Open(k)  BY <1>1, <1>3 DEF Open
  <2>2. conn[k].snap \in Seq(Frames) /\ conn[k].queue \in Seq(Frames) /\ conn[k].ackGen \in Nat
    BY DEF StreamShape, Handlers
  <2>3. /\ FramesOf(conn[k].snap) \subseteq Frames /\ FramesOf(conn[k].queue) \subseteq Frames
        /\ \A x \in Frames : x.gen \in Nat
    BY <2>2, SeqFrames DEF Frames
  <2>4. /\ Upto(conn[k].snap, nextGen) /\ Upto(conn[k].queue, nextGen)
        /\ conn[k].ackGen <= nextGen
    BY <2>1 DEF Timely
  <2>5. ASSUME NEW x \in Frames, x.gen <= nextGen
        PROVE  x.gen <= nextGen'
    <3>1. x.gen \in Nat  BY <2>3
    <3> QED  BY <1>2, <2>5, <3>1
  <2>6. Upto(conn'[k].snap, nextGen')
    BY <1>1, <2>3, <2>4, <2>5 DEF Upto
  <2>7. conn'[k].ackGen <= nextGen'
    BY <1>1, <1>2, <2>2, <2>4
  <2>8. Upto(conn'[k].queue, nextGen')
    <3>1. CASE k \notin subs[d]  BY <1>1, <2>3, <2>4, <2>5, <3>1 DEF Upto
    <3>2. CASE k \in subs[d]
      <4>1. 0 <= nextGen'  OBVIOUS
      <4> QED  BY <1>1, <1>2, <2>3, <2>4, <2>5, <3>2, <4>1 DEF Upto
    <3> QED  BY <3>1, <3>2
  <2> QED  BY <2>6, <2>7, <2>8
<1> QED  BY <1>3 DEF Timely

LEMMA RecordedRuns ==
  ASSUME StreamShape, Wired, Limits, NEW d \in Draft, NEW f \in Frames, Recorded(d, f),
         NEW c \in Client, WillRun(c)'
  PROVE  \/ WillRun(c)
         \/ f.type \in RunTypes /\ client[c].conn \in subs[d]
<1>0. conn' = Published(d, f) /\ client' = client  BY DEF Recorded
<1> DEFINE k == client[c].conn
<1>1. CASE client[c].running  BY <1>1 DEF WillRun
<1>2. CASE k # NoConn /\ (Live(conn'[k].snap) \/ Live(conn'[k].queue))
  <2>1. k \in Conn  BY <1>2 DEF StreamShape, PageStates
  <2>2. /\ conn'[k].snap = conn[k].snap
        /\ k \notin subs[d] => conn'[k] = conn[k]
        /\ k \in subs[d] =>
             FramesOf(conn'[k].queue) \subseteq FramesOf(conn[k].queue) \cup {Gap, f}
    BY <1>0, <2>1, PublishedSound
  <2>3. Gap.type \notin RunTypes  BY MarkTyped DEF RunTypes
  <2>4. Live(conn[k].snap) \/ Live(conn[k].queue) \/ (k \in subs[d] /\ f.type \in RunTypes)
    BY <1>2, <2>2, <2>3 DEF Live
  <2> QED  BY <1>2, <2>4 DEF WillRun
<1> QED  BY <1>0, <1>1, <1>2 DEF WillRun

\* A draft of which nothing was recorded.
LEMMA Elsewhere ==
  ASSUME StreamShape, Wired, Limits, NEW d \in Draft, NEW f \in Frames, Recorded(d, f),
         NEW c \in Client, draftOf[c] # d, WillRun(c)'
  PROVE  WillRun(c)
<1>1. client[c].conn \in subs[d] => draftOf[c] = d
  <2> SUFFICES ASSUME client[c].conn \in subs[d] PROVE draftOf[c] = d
    OBVIOUS
  <2>1. client[c].conn \in Conn  BY DEF StreamShape
  <2>2. client[c].conn # NoConn  BY <2>1, NullAssumption
  <2> QED  BY <2>2 DEF Wired, Home
<1> QED  BY <1>1, RecordedRuns

\* Clients of a draft's streams are clients.
LEMMA ClientsTyped ==
  ASSUME StreamShape, Wired, NEW d \in Draft
  PROVE  ClientsOf(subs[d]) \subseteq Client /\ ClientsOf(Slow(d)) \subseteq ClientsOf(subs[d])
         /\ Slow(d) \subseteq subs[d] /\ subs[d] \subseteq Conn
<1>1. subs[d] \subseteq Conn /\ Slow(d) \subseteq subs[d]  BY DEF StreamShape, Slow
<1>2. \A k \in subs[d] : conn[k].of \in Client  BY <1>1 DEF Wired
<1> QED  BY <1>1, <1>2 DEF ClientsOf

LEMMA ToldNext ==
  ASSUME NEW c \in Client, draftOf' = draftOf, NEW e, e = draftOf[c],
         WillRun(c)' /\ c \notin dropped' =>
           IF Quiet(e)' THEN buffer'[e].gen # 0
                /\ c \in failed'[e] \cup {conn'[k].of : k \in buffer'[e].pending \ {Gone}}
           ELSE c \in failed'[e] \cup {conn'[k].of : k \in subs'[e]}
  PROVE  Told(c)'
BY DEF Told, Watching, Awaited, ClientsOf, Quiet, Going

\* A client of a draft to which nothing happened, or whose terminal was given up.
LEMMA ToldStays ==
  ASSUME StreamShape, Wired, BuffersSound, AllTold, draftOf' = draftOf,
         NEW c \in Client, NEW e, e = draftOf[c],
         WillRun(c)' => WillRun(c), dropped \subseteq dropped',
         Quiet(e)' = Quiet(e), subs[e] \subseteq subs'[e],
         \A k \in Conn : k \in subs[e] \cup buffer[e].pending => conn'[k].of = conn[k].of,
         \/ buffer'[e] = buffer[e] /\ failed'[e] = failed[e]
         \/ /\ buffer[e].gen # 0 /\ buffer[e].pending = {}
            /\ buffer[e].failed \cup failed[e] \subseteq dropped'
  PROVE  Told(c)'
<1> SUFFICES ASSUME WillRun(c)', c \notin dropped'
             PROVE  IF Quiet(e)'
                    THEN buffer'[e].gen # 0
                         /\ c \in failed'[e] \cup {conn'[k].of : k \in buffer'[e].pending \ {Gone}}
                    ELSE c \in failed'[e] \cup {conn'[k].of : k \in subs'[e]}
  BY ToldNext
<1>1. /\ e \in Draft /\ subs[e] \subseteq Conn
      /\ buffer[e].pending \ {Gone} \subseteq Conn
  BY DEF StreamShape, Buffers
<1>2. IF Quiet(e) THEN buffer[e].gen # 0 /\ c \in Awaited(e) ELSE c \in Watching(e)
  BY DEF AllTold, Told
<1>3. CASE Quiet(e)
  <2>1. /\ buffer[e].gen # 0
        /\ c \in failed[e] \/ \E k \in buffer[e].pending \ {Gone} : conn[k].of = c
    BY <1>2, <1>3 DEF Awaited
  <2>2. buffer'[e] = buffer[e] /\ failed'[e] = failed[e]
    BY <2>1
  <2> QED  BY <1>1, <1>3, <2>1, <2>2
<1>4. CASE ~ Quiet(e)
  <2>1. c \in failed[e] \/ \E k \in subs[e] : conn[k].of = c
    BY <1>2, <1>4 DEF Watching, ClientsOf
  <2> QED  BY <1>1, <1>4, <2>1
<1> QED  BY <1>3, <1>4

\* A page whose connection stays as it is.
LEMMA EndsStays ==
  ASSUME AllEnd, draftOf' = draftOf, NEW c \in Client, NEW e, e = draftOf[c],
         WillRun(c)' => WillRun(c), dropped \subseteq dropped', Quiet(e)' => Quiet(e),
         client'[c].conn = client[c].conn,
         client[c].conn \in subs'[e] => client[c].conn \in subs[e],
         client[c].conn \in subs[e] =>
           /\ conn'[client[c].conn].queue = conn[client[c].conn].queue
           /\ conn'[client[c].conn].snap = conn[client[c].conn].snap
  PROVE  EndsLast(c)'
<1> SUFFICES ASSUME Quiet(e)', c \notin dropped', WillRun(c)', client'[c].conn \in subs'[e]
             PROVE  IF conn'[client'[c].conn].queue # <<>>
                    THEN Ends(conn'[client'[c].conn].queue)
                    ELSE Ends(conn'[client'[c].conn].snap)
  BY DEF EndsLast, Ends, Quiet, Going
<1>1. Quiet(e) /\ c \notin dropped /\ WillRun(c) /\ client[c].conn \in subs[e]
  OBVIOUS
<1>2. IF conn[client[c].conn].queue # <<>> THEN Ends(conn[client[c].conn].queue)
      ELSE Ends(conn[client[c].conn].snap)
  BY <1>1 DEF AllEnd, EndsLast
<1> QED  BY <1>1, <1>2 DEF Ends


\* Pages of the other drafts, when something is recorded of one.
LEMMA ElsewhereStays ==
  ASSUME StreamShape, Wired, Limits, BuffersSound, AllTold, AllEnd,
         NEW d \in Draft, NEW f \in Frames, Recorded(d, f),
         NEW c \in Client, draftOf[c] # d, NEW e, e = draftOf[c],
         dropped \subseteq dropped', Quiet(e)' = Quiet(e),
         \/ buffer'[e] = buffer[e] /\ failed'[e] = failed[e]
         \/ /\ buffer[e].gen # 0 /\ buffer[e].pending = {}
            /\ buffer[e].failed \cup failed[e] \subseteq dropped'
  PROVE  Told(c)' /\ EndsLast(c)'
<1>1. /\ conn' = Published(d, f) /\ client' = client /\ draftOf' = draftOf
      /\ e \in Draft /\ subs'[e] = subs[e]
  BY DEF Recorded, StreamShape
<1>2. WillRun(c)' => WillRun(c)  BY Elsewhere
<1>3. \A k \in Conn : conn'[k].of = conn[k].of /\ (k \notin subs[d] => conn'[k] = conn[k])
  BY <1>1, PublishedSound
<1>4. Told(c)'
  BY <1>1, <1>2, <1>3, ToldStays
<1>5. client[c].conn \in subs[e] => conn'[client[c].conn] = conn[client[c].conn]
  <2> SUFFICES ASSUME client[c].conn \in subs[e]
               PROVE  conn'[client[c].conn] = conn[client[c].conn]
    OBVIOUS
  <2>1. client[c].conn \in Conn  BY <1>1 DEF StreamShape
  <2>2. client[c].conn \notin subs[d]  BY <1>1 DEF Wired
  <2> QED  BY <1>3, <2>1, <2>2
<1>6. EndsLast(c)'
  BY <1>1, <1>2, <1>5, EndsStays
<1> QED  BY <1>4, <1>6

\* Drafts whose turns stay as they are.
LEMMA QuietStays ==
  ASSUME NEW e, turns'[e] = turns[e], (e \in silent') = (e \in silent)
  PROVE  Quiet(e)' = Quiet(e)
BY DEF Quiet, Going

LEMMA StartedKeeps ==
  ASSUME StreamInvariant, NEW d \in Draft, TurnStarted(d)
  PROVE  StreamInvariant'
<1> USE DEF StreamInvariant
<1> DEFINE f == Frame("started")
           new == [EmptyBuffer EXCEPT !.events = <<f>>]
<1>2. f \in Frames /\ f.type = "started" /\ f.gen = 0
  BY FrameTyped DEF RunTypes
<1>3. /\ turns' = [turns EXCEPT ![d].begun = @ + 1, ![d].current = TRUE,
                                 ![d].active = TRUE, ![d].frames = 0]
      /\ buffer' = [buffer EXCEPT ![d] = new]
      /\ failed' = [failed EXCEPT ![d] = ClientsOf(Slow(d))]
      /\ dropped' = dropped \cup (failed[d] \ ClientsOf(subs[d]))
      /\ Recorded(d, f) /\ nextGen' = nextGen /\ silent' = silent \ {d}
  BY DEF TurnStarted, Recorded
<1>5. <<f>> \in Seq(Frames) /\ Len(<<f>>) = 1 /\ FramesOf(<<f>>) = {f}
  BY <1>2, OneFrame
<1> HIDE DEF f
<1>4. conn' = Published(d, f) /\ client' = client /\ draftOf' = draftOf
      /\ subs' = [subs EXCEPT ![d] = @ \ Slow(d)]
  BY <1>3 DEF Recorded
<1>6. /\ new \in Buffers /\ new.events = <<f>> /\ new.gen = 0 /\ new.pending = {}
      /\ new.failed = {}
  BY <1>5 DEF EmptyBuffer, Buffers
<1> HIDE DEF new
<1>7. /\ buffer' \in [Draft -> Buffers] /\ buffer'[d] = new
      /\ \A e \in Draft : e # d => buffer'[e] = buffer[e]
  BY <1>3, <1>6 DEF StreamShape
<1>8. /\ turns' \in [Draft -> TurnCounts] /\ turns'[d].current
      /\ \A e \in Draft : e # d => turns'[e] = turns[e]
  <2>1. turns[d] \in TurnCounts /\ turns[d].begun + 1 \in Nat  BY DEF StreamShape, TurnCounts
  <2> DEFINE t == [turns[d] EXCEPT !.begun = @ + 1, !.current = TRUE, !.active = TRUE,
                                   !.frames = 0]
  <2>2. t \in TurnCounts /\ t.current  BY <2>1 DEF TurnCounts
  <2> QED  BY <1>3, <2>2 DEF StreamShape, TurnCounts
<1>9. /\ subs'[d] = subs[d] \ Slow(d) /\ failed'[d] = ClientsOf(Slow(d))
      /\ \A e \in Draft : e # d => subs'[e] = subs[e] /\ failed'[e] = failed[e]
  BY <1>3, <1>4 DEF StreamShape
<1>10. /\ ClientsOf(subs[d]) \subseteq Client /\ ClientsOf(Slow(d)) \subseteq Client
       /\ Slow(d) \subseteq subs[d] /\ subs[d] \subseteq Conn
  BY ClientsTyped
<1>0. ~ Quiet(d)' /\ \A e \in Draft : e # d => Quiet(e)' = Quiet(e)
  <2>1. ~ Quiet(d)'  BY <1>8 DEF Quiet, Going
  <2>2. \A e \in Draft : e # d => (e \in silent') = (e \in silent)  BY <1>3
  <2> QED  BY <1>8, <2>1, <2>2, QuietStays
<1>11. Wired' /\ subs' \in [Draft -> SUBSET Conn]
  <2>1. \A e \in Draft : buffer'[e].pending \ {Gone} \subseteq buffer[e].pending \cup subs[e]
    BY <1>6, <1>7
  <2>2. \A e \in Draft : buffer'[e] \in Buffers  BY <1>7
  <2> QED  BY <1>2, <1>3, <2>1, <2>2, RecordedWired
<1>12. /\ conn' \in [Conn -> Handlers]
       /\ \A k \in Conn :
            /\ conn'[k].state = conn[k].state /\ conn'[k].of = conn[k].of
            /\ conn'[k].snap = conn[k].snap /\ conn'[k].ackGen = conn[k].ackGen
            /\ Len(conn'[k].queue) <= QueueLimit
            /\ k \notin subs[d] => conn'[k] = conn[k]
  BY <1>2, <1>4, PublishedSound
<1>13. StreamShape'
  <2>1. failed' \in [Draft -> SUBSET Client] /\ dropped' \subseteq Client
    BY <1>3, <1>10 DEF StreamShape
  <2> QED  BY <1>3, <1>4, <1>7, <1>8, <1>11, <1>12, <2>1 DEF StreamShape
<1>14. Limits'
  <2>1. \A e \in Draft : Len(buffer'[e].events) <= BufferLimit
    <3>1. 1 <= BufferLimit  BY TurnStreamAssumption
    <3> QED  BY <1>5, <1>6, <1>7, <3>1 DEF Limits
  <2>2. Waiting(buffer') \subseteq Waiting(buffer)
    BY <1>6, <1>7 DEF Waiting
  <2>3. Cardinality(Waiting(buffer')) <= RecoveryLimit
    BY <2>2, WaitingFinite DEF Limits
  <2> QED  BY <1>12, <2>1, <2>3 DEF Limits
<1>15. Timely'
  <2>2. nextGen \in Nat /\ nextGen <= nextGen' /\ nextGen' \in Nat /\ 0 <= nextGen'
    BY <1>3 DEF StreamShape
  <2>4. \A e \in Draft : Upto(buffer'[e].events, nextGen') /\ buffer'[e].gen <= nextGen'
    BY <1>2, <1>3, <1>5, <1>6, <1>7, <2>2 DEF Timely, Upto
  <2> QED  BY <1>2, <1>3, <2>2, <2>4, RecordedTimely
<1>16. BuffersSound'
  <2>1. ASSUME NEW e \in Draft PROVE BufferSound(e)'
    <3>1. CASE e = d
      BY <1>0, <1>2, <1>5, <1>6, <1>7, <3>1 DEF BufferSound
    <3>2. CASE e # d
      <4>1. BufferSound(e)  BY DEF BuffersSound
      <4> QED  BY <1>0, <1>7, <1>8, <1>9, <3>2, <4>1 DEF BufferSound
    <3> QED  BY <3>1, <3>2
  <2>2. Distinct'
    BY <1>6, <1>7 DEF BuffersSound, Distinct
  <2> QED  BY <2>1, <2>2 DEF BuffersSound
<1>17. StreamsSound'
  <2> SUFFICES ASSUME NEW k \in Conn, Open(k)' PROVE StreamSound(k)'
    BY DEF StreamsSound
  <2>1. Open(k) /\ Home(k)' = Home(k) /\ Home(k) \in Draft
    BY <1>4, <1>12 DEF Open, Home, Wired, StreamShape
  <2>2. StreamSound(k)  BY <2>1 DEF StreamsSound
  <2>3. CASE Home(k) = d
    BY <1>0, <1>6, <1>7, <1>12, <2>1, <2>2, <2>3 DEF StreamSound
  <2>4. CASE Home(k) # d
    <3>1. k \notin subs[d]  BY <2>4 DEF Wired
    <3> QED  BY <1>0, <1>7, <1>12, <2>1, <2>2, <2>4, <3>1 DEF StreamSound
  <2> QED  BY <2>3, <2>4
<1>18. ASSUME NEW c \in Client PROVE Told(c)' /\ EndsLast(c)'
  <2>0. draftOf[c] \in Draft /\ (\A k \in Conn : conn'[k].of = conn[k].of)
        /\ dropped \subseteq dropped'
    BY <1>3, <1>12 DEF StreamShape
  <2>1. CASE draftOf[c] = d
    <3>0. EndsLast(c)'  BY <1>0, <1>4, <2>1 DEF EndsLast, Quiet, Going
    <3> SUFFICES ASSUME WillRun(c)', c \notin dropped'
                 PROVE  c \in failed'[d] \cup {conn'[k].of : k \in subs'[d]}
      BY <1>0, <1>4, <2>1, <3>0, ToldNext
    <3>1. c \in ClientsOf(subs[d])
      <4>1. CASE WillRun(c)
        <5>1. /\ Quiet(d) => c \in Awaited(d)
              /\ ~ Quiet(d) => c \in Watching(d)
          BY <2>0, <2>1, <4>1 DEF AllTold, Told
        <5>2. CASE c \in failed[d]  BY <1>3, <5>2
        <5>3. CASE Quiet(d) /\ c \notin failed[d]
          <6>1. buffer[d].pending \subseteq subs[d]  BY <5>3 DEF BuffersSound, BufferSound
          <6> QED  BY <5>1, <5>3, <6>1 DEF ClientsOf, Awaited
        <5> QED  BY <5>1, <5>2, <5>3 DEF Watching
      <4>2. CASE client[c].conn \in subs[d]
        <5>1. client[c].conn \in Conn /\ client[c].conn # NoConn
          BY <1>10, <4>2, NullAssumption
        <5>2. conn[client[c].conn].of = c  BY <5>1 DEF Wired
        <5> QED  BY <4>2, <5>2 DEF ClientsOf
      <4> QED  BY <1>2, <1>3, <4>1, <4>2, RecordedRuns
    <3>2. PICK k \in subs[d] : conn[k].of = c  BY <3>1 DEF ClientsOf
    <3>3. CASE k \in Slow(d)  BY <1>9, <3>2, <3>3 DEF ClientsOf
    <3>4. CASE k \notin Slow(d)
      <4>1. k \in subs'[d] /\ conn'[k].of = c  BY <1>9, <1>10, <2>0, <3>2, <3>4
      <4> QED  BY <4>1
    <3> QED  BY <3>3, <3>4
  <2>2. CASE draftOf[c] # d
    BY <1>0, <1>2, <1>3, <1>7, <1>9, <2>0, <2>2, ElsewhereStays
  <2> QED  BY <2>1, <2>2
<1> QED  BY <1>11, <1>13, <1>14, <1>15, <1>16, <1>17, <1>18 DEF AllTold, AllEnd

\* A turn that stops silently, or is abandoned, changes nothing for the streams.
LEMMA TurnLeftKeeps ==
  ASSUME StreamInvariant, NEW d \in Draft, RunFails(d) \/ Abandon(d)
  PROVE  StreamInvariant'
<1> USE DEF StreamInvariant
<1>1. /\ turns[d].current /\ turns[d] \in TurnCounts
      /\ UNCHANGED <<draftOf, buffer, subs, failed, nextGen, dropped, conn, client>>
  BY DEF RunFails, Abandon, StreamShape
<1>2. /\ turns' \in [Draft -> TurnCounts]
      /\ \A e \in Draft : e # d => turns'[e] = turns[e]
      /\ turns'[d].late > 0 \/ d \in silent'
      /\ \A e \in Draft : e # d => (e \in silent') = (e \in silent)
  <2>1. CASE RunFails(d)
    <3>1. [turns[d] EXCEPT !.current = FALSE] \in TurnCounts  BY <1>1 DEF TurnCounts
    <3> QED  BY <2>1, <3>1 DEF RunFails, StreamShape
  <2>2. CASE Abandon(d)
    <3> DEFINE t == [turns[d] EXCEPT !.current = FALSE, !.late = @ + 1]
    <3>1. turns[d].late \in Nat  BY <1>1 DEF TurnCounts
    <3>2. turns[d].late + 1 \in Nat /\ turns[d].late + 1 > 0  BY <3>1
    <3>3. t \in TurnCounts /\ t.late > 0  BY <1>1, <3>2 DEF TurnCounts
    <3>4. turns' = [turns EXCEPT ![d] = t] /\ silent' = silent  BY <2>2 DEF Abandon
    <3> HIDE DEF t
    <3> QED  BY <3>3, <3>4 DEF StreamShape
  <2> QED  BY <2>1, <2>2
<1>3. \A e \in Draft : Quiet(e)' = Quiet(e)
  <2>1. ~ Quiet(d) /\ ~ Quiet(d)'  BY <1>1, <1>2 DEF Quiet, Going
  <2>2. ASSUME NEW e \in Draft, e # d PROVE Quiet(e)' = Quiet(e)
    BY <1>2, <2>2, QuietStays
  <2>3. Quiet(d)' = Quiet(d)
    <3> DEFINE q == Quiet(d)
    <3>1. q \in BOOLEAN /\ q' \in BOOLEAN  BY DEF Quiet
    <3> HIDE DEF q
    <3> QED  BY <2>1, <3>1 DEF q
  <2> QED  BY <2>2, <2>3
<1>4. StreamShape'  BY <1>1, <1>2 DEF StreamShape
<1>5. Wired' /\ Limits' /\ Timely'
  BY <1>1 DEF Wired, Limits, Timely, Open, Home, Upto, FramesOf, Waiting
<1>6. BuffersSound'
  <2>1. ASSUME NEW e \in Draft PROVE BufferSound(e)'
    <3>1. BufferSound(e)  BY DEF BuffersSound
    <3>2. Quiet(e)' => turns'[e] = turns[e]  BY <1>1, <1>2, <1>3 DEF Quiet, Going
    <3> QED  BY <1>1, <1>3, <3>1, <3>2 DEF BufferSound
  <2>2. Distinct'  BY <1>1 DEF BuffersSound, Distinct
  <2> QED  BY <2>1, <2>2 DEF BuffersSound
<1>7. StreamsSound'
  <2> SUFFICES ASSUME NEW k \in Conn, Open(k)' PROVE StreamSound(k)'
    BY DEF StreamsSound
  <2>1. Open(k) /\ Home(k)' = Home(k) /\ Home(k) \in Draft
    BY <1>1 DEF Open, Home, Wired, StreamShape
  <2>2. StreamSound(k)  BY <2>1 DEF StreamsSound
  <2> QED  BY <1>1, <1>3, <2>1, <2>2 DEF StreamSound
<1>8. ASSUME NEW c \in Client PROVE Told(c)' /\ EndsLast(c)'
  <2>1. draftOf[c] \in Draft  BY DEF StreamShape
  <2>2. WillRun(c)' => WillRun(c)  BY <1>1 DEF WillRun
  <2> QED  BY <1>1, <1>3, <2>1, <2>2, ToldStays, EndsStays
<1> QED  BY <1>4, <1>5, <1>6, <1>7, <1>8 DEF AllTold, AllEnd

LEMMA FrameKeeps ==
  ASSUME StreamInvariant, NEW d \in Draft, NEW type \in {"delta", "step", "note"},
         TurnFrame(d, type)
  PROVE  StreamInvariant'
<1> USE DEF StreamInvariant
<1> DEFINE f == Frame(type)
           old == [buffer[d] EXCEPT !.events = Append(buffer[d].events, f)]
           new == Truncated(old)
<1>2. f \in Frames /\ f.gen = 0
  BY FrameTyped DEF RunTypes
<1>3. /\ turns' = [turns EXCEPT ![d].frames = @ + 1]
      /\ buffer' = [buffer EXCEPT ![d] = new]
      /\ failed' = [failed EXCEPT ![d] = @ \cup ClientsOf(Slow(d))]
      /\ dropped' = dropped /\ silent' = silent /\ Going(d)
      /\ Recorded(d, f) /\ nextGen' = nextGen
  BY DEF TurnFrame, Recorded
<1> HIDE DEF f
<1>4. conn' = Published(d, f) /\ client' = client /\ draftOf' = draftOf
      /\ subs' = [subs EXCEPT ![d] = @ \ Slow(d)]
  BY <1>3 DEF Recorded
<1>5. /\ buffer[d] \in Buffers /\ buffer[d].events \in Seq(Frames)
      /\ Len(buffer[d].events) <= BufferLimit
  BY DEF StreamShape, Limits, Buffers
<1>6. /\ Append(buffer[d].events, f) \in Seq(Frames)
      /\ Len(Append(buffer[d].events, f)) = Len(buffer[d].events) + 1
      /\ FramesOf(Append(buffer[d].events, f)) = FramesOf(buffer[d].events) \cup {f}
  BY <1>2, <1>5, Appended
<1>7. /\ old \in Buffers /\ old.events = Append(buffer[d].events, f)
      /\ old.gen = buffer[d].gen /\ old.pending = buffer[d].pending
      /\ old.failed = buffer[d].failed
  BY <1>5, <1>6 DEF Buffers
<1>8. Len(old.events) <= BufferLimit + 1
  BY <1>5, <1>6, <1>7, SeqFrames, TurnStreamAssumption
<1> HIDE DEF old
<1>9. /\ new \in Buffers /\ new.gen = buffer[d].gen /\ new.pending = buffer[d].pending
      /\ new.failed = buffer[d].failed /\ Len(new.events) <= BufferLimit
      /\ FramesOf(new.events) \subseteq FramesOf(buffer[d].events) \cup {f, Marker}
  BY <1>6, <1>7, <1>8, TruncatedSound
<1> HIDE DEF new
<1>10. /\ buffer' \in [Draft -> Buffers] /\ buffer'[d] = new
       /\ \A e \in Draft : e # d => buffer'[e] = buffer[e]
  BY <1>3, <1>9 DEF StreamShape
<1>11. /\ turns' \in [Draft -> TurnCounts]
       /\ turns'[d].current = turns[d].current /\ turns'[d].late = turns[d].late
       /\ \A e \in Draft : e # d => turns'[e] = turns[e]
  <2>1. turns[d] \in TurnCounts /\ turns[d].frames + 1 \in Nat  BY DEF StreamShape, TurnCounts
  <2>2. [turns[d] EXCEPT !.frames = @ + 1] \in TurnCounts  BY <2>1 DEF TurnCounts
  <2> QED  BY <1>3, <2>1, <2>2 DEF StreamShape, TurnCounts
<1>0. ~ Quiet(d) /\ ~ Quiet(d)' /\ \A e \in Draft : e # d => Quiet(e)' = Quiet(e)
  <2>1. ~ Quiet(d) /\ ~ Quiet(d)'  BY <1>3, <1>11 DEF Quiet, Going
  <2> QED  BY <1>3, <1>11, <2>1, QuietStays
<1>12. /\ subs'[d] = subs[d] \ Slow(d) /\ failed'[d] = failed[d] \cup ClientsOf(Slow(d))
       /\ \A e \in Draft : e # d => subs'[e] = subs[e] /\ failed'[e] = failed[e]
  BY <1>3, <1>4 DEF StreamShape
<1>13. /\ ClientsOf(Slow(d)) \subseteq Client
       /\ Slow(d) \subseteq subs[d] /\ subs[d] \subseteq Conn
  BY ClientsTyped
<1>14. BufferSound(d)
  BY DEF BuffersSound
<1>15. Wired' /\ subs' \in [Draft -> SUBSET Conn]
  <2>1. \A e \in Draft : buffer'[e].pending \ {Gone} \subseteq buffer[e].pending \cup subs[e]
    BY <1>9, <1>10
  <2>2. \A e \in Draft : buffer'[e] \in Buffers  BY <1>10
  <2> QED  BY <1>2, <1>3, <2>1, <2>2, RecordedWired
<1>16. /\ conn' \in [Conn -> Handlers]
       /\ \A k \in Conn :
            /\ conn'[k].state = conn[k].state /\ conn'[k].of = conn[k].of
            /\ conn'[k].snap = conn[k].snap /\ conn'[k].ackGen = conn[k].ackGen
            /\ Len(conn'[k].queue) <= QueueLimit
            /\ k \notin subs[d] => conn'[k] = conn[k]
  BY <1>2, <1>4, PublishedSound
<1>17. StreamShape'
  <2>1. failed' \in [Draft -> SUBSET Client]
    BY <1>3, <1>13 DEF StreamShape
  <2> QED  BY <1>3, <1>4, <1>10, <1>11, <1>15, <1>16, <2>1 DEF StreamShape
<1>18. Limits'
  <2>1. \A e \in Draft : Len(buffer'[e].events) <= BufferLimit
    BY <1>9, <1>10 DEF Limits
  <2>2. Waiting(buffer') \subseteq Waiting(buffer)
    BY <1>9, <1>10 DEF Waiting
  <2>3. Cardinality(Waiting(buffer')) <= RecoveryLimit
    BY <2>2, WaitingFinite DEF Limits
  <2> QED  BY <1>16, <2>1, <2>3 DEF Limits
<1>19. Timely'
  <2>2. nextGen \in Nat /\ nextGen <= nextGen' /\ nextGen' \in Nat /\ 0 <= nextGen'
    BY <1>3 DEF StreamShape
  <2>4. \A e \in Draft : Upto(buffer'[e].events, nextGen') /\ buffer'[e].gen <= nextGen'
    <3> SUFFICES ASSUME NEW e \in Draft
                 PROVE  Upto(buffer'[e].events, nextGen') /\ buffer'[e].gen <= nextGen'
      OBVIOUS
    <3>1. CASE e = d
      <4>1. Upto(buffer[d].events, nextGen') /\ buffer[d].gen <= nextGen'
        BY <1>3 DEF Timely
      <4>2. Marker.gen = 0  BY MarkTyped
      <4> QED  BY <1>2, <1>9, <1>10, <2>2, <3>1, <4>1, <4>2 DEF Upto
    <3>2. CASE e # d  BY <1>3, <1>10, <3>2 DEF Timely
    <3> QED  BY <3>1, <3>2
  <2> QED  BY <1>2, <1>3, <2>2, <2>4, RecordedTimely
<1>20. BuffersSound'
  <2>1. ASSUME NEW e \in Draft PROVE BufferSound(e)'
    <3>1. CASE e = d
      <4>1. \A x \in FramesOf(new.events) : x.gen \in {0, new.gen}
        BY <1>2, <1>9, <1>14, MarkTyped DEF BufferSound
      <4> QED  BY <1>0, <1>9, <1>10, <1>14, <3>1, <4>1 DEF BufferSound
    <3>2. CASE e # d
      <4>1. BufferSound(e)  BY DEF BuffersSound
      <4> QED  BY <1>0, <1>10, <1>11, <1>12, <3>2, <4>1 DEF BufferSound
    <3> QED  BY <3>1, <3>2
  <2>2. Distinct'
    BY <1>9, <1>10 DEF BuffersSound, Distinct
  <2> QED  BY <2>1, <2>2 DEF BuffersSound
<1>21. StreamsSound'
  <2> SUFFICES ASSUME NEW k \in Conn, Open(k)' PROVE StreamSound(k)'
    BY DEF StreamsSound
  <2>1. Open(k) /\ Home(k)' = Home(k) /\ Home(k) \in Draft
    BY <1>4, <1>16 DEF Open, Home, Wired, StreamShape
  <2>2. StreamSound(k)  BY <2>1 DEF StreamsSound
  <2>3. CASE Home(k) = d
    BY <1>0, <1>9, <1>10, <1>16, <2>1, <2>2, <2>3 DEF StreamSound
  <2>4. CASE Home(k) # d
    <3>1. k \notin subs[d]  BY <2>4 DEF Wired
    <3> QED  BY <1>0, <1>10, <1>16, <2>1, <2>2, <2>4, <3>1 DEF StreamSound
  <2> QED  BY <2>3, <2>4
<1>22. ASSUME NEW c \in Client PROVE Told(c)' /\ EndsLast(c)'
  <2>0. draftOf[c] \in Draft /\ (\A k \in Conn : conn'[k].of = conn[k].of)
        /\ dropped \subseteq dropped'
    BY <1>3, <1>16 DEF StreamShape
  <2>1. CASE draftOf[c] = d
    <3>0. EndsLast(c)'  BY <1>0, <1>4, <2>1 DEF EndsLast, Quiet, Going
    <3> SUFFICES ASSUME WillRun(c)', c \notin dropped'
                 PROVE  c \in failed'[d] \cup {conn'[k].of : k \in subs'[d]}
      BY <1>0, <1>4, <2>1, <3>0, ToldNext
    <3>1. c \in failed[d] \/ c \in ClientsOf(subs[d])
      <4>1. CASE WillRun(c)
        BY <1>0, <1>3, <2>0, <2>1, <4>1 DEF AllTold, Told, Watching
      <4>2. CASE client[c].conn \in subs[d]
        <5>1. client[c].conn \in Conn /\ client[c].conn # NoConn
          BY <1>13, <4>2, NullAssumption
        <5>2. conn[client[c].conn].of = c  BY <5>1 DEF Wired
        <5> QED  BY <4>2, <5>2 DEF ClientsOf
      <4> QED  BY <1>2, <1>3, <4>1, <4>2, RecordedRuns
    <3>2. CASE c \in failed[d]  BY <1>12, <3>2
    <3>3. CASE c \in ClientsOf(subs[d])
      <4>1. PICK k \in subs[d] : conn[k].of = c  BY <3>3 DEF ClientsOf
      <4>2. CASE k \in Slow(d)  BY <1>12, <4>1, <4>2 DEF ClientsOf
      <4>3. CASE k \notin Slow(d)
        <5>1. k \in subs'[d] /\ conn'[k].of = c  BY <1>12, <1>13, <2>0, <4>1, <4>3
        <5> QED  BY <5>1
      <4> QED  BY <4>2, <4>3
    <3> QED  BY <3>1, <3>2, <3>3
  <2>2. CASE draftOf[c] # d
    BY <1>0, <1>2, <1>3, <1>10, <1>12, <2>0, <2>2, ElsewhereStays
  <2> QED  BY <2>1, <2>2
<1> QED  BY <1>15, <1>17, <1>18, <1>19, <1>20, <1>21, <1>22 DEF AllTold, AllEnd

\* A terminal, of the draft's current turn or of one that was abandoned.
LEMMA TerminalKeeps ==
  ASSUME StreamInvariant, NEW d \in Draft, Going(d), Terminal(d),
         turns' \in [Draft -> TurnCounts], ~ turns'[d].active,
         \A e \in Draft : e # d => turns'[e] = turns[e]
  PROVE  StreamInvariant'
<1> USE DEF StreamInvariant
<1> DEFINE keep == subs[d] # {} \/ failed[d] # {}
           g == IF keep THEN nextGen + 1 ELSE 0
           f == [Frame("ended") EXCEPT !.gen = g]
           clients == [failed EXCEPT ![d] = @ \cup ClientsOf(Slow(d))]
           P == subs[d] \ Slow(d)
           new == IF keep THEN RecoveryBuffer(f, P, clients[d]) ELSE EmptyBuffer
           b == [buffer EXCEPT ![d] = new]
<1>1. nextGen \in Nat  BY DEF StreamShape
<1>2. g \in Nat /\ (keep => g = nextGen + 1) /\ (~ keep => g = 0)
  BY <1>1
<1>3. /\ nextGen' = IF keep THEN nextGen + 1 ELSE nextGen
      /\ Enforced(b, clients, {})
      /\ Recorded(d, f) /\ silent' = silent \ {d}
  BY DEF Terminal, Recorded
<1> HIDE DEF g
<1>4. f \in Frames /\ f.type = "ended" /\ f.gen = g
  BY <1>2, EndTyped
<1> HIDE DEF f
<1>5. conn' = Published(d, f) /\ client' = client /\ draftOf' = draftOf
      /\ subs' = [subs EXCEPT ![d] = @ \ Slow(d)]
  BY <1>3 DEF Recorded
<1>6. /\ ClientsOf(subs[d]) \subseteq Client /\ ClientsOf(Slow(d)) \subseteq ClientsOf(subs[d])
      /\ Slow(d) \subseteq subs[d] /\ subs[d] \subseteq Conn
  BY ClientsTyped
<1>7. /\ clients \in [Draft -> SUBSET Client]
      /\ clients[d] = failed[d] \cup ClientsOf(Slow(d)) /\ P \subseteq Conn
      /\ \A e \in Draft : e # d => clients[e] = failed[e]
  BY <1>6 DEF StreamShape
<1> HIDE DEF clients, P
<1>8. /\ new \in Buffers /\ new.gen = g /\ Len(new.events) <= BufferLimit
      /\ new.pending = (IF keep THEN P ELSE {}) /\ new.failed = (IF keep THEN clients[d] ELSE {})
      /\ g # 0 => Ends(new.events)
      /\ \A x \in FramesOf(new.events) : x.type \notin RunTypes /\ x.gen \in {0, g}
  <2>1. CASE keep
    <3>1. new = RecoveryBuffer(f, P, clients[d])  BY <2>1
    <3> HIDE DEF keep, new
    <3>2. P \in SUBSET (Conn \cup {Gone}) /\ clients[d] \in SUBSET Client  BY <1>7
    <3>3. /\ new \in Buffers /\ new.gen = f.gen /\ new.pending = P /\ new.failed = clients[d]
          /\ Ends(new.events) /\ Len(new.events) <= BufferLimit
          /\ \A e \in FramesOf(new.events) : e.type \in {"gap", "ended"} /\ e.gen \in {0, f.gen}
      BY <1>4, <3>1, <3>2, RecoveryBufferSound
    <3>4. "gap" \notin RunTypes /\ "ended" \notin RunTypes  BY DEF RunTypes
    <3> QED  BY <1>4, <2>1, <3>3, <3>4
  <2>2. CASE ~ keep
    <3>1. new = EmptyBuffer /\ g = 0  BY <1>2, <2>2
    <3>2. Len(EmptyBuffer.events) = 0 /\ FramesOf(EmptyBuffer.events) = {} /\ BufferLimit \in Nat
      BY EmptyBufferTyped, EmptyFrames, TurnStreamAssumption
    <3> HIDE DEF keep, new
    <3> QED  BY <2>2, <3>1, <3>2, EmptyBufferTyped
  <2> QED  BY <2>1, <2>2
<1> HIDE DEF new
<1>9. /\ b \in [Draft -> Buffers] /\ b[d] = new
      /\ \A e \in Draft : e # d => b[e] = buffer[e]
  BY <1>8 DEF StreamShape
<1>10. \A e, h \in Draft : b[e].gen = b[h].gen /\ b[e].gen # 0 => e = h
  <2>1. ASSUME NEW e \in Draft, e # d, g # 0 PROVE b[e].gen # g
    <3>1. buffer[e].gen \in Nat /\ buffer[e].gen <= nextGen /\ b[e] = buffer[e]
      BY <1>9, <2>1 DEF StreamShape, Buffers, Timely
    <3>2. g = nextGen + 1  BY <1>2, <2>1
    <3> QED  BY <1>1, <3>1, <3>2
  <2>2. \A e, h \in Draft : buffer[e].gen = buffer[h].gen /\ buffer[e].gen # 0 => e = h
    BY DEF BuffersSound, Distinct
  <2> HIDE DEF b
  <2> QED  BY <1>8, <1>9, <2>1, <2>2
<1>11. dropped \subseteq Client  BY DEF StreamShape
<1> HIDE DEF b
<1>12. /\ buffer' \in [Draft -> Buffers] /\ failed' \in [Draft -> SUBSET Client]
       /\ dropped' \subseteq Client /\ dropped \subseteq dropped'
       /\ Cardinality(Waiting(buffer')) <= RecoveryLimit
       /\ \A e \in Draft :
            \/ buffer'[e] = b[e] /\ failed'[e] = clients[e]
            \/ /\ buffer'[e] = EmptyBuffer /\ failed'[e] = {}
               /\ b[e].gen # 0 /\ b[e].pending = {}
               /\ b[e].failed \cup clients[e] \subseteq dropped'
  BY <1>3, <1>7, <1>9, <1>10, <1>11, EnforcedSound
<1>13. ~ Quiet(d) /\ \A e \in Draft : e # d => Quiet(e)' = Quiet(e)
  <2>1. ~ Quiet(d)  BY DEF Quiet
  <2>2. \A e \in Draft : e # d => (e \in silent') = (e \in silent)  BY <1>3
  <2> QED  BY <2>1, <2>2, QuietStays
<1>14. subs'[d] = P /\ \A e \in Draft : e # d => subs'[e] = subs[e]
  BY <1>5 DEF StreamShape, P
<1>15. EmptyBuffer \in Buffers /\ EmptyBuffer.gen = 0 /\ EmptyBuffer.pending = {}
       /\ EmptyBuffer.failed = {} /\ Len(EmptyBuffer.events) = 0
       /\ FramesOf(EmptyBuffer.events) = {}
  BY EmptyBufferTyped, EmptyFrames
<1>16. nextGen' \in Nat /\ nextGen <= nextGen' /\ g <= nextGen'
  BY <1>1, <1>2, <1>3
<1>17. Wired' /\ subs' \in [Draft -> SUBSET Conn]
  <2>1. ASSUME NEW e \in Draft
        PROVE  buffer'[e].pending \ {Gone} \subseteq buffer[e].pending \cup subs[e]
    <3>1. CASE e = d
      BY <1>8, <1>9, <1>12, <1>15, <3>1 DEF P
    <3>2. CASE e # d
      BY <1>9, <1>12, <1>15, <3>2
    <3> QED  BY <3>1, <3>2
  <2>2. \A e \in Draft : buffer'[e] \in Buffers  BY <1>12
  <2> QED  BY <1>3, <1>4, <2>1, <2>2, RecordedWired
<1>18. /\ conn' \in [Conn -> Handlers]
       /\ \A k \in Conn :
            /\ conn'[k].state = conn[k].state /\ conn'[k].of = conn[k].of
            /\ conn'[k].snap = conn[k].snap /\ conn'[k].ackGen = conn[k].ackGen
            /\ Len(conn'[k].queue) <= QueueLimit
            /\ k \notin subs[d] => conn'[k] = conn[k]
            /\ k \in subs[d] =>
                 /\ \A i \in DOMAIN conn'[k].queue :
                      \/ conn'[k].queue[i] \in FramesOf(conn[k].queue) \cup {Gap}
                      \/ i = Len(conn'[k].queue)
                 /\ k \notin Slow(d) =>
                      conn'[k].queue # <<>> /\ conn'[k].queue[Len(conn'[k].queue)] = f
  BY <1>4, <1>5, PublishedSound
<1>19. StreamShape'
  BY <1>5, <1>12, <1>16, <1>17, <1>18 DEF StreamShape
<1>20. Limits'
  <2>1. ASSUME NEW e \in Draft PROVE Len(buffer'[e].events) <= BufferLimit
    <3>1. 0 <= BufferLimit  BY TurnStreamAssumption
    <3>2. Len(b[e].events) <= BufferLimit  BY <1>8, <1>9 DEF Limits
    <3> QED  BY <1>12, <1>15, <3>1, <3>2
  <2> QED  BY <1>12, <1>18, <2>1 DEF Limits
<1>21. Timely'
  <2>2. f.gen <= nextGen'  BY <1>4, <1>16
  <2>3. ASSUME NEW e \in Draft
        PROVE  Upto(buffer'[e].events, nextGen') /\ buffer'[e].gen <= nextGen'
    <3>1. CASE buffer'[e] = EmptyBuffer
      BY <1>15, <1>16, <3>1 DEF Upto
    <3>2. CASE buffer'[e] = b[e] /\ e = d
      <4>1. 0 <= nextGen'  BY <1>16
      <4> QED  BY <1>8, <1>9, <1>16, <3>2, <4>1 DEF Upto
    <3>3. CASE buffer'[e] = b[e] /\ e # d
      <4>1. /\ buffer'[e] = buffer[e]
            /\ Upto(buffer[e].events, nextGen) /\ buffer[e].gen <= nextGen
        BY <1>9, <3>3 DEF Timely
      <4>2. buffer[e].events \in Seq(Frames) /\ buffer[e].gen \in Nat
        BY DEF StreamShape, Buffers
      <4>3. FramesOf(buffer[e].events) \subseteq Frames /\ \A x \in Frames : x.gen \in Nat
        BY <4>2, SeqFrames DEF Frames
      <4>4. \A x \in FramesOf(buffer[e].events) : x.gen <= nextGen'
        <5> SUFFICES ASSUME NEW x \in FramesOf(buffer[e].events) PROVE x.gen <= nextGen'
          OBVIOUS
        <5>1. x.gen <= nextGen /\ x.gen \in Nat  BY <4>1, <4>3 DEF Upto
        <5> QED  BY <1>1, <1>16, <5>1
      <4>5. buffer[e].gen <= nextGen'  BY <1>1, <1>16, <4>1, <4>2
      <4> QED  BY <4>1, <4>4, <4>5 DEF Upto
    <3> QED  BY <1>12, <3>1, <3>2, <3>3
  <2> QED  BY <1>3, <1>4, <1>16, <2>2, <2>3, RecordedTimely
<1>23. keep => P # {} \/ clients[d] # {}
  <2>1. CASE failed[d] # {}  BY <1>7, <2>1
  <2>2. CASE subs[d] # {}
    <3>1. PICK k \in subs[d] : TRUE  BY <2>2
    <3>2. k \in Slow(d) => conn[k].of \in ClientsOf(Slow(d))  BY DEF ClientsOf
    <3> QED  BY <1>7, <3>1, <3>2 DEF P
  <2> QED  BY <2>1, <2>2
<1>24. ~ keep => clients[d] = {}
  BY <1>6, <1>7 DEF ClientsOf
<1>25. BuffersSound'
  <2>1. ASSUME NEW e \in Draft PROVE BufferSound(e)'
    <3>0. BufferSound(e)  BY DEF BuffersSound
    <3>1. CASE buffer'[e] = EmptyBuffer /\ failed'[e] = {} /\ b[e].gen # 0
      <4>1. Quiet(e)' => ~ turns'[e].active
        BY <1>13, <3>0 DEF BufferSound
      <4> QED  BY <1>15, <3>1, <4>1 DEF BufferSound, Live
    <3>2. CASE buffer'[e] = b[e] /\ failed'[e] = clients[e] /\ e = d
      <4>1. buffer'[e] = new /\ failed'[e] = clients[d]  BY <1>9, <3>2
      <4>2. ~ Live(new.events)  BY <1>8 DEF Live
      <4>3. new.failed = clients[d]  BY <1>8, <1>24
      <4>4. (g # 0 => keep) /\ (keep => g # 0)  BY <1>1, <1>2
      <4>5. new.pending \subseteq subs'[d]  BY <1>8, <1>14
      <4> HIDE DEF keep
      <4> QED  BY <1>8, <1>23, <3>2, <4>1, <4>2, <4>3, <4>4, <4>5 DEF BufferSound
    <3>3. CASE buffer'[e] = b[e] /\ failed'[e] = clients[e] /\ e # d
      BY <1>7, <1>9, <1>13, <1>14, <3>0, <3>3 DEF BufferSound
    <3> QED  BY <1>12, <3>1, <3>2, <3>3
  <2>2. Distinct'
    BY <1>10, <1>12, <1>15 DEF Distinct
  <2> QED  BY <2>1, <2>2 DEF BuffersSound
<1>26. StreamsSound'
  <2> SUFFICES ASSUME NEW k \in Conn, Open(k)' PROVE StreamSound(k)'
    BY DEF StreamsSound
  <2>1. Open(k) /\ Home(k)' = Home(k) /\ Home(k) \in Draft
    BY <1>5, <1>18 DEF Open, Home, Wired, StreamShape
  <2>2. StreamSound(k)  BY <2>1 DEF StreamsSound
  <2>3. CASE Home(k) = d
    <3>1. buffer'[d].gen # 0 => buffer'[d].gen = nextGen + 1 /\ buffer'[d].pending \subseteq subs[d]
      BY <1>2, <1>8, <1>9, <1>12, <1>15 DEF P
    <3>2. conn[k].ackGen \in Nat /\ conn[k].ackGen <= nextGen
      BY <2>1 DEF Timely, StreamShape, Handlers
    <3>3. conn'[k].ackGen # nextGen + 1  BY <1>1, <1>18, <3>2
    <3>4. \A x \in FramesOf(conn[k].queue) \cup {Gap} : x.gen # nextGen + 1
      <4>1. conn[k].queue \in Seq(Frames)  BY DEF StreamShape, Handlers
      <4>2. \A x \in FramesOf(conn[k].queue) : x.gen \in Nat /\ x.gen <= nextGen
        BY <2>1, <4>1, SeqFrames DEF Frames, Timely, Upto
      <4>3. \A x \in FramesOf(conn[k].queue) \cup {Gap} : x.gen \in Nat /\ x.gen <= nextGen
        BY <1>1, <4>2, MarkTyped
      <4> QED  BY <1>1, <4>3
    <3>5. k \in subs[d] => \A i \in DOMAIN conn'[k].queue :
            conn'[k].queue[i].gen = nextGen + 1 => i = Len(conn'[k].queue)
      BY <1>18, <3>4
    <3> QED  BY <1>18, <2>1, <2>2, <2>3, <3>1, <3>3, <3>5 DEF StreamSound
  <2>4. CASE Home(k) # d
    <3>1. k \notin subs[d]  BY <2>4 DEF Wired
    <3>2. conn'[k] = conn[k]  BY <1>18, <3>1
    <3>3. buffer'[Home(k)] = buffer[Home(k)] \/ buffer'[Home(k)].gen = 0
      BY <1>9, <1>12, <1>15, <2>1, <2>4
    <3> QED  BY <1>13, <2>1, <2>2, <2>4, <3>2, <3>3 DEF StreamSound
  <2> QED  BY <2>3, <2>4
<1>27. ASSUME NEW c \in Client, draftOf[c] = d PROVE Told(c)'
  <2>0. \A k \in Conn : conn'[k].of = conn[k].of  BY <1>18
  <2> SUFFICES ASSUME WillRun(c)', c \notin dropped'
               PROVE  /\ buffer'[d].gen # 0
                      /\ \/ c \in failed'[d]
                         \/ \E k \in P : k # Gone /\ k \in buffer'[d].pending /\ conn'[k].of = c
    BY <1>5, <1>14, <1>27, ToldNext
  <2>1. WillRun(c)
    <3>1. f.type \notin RunTypes  BY <1>4 DEF RunTypes
    <3> QED  BY <1>3, <1>4, <3>1, RecordedRuns
  <2>2. c \in failed[d] \/ c \in ClientsOf(subs[d])
    BY <1>12, <1>13, <1>27, <2>1 DEF AllTold, Told, Watching
  <2>3. keep
    BY <2>2 DEF ClientsOf
  <2>4. c \in clients[d] \/ \E k \in P : conn[k].of = c
    BY <1>7, <2>2 DEF ClientsOf, P
  <2>5. g # 0  BY <1>1, <1>2, <2>3
  <2>6. new.pending = P /\ new.failed = clients[d] /\ new.gen = g
    BY <1>8, <2>3
  <2>7. CASE buffer'[d] = b[d] /\ failed'[d] = clients[d]
    <3>1. \A k \in P : k # Gone  BY <1>7, NullAssumption
    <3> QED  BY <1>7, <1>9, <2>0, <2>4, <2>5, <2>6, <2>7, <3>1
  <2>8. CASE b[d].pending = {} /\ b[d].failed \cup clients[d] \subseteq dropped'
    BY <1>9, <2>4, <2>6, <2>8
  <2> QED  BY <1>12, <2>7, <2>8
<1>28. ASSUME NEW c \in Client, draftOf[c] = d PROVE EndsLast(c)'
  <2> SUFFICES ASSUME client[c].conn \in P PROVE
                      /\ conn'[client[c].conn].queue # <<>>
                      /\ Ends(conn'[client[c].conn].queue)
    BY <1>5, <1>14, <1>28 DEF EndsLast
  <2> QED  BY <1>4, <1>7, <1>18 DEF P, Ends
<1>29. ASSUME NEW c \in Client, draftOf[c] # d PROVE Told(c)' /\ EndsLast(c)'
  <2>1. draftOf[c] \in Draft  BY DEF StreamShape
  <2> QED  BY <1>3, <1>4, <1>7, <1>9, <1>12, <1>13, <1>29, <2>1, ElsewhereStays
<1> QED  BY <1>17, <1>19, <1>20, <1>21, <1>25, <1>26, <1>27, <1>28, <1>29 DEF AllTold, AllEnd

LEMMA EndedKeeps ==
  ASSUME StreamInvariant, NEW d \in Draft, TurnEnded(d) \/ LateEnded(d)
  PROVE  StreamInvariant'
<1>1. turns \in [Draft -> TurnCounts] /\ turns[d] \in TurnCounts
  BY DEF StreamInvariant, StreamShape
<1>2. CASE TurnEnded(d)
  <2>1. Going(d) /\ Terminal(d)
        /\ turns' = [turns EXCEPT ![d].current = FALSE, ![d].active = FALSE]
    BY <1>2 DEF TurnEnded, Going
  <2>2. [turns[d] EXCEPT !.current = FALSE, !.active = FALSE] \in TurnCounts
    BY <1>1 DEF TurnCounts
  <2>3. /\ turns' \in [Draft -> TurnCounts] /\ ~ turns'[d].active
        /\ \A e \in Draft : e # d => turns'[e] = turns[e]
    BY <1>1, <2>1, <2>2 DEF TurnCounts
  <2> QED  BY <2>1, <2>3, TerminalKeeps
<1>3. CASE LateEnded(d)
  <2>1. Going(d) /\ Terminal(d) /\ turns[d].late > 0
        /\ turns' = [turns EXCEPT ![d].late = @ - 1, ![d].active = FALSE]
    BY <1>3 DEF LateEnded, Going
  <2>2. turns[d].late - 1 \in Nat  BY <1>1, <2>1 DEF TurnCounts
  <2>3. [turns[d] EXCEPT !.late = @ - 1, !.active = FALSE] \in TurnCounts
    BY <1>1, <2>2 DEF TurnCounts
  <2>4. /\ turns' \in [Draft -> TurnCounts] /\ ~ turns'[d].active
        /\ \A e \in Draft : e # d => turns'[e] = turns[e]
    BY <1>1, <2>1, <2>3 DEF TurnCounts
  <2> QED  BY <2>1, <2>4, TerminalKeeps
<1> QED  BY <1>2, <1>3

-----------------------------------------------------------------------------
(* A connection comes, or is lost. *)

LEMMA IdleTyped ==
  /\ Idle \in Handlers /\ Idle.state = "free" /\ Idle.snap = <<>> /\ Idle.queue = <<>>
  /\ Idle.ackGen = 0 /\ Idle.closed = FALSE /\ Idle.broken = FALSE /\ Idle.of = NoClient
BY EmptyFrames DEF Idle, Handlers

\* Where the hub's tables stay as they are, so do the buffers.
LEMMA BuffersStay ==
  ASSUME BuffersSound, UNCHANGED <<turns, silent, buffer, failed>>,
         \A e \in Draft : subs[e] \subseteq subs'[e]
  PROVE  BuffersSound' /\ \A e \in Draft : Quiet(e)' = Quiet(e)
<1>1. \A e \in Draft : Quiet(e)' = Quiet(e)  BY QuietStays
<1>2. ASSUME NEW e \in Draft PROVE BufferSound(e)'
  <2>1. BufferSound(e) /\ subs[e] \subseteq subs'[e]  BY DEF BuffersSound
  <2> QED  BY <1>1, <2>1 DEF BufferSound
<1>3. Distinct'  BY DEF BuffersSound, Distinct
<1> QED  BY <1>1, <1>2, <1>3 DEF BuffersSound

LEMMA ConnectKeeps ==
  ASSUME StreamInvariant, NEW c \in Client, Connect(c)
  PROVE  StreamInvariant'
<1> USE DEF StreamInvariant
<1> DEFINE d == draftOf[c]
           free == {k \in Conn : conn[k].state = "free"}
           k == CHOOSE k \in free : TRUE
           w == [Idle EXCEPT !.state = "open", !.of = c,
                             !.snap = buffer[d].events, !.ackGen = buffer[d].gen]
<1>1. /\ client[c].conn = NoConn /\ free # {}
      /\ conn' = [conn EXCEPT ![k] = w]
      /\ subs' = [subs EXCEPT ![d] = @ \cup {k}]
      /\ client' = [client EXCEPT ![c].conn = k]
      /\ UNCHANGED <<draftOf, turns, buffer, failed, nextGen, dropped, silent, breaks>>
  BY DEF Connect
<1>2. k \in free  BY <1>1
<1>3. k \in Conn /\ conn[k].state = "free" /\ k # NoConn  BY <1>2, NullAssumption
<1> HIDE DEF k
<1>4. d \in Draft /\ buffer[d] \in Buffers  BY DEF StreamShape
<1>5. /\ w \in Handlers /\ w.state = "open" /\ w.of = c /\ w.snap = buffer[d].events
      /\ w.ackGen = buffer[d].gen /\ w.queue = <<>> /\ ~ w.closed /\ ~ w.broken
  BY <1>4, EmptyFrames DEF Idle, Handlers, Buffers
<1> HIDE DEF w
<1>6. /\ conn' \in [Conn -> Handlers] /\ conn'[k] = w
      /\ \A j \in Conn : j # k => conn'[j] = conn[j]
  BY <1>1, <1>3, <1>5 DEF StreamShape
<1>7. /\ subs' \in [Draft -> SUBSET Conn] /\ subs'[d] = subs[d] \cup {k}
      /\ \A e \in Draft : e # d => subs'[e] = subs[e]
  BY <1>1, <1>3, <1>4 DEF StreamShape
<1>8. /\ client' \in [Client -> PageStates] /\ client'[c].conn = k
      /\ client'[c].running = client[c].running
      /\ \A x \in Client : x # c => client'[x] = client[x]
  <2>1. [client[c] EXCEPT !.conn = k] \in PageStates  BY <1>3 DEF StreamShape, PageStates
  <2> QED  BY <1>1, <2>1 DEF StreamShape, PageStates
<1>9. \A e \in Draft : k \notin subs[e] /\ k \notin buffer[e].pending
  <2>1. k # Gone  BY <1>3, NullAssumption
  <2> QED  BY <1>3, <2>1 DEF Wired, Open
<1>10. \A x \in Client : client[x].conn # NoConn => client[x].conn \in Conn /\ client[x].conn # k
  BY <1>3 DEF Wired, Open, StreamShape, PageStates
<1>11. StreamShape'
  BY <1>1, <1>6, <1>7, <1>8 DEF StreamShape
<1>12. Wired'
  <2>1. ASSUME NEW j \in Conn, Open(j)'
        PROVE  /\ conn'[j].of \in Client
               /\ ~ conn'[j].broken => client'[conn'[j].of].conn = j
               /\ ~ conn'[j].closed => j \in subs'[Home(j)']
    <3>1. CASE j = k
      <4>1. Home(j)' = d  BY <1>1, <1>5, <1>6, <3>1 DEF Home
      <4> QED  BY <1>5, <1>6, <1>7, <1>8, <3>1, <4>1
    <3>2. CASE j # k
      <4>1. conn'[j] = conn[j] /\ Open(j) /\ Home(j)' = Home(j)
        BY <1>1, <1>6, <2>1, <3>2 DEF Open, Home
      <4>2. /\ conn[j].of \in Client
            /\ ~ conn[j].broken => client[conn[j].of].conn = j
            /\ ~ conn[j].closed => j \in subs[Home(j)]
        BY <4>1 DEF Wired
      <4>3. j # NoConn  BY NullAssumption
      <4>4. ~ conn[j].broken => conn[j].of # c  BY <1>1, <4>2, <4>3
      <4>5. Home(j) \in Draft  BY <4>2 DEF Home, StreamShape
      <4> QED  BY <1>7, <1>8, <4>1, <4>2, <4>4, <4>5
    <3> QED  BY <3>1, <3>2
  <2>2. ASSUME NEW e \in Draft, NEW j \in subs'[e]
        PROVE  Open(j)' /\ ~ conn'[j].closed /\ Home(j)' = e
    <3>1. CASE j = k
      <4>1. e = d  BY <1>7, <1>9, <2>2, <3>1
      <4> QED  BY <1>1, <1>5, <1>6, <3>1, <4>1 DEF Open, Home
    <3>2. CASE j # k
      <4>1. j \in subs[e] /\ j \in Conn  BY <1>7, <2>2, <3>2 DEF StreamShape
      <4>2. Open(j) /\ ~ conn[j].closed /\ Home(j) = e  BY <4>1 DEF Wired
      <4> QED  BY <1>1, <1>6, <3>2, <4>1, <4>2 DEF Open, Home
    <3> QED  BY <3>1, <3>2
  <2>3. ASSUME NEW e \in Draft, NEW j \in buffer'[e].pending \ {Gone}
        PROVE  Open(j)' /\ Home(j)' = e
    <3>1. j \in buffer[e].pending \ {Gone} /\ buffer[e] \in Buffers  BY <1>1, <2>3 DEF StreamShape
    <3>2. j \in Conn /\ Open(j) /\ Home(j) = e /\ j # k  BY <1>9, <3>1 DEF Wired, Buffers
    <3> QED  BY <1>1, <1>6, <3>2 DEF Open, Home
  <2>4. ASSUME NEW x \in Client, client'[x].conn # NoConn
        PROVE  /\ conn'[client'[x].conn].state = "open" /\ conn'[client'[x].conn].of = x
               /\ ~ conn'[client'[x].conn].broken
    <3>1. CASE x = c
      <4>1. client'[x].conn = k  BY <1>8, <3>1
      <4>2. conn'[k].state = "open" /\ conn'[k].of = c /\ ~ conn'[k].broken  BY <1>5, <1>6
      <4> QED  BY <3>1, <4>1, <4>2 DEF Open
    <3>2. CASE x # c
      <4> DEFINE j == client[x].conn
      <4>1. client'[x].conn = j /\ j # NoConn  BY <1>8, <2>4, <3>2
      <4>2. j \in Conn /\ j # k  BY <1>10, <4>1
      <4>3. conn'[j] = conn[j]  BY <1>6, <4>2
      <4>4. conn[j].state = "open" /\ conn[j].of = x /\ ~ conn[j].broken
        BY <4>1 DEF Wired, Open
      <4> QED  BY <4>1, <4>3, <4>4 DEF Open
    <3> QED  BY <3>1, <3>2
  <2> QED  BY <2>1, <2>2, <2>3, <2>4 DEF Wired, Open
<1>13. Limits'
  <2>1. 0 <= QueueLimit  BY TurnStreamAssumption
  <2> QED  BY <1>1, <1>5, <1>6, <2>1, EmptyFrames DEF Limits
<1>14. Timely'
  <2>1. ASSUME NEW j \in Conn, Open(j)'
        PROVE  /\ Upto(conn'[j].snap, nextGen') /\ Upto(conn'[j].queue, nextGen')
               /\ conn'[j].ackGen <= nextGen'
    <3>1. CASE j = k
      BY <1>1, <1>4, <1>5, <1>6, <3>1, EmptyFrames DEF Timely, Upto
    <3>2. CASE j # k
      <4>1. conn'[j] = conn[j] /\ Open(j)  BY <1>6, <2>1, <3>2 DEF Open
      <4> QED  BY <1>1, <4>1 DEF Timely
    <3> QED  BY <3>1, <3>2
  <2> QED  BY <1>1, <2>1 DEF Timely
<1>15. BuffersSound' /\ \A e \in Draft : Quiet(e)' = Quiet(e)
  <2>1. \A e \in Draft : subs[e] \subseteq subs'[e]  BY <1>7
  <2> QED  BY <1>1, <2>1, BuffersStay
<1>0. BufferSound(d)  BY <1>4 DEF BuffersSound
<1>16. StreamsSound'
  <2> SUFFICES ASSUME NEW j \in Conn, Open(j)' PROVE StreamSound(j)'
    BY DEF StreamsSound
  <2>1. CASE j = k
    <3>1. Home(j)' = d  BY <1>1, <1>5, <1>6, <2>1 DEF Home
    <3> QED  BY <1>0, <1>1, <1>4, <1>5, <1>6, <1>9, <1>15, <2>1, <3>1, EmptyFrames
             DEF StreamSound, BufferSound
  <2>2. CASE j # k
    <3>1. conn'[j] = conn[j] /\ Open(j) /\ Home(j)' = Home(j) /\ Home(j) \in Draft
      BY <1>1, <1>6, <2>2 DEF Open, Home, Wired, StreamShape
    <3>2. StreamSound(j)  BY <3>1 DEF StreamsSound
    <3> QED  BY <1>1, <1>15, <3>1, <3>2 DEF StreamSound
  <2> QED  BY <2>1, <2>2
<1>17. ASSUME NEW x \in Client PROVE Told(x)' /\ EndsLast(x)'
  <2>0. /\ draftOf[x] \in Draft /\ buffer' = buffer /\ failed' = failed
        /\ dropped' = dropped /\ draftOf' = draftOf
        /\ subs[draftOf[x]] \subseteq subs'[draftOf[x]]
    BY <1>1, <1>7 DEF StreamShape
  <2>1. \A j \in Conn : j \in subs[draftOf[x]] \cup buffer[draftOf[x]].pending
                          => conn'[j].of = conn[j].of
    BY <1>6, <1>9, <2>0
  <2>2. CASE x # c
    <3>1. WillRun(x)' => WillRun(x)
      BY <1>6, <1>8, <1>10, <2>2 DEF WillRun
    <3>2. client[x].conn \in subs'[draftOf[x]] =>
            /\ client[x].conn \in subs[draftOf[x]]
            /\ conn'[client[x].conn] = conn[client[x].conn]
      <4>1. client[x].conn \in Conn => client[x].conn # k
        BY <1>10, NullAssumption
      <4> QED  BY <1>6, <1>7, <2>0, <4>1
    <3>3. Told(x)'  BY <1>15, <2>0, <2>1, <3>1, ToldStays
    <3>4. EndsLast(x)'  BY <1>8, <1>15, <2>0, <2>2, <3>1, <3>2, EndsStays
    <3> QED  BY <3>3, <3>4
  <2>3. CASE x = c
    <3>1. WillRun(x)' /\ Quiet(d) => WillRun(x)
      BY <1>0, <1>5, <1>6, <1>8, <2>3, EmptyFrames DEF WillRun, Live, BufferSound
    <3>2. Told(x)'
      <4>1. CASE Quiet(d)
        BY <1>15, <2>0, <2>1, <2>3, <3>1, <4>1, ToldStays
      <4>2. CASE ~ Quiet(d)
        <5>1. k \in subs'[d] /\ conn'[k].of = c  BY <1>5, <1>6, <1>7
        <5> QED  BY <1>4, <1>15, <2>0, <2>3, <4>2, <5>1, ToldNext
      <4> QED  BY <4>1, <4>2
    <3>3. EndsLast(x)'
      <4> SUFFICES ASSUME Quiet(d), c \notin dropped, WillRun(c)'
                   PROVE  Ends(buffer[d].events)
        BY <1>1, <1>4, <1>5, <1>6, <1>8, <1>15, <2>3 DEF EndsLast
      <4>1. buffer[d].gen # 0  BY <2>3, <3>1 DEF AllTold, Told
      <4> QED  BY <1>0, <4>1 DEF BufferSound
    <3> QED  BY <3>2, <3>3
  <2> QED  BY <2>2, <2>3
<1> QED  BY <1>11, <1>12, <1>13, <1>14, <1>15, <1>16, <1>17 DEF AllTold, AllEnd

LEMMA BreakKeeps ==
  ASSUME StreamInvariant, NEW k \in Conn, Break(k)
  PROVE  StreamInvariant'
<1> USE DEF StreamInvariant
<1> DEFINE c == conn[k].of
<1>1. /\ Open(k) /\ ~ conn[k].broken
      /\ conn' = [conn EXCEPT ![k].broken = TRUE]
      /\ client' = [client EXCEPT ![c].conn = NoConn]
      /\ UNCHANGED <<draftOf, turns, buffer, subs, failed, nextGen, dropped, silent>>
  BY DEF Break, hubVars, Open
<1>2. c \in Client /\ client[c].conn = k  BY <1>1 DEF Wired
<1> HIDE DEF c
<1>3. /\ conn' \in [Conn -> Handlers] /\ conn'[k].broken
      /\ \A j \in Conn : /\ conn'[j].state = conn[j].state /\ conn'[j].of = conn[j].of
                         /\ conn'[j].snap = conn[j].snap /\ conn'[j].ackGen = conn[j].ackGen
                         /\ conn'[j].queue = conn[j].queue /\ conn'[j].closed = conn[j].closed
                         /\ j # k => conn'[j] = conn[j]
  BY <1>1 DEF StreamShape, Handlers
<1>4. /\ client' \in [Client -> PageStates] /\ client'[c].conn = NoConn
      /\ \A x \in Client : /\ client'[x].running = client[x].running
                           /\ x # c => client'[x] = client[x]
  BY <1>1, <1>2 DEF StreamShape, PageStates
<1>5. StreamShape'  BY <1>1, <1>3, <1>4 DEF StreamShape
<1>6. Wired'
  <2>1. ASSUME NEW j \in Conn, Open(j)'
        PROVE  /\ conn'[j].of \in Client
               /\ ~ conn'[j].broken => client'[conn'[j].of].conn = j
               /\ ~ conn'[j].closed => j \in subs'[Home(j)']
    <3>0. /\ Open(j) /\ conn[j].of \in Client /\ Home(j)' = Home(j)
          /\ ~ conn[j].broken => client[conn[j].of].conn = j
          /\ ~ conn[j].closed => j \in subs[Home(j)]
      BY <1>1, <1>3, <2>1 DEF Open, Wired, Home
    <3>1. CASE j = k  BY <1>1, <1>3, <3>0, <3>1
    <3>2. CASE j # k  BY <1>1, <1>2, <1>3, <1>4, <3>0, <3>2
    <3> QED  BY <3>1, <3>2
  <2>2. ASSUME NEW e \in Draft, NEW j \in subs'[e]
        PROVE  Open(j)' /\ ~ conn'[j].closed /\ Home(j)' = e
    <3>1. j \in Conn /\ j \in subs[e]  BY <1>1, <2>2 DEF StreamShape
    <3> QED  BY <1>1, <1>3, <3>1 DEF Wired, Open, Home
  <2>3. ASSUME NEW e \in Draft, NEW j \in buffer'[e].pending \ {Gone}
        PROVE  Open(j)' /\ Home(j)' = e
    <3>1. j \in buffer[e].pending \ {Gone} /\ buffer[e] \in Buffers  BY <1>1, <2>3 DEF StreamShape
    <3>2. j \in Conn /\ Open(j) /\ Home(j) = e  BY <3>1 DEF Wired, Buffers
    <3> QED  BY <1>1, <1>3, <3>2 DEF Open, Home
  <2>4. ASSUME NEW x \in Client, client'[x].conn # NoConn
        PROVE  /\ conn'[client'[x].conn].state = "open" /\ conn'[client'[x].conn].of = x
               /\ ~ conn'[client'[x].conn].broken
    <3> DEFINE j == client[x].conn
    <3>1. x # c /\ client'[x].conn = j /\ j # NoConn  BY <1>4, <2>4
    <3>2. conn[j].state = "open" /\ conn[j].of = x /\ ~ conn[j].broken /\ j \in Conn
      BY <3>1 DEF Wired, Open, StreamShape, PageStates
    <3>3. j # k  BY <3>1, <3>2 DEF c
    <3>4. conn'[j] = conn[j]  BY <1>3, <3>2, <3>3
    <3> QED  BY <3>1, <3>2, <3>4 DEF Open
  <2> QED  BY <2>1, <2>2, <2>3, <2>4 DEF Wired, Open
<1>7. Limits'  BY <1>1, <1>3 DEF Limits
<1>8. Timely'
  <2>1. \A j \in Conn : Open(j)' => Open(j)  BY <1>3 DEF Open
  <2> QED  BY <1>1, <1>3, <2>1 DEF Timely
<1>9. BuffersSound' /\ \A e \in Draft : Quiet(e)' = Quiet(e)
  BY <1>1, BuffersStay
<1>10. StreamsSound'
  <2> SUFFICES ASSUME NEW j \in Conn, Open(j)' PROVE StreamSound(j)'
    BY DEF StreamsSound
  <2>1. Open(j) /\ Home(j)' = Home(j) /\ Home(j) \in Draft
    BY <1>1, <1>3 DEF Open, Home, Wired, StreamShape
  <2>2. StreamSound(j)  BY <2>1 DEF StreamsSound
  <2> QED  BY <1>1, <1>3, <1>9, <2>1, <2>2 DEF StreamSound
<1>11. ASSUME NEW x \in Client PROVE Told(x)' /\ EndsLast(x)'
  <2>1. WillRun(x)' => WillRun(x)
    <3>1. client'[x].conn # NoConn => client'[x].conn = client[x].conn /\ client[x].conn \in Conn
      BY <1>4 DEF StreamShape, PageStates
    <3> QED  BY <1>3, <1>4, <3>1 DEF WillRun
  <2>2. /\ draftOf[x] \in Draft /\ draftOf' = draftOf /\ dropped' = dropped /\ subs' = subs
        /\ subs[draftOf[x]] \subseteq Conn
    BY <1>1 DEF StreamShape
  <2>3. Told(x)'  BY <1>1, <1>3, <1>9, <2>1, <2>2, ToldStays
  <2>4. EndsLast(x)'
    <3>1. CASE x = c
      <4>1. client'[x].conn \notin subs'[draftOf'[x]]  BY <1>4, <2>2, <3>1, NullAssumption
      <4> QED  BY <4>1 DEF EndsLast
    <3>2. CASE x # c
      <4>1. client'[x].conn = client[x].conn  BY <1>4, <3>2
      <4>2. client[x].conn \in subs[draftOf[x]] =>
              /\ conn'[client[x].conn].queue = conn[client[x].conn].queue
              /\ conn'[client[x].conn].snap = conn[client[x].conn].snap
        BY <1>3, <2>2
      <4> QED  BY <1>9, <2>1, <2>2, <4>1, <4>2, EndsStays
    <3> QED  BY <3>1, <3>2
  <2> QED  BY <2>3, <2>4
<1> QED  BY <1>5, <1>6, <1>7, <1>8, <1>9, <1>10, <1>11 DEF AllTold, AllEnd

-----------------------------------------------------------------------------
(* Acknowledgements, and streams that end without one. *)

\* What follows for the buffers when a kept terminal was acknowledged or its
\* stream went.
LEMMA MovedBuffers ==
  ASSUME StreamShape, Limits, Timely, BuffersSound, NEW d \in Draft, NEW P, NEW B, NEW C, NEW K,
         Moved(d, P, B, C, K), turns' = turns, silent' = silent, nextGen' = nextGen,
         Quiet(d) => B = C /\ P \subseteq subs'[d],
         \A e \in Draft : e # d => subs[e] \subseteq subs'[e],
         buffer[d].gen # 0
  PROVE  /\ BuffersSound'
         /\ \A e \in Draft : /\ Quiet(e)' = Quiet(e)
                             /\ Len(buffer'[e].events) <= BufferLimit
                             /\ Upto(buffer'[e].events, nextGen')
                             /\ buffer'[e].gen <= nextGen'
                             /\ buffer'[e].gen = buffer[e].gen \/ buffer'[e].gen = 0
                             /\ buffer'[e].pending \subseteq IF e = d THEN P ELSE buffer[e].pending
<1>0. \A e \in Draft : Quiet(e)' = Quiet(e)  BY QuietStays
<1>1. EmptyBuffer.gen = 0 /\ EmptyBuffer.pending = {}
      /\ EmptyBuffer.failed = {} /\ Len(EmptyBuffer.events) = 0
      /\ FramesOf(EmptyBuffer.events) = {}
  BY EmptyBufferTyped, EmptyFrames
<1>2. 0 <= BufferLimit /\ 0 <= nextGen  BY TurnStreamAssumption DEF StreamShape
<1>3. ASSUME NEW e \in Draft
      PROVE  \/ buffer'[e] = buffer[e] /\ failed'[e] = failed[e] /\ e # d
             \/ buffer'[e] = EmptyBuffer /\ failed'[e] = {}
             \/ /\ e = d /\ buffer'[d].events = buffer[d].events /\ buffer'[d].gen = buffer[d].gen
                /\ buffer'[d].pending = P /\ buffer'[d].failed = B /\ failed'[d] = C
                /\ P # {} \/ B # {}
  <2>1. CASE e # d
    BY <2>1 DEF Moved, GivenUp
  <2>2. CASE e = d
    BY <2>2 DEF Moved, GivenUp, StreamShape, Buffers
  <2> QED  BY <2>1, <2>2
<1>4. ASSUME NEW e \in Draft
      PROVE  /\ Len(buffer'[e].events) <= BufferLimit
             /\ Upto(buffer'[e].events, nextGen')
             /\ buffer'[e].gen <= nextGen'
             /\ buffer'[e].gen = buffer[e].gen \/ buffer'[e].gen = 0
             /\ buffer'[e].pending \subseteq IF e = d THEN P ELSE buffer[e].pending
  <2>1. CASE buffer'[e] = EmptyBuffer
    BY <1>1, <1>2, <2>1 DEF Upto
  <2>2. CASE buffer'[e] = buffer[e] /\ e # d
    BY <2>2 DEF Limits, Timely
  <2>3. CASE e = d /\ buffer'[d].events = buffer[d].events /\ buffer'[d].gen = buffer[d].gen
             /\ buffer'[d].pending = P
    BY <2>3 DEF Limits, Timely
  <2> QED  BY <1>3, <2>1, <2>2, <2>3
<1>5. ASSUME NEW e \in Draft PROVE BufferSound(e)'
  <2>0. BufferSound(e)  BY DEF BuffersSound
  <2>1. CASE buffer'[e] = buffer[e] /\ failed'[e] = failed[e] /\ e # d
    <3>1. subs[e] \subseteq subs'[e]  BY <2>1
    <3> QED  BY <1>0, <2>0, <2>1, <3>1 DEF BufferSound
  <2>2. CASE buffer'[e] = EmptyBuffer /\ failed'[e] = {}
    BY <1>0, <1>1, <2>0, <2>2 DEF BufferSound, Live
  <2>3. CASE /\ e = d /\ buffer'[d].events = buffer[d].events /\ buffer'[d].gen = buffer[d].gen
             /\ buffer'[d].pending = P /\ buffer'[d].failed = B /\ failed'[d] = C
             /\ P # {} \/ B # {}
    BY <1>0, <2>0, <2>3 DEF BufferSound
  <2> QED  BY <1>3, <2>1, <2>2, <2>3
<1>6. Distinct'
  BY <1>4 DEF BuffersSound, Distinct
<1> QED  BY <1>0, <1>4, <1>5, <1>6 DEF BuffersSound

\* A client that still shows a turn, or will, stays among those to be told.
LEMMA MovedTold ==
  ASSUME StreamShape, Wired, BuffersSound, AllTold, NEW d \in Draft, NEW P, NEW B, NEW C, NEW K,
         Moved(d, P, B, C, K), \A e \in Draft : Quiet(e)' = Quiet(e), draftOf' = draftOf,
         NEW c \in Client, WillRun(c)' => WillRun(c),
         draftOf[c] = d /\ Quiet(d) =>
           /\ B = C /\ (c \in failed[d] => c \in C)
           /\ \A k \in buffer[d].pending \ {Gone} : conn[k].of = c =>
                c \in C \/ (k \in P /\ conn'[k].of = c),
         draftOf[c] = d /\ ~ Quiet(d) /\ c \in Watching(d) /\ c \notin dropped' =>
           c \in C \/ \E k \in subs'[d] : conn'[k].of = c,
         K \subseteq {conn'[k].of : k \in subs'[d]},
         draftOf[c] # d =>
           /\ subs[draftOf[c]] \subseteq subs'[draftOf[c]]
           /\ \A k \in Conn : k \in subs[draftOf[c]] \cup buffer[draftOf[c]].pending
                                => conn'[k].of = conn[k].of
  PROVE  Told(c)'
<1>0. draftOf[c] \in Draft  BY DEF StreamShape
<1>1. CASE draftOf[c] # d
  <2>2. \/ buffer'[draftOf[c]] = buffer[draftOf[c]] /\ failed'[draftOf[c]] = failed[draftOf[c]]
        \/ /\ buffer[draftOf[c]].gen # 0 /\ buffer[draftOf[c]].pending = {}
           /\ buffer[draftOf[c]].failed \cup failed[draftOf[c]] \subseteq dropped'
    BY <1>0, <1>1 DEF Moved, GivenUp
  <2>3. dropped \subseteq dropped'  BY DEF Moved
  <2> QED  BY <1>0, <1>1, <2>2, <2>3, ToldStays
<1>2. CASE draftOf[c] = d
  <2> SUFFICES ASSUME WillRun(c)', c \notin dropped'
               PROVE  IF Quiet(d)
                      THEN buffer'[d].gen # 0
                           /\ c \in failed'[d] \cup {conn'[k].of : k \in buffer'[d].pending \ {Gone}}
                      ELSE c \in failed'[d] \cup {conn'[k].of : k \in subs'[d]}
    BY <1>2, ToldNext
  <2>1. c \notin dropped  BY DEF Moved
  <2>2. IF Quiet(d) THEN buffer[d].gen # 0 /\ c \in Awaited(d) ELSE c \in Watching(d)
    BY <1>2, <2>1 DEF AllTold, Told
  <2>3. CASE Quiet(d)
    <3>1. c \in C \/ \E k \in P \ {Gone} : conn'[k].of = c
      BY <1>2, <2>2, <2>3 DEF Awaited
    <3>2. CASE GivenUp(d, B \cup (C \ K)) /\ P = {}
      BY <1>2, <2>3, <3>1, <3>2 DEF GivenUp
    <3>3. CASE buffer'[d] = [buffer[d] EXCEPT !.pending = P, !.failed = B] /\ failed'[d] = C
      <4>1. buffer'[d].gen = buffer[d].gen /\ buffer'[d].pending = P
        BY <3>3 DEF StreamShape, Buffers
      <4> QED  BY <2>2, <2>3, <3>1, <3>3, <4>1
    <3> QED  BY <3>2, <3>3 DEF Moved
  <2>4. CASE ~ Quiet(d)
    <3>1. c \in C \/ \E k \in subs'[d] : conn'[k].of = c  BY <1>2, <2>2, <2>4
    <3>2. CASE GivenUp(d, B \cup (C \ K)) /\ P = {}
      BY <2>4, <3>1, <3>2 DEF GivenUp
    <3>3. CASE failed'[d] = C
      BY <2>4, <3>1, <3>3
    <3> QED  BY <3>2, <3>3 DEF Moved
  <2> QED  BY <2>3, <2>4
<1> QED  BY <1>1, <1>2

\* What is left of a sequence whose first frame was read ends as it did, or the
\* frame read was the last.
LastLeft(s, t, f) == IF t = <<>> THEN f = s[Len(s)] ELSE t[Len(t)] = s[Len(s)]

LEMMA TailLast ==
  ASSUME NEW s \in Seq(Frames), s # <<>>
  PROVE  LastLeft(s, Tail(s), Head(s))
<1> DEFINE t == Tail(s)
<1>1. /\ Len(s) \in Nat /\ Len(s) >= 1 /\ Head(s) = s[1]
      /\ t \in Seq(Frames) /\ Len(t) = Len(s) - 1 /\ DOMAIN t = 1 .. Len(s) - 1
      /\ \A i \in DOMAIN t : t[i] = s[i + 1]
  BY NonEmpty
<1> HIDE DEF t
<1>2. CASE t = <<>>
  <2>1. Len(s) = 1  BY <1>1, <1>2, EmptyFrames
  <2> QED  BY <1>1, <1>2, <2>1 DEF LastLeft, t
<1>3. CASE t # <<>>
  <2>1. Len(t) \in Nat /\ Len(t) >= 1  BY <1>1, <1>3, NonEmpty
  <2>2. Len(t) \in DOMAIN t /\ Len(t) + 1 = Len(s)  BY <1>1, <2>1
  <2> QED  BY <1>1, <1>3, <2>2 DEF LastLeft, t
<1> QED  BY <1>2, <1>3

\* The next frame of a stream leaves it: of its snapshot, then of its channel.
Read(k, f) ==
    \/ /\ conn[k].snap # <<>> /\ f = Head(conn[k].snap)
       /\ conn' = [conn EXCEPT ![k].snap = Tail(@)]
    \/ /\ conn[k].snap = <<>> /\ conn[k].queue # <<>> /\ f = Head(conn[k].queue)
       /\ conn' = [conn EXCEPT ![k].queue = Tail(@)]

LEMMA ReadSound ==
  ASSUME StreamShape, NEW k \in Conn, NEW f, Read(k, f)
  PROVE  /\ conn' \in [Conn -> Handlers] /\ f \in Frames
         /\ f \in FramesOf(conn[k].snap) \cup FramesOf(conn[k].queue)
         /\ \A j \in Conn :
              /\ conn'[j].state = conn[j].state /\ conn'[j].of = conn[j].of
              /\ conn'[j].ackGen = conn[j].ackGen /\ conn'[j].closed = conn[j].closed
              /\ conn'[j].broken = conn[j].broken
              /\ j # k => conn'[j] = conn[j]
         /\ FramesOf(conn'[k].snap) \subseteq FramesOf(conn[k].snap)
         /\ FramesOf(conn'[k].queue) \subseteq FramesOf(conn[k].queue)
         /\ Len(conn'[k].queue) <= Len(conn[k].queue)
         /\ conn[k].queue = <<>> => conn'[k].queue = <<>>
         /\ conn[k].snap # <<>> => conn'[k].queue = conn[k].queue
         /\ conn[k].snap = <<>> => conn'[k].snap = <<>> /\ conn[k].queue # <<>>
         /\ conn[k].snap # <<>> => LastLeft(conn[k].snap, conn'[k].snap, f)
         /\ conn[k].snap = <<>> => LastLeft(conn[k].queue, conn'[k].queue, f)
         /\ \A g : (\A i \in DOMAIN conn[k].queue :
                      conn[k].queue[i].gen = g => i = Len(conn[k].queue))
                   => (\A i \in DOMAIN conn'[k].queue :
                         conn'[k].queue[i].gen = g => i = Len(conn'[k].queue))
<1>1. conn[k] \in Handlers /\ conn[k].snap \in Seq(Frames) /\ conn[k].queue \in Seq(Frames)
      /\ Len(conn[k].queue) \in Nat
  <2>1. conn[k] \in Handlers  BY DEF StreamShape
  <2>2. conn[k].snap \in Seq(Frames) /\ conn[k].queue \in Seq(Frames)  BY <2>1 DEF Handlers
  <2> QED  BY <2>1, <2>2, SeqFrames
<1>2. CASE /\ conn[k].snap # <<>> /\ f = Head(conn[k].snap)
           /\ conn' = [conn EXCEPT ![k].snap = Tail(@)]
  <2> DEFINE s == conn[k].snap
             t == Tail(s)
  <2>1. /\ Len(s) \in Nat /\ Len(s) >= 1 /\ DOMAIN s = 1 .. Len(s)
        /\ f \in Frames /\ f \in FramesOf(s)
        /\ t \in Seq(Frames) /\ Len(t) = Len(s) - 1 /\ DOMAIN t = 1 .. Len(s) - 1
        /\ \A i \in DOMAIN t : i + 1 \in DOMAIN s /\ t[i] = s[i + 1]
        /\ FramesOf(t) \subseteq FramesOf(s)
    BY <1>1, <1>2, NonEmpty
  <2> HIDE DEF t
  <2>2. /\ conn' \in [Conn -> Handlers] /\ conn'[k].snap = t
        /\ conn'[k].queue = conn[k].queue
        /\ \A j \in Conn :
             /\ conn'[j].state = conn[j].state /\ conn'[j].of = conn[j].of
             /\ conn'[j].ackGen = conn[j].ackGen /\ conn'[j].closed = conn[j].closed
             /\ conn'[j].broken = conn[j].broken
             /\ j # k => conn'[j] = conn[j]
    <3>1. conn' = [conn EXCEPT ![k] = [conn[k] EXCEPT !.snap = t]]  BY <1>2 DEF t
    <3>2. [conn[k] EXCEPT !.snap = t] \in Handlers  BY <1>1, <2>1 DEF Handlers
    <3>3. conn[k] \in Handlers /\ conn \in [Conn -> Handlers]  BY <1>1 DEF StreamShape
    <3> QED  BY <3>1, <3>2, <3>3 DEF Handlers
  <2>3. LastLeft(s, t, f)  BY <1>1, <1>2, TailLast DEF t
  <2>4. FramesOf(conn'[k].snap) \subseteq FramesOf(conn[k].snap)  BY <2>1, <2>2
  <2>5. Len(conn'[k].queue) <= Len(conn[k].queue)  BY <1>1, <2>2
  <2>6. LastLeft(conn[k].snap, conn'[k].snap, f)  BY <2>2, <2>3
  <2> HIDE DEF s
  <2> QED  BY <1>2, <2>1, <2>2, <2>4, <2>5, <2>6 DEF s
<1>3. CASE /\ conn[k].snap = <<>> /\ conn[k].queue # <<>> /\ f = Head(conn[k].queue)
           /\ conn' = [conn EXCEPT ![k].queue = Tail(@)]
  <2> DEFINE s == conn[k].queue
             t == Tail(s)
  <2>1. /\ Len(s) \in Nat /\ Len(s) >= 1 /\ DOMAIN s = 1 .. Len(s)
        /\ f \in Frames /\ f \in FramesOf(s)
        /\ t \in Seq(Frames) /\ Len(t) = Len(s) - 1 /\ DOMAIN t = 1 .. Len(s) - 1
        /\ \A i \in DOMAIN t : i + 1 \in DOMAIN s /\ t[i] = s[i + 1]
        /\ FramesOf(t) \subseteq FramesOf(s)
    BY <1>1, <1>3, NonEmpty
  <2> HIDE DEF t
  <2>2. /\ conn' \in [Conn -> Handlers] /\ conn'[k].queue = t
        /\ conn'[k].snap = conn[k].snap
        /\ \A j \in Conn :
             /\ conn'[j].state = conn[j].state /\ conn'[j].of = conn[j].of
             /\ conn'[j].ackGen = conn[j].ackGen /\ conn'[j].closed = conn[j].closed
             /\ conn'[j].broken = conn[j].broken
             /\ j # k => conn'[j] = conn[j]
    <3>1. conn' = [conn EXCEPT ![k] = [conn[k] EXCEPT !.queue = t]]  BY <1>3 DEF t
    <3>2. [conn[k] EXCEPT !.queue = t] \in Handlers  BY <1>1, <2>1 DEF Handlers
    <3>3. conn[k] \in Handlers /\ conn \in [Conn -> Handlers]  BY <1>1 DEF StreamShape
    <3> QED  BY <3>1, <3>2, <3>3 DEF Handlers
  <2>3. Len(t) <= Len(s)  BY <2>1
  <2>5. LastLeft(s, t, f)  BY <1>1, <1>3, TailLast DEF t
  <2>4. ASSUME NEW g, \A i \in DOMAIN s : s[i].gen = g => i = Len(s),
               NEW i \in DOMAIN t, t[i].gen = g
        PROVE  i = Len(t)
    <3>1. i + 1 \in DOMAIN s /\ s[i + 1].gen = g  BY <2>1, <2>4
    <3>2. i + 1 = Len(s)  BY <2>4, <3>1
    <3>3. i \in Int  BY <2>1
    <3> QED  BY <2>1, <3>2, <3>3
  <2>6. /\ FramesOf(conn'[k].queue) \subseteq FramesOf(conn[k].queue)
        /\ Len(conn'[k].queue) <= Len(conn[k].queue)
        /\ LastLeft(conn[k].queue, conn'[k].queue, f)
        /\ f \in Frames /\ f \in FramesOf(conn[k].queue)
    BY <2>1, <2>2, <2>3, <2>5
  <2>7. \A g : (\A i \in DOMAIN conn[k].queue :
                 conn[k].queue[i].gen = g => i = Len(conn[k].queue))
              => (\A i \in DOMAIN conn'[k].queue :
                    conn'[k].queue[i].gen = g => i = Len(conn'[k].queue))
    BY <2>2, <2>4
  <2> HIDE DEF s
  <2> QED  BY <1>3, <2>2, <2>6, <2>7
<1> QED  BY <1>2, <1>3 DEF Read

\* One frame: the end, a sign of a running turn, or neither.
LEMMA ShownOne ==
  ASSUME NEW r \in BOOLEAN, NEW f \in Frames
  PROVE  /\ Shown(r, <<f>>) \in BOOLEAN
         /\ Shown(r, <<f>>) => r \/ f.type \in RunTypes
         /\ f.type = "ended" => ~ Shown(r, <<f>>)
<1> DEFINE told == {i \in DOMAIN <<f>> : <<f>>[i].type \notin {"gap", "truncated", "note"}}
<1>1. <<f>> \in Seq(Frames) /\ Len(<<f>>) = 1 /\ <<f>>[1] = f  BY OneFrame
<1>2. DOMAIN <<f>> = 1 .. 1  BY <1>1, SeqFrames
<1>3. \A i \in told : i = 1 /\ <<f>>[i] = f  BY <1>1, <1>2
<1>4. f.type \in RunTypes \cup {"ended", "gap", "truncated", "note"}  BY DEF Frames
<1>5. f.type = "ended" => 1 \in told  BY <1>1, <1>2
<1> HIDE DEF told
<1>6. Shown(r, <<f>>) = IF told = {} THEN r
                        ELSE \E i \in told : <<f>>[i].type # "ended" /\ \A j \in told : j <= i
  BY DEF Shown, told
<1>7. \A i \in told : f.type \in RunTypes \cup {"ended"}
  BY <1>1, <1>2, <1>4 DEF told
<1> QED  BY <1>3, <1>5, <1>6, <1>7

LEMMA HeardSound ==
  ASSUME StreamShape, NEW c \in Client, NEW f \in Frames, client' = Heard(c, f)
  PROVE  /\ client' \in [Client -> PageStates]
         /\ \A x \in Client : /\ client'[x].conn = client[x].conn
                              /\ x # c => client'[x] = client[x]
         /\ client'[c].running => client[c].running \/ f.type \in RunTypes
         /\ f.type = "ended" => ~ client'[c].running
<1> DEFINE r == Shown(client[c].running, <<f>>)
<1>1. client[c] \in PageStates /\ client[c].running \in BOOLEAN
  BY DEF StreamShape, PageStates
<1>2. /\ r \in BOOLEAN /\ (r => client[c].running \/ f.type \in RunTypes)
      /\ f.type = "ended" => ~ r
  BY <1>1, ShownOne
<1>3. client' = [client EXCEPT ![c].running = r]  BY DEF Heard
<1> HIDE DEF r
<1>4. [client[c] EXCEPT !.running = r] \in PageStates  BY <1>1, <1>2 DEF PageStates
<1> QED  BY <1>1, <1>2, <1>3, <1>4 DEF StreamShape, PageStates

\* A terminal read as the last frame of a connection leaves no running turn on
\* its page.
LEMMA LastRead ==
  ASSUME StreamShape, Wired, NEW k \in Conn, Open(k), ~ conn[k].broken, NEW f, Read(k, f),
         NEW c, c = conn[k].of, client' = Heard(c, f), f.type = "ended",
         conn'[k].snap = <<>>, conn'[k].queue = <<>>
  PROVE  ~ WillRun(c)'
<1>1. c \in Client /\ client[c].conn = k  BY DEF Wired
<1>2. f \in Frames  BY ReadSound
<1>3. ~ client'[c].running /\ client'[c].conn = k
  BY <1>1, <1>2, HeardSound
<1> QED  BY <1>3, EmptyFrames DEF WillRun, Live

\* The kept terminal of a draft is acknowledged by a stream of a client.
Acknowledged(d, k, c) ==
    /\ \E P \in {buffer[d].pending, buffer[d].pending \ {k}}, B \in SUBSET Client :
         /\ Moved(d, P, B, failed[d] \ {c}, ClientsOf(subs[d]))
         /\ Quiet(d) => B = failed[d] \ {c}
    /\ buffer[d].gen # 0 /\ c \in dropped' \cup ClientsOf(subs[d])
    /\ Quiet(d) => ~ WillRun(c)'

\* A frame read leaves the invariant, and so does the acknowledgement it carries.
LEMMA ReadKeeps ==
  ASSUME StreamInvariant, NEW k \in Conn, Open(k), ~ conn[k].broken, NEW f, Read(k, f),
         NEW c, c = conn[k].of, NEW d, d = draftOf[c],
         client' = Heard(c, f), draftOf' = draftOf, turns' = turns, subs' = subs,
         nextGen' = nextGen, silent' = silent,
         (buffer' = buffer /\ failed' = failed /\ dropped' = dropped) \/ Acknowledged(d, k, c)
  PROVE  StreamInvariant'
<1> USE DEF StreamInvariant
<1>1. c \in Client /\ client[c].conn = k /\ Home(k) = d /\ d \in Draft /\ k # NoConn
  BY NullAssumption DEF Wired, Home, StreamShape
<1>2. /\ conn' \in [Conn -> Handlers] /\ f \in Frames
      /\ f \in FramesOf(conn[k].snap) \cup FramesOf(conn[k].queue)
      /\ \A j \in Conn :
           /\ conn'[j].state = conn[j].state /\ conn'[j].of = conn[j].of
           /\ conn'[j].ackGen = conn[j].ackGen /\ conn'[j].closed = conn[j].closed
           /\ conn'[j].broken = conn[j].broken
           /\ j # k => conn'[j] = conn[j]
      /\ FramesOf(conn'[k].snap) \subseteq FramesOf(conn[k].snap)
      /\ FramesOf(conn'[k].queue) \subseteq FramesOf(conn[k].queue)
      /\ Len(conn'[k].queue) <= Len(conn[k].queue)
      /\ conn[k].queue = <<>> => conn'[k].queue = <<>>
      /\ conn[k].snap # <<>> => conn'[k].queue = conn[k].queue
      /\ conn[k].snap = <<>> => conn'[k].snap = <<>> /\ conn[k].queue # <<>>
      /\ conn[k].snap # <<>> => LastLeft(conn[k].snap, conn'[k].snap, f)
      /\ conn[k].snap = <<>> => LastLeft(conn[k].queue, conn'[k].queue, f)
      /\ \A g : (\A i \in DOMAIN conn[k].queue :
                   conn[k].queue[i].gen = g => i = Len(conn[k].queue))
                => (\A i \in DOMAIN conn'[k].queue :
                      conn'[k].queue[i].gen = g => i = Len(conn'[k].queue))
  BY ReadSound
<1>3. /\ client' \in [Client -> PageStates]
      /\ \A x \in Client : /\ client'[x].conn = client[x].conn
                           /\ x # c => client'[x] = client[x]
      /\ client'[c].running => client[c].running \/ f.type \in RunTypes
  BY <1>1, <1>2, HeardSound
<1>4. /\ buffer' \in [Draft -> Buffers] /\ failed' \in [Draft -> SUBSET Client]
      /\ dropped' \subseteq Client /\ dropped \subseteq dropped'
      /\ Cardinality(Waiting(buffer')) <= RecoveryLimit
      /\ BuffersSound'
      /\ \A e \in Draft : /\ Quiet(e)' = Quiet(e)
                          /\ Len(buffer'[e].events) <= BufferLimit
                          /\ Upto(buffer'[e].events, nextGen')
                          /\ buffer'[e].gen <= nextGen'
                          /\ buffer'[e].gen = buffer[e].gen \/ buffer'[e].gen = 0
                          /\ buffer'[e].pending \subseteq buffer[e].pending
  <2>1. CASE buffer' = buffer /\ failed' = failed /\ dropped' = dropped
    <3>1. BuffersSound' /\ \A e \in Draft : Quiet(e)' = Quiet(e)  BY <2>1, BuffersStay
    <3> QED  BY <2>1, <3>1 DEF StreamShape, Limits, Timely
  <2>2. CASE Acknowledged(d, k, c)
    <3>1. PICK P \in {buffer[d].pending, buffer[d].pending \ {k}}, B \in SUBSET Client :
                 /\ Moved(d, P, B, failed[d] \ {c}, ClientsOf(subs[d]))
                 /\ Quiet(d) => B = failed[d] \ {c}
      <4> HIDE DEF StreamInvariant
      <4> QED  BY Zenon, <2>2 DEF Acknowledged
    <3>0. buffer[d].gen # 0  BY <2>2 DEF Acknowledged
    <3>2. P \subseteq buffer[d].pending /\ (Quiet(d) => P \subseteq subs'[d])
      BY <1>1, <3>1 DEF BuffersSound, BufferSound
    <3>3. /\ BuffersSound'
          /\ \A e \in Draft : /\ Quiet(e)' = Quiet(e)
                              /\ Len(buffer'[e].events) <= BufferLimit
                              /\ Upto(buffer'[e].events, nextGen')
                              /\ buffer'[e].gen <= nextGen'
                              /\ buffer'[e].gen = buffer[e].gen \/ buffer'[e].gen = 0
                              /\ buffer'[e].pending
                                   \subseteq IF e = d THEN P ELSE buffer[e].pending
      BY <1>1, <3>0, <3>1, <3>2, MovedBuffers
    <3>4. /\ buffer' \in [Draft -> Buffers] /\ failed' \in [Draft -> SUBSET Client]
          /\ dropped' \subseteq Client /\ dropped \subseteq dropped'
          /\ Cardinality(Waiting(buffer')) <= RecoveryLimit
      BY <3>1 DEF Moved
    <3>5. \A e \in Draft : buffer'[e].pending \subseteq buffer[e].pending  BY <3>2, <3>3
    <3> QED  BY Zenon, <3>3, <3>4, <3>5
  <2> QED  BY <2>1, <2>2
<1>5. StreamShape'  BY <1>2, <1>3, <1>4 DEF StreamShape
<1>6. Wired'
  <2>1. ASSUME NEW j \in Conn, Open(j)'
        PROVE  /\ conn'[j].of \in Client
               /\ ~ conn'[j].broken => client'[conn'[j].of].conn = j
               /\ ~ conn'[j].closed => j \in subs'[Home(j)']
    BY <1>2, <1>3, <2>1 DEF Wired, Open, Home
  <2>2. ASSUME NEW e \in Draft, NEW j \in subs'[e]
        PROVE  Open(j)' /\ ~ conn'[j].closed /\ Home(j)' = e
    <3>1. j \in Conn /\ j \in subs[e]  BY <2>2 DEF StreamShape
    <3> QED  BY <1>2, <3>1 DEF Wired, Open, Home
  <2>3. ASSUME NEW e \in Draft, NEW j \in buffer'[e].pending \ {Gone}
        PROVE  Open(j)' /\ Home(j)' = e
    <3>1. j \in buffer[e].pending \ {Gone} /\ buffer[e] \in Buffers  BY <1>4, <2>3 DEF StreamShape
    <3>2. j \in Conn /\ Open(j) /\ Home(j) = e  BY <3>1 DEF Wired, Buffers
    <3> QED  BY <1>2, <3>2 DEF Open, Home
  <2>4. ASSUME NEW x \in Client, client'[x].conn # NoConn
        PROVE  /\ conn'[client'[x].conn].state = "open" /\ conn'[client'[x].conn].of = x
               /\ ~ conn'[client'[x].conn].broken
    <3> DEFINE j == client[x].conn
    <3>1. client'[x].conn = j /\ j # NoConn  BY <1>3, <2>4
    <3>2. conn[j].state = "open" /\ conn[j].of = x /\ ~ conn[j].broken /\ j \in Conn
      BY <3>1 DEF Wired, Open, StreamShape, PageStates
    <3> QED  BY <1>2, <3>1, <3>2
  <2> QED  BY <2>1, <2>2, <2>3, <2>4 DEF Wired, Open
<1>7. Limits'
  <2>1. Len(conn'[k].queue) <= QueueLimit
    <3>1. conn[k].queue \in Seq(Frames) /\ conn'[k].queue \in Seq(Frames)
      BY <1>2 DEF StreamShape, Handlers
    <3>2. Len(conn[k].queue) \in Nat /\ Len(conn'[k].queue) \in Nat  BY <3>1, SeqFrames
    <3>3. QueueLimit \in Nat /\ Len(conn[k].queue) <= QueueLimit
      BY TurnStreamAssumption DEF Limits
    <3> QED  BY <1>2, <3>2, <3>3
  <2>2. \A j \in Conn : Len(conn'[j].queue) <= QueueLimit
    <3> SUFFICES ASSUME NEW j \in Conn PROVE Len(conn'[j].queue) <= QueueLimit
      OBVIOUS
    <3>1. CASE j = k  BY <2>1, <3>1
    <3>2. CASE j # k  BY <1>2, <3>2 DEF Limits
    <3> QED  BY <3>1, <3>2
  <2> QED  BY <1>4, <2>2 DEF Limits
<1>8. Timely'
  <2>1. ASSUME NEW j \in Conn, Open(j)'
        PROVE  /\ Upto(conn'[j].snap, nextGen') /\ Upto(conn'[j].queue, nextGen')
               /\ conn'[j].ackGen <= nextGen'
    <3>1. Open(j)  BY <1>2, <2>1 DEF Open
    <3>2. /\ Upto(conn[j].snap, nextGen) /\ Upto(conn[j].queue, nextGen)
          /\ conn[j].ackGen <= nextGen
      BY <3>1 DEF Timely
    <3>3. CASE j = k  BY <1>2, <3>1, <3>2, <3>3 DEF Upto
    <3>4. CASE j # k  BY <1>2, <3>1, <3>2, <3>4
    <3> QED  BY <3>3, <3>4
  <2> QED  BY <1>4, <2>1 DEF Timely
<1>9. StreamsSound'
  <2> SUFFICES ASSUME NEW j \in Conn, Open(j)' PROVE StreamSound(j)'
    BY DEF StreamsSound
  <2>0. PICK e : e = Home(j)  OBVIOUS
  <2>1. Open(j) /\ Home(j)' = e /\ e \in Draft
    BY <1>2, <2>0 DEF Open, Home, Wired, StreamShape
  <2>2. StreamSound(j)  BY <2>1 DEF StreamsSound
  <2>3. /\ buffer'[e].gen = buffer[e].gen \/ buffer'[e].gen = 0
        /\ buffer'[e].pending \subseteq buffer[e].pending /\ Quiet(e)' = Quiet(e)
    BY <1>4, <2>1
  <2>4. CASE j # k
    <3>1. conn'[j] = conn[j]  BY <1>2, <2>4
    <3> QED  BY <2>0, <2>1, <2>2, <2>3, <3>1 DEF StreamSound
  <2>5. CASE j = k
    <3>1. \A g \in FramesOf(conn'[k].snap) : g.gen \in {0, conn'[k].ackGen}
      BY <1>2, <2>2, <2>5 DEF StreamSound
    <3>2. ASSUME Quiet(e), buffer'[e].gen # 0, k \in buffer'[e].pending
          PROVE  \A i \in DOMAIN conn'[k].queue :
                   conn'[k].queue[i].gen = buffer'[e].gen => i = Len(conn'[k].queue)
      <4>1. buffer'[e].gen = buffer[e].gen /\ buffer[e].gen # 0 /\ k \in buffer[e].pending
        BY <2>3, <3>2
      <4>2. \A i \in DOMAIN conn[k].queue :
              conn[k].queue[i].gen = buffer[e].gen => i = Len(conn[k].queue)
        BY <2>0, <2>2, <2>5, <3>2, <4>1 DEF StreamSound
      <4>3. \A i \in DOMAIN conn'[k].queue :
              conn'[k].queue[i].gen = buffer[e].gen => i = Len(conn'[k].queue)
        BY <1>2, <4>2
      <4> QED  BY <4>1, <4>3
    <3>3. ASSUME buffer'[e].gen # 0, conn'[k].ackGen = buffer'[e].gen
          PROVE  /\ k \notin buffer'[e].pending
                 /\ Quiet(e) => /\ conn'[k].queue = <<>> /\ ~ Live(conn'[k].snap)
                                /\ conn'[k].snap # <<>> => Ends(conn'[k].snap)
      <4>1. buffer'[e].gen = buffer[e].gen /\ buffer[e].gen # 0 /\ conn[k].ackGen = buffer[e].gen
        BY <1>2, <2>3, <3>3
      <4>2. /\ k \notin buffer[e].pending
            /\ Quiet(e) => /\ conn[k].queue = <<>> /\ ~ Live(conn[k].snap)
                           /\ conn[k].snap # <<>> => Ends(conn[k].snap)
        BY <2>0, <2>2, <2>5, <4>1 DEF StreamSound
      <4>3. Quiet(e) => conn'[k].queue = <<>> /\ ~ Live(conn'[k].snap)
        BY <1>2, <4>2 DEF Live
      <4>4. Quiet(e) /\ conn'[k].snap # <<>> => Ends(conn'[k].snap)
        BY <1>2, <4>2 DEF Ends, LastLeft
      <4> QED  BY <2>3, <4>2, <4>3, <4>4
    <3> QED  BY <2>1, <2>3, <2>5, <3>1, <3>2, <3>3 DEF StreamSound
  <2> QED  BY <2>4, <2>5
<1>10. ASSUME NEW x \in Client
       PROVE  /\ WillRun(x)' => WillRun(x)
              /\ x # c /\ client[x].conn # NoConn => client[x].conn \in Conn /\ client[x].conn # k
  <2>1. CASE x = c
    <3>1. client[c].conn = k /\ client'[c].conn = k  BY <1>1, <1>3
    <3>2. Live(conn'[k].snap) \/ Live(conn'[k].queue)
            => Live(conn[k].snap) \/ Live(conn[k].queue)
      BY <1>2 DEF Live
    <3>3. f.type \in RunTypes => Live(conn[k].snap) \/ Live(conn[k].queue)
      BY <1>2 DEF Live
    <3> QED  BY <1>1, <1>3, <2>1, <3>1, <3>2, <3>3 DEF WillRun
  <2>2. CASE x # c
    <3>1. client'[x] = client[x]  BY <1>3, <2>2
    <3>2. client[x].conn # NoConn => client[x].conn \in Conn /\ client[x].conn # k
      BY <2>2 DEF Wired, StreamShape, PageStates
    <3> QED  BY <1>2, <3>1, <3>2 DEF WillRun
  <2> QED  BY <2>1, <2>2
<1>11. ASSUME NEW x \in Client PROVE Told(x)'
  <2>2. draftOf[x] \in Draft  BY DEF StreamShape
  <2>3. CASE buffer' = buffer /\ failed' = failed /\ dropped' = dropped
    BY <1>2, <1>4, <1>10, <2>2, <2>3, ToldStays
  <2>4. CASE Acknowledged(d, k, c)
    <3>1. CASE x = c /\ Quiet(d)  BY <2>4, <3>1 DEF Told, Acknowledged
    <3>2. CASE ~ (x = c /\ Quiet(d))
      <4>1. PICK P \in {buffer[d].pending, buffer[d].pending \ {k}}, B \in SUBSET Client :
                   /\ Moved(d, P, B, failed[d] \ {c}, ClientsOf(subs[d]))
                   /\ Quiet(d) => B = failed[d] \ {c}
        BY Zenon, <2>4 DEF Acknowledged
      <4>2. PICK C, K : C = failed[d] \ {c} /\ K = ClientsOf(subs[d])  OBVIOUS
      <4>3. Quiet(d) => /\ B = C /\ (x \in failed[d] => x \in C)
                        /\ \A j \in buffer[d].pending \ {Gone} : conn[j].of = x =>
                             x \in C \/ (j \in P /\ conn'[j].of = x)
        <5>1. buffer[d].pending \subseteq Conn \cup {Gone}  BY <1>1 DEF StreamShape, Buffers
        <5>2. Quiet(d) => x # c  BY <3>2
        <5> QED  BY <1>2, <4>1, <4>2, <5>1, <5>2
      <4>4. K = {conn'[j].of : j \in subs'[d]}
        <5>1. subs[d] \subseteq Conn  BY <1>1 DEF StreamShape
        <5> QED  BY <1>2, <4>2, <5>1 DEF ClientsOf
      <4>5. x \in Watching(d) /\ x \notin dropped' => x \in C \/ \E j \in subs'[d] : conn'[j].of = x
        <5>1. c \in dropped' \cup K  BY Zenon, <2>4, <4>2 DEF Acknowledged
        <5>2. Watching(d) = failed[d] \cup K  BY <4>2 DEF Watching
        <5>3. x \in K => \E j \in subs'[d] : conn'[j].of = x  BY <4>4
        <5>4. x \in failed[d] => x \in C \/ x = c  BY <4>2
        <5> QED  BY <5>1, <5>2, <5>3, <5>4
      <4>6. Moved(d, P, B, C, K)  BY <4>1, <4>2
      <4>7. /\ \A e \in Draft : Quiet(e)' = Quiet(e)
            /\ WillRun(x)' => WillRun(x)
        BY <1>4, <1>10
      <4>8. draftOf[x] # d =>
              /\ subs[draftOf[x]] \subseteq subs'[draftOf[x]]
              /\ \A j \in Conn : j \in subs[draftOf[x]] \cup buffer[draftOf[x]].pending
                                   => conn'[j].of = conn[j].of
        BY <1>2
      <4>9. StreamShape /\ Wired /\ BuffersSound /\ AllTold  OBVIOUS
      <4>10. draftOf[x] = d /\ Quiet(d) =>
               /\ B = C /\ (x \in failed[d] => x \in C)
               /\ \A j \in buffer[d].pending \ {Gone} : conn[j].of = x =>
                    x \in C \/ (j \in P /\ conn'[j].of = x)
        BY <4>3
      <4>11. draftOf[x] = d /\ ~ Quiet(d) /\ x \in Watching(d) /\ x \notin dropped' =>
               x \in C \/ \E j \in subs'[d] : conn'[j].of = x
        BY <4>5
      <4>12. K \subseteq {conn'[j].of : j \in subs'[d]}  BY <4>4
      <4> HIDE DEF StreamInvariant
      <4> QED  BY <1>1, <4>6, <4>7, <4>8, <4>9, <4>10, <4>11, <4>12, MovedTold
    <3> QED  BY <3>1, <3>2
  <2> QED  BY <2>3, <2>4
<1>12. ASSUME NEW x \in Client PROVE EndsLast(x)'
  <2>0. draftOf[x] \in Draft  BY DEF StreamShape
  <2>1. CASE x # c
    <3>1. client[x].conn \in subs[draftOf[x]] => conn'[client[x].conn] = conn[client[x].conn]
      <4>1. client[x].conn \in subs[draftOf[x]] => client[x].conn \in Conn /\ client[x].conn # NoConn
        BY <2>0, NullAssumption DEF StreamShape
      <4> QED  BY <1>2, <1>10, <2>1, <4>1
    <3> QED  BY <1>3, <1>4, <1>10, <2>0, <3>1, EndsStays
  <2>2. CASE x = c
    <3> SUFFICES ASSUME Quiet(d), c \notin dropped, WillRun(c)', k \in subs[d]
                 PROVE  IF conn'[k].queue # <<>> THEN Ends(conn'[k].queue) ELSE Ends(conn'[k].snap)
      BY <1>1, <1>3, <1>4, <2>2 DEF EndsLast
    <3>1. WillRun(c)  BY <1>1, <1>10
    <3>2. IF conn[k].queue # <<>> THEN Ends(conn[k].queue) ELSE Ends(conn[k].snap)
      BY <1>1, <3>1 DEF AllEnd, EndsLast
    <3>3. ~ (f.type = "ended" /\ conn'[k].snap = <<>> /\ conn'[k].queue = <<>>)
      BY LastRead
    <3>4. CASE conn[k].snap # <<>>
      BY <1>2, <3>2, <3>3, <3>4 DEF Ends, LastLeft
    <3>5. CASE conn[k].snap = <<>>
      BY <1>2, <3>2, <3>3, <3>5 DEF Ends, LastLeft
    <3> QED  BY <3>4, <3>5
  <2> QED  BY <2>1, <2>2
<1> QED  BY <1>5, <1>6, <1>7, <1>8, <1>4, <1>9, <1>11, <1>12 DEF AllTold, AllEnd

\* WriteLive: once all turns have ended, a terminal it acknowledges is the last
\* frame of its channel.
LEMMA WriteLiveKeeps ==
  ASSUME StreamInvariant, NEW k \in Conn, WriteLive(k)
  PROVE  StreamInvariant'
<1> USE DEF StreamInvariant
<1>0. PICK c, d, f : c = conn[k].of /\ d = draftOf[c] /\ f = Head(conn[k].queue)
  OBVIOUS
<1> DEFINE b == buffer[d]
<1>1. /\ Open(k) /\ ~ conn[k].broken /\ conn[k].snap = <<>> /\ conn[k].queue # <<>>
      /\ client' = Heard(c, f) /\ conn' = [conn EXCEPT ![k].queue = Tail(@)]
      /\ AcknowledgeEvent(d, k, f.gen)
      /\ draftOf' = draftOf /\ turns' = turns /\ subs' = subs /\ nextGen' = nextGen
      /\ silent' = silent
  BY <1>0 DEF WriteLive, Open
<1>2. Read(k, f)  BY <1>0, <1>1 DEF Read
<1>3. c \in Client /\ Home(k) = d /\ d \in Draft /\ b \in Buffers
  BY <1>0, <1>1 DEF Wired, Home, StreamShape
<1>4. ASSUME f.gen # 0, b.gen = f.gen, k \in b.pending
      PROVE  Acknowledged(d, k, c)
  <2> DEFINE P == b.pending \ {k}
             B == b.failed \ {c}
  <2>1. Quiet(d) => B = failed[d] \ {c}
    BY <1>3 DEF BuffersSound, BufferSound
  <2>2. Settle(d, k, [b EXCEPT !.pending = P, !.failed = B])
    <3>1. Settle(d, k, [b EXCEPT !.pending = @ \ {k}, !.failed = @ \ {conn[k].of}])
      BY <1>1, <1>4 DEF AcknowledgeEvent
    <3>2. [b EXCEPT !.pending = @ \ {k}, !.failed = @ \ {conn[k].of}]
            = [b EXCEPT !.pending = P, !.failed = B]
      BY <1>0, <1>3 DEF Buffers
    <3> HIDE DEF P, B
    <3> QED  BY <3>1, <3>2
  <2>4. P \in SUBSET (Conn \cup {Gone}) /\ B \in SUBSET Client
    BY <1>3 DEF Buffers
  <2> HIDE DEF P, B
  <2>5. Moved(d, P, B, failed[d] \ {c}, ClientsOf(subs[d])) /\ c \in dropped' \cup ClientsOf(subs[d])
    BY Zenon, <1>0, <1>3, <2>2, <2>4, SettleMoves DEF BuffersSound
  <2>6. /\ conn[k].queue \in Seq(Frames) /\ conn[k] \in Handlers
        /\ Len(conn[k].queue) \in Nat /\ Len(conn[k].queue) >= 1
        /\ DOMAIN conn[k].queue = 1 .. Len(conn[k].queue)
        /\ f = conn[k].queue[1] /\ f \in Frames
        /\ Tail(conn[k].queue) \in Seq(Frames)
        /\ Len(Tail(conn[k].queue)) = Len(conn[k].queue) - 1
    <3>1. conn[k] \in Handlers /\ conn[k].queue \in Seq(Frames)
      BY DEF StreamShape, Handlers
    <3> QED  BY <1>0, <1>1, <3>1, NonEmpty
  <2>7. ASSUME Quiet(d) PROVE ~ WillRun(c)'
    <3>1. Len(conn[k].queue) = 1
      <4>1. 1 \in DOMAIN conn[k].queue  BY <2>6
      <4> QED  BY <1>1, <1>3, <1>4, <2>6, <2>7, <4>1 DEF StreamsSound, StreamSound
    <3>2. Tail(conn[k].queue) = <<>>  BY <2>6, <3>1, NonEmpty
    <3>3. conn'[k].snap = <<>> /\ conn'[k].queue = <<>>
      BY <1>1, <2>6, <3>2 DEF StreamShape, Handlers
    <3>4. f.type = "ended"  BY <1>4, <2>6 DEF Frames
    <3> QED  BY <1>0, <1>1, <1>2, <3>3, <3>4, LastRead
  <2> QED  BY <1>4, <2>1, <2>4, <2>5, <2>7 DEF P, Acknowledged
<1>5. CASE f.gen = 0 \/ b.gen # f.gen \/ k \notin b.pending
  <2>1. buffer' = buffer /\ failed' = failed /\ dropped' = dropped
    BY <1>1, <1>5 DEF AcknowledgeEvent
  <2> HIDE DEF StreamInvariant
  <2> QED  BY <1>0, <1>1, <1>2, <2>1, ReadKeeps
<1>6. CASE f.gen # 0 /\ b.gen = f.gen /\ k \in b.pending
  <2>1. Acknowledged(d, k, c)  BY <1>4, <1>6
  <2> HIDE DEF StreamInvariant
  <2> QED  BY <1>0, <1>1, <1>2, <2>1, ReadKeeps
<1> QED  BY <1>5, <1>6


\* WriteSnapshot: only the last frame of a snapshot acknowledges it, and then,
\* once all turns have ended, nothing follows on the connection.
LEMMA WriteSnapshotKeeps ==
  ASSUME StreamInvariant, NEW k \in Conn, WriteSnapshot(k)
  PROVE  StreamInvariant'
<1> USE DEF StreamInvariant
<1>0. PICK c, d, f : c = conn[k].of /\ d = draftOf[c] /\ f = Head(conn[k].snap)
  OBVIOUS
<1> DEFINE b == buffer[d]
<1>1. /\ Open(k) /\ ~ conn[k].broken /\ conn[k].snap # <<>>
      /\ client' = Heard(c, f) /\ conn' = [conn EXCEPT ![k].snap = Tail(@)]
      /\ IF Len(conn[k].snap) = 1 THEN AcknowledgeSnapshot(d, k)
         ELSE AcknowledgeEvent(d, k, f.gen)
      /\ draftOf' = draftOf /\ turns' = turns /\ subs' = subs /\ nextGen' = nextGen
      /\ silent' = silent
  BY <1>0 DEF WriteSnapshot, LastOfSnapshot, Open
<1>2. Read(k, f)  BY <1>0, <1>1 DEF Read
<1>3. c \in Client /\ Home(k) = d /\ d \in Draft /\ b \in Buffers
  BY <1>0, <1>1 DEF Wired, Home, StreamShape
<1>4. StreamSound(k)  BY <1>1 DEF StreamsSound
<1>5. /\ conn[k].snap \in Seq(Frames) /\ conn[k] \in Handlers
      /\ Len(conn[k].snap) \in Nat /\ Len(conn[k].snap) >= 1
      /\ f = conn[k].snap[1] /\ f \in Frames /\ f \in FramesOf(conn[k].snap)
      /\ Tail(conn[k].snap) \in Seq(Frames)
      /\ Len(Tail(conn[k].snap)) = Len(conn[k].snap) - 1
  <2>1. conn[k] \in Handlers /\ conn[k].snap \in Seq(Frames)
    BY DEF StreamShape, Handlers
  <2> QED  BY <1>0, <1>1, <2>1, NonEmpty
<1>6. CASE Len(conn[k].snap) # 1
  <2>1. f.gen = 0 \/ b.gen # f.gen \/ k \notin b.pending
    <3>1. f.gen \in {0, conn[k].ackGen}  BY <1>4, <1>5 DEF StreamSound
    <3> QED  BY <1>3, <1>4, <3>1 DEF StreamSound
  <2>2. buffer' = buffer /\ failed' = failed /\ dropped' = dropped
    BY <1>1, <1>6, <2>1 DEF AcknowledgeEvent
  <2> HIDE DEF StreamInvariant
  <2> QED  BY <1>0, <1>1, <1>2, <2>2, ReadKeeps
<1>7. CASE Len(conn[k].snap) = 1 /\ (conn[k].ackGen = 0 \/ b.gen # conn[k].ackGen)
  <2>1. buffer' = buffer /\ failed' = failed /\ dropped' = dropped
    BY <1>1, <1>7 DEF AcknowledgeSnapshot
  <2> HIDE DEF StreamInvariant
  <2> QED  BY <1>0, <1>1, <1>2, <2>1, ReadKeeps
<1>8. CASE Len(conn[k].snap) = 1 /\ conn[k].ackGen # 0 /\ b.gen = conn[k].ackGen
  <2>0. PICK P, B : P = b.pending /\ B = b.failed \ {c}  OBVIOUS
  <2>1. Quiet(d) => B = failed[d] \ {c}
    BY <1>3, <2>0 DEF BuffersSound, BufferSound
  <2>2. Settle(d, k, [b EXCEPT !.pending = P, !.failed = B])
    <3>1. Settle(d, k, [b EXCEPT !.failed = @ \ {conn[k].of}])
      BY <1>1, <1>8 DEF AcknowledgeSnapshot
    <3>2. [b EXCEPT !.failed = @ \ {conn[k].of}] = [b EXCEPT !.pending = P, !.failed = B]
      BY <1>0, <1>3, <2>0 DEF Buffers
    <3> QED  BY <3>1, <3>2
  <2>3. P \in SUBSET (Conn \cup {Gone}) /\ B \in SUBSET Client
    BY <1>3, <2>0 DEF Buffers
  <2>4. Moved(d, P, B, failed[d] \ {c}, ClientsOf(subs[d])) /\ c \in dropped' \cup ClientsOf(subs[d])
    BY Zenon, <1>0, <1>3, <2>2, <2>3, SettleMoves DEF BuffersSound
  <2>5. ASSUME Quiet(d) PROVE ~ WillRun(c)'
    <3>1. conn[k].queue = <<>> /\ Ends(conn[k].snap)
      BY <1>1, <1>3, <1>4, <1>8, <2>5 DEF StreamSound
    <3>2. Tail(conn[k].snap) = <<>>  BY <1>5, <1>8, NonEmpty
    <3>3. conn'[k].snap = <<>> /\ conn'[k].queue = <<>>
      BY <1>1, <1>5, <3>1, <3>2 DEF StreamShape, Handlers
    <3>4. f.type = "ended"  BY <1>5, <1>8, <3>1 DEF Ends
    <3> QED  BY <1>0, <1>1, <1>2, <3>3, <3>4, LastRead
  <2>6. Acknowledged(d, k, c)
    BY <1>8, <2>0, <2>1, <2>3, <2>4, <2>5 DEF Acknowledged
  <2> HIDE DEF StreamInvariant
  <2> QED  BY <1>0, <1>1, <1>2, <2>6, ReadKeeps
<1> QED  BY <1>6, <1>7, <1>8

\* The tables when a handler leaves that acknowledged what it had to, or had
\* nothing to acknowledge.
LeavesNothing(d, k, c) ==
    /\ k \notin buffer[d].pending /\ buffer' = buffer
    /\ failed' = [failed EXCEPT ![d] = failed[d] \cup (IF subs[d] = {} THEN {} ELSE Lost(d, k))]
    /\ dropped' = dropped \cup Missed(d, k, failed'[d])

\* And when it leaves a terminal that it had not written.
LeavesTerminal(d, k, c) ==
    /\ k \in buffer[d].pending /\ buffer[d].gen # 0
    /\ \E P \in SUBSET (Conn \cup {Gone}), B \in SUBSET Client, C \in SUBSET Client :
         /\ P \subseteq (buffer[d].pending \ {k}) \cup {Gone}
         /\ buffer[d].pending \ {k} \subseteq P
         /\ Moved(d, P, B, C, {}) /\ failed[d] \subseteq C
         /\ subs[d] # {} => c \in C
         /\ Quiet(d) => B = C /\ P \subseteq subs[d] /\ c \in C

LEMMA UnsubscribeTables ==
  ASSUME StreamInvariant, NEW k \in Conn, Unsubscribe(k),
         NEW c, c = conn[k].of, NEW d, d = draftOf[c]
  PROVE  LeavesNothing(d, k, c) \/ LeavesTerminal(d, k, c)
<1> USE DEF StreamInvariant
<1> DEFINE b == buffer[d]
           gone == [b EXCEPT !.pending = (@ \ {k}) \cup {Gone}]
           rest == [b EXCEPT !.pending = @ \ {k}, !.failed = @ \cup {c}]
<1>1. c \in Client /\ d \in Draft /\ b \in Buffers /\ Home(k) = d
  BY DEF Unsubscribe, Wired, Open, StreamShape, Home
<1>2. /\ Lost(d, k) \subseteq {c} /\ (~ turns[d].active => Lost(d, k) = {})
      /\ \A S : Missed(d, k, S) \subseteq {c}
  BY DEF Lost, Missed
<1>3. BufferSound(d)  BY <1>1 DEF BuffersSound
<1>4. CASE k \notin b.pending /\ subs[d] = {}
  <2>1. /\ buffer' = buffer /\ dropped' = dropped \cup Missed(d, k, failed[d]) /\ failed' = failed
    BY <1>4 DEF Unsubscribe
  <2>2. failed' = [failed EXCEPT ![d] = failed[d] \cup {}] /\ failed'[d] = failed[d]
    BY <1>1, <2>1 DEF StreamShape
  <2> QED  BY <1>4, <2>1, <2>2 DEF LeavesNothing
<1>5. CASE k \notin b.pending /\ subs[d] # {}
  <2>0. PICK cl : cl = [failed EXCEPT ![d] = @ \cup Lost(d, k) \cup {}]  OBVIOUS
  <2>1. buffer' = buffer /\ dropped' = dropped \cup Missed(d, k, cl[d]) /\ failed' = cl
    BY <1>5, <2>0 DEF Unsubscribe
  <2>2. cl = [failed EXCEPT ![d] = failed[d] \cup Lost(d, k)]
    BY <1>1, <2>0 DEF StreamShape
  <2> QED  BY <1>5, <2>1, <2>2 DEF LeavesNothing
<1>6. CASE k \in b.pending /\ subs[d] = {}
  <2>0. PICK P, B, C : P = (b.pending \ {k}) \cup {Gone} /\ B = b.failed /\ C = failed[d]
    OBVIOUS
  <2>1. /\ buffer' = [buffer EXCEPT ![d] = gone] /\ failed' = failed
        /\ dropped' = dropped \cup Missed(d, k, failed[d])
    BY <1>6 DEF Unsubscribe
  <2>2. gone = [b EXCEPT !.pending = P, !.failed = B]
    BY <1>1, <2>0 DEF Buffers
  <2>3. failed' = [failed EXCEPT ![d] = C]  BY <1>1, <2>0, <2>1 DEF StreamShape
  <2>4. /\ P \in SUBSET (Conn \cup {Gone}) /\ B \in SUBSET Client /\ C \in SUBSET Client
        /\ P # {} /\ Missed(d, k, failed[d]) \in SUBSET Client
    BY <1>1, <1>2, <2>0 DEF Buffers, StreamShape
  <2>5. Distinct  BY DEF BuffersSound
  <2> HIDE DEF gone, StreamInvariant
  <2>6. StreamShape /\ Limits  BY DEF StreamInvariant
  <2>7. Moved(d, P, B, C, {})  BY Zenon, <1>1, <2>1, <2>2, <2>3, <2>4, <2>5, <2>6, TablesMoved
  <2>8. ~ Quiet(d)  BY <1>3, <1>6 DEF BufferSound
  <2>9. b.gen # 0  BY <1>3, <1>6 DEF BufferSound
  <2> QED  BY <1>6, <2>0, <2>4, <2>7, <2>8, <2>9 DEF LeavesTerminal
<1>7. CASE k \in b.pending /\ subs[d] # {}
  <2>0. PICK P, B, C : P = b.pending \ {k} /\ B = b.failed \cup {c} /\ C = failed[d] \cup {c}
    OBVIOUS
  <2>11. PICK cl : cl = [failed EXCEPT ![d] = @ \cup Lost(d, k) \cup {c}]  OBVIOUS
  <2>12. PICK lost : lost = IF P = {} THEN {} ELSE Missed(d, k, cl[d])  OBVIOUS
  <2>1. rest = [b EXCEPT !.pending = P, !.failed = B] /\ rest.pending = P
    BY <1>1, <2>0 DEF Buffers
  <2>2. cl = [failed EXCEPT ![d] = C]
    <3>1. failed[d] \cup Lost(d, k) \cup {c} = C  BY <1>2, <2>0
    <3> QED  BY <1>1, <2>11, <3>1 DEF StreamShape
  <2>3. IF P = {} THEN Enforced([buffer EXCEPT ![d] = rest], cl, {})
        ELSE /\ buffer' = [buffer EXCEPT ![d] = rest]
             /\ failed' = cl /\ dropped' = dropped \cup Missed(d, k, cl[d])
    BY <1>7, <2>1, <2>11 DEF Unsubscribe
  <2>4. /\ P \in SUBSET (Conn \cup {Gone}) /\ B \in SUBSET Client /\ C \in SUBSET Client
        /\ B # {} /\ lost \in SUBSET Client
    BY <1>1, <1>2, <2>0, <2>12 DEF Buffers, StreamShape
  <2>5. Distinct  BY DEF BuffersSound
  <2> HIDE DEF rest, StreamInvariant
  <2>6. StreamShape /\ Limits  BY DEF StreamInvariant
  <2>7. IF P = {} THEN Enforced([buffer EXCEPT ![d] = [b EXCEPT !.pending = P, !.failed = B]],
                                [failed EXCEPT ![d] = C], lost)
        ELSE /\ buffer' = [buffer EXCEPT ![d] = [b EXCEPT !.pending = P, !.failed = B]]
             /\ failed' = [failed EXCEPT ![d] = C] /\ dropped' = dropped \cup lost
    BY <2>1, <2>2, <2>3, <2>12
  <2>8. Moved(d, P, B, C, {})  BY Zenon, <1>1, <2>4, <2>5, <2>6, <2>7, TablesMoved
  <2>9. Quiet(d) => B = C /\ P \subseteq subs[d]
    BY <1>3, <2>0 DEF BufferSound
  <2>10. b.gen # 0  BY <1>3, <1>7 DEF BufferSound
  <2> QED  BY <1>7, <2>0, <2>4, <2>8, <2>9, <2>10 DEF LeavesTerminal
<1> QED  BY <1>4, <1>5, <1>6, <1>7

\* A handler that leaves: its client is to be told, of the end of the turn that
\* runs or of the terminal it was still to be sent, or the hub forgets it.
LEMMA UnsubscribeKeeps ==
  ASSUME StreamInvariant, NEW k \in Conn, Unsubscribe(k)
  PROVE  StreamInvariant'
<1> USE DEF StreamInvariant
<1>0. PICK c, d : c = conn[k].of /\ d = draftOf[c]
  OBVIOUS
<1>1. /\ Open(k) /\ (conn[k].broken \/ conn[k].closed)
      /\ conn' = [conn EXCEPT ![k] = Idle]
      /\ client' = [client EXCEPT ![c].conn = IF @ = k THEN NoConn ELSE @]
      /\ subs' = [subs EXCEPT ![d] = @ \ {k}]
      /\ draftOf' = draftOf /\ turns' = turns /\ nextGen' = nextGen /\ silent' = silent
  BY <1>0 DEF Unsubscribe, Open
<1>2. /\ c \in Client /\ Home(k) = d /\ d \in Draft /\ buffer[d] \in Buffers
      /\ k # NoConn /\ k # Gone
  BY <1>0, <1>1, NullAssumption DEF Wired, Home, StreamShape
<1>3. /\ conn' \in [Conn -> Handlers] /\ conn'[k].state = "free" /\ conn'[k].queue = <<>>
      /\ \A j \in Conn : j # k => conn'[j] = conn[j]
  BY <1>1, IdleTyped DEF StreamShape
<1>4. /\ client' \in [Client -> PageStates]
      /\ client'[c].conn = (IF client[c].conn = k THEN NoConn ELSE client[c].conn)
      /\ \A x \in Client : /\ client'[x].running = client[x].running
                           /\ x # c => client'[x] = client[x]
  <2> DEFINE n == IF client[c].conn = k THEN NoConn ELSE client[c].conn
             p == [client[c] EXCEPT !.conn = n]
  <2>1. client[c] \in PageStates /\ n \in Conn \cup {NoConn}
    BY <1>2 DEF StreamShape, PageStates
  <2>2. client' = [client EXCEPT ![c] = p]  BY <1>1, <1>2
  <2> HIDE DEF n
  <2>3. p \in PageStates /\ p.conn = n /\ p.running = client[c].running
    BY <2>1 DEF PageStates
  <2> HIDE DEF p
  <2>4. /\ client' \in [Client -> PageStates] /\ client'[c] = p
        /\ \A x \in Client : x # c => client'[x] = client[x]
    BY <1>2, <2>2, <2>3 DEF StreamShape
  <2>5. client'[c].conn = IF client[c].conn = k THEN NoConn ELSE client[c].conn
    BY <2>3, <2>4 DEF n
  <2> QED  BY <2>3, <2>4, <2>5
<1>5. /\ subs' \in [Draft -> SUBSET Conn] /\ subs'[d] = subs[d] \ {k}
      /\ \A e \in Draft : /\ e # d => subs'[e] = subs[e] /\ k \notin subs[e]
                          /\ subs'[e] \subseteq subs[e]
  BY <1>1, <1>2 DEF StreamShape, Wired
<1>6. LeavesNothing(d, k, c) \/ LeavesTerminal(d, k, c)
  BY <1>0, UnsubscribeTables
<1>7. /\ Lost(d, k) \subseteq {c} /\ (~ turns[d].active => Lost(d, k) = {})
      /\ \A S : Missed(d, k, S) \subseteq {c}
  BY <1>0 DEF Lost, Missed
<1>8. BufferSound(d)  BY <1>2 DEF BuffersSound
<1>9. /\ buffer' \in [Draft -> Buffers] /\ failed' \in [Draft -> SUBSET Client]
      /\ dropped' \subseteq Client /\ dropped \subseteq dropped'
      /\ Cardinality(Waiting(buffer')) <= RecoveryLimit
      /\ BuffersSound'
      /\ \A e \in Draft : /\ Quiet(e)' = Quiet(e)
                          /\ Len(buffer'[e].events) <= BufferLimit
                          /\ Upto(buffer'[e].events, nextGen')
                          /\ buffer'[e].gen <= nextGen'
                          /\ buffer'[e].gen = buffer[e].gen \/ buffer'[e].gen = 0
                          /\ buffer'[e].pending \subseteq (buffer[e].pending \ {k}) \cup {Gone}
  <2>0. \A e \in Draft : e # d => k \notin buffer[e].pending
    BY <1>2 DEF Wired
  <2>1. CASE LeavesNothing(d, k, c)
    <3>1. /\ k \notin buffer[d].pending /\ buffer' = buffer
          /\ failed' = [failed EXCEPT ![d] = failed[d] \cup (IF subs[d] = {} THEN {} ELSE Lost(d, k))]
          /\ dropped' = dropped \cup Missed(d, k, failed'[d])
      BY <2>1 DEF LeavesNothing
    <3>2. /\ failed' \in [Draft -> SUBSET Client]
          /\ ~ turns[d].active => failed'[d] = failed[d]
          /\ \A e \in Draft : e # d => failed'[e] = failed[e]
      BY <1>2, <1>7, <3>1 DEF StreamShape
    <3>3. dropped' \subseteq Client /\ dropped \subseteq dropped'
      BY <1>2, <1>7, <3>1 DEF StreamShape
    <3>4. \A e \in Draft : Quiet(e)' = Quiet(e)  BY <1>1, QuietStays
    <3>5. ASSUME NEW e \in Draft PROVE BufferSound(e)'
      <4>1. BufferSound(e)  BY DEF BuffersSound
      <4>2. Quiet(e) => failed'[e] = failed[e] /\ buffer[e].pending \subseteq subs'[e]
        BY <1>5, <1>8, <3>1, <3>2, <4>1 DEF BufferSound
      <4> QED  BY <1>1, <3>1, <3>4, <4>1, <4>2 DEF BufferSound
    <3>6. BuffersSound'  BY <3>1, <3>5 DEF BuffersSound, Distinct
    <3>7. /\ buffer' \in [Draft -> Buffers] /\ Cardinality(Waiting(buffer')) <= RecoveryLimit
          /\ \A e \in Draft : Len(buffer'[e].events) <= BufferLimit
      BY <3>1 DEF StreamShape, Limits
    <3>8. \A e \in Draft : Upto(buffer'[e].events, nextGen') /\ buffer'[e].gen <= nextGen'
      BY <1>1, <3>1 DEF Timely
    <3>9. \A e \in Draft : buffer'[e].pending \subseteq (buffer[e].pending \ {k}) \cup {Gone}
      BY <2>0, <3>1
    <3> QED  BY <3>1, <3>2, <3>3, <3>4, <3>6, <3>7, <3>8, <3>9
  <2>2. CASE LeavesTerminal(d, k, c)
    <3>1. PICK P \in SUBSET (Conn \cup {Gone}), B \in SUBSET Client, C \in SUBSET Client :
            /\ P \subseteq (buffer[d].pending \ {k}) \cup {Gone}
            /\ Moved(d, P, B, C, {})
            /\ Quiet(d) => B = C /\ P \subseteq subs[d]
      BY <2>2 DEF LeavesTerminal
    <3>2. buffer[d].gen # 0  BY <2>2 DEF LeavesTerminal
    <3>3. Quiet(d) => B = C /\ P \subseteq subs'[d]  BY <1>2, <1>5, <3>1
    <3>4. /\ BuffersSound'
          /\ \A e \in Draft : /\ Quiet(e)' = Quiet(e)
                              /\ Len(buffer'[e].events) <= BufferLimit
                              /\ Upto(buffer'[e].events, nextGen')
                              /\ buffer'[e].gen <= nextGen'
                              /\ buffer'[e].gen = buffer[e].gen \/ buffer'[e].gen = 0
                              /\ buffer'[e].pending
                                   \subseteq IF e = d THEN P ELSE buffer[e].pending
      BY <1>1, <1>2, <1>5, <3>1, <3>2, <3>3, MovedBuffers
    <3>5. /\ buffer' \in [Draft -> Buffers] /\ failed' \in [Draft -> SUBSET Client]
          /\ dropped' \subseteq Client /\ dropped \subseteq dropped'
          /\ Cardinality(Waiting(buffer')) <= RecoveryLimit
      BY <3>1 DEF Moved
    <3>6. \A e \in Draft : buffer'[e].pending \subseteq (buffer[e].pending \ {k}) \cup {Gone}
      BY <2>0, <3>1, <3>4
    <3> QED  BY <3>4, <3>5, <3>6
  <2> QED  BY <1>6, <2>1, <2>2
<1>10. StreamShape'  BY <1>1, <1>3, <1>4, <1>5, <1>9 DEF StreamShape
<1>11. ASSUME NEW j \in Conn, conn'[j].state = "open"
       PROVE  j # k /\ Open(j) /\ conn'[j] = conn[j] /\ Home(j)' = Home(j) /\ Home(j) \in Draft
  <2>1. j # k  BY <1>3, <1>11
  <2>2. conn'[j] = conn[j] /\ Open(j)  BY <1>3, <1>11, <2>1 DEF Open
  <2> QED  BY <1>1, <2>1, <2>2 DEF Home, Wired, StreamShape
<1>12. Wired'
  <2>1. ASSUME NEW j \in Conn, Open(j)'
        PROVE  /\ conn'[j].of \in Client
               /\ ~ conn'[j].broken => client'[conn'[j].of].conn = j
               /\ ~ conn'[j].closed => j \in subs'[Home(j)']
    <3>1. j # k /\ Open(j) /\ conn'[j] = conn[j] /\ Home(j)' = Home(j) /\ Home(j) \in Draft
      BY <1>11, <2>1 DEF Open
    <3>2. /\ conn[j].of \in Client /\ (~ conn[j].broken => client[conn[j].of].conn = j)
          /\ ~ conn[j].closed => j \in subs[Home(j)]
      BY <3>1 DEF Wired
    <3>3. ~ conn[j].closed => j \in subs'[Home(j)]  BY <1>5, <3>1, <3>2
    <3> QED  BY <1>4, <3>1, <3>2, <3>3
  <2>2. ASSUME NEW e \in Draft, NEW j \in subs'[e]
        PROVE  Open(j)' /\ ~ conn'[j].closed /\ Home(j)' = e
    <3>1. j \in Conn /\ j \in subs[e] /\ j # k
      BY <1>5, <2>2 DEF StreamShape
    <3>2. conn'[j] = conn[j] /\ Open(j) /\ ~ conn[j].closed /\ Home(j) = e
      BY <1>3, <3>1 DEF Wired
    <3> QED  BY <1>1, <3>2 DEF Open, Home
  <2>3. ASSUME NEW e \in Draft, NEW j \in buffer'[e].pending \ {Gone}
        PROVE  Open(j)' /\ Home(j)' = e
    <3>1. j \in buffer[e].pending \ {Gone} /\ j # k /\ buffer[e] \in Buffers
      BY <1>9, <2>3 DEF StreamShape
    <3>2. j \in Conn /\ Open(j) /\ Home(j) = e  BY <3>1 DEF Wired, Buffers
    <3>3. conn'[j] = conn[j]  BY <1>3, <3>1, <3>2
    <3> QED  BY <1>1, <3>2, <3>3 DEF Open, Home
  <2>4. ASSUME NEW x \in Client, client'[x].conn # NoConn
        PROVE  /\ conn'[client'[x].conn].state = "open" /\ conn'[client'[x].conn].of = x
               /\ ~ conn'[client'[x].conn].broken
    <3> DEFINE j == client[x].conn
    <3>1. client'[x].conn = j /\ j # NoConn /\ (x = c => j # k)  BY <1>4, <2>4
    <3>2. conn[j].state = "open" /\ conn[j].of = x /\ ~ conn[j].broken /\ j \in Conn
      BY <3>1 DEF Wired, Open, StreamShape, PageStates
    <3>3. j # k  BY <1>0, <3>1, <3>2
    <3>4. conn'[j] = conn[j]  BY <1>3, <3>2, <3>3
    <3> QED  BY <3>1, <3>2, <3>4
  <2> QED  BY <2>1, <2>2, <2>3, <2>4 DEF Wired, Open
<1>13. Limits'
  <2>1. \A j \in Conn : Len(conn'[j].queue) <= QueueLimit
    <3>1. Len(<<>>) = 0 /\ 0 <= QueueLimit  BY EmptyFrames, TurnStreamAssumption
    <3> QED  BY <1>3, <3>1 DEF Limits
  <2> QED  BY <1>9, <2>1 DEF Limits
<1>14. Timely'
  <2>1. ASSUME NEW j \in Conn, Open(j)'
        PROVE  /\ Upto(conn'[j].snap, nextGen') /\ Upto(conn'[j].queue, nextGen')
               /\ conn'[j].ackGen <= nextGen'
    <3>1. Open(j) /\ conn'[j] = conn[j]  BY <1>11, <2>1 DEF Open
    <3> QED  BY <1>1, <3>1 DEF Timely
  <2> QED  BY <1>9, <2>1 DEF Timely
<1>15. StreamsSound'
  <2> SUFFICES ASSUME NEW j \in Conn, Open(j)' PROVE StreamSound(j)'
    BY DEF StreamsSound
  <2>0. PICK e : e = Home(j)  OBVIOUS
  <2>1. Open(j) /\ conn'[j] = conn[j] /\ Home(j)' = e /\ e \in Draft /\ j # k /\ j # Gone
    BY <1>11, <2>0, NullAssumption DEF Open
  <2>2. StreamSound(j)  BY <2>1 DEF StreamsSound
  <2>3. /\ buffer'[e].gen = buffer[e].gen \/ buffer'[e].gen = 0
        /\ j \in buffer'[e].pending => j \in buffer[e].pending
        /\ Quiet(e)' = Quiet(e)
    BY <1>9, <2>1
  <2> QED  BY <2>0, <2>1, <2>2, <2>3 DEF StreamSound
<1>16. ASSUME NEW x \in Client, client'[x].conn # NoConn
       PROVE  /\ client'[x].conn = client[x].conn /\ client[x].conn \in Conn
              /\ client[x].conn # k /\ conn'[client[x].conn] = conn[client[x].conn]
  <2>1. client'[x].conn = client[x].conn /\ client[x].conn # NoConn /\ client[x].conn \in Conn
        /\ (x = c => client[x].conn # k)
    BY <1>4, <1>16 DEF StreamShape, PageStates
  <2>2. conn[client[x].conn].of = x  BY <2>1 DEF Wired
  <2>3. client[x].conn # k  BY <1>0, <2>1, <2>2
  <2> QED  BY <1>3, <2>1, <2>3
<1>17. ASSUME NEW x \in Client PROVE WillRun(x)' => WillRun(x)
  BY <1>4, <1>16 DEF WillRun
<1>18. ASSUME NEW x \in Client PROVE EndsLast(x)'
  <2>1. CASE client'[x].conn = NoConn
    <3>1. draftOf[x] \in Draft  BY DEF StreamShape
    <3>2. NoConn \notin subs'[draftOf[x]]  BY <1>5, <3>1, NullAssumption
    <3> QED  BY <1>1, <2>1, <3>2 DEF EndsLast
  <2>2. CASE client'[x].conn # NoConn
    <3>1. draftOf[x] \in Draft  BY DEF StreamShape
    <3> QED  BY <1>1, <1>5, <1>9, <1>16, <1>17, <2>2, <3>1, EndsStays
  <2> QED  BY <2>1, <2>2
<1>19. ASSUME NEW x \in Client PROVE Told(x)'
  <2>0. PICK e : e = draftOf[x]  OBVIOUS
  <2>1. /\ e \in Draft /\ subs[e] \subseteq Conn /\ buffer[e].pending \subseteq Conn \cup {Gone}
        /\ Quiet(e)' = Quiet(e)
    BY <1>9, <2>0 DEF StreamShape, Buffers
  <2>2. e # d => /\ subs[e] \subseteq subs'[e]
                 /\ \A j \in Conn : j \in subs[e] \cup buffer[e].pending => conn'[j].of = conn[j].of
    BY <1>2, <1>3, <1>5, <2>1 DEF Wired
  <2>3. CASE LeavesNothing(d, k, c)
    <3>1. /\ k \notin buffer[d].pending /\ buffer' = buffer
          /\ failed' = [failed EXCEPT ![d] = failed[d] \cup (IF subs[d] = {} THEN {} ELSE Lost(d, k))]
          /\ dropped' = dropped \cup Missed(d, k, failed'[d])
      BY <2>3 DEF LeavesNothing
    <3>2. /\ failed'[d] = failed[d] \cup (IF subs[d] = {} THEN {} ELSE Lost(d, k))
          /\ \A h \in Draft : h # d => failed'[h] = failed[h]
      BY <1>2, <3>1 DEF StreamShape
    <3>3. CASE e # d
      <4>1. buffer'[e] = buffer[e] /\ failed'[e] = failed[e]  BY <2>1, <3>1, <3>2, <3>3
      <4>2. StreamShape /\ Wired /\ BuffersSound /\ AllTold  OBVIOUS
      <4>3. dropped \subseteq dropped' /\ (WillRun(x)' => WillRun(x))  BY <1>9, <1>17
      <4> HIDE DEF StreamInvariant
      <4> QED  BY <1>1, <2>0, <2>1, <2>2, <3>3, <4>1, <4>2, <4>3, ToldStays
    <3>4. CASE e = d
      <4> SUFFICES ASSUME WillRun(x)', x \notin dropped'
                   PROVE  IF Quiet(d)'
                          THEN buffer'[d].gen # 0
                               /\ x \in failed'[d] \cup {conn'[j].of : j \in buffer'[d].pending \ {Gone}}
                          ELSE x \in failed'[d] \cup {conn'[j].of : j \in subs'[d]}
        BY <1>1, <2>0, <3>4, ToldNext
      <4>1. IF Quiet(d) THEN buffer[d].gen # 0 /\ x \in Awaited(d) ELSE x \in Watching(d)
        BY <1>9, <1>17, <2>0, <3>4 DEF AllTold, Told
      <4>2. \A j \in Conn : j # k => conn'[j].of = conn[j].of  BY <1>3
      <4>3. CASE Quiet(d)
        <5>1. x \in failed[d] \/ \E j \in buffer[d].pending \ {Gone} : conn[j].of = x
          BY <4>1, <4>3 DEF Awaited
        <5>2. \A j \in buffer[d].pending \ {Gone} : conn'[j].of = conn[j].of
          BY <2>1, <3>1, <3>4, <4>2
        <5> QED  BY <2>1, <3>1, <3>2, <3>4, <4>1, <4>3, <5>1, <5>2
      <4>4. CASE ~ Quiet(d)
        <5>1. x \in failed[d] \/ \E j \in subs[d] : conn[j].of = x
          BY <4>1, <4>4 DEF Watching, ClientsOf
        <5>2. \A j \in subs[d] \ {k} : j \in subs'[d] /\ conn'[j].of = conn[j].of
          BY <1>5, <2>1, <3>4, <4>2
        <5>3. CASE x \in failed[d]  BY <2>1, <3>2, <3>4, <4>4, <5>3
        <5>4. CASE \E j \in subs[d] \ {k} : conn[j].of = x
          BY <2>1, <3>4, <4>4, <5>2, <5>4
        <5>5. CASE k \in subs[d] /\ conn[k].of = x
          <6>1. CASE turns[d].active
            <7>1. Lost(d, k) = {x}  BY <5>5, <6>1 DEF Lost
            <7> QED  BY <2>1, <3>2, <3>4, <4>4, <5>5, <7>1
          <6>2. CASE ~ turns[d].active
            <7>1. Missed(d, k, failed'[d]) = {x} \ (failed'[d] \cup ClientsOf(subs[d] \ {k}))
              BY <4>4, <5>5, <6>2 DEF Missed
            <7>2. x \in failed'[d] \cup ClientsOf(subs[d] \ {k})
              BY <3>1, <7>1
            <7>3. x \in failed'[d] \/ \E j \in subs[d] \ {k} : conn[j].of = x
              BY <7>2 DEF ClientsOf
            <7> QED  BY <2>1, <3>4, <4>4, <5>2, <7>3
          <6> QED  BY <6>1, <6>2
        <5> QED  BY <5>1, <5>3, <5>4, <5>5
      <4> QED  BY <4>3, <4>4
    <3> QED  BY <3>3, <3>4
  <2>4. CASE LeavesTerminal(d, k, c)
    <3>1. PICK P \in SUBSET (Conn \cup {Gone}), B \in SUBSET Client, C \in SUBSET Client :
            /\ buffer[d].pending \ {k} \subseteq P
            /\ Moved(d, P, B, C, {}) /\ failed[d] \subseteq C
            /\ subs[d] # {} => c \in C
            /\ Quiet(d) => B = C /\ c \in C
      BY <2>4 DEF LeavesTerminal
    <3>2. \A j \in Conn : j # k => conn'[j].of = conn[j].of  BY <1>3
    <3>3. e = d /\ Quiet(d) =>
            /\ B = C /\ (x \in failed[d] => x \in C)
            /\ \A j \in buffer[d].pending \ {Gone} : conn[j].of = x =>
                 x \in C \/ (j \in P /\ conn'[j].of = x)
      BY <1>0, <2>1, <3>1, <3>2
    <3>4. e = d /\ ~ Quiet(d) /\ x \in Watching(d) =>
            x \in C \/ \E j \in subs'[d] : conn'[j].of = x
      <4> SUFFICES ASSUME e = d, x \in Watching(d), x \notin C
                   PROVE  \E j \in subs'[d] : conn'[j].of = x
        OBVIOUS
      <4>1. PICK j \in subs[d] : conn[j].of = x  BY <3>1 DEF Watching, ClientsOf
      <4>2. j # k  BY <1>0, <3>1, <4>1
      <4> QED  BY <1>5, <2>1, <3>2, <4>1, <4>2
    <3>5. Moved(d, P, B, C, {})  BY <3>1
    <3>6. /\ \A h \in Draft : Quiet(h)' = Quiet(h)
          /\ WillRun(x)' => WillRun(x)
      BY <1>9, <1>17
    <3>7. StreamShape /\ Wired /\ BuffersSound /\ AllTold  OBVIOUS
    <3> HIDE DEF StreamInvariant
    <3> QED  BY <1>1, <1>2, <2>0, <2>2, <3>3, <3>4, <3>5, <3>6, <3>7, MovedTold
  <2> QED  BY <1>6, <2>3, <2>4
<1> QED  BY <1>9, <1>10, <1>12, <1>13, <1>14, <1>15, <1>18, <1>19 DEF AllTold, AllEnd

-----------------------------------------------------------------------------
(* The theorems. *)

LEMMA InitSound ==
  ASSUME StreamInit
  PROVE  StreamInvariant
<1>1. /\ EmptyBuffer \in Buffers /\ EmptyBuffer.events = <<>> /\ EmptyBuffer.gen = 0
      /\ EmptyBuffer.pending = {} /\ EmptyBuffer.failed = {}
  BY EmptyBufferTyped
<1>2. /\ draftOf \in [Client -> Draft]
      /\ turns = [d \in Draft |-> [begun |-> 0, current |-> FALSE, late |-> 0,
                                   active |-> FALSE, frames |-> 0]]
      /\ buffer = [d \in Draft |-> EmptyBuffer]
      /\ subs = [d \in Draft |-> {}] /\ failed = [d \in Draft |-> {}]
      /\ nextGen = 0 /\ dropped = {}
      /\ conn = [k \in Conn |-> Idle]
      /\ client = [c \in Client |-> [conn |-> NoConn, running |-> FALSE]]
  BY TurnStreamAssumption DEF StreamInit
<1>3. StreamShape
  BY <1>1, <1>2, IdleTyped DEF StreamShape, TurnCounts, PageStates
<1>4. Wired
  BY <1>1, <1>2, IdleTyped DEF Wired, Open
<1>5. Limits
  <2>1. Waiting(buffer) = {}  BY <1>1, <1>2 DEF Waiting
  <2>2. Cardinality({}) = 0  BY FS_EmptySet
  <2>3. 0 <= QueueLimit /\ 0 <= BufferLimit /\ 0 <= RecoveryLimit  BY TurnStreamAssumption
  <2> QED  BY <1>1, <1>2, <2>1, <2>2, <2>3, IdleTyped, EmptyFrames DEF Limits
<1>6. Timely
  BY <1>1, <1>2, IdleTyped, EmptyFrames DEF Timely, Upto, Open
<1>7. BuffersSound
  BY <1>1, <1>2, EmptyFrames DEF BuffersSound, BufferSound, Distinct, Live
<1>8. StreamsSound
  BY <1>2, IdleTyped DEF StreamsSound, Open
<1>9. \A c \in Client : ~ WillRun(c)
  BY <1>2 DEF WillRun
<1>10. AllTold /\ AllEnd
  BY <1>9 DEF AllTold, Told, AllEnd, EndsLast
<1> QED  BY <1>3, <1>4, <1>5, <1>6, <1>7, <1>8, <1>10 DEF StreamInvariant

LEMMA NextKeeps ==
  ASSUME StreamInvariant, StreamNext
  PROVE  StreamInvariant'
<1>1. ASSUME NEW d \in Draft, TurnStarted(d) PROVE StreamInvariant'
  BY <1>1, StartedKeeps
<1>2. ASSUME NEW d \in Draft, RunFails(d) \/ Abandon(d) PROVE StreamInvariant'
  BY <1>2, TurnLeftKeeps
<1>3. ASSUME NEW d \in Draft, TurnEnded(d) \/ LateEnded(d) PROVE StreamInvariant'
  BY <1>3, EndedKeeps
<1>4. ASSUME NEW d \in Draft, NEW type \in {"delta", "step", "note"}, TurnFrame(d, type)
      PROVE  StreamInvariant'
  BY <1>4, FrameKeeps
<1>5. ASSUME NEW c \in Client, Connect(c) PROVE StreamInvariant'
  BY <1>5, ConnectKeeps
<1>6. ASSUME NEW k \in Conn, WriteSnapshot(k) PROVE StreamInvariant'
  BY <1>6, WriteSnapshotKeeps
<1>7. ASSUME NEW k \in Conn, WriteLive(k) PROVE StreamInvariant'
  BY <1>7, WriteLiveKeeps
<1>8. ASSUME NEW k \in Conn, Break(k) PROVE StreamInvariant'
  BY <1>8, BreakKeeps
<1>9. ASSUME NEW k \in Conn, Unsubscribe(k) PROVE StreamInvariant'
  BY <1>9, UnsubscribeKeeps
<1> QED  BY <1>1, <1>2, <1>3, <1>4, <1>5, <1>6, <1>7, <1>8, <1>9 DEF StreamNext

LEMMA StutterKeeps ==
  ASSUME StreamInvariant, UNCHANGED streamVars
  PROVE  StreamInvariant'
<1>1. /\ draftOf' = draftOf /\ turns' = turns /\ buffer' = buffer /\ subs' = subs
      /\ failed' = failed /\ nextGen' = nextGen /\ dropped' = dropped /\ silent' = silent
      /\ conn' = conn /\ client' = client
  BY DEF streamVars, hubVars
<1>2. StreamShape' /\ Wired' /\ Limits'
  BY <1>1 DEF StreamInvariant, StreamShape, Wired, Limits, Open, Home, Waiting
<1>3. Timely' /\ BuffersSound'
  BY <1>1 DEF StreamInvariant, Timely, Upto, Open, Home, BuffersSound, BufferSound, Distinct,
              Live, Quiet, Going, Ends
<1>4. StreamsSound'
  BY <1>1 DEF StreamInvariant, StreamsSound, StreamSound, Open, Home, Live, Quiet, Going, Ends
<1>5. AllTold'
  BY <1>1 DEF StreamInvariant, AllTold, Told, WillRun, Live, Watching, Awaited, ClientsOf,
              Quiet, Going
<1>6. AllEnd'
  BY <1>1 DEF StreamInvariant, AllEnd, EndsLast, WillRun, Live, Quiet, Going, Ends
<1> QED  BY <1>2, <1>3, <1>4, <1>5, <1>6 DEF StreamInvariant

\* What the hub, the handlers and the pages know of each other is inductive
\* (turn_stream.go, streamEvents of sse.go).
THEOREM StreamInvariantHolds == StreamSpec => []StreamInvariant
<1>1. StreamInit => StreamInvariant  BY InitSound
<1>2. StreamInvariant /\ [StreamNext]_streamVars => StreamInvariant'
  BY NextKeeps, StutterKeeps
<1> QED  BY <1>1, <1>2, PTL DEF StreamSpec

\* Frames that end with a terminal leave a page that shows no running turn.
LEMMA EndShown ==
  ASSUME NEW s \in Seq(Frames), Ends(s), NEW r
  PROVE  ~ Shown(r, s)
<1> DEFINE told == {i \in DOMAIN s : s[i].type \notin {"gap", "truncated", "note"}}
<1>1. Len(s) \in Nat /\ Len(s) >= 1 /\ DOMAIN s = 1 .. Len(s)  BY NonEmpty DEF Ends
<1>2. Len(s) \in told  BY <1>1 DEF Ends
<1>3. \A i \in told : i \in 1 .. Len(s)  BY <1>1
<1> HIDE DEF told
<1>4. Shown(r, s) = IF told = {} THEN r
                    ELSE \E i \in told : s[i].type # "ended" /\ \A j \in told : j <= i
  BY DEF Shown, told
<1> SUFFICES ASSUME NEW i \in told, s[i].type # "ended", \A j \in told : j <= i
             PROVE  FALSE
  BY <1>2, <1>4
<1>5. i = Len(s)  BY <1>1, <1>2, <1>3
<1> QED  BY <1>5 DEF Ends

\* A sequence ends as its second part does, or as its first when there is no more.
LEMMA EndJoined ==
  ASSUME NEW s \in Seq(Frames), NEW t \in Seq(Frames),
         IF t # <<>> THEN Ends(t) ELSE Ends(s)
  PROVE  s \o t \in Seq(Frames) /\ Ends(s \o t)
<1>1. /\ s \o t \in Seq(Frames) /\ Len(s \o t) = Len(s) + Len(t)
      /\ \A i \in 1 .. Len(s) + Len(t) :
           (s \o t)[i] = IF i <= Len(s) THEN s[i] ELSE t[i - Len(s)]
  BY Joined
<1>2. Len(s) \in Nat /\ Len(t) \in Nat  BY SeqFrames
<1>3. CASE t # <<>>
  <2>1. Len(t) >= 1 /\ t[Len(t)].type = "ended"  BY <1>3, NonEmpty DEF Ends
  <2>2. Len(s) + Len(t) \in 1 .. Len(s) + Len(t) /\ ~ (Len(s) + Len(t) <= Len(s))
        /\ Len(s) + Len(t) - Len(s) = Len(t)
    BY <1>2, <2>1
  <2>3. (s \o t)[Len(s) + Len(t)] = t[Len(t)]  BY <1>1, <2>2
  <2>4. Len(s) + Len(t) # 0  BY <1>2, <2>1
  <2>5. s \o t # <<>>  BY <1>1, <2>4, EmptyFrames
  <2> QED  BY <1>1, <2>1, <2>3, <2>5 DEF Ends
<1>4. CASE t = <<>>
  <2>1. Len(s) >= 1 /\ s[Len(s)].type = "ended"  BY <1>4, NonEmpty DEF Ends
  <2>2. Len(t) = 0  BY <1>4, EmptyFrames
  <2>3. (s \o t)[Len(s)] = s[Len(s)] /\ Len(s \o t) = Len(s)
    BY <1>1, <1>2, <2>1, <2>2
  <2>4. s \o t # <<>>  BY <1>2, <2>1, <2>3, EmptyFrames
  <2> QED  BY <1>1, <2>1, <2>3, <2>4 DEF Ends
<1> QED  BY <1>3, <1>4

LEMMA InvariantKeepsTerminals ==
  ASSUME StreamInvariant
  PROVE  TerminalsKept
<1> USE DEF StreamInvariant
<1>1. WithinLimits
  <2>1. ASSUME NEW d \in Draft
        PROVE  /\ Len(buffer[d].events) <= BufferLimit
               /\ subs[d] \subseteq {k \in Conn : conn[k].state = "open" /\ ~ conn[k].closed}
               /\ buffer[d].pending \subseteq {Gone} \cup {k \in Conn : conn[k].state = "open"}
               /\ buffer[d].failed \cup failed[d] \subseteq Client
    <3>1. buffer[d] \in Buffers /\ subs[d] \subseteq Conn /\ failed[d] \subseteq Client
      BY DEF StreamShape
    <3>2. buffer[d].failed \subseteq Client /\ buffer[d].pending \subseteq Conn \cup {Gone}
      BY <3>1 DEF Buffers
    <3> QED  BY <3>1, <3>2 DEF Limits, Wired, Open
  <2> QED  BY <2>1 DEF WithinLimits, Limits
<1>2. TerminalKept
  <2> SUFFICES ASSUME NEW c \in Client, client[c].running, Quiet(draftOf[c]), c \notin dropped
               PROVE  ~ Shown(client[c].running, Coming(c))
    BY DEF TerminalKept
  <2>0. PICK d, k, next : d = draftOf[c] /\ k = client[c].conn /\ next = buffer[d].events
    OBVIOUS
  <2>1. d \in Draft /\ buffer[d] \in Buffers  BY <2>0 DEF StreamShape
  <2>2. buffer[d].gen # 0  BY <2>0 DEF AllTold, Told, WillRun
  <2>3. next \in Seq(Frames) /\ Ends(next)
    BY <2>0, <2>1, <2>2 DEF BuffersSound, BufferSound, Buffers
  <2>4. CASE k = NoConn
    BY <2>0, <2>3, <2>4, EndShown DEF Coming
  <2>5. CASE k # NoConn
    <3>1. k \in Conn /\ Open(k) /\ conn[k].of = c
      BY <2>0, <2>5 DEF Wired, StreamShape, PageStates
    <3>2. conn[k].snap \in Seq(Frames) /\ conn[k].queue \in Seq(Frames)
      BY <3>1 DEF StreamShape, Handlers
    <3>3. CASE conn[k].closed
      <4>1. conn[k].snap \o conn[k].queue \in Seq(Frames)  BY <3>2, Joined
      <4>2. /\ (conn[k].snap \o conn[k].queue) \o next \in Seq(Frames)
            /\ Ends((conn[k].snap \o conn[k].queue) \o next)
        BY <2>3, <4>1, EndJoined DEF Ends
      <4>3. Coming(c) = (conn[k].snap \o conn[k].queue) \o next
        BY <2>0, <2>5, <3>3 DEF Coming
      <4> QED  BY <4>2, <4>3, EndShown
    <3>4. CASE ~ conn[k].closed
      <4>1. k \in subs[d]  BY <2>0, <3>1, <3>4 DEF Wired, Home
      <4>2. IF conn[k].queue # <<>> THEN Ends(conn[k].queue) ELSE Ends(conn[k].snap)
        BY <2>0, <4>1 DEF AllEnd, EndsLast, WillRun
      <4>3. /\ conn[k].snap \o conn[k].queue \in Seq(Frames)
            /\ Ends(conn[k].snap \o conn[k].queue)
        BY <3>2, <4>2, EndJoined
      <4>4. Coming(c) = conn[k].snap \o conn[k].queue
        BY <2>0, <2>5, <3>4 DEF Coming
      <4> QED  BY <4>3, <4>4, EndShown
    <3> QED  BY <3>3, <3>4
  <2> QED  BY <2>4, <2>5
<1>3. KeptForSomebody
  BY DEF KeptForSomebody, Limits, BuffersSound, BufferSound
<1> QED  BY <1>1, <1>2, <1>3 DEF TerminalsKept

\* The end of a turn is kept for those who have not seen it, for nobody else and
\* within the limits (TurnHub.Record, Subscribe, acknowledge), for any number of
\* drafts, clients and connections.
THEOREM TerminalsStayKept == StreamSpec => []TerminalsKept
<1>1. StreamInvariant => TerminalsKept  BY InvariantKeepsTerminals
<1> QED  BY <1>1, StreamInvariantHolds, PTL
=============================================================================
