--------------------------- MODULE TurnQueueProofs ---------------------------
(***************************************************************************)
(* Theorems about TurnQueue for any number of turns, callers and workers   *)
(* and any channel size.                                                   *)
(***************************************************************************)
EXTENDS TurnQueue, FiniteSetTheorems, TLAPS

(***************************************************************************)
(* The inductive invariant: TypeOK with the following two.                 *)
(***************************************************************************)

\* A goroutine holds a turn from its receive to the end of the turn. A live
\* turn is in the draft's current worker, under no barrier. A goroutine that
\* is not the current worker's is sealed or ends with the queue.
Running ==
    \A g \in Gen :
        /\ worker[g].pc \in {"taken", "run"} => worker[g].item \in Item
        /\ RunsLive(g) => g = cur /\ ~ worker[g].canceling /\ ~ done
        /\ worker[g].pc # "none" => g = cur \/ worker[g].retired \/ done

\* The callers that hold a cancellation lease.
Holders == {c \in Caller : caller[c].pc \notin {"idle", "over"}}

\* Until Close, the leases count their holders, and while there is one the
\* current worker is marked. After it there is no current worker.
Leased ==
    /\ closer.pc # "idle" => done /\ cur = 0
    /\ closer.pc = "idle" => leases = Cardinality(Holders)
    /\ leases > 0 /\ cur # 0 => worker[cur].canceling

Inv == TypeOK /\ Running /\ Leased

-----------------------------------------------------------------------------

LEMMA TailFacts ==
  ASSUME NEW q \in Seq(Item), q # <<>>
  PROVE  /\ Head(q) \in Item /\ Head(q) = q[1]
         /\ Tail(q) \in Seq(Item) /\ Len(Tail(q)) = Len(q) - 1 /\ Len(q) \in Nat /\ Len(q) > 0
         /\ \A k \in 1..Len(Tail(q)) : Tail(q)[k] = q[k + 1]
OBVIOUS

LEMMA AppendFacts ==
  ASSUME NEW q \in Seq(Item), NEW i \in Item
  PROVE  /\ Append(q, i) \in Seq(Item) /\ Len(Append(q, i)) = Len(q) + 1 /\ Len(q) \in Nat
         /\ Append(q, i)[Len(q) + 1] = i
         /\ \A k \in 1..Len(q) : Append(q, i)[k] = q[k]
OBVIOUS

-----------------------------------------------------------------------------
(* Types. *)

LEMMA WorkerTyped ==
  ASSUME WorkerOK, NEW g \in Gen, NEW w \in Worker, Len(w.queue) <= Cap,
         worker' = [worker EXCEPT ![g] = w]
  PROVE  WorkerOK'
<1>1. worker' \in [Gen -> Worker]  BY DEF WorkerOK
<1>2. \A h \in Gen : worker'[h] = IF h = g THEN w ELSE worker[h]  BY DEF WorkerOK
<1>3. \A h \in Gen : Len(worker'[h].queue) <= Cap  BY <1>2 DEF WorkerOK
<1> QED  BY <1>1, <1>3 DEF WorkerOK

LEMMA WorkerFields ==
  ASSUME NEW w \in Worker
  PROVE  /\ w.pc \in {"none", "select", "taken", "run", "drop", "exit"}
         /\ w.queue \in Seq(Item) /\ w.item \in Item \cup {NoItem} /\ w.live \in BOOLEAN
         /\ w.durable \in BOOLEAN /\ w.canceling \in BOOLEAN /\ w.retired \in BOOLEAN
         /\ w.pending \in Int
BY DEF Worker

\* The records the steps write, and the channel they leave alone.
LEMMA WorkerUpdates ==
  ASSUME NEW w \in Worker
  PROVE  /\ [w EXCEPT !.pc = "select", !.pending = 1] \in Worker
         /\ [w EXCEPT !.pc = "select", !.pending = 1].queue = w.queue
         /\ \A l \in BOOLEAN :
              /\ [w EXCEPT !.pc = "run", !.durable = FALSE, !.live = l] \in Worker
              /\ [w EXCEPT !.pc = "run", !.durable = FALSE, !.live = l].queue = w.queue
         /\ [w EXCEPT !.pc = "select", !.item = NoItem, !.live = FALSE, !.durable = FALSE,
                      !.pending = @ - 1] \in Worker
         /\ [w EXCEPT !.pc = "select", !.item = NoItem, !.live = FALSE, !.durable = FALSE,
                      !.pending = @ - 1].queue = w.queue
         /\ \A p \in {"exit", "drop"} :
              [w EXCEPT !.pc = p] \in Worker /\ [w EXCEPT !.pc = p].queue = w.queue
         /\ [w EXCEPT !.durable = TRUE] \in Worker /\ [w EXCEPT !.durable = TRUE].queue = w.queue
         /\ [w EXCEPT !.live = FALSE] \in Worker /\ [w EXCEPT !.live = FALSE].queue = w.queue
         /\ [w EXCEPT !.retired = TRUE] \in Worker /\ [w EXCEPT !.retired = TRUE].queue = w.queue
         /\ [w EXCEPT !.canceling = FALSE] \in Worker
         /\ [w EXCEPT !.canceling = FALSE].queue = w.queue
         /\ [w EXCEPT !.canceling = TRUE, !.live = FALSE] \in Worker
         /\ [w EXCEPT !.canceling = TRUE, !.live = FALSE].queue = w.queue
<1>1. w.pending - 1 \in Int /\ 1 \in Int  BY DEF Worker
<1>2. [w EXCEPT !.pc = "select", !.pending = 1] \in Worker  BY <1>1 DEF Worker
<1>3. \A l \in BOOLEAN : [w EXCEPT !.pc = "run", !.durable = FALSE, !.live = l] \in Worker
  BY DEF Worker
<1>4. [w EXCEPT !.pc = "select", !.item = NoItem, !.live = FALSE, !.durable = FALSE,
                !.pending = @ - 1] \in Worker
  BY <1>1 DEF Worker
<1>5. \A p \in {"exit", "drop"} : [w EXCEPT !.pc = p] \in Worker  BY DEF Worker
<1>6. /\ [w EXCEPT !.durable = TRUE] \in Worker /\ [w EXCEPT !.live = FALSE] \in Worker
      /\ [w EXCEPT !.retired = TRUE] \in Worker
  BY DEF Worker
<1>7. /\ [w EXCEPT !.canceling = FALSE] \in Worker
      /\ [w EXCEPT !.canceling = TRUE, !.live = FALSE] \in Worker
  BY DEF Worker
<1>8. /\ \A p, n : [w EXCEPT !.pc = p, !.pending = n].queue = w.queue
      /\ \A l : [w EXCEPT !.pc = "run", !.durable = FALSE, !.live = l].queue = w.queue
      /\ [w EXCEPT !.pc = "select", !.item = NoItem, !.live = FALSE, !.durable = FALSE,
                   !.pending = @ - 1].queue = w.queue
      /\ \A p : [w EXCEPT !.pc = p].queue = w.queue
      /\ [w EXCEPT !.durable = TRUE].queue = w.queue /\ [w EXCEPT !.live = FALSE].queue = w.queue
      /\ [w EXCEPT !.retired = TRUE].queue = w.queue
      /\ [w EXCEPT !.canceling = FALSE].queue = w.queue
      /\ [w EXCEPT !.canceling = TRUE, !.live = FALSE].queue = w.queue
  BY DEF Worker
<1> QED  BY <1>2, <1>3, <1>4, <1>5, <1>6, <1>7, <1>8

LEMMA WorkerAt ==
  ASSUME TypeOK, NEW g \in Gen
  PROVE  worker[g] \in Worker
BY DEF TypeOK, WorkerOK

LEMMA ItemAt ==
  ASSUME TypeOK, NEW i \in Item
  PROVE  item[i] \in Place /\ item[i].gen \in 0..MaxGen
<1>1. item[i] \in Place  BY DEF TypeOK, RestOK
<1> QED  BY <1>1 DEF Place

LEMMA CallerAt ==
  ASSUME TypeOK, NEW c \in Caller
  PROVE  caller[c] \in Barrier /\ caller[c].gen \in 0..MaxGen
<1>1. caller[c] \in Barrier  BY DEF TypeOK, RestOK
<1> QED  BY <1>1 DEF Barrier

LEMMA ItemTyped ==
  ASSUME TypeOK, NEW i \in Item
  PROVE  \A a \in {"new", "reserved", "queued", "taken", "settled", "refused"} :
           [item EXCEPT ![i].at = a] \in [Item -> Place]
<1>1. item \in [Item -> Place]  BY DEF TypeOK, WorkerOK, RestOK
<1> QED  BY <1>1 DEF Place

\* Settling something that is not a turn changes nothing.
LEMMA SettledTyped ==
  ASSUME TypeOK, NEW x
  PROVE  Settled(x) \in [Item -> Place]
<1>1. item \in [Item -> Place]  BY DEF TypeOK, RestOK
<1>2. CASE x \in Item  BY <1>2, ItemTyped DEF Settled
<1>3. CASE x \notin Item
  <2>1. Settled(x) = item  BY <1>1, <1>3 DEF Settled
  <2> QED  BY <2>1, <1>1
<1> QED  BY <1>2, <1>3

LEMMA CallerTyped ==
  ASSUME TypeOK, NEW c \in Caller
  PROVE  \A p \in {"idle", "wait", "drained", "seal", "producers", "drain", "unlock", "over"} :
           [caller EXCEPT ![c].pc = p] \in [Caller -> Barrier]
<1>1. caller \in [Caller -> Barrier]  BY DEF TypeOK, WorkerOK, RestOK
<1> QED  BY <1>1 DEF Barrier

LEMMA DropTyped ==
  ASSUME TypeOK, NEW g \in Gen, DropHead(g)
  PROVE  WorkerOK' /\ item' \in [Item -> Place]
<1> DEFINE w == [worker[g] EXCEPT !.queue = Tail(@), !.pending = @ - 1]
<1>1. worker[g] \in Worker /\ worker[g].queue \in Seq(Item) /\ worker[g].queue # <<>>
  BY WorkerAt, WorkerFields DEF DropHead
<1>2. /\ Head(worker[g].queue) \in Item /\ Tail(worker[g].queue) \in Seq(Item)
      /\ Len(Tail(worker[g].queue)) <= Cap
  BY <1>1, TailFacts, QueueAssumption DEF TypeOK, WorkerOK, RestOK
<1>a. worker[g].pending - 1 \in Int  BY <1>1, WorkerFields
<1>b. w \in Worker  BY <1>1, <1>2, <1>a DEF Worker
<1>c. w.queue = Tail(worker[g].queue)  BY <1>1 DEF Worker
<1>3. w \in Worker /\ Len(w.queue) <= Cap
  <2> HIDE DEF w
  <2> QED  BY <1>b, <1>c, <1>2
<1>4. worker' = [worker EXCEPT ![g] = w]  BY DEF DropHead, TypeOK, WorkerOK, RestOK
<1>5. WorkerOK'
  <2> HIDE DEF w
  <2> QED  BY <1>3, <1>4, WorkerTyped DEF TypeOK
<1> QED  BY <1>2, <1>5, ItemTyped DEF DropHead, Settled

\* A step that changes one field of one worker keeps the type.
LEMMA FieldTyped ==
  ASSUME TypeOK, NEW g \in Gen, NEW w \in Worker,
         w.queue = worker[g].queue, worker' = [worker EXCEPT ![g] = w]
  PROVE  WorkerOK'
<1>1. Len(w.queue) <= Cap  BY DEF TypeOK, WorkerOK, RestOK
<1> QED  BY <1>1, WorkerTyped DEF TypeOK

LEMMA TurnTypeOK ==
  ASSUME TypeOK, NEW i \in Item, TurnStep(i)
  PROVE  TypeOK'
<1>0. item[i] \in Place /\ item[i].gen \in 0..MaxGen  BY ItemAt
<1>1. CASE Refuse(i)
  BY <1>1, ItemTyped DEF Refuse, TypeOK, WorkerOK, RestOK
<1>2. CASE Reserve(i)
  <2>1. CASE cur = 0
    <3>1. made + 1 \in Gen /\ cur' = made + 1 /\ made' = made + 1
      BY <1>2, <2>1, QueueAssumption DEF Reserve, Gen, TypeOK, WorkerOK, RestOK
    <3> DEFINE w == [worker[made + 1] EXCEPT !.pc = "select", !.pending = 1]
    <3>2. worker[made + 1] \in Worker /\ w \in Worker /\ w.queue = worker[made + 1].queue
      <4>1. worker[made + 1] \in Worker  BY <3>1, WorkerAt
      <4>2. w \in Worker  BY <4>1, WorkerUpdates
      <4>3. w.queue = worker[made + 1].queue  BY <4>1, WorkerUpdates
      <4> QED  BY <4>1, <4>2, <4>3
    <3>3. worker' = [worker EXCEPT ![made + 1] = w]  BY <1>2, <2>1 DEF Reserve
    <3>4. WorkerOK'
      <4> HIDE DEF w
      <4> QED  BY <3>1, <3>2, <3>3, FieldTyped
    <3>5. item' \in [Item -> Place]
      <4>1. [at |-> "reserved", gen |-> cur'] \in Place  BY <3>1 DEF Place, Gen
      <4>2. item' = [item EXCEPT ![i] = [at |-> "reserved", gen |-> cur']]  BY <1>2 DEF Reserve
      <4> QED  BY <4>1, <4>2 DEF TypeOK, RestOK
    <3> QED  BY <1>2, <3>1, <3>4, <3>5 DEF TypeOK, Reserve, RestOK, Gen
  <2>2. CASE cur # 0
    <3>1. cur \in Gen /\ cur' = cur /\ made' = made
      BY <1>2, <2>2, QueueAssumption DEF Reserve, Gen, TypeOK, WorkerOK, RestOK
    <3> DEFINE w == [worker[cur] EXCEPT !.pending = @ + 1]
    <3>2. worker[cur] \in Worker /\ w \in Worker /\ w.queue = worker[cur].queue
      <4>1. worker[cur] \in Worker  BY <3>1, WorkerAt
      <4>2. worker[cur].pending + 1 \in Int  BY <4>1, WorkerFields
      <4> QED  BY <4>1, <4>2 DEF Worker
    <3>3. worker' = [worker EXCEPT ![cur] = w]  BY <1>2, <2>2, <3>1 DEF Reserve, TypeOK, WorkerOK, RestOK
    <3>4. WorkerOK'
      <4> HIDE DEF w
      <4> QED  BY <3>1, <3>2, <3>3, FieldTyped
    <3>5. item' \in [Item -> Place]
      <4>1. [at |-> "reserved", gen |-> cur'] \in Place  BY <3>1 DEF Place, Gen
      <4>2. item' = [item EXCEPT ![i] = [at |-> "reserved", gen |-> cur']]  BY <1>2 DEF Reserve
      <4> QED  BY <4>1, <4>2 DEF TypeOK, RestOK
    <3> QED  BY <1>2, <3>1, <3>4, <3>5 DEF TypeOK, Reserve, RestOK
  <2> QED  BY <2>1, <2>2
<1>3. CASE Send(i)
  <2> DEFINE g == item[i].gen
             w == [worker[g] EXCEPT !.queue = Append(@, i)]
  <2>1. CASE g \in Gen
    <3>1. worker[g] \in Worker /\ worker[g].queue \in Seq(Item)
      BY <2>1, WorkerAt, WorkerFields
    <3>2. w \in Worker /\ Len(w.queue) <= Cap
      <4>1. /\ Append(worker[g].queue, i) \in Seq(Item)
            /\ Len(Append(worker[g].queue, i)) = Len(worker[g].queue) + 1
            /\ Len(worker[g].queue) \in Nat
        BY <3>1, AppendFacts
      <4>2. Len(Append(worker[g].queue, i)) <= Cap  BY <1>3, <4>1, QueueAssumption DEF Send
      <4> QED  BY <3>1, <4>1, <4>2 DEF Worker
    <3>3. worker' = [worker EXCEPT ![g] = w]  BY <1>3, <2>1 DEF Send, TypeOK, WorkerOK, RestOK
    <3>4. WorkerOK'
      <4> HIDE DEF w, g
      <4> QED  BY <2>1, <3>2, <3>3, WorkerTyped DEF TypeOK
    <3> QED  BY <1>3, <3>4, ItemTyped DEF TypeOK, Send, RestOK
  <2>2. CASE g \notin Gen
    <3>1. worker' = worker  BY <1>3, <2>2 DEF Send, TypeOK, WorkerOK, RestOK
    <3> QED  BY <1>3, <3>1, ItemTyped DEF Send, TypeOK, WorkerOK, RestOK
  <2> QED  BY <2>1, <2>2
<1>4. CASE Withdraw(i)
  <2> DEFINE g == item[i].gen
             w == [worker[g] EXCEPT !.pending = @ - 1]
  <2>1. CASE g \in Gen
    <3>1. worker[g] \in Worker /\ w \in Worker /\ w.queue = worker[g].queue
      <4>1. worker[g] \in Worker  BY <2>1, WorkerAt
      <4>2. worker[g].pending - 1 \in Int  BY <4>1, WorkerFields
      <4> QED  BY <4>1, <4>2 DEF Worker
    <3>3. worker' = [worker EXCEPT ![g] = w]  BY <1>4, <2>1 DEF Withdraw, TypeOK, WorkerOK, RestOK
    <3>4. WorkerOK'
      <4> HIDE DEF w, g
      <4> QED  BY <2>1, <3>1, <3>3, FieldTyped
    <3> QED  BY <1>4, <3>4, ItemTyped DEF TypeOK, Withdraw, Settled, RestOK
  <2>2. CASE g \notin Gen
    <3>1. worker' = worker  BY <1>4, <2>2 DEF Withdraw, TypeOK, WorkerOK, RestOK
    <3> QED  BY <1>4, <3>1, ItemTyped DEF Withdraw, Settled, TypeOK, WorkerOK, RestOK
  <2> QED  BY <2>1, <2>2
<1> QED  BY <1>1, <1>2, <1>3, <1>4 DEF TurnStep

\* Taking a turn out of a channel, in any generation the goroutine holds.
LEMMA DropHeadTyped ==
  ASSUME TypeOK, NEW g \in 0..MaxGen, DropHead(g)
  PROVE  WorkerOK' /\ item' \in [Item -> Place]
<1>1. CASE g \in Gen  BY <1>1, DropTyped
<1>2. CASE g \notin Gen
  <2>1. worker' = worker  BY <1>2 DEF DropHead, TypeOK, WorkerOK
  <2>2. item' \in [Item -> Place]  BY SettledTyped DEF DropHead
  <2> QED  BY <2>1, <2>2 DEF TypeOK, WorkerOK
<1> QED  BY <1>1, <1>2

LEMMA WorkerTypeOK ==
  ASSUME TypeOK, Running, NEW g \in Gen, WorkerStep(g)
  PROVE  TypeOK'
<1>0. worker[g] \in Worker  BY WorkerAt
<1>1. CASE Take(g)
  <2> DEFINE next == Head(worker[g].queue)
             w == [worker[g] EXCEPT !.pc = "taken", !.item = next, !.queue = Tail(@)]
  <2>1. worker[g].queue \in Seq(Item) /\ worker[g].queue # <<>>
    BY <1>0, <1>1, WorkerFields DEF Take
  <2>2. next \in Item /\ Tail(worker[g].queue) \in Seq(Item) /\ Len(Tail(worker[g].queue)) <= Cap
    BY <2>1, TailFacts, QueueAssumption DEF TypeOK, WorkerOK
  <2>3. w \in Worker  BY <1>0, <2>2 DEF Worker
  <2>4. w.queue = Tail(worker[g].queue)  BY <1>0 DEF Worker
  <2>5. worker' = [worker EXCEPT ![g] = w] /\ item' = [item EXCEPT ![next].at = "taken"]
    BY <1>1 DEF Take
  <2>6. WorkerOK'
    <3> HIDE DEF w
    <3> QED  BY <2>2, <2>3, <2>4, <2>5, WorkerTyped DEF TypeOK
  <2>7. item' \in [Item -> Place]
    <3> HIDE DEF next
    <3> QED  BY <2>2, <2>5, ItemTyped
  <2> QED  BY <1>1, <2>6, <2>7 DEF Take, TypeOK, RestOK
<1>2. CASE BeginTurn(g)
  <2> DEFINE l == ~ worker[g].canceling /\ ~ done
             w == [worker[g] EXCEPT !.pc = "run", !.durable = FALSE, !.live = l]
  <2>1. l \in BOOLEAN  OBVIOUS
  <2>2. w \in Worker /\ w.queue = worker[g].queue
    <3> HIDE DEF l
    <3> QED  BY <1>0, <2>1, WorkerUpdates
  <2>3. worker' = [worker EXCEPT ![g] = w]  BY <1>2 DEF BeginTurn, TypeOK, WorkerOK
  <2>4. WorkerOK'
    <3> HIDE DEF w
    <3> QED  BY <2>2, <2>3, FieldTyped
  <2> QED  BY <1>2, <2>4 DEF BeginTurn, TypeOK, RestOK
<1>3. CASE Finish(g)
  <2> DEFINE w == [worker[g] EXCEPT !.pc = "select", !.item = NoItem, !.live = FALSE,
                                    !.durable = FALSE, !.pending = @ - 1]
  <2>1. w \in Worker /\ w.queue = worker[g].queue  BY <1>0, WorkerUpdates
  <2>2. worker' = [worker EXCEPT ![g] = w]  BY <1>3 DEF Finish
  <2>3. WorkerOK'
    <3> HIDE DEF w
    <3> QED  BY <2>1, <2>2, FieldTyped
  <2> QED  BY <1>3, <2>3, SettledTyped DEF Finish, TypeOK, RestOK
<1>4. CASE Retire(g)
  <2> DEFINE w == [worker[g] EXCEPT !.pc = "exit"]
  <2>1. w \in Worker /\ w.queue = worker[g].queue  BY <1>0, WorkerUpdates
  <2>2. worker' = [worker EXCEPT ![g] = w]  BY <1>4 DEF Retire, TypeOK, WorkerOK
  <2>3. WorkerOK'
    <3> HIDE DEF w
    <3> QED  BY <2>1, <2>2, FieldTyped
  <2> QED  BY <1>4, <2>3 DEF Retire, TypeOK, RestOK
<1>5. CASE Shutdown(g)
  <2>1. ASSUME NEW p \in {"exit", "drop"}, worker' = [worker EXCEPT ![g].pc = p]
        PROVE  WorkerOK'
    <3> DEFINE w == [worker[g] EXCEPT !.pc = p]
    <3>1. w \in Worker /\ w.queue = worker[g].queue  BY <1>0, WorkerUpdates
    <3>2. worker' = [worker EXCEPT ![g] = w]  BY <2>1 DEF TypeOK, WorkerOK
    <3> HIDE DEF w
    <3> QED  BY <3>1, <3>2, FieldTyped
  <2>2. WorkerOK' /\ item' \in [Item -> Place]
    BY <1>5, <2>1, DropTyped DEF Shutdown, TypeOK, RestOK
  <2> QED  BY <1>5, <2>2 DEF Shutdown, TypeOK, RestOK
<1>6. CASE CommitCurrentDurableTerminal(g)
  <2> DEFINE w == [worker[g] EXCEPT !.durable = TRUE]
  <2>1. w \in Worker /\ w.queue = worker[g].queue  BY <1>0, WorkerUpdates
  <2>2. worker' = [worker EXCEPT ![g] = w] \/ worker' = worker
    BY <1>6 DEF CommitCurrentDurableTerminal, TypeOK, WorkerOK
  <2>3. WorkerOK'
    <3>1. CASE worker' = worker  BY <3>1 DEF TypeOK, WorkerOK
    <3>2. CASE worker' = [worker EXCEPT ![g] = w]
      <4> HIDE DEF w
      <4> QED  BY <2>1, <3>2, FieldTyped
    <3> QED  BY <2>2, <3>1, <3>2
  <2>4. worker[g].item \in Item
    BY <1>6 DEF CommitCurrentDurableTerminal, RunsLive, Running
  <2> QED  BY <1>6, <2>3, <2>4 DEF CommitCurrentDurableTerminal, TypeOK, RestOK
<1> QED  BY <1>1, <1>2, <1>3, <1>4, <1>5, <1>6 DEF WorkerStep

\* One worker is updated and its channel left alone, or none is.
LEMMA OneUpdated ==
  ASSUME TypeOK, NEW g \in 0..MaxGen, NEW w,
         g \in Gen => w \in Worker /\ w.queue = worker[g].queue,
         worker' = [worker EXCEPT ![g] = w]
  PROVE  WorkerOK'
<1>1. CASE g \in Gen  BY <1>1, FieldTyped
<1>2. CASE g \notin Gen
  <2>1. worker' = worker  BY <1>2 DEF TypeOK, WorkerOK
  <2> QED  BY <2>1 DEF TypeOK, WorkerOK
<1> QED  BY <1>1, <1>2

LEMMA CallerTypeOK ==
  ASSUME TypeOK, NEW c \in Caller, CallerStep(c)
  PROVE  TypeOK'
<1> DEFINE g == caller[c].gen
<1>0. caller[c] \in Barrier /\ g \in 0..MaxGen /\ cur \in 0..MaxGen
  BY CallerAt DEF TypeOK, RestOK
<1>a. caller \in [Caller -> Barrier]  BY DEF TypeOK, RestOK
<1>1. CASE BeginDraftCancellation(c)
  <2>1. CASE cur = 0
    <3>1. /\ caller' = [caller EXCEPT ![c].pc = "wait"] /\ leases' = leases + 1
          /\ UNCHANGED <<worker, cur, made, done, closer, item, answered>>
      BY <1>1, <2>1 DEF BeginDraftCancellation
    <3>2. caller' \in [Caller -> Barrier]  BY <3>1, CallerTyped
    <3>3. leases' \in Nat  BY <3>1 DEF TypeOK, RestOK
    <3> QED  BY <3>1, <3>2, <3>3 DEF TypeOK, WorkerOK, RestOK
  <2>2. CASE cur # 0
    <3> DEFINE w == [worker[cur] EXCEPT !.canceling = TRUE, !.live = FALSE]
               n == IF worker[cur].pc = "run" /\ worker[cur].durable /\ worker[cur].pending > 0
                    THEN worker[cur].pending - 1 ELSE worker[cur].pending
               T == Accepted(cur) \ answered
               b == [caller[c] EXCEPT !.pc = "wait", !.gen = cur, !.turns = T, !.covered = n]
    <3>1. cur \in Gen  BY <1>0, <2>2, QueueAssumption DEF Gen
    <3>2. worker[cur] \in Worker  BY <3>1, WorkerAt
    <3>3. w \in Worker /\ w.queue = worker[cur].queue  BY <3>2, WorkerUpdates
    <3>4. n \in Int /\ T \in SUBSET Item  BY <3>2, WorkerFields DEF Accepted
    <3>5. b \in Barrier
      <4> HIDE DEF n, T
      <4> QED  BY <1>0, <3>4 DEF Barrier
    <3>6. worker' = [worker EXCEPT ![cur] = w] /\ caller' = [caller EXCEPT ![c] = b]
      BY <1>1, <2>2 DEF BeginDraftCancellation
    <3>7. WorkerOK'
      <4> HIDE DEF w
      <4> QED  BY <3>1, <3>3, <3>6, FieldTyped
    <3>8. caller' \in [Caller -> Barrier]
      <4> HIDE DEF b
      <4> QED  BY <1>a, <3>5, <3>6
    <3> QED  BY <1>1, <3>7, <3>8 DEF BeginDraftCancellation, TypeOK, RestOK
  <2> QED  BY <2>1, <2>2
<1>2. CASE Drained(c)  BY <1>2, CallerTyped DEF Drained, TypeOK, WorkerOK, RestOK
<1>3. CASE Release(c)  BY <1>3, CallerTyped DEF Release, TypeOK, WorkerOK, RestOK
<1>4. CASE ReleaseOnClose(c)  BY <1>4, CallerTyped DEF ReleaseOnClose, TypeOK, WorkerOK, RestOK
<1>5. CASE Abandon(c)
  <2> DEFINE w == [worker[g] EXCEPT !.retired = TRUE]
  <2>1. g \in Gen => w \in Worker /\ w.queue = worker[g].queue  BY WorkerAt, WorkerUpdates
  <2>2. worker' = worker \/ worker' = [worker EXCEPT ![g] = w]
    BY <1>5 DEF Abandon, TypeOK, WorkerOK
  <2>3. WorkerOK'
    <3>1. CASE worker' = worker  BY <3>1 DEF TypeOK, WorkerOK
    <3>2. CASE worker' = [worker EXCEPT ![g] = w]
      <4> HIDE DEF w, g
      <4> QED  BY <1>0, <2>1, <3>2, OneUpdated
    <3> QED  BY <2>2, <3>1, <3>2
  <2>4. caller' \in [Caller -> Barrier]
    <3>1. \A p \in {"producers", "unlock"} : [caller[c] EXCEPT !.pc = p, !.abandon = TRUE] \in Barrier
      BY <1>0 DEF Barrier
    <3>2. \E p \in {"producers", "unlock"} :
            caller' = [caller EXCEPT ![c] = [caller[c] EXCEPT !.pc = p, !.abandon = TRUE]]
      BY <1>5 DEF Abandon
    <3> QED  BY <1>a, <3>1, <3>2
  <2>5. cur' \in 0..MaxGen /\ cur' <= made  BY <1>5, QueueAssumption DEF Abandon, TypeOK, RestOK
  <2> QED  BY <1>5, <2>3, <2>4, <2>5 DEF Abandon, TypeOK, RestOK
<1>6. CASE AwaitProducers(c)  BY <1>6, CallerTyped DEF AwaitProducers, TypeOK, WorkerOK, RestOK
<1>7. CASE Drain(c)
  <2>1. CASE DropHead(g) /\ UNCHANGED caller
    <3>1. WorkerOK' /\ item' \in [Item -> Place]
      <4> HIDE DEF g
      <4> QED  BY <1>0, <2>1, DropHeadTyped
    <3> QED  BY <1>7, <2>1, <3>1 DEF Drain, TypeOK, RestOK
  <2>2. CASE caller' = [caller EXCEPT ![c].pc = "unlock"] /\ UNCHANGED <<worker, item>>
    BY <1>7, <2>2, CallerTyped DEF Drain, TypeOK, WorkerOK, RestOK
  <2> QED  BY <1>7, <2>1, <2>2 DEF Drain
<1>8. CASE Unlock(c)
  <2> DEFINE w == [worker[g] EXCEPT !.canceling = FALSE]
  <2>1. g \in Gen => w \in Worker /\ w.queue = worker[g].queue  BY WorkerAt, WorkerUpdates
  <2>2. worker' = worker \/ worker' = [worker EXCEPT ![g] = w]
    BY <1>8 DEF Unlock, TypeOK, WorkerOK
  <2>3. WorkerOK'
    <3>1. CASE worker' = worker  BY <3>1 DEF TypeOK, WorkerOK
    <3>2. CASE worker' = [worker EXCEPT ![g] = w]
      <4> HIDE DEF w, g
      <4> QED  BY <1>0, <2>1, <3>2, OneUpdated
    <3> QED  BY <2>2, <3>1, <3>2
  <2>4. leases' \in Nat  BY <1>8 DEF Unlock, TypeOK, RestOK
  <2> QED  BY <1>8, <2>3, <2>4, CallerTyped DEF Unlock, TypeOK, RestOK
<1> QED  BY <1>1, <1>2, <1>3, <1>4, <1>5, <1>6, <1>7, <1>8 DEF CallerStep

\* The queue's context ends: no turn is live any more.
LEMMA CancelledTyped ==
  ASSUME TypeOK, worker' = Cancelled
  PROVE  WorkerOK' /\ \A h \in Gen : worker'[h] = [worker[h] EXCEPT !.live = FALSE]
<1>1. \A h \in Gen : worker'[h] = [worker[h] EXCEPT !.live = FALSE]  BY DEF Cancelled
<1>2. \A h \in Gen : worker'[h] \in Worker /\ worker'[h].queue = worker[h].queue
  BY <1>1, WorkerAt, WorkerUpdates
<1>3. worker' \in [Gen -> Worker]  BY <1>2 DEF Cancelled
<1> QED  BY <1>1, <1>2, <1>3 DEF TypeOK, WorkerOK

LEMMA CloseTypeOK ==
  ASSUME TypeOK, CloseStep \/ RequestStop
  PROVE  TypeOK'
<1> DEFINE g == closer.gen
<1>0. g \in 0..MaxGen /\ cur \in 0..MaxGen  BY DEF TypeOK, RestOK
<1>1. CASE ParentDone  BY <1>1, CancelledTyped DEF ParentDone, TypeOK, RestOK
<1>2. CASE Close
  <2>1. closer' \in [pc : {"idle", "seal", "producers", "drain", "over"}, gen : 0..MaxGen]
    BY <1>0, <1>2 DEF Close
  <2>2. cur' \in 0..MaxGen /\ cur' <= made /\ leases' \in Nat
    BY <1>2, QueueAssumption DEF Close, TypeOK, RestOK
  <2> QED  BY <1>2, <2>1, <2>2, CancelledTyped DEF Close, TypeOK, RestOK
<1>3. CASE CloseSeal
  <2> DEFINE w == [worker[g] EXCEPT !.retired = TRUE]
  <2>1. g \in Gen => w \in Worker /\ w.queue = worker[g].queue  BY WorkerAt, WorkerUpdates
  <2>2. worker' = [worker EXCEPT ![g] = w]  BY <1>3 DEF CloseSeal, TypeOK, WorkerOK
  <2>3. WorkerOK'
    <3> HIDE DEF w, g
    <3> QED  BY <1>0, <2>1, <2>2, OneUpdated
  <2> QED  BY <1>3, <2>3 DEF CloseSeal, TypeOK, RestOK
<1>4. CASE CloseAwaitProducers  BY <1>4 DEF CloseAwaitProducers, TypeOK, WorkerOK, RestOK
<1>5. CASE CloseDrain
  <2>1. CASE DropHead(g) /\ UNCHANGED closer
    <3>1. WorkerOK' /\ item' \in [Item -> Place]
      <4> HIDE DEF g
      <4> QED  BY <1>0, <2>1, DropHeadTyped
    <3> QED  BY <1>5, <2>1, <3>1 DEF CloseDrain, TypeOK, RestOK
  <2>2. CASE closer' = [closer EXCEPT !.pc = "over"] /\ UNCHANGED <<worker, item>>
    BY <1>5, <2>2 DEF CloseDrain, TypeOK, WorkerOK, RestOK
  <2> QED  BY <1>5, <2>1, <2>2 DEF CloseDrain
<1>6. CASE RequestStop
  <2> DEFINE w == [worker[cur] EXCEPT !.live = FALSE]
  <2>1. cur \in Gen  BY <1>0, <1>6, QueueAssumption DEF RequestStop, Gen
  <2>2. w \in Worker /\ w.queue = worker[cur].queue  BY <2>1, WorkerAt, WorkerUpdates
  <2>3. worker' = [worker EXCEPT ![cur] = w]  BY <1>6, <2>1 DEF RequestStop, TypeOK, WorkerOK
  <2>4. WorkerOK'
    <3> HIDE DEF w
    <3> QED  BY <2>1, <2>2, <2>3, FieldTyped
  <2> QED  BY <1>6, <2>4 DEF RequestStop, TypeOK, RestOK
<1> QED  BY <1>1, <1>2, <1>3, <1>4, <1>5, <1>6 DEF CloseStep

-----------------------------------------------------------------------------
(* Which goroutine may run a live turn. *)

LEMMA RunningUpdate ==
  ASSUME TypeOK, Running, NEW g \in 0..MaxGen, NEW w,
         worker' = [worker EXCEPT ![g] = w], UNCHANGED <<cur, done>>,
         g \in Gen => /\ w.pc \in {"taken", "run"} => w.item \in Item
                      /\ w.pc = "run" /\ w.live => g = cur /\ ~ w.canceling /\ ~ done
                      /\ w.pc # "none" => g = cur \/ w.retired \/ done
  PROVE  Running'
<1>1. \A h \in Gen : worker'[h] = IF h = g THEN w ELSE worker[h]  BY DEF TypeOK, WorkerOK
<1> QED  BY <1>1 DEF Running, RunsLive

LEMMA DropHeadRunning ==
  ASSUME TypeOK, Running, NEW g \in 0..MaxGen, DropHead(g), UNCHANGED <<cur, done>>
  PROVE  Running'
<1> DEFINE w == [worker[g] EXCEPT !.queue = Tail(@), !.pending = @ - 1]
<1>1. worker' = [worker EXCEPT ![g] = w]  BY DEF DropHead
<1>2. g \in Gen => /\ w.pc = worker[g].pc /\ w.item = worker[g].item /\ w.live = worker[g].live
                   /\ w.canceling = worker[g].canceling /\ w.retired = worker[g].retired
  BY WorkerAt DEF Worker
<1> HIDE DEF w
<1> QED  BY <1>1, <1>2, RunningUpdate DEF Running, RunsLive

LEMMA TurnRunning ==
  ASSUME TypeOK, Running, NEW i \in Item, TurnStep(i)
  PROVE  Running'
<1>0. item[i].gen \in 0..MaxGen /\ cur \in 0..MaxGen /\ made \in 0..MaxGen
  BY ItemAt DEF TypeOK, RestOK
<1>1. CASE Refuse(i)  BY <1>1 DEF Refuse, Running, RunsLive
<1>2. CASE Reserve(i)
  <2>1. CASE cur = 0
    <3> DEFINE w == [worker[made + 1] EXCEPT !.pc = "select", !.pending = 1]
    <3>1. made + 1 \in Gen /\ cur' = made + 1 /\ done' = done /\ ~ done
      BY <1>0, <1>2, <2>1, QueueAssumption DEF Reserve, Gen
    <3>2. worker[made + 1] \in Worker  BY <3>1, WorkerAt
    <3>3. w.pc = "select"  BY <3>2 DEF Worker
    <3>4. worker' = [worker EXCEPT ![made + 1] = w]  BY <1>2, <2>1 DEF Reserve
    <3>5. \A h \in Gen : worker'[h] = IF h = made + 1 THEN w ELSE worker[h]
      BY <3>4 DEF TypeOK, WorkerOK
    <3>6. \A h \in Gen : h # 0  BY DEF Gen
    <3> HIDE DEF w
    <3> QED  BY <2>1, <3>1, <3>3, <3>5, <3>6 DEF Running, RunsLive
  <2>2. CASE cur # 0
    <3> DEFINE w == [worker[cur] EXCEPT !.pending = @ + 1]
    <3>1. cur \in Gen  BY <1>0, <2>2, QueueAssumption DEF Gen
    <3>2. worker[cur] \in Worker  BY <3>1, WorkerAt
    <3>3. /\ w.pc = worker[cur].pc /\ w.item = worker[cur].item /\ w.live = worker[cur].live
          /\ w.canceling = worker[cur].canceling /\ w.retired = worker[cur].retired
      BY <3>2 DEF Worker
    <3>4. worker' = [worker EXCEPT ![cur] = w] /\ UNCHANGED <<cur, done>>
      BY <1>2, <2>2, <3>1 DEF Reserve, TypeOK, WorkerOK
    <3> HIDE DEF w
    <3> QED  BY <1>0, <3>3, <3>4, RunningUpdate DEF Running, RunsLive
  <2> QED  BY <2>1, <2>2
<1>3. CASE Send(i) \/ Withdraw(i)
  <2> DEFINE g == item[i].gen
             v == [worker[g] EXCEPT !.queue = Append(@, i)]
             w == [worker[g] EXCEPT !.pending = @ - 1]
  <2>1. worker' = [worker EXCEPT ![g] = v] \/ worker' = [worker EXCEPT ![g] = w]
    BY <1>3 DEF Send, Withdraw, TypeOK, WorkerOK
  <2>2. UNCHANGED <<cur, done>>  BY <1>3 DEF Send, Withdraw
  <2>3. g \in Gen => /\ v.pc = worker[g].pc /\ v.item = worker[g].item /\ v.live = worker[g].live
                     /\ v.canceling = worker[g].canceling /\ v.retired = worker[g].retired
                     /\ w.pc = worker[g].pc /\ w.item = worker[g].item /\ w.live = worker[g].live
                     /\ w.canceling = worker[g].canceling /\ w.retired = worker[g].retired
    BY WorkerAt DEF Worker
  <2> HIDE DEF g, v, w
  <2> QED
    <3>0. g \in 0..MaxGen  BY <1>0 DEF g
    <3>1. CASE worker' = [worker EXCEPT ![g] = v]
      BY <2>2, <2>3, <3>0, <3>1, RunningUpdate DEF Running, RunsLive
    <3>2. CASE worker' = [worker EXCEPT ![g] = w]
      BY <2>2, <2>3, <3>0, <3>2, RunningUpdate DEF Running, RunsLive
    <3> QED  BY <2>1, <3>1, <3>2
<1> QED  BY <1>1, <1>2, <1>3 DEF TurnStep

LEMMA WorkerRunning ==
  ASSUME TypeOK, Running, NEW g \in Gen, WorkerStep(g)
  PROVE  Running'
<1>0. worker[g] \in Worker /\ g \in 0..MaxGen  BY WorkerAt, QueueAssumption DEF Gen
<1>1. CASE Take(g)
  <2> DEFINE w == [worker[g] EXCEPT !.pc = "taken", !.item = Head(worker[g].queue), !.queue = Tail(@)]
  <2>1. worker' = [worker EXCEPT ![g] = w] /\ UNCHANGED <<cur, done>>  BY <1>1 DEF Take
  <2>2. Head(worker[g].queue) \in Item  BY <1>0, <1>1, WorkerFields, TailFacts DEF Take
  <2>3. w.pc = "taken" /\ w.item \in Item /\ w.retired = worker[g].retired  BY <1>0, <2>2 DEF Worker
  <2>4. worker[g].pc # "none"  BY <1>1 DEF Take
  <2> HIDE DEF w
  <2> QED  BY <1>0, <2>1, <2>3, <2>4, RunningUpdate DEF Running
<1>2. CASE BeginTurn(g)
  <2> DEFINE w == [worker[g] EXCEPT !.pc = "run", !.durable = FALSE,
                                    !.live = ~ worker[g].canceling /\ ~ done]
  <2>1. worker' = [worker EXCEPT ![g] = w] /\ UNCHANGED <<cur, done>>
    BY <1>2 DEF BeginTurn, TypeOK, WorkerOK
  <2>2. /\ w.item = worker[g].item /\ w.live = (~ worker[g].canceling /\ ~ done)
        /\ w.canceling = worker[g].canceling /\ w.retired = worker[g].retired
    BY <1>0 DEF Worker
  <2>3. worker[g].pc = "taken" /\ ~ worker[g].retired  BY <1>2 DEF BeginTurn
  <2> HIDE DEF w
  <2> QED  BY <1>0, <2>1, <2>2, <2>3, RunningUpdate DEF Running
<1>3. CASE Finish(g)
  <2> DEFINE w == [worker[g] EXCEPT !.pc = "select", !.item = NoItem, !.live = FALSE,
                                    !.durable = FALSE, !.pending = @ - 1]
  <2>1. worker' = [worker EXCEPT ![g] = w] /\ UNCHANGED <<cur, done>>  BY <1>3 DEF Finish
  <2>2. w.pc = "select" /\ w.retired = worker[g].retired  BY <1>0 DEF Worker
  <2>3. worker[g].pc # "none"  BY <1>3 DEF Finish
  <2> HIDE DEF w
  <2> QED  BY <1>0, <2>1, <2>2, <2>3, RunningUpdate DEF Running
<1>4. CASE Retire(g) \/ Shutdown(g)
  <2>1. CASE DropHead(g)
    <3>1. UNCHANGED <<cur, done>>  BY <1>4 DEF Retire, Shutdown
    <3> QED  BY <1>0, <2>1, <3>1, DropHeadRunning
  <2>2. CASE ~ DropHead(g)
    <3>1. PICK p \in {"exit", "drop"} : worker' = [worker EXCEPT ![g].pc = p]
      BY <1>4, <2>2 DEF Retire, Shutdown
    <3> DEFINE w == [worker[g] EXCEPT !.pc = p]
    <3>2. worker' = [worker EXCEPT ![g] = w] /\ UNCHANGED <<cur, done>>
      BY <1>4, <3>1 DEF Retire, Shutdown, TypeOK, WorkerOK
    <3>3. w.pc = p /\ w.retired = worker[g].retired  BY <1>0 DEF Worker
    <3>4. worker[g].pc # "none"  BY <1>4, <2>2 DEF Retire, Shutdown
    <3> HIDE DEF w
    <3> QED  BY <1>0, <3>2, <3>3, <3>4, RunningUpdate DEF Running
  <2> QED  BY <2>1, <2>2
<1>5. CASE CommitCurrentDurableTerminal(g)
  <2> DEFINE w == [worker[g] EXCEPT !.durable = TRUE]
  <2>1. /\ worker' = [worker EXCEPT ![g] = w] \/ worker' = worker
        /\ UNCHANGED <<cur, done>>
    BY <1>5 DEF CommitCurrentDurableTerminal, TypeOK, WorkerOK
  <2>2. /\ w.pc = worker[g].pc /\ w.item = worker[g].item /\ w.live = worker[g].live
        /\ w.canceling = worker[g].canceling /\ w.retired = worker[g].retired
    BY <1>0 DEF Worker
  <2> HIDE DEF w
  <2>3. CASE worker' = worker  BY <2>1, <2>3 DEF Running, RunsLive
  <2>4. CASE worker' = [worker EXCEPT ![g] = w]
    BY <1>0, <2>1, <2>2, <2>4, RunningUpdate DEF Running, RunsLive
  <2> QED  BY <2>1, <2>3, <2>4
<1> QED  BY <1>1, <1>2, <1>3, <1>4, <1>5 DEF WorkerStep

\* A caller between BeginDraftCancellation and its unlock keeps the current
\* worker's turn from being live.
LEMMA HolderQuiet ==
  ASSUME TypeOK, Running, Leased, NEW c \in Holders, NEW g \in Gen
  PROVE  ~ RunsLive(g)
<1> SUFFICES ASSUME RunsLive(g) PROVE FALSE  OBVIOUS
<1>1. g = cur /\ ~ worker[g].canceling /\ ~ done  BY DEF Running
<1>2. g # 0  BY DEF Gen
<1>3. leases = Cardinality(Holders)  BY <1>1 DEF Leased, TypeOK, RestOK
<1>4. IsFiniteSet(Holders)  BY QueueAssumption, FS_Subset DEF Holders
<1>5. Cardinality(Holders) # 0  BY <1>4, FS_EmptySet
<1>6. leases > 0  BY <1>3, <1>5 DEF TypeOK, RestOK
<1> QED  BY <1>1, <1>2, <1>6 DEF Leased

LEMMA CallerRunning ==
  ASSUME TypeOK, Running, Leased, NEW c \in Caller, CallerStep(c)
  PROVE  Running'
<1> DEFINE g == caller[c].gen
<1>0. g \in 0..MaxGen /\ cur \in 0..MaxGen  BY CallerAt DEF TypeOK, RestOK
<1>a. \A h \in Gen : h # 0  BY DEF Gen
<1>1. CASE BeginDraftCancellation(c)
  <2>1. CASE cur = 0  BY <1>1, <2>1 DEF BeginDraftCancellation, Running, RunsLive
  <2>2. CASE cur # 0
    <3> DEFINE w == [worker[cur] EXCEPT !.canceling = TRUE, !.live = FALSE]
    <3>1. worker' = [worker EXCEPT ![cur] = w] /\ UNCHANGED <<cur, done>>
      BY <1>1, <2>2 DEF BeginDraftCancellation
    <3>2. cur \in Gen => /\ w.pc = worker[cur].pc /\ w.item = worker[cur].item /\ w.live = FALSE
                         /\ w.retired = worker[cur].retired
      BY WorkerAt DEF Worker
    <3> HIDE DEF w
    <3> QED  BY <1>0, <3>1, <3>2, RunningUpdate DEF Running
  <2> QED  BY <2>1, <2>2
<1>2. CASE Drained(c) \/ Release(c) \/ ReleaseOnClose(c) \/ AwaitProducers(c)
  BY <1>2 DEF Drained, Release, ReleaseOnClose, AwaitProducers, Running, RunsLive
<1>3. CASE Abandon(c)
  <2>1. CASE g # 0 /\ cur = g
    <3> DEFINE w == [worker[g] EXCEPT !.retired = TRUE]
    <3>1. cur' = 0 /\ worker' = [worker EXCEPT ![g] = w] /\ done' = done
      BY <1>3, <2>1 DEF Abandon, TypeOK, WorkerOK
    <3>2. g \in Gen  BY <1>0, <2>1, QueueAssumption DEF Gen
    <3>3. worker[g] \in Worker  BY <3>2, WorkerAt
    <3>4. w.retired /\ w.pc = worker[g].pc /\ w.item = worker[g].item /\ w.live = worker[g].live
      BY <3>3 DEF Worker
    <3>5. c \in Holders  BY <1>3 DEF Abandon, Holders
    <3>6. \A h \in Gen : ~ RunsLive(h)  BY <3>5, HolderQuiet
    <3>7. \A h \in Gen : worker'[h] = IF h = g THEN w ELSE worker[h]
      BY <3>1 DEF TypeOK, WorkerOK
    <3> HIDE DEF w, g
    <3> QED  BY <2>1, <3>1, <3>4, <3>6, <3>7 DEF Running, RunsLive
  <2>2. CASE ~ (g # 0 /\ cur = g)
    <3>1. UNCHANGED <<worker, cur, done>>  BY <1>3, <2>2 DEF Abandon
    <3> QED  BY <3>1 DEF Running, RunsLive
  <2> QED  BY <2>1, <2>2
<1>4. CASE Drain(c)
  <2>1. UNCHANGED <<cur, done>>  BY <1>4 DEF Drain
  <2>2. CASE DropHead(g)
    <3> HIDE DEF g
    <3> QED  BY <1>0, <2>1, <2>2, DropHeadRunning
  <2>3. CASE ~ DropHead(g)
    <3>1. worker' = worker  BY <1>4, <2>3 DEF Drain
    <3> QED  BY <2>1, <3>1 DEF Running, RunsLive
  <2> QED  BY <2>2, <2>3
<1>5. CASE Unlock(c)
  <2> DEFINE w == [worker[g] EXCEPT !.canceling = FALSE]
  <2>1. worker' = worker \/ worker' = [worker EXCEPT ![g] = w]
    BY <1>5 DEF Unlock, TypeOK, WorkerOK
  <2>2. UNCHANGED <<cur, done>>  BY <1>5 DEF Unlock
  <2>3. g \in Gen => /\ w.pc = worker[g].pc /\ w.item = worker[g].item /\ w.live = worker[g].live
                     /\ w.retired = worker[g].retired /\ ~ w.canceling
    BY WorkerAt DEF Worker
  <2> HIDE DEF w, g
  <2>4. CASE worker' = worker  BY <2>2, <2>4 DEF Running, RunsLive
  <2>5. CASE worker' = [worker EXCEPT ![g] = w]
    BY <1>0, <2>2, <2>3, <2>5, RunningUpdate DEF Running, RunsLive
  <2> QED  BY <2>1, <2>4, <2>5
<1> QED  BY <1>1, <1>2, <1>3, <1>4, <1>5 DEF CallerStep

LEMMA CloseRunning ==
  ASSUME TypeOK, Running, CloseStep \/ RequestStop
  PROVE  Running'
<1> DEFINE g == closer.gen
<1>0. g \in 0..MaxGen /\ cur \in 0..MaxGen  BY DEF TypeOK, RestOK
<1>1. CASE ParentDone \/ Close
  <2>1. worker' = Cancelled /\ done'  BY <1>1 DEF ParentDone, Close
  <2>2. \A h \in Gen : worker'[h] = [worker[h] EXCEPT !.live = FALSE]  BY <2>1, CancelledTyped
  <2>3. \A h \in Gen : /\ worker'[h].pc = worker[h].pc /\ worker'[h].item = worker[h].item
                       /\ worker'[h].live = FALSE
    BY <2>2, WorkerAt DEF Worker
  <2> QED  BY <2>1, <2>3 DEF Running, RunsLive
<1>2. CASE CloseSeal
  <2> DEFINE w == [worker[g] EXCEPT !.retired = TRUE]
  <2>1. worker' = [worker EXCEPT ![g] = w] /\ UNCHANGED <<cur, done>>
    BY <1>2 DEF CloseSeal, TypeOK, WorkerOK
  <2>2. g \in Gen => /\ w.pc = worker[g].pc /\ w.item = worker[g].item /\ w.live = worker[g].live
                     /\ w.canceling = worker[g].canceling /\ w.retired
    BY WorkerAt DEF Worker
  <2> HIDE DEF w, g
  <2> QED  BY <1>0, <2>1, <2>2, RunningUpdate DEF Running, RunsLive
<1>3. CASE CloseAwaitProducers  BY <1>3 DEF CloseAwaitProducers, Running, RunsLive
<1>4. CASE CloseDrain
  <2>1. UNCHANGED <<cur, done>>  BY <1>4 DEF CloseDrain
  <2>2. CASE DropHead(g)
    <3> HIDE DEF g
    <3> QED  BY <1>0, <2>1, <2>2, DropHeadRunning
  <2>3. CASE ~ DropHead(g)
    <3>1. worker' = worker  BY <1>4, <2>3 DEF CloseDrain
    <3> QED  BY <2>1, <3>1 DEF Running, RunsLive
  <2> QED  BY <2>2, <2>3
<1>5. CASE RequestStop
  <2> DEFINE w == [worker[cur] EXCEPT !.live = FALSE]
  <2>1. worker' = [worker EXCEPT ![cur] = w] /\ UNCHANGED <<cur, done>>
    BY <1>5 DEF RequestStop, TypeOK, WorkerOK
  <2>2. cur \in Gen => /\ w.pc = worker[cur].pc /\ w.item = worker[cur].item /\ w.live = FALSE
                       /\ w.retired = worker[cur].retired
    BY WorkerAt DEF Worker
  <2> HIDE DEF w
  <2> QED  BY <1>0, <2>1, <2>2, RunningUpdate DEF Running
<1> QED  BY <1>1, <1>2, <1>3, <1>4, <1>5 DEF CloseStep

-----------------------------------------------------------------------------
(* The leases and the mark on the current worker. *)

\* A step that takes no lease, gives none back and changes neither the current
\* worker nor any mark.
LEMMA LeasedKept ==
  ASSUME Leased, cur \in 0..MaxGen,
         UNCHANGED <<cur, closer, leases>>, done => done', Holders' = Holders,
         cur \in Gen /\ worker[cur].canceling => worker'[cur].canceling
  PROVE  Leased'
<1>1. cur # 0 => cur \in Gen  BY QueueAssumption DEF Gen
<1> QED  BY <1>1 DEF Leased

LEMMA MarkKept ==
  ASSUME TypeOK, NEW g, NEW w, worker' = [worker EXCEPT ![g] = w],
         g \in Gen => w.canceling = worker[g].canceling, cur \in Gen
  PROVE  worker'[cur].canceling = worker[cur].canceling
<1>1. worker'[cur] = IF cur = g THEN w ELSE worker[cur]  BY DEF TypeOK, WorkerOK
<1> QED  BY <1>1

LEMMA DropHeadMark ==
  ASSUME TypeOK, NEW g, DropHead(g), cur \in Gen
  PROVE  worker'[cur].canceling = worker[cur].canceling
<1> DEFINE w == [worker[g] EXCEPT !.queue = Tail(@), !.pending = @ - 1]
<1>1. worker' = [worker EXCEPT ![g] = w]  BY DEF DropHead
<1>2. g \in Gen => w.canceling = worker[g].canceling  BY WorkerAt DEF Worker
<1> HIDE DEF w
<1> QED  BY <1>1, <1>2, MarkKept

LEMMA TurnLeased ==
  ASSUME TypeOK, Leased, NEW i \in Item, TurnStep(i)
  PROVE  Leased'
<1>0. UNCHANGED <<closer, leases, done, caller>> /\ cur \in 0..MaxGen
  BY DEF TurnStep, Refuse, Reserve, Send, Withdraw, TypeOK, RestOK
<1>1. Holders' = Holders  BY <1>0 DEF Holders
<1>2. CASE Refuse(i)  BY <1>0, <1>1, <1>2, LeasedKept DEF Refuse
<1>3. CASE Reserve(i)
  <2>1. leases = 0 /\ ~ done  BY <1>3 DEF Reserve
  <2>2. closer.pc = "idle"  BY <2>1 DEF Leased
  <2>3. ~ (leases > 0)  BY <2>1
  <2> QED  BY <1>0, <1>1, <2>2, <2>3 DEF Leased
<1>4. CASE Send(i) \/ Withdraw(i)
  <2> DEFINE g == item[i].gen
             v == [worker[g] EXCEPT !.queue = Append(@, i)]
             w == [worker[g] EXCEPT !.pending = @ - 1]
  <2>1. worker' = [worker EXCEPT ![g] = v] \/ worker' = [worker EXCEPT ![g] = w]
    BY <1>4 DEF Send, Withdraw, TypeOK, WorkerOK
  <2>2. UNCHANGED cur  BY <1>4 DEF Send, Withdraw
  <2>3. g \in Gen => v.canceling = worker[g].canceling /\ w.canceling = worker[g].canceling
    BY WorkerAt DEF Worker
  <2> HIDE DEF g, v, w
  <2>4. cur \in Gen => worker'[cur].canceling = worker[cur].canceling  BY <2>1, <2>3, MarkKept
  <2> QED  BY <1>0, <1>1, <2>2, <2>4, LeasedKept
<1> QED  BY <1>2, <1>3, <1>4 DEF TurnStep

LEMMA WorkerLeased ==
  ASSUME TypeOK, Leased, NEW g \in Gen, WorkerStep(g)
  PROVE  Leased'
<1>0. UNCHANGED <<cur, closer, leases, done, caller>> /\ cur \in 0..MaxGen
  BY DEF WorkerStep, Take, BeginTurn, Finish, Retire, Shutdown, CommitCurrentDurableTerminal,
         TypeOK, RestOK
<1>1. Holders' = Holders  BY <1>0 DEF Holders
<1>2. ASSUME NEW w, w.canceling = worker[g].canceling,
             worker' = [worker EXCEPT ![g] = w] \/ worker' = worker
      PROVE  Leased'
  <2>1. cur \in Gen => worker'[cur].canceling = worker[cur].canceling  BY <1>2, MarkKept
  <2> QED  BY <1>0, <1>1, <2>1, LeasedKept
<1>w. worker[g] \in Worker  BY WorkerAt
<1>3. CASE Take(g)
  <2> DEFINE w == [worker[g] EXCEPT !.pc = "taken", !.item = Head(worker[g].queue), !.queue = Tail(@)]
  <2>1. worker' = [worker EXCEPT ![g] = w]  BY <1>3 DEF Take
  <2>2. w.canceling = worker[g].canceling  BY <1>w DEF Worker
  <2> HIDE DEF w
  <2> QED  BY <1>2, <2>1, <2>2
<1>4. CASE BeginTurn(g)
  <2> DEFINE w == [worker[g] EXCEPT !.pc = "run", !.durable = FALSE,
                                    !.live = ~ worker[g].canceling /\ ~ done]
  <2>1. worker' = [worker EXCEPT ![g] = w]  BY <1>4 DEF BeginTurn, TypeOK, WorkerOK
  <2>2. w.canceling = worker[g].canceling  BY <1>w DEF Worker
  <2> HIDE DEF w
  <2> QED  BY <1>2, <2>1, <2>2
<1>5. CASE Finish(g)
  <2> DEFINE w == [worker[g] EXCEPT !.pc = "select", !.item = NoItem, !.live = FALSE,
                                    !.durable = FALSE, !.pending = @ - 1]
  <2>1. worker' = [worker EXCEPT ![g] = w]  BY <1>5 DEF Finish
  <2>2. w.canceling = worker[g].canceling  BY <1>w DEF Worker
  <2> HIDE DEF w
  <2> QED  BY <1>2, <2>1, <2>2
<1>6. CASE Retire(g) \/ Shutdown(g)
  <2>1. CASE DropHead(g)
    <3>1. cur \in Gen => worker'[cur].canceling = worker[cur].canceling  BY <2>1, DropHeadMark
    <3> QED  BY <1>0, <1>1, <3>1, LeasedKept
  <2>2. CASE ~ DropHead(g)
    <3>1. PICK p \in {"exit", "drop"} : worker' = [worker EXCEPT ![g].pc = p]
      BY <1>6, <2>2 DEF Retire, Shutdown
    <3> DEFINE w == [worker[g] EXCEPT !.pc = p]
    <3>2. worker' = [worker EXCEPT ![g] = w]  BY <3>1 DEF TypeOK, WorkerOK
    <3>3. w.canceling = worker[g].canceling  BY <1>w DEF Worker
    <3> HIDE DEF w
    <3> QED  BY <1>2, <3>2, <3>3
  <2> QED  BY <2>1, <2>2
<1>7. CASE CommitCurrentDurableTerminal(g)
  <2> DEFINE w == [worker[g] EXCEPT !.durable = TRUE]
  <2>1. worker' = [worker EXCEPT ![g] = w] \/ worker' = worker
    BY <1>7 DEF CommitCurrentDurableTerminal, TypeOK, WorkerOK
  <2>2. w.canceling = worker[g].canceling  BY <1>w DEF Worker
  <2> HIDE DEF w
  <2> QED  BY <1>2, <2>1, <2>2
<1> QED  BY <1>3, <1>4, <1>5, <1>6, <1>7 DEF WorkerStep

\* A caller that moves on without giving its lease back.
LEMMA HoldersKept ==
  ASSUME TypeOK, NEW c \in Holders, NEW b, b.pc \notin {"idle", "over"},
         caller' = [caller EXCEPT ![c] = b]
  PROVE  Holders' = Holders
<1>1. \A d \in Caller : caller'[d] = IF d = c THEN b ELSE caller[d]  BY DEF TypeOK, RestOK
<1> QED  BY <1>1 DEF Holders

LEMMA CallerLeased ==
  ASSUME TypeOK, Leased, NEW c \in Caller, CallerStep(c)
  PROVE  Leased'
<1> DEFINE g == caller[c].gen
<1>0. caller[c] \in Barrier /\ cur \in 0..MaxGen /\ leases \in Nat /\ caller \in [Caller -> Barrier]
  BY CallerAt DEF TypeOK, RestOK
<1>f. IsFiniteSet(Holders)  BY QueueAssumption, FS_Subset DEF Holders
<1>1. CASE BeginDraftCancellation(c)
  <2>1. ~ done /\ leases' = leases + 1 /\ UNCHANGED <<cur, done, closer>> /\ caller[c].pc = "idle"
    BY <1>1 DEF BeginDraftCancellation
  <2>2. closer.pc = "idle" /\ leases = Cardinality(Holders)  BY <2>1 DEF Leased, TypeOK, RestOK
  <2>3. Holders' = Holders \cup {c}
    <3>1. PICK b : b.pc = "wait" /\ caller' = [caller EXCEPT ![c] = b]
      <4>1. CASE cur = 0
        <5> DEFINE b == [caller[c] EXCEPT !.pc = "wait"]
        <5>1. b.pc = "wait"  BY <1>0 DEF Barrier
        <5>2. caller' = [caller EXCEPT ![c] = b]  BY <1>1, <4>1 DEF BeginDraftCancellation
        <5> HIDE DEF b
        <5> QED  BY <5>1, <5>2
      <4>2. CASE cur # 0
        <5> DEFINE n == IF worker[cur].pc = "run" /\ worker[cur].durable /\ worker[cur].pending > 0
                        THEN worker[cur].pending - 1 ELSE worker[cur].pending
                   T == Accepted(cur) \ answered
                   b == [caller[c] EXCEPT !.pc = "wait", !.gen = cur, !.turns = T, !.covered = n]
        <5>1. caller' = [caller EXCEPT ![c] = b]  BY <1>1, <4>2 DEF BeginDraftCancellation
        <5> HIDE DEF n, T
        <5>2. b.pc = "wait"  BY <1>0 DEF Barrier
        <5> HIDE DEF b
        <5> QED  BY <5>1, <5>2
      <4> QED  BY <4>1, <4>2
    <3>2. \A d \in Caller : caller'[d] = IF d = c THEN b ELSE caller[d]  BY <1>0, <3>1
    <3> QED  BY <3>1, <3>2 DEF Holders
  <2>4. c \notin Holders  BY <2>1 DEF Holders
  <2>5. Cardinality(Holders') = leases + 1  BY <1>f, <2>2, <2>3, <2>4, FS_AddElement
  <2>6. cur # 0 => worker'[cur].canceling
    <3> SUFFICES ASSUME cur # 0 PROVE worker'[cur].canceling  OBVIOUS
    <3> DEFINE w == [worker[cur] EXCEPT !.canceling = TRUE, !.live = FALSE]
    <3>1. worker' = [worker EXCEPT ![cur] = w]  BY <1>1 DEF BeginDraftCancellation
    <3>2. cur \in Gen  BY <1>0, QueueAssumption DEF Gen
    <3>3. worker[cur] \in Worker  BY <3>2, WorkerAt
    <3>4. w.canceling  BY <3>3 DEF Worker
    <3> HIDE DEF w
    <3> QED  BY <3>1, <3>2, <3>4 DEF TypeOK, WorkerOK
  <2> QED  BY <2>1, <2>2, <2>5, <2>6 DEF Leased
<1>2. ASSUME c \in Holders, UNCHANGED <<worker, cur, leases, done, closer>>,
             NEW p \in {"drained", "drain", "unlock"}, caller' = [caller EXCEPT ![c].pc = p]
      PROVE  Leased'
  <2> DEFINE b == [caller[c] EXCEPT !.pc = p]
  <2>1. b.pc = p  BY <1>0 DEF Barrier
  <2>2. caller' = [caller EXCEPT ![c] = b]  BY <1>2
  <2> HIDE DEF b
  <2>3. Holders' = Holders  BY <1>2, <2>1, <2>2, HoldersKept
  <2> QED  BY <1>0, <1>2, <2>3, LeasedKept
<1>3. CASE Drained(c)  BY <1>2, <1>3 DEF Drained, Holders
<1>4. CASE Release(c)  BY <1>2, <1>4 DEF Release, Holders
<1>5. CASE ReleaseOnClose(c)  BY <1>2, <1>5 DEF ReleaseOnClose, Holders
<1>6. CASE AwaitProducers(c)  BY <1>2, <1>6 DEF AwaitProducers, Holders
<1>7. CASE Abandon(c)
  <2>1. Holders' = Holders
    <3>1. PICK p \in {"producers", "unlock"} :
            caller' = [caller EXCEPT ![c] = [caller[c] EXCEPT !.pc = p, !.abandon = TRUE]]
      BY <1>7 DEF Abandon
    <3> DEFINE b == [caller[c] EXCEPT !.pc = p, !.abandon = TRUE]
    <3>2. b.pc = p  BY <1>0 DEF Barrier
    <3>3. caller' = [caller EXCEPT ![c] = b]  BY <3>1
    <3>4. c \in Holders  BY <1>7 DEF Abandon, Holders
    <3> HIDE DEF b
    <3> QED  BY <3>2, <3>3, <3>4, HoldersKept
  <2>2. UNCHANGED <<leases, done, closer>> /\ (cur' = 0 \/ UNCHANGED <<worker, cur>>)
    BY <1>7 DEF Abandon
  <2> QED  BY <2>1, <2>2 DEF Leased
<1>8. CASE Drain(c)
  <2>1. CASE DropHead(g) /\ UNCHANGED caller
    <3>1. UNCHANGED <<cur, leases, done, closer>>  BY <1>8 DEF Drain
    <3>2. Holders' = Holders  BY <2>1 DEF Holders
    <3>3. cur \in Gen => worker'[cur].canceling = worker[cur].canceling
      <4> HIDE DEF g
      <4> QED  BY <2>1, DropHeadMark
    <3> QED  BY <1>0, <3>1, <3>2, <3>3, LeasedKept
  <2>2. CASE caller' = [caller EXCEPT ![c].pc = "unlock"] /\ UNCHANGED <<worker, item>>
    BY <1>2, <1>8, <2>2 DEF Drain, Holders
  <2> QED  BY <1>8, <2>1, <2>2 DEF Drain
<1>9. CASE Unlock(c)
  <2> DEFINE b == [caller[c] EXCEPT !.pc = "over"]
  <2>1. b.pc = "over"  BY <1>0 DEF Barrier
  <2>2. caller' = [caller EXCEPT ![c] = b]  BY <1>9 DEF Unlock
  <2>3. \A d \in Caller : caller'[d] = IF d = c THEN b ELSE caller[d]
    <3> HIDE DEF b
    <3> QED  BY <1>0, <2>2
  <2>4. c \in Holders /\ Holders' = Holders \ {c}
    <3> HIDE DEF b
    <3> QED  BY <1>9, <2>1, <2>3 DEF Unlock, Holders
  <2>5. Cardinality(Holders') = Cardinality(Holders) - 1 /\ Cardinality(Holders) \in Nat
    BY <1>f, <2>4, FS_RemoveElement, FS_CardinalityType
  <2>6. closer.pc = "idle" => leases' = Cardinality(Holders')
    <3>1. Cardinality(Holders) # 0  BY <1>f, <2>4, FS_EmptySet
    <3> QED  BY <1>9, <2>5, <3>1 DEF Unlock, Leased
  <2>7. UNCHANGED <<cur, done, closer>> /\ (leases' > 0 => leases > 0 /\ worker' = worker)
    BY <1>0, <1>9 DEF Unlock
  <2> QED  BY <2>6, <2>7 DEF Leased
<1> QED  BY <1>1, <1>3, <1>4, <1>5, <1>6, <1>7, <1>8, <1>9 DEF CallerStep

LEMMA CloseLeased ==
  ASSUME TypeOK, Leased, CloseStep \/ RequestStop
  PROVE  Leased'
<1> DEFINE g == closer.gen
<1>0. cur \in 0..MaxGen /\ UNCHANGED caller
  BY DEF CloseStep, ParentDone, Close, CloseSeal, CloseAwaitProducers, CloseDrain, RequestStop,
         TypeOK, RestOK
<1>1. Holders' = Holders  BY <1>0 DEF Holders
<1>2. CASE ParentDone
  <2>1. UNCHANGED <<cur, closer, leases>> /\ done' /\ worker' = Cancelled  BY <1>2 DEF ParentDone
  <2>2. cur \in Gen => worker'[cur].canceling = worker[cur].canceling
    BY <2>1, CancelledTyped, WorkerAt DEF Worker
  <2> QED  BY <1>0, <1>1, <2>1, <2>2, LeasedKept
<1>3. CASE Close  BY <1>3 DEF Close, Leased
<1>4. CASE CloseSeal \/ CloseAwaitProducers \/ CloseDrain
  <2>1. /\ closer.pc # "idle" /\ closer'.pc # "idle" /\ UNCHANGED <<cur, done>>
    BY <1>4 DEF CloseSeal, CloseAwaitProducers, CloseDrain, TypeOK, RestOK
  <2> QED  BY <2>1 DEF Leased
<1>5. CASE RequestStop
  <2> DEFINE w == [worker[cur] EXCEPT !.live = FALSE]
  <2>1. worker' = [worker EXCEPT ![cur] = w] /\ UNCHANGED <<cur, closer, leases, done>>
    BY <1>5 DEF RequestStop, TypeOK, WorkerOK
  <2>2. cur \in Gen => w.canceling = worker[cur].canceling  BY WorkerAt DEF Worker
  <2> HIDE DEF w
  <2>3. cur \in Gen => worker'[cur].canceling = worker[cur].canceling  BY <2>1, <2>2, MarkKept
  <2> QED  BY <1>0, <1>1, <2>1, <2>3, LeasedKept
<1> QED  BY <1>2, <1>3, <1>4, <1>5 DEF CloseStep

-----------------------------------------------------------------------------
LEMMA InvInit == Init => Inv
<1> SUFFICES ASSUME Init PROVE Inv  OBVIOUS
<1>1. NewWorker \in Worker /\ Len(NewWorker.queue) <= Cap
  BY QueueAssumption DEF NewWorker, Worker
<1>2. worker = [h \in Gen |-> NewWorker]  BY DEF Init
<1>3. WorkerOK  BY <1>1, <1>2 DEF WorkerOK
<1>4. \A h \in Gen : worker[h].pc = "none"  BY <1>2 DEF NewWorker
<1>5. \A c \in Caller : caller[c] \in Barrier /\ caller[c].pc = "idle"
  BY QueueAssumption DEF Init, Barrier
<1>6. RestOK
  <2>1. item \in [Item -> Place]  BY QueueAssumption DEF Init, Place
  <2>2. caller \in [Caller -> Barrier]  BY <1>5 DEF Init
  <2>3. closer \in [pc : {"idle", "seal", "producers", "drain", "over"}, gen : 0..MaxGen]
    BY QueueAssumption DEF Init
  <2>4. cur = 0 /\ made = 0 /\ leases = 0 /\ done = FALSE /\ answered = {}  BY DEF Init
  <2>5. cur \in 0..MaxGen /\ made \in 0..MaxGen /\ cur <= made /\ leases \in Nat
    BY <2>4, QueueAssumption
  <2>6. done \in BOOLEAN /\ answered \subseteq Item  BY <2>4
  <2> QED  BY <2>1, <2>2, <2>3, <2>5, <2>6 DEF RestOK
<1>7. Running  BY <1>4 DEF Running, RunsLive
<1>8. Leased
  <2>1. Holders = {}  BY <1>5 DEF Holders
  <2> QED  BY <2>1, FS_EmptySet DEF Init, Leased
<1> QED  BY <1>3, <1>6, <1>7, <1>8 DEF Inv, TypeOK

LEMMA InvNext == Inv /\ [Next]_vars => Inv'
<1> SUFFICES ASSUME Inv, [Next]_vars PROVE Inv'  OBVIOUS
<1>0. TypeOK /\ Running /\ Leased  BY DEF Inv
<1>1. ASSUME NEW i \in Item, TurnStep(i) PROVE Inv'
  BY <1>0, <1>1, TurnTypeOK, TurnRunning, TurnLeased DEF Inv
<1>2. ASSUME NEW g \in Gen, WorkerStep(g) PROVE Inv'
  BY <1>0, <1>2, WorkerTypeOK, WorkerRunning, WorkerLeased DEF Inv
<1>3. ASSUME NEW c \in Caller, CallerStep(c) PROVE Inv'
  BY <1>0, <1>3, CallerTypeOK, CallerRunning, CallerLeased DEF Inv
<1>4. CASE CloseStep \/ RequestStop
  BY <1>0, <1>4, CloseTypeOK, CloseRunning, CloseLeased DEF Inv
<1>5. CASE UNCHANGED vars
  BY <1>0, <1>5 DEF vars, Inv, TypeOK, WorkerOK, RestOK, Running, RunsLive, Leased, Holders
<1> QED  BY <1>1, <1>2, <1>3, <1>4, <1>5 DEF Next

LEMMA InvAlways == Spec => []Inv
BY InvInit, InvNext, PTL DEF Spec

\* Every variable keeps its shape, and no channel ever holds more than Cap
\* turns, whatever the number of turns, callers and generations.
THEOREM TypeCorrect == Spec => []TypeOK
<1>1. Inv => TypeOK  BY DEF Inv
<1> QED  BY <1>1, InvAlways, PTL

\* Of all the generations of a draft's worker, abandoned ones included, at most
\* one is inside a turn whose context is not cancelled: turns of a draft are
\* serialised (turn_queue.go, run and BeginDraftCancellation).
THEOREM OneAtATime == Spec => []OneLiveTurn
<1>1. Inv => OneLiveTurn  BY DEF Inv, Running, OneLiveTurn
<1> QED  BY <1>1, InvAlways, PTL

\* While any cancellation of the draft holds a lease, no turn of the draft is
\* live, in whatever order callers begin, abandon and release, and Close runs.
THEOREM BarrierHolds == Spec => []QuietBarrier
<1>1. Inv => QuietBarrier
  <2> SUFFICES ASSUME Inv, leases > 0, NEW g \in Gen, RunsLive(g) PROVE FALSE
    BY DEF QuietBarrier
  <2>1. g = cur /\ ~ worker[g].canceling  BY DEF Inv, Running
  <2>2. g # 0  BY DEF Gen
  <2> QED  BY <2>1, <2>2 DEF Inv, Leased
<1> QED  BY <1>1, InvAlways, PTL

-----------------------------------------------------------------------------
(***************************************************************************)
(* The counts: the inductive invariant above is extended by what the       *)
(* counters count.                                                         *)
(***************************************************************************)

\* Only the generations made so far have turns.
Made == \A i \in Item : InFlight(i) => item[i].gen \in 1..made

\* A channel holds turns sent to its worker, each of them once.
Channelled ==
    \A g \in Gen :
        LET q == worker[g].queue IN
        /\ \A k \in 1..Len(q) : item[q[k]].at = "queued" /\ item[q[k]].gen = g
        /\ \A j, k \in 1..Len(q) : q[j] = q[k] => j = k

\* The turn a goroutine works on came from its channel.
Held ==
    \A g \in Gen : worker[g].pc \in {"taken", "run"} =>
        item[worker[g].item].at = "taken" /\ item[worker[g].item].gen = g

\* The flag `durable' is up when the running turn has its terminal message, and
\* nothing else in flight has one.
Marked ==
    /\ \A g \in Gen : worker[g].durable => worker[g].pc = "run" /\ worker[g].item \in answered
    /\ \A i \in answered :
         /\ item[i].at \notin {"new", "refused"}
         /\ InFlight(i) => LET w == worker[item[i].gen] IN
                           w.pc = "run" /\ w.durable /\ w.item = i

Books == Made /\ Channelled /\ Held /\ Marked /\ PendingExact

\* What a barrier covers and is still in flight can never run live again: its
\* worker is gone, or the barrier or the end of the queue stands over it.
Barred ==
    \A c \in Caller : \A i \in caller[c].turns :
        /\ item[i].at \notin {"new", "refused"}
        /\ InFlight(i) => /\ item[i].gen = caller[c].gen
                          /\ item[i].gen = cur => done \/ caller[c].pc = "wait"

\* Who drains a worker has one.
Drainers ==
    /\ \A c \in Caller : caller[c].pc \in {"producers", "drain"} => caller[c].gen \in Gen
    /\ closer.pc \in {"seal", "producers", "drain"} => closer.gen \in Gen

CountInv == Books /\ Drainers /\ Barred /\ CoveredExact /\ DrainedIsEmpty

-----------------------------------------------------------------------------
(* Counting. *)

LEMMA FlightGen ==
  ASSUME TypeOK, Made, NEW i \in Item, InFlight(i)
  PROVE  item[i].gen \in Gen
BY QueueAssumption DEF TypeOK, RestOK, Made, Gen

LEMMA AcceptedFinite ==
  ASSUME NEW g
  PROVE  IsFiniteSet(Accepted(g)) /\ IsFiniteSet(Accepted(g))'
<1>1. Accepted(g) \in SUBSET Item /\ Accepted(g)' \in SUBSET Item  BY DEF Accepted
<1> QED  BY <1>1, FS_Subset, QueueAssumption

\* The turns of a generation, when none enters or leaves it.
LEMMA AcceptedKept ==
  ASSUME NEW g,
         \A j \in Item : (InFlight(j)' <=> InFlight(j)) /\ (InFlight(j) => item'[j].gen = item[j].gen)
  PROVE  Accepted(g)' = Accepted(g)
BY DEF Accepted

\* A step that moves no turn.
LEMMA QuietBooks ==
  ASSUME Books, UNCHANGED <<answered, made>>,
         \A h \in Gen :
           /\ worker'[h].queue = worker[h].queue /\ worker'[h].item = worker[h].item
           /\ worker'[h].durable = worker[h].durable /\ worker'[h].pending = worker[h].pending
           /\ worker'[h].pc \in {"taken", "run"} => worker[h].pc \in {"taken", "run"}
           /\ worker[h].pc = "run" => worker'[h].pc = "run",
         \A j \in Item : item'[j] = item[j] \/ (item[j].at = "new" /\ item'[j].at = "refused"),
         TypeOK, TypeOK', Running
  PROVE  Books'
<1>1. \A j \in Item : InFlight(j)' <=> InFlight(j)  BY DEF InFlight
<1>2. \A j \in Item : InFlight(j) => item'[j] = item[j]  BY DEF InFlight
<1>3. Made'  BY <1>1, <1>2 DEF Books, Made
<1>4. Channelled'
  <2> SUFFICES ASSUME NEW g \in Gen
               PROVE  LET q == worker[g].queue IN
                      /\ \A k \in 1..Len(q) : item'[q[k]].at = "queued" /\ item'[q[k]].gen = g
                      /\ \A j, k \in 1..Len(q) : q[j] = q[k] => j = k
    BY DEF Channelled
  <2>1. worker[g].queue \in Seq(Item)  BY WorkerAt, WorkerFields
  <2>2. \A k \in 1..Len(worker[g].queue) : worker[g].queue[k] \in Item  BY <2>1
  <2> QED  BY <2>2 DEF Books, Channelled
<1>5. Held'
  <2> SUFFICES ASSUME NEW g \in Gen, worker[g].pc \in {"taken", "run"}
               PROVE  item'[worker[g].item].at = "taken" /\ item'[worker[g].item].gen = g
    BY DEF Held
  <2>1. worker[g].item \in Item  BY DEF Running
  <2> QED  BY <2>1 DEF Books, Held
<1>6. Marked'
  <2>0. answered \subseteq Item  BY DEF TypeOK, RestOK
  <2>1. \A g \in Gen : worker'[g].durable => worker'[g].pc = "run" /\ worker'[g].item \in answered
    BY DEF Books, Marked
  <2>2. ASSUME NEW i \in answered
        PROVE  /\ item'[i].at \notin {"new", "refused"}
               /\ InFlight(i)' => /\ worker'[item'[i].gen].pc = "run"
                                  /\ worker'[item'[i].gen].durable
                                  /\ worker'[item'[i].gen].item = i
    <3>1. i \in Item /\ item'[i] = item[i]  BY <2>0 DEF Books, Marked
    <3>2. InFlight(i) => item[i].gen \in Gen  BY <3>1, FlightGen DEF Books
    <3> QED  BY <1>1, <3>1, <3>2 DEF Books, Marked
  <2> QED  BY <2>1, <2>2 DEF Marked
<1>7. PendingExact'
  <2> SUFFICES ASSUME NEW g \in Gen PROVE worker'[g].pending = Cardinality(Accepted(g)')
    BY DEF PendingExact
  <2>1. Accepted(g)' = Accepted(g)  BY <1>1, <1>2, AcceptedKept
  <2> QED  BY <2>1 DEF Books, PendingExact
<1> QED  BY <1>3, <1>4, <1>5, <1>6, <1>7 DEF Books

\* A new turn is counted in.
LEMMA ReserveBooks ==
  ASSUME Books, TypeOK, TypeOK', Running, NEW i \in Item, Reserve(i),
         NEW g, g = cur'
  PROVE  Books'
<1>0. item[i].at = "new" /\ answered' = answered /\ item' = [item EXCEPT ![i] = [at |-> "reserved", gen |-> g]]
  BY DEF Reserve
<1>1. g \in Gen /\ g \in 1..made' /\ (made' = made \/ made' = made + 1) /\ made \in 0..MaxGen
  BY QueueAssumption DEF Reserve, TypeOK, RestOK, Gen
<1>2. \A j \in Item : item'[j] = IF j = i THEN [at |-> "reserved", gen |-> g] ELSE item[j]
  BY <1>0 DEF TypeOK, RestOK
<1>3. ~ InFlight(i) /\ InFlight(i)' /\ \A j \in Item \ {i} : InFlight(j)' <=> InFlight(j)
  BY <1>0, <1>2 DEF InFlight
<1>4. Accepted(g)' = Accepted(g) \cup {i} /\ i \notin Accepted(g)
  BY <1>2, <1>3 DEF Accepted
<1>5. \A h \in Gen \ {g} : Accepted(h)' = Accepted(h)
  BY <1>2, <1>3 DEF Accepted
<1>6. Cardinality(Accepted(g)') = Cardinality(Accepted(g)) + 1
  BY <1>4, AcceptedFinite, FS_AddElement
<1>7. \A h \in Gen : /\ worker'[h].queue = worker[h].queue
                     /\ worker'[h].durable = worker[h].durable /\ worker'[h].item = worker[h].item
                     /\ h # g => worker'[h] = worker[h]
  <2>1. CASE cur = 0
    <3> DEFINE w == [worker[made + 1] EXCEPT !.pc = "select", !.pending = 1]
    <3>1. g = made + 1 /\ worker' = [worker EXCEPT ![made + 1] = w]  BY <2>1 DEF Reserve
    <3>2. worker[g] \in Worker  BY <1>1, WorkerAt
    <3>3. w.queue = worker[g].queue /\ w.durable = worker[g].durable /\ w.item = worker[g].item
      BY <3>1, <3>2 DEF Worker
    <3> HIDE DEF w
    <3> QED  BY <1>1, <3>1, <3>3 DEF TypeOK, WorkerOK
  <2>2. CASE cur # 0
    <3> DEFINE w == [worker[cur] EXCEPT !.pending = @ + 1]
    <3>1. g = cur /\ worker' = [worker EXCEPT ![cur] = w]
      BY <1>1, <2>2 DEF Reserve, TypeOK, WorkerOK
    <3>2. worker[g] \in Worker  BY <1>1, WorkerAt
    <3>3. w.queue = worker[g].queue /\ w.durable = worker[g].durable /\ w.item = worker[g].item
      BY <3>1, <3>2 DEF Worker
    <3> HIDE DEF w
    <3> QED  BY <1>1, <3>1, <3>3 DEF TypeOK, WorkerOK
  <2> QED  BY <2>1, <2>2
<1>8. worker'[g].pending = worker[g].pending + 1 /\ worker'[g].pc \in {"select", worker[g].pc}
      /\ (worker'[g].pc = worker[g].pc \/ Accepted(g) = {})
  <2>1. CASE cur = 0
    <3> DEFINE w == [worker[made + 1] EXCEPT !.pc = "select", !.pending = 1]
    <3>1. g = made + 1 /\ worker' = [worker EXCEPT ![made + 1] = w]  BY <2>1 DEF Reserve
    <3>2. worker[g] \in Worker  BY <1>1, WorkerAt
    <3>3. w.pending = 1 /\ w.pc = "select"  BY <3>1, <3>2 DEF Worker
    <3>4. Accepted(g) = {}  BY <1>1, <3>1 DEF Books, Made, Accepted
    <3>5. worker[g].pending = 0  BY <1>1, <3>4, FS_EmptySet DEF Books, PendingExact
    <3>6. worker'[g] = w  BY <1>1, <3>1 DEF TypeOK, WorkerOK
    <3> HIDE DEF w
    <3> QED  BY <3>3, <3>4, <3>5, <3>6
  <2>2. CASE cur # 0
    <3> DEFINE w == [worker[cur] EXCEPT !.pending = @ + 1]
    <3>1. g = cur /\ worker' = [worker EXCEPT ![cur] = w]
      BY <1>1, <2>2 DEF Reserve, TypeOK, WorkerOK
    <3>2. worker[g] \in Worker  BY <1>1, WorkerAt
    <3>3. w.pending = worker[g].pending + 1 /\ w.pc = worker[g].pc
      BY <3>1, <3>2 DEF Worker
    <3>4. worker'[g] = w  BY <1>1, <3>1 DEF TypeOK, WorkerOK
    <3> HIDE DEF w
    <3> QED  BY <3>3, <3>4
  <2> QED  BY <2>1, <2>2
<1>9. \A h \in Gen : worker'[h].pc \in {"taken", "run"} => worker[h].pc = worker'[h].pc
  BY <1>7, <1>8
<1>10. Made'
  <2>1. \A j \in Item \ {i} : InFlight(j)' => item'[j].gen \in 1..made'
    BY <1>1, <1>2, <1>3 DEF Books, Made
  <2> QED  BY <1>1, <1>2, <2>1 DEF Made
<1>11. Channelled'
  <2> SUFFICES ASSUME NEW h \in Gen
               PROVE  LET q == worker[h].queue IN
                      /\ \A k \in 1..Len(q) : item'[q[k]].at = "queued" /\ item'[q[k]].gen = h
                      /\ \A j, k \in 1..Len(q) : q[j] = q[k] => j = k
    BY <1>7 DEF Channelled
  <2>1. worker[h].queue \in Seq(Item)  BY WorkerAt, WorkerFields
  <2>2. \A k \in 1..Len(worker[h].queue) : worker[h].queue[k] \in Item  BY <2>1
  <2> QED  BY <1>0, <1>2, <2>2 DEF Books, Channelled
<1>12. Held'
  <2> SUFFICES ASSUME NEW h \in Gen, worker'[h].pc \in {"taken", "run"}
               PROVE  item'[worker'[h].item].at = "taken" /\ item'[worker'[h].item].gen = h
    BY DEF Held
  <2>1. worker[h].pc \in {"taken", "run"} /\ worker'[h].item = worker[h].item  BY <1>7, <1>9
  <2>2. worker[h].item \in Item  BY <2>1 DEF Running
  <2> QED  BY <1>0, <1>2, <2>1, <2>2 DEF Books, Held
<1>13. Marked'
  <2>0. answered \subseteq Item  BY DEF TypeOK, RestOK
  <2>1. ASSUME NEW h \in Gen, worker'[h].durable
        PROVE  worker'[h].pc = "run" /\ worker'[h].item \in answered
    <3>1. worker[h].durable /\ worker[h].pc = "run" /\ worker[h].item \in answered
      BY <1>7, <2>1 DEF Books, Marked
    <3>2. worker[h].item \in Accepted(h)
      BY <2>0, <3>1 DEF Books, Held, Accepted, InFlight
    <3> QED  BY <1>7, <1>8, <3>1, <3>2
  <2>2. ASSUME NEW j \in answered
        PROVE  /\ item'[j].at \notin {"new", "refused"}
               /\ InFlight(j)' => /\ worker'[item'[j].gen].pc = "run"
                                  /\ worker'[item'[j].gen].durable
                                  /\ worker'[item'[j].gen].item = j
    <3>1. j \in Item /\ item'[j] = item[j] /\ j # i  BY <1>0, <1>2, <2>0 DEF Books, Marked
    <3>2. InFlight(j) => /\ item[j].gen \in Gen
                         /\ worker[item[j].gen].pc = "run" /\ worker[item[j].gen].durable
                         /\ worker[item[j].gen].item = j
      BY <3>1, FlightGen DEF Books, Marked
    <3>3. InFlight(j) => j \in Accepted(item[j].gen)  BY <3>1 DEF Accepted
    <3>4. InFlight(j) => worker'[item[j].gen].pc = worker[item[j].gen].pc
      BY <1>7, <1>8, <3>2, <3>3
    <3> QED  BY <1>3, <1>7, <3>1, <3>2, <3>4 DEF Books, Marked
  <2> QED  BY <1>0, <2>1, <2>2 DEF Marked
<1>14. PendingExact'
  <2>1. worker'[g].pending = Cardinality(Accepted(g)')
    BY <1>1, <1>6, <1>8 DEF Books, PendingExact
  <2>2. \A h \in Gen \ {g} : worker'[h].pending = Cardinality(Accepted(h)')
    BY <1>5, <1>7 DEF Books, PendingExact
  <2> QED  BY <2>1, <2>2 DEF PendingExact
<1> QED  BY <1>10, <1>11, <1>12, <1>13, <1>14 DEF Books

\* A turn moves on without being finished: into its channel, or out of it to
\* the goroutine.
LEMMA MoveBooks ==
  ASSUME Books, TypeOK, TypeOK', Running, NEW i \in Item, NEW g \in Gen, item[i].gen = g,
         item[i].at \in {"reserved", "queued"}, NEW a \in {"queued", "taken"},
         UNCHANGED <<answered, made>>,
         item' = [item EXCEPT ![i].at = a],
         \A h \in Gen \ {g} : worker'[h] = worker[h],
         worker'[g].durable = worker[g].durable, worker'[g].pending = worker[g].pending,
         \/ /\ a = "queued" /\ item[i].at = "reserved"
            /\ worker'[g].queue = Append(worker[g].queue, i)
            /\ worker'[g].pc = worker[g].pc /\ worker'[g].item = worker[g].item
         \/ /\ a = "taken" /\ worker[g].pc = "select" /\ worker[g].queue # <<>>
            /\ i = Head(worker[g].queue) /\ worker'[g].queue = Tail(worker[g].queue)
            /\ worker'[g].pc = "taken" /\ worker'[g].item = i
  PROVE  Books'
<1>1. \A j \in Item : item'[j] = IF j = i THEN [item[i] EXCEPT !.at = a] ELSE item[j]
  BY DEF TypeOK, RestOK
<1>2. item'[i].at = a /\ item'[i].gen = g
  <2>1. item[i] \in Place  BY ItemAt
  <2> QED  BY <1>1, <2>1 DEF Place
<1>3. \A j \in Item : InFlight(j)' <=> InFlight(j)  BY <1>1, <1>2 DEF InFlight
<1>4. \A j \in Item : item'[j].gen = item[j].gen  BY <1>1, <1>2
<1>5. worker[g].queue \in Seq(Item)  BY WorkerAt, WorkerFields
<1>6. \A h \in Gen : \A k \in 1..Len(worker[h].queue) : worker[h].queue[k] \in Item
  <2>1. \A h \in Gen : worker[h].queue \in Seq(Item)  BY WorkerAt, WorkerFields
  <2> QED  BY <2>1
<1>7. Made'  BY <1>3, <1>4 DEF Books, Made
<1>8. Channelled'
  <2> DEFINE Sound(q, h) ==
        /\ \A k \in 1..Len(q) : item'[q[k]].at = "queued" /\ item'[q[k]].gen = h
        /\ \A j, k \in 1..Len(q) : q[j] = q[k] => j = k
  <2>1. ASSUME NEW h \in Gen, h # g PROVE Sound(worker'[h].queue, h)
    BY <1>1, <1>2, <1>6, <2>1 DEF Books, Channelled
  <2>2. Sound(worker'[g].queue, g)
    <3> DEFINE q == worker[g].queue
    <3>0. /\ \A k \in 1..Len(q) : q[k] \in Item /\ item[q[k]].at = "queued" /\ item[q[k]].gen = g
          /\ \A j, k \in 1..Len(q) : q[j] = q[k] => j = k
      BY <1>6 DEF Books, Channelled
    <3>1. CASE a = "queued"
      <4>1. worker'[g].queue = Append(q, i) /\ item[i].at = "reserved"  BY <3>1
      <4>2. \A k \in 1..Len(q) : q[k] # i  BY <3>0, <4>1
      <4>3. /\ Len(Append(q, i)) = Len(q) + 1 /\ Append(q, i)[Len(q) + 1] = i /\ Len(q) \in Nat
            /\ \A k \in 1..Len(q) : Append(q, i)[k] = q[k]
        BY <1>5, AppendFacts
      <4>4. \A k \in 1..(Len(q) + 1) : k \in 1..Len(q) \/ k = Len(q) + 1  BY <4>3
      <4> HIDE DEF q
      <4>5. \A k \in 1..(Len(q) + 1) :
              item'[Append(q, i)[k]].at = "queued" /\ item'[Append(q, i)[k]].gen = g
        BY <1>1, <1>2, <3>0, <3>1, <4>2, <4>3, <4>4
      <4>6. \A j, k \in 1..(Len(q) + 1) : Append(q, i)[j] = Append(q, i)[k] => j = k
        BY <3>0, <4>2, <4>3, <4>4
      <4> QED  BY <4>1, <4>3, <4>5, <4>6
    <3>2. CASE a = "taken"
      <4>1. q # <<>> /\ i = Head(q) /\ worker'[g].queue = Tail(q)  BY <3>2
      <4>2. /\ Head(q) = q[1] /\ Len(Tail(q)) = Len(q) - 1 /\ Len(q) \in Nat /\ Len(q) > 0
            /\ \A k \in 1..Len(Tail(q)) : Tail(q)[k] = q[k + 1]
        BY <1>5, <4>1, TailFacts
      <4>3. \A k \in 1..Len(Tail(q)) : k + 1 \in 1..Len(q) /\ k + 1 # 1  BY <4>2
      <4> HIDE DEF q
      <4>4. 1 \in 1..Len(q)  BY <4>2
      <4>5. \A k \in 1..Len(Tail(q)) : Tail(q)[k] # i  BY <3>0, <4>1, <4>2, <4>3, <4>4
      <4>6. \A k \in 1..Len(Tail(q)) : item'[Tail(q)[k]].at = "queued" /\ item'[Tail(q)[k]].gen = g
        BY <1>1, <3>0, <4>2, <4>3, <4>5
      <4>7. \A j, k \in 1..Len(Tail(q)) : Tail(q)[j] = Tail(q)[k] => j = k
        BY <3>0, <4>2, <4>3
      <4> QED  BY <4>1, <4>6, <4>7
    <3> QED  BY <3>1, <3>2
  <2>3. \A h \in Gen : Sound(worker'[h].queue, h)
    <3> HIDE DEF Sound
    <3> QED  BY <2>1, <2>2
  <2> QED  BY <2>3 DEF Channelled
<1>9. Held'
  <2> SUFFICES ASSUME NEW h \in Gen, worker'[h].pc \in {"taken", "run"}
               PROVE  item'[worker'[h].item].at = "taken" /\ item'[worker'[h].item].gen = h
    BY DEF Held
  <2>1. CASE worker'[h].item = i /\ a = "taken" /\ h = g  BY <1>2, <2>1
  <2>2. CASE h # g \/ a = "queued"
    <3>1. worker[h].pc \in {"taken", "run"} /\ worker'[h].item = worker[h].item  BY <2>2
    <3>2. worker[h].item \in Item  BY <3>1 DEF Running
    <3> QED  BY <1>1, <3>1, <3>2 DEF Books, Held
  <2> QED  BY <2>1, <2>2
<1>10. worker[g].durable => worker'[g].pc = worker[g].pc /\ worker'[g].item = worker[g].item
  BY DEF Books, Marked
<1>11. Marked'
  <2>0. answered \subseteq Item  BY DEF TypeOK, RestOK
  <2>1. ASSUME NEW h \in Gen, worker'[h].durable
        PROVE  worker'[h].pc = "run" /\ worker'[h].item \in answered
    <3>1. worker[h].durable /\ worker'[h].pc = worker[h].pc /\ worker'[h].item = worker[h].item
      BY <1>10, <2>1
    <3> QED  BY <3>1 DEF Books, Marked
  <2>2. ASSUME NEW j \in answered
        PROVE  /\ item'[j].at \notin {"new", "refused"}
               /\ InFlight(j)' => /\ worker'[item'[j].gen].pc = "run"
                                  /\ worker'[item'[j].gen].durable
                                  /\ worker'[item'[j].gen].item = j
    <3>1. j \in Item  BY <2>0
    <3>2. InFlight(j) => /\ item[j].gen \in Gen
                         /\ worker[item[j].gen].pc = "run" /\ worker[item[j].gen].durable
                         /\ worker[item[j].gen].item = j
      BY <3>1, FlightGen DEF Books, Marked
    <3>3. item'[j].at \notin {"new", "refused"}  BY <1>1, <1>2, <3>1 DEF Books, Marked
    <3>4. ASSUME InFlight(j)
          PROVE  /\ worker'[item'[j].gen].pc = "run" /\ worker'[item'[j].gen].durable
                 /\ worker'[item'[j].gen].item = j
      BY <1>4, <1>10, <3>1, <3>2, <3>4
    <3> QED  BY <1>3, <3>1, <3>3, <3>4
  <2> QED  BY <2>1, <2>2 DEF Marked
<1>12. PendingExact'
  <2> SUFFICES ASSUME NEW h \in Gen PROVE worker'[h].pending = Cardinality(Accepted(h)')
    BY DEF PendingExact
  <2>1. Accepted(h)' = Accepted(h)  BY <1>3, <1>4, AcceptedKept
  <2> QED  BY <2>1 DEF Books, PendingExact
<1> QED  BY <1>7, <1>8, <1>9, <1>11, <1>12 DEF Books

\* A turn is counted out: withdrawn, dropped from its channel, or finished.
LEMMA SettleBooks ==
  ASSUME Books, TypeOK, TypeOK', Running, NEW i \in Item, NEW g \in Gen,
         InFlight(i), item[i].gen = g,
         UNCHANGED <<answered, made>>, item' = Settled(i),
         \A h \in Gen \ {g} : worker'[h] = worker[h],
         worker'[g].pending = worker[g].pending - 1,
         \/ /\ item[i].at = "reserved" /\ worker'[g].queue = worker[g].queue
            /\ worker'[g].pc = worker[g].pc /\ worker'[g].item = worker[g].item
            /\ worker'[g].durable = worker[g].durable
         \/ /\ worker[g].queue # <<>> /\ i = Head(worker[g].queue)
            /\ worker'[g].queue = Tail(worker[g].queue)
            /\ worker'[g].pc = worker[g].pc /\ worker'[g].item = worker[g].item
            /\ worker'[g].durable = worker[g].durable
         \/ /\ item[i].at = "taken" /\ worker'[g].queue = worker[g].queue
            /\ worker[g].item = i /\ worker'[g].pc = "select" /\ ~ worker'[g].durable
  PROVE  Books'
<1>1. \A j \in Item : item'[j] = IF j = i THEN [item[i] EXCEPT !.at = "settled"] ELSE item[j]
  BY DEF TypeOK, RestOK, Settled
<1>2. item'[i].at = "settled" /\ item'[i].gen = g
  <2>1. item[i] \in Place  BY ItemAt
  <2> QED  BY <1>1, <2>1 DEF Place
<1>3. ~ InFlight(i)' /\ \A j \in Item \ {i} : InFlight(j)' <=> InFlight(j)
  BY <1>1, <1>2 DEF InFlight
<1>4. Accepted(g)' = Accepted(g) \ {i} /\ i \in Accepted(g)
  BY <1>1, <1>2, <1>3 DEF Accepted
<1>5. \A h \in Gen \ {g} : Accepted(h)' = Accepted(h)
  BY <1>1, <1>2, <1>3 DEF Accepted
<1>6. Cardinality(Accepted(g)') = Cardinality(Accepted(g)) - 1
  BY <1>4, AcceptedFinite, FS_RemoveElement
<1>7. worker[g].queue \in Seq(Item)  BY WorkerAt, WorkerFields
<1>8. \A h \in Gen : \A k \in 1..Len(worker[h].queue) : worker[h].queue[k] \in Item
  <2>1. \A h \in Gen : worker[h].queue \in Seq(Item)  BY WorkerAt, WorkerFields
  <2> QED  BY <2>1
<1>9. Made'  BY <1>1, <1>3 DEF Books, Made
<1>10. Channelled'
  <2> DEFINE Sound(q, h) ==
        /\ \A k \in 1..Len(q) : item'[q[k]].at = "queued" /\ item'[q[k]].gen = h
        /\ \A j, k \in 1..Len(q) : q[j] = q[k] => j = k
  <2>1. ASSUME NEW h \in Gen, h # g PROVE Sound(worker'[h].queue, h)
    BY <1>1, <1>8, <2>1 DEF Books, Channelled
  <2>2. Sound(worker'[g].queue, g)
    <3> DEFINE q == worker[g].queue
    <3>0. /\ \A k \in 1..Len(q) : q[k] \in Item /\ item[q[k]].at = "queued" /\ item[q[k]].gen = g
          /\ \A j, k \in 1..Len(q) : q[j] = q[k] => j = k
      BY <1>8 DEF Books, Channelled
    <3>1. CASE worker'[g].queue = q /\ item[i].at # "queued"
      BY <1>1, <3>0, <3>1
    <3>2. CASE q # <<>> /\ i = Head(q) /\ worker'[g].queue = Tail(q)
      <4>2. /\ Head(q) = q[1] /\ Len(Tail(q)) = Len(q) - 1 /\ Len(q) \in Nat /\ Len(q) > 0
            /\ \A k \in 1..Len(Tail(q)) : Tail(q)[k] = q[k + 1]
        BY <1>7, <3>2, TailFacts
      <4>3. \A k \in 1..Len(Tail(q)) : k + 1 \in 1..Len(q) /\ k + 1 # 1  BY <4>2
      <4> HIDE DEF q
      <4>4. 1 \in 1..Len(q)  BY <4>2
      <4>5. \A k \in 1..Len(Tail(q)) : Tail(q)[k] # i  BY <3>0, <3>2, <4>2, <4>3, <4>4
      <4>6. \A k \in 1..Len(Tail(q)) : item'[Tail(q)[k]].at = "queued" /\ item'[Tail(q)[k]].gen = g
        BY <1>1, <3>0, <4>2, <4>3, <4>5
      <4>7. \A j, k \in 1..Len(Tail(q)) : Tail(q)[j] = Tail(q)[k] => j = k
        BY <3>0, <4>2, <4>3
      <4> QED  BY <3>2, <4>6, <4>7
    <3>3. (worker'[g].queue = q /\ item[i].at # "queued")
          \/ (q # <<>> /\ i = Head(q) /\ worker'[g].queue = Tail(q))
      OBVIOUS
    <3> HIDE DEF q, Sound
    <3> QED  BY <3>1, <3>2, <3>3
  <2>3. \A h \in Gen : Sound(worker'[h].queue, h)
    <3> HIDE DEF Sound
    <3> QED  BY <2>1, <2>2
  <2> QED  BY <2>3 DEF Channelled
\* What the goroutine works on, if it still does, is another turn.
<1>11. worker'[g].pc \in {"taken", "run"} =>
         /\ worker'[g].pc = worker[g].pc /\ worker'[g].item = worker[g].item
         /\ worker'[g].durable = worker[g].durable /\ item[i].at # "taken"
  <2>1. ASSUME worker[g].queue # <<>>, i = Head(worker[g].queue) PROVE item[i].at = "queued"
    <3>1. i = worker[g].queue[1] /\ 1 \in 1..Len(worker[g].queue)  BY <1>7, <2>1, TailFacts
    <3> QED  BY <3>1 DEF Books, Channelled
  <2> QED  BY <2>1
<1>12. Held'
  <2> SUFFICES ASSUME NEW h \in Gen, worker'[h].pc \in {"taken", "run"}
               PROVE  item'[worker'[h].item].at = "taken" /\ item'[worker'[h].item].gen = h
    BY DEF Held
  <2>1. worker[h].pc = worker'[h].pc /\ worker[h].item = worker'[h].item  BY <1>11
  <2>2. worker[h].item \in Item /\ item[worker[h].item].at = "taken" /\ item[worker[h].item].gen = h
    BY <2>1 DEF Running, Books, Held
  <2>3. worker[h].item # i  BY <1>11, <2>2
  <2> QED  BY <1>1, <2>1, <2>2, <2>3
<1>13. Marked'
  <2>0. answered \subseteq Item  BY DEF TypeOK, RestOK
  <2>1. ASSUME NEW h \in Gen, worker'[h].durable
        PROVE  worker'[h].pc = "run" /\ worker'[h].item \in answered
    <3>1. worker[h].durable /\ worker'[h].pc = worker[h].pc /\ worker'[h].item = worker[h].item
      BY <2>1
    <3> QED  BY <3>1 DEF Books, Marked
  <2>2. ASSUME NEW j \in answered
        PROVE  /\ item'[j].at \notin {"new", "refused"}
               /\ InFlight(j)' => /\ worker'[item'[j].gen].pc = "run"
                                  /\ worker'[item'[j].gen].durable
                                  /\ worker'[item'[j].gen].item = j
    <3>1. j \in Item  BY <2>0
    <3>2. item'[j].at \notin {"new", "refused"}  BY <1>1, <1>2, <3>1 DEF Books, Marked
    <3>3. ASSUME InFlight(j)'
          PROVE  /\ worker'[item'[j].gen].pc = "run" /\ worker'[item'[j].gen].durable
                 /\ worker'[item'[j].gen].item = j
      <4>1. j # i /\ InFlight(j) /\ item'[j] = item[j]  BY <1>1, <1>3, <3>1, <3>3
      <4>2. /\ item[j].gen \in Gen
            /\ worker[item[j].gen].pc = "run" /\ worker[item[j].gen].durable
            /\ worker[item[j].gen].item = j
        BY <3>1, <4>1, FlightGen DEF Books, Marked
      <4>3. item[j].gen = g => worker[g].item # i  BY <4>1, <4>2
      <4> QED  BY <4>1, <4>2, <4>3
    <3> QED  BY <3>2, <3>3
  <2> QED  BY <2>1, <2>2 DEF Marked
<1>14. PendingExact'
  <2>1. worker'[g].pending = Cardinality(Accepted(g)')  BY <1>6 DEF Books, PendingExact
  <2>2. \A h \in Gen \ {g} : worker'[h].pending = Cardinality(Accepted(h)')
    BY <1>5 DEF Books, PendingExact
  <2> QED  BY <2>1, <2>2 DEF PendingExact
<1> QED  BY <1>9, <1>10, <1>12, <1>13, <1>14 DEF Books

\* The running turn gets its terminal message; the goroutine is the current one.
LEMMA CommitBooks ==
  ASSUME Books, TypeOK, TypeOK', Running, NEW g \in Gen, CommitCurrentDurableTerminal(g)
  PROVE  Books'
<1> DEFINE w == [worker[g] EXCEPT !.durable = TRUE]
           i == worker[g].item
<1>1. worker[g] \in Worker  BY WorkerAt
<1>2. g = cur /\ worker[g].pc = "run" /\ i \in Item
  BY DEF CommitCurrentDurableTerminal, RunsLive, Running
<1>3. worker' = [worker EXCEPT ![g] = w] /\ answered' = answered \cup {i}
      /\ UNCHANGED <<made, item>>
  BY <1>2 DEF CommitCurrentDurableTerminal, TypeOK, WorkerOK
<1>4. /\ w.queue = worker[g].queue /\ w.pc = "run" /\ w.item = i /\ w.pending = worker[g].pending
      /\ w.durable
  BY <1>1, <1>2 DEF Worker
<1>5. \A h \in Gen : worker'[h] = IF h = g THEN w ELSE worker[h]
  BY <1>3 DEF TypeOK, WorkerOK
<1> HIDE DEF w
<1>6. Made'  BY <1>3 DEF Books, Made, InFlight
<1>7. Channelled'
  <2>1. \A h \in Gen : worker'[h].queue = worker[h].queue  BY <1>4, <1>5
  <2> QED  BY <1>3, <2>1 DEF Books, Channelled
<1>8. Held'
  <2>1. \A h \in Gen : worker'[h].pc = worker[h].pc /\ worker'[h].item = worker[h].item
    BY <1>2, <1>4, <1>5
  <2> QED  BY <1>3, <2>1 DEF Books, Held
<1>9. Marked'
  <2>0. answered \subseteq Item  BY DEF TypeOK, RestOK
  <2>1. ASSUME NEW h \in Gen, worker'[h].durable
        PROVE  worker'[h].pc = "run" /\ worker'[h].item \in answered'
    BY <1>3, <1>4, <1>5, <2>1 DEF Books, Marked
  <2>2. item[i].at = "taken" /\ item[i].gen = g  BY <1>2 DEF Books, Held
  <2>3. ASSUME NEW j \in answered'
        PROVE  /\ item[j].at \notin {"new", "refused"}
               /\ InFlight(j) => /\ worker'[item[j].gen].pc = "run"
                                 /\ worker'[item[j].gen].durable
                                 /\ worker'[item[j].gen].item = j
    <3>1. CASE j = i  BY <1>4, <1>5, <2>2, <3>1
    <3>2. CASE j \in answered
      <4>1. j \in Item /\ item[j].at \notin {"new", "refused"}  BY <2>0, <3>2 DEF Books, Marked
      <4>2. InFlight(j) => /\ item[j].gen \in Gen
                           /\ worker[item[j].gen].pc = "run" /\ worker[item[j].gen].durable
                           /\ worker[item[j].gen].item = j
        BY <3>2, <4>1, FlightGen DEF Books, Marked
      <4> QED  BY <1>4, <1>5, <4>1, <4>2
    <3> QED  BY <1>3, <3>1, <3>2
  <2> QED  BY <1>3, <2>1, <2>3 DEF Marked, InFlight
<1>10. PendingExact'
  <2>1. \A h \in Gen : Accepted(h)' = Accepted(h)  BY <1>3 DEF Accepted, InFlight
  <2>2. \A h \in Gen : worker'[h].pending = worker[h].pending  BY <1>4, <1>5
  <2> QED  BY <2>1, <2>2 DEF Books, PendingExact
<1> QED  BY <1>6, <1>7, <1>8, <1>9, <1>10 DEF Books

\* Dropping the head of a channel counts out a turn of that worker.
LEMMA DropBooks ==
  ASSUME Books, TypeOK, TypeOK', Running, NEW g \in Gen, DropHead(g),
         UNCHANGED <<answered, made>>
  PROVE  Books'
<1> DEFINE i == Head(worker[g].queue)
           w == [worker[g] EXCEPT !.queue = Tail(@), !.pending = @ - 1]
<1>1. worker[g] \in Worker /\ worker[g].queue \in Seq(Item) /\ worker[g].queue # <<>>
  BY WorkerAt, WorkerFields DEF DropHead
<1>2. i \in Item /\ i = worker[g].queue[1] /\ 1 \in 1..Len(worker[g].queue)  BY <1>1, TailFacts
<1>3. InFlight(i) /\ item[i].gen = g  BY <1>2 DEF Books, Channelled, InFlight
<1>4. worker' = [worker EXCEPT ![g] = w] /\ item' = Settled(i)  BY DEF DropHead
<1>5. /\ w.queue = Tail(worker[g].queue) /\ w.pending = worker[g].pending - 1
      /\ w.pc = worker[g].pc /\ w.item = worker[g].item /\ w.durable = worker[g].durable
  BY <1>1 DEF Worker
<1>6. worker'[g] = w /\ \A h \in Gen \ {g} : worker'[h] = worker[h]
  BY <1>4 DEF TypeOK, WorkerOK
<1> HIDE DEF w, i
<1> QED  BY <1>1, <1>2, <1>3, <1>4, <1>5, <1>6, SettleBooks DEF i

\* A worker changes its place or its marks and keeps its turns.
LEMMA MarkBooks ==
  ASSUME Books, TypeOK, TypeOK', Running, UNCHANGED <<item, answered, made>>,
         NEW g \in 0..MaxGen, NEW w, worker' = [worker EXCEPT ![g] = w],
         g \in Gen =>
           /\ w.queue = worker[g].queue /\ w.item = worker[g].item
           /\ w.durable = worker[g].durable /\ w.pending = worker[g].pending
           /\ w.pc \in {"taken", "run"} => worker[g].pc \in {"taken", "run"}
           /\ worker[g].pc = "run" => w.pc = "run"
  PROVE  Books'
<1>1. \A h \in Gen : worker'[h] = IF h = g THEN w ELSE worker[h]  BY DEF TypeOK, WorkerOK
<1> QED  BY <1>1, QuietBooks

LEMMA SameBooks ==
  ASSUME Books, TypeOK, TypeOK', Running, UNCHANGED <<worker, item, answered, made>>
  PROVE  Books'
BY QuietBooks

LEMMA TurnBooks ==
  ASSUME Books, TypeOK, TypeOK', Running, NEW i \in Item, TurnStep(i)
  PROVE  Books'
<1>1. CASE Refuse(i)
  <2>1. \A j \in Item : item'[j] = item[j] \/ (item[j].at = "new" /\ item'[j].at = "refused")
    <3>1. item[i] \in Place  BY ItemAt
    <3>2. item[i].at = "new" /\ item' = [item EXCEPT ![i].at = "refused"]  BY <1>1 DEF Refuse
    <3>3. item' = [item EXCEPT ![i] = [item[i] EXCEPT !.at = "refused"]]
      BY <3>2 DEF TypeOK, RestOK
    <3>4. [item[i] EXCEPT !.at = "refused"].at = "refused"  BY <3>1 DEF Place
    <3> QED  BY <3>2, <3>3, <3>4 DEF TypeOK, RestOK
  <2>2. UNCHANGED <<worker, answered, made>>  BY <1>1 DEF Refuse
  <2> QED  BY <2>1, <2>2, QuietBooks
<1>2. CASE Reserve(i)  BY <1>2, ReserveBooks
<1>3. CASE Send(i)
  <2> DEFINE g == item[i].gen
             w == [worker[g] EXCEPT !.queue = Append(@, i)]
  <2>0. item[i].at = "reserved" /\ InFlight(i)  BY <1>3 DEF Send, InFlight
  <2>1. g \in Gen  BY <2>0, FlightGen DEF Books
  <2>2. worker[g] \in Worker  BY <2>1, WorkerAt
  <2>3. /\ w.queue = Append(worker[g].queue, i) /\ w.pending = worker[g].pending
        /\ w.pc = worker[g].pc /\ w.item = worker[g].item /\ w.durable = worker[g].durable
    BY <2>2 DEF Worker
  <2>4. worker' = [worker EXCEPT ![g] = w] /\ item' = [item EXCEPT ![i].at = "queued"]
        /\ UNCHANGED <<answered, made>>
    BY <1>3 DEF Send, TypeOK, WorkerOK
  <2> HIDE DEF w
  <2>5. worker'[g] = w /\ \A h \in Gen \ {g} : worker'[h] = worker[h]
    BY <2>1, <2>4 DEF TypeOK, WorkerOK
  <2>6. /\ worker'[g].queue = Append(worker[g].queue, i) /\ worker'[g].pc = worker[g].pc
        /\ worker'[g].item = worker[g].item /\ worker'[g].durable = worker[g].durable
        /\ worker'[g].pending = worker[g].pending
    BY <2>3, <2>5
  <2>7. item[i].gen = g /\ "queued" \in {"queued", "taken"} /\ item[i].at \in {"reserved", "queued"}
    BY <2>0
  <2>8. UNCHANGED <<answered, made>> /\ item' = [item EXCEPT ![i].at = "queued"]  BY <2>4
  <2> HIDE DEF g
  <2> QED  BY <2>0, <2>1, <2>5, <2>6, <2>7, <2>8, MoveBooks
<1>4. CASE Withdraw(i)
  <2> DEFINE g == item[i].gen
             w == [worker[g] EXCEPT !.pending = @ - 1]
  <2>0. item[i].at = "reserved" /\ InFlight(i)  BY <1>4 DEF Withdraw, InFlight
  <2>1. g \in Gen  BY <2>0, FlightGen DEF Books
  <2>2. worker[g] \in Worker  BY <2>1, WorkerAt
  <2>3. /\ w.queue = worker[g].queue /\ w.pending = worker[g].pending - 1
        /\ w.pc = worker[g].pc /\ w.item = worker[g].item /\ w.durable = worker[g].durable
    BY <2>2 DEF Worker
  <2>4. worker' = [worker EXCEPT ![g] = w] /\ item' = Settled(i) /\ UNCHANGED <<answered, made>>
    BY <1>4 DEF Withdraw, TypeOK, WorkerOK
  <2> HIDE DEF w
  <2>5. worker'[g] = w /\ \A h \in Gen \ {g} : worker'[h] = worker[h]
    BY <2>1, <2>4 DEF TypeOK, WorkerOK
  <2> HIDE DEF g
  <2> QED  BY <2>0, <2>1, <2>3, <2>4, <2>5, SettleBooks DEF g
<1> QED  BY <1>1, <1>2, <1>3, <1>4 DEF TurnStep

LEMMA WorkerBooks ==
  ASSUME Books, TypeOK, TypeOK', Running, NEW g \in Gen, WorkerStep(g)
  PROVE  Books'
<1>0. worker[g] \in Worker /\ g \in 0..MaxGen /\ worker[g].queue \in Seq(Item)
  BY WorkerAt, WorkerFields, QueueAssumption DEF Gen
<1>1. CASE Take(g)
  <2> DEFINE i == Head(worker[g].queue)
             w == [worker[g] EXCEPT !.pc = "taken", !.item = i, !.queue = Tail(@)]
  <2>1. worker[g].pc = "select" /\ worker[g].queue # <<>>  BY <1>1 DEF Take
  <2>2. i \in Item /\ i = worker[g].queue[1] /\ 1 \in 1..Len(worker[g].queue)
    BY <1>0, <2>1, TailFacts
  <2>3. item[i].at = "queued" /\ item[i].gen = g  BY <2>2 DEF Books, Channelled
  <2>4. /\ w.queue = Tail(worker[g].queue) /\ w.pending = worker[g].pending
        /\ w.pc = "taken" /\ w.item = i /\ w.durable = worker[g].durable
    BY <1>0, <2>2 DEF Worker
  <2>5. worker' = [worker EXCEPT ![g] = w] /\ item' = [item EXCEPT ![i].at = "taken"]
        /\ UNCHANGED <<answered, made>>
    BY <1>1 DEF Take
  <2> HIDE DEF w
  <2>6. worker'[g] = w /\ \A h \in Gen \ {g} : worker'[h] = worker[h]
    BY <2>5 DEF TypeOK, WorkerOK
  <2> HIDE DEF i
  <2> QED  BY <2>1, <2>2, <2>3, <2>4, <2>5, <2>6, MoveBooks DEF i
<1>2. CASE BeginTurn(g)
  <2> DEFINE l == ~ worker[g].canceling /\ ~ done
             w == [worker[g] EXCEPT !.pc = "run", !.durable = FALSE, !.live = l]
  <2>1. worker' = [worker EXCEPT ![g] = w] /\ worker[g].pc = "taken"
        /\ UNCHANGED <<item, answered, made>>
    BY <1>2 DEF BeginTurn, TypeOK, WorkerOK
  <2>2. ~ worker[g].durable /\ worker[g].durable \in BOOLEAN
    BY <1>0, <2>1, WorkerFields DEF Books, Marked
  <2>3. /\ w.queue = worker[g].queue /\ w.pending = worker[g].pending
        /\ w.pc = "run" /\ w.item = worker[g].item /\ w.durable = worker[g].durable
    <3> HIDE DEF l
    <3> QED  BY <1>0, <2>2 DEF Worker
  <2> HIDE DEF w
  <2> QED  BY <1>0, <2>1, <2>3, MarkBooks
<1>3. CASE Finish(g)
  <2> DEFINE i == worker[g].item
             w == [worker[g] EXCEPT !.pc = "select", !.item = NoItem, !.live = FALSE,
                                    !.durable = FALSE, !.pending = @ - 1]
  <2>1. worker' = [worker EXCEPT ![g] = w] /\ worker[g].pc \in {"taken", "run"}
        /\ item' = Settled(i) /\ UNCHANGED <<answered, made>>
    BY <1>3 DEF Finish
  <2>2. i \in Item /\ item[i].at = "taken" /\ item[i].gen = g  BY <2>1 DEF Running, Books, Held
  <2>3. /\ w.queue = worker[g].queue /\ w.pending = worker[g].pending - 1
        /\ w.pc = "select" /\ ~ w.durable
    BY <1>0 DEF Worker
  <2> HIDE DEF w
  <2>4. worker'[g] = w /\ \A h \in Gen \ {g} : worker'[h] = worker[h]
    BY <2>1 DEF TypeOK, WorkerOK
  <2>5. InFlight(i)  BY <2>2 DEF InFlight
  <2> HIDE DEF i
  <2> QED  BY <2>1, <2>2, <2>3, <2>4, <2>5, SettleBooks DEF i
<1>4. CASE Retire(g) \/ Shutdown(g)
  <2>0. UNCHANGED <<answered, made>>  BY <1>4 DEF Retire, Shutdown
  <2>1. CASE DropHead(g)  BY <2>0, <2>1, DropBooks
  <2>2. CASE ~ DropHead(g)
    <3>1. PICK p \in {"exit", "drop"} : worker' = [worker EXCEPT ![g].pc = p]
      BY <1>4, <2>2 DEF Retire, Shutdown
    <3> DEFINE w == [worker[g] EXCEPT !.pc = p]
    <3>2. worker' = [worker EXCEPT ![g] = w] /\ UNCHANGED item
      BY <1>4, <2>2, <3>1 DEF Retire, Shutdown, TypeOK, WorkerOK
    <3>3. /\ w.pc = p /\ w.queue = worker[g].queue /\ w.item = worker[g].item
          /\ w.durable = worker[g].durable /\ w.pending = worker[g].pending
      BY <1>0 DEF Worker
    <3>4. worker[g].pc # "run"  BY <1>4, <2>2 DEF Retire, Shutdown
    <3> HIDE DEF w
    <3> QED  BY <1>0, <2>0, <3>2, <3>3, <3>4, MarkBooks
  <2> QED  BY <2>1, <2>2
<1>5. CASE CommitCurrentDurableTerminal(g)  BY <1>5, CommitBooks
<1> QED  BY <1>1, <1>2, <1>3, <1>4, <1>5 DEF WorkerStep

LEMMA CallerBooks ==
  ASSUME Books, Drainers, TypeOK, TypeOK', Running, NEW c \in Caller, CallerStep(c)
  PROVE  Books'
<1> DEFINE g == caller[c].gen
<1>0. g \in 0..MaxGen /\ cur \in 0..MaxGen  BY CallerAt DEF TypeOK, RestOK
<1>1. CASE BeginDraftCancellation(c)
  <2>0. UNCHANGED <<item, answered, made>>  BY <1>1 DEF BeginDraftCancellation
  <2>1. CASE cur = 0  BY <1>1, <2>0, <2>1, SameBooks DEF BeginDraftCancellation
  <2>2. CASE cur # 0
    <3> DEFINE w == [worker[cur] EXCEPT !.canceling = TRUE, !.live = FALSE]
    <3>1. worker' = [worker EXCEPT ![cur] = w]  BY <1>1, <2>2 DEF BeginDraftCancellation
    <3>2. cur \in Gen => /\ w.queue = worker[cur].queue /\ w.item = worker[cur].item
                         /\ w.durable = worker[cur].durable /\ w.pending = worker[cur].pending
                         /\ w.pc = worker[cur].pc
      BY WorkerAt DEF Worker
    <3> HIDE DEF w
    <3> QED  BY <1>0, <2>0, <3>1, <3>2, MarkBooks
  <2> QED  BY <2>1, <2>2
<1>2. CASE Drained(c) \/ Release(c) \/ ReleaseOnClose(c) \/ AwaitProducers(c)
  BY <1>2, SameBooks DEF Drained, Release, ReleaseOnClose, AwaitProducers
<1>3. CASE Abandon(c)
  <2> DEFINE w == [worker[g] EXCEPT !.retired = TRUE]
  <2>0. UNCHANGED <<item, answered, made>>  BY <1>3 DEF Abandon
  <2>1. worker' = worker \/ worker' = [worker EXCEPT ![g] = w]
    BY <1>3 DEF Abandon, TypeOK, WorkerOK
  <2>2. g \in Gen => /\ w.queue = worker[g].queue /\ w.item = worker[g].item
                     /\ w.durable = worker[g].durable /\ w.pending = worker[g].pending
                     /\ w.pc = worker[g].pc
    BY WorkerAt DEF Worker
  <2> HIDE DEF w, g
  <2>3. CASE worker' = worker  BY <2>0, <2>3, SameBooks
  <2>4. CASE worker' = [worker EXCEPT ![g] = w]  BY <1>0, <2>0, <2>2, <2>4, MarkBooks
  <2> QED  BY <2>1, <2>3, <2>4
<1>4. CASE Drain(c)
  <2>0. UNCHANGED <<answered, made>> /\ g \in Gen  BY <1>4 DEF Drain, Drainers
  <2>1. CASE DropHead(g)
    <3> HIDE DEF g
    <3> QED  BY <2>0, <2>1, DropBooks
  <2>2. CASE ~ DropHead(g)
    <3>1. UNCHANGED <<worker, item>>  BY <1>4, <2>2 DEF Drain
    <3> QED  BY <2>0, <3>1, SameBooks
  <2> QED  BY <2>1, <2>2
<1>5. CASE Unlock(c)
  <2> DEFINE w == [worker[g] EXCEPT !.canceling = FALSE]
  <2>0. UNCHANGED <<item, answered, made>>  BY <1>5 DEF Unlock
  <2>1. worker' = worker \/ worker' = [worker EXCEPT ![g] = w]
    BY <1>5 DEF Unlock, TypeOK, WorkerOK
  <2>2. g \in Gen => /\ w.queue = worker[g].queue /\ w.item = worker[g].item
                     /\ w.durable = worker[g].durable /\ w.pending = worker[g].pending
                     /\ w.pc = worker[g].pc
    BY WorkerAt DEF Worker
  <2> HIDE DEF w, g
  <2>3. CASE worker' = worker  BY <2>0, <2>3, SameBooks
  <2>4. CASE worker' = [worker EXCEPT ![g] = w]  BY <1>0, <2>0, <2>2, <2>4, MarkBooks
  <2> QED  BY <2>1, <2>3, <2>4
<1> QED  BY <1>1, <1>2, <1>3, <1>4, <1>5 DEF CallerStep

LEMMA CloseBooks ==
  ASSUME Books, Drainers, TypeOK, TypeOK', Running, CloseStep \/ RequestStop
  PROVE  Books'
<1> DEFINE g == closer.gen
<1>0. g \in 0..MaxGen /\ cur \in 0..MaxGen  BY DEF TypeOK, RestOK
<1>1. CASE ParentDone \/ Close
  <2>1. worker' = Cancelled /\ UNCHANGED <<item, answered, made>>  BY <1>1 DEF ParentDone, Close
  <2>2. \A h \in Gen : worker'[h] = [worker[h] EXCEPT !.live = FALSE]  BY <2>1, CancelledTyped
  <2>3. \A h \in Gen :
          /\ worker'[h].queue = worker[h].queue /\ worker'[h].item = worker[h].item
          /\ worker'[h].durable = worker[h].durable /\ worker'[h].pending = worker[h].pending
          /\ worker'[h].pc = worker[h].pc
    BY <2>2, WorkerAt DEF Worker
  <2> QED  BY <2>1, <2>3, QuietBooks
<1>2. CASE CloseSeal
  <2> DEFINE w == [worker[g] EXCEPT !.retired = TRUE]
  <2>1. worker' = [worker EXCEPT ![g] = w] /\ UNCHANGED <<item, answered, made>>
    BY <1>2 DEF CloseSeal, TypeOK, WorkerOK
  <2>2. g \in Gen => /\ w.queue = worker[g].queue /\ w.item = worker[g].item
                     /\ w.durable = worker[g].durable /\ w.pending = worker[g].pending
                     /\ w.pc = worker[g].pc
    BY WorkerAt DEF Worker
  <2> HIDE DEF w, g
  <2> QED  BY <1>0, <2>1, <2>2, MarkBooks
<1>3. CASE CloseAwaitProducers  BY <1>3, SameBooks DEF CloseAwaitProducers
<1>4. CASE CloseDrain
  <2>0. UNCHANGED <<answered, made>> /\ g \in Gen  BY <1>4 DEF CloseDrain, Drainers
  <2>1. CASE DropHead(g)
    <3> HIDE DEF g
    <3> QED  BY <2>0, <2>1, DropBooks
  <2>2. CASE ~ DropHead(g)
    <3>1. UNCHANGED <<worker, item>>  BY <1>4, <2>2 DEF CloseDrain
    <3> QED  BY <2>0, <3>1, SameBooks
  <2> QED  BY <2>1, <2>2
<1>5. CASE RequestStop
  <2> DEFINE w == [worker[cur] EXCEPT !.live = FALSE]
  <2>1. worker' = [worker EXCEPT ![cur] = w] /\ UNCHANGED <<item, answered, made>>
    BY <1>5 DEF RequestStop, TypeOK, WorkerOK
  <2>2. cur \in Gen => /\ w.queue = worker[cur].queue /\ w.item = worker[cur].item
                       /\ w.durable = worker[cur].durable /\ w.pending = worker[cur].pending
                       /\ w.pc = worker[cur].pc
    BY WorkerAt DEF Worker
  <2> HIDE DEF w
  <2> QED  BY <1>0, <2>1, <2>2, MarkBooks
<1> QED  BY <1>1, <1>2, <1>3, <1>4, <1>5 DEF CloseStep

-----------------------------------------------------------------------------
(* Barriers. *)

\* What BeginDraftCancellation counts.
CoveredBy(w) == IF w.pc = "run" /\ w.durable /\ w.pending > 0 THEN w.pending - 1 ELSE w.pending

LEMMA BeginFacts ==
  ASSUME TypeOK, NEW c \in Caller, BeginDraftCancellation(c)
  PROVE  /\ caller'[c].pc = "wait" /\ \A d \in Caller \ {c} : caller'[d] = caller[d]
         /\ cur = 0 => /\ caller'[c].turns = caller[c].turns /\ caller'[c].gen = caller[c].gen
                       /\ caller'[c].covered = caller[c].covered
         /\ cur # 0 => /\ caller'[c].turns = Accepted(cur) \ answered /\ caller'[c].gen = cur
                       /\ caller'[c].covered = CoveredBy(worker[cur]) /\ worker'[cur].canceling
<1>1. caller[c] \in Barrier  BY CallerAt
<1>2. CASE cur = 0
  <2>1. \A d \in Caller : caller'[d] = IF d = c THEN [caller[c] EXCEPT !.pc = "wait"] ELSE caller[d]
    BY <1>2 DEF BeginDraftCancellation, TypeOK, RestOK
  <2>2. /\ [caller[c] EXCEPT !.pc = "wait"].turns = caller[c].turns
        /\ [caller[c] EXCEPT !.pc = "wait"].covered = caller[c].covered
        /\ [caller[c] EXCEPT !.pc = "wait"].gen = caller[c].gen
        /\ [caller[c] EXCEPT !.pc = "wait"].pc = "wait"
    BY <1>1 DEF Barrier
  <2> QED  BY <1>2, <2>1, <2>2
<1>3. CASE cur # 0
  <2> DEFINE T == Accepted(cur) \ answered
             n == CoveredBy(worker[cur])
             b == [caller[c] EXCEPT !.pc = "wait", !.gen = cur, !.turns = T, !.covered = n]
             w == [worker[cur] EXCEPT !.canceling = TRUE, !.live = FALSE]
  <2>1. caller' = [caller EXCEPT ![c] = b] /\ worker' = [worker EXCEPT ![cur] = w]
    BY <1>3 DEF BeginDraftCancellation, CoveredBy
  <2>2. b.turns = T /\ b.gen = cur /\ b.covered = n /\ b.pc = "wait"
    <3> HIDE DEF T, n
    <3> QED  BY <1>1 DEF Barrier
  <2>3. cur \in Gen  BY <1>3, QueueAssumption DEF Gen, TypeOK, RestOK
  <2>4. worker[cur] \in Worker  BY <2>3, WorkerAt
  <2>5. w.canceling  BY <2>4 DEF Worker
  <2> HIDE DEF b, w
  <2>6. \A d \in Caller : caller'[d] = IF d = c THEN b ELSE caller[d]
    BY <2>1 DEF TypeOK, RestOK
  <2>7. worker'[cur].canceling  BY <2>1, <2>3, <2>5 DEF TypeOK, WorkerOK
  <2> QED  BY <1>3, <2>2, <2>6, <2>7
<1> QED  BY <1>2, <1>3

LEMMA DrainersKept ==
  ASSUME Drainers, TypeOK, [Next]_vars
  PROVE  Drainers'
<1>0. \A d \in Caller : caller[d] \in Barrier /\ caller[d].gen \in 0..MaxGen  BY CallerAt
<1>1. \A x \in 0..MaxGen : x # 0 => x \in Gen  BY QueueAssumption DEF Gen
<1>2. ASSUME NEW c \in Caller, caller'[c].pc \in {"producers", "drain"}
      PROVE  caller'[c].gen \in Gen
  <2>1. CASE UNCHANGED caller  BY <1>2, <2>1 DEF Drainers
  <2>2. CASE ~ UNCHANGED caller
    <3>1. PICK d \in Caller : CallerStep(d)
      BY <2>2 DEF Next, vars, TurnStep, Refuse, Reserve, Send, Withdraw, WorkerStep, Take, BeginTurn,
         Finish, Retire, Shutdown, CommitCurrentDurableTerminal, RequestStop, CloseStep, ParentDone,
         Close, CloseSeal, CloseAwaitProducers, CloseDrain
    <3>2. d # c => caller'[c] = caller[c]
      BY <3>1 DEF CallerStep, BeginDraftCancellation, Drained, Release, ReleaseOnClose, Abandon,
         AwaitProducers, Drain, Unlock, TypeOK, RestOK
    <3>3. CASE d = c
      <4>1. CASE BeginDraftCancellation(c)
        <5>1. caller'[c].pc = "wait"  BY <4>1, BeginFacts
        <5> QED  BY <1>2, <5>1
      <4>2. CASE Drained(c) \/ Release(c) \/ ReleaseOnClose(c) \/ Unlock(c)
        <5>1. caller'[c].pc \in {"drained", "unlock", "over"}
          BY <1>0, <4>2 DEF Drained, Release, ReleaseOnClose, Unlock, TypeOK, RestOK, Barrier
        <5> QED  BY <1>2, <5>1
      <4>3. CASE Abandon(c)
        <5>1. caller[c].gen # 0 /\ caller'[c].gen = caller[c].gen
          BY <1>0, <1>2, <4>3 DEF Abandon, TypeOK, RestOK, Barrier
        <5> QED  BY <1>0, <1>1, <5>1
      <4>4. CASE AwaitProducers(c) \/ Drain(c)
        <5>1. caller[c].pc \in {"producers", "drain"}  BY <4>4 DEF AwaitProducers, Drain
        <5>2. caller'[c].gen = caller[c].gen
          BY <1>0, <4>4 DEF AwaitProducers, Drain, TypeOK, RestOK, Barrier
        <5> QED  BY <5>1, <5>2 DEF Drainers
      <4> QED  BY <3>1, <3>3, <4>1, <4>2, <4>3, <4>4 DEF CallerStep
    <3>4. CASE d # c  BY <1>2, <3>2, <3>4 DEF Drainers
    <3> QED  BY <3>3, <3>4
  <2> QED  BY <2>1, <2>2
<1>3. closer'.pc \in {"seal", "producers", "drain"} => closer'.gen \in Gen
  <2>1. cur \in 0..MaxGen  BY DEF TypeOK, RestOK
  <2>2. CASE UNCHANGED closer  BY <2>2 DEF Drainers
  <2>3. CASE Close  BY <1>1, <2>1, <2>3 DEF Close
  <2>4. CASE CloseSeal \/ CloseAwaitProducers \/ CloseDrain
    BY <2>4 DEF CloseSeal, CloseAwaitProducers, CloseDrain, Drainers, TypeOK, RestOK
  <2>5. UNCHANGED closer \/ Close \/ CloseSeal \/ CloseAwaitProducers \/ CloseDrain
    BY DEF Next, vars, TurnStep, Refuse, Reserve, Send, Withdraw, WorkerStep, Take, BeginTurn,
       Finish, Retire, Shutdown, CommitCurrentDurableTerminal, RequestStop, CloseStep, ParentDone,
       CallerStep, BeginDraftCancellation, Drained, Release, ReleaseOnClose, Abandon,
       AwaitProducers, Drain, Unlock
  <2> QED  BY <2>2, <2>3, <2>4, <2>5
<1> QED  BY <1>2, <1>3 DEF Drainers

\* A step other than Reserve brings no turn into a generation and no accepted
\* turn back to the start.
Falls == \A j \in Item :
    /\ InFlight(j)' => InFlight(j) /\ item'[j].gen = item[j].gen
    /\ item[j].at \notin {"new", "refused"} => item'[j].at \notin {"new", "refused"}

LEMMA FallsBy ==
  ASSUME TypeOK, NEW x, NEW a \in {"queued", "taken", "settled"},
         item' = [item EXCEPT ![x].at = a], a # "settled" /\ x \in Item => InFlight(x)
  PROVE  Falls
<1>1. \A j \in Item : item'[j] = IF j = x THEN [item[j] EXCEPT !.at = a] ELSE item[j]
  BY DEF TypeOK, RestOK
<1>2. \A j \in Item : item[j] \in Place  BY ItemAt
<1>3. x \in Item => item'[x].at = a /\ item'[x].gen = item[x].gen  BY <1>1, <1>2 DEF Place
<1> QED  BY <1>1, <1>3 DEF Falls, InFlight

LEMMA FallsElsewhere ==
  ASSUME TypeOK, Books, [Next]_vars, \A i \in Item : ~ Reserve(i)
  PROVE  Falls
<1>1. CASE UNCHANGED item  BY <1>1 DEF Falls, InFlight
<1>2. ASSUME NEW i \in Item, Refuse(i) PROVE Falls
  <2>1. item[i] \in Place  BY ItemAt
  <2>2. item[i].at = "new" /\ item' = [item EXCEPT ![i] = [item[i] EXCEPT !.at = "refused"]]
    BY <1>2 DEF Refuse, TypeOK, RestOK
  <2>3. \A j \in Item : item'[j] = IF j = i THEN [item[i] EXCEPT !.at = "refused"] ELSE item[j]
    BY <2>2 DEF TypeOK, RestOK
  <2>4. item'[i].at = "refused"  BY <2>1, <2>3 DEF Place
  <2> QED  BY <2>2, <2>3, <2>4 DEF Falls, InFlight
<1>3. ASSUME NEW i \in Item, Send(i) \/ Withdraw(i) PROVE Falls
  <2>1. InFlight(i)  BY <1>3 DEF Send, Withdraw, InFlight
  <2>2. \E a \in {"queued", "settled"} : item' = [item EXCEPT ![i].at = a]
    BY <1>3 DEF Send, Withdraw, Settled
  <2> QED  BY <2>1, <2>2, FallsBy
<1>4. ASSUME NEW x, item' = Settled(x) PROVE Falls
  <2>1. item' = [item EXCEPT ![x].at = "settled"]  BY <1>4 DEF Settled
  <2> QED  BY <2>1, FallsBy
<1>5. ASSUME NEW g \in Gen, Take(g) PROVE Falls
  <2> DEFINE i == Head(worker[g].queue)
  <2>1. worker[g].queue \in Seq(Item) /\ worker[g].queue # <<>>
    BY <1>5, WorkerAt, WorkerFields DEF Take
  <2>2. i = worker[g].queue[1] /\ 1 \in 1..Len(worker[g].queue)  BY <2>1, TailFacts
  <2>3. InFlight(i)  BY <2>2 DEF Books, Channelled, InFlight
  <2>4. item' = [item EXCEPT ![i].at = "taken"]  BY <1>5 DEF Take
  <2> HIDE DEF i
  <2> QED  BY <2>3, <2>4, FallsBy
<1>6. ASSUME NEW g, DropHead(g) PROVE Falls
  BY <1>4, <1>6 DEF DropHead
<1>7. ASSUME NEW i \in Item, TurnStep(i) PROVE Falls
  BY <1>2, <1>3, <1>7 DEF TurnStep
<1>8. ASSUME NEW g \in Gen, WorkerStep(g) PROVE Falls
  <2>1. CASE Finish(g)  BY <1>4, <2>1 DEF Finish
  <2>2. CASE Shutdown(g)  BY <1>1, <1>6, <2>2 DEF Shutdown
  <2>3. CASE BeginTurn(g) \/ Retire(g) \/ CommitCurrentDurableTerminal(g)
    BY <1>1, <2>3 DEF BeginTurn, Retire, CommitCurrentDurableTerminal
  <2> QED  BY <1>5, <1>8, <2>1, <2>2, <2>3 DEF WorkerStep
<1>9. ASSUME NEW c \in Caller, CallerStep(c) PROVE Falls
  <2>1. CASE Drain(c)  BY <1>1, <1>6, <2>1 DEF Drain
  <2>2. CASE ~ Drain(c)
    BY <1>1, <1>9, <2>2 DEF CallerStep, BeginDraftCancellation, Drained, Release, ReleaseOnClose,
       Abandon, AwaitProducers, Unlock
  <2> QED  BY <2>1, <2>2
<1>10. CASE CloseStep \/ RequestStop
  <2>1. CASE CloseDrain  BY <1>1, <1>6, <2>1 DEF CloseDrain
  <2>2. CASE ~ CloseDrain
    BY <1>1, <1>10, <2>2 DEF CloseStep, RequestStop, ParentDone, Close, CloseSeal, CloseAwaitProducers
  <2> QED  BY <2>1, <2>2
<1>11. CASE UNCHANGED vars  BY <1>1, <1>11 DEF vars
<1> QED  BY <1>7, <1>8, <1>9, <1>10, <1>11 DEF Next

\* What a caller counted stays what it was, and so does its generation.
CountsKept == \A c \in Caller : /\ caller'[c].turns = caller[c].turns
                                /\ caller'[c].covered = caller[c].covered
                                /\ caller'[c].gen = caller[c].gen

LEMMA PcKept ==
  ASSUME TypeOK, NEW c \in Caller, NEW p, caller' = [caller EXCEPT ![c].pc = p]
  PROVE  /\ CountsKept
         /\ caller'[c].pc = p /\ \A d \in Caller \ {c} : caller'[d] = caller[d]
<1>1. caller[c] \in Barrier  BY CallerAt
<1>2. \A d \in Caller : caller'[d] = IF d = c THEN [caller[c] EXCEPT !.pc = p] ELSE caller[d]
  BY DEF TypeOK, RestOK
<1>3. /\ [caller[c] EXCEPT !.pc = p].turns = caller[c].turns
      /\ [caller[c] EXCEPT !.pc = p].covered = caller[c].covered
      /\ [caller[c] EXCEPT !.pc = p].gen = caller[c].gen
      /\ [caller[c] EXCEPT !.pc = p].pc = p
  BY <1>1 DEF Barrier
<1> QED  BY <1>2, <1>3 DEF CountsKept

LEMMA AbandonKept ==
  ASSUME TypeOK, NEW c \in Caller, Abandon(c)
  PROVE  /\ CountsKept
         /\ caller'[c].pc \in {"producers", "unlock"}
         /\ \A d \in Caller \ {c} : caller'[d] = caller[d]
<1>1. caller[c] \in Barrier  BY CallerAt
<1>2. PICK p \in {"producers", "unlock"} :
        caller' = [caller EXCEPT ![c] = [caller[c] EXCEPT !.pc = p, !.abandon = TRUE]]
  BY DEF Abandon
<1>3. \A d \in Caller : caller'[d] =
        IF d = c THEN [caller[c] EXCEPT !.pc = p, !.abandon = TRUE] ELSE caller[d]
  BY <1>2 DEF TypeOK, RestOK
<1>4. /\ [caller[c] EXCEPT !.pc = p, !.abandon = TRUE].turns = caller[c].turns
      /\ [caller[c] EXCEPT !.pc = p, !.abandon = TRUE].covered = caller[c].covered
      /\ [caller[c] EXCEPT !.pc = p, !.abandon = TRUE].gen = caller[c].gen
      /\ [caller[c] EXCEPT !.pc = p, !.abandon = TRUE].pc = p
  BY <1>1 DEF Barrier
<1> QED  BY <1>3, <1>4 DEF CountsKept

\* An accepted turn of another generation than the current one stays barred.
LEMMA BarredBy ==
  ASSUME TypeOK, Barred, Falls, CountsKept,
         \A c \in Caller : \A i \in caller[c].turns :
           InFlight(i) /\ item[i].gen = caller[c].gen /\ item[i].gen = cur' =>
             done' \/ caller'[c].pc = "wait"
  PROVE  Barred'
<1>1. \A c \in Caller : caller[c].turns \subseteq Item
  <2>1. \A c \in Caller : caller[c] \in Barrier  BY CallerAt
  <2> QED  BY <2>1 DEF Barrier
<1> QED  BY <1>1 DEF Barred, Falls, CountsKept, InFlight

LEMMA BarredReserve ==
  ASSUME TypeOK, Books, Barred, NEW i \in Item, Reserve(i)
  PROVE  Barred'
<1>1. UNCHANGED <<caller, done>> /\ item[i].at = "new"  BY DEF Reserve
<1>2. \A c \in Caller : caller[c].turns \subseteq Item /\ i \notin caller[c].turns
  <2>1. \A c \in Caller : caller[c] \in Barrier  BY CallerAt
  <2> QED  BY <1>1, <2>1 DEF Barrier, Barred
<1>3. \A j \in Item \ {i} : item'[j] = item[j]  BY DEF Reserve, TypeOK, RestOK
<1>4. cur \in 0..MaxGen /\ made \in 0..MaxGen  BY DEF TypeOK, RestOK
<1>5. cur' = cur \/ cur' = made + 1  BY DEF Reserve
<1>6. ASSUME NEW c \in Caller, NEW j \in caller[c].turns
      PROVE  /\ item[j].at \notin {"new", "refused"}
             /\ InFlight(j) => /\ item[j].gen = caller[c].gen
                               /\ item[j].gen = cur' => done \/ caller[c].pc = "wait"
  <2>1. j \in Item  BY <1>2
  <2>2. InFlight(j) => item[j].gen # made + 1  BY <1>4, <2>1 DEF Books, Made
  <2> QED  BY <1>5, <2>2 DEF Barred
<1> QED  BY <1>1, <1>2, <1>3, <1>6 DEF Barred, InFlight

LEMMA BarredElsewhere ==
  ASSUME TypeOK, Books, Barred, CoveredExact, Falls, [Next]_vars, \A i \in Item : ~ Reserve(i)
  PROVE  Barred'
<1>1. CASE UNCHANGED <<cur, caller>> /\ (done => done')
  <2>1. CountsKept  BY <1>1 DEF CountsKept
  <2> QED  BY <1>1, <2>1, BarredBy DEF Barred
<1>2. CASE ParentDone \/ Close
  <2>1. CountsKept /\ done'  BY <1>2 DEF ParentDone, Close, CountsKept
  <2> QED  BY <2>1, BarredBy
<1>3. ASSUME NEW c \in Caller, CallerStep(c) PROVE Barred'
  <2>0. c \in Caller /\ UNCHANGED done
    BY <1>3 DEF CallerStep, BeginDraftCancellation, Drained, Release, ReleaseOnClose, Abandon,
       AwaitProducers, Drain, Unlock
  <2>t. \A d \in Caller : caller[d].turns \subseteq Item
    <3>1. \A d \in Caller : caller[d] \in Barrier  BY CallerAt
    <3> QED  BY <3>1 DEF Barrier
  <2>1. CASE BeginDraftCancellation(c)
    <3>1. UNCHANGED <<item, cur>>  BY <2>1 DEF BeginDraftCancellation
    <3>2. ASSUME NEW d \in Caller, NEW i \in caller'[d].turns
          PROVE  /\ item[i].at \notin {"new", "refused"}
                 /\ InFlight(i) => /\ item[i].gen = caller'[d].gen
                                   /\ item[i].gen = cur => done \/ caller'[d].pc = "wait"
      <4>1. CASE d # c
        <5>1. caller'[d] = caller[d]  BY <2>1, <4>1, BeginFacts
        <5> QED  BY <3>2, <5>1 DEF Barred
      <4>2. CASE d = c /\ cur = 0
        <5>1. /\ caller'[c].turns = caller[c].turns /\ caller'[c].gen = caller[c].gen
              /\ caller'[c].pc = "wait"
          BY <2>1, <4>2, BeginFacts
        <5> QED  BY <3>2, <4>2, <5>1 DEF Barred
      <4>3. CASE d = c /\ cur # 0
        <5>1. /\ caller'[c].turns = Accepted(cur) \ answered /\ caller'[c].gen = cur
              /\ caller'[c].pc = "wait"
          BY <2>1, <4>3, BeginFacts
        <5>2. i \in Item /\ InFlight(i) /\ item[i].gen = cur  BY <3>2, <4>3, <5>1 DEF Accepted
        <5> QED  BY <4>3, <5>1, <5>2 DEF InFlight
      <4> QED  BY <4>1, <4>2, <4>3
    <3> QED  BY <2>0, <3>1, <3>2 DEF Barred, InFlight
  <2>2. ASSUME CountsKept, \A d \in Caller \ {c} : caller'[d] = caller[d],
               \A i \in caller[c].turns :
                 InFlight(i) /\ item[i].gen = caller[c].gen => cur' # item[i].gen \/ done',
               \A i \in Item : InFlight(i) /\ cur' = item[i].gen => cur' = cur
        PROVE  Barred'
    <3>1. ASSUME NEW d \in Caller, NEW i \in caller[d].turns,
                 InFlight(i), item[i].gen = caller[d].gen, item[i].gen = cur'
          PROVE  done' \/ caller'[d].pc = "wait"
      <4>1. CASE d = c  BY <2>2, <3>1, <4>1
      <4>2. CASE d # c
        <5>1. i \in Item /\ cur' = cur  BY <2>2, <2>t, <3>1
        <5> QED  BY <2>0, <2>2, <3>1, <4>2, <5>1 DEF Barred
      <4> QED  BY <4>1, <4>2
    <3> QED  BY <2>2, <3>1, BarredBy
  <2>3. CASE Drained(c)
    <3>1. CountsKept /\ \A d \in Caller \ {c} : caller'[d] = caller[d]  BY <2>3, PcKept DEF Drained
    <3>2. ASSUME NEW i \in caller[c].turns, InFlight(i), item[i].gen = caller[c].gen PROVE FALSE
      <4>1. i \in Item /\ item[i].gen \in Gen  BY <2>t, <3>2, FlightGen DEF Books
      <4>2. worker[item[i].gen].pending = 0  BY <2>3, <3>2, <4>1 DEF Drained, Gen
      <4>3. Accepted(item[i].gen) = {}
        BY <4>1, <4>2, AcceptedFinite, FS_EmptySet DEF Books, PendingExact
      <4> QED  BY <3>2, <4>1, <4>3 DEF Accepted
    <3>3. UNCHANGED cur  BY <2>3 DEF Drained
    <3> QED  BY <2>2, <3>1, <3>2, <3>3
  <2>4. CASE Release(c) \/ AwaitProducers(c) \/ Unlock(c)
    <3>1. caller[c].pc # "wait" /\ UNCHANGED cur  BY <2>4 DEF Release, AwaitProducers, Unlock
    <3>2. CountsKept /\ \A d \in Caller \ {c} : caller'[d] = caller[d]
      BY <2>4, PcKept DEF Release, AwaitProducers, Unlock
    <3>3. \A i \in caller[c].turns :
            InFlight(i) /\ item[i].gen = caller[c].gen => cur' # item[i].gen \/ done'
      BY <2>0, <3>1 DEF Barred
    <3> QED  BY <2>2, <3>1, <3>2, <3>3
  <2>5. CASE ReleaseOnClose(c)
    <3>1. done' /\ UNCHANGED cur  BY <2>0, <2>5 DEF ReleaseOnClose
    <3>2. CountsKept /\ \A d \in Caller \ {c} : caller'[d] = caller[d]
      BY <2>5, PcKept DEF ReleaseOnClose
    <3> QED  BY <2>2, <3>1, <3>2
  <2>6. CASE Abandon(c)
    <3>1. CountsKept /\ \A d \in Caller \ {c} : caller'[d] = caller[d]  BY <2>6, AbandonKept
    <3>2. \A i \in Item : InFlight(i) => item[i].gen # 0  BY FlightGen DEF Books, Gen
    <3>3. cur' = 0 \/ (cur' = cur /\ cur # caller[c].gen) \/ caller[c].gen = 0
      BY <2>6 DEF Abandon
    <3>4. cur' = 0 \/ cur' = cur  BY <2>6 DEF Abandon
    <3> QED  BY <2>2, <2>t, <3>1, <3>2, <3>3, <3>4
  <2>7. CASE Drain(c)
    <3>1. UNCHANGED cur /\ caller[c].pc # "wait"  BY <2>7 DEF Drain
    <3>2. CASE UNCHANGED caller  BY <1>1, <2>0, <3>1, <3>2
    <3>3. CASE caller' = [caller EXCEPT ![c].pc = "unlock"]
      <4>1. CountsKept /\ \A d \in Caller \ {c} : caller'[d] = caller[d]  BY <3>3, PcKept
      <4>2. \A i \in caller[c].turns :
              InFlight(i) /\ item[i].gen = caller[c].gen => cur' # item[i].gen \/ done'
        BY <2>0, <3>1 DEF Barred
      <4> QED  BY <2>2, <3>1, <4>1, <4>2
    <3> QED  BY <2>7, <3>2, <3>3 DEF Drain
  <2> QED  BY <1>3, <2>1, <2>3, <2>4, <2>5, <2>6, <2>7 DEF CallerStep
<1>4. (UNCHANGED <<cur, caller>> /\ (done => done')) \/ ParentDone \/ Close
      \/ \E c \in Caller : CallerStep(c)
  BY DEF Next, vars, TurnStep, Refuse, Send, Withdraw, WorkerStep, Take, BeginTurn, Finish, Retire,
     Shutdown, CommitCurrentDurableTerminal, RequestStop, CloseStep, CloseSeal,
     CloseAwaitProducers, CloseDrain
<1> QED  BY <1>1, <1>2, <1>3, <1>4

-----------------------------------------------------------------------------
(* What barriers count. *)

\* When a barrier begins, the turns without a terminal message are all the
\* accepted ones but the running one whose message is in the database.
LEMMA CoveredAtBegin ==
  ASSUME TypeOK, Books, Running, NEW g \in Gen
  PROVE  CoveredBy(worker[g]) = Cardinality(Accepted(g) \ answered)
<1>1. worker[g].pending = Cardinality(Accepted(g)) /\ IsFiniteSet(Accepted(g))
      /\ Cardinality(Accepted(g)) \in Nat
  BY AcceptedFinite, FS_CardinalityType DEF Books, PendingExact
<1>2. \A i \in Accepted(g) \cap answered :
        worker[g].pc = "run" /\ worker[g].durable /\ worker[g].item = i
  BY DEF Accepted, Books, Marked
<1>3. CASE worker[g].pc = "run" /\ worker[g].durable
  <2> DEFINE i == worker[g].item
  <2>1. i \in Item /\ i \in answered /\ item[i].at = "taken" /\ item[i].gen = g
    BY <1>3 DEF Books, Marked, Held, Running
  <2>2. i \in Accepted(g)  BY <2>1 DEF Accepted, InFlight
  <2>3. Accepted(g) \ answered = Accepted(g) \ {i}  BY <1>2, <2>1
  <2>4. Cardinality(Accepted(g) \ {i}) = Cardinality(Accepted(g)) - 1
    BY <1>1, <2>2, FS_RemoveElement
  <2>5. Cardinality(Accepted(g)) # 0  BY <1>1, <2>2, FS_EmptySet
  <2>6. worker[g].pending > 0  BY <1>1, <2>5
  <2>7. CoveredBy(worker[g]) = worker[g].pending - 1  BY <1>3, <2>6, Zenon DEF CoveredBy
  <2> HIDE DEF i
  <2> QED  BY <1>1, <2>3, <2>4, <2>7
<1>4. CASE ~ (worker[g].pc = "run" /\ worker[g].durable)
  <2>1. Accepted(g) \ answered = Accepted(g)  BY <1>2, <1>4
  <2> QED  BY <1>1, <1>4, <2>1 DEF CoveredBy
<1> QED  BY <1>3, <1>4

LEMMA CoveredKept ==
  ASSUME Inv, Books, Barred, CoveredExact, [Next]_vars
  PROVE  CoveredExact'
<1>0. TypeOK /\ Running /\ Leased  BY DEF Inv
<1>1. CASE CountsKept /\ UNCHANGED answered  BY <1>1 DEF CoveredExact, CountsKept
<1>2. ASSUME NEW g \in Gen, CommitCurrentDurableTerminal(g) PROVE CoveredExact'
  <2> DEFINE i == worker[g].item
  <2>1. RunsLive(g) /\ answered' = answered \cup {i} /\ UNCHANGED caller
    BY <1>2 DEF CommitCurrentDurableTerminal
  <2>2. g = cur /\ ~ done /\ InFlight(i) /\ item[i].gen = g
    BY <1>0, <2>1 DEF Running, RunsLive, Books, Held, InFlight
  <2>3. ASSUME NEW c \in Caller, i \in caller[c].turns PROVE FALSE
    <3>1. caller[c].pc = "wait"  BY <2>2, <2>3 DEF Barred
    <3>2. c \in Holders  BY <3>1 DEF Holders
    <3> QED  BY <1>0, <2>1, <3>2, HolderQuiet
  <2> QED  BY <2>1, <2>3 DEF CoveredExact
<1>3. ASSUME NEW c \in Caller, CallerStep(c) PROVE CoveredExact'
  <2>0. UNCHANGED answered
    BY <1>3 DEF CallerStep, BeginDraftCancellation, Drained, Release, ReleaseOnClose, Abandon,
       AwaitProducers, Drain, Unlock
  <2>1. CASE BeginDraftCancellation(c)
    <3>1. cur # 0 => cur \in Gen  BY <1>0, QueueAssumption DEF Gen, TypeOK, RestOK
    <3>2. \A d \in Caller \ {c} : caller'[d] = caller[d]  BY <1>0, <2>1, BeginFacts
    <3>3. CASE cur = 0
      <4>1. caller'[c].turns = caller[c].turns /\ caller'[c].covered = caller[c].covered
        BY <1>0, <2>1, <3>3, BeginFacts
      <4> QED  BY <2>0, <3>2, <4>1 DEF CoveredExact
    <3>4. CASE cur # 0
      <4>1. /\ caller'[c].turns = Accepted(cur) \ answered
            /\ caller'[c].covered = CoveredBy(worker[cur])
        BY <1>0, <2>1, <3>4, BeginFacts
      <4>2. CoveredBy(worker[cur]) = Cardinality(Accepted(cur) \ answered)
        BY <1>0, <3>1, <3>4, CoveredAtBegin
      <4> QED  BY <2>0, <3>2, <4>1, <4>2 DEF CoveredExact
    <3> QED  BY <3>3, <3>4
  <2>2. CASE Drained(c) \/ Release(c) \/ ReleaseOnClose(c) \/ AwaitProducers(c) \/ Unlock(c)
    BY <1>0, <1>1, <2>0, <2>2, PcKept DEF Drained, Release, ReleaseOnClose, AwaitProducers, Unlock
  <2>3. CASE Abandon(c)  BY <1>0, <1>1, <2>0, <2>3, AbandonKept
  <2>4. CASE Drain(c)
    <3>1. CASE UNCHANGED caller  BY <1>1, <2>0, <3>1 DEF CountsKept
    <3>2. CASE caller' = [caller EXCEPT ![c].pc = "unlock"]  BY <1>0, <1>1, <2>0, <3>2, PcKept
    <3> QED  BY <2>4, <3>1, <3>2 DEF Drain
  <2> QED  BY <1>3, <2>1, <2>2, <2>3, <2>4 DEF CallerStep
<1>4. UNCHANGED <<caller, answered>> \/ (\E g \in Gen : CommitCurrentDurableTerminal(g))
      \/ \E c \in Caller : CallerStep(c)
  BY DEF Next, vars, TurnStep, Refuse, Reserve, Send, Withdraw, WorkerStep, Take, BeginTurn, Finish,
     Retire, Shutdown, RequestStop, CloseStep, ParentDone, Close, CloseSeal,
     CloseAwaitProducers, CloseDrain
<1>5. UNCHANGED <<caller, answered>> => CoveredExact'  BY DEF CoveredExact
<1> QED  BY <1>2, <1>3, <1>4, <1>5

LEMMA DrainedKept ==
  ASSUME Inv, Books, DrainedIsEmpty, [Next]_vars, (\A i \in Item : ~ Reserve(i)) => Falls
  PROVE  DrainedIsEmpty'
<1>0. TypeOK /\ Running /\ Leased  BY DEF Inv
<1>1. ASSUME NEW i \in Item, Reserve(i) PROVE DrainedIsEmpty'
  <2>1. leases = 0 /\ ~ done /\ UNCHANGED caller  BY <1>1 DEF Reserve
  <2>2. Cardinality(Holders) = 0  BY <2>1, <1>0 DEF Leased
  <2>3. Holders = {}  BY <2>2, FS_EmptySet, FS_Subset, QueueAssumption DEF Holders
  <2> QED  BY <2>1, <2>3 DEF DrainedIsEmpty, Holders
<1>2. CASE \A i \in Item : ~ Reserve(i)
  <2>1. Falls  BY <1>2
  <2>2. \A g : Accepted(g)' \subseteq Accepted(g)  BY <2>1 DEF Falls, Accepted
  <2>3. ASSUME NEW c \in Caller, caller'[c].pc = "drained", caller'[c].gen # 0
        PROVE  Accepted(caller'[c].gen) = {}
    <3>1. CASE caller'[c] = caller[c]  BY <2>3, <3>1 DEF DrainedIsEmpty
    <3>2. CASE caller'[c] # caller[c]
      <4>1. PICK d \in Caller : CallerStep(d)
        BY <3>2 DEF Next, vars, TurnStep, Refuse, Reserve, Send, Withdraw, WorkerStep, Take,
           BeginTurn, Finish, Retire, Shutdown, CommitCurrentDurableTerminal, RequestStop, CloseStep,
           ParentDone, Close, CloseSeal, CloseAwaitProducers, CloseDrain
      <4>2. CASE Drained(d)
        <5>1. CountsKept /\ d = c  BY <1>0, <3>2, <4>2, PcKept DEF Drained
        <5>2. caller'[c].gen = caller[c].gen  BY <5>1 DEF CountsKept
        <5>3. caller[c].gen \in Gen
          BY <1>0, <2>3, <5>2, CallerAt, QueueAssumption DEF Gen
        <5>4. worker[caller[c].gen].pending = 0  BY <2>3, <4>2, <5>1, <5>2 DEF Drained
        <5> QED  BY <5>2, <5>3, <5>4, AcceptedFinite, FS_EmptySet DEF Books, PendingExact
      <4>3. CASE ~ Drained(d)
        <5>1. ASSUME caller'[d].pc # "drained", \A e \in Caller \ {d} : caller'[e] = caller[e]
              PROVE  FALSE
          BY <2>3, <3>2, <5>1
        <5>2. CASE BeginDraftCancellation(d)
          <6>1. caller'[d].pc = "wait" /\ \A e \in Caller \ {d} : caller'[e] = caller[e]
            BY <1>0, <5>2, BeginFacts
          <6> QED  BY <5>1, <6>1
        <5>3. CASE Abandon(d)
          <6>1. /\ caller'[d].pc \in {"producers", "unlock"}
                /\ \A e \in Caller \ {d} : caller'[e] = caller[e]
            BY <1>0, <5>3, AbandonKept
          <6> QED  BY <5>1, <6>1
        <5>4. CASE Release(d) \/ ReleaseOnClose(d) \/ AwaitProducers(d) \/ Unlock(d)
          <6>1. PICK p \in {"unlock", "drain", "over"} : caller' = [caller EXCEPT ![d].pc = p]
            BY <5>4 DEF Release, ReleaseOnClose, AwaitProducers, Unlock
          <6>2. /\ caller'[d].pc = p
                /\ \A e \in Caller \ {d} : caller'[e] = caller[e]
            BY <1>0, <6>1, PcKept
          <6>3. p # "drained"  BY <6>1
          <6> QED  BY <5>1, <6>2, <6>3
        <5>5. CASE Drain(d)
          <6>1. caller' = [caller EXCEPT ![d].pc = "unlock"]  BY <3>2, <5>5 DEF Drain
          <6>2. /\ caller'[d].pc = "unlock"
                /\ \A e \in Caller \ {d} : caller'[e] = caller[e]
            BY <1>0, <6>1, PcKept
          <6> QED  BY <5>1, <6>2
        <5> QED  BY <4>1, <4>3, <5>2, <5>3, <5>4, <5>5 DEF CallerStep
      <4> QED  BY <4>2, <4>3
    <3> QED  BY <3>1, <3>2
  <2>4. \A c \in Caller : caller'[c].pc = "drained" /\ caller'[c].gen # 0 =>
          Accepted(caller[c].gen)' = {}
    <3> SUFFICES ASSUME NEW c \in Caller, NEW g, g = caller'[c].gen,
                        caller'[c].pc = "drained", g # 0
                 PROVE  Accepted(g)' = {}
      BY DEF Accepted
    <3> QED  BY <2>2, <2>3
  <2> QED  BY <2>4 DEF DrainedIsEmpty
<1> QED  BY <1>1, <1>2

-----------------------------------------------------------------------------

LEMMA CountInit == Init => CountInv
<1> SUFFICES ASSUME Init PROVE CountInv  OBVIOUS
<1>1. \A i \in Item : item[i].at = "new" /\ ~ InFlight(i)  BY DEF Init, InFlight
<1>2. \A g \in Gen : worker[g] = NewWorker  BY DEF Init
<1>3. \A g : Accepted(g) = {}  BY <1>1 DEF Accepted
<1>4. answered = {} /\ \A c \in Caller : /\ caller[c].turns = {} /\ caller[c].covered = 0
                                         /\ caller[c].pc = "idle"
  BY DEF Init
<1>5. Books
  <2>1. Made /\ Held /\ Marked  BY <1>1, <1>2, <1>4 DEF Made, Held, Marked, NewWorker
  <2>2. Channelled  BY <1>2 DEF Channelled, NewWorker
  <2>3. PendingExact  BY <1>2, <1>3, FS_EmptySet DEF PendingExact, NewWorker
  <2> QED  BY <2>1, <2>2, <2>3 DEF Books
<1>6. Drainers  BY <1>4 DEF Drainers, Init
<1>7. Barred /\ CoveredExact /\ DrainedIsEmpty
  BY <1>4, FS_EmptySet DEF Barred, CoveredExact, DrainedIsEmpty
<1> QED  BY <1>5, <1>6, <1>7 DEF CountInv

LEMMA CountNext == Inv /\ Inv' /\ CountInv /\ [Next]_vars => CountInv'
<1> SUFFICES ASSUME Inv, Inv', CountInv, [Next]_vars PROVE CountInv'  OBVIOUS
<1>0. TypeOK /\ TypeOK' /\ Running /\ Books /\ Drainers /\ Barred /\ CoveredExact /\ DrainedIsEmpty
  BY DEF Inv, CountInv
<1>1. Books'
  <2>1. ASSUME NEW i \in Item, TurnStep(i) PROVE Books'  BY <1>0, <2>1, TurnBooks
  <2>2. ASSUME NEW g \in Gen, WorkerStep(g) PROVE Books'  BY <1>0, <2>2, WorkerBooks
  <2>3. ASSUME NEW c \in Caller, CallerStep(c) PROVE Books'  BY <1>0, <2>3, CallerBooks
  <2>4. CASE CloseStep \/ RequestStop  BY <1>0, <2>4, CloseBooks
  <2>5. CASE UNCHANGED vars  BY <1>0, <2>5, SameBooks DEF vars
  <2> QED  BY <2>1, <2>2, <2>3, <2>4, <2>5 DEF Next
<1>2. Drainers'  BY <1>0, DrainersKept
<1>3. (\A i \in Item : ~ Reserve(i)) => Falls  BY <1>0, FallsElsewhere
<1>4. Barred'
  <2>1. CASE \E i \in Item : Reserve(i)  BY <1>0, <2>1, BarredReserve
  <2>2. CASE \A i \in Item : ~ Reserve(i)  BY <1>0, <1>3, <2>2, BarredElsewhere
  <2> QED  BY <2>1, <2>2
<1>5. CoveredExact'  BY <1>0, CoveredKept
<1>6. DrainedIsEmpty'  BY <1>0, <1>3, DrainedKept
<1> QED  BY <1>1, <1>2, <1>4, <1>5, <1>6 DEF CountInv

\* pendingCount is in every generation the number of turns counted in and not
\* finished; a barrier reports exactly the accepted turns that have no terminal
\* message, none of which ever gets one; and after a successful Wait nothing the
\* barrier covered is left (turn_queue.go: Enqueue, run, BeginDraftCancellation,
\* CommitCurrentDurableTerminal, releaseDraftCancellation, Close).
THEOREM QueueCounts == Spec => []CountsExact
<1>1. CountInv => CountsExact  BY DEF CountInv, Books, CountsExact
<1> QED  BY <1>1, InvAlways, CountInit, CountNext, PTL DEF Spec
=============================================================================
