----------------------------- MODULE UserMemory -----------------------------
(***************************************************************************)
(* What the agent remembers about its user (reducer.go, agentexec/         *)
(* tool_exec_memory.go, api/memories.go): memories that turns write on the *)
(* ground of a message or an answered question, that the user revises and  *)
(* deletes on the settings page, and that a rewind offers to withdraw.     *)
(*                                                                         *)
(* One draft; every write has a time of its own.  Statements are left out: *)
(* all are taken for the same text, so that a condition which compares no  *)
(* more than the text shows.  Quotes and the shapes of keys and texts are  *)
(* left out too: a request that fails their checks changes nothing.        *)
(***************************************************************************)
EXTENDS Integers, Sequences, FiniteSets

CONSTANTS
    Key,        \* keys, integers for their order
    Limit,      \* UserMemoryLimit
    Entries,    \* how many entries a call may write
    MaxTime,    \* bound on writes
    MaxPosts,
    MaxQuestions

VARIABLES
    now,        \* the time of the last write
    posts,      \* messages with their checkpoint: [at, asked, hidden]
    questions,  \* decisions: [answered, void, root], root the message whose turn asked
    grounds,    \* turns to run, as their grounds, the first of them running
    injected,   \* keys the running turn has in its context
    memories,   \* rows by key
    page,       \* what the settings page shows
    affected    \* what the last rewind offered to withdraw

memoryVars == <<now, posts, questions, grounds, injected, memories, page, affected>>

Message(i) == [kind |-> "user_message", id |-> i]
Decision(q) == [kind |-> "decision_answer", id |-> q]
Quiet == grounds = <<>>
Ground == Head(grounds)
Later(x, y) == IF x > y THEN x ELSE y

\* The message that a ground goes back to, and whether the user still sees it.
Root(g) == IF g.kind = "user_message" THEN g.id ELSE questions[g.id].root
Visible(g) == ~ posts[Root(g)].hidden

MemoryInit ==
    /\ now = 0 /\ posts = <<>> /\ questions = <<>> /\ grounds = <<>>
    /\ injected = {} /\ memories = <<>> /\ page = <<>> /\ affected = {}

Clock == now < MaxTime /\ now' = now + 1

-----------------------------------------------------------------------------
(* The conversation, as far as memories depend on it. *)

\* A message stores with its checkpoint how many questions there were.
Posted == Append(posts, [at |-> now', asked |-> Len(questions), hidden |-> FALSE])
Post ==
    /\ Clock /\ Len(posts) < MaxPosts
    /\ posts' = Posted
    /\ grounds' = Append(grounds, Message(Len(posts) + 1))
    /\ UNCHANGED <<questions, injected, memories, page, affected>>

AskDecision ==
    /\ ~ Quiet /\ Len(questions) < MaxQuestions
    /\ questions' = Append(questions, [answered |-> FALSE, void |-> FALSE, root |-> Root(Ground)])
    /\ UNCHANGED <<now, posts, grounds, injected, memories, page, affected>>
AnswerDecision(q) ==
    /\ ~ questions[q].answered /\ ~ questions[q].void
    /\ questions' = [questions EXCEPT ![q].answered = TRUE]
    /\ grounds' = Append(grounds, Decision(q))
    /\ UNCHANGED <<now, posts, injected, memories, page, affected>>

\* The turn puts the memories into its context; its budget of text is left out.
Inform ==
    /\ ~ Quiet
    /\ injected' = injected \cup DOMAIN memories
    /\ UNCHANGED <<now, posts, questions, grounds, memories, page, affected>>

\* A turn that succeeds marks the memories it was given as used.
Used(keys, at) ==
    [k \in DOMAIN memories |->
        IF k \in keys THEN [memories[k] EXCEPT !.used = at] ELSE memories[k]]
TurnEnds(success) ==
    /\ ~ Quiet
    /\ IF success /\ injected # {}
       THEN Clock /\ memories' = Used(injected, now') ELSE UNCHANGED <<now, memories>>
    /\ grounds' = Tail(grounds)
    /\ injected' = {}
    /\ UNCHANGED <<posts, questions, page, affected>>

-----------------------------------------------------------------------------
(* Writing. *)

\* The rows that go when there are too many: corrections last, then those that
\* were confirmed or used longest ago.
Worth(row) == Later(row.confirmed, row.used)
Cheaper(rows, k, l) ==
    LET late(x) == rows[x].kind = "correction" IN
    \/ ~ late(k) /\ late(l)
    \/ late(k) = late(l) /\ Worth(rows[k]) < Worth(rows[l])
    \/ late(k) = late(l) /\ Worth(rows[k]) = Worth(rows[l]) /\ k < l
Restricted(rows, keys) == [k \in keys |-> rows[k]]
WithinLimit(rows) ==
    Restricted(rows, {k \in DOMAIN rows :
        Cardinality({l \in DOMAIN rows : Cheaper(rows, k, l)}) < Limit})

\* An entry overwrites the row of its key, which keeps its time of creation and
\* the mark of a revision.
Written(kind, k, at) ==
    IF k \in DOMAIN memories
    THEN [memories[k] EXCEPT !.kind = kind, !.ground = Ground, !.confirmed = at, !.author = "agent"]
    ELSE [kind |-> kind, ground |-> Ground, first |-> Ground, created |-> at,
          confirmed |-> at, used |-> 0, revised |-> 0, author |-> "agent"]
\* memory.set: the ground of the running turn must be a message of the user or
\* an answered question.
Evidence(g) == IF g.kind = "user_message" THEN TRUE ELSE questions[g.id].answered
Set(keys, kind) ==
    /\ ~ Quiet /\ Evidence(Ground) /\ Clock
    /\ LET kept == DOMAIN memories \ keys IN
       memories' = WithinLimit([k \in kept \cup keys |->
                        IF k \in keys THEN Written(kind, k, now') ELSE memories[k]])
    /\ UNCHANGED <<posts, questions, grounds, injected, page, affected>>

Drop(keys) == memories' = Restricted(memories, DOMAIN memories \ keys)
\* memory.remove by the agent.
Forget(k) ==
    /\ ~ Quiet /\ Evidence(Ground) /\ k \in DOMAIN memories /\ Drop({k})
    /\ UNCHANGED <<now, posts, questions, grounds, injected, page, affected>>

-----------------------------------------------------------------------------
(* The settings page. *)

Look ==
    /\ page' = memories
    /\ UNCHANGED <<now, posts, questions, grounds, injected, memories, affected>>
Revise(k) ==
    /\ k \in DOMAIN memories /\ Clock
    /\ memories' =
         [memories EXCEPT ![k].confirmed = now', ![k].revised = now', ![k].author = "user"]
    /\ UNCHANGED <<posts, questions, grounds, injected, page, affected>>
Delete(k) ==
    /\ k \in DOMAIN memories /\ Drop({k})
    /\ UNCHANGED <<now, posts, questions, grounds, injected, page, affected>>
ClearAll ==
    /\ memories # <<>> /\ Drop(DOMAIN memories)
    /\ UNCHANGED <<now, posts, questions, grounds, injected, page, affected>>

\* A withdrawal deletes the row that the page has shown, and no other: the row
\* must still be of that kind and text, made, confirmed and revised then.
\* Mutant: when it was confirmed is not compared.
SameMade(row, shown) ==
    /\ row.kind = shown.kind /\ row.created = shown.created
    /\ row.revised = shown.revised
SameRow(row, shown) ==
    /\ row.kind = shown.kind /\ row.created = shown.created
    /\ row.confirmed = shown.confirmed /\ row.revised = shown.revised
Withdraw(k) ==
    /\ k \in affected \cap DOMAIN page
    /\ k \in DOMAIN memories /\ SameRow(memories[k], page[k])
    /\ Drop({k})
    /\ UNCHANGED <<now, posts, questions, grounds, injected, page, affected>>

-----------------------------------------------------------------------------
(* Rewinding to a message, which is posted again. *)

\* What a rewind to message i offers to withdraw: rows made since the message
\* whose ground is hidden now or a question asked after its checkpoint.
collectRewindAffectedMemories(i, shown) ==
    {k \in DOMAIN memories :
        /\ memories[k].created >= posts[i].at
        /\ LET g == memories[k].ground IN
           IF g.kind = "user_message" THEN shown[g.id].hidden ELSE g.id > posts[i].asked}
Rewind(i) ==
    /\ ~ posts[i].hidden /\ Clock /\ Len(posts) < MaxPosts
    /\ LET shown == [j \in DOMAIN posts |->
                        [posts[j] EXCEPT !.hidden = @ \/ j >= i]]
       IN  /\ posts' = Append(shown, [at |-> now', asked |-> Len(questions), hidden |-> FALSE])
           /\ affected' = collectRewindAffectedMemories(i, shown)
    /\ questions' = [q \in DOMAIN questions |->
                        [questions[q] EXCEPT
                           !.void = @ \/ (q > posts[i].asked /\ ~ questions[q].answered)]]
    /\ grounds' = <<Message(Len(posts) + 1)>>
    /\ injected' = {}
    /\ UNCHANGED <<memories, page>>

MemoryNext ==
    \/ Post \/ AskDecision \/ Inform \/ \E q \in DOMAIN questions : AnswerDecision(q)
    \/ \E success \in BOOLEAN : TurnEnds(success)
    \/ \E keys \in SUBSET Key \ {{}}, kind \in {"correction", "habit"} :
         Cardinality(keys) <= Entries /\ Set(keys, kind)
    \/ \E k \in Key : Forget(k) \/ Revise(k) \/ Delete(k) \/ Withdraw(k)
    \/ Look \/ ClearAll
    \/ \E i \in DOMAIN posts : Rewind(i)
MemorySpec == MemoryInit /\ [][MemoryNext]_memoryVars

-----------------------------------------------------------------------------
(* Properties. *)

\* A rewind leaves no memory unmentioned whose first and whose present ground it
\* has just taken back, and mentions none that rests on a message still there
\* (collectRewindAffectedMemories).  A question asked by a turn that ran on while
\* the message was queued may be mentioned although its own message stays.
RewoundMentioned ==
    [][\A k \in DOMAIN memories :
         LET m == memories[k] IN
         (\E i \in DOMAIN posts : posts'[i].hidden # posts[i].hidden)
         => /\ (Visible(m.first) /\ ~ Visible(m.first)' /\ ~ Visible(m.ground)')
                => k \in affected'
            /\ (k \in affected' /\ m.ground.kind = "user_message") => ~ Visible(m.ground)']_memoryVars

\* A withdrawal takes away only what the page has shown: since then neither the
\* agent nor the user has written the memory (conditionallyRemoveUserMemory).
WithdrawsWhatWasSeen ==
    [][\A k \in Key : Withdraw(k) =>
         /\ memories[k].author = page[k].author /\ memories[k].ground = page[k].ground
         /\ memories[k].confirmed = page[k].confirmed]_memoryVars

\* What is withdrawn after a rewind is what the rewind took back and what the
\* user has seen of it.
MemoriesSound == RewoundMentioned /\ WithdrawsWhatWasSeen
=============================================================================
