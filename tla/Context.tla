------------------------------ MODULE Context ------------------------------
(***************************************************************************)
(* What the model is told of a conversation (agent/context_manager.go and  *)
(* modelMessages of agent/service.go): the messages of the draft after the *)
(* boundary of its context checkpoint, and the summary that stands for     *)
(* those up to it.  A history that is too long is summarised before the    *)
(* turn and the context built again.                                       *)
(*                                                                         *)
(* A message is its place in the table, that is, its rowid.  A history is  *)
(* long when it has more than ItemLimit items; the limit on its tokens is  *)
(* another such measure, and the budget of a summary, which leaves out the *)
(* oldest items, is not modelled.  The state of the world in the context   *)
(* is in WorldState; here it shows when it changes so much that a new      *)
(* window begins.                                                          *)
(***************************************************************************)
EXTENDS Integers, Sequences, FiniteSets

CONSTANTS
    ItemLimit,      \* contextHistoryItemLimit
    MaxMessages,
    MaxClears       \* bounds

VARIABLES
    messages,   \* rows: [kind, hidden]
    tail,       \* messages_tail_ref: the reset after which the context begins, 0 without
    checkpoint, \* [through, covered]: its boundary and what its summary was made from
    question,   \* a question waits for its answer, one at a time
    queue,      \* turns accepted: the place of a user's message, 0 for an answer
    turn,       \* the turn that runs
    clearing,   \* ClearConversation between its look at the queue and its write
    clears

contextVars == <<messages, tail, checkpoint, question, queue, turn, clearing, clears>>

Row(kind) == [kind |-> kind, hidden |-> FALSE]
NoTurn == [pc |-> "none"]
NoCheckpoint == [through |-> 0, covered |-> {}]
Answer == 0

ContextInit ==
    /\ messages = <<>> /\ tail = 0 /\ checkpoint = NoCheckpoint
    /\ question = FALSE /\ queue = <<>> /\ turn = NoTurn
    /\ clearing = "no" /\ clears = 0

-----------------------------------------------------------------------------
(* Building the context. *)

\* The rows after the boundary and since the last reset that no rewind has hidden.
ListMessagesAfter(through) ==
    {i \in DOMAIN messages : ~ messages[i].hidden /\ i >= tail /\ i > through}

\* A user's message after the current one is still in the queue; a turn that
\* goes on after an answer has no current message.
selectContextRows(rows, current) ==
    IF current \notin rows THEN rows
    ELSE {i \in rows : messages[i].kind = "user" => i <= current}
\* Failures and resets are not told.
normalizeContextHistory(rows) == {i \in rows : messages[i].kind \in {"user", "reply"}}
History(current, through) ==
    normalizeContextHistory(selectContextRows(ListMessagesAfter(through), current))
\* A history has the order of its rows, but the current message is moved to the
\* end: these come before it.
moveCurrentUserToHistoryTail(history, current) == history \ {current}

NeedsCompaction(history) == Cardinality(history) > ItemLimit

\* A window that begins anew keeps the boundary and the summary.
Rebased(point) == point

Took(item, history, covered, pc) ==
    [pc |-> pc, item |-> item, history |-> history, covered |-> covered]
\* The first build: the state of the world may be too far from its reference.
Begin(rebase) ==
    /\ turn = NoTurn /\ queue # <<>>
    /\ queue' = Tail(queue)
    /\ checkpoint' = IF rebase THEN Rebased(checkpoint) ELSE checkpoint
    /\ LET item == Head(queue)
           history == History(item, checkpoint.through)
       IN  turn' = Took(item, history, checkpoint'.covered,
                        IF NeedsCompaction(history) THEN "summarising" ELSE "told")
    /\ UNCHANGED <<messages, tail, question, clearing, clears>>

\* CompactionSource: all but the user's messages at the end of the history.
Compacted(history, current) ==
    {i \in moveCurrentUserToHistoryTail(history, current) :
        \E j \in history : i <= j /\ messages[j].kind # "user"}
Last(rows) == CHOOSE i \in rows : \A j \in rows : j <= i
\* Mutant: the boundary is the message after the last one of the summary.
ReplacedLate(point, compacted) ==
    [through |-> Last(compacted) + 1, covered |-> point.covered \cup compacted]
Replaced(point, compacted) ==
    [through |-> Last(compacted), covered |-> point.covered \cup compacted]
\* contextSummary asks the model or falls back; ReplaceHistory stores the summary
\* of the context that was built before, whatever the checkpoint is by now.
Compact ==
    /\ turn.pc = "summarising"
    /\ checkpoint' =
         LET compacted == Compacted(turn.history, turn.item) IN
         IF compacted = {} THEN checkpoint
         ELSE Replaced([covered |-> turn.covered], compacted)
    /\ turn' = [turn EXCEPT !.pc = "again"]
    /\ UNCHANGED <<messages, tail, question, queue, clearing, clears>>
BuildAgain ==
    /\ turn.pc = "again"
    /\ turn' = Took(turn.item, History(turn.item, checkpoint.through), checkpoint.covered, "told")
    /\ UNCHANGED <<messages, tail, checkpoint, question, queue, clearing, clears>>

-----------------------------------------------------------------------------
(* The conversation. *)

PostMessage ==
    /\ Len(messages) < MaxMessages
    /\ messages' = Append(messages, Row("user"))
    /\ queue' = Append(queue, Len(messages) + 1)
    /\ UNCHANGED <<tail, checkpoint, question, turn, clearing, clears>>
\* The turn ends with a reply, with a message of its failure, or cancelled without any.
EndTurn ==
    /\ turn # NoTurn
    /\ turn' = NoTurn
    /\ \/ UNCHANGED messages
       \/ /\ Len(messages) < MaxMessages
          /\ \/ turn.pc = "told" /\ messages' = Append(messages, Row("reply"))
             \/ messages' = Append(messages, Row("failure"))
    /\ UNCHANGED <<tail, checkpoint, question, queue, clearing, clears>>
\* A question changes the draft, and a clear that has read the draft before fails.
\* Bound: one question, or its answer in the queue, at a time.
Ask ==
    /\ turn.pc = "told" /\ ~ question /\ \A i \in DOMAIN queue : queue[i] # Answer
    /\ question' = TRUE
    /\ clearing' = IF clearing = "fresh" THEN "stale" ELSE clearing
    /\ UNCHANGED <<messages, tail, checkpoint, queue, turn, clears>>
AnswerQuestion ==
    /\ question
    /\ question' = FALSE
    /\ queue' = Append(queue, Answer)
    /\ clearing' = IF clearing = "fresh" THEN "stale" ELSE clearing
    /\ UNCHANGED <<messages, tail, checkpoint, turn, clears>>

ClearIdle ==
    /\ clearing = "no" /\ turn = NoTurn /\ queue = <<>> /\ clears < MaxClears
    /\ clearing' = "fresh" /\ clears' = clears + 1
    /\ UNCHANGED <<messages, tail, checkpoint, question, queue, turn>>
ClearCommit ==
    /\ clearing # "no"
    /\ IF clearing = "fresh"
       THEN /\ Len(messages) < MaxMessages
            /\ messages' = Append(messages, Row("reset"))
            /\ tail' = Len(messages) + 1
            /\ checkpoint' = NoCheckpoint
            /\ question' = FALSE
       ELSE UNCHANGED <<messages, tail, checkpoint, question>>
    /\ clearing' = "no"
    /\ UNCHANGED <<queue, turn, clears>>

\* A message is edited and posted again: turns are cancelled, the messages since
\* then hidden, and the checkpoint goes.
AfterRewind == NoCheckpoint
Resend(m) ==
    /\ messages[m].kind = "user" /\ ~ messages[m].hidden /\ Len(messages) < MaxMessages
    /\ messages' = Append([i \in DOMAIN messages |->
                              [messages[i] EXCEPT !.hidden = @ \/ i >= m]], Row("user"))
    /\ tail' = IF tail >= m THEN 0 ELSE tail
    /\ checkpoint' = AfterRewind
    /\ question' = FALSE
    /\ queue' = <<Len(messages) + 1>>
    /\ turn' = NoTurn
    /\ clearing' = IF clearing = "fresh" THEN "stale" ELSE clearing
    /\ UNCHANGED clears

ContextNext ==
    \/ PostMessage \/ (\E rebase \in BOOLEAN : Begin(rebase)) \/ Compact \/ BuildAgain
    \/ EndTurn \/ Ask \/ AnswerQuestion \/ ClearIdle \/ ClearCommit
    \/ \E m \in DOMAIN messages : Resend(m)
ContextSpec == ContextInit /\ [][ContextNext]_contextVars

-----------------------------------------------------------------------------
(* Properties. *)

Told == turn.pc = "told"

\* The model knows every reply of the conversation, from the history or from the
\* summary and never from both, however often the context was compacted, begun
\* anew and built while other messages came in (build and ReplaceHistory).
RepliesOnce ==
    Told => \A i \in DOMAIN messages :
        (messages[i].kind = "reply" /\ ~ messages[i].hidden /\ i >= tail)
        => (i \in turn.covered) # (i \in turn.history)

\* What was taken back by a rewind is not told again, in a summary either
\* (applyConversationRewind).
RewoundForgotten ==
    LET told == IF turn = NoTurn THEN {} ELSE turn.covered \cup turn.history IN
    \A i \in checkpoint.covered \cup told : ~ messages[i].hidden

\* The message a turn is to carry out stays outside the summary and is told
\* (context_manager.go, CompactionSource).
InstructionTold == (Told /\ turn.item # Answer) => turn.item \in turn.history

\* The model is told the conversation that is shown, each part of it once.
ToldOnce == RepliesOnce /\ RewoundForgotten
=============================================================================
