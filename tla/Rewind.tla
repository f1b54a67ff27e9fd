------------------------------- MODULE Rewind -------------------------------
(***************************************************************************)
(* The conversation of one draft and what "edit and resend" takes back:    *)
(* messages and their checkpoints, timeline versions, decision cards,      *)
(* preview jobs, the start of the model's context, and the handlers that   *)
(* change them (api/resend.go, api/decisions.go, api/conversation.go and   *)
(* reducer/rewind.go).                                                      *)
(*                                                                         *)
(* A row's position in its sequence is its rowid.  A handler reads the     *)
(* draft's state_version and the reducer refuses its write when the        *)
(* version has changed: `fresh` says that no write touched the draft since *)
(* the read.  The turn queue is TurnQueue reduced to what a barrier does:  *)
(* it refuses new turns, drops the waiting ones and stops the running one. *)
(***************************************************************************)
EXTENDS Integers, Sequences, FiniteSets

CONSTANTS
  Handler,          \* requests that can be under way at once
  Key,              \* idempotency keys of resend requests
  MaxMessages, MaxVersions, MaxDecisions, MaxRenders, MaxCalls,   \* bounds of the instance
  MaxCheckpoints    \* maxRewindCheckpoints

\* NULL: no version, card, message, key or handler.
Nothing == 0

ASSUME RewindAssumption ==
  /\ Nothing \notin Handler
  /\ {MaxMessages, MaxVersions, MaxDecisions, MaxRenders, MaxCalls} \subseteq Nat
  /\ MaxCheckpoints \in Nat \ {0}

VARIABLES
  messages,     \* rows of `messages`: role, the key that created it, what X is compared with
  visible,      \* the messages whose rewound_at is NULL
  checkpoints,  \* rows of rewind_checkpoints with their rewind_checkpoint_messages
  versions,     \* rows of timeline_versions
  decisions,    \* rows of `decisions`
  renders,      \* version -> the render_preview job of that version
  draft,        \* the row of the draft
  restores,     \* rewind_restore_requests: key -> what it produced
  turns,        \* turns waiting in the queue
  turn,         \* the turn that runs
  leases,       \* cancellation barriers that are held
  owner,        \* rewindDrain: the resend that holds one
  handed,       \* turns whose rows are stored and that are not yet in the queue
  overtaken,    \* messages whose turn entered the queue when they were hidden already
  call,         \* handler -> its locals
  calls         \* requests so far: a bound of the instance

rows == <<messages, visible, checkpoints, versions, decisions, renders, draft, restores>>
queue == <<turns, turn, leases, owner, handed, overtaken>>
vars == <<rows, queue, call, calls>>

Idle == [pc |-> "idle"]

\* A request arrives at an idle handler.
Arrive(h, request) ==
  /\ call[h] = Idle /\ calls < MaxCalls
  /\ call' = [call EXCEPT ![h] = request] /\ calls' = calls + 1

NoTurn == [kind |-> "none", id |-> 0]
UserTurn(m) == [kind |-> "user", id |-> m]
AnswerTurn(d) == [kind |-> "answer", id |-> d]

Document(v) == IF v = Nothing THEN Nothing ELSE versions[v].document

\* The versions a version was made from, itself included: what every set of versions holds that
\* holds v and, with a version, its parent.
ClosedUpwards(S) == \A n \in S \ {Nothing} : versions[n].parent \in S
Lineage(v) ==
  {n \in 1..Len(versions) :
     \A S \in SUBSET (0..Len(versions)) : v \in S /\ ClosedUpwards(S) => n \in S}

\* state.touch: the draft's state_version goes up when the transaction commits, and a handler that
\* holds the one it has read is late.
Touched(c) ==
  [h \in Handler |-> IF c[h].pc \in {"clearing", "applying"} THEN [c[h] EXCEPT !.fresh = FALSE] ELSE c[h]]

\* recordRewindCheckpoint: what is visible, the anchor left out, and the newest MaxCheckpoints stay.
Newest(list) == SubSeq(list, IF Len(list) > MaxCheckpoints THEN Len(list) - MaxCheckpoints + 1 ELSE 1, Len(list))
RecordedWithAnchor(list, kind, anchor, version, shown) ==
  Newest(Append(list, [kind |-> kind, anchor |-> anchor, version |-> version,
                       boundary |-> Len(decisions), shown |-> shown]))
Recorded(list, kind, anchor, version, shown) ==
  Newest(Append(list, [kind |-> kind, anchor |-> anchor, version |-> version,
                       boundary |-> Len(decisions), shown |-> shown \ {anchor}]))

CheckpointsOf(m) == {i \in 1..Len(checkpoints) : checkpoints[i].kind = "user_message" /\ checkpoints[i].anchor = m}
CheckpointOf(m) == checkpoints[CHOOSE i \in CheckpointsOf(m) : TRUE]

Init ==
  /\ messages = <<>> /\ visible = {} /\ checkpoints = <<>>
  /\ versions = <<>> /\ decisions = <<>> /\ renders = <<>>
  /\ draft = [current |-> Nothing, pending |-> Nothing, preview |-> Nothing, tail |-> Nothing]
  /\ restores = <<>>
  /\ turns = <<>> /\ turn = NoTurn /\ leases = {} /\ owner = Nothing
  /\ handed = {} /\ overtaken = {}
  /\ call = [h \in Handler |-> Idle] /\ calls = 0

-----------------------------------------------------------------------------
(* Turns *)

\* A message row; `before` and `document` are what the page showed when it was sent.
Message(role, key) ==
  [role |-> role, key |-> key, before |-> visible, document |-> Document(draft.current)]

\* POST messages: the row and its checkpoint in one transaction.  CanEnqueue was asked before, so
\* a barrier may have gone up in between.
PostMessage ==
  LET m == Len(messages) + 1
  IN  /\ m <= MaxMessages
      /\ messages' = Append(messages, Message("user", Nothing))
      /\ visible' = visible \cup {m}
      /\ checkpoints' = Recorded(checkpoints, "user_message", m, draft.current, visible')
      /\ handed' = handed \cup {UserTurn(m)}
      /\ UNCHANGED <<versions, decisions, renders, draft, restores,
                     turns, turn, leases, owner, overtaken, call, calls>>

Enqueued(i) ==
  /\ turns' = Append(turns, i)
  /\ overtaken' = IF i.kind = "user" /\ i.id \notin visible THEN overtaken \cup {i.id} ELSE overtaken

\* The handler hands the turn over; a barrier makes the queue refuse it (503).
HandOver(i) ==
  /\ i \in handed
  /\ IF leases = {} THEN Enqueued(i) ELSE UNCHANGED <<turns, overtaken>>
  /\ handed' = handed \ {i}
  /\ UNCHANGED <<rows, turn, leases, owner, call, calls>>

Take ==
  /\ turn = NoTurn /\ turns # <<>>
  /\ turn' = Head(turns) /\ turns' = Tail(turns)
  /\ UNCHANGED <<rows, leases, owner, handed, overtaken, call, calls>>

\* TimelineVersionCreated, by a tool of the turn or by the user's own edit.  A turn that has been
\* stopped may still see its last transaction commit.
Edit ==
  LET v == Len(versions) + 1
  IN  /\ v <= MaxVersions
      /\ versions' = Append(versions, [parent |-> draft.current, document |-> v])
      /\ draft' = [draft EXCEPT !.current = v]
      /\ call' = Touched(call)
      /\ UNCHANGED <<messages, visible, checkpoints, decisions, renders, restores, queue, calls>>

\* enqueuePreviewRender: an open or finished job of the version is found and used again; a new one
\* is enqueued in one transaction with TimelineValidated, which touches the draft.
RequestPreview ==
  /\ turn # NoTurn
  /\ draft.current # Nothing
  /\ IF draft.current \in DOMAIN renders THEN renders[draft.current] = "cancelled"
     ELSE Cardinality(DOMAIN renders) < MaxRenders
  /\ renders' = [v \in DOMAIN renders \cup {draft.current} |->
                   IF v = draft.current THEN "open" ELSE renders[v]]
  /\ call' = Touched(call)
  /\ UNCHANGED <<messages, visible, checkpoints, versions, decisions, draft, restores, queue, calls>>

\* applyPreviewRendered: the pointer moves only if the version is still the current one.
Rendered(v) ==
  IF v = draft.current THEN [draft EXCEPT !.preview = v] ELSE draft

\* The worker finishes a render; its claim is gone once the job is cancelled.
FinishRender(v) ==
  /\ v \in DOMAIN renders /\ renders[v] = "open"
  /\ renders' = [renders EXCEPT ![v] = "done"]
  /\ draft' = Rendered(v)
  /\ call' = Touched(call)
  /\ UNCHANGED <<messages, visible, checkpoints, versions, decisions, restores, queue, calls>>

\* interaction.ask_user: a blocking card becomes the draft's pending decision and ends the turn;
\* one that does not block does not touch the draft.
Asked(d, blocking) == IF blocking THEN [draft EXCEPT !.pending = d] ELSE draft

Ask(blocking) ==
  LET d == Len(decisions) + 1
  IN  /\ turn # NoTurn /\ d <= MaxDecisions
      /\ decisions' = Append(decisions, [status |-> "pending", blocking |-> blocking,
                                         by |-> IF turn.kind = "user" THEN turn.id ELSE Nothing])
      /\ draft' = Asked(d, blocking)
      /\ turn' = IF blocking THEN NoTurn ELSE turn
      /\ call' = IF blocking THEN Touched(call) ELSE call
      /\ UNCHANGED <<messages, visible, checkpoints, versions, renders, restores,
                     turns, leases, owner, handed, overtaken, calls>>

\* commitFinalReply: the terminal of the turn is a message of its own.
Reply ==
  /\ turn # NoTurn /\ Len(messages) < MaxMessages
  /\ messages' = Append(messages, Message("reply", Nothing))
  /\ visible' = visible \cup {Len(messages) + 1}
  /\ turn' = NoTurn
  /\ UNCHANGED <<checkpoints, versions, decisions, renders, draft, restores,
                 turns, leases, owner, handed, overtaken, call, calls>>

\* A turn that was cancelled, or that failed to store its terminal, leaves no message.
EndTurn ==
  /\ turn # NoTurn
  /\ turn' = NoTurn
  /\ UNCHANGED <<rows, turns, leases, owner, handed, overtaken, call, calls>>

-----------------------------------------------------------------------------
(* Answering a decision, clearing the context *)

Pending(d) == d \in 1..Len(decisions) /\ decisions[d].status = "pending"

\* applyDecisionAnswered: only a card that is still pending; the pointer goes if it shows this one.
Answered(d) == [draft EXCEPT !.pending = IF @ = d THEN Nothing ELSE @]

\* The handler reads the card and the draft and writes under the draft's version: the write fails
\* unless the draft is still as it was read, so the reads and the write are one step.
Answer(d) ==
  /\ Pending(d) /\ calls < MaxCalls
  /\ calls' = calls + 1
  /\ decisions' = [decisions EXCEPT ![d].status = "answered"]
  /\ draft' = Answered(d)
  /\ handed' = handed \cup {AnswerTurn(d)}
  /\ call' = Touched(call)
  /\ UNCHANGED <<messages, visible, checkpoints, versions, renders, restores,
                 turns, turn, leases, owner, overtaken>>

\* ClearConversation asks IsBusy after it has read the draft, and writes later.
ClearIdle(h) ==
  /\ turn = NoTurn /\ turns = <<>>
  /\ Arrive(h, [pc |-> "clearing", fresh |-> TRUE])
  /\ UNCHANGED <<rows, queue>>

\* applyConversationContextCleared, with the context_reset message of the same transaction.
Cleared(list) ==
  [i \in DOMAIN list |-> IF list[i].status = "pending" THEN [list[i] EXCEPT !.status = "cancelled"] ELSE list[i]]

ClearCommit(h) ==
  LET m == Len(messages) + 1
  IN  /\ call[h].pc = "clearing" /\ (call[h].fresh => m <= MaxMessages)
      /\ IF call[h].fresh
         THEN /\ messages' = Append(messages, Message("reset", Nothing))
              /\ visible' = visible \cup {m}
              /\ decisions' = Cleared(decisions)
              /\ draft' = [draft EXCEPT !.tail = m, !.pending = Nothing]
              /\ call' = Touched([call EXCEPT ![h] = Idle])
         ELSE /\ call' = [call EXCEPT ![h] = Idle]
              /\ UNCHANGED <<messages, visible, decisions, draft>>
      /\ UNCHANGED <<checkpoints, versions, renders, restores, queue, calls>>

-----------------------------------------------------------------------------
(* Edit and resend *)

\* The request with key k asks to replace message m.  Before anything is stopped it looks for an
\* earlier result of the key, for the checkpoint, and whether the message can be edited.
Resend(h, k, m) ==
  /\ k \notin DOMAIN restores
  /\ CheckpointsOf(m) # {}
  /\ m \in visible
  /\ Arrive(h, [pc |-> "resend", key |-> k, target |-> m])
  /\ UNCHANGED <<rows, queue>>

\* beginRewindCancellation: one resend of a draft at a time; the queue's barrier goes up.
ResendBarrier(h) ==
  /\ call[h].pc = "resend"
  /\ IF owner # Nothing
     THEN /\ call' = [call EXCEPT ![h] = Idle]
          /\ UNCHANGED <<turns, leases, owner>>
     ELSE /\ owner' = h
          /\ leases' = leases \cup {h}
          /\ turns' = <<>>
          /\ call' = [call EXCEPT ![h].pc = "waiting"]
  /\ UNCHANGED <<rows, turn, handed, overtaken, calls>>

ReleaseRewind(h) == leases' = leases \ {h} /\ owner' = Nothing

\* barrier.Wait gives up after half a second; the lease goes back when the turn has returned.
ResendTimeout(h) ==
  /\ call[h].pc = "waiting" /\ turn # NoTurn
  /\ call' = [call EXCEPT ![h].pc = "draining"]
  /\ UNCHANGED <<rows, queue, calls>>

ResendDrained(h) ==
  /\ call[h].pc = "draining" /\ turn = NoTurn
  /\ ReleaseRewind(h)
  /\ call' = [call EXCEPT ![h] = Idle]
  /\ UNCHANGED <<rows, turns, turn, handed, overtaken, calls>>

\* The barrier is drained: the open jobs, the draft and the number of the new version are read.
ResendRead(h) ==
  /\ call[h].pc = "waiting" /\ turn = NoTurn
  /\ call' = [call EXCEPT ![h] = [pc |-> "applying", key |-> @.key, target |-> @.target, fresh |-> TRUE,
                                  jobs |-> {v \in DOMAIN renders : renders[v] = "open"},
                                  version |-> Len(versions) + 1]]
  /\ UNCHANGED <<rows, queue, calls>>

\* What makes the transaction fail: the key is there, a job has ended, the draft has changed, the
\* checkpoint has gone.
CanRewind(c) ==
  /\ c.key \notin DOMAIN restores
  /\ \A v \in c.jobs : renders[v] = "open"
  /\ c.fresh
  /\ CheckpointsOf(c.target) # {}

\* invalidateDecisionsAfterCheckpoint.
Invalidated(list, boundary) ==
  [i \in DOMAIN list |-> IF i > boundary /\ list[i].status = "pending"
                         THEN [list[i] EXCEPT !.status = "cancelled"] ELSE list[i]]

\* The timeline half of applyTimelineRestored: a copy of the old version becomes a new one.
RestoredVersions(point, v) ==
  IF point.version = Nothing THEN versions
  ELSE Append(versions, [parent |-> point.version, document |-> Document(point.version)])

Dropped(point) == {d \in 1..Len(decisions) : d > point.boundary /\ decisions[d].status # "answered"}
RestoredDraftPreview(point, v) ==
  [draft EXCEPT !.current = IF point.version = Nothing THEN @ ELSE v,
                !.tail = IF @ \in point.shown THEN @ ELSE Nothing,
                !.pending = IF @ \in Dropped(point) THEN Nothing ELSE @]
RestoredDraft(point, v) ==
  [draft EXCEPT !.current = IF point.version = Nothing THEN @ ELSE v,
                !.preview = IF point.version = Nothing THEN @ ELSE Nothing,
                !.tail = IF @ \in point.shown THEN @ ELSE Nothing,
                !.pending = IF @ \in Dropped(point) THEN Nothing ELSE @]

\* applyConversationRewind hides every message and shows the checkpoint's again.
ShownAfterRemoval(point) == visible \ {point.anchor}
ShownAfter(point) == point.shown

\* X' starts from what X started from; without a timeline at X the current one stays.
Rewritten(c) ==
  LET x == messages[c.target]
  IN  [Message("user", c.key) EXCEPT !.before = x.before,
         !.document = IF x.document = Nothing THEN Document(draft.current) ELSE x.document]

\* applyResend: jobs, timeline, conversation, decisions, the restore checkpoint and the new message
\* X' with its own checkpoint are one transaction.
Apply(h) ==
  LET c == call[h]
      point == CheckpointOf(c.target)
      new == Len(messages) + 1
      after == RestoredDraft(point, c.version)
      restore == Recorded(checkpoints, "restore", point.anchor, after.current, point.shown)
  IN  /\ new <= MaxMessages /\ (point.version = Nothing \/ c.version <= MaxVersions)
      /\ renders' = [v \in DOMAIN renders |-> IF v \in c.jobs THEN "cancelled" ELSE renders[v]]
      /\ versions' = RestoredVersions(point, c.version)
      /\ draft' = after
      /\ decisions' = Invalidated(decisions, point.boundary)
      /\ messages' = Append(messages, Rewritten(c))
      /\ visible' = ShownAfter(point) \cup {new}
      /\ checkpoints' = Recorded(restore, "user_message", new, after.current, visible')
      /\ restores' = [k \in DOMAIN restores \cup {c.key} |->
                        IF k = c.key THEN [target |-> c.target, message |-> new] ELSE restores[k]]
      /\ call' = Touched([call EXCEPT ![h] = [pc |-> "done", message |-> new]])
      /\ UNCHANGED <<queue, calls>>

ResendApply(h) == call[h].pc = "applying" /\ CanRewind(call[h]) /\ Apply(h)

\* ensureResendTurnEnqueued: no message but the user's own was stored after X'.
NoOutputAfter(m) == \A i \in m + 1 .. Len(messages) : messages[i].role = "user"

\* The transaction fails and the barrier goes back; a duplicate key is answered like a replay.
ResendRefused(h) ==
  /\ call[h].pc = "applying" /\ ~CanRewind(call[h])
  /\ ReleaseRewind(h)
  /\ call' = [call EXCEPT ![h] = IF /\ @.key \in DOMAIN restores /\ restores[@.key].target = @.target
                                    /\ NoOutputAfter(restores[@.key].message)
                                 THEN [pc |-> "replay", message |-> restores[@.key].message] ELSE Idle]
  /\ UNCHANGED <<rows, turns, turn, handed, overtaken, calls>>

\* The barrier goes back before X' is handed to the queue.
ResendRelease(h) ==
  /\ call[h].pc = "done"
  /\ ReleaseRewind(h)
  /\ handed' = handed \cup {UserTurn(call[h].message)}
  /\ call' = [call EXCEPT ![h] = Idle]
  /\ UNCHANGED <<rows, turns, turn, overtaken, calls>>

\* The same key and message again: the stored result, and X' is handed over once more if no turn
\* has left a message after it.
Replay(h, k, m) ==
  /\ k \in DOMAIN restores /\ restores[k].target = m
  /\ NoOutputAfter(restores[k].message)
  /\ Arrive(h, [pc |-> "replay", message |-> restores[k].message])
  /\ UNCHANGED <<rows, queue>>

\* EnqueueUserMessageIfIdle: only when nothing is waiting or running.
ReplayHandOver(h) ==
  /\ call[h].pc = "replay"
  /\ IF leases = {} /\ turn = NoTurn /\ turns = <<>>
     THEN Enqueued(UserTurn(call[h].message)) ELSE UNCHANGED <<turns, overtaken>>
  /\ call' = [call EXCEPT ![h] = Idle]
  /\ UNCHANGED <<rows, turn, leases, owner, handed, calls>>

-----------------------------------------------------------------------------
Next ==
  \/ PostMessage \/ Take \/ Edit \/ RequestPreview \/ Reply \/ EndTurn
  \/ \E i \in handed : HandOver(i)
  \/ \E v \in DOMAIN renders : FinishRender(v)
  \/ \E blocking \in BOOLEAN : Ask(blocking)
  \/ \E d \in 1..Len(decisions) : Answer(d)
  \/ \E h \in Handler :
       \/ ClearIdle(h) \/ ClearCommit(h)
       \/ \E k \in Key, m \in 1..Len(messages) : Resend(h, k, m) \/ Replay(h, k, m)
       \/ ResendBarrier(h) \/ ResendTimeout(h) \/ ResendDrained(h) \/ ResendRead(h)
       \/ ResendApply(h) \/ ResendRefused(h) \/ ResendRelease(h) \/ ReplayHandOver(h)

Spec == Init /\ [][Next]_vars

-----------------------------------------------------------------------------
(* Properties *)

Turn == [kind : {"none", "user", "answer"}, id : Nat]
MessageRow == [role : {"user", "reply", "reset"}, key : Key \cup {Nothing},
               before : SUBSET Nat, document : Nat]
CheckpointRow == [kind : {"user_message", "restore"}, anchor : Nat, version : Nat,
                  boundary : Nat, shown : SUBSET Nat]
VersionRow == [parent : Nat, document : Nat]
DecisionRow == [status : {"pending", "answered", "cancelled"}, blocking : BOOLEAN, by : Nat]
DraftRow == [current : Nat, pending : Nat, preview : Nat, tail : Nat]

Clearing == [pc : {"clearing"}, fresh : BOOLEAN]
Asking   == [pc : {"resend", "waiting", "draining"}, key : Key, target : Nat]
Applying == [pc : {"applying"}, key : Key, target : Nat, fresh : BOOLEAN,
             jobs : SUBSET Nat, version : Nat]
Ending   == [pc : {"done", "replay"}, message : Nat]
Locals   == {Idle} \cup Clearing \cup Asking \cup Applying \cup Ending

\* Every variable keeps its shape, and what is shown or rendered exists.
TypeOK ==
  /\ messages \in Seq(MessageRow) /\ visible \subseteq 1..Len(messages)
  /\ checkpoints \in Seq(CheckpointRow)
  /\ versions \in Seq(VersionRow) /\ DOMAIN renders \subseteq 1..Len(versions)
  /\ decisions \in Seq(DecisionRow)
  /\ draft \in DraftRow
  /\ \A k \in DOMAIN restores : restores[k] \in [target : Nat, message : Nat]
  /\ turns \in Seq(Turn) /\ turn \in Turn /\ handed \subseteq Turn
  /\ leases \subseteq Handler /\ owner \in Handler \cup {Nothing}
  /\ overtaken \subseteq Nat
  /\ call \in [Handler -> Locals]
  /\ calls \in Nat

\* The decision the draft waits for can be answered: whatever order questions, answers, clears and
\* resends come in, drafts.pending_decision_id never names a card that is answered or cancelled.
PendingAnswerable ==
  draft.pending # Nothing => Pending(draft.pending) /\ decisions[draft.pending].blocking

\* The message the model's context starts from (messages_tail_ref) is one the conversation shows,
\* and it is a reset: a start that was rewound would cut the context at a place nobody sees.
ContextStartVisible ==
  draft.tail # Nothing => draft.tail \in visible /\ messages[draft.tail].role = "reset"

\* preview_current_id shows the current timeline or one it was made from: never a cut that a resend
\* took back, although its render may end at any time.
PreviewOfLineage == draft.preview # Nothing => draft.preview \in Lineage(draft.current)

\* Rewinds nest: when a message is shown, so is everything that was shown when it was sent.  The
\* page never shows an answer to a conversation of which a part has been taken back.
RewindsNest == \A m \in visible : messages[m].before \subseteq visible

\* No question outlives its conversation: the message whose turn asked a pending question is shown,
\* unless that turn entered the queue for a message already hidden (a whole resend between the two
\* steps of a handler, or a late replay).
QuestionsBelong ==
  \A d \in 1..Len(decisions) :
    Pending(d) /\ decisions[d].by # Nothing => decisions[d].by \in visible \cup overtaken

\* A resend of X brings back the conversation and, when there was one, the timeline that stood when
\* X was sent, however many edits, restores and resends came in between.
RestoredExactly ==
  [][\A h \in Handler :
       LET x == messages[call[h].target]
       IN  call[h].pc = "applying" /\ call'[h].pc = "done" =>
             /\ visible' = x.before \cup {call'[h].message}
             /\ x.document # Nothing => versions'[draft'.current].document = x.document]_vars

\* What the draft points at is still there: its pending question, the start of
\* its context and its preview, however resends, clears and renders cross.
DraftPoints == PendingAnswerable /\ ContextStartVisible /\ PreviewOfLineage

\* The conversation that is shown belongs together.
ConversationNests == RewindsNest /\ QuestionsBelong

-----------------------------------------------------------------------------
(* The inductive invariant behind DraftPoints, ConversationNests and RestoredExactly. *)

\* Rows refer to rows that exist, versions to earlier ones.
InRange ==
  /\ \A m \in 1..Len(messages) : messages[m].before \subseteq 1..Len(messages)
  /\ \A i \in 1..Len(checkpoints) :
       LET point == checkpoints[i]
       IN  /\ point.anchor \in 1..Len(messages) /\ point.shown \subseteq 1..Len(messages)
           /\ point.version <= Len(versions) /\ point.boundary <= Len(decisions)
  /\ \A v \in 1..Len(versions) : versions[v].parent < v /\ versions[v].document > 0
  /\ draft.current <= Len(versions)

\* A resend that is not late has the number of the next version.
NumberKnown ==
  \A h \in Handler : call[h].pc = "applying" /\ call[h].fresh => call[h].version = Len(versions) + 1

\* The resend past its barrier is the one that holds it; under it nothing waits, and once it is
\* drained nothing runs.
BarrierHeld ==
  /\ \A h \in Handler :
       /\ call[h].pc \in {"waiting", "draining", "applying", "done"} => owner = h /\ h \in leases
       /\ call[h].pc \in {"applying", "done"} => turn = NoTurn
  /\ leases # {} => turns = <<>>

\* The checkpoint of a message holds what was shown and the timeline that stood when it was sent.
CheckpointsTrue ==
  \A i \in 1..Len(checkpoints) :
    LET point == checkpoints[i]
    IN  point.kind = "user_message" =>
          /\ point.shown = messages[point.anchor].before
          /\ Document(point.version) = messages[point.anchor].document

\* What was shown when a message was sent was a whole conversation.
BeforeNests ==
  \A m \in 1..Len(messages) : \A n \in messages[m].before : messages[n].before \subseteq messages[m].before

\* The turns of user messages are of messages that are shown, or were overtaken by a resend.
TurnsBelong ==
  /\ turn.kind = "user" => turn.id \in visible \cup overtaken
  /\ \A i \in 1..Len(turns) : turns[i].kind = "user" => turns[i].id \in visible \cup overtaken

\* The questions up to the boundary of a message's checkpoint are of messages it shows.
BoundariesBelong ==
  \A i \in 1..Len(checkpoints) : checkpoints[i].kind = "user_message" =>
    \A d \in 1..checkpoints[i].boundary :
      Pending(d) /\ decisions[d].by # Nothing => decisions[d].by \in checkpoints[i].shown \cup overtaken

RewindInv ==
  /\ TypeOK /\ InRange /\ NumberKnown /\ BarrierHeld
  /\ CheckpointsTrue /\ BeforeNests /\ TurnsBelong /\ BoundariesBelong
  /\ DraftPoints /\ ConversationNests
=============================================================================
