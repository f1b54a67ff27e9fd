------------------------------ MODULE ToolLoop ------------------------------
(***************************************************************************)
(* One turn of the agent, from the model's first word to the message that  *)
(* closes the turn: the ReAct graph (react_concurrent.go), the retries and *)
(* the screened text of a model call (model_retry.go,                      *)
(* model_stream_preview.go), the tool calls and the decision barrier       *)
(* (tool_execution.go, tool_recovery.go), the Stop Gate with its automatic *)
(* check and preview (automatic_timeline_truth.go,                         *)
(* automatic_preview_qa.go), and the guards and the commit of the final    *)
(* reply (service.go, terminal_truth.go).                                  *)
(*                                                                         *)
(* The model is free: it may send any message of Messages or any kind of   *)
(* text at every call.  Versions are numbers, 0 is "none".  The person at  *)
(* the editor may edit by hand whenever the turn holds no lease.           *)
(***************************************************************************)
EXTENDS Integers, Sequences, FiniteSets

CONSTANTS
    Rounds,       \* maxToolRoundsPerTurn
    Passes,       \* maxAutomaticPreviewQAPassesPerTurn
    Retries,      \* maxModelTimeoutRetries
    Messages,     \* the tool-calling messages the model may send
    MaxVersion,   \* bound on the timeline's versions
    MaxPlan,      \* bound on the content plan's revisions in the turn
    MaxMishaps    \* bound on what goes wrong or is done by others

ASSUME LoopAssumption ==
    /\ Rounds \in Nat /\ Passes \in Nat /\ Retries \in Nat
    /\ MaxVersion \in Nat \ {0} /\ MaxPlan \in Nat /\ MaxMishaps \in Nat

Intents == {"none", "delivery", "preview"}
Texts == {"claims", "admits", "plain", "empty"}

VARIABLES
    draft,     \* the draft: newest timeline version and plan revision
    intent,    \* what the user's message asks for
    pc,        \* where the turn is
    rounds,    \* model calls so far (turnBudgetState.modelCalls)
    tries,     \* retries of the running model call
    todo,      \* calls of the current message still to run
    text,      \* kind of the text the turn would end with
    truth,     \* terminalTimelineTruthState
    gate,      \* automaticPreviewQAState
    target,    \* the version the gate or the guard is checking
    asked,     \* a blocking decision was created in this turn
    refused,   \* a destructive call was refused and not confirmed
    lease,     \* the edit lease of the turn
    cancelled, \* the user stopped the turn
    err,       \* the error the turn would end with
    screen,    \* streamed texts on the page, and the final candidate
    reply,     \* the message that closed the turn
    outcome,   \* the outcome of turn_ended, or "none"
    mishaps,   \* number of mishaps so far
    checked,   \* ghost: <<version, plan>> whose check succeeded
    viewed     \* ghost: <<version, plan>> whose preview passed

core == <<draft, intent, truth, gate, target>>
talk == <<rounds, tries, todo, text, screen>>
rest == <<asked, refused, lease, cancelled, err, reply, outcome>>
ghosts == <<mishaps, checked, viewed>>
vars == <<core, talk, rest, ghosts, pc>>

-----------------------------------------------------------------------------
(* The truth of the turn and the state of its gate                         *)

\* recordMutationTimelineID: idempotent, so a version is counted once
Mutated(t, v) ==
    [t EXCEPT !.mut = v, !.mutSeq = IF t.mut = v THEN @ ELSE @ + 1]

\* recordTimelineCheckResult: a failed check is evidence as well
Recorded(t, v, ok) ==
    [t EXCEPT !.chk = v, !.chkSeq = t.mutSeq, !.ok = ok]

\* invalidateTimelineCheck
Invalidated(t) == [t EXCEPT !.chk = 0, !.chkSeq = 0, !.ok = FALSE]

\* the last edit has its own check
Matched(t) == t.mutSeq = 0 \/ (t.chkSeq = t.mutSeq /\ t.chk = t.mut)

\* terminalExpectedTimelineID
Expected(t) == IF t.mutSeq > 0 THEN t.mut ELSE t.chk

\* invalidateValidationProofs; the plan revision is the validation generation
PlanChanged(g) == [g EXCEPT !.blocker = 0]

Repeated(g, print) == print \in g.seen
Exhausted(g) == g.continuations >= Passes

\* registerBlocker
Registered(g, print) ==
    IF Repeated(g, print) THEN g
    ELSE [g EXCEPT !.seen = @ \cup {print},
                   !.continuations = IF Exhausted(g) THEN @ ELSE @ + 1]

\* a blocker that has been heard before, or one too many, ends the turn with
\* the harness's own words; any other goes back to the model as feedback
Blocked(g, print) ==
    IF Repeated(g, print) \/ Exhausted(g)
    THEN [Registered(g, print) EXCEPT !.override = TRUE]
    ELSE [Registered(g, print) EXCEPT !.pending = "feedback"]

\* Mutant: a version is claimed once, whatever the plan.
ClaimedVersion(g) == \E p \in 0..MaxPlan : <<target, p>> \in g.tried

\* claimResult: every version and plan is previewed once, at most Passes
Claimed(g) == <<target, draft.plan>> \in g.tried
Spent(g) == Cardinality(g.tried) >= Passes

\* automaticPreviewQATrigger and automaticPreviewQARequired
Triggered ==
    \/ intent = "preview"
    \/ text = "claims" /\ intent = "delivery"
    \/ truth.mutSeq > 0
PreviewRequired == intent = "preview" \/ text = "claims"

\* beginModelCall: tool rounds the reminder still grants the model
Remaining == IF rounds > Rounds THEN 0 ELSE Rounds + 1 - rounds

\* WithMaxRunSteps: the model is step 2*rounds - 1 of the graph and the node
\* after it step 2*rounds; 2*Rounds + 1 steps, and 2 more for each QA pass
StepsLeft(n) == n <= 2 * Rounds + 1 + 2 * Passes

Stopped == cancelled \/ lease = "lost"
Running == outcome = "none" /\ ~Stopped
Mishap == mishaps < MaxMishaps /\ mishaps' = mishaps + 1

-----------------------------------------------------------------------------
Init ==
    /\ draft \in [latest : {0, 1}, plan : {0}]
    /\ intent \in Intents
    /\ pc \in {"model", "replay"}
    /\ (pc = "replay" => intent = "none" /\ draft.latest = 1)
    /\ rounds = 0 /\ tries = 0 /\ todo = <<>> /\ text = "plain"
    /\ truth = [mut |-> 0, mutSeq |-> 0, chk |-> 0, chkSeq |-> 0, ok |-> FALSE]
    /\ gate = [tried |-> {}, seen |-> {}, continuations |-> 0, blocker |-> 0,
               pending |-> "none", override |-> FALSE, hook |-> FALSE, tidied |-> 0]
    /\ target = 0 /\ asked = FALSE /\ refused = FALSE /\ lease = "none"
    /\ cancelled = FALSE /\ err = "none"
    /\ screen = [shown |-> {}, cand |-> 0]
    /\ reply = [kind |-> "none", text |-> "none", version |-> 0]
    /\ outcome = "none" /\ mishaps = 0 /\ checked = {} /\ viewed = {}

-----------------------------------------------------------------------------
(* The model node                                                          *)

\* turnContent's stream failed: the error goes to the guards of runTurn
Fail(e) == err' = e /\ text' = "empty" /\ pc' = "guard"

\* turnBudgetMessageModifier counts the call; the graph refuses a step too many
ModelBegins ==
    /\ Running /\ pc = "model"
    /\ IF StepsLeft(2 * rounds + 1)
       THEN /\ rounds' = rounds + 1 /\ tries' = 0 /\ pc' = "typing"
            /\ UNCHANGED <<err, text>>
       ELSE Fail("max_steps") /\ UNCHANGED <<rounds, tries>>
    /\ UNCHANGED <<core, todo, screen, asked, refused, lease, cancelled, reply,
                   outcome, ghosts>>

\* a fragment of the answer is shown at once (modelStreamPreviewSession.delta)
ShowDelta ==
    /\ Running /\ pc = "typing" /\ rounds \notin screen.shown
    /\ screen' = [screen EXCEPT !.shown = @ \cup {rounds}]
    /\ UNCHANGED <<core, rounds, tries, todo, text, rest, ghosts, pc>>

\* Mutant: the text of a failed attempt stays.
AttemptKept(s) == s

\* timeoutRetryChatModel.Stream: the attempt's text leaves the page
AttemptDiscarded(s) == [s EXCEPT !.shown = @ \ {rounds}]

\* the provider timed out or overflowed: the same call again, Retries times
AttemptFails ==
    /\ Running /\ pc = "typing" /\ Mishap
    /\ screen' = AttemptDiscarded(screen)
    /\ \/ tries < Retries /\ tries' = tries + 1 /\ UNCHANGED <<err, text, pc>>
       \/ Fail("model_error") /\ UNCHANGED tries
    /\ UNCHANGED <<core, rounds, todo, asked, refused, lease, cancelled, reply,
                   outcome, checked, viewed>>

\* a message with tool calls: its text, if any, becomes a narration
CallsDelivered ==
    /\ Running /\ pc = "typing"
    /\ IF Remaining = 0 THEN Mishap ELSE UNCHANGED mishaps
    /\ screen' = [screen EXCEPT !.shown = @ \ {rounds}]
    /\ IF StepsLeft(2 * rounds)
       THEN \E m \in Messages : todo' = m /\ pc' = "tools" /\ UNCHANGED <<err, text>>
       ELSE Fail("max_steps") /\ UNCHANGED todo
    /\ UNCHANGED <<core, rounds, tries, asked, refused, lease, cancelled, reply,
                   outcome, checked, viewed>>

\* modelStreamPreviewSession.complete: the newest text is the candidate
Candidate(s) == [shown |-> (s.shown \ {s.cand}) \cup {rounds}, cand |-> rounds]

\* a message of text only ends the loop, if the branch lets it
TextDelivered ==
    /\ Running /\ pc = "typing"
    /\ text' \in Texts
    /\ IF text' = "empty"
       THEN Mishap /\ screen' = AttemptDiscarded(screen) /\ pc' = "guard"
       ELSE UNCHANGED mishaps /\ screen' = Candidate(screen) /\ pc' = "branch"
    /\ UNCHANGED <<core, rounds, tries, todo, rest, checked, viewed>>

-----------------------------------------------------------------------------
(* The tools node.  The calls of one message are run in order; reading     *)
(* calls have no effect here, so nothing is lost by it.                    *)

Next1(seq) == IF Len(seq) = 1 THEN "model" ELSE "tools"
Calling(c) == Running /\ pc = "tools" /\ Head(todo) = c
Called == todo' = Tail(todo) /\ pc' = Next1(todo)

\* ensure, the write admission and the fence of the reducer's transaction
LeaseForWrite == IF lease = "none" THEN "held" ELSE IF lease = "lapsed" THEN "lost" ELSE lease

\* timeline.insert, .delete, .update, .split: refused, or a new version
CallEdit ==
    /\ Calling("edit") /\ Called
    /\ IF asked THEN UNCHANGED <<draft, truth, lease>>
       ELSE /\ lease' = LeaseForWrite
            /\ \/ UNCHANGED <<draft, truth>>
               \/ /\ LeaseForWrite = "held" /\ draft.latest < MaxVersion
                  /\ draft' = [draft EXCEPT !.latest = @ + 1]
                  /\ truth' = Mutated(truth, draft.latest + 1)
    /\ UNCHANGED <<intent, gate, target, rounds, tries, text, screen, asked, refused,
                   cancelled, err, reply, outcome, ghosts>>

\* plan.update: the check and the previews of the old plan prove nothing more
CallPlan ==
    /\ Calling("plan") /\ Called
    /\ \/ UNCHANGED <<draft, truth, gate>>
       \/ /\ ~asked /\ draft.plan < MaxPlan
          /\ draft' = [draft EXCEPT !.plan = @ + 1]
          /\ truth' = Invalidated(truth)
          /\ gate' = PlanChanged(gate)
    /\ UNCHANGED <<intent, target, rounds, tries, text, screen, asked, refused, lease,
                   cancelled, err, reply, outcome, ghosts>>

\* interaction.ask_user with a blocking question closes the barrier
CallAsk ==
    /\ Calling("ask") /\ Called
    /\ asked' = TRUE
    /\ UNCHANGED <<core, rounds, tries, text, screen, refused, lease, cancelled, err,
                   reply, outcome, ghosts>>

\* destructiveConfirmationInterceptor refuses before the barrier is looked at
CallDestroy ==
    /\ Calling("destroy") /\ Called
    /\ refused' = TRUE
    /\ UNCHANGED <<core, rounds, tries, text, screen, asked, lease, cancelled, err,
                   reply, outcome, ghosts>>

\* interaction.confirm_action: a card of its own, or the barrier's answer with
\* the other card's decision_id, which resolveConfirmation takes for it
CallConfirm ==
    /\ Calling("confirm") /\ Called
    /\ asked' = TRUE /\ refused' = FALSE
    /\ UNCHANGED <<core, rounds, tries, text, screen, lease, cancelled, err, reply,
                   outcome, ghosts>>

\* a call fails in its executor: the model hears of it and goes on
CallFails ==
    /\ Running /\ pc = "tools" /\ Called /\ Mishap
    /\ UNCHANGED <<core, rounds, tries, text, screen, rest, checked, viewed>>

-----------------------------------------------------------------------------
(* The Stop Gate                                                           *)

\* the check's answer may change with the version and the plan only
Verdicts(v) == IF <<v, draft.plan>> \in checked THEN {TRUE} ELSE BOOLEAN

\* discardPending
Withdrawn(s) == [shown |-> s.shown \ {s.cand}, cand |-> 0]

\* the branch goes to the QA node, which is a step of the graph
ToQA == IF StepsLeft(2 * rounds)
        THEN pc' = "qa" /\ UNCHANGED <<err, text>>
        ELSE Fail("max_steps")

\* where the branch goes once the gate has decided g
Route(g) ==
    /\ gate' = g
    /\ IF g.pending = "none"
       THEN pc' = "guard" /\ UNCHANGED <<err, text, screen>>
       ELSE ToQA /\ screen' = Withdrawn(screen)

\* shouldRunAutomaticPreviewQA reads the newest version
GateReads ==
    /\ Running /\ pc = "branch"
    /\ target' = draft.latest
    /\ IF ~Triggered THEN Route(gate)
       ELSE IF draft.latest = 0
       THEN Route(IF text = "admits" THEN gate ELSE Blocked(gate, <<"missing", 0, 0>>))
       ELSE /\ pc' = IF truth.chk = draft.latest THEN "deciding" ELSE "checking"
            /\ gate' = [gate EXCEPT !.hook = FALSE]
            /\ UNCHANGED <<err, text, screen>>
    /\ UNCHANGED <<draft, intent, truth, rounds, tries, todo, asked, refused, lease,
                   cancelled, reply, outcome, ghosts>>

\* executeHarnessTimelineNormalization: the harness tidies the version and
\* writes a new one, which takes the lease but not the barrier
Normalize ==
    /\ Running /\ pc \in {"checking", "ensuring"}
    /\ target = draft.latest /\ target # gate.tidied
    /\ draft.latest < MaxVersion
    /\ lease' = LeaseForWrite
    /\ IF LeaseForWrite = "held"
       THEN /\ draft' = [draft EXCEPT !.latest = @ + 1]
            /\ target' = draft.latest + 1
            /\ truth' = Mutated(truth, draft.latest + 1)
            /\ gate' = [gate EXCEPT !.tidied = draft.latest + 1]
       ELSE UNCHANGED <<draft, target, truth, gate>>
    /\ UNCHANGED <<intent, talk, asked, refused, cancelled, err, reply, outcome,
                   ghosts, pc>>

\* executeHarnessTimelineCheck runs through ExecuteTool, and so through the
\* barrier: once a question was asked the check cannot answer
Checks ==
    \E ok \in Verdicts(target) :
        /\ truth' = Recorded(truth, target, ok)
        /\ checked' = IF ok THEN checked \cup {<<target, draft.plan>>} ELSE checked

GateChecks ==
    /\ Running /\ pc = "checking"
    /\ pc' = "deciding"
    /\ \/ ~asked /\ Checks /\ UNCHANGED <<gate, mishaps>>
       \/ /\ gate' = [gate EXCEPT !.hook = TRUE]
          /\ IF asked THEN UNCHANGED mishaps ELSE Mishap
          /\ UNCHANGED <<truth, checked>>
    /\ UNCHANGED <<draft, intent, target, talk, rest, viewed>>

\* what the gate makes of the check: feedback, the harness's own words, a
\* preview, or the text as it stands
Decision ==
    IF gate.hook THEN Blocked(gate, <<"hook", target, 0>>)
    ELSE IF ~truth.ok
    THEN IF text = "admits" THEN gate ELSE Blocked(gate, <<"check", target, draft.plan>>)
    ELSE IF gate.blocker # 0 /\ gate.blocker = target
    THEN IF text = "admits" THEN gate
         ELSE [Registered(gate, <<"preview", target, draft.plan>>) EXCEPT !.override = TRUE]
    ELSE IF ~PreviewRequired \/ Claimed(gate) THEN gate
    ELSE IF Spent(gate) THEN [gate EXCEPT !.override = TRUE]
    ELSE [gate EXCEPT !.tried = @ \cup {<<target, draft.plan>>}, !.pending = "preview"]

GateDecides ==
    /\ Running /\ pc = "deciding"
    /\ Route(Decision)
    /\ UNCHANGED <<draft, intent, truth, target, rounds, tries, todo, asked, refused,
                   lease, cancelled, reply, outcome, ghosts>>

\* the QA node hands the gate's words to the model
FeedbackGiven ==
    /\ Running /\ pc = "qa" /\ gate.pending = "feedback"
    /\ gate' = [gate EXCEPT !.pending = "none"]
    /\ pc' = "model"
    /\ UNCHANGED <<draft, intent, truth, target, talk, rest, ghosts>>

\* a preview that did not pass stands in the way of its version
PreviewRefused(g) == [Registered(g, <<"preview", target, draft.plan>>) EXCEPT
                        !.blocker = target, !.pending = "none"]
PreviewAccepted(g) == [g EXCEPT !.pending = "none",
                                !.blocker = IF @ = target THEN 0 ELSE @]

\* runAutomaticPreviewQA: the version moved on, the preview failed, showed an
\* error, or passed
PreviewRuns ==
    /\ Running /\ pc = "qa" /\ gate.pending = "preview"
    /\ pc' = "model"
    /\ \/ /\ draft.latest = target
          /\ gate' = PreviewAccepted(gate)
          /\ viewed' = viewed \cup {<<target, draft.plan>>}
       \/ /\ <<target, draft.plan>> \notin viewed
          /\ gate' = PreviewRefused(gate) /\ UNCHANGED viewed
    /\ UNCHANGED <<draft, intent, truth, target, talk, rest, mishaps, checked>>

-----------------------------------------------------------------------------
(* The end of the turn                                                     *)

\* replayPendingTool: a confirmed call runs without the model
ReplayConfirmed ==
    /\ Running /\ pc = "replay" /\ pc' = "guard"
    /\ lease' = LeaseForWrite
    /\ \/ UNCHANGED <<draft, truth, err, text>>
       \/ /\ LeaseForWrite = "held" /\ draft.latest < MaxVersion
          /\ draft' = [draft EXCEPT !.latest = @ + 1]
          /\ truth' = Mutated(truth, draft.latest + 1)
          /\ UNCHANGED <<err, text>>
       \/ err' = "tool_policy_unresolved" /\ text' = "empty" /\ UNCHANGED <<draft, truth>>
    /\ UNCHANGED <<intent, gate, target, rounds, tries, todo, screen, asked, refused,
                   cancelled, reply, outcome, ghosts>>

\* takeFinalOverride, then ensureTerminalTimelineTruth if the last edit has no check
GuardBegins ==
    /\ Running /\ pc = "guard"
    /\ gate' = [gate EXCEPT !.override = FALSE]
    /\ text' = IF err = "none" /\ gate.override THEN "not_completed" ELSE text
    /\ IF Matched(truth) THEN pc' = "closing" /\ UNCHANGED target
       ELSE pc' = "ensuring" /\ target' = truth.mut
    /\ UNCHANGED <<draft, intent, truth, rounds, tries, todo, screen, rest, ghosts>>

GuardChecks ==
    /\ Running /\ pc = "ensuring"
    /\ pc' = "closing"
    /\ \/ ~asked /\ Checks /\ UNCHANGED <<err, text, mishaps>>
       \/ /\ err' = "hook_error" /\ text' = "empty"
          /\ IF asked THEN UNCHANGED mishaps ELSE Mishap
          /\ UNCHANGED <<truth, checked>>
    /\ UNCHANGED <<draft, intent, gate, target, rounds, tries, todo, screen, asked,
                   refused, lease, cancelled, reply, outcome, viewed>>

\* terminalReplyGuard, in its order
GuardError ==
    IF refused THEN "tool_policy_unresolved"
    ELSE IF Expected(truth) = 0 THEN "none"
    ELSE IF truth.mutSeq > 0 /\ truth.chk = 0 THEN "timeline_check_missing"
    ELSE IF ~Matched(truth) THEN "timeline_check_stale"
    ELSE IF Expected(truth) # draft.latest THEN "timeline_latest_changed"
    ELSE "none"

\* a failed check speaks instead of the model; then the guard, then silence
Closing ==
    LET said == IF err = "none" /\ truth.chk # 0 /\ ~truth.ok THEN "not_completed" ELSE text
        guarded == IF GuardError # "none" THEN GuardError ELSE err
    IN  /\ err' = IF guarded = "none" /\ said = "empty" THEN "no_reply" ELSE guarded
        /\ text' = IF err' = "none" THEN said ELSE "empty"

GuardEnds ==
    /\ Running /\ pc = "closing"
    /\ Closing /\ pc' = "commit"
    /\ UNCHANGED <<core, rounds, tries, todo, screen, asked, refused, lease, cancelled,
                   reply, outcome, ghosts>>

\* Mutant: the failure message is held to the version as well.
StaleAlways == Expected(truth) # 0 /\ Expected(truth) # draft.latest

\* terminalTimelineLatestValidation, in the transaction of the message
Stale == err = "none" /\ Expected(truth) # 0 /\ Expected(truth) # draft.latest

\* the newest version is not the checked one any more: commit again, as failed
CommitRefused ==
    /\ Running /\ pc = "commit" /\ Stale
    /\ err' = "timeline_latest_changed" /\ text' = "empty"
    /\ UNCHANGED <<core, rounds, tries, todo, screen, asked, refused, lease, cancelled,
                   reply, outcome, ghosts, pc>>

\* commitFinalReply; message_completed replaces the candidate on the page
Commit ==
    /\ Running /\ pc = "commit" /\ ~Stale
    /\ reply' = IF err = "none"
                THEN [kind |-> "reply", text |-> text, version |-> Expected(truth)]
                ELSE [kind |-> "turn_failure", text |-> "not_completed", version |-> 0]
    /\ outcome' = IF err = "none" THEN "finished" ELSE "failed"
    /\ screen' = Withdrawn(screen) /\ pc' = "done"
    /\ UNCHANGED <<core, rounds, tries, todo, text, asked, refused, lease, cancelled,
                   err, ghosts>>

\* the database refused the message: turn_error, and no turn_ended
CommitError ==
    /\ Running /\ pc = "commit" /\ Mishap
    /\ outcome' = "turn_error" /\ screen' = Withdrawn(screen) /\ pc' = "done"
    /\ UNCHANGED <<core, rounds, tries, todo, text, asked, refused, lease, cancelled,
                   err, reply, checked, viewed>>

\* the turn sees that its context is over; a lease lost as late as the commit
\* is taken for the user's stop
TurnStops ==
    /\ outcome = "none" /\ Stopped
    /\ outcome' = IF lease = "lost" /\ pc # "commit" THEN "lease_lost" ELSE "cancelled"
    /\ screen' = Withdrawn(AttemptDiscarded(screen)) /\ pc' = "done"
    /\ UNCHANGED <<core, rounds, tries, todo, text, asked, refused, lease, cancelled,
                   err, reply, ghosts>>

-----------------------------------------------------------------------------
(* What others do                                                          *)

\* the user stops the turn
Cancel ==
    /\ Running /\ Mishap /\ cancelled' = TRUE
    /\ UNCHANGED <<core, talk, asked, refused, lease, err, reply, outcome, checked,
                   viewed, pc>>

\* the process was away for longer than agentEditLeaseTTL
LeaseLapses ==
    /\ Running /\ lease = "held" /\ Mishap /\ lease' = "lapsed"
    /\ UNCHANGED <<core, talk, asked, refused, cancelled, err, reply, outcome, checked,
                   viewed, pc>>

\* heartbeat: the renewal comes too late, markLost cancels the turn
LeaseMissed ==
    /\ Running /\ lease = "lapsed" /\ lease' = "lost"
    /\ UNCHANGED <<core, talk, asked, refused, cancelled, err, reply, outcome, ghosts, pc>>

\* an edit by hand, refused while the lease is alive
ManualEdit ==
    /\ outcome = "none" /\ lease # "held" /\ draft.latest < MaxVersion /\ Mishap
    /\ draft' = [draft EXCEPT !.latest = @ + 1]
    /\ UNCHANGED <<intent, truth, gate, target, talk, rest, checked, viewed, pc>>

Over == outcome # "none" /\ UNCHANGED vars

Turn ==
    \/ ModelBegins \/ ShowDelta \/ AttemptFails \/ CallsDelivered \/ TextDelivered
    \/ CallEdit \/ CallPlan \/ CallAsk \/ CallDestroy \/ CallConfirm \/ CallFails
    \/ GateReads \/ Normalize \/ GateChecks \/ GateDecides \/ FeedbackGiven \/ PreviewRuns
    \/ ReplayConfirmed \/ GuardBegins \/ GuardChecks \/ GuardEnds
    \/ CommitRefused \/ Commit \/ CommitError \/ TurnStops

Next == Turn \/ Cancel \/ LeaseLapses \/ LeaseMissed \/ ManualEdit \/ Over

Spec == Init /\ [][Next]_vars

\* the goroutine of the turn runs on, and every call it waits for returns
FairSpec == Spec /\ WF_vars(Turn)

-----------------------------------------------------------------------------
\* Every variable keeps its shape; the budgets bound rounds and continuations.
TypeOK ==
    /\ draft \in [latest : 0..MaxVersion, plan : 0..MaxPlan] /\ intent \in Intents
    /\ pc \in {"replay", "model", "typing", "tools", "branch", "checking", "deciding",
               "qa", "guard", "ensuring", "closing", "commit", "done"}
    /\ rounds \in 0..(Rounds + Passes + 1) /\ tries \in 0..Retries
    /\ text \in Texts \cup {"not_completed"} /\ target \in 0..MaxVersion
    /\ truth.mut \in 0..MaxVersion /\ truth.chk \in 0..MaxVersion
    /\ gate.pending \in {"none", "feedback", "preview"} /\ gate.continuations \in 0..Passes
    /\ lease \in {"none", "held", "lapsed", "lost"}
    /\ outcome \in {"none", "finished", "failed", "cancelled", "lease_lost", "turn_error"}

EditingTurn == intent # "none" \/ truth.mutSeq > 0

\* In a turn that edits or delivers, a reply that says "done" is about a version
\* whose check succeeded and whose preview passed under the plan in force
\* (shouldRunAutomaticPreviewQA, claimResult, invalidateValidationProofs).
HonestReply ==
    outcome = "finished" /\ reply.text = "claims" /\ EditingTurn =>
        <<reply.version, draft.plan>> \in checked \cap viewed

\* A turn that edited closes with the harness's not_completed, or with a reply
\* on the newest version and on a check of exactly that version, even if the
\* lease lapsed and somebody edited up to the last moment
\* (ensureTerminalTimelineTruth, terminalReplyGuard, commitFinalReply).
RepliesOnLatest ==
    [][outcome = "none" /\ outcome' = "finished" /\ truth.mutSeq > 0 =>
        /\ reply'.version = draft.latest
        /\ reply'.text \in {"not_completed", "admits"}
             \/ <<draft.latest, draft.plan>> \in checked]_vars

\* A reply says what is so, of what is there when it is stored.
RepliesSound == [][HonestReply']_vars /\ RepliesOnLatest

\* However the turn ends, no streamed text stays on the page as if it were
\* still being written (discard, discardPending, replaces_message_id).
NothingStreaming == outcome # "none" => screen.shown = {}

\* If nothing fails, nobody interferes and the model keeps to the budget it is
\* told, the turn finishes within the graph's steps, whatever the gate asks
\* for; only an unconfirmed destructive call, or an edit followed by a blocking
\* question, ends it as failed (turnBudgetInstruction, WithMaxRunSteps,
\* registerBlocker, terminalReplyGuard).
UndisturbedFinishes ==
    outcome = "failed" /\ mishaps = 0 /\ ~refused /\ ~(asked /\ truth.mutSeq > 0) =>
        err = "tool_policy_unresolved"

\* Whatever the model, the gate and the person at the editor do, the turn ends.
TurnEnds == []<>(outcome # "none")

\* A turn ends whole: within its budgets and with nothing left half-written.
EndsWhole == TypeOK /\ NothingStreaming /\ UndisturbedFinishes
=============================================================================
