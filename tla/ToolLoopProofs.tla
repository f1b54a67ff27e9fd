--------------------------- MODULE ToolLoopProofs ---------------------------
(***************************************************************************)
(* Theorems about ToolLoop: however many rounds, passes, retries, versions *)
(* and plans, what a finished turn says was checked and previewed, it is   *)
(* about the newest version, no text stays half-written, and the budgets   *)
(* suffice for a turn that nobody disturbs.                                *)
(***************************************************************************)
EXTENDS ToolLoop, FiniteSetTheorems, TLAPS

Gating == {"branch", "checking", "deciding"}
Looping == {"model", "typing", "tools", "qa"} \cup Gating
Early == Looping \cup {"replay"}
Ending == {"guard", "ensuring", "closing", "commit"}
Version == 0..MaxVersion
Revision == 0..MaxPlan
Fingerprint == {"missing", "hook", "check", "preview"} \X Version \X Revision
Errors == {"none", "max_steps", "model_error", "tool_policy_unresolved", "hook_error",
           "timeline_check_missing", "timeline_check_stale", "timeline_latest_changed",
           "no_reply"}

\* The truth of the turn and the state of its gate.
Truth == [mut : Version, mutSeq : Nat, chk : Version, chkSeq : Nat, ok : BOOLEAN]
Gate == [tried : SUBSET (Version \X Revision), seen : SUBSET Fingerprint,
         continuations : 0..Passes, blocker : Version,
         pending : {"none", "feedback", "preview"}, override : BOOLEAN,
         hook : BOOLEAN, tidied : Version]

\* Every variable is what its comment says.
Typed ==
    /\ draft \in [latest : Version, plan : Revision] /\ intent \in Intents
    /\ pc \in Early \cup Ending \cup {"done"}
    /\ rounds \in 0..(Rounds + Passes + 1) /\ tries \in 0..Retries
    /\ text \in Texts \cup {"not_completed"} /\ target \in Version
    /\ truth \in Truth /\ gate \in Gate
    /\ asked \in BOOLEAN /\ refused \in BOOLEAN /\ cancelled \in BOOLEAN
    /\ lease \in {"none", "held", "lapsed", "lost"} /\ err \in Errors
    /\ screen \in [shown : SUBSET Nat, cand : Nat]
    /\ reply \in [kind : {"none", "reply", "turn_failure"},
                  text : Texts \cup {"none", "not_completed"}, version : Version]
    /\ outcome \in {"none", "finished", "failed", "cancelled", "lease_lost", "turn_error"}
    /\ mishaps \in Nat
    /\ checked \in SUBSET (Version \X Revision) /\ viewed \in SUBSET (Version \X Revision)

\* What is on the page at each place of the turn.
Screened ==
    /\ pc \in {"model", "tools", "qa", "replay", "done"} => screen.shown = {}
    /\ pc = "typing" => screen.shown \subseteq {rounds}
    /\ pc \in Gating \cup Ending => screen.shown \subseteq {screen.cand}

\* What the places of the turn say of its error, its gate and its end.
Placed ==
    /\ outcome = "none" <=> pc # "done"
    /\ pc \in Early => err = "none" /\ ~ gate.override
    /\ pc \in Early \ {"qa"} => gate.pending = "none"
    /\ pc = "qa" => gate.pending # "none"
    /\ pc \in {"checking", "deciding"} => target # 0
    /\ pc = "checking" => ~ gate.hook
    /\ pc = "replay" => text = "plain"

\* Nothing that was checked, previewed or edited is newer than the newest
\* version, and a successful check was made under the plan in force.
Bounded ==
    /\ truth.mut <= draft.latest /\ truth.chk <= draft.latest /\ target <= draft.latest
    /\ \A x \in gate.tried : x[1] <= draft.latest /\ x[2] <= draft.plan
    /\ (truth.mutSeq > 0 <=> truth.mut > 0) /\ truth.chkSeq <= truth.mutSeq
    /\ truth.mutSeq > 0 /\ truth.chk = truth.mut => truth.chkSeq = truth.mutSeq
    /\ truth.ok => truth.chk > 0 /\ <<truth.chk, draft.plan>> \in checked

\* What the check that the gate or the guard is about says.
Targeted ==
    /\ pc \in {"checking", "deciding"} => truth.mut <= target
    /\ pc = "checking" => truth.chk # draft.latest
    /\ pc = "deciding" /\ ~ gate.hook => truth.chk = target
    /\ pc = "deciding" /\ gate.hook => truth.chk # draft.latest
    /\ pc \in {"checking", "deciding", "qa"} => \A x \in gate.tried : x[1] <= target
    /\ pc = "ensuring" => target = truth.mut /\ truth.mutSeq > 0 /\ ~ Matched(truth)

\* A preview of the newest version under the plan in force is on the way, has
\* passed, or stands in the way.
Previewed ==
    pc \in Early /\ <<draft.latest, draft.plan>> \in gate.tried =>
        \/ <<draft.latest, draft.plan>> \in viewed
        \/ gate.blocker = draft.latest /\ draft.latest # 0
        \/ pc = "qa" /\ gate.pending = "preview" /\ target = draft.latest /\ target # 0

\* The version that a reply would be about was checked and previewed, or is not
\* the newest any more.
Grounded ==
    /\ Expected(truth) > 0
    /\ \/ Expected(truth) < draft.latest
       \/ Matched(truth) /\ <<Expected(truth), draft.plan>> \in checked \cap viewed

\* So it is for a text that says "done" and is past the gate.
Backed ==
    pc \in Ending /\ err = "none" /\ text = "claims" /\ EditingTurn
    /\ (pc = "guard" => ~ gate.override) => Grounded

\* What the guard has seen to.
Guarded ==
    pc = "commit" /\ err = "none" /\ truth.mutSeq > 0 =>
        Matched(truth) /\ truth.chk > 0 /\ (truth.ok \/ text = "not_completed")

\* A turn that nothing has gone wrong in.
Undisturbed == mishaps = 0

\* Nobody else has edited, and only refusals and unanswered questions are errors.
Calm ==
    Undisturbed =>
        /\ truth.mutSeq > 0 => truth.mut = draft.latest
        /\ truth.mutSeq = 0 => truth.chk \in {0, draft.latest}
        /\ pc \in {"checking", "deciding", "qa"} => target = draft.latest
        /\ pc = "deciding" /\ gate.hook => asked
        /\ err = "none" => text # "empty"
        /\ pc \in {"closing", "commit"} => Matched(truth) \/ asked
        /\ \/ err \in {"none", "tool_policy_unresolved"}
           \/ refused
           \/ asked /\ truth.mutSeq > 0

\* Visits of the QA node after the last round in which tools may be called.
Visits == IF pc \in {"model", "qa"} THEN rounds - Rounds ELSE rounds - Rounds - 1

\* The gate will not ask for a preview before tools are called again.
NoPreview ==
    \/ draft.latest = 0
    \/ truth.chk = draft.latest /\ ~ truth.ok
    \/ asked /\ truth.chk # draft.latest

\* The newest version has had its preview under this plan.
HadPreview ==
    /\ draft.latest # 0 /\ truth.chk = draft.latest /\ truth.ok
    /\ <<draft.latest, draft.plan>> \in gate.tried

\* After the last tool round the gate asks for words of its own at most Passes
\* times, or for one preview.
Budgeted ==
    Undisturbed /\ pc \in Looping =>
        /\ pc = "tools" => rounds <= Rounds
        /\ \/ Visits <= 0
           \/ Visits <= gate.continuations /\ NoPreview
           \/ Visits <= 1 /\ Passes > 0 /\ HadPreview

\* A failed turn has an error.
Blamed == outcome = "failed" => err # "none"

TurnInv ==
    /\ Typed /\ Screened /\ Placed /\ Bounded /\ Targeted /\ Previewed /\ Backed
    /\ Guarded /\ Calm /\ Budgeted /\ HonestReply /\ Blamed

-----------------------------------------------------------------------------
(* The groups of steps that the proofs treat alike. *)

ModelStep == ModelBegins \/ ShowDelta \/ AttemptFails \/ CallsDelivered \/ TextDelivered
CallStep == CallEdit \/ CallPlan \/ CallAsk \/ CallDestroy \/ CallConfirm \/ CallFails
GateStep == GateReads \/ Normalize \/ GateChecks \/ GateDecides \/ FeedbackGiven \/ PreviewRuns
EndStep == \/ ReplayConfirmed \/ GuardBegins \/ GuardChecks \/ GuardEnds
           \/ CommitRefused \/ Commit \/ CommitError \/ TurnStops
OtherStep == Cancel \/ LeaseLapses \/ LeaseMissed \/ ManualEdit

LEMMA Steps ==
    ASSUME [Next]_vars
    PROVE  ModelStep \/ CallStep \/ GateStep \/ EndStep \/ OtherStep \/ UNCHANGED vars
BY DEF Next, Turn, ModelStep, CallStep, GateStep, EndStep, OtherStep, Over

\* The operators on the truth of the turn and on its gate keep their kinds.
LEMMA TruthKinds ==
    ASSUME NEW t \in Truth, NEW v \in Version, NEW b \in BOOLEAN
    PROVE  /\ Mutated(t, v) \in Truth /\ Recorded(t, v, b) \in Truth /\ Invalidated(t) \in Truth
           /\ Mutated(t, v).mut = v /\ Mutated(t, v).chk = t.chk
           /\ Mutated(t, v).chkSeq = t.chkSeq /\ Mutated(t, v).ok = t.ok
           /\ Mutated(t, v).mutSeq = IF t.mut = v THEN t.mutSeq ELSE t.mutSeq + 1
           /\ Recorded(t, v, b).mut = t.mut /\ Recorded(t, v, b).mutSeq = t.mutSeq
           /\ Recorded(t, v, b).chk = v /\ Recorded(t, v, b).chkSeq = t.mutSeq
           /\ Recorded(t, v, b).ok = b
           /\ Invalidated(t).mut = t.mut /\ Invalidated(t).mutSeq = t.mutSeq
           /\ Invalidated(t).chk = 0 /\ Invalidated(t).chkSeq = 0 /\ ~ Invalidated(t).ok
<1> DEFINE n == IF t.mut = v THEN t.mutSeq ELSE t.mutSeq + 1
<1>1. n \in Nat  BY DEF Truth
<1>2. Mutated(t, v) = [t EXCEPT !.mut = v, !.mutSeq = n]  BY DEF Mutated
<1> HIDE DEF n
<1>3. /\ Mutated(t, v) \in Truth
      /\ Mutated(t, v).mut = v /\ Mutated(t, v).chk = t.chk
      /\ Mutated(t, v).chkSeq = t.chkSeq /\ Mutated(t, v).ok = t.ok
      /\ Mutated(t, v).mutSeq = n
  BY <1>1, <1>2 DEF Truth
<1>4. /\ Recorded(t, v, b) \in Truth
      /\ Recorded(t, v, b).mut = t.mut /\ Recorded(t, v, b).mutSeq = t.mutSeq
      /\ Recorded(t, v, b).chk = v /\ Recorded(t, v, b).chkSeq = t.mutSeq
      /\ Recorded(t, v, b).ok = b
  BY DEF Truth, Recorded
<1>5. 0 \in Version /\ 0 \in Nat  BY LoopAssumption DEF Version
<1>6. /\ Invalidated(t) \in Truth
      /\ Invalidated(t).mut = t.mut /\ Invalidated(t).mutSeq = t.mutSeq
      /\ Invalidated(t).chk = 0 /\ Invalidated(t).chkSeq = 0 /\ ~ Invalidated(t).ok
  BY <1>5 DEF Truth, Invalidated
<1> QED  BY <1>3, <1>4, <1>6 DEF n

\* What Registered and Blocked change, and what they keep.
LEMMA RegisteredKinds ==
    ASSUME NEW g \in Gate, NEW q \in Fingerprint
    PROVE  /\ Registered(g, q) \in Gate
           /\ Registered(g, q).tried = g.tried /\ Registered(g, q).blocker = g.blocker
           /\ Registered(g, q).pending = g.pending /\ Registered(g, q).override = g.override
           /\ Registered(g, q).hook = g.hook /\ Registered(g, q).tidied = g.tidied
           /\ Registered(g, q).continuations >= g.continuations
           /\ ~ Repeated(g, q) /\ ~ Exhausted(g) =>
                Registered(g, q).continuations = g.continuations + 1
<1>1. CASE Repeated(g, q)  BY <1>1 DEF Registered, Gate
<1>2. CASE ~ Repeated(g, q)
  <2> DEFINE n == IF Exhausted(g) THEN g.continuations ELSE g.continuations + 1
  <2>1. Registered(g, q) = [g EXCEPT !.seen = g.seen \cup {q}, !.continuations = n]
    BY <1>2 DEF Registered
  <2>2. n \in 0..Passes /\ n >= g.continuations
    BY LoopAssumption DEF Gate, Exhausted
  <2>3. g.seen \cup {q} \in SUBSET Fingerprint  BY DEF Gate
  <2> HIDE DEF n
  <2>4. Registered(g, q) \in Gate /\ Registered(g, q).continuations = n
        /\ Registered(g, q).tried = g.tried /\ Registered(g, q).blocker = g.blocker
        /\ Registered(g, q).pending = g.pending /\ Registered(g, q).override = g.override
        /\ Registered(g, q).hook = g.hook /\ Registered(g, q).tidied = g.tidied
    BY <2>1, <2>2, <2>3 DEF Gate
  <2> QED  BY <2>2, <2>4 DEF n
<1> QED  BY <1>1, <1>2

LEMMA BlockedKinds ==
    ASSUME NEW g \in Gate, NEW q \in Fingerprint, g.pending = "none", ~ g.override
    PROVE  /\ Blocked(g, q) \in Gate
           /\ Blocked(g, q).tried = g.tried /\ Blocked(g, q).blocker = g.blocker
           /\ Blocked(g, q).hook = g.hook
           /\ \/ Blocked(g, q).override /\ Blocked(g, q).pending = "none"
              \/ /\ ~ Blocked(g, q).override /\ Blocked(g, q).pending = "feedback"
                 /\ Blocked(g, q).continuations = g.continuations + 1
           /\ Blocked(g, q).continuations >= g.continuations
<1> DEFINE r == Registered(g, q)
<1>1. r \in Gate /\ r.tried = g.tried /\ r.blocker = g.blocker /\ r.hook = g.hook
      /\ r.pending = "none" /\ ~ r.override /\ r.continuations >= g.continuations
      /\ (~ Repeated(g, q) /\ ~ Exhausted(g) => r.continuations = g.continuations + 1)
  BY RegisteredKinds
<1>2. Blocked(g, q) = IF Repeated(g, q) \/ Exhausted(g)
                      THEN [r EXCEPT !.override = TRUE] ELSE [r EXCEPT !.pending = "feedback"]
  BY DEF Blocked
<1> HIDE DEF r
<1>3. CASE Repeated(g, q) \/ Exhausted(g)  BY <1>1, <1>2, <1>3 DEF Gate
<1>4. CASE ~ (Repeated(g, q) \/ Exhausted(g))  BY <1>1, <1>2, <1>4 DEF Gate
<1> QED  BY <1>3, <1>4

-----------------------------------------------------------------------------
(* Types. *)

LEMMA TypedInit == Init => Typed
<1> SUFFICES ASSUME Init PROVE Typed  OBVIOUS
<1>1. draft \in [latest : Version, plan : Revision] /\ 0 \in Version /\ 0 \in 0..Passes
      /\ 0 \in 0..(Rounds + Passes + 1) /\ 0 \in 0..Retries
  BY LoopAssumption DEF Init, Version, Revision
<1>2. truth \in Truth  BY <1>1 DEF Init, Truth
<1>3. gate \in Gate  BY <1>1 DEF Init, Gate
<1> QED  BY <1>1, <1>2, <1>3 DEF Init, Typed, Early, Looping, Texts, Errors

LEMMA TypedModel ==
    ASSUME Typed, ModelStep
    PROVE  Typed'
<1> USE DEF Typed, core, talk, rest, ghosts, Fail, Early, Looping, Gating, Ending, Texts, Errors
<1>1. CASE ModelBegins
  <2>1. rounds' \in 0..(Rounds + Passes + 1) /\ tries' \in 0..Retries
    BY <1>1, LoopAssumption DEF ModelBegins, StepsLeft
  <2> QED  BY <1>1, <2>1 DEF ModelBegins
<1>2. CASE ShowDelta
  <2>1. screen' \in [shown : SUBSET Nat, cand : Nat]
    BY <1>2, LoopAssumption DEF ShowDelta
  <2> QED  BY <1>2, <2>1 DEF ShowDelta
<1>3. CASE AttemptFails
  <2>1. screen' \in [shown : SUBSET Nat, cand : Nat] /\ mishaps' \in Nat /\ tries' \in 0..Retries
    BY <1>3, LoopAssumption DEF AttemptFails, AttemptDiscarded, Mishap
  <2> QED  BY <1>3, <2>1 DEF AttemptFails
<1>4. CASE CallsDelivered
  <2>1. screen' \in [shown : SUBSET Nat, cand : Nat] /\ mishaps' \in Nat
    BY <1>4, LoopAssumption DEF CallsDelivered, Mishap
  <2> QED  BY <1>4, <2>1 DEF CallsDelivered
<1>5. CASE TextDelivered
  <2>1. screen' \in [shown : SUBSET Nat, cand : Nat] /\ mishaps' \in Nat
    BY <1>5, LoopAssumption DEF TextDelivered, Mishap, AttemptDiscarded, Candidate
  <2> QED  BY <1>5, <2>1 DEF TextDelivered
<1> QED  BY <1>1, <1>2, <1>3, <1>4, <1>5 DEF ModelStep

\* Where a version is written, it is a new one.
LEMMA NewVersion ==
    ASSUME Typed, draft.latest < MaxVersion
    PROVE  /\ draft.latest + 1 \in Version
           /\ [draft EXCEPT !.latest = @ + 1] \in [latest : Version, plan : Revision]
           /\ [draft EXCEPT !.latest = @ + 1].latest = draft.latest + 1
           /\ [draft EXCEPT !.latest = @ + 1].plan = draft.plan
           /\ Mutated(truth, draft.latest + 1) \in Truth
<1>1. draft.latest + 1 \in Version  BY LoopAssumption DEF Typed, Version
<1>2. Mutated(truth, draft.latest + 1) \in Truth  BY <1>1, TruthKinds DEF Typed
<1> QED  BY <1>1, <1>2 DEF Typed

LEMMA NewPlan ==
    ASSUME Typed, draft.plan < MaxPlan
    PROVE  /\ [draft EXCEPT !.plan = @ + 1] \in [latest : Version, plan : Revision]
           /\ [draft EXCEPT !.plan = @ + 1].latest = draft.latest
           /\ [draft EXCEPT !.plan = @ + 1].plan = draft.plan + 1
<1>1. draft.plan + 1 \in Revision  BY LoopAssumption DEF Typed, Revision
<1> QED  BY <1>1 DEF Typed

LEMMA TypedCalls ==
    ASSUME Typed, CallStep
    PROVE  Typed'
<1> USE DEF Typed, core, talk, rest, ghosts, Called, Calling, Next1, Early, Looping
<1>1. CASE CallEdit
  <2>1. lease' \in {"none", "held", "lapsed", "lost"} /\ draft' \in [latest : Version, plan : Revision]
        /\ truth' \in Truth
    BY <1>1, NewVersion DEF CallEdit, LeaseForWrite
  <2> QED  BY <1>1, <2>1 DEF CallEdit
<1>2. CASE CallPlan
  <2>1. draft' \in [latest : Version, plan : Revision]  BY <1>2, NewPlan DEF CallPlan
  <2>2. truth' \in Truth /\ 0 \in Version  BY <1>2, TruthKinds, LoopAssumption DEF CallPlan, Version
  <2>3. gate' \in Gate  BY <1>2, <2>2 DEF CallPlan, PlanChanged, Gate
  <2> QED  BY <1>2, <2>1, <2>2, <2>3 DEF CallPlan
<1>3. CASE CallAsk  BY <1>3 DEF CallAsk
<1>4. CASE CallDestroy  BY <1>4 DEF CallDestroy
<1>5. CASE CallConfirm  BY <1>5 DEF CallConfirm
<1>6. CASE CallFails
  <2>1. mishaps' \in Nat  BY <1>6 DEF CallFails, Mishap
  <2> QED  BY <1>6, <2>1 DEF CallFails
<1> QED  BY <1>1, <1>2, <1>3, <1>4, <1>5, <1>6 DEF CallStep

\* What the gate may decide on a text, and when.
LEMMA DecisionKinds ==
    ASSUME Typed, gate.pending = "none", ~ gate.override
    PROVE  /\ Decision \in Gate /\ Decision.blocker = gate.blocker
           /\ Decision.continuations >= gate.continuations
           /\ \/ /\ Decision = gate /\ ~ gate.hook
                 /\ \/ text = "admits"
                    \/ /\ truth.ok /\ ~ (gate.blocker # 0 /\ gate.blocker = target)
                       /\ ~ PreviewRequired \/ Claimed(gate)
              \/ /\ Decision.override /\ Decision.pending = "none"
                 /\ Decision.tried = gate.tried
              \/ /\ ~ Decision.override /\ Decision.pending = "feedback"
                 /\ Decision.tried = gate.tried /\ (gate.hook \/ ~ truth.ok)
                 /\ Decision.continuations = gate.continuations + 1
              \/ /\ ~ Decision.override /\ Decision.pending = "preview"
                 /\ Decision.tried = gate.tried \cup {<<target, draft.plan>>}
                 /\ ~ gate.hook /\ truth.ok /\ ~ Claimed(gate) /\ ~ Spent(gate)
<1>0. gate \in Gate /\ truth \in Truth /\ target \in Version /\ draft.plan \in Revision
      /\ 0 \in Revision
  BY LoopAssumption DEF Typed, Revision
<1>01. gate.continuations \in Nat /\ gate.continuations >= gate.continuations
  BY <1>0, LoopAssumption DEF Gate
<1>1. \A s \in {"hook", "check", "preview"} : \A n \in Revision : <<s, target, n>> \in Fingerprint
  BY <1>0 DEF Fingerprint
<1>2. CASE gate.hook
  <2>1. Decision = Blocked(gate, <<"hook", target, 0>>)  BY <1>2 DEF Decision
  <2> QED  BY <1>0, <1>1, <1>2, <2>1, BlockedKinds
<1>3. CASE ~ gate.hook /\ ~ truth.ok
  <2>1. CASE text = "admits"  BY <1>0, <1>3, <2>1 DEF Decision, Gate
  <2>2. CASE text # "admits"
    <3>1. Decision = Blocked(gate, <<"check", target, draft.plan>>)
      BY <1>3, <2>2 DEF Decision
    <3> QED  BY <1>0, <1>1, <1>3, <3>1, BlockedKinds
  <2> QED  BY <2>1, <2>2
<1>4. CASE ~ gate.hook /\ truth.ok /\ gate.blocker # 0 /\ gate.blocker = target
  <2>1. CASE text = "admits"  BY <1>0, <1>4, <2>1 DEF Decision, Gate
  <2>2. CASE text # "admits"
    <3> DEFINE r == Registered(gate, <<"preview", target, draft.plan>>)
    <3>1. Decision = [r EXCEPT !.override = TRUE]  BY <1>4, <2>2 DEF Decision
    <3>2. r \in Gate /\ r.tried = gate.tried /\ r.blocker = gate.blocker
          /\ r.pending = "none" /\ r.continuations >= gate.continuations
      BY <1>0, <1>1, RegisteredKinds
    <3> HIDE DEF r
    <3> QED  BY <3>1, <3>2 DEF Gate
  <2> QED  BY <2>1, <2>2
<1>5. CASE ~ gate.hook /\ truth.ok /\ ~ (gate.blocker # 0 /\ gate.blocker = target)
  <2>1. CASE ~ PreviewRequired \/ Claimed(gate)
    <3>1. Decision = gate  BY <1>5, <2>1 DEF Decision
    <3> QED  BY <1>0, <1>5, <2>1, <3>1 DEF Gate
  <2>2. CASE PreviewRequired /\ ~ Claimed(gate) /\ Spent(gate)
    <3>1. Decision = [gate EXCEPT !.override = TRUE]  BY <1>5, <2>2 DEF Decision
    <3>2. Decision \in Gate  BY <1>0, <3>1 DEF Gate
    <3>3. /\ Decision.blocker = gate.blocker /\ Decision.tried = gate.tried
          /\ Decision.continuations = gate.continuations /\ Decision.pending = "none"
          /\ Decision.override
      BY <1>0, <3>1 DEF Gate
    <3> QED  BY <1>01, <3>2, <3>3
  <2>3. CASE PreviewRequired /\ ~ Claimed(gate) /\ ~ Spent(gate)
    <3>1. Decision = [gate EXCEPT !.tried = gate.tried \cup {<<target, draft.plan>>},
                                  !.pending = "preview"]
      BY <1>5, <2>3 DEF Decision
    <3>2. gate.tried \cup {<<target, draft.plan>>} \in SUBSET (Version \X Revision)
      BY <1>0 DEF Gate
    <3>3. Decision \in Gate  BY <1>0, <3>1, <3>2 DEF Gate
    <3>4. /\ Decision.blocker = gate.blocker
          /\ Decision.tried = gate.tried \cup {<<target, draft.plan>>}
          /\ Decision.continuations = gate.continuations /\ Decision.pending = "preview"
          /\ Decision.override = gate.override
      BY <1>0, <3>1 DEF Gate
    <3> QED  BY <1>01, <1>5, <2>3, <3>3, <3>4
  <2> QED  BY <2>1, <2>2, <2>3
<1> QED  BY <1>2, <1>3, <1>4, <1>5

\* What the gate may decide when there is no version.
LEMMA MissingKinds ==
    ASSUME Typed, gate.pending = "none", ~ gate.override
    PROVE  LET g == Blocked(gate, <<"missing", 0, 0>>) IN
           /\ g \in Gate /\ g.tried = gate.tried /\ g.blocker = gate.blocker
           /\ g.continuations >= gate.continuations
           /\ \/ g.override /\ g.pending = "none"
              \/ /\ ~ g.override /\ g.pending = "feedback"
                 /\ g.continuations = gate.continuations + 1
<1>1. <<"missing", 0, 0>> \in Fingerprint /\ gate \in Gate
  BY LoopAssumption DEF Typed, Fingerprint, Version, Revision
<1> QED  BY <1>1, BlockedKinds

\* What a check of the target records.
LEMMA ChecksKinds ==
    ASSUME Typed, Checks
    PROVE  /\ truth' \in Truth /\ checked' \in SUBSET (Version \X Revision)
           /\ truth'.mut = truth.mut /\ truth'.mutSeq = truth.mutSeq
           /\ truth'.chk = target /\ truth'.chkSeq = truth.mutSeq
           /\ checked \subseteq checked'
           /\ truth'.ok => <<target, draft.plan>> \in checked'
<1>1. PICK ok \in BOOLEAN : /\ truth' = Recorded(truth, target, ok)
                            /\ checked' = IF ok THEN checked \cup {<<target, draft.plan>>} ELSE checked
  BY DEF Checks, Verdicts
<1>2. truth \in Truth /\ target \in Version  BY DEF Typed
<1>3. /\ truth' \in Truth /\ truth'.mut = truth.mut /\ truth'.mutSeq = truth.mutSeq
      /\ truth'.chk = target /\ truth'.chkSeq = truth.mutSeq /\ truth'.ok = ok
  BY <1>1, <1>2, TruthKinds
<1>4. checked' \in SUBSET (Version \X Revision)  BY <1>1 DEF Typed
<1>5. checked \subseteq checked' /\ (ok => <<target, draft.plan>> \in checked')  BY <1>1
<1> QED  BY <1>3, <1>4, <1>5

LEMMA TypedGate ==
    ASSUME Typed, Placed, GateStep
    PROVE  Typed'
<1> USE DEF Typed, core, talk, rest, ghosts, Fail, Early, Looping, Gating, Ending, Texts, Errors
<1>0. \A g \in Gate : Route(g) =>
        /\ gate' \in Gate /\ screen' \in [shown : SUBSET Nat, cand : Nat]
        /\ pc' \in {"guard", "qa"} /\ text' \in Texts \cup {"not_completed"} /\ err' \in Errors
  BY DEF Route, ToQA, Withdrawn
<1>1. CASE GateReads
  <2>1. gate.pending = "none" /\ ~ gate.override  BY <1>1 DEF GateReads, Placed
  <2>2. gate \in Gate /\ [gate EXCEPT !.hook = FALSE] \in Gate  BY DEF Gate
  <2>3. draft.latest \in Version  OBVIOUS
  <2>4. Blocked(gate, <<"missing", 0, 0>>) \in Gate  BY <2>1, MissingKinds
  <2>5. CASE \E g \in Gate : Route(g)
    <3>1. /\ gate' \in Gate /\ screen' \in [shown : SUBSET Nat, cand : Nat]
          /\ pc' \in {"guard", "qa"} /\ text' \in Texts \cup {"not_completed"} /\ err' \in Errors
      BY <1>0, <2>5
    <3> QED  BY <1>1, <2>3, <3>1 DEF GateReads
  <2>6. CASE ~ \E g \in Gate : Route(g)
    <3>1. pc' \in {"deciding", "checking"} /\ gate' \in Gate /\ UNCHANGED <<err, text, screen>>
      BY <1>1, <2>2, <2>4, <2>6 DEF GateReads
    <3> QED  BY <1>1, <2>3, <3>1 DEF GateReads
  <2> QED  BY <2>5, <2>6
<1>2. CASE Normalize
  <2>1. draft.latest + 1 \in Version  BY <1>2, NewVersion DEF Normalize
  <2>2. [gate EXCEPT !.tidied = draft.latest + 1] \in Gate  BY <2>1 DEF Gate
  <2>3. lease' \in {"none", "held", "lapsed", "lost"} /\ target' \in Version /\ gate' \in Gate
    BY <1>2, <2>1, <2>2 DEF Normalize, LeaseForWrite
  <2>4. draft' \in [latest : Version, plan : Revision] /\ truth' \in Truth
    BY <1>2, NewVersion DEF Normalize
  <2> QED  BY <1>2, <2>3, <2>4 DEF Normalize
<1>3. CASE GateChecks
  <2>1. truth' \in Truth /\ checked' \in SUBSET (Version \X Revision)
    BY <1>3, ChecksKinds DEF GateChecks
  <2>2. gate' \in Gate  BY <1>3 DEF GateChecks, Gate
  <2>3. mishaps' \in Nat  BY <1>3 DEF GateChecks, Mishap
  <2> QED  BY <1>3, <2>1, <2>2, <2>3 DEF GateChecks
<1>4. CASE GateDecides
  <2>1. gate.pending = "none" /\ ~ gate.override  BY <1>4 DEF GateDecides, Placed
  <2> QED  BY <1>0, <1>4, <2>1, DecisionKinds DEF GateDecides
<1>5. CASE FeedbackGiven
  <2>1. gate' \in Gate  BY <1>5 DEF FeedbackGiven, Gate
  <2> QED  BY <1>5, <2>1 DEF FeedbackGiven
<1>6. CASE PreviewRuns
  <2>1. <<"preview", target, draft.plan>> \in Fingerprint  BY DEF Fingerprint
  <2>2. gate' \in Gate
    <3>1. PreviewAccepted(gate) \in Gate
      <4> DEFINE b == IF gate.blocker = target THEN 0 ELSE gate.blocker
      <4>1. b \in Version  BY LoopAssumption DEF Gate, Version
      <4>2. PreviewAccepted(gate) = [gate EXCEPT !.pending = "none", !.blocker = b]
        BY DEF PreviewAccepted
      <4> HIDE DEF b
      <4> QED  BY <4>1, <4>2 DEF Gate
    <3>2. Registered(gate, <<"preview", target, draft.plan>>) \in Gate  BY <2>1, RegisteredKinds
    <3>3. PreviewRefused(gate) \in Gate  BY <3>2 DEF PreviewRefused, Gate
    <3> QED  BY <1>6, <3>1, <3>3 DEF PreviewRuns
  <2>3. viewed' \in SUBSET (Version \X Revision)  BY <1>6 DEF PreviewRuns
  <2> QED  BY <1>6, <2>2, <2>3 DEF PreviewRuns
<1> QED  BY <1>1, <1>2, <1>3, <1>4, <1>5, <1>6 DEF GateStep

LEMMA TypedEnd ==
    ASSUME Typed, EndStep
    PROVE  Typed'
<1> USE DEF Typed, core, talk, rest, ghosts, Early, Looping, Ending, Texts, Errors
<1>1. CASE ReplayConfirmed
  <2>1. lease' \in {"none", "held", "lapsed", "lost"} /\ draft' \in [latest : Version, plan : Revision]
        /\ truth' \in Truth
    BY <1>1, NewVersion DEF ReplayConfirmed, LeaseForWrite
  <2> QED  BY <1>1, <2>1 DEF ReplayConfirmed
<1>2. CASE GuardBegins
  <2>1. gate' \in Gate  BY <1>2 DEF GuardBegins, Gate
  <2>2. target' \in Version  BY <1>2 DEF GuardBegins, Truth
  <2> QED  BY <1>2, <2>1, <2>2 DEF GuardBegins
<1>3. CASE GuardChecks
  <2>1. truth' \in Truth /\ checked' \in SUBSET (Version \X Revision)
    BY <1>3, ChecksKinds DEF GuardChecks
  <2>2. mishaps' \in Nat  BY <1>3 DEF GuardChecks, Mishap
  <2> QED  BY <1>3, <2>1, <2>2 DEF GuardChecks
<1>4. CASE GuardEnds  BY <1>4 DEF GuardEnds, Closing, GuardError
<1>5. CASE CommitRefused  BY <1>5 DEF CommitRefused
<1>6. CASE Commit
  <2>1. Expected(truth) \in Version /\ 0 \in Version
    BY LoopAssumption DEF Expected, Truth, Version
  <2>2. screen' \in [shown : SUBSET Nat, cand : Nat]  BY <1>6 DEF Commit, Withdrawn
  <2>3. reply' \in [kind : {"none", "reply", "turn_failure"},
                    text : Texts \cup {"none", "not_completed"}, version : Version]
    BY <1>6, <2>1 DEF Commit
  <2> QED  BY <1>6, <2>2, <2>3 DEF Commit
<1>7. CASE CommitError
  <2>1. screen' \in [shown : SUBSET Nat, cand : Nat] /\ mishaps' \in Nat
    BY <1>7 DEF CommitError, Withdrawn, Mishap
  <2> QED  BY <1>7, <2>1 DEF CommitError
<1>8. CASE TurnStops
  <2>1. screen' \in [shown : SUBSET Nat, cand : Nat]
    BY <1>8 DEF TurnStops, Withdrawn, AttemptDiscarded
  <2> QED  BY <1>8, <2>1 DEF TurnStops
<1> QED  BY <1>1, <1>2, <1>3, <1>4, <1>5, <1>6, <1>7, <1>8 DEF EndStep

LEMMA TypedOther ==
    ASSUME Typed, OtherStep
    PROVE  Typed'
<1> USE DEF Typed, core, talk, rest, ghosts
<1>1. CASE Cancel
  <2>1. mishaps' \in Nat  BY <1>1 DEF Cancel, Mishap
  <2> QED  BY <1>1, <2>1 DEF Cancel
<1>2. CASE LeaseLapses
  <2>1. mishaps' \in Nat  BY <1>2 DEF LeaseLapses, Mishap
  <2> QED  BY <1>2, <2>1 DEF LeaseLapses
<1>3. CASE LeaseMissed  BY <1>3 DEF LeaseMissed
<1>4. CASE ManualEdit
  <2>1. mishaps' \in Nat /\ draft' \in [latest : Version, plan : Revision]
    BY <1>4, NewVersion DEF ManualEdit, Mishap
  <2> QED  BY <1>4, <2>1 DEF ManualEdit
<1> QED  BY <1>1, <1>2, <1>3, <1>4 DEF OtherStep

LEMMA TypedStep ==
    ASSUME Typed, Placed, [Next]_vars
    PROVE  Typed'
<1>1. CASE UNCHANGED vars  BY <1>1 DEF Typed, vars, core, talk, rest, ghosts
<1> QED  BY <1>1, Steps, TypedModel, TypedCalls, TypedGate, TypedEnd, TypedOther

-----------------------------------------------------------------------------
(* The places of the turn. *)

\* What a step of the gate leaves for the model or for the guard.
LEMMA RouteKinds ==
    ASSUME Typed, NEW g \in Gate, Route(g)
    PROVE  /\ gate' = g
           /\ \/ /\ g.pending = "none" /\ pc' = "guard" /\ UNCHANGED <<err, text, screen>>
              \/ /\ g.pending # "none" /\ screen' = Withdrawn(screen)
                 /\ \/ StepsLeft(2 * rounds) /\ pc' = "qa" /\ UNCHANGED <<err, text>>
                    \/ ~ StepsLeft(2 * rounds) /\ pc' = "guard" /\ err' = "max_steps" /\ text' = "empty"
BY DEF Route, ToQA, Fail

\* What the gate makes of a text that it reads: it passes it, speaks itself,
\* asks the model again, looks at a check it has, or checks.
LEMMA ReadKinds ==
    ASSUME Typed, Placed, GateReads
    PROVE  /\ target' = draft.latest
           /\ \/ (~ Triggered \/ (draft.latest = 0 /\ text = "admits")) /\ Route(gate)
              \/ /\ draft.latest = 0 /\ text # "admits"
                 /\ Route(Blocked(gate, <<"missing", 0, 0>>))
              \/ /\ Triggered /\ draft.latest # 0 /\ gate' = [gate EXCEPT !.hook = FALSE]
                 /\ UNCHANGED <<err, text, screen>>
                 /\ pc' = IF truth.chk = draft.latest THEN "deciding" ELSE "checking"
BY DEF GateReads

LEMMA PlacedInit == Init => Placed
BY DEF Init, Placed, Early, Looping

LEMMA PlacedModel ==
    ASSUME Typed, Placed, ModelStep
    PROVE  Placed'
<1> USE DEF Placed, core, talk, rest, ghosts, Fail, Early, Looping, Gating, Running
<1>1. CASE ModelBegins  BY <1>1 DEF ModelBegins
<1>2. CASE ShowDelta  BY <1>2 DEF ShowDelta
<1>3. CASE AttemptFails  BY <1>3 DEF AttemptFails
<1>4. CASE CallsDelivered  BY <1>4 DEF CallsDelivered
<1>5. CASE TextDelivered  BY <1>5 DEF TextDelivered
<1> QED  BY <1>1, <1>2, <1>3, <1>4, <1>5 DEF ModelStep

LEMMA PlacedCalls ==
    ASSUME Typed, Placed, CallStep
    PROVE  Placed'
<1> USE DEF Placed, core, talk, rest, ghosts, Early, Looping, Gating, Running, Called, Calling, Next1
<1>1. CASE CallEdit  BY <1>1 DEF CallEdit
<1>2. CASE CallPlan
  <2>1. gate'.override = gate.override /\ gate'.pending = gate.pending
    BY <1>2 DEF CallPlan, PlanChanged, Typed, Gate
  <2> QED  BY <1>2, <2>1 DEF CallPlan
<1>3. CASE CallAsk  BY <1>3 DEF CallAsk
<1>4. CASE CallDestroy  BY <1>4 DEF CallDestroy
<1>5. CASE CallConfirm  BY <1>5 DEF CallConfirm
<1>6. CASE CallFails  BY <1>6 DEF CallFails
<1> QED  BY <1>1, <1>2, <1>3, <1>4, <1>5, <1>6 DEF CallStep

LEMMA PlacedGate ==
    ASSUME Typed, Placed, GateStep
    PROVE  Placed'
<1> USE DEF Placed, core, talk, rest, ghosts, Early, Looping, Gating, Running
<1>0. ASSUME NEW g \in Gate, Route(g), UNCHANGED outcome, pc \in Gating,
             g.pending # "none" => ~ g.override
      PROVE  Placed'
  BY <1>0, RouteKinds
<1>1. CASE GateReads
  <2>1. gate.pending = "none" /\ ~ gate.override /\ gate \in Gate /\ err = "none"
        /\ outcome = "none" /\ pc = "branch" /\ outcome' = "none"
    BY <1>1 DEF GateReads, Typed
  <2>2. [gate EXCEPT !.hook = FALSE].pending = "none" /\ ~ [gate EXCEPT !.hook = FALSE].override
        /\ ~ [gate EXCEPT !.hook = FALSE].hook
    BY <2>1 DEF Gate
  <2>3. CASE Route(gate)  BY <1>0, <2>1, <2>3
  <2>4. CASE Route(Blocked(gate, <<"missing", 0, 0>>))  BY <1>0, <2>1, <2>4, MissingKinds
  <2>5. CASE /\ draft.latest # 0 /\ gate' = [gate EXCEPT !.hook = FALSE]
             /\ UNCHANGED <<err, text, screen>>
             /\ pc' = IF truth.chk = draft.latest THEN "deciding" ELSE "checking"
    <3>1. target' = draft.latest /\ pc' \in {"deciding", "checking"}  BY <1>1, <2>5 DEF GateReads
    <3>2. err' = "none" /\ outcome' = "none" /\ target' # 0  BY <2>1, <2>5, <3>1
    <3>3. gate'.pending = "none" /\ ~ gate'.override /\ ~ gate'.hook  BY <2>2, <2>5
    <3> QED  BY <3>1, <3>2, <3>3
  <2> QED  BY <1>1, <2>3, <2>4, <2>5, ReadKinds
<1>2. CASE Normalize
  <2>1. pc = "checking" => target' # 0
    <3>1. CASE target' = draft.latest + 1  BY <3>1 DEF Typed, Version
    <3>2. CASE target' = target  BY <3>2
    <3> QED  BY <1>2, <3>1, <3>2 DEF Normalize
  <2>2. gate'.override = gate.override /\ gate'.pending = gate.pending /\ gate'.hook = gate.hook
    BY <1>2 DEF Normalize, Typed, Gate
  <2> QED  BY <1>2, <2>1, <2>2 DEF Normalize
<1>3. CASE GateChecks
  <2>1. gate'.override = gate.override /\ gate'.pending = gate.pending
    BY <1>3 DEF GateChecks, Typed, Gate
  <2> QED  BY <1>3, <2>1 DEF GateChecks
<1>4. CASE GateDecides
  <2>1. gate.pending = "none" /\ ~ gate.override /\ pc = "deciding" /\ Route(Decision)
        /\ UNCHANGED outcome
    BY <1>4 DEF GateDecides
  <2> QED  BY <1>0, <2>1, DecisionKinds
<1>5. CASE FeedbackGiven
  <2>1. gate'.override = gate.override /\ gate'.pending = "none"
    BY <1>5 DEF FeedbackGiven, Typed, Gate
  <2> QED  BY <1>5, <2>1 DEF FeedbackGiven
<1>6. CASE PreviewRuns
  <2>1. gate'.override = gate.override /\ gate'.pending = "none"
    <3>1. gate \in Gate /\ <<"preview", target, draft.plan>> \in Fingerprint  BY DEF Typed, Fingerprint
    <3> DEFINE r == Registered(gate, <<"preview", target, draft.plan>>)
    <3>2. r \in Gate /\ r.override = gate.override  BY <3>1, RegisteredKinds
    <3>3. PreviewRefused(gate) = [r EXCEPT !.blocker = target, !.pending = "none"]
      BY DEF PreviewRefused
    <3> HIDE DEF r
    <3>4. PreviewRefused(gate).override = gate.override /\ PreviewRefused(gate).pending = "none"
      BY <3>2, <3>3 DEF Gate
    <3>5. PreviewAccepted(gate).override = gate.override /\ PreviewAccepted(gate).pending = "none"
      BY <3>1 DEF PreviewAccepted, Gate
    <3> QED  BY <1>6, <3>4, <3>5 DEF PreviewRuns
  <2> QED  BY <1>6, <2>1 DEF PreviewRuns
<1> QED  BY <1>1, <1>2, <1>3, <1>4, <1>5, <1>6 DEF GateStep

LEMMA PlacedEnd ==
    ASSUME Typed, Placed, EndStep
    PROVE  Placed'
<1> USE DEF Placed, core, talk, rest, ghosts, Early, Looping, Gating, Running
<1>1. CASE ReplayConfirmed  BY <1>1 DEF ReplayConfirmed
<1>2. CASE GuardBegins  BY <1>2 DEF GuardBegins
<1>3. CASE GuardChecks  BY <1>3 DEF GuardChecks
<1>4. CASE GuardEnds  BY <1>4 DEF GuardEnds
<1>5. CASE CommitRefused  BY <1>5 DEF CommitRefused
<1>6. CASE Commit  BY <1>6 DEF Commit
<1>7. CASE CommitError  BY <1>7 DEF CommitError
<1>8. CASE TurnStops  BY <1>8 DEF TurnStops
<1> QED  BY <1>1, <1>2, <1>3, <1>4, <1>5, <1>6, <1>7, <1>8 DEF EndStep

LEMMA PlacedStep ==
    ASSUME Typed, Placed, [Next]_vars
    PROVE  Placed'
<1>1. CASE OtherStep
  BY <1>1 DEF Placed, OtherStep, Cancel, LeaseLapses, LeaseMissed, ManualEdit, core, talk, rest, ghosts
<1>2. CASE UNCHANGED vars  BY <1>2 DEF Placed, vars, core, talk, rest, ghosts
<1> QED  BY <1>1, <1>2, Steps, PlacedModel, PlacedCalls, PlacedGate, PlacedEnd

-----------------------------------------------------------------------------
(* The page. *)

LEMMA ScreenedInit == Init => Screened
BY DEF Init, Screened, Gating, Ending

LEMMA ScreenedStep ==
    ASSUME Typed, Placed, Screened, [Next]_vars
    PROVE  Screened'
<1> USE DEF Screened, core, talk, rest, ghosts, Fail, Gating, Ending
<1>0. screen \in [shown : SUBSET Nat, cand : Nat]  BY DEF Typed
<1>1. CASE ModelStep
  <2>1. CASE ModelBegins  BY <2>1 DEF ModelBegins
  <2>2. CASE ShowDelta
    <3>1. screen'.shown = screen.shown \cup {rounds}  BY <1>0, <2>2 DEF ShowDelta
    <3> QED  BY <2>2, <3>1 DEF ShowDelta
  <2>3. CASE AttemptFails
    <3>1. screen'.shown = screen.shown \ {rounds}  BY <1>0, <2>3 DEF AttemptFails, AttemptDiscarded
    <3> QED  BY <2>3, <3>1 DEF AttemptFails
  <2>4. CASE CallsDelivered
    <3>1. screen'.shown = screen.shown \ {rounds}  BY <1>0, <2>4 DEF CallsDelivered
    <3> QED  BY <2>4, <3>1 DEF CallsDelivered
  <2>5. CASE TextDelivered
    <3>1. CASE text' = "empty"
      <4>1. screen'.shown = screen.shown \ {rounds}
        BY <1>0, <2>5, <3>1 DEF TextDelivered, AttemptDiscarded
      <4> QED  BY <2>5, <3>1, <4>1 DEF TextDelivered
    <3>2. CASE text' # "empty"
      <4>1. screen'.shown = (screen.shown \ {screen.cand}) \cup {rounds} /\ screen'.cand = rounds
        BY <1>0, <2>5, <3>2 DEF TextDelivered, Candidate
      <4> QED  BY <2>5, <3>2, <4>1 DEF TextDelivered
    <3> QED  BY <3>1, <3>2
  <2> QED  BY <1>1, <2>1, <2>2, <2>3, <2>4, <2>5 DEF ModelStep
<1>2. CASE CallStep
  BY <1>2 DEF CallStep, CallEdit, CallPlan, CallAsk, CallDestroy, CallConfirm, CallFails, Called,
              Calling, Next1
<1>3. CASE GateStep
  <2>0. ASSUME NEW g \in Gate, Route(g), pc \in Gating PROVE Screened'
    <3>1. Withdrawn(screen).shown = screen.shown \ {screen.cand}  BY <1>0 DEF Withdrawn
    <3> QED  BY <2>0, <3>1, RouteKinds
  <2>1. CASE GateReads
    <3>1. gate \in Gate /\ gate.pending = "none" /\ ~ gate.override /\ pc = "branch"
      BY <2>1 DEF GateReads, Placed, Early, Looping, Typed
    <3>2. Blocked(gate, <<"missing", 0, 0>>) \in Gate  BY <3>1, MissingKinds
    <3>3. CASE Route(gate)  BY <2>0, <3>1, <3>3
    <3>4. CASE Route(Blocked(gate, <<"missing", 0, 0>>))  BY <2>0, <3>1, <3>2, <3>4
    <3>5. CASE pc' \in {"deciding", "checking"} /\ UNCHANGED screen
      BY <3>1, <3>5
    <3> QED  BY <2>1, <3>3, <3>4, <3>5, ReadKinds
  <2>2. CASE GateDecides
    <3>1. gate.pending = "none" /\ ~ gate.override /\ pc = "deciding" /\ Route(Decision)
      BY <2>2 DEF GateDecides, Placed, Early, Looping
    <3> QED  BY <2>0, <3>1, DecisionKinds
  <2>3. CASE Normalize \/ GateChecks \/ FeedbackGiven \/ PreviewRuns
    BY <2>3 DEF Normalize, GateChecks, FeedbackGiven, PreviewRuns
  <2> QED  BY <1>3, <2>1, <2>2, <2>3 DEF GateStep
<1>4. CASE EndStep
  <2>1. CASE ReplayConfirmed \/ GuardBegins \/ GuardChecks \/ GuardEnds \/ CommitRefused
    BY <2>1 DEF ReplayConfirmed, GuardBegins, GuardChecks, GuardEnds, CommitRefused
  <2>2. CASE Commit \/ CommitError
    <3>1. screen'.shown = screen.shown \ {screen.cand}
      BY <1>0, <2>2 DEF Commit, CommitError, Withdrawn
    <3> QED  BY <2>2, <3>1 DEF Commit, CommitError
  <2>3. CASE TurnStops
    <3>1. screen'.shown = (screen.shown \ {rounds}) \ {screen.cand}
      BY <1>0, <2>3 DEF TurnStops, Withdrawn, AttemptDiscarded
    <3>2. screen.shown \subseteq {rounds} \cup {screen.cand}
      BY DEF Typed, Early, Looping
    <3> QED  BY <2>3, <3>1, <3>2 DEF TurnStops
  <2> QED  BY <1>4, <2>1, <2>2, <2>3 DEF EndStep
<1>5. CASE OtherStep
  BY <1>5 DEF OtherStep, Cancel, LeaseLapses, LeaseMissed, ManualEdit
<1>6. CASE UNCHANGED vars  BY <1>6 DEF vars
<1> QED  BY <1>1, <1>2, <1>3, <1>4, <1>5, <1>6, Steps

-----------------------------------------------------------------------------
(* What the versions and the checks are bounded by. *)

LEMMA BoundedInit == Init => Bounded
<1> SUFFICES ASSUME Init PROVE Bounded  OBVIOUS
<1>1. draft.latest \in {0, 1}  BY DEF Init
<1> QED  BY <1>1 DEF Init, Bounded

\* The counters and versions are numbers.
LEMMA Numbers ==
    ASSUME Typed
    PROVE  /\ draft.latest \in Nat /\ draft.plan \in Nat /\ target \in Nat /\ truth.mut \in Nat
           /\ truth.chk \in Nat /\ truth.mutSeq \in Nat /\ truth.chkSeq \in Nat
           /\ gate.blocker \in Nat /\ rounds \in Nat /\ gate.continuations \in Nat
           /\ gate.continuations <= Passes
           /\ \A x \in gate.tried : x[1] \in Nat /\ x[2] \in Nat
BY LoopAssumption DEF Typed, Version, Revision, Truth, Gate

\* A step that leaves draft and truth alone.
LEMMA BoundedQuiet ==
    ASSUME Typed, Bounded, UNCHANGED <<draft, truth>>, checked \subseteq checked',
           target' \in {target, draft.latest, truth.mut},
           gate'.tried \subseteq gate.tried \cup {<<target, draft.plan>>}
    PROVE  Bounded'
<1>1. target' <= draft.latest  BY Numbers DEF Bounded
<1>2. \A x \in gate'.tried : x[1] <= draft.latest /\ x[2] <= draft.plan
  BY Numbers DEF Bounded
<1> QED  BY <1>1, <1>2 DEF Bounded

\* A new version, written by the turn.
LEMMA BoundedWrite ==
    ASSUME Typed, Bounded, draft.latest < MaxVersion,
           draft' = [draft EXCEPT !.latest = @ + 1],
           truth' = Mutated(truth, draft.latest + 1),
           target' \in {target, draft.latest + 1}, checked' = checked, gate'.tried = gate.tried
    PROVE  Bounded' /\ truth'.mut = draft'.latest /\ truth'.mutSeq > 0 /\ truth'.chk < draft'.latest
<1>1. draft'.latest = draft.latest + 1 /\ draft'.plan = draft.plan /\ draft.latest + 1 \in Version
  BY NewVersion
<1>2. /\ truth'.mut = draft.latest + 1 /\ truth'.chk = truth.chk /\ truth'.chkSeq = truth.chkSeq
      /\ truth'.ok = truth.ok
      /\ truth'.mutSeq = IF truth.mut = draft.latest + 1 THEN truth.mutSeq ELSE truth.mutSeq + 1
  BY <1>1, TruthKinds DEF Typed
<1>3. truth'.mutSeq = truth.mutSeq + 1  BY <1>2, Numbers DEF Bounded
<1>4. \A x \in gate'.tried : x[1] <= draft'.latest /\ x[2] <= draft'.plan
  BY <1>1, Numbers DEF Bounded
<1>5. truth'.mut <= draft'.latest /\ truth'.chk <= draft'.latest /\ target' <= draft'.latest
  BY <1>1, <1>2, Numbers DEF Bounded
<1>6. (truth'.mutSeq > 0 <=> truth'.mut > 0) /\ truth'.chkSeq <= truth'.mutSeq
      /\ truth'.chk # truth'.mut /\ truth'.chk < draft'.latest
  BY <1>1, <1>2, <1>3, Numbers DEF Bounded
<1>7. truth'.ok => truth'.chk > 0 /\ <<truth'.chk, draft'.plan>> \in checked'
  BY <1>1, <1>2 DEF Bounded
<1>8. Bounded'  BY <1>4, <1>5, <1>6, <1>7 DEF Bounded
<1>9. truth'.mutSeq > 0  BY <1>3, Numbers
<1> QED  BY <1>1, <1>2, <1>6, <1>8, <1>9

\* A new version, written by somebody else.
LEMMA BoundedManual ==
    ASSUME Typed, Bounded, ManualEdit
    PROVE  Bounded' /\ draft'.latest = draft.latest + 1 /\ draft'.plan = draft.plan
<1>1. draft'.latest = draft.latest + 1 /\ draft'.plan = draft.plan
  BY NewVersion DEF ManualEdit
<1>2. UNCHANGED <<truth, gate, target, checked>>  BY DEF ManualEdit
<1>3. \A x \in gate'.tried : x[1] <= draft'.latest /\ x[2] <= draft'.plan
  BY <1>1, <1>2, Numbers DEF Bounded
<1>4. truth'.mut <= draft'.latest /\ truth'.chk <= draft'.latest /\ target' <= draft'.latest
  BY <1>1, <1>2, Numbers DEF Bounded
<1>5. Bounded'  BY <1>1, <1>2, <1>3, <1>4 DEF Bounded
<1> QED  BY <1>1, <1>5

\* A check of a target that is not newer than the newest version.
LEMMA BoundedCheck ==
    ASSUME Typed, Bounded, Checks, target # 0,
           UNCHANGED <<draft, target, gate>>
    PROVE  Bounded'
<1>1. /\ truth'.mut = truth.mut /\ truth'.mutSeq = truth.mutSeq
      /\ truth'.chk = target /\ truth'.chkSeq = truth.mutSeq
      /\ truth'.ok => <<target, draft.plan>> \in checked'
  BY ChecksKinds
<1>2. truth'.chk > 0 /\ truth'.chk <= draft'.latest /\ truth'.chkSeq <= truth'.mutSeq
  BY <1>1, Numbers DEF Bounded
<1>3. truth'.mut <= draft'.latest /\ target' <= draft'.latest
      /\ (truth'.mutSeq > 0 <=> truth'.mut > 0)
      /\ \A x \in gate'.tried : x[1] <= draft'.latest /\ x[2] <= draft'.plan
  BY <1>1 DEF Bounded
<1>4. truth'.mutSeq > 0 /\ truth'.chk = truth'.mut => truth'.chkSeq = truth'.mutSeq  BY <1>1
<1>5. truth'.ok => truth'.chk > 0 /\ <<truth'.chk, draft'.plan>> \in checked'
  BY <1>1, <1>2
<1> QED  BY <1>2, <1>3, <1>4, <1>5 DEF Bounded

LEMMA BoundedPlan ==
    ASSUME Typed, Bounded, CallPlan
    PROVE  /\ Bounded' /\ draft'.latest = draft.latest /\ UNCHANGED <<target, checked, viewed>>
           /\ \/ UNCHANGED <<draft, truth, gate>>
              \/ /\ draft'.plan = draft.plan + 1 /\ ~ asked
                 /\ truth'.mut = truth.mut /\ truth'.mutSeq = truth.mutSeq
                 /\ truth'.chk = 0 /\ ~ truth'.ok
                 /\ gate'.tried = gate.tried /\ gate'.continuations = gate.continuations
<1>1. CASE UNCHANGED <<draft, truth, gate>>
  BY <1>1, BoundedQuiet DEF CallPlan, core, ghosts
<1>2. CASE /\ ~ asked /\ draft.plan < MaxPlan /\ draft' = [draft EXCEPT !.plan = @ + 1]
           /\ truth' = Invalidated(truth) /\ gate' = PlanChanged(gate)
  <2>1. draft'.latest = draft.latest /\ draft'.plan = draft.plan + 1  BY <1>2, NewPlan
  <2>2. /\ truth'.mut = truth.mut /\ truth'.mutSeq = truth.mutSeq
        /\ truth'.chk = 0 /\ truth'.chkSeq = 0 /\ ~ truth'.ok
    BY <1>2, TruthKinds DEF Typed
  <2>3. gate'.tried = gate.tried /\ gate'.continuations = gate.continuations
    BY <1>2 DEF PlanChanged, Typed, Gate
  <2>4. UNCHANGED <<target, checked, viewed>>  BY DEF CallPlan, ghosts
  <2>5. \A x \in gate'.tried : x[1] <= draft'.latest /\ x[2] <= draft'.plan
    BY <2>1, <2>3, Numbers DEF Bounded
  <2>6. truth'.mut <= draft'.latest /\ truth'.chk <= draft'.latest /\ target' <= draft'.latest
        /\ (truth'.mutSeq > 0 <=> truth'.mut > 0) /\ truth'.chkSeq <= truth'.mutSeq
        /\ ~ (truth'.mutSeq > 0 /\ truth'.chk = truth'.mut)
    BY <2>1, <2>2, <2>4, Numbers DEF Bounded
  <2>7. Bounded'  BY <2>2, <2>5, <2>6 DEF Bounded
  <2> QED  BY <1>2, <2>1, <2>2, <2>3, <2>4, <2>7
<1> QED  BY <1>1, <1>2 DEF CallPlan

\* What the preview of the QA node changes.
LEMMA PreviewKinds ==
    ASSUME Typed, PreviewRuns
    PROVE  /\ gate'.tried = gate.tried /\ gate'.hook = gate.hook
           /\ gate'.continuations >= gate.continuations
           /\ \/ /\ draft.latest = target /\ viewed' = viewed \cup {<<target, draft.plan>>}
              \/ /\ viewed' = viewed /\ gate'.blocker = target
<1>1. gate \in Gate /\ <<"preview", target, draft.plan>> \in Fingerprint  BY DEF Typed, Fingerprint
<1> DEFINE r == Registered(gate, <<"preview", target, draft.plan>>)
<1>2. r \in Gate /\ r.tried = gate.tried /\ r.hook = gate.hook
      /\ r.continuations >= gate.continuations
  BY <1>1, RegisteredKinds
<1>3. PreviewRefused(gate) = [r EXCEPT !.blocker = target, !.pending = "none"]
  BY DEF PreviewRefused
<1> HIDE DEF r
<1>4. LET g == PreviewRefused(gate) IN
      g.tried = r.tried /\ g.hook = r.hook /\ g.continuations = r.continuations
      /\ g.blocker = target
  BY <1>2, <1>3 DEF Gate
<1>5. LET g == PreviewAccepted(gate) IN
      g.tried = gate.tried /\ g.hook = gate.hook /\ g.continuations = gate.continuations
  BY <1>1 DEF PreviewAccepted, Gate
<1>6. gate.continuations >= gate.continuations  BY Numbers
<1> QED  BY <1>2, <1>4, <1>5, <1>6 DEF PreviewRuns

LEMMA BoundedGate ==
    ASSUME Typed, Placed, Bounded, GateStep
    PROVE  Bounded'
<1> USE DEF core, talk, rest, ghosts
<1>1. CASE GateReads
  <2>1. gate \in Gate /\ gate.pending = "none" /\ ~ gate.override
    BY <1>1 DEF GateReads, Placed, Early, Looping, Gating, Typed
  <2>2. Blocked(gate, <<"missing", 0, 0>>).tried = gate.tried
        /\ Blocked(gate, <<"missing", 0, 0>>) \in Gate
    BY <2>1, MissingKinds
  <2>3. [gate EXCEPT !.hook = FALSE].tried = gate.tried  BY <2>1 DEF Gate
  <2>4. gate'.tried = gate.tried /\ target' = draft.latest
    BY <1>1, <2>1, <2>2, <2>3, ReadKinds, RouteKinds
  <2>5. UNCHANGED <<draft, truth, checked>>  BY <1>1 DEF GateReads
  <2> QED  BY <2>4, <2>5, BoundedQuiet
<1>2. CASE Normalize
  <2>1. gate'.tried = gate.tried /\ UNCHANGED checked  BY <1>2 DEF Normalize, Typed, Gate
  <2> QED  BY <1>2, <2>1, BoundedWrite, BoundedQuiet DEF Normalize
<1>3. CASE GateChecks
  <2>1. UNCHANGED <<draft, target>> /\ target # 0  BY <1>3 DEF GateChecks, Placed
  <2>2. CASE Checks /\ UNCHANGED gate  BY <2>1, <2>2, BoundedCheck
  <2>3. CASE gate' = [gate EXCEPT !.hook = TRUE] /\ UNCHANGED <<truth, checked>>
    <3>1. gate'.tried = gate.tried  BY <2>3 DEF Typed, Gate
    <3> QED  BY <2>1, <2>3, <3>1, BoundedQuiet
  <2> QED  BY <1>3, <2>2, <2>3 DEF GateChecks
<1>4. CASE GateDecides
  <2>1. gate.pending = "none" /\ ~ gate.override /\ Route(Decision)
    BY <1>4 DEF GateDecides, Placed, Early, Looping, Gating
  <2>2. gate'.tried \subseteq gate.tried \cup {<<target, draft.plan>>}
    BY <2>1, DecisionKinds, RouteKinds
  <2>3. UNCHANGED <<draft, truth, target, checked>>  BY <1>4 DEF GateDecides
  <2> QED  BY <2>2, <2>3, BoundedQuiet
<1>5. CASE FeedbackGiven
  <2>1. gate'.tried = gate.tried  BY <1>5 DEF FeedbackGiven, Typed, Gate
  <2> QED  BY <1>5, <2>1, BoundedQuiet DEF FeedbackGiven
<1>6. CASE PreviewRuns
  <2>1. UNCHANGED <<draft, truth, target, checked>>  BY <1>6 DEF PreviewRuns
  <2> QED  BY <1>6, <2>1, PreviewKinds, BoundedQuiet
<1> QED  BY <1>1, <1>2, <1>3, <1>4, <1>5, <1>6 DEF GateStep

LEMMA BoundedEnd ==
    ASSUME Typed, Bounded, Targeted, EndStep
    PROVE  Bounded'
<1> USE DEF core, talk, rest, ghosts
<1>1. CASE ReplayConfirmed
  <2>1. UNCHANGED <<target, checked, gate>>  BY <1>1 DEF ReplayConfirmed
  <2>2. \/ UNCHANGED <<draft, truth>>
        \/ /\ draft.latest < MaxVersion /\ draft' = [draft EXCEPT !.latest = @ + 1]
           /\ truth' = Mutated(truth, draft.latest + 1)
    BY <1>1 DEF ReplayConfirmed
  <2> QED  BY <2>1, <2>2, BoundedWrite, BoundedQuiet
<1>2. CASE GuardBegins
  <2>1. gate'.tried = gate.tried  BY <1>2 DEF GuardBegins, Typed, Gate
  <2>2. target' \in {target, truth.mut} /\ UNCHANGED <<draft, truth, checked>>
    BY <1>2 DEF GuardBegins
  <2> QED  BY <2>1, <2>2, BoundedQuiet
<1>3. CASE GuardChecks
  <2>1. UNCHANGED <<draft, target, gate>>  BY <1>3 DEF GuardChecks
  <2>2. target # 0  BY <1>3, Numbers DEF GuardChecks, Targeted, Bounded
  <2>3. Checks \/ UNCHANGED <<truth, checked>>  BY <1>3 DEF GuardChecks
  <2> QED  BY <2>1, <2>2, <2>3, BoundedCheck, BoundedQuiet
<1>4. CASE GuardEnds \/ CommitRefused \/ Commit \/ CommitError \/ TurnStops
  <2>1. UNCHANGED <<draft, truth, target, gate, checked>>
    BY <1>4 DEF GuardEnds, CommitRefused, Commit, CommitError, TurnStops
  <2> QED  BY <2>1, BoundedQuiet
<1> QED  BY <1>1, <1>2, <1>3, <1>4 DEF EndStep

LEMMA BoundedStep ==
    ASSUME Typed, Placed, Bounded, Targeted, [Next]_vars
    PROVE  Bounded'
<1> USE DEF core, talk, rest, ghosts
<1>1. CASE UNCHANGED <<draft, truth, target, gate, checked>>  BY <1>1, BoundedQuiet
<1>2. CASE CallStep
  <2>1. CASE CallEdit
    <3>1. UNCHANGED <<target, checked, gate>>  BY <2>1 DEF CallEdit
    <3>2. \/ UNCHANGED <<draft, truth>>
          \/ /\ draft.latest < MaxVersion /\ draft' = [draft EXCEPT !.latest = @ + 1]
             /\ truth' = Mutated(truth, draft.latest + 1)
      BY <2>1 DEF CallEdit
    <3> QED  BY <3>1, <3>2, BoundedWrite, BoundedQuiet
  <2>2. CASE CallPlan  BY <2>2, BoundedPlan
  <2>3. CASE CallAsk \/ CallDestroy \/ CallConfirm \/ CallFails
    BY <1>1, <2>3 DEF CallAsk, CallDestroy, CallConfirm, CallFails
  <2> QED  BY <1>2, <2>1, <2>2, <2>3 DEF CallStep
<1>3. CASE ModelStep
  BY <1>1, <1>3 DEF ModelStep, ModelBegins, ShowDelta, AttemptFails, CallsDelivered, TextDelivered
<1>4. CASE OtherStep
  <2>1. CASE ManualEdit  BY <2>1, BoundedManual
  <2>2. CASE Cancel \/ LeaseLapses \/ LeaseMissed
    BY <1>1, <2>2 DEF Cancel, LeaseLapses, LeaseMissed
  <2> QED  BY <1>4, <2>1, <2>2 DEF OtherStep
<1>5. CASE UNCHANGED vars  BY <1>1, <1>5 DEF vars
<1> QED  BY <1>2, <1>3, <1>4, <1>5, BoundedGate, BoundedEnd, Steps

-----------------------------------------------------------------------------
(* What the gate or the guard is checking. *)

\* A step to a place that checks nothing.
LEMMA TargetedElsewhere ==
    ASSUME pc' \notin {"checking", "deciding", "qa", "ensuring"}
    PROVE  Targeted'
BY DEF Targeted

LEMMA TargetedGate ==
    ASSUME Typed, Placed, Bounded, Targeted, GateStep
    PROVE  Targeted'
<1> USE DEF core, talk, rest, ghosts
<1>1. CASE GateReads
  <2>1. gate \in Gate /\ gate.pending = "none" /\ ~ gate.override
    BY <1>1 DEF GateReads, Placed, Early, Looping, Gating, Typed
  <2>2. Blocked(gate, <<"missing", 0, 0>>).tried = gate.tried
        /\ Blocked(gate, <<"missing", 0, 0>>) \in Gate
    BY <2>1, MissingKinds
  <2>3. [gate EXCEPT !.hook = FALSE].tried = gate.tried /\ ~ [gate EXCEPT !.hook = FALSE].hook
    BY <2>1 DEF Gate
  <2>4. gate'.tried = gate.tried /\ target' = draft.latest /\ UNCHANGED <<draft, truth>>
    BY <1>1, <2>1, <2>2, <2>3, ReadKinds, RouteKinds DEF GateReads
  <2>5. \A x \in gate'.tried : x[1] <= target'  BY <2>4 DEF Bounded
  <2>6. truth'.mut <= target'  BY <2>4 DEF Bounded
  <2>7. CASE pc' \in {"guard", "qa"}  BY <2>5, <2>7 DEF Targeted
  <2>8. CASE /\ gate' = [gate EXCEPT !.hook = FALSE]
             /\ pc' = IF truth.chk = draft.latest THEN "deciding" ELSE "checking"
    BY <2>3, <2>4, <2>5, <2>6, <2>8 DEF Targeted
  <2> QED  BY <1>1, <2>1, <2>2, <2>7, <2>8, ReadKinds, RouteKinds
<1>2. CASE Normalize
  <2>1. gate'.tried = gate.tried /\ gate'.hook = gate.hook /\ UNCHANGED <<checked, pc>>
        /\ pc \in {"checking", "ensuring"}
    BY <1>2 DEF Normalize, Typed, Gate
  <2>2. CASE UNCHANGED <<draft, target, truth, gate>>
    BY <2>1, <2>2 DEF Targeted, Matched
  <2>3. CASE /\ draft.latest < MaxVersion /\ draft' = [draft EXCEPT !.latest = @ + 1]
             /\ target' = draft.latest + 1 /\ truth' = Mutated(truth, draft.latest + 1)
    <3>1. truth'.mut = draft'.latest /\ truth'.mutSeq > 0 /\ truth'.chk < draft'.latest
      BY <2>1, <2>3, BoundedWrite
    <3>2. draft'.latest = draft.latest + 1 /\ draft.latest + 1 \in Version
      BY <2>3, NewVersion
    <3>3. target' = truth'.mut /\ draft.latest <= target'  BY <2>3, <3>1, <3>2, Numbers
    <3>4. \A x \in gate'.tried : x[1] <= target'
      <4>1. \A x \in gate.tried : x[1] \in Nat /\ x[1] <= draft.latest  BY Numbers DEF Bounded
      <4>2. draft.latest \in Nat /\ target' = draft.latest + 1  BY <2>3, Numbers
      <4> QED  BY <2>1, <4>1, <4>2
    <3>5. truth'.mut <= target' /\ truth'.chk # draft'.latest /\ ~ Matched(truth)'
      BY <3>1, <3>2, <3>3, Numbers DEF Version, Matched
    <3> QED  BY <2>1, <3>1, <3>3, <3>4, <3>5 DEF Targeted
  <2> QED  BY <1>2, <2>2, <2>3 DEF Normalize
<1>3. CASE GateChecks
  <2>1. UNCHANGED <<draft, target>> /\ pc = "checking" /\ pc' = "deciding" /\ ~ gate.hook
    BY <1>3 DEF GateChecks, Placed
  <2>2. CASE Checks /\ UNCHANGED gate  BY <2>1, <2>2, ChecksKinds DEF Targeted
  <2>3. CASE gate' = [gate EXCEPT !.hook = TRUE] /\ UNCHANGED <<truth, checked>>
    <3>1. gate'.tried = gate.tried /\ gate'.hook  BY <2>3 DEF Typed, Gate
    <3> QED  BY <2>1, <2>3, <3>1 DEF Targeted
  <2> QED  BY <1>3, <2>2, <2>3 DEF GateChecks
<1>4. CASE GateDecides
  <2>1. gate.pending = "none" /\ ~ gate.override /\ Route(Decision) /\ pc = "deciding"
    BY <1>4 DEF GateDecides, Placed, Early, Looping, Gating
  <2>2. gate'.tried \subseteq gate.tried \cup {<<target, draft.plan>>}
    BY <2>1, DecisionKinds, RouteKinds
  <2>3. target' = target /\ pc' \in {"guard", "qa"}
    BY <1>4, <2>1, DecisionKinds, RouteKinds DEF GateDecides
  <2>4. \A x \in gate'.tried : x[1] <= target'
    BY <2>1, <2>2, <2>3, Numbers DEF Targeted
  <2> QED  BY <2>3, <2>4 DEF Targeted
<1>5. CASE FeedbackGiven \/ PreviewRuns
  <2>1. pc' = "model"  BY <1>5 DEF FeedbackGiven, PreviewRuns
  <2> QED  BY <2>1, TargetedElsewhere
<1> QED  BY <1>1, <1>2, <1>3, <1>4, <1>5 DEF GateStep

LEMMA TargetedStep ==
    ASSUME Typed, Placed, Bounded, Targeted, [Next]_vars
    PROVE  Targeted'
<1> USE DEF core, talk, rest, ghosts, Fail
<1>1. CASE ModelStep
  <2>1. pc' \notin {"checking", "deciding", "qa", "ensuring"}
    BY <1>1 DEF ModelStep, ModelBegins, ShowDelta, AttemptFails, CallsDelivered, TextDelivered
  <2> QED  BY <2>1, TargetedElsewhere
<1>2. CASE CallStep
  <2>1. pc' \notin {"checking", "deciding", "qa", "ensuring"}
    BY <1>2 DEF CallStep, CallEdit, CallPlan, CallAsk, CallDestroy, CallConfirm, CallFails, Called,
                Next1
  <2> QED  BY <2>1, TargetedElsewhere
<1>3. CASE EndStep
  <2>1. CASE GuardBegins
    <3>1. CASE Matched(truth)
      <4>1. pc' = "closing"  BY <2>1, <3>1 DEF GuardBegins
      <4> QED  BY <4>1, TargetedElsewhere
    <3>2. CASE ~ Matched(truth)
      <4>1. pc' = "ensuring" /\ target' = truth.mut /\ truth' = truth
        BY <2>1, <3>2 DEF GuardBegins
      <4>2. truth.mutSeq > 0  BY <3>2, Numbers DEF Matched
      <4> QED  BY <3>2, <4>1, <4>2 DEF Targeted, Matched
    <3> QED  BY <3>1, <3>2
  <2>2. CASE ~ GuardBegins
    <3>1. pc' \notin {"checking", "deciding", "qa", "ensuring"}
      BY <1>3, <2>2 DEF EndStep, ReplayConfirmed, GuardChecks, GuardEnds, CommitRefused, Commit,
                        CommitError, TurnStops
    <3> QED  BY <3>1, TargetedElsewhere
  <2> QED  BY <2>1, <2>2
<1>4. CASE OtherStep
  <2>1. CASE ManualEdit
    <3>1. draft'.latest = draft.latest + 1 /\ UNCHANGED <<truth, gate, target, pc>>
      BY <2>1, BoundedManual DEF ManualEdit
    <3>2. truth.chk # draft'.latest  BY <3>1, Numbers DEF Bounded
    <3> QED  BY <3>1, <3>2 DEF Targeted, Matched
  <2>2. CASE Cancel \/ LeaseLapses \/ LeaseMissed
    BY <2>2 DEF Targeted, Matched, Cancel, LeaseLapses, LeaseMissed
  <2> QED  BY <1>4, <2>1, <2>2 DEF OtherStep
<1>5. CASE UNCHANGED vars  BY <1>5 DEF Targeted, Matched, vars
<1> QED  BY <1>1, <1>2, <1>3, <1>4, <1>5, TargetedGate, Steps

-----------------------------------------------------------------------------
(* The previews of the turn. *)

\* A step that changes neither the draft nor what was previewed.
LEMMA PreviewedQuiet ==
    ASSUME Previewed, UNCHANGED <<draft, viewed>>, gate'.tried = gate.tried,
           gate'.blocker = gate.blocker,
           pc' \in Early => pc \in Early /\ ~ (pc = "qa" /\ gate.pending = "preview")
    PROVE  Previewed'
BY DEF Previewed

\* A new version and a new plan have had no preview.
LEMMA PreviewedNew ==
    ASSUME Typed, Bounded, gate'.tried = gate.tried,
           draft'.latest = draft.latest + 1 \/ draft'.plan = draft.plan + 1
    PROVE  Previewed'
<1>1. <<draft'.latest, draft'.plan>> \notin gate'.tried
  <2>1. SUFFICES ASSUME <<draft'.latest, draft'.plan>> \in gate.tried PROVE FALSE  OBVIOUS
  <2>2. draft'.latest <= draft.latest /\ draft'.plan <= draft.plan
    BY <2>1 DEF Bounded
  <2> QED  BY <2>2, Numbers
<1> QED  BY <1>1 DEF Previewed

LEMMA PreviewedGate ==
    ASSUME Typed, Placed, Bounded, Targeted, Previewed, GateStep
    PROVE  Previewed'
<1> USE DEF core, talk, rest, ghosts
<1>1. CASE GateReads
  <2>1. gate \in Gate /\ gate.pending = "none" /\ ~ gate.override /\ pc = "branch"
    BY <1>1 DEF GateReads, Placed, Early, Looping, Gating, Typed
  <2>2. LET b == Blocked(gate, <<"missing", 0, 0>>) IN
        b \in Gate /\ b.tried = gate.tried /\ b.blocker = gate.blocker
    BY <2>1, MissingKinds
  <2>3. LET b == [gate EXCEPT !.hook = FALSE] IN b.tried = gate.tried /\ b.blocker = gate.blocker
    BY <2>1 DEF Gate
  <2>4. gate'.tried = gate.tried /\ gate'.blocker = gate.blocker
    BY <1>1, <2>1, <2>2, <2>3, ReadKinds, RouteKinds
  <2>5. pc \in Early /\ pc # "qa" /\ UNCHANGED <<draft, viewed>>
    BY <1>1, <2>1 DEF GateReads, Early, Looping, Gating
  <2> QED  BY <2>4, <2>5, PreviewedQuiet
<1>2. CASE Normalize
  <2>1. gate'.tried = gate.tried /\ gate'.blocker = gate.blocker /\ UNCHANGED <<viewed, pc>>
        /\ pc # "qa"
    BY <1>2 DEF Normalize, Typed, Gate
  <2>2. CASE UNCHANGED draft  BY <2>1, <2>2, PreviewedQuiet
  <2>3. CASE draft.latest < MaxVersion /\ draft' = [draft EXCEPT !.latest = @ + 1]
    <3>1. draft'.latest = draft.latest + 1  BY <2>3, NewVersion
    <3> QED  BY <2>1, <3>1, PreviewedNew
  <2> QED  BY <1>2, <2>2, <2>3 DEF Normalize
<1>3. CASE GateChecks
  <2>1. gate'.tried = gate.tried /\ gate'.blocker = gate.blocker
    BY <1>3 DEF GateChecks, Typed, Gate
  <2>2. UNCHANGED <<draft, viewed>> /\ pc = "checking"  BY <1>3 DEF GateChecks
  <2> QED  BY <2>1, <2>2, PreviewedQuiet DEF Early, Looping, Gating
<1>4. CASE GateDecides
  <2>1. gate.pending = "none" /\ ~ gate.override /\ Route(Decision) /\ pc = "deciding"
        /\ UNCHANGED <<draft, viewed, target>> /\ target # 0 /\ pc \in Early
    BY <1>4 DEF GateDecides, Placed, Early, Looping, Gating
  <2>2. gate' = Decision /\ gate'.blocker = gate.blocker /\ pc' \in {"guard", "qa"}
    BY <2>1, DecisionKinds, RouteKinds
  <2>3. CASE gate'.tried = gate.tried  BY <2>1, <2>2, <2>3, PreviewedQuiet
  <2>4. CASE gate'.tried = gate.tried \cup {<<target, draft.plan>>} /\ gate'.pending = "preview"
    <3>1. CASE pc' = "guard"  BY <3>1 DEF Previewed, Early, Looping, Gating
    <3>2. CASE pc' = "qa"
      <4>1. SUFFICES ASSUME <<draft.latest, draft.plan>> \in gate'.tried
            PROVE  \/ <<draft.latest, draft.plan>> \in viewed
                   \/ gate'.blocker = draft.latest /\ draft.latest # 0
                   \/ target = draft.latest
        BY <2>1, <2>4, <3>2 DEF Previewed
      <4>2. CASE <<draft.latest, draft.plan>> \in gate.tried
        BY <2>1, <2>2, <4>2 DEF Previewed
      <4>3. CASE <<draft.latest, draft.plan>> = <<target, draft.plan>>  BY <4>3
      <4> QED  BY <2>4, <4>1, <4>2, <4>3
    <3> QED  BY <2>2, <3>1, <3>2
  <2> QED  BY <2>1, <2>2, <2>3, <2>4, DecisionKinds
<1>5. CASE FeedbackGiven
  <2>1. gate'.tried = gate.tried /\ gate'.blocker = gate.blocker
    BY <1>5 DEF FeedbackGiven, Typed, Gate
  <2>2. UNCHANGED <<draft, viewed>> /\ pc = "qa" /\ gate.pending # "preview"
    BY <1>5 DEF FeedbackGiven
  <2> QED  BY <2>1, <2>2, PreviewedQuiet DEF Early, Looping
<1>6. CASE PreviewRuns
  <2>1. UNCHANGED draft /\ pc = "qa" /\ pc \in Early  BY <1>6 DEF PreviewRuns, Early, Looping
  <2>2. CASE draft.latest = target /\ viewed' = viewed \cup {<<target, draft.plan>>}
    BY <2>1, <2>2 DEF Previewed
  <2>3. CASE viewed' = viewed /\ gate'.blocker = target
    <3>1. SUFFICES ASSUME <<draft.latest, draft.plan>> \in gate.tried,
                          <<draft.latest, draft.plan>> \notin viewed
          PROVE  gate'.blocker = draft.latest /\ draft.latest # 0
      BY <1>6, <2>1, <2>3, PreviewKinds DEF Previewed
    <3>2. draft.latest <= target /\ target <= draft.latest
      BY <2>1, <3>1 DEF Targeted, Bounded
    <3>3. draft.latest = target  BY <3>2, Numbers
    <3>4. draft.latest # 0  BY <2>1, <3>1, <3>3 DEF Previewed
    <3> QED  BY <2>3, <3>3, <3>4
  <2> QED  BY <1>6, <2>2, <2>3, PreviewKinds
<1> QED  BY <1>1, <1>2, <1>3, <1>4, <1>5, <1>6 DEF GateStep

LEMMA PreviewedStep ==
    ASSUME Typed, Placed, Bounded, Targeted, Previewed, [Next]_vars
    PROVE  Previewed'
<1> USE DEF core, talk, rest, ghosts, Fail
<1>1. CASE ModelStep
  <2>1. UNCHANGED <<draft, viewed, gate>> /\ pc \in {"model", "typing"}
    BY <1>1 DEF ModelStep, ModelBegins, ShowDelta, AttemptFails, CallsDelivered, TextDelivered
  <2> QED  BY <2>1, PreviewedQuiet DEF Early, Looping
<1>2. CASE CallStep
  <2>1. pc = "tools" /\ pc \in Early
    BY <1>2 DEF CallStep, CallEdit, CallPlan, CallAsk, CallDestroy, CallConfirm, CallFails, Calling,
                Early, Looping
  <2>2. CASE CallEdit
    <3>1. UNCHANGED <<viewed, gate>>  BY <2>2 DEF CallEdit
    <3>2. CASE UNCHANGED draft  BY <2>1, <3>1, <3>2, PreviewedQuiet
    <3>3. CASE draft.latest < MaxVersion /\ draft' = [draft EXCEPT !.latest = @ + 1]
      <4>1. draft'.latest = draft.latest + 1  BY <3>3, NewVersion
      <4> QED  BY <3>1, <4>1, PreviewedNew
    <3> QED  BY <2>2, <3>2, <3>3 DEF CallEdit
  <2>3. CASE CallPlan
    <3>1. UNCHANGED viewed  BY <2>3, BoundedPlan
    <3>2. CASE UNCHANGED <<draft, gate>>  BY <2>1, <3>1, <3>2, PreviewedQuiet
    <3>3. CASE draft'.plan = draft.plan + 1 /\ gate'.tried = gate.tried
      BY <3>3, PreviewedNew
    <3> QED  BY <2>3, <3>2, <3>3, BoundedPlan
  <2>4. CASE CallAsk \/ CallDestroy \/ CallConfirm \/ CallFails
    <3>1. UNCHANGED <<draft, viewed, gate>>
      BY <2>4 DEF CallAsk, CallDestroy, CallConfirm, CallFails
    <3> QED  BY <2>1, <3>1, PreviewedQuiet
  <2> QED  BY <1>2, <2>2, <2>3, <2>4 DEF CallStep
<1>3. CASE EndStep
  <2>1. pc' \notin Early
    BY <1>3 DEF EndStep, ReplayConfirmed, GuardBegins, GuardChecks, GuardEnds, CommitRefused, Commit,
                CommitError, TurnStops, Early, Looping, Gating, Placed
  <2> QED  BY <2>1 DEF Previewed
<1>4. CASE OtherStep
  <2>1. CASE ManualEdit
    <3>1. draft'.latest = draft.latest + 1 /\ UNCHANGED gate
      BY <2>1, BoundedManual DEF ManualEdit
    <3> QED  BY <3>1, PreviewedNew
  <2>2. CASE Cancel \/ LeaseLapses \/ LeaseMissed
    BY <2>2 DEF Previewed, Cancel, LeaseLapses, LeaseMissed
  <2> QED  BY <1>4, <2>1, <2>2 DEF OtherStep
<1>5. CASE UNCHANGED vars  BY <1>5 DEF Previewed, vars
<1> QED  BY <1>1, <1>2, <1>3, <1>4, <1>5, PreviewedGate, Steps

-----------------------------------------------------------------------------
(* What a text that says "done" rests on. *)

\* Where the turn goes on, nothing has been said yet.
LEMMA BackedElsewhere ==
    ASSUME pc' \notin Ending \/ err' # "none" \/ text' # "claims"
    PROVE  Backed'
BY DEF Backed

\* A step of the end that changes no version and takes no proof away.
LEMMA BackedQuiet ==
    ASSUME Backed, UNCHANGED <<draft, intent, truth>>, checked \subseteq checked',
           viewed \subseteq viewed', pc \in Ending,
           pc' \in Ending /\ err' = "none" /\ text' = "claims" =>
              err = "none" /\ text = "claims" /\ (pc = "guard" => ~ gate.override)
    PROVE  Backed'
<1>1. SUFFICES ASSUME pc' \in Ending, err' = "none", text' = "claims", EditingTurn'
               PROVE  Grounded'
  BY DEF Backed
<1>2. EditingTurn  BY <1>1 DEF EditingTurn
<1>3. Grounded  BY <1>1, <1>2 DEF Backed
<1> QED  BY <1>3 DEF Grounded

\* A text that the gate lets pass.
LEMMA Passed ==
    ASSUME Typed, Placed, Bounded, Targeted, Previewed, pc = "deciding", text = "claims",
           Decision = gate, ~ gate.override, gate.pending = "none"
    PROVE  Grounded
<1>1. /\ ~ gate.hook /\ truth.ok /\ ~ (gate.blocker # 0 /\ gate.blocker = target)
      /\ <<target, draft.plan>> \in gate.tried
  BY DecisionKinds DEF PreviewRequired, Claimed
<1>2. truth.chk = target /\ truth.mut <= target /\ target # 0 /\ target <= draft.latest
      /\ <<target, draft.plan>> \in checked
  BY <1>1 DEF Targeted, Placed, Bounded
<1>3. /\ target \in Nat /\ draft.latest \in Nat /\ truth.mut \in Nat /\ truth.mutSeq \in Nat
      /\ (truth.mutSeq > 0 <=> truth.mut > 0)
  BY Numbers DEF Bounded
<1>4. Expected(truth) \in {truth.mut, target} /\ Expected(truth) > 0 /\ Expected(truth) <= target
  BY <1>2, <1>3 DEF Expected
<1>5. CASE Expected(truth) < draft.latest  BY <1>4, <1>5 DEF Grounded
<1>6. CASE Expected(truth) >= draft.latest
  <2>1. Expected(truth) = target /\ target = draft.latest  BY <1>2, <1>3, <1>4, <1>6
  <2>2. truth.mutSeq > 0 => truth.mut = truth.chk  BY <1>2, <2>1 DEF Expected
  <2>3. Matched(truth)  BY <1>3, <2>2 DEF Bounded, Matched
  <2>4. <<target, draft.plan>> \in viewed
    BY <1>1, <1>2, <2>1 DEF Previewed, Early, Looping, Gating
  <2> QED  BY <1>2, <1>4, <2>1, <2>3, <2>4 DEF Grounded
<1> QED  BY <1>3, <1>4, <1>5, <1>6

LEMMA BackedGate ==
    ASSUME Typed, Placed, Bounded, Targeted, Previewed, Backed, GateStep
    PROVE  Backed'
<1> USE DEF core, talk, rest, ghosts
<1>1. CASE GateReads
  <2>1. gate \in Gate /\ gate.pending = "none" /\ ~ gate.override /\ UNCHANGED <<intent, truth>>
    BY <1>1 DEF GateReads, Placed, Early, Looping, Gating, Typed
  <2>2. CASE ~ Triggered /\ Route(gate)
    <3>1. pc' = "guard" /\ text' = text  BY <2>1, <2>2, RouteKinds
    <3>2. text = "claims" => intent = "none" /\ ~ (truth.mutSeq > 0)
      BY <2>2 DEF Triggered, Typed, Intents
    <3>3. text = "claims" => ~ EditingTurn'  BY <2>1, <3>2 DEF EditingTurn
    <3> QED  BY <3>1, <3>3 DEF Backed
  <2>3. CASE text = "admits" /\ Route(gate)
    <3>1. text' = text  BY <2>1, <2>3, RouteKinds
    <3> QED  BY <2>3, <3>1, BackedElsewhere
  <2>4. CASE Route(Blocked(gate, <<"missing", 0, 0>>))
    <3> DEFINE b == Blocked(gate, <<"missing", 0, 0>>)
    <3>1. b \in Gate /\ ((b.override /\ b.pending = "none") \/ b.pending = "feedback")
      BY <2>1, MissingKinds
    <3>2. gate' = b /\ ((pc' = "guard" /\ b.pending = "none") \/ pc' = "qa" \/ err' = "max_steps")
      BY <2>4, <3>1, RouteKinds
    <3> HIDE DEF b
    <3>3. CASE pc' = "guard" /\ b.override  BY <3>2, <3>3 DEF Backed
    <3>4. CASE pc' = "qa" \/ err' = "max_steps"  BY <3>4, BackedElsewhere DEF Ending
    <3> QED  BY <3>1, <3>2, <3>3, <3>4
  <2>5. CASE pc' = IF truth.chk = draft.latest THEN "deciding" ELSE "checking"
    BY <2>5, BackedElsewhere DEF Ending
  <2> QED  BY <1>1, <2>2, <2>3, <2>4, <2>5, ReadKinds
<1>2. CASE Normalize
  <2>1. CASE pc = "checking"
    <3>1. pc' = "checking"  BY <1>2, <2>1 DEF Normalize
    <3> QED  BY <3>1, BackedElsewhere DEF Ending
  <2>2. CASE pc = "ensuring"
    <3>1. UNCHANGED <<err, text, pc, intent>> /\ target = draft.latest  BY <1>2 DEF Normalize
    <3>2. target = truth.mut /\ truth.mutSeq > 0 /\ ~ Matched(truth)  BY <2>2 DEF Targeted
    <3>3. Expected(truth) = draft.latest /\ EditingTurn
      BY <3>1, <3>2 DEF Expected, EditingTurn
    <3>4. ~ Grounded  BY <3>2, <3>3, Numbers DEF Grounded
    <3>5. ~ (err = "none" /\ text = "claims")  BY <2>2, <3>3, <3>4 DEF Backed, Ending
    <3> QED  BY <3>1, <3>5, BackedElsewhere
  <2> QED  BY <1>2, <2>1, <2>2 DEF Normalize
<1>3. CASE GateDecides
  <2>1. gate.pending = "none" /\ ~ gate.override /\ Route(Decision) /\ pc = "deciding"
        /\ UNCHANGED <<draft, intent, truth, checked, viewed>>
    BY <1>3 DEF GateDecides, Placed, Early, Looping, Gating
  <2>2. Decision \in Gate /\ gate' = Decision  BY <2>1, DecisionKinds, RouteKinds
  <2>3. CASE Decision = gate
    <3>1. text' = text  BY <2>1, <2>2, <2>3, RouteKinds
    <3>2. text = "claims" => Grounded  BY <2>1, <2>3, Passed
    <3>3. Grounded => Grounded'  BY <2>1 DEF Grounded
    <3> QED  BY <3>1, <3>2, <3>3 DEF Backed
  <2>4. CASE Decision.override /\ Decision.pending = "none"
    <3>1. pc' = "guard"  BY <2>1, <2>2, <2>4, RouteKinds
    <3> QED  BY <2>2, <2>4, <3>1 DEF Backed
  <2>5. CASE Decision.pending # "none"
    <3>1. pc' = "qa" \/ err' = "max_steps"  BY <2>1, <2>2, <2>5, RouteKinds
    <3> QED  BY <3>1, BackedElsewhere DEF Ending
  <2> QED  BY <2>1, <2>3, <2>4, <2>5, DecisionKinds
<1>4. CASE GateChecks \/ FeedbackGiven \/ PreviewRuns
  <2>1. pc' \in {"deciding", "model"}  BY <1>4 DEF GateChecks, FeedbackGiven, PreviewRuns
  <2> QED  BY <2>1, BackedElsewhere DEF Ending
<1> QED  BY <1>1, <1>2, <1>3, <1>4 DEF GateStep

LEMMA BackedEnd ==
    ASSUME Typed, Placed, Bounded, Targeted, Backed, EndStep
    PROVE  Backed'
<1> USE DEF core, talk, rest, ghosts
<1>1. CASE ReplayConfirmed
  <2>1. text' # "claims"  BY <1>1 DEF ReplayConfirmed, Placed
  <2> QED  BY <2>1, BackedElsewhere
<1>2. CASE GuardBegins
  <2>1. pc = "guard" /\ UNCHANGED <<draft, intent, truth, checked, viewed, err>>
        /\ text' = IF err = "none" /\ gate.override THEN "not_completed" ELSE text
    BY <1>2 DEF GuardBegins
  <2> QED  BY <2>1, BackedQuiet DEF Ending
<1>3. CASE GuardChecks
  <2>1. CASE Checks /\ UNCHANGED <<err, text>>
    <3>1. SUFFICES ASSUME err = "none", text = "claims" PROVE Backed'
      BY <2>1, BackedElsewhere
    <3>2. pc = "ensuring" /\ UNCHANGED <<draft, target>>  BY <1>3 DEF GuardChecks
    <3>3. target = truth.mut /\ truth.mutSeq > 0 /\ ~ Matched(truth)  BY <3>2 DEF Targeted
    <3>4. Grounded  BY <3>1, <3>2, <3>3 DEF Backed, Ending, EditingTurn
    <3>5. truth'.mut = truth.mut /\ truth'.mutSeq = truth.mutSeq  BY <2>1, ChecksKinds
    <3>6. Expected(truth)' = Expected(truth)  BY <3>3, <3>5 DEF Expected
    <3> QED  BY <3>2, <3>3, <3>4, <3>6 DEF Backed, Grounded
  <2>2. CASE err' = "hook_error"  BY <2>2, BackedElsewhere
  <2> QED  BY <1>3, <2>1, <2>2 DEF GuardChecks
<1>4. CASE GuardEnds
  <2>1. pc = "closing" /\ UNCHANGED <<draft, intent, truth, checked, viewed>> /\ Closing
    BY <1>4 DEF GuardEnds
  <2>2. err' = "none" /\ text' = "claims" => err = "none" /\ text = "claims"
    BY <2>1 DEF Closing
  <2> QED  BY <2>1, <2>2, BackedQuiet DEF Ending
<1>5. CASE CommitRefused \/ Commit \/ CommitError \/ TurnStops
  <2>1. pc' = "done" \/ err' # "none"  BY <1>5 DEF CommitRefused, Commit, CommitError, TurnStops
  <2> QED  BY <2>1, BackedElsewhere DEF Ending
<1> QED  BY <1>1, <1>2, <1>3, <1>4, <1>5 DEF EndStep

LEMMA BackedStep ==
    ASSUME Typed, Placed, Bounded, Targeted, Previewed, Backed, [Next]_vars
    PROVE  Backed'
<1> USE DEF core, talk, rest, ghosts, Fail
<1>1. CASE ModelStep
  <2>1. pc' \notin Ending \/ err' # "none" \/ text' = "empty"
    BY <1>1 DEF ModelStep, ModelBegins, ShowDelta, AttemptFails, CallsDelivered, TextDelivered, Ending
  <2> QED  BY <2>1, BackedElsewhere
<1>2. CASE CallStep
  <2>1. pc' \in {"model", "tools"}
    BY <1>2 DEF CallStep, CallEdit, CallPlan, CallAsk, CallDestroy, CallConfirm, CallFails, Called,
                Next1
  <2> QED  BY <2>1, BackedElsewhere DEF Ending
<1>3. CASE OtherStep
  <2>1. CASE ManualEdit
    <3>1. draft'.latest = draft.latest + 1
          /\ UNCHANGED <<intent, truth, gate, text, err, pc, checked, viewed>>
      BY <2>1, BoundedManual DEF ManualEdit
    <3>2. Expected(truth) <= draft.latest /\ Expected(truth) \in Nat /\ draft.latest \in Nat
      BY Numbers DEF Expected, Bounded
    <3>3. Grounded => Grounded'  BY <3>1, <3>2 DEF Grounded
    <3> QED  BY <3>1, <3>3 DEF Backed, EditingTurn
  <2>2. CASE Cancel \/ LeaseLapses \/ LeaseMissed
    BY <2>2 DEF Backed, Grounded, EditingTurn, Cancel, LeaseLapses, LeaseMissed
  <2> QED  BY <1>3, <2>1, <2>2 DEF OtherStep
<1>4. CASE UNCHANGED vars  BY <1>4 DEF Backed, Grounded, EditingTurn, vars
<1> QED  BY <1>1, <1>2, <1>3, <1>4, BackedGate, BackedEnd, Steps

-----------------------------------------------------------------------------
(* What the guard has seen to, and what the reply says. *)

LEMMA GuardedStep ==
    ASSUME Typed, Placed, Bounded, Guarded, [Next]_vars
    PROVE  Guarded'
<1> USE DEF core, talk, rest, ghosts, Fail
<1>1. CASE GuardEnds
  <2>1. UNCHANGED truth /\ Closing  BY <1>1 DEF GuardEnds
  <2>2. SUFFICES ASSUME err' = "none", truth.mutSeq > 0
                 PROVE  Matched(truth) /\ truth.chk > 0 /\ (truth.ok \/ text' = "not_completed")
    BY <2>1 DEF Guarded, Matched
  <2>3. GuardError = "none" /\ err = "none"  BY <2>1, <2>2 DEF Closing
  <2>4. Expected(truth) # 0  BY <2>2, Numbers DEF Expected, Bounded
  <2>5. truth.chk # 0 /\ Matched(truth)  BY <2>2, <2>3, <2>4 DEF GuardError
  <2>6. truth.ok \/ text' = "not_completed"  BY <2>1, <2>2, <2>3, <2>5 DEF Closing
  <2> QED  BY <2>5, <2>6, Numbers
<1>2. CASE CommitRefused  BY <1>2 DEF CommitRefused, Guarded
<1>3. CASE OtherStep
  BY <1>3 DEF OtherStep, Cancel, LeaseLapses, LeaseMissed, ManualEdit, Guarded, Matched
<1>4. CASE UNCHANGED vars  BY <1>4 DEF vars, Guarded, Matched
<1>5. CASE pc' # "commit"  BY <1>5 DEF Guarded
<1>6. ModelStep => pc' # "commit"
  BY DEF ModelStep, ModelBegins, ShowDelta, AttemptFails, CallsDelivered, TextDelivered
<1>7. CallStep => pc' # "commit"
  BY DEF CallStep, CallEdit, CallPlan, CallAsk, CallDestroy, CallConfirm, CallFails, Called, Next1
<1>8. GateStep => pc' # "commit"
  BY DEF GateStep, GateReads, Normalize, GateChecks, GateDecides, FeedbackGiven, PreviewRuns, Route,
         ToQA
<1>9. EndStep => GuardEnds \/ CommitRefused \/ pc' # "commit"
  BY DEF EndStep, ReplayConfirmed, GuardBegins, GuardChecks, Commit, CommitError, TurnStops
<1> QED  BY <1>1, <1>2, <1>3, <1>4, <1>5, <1>6, <1>7, <1>8, <1>9, Steps

\* Only the commit finishes or fails a turn, and nothing follows its end.
LEMMA EndKinds ==
    ASSUME [Next]_vars
    PROVE  \/ UNCHANGED vars
           \/ outcome = "none" /\ Commit
           \/ outcome = "none" /\ outcome' \in {"none", "turn_error", "lease_lost", "cancelled"}
<1> USE DEF core, talk, rest, ghosts, Running
<1>1. ModelStep => outcome = "none" /\ outcome' = "none"
  BY DEF ModelStep, ModelBegins, ShowDelta, AttemptFails, CallsDelivered, TextDelivered
<1>2. CallStep => outcome = "none" /\ outcome' = "none"
  BY DEF CallStep, CallEdit, CallPlan, CallAsk, CallDestroy, CallConfirm, CallFails, Calling
<1>3. GateStep => outcome = "none" /\ outcome' = "none"
  BY DEF GateStep, GateReads, Normalize, GateChecks, GateDecides, FeedbackGiven, PreviewRuns
<1>4. EndStep => outcome = "none" /\ (Commit \/ outcome' \in {"none", "turn_error", "lease_lost", "cancelled"})
  BY DEF EndStep, ReplayConfirmed, GuardBegins, GuardChecks, GuardEnds, CommitRefused, CommitError,
         Commit, TurnStops
<1>5. OtherStep => outcome = "none" /\ outcome' = "none"
  BY DEF OtherStep, Cancel, LeaseLapses, LeaseMissed, ManualEdit
<1> QED  BY <1>1, <1>2, <1>3, <1>4, <1>5, Steps

LEMMA HonestStep ==
    ASSUME Typed, Placed, Backed, HonestReply, [Next]_vars
    PROVE  HonestReply'
<1>1. CASE UNCHANGED vars
  BY <1>1 DEF HonestReply, EditingTurn, vars, core, talk, rest, ghosts
<1>2. CASE outcome = "none" /\ Commit
  <2>1. SUFFICES ASSUME outcome' = "finished", reply'.text = "claims", EditingTurn'
                 PROVE  <<reply'.version, draft'.plan>> \in checked' \cap viewed'
    BY DEF HonestReply
  <2>2. pc = "commit" /\ err = "none" /\ text = "claims" /\ reply'.version = Expected(truth)
        /\ UNCHANGED <<draft, intent, truth, checked, viewed>> /\ ~ Stale
    BY <1>2, <2>1 DEF Commit, core, ghosts
  <2>3. Grounded  BY <2>1, <2>2 DEF Backed, Ending, EditingTurn
  <2>4. Expected(truth) = draft.latest \/ Expected(truth) = 0  BY <2>2 DEF Stale
  <2>5. ~ (Expected(truth) < draft.latest) /\ Expected(truth) # 0
    BY <2>3, <2>4, Numbers DEF Grounded
  <2> QED  BY <2>2, <2>3, <2>5 DEF Grounded
<1>3. CASE outcome' # "finished"  BY <1>3 DEF HonestReply
<1> QED  BY <1>1, <1>2, <1>3, EndKinds

\* The step of RepliesOnLatest.
LEMMA LatestStep ==
    ASSUME Typed, Bounded, Guarded, [Next]_vars, outcome = "none", outcome' = "finished",
           truth.mutSeq > 0
    PROVE  /\ reply'.version = draft.latest
           /\ reply'.text \in {"not_completed", "admits"}
                \/ <<draft.latest, draft.plan>> \in checked
<1>1. Commit  BY EndKinds DEF vars, rest
<1>2. pc = "commit" /\ err = "none" /\ ~ Stale
      /\ reply' = [kind |-> "reply", text |-> text, version |-> Expected(truth)]
  BY <1>1 DEF Commit
<1>3. Matched(truth) /\ truth.chk > 0 /\ (truth.ok \/ text = "not_completed")
  BY <1>2 DEF Guarded
<1>4. Expected(truth) = truth.mut /\ truth.mut # 0  BY Numbers DEF Expected, Bounded
<1>5. truth.mut = draft.latest /\ truth.chk = draft.latest
  BY <1>2, <1>3, <1>4 DEF Stale, Matched
<1>6. truth.ok => <<draft.latest, draft.plan>> \in checked  BY <1>5 DEF Bounded
<1> QED  BY <1>2, <1>3, <1>4, <1>5, <1>6

-----------------------------------------------------------------------------
(* A turn that nothing has gone wrong in. *)

\* What goes wrong is never undone.
LEMMA Undisturbing ==
    ASSUME Typed, [Next]_vars, Undisturbed'
    PROVE  Undisturbed /\ ~ Mishap
<1>1. ~ Mishap  BY DEF Mishap, Undisturbed, Typed
<1>2. ModelStep \/ CallStep => UNCHANGED mishaps
  BY <1>1 DEF ModelStep, ModelBegins, ShowDelta, AttemptFails, CallsDelivered, TextDelivered,
              CallStep, CallEdit, CallPlan, CallAsk, CallDestroy, CallConfirm, CallFails, ghosts
<1>3. GateStep \/ EndStep => UNCHANGED mishaps
  BY <1>1 DEF GateStep, GateReads, Normalize, GateChecks, GateDecides, FeedbackGiven, PreviewRuns,
              EndStep, ReplayConfirmed, GuardBegins, GuardChecks, GuardEnds, CommitRefused, Commit,
              CommitError, TurnStops, ghosts
<1>4. OtherStep => UNCHANGED mishaps
  BY <1>1 DEF OtherStep, Cancel, LeaseLapses, LeaseMissed, ManualEdit, ghosts
<1>5. UNCHANGED mishaps  BY <1>2, <1>3, <1>4, Steps DEF vars, ghosts
<1> QED  BY <1>1, <1>5 DEF Undisturbed

\* A preview is asked for only if the turn may have one.
LEMMA NotSpent ==
    ASSUME Typed, ~ Spent(gate)
    PROVE  Passes > 0
<1>1. IsFiniteSet(Version) /\ IsFiniteSet(Revision)
  BY LoopAssumption, FS_Interval DEF Version, Revision
<1>2. IsFiniteSet(Version \X Revision)  BY <1>1, FS_Product
<1>3. IsFiniteSet(gate.tried)  BY <1>2, FS_Subset DEF Typed, Gate
<1>4. Cardinality(gate.tried) \in Nat  BY <1>3, FS_CardinalityType
<1> QED  BY <1>4, LoopAssumption DEF Spent

\* What holds where the gate decides.
LEMMA Deciding ==
    ASSUME Typed, Placed, Bounded, Targeted, Calm, Undisturbed, pc = "deciding"
    PROVE  /\ target = draft.latest /\ draft.latest # 0
           /\ gate.hook => asked /\ truth.chk # draft.latest
           /\ ~ gate.hook => truth.chk = draft.latest
BY DEF Placed, Targeted, Calm

\* Before tools are called again there is no room for words of the gate's own
\* after a preview, nor for a preview after words of its own.
LEMMA NoRoom ==
    ASSUME Typed, Placed, Bounded, Targeted, Calm, Undisturbed, pc = "deciding"
    PROVE  /\ HadPreview => Decision.pending \notin {"feedback", "preview"}
           /\ NoPreview => Decision.pending # "preview"
<1>1. gate.pending = "none" /\ ~ gate.override
  BY DEF Placed, Early, Looping, Gating
<1>2. ASSUME HadPreview, Decision.pending = "feedback" PROVE FALSE
  <2>1. gate.hook \/ ~ truth.ok  BY <1>1, <1>2, DecisionKinds
  <2> QED  BY <1>2, <2>1, Deciding DEF HadPreview
<1>3. ASSUME Decision.pending = "preview"
      PROVE  ~ gate.hook /\ truth.ok /\ <<target, draft.plan>> \notin gate.tried
  BY <1>1, <1>3, DecisionKinds DEF Claimed
<1>4. ASSUME NoPreview, Decision.pending = "preview" PROVE FALSE
  BY <1>3, <1>4, Deciding DEF NoPreview
<1>5. ASSUME HadPreview, Decision.pending = "preview" PROVE FALSE
  BY <1>3, <1>5, Deciding DEF HadPreview
<1> QED  BY <1>2, <1>4, <1>5

\* The arithmetic of the rounds.
LEMMA VisitsKinds ==
    ASSUME Typed
    PROVE  /\ rounds \in Nat /\ Rounds \in Nat /\ Passes \in Nat /\ gate.continuations \in 0..Passes
           /\ pc \in {"model", "qa"} => Visits = rounds - Rounds
           /\ pc \notin {"model", "qa"} => Visits = rounds - Rounds - 1
           /\ Visits \in Int
BY Numbers, LoopAssumption DEF Visits, Typed, Gate

\* The graph has a step for the QA node that the gate goes to.
LEMMA RoomToDecide ==
    ASSUME Typed, Placed, Bounded, Targeted, Calm, Budgeted, Undisturbed, pc = "deciding",
           Decision.pending # "none"
    PROVE  StepsLeft(2 * rounds)
<1>0. gate.pending = "none" /\ ~ gate.override /\ pc \in Looping
  BY DEF Placed, Early, Looping, Gating
<1>1. Visits = rounds - Rounds - 1 /\ rounds \in Nat /\ Rounds \in Nat /\ Passes \in Nat
      /\ gate.continuations \in 0..Passes
  BY VisitsKinds
<1>2. Decision \in Gate  BY <1>0, DecisionKinds
<1>3. CASE Decision.pending = "feedback"
  <2>1. Decision.continuations = gate.continuations + 1  BY <1>0, <1>3, DecisionKinds
  <2>2. Decision.continuations \in 0..Passes  BY <1>2 DEF Gate
  <2>3. ~ HadPreview  BY <1>3, NoRoom
  <2>4. Visits <= 0 \/ Visits <= gate.continuations  BY <1>0, <2>3 DEF Budgeted
  <2> QED  BY <1>1, <2>1, <2>2, <2>4 DEF StepsLeft
<1>4. CASE Decision.pending = "preview"
  <2>1. ~ Spent(gate)  BY <1>0, <1>4, DecisionKinds
  <2>2. Passes > 0  BY <2>1, NotSpent
  <2>3. ~ HadPreview /\ ~ NoPreview  BY <1>4, NoRoom
  <2>4. Visits <= 0  BY <1>0, <2>3 DEF Budgeted
  <2> QED  BY <1>1, <2>2, <2>4 DEF StepsLeft
<1> QED  BY <1>2, <1>3, <1>4 DEF Gate

LEMMA RoomToRead ==
    ASSUME Typed, Placed, Budgeted, Undisturbed, pc = "branch", draft.latest = 0,
           Blocked(gate, <<"missing", 0, 0>>).pending # "none"
    PROVE  StepsLeft(2 * rounds)
<1> DEFINE b == Blocked(gate, <<"missing", 0, 0>>)
<1>0. gate.pending = "none" /\ ~ gate.override /\ pc \in Looping
  BY DEF Placed, Early, Looping, Gating
<1>1. Visits = rounds - Rounds - 1 /\ rounds \in Nat /\ Rounds \in Nat /\ Passes \in Nat
      /\ gate.continuations \in 0..Passes
  BY VisitsKinds
<1>2. b \in Gate /\ b.continuations = gate.continuations + 1  BY <1>0, MissingKinds
<1>3. b.continuations \in 0..Passes  BY <1>2 DEF Gate
<1>4. Visits <= 0 \/ Visits <= gate.continuations  BY <1>0 DEF Budgeted, HadPreview
<1> QED  BY <1>1, <1>2, <1>3, <1>4 DEF StepsLeft

\* The graph has a step for the model node.
LEMMA RoomToThink ==
    ASSUME Typed, Placed, Budgeted, Undisturbed, pc = "model"
    PROVE  StepsLeft(2 * rounds + 1)
<1>1. Visits = rounds - Rounds /\ rounds \in Nat /\ Rounds \in Nat /\ Passes \in Nat
      /\ gate.continuations \in 0..Passes
  BY VisitsKinds
<1>2. Visits <= Passes  BY <1>1 DEF Budgeted, Looping
<1> QED  BY <1>1, <1>2 DEF StepsLeft

\* Nothing of the gate's is lost or gained on the way.
LEMMA Carried ==
    ASSUME Typed, Budgeted, Undisturbed, UNCHANGED <<draft, truth, asked>>,
           gate'.tried = gate.tried, gate'.continuations \in Nat,
           gate'.continuations >= gate.continuations, pc \in Looping,
           Visits' \in Int, Visits' <= Visits, pc' = "tools" => rounds' <= Rounds
    PROVE  Budgeted'
<1>1. Visits \in Int /\ gate.continuations \in Nat  BY VisitsKinds, Numbers
<1>2. NoPreview' = NoPreview /\ HadPreview' = HadPreview  BY DEF NoPreview, HadPreview
<1>3. CASE Visits <= 0
  <2>1. Visits' <= 0  BY <1>1, <1>3
  <2> QED  BY <2>1 DEF Budgeted
<1>4. CASE Visits <= gate.continuations /\ NoPreview
  <2>1. Visits' <= gate'.continuations  BY <1>1, <1>4
  <2> QED  BY <1>2, <1>4, <2>1 DEF Budgeted
<1>5. CASE Visits <= 1 /\ Passes > 0 /\ HadPreview
  <2>1. Visits' <= 1  BY <1>1, <1>5
  <2> QED  BY <1>2, <1>5, <2>1 DEF Budgeted
<1> QED  BY <1>3, <1>4, <1>5 DEF Budgeted

LEMMA BudgetedInit == Init => Budgeted
<1> SUFFICES ASSUME Init PROVE Budgeted  OBVIOUS
<1>1. pc \in {"model", "replay"} /\ rounds = 0 /\ Rounds \in Nat  BY LoopAssumption DEF Init
<1>2. pc = "model" => Visits <= 0  BY <1>1 DEF Visits
<1> QED  BY <1>1, <1>2 DEF Budgeted, Looping, Gating

\* Where tools are called, or have just been called, the count begins anew.
LEMMA BudgetedAnew ==
    ASSUME rounds' \in Nat, rounds' <= Rounds
    PROVE  Budgeted'
<1>1. Visits' = rounds' - Rounds \/ Visits' = rounds' - Rounds - 1  BY DEF Visits
<1>2. Visits' <= 0  BY <1>1, LoopAssumption
<1> QED  BY <1>2 DEF Budgeted

LEMMA BudgetedModel ==
    ASSUME Typed, Placed, Budgeted, Undisturbed, ~ Mishap, ModelStep
    PROVE  Budgeted'
<1> USE DEF core, talk, rest, ghosts, Fail, Looping, Gating
<1>0. /\ rounds \in Nat /\ Rounds \in Nat /\ gate.continuations \in Nat
      /\ gate.continuations >= gate.continuations
      /\ (pc \in {"model", "qa"} => Visits = rounds - Rounds)
      /\ (pc \notin {"model", "qa"} => Visits = rounds - Rounds - 1)
  BY VisitsKinds, Numbers
<1>00. UNCHANGED <<draft, truth, asked, gate>>
  BY DEF ModelStep, ModelBegins, ShowDelta, AttemptFails, CallsDelivered, TextDelivered
<1>1. CASE ModelBegins
  <2>1. pc = "model" /\ StepsLeft(2 * rounds + 1)  BY <1>1, RoomToThink DEF ModelBegins
  <2>2. pc' = "typing" /\ rounds' = rounds + 1  BY <1>1, <2>1 DEF ModelBegins
  <2>3. Visits' = Visits /\ Visits' \in Int  BY <1>0, <2>1, <2>2 DEF Visits
  <2> QED  BY <1>0, <1>00, <2>1, <2>2, <2>3, Carried
<1>2. CASE ShowDelta \/ (TextDelivered /\ pc' = "branch")
  <2>1. pc = "typing" /\ pc' \in {"typing", "branch"} /\ rounds' = rounds
    BY <1>2 DEF ShowDelta, TextDelivered
  <2>2. Visits' = Visits /\ Visits' \in Int  BY <1>0, <2>1 DEF Visits
  <2> QED  BY <1>0, <1>00, <2>1, <2>2, Carried
<1>3. CASE CallsDelivered
  <2>1. Remaining # 0 /\ rounds' = rounds  BY <1>3 DEF CallsDelivered
  <2>2. rounds <= Rounds  BY <1>0, <2>1 DEF Remaining
  <2> QED  BY <1>0, <2>1, <2>2, BudgetedAnew
<1>4. CASE AttemptFails  BY <1>4 DEF AttemptFails
<1>5. CASE TextDelivered /\ pc' # "branch"  BY <1>5 DEF TextDelivered
<1> QED  BY <1>1, <1>2, <1>3, <1>4, <1>5 DEF ModelStep

LEMMA BudgetedGate ==
    ASSUME Typed, Placed, Bounded, Targeted, Calm, Budgeted, Undisturbed, ~ Mishap, GateStep
    PROVE  Budgeted'
<1> USE DEF core, talk, rest, ghosts, Looping, Gating
<1>0. /\ rounds \in Nat /\ Rounds \in Nat /\ gate.continuations \in Nat
      /\ gate.continuations >= gate.continuations
      /\ (pc \in {"model", "qa"} => Visits = rounds - Rounds)
      /\ (pc \notin {"model", "qa"} => Visits = rounds - Rounds - 1)
  BY VisitsKinds, Numbers
<1>00. rounds' = rounds
  BY DEF GateStep, GateReads, Normalize, GateChecks, GateDecides, FeedbackGiven, PreviewRuns
<1>1. CASE GateReads
  <2>1. gate \in Gate /\ gate.pending = "none" /\ ~ gate.override /\ pc = "branch"
        /\ UNCHANGED <<draft, truth, asked>>
    BY <1>1 DEF GateReads, Placed, Early, Typed
  <2>2. CASE Route(gate)
    <3>1. pc' = "guard"  BY <2>1, <2>2, RouteKinds
    <3> QED  BY <3>1 DEF Budgeted
  <2>3. CASE draft.latest = 0 /\ Route(Blocked(gate, <<"missing", 0, 0>>))
    <3> DEFINE b == Blocked(gate, <<"missing", 0, 0>>)
    <3>1. b \in Gate /\ (b.pending = "none" \/ b.continuations = gate.continuations + 1)
      BY <2>1, MissingKinds
    <3>2. gate' = b /\ (pc' = "guard" \/ (pc' = "qa" /\ b.pending # "none"))
      BY <2>3, <3>1, RouteKinds
    <3> HIDE DEF b
    <3>3. CASE pc' = "guard"  BY <3>3 DEF Budgeted
    <3>4. CASE pc' = "qa" /\ b.continuations = gate.continuations + 1
      <4>1. Visits' = Visits + 1  BY <1>0, <1>00, <2>1, <3>4 DEF Visits
      <4>2. Visits <= 0 \/ Visits <= gate.continuations
        BY <2>1, <2>3 DEF Budgeted, HadPreview
      <4>3. Visits' <= gate'.continuations  BY <1>0, <2>1, <3>2, <3>4, <4>1, <4>2
      <4>4. NoPreview'  BY <2>1, <2>3 DEF NoPreview
      <4> QED  BY <3>4, <4>3, <4>4 DEF Budgeted
    <3> QED  BY <3>1, <3>2, <3>3, <3>4
  <2>4. CASE gate' = [gate EXCEPT !.hook = FALSE] /\ pc' \in {"deciding", "checking"}
    <3>1. gate'.tried = gate.tried /\ gate'.continuations = gate.continuations
      BY <2>1, <2>4 DEF Gate
    <3>2. Visits' = Visits /\ Visits' \in Int  BY <1>0, <1>00, <2>1, <2>4 DEF Visits
    <3> QED  BY <1>0, <2>1, <2>4, <3>1, <3>2, Carried
  <2> QED  BY <1>1, <2>2, <2>3, <2>4, ReadKinds
<1>2. CASE Normalize
  <2>1. pc' = pc /\ asked' = asked /\ pc \in {"checking", "ensuring"}  BY <1>2 DEF Normalize
  <2>2. CASE pc = "ensuring"  BY <2>1, <2>2 DEF Budgeted
  <2>3. CASE pc = "checking" /\ UNCHANGED <<draft, truth, gate>>
    <3>1. Visits' = Visits /\ Visits' \in Int  BY <1>0, <1>00, <2>1, <2>3 DEF Visits
    <3> QED  BY <1>0, <2>1, <2>3, <3>1, Carried
  <2>4. CASE /\ pc = "checking" /\ draft.latest < MaxVersion
             /\ draft' = [draft EXCEPT !.latest = @ + 1]
             /\ target' = draft.latest + 1 /\ truth' = Mutated(truth, draft.latest + 1)
             /\ gate' = [gate EXCEPT !.tidied = draft.latest + 1]
    <3>1. gate'.tried = gate.tried /\ gate'.continuations = gate.continuations
      BY <2>4 DEF Typed, Gate
    <3>2. checked' = checked  BY <1>2 DEF Normalize
    <3>3. truth'.chk < draft'.latest  BY <2>4, <3>1, <3>2, BoundedWrite
    <3>4. draft'.latest = draft.latest + 1 /\ draft'.latest \in Nat
      BY <2>4, NewVersion DEF Version
    <3>5. truth'.chk # draft'.latest
      <4>1. truth'.chk = truth.chk  BY <2>4, NewVersion, TruthKinds DEF Typed
      <4> QED  BY <3>3, <3>4, <4>1, Numbers
    <3>6. target = draft.latest /\ target # 0 /\ truth.chk # draft.latest
      BY <1>2, <2>4 DEF Normalize, Targeted, Placed
    <3>7. ~ HadPreview /\ (NoPreview => asked)  BY <3>6 DEF HadPreview, NoPreview
    <3>8. asked => NoPreview'  BY <2>1, <3>5 DEF NoPreview
    <3>9. Visits' = Visits  BY <1>0, <1>00, <2>1, <2>4 DEF Visits
    <3> QED  BY <2>1, <2>4, <3>1, <3>7, <3>8, <3>9 DEF Budgeted
  <2> QED  BY <1>2, <2>1, <2>2, <2>3, <2>4 DEF Normalize
<1>3. CASE GateChecks
  <2>1. UNCHANGED <<draft, asked, target>> /\ pc = "checking" /\ pc' = "deciding"
    BY <1>3 DEF GateChecks
  <2>2. gate'.tried = gate.tried /\ gate'.continuations = gate.continuations
    BY <1>3 DEF GateChecks, Typed, Gate
  <2>3. Visits' = Visits /\ Visits' \in Int  BY <1>0, <1>00, <2>1 DEF Visits
  <2>4. CASE UNCHANGED truth  BY <1>0, <2>1, <2>2, <2>3, <2>4, Carried
  <2>5. CASE ~ asked
    <3>1. target # 0 /\ target = draft.latest /\ truth.chk # draft.latest
      BY <2>1 DEF Placed, Targeted, Calm
    <3>2. ~ HadPreview /\ ~ NoPreview  BY <2>5, <3>1 DEF HadPreview, NoPreview
    <3>3. Visits <= 0  BY <2>1, <3>2 DEF Budgeted
    <3> QED  BY <2>1, <2>3, <3>3 DEF Budgeted
  <2> QED  BY <1>3, <2>4, <2>5 DEF GateChecks
<1>4. CASE GateDecides
  <2>1. gate.pending = "none" /\ ~ gate.override /\ Route(Decision) /\ pc = "deciding"
        /\ UNCHANGED <<draft, truth, asked>>
    BY <1>4 DEF GateDecides, Placed, Early
  <2>2. Decision \in Gate /\ gate' = Decision  BY <2>1, DecisionKinds, RouteKinds
  <2>3. pc' = "guard" \/ (pc' = "qa" /\ Decision.pending # "none")
    BY <2>1, <2>2, RouteKinds
  <2>4. CASE pc' = "guard"  BY <2>4 DEF Budgeted
  <2>5. CASE pc' = "qa" /\ Decision.pending = "feedback"
    <3>1. Decision.continuations = gate.continuations + 1 /\ (gate.hook \/ ~ truth.ok)
      BY <2>1, <2>5, DecisionKinds
    <3>2. NoPreview'  BY <2>1, <3>1, Deciding DEF NoPreview
    <3>3. Visits <= 0 \/ Visits <= gate.continuations  BY <2>1, <2>5, NoRoom DEF Budgeted
    <3>4. Visits' = Visits + 1  BY <1>0, <1>00, <2>1, <2>5 DEF Visits
    <3>5. Visits' <= gate'.continuations  BY <1>0, <2>1, <2>2, <3>1, <3>3, <3>4
    <3> QED  BY <2>5, <3>2, <3>5 DEF Budgeted
  <2>6. CASE pc' = "qa" /\ Decision.pending = "preview"
    <3>1. Decision.tried = gate.tried \cup {<<target, draft.plan>>}
          /\ ~ gate.hook /\ truth.ok /\ ~ Spent(gate)
      BY <2>1, <2>6, DecisionKinds
    <3>2. HadPreview'  BY <2>1, <2>2, <3>1, Deciding DEF HadPreview
    <3>3. Visits <= 0  BY <2>1, <2>6, NoRoom DEF Budgeted
    <3>4. Visits' = Visits + 1  BY <1>0, <1>00, <2>1, <2>6 DEF Visits
    <3>5. Visits' <= 1  BY <1>0, <2>1, <3>3, <3>4
    <3>6. Passes > 0  BY <3>1, NotSpent
    <3> QED  BY <2>6, <3>2, <3>5, <3>6 DEF Budgeted
  <2> QED  BY <2>2, <2>3, <2>4, <2>5, <2>6 DEF Gate
<1>5. CASE FeedbackGiven \/ PreviewRuns
  <2>1. pc = "qa" /\ pc' = "model" /\ UNCHANGED <<draft, truth, asked>>
    BY <1>5 DEF FeedbackGiven, PreviewRuns
  <2>2. CASE FeedbackGiven
    <3>1. gate'.tried = gate.tried /\ gate'.continuations = gate.continuations
      BY <2>2 DEF FeedbackGiven, Typed, Gate
    <3>2. Visits' = Visits /\ Visits' \in Int  BY <1>0, <1>00, <2>1 DEF Visits
    <3> QED  BY <1>0, <2>1, <3>1, <3>2, Carried
  <2>3. CASE PreviewRuns
    <3>1. gate'.tried = gate.tried /\ gate'.continuations >= gate.continuations
      BY <2>3, PreviewKinds
    <3>2. gate'.continuations \in Nat
      <4>1. gate' \in Gate  BY <2>3, TypedGate DEF GateStep, Typed
      <4> QED  BY <4>1, LoopAssumption DEF Gate
    <3>3. Visits' = Visits /\ Visits' \in Int  BY <1>0, <1>00, <2>1 DEF Visits
    <3> QED  BY <1>0, <2>1, <3>1, <3>2, <3>3, Carried
  <2> QED  BY <1>5, <2>2, <2>3
<1> QED  BY <1>1, <1>2, <1>3, <1>4, <1>5 DEF GateStep

LEMMA BudgetedStep ==
    ASSUME Typed, Placed, Bounded, Targeted, Calm, Budgeted, [Next]_vars
    PROVE  Budgeted'
<1> USE DEF core, talk, rest, ghosts, Looping, Gating
<1>0. SUFFICES ASSUME Undisturbed' PROVE Budgeted'  BY DEF Budgeted
<1>1. Undisturbed /\ ~ Mishap  BY <1>0, Undisturbing
<1>2. CASE CallStep
  <2>1. pc = "tools" /\ rounds' = rounds
    BY <1>2 DEF CallStep, CallEdit, CallPlan, CallAsk, CallDestroy, CallConfirm, CallFails, Calling
  <2>2. rounds <= Rounds  BY <1>1, <2>1 DEF Budgeted
  <2> QED  BY <2>1, <2>2, Numbers, BudgetedAnew
<1>3. CASE EndStep
  <2>1. pc' \notin Looping
    BY <1>3 DEF EndStep, ReplayConfirmed, GuardBegins, GuardChecks, GuardEnds, CommitRefused, Commit,
                CommitError, TurnStops
  <2> QED  BY <2>1 DEF Budgeted
<1>4. CASE OtherStep
  <2>1. LeaseMissed  BY <1>1, <1>4 DEF OtherStep, Cancel, LeaseLapses, ManualEdit
  <2> QED  BY <2>1 DEF LeaseMissed, Budgeted, Undisturbed, Visits, NoPreview, HadPreview
<1>5. CASE UNCHANGED vars
  BY <1>5 DEF vars, Budgeted, Undisturbed, Visits, NoPreview, HadPreview
<1> QED  BY <1>1, <1>2, <1>3, <1>4, <1>5, BudgetedModel, BudgetedGate, Steps

-----------------------------------------------------------------------------
(* What a turn that nothing has gone wrong in says of its version and error. *)

LEMMA CalmInit == Init => Calm
<1> SUFFICES ASSUME Init PROVE Calm  OBVIOUS
<1>1. /\ truth.mutSeq = 0 /\ truth.chk = 0 /\ pc \in {"model", "replay"} /\ text = "plain"
      /\ err = "none"
  BY DEF Init
<1> QED  BY <1>1 DEF Calm

\* A step of the model or of the tools, on which nothing is checked.
LEMMA CalmAgain ==
    ASSUME Calm, Undisturbed, UNCHANGED <<draft, truth, asked, refused, err>>,
           err = "none" => text' # "empty",
           pc' \notin {"checking", "deciding", "qa", "closing", "commit"}
    PROVE  Calm'
BY DEF Calm

LEMMA CalmModel ==
    ASSUME Typed, Placed, Budgeted, Calm, Undisturbed, ~ Mishap, ModelStep
    PROVE  Calm'
<1> USE DEF core, talk, rest, ghosts
<1>0. err = "none" => text # "empty"  BY DEF Calm
<1>1. CASE ModelBegins
  <2>1. StepsLeft(2 * rounds + 1)  BY <1>1, RoomToThink DEF ModelBegins
  <2>2. UNCHANGED <<draft, truth, asked, refused, err, text>> /\ pc' = "typing"
    BY <1>1, <2>1 DEF ModelBegins
  <2> QED  BY <1>0, <2>2, CalmAgain
<1>2. CASE ShowDelta
  <2>1. UNCHANGED <<draft, truth, asked, refused, err, text>> /\ pc' = "typing"
    BY <1>2 DEF ShowDelta
  <2> QED  BY <1>0, <2>1, CalmAgain
<1>3. CASE CallsDelivered
  <2>1. rounds <= Rounds /\ rounds \in Nat /\ Rounds \in Nat /\ Passes \in Nat
    BY <1>3, Numbers, LoopAssumption DEF CallsDelivered, Remaining
  <2>2. StepsLeft(2 * rounds)  BY <2>1 DEF StepsLeft
  <2>3. UNCHANGED <<draft, truth, asked, refused, err, text>> /\ pc' = "tools"
    BY <1>3, <2>2 DEF CallsDelivered
  <2> QED  BY <1>0, <2>3, CalmAgain
<1>4. CASE TextDelivered
  <2>1. UNCHANGED <<draft, truth, asked, refused, err>> /\ pc' = "branch" /\ text' # "empty"
    BY <1>4 DEF TextDelivered
  <2> QED  BY <2>1, CalmAgain
<1>5. CASE AttemptFails  BY <1>5 DEF AttemptFails
<1> QED  BY <1>1, <1>2, <1>3, <1>4, <1>5 DEF ModelStep

LEMMA CalmCalls ==
    ASSUME Typed, Placed, Bounded, Calm, Undisturbed, ~ Mishap, CallStep
    PROVE  Calm'
<1> USE DEF core, talk, rest, ghosts, Called, Calling, Next1
<1>0. err = "none" /\ UNCHANGED <<err, text>> /\ text # "empty" /\ pc' \in {"model", "tools"}
  BY DEF Calm, CallStep, CallEdit, CallPlan, CallAsk, CallDestroy, CallConfirm, CallFails, Placed,
         Early, Looping
<1>1. CASE CallEdit
  <2>1. CASE UNCHANGED <<draft, truth>>
    <3>1. UNCHANGED <<asked, refused>>  BY <1>1 DEF CallEdit
    <3> QED  BY <1>0, <2>1, <3>1, CalmAgain
  <2>2. CASE /\ draft.latest < MaxVersion /\ draft' = [draft EXCEPT !.latest = @ + 1]
             /\ truth' = Mutated(truth, draft.latest + 1)
    <3>1. UNCHANGED <<target, checked, gate>>  BY <1>1 DEF CallEdit
    <3>2. truth'.mut = draft'.latest /\ truth'.mutSeq > 0  BY <2>2, <3>1, BoundedWrite
    <3>3. truth'.mutSeq # 0
      <4>1. truth' \in Truth  BY <2>2, NewVersion
      <4> QED  BY <3>2, <4>1 DEF Truth
    <3> QED  BY <1>0, <3>2, <3>3 DEF Calm
  <2> QED  BY <1>1, <2>1, <2>2 DEF CallEdit
<1>2. CASE CallPlan
  <2>1. UNCHANGED <<asked, refused>>  BY <1>2 DEF CallPlan
  <2>2. CASE UNCHANGED <<draft, truth>>  BY <1>0, <2>1, <2>2, CalmAgain
  <2>3. CASE draft'.latest = draft.latest /\ truth'.mut = truth.mut
             /\ truth'.mutSeq = truth.mutSeq /\ truth'.chk = 0
    BY <1>0, <2>1, <2>3 DEF Calm
  <2> QED  BY <1>2, <2>2, <2>3, BoundedPlan
<1>3. CASE CallAsk \/ CallDestroy \/ CallConfirm
  <2>1. UNCHANGED <<draft, truth>>  BY <1>3 DEF CallAsk, CallDestroy, CallConfirm
  <2> QED  BY <1>0, <2>1 DEF Calm
<1>4. CASE CallFails  BY <1>4 DEF CallFails
<1> QED  BY <1>1, <1>2, <1>3, <1>4 DEF CallStep

LEMMA CalmGate ==
    ASSUME Typed, Placed, Bounded, Targeted, Budgeted, Calm, Undisturbed, ~ Mishap, GateStep
    PROVE  Calm'
<1> USE DEF core, talk, rest, ghosts
<1>0. UNCHANGED <<asked, refused>>
  BY DEF GateStep, GateReads, Normalize, GateChecks, GateDecides, FeedbackGiven, PreviewRuns
<1>1. CASE GateReads
  <2>1. gate \in Gate /\ gate.pending = "none" /\ ~ gate.override /\ pc = "branch"
        /\ UNCHANGED <<draft, truth>> /\ target' = draft.latest
    BY <1>1 DEF GateReads, Placed, Early, Looping, Gating, Typed
  <2>2. CASE Route(gate)
    <3>1. pc' = "guard" /\ UNCHANGED <<err, text>>  BY <2>1, <2>2, RouteKinds
    <3> QED  BY <1>0, <2>1, <3>1 DEF Calm
  <2>3. CASE draft.latest = 0 /\ Route(Blocked(gate, <<"missing", 0, 0>>))
    <3> DEFINE b == Blocked(gate, <<"missing", 0, 0>>)
    <3>1. b \in Gate  BY <2>1, MissingKinds
    <3>2. b.pending # "none" => StepsLeft(2 * rounds)  BY <2>1, <2>3, RoomToRead
    <3>3. pc' \in {"guard", "qa"} /\ UNCHANGED <<err, text>>
      BY <2>3, <3>1, <3>2, RouteKinds
    <3> QED  BY <1>0, <2>1, <3>3 DEF Calm
  <2>4. CASE /\ gate' = [gate EXCEPT !.hook = FALSE] /\ pc' \in {"deciding", "checking"}
             /\ UNCHANGED <<err, text>>
    <3>1. ~ gate'.hook  BY <2>1, <2>4 DEF Gate
    <3> QED  BY <1>0, <2>1, <2>4, <3>1 DEF Calm
  <2> QED  BY <1>1, <2>2, <2>3, <2>4, ReadKinds
<1>2. CASE Normalize
  <2>1. UNCHANGED <<err, text, pc, checked>> /\ pc \in {"checking", "ensuring"}
    BY <1>2 DEF Normalize
  <2>2. CASE UNCHANGED <<draft, target, truth>>  BY <1>0, <2>1, <2>2 DEF Calm
  <2>3. CASE /\ draft.latest < MaxVersion /\ draft' = [draft EXCEPT !.latest = @ + 1]
             /\ target' = draft.latest + 1 /\ truth' = Mutated(truth, draft.latest + 1)
             /\ gate' = [gate EXCEPT !.tidied = draft.latest + 1]
    <3>1. gate'.tried = gate.tried  BY <2>3 DEF Typed, Gate
    <3>2. truth'.mut = draft'.latest /\ truth'.mutSeq > 0  BY <2>1, <2>3, <3>1, BoundedWrite
    <3>3. truth'.mutSeq # 0
      <4>1. truth' \in Truth  BY <2>3, NewVersion
      <4> QED  BY <3>2, <4>1 DEF Truth
    <3>4. target' = draft'.latest  BY <2>3, NewVersion
    <3> QED  BY <1>0, <2>1, <3>2, <3>3, <3>4 DEF Calm
  <2> QED  BY <1>2, <2>2, <2>3 DEF Normalize
<1>3. CASE GateChecks
  <2>1. UNCHANGED <<draft, target, err, text>> /\ pc = "checking" /\ pc' = "deciding"
        /\ ~ gate.hook /\ target = draft.latest
    BY <1>3 DEF GateChecks, Placed, Calm
  <2>2. CASE Checks /\ UNCHANGED gate
    BY <1>0, <2>1, <2>2, ChecksKinds DEF Calm
  <2>3. CASE asked /\ UNCHANGED truth  BY <1>0, <2>1, <2>3 DEF Calm
  <2> QED  BY <1>3, <2>2, <2>3 DEF GateChecks
<1>4. CASE GateDecides
  <2>1. gate.pending = "none" /\ ~ gate.override /\ Route(Decision) /\ pc = "deciding"
        /\ UNCHANGED <<draft, truth, target>>
    BY <1>4 DEF GateDecides, Placed, Early, Looping, Gating
  <2>2. Decision \in Gate  BY <2>1, DecisionKinds
  <2>3. Decision.pending # "none" => StepsLeft(2 * rounds)  BY <2>1, RoomToDecide
  <2>4. pc' \in {"guard", "qa"} /\ UNCHANGED <<err, text>>
    BY <2>1, <2>2, <2>3, RouteKinds
  <2> QED  BY <1>0, <2>1, <2>4 DEF Calm
<1>5. CASE FeedbackGiven \/ PreviewRuns
  <2>1. UNCHANGED <<draft, truth, err, text>> /\ pc' = "model"
    BY <1>5 DEF FeedbackGiven, PreviewRuns
  <2> QED  BY <1>0, <2>1 DEF Calm
<1> QED  BY <1>1, <1>2, <1>3, <1>4, <1>5 DEF GateStep

\* In such a turn the newest version is the one that the reply would be about.
LEMMA CalmExpects ==
    ASSUME Typed, Bounded, Calm, Undisturbed
    PROVE  Expected(truth) \in {0, draft.latest}
BY Numbers DEF Expected, Calm

LEMMA CalmEnd ==
    ASSUME Typed, Placed, Bounded, Targeted, Calm, Undisturbed, ~ Mishap, EndStep
    PROVE  Calm'
<1> USE DEF core, talk, rest, ghosts
<1>0. UNCHANGED <<asked, refused>>
  BY DEF EndStep, ReplayConfirmed, GuardBegins, GuardChecks, GuardEnds, CommitRefused, Commit,
         CommitError, TurnStops
<1>1. CASE ReplayConfirmed
  <2>1. err = "none" /\ text = "plain" /\ pc' = "guard" /\ UNCHANGED <<target, checked, gate>>
    BY <1>1 DEF ReplayConfirmed, Placed, Early
  <2>2. err' = "tool_policy_unresolved" \/ UNCHANGED <<err, text>>  BY <1>1 DEF ReplayConfirmed
  <2>3. CASE UNCHANGED <<draft, truth>>  BY <1>0, <2>1, <2>2, <2>3 DEF Calm
  <2>4. CASE /\ draft.latest < MaxVersion /\ draft' = [draft EXCEPT !.latest = @ + 1]
             /\ truth' = Mutated(truth, draft.latest + 1)
    <3>1. truth'.mut = draft'.latest /\ truth'.mutSeq > 0  BY <2>1, <2>4, BoundedWrite
    <3>2. truth'.mutSeq # 0
      <4>1. truth' \in Truth  BY <2>4, NewVersion
      <4> QED  BY <3>1, <4>1 DEF Truth
    <3> QED  BY <1>0, <2>1, <2>2, <3>1, <3>2 DEF Calm
  <2> QED  BY <1>1, <2>3, <2>4 DEF ReplayConfirmed
<1>2. CASE GuardBegins
  <2>1. UNCHANGED <<draft, truth, err>> /\ text' \in {text, "not_completed"}
    BY <1>2 DEF GuardBegins
  <2>2. pc' = "ensuring" \/ (pc' = "closing" /\ Matched(truth))  BY <1>2 DEF GuardBegins
  <2> QED  BY <1>0, <2>1, <2>2 DEF Calm, Matched
<1>3. CASE GuardChecks
  <2>1. UNCHANGED <<draft, target>> /\ pc = "ensuring" /\ pc' = "closing"
        /\ target = truth.mut /\ truth.mutSeq > 0
    BY <1>3 DEF GuardChecks, Targeted
  <2>2. CASE Checks /\ UNCHANGED <<err, text>>
    <3>1. /\ truth'.mut = truth.mut /\ truth'.mutSeq = truth.mutSeq
          /\ truth'.chk = target /\ truth'.chkSeq = truth.mutSeq
      BY <2>2, ChecksKinds
    <3>2. truth.mutSeq # 0  BY <2>1, Numbers
    <3> QED  BY <1>0, <2>1, <2>2, <3>1, <3>2 DEF Calm, Matched
  <2>3. CASE asked /\ err' = "hook_error" /\ UNCHANGED truth
    BY <1>0, <2>1, <2>3 DEF Calm
  <2> QED  BY <1>3, <2>2, <2>3 DEF GuardChecks
<1>4. CASE GuardEnds
  <2>1. UNCHANGED <<draft, truth>> /\ pc = "closing" /\ pc' = "commit" /\ Closing
    BY <1>4 DEF GuardEnds
  <2>2. Matched(truth) \/ asked  BY <2>1 DEF Calm
  <2>3. err' = "none" => text' # "empty"  BY <2>1 DEF Closing
  <2>4. err' \in {GuardError, err, "no_reply"} /\ (GuardError = "none" => err' \in {err, "no_reply"})
    BY <2>1 DEF Closing
  <2>5. err' = "no_reply" => err = "no_reply" \/ GuardError = "no_reply"
    <3>1. err = "none" => text # "empty"  BY DEF Calm
    <3> QED  BY <2>1, <3>1 DEF Closing
  <2>6. GuardError = "none" \/ refused \/ (asked /\ truth.mutSeq > 0)
    <3>1. SUFFICES ASSUME GuardError # "none", ~ refused PROVE asked /\ truth.mutSeq > 0
      OBVIOUS
    <3>2. Expected(truth) = draft.latest /\ Expected(truth) # 0
      BY <3>1, CalmExpects DEF GuardError
    <3>3. (truth.mutSeq > 0 /\ truth.chk = 0) \/ ~ Matched(truth)
      BY <3>1, <3>2 DEF GuardError
    <3>4. truth.mutSeq > 0  BY <3>3, Numbers DEF Matched
    <3>5. ~ Matched(truth)  BY <3>3, <3>4, Numbers DEF Matched, Bounded
    <3> QED  BY <2>2, <3>4, <3>5
  <2>7. /\ GuardError # "no_reply"
        /\ err' \in {"none", "tool_policy_unresolved"} \/ refused \/ (asked /\ truth.mutSeq > 0)
    <3>1. GuardError # "no_reply"  BY DEF GuardError
    <3>2. err \in {"none", "tool_policy_unresolved"} \/ refused \/ (asked /\ truth.mutSeq > 0)
      BY DEF Calm
    <3> QED  BY <2>4, <2>5, <2>6, <3>1, <3>2
  <2> QED  BY <1>0, <2>1, <2>2, <2>3, <2>7 DEF Calm, Matched
<1>5. CASE CommitRefused  BY <1>5, CalmExpects DEF CommitRefused, Stale
<1>6. CASE Commit \/ CommitError \/ TurnStops
  <2>1. UNCHANGED <<draft, truth, err, text>> /\ pc' = "done"
    BY <1>6 DEF Commit, CommitError, TurnStops
  <2> QED  BY <1>0, <2>1 DEF Calm
<1> QED  BY <1>1, <1>2, <1>3, <1>4, <1>5, <1>6 DEF EndStep

LEMMA CalmStep ==
    ASSUME Typed, Placed, Bounded, Targeted, Budgeted, Calm, [Next]_vars
    PROVE  Calm'
<1>0. SUFFICES ASSUME Undisturbed' PROVE Calm'  BY DEF Calm
<1>1. Undisturbed /\ ~ Mishap  BY <1>0, Undisturbing
<1>2. CASE OtherStep
  <2>1. LeaseMissed  BY <1>1, <1>2 DEF OtherStep, Cancel, LeaseLapses, ManualEdit
  <2> QED  BY <2>1 DEF LeaseMissed, Calm, Undisturbed, Matched, core, talk, rest, ghosts
<1>3. CASE UNCHANGED vars
  BY <1>3 DEF vars, Calm, Undisturbed, Matched, core, talk, rest, ghosts
<1> QED  BY <1>1, <1>2, <1>3, CalmModel, CalmCalls, CalmGate, CalmEnd, Steps

LEMMA BlamedStep ==
    ASSUME Blamed, [Next]_vars
    PROVE  Blamed'
BY EndKinds DEF Blamed, Commit, vars, rest

-----------------------------------------------------------------------------
(* The theorems. *)

LEMMA InvInit == Init => TurnInv
<1> SUFFICES ASSUME Init PROVE TurnInv  OBVIOUS
<1>1. Targeted /\ Previewed /\ Backed /\ Guarded /\ HonestReply /\ Blamed
  <2>1. pc \in {"model", "replay"} /\ gate.tried = {} /\ outcome = "none"  BY DEF Init
  <2> QED  BY <2>1 DEF Targeted, Previewed, Backed, Ending, Guarded, HonestReply, Blamed
<1> QED  BY <1>1, TypedInit, ScreenedInit, PlacedInit, BoundedInit, CalmInit, BudgetedInit DEF TurnInv

LEMMA InvStep ==
    ASSUME TurnInv, [Next]_vars
    PROVE  TurnInv'
<1> USE DEF TurnInv
<1>1. Typed' /\ Screened' /\ Placed' /\ Bounded'
  BY TypedStep, ScreenedStep, PlacedStep, BoundedStep
<1>2. Targeted' /\ Previewed' /\ Backed'  BY TargetedStep, PreviewedStep, BackedStep
<1>3. Guarded' /\ HonestReply' /\ Blamed'  BY GuardedStep, HonestStep, BlamedStep
<1>4. Calm' /\ Budgeted'  BY CalmStep, BudgetedStep
<1> QED  BY <1>1, <1>2, <1>3, <1>4

\* The inductive invariant of a turn: what is on the page, which version the
\* gate and the guard look at, what was previewed, what a text that says "done"
\* rests on, and what the rounds and the gate's words may cost (react_concurrent.go,
\* automatic_preview_qa.go, terminal_truth.go).
THEOREM TurnSafe == Spec => []TurnInv
<1>1. Init => TurnInv  BY InvInit
<1>2. TurnInv /\ [Next]_vars => TurnInv'  BY InvStep
<1> QED  BY <1>1, <1>2, PTL DEF Spec

\* Whatever the bounds, a turn ends within its budgets, no streamed text stays
\* on the page, and a turn that nobody disturbs finishes within the steps that
\* the graph grants it, whatever the gate asks for (WithMaxRunSteps,
\* registerBlocker, claimResult, discardPending).
THEOREM TurnsEndWhole == Spec => []EndsWhole
<1>1. TurnInv => EndsWhole
  <2> SUFFICES ASSUME TurnInv PROVE EndsWhole  OBVIOUS
  <2> USE DEF TurnInv
  <2>1. TypeOK
    <3>1. truth.mut \in Version /\ truth.chk \in Version /\ gate.continuations \in 0..Passes
          /\ gate.pending \in {"none", "feedback", "preview"}
      BY DEF Typed, Truth, Gate
    <3> QED  BY <3>1 DEF Typed, TypeOK, Version, Revision, Early, Looping, Gating, Ending
  <2>2. NothingStreaming  BY DEF NothingStreaming, Placed, Screened
  <2>3. UndisturbedFinishes  BY DEF UndisturbedFinishes, Calm, Undisturbed, Blamed
  <2> QED  BY <2>1, <2>2, <2>3 DEF EndsWhole
<1> QED  BY <1>1, TurnSafe, PTL

\* Whatever the bounds, a reply that says "done" is about a version that was
\* checked and previewed under the plan in force, and the reply of a turn that
\* edited is about the newest version at the moment it is stored
\* (commitFinalReply, terminalTimelineLatestValidation).
THEOREM RepliesAreSound == Spec => RepliesSound
<1>1. TurnInv /\ [Next]_vars =>
        [outcome = "none" /\ outcome' = "finished" /\ truth.mutSeq > 0 =>
           /\ reply'.version = draft.latest
           /\ reply'.text \in {"not_completed", "admits"}
                \/ <<draft.latest, draft.plan>> \in checked]_vars
  BY LatestStep DEF TurnInv
<1>2. TurnInv => HonestReply  BY DEF TurnInv
<1>3. Spec => RepliesOnLatest  BY <1>1, TurnSafe, PTL DEF Spec, RepliesOnLatest
<1>4. Spec => [][HonestReply']_vars  BY <1>2, TurnSafe, PTL
<1> QED  BY <1>3, <1>4 DEF RepliesSound
=============================================================================
