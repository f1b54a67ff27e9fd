----------------------------- MODULE WorldState -----------------------------
(***************************************************************************)
(* The state of the video project as the model is told it                  *)
(* (agent/context_manager.go, agent/context_builder.go): a reference that  *)
(* stays the same for a window, a merge patch (RFC 7396) from it to the    *)
(* present, and the summary of a waveform in it.                           *)
(*                                                                         *)
(* A JSON value is [atom |-> a] or [fields |-> f], f a function from keys  *)
(* to values; an array is an atom, for a patch takes it as a whole.        *)
(***************************************************************************)
EXTENDS Integers, Sequences, FiniteSets, SequencesExt

Atom(a) == [atom |-> a]
Object(f) == [fields |-> f]
Null == Atom("null")
IsObject(v) == DOMAIN v = {"fields"}
Keys(v) == DOMAIN v.fields

\* A patch is a set of none or one value, none where nothing has changed.
\* Mutant: a key that has gone is left out of the patch.
RECURSIVE PatchWithoutRemoved(_, _)
PatchWithoutRemoved(source, target) ==
    IF source = target THEN {}
    ELSE IF ~ IsObject(source) \/ ~ IsObject(target) THEN {target}
    ELSE LET changed == {k \in Keys(target) :
                            IF k \in Keys(source) THEN source.fields[k] # target.fields[k] ELSE TRUE}
         IN  {Object([k \in changed |->
                IF k \notin Keys(source) THEN target.fields[k]
                ELSE CHOOSE p \in PatchWithoutRemoved(source.fields[k], target.fields[k]) : TRUE])}
RECURSIVE mergePatchDifference(_, _)
mergePatchDifference(source, target) ==
    IF source = target THEN {}
    ELSE IF ~ IsObject(source) \/ ~ IsObject(target) THEN {target}
    ELSE LET removed == Keys(source) \ Keys(target)
             changed == {k \in Keys(target) :
                            IF k \in Keys(source) THEN source.fields[k] # target.fields[k] ELSE TRUE}
         IN  {Object([k \in removed \cup changed |->
                IF k \in removed THEN Null
                ELSE IF k \notin Keys(source) THEN target.fields[k]
                ELSE CHOOSE p \in mergePatchDifference(source.fields[k], target.fields[k]) : TRUE])}

\* The timeline and its edits are told afresh before every call of the model and
\* left out here, as is what the timeline uses.
Without(v, keys) == Object([k \in Keys(v) \ keys |-> v.fields[k]])
stableProviderWorldState(world) ==
    LET told == Without(world, {"timeline", "recent_edit_history"}) IN
    Object([k \in Keys(told) |->
        IF k = "assets" /\ IsObject(told.fields[k])
        THEN Without(told.fields[k], {"used_by_timeline"}) ELSE told.fields[k]])

\* What the model is told: the reference of the window and the patch to the present.
renderContextMessages(base, current) ==
    [reference |-> stableProviderWorldState(base),
     patch |-> mergePatchDifference(stableProviderWorldState(base),
                                    stableProviderWorldState(current))]

\* Applying a merge patch, as RFC 7396 has it: null takes a key away.
RECURSIVE Merged(_, _)
Merged(v, patch) ==
    IF ~ IsObject(patch) THEN patch
    ELSE LET old == IF IsObject(v) THEN v.fields ELSE <<>>
             kept == (DOMAIN old \ Keys(patch)) \cup {k \in Keys(patch) : patch.fields[k] # Null}
         IN  Object([k \in kept |->
                IF k \notin Keys(patch) THEN old[k]
                ELSE Merged(IF k \in DOMAIN old THEN old[k] ELSE Null, patch.fields[k])])
\* A key with null says no more than a key that is not there.
RECURSIVE Bare(_)
Bare(v) ==
    IF ~ IsObject(v) THEN v
    ELSE Object([k \in {l \in Keys(v) : v.fields[l] # Null} |-> Bare(v.fields[k])])

-----------------------------------------------------------------------------
(* The waveform of a beat grid: frames and loudness of its points. *)

\* contextResidentWaveformPoints and the longest waveform that is read.
Shorter(waveform, longest) == SubSeq(waveform, 1, IF Len(waveform) < longest THEN Len(waveform) ELSE longest)
Spread(points, resident) ==
    IF points <= resident THEN [k \in 1..points |-> k]
    ELSE [k \in 1..resident |-> ((k - 1) * (points - 1)) \div (resident - 1) + 1]
compactWaveformContext(samples, resident, longest) ==
    LET read == Shorter(samples, longest)
        at == Spread(Len(read), resident)
    IN  [count |-> Len(read), at |-> at, samples |-> [k \in DOMAIN at |-> read[at[k]]]]
=============================================================================
