-------------------------- MODULE ContentContract --------------------------
(***************************************************************************)
(* The acceptance contract of a content plan and how the harness verifies  *)
(* it (agentexec/content_contract.go, BeatAlignmentData of                 *)
(* agentexec/timeline_integrity.go): lines that must be heard in full,     *)
(* stretches that pictures must lie over, cuts on the beat, length.        *)
(*                                                                         *)
(* A clip is [asset, start, end, from, to, rate], frames of the timeline   *)
(* and of the source, rate the frames of the source per frame.  A film is  *)
(* that of FilterGraph, here with clips, track -> sequence of clips.       *)
(***************************************************************************)
EXTENDS Integers, Sequences, FiniteSets, SequencesExt, FiniteSetsExt

AudioTracks == {"original_audio", "voiceover", "bgm", "sfx"}

-----------------------------------------------------------------------------
(* Lines that must be heard. *)

ContentPreservingClips(film) ==
    LET solo == \E t \in AudioTracks : t \in film.solo /\ t \notin film.muted
        enabled(t) == t \notin film.muted /\ (solo => t \in film.solo)
        plays(t) == IF enabled(t) THEN film.clips[t] ELSE <<>>
        explicit == plays("original_audio") # <<>>
    IN  plays("original_audio") \o plays("voiceover")
        \o (IF enabled("original_audio") /\ ~ explicit /\ "visual_base" \notin film.muted
            THEN film.clips["visual_base"] ELSE <<>>)

\* A clip plays its source at its rate, to a frame.
contentClipPreservesSourceTiming(c) ==
    /\ c.from < c.to /\ c.start < c.end
    /\ LET gap == (c.to - c.from) - (c.end - c.start) * c.rate IN gap \in -1..1
clipsHaveContinuousSourceBoundary(c, d) == c.asset = d.asset /\ c.to = d.from

\* A clip that has the beginning, and those that go on where it ends, as they come.
UtteranceCoveredByClips(clips, asset, start, end) ==
    LET fits(c) == /\ c.asset = asset /\ c.to > start /\ c.from < end
                   /\ contentClipPreservesSourceTiming(c)
        fitting == SelectSeq(clips, fits)
        earlier(i, j) ==
            LET c == fitting[i]
                d == fitting[j]
            IN  \/ c.start < d.start
                \/ c.start = d.start /\ (c.from < d.from \/ (c.from = d.from /\ i < j))
        candidates == [k \in DOMAIN fitting |->
            fitting[CHOOSE i \in DOMAIN fitting :
                        Cardinality({j \in DOMAIN fitting : earlier(j, i)}) = k - 1]]
        goesOn(c, d) == /\ clipsHaveContinuousSourceBoundary(c, d)
                        /\ d.start = c.end /\ d.rate = c.rate
        run(i) == FoldLeft(LAMBDA c, d : IF c.to >= end \/ ~ goesOn(c, d) THEN c ELSE d,
                           candidates[i], SubSeq(candidates, i + 1, Len(candidates)))
    IN  /\ start < end
        /\ \E i \in DOMAIN candidates :
             candidates[i].from <= start /\ start < candidates[i].to /\ run(i).to >= end

\* An utterance is [asset, from, to].
missingRequiredUtterances(film, required) ==
    {u \in required : ~ UtteranceCoveredByClips(ContentPreservingClips(film), u.asset, u.from, u.to)}

-----------------------------------------------------------------------------
(* Pictures over a stretch, cuts on the beat. *)

RECURSIVE CoveredUpto(_, _, _)
CoveredUpto(overlays, cursor, end) ==
    LET furthest == Max({cursor} \cup {o.end : o \in {x \in overlays : x.start <= cursor}}) IN
    IF cursor >= end \/ furthest = cursor THEN cursor ELSE CoveredUpto(overlays, furthest, end)
UncoveredBrollRanges(film, required) ==
    LET overlays == IF "visual_overlay" \in film.muted THEN {} ELSE ToSet(film.clips["visual_overlay"])
    IN  {r \in required : CoveredUpto(overlays, r.start, r.end) < r.end}

\* The frames of the timeline at which a clip plays the frames of its source.
mapEffectFramesToTimeline(c, frames) ==
    {c.start + (2 * (f - c.from) + c.rate) \div (2 * c.rate) : f \in frames \cap (c.from..c.to)}
CutFrames(clips, duration) ==
    {clips[i].end : i \in {k \in DOMAIN clips :
        /\ 0 < clips[k].end /\ clips[k].end < duration
        /\ k < Len(clips) => ~ clipsHaveContinuousSourceBoundary(clips[k], clips[k + 1])}}
\* Within a frame of one of them.
ContainsFrame(frames, target) == frames \cap ((target - 1)..(target + 1)) # {}
\* beats and accents are sets of frames of the source of bgm.
BeatAlignmentData(film, duration, beats, accents) ==
    LET on(frames) == UNION {mapEffectFramesToTimeline(c, frames) : c \in ToSet(film.clips["bgm"])}
        cuts == CutFrames(film.clips["visual_base"], duration)
        onBeat == {f \in cuts : ContainsFrame(on(beats), f)}
    IN  [present |-> on(beats) # {}, cuts |-> cuts, onBeat |-> onBeat,
         onAccent |-> {f \in onBeat : ContainsFrame(on(accents), f)}]

\* The share of the cuts in thousandths, rounded.
Share(hits, cuts) ==
    IF cuts = {} THEN 0
    ELSE (2000 * Cardinality(hits) + Cardinality(cuts)) \div (2 * Cardinality(cuts))
\* The failures of a contract [target, tolerance, keep, cover, beat, accent]:
\* beat and accent are the least shares of cuts on them, or -1 without.
VerifyContentContract(film, duration, beats, accents, contract) ==
    LET alignment == BeatAlignmentData(film, duration, beats, accents)
        misses(least, hits) ==
            least >= 0 /\ (Share(hits, alignment.cuts) < least \/ ~ alignment.present)
    IN  {check \in {"target_duration", "must_keep_utterances", "broll_coverage",
                     "on_beat_ratio", "on_accent_ratio"} :
          CASE check = "target_duration" ->
                 contract.target > 0
                 /\ duration - contract.target \notin (0 - contract.tolerance)..contract.tolerance
            [] check = "must_keep_utterances" -> missingRequiredUtterances(film, contract.keep) # {}
            [] check = "broll_coverage" -> UncoveredBrollRanges(film, contract.cover) # {}
            [] check = "on_beat_ratio" -> misses(contract.beat, alignment.onBeat)
            [] OTHER -> misses(contract.accent, alignment.onAccent)}
=============================================================================
