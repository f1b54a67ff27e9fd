------------------------------ MODULE Footage ------------------------------
(***************************************************************************)
(* How a video is cut into the segments that the material index describes, *)
(* and which of its frames are looked at: the cuts that ffmpeg proposes,   *)
(* their verification by the vision model, windows in long shots           *)
(* (understanding/video_analysis.go), and the further frames of a shot for *)
(* a deep search (understanding/shot_deep.go).                             *)
(*                                                                         *)
(* Times are milliseconds, frames are of 30 a second.  What the pictures   *)
(* show and what the model says of them is left out.                       *)
(***************************************************************************)
EXTENDS Integers, Sequences, FiniteSets, SequencesExt, FiniteSetsExt

MinimumBoundaryDistance == 120
MaxBoundaryCandidates == 24

-----------------------------------------------------------------------------
(* Cuts: proposed, [at, score], in the order of time. *)

\* The n strongest of a sequence, the earlier of two that are equal, in order.
Strongest(s, n) ==
    LET ahead(i) == {j \in DOMAIN s : s[j].score > s[i].score \/ (s[j].score = s[i].score /\ j < i)}
        kept == SelectSeq([i \in DOMAIN s |-> i], LAMBDA i : Cardinality(ahead(i)) < n)
    IN  [k \in DOMAIN kept |-> s[kept[k]]]
Inside(at, duration) == MinimumBoundaryDistance < at /\ at < duration - MinimumBoundaryDistance
selectBoundaryCandidates(candidates, duration, limit) ==
    Strongest(SelectSeq(candidates, LAMBDA c : Inside(c.at, duration)), limit)

unverifiedBoundaries(candidates) ==
    [i \in DOMAIN candidates |-> [at |-> candidates[i].at, score |-> candidates[i].score, verified |-> FALSE]]
\* The model's verdicts: one that it leaves out keeps its cut, unverified.
verifySceneCandidates(candidates, verdict) ==
    LET answered == [i \in DOMAIN candidates |->
            [at |-> candidates[i].at, score |-> candidates[i].score,
             verified |-> verdict[candidates[i].at] = "accept"]]
    IN  SelectSeq(answered, LAMBDA b : verdict[b.at] # "reject")
\* Without a model, and when one of its answers fails, every cut is kept.
Boundaries(candidates, verdict, seen) ==
    IF seen THEN verifySceneCandidates(candidates, verdict) ELSE unverifiedBoundaries(candidates)

\* Of cuts that are too close the stronger stays.
\* Mutant: the distance is taken from the cut that was there first.
KeptFirst(boundaries, duration) ==
    SelectSeq(boundaries, LAMBDA b : /\ Inside(b.at, duration)
        /\ \A c \in ToSet(boundaries) : Inside(c.at, duration) /\ c.at < b.at
                                            => b.at - c.at >= MinimumBoundaryDistance)
Filtered(boundaries, duration) ==
    FoldLeft(LAMBDA kept, b :
        IF ~ Inside(b.at, duration) THEN kept
        ELSE IF kept = <<>> THEN <<b>>
        ELSE IF b.at - Last(kept).at >= MinimumBoundaryDistance THEN Append(kept, b)
        ELSE IF b.score > Last(kept).score THEN Append(Front(kept), b) ELSE kept,
        <<>>, boundaries)

Span(from, to, kind, verified) == [from |-> from, to |-> to, kind |-> kind, verified |-> verified]
SpansBetween(cuts, duration) ==
    <<Span(0, IF cuts = <<>> THEN duration ELSE cuts[1].at, "video_start", FALSE)>>
    \o [k \in DOMAIN cuts |->
          Span(cuts[k].at, IF k < Len(cuts) THEN cuts[k + 1].at ELSE duration,
               "visual_cut", cuts[k].verified)]

\* As long as there is room the longest span is halved if it is longer than a window.
RECURSIVE Windows(_, _, _)
Windows(spans, most, window) ==
    LET length(i) == spans[i].to - spans[i].from
        long == {i \in DOMAIN spans : length(i) > window}
        i == CHOOSE x \in long : /\ \A y \in long : length(y) <= length(x)
                                 /\ \A y \in long : length(y) = length(x) => x <= y
        middle == spans[i].from + length(i) \div 2
    IN  IF Len(spans) >= most \/ long = {} THEN spans
        ELSE Windows(SubSeq(spans, 1, i - 1)
                     \o <<[spans[i] EXCEPT !.to = middle],
                          Span(middle, spans[i].to, "analysis_window", FALSE)>>
                     \o SubSeq(spans, i + 1, Len(spans)), most, window)

videoAnalysisBudget(steps, deep) ==
    IF steps > 0 THEN [most |-> Min({24, steps}), window |-> 6000]
    ELSE IF deep THEN [most |-> 16, window |-> 6000] ELSE [most |-> 8, window |-> 12000]
buildVideoSpans(duration, boundaries, budget) ==
    LET near == Filtered(boundaries, duration)
        cuts == IF Len(near) + 1 > budget.most THEN Strongest(near, budget.most - 1) ELSE near
    IN  Windows(SpansBetween(cuts, duration), budget.most, budget.window)

Frame(at) == (60 * at + 1000) \div 2000
segmentsFromSpans(spans) ==
    [i \in DOMAIN spans |->
        [from |-> Frame(spans[i].from), to |-> Max({Frame(spans[i].from) + 1, Frame(spans[i].to)})]]

\* The moments of a span that are looked at.
segmentFrameTimestamps(span, deep) ==
    LET length == span.to - span.from
        middle == span.from + length \div 2
        first == Min({span.to - 1, span.from + 100})
        last == Max({span.from, span.to - 100})
        within(at) == Min({Max({span.from, at}), Max({span.from, span.to - 1})})
        wanted == IF length <= 300 THEN <<first, last>> ELSE <<first, middle, last>>
    IN  IF ~ deep \/ length <= 200 THEN <<middle>>
        ELSE FoldLeft(LAMBDA s, at : IF within(at) \in ToSet(s) THEN s ELSE Append(s, within(at)),
                      <<>>, wanted)
\* Frames that cannot be read are left out, and the order stays.
extractSegmentFrames(spans, deep, readable) ==
    SelectSeq(FlattenSeq([i \in DOMAIN spans |->
        LET at == segmentFrameTimestamps(spans[i], deep) IN
        [k \in DOMAIN at |-> [segment |-> i, at |-> at[k]]]]), LAMBDA f : f.at \in readable)

\* From the proposals to the segments and the frames to look at.
analyzeVideo(duration, candidates, verdict, seen, steps, deep) ==
    LET chosen == selectBoundaryCandidates(candidates, duration, MaxBoundaryCandidates)
        boundaries == Boundaries(chosen, verdict, seen)
        spans == buildVideoSpans(duration, boundaries, videoAnalysisBudget(steps, deep))
    IN  [boundaries |-> boundaries, spans |-> spans, segments |-> segmentsFromSpans(spans),
         frames |-> extractSegmentFrames(spans, deep, 0..duration)]

-----------------------------------------------------------------------------
(* Further frames of a shot. *)

DetailFacets == {"appearance_detail", "temporal_action", "camera_motion", "text_ocr"}
nearestAvailableDeepFrame(target, start, end, blocked) ==
    LET free == (start..(end - 1)) \ blocked
        away(f) == IF f <= target THEN target - f ELSE f - target
    IN  IF free = {} THEN {}
        ELSE {CHOOSE f \in free : /\ \A g \in free : away(f) <= away(g)
                                  /\ \A g \in free : away(f) = away(g) => f <= g}
planDeepFrameNumbers(start, end, facets, excluded) ==
    LET count == IF facets \cap DetailFacets # {} THEN 7 ELSE 3
        length == end - start
        target(k) == Min({Max({start, start + (2 * k * length + count + 1) \div (2 * (count + 1))}), end - 1})
    IN  FoldLeft(LAMBDA used, k : used \cup nearestAvailableDeepFrame(target(k), start, end, excluded \cup used),
                 {}, [k \in 1..count |-> k])
\* The stored frames of the shot that are not among the base frames, and if they
\* are asked for, new ones; the last nine of them.  In the order of the frames.
deepFrameSamples(start, end, base, reusable, facets, more) ==
    LET old == FoldLeft(LAMBDA s, f : IF f \in start..(end - 1) /\ f \notin base \cup ToSet(s)
                                      THEN Append(s, f) ELSE s, <<>>, reusable)
        new == IF more THEN planDeepFrameNumbers(start, end, facets, base \cup ToSet(old)) ELSE {}
        inOrder(frames) == SelectSeq([k \in 1..(end - start) |-> start + k - 1], LAMBDA f : f \in frames)
        all == old \o inOrder(new)
    IN  inOrder(ToSet(SubSeq(all, Max({1, Len(all) - 8}), Len(all))))
=============================================================================
