------------------------------- MODULE Speech -------------------------------
(***************************************************************************)
(* What the speech tools make of a recognition (agentexec/speech_inspect.go*)
(* and talking_head_quality.go) and of the silence and breath that the     *)
(* analysis of the sound found (media/speech_pauses.go), as pure operators.*)
(*                                                                         *)
(* Times are frames; text is a sequence of characters, already lower-cased *)
(* and stripped to letters and digits where the code normalizes it, with   *)
(* Stop for a mark that ends a sentence.  A word is [from, to, text, mark],*)
(* its punctuation being "none", a "comma" or a "stop" that ends a         *)
(* sentence; an utterance is [from, to, text, words]; a pause is [from, to,*)
(* cut, upto], cut..(upto - 1) being the frames that may be deleted.       *)
(* Identifiers are positions.                                              *)
(***************************************************************************)
EXTENDS Integers, Sequences, FiniteSets, SequencesExt

Stop == 0
FPS == 30
Low(x, y) == IF x < y THEN x ELSE y
High(x, y) == IF x > y THEN x ELSE y
Rounded(p, q) == (2 * p + q) \div (2 * q)
Normalized(text) == SelectSeq(text, LAMBDA c : c # Stop)
ByStart(s) == SortSeq(s, LAMBDA x, y : x.from < y.from)
Utterance(from, to, text, words) == [from |-> from, to |-> to, text |-> text, words |-> words]
WordsOf(utterances) == FlattenSeq([i \in DOMAIN utterances |-> utterances[i].words])
FirstOf(s) == CHOOSE i \in s : \A j \in s : i <= j
Upto(s, n) == SubSeq(s, 1, Low(n, Len(s)))

-----------------------------------------------------------------------------
(* Recognition: chunks, clauses, time stamps.                              *)

\* Sound is sent in chunks that end in the last pause more than three seconds
\* in, or where a chunk is full.
MinChunk == 3 * FPS
ChunkEnd(start, duration, pauses, full) ==
    LET ceiling == Low(duration, start + full)
        cuts == SelectSeq([i \in DOMAIN pauses |-> (pauses[i].from + pauses[i].to) \div 2],
                          LAMBDA m : m > start + MinChunk /\ m <= ceiling)
    IN  IF cuts = <<>> THEN ceiling ELSE Last(cuts)
BuildASRChunks(duration, pauses, full) ==
    LET step(chunks, n) ==
            LET start == IF chunks = <<>> THEN 0 ELSE Last(chunks)[2] IN
            IF start >= duration THEN chunks
            ELSE Append(chunks, <<start, ChunkEnd(start, duration, pauses, full)>>)
    IN  FoldLeft(step, <<>>, [n \in 1..(1 + duration \div MinChunk) |-> n])

\* Pieces that end after a stop, none of them empty.
Pieces(s, ends(_)) ==
    LET step(pieces, c) ==
            IF pieces = <<>> \/ ends(Last(Last(pieces))) THEN Append(pieces, <<c>>)
            ELSE [pieces EXCEPT ![Len(pieces)] = Append(@, c)]
    IN  FoldLeft(step, <<>>, s)
splitSpeechClauses(text) == Pieces(text, LAMBDA c : c = Stop)

\* Clauses share a stretch of sound by their lengths, a frame each at least.
AlignRecognizedClauses(text, from, to) ==
    LET clauses == splitSpeechClauses(text)
        n == Len(clauses)
        share(aligned, i) ==
            LET cursor == IF aligned = <<>> THEN from ELSE Last(aligned).to
                spoken == Len(FlattenSeq(SubSeq(clauses, 1, i)))
                ideal == from + Rounded((to - from) * spoken, Len(text))
                end == IF i = n THEN to ELSE High(cursor + 1, Low(ideal, to - (n - i)))
            IN  Append(aligned, Utterance(cursor, end, clauses[i], <<>>))
    IN  IF n = 0 \/ to <= from THEN <<>>
        ELSE FoldLeft(share, <<>>, [i \in 1..n |-> i])

\* Time stamps are counted from the start of the chunk; here they are frames.
ToSource(at, chunk) == High(chunk[1], Low(chunk[1] + High(0, at), chunk[2]))
WordIn(w, chunk) ==
    LET from == ToSource(w.from, chunk)
        to == ToSource(w.to, chunk)
    IN  [w EXCEPT !.from = from, !.to = IF to <= from THEN Low(chunk[2], from + 1) ELSE to]
timestampedWordsToUtterances(words, chunk) ==
    LET said == SelectSeq(words, LAMBDA w : w.text # <<>> /\ w.to > w.from)
        sentences == Pieces(said, LAMBDA w : w.mark = "stop")
        text(s) == FlattenSeq([i \in DOMAIN s |->
                        IF s[i].mark = "stop" THEN Append(s[i].text, Stop) ELSE s[i].text])
        spoken(s) == Utterance(ToSource(s[1].from, chunk), ToSource(Last(s).to, chunk), text(s),
                        SelectSeq([i \in DOMAIN s |-> WordIn(s[i], chunk)],
                                  LAMBDA w : w.to > w.from))
    IN  SelectSeq([i \in DOMAIN sentences |-> spoken(sentences[i])], LAMBDA u : u.to > u.from)

\* A recognition is [text, segments], a segment [from, to, text, words]; one
\* whose segments lack a quarter of the text is not trusted with times.
AlignTimestampedRecognition(recognized, chunk) ==
    LET segments == recognized.segments
        covered == Len(Normalized(FlattenSeq([i \in DOMAIN segments |-> segments[i].text])))
        full == Len(Normalized(recognized.text))
        placed(s) ==
            LET timed == timestampedWordsToUtterances(s.words, chunk) IN
            IF timed # <<>> THEN timed
            ELSE AlignRecognizedClauses(s.text, ToSource(s.from, chunk), ToSource(s.to, chunk))
    IN  IF chunk[2] <= chunk[1] \/ segments = <<>> \/ (full > 0 /\ covered * 4 < full * 3)
        THEN <<>>
        ELSE FlattenSeq([i \in DOMAIN segments |-> placed(segments[i])])
\* What a chunk adds to the transcript.
Recognized(recognized, chunk) ==
    LET timed == AlignTimestampedRecognition(recognized, chunk) IN
    IF timed # <<>> THEN timed
    ELSE AlignRecognizedClauses(recognized.text, chunk[1], chunk[2])
\* A stored transcript that the tools can read again.
Decodable(utterances) ==
    \A i \in DOMAIN utterances : LET u == utterances[i] IN
        /\ u.text # <<>> /\ u.from < u.to
        /\ \A k \in DOMAIN u.words : u.words[k].text # <<>> /\ u.words[k].from < u.words[k].to
DecodeSpeechUtterances(utterances) ==
    ByStart([i \in DOMAIN utterances |-> [utterances[i] EXCEPT !.words = ByStart(@)]])

-----------------------------------------------------------------------------
(* Pauses: silence, breath, gaps between words.                            *)

MinPause == 5
KeepEdge == 2
Pause(from, to, cut, upto) == [from |-> from, to |-> to, cut |-> cut, upto |-> upto]

\* Silences as ffmpeg reports them, <<kind, time>>; at one time the start comes
\* first.
parseSilenceRanges(report, length) ==
    LET sorted == SortSeq(report, LAMBDA x, y :
                    x[2] < y[2] \/ (x[2] = y[2] /\ x[1] = "start" /\ y[1] = "end"))
        step(state, line) ==
            IF line[1] = "start" THEN [state EXCEPT !.open = line[2]]
            ELSE IF state.open >= 0 /\ line[2] > state.open
            THEN [open |-> -1, ranges |-> Append(state.ranges, <<state.open, line[2]>>)]
            ELSE state
        end == FoldLeft(step, [open |-> -1, ranges |-> <<>>], sorted)
    IN  IF end.open >= 0 /\ length > end.open
        THEN Append(end.ranges, <<end.open, length>>) ELSE end.ranges

Inner(range, length) == range[1] # 0 /\ range[2] < length
SilencePauses(ranges, length) ==
    LET long == SelectSeq(ranges, LAMBDA r : /\ Low(length, r[2]) - r[1] >= MinPause
                                             /\ Inner(r, length))
    IN  SelectSeq([i \in DOMAIN long |->
            LET r == long[i]
                cut == Low(r[2], r[1] + KeepEdge)
            IN  Pause(r[1], r[2], cut, High(cut, r[2] - KeepEdge))],
            LAMBDA p : p.upto > p.cut)

\* Stretches of frames that sound like breath; a gap of a few frames is bridged
\* and the last stretch reaches to the end of the flags.
mergeFrameFlags(flags) ==
    LET step(state, f) ==
            IF flags[f]
            THEN [state EXCEPT !.start = IF @ < 0 THEN f - 1 ELSE @, !.gap = 0]
            ELSE IF state.start < 0 THEN state
            ELSE IF state.gap < KeepEdge THEN [state EXCEPT !.gap = @ + 1]
            ELSE [start |-> -1, gap |-> 0,
                  found |-> Append(state.found, <<state.start, f - 1 - KeepEdge>>)]
        end == FoldLeft(step, [start |-> -1, gap |-> 0, found |-> <<>>],
                        [f \in DOMAIN flags |-> f])
        found == IF end.start < 0 THEN end.found
                 ELSE Append(end.found, <<end.start, Len(flags)>>)
    IN  SelectSeq(found, LAMBDA r : r[2] - r[1] >= MinPause)
dropBoundaryRanges(ranges, length) == SelectSeq(ranges, LAMBDA r : Inner(r, length))

Hull(p, q) == Pause(Low(p.from, q.from), High(p.to, q.to), Low(p.cut, q.cut), High(p.upto, q.upto))
\* Pauses that come within a distance of each other become one.
MergedWithin(pauses, distance) ==
    FoldLeft(LAMBDA merged, p :
        IF merged # <<>> /\ p.from <= Last(merged).to + distance
        THEN [merged EXCEPT ![Len(merged)] = Hull(@, p)] ELSE Append(merged, p),
        <<>>, ByStart(pauses))
mergePausesWithBreath(pauses, breaths) ==
    MergedWithin(pauses \o [i \in DOMAIN breaths |->
        Pause(breaths[i][1], breaths[i][2], breaths[i][1], breaths[i][2])], KeepEdge)
AnalyzeSpeechPauses(report, flags) ==
    LET silences == SilencePauses(parseSilenceRanges(report, Len(flags)), Len(flags))
        breaths == dropBoundaryRanges(mergeFrameFlags(flags), Len(flags))
    IN  IF breaths = <<>> THEN ByStart(silences) ELSE mergePausesWithBreath(silences, breaths)

DeriveASRWordGaps(utterances) ==
    LET words == ByStart(WordsOf(utterances))
        gaps == [i \in 1..(Len(words) - 1) |-> <<words[i].to, words[i + 1].from>>]
        long == SelectSeq(gaps, LAMBDA g : g[2] - g[1] >= MinPause)
    IN  [i \in DOMAIN long |-> Pause(long[i][1], long[i][2], long[i][1] + 2, long[i][2] - 2)]
MergeSpeechPauses(pauses) == MergedWithin(pauses, 0)

\* A pause keeps the parts of its cut that lie between words and are worth it.
PartsBetween(p, words) ==
    LET step(state, w) ==
            IF w.to <= state.cursor \/ w.from >= p.upto THEN state
            ELSE [cursor |-> High(state.cursor, w.to),
                  parts |-> IF w.from > state.cursor
                            THEN Append(state.parts, <<state.cursor, w.from>>) ELSE state.parts]
        end == FoldLeft(step, [cursor |-> p.cut, parts |-> <<>>], words)
    IN  IF end.cursor < p.upto THEN Append(end.parts, <<end.cursor, p.upto>>) ELSE end.parts
ClampSpeechPausesToWordBoundaries(pauses, utterances) ==
    LET words == ByStart(WordsOf(utterances))
        parts(p) == SelectSeq(PartsBetween(p, words), LAMBDA s : s[2] - s[1] >= MinPause)
        clamped == FlattenSeq([i \in DOMAIN pauses |->
                     LET s == parts(pauses[i]) IN
                     [k \in DOMAIN s |-> Pause(pauses[i].from, pauses[i].to, s[k][1], s[k][2])]])
    IN  SortSeq(clamped, LAMBDA x, y : x.cut < y.cut \/ (x.cut = y.cut /\ x.upto < y.upto))
\* The pauses of a transcript (loadOrBuildSpeechTranscript).
TranscriptPauses(report, flags, utterances) ==
    ClampSpeechPausesToWordBoundaries(
        MergeSpeechPauses(AnalyzeSpeechPauses(report, flags) \o DeriveASRWordGaps(utterances)),
        utterances)

\* The six words before a pause and the six after it.
Context(p, utterances) ==
    LET words == ByStart(WordsOf(utterances))
        before == SelectSeq(words, LAMBDA w : w.to <= p.from)
        after == SelectSeq(words, LAMBDA w : w.to > p.from /\ w.from >= p.to)
    IN  [before |-> SubSeq(before, High(1, Len(before) - 5), Len(before)),
         after |-> Upto(after, 6)]
RankSpeechPauseEvidence(pauses, limit) ==
    LET size(p) == p.upto - p.cut
        ranked == SortSeq(pauses, LAMBDA x, y :
                    size(x) > size(y) \/ (size(x) = size(y) /\ x.from < y.from))
    IN  Upto(ranked, Low(IF limit <= 0 THEN 24 ELSE limit, 100))
=============================================================================
