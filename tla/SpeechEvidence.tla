--------------------------- MODULE SpeechEvidence ---------------------------
(***************************************************************************)
(* The evidence that speech.search offers the model and timeline.check     *)
(* reports about a talking head: repetitions, false starts                 *)
(* (agentexec/speech_inspect.go), residual breaths, islands and open seams *)
(* (talking_head_quality.go), as pure operators.  Limits on the number of  *)
(* results, contexts, wordings and the search for similar passages are     *)
(* left out.                                                               *)
(***************************************************************************)
EXTENDS Speech

-----------------------------------------------------------------------------
(* Repetitions within an utterance.                                        *)

Said(words) == FlattenSeq([i \in DOMAIN words |-> Normalized(words[i].text)])
\* The word that every character comes from (speechUtteranceCharacterMap).
WordIndexes(words) ==
    FlattenSeq([i \in DOMAIN words |-> [c \in DOMAIN Normalized(words[i].text) |-> i]])

\* The longest text that stands in two places that do not overlap, <<earlier,
\* later, length>>; of several the last.
longestNonOverlappingSpeechRepeat(text) ==
    LET n == Len(text)
        run[e \in 1..(n + 1), l \in 1..(n + 1)] ==
            IF e >= l \/ l > n \/ text[e] # text[l] THEN 0
            ELSE Low(1 + run[e + 1, l + 1], l - e)
        places == {<<e, l>> \in (1..n) \X (1..n) : e < l}
        most == Max({run[p] : p \in places})
        longest == {p \in places : run[p] = most}
        best == CHOOSE p \in longest : \A q \in longest :
                    p[1] > q[1] \/ (p[1] = q[1] /\ p[2] >= q[2])
    IN  IF n < 2 \/ run[best] = 0 THEN <<1, 1, 0>> ELSE <<best[1], best[2], run[best]>>

\* Words i..j said again as words k..l.
MinRepeat == 6
RepeatedPhrase(words) ==
    LET repeat == longestNonOverlappingSpeechRepeat(Said(words))
        word == WordIndexes(words)
        last == repeat[3] - 1
    IN  IF repeat[3] < MinRepeat \/ word[repeat[1] + last] >= word[repeat[2]] THEN {}
        ELSE {[from |-> word[repeat[1]], to |-> word[repeat[1] + last],
               again |-> word[repeat[2]], until |-> word[repeat[2] + last]]}
AdjacentWords(words) ==
    {[from |-> i, to |-> i, again |-> i + 1, until |-> i + 1] :
        i \in {k \in 1..(Len(words) - 1) :
                 /\ Normalized(words[k].text) # <<>>
                 /\ Normalized(words[k].text) = Normalized(words[k + 1].text)}}
IntraUtteranceSpeechRepetitions(words) == AdjacentWords(words) \cup RepeatedPhrase(words)

-----------------------------------------------------------------------------
(* False starts: words before a pause after which the speaker begins again.*)
(* A fragment is words first..last of utterance u; what follows it begins  *)
(* with word next.                                                         *)

Fragment(kind, u, first, last, next) ==
    [kind |-> kind, u |-> u, first |-> first, last |-> last, next |-> next]

\* The first six characters from a word on; fewer when the utterance ends.
AnchorAt(words, i) == Upto(Said(SubSeq(words, i, Len(words))), MinRepeat)
HasPart(text, part) ==
    \E i \in 0..(Len(text) - Len(part)) : SubSeq(text, i + 1, i + Len(part)) = part
\* The word after a pause from which an earlier utterance is taken up again.
speechRestartAnchorAfterPause(utterances, u, end) ==
    LET words == utterances[u].words
        after == {i \in DOMAIN words : words[i].from >= end}
        probes == FirstOf(after)..Low(Len(words), FirstOf(after) + 9)
        found == {i \in probes : /\ Len(AnchorAt(words, i)) = MinRepeat
                                 /\ \E e \in 1..(u - 1) :
                                      HasPart(Normalized(utterances[e].text), AnchorAt(words, i))}
    IN  IF after = {} \/ found = {} THEN 0 ELSE FirstOf(found)

LeadingFragments(utterances, u, p) ==
    LET words == utterances[u].words
        before == {i \in DOMAIN words : words[i].from < p.from}
        after == {i \in DOMAIN words : words[i].from >= p.from /\ words[i].from >= p.to}
        last == CHOOSE i \in before : \A j \in before : j <= i
        anchor == speechRestartAnchorAfterPause(utterances, u, p.to)
    IN  IF \/ Len(words) < 2 \/ p.to - p.from < 18
           \/ p.from <= utterances[u].from \/ p.to >= utterances[u].to
           \/ before = {} \/ Cardinality(before) > 5 \/ after = {}
           \/ words[last].mark # "none" \/ words[last].to - utterances[u].from > 45
        THEN {}
        ELSE IF anchor # 0
        THEN {Fragment("restart_prefix", u, 1, anchor - 1, anchor)}
        ELSE {Fragment("short_leading", u, 1, last, FirstOf(after))}

\* An earlier take of a phrase with the tail it ran into, up to the last pause
\* before the phrase is said again.
intraUtteranceRetakeTailFragments(utterances, u, pauses) ==
    LET words == utterances[u].words
        boundaries(r) == {p \in ToSet(pauses) : /\ p.to - p.from >= 6
                                                /\ p.from >= words[r.to].to
                                                /\ p.to <= words[r.again].from}
        latest(r) == {p \in boundaries(r) : \A q \in boundaries(r) : q.to <= p.to}
        upto(r, p) == {i \in r.from..(r.again - 1) : words[i].to <= p.from}
        next(r, p) == {i \in (r.to + 1)..Len(words) : words[i].from >= p.to}
    IN  UNION {{Fragment("earlier_take", u, r.from,
                    CHOOSE i \in upto(r, p) : \A j \in upto(r, p) : j <= i, FirstOf(next(r, p)))
                : p \in {q \in latest(r) : upto(r, q) # {} /\ next(r, q) # {}}}
               : r \in {x \in RepeatedPhrase(words) : x.again > x.to + 1}}

ShortLeadingSpeechFragments(utterances, pauses) ==
    LET leading == UNION {LeadingFragments(utterances, u, p) :
                            u \in DOMAIN utterances, p \in ToSet(pauses)}
        overlaps(f, g) ==
            LET a == utterances[f.u].words
                b == utterances[g.u].words
            IN  f.u = g.u /\ a[f.first].from < b[g.last].to /\ b[g.first].from < a[f.last].to
    IN  leading \cup {f \in UNION {intraUtteranceRetakeTailFragments(utterances, u, pauses) :
                                     u \in DOMAIN utterances} :
                        \A g \in leading : ~ overlaps(f, g)}

-----------------------------------------------------------------------------
(* A talking head on the timeline.  A clip is [asset, start, end, from, to,*)
(* rate], rate a fraction <<n, d>>.                                        *)

MapSourceRangeToTimelineClip(clip, from, to) ==
    LET a == High(from, clip.from)
        b == Low(to, clip.to)
        at(f) == clip.start + Rounded((f - clip.from) * clip.rate[2], clip.rate[1])
        range == <<High(clip.start, at(a)), Low(clip.end, at(b))>>
    IN  IF b <= a \/ range[2] <= range[1] THEN <<>> ELSE range

MinResidualBreath == (FPS * 3) \div 10
MinIsland == 2 * FPS
TalkingHeadResidualBreaths(clips, spoken, pauses) ==
    {r \in {MapSourceRangeToTimelineClip(c, p.from, p.to) :
                c \in {x \in ToSet(clips) : x.asset \in spoken}, p \in ToSet(pauses)} :
        r # <<>> /\ r[2] - r[1] >= MinResidualBreath}

\* Runs of the transcribed material that go on without a cut in the source.
\* Mutant: clips that meet on the timeline are one run.
RetainedRunsMeeting(clips, spoken) ==
    FoldLeft(LAMBDA runs, c :
        IF c.asset \notin spoken THEN runs
        ELSE IF runs # <<>> /\ Last(runs).asset = c.asset /\ Last(runs).end = c.start
        THEN [runs EXCEPT ![Len(runs)] = [@ EXCEPT !.end = c.end, !.to = c.to]]
        ELSE Append(runs, c), <<>>, clips)
RetainedRuns(clips, spoken) ==
    FoldLeft(LAMBDA runs, i :
        LET c == clips[i]
            goes == /\ i > 1 /\ clips[i - 1].asset \in spoken /\ runs # <<>>
                    /\ Last(runs).asset = c.asset /\ Last(runs).end = c.start
                    /\ Last(runs).to = c.from
        IN  IF c.asset \notin spoken THEN runs
            ELSE IF goes THEN [runs EXCEPT ![Len(runs)] = [@ EXCEPT !.end = c.end, !.to = c.to]]
            ELSE Append(runs, c), <<>>, [i \in DOMAIN clips |-> i])
TalkingHeadRetainedIslands(clips, spoken) ==
    SelectSeq(RetainedRuns(clips, spoken),
              LAMBDA r : r.end - r.start > 0 /\ r.end - r.start < MinIsland)
TalkingHeadUncoveredSeams(clips, spoken, overlays) ==
    LET runs == RetainedRuns(clips, spoken)
        seams == {runs[i].end : i \in {k \in 1..(Len(runs) - 1) : runs[k].end = runs[k + 1].start}}
    IN  {f \in seams : \A o \in ToSet(overlays) : ~ (o.start < f /\ f < o.end)}
=============================================================================
