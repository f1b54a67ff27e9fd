----------------------------- MODULE Algorithms -----------------------------
(***************************************************************************)
(* The pure operators of FilterGraph, Inspection, SpeechEvidence,          *)
(* WorldState, Footage, TimelineView and ContentContract, each against a   *)
(* reference definition on every input of a bounded set.  A behaviour is   *)
(* about one part of the system, takes one input of it and stops; a        *)
(* property speaks of the inputs of its kind.                              *)
(***************************************************************************)
EXTENDS Integers, Sequences, FiniteSets, SequencesExt, FiniteSetsExt

G == INSTANCE FilterGraph
I == INSTANCE Inspection
S == INSTANCE SpeechEvidence
W == INSTANCE WorldState
F == INSTANCE Footage
V == INSTANCE TimelineView
C == INSTANCE ContentContract

VARIABLE input

Init == \E part \in {"film", "speech", "project", "footage"} : input = [kind |-> "none", part |-> part]
About(part) == input.kind = "none" /\ input.part = part
Take(value) == input' = value
Of(kind, Holds(_)) == input.kind = kind => Holds(input)

SeqsUpto(s, n) == UNION {[1..k -> s] : k \in 0..n}

-----------------------------------------------------------------------------
(* Inputs. *)

\* Films with up to two pictures, overlays and sounds on a track; tracks that
\* duck bgm are distinct and there is one at least (setTrackDucking).
TakeFilm ==
    \E base \in {<<TRUE>>, <<FALSE>>, <<FALSE, TRUE>>}, overlays \in {0, 2},
       original \in {<<>>, <<FALSE>>, <<TRUE, TRUE>>}, voice \in {<<>>, <<TRUE>>, <<TRUE, FALSE>>},
       bgm \in {<<>>, <<TRUE>>},
       muted \in {{}, {"bgm"}, {"voiceover"}, {"visual_overlay", "subtitles"}},
       solo \in {{}, {"bgm"}, {"original_audio"}}, titled \in BOOLEAN,
       triggers \in {<<>>, <<"voiceover">>, <<"original_audio">>,
                     <<"original_audio", "voiceover">>} :
       Take([kind |-> "film", base |-> base, overlays |-> overlays,
             clips |-> [t \in {"original_audio", "voiceover", "bgm", "sfx"} |->
                        CASE t = "original_audio" -> original [] t = "voiceover" -> voice
                          [] t = "bgm" -> bgm [] OTHER -> <<TRUE>>],
             muted |-> muted, solo |-> solo, titled |-> titled,
             ducking |-> triggers # <<>>, triggers |-> triggers])

\* Reports of up to two stretches, the last of which may have no end, on two
\* pictures of three frames each.
Length == 6
Reports ==
    {<<>>} \cup {<< <<"start", a>> >> : a \in 0..(Length - 1)}
    \cup {<< <<"start", a>>, <<"end", b>> >> : a \in 0..2, b \in 3..Length}
    \cup {<< <<"start", a>>, <<"end", b>>, <<"start", c>> >> : a \in 0..1, b \in 2..3, c \in 3..5}
    \cup {<< <<"start", a>>, <<"end", b>>, <<"start", c>>, <<"end", d>> >> :
             a \in 0..1, b \in 2..3, c \in 3..4, d \in 5..Length}
TakeReport ==
    \E check \in {"black", "freeze", "silence"}, report \in Reports,
       image \in [1..2 -> BOOLEAN], fadeIn, fadeOut \in [1..2 -> {0, 2}] :
       Take([kind |-> "report", check |-> check, report |-> report,
             pictures |-> [i \in 1..2 |->
                [image |-> image[i], from |-> 3 * (i - 1), to |-> 3 * i,
                 fadeIn |-> fadeIn[i], fadeOut |-> fadeOut[i]]]])

\* A file of up to twelve seconds with up to three pauses, in chunks of four or
\* six seconds.
TakeFile ==
    \E duration \in {20, 89, 120, 200, 275, 360}, full \in {120, 180},
       starts \in {s \in SUBSET {10, 85, 100, 150, 215, 300} : Cardinality(s) <= 3} :
       Take([kind |-> "file", duration |-> duration, full |-> full,
             pauses |-> [i \in 1..Cardinality(starts) |->
                LET at == SetToSortSeq(starts, LAMBDA x, y : x < y)[i]
                IN  S!Pause(at, at + 12, at + 2, at + 10)]])

\* Two utterances of two words, the second of which may reach into the third, on
\* 40 frames in some of which there is silence or breath.
Spoken(from, to) == [from |-> from, to |-> to, text |-> <<1>>, mark |-> "none"]
TakeSound ==
    \E a \in {3, 9}, b \in {11, 16}, c \in {18, 24}, d \in {27, 35},
       silent \in {<<>>, << <<"start", 5>>, <<"end", 14>> >>,
                   << <<"start", 11>>, <<"end", 29>> >>, << <<"start", 21>> >>},
       breath \in {{}, 0..8, 12..19, (15..20) \cup (23..29), 31..40} :
       Take([kind |-> "sound", report |-> silent, flags |-> [f \in 1..40 |-> f \in breath],
             utterances |-> <<S!Utterance(a, b + 4, <<1, 1>>, <<Spoken(a, a + 2), Spoken(b, b + 4)>>),
                              S!Utterance(c, d + 4, <<1, 1>>, <<Spoken(c, c + 3), Spoken(d, d + 4)>>)>>])

TakeText == \E text \in SeqsUpto({1, 2}, 7) \cup [1..6 -> 1..3] : Take([kind |-> "text", text |-> text])

\* An utterance of five words, or six of two kinds, of two or three characters; one
\* or two of its pauses are long.
TakeTakes ==
    \E n \in {5, 6} :
    \E said \in [1..n -> 1..(8 - n)], long \in {s \in SUBSET (1..(n - 1)) : Cardinality(s) \in 1..2} :
       LET begin[i \in 1..n] ==
               IF i = 1 THEN 10 ELSE begin[i - 1] + 4 + (IF (i - 1) \in long THEN 8 ELSE 2)
       IN  /\ said[1] = 1
           /\ Take([kind |-> "takes",
                    words |-> [i \in 1..n |->
                        [from |-> begin[i], to |-> begin[i] + 4, mark |-> "none",
                         text |-> CASE said[i] = 1 -> <<1, 1, 2>> [] said[i] = 2 -> <<3, 4, 4>>
                                    [] OTHER -> <<5, 6>>]],
                    pauses |-> LET at == SetToSortSeq(long, LAMBDA x, y : x < y)
                               IN  [k \in DOMAIN at |->
                                      S!Pause(begin[at[k]] + 4, begin[at[k] + 1],
                                              begin[at[k]] + 6, begin[at[k] + 1] - 2)]])

\* An utterance, and one that begins with one or two words of it, stops, and goes
\* on with the same or other words.
TakeStart ==
    \E earlier \in {<<1, 1, 2, 1>>, <<2, 1, 2, 2>>}, later \in [1..4 -> 1..2],
       after \in 1..2, stop \in {12, 20}, mark \in {"none", "comma", "stop"} :
       LET at(i) == 100 + 5 * i + (IF i > after THEN stop ELSE 0)
           word(text, from) == [from |-> from, to |-> from + 4, mark |-> "none",
                                text |-> IF text = 1 THEN <<1, 1, 2>> ELSE <<3, 4, 4>>]
           first == [i \in 1..4 |-> word(earlier[i], 5 * i)]
           second == [i \in 1..4 |-> [word(later[i], at(i)) EXCEPT !.mark = IF i = after THEN mark ELSE @]]
       IN  Take([kind |-> "start",
                 utterances |-> <<S!Utterance(5, 24, S!Said(first), first),
                                  S!Utterance(105, at(4) + 4, S!Said(second), second)>>,
                 pauses |-> <<S!Pause(at(after) + 4, at(after + 1), at(after) + 6, at(after + 1) - 2)>>])

\* One or two segments with or without words, on a chunk, and a text that may say
\* more than they do.
TakeRecognition ==
    \E from \in {0, 100}, n \in 1..2, timed \in [1..2 -> BOOLEAN], more \in {<<>>, <<1, 2, 0, 2, 2, 1>>},
       length \in {5, 20}, text \in {<<1>>, <<1, 2, 0, 1>>, <<2, 0, 2, 1, 0, 1, 0>>} :
       LET segment(i) ==
               [from |-> (i - 1) * length, to |-> i * length, text |-> text,
                words |-> IF timed[i]
                          THEN [k \in DOMAIN S!Normalized(text) |->
                                  [from |-> (i - 1) * length + k - 1, to |-> (i - 1) * length + k,
                                   text |-> <<S!Normalized(text)[k]>>, mark |-> IF k = 2 THEN "stop" ELSE "none"]]
                          ELSE <<>>]
       IN  Take([kind |-> "recognition", chunk |-> <<from, from + 40>>,
                 recognized |-> [text |-> FlattenSeq([i \in 1..n |-> text]) \o more,
                                 segments |-> [i \in 1..n |-> segment(i)]]])

\* Three clips of a talking head and another material, and an overlay.
TakeHead ==
    \E asset \in [1..3 -> {"head", "other"}], gap \in [1..2 -> {0, 2}], jump \in [1..2 -> {0, 5}],
       over \in {<<>>} \cup {<< [start |-> f, end |-> f + 3] >> : f \in {22, 24, 25, 26, 49, 70}} :
       LET start[i \in 1..3] == IF i = 1 THEN 0 ELSE start[i - 1] + 25 + gap[i - 1]
           from[i \in 1..3] == IF i = 1 THEN 40 ELSE from[i - 1] + 25 + jump[i - 1]
       IN  Take([kind |-> "head", overlays |-> over, clips |-> [i \in 1..3 |->
                    [asset |-> asset[i], start |-> start[i], end |-> start[i] + 25,
                     from |-> from[i], to |-> from[i] + 25, rate |-> <<1, 1>>]]])

\* Two states of a project: what an asset is, what the timeline uses and is, and
\* a plan of up to two keys with values that may be objects themselves.
Values(keys, inner) == {W!Object(f) : f \in UNION {[k -> inner] : k \in SUBSET keys}}
Atoms == {W!Atom(a) : a \in {"x", "y", "null"}}
Worlds ==
    {W!Object([assets |-> assets, timeline |-> timeline, draft |-> draft]) :
        assets \in {W!Object([used_by_timeline |-> v, total |-> W!Atom("x")]) : v \in Atoms},
        timeline \in {W!Null, W!Atom("x")},
        draft \in Atoms \cup Values({"plan", "goal"}, Atoms) \cup Values({"plan"}, Values({"goal"}, Atoms))}
TakeWorlds ==
    \E base, current \in Worlds : Take([kind |-> "worlds", base |-> base, current |-> current])

TakeWave ==
    \E n \in 1..14, resident \in 2..5 :
       Take([kind |-> "wave", samples |-> [k \in 1..n |-> (7 * k) % 5], resident |-> resident])

\* A video of one to thirteen seconds with up to four proposed cuts, near one
\* another and near the ends.
TakeVideo ==
    \E duration \in {1400, 13000}, seen \in BOOLEAN,
       budget \in {<<0, FALSE>>, <<0, TRUE>>, <<2, FALSE>>, <<3, TRUE>>},
       at \in {s \in SUBSET {100, 700, 800, 900, 1300} : Cardinality(s) <= 4} :
    \E score \in [at -> 1..3], rejected \in {{}} \cup {{t} : t \in at} :
       /\ ~ seen => rejected = {}
       /\ Take([kind |-> "video", duration |-> duration, seen |-> seen, deep |-> budget[2],
                steps |-> budget[1],
                cuts |-> LET order == SelectSeq(<<100, 700, 800, 900, 1300>>, LAMBDA t : t \in at)
                         IN  [i \in DOMAIN order |-> [at |-> order[i], score |-> score[order[i]]]],
                verdict |-> [t \in at |-> CASE t \in rejected -> "reject"
                                            [] score[t] = 1 -> "missing" [] OTHER -> "accept"]])

TakeShot ==
    \E length \in {1, 4, 9, 30}, base \in SUBSET {10, 12, 14}, more \in BOOLEAN,
       facets \in {{}, {"text_ocr"}}, old \in SeqsUpto({9, 10, 13, 17}, 3) :
       Take([kind |-> "shot", start |-> 10, end |-> 10 + length, base |-> base, more |-> more,
             facets |-> facets, reusable |-> old])

\* Two tracks with up to five clips, and edits of some of them.
TakeView ==
    \E n \in 0..3, m \in 0..2, shift \in {0, 3}, size \in {2, 4},
       batches \in SeqsUpto({<<1, 5>>, <<2>>, <<4, 3>>, <<9>>}, 2) :
       Take([kind |-> "view", size |-> size, batches |-> batches,
             document |-> <<[k \in 1..n |-> [id |-> k, start |-> 4 * (k - 1), end |-> 4 * k]],
                            [k \in 1..m |-> [id |-> 3 + k, start |-> 6 * (k - 1) + shift,
                                             end |-> 6 * k + shift]]>>])
TakePrompt ==
    \E messages \in SeqsUpto({"system", "view", "user", "tool"}, 4) :
       Take([kind |-> "prompt", messages |-> messages])
TakeEdits ==
    \E edits \in SeqsUpto({[size |-> 1, least |-> 1], [size |-> 3, least |-> 1],
                          [size |-> 5, least |-> 2], [size |-> 9, least |-> 5]}, 4), budget \in {0, 4, 6} :
       Take([kind |-> "edits", edits |-> edits, limit |-> 3, budget |-> budget])

\* Films of the same talking head on up to three tracks, with overlays and music.
Clip(from, to, rate, start) ==
    [asset |-> "head", from |-> from, to |-> to, rate |-> rate,
     start |-> start, end |-> start + (to - from) \div rate]
Takes ==
    { <<>>, <<Clip(0, 8, 1, 0)>>, <<Clip(0, 4, 1, 0), Clip(4, 8, 1, 4)>>,
      <<Clip(0, 4, 1, 0), Clip(6, 8, 1, 4)>>, <<Clip(0, 4, 2, 0), Clip(4, 8, 2, 2)>>,
      <<Clip(4, 8, 1, 0), Clip(0, 4, 1, 4)>>, <<Clip(0, 4, 1, 0), Clip(4, 8, 2, 4)>> }
TakeContract ==
    \E base, original, voice \in Takes, muted \in {{}, {"original_audio"}, {"visual_base"}, {"voiceover"}},
       solo \in {{}, {"voiceover"}, {"bgm"}, {"original_audio"}},
       overlays \in {<<>>, << <<2, 5>> >>, << <<4, 7>>, <<2, 4>> >>, << <<2, 3>>, <<4, 6>> >>} :
       /\ base # <<>> /\ (overlays # <<>> => voice = <<>> /\ solo = {})
       /\ Take([kind |-> "contract", muted |-> muted, solo |-> solo,
                clips |-> [t \in C!AudioTracks \cup {"visual_base", "visual_overlay"} |->
                    CASE t = "visual_base" -> base [] t = "original_audio" -> original
                      [] t = "voiceover" -> voice
                      [] t = "visual_overlay" ->
                           [i \in DOMAIN overlays |-> [start |-> overlays[i][1], end |-> overlays[i][2]]]
                      [] t = "bgm" -> <<[asset |-> "song", from |-> 3, to |-> 19, rate |-> 2,
                                         start |-> 0, end |-> 8]>>
                      [] OTHER -> <<>>]])

Next ==
    \/ About("footage") /\ (TakeVideo \/ TakeShot)
    \/ About("project") /\ \/ TakeWorlds \/ TakeWave \/ TakeView
                           \/ TakePrompt \/ TakeEdits \/ TakeContract
    \/ About("film") /\ (TakeFilm \/ TakeReport)
    \/ About("speech") /\ \/ TakeSound \/ TakeFile \/ TakeText \/ TakeHead
                          \/ TakeTakes \/ TakeStart \/ TakeRecognition
Spec == Init /\ [][Next]_input

-----------------------------------------------------------------------------
(* Properties. *)

\* Every label of the filter graph of a render is written once and read once,
\* by a filter or into the file, whatever is muted, solo, ducked or without
\* sound, and the file has sound exactly when the inspection of the preview
\* looks for it (RenderTimeline, timelineExpectsRenderedAudio).
GraphConnected == Of("film", LAMBDA x : G!Connected(x))

\* The inspection of a preview reports exactly the frames between a reported
\* start and its end that the timeline did not mean to be still or dark, in
\* stretches that do not meet (inspectVideoSignals, filterExpectedSignalIssues).
OnlyUnmeantReported ==
    Of("report", LAMBDA x : I!OnlyUnmeant(x.check, x.report, Length, x.pictures))

\* The chunks sent to the recognizer are the whole file without a gap, none of
\* them longer than the recognizer takes, none but the last shorter than three
\* seconds (BuildASRChunks).
ChunksTile ==
    Of("file", LAMBDA x :
        LET chunks == S!BuildASRChunks(x.duration, x.pauses, x.full) IN
        /\ chunks[1][1] = 0 /\ Last(chunks)[2] = x.duration
        /\ \A i \in DOMAIN chunks :
            /\ chunks[i][1] < chunks[i][2] /\ chunks[i][2] - chunks[i][1] <= x.full
            /\ i < Len(chunks) => /\ chunks[i + 1][1] = chunks[i][2]
                                  /\ chunks[i][2] - chunks[i][1] > S!MinChunk)

\* What a transcript offers for deletion cuts into no word and no two offers
\* meet; and wherever nobody speaks for nine frames between two words, all but
\* two frames at either end is on offer; the longest are shown first
\* (loadOrBuildSpeechTranscript, RankSpeechPauseEvidence).
CutsBetweenWords ==
    Of("sound", LAMBDA x :
        LET words == ToSet(S!WordsOf(x.utterances))
            pauses == S!TranscriptPauses(x.report, x.flags, x.utterances)
            spoken == UNION {w.from..(w.to - 1) : w \in words}
            cut(p) == p.cut..(p.upto - 1)
            offered == UNION {cut(p) : p \in ToSet(pauses)}
        IN  /\ offered \cap spoken = {}
            /\ \A i, j \in DOMAIN pauses : i # j => cut(pauses[i]) \cap cut(pauses[j]) = {}
            /\ \A v, w \in words :
                 (w.from - v.to >= 9 /\ v.to..(w.from - 1) \cap spoken = {})
                 => (v.to + 2)..(w.from - 3) \subseteq offered
            /\ LET shown == S!RankSpeechPauseEvidence(pauses, 2)
                   length(p) == p.upto - p.cut
               IN  /\ Len(shown) = Min({2, Len(pauses)})
                   /\ \A p \in ToSet(shown), q \in ToSet(pauses) \ ToSet(shown) : length(p) >= length(q))

\* The repetition that the evidence shows is the longest there is: the text is
\* the same at both places and no longer text stands twice in the utterance
\* without overlapping itself (longestNonOverlappingSpeechRepeat).
RepeatIsLongest ==
    Of("text", LAMBDA x :
        LET n == Len(x.text)
            found == S!longestNonOverlappingSpeechRepeat(x.text)
            same(e, l, k) == /\ e + k <= l /\ l + k - 1 <= n
                             /\ \A i \in 0..(k - 1) : x.text[e + i] = x.text[l + i]
        IN  /\ found[3] > 0 => same(found[1], found[2], found[3])
            /\ \A e, l \in 1..n : ~ same(e, l, found[3] + 1))

\* What is reported as said twice does not overlap, a single word is the same twice.
\* Who deletes the earlier take that the evidence offers, with the tail it ran
\* into, still has the repeated phrase once in what follows, and starts at the
\* end of a pause (intraUtteranceRetakeTailFragments).
LaterTakeStays ==
    Of("takes", LAMBDA x :
        LET said == S!Said(x.words)
            found == S!longestNonOverlappingSpeechRepeat(said)
            phrase == SubSeq(said, found[1], found[1] + found[3] - 1)
            whole == <<S!Utterance(x.words[1].from, Last(x.words).to, said, x.words)>>
        IN  /\ \A r \in S!IntraUtteranceSpeechRepetitions(x.words) :
                /\ r.to < r.again
                /\ r.from = r.to => x.words[r.from].text = x.words[r.again].text
            /\ \A f \in S!intraUtteranceRetakeTailFragments(whole, 1, x.pauses) :
                /\ S!HasPart(S!Said(SubSeq(x.words, f.next, Len(x.words))), phrase)
                /\ \E p \in ToSet(x.pauses) : p.to <= x.words[f.next].from
                                              /\ x.words[f.last].to <= p.from)

\* A jump cut is reported exactly where two pieces of talking head meet that
\* are not one piece of the source, and no overlay lies across the place
\* (TalkingHeadUncoveredSeams).
SeamsExact ==
    Of("head", LAMBDA x :
        S!TalkingHeadUncoveredSeams(x.clips, {"head"}, x.overlays) =
            {x.clips[i].end : i \in {k \in 1..2 :
                LET c == x.clips[k]
                    d == x.clips[k + 1]
                IN  /\ c.asset = "head" /\ d.asset = "head" /\ c.end = d.start
                    /\ c.to # d.from
                    /\ \A o \in ToSet(x.overlays) : c.end - 1 < o.start \/ o.end <= d.start}})

\* A false start that is offered leaves the utterance its last word, and ends
\* where the speaker stopped or, when an earlier utterance is taken up again,
\* right before the words of that one (ShortLeadingSpeechFragments).
StartsEnd ==
    Of("start", LAMBDA x :
        LET words == x.utterances[2].words
            heard == S!Said(x.utterances[1].words)
            found == S!ShortLeadingSpeechFragments(x.utterances, x.pauses)
        IN  /\ \A f \in found :
                 /\ f.u = 2 /\ f.first = 1 /\ f.last < f.next /\ f.next <= Len(words)
                 /\ words[f.next].from >= x.pauses[1].to
                 /\ f.kind = "restart_prefix"
                    => S!HasPart(heard, SubSeq(S!Said(SubSeq(words, f.next, Len(words))), 1, 6))
                 /\ f.kind = "short_leading" => words[f.last].to = x.pauses[1].from
            /\ (\A i \in DOMAIN words : words[i].mark = "none") /\ x.pauses[1].to - x.pauses[1].from >= 18
               => found # {})

\* A recognition is laid on its chunk with nothing left out: utterances in their
\* order, within the chunk, readable again, their text the whole text or that of
\* the segments, if there is a frame for every clause (loadOrBuildSpeechTranscript).
RecognitionPlaced ==
    Of("recognition", LAMBDA x :
        LET placed == S!Recognized(x.recognized, x.chunk)
            stored == S!DecodeSpeechUtterances(placed)
            said == S!Normalized(FlattenSeq([i \in DOMAIN placed |-> placed[i].text]))
            told == S!Normalized(x.recognized.text)
        IN  /\ S!Decodable(placed) /\ stored = placed
            /\ \A i \in DOMAIN placed : x.chunk[1] <= placed[i].from /\ placed[i].to <= x.chunk[2]
            /\ \A i \in 1..(Len(placed) - 1) : placed[i].to <= placed[i + 1].from
            /\ SubSeq(told, 1, Len(said)) = said /\ 4 * Len(said) >= 3 * Len(told))

\* A breath is reported exactly where a clip of a talking head plays nine frames
\* of a pause or more; an island exactly where less than two seconds of it go on
\* without a cut (TalkingHeadResidualBreaths, TalkingHeadRetainedIslands).
BreathsAndIslands ==
    Of("head", LAMBDA x :
        LET pauses == <<S!Pause(41, 49, 43, 47), S!Pause(60, 74, 62, 72), S!Pause(86, 110, 88, 108)>>
            heads == {c \in ToSet(x.clips) : c.asset = "head"}
            played(c, p) == {t \in c.start..(c.end - 1) : c.from + t - c.start \in p.from..(p.to - 1)}
            shown(t) == {c.from + t - c.start : c \in {d \in heads : d.start <= t /\ t < d.end}}
            goesOn(t) == shown(t) # {} /\ shown(t + 1) = {f + 1 : f \in shown(t)}
            islands == {r \in {c.start : c \in heads} \X {c.end : c \in heads} :
                /\ r[1] < r[2] /\ r[2] - r[1] < 60
                /\ shown(r[1]) # {} /\ ~ goesOn(r[1] - 1) /\ ~ goesOn(r[2] - 1)
                /\ \A t \in r[1]..(r[2] - 2) : goesOn(t)}
        IN  /\ S!TalkingHeadResidualBreaths(x.clips, {"head"}, pauses) =
                 {<<Min(played(c, p)), Max(played(c, p)) + 1>> :
                    <<c, p>> \in {q \in heads \X ToSet(pauses) : Cardinality(played(q[1], q[2])) >= 9}}
            /\ {<<r.start, r.end>> : r \in ToSet(S!TalkingHeadRetainedIslands(x.clips, {"head"}))}
               = islands)

\* The reference and the patch say what the project is now, but for the timeline,
\* that is told apart; and there is no patch exactly when nothing else has changed
\* (mergePatchDifference, renderContextMessages).
PatchRestores ==
    Of("worlds", LAMBDA x :
        LET told == W!renderContextMessages(x.base, x.current)
            now == W!stableProviderWorldState(x.current)
        IN  /\ told.patch = {} <=> told.reference = now
            /\ \A p \in told.patch : W!Bare(W!Merged(told.reference, p)) = W!Bare(now)
            /\ W!Keys(now) \cap {"timeline", "recent_edit_history"} = {})

\* The summary of a waveform runs from its first point to its last, each of its
\* points once and in order (compactWaveformContext).
WaveformWhole ==
    Of("wave", LAMBDA x :
        LET wave == W!compactWaveformContext(x.samples, x.resident, 12) IN
        /\ wave.at[1] = 1 /\ Last(wave.at) = wave.count
        /\ \A k \in 1..(Len(wave.at) - 1) : wave.at[k] < wave.at[k + 1])

\* The segments of a video are the whole video, frame after frame, as many as the
\* budget allows at most, and every moment that is looked at is in its segment
\* (buildVideoSpans, segmentsFromSpans, segmentFrameTimestamps).
SegmentsTile ==
    Of("video", LAMBDA x :
        LET found == F!analyzeVideo(x.duration, x.cuts, x.verdict, x.seen, x.steps, x.deep)
            segments == found.segments
        IN  /\ segments[1].from = 0 /\ Last(segments).to = F!Frame(x.duration)
            /\ \A i \in DOMAIN segments :
                /\ segments[i].from < segments[i].to
                /\ i < Len(segments) => segments[i + 1].from = segments[i].to
                /\ \E f \in ToSet(found.frames) : f.segment = i
            /\ Len(segments) <= F!videoAnalysisBudget(x.steps, x.deep).most
            /\ \A k \in DOMAIN found.frames :
                LET f == found.frames[k] IN
                /\ found.spans[f.segment].from <= f.at /\ f.at < found.spans[f.segment].to
                /\ k > 1 => found.frames[k - 1].at < f.at)

\* A cut that nobody rejected is where a segment begins, unless one at least as
\* strong is within 120 milliseconds or the budget went to stronger ones.
CutsKept ==
    Of("video", LAMBDA x :
        LET found == F!analyzeVideo(x.duration, x.cuts, x.verdict, x.seen, x.steps, x.deep)
            most == F!videoAnalysisBudget(x.steps, x.deep).most
            begins == {found.spans[i].from : i \in DOMAIN found.spans}
            kept == {b \in ToSet(found.boundaries) : b.at \in begins}
        IN  \A b \in ToSet(found.boundaries) \ kept :
                \/ \E c \in ToSet(found.boundaries) \ {b} :
                     c.score >= b.score /\ c.at - b.at \in -119..119
                \/ Cardinality(kept) = most - 1 /\ \A c \in kept : c.score >= b.score)

\* A deep search looks at frames of its shot only, at none of the base frames and
\* none twice, and when it must look at more it finds some if there are any
\* (deepFrameSamples, planDeepFrameNumbers).
FramesNew ==
    Of("shot", LAMBDA x :
        LET told == F!deepFrameSamples(x.start, x.end, x.base, x.reusable, x.facets, x.more)
            free == (x.start..(x.end - 1)) \ x.base
        IN  /\ ToSet(told) \subseteq free /\ Len(told) <= 9
            /\ \A i \in 1..(Len(told) - 1) : told[i] < told[i + 1]
            /\ x.more /\ free \ ToSet(x.reusable) # {} => ToSet(told) \ ToSet(x.reusable) # {}
            /\ x.more /\ Cardinality(free) <= 3 => ToSet(told) = free)

\* Of a long timeline the model is told as many clips as fit into the window, the
\* one it has just edited among them, and of every other clip that it is there and
\* between which frames (buildCurrentTimelineContext).
ViewExact ==
    Of("view", LAMBDA x :
        LET view == V!buildCurrentTimelineContext(x.document, x.batches, 2, x.size)
            all == {e.clip : e \in ToSet(V!Entries(x.document))}
            told == {e.clip : e \in ToSet(V!Entries(view.tracks))}
            edited == {b \in DOMAIN x.batches : \E c \in all : c.id \in ToSet(x.batches[b])}
        IN  /\ told \subseteq all
            /\ Cardinality(told) = IF Cardinality(all) <= 2 THEN Cardinality(all)
                                   ELSE Min({x.size, Cardinality(all)})
            /\ \A c \in all \ told : \E r \in ToSet(view.omitted) : r.start <= c.start /\ c.end <= r.end
            /\ Cardinality(told) + (IF view.omitted = <<>> THEN 0 ELSE
                   FoldLeft(LAMBDA n, r : n + r.count, 0, view.omitted)) = Cardinality(all)
            /\ edited # {} => \E c \in told : c.id \in ToSet(x.batches[Max(edited)])
            /\ \A t \in DOMAIN x.document : view.counts[t] = Len(x.document[t]))

\* Whatever views were left over, there is one, behind the messages of the system
\* that begin the prompt, and nothing else has changed (refreshCurrentTimelineView).
ViewOnce ==
    Of("prompt", LAMBDA x :
        LET new == V!refreshCurrentTimelineView(x.messages)
            rest(s) == SelectSeq(s, LAMBDA m : m # "view")
            at == CHOOSE i \in DOMAIN new : new[i] = "view"
        IN  /\ Len(new) = Len(rest(new)) + 1 /\ rest(new) = rest(x.messages)
            /\ \A i \in 1..(at - 1) : new[i] = "system"
            /\ at < Len(new) => new[at + 1] # "system")

\* The edits that are told fit the budget and are in order; the last one is told
\* when it fits at all, and one is told when the least of the last one fits
\* (compressTimelineEditEntries, boundRecentEditHistory).
EditsOfLate ==
    Of("edits", LAMBDA x :
        LET told == V!compressTimelineEditEntries(x.edits, x.limit, x.budget)
            n == Len(x.edits)
        IN  /\ \A k \in DOMAIN told : told[k] \in (n - x.limit + 1)..n
            /\ \A k \in 1..(Len(told) - 1) : told[k] < told[k + 1]
            /\ Len(told) > 1 => V!Total([k \in DOMAIN told |-> x.edits[told[k]].size]) <= x.budget
            /\ n > 0 => (x.edits[n].size <= x.budget => n \in ToSet(told))
                        /\ (x.edits[n].least <= x.budget => told # <<>>))

\* A line that the contract has found kept is heard in the render, whole, in
\* order and without a pause, whatever is muted, solo or placed twice; and a line
\* that one track alone plays so is found, unless visual_base is muted: a render
\* without original sound plays the sound of the pictures nevertheless, and the
\* contract does not count it (ContentPreservingClips, UtteranceCoveredByClips,
\* RenderTimeline, appendAudioMix).
Utterances == {[asset |-> "head", from |-> r[1], to |-> r[2]] : r \in {<<1, 3>>, <<2, 6>>, <<0, 8>>, <<5, 7>>}}
KeptIsHeard ==
    Of("contract", LAMBDA x :
        LET sounds(s) == [i \in DOMAIN s |-> TRUE]
            film == [base |-> sounds(x.clips["visual_base"]), muted |-> x.muted, solo |-> x.solo,
                     clips |-> [t \in C!AudioTracks |-> sounds(x.clips[t])]]
            source(t) == IF t = "original_audio" /\ x.clips[t] = <<>>
                         THEN x.clips["visual_base"] ELSE x.clips[t]
            heard(t) == {source(t)[i] : i \in G!Played(film, t)}
            tracks == ToSet(G!renderableTracks(film))
            within(u, clips) == \E rate \in {1, 2}, shift \in -16..16 :
                \A f \in u.from..(u.to - 1) :
                    \E c \in clips : /\ c.asset = u.asset /\ c.rate = rate
                                     /\ c.from <= f /\ f < c.to /\ c.start * rate - c.from = shift
            speaking == {t \in tracks : \E c \in heard(t) : c.asset = "head"}
            missing == C!missingRequiredUtterances(x, Utterances)
        IN  /\ \A u \in Utterances \ missing : within(u, UNION {heard(t) : t \in tracks})
            /\ (Cardinality(speaking) = 1 /\ "visual_base" \notin x.muted) =>
                 \A u \in missing, t \in speaking : ~ within(u, heard(t)))

\* The contract fails exactly when the film is longer or shorter than it may be, a
\* stretch has a frame without an overlay, or too few of the places where the
\* picture jumps are within a frame of a beat of the music, or of a beat and of an
\* accent (VerifyContentContract).
Picture(clips, f) ==
    {<<c.asset, c.from + (f - c.start) * c.rate, c.rate>> : c \in {d \in ToSet(clips) : d.start <= f /\ f < d.end}}
\* Lengths asked for and how far off they may be: at, within and beyond the limit
\* on either side of the 8 frames of these films, and none asked for.
Lengths == {<<8, 0>>, <<7, 0>>, <<9, 0>>, <<6, 2>>, <<5, 2>>, <<10, 2>>, <<11, 2>>, <<0, 2>>}
ContractExact ==
    Of("contract", LAMBDA x :
        LET song == x.clips["bgm"][1]
            beats == {3, 8, 18}
            accents == {18}
            base == x.clips["visual_base"]
            jumps == {f \in 1..7 : Picture(base, f - 1) # {}
                        /\ Picture(base, f) # {<<p[1], p[2] + p[3], p[3]>> : p \in Picture(base, f - 1)}
                        /\ \A p \in Picture(base, f - 1), q \in Picture(base, f) : p[2] + p[3] # q[2]}
            \* A frame plays two of the song: within one and a half is within
            \* three of them, with halves rounded up.
            at(f, marks) == \E b \in marks : b - song.from - 2 * (f - song.start) \in -3..2
            beat == {f \in jumps : at(f, beats)}
            accent == {f \in beat : at(f, accents)}
            bare(r) == \E f \in r.start..(r.end - 1) : \A o \in ToSet(x.clips["visual_overlay"]) :
                           f < o.start \/ o.end <= f
            few(some) == jumps = {} \/ 2 * Cardinality(some) < Cardinality(jumps)
            contract(length) ==
                [target |-> length[1], tolerance |-> length[2], keep |-> {}, beat |-> 500, accent |-> 500,
                 cover |-> {[start |-> 2, end |-> 6], [start |-> 3, end |-> 5]}]
            failed(length) == C!VerifyContentContract(x, 8, beats, accents, contract(length))
        IN  \A length \in Lengths :
            /\ ("target_duration" \in failed(length)) =
                 (length[1] # 0 /\ (length[1] + length[2] < 8 \/ length[1] - length[2] > 8))
            /\ ("broll_coverage" \in failed(length)) = (\E r \in contract(length).cover : bare(r))
            /\ ("on_beat_ratio" \in failed(length)) = few(beat)
            /\ ("on_accent_ratio" \in failed(length)) = few(accent))

\* The filter graph of a render is one that ffmpeg takes, and the inspection of
\* what it made reports what nobody meant (media/render.go).
RenderingExact == GraphConnected /\ OnlyUnmeantReported

\* From the file to the cuts that are offered: nothing is left out of the
\* recognition, and no offer takes what is said only once (speech_inspect.go).
SpeechExact == /\ ChunksTile /\ RecognitionPlaced /\ CutsBetweenWords
               /\ RepeatIsLongest /\ LaterTakeStays /\ StartsEnd /\ SeamsExact /\ BreathsAndIslands

\* The index of a video is of the whole video (video_analysis.go, shot_deep.go).
FootageExact == SegmentsTile /\ CutsKept /\ FramesNew

\* What the model is told of the project is the project: its state patches, its
\* waveform, the view of its timeline, its latest edits, and what the harness
\* takes for kept, covered and on the beat (context_manager.go,
\* context_builder.go, content_contract.go).
ProjectExact == /\ PatchRestores /\ WaveformWhole
                /\ ViewExact /\ ViewOnce /\ EditsOfLate
                /\ KeptIsHeard /\ ContractExact
=============================================================================
