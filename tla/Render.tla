------------------------------- MODULE Render -------------------------------
(***************************************************************************)
(* What a render plays (media/render.go) and what the inspection of a      *)
(* preview takes for granted about it (agentexec/tool_exec_render.go), as  *)
(* pure operators on a document.  Sizes, gains, fades, subtitles and the   *)
(* labels of the graph (FilterGraph) are left out; tracks are neither      *)
(* muted nor solo.  A picture or a sound at a frame is <<asset, source     *)
(* frame>>, exact where the playback rate is 1; of an image only the asset *)
(* counts.                                                                 *)
(***************************************************************************)
EXTENDS Timeline

SourceFrame(c, k) == IF KindOf[c.asset] = "image" THEN 0 ELSE c.from + k

\* Pictures are cut to their own length and joined in the order in which the
\* document stores them.  The length is in the fraction <<numerator,
\* denominator>> of frames: an input is read for as long as its source range,
\* an image for as long as it lies on the timeline, and then played at its rate.
PlayedLength(c) ==
    LET read == IF KindOf[c.asset] = "image" THEN c.end - c.start ELSE c.to - c.from
        frames == (c.end - c.start) * c.rate[1]
    IN  IF read * c.rate[2] < frames THEN <<read * c.rate[2], c.rate[1]>>
        ELSE <<c.end - c.start, 1>>
WholeFrames(c) == PlayedLength(c)[1] \div PlayedLength(c)[2]
Segment(c) == [k \in 1..WholeFrames(c) |-> <<c.asset, SourceFrame(c, k - 1)>>]
BasePictures(d) ==
    LET s == Clips(d, "visual_base") IN FlattenSeq([i \in DOMAIN s |-> Segment(s[i])])

\* Later overlays lie over earlier ones; a placed clip shows what its material
\* still has.
Covers(c, f) == c.start <= f /\ f < c.start + WholeFrames(c)
PictureAt(d, f) ==
    LET s == Clips(d, "visual_overlay")
        over == {i \in DOMAIN s : Covers(s[i], f)}
        top == s[CHOOSE i \in over : \A j \in over : j <= i]
        base == BasePictures(d)
    IN  IF over # {} THEN {<<top.asset, SourceFrame(top, f - top.start)>>}
        ELSE {base[i] : i \in {f + 1} \cap DOMAIN base}

\* A track plays the clips whose material has sound; original sound that is
\* nowhere on its track is taken from the pictures.
Sounding(d, t) ==
    LET s == IF t = "original_audio" /\ Clips(d, t) = <<>>
             THEN Clips(d, "visual_base") ELSE Clips(d, t)
    IN  {c \in Range(s) : KindOf[c.asset] # "image" /\ HasAudio[c.asset]}
SoundAt(d, t, f) ==
    {<<c.asset, SourceFrame(c, f - c.start)>> : c \in {x \in Sounding(d, t) : Covers(x, f)}}

\* The clips whose lines the visual inspection quotes for a frame.
audibleSpeechClipsAtFrame(d, f) ==
    UNION {LET s == IF t = "original_audio" /\ Clips(d, t) = <<>>
                    THEN Clips(d, "visual_base") ELSE Clips(d, t)
           IN  {c \in Range(s) : c.start <= f /\ f < c.end}
           : t \in {"original_audio", "voiceover"}}
\* The source frames it looks up a clip's lines at, [first, last).
Quoted(c, f) ==
    LET offset == f - c.start
        first == c.from + (offset * c.rate[1]) \div c.rate[2]
        last == c.from + ((offset + 1) * c.rate[1] + c.rate[2] - 1) \div c.rate[2]
    IN  Max2(c.from, first)..(Min2(c.to, Max2(first + 1, last)) - 1)
=============================================================================
