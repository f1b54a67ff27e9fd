------------------------------ MODULE Timeline ------------------------------
(***************************************************************************)
(* The timeline document and its patch operations, as pure operators       *)
(* (timeline/timeline.go, editing.go, coalesce.go).                        *)
(*                                                                         *)
(* An operation yields the set of documents it may produce: one document,  *)
(* or none where the code returns an error.  Texts, gains, effects and     *)
(* roles are left out; a generated identifier is the clip it was derived   *)
(* from with the suffixes it was given, so that two identifiers are equal  *)
(* exactly when the strings are.                                           *)
(***************************************************************************)
EXTENDS Integers, Sequences, FiniteSets, SequencesExt

CONSTANTS Asset,          \* materials of the draft
          KindOf,         \* asset -> "video", "image" or "audio"
          HasAudio,       \* asset -> the probe found a sound track
          Length,         \* asset -> frames the probe counted, 0 if unknown
          Shots,          \* asset -> its indexed shots, a sequence of <<from, to>>
          NoAsset         \* the asset of a subtitle

ASSUME TimelineAssumption ==
    /\ NoAsset \notin Asset
    /\ KindOf \in [Asset -> {"video", "image", "audio"}]
    /\ HasAudio \in [Asset -> BOOLEAN]
    /\ Length \in [Asset -> Nat]
    /\ Shots \in [Asset -> Seq(Nat \X Nat)]

TrackId == {"visual_base", "visual_overlay", "original_audio", "voiceover",
            "bgm", "subtitles", "sfx"}
AudioTrack == {"original_audio", "voiceover", "bgm", "sfx"}

\* Family of a track; clips only move within one.
Family(t) == IF t \in AudioTrack THEN "audio"
             ELSE IF t = "subtitles" THEN "text" ELSE "visual"

-----------------------------------------------------------------------------
(* Identifiers, frames and clips. *)

Id(base) == [of |-> base, path |-> <<>>]
Derived(id, suffix) == [id EXCEPT !.path = Append(@, suffix)]
NoGroup == Id(<<"none", 0>>)
\* A group named after a clip: link_<clip> or sync_<clip>.
GroupOf(prefix, id) == [id EXCEPT !.of = Append(@, prefix)]

Max2(x, y) == IF x > y THEN x ELSE y
Min2(x, y) == IF x < y THEN x ELSE y
ClampInt(x, lo, hi) == IF x < lo THEN lo ELSE IF x > hi THEN hi ELSE x
\* math.Round of p/q, p >= 0: halves go up.
Round(p, q) == (2 * p + q) \div (2 * q)
\* A playback rate is a fraction <<n, d>>.
ToTimeline(frames, rate) == Max2(1, Round(frames * rate[2], rate[1]))
ToSource(frames, rate) == Round(frames * rate[1], rate[2])

Clip(id, asset, start, end, from, to) ==
    [id |-> id, asset |-> asset, start |-> start, end |-> end,
     from |-> from, to |-> to, rate |-> <<1, 1>>, fadeIn |-> 0, fadeOut |-> 0,
     linked |-> FALSE, group |-> NoGroup, lineage |-> NoGroup]

Empty == [version |-> 0, duration |-> 0,
          tracks |-> [t \in TrackId |-> [locked |-> FALSE, clips |-> <<>>]]]

Clips(d, t) == d.tracks[t].clips
SetClips(d, t, clips) == [d EXCEPT !.tracks[t].clips = clips]
Places(d) == UNION {{<<t, i>> : i \in DOMAIN Clips(d, t)} : t \in TrackId}
At(d, p) == Clips(d, p[1])[p[2]]
AllIds(d) == {At(d, p).id : p \in Places(d)}
Locked(d, t) == d.tracks[t].locked
AnyLocked(d, places) == \E p \in places : Locked(d, p[1])

\* What F makes of every clip (a sequence of clips), track by track.
Replace(d, F(_, _)) ==
    [d EXCEPT !.tracks = [t \in TrackId |->
        [d.tracks[t] EXCEPT !.clips =
            FlattenSeq([i \in DOMAIN Clips(d, t) |-> F(t, Clips(d, t)[i])])]]]
Update(d, places, F(_)) ==
    [d EXCEPT !.tracks = [t \in TrackId |-> [d.tracks[t] EXCEPT !.clips =
        [i \in DOMAIN Clips(d, t) |->
            IF <<t, i>> \in places THEN F(Clips(d, t)[i]) ELSE Clips(d, t)[i]]]]]

\* Clips that start together keep their order; the code orders them by id,
\* which nothing below depends on.
Sorted(clips) == SortSeq(clips, LAMBDA x, y : x.start < y.start)
SortTrack(d, t) == SetClips(d, t, Sorted(Clips(d, t)))
SortAll(d) == [d EXCEPT !.tracks = [t \in TrackId |->
                  [d.tracks[t] EXCEPT !.clips = Sorted(@)]]]

\* Clips linked under one group; a clip with the clips it is linked to.
LinkedGroup(d, g) ==
    {p \in Places(d) : g # NoGroup /\ At(d, p).linked /\ At(d, p).group = g}
Members(d, p) ==
    IF At(d, p).linked THEN LinkedGroup(d, At(d, p).group) ELSE {p}
OnPrimary(places) == \E p \in places : p[1] = "visual_base"

\* The clip an operation edits: it exists and its track is not locked.
Editable(d, id) == {p \in Places(d) : At(d, p).id = id /\ ~Locked(d, p[1])}

ShiftBy(c, delta) == [c EXCEPT !.start = @ + delta, !.end = @ + delta]
ShiftAfter(d, boundary, delta) ==
    [Replace(d, LAMBDA t, c : <<IF c.start >= boundary THEN ShiftBy(c, delta) ELSE c>>)
        EXCEPT !.duration = @ + delta]
ShiftAfterUnlocked(d, boundary) ==
    \A p \in Places(d) : Locked(d, p[1]) => At(d, p).start < boundary
RippleUnlocked(d, boundary, except) ==
    \A p \in Places(d) :
        Locked(d, p[1]) /\ p[1] # except => At(d, p).end <= boundary

-----------------------------------------------------------------------------
(* Validate: the structure a stored document must have. *)

WellPlaced(d) ==
    \A p \in Places(d) : LET c == At(d, p) IN
        /\ 0 <= c.start /\ c.start < c.end
        /\ c.asset # NoAsset => c.from < c.to
        /\ c.fadeIn >= 0 /\ c.fadeOut >= 0 /\ c.fadeIn + c.fadeOut <= c.end - c.start
        /\ c.linked => c.group # NoGroup
UniqueIds(d) ==
    \A p, q \in Places(d) : At(d, p).id = At(d, q).id => p = q
WithinDuration(d, allowed) ==
    \A p \in Places(d) : p[1] \in allowed \/ At(d, p).end <= d.duration
PrimaryCovers(d) ==
    LET s == Sorted(Clips(d, "visual_base")) IN
    \/ d.duration = 0 /\ s = <<>>
    \/ /\ s # <<>>
       /\ s[1].start = 0 /\ s[Len(s)].end = d.duration
       /\ \A i \in 1..(Len(s) - 1) : s[i].end = s[i + 1].start
       /\ \A i \in DOMAIN s : KindOf[s[i].asset] \in {"video", "image"}
\* A group that touches picture or original sound is one pair in step.
PairsInStep(d) ==
    \A g \in {At(d, p).group : p \in {q \in Places(d) : At(d, q).linked}} :
        LET on(t) == {p \in LinkedGroup(d, g) : p[1] = t}
            pictures == on("visual_base")
            sounds == on("original_audio")
        IN  pictures \cup sounds # {} =>
              /\ Cardinality(pictures) = 1 /\ Cardinality(sounds) = 1
              /\ \A p \in pictures, q \in sounds :
                    LET v == At(d, p)
                        a == At(d, q)
                    IN  /\ v.asset = a.asset /\ v.rate = a.rate
                        /\ v.start = a.start /\ v.end = a.end
                        /\ v.from = a.from /\ v.to = a.to
\* "allowed" are the tracks whose clips may hang over the end.
Validate(d, allowed) ==
    /\ WellPlaced(d) /\ UniqueIds(d) /\ WithinDuration(d, allowed)
    /\ PrimaryCovers(d) /\ PairsInStep(d)

-----------------------------------------------------------------------------
(* Operations on ranges. *)

\* Mutant: the right remainder starts where the cut clip did.
DeletedAroundFromStart(c, start, end) ==
    <<[c EXCEPT !.end = start, !.to = c.from + ToSource(start - c.start, c.rate)],
      [c EXCEPT !.id = Derived(@, <<"after", end>>),
                !.start = start, !.end = @ - (end - start)]>>
DeletedAround(c, start, end) ==
    <<[c EXCEPT !.end = start,
                !.to = IF c.asset = NoAsset THEN @
                       ELSE c.from + ToSource(start - c.start, c.rate)],
      [c EXCEPT !.id = Derived(@, <<"after", end>>),
                !.start = start, !.end = @ - (end - start),
                !.from = IF c.asset = NoAsset THEN @
                         ELSE @ + ToSource(end - c.start, c.rate),
                !.group = IF @ = NoGroup THEN @ ELSE Derived(@, <<"after", end>>)]>>

\* What is left of a clip when [start, end) is taken out of the timeline.
WithoutRange(c, start, end) ==
    LET delta == end - start IN
    CASE c.end <= start -> <<c>>
      [] c.start >= end -> <<ShiftBy(c, -delta)>>
      [] c.start < start /\ c.end > end -> DeletedAround(c, start, end)
      [] c.start < start /\ c.end <= end ->
            <<[c EXCEPT !.end = start,
                        !.to = IF c.asset = NoAsset THEN @
                               ELSE c.from + ToSource(start - c.start, c.rate)]>>
      [] c.start >= start /\ c.start < end /\ c.end > end ->
            <<[c EXCEPT !.start = start, !.end = @ - delta,
                        !.from = IF c.asset = NoAsset THEN @
                                 ELSE @ + ToSource(end - c.start, c.rate)]>>
      [] OTHER -> <<>>

DeleteRange(d, start, end) ==
    IF start < 0 \/ end <= start \/ end > d.duration \/ ~RippleUnlocked(d, start, "")
    THEN {}
    ELSE {SortAll([Replace(d, LAMBDA t, c : WithoutRange(c, start, end))
                      EXCEPT !.duration = @ - (end - start)])}

\* The part of a primary clip that plays [from, to) of an asset.
SourceSegment(c, from, to) ==
    LET a == Max2(from, c.from)
        b == Min2(to, c.to)
        offset(f) == Round((f - c.from) * c.rate[2], c.rate[1])
        exact(f) == offset(f) * c.rate[1] = (f - c.from) * c.rate[2]
    IN  [from |-> a, to |-> b, exact |-> exact(a) /\ exact(b),
         start |-> Max2(c.start, c.start + offset(a)),
         end |-> Min2(c.end, c.start + offset(b))]

DeleteSourceRange(d, asset, from, to) ==
    LET hits == SelectSeq(Clips(d, "visual_base"), LAMBDA c :
                    c.asset = asset /\ Max2(from, c.from) < Min2(to, c.to))
        s == Sorted([i \in DOMAIN hits |-> SourceSegment(hits[i], from, to)])
    IN  IF /\ from >= 0 /\ from < to /\ s # <<>>
           /\ \A i \in DOMAIN s : s[i].exact /\ s[i].start < s[i].end
           /\ s[1].from = from /\ s[Len(s)].to = to
           /\ \A i \in 1..(Len(s) - 1) :
                s[i].to = s[i + 1].from /\ s[i].end = s[i + 1].start
        THEN DeleteRange(d, s[1].start, s[Len(s)].end)
        ELSE {}

\* Overwriting takes [start, end) out of one track and closes no gap.
Erased(c, start, end) ==
    IF c.end <= start \/ c.start >= end THEN <<c>>
    ELSE (IF c.start < start
          THEN <<[c EXCEPT !.end = start,
                           !.to = IF c.asset = NoAsset THEN @
                                  ELSE @ - ToSource(c.end - start, c.rate)]>>
          ELSE <<>>)
         \o
         (IF c.end > end
          THEN <<[c EXCEPT !.id = Derived(@, <<"after", end>>), !.start = end,
                           !.from = IF c.asset = NoAsset THEN @
                                    ELSE @ + ToSource(end - c.start, c.rate)]>>
          ELSE <<>>)
EraseTrackRange(d, t, start, end) ==
    Replace(d, LAMBDA u, c : IF u = t THEN Erased(c, start, end) ELSE <<c>>)

\* Inserting shifts the later clips of the track and cuts what passes the end.
Shifted(c, frame, length, duration) ==
    LET m == IF c.start >= frame THEN ShiftBy(c, length) ELSE c IN
    IF m.start >= duration THEN <<>>
    ELSE IF m.end <= duration THEN <<m>>
    ELSE <<[m EXCEPT !.end = duration,
                     !.to = IF c.asset = NoAsset THEN @
                            ELSE @ - ToSource(m.end - duration, c.rate)]>>
ShiftTrackForInsert(d, t, frame, length) ==
    Replace(d, LAMBDA u, c :
        IF u = t THEN Shifted(c, frame, length, d.duration) ELSE <<c>>)

-----------------------------------------------------------------------------
(* Operations on clips. *)

\* Trimming and the rate give a clip and its linked partners a new length; on
\* the primary track everything behind follows.
Resize(d, id, F(_), length(_)) ==
    UNION {LET c == At(d, p)
               members == Members(d, p)
               delta == length(c) - (c.end - c.start)
               ripple == OnPrimary(members) /\ delta # 0
               resized == Update(d, members, LAMBDA m :
                              [F(m) EXCEPT !.end = m.start + length(c)])
           IN  IF AnyLocked(d, members) \/ (ripple /\ ~ShiftAfterUnlocked(d, c.end))
               THEN {}
               ELSE {IF ripple THEN ShiftAfter(resized, c.end, delta) ELSE resized}
           : p \in Editable(d, id)}

TrimClip(d, id, from, to) ==
    IF from < 0 \/ to <= from THEN {}
    ELSE Resize(d, id, LAMBDA m : [m EXCEPT !.from = from, !.to = to],
                       LAMBDA c : ToTimeline(to - from, c.rate))

SetPlaybackRate(d, id, rate) ==
    Resize(d, id, LAMBDA m : [m EXCEPT !.rate = rate],
                  LAMBDA c : ToTimeline(c.to - c.from, rate))

\* The two halves of a clip; the right half of a linked clip joins the right
\* half of its partner.
SplitAt(c, frame) == c.from + ToSource(frame - c.start, c.rate)
Splittable(c, frame) ==
    /\ c.asset # NoAsset
    /\ c.start < frame /\ frame < c.end
    /\ c.from < SplitAt(c, frame) /\ SplitAt(c, frame) < c.to
Halves(c, frame) ==
    <<[c EXCEPT !.end = frame, !.to = SplitAt(c, frame), !.fadeOut = 0],
      [c EXCEPT !.id = Derived(@, <<"split", frame>>), !.start = frame,
                !.from = SplitAt(c, frame), !.fadeIn = 0,
                !.group = IF c.linked THEN Derived(@, <<"split", frame>>) ELSE @]>>
SplitClip(d, id, frame) ==
    UNION {LET members == Members(d, p)
               split(c) == \E q \in members : At(d, q) = c
           IN  IF \/ AnyLocked(d, members)
                  \/ \E q \in members : ~Splittable(At(d, q), frame)
               THEN {}
               ELSE {Replace(d, LAMBDA t, c :
                        IF split(c) THEN Halves(c, frame) ELSE <<c>>)}
           : p \in Editable(d, id)}

\* Lays clips end to end from frame 0.
Packed(clips) ==
    FoldLeft(LAMBDA laid, c :
        LET cursor == IF laid = <<>> THEN 0 ELSE laid[Len(laid)].end IN
        Append(laid, [c EXCEPT !.start = cursor, !.end = cursor + (c.end - c.start)]),
        <<>>, clips)

\* Linked clips of other tracks follow the primary clip of their group.
SyncLinkedTiming(d) ==
    LET lead(c) == {p \in LinkedGroup(d, c.group) : p[1] = "visual_base"}
        follow(c) == LET v == At(d, CHOOSE p \in lead(c) : TRUE) IN
                     [c EXCEPT !.start = v.start, !.end = v.end]
    IN  Replace(d, LAMBDA t, c :
            <<IF t # "visual_base" /\ c.linked /\ lead(c) # {} THEN follow(c) ELSE c>>)

ReorderClip(d, id, frame) ==
    LET s == Sorted(Clips(d, "visual_base"))
        rest == SelectSeq(s, LAMBDA c : c.id # id)
        moving == SelectSeq(s, LAMBDA c : c.id = id)
        middle(c) == c.start + (c.end - c.start) \div 2
        before == SelectSeq(rest, LAMBDA c : middle(c) <= frame)
        partners == {p \in Places(d) : \E i \in DOMAIN s :
                        s[i].linked /\ p \in LinkedGroup(d, s[i].group)}
    IN  IF \/ frame < 0 \/ frame > d.duration \/ moving = <<>>
           \/ Locked(d, "visual_base") \/ AnyLocked(d, partners)
        THEN {}
        ELSE {SortAll(SyncLinkedTiming(SetClips(d, "visual_base",
                 Packed(before \o moving \o SubSeq(rest, Len(before) + 1, Len(rest))))))}

TrimClipEdge(d, id, frame, edge) ==
    UNION {LET c == At(d, p)
               members == Members(d, p)
               trim(m) ==
                 IF frame <= m.start \/ frame >= m.end THEN m
                 ELSE IF edge = "start"
                 THEN [m EXCEPT !.start = frame,
                                !.from = IF m.asset = NoAsset THEN @
                                         ELSE @ + ToSource(frame - m.start, m.rate)]
                 ELSE [m EXCEPT !.end = frame,
                                !.to = IF m.asset = NoAsset THEN @
                                       ELSE @ - ToSource(m.end - frame, m.rate)]
           IN  IF frame <= c.start \/ frame >= c.end \/ AnyLocked(d, members) THEN {}
               ELSE IF OnPrimary(members)
               THEN IF edge = "start" THEN DeleteRange(d, c.start, frame)
                    ELSE DeleteRange(d, frame, c.end)
               ELSE {Update(d, members, trim)}
           : p \in Editable(d, id)}

DeleteClip(d, id) ==
    UNION {LET c == At(d, p)
               members == Members(d, p)
               gone == {At(d, q).id : q \in members}
           IN  IF \/ AnyLocked(d, members)
                  \/ OnPrimary(members) /\ Len(Clips(d, "visual_base")) <= 1
               THEN {}
               ELSE IF OnPrimary(members) THEN DeleteRange(d, c.start, c.end)
               ELSE {Replace(d, LAMBDA t, x : IF x.id \in gone THEN <<>> ELSE <<x>>)}
           : p \in Editable(d, id)}

-----------------------------------------------------------------------------
(* Moving a clip. *)

Compatible(from, to, c) ==
    /\ Family(from) = Family(to)
    /\ Family(to) = "visual" => c.asset # NoAsset /\ KindOf[c.asset] # "audio"
    /\ Family(to) = "audio" => c.asset # NoAsset /\ KindOf[c.asset] # "image"

SplitPrimaryAt(d, frame) ==
    LET hit == {p \in Places(d) : p[1] = "visual_base"
                    /\ At(d, p).start < frame /\ frame < At(d, p).end}
    IN  IF hit = {} THEN {d}
        ELSE SplitClip(d, At(d, CHOOSE p \in hit : TRUE).id, frame)

\* Mutant: the moved clip stays at the end of the track's list.
InsertUnsorted(d, c, target) ==
    LET frame == ClampInt(target, 0, d.duration)
        length == c.end - c.start
    IN  IF Locked(d, "visual_base") \/ ~RippleUnlocked(d, frame, "visual_base") THEN {}
        ELSE {SetClips(ShiftAfter(s, frame, length), "visual_base",
                  Append(Clips(ShiftAfter(s, frame, length), "visual_base"),
                         [c EXCEPT !.start = frame, !.end = frame + length]))
              : s \in SplitPrimaryAt(d, frame)}
InsertIntoPrimary(d, c, target) ==
    LET frame == ClampInt(target, 0, d.duration)
        length == c.end - c.start
    IN  IF Locked(d, "visual_base") \/ ~RippleUnlocked(d, frame, "visual_base") THEN {}
        ELSE {SortTrack(SetClips(ShiftAfter(s, frame, length), "visual_base",
                  Append(Clips(ShiftAfter(s, frame, length), "visual_base"),
                         [c EXCEPT !.start = frame, !.end = frame + length])),
                  "visual_base") : s \in SplitPrimaryAt(d, frame)}

OverwritePrimary(d, c, target) ==
    LET length == c.end - c.start
        frame == ClampInt(target, 0, d.duration - length)
        erased == EraseTrackRange(d, "visual_base", frame, frame + length)
    IN  IF Locked(d, "visual_base") \/ length > d.duration THEN {}
        ELSE {SortTrack(SetClips(erased, "visual_base",
                  Append(Clips(erased, "visual_base"),
                         [c EXCEPT !.start = frame, !.end = frame + length])),
                  "visual_base")}

\* The document without the clip; a primary clip takes its time with it.
Lifted(d, p) ==
    LET c == At(d, p)
        rest == SetClips(d, p[1], RemoveAt(Clips(d, p[1]), p[2]))
    IN  IF p[1] # "visual_base" THEN {rest}
        ELSE IF Len(Clips(d, p[1])) = 1 \/ ~RippleUnlocked(rest, c.start, p[1]) THEN {}
        ELSE DeleteRange(rest, c.start, c.end)

Land(d, c, from, to, target, mode) ==
    LET length == c.end - c.start
        free == [c EXCEPT !.linked = FALSE, !.group = NoGroup]
        frame == ClampInt(target, 0, Max2(0, d.duration - length))
        room == IF mode = "insert" THEN ShiftTrackForInsert(d, to, frame, length)
                ELSE EraseTrackRange(d, to, frame, frame + length)
        landed == [(IF from = to THEN c ELSE free)
                      EXCEPT !.start = frame, !.end = frame + length]
    IN  IF to = "visual_base"
        THEN IF mode = "insert" THEN InsertIntoPrimary(d, free, target)
             ELSE OverwritePrimary(d, free, target)
        ELSE IF length > d.duration THEN {}
        ELSE {SortTrack(SetClips(room, to, Append(Clips(room, to), landed)), to)}

MoveClip(d, id, target, mode, to) ==
    UNION {LET c == At(d, p)
               group == IF c.linked THEN LinkedGroup(d, c.group) ELSE {}
               lead == {q \in group : q[1] = "visual_base"}
               after == IF p[1] = "visual_base" /\ target > c.end
                        THEN target - (c.end - c.start) ELSE target
           IN  IF Locked(d, to) \/ ~Compatible(p[1], to, c) THEN {}
               ELSE IF group # {} /\ to # p[1] THEN {}
               ELSE IF lead # {}
               THEN ReorderClip(d, At(d, CHOOSE q \in lead : TRUE).id, target)
               ELSE IF p[1] = "visual_base" /\ to = "visual_base"
               THEN ReorderClip(d, id, target)
               ELSE UNION {Land(r, c, p[1], to, after, mode) : r \in Lifted(d, p)}
           : p \in Editable(d, id)}

-----------------------------------------------------------------------------
(* Inserting, linking, replacing and the remaining operations. *)

InsertClip(d, asset, from, to, t, at) ==
    LET length == to - from
        start == IF t = "visual_base" THEN d.duration ELSE at
        plain == Clip(Id(<<"clip", d.version + 1>>), asset, start, start + length, from, to)
        sound == t = "visual_base" /\ KindOf[asset] = "video" /\ HasAudio[asset]
        group == GroupOf("link", plain.id)
        picture == [plain EXCEPT !.linked = TRUE, !.group = group]
        partner == [picture EXCEPT !.id = Derived(@, <<"audio", 0>>)]
        withSound == SortTrack(SetClips(d, "original_audio",
                         Append(Clips(d, "original_audio"), partner)), "original_audio")
        base == IF sound THEN withSound ELSE d
    IN  IF \/ from < 0 \/ to <= from \/ Locked(d, t)
           \/ t # "visual_base" /\ (start < 0 \/ start + length > d.duration)
           \/ sound /\ Locked(d, "original_audio")
        THEN {}
        ELSE {[SetClips(base, t, Append(Clips(base, t), IF sound THEN picture ELSE plain))
                 EXCEPT !.duration = IF t = "visual_base" THEN @ + length ELSE @]}

InsertSubtitle(d, start, end) ==
    IF Locked(d, "subtitles") \/ start < 0 \/ end <= start \/ end > d.duration THEN {}
    ELSE {SortTrack(SetClips(d, "subtitles", Append(Clips(d, "subtitles"),
             Clip(Id(<<"subtitle", d.version + 1>>), NoAsset, start, end, 0, 0))),
             "subtitles")}

Unlinked(c) == [c EXCEPT !.linked = FALSE, !.group = NoGroup]
Unlink(d, p) ==
    LET c == At(d, p)
        group == LinkedGroup(d, c.group)
        last == IF c.linked /\ Cardinality(group) = 2 THEN group ELSE {p}
    IN  IF AnyLocked(d, last) THEN {} ELSE {Update(d, last, Unlinked)}

\* The clip of the other track that plays the same source at the same time.
Candidates(d, p) ==
    LET c == At(d, p)
        wanted == CASE p[1] = "visual_base" -> "original_audio"
                    [] p[1] = "original_audio" -> "visual_base"
                    [] OTHER -> ""
    IN  {q \in Places(d) : q[1] = wanted /\ LET x == At(d, q) IN
            /\ x.asset = c.asset /\ x.start = c.start /\ x.end = c.end
            /\ x.from = c.from /\ x.to = c.to}
Link(d, p) ==
    LET c == At(d, p)
        first == CHOOSE q \in Candidates(d, p) :
                    \A r \in Candidates(d, p) : q[2] <= r[2]
        group == IF c.group # NoGroup THEN c.group
                 ELSE IF At(d, first).group # NoGroup THEN At(d, first).group
                 ELSE GroupOf("link", c.id)
    IN  IF c.linked /\ Cardinality(LinkedGroup(d, c.group)) > 1 THEN {d}
        ELSE IF Candidates(d, p) = {} \/ Locked(d, first[1]) THEN {}
        ELSE {Update(d, {p, first}, LAMBDA x : [x EXCEPT !.linked = TRUE, !.group = group])}
SetClipLinked(d, id, linked) ==
    UNION {IF linked THEN Link(d, p) ELSE Unlink(d, p) : p \in Editable(d, id)}

ReplaceClip(d, id, asset) ==
    {Update(d, {p}, LAMBDA c : [c EXCEPT !.asset = asset]) : p \in Editable(d, id)}

\* Original sound as the primary track implies it: one linked clip for every
\* picture whose asset has sound, with the fades its predecessor had.
DeriveOriginalAudio(d) ==
    LET voiced(v) == KindOf[v.asset] = "video" /\ HasAudio[v.asset]
        group(v) == IF v.group # NoGroup THEN v.group ELSE GroupOf("sync", v.id)
        old(v) == LET s == Clips(d, "original_audio")
                      same == {i \in DOMAIN s : s[i].group = group(v)}
                      named == {i \in DOMAIN s : s[i].id = Derived(v.id, <<"audio", 0>>)}
                      fit == IF same # {} THEN same ELSE named
                  IN  {s[i] : i \in {j \in fit : \A k \in fit : k <= j}}
        fades(v) == IF old(v) = {} THEN <<0, 0>>
                    ELSE LET a == CHOOSE a \in old(v) : TRUE IN <<a.fadeIn, a.fadeOut>>
        picture(v) == IF voiced(v) THEN [v EXCEPT !.linked = TRUE, !.group = group(v)]
                      ELSE IF v.linked THEN Unlinked(v) ELSE v
        sound(v) == [picture(v) EXCEPT !.id = Derived(@, <<"audio", 0>>),
                        !.fadeIn = fades(v)[1], !.fadeOut = fades(v)[2]]
        s == Clips(d, "visual_base")
        heard == SelectSeq(s, voiced)
    IN  IF Locked(d, "visual_base") \/ Locked(d, "original_audio") THEN {}
        ELSE {SortTrack(SetClips(SetClips(d, "visual_base", [i \in DOMAIN s |-> picture(s[i])]),
                 "original_audio", [i \in DOMAIN heard |-> sound(heard[i])]),
                 "original_audio")}

SetClipFades(d, id, fadeIn, fadeOut) ==
    UNION {LET c == At(d, p)
               video == c.asset # NoAsset /\ KindOf[c.asset] = "video"
               sounds == IF Family(p[1]) = "visual" /\ c.linked
                         THEN {q \in LinkedGroup(d, c.group) : q[1] = "original_audio"}
                         ELSE {}
               members == {p} \cup sounds
           IN  IF \/ ~video /\ Family(p[1]) # "audio"
                  \/ AnyLocked(d, members)
                  \/ \E q \in members : fadeIn + fadeOut > At(d, q).end - At(d, q).start
               THEN {}
               ELSE {Update(d, members, LAMBDA m :
                        [m EXCEPT !.fadeIn = fadeIn, !.fadeOut = fadeOut])}
           : p \in Editable(d, id)}

ClampClipFades(d) ==
    Replace(d, LAMBDA t, c :
        LET length == Max2(0, c.end - c.start)
            fadeIn == ClampInt(c.fadeIn, 0, length)
        IN  <<[c EXCEPT !.fadeIn = fadeIn,
                        !.fadeOut = ClampInt(@, 0, length - fadeIn)]>>)

RemoveTrackClips(d, t) ==
    IF t = "visual_base" \/ Locked(d, t) THEN {} ELSE {SetClips(d, t, <<>>)}

SetTrackState(d, t, locked) == {[d EXCEPT !.tracks[t].locked = locked]}

\* adjust_gain and edit_subtitle_text: data the model leaves out.
Retouch(d, id) == {d : p \in Editable(d, id)}

Patched(d, op) ==
    CASE op.kind = "trim_clip" -> TrimClip(d, op.id, op.from, op.to)
      [] op.kind = "split_clip" -> SplitClip(d, op.id, op.frame)
      [] op.kind = "reorder_clip" -> ReorderClip(d, op.id, op.frame)
      [] op.kind = "move_clip" -> MoveClip(d, op.id, op.frame, op.mode, op.track)
      [] op.kind = "trim_clip_edge" -> TrimClipEdge(d, op.id, op.frame, op.edge)
      [] op.kind = "delete_clip" -> DeleteClip(d, op.id)
      [] op.kind = "set_track_state" -> SetTrackState(d, op.track, op.locked)
      [] op.kind = "set_clip_linked" -> SetClipLinked(d, op.id, op.linked)
      [] op.kind = "insert_subtitle" -> InsertSubtitle(d, op.start, op.end)
      [] op.kind = "delete_range" -> DeleteRange(d, op.start, op.end)
      [] op.kind = "delete_source_range" -> DeleteSourceRange(d, op.asset, op.from, op.to)
      [] op.kind = "insert_clip" -> InsertClip(d, op.asset, op.from, op.to, op.track, op.at)
      [] op.kind = "replace_clip" -> ReplaceClip(d, op.id, op.asset)
      [] op.kind = "set_playback_rate" -> SetPlaybackRate(d, op.id, op.rate)
      [] op.kind = "set_clip_fades" -> SetClipFades(d, op.id, op.fadeIn, op.fadeOut)
      [] op.kind = "adjust_gain" -> Retouch(d, op.id)
      [] op.kind = "remove_track_clips" -> RemoveTrackClips(d, op.track)

ApplyPatch(d, op) ==
    {[ClampClipFades(r) EXCEPT !.version = @ + 1] : r \in Patched(d, op)}

-----------------------------------------------------------------------------
(* Coalescing what a split left behind. *)

SameSettings(l, r) ==
    /\ l.asset = r.asset /\ KindOf[l.asset] = "video"
    /\ ~l.linked /\ ~r.linked /\ l.group = NoGroup /\ r.group = NoGroup
    /\ l.end = r.start /\ l.fadeOut = 0 /\ r.fadeIn = 0 /\ l.rate = r.rate
RenderEquivalent(l, r) ==
    LET exact(from, to, frames) == to - from = ToSource(frames, l.rate) IN
    /\ SameSettings(l, r) /\ l.to = r.from
    /\ exact(l.from, l.to, l.end - l.start)
    /\ exact(r.from, r.to, r.end - r.start)
    /\ exact(l.from, r.to, r.end - l.start)
Joined(l, r) == [l EXCEPT !.end = r.end, !.to = r.to, !.fadeOut = r.fadeOut]
Coalesced(clips) ==
    FoldLeft(LAMBDA kept, c :
        IF kept # <<>> /\ RenderEquivalent(kept[Len(kept)], c)
        THEN [kept EXCEPT ![Len(kept)] = Joined(@, c)]
        ELSE Append(kept, c), <<>>, clips)
CoalesceRedundantAdjacentClips(d) ==
    IF Locked(d, "visual_base") THEN d
    ELSE SetClips(d, "visual_base", Coalesced(Clips(d, "visual_base")))

\* The indexed shot that a source range shares most frames with; 0 for none.
BestShot(asset, from, to) ==
    LET shared(i) == Min2(to, Shots[asset][i][2]) - Max2(from, Shots[asset][i][1])
        hits == {i \in DOMAIN Shots[asset] : shared(i) > 0}
        best == {i \in hits : \A j \in hits : shared(j) <= shared(i)}
    IN  IF best = {} THEN 0 ELSE CHOOSE i \in best : \A j \in best : i <= j

\* Adjacent pieces of one shot that show some frames twice: the pair is played
\* straight through instead, where the material is long enough.
MaxOverlap == 30
StraightEnd(l, r) == l.from + ToSource(r.end - l.start, l.rate)
Repairable(l, r) ==
    /\ SameSettings(l, r) /\ r.from < l.to /\ r.to > l.to
    /\ l.to - r.from <= MaxOverlap /\ 4 * (l.to - r.from) <= r.end - l.start
    /\ BestShot(l.asset, l.from, l.to) # 0
    /\ BestShot(l.asset, l.from, l.to) = BestShot(r.asset, r.from, r.to)
    /\ r.to < StraightEnd(l, r) /\ StraightEnd(l, r) <= Length[l.asset]
    /\ BestShot(l.asset, l.from, StraightEnd(l, r)) = BestShot(l.asset, l.from, l.to)
Repairs(d) ==
    LET s == Clips(d, "visual_base") IN
    {i \in 1..(Len(s) - 1) : ~ Locked(d, "visual_base") /\ Repairable(s[i], s[i + 1])}
\* Two repairs of one clip do not fit together and fail the whole pass.
CoalesceApprovedOverlapping(d, repairs) ==
    LET s == Clips(d, "visual_base")
        joined(i) == [Joined(s[i], s[i + 1]) EXCEPT !.to = StraightEnd(s[i], s[i + 1])]
        kept == [i \in DOMAIN s |-> IF i \in repairs THEN <<joined(i)>>
                                    ELSE IF i - 1 \in repairs THEN <<>> ELSE <<s[i]>>]
    IN  IF \E i \in repairs : i + 1 \in repairs THEN {}
        ELSE {SetClips(d, "visual_base", FlattenSeq(kept))}
=============================================================================
