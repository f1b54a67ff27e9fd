---------------------------- MODULE TimelineEdit ----------------------------
(***************************************************************************)
(* One draft's timeline under the edits of the agent and of the page: the  *)
(* handler toolAtomicTimelineEdit (agentexec/tool_exec_timeline.go), with  *)
(* its protection of independent sound (timeline_integrity.go), the        *)
(* admission of the edits of one assistant message                         *)
(* (atomic_edit_admission.go) and the stop gate's normalization.           *)
(*                                                                         *)
(* A refused edit leaves everything as it was and is not a step.  The      *)
(* commit itself, the edit lease and version conflicts are in EditLease.   *)
(***************************************************************************)
EXTENDS Render

CONSTANTS Frame,          \* timeline frames that requests name
          Source,         \* source ranges that requests name
          Rate,           \* playback rates that requests name
          Opening,        \* edits that built the first documents
          MaxVersion      \* bound on the edits after the opening

VARIABLES doc,            \* the current version
          proof,          \* tracks whose overhang its report proves
          message,        \* admission scope of the running assistant message
          last            \* the edit that produced doc, and who asked for it

vars == <<doc, proof, message, last>>

Independent == {"bgm", "sfx"}

\* A request; a kind reads the fields it needs.
Request == [kind |-> "none", id |-> NoGroup, asset |-> NoAsset, track |-> "",
            from |-> 0, to |-> 0, at |-> 0, frame |-> 0, start |-> 0, end |-> 0,
            mode |-> "overwrite", edge |-> "start", rate |-> <<1, 1>>,
            linked |-> FALSE, locked |-> FALSE, fadeIn |-> 0, fadeOut |-> 0]
Of(kind, id) == [Request EXCEPT !.kind = kind, !.id = id]

\* The requests the tools decode, for the clips of a document.
ClipRequests(id) ==
    {[Of("trim_clip", id) EXCEPT !.from = s[1], !.to = s[2]] : s \in Source}
    \cup {[Of(k, id) EXCEPT !.frame = f] : k \in {"split_clip", "reorder_clip"}, f \in Frame}
    \cup {[Of("move_clip", id) EXCEPT !.frame = f, !.mode = m, !.track = t] :
            f \in Frame, m \in {"insert", "overwrite"},
            t \in {"visual_base", "visual_overlay", "bgm", "sfx"}}
    \cup {[Of("trim_clip_edge", id) EXCEPT !.frame = f, !.edge = e] :
            f \in Frame, e \in {"start", "end"}}
    \cup {[Of("set_clip_linked", id) EXCEPT !.linked = b] : b \in BOOLEAN}
    \cup {[Of("replace_clip", id) EXCEPT !.asset = a] : a \in Asset}
    \cup {[Of("set_playback_rate", id) EXCEPT !.rate = r] : r \in Rate}
    \cup {[Of("set_clip_fades", id) EXCEPT !.fadeIn = 1, !.fadeOut = 1],
          Of("delete_clip", id), Of("adjust_gain", id)}
Requests(d) ==
    UNION {ClipRequests(id) : id \in AllIds(d)}
    \cup {[Request EXCEPT !.kind = "insert_clip", !.asset = a, !.from = s[1],
              !.to = s[2], !.track = t, !.at = 0] :
            a \in Asset, s \in Source, t \in {"visual_base", "visual_overlay", "bgm", "sfx"}}
    \cup {[Request EXCEPT !.kind = k, !.start = f, !.end = g] :
            k \in {"delete_range", "insert_subtitle"}, f \in Frame \cup {0}, g \in Frame}
    \cup {[Request EXCEPT !.kind = "delete_source_range", !.asset = a, !.from = s[1],
              !.to = s[2]] : a \in Asset, s \in Source}
    \cup {[Request EXCEPT !.kind = "remove_track_clips", !.track = t] :
            t \in {"visual_overlay", "bgm"}}
    \cup {[Request EXCEPT !.kind = "set_track_state", !.track = t, !.locked = b] :
            t \in {"visual_base", "bgm"}, b \in BOOLEAN}

-----------------------------------------------------------------------------
(* Requests that the handler refuses before it touches the document. *)

FirstInsert(op) == op.kind = "insert_clip" /\ op.track = "visual_base"

\* The material must be the draft's own, of the track's kind and long enough.
InSource(asset, from, to) ==
    0 <= from /\ from < to /\ (Length[asset] > 0 => to <= Length[asset])
FitsTrack(asset, t) ==
    /\ Family(t) = "visual" => KindOf[asset] \in {"video", "image"}
    /\ t \in {"voiceover", "bgm", "sfx"} => KindOf[asset] \in {"audio", "video"}
validateAtomicTimelineAsset(d, op) ==
    LET target == {p \in Places(d) : At(d, p).id = op.id} IN
    CASE op.kind = "insert_clip" ->
            /\ op.track # "original_audio" /\ FitsTrack(op.asset, op.track)
            /\ InSource(op.asset, op.from, op.to)
      [] op.kind = "replace_clip" ->
            \A p \in target :
                /\ Length[op.asset] > 0 => At(d, p).to <= Length[op.asset]
                /\ FitsTrack(op.asset, p[1])
      [] op.kind = "trim_clip" ->
            \A p \in target : /\ At(d, p).asset # NoAsset
                              /\ InSource(At(d, p).asset, op.from, op.to)
      [] OTHER -> TRUE

-----------------------------------------------------------------------------
(* Independent sound: bgm and sfx stay where they are unless the edit is   *)
(* about them.                                                             *)

DeletesTime(op) == op.kind \in {"delete_range", "delete_source_range"}
Target(d, op) == {p \in Places(d) : At(d, p).id = op.id}
Partners(d, op) == UNION {Members(d, p) : p \in Target(d, op)}

touchedTimelineClipIDs(d, op) ==
    IF DeletesTime(op) THEN AllIds(d)
    ELSE {At(d, p).id : p \in Partners(d, op)}
         \cup (IF op.kind = "move_clip"
               THEN {c.id : c \in Range(Clips(d, op.track))} ELSE {})
touchedTrackIDs(d, op) ==
    (IF DeletesTime(op) THEN Independent ELSE {})
    \cup ({op.track} \cap TrackId)
    \cup {p[1] : p \in Partners(d, op)}

\* Mutant: effects are not protected, music is.
PreserveMusicOnly(d, op) ==
    [t \in Independent |->
        IF t = "sfx" \/ t \in touchedTrackIDs(d, op) THEN <<>>
        ELSE SelectSeq(Clips(d, t), LAMBDA c : ~ c.linked)]
preserveIndependentAudio(d, op) ==
    LET clips == touchedTimelineClipIDs(d, op)
        tracks == touchedTrackIDs(d, op)
    IN  [t \in Independent |->
            IF t \in tracks /\ clips = {} THEN <<>>
            ELSE SelectSeq(Clips(d, t), LAMBDA c :
                    ~ c.linked /\ ~ (t \in tracks /\ c.id \in clips))]
Protected(kept) == {t \in Independent : kept[t] # <<>>}
KeptIds(kept, t) == {c.id : c \in Range(kept[t])}

Marked(d) == Replace(d, LAMBDA t, c :
    <<IF t \in Independent THEN [c EXCEPT !.lineage = c.id] ELSE c>>)
\* The locks that a set of tracks keeps.
WithLocks(d, locked) == [d EXCEPT !.tracks = [t \in TrackId |->
    [clips |-> Clips(d, t), locked |-> t \in locked]]]
LockedTracks(d) == {t \in TrackId : Locked(d, t)}
Unmarked(c) == [c EXCEPT !.lineage = NoGroup]

onlyPreservedClipsChanged(before, after, kept) ==
    {c \in Range(before) : \A k \in Range(kept) : k.id # c.id}
        = {Unmarked(c) : c \in {x \in Range(after) :
                                \A k \in Range(kept) : k.id # x.lineage}}

\* Locked protected tracks are opened for the edit where a trial shows that
\* nothing but protected clips would change.
unlockPreservedIndependentAudio(d, kept, op) ==
    LET open == WithLocks(Marked(d), LockedTracks(d) \ Protected(kept))
        free(trial) == {t \in Protected(kept) :
            onlyPreservedClipsChanged(Clips(d, t), Clips(trial, t), kept[t])}
    IN  IF ApplyPatch(open, op) = {} THEN {d}
        ELSE {WithLocks(Marked(d), LockedTracks(d) \ free(trial)) :
                trial \in ApplyPatch(open, op)}

\* Puts the protected clips back where they were; an identifier that the edit
\* has given away or doubled fails it.
restoreIndependentAudioTracks(r, d, kept) ==
    LET ids == UNION {KeptIds(kept, t) : t \in Independent}
        holders(id) == {p \in Places(r) : At(r, p).id = id}
        restored(t) ==
            IF Clips(d, t) = kept[t] THEN kept[t]
            ELSE Sorted(SelectSeq(Clips(r, t), LAMBDA c :
                            c.lineage \notin KeptIds(kept, t)) \o kept[t])
    IN  IF \E id \in ids : \/ Cardinality(holders(id)) > 1
                           \/ \E p \in holders(id) : At(r, p).lineage # id
        THEN {}
        ELSE {[r EXCEPT !.tracks = [t \in TrackId |->
                IF t \in Protected(kept)
                THEN [clips |-> restored(t), locked |-> Locked(d, t)]
                ELSE r.tracks[t]]]}

Overhang(c, duration) == Max2(0, c.end - duration)
isSourceDescendant(c, o) ==
    c.asset = o.asset /\ c.rate = o.rate /\ o.from <= c.from /\ c.to <= o.to
\* The clip of the version before that a clip of the same track comes from.
Ancestors(c, before) ==
    LET same == {o \in Range(before) : o.id = c.id}
        marked == {o \in Range(before) : o.id = c.lineage /\ isSourceDescendant(c, o)}
        derived == {o \in Range(before) :
                      /\ c.id.of = o.id.of /\ Len(c.id.path) = Len(o.id.path) + 1
                      /\ SubSeq(c.id.path, 1, Len(o.id.path)) = o.id.path
                      /\ isSourceDescendant(c, o)}
        source == {o \in Range(before) : isSourceDescendant(c, o)}
    IN  IF same # {} THEN same
        ELSE IF c.lineage # NoGroup THEN marked
        ELSE IF Cardinality(derived) = 1 THEN derived
        ELSE IF Cardinality(source) = 1 THEN source ELSE {}

\* A sound may hang over the end if it was not touched, or if it hung over the
\* end at least as far in a version that was proved.
overhangIsAuthorized(d, r, t, trusted, kept) ==
    \A c \in Range(Clips(r, t)) :
        \/ Overhang(c, r.duration) = 0
        \/ c \in Range(kept[t])
        \/ /\ t \in trusted
           /\ \E o \in Ancestors(c, Clips(d, t)) :
                Overhang(c, r.duration) <= Overhang(o, d.duration)
deriveIndependentAudioValidationProof(d, r, trusted, kept) ==
    {t \in Independent :
        /\ Validate(d, trusted)
        /\ \E c \in Range(Clips(r, t)) : Overhang(c, r.duration) > 0
        /\ overhangIsAuthorized(d, r, t, trusted, kept)}

-----------------------------------------------------------------------------
(* The edit as a whole. *)

ReplacesPicture(d, op) ==
    op.kind = "replace_clip" /\ \E p \in Target(d, op) : p[1] = "visual_base"
Strip(d) == Replace(d, LAMBDA t, c : <<Unmarked(c)>>)

\* What an accepted request makes of the document, with the new proof.
Edited(d, trusted, op) ==
    LET kept == preserveIndependentAudio(d, op)
        patched == UNION {ApplyPatch(input, op) :
                             input \in unlockPreservedIndependentAudio(d, kept, op)}
        restored == UNION {restoreIndependentAudioTracks(r, d, kept) : r \in patched}
        final == IF ReplacesPicture(d, op)
                 THEN UNION {DeriveOriginalAudio(r) : r \in restored} ELSE restored
        proved(r) == deriveIndependentAudioValidationProof(d, r, trusted, kept)
    IN  IF (d.version = 0 /\ ~ FirstInsert(op)) \/ ~ validateAtomicTimelineAsset(d, op)
        THEN {}
        ELSE {<<Strip(r), proved(r)>> : r \in {x \in final : Validate(Strip(x), proved(x))}}

Commit(result, op, by) ==
    /\ doc' = result[1]
    /\ proof' = result[2]
    /\ last' = [op |-> op, by |-> by]

\* Edits of the timeline page; the agent's edit lease keeps them out of a
\* message that has begun to edit.
ManualEdit(op) ==
    /\ message.open = FALSE
    /\ \E result \in Edited(doc, proof, op) : Commit(result, op, "user")
    /\ UNCHANGED message

-----------------------------------------------------------------------------
(* The edits of one assistant message. *)

usesTimelineCoordinates(op) ==
    \/ op.kind = "insert_clip" /\ op.track # "visual_base"
    \/ op.kind \in {"insert_subtitle", "delete_range", "split_clip", "reorder_clip",
                    "move_clip", "trim_clip_edge"}
\* Mutant: a new playback rate keeps its clip's identity and nothing else moves.
ChangesUnlessRated(op) ==
    op.kind \in {"trim_clip", "split_clip", "reorder_clip", "move_clip",
                 "trim_clip_edge", "delete_clip", "delete_range",
                 "delete_source_range", "insert_clip"}
changesTimelineCoordinates(op) ==
    op.kind \in {"trim_clip", "split_clip", "reorder_clip", "move_clip",
                 "trim_clip_edge", "delete_clip", "delete_range",
                 "delete_source_range", "insert_clip", "set_playback_rate"}

\* Where the pictures lie: what a frame number of the message was read from.
Layout(d) == <<d.duration, [i \in DOMAIN Clips(d, "visual_base") |->
                 LET c == Clips(d, "visual_base")[i] IN <<c.start, c.end>>]>>
NoMessage == [open |-> FALSE, ids |-> {}, moved |-> FALSE, seen |-> <<>>]
\* The scope an edit finds: the first one of a message opens it.
Scope == IF message.open THEN message
         ELSE [open |-> TRUE, ids |-> AllIds(doc), moved |-> FALSE, seen |-> Layout(doc)]
Admitted(op) ==
    /\ op.id # NoGroup => op.id \in Scope.ids
    /\ ~ (Scope.moved /\ usesTimelineCoordinates(op))
AgentEdit(op) ==
    /\ Admitted(op)
    /\ \E result \in Edited(doc, proof, op) : Commit(result, op, "agent")
    /\ message' = [Scope EXCEPT !.moved = @ \/ changesTimelineCoordinates(op)]

\* The provider answered again: the next message reads the timeline afresh.
NextMessage ==
    /\ message' = NoMessage
    /\ UNCHANGED <<doc, proof, last>>

\* Before the turn may end, the stop gate joins what splits left behind and
\* replays repeated frames straight.
Normalized(d) ==
    CoalesceApprovedOverlapping(CoalesceRedundantAdjacentClips(d),
                                Repairs(CoalesceRedundantAdjacentClips(d)))
NormalizeTimelineForStopGate ==
    /\ message.open
    /\ \E r \in Normalized(doc) :
        /\ r # doc /\ Validate(r, proof)
        /\ Commit(<<[r EXCEPT !.version = @ + 1], proof>>, Of("normalize", NoGroup), "harness")
    /\ message' = NoMessage

-----------------------------------------------------------------------------
Init ==
    /\ \E edits \in Opening :
        LET built == FoldLeft(LAMBDA before, op :
                        UNION {Edited(b[1], b[2], op) : b \in before},
                        {<<Empty, {}>>}, edits)
        IN  \E b \in built : doc = b[1] /\ proof = b[2]
    /\ message = NoMessage
    /\ last = [op |-> Request, by |-> "user"]

Room == doc.version < MaxVersion
Next ==
    \/ Room /\ \E op \in Requests(doc) : ManualEdit(op)
    \/ Room /\ \E op \in Requests(doc) : AgentEdit(op)
    \/ NormalizeTimelineForStopGate
    \/ NextMessage

Spec == Init /\ [][Next]_vars

-----------------------------------------------------------------------------
(* Properties.  Every edit gives the document a new version, so a step is  *)
(* an edit exactly when doc changes.                                       *)

\* No clip ever plays frames its material does not have, whatever trims, cuts,
\* rates, replacements and repairs it went through.
SourceFits ==
    \A p \in Places(doc) : LET c == At(doc, p) IN
        c.asset # NoAsset /\ Length[c.asset] > 0 => 0 <= c.from /\ c.to <= Length[c.asset]

\* Music and effects stay as they are unless the edit names them, removes time
\* or lands on their track: rippling, replacing and cutting pictures, and
\* opening a locked track for it, never moves or shortens them
\* (timeline_integrity.go).
About(op, t, c) ==
    \/ op.kind \in {"delete_range", "delete_source_range"}
    \/ op.id = c.id
    \/ op.kind \in {"move_clip", "remove_track_clips"} /\ op.track = t
IndependentAudioStays ==
    [][doc' # doc =>
        \A t \in Independent : \A c \in Range(Clips(doc, t)) :
            About(last'.op, t, c) \/ c \in Range(Clips(doc', t))]_vars

\* A sound hangs over the end only because the pictures under it went; no edit
\* makes one that it changed hang over further than one did before.
OverhangNeverGrows ==
    [][doc' # doc =>
        \A t \in Independent : \A c \in Range(Clips(doc', t)) :
            \/ Overhang(c, doc'.duration) = 0
            \/ c \in Range(Clips(doc, t))
            \/ \E o \in Range(Clips(doc, t)) :
                    Overhang(c, doc'.duration) <= Overhang(o, doc.duration)]_vars

\* What a track plays at a frame, at normal speed.
Shown(d, t, f) ==
    {<<c.asset, IF c.asset = NoAsset THEN 0 ELSE c.from + f - c.start>> :
        c \in {x \in Range(Clips(d, t)) : x.start <= f /\ f < x.end}}
\* The frames an edit takes out of the timeline.
TakenOut(d, op) ==
    CASE op.kind = "delete_range" -> op.start..(op.end - 1)
      [] op.kind = "delete_source_range" ->
            {f \in 0..(d.duration - 1) : \E s \in op.from..(op.to - 1) :
                <<op.asset, s>> \in Shown(d, "visual_base", f)}
      [] op.kind = "delete_clip" ->
            UNION {At(d, p).start..(At(d, p).end - 1) : p \in Target(d, op)}
      [] op.kind = "trim_clip_edge" ->
            UNION {IF op.edge = "start" THEN At(d, p).start..(op.frame - 1)
                   ELSE op.frame..(At(d, p).end - 1) : p \in Target(d, op)}
      [] OTHER -> {}
\* The tracks on which nothing else may happen.
PlaysOn(d, op) ==
    CASE DeletesTime(op) -> TrackId
      [] op.kind \in {"split_clip", "set_clip_linked", "set_track_state", "adjust_gain"} -> TrackId
      [] op.kind = "normalize" /\ Repairs(CoalesceRedundantAdjacentClips(d)) = {} -> TrackId
      [] op.kind \in {"delete_clip", "trim_clip_edge"} /\ OnPrimary(Partners(d, op)) ->
            TrackId \ Independent
      [] OTHER -> {}
\* At normal speed, a deletion on the picture track removes just the frames it
\* names and the rest plays on in order and in step on every track that
\* follows; splitting, linking, locking and the stop gate's joining change
\* nothing that is seen or heard.
AtNormalSpeed(d) == \A p \in Places(d) : At(d, p).rate = <<1, 1>>
PlayedExactly ==
    [][doc' # doc /\ AtNormalSpeed(doc) =>
        LET op == last'.op
            taken == TakenOut(doc, op)
            left == SelectSeq([i \in 1..doc.duration |-> i - 1],
                              LAMBDA f : f \notin taken)
        IN  PlaysOn(doc, op) # {} =>
                /\ doc'.duration = Len(left)
                /\ \A t \in PlaysOn(doc, op), i \in DOMAIN left :
                        Shown(doc', t, i - 1) = Shown(doc, t, left[i])]_vars

\* A render plays the document: at normal speed every frame of the timeline
\* shows the topmost picture that lies there and sounds as its tracks say, a
\* linked picture is heard with its own sound, and the visual inspection of a
\* preview quotes the lines that are heard (media/render.go).
Played(d, t, f) ==
    {<<s[1], IF KindOf[s[1]] = "image" THEN 0 ELSE s[2]>> : s \in Shown(d, t, f)}
RenderedExactly ==
    AtNormalSpeed(doc) =>
        /\ Len(BasePictures(doc)) = doc.duration
        /\ \A f \in 0..(doc.duration - 1) :
            LET over == Played(doc, "visual_overlay", f)
                pictures == IF over = {} THEN Played(doc, "visual_base", f) ELSE over
                at(c) == c.start <= f /\ f < c.end
                quoted == UNION {{<<c.asset, s>> : s \in Quoted(c, f)} :
                                    c \in audibleSpeechClipsAtFrame(doc, f)}
            IN  /\ PictureAt(doc, f) # {} /\ PictureAt(doc, f) \subseteq pictures
                /\ \A t \in AudioTrack : Clips(doc, t) # <<>> =>
                        SoundAt(doc, t, f) = {s \in Played(doc, t, f) : HasAudio[s[1]]}
                /\ \A c \in Range(Clips(doc, "visual_base")) : c.linked /\ at(c) =>
                        <<c.asset, c.from + f - c.start>> \in SoundAt(doc, "original_audio", f)
                /\ SoundAt(doc, "original_audio", f) \cup SoundAt(doc, "voiceover", f)
                        \subseteq quoted

\* A frame number that an assistant message wrote before its earlier edits came
\* back means what it meant when the message was written: the pictures lie
\* where they lay (atomic_edit_admission.go:36-41).
NamesFrames == {"insert_subtitle", "delete_range", "split_clip", "reorder_clip",
                "move_clip", "trim_clip_edge"}
FramesObserved ==
    [][doc' # doc /\ last'.by = "agent" /\ message.open /\ last'.op.kind \in NamesFrames
        => Layout(doc) = message.seen]_vars

\* Every document is sound and a render plays it: its clips play frames they
\* have, and nothing else is seen or heard.
DocumentSound == SourceFits /\ RenderedExactly

\* Sounds that stand for themselves stay as they are and hang over the end only
\* where they have to.
SoundsStay == IndependentAudioStays /\ OverhangNeverGrows
=============================================================================
