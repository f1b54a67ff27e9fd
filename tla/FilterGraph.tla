---------------------------- MODULE FilterGraph ----------------------------
(***************************************************************************)
(* The ffmpeg filter graph of a render (media/render.go), as pure          *)
(* operators: which filter reads and which writes which label.  What a     *)
(* filter does to its samples is left out, and so is the place of an input *)
(* in the argument list.                                                   *)
(*                                                                         *)
(* A film is a record: base, a sequence saying of every picture clip       *)
(* whether its material has sound; overlays, how many pictures lie over    *)
(* it; clips, track -> a sequence saying the same of its sounds; muted and *)
(* solo, sets of tracks; titled, whether there is a subtitle; ducking,     *)
(* whether bgm gives way, and triggers, to which tracks.                   *)
(***************************************************************************)
EXTENDS Integers, Sequences, SequencesExt

\* The order of the sound tracks of a document.
SoundTracks == <<"original_audio", "voiceover", "bgm", "sfx">>

Filter(in, out) == [in |-> in, out |-> out]
Label(kind, n) == <<kind, n>>
On(label, suffix) == Append(label, suffix)

-----------------------------------------------------------------------------
(* Pictures. *)

primaryFilters(film) ==
    [i \in DOMAIN film.base |-> Filter(<<>>, <<Label("v", i)>>)]
    \o <<Filter([i \in DOMAIN film.base |-> Label("v", i)], <<Label("basev", 0)>>)>>

\* Every overlay is laid over what the ones before it made.
Over(n) == IF n = 0 THEN Label("basev", 0) ELSE Label("video_overlayed", n)
Overlays(film) == IF "visual_overlay" \in film.muted THEN 0 ELSE film.overlays
appendVisualOverlays(film) ==
    FlattenSeq([n \in 1..Overlays(film) |->
        <<Filter(<<>>, <<Label("overlay", n)>>),
          Filter(<<Over(n - 1), Label("overlay", n)>>, <<Over(n)>>)>>])
appendSubtitles(film) ==
    IF film.titled /\ "subtitles" \notin film.muted
    THEN <<Filter(<<Over(Overlays(film))>>, <<Label("subtitled_video", 0)>>)>>
    ELSE <<>>
VideoLabel(film) ==
    IF appendSubtitles(film) = <<>> THEN Over(Overlays(film)) ELSE Label("subtitled_video", 0)

-----------------------------------------------------------------------------
(* Sounds. *)

renderableTracks(film) ==
    LET solo == {t \in film.solo : t \notin film.muted} IN
    SelectSeq(SoundTracks, LAMBDA t : t \notin film.muted /\ (solo # {} => t \in solo))

\* What a track plays; without original sound of its own the pictures' is used.
Played(film, t) ==
    LET clips == IF t = "original_audio" /\ film.clips[t] = <<>>
                 THEN film.base ELSE film.clips[t]
    IN  {i \in DOMAIN clips : clips[i]}
Triggers(film) == IF film.ducking THEN ToSet(film.triggers) ELSE {}
Sound(t, i) == <<"audio", t, i>>
\* The label that goes into the track, and the one that goes into the key.
Mixed(film, t, i) == IF t \in Triggers(film) THEN On(Sound(t, i), "mix") ELSE Sound(t, i)
Key(t, i) == On(Sound(t, i), "duck_key")
splitDuckingKey(film, t, i) ==
    IF t \in Triggers(film)
    THEN <<Filter(<<Sound(t, i)>>, <<On(Sound(t, i), "mix"), Key(t, i)>>)>> ELSE <<>>

Ordered(s) == SetToSortSeq(s, LAMBDA x, y : x < y)
TrackLabel(t) == Label("track", t)
TrackFilters(film, t) ==
    LET played == Ordered(Played(film, t)) IN
    IF played = <<>> THEN <<>>
    ELSE FlattenSeq([k \in DOMAIN played |->
            <<Filter(<<>>, <<Sound(t, played[k])>>)>> \o splitDuckingKey(film, t, played[k])])
         \o <<Filter([k \in DOMAIN played |-> Mixed(film, t, played[k])], <<TrackLabel(t)>>)>>
Heard(film) == SelectSeq(renderableTracks(film), LAMBDA t : Played(film, t) # {})
KeysOf(film, t) ==
    LET played == Ordered(Played(film, t)) IN
    [k \in DOMAIN played |-> Key(t, played[k])]

\* The keys, gated and mixed, press bgm down.
Duck(film, heard, triggers) ==
    LET keys == FlattenSeq([k \in DOMAIN triggers |-> KeysOf(film, triggers[k])])
        gated == [k \in DOMAIN keys |-> On(keys[k], "gated")]
        key == IF Len(keys) > 1 THEN Label("ducking_key", 0) ELSE gated[1]
    IN  [k \in DOMAIN keys |-> Filter(<<keys[k]>>, <<gated[k]>>)]
        \o (IF Len(keys) > 1 THEN <<Filter(gated, <<key>>)>> ELSE <<>>)
        \o <<Filter(<<key>>, <<On(key, "normalized")>>),
             Filter(<<TrackLabel("bgm"), On(key, "normalized")>>, <<Label("bgm_ducked", 0)>>)>>
\* Keys that no bgm listens to run into a sink.
\* Mutant: they are left open.
DuckingLeftOpen(film) ==
    LET heard == Heard(film)
        triggers == SelectSeq(film.triggers, LAMBDA t : t \in ToSet(heard))
    IN  IF ~ film.ducking \/ triggers = <<>> \/ "bgm" \notin ToSet(heard) THEN <<>>
        ELSE Duck(film, heard, triggers)
buildDuckingFilterGraph(film) ==
    LET heard == Heard(film)
        triggers == SelectSeq(film.triggers, LAMBDA t : t \in ToSet(heard))
        loose == FlattenSeq([k \in DOMAIN heard |->
                    IF heard[k] \in Triggers(film) THEN KeysOf(film, heard[k]) ELSE <<>>])
    IN  IF ~ film.ducking \/ triggers = <<>> THEN <<>>
        ELSE IF "bgm" \notin ToSet(heard)
        THEN [k \in DOMAIN loose |-> Filter(<<loose[k]>>, <<>>)]
        ELSE Duck(film, heard, triggers)
Ducked(film) ==
    /\ film.ducking /\ "bgm" \in ToSet(Heard(film))
    /\ Triggers(film) \cap ToSet(Heard(film)) # {}

appendAudioMix(film) ==
    LET heard == Heard(film)
        final == [k \in DOMAIN heard |->
                    IF heard[k] = "bgm" /\ Ducked(film) THEN Label("bgm_ducked", 0)
                    ELSE TrackLabel(heard[k])]
    IN  IF heard = <<>> THEN <<>>
        ELSE FlattenSeq([k \in DOMAIN heard |-> TrackFilters(film, heard[k])])
             \o buildDuckingFilterGraph(film)
             \o <<Filter(final, <<Label("mixed_audio", 0)>>)>>

-----------------------------------------------------------------------------
(* The whole graph and what is mapped to the file. *)

RenderFilters(film) ==
    primaryFilters(film) \o appendVisualOverlays(film) \o appendSubtitles(film)
    \o appendAudioMix(film)
Mapped(film) ==
    <<VideoLabel(film)>>
    \o (IF Heard(film) = <<>> THEN <<>> ELSE <<Label("mixed_audio", 0)>>)

\* The inspection of a preview expects sound where the render makes some.
timelineExpectsRenderedAudio(film) ==
    \E t \in ToSet(renderableTracks(film)) : Played(film, t) # {}

\* Every label is written once and read once, by a filter or into the file, and
\* the file has sound exactly when the inspection will look for it: ffmpeg
\* refuses a graph with an open or an unknown label, and then nothing renders.
Connected(film) ==
    LET filters == RenderFilters(film)
        written == FlattenSeq([i \in DOMAIN filters |-> filters[i].out])
        read == FlattenSeq([i \in DOMAIN filters |-> filters[i].in]) \o Mapped(film)
    IN  /\ IsInjective(written) /\ IsInjective(read) /\ ToSet(written) = ToSet(read)
        /\ timelineExpectsRenderedAudio(film) <=> Label("mixed_audio", 0) \in ToSet(read)
=============================================================================
