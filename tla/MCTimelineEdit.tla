--------------------------- MODULE MCTimelineEdit ---------------------------
(* Small instances of TimelineEdit for TLC. *)
EXTENDS TimelineEdit, TLC

CONSTANTS film, mute, song

\* A video with sound, one without, and a piece of music; the silent video is
\* one shot.
Materials == {film, mute, song}
Kinds == film :> "video" @@ mute :> "video" @@ song :> "audio"
Sounds == film :> TRUE @@ mute :> FALSE @@ song :> TRUE
Lengths == film :> 4 @@ mute :> 8 @@ song :> 6
OneShot == film :> <<>> @@ mute :> << <<0, 8>> >> @@ song :> <<>>

Insert(a, from, to, t) ==
    [Request EXCEPT !.kind = "insert_clip", !.asset = a, !.from = from, !.to = to,
                    !.track = t, !.at = 0]
\* Pictures with and without sound and a piece of music over all of them; two
\* takes of one shot that share a frame.
Openings ==
    { << Insert(film, 0, 4, "visual_base"), Insert(mute, 0, 4, "visual_base"),
         Insert(song, 0, 6, "bgm") >>,
      << Insert(mute, 0, 4, "visual_base"), Insert(mute, 3, 7, "visual_base"),
         Insert(song, 0, 6, "sfx") >> }
Ranges == {<<0, 2>>, <<1, 4>>}
Speeds == {<<2, 1>>, <<1, 2>>}

\* Who asked for the last edit is read by properties of the step alone: states
\* that differ in nothing else have the same future.
Future == <<doc, proof, message>>
=============================================================================
