----------------------------- MODULE Inspection -----------------------------
(***************************************************************************)
(* The signal checks of a finished preview (media/render.go), as pure      *)
(* operators: stretches of black, frozen and silent film that ffmpeg       *)
(* reports, less those that the timeline means to have.  Times are whole   *)
(* frames; a stretch <<a, b>> is the frames a..(b - 1).                    *)
(*                                                                         *)
(* A picture is a record: image (whether it is a still), from and to (where*)
(* it lies), fadeIn and fadeOut.  A line of the report is <<"start", t>>   *)
(* or <<"end", t>>.                                                        *)
(***************************************************************************)
EXTENDS Integers, Sequences, FiniteSets, SequencesExt

Least(x, y) == IF x < y THEN x ELSE y
Greatest(x, y) == IF x > y THEN x ELSE y
FramesIn(stretches) == UNION {s[1]..(s[2] - 1) : s \in ToSet(stretches)}

\* What the timeline means to be still, and to be dark.
FreezeFrames(pictures) ==
    LET stills == SelectSeq(pictures, LAMBDA p : p.image) IN
    [i \in DOMAIN stills |-> <<stills[i].from, stills[i].to>>]
FadesOf(p) ==
    (IF p.fadeIn > 0 THEN << <<p.from, Least(p.to, p.from + p.fadeIn)>> >> ELSE <<>>)
    \o (IF p.fadeOut > 0 THEN << <<Greatest(p.from, p.to - p.fadeOut), p.to>> >> ELSE <<>>)
BlackFrames(pictures) ==
    FlattenSeq([i \in DOMAIN pictures |-> FadesOf(pictures[i])])

\* What is left of some stretches without the frames of another.
SubtractOne(part, allowed) ==
    IF allowed[2] <= part[1] \/ allowed[1] >= part[2] THEN <<part>>
    ELSE (IF allowed[1] > part[1] THEN << <<part[1], Least(part[2], allowed[1])>> >> ELSE <<>>)
         \o (IF allowed[2] < part[2] THEN << <<Greatest(part[1], allowed[2]), part[2]>> >>
             ELSE <<>>)
subtractFrameInterval(parts, allowed) ==
    FlattenSeq([i \in DOMAIN parts |-> SubtractOne(parts[i], allowed)])

filterExpectedSignalIssues(found, intent) ==
    LET left(issue) == FoldLeft(LAMBDA parts, allowed : subtractFrameInterval(parts, allowed),
                                <<issue>>, intent)
    IN  FlattenSeq([i \in DOMAIN found |->
            IF intent = <<>> THEN <<found[i]>>
            ELSE SelectSeq(left(found[i]), LAMBDA p : p[1] < p[2])])

\* Every reported start is closed by the first end reported after it that no
\* earlier start has used, or by the end of the film.
pairedInspectionIntervals(report, length) ==
    LET starts == SelectSeq([i \in DOMAIN report |-> i], LAMBDA i : report[i][1] = "start")
        ends == {i \in DOMAIN report : report[i][1] = "end"}
        close(used, s) ==
            LET free == {e \in ends : e > used /\ e > s} IN
            IF free = {} THEN Len(report) + 1 ELSE CHOOSE e \in free : \A f \in free : e <= f
        closed == FoldLeft(LAMBDA pairs, s :
                    Append(pairs, <<s, close(IF pairs = <<>> THEN 0 ELSE Last(pairs)[2], s)>>),
                    <<>>, starts)
        stretch(p) == <<report[p[1]][2],
                        IF p[2] > Len(report) THEN length ELSE report[p[2]][2]>>
    IN  SelectSeq([i \in DOMAIN closed |-> stretch(closed[i])], LAMBDA s : s[1] < s[2])

\* The frames that a check reports.
SignalFrames(check, report, length, pictures) ==
    LET found == pairedInspectionIntervals(report, length)
        intent == CASE check = "black" -> BlackFrames(pictures)
                    [] check = "freeze" -> FreezeFrames(pictures)
                    [] OTHER -> <<>>
    IN  filterExpectedSignalIssues(found, intent)

\* A check reports the frames between a start and the end that follows it which
\* the timeline did not mean, each of them, and in stretches that do not meet.
Between(report, length) ==
    {f \in 0..(length - 1) : \E i \in DOMAIN report :
        /\ report[i][1] = "start" /\ report[i][2] <= f
        /\ i < Len(report) => f < report[i + 1][2]}
Meant(check, pictures) ==
    {f \in 0..20 : \E p \in ToSet(pictures) : /\ p.from <= f /\ f < p.to
        /\ \/ check = "freeze" /\ p.image
           \/ check = "black" /\ (f < p.from + p.fadeIn \/ f >= p.to - p.fadeOut)}
OnlyUnmeant(check, report, length, pictures) ==
    LET issues == SignalFrames(check, report, length, pictures) IN
    /\ FramesIn(issues) = Between(report, length) \ Meant(check, pictures)
    /\ \A i, j \in DOMAIN issues : i < j => issues[i][2] <= issues[j][1]
=============================================================================
