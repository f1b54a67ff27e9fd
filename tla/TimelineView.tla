---------------------------- MODULE TimelineView ----------------------------
(***************************************************************************)
(* What the model is told of the timeline before every call                *)
(* (agent/current_timeline_view.go): all clips of a short timeline, of a   *)
(* long one those around the last edit, and the edits of late              *)
(* (agent/context_builder.go).                                             *)
(*                                                                         *)
(* A document is a sequence of tracks, each a sequence of clips [id, start,*)
(* end]; a batch of edits is a sequence of the identifiers it affected.    *)
(* What else is told of a clip or an edit is its size at most.             *)
(***************************************************************************)
EXTENDS Integers, Sequences, FiniteSets, SequencesExt, FiniteSetsExt

-----------------------------------------------------------------------------
(* The clips. *)

Entries(document) ==
    FlattenSeq([t \in DOMAIN document |->
        [c \in DOMAIN document[t] |-> [track |-> t, place |-> c, clip |-> document[t][c]]]])
Before(x, y) ==
    \/ x.clip.start < y.clip.start
    \/ x.clip.start = y.clip.start /\ x.clip.end < y.clip.end
    \/ x.clip.start = y.clip.start /\ x.clip.end = y.clip.end /\ x.track < y.track
Ordered(document) ==
    LET entries == ToSet(Entries(document)) IN
    [k \in 1..Cardinality(entries) |->
        CHOOSE x \in entries : Cardinality({y \in entries : Before(y, x)}) = k - 1]

\* The first clip that the last batch with a clip still there has affected.
currentTimelineWindowAnchor(ordered, batches) ==
    LET there == {ordered[i].clip.id : i \in DOMAIN ordered}
        known == {b \in DOMAIN batches : ToSet(batches[b]) \cap there # {}}
        refs == batches[Max(known)]
        id == refs[Min({k \in DOMAIN refs : refs[k] \in there})]
    IN  IF known = {} THEN Len(ordered) ELSE Max({i \in DOMAIN ordered : ordered[i].clip.id = id})

OmittedRange(entries) ==
    [count |-> Len(entries), first |-> entries[1].clip.id, last |-> Last(entries).clip.id,
     start |-> Min({e.clip.start : e \in ToSet(entries)}),
     end |-> Max({e.clip.end : e \in ToSet(entries)})]
WindowStart(anchor, clips, size) == Max({0, Min({anchor - 1 - size \div 2, clips - size})})
buildCurrentTimelineContext(document, batches, exact, size) ==
    LET ordered == Ordered(document)
        from == WindowStart(currentTimelineWindowAnchor(ordered, batches), Len(ordered), size)
        upto == Min({Len(ordered), from + size})
        shown == {ordered[i] : i \in (from + 1)..upto}
        included(t) == SelectSeq([c \in DOMAIN document[t] |-> c],
                                 LAMBDA c : \E e \in shown : e.track = t /\ e.place = c)
        tracks == [t \in DOMAIN document |->
                      [k \in DOMAIN included(t) |-> document[t][included(t)[k]]]]
    IN  IF Len(ordered) <= exact
        THEN [tracks |-> document, counts |-> [t \in DOMAIN document |-> Len(document[t])],
              omitted |-> <<>>]
        ELSE [tracks |-> tracks, counts |-> [t \in DOMAIN document |-> Len(document[t])],
              omitted |->
                (IF from > 0 THEN <<OmittedRange(SubSeq(ordered, 1, from))>> ELSE <<>>)
                \o (IF upto < Len(ordered)
                    THEN <<OmittedRange(SubSeq(ordered, upto + 1, Len(ordered)))>> ELSE <<>>)]

\* The view replaces the one of the round before, behind the system messages.
refreshCurrentTimelineView(messages) ==
    LET kept == SelectSeq(messages, LAMBDA m : m # "view")
        others == {i \in DOMAIN kept : kept[i] # "system"}
        at == IF others = {} THEN Len(kept) ELSE Min(others) - 1
    IN  SubSeq(kept, 1, at) \o <<"view">> \o SubSeq(kept, at + 1, Len(kept))

-----------------------------------------------------------------------------
(* The edits: [size, least], how much is told of one and how little at least. *)

Total(sizes) == FoldLeft(LAMBDA x, y : x + y, 0, sizes)
\* From the newest on, those that fit beside the ones already taken.
boundRecentEditHistory(edits, budget) ==
    LET size(s) == Total([k \in DOMAIN s |-> edits[s[k]].size])
        taken == FoldLeft(LAMBDA s, i : IF size(<<i>> \o s) > budget THEN s ELSE <<i>> \o s,
                          <<>>, Reverse([i \in DOMAIN edits |-> i]))
    IN  IF edits = <<>> THEN <<>>
        ELSE IF taken # <<>> THEN taken
        ELSE IF Last(edits).least <= budget THEN <<Len(edits)>> ELSE <<>>
compressTimelineEditEntries(edits, limit, budget) ==
    LET late == Max({0, Len(edits) - limit})
        told == boundRecentEditHistory(SubSeq(edits, late + 1, Len(edits)), budget)
    IN  [k \in DOMAIN told |-> told[k] + late]
=============================================================================
