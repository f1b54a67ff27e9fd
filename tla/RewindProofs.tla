---------------------------- MODULE RewindProofs ----------------------------
(***************************************************************************)
(* Proofs about Rewind for any number of handlers, keys, messages,         *)
(* versions, cards, renders and kept checkpoints.                          *)
(***************************************************************************)
EXTENDS Rewind, TLAPS

-----------------------------------------------------------------------------
(* The rows that a step stores. *)

LEMMA AppendFacts ==
  ASSUME NEW S, NEW s \in Seq(S), NEW e \in S
  PROVE  /\ Append(s, e) \in Seq(S) /\ Len(Append(s, e)) = Len(s) + 1
         /\ \A i \in 1..Len(s) : Append(s, e)[i] = s[i]
         /\ Append(s, e)[Len(s) + 1] = e
OBVIOUS

\* What is kept of a list of checkpoints was in it.
LEMMA NewestKeeps ==
  ASSUME NEW S, NEW s \in Seq(S)
  PROVE  /\ Newest(s) \in Seq(S)
         /\ \A i \in 1..Len(Newest(s)) : \E k \in 1..Len(s) : Newest(s)[i] = s[k]
<1> DEFINE from == IF Len(s) > MaxCheckpoints THEN Len(s) - MaxCheckpoints + 1 ELSE 1
<1>1. Len(s) \in Nat /\ MaxCheckpoints \in Nat \ {0}  BY RewindAssumption
<1>2. from \in Int /\ from >= 1 /\ (from <= Len(s) \/ (Len(s) = 0 /\ from = 1))
  BY <1>1
<1>3. Newest(s) = SubSeq(s, from, Len(s))  BY DEF Newest
<1> HIDE DEF from
<1>4. SubSeq(s, from, Len(s)) \in Seq(S) /\ Len(SubSeq(s, from, Len(s))) = Len(s) - from + 1
  BY <1>1, <1>2
<1>5. \A i \in 1..(Len(s) - from + 1) :
         SubSeq(s, from, Len(s))[i] = s[from + i - 1] /\ from + i - 1 \in 1..Len(s)
  BY <1>1, <1>2
<1> QED  BY <1>3, <1>4, <1>5

\* The row of a checkpoint that is taken now.
NewPoint(kind, anchor, version, shown) ==
  [kind |-> kind, anchor |-> anchor, version |-> version,
   boundary |-> Len(decisions), shown |-> shown \ {anchor}]

LEMMA NewPointFacts ==
  ASSUME NEW kind \in {"user_message", "restore"}, NEW anchor \in Nat, NEW version \in Nat,
         NEW shown \in SUBSET Nat, decisions \in Seq(DecisionRow)
  PROVE  LET new == NewPoint(kind, anchor, version, shown)
         IN  /\ new \in CheckpointRow
             /\ new.kind = kind /\ new.anchor = anchor /\ new.version = version
             /\ new.boundary = Len(decisions) /\ new.shown = shown \ {anchor}
<1>1. Len(decisions) \in Nat  OBVIOUS
<1> QED  BY <1>1 DEF NewPoint, CheckpointRow

\* A new checkpoint: every row of the list was there or is the new one.
LEMMA RecordedKeeps ==
  ASSUME NEW list \in Seq(CheckpointRow), NEW kind \in {"user_message", "restore"},
         NEW anchor \in Nat, NEW version \in Nat, NEW shown \in SUBSET Nat,
         decisions \in Seq(DecisionRow)
  PROVE  /\ Recorded(list, kind, anchor, version, shown) \in Seq(CheckpointRow)
         /\ \A i \in 1..Len(Recorded(list, kind, anchor, version, shown)) :
              \/ Recorded(list, kind, anchor, version, shown)[i]
                   = NewPoint(kind, anchor, version, shown)
              \/ \E k \in 1..Len(list) : Recorded(list, kind, anchor, version, shown)[i] = list[k]
<1> DEFINE new == NewPoint(kind, anchor, version, shown)
           more == Append(list, new)
<1>1. new \in CheckpointRow  BY NewPointFacts
<1>2. Recorded(list, kind, anchor, version, shown) = Newest(more)  BY DEF Recorded, NewPoint
<1> HIDE DEF new
<1>3. more \in Seq(CheckpointRow) /\ Len(more) = Len(list) + 1
      /\ (\A i \in 1..Len(list) : more[i] = list[i]) /\ more[Len(list) + 1] = new
  BY <1>1
<1> HIDE DEF more
<1>4. \A i \in 1..Len(more) : more[i] = new \/ \E k \in 1..Len(list) : more[i] = list[k]
  BY <1>3
<1>5. Newest(more) \in Seq(CheckpointRow)
      /\ \A i \in 1..Len(Newest(more)) : \E k \in 1..Len(more) : Newest(more)[i] = more[k]
  BY <1>3, NewestKeeps
<1>6. \A i \in 1..Len(Newest(more)) :
         Newest(more)[i] = new \/ \E k \in 1..Len(list) : Newest(more)[i] = list[k]
  BY <1>4, <1>5
<1> QED  BY <1>2, <1>5, <1>6 DEF new

\* A write makes the handlers that hold the draft's version late and changes nothing else of them.
LEMMA TouchedCalls ==
  ASSUME NEW c \in [Handler -> Locals], NEW h \in Handler
  PROVE  /\ Touched(c) \in [Handler -> Locals]
         /\ Touched(c)[h].pc = c[h].pc
         /\ c[h].pc \in {"clearing", "applying"} => Touched(c)[h].fresh = FALSE
         /\ c[h].pc = "applying" => /\ Touched(c)[h].key = c[h].key
                                    /\ Touched(c)[h].target = c[h].target
                                    /\ Touched(c)[h].jobs = c[h].jobs
                                    /\ Touched(c)[h].version = c[h].version
         /\ c[h].pc \notin {"clearing", "applying"} => Touched(c)[h] = c[h]
<1> DEFINE late(r) == IF r.pc \in {"clearing", "applying"} THEN [r EXCEPT !.fresh = FALSE] ELSE r
<1>1. ASSUME NEW r \in Locals, r.pc \notin {"clearing", "applying"}
      PROVE  late(r) = r /\ late(r) \in Locals
  BY <1>1
<1>2. ASSUME NEW r \in Locals, r.pc = "clearing"
      PROVE  late(r) \in Locals /\ late(r).pc = r.pc /\ late(r).fresh = FALSE
  <2>1. r \in Clearing  BY <1>2 DEF Locals, Idle, Asking, Applying, Ending
  <2> QED  BY <1>2, <2>1 DEF Clearing, Locals
<1>3. ASSUME NEW r \in Locals, r.pc = "applying"
      PROVE  /\ late(r) \in Locals /\ late(r).pc = r.pc /\ late(r).fresh = FALSE
             /\ late(r).key = r.key /\ late(r).target = r.target
             /\ late(r).jobs = r.jobs /\ late(r).version = r.version
  <2>1. r \in Applying  BY <1>3 DEF Locals, Idle, Asking, Clearing, Ending
  <2>2. late(r) = [r EXCEPT !.fresh = FALSE]  BY <1>3
  <2>3. late(r) \in Applying  BY <2>1, <2>2 DEF Applying
  <2>4. late(r).pc = r.pc /\ late(r).fresh = FALSE  BY <2>1, <2>2 DEF Applying
  <2>5. /\ late(r).key = r.key /\ late(r).target = r.target
        /\ late(r).jobs = r.jobs /\ late(r).version = r.version
    BY <2>1, <2>2 DEF Applying
  <2> HIDE DEF late
  <2>6. late(r) \in Locals  BY <2>3 DEF Locals
  <2> QED  BY <2>4, <2>5, <2>6, Zenon
<1>4. Touched(c) = [g \in Handler |-> late(c[g])]  BY DEF Touched
<1> HIDE DEF late
<1>5. \A r \in Locals : late(r) \in Locals  BY <1>1, <1>2, <1>3
<1>6. Touched(c) \in [Handler -> Locals] /\ Touched(c)[h] = late(c[h]) /\ c[h] \in Locals
  BY <1>4, <1>5
<1>7. CASE c[h].pc \notin {"clearing", "applying"}  BY <1>1, <1>6, <1>7
<1>8. CASE c[h].pc = "clearing"  BY <1>2, <1>6, <1>8
<1>9. CASE c[h].pc = "applying"
  <2> DEFINE r == c[h]
  <2>1. r \in Locals /\ r.pc = "applying" /\ Touched(c)[h] = late(r)  BY <1>6, <1>9
  <2> HIDE DEF r
  <2>2. /\ late(r).pc = r.pc /\ late(r).key = r.key /\ late(r).target = r.target
        /\ late(r).jobs = r.jobs /\ late(r).version = r.version
    BY <1>3, <2>1
  <2>3. late(r).fresh = FALSE  BY <1>3, <2>1
  <2>4. /\ Touched(c)[h].pc = r.pc /\ Touched(c)[h].key = r.key /\ Touched(c)[h].target = r.target
        /\ Touched(c)[h].jobs = r.jobs /\ Touched(c)[h].version = r.version
        /\ Touched(c)[h].fresh = FALSE
    BY <2>1, <2>2, <2>3
  <2>5. r = c[h]  BY DEF r
  <2> QED  BY <1>6, <1>9, <2>4, <2>5
<1> QED  BY <1>7, <1>8, <1>9

\* A handler that is clearing or applying is late after a write.
LEMMA TouchedLate ==
  ASSUME NEW c \in [Handler -> Locals]
  PROVE  \A h \in Handler :
           /\ Touched(c)[h].pc = c[h].pc
           /\ Touched(c)[h].pc = "applying" => Touched(c)[h].fresh = FALSE
<1> SUFFICES ASSUME NEW h \in Handler
             PROVE  /\ Touched(c)[h].pc = c[h].pc
                    /\ Touched(c)[h].pc = "applying" => Touched(c)[h].fresh = FALSE
  OBVIOUS
<1>1. Touched(c)[h].pc = c[h].pc  BY TouchedCalls
<1>2. c[h].pc \in {"clearing", "applying"} => Touched(c)[h].fresh = FALSE  BY TouchedCalls
<1> QED  BY <1>1, <1>2

-----------------------------------------------------------------------------
(* The rows and the locals keep their shape. *)

Shape == TypeOK /\ InRange /\ NumberKnown

\* The place of a handler tells what it has at hand.
LEMMA LocalsByPlace ==
  ASSUME NEW r \in Locals
  PROVE  /\ r.pc = "clearing" => r \in Clearing
         /\ r.pc \in {"resend", "waiting", "draining"} => r \in Asking
         /\ r.pc = "applying" => r \in Applying
         /\ r.pc \in {"done", "replay"} => r \in Ending
BY DEF Locals, Idle, Clearing, Asking, Applying, Ending

LEMMA IdleFacts == Idle \in Locals /\ Idle.pc = "idle"
BY DEF Idle, Locals

LEMMA InitShape == Init => Shape
<1> SUFFICES ASSUME Init PROVE Shape
  OBVIOUS
<1>1. TypeOK
  <2>1. NoTurn \in Turn /\ Idle \in Locals
    BY DEF NoTurn, Turn, Locals
  <2>2. draft \in DraftRow  BY DEF Init, DraftRow, Nothing
  <2>3. DOMAIN renders = {} /\ DOMAIN restores = {}  BY DEF Init
  <2> QED  BY <2>1, <2>2, <2>3 DEF Init, TypeOK
<1>2. InRange  BY DEF Init, InRange, Nothing
<1>3. NumberKnown  BY IdleFacts DEF Init, NumberKnown
<1> QED  BY <1>1, <1>2, <1>3 DEF Shape

LEMMA RowTypes ==
  ASSUME TypeOK
  PROVE  /\ \A m \in 1..Len(messages) : messages[m] \in MessageRow
         /\ \A i \in 1..Len(checkpoints) :
              /\ checkpoints[i] \in CheckpointRow
              /\ checkpoints[i].anchor \in Nat /\ checkpoints[i].version \in Nat
              /\ checkpoints[i].boundary \in Nat /\ checkpoints[i].shown \in SUBSET Nat
         /\ \A v \in 1..Len(versions) : versions[v].parent \in Nat /\ versions[v].document \in Nat
         /\ \A d \in 1..Len(decisions) : decisions[d] \in DecisionRow
         /\ Len(messages) \in Nat /\ Len(checkpoints) \in Nat
         /\ Len(versions) \in Nat /\ Len(decisions) \in Nat
<1>1. \A m \in 1..Len(messages) : messages[m] \in MessageRow  BY DEF TypeOK
<1>2. \A i \in 1..Len(checkpoints) : checkpoints[i] \in CheckpointRow  BY DEF TypeOK
<1>3. \A v \in 1..Len(versions) : versions[v] \in VersionRow  BY DEF TypeOK
<1>4. \A d \in 1..Len(decisions) : decisions[d] \in DecisionRow  BY DEF TypeOK
<1>5. \A i \in 1..Len(checkpoints) :
        /\ checkpoints[i].anchor \in Nat /\ checkpoints[i].version \in Nat
        /\ checkpoints[i].boundary \in Nat /\ checkpoints[i].shown \in SUBSET Nat
  BY <1>2 DEF CheckpointRow
<1>6. \A v \in 1..Len(versions) : versions[v].parent \in Nat /\ versions[v].document \in Nat
  BY <1>3 DEF VersionRow
<1>7. /\ Len(messages) \in Nat /\ Len(checkpoints) \in Nat
      /\ Len(versions) \in Nat /\ Len(decisions) \in Nat
  BY DEF TypeOK
<1> QED  BY <1>1, <1>2, <1>4, <1>5, <1>6, <1>7

\* A new message row, and what is read of the timeline for it.
LEMMA DocumentType ==
  ASSUME TypeOK, InRange, NEW v \in Nat, v <= Len(versions)
  PROVE  /\ Document(v) \in Nat
         /\ (Document(v) = Nothing <=> v = Nothing)
<1>1. CASE v = Nothing  BY <1>1 DEF Document, Nothing
<1>2. CASE v # Nothing
  <2>1. v \in 1..Len(versions)  BY <1>2 DEF TypeOK, Nothing
  <2>2. versions[v] \in VersionRow /\ versions[v].document > 0  BY <2>1 DEF TypeOK, InRange
  <2> QED  BY <1>2, <2>2 DEF Document, VersionRow, Nothing
<1> QED  BY <1>1, <1>2

LEMMA MessageType ==
  ASSUME TypeOK, InRange, NEW role \in {"user", "reply", "reset"}, NEW key \in Key \cup {Nothing}
  PROVE  /\ Message(role, key) \in MessageRow
         /\ Message(role, key).before = visible /\ Message(role, key).role = role
         /\ Message(role, key).document = Document(draft.current)
<1>1. draft.current \in Nat /\ draft.current <= Len(versions)
  BY DEF TypeOK, InRange, DraftRow
<1>2. Document(draft.current) \in Nat  BY <1>1, DocumentType
<1>3. visible \in SUBSET Nat
  <2>1. Len(messages) \in Nat  BY DEF TypeOK
  <2> QED  BY <2>1 DEF TypeOK
<1> QED  BY <1>2, <1>3 DEF Message, MessageRow

\* Every write of the draft makes the resends late that have read it before.
LEMMA TouchedNumbers ==
  ASSUME TypeOK, call' = Touched(call)
  PROVE  call' \in [Handler -> Locals] /\ NumberKnown'
<1>1. call \in [Handler -> Locals]  BY DEF TypeOK
<1>2. \A h \in Handler : call'[h].pc = "applying" => call'[h].fresh = FALSE
  BY <1>1, TouchedLate
<1>3. call' \in [Handler -> Locals]
  <2>1. CASE Handler = {}  BY <2>1 DEF Touched
  <2>2. CASE Handler # {}  BY <1>1, <2>2, TouchedCalls
  <2> QED  BY <2>1, <2>2
<1>4. NumberKnown'  BY <1>2, Zenon DEF NumberKnown
<1> QED  BY <1>3, <1>4

LEMMA NumberFrame ==
  ASSUME TypeOK, NumberKnown, versions' = versions,
         \A h \in Handler : \/ call'[h] = call[h] \/ call'[h].pc # "applying"
                            \/ call'[h].version = Len(versions) + 1
  PROVE  NumberKnown'
BY DEF NumberKnown

\* A message is appended, shown or not, and nothing else of the rows that others refer to changes.
LEMMA AppendedMessage ==
  ASSUME TypeOK, NEW x \in MessageRow, messages' = Append(messages, x)
  PROVE  /\ messages' \in Seq(MessageRow) /\ Len(messages') = Len(messages) + 1
         /\ \A m \in 1..Len(messages) : messages'[m] = messages[m]
         /\ messages'[Len(messages) + 1] = x
         /\ 1..Len(messages') = 1..Len(messages) \cup {Len(messages) + 1}
         /\ Len(messages) \in Nat
<1>1. messages \in Seq(MessageRow) /\ Len(messages) \in Nat  BY DEF TypeOK
<1>2. /\ messages' \in Seq(MessageRow) /\ Len(messages') = Len(messages) + 1
      /\ \A m \in 1..Len(messages) : messages'[m] = messages[m]
      /\ messages'[Len(messages) + 1] = x
  BY <1>1, AppendFacts
<1> QED  BY <1>1, <1>2

LEMMA MessageRange ==
  ASSUME TypeOK, InRange, NEW x \in MessageRow, messages' = Append(messages, x),
         x.before \subseteq 1..Len(messages)
  PROVE  \A m \in 1..Len(messages') : messages'[m].before \subseteq 1..Len(messages')
<1>1. /\ \A m \in 1..Len(messages) : messages'[m] = messages[m]
      /\ messages'[Len(messages) + 1] = x
      /\ 1..Len(messages') = 1..Len(messages) \cup {Len(messages) + 1}
  BY AppendedMessage
<1> QED  BY <1>1 DEF InRange

\* The checkpoints after a message of the user.
LEMMA PostedRows ==
  ASSUME TypeOK, NEW m \in Nat, visible' \in SUBSET Nat,
         checkpoints' = Recorded(checkpoints, "user_message", m, draft.current, visible')
  PROVE  /\ checkpoints' \in Seq(CheckpointRow)
         /\ \A i \in 1..Len(checkpoints') :
              \/ checkpoints'[i] = NewPoint("user_message", m, draft.current, visible')
              \/ \E k \in 1..Len(checkpoints) : checkpoints'[i] = checkpoints[k]
<1> DEFINE v == draft.current
           shown == visible'
           kind == "user_message"
<1>1. v \in Nat /\ checkpoints \in Seq(CheckpointRow) /\ decisions \in Seq(DecisionRow)
  BY DEF TypeOK, DraftRow
<1>2. shown \in SUBSET Nat /\ kind \in {"user_message", "restore"}  OBVIOUS
<1>3. checkpoints' = Recorded(checkpoints, kind, m, v, shown)  OBVIOUS
<1> HIDE DEF v, shown, kind
<1>4. /\ checkpoints' \in Seq(CheckpointRow)
      /\ \A i \in 1..Len(checkpoints') :
           \/ checkpoints'[i] = NewPoint(kind, m, v, shown)
           \/ \E k \in 1..Len(checkpoints) : checkpoints'[i] = checkpoints[k]
  BY <1>1, <1>2, <1>3, RecordedKeeps
<1> QED  BY <1>4 DEF v, shown, kind

LEMMA ShapePost ==
  ASSUME Shape, PostMessage
  PROVE  Shape'
<1> USE DEF Shape
<1> DEFINE m == Len(messages) + 1
           x == Message("user", Nothing)
<1>1. x \in MessageRow /\ x.before = visible /\ visible \subseteq 1..Len(messages)
  BY MessageType DEF TypeOK
<1>2. messages' = Append(messages, x) /\ visible' = visible \cup {m}
  BY DEF PostMessage
<1> HIDE DEF x
<1>3. messages' \in Seq(MessageRow) /\ 1..Len(messages') = 1..Len(messages) \cup {m} /\ m \in Nat
  BY <1>1, <1>2, AppendedMessage
<1> HIDE DEF m
<1>4. visible' \subseteq 1..Len(messages') /\ visible' \in SUBSET Nat /\ m \in 1..Len(messages')
  <2>1. Len(messages) \in Nat /\ Len(messages') \in Nat  BY <1>3 DEF TypeOK
  <2> QED  BY <1>1, <1>2, <1>3, <2>1
<1> DEFINE new == NewPoint("user_message", m, draft.current, visible')
<1>5. /\ checkpoints' \in Seq(CheckpointRow)
      /\ \A i \in 1..Len(checkpoints') :
            checkpoints'[i] = new \/ \E k \in 1..Len(checkpoints) : checkpoints'[i] = checkpoints[k]
  <2>1. checkpoints' = Recorded(checkpoints, "user_message", m, draft.current, visible')
    BY DEF PostMessage, m
  <2> QED  BY <1>3, <1>4, <2>1, PostedRows
<1>6. UserTurn(m) \in Turn  BY <1>3 DEF UserTurn, Turn
<1>7. TypeOK'
  BY <1>3, <1>4, <1>5, <1>6 DEF PostMessage, TypeOK, m
<1>8. InRange'
  <2>1. \A k \in 1..Len(messages') : messages'[k].before \subseteq 1..Len(messages')
    BY <1>1, <1>2, MessageRange
  <2>2. UNCHANGED <<versions, decisions, draft>>  BY DEF PostMessage
  <2>3. /\ new.anchor \in 1..Len(messages') /\ new.shown \subseteq 1..Len(messages')
        /\ new.version <= Len(versions') /\ new.boundary <= Len(decisions')
    <3>1. /\ decisions \in Seq(DecisionRow) /\ draft.current \in Nat /\ Len(decisions) \in Nat
          /\ draft.current <= Len(versions)
      BY DEF TypeOK, DraftRow, InRange
    <3>2. /\ new.anchor = m /\ new.version = draft.current
          /\ new.boundary = Len(decisions) /\ new.shown = visible' \ {m}
      BY DEF NewPoint
    <3> HIDE DEF new
    <3> QED  BY <1>4, <2>2, <3>1, <3>2
  <2> HIDE DEF new
  <2>4. \A i \in 1..Len(checkpoints') :
          /\ checkpoints'[i].anchor \in 1..Len(messages')
          /\ checkpoints'[i].shown \subseteq 1..Len(messages')
          /\ checkpoints'[i].version <= Len(versions')
          /\ checkpoints'[i].boundary <= Len(decisions')
    BY <1>3, <1>5, <2>2, <2>3 DEF InRange
  <2> QED  BY <2>1, <2>2, <2>4 DEF InRange
<1>9. NumberKnown'  BY NumberFrame DEF PostMessage
<1> QED  BY <1>7, <1>8, <1>9

LEMMA ShapeEdit ==
  ASSUME Shape, Edit
  PROVE  Shape'
<1> USE DEF Shape
<1> DEFINE v == Len(versions) + 1
           row == [parent |-> draft.current, document |-> v]
<1>1. draft \in DraftRow /\ Len(versions) \in Nat /\ draft.current \in Nat
      /\ draft.current <= Len(versions)
  BY DEF TypeOK, DraftRow, InRange
<1>2. row \in VersionRow /\ row.parent = draft.current /\ row.document = v
  BY <1>1 DEF VersionRow
<1>3. versions' = Append(versions, row) /\ draft' = [draft EXCEPT !.current = v]
      /\ call' = Touched(call)
      /\ UNCHANGED <<messages, visible, checkpoints, decisions, renders, restores, queue, calls>>
  BY DEF Edit
<1> HIDE DEF row
<1>4. /\ versions' \in Seq(VersionRow) /\ Len(versions') = Len(versions) + 1
      /\ \A n \in 1..Len(versions) : versions'[n] = versions[n]
      /\ versions'[v] = row
  BY <1>2, <1>3, AppendFacts DEF TypeOK
<1>5. draft' \in DraftRow /\ draft'.current = v
  BY <1>1, <1>3 DEF DraftRow
<1>6. TypeOK'
  <2>1. DOMAIN renders \subseteq 1..Len(versions')  BY <1>1, <1>4 DEF TypeOK
  <2> QED  BY <1>3, <1>4, <1>5, <2>1, TouchedNumbers DEF TypeOK, queue
<1>7. InRange'
  <2>1. \A n \in 1..Len(versions') : versions'[n].parent < n /\ versions'[n].document > 0
    BY <1>1, <1>2, <1>4 DEF InRange
  <2>2. \A i \in 1..Len(checkpoints) : checkpoints[i].version <= Len(versions')
    <3>1. \A i \in 1..Len(checkpoints) : checkpoints[i].version \in Nat
      BY RowTypes
    <3> QED  BY <1>1, <1>4, <3>1 DEF InRange
  <2> QED  BY <1>1, <1>3, <1>4, <1>5, <2>1, <2>2 DEF InRange
<1> QED  BY <1>3, <1>6, <1>7, TouchedNumbers

LEMMA ShapePreview ==
  ASSUME Shape, RequestPreview
  PROVE  Shape'
<1> USE DEF Shape
<1>1. /\ DOMAIN renders' = DOMAIN renders \cup {draft.current} /\ draft.current # Nothing
      /\ call' = Touched(call)
      /\ UNCHANGED <<messages, visible, checkpoints, versions, decisions, draft, restores, queue, calls>>
  BY DEF RequestPreview
<1>2. draft.current \in 1..Len(versions)
  BY <1>1, RowTypes DEF TypeOK, DraftRow, InRange, Nothing
<1>3. TypeOK'  BY <1>1, <1>2, TouchedNumbers DEF TypeOK, queue
<1>4. InRange'  BY <1>1 DEF InRange
<1> QED  BY <1>1, <1>3, <1>4, TouchedNumbers

LEMMA ShapeRender ==
  ASSUME Shape, NEW v \in DOMAIN renders, FinishRender(v)
  PROVE  Shape'
<1> USE DEF Shape
<1>1. /\ DOMAIN renders' = DOMAIN renders
      /\ call' = Touched(call) /\ draft' = Rendered(v)
      /\ UNCHANGED <<messages, visible, checkpoints, versions, decisions, restores, queue, calls>>
  BY DEF FinishRender
<1>2. v \in Nat  BY RowTypes DEF TypeOK
<1>3. draft' \in DraftRow /\ draft'.current = draft.current
  BY <1>1, <1>2 DEF Rendered, TypeOK, DraftRow
<1>4. TypeOK'  BY <1>1, <1>3, TouchedNumbers DEF TypeOK, queue
<1>5. InRange'  BY <1>1, <1>3 DEF InRange
<1> QED  BY <1>1, <1>4, <1>5, TouchedNumbers

\* The cards of a list keep their number, their kind and who asked them.
SameCards(list) ==
  /\ list \in Seq(DecisionRow) /\ Len(list) = Len(decisions)
  /\ \A d \in 1..Len(decisions) :
       /\ list[d].by = decisions[d].by /\ list[d].blocking = decisions[d].blocking
       /\ list[d].status = "pending" => decisions[d].status = "pending"

LEMMA CardType ==
  ASSUME NEW x \in DecisionRow, NEW st \in {"pending", "answered", "cancelled"}
  PROVE  LET y == [x EXCEPT !.status = st]
         IN  y \in DecisionRow /\ y.by = x.by /\ y.blocking = x.blocking /\ y.status = st
<1> DEFINE y == [x EXCEPT !.status = st]
<1>1. y \in DecisionRow  BY DEF DecisionRow
<1>2. y.by = x.by  BY DEF DecisionRow
<1>3. y.status = st  BY DEF DecisionRow
<1>4. y.blocking = x.blocking  BY Zenon DEF DecisionRow
<1> QED  BY <1>1, <1>2, <1>3, <1>4

LEMMA ShapeAsk ==
  ASSUME Shape, NEW blocking \in BOOLEAN, Ask(blocking)
  PROVE  Shape'
<1> USE DEF Shape
<1> DEFINE d == Len(decisions) + 1
           x == [status |-> "pending", blocking |-> blocking,
                 by |-> IF turn.kind = "user" THEN turn.id ELSE Nothing]
<1>1. x \in DecisionRow
  <2>1. turn \in Turn  BY DEF TypeOK
  <2>2. (IF turn.kind = "user" THEN turn.id ELSE Nothing) \in Nat  BY <2>1 DEF Turn, Nothing
  <2> QED  BY <2>2 DEF DecisionRow
<1>2. /\ decisions' = Append(decisions, x) /\ draft' = Asked(d, blocking)
      /\ turn' = IF blocking THEN NoTurn ELSE turn
      /\ call' = IF blocking THEN Touched(call) ELSE call
      /\ UNCHANGED <<messages, visible, checkpoints, versions, renders, restores,
                     turns, leases, owner, handed, overtaken, calls>>
  BY DEF Ask
<1> HIDE DEF x
<1>3. /\ decisions' \in Seq(DecisionRow) /\ Len(decisions') = Len(decisions) + 1
      /\ Len(decisions) \in Nat
  BY <1>1, <1>2, AppendFacts, RowTypes DEF TypeOK
<1>4. draft' \in DraftRow /\ draft'.current = draft.current
  <2>1. CASE blocking
    <3>1. draft' = [draft EXCEPT !.pending = d]  BY <1>2, <2>1 DEF Asked
    <3>2. d \in Nat /\ draft \in DraftRow  BY <1>3 DEF TypeOK
    <3> HIDE DEF d
    <3> QED  BY <3>1, <3>2 DEF DraftRow
  <2>2. CASE ~blocking  BY <1>2, <2>2 DEF Asked, TypeOK
  <2> QED  BY <2>1, <2>2
<1>5. turn' \in Turn  BY <1>2 DEF NoTurn, Turn, TypeOK
<1>6. call' \in [Handler -> Locals] /\ NumberKnown'
  <2>1. CASE blocking  BY <1>2, <2>1, TouchedNumbers
  <2>2. CASE ~blocking  BY <1>2, <2>2, NumberFrame DEF TypeOK
  <2> QED  BY <2>1, <2>2
<1>7. TypeOK'  BY <1>2, <1>3, <1>4, <1>5, <1>6 DEF TypeOK
<1>8. InRange'
  <2>1. \A i \in 1..Len(checkpoints) : checkpoints[i].boundary <= Len(decisions')
    BY <1>3, RowTypes DEF InRange
  <2> QED  BY <1>2, <1>4, <2>1 DEF InRange
<1> QED  BY <1>6, <1>7, <1>8

LEMMA ShapeReply ==
  ASSUME Shape, Reply
  PROVE  Shape'
<1> USE DEF Shape
<1> DEFINE x == Message("reply", Nothing)
<1>1. x \in MessageRow /\ x.before = visible
  BY MessageType
<1>2. /\ messages' = Append(messages, x) /\ visible' = visible \cup {Len(messages) + 1}
      /\ turn' = NoTurn
      /\ UNCHANGED <<checkpoints, versions, decisions, renders, draft, restores,
                     turns, leases, owner, handed, overtaken, call, calls>>
  BY DEF Reply
<1> HIDE DEF x
<1>3. /\ messages' \in Seq(MessageRow) /\ visible' \subseteq 1..Len(messages')
      /\ Len(messages') = Len(messages) + 1 /\ Len(messages) \in Nat
  BY <1>1, <1>2, AppendedMessage DEF TypeOK
<1>4. NoTurn \in Turn  BY DEF NoTurn, Turn
<1>5. TypeOK'  BY <1>2, <1>3, <1>4 DEF TypeOK
<1>6. InRange'
  <2>1. \A k \in 1..Len(messages') : messages'[k].before \subseteq 1..Len(messages')
    BY <1>1, <1>2, MessageRange DEF TypeOK
  <2>2. 1..Len(messages) \subseteq 1..Len(messages')  BY <1>3
  <2> QED  BY <1>2, <2>1, <2>2 DEF InRange
<1>7. NumberKnown'  BY <1>2, NumberFrame
<1> QED  BY <1>5, <1>6, <1>7

LEMMA ShapeAnswer ==
  ASSUME Shape, NEW d \in 1..Len(decisions), Answer(d)
  PROVE  Shape' /\ SameCards(decisions')
<1> USE DEF Shape
<1>1. /\ decisions' = [decisions EXCEPT ![d].status = "answered"]
      /\ draft' = Answered(d) /\ handed' = handed \cup {AnswerTurn(d)}
      /\ call' = Touched(call) /\ calls' = calls + 1
      /\ UNCHANGED <<messages, visible, checkpoints, versions, renders, restores,
                     turns, turn, leases, owner, overtaken>>
  BY DEF Answer
<1> DEFINE y == [decisions[d] EXCEPT !.status = "answered"]
<1>2. y \in DecisionRow /\ y.by = decisions[d].by /\ y.blocking = decisions[d].blocking
      /\ y.status = "answered"
  BY RowTypes, CardType
<1>3. decisions' = [decisions EXCEPT ![d] = y]  BY <1>1
<1> HIDE DEF y
<1>4. SameCards(decisions')
  BY <1>2, <1>3 DEF SameCards, TypeOK
<1>5. draft' \in DraftRow /\ draft'.current = draft.current
  BY <1>1 DEF Answered, TypeOK, DraftRow, Nothing
<1>6. AnswerTurn(d) \in Turn  BY DEF AnswerTurn, Turn
<1>7. TypeOK'  BY <1>1, <1>4, <1>5, <1>6, TouchedNumbers DEF TypeOK, SameCards
<1>8. InRange'  BY <1>1, <1>4, <1>5 DEF InRange, SameCards
<1> QED  BY <1>1, <1>4, <1>7, <1>8, TouchedNumbers

\* Cancelling the pending cards among some of a list.
LEMMA CancelledCards ==
  ASSUME TypeOK, NEW list, NEW Of,
         list = [d \in DOMAIN decisions |-> IF d \in Of /\ decisions[d].status = "pending"
                                            THEN [decisions[d] EXCEPT !.status = "cancelled"]
                                            ELSE decisions[d]]
  PROVE  /\ SameCards(list)
         /\ \A d \in 1..Len(decisions) :
              list[d].status = "pending" <=> decisions[d].status = "pending" /\ d \notin Of
<1>1. decisions \in Seq(DecisionRow) /\ DOMAIN decisions = 1..Len(decisions) /\ Len(decisions) \in Nat
  BY DEF TypeOK
<1>2. \A d \in 1..Len(decisions) : decisions[d] \in DecisionRow  BY <1>1
<1> DEFINE y(d) == [decisions[d] EXCEPT !.status = "cancelled"]
<1>3. \A d \in 1..Len(decisions) :
        /\ y(d) \in DecisionRow /\ y(d).by = decisions[d].by
        /\ y(d).blocking = decisions[d].blocking /\ y(d).status = "cancelled"
  BY <1>2, CardType
<1>4. \A d \in 1..Len(decisions) :
        list[d] = IF d \in Of /\ decisions[d].status = "pending" THEN y(d) ELSE decisions[d]
  BY <1>1
<1>5. list \in [1..Len(decisions) -> DecisionRow]
  BY <1>1, <1>2, <1>3
<1>6. list \in Seq(DecisionRow) /\ Len(list) = Len(decisions)
  BY <1>1, <1>5
<1> HIDE DEF y
<1> QED  BY <1>2, <1>3, <1>4, <1>6 DEF SameCards

LEMMA ShapeClear ==
  ASSUME Shape, NEW h \in Handler, ClearCommit(h)
  PROVE  Shape' /\ SameCards(decisions')
<1> USE DEF Shape
<1> DEFINE c == [call EXCEPT ![h] = Idle]
<1>1. c \in [Handler -> Locals] /\ \A g \in Handler : c[g] = call[g] \/ c[g].pc = "idle"
  BY IdleFacts DEF TypeOK
<1>2. CASE call[h].fresh
  <2> DEFINE x == Message("reset", Nothing)
             m == Len(messages) + 1
  <2>1. x \in MessageRow /\ x.before = visible
    BY MessageType
  <2>2. /\ messages' = Append(messages, x) /\ visible' = visible \cup {m}
        /\ decisions' = Cleared(decisions)
        /\ draft' = [draft EXCEPT !.tail = m, !.pending = Nothing]
        /\ call' = Touched(c)
        /\ UNCHANGED <<checkpoints, versions, renders, restores, queue, calls>>
    BY <1>2 DEF ClearCommit
  <2> HIDE DEF x
  <2>3. /\ messages' \in Seq(MessageRow) /\ visible' \subseteq 1..Len(messages')
        /\ Len(messages') = Len(messages) + 1 /\ Len(messages) \in Nat
    BY <2>1, <2>2, AppendedMessage DEF TypeOK
  <2>4. draft' \in DraftRow /\ draft'.current = draft.current
    <3>1. m \in Nat /\ Nothing \in Nat /\ draft \in DraftRow
      BY <2>3 DEF TypeOK, Nothing
    <3> HIDE DEF m
    <3> QED  BY <2>2, <3>1 DEF DraftRow
  <2>5. SameCards(decisions')
    <3> DEFINE Of == DOMAIN decisions
    <3>1. Cleared(decisions) = [d \in DOMAIN decisions |->
             IF d \in Of /\ decisions[d].status = "pending"
             THEN [decisions[d] EXCEPT !.status = "cancelled"] ELSE decisions[d]]
      BY DEF Cleared
    <3> HIDE DEF Of
    <3> QED  BY <2>2, <3>1, CancelledCards
  <2>6. call' \in [Handler -> Locals] /\ NumberKnown'
    <3> HIDE DEF c
    <3>0. c \in [Handler -> Locals]  BY <1>1
    <3>1. \A g \in Handler : call'[g].pc = "applying" => call'[g].fresh = FALSE
      BY <2>2, <3>0, TouchedLate
    <3>2. call' \in [Handler -> Locals]  BY <2>2, <3>0, TouchedCalls
    <3>3. NumberKnown'  BY <3>1, Zenon DEF NumberKnown
    <3> QED  BY <3>2, <3>3
  <2>7. TypeOK'  BY <2>2, <2>3, <2>4, <2>5, <2>6 DEF TypeOK, SameCards, queue
  <2>8. InRange'
    <3>1. \A k \in 1..Len(messages') : messages'[k].before \subseteq 1..Len(messages')
      BY <2>1, <2>2, MessageRange DEF TypeOK
    <3>2. 1..Len(messages) \subseteq 1..Len(messages')  BY <2>3
    <3> QED  BY <2>2, <2>4, <2>5, <3>1, <3>2 DEF InRange, SameCards
  <2> QED  BY <2>5, <2>6, <2>7, <2>8
<1>3. CASE ~ call[h].fresh
  <2>1. /\ call' = c
        /\ UNCHANGED <<messages, visible, decisions, draft, checkpoints, versions, renders,
                       restores, queue, calls>>
    BY <1>3 DEF ClearCommit
  <2> HIDE DEF c
  <2>2. SameCards(decisions')  BY <2>1 DEF SameCards, TypeOK
  <2>3. TypeOK'  BY <1>1, <2>1 DEF TypeOK, queue
  <2>4. InRange'  BY <2>1 DEF InRange
  <2>5. NumberKnown'  BY <1>1, <2>1, NumberFrame
  <2> QED  BY <2>2, <2>3, <2>4, <2>5
<1> QED  BY <1>2, <1>3

\* The checkpoint that a resend goes back to is the target's.
LEMMA CheckpointFound ==
  ASSUME NEW m, CheckpointsOf(m) # {}
  PROVE  \E i \in 1..Len(checkpoints) : /\ checkpoints[i] = CheckpointOf(m)
                                        /\ checkpoints[i].kind = "user_message"
                                        /\ checkpoints[i].anchor = m
<1> DEFINE i == CHOOSE k \in CheckpointsOf(m) : TRUE
<1>1. i \in CheckpointsOf(m)  OBVIOUS
<1>2. CheckpointOf(m) = checkpoints[i]  BY DEF CheckpointOf
<1> HIDE DEF i
<1> QED  BY <1>1, <1>2 DEF CheckpointsOf

\* The restored version is a copy of the old one under the next number; without one nothing is stored.
Restoring(point, list) ==
  \/ point.version = Nothing /\ list = versions
  \/ /\ point.version \in 1..Len(versions)
     /\ Len(list) = Len(versions) + 1
     /\ \A n \in 1..Len(versions) : list[n] = versions[n]
     /\ list[Len(versions) + 1].parent = point.version
     /\ list[Len(versions) + 1].document = Document(point.version)
     /\ Document(point.version) > 0

LEMMA RestoredVersionsFacts ==
  ASSUME TypeOK, InRange, NEW i \in 1..Len(checkpoints), NEW v
  PROVE  LET list == RestoredVersions(checkpoints[i], v)
         IN  list \in Seq(VersionRow) /\ Restoring(checkpoints[i], list)
<1> DEFINE point == checkpoints[i]
           list == RestoredVersions(point, v)
           x == [parent |-> point.version, document |-> Document(point.version)]
<1>1. point.version \in Nat /\ point.version <= Len(versions) /\ Len(versions) \in Nat
      /\ versions \in Seq(VersionRow)
  BY RowTypes DEF InRange, TypeOK
<1>2. CASE point.version = Nothing
  BY <1>1, <1>2 DEF RestoredVersions, Restoring
<1>3. CASE point.version # Nothing
  <2>1. point.version \in 1..Len(versions)  BY <1>1, <1>3 DEF Nothing
  <2>2. Document(point.version) \in Nat /\ Document(point.version) > 0
    BY <1>1, <1>3, DocumentType DEF Nothing
  <2>3. x \in VersionRow /\ x.parent = point.version /\ x.document = Document(point.version)
    BY <1>1, <2>2 DEF VersionRow
  <2>4. list = Append(versions, x)  BY <1>3 DEF RestoredVersions
  <2> HIDE DEF x
  <2>5. /\ list \in Seq(VersionRow) /\ Len(list) = Len(versions) + 1
        /\ \A n \in 1..Len(versions) : list[n] = versions[n]
        /\ list[Len(versions) + 1] = x
    BY <1>1, <2>3, <2>4, AppendFacts
  <2> HIDE DEF list, point
  <2>6. list \in Seq(VersionRow) /\ Restoring(point, list)
    BY <2>1, <2>2, <2>3, <2>5 DEF Restoring
  <2> QED  BY <2>6 DEF list, point
<1> QED  BY <1>2, <1>3

\* The draft after a resend: each pointer stays or goes, the current version may be the new one.
LEMMA RestoredDraftFacts ==
  ASSUME TypeOK, NEW point, NEW v \in Nat
  PROVE  LET after == RestoredDraft(point, v)
         IN  /\ after \in DraftRow
             /\ after.current = IF point.version = Nothing THEN draft.current ELSE v
             /\ after.preview = IF point.version = Nothing THEN draft.preview ELSE Nothing
             /\ after.tail = IF draft.tail \in point.shown THEN draft.tail ELSE Nothing
             /\ after.pending = IF draft.pending \in Dropped(point) THEN Nothing ELSE draft.pending
<1>1. draft \in DraftRow /\ Nothing \in Nat  BY DEF TypeOK, Nothing
<1> QED  BY <1>1 DEF RestoredDraft, DraftRow

\* What the transaction of a resend stores.
ApplyStores(h, i) ==
  LET c == call[h]
      point == checkpoints[i]
      new == Len(messages) + 1
      x == messages[c.target]
      after == RestoredDraft(point, c.version)
  IN  /\ point.kind = "user_message" /\ point.anchor = c.target /\ c.target \in 1..Len(messages)
      /\ c.version = Len(versions) + 1
      /\ versions' \in Seq(VersionRow) /\ Restoring(point, versions')
      /\ draft' = after /\ draft' \in DraftRow
      /\ SameCards(decisions')
      /\ \A d \in 1..Len(decisions) :
           decisions'[d].status = "pending" <=>
             decisions[d].status = "pending" /\ ~ (d > point.boundary)
      /\ messages' = Append(messages, Rewritten(c)) /\ Rewritten(c) \in MessageRow
      /\ Rewritten(c).before = x.before
      /\ Rewritten(c).document = IF x.document = Nothing THEN Document(draft.current) ELSE x.document
      /\ visible' = point.shown \cup {new}
      /\ checkpoints' \in Seq(CheckpointRow)
      /\ \A k \in 1..Len(checkpoints') :
           \/ \E n \in 1..Len(checkpoints) : checkpoints'[k] = checkpoints[n]
           \/ checkpoints'[k] = NewPoint("restore", point.anchor, after.current, point.shown)
           \/ checkpoints'[k] = NewPoint("user_message", new, after.current, visible')
      /\ DOMAIN renders' = DOMAIN renders
      /\ \A k \in DOMAIN restores' : restores'[k] \in [target : Nat, message : Nat]
      /\ \A g \in Handler : call'[g].pc = IF g = h THEN "done" ELSE call[g].pc
      /\ call'[h].message = new
      /\ UNCHANGED <<turns, turn, leases, owner, handed, overtaken, calls>>

LEMMA ApplyFacts ==
  ASSUME Shape, NEW h \in Handler, ResendApply(h)
  PROVE  /\ \E i \in 1..Len(checkpoints) : ApplyStores(h, i)
         /\ call' \in [Handler -> Locals] /\ NumberKnown'
<1> USE DEF Shape
<1> DEFINE c == call[h]
           new == Len(messages) + 1
<1>1. /\ c \in Applying /\ c.pc = "applying" /\ c.fresh /\ CheckpointsOf(c.target) # {}
  BY LocalsByPlace DEF ResendApply, CanRewind, TypeOK
<1>2. c.key \in Key /\ c.target \in Nat /\ c.version \in Nat
  BY <1>1 DEF Applying
<1>3. PICK i \in 1..Len(checkpoints) : /\ checkpoints[i] = CheckpointOf(c.target)
                                       /\ checkpoints[i].kind = "user_message"
                                       /\ checkpoints[i].anchor = c.target
  BY <1>1, CheckpointFound
<1> DEFINE point == checkpoints[i]
           after == RestoredDraft(point, c.version)
           restore == Recorded(checkpoints, "restore", point.anchor, after.current, point.shown)
<1>4. /\ renders' = [v \in DOMAIN renders |-> IF v \in c.jobs THEN "cancelled" ELSE renders[v]]
      /\ versions' = RestoredVersions(point, c.version)
      /\ draft' = after
      /\ decisions' = Invalidated(decisions, point.boundary)
      /\ messages' = Append(messages, Rewritten(c))
      /\ visible' = point.shown \cup {new}
      /\ checkpoints' = Recorded(restore, "user_message", new, after.current, visible')
      /\ restores' = [k \in DOMAIN restores \cup {c.key} |->
                        IF k = c.key THEN [target |-> c.target, message |-> new] ELSE restores[k]]
      /\ call' = Touched([call EXCEPT ![h] = [pc |-> "done", message |-> new]])
      /\ UNCHANGED <<queue, calls>>
  BY <1>3 DEF ResendApply, Apply, ShownAfter
<1>5. c.version = Len(versions) + 1
  BY <1>1 DEF NumberKnown
<1>6. c.target \in 1..Len(messages) /\ point.shown \subseteq 1..Len(messages)
      /\ point.anchor \in Nat /\ point.shown \in SUBSET Nat /\ new \in Nat
      /\ Len(messages) \in Nat
  BY <1>3, RowTypes DEF InRange
<1>7. versions' \in Seq(VersionRow) /\ Restoring(point, versions')
  BY <1>4, RestoredVersionsFacts
<1>8. draft' \in DraftRow /\ after.current \in Nat
  <2>1. after \in DraftRow  BY <1>2, RestoredDraftFacts
  <2> HIDE DEF after
  <2> QED  BY <1>4, <2>1 DEF DraftRow
<1>9. /\ SameCards(decisions')
      /\ \A d \in 1..Len(decisions) :
           decisions'[d].status = "pending" <=>
             decisions[d].status = "pending" /\ ~ (d > point.boundary)
  <2> DEFINE Of == {d \in DOMAIN decisions : d > point.boundary}
  <2>1. Invalidated(decisions, point.boundary) = [d \in DOMAIN decisions |->
             IF d \in Of /\ decisions[d].status = "pending"
             THEN [decisions[d] EXCEPT !.status = "cancelled"] ELSE decisions[d]]
    BY DEF Invalidated
  <2>2. \A d \in 1..Len(decisions) : d \in Of <=> d > point.boundary
    BY DEF TypeOK
  <2>3. decisions' = Invalidated(decisions, point.boundary)  BY <1>4
  <2> HIDE DEF Of, point, c
  <2>4. /\ SameCards(decisions')
        /\ \A d \in 1..Len(decisions) :
             decisions'[d].status = "pending" <=> decisions[d].status = "pending" /\ d \notin Of
    BY <2>1, <2>3, CancelledCards
  <2> QED  BY <2>2, <2>4
<1>10. /\ Rewritten(c) \in MessageRow
       /\ Rewritten(c).before = messages[c.target].before
       /\ Rewritten(c).document = IF messages[c.target].document = Nothing
                                  THEN Document(draft.current) ELSE messages[c.target].document
  <2> DEFINE x == messages[c.target]
             doc == IF x.document = Nothing THEN Document(draft.current) ELSE x.document
  <2>1. Message("user", c.key) \in MessageRow
        /\ Message("user", c.key).document = Document(draft.current)
    BY <1>2, MessageType
  <2>2. x \in MessageRow  BY <1>6, RowTypes
  <2>3. x.before \in SUBSET Nat /\ doc \in Nat
    BY <2>1, <2>2 DEF MessageRow
  <2>4. Rewritten(c) = [Message("user", c.key) EXCEPT !.before = x.before, !.document = doc]
    BY DEF Rewritten
  <2> HIDE DEF doc, x
  <2>5. Rewritten(c) \in MessageRow /\ Rewritten(c).before = x.before /\ Rewritten(c).document = doc
    BY <2>1, <2>3, <2>4 DEF MessageRow
  <2> QED  BY <2>5 DEF doc, x
<1>11. /\ checkpoints' \in Seq(CheckpointRow)
       /\ \A k \in 1..Len(checkpoints') :
           \/ \E n \in 1..Len(checkpoints) : checkpoints'[k] = checkpoints[n]
           \/ checkpoints'[k] = NewPoint("restore", point.anchor, after.current, point.shown)
           \/ checkpoints'[k] = NewPoint("user_message", new, after.current, visible')
  <2>a. point.anchor \in Nat /\ after.current \in Nat /\ point.shown \in SUBSET Nat /\ new \in Nat
    BY <1>6, <1>8
  <2>b. checkpoints' = Recorded(restore, "user_message", new, after.current, visible')
    BY <1>4
  <2>1. visible' \in SUBSET Nat  BY <1>4, <1>6
  <2> HIDE DEF after, new, point, c
  <2>2. checkpoints \in Seq(CheckpointRow) /\ decisions \in Seq(DecisionRow)  BY DEF TypeOK
  <2>c. restore = Recorded(checkpoints, "restore", point.anchor, after.current, point.shown)
    OBVIOUS
  <2> HIDE DEF restore
  <2> DEFINE kind == "restore"
             anchor == point.anchor
             version == after.current
             shown == point.shown
  <2>d. /\ kind \in {"user_message", "restore"} /\ anchor \in Nat /\ version \in Nat
        /\ shown \in SUBSET Nat /\ restore = Recorded(checkpoints, kind, anchor, version, shown)
    BY <2>a, <2>c
  <2>3. /\ restore \in Seq(CheckpointRow)
        /\ \A k \in 1..Len(restore) :
             \/ \E n \in 1..Len(checkpoints) : restore[k] = checkpoints[n]
             \/ restore[k] = NewPoint("restore", point.anchor, after.current, point.shown)
    <3> HIDE DEF kind, anchor, version, shown
    <3> DEFINE made == Recorded(checkpoints, kind, anchor, version, shown)
    <3>1. /\ made \in Seq(CheckpointRow)
          /\ \A k \in 1..Len(made) :
               \/ made[k] = NewPoint(kind, anchor, version, shown)
               \/ \E n \in 1..Len(checkpoints) : made[k] = checkpoints[n]
      <4>1. kind \in {"user_message", "restore"} /\ anchor \in Nat /\ version \in Nat
            /\ shown \in SUBSET Nat
        BY <2>d
      <4> QED  BY <4>1, <2>2, RecordedKeeps
    <3>2. restore = made  BY <2>d
    <3> HIDE DEF made
    <3> QED  BY <3>1, <3>2 DEF kind, anchor, version, shown
  <2>4. /\ checkpoints' \in Seq(CheckpointRow)
        /\ \A k \in 1..Len(checkpoints') :
             \/ \E n \in 1..Len(restore) : checkpoints'[k] = restore[n]
             \/ checkpoints'[k] = NewPoint("user_message", new, after.current, visible')
    BY <2>a, <2>b, <2>1, <2>2, <2>3, RecordedKeeps
  <2> QED  BY <2>3, <2>4
<1>12. /\ DOMAIN renders' = DOMAIN renders
       /\ \A k \in DOMAIN restores' : restores'[k] \in [target : Nat, message : Nat]
  BY <1>2, <1>4, <1>6 DEF TypeOK
<1>13. /\ call' \in [Handler -> Locals] /\ NumberKnown'
       /\ \A g \in Handler : call'[g].pc = IF g = h THEN "done" ELSE call[g].pc
       /\ call'[h].message = new
  <2> DEFINE r == [pc |-> "done", message |-> new]
             b == [call EXCEPT ![h] = r]
  <2>1. r \in Locals /\ r.pc = "done" /\ r.message = new
    BY <1>6 DEF Locals, Ending
  <2> HIDE DEF r
  <2>2. /\ b \in [Handler -> Locals] /\ b[h] = r
        /\ \A g \in Handler : b[g].pc = IF g = h THEN "done" ELSE call[g].pc
    BY <2>1 DEF TypeOK
  <2>3. call' = Touched(b)  BY <1>4 DEF r
  <2> HIDE DEF b
  <2>4. call' \in [Handler -> Locals] /\ \A g \in Handler : call'[g].pc = b[g].pc
    BY <2>2, <2>3, TouchedCalls
  <2>5. call'[h] = r  BY <2>1, <2>2, <2>3, TouchedCalls
  <2>0. b \in [Handler -> Locals]  BY <2>2
  <2>6. \A g \in Handler : call'[g].pc = "applying" => call'[g].fresh = FALSE
    BY <2>0, <2>3, TouchedLate
  <2>7. NumberKnown'  BY <2>6, Zenon DEF NumberKnown
  <2> QED  BY <2>1, <2>2, <2>4, <2>5, <2>7
<1>14. ApplyStores(h, i)
  <2>1. UNCHANGED <<turns, turn, leases, owner, handed, overtaken, calls>>
    BY <1>4 DEF queue
  <2> QED
    BY <1>3, <1>4, <1>5, <1>6, <1>7, <1>8, <1>9, <1>10, <1>11, <1>12, <1>13, <2>1, Zenon
    DEF ApplyStores
<1> QED  BY <1>13, <1>14

\* The rows of the resend's checkpoints.
LEMMA ApplyPoints ==
  ASSUME Shape, NEW h \in Handler, NEW i \in 1..Len(checkpoints), ApplyStores(h, i),
         NEW k \in 1..Len(checkpoints')
  PROVE  LET new == Len(messages) + 1
             q == checkpoints'[k]
         IN  \/ \E n \in 1..Len(checkpoints) : q = checkpoints[n]
             \/ /\ q.version = draft'.current /\ q.boundary = Len(decisions)
                /\ \/ /\ q.kind = "restore" /\ q.anchor = checkpoints[i].anchor
                      /\ q.shown \subseteq checkpoints[i].shown
                   \/ /\ q.kind = "user_message" /\ q.anchor = new
                      /\ q.shown = checkpoints[i].shown
<1> USE DEF Shape
<1> DEFINE new == Len(messages) + 1
           point == checkpoints[i]
           after == RestoredDraft(point, call[h].version)
           q == checkpoints'[k]
<1>1. /\ point.anchor \in Nat /\ point.shown \in SUBSET Nat /\ point.shown \subseteq 1..Len(messages)
      /\ new \in Nat /\ Len(messages) \in Nat /\ decisions \in Seq(DecisionRow)
  BY RowTypes DEF InRange, TypeOK
<1>2. /\ draft' = after /\ draft' \in DraftRow /\ visible' = point.shown \cup {new}
      /\ \/ \E n \in 1..Len(checkpoints) : q = checkpoints[n]
         \/ q = NewPoint("restore", point.anchor, after.current, point.shown)
         \/ q = NewPoint("user_message", new, after.current, visible')
  BY DEF ApplyStores
<1>3. after.current \in Nat /\ after.current = draft'.current
  <2> HIDE DEF after
  <2> QED  BY <1>2 DEF DraftRow
<1>4. visible' \in SUBSET Nat /\ visible' \ {new} = point.shown
  BY <1>1, <1>2
<1>5. CASE \E n \in 1..Len(checkpoints) : q = checkpoints[n]
  BY <1>5
<1> HIDE DEF after, point, new
<1>6. CASE q = NewPoint("restore", point.anchor, after.current, point.shown)
  <2>1. /\ q.kind = "restore" /\ q.anchor = point.anchor /\ q.version = after.current
        /\ q.boundary = Len(decisions) /\ q.shown = point.shown \ {point.anchor}
    BY <1>6 DEF NewPoint
  <2> QED  BY <1>3, <2>1 DEF point
<1>7. CASE q = NewPoint("user_message", new, after.current, visible')
  <2>1. /\ q.kind = "user_message" /\ q.anchor = new /\ q.version = after.current
        /\ q.boundary = Len(decisions) /\ q.shown = visible' \ {new}
    BY <1>7 DEF NewPoint
  <2> QED  BY <1>3, <1>4, <2>1 DEF point, new
<1> QED  BY <1>2, <1>5, <1>6, <1>7

LEMMA ShapeApply ==
  ASSUME Shape, NEW h \in Handler, ResendApply(h)
  PROVE  Shape'
<1> USE DEF Shape
<1>1. PICK i \in 1..Len(checkpoints) : ApplyStores(h, i)
  BY ApplyFacts
<1> DEFINE point == checkpoints[i]
           x == Rewritten(call[h])
<1>2. /\ point.shown \subseteq 1..Len(messages) /\ point.anchor \in 1..Len(messages)
      /\ point.version <= Len(versions) /\ point.version \in Nat /\ draft.current <= Len(versions)
      /\ Len(messages) \in Nat /\ Len(versions) \in Nat /\ Len(decisions) \in Nat
      /\ draft.current \in Nat
  BY RowTypes DEF InRange, TypeOK, DraftRow
<1>3. /\ messages' = Append(messages, x) /\ x \in MessageRow
      /\ x.before = messages[call[h].target].before /\ call[h].target \in 1..Len(messages)
      /\ visible' = point.shown \cup {Len(messages) + 1}
  BY <1>1 DEF ApplyStores
<1> HIDE DEF x
<1>4. x.before \subseteq 1..Len(messages)  BY <1>3 DEF InRange
<1>5. /\ messages' \in Seq(MessageRow) /\ Len(messages') = Len(messages) + 1
      /\ visible' \subseteq 1..Len(messages')
  <2>1. messages' \in Seq(MessageRow) /\ Len(messages') = Len(messages) + 1
    BY <1>3, AppendedMessage
  <2> QED  BY <1>2, <1>3, <2>1
<1>6. /\ versions' \in Seq(VersionRow) /\ Restoring(point, versions')
      /\ call[h].version = Len(versions) + 1
      /\ draft' = RestoredDraft(point, call[h].version) /\ draft' \in DraftRow
  BY <1>1 DEF ApplyStores
<1>7. Len(versions') >= Len(versions) /\ Len(versions') \in Nat
      /\ (point.version # Nothing => Len(versions') = Len(versions) + 1)
  BY <1>2, <1>6 DEF Restoring
<1>8. draft'.current <= Len(versions')
  <2>1. draft'.current = IF point.version = Nothing THEN draft.current ELSE call[h].version
    BY <1>2, <1>6, RestoredDraftFacts
  <2> QED  BY <1>2, <1>6, <1>7, <2>1
<1>9. SameCards(decisions') /\ DOMAIN renders' = DOMAIN renders
      /\ checkpoints' \in Seq(CheckpointRow)
      /\ (\A k \in DOMAIN restores' : restores'[k] \in [target : Nat, message : Nat])
      /\ UNCHANGED <<turns, turn, leases, owner, handed, overtaken, calls>>
  BY <1>1 DEF ApplyStores
<1>10. TypeOK'
  <2>1. DOMAIN renders' \subseteq 1..Len(versions')  BY <1>2, <1>7, <1>9 DEF TypeOK
  <2>2. call' \in [Handler -> Locals]  BY ApplyFacts
  <2> QED  BY <1>5, <1>6, <1>9, <2>1, <2>2 DEF TypeOK, SameCards
<1>11. InRange'
  <2>1. \A m \in 1..Len(messages') : messages'[m].before \subseteq 1..Len(messages')
    BY <1>3, <1>4, MessageRange
  <2>2. \A v \in 1..Len(versions') : versions'[v].parent < v /\ versions'[v].document > 0
    BY <1>2, <1>6 DEF Restoring, InRange
  <2>3. ASSUME NEW k \in 1..Len(checkpoints')
        PROVE  /\ checkpoints'[k].anchor \in 1..Len(messages')
               /\ checkpoints'[k].shown \subseteq 1..Len(messages')
               /\ checkpoints'[k].version <= Len(versions')
               /\ checkpoints'[k].boundary <= Len(decisions')
    <3> DEFINE q == checkpoints'[k]
    <3>1. Len(decisions') = Len(decisions)  BY <1>9 DEF SameCards
    <3>2. CASE \E n \in 1..Len(checkpoints) : q = checkpoints[n]
      <4>1. PICK n \in 1..Len(checkpoints) : q = checkpoints[n]  BY <3>2
      <4>2. /\ q.anchor \in 1..Len(messages) /\ q.shown \subseteq 1..Len(messages)
            /\ q.version <= Len(versions) /\ q.boundary <= Len(decisions)
            /\ q.version \in Nat
        BY <4>1, RowTypes DEF InRange
      <4> HIDE DEF q
      <4>3. 1..Len(messages) \subseteq 1..Len(messages')  BY <1>2, <1>5
      <4>4. q.version <= Len(versions')  BY <1>2, <1>7, <4>2
      <4> QED  BY <3>1, <4>2, <4>3, <4>4 DEF q
    <3>3. CASE /\ q.version = draft'.current /\ q.boundary = Len(decisions)
               /\ \/ q.anchor = point.anchor /\ q.shown \subseteq point.shown
                  \/ q.anchor = Len(messages) + 1 /\ q.shown = point.shown
      <4> DEFINE new == Len(messages) + 1
      <4>1. q.version <= Len(versions') /\ q.boundary <= Len(decisions')
        BY <1>2, <1>8, <3>1, <3>3
      <4>2. new \in 1..Len(messages') /\ 1..Len(messages) \subseteq 1..Len(messages')
        BY <1>2, <1>5
      <4>3. q.anchor = point.anchor \/ q.anchor = new  BY <3>3
      <4>4. q.shown \subseteq point.shown  BY <3>3
      <4> HIDE DEF q, point, new
      <4>5. q.anchor \in 1..Len(messages')  BY <1>2, <4>2, <4>3
      <4>6. q.shown \subseteq 1..Len(messages')  BY <1>2, <4>2, <4>4
      <4> QED  BY <4>1, <4>5, <4>6 DEF q
    <3>4. \/ \E n \in 1..Len(checkpoints) : q = checkpoints[n]
          \/ /\ q.version = draft'.current /\ q.boundary = Len(decisions)
             /\ \/ q.anchor = point.anchor /\ q.shown \subseteq point.shown
                \/ q.anchor = Len(messages) + 1 /\ q.shown = point.shown
      BY <1>1, ApplyPoints
    <3> QED  BY <3>2, <3>3, <3>4
  <2> QED  BY <1>8, <2>1, <2>2, <2>3 DEF InRange
<1> QED  BY <1>10, <1>11, ApplyFacts

\* One handler moves on; a resend that has read the draft has the next number.
LEMMA HandlerMoves ==
  ASSUME TypeOK, NumberKnown, NEW h \in Handler, NEW r \in Locals,
         call' = [call EXCEPT ![h] = r], versions' = versions,
         r.pc # "applying" \/ r.version = Len(versions) + 1
  PROVE  /\ call' \in [Handler -> Locals] /\ NumberKnown'
         /\ \A g \in Handler : call'[g] = IF g = h THEN r ELSE call[g]
<1>1. call' \in [Handler -> Locals] /\ \A g \in Handler : call'[g] = IF g = h THEN r ELSE call[g]
  BY DEF TypeOK
<1>2. NumberKnown'
  BY <1>1, NumberFrame
<1> QED  BY <1>1, <1>2

\* The rows stay; the queue, the leases and the locals keep their shape.
LEMMA QuietShape ==
  ASSUME Shape, UNCHANGED rows, turns' \in Seq(Turn), turn' \in Turn, handed' \subseteq Turn,
         leases' \subseteq Handler, owner' \in Handler \cup {Nothing}, overtaken' \subseteq Nat,
         call' \in [Handler -> Locals], NumberKnown', calls' \in Nat
  PROVE  Shape'
<1>1. TypeOK'  BY DEF Shape, TypeOK, rows
<1>2. InRange'  BY DEF Shape, InRange, rows
<1> QED  BY <1>1, <1>2 DEF Shape

LEMMA EnqueuedType ==
  ASSUME TypeOK, NEW t \in Turn, Enqueued(t)
  PROVE  turns' \in Seq(Turn) /\ overtaken' \subseteq Nat
<1>1. t.id \in Nat  BY DEF Turn
<1>2. turns \in Seq(Turn) /\ overtaken \subseteq Nat  BY DEF TypeOK
<1>3. turns' \in Seq(Turn)  BY <1>2, AppendFacts DEF Enqueued
<1>4. overtaken' \subseteq Nat  BY <1>1, <1>2 DEF Enqueued
<1> QED  BY <1>3, <1>4

LEMMA ShapeQueue ==
  ASSUME Shape, Take \/ EndTurn \/ \E t \in handed : HandOver(t)
  PROVE  Shape'
<1> USE DEF Shape
<1>1. NoTurn \in Turn  BY DEF NoTurn, Turn
<1>2. CASE Take
  <2>1. turns \in Seq(Turn) /\ turns # <<>>  BY <1>2 DEF Take, TypeOK
  <2>2. Head(turns) \in Turn /\ Tail(turns) \in Seq(Turn)  BY <2>1
  <2>3. UNCHANGED <<rows, leases, owner, handed, overtaken, call, calls>>
        /\ turn' = Head(turns) /\ turns' = Tail(turns)
    BY <1>2 DEF Take
  <2>4. NumberKnown'  BY <2>3, NumberFrame DEF rows
  <2> QED  BY <2>2, <2>3, <2>4, QuietShape DEF TypeOK
<1>3. CASE EndTurn
  <2>3. UNCHANGED <<rows, turns, leases, owner, handed, overtaken, call, calls>> /\ turn' = NoTurn
    BY <1>3 DEF EndTurn
  <2>4. NumberKnown'  BY <2>3, NumberFrame DEF rows
  <2> QED  BY <1>1, <2>3, <2>4, QuietShape DEF TypeOK
<1>4. ASSUME NEW t \in handed, HandOver(t) PROVE Shape'
  <2>1. t \in Turn  BY DEF TypeOK
  <2>2. turns' \in Seq(Turn) /\ overtaken' \subseteq Nat
    BY <1>4, <2>1, EnqueuedType DEF HandOver, TypeOK
  <2>3. UNCHANGED <<rows, turn, leases, owner, call, calls>> /\ handed' = handed \ {t}
    BY <1>4 DEF HandOver
  <2>4. NumberKnown'  BY <2>3, NumberFrame DEF rows
  <2> QED  BY <2>2, <2>3, <2>4, QuietShape DEF TypeOK
<1> QED  BY <1>2, <1>3, <1>4

LEMMA ShapeArrive ==
  ASSUME Shape, NEW h \in Handler,
         ClearIdle(h) \/ \E k \in Key, m \in 1..Len(messages) : Resend(h, k, m) \/ Replay(h, k, m)
  PROVE  Shape'
<1> USE DEF Shape
<1>1. PICK r \in Locals : Arrive(h, r) /\ r.pc # "applying" /\ UNCHANGED <<rows, queue>>
  <2>1. CASE ClearIdle(h)
    <3> DEFINE r == [pc |-> "clearing", fresh |-> TRUE]
    <3>1. r \in Clearing /\ r.pc # "applying"  BY DEF Clearing
    <3>2. Arrive(h, r) /\ UNCHANGED <<rows, queue>>  BY <2>1 DEF ClearIdle
    <3> HIDE DEF r
    <3> QED  BY <3>1, <3>2 DEF Locals
  <2>2. ASSUME NEW k \in Key, NEW m \in 1..Len(messages), Resend(h, k, m)
        PROVE  \E r \in Locals : Arrive(h, r) /\ r.pc # "applying" /\ UNCHANGED <<rows, queue>>
    <3> DEFINE r == [pc |-> "resend", key |-> k, target |-> m]
    <3>1. r \in Asking /\ r.pc # "applying"  BY DEF Asking
    <3>2. Arrive(h, r) /\ UNCHANGED <<rows, queue>>  BY <2>2 DEF Resend
    <3> HIDE DEF r
    <3> QED  BY <3>1, <3>2 DEF Locals
  <2>3. ASSUME NEW k \in Key, NEW m \in 1..Len(messages), Replay(h, k, m)
        PROVE  \E r \in Locals : Arrive(h, r) /\ r.pc # "applying" /\ UNCHANGED <<rows, queue>>
    <3> DEFINE r == [pc |-> "replay", message |-> restores[k].message]
    <3>1. restores[k].message \in Nat  BY <2>3 DEF Replay, TypeOK
    <3>2. r \in Ending /\ r.pc # "applying"  BY <3>1 DEF Ending
    <3>3. Arrive(h, r) /\ UNCHANGED <<rows, queue>>  BY <2>3 DEF Replay
    <3> HIDE DEF r
    <3> QED  BY <3>2, <3>3 DEF Locals
  <2> QED  BY <2>1, <2>2, <2>3
<1>2. call' = [call EXCEPT ![h] = r] /\ calls' = calls + 1  BY <1>1 DEF Arrive
<1>3. call' \in [Handler -> Locals] /\ NumberKnown'
  BY <1>1, <1>2, HandlerMoves DEF rows
<1> QED  BY <1>1, <1>2, <1>3, QuietShape DEF TypeOK, queue

\* The steps of a resend but the one that writes.
LEMMA ShapeResend ==
  ASSUME Shape, NEW h \in Handler,
         \/ ResendBarrier(h) \/ ResendTimeout(h) \/ ResendDrained(h) \/ ResendRead(h)
         \/ ResendRefused(h) \/ ResendRelease(h) \/ ReplayHandOver(h)
  PROVE  Shape'
<1> USE DEF Shape
<1> DEFINE c == call[h]
<1>a. c \in Locals /\ Idle \in Locals /\ Idle.pc = "idle"  BY IdleFacts DEF TypeOK
<1>b. UNCHANGED rows /\ UNCHANGED calls /\ turn' = turn /\ versions' = versions
  BY DEF ResendBarrier, ResendTimeout, ResendDrained, ResendRead, ResendRefused, ResendRelease,
         ReplayHandOver, rows, queue
<1>c. leases' \subseteq Handler /\ owner' \in Handler \cup {Nothing}
  BY DEF ResendBarrier, ResendTimeout, ResendDrained, ResendRead, ResendRefused, ResendRelease,
         ReplayHandOver, queue, TypeOK, ReleaseRewind
<1>d. c.pc = "done" \/ c.pc = "replay" => c.message \in Nat
  BY <1>a, LocalsByPlace DEF Ending
<1>e. /\ turns' \in Seq(Turn) /\ handed' \subseteq Turn /\ overtaken' \subseteq Nat
  <2>1. CASE ReplayHandOver(h)
    <3>1. UserTurn(c.message) \in Turn
      BY <1>d, <2>1 DEF ReplayHandOver, UserTurn, Turn
    <3> QED  BY <2>1, <3>1, EnqueuedType DEF ReplayHandOver, TypeOK
  <2>2. CASE ResendRelease(h)
    <3>1. UserTurn(c.message) \in Turn
      BY <1>d, <2>2 DEF ResendRelease, UserTurn, Turn
    <3> QED  BY <2>2, <3>1 DEF ResendRelease, TypeOK
  <2>3. CASE \/ ResendBarrier(h) \/ ResendTimeout(h) \/ ResendDrained(h) \/ ResendRead(h)
             \/ ResendRefused(h)
    <3>1. (turns' = turns \/ turns' = <<>>) /\ handed' = handed /\ overtaken' = overtaken
      BY <2>3 DEF ResendBarrier, ResendTimeout, ResendDrained, ResendRead, ResendRefused, queue
    <3>2. turns \in Seq(Turn) /\ handed \subseteq Turn /\ overtaken \subseteq Nat  BY DEF TypeOK
    <3>3. <<>> \in Seq(Turn)  OBVIOUS
    <3> QED  BY <3>1, <3>2, <3>3
  <2> QED  BY <2>1, <2>2, <2>3
<1>f. \E r \in Locals : /\ call' = [call EXCEPT ![h] = r]
                        /\ r.pc # "applying" \/ r.version = Len(versions) + 1
  <2>1. CASE ResendBarrier(h) \/ ResendTimeout(h)
    <3>1. c \in Asking
      BY <1>a, <2>1, LocalsByPlace DEF ResendBarrier, ResendTimeout
    <3>2. \E pc \in {"idle", "waiting", "draining"} :
             call' = [call EXCEPT ![h] = IF pc = "idle" THEN Idle ELSE [c EXCEPT !.pc = pc]]
      BY <2>1 DEF ResendBarrier, ResendTimeout
    <3>3. PICK pc \in {"idle", "waiting", "draining"} :
             call' = [call EXCEPT ![h] = IF pc = "idle" THEN Idle ELSE [c EXCEPT !.pc = pc]]
      BY <3>2
    <3>4. CASE pc = "idle"  BY <1>a, <3>3, <3>4
    <3>5. CASE pc # "idle"
      <4> DEFINE r == [c EXCEPT !.pc = pc]
      <4>1. r \in Asking /\ r.pc = pc  BY <3>1, <3>5 DEF Asking
      <4>2. call' = [call EXCEPT ![h] = r]  BY <3>3, <3>5
      <4> HIDE DEF r
      <4> QED  BY <3>5, <4>1, <4>2 DEF Locals
    <3> QED  BY <3>4, <3>5
  <2>2. CASE ResendDrained(h) \/ ResendRelease(h) \/ ReplayHandOver(h)
    BY <1>a, <2>2 DEF ResendDrained, ResendRelease, ReplayHandOver
  <2>3. CASE ResendRead(h)
    <3> DEFINE r == [pc |-> "applying", key |-> c.key, target |-> c.target, fresh |-> TRUE,
                     jobs |-> {v \in DOMAIN renders : renders[v] = "open"},
                     version |-> Len(versions) + 1]
    <3>1. c \in Asking  BY <1>a, <2>3, LocalsByPlace DEF ResendRead
    <3>2. {v \in DOMAIN renders : renders[v] = "open"} \in SUBSET Nat /\ Len(versions) + 1 \in Nat
      BY RowTypes DEF TypeOK
    <3>3. c.key \in Key /\ c.target \in Nat  BY <3>1 DEF Asking
    <3>4. r \in Applying /\ r.version = Len(versions) + 1  BY <3>2, <3>3 DEF Applying
    <3>5. call' = [call EXCEPT ![h] = r]  BY <2>3 DEF ResendRead
    <3> HIDE DEF r
    <3> QED  BY <3>4, <3>5 DEF Locals
  <2>4. CASE ResendRefused(h)
    <3> DEFINE r == [pc |-> "replay", message |-> restores[c.key].message]
    <3>1. \/ call' = [call EXCEPT ![h] = Idle]
          \/ c.key \in DOMAIN restores /\ call' = [call EXCEPT ![h] = r]
      BY <2>4 DEF ResendRefused
    <3>2. c.key \in DOMAIN restores => r \in Ending /\ r.pc # "applying"
      BY DEF TypeOK, Ending
    <3> HIDE DEF r
    <3> QED  BY <1>a, <3>1, <3>2 DEF Locals
  <2> QED  BY <2>1, <2>2, <2>3, <2>4
<1>g. call' \in [Handler -> Locals] /\ NumberKnown'
  BY <1>b, <1>f, HandlerMoves
<1> QED  BY <1>b, <1>c, <1>e, <1>g, QuietShape DEF TypeOK

LEMMA NextShape == Shape /\ [Next]_vars => Shape'
<1> SUFFICES ASSUME Shape, [Next]_vars PROVE Shape'
  OBVIOUS
<1>1. CASE UNCHANGED vars
  <2>1. UNCHANGED <<rows, queue, call, calls>>  BY <1>1 DEF vars
  <2>2. NumberKnown'  BY <2>1 DEF rows, NumberKnown, Shape
  <2> QED  BY <2>1, <2>2, QuietShape DEF queue, Shape, TypeOK
<1> QED
  BY <1>1, ShapePost, ShapeEdit, ShapePreview, ShapeRender, ShapeAsk, ShapeReply, ShapeAnswer,
     ShapeClear, ShapeApply, ShapeQueue, ShapeArrive, ShapeResend
  DEF Next

-----------------------------------------------------------------------------
(* One resend at a time is past its barrier, and nothing waits or runs under it. *)

Past == {"waiting", "draining", "applying", "done"}

LEMMA InitBarrier == Init => BarrierHeld
BY IdleFacts DEF Init, BarrierHeld

\* The barrier stays as it is and no handler passes it.
LEMMA BarrierFrame ==
  ASSUME TypeOK, BarrierHeld, UNCHANGED <<leases, owner, turns>>, turn' = turn \/ turn' = NoTurn,
         \A h \in Handler : call'[h].pc = call[h].pc \/ call'[h].pc \notin Past
  PROVE  BarrierHeld'
BY DEF BarrierHeld, Past

\* Nothing is held, so nobody is past a barrier: the queue does what it likes.
LEMMA BarrierFree ==
  ASSUME TypeOK, BarrierHeld, leases = {}, UNCHANGED <<leases, owner>>,
         \A h \in Handler : call'[h].pc = call[h].pc \/ call'[h].pc \notin Past
  PROVE  BarrierHeld'
BY DEF BarrierHeld, Past

\* The one resend past its barrier gives it back.
LEMMA BarrierReleased ==
  ASSUME TypeOK, BarrierHeld, NEW h \in Handler, call[h].pc \in Past, ReleaseRewind(h),
         UNCHANGED <<turns, turn>>, call'[h].pc \notin Past,
         \A g \in Handler : g # h => call'[g] = call[g]
  PROVE  BarrierHeld'
<1>1. owner = h  BY DEF BarrierHeld, Past
<1>2. \A g \in Handler : call'[g].pc \notin Past
  BY <1>1 DEF BarrierHeld, Past
<1>3. leases' # {} => turns' = <<>>
  BY DEF ReleaseRewind, BarrierHeld
<1> QED  BY <1>2, <1>3 DEF BarrierHeld, Past

\* A write keeps every handler's place.
LEMMA TouchedPlaces ==
  ASSUME TypeOK, call' = Touched(call)
  PROVE  \A h \in Handler : call'[h].pc = call[h].pc
BY TouchedCalls DEF TypeOK

LEMMA RowsBarrier ==
  ASSUME Shape, BarrierHeld,
         \/ PostMessage \/ Edit \/ RequestPreview \/ Reply
         \/ \E v \in DOMAIN renders : FinishRender(v)
         \/ \E blocking \in BOOLEAN : Ask(blocking)
         \/ \E d \in 1..Len(decisions) : Answer(d)
  PROVE  BarrierHeld'
<1> USE DEF Shape
<1>1. call' = call \/ call' = Touched(call)
  BY DEF PostMessage, Edit, RequestPreview, Reply, FinishRender, Ask, Answer
<1>2. UNCHANGED <<leases, owner, turns>> /\ (turn' = turn \/ turn' = NoTurn)
  BY DEF PostMessage, Edit, RequestPreview, Reply, FinishRender, Ask, Answer, queue
<1> QED  BY <1>1, <1>2, TouchedPlaces, BarrierFrame

LEMMA ClearBarrier ==
  ASSUME Shape, BarrierHeld, NEW h \in Handler, ClearCommit(h)
  PROVE  BarrierHeld'
<1> USE DEF Shape
<1> DEFINE c == [call EXCEPT ![h] = Idle]
<1>1. c \in [Handler -> Locals] /\ \A g \in Handler : c[g].pc = call[g].pc \/ c[g].pc = "idle"
  BY IdleFacts DEF TypeOK
<1>2. call' = c \/ call' = Touched(c)  BY DEF ClearCommit
<1>3. UNCHANGED <<leases, owner, turns, turn>>  BY DEF ClearCommit, queue
<1> HIDE DEF c
<1>4. \A g \in Handler : call'[g].pc = c[g].pc
  <2>1. c \in [Handler -> Locals]  BY <1>1
  <2>2. CASE call' = c  BY <2>2
  <2>3. CASE call' = Touched(c)  BY <2>1, <2>3, TouchedCalls
  <2> QED  BY <1>2, <2>2, <2>3
<1>5. \A g \in Handler : call'[g].pc = call[g].pc \/ call'[g].pc \notin Past
  BY <1>1, <1>4 DEF Past
<1> QED  BY <1>3, <1>5, BarrierFrame

LEMMA QueueBarrier ==
  ASSUME Shape, BarrierHeld, Take \/ EndTurn \/ \E t \in handed : HandOver(t)
  PROVE  BarrierHeld'
<1> USE DEF Shape
<1>1. CASE Take
  <2>1. leases = {} /\ UNCHANGED <<leases, owner, call>>  BY <1>1 DEF Take, BarrierHeld
  <2> QED  BY <2>1, BarrierFree
<1>2. CASE EndTurn
  BY <1>2, BarrierFrame DEF EndTurn
<1>3. ASSUME NEW t \in handed, HandOver(t) PROVE BarrierHeld'
  <2>1. UNCHANGED <<leases, owner, call, turn>>  BY <1>3 DEF HandOver
  <2>2. CASE leases = {}  BY <2>1, <2>2, BarrierFree
  <2>3. CASE leases # {}  BY <1>3, <2>1, <2>3, BarrierFrame DEF HandOver
  <2> QED  BY <2>2, <2>3
<1> QED  BY <1>1, <1>2, <1>3

LEMMA ArriveBarrier ==
  ASSUME Shape, BarrierHeld, NEW h \in Handler,
         ClearIdle(h) \/ \E k \in Key, m \in 1..Len(messages) : Resend(h, k, m) \/ Replay(h, k, m)
  PROVE  BarrierHeld'
<1> USE DEF Shape
<1>1. UNCHANGED <<leases, owner, turns, turn>>  BY DEF ClearIdle, Resend, Replay, queue
<1>2. \E r : r.pc \notin Past /\ call' = [call EXCEPT ![h] = r]
  <2>1. CASE ClearIdle(h)
    <3> DEFINE r == [pc |-> "clearing", fresh |-> TRUE]
    <3>1. r.pc \notin Past /\ call' = [call EXCEPT ![h] = r]  BY <2>1 DEF ClearIdle, Arrive, Past
    <3> QED  BY <3>1
  <2>2. ASSUME NEW k \in Key, NEW m \in 1..Len(messages), Resend(h, k, m)
        PROVE  \E r : r.pc \notin Past /\ call' = [call EXCEPT ![h] = r]
    <3> DEFINE r == [pc |-> "resend", key |-> k, target |-> m]
    <3>1. r.pc \notin Past /\ call' = [call EXCEPT ![h] = r]  BY <2>2 DEF Resend, Arrive, Past
    <3> QED  BY <3>1
  <2>3. ASSUME NEW k \in Key, NEW m \in 1..Len(messages), Replay(h, k, m)
        PROVE  \E r : r.pc \notin Past /\ call' = [call EXCEPT ![h] = r]
    <3> DEFINE r == [pc |-> "replay", message |-> restores[k].message]
    <3>1. r.pc \notin Past /\ call' = [call EXCEPT ![h] = r]  BY <2>3 DEF Replay, Arrive, Past
    <3> QED  BY <3>1
  <2> QED  BY <2>1, <2>2, <2>3
<1>3. \A g \in Handler : call'[g].pc = call[g].pc \/ call'[g].pc \notin Past
  BY <1>2 DEF TypeOK
<1> QED  BY <1>1, <1>3, BarrierFrame

LEMMA ResendBarriers ==
  ASSUME Shape, BarrierHeld, NEW h \in Handler,
         \/ ResendBarrier(h) \/ ResendTimeout(h) \/ ResendDrained(h) \/ ResendRead(h)
         \/ ResendApply(h) \/ ResendRefused(h) \/ ResendRelease(h) \/ ReplayHandOver(h)
  PROVE  BarrierHeld'
<1> USE DEF Shape
<1>a. call \in [Handler -> Locals] /\ call[h] \in Locals /\ Idle.pc = "idle"
  BY IdleFacts DEF TypeOK
<1>1. CASE ResendBarrier(h)
  <2>1. call[h] \in Asking  BY <1>1, <1>a, LocalsByPlace DEF ResendBarrier
  <2>2. CASE owner # Nothing
    <3>1. UNCHANGED <<leases, owner, turns, turn>> /\ call' = [call EXCEPT ![h] = Idle]
      BY <1>1, <2>2 DEF ResendBarrier
    <3>2. \A g \in Handler : call'[g].pc = call[g].pc \/ call'[g].pc \notin Past
      BY <1>a, <3>1 DEF Past
    <3> QED  BY <3>1, <3>2, BarrierFrame
  <2>3. CASE owner = Nothing
    <3>1. /\ owner' = h /\ leases' = leases \cup {h} /\ turns' = <<>> /\ turn' = turn
          /\ call' = [call EXCEPT ![h] = [call[h] EXCEPT !.pc = "waiting"]]
      BY <1>1, <2>3 DEF ResendBarrier
    <3>2. \A g \in Handler : call[g].pc \notin Past
      BY <2>3, RewindAssumption DEF BarrierHeld, Past
    <3>3. call'[h].pc = "waiting" /\ \A g \in Handler : g # h => call'[g] = call[g]
      BY <1>a, <2>1, <3>1 DEF Asking
    <3> QED  BY <3>1, <3>2, <3>3 DEF BarrierHeld, Past
  <2> QED  BY <2>2, <2>3
<1>2. CASE ResendTimeout(h)
  <2>1. call[h] \in Asking /\ call[h].pc = "waiting"
    BY <1>2, <1>a, LocalsByPlace DEF ResendTimeout
  <2>2. call'[h].pc = "draining" /\ \A g \in Handler : g # h => call'[g] = call[g]
    BY <1>2, <1>a, <2>1 DEF ResendTimeout, Asking
  <2>3. UNCHANGED <<leases, owner, turns, turn>>  BY <1>2 DEF ResendTimeout, queue
  <2> QED  BY <2>1, <2>2, <2>3 DEF BarrierHeld, Past
<1>3. CASE ResendRead(h)
  <2>1. call'[h].pc = "applying" /\ \A g \in Handler : g # h => call'[g] = call[g]
    BY <1>3, <1>a DEF ResendRead
  <2>2. UNCHANGED <<leases, owner, turns, turn>> /\ call[h].pc = "waiting" /\ turn = NoTurn
    BY <1>3 DEF ResendRead, queue
  <2> QED  BY <2>1, <2>2 DEF BarrierHeld, Past
<1>4. CASE ResendApply(h)
  <2>1. /\ \A g \in Handler : call'[g].pc = IF g = h THEN "done" ELSE call[g].pc
        /\ UNCHANGED <<turns, turn, leases, owner>>
    BY <1>4, ApplyFacts DEF ApplyStores
  <2>2. call[h].pc = "applying"  BY <1>4 DEF ResendApply
  <2> QED  BY <2>1, <2>2 DEF BarrierHeld, Past
<1>5. CASE ResendDrained(h) \/ ResendRelease(h)
  <2>1. call[h].pc \in Past /\ ReleaseRewind(h) /\ UNCHANGED <<turns, turn>>
        /\ call' = [call EXCEPT ![h] = Idle]
    BY <1>5 DEF ResendDrained, ResendRelease, Past
  <2>2. call'[h].pc \notin Past /\ \A g \in Handler : g # h => call'[g] = call[g]
    BY <1>a, <2>1 DEF Past
  <2> QED  BY <2>1, <2>2, BarrierReleased
<1>6. CASE ResendRefused(h)
  <2>1. call[h].pc \in Past /\ ReleaseRewind(h) /\ UNCHANGED <<turns, turn>>
    BY <1>6 DEF ResendRefused, Past
  <2>2. call'[h].pc \notin Past /\ \A g \in Handler : g # h => call'[g] = call[g]
    BY <1>a, <1>6 DEF ResendRefused, Past
  <2> QED  BY <2>1, <2>2, BarrierReleased
<1>7. CASE ReplayHandOver(h)
  <2>1. UNCHANGED <<leases, owner, turn>> /\ call' = [call EXCEPT ![h] = Idle]
    BY <1>7 DEF ReplayHandOver
  <2>2. \A g \in Handler : call'[g].pc = call[g].pc \/ call'[g].pc \notin Past
    BY <1>a, <2>1 DEF Past
  <2>3. CASE leases = {}  BY <2>1, <2>2, <2>3, BarrierFree
  <2>4. CASE leases # {}
    <3>1. turns' = turns  BY <1>7, <2>4 DEF ReplayHandOver
    <3> QED  BY <2>1, <2>2, <3>1, BarrierFrame
  <2> QED  BY <2>3, <2>4
<1> QED  BY <1>1, <1>2, <1>3, <1>4, <1>5, <1>6, <1>7

LEMMA NextBarrier == Shape /\ BarrierHeld /\ [Next]_vars => BarrierHeld'
<1> SUFFICES ASSUME Shape, BarrierHeld, [Next]_vars PROVE BarrierHeld'
  OBVIOUS
<1>1. CASE UNCHANGED vars
  BY <1>1 DEF vars, queue, BarrierHeld
<1> QED
  BY <1>1, RowsBarrier, ClearBarrier, QueueBarrier, ArriveBarrier, ResendBarriers DEF Next

-----------------------------------------------------------------------------
(* What the draft points at. *)

\* The steps that write rows.
LEMMA WritingSteps ==
  ASSUME [Next]_vars
  PROVE  \/ PostMessage \/ Edit \/ Reply
         \/ \E v \in DOMAIN renders : FinishRender(v)
         \/ \E blocking \in BOOLEAN : Ask(blocking)
         \/ \E d \in 1..Len(decisions) : Answer(d)
         \/ \E h \in Handler : (ClearCommit(h) /\ call[h].fresh) \/ ResendApply(h)
         \/ UNCHANGED <<messages, visible, checkpoints, versions, decisions, draft>>
<1> DEFINE Still == UNCHANGED <<messages, visible, checkpoints, versions, decisions, draft>>
<1>1. UNCHANGED vars => Still  BY DEF vars, rows
<1>2. RequestPreview \/ Take \/ EndTurn \/ (\E i \in handed : HandOver(i)) => Still
  BY DEF RequestPreview, Take, EndTurn, HandOver, rows
<1>3. ASSUME NEW h \in Handler,
             ClearIdle(h) \/ \E k \in Key, m \in 1..Len(messages) : Resend(h, k, m) \/ Replay(h, k, m)
      PROVE  Still
  BY <1>3 DEF ClearIdle, Resend, Replay, rows
<1>4. ASSUME NEW h \in Handler,
             \/ ResendBarrier(h) \/ ResendTimeout(h) \/ ResendDrained(h) \/ ResendRead(h)
             \/ ResendRefused(h) \/ ResendRelease(h) \/ ReplayHandOver(h)
      PROVE  Still
  BY <1>4 DEF ResendBarrier, ResendTimeout, ResendDrained, ResendRead, ResendRefused,
              ResendRelease, ReplayHandOver, rows
<1>5. ASSUME NEW h \in Handler, ClearCommit(h), ~ call[h].fresh PROVE Still
  BY <1>5 DEF ClearCommit
<1> HIDE DEF Still
<1>6. \/ PostMessage \/ Edit \/ Reply
      \/ \E v \in DOMAIN renders : FinishRender(v)
      \/ \E blocking \in BOOLEAN : Ask(blocking)
      \/ \E d \in 1..Len(decisions) : Answer(d)
      \/ \E h \in Handler : (ClearCommit(h) /\ call[h].fresh) \/ ResendApply(h)
      \/ Still
  BY <1>1, <1>2, <1>3, <1>4, <1>5 DEF Next
<1> QED  BY <1>6 DEF Still

\* A message is stored with what was shown when it was sent, and is shown.
LEMMA NewMessage ==
  ASSUME Shape, NEW role \in {"user", "reply", "reset"}, NEW key \in Key \cup {Nothing},
         messages' = Append(messages, Message(role, key))
  PROVE  LET m == Len(messages) + 1
         IN  /\ messages'[m].role = role /\ messages'[m].before = visible
             /\ messages'[m].document = Document(draft.current)
             /\ \A n \in 1..Len(messages) : messages'[n] = messages[n]
             /\ 1..Len(messages') = 1..Len(messages) \cup {m} /\ m \notin 1..Len(messages)
             /\ m \in Nat /\ visible \subseteq 1..Len(messages)
<1> USE DEF Shape
<1> DEFINE x == Message(role, key)
<1>1. /\ x \in MessageRow /\ x.before = visible /\ x.role = role
      /\ x.document = Document(draft.current)
  BY MessageType
<1> HIDE DEF x
<1>2. messages' = Append(messages, x)  BY DEF x
<1>3. /\ \A m \in 1..Len(messages) : messages'[m] = messages[m]
      /\ messages'[Len(messages) + 1] = x
      /\ 1..Len(messages') = 1..Len(messages) \cup {Len(messages) + 1}
      /\ Len(messages) \in Nat
  BY <1>1, <1>2, AppendedMessage
<1>4. Len(messages) + 1 \notin 1..Len(messages) /\ Len(messages) + 1 \in Nat  BY <1>3
<1> QED  BY <1>1, <1>3, <1>4 DEF TypeOK

\* A new card.
LEMMA NewCard ==
  ASSUME Shape, NEW blocking \in BOOLEAN, Ask(blocking)
  PROVE  LET d == Len(decisions) + 1
         IN  /\ \A k \in 1..Len(decisions) : decisions'[k] = decisions[k]
             /\ decisions'[d].status = "pending" /\ (blocking => decisions'[d].blocking)
             /\ decisions'[d].by = IF turn.kind = "user" THEN turn.id ELSE Nothing
             /\ Len(decisions') = Len(decisions) + 1 /\ Len(decisions) \in Nat
             /\ UNCHANGED <<messages, visible, checkpoints, versions, turns, overtaken>>
             /\ turn' = turn \/ turn' = NoTurn
<1> USE DEF Shape
<1> DEFINE by == IF turn.kind = "user" THEN turn.id ELSE Nothing
           x == [status |-> "pending", blocking |-> blocking, by |-> by]
<1>1. x \in DecisionRow
  <2>1. turn \in Turn  BY DEF TypeOK
  <2>2. by \in Nat  BY <2>1 DEF Turn, Nothing
  <2> HIDE DEF by
  <2> QED  BY <2>2 DEF DecisionRow
<1>2. /\ decisions' = Append(decisions, x) /\ (turn' = turn \/ turn' = NoTurn)
      /\ UNCHANGED <<messages, visible, checkpoints, versions, turns, overtaken>>
  BY DEF Ask
<1>3. x.status = "pending" /\ x.by = by  OBVIOUS
<1>4. blocking => x.blocking  BY Zenon
<1> HIDE DEF x
<1>5. /\ \A k \in 1..Len(decisions) : decisions'[k] = decisions[k]
      /\ decisions'[Len(decisions) + 1] = x /\ Len(decisions') = Len(decisions) + 1
      /\ Len(decisions) \in Nat
  BY <1>1, <1>2, AppendFacts, RowTypes DEF TypeOK
<1> QED  BY <1>2, <1>3, <1>4, <1>5

\* The answered card, and the others as they were.
LEMMA AnsweredCard ==
  ASSUME Shape, NEW d \in 1..Len(decisions), Answer(d)
  PROVE  /\ \A k \in 1..Len(decisions) : k # d => decisions'[k] = decisions[k]
         /\ Len(decisions') = Len(decisions)
         /\ draft' = Answered(d)
         /\ UNCHANGED <<messages, visible, checkpoints, versions, turns, turn, overtaken>>
<1> USE DEF Shape
<1>1. decisions' = [decisions EXCEPT ![d].status = "answered"]  BY DEF Answer
<1>2. SameCards(decisions')  BY ShapeAnswer
<1>3. \A k \in 1..Len(decisions) : k # d => decisions'[k] = decisions[k]
  BY <1>1 DEF TypeOK
<1> QED  BY <1>2, <1>3 DEF Answer, SameCards

\* A clear cancels every pending card and starts the context anew.
LEMMA ClearFacts ==
  ASSUME Shape, NEW h \in Handler, ClearCommit(h), call[h].fresh
  PROVE  LET m == Len(messages) + 1
         IN  /\ messages' = Append(messages, Message("reset", Nothing)) /\ visible' = visible \cup {m}
             /\ Len(decisions') = Len(decisions)
             /\ \A d \in 1..Len(decisions) : decisions'[d].status # "pending"
             /\ draft'.tail = m /\ draft'.pending = Nothing
             /\ draft'.current = draft.current /\ draft'.preview = draft.preview
             /\ UNCHANGED <<checkpoints, versions, turns, turn, overtaken>>
<1> USE DEF Shape
<1>1. /\ messages' = Append(messages, Message("reset", Nothing))
      /\ visible' = visible \cup {Len(messages) + 1}
      /\ decisions' = Cleared(decisions)
      /\ draft' = [draft EXCEPT !.tail = Len(messages) + 1, !.pending = Nothing]
      /\ UNCHANGED <<checkpoints, versions, turns, turn, overtaken>>
  BY DEF ClearCommit, queue
<1>2. /\ draft'.tail = Len(messages) + 1 /\ draft'.pending = Nothing
      /\ draft'.current = draft.current /\ draft'.preview = draft.preview
  <2> DEFINE m == Len(messages) + 1
  <2>1. draft \in DraftRow  BY DEF TypeOK
  <2>2. draft' = [draft EXCEPT !.tail = m, !.pending = Nothing]  BY <1>1
  <2> HIDE DEF m
  <2>3. draft'.tail = m /\ draft'.pending = Nothing
        /\ draft'.current = draft.current /\ draft'.preview = draft.preview
    BY <2>1, <2>2 DEF DraftRow
  <2> QED  BY <2>3 DEF m
<1>3. SameCards(decisions') /\ \A d \in 1..Len(decisions) : decisions'[d].status # "pending"
  <2> DEFINE Of == DOMAIN decisions
  <2>1. decisions' = [d \in DOMAIN decisions |->
           IF d \in Of /\ decisions[d].status = "pending"
           THEN [decisions[d] EXCEPT !.status = "cancelled"] ELSE decisions[d]]
    BY <1>1 DEF Cleared
  <2>2. \A d \in 1..Len(decisions) : d \in Of  BY DEF TypeOK
  <2> HIDE DEF Of
  <2> QED  BY <2>1, <2>2, CancelledCards
<1> QED  BY <1>1, <1>2, <1>3 DEF SameCards

\* The timeline and the worker move only their own pointers.
LEMMA PointerSteps ==
  ASSUME Shape, Edit \/ \E v \in DOMAIN renders : FinishRender(v)
  PROVE  /\ draft'.pending = draft.pending /\ draft'.tail = draft.tail
         /\ UNCHANGED <<messages, visible, checkpoints, decisions, turns, turn, overtaken>>
<1>1. draft \in DraftRow  BY DEF Shape, TypeOK
<1>2. \/ \E v : draft' = [draft EXCEPT !.current = v] 
      \/ \E v : draft' = [draft EXCEPT !.preview = v]
      \/ draft' = draft
  BY DEF Edit, FinishRender, Rendered
<1>3. UNCHANGED <<messages, visible, checkpoints, decisions, turns, turn, overtaken>>
  BY DEF Edit, FinishRender, queue
<1> QED  BY <1>1, <1>2, <1>3 DEF DraftRow

LEMMA InitPoints == Init => DraftPoints
BY DEF Init, DraftPoints, PendingAnswerable, ContextStartVisible, PreviewOfLineage

LEMMA NextPending == Shape /\ PendingAnswerable /\ [Next]_vars => PendingAnswerable'
<1> SUFFICES ASSUME Shape, PendingAnswerable, [Next]_vars, draft'.pending # Nothing
             PROVE  Pending(draft.pending)' /\ decisions'[draft'.pending].blocking
  BY DEF PendingAnswerable
<1> USE DEF Shape
<1> DEFINE p == draft.pending
<1>1. draft.pending # Nothing => /\ p \in 1..Len(decisions) /\ decisions[p].status = "pending"
                                 /\ decisions[p].blocking
  BY DEF PendingAnswerable, Pending
<1>2. ASSUME draft'.pending = p, Len(decisions') >= Len(decisions), decisions'[p].status = "pending",
             decisions[p].blocking => decisions'[p].blocking
      PROVE  Pending(draft.pending)' /\ decisions'[draft'.pending].blocking
  <2>1. p # Nothing  BY <1>2
  <2>2. p \in 1..Len(decisions')
    <3>1. Len(decisions) \in Nat /\ p \in 1..Len(decisions)  BY <1>1, <2>1 DEF TypeOK
    <3>2. Len(decisions') \in Nat  BY NextShape DEF TypeOK
    <3> HIDE DEF p
    <3> QED  BY <1>2, <3>1, <3>2
  <2>3. decisions'[p].blocking  BY <1>1, <1>2, <2>1, Zenon
  <2> QED  BY <1>2, <2>2, <2>3, Zenon DEF Pending
<1>3. CASE draft'.pending = draft.pending /\ decisions' = decisions
  <2>1. Len(decisions') >= Len(decisions)  BY <1>3 DEF TypeOK
  <2> QED  BY <1>1, <1>2, <1>3, <2>1, Zenon
<1>4. CASE \E blocking \in BOOLEAN : Ask(blocking)
  <2>1. PICK blocking \in BOOLEAN : Ask(blocking)  BY <1>4
  <2> DEFINE d == Len(decisions) + 1
  <2>2. /\ \A k \in 1..Len(decisions) : decisions'[k] = decisions[k]
        /\ decisions'[d].status = "pending" /\ (blocking => decisions'[d].blocking)
        /\ Len(decisions') = d /\ Len(decisions) \in Nat
    BY <2>1, NewCard
  <2>3. d \in Nat /\ d \in 1..Len(decisions') /\ Len(decisions') >= Len(decisions)
    BY <2>2
  <2>4. CASE blocking
    <3>1. draft' = [draft EXCEPT !.pending = d]  BY <2>1, <2>4 DEF Ask, Asked
    <3>2. draft'.pending = d
      <4>1. draft \in DraftRow  BY DEF TypeOK
      <4> HIDE DEF d
      <4> QED  BY <3>1, <4>1 DEF DraftRow
    <3> HIDE DEF d
    <3> QED  BY <2>2, <2>3, <2>4, <3>2, Zenon DEF Pending
  <2>5. CASE ~ blocking
    <3>1. draft' = draft  BY <2>1, <2>5 DEF Ask, Asked
    <3>2. p # Nothing  BY <3>1
    <3>3. decisions'[p] = decisions[p]  BY <1>1, <2>2, <3>2
    <3> HIDE DEF d, p
    <3>4. draft.pending = p  BY DEF p
    <3> QED  BY <1>1, <1>2, <2>3, <3>1, <3>2, <3>3, <3>4, Zenon
  <2> QED  BY <2>4, <2>5
<1>5. CASE \E d \in 1..Len(decisions) : Answer(d)
  <2>1. PICK d \in 1..Len(decisions) : Answer(d)  BY <1>5
  <2>2. /\ \A k \in 1..Len(decisions) : k # d => decisions'[k] = decisions[k]
        /\ Len(decisions') = Len(decisions) /\ draft' = Answered(d)
    BY <2>1, AnsweredCard
  <2>3. draft'.pending = IF p = d THEN Nothing ELSE p
    BY <2>2 DEF Answered, TypeOK, DraftRow
  <2>4. p # d /\ draft'.pending = p /\ p # Nothing  BY <2>3
  <2>5. decisions'[p] = decisions[p]  BY <1>1, <2>2, <2>4
  <2>6. Len(decisions') >= Len(decisions)  BY <2>2 DEF TypeOK
  <2> QED  BY <1>1, <1>2, <2>4, <2>5, <2>6, Zenon
<1>6. ASSUME NEW h \in Handler, ResendApply(h)
      PROVE  Pending(draft.pending)' /\ decisions'[draft'.pending].blocking
  <2>1. PICK i \in 1..Len(checkpoints) : ApplyStores(h, i)
    BY <1>6, ApplyFacts
  <2> DEFINE point == checkpoints[i]
  <2>2. /\ draft' = RestoredDraft(point, call[h].version) /\ call[h].version = Len(versions) + 1
        /\ SameCards(decisions')
        /\ \A d \in 1..Len(decisions) :
             decisions'[d].status = "pending" <=>
               decisions[d].status = "pending" /\ ~ (d > point.boundary)
    BY <2>1 DEF ApplyStores
  <2>3. call[h].version \in Nat  BY <2>2, RowTypes
  <2>4. draft'.pending = IF p \in Dropped(point) THEN Nothing ELSE p
    BY <2>2, <2>3, RestoredDraftFacts
  <2>5. p \notin Dropped(point) /\ draft'.pending = p /\ p # Nothing  BY <2>4
  <2>6. p \in 1..Len(decisions) /\ decisions[p].status = "pending"
    BY <1>1, <2>5
  <2>7. ~ (p > point.boundary)  BY <2>5, <2>6 DEF Dropped
  <2>8. decisions'[p].status = "pending" /\ decisions'[p].blocking = decisions[p].blocking
    BY <2>2, <2>6, <2>7, Zenon DEF SameCards
  <2>9. Len(decisions') >= Len(decisions)  BY <2>2 DEF SameCards, TypeOK
  <2> QED  BY <1>2, <2>5, <2>8, <2>9, Zenon
<1>7. PostMessage \/ Reply => draft' = draft /\ decisions' = decisions
  BY DEF PostMessage, Reply
<1>8. ASSUME NEW h \in Handler, ClearCommit(h), call[h].fresh PROVE FALSE
  <2>1. draft'.pending = Nothing  BY <1>8, ClearFacts
  <2> QED  BY <2>1
<1> QED  BY <1>3, <1>4, <1>5, <1>6, <1>7, <1>8, WritingSteps, PointerSteps

LEMMA NextStart == Shape /\ ContextStartVisible /\ [Next]_vars => ContextStartVisible'
<1> SUFFICES ASSUME Shape, ContextStartVisible, [Next]_vars, draft'.tail # Nothing
             PROVE  draft'.tail \in visible' /\ messages'[draft'.tail].role = "reset"
  BY DEF ContextStartVisible
<1> USE DEF Shape
<1> DEFINE t == draft.tail
<1>1. t # Nothing => t \in visible /\ messages[t].role = "reset" /\ t \in 1..Len(messages)
  BY DEF ContextStartVisible, TypeOK
<1>2. CASE draft'.tail = t /\ UNCHANGED <<messages, visible>>
  BY <1>1, <1>2
<1>3. CASE PostMessage \/ Reply
  <2>1. /\ draft' = draft /\ visible \subseteq visible'
        /\ \E role \in {"user", "reply"} : messages' = Append(messages, Message(role, Nothing))
    BY <1>3 DEF PostMessage, Reply
  <2>2. \A n \in 1..Len(messages) : messages'[n] = messages[n]
    BY <2>1, NewMessage
  <2> QED  BY <1>1, <2>1, <2>2
<1>4. ASSUME NEW h \in Handler, ClearCommit(h), call[h].fresh
      PROVE  draft'.tail \in visible' /\ messages'[draft'.tail].role = "reset"
  <2> DEFINE m == Len(messages) + 1
  <2>1. /\ messages' = Append(messages, Message("reset", Nothing))
        /\ visible' = visible \cup {m} /\ draft'.tail = m
    BY <1>4, ClearFacts
  <2>2. messages'[m].role = "reset"  BY <2>1, NewMessage
  <2> QED  BY <2>1, <2>2
<1>5. ASSUME NEW h \in Handler, ResendApply(h)
      PROVE  draft'.tail \in visible' /\ messages'[draft'.tail].role = "reset"
  <2>1. PICK i \in 1..Len(checkpoints) : ApplyStores(h, i)
    BY <1>5, ApplyFacts
  <2> DEFINE point == checkpoints[i]
             x == Rewritten(call[h])
  <2>2. /\ draft' = RestoredDraft(point, call[h].version) /\ call[h].version = Len(versions) + 1
        /\ visible' = point.shown \cup {Len(messages) + 1}
        /\ messages' = Append(messages, x) /\ x \in MessageRow
    BY <2>1 DEF ApplyStores
  <2>3. call[h].version \in Nat  BY <2>2, RowTypes
  <2>4. draft'.tail = IF t \in point.shown THEN t ELSE Nothing
    BY <2>2, <2>3, RestoredDraftFacts
  <2>5. t \in point.shown /\ draft'.tail = t /\ t # Nothing  BY <2>4
  <2> HIDE DEF x
  <2>6. \A n \in 1..Len(messages) : messages'[n] = messages[n]
    BY <2>2, AppendedMessage
  <2> QED  BY <1>1, <2>2, <2>5, <2>6
<1>6. (\E blocking \in BOOLEAN : Ask(blocking)) \/ (\E d \in 1..Len(decisions) : Answer(d))
        => draft'.tail = t /\ UNCHANGED <<messages, visible>>
  BY DEF Ask, Asked, Answer, Answered, TypeOK, DraftRow
<1> QED  BY <1>2, <1>3, <1>4, <1>5, <1>6, WritingSteps, PointerSteps

\* A version more: what the old current one was made from, the new one is made from too.
LEMMA LineageGrows ==
  ASSUME Shape, Edit, NEW n \in Lineage(draft.current)
  PROVE  n \in Lineage(draft.current)'
<1> USE DEF Shape
<1> DEFINE v == Len(versions) + 1
           old == draft.current
           row == [parent |-> old, document |-> v]
<1>1. draft \in DraftRow /\ Len(versions) \in Nat /\ old \in Nat /\ old <= Len(versions)
  BY DEF TypeOK, DraftRow, InRange
<1>2. row \in VersionRow /\ row.parent = old  BY <1>1 DEF VersionRow
<1>3. versions' = Append(versions, row) /\ draft' = [draft EXCEPT !.current = v]
  BY DEF Edit
<1> HIDE DEF row
<1>4. /\ Len(versions') = v /\ versions'[v] = row
      /\ \A k \in 1..Len(versions) : versions'[k] = versions[k]
  BY <1>2, <1>3, AppendFacts DEF TypeOK
<1>5. draft'.current = v
  <2> HIDE DEF v
  <2> QED  BY <1>1, <1>3 DEF DraftRow
<1>6. n \in 1..Len(versions)  BY DEF Lineage
<1>7. ASSUME NEW S \in SUBSET (0..Len(versions')), v \in S, ClosedUpwards(S)'
      PROVE  n \in S
  <2> DEFINE T == S \cap (0..Len(versions))
  <2>1. \A k \in S \ {Nothing} : versions'[k].parent \in S  BY <1>7 DEF ClosedUpwards
  <2>2. v # Nothing /\ old \in 0..Len(versions)  BY <1>1 DEF Nothing
  <2>3. old \in T  BY <1>2, <1>4, <1>7, <2>1, <2>2
  <2>4. ASSUME NEW k \in T \ {Nothing} PROVE versions[k].parent \in T
    <3>1. k \in 1..Len(versions)  BY <1>1 DEF Nothing
    <3>2. versions[k].parent \in S  BY <1>4, <2>1, <3>1
    <3>3. versions[k].parent < k /\ versions[k].parent \in Nat  BY <3>1, RowTypes DEF InRange
    <3> QED  BY <1>1, <3>1, <3>2, <3>3
  <2>5. ClosedUpwards(T)  BY <2>4 DEF ClosedUpwards
  <2>6. T \in SUBSET (0..Len(versions))  OBVIOUS
  <2> HIDE DEF T
  <2>7. n \in T  BY <2>3, <2>5, <2>6 DEF Lineage
  <2> QED  BY <2>7 DEF T
<1>8. n \in 1..Len(versions')  BY <1>1, <1>4, <1>6
<1> HIDE DEF v
<1> QED  BY <1>5, <1>7, <1>8 DEF Lineage

LEMMA SameLineage ==
  ASSUME versions' = versions, draft'.current = draft.current
  PROVE  Lineage(draft.current)' = Lineage(draft.current)
BY DEF Lineage, ClosedUpwards

LEMMA OwnLineage ==
  ASSUME NEW v \in 1..Len(versions)
  PROVE  v \in Lineage(v)
BY DEF Lineage

LEMMA NextPreview == Shape /\ PreviewOfLineage /\ [Next]_vars => PreviewOfLineage'
<1> SUFFICES ASSUME Shape, PreviewOfLineage, [Next]_vars, draft'.preview # Nothing
             PROVE  draft'.preview \in Lineage(draft.current)'
  BY DEF PreviewOfLineage
<1> USE DEF Shape
<1>0. draft \in DraftRow  BY DEF TypeOK
<1>1. draft.preview # Nothing => draft.preview \in Lineage(draft.current)
  BY DEF PreviewOfLineage
<1>2. CASE /\ draft'.preview = draft.preview /\ draft'.current = draft.current
           /\ versions' = versions
  BY <1>1, <1>2, SameLineage
<1>3. CASE Edit
  <2>1. draft'.preview = draft.preview  BY <1>0, <1>3 DEF Edit, DraftRow
  <2> QED  BY <1>1, <1>3, <2>1, LineageGrows
<1>4. ASSUME NEW v \in DOMAIN renders, FinishRender(v)
      PROVE  draft'.preview \in Lineage(draft.current)'
  <2>1. versions' = versions /\ draft' = Rendered(v)  BY <1>4 DEF FinishRender
  <2>2. CASE v = draft.current
    <3>1. draft'.preview = v /\ draft'.current = v
      BY <1>0, <2>1, <2>2 DEF Rendered, DraftRow
    <3>2. v \in 1..Len(versions)  BY DEF TypeOK
    <3>3. Lineage(draft.current)' = Lineage(v)  BY <2>1, <2>2, <3>1, SameLineage
    <3> QED  BY <3>1, <3>2, <3>3, OwnLineage
  <2>3. CASE v # draft.current
    BY <1>2, <2>1, <2>3 DEF Rendered
  <2> QED  BY <2>2, <2>3
<1>5. ASSUME NEW h \in Handler, ResendApply(h)
      PROVE  draft'.preview \in Lineage(draft.current)'
  <2>1. PICK i \in 1..Len(checkpoints) : ApplyStores(h, i)
    BY <1>5, ApplyFacts
  <2> DEFINE point == checkpoints[i]
  <2>2. /\ draft' = RestoredDraft(point, call[h].version) /\ call[h].version = Len(versions) + 1
        /\ Restoring(point, versions')
    BY <2>1 DEF ApplyStores
  <2>3. call[h].version \in Nat  BY <2>2, RowTypes
  <2>4. /\ draft'.current = IF point.version = Nothing THEN draft.current ELSE call[h].version
        /\ draft'.preview = IF point.version = Nothing THEN draft.preview ELSE Nothing
    BY <2>2, <2>3, RestoredDraftFacts
  <2>5. point.version = Nothing  BY <2>4
  <2>6. versions' = versions  BY <2>2, <2>5 DEF Restoring, Nothing
  <2> QED  BY <1>2, <2>4, <2>5, <2>6
<1>6. PostMessage \/ Reply => draft' = draft /\ versions' = versions
  BY DEF PostMessage, Reply
<1>7. (\E blocking \in BOOLEAN : Ask(blocking)) \/ (\E d \in 1..Len(decisions) : Answer(d))
        => /\ draft'.preview = draft.preview /\ draft'.current = draft.current
           /\ versions' = versions
  BY <1>0 DEF Ask, Asked, Answer, Answered, DraftRow
<1>8. ASSUME NEW h \in Handler, ClearCommit(h), call[h].fresh
      PROVE  /\ draft'.preview = draft.preview /\ draft'.current = draft.current
             /\ versions' = versions
  BY <1>8, ClearFacts
<1> QED  BY <1>2, <1>3, <1>4, <1>5, <1>6, <1>7, <1>8, WritingSteps

-----------------------------------------------------------------------------
(* What is shown together was shown together. *)

\* A row of a checkpoint tells the truth about the message it is of.
TrueOf(q, ms, vs) ==
  q.kind = "user_message" =>
    /\ q.shown = ms[q.anchor].before
    /\ (IF q.version = Nothing THEN Nothing ELSE vs[q.version].document) = ms[q.anchor].document

LEMMA TrueRows ==
  /\ CheckpointsTrue <=> \A i \in 1..Len(checkpoints) : TrueOf(checkpoints[i], messages, versions)
  /\ CheckpointsTrue' <=> \A i \in 1..Len(checkpoints') : TrueOf(checkpoints'[i], messages', versions')
<1>1. CheckpointsTrue <=> \A i \in 1..Len(checkpoints) : TrueOf(checkpoints[i], messages, versions)
  BY DEF CheckpointsTrue, TrueOf, Document
<1>2. CheckpointsTrue' <=> \A i \in 1..Len(checkpoints') : TrueOf(checkpoints'[i], messages', versions')
  BY DEF CheckpointsTrue, TrueOf, Document
<1> QED  BY <1>1, <1>2

\* It stays true, for rows of messages and versions stay as they are.
LEMMA StillTrue ==
  ASSUME Shape, CheckpointsTrue, NEW n \in 1..Len(checkpoints),
         \A m \in 1..Len(messages) : messages'[m] = messages[m],
         \A v \in 1..Len(versions) : versions'[v] = versions[v]
  PROVE  TrueOf(checkpoints[n], messages', versions')
<1> DEFINE q == checkpoints[n]
<1>1. TrueOf(q, messages, versions)  BY TrueRows
<1>2. q.anchor \in 1..Len(messages)  BY DEF Shape, InRange
<1>3. q.version = Nothing \/ q.version \in 1..Len(versions)
  BY RowTypes DEF Shape, InRange, Nothing
<1> HIDE DEF q
<1>4. TrueOf(q, messages', versions')  BY <1>1, <1>2, <1>3 DEF TrueOf
<1> QED  BY <1>4 DEF q

Nests == CheckpointsTrue /\ BeforeNests /\ RewindsNest

LEMMA InitNests == Init => Nests
BY DEF Init, Nests, CheckpointsTrue, BeforeNests, RewindsNest

\* A message that is stored with all that is shown.
LEMMA NestsAppended ==
  ASSUME Shape, Nests, NEW role \in {"user", "reply", "reset"},
         messages' = Append(messages, Message(role, Nothing)),
         visible' = visible \cup {Len(messages) + 1}
  PROVE  BeforeNests' /\ RewindsNest'
<1> DEFINE m == Len(messages) + 1
<1>1. /\ messages'[m].before = visible
      /\ \A n \in 1..Len(messages) : messages'[n] = messages[n]
      /\ 1..Len(messages') = 1..Len(messages) \cup {m}
      /\ visible \subseteq 1..Len(messages)
  BY NewMessage
<1>2. \A n \in 1..Len(messages) : messages[n].before \subseteq 1..Len(messages)
  BY DEF Shape, InRange
<1>3. visible' = visible \cup {m}  OBVIOUS
<1> HIDE DEF m
<1>4. BeforeNests'  BY <1>1, <1>2 DEF BeforeNests, RewindsNest, Nests
<1>5. RewindsNest'  BY <1>1, <1>3 DEF RewindsNest, Nests
<1> QED  BY <1>4, <1>5

\* X' of a resend stands where X stood: before it what was before X, and the timeline as it was.
LEMMA RewrittenFacts ==
  ASSUME Shape, CheckpointsTrue, NEW h \in Handler, NEW i \in 1..Len(checkpoints), ApplyStores(h, i)
  PROVE  LET new == Len(messages) + 1
             point == checkpoints[i]
             x == messages[call[h].target]
             now == IF draft'.current = Nothing THEN Nothing ELSE versions'[draft'.current].document
         IN  /\ \A n \in 1..Len(messages) : messages'[n] = messages[n]
             /\ 1..Len(messages') = 1..Len(messages) \cup {new} /\ new \notin 1..Len(messages)
             /\ \A v \in 1..Len(versions) : versions'[v] = versions[v]
             /\ point.shown = x.before /\ x.before \subseteq 1..Len(messages)
             /\ call[h].target \in 1..Len(messages)
             /\ visible' = x.before \cup {new}
             /\ messages'[new].before = x.before /\ messages'[new].document = now
             /\ x.document # Nothing => draft'.current # Nothing /\ now = x.document
<1> USE DEF Shape
<1> DEFINE new == Len(messages) + 1
           point == checkpoints[i]
           target == call[h].target
           x == messages[target]
           row == Rewritten(call[h])
<1>1. /\ point.kind = "user_message" /\ point.anchor = target /\ target \in 1..Len(messages)
      /\ call[h].version = Len(versions) + 1
      /\ Restoring(point, versions') /\ draft' = RestoredDraft(point, call[h].version)
      /\ messages' = Append(messages, row) /\ row \in MessageRow
      /\ row.before = x.before
      /\ row.document = IF x.document = Nothing THEN Document(draft.current) ELSE x.document
      /\ visible' = point.shown \cup {new}
  BY DEF ApplyStores
<1>2. /\ point.shown = x.before
      /\ (IF point.version = Nothing THEN Nothing ELSE versions[point.version].document) = x.document
  <2>1. TrueOf(point, messages, versions)  BY TrueRows
  <2> HIDE DEF point, target
  <2> QED  BY <1>1, <2>1 DEF TrueOf
<1>3. draft'.current = IF point.version = Nothing THEN draft.current ELSE Len(versions) + 1
  <2>1. call[h].version \in Nat  BY <1>1, RowTypes
  <2> QED  BY <1>1, <2>1, RestoredDraftFacts
<1>4. x.before \subseteq 1..Len(messages)  BY <1>1 DEF InRange
<1> HIDE DEF row
<1>5. /\ \A n \in 1..Len(messages) : messages'[n] = messages[n] /\ messages'[new] = row
      /\ 1..Len(messages') = 1..Len(messages) \cup {new} /\ new \notin 1..Len(messages)
  <2>1. Len(messages) \in Nat  BY RowTypes
  <2> QED  BY <1>1, <2>1, AppendedMessage
<1>6. messages'[new] = row
  BY <1>1, AppendedMessage
<1> DEFINE now == IF draft'.current = Nothing THEN Nothing ELSE versions'[draft'.current].document
<1>7. /\ \A v \in 1..Len(versions) : versions'[v] = versions[v]
      /\ row.document = now
      /\ x.document # Nothing => draft'.current # Nothing /\ now = x.document
  <2> HIDE DEF x, point, target
  <2>1. CASE point.version = Nothing
    <3>1. versions' = versions  BY <1>1, <2>1 DEF Restoring, Nothing
    <3>2. x.document = Nothing /\ draft'.current = draft.current  BY <1>2, <1>3, <2>1
    <3> QED  BY <1>1, <3>1, <3>2 DEF Document
  <2>2. CASE point.version # Nothing
    <3>1. /\ \A v \in 1..Len(versions) : versions'[v] = versions[v]
          /\ versions'[Len(versions) + 1].document = Document(point.version)
          /\ Document(point.version) > 0
      BY <1>1, <2>2 DEF Restoring
    <3>2. Document(point.version) = x.document  BY <1>2, <2>2 DEF Document
    <3>3. x.document # Nothing  BY <3>1, <3>2 DEF Nothing
    <3>4. Len(versions) + 1 # Nothing  BY RowTypes DEF Nothing
    <3>5. now = x.document  BY <1>3, <2>2, <3>1, <3>2, <3>4
    <3>6. row.document = x.document  BY <1>1, <3>3
    <3> HIDE DEF now
    <3> QED  BY <1>3, <2>2, <3>1, <3>4, <3>5, <3>6
  <2> QED  BY <2>1, <2>2
<1> HIDE DEF now, x, point, target
<1>8. visible' = x.before \cup {new}  BY <1>1, <1>2
<1>9. messages'[new].before = x.before /\ messages'[new].document = now  BY <1>1, <1>6, <1>7
<1> QED  BY <1>1, <1>2, <1>4, <1>5, <1>7, <1>8, <1>9 DEF now, x, point, target

LEMMA NextNests == Shape /\ Nests /\ [Next]_vars => Nests'
<1> SUFFICES ASSUME Shape, Nests, [Next]_vars PROVE Nests'
  OBVIOUS
<1>0. CheckpointsTrue /\ BeforeNests /\ RewindsNest  BY DEF Nests
<1>1. CASE UNCHANGED <<messages, visible, checkpoints, versions, decisions, draft>>
  BY <1>1 DEF Nests, CheckpointsTrue, Document, BeforeNests, RewindsNest
<1>2. CASE PostMessage
  <2> DEFINE m == Len(messages) + 1
  <2>1. /\ messages' = Append(messages, Message("user", Nothing)) /\ visible' = visible \cup {m}
        /\ checkpoints' = Recorded(checkpoints, "user_message", m, draft.current, visible')
        /\ versions' = versions
    BY <1>2 DEF PostMessage
  <2>2. BeforeNests' /\ RewindsNest'  BY <2>1, NestsAppended
  <2>3. /\ messages'[m].before = visible /\ messages'[m].document = Document(draft.current)
        /\ \A n \in 1..Len(messages) : messages'[n] = messages[n]
        /\ m \in Nat /\ m \notin visible /\ visible \subseteq 1..Len(messages)
    BY <2>1, NewMessage
  <2> HIDE DEF m
  <2> DEFINE new == NewPoint("user_message", m, draft.current, visible')
  <2>4. visible' \in SUBSET Nat /\ TypeOK
    <3>1. Len(messages) \in Nat  BY DEF Shape, TypeOK
    <3> QED  BY <2>1, <2>3, <3>1 DEF Shape
  <2>a. m \in Nat  BY <2>3
  <2>b. checkpoints' = Recorded(checkpoints, "user_message", m, draft.current, visible')  BY <2>1
  <2>5. \A i \in 1..Len(checkpoints') :
           checkpoints'[i] = new \/ \E k \in 1..Len(checkpoints) : checkpoints'[i] = checkpoints[k]
    BY <2>a, <2>b, <2>4, PostedRows
  <2>6. /\ new.kind = "user_message" /\ new.anchor = m /\ new.version = draft.current
        /\ new.shown = visible
    <3>1. visible' \ {m} = visible  BY <2>1, <2>3
    <3>2. /\ new.kind = "user_message" /\ new.anchor = m /\ new.version = draft.current
          /\ new.shown = visible' \ {m}
      BY DEF NewPoint
    <3> HIDE DEF new
    <3> QED  BY <3>1, <3>2
  <2> HIDE DEF new
  <2>7. TrueOf(new, messages', versions')
    BY <2>1, <2>3, <2>6 DEF TrueOf, Document
  <2>c. \A k \in 1..Len(checkpoints) : TrueOf(checkpoints[k], messages', versions')
    <3>1. \A v \in 1..Len(versions) : versions'[v] = versions[v]  BY <2>1
    <3>2. \A n \in 1..Len(messages) : messages'[n] = messages[n]  BY <2>3
    <3> QED  BY <1>0, <3>1, <3>2, StillTrue
  <2>8. \A i \in 1..Len(checkpoints') : TrueOf(checkpoints'[i], messages', versions')
    BY <2>5, <2>7, <2>c
  <2> QED  BY <2>2, <2>8, TrueRows DEF Nests
<1>3. CASE Reply \/ \E h \in Handler : ClearCommit(h) /\ call[h].fresh
  <2>1. \E role \in {"reply", "reset"} :
           /\ messages' = Append(messages, Message(role, Nothing))
           /\ visible' = visible \cup {Len(messages) + 1}
           /\ UNCHANGED <<checkpoints, versions>>
    BY <1>3, ClearFacts DEF Reply
  <2>2. BeforeNests' /\ RewindsNest'  BY <2>1, NestsAppended
  <2>3. \A n \in 1..Len(messages) : messages'[n] = messages[n]
    BY <2>1, NewMessage
  <2>4. \A i \in 1..Len(checkpoints') : TrueOf(checkpoints'[i], messages', versions')
    BY <1>0, <2>1, <2>3, StillTrue
  <2> QED  BY <2>2, <2>4, TrueRows DEF Nests
<1>4. CASE Edit
  <2>1. versions' = Append(versions, [parent |-> draft.current, document |-> Len(versions) + 1])
        /\ UNCHANGED <<messages, visible, checkpoints>>
    BY <1>4 DEF Edit
  <2>2. \A v \in 1..Len(versions) : versions'[v] = versions[v]
    <3> DEFINE row == [parent |-> draft.current, document |-> Len(versions) + 1]
    <3>1. row \in VersionRow
      <4>1. Len(versions) + 1 \in Nat /\ draft.current \in Nat
        BY RowTypes DEF Shape, TypeOK, DraftRow
      <4> QED  BY <4>1 DEF VersionRow
    <3>2. versions \in Seq(VersionRow) /\ versions' = Append(versions, row)  BY <2>1 DEF Shape, TypeOK
    <3> HIDE DEF row
    <3> QED  BY <3>1, <3>2, AppendFacts
  <2>3. \A i \in 1..Len(checkpoints') : TrueOf(checkpoints'[i], messages', versions')
    BY <1>0, <2>1, <2>2, StillTrue
  <2>4. BeforeNests' /\ RewindsNest'  BY <1>0, <2>1 DEF BeforeNests, RewindsNest
  <2> QED  BY <2>3, <2>4, TrueRows DEF Nests
<1>5. CASE \/ \E v \in DOMAIN renders : FinishRender(v)
           \/ \E blocking \in BOOLEAN : Ask(blocking)
           \/ \E d \in 1..Len(decisions) : Answer(d)
  <2>1. UNCHANGED <<messages, visible, checkpoints, versions>>
    BY <1>5 DEF FinishRender, Ask, Answer
  <2> QED  BY <1>0, <2>1 DEF Nests, CheckpointsTrue, Document, BeforeNests, RewindsNest
<1>6. ASSUME NEW h \in Handler, ResendApply(h) PROVE Nests'
  <2>1. PICK i \in 1..Len(checkpoints) : ApplyStores(h, i)
    BY <1>6, ApplyFacts
  <2> DEFINE new == Len(messages) + 1
             point == checkpoints[i]
             x == messages[call[h].target]
             now == IF draft'.current = Nothing THEN Nothing ELSE versions'[draft'.current].document
  <2>2. /\ \A n \in 1..Len(messages) : messages'[n] = messages[n]
        /\ 1..Len(messages') = 1..Len(messages) \cup {new} /\ new \notin 1..Len(messages)
        /\ \A v \in 1..Len(versions) : versions'[v] = versions[v]
        /\ point.shown = x.before /\ x.before \subseteq 1..Len(messages)
        /\ call[h].target \in 1..Len(messages)
        /\ visible' = x.before \cup {new}
        /\ messages'[new].before = x.before /\ messages'[new].document = now
    BY <1>0, <2>1, RewrittenFacts
  <2>3. ASSUME NEW k \in 1..Len(checkpoints')
        PROVE  TrueOf(checkpoints'[k], messages', versions')
    <3> DEFINE q == checkpoints'[k]
    <3>1. \/ \E n \in 1..Len(checkpoints) : q = checkpoints[n]
          \/ q.kind = "restore"
          \/ /\ q.kind = "user_message" /\ q.anchor = new /\ q.version = draft'.current
             /\ q.shown = point.shown
      BY <2>1, ApplyPoints
    <3>2. CASE \E n \in 1..Len(checkpoints) : q = checkpoints[n]
      <4>1. PICK n \in 1..Len(checkpoints) : q = checkpoints[n]  BY <3>2
      <4>2. TrueOf(checkpoints[n], messages', versions')  BY <1>0, <2>2, StillTrue
      <4> QED  BY <4>1, <4>2
    <3> HIDE DEF q
    <3>3. CASE q.kind = "restore"  BY <3>3 DEF TrueOf, q
    <3> HIDE DEF x, point, new
    <3>4. CASE /\ q.kind = "user_message" /\ q.anchor = new /\ q.version = draft'.current
               /\ q.shown = point.shown
      BY <2>2, <3>4 DEF TrueOf, q
    <3> QED  BY <3>1, <3>2, <3>3, <3>4
  <2> HIDE DEF now, point, new
  <2>4. \A m \in 1..Len(messages) : messages[m].before \subseteq 1..Len(messages)
    BY DEF Shape, InRange
  <2>5. \A n \in x.before : messages[n].before \subseteq x.before
    BY <1>0, <2>2 DEF BeforeNests
  <2> HIDE DEF x
  <2>6. BeforeNests'
    <3>1. ASSUME NEW m \in 1..Len(messages)
          PROVE  \A n \in messages'[m].before : messages'[n].before \subseteq messages'[m].before
      <4>1. messages'[m] = messages[m]  BY <2>2
      <4>2. \A n \in messages[m].before : messages'[n] = messages[n]  BY <2>2, <2>4
      <4> QED  BY <1>0, <4>1, <4>2 DEF BeforeNests
    <3>2. \A n \in messages'[new].before : messages'[n].before \subseteq messages'[new].before
      <4>1. messages'[new].before = x.before  BY <2>2
      <4>2. \A n \in x.before : messages'[n] = messages[n]  BY <2>2
      <4> QED  BY <2>5, <4>1, <4>2
    <3> QED  BY <2>2, <3>1, <3>2 DEF BeforeNests
  <2>7. RewindsNest'  BY <2>2, <2>5 DEF RewindsNest
  <2> QED  BY <2>3, <2>6, <2>7, TrueRows DEF Nests
<1> QED  BY <1>1, <1>2, <1>3, <1>4, <1>5, <1>6, WritingSteps

-----------------------------------------------------------------------------
(* Turns and questions belong to messages that are shown. *)

Belongs == TurnsBelong /\ BoundariesBelong /\ QuestionsBelong

LEMMA InitBelongs == Init => Belongs
BY DEF Init, Belongs, TurnsBelong, BoundariesBelong, QuestionsBelong, NoTurn

LEMMA OvertakenGrows == [Next]_vars => overtaken \subseteq overtaken'
<1>1. UNCHANGED vars => overtaken' = overtaken  BY DEF vars, queue
<1>2. \/ PostMessage \/ Take \/ Edit \/ RequestPreview \/ Reply \/ EndTurn
      \/ \E v \in DOMAIN renders : FinishRender(v)
      \/ \E blocking \in BOOLEAN : Ask(blocking)
      \/ \E d \in 1..Len(decisions) : Answer(d)
      => overtaken' = overtaken
  BY DEF PostMessage, Take, Edit, RequestPreview, Reply, EndTurn, FinishRender, Ask, Answer, queue
<1>3. (\E i \in handed : HandOver(i)) => overtaken \subseteq overtaken'
  BY DEF HandOver, Enqueued
<1>4. ASSUME NEW h \in Handler,
             \/ ClearIdle(h) \/ ClearCommit(h)
             \/ \E k \in Key, m \in 1..Len(messages) : Resend(h, k, m) \/ Replay(h, k, m)
             \/ ResendBarrier(h) \/ ResendTimeout(h) \/ ResendDrained(h) \/ ResendRead(h)
             \/ ResendApply(h) \/ ResendRefused(h) \/ ResendRelease(h)
      PROVE  overtaken' = overtaken
  BY <1>4 DEF ClearIdle, ClearCommit, Resend, Replay, ResendBarrier, ResendTimeout, ResendDrained,
              ResendRead, ResendApply, Apply, ResendRefused, ResendRelease, queue
<1>5. ASSUME NEW h \in Handler, ReplayHandOver(h) PROVE overtaken \subseteq overtaken'
  BY <1>5 DEF ReplayHandOver, Enqueued
<1> QED  BY <1>1, <1>2, <1>3, <1>4, <1>5 DEF Next

\* Messages stay shown, and no turn comes in.
LEMMA TurnsFrame ==
  ASSUME TypeOK, TurnsBelong, visible \subseteq visible', overtaken \subseteq overtaken',
         turn' = turn \/ turn' = NoTurn, turns' = turns \/ turns' = <<>>
  PROVE  TurnsBelong'
BY DEF TurnsBelong, NoTurn

\* A turn that enters the queue is of a message that is shown, or is marked.
LEMMA TurnEnters ==
  ASSUME TypeOK, TurnsBelong, NEW t \in Turn, Enqueued(t), UNCHANGED <<visible, turn>>
  PROVE  TurnsBelong'
<1>1. turns \in Seq(Turn) /\ turns' = Append(turns, t) /\ overtaken \subseteq overtaken'
      /\ (t.kind = "user" => t.id \in visible \cup overtaken')
  BY DEF Enqueued, TypeOK
<1>2. /\ Len(turns') = Len(turns) + 1 /\ turns'[Len(turns) + 1] = t /\ Len(turns) \in Nat
      /\ \A i \in 1..Len(turns) : turns'[i] = turns[i]
  BY <1>1, AppendFacts
<1>3. \A i \in 1..Len(turns') : i \in 1..Len(turns) \/ i = Len(turns) + 1
  BY <1>2
<1> QED  BY <1>1, <1>2, <1>3 DEF TurnsBelong

LEMMA NextTurns == Shape /\ BarrierHeld /\ TurnsBelong /\ [Next]_vars => TurnsBelong'
<1> SUFFICES ASSUME Shape, BarrierHeld, TurnsBelong, [Next]_vars PROVE TurnsBelong'
  OBVIOUS
<1> USE DEF Shape
<1>0. overtaken \subseteq overtaken'  BY OvertakenGrows
<1>1. CASE UNCHANGED vars
  BY <1>1 DEF vars, rows, queue, TurnsBelong
<1>2. CASE \/ PostMessage \/ Edit \/ RequestPreview \/ Reply \/ EndTurn
           \/ \E v \in DOMAIN renders : FinishRender(v)
           \/ \E blocking \in BOOLEAN : Ask(blocking)
           \/ \E d \in 1..Len(decisions) : Answer(d)
  <2>1. visible \subseteq visible' /\ turns' = turns /\ (turn' = turn \/ turn' = NoTurn)
    BY <1>2 DEF PostMessage, Edit, RequestPreview, Reply, EndTurn, FinishRender, Ask, Answer, queue, rows
  <2> QED  BY <1>0, <2>1, TurnsFrame
<1>3. CASE Take
  <2>1. /\ turns \in Seq(Turn) /\ turns # <<>> /\ turn' = Head(turns) /\ turns' = Tail(turns)
        /\ UNCHANGED <<visible, overtaken>>
    BY <1>3 DEF Take, TypeOK, rows
  <2>2. /\ Head(turns) = turns[1] /\ 1 \in 1..Len(turns)
        /\ \A i \in 1..Len(Tail(turns)) : Tail(turns)[i] = turns[i + 1] /\ i + 1 \in 1..Len(turns)
    BY <2>1
  <2> QED  BY <2>1, <2>2 DEF TurnsBelong
<1>4. ASSUME NEW t \in handed, HandOver(t) PROVE TurnsBelong'
  <2>1. t \in Turn /\ UNCHANGED <<visible, turn>>  BY <1>4 DEF HandOver, TypeOK, rows
  <2>2. CASE leases = {}
    <3>1. Enqueued(t)  BY <1>4, <2>2 DEF HandOver
    <3> QED  BY <2>1, <3>1, TurnEnters
  <2>3. CASE leases # {}
    <3>1. turns' = turns  BY <1>4, <2>3 DEF HandOver
    <3> QED  BY <1>0, <2>1, <3>1, TurnsFrame
  <2> QED  BY <2>2, <2>3
<1>5. ASSUME NEW h \in Handler,
             \/ ClearIdle(h) \/ ClearCommit(h)
             \/ \E k \in Key, m \in 1..Len(messages) : Resend(h, k, m) \/ Replay(h, k, m)
             \/ ResendBarrier(h) \/ ResendTimeout(h) \/ ResendDrained(h) \/ ResendRead(h)
             \/ ResendRefused(h) \/ ResendRelease(h)
      PROVE  TurnsBelong'
  <2>1. visible \subseteq visible' /\ (turns' = turns \/ turns' = <<>>) /\ turn' = turn
    BY <1>5 DEF ClearIdle, ClearCommit, Resend, Replay, ResendBarrier, ResendTimeout, ResendDrained,
                ResendRead, ResendRefused, ResendRelease, queue, rows
  <2> QED  BY <1>0, <2>1, TurnsFrame
<1>6. ASSUME NEW h \in Handler, ResendApply(h) PROVE TurnsBelong'
  <2>1. UNCHANGED <<turns, turn, leases, overtaken>> /\ call[h].pc = "applying"
    BY <1>6 DEF ResendApply, Apply, queue
  <2>2. turn = NoTurn /\ turns = <<>>
    BY <2>1 DEF BarrierHeld
  <2> QED  BY <2>1, <2>2 DEF TurnsBelong, NoTurn
<1>7. ASSUME NEW h \in Handler, ReplayHandOver(h) PROVE TurnsBelong'
  <2> DEFINE t == UserTurn(call[h].message)
  <2>1. call[h] \in Ending  BY <1>7, LocalsByPlace DEF ReplayHandOver, TypeOK
  <2>2. t \in Turn  BY <2>1 DEF UserTurn, Turn, Ending
  <2>3. UNCHANGED <<visible, turn>> /\ (Enqueued(t) \/ turns' = turns)
    BY <1>7 DEF ReplayHandOver, rows
  <2> HIDE DEF t
  <2>4. CASE Enqueued(t)  BY <2>2, <2>3, <2>4, TurnEnters
  <2>5. CASE turns' = turns  BY <1>0, <2>3, <2>5, TurnsFrame
  <2> QED  BY <2>3, <2>4, <2>5
<1> QED  BY <1>1, <1>2, <1>3, <1>4, <1>5, <1>6, <1>7 DEF Next

\* The questions that are pending up to a boundary belong to what is shown.
Belong(boundary, ds, shown) ==
  \A d \in 1..boundary :
    d \in 1..Len(ds) /\ ds[d].status = "pending" /\ ds[d].by # Nothing => ds[d].by \in shown

LEMMA BelongRows ==
  /\ QuestionsBelong <=> Belong(Len(decisions), decisions, visible \cup overtaken)
  /\ QuestionsBelong' <=> Belong(Len(decisions'), decisions', visible' \cup overtaken')
  /\ BoundariesBelong <=>
       \A i \in 1..Len(checkpoints) : checkpoints[i].kind = "user_message" =>
         Belong(checkpoints[i].boundary, decisions, checkpoints[i].shown \cup overtaken)
  /\ BoundariesBelong' <=>
       \A i \in 1..Len(checkpoints') : checkpoints'[i].kind = "user_message" =>
         Belong(checkpoints'[i].boundary, decisions', checkpoints'[i].shown \cup overtaken')
<1>1. QuestionsBelong <=> Belong(Len(decisions), decisions, visible \cup overtaken)
  BY DEF QuestionsBelong, Belong, Pending
<1>2. QuestionsBelong' <=> Belong(Len(decisions'), decisions', visible' \cup overtaken')
  BY DEF QuestionsBelong, Belong, Pending
<1>3. BoundariesBelong <=>
        \A i \in 1..Len(checkpoints) : checkpoints[i].kind = "user_message" =>
          Belong(checkpoints[i].boundary, decisions, checkpoints[i].shown \cup overtaken)
  BY DEF BoundariesBelong, Belong, Pending
<1>4. BoundariesBelong' <=>
        \A i \in 1..Len(checkpoints') : checkpoints'[i].kind = "user_message" =>
          Belong(checkpoints'[i].boundary, decisions', checkpoints'[i].shown \cup overtaken')
  BY DEF BoundariesBelong, Belong, Pending
<1> QED  BY <1>1, <1>2, <1>3, <1>4

\* Cards only leave the pending ones: what belonged still does.
LEMMA BelongKept ==
  ASSUME NEW n \in Nat, NEW a, NEW b, NEW S, NEW T, S \subseteq T, Belong(n, a, S),
         \A d \in 1..n : d \in 1..Len(b) /\ b[d].status = "pending" =>
            d \in 1..Len(a) /\ a[d].status = "pending" /\ b[d].by = a[d].by
  PROVE  Belong(n, b, T)
BY DEF Belong

\* No card becomes pending, and the cards keep who asked them.
CardsKept ==
  \A d \in 1..Len(decisions) :
    decisions'[d].status = "pending" =>
      decisions[d].status = "pending" /\ decisions'[d].by = decisions[d].by

LEMMA SameCardsKept == SameCards(decisions') => CardsKept
BY DEF SameCards, CardsKept

\* What belonged to a checkpoint still does.
LEMMA PointBelongs ==
  ASSUME Shape, BoundariesBelong, CardsKept, overtaken \subseteq overtaken',
         NEW n \in 1..Len(checkpoints), checkpoints[n].kind = "user_message"
  PROVE  Belong(checkpoints[n].boundary, decisions', checkpoints[n].shown \cup overtaken')
<1> DEFINE q == checkpoints[n]
<1>1. Belong(q.boundary, decisions, q.shown \cup overtaken)  BY BelongRows
<1>2. q.boundary \in Nat /\ q.boundary <= Len(decisions) /\ Len(decisions) \in Nat
  BY RowTypes DEF Shape, InRange
<1> HIDE DEF q
<1>3. \A d \in 1..q.boundary : d \in 1..Len(decisions') /\ decisions'[d].status = "pending" =>
         d \in 1..Len(decisions) /\ decisions[d].status = "pending" /\ decisions'[d].by = decisions[d].by
  BY <1>2 DEF CardsKept
<1>4. q.shown \cup overtaken \subseteq q.shown \cup overtaken'  OBVIOUS
<1>5. Belong(q.boundary, decisions', q.shown \cup overtaken')
  BY <1>1, <1>2, <1>3, <1>4, BelongKept
<1> QED  BY <1>5 DEF q

\* So does what belonged to the conversation, while its messages stay shown.
LEMMA QuestionsKept ==
  ASSUME Shape, QuestionsBelong, CardsKept, overtaken \subseteq overtaken', visible \subseteq visible',
         Len(decisions') = Len(decisions)
  PROVE  QuestionsBelong'
<1>1. Belong(Len(decisions), decisions, visible \cup overtaken)  BY BelongRows
<1>2. visible \cup overtaken \subseteq visible' \cup overtaken' /\ Len(decisions) \in Nat
  BY RowTypes DEF Shape
<1>3. \A d \in 1..Len(decisions) : d \in 1..Len(decisions') /\ decisions'[d].status = "pending" =>
         d \in 1..Len(decisions) /\ decisions[d].status = "pending" /\ decisions'[d].by = decisions[d].by
  BY DEF CardsKept
<1>4. Belong(Len(decisions), decisions', visible' \cup overtaken')
  BY <1>1, <1>2, <1>3, BelongKept
<1> QED  BY <1>4, BelongRows

LEMMA NextCards ==
  Shape /\ BarrierHeld /\ Belongs /\ [Next]_vars => BoundariesBelong' /\ QuestionsBelong'
<1> SUFFICES ASSUME Shape, BarrierHeld, Belongs, [Next]_vars
             PROVE  BoundariesBelong' /\ QuestionsBelong'
  OBVIOUS
<1>0. TurnsBelong /\ BoundariesBelong /\ QuestionsBelong  BY DEF Belongs
<1>a. overtaken \subseteq overtaken'  BY OvertakenGrows
<1>b. ASSUME CardsKept, checkpoints' = checkpoints, visible \subseteq visible',
             Len(decisions') = Len(decisions)
      PROVE  BoundariesBelong' /\ QuestionsBelong'
  <2>1. QuestionsBelong'  BY <1>0, <1>a, <1>b, QuestionsKept
  <2>2. \A i \in 1..Len(checkpoints') : checkpoints'[i].kind = "user_message" =>
           Belong(checkpoints'[i].boundary, decisions', checkpoints'[i].shown \cup overtaken')
    BY <1>0, <1>a, <1>b, PointBelongs
  <2> QED  BY <2>1, <2>2, BelongRows
<1>1. CASE UNCHANGED <<messages, visible, checkpoints, versions, decisions, draft>>
  BY <1>1, <1>b DEF CardsKept
<1>2. CASE PostMessage
  <2> DEFINE m == Len(messages) + 1
  <2>1. /\ messages' = Append(messages, Message("user", Nothing)) /\ visible' = visible \cup {m}
        /\ checkpoints' = Recorded(checkpoints, "user_message", m, draft.current, visible')
        /\ decisions' = decisions /\ overtaken' = overtaken
    BY <1>2 DEF PostMessage
  <2>2. m \in Nat /\ m \notin visible /\ visible \subseteq 1..Len(messages)
    BY <2>1, NewMessage
  <2> HIDE DEF m
  <2> DEFINE new == NewPoint("user_message", m, draft.current, visible')
  <2>3. visible' \in SUBSET Nat /\ TypeOK
    <3>1. Len(messages) \in Nat  BY DEF Shape, TypeOK
    <3> QED  BY <2>1, <2>2, <3>1 DEF Shape
  <2>a. m \in Nat  BY <2>2
  <2>b. checkpoints' = Recorded(checkpoints, "user_message", m, draft.current, visible')  BY <2>1
  <2>4. \A i \in 1..Len(checkpoints') :
           checkpoints'[i] = new \/ \E k \in 1..Len(checkpoints) : checkpoints'[i] = checkpoints[k]
    BY <2>a, <2>b, <2>3, PostedRows
  <2>5. new.kind = "user_message" /\ new.boundary = Len(decisions) /\ new.shown = visible
    <3>1. visible' \ {m} = visible  BY <2>1, <2>2
    <3>2. /\ new.kind = "user_message" /\ new.boundary = Len(decisions)
          /\ new.shown = visible' \ {m}
      BY DEF NewPoint
    <3> HIDE DEF new
    <3> QED  BY <3>1, <3>2
  <2> HIDE DEF new
  <2>6. Belong(new.boundary, decisions', new.shown \cup overtaken')
    BY <1>0, <2>1, <2>5, BelongRows
  <2>7. CardsKept  BY <2>1 DEF CardsKept
  <2>8. \A i \in 1..Len(checkpoints') : checkpoints'[i].kind = "user_message" =>
           Belong(checkpoints'[i].boundary, decisions', checkpoints'[i].shown \cup overtaken')
    BY <1>0, <1>a, <2>4, <2>6, <2>7, PointBelongs
  <2>9. QuestionsBelong'  BY <1>0, <1>a, <2>1, <2>7, QuestionsKept
  <2> QED  BY <2>8, <2>9, BelongRows
<1>3. CASE Reply \/ Edit \/ \E v \in DOMAIN renders : FinishRender(v)
  <2>1. UNCHANGED <<decisions, checkpoints>> /\ visible \subseteq visible'
    BY <1>3 DEF Reply, Edit, FinishRender
  <2> QED  BY <1>b, <2>1 DEF CardsKept
<1>4. CASE \E blocking \in BOOLEAN : Ask(blocking)
  <2> DEFINE d == Len(decisions) + 1
             by == IF turn.kind = "user" THEN turn.id ELSE Nothing
  <2>1. /\ \A k \in 1..Len(decisions) : decisions'[k] = decisions[k]
        /\ decisions'[d].by = by
        /\ Len(decisions') = d /\ Len(decisions) \in Nat
        /\ UNCHANGED <<visible, checkpoints, overtaken>>
    BY <1>4, NewCard
  <2>2. CardsKept  BY <2>1 DEF CardsKept
  <2>3. \A i \in 1..Len(checkpoints') : checkpoints'[i].kind = "user_message" =>
           Belong(checkpoints'[i].boundary, decisions', checkpoints'[i].shown \cup overtaken')
    BY <1>0, <1>a, <2>1, <2>2, PointBelongs
  <2>4. by = Nothing \/ by \in visible \cup overtaken  BY <1>0 DEF TurnsBelong
  <2>5. Belong(Len(decisions), decisions, visible \cup overtaken)  BY <1>0, BelongRows
  <2>6. \A k \in 1..Len(decisions') : k \in 1..Len(decisions) \/ k = d  BY <2>1
  <2> HIDE DEF d, by
  <2>7. Belong(Len(decisions'), decisions', visible' \cup overtaken')
    BY <2>1, <2>4, <2>5, <2>6 DEF Belong
  <2> QED  BY <2>3, <2>7, BelongRows
<1>5. CASE \E d \in 1..Len(decisions) : Answer(d)
  <2>1. UNCHANGED <<visible, checkpoints>> /\ Len(decisions') = Len(decisions)
        /\ SameCards(decisions')
    BY <1>5, AnsweredCard, ShapeAnswer
  <2> QED  BY <1>b, <2>1, SameCardsKept
<1>6. ASSUME NEW h \in Handler, ClearCommit(h), call[h].fresh
      PROVE  BoundariesBelong' /\ QuestionsBelong'
  <2>1. /\ visible \subseteq visible' /\ checkpoints' = checkpoints /\ Len(decisions') = Len(decisions)
        /\ SameCards(decisions')
    BY <1>6, ClearFacts, ShapeClear
  <2> QED  BY <1>b, <2>1, SameCardsKept
<1>7. ASSUME NEW h \in Handler, ResendApply(h) PROVE BoundariesBelong' /\ QuestionsBelong'
  <2>1. PICK i \in 1..Len(checkpoints) : ApplyStores(h, i)
    BY <1>7, ApplyFacts
  <2> DEFINE new == Len(messages) + 1
             point == checkpoints[i]
             old == point.shown \cup overtaken'
  <2>2. /\ point.kind = "user_message" /\ SameCards(decisions')
        /\ \A d \in 1..Len(decisions) :
             decisions'[d].status = "pending" <=>
               decisions[d].status = "pending" /\ ~ (d > point.boundary)
        /\ visible' = point.shown \cup {new}
    BY <2>1 DEF ApplyStores
  <2>3. CardsKept /\ Len(decisions') = Len(decisions)  BY <2>2, SameCardsKept DEF SameCards
  <2>4. Belong(point.boundary, decisions', old)  BY <1>0, <1>a, <2>2, <2>3, PointBelongs
  <2>5. point.boundary \in Nat /\ Len(decisions) \in Nat
    BY RowTypes DEF Shape
  <2>6. Belong(Len(decisions'), decisions', old)
    <3> HIDE DEF old, point
    <3> QED  BY <2>2, <2>3, <2>4, <2>5 DEF Belong
  <2>7. Belong(Len(decisions'), decisions', visible' \cup overtaken')
    BY <2>2, <2>6 DEF Belong
  <2>8. ASSUME NEW k \in 1..Len(checkpoints'), checkpoints'[k].kind = "user_message"
        PROVE  Belong(checkpoints'[k].boundary, decisions', checkpoints'[k].shown \cup overtaken')
    <3> DEFINE q == checkpoints'[k]
    <3>1. \/ \E n \in 1..Len(checkpoints) : q = checkpoints[n]
          \/ q.kind = "restore"
          \/ q.boundary = Len(decisions) /\ q.shown = point.shown
      BY <2>1, ApplyPoints
    <3>2. CASE \E n \in 1..Len(checkpoints) : q = checkpoints[n]
      <4>1. PICK n \in 1..Len(checkpoints) : q = checkpoints[n]  BY <3>2
      <4>2. checkpoints[n].kind = "user_message"  BY <2>8, <4>1
      <4>3. Belong(checkpoints[n].boundary, decisions', checkpoints[n].shown \cup overtaken')
        BY <1>0, <1>a, <2>3, <4>2, PointBelongs
      <4> QED  BY <4>1, <4>3
    <3>3. CASE q.kind = "restore"  BY <2>8, <3>3
    <3>4. CASE q.boundary = Len(decisions) /\ q.shown = point.shown
      BY <2>3, <2>6, <3>4
    <3> QED  BY <3>1, <3>2, <3>3, <3>4
  <2> QED  BY <2>7, <2>8, BelongRows
<1> QED  BY <1>1, <1>2, <1>3, <1>4, <1>5, <1>6, <1>7, WritingSteps

-----------------------------------------------------------------------------
(* What holds in every reachable state, and what a resend does. *)

\* The inductive invariant: the rows keep their shape, one resend is past its barrier, and what a
\* checkpoint, a message, a turn or a question refers to belongs together.
THEOREM RewindInvariant == Spec => []RewindInv
<1> DEFINE All == Shape /\ BarrierHeld /\ Nests /\ Belongs /\ DraftPoints
<1>1. Init => All  BY InitShape, InitBarrier, InitNests, InitBelongs, InitPoints
<1>2. All /\ [Next]_vars => All'
  <2> SUFFICES ASSUME All, [Next]_vars PROVE All'
    OBVIOUS
  <2>1. Shape' /\ BarrierHeld' /\ Nests'  BY NextShape, NextBarrier, NextNests
  <2>2. Belongs'
    <3>1. TurnsBelong'  BY NextTurns DEF Belongs
    <3> QED  BY <3>1, NextCards DEF Belongs
  <2>3. DraftPoints'  BY NextPending, NextStart, NextPreview DEF DraftPoints
  <2> QED  BY <2>1, <2>2, <2>3
<1>3. All => RewindInv  BY DEF RewindInv, ConversationNests, Shape, Nests, Belongs
<1> HIDE DEF All
<1> QED  BY <1>1, <1>2, <1>3, PTL DEF Spec

\* However questions, answers, clears, edits, renders and resends cross, the draft's pending card can
\* be answered, its context starts at a reset that is shown, and its preview is of its own lineage.
THEOREM PointersStayTrue == Spec => []DraftPoints
<1>1. RewindInv => DraftPoints  BY DEF RewindInv
<1> QED  BY <1>1, RewindInvariant, PTL

\* What the page shows is one conversation: a message with all that stood before it when it was sent,
\* and no pending question of a turn whose message was taken back.
THEOREM ShownIsWhole == Spec => []ConversationNests
<1>1. RewindInv => ConversationNests  BY DEF RewindInv
<1> QED  BY <1>1, RewindInvariant, PTL

\* A resend of X brings back exactly the conversation and the timeline that stood when X was sent.
THEOREM ResendRestores == Spec => RestoredExactly
<1> DEFINE Both == Shape /\ Nests
           Exact(h) == LET x == messages[call[h].target]
                       IN  call[h].pc = "applying" /\ call'[h].pc = "done" =>
                             /\ visible' = x.before \cup {call'[h].message}
                             /\ x.document # Nothing =>
                                  versions'[draft'.current].document = x.document
<1>1. Init => Both  BY InitShape, InitNests
<1>2. Both /\ [Next]_vars => Both'  BY NextShape, NextNests
<1>3. ASSUME Shape, Nests, [Next]_vars, NEW h \in Handler, call[h].pc = "applying",
             call'[h].pc = "done"
      PROVE  ResendApply(h)
  <2>0. call \in [Handler -> Locals] /\ Idle.pc = "idle"  BY <1>3, IdleFacts DEF Shape, TypeOK
  <2>1. call' # call  BY <1>3
  <2>2. call' # Touched(call)  BY <1>3, TouchedPlaces DEF Shape
  <2>3. \/ ~ UNCHANGED vars /\ ~ PostMessage /\ ~ Take /\ ~ Edit /\ ~ RequestPreview /\ ~ Reply
    BY <2>1, <2>2 DEF vars, PostMessage, Take, Edit, RequestPreview, Reply
  <2>4. /\ ~ EndTurn /\ ~ \E i \in handed : HandOver(i)
        /\ ~ \E v \in DOMAIN renders : FinishRender(v)
        /\ ~ \E blocking \in BOOLEAN : Ask(blocking)
        /\ ~ \E d \in 1..Len(decisions) : Answer(d)
    BY <2>1, <2>2 DEF EndTurn, HandOver, FinishRender, Ask, Answer
  <2>5. ASSUME NEW g \in Handler,
               \/ ClearIdle(g) \/ \E k \in Key, m \in 1..Len(messages) : Resend(g, k, m) \/ Replay(g, k, m)
        PROVE  FALSE
    <3>1. call[g] = Idle /\ \A f \in Handler : f # g => call'[f] = call[f]
      BY <2>0, <2>5 DEF ClearIdle, Resend, Replay, Arrive
    <3> QED  BY <1>3, <2>0, <3>1
  <2>6. ASSUME NEW g \in Handler, ClearCommit(g) PROVE FALSE
    <3> DEFINE c == [call EXCEPT ![g] = Idle]
    <3>1. c \in [Handler -> Locals] /\ \A f \in Handler : c[f].pc = call[f].pc \/ c[f].pc = "idle"
      BY <2>0, IdleFacts
    <3>2. call' = c \/ call' = Touched(c)  BY <2>6 DEF ClearCommit
    <3> HIDE DEF c
    <3>3. c \in [Handler -> Locals]  BY <3>1
    <3>4. call'[h].pc = c[h].pc
      <4>1. CASE call' = c  BY <4>1
      <4>2. CASE call' = Touched(c)  BY <3>3, <4>2, TouchedCalls
      <4> QED  BY <3>2, <4>1, <4>2
    <3> QED  BY <1>3, <3>1, <3>4
  <2>7. ASSUME NEW g \in Handler,
               \/ ResendBarrier(g) \/ ResendTimeout(g) \/ ResendDrained(g) \/ ResendRead(g)
               \/ ResendRelease(g) \/ ReplayHandOver(g)
        PROVE  FALSE
    <3>1. /\ call[g].pc # "applying"
          /\ \A f \in Handler : f # g => call'[f] = call[f]
      BY <2>0, <2>7 DEF ResendBarrier, ResendTimeout, ResendDrained, ResendRead, ResendRelease,
                        ReplayHandOver
    <3> QED  BY <1>3, <3>1
  <2>8. ASSUME NEW g \in Handler, ResendRefused(g) PROVE FALSE
    <3>1. call'[g].pc # "done" /\ \A f \in Handler : f # g => call'[f] = call[f]
      BY <2>0, <2>8 DEF ResendRefused
    <3> QED  BY <1>3, <3>1
  <2>9. ASSUME NEW g \in Handler, ResendApply(g) PROVE ResendApply(h)
    <3>1. \A f \in Handler : call'[f].pc = IF f = g THEN "done" ELSE call[f].pc
      BY <1>3, <2>9, ApplyFacts DEF ApplyStores
    <3>2. g = h  BY <1>3, <3>1
    <3> QED  BY <2>9, <3>2
  <2> QED  BY <1>3, <2>3, <2>4, <2>5, <2>6, <2>7, <2>8, <2>9 DEF Next
<1>4. ASSUME Both, [Next]_vars, NEW h \in Handler PROVE Exact(h)
  <2>1. SUFFICES ASSUME call[h].pc = "applying", call'[h].pc = "done"
                 PROVE  LET x == messages[call[h].target]
                        IN  /\ visible' = x.before \cup {call'[h].message}
                            /\ x.document # Nothing =>
                                 versions'[draft'.current].document = x.document
    OBVIOUS
  <2>2. ResendApply(h)  BY <1>3, <1>4, <2>1
  <2>3. PICK i \in 1..Len(checkpoints) : ApplyStores(h, i)  BY <1>4, <2>2, ApplyFacts
  <2> DEFINE x == messages[call[h].target]
             now == IF draft'.current = Nothing THEN Nothing ELSE versions'[draft'.current].document
  <2>4. /\ visible' = x.before \cup {Len(messages) + 1}
        /\ x.document # Nothing => draft'.current # Nothing /\ now = x.document
    BY <1>4, <2>3, RewrittenFacts DEF Nests
  <2>5. call'[h].message = Len(messages) + 1  BY <2>3 DEF ApplyStores
  <2> HIDE DEF x
  <2>6. x.document # Nothing => versions'[draft'.current].document = x.document  BY <2>4
  <2> QED  BY <2>4, <2>5, <2>6 DEF x
<1>5. Both /\ [Next]_vars => \A h \in Handler : Exact(h)
  <2> HIDE DEF Both, Exact
  <2> QED  BY <1>4
<1> HIDE DEF Both
<1>6. Spec => [][\A h \in Handler : Exact(h)]_vars
  BY <1>1, <1>2, <1>5, PTL DEF Spec
<1> QED  BY <1>6 DEF RestoredExactly
=============================================================================
