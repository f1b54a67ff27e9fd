----------------------------- MODULE MCWorkspace -----------------------------
(* A workspace on small instances, one part of it at a time: the parts share no
   state, so a behaviour is one of Deliverables, of ObjectStore, of TurnRecovery,
   of UserMemory, of Context or of IndexLocks, and `part` says of which. *)
EXTENDS Deliverables, ObjectStore, Context, UserMemory, TurnRecovery, IndexLocks

CONSTANTS
  cut, broken,
  m1, m2, m3,
  turnA, turnB

VARIABLES
  part

draftVars == <<draft, docs, jobs, works, seen, lease, call, render, mishaps>>

Asked(tool, assets) == [tool |-> tool, assets |-> assets]
AskThenCheck == <<Asked("interaction.ask", <<>>), Asked("timeline.check", <<>>)>>
\* Two turns of one call or two: searches and detectors of the same assets in
\* either order, of everything and of nothing.
ToolMessages ==
  <<<<Asked("shot.search", <<1, 2>>), Asked("shot.search", <<2, 1>>)>>,
    <<Asked("shot.deep_search", <<1, 1>>), Asked("media.detect_shots", <<2>>)>>,
    <<Asked("shot.search", <<>>), Asked("speech.search", <<1>>)>>,
    <<Asked("speech.transcribe", <<1>>), Asked("media.detect_shots", <<2>>)>>,
    AskThenCheck,
    <<Asked("shot.deep_search", <<1, 2>>), Asked("preview.check", <<>>)>>,
    <<Asked("shot.search", <<1>>), Asked("shot.deep_search", <<2>>)>> >>
AllMessages == {ToolMessages[i] : i \in DOMAIN ToolMessages}
\* Which turn has which message of a pair does not matter.
PairOfMessages ==
  \E i, j \in DOMAIN ToolMessages :
    i <= j /\ message[turnA] = ToolMessages[i] /\ message[turnB] = ToolMessages[j]

Documents == {cut, broken}
Passing == {cut}

\* Bound: versions, render jobs and copies of a draft together.  With
\* MaxVersion = 3 and MaxJobs = 2 a draft has been rewound while it has one job,
\* or has two jobs and an edit between them, or one of the two and a copy.
MaxDeeds == 4
WithinDeeds ==
  draft[Original].version + Len(jobs) + Cardinality({d \in Draft \ {Original} : draft[d].here})
    <= MaxDeeds

\* Messages are interchangeable: those that are stored have the first names, in
\* the order in which they are stored.
InOrder == (Stored(m2) => Stored(m1)) /\ (Stored(m3) => Stored(m2))

WorkspaceInit ==
  /\ part \in {"drafts", "store", "recovery", "memories", "context", "locks"}
  /\ Init /\ StoreInit /\ RecoveryInit /\ MemoryInit /\ ContextInit
  /\ LocksInit
  /\ IF part = "locks" THEN PairOfMessages ELSE \A t \in {turnA, turnB} : message[t] = AskThenCheck

WorkspaceNext ==
  /\ UNCHANGED part
  /\ \/ /\ part = "drafts" /\ Next /\ WithinDeeds'
        /\ UNCHANGED <<storeVars, recoveryVars, memoryVars, contextVars, lockVars>>
     \/ /\ part = "store" /\ StoreNext
        /\ UNCHANGED <<draftVars, recoveryVars, memoryVars, contextVars, lockVars>>
     \/ /\ part = "recovery" /\ RecoveryNext /\ InOrder'
        /\ UNCHANGED <<draftVars, storeVars, memoryVars, contextVars, lockVars>>
     \/ /\ part = "memories" /\ MemoryNext
        /\ UNCHANGED <<draftVars, storeVars, recoveryVars, contextVars, lockVars>>
     \/ /\ part = "context" /\ ContextNext
        /\ UNCHANGED <<draftVars, storeVars, recoveryVars, memoryVars, lockVars>>
     \/ /\ part = "locks" /\ LocksNext
        /\ UNCHANGED <<draftVars, storeVars, recoveryVars, memoryVars, contextVars>>

WorkspaceSpec ==
  WorkspaceInit
  /\ [][WorkspaceNext]_<<part, draftVars, storeVars, recoveryVars, memoryVars, contextVars,
                       lockVars>>
=============================================================================
