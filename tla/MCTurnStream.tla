---------------------------- MODULE MCTurnStream ----------------------------
(* Small instances of TurnStream for TLC. *)
EXTENDS TurnStream, TLC

CONSTANTS d1, d2, c1, c2

\* One talkative draft, one whose turns only begin and end.
Talk == [d \in Draft |-> IF d = d1 THEN 2 ELSE 0]

\* A page of each draft, or two pages of the quiet one.
TwoPages == {p \in [Client -> Draft] : \A c \in Client : c # c1 => p[c] = d2}

\* Bound: turns and broken connections together.  Neither is under fairness.
FewEvents == /\ turns[d1].begun + turns[d2].begun + breaks <= 3
             /\ turns[d1].begun + breaks <= 2
BoundedStream == StreamInit /\ [][StreamNext /\ FewEvents']_streamVars /\ StreamFairness
=============================================================================
