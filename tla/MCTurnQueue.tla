----------------------------- MODULE MCTurnQueue -----------------------------
(* Small instances of TurnQueue for TLC. *)
EXTENDS TurnQueue, TLC

CONSTANTS i1, i2, i3, c1, c2

\* Turns are interchangeable: they are sent, withdrawn or refused in the order
\* of their names.
Waiting(i) == item[i].at \in {"new", "reserved"}
InOrder == (Waiting(i1) => Waiting(i2)) /\ (Waiting(i2) => Waiting(i3))

OrderedSpec == Init /\ [][Next /\ InOrder']_vars /\ Fairness
=============================================================================
