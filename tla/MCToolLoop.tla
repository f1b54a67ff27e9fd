----------------------------- MODULE MCToolLoop -----------------------------
(***************************************************************************)
(* Two tool rounds and two passes stand for the 40 and 3 of the code: the  *)
(* budgets meet in the same order.  The messages are one call of each kind *)
(* and the pairs whose order matters.                                      *)
(***************************************************************************)
EXTENDS ToolLoop

MCMessages == {<<"edit">>, <<"plan">>, <<"edit", "ask">>, <<"edit", "plan">>,
               <<"destroy">>, <<"confirm">>}

\* Bound: mishaps and changes of the plan by the turn together, and with the
\* versions of the timeline.
Within == mishaps + draft.plan <= 2 /\ mishaps + draft.plan + draft.latest <= 4
BoundedSpec == Init /\ [][Next /\ Within']_vars /\ WF_vars(Turn)
=============================================================================
