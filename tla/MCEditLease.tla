----------------------------- MODULE MCEditLease -----------------------------
(* Small instances of EditLease for TLC. *)
EXTENDS EditLease, TLC

CONSTANTS s1, s2

\* Bound: faults and timeline writes together.  Neither is under fairness.
BoundedSpec == Init /\ [][Next /\ (faults + tip.version <= 2)']_vars /\ Fairness
=============================================================================
