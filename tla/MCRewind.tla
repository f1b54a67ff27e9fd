---------------------------- MODULE MCRewind ----------------------------
(* Rewind on a small instance: requests and keys are interchangeable. *)
EXTENDS Rewind, TLC

Symmetry == Permutations(Handler) \cup Permutations(Key)

\* Bound: a question or a render, each with three versions; the two share no row.
OneOfThem == Len(decisions) + Cardinality(DOMAIN renders) <= 1

\* Bound: several turns are handed over or wait at once (two POSTs under way, a POST
\* behind a waiting turn or in the gap after a resend's barrier) with one version,
\* question or render at most.
FewTurns ==
  Len(versions) + Len(decisions) + Cardinality(DOMAIN renders) <= 1
  \/ Cardinality(handed) + Len(turns) <= 1

BoundedSpec == Init /\ [][Next /\ (OneOfThem /\ FewTurns)']_vars
=============================================================================
