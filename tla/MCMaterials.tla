---------------------------- MODULE MCMaterials ----------------------------
(***************************************************************************)
(* Two imports of one file may run side by side, so that two assets with   *)
(* the same bytes exist; a third import finds what they left.              *)
(***************************************************************************)
EXTENDS Materials, TLC

\* An ingest or a base job that fails is over, a forced refresh is tried twice.
Tries == [ingest |-> 1, base |-> 1, refresh |-> 2]

Symmetry == Permutations(Req)

\* Bound: of a forced refresh, a deletion from the draft and an import that is lost
\* one at a time, each with all that becomes of the base job.
Refreshed == {a \in Forceable : job[Refresh(a)].status # "absent"}
Deleted == {l \in linkLog : l[1] = "AssetUnlinked"}
Lost == {a \in Asset : job[Ingest(a)].tries > 0 \/ job[Ingest(a)].status = "cancelled"}
OneAtATime == Cardinality(Refreshed) + Cardinality(Deleted) + Cardinality(Lost) <= 1

BoundedSpec == Init /\ [][Next /\ OneAtATime']_vars
=============================================================================
