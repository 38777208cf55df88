--------------------------- MODULE MCAccountModel ---------------------------
(* Instances of AccountModel for TLC. *)
EXTENDS AccountModel, FiniteSets, Naturals, TLC

\* Bound: once a removal has been taken back, one kind of signal is queued at most.
CalmAfterwards == takenBack => Cardinality(signals) <= 1

Symmetry == Permutations(Objects) \cup Permutations(Ids)
=============================================================================
