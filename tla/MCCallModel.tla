---------------------------- MODULE MCCallModel ----------------------------
(* Symmetry and bounds of the model-checking runs of CallModel.             *)
EXTENDS CallModel

Symmetry == Permutations(Calls) \cup Permutations(Confs)

\* Bound of callmodel_conferences: the calls are there from the start, and
\* only the conferences change.
AllThere == \A c \in Calls : daemon.call[c] = "current" /\ model.state[c] = "CURRENT"
=============================================================================
