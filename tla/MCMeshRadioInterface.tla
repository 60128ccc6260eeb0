------------------------ MODULE MCMeshRadioInterface ------------------------
(* The faults and the symmetry of the runs of MeshRadioInterface.           *)
EXTENDS MeshRadioInterface, TLC

FlakyStarts == {"loss", "restart", "same_id"}

AnyOrder == Permutations(Node)
=============================================================================
