------------------------ MODULE MCIngestionArtifacts ------------------------
(* The instances of IngestionArtifacts that TLC checks: an empty transcript, *)
(* one of a single chunk and one that fills a batch and a half.              *)
EXTENDS IngestionArtifacts, TLC

CONSTANTS Empty, Short, Long

MCChunkCount == [t \in Texts |-> CASE t = Empty -> 0 [] t = Short -> 1 [] t = Long -> 3]

Symmetry == Permutations(Workers) \cup Permutations(Editors)
=============================================================================
