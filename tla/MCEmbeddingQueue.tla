-------------------------- MODULE MCEmbeddingQueue --------------------------
(* Small instances of EmbeddingQueue. *)
EXTENDS EmbeddingQueue, TLC

CONSTANTS first, second

OneChunk == {<<first>>, <<second>>}
UpToTwoChunks == {<<first>>, <<second>>, <<first, second>>}

Symmetry == Permutations(Notes)
=============================================================================
