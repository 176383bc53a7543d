---------------------------- MODULE MCSourceCache ----------------------------
(* Small instances of SourceCache for TLC. *)
EXTENDS SourceCache, TLC

(* One retrieval per content: two URIs may serve the same content. *)
PlainMetadata == [sha256 : Contents]

ContentSymmetry == Permutations(Contents)
=============================================================================
