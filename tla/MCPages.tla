------------------------------- MODULE MCPages -------------------------------
(***************************************************************************)
(* Instances of Pages for TLC: a block of two rows for the listings by     *)
(* height and index; for the documents a block of two between two of one,  *)
(* with a document that each of the later blocks updates.                  *)
(***************************************************************************)
EXTENDS Pages, TLC

MCListings == {"operations", "operations-by-height", "manifests", "documents"}
MCIds == {1, 2}
MCBlocks ==
  [l \in Listings |->
     IF l \in DocumentListings THEN <<{1}, {1, 2}, {1}>> ELSE <<{1}, {1, 2}>>]
=============================================================================
