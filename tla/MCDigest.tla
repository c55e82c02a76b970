------------------------------ MODULE MCDigest ------------------------------
(***************************************************************************)
(* Instances of Digest for TLC: two documents, blocks that change none of  *)
(* them, update one, register one or register both.                        *)
(***************************************************************************)
EXTENDS Digest

MCDocIds == {"d1sdi", "d2cui"}

MCContents ==
  {[docs |-> {}, listed |-> FALSE],
   [docs |-> {"d1sdi"}, listed |-> FALSE],
   [docs |-> {"d2cui"}, listed |-> TRUE],
   [docs |-> {"d1sdi", "d2cui"}, listed |-> TRUE]}
=============================================================================
