-------------------------- MODULE MCProcessorPools --------------------------
(***************************************************************************)
(* Instances of ProcessorPools for TLC.                                    *)
(***************************************************************************)
EXTENDS ProcessorPools, TLC

TwoCreates == {"create1", "create2", "update"}
CreateAndSign == {"create1", "sign"}

MCKind == [o \in Ops |-> CASE o = "sign" -> "sign" [] o = "update" -> "update" [] OTHER -> "create"]
MCItems == [o \in Ops |-> IF o = "create2" THEN 2 ELSE 1]

Symmetry == Permutations(Objects)
=============================================================================
