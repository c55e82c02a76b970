------------------------------ MODULE MCMaking ------------------------------
(***************************************************************************)
(* Instances of Making for TLC: a client of the API, or a user of the      *)
(* commands that starts without a seal, with a seal of two operations of a *)
(* type and one of another, or with one that leaves room for one item.     *)
(***************************************************************************)
EXTENDS Making

CONSTANTS d1, d2, d3

Operation(type, items) == [type |-> type, items |-> items]
FirstSeals ==
  {None,
   <<Operation("create-documents", <<d1>>), Operation("sign-documents", <<d1>>),
     Operation("create-documents", <<d2>>)>>,
   <<Operation("update-documents", <<d1, d2>>)>>}
=============================================================================
