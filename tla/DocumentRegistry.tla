-------------------------- MODULE DocumentRegistry -------------------------
(***************************************************************************)
(* What the document operations promise of the documents, block by block:  *)
(* a document is registered once and for all, under the owner it is given, *)
(* and is listed at that moment in the inventories it will ever be in.     *)
(* Module Documents implements this specification.                         *)
(***************************************************************************)
CONSTANTS DocIds, Accounts, NoOwner

VARIABLES
  owner,     \* the owner of each document, or NoOwner
  listed     \* the documents each account lists

vars == <<owner, listed>>

Unregistered == {d \in DocIds : owner[d] = NoOwner}

Init ==
  /\ owner = [d \in DocIds |-> NoOwner]
  /\ listed = [a \in Accounts |-> {}]

\* A block registers some new documents, each listed by somebody; what was
\* registered keeps its owner and what was listed stays listed.
Block(new) ==
  /\ new \subseteq Unregistered
  /\ \E owners \in [new -> Accounts] :
       owner' = [d \in DocIds |-> IF d \in new THEN owners[d] ELSE owner[d]]
  /\ \E listers \in [new -> SUBSET Accounts] :
       /\ \A d \in new : listers[d] # {}
       /\ listed' = [a \in Accounts |-> listed[a] \cup {d \in new : a \in listers[d]}]

Next == \E new \in SUBSET DocIds : Block(new)

Spec == Init /\ [][Next]_vars
=============================================================================
