----------------------------- MODULE MCAccounts -----------------------------
(***************************************************************************)
(* Instances of Accounts for TLC, with chunks of four addresses: accounts  *)
(* within one chunk, as many as two chunks cover, of which some lost the   *)
(* key, and one more than the slices of two chunks allow.                  *)
(***************************************************************************)
EXTENDS Accounts

MCAddresses == 1..9

\* The accounts 1 to n have had the key since block 0, but those of S lost it in block 1.
InitialRow(n, S) ==
  {[address |-> a, height |-> 0, holds |-> TRUE] : a \in 1..n} \cup
  {[address |-> a, height |-> 1, holds |-> FALSE] : a \in S}

MCInitialRows == {InitialRow(3, {}), InitialRow(6, {1, 3, 4, 5}), InitialRow(9, {})}

\* An account that has the key from the start on, and one that has it, or may get it.
MCChanging == {2, 6}
=============================================================================
