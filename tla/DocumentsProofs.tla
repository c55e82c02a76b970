-------------------------- MODULE DocumentsProofs --------------------------
(***************************************************************************)
(* Proofs about Documents: type correctness and the inductive invariant    *)
(* IInv, and from it that inventories and documents agree, that an         *)
(* accepted create never fails, that no account overdraws and that a saved *)
(* block never changes the owner of a document; on top of it AInv, and     *)
(* from it that an account is created once; and, with facts about totals   *)
(* over the accounts, MInv: every fee reaches the receiver, and no money   *)
(* is made or lost; and SInv: a signature is lost only to an update, or to *)
(* another operation on the document in the same block, and none appears   *)
(* that nobody sent.                                                       *)
(***************************************************************************)
EXTENDS Documents, FiniteSetTheorems, WellOrder

-----------------------------------------------------------------------------
(* Facts about the constants and the operators. *)

\* The fields of a fact have their types.
LEMMA FactTypes ==
  ASSUME NEW o \in Ops
  PROVE  /\ Sender(o) \in Accounts
         /\ ItemIds(o) \subseteq DocIds
         /\ Fact[o].kind \in ItemKinds =>
              \A d \in ItemIds(o) : Item(o, d).doc \in Doc /\ Item(o, d).cid \in Currencies
         /\ Fact[o].kind = "sign" =>
              \A d \in ItemIds(o) : Item(o, d).owner \in Accounts /\ Item(o, d).cid \in Currencies
         /\ ~IsDocumentOp(o) => Fact[o].cid \in Currencies
         /\ Fact[o].kind \in {"transfer", "create-accounts"} =>
              Fact[o].amount \in Nat /\ Fact[o].receiver \in Accounts
         /\ AccountSet(o) # {} => Fact[o].keys \in AccountKeys
<1>1. ValidFact(Fact[o])
  BY FactAssumption
<1>2. CASE Fact[o].kind \in {"create", "update"}
  BY <1>1, <1>2 DEF ValidFact, ValidItems, ItemKinds, DocumentKinds, IsDocumentOp,
                    Sender, ItemIds, Item, AccountSet
<1>3. CASE Fact[o].kind = "sign"
  BY <1>1, <1>3 DEF ValidFact, ValidItems, ItemKinds, DocumentKinds, IsDocumentOp,
                    Sender, ItemIds, Item, AccountSet
<1>4. CASE Fact[o].kind \notin DocumentKinds
  BY <1>1, <1>4 DEF ValidFact, ItemKinds, DocumentKinds, IsDocumentOp,
                    Sender, ItemIds, Item, AccountSet
<1> QED
  BY <1>2, <1>3, <1>4 DEF DocumentKinds

\* Fees, amounts and what an operation requires are amounts of each currency;
\* nothing is required of a currency the operation does not name.
LEMMA RequiredType ==
  ASSUME NEW o \in Ops
  PROVE  /\ FeeOf(o) \in [Currencies -> Nat]
         /\ AmountOf(o) \in [Currencies -> Nat]
         /\ Required(o) \in [Currencies -> Nat]
         /\ \A c \in Currencies \ CurrenciesOf(o) : Required(o)[c] = 0
<1>1. ASSUME NEW c \in Currencies
      PROVE  ItemCount(o, c) \in Nat /\ (c \notin CurrenciesOf(o) => ItemCount(o, c) = 0)
  <2> DEFINE D == {d \in ItemIds(o) : Item(o, d).cid = c}
  <2>1. IsFiniteSet(D) /\ Cardinality(D) \in Nat
    BY FactTypes, ConstantsAssumption, FS_Subset, FS_CardinalityType
  <2>2. ASSUME c \notin CurrenciesOf(o), IsDocumentOp(o) PROVE D = {}
    BY <2>2 DEF CurrenciesOf
  <2>3. Cardinality({}) = 0
    BY FS_EmptySet
  <2> HIDE DEF D
  <2>4. ItemCount(o, c) = IF IsDocumentOp(o) THEN Cardinality(D)
                          ELSE IF Fact[o].cid = c THEN 1 ELSE 0
    BY DEF ItemCount, D
  <2> QED
    BY <2>1, <2>2, <2>3, <2>4 DEF CurrenciesOf
<1>2. FeeOf(o) \in [Currencies -> Nat]
  <2> SUFFICES ASSUME NEW c \in Currencies, c \in DOMAIN Fee
               PROVE  ItemCount(o, c) * Fee[c] \in Nat
    BY DEF FeeOf
  <2>1. Fee[c] \in Nat
    BY ConstantsAssumption
  <2> QED
    BY <1>1, <2>1
<1>3. AmountOf(o) \in [Currencies -> Nat]
  BY FactTypes DEF AmountOf
<1>4. Required(o) \in [Currencies -> Nat]
  BY <1>2, <1>3 DEF Required
<1>5. ASSUME NEW c \in Currencies \ CurrenciesOf(o) PROVE Required(o)[c] = 0
  <2>1. FeeOf(o)[c] = 0
    <3>1. CASE c \in DOMAIN Fee
      <4>1. Fee[c] \in Nat /\ ItemCount(o, c) = 0
        BY <1>1, <3>1, ConstantsAssumption
      <4> QED
        BY <3>1, <4>1 DEF FeeOf
    <3>2. CASE c \notin DOMAIN Fee
      BY <3>2 DEF FeeOf
    <3> QED
      BY <3>1, <3>2
  <2>2. AmountOf(o)[c] = 0
    BY DEF AmountOf, CurrenciesOf, IsDocumentOp, DocumentKinds
  <2> QED
    BY <2>1, <2>2 DEF Required
<1> QED
  BY <1>2, <1>3, <1>4, <1>5

\* What an accepted operation requires is in the sender's balance.
LEMMA AcceptedBudget ==
  ASSUME NEW o \in Ops, TypeOK, NoOverdraft, Accepted(o), NEW c \in Currencies
  PROVE  Required(o)[c] <= balance[Sender(o)][c]
<1>1. Sender(o) \in Accounts /\ 0 <= balance[Sender(o)][c]
  BY FactTypes DEF NoOverdraft
<1>2. CASE c \in CurrenciesOf(o)
  BY <1>2 DEF Accepted, EnoughBalance
<1>3. CASE c \notin CurrenciesOf(o)
  BY <1>1, <1>3, RequiredType
<1> QED
  BY <1>2, <1>3

\* What an accepted operation captures: documents, new for a create, and
\* registered under the same owner for an update or a sign.
LEMMA AcceptedItems ==
  ASSUME NEW o \in Ops, TypeOK, Accepted(o)
  PROVE  /\ \A d \in ItemIds(o) : NewDoc(o, d) \in Doc
         /\ Fact[o].kind = "create" => \A d \in ItemIds(o) : ~Registered(d)
         /\ Fact[o].kind \in {"update", "sign"} =>
              \A d \in ItemIds(o) : Registered(d) /\ NewDoc(o, d).owner = docs[d].owner
<1>1. CASE Fact[o].kind = "create"
  <2>1. \A d \in ItemIds(o) : CreateItemAccepted(o, d)
    BY <1>1 DEF Accepted, ItemsAccepted, IsDocumentOp, DocumentKinds
  <2> QED
    BY <1>1, <2>1, FactTypes DEF CreateItemAccepted, NewDoc, ItemKinds
<1>2. CASE Fact[o].kind = "update"
  <2>1. \A d \in ItemIds(o) : UpdateItemAccepted(o, d)
    BY <1>2 DEF Accepted, ItemsAccepted, IsDocumentOp, DocumentKinds
  <2> QED
    BY <1>2, <2>1, FactTypes DEF UpdateItemAccepted, NewDoc, ItemKinds
<1>3. CASE Fact[o].kind = "sign"
  <2> SUFFICES ASSUME NEW d \in ItemIds(o)
               PROVE  /\ NewDoc(o, d) \in Doc
                      /\ Registered(d) /\ NewDoc(o, d).owner = docs[d].owner
    BY <1>3
  <2>1. SignItemAccepted(o, d)
    BY <1>3 DEF Accepted, ItemsAccepted, IsDocumentOp, DocumentKinds
  <2>2. docs[d] \in Doc /\ Sender(o) \in Accounts
    BY <2>1, FactTypes DEF SignItemAccepted, Registered, TypeOK
  <2> QED
    BY <1>3, <2>1, <2>2 DEF SignItemAccepted, NewDoc, Doc
<1>4. CASE Fact[o].kind \notin DocumentKinds
  BY <1>4 DEF ItemIds, IsDocumentOp, DocumentKinds
<1> QED
  BY <1>1, <1>2, <1>3, <1>4 DEF DocumentKinds

-----------------------------------------------------------------------------
(* The inductive invariant. *)

\* The first state satisfies it.
LEMMA InitIInv == Init => IInv
<1> SUFFICES ASSUME Init PROVE IInv
  OBVIOUS
<1>1. TypeOK
  BY ConstantsAssumption DEF Init, TypeOK, Nothing, NoFee, NoDelta
<1>2. NoOverdraft
  BY ConstantsAssumption DEF Init, NoOverdraft, NoFee, NoDelta
<1>3. Lifecycle /\ OneSender /\ CapturedFromState /\ Authorised
  BY DEF Init, Lifecycle, OneSender, CapturedFromState, Authorised, InProposal
<1>4. EntriesRegistered /\ DocumentsListed
  BY DEF Init, EntriesRegistered, DocumentsListed, Registered
<1>5. PoolExtendsState
  BY DEF Init, PoolExtendsState
<1>6. Budget
  BY DEF Init, Budget, NoDelta, NoFee
<1> QED
  BY <1>1, <1>2, <1>3, <1>4, <1>5, <1>6 DEF IInv

\* A new proposal starts from an idle processor.
LEMMA NewIInv ==
  ASSUME IInv, NEW S \in SUBSET (Ops \ included), New(S)
  PROVE  IInv'
<1> USE DEF New, saved, pool
<1>1. TypeOK'
  BY DEF IInv, TypeOK
<1>2. Lifecycle' /\ OneSender' /\ Authorised'
  BY DEF IInv, Lifecycle, OneSender, Authorised, InProposal, Exists, checkFactSignsByState
<1>3. EntriesRegistered' /\ DocumentsListed' /\ NoOverdraft'
  BY DEF IInv, EntriesRegistered, DocumentsListed, NoOverdraft, Registered
<1>4. CapturedFromState'
  BY DEF IInv, CapturedFromState, Registered
<1>5. PoolExtendsState'
  BY DEF IInv, PoolExtendsState, Registered
<1>6. Budget'
  BY DEF IInv, Budget
<1> QED
  BY <1>1, <1>2, <1>3, <1>4, <1>5, <1>6 DEF IInv

\* A refused operation only leaves the proposal.
LEMMA RefusedIInv ==
  ASSUME IInv, NEW o \in Ops,
         \/ PreProcessRefused(o)
         \/ PreProcessDuplicated(o)
         \/ PreProcessAddressDuplicated(o)
  PROVE  IInv'
<1> USE DEF PreProcessRefused, PreProcessDuplicated, PreProcessAddressDuplicated, saved, pool
<1>1. TypeOK'
  BY FactTypes DEF IInv, TypeOK
<1>2. Lifecycle' /\ OneSender'
  BY DEF IInv, Lifecycle, OneSender, InProposal
<1>3. EntriesRegistered' /\ DocumentsListed' /\ NoOverdraft' /\ Authorised'
  BY DEF IInv, EntriesRegistered, DocumentsListed, NoOverdraft, Authorised,
         InProposal, Registered, Exists, checkFactSignsByState
<1>4. CapturedFromState'
  BY DEF IInv, CapturedFromState, Registered
<1>5. PoolExtendsState'
  BY DEF IInv, PoolExtendsState, Registered
<1>6. Budget'
  BY DEF IInv, Budget
<1> QED
  BY <1>1, <1>2, <1>3, <1>4, <1>5, <1>6 DEF IInv

\* An accepted operation becomes prepared: what it captured holds of the state,
\* its budget is there, and no other operation of its sender is in the proposal.
LEMMA PreProcessIInv ==
  ASSUME IInv, NEW o \in Ops, PreProcess(o)
  PROVE  IInv'
<1> USE DEF PreProcess, DuplicatedSender, saved, pool
<1>1. TypeOK /\ NoOverdraft /\ Accepted(o) /\ o \in pending /\ phase = "processing"
  BY DEF IInv, Lifecycle
<1>2. o \notin InProposal
  BY DEF IInv, Lifecycle
<1>3. /\ \A d \in ItemIds(o) : NewDoc(o, d) \in Doc
      /\ Fact[o].kind = "create" => \A d \in ItemIds(o) : ~Registered(d)
      /\ Fact[o].kind \in {"update", "sign"} =>
           \A d \in ItemIds(o) : Registered(d) /\ NewDoc(o, d).owner = docs[d].owner
  BY <1>1, AcceptedItems
<1>4. ItemIds(o) \subseteq DocIds /\ Sender(o) \in Accounts
  BY FactTypes
<1>5. TypeOK'
  <2>1. Captured(o) \in [docs: [DocIds -> Doc \cup {NoDoc}], inventory: SUBSET DocIds]
    BY <1>1, <1>3, <1>4 DEF Captured, TypeOK
  <2>2. NewAddresses(o) \subseteq Accounts
    BY FactTypes DEF NewAddresses
  <2> QED
    BY <1>1, <1>4, <2>1, <2>2 DEF TypeOK
<1>6. Lifecycle'
  BY <1>1, <1>2 DEF IInv, Lifecycle, InProposal
<1>7. OneSender'
  BY <1>1, <1>2 DEF IInv, OneSender, InProposal
<1>8. EntriesRegistered' /\ DocumentsListed' /\ NoOverdraft'
  BY DEF IInv, EntriesRegistered, DocumentsListed, NoOverdraft, Registered
<1>9. Authorised'
  BY <1>1 DEF IInv, Authorised, InProposal, Accepted, Exists, checkFactSignsByState
<1>10. CapturedFromState'
  <2>1. captured'[o] = Captured(o) /\ \A p \in Ops \ {o} : captured'[p] = captured[p]
    BY <1>1 DEF TypeOK
  <2>2. /\ \A d \in ItemIds(o) : Captured(o).docs[d] = NewDoc(o, d)
        /\ Fact[o].kind = "create" => Captured(o).inventory = inventory[Sender(o)]
    BY <1>4 DEF Captured
  <2> SUFFICES ASSUME NEW p \in prepared'
               PROVE  /\ \A d \in ItemIds(p) : captured'[p].docs[d] \in Doc
                      /\ Fact[p].kind = "create" =>
                           /\ captured'[p].inventory = inventory[Sender(p)]
                           /\ \A d \in ItemIds(p) : ~Registered(d)
                      /\ Fact[p].kind \in {"update", "sign"} =>
                           \A d \in ItemIds(p) :
                             Registered(d) /\ captured'[p].docs[d].owner = docs[d].owner
    BY DEF CapturedFromState, Registered
  <2>3. CASE p = o
    BY <1>3, <2>1, <2>2, <2>3
  <2>4. CASE p # o
    BY <1>1, <2>1, <2>4 DEF IInv, CapturedFromState, TypeOK
  <2> QED
    BY <2>3, <2>4
<1>11. PoolExtendsState'
  BY DEF IInv, PoolExtendsState, Registered
<1>12. Budget'
  <2>1. \A c \in Currencies : Required(o)[c] <= balance[Sender(o)][c]
    BY <1>1, AcceptedBudget
  <2> QED
    BY <2>1 DEF IInv, Budget
<1> QED
  BY <1>5, <1>6, <1>7, <1>8, <1>9, <1>10, <1>11, <1>12 DEF IInv

\* A create the invariant holds of is never refused by dinv.Append: the captured
\* inventory lists registered documents only, the items' documents are not.
LEMMA NoAppendFails ==
  ASSUME IInv, NEW o \in prepared
  PROVE  ~AppendFails(o)
<1>1. o \in Ops /\ Sender(o) \in Accounts
  BY FactTypes DEF IInv, TypeOK
<1> QED
  BY <1>1 DEF IInv, AppendFails, CapturedFromState, EntriesRegistered

\* A processed operation writes into the pool what it captured.
LEMMA ProcessIInv ==
  ASSUME IInv, NEW o \in Ops, Process(o)
  PROVE  IInv'
<1> USE DEF saved
<1>1. /\ o \in prepared /\ prepared' = prepared \ {o}
      /\ setState(o)
      /\ UNCHANGED <<account, held, balance, docs, inventory, included, phase,
                     pending, captured, duplicated, duplicatedNewAddress>>
  BY NoAppendFails DEF Process
<1>2. TypeOK /\ o \notin processed /\ processed' = processed \cup {o}
  BY <1>1 DEF IInv, Lifecycle, setState
<1>3. ItemIds(o) \subseteq DocIds /\ Sender(o) \in Accounts
  BY FactTypes
<1>4. \A p \in processed : Sender(p) # Sender(o)
  BY <1>1, <1>2 DEF IInv, OneSender, InProposal
<1>5. FeeOf(o) \in [Currencies -> Nat] /\ Required(o) \in [Currencies -> Nat]
  BY RequiredType
<1>6. TypeOK'
  <2>1. fee' \in [Currencies -> Nat]
    BY <1>1, <1>2, <1>5 DEF setState, FeesWith, TypeOK
  <2>2. poolSub' \in [Accounts -> [Currencies -> Nat]]
    BY <1>1, <1>2, <1>3, <1>5 DEF setState, TypeOK
  <2>3. poolAdd' \in [Accounts -> [Currencies -> Nat]]
    <3>1. \A a \in Accounts : Credited(o, a) \in [Currencies -> Nat]
      BY RequiredType DEF Credited, NoFee
    <3> QED
      BY <1>1, <1>2, <3>1 DEF setState, TypeOK
  <2>4. poolAccount' \in [Accounts -> AccountKeys \cup {NoAccount}]
    BY <1>1, <1>2, FactTypes DEF setState, TypeOK
  <2>5. poolDocs' \in [DocIds -> Doc \cup {NoDoc}]
    BY <1>1, <1>2 DEF setState, TypeOK
  <2>6. poolInventory' \in [Accounts -> SUBSET DocIds]
    BY <1>1, <1>2, <1>3 DEF setState, TypeOK
  <2> QED
    BY <1>1, <1>2, <2>1, <2>2, <2>3, <2>4, <2>5, <2>6 DEF TypeOK
<1>7. Lifecycle' /\ OneSender'
  BY <1>1, <1>2 DEF IInv, Lifecycle, OneSender, InProposal
<1>8. EntriesRegistered' /\ DocumentsListed'
  BY <1>1 DEF IInv, EntriesRegistered, DocumentsListed, Registered
<1>9. Authorised' /\ CapturedFromState'
  BY <1>1, <1>2 DEF IInv, Authorised, InProposal, CapturedFromState, Registered,
                    Exists, checkFactSignsByState
<1>10. Budget' /\ NoOverdraft'
  <2>1. \A c \in Currencies : poolSub'[Sender(o)][c] = Required(o)[c]
    <3>1. \A c \in Currencies : poolSub[Sender(o)][c] = 0
      BY <1>3, <1>4 DEF IInv, Budget
    <3> QED
      BY <1>1, <1>2, <1>3, <1>5, <3>1 DEF setState, TypeOK
  <2>2. \A a \in Accounts \ {Sender(o)} : poolSub'[a] = poolSub[a]
    BY <1>1, <1>2 DEF setState, TypeOK
  <2>3. \A c \in Currencies : Required(o)[c] <= balance[Sender(o)][c]
    BY <1>1 DEF IInv, Budget
  <2>4. NoOverdraft'
    BY <1>1, <1>3, <2>1, <2>2, <2>3 DEF IInv, NoOverdraft
  <2>5. \A p \in prepared', c \in Currencies : Required(p)[c] <= balance'[Sender(p)][c]
    BY <1>1 DEF IInv, Budget
  <2>6. ASSUME NEW a \in Accounts, \A p \in processed' : Sender(p) # a, NEW c \in Currencies
        PROVE  poolSub'[a][c] = 0
    BY <1>2, <2>2, <2>6 DEF IInv, Budget
  <2> QED
    BY <2>4, <2>5, <2>6 DEF Budget
<1>11. PoolExtendsState'
  <2>1. ASSUME NEW d \in ItemIds(o)
        PROVE  /\ d \in DocIds /\ poolDocs'[d] = captured[o].docs[d]
               /\ poolDocs'[d] # NoDoc
    <3>1. poolDocs'[d] = captured[o].docs[d]
      BY <1>1, <1>3 DEF setState
    <3>2. captured[o].docs[d] \in Doc
      BY <1>1 DEF IInv, CapturedFromState
    <3> QED
      BY <1>3, <3>1, <3>2, ConstantsAssumption
  <2>2. \A d \in DocIds \ ItemIds(o) : poolDocs'[d] = poolDocs[d]
    BY <1>1 DEF setState
  <2>3. ASSUME Fact[o].kind = "create"
        PROVE  /\ poolInventory'[Sender(o)] = inventory[Sender(o)] \cup ItemIds(o)
               /\ poolInventory[Sender(o)] = {}
               /\ \A a \in Accounts \ {Sender(o)} : poolInventory'[a] = poolInventory[a]
               /\ \A d \in ItemIds(o) : ~Registered(d)
    <3>1. /\ captured[o].inventory = inventory[Sender(o)]
          /\ \A d \in ItemIds(o) : ~Registered(d)
      BY <1>1, <2>3 DEF IInv, CapturedFromState
    <3>2. poolInventory[Sender(o)] = {}
      BY <1>3, <1>4 DEF IInv, PoolExtendsState
    <3> QED
      BY <1>1, <1>3, <2>3, <3>1, <3>2 DEF setState
  <2>4. ASSUME Fact[o].kind # "create" PROVE poolInventory' = poolInventory
    BY <1>1, <1>2, <2>4 DEF setState, TypeOK
  <2>5. ASSUME Fact[o].kind # "create", NEW d \in ItemIds(o)
        PROVE  Registered(d) /\ poolDocs'[d].owner = docs[d].owner
    <3>1. Fact[o].kind \in {"update", "sign"}
      BY <2>5 DEF ItemIds, IsDocumentOp, DocumentKinds
    <3> QED
      BY <1>1, <2>1, <2>5, <3>1 DEF IInv, CapturedFromState
  <2>6. ASSUME NEW d \in DocIds, poolDocs'[d] # NoDoc
        PROVE  IF Registered(d) THEN poolDocs'[d].owner = docs[d].owner
               ELSE \E a \in Accounts : d \in poolInventory'[a]
    <3>1. CASE d \in ItemIds(o) /\ Fact[o].kind = "create"
      BY <1>3, <2>3, <3>1
    <3>2. CASE d \in ItemIds(o) /\ Fact[o].kind # "create"
      BY <2>5, <3>2
    <3>3. CASE d \notin ItemIds(o)
      <4>1. poolDocs'[d] = poolDocs[d] /\ poolDocs[d] # NoDoc
        BY <2>2, <2>6, <3>3
      <4>2. CASE Registered(d)
        BY <4>1, <4>2 DEF IInv, PoolExtendsState
      <4>3. CASE ~Registered(d)
        <5>1. PICK a \in Accounts : d \in poolInventory[a]
          BY <4>1, <4>3 DEF IInv, PoolExtendsState
        <5>2. d \in poolInventory'[a]
          BY <2>3, <2>4, <5>1
        <5> QED
          BY <4>3, <5>2
      <4> QED
        BY <4>2, <4>3
    <3> QED
      BY <3>1, <3>2, <3>3
  <2>7. ASSUME NEW a \in Accounts, poolInventory'[a] # {}
        PROVE  /\ inventory[a] \subseteq poolInventory'[a]
               /\ \A d \in poolInventory'[a] \ inventory[a] : ~Registered(d)
               /\ \E p \in processed' : Sender(p) = a
               /\ \A d \in poolInventory'[a] : Registered(d) \/ poolDocs'[d] # NoDoc
    <3>1. CASE Fact[o].kind = "create" /\ a = Sender(o)
      BY <1>2, <2>1, <2>3, <3>1 DEF IInv, EntriesRegistered
    <3>2. CASE ~(Fact[o].kind = "create" /\ a = Sender(o))
      <4>1. poolInventory'[a] = poolInventory[a] /\ poolInventory[a] \subseteq DocIds
        BY <1>2, <2>3, <2>4, <3>2 DEF TypeOK
      <4>2. \A d \in poolInventory[a] : Registered(d) \/ poolDocs[d] # NoDoc
        BY <2>7, <4>1 DEF IInv, PoolExtendsState
      <4>3. \A d \in poolInventory[a] : Registered(d) \/ poolDocs'[d] # NoDoc
        BY <2>1, <2>2, <4>1, <4>2
      <4> QED
        BY <1>2, <2>7, <4>1, <4>3 DEF IInv, PoolExtendsState
    <3> QED
      BY <3>1, <3>2
  <2> QED
    BY <1>1, <2>6, <2>7 DEF PoolExtendsState, Registered
<1> QED
  BY <1>6, <1>7, <1>8, <1>9, <1>10, <1>11 DEF IInv

\* Close only moves the collected fees.
LEMMA CloseIInv ==
  ASSUME IInv, Close
  PROVE  IInv'
<1> USE DEF Close, saved
<1>1. TypeOK'
  <2>1. \A c \in Currencies : poolAdd[FeeReceiver][c] + fee[c] \in Nat
    BY ConstantsAssumption DEF IInv, TypeOK
  <2> QED
    BY <2>1, ConstantsAssumption DEF IInv, TypeOK, Nothing, NoFee
<1>2. Lifecycle' /\ OneSender'
  BY DEF IInv, Lifecycle, OneSender, InProposal
<1>3. EntriesRegistered' /\ DocumentsListed' /\ NoOverdraft' /\ Authorised'
  BY DEF IInv, EntriesRegistered, DocumentsListed, NoOverdraft, Authorised,
         InProposal, Registered, Exists, checkFactSignsByState
<1>4. CapturedFromState'
  BY DEF CapturedFromState
<1>5. PoolExtendsState'
  BY DEF IInv, PoolExtendsState, Registered
<1>6. Budget'
  BY DEF IInv, Budget
<1> QED
  BY <1>1, <1>2, <1>3, <1>4, <1>5, <1>6 DEF IInv

\* A dropped proposal leaves no trace in the processor or in the pool.
LEMMA closeIInv ==
  ASSUME close, EntriesRegistered', DocumentsListed',
         account' \in [Accounts -> AccountKeys \cup {NoAccount}],
         held' \in [Accounts -> SUBSET Currencies],
         balance' \in [Accounts -> [Currencies -> Nat]],
         docs' \in [DocIds -> Doc \cup {NoDoc}],
         inventory' \in [Accounts -> SUBSET DocIds],
         included' \subseteq Ops
  PROVE  IInv'
<1> USE DEF close
<1>1. TypeOK'
  BY DEF TypeOK, Nothing, NoFee, NoDelta
<1>2. Lifecycle' /\ OneSender' /\ CapturedFromState' /\ Authorised'
  BY DEF Lifecycle, OneSender, CapturedFromState, Authorised, InProposal
<1>3. PoolExtendsState'
  BY DEF PoolExtendsState
<1>4. Budget' /\ NoOverdraft'
  BY DEF Budget, NoOverdraft, NoDelta, NoFee
<1> QED
  BY <1>1, <1>2, <1>3, <1>4 DEF IInv

\* The amounts of the state are natural numbers as long as nobody overdraws.
LEMMA BalanceType ==
  ASSUME IInv
  PROVE  balance \in [Accounts -> [Currencies -> Nat]]
<1>1. \A a \in Accounts : balance[a] \in [Currencies -> Int]
  BY DEF IInv, TypeOK
<1>2. \A a \in Accounts, c \in Currencies : balance[a][c] \in Nat
  BY <1>1 DEF IInv, NoOverdraft
<1> QED
  BY <1>1, <1>2 DEF IInv, TypeOK

\* The pool is dropped, the state stays.
LEMMA CancelIInv ==
  ASSUME IInv, Cancel
  PROVE  IInv'
<1>1. close /\ UNCHANGED <<account, held, balance, docs, inventory, included>>
  BY DEF Cancel, saved
<1>2. EntriesRegistered' /\ DocumentsListed'
  BY <1>1 DEF IInv, EntriesRegistered, DocumentsListed, Registered
<1> QED
  BY <1>1, <1>2, closeIInv, BalanceType DEF IInv, TypeOK

\* The block is saved: the pool extends the state, so that inventories and
\* documents still agree.
LEMMA SaveIInv ==
  ASSUME IInv, Save
  PROVE  IInv'
<1>1. TypeOK /\ close
  BY DEF IInv, Save
<1>2. \A d \in DocIds : docs'[d] = IF poolDocs[d] # NoDoc THEN poolDocs[d] ELSE docs[d]
  BY DEF Save
<1>3. \A a \in Accounts :
        inventory'[a] = IF poolInventory[a] # {} THEN poolInventory[a] ELSE inventory[a]
  BY DEF Save
<1>4. EntriesRegistered'
  <2> SUFFICES ASSUME NEW a \in Accounts, NEW d \in inventory'[a]
               PROVE  docs'[d] # NoDoc
    BY DEF EntriesRegistered, Registered
  <2>1. d \in DocIds
    BY <1>1, <1>3 DEF TypeOK
  <2>2. Registered(d) \/ poolDocs[d] # NoDoc
    BY <1>3 DEF IInv, EntriesRegistered, PoolExtendsState
  <2> QED
    BY <1>2, <2>1, <2>2 DEF Registered
<1>5. DocumentsListed'
  <2> SUFFICES ASSUME NEW d \in DocIds, docs'[d] # NoDoc
               PROVE  \E a \in Accounts : d \in inventory'[a]
    BY DEF DocumentsListed, Registered
  <2>1. CASE Registered(d)
    <3>1. PICK a \in Accounts : d \in inventory[a]
      BY <2>1 DEF IInv, DocumentsListed
    <3> QED
      BY <1>3, <3>1 DEF IInv, PoolExtendsState
  <2>2. CASE ~Registered(d)
    <3>1. poolDocs[d] # NoDoc
      BY <1>2, <2>2 DEF Registered
    <3>2. PICK a \in Accounts : d \in poolInventory[a]
      BY <2>2, <3>1 DEF IInv, PoolExtendsState
    <3> QED
      BY <1>3, <3>2
  <2> QED
    BY <2>1, <2>2
<1>6. balance' \in [Accounts -> [Currencies -> Nat]]
  <2> SUFFICES ASSUME NEW a \in Accounts, NEW c \in Currencies
               PROVE  balance[a][c] - poolSub[a][c] + poolAdd[a][c] \in Nat
    BY DEF Save
  <2>1. balance[a][c] \in Int /\ poolSub[a][c] \in Nat /\ poolAdd[a][c] \in Nat
    BY <1>1 DEF TypeOK
  <2>2. poolSub[a][c] <= balance[a][c]
    BY DEF IInv, NoOverdraft
  <2> QED
    BY <2>1, <2>2
<1>7. /\ account' \in [Accounts -> AccountKeys \cup {NoAccount}]
      /\ held' \in [Accounts -> SUBSET Currencies]
      /\ docs' \in [DocIds -> Doc \cup {NoDoc}]
      /\ inventory' \in [Accounts -> SUBSET DocIds]
      /\ included' \subseteq Ops
  BY <1>1 DEF TypeOK, Save
<1> QED
  BY <1>1, <1>4, <1>5, <1>6, <1>7, closeIInv

\* Every step of the processor preserves the invariant.
LEMMA NextIInv == IInv /\ [Next]_vars => IInv'
<1> SUFFICES ASSUME IInv, [Next]_vars PROVE IInv'
  OBVIOUS
<1>1. ASSUME NEW S \in SUBSET (Ops \ included), New(S) PROVE IInv'
  BY <1>1, NewIInv
<1>2. ASSUME NEW o \in Ops,
             \/ PreProcessRefused(o)
             \/ PreProcessDuplicated(o)
             \/ PreProcessAddressDuplicated(o)
      PROVE  IInv'
  BY <1>2, RefusedIInv
<1>3. ASSUME NEW o \in Ops, PreProcess(o) PROVE IInv'
  BY <1>3, PreProcessIInv
<1>4. ASSUME NEW o \in Ops, Process(o) PROVE IInv'
  BY <1>4, ProcessIInv
<1>5. CASE Close
  BY <1>5, CloseIInv
<1>6. CASE Save
  BY <1>6, SaveIInv
<1>7. CASE Cancel
  BY <1>7, CancelIInv
<1>8. CASE UNCHANGED vars
  <2>1. UNCHANGED <<account, held, balance, docs, inventory, included, phase, pending,
                    prepared, captured, duplicated, duplicatedNewAddress, fee, processed,
                    poolAccount, poolDocs, poolInventory, poolSub, poolAdd>>
    BY <1>8 DEF vars, saved, processor, pool
  <2>2. TypeOK'
    BY <2>1 DEF IInv, TypeOK
  <2>3. Lifecycle' /\ OneSender' /\ Authorised'
    BY <2>1 DEF IInv, Lifecycle, OneSender, Authorised, InProposal, Exists,
                checkFactSignsByState
  <2>4. EntriesRegistered' /\ DocumentsListed' /\ NoOverdraft'
    BY <2>1 DEF IInv, EntriesRegistered, DocumentsListed, NoOverdraft, Registered
  <2>5. CapturedFromState' /\ PoolExtendsState'
    BY <2>1 DEF IInv, CapturedFromState, PoolExtendsState, Registered
  <2>6. Budget'
    BY <2>1 DEF IInv, Budget
  <2> QED
    BY <2>2, <2>3, <2>4, <2>5, <2>6 DEF IInv
<1> QED
  BY <1>1, <1>2, <1>3, <1>4, <1>5, <1>6, <1>7, <1>8 DEF Next

-----------------------------------------------------------------------------
(* The theorems. *)

\* The inductive invariant holds in every state of every behaviour.
THEOREM Invariance == Spec => []IInv
<1> QED
  BY InitIInv, NextIInv, PTL DEF Spec

\* Type correctness.
THEOREM TypeCorrect == Spec => []TypeOK
<1>1. IInv => TypeOK
  BY DEF IInv
<1> QED
  BY <1>1, Invariance, PTL

\* Every entry of an inventory names a registered document, however the proposals interleave.
THEOREM EntriesAreRegistered == Spec => []EntriesRegistered
<1>1. IInv => EntriesRegistered
  BY DEF IInv
<1> QED
  BY <1>1, Invariance, PTL

\* No operation of a proposal overwrites the entry of another: every registered document is
\* in an inventory.
THEOREM DocumentsAreListed == Spec => []DocumentsListed
<1>1. IInv => DocumentsListed
  BY DEF IInv
<1> QED
  BY <1>1, Invariance, PTL

\* An accepted create does not fail in Process.
THEOREM CreateSucceeds == Spec => []AppendSucceeds
<1>1. IInv => AppendSucceeds
  BY NoAppendFails DEF AppendSucceeds
<1> QED
  BY <1>1, Invariance, PTL

\* No interleaving of the operations of a proposal overdraws an account.
THEOREM NobodyOverdraws == Spec => []NoOverdraft
<1>1. IInv => NoOverdraft
  BY DEF IInv
<1> QED
  BY <1>1, Invariance, PTL

\* A registered document stays registered, under the owner it was given.
THEOREM OwnerNeverChanges == Spec => OwnerStable
<1> DEFINE Stable == \A d \in DocIds :
             Registered(d) => docs'[d] # NoDoc /\ docs'[d].owner = docs[d].owner
<1>1. ASSUME IInv, [Next]_vars PROVE Stable
  <2>1. CASE Save
    <3> SUFFICES ASSUME NEW d \in DocIds, Registered(d)
                 PROVE  docs'[d] # NoDoc /\ docs'[d].owner = docs[d].owner
      OBVIOUS
    <3>1. docs'[d] = IF poolDocs[d] # NoDoc THEN poolDocs[d] ELSE docs[d]
      BY <2>1 DEF Save
    <3>2. poolDocs[d] # NoDoc => poolDocs[d].owner = docs[d].owner
      BY <1>1 DEF IInv, PoolExtendsState
    <3> QED
      BY <3>1, <3>2 DEF Registered
  <2>2. CASE ~Save
    <3>1. docs' = docs
      BY <1>1, <2>2 DEF Next, New, PreProcessRefused, PreProcessDuplicated,
         PreProcessAddressDuplicated, PreProcess, Process, Close, Cancel, vars, saved
    <3> QED
      BY <3>1 DEF Registered
  <2> QED
    BY <2>1, <2>2
<1>2. IInv /\ [Next]_vars => [Stable]_vars
  BY <1>1
<1> QED
  BY <1>2, Invariance, PTL DEF Spec, OwnerStable

\* No operation enters a block without the signs of its sender's keys.
THEOREM OnlyAuthorisedIncluded == Spec => IncludedAuthorised
<1> DEFINE Signed == \A o \in NewlyIncluded : Exists(Sender(o)) /\ checkFactSignsByState(o)
<1>1. ASSUME IInv, [Next]_vars PROVE Signed
  <2>1. CASE Save
    <3>1. NewlyIncluded \subseteq InProposal
      BY <2>1 DEF Save, NewlyIncluded, InProposal
    <3> QED
      BY <1>1, <3>1 DEF IInv, Authorised
  <2>2. CASE ~Save
    <3>1. included' = included
      BY <1>1, <2>2 DEF Next, New, PreProcessRefused, PreProcessDuplicated,
         PreProcessAddressDuplicated, PreProcess, Process, Close, Cancel, vars, saved
    <3> QED
      BY <3>1 DEF NewlyIncluded
  <2> QED
    BY <2>1, <2>2
<1>2. IInv /\ [Next]_vars => [Signed]_vars
  BY <1>1
<1> QED
  BY <1>2, Invariance, PTL DEF Spec, IncludedAuthorised

\* Every step is a block of the abstract registry or leaves it as it is.
LEMMA SaveIsBlock ==
  ASSUME IInv, Save
  PROVE  Registry!Next
<1> DEFINE new == {d \in DocIds : ~Registered(d) /\ poolDocs[d] # NoDoc}
           owners == [d \in new |-> poolDocs[d].owner]
           listers == [d \in new |-> {a \in Accounts : d \in poolInventory[a]}]
<1>1. TypeOK
  BY DEF IInv
<1>2. new \subseteq Registry!Unregistered
  BY DEF Registry!Unregistered, OwnerOf
<1>3. owners \in [new -> Accounts]
  BY <1>1 DEF TypeOK, Doc
<1>4. [d \in DocIds |-> OwnerOf(d)]' =
        [d \in DocIds |-> IF d \in new THEN owners[d] ELSE [e \in DocIds |-> OwnerOf(e)][d]]
  <2> SUFFICES ASSUME NEW d \in DocIds
               PROVE  OwnerOf(d)' = IF d \in new THEN owners[d] ELSE OwnerOf(d)
    OBVIOUS
  <2>1. docs'[d] = IF poolDocs[d] # NoDoc THEN poolDocs[d] ELSE docs[d]
    BY DEF Save
  <2>2. poolDocs[d] # NoDoc /\ Registered(d) => poolDocs[d].owner = docs[d].owner
    BY DEF IInv, PoolExtendsState
  <2> QED
    BY <2>1, <2>2 DEF OwnerOf, Registered
<1>5. listers \in [new -> SUBSET Accounts] /\ \A d \in new : listers[d] # {}
  BY DEF IInv, PoolExtendsState
<1>6. inventory' = [a \in Accounts |-> inventory[a] \cup {d \in new : a \in listers[d]}]
  <2> SUFFICES ASSUME NEW a \in Accounts
               PROVE  (IF poolInventory[a] # {} THEN poolInventory[a] ELSE inventory[a])
                      = inventory[a] \cup {d \in new : a \in listers[d]}
    BY DEF Save
  <2>1. {d \in new : a \in listers[d]} = {d \in new : d \in poolInventory[a]}
    OBVIOUS
  <2>2. CASE poolInventory[a] = {}
    BY <2>1, <2>2
  <2>3. CASE poolInventory[a] # {}
    <3>1. poolInventory[a] \subseteq DocIds /\ inventory[a] \subseteq poolInventory[a]
      BY <1>1, <2>3 DEF TypeOK, IInv, PoolExtendsState
    <3>2. \A d \in poolInventory[a] \ inventory[a] : ~Registered(d) /\ poolDocs[d] # NoDoc
      BY <2>3 DEF IInv, PoolExtendsState
    <3> QED
      BY <2>1, <2>3, <3>1, <3>2
  <2> QED
    BY <2>2, <2>3
<1> HIDE DEF new, owners, listers
<1>7. Registry!Block(new)
  BY <1>2, <1>3, <1>4, <1>5, <1>6 DEF Registry!Block
<1>8. new \in SUBSET DocIds
  BY DEF new
<1> QED
  BY <1>7, <1>8 DEF Registry!Next

\* The operation processor implements the registry.
THEOREM RegistryImplemented == Spec => ImplementsRegistry
<1>1. Init => Registry!Init
  BY DEF Init, Registry!Init, OwnerOf, Registered
<1>2. ASSUME IInv, [Next]_vars PROVE [Registry!Next]_(Registry!vars)
  <2>1. CASE Save
    BY <1>2, <2>1, SaveIsBlock
  <2>2. CASE ~Save
    <3>1. UNCHANGED <<docs, inventory>>
      BY <1>2, <2>2 DEF Next, New, PreProcessRefused, PreProcessDuplicated,
         PreProcessAddressDuplicated, PreProcess, Process, Close, Cancel, vars, saved
    <3> QED
      BY <3>1 DEF Registry!vars, OwnerOf, Registered
  <2> QED
    BY <2>1, <2>2
<1> QED
  BY <1>1, <1>2, Invariance, PTL DEF Spec, ImplementsRegistry, Registry!Spec

-----------------------------------------------------------------------------
(* Accounts are created once: AInv, on top of IInv.  The check for new addresses covers  *)
(* one proposal, the processor's own check the blocks before it.                          *)

\* The first state satisfies it.
LEMMA InitAInv == Init => AInv
BY DEF Init, AInv, InProposal

\* What moves no operation into the proposal and creates no account keeps it.
LEMMA UntouchedAInv ==
  ASSUME AInv, UNCHANGED <<account, included, prepared, processed, poolAccount>>,
         duplicatedNewAddress' = duplicatedNewAddress \/ phase' # "processing",
         phase' = "processing" => phase = "processing" \/ InProposal = {}
  PROVE  AInv'
BY DEF AInv, InProposal, CreatesAccount, Exists

\* The operation that is prepared creates an account that no other one creates.
LEMMA PreProcessAInv ==
  ASSUME IInv, AInv, NEW o \in Ops, PreProcess(o)
  PROVE  AInv'
<1>1. /\ phase = "processing" /\ phase' = phase
      /\ prepared' = prepared \cup {o}
      /\ duplicatedNewAddress' = duplicatedNewAddress \cup NewAddresses(o)
      /\ UNCHANGED <<account, included, processed, poolAccount>>
  BY DEF IInv, Lifecycle, PreProcess, saved, pool
<1>2. \A a \in Accounts : CreatesAccount(o, a) =>
        a \in NewAddresses(o) /\ a \notin duplicatedNewAddress /\ ~Exists(a)
  <2>1. Fact[o].kind = "create-accounts" => CurrencyOpAccepted(o)
    BY DEF PreProcess, Accepted, IsDocumentOp, DocumentKinds
  <2>2. NewAddresses(o) \cap duplicatedNewAddress = {}
    BY DEF PreProcess, DuplicatedAddress
  <2> QED
    BY <2>1, <2>2 DEF CreatesAccount, NewAddresses, CurrencyOpAccepted
<1> SUFFICES ASSUME NEW a \in Accounts
             PROVE  /\ \A p \in InProposal' : CreatesAccount(p, a) => ~Exists(a)
                    /\ \A p \in InProposal' : CreatesAccount(p, a) => a \in duplicatedNewAddress'
                    /\ \A p, q \in InProposal' :
                         CreatesAccount(p, a) /\ CreatesAccount(q, a) => p = q
                    /\ \A p \in processed : CreatesAccount(p, a) => poolAccount[a] # NoAccount
                    /\ \A p \in included : CreatesAccount(p, a) => Exists(a)
                    /\ \A p, q \in included : CreatesAccount(p, a) /\ CreatesAccount(q, a) => p = q
  BY <1>1 DEF AInv, Exists, CreatesAccount
<1>3. InProposal' = InProposal \cup {o}
  BY <1>1 DEF InProposal
<1> QED
  BY <1>1, <1>2, <1>3 DEF AInv

\* A processed operation writes the account it creates.
LEMMA ProcessAInv ==
  ASSUME IInv, AInv, NEW o \in Ops, Process(o)
  PROVE  AInv'
<1>1. /\ TypeOK /\ o \in prepared /\ prepared' = prepared \ {o}
      /\ processed' = processed \cup {o}
      /\ poolAccount' = [a \in Accounts |->
                           IF a \in AccountSet(o) THEN Fact[o].keys ELSE poolAccount[a]]
      /\ UNCHANGED <<account, included, phase, duplicatedNewAddress>>
  BY NoAppendFails DEF IInv, Process, setState, saved
<1>2. InProposal' = InProposal
  BY <1>1 DEF InProposal
<1>3. AccountSet(o) # {} => Fact[o].keys # NoAccount
  BY FactTypes, ConstantsAssumption
<1>4. \A a \in Accounts : \A p \in processed' : CreatesAccount(p, a) => poolAccount'[a] # NoAccount
  BY <1>1, <1>3 DEF AInv, CreatesAccount, AccountSet
<1> QED
  BY <1>1, <1>2, <1>4 DEF AInv, CreatesAccount, Exists

\* A saved block has created the accounts of its operations.
LEMMA SaveAInv ==
  ASSUME IInv, AInv, Save
  PROVE  AInv'
<1>1. /\ included' = included \cup processed
      /\ account' = [a \in Accounts |->
                       IF poolAccount[a] # NoAccount THEN poolAccount[a] ELSE account[a]]
      /\ prepared' = {} /\ processed' = {}
  BY DEF Save, close
<1>2. InProposal' = {} /\ processed \subseteq InProposal
  BY <1>1 DEF InProposal
<1>3. \A a \in Accounts : Exists(a) \/ poolAccount[a] # NoAccount => Exists(a)'
  BY <1>1 DEF Exists
<1> QED
  BY <1>1, <1>2, <1>3 DEF AInv, CreatesAccount

\* Every step preserves it.
LEMMA NextAInv == IInv /\ AInv /\ [Next]_vars => AInv'
<1> SUFFICES ASSUME IInv, AInv, [Next]_vars PROVE AInv'
  OBVIOUS
<1>1. ASSUME NEW S \in SUBSET (Ops \ included), New(S) PROVE AInv'
  <2>1. /\ UNCHANGED <<account, included, prepared, processed, poolAccount, duplicatedNewAddress>>
        /\ phase = "idle"
    BY <1>1 DEF New, saved, pool
  <2>2. InProposal = {}
    BY <2>1 DEF IInv, Lifecycle, InProposal
  <2> QED
    BY <2>1, <2>2, UntouchedAInv
<1>2. ASSUME NEW o \in Ops,
             PreProcessRefused(o) \/ PreProcessDuplicated(o) \/ PreProcessAddressDuplicated(o)
      PROVE  AInv'
  <2>1. UNCHANGED <<account, included, prepared, processed, poolAccount, phase,
                    duplicatedNewAddress>>
    BY <1>2 DEF PreProcessRefused, PreProcessDuplicated, PreProcessAddressDuplicated, saved, pool
  <2> QED
    BY <2>1, UntouchedAInv
<1>3. ASSUME NEW o \in Ops, PreProcess(o) PROVE AInv'
  BY <1>3, PreProcessAInv
<1>4. ASSUME NEW o \in Ops, Process(o) PROVE AInv'
  BY <1>4, ProcessAInv
<1>5. CASE Close
  <2>1. /\ UNCHANGED <<account, included, prepared, processed, poolAccount>>
        /\ phase' = "closed"
    BY <1>5 DEF Close, saved
  <2> QED
    BY <2>1, UntouchedAInv
<1>6. CASE Save
  BY <1>6, SaveAInv
<1>7. CASE Cancel
  <2>1. UNCHANGED <<account, included>> /\ prepared' = {} /\ processed' = {}
    BY <1>7 DEF Cancel, close, saved
  <2> QED
    BY <2>1 DEF AInv, InProposal, CreatesAccount, Exists
<1>8. CASE UNCHANGED vars
  <2>1. UNCHANGED <<account, included, prepared, processed, poolAccount, phase,
                    duplicatedNewAddress>>
    BY <1>8 DEF vars, saved, processor, pool
  <2> QED
    BY <2>1, UntouchedAInv
<1> QED
  BY <1>1, <1>2, <1>3, <1>4, <1>5, <1>6, <1>7, <1>8 DEF Next

\* No two operations of the saved blocks create the same account, in one proposal or in
\* several.
THEOREM CreatedOnce == Spec => []AccountCreatedOnce
<1>1. Init => IInv /\ AInv
  BY InitIInv, InitAInv
<1>2. IInv /\ AInv /\ [Next]_vars => (IInv /\ AInv)'
  BY NextIInv, NextAInv
<1>3. IInv /\ AInv => AccountCreatedOnce
  <2> SUFFICES ASSUME IInv, AInv, NEW o1 \in included, NEW o2 \in included,
                      Fact[o1].kind = "create-accounts", Fact[o2].kind = "create-accounts",
                      Fact[o1].receiver = Fact[o2].receiver
               PROVE  o1 = o2
    BY DEF AccountCreatedOnce
  <2>1. Fact[o1].receiver \in Accounts
    BY FactTypes DEF IInv, TypeOK
  <2> QED
    BY <2>1 DEF AInv, CreatesAccount
<1> QED
  BY <1>1, <1>2, <1>3, PTL DEF Spec

-----------------------------------------------------------------------------
(* Totals: Total sums a function over the accounts, one of them at a time. *)

\* Another account of a set, the one that Total adds next.
Pick(s) == CHOOSE x \in s : TRUE

\* The sums over sets of at most n accounts.
SetsUpTo(n) == {s \in SUBSET Accounts : Cardinality(s) <= n}
Sums(f, c, sets, g) ==
  g = [s \in sets |-> IF s = {} THEN 0 ELSE f[Pick(s)][c] + g[s \ {Pick(s)}]]

\* A set without one of its accounts.
LEMMA Picked ==
  ASSUME NEW n \in Nat, NEW s \in SetsUpTo(n + 1), s # {}
  PROVE  Pick(s) \in s /\ s \ {Pick(s)} \in SetsUpTo(n)
<1>1. Pick(s) \in s
  BY DEF Pick
<1>2. s \in SUBSET Accounts /\ IsFiniteSet(s) /\ Cardinality(s) <= n + 1
  BY FS_Subset, AccountsAssumption DEF SetsUpTo
<1>3. Cardinality(s \ {Pick(s)}) = Cardinality(s) - 1 /\ Cardinality(s) \in Nat
  BY <1>1, <1>2, FS_RemoveElement, FS_CardinalityType
<1> QED
  BY <1>1, <1>2, <1>3 DEF SetsUpTo

\* The sets of at most as many accounts as there are are all.
LEMMA SetsUpToAll ==
  /\ Cardinality(Accounts) \in Nat
  /\ SetsUpTo(Cardinality(Accounts)) = SUBSET Accounts
  /\ SetsUpTo(0) = {{}}
  /\ \A n \in Nat : {} \in SetsUpTo(n) /\ SetsUpTo(n) \subseteq SetsUpTo(n + 1)
<1>1. Cardinality(Accounts) \in Nat
  BY AccountsAssumption, FS_CardinalityType
<1>2. \A s \in SUBSET Accounts :
        IsFiniteSet(s) /\ Cardinality(s) \in Nat /\ Cardinality(s) <= Cardinality(Accounts)
  BY AccountsAssumption, FS_Subset, FS_CardinalityType
<1>3. \A s \in SUBSET Accounts : Cardinality(s) = 0 <=> s = {}
  BY <1>2, FS_EmptySet
<1> QED
  BY <1>1, <1>2, <1>3 DEF SetsUpTo

\* There are such sums, and Total is the one of all accounts.
LEMMA SumsExist ==
  ASSUME NEW f, NEW c
  PROVE  \E g : Sums(f, c, SUBSET Accounts, g)
<1> DEFINE S == {n \in Nat : \E g : Sums(f, c, SetsUpTo(n), g)}
<1>1. 0 \in S
  <2>1. Sums(f, c, {{}}, [s \in {{}} |-> 0])
    BY DEF Sums
  <2>2. SetsUpTo(0) = {{}}
    BY SetsUpToAll
  <2>3. \E g : Sums(f, c, SetsUpTo(0), g)
    BY <2>1, <2>2, Zenon
  <2> QED
    BY <2>3
<1>2. ASSUME NEW n \in Nat, n \in S
      PROVE  n + 1 \in S
  <2>1. PICK g : Sums(f, c, SetsUpTo(n), g)
    BY <1>2
  <2> DEFINE value(h, s) == IF s = {} THEN 0 ELSE f[Pick(s)][c] + h[s \ {Pick(s)}]
             k == [s \in SetsUpTo(n + 1) |-> value(g, s)]
  <2>2. \A s \in SetsUpTo(n) : g[s] = value(g, s)
    BY <2>1 DEF Sums
  <2>3. \A s \in SetsUpTo(n) : k[s] = g[s]
    BY <2>2, SetsUpToAll
  <2>4. \A s \in SetsUpTo(n + 1) : value(g, s) = value(k, s)
    <3> HIDE DEF k
    <3> QED
      BY <2>3, Picked
  <2>5. k = [s \in SetsUpTo(n + 1) |-> value(k, s)]
    <3> HIDE DEF value
    <3>1. k = [s \in SetsUpTo(n + 1) |-> value(g, s)]
      OBVIOUS
    <3> HIDE DEF k
    <3> QED
      BY <2>4, <3>1
  <2>6. Sums(f, c, SetsUpTo(n + 1), k)
    <3> HIDE DEF k
    <3> QED
      BY <2>5 DEF Sums
  <2> QED
    BY <2>6
<1> HIDE DEF S
<1>3. Nat \subseteq S
  BY <1>1, <1>2, Induction
<1>4. Cardinality(Accounts) \in S
  BY <1>3, SetsUpToAll
<1>5. SetsUpTo(Cardinality(Accounts)) = SUBSET Accounts
  BY SetsUpToAll
<1>6. \E g : Sums(f, c, SetsUpTo(Cardinality(Accounts)), g)
  BY <1>4 DEF S
<1> QED
  BY <1>5, <1>6, Zenon

\* Total is defined by such sums.
LEMMA TotalIs ==
  ASSUME NEW f, NEW c
  PROVE  \E g : Sums(f, c, SUBSET Accounts, g) /\ Total(f, c) = g[Accounts]
<1> DEFINE g == CHOOSE h :
                  h = [s \in SUBSET Accounts |->
                         IF s = {} THEN 0
                         ELSE f[CHOOSE x \in s : TRUE][c] + h[s \ {CHOOSE x \in s : TRUE}]]
<1>1. Sums(f, c, SUBSET Accounts, g)
  <2>1. PICK h : Sums(f, c, SUBSET Accounts, h)
    BY SumsExist
  <2> QED
    BY <2>1 DEF Sums, Pick
<1>2. Total(f, c) = g[Accounts]
  BY DEF Total, MapThenSumSet, MapThenFoldSet
<1> QED
  BY <1>1, <1>2

\* What is shown of sums by induction on the number of accounts.
LEMMA SumsInduct ==
  ASSUME NEW P, {} \in P,
         \A s \in SUBSET Accounts : s # {} /\ s \ {Pick(s)} \in P => s \in P
  PROVE  Accounts \in P
<1> DEFINE S == {n \in Nat : SetsUpTo(n) \subseteq P}
<1>1. 0 \in S
  BY SetsUpToAll
<1>2. ASSUME NEW n \in Nat, n \in S
      PROVE  n + 1 \in S
  <2>1. ASSUME NEW s \in SetsUpTo(n + 1), s # {}
        PROVE  s \in P
    BY <1>2, <2>1, Picked DEF SetsUpTo
  <2> QED
    BY <2>1
<1> HIDE DEF S
<1>3. Cardinality(Accounts) \in S
  BY <1>1, <1>2, Induction, SetsUpToAll
<1> QED
  BY <1>3, SetsUpToAll DEF S

\* The total of integers is one, and that of a sum is the sum of the totals.
LEMMA TotalAdds ==
  ASSUME NEW c, NEW f, NEW d, NEW e,
         \A a \in Accounts : f[a][c] \in Int /\ d[a][c] \in Int /\ e[a][c] = f[a][c] + d[a][c]
  PROVE  /\ Total(f, c) \in Int /\ Total(d, c) \in Int
         /\ Total(e, c) = Total(f, c) + Total(d, c)
<1>1. PICK g : Sums(f, c, SUBSET Accounts, g) /\ Total(f, c) = g[Accounts]
  BY TotalIs
<1>2. PICK h : Sums(d, c, SUBSET Accounts, h) /\ Total(d, c) = h[Accounts]
  BY TotalIs
<1>3. PICK k : Sums(e, c, SUBSET Accounts, k) /\ Total(e, c) = k[Accounts]
  BY TotalIs
<1> DEFINE P == {s \in SUBSET Accounts : g[s] \in Int /\ h[s] \in Int /\ k[s] = g[s] + h[s]}
<1>4. \A s \in SUBSET Accounts :
        /\ g[s] = IF s = {} THEN 0 ELSE f[Pick(s)][c] + g[s \ {Pick(s)}]
        /\ h[s] = IF s = {} THEN 0 ELSE d[Pick(s)][c] + h[s \ {Pick(s)}]
        /\ k[s] = IF s = {} THEN 0 ELSE e[Pick(s)][c] + k[s \ {Pick(s)}]
  BY <1>1, <1>2, <1>3 DEF Sums
<1>5. {} \in P
  <2>1. {} \in SUBSET Accounts
    OBVIOUS
  <2>2. g[{}] = 0 /\ h[{}] = 0 /\ k[{}] = 0
    BY <1>4, <2>1
  <2> QED
    BY <2>1, <2>2
<1>6. ASSUME NEW s \in SUBSET Accounts, s # {}, s \ {Pick(s)} \in P
      PROVE  s \in P
  <2>1. Pick(s) \in Accounts
    BY <1>6 DEF Pick
  <2> DEFINE x == Pick(s)
             r == s \ {x}
  <2>2. g[s] = f[x][c] + g[r] /\ h[s] = d[x][c] + h[r] /\ k[s] = e[x][c] + k[r]
    BY <1>4, <1>6
  <2>3. g[r] \in Int /\ h[r] \in Int /\ k[r] = g[r] + h[r]
    BY <1>6
  <2>4. f[x][c] \in Int /\ d[x][c] \in Int /\ e[x][c] = f[x][c] + d[x][c]
    BY <2>1
  <2> HIDE DEF x, r
  <2> QED
    BY <2>2, <2>3, <2>4
<1> HIDE DEF P
<1>7. Accounts \in P
  BY <1>5, <1>6, SumsInduct
<1> QED
  BY <1>1, <1>2, <1>3, <1>7 DEF P

\* The total of what one account has.
LEMMA TotalOfOne ==
  ASSUME NEW c, NEW d, NEW b \in Accounts, NEW v \in Int,
         \A a \in Accounts : d[a][c] = IF a = b THEN v ELSE 0
  PROVE  Total(d, c) = v
<1>1. PICK g : Sums(d, c, SUBSET Accounts, g) /\ Total(d, c) = g[Accounts]
  BY TotalIs
<1> DEFINE P == {s \in SUBSET Accounts : g[s] = IF b \in s THEN v ELSE 0}
<1>2. \A s \in SUBSET Accounts : g[s] = IF s = {} THEN 0 ELSE d[Pick(s)][c] + g[s \ {Pick(s)}]
  BY <1>1 DEF Sums
<1>3. {} \in P
  BY <1>2
<1>4. ASSUME NEW s \in SUBSET Accounts, s # {}, s \ {Pick(s)} \in P
      PROVE  s \in P
  <2>1. Pick(s) \in s
    BY <1>4 DEF Pick
  <2> DEFINE x == Pick(s)
             r == s \ {x}
  <2>2. g[s] = d[x][c] + g[r] /\ d[x][c] = (IF x = b THEN v ELSE 0)
        /\ g[r] = (IF b \in r THEN v ELSE 0)
        /\ x \in s /\ (b \in r <=> b \in s /\ b # x)
    BY <1>2, <1>4, <2>1
  <2> HIDE DEF x, r
  <2>3. g[s] = IF b \in s THEN v ELSE 0
    BY <2>2
  <2> QED
    BY <2>3
<1> HIDE DEF P
<1>5. Accounts \in P
  BY <1>3, <1>4, SumsInduct
<1> QED
  BY <1>1, <1>5 DEF P

\* The total of nothing.
LEMMA TotalOfNone ==
  ASSUME NEW c, NEW d, \A a \in Accounts : d[a][c] = 0
  PROVE  Total(d, c) = 0
<1>1. FeeReceiver \in Accounts /\ \A a \in Accounts : d[a][c] = IF a = FeeReceiver THEN 0 ELSE 0
  BY ConstantsAssumption
<1> QED
  BY <1>1, TotalOfOne

-----------------------------------------------------------------------------
(* Fees and the supply: MInv, on top of IInv. *)

\* What an operation takes from its sender is its fee and what its receiver gets.
LEMMA Moved ==
  ASSUME NEW o \in Ops, NEW c \in Currencies
  PROVE  /\ FeeOf(o)[c] \in Nat /\ AmountOf(o)[c] \in Nat
         /\ Required(o)[c] = FeeOf(o)[c] + AmountOf(o)[c]
         /\ \E b \in Accounts : \A a \in Accounts :
              Credited(o, a)[c] = IF a = b THEN AmountOf(o)[c] ELSE 0
<1>1. FeeOf(o)[c] \in Nat /\ AmountOf(o)[c] \in Nat
  BY RequiredType
<1>2. Required(o)[c] = FeeOf(o)[c] + AmountOf(o)[c]
  BY DEF Required
<1>3. CASE Fact[o].kind \in {"transfer", "create-accounts"}
  <2>1. Fact[o].receiver \in Accounts
    BY <1>3, FactTypes
  <2>2. \A a \in Accounts :
          Credited(o, a)[c] = IF a = Fact[o].receiver THEN AmountOf(o)[c] ELSE 0
    BY <1>3 DEF Credited, NoFee
  <2> QED
    BY <1>1, <1>2, <2>1, <2>2
<1>4. CASE Fact[o].kind \notin {"transfer", "create-accounts"}
  <2>1. AmountOf(o)[c] = 0
    BY <1>4 DEF AmountOf
  <2>2. \A a \in Accounts : Credited(o, a)[c] = 0
    BY <1>4 DEF Credited, NoFee
  <2> QED
    BY <1>1, <1>2, <2>1, <2>2, ConstantsAssumption
<1> QED
  BY <1>3, <1>4

\* The totals of the pool, of the fees and of the state, before and after a step.
LEMMA Totals ==
  /\ FeesCollected <=> \A c \in Currencies : Total(poolSub, c) = Total(poolAdd, c) + fee[c]
  /\ FeesCollected' <=> \A c \in Currencies : Total(poolSub', c) = Total(poolAdd', c) + fee'[c]
  /\ SupplyConserved <=> \A c \in Currencies : Total(balance, c) = Total(Genesis.balance, c)
  /\ SupplyConserved' <=> \A c \in Currencies : Total(balance', c) = Total(Genesis.balance, c)
<1>1. FeesCollected <=> \A c \in Currencies : Total(poolSub, c) = Total(poolAdd, c) + fee[c]
  BY DEF FeesCollected
<1>2. SupplyConserved <=> \A c \in Currencies : Total(balance, c) = Total(Genesis.balance, c)
  BY DEF SupplyConserved
<1>3. ASSUME NEW c
      PROVE  /\ Total(poolSub, c)' = Total(poolSub', c) /\ Total(poolAdd, c)' = Total(poolAdd', c)
             /\ Total(balance, c)' = Total(balance', c)
  BY DEF Total, MapThenSumSet, MapThenFoldSet
<1>4. FeesCollected' <=> \A c \in Currencies : Total(poolSub', c) = Total(poolAdd', c) + fee'[c]
  BY <1>3 DEF FeesCollected
<1>5. SupplyConserved' <=> \A c \in Currencies : Total(balance', c) = Total(Genesis.balance, c)
  BY <1>3 DEF SupplyConserved
<1> QED
  BY <1>1, <1>2, <1>4, <1>5

\* The first state satisfies it.
LEMMA InitMInv == Init => MInv
<1> SUFFICES ASSUME Init PROVE MInv
  OBVIOUS
<1>1. fee = NoFee /\ poolSub = NoDelta /\ poolAdd = NoDelta /\ balance = Genesis.balance
  BY DEF Init
<1>2. \A c \in Currencies : Total(NoDelta, c) = 0
  <2> TAKE c \in Currencies
  <2>1. \A a \in Accounts : NoDelta[a][c] = 0
    BY DEF NoDelta, NoFee
  <2> QED
    BY <2>1, TotalOfNone
<1>3. \A c \in Currencies : NoFee[c] = 0
  BY DEF NoFee
<1> QED
  BY <1>1, <1>2, <1>3, Totals DEF MInv, FeesPaid

\* A processed operation: its sender pays the fee and what the receiver gets.
LEMMA ProcessMInv ==
  ASSUME IInv, MInv, NEW o \in Ops, Process(o)
  PROVE  MInv'
<1>1. /\ setState(o) /\ o \in prepared /\ phase = "processing"
      /\ UNCHANGED <<balance, phase>>
  BY NoAppendFails DEF IInv, Lifecycle, Process, saved
<1>2. /\ poolSub \in [Accounts -> [Currencies -> Nat]]
      /\ poolAdd \in [Accounts -> [Currencies -> Nat]] /\ fee \in [Currencies -> Nat]
  BY DEF IInv, TypeOK
<1>3. ASSUME NEW c \in Currencies
      PROVE  Total(poolSub', c) = Total(poolAdd', c) + fee'[c]
  <2> DEFINE paid == [a \in Accounts |->
                        [x \in Currencies |-> IF a = Sender(o) THEN Required(o)[x] ELSE 0]]
             got == [a \in Accounts |-> Credited(o, a)]
  <2>1. /\ FeeOf(o)[c] \in Nat /\ AmountOf(o)[c] \in Nat
        /\ Required(o)[c] = FeeOf(o)[c] + AmountOf(o)[c]
    BY Moved
  <2>2. PICK b \in Accounts : \A a \in Accounts :
          Credited(o, a)[c] = IF a = b THEN AmountOf(o)[c] ELSE 0
    BY Moved
  <2>3. Sender(o) \in Accounts
    BY FactTypes
  <2>4. \A a \in Accounts : paid[a][c] = IF a = Sender(o) THEN Required(o)[c] ELSE 0
    OBVIOUS
  <2>5. \A a \in Accounts : got[a][c] = IF a = b THEN AmountOf(o)[c] ELSE 0
    BY <2>2
  <2>6. \A a \in Accounts : poolSub'[a][c] = poolSub[a][c] + paid[a][c]
    <3>1. \A a \in Accounts :
            poolSub'[a][c] = IF a = Sender(o) THEN poolSub[a][c] + Required(o)[c] ELSE poolSub[a][c]
      BY <1>1, <1>2 DEF setState
    <3>2. \A a \in Accounts : poolSub[a][c] \in Nat
      BY <1>2
    <3> HIDE DEF paid
    <3> QED
      BY <2>1, <2>4, <3>1, <3>2
  <2>7. \A a \in Accounts : poolAdd'[a][c] = poolAdd[a][c] + got[a][c]
    BY <1>1, <1>2 DEF setState
  <2> HIDE DEF paid, got
  <2>8. Total(paid, c) = Required(o)[c]
    BY <2>1, <2>3, <2>4, TotalOfOne
  <2>9. Total(got, c) = AmountOf(o)[c]
    BY <2>1, <2>2, <2>5, TotalOfOne
  <2>10. Total(poolSub, c) \in Int /\ Total(poolSub', c) = Total(poolSub, c) + Total(paid, c)
    <3>1. \A a \in Accounts : poolSub[a][c] \in Int /\ paid[a][c] \in Int
      BY <1>2, <2>1, <2>4
    <3> QED
      BY <2>6, <3>1, TotalAdds
  <2>11. Total(poolAdd, c) \in Int /\ Total(poolAdd', c) = Total(poolAdd, c) + Total(got, c)
    <3>1. \A a \in Accounts : poolAdd[a][c] \in Int /\ got[a][c] \in Int
      BY <1>2, <2>1, <2>5
    <3> QED
      BY <2>7, <3>1, TotalAdds
  <2>12. fee'[c] = fee[c] + FeeOf(o)[c] /\ fee[c] \in Nat
    BY <1>1, <1>2 DEF setState, FeesWith
  <2>13. Total(poolSub, c) = Total(poolAdd, c) + fee[c]
    BY Totals DEF MInv
  <2> QED
    BY <2>1, <2>8, <2>9, <2>10, <2>11, <2>12, <2>13
<1>4. SupplyConserved'
  BY <1>1, Totals DEF MInv
<1>5. FeesPaid'
  BY <1>1 DEF FeesPaid
<1> QED
  BY <1>3, <1>4, <1>5, Totals DEF MInv

\* The fee operation pays the fees to one account, and none is left.
LEMMA CloseMInv ==
  ASSUME IInv, MInv, Close
  PROVE  MInv'
<1>1. /\ poolAdd' = [poolAdd EXCEPT ![FeeReceiver] =
                       [c \in Currencies |-> poolAdd[FeeReceiver][c] + fee[c]]]
      /\ fee' = NoFee /\ UNCHANGED <<balance, poolSub>>
  BY DEF Close, saved
<1>2. /\ poolAdd \in [Accounts -> [Currencies -> Nat]] /\ fee \in [Currencies -> Nat]
      /\ FeeReceiver \in Accounts
  BY ConstantsAssumption DEF IInv, TypeOK
<1>3. ASSUME NEW c \in Currencies
      PROVE  Total(poolSub', c) = Total(poolAdd', c) + fee'[c]
  <2> DEFINE paid == [a \in Accounts |->
                        [x \in Currencies |-> IF a = FeeReceiver THEN fee[x] ELSE 0]]
  <2>1. \A a \in Accounts : paid[a][c] = IF a = FeeReceiver THEN fee[c] ELSE 0
    OBVIOUS
  <2>2. \A a \in Accounts :
          poolAdd'[a][c] = IF a = FeeReceiver THEN poolAdd[a][c] + fee[c] ELSE poolAdd[a][c]
    BY <1>1, <1>2
  <2> HIDE DEF paid
  <2>3. fee[c] \in Int /\ \A a \in Accounts : poolAdd[a][c] \in Int
    BY <1>2
  <2>4. \A a \in Accounts :
          paid[a][c] \in Int /\ poolAdd'[a][c] = poolAdd[a][c] + paid[a][c]
    BY <2>1, <2>2, <2>3
  <2>5. Total(paid, c) = fee[c]
    BY <1>2, <2>1, <2>3, TotalOfOne
  <2>6. Total(poolAdd, c) \in Int /\ Total(poolAdd', c) = Total(poolAdd, c) + fee[c]
    BY <2>3, <2>4, <2>5, TotalAdds
  <2>7. Total(poolSub, c) = Total(poolAdd, c) + fee[c] /\ fee'[c] = 0 /\ poolSub' = poolSub
    BY <1>1, Totals DEF MInv, NoFee
  <2> QED
    BY <2>3, <2>6, <2>7
<1>4. SupplyConserved'
  BY <1>1, Totals DEF MInv
<1>5. FeesPaid'
  BY <1>1 DEF FeesPaid
<1> QED
  BY <1>3, <1>4, <1>5, Totals DEF MInv

\* A dropped proposal leaves nothing to be paid.
LEMMA closeMInv ==
  ASSUME close, SupplyConserved'
  PROVE  MInv'
<1>1. fee' = NoFee /\ poolSub' = NoDelta /\ poolAdd' = NoDelta
  BY DEF close
<1>2. \A c \in Currencies : Total(NoDelta, c) = 0
  <2> TAKE c \in Currencies
  <2>1. \A a \in Accounts : NoDelta[a][c] = 0
    BY DEF NoDelta, NoFee
  <2> QED
    BY <2>1, TotalOfNone
<1>3. \A c \in Currencies : NoFee[c] = 0
  BY DEF NoFee
<1> QED
  BY <1>1, <1>2, <1>3, Totals DEF MInv, FeesPaid

\* What the pool takes from the accounts of the state is what it gives to them.
LEMMA SaveMInv ==
  ASSUME IInv, MInv, Save
  PROVE  MInv'
<1>1. /\ phase = "closed" /\ close
      /\ balance' = [a \in Accounts |-> [c \in Currencies |->
                       balance[a][c] - poolSub[a][c] + poolAdd[a][c]]]
  BY DEF Save
<1>2. /\ poolSub \in [Accounts -> [Currencies -> Nat]]
      /\ poolAdd \in [Accounts -> [Currencies -> Nat]]
      /\ balance \in [Accounts -> [Currencies -> Nat]]
  BY BalanceType DEF IInv, TypeOK
<1>3. ASSUME NEW c \in Currencies
      PROVE  Total(balance', c) = Total(Genesis.balance, c)
  <2> DEFINE both == [a \in Accounts |-> [x \in Currencies |-> balance[a][x] + poolAdd[a][x]]]
  <2>1. \A a \in Accounts :
          /\ poolSub[a][c] \in Int /\ poolAdd[a][c] \in Int /\ balance[a][c] \in Int
          /\ balance'[a][c] = balance[a][c] - poolSub[a][c] + poolAdd[a][c]
          /\ both[a][c] = balance[a][c] + poolAdd[a][c]
    BY <1>1, <1>2
  <2> HIDE DEF both
  <2>2. \A a \in Accounts :
          balance'[a][c] \in Int /\ both[a][c] = balance'[a][c] + poolSub[a][c]
    BY <2>1
  <2>3. /\ Total(balance, c) \in Int /\ Total(poolAdd, c) \in Int
        /\ Total(both, c) = Total(balance, c) + Total(poolAdd, c)
    BY <2>1, TotalAdds
  <2>4. /\ Total(balance', c) \in Int /\ Total(poolSub, c) \in Int
        /\ Total(both, c) = Total(balance', c) + Total(poolSub, c)
    BY <2>1, <2>2, TotalAdds
  <2>5. /\ Total(poolSub, c) = Total(poolAdd, c) + fee[c] /\ fee[c] = 0
        /\ Total(balance, c) = Total(Genesis.balance, c)
    BY <1>1, Totals DEF MInv, FeesPaid, NoFee
  <2> QED
    BY <2>3, <2>4, <2>5
<1> QED
  BY <1>1, <1>3, Totals, closeMInv

\* Every step preserves it.
LEMMA NextMInv == IInv /\ MInv /\ [Next]_vars => MInv'
<1> SUFFICES ASSUME IInv, MInv, [Next]_vars PROVE MInv'
  OBVIOUS
<1>1. ASSUME UNCHANGED <<balance, fee, poolSub, poolAdd>>,
             phase' = "processing" \/ phase' = phase
      PROVE  MInv'
  BY <1>1, Totals DEF MInv, FeesPaid
<1>2. ASSUME NEW S \in SUBSET (Ops \ included), New(S) PROVE MInv'
  BY <1>1, <1>2 DEF New, saved, pool
<1>3. ASSUME NEW o \in Ops,
             \/ PreProcessRefused(o)
             \/ PreProcessDuplicated(o)
             \/ PreProcessAddressDuplicated(o)
             \/ PreProcess(o)
      PROVE  MInv'
  BY <1>1, <1>3 DEF PreProcessRefused, PreProcessDuplicated, PreProcessAddressDuplicated,
                    PreProcess, saved, pool
<1>4. ASSUME NEW o \in Ops, Process(o) PROVE MInv'
  BY <1>4, ProcessMInv
<1>5. CASE Close
  BY <1>5, CloseMInv
<1>6. CASE Save
  BY <1>6, SaveMInv
<1>7. CASE Cancel
  <2>1. close /\ balance' = balance
    BY <1>7 DEF Cancel, saved
  <2> QED
    BY <2>1, Totals, closeMInv DEF MInv
<1>8. CASE UNCHANGED vars
  BY <1>1, <1>8 DEF vars, saved, processor, pool
<1> QED
  BY <1>2, <1>3, <1>4, <1>5, <1>6, <1>7, <1>8 DEF Next

\* Both invariants in every state.
LEMMA MoneyInvariance == Spec => [](IInv /\ MInv)
<1>1. Init => IInv /\ MInv
  BY InitIInv, InitMInv
<1>2. (IInv /\ MInv) /\ [Next]_vars => (IInv /\ MInv)'
  BY NextIInv, NextMInv
<1> QED
  BY <1>1, <1>2, PTL DEF Spec

\* The fee of every processed operation is collected once: in each state of a proposal what its
\* senders pay is what receivers and the fee operation get, although setState collects the fees
\* and Close pays them.
THEOREM FeesCollectedOnce == Spec => []FeesCollected
<1>1. IInv /\ MInv => FeesCollected
  BY DEF MInv
<1> QED
  BY <1>1, MoneyInvariance, PTL

\* No block changes the supply of a currency.
THEOREM SupplyStays == Spec => []SupplyConserved
<1>1. IInv /\ MInv => SupplyConserved
  BY DEF MInv
<1> QED
  BY <1>1, MoneyInvariance, PTL

-----------------------------------------------------------------------------
(* Signatures: the inductive invariant SInv, on top of IInv.               *)

\* The first state satisfies it.
LEMMA InitSInv == Init => SInv
<1> SUFFICES ASSUME Init PROVE SInv
  OBVIOUS
<1> QED
  BY DEF Init, SInv, NotYetIncluded, InProposal, CreatesNew, CapturedSigned, PoolSigned,
         PoolSignatures

\* What does not touch the documents, the captured ones, nor the pool, keeps it.
LEMMA UntouchedSInv ==
  ASSUME SInv, UNCHANGED <<docs, included, prepared, captured, processed, poolDocs>>,
         (pending' \ pending) \cap included = {}
  PROVE  SInv'
<1>1. NotYetIncluded'
  BY DEF SInv, NotYetIncluded, InProposal
<1>2. CreatesNew' /\ CapturedSigned'
  BY DEF SInv, CreatesNew, CapturedSigned, Registered
<1>3. PoolSigned' /\ PoolSignatures'
  BY DEF SInv, PoolSigned, PoolSignatures, UpdatedInPool, Touches, Registered
<1> QED
  BY <1>1, <1>2, <1>3 DEF SInv

\* A sign that is prepared has captured the document with its sender's signature.
LEMMA PreProcessSInv ==
  ASSUME IInv, SInv, NEW o \in Ops, PreProcess(o)
  PROVE  SInv'
<1>1. /\ TypeOK /\ o \in pending /\ o \notin prepared
      /\ prepared' = prepared \cup {o} /\ pending' = pending \ {o}
      /\ captured' = [captured EXCEPT ![o] = Captured(o)]
      /\ UNCHANGED <<docs, included, processed, poolDocs>>
  BY DEF IInv, Lifecycle, InProposal, PreProcess, saved, pool
<1>2. NotYetIncluded'
  BY <1>1 DEF SInv, NotYetIncluded, InProposal
<1>3. CreatesNew' /\ PoolSigned' /\ PoolSignatures'
  BY <1>1 DEF SInv, CreatesNew, PoolSigned, PoolSignatures, UpdatedInPool, Touches, Registered
<1>4. CapturedSigned'
  <2> SUFFICES ASSUME NEW p \in prepared', Fact[p].kind = "sign", NEW d \in ItemIds(p)
               PROVE  captured'[p].docs[d].signed = docs[d].signed \cup {Sender(p)}
    BY <1>1 DEF CapturedSigned
  <2>1. CASE p = o
    <3>1. d \in DocIds /\ captured'[o].docs[d] = NewDoc(o, d)
      BY <1>1, <2>1, FactTypes DEF TypeOK, Captured
    <3>2. docs[d] \in Doc
      <4>1. SignItemAccepted(o, d)
        BY <2>1 DEF PreProcess, Accepted, ItemsAccepted, IsDocumentOp, DocumentKinds
      <4> QED
        BY <1>1, <3>1, <4>1 DEF SignItemAccepted, Registered, TypeOK
    <3> QED
      BY <2>1, <3>1, <3>2 DEF NewDoc, Doc
  <2>2. CASE p # o
    <3>1. p \in prepared /\ p \in Ops /\ captured'[p] = captured[p]
      BY <1>1, <2>2 DEF TypeOK
    <3> QED
      BY <3>1 DEF SInv, CapturedSigned
  <2> QED
    BY <2>1, <2>2
<1> QED
  BY <1>2, <1>3, <1>4 DEF SInv

\* A processed operation replaces the document in the pool: a sign by the signatures of
\* the last block and its own.
LEMMA ProcessSInv ==
  ASSUME IInv, SInv, NEW o \in Ops, Process(o)
  PROVE  SInv'
<1>1. /\ TypeOK /\ o \in prepared /\ prepared' = prepared \ {o}
      /\ processed' = processed \cup {o}
      /\ poolDocs' = [d \in DocIds |->
                        IF d \in ItemIds(o) THEN captured[o].docs[d] ELSE poolDocs[d]]
      /\ UNCHANGED <<docs, included, pending, captured>>
  BY NoAppendFails DEF IInv, Process, setState, saved
<1>2. ItemIds(o) \subseteq DocIds /\ \A d \in ItemIds(o) : captured[o].docs[d] # NoDoc
  <2>1. \A d \in ItemIds(o) : captured[o].docs[d] \in Doc
    BY <1>1 DEF IInv, CapturedFromState
  <2> QED
    BY <2>1, FactTypes, ConstantsAssumption
<1>3. NotYetIncluded' /\ CapturedSigned'
  BY <1>1 DEF SInv, NotYetIncluded, InProposal, CapturedSigned
<1>4. CreatesNew'
  <2>1. Fact[o].kind = "create" => \A d \in ItemIds(o) : ~Registered(d)
    BY <1>1 DEF IInv, CapturedFromState
  <2> QED
    BY <1>1, <2>1 DEF SInv, CreatesNew, Registered
<1>5. PoolSigned'
  <2> SUFFICES ASSUME NEW p \in processed', Fact[p].kind = "sign", NEW d \in ItemIds(p)
               PROVE  \/ poolDocs'[d] # NoDoc /\ Sender(p) \in poolDocs'[d].signed
                      \/ \E other \in processed' \ {p} : Touches(other, d)
    BY DEF PoolSigned, Touches
  <2>1. CASE p = o
    <3>1. captured[o].docs[d].signed = docs[d].signed \cup {Sender(o)}
      BY <1>1, <2>1 DEF SInv, CapturedSigned
    <3> QED
      BY <1>1, <1>2, <2>1, <3>1
  <2>2. CASE p # o /\ d \in ItemIds(o)
    BY <1>1, <2>2 DEF Touches
  <2>3. CASE p # o /\ d \notin ItemIds(o)
    <3>1. d \in DocIds /\ p \in processed
      BY <1>1, <2>3, FactTypes DEF TypeOK
    <3> QED
      BY <1>1, <2>3, <3>1 DEF SInv, PoolSigned
  <2> QED
    BY <2>1, <2>2, <2>3
<1>6. PoolSignatures'
  <2> SUFFICES ASSUME NEW d \in DocIds, poolDocs'[d] # NoDoc, Registered(d), ~UpdatedInPool(d)'
               PROVE  /\ docs[d].signed \subseteq poolDocs'[d].signed
                      /\ \A a \in poolDocs'[d].signed \ docs[d].signed :
                           \E p \in processed' :
                             Touches(p, d) /\ Fact[p].kind = "sign" /\ Sender(p) = a
    BY <1>1 DEF PoolSignatures, Registered, Touches
  <2>1. CASE d \in ItemIds(o)
    <3>1. Fact[o].kind = "sign"
      <4>1. Fact[o].kind # "update"
        BY <1>1, <2>1 DEF UpdatedInPool, Touches
      <4>2. Fact[o].kind # "create"
        BY <1>1, <2>1 DEF IInv, CapturedFromState
      <4>3. Fact[o].kind \in DocumentKinds
        BY <2>1 DEF ItemIds, IsDocumentOp
      <4> QED
        BY <4>1, <4>2, <4>3 DEF DocumentKinds
    <3>2. poolDocs'[d].signed = docs[d].signed \cup {Sender(o)}
      BY <1>1, <2>1, <3>1 DEF SInv, CapturedSigned
    <3> QED
      BY <1>1, <2>1, <3>1, <3>2 DEF Touches
  <2>2. CASE d \notin ItemIds(o)
    <3>1. poolDocs'[d] = poolDocs[d] /\ ~UpdatedInPool(d)
      BY <1>1, <2>2 DEF UpdatedInPool, Touches
    <3> QED
      BY <1>1, <3>1 DEF SInv, PoolSignatures
  <2> QED
    BY <2>1, <2>2
<1> QED
  BY <1>3, <1>4, <1>5, <1>6 DEF SInv

\* An empty proposal.
LEMMA closeSInv ==
  ASSUME close
  PROVE  SInv'
<1>1. /\ pending' = {} /\ prepared' = {} /\ processed' = {}
      /\ poolDocs' = [d \in DocIds |-> NoDoc]
  BY DEF close
<1> QED
  BY <1>1 DEF SInv, NotYetIncluded, InProposal, CreatesNew, CapturedSigned, PoolSigned,
              PoolSignatures

LEMMA CloseSInv ==
  ASSUME IInv, SInv, Close
  PROVE  SInv'
<1>1. UNCHANGED <<docs, included, pending, prepared, processed, poolDocs>> /\ prepared = {}
  BY DEF Close, saved
<1>2. NotYetIncluded' /\ CreatesNew' /\ CapturedSigned'
  BY <1>1 DEF SInv, NotYetIncluded, InProposal, CreatesNew, CapturedSigned, Registered
<1>3. PoolSigned' /\ PoolSignatures'
  BY <1>1 DEF SInv, PoolSigned, PoolSignatures, UpdatedInPool, Touches, Registered
<1> QED
  BY <1>2, <1>3 DEF SInv

\* Every step preserves it.
LEMMA NextSInv == IInv /\ SInv /\ [Next]_vars => SInv'
<1> SUFFICES ASSUME IInv, SInv, [Next]_vars PROVE SInv'
  OBVIOUS
<1>1. ASSUME NEW S \in SUBSET (Ops \ included), New(S) PROVE SInv'
  <2>1. UNCHANGED <<docs, included, prepared, captured, processed, poolDocs>> /\ pending' = S
    BY <1>1 DEF New, saved, pool
  <2> QED
    BY <2>1, UntouchedSInv
<1>2. ASSUME NEW o \in Ops,
             PreProcessRefused(o) \/ PreProcessDuplicated(o) \/ PreProcessAddressDuplicated(o)
      PROVE  SInv'
  <2>1. /\ UNCHANGED <<docs, included, prepared, captured, processed, poolDocs>>
        /\ pending' = pending \ {o}
    BY <1>2 DEF PreProcessRefused, PreProcessDuplicated, PreProcessAddressDuplicated, saved, pool
  <2> QED
    BY <2>1, UntouchedSInv
<1>3. ASSUME NEW o \in Ops, PreProcess(o) PROVE SInv'
  BY <1>3, PreProcessSInv
<1>4. ASSUME NEW o \in Ops, Process(o) PROVE SInv'
  BY <1>4, ProcessSInv
<1>5. CASE Close
  BY <1>5, CloseSInv
<1>6. CASE Save \/ Cancel
  BY <1>6, closeSInv DEF Save, Cancel
<1>7. CASE UNCHANGED vars
  <2>1. UNCHANGED <<docs, included, pending, prepared, captured, processed, poolDocs>>
    BY <1>7 DEF vars, saved, processor, pool
  <2> QED
    BY <2>1, UntouchedSInv
<1> QED
  BY <1>1, <1>2, <1>3, <1>4, <1>5, <1>6, <1>7 DEF Next

LEMMA SignaturesInvariant == Spec => [](IInv /\ SInv)
<1>1. Init => IInv /\ SInv
  BY InitIInv, InitSInv
<1>2. IInv /\ SInv /\ [Next]_vars => (IInv /\ SInv)'
  BY NextIInv, NextSInv
<1> QED
  BY <1>1, <1>2, PTL DEF Spec

-----------------------------------------------------------------------------
(* The theorems. *)

\* What a saved block does to the documents, and which operations are new in it.
LEMMA SavedBlock ==
  ASSUME IInv, SInv, Save
  PROVE  /\ NewlyIncluded = processed
         /\ \A d \in DocIds : docs'[d] = IF poolDocs[d] # NoDoc THEN poolDocs[d] ELSE docs[d]
<1>1. included' = included \cup processed
  BY DEF Save
<1>2. processed \cap included = {}
  BY DEF SInv, NotYetIncluded, InProposal
<1> QED
  BY <1>1, <1>2 DEF Save, NewlyIncluded

\* Nothing else changes them.
LEMMA NoBlock ==
  ASSUME [Next]_vars, ~Save
  PROVE  docs' = docs /\ included' = included
BY DEF Next, New, PreProcessRefused, PreProcessDuplicated, PreProcessAddressDuplicated,
       PreProcess, Process, Close, Cancel, vars, saved

\* A signature of a document is lost only to an update of it in a saved block.
THEOREM SignaturesStay == Spec => SignaturesKept
<1> DEFINE Kept == \A d \in DocIds :
             Registered(d) => \/ docs[d].signed \subseteq docs'[d].signed
                              \/ \E o \in NewlyIncluded :
                                   Touches(o, d) /\ Fact[o].kind = "update"
<1>1. ASSUME IInv, SInv, [Next]_vars PROVE Kept
  <2>1. CASE Save
    BY <1>1, <2>1, SavedBlock DEF SInv, PoolSignatures, UpdatedInPool
  <2>2. CASE ~Save
    BY <1>1, <2>2, NoBlock
  <2> QED
    BY <2>1, <2>2
<1>2. IInv /\ SInv /\ [Next]_vars => [Kept]_vars
  BY <1>1
<1> QED
  BY <1>2, SignaturesInvariant, PTL DEF Spec, SignaturesKept

\* A registered document gains no signature but those of the signs, and of the updates,
\* of the block.
THEOREM NoForeignSignature == Spec => SignaturesSent
<1> DEFINE WasSent == \A d \in DocIds :
             Registered(d) =>
               \A a \in docs'[d].signed \ docs[d].signed :
                 \E o \in NewlyIncluded :
                   /\ Touches(o, d)
                   /\ \/ Fact[o].kind = "sign" /\ Sender(o) = a
                      \/ Fact[o].kind = "update"
<1>1. ASSUME IInv, SInv, [Next]_vars PROVE WasSent
  <2>1. CASE Save
    BY <1>1, <2>1, SavedBlock DEF SInv, PoolSignatures, UpdatedInPool
  <2>2. CASE ~Save
    BY <1>1, <2>2, NoBlock
  <2> QED
    BY <2>1, <2>2
<1>2. IInv /\ SInv /\ [Next]_vars => [WasSent]_vars
  BY <1>1
<1> QED
  BY <1>2, SignaturesInvariant, PTL DEF Spec, SignaturesSent

\* A sign operation in a block leaves its signature, unless another operation of the
\* same block writes the document.
THEOREM SignaturesTake == Spec => SignedOrOverwritten
<1> DEFINE Taken == \A o \in NewlyIncluded :
             Fact[o].kind = "sign" =>
               \A d \in ItemIds(o) :
                 \/ docs'[d] # NoDoc /\ Sender(o) \in docs'[d].signed
                 \/ \E other \in NewlyIncluded \ {o} : Touches(other, d)
<1>1. ASSUME IInv, SInv, [Next]_vars PROVE Taken
  <2>1. CASE Save
    <3>1. \A o \in processed : ItemIds(o) \subseteq DocIds
      BY <1>1, FactTypes DEF IInv, TypeOK
    <3> QED
      BY <1>1, <2>1, <3>1, SavedBlock DEF SInv, PoolSigned
  <2>2. CASE ~Save
    BY <1>1, <2>2, NoBlock DEF NewlyIncluded
  <2> QED
    BY <2>1, <2>2
<1>2. IInv /\ SInv /\ [Next]_vars => [Taken]_vars
  BY <1>1
<1> QED
  BY <1>2, SignaturesInvariant, PTL DEF Spec, SignedOrOverwritten
=============================================================================
