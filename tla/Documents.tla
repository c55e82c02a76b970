----------------------------- MODULE Documents -----------------------------
(***************************************************************************)
(* The operation processor of mitum-document (document/*.go) and the state *)
(* it writes: accounts and balances, the document data states (key         *)
(* "<documentid>:DocumentData") and the document inventory states (key     *)
(* "<address>:Documents").                                                 *)
(*                                                                         *)
(* A proposal is a set of operations.  Each one is pre-processed against   *)
(* the state of the last saved block, prepared operations are processed    *)
(* concurrently into the state pool of the proposal, Close adds the        *)
(* collected fees, and the saved block merges the pool into the state.     *)
(* The state pool, the block storage and the currency operations belong to *)
(* the mitum and mitum-currency libraries: they are external, modelled     *)
(* from how the code here uses them.  Get answers with the value of the    *)
(* last saved block, decoded afresh for each call; Set keeps the last      *)
(* value written to a key, except that balance states are merged as deltas *)
(* (AmountState Sub and AddFee).                                           *)
(*                                                                         *)
(* The definitions under "Faults" are not the code's: each is a variant of *)
(* the definition that follows it with one plausible bug in it.            *)
(***************************************************************************)
EXTENDS Integers, FiniteSets, FiniteSetsExt

CONSTANTS
  Accounts,       \* addresses
  Keys,           \* public keys
  DocIds,         \* document ids
  Currencies,     \* currency ids an item may name
  Fee,            \* fee of one item, for each registered currency
  FeeReceiver,    \* the account the fee operation pays (external)
  Ops,            \* operation hashes
  Fact,           \* the fact (and signs) of each operation
  NoAccount,      \* "no account state"
  NoDoc,          \* "no document data state"
  Genesis,        \* the state of the first block: accounts and balances
  MaxItems,       \* MaxCreateDocumentsItems
  MaxProposal     \* bound: operations in one proposal

DocTypes == {"blocksign", "user", "land", "voting", "history"}

\* DocumentData: BSDocData has a creator and signers, for the other types
\* `signers` stands for the accounts the document refers to.
Doc == [type: DocTypes, owner: Accounts, creator: Accounts,
        signers: SUBSET Accounts, signed: SUBSET Accounts]

\* AccountKeys: weight 0 stands for a key that is not one of the account's.
AccountKeys == [weight: [Keys -> 0..100], threshold: 1..100]

\* The items of a fact, one for each document id: IsValid of the three facts
\* refuses an empty list, a long one and a document id that occurs twice.
ValidItems(items, Item) ==
  /\ DOMAIN items \subseteq DocIds
  /\ Cardinality(DOMAIN items) \in 1..MaxItems
  /\ items \in [DOMAIN items -> Item]

\* The facts of the three document operations, and of the currency operations
\* (external, with one item each).  The sender of a key-updater is its target.
ValidFact(f) ==
  /\ f.sender \in Accounts
  /\ f.signs \in SUBSET Keys
  /\ \/ f.kind \in {"create", "update"} /\ ValidItems(f.items, [doc: Doc, cid: Currencies])
     \/ f.kind = "sign" /\ ValidItems(f.items, [owner: Accounts, cid: Currencies])
     \/ /\ f.kind \in {"transfer", "create-accounts"}
        /\ f.receiver \in Accounts /\ f.cid \in Currencies /\ f.amount \in Nat
        /\ f.kind = "create-accounts" => f.keys \in AccountKeys
     \/ f.kind = "key-updater" /\ f.cid \in Currencies /\ f.keys \in AccountKeys

ASSUME ConstantsAssumption ==
  /\ IsFiniteSet(DocIds)
  /\ MaxItems \in Nat /\ MaxProposal \in Nat
  /\ DOMAIN Fee \subseteq Currencies /\ Fee \in [DOMAIN Fee -> Nat]
  /\ FeeReceiver \in Accounts
  /\ NoAccount \notin AccountKeys /\ NoDoc \notin Doc \cup Accounts
  /\ Genesis \in [account: [Accounts -> AccountKeys \cup {NoAccount}],
                  held: [Accounts -> SUBSET Currencies],
                  balance: [Accounts -> [Currencies -> Nat]]]

ASSUME AccountsAssumption == IsFiniteSet(Accounts)

ASSUME FactAssumption == \A o \in Ops : ValidFact(Fact[o])

-----------------------------------------------------------------------------
VARIABLES
  \* the state of the last saved block
  account,      \* keys of each account, or NoAccount
  held,         \* currencies an account has a balance state of
  balance,      \* amount in each balance state
  docs,         \* document data states
  inventory,    \* document inventory states ({}: no such state)
  included,     \* operations of the saved blocks
  \* the OperationProcessor of the current proposal
  phase,        \* "idle", "processing" or "closed"
  pending,      \* operations of the proposal not yet pre-processed
  prepared,     \* operations whose processor waits for Process
  captured,     \* what each processor read in PreProcess
  duplicated,   \* senders seen in this proposal
  duplicatedNewAddress,
  fee,          \* fees collected by setState
  \* the state pool of the current proposal
  processed,    \* operations that have set states
  poolAccount, poolDocs, poolInventory, poolSub, poolAdd

saved == <<account, held, balance, docs, inventory, included>>
processor == <<phase, pending, prepared, captured, duplicated, duplicatedNewAddress>>
pool == <<fee, processed, poolAccount, poolDocs, poolInventory, poolSub, poolAdd>>
vars == <<saved, processor, pool>>

DocumentKinds == {"create", "update", "sign"}
ItemKinds == {"create", "update"}
IsDocumentOp(o) == Fact[o].kind \in DocumentKinds
Sender(o) == Fact[o].sender
ItemIds(o) == IF IsDocumentOp(o) THEN DOMAIN Fact[o].items ELSE {}
Item(o, d) == Fact[o].items[d]
Exists(a) == account[a] # NoAccount
Registered(d) == docs[d] # NoDoc

\* Accounts of the BS and voting data; a doc's `signers` names them.
RelatedAccounts(doc) == doc.signers

-----------------------------------------------------------------------------
\* Fees: the fee of each item's currency, once for each item.
CurrenciesOf(o) ==
  IF IsDocumentOp(o) THEN {Item(o, d).cid : d \in ItemIds(o)} ELSE {Fact[o].cid}

ItemCount(o, c) ==
  IF IsDocumentOp(o) THEN Cardinality({d \in ItemIds(o) : Item(o, d).cid = c})
  ELSE IF Fact[o].cid = c THEN 1 ELSE 0

FeeOf(o) ==
  [c \in Currencies |-> IF c \in DOMAIN Fee THEN ItemCount(o, c) * Fee[c] ELSE 0]

\* What a currency operation moves besides its fee (external).
AmountOf(o) ==
  [c \in Currencies |->
     IF Fact[o].kind \in {"transfer", "create-accounts"} /\ Fact[o].cid = c
     THEN Fact[o].amount ELSE 0]

Required(o) == [c \in Currencies |-> FeeOf(o)[c] + AmountOf(o)[c]]

\* Faults: the fee alone is compared with the balance.
EnoughBalanceForFee(o) ==
  \A c \in CurrenciesOf(o) :
    c \in DOMAIN Fee /\ c \in held[Sender(o)] /\ FeeOf(o)[c] <= balance[Sender(o)][c]

\* Every currency is known, the sender has its balance state, and enough in it.
EnoughBalance(o) ==
  \A c \in CurrenciesOf(o) :
    /\ c \in DOMAIN Fee
    /\ c \in held[Sender(o)]
    /\ Required(o)[c] <= balance[Sender(o)][c]

\* Every signer has one of the keys, and their weights reach the threshold.
checkThreshold(fs, keys) ==
  LET Weight(k) == keys.weight[k]
  IN /\ \A k \in fs : keys.weight[k] > 0
     /\ MapThenSumSet(Weight, fs) >= keys.threshold

checkFactSignsByState(o) == checkThreshold(Fact[o].signs, account[Sender(o)])

-----------------------------------------------------------------------------
\* Faults: a document id that is registered is taken again; an owner other than
\* the registered one is taken.
CreateItemAgainAccepted(o, d) == \A a \in RelatedAccounts(Item(o, d).doc) : Exists(a)

UpdateItemByAnyOwnerAccepted(o, d) ==
  LET owner == Item(o, d).doc.owner
  IN Exists(owner) /\ inventory[owner] # {} /\ Registered(d)

\* Item processors' PreProcess: what each item needs of the saved state.
CreateItemAccepted(o, d) ==
  /\ ~Registered(d)
  /\ \A a \in RelatedAccounts(Item(o, d).doc) : Exists(a)

UpdateItemAccepted(o, d) ==
  LET owner == Item(o, d).doc.owner IN
  /\ Exists(owner)
  /\ inventory[owner] # {}
  /\ Registered(d)
  /\ docs[d].owner = owner

SignItemAccepted(o, d) ==
  LET owner == Item(o, d).owner IN
  /\ Exists(owner)
  /\ d \in inventory[owner]
  /\ Registered(d)
  /\ docs[d].type = "blocksign"
  /\ docs[d].creator = owner
  /\ Sender(o) \in docs[d].signers

ItemsAccepted(o) ==
  \A d \in ItemIds(o) :
    /\ Fact[o].kind = "create" => CreateItemAccepted(o, d)
    /\ Fact[o].kind = "update" => UpdateItemAccepted(o, d)
    /\ Fact[o].kind = "sign" => SignItemAccepted(o, d)

\* The processors of the currency operations (external).
CurrencyOpAccepted(o) ==
  /\ Fact[o].kind = "transfer" => Exists(Fact[o].receiver)
  /\ Fact[o].kind = "create-accounts" => ~Exists(Fact[o].receiver)
  /\ Fact[o].kind = "key-updater" => account[Sender(o)] # Fact[o].keys

\* Faults: the signs are not checked.
AcceptedUnsigned(o) ==
  /\ Exists(Sender(o)) /\ EnoughBalance(o)
  /\ IF IsDocumentOp(o) THEN ItemsAccepted(o) ELSE CurrencyOpAccepted(o)

Accepted(o) ==
  /\ Exists(Sender(o))
  /\ EnoughBalance(o)
  /\ IF IsDocumentOp(o) THEN ItemsAccepted(o) ELSE CurrencyOpAccepted(o)
  /\ checkFactSignsByState(o)

\* Faults: a signature replaces the others; every signer is marked; the documents
\* of one type only are kept; the inventory starts empty.
NewDocSignedOnce(o, d) ==
  IF Fact[o].kind = "sign" THEN [docs[d] EXCEPT !.signed = {Sender(o)}] ELSE Item(o, d).doc

NewDocAllSigned(o, d) ==
  IF Fact[o].kind = "sign" THEN [docs[d] EXCEPT !.signed = docs[d].signers]
  ELSE Item(o, d).doc

\* Faults: the signature is not marked.
NewDocUnsigned(o, d) == IF Fact[o].kind = "sign" THEN docs[d] ELSE Item(o, d).doc

\* What the processor keeps for Process: the document data to write (nds) and,
\* of a create, the inventory of the sender (dinv) with the new documents in it.
NewDoc(o, d) ==
  IF Fact[o].kind = "sign"
  THEN [docs[d] EXCEPT !.signed = @ \cup {Sender(o)}]
  ELSE Item(o, d).doc

Nothing == [docs |-> [d \in DocIds |-> NoDoc], inventory |-> {}]

CapturedBlocksign(o) ==
  [docs |-> [d \in DocIds |-> IF d \in ItemIds(o) /\ NewDoc(o, d).type = "blocksign"
                              THEN NewDoc(o, d) ELSE NoDoc],
   inventory |-> IF Fact[o].kind = "create" THEN inventory[Sender(o)] ELSE {}]

CapturedNewInventory(o) ==
  [docs |-> [d \in DocIds |-> IF d \in ItemIds(o) THEN NewDoc(o, d) ELSE NoDoc],
   inventory |-> {}]

Captured(o) ==
  [docs |-> [d \in DocIds |-> IF d \in ItemIds(o) THEN NewDoc(o, d) ELSE NoDoc],
   inventory |-> IF Fact[o].kind = "create" THEN inventory[Sender(o)] ELSE {}]

NewAddresses(o) == IF Fact[o].kind = "create-accounts" THEN {Fact[o].receiver} ELSE {}

\* Faults: a check of the proposal is left out.
NotDuplicated(o) == FALSE

\* checkDuplication and checkNewAddressDuplication, within one proposal.
DuplicatedSender(o) == Sender(o) \in duplicated
DuplicatedAddress(o) == NewAddresses(o) \cap duplicatedNewAddress # {}

-----------------------------------------------------------------------------
NoFee == [c \in Currencies |-> 0]
NoDelta == [a \in Accounts |-> NoFee]

Init ==
  /\ account = Genesis.account
  /\ held = Genesis.held
  /\ balance = Genesis.balance
  /\ docs = [d \in DocIds |-> NoDoc]
  /\ inventory = [a \in Accounts |-> {}]
  /\ included = {}
  /\ phase = "idle"
  /\ pending = {} /\ prepared = {}
  /\ captured = [o \in Ops |-> Nothing]
  /\ duplicated = {} /\ duplicatedNewAddress = {}
  /\ fee = NoFee
  /\ processed = {}
  /\ poolAccount = [a \in Accounts |-> NoAccount]
  /\ poolDocs = [d \in DocIds |-> NoDoc]
  /\ poolInventory = [a \in Accounts |-> {}]
  /\ poolSub = NoDelta /\ poolAdd = NoDelta

\* OperationProcessor.New: a proposal of operations not yet in a block.
New(S) ==
  /\ phase = "idle"
  /\ Cardinality(S) <= MaxProposal
  /\ phase' = "processing"
  /\ pending' = S
  /\ UNCHANGED <<saved, pool, prepared, captured, duplicated, duplicatedNewAddress>>

\* PreProcess, the processor refuses the operation.
PreProcessRefused(o) ==
  /\ o \in pending
  /\ ~Accepted(o)
  /\ pending' = pending \ {o}
  /\ UNCHANGED <<saved, pool, phase, prepared, captured, duplicated, duplicatedNewAddress>>

\* PreProcess, checkDuplication finds the sender in the proposal.
PreProcessDuplicated(o) ==
  /\ o \in pending
  /\ Accepted(o)
  /\ DuplicatedSender(o)
  /\ pending' = pending \ {o}
  /\ UNCHANGED <<saved, pool, phase, prepared, captured, duplicated, duplicatedNewAddress>>

\* PreProcess, the sender is marked before checkNewAddressDuplication refuses.
PreProcessAddressDuplicated(o) ==
  /\ o \in pending
  /\ Accepted(o)
  /\ ~DuplicatedSender(o)
  /\ duplicated' = duplicated \cup {Sender(o)}
  /\ DuplicatedAddress(o)
  /\ pending' = pending \ {o}
  /\ UNCHANGED <<saved, pool, phase, prepared, captured, duplicatedNewAddress>>

\* PreProcess, the operation is prepared.
PreProcess(o) ==
  /\ o \in pending
  /\ Accepted(o)
  /\ ~DuplicatedSender(o)
  /\ duplicated' = duplicated \cup {Sender(o)}
  /\ ~DuplicatedAddress(o)
  /\ duplicatedNewAddress' = duplicatedNewAddress \cup NewAddresses(o)
  /\ captured' = [captured EXCEPT ![o] = Captured(o)]
  /\ pending' = pending \ {o}
  /\ prepared' = prepared \cup {o}
  /\ UNCHANGED <<saved, pool, phase>>

-----------------------------------------------------------------------------
\* dinv.Append refuses a document id the captured inventory already has.
AppendFails(o) ==
  Fact[o].kind = "create" /\ ItemIds(o) \cap captured[o].inventory # {}

Credited(o, a) ==
  IF Fact[o].kind \in {"transfer", "create-accounts"} /\ Fact[o].receiver = a
  THEN AmountOf(o) ELSE NoFee

\* The account states of create-accounts and key-updater (external).
AccountSet(o) ==
  CASE Fact[o].kind = "create-accounts" -> {Fact[o].receiver}
    [] Fact[o].kind = "key-updater"     -> {Sender(o)}
    [] OTHER                            -> {}

\* Faults: a collected fee is subtracted.
FeesWithout(o) == [c \in Currencies |-> fee[c] - FeeOf(o)[c]]

FeesWith(o) == [c \in Currencies |-> fee[c] + FeeOf(o)[c]]

\* Process sets its states all at once; setState adds the fees first.
setState(o) ==
  /\ processed' = processed \cup {o}
  /\ fee' = FeesWith(o)
  /\ poolDocs' = [d \in DocIds |->
                    IF d \in ItemIds(o) THEN captured[o].docs[d] ELSE poolDocs[d]]
  /\ poolInventory' = [a \in Accounts |->
                         IF Fact[o].kind = "create" /\ a = Sender(o)
                         THEN captured[o].inventory \cup ItemIds(o)
                         ELSE poolInventory[a]]
  /\ poolSub' = [poolSub EXCEPT ![Sender(o)] =
                   [c \in Currencies |-> poolSub[Sender(o)][c] + Required(o)[c]]]
  /\ poolAdd' = [a \in Accounts |->
                   [c \in Currencies |-> poolAdd[a][c] + Credited(o, a)[c]]]
  /\ poolAccount' = [a \in Accounts |->
                       IF a \in AccountSet(o) THEN Fact[o].keys ELSE poolAccount[a]]

Process(o) ==
  /\ o \in prepared
  /\ prepared' = prepared \ {o}
  /\ IF AppendFails(o) THEN UNCHANGED pool ELSE setState(o)
  /\ UNCHANGED <<saved, phase, pending, captured, duplicated, duplicatedNewAddress>>

\* Faults: the fees are lost; the fees are kept for the next Close.
CloseWithoutFees ==
  /\ phase = "processing" /\ pending = {} /\ prepared = {}
  /\ phase' = "closed"
  /\ captured' = [o \in Ops |-> Nothing]
  /\ fee' = NoFee
  /\ duplicated' = {} /\ duplicatedNewAddress' = {}
  /\ UNCHANGED <<saved, pending, prepared, processed,
                 poolAccount, poolDocs, poolInventory, poolSub, poolAdd>>

CloseKeepsFees ==
  /\ phase = "processing" /\ pending = {} /\ prepared = {}
  /\ phase' = "closed"
  /\ poolAdd' = [poolAdd EXCEPT ![FeeReceiver] =
                   [c \in Currencies |-> poolAdd[FeeReceiver][c] + fee[c]]]
  /\ captured' = [o \in Ops |-> Nothing]
  /\ duplicated' = {} /\ duplicatedNewAddress' = {}
  /\ UNCHANGED <<saved, pending, prepared, processed, fee,
                 poolAccount, poolDocs, poolInventory, poolSub>>

\* Close: the fee operation pays the collected fees (external).
Close ==
  /\ phase = "processing"
  /\ pending = {} /\ prepared = {}
  /\ phase' = "closed"
  /\ poolAdd' = [poolAdd EXCEPT ![FeeReceiver] =
                   [c \in Currencies |-> poolAdd[FeeReceiver][c] + fee[c]]]
  /\ captured' = [o \in Ops |-> Nothing]
  /\ fee' = NoFee
  /\ duplicated' = {} /\ duplicatedNewAddress' = {}
  /\ UNCHANGED <<saved, pending, prepared, processed,
                 poolAccount, poolDocs, poolInventory, poolSub>>

\* close: the processor and the pool of the proposal are dropped.
close ==
  /\ phase' = "idle"
  /\ pending' = {} /\ prepared' = {}
  /\ captured' = [o \in Ops |-> Nothing]
  /\ duplicated' = {} /\ duplicatedNewAddress' = {}
  /\ fee' = NoFee
  /\ processed' = {}
  /\ poolAccount' = [a \in Accounts |-> NoAccount]
  /\ poolDocs' = [d \in DocIds |-> NoDoc]
  /\ poolInventory' = [a \in Accounts |-> {}]
  /\ poolSub' = NoDelta /\ poolAdd' = NoDelta

\* The block is saved: the pool is merged into the state (external).
Save ==
  /\ phase = "closed"
  /\ account' = [a \in Accounts |->
                   IF poolAccount[a] # NoAccount THEN poolAccount[a] ELSE account[a]]
  /\ held' = [a \in Accounts |-> held[a] \cup {c \in Currencies : poolAdd[a][c] > 0}]
  /\ balance' = [a \in Accounts |-> [c \in Currencies |->
                   balance[a][c] - poolSub[a][c] + poolAdd[a][c]]]
  /\ docs' = [d \in DocIds |-> IF poolDocs[d] # NoDoc THEN poolDocs[d] ELSE docs[d]]
  /\ inventory' = [a \in Accounts |->
                     IF poolInventory[a] # {} THEN poolInventory[a] ELSE inventory[a]]
  /\ included' = included \cup processed
  /\ close

\* Cancel, or a closed proposal that is not agreed on: the pool is dropped.
Cancel ==
  /\ phase # "idle"
  /\ close
  /\ UNCHANGED saved

Next ==
  \/ \E S \in SUBSET (Ops \ included) : New(S)
  \/ \E o \in Ops : \/ PreProcessRefused(o)
                    \/ PreProcessDuplicated(o)
                    \/ PreProcessAddressDuplicated(o)
                    \/ PreProcess(o)
                    \/ Process(o)
  \/ Close
  \/ Save
  \/ Cancel

Spec == Init /\ [][Next]_vars

-----------------------------------------------------------------------------
(***************************************************************************)
(* Properties.                                                             *)
(***************************************************************************)

\* Every variable stays in its type.
TypeOK ==
  /\ account \in [Accounts -> AccountKeys \cup {NoAccount}]
  /\ held \in [Accounts -> SUBSET Currencies]
  /\ balance \in [Accounts -> [Currencies -> Int]]
  /\ docs \in [DocIds -> Doc \cup {NoDoc}]
  /\ inventory \in [Accounts -> SUBSET DocIds]
  /\ included \subseteq Ops
  /\ phase \in {"idle", "processing", "closed"}
  /\ pending \subseteq Ops /\ prepared \subseteq Ops /\ processed \subseteq Ops
  /\ captured \in [Ops -> [docs: [DocIds -> Doc \cup {NoDoc}], inventory: SUBSET DocIds]]
  /\ duplicated \subseteq Accounts /\ duplicatedNewAddress \subseteq Accounts
  /\ fee \in [Currencies -> Nat]
  /\ poolAccount \in [Accounts -> AccountKeys \cup {NoAccount}]
  /\ poolDocs \in [DocIds -> Doc \cup {NoDoc}]
  /\ poolInventory \in [Accounts -> SUBSET DocIds]
  /\ poolSub \in [Accounts -> [Currencies -> Nat]]
  /\ poolAdd \in [Accounts -> [Currencies -> Nat]]

\* Every entry of an inventory names a registered document: the inventory and
\* the document data of a create reach the state together.
EntriesRegistered ==
  \A a \in Accounts : \A d \in inventory[a] : Registered(d)

\* Every registered document is listed in some inventory: no create of the
\* same proposal overwrites the inventory another one wrote.
DocumentsListed ==
  \A d \in DocIds : Registered(d) => \E a \in Accounts : d \in inventory[a]

\* A create whose items were accepted never fails later in dinv.Append, after
\* the operation has been accepted into the proposal.
AppendSucceeds == \A o \in prepared : ~AppendFails(o)

\* However the operations of a proposal interleave, no account spends more than
\* it had in the last block: balances are checked in PreProcess, against a value
\* that the other operations of the proposal do not change.
NoOverdraft ==
  \A a \in Accounts, c \in Currencies :
    0 <= balance[a][c] /\ poolSub[a][c] <= balance[a][c]

\* The fee of every processed operation is collected once: what the senders of the
\* proposal pay is what receivers and the fee operation get.
Total(f, c) == LET amountOf(a) == f[a][c] IN MapThenSumSet(amountOf, Accounts)
FeesCollected ==
  \A c \in Currencies : Total(poolSub, c) = Total(poolAdd, c) + fee[c]

\* The total supply of each currency is the one of the first block.
SupplyConserved ==
  \A c \in Currencies : Total(balance, c) = Total(Genesis.balance, c)

\* An account is created by one operation, in one proposal or in several.
AccountCreatedOnce ==
  \A o1, o2 \in included :
    /\ Fact[o1].kind = "create-accounts" /\ Fact[o2].kind = "create-accounts"
    /\ Fact[o1].receiver = Fact[o2].receiver
    => o1 = o2

\* A saved block never unregisters a document and never changes its owner,
\* whoever sends the updates and whatever else the block holds.
OwnerStable ==
  [][\A d \in DocIds :
       Registered(d) => docs'[d] # NoDoc /\ docs'[d].owner = docs[d].owner]_vars

NewlyIncluded == included' \ included
Touches(o, d) == d \in ItemIds(o)

\* A signature is lost only to an update of the document, which replaces it.
SignaturesKept ==
  [][\A d \in DocIds :
       Registered(d) => \/ docs[d].signed \subseteq docs'[d].signed
                        \/ \E o \in NewlyIncluded :
                             Touches(o, d) /\ Fact[o].kind = "update"]_vars

\* A document that gains a signature has a signer who sent it in this block, or
\* an update carried it: an operation that was refused after it had marked the
\* signer, or a cancelled proposal, leaves none.
SignaturesSent ==
  [][\A d \in DocIds :
       Registered(d) =>
         \A a \in docs'[d].signed \ docs[d].signed :
           \E o \in NewlyIncluded :
             /\ Touches(o, d)
             /\ \/ Fact[o].kind = "sign" /\ Sender(o) = a
                \/ Fact[o].kind = "update"]_vars

\* A sign operation of a block leaves its signature in the document, unless another
\* operation of the same block writes the document, too: then the one written last
\* is all that stays.
SignedOrOverwritten ==
  [][\A o \in NewlyIncluded :
       Fact[o].kind = "sign" =>
         \A d \in ItemIds(o) :
           \/ docs'[d] # NoDoc /\ Sender(o) \in docs'[d].signed
           \/ \E other \in NewlyIncluded \ {o} : Touches(other, d)]_vars

\* Each operation of a saved block had the signs of its sender's keys, as they
\* were before the block: a key update in the same block takes effect after it.
IncludedAuthorised ==
  [][\A o \in NewlyIncluded : Exists(Sender(o)) /\ checkFactSignsByState(o)]_vars

\* Seen block by block the document operations implement DocumentRegistry.
OwnerOf(d) == IF Registered(d) THEN docs[d].owner ELSE NoDoc
Registry == INSTANCE DocumentRegistry WITH
  NoOwner <- NoDoc, owner <- [d \in DocIds |-> OwnerOf(d)], listed <- inventory

\* Every saved block is a block of the registry, and nothing else changes what it
\* shows: registered and listed in one step, once, for good.
ImplementsRegistry == Registry!Spec

-----------------------------------------------------------------------------
(***************************************************************************)
(* The inductive invariant behind these properties (DocumentsProofs).      *)
(***************************************************************************)
InProposal == prepared \cup processed

\* An operation of the proposal is in one place, and the phases empty them.
Lifecycle ==
  /\ pending \cap InProposal = {}
  /\ prepared \cap processed = {}
  /\ phase # "processing" => pending = {} /\ prepared = {}
  /\ phase = "idle" => processed = {}

\* The proposal has one operation of each sender.
OneSender ==
  /\ \A o1, o2 \in InProposal : Sender(o1) = Sender(o2) => o1 = o2
  /\ phase = "processing" => \A o \in InProposal : Sender(o) \in duplicated

\* What a prepared processor captured still holds of the saved state.
CapturedFromState ==
  \A o \in prepared :
    /\ \A d \in ItemIds(o) : captured[o].docs[d] \in Doc
    /\ Fact[o].kind = "create" =>
         /\ captured[o].inventory = inventory[Sender(o)]
         /\ \A d \in ItemIds(o) : ~Registered(d)
    /\ Fact[o].kind \in {"update", "sign"} =>
         \A d \in ItemIds(o) : Registered(d) /\ captured[o].docs[d].owner = docs[d].owner

\* What the pool holds extends the saved state: documents keep their owner, new
\* ones are listed in the pool, and an inventory only grows.
PoolExtendsState ==
  /\ \A d \in DocIds : poolDocs[d] # NoDoc =>
       IF Registered(d) THEN poolDocs[d].owner = docs[d].owner
       ELSE \E a \in Accounts : d \in poolInventory[a]
  /\ \A a \in Accounts : poolInventory[a] # {} =>
       /\ inventory[a] \subseteq poolInventory[a]
       /\ \A d \in poolInventory[a] \ inventory[a] : ~Registered(d)
       /\ \E o \in processed : Sender(o) = a
       /\ \A d \in poolInventory[a] : Registered(d) \/ poolDocs[d] # NoDoc

\* What a prepared operation will spend is there, and nothing else spends it.
Budget ==
  /\ \A o \in prepared, c \in Currencies : Required(o)[c] <= balance[Sender(o)][c]
  /\ \A a \in Accounts :
       (\A o \in processed : Sender(o) # a) => \A c \in Currencies : poolSub[a][c] = 0

Authorised == \A o \in InProposal : Exists(Sender(o)) /\ checkFactSignsByState(o)

IInv ==
  /\ TypeOK
  /\ Lifecycle
  /\ OneSender
  /\ EntriesRegistered
  /\ DocumentsListed
  /\ CapturedFromState
  /\ PoolExtendsState
  /\ Budget
  /\ NoOverdraft
  /\ Authorised

(***************************************************************************)
(* The inductive invariant behind the properties of signatures             *)
(* (DocumentsProofs), on top of IInv.                                      *)
(***************************************************************************)

\* A proposal is about operations that are in no block.
NotYetIncluded == (pending \cup InProposal) \cap included = {}

\* A document that is registered is not created: not in this proposal, either.
CreatesNew ==
  \A o \in processed : Fact[o].kind = "create" => \A d \in ItemIds(o) : ~Registered(d)

\* A prepared sign adds its sender to the signatures of the last block.
CapturedSigned ==
  \A o \in prepared :
    Fact[o].kind = "sign" =>
      \A d \in ItemIds(o) : captured[o].docs[d].signed = docs[d].signed \cup {Sender(o)}

\* A processed sign is in the pool, or was overwritten there.
PoolSigned ==
  \A o \in processed :
    Fact[o].kind = "sign" =>
      \A d \in ItemIds(o) :
        \/ poolDocs[d] # NoDoc /\ Sender(o) \in poolDocs[d].signed
        \/ \E other \in processed \ {o} : Touches(other, d)

UpdatedInPool(d) == \E o \in processed : Touches(o, d) /\ Fact[o].kind = "update"

\* The signatures of a document in the pool are those of the last block and of the
\* signs that were processed, unless an update was.
PoolSignatures ==
  \A d \in DocIds :
    poolDocs[d] # NoDoc /\ Registered(d) /\ ~UpdatedInPool(d) =>
      /\ docs[d].signed \subseteq poolDocs[d].signed
      /\ \A a \in poolDocs[d].signed \ docs[d].signed :
           \E o \in processed : Touches(o, d) /\ Fact[o].kind = "sign" /\ Sender(o) = a

SInv ==
  /\ NotYetIncluded
  /\ CreatesNew
  /\ CapturedSigned
  /\ PoolSigned
  /\ PoolSignatures

(***************************************************************************)
(* The inductive invariant behind AccountCreatedOnce (DocumentsProofs),    *)
(* on top of IInv.                                                         *)
(***************************************************************************)
CreatesAccount(o, a) == Fact[o].kind = "create-accounts" /\ Fact[o].receiver = a

\* The proposal creates an account that is not there, once; a block has created it.
AInv ==
  \A a \in Accounts :
    /\ \A o \in InProposal : CreatesAccount(o, a) => ~Exists(a)
    /\ \A o \in InProposal :
         CreatesAccount(o, a) /\ phase = "processing" => a \in duplicatedNewAddress
    /\ \A o1, o2 \in InProposal : CreatesAccount(o1, a) /\ CreatesAccount(o2, a) => o1 = o2
    /\ \A o \in processed : CreatesAccount(o, a) => poolAccount[a] # NoAccount
    /\ \A o \in included : CreatesAccount(o, a) => Exists(a)
    /\ \A o1, o2 \in included : CreatesAccount(o1, a) /\ CreatesAccount(o2, a) => o1 = o2

(***************************************************************************)
(* The inductive invariant behind FeesCollected and SupplyConserved        *)
(* (DocumentsProofs), on top of IInv.                                      *)
(***************************************************************************)
\* No fee is left over when the processor is closed.
FeesPaid == phase # "processing" => fee = NoFee

MInv == FeesCollected /\ SupplyConserved /\ FeesPaid

=============================================================================
