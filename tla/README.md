# Verification of mitum-document

TLA+ models of [mitum-document](../src/README.md), model-checked with TLC and
proved about with TLAPS. mitum-document adds documents to a *mitum* currency
node: accounts register, update and sign documents with operations, blocks of
operations change the state, and a *digest* copies the blocks into MongoDB,
where an HTTP API reads them.

The blockchain itself (consensus, block storage, the state pool of a proposal,
the currency operations) is in the libraries `mitum` and `mitum-currency`. They
are not in this repository: what the models need of them is written from how
the code here uses them and marked *external*.

## 1. The system

| Component | State | Operations | Interacts with |
|---|---|---|---|
| Operation processing (`document/operation_processor.go`, `*_process.go`) | one `OperationProcessor` per proposal: senders and new addresses seen, processors to close, collected fees; processor pools of the process | `New`, `PreProcess`, `Process` (concurrent), `Close`, `Cancel` | reads the last block's states with `getState`, writes into the proposal's state pool with `setState` |
| Document types (`document/document*.go`, `state.go`) | values in two states: `<docid>:DocumentData` and `<address>:Documents` (the inventory) | `Append`, `Romove`, `Sort`, `Equal`, `SetSigned`, `Bytes`, `Hash` | written by the processors, read by the digest |
| Codecs (`*_json.go`, `*_bson.go`, `*_encode.go`) | none | pack and unpack | block files (JSON), MongoDB (BSON) |
| Digest indexing (`digest/digest.go`, `block_session.go`, `cmds/process_digester.go`) | channel of blocks, last digested block (in memory and stored), rows of seven collections | `Digest`, `start`, `Prepare`, `Commit`, `Initialize`, `digestFollowup`, `SetLastBlock`, clean | fed by `whenBlockSaved` in one goroutine per batch; writes MongoDB |
| Digest queries (`digest/database.go`, `*_value.go`) | the database | accounts, operations, documents, paging | read by the handlers while the digester writes |
| HTTP API (`digest/handler*.go`, `cache.go`) | response cache, request group | `GET` with paging, build and send | queries; the node's operation seal pool |
| Operation builder (`digest/builder.go`) | none; the fact, the operation and its signs go back and forth between it and a client | `FactTemplate`, `BuildFact`, `BuildOperation` | the build and send handlers |
| Commands (`cmds/`) | the seal file that one command writes and the next reads | run, restore, clean, send, make operations | wire the above together |
| Account permissions (`document/account_permission*.go`) | none | a data type that nothing uses | - |

### What is hard

* *A proposal is one snapshot.* Every `PreProcess` reads the states of the last
  block and every `Process` writes what it computed from that reading. Creates
  write the sender's whole inventory and signs the whole document, so two
  operations of a proposal that read the same state lose one of the writes.
  What prevents most of that is `checkDuplication`: one operation per sender.
* *Money moves in three places.* An operation's amount and fee are compared with
  the balance in `PreProcess`, subtracted in `Process`, and the fee is collected
  by concurrent `setState` calls and paid out in `Close`.
* *Processors are recycled* through `sync.Pool`s, with lists of item processors
  left in them.
* *The digest is not transactional.* A block is half a dozen writes; one fails
  and the block is digested again, or the node stops between two, and at the
  next start the stored last height decides what is deleted and redone.
* *Blocks arrive in any order* at the digester when two batches are saved.
* *Blocks go away again*: clean, clean-by-height and restore roll the digest back, although
  it deletes the old rows of a document when it inserts a new one.
* *Clients repeat their calls*: an operation is built in two calls with the client's changes
  in between, is checked with another list of comparisons for each type, and may be sent
  around the builder.

The full list, each at its line with the properties it is covered by, is
`hazards` in `PROJECT.json`.

### What makes each component correct

* Operation processing: inventories and document states agree; an accepted create
  succeeds; owners never change; signatures appear and disappear only with their
  operations; nobody overdraws; fees and supply are conserved; only what was
  signed with the sender's keys is included; an operation is processed with its
  own items.
* Digest: the stored last height is never ahead of the rows; after a restart
  every document is there in its newest version; every saved block is digested.
* Queries and API: following the links of the pages shows everything once; a
  cached response is the one of its request.
* Accounts of a public key: every holder is listed, once, although a page takes three kinds
  of queries with account rows arriving in between.
* Builder and send: nothing of a template is accepted, what is sent is what was filled in,
  a repeated call makes no second operation, a chain of commands loses no item.
* Codecs: what is packed is unpacked.

## 2. Modules

```
DocumentRegistry   (abstract: who owns and who lists a document, block by block)
      ^  refinement, ImplementsRegistry
Documents  <--- DocumentsProofs
      ^--- MCDocuments            (instances for TLC)
ProcessorPools <--- ProcessorPoolsProofs
      ^--- MCProcessorPools
Making <--- MakingProofs
      ^--- MCMaking
Digest <--- DigestProofs
      ^--- MCDigest
Pages <--- PagesProofs
      ^--- MCPages
Accounts <--- AccountsProofs
      ^--- MCAccounts
Codecs <--- CodecsProofs
      ^--- MCCodecs             (builds the values for TLC)
WellOrder          (smallest and largest numbers, induction: for the proofs of
                    Documents, Making, Pages, Accounts and Codecs)
```

### Documents

One action per step of a proposal:

| Action | Code |
|---|---|
| `New(S)` | `OperationProcessor.New`, with the operations `S` of the proposal |
| `PreProcessRefused(o)`, `PreProcessDuplicated(o)`, `PreProcessAddressDuplicated(o)`, `PreProcess(o)` | `OperationProcessor.PreProcess`: the processor's and its items' `PreProcess`, then `checkDuplication`. The four are the four ways it returns. The sender is marked before the new addresses are checked, as in the code |
| `Process(o)` | `OperationProcessor.Process` and the processor's `Process`. A create whose inventory has the document fails and sets nothing; otherwise `setState` adds the fee and sets all the states |
| `Close` | the fee operation's states are set, the processors closed |
| `Save` | the block is saved: the pool becomes state (external) |
| `Cancel` | the proposal is dropped |

`PreProcess` of one operation is one step: it reads only the last block's states,
which do not change during a proposal, and holds the processor's lock while it
marks the sender. `Process` steps interleave with each other and with
`PreProcess` of other operations. `captured` is what a processor keeps between
the two (`nds` and `dinv`).

State abstraction: a document is its type, owner, creator, signers and who of
them signed; title, size, file hash and the fields of the user, land, voting and
history documents tell no property apart. For those types `signers` are the
accounts that the document refers to, as `Accounts()` returns. An inventory is the set of its ids.
The facts that operations may have are a constant, `Fact`, so that the theorems
hold for every set of operations. `FactAssumption` is what `IsValid` of the facts
and items checks.

### ProcessorPools

The life of the processor objects: taken from a pool or allocated, filled with
the item processors of an operation, refused or accepted, closed into a pool. `PutInto`
says which pool each `Close` names, `Pooled` which types are taken with `Get`, `Places` from
where an object is put back.

### Digest

One action per write of `BlockSession.Commit`, and what surrounds it:
`whenBlockSaved`'s goroutines (`Send`), the channel, `Retry(0, ...)` of
`Digester.start`, failed writes that leave some of their rows (`PartialWrite`), a
stop between any two writes (`Crash`), and `Initialize` followed by the follow-up
(`Start`, `FollowUp`). Three copies of the last height are kept apart, as in the
code: the stored one (`info`), the digester's (`lastBlock`), and the session's
copy, which is dropped with the session and so only `setLastBlock(height - 1)`
on it matters: it stores and does not change the digester's. A write may also be done
and report an error; for the last write of a block that is a disjunct of `PartialWrite`
(`LostReply`), for the others it is the same as an error of the next write.

While the node is down its operator may roll back:

| Action | Code |
|---|---|
| `CleanByHeight(h, restore)`, `CleanLastBlock` | `clean-by-height` and the start of `restore` (which cleans from its height, 0 for all): `Initialize`, the deletions of `cleanByHeight`, then `setLastBlock(h - 1)` (`digest/database.go`) |
| `RestoreBlock`, `RestoredBlock` | `restore` digests each block again, without storing it as the last one (`cmds/restore.go`) |
| `Restored` | the last restored block is stored when all are done |

The history variables `lost` and `unsure` say what such a step gives up: `lost` the documents whose
only row is deleted, until a block that holds them is digested; `unsure` the height from which
the stored last block may be ahead of the rows, after a clean that was stopped half-way or was asked
for a height that was not digested yet.

### Pages

A client that follows the "next" links of a listing, from the first page to the
one that is not found, with the server's parts that decide which rows it gets:

| Action | Code |
|---|---|
| `Digest` (`DeleteRow`, `InsertRow`) | `BlockSession.Commit`: the rows of a block as they appear; an update takes away the old row of its document |
| `Begin`, `LoadFromCache`, `Lead`, `Join` | a handler called by this client: the response cache, then `singleflight.Group.Do` as the first request of a group or as a later one |
| `Other` | the same by another client, with any offset and limit |
| `Answer`, `Store`, `Expire` | the response; `CacheResponseWriter.Cache` after it, unless the request was shared; the cache forgets |

The cache key has no limit in it, and the limit is not in the link: a page that
another client asked for with another limit is what this client gets, and its
link must still be right. A page is the first rows beyond the offset in the order of
`Position`: height and index for operations, height alone for documents and manifests.
So the offset of a page of documents skips what is left of the block that the page ended in
(`nextOffsetOfDocuments`), and a row of operations that appears, out of turn, behind the client is not read
any more (`writeModels`). `NothingSkipped` says which rows these may be and where: `MayMiss`, by the history
variable `late` (rows that appeared before one that was already there), and `AtEdge`, by `ends` (the blocks that pages of
the walk ended in). The listing of the documents of one height is `buildDocumentsByHeightFilter`, whose query has
no offset: every page of it is its first rows.

### Accounts

The accounts of a public key, which are the result of many queries:

| Action | Code |
|---|---|
| `InsertRow(a, holds)` | the digester adds an account row: the account has the key, or has lost it |
| `QueryTop`, `QueryAddresses`, `QueryChunk` | `topHeightByPublickey`, `addressesByPublickey`, one turn of the loop of `filterAccountByPublickey` |
| `Answer`, `Store`, `Expire`, `Other`, `Begin`, `LoadFromCache`, `Lead`, `Join` | the handler, its cache and request group, as in `Pages`; a request that joined another has no last address and fails on a page that is not empty |

`ChunkStart`, `ChunkEnd` and `SliceFails` are the bounds as the code computes them, with the end
`(i + 1) + 50` cut at the length (here `Chunk` for 50). `Covered` is how many addresses the chunks
reach.

### Making

How an operation comes about, with the API or with the commands:

| Action | Code |
|---|---|
| `FactTemplate(type)` | `Builder.FactTemplate` and its handler |
| `Fill`, `Compose`, `Sign(k)`, `AddSign(k)`, `Alter` | the client and its signers (external): they fill in fields, make an operation without the builder, sign any bytes that they were ever given, change the operation after it was built |
| `BuildFact` | `Builder.BuildFact` and `buildFact...`: a token for the template's (`checkToken`), the first amount only, `isValidFact...`, an operation with the sign of the template |
| `BuildOperation(send)` | `Builder.BuildOperation` and `build...`: `IsValid`, `isValidFact...`, times for the template's (`updateFactSigns`); the handler may send |
| `sendItem` | `handleSend`: an operation that the client sends without the builder |
| `Run(command, id)` | the commands of create, update, update-history and sign: `LoadSeal`, the items of the seal's last operation of the type, `LoadSealAndAddOperation` |
| `SendSeal` | `SendCommand` |

A fact is its type, its token, the fields that still hold the template's value (`unset`) and the number of
amounts. `Fields` and `Compared` say for each type which fields the template fills and which `isValidFact...`
compares. Every call may be repeated at any time; `calls` is the clock.

### Codecs

The forms of a value: what the hand-written `MarshalJSON`, `MarshalBSON`, `UnpackJSON`,
`UnpackBSON` and `unpack` methods make of documents and their parts, inventories, facts, items
and the values of the digest. The methods are tables, one row for each type: `...Unpack` has the
parameters of `unpack` in their order and how each becomes a field (as it is, by `Decode` and a
type assertion, by `DecodeSlice`, or, in JSON, by an object of the unpacker's own), `...JSON` and `...BSON` the keys that the packer writes and
the keys that the unpacker passes on. `Encode` and `Decode` (the encoders of mitum,
external) go by the tables and by the registered `Hinters`. The account of an account value is such an own object
when it is read from JSON: `AccountValue.UnpackJSON` gives `unpack` no account and fills a new one with `UnpackJSON`, which
leaves it without a hint, `UnhintedAccount` (`HintRead`). Strings, addresses, numbers and times are leaves.

A value is flat: a function from places to objects, where a place is the way to the object from the
outermost one (`Root`), a sequence of fields and positions. An object has its hint and its parts, and a part that is an object or a
list of objects names their places (`Object`, `List`); what no object leads to (`Reached`) is not part of the value any more.
So an encoder does the same to every object, and no definition follows the depth of a value. The
values there are is a constant, `Values`, with `WellBuilt` as its assumption: every object has the fields of its type, each as
`unpack` would make it. `MCCodecs` builds such values of every type for TLC, and the theorems hold for every set of them.

| Action | Code |
|---|---|
| `Marshal(enc)`, `MarshalFails(enc)` | an encoder writes the value; BSON has no unsigned integers of 2^63 or more |
| `Unmarshal(enc)` | the encoder reads it: hinter, `UnpackJSON` or `UnpackBSON`, `unpack` |
| `Alter` | a leaf of a fact's JSON form is another one than was written |
| `IsValid` | the check of the hash at the end of a fact's `IsValid`; its other checks are in `Documents` |

A value is in memory, written by either encoder and read again any number of times, as
values are: operations come as JSON, are stored as BSON, written to block files as JSON, and shown.

## 3. Runs

| Run | Configuration | Shows |
|---|---|---|
| `documents` | 385,000 states: document operations of two accounts over two ids with transfers, an account creation, a key update and an unknown currency; proposals of up to 3 | states and inventories agree and implement `DocumentRegistry`; signatures, balances, fees, supply, authorisation |
| `documents_twice` | the document operations | violation: one id registered by two operations of a block |
| `pools` | two creates and an update, six objects (symmetric) | an accepted operation has its own item processors |
| `pools_sign` | a create and a sign, four objects | violation: the assertion on what `Get` returns fails |
| `digest_crash` | 4.8 million states: 3 blocks, one batch at a time, a failed write or lost reply, 2 stops, a clean or restore command | no block left out, documents current |
| `digest_batches` | 3 blocks, two batches at a time, channel of 1, a failed write or lost reply | every saved block digested (liveness), newer versions kept |
| `digest_gap` | 2 blocks, two batches, 1 stop | violation: a block is never digested |
| `pages` | 570,000 states: operations (of the chain, of one height), manifests, documents; 2 or 3 blocks, one of two rows, in any order; limits 1 and 2; another client's request at a time | which rows may be skipped, and where; none is shown twice; the links end (liveness) |
| `pages_account` | the documents of an account, and those of one height | violation: the links lead back to the page they stand on |
| `accounts` | 1.15 million states: 3, 6 or 9 accounts and chunks of 4, some without the key any more; a row added meanwhile; another client | holders listed, once, and no failure, as long as the chunks cover them |
| `making` | 966,000 states: any type, two signers, up to 4 calls; chains of up to 4 commands after three kinds of seals | what is accepted and sent is what was filled in; retries, times of signs, items of a chain |
| `codecs` | values of all types, lists of 0 to 2 elements, small or large numbers | hints and fields are kept by both encodings but the documents of an inventory and the hint of an account read from JSON; only large numbers cannot be stored, and only such an account value cannot be read back; a fact is accepted as it was hashed |

*Bounds.* Two senders in a proposal are enough for every conflict that the code can
have, for the conflicts are pairwise (two writers of a state, two spenders of a
balance); a third account can be created, a third operation shows that an
earlier refusal leaves nothing behind. Amounts are chosen so that two spendings
fit the balance separately and not together. Three blocks allow an older,
the failing and a newer version of a document; two stops include a stop during
the recovery from a stop. `MaxCopies` = 2 tells "once" from "more than once".
`MaxProposal`, `MaxHeight`, `MaxBatches`, `MaxFailures`, `MaxCrashes`, `MaxCommands`, `MaxPuts`, `MaxCopies`, `MaxRequests`,
`MaxUpdates`, `MaxCalls` and, in `MCCodecs`, `MaxItems` (the length of lists) are all the bounds there are; limits of the code
are the items of an operation (`MaxItems` of `Documents` and `Making`), the length of a page (`ItemsLimit`, `MaxLimit`),
the channel (`ChanSize`, 100 in the code, 1 here, so that it is full) and the chunk (`Chunk`, 50 in the code, 4 here:
3 accounts are in one chunk, 6 are the most that the chunks cover, and with 9 the slice bounds fail).

In `pages` a page ends inside a block or at its end, the two rows of a block appear in either order,
two documents share a block that is neither the first nor the last, an old and a new version of a
document are before and behind the client, and one request of another client
suffices to put a page of another limit, or an older one, into the cache; its later
requests can do so again.

In `making` four calls are a built operation, a repetition of each of the two calls, and one sent
by the client itself. Of the two signers one uses the place of the template's sign and one adds a sign.

*Deadlock* is not checked for `Digest`, `ProcessorPools`, `Pages`, `Accounts`, `Making` and `Codecs`: a node that has saved
its last block within the bound, a process that has panicked and a client that is done or has used up its
calls stop, and a value may be refused. `Documents` has no such state and is checked for deadlock.

*Preconditions.* `NoGap` and `DocumentsCurrent` are checked with one batch at a time: with two they do not
hold, which is what `digest_gap` shows. `NoGap` says nothing of heights from `unsure` on, and
`DocumentsCurrent` nothing of `lost` documents; section 4 names the steps that put them there.
`HoldersListed` is stated for up to `Chunk + 2` accounts that ever had the key, `ListedOnce` for up to `Chunk`
and `FailsAlone` for up to `2 * Chunk`: the numbers up to which they hold with the ends of the chunks
as the code computes them. `NothingSkipped` has its condition in itself: every row has been shown that the walk is past, but
a document or a `late` row in a block where a page ended, or where the first page of a walk back began. Without any of
the four parts of that condition (documents, late rows, ends, first page) TLC finds a row that is skipped.

*Fairness* (`Digest`): weak fairness of the goroutines' sends, of the digester taking
a block, of the follow-up and of the writes, each of them a goroutine that runs
on its own while the node is up. A failed write is retried without limit; the
failures are bounded, which says that the database answers again. Nothing is assumed of saving blocks, of stops or of a start. For `Pages`: a client that began
goes on, and its requests are answered; nothing of other clients, the digester or the cache.

## 4. Findings

Each is a violation run; `findings` in `PROJECT.json` quotes the line that says otherwise.

1. `documents_twice` - two senders can register one id in one block.
2. `digest_gap` - with two batches in the wrong order and a stop, a block is never digested; it takes both (section 5).
3. `pools_sign` - sign processors go into the pools of create processors; nothing else makes the assertion fail (section 5).
4. `pages_account` - the link to an account's next documents has its offset under a
   name that no handler reads.

More differences are seen in the models' definitions and have no run of their own.

*Operations.* A create lists its document in the inventory of the sender, not of the owner that the document
names (`captured` in `Documents`), which the comment at `document/create_documents_process.go:219`
calls the "owner document inventory": the owner's later updates are refused if it has no inventory.
An inventory is written to JSON under "documents" and read under "address"
(`document/document_inventory.go`; `InventoryJSON` in `Codecs`), so that every inventory that comes
from a block file or a response is empty, which `ContentKept` says along with what is kept.
An account value read from JSON has an account without a hint (`digest/account_value_json.go:45`; `Own`), which BSON
writes and cannot read back (`digest/account_value_encode.go:13`; `OnlyNumbersAndAccountsFail`). This rests on
`UnpackJSON` of `currency.Account`, which is external, filling the fields of the account and not its hint, as every
`UnpackJSON` of this repository does.

*Digest.* If the last write of a block is done but reports an error (`LostReply`), the block is digested again
while it counts as digested; a node that stops between the deletion and the insertion of its documents
never comes back to it, and the documents are gone (`Abandoned`, `lost`).
`CleanByHeight` deletes the newest row of a document when older ones have been deleted already, so
that a rolled-back digest shows no version at all (`lost`).
The follow-up starts at the last digested block and not after it
(`cmds/process_digester.go`, `digestFollowup`; `FollowUp`), so that a restart with a
new block inserts the rows of that block a second time.

*Queries.* The offset of a page of documents is a height (`nextOffsetOfDocuments`): the documents of that height that
the page left out are on no page. The rows of a block are inserted by an unordered bulk write (`writeModels`): a client that
reads the block's later operation first does not come back to the earlier one. `NothingSkipped` allows these rows and no others
to be missed. The documents of one height (`buildDocumentsByHeightFilter`) have no offset in their query, although their pages have a
link with one, so that the link comes back to the same page; `pages_account` walks them too. The chunks of `topHeightByPublickey` and `filterAccountByPublickey` end at
`(i + 1) + 50` (`digest/database.go:533`, `:633`; `ChunkEnd` in `Accounts`): of a key with more than 50 accounts
some may be listed twice, with more than 52 some are left out, and with more than 100 the slice bounds panic. A request
for the accounts of a key that joins another one builds its link from a `lastaddress` that only the other one has set
(`digest/handler_account.go:280`, `:361`) and fails.

*Making operations.* `update-blockcity-history-document` makes a create operation
(`cmds/update_blockcity_history_document.go:119`), while its help says "update blockcity history document"
(`cmds/document.go:12`; `Made`). `LoadSealAndAddOperation` replaces the operations of the seal, under the comment "add
operation to existing seal" (`cmds/create_blocksign_document.go:212`; `Run`), and can write a seal that the next
command refuses to read (a repeated id, too many items; `LoadSeal`). The template of create-documents is an empty
document, which has no bytes to sign (`Templates`). `BuildFact` keeps the first amount of an item of
create-accounts and drops the others (`digest/builder.go:266`; `Rebuilt`). No `isValidFact...` compares the document
id of a sign, or the currency, with the template's (`Compared`; `AcceptedFilled` names both).
`handleOperationBuildSign` calls `sendSeal` (`digest/handler_operation_build.go:132`) without the look at `hd.send`
that `handleSend` has.

## 5. Proofs

Every theorem holds for every value of the constants: any set of accounts, documents, operations, fees
and first block; any operations, items and pooled objects; any keys and number of calls; any number of
blocks, rows, failures, stops and commands; any limits, chunk length and number of other clients; any set of well-built values.

| Module | Theorem | Property |
|---|---|---|
| `DocumentsProofs` | `Invariance` | `[]IInv` |
| | `TypeCorrect`, `EntriesAreRegistered`, `DocumentsAreListed`, `CreateSucceeds`, `NobodyOverdraws` | the state invariants |
| | `OwnerNeverChanges`, `OnlyAuthorisedIncluded` | the action properties |
| | `RegistryImplemented` | `Spec => Registry!Spec` |
| | `CreatedOnce` | `AccountCreatedOnce` |
| | `FeesCollectedOnce`, `SupplyStays` | `FeesCollected`, `SupplyConserved` |
| | `SignaturesStay`, `NoForeignSignature`, `SignaturesTake` | what saved blocks do to signatures |
| `ProcessorPoolsProofs` | `PoolsInvariance`, `PoolsTypeCorrect`, `ItemsAreOwn` | `[]PInv`, `TypeOK`, `OwnItems` |
| | `OnlySignsPanic` | `AssertionHolds` (violated in `pools_sign`), if no operation is a sign |
| `DigestProofs` | `TypeCorrect` | `TypeOK` |
| | `StoredNotAhead`, `CurrentDocuments` | `NoGap`, `DocumentsCurrent`, for `MaxBatches = 1` |
| | `ReadableWhileUp` | `DigestedReadable`, as long as the node stays up |
| | `UpToDateWhileUp`, `UpToDateInTurn` | `BlocksUpToDate` (violated in `digest_gap`), as long as the node stays up, and for `MaxBatches = 1` |
| `PagesProofs` | `TypeCorrect` | `TypeOK` |
| | `RowsShownOnce`, `NoRowSkipped` | `ShownOnce`, `NothingSkipped`, but for the two listings of `pages_account` |
| `AccountsProofs` | `TypeCorrect`, `OnlyHoldersListed`, `SlicesHold`, `AccountsListedOnce`, `AllHoldersListed` | `TypeOK`, `ListedHeld`, `FailsAlone`, `ListedOnce`, `HoldersListed` |
| `MakingProofs` | `Invariance`, `TypeCorrect` | `[]IInv` of `Making`, `TypeOK` |
| | `AnsweredIsFilled`, `AnswerIsAccepted`, `SentIsFilled`, `RetriesSendOne` | the state invariants of the API |
| | `TimesStay` | `SignTimesKept` |
| | `ChainKeepsItems` | `ItemsKept` |
| `CodecsProofs` | `Invariance` | `[]CInv` |
| | `ContentsKept`, `OnlyNumbersAndAccountsLost`, `OnlyBuiltAccepted` | `ContentKept`, `OnlyNumbersAndAccountsFail`, `AcceptedAsBuilt` |

*Hypotheses*. These theorems about properties of passing runs hold under a condition, each with a run that shows what happens without it or that is
bounded by it. With two batches at a time `digest_gap` leaves a block out (`MaxBatches = 1`). `DigestedReadable`
is checked where the node does not stop, `digest_batches`: a stop between the deletion of a document and its insertion
is `lost`, and `DocumentsCurrent` speaks of that. `pages_account` walks the two listings whose link leads back; on the others the theorems hold for blocks of any rows that appear
in any order.

Three theorems say what two of the findings need. `BlocksUpToDate` holds while the node does not stop, with any
number of batches in any order (`UpToDateWhileUp`), and through any stops and failures with one batch at a time as
long as the stored height is reliable, `unsure = Never` (`UpToDateInTurn`): the gap of `digest_gap` takes both. `AssertionHolds`
holds if no operation is a sign (`OnlySignsPanic`): creates and updates alone never make it fail.

*Assumptions*: `ConstantsAssumption` (types of the constants; the fee receiver is an
account, amounts of the first block are not negative), `AccountsAssumption` (there are finitely many accounts, for the totals)
and `FactAssumption` (what `IsValid` guarantees); `PoolsAssumption`; `DigestAssumption`; `PagesAssumption`; in `Accounts`,
`AccountsAssumption` (the rows of the start are finitely many, of blocks 0 and 1; the lengths are not zero);
`MakingAssumption` and `SealsAssumption`; `ValuesAssumption` (the values of `Codecs` are `WellBuilt`); and in `Making`, `Pages` and `Accounts` a `NoneAssumption` (None is no key and
no operation, NoOffset is no offset). TLC evaluates them in the runs of their modules.

*Argument, `Documents`.* None of the invariants is inductive alone. What an accepted operation
will do at `Process` depends on what it captured in `PreProcess`, so `IInv` adds
that the captured values still agree with the saved state (`CapturedFromState`: the
saved state only changes in `Save`, when no operation is prepared), that the proposal
holds one operation of each sender (`OneSender`), that what the pool holds extends the
saved state (`PoolExtendsState`) and that what prepared operations will spend is there
and spent by nobody else (`Budget`). `OneSender` is the heart: it makes the inventories of two
creates in one proposal different ones, and the budget of each account that of one
operation. `Authorised` carries the check of the signs from `PreProcess` to `Save`.
The refinement uses `IInv` in `Save`, the only step that is not a stutter of
`DocumentRegistry`.

`SInv`, the invariant of signatures on top of `IInv`, carries the history of the proposal: what a prepared sign captured is the
saved document with the sender's mark added (`CapturedSigned`), a processed sign is in the pool unless another operation
of the proposal wrote its document (`PoolSigned`), and every signature in the pool that is not in the
saved state is that of a processed sign's sender, or came with an update (`PoolSignatures`). `AInv`, that an account is created
once, joins the two checks that each see half of it: `duplicatedNewAddress` the proposal, the processor the blocks before it.

`MInv` is about money: `FeesCollected` and `SupplyConserved`, joined by `FeesPaid`, that no fee is left when the processor
is closed. `Total` is a fold over the accounts. `TotalIs` unfolds it into a function on sets of accounts that adds one
account at a time, whose existence is shown by induction on the number of accounts; the same induction gives that the
total of a sum is the sum of the totals (`TotalAdds`) and that what one account has is a total (`TotalOfOne`). A
processed operation then adds to both sides what its sender pays (`Moved`), and `Save` moves equal totals.

*Argument, `ProcessorPools`.* `PInv` says that an object is in one place only, in somebody's hands or once in a pool, and blank
when it is in a pool. It needs no disjointness of lists: an object that an item has holds that item, so that
`holds` tells any two apart. Then `close` counts every object at most once (`OccursOnce`), and `Get` hands
out an object of nobody (`GetTakes`). That signs go into the pools of creates does not matter to it, only to the assertion:
`InOwnPool`, that an object is in the pool of its type, is what a sign breaks and all others keep.

*Argument, `Digest`.* The invariants share `TInv`, the types and which block is at hand, and `WrittenSoFar`, the rows that block
has got at each step. While the node is up nothing else is needed but `StillReadable` (`RInv`): the deletion of the old rows of
a document is of lower heights only, and its insertion is retried until it is done; and `NoneLeftOut`, that a saved block is digested
or a goroutine, the channel or the digester has it. That a block is digested only once those
before it are needs one batch at a time: `InTurn` says what has still `ToCome` and that it lies above some height, and `AllSettled`
that the stored height is ahead of no row, because it is written last, a session that failed stores one less, and what a clean
deleted is below `unsure` (`GInv`). On top of it, `DInv` follows a document through the stops: it has a row unless it is `lost` or
a block to come replaces it, with the memory of the digester (`KeptDone`) and without it (`KeptStored`).

*Argument, `Pages`.* The position of a row in the order of its listing is a number of the chain. `OInv` says that every page
that the client may get, in the cache, answered or being answered, lies behind its own offset and before its link
in this order; then what the client was shown lies before its link. For `NothingSkipped`, `NInv` adds that such a page
leaves out no row between its offset and its last row but one that may be missed, at one of its two edges (`Whole`). A row can slip
into a page that was read only at such an edge, because what is still `Coming` is in no block before one that was read
(`Known`, `Passed`); there it is a document or `late` by then. The edge of a page that the client is shown is an
end of its own walk, as the page's offset is its link, the position of the last row it was shown (`ShownUpToLink`).

*Argument, `Accounts`.* `Inv` follows a request through its queries. Until the addresses are taken, everybody who keeps the key is among
those that the query will take (`Covering`, by the height that was found); then, that those of the chunks which were taken are
among the items. `ChunkEnds`, `ChunksMeet` and `AllCovered` are what the ends of the chunks, as the code computes them,
give for every chunk length and number of addresses: a chunk starts at the end of the one before or earlier for up to
`Chunk + 2` addresses, and slices hold for up to `2 * Chunk`. A page that was answered covers its part of the
addresses for as long as it is in a cache, because `kept` is told of every row (`PageRight`); and what the client
was shown covers everything up to its link (`ClientRight`, `PageShown`). The chunk is the only place where a page may
end early, and there its last item is the last account that was looked at.

*Argument, `Making`.* The client may do anything to its operation, so that `IInv` has to say what it cannot do: the facts
whose bytes were given to sign are its draft but for what `BuildFact` replaces (`BasesAsFilled`), the hash is one of
these, and a fact that was altered has fewer fields of the template than that hash (`OperationAsFilled`), which
is what makes `IsValid` notice it. `UInv` is about the commands: the seal is the items asked for since the last command that
started a new operation (`Since`), which is what `ItemsKept` asks at the end.

*Argument, `Codecs`.* The tables are read row by row: `Proper` is what the parameters of `unpack`, the keys of the packer and
those of the unpacker of a type must agree on, and `AllRows` that every type's do, but for the JSON methods of an inventory,
whose unpacker looks for another key than the packer wrote, and for the account that JSON reads, which has no hinter. From `Proper` alone follow what becomes of an object (`Encoded`, `Decoded`) and of
a value (`RoundTrip`), and that a leaf altered in an encoded form is that leaf of the value altered (`AlteredEncoded`).
`CInv` says that what is carried comes of the value that was built: it, or what one reading of JSON
leaves of it, which a second reading leaves as it is (`FromJSONShaped`), or a fact with one leaf
altered. Only an account value has an account inside, and nothing has an account value inside (`Parent`, `AccountInside`), so that BSON reads
every other value (`Reread`) and, once it was JSON, not this one (`AccountUnread`). A fact has no inventory and no account
inside (`InsideFact`, by induction on the length of a place), so nothing of it is lost, and no hash
but at its root, so an altered leaf is either that hash or is in the bytes that it is made of (`AlteredRefused`). With a key of one packer
changed, the row of that type cannot be proved.

The inductive invariants are in no run: TLC checked them on the runs' instances before they were proved, and the
runs keep their conjuncts that are properties.

*Induction* over numbers is stated for sets (`Induction` of `WellOrder`, from the well-ordering of the library): a set that has 0 and
with any number the next has them all. The library's own rules take an operator as a parameter, which the
provers cannot instantiate.

*Only model-checked*: liveness, `SavedBlocksDigested` of `Digest` and `WalkEnds` of `Pages`, which is out of the provers' reach. Every
invariant and action property that a run checks is a theorem.

## 6. Not modelled, and assumptions

* `getState` is taken to decode a value afresh for each call. The state pool is
  external; under a shared value `SignDocumentsItemProcessor.PreProcess`, which
  marks the signer before its last checks, would leave marks of refused operations.
  `Bytes`, which sorts the signers of a value in place, is left out for the same reason.
* The rows of one collection of a block are inserted or not as one, except for the
  document rows (and in `Pages`); `Initialize` and `cleanByHeight` delete in one step; the genesis block has no documents,
  and the block before it, which holds nothing to digest, is left out (`NilHeight`). Restored blocks come one at
  a time, lowest first.
* Single values (`Account`, `Documents`, `Manifest`, balances) are one or a few reads without state of their own; that `DocumentList`
  goes on with a nil value after an error is left to tests.
* `Pages` has rows that are there once. A page is read from the database in one step.
* In `Codecs` the hash of a fact is taken to be as good as its bytes, and `Bytes` keeps the fields apart
  where the code concatenates them without lengths: `AcceptedAsBuilt` is checked for one altered
  leaf, where both are the same, and says nothing of two fields that exchange characters. The bytes of
  the size of a `BSDocData` are those of `currency.Big`, which is external; if they are those of the absolute
  value, a changed sign stays unnoticed, as `IsValid` does not look at the size.
* The currency registration and policy operations, the checks of the fields of a document, the order, equality and removal
  in an inventory (`Equal` and `Romove` are not called), account permissions (not used), HAL documents and routing,
  command lines, keys, configuration and the start-up of the node's processes (I/O without state of their own).
* `IsValid` of operations, seals and currency facts, MongoDB, the state pool, `sync.Pool`, `singleflight` and the response cache
  are external: what the models take them to do is said where they are used.

## 7. Plan

What is left, in this order:

1. *Digest*: a theorem for any number of batches, of what two batches leave behind: that a block is left out only
   below the stored height of a batch that went ahead.
2. *Currency operations of the processor* (registration, policy): they share the pool and the duplication
   checks with the document operations, and nothing of their states.
