------------------------------- MODULE Digest -------------------------------
(***************************************************************************)
(* The digester of mitum-document (digest/digest.go, block_session.go,     *)
(* database.go and its use in cmds/run_node.go, cmds/process_digester.go): *)
(* it follows the saved blocks and keeps a queryable copy of them in       *)
(* MongoDB.                                                                *)
(*                                                                         *)
(* The node saves blocks in batches; for each batch a goroutine sends the  *)
(* blocks, lowest first, into the channel of the digester, which digests   *)
(* one block at a time.  Digesting a block is a sequence of writes with no *)
(* transaction around them: any of them can fail, after which the digester *)
(* starts the block again, and the node can stop between any two.  A node  *)
(* that starts deletes what is above the last digested block it remembers  *)
(* and digests up to the last saved block before it saves new ones.        *)
(*                                                                         *)
(* While the node is down, its operator may remove the last blocks (the    *)
(* command clean-by-height) or rebuild the node's blocks and the digest    *)
(* from the block files (restore).  What these commands do to the blocks   *)
(* themselves is external.                                                 *)
(*                                                                         *)
(* MongoDB, the block files and the hooks of the node are external.  The   *)
(* rows of a block in one collection are inserted or not as one; only the  *)
(* rows of documents, which are replaced and not only added, are modelled  *)
(* one by one.  The genesis block 0 is digested when the node first runs.  *)
(*                                                                         *)
(* The definitions under "Faults" are not the code's: each is a variant of *)
(* the definition that follows it with one plausible bug in it.            *)
(***************************************************************************)
EXTENDS Integers, Sequences, FiniteSets

CONSTANTS
  DocIds,        \* document ids
  Contents,      \* what a block may hold: changed documents, changed inventories
  ChanSize,      \* capacity of the channel of the digester
  LostReply,     \* whether the last write of a block may be done and report an error
  MaxHeight,     \* bound: height of the last block
  MaxBatches,    \* bound: batches being sent at the same time
  MaxCopies,     \* bound: copies of a row that are told apart
  MaxFailures,   \* bound: failed writes
  MaxCrashes,    \* bound: stops of the node
  MaxCommands    \* bound: clean and restore commands

ASSUME DigestAssumption ==
  /\ Contents \subseteq [docs: SUBSET DocIds, listed: BOOLEAN]
  /\ ChanSize \in Nat \ {0} /\ LostReply \in BOOLEAN
  /\ MaxHeight \in Nat /\ MaxBatches \in Nat
  /\ MaxCopies \in Nat \ {0} /\ MaxFailures \in Nat /\ MaxCrashes \in Nat
  /\ MaxCommands \in Nat

Heights == 0..MaxHeight

\* The height of no block, below all of them; the block before the genesis block, which
\* holds nothing that is digested, is left out.
NilHeight == -1
Never == MaxHeight + 1

VARIABLES
  \* the node and its blocks
  mode,        \* "up", "down", "following" (HookDigesterFollowUp), "cleaning", "restoring"
  saved,       \* height of the last saved block
  files,       \* height of the last block file: restoring starts over with the blocks
  block,       \* what each saved block holds
  sending,     \* batches <<from, to>> that goroutines have still to send
  queue,       \* Digester.blockChan
  follow,      \* next block of digestFollowup
  \* the BlockSession of the block being digested
  step,        \* the next write, or "idle"
  digesting,   \* height of the block
  todo,        \* documents whose old rows are still to be deleted
  \* the digest database
  rows,        \* copies of a block's rows in each collection they are added to
  docRows,     \* rows <<document, height>> of the documents
  info,        \* last digested block, as stored in the database
  lastBlock,   \* last digested block, as held in memory
  \* history: documents whose rows are deleted while nothing comes back to their
  \* block, and the height from which the stored last block says nothing
  lost, unsure,
  failures, crashes, commands

node == <<mode, saved, files, block, sending, queue, follow>>
session == <<step, digesting, todo>>
database == <<rows, docRows, info, lastBlock>>
history == <<lost, unsure>>
bounds == <<failures, crashes, commands>>
vars == <<node, session, database, history, bounds>>

\* The collections whose rows are only added; "documents" holds the inventories.
Collections == {"operation", "account", "balance", "documents"}
Steps == Collections \cup {"delete", "reset", "document", "last", "clean"}
NoContent == [docs |-> {}, listed |-> FALSE]

\* A block's rows are in the collections that it has rows for.
Indexed(h) ==
  /\ \A col \in {"operation", "account", "balance"} : rows[col][h] > 0
  /\ block[h].listed => rows["documents"][h] > 0

-----------------------------------------------------------------------------
Init ==
  /\ mode = "up"
  /\ saved = 0 /\ files = 0
  /\ block = [h \in Heights |-> NoContent]
  /\ sending = {} /\ queue = <<>> /\ follow = 0
  /\ step = "idle" /\ digesting = 0 /\ todo = {}
  /\ rows = [col \in Collections |->
               [h \in Heights |-> IF h = 0 /\ col # "documents" THEN 1 ELSE 0]]
  /\ docRows = {}
  /\ info = 0 /\ lastBlock = 0
  /\ lost = {} /\ unsure = Never
  /\ failures = 0 /\ crashes = 0 /\ commands = 0

\* The node saves a batch of blocks; whenBlockSaved starts a goroutine for it.  A
\* block that has a file is the one that is saved again.
Save ==
  /\ mode = "up"
  /\ Cardinality(sending) < MaxBatches
  /\ \E to \in saved + 1 .. MaxHeight :
       /\ \E content \in [saved + 1 .. to -> Contents] :
            /\ \A h \in saved + 1 .. to : h <= files => content[h] = block[h]
            /\ block' = [h \in Heights |-> IF h \in saved + 1 .. to THEN content[h] ELSE block[h]]
       /\ sending' = sending \cup {<<saved + 1, to>>}
       /\ saved' = to
       /\ files' = IF to > files THEN to ELSE files
  /\ UNCHANGED <<mode, queue, follow, session, database, history, bounds>>

\* Digester.Digest: the goroutine of a batch sends its next block.
Send(batch) ==
  /\ Len(queue) < ChanSize
  /\ queue' = Append(queue, batch[1])
  /\ sending' = (sending \ {batch}) \cup
                  (IF batch[1] < batch[2] THEN {<<batch[1] + 1, batch[2]>>} ELSE {})
  /\ UNCHANGED <<mode, saved, files, block, follow, session, database, history, bounds>>

-----------------------------------------------------------------------------
\* DigestBlock: a new BlockSession with its models prepared.
DigestBlock(h) ==
  /\ step' = "operation"
  /\ digesting' = h
  /\ todo' = block[h].docs

\* Faults: a block is remembered as digested when its digesting starts.
TakeRemembered ==
  /\ mode = "up" /\ step = "idle"
  /\ queue # <<>>
  /\ queue' = Tail(queue)
  /\ DigestBlock(Head(queue))
  /\ info' = Head(queue) /\ lastBlock' = Head(queue)
  /\ UNCHANGED <<mode, saved, files, block, sending, follow, rows, docRows, history, bounds>>

\* Digester.start takes the next block from the channel.
Take ==
  /\ mode = "up" /\ step = "idle"
  /\ queue # <<>>
  /\ queue' = Tail(queue)
  /\ DigestBlock(Head(queue))
  /\ UNCHANGED <<mode, saved, files, block, sending, follow, database, history, bounds>>

\* digestFollowup digests the next block.
FollowUp ==
  /\ mode = "following" /\ step = "idle"
  /\ follow <= saved
  /\ DigestBlock(follow)
  /\ UNCHANGED <<node, database, history, bounds>>

FollowedUp ==
  /\ mode = "following" /\ step = "idle"
  /\ follow > saved
  /\ mode' = "up"
  /\ UNCHANGED <<saved, files, block, sending, queue, follow, session, database, history, bounds>>

\* Commit: the step after the rows of the collection, and after those of the
\* documents; a block without rows for a step has not got it.
AfterDocuments == IF block[digesting].listed THEN "documents" ELSE "last"

NextStep(col) ==
  CASE col = "operation" -> "account"
    [] col = "account"   -> "balance"
    [] col = "balance"   -> IF block[digesting].docs # {} THEN "delete" ELSE AfterDocuments
    [] col = "documents" -> "last"

\* writeModels of the collections whose rows are added.
Insert(col) ==
  /\ step = col
  /\ rows' = [rows EXCEPT ![col][digesting] = IF @ < MaxCopies THEN @ + 1 ELSE @]
  /\ step' = NextStep(col)
  /\ UNCHANGED <<node, digesting, todo, docRows, info, lastBlock, history, bounds>>

\* Faults: only the row that the block itself left is replaced; newer rows are, too.
OwnRows(d) == {<<d, digesting>>}
AllRows(d) == {<<d, h>> : h \in Heights}

\* cleanByHeightColNameDocumentId deletes the rows of the document up to here ...
OldRows(d) == {<<d, h>> : h \in 0..digesting}

DeleteDocument(d) ==
  /\ step = "delete"
  /\ d \in todo
  /\ todo' = todo \ {d}
  /\ docRows' = docRows \ OldRows(d)
  /\ step' = "reset"
  /\ UNCHANGED <<node, digesting, rows, info, lastBlock, history, bounds>>

\* ... and then stores the previous block as the last digested one, in the
\* database and in the memory of the session, not in the one of the digester.
ResetLastBlock ==
  /\ step = "reset"
  /\ info' = digesting - 1
  /\ step' = IF todo = {} THEN "document" ELSE "delete"
  /\ UNCHANGED <<node, digesting, todo, rows, docRows, lastBlock, history, bounds>>

InsertDocuments ==
  /\ step = "document"
  /\ docRows' = docRows \cup {<<d, digesting>> : d \in block[digesting].docs}
  /\ lost' = lost \ block[digesting].docs
  /\ step' = AfterDocuments
  /\ UNCHANGED <<node, digesting, todo, rows, info, lastBlock, unsure, bounds>>

\* SetLastBlock, which ignores a height that is not higher; then the next block.
SetLastBlock ==
  /\ step = "last" /\ mode # "restoring"
  /\ lastBlock' = IF digesting > lastBlock THEN digesting ELSE lastBlock
  /\ info' = IF digesting > lastBlock THEN digesting ELSE info
  /\ step' = "idle"
  /\ follow' = IF mode = "following" THEN follow + 1 ELSE follow
  /\ UNCHANGED <<mode, saved, files, block, sending, queue, digesting, todo, rows, docRows,
                 history, bounds>>

-----------------------------------------------------------------------------
\* A node that stops between the deletion of a document's rows and the new row
\* comes back to the block, unless the stored last block is not below it.
Abandoned ==
  IF step = "idle" \/ info < digesting THEN {}
  ELSE {d \in block[digesting].docs : \A h \in Heights : <<d, h>> \notin docRows}

Stop ==
  /\ mode' = "down"
  /\ sending' = {} /\ queue' = <<>> /\ follow' = 0
  /\ step' = "idle" /\ digesting' = 0 /\ todo' = {}
  /\ lastBlock' = NilHeight
  /\ lost' = lost \cup Abandoned
  /\ UNCHANGED <<saved, files, block, unsure>>

\* What a write leaves behind that reports an error.  The error of a write that
\* was done counts as one of the next write, but for the last one.
PartialWrite ==
  \/ UNCHANGED <<docRows, info>>
  \/ /\ step = "document"
     /\ \E some \in SUBSET block[digesting].docs :
          docRows' = docRows \cup {<<d, digesting>> : d \in some}
     /\ UNCHANGED info
  \/ /\ LostReply /\ step = "last" /\ digesting > lastBlock
     /\ info' = digesting
     /\ UNCHANGED docRows

\* Faults: a block is given up when a write fails.
GiveUp ==
  /\ mode = "up" /\ step # "idle"
  /\ failures < MaxFailures
  /\ failures' = failures + 1
  /\ PartialWrite
  /\ step' = "idle"
  /\ UNCHANGED <<node, digesting, todo, rows, lastBlock, history, crashes, commands>>

\* The digester starts the block again when a write fails: Retry never gives up.
Retry ==
  /\ mode = "up" /\ step # "idle"
  /\ failures < MaxFailures
  /\ failures' = failures + 1
  /\ PartialWrite
  /\ DigestBlock(digesting)
  /\ UNCHANGED <<node, rows, lastBlock, history, crashes, commands>>

\* The node does not start when a write of digestFollowup fails, and a command
\* ends with an error.
FollowUpFails ==
  /\ mode \in {"following", "cleaning", "restoring"} /\ step # "idle"
  /\ ~(mode = "restoring" /\ step = "last")
  /\ failures < MaxFailures
  /\ failures' = failures + 1
  /\ PartialWrite
  /\ Stop
  /\ UNCHANGED <<rows, crashes, commands>>

\* The node stops or crashes between two writes.
Crash ==
  /\ mode # "down"
  /\ crashes < MaxCrashes
  /\ crashes' = crashes + 1
  /\ Stop
  /\ UNCHANGED <<rows, docRows, info, failures, commands>>

\* Deletes the rows of h and above.
removeByHeight(h) ==
  /\ rows' = [col \in Collections |->
                [k \in Heights |-> IF k >= h THEN 0 ELSE rows[col][k]]]
  /\ docRows' = {r \in docRows : r[2] < h}

\* Faults: nothing is digested yet, and the follow-up starts below the first block.
FollowFromLast(last) == last

\* HookDigesterFollowUp starts at the last digested block, or at the first one.
FollowFrom(last) == IF last = NilHeight THEN 0 ELSE last

\* Database.Initialize deletes the rows above the last digested block, and the
\* follow-up starts when there are newer saved ones.  The deletion is one step: a node
\* that stops in it deletes them when it starts again.
Start ==
  /\ mode = "down"
  /\ lastBlock' = info
  /\ removeByHeight(info + 1)
  /\ follow' = FollowFrom(info)
  /\ mode' = IF saved > info THEN "following" ELSE "up"
  /\ UNCHANGED <<saved, files, block, sending, queue, session, info, history, bounds>>

-----------------------------------------------------------------------------
\* The commands clean-by-height and restore, from height h: cleanByHeight, with its
\* height 0 for clean, deletes the rows of every collection, after Initialize ...
CleanByHeight(h, restore) ==
  /\ mode = "down"
  /\ commands < MaxCommands
  /\ h \in 0..saved /\ (restore \/ h > 0)
  /\ mode' = IF restore THEN "restoring" ELSE "cleaning"
  /\ step' = "clean" /\ digesting' = h
  /\ removeByHeight(IF h > info THEN info + 1 ELSE h)
  /\ lost' = lost \cup UNION {block[k].docs : k \in h..saved}
  /\ unsure' = IF h < unsure THEN h ELSE unsure
  /\ saved' = h - 1
  /\ files' = IF restore THEN files ELSE h - 1
  /\ block' = IF restore THEN block
               ELSE [k \in Heights |-> IF k < h THEN block[k] ELSE NoContent]
  /\ commands' = commands + 1
  /\ UNCHANGED <<sending, queue, follow, todo, info, lastBlock, failures, crashes>>

\* Faults: the last block is not set back.
CleanKeepsLastBlock ==
  /\ step = "clean"
  /\ lastBlock' = info
  /\ unsure' = IF digesting <= unsure THEN Never ELSE unsure
  /\ step' = "idle"
  /\ mode' = IF mode = "cleaning" THEN "down" ELSE mode
  /\ UNCHANGED <<saved, files, block, sending, queue, follow, digesting, todo, rows, docRows,
                 info, lost, bounds>>

\* ... and stores the block below h as the last digested one, even if it is not
\* digested yet.
CleanLastBlock ==
  /\ step = "clean"
  /\ info' = digesting - 1 /\ lastBlock' = digesting - 1
  /\ unsure' = IF info < digesting - 1 THEN (IF info < unsure THEN info + 1 ELSE unsure)
               ELSE IF digesting <= unsure THEN Never ELSE unsure
  /\ step' = "idle"
  /\ mode' = IF mode = "cleaning" THEN "down" ELSE mode
  /\ UNCHANGED <<saved, files, block, sending, queue, follow, digesting, todo, rows, docRows,
                 lost, bounds>>

\* WhenBlockSaved: a restored block is digested, and not stored as the last one.
RestoreBlock ==
  /\ mode = "restoring" /\ step = "idle"
  /\ saved < files
  /\ saved' = saved + 1
  /\ DigestBlock(saved + 1)
  /\ UNCHANGED <<mode, files, block, sending, queue, follow, database, history, bounds>>

RestoredBlock ==
  /\ mode = "restoring" /\ step = "last"
  /\ step' = "idle"
  /\ UNCHANGED <<node, digesting, todo, database, history, bounds>>

\* WhenFinished: the last restored block is stored, and the command ends.
Restored ==
  /\ mode = "restoring" /\ step = "idle"
  /\ saved = files
  /\ info' = IF files > lastBlock THEN files ELSE info
  /\ Stop
  /\ UNCHANGED <<rows, docRows, bounds>>

-----------------------------------------------------------------------------
Write ==
  \/ \E col \in Collections : Insert(col)
  \/ \E d \in DocIds : DeleteDocument(d)
  \/ ResetLastBlock
  \/ InsertDocuments
  \/ SetLastBlock

Next ==
  \/ Save
  \/ \E batch \in sending : Send(batch)
  \/ Take
  \/ FollowUp
  \/ FollowedUp
  \/ Write
  \/ Retry
  \/ FollowUpFails
  \/ Crash
  \/ Start
  \/ \E h \in Heights, restore \in BOOLEAN : CleanByHeight(h, restore)
  \/ CleanLastBlock
  \/ RestoreBlock \/ RestoredBlock \/ Restored

\* The goroutines and the digester go on while the node is up.
Fairness ==
  /\ WF_vars(\E batch \in sending : Send(batch))
  /\ WF_vars(Take)
  /\ WF_vars(FollowUp \/ FollowedUp)
  /\ WF_vars(Write)

Spec == Init /\ [][Next]_vars /\ Fairness

-----------------------------------------------------------------------------
(***************************************************************************)
(* Properties.                                                             *)
(***************************************************************************)

\* Every variable stays in its type.
TypeOK ==
  /\ mode \in {"up", "down", "following", "cleaning", "restoring"}
  /\ saved \in Heights \cup {NilHeight} /\ files \in Heights /\ saved <= files
  /\ block \in [Heights -> Contents \cup {NoContent}]
  /\ sending \subseteq Heights \X Heights
  /\ queue \in Seq(Heights)
  /\ follow \in 0 .. MaxHeight + 1
  /\ step \in Steps \cup {"idle"}
  /\ digesting \in Heights /\ todo \subseteq DocIds
  /\ rows \in [Collections -> [Heights -> 0..MaxCopies]]
  /\ docRows \subseteq DocIds \X Heights
  /\ info \in Heights \cup {NilHeight} /\ lastBlock \in Heights \cup {NilHeight}
  /\ lost \subseteq DocIds /\ unsure \in 0..Never

\* Whatever fails, wherever the node or a restore stops, the stored last digested
\* block is never ahead of the rows: no block up to it is left out, for a restart does
\* not come back to it.  Only a clean that was stopped before it stored the last
\* block, and one from above the digested blocks, leave it ahead.
NoGap == \A h \in 0..info : h < unsure => Indexed(h)

\* A node that is up and not digesting shows each document as the last digested
\* block that changed it left it, in one row: the deletion of the old rows, the
\* stored last block, the restart and the restore do not lose or bring back a version.
\* A document is lost when the block of its only row is removed, the older rows having
\* been deleted when it was inserted, and when a node stops while it digests a block
\* again that is stored as digested; the next block that holds the document brings it
\* back.
ChangedIn(d) == {h \in 0..lastBlock : d \in block[h].docs}
Newest(S) == {h \in S : \A k \in S : k <= h}
DocumentsCurrent ==
  mode = "up" /\ step = "idle" /\ unsure = Never =>
    \A d \in DocIds \ lost : {h \in Heights : <<d, h>> \in docRows} = Newest(ChangedIn(d))

\* In whatever order the batches arrive, a digested block's documents can be read,
\* as that block or a later one left them: an older block that is digested late
\* does not remove the newer version.
DigestedReadable ==
  mode = "up" /\ step = "idle" =>
    \A h \in 0..saved : Indexed(h) =>
      \A d \in block[h].docs : \E k \in h..saved : <<d, k>> \in docRows

\* Every saved block is digested while the node stays up: failed writes are
\* repeated, and a full channel only makes the goroutines wait.
SavedBlocksDigested ==
  \A h \in Heights :
    (mode = "up" /\ h <= saved) ~> (mode # "up" \/ (Indexed(h) /\ step = "idle"))

\* The log of HookDigesterFollowUp, "digested blocks is up-to-dated", when no saved
\* block is higher than the last digested one: every block is there.
UpToDate == mode = "up" /\ step = "idle" /\ queue = <<>> /\ sending = {} /\ saved <= lastBlock
BlocksUpToDate == UpToDate => \A h \in 0..saved : Indexed(h)

(***************************************************************************)
(* The inductive invariants behind the safety properties (DigestProofs).   *)
(***************************************************************************)
\* A block is being digested; the step "clean" of a command is none of a block.
Active == step # "idle" /\ step # "clean"

\* The saved blocks that goroutines or the channel hold for the digester, and all
\* saved blocks that the digester, digestFollowup or restore has still to digest.
Waiting == {queue[i] : i \in DOMAIN queue}
             \cup {h \in Heights : \E b \in sending : b[1] <= h /\ h <= b[2]}
ToCome ==
  CASE mode = "up"        -> IF Active THEN Waiting \cup {digesting} ELSE Waiting
    [] mode = "following" -> follow..saved
    [] OTHER              -> IF Active THEN {digesting} ELSE {}
Done == IF mode \in {"up", "following", "restoring"} /\ step # "clean" THEN 0..saved \ ToCome ELSE {}

\* What TypeOK needs to be kept.
BlockAtHand ==
  /\ Active => mode \in {"up", "following", "restoring"} /\ digesting <= saved
  /\ mode = "following" => step # "clean" /\ (Active => digesting = follow)
  /\ \A i \in DOMAIN queue : queue[i] <= saved
  /\ \A b \in sending : b[1] <= b[2] /\ b[2] <= saved
  /\ mode # "up" => queue = <<>> /\ sending = {}
  /\ step = "clean" => mode \in {"cleaning", "restoring"} /\ saved = digesting - 1
  /\ mode = "restoring" /\ Active => digesting = saved

TInv == TypeOK /\ BlockAtHand

\* The rows that the block being digested has got so far.
WrittenSoFar ==
  Active =>
    /\ step # "operation" => rows["operation"][digesting] > 0
    /\ step \notin {"operation", "account"} => rows["account"][digesting] > 0
    /\ step \notin {"operation", "account", "balance"} => rows["balance"][digesting] > 0
    /\ step = "last" /\ block[digesting].listed => rows["documents"][digesting] > 0
    /\ todo \subseteq block[digesting].docs
    /\ step \in {"document", "documents", "last"} => todo = {}
    /\ \A r \in docRows : r[1] \in block[digesting].docs \ todo => r[2] >= digesting
    /\ step \in {"documents", "last"} =>
         \A d \in block[digesting].docs : <<d, digesting>> \in docRows

\* A document of a block whose rows are there has a row of that block or of a later one,
\* unless a later block that holds it is being digested.
StillReadable ==
  \A h \in 0..saved : Indexed(h) /\ ~(Active /\ h = digesting) =>
    \A d \in block[h].docs :
      \/ Active /\ h < digesting /\ d \in block[digesting].docs
      \/ \E k \in h..saved : <<d, k>> \in docRows

RInv ==
  /\ TInv /\ WrittenSoFar
  /\ \A h \in Heights : rows["operation"][h] > 0 => h <= saved
  /\ StillReadable

\* While the node is up, a saved block is digested or the digester comes to it.
NoneLeftOut == mode = "up" => \A h \in 0..saved : h \in ToCome \/ Indexed(h)

\* With one batch at a time the blocks arrive in their order, and what is still to
\* come is what lies above some height.
InTurn ==
  /\ \A b, c \in sending : b = c
  /\ \A i, j \in DOMAIN queue : i < j => queue[i] < queue[j]
  /\ \A i \in DOMAIN queue, b \in sending : queue[i] < b[1]
  /\ Active => \A h \in Waiting : digesting < h
  /\ \A h \in ToCome, k \in Heights : h <= k /\ k <= saved => k \in ToCome
  \* the stored last block is not above them, nor above the saved ones
  /\ \A h \in ToCome : info <= h \/ unsure <= h
  /\ info <= saved \/ unsure <= saved + 1

\* The rows of a block that is digested are there, and no older row of its documents.
Settled(h) ==
  /\ Indexed(h)
  /\ \A r \in docRows : r[1] \in block[h].docs => r[2] >= h
AllSettled == \A h \in Heights : h < unsure /\ (h <= info \/ h \in Done) => Settled(h)

GInv == TInv /\ InTurn /\ WrittenSoFar /\ AllSettled

\* A row of a document is of a saved block that holds it, and that is not waiting.
RowsOfBlocks ==
  \A r \in docRows : r[2] <= saved /\ r[1] \in block[r[2]].docs /\ r[2] \notin Waiting

\* Documents that blocks from some height on hold.
HeldFrom(n) == {d \in DocIds : \E h \in Heights : n <= h /\ h <= saved /\ d \in block[h].docs}

\* Documents that a digested block holds have a row: those that nothing to come
\* replaces ...
Replacing ==
  IF mode = "following" THEN HeldFrom(follow) ELSE IF Active THEN block[digesting].docs ELSE {}
KeptDone ==
  \A d \in DocIds \ (lost \cup HeldFrom(unsure) \cup Replacing) :
    \A h \in Done : d \in block[h].docs => \E r \in docRows : r[1] = d

\* ... and, if the node stopped now, those that the digester does not come back to.
KeptStored ==
  \A d \in DocIds \ (lost \cup HeldFrom(unsure) \cup HeldFrom(info + 1)) :
    \A h \in Heights : h <= saved /\ h <= info /\ d \in block[h].docs =>
      (Active /\ d \in Abandoned) \/ \E r \in docRows : r[1] = d /\ r[2] <= info

\* The memory of the digester and the blocks to come agree, while the stored last
\* block can be relied on.
InMemory ==
  unsure = Never =>
    /\ mode = "up" => /\ lastBlock <= saved
                      /\ \A h \in 0..saved : h > lastBlock <=> h \in ToCome
    /\ mode = "following" => lastBlock <= saved /\ follow <= lastBlock + 1

DInv == GInv /\ RowsOfBlocks /\ KeptDone /\ KeptStored /\ InMemory
=============================================================================
