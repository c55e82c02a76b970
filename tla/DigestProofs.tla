---------------------------- MODULE DigestProofs ----------------------------
(***************************************************************************)
(* Proofs about Digest: type correctness, and, with one batch of blocks at *)
(* a time, that the stored last digested block is never ahead of the rows  *)
(* and that a node that is up shows every document in its newest version,  *)
(* wherever it was stopped before, whichever writes failed and whatever    *)
(* was cleaned or restored; and, while the node does not stop, that the    *)
(* documents of digested blocks can be read in whatever order the batches  *)
(* arrive.  A saved block is left out only by a stop with two batches at a *)
(* time: under either hypothesis BlocksUpToDate holds.                     *)
(***************************************************************************)
EXTENDS Digest, FiniteSetTheorems, TLAPS

-----------------------------------------------------------------------------
(* Facts about the helpers. *)

\* What a block holds.
LEMMA ContentTypes ==
  ASSUME block \in [Heights -> Contents \cup {NoContent}], NEW h \in Heights
  PROVE  block[h].docs \subseteq DocIds /\ block[h].listed \in BOOLEAN
<1>1. NoContent \in [docs: SUBSET DocIds, listed: BOOLEAN]
  BY DEF NoContent
<1>2. block[h] \in [docs: SUBSET DocIds, listed: BOOLEAN]
  <2>1. block[h] \in Contents \cup {NoContent}
    OBVIOUS
  <2> QED
    BY <1>1, <2>1, DigestAssumption
<1> QED
  BY <1>2

LEMMA ContentTypesNext ==
  ASSUME block' \in [Heights -> Contents \cup {NoContent}], NEW h \in Heights
  PROVE  block'[h].docs \subseteq DocIds /\ block'[h].listed \in BOOLEAN
<1>1. NoContent \in [docs: SUBSET DocIds, listed: BOOLEAN]
  BY DEF NoContent
<1>2. block'[h] \in [docs: SUBSET DocIds, listed: BOOLEAN]
  <2>1. block'[h] \in Contents \cup {NoContent}
    OBVIOUS
  <2> QED
    BY <1>1, <2>1, DigestAssumption
<1> QED
  BY <1>2

\* The step after a collection is another one.
LEMMA NextSteps ==
  ASSUME NEW col \in Collections
  PROVE  /\ NextStep(col) \in Steps \ {"operation", "clean", "reset", "document"}
         /\ NextStep(col) # "idle"
         /\ NextStep(col) = "account" => col = "operation"
         /\ NextStep(col) = "balance" => col = "account"
         /\ NextStep(col) = "delete" => col = "balance"
         /\ NextStep(col) = "documents" => col = "balance" /\ block[digesting].docs = {}
         /\ NextStep(col) = "last" =>
              \/ col = "documents"
              \/ col = "balance" /\ block[digesting].docs = {} /\ ~block[digesting].listed
BY DEF Collections, NextStep, AfterDocuments, Steps

\* Deleted rows: those of h and above, and no others.
LEMMA RemovedRows ==
  ASSUME TypeOK, NEW h \in Int, removeByHeight(h)
  PROVE  /\ rows' \in [Collections -> [Heights -> 0..MaxCopies]]
         /\ docRows' \subseteq docRows
         /\ \A r \in docRows : r \in docRows' <=> r[2] < h
         /\ \A col \in Collections, k \in Heights : k < h => rows'[col][k] = rows[col][k]
<1>1. /\ rows' = [col \in Collections |-> [k \in Heights |-> IF k >= h THEN 0 ELSE rows[col][k]]]
      /\ docRows' = {r \in docRows : r[2] < h}
      /\ rows \in [Collections -> [Heights -> 0..MaxCopies]]
      /\ docRows \subseteq DocIds \X Heights
      /\ 0 \in 0..MaxCopies
  BY DigestAssumption DEF TypeOK, removeByHeight
<1>2. \A col \in Collections, k \in Heights : rows'[col][k] = IF k >= h THEN 0 ELSE rows[col][k]
  BY <1>1
<1>3. \A col \in Collections : rows'[col] \in [Heights -> 0..MaxCopies]
  BY <1>1
<1>4. rows' \in [Collections -> [Heights -> 0..MaxCopies]]
  BY <1>1, <1>3
<1> QED
  BY <1>1, <1>2, <1>4 DEF Heights

\* What a failing write leaves.
LEMMA PartialWrites ==
  ASSUME TInv, Active, PartialWrite
  PROVE  /\ docRows' \subseteq DocIds \X Heights
         /\ info' \in Heights \cup {NilHeight}
         /\ docRows \subseteq docRows'
         /\ docRows' # docRows => step = "document" /\ info' = info
         /\ \A r \in docRows' \ docRows : r[2] = digesting /\ r[1] \in block[digesting].docs
         /\ info' # info => step = "last" /\ docRows' = docRows /\ info' = digesting
BY ContentTypes DEF PartialWrite, TInv, TypeOK

-----------------------------------------------------------------------------
(* Type correctness. *)

LEMMA TInit == Init => TInv
<1> SUFFICES ASSUME Init PROVE TInv
  OBVIOUS
<1>1. 0 \in Heights /\ MaxHeight \in Nat /\ MaxCopies \in Nat \ {0}
  BY DigestAssumption DEF Heights
<1>2. TypeOK
  BY <1>1 DEF Init, TypeOK, Steps, Never, NilHeight
<1>3. BlockAtHand
  BY <1>1 DEF Init, BlockAtHand, Active
<1> QED
  BY <1>2, <1>3 DEF TInv

LEMMA TNext == TInv /\ [Next]_vars => TInv'
<1> SUFFICES ASSUME TInv, [Next]_vars PROVE TInv'
  OBVIOUS
<1>0. /\ TypeOK /\ BlockAtHand
      /\ MaxHeight \in Nat /\ MaxCopies \in Nat \ {0} /\ MaxCrashes \in Nat
  BY DigestAssumption DEF TInv
<1>1. CASE Save
  <2>1. PICK to \in saved + 1 .. MaxHeight :
          \E content \in [saved + 1 .. to -> Contents] :
            /\ block' = [h \in Heights |-> IF h \in saved + 1 .. to THEN content[h] ELSE block[h]]
            /\ sending' = sending \cup {<<saved + 1, to>>}
            /\ saved' = to /\ files' = IF to > files THEN to ELSE files
    BY <1>1 DEF Save
  <2>2. block' \in [Heights -> Contents \cup {NoContent}]
    BY <1>0, <2>1 DEF TypeOK
  <2>3. saved \in Int /\ files \in Int /\ saved + 1 \in Heights /\ to \in Heights
        /\ <<saved + 1, to>> \in Heights \X Heights
    BY <1>0, <2>1 DEF TypeOK, Heights, NilHeight
  <2>4. TypeOK'
    BY <1>0, <1>1, <2>1, <2>2, <2>3 DEF Save, TypeOK, session, database, history, bounds, Heights
  <2>5. BlockAtHand'
    BY <1>0, <1>1, <2>1, <2>3
    DEF Save, TypeOK, BlockAtHand, Active, session, database, history, bounds, Heights, NilHeight
  <2> QED
    BY <2>4, <2>5 DEF TInv
<1>2. ASSUME NEW batch \in sending, Send(batch)
      PROVE  TInv'
  <2>1. /\ batch \in Heights \X Heights /\ batch[1] \in Heights /\ batch[2] \in Heights
        /\ batch[1] <= batch[2] /\ batch[2] <= saved /\ saved \in Int
    BY <1>0 DEF TypeOK, BlockAtHand, Heights, NilHeight
  <2>2. queue' \in Seq(Heights) /\ Len(queue') = Len(queue) + 1 /\ queue'[Len(queue) + 1] = batch[1]
        /\ \A i \in DOMAIN queue : queue'[i] = queue[i]
    BY <1>0, <1>2, <2>1 DEF Send, TypeOK
  <2>3. batch[1] < batch[2] => <<batch[1] + 1, batch[2]>> \in Heights \X Heights
    BY <1>0, <2>1 DEF Heights
  <2>4. TypeOK'
    BY <1>0, <1>2, <2>2, <2>3 DEF Send, TypeOK, session, database, history, bounds
  <2>5. DOMAIN queue' = 1..Len(queue) + 1 /\ DOMAIN queue = 1..Len(queue) /\ Len(queue) \in Nat
    BY <1>0, <2>2 DEF TypeOK
  <2>6. \A i \in DOMAIN queue' : queue'[i] <= saved'
    BY <1>0, <1>2, <2>1, <2>2, <2>5 DEF Send, BlockAtHand, Heights
  <2>7. \A b \in sending' : b[1] <= b[2] /\ b[2] <= saved'
    BY <1>0, <1>2, <2>1 DEF Send, BlockAtHand, Heights
  <2>8. BlockAtHand'
    BY <1>0, <1>2, <2>6, <2>7 DEF Send, BlockAtHand, Active, session, database, history, bounds
  <2> QED
    BY <2>4, <2>8 DEF TInv
<1>3. CASE Take
  <2>1. /\ Head(queue) \in Heights /\ Head(queue) <= saved /\ queue' \in Seq(Heights)
        /\ \A i \in DOMAIN queue' : queue'[i] <= saved
    <3>1. queue \in Seq(Heights) /\ queue # <<>> /\ queue' = Tail(queue)
      BY <1>0, <1>3 DEF Take, TypeOK
    <3>2. /\ Head(queue) = queue[1] /\ 1 \in DOMAIN queue /\ queue' \in Seq(Heights)
          /\ \A i \in DOMAIN queue' : i + 1 \in DOMAIN queue /\ queue'[i] = queue[i + 1]
      BY <3>1
    <3> QED
      BY <1>0, <3>2 DEF BlockAtHand, TypeOK
  <2>2. block[Head(queue)].docs \subseteq DocIds
    BY <1>0, <2>1, ContentTypes DEF TypeOK
  <2>3. TypeOK'
    BY <1>0, <1>3, <2>1, <2>2 DEF Take, DigestBlock, TypeOK, Steps, Collections, database, history, bounds
  <2>4. BlockAtHand'
    BY <1>0, <1>3, <2>1 DEF Take, DigestBlock, BlockAtHand, Active, database, history, bounds
  <2> QED
    BY <2>3, <2>4 DEF TInv
<1>4. CASE FollowUp
  <2>1. follow \in Heights
    BY <1>0, <1>4 DEF FollowUp, TypeOK, Heights, NilHeight
  <2>2. block[follow].docs \subseteq DocIds
    BY <1>0, <2>1, ContentTypes DEF TypeOK
  <2>3. TypeOK'
    BY <1>0, <1>4, <2>1, <2>2
    DEF FollowUp, DigestBlock, TypeOK, Steps, Collections, node, database, history, bounds
  <2>4. BlockAtHand'
    BY <1>0, <1>4 DEF FollowUp, DigestBlock, BlockAtHand, Active, node, database, history, bounds
  <2> QED
    BY <2>3, <2>4 DEF TInv
<1>5. CASE FollowedUp
  BY <1>0, <1>5 DEF FollowedUp, TInv, TypeOK, BlockAtHand, Active, session, database, history, bounds
<1>6. CASE Write
  <2>1. ASSUME NEW col \in Collections, Insert(col)
        PROVE  TInv'
    <3>1. rows' \in [Collections -> [Heights -> 0..MaxCopies]]
      <4>1. /\ rows[col] \in [Heights -> 0..MaxCopies] /\ digesting \in Heights
            /\ rows[col][digesting] \in 0..MaxCopies
        BY <1>0 DEF TypeOK
      <4>2. (IF rows[col][digesting] < MaxCopies THEN rows[col][digesting] + 1
             ELSE rows[col][digesting]) \in 0..MaxCopies
        BY <1>0, <4>1
      <4> QED
        BY <1>0, <2>1, <4>1, <4>2 DEF Insert, TypeOK
    <3>2. step' \in Steps /\ step' # "clean" /\ step' # "idle" /\ Active
      BY <2>1, NextSteps DEF Insert, Active, Collections
    <3>3. TypeOK'
      BY <1>0, <2>1, <3>1, <3>2 DEF Insert, TypeOK, node, history, bounds
    <3>4. BlockAtHand'
      BY <1>0, <2>1, <3>2 DEF Insert, BlockAtHand, Active, node, history, bounds
    <3> QED
      BY <3>3, <3>4 DEF TInv
  <2>2. ASSUME NEW d \in DocIds, DeleteDocument(d)
        PROVE  TInv'
    BY <1>0, <2>2
    DEF DeleteDocument, TInv, TypeOK, BlockAtHand, Active, Steps, node, history, bounds
  <2>3. CASE ResetLastBlock
    <3>1. digesting - 1 \in Heights \cup {NilHeight}
      BY <1>0 DEF TypeOK, Heights, NilHeight
    <3>2. TypeOK'
      BY <1>0, <2>3, <3>1 DEF ResetLastBlock, TypeOK, Steps, node, history, bounds
    <3>3. BlockAtHand'
      BY <1>0, <2>3 DEF ResetLastBlock, BlockAtHand, Active, node, history, bounds
    <3> QED
      BY <3>2, <3>3 DEF TInv
  <2>4. CASE InsertDocuments
    <3>1. block[digesting].docs \subseteq DocIds /\ digesting \in Heights
      BY <1>0, ContentTypes DEF TypeOK
    <3>2. docRows' \subseteq DocIds \X Heights
      BY <1>0, <2>4, <3>1 DEF InsertDocuments, TypeOK
    <3>3. step' \in Steps \cup {"idle"} /\ lost' \subseteq DocIds
      BY <1>0, <2>4 DEF InsertDocuments, AfterDocuments, Steps, Collections, TypeOK
    <3>4. TypeOK'
      BY <1>0, <2>4, <3>2, <3>3 DEF InsertDocuments, TypeOK, node, bounds
    <3>5. BlockAtHand'
      BY <1>0, <2>4 DEF InsertDocuments, AfterDocuments, BlockAtHand, Active, node, bounds
    <3> QED
      BY <3>4, <3>5 DEF TInv
  <2>5. CASE SetLastBlock
    <3>1. mode = "following" => follow \in Heights /\ follow + 1 \in 0..MaxHeight + 1
      BY <1>0, <2>5 DEF SetLastBlock, BlockAtHand, Active, TypeOK, Heights, NilHeight
    <3>2. TypeOK'
      BY <1>0, <2>5, <3>1 DEF SetLastBlock, TypeOK, history, bounds
    <3>3. BlockAtHand'
      BY <1>0, <2>5 DEF SetLastBlock, BlockAtHand, Active, history, bounds
    <3> QED
      BY <3>2, <3>3 DEF TInv
  <2> QED
    BY <1>6, <2>1, <2>2, <2>3, <2>4, <2>5 DEF Write
<1>7. CASE Retry
  <2>1. Active
    BY <1>0, <1>7 DEF Retry, Active, BlockAtHand
  <2>2. block[digesting].docs \subseteq DocIds
    BY <1>0, ContentTypes DEF TypeOK
  <2>3. docRows' \subseteq DocIds \X Heights /\ info' \in Heights \cup {NilHeight}
    BY <1>7, <2>1, PartialWrites DEF Retry
  <2>4. TypeOK'
    BY <1>0, <1>7, <2>2, <2>3 DEF Retry, DigestBlock, TypeOK, Steps, Collections, node, history
  <2>5. BlockAtHand'
    BY <1>0, <1>7, <2>1 DEF Retry, DigestBlock, BlockAtHand, Active, node, history
  <2> QED
    BY <2>4, <2>5 DEF TInv
<1>8. ASSUME Stop,
             docRows' \subseteq DocIds \X Heights, info' \in Heights \cup {NilHeight},
             UNCHANGED rows
      PROVE  TInv'
  <2>1. Abandoned \subseteq DocIds
    BY <1>0, ContentTypes DEF Abandoned, TypeOK
  <2>2. 0 \in Heights /\ 0 \in 0..MaxHeight + 1
    BY <1>0 DEF Heights
  <2>3. TypeOK'
    BY <1>0, <1>8, <2>1, <2>2 DEF Stop, TypeOK
  <2>4. BlockAtHand'
    BY <1>0, <1>8 DEF Stop, BlockAtHand, Active
  <2> QED
    BY <2>3, <2>4 DEF TInv
<1>9. CASE FollowUpFails
  <2>1. docRows' \subseteq DocIds \X Heights /\ info' \in Heights \cup {NilHeight}
    <3>1. CASE Active
      BY <1>9, <3>1, PartialWrites DEF FollowUpFails
    <3>2. CASE ~Active
      BY <1>0, <1>9, <3>2 DEF FollowUpFails, Active, PartialWrite, TypeOK
    <3> QED
      BY <3>1, <3>2
  <2> QED
    BY <1>8, <1>9, <2>1 DEF FollowUpFails
<1>10. CASE Crash
  BY <1>0, <1>8, <1>10 DEF Crash, TypeOK
<1>11. CASE Start
  <2>1. info \in Int /\ FollowFrom(info) \in 0..MaxHeight + 1 /\ saved \in Int
    BY <1>0 DEF TypeOK, FollowFrom, Heights, NilHeight
  <2>2. rows' \in [Collections -> [Heights -> 0..MaxCopies]] /\ docRows' \subseteq docRows
    BY <1>0, <1>11, <2>1, RemovedRows DEF Start
  <2>3. TypeOK'
    BY <1>0, <1>11, <2>1, <2>2 DEF Start, TypeOK, session, history, bounds
  <2>4. BlockAtHand'
    BY <1>0, <1>11 DEF Start, BlockAtHand, Active, session, history, bounds
  <2> QED
    BY <2>3, <2>4 DEF TInv
<1>12. ASSUME NEW h \in Heights, NEW restore \in BOOLEAN, CleanByHeight(h, restore)
       PROVE  TInv'
  <2>1. info \in Int /\ h \in Int
    BY <1>0 DEF TypeOK, Heights, NilHeight
  <2>2. rows' \in [Collections -> [Heights -> 0..MaxCopies]] /\ docRows' \subseteq docRows
    <3>1. (IF h > info THEN info + 1 ELSE h) \in Int
      BY <2>1
    <3> QED
      BY <1>0, <1>12, <3>1, RemovedRows DEF CleanByHeight
  <2>3. UNION {block[k].docs : k \in h..saved} \subseteq DocIds
    <3>1. \A k \in h..saved : k \in Heights
      BY <1>0 DEF TypeOK, Heights, NilHeight
    <3> QED
      BY <1>0, <3>1, ContentTypes DEF TypeOK
  <2>4. saved' \in Heights \cup {NilHeight} /\ files' \in Heights /\ saved' <= files'
    BY <1>0, <1>12 DEF CleanByHeight, TypeOK, Heights, NilHeight
  <2>5. block' \in [Heights -> Contents \cup {NoContent}]
    BY <1>0, <1>12 DEF CleanByHeight, TypeOK
  <2>6. unsure' \in 0..Never
    BY <1>0, <1>12 DEF CleanByHeight, TypeOK, Heights, Never
  <2>7. TypeOK'
    BY <1>0, <1>12, <2>2, <2>3, <2>4, <2>5, <2>6 DEF CleanByHeight, TypeOK, Steps
  <2>8. BlockAtHand'
    BY <1>0, <1>12 DEF CleanByHeight, BlockAtHand, Active
  <2> QED
    BY <2>7, <2>8 DEF TInv
<1>13. CASE CleanLastBlock
  <2>1. digesting - 1 \in Heights \cup {NilHeight} /\ info \in Int
    BY <1>0 DEF TypeOK, Heights, NilHeight
  <2>2. unsure' \in 0..Never
    BY <1>0, <1>13 DEF CleanLastBlock, TypeOK, Heights, NilHeight, Never
  <2>3. TypeOK'
    BY <1>0, <1>13, <2>1, <2>2 DEF CleanLastBlock, TypeOK, bounds
  <2>4. BlockAtHand'
    BY <1>0, <1>13 DEF CleanLastBlock, BlockAtHand, Active, bounds
  <2> QED
    BY <2>3, <2>4 DEF TInv
<1>14. CASE RestoreBlock
  <2>1. saved + 1 \in Heights /\ saved \in Int /\ saved + 1 <= files
    BY <1>0, <1>14 DEF RestoreBlock, TypeOK, Heights, NilHeight
  <2>2. block[saved + 1].docs \subseteq DocIds
    BY <1>0, <2>1, ContentTypes DEF TypeOK
  <2>3. TypeOK'
    BY <1>0, <1>14, <2>1, <2>2 
    DEF RestoreBlock, DigestBlock, TypeOK, Steps, Collections, database, history, bounds
  <2>4. BlockAtHand'
    BY <1>0, <1>14, <2>1 DEF RestoreBlock, DigestBlock, BlockAtHand, Active, database, history, bounds
  <2> QED
    BY <2>3, <2>4 DEF TInv
<1>15. CASE RestoredBlock
  BY <1>0, <1>15
  DEF RestoredBlock, TInv, TypeOK, BlockAtHand, Active, node, database, history, bounds
<1>16. CASE Restored
  <2>1. info' \in Heights \cup {NilHeight}
    BY <1>0, <1>16 DEF Restored, TypeOK
  <2> QED
    BY <1>0, <1>8, <1>16, <2>1 DEF Restored, TypeOK
<1>17. CASE UNCHANGED vars
  BY <1>0, <1>17
  DEF vars, node, session, database, history, bounds, TInv, TypeOK, BlockAtHand, Active
<1> QED
  BY <1>1, <1>2, <1>3, <1>4, <1>5, <1>6, <1>7, <1>9, <1>10, <1>11, <1>12, <1>13, <1>14, <1>15,
     <1>16, <1>17 DEF Next

\* Every variable stays in its type: neither the follow-up nor a clean goes past the
\* highest or below the lowest block.
THEOREM TypeCorrect == Spec => []TypeOK
<1>1. TInv => TypeOK
  BY DEF TInv
<1> QED
  BY <1>1, TInit, TNext, PTL DEF Spec

-----------------------------------------------------------------------------
(* The blocks to come, and what the steps do to them. *)

\* A block that waits is a saved one.
LEMMA WaitingSaved ==
  ASSUME TInv, NEW h \in Waiting
  PROVE  h \in Heights /\ h <= saved
<1>1. /\ saved \in Int
      /\ \A b \in sending : b[2] <= saved /\ b[2] \in Int /\ b[1] \in Int
  BY DEF TInv, TypeOK, BlockAtHand, Heights, NilHeight
<1>2. CASE \E i \in DOMAIN queue : h = queue[i]
  BY <1>2 DEF TInv, TypeOK, BlockAtHand
<1>3. CASE h \in Heights /\ \E b \in sending : b[1] <= h /\ h <= b[2]
  BY <1>1, <1>3 DEF Heights
<1> QED
  BY <1>2, <1>3 DEF Waiting

\* A digested block is below those to come.
LEMMA BelowToCome ==
  ASSUME TInv, InTurn, NEW t \in ToCome
  PROVE  /\ t \in Heights
         /\ \A h \in Done : h < t
         /\ \A h \in Heights : h < unsure /\ h <= info => h <= t
<1>1. /\ saved \in Int /\ info \in Int /\ unsure \in Int /\ follow \in Nat /\ digesting \in Heights
      /\ saved <= MaxHeight
  BY DigestAssumption DEF TInv, TypeOK, Heights, NilHeight, Never
<1>2. t \in Heights
  <2>1. CASE t \in Waiting
    BY <2>1, WaitingSaved
  <2>2. CASE t = digesting
    BY <1>1, <2>2
  <2>3. CASE t \in follow..saved
    BY <1>1, <2>3, DigestAssumption DEF Heights
  <2> QED
    BY <2>1, <2>2, <2>3 DEF ToCome
<1>3. \A h \in Done : h \in Heights /\ h <= saved /\ h \notin ToCome
  BY <1>1, DigestAssumption DEF Done, Heights
<1> QED
  BY <1>1, <1>2, <1>3 DEF InTurn, Heights

\* The block that is digested is one of those to come.
LEMMA DigestingToCome ==
  ASSUME TInv, Active
  PROVE  digesting \in ToCome /\ digesting \in Heights
BY DEF TInv, TypeOK, BlockAtHand, ToCome, Heights, NilHeight

\* A node with no batch and no queue waits for no block.
LEMMA NoneWaiting ==
  ASSUME queue = <<>>, sending = {}
  PROVE  Waiting = {}
BY DEF Waiting

\* Saved blocks are waiting at first.
LEMMA SaveTurn ==
  ASSUME TInv, Save
  PROVE  /\ saved' \in Heights /\ saved < saved'
         /\ Waiting' = Waiting \cup (saved + 1 .. saved')
         /\ ToCome' = ToCome \cup (saved + 1 .. saved')
         /\ Done' = Done
         /\ \A h \in Heights : h <= saved \/ h > saved' => block'[h] = block[h]
<1>1. PICK to \in saved + 1 .. MaxHeight :
        \E content \in [saved + 1 .. to -> Contents] :
          /\ block' = [h \in Heights |-> IF h \in saved + 1 .. to THEN content[h] ELSE block[h]]
          /\ sending' = sending \cup {<<saved + 1, to>>} /\ saved' = to
  BY DEF Save
<1>2. /\ saved \in Int /\ -1 <= saved /\ MaxHeight \in Nat /\ to \in Heights /\ saved < to
      /\ saved + 1 .. to \subseteq Heights
  BY <1>1, DigestAssumption DEF TInv, TypeOK, Heights, NilHeight
<1>3. mode = "up" /\ mode' = "up" /\ Active' = Active /\ digesting' = digesting /\ queue' = queue
      /\ step' = step /\ step # "clean"
  BY DEF Save, session, Active, TInv, BlockAtHand
<1>4. {h \in Heights : \E b \in sending' : b[1] <= h /\ h <= b[2]}
        = {h \in Heights : \E b \in sending : b[1] <= h /\ h <= b[2]} \cup (saved + 1 .. to)
  <2>1. \A h \in Heights : h \in saved + 1 .. to <=> saved + 1 <= h /\ h <= to
    BY <1>2 DEF Heights
  <2>2. \A h \in Heights :
          (\E b \in sending' : b[1] <= h /\ h <= b[2])
            <=> (\E b \in sending : b[1] <= h /\ h <= b[2]) \/ (saved + 1 <= h /\ h <= to)
    <3>1. <<saved + 1, to>>[1] = saved + 1 /\ <<saved + 1, to>>[2] = to
      OBVIOUS
    <3> QED
      BY <1>1, <3>1
  <2> QED
    BY <1>2, <2>1, <2>2
<1>5. Waiting' = Waiting \cup (saved + 1 .. to)
  BY <1>3, <1>4 DEF Waiting
<1>6. ToCome' = ToCome \cup (saved + 1 .. to)
  BY <1>3, <1>5 DEF ToCome
<1>7. Done = 0..saved \ ToCome /\ Done' = 0..to \ ToCome'
  BY <1>1, <1>3 DEF Done
<1>8. \A h \in ToCome : h <= saved
  <2>1. \A h \in Waiting : h <= saved
    BY <1>2 DEF Waiting, TInv, TypeOK, BlockAtHand, Heights
  <2> QED
    BY <1>3, <2>1 DEF ToCome, TInv, BlockAtHand
<1>9. Done' = Done
  <2>1. ToCome' = ToCome \cup (saved + 1 .. to)
    BY <1>6
  <2>2. 0..to = (0..saved) \cup (saved + 1 .. to) /\ (0..saved) \cap (saved + 1 .. to) = {}
    BY <1>2
  <2>3. ToCome \cap (saved + 1 .. to) = {}
    BY <1>2, <1>8
  <2> QED
    BY <1>7, <2>1, <2>2, <2>3
<1>10. \A h \in Heights : h <= saved \/ h > to => block'[h] = block[h]
  BY <1>1, <1>2
<1> QED
  BY <1>1, <1>2, <1>5, <1>6, <1>9, <1>10

\* A block that is sent still waits.
LEMMA SendTurn ==
  ASSUME TInv, NEW batch \in sending, Send(batch)
  PROVE  Waiting' = Waiting /\ ToCome' = ToCome /\ Done' = Done
<1>1. /\ queue \in Seq(Heights)
      /\ batch[1] \in Heights /\ batch[2] \in Heights /\ batch[1] <= batch[2]
      /\ queue' = Append(queue, batch[1])
      /\ sending' = (sending \ {batch}) \cup
                      (IF batch[1] < batch[2] THEN {<<batch[1] + 1, batch[2]>>} ELSE {})
      /\ \A b \in sending : b[1] \in Int /\ b[2] \in Int
  BY DEF Send, TInv, TypeOK, BlockAtHand, Heights
<1>2. {queue'[i] : i \in DOMAIN queue'} = {queue[i] : i \in DOMAIN queue} \cup {batch[1]}
  <2>1. /\ DOMAIN queue = 1..Len(queue) /\ DOMAIN queue' = 1..Len(queue) + 1 /\ Len(queue) \in Nat
        /\ queue'[Len(queue) + 1] = batch[1]
        /\ \A i \in 1..Len(queue) : queue'[i] = queue[i]
    BY <1>1
  <2>2. 1..Len(queue) + 1 = (1..Len(queue)) \cup {Len(queue) + 1}
    BY <2>1
  <2> QED
    BY <2>1, <2>2
<1>3. {h \in Heights : \E b \in sending : b[1] <= h /\ h <= b[2]}
        = {h \in Heights : \E b \in sending' : b[1] <= h /\ h <= b[2]} \cup {batch[1]}
  <2>1. ASSUME NEW h \in Heights, NEW b \in sending, b[1] <= h, h <= b[2]
        PROVE  h = batch[1] \/ \E c \in sending' : c[1] <= h /\ h <= c[2]
    <3>1. CASE b # batch
      BY <1>1, <2>1, <3>1
    <3>2. CASE b = batch /\ h # batch[1]
      <4>1. batch[1] + 1 <= h /\ h <= batch[2] /\ batch[1] < batch[2]
        BY <1>1, <2>1, <3>2 DEF Heights
      <4>2. <<batch[1] + 1, batch[2]>> \in sending'
        BY <1>1, <4>1
      <4>3. <<batch[1] + 1, batch[2]>>[1] = batch[1] + 1 /\ <<batch[1] + 1, batch[2]>>[2] = batch[2]
        OBVIOUS
      <4> QED
        BY <4>1, <4>2, <4>3
    <3> QED
      BY <3>1, <3>2
  <2>2. ASSUME NEW h \in Heights, NEW c \in sending', c[1] <= h, h <= c[2]
        PROVE  \E b \in sending : b[1] <= h /\ h <= b[2]
    BY <1>1, <2>2 DEF Heights
  <2>3. batch[1] \in {h \in Heights : \E b \in sending : b[1] <= h /\ h <= b[2]}
    BY <1>1 DEF Heights
  <2> QED
    BY <2>1, <2>2, <2>3
<1>4. Waiting' = Waiting
  BY <1>2, <1>3 DEF Waiting
<1> QED
  BY <1>4 DEF Send, session, Active, ToCome, Done

\* The block that is taken waited; in turn, it is the lowest that did.
LEMMA TakeTurn ==
  ASSUME TInv, Take
  PROVE  /\ Waiting = Waiting' \cup {digesting'}
         /\ InTurn => \A h \in Waiting' : digesting' < h
         /\ ToCome' = ToCome /\ Done' = Done
<1>1. /\ queue \in Seq(Heights) /\ queue # <<>> /\ queue' = Tail(queue)
      /\ digesting' = Head(queue) /\ sending' = sending /\ mode = "up" /\ mode' = "up"
      /\ step = "idle" /\ step' = "operation" /\ saved' = saved
  BY DEF Take, DigestBlock, TInv, TypeOK
<1>2. /\ Head(queue) = queue[1] /\ 1 \in DOMAIN queue /\ queue[1] \in Heights
      /\ \A i \in DOMAIN queue' : i + 1 \in DOMAIN queue /\ queue'[i] = queue[i + 1] /\ 1 < i + 1
      /\ \A i \in DOMAIN queue : i = 1 \/ (i - 1 \in DOMAIN queue' /\ queue'[i - 1] = queue[i])
  BY <1>1
<1>3. {queue[i] : i \in DOMAIN queue} = {queue'[i] : i \in DOMAIN queue'} \cup {queue[1]}
  BY <1>2
<1>4. Waiting = Waiting' \cup {digesting'}
  BY <1>1, <1>2, <1>3 DEF Waiting
<1>5. ASSUME InTurn, NEW h \in Waiting' PROVE digesting' < h
  <2>1. CASE \E i \in DOMAIN queue' : h = queue'[i]
    BY <1>1, <1>2, <1>5, <2>1 DEF InTurn
  <2>2. CASE h \in Heights /\ \E b \in sending : b[1] <= h /\ h <= b[2]
    <3>1. PICK b \in sending : b[1] <= h /\ h <= b[2]
      BY <2>2
    <3>2. queue[1] < b[1] /\ b[1] \in Int /\ queue[1] \in Int /\ h \in Int
      BY <1>2, <1>5, <2>2, <3>1 DEF InTurn, TInv, TypeOK, Heights
    <3> QED
      BY <1>1, <1>2, <3>1, <3>2
  <2> QED
    BY <1>1, <1>5, <2>1, <2>2 DEF Waiting
<1>6. ToCome' = ToCome
  BY <1>1, <1>4 DEF ToCome, Active
<1>7. Done' = Done
  BY <1>1, <1>6 DEF Done
<1> QED
  BY <1>4, <1>5, <1>6, <1>7

\* A step within a block changes nothing to what is to come.
LEMMA SameTurn ==
  ASSUME Active, Active', UNCHANGED <<node, digesting>>
  PROVE  Waiting' = Waiting /\ ToCome' = ToCome /\ Done' = Done
<1>1. Waiting' = Waiting
  BY DEF Waiting, node
<1>2. step # "clean" /\ step' # "clean"
  BY DEF Active
<1>3. ToCome' = ToCome
  BY <1>1 DEF ToCome, node
<1> QED
  BY <1>1, <1>2, <1>3 DEF Done, node

LEMMA FollowUpTurn ==
  ASSUME TInv, FollowUp
  PROVE  Waiting' = Waiting /\ ToCome' = ToCome /\ Done' = Done
<1>1. Waiting' = Waiting
  BY DEF FollowUp, Waiting, node
<1> QED
  BY <1>1 DEF FollowUp, DigestBlock, ToCome, Done, node

LEMMA FollowedUpTurn ==
  ASSUME TInv, FollowedUp
  PROVE  Waiting' = {} /\ Waiting = {} /\ ToCome' = {} /\ ToCome = {} /\ Done' = Done
<1>1. Waiting = {} /\ Waiting' = {}
  BY NoneWaiting DEF FollowedUp, TInv, BlockAtHand, Waiting
<1>2. ToCome = {}
  BY DigestAssumption DEF FollowedUp, ToCome, TInv, TypeOK, Heights, NilHeight
<1>3. ToCome' = {}
  BY <1>1 DEF FollowedUp, ToCome, Active, session
<1> QED
  BY <1>1, <1>2, <1>3 DEF FollowedUp, Done, session

\* The block that is digested is the lowest to come, and then none of them.
LEMMA SetLastTurn ==
  ASSUME TInv, InTurn, SetLastBlock \/ RestoredBlock
  PROVE  /\ Waiting' = Waiting /\ ToCome' = ToCome \ {digesting}
         /\ Done' = Done \cup {digesting} /\ digesting \in Heights
         /\ \A h \in ToCome' : digesting < h
<1>1. /\ Active /\ ~Active' /\ UNCHANGED <<mode, saved, queue, sending, digesting>> /\ step' = "idle"
      /\ saved \in Int /\ digesting \in Heights /\ digesting <= saved /\ step # "clean"
      /\ mode \in {"up", "following", "restoring"}
  BY DEF SetLastBlock, RestoredBlock, Active, node, TInv, TypeOK, BlockAtHand, Heights, NilHeight
<1>2. Waiting' = Waiting
  BY <1>1 DEF Waiting
<1>3. ToCome' = ToCome \ {digesting} /\ \A h \in ToCome' : digesting < h
  <2>1. CASE mode = "up"
    BY <1>1, <1>2, <2>1 DEF ToCome, InTurn, Heights
  <2>2. CASE mode = "following"
    <3>1. follow = digesting /\ follow' = follow + 1 /\ ToCome = follow..saved /\ ToCome' = follow + 1 .. saved
      BY <1>1, <2>2 DEF SetLastBlock, RestoredBlock, ToCome, TInv, BlockAtHand
    <3> QED
      BY <1>1, <3>1 DEF Heights
  <2>3. CASE mode = "restoring"
    BY <1>1, <2>3 DEF ToCome
  <2> QED
    BY <1>1, <2>1, <2>2, <2>3
<1>4. Done = 0..saved \ ToCome /\ Done' = 0..saved \ ToCome'
  BY <1>1 DEF Done
<1>5. digesting \in ToCome /\ digesting \in 0..saved
  BY <1>1, DigestingToCome DEF Heights
<1> QED
  BY <1>1, <1>2, <1>3, <1>4, <1>5

\* A node that stops, and a command that starts, leave nothing to come.
LEMMA StopTurn ==
  ASSUME Stop
  PROVE  Waiting' = {} /\ ToCome' = {} /\ Done' = {} /\ ~Active'
BY DEF Stop, Waiting, ToCome, Done, Active

LEMMA CleanTurn ==
  ASSUME TInv, NEW h \in Heights, NEW restore \in BOOLEAN, CleanByHeight(h, restore)
  PROVE  Waiting' = {} /\ ToCome' = {} /\ Done' = {} /\ ~Active'
<1>1. queue' = <<>> /\ sending' = {} /\ step' = "clean" /\ mode' \in {"cleaning", "restoring"}
  BY DEF CleanByHeight, TInv, BlockAtHand
<1> QED
  BY <1>1 DEF Waiting, ToCome, Done, Active

\* What is to come when a node starts is not below the stored last block.
LEMMA StartTurn ==
  ASSUME TInv, Start
  PROVE  /\ Waiting' = {} /\ ~Active'
         /\ \A h \in Done' : h \in Heights /\ h <= saved /\ h <= info
         /\ \A h \in ToCome' : h \in Heights /\ info <= h /\ h <= saved
         /\ \A h \in ToCome', k \in Heights : h <= k /\ k <= saved => k \in ToCome'
<1>1. /\ queue' = <<>> /\ sending' = {} /\ step' = step /\ saved' = saved /\ follow' = FollowFrom(info)
      /\ mode' = IF saved > info THEN "following" ELSE "up"
      /\ step # "clean" /\ ~Active /\ ~Active'
      /\ info \in Int /\ saved \in Int /\ -1 <= info /\ saved <= MaxHeight
  BY DigestAssumption
  DEF Start, TInv, TypeOK, BlockAtHand, session, Active, Heights, NilHeight
<1>2. Waiting' = {}
  BY <1>1 DEF Waiting
<1>3. FollowFrom(info) = IF info = -1 THEN 0 ELSE info
  BY DEF FollowFrom, NilHeight
<1>4. CASE saved > info
  <2>1. ToCome' = FollowFrom(info)..saved /\ Done' = 0..saved \ ToCome'
    BY <1>1, <1>4 DEF ToCome, Done
  <2> QED
    BY <1>1, <1>2, <1>3, <1>4, <2>1, DigestAssumption DEF Heights
<1>5. CASE ~(saved > info)
  <2>1. ToCome' = {} /\ Done' = 0..saved
    BY <1>1, <1>2, <1>5 DEF ToCome, Done
  <2> QED
    BY <1>1, <1>2, <1>5, <2>1, DigestAssumption DEF Heights
<1> QED
  BY <1>4, <1>5

LEMMA CleanLastTurn ==
  ASSUME TInv, CleanLastBlock
  PROVE  Waiting' = {} /\ ToCome' = {} /\ ~Active' /\ Done' \subseteq 0..saved
<1>1. /\ queue' = <<>> /\ sending' = {} /\ step' = "idle" /\ mode' \in {"down", "restoring"}
      /\ saved' = saved
  BY DEF CleanLastBlock, TInv, BlockAtHand
<1> QED
  BY <1>1 DEF Waiting, ToCome, Done, Active

\* A block that is restored was not there.
LEMMA RestoreTurn ==
  ASSUME TInv, RestoreBlock
  PROVE  /\ Waiting' = {} /\ ToCome = {} /\ ToCome' = {saved + 1} /\ Done' = Done /\ Done = 0..saved
         /\ saved' = saved + 1 /\ saved' \in Heights /\ digesting' = saved'
<1>1. /\ queue' = <<>> /\ sending' = {} /\ step' = "operation" /\ mode = "restoring" /\ mode' = mode
      /\ saved' = saved + 1 /\ digesting' = saved + 1 /\ step = "idle" /\ saved + 1 \in Heights
      /\ saved \in Int /\ -1 <= saved
  BY DigestAssumption DEF RestoreBlock, DigestBlock, TInv, TypeOK, BlockAtHand, Heights, NilHeight
<1>2. Waiting' = {} /\ ToCome = {} /\ ToCome' = {saved + 1}
  BY <1>1 DEF Waiting, ToCome, Active
<1>3. Done = 0..saved /\ Done' = 0..saved + 1 \ {saved + 1}
  BY <1>1, <1>2 DEF Done
<1> QED
  BY <1>1, <1>2, <1>3

LEMMA SameVars ==
  ASSUME UNCHANGED vars
  PROVE  Waiting' = Waiting /\ ToCome' = ToCome /\ Done' = Done /\ Active' = Active
BY DEF vars, node, session, database, history, bounds, Waiting, ToCome, Done, Active

-----------------------------------------------------------------------------
(* The rows of the block that is being digested. *)

\* Inserted rows are there, and no other row changes.
LEMMA InsertedRows ==
  ASSUME TInv, NEW col \in Collections, Insert(col)
  PROVE  /\ rows'[col][digesting] > 0
         /\ \A c \in Collections, h \in Heights :
              /\ c # col \/ h # digesting => rows'[c][h] = rows[c][h]
              /\ rows[c][h] > 0 => rows'[c][h] > 0
<1>1. /\ rows \in [Collections -> [Heights -> 0..MaxCopies]] /\ digesting \in Heights
      /\ MaxCopies \in Nat \ {0}
  BY DigestAssumption DEF TInv, TypeOK
<1>2. rows' = [rows EXCEPT ![col][digesting] = IF @ < MaxCopies THEN @ + 1 ELSE @]
  BY DEF Insert
<1>3. rows[col] \in [Heights -> 0..MaxCopies] /\ rows[col][digesting] \in 0..MaxCopies
  BY <1>1
<1>4. rows'[col][digesting] = IF rows[col][digesting] < MaxCopies THEN rows[col][digesting] + 1
                              ELSE rows[col][digesting]
  BY <1>1, <1>2, <1>3
<1>5. rows'[col][digesting] > 0
  BY <1>1, <1>3, <1>4
<1>6. \A c \in Collections, h \in Heights : c # col \/ h # digesting => rows'[c][h] = rows[c][h]
  BY <1>1, <1>2, <1>3
<1> QED
  BY <1>5, <1>6

\* A block that is started has no rows that count, and all its documents are to be replaced.
LEMMA WrittenFirst ==
  ASSUME TInv, NEW h \in Heights, DigestBlock(h), UNCHANGED block
  PROVE  WrittenSoFar'
BY DEF DigestBlock, WrittenSoFar, Active

LEMMA WrittenNext == TInv /\ WrittenSoFar /\ [Next]_vars => WrittenSoFar'
<1> SUFFICES ASSUME TInv, WrittenSoFar, [Next]_vars PROVE WrittenSoFar'
  OBVIOUS
<1>0. TInv'
  BY TNext
<1>1. CASE ~Active'
  BY <1>1 DEF WrittenSoFar
<1>2. CASE Save
  <2>1. Active => block'[digesting] = block[digesting]
    BY <1>2, SaveTurn DEF TInv, TypeOK, BlockAtHand
  <2> QED
    BY <1>2, <2>1 DEF Save, session, database, WrittenSoFar, Active
<1>3. ASSUME NEW batch \in sending, Send(batch)
      PROVE  WrittenSoFar'
  BY <1>3 DEF Send, session, database, WrittenSoFar, Active
<1>4. CASE Take \/ FollowUp \/ RestoreBlock
  <2>1. DigestBlock(digesting') /\ UNCHANGED block /\ digesting' \in Heights
    BY <1>0, <1>4 DEF Take, FollowUp, RestoreBlock, DigestBlock, TInv, TypeOK, node
  <2> QED
    BY <2>1, WrittenFirst
<1>5. ASSUME NEW col \in Collections, Insert(col)
      PROVE  WrittenSoFar'
  <2>1. /\ Active /\ step = col /\ step' = NextStep(col) /\ rows'[col][digesting] > 0
        /\ \A c \in Collections : rows[c][digesting] > 0 => rows'[c][digesting] > 0
        /\ UNCHANGED <<digesting, todo, docRows, block>>
        /\ todo \subseteq block[digesting].docs
    BY <1>5, InsertedRows
    DEF Insert, Active, Collections, node, TInv, TypeOK, WrittenSoFar
  <2>2. /\ step' # "operation" => rows'["operation"][digesting] > 0
        /\ step' \notin {"operation", "account"} => rows'["account"][digesting] > 0
        /\ step' \notin {"operation", "account", "balance"} => rows'["balance"][digesting] > 0
        /\ step' = "last" /\ block[digesting].listed => rows'["documents"][digesting] > 0
    <3>1. CASE col = "operation"
      BY <2>1, <3>1 DEF NextStep
    <3>2. CASE col = "account"
      BY <2>1, <3>2 DEF NextStep, WrittenSoFar, Collections
    <3>3. CASE col = "balance"
      BY <2>1, <3>3 DEF NextStep, AfterDocuments, WrittenSoFar, Collections
    <3>4. CASE col = "documents"
      BY <2>1, <3>4 DEF NextStep, WrittenSoFar, Collections
    <3> QED
      BY <3>1, <3>2, <3>3, <3>4 DEF Collections
  <2>3. /\ step' \in {"document", "documents", "last"} => todo = {}
        /\ step' \in {"documents", "last"} =>
             \A d \in block[digesting].docs : <<d, digesting>> \in docRows
    BY <1>5, <2>1, NextSteps DEF WrittenSoFar, Collections, Steps
  <2> QED
    BY <2>1, <2>2, <2>3 DEF WrittenSoFar
<1>6. ASSUME NEW d \in DocIds, DeleteDocument(d)
      PROVE  WrittenSoFar'
  <2>1. /\ Active /\ step = "delete" /\ step' = "reset" /\ todo' = todo \ {d} /\ d \in todo
        /\ docRows' = docRows \ OldRows(d) /\ UNCHANGED <<digesting, rows, block>>
        /\ docRows \subseteq DocIds \X Heights /\ digesting \in Heights
    BY <1>6 DEF DeleteDocument, Active, node, TInv, TypeOK
  <2>2. \A r \in docRows' : r[1] \in block[digesting].docs \ todo' => r[2] >= digesting
    <3>1. \A r \in docRows' : r[1] = d => r[2] >= digesting
      BY <2>1, DigestAssumption DEF OldRows, Heights
    <3> QED
      BY <2>1, <3>1 DEF WrittenSoFar
  <2> QED
    BY <2>1, <2>2 DEF WrittenSoFar
<1>7. CASE ResetLastBlock
  BY <1>7 DEF ResetLastBlock, WrittenSoFar, Active, node
<1>8. CASE InsertDocuments
  <2>1. /\ Active /\ step = "document" /\ step' \in {"documents", "last"} /\ todo' = {}
        /\ step' = "last" => ~block[digesting].listed
        /\ docRows' = docRows \cup {<<d, digesting>> : d \in block[digesting].docs}
        /\ UNCHANGED <<digesting, rows, block>> /\ digesting \in Int
    BY <1>8 DEF InsertDocuments, AfterDocuments, Active, node, WrittenSoFar, TInv, TypeOK, Heights
  <2>2. \A r \in docRows' : r[1] \in block[digesting].docs \ todo' => r[2] >= digesting
    BY <2>1 DEF WrittenSoFar
  <2> QED
    BY <2>1, <2>2 DEF WrittenSoFar
<1>9. CASE Retry
  <2>1. DigestBlock(digesting) /\ UNCHANGED block /\ digesting \in Heights
    BY <1>9 DEF Retry, TInv, TypeOK, node
  <2> QED
    BY <2>1, WrittenFirst
<1>10. CASE FollowedUp \/ SetLastBlock \/ FollowUpFails \/ Crash \/ CleanLastBlock \/ RestoredBlock \/ Restored
  BY <1>1, <1>10, StopTurn
  DEF FollowedUp, SetLastBlock, FollowUpFails, Crash, CleanLastBlock, RestoredBlock, Restored, Active, session
<1>11. CASE Start
  BY <1>1, <1>11, StartTurn
<1>12. ASSUME NEW h \in Heights, NEW restore \in BOOLEAN, CleanByHeight(h, restore)
       PROVE  WrittenSoFar'
  BY <1>1, <1>12, CleanTurn
<1>13. CASE UNCHANGED vars
  BY <1>13 DEF vars, node, session, database, WrittenSoFar, Active
<1> QED
  BY <1>2, <1>3, <1>4, <1>5, <1>6, <1>7, <1>8, <1>9, <1>10, <1>11, <1>12, <1>13 DEF Next, Write

-----------------------------------------------------------------------------
(* What can be read while the node is up, whatever order the batches arrive in. *)

LEMMA ReadableInit == Init => RInv
<1> SUFFICES ASSUME Init PROVE RInv
  OBVIOUS
<1>1. TInv
  BY TInit
<1>2. ~Active /\ saved = 0 /\ docRows = {} /\ \A h \in Heights : block[h] = NoContent
  BY DEF Init, Active
<1>3. WrittenSoFar
  BY <1>2 DEF WrittenSoFar
<1>4. \A h \in Heights : rows["operation"][h] > 0 => h <= 0
  BY DEF Init, Collections
<1>5. 0 \in Heights
  BY DigestAssumption DEF Heights
<1>6. StillReadable
  BY <1>2, <1>5 DEF StillReadable, NoContent
<1> QED
  BY <1>1, <1>2, <1>3, <1>4, <1>6 DEF RInv

LEMMA ReadableNext == RInv /\ mode = "up" /\ mode' = "up" /\ [Next]_vars => RInv'
<1> SUFFICES ASSUME RInv, mode = "up", mode' = "up", [Next]_vars PROVE RInv'
  OBVIOUS
<1>0. /\ TInv /\ WrittenSoFar /\ TInv' /\ WrittenSoFar'
      /\ saved \in Int /\ saved <= MaxHeight /\ MaxHeight \in Nat /\ digesting \in Heights
      /\ step # "clean" /\ -1 <= saved /\ 0..saved \subseteq Heights
  <2>1. TInv /\ WrittenSoFar /\ TInv' /\ WrittenSoFar'
    BY TNext, WrittenNext DEF RInv
  <2>2. MaxHeight \in Nat
    BY DigestAssumption
  <2>3. saved \in Int /\ saved <= MaxHeight /\ digesting \in Heights /\ -1 <= saved
    BY <2>1, <2>2 DEF TInv, TypeOK, Heights, NilHeight
  <2>4. step # "clean"
    BY <2>1 DEF TInv, BlockAtHand
  <2> QED
    BY <2>1, <2>2, <2>3, <2>4 DEF Heights
<1>1. CASE Save
  <2>1. /\ saved' \in Heights /\ saved < saved' /\ UNCHANGED <<rows, docRows, digesting, step>>
        /\ \A h \in Heights : h <= saved => block'[h] = block[h]
    BY <1>0, <1>1, SaveTurn DEF Save, session, database
  <2>2. \A h \in Heights : rows'["operation"][h] > 0 => h <= saved
    BY <2>1 DEF RInv
  <2>3. \A h \in Heights : Indexed(h)' => h <= saved /\ Indexed(h)
    BY <2>1, <2>2 DEF Indexed
  <2>4. Active' = Active /\ (Active => block'[digesting] = block[digesting])
    BY <1>0, <2>1 DEF Active, TInv, BlockAtHand
  <2>5. StillReadable'
    BY <1>0, <2>1, <2>3, <2>4 DEF StillReadable, RInv, Heights
  <2> QED
    BY <1>0, <2>1, <2>2, <2>5 DEF RInv, Heights
<1>2. ASSUME NEW batch \in sending, Send(batch)
      PROVE  RInv'
  BY <1>0, <1>2 DEF Send, session, database, RInv, StillReadable, Indexed, Active
<1>3. CASE Take \/ FollowUp \/ RestoreBlock
  <2>1. UNCHANGED <<saved, block, rows, docRows>> /\ ~Active /\ Active'
    BY <1>3 DEF Take, FollowUp, RestoreBlock, DigestBlock, Active, database, node
  <2>2. \A h \in Heights : Indexed(h)' <=> Indexed(h)
    BY <2>1 DEF Indexed
  <2> QED
    BY <1>0, <2>1, <2>2 DEF RInv, StillReadable
<1>4. ASSUME NEW col \in Collections, Insert(col)
      PROVE  RInv'
  <2>1. /\ Active /\ Active' /\ UNCHANGED <<saved, block, digesting, docRows>> /\ digesting <= saved
        /\ \A c \in Collections, h \in Heights : h # digesting => rows'[c][h] = rows[c][h]
    BY <1>0, <1>4, InsertedRows, NextSteps
    DEF Insert, Active, Collections, Steps, node, TInv, BlockAtHand
  <2>2. \A h \in Heights : h # digesting => (Indexed(h)' <=> Indexed(h))
    BY <2>1 DEF Indexed, Collections
  <2>3. \A h \in Heights : rows'["operation"][h] > 0 => h <= saved'
    BY <2>1 DEF RInv, Collections
  <2> QED
    BY <1>0, <2>1, <2>2, <2>3 DEF RInv, StillReadable
<1>5. ASSUME NEW d \in DocIds, DeleteDocument(d)
      PROVE  RInv'
  <2>1. /\ Active /\ Active' /\ UNCHANGED <<saved, block, digesting, rows>>
        /\ docRows' = docRows \ OldRows(d) /\ d \in block[digesting].docs
    BY <1>0, <1>5 DEF DeleteDocument, Active, node, WrittenSoFar
  <2>2. \A h \in Heights : Indexed(h)' <=> Indexed(h)
    BY <2>1 DEF Indexed
  <2>3. ASSUME NEW h \in 0..saved, NEW e \in block[h].docs, NEW k \in h..saved, <<e, k>> \in docRows,
               h # digesting
        PROVE  (e \in block[digesting].docs /\ h < digesting) \/ <<e, k>> \in docRows'
    <3>1. CASE <<e, k>> \in OldRows(d)
      BY <1>0, <2>1, <2>3, <3>1 DEF OldRows, Heights
    <3> QED
      BY <2>1, <2>3, <3>1
  <2>4. StillReadable'
    BY <1>0, <2>1, <2>2, <2>3 DEF RInv, StillReadable
  <2> QED
    BY <1>0, <2>1, <2>4 DEF RInv
<1>6. CASE ResetLastBlock \/ InsertDocuments
  <2>1. /\ Active /\ Active' /\ UNCHANGED <<saved, block, digesting, rows>> /\ docRows \subseteq docRows'
    BY <1>6 DEF ResetLastBlock, InsertDocuments, AfterDocuments, Active, node
  <2>2. \A h \in Heights : Indexed(h)' <=> Indexed(h)
    BY <2>1 DEF Indexed
  <2> QED
    BY <1>0, <2>1, <2>2 DEF RInv, StillReadable
<1>7. CASE SetLastBlock
  <2>1. /\ Active /\ ~Active' /\ UNCHANGED <<saved, block, rows, docRows>> /\ digesting <= saved
        /\ \A d \in block[digesting].docs : <<d, digesting>> \in docRows
    BY <1>0, <1>7 DEF SetLastBlock, Active, WrittenSoFar, TInv, BlockAtHand
  <2>2. \A h \in Heights : Indexed(h)' <=> Indexed(h)
    BY <2>1 DEF Indexed
  <2>3. ASSUME NEW h \in 0..saved, Indexed(h), NEW d \in block[h].docs
        PROVE  \E k \in h..saved : <<d, k>> \in docRows
    <3>1. digesting \in Int
      BY <1>0 DEF Heights
    <3>2. CASE h <= digesting /\ d \in block[digesting].docs
      BY <1>0, <2>1, <3>1, <3>2
    <3>3. CASE ~(h <= digesting /\ d \in block[digesting].docs)
      BY <1>0, <2>1, <2>3, <3>1, <3>3 DEF RInv, StillReadable
    <3> QED
      BY <3>2, <3>3
  <2>4. StillReadable'
    BY <1>0, <2>1, <2>2, <2>3 DEF StillReadable, Heights
  <2> QED
    BY <1>0, <2>1, <2>4 DEF RInv
<1>8. CASE Retry
  <2>1. /\ Active /\ Active' /\ UNCHANGED <<saved, block, digesting, rows>>
    BY <1>8 DEF Retry, DigestBlock, Active, node, TInv, BlockAtHand, RInv
  <2>2. docRows \subseteq docRows'
    BY <1>0, <1>8, <2>1, PartialWrites DEF Retry
  <2>3. \A h \in Heights : Indexed(h)' <=> Indexed(h)
    BY <2>1 DEF Indexed
  <2> QED
    BY <1>0, <2>1, <2>2, <2>3 DEF RInv, StillReadable
<1>9. CASE UNCHANGED vars
  BY <1>0, <1>9 DEF vars, node, session, database, RInv, StillReadable, Indexed, Active
<1>10. ~(FollowedUp \/ FollowUpFails \/ Crash \/ Start \/ CleanLastBlock \/ RestoredBlock \/ Restored)
  BY DEF FollowedUp, FollowUpFails, Crash, Start, CleanLastBlock, RestoredBlock, Restored, Stop, RInv,
         TInv, BlockAtHand
<1>11. \A h \in Heights, restore \in BOOLEAN : ~CleanByHeight(h, restore)
  BY DEF CleanByHeight
<1> QED
  BY <1>1, <1>2, <1>3, <1>4, <1>5, <1>6, <1>7, <1>8, <1>9, <1>10, <1>11 DEF Next, Write

\* As long as the node stays up, with any number of batches at a time and whichever
\* writes fail, the documents of a digested block can be read, as that block or a later
\* one left them.
THEOREM ReadableWhileUp == Spec => ([](mode = "up") => []DigestedReadable)
<1>1. RInv => DigestedReadable
  <2> SUFFICES ASSUME RInv, mode = "up", step = "idle",
                      NEW h \in 0..saved, Indexed(h), NEW d \in block[h].docs
               PROVE  \E k \in h..saved : <<d, k>> \in docRows
    BY DEF DigestedReadable
  <2> QED
    BY DEF RInv, StillReadable, Active
<1>2. RInv /\ mode = "up" /\ (mode = "up")' /\ [Next]_vars => RInv'
  BY ReadableNext
<1> QED
  BY <1>1, <1>2, ReadableInit, PTL DEF Spec

\* The blocks that have come are digested, as long as the node stays up.
LEMMA LeftOutNext ==
  RInv /\ NoneLeftOut /\ mode = "up" /\ mode' = "up" /\ [Next]_vars => NoneLeftOut'
<1> SUFFICES ASSUME RInv, NoneLeftOut, mode = "up", mode' = "up", [Next]_vars
             PROVE  \A h \in 0..saved' : h \in ToCome' \/ Indexed(h)'
  BY DEF NoneLeftOut
<1>0. /\ TInv /\ WrittenSoFar /\ saved \in Int /\ step # "clean" /\ 0..saved \subseteq Heights
      /\ ToCome = IF Active THEN Waiting \cup {digesting} ELSE Waiting
      /\ ToCome' = IF Active' THEN Waiting' \cup {digesting'} ELSE Waiting'
      /\ \A h \in 0..saved : h \in ToCome \/ Indexed(h)
  <2>1. saved \in Int /\ saved <= MaxHeight /\ MaxHeight \in Nat
    BY DigestAssumption DEF RInv, TInv, TypeOK, Heights, NilHeight
  <2> QED
    BY <2>1 DEF RInv, TInv, BlockAtHand, NoneLeftOut, ToCome, Heights
<1>1. CASE Save
  <2>1. /\ saved' \in Heights /\ ToCome' = ToCome \cup (saved + 1 .. saved') /\ UNCHANGED rows
        /\ \A h \in Heights : h <= saved => block'[h] = block[h]
    BY <1>0, <1>1, SaveTurn DEF Save, database
  <2>2. \A h \in 0..saved : Indexed(h)' <=> Indexed(h)
    BY <1>0, <2>1 DEF Indexed
  <2>3. \A h \in 0..saved' : h \in 0..saved \/ h \in saved + 1 .. saved'
    BY <1>0, <2>1 DEF Heights
  <2> QED
    BY <1>0, <2>1, <2>2, <2>3
<1>2. ASSUME NEW batch \in sending, Send(batch)
      PROVE  \A h \in 0..saved' : h \in ToCome' \/ Indexed(h)'
  <2>1. ToCome' = ToCome /\ UNCHANGED <<saved, block, rows>>
    BY <1>0, <1>2, SendTurn DEF Send, database
  <2> QED
    BY <1>0, <2>1 DEF Indexed
<1>3. CASE Take
  <2>1. /\ ToCome' = ToCome /\ UNCHANGED <<saved, block, rows>>
    BY <1>0, <1>3, TakeTurn DEF Take, database
  <2> QED
    BY <1>0, <2>1 DEF Indexed
<1>4. ASSUME NEW col \in Collections, Insert(col)
      PROVE  \A h \in 0..saved' : h \in ToCome' \/ Indexed(h)'
  <2>1. /\ Active /\ Active' /\ UNCHANGED <<saved, block, digesting, queue, sending>>
    BY <1>0, <1>4, NextSteps DEF Insert, Active, Collections, Steps, node
  <2>2. Waiting' = Waiting
    BY <2>1 DEF Waiting
  <2>3. \A h \in 0..saved : Indexed(h) => Indexed(h)'
    BY <1>0, <1>4, <2>1, InsertedRows DEF Indexed, Collections
  <2> QED
    BY <1>0, <2>1, <2>2, <2>3
<1>5. CASE \/ \E d \in DocIds : DeleteDocument(d)
           \/ ResetLastBlock \/ InsertDocuments \/ Retry
  <2>1. /\ Active /\ Active' /\ UNCHANGED <<saved, block, digesting, queue, sending, rows>>
    BY <1>0, <1>5 DEF DeleteDocument, ResetLastBlock, InsertDocuments, Retry, AfterDocuments,
                      DigestBlock, Active, node
  <2>2. Waiting' = Waiting /\ \A h \in 0..saved : Indexed(h) => Indexed(h)'
    BY <2>1 DEF Waiting, Indexed
  <2> QED
    BY <1>0, <2>1, <2>2
<1>6. CASE SetLastBlock
  <2>1. Active /\ ~Active' /\ step = "last" /\ UNCHANGED <<saved, block, queue, sending, rows>>
    BY <1>0, <1>6 DEF SetLastBlock, Active
  <2>2. Waiting' = Waiting /\ \A h \in 0..saved : Indexed(h)' <=> Indexed(h)
    BY <2>1 DEF Waiting, Indexed
  <2>3. Indexed(digesting)
    BY <1>0, <2>1 DEF WrittenSoFar, Indexed
  <2> QED
    BY <1>0, <2>1, <2>2, <2>3
<1>7. CASE UNCHANGED vars
  <2>1. ToCome' = ToCome /\ UNCHANGED <<saved, block, rows>>
    BY <1>7, SameVars DEF vars, node, database
  <2> QED
    BY <1>0, <2>1 DEF Indexed
<1>8. ~(\/ FollowUp \/ FollowedUp \/ FollowUpFails \/ Crash \/ Start \/ CleanLastBlock
        \/ RestoreBlock \/ RestoredBlock \/ Restored)
  BY <1>0 DEF FollowUp, FollowedUp, FollowUpFails, Crash, Start, CleanLastBlock, RestoreBlock,
              RestoredBlock, Restored, Stop
<1>9. \A h \in Heights, restore \in BOOLEAN : ~CleanByHeight(h, restore)
  BY DEF CleanByHeight
<1> QED
  BY <1>1, <1>2, <1>3, <1>4, <1>5, <1>6, <1>7, <1>8, <1>9 DEF Next, Write

\* As long as the node stays up, a digester with nothing left to do has digested every
\* saved block, with any number of batches at a time, in whatever order they arrive and
\* whichever writes fail: a block is left out, as in the run digest_gap, only by a stop.
THEOREM UpToDateWhileUp == Spec => ([](mode = "up") => []BlocksUpToDate)
<1>1. Init => RInv /\ NoneLeftOut
  <2> SUFFICES ASSUME Init PROVE RInv /\ NoneLeftOut
    OBVIOUS
  <2>1. RInv
    BY ReadableInit
  <2>2. saved = 0 /\ 0 \in Heights /\ block[0] = NoContent
        /\ \A col \in Collections \ {"documents"} : rows[col][0] = 1
    BY DigestAssumption DEF Init, Heights
  <2>3. Indexed(0)
    BY <2>2 DEF Indexed, Collections, NoContent
  <2> QED
    BY <2>1, <2>2, <2>3 DEF NoneLeftOut
<1>2. RInv /\ NoneLeftOut /\ mode = "up" /\ (mode = "up")' /\ [Next]_vars => (RInv /\ NoneLeftOut)'
  BY ReadableNext, LeftOutNext
<1>3. RInv /\ NoneLeftOut => BlocksUpToDate
  <2> SUFFICES ASSUME RInv, NoneLeftOut, UpToDate PROVE \A h \in 0..saved : Indexed(h)
    BY DEF BlocksUpToDate
  <2>1. ToCome = {}
    BY NoneWaiting DEF UpToDate, ToCome, Active
  <2> QED
    BY <2>1 DEF NoneLeftOut, UpToDate
<1> QED
  BY <1>1, <1>2, <1>3, PTL DEF Spec

-----------------------------------------------------------------------------
(* One batch at a time: the blocks are digested in their order. *)

\* The block that is digested is the lowest to come, and those below it are digested.
LEMMA DigestingLowest ==
  ASSUME TInv, InTurn, Active
  PROVE  /\ \A h \in ToCome : digesting <= h
         /\ \A h \in Heights : h < digesting => h \in Done
         /\ digesting <= saved
<1>1. /\ digesting \in Heights /\ digesting \in Int /\ saved \in Int /\ digesting <= saved
      /\ mode \in {"up", "following", "restoring"} /\ step # "clean"
      /\ mode = "following" => digesting = follow
  BY DEF TInv, TypeOK, BlockAtHand, Active, Heights, NilHeight
<1>2. \A h \in ToCome : digesting <= h
  <2>1. CASE mode = "up"
    <3>1. \A h \in Waiting : h \in Int /\ digesting < h
      BY WaitingSaved DEF InTurn, Heights
    <3> QED
      BY <1>1, <2>1, <3>1 DEF ToCome
  <2>2. CASE mode = "following"
    BY <1>1, <2>2 DEF ToCome
  <2>3. CASE mode = "restoring"
    BY <1>1, <2>3 DEF ToCome
  <2> QED
    BY <1>1, <2>1, <2>2, <2>3
<1>3. \A h \in Heights : h < digesting => h \in 0..saved /\ h \notin ToCome
  BY <1>1, <1>2 DEF Heights
<1> QED
  BY <1>1, <1>2, <1>3 DEF Done

\* With one batch at a time, a new one is the only one.
LEMMA OnlyBatch ==
  ASSUME TInv, MaxBatches = 1, Save
  PROVE  sending = {}
<1>1. IsFiniteSet(sending)
  <2>1. IsFiniteSet(Heights)
    BY FS_Interval, DigestAssumption DEF Heights
  <2>2. IsFiniteSet(Heights \X Heights)
    BY <2>1, FS_Product
  <2> QED
    BY <2>2, FS_Subset DEF TInv, TypeOK
<1>2. Cardinality(sending) = 0
  BY <1>1, FS_CardinalityType DEF Save
<1> QED
  BY <1>1, <1>2, FS_EmptySet

\* What a node that stops has stored.
LEMMA StoppedInfo ==
  ASSUME TInv, InTurn, FollowUpFails \/ Crash \/ Restored
  PROVE  /\ Stop /\ UNCHANGED rows
         /\ \/ info' = info
            \/ Active /\ step = "last" /\ info' = digesting
            \/ mode = "restoring" /\ step = "idle" /\ info' = saved
         /\ docRows \subseteq docRows'
         /\ \A r \in docRows' \ docRows : Active /\ r[2] = digesting /\ r[1] \in block[digesting].docs
<1>1. CASE FollowUpFails /\ Active
  BY <1>1, PartialWrites DEF FollowUpFails
<1>2. CASE FollowUpFails /\ ~Active
  BY <1>2 DEF FollowUpFails, Active, PartialWrite
<1>3. CASE Crash
  BY <1>3 DEF Crash
<1>4. CASE Restored
  BY <1>4 DEF Restored
<1> QED
  BY <1>1, <1>2, <1>3, <1>4

LEMMA TurnInit == Init => InTurn
<1> SUFFICES ASSUME Init PROVE InTurn
  OBVIOUS
<1>1. Waiting = {} /\ ToCome = {} /\ ~Active
  BY NoneWaiting DEF Init, ToCome, Active
<1> QED
  BY <1>1, DigestAssumption DEF Init, InTurn, Never

LEMMA TurnNext ==
  ASSUME TInv, InTurn, MaxBatches = 1, [Next]_vars
  PROVE  InTurn'
<1>0. /\ TInv' /\ MaxHeight \in Nat /\ saved \in Int /\ saved <= MaxHeight /\ -1 <= saved
      /\ info \in Int /\ unsure \in Int /\ digesting \in Heights /\ digesting \in Int
      /\ queue \in Seq(Heights) /\ sending \subseteq Heights \X Heights
  <2>1. TInv' /\ MaxHeight \in Nat
    BY TNext, DigestAssumption
  <2>2. queue \in Seq(Heights) /\ sending \subseteq Heights \X Heights /\ digesting \in Heights
    BY DEF TInv, TypeOK
  <2>3. /\ saved \in Heights \cup {NilHeight} /\ info \in Heights \cup {NilHeight}
        /\ unsure \in 0..Never
    BY DEF TInv, TypeOK
  <2> QED
    BY <2>1, <2>2, <2>3 DEF Heights, NilHeight, Never
<1>1. CASE Save
  <2>0. PICK to \in saved + 1 .. MaxHeight : sending' = sending \cup {<<saved + 1, to>>}
    BY <1>1 DEF Save
  <2>1. /\ sending = {} /\ saved' \in Heights /\ saved < saved'
        /\ \A b \in sending' : b[1] = saved + 1
        /\ \A b, c \in sending' : b = c
        /\ UNCHANGED <<queue, info, unsure, digesting, step>>
    <3>1. /\ sending = {} /\ saved' \in Heights /\ saved < saved'
          /\ UNCHANGED <<queue, info, unsure, digesting, step>>
      BY <1>1, OnlyBatch, SaveTurn DEF Save, session, database, history
    <3>2. sending' = {<<saved + 1, to>>}
      BY <2>0, <3>1
    <3>3. <<saved + 1, to>>[1] = saved + 1
      OBVIOUS
    <3> QED
      BY <3>1, <3>2, <3>3
  <2>2. /\ \A i, j \in DOMAIN queue' : i < j => queue'[i] < queue'[j]
        /\ \A i \in DOMAIN queue', b \in sending' : queue'[i] < b[1]
    BY <1>0, <2>1 DEF InTurn, TInv, BlockAtHand, TypeOK, Heights
  <2>3. /\ Waiting' = Waiting \cup (saved + 1 .. saved')
        /\ ToCome' = ToCome \cup (saved + 1 .. saved')
        /\ \A h \in saved + 1 .. saved' : h \in Int /\ saved < h /\ h <= saved'
    BY <1>0, <1>1, <2>1, SaveTurn DEF Heights
  <2>4. Active' => \A h \in Waiting' : digesting' < h
    BY <1>0, <2>1, <2>3 DEF InTurn, Active, TInv, BlockAtHand
  <2>5. \A h \in ToCome', k \in Heights : h <= k /\ k <= saved' => k \in ToCome'
    BY <1>0, <2>1, <2>3 DEF InTurn, Heights
  <2>6. /\ \A h \in ToCome' : info' <= h \/ unsure' <= h
        /\ info' <= saved' \/ unsure' <= saved' + 1
    <3>1. saved' \in Int /\ saved < saved' /\ (info <= saved \/ unsure <= saved + 1)
      BY <2>1 DEF InTurn, Heights
    <3>2. \A h \in saved + 1 .. saved' : info <= h \/ unsure <= h
      BY <1>0, <2>3, <3>1
    <3>3. info <= saved' \/ unsure <= saved' + 1
      <4>1. /\ info \in Int /\ unsure \in Int /\ saved \in Int
            /\ info <= saved \/ unsure <= saved + 1
        BY <1>0, <3>1
      <4>2. \A n \in Int : saved < n => info <= n \/ unsure <= n + 1
        BY <4>1
      <4> QED
        BY <3>1, <4>2
    <3>4. \A h \in ToCome' : info <= h \/ unsure <= h
      BY <2>3, <3>2 DEF InTurn
    <3> QED
      BY <2>1, <3>3, <3>4
  <2> QED
    BY <2>1, <2>2, <2>4, <2>5, <2>6 DEF InTurn
<1>2. ASSUME NEW batch \in sending, Send(batch)
      PROVE  InTurn'
  <2>1. /\ \A b \in sending : b = batch /\ batch[1] \in Int /\ batch[2] \in Int
        /\ queue' = Append(queue, batch[1])
        /\ \A i \in DOMAIN queue : queue[i] < batch[1] /\ queue[i] \in Int
        /\ UNCHANGED <<info, unsure, digesting, step, saved>>
        /\ batch[1] \in Heights
    BY <1>0, <1>2 DEF Send, InTurn, session, database, history, Heights
  <2>2. /\ \A b \in sending' : b[1] = batch[1] + 1
        /\ \A b, c \in sending' : b = c
    BY <1>2, <2>1 DEF Send
  <2>3. /\ DOMAIN queue = 1..Len(queue) /\ DOMAIN queue' = 1..Len(queue) + 1 /\ Len(queue) \in Nat
        /\ queue'[Len(queue) + 1] = batch[1]
        /\ \A i \in 1..Len(queue) : queue'[i] = queue[i]
    BY <1>0, <2>1
  <2>4. ASSUME NEW i \in DOMAIN queue', NEW j \in DOMAIN queue', i < j
        PROVE  queue'[i] < queue'[j]
    <3>1. CASE j = Len(queue) + 1
      BY <2>1, <2>3, <2>4, <3>1
    <3>2. CASE j # Len(queue) + 1
      <4>1. i \in 1..Len(queue) /\ j \in 1..Len(queue)
        BY <2>3, <2>4, <3>2
      <4> QED
        BY <2>3, <2>4, <4>1 DEF InTurn
    <3> QED
      BY <3>1, <3>2
  <2>5. \A i \in DOMAIN queue', b \in sending' : queue'[i] < b[1]
    <3>1. \A i \in DOMAIN queue' : queue'[i] \in Int /\ queue'[i] < batch[1] + 1
      BY <2>1, <2>3
    <3> QED
      BY <2>2, <3>1
  <2>6. Waiting' = Waiting /\ ToCome' = ToCome
    BY <1>2, SendTurn
  <2>7. Active' => \A h \in Waiting' : digesting' < h
    BY <2>1, <2>6 DEF InTurn, Active
  <2> QED
    BY <2>1, <2>2, <2>4, <2>5, <2>6, <2>7 DEF InTurn
<1>3. CASE Take
  <2>1. /\ \A h \in Waiting' : digesting' < h
        /\ ToCome' = ToCome /\ UNCHANGED <<sending, saved, info, unsure>>
    BY <1>3, TakeTurn DEF Take, database, history
  <2>2. \A i \in DOMAIN queue' : i \in Int /\ i + 1 \in DOMAIN queue /\ queue'[i] = queue[i + 1]
    BY <1>0, <1>3 DEF Take
  <2>3. /\ \A i, j \in DOMAIN queue' : i < j => queue'[i] < queue'[j]
        /\ \A i \in DOMAIN queue', b \in sending' : queue'[i] < b[1]
    BY <2>1, <2>2 DEF InTurn
  <2> QED
    BY <2>1, <2>3 DEF InTurn
<1>4. ASSUME UNCHANGED <<queue, sending, saved, unsure>>,
             Active' => \A h \in Waiting' : digesting' < h,
             ToCome' \subseteq ToCome,
             \A h \in ToCome', k \in Heights : h <= k /\ k <= saved => k \in ToCome',
             info' \in Int, info' = info \/ info' <= saved,
             info' = info \/ \A h \in ToCome' : info' <= h
      PROVE  InTurn'
  BY <1>0, <1>4 DEF InTurn
<1>5. CASE Active /\ Active' /\ UNCHANGED <<node, digesting, unsure>>
           /\ (info' = info \/ info' = digesting \/ info' = digesting - 1)
  <2>1. UNCHANGED <<queue, sending, saved, unsure, digesting>> /\ Waiting' = Waiting /\ ToCome' = ToCome
    BY <1>5, SameTurn DEF node
  <2>2. \A h \in ToCome : h \in Int /\ digesting <= h
    BY <1>5, DigestingLowest, BelowToCome DEF Heights
  <2>3. digesting <= saved
    BY <1>5, DigestingLowest
  <2>4. Active' => \A h \in Waiting' : digesting' < h
    BY <1>5, <2>1 DEF InTurn
  <2>5. \A h \in ToCome', k \in Heights : h <= k /\ k <= saved => k \in ToCome'
    BY <2>1 DEF InTurn
  <2>6. info' \in Int /\ (info' = info \/ info' <= saved) /\ (info' = info \/ \A h \in ToCome' : info' <= h)
    BY <1>0, <1>5, <2>1, <2>2, <2>3
  <2> QED
    BY <1>4, <2>1, <2>4, <2>5, <2>6
<1>6. CASE \E col \in Collections : Insert(col)
  BY <1>5, <1>6, NextSteps DEF Insert, Active, Collections, Steps, history
<1>7. CASE (\E d \in DocIds : DeleteDocument(d)) \/ ResetLastBlock \/ InsertDocuments
  BY <1>5, <1>7
  DEF DeleteDocument, ResetLastBlock, InsertDocuments, AfterDocuments, Active, node, history
<1>8. CASE Retry
  <2>1. Active /\ Active' /\ UNCHANGED <<node, digesting, unsure>>
    BY <1>8 DEF Retry, DigestBlock, Active, TInv, BlockAtHand, history
  <2> QED
    BY <1>5, <1>8, <2>1, PartialWrites DEF Retry
<1>9. CASE SetLastBlock \/ RestoredBlock
  <2>1. /\ UNCHANGED <<queue, sending, saved, unsure>> /\ ~Active' /\ Active
        /\ info' = info \/ info' = digesting
    BY <1>9 DEF SetLastBlock, RestoredBlock, Active, history, node, database
  <2>2. ToCome' = ToCome \ {digesting} /\ \A h \in ToCome' : digesting < h /\ h \in Heights
    BY <1>9, SetLastTurn, BelowToCome
  <2>3. \A h \in ToCome', k \in Heights : h <= k /\ k <= saved => k \in ToCome'
    BY <1>0, <2>2 DEF InTurn, Heights
  <2>4. info' \in Int /\ (info' = info \/ info' <= saved) /\ (info' = info \/ \A h \in ToCome' : info' <= h)
    BY <1>0, <2>1, <2>2, DigestingLowest DEF Heights
  <2> QED
    BY <1>4, <2>1, <2>2, <2>3, <2>4
<1>10. CASE FollowUp
  <2>1. /\ Waiting' = {} /\ ToCome' = ToCome /\ UNCHANGED <<queue, sending, saved, unsure, info>>
    BY <1>10, FollowUpTurn, NoneWaiting
    DEF FollowUp, node, database, history, TInv, BlockAtHand
  <2> QED
    BY <2>1 DEF InTurn
<1>11. CASE FollowedUp
  <2>1. /\ Waiting' = {} /\ ToCome' = {} /\ UNCHANGED <<queue, sending, saved, unsure, info>>
    BY <1>11, FollowedUpTurn DEF FollowedUp, database, history
  <2> QED
    BY <2>1 DEF InTurn
<1>12. CASE FollowUpFails \/ Crash \/ Restored
  <2>1. /\ Waiting' = {} /\ ToCome' = {} /\ ~Active' /\ queue' = <<>> /\ sending' = {}
        /\ saved' = saved /\ unsure' = unsure
    BY <1>12, StoppedInfo, StopTurn DEF Stop
  <2>2. info' = info \/ info' <= saved
    BY <1>0, <1>12, StoppedInfo, DigestingLowest
  <2> QED
    BY <2>1, <2>2 DEF InTurn
<1>13. CASE Start
  <2>1. queue' = <<>> /\ sending' = {} /\ UNCHANGED <<saved, unsure, info>>
    BY <1>13 DEF Start, TInv, BlockAtHand, history
  <2> QED
    BY <1>13, <2>1, StartTurn DEF InTurn
<1>14. ASSUME NEW h \in Heights, NEW restore \in BOOLEAN, CleanByHeight(h, restore)
       PROVE  InTurn'
  <2>1. /\ queue' = <<>> /\ sending' = {} /\ saved' = h - 1 /\ unsure' = IF h < unsure THEN h ELSE unsure
        /\ h \in Int
    BY <1>14 DEF CleanByHeight, TInv, BlockAtHand, Heights
  <2>2. ToCome' = {} /\ ~Active'
    BY <1>14, CleanTurn
  <2>3. unsure' <= saved' + 1
    BY <1>0, <2>1
  <2> QED
    BY <2>1, <2>2, <2>3 DEF InTurn
<1>15. CASE CleanLastBlock
  <2>1. queue' = <<>> /\ sending' = {} /\ info' <= saved'
    BY <1>0, <1>15 DEF CleanLastBlock, TInv, BlockAtHand
  <2> QED
    BY <1>15, <2>1, CleanLastTurn DEF InTurn
<1>16. CASE RestoreBlock
  <2>1. /\ queue' = <<>> /\ sending' = {} /\ UNCHANGED <<info, unsure>>
        /\ Waiting' = {} /\ ToCome' = {saved + 1} /\ saved' = saved + 1
    BY <1>16, RestoreTurn DEF RestoreBlock, TInv, BlockAtHand, database, history
  <2>2. /\ \A h \in ToCome', k \in Heights : h <= k /\ k <= saved' => k \in ToCome'
        /\ \A h \in ToCome' : info' <= h \/ unsure' <= h
        /\ info' <= saved' \/ unsure' <= saved' + 1
    BY <1>0, <2>1 DEF InTurn, Heights
  <2> QED
    BY <2>1, <2>2 DEF InTurn
<1>17. CASE UNCHANGED vars
  <2>1. Waiting' = Waiting /\ ToCome' = ToCome /\ Active' = Active
    BY <1>17, SameVars
  <2> QED
    BY <1>17, <2>1 DEF vars, node, session, database, history, InTurn
<1> QED
  BY <1>1, <1>2, <1>3, <1>6, <1>7, <1>8, <1>9, <1>10, <1>11, <1>12, <1>13, <1>14, <1>15, <1>16,
     <1>17 DEF Next, Write

-----------------------------------------------------------------------------
(* The stored last block and the rows. *)

\* A block stays settled if its rows stay and no older row of a document comes.
LEMMA SettledKept ==
  ASSUME NEW h \in Heights, Settled(h), block'[h] = block[h],
         \A col \in Collections : rows[col][h] > 0 => rows'[col][h] > 0,
         \A r \in docRows' \ docRows : r[2] >= h
  PROVE  Settled(h)'
<1>1. Indexed(h)'
  BY DEF Settled, Indexed, Collections
<1> QED
  BY <1>1 DEF Settled

\* A block whose last write is left is settled.
LEMMA SettledLast ==
  ASSUME TInv, WrittenSoFar, Active, step = "last"
  PROVE  Settled(digesting)
BY DEF WrittenSoFar, Settled, Indexed

LEMMA SettledInit == Init => AllSettled
<1> SUFFICES ASSUME Init PROVE AllSettled
  OBVIOUS
<1>1. Waiting = {} /\ ToCome = {} /\ Done = 0..0
  BY NoneWaiting DEF Init, ToCome, Active, Done
<1>2. /\ \A col \in {"operation", "account", "balance"} : rows[col][0] > 0
      /\ block[0] = NoContent /\ 0 \in Heights
  BY DigestAssumption DEF Init, Collections, Heights
<1>3. Settled(0)
  BY <1>2 DEF Settled, Indexed, NoContent, Init
<1>4. \A h \in Heights : h <= info \/ h \in Done => h = 0
  BY <1>1, DigestAssumption DEF Init, Heights
<1> QED
  BY <1>3, <1>4 DEF AllSettled

LEMMA SettledNext ==
  ASSUME TInv, InTurn, WrittenSoFar, AllSettled, [Next]_vars
  PROVE  AllSettled'
<1>0. /\ TInv' /\ saved \in Int /\ info \in Int /\ unsure \in Int /\ digesting \in Heights
      /\ \A h \in Heights : h \in Int /\ 0 <= h
      /\ info <= saved \/ unsure <= saved + 1
  <2>1. TInv' /\ (info <= saved \/ unsure <= saved + 1)
    BY TNext DEF InTurn
  <2>2. /\ saved \in Heights \cup {NilHeight} /\ info \in Heights \cup {NilHeight}
        /\ unsure \in 0..Never /\ digesting \in Heights
    BY DEF TInv, TypeOK
  <2> QED
    BY <2>1, <2>2, TNext, DigestAssumption DEF InTurn, Heights, NilHeight, Never
<1>1. \A h \in Done : h \in 0..saved /\ h <= saved
  BY <1>0 DEF Done
<1>2. CASE Save
  <2>1. /\ Done' = Done /\ UNCHANGED <<info, unsure, rows, docRows>>
        /\ \A h \in Heights : h <= saved => block'[h] = block[h]
    BY <1>2, SaveTurn DEF Save, database, history
  <2>2. ASSUME NEW h \in Heights, h < unsure, h <= info \/ h \in Done
        PROVE  Settled(h)'
    <3>1. h <= saved
      BY <1>0, <1>1, <2>2
    <3> QED
      BY <2>1, <2>2, <3>1, SettledKept DEF AllSettled
  <2> QED
    BY <2>1, <2>2 DEF AllSettled
<1>3. CASE UNCHANGED <<info, unsure, rows, docRows, block>> /\ Done' \subseteq Done
  BY <1>3, SettledKept DEF AllSettled
<1>4. CASE (\E batch \in sending : Send(batch)) \/ Take \/ FollowUp \/ FollowedUp \/ RestoreBlock \/ UNCHANGED vars
  BY <1>3, <1>4, SendTurn, TakeTurn, FollowUpTurn, FollowedUpTurn, RestoreTurn, SameVars
  DEF Send, Take, FollowUp, FollowedUp, RestoreBlock, vars, node, session, database, history
\* what a step within a block, its end, or a node that stops may do
<1>5. ASSUME UNCHANGED <<unsure, block>>,
             Active \/ docRows' \subseteq docRows,
             \A h \in Heights, col \in Collections : rows[col][h] > 0 => rows'[col][h] > 0,
             \A r \in docRows' \ docRows : r[2] = digesting,
             Active \/ (info' = info /\ Done' = {}),
             \/ info' = info \/ info' = digesting - 1
             \/ step = "last" /\ info' = digesting,
             \A h \in Done' : h \in Done \/ (step = "last" /\ h = digesting)
      PROVE  AllSettled'
  <2>1. ASSUME NEW h \in Heights, h < unsure, h <= info' \/ h \in Done'
        PROVE  Settled(h) /\ \A r \in docRows' \ docRows : r[2] >= h
    <3>1. CASE ~Active
      BY <1>5, <2>1, <3>1 DEF AllSettled
    <3>2. CASE Active
      <4>1. CASE h \in Done
        <5>1. h < digesting
          BY <3>2, <4>1, DigestingToCome, BelowToCome
        <5> QED
          BY <1>0, <1>5, <2>1, <4>1, <5>1 DEF AllSettled
      <4>2. CASE h <= info
        <5>1. h <= digesting
          BY <2>1, <3>2, <4>2, DigestingToCome, BelowToCome
        <5> QED
          BY <1>0, <1>5, <2>1, <4>2, <5>1 DEF AllSettled
      <4>3. CASE step = "last" /\ h = digesting
        BY <1>0, <1>5, <3>2, <4>3, SettledLast
      <4>4. CASE h < digesting
        BY <3>2, <4>1, <4>4, DigestingLowest
      <4> QED
        BY <1>0, <1>5, <2>1, <4>1, <4>2, <4>3, <4>4
    <3> QED
      BY <3>1, <3>2
  <2>2. \A h \in Heights : h < unsure /\ (h <= info' \/ h \in Done') => Settled(h)'
    BY <1>5, <2>1, SettledKept
  <2> QED
    BY <1>5, <2>2 DEF AllSettled
<1>6. ASSUME NEW col \in Collections, Insert(col)
      PROVE  AllSettled'
  <2>1. Active /\ Active' /\ UNCHANGED <<node, digesting, docRows, info, unsure>>
    BY <1>6, NextSteps DEF Insert, Active, Collections, Steps, history
  <2>2. Done' = Done
    BY <2>1, SameTurn
  <2> QED
    BY <1>5, <1>6, <2>1, <2>2, InsertedRows DEF node
<1>7. CASE (\E d \in DocIds : DeleteDocument(d)) \/ ResetLastBlock \/ InsertDocuments
  <2>1. /\ Active /\ Active' /\ UNCHANGED <<node, digesting, rows, unsure>>
        /\ info' = info \/ info' = digesting - 1
        /\ \A r \in docRows' \ docRows : r[2] = digesting
    BY <1>7
    DEF DeleteDocument, ResetLastBlock, InsertDocuments, AfterDocuments, Active, node, history
  <2>2. Done' = Done
    BY <2>1, SameTurn
  <2> QED
    BY <1>5, <2>1, <2>2 DEF node
<1>8. CASE Retry
  <2>1. Active /\ Active' /\ UNCHANGED <<node, digesting, rows, unsure>>
    BY <1>8 DEF Retry, DigestBlock, Active, TInv, BlockAtHand, history
  <2>2. Done' = Done
    BY <2>1, SameTurn
  <2>3. /\ \A r \in docRows' \ docRows : r[2] = digesting
        /\ info' = info \/ (step = "last" /\ info' = digesting)
    BY <1>8, <2>1, PartialWrites DEF Retry
  <2> QED
    BY <1>5, <2>1, <2>2, <2>3 DEF node
<1>9. CASE SetLastBlock \/ RestoredBlock
  <2>1. /\ Active /\ step = "last" /\ UNCHANGED <<block, rows, docRows, unsure>>
        /\ info' = info \/ info' = digesting
    BY <1>9 DEF SetLastBlock, RestoredBlock, Active, node, database, history
  <2>2. Done' = Done \cup {digesting}
    BY <1>9, SetLastTurn
  <2> QED
    BY <1>5, <2>1, <2>2
<1>10. CASE FollowUpFails \/ Crash
  <2>1. /\ Stop /\ Done' = {} /\ UNCHANGED <<rows, block, unsure>>
        /\ \A r \in docRows' \ docRows : Active /\ r[2] = digesting
        /\ info' = info \/ (Active /\ step = "last" /\ info' = digesting)
    BY <1>10, StoppedInfo, StopTurn DEF Stop, FollowUpFails, Crash
  <2> QED
    BY <1>5, <2>1
<1>11. CASE Restored
  <2>1. /\ UNCHANGED <<rows, docRows, block, unsure>> /\ Done' = {}
        /\ info' = info \/ info' = saved
        /\ mode = "restoring" /\ step = "idle"
    BY <1>11, StopTurn DEF Restored, Stop
  <2>2. Done = 0..saved
    BY <2>1 DEF Done, ToCome, Active
  <2>3. \A h \in Heights : h <= info' => h <= info \/ h \in Done
    BY <1>0, <2>1, <2>2
  <2> QED
    BY <2>1, <2>3, SettledKept DEF AllSettled
<1>12. CASE Start
  <2>1. /\ UNCHANGED <<info, unsure, block>> /\ docRows' \subseteq docRows
        /\ \A col \in Collections, h \in Heights : h <= info => rows'[col][h] = rows[col][h]
    <3>1. info + 1 \in Int /\ removeByHeight(info + 1)
      BY <1>0, <1>12 DEF Start
    <3> QED
      BY <1>0, <1>12, <3>1, RemovedRows DEF Start, history, TInv
  <2>2. \A h \in Done' : h <= info
    BY <1>12, StartTurn
  <2>3. ASSUME NEW h \in Heights, h < unsure, h <= info
        PROVE  Settled(h)'
    <3>1. Settled(h)
      BY <2>3 DEF AllSettled
    <3> QED
      BY <2>1, <2>3, <3>1, SettledKept
  <2> QED
    BY <2>1, <2>2, <2>3 DEF AllSettled
<1>13. ASSUME NEW g \in Heights, NEW restore \in BOOLEAN, CleanByHeight(g, restore)
       PROVE  AllSettled'
  <2>1. /\ info' = info /\ unsure' = IF g < unsure THEN g ELSE unsure
        /\ \A h \in Heights : h < g => block'[h] = block[h]
        /\ Done' = {}
    BY <1>13, CleanTurn DEF CleanByHeight, TInv, TypeOK
  <2>2. /\ docRows' \subseteq docRows
        /\ \A col \in Collections, h \in Heights : h < g /\ h <= info => rows'[col][h] = rows[col][h]
    <3>1. (IF g > info THEN info + 1 ELSE g) \in Int /\ removeByHeight(IF g > info THEN info + 1 ELSE g)
      BY <1>0, <1>13 DEF CleanByHeight
    <3> QED
      BY <1>0, <3>1, RemovedRows DEF TInv
  <2>3. ASSUME NEW h \in Heights, h < unsure', h <= info
        PROVE  Settled(h)'
    <3>1. Settled(h) /\ h < g
      BY <1>0, <2>1, <2>3 DEF AllSettled
    <3> QED
      BY <2>1, <2>2, <2>3, <3>1, SettledKept
  <2> QED
    BY <2>1, <2>3 DEF AllSettled
<1>14. CASE CleanLastBlock
  <2>1. /\ UNCHANGED <<rows, docRows, block>> /\ info' = digesting - 1 /\ saved = digesting - 1
        /\ unsure' = IF info < digesting - 1 THEN (IF info < unsure THEN info + 1 ELSE unsure)
                     ELSE IF digesting <= unsure THEN Never ELSE unsure
        /\ Done' \subseteq 0..saved
    BY <1>14, CleanLastTurn DEF CleanLastBlock, TInv, BlockAtHand
  <2>2. ASSUME NEW h \in Heights, h < unsure', h <= info' \/ h \in Done'
        PROVE  Settled(h)
    <3>1. h <= digesting - 1
      BY <1>0, <2>1, <2>2
    <3>2. h <= info /\ h < unsure
      BY <1>0, <2>1, <2>2, <3>1
    <3> QED
      BY <3>2 DEF AllSettled
  <2> QED
    BY <2>1, <2>2, SettledKept DEF AllSettled
<1> QED
  BY <1>2, <1>4, <1>6, <1>7, <1>8, <1>9, <1>10, <1>11, <1>12, <1>13, <1>14 DEF Next, Write

\* What NoGap rests on.
LEMMA SafeInit == Init => GInv
BY TInit, TurnInit, SettledInit DEF GInv, WrittenSoFar, Active, Init

LEMMA SafeNext ==
  ASSUME MaxBatches = 1
  PROVE  GInv /\ [Next]_vars => GInv'
BY TNext, TurnNext, WrittenNext, SettledNext DEF GInv

\* With one batch of blocks at a time, the stored last digested block is never ahead of
\* the rows, wherever the node or a command is stopped and whichever writes fail.
THEOREM StoredNotAhead ==
  ASSUME MaxBatches = 1
  PROVE  Spec => []NoGap
<1>1. GInv => NoGap
  <2> SUFFICES ASSUME GInv, NEW h \in 0..info, h < unsure
               PROVE  Indexed(h)
    BY DEF NoGap
  <2>1. h \in Heights /\ h <= info
    <3>1. info \in Heights \cup {NilHeight}
      BY DEF GInv, TInv, TypeOK
    <3> QED
      BY <3>1, DigestAssumption DEF Heights, NilHeight
  <2> QED
    BY <2>1 DEF GInv, AllSettled, Settled
<1> QED
  BY <1>1, SafeInit, SafeNext, PTL DEF Spec

\* With one batch at a time a digester with nothing left to do has digested every saved
\* block, through any stops, failures, cleans and restores that leave the stored last block
\* reliable: a block is left out, as in the run digest_gap, only with two batches.
THEOREM UpToDateInTurn ==
  ASSUME MaxBatches = 1
  PROVE  Spec => [](unsure = Never => BlocksUpToDate)
<1>1. GInv => (unsure = Never => BlocksUpToDate)
  <2> SUFFICES ASSUME GInv, unsure = Never, UpToDate, NEW h \in 0..saved
               PROVE  Indexed(h)
    BY DEF BlocksUpToDate
  <2>1. h \in Heights /\ h < unsure
    <3>1. saved \in Heights \cup {NilHeight}
      BY DEF GInv, TInv, TypeOK
    <3> QED
      BY <3>1, DigestAssumption DEF Heights, NilHeight, Never
  <2>2. h \in Done
    BY NoneWaiting DEF UpToDate, ToCome, Done, Active
  <2> QED
    BY <2>1, <2>2 DEF GInv, AllSettled, Settled
<1> QED
  BY <1>1, SafeInit, SafeNext, PTL DEF Spec

-----------------------------------------------------------------------------
(* The rows of the documents. *)

\* The numbers of a state.
LEMMA Numbers ==
  ASSUME TInv
  PROVE  /\ saved \in Int /\ info \in Int /\ unsure \in Int /\ lastBlock \in Int
         /\ digesting \in Heights /\ follow \in Nat /\ files \in Int
         /\ -1 <= saved /\ saved <= MaxHeight /\ -1 <= info /\ info <= MaxHeight
         /\ -1 <= lastBlock /\ unsure <= MaxHeight + 1 /\ 0 <= unsure /\ MaxHeight \in Nat
         /\ \A h \in Heights : h \in Int /\ 0 <= h /\ h <= MaxHeight
         /\ \A h \in 0..saved : h \in Heights
<1>1. /\ saved \in Heights \cup {NilHeight} /\ info \in Heights \cup {NilHeight}
      /\ lastBlock \in Heights \cup {NilHeight} /\ files \in Heights
      /\ unsure \in 0..Never /\ digesting \in Heights /\ follow \in 0 .. MaxHeight + 1
  BY DEF TInv, TypeOK
<1> QED
  BY <1>1, DigestAssumption DEF Heights, NilHeight, Never

\* The documents of the rows.
LEMMA RowTypes ==
  ASSUME TInv, NEW r \in docRows
  PROVE  r[1] \in DocIds /\ r[2] \in Heights /\ r[2] \in Int /\ r = <<r[1], r[2]>>
<1>1. r \in DocIds \X Heights
  BY DEF TInv, TypeOK
<1> QED
  BY <1>1, DigestAssumption DEF Heights

\* Documents that the block being digested replaces.
LEMMA ReplacedDocs ==
  ASSUME TInv, Active
  PROVE  /\ block[digesting].docs \subseteq Replacing
         /\ Replacing \subseteq HeldFrom(digesting)
         /\ Replacing \subseteq block[digesting].docs \cup HeldFrom(digesting + 1)
<1>1. /\ digesting \in Heights /\ digesting \in Int /\ digesting <= saved /\ saved \in Int
      /\ mode = "following" => digesting = follow
      /\ block[digesting].docs \subseteq DocIds
      /\ \A h \in Heights : h \in Int
  BY Numbers, ContentTypes DEF TInv, BlockAtHand, TypeOK
<1>2. block[digesting].docs \subseteq HeldFrom(digesting)
  BY <1>1 DEF HeldFrom
<1>3. HeldFrom(digesting) \subseteq block[digesting].docs \cup HeldFrom(digesting + 1)
  BY <1>1 DEF HeldFrom
<1> QED
  BY <1>1, <1>2, <1>3 DEF Replacing

LEMMA RowsOfBlocksNext ==
  ASSUME TInv, InTurn, RowsOfBlocks, [Next]_vars
  PROVE  RowsOfBlocks'
<1>0. TInv' /\ saved \in Int /\ info \in Int /\ \A h \in Heights : h \in Int
  BY TNext, Numbers
<1>1. ASSUME Waiting' \subseteq Waiting, saved' = saved, block' = block,
             \A r \in docRows' \ docRows : Active /\ r[2] = digesting /\ r[1] \in block[digesting].docs
      PROVE  RowsOfBlocks'
  <2>1. Active => digesting <= saved /\ digesting \notin Waiting
    <3>1. Active => \A h \in Waiting : digesting < h
      BY DEF InTurn
    <3>2. digesting \in Int
      BY Numbers DEF Heights
    <3> QED
      BY <3>1, <3>2 DEF TInv, BlockAtHand
  <2> QED
    BY <1>1, <2>1 DEF RowsOfBlocks
<1>2. CASE Save
  <2>1. \A r \in docRows : r[2] \in Heights /\ r[2] <= saved
    BY RowTypes DEF RowsOfBlocks
  <2>2. /\ docRows' = docRows /\ saved < saved' /\ saved' \in Heights
        /\ Waiting' = Waiting \cup (saved + 1 .. saved')
        /\ \A h \in Heights : h <= saved => block'[h] = block[h]
    BY <1>2, SaveTurn DEF Save, database
  <2>3. \A r \in docRows : r[2] \notin saved + 1 .. saved' /\ r[2] <= saved'
    BY <1>0, <2>1, <2>2
  <2> QED
    BY <2>1, <2>2, <2>3 DEF RowsOfBlocks
<1>3. CASE (\E batch \in sending : Send(batch)) \/ Take \/ FollowUp \/ FollowedUp \/ UNCHANGED vars
  BY <1>1, <1>3, SendTurn, TakeTurn, FollowUpTurn, FollowedUpTurn, SameVars
  DEF Send, Take, FollowUp, FollowedUp, vars, node, session, database
<1>4. CASE (\E col \in Collections : Insert(col)) \/ (\E d \in DocIds : DeleteDocument(d))
             \/ ResetLastBlock \/ InsertDocuments
  <2>1. /\ Active /\ Active' /\ UNCHANGED <<node, digesting>>
        /\ \A r \in docRows' \ docRows : r[2] = digesting /\ r[1] \in block[digesting].docs
    BY <1>4, NextSteps
    DEF Insert, DeleteDocument, ResetLastBlock, InsertDocuments, AfterDocuments, Active, Collections,
        Steps
  <2> QED
    BY <1>1, <2>1, SameTurn DEF node
<1>5. CASE Retry
  <2>1. Active /\ Active' /\ UNCHANGED <<node, digesting>>
    BY <1>5 DEF Retry, DigestBlock, Active, TInv, BlockAtHand
  <2> QED
    BY <1>1, <1>5, <2>1, SameTurn, PartialWrites DEF Retry, node
<1>6. CASE SetLastBlock \/ RestoredBlock
  BY <1>1, <1>6, SetLastTurn DEF SetLastBlock, RestoredBlock, node, database
<1>7. CASE FollowUpFails \/ Crash \/ Restored
  BY <1>1, <1>7, StoppedInfo, StopTurn DEF Stop
<1>8. CASE Start
  <2>1. docRows' \subseteq docRows /\ UNCHANGED <<saved, block>>
    <3>1. info + 1 \in Int /\ removeByHeight(info + 1)
      BY <1>0, <1>8 DEF Start
    <3> QED
      BY <1>8, <3>1, RemovedRows DEF Start, TInv
  <2> QED
    BY <1>1, <1>8, <2>1, StartTurn
<1>9. ASSUME NEW g \in Heights, NEW restore \in BOOLEAN, CleanByHeight(g, restore)
      PROVE  RowsOfBlocks'
  <2>1. /\ saved' = g - 1 /\ Waiting' = {}
        /\ \A h \in Heights : h < g => block'[h] = block[h]
    BY <1>9, CleanTurn DEF CleanByHeight, TInv, TypeOK
  <2>2. docRows' \subseteq docRows /\ \A r \in docRows' : r[2] < g
    <3>1. (IF g > info THEN info + 1 ELSE g) \in Int /\ removeByHeight(IF g > info THEN info + 1 ELSE g)
      BY <1>0, <1>9 DEF CleanByHeight
    <3>2. docRows' \subseteq docRows /\ \A r \in docRows' : r[2] < IF g > info THEN info + 1 ELSE g
      BY <3>1, RemovedRows DEF TInv
    <3>3. \A r \in docRows : r[2] \in Int
      BY RowTypes
    <3> QED
      BY <1>0, <3>2, <3>3
  <2>3. \A r \in docRows' : r[2] \in Heights /\ r[2] <= saved'
    <3>1. \A r \in docRows : r[2] \in Heights
      BY RowTypes
    <3> QED
      BY <1>0, <2>1, <2>2, <3>1
  <2> QED
    BY <2>1, <2>2, <2>3 DEF RowsOfBlocks
<1>10. CASE CleanLastBlock
  BY <1>1, <1>10, CleanLastTurn DEF CleanLastBlock
<1>11. CASE RestoreBlock
  <2>1. Waiting' = {} /\ saved' = saved + 1 /\ UNCHANGED <<docRows, block>>
    BY <1>11, RestoreTurn DEF RestoreBlock, database
  <2>2. \A r \in docRows : r[2] \in Int
    BY RowTypes
  <2> QED
    BY <1>0, <2>1, <2>2 DEF RowsOfBlocks
<1> QED
  BY <1>2, <1>3, <1>4, <1>5, <1>6, <1>7, <1>8, <1>9, <1>10, <1>11 DEF Next, Write

\* When the last write of a block is left, its documents and those of the blocks below
\* have rows up to here.
LEMMA KeptAtLast ==
  ASSUME DInv, Active, step = "last",
         NEW d \in DocIds \ (lost \cup HeldFrom(unsure) \cup HeldFrom(digesting + 1)),
         NEW h \in Heights, h <= digesting, d \in block[h].docs
  PROVE  \E r \in docRows : r[1] = d /\ r[2] <= digesting
<1>1. TInv /\ InTurn /\ digesting \in Int /\ h \in Int /\ digesting \in Heights
  BY Numbers DEF DInv, GInv
<1>2. CASE d \in block[digesting].docs
  <2>1. <<d, digesting>> \in docRows
    BY <1>2 DEF DInv, GInv, WrittenSoFar
  <2>2. <<d, digesting>>[1] = d /\ <<d, digesting>>[2] = digesting
    OBVIOUS
  <2> QED
    BY <1>1, <2>1, <2>2
<1>3. CASE d \notin block[digesting].docs
  <2>1. h < digesting /\ h \in Done
    BY <1>1, <1>3, DigestingLowest
  <2>2. d \notin Replacing
    BY <1>1, <1>3, ReplacedDocs
  <2>3. PICK r \in docRows : r[1] = d
    BY <2>1, <2>2 DEF DInv, KeptDone
  <2>4. r[2] \in Heights /\ r[2] \in Int /\ r[2] <= saved /\ d \in block[r[2]].docs
    BY <1>1, <2>3, RowTypes DEF DInv, RowsOfBlocks
  <2>5. r[2] <= digesting
    BY <1>1, <2>4 DEF HeldFrom
  <2> QED
    BY <2>3, <2>5
<1> QED
  BY <1>2, <1>3

\* When a clean stores the last block, the documents of the blocks that are left have rows.
LEMMA KeptAtClean ==
  ASSUME DInv, CleanLastBlock, NEW d \in DocIds \ (lost' \cup HeldFrom(unsure)'),
         NEW h \in Heights, h <= saved, d \in block[h].docs
  PROVE  \E r \in docRows : r[1] = d /\ r[2] <= saved
<1>1. /\ saved = digesting - 1 /\ UNCHANGED <<saved, block, lost>> /\ ~Active /\ TInv
      /\ unsure' = IF info < digesting - 1 THEN (IF info < unsure THEN info + 1 ELSE unsure)
                   ELSE IF digesting <= unsure THEN Never ELSE unsure
  BY DEF CleanLastBlock, DInv, GInv, TInv, BlockAtHand, Active
<1>2. /\ saved \in Int /\ info \in Int /\ unsure \in Int /\ digesting \in Int
      /\ \A k \in Heights : k \in Int
  BY <1>1, Numbers
<1>3. \A k \in Heights : unsure' <= k /\ k <= saved => d \notin block[k].docs
  BY <1>1 DEF HeldFrom
<1>4. /\ d \notin HeldFrom(unsure)
      /\ d \notin HeldFrom(info + 1)
      /\ h <= info
  <2>1. CASE info < digesting - 1
    BY <1>1, <1>2, <1>3, <2>1 DEF HeldFrom
  <2>2. CASE ~(info < digesting - 1)
    BY <1>1, <1>2, <1>3, <2>2 DEF HeldFrom
  <2> QED
    BY <2>1, <2>2
<1>5. PICK r \in docRows : r[1] = d
  BY <1>1, <1>4 DEF DInv, KeptStored
<1>6. r[2] <= saved
  BY <1>5 DEF DInv, RowsOfBlocks
<1> QED
  BY <1>5, <1>6

LEMMA KeptDoneNext ==
  ASSUME DInv, [Next]_vars
  PROVE  KeptDone'
<1>0. /\ TInv /\ TInv' /\ InTurn /\ WrittenSoFar
      /\ saved \in Int /\ info \in Int /\ unsure \in Int /\ follow \in Nat /\ digesting \in Heights
      /\ \A h \in Heights : h \in Int
      /\ \A h \in Done : h \in Heights /\ h <= saved
  <2>1. TInv /\ TInv' /\ InTurn /\ WrittenSoFar
    BY TNext DEF DInv, GInv
  <2>2. \A h \in Done : h \in 0..saved
    BY DEF Done
  <2> QED
    BY <2>1, <2>2, Numbers
<1>1. CASE Done' = {}
  BY <1>1 DEF KeptDone
\* steps that lose nothing
<1>2. ASSUME Done' = Done, lost \subseteq lost' \cup Replacing', Replacing \subseteq Replacing',
             HeldFrom(unsure) \subseteq HeldFrom(unsure)',
             \A h \in Done : block'[h] = block[h],
             \A d \in DocIds \ Replacing :
               (\E r \in docRows : r[1] = d) => \E r \in docRows' : r[1] = d
      PROVE  KeptDone'
  BY <1>2 DEF DInv, KeptDone
<1>3. CASE Save
  <2>1. /\ Done' = Done /\ UNCHANGED <<lost, unsure, docRows, mode, digesting>> /\ Active' = Active
        /\ mode = "up" /\ saved < saved' /\ saved' \in Int
        /\ \A h \in Heights : h <= saved => block'[h] = block[h]
    BY <1>0, <1>3, SaveTurn DEF Save, database, history, session, Active
  <2>2. Active => digesting <= saved
    BY <1>0 DEF TInv, BlockAtHand
  <2>3. Replacing' = Replacing
    BY <1>0, <2>1, <2>2 DEF Replacing
  <2>4. HeldFrom(unsure) \subseteq HeldFrom(unsure)'
    BY <1>0, <2>1 DEF HeldFrom
  <2> QED
    BY <1>0, <1>2, <2>1, <2>3, <2>4
<1>4. CASE (\E batch \in sending : Send(batch)) \/ UNCHANGED vars
  <2>1. /\ Done' = Done /\ UNCHANGED <<lost, unsure, docRows, mode, digesting, block, saved, follow, step>>
    <3>1. CASE \E batch \in sending : Send(batch)
      BY <1>0, <3>1, SendTurn DEF Send, session, database, history
    <3>2. CASE UNCHANGED vars
      BY <3>2, SameVars DEF vars, node, session, database, history
    <3> QED
      BY <1>4, <3>1, <3>2
  <2>2. HeldFrom(unsure)' = HeldFrom(unsure)
    BY <2>1 DEF HeldFrom
  <2>3. Replacing' = Replacing
    BY <2>1 DEF Replacing, HeldFrom, Active
  <2> QED
    BY <1>2, <2>1, <2>2, <2>3
<1>5. CASE Take \/ FollowUp
  <2>1. /\ Done' = Done /\ UNCHANGED <<lost, unsure, docRows, mode, block, saved, follow>> /\ ~Active
    BY <1>0, <1>5, TakeTurn, FollowUpTurn DEF Take, FollowUp, node, database, history, Active
  <2>2. HeldFrom(unsure)' = HeldFrom(unsure)
    BY <2>1 DEF HeldFrom
  <2>3. Replacing \subseteq Replacing'
    BY <2>1 DEF Replacing, HeldFrom
  <2> QED
    BY <1>2, <2>1, <2>2, <2>3
<1>6. CASE RestoreBlock
  <2>1. /\ Done' = Done /\ UNCHANGED <<lost, unsure, docRows, mode, block>> /\ ~Active
        /\ saved' = saved + 1 /\ mode = "restoring"
    BY <1>0, <1>6, RestoreTurn DEF RestoreBlock, database, history, Active
  <2>2. HeldFrom(unsure) \subseteq HeldFrom(unsure)'
    BY <1>0, <2>1 DEF HeldFrom
  <2>3. Replacing \subseteq Replacing'
    BY <2>1 DEF Replacing
  <2> QED
    BY <1>2, <2>1, <2>2, <2>3
\* steps within a block
<1>7. ASSUME Active, Active', UNCHANGED <<node, digesting, unsure>>,
             lost \subseteq lost' \cup block[digesting].docs,
             \A r \in docRows \ docRows' : r[1] \in block[digesting].docs
      PROVE  KeptDone'
  <2>1. Done' = Done
    BY <1>7, SameTurn
  <2>2. HeldFrom(unsure)' = HeldFrom(unsure) /\ Replacing' = Replacing
    BY <1>7 DEF HeldFrom, Replacing, node
  <2>3. block[digesting].docs \subseteq Replacing
    BY <1>0, <1>7, ReplacedDocs
  <2> QED
    BY <1>2, <1>7, <2>1, <2>2, <2>3 DEF node
<1>8. CASE \E col \in Collections : Insert(col)
  BY <1>7, <1>8, NextSteps DEF Insert, Active, Collections, Steps, history
<1>9. ASSUME NEW d \in DocIds, DeleteDocument(d)
      PROVE  KeptDone'
  <2>1. /\ Active /\ Active' /\ UNCHANGED <<node, digesting, unsure, lost>>
        /\ d \in block[digesting].docs
        /\ docRows' = docRows \ OldRows(d)
    BY <1>0, <1>9 DEF DeleteDocument, Active, history, WrittenSoFar
  <2>2. \A r \in docRows \ docRows' : r[1] = d
    BY <2>1 DEF OldRows
  <2> QED
    BY <1>7, <2>1, <2>2
<1>10. CASE ResetLastBlock \/ InsertDocuments
  BY <1>7, <1>10 DEF ResetLastBlock, InsertDocuments, AfterDocuments, Active, history
<1>11. CASE Retry
  <2>1. Active /\ Active' /\ UNCHANGED <<node, digesting, unsure, lost>>
    BY <1>0, <1>11 DEF Retry, DigestBlock, Active, TInv, BlockAtHand, history
  <2> QED
    BY <1>0, <1>7, <1>11, <2>1, PartialWrites DEF Retry
<1>12. CASE SetLastBlock \/ RestoredBlock
  <2>1. /\ Active /\ ~Active' /\ UNCHANGED <<mode, saved, block, docRows, lost, unsure>>
        /\ Done' = Done \cup {digesting} /\ step = "last" /\ digesting <= saved
        /\ mode = "following" => follow = digesting /\ follow' = follow + 1
    BY <1>0, <1>12, SetLastTurn
    DEF SetLastBlock, RestoredBlock, Active, node, database, history, TInv, BlockAtHand
  <2>2. HeldFrom(unsure)' = HeldFrom(unsure)
    BY <2>1 DEF HeldFrom
  <2>3. Replacing \subseteq Replacing' \cup block[digesting].docs
    BY <1>0, <2>1 DEF Replacing, HeldFrom
  <2>4. \A d \in block[digesting].docs : <<d, digesting>> \in docRows
    BY <1>0, <2>1 DEF WrittenSoFar
  <2>5. ASSUME NEW d \in DocIds \ (lost \cup HeldFrom(unsure) \cup Replacing'),
               NEW h \in Done', d \in block[h].docs
        PROVE  \E r \in docRows : r[1] = d
    <3>1. CASE d \in block[digesting].docs
      <4>1. <<d, digesting>> \in docRows /\ <<d, digesting>>[1] = d
        BY <2>4, <3>1
      <4> QED
        BY <4>1
    <3>2. CASE d \notin block[digesting].docs
      BY <2>1, <2>3, <2>5, <3>2 DEF DInv, KeptDone
    <3> QED
      BY <3>1, <3>2
  <2> QED
    BY <2>1, <2>2, <2>5 DEF KeptDone
<1>13. CASE FollowedUp
  <2>1. /\ Done' = Done /\ UNCHANGED <<lost, unsure, docRows, block, saved>>
        /\ mode = "following" /\ follow > saved
    BY <1>0, <1>13, FollowedUpTurn DEF FollowedUp, database, history
  <2>2. HeldFrom(unsure)' = HeldFrom(unsure)
    BY <2>1 DEF HeldFrom
  <2>3. Replacing = {}
    BY <1>0, <2>1 DEF Replacing, HeldFrom
  <2> QED
    BY <1>2, <2>1, <2>2, <2>3
<1>14. CASE FollowUpFails \/ Crash \/ Restored
  BY <1>0, <1>1, <1>14, StoppedInfo, StopTurn
<1>15. CASE Start
  <2>1. /\ UNCHANGED <<lost, unsure, block, saved>> /\ ~Active /\ ~Active'
        /\ follow' = FollowFrom(info) /\ mode' = IF saved > info THEN "following" ELSE "up"
        /\ \A h \in Done' : h \in Heights /\ h <= saved /\ h <= info
    BY <1>0, <1>15, StartTurn DEF Start, history, TInv, BlockAtHand
  <2>2. \A r \in docRows : r[2] <= info => r \in docRows'
    <3>1. info + 1 \in Int /\ removeByHeight(info + 1)
      BY <1>0, <1>15 DEF Start
    <3>2. \A r \in docRows : r[2] < info + 1 => r \in docRows'
      BY <1>0, <3>1, RemovedRows DEF TInv
    <3>3. \A r \in docRows : r[2] \in Int
      BY <1>0, RowTypes
    <3> QED
      BY <1>0, <3>2, <3>3
  <2>3. HeldFrom(unsure)' = HeldFrom(unsure)
    BY <2>1 DEF HeldFrom
  <2>4. ASSUME NEW d \in DocIds \ (lost \cup HeldFrom(unsure) \cup Replacing'),
               NEW h \in Done', d \in block[h].docs
        PROVE  \E r \in docRows' : r[1] = d
    <3>1. info >= 0 /\ h <= info /\ h <= saved /\ h \in Heights
      BY <1>0, <2>1, Numbers
    <3>2. d \notin HeldFrom(info + 1)
      <4>1. CASE saved > info
        <5>1. follow' = info /\ mode' = "following"
          BY <2>1, <3>1, <4>1 DEF FollowFrom, NilHeight
        <5> QED
          BY <1>0, <2>1, <2>4, <5>1 DEF Replacing, HeldFrom
      <4>2. CASE ~(saved > info)
        BY <1>0, <4>2 DEF HeldFrom
      <4> QED
        BY <4>1, <4>2
    <3>3. PICK r \in docRows : r[1] = d /\ r[2] <= info
      BY <2>1, <2>4, <3>1, <3>2 DEF DInv, KeptStored
    <3> QED
      BY <2>2, <3>3
  <2> QED
    BY <2>1, <2>3, <2>4 DEF KeptDone
<1>16. ASSUME NEW g \in Heights, NEW restore \in BOOLEAN, CleanByHeight(g, restore)
       PROVE  KeptDone'
  BY <1>0, <1>1, <1>16, CleanTurn
<1>17. CASE CleanLastBlock
  <2>1. UNCHANGED <<docRows, block, saved>> /\ \A h \in Done' : h \in 0..saved
    BY <1>0, <1>17, CleanLastTurn DEF CleanLastBlock
  <2>2. ASSUME NEW d \in DocIds \ (lost' \cup HeldFrom(unsure)'), NEW h \in Done', d \in block[h].docs
        PROVE  \E r \in docRows : r[1] = d
    <3>1. h \in Heights /\ h <= saved
      BY <1>0, <2>1, Numbers
    <3> QED
      BY <1>17, <2>2, <3>1, KeptAtClean
  <2> QED
    BY <2>1, <2>2 DEF KeptDone
<1> QED
  BY <1>3, <1>4, <1>5, <1>6, <1>8, <1>9, <1>10, <1>11, <1>12, <1>13, <1>14, <1>15, <1>16, <1>17
  DEF Next, Write

LEMMA KeptStoredNext ==
  ASSUME DInv, [Next]_vars
  PROVE  KeptStored'
<1>0. /\ TInv /\ TInv' /\ InTurn /\ WrittenSoFar
      /\ saved \in Int /\ info \in Int /\ unsure \in Int /\ digesting \in Heights /\ digesting \in Int
      /\ \A h \in Heights : h \in Int
      /\ info <= saved \/ unsure <= saved + 1
  <2>1. TInv /\ TInv' /\ InTurn /\ WrittenSoFar
    BY TNext DEF DInv, GInv
  <2> QED
    BY <2>1, Numbers DEF InTurn
\* the documents of a block that is not to be digested again
<1>1. Active /\ step = "last" => Abandoned = {}
  <2> SUFFICES ASSUME Active, step = "last", NEW d \in Abandoned PROVE FALSE
    OBVIOUS
  <2>1. d \in block[digesting].docs /\ \A h \in Heights : <<d, h>> \notin docRows
    BY DEF Abandoned
  <2>2. <<d, digesting>> \in docRows
    BY <1>0, <2>1 DEF WrittenSoFar
  <2> QED
    BY <1>0, <2>1, <2>2
\* steps that keep the stored last block and the rows
<1>2. ASSUME UNCHANGED info,
             Active /\ ~Active' => Abandoned \subseteq lost',
             lost \subseteq lost', saved <= saved', saved' \in Int,
             HeldFrom(unsure) \subseteq HeldFrom(unsure)',
             HeldFrom(info + 1) \subseteq HeldFrom(info + 1)',
             \A h \in Heights : h <= saved => block'[h] = block[h],
             \A h \in Heights : saved < h /\ h <= info /\ h <= saved' => unsure' <= h,
             \A d \in DocIds : Active /\ Active' /\ d \in Abandoned =>
               d \in Abandoned' \/ \E r \in docRows' : r[1] = d /\ r[2] <= info,
             \A r \in docRows : r[2] <= info => r \in docRows'
      PROVE  KeptStored'
  <2>1. ASSUME NEW d \in DocIds \ (lost' \cup HeldFrom(unsure)' \cup HeldFrom(info + 1)'),
               NEW h \in Heights, h <= saved', h <= info, d \in block'[h].docs
        PROVE  (Active' /\ d \in Abandoned') \/ \E r \in docRows' : r[1] = d /\ r[2] <= info
    <3>1. h <= saved
      <4>1. CASE saved < h
        BY <1>2, <2>1, <4>1 DEF HeldFrom
      <4> QED
        BY <1>0, <4>1
    <3>2. (Active /\ d \in Abandoned) \/ \E r \in docRows : r[1] = d /\ r[2] <= info
      BY <1>2, <2>1, <3>1 DEF DInv, KeptStored
    <3> QED
      BY <1>2, <2>1, <3>2
  <2> QED
    BY <1>2, <2>1 DEF KeptStored
<1>3. CASE Save
  <2>1. /\ UNCHANGED <<lost, unsure, docRows, digesting, info, step>> /\ Active' = Active
        /\ saved < saved' /\ saved' \in Int
        /\ \A h \in Heights : h <= saved => block'[h] = block[h]
    BY <1>0, <1>3, SaveTurn DEF Save, database, history, session, Active
  <2>2. Active => digesting <= saved
    BY <1>0 DEF TInv, BlockAtHand
  <2>3. Active => Abandoned' = Abandoned
    BY <1>0, <2>1, <2>2 DEF Abandoned
  <2>4. HeldFrom(unsure) \subseteq HeldFrom(unsure)' /\ HeldFrom(info + 1) \subseteq HeldFrom(info + 1)'
    BY <1>0, <2>1 DEF HeldFrom
  <2>5. \A h \in Heights : saved < h /\ h <= info => unsure <= h
    BY <1>0
  <2> QED
    BY <1>0, <1>2, <2>1, <2>3, <2>4, <2>5
<1>4. ASSUME UNCHANGED <<lost, unsure, docRows, info, block, saved>>,
             Active => (Active' /\ Abandoned' = Abandoned) \/ step = "last"
      PROVE  KeptStored'
  <2>1. HeldFrom(unsure)' = HeldFrom(unsure) /\ HeldFrom(info + 1)' = HeldFrom(info + 1)
    BY <1>4 DEF HeldFrom
  <2> QED
    BY <1>0, <1>1, <1>2, <1>4, <2>1
<1>5. CASE (\E batch \in sending : Send(batch)) \/ UNCHANGED vars
  <2>1. UNCHANGED <<lost, unsure, docRows, info, block, saved, step, digesting>>
    BY <1>5 DEF Send, vars, node, session, database, history
  <2>2. Abandoned' = Abandoned /\ Active' = Active
    BY <2>1 DEF Abandoned, Active
  <2> QED
    BY <1>4, <2>1, <2>2
<1>6. CASE Take \/ FollowUp \/ FollowedUp
  <2>1. UNCHANGED <<lost, unsure, docRows, info, block, saved>> /\ ~Active
    BY <1>6 DEF Take, FollowUp, FollowedUp, node, database, history, Active
  <2> QED
    BY <1>4, <2>1
<1>7. CASE RestoreBlock
  <2>1. /\ UNCHANGED <<lost, unsure, docRows, info, block>> /\ ~Active /\ saved' = saved + 1
    BY <1>7 DEF RestoreBlock, database, history, Active
  <2>2. HeldFrom(unsure) \subseteq HeldFrom(unsure)' /\ HeldFrom(info + 1) \subseteq HeldFrom(info + 1)'
    BY <1>0, <2>1 DEF HeldFrom
  <2>3. \A h \in Heights : saved < h /\ h <= info => unsure <= h
    BY <1>0
  <2> QED
    BY <1>0, <1>2, <2>1, <2>2, <2>3
<1>8. CASE \E col \in Collections : Insert(col)
  <2>1. UNCHANGED <<lost, unsure, docRows, info, block, saved, digesting>> /\ Active /\ Active'
    BY <1>8, NextSteps DEF Insert, node, history, Active, Collections, Steps
  <2>2. Abandoned' = Abandoned
    BY <2>1 DEF Abandoned, Active
  <2> QED
    BY <1>4, <2>1, <2>2
<1>9. ASSUME NEW e \in DocIds, DeleteDocument(e)
      PROVE  KeptStored'
  <2>1. /\ Active /\ Active' /\ UNCHANGED <<lost, unsure, info, block, saved, digesting>>
        /\ e \in block[digesting].docs /\ digesting <= saved
        /\ docRows' = docRows \ OldRows(e)
    BY <1>0, <1>9 DEF DeleteDocument, Active, node, history, WrittenSoFar, TInv, BlockAtHand
  <2>2. HeldFrom(unsure)' = HeldFrom(unsure) /\ HeldFrom(info + 1)' = HeldFrom(info + 1)
    BY <2>1 DEF HeldFrom
  <2>3. Abandoned \subseteq Abandoned'
    BY <2>1 DEF Abandoned, Active
  <2>4. ASSUME NEW d \in DocIds \ (lost \cup HeldFrom(unsure) \cup HeldFrom(info + 1)),
               NEW h \in Heights, h <= saved, h <= info, d \in block[h].docs
        PROVE  d \in Abandoned' \/ \E r \in docRows' : r[1] = d /\ r[2] <= info
    <3>1. d \in Abandoned \/ \E r \in docRows : r[1] = d /\ r[2] <= info
      BY <2>4 DEF DInv, KeptStored
    <3>2. CASE d # e
      <4>1. \A r \in docRows : r[1] = d => r \in docRows'
        BY <2>1, <3>2 DEF OldRows
      <4> QED
        BY <2>3, <3>1, <4>1
    <3>3. CASE d = e
      <4>1. digesting <= info
        BY <1>0, <2>1, <2>4, <3>3 DEF HeldFrom
      <4>2. CASE \A k \in Heights : <<d, k>> \notin docRows'
        BY <1>0, <2>1, <3>3, <4>1, <4>2 DEF Abandoned, Active
      <4>3. CASE \E k \in Heights : <<d, k>> \in docRows'
        <5>1. PICK k \in Heights : <<d, k>> \in docRows'
          BY <4>3
        <5>2. <<d, k>> \in docRows /\ <<d, k>>[1] = d /\ <<d, k>>[2] = k
          BY <2>1, <5>1
        <5>3. k <= saved /\ d \in block[k].docs
          BY <5>2 DEF DInv, RowsOfBlocks
        <5>4. k <= info
          BY <1>0, <2>4, <5>3 DEF HeldFrom
        <5> QED
          BY <5>1, <5>2, <5>4
      <4> QED
        BY <4>2, <4>3
    <3> QED
      BY <3>2, <3>3
  <2> QED
    BY <2>1, <2>2, <2>4 DEF KeptStored
<1>10. CASE ResetLastBlock
  <2>1. /\ Active /\ UNCHANGED <<lost, unsure, docRows, block, saved, digesting>> /\ info' = digesting - 1
    BY <1>10 DEF ResetLastBlock, Active, node, history
  <2>2. HeldFrom(unsure)' = HeldFrom(unsure) /\ HeldFrom(info + 1)' = HeldFrom(digesting)
    <3>1. info' + 1 = digesting
      BY <1>0, <2>1
    <3> QED
      BY <2>1, <3>1 DEF HeldFrom
  <2>3. ASSUME NEW d \in DocIds \ (lost \cup HeldFrom(unsure) \cup HeldFrom(digesting)),
               NEW h \in Heights, h <= digesting - 1, d \in block[h].docs
        PROVE  \E r \in docRows : r[1] = d /\ r[2] <= digesting - 1
    <3>1. h \in Done
      BY <1>0, <2>1, <2>3, DigestingLowest
    <3>2. d \notin Replacing
      BY <1>0, <2>1, <2>3, ReplacedDocs
    <3>3. PICK r \in docRows : r[1] = d
      BY <2>3, <3>1, <3>2 DEF DInv, KeptDone
    <3>4. r[2] \in Heights /\ r[2] <= saved /\ d \in block[r[2]].docs
      BY <1>0, <3>3, RowTypes DEF DInv, RowsOfBlocks
    <3>5. r[2] < digesting /\ r[2] \in Int
      <4>1. ~(digesting <= r[2])
        BY <2>3, <3>4 DEF HeldFrom
      <4>2. r[2] \in Int
        BY <1>0, <3>4
      <4> QED
        BY <1>0, <4>1, <4>2
    <3>6. r[2] <= digesting - 1
      BY <1>0, <3>5
    <3> QED
      BY <3>3, <3>6
  <2> QED
    BY <2>1, <2>2, <2>3 DEF KeptStored
<1>11. CASE InsertDocuments
  <2>1. /\ Active /\ UNCHANGED <<info, unsure, block, saved, digesting>> /\ digesting <= saved
        /\ lost' = lost \ block[digesting].docs /\ docRows \subseteq docRows'
        /\ \A d \in block[digesting].docs : <<d, digesting>> \in docRows'
    BY <1>0, <1>11 DEF InsertDocuments, Active, node, TInv, BlockAtHand
  <2>2. HeldFrom(unsure)' = HeldFrom(unsure) /\ HeldFrom(info + 1)' = HeldFrom(info + 1)
    BY <2>1 DEF HeldFrom
  <2>3. ASSUME NEW d \in DocIds \ (lost' \cup HeldFrom(unsure) \cup HeldFrom(info + 1)),
               NEW h \in Heights, h <= saved, h <= info, d \in block[h].docs
        PROVE  \E r \in docRows' : r[1] = d /\ r[2] <= info
    <3>1. CASE d \in block[digesting].docs
      <4>1. digesting <= info
        BY <1>0, <2>1, <2>3, <3>1 DEF HeldFrom
      <4>2. <<d, digesting>> \in docRows' /\ <<d, digesting>>[1] = d /\ <<d, digesting>>[2] = digesting
        BY <2>1, <3>1
      <4> QED
        BY <4>1, <4>2
    <3>2. CASE d \notin block[digesting].docs
      <4>1. d \notin Abandoned /\ d \notin lost
        BY <2>1, <2>3, <3>2 DEF Abandoned
      <4> QED
        BY <2>1, <2>3, <4>1 DEF DInv, KeptStored
    <3> QED
      BY <3>1, <3>2
  <2> QED
    BY <2>1, <2>2, <2>3 DEF KeptStored
\* the last write of a block is done
<1>12. ASSUME Active, step = "last", info' = digesting,
              UNCHANGED <<unsure, block, saved, docRows>>, lost \subseteq lost'
       PROVE  KeptStored'
  <2>1. HeldFrom(unsure)' = HeldFrom(unsure) /\ HeldFrom(info + 1)' = HeldFrom(digesting + 1)
    BY <1>12 DEF HeldFrom
  <2>2. ASSUME NEW d \in DocIds \ (lost' \cup HeldFrom(unsure) \cup HeldFrom(digesting + 1)),
               NEW h \in Heights, h <= digesting, d \in block[h].docs
        PROVE  \E r \in docRows : r[1] = d /\ r[2] <= digesting
    BY <1>12, <2>2, KeptAtLast
  <2> QED
    BY <1>12, <2>1, <2>2 DEF KeptStored
<1>13. CASE Retry
  <2>1. Active /\ Active' /\ UNCHANGED <<unsure, lost, block, saved, digesting>> /\ step' = "operation"
    BY <1>0, <1>13 DEF Retry, DigestBlock, Active, TInv, BlockAtHand, history, node
  <2>2. /\ docRows \subseteq docRows' /\ docRows' \subseteq DocIds \X Heights
        /\ \A r \in docRows' \ docRows : r[2] = digesting
        /\ info' = info \/ (step = "last" /\ docRows' = docRows /\ info' = digesting)
    BY <1>0, <1>13, <2>1, PartialWrites DEF Retry
  <2>3. CASE info' = info
    <3>1. HeldFrom(unsure)' = HeldFrom(unsure) /\ HeldFrom(info + 1)' = HeldFrom(info + 1)
      BY <2>1, <2>3 DEF HeldFrom
    <3>2. ASSUME NEW d \in DocIds \ (lost \cup HeldFrom(unsure) \cup HeldFrom(info + 1)),
                 NEW h \in Heights, h <= saved, h <= info, d \in block[h].docs
          PROVE  d \in Abandoned' \/ \E r \in docRows' : r[1] = d /\ r[2] <= info
      <4>1. d \in Abandoned \/ \E r \in docRows : r[1] = d /\ r[2] <= info
        BY <3>2 DEF DInv, KeptStored
      <4>2. CASE d \in Abandoned /\ \E k \in Heights : <<d, k>> \in docRows'
        <5>1. PICK k \in Heights : <<d, k>> \in docRows'
          BY <4>2
        <5>2. <<d, k>> \notin docRows /\ digesting <= info
          BY <1>0, <4>2 DEF Abandoned
        <5>3. <<d, k>>[1] = d /\ <<d, k>>[2] = digesting
          BY <2>2, <5>1, <5>2
        <5> QED
          BY <5>1, <5>2, <5>3
      <4>3. CASE d \in Abandoned /\ \A k \in Heights : <<d, k>> \notin docRows'
        BY <2>1, <2>3, <4>3 DEF Abandoned
      <4> QED
        BY <2>2, <4>1, <4>2, <4>3
    <3> QED
      BY <2>1, <2>3, <3>1, <3>2 DEF KeptStored
  <2>4. CASE step = "last" /\ docRows' = docRows /\ info' = digesting
    BY <1>12, <2>1, <2>4
  <2> QED
    BY <2>2, <2>3, <2>4
<1>14. CASE SetLastBlock \/ RestoredBlock
  <2>1. /\ Active /\ ~Active' /\ step = "last" /\ UNCHANGED <<lost, unsure, docRows, block, saved>>
        /\ info' = info \/ info' = digesting
    BY <1>14 DEF SetLastBlock, RestoredBlock, Active, node, database, history
  <2> QED
    BY <1>4, <1>12, <2>1
<1>15. CASE FollowUpFails \/ Crash
  <2>1. /\ ~Active' /\ UNCHANGED <<unsure, block, saved>> /\ lost' = lost \cup Abandoned
        /\ docRows \subseteq docRows'
        /\ \/ info' = info
           \/ Active /\ step = "last" /\ info' = digesting /\ docRows' = docRows
    <3>1. Stop /\ ~Active' /\ docRows \subseteq docRows'
      BY <1>0, <1>15, StoppedInfo, StopTurn
    <3>2. info' = info \/ (Active /\ step = "last" /\ info' = digesting /\ docRows' = docRows)
      <4>1. CASE FollowUpFails /\ Active
        BY <1>0, <4>1, PartialWrites DEF FollowUpFails
      <4>2. CASE FollowUpFails /\ ~Active
        BY <4>2 DEF FollowUpFails, Active, PartialWrite
      <4>3. CASE Crash
        BY <4>3 DEF Crash
      <4> QED
        BY <1>15, <4>1, <4>2, <4>3
    <3> QED
      BY <3>1, <3>2 DEF Stop
  <2>2. CASE info' = info
    <3>1. HeldFrom(unsure)' = HeldFrom(unsure) /\ HeldFrom(info + 1)' = HeldFrom(info + 1)
      BY <2>1, <2>2 DEF HeldFrom
    <3> QED
      BY <1>0, <1>2, <2>1, <2>2, <3>1
  <2>3. CASE Active /\ step = "last" /\ info' = digesting /\ docRows' = docRows
    BY <1>12, <2>1, <2>3
  <2> QED
    BY <2>1, <2>2, <2>3
<1>16. CASE Restored
  <2>1. /\ ~Active /\ ~Active' /\ UNCHANGED <<unsure, block, saved, docRows>> /\ lost \subseteq lost'
        /\ info' = info \/ info' = saved
        /\ mode = "restoring" /\ step = "idle"
    BY <1>16, StopTurn DEF Restored, Stop, Active
  <2>2. CASE info' = info
    <3>1. HeldFrom(unsure)' = HeldFrom(unsure) /\ HeldFrom(info + 1)' = HeldFrom(info + 1)
      BY <2>1, <2>2 DEF HeldFrom
    <3> QED
      BY <1>0, <1>2, <2>1, <2>2, <3>1
  <2>3. CASE info' = saved
    <3>1. Done = 0..saved /\ Replacing = {}
      BY <2>1 DEF Done, ToCome, Replacing, Active
    <3>2. HeldFrom(unsure)' = HeldFrom(unsure)
      BY <2>1 DEF HeldFrom
    <3>3. ASSUME NEW d \in DocIds \ (lost' \cup HeldFrom(unsure)),
                 NEW h \in Heights, h <= saved, d \in block[h].docs
          PROVE  \E r \in docRows : r[1] = d /\ r[2] <= saved
      <4>1. h \in Done
        BY <1>0, <3>1, <3>3, Numbers
      <4>2. PICK r \in docRows : r[1] = d
        BY <2>1, <3>1, <3>3, <4>1 DEF DInv, KeptDone
      <4> QED
        BY <4>2 DEF DInv, RowsOfBlocks
    <3> QED
      BY <2>1, <2>3, <3>2, <3>3 DEF KeptStored
  <2> QED
    BY <2>1, <2>2, <2>3
<1>17. CASE Start
  <2>1. UNCHANGED <<lost, unsure, block, saved, info>> /\ ~Active /\ ~Active'
    BY <1>0, <1>17, StartTurn DEF Start, history, Active, TInv, BlockAtHand
  <2>2. \A r \in docRows : r[2] <= info => r \in docRows'
    <3>1. info + 1 \in Int /\ removeByHeight(info + 1)
      BY <1>0, <1>17 DEF Start
    <3>2. \A r \in docRows : r[2] < info + 1 => r \in docRows'
      BY <1>0, <3>1, RemovedRows DEF TInv
    <3>3. \A r \in docRows : r[2] \in Int
      BY <1>0, RowTypes
    <3> QED
      BY <1>0, <3>2, <3>3
  <2>3. HeldFrom(unsure)' = HeldFrom(unsure) /\ HeldFrom(info + 1)' = HeldFrom(info + 1)
    BY <2>1 DEF HeldFrom
  <2> QED
    BY <1>0, <1>2, <2>1, <2>2, <2>3
<1>18. ASSUME NEW g \in Heights, NEW restore \in BOOLEAN, CleanByHeight(g, restore)
       PROVE  KeptStored'
  <2>1. /\ saved' = g - 1 /\ UNCHANGED info /\ unsure' = IF g < unsure THEN g ELSE unsure
        /\ \A h \in Heights : h < g => block'[h] = block[h]
        /\ lost' = lost \cup UNION {block[k].docs : k \in g..saved}
        /\ ~Active /\ g <= saved
    BY <1>0, <1>18 DEF CleanByHeight, TInv, BlockAtHand, TypeOK
  <2>2. \A r \in docRows : r[2] < g /\ r[2] <= info => r \in docRows'
    <3>1. (IF g > info THEN info + 1 ELSE g) \in Int /\ removeByHeight(IF g > info THEN info + 1 ELSE g)
      BY <1>0, <1>18 DEF CleanByHeight
    <3>2. \A r \in docRows : r[2] < (IF g > info THEN info + 1 ELSE g) => r \in docRows'
      BY <1>0, <3>1, RemovedRows DEF TInv
    <3>3. \A r \in docRows : r[2] \in Int
      BY <1>0, RowTypes
    <3> QED
      BY <1>0, <3>2, <3>3
  <2>3. ASSUME NEW d \in DocIds \ (lost' \cup HeldFrom(unsure)' \cup HeldFrom(info + 1)'),
               NEW h \in Heights, h <= saved', h <= info, d \in block'[h].docs
        PROVE  \E r \in docRows' : r[1] = d /\ r[2] <= info
    <3>0. g \in Int /\ h \in Int /\ h < g
      BY <1>0, <2>1, <2>3
    <3>1. \A k \in Heights : g <= k /\ k <= saved => d \notin block[k].docs
      BY <1>0, <2>1, <2>3
    <3>2. \A k \in Heights : k < g => /\ unsure' <= k => d \notin block[k].docs
                                      /\ info + 1 <= k => d \notin block[k].docs
      BY <1>0, <2>1, <2>3 DEF HeldFrom
    <3>3. d \notin HeldFrom(unsure) /\ d \notin HeldFrom(info + 1)
      <4>1. \A k \in Heights : k \in Int /\ (k < g \/ g <= k)
        BY <1>0, <3>0
      <4>2. \A k \in Heights : unsure <= k => unsure' <= k
        BY <1>0, <2>1, <3>0
      <4> QED
        BY <3>1, <3>2, <4>1, <4>2 DEF HeldFrom
    <3>4. h <= saved /\ d \in block[h].docs /\ d \in DocIds \ lost
      BY <1>0, <2>1, <2>3, <3>0
    <3>5. PICK r \in docRows : r[1] = d /\ r[2] <= info
      BY <2>1, <2>3, <3>3, <3>4 DEF DInv, KeptStored
    <3>6. r[2] \in Heights /\ r[2] <= saved /\ d \in block[r[2]].docs
      BY <1>0, <3>5, RowTypes DEF DInv, RowsOfBlocks
    <3>7. r[2] < g
      <4>1. ~(g <= r[2])
        BY <3>1, <3>6
      <4>2. r[2] \in Int
        BY <1>0, <3>6
      <4> QED
        BY <3>0, <4>1, <4>2
    <3> QED
      BY <2>2, <3>5, <3>7
  <2> QED
    BY <2>1, <2>3 DEF KeptStored
<1>19. CASE CleanLastBlock
  <2>1. UNCHANGED <<docRows, block, saved>> /\ info' = saved
    BY <1>0, <1>19 DEF CleanLastBlock, TInv, BlockAtHand
  <2>2. ASSUME NEW d \in DocIds \ (lost' \cup HeldFrom(unsure)'), NEW h \in Heights, h <= saved,
               d \in block[h].docs
        PROVE  \E r \in docRows : r[1] = d /\ r[2] <= saved
    BY <1>19, <2>2, KeptAtClean
  <2> QED
    BY <2>1, <2>2 DEF KeptStored
<1> QED
  BY <1>3, <1>5, <1>6, <1>7, <1>8, <1>9, <1>10, <1>11, <1>13, <1>14, <1>15, <1>16, <1>17, <1>18,
     <1>19 DEF Next, Write

LEMMA InMemoryNext ==
  ASSUME DInv, [Next]_vars
  PROVE  InMemory'
<1> SUFFICES ASSUME unsure' = Never
             PROVE  /\ mode' = "up" => /\ lastBlock' <= saved'
                                      /\ \A h \in 0..saved' : h > lastBlock' <=> h \in ToCome'
                    /\ mode' = "following" => lastBlock' <= saved' /\ follow' <= lastBlock' + 1
  BY DEF InMemory, Never
<1>0. /\ TInv /\ InTurn
      /\ saved \in Int /\ info \in Int /\ lastBlock \in Int /\ follow \in Int /\ digesting \in Int
      /\ -1 <= saved /\ saved <= MaxHeight /\ -1 <= info /\ info <= MaxHeight /\ MaxHeight \in Int
  <2>1. TInv /\ InTurn
    BY DEF DInv, GInv
  <2> QED
    BY <2>1, Numbers
<1>1. CASE Save
  <2>1. /\ mode = "up" /\ mode' = "up" /\ UNCHANGED <<unsure, lastBlock>>
        /\ saved < saved' /\ saved' \in Int /\ ToCome' = ToCome \cup (saved + 1 .. saved')
        /\ \A h \in 0..saved' : h \in Int /\ (h \in 0..saved <=> h \notin saved + 1 .. saved')
    BY <1>0, <1>1, SaveTurn DEF Save, database, history, Heights
  <2>2. lastBlock <= saved /\ \A h \in 0..saved : h > lastBlock <=> h \in ToCome
    BY <2>1 DEF DInv, InMemory
  <2>3. lastBlock <= saved' /\ \A h \in saved + 1 .. saved' : h > lastBlock
    BY <1>0, <2>1, <2>2
  <2> QED
    BY <2>1, <2>2, <2>3
<1>2. CASE UNCHANGED <<mode, saved, unsure, lastBlock, follow>> /\ ToCome' = ToCome
  BY <1>2 DEF DInv, InMemory
<1>3. CASE (\E batch \in sending : Send(batch)) \/ Take \/ FollowUp
  BY <1>0, <1>2, <1>3, SendTurn, TakeTurn, FollowUpTurn
  DEF Send, Take, FollowUp, node, session, database, history
<1>4. CASE UNCHANGED vars
  BY <1>2, <1>4, SameVars DEF vars, node, database, history
<1>5. CASE (\E col \in Collections : Insert(col)) \/ (\E d \in DocIds : DeleteDocument(d))
             \/ ResetLastBlock \/ InsertDocuments
  <2>1. Active /\ Active' /\ UNCHANGED <<node, digesting, unsure, lastBlock>>
    BY <1>5, NextSteps
    DEF Insert, DeleteDocument, ResetLastBlock, InsertDocuments, AfterDocuments, Active, Collections,
        Steps, history
  <2> QED
    BY <1>2, <2>1, SameTurn DEF node
<1>6. CASE Retry
  <2>1. Active /\ Active' /\ UNCHANGED <<node, digesting, unsure, lastBlock>>
    BY <1>0, <1>6 DEF Retry, DigestBlock, Active, TInv, BlockAtHand, history
  <2> QED
    BY <1>2, <2>1, SameTurn DEF node
<1>7. CASE SetLastBlock
  <2>1. /\ UNCHANGED <<mode, saved, unsure>> /\ Active /\ digesting <= saved
        /\ lastBlock' = IF digesting > lastBlock THEN digesting ELSE lastBlock
        /\ mode = "following" => follow = digesting /\ follow' = follow + 1
    BY <1>0, <1>7 DEF SetLastBlock, Active, history, TInv, BlockAtHand
  <2>2. CASE mode = "up"
    <3>1. /\ ToCome' = ToCome \ {digesting} /\ \A h \in ToCome' : digesting < h
          /\ digesting \in ToCome /\ digesting \in 0..saved
      BY <1>0, <1>7, <2>1, SetLastTurn, DigestingToCome DEF Heights
    <3>2. lastBlock <= saved /\ \A h \in 0..saved : h > lastBlock <=> h \in ToCome
      BY <2>1, <2>2 DEF DInv, InMemory
    <3>3. lastBlock' = digesting /\ digesting > lastBlock
      BY <2>1, <3>1, <3>2
    <3>4. \A h \in 0..saved : h > digesting <=> h \in ToCome'
      BY <1>0, <3>1, <3>2, <3>3
    <3> QED
      BY <2>1, <2>2, <3>3, <3>4
  <2>3. CASE mode = "following"
    BY <1>0, <2>1, <2>3 DEF DInv, InMemory
  <2> QED
    BY <2>1, <2>2, <2>3
<1>8. CASE FollowedUp
  <2>1. /\ mode = "following" /\ mode' = "up" /\ UNCHANGED <<saved, unsure, lastBlock>>
        /\ follow > saved /\ ToCome' = {}
    BY <1>0, <1>8, FollowedUpTurn DEF FollowedUp, database, history
  <2>2. lastBlock <= saved /\ follow <= lastBlock + 1
    BY <2>1 DEF DInv, InMemory
  <2> QED
    BY <1>0, <2>1, <2>2
<1>9. CASE FollowUpFails \/ Crash \/ Restored
  BY <1>0, <1>9, StoppedInfo DEF Stop
<1>10. CASE Start
  <2>1. /\ lastBlock' = info /\ UNCHANGED <<saved, unsure>>
        /\ follow' = FollowFrom(info) /\ mode' = IF saved > info THEN "following" ELSE "up"
    BY <1>10 DEF Start, history
  <2>2. info <= saved
    BY <1>0, <2>1 DEF InTurn, Never
  <2>3. CASE saved > info
    BY <1>0, <2>1, <2>3 DEF FollowFrom, NilHeight
  <2>4. CASE ~(saved > info)
    <3>1. mode' = "up" /\ saved = info /\ ToCome' = {}
      BY <1>0, <1>10, <2>1, <2>2, <2>4, StartTurn DEF ToCome
    <3> QED
      BY <1>0, <2>1, <3>1
  <2> QED
    BY <2>3, <2>4
<1>11. CASE \E h \in Heights, restore \in BOOLEAN : CleanByHeight(h, restore)
  BY <1>11 DEF CleanByHeight
<1>12. CASE CleanLastBlock
  BY <1>0, <1>12 DEF CleanLastBlock, TInv, BlockAtHand
<1>13. CASE RestoreBlock \/ RestoredBlock
  BY <1>13 DEF RestoreBlock, RestoredBlock, node
<1> QED
  BY <1>1, <1>3, <1>4, <1>5, <1>6, <1>7, <1>8, <1>9, <1>10, <1>11, <1>12, <1>13 DEF Next, Write

LEMMA CurrentInit == Init => DInv
<1> SUFFICES ASSUME Init PROVE DInv
  OBVIOUS
<1>1. GInv
  BY SafeInit
<1>2. /\ Waiting = {} /\ ToCome = {} /\ docRows = {} /\ ~Active
      /\ \A h \in Heights : block[h].docs = {}
  BY NoneWaiting DEF Init, ToCome, Active, NoContent
<1>3. \A h \in Done : h \in Heights
  BY DigestAssumption DEF Done, Heights, Init
<1>4. RowsOfBlocks /\ KeptDone /\ KeptStored
  BY <1>2, <1>3 DEF RowsOfBlocks, KeptDone, KeptStored
<1>5. InMemory
  BY <1>2 DEF InMemory, Init
<1> QED
  BY <1>1, <1>4, <1>5 DEF DInv

LEMMA CurrentNext ==
  ASSUME MaxBatches = 1
  PROVE  DInv /\ [Next]_vars => DInv'
<1> SUFFICES ASSUME DInv, [Next]_vars PROVE DInv'
  OBVIOUS
<1>1. GInv'
  BY SafeNext DEF DInv
<1>2. RowsOfBlocks'
  BY RowsOfBlocksNext DEF DInv, GInv
<1> QED
  BY <1>1, <1>2, KeptDoneNext, KeptStoredNext, InMemoryNext DEF DInv

\* The invariant says that a node that is up and not digesting has the rows of the
\* newest versions.
LEMMA CurrentRows == DInv => DocumentsCurrent
<1> SUFFICES ASSUME DInv, mode = "up", step = "idle", unsure = Never, NEW d \in DocIds \ lost
             PROVE  {h \in Heights : <<d, h>> \in docRows} = Newest(ChangedIn(d))
  BY DEF DocumentsCurrent
<1>1. /\ TInv /\ saved \in Int /\ lastBlock \in Int /\ lastBlock <= saved /\ unsure \in Int
      /\ \A h \in 0..saved : h \in Heights /\ h \in Int /\ 0 <= h
      /\ \A h \in Heights : h \in Int /\ 0 <= h /\ h < unsure
  <2>1. TInv
    BY DEF DInv, GInv
  <2>2. lastBlock <= saved
    BY DEF DInv, InMemory
  <2> QED
    BY <2>1, <2>2, Numbers DEF Never
<1>2. ToCome = Waiting /\ Done = 0..saved \ Waiting /\ Replacing = {}
  BY DEF ToCome, Done, Replacing, Active
<1>3. \A h \in 0..saved : h > lastBlock <=> h \in Waiting
  BY <1>2 DEF DInv, InMemory
<1>4. HeldFrom(unsure) = {}
  BY <1>1 DEF HeldFrom
<1>5. \A h \in ChangedIn(d) : h \in Heights /\ h \in Done /\ d \in block[h].docs
  BY <1>1, <1>2, <1>3 DEF ChangedIn
<1>6. ASSUME NEW r \in docRows, r[1] = d
      PROVE  r[2] \in ChangedIn(d)
  <2>1. r[2] \in Heights /\ r[2] <= saved /\ d \in block[r[2]].docs /\ r[2] \notin Waiting
    BY <1>1, <1>6, RowTypes DEF DInv, RowsOfBlocks
  <2>2. r[2] \in 0..saved
    BY <1>1, <2>1
  <2>3. r[2] \in 0..lastBlock
    BY <1>1, <1>3, <2>1, <2>2
  <2> QED
    BY <2>1, <2>3 DEF ChangedIn
<1>7. ASSUME NEW h \in ChangedIn(d), NEW r \in docRows, r[1] = d
      PROVE  r[2] >= h
  BY <1>1, <1>5, <1>7 DEF DInv, GInv, AllSettled, Settled
<1>8. ASSUME NEW h \in Heights, <<d, h>> \in docRows
      PROVE  h \in Newest(ChangedIn(d))
  <2>1. <<d, h>>[1] = d /\ <<d, h>>[2] = h
    OBVIOUS
  <2>2. h \in ChangedIn(d)
    BY <1>6, <1>8, <2>1
  <2>3. \A k \in ChangedIn(d) : h >= k /\ k \in Int
    BY <1>1, <1>5, <1>7, <1>8, <2>1
  <2> QED
    BY <1>1, <2>2, <2>3 DEF Newest
<1>9. ASSUME NEW h \in Newest(ChangedIn(d))
      PROVE  h \in Heights /\ <<d, h>> \in docRows
  <2>1. h \in ChangedIn(d) /\ h \in Heights /\ h \in Done /\ d \in block[h].docs
    BY <1>5 DEF Newest
  <2>2. PICK r \in docRows : r[1] = d
    BY <1>2, <1>4, <2>1 DEF DInv, KeptDone
  <2>3. r[2] <= h /\ r[2] >= h /\ r = <<r[1], r[2]>> /\ r[2] \in Int /\ h \in Int
    BY <1>1, <1>6, <1>7, <2>1, <2>2, RowTypes DEF Newest
  <2>4. r[2] = h
    BY <2>3
  <2> QED
    BY <2>1, <2>2, <2>3, <2>4
<1> QED
  BY <1>8, <1>9

\* With one batch of blocks at a time, a node that is up and not digesting shows every
\* document as the last digested block that changed it left it, in one row, whatever
\* failed, stopped, was cleaned or restored before.
THEOREM CurrentDocuments ==
  ASSUME MaxBatches = 1
  PROVE  Spec => []DocumentsCurrent
BY CurrentInit, CurrentNext, CurrentRows, PTL DEF Spec
=============================================================================
