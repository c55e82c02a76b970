--------------------------- MODULE ProcessorPools ---------------------------
(***************************************************************************)
(* How the operation processor takes its processors from sync.Pools and    *)
(* puts them back (document/*_process.go, operation_processor.go).  A      *)
(* create operation gets its processor, and one item processor for each of *)
(* its items, from pools; an update gets its item processors; a sign       *)
(* allocates all of them.  When the proposal is closed every processor     *)
(* blanks itself and puts itself, and its item processors, into a pool.    *)
(* sync.Pool is external: Get answers with any of the objects put, or with *)
(* a new one.  A failed type assertion of what Get answers stops the node. *)
(*                                                                         *)
(* The definitions under "Faults" are not the code's: each is a variant of *)
(* the definition that follows it with one plausible bug in it.            *)
(***************************************************************************)
EXTENDS Integers, Sequences, FiniteSets

CONSTANTS
  Ops,       \* operations
  Kind,      \* "create", "update" or "sign", for each of them
  Items,     \* number of items, for each of them
  Objects,   \* processors that can be allocated
  NoOp,      \* "of no operation"
  MaxPuts    \* bound: times an object is counted in a pool

ASSUME PoolsAssumption ==
  /\ Kind \in [Ops -> {"create", "update", "sign"}]
  /\ Items \in [Ops -> Nat \ {0}]
  /\ NoOp \notin Ops /\ NoOp \notin Objects
  /\ MaxPuts \in Nat \ {0}

Processors == {"CreateDocumentsProcessor", "UpdateDocumentsProcessor", "SignDocumentsProcessor"}
ItemProcessors ==
  {"CreateDocumentsItemProcessor", "UpdateDocumentsItemProcessor", "SignDocumentsItemProcessor"}
Types == Processors \cup ItemProcessors

Processor(kind) ==
  CASE kind = "create" -> "CreateDocumentsProcessor"
    [] kind = "update" -> "UpdateDocumentsProcessor"
    [] kind = "sign"   -> "SignDocumentsProcessor"
ItemProcessor(kind) ==
  CASE kind = "create" -> "CreateDocumentsItemProcessor"
    [] kind = "update" -> "UpdateDocumentsItemProcessor"
    [] kind = "sign"   -> "SignDocumentsItemProcessor"

\* The pool, named for the type it is declared for, that Close puts an object into.
PutInto(type) ==
  CASE type = "SignDocumentsProcessor"     -> "CreateDocumentsProcessor"
    [] type = "SignDocumentsItemProcessor" -> "CreateDocumentsItemProcessor"
    [] OTHER                               -> type

\* The types whose objects PreProcess takes from their pool; others are allocated.
Pooled == {"CreateDocumentsProcessor", "CreateDocumentsItemProcessor",
           "UpdateDocumentsItemProcessor"}

VARIABLES
  type,      \* type of each object, or "none"
  holds,     \* the item, <<operation, index>>, that an item processor was given
  ns,        \* item processors of each processor
  pool,      \* times that an object is in its pool
  inPool,    \* the pool an object was put into
  processor, \* the processor of each operation in processorClosers, or NoOp
  current,   \* the operation in PreProcess, or NoOp
  got,       \* item processors that PreProcess has prepared
  accepted,  \* operations that PreProcess accepted
  panicked   \* a type assertion has failed

vars == <<type, holds, ns, pool, inPool, processor, current, got, accepted, panicked>>

Init ==
  /\ type = [x \in Objects |-> "none"]
  /\ holds = [x \in Objects |-> <<NoOp, 0>>]
  /\ ns = [x \in Objects |-> <<>>]
  /\ pool = [x \in Objects |-> 0]
  /\ inPool = [x \in Objects |-> "none"]
  /\ processor = [o \in Ops |-> NoOp]
  /\ current = NoOp /\ got = <<>> /\ accepted = {}
  /\ panicked = FALSE

\* Get, or an allocation: x is an object of the pool or a new one.
Get(t, x) ==
  \/ /\ type[x] = "none"
     /\ type' = [type EXCEPT ![x] = t]
     /\ UNCHANGED <<pool, panicked>>
  \/ /\ t \in Pooled
     /\ pool[x] > 0 /\ inPool[x] = t
     /\ pool' = [pool EXCEPT ![x] = @ - 1]
     /\ panicked' = (type[x] # t)
     /\ UNCHANGED type

\* Faults: New leaves the item processors of the last operation.
StaleItems(x) == ns[x]

\* NewCreateDocumentsProcessor and its like start with no item processors.
NewItems(x) == <<>>

\* getNewProcessor: the processor is kept to be closed with the proposal.
NewProcessor(o, x) ==
  /\ ~panicked /\ current = NoOp
  /\ processor[o] = NoOp
  /\ Get(Processor(Kind[o]), x)
  /\ ns' = [ns EXCEPT ![x] = NewItems(x)]
  /\ processor' = [processor EXCEPT ![o] = x]
  /\ current' = o
  /\ got' = <<>>
  /\ UNCHANGED <<holds, inPool, accepted>>

\* PreProcess prepares the processor of the next item.
PrepareItem(x) ==
  /\ ~panicked /\ current # NoOp
  /\ Len(got) < Items[current]
  /\ Get(ItemProcessor(Kind[current]), x)
  /\ holds' = [holds EXCEPT ![x] = <<current, Len(got) + 1>>]
  /\ got' = Append(got, x)
  /\ UNCHANGED <<ns, inPool, processor, current, accepted>>

\* Faults: the item processors stay for the next operation.
RefuseKeeps ==
  /\ ~panicked /\ current # NoOp
  /\ current' = NoOp
  /\ UNCHANGED <<type, holds, ns, pool, inPool, processor, got, accepted, panicked>>

\* PreProcess returns an error, before the items, at one of them or at the signs:
\* the item processors it has prepared are in nobody's hands.
Refuse ==
  /\ ~panicked /\ current # NoOp
  /\ current' = NoOp /\ got' = <<>>
  /\ UNCHANGED <<type, holds, ns, pool, inPool, processor, accepted, panicked>>

\* PreProcess keeps the item processors for Process.
Accept ==
  /\ ~panicked /\ current # NoOp
  /\ Len(got) = Items[current]
  /\ ns' = [ns EXCEPT ![processor[current]] = got]
  /\ accepted' = accepted \cup {current}
  /\ current' = NoOp /\ got' = <<>>
  /\ UNCHANGED <<type, holds, pool, inPool, processor, panicked>>

\* close: each processor closes its item processors, blanks itself and goes back
\* to a pool, and so does each item processor; the list ns is left as it is.  The places
\* an object is put back from: <<o, 0>> as the processor of o, <<o, i>> as its i-th item's.
Places(x) ==
  {<<o, 0>> : o \in {p \in Ops : processor[p] = x}} \cup
  UNION {{<<o, i>> : i \in {j \in DOMAIN ns[processor[o]] : ns[processor[o]][j] = x}} :
           o \in {p \in Ops : processor[p] # NoOp}}
Occurrences(x) == Cardinality(Places(x))

close ==
  /\ ~panicked /\ current = NoOp
  /\ \E o \in Ops : processor[o] # NoOp
  /\ pool' = [x \in Objects |->
                IF pool[x] + Occurrences(x) < MaxPuts THEN pool[x] + Occurrences(x) ELSE MaxPuts]
  /\ inPool' = [x \in Objects |-> IF Occurrences(x) > 0 THEN PutInto(type[x]) ELSE inPool[x]]
  /\ holds' = [x \in Objects |-> IF Occurrences(x) > 0 THEN <<NoOp, 0>> ELSE holds[x]]
  /\ processor' = [o \in Ops |-> NoOp]
  /\ accepted' = {}
  /\ UNCHANGED <<type, ns, current, got, panicked>>

Next ==
  \/ \E o \in Ops, x \in Objects : NewProcessor(o, x)
  \/ \E x \in Objects : PrepareItem(x)
  \/ Refuse
  \/ Accept
  \/ close

Spec == Init /\ [][Next]_vars

-----------------------------------------------------------------------------
(***************************************************************************)
(* Properties.                                                             *)
(***************************************************************************)

\* Every variable stays in its type, and no item processor that was prepared is
\* there when no operation is in PreProcess.
TypeOK ==
  /\ type \in [Objects -> Types \cup {"none"}]
  /\ holds \in [Objects -> (Ops \cup {NoOp}) \X Nat]
  /\ ns \in [Objects -> Seq(Objects)]
  /\ pool \in [Objects -> 0..MaxPuts]
  /\ inPool \in [Objects -> Types \cup {"none"}]
  /\ processor \in [Ops -> Objects \cup {NoOp}]
  /\ current \in Ops \cup {NoOp} /\ got \in Seq(Objects)
  /\ current = NoOp => got = <<>>
  /\ accepted \subseteq Ops /\ panicked \in BOOLEAN

\* When an accepted operation is processed, its item processors hold its own items,
\* in order: no pooled object is handed to two items, whatever was refused before.
OwnItems ==
  \A o \in accepted :
    /\ Len(ns[processor[o]]) = Items[o]
    /\ \A i \in 1 .. Items[o] : holds[ns[processor[o]][i]] = <<o, i>>

\* The assertion at each Get: the object is of the type its pool was declared for.
AssertionHolds == ~panicked

(***************************************************************************)
(* The inductive invariant behind OwnItems (ProcessorPoolsProofs).  An     *)
(* object is given to an item only while it is in somebody's hands: holds  *)
(* tells every two of these apart.                                         *)
(***************************************************************************)
\* In hand: in no pool, and not still to be allocated.
InHand(x) == type[x] # "none" /\ pool[x] = 0
Blank(x) == holds[x] = <<NoOp, 0>>

\* An object is in its pool once, and blank when it is taken.
PoolsBlank ==
  \A x \in Objects :
    /\ pool[x] \in {0, 1}
    /\ pool[x] = 1 => type[x] # "none"
    /\ ~InHand(x) => Blank(x)

\* The processors to be closed are different objects, and none that an item has.
ProcessorsApart ==
  \A o \in Ops : processor[o] # NoOp =>
    /\ InHand(processor[o]) /\ Blank(processor[o])
    /\ \A p \in Ops : processor[p] = processor[o] => p = o
    /\ o \notin accepted => ns[processor[o]] = <<>>

ItemsInHand ==
  \A o \in accepted :
    processor[o] # NoOp /\ \A i \in DOMAIN ns[processor[o]] : InHand(ns[processor[o]][i])

\* What PreProcess has prepared so far.
Preparing ==
  current # NoOp =>
    /\ processor[current] # NoOp /\ current \notin accepted
    /\ \A i \in DOMAIN got : InHand(got[i]) /\ holds[got[i]] = <<current, i>>

PInv == TypeOK /\ PoolsBlank /\ ProcessorsApart /\ ItemsInHand /\ OwnItems /\ Preparing

\* Behind AssertionHolds where no operation is a sign: an object is in the pool of its
\* type, which PutInto makes true of every type but those of a sign.
InOwnPool ==
  \A x \in Objects :
    /\ type[x] \notin {"SignDocumentsProcessor", "SignDocumentsItemProcessor"}
    /\ pool[x] > 0 => inPool[x] = type[x]
=============================================================================
