------------------------ MODULE ProcessorPoolsProofs ------------------------
(***************************************************************************)
(* Proofs about ProcessorPools: type correctness, and that an accepted     *)
(* operation has its own item processors, for any number of operations,    *)
(* items and objects, although signs go into the pools of creates; and     *)
(* that nothing but a sign makes an assertion fail.                        *)
(***************************************************************************)
EXTENDS ProcessorPools, FiniteSetTheorems, TLAPS

-----------------------------------------------------------------------------
(* Facts about the helpers. *)

LEMMA KindTypes ==
  ASSUME NEW o \in Ops
  PROVE  /\ Processor(Kind[o]) \in Types \ {"none"}
         /\ ItemProcessor(Kind[o]) \in Types \ {"none"}
         /\ Items[o] \in Nat
BY PoolsAssumption DEF Processor, ItemProcessor, Types, Processors, ItemProcessors

\* Get takes an object that is in nobody's hands, and the only change is that it is in
\* the caller's.
LEMMA GetTakes ==
  ASSUME PInv, NEW t \in Types \ {"none"}, NEW x \in Objects, Get(t, x)
  PROVE  /\ ~InHand(x) /\ Blank(x)
         /\ type' \in [Objects -> Types \cup {"none"}]
         /\ pool' \in [Objects -> 0..MaxPuts]
         /\ panicked' \in BOOLEAN
         /\ type'[x] # "none" /\ pool'[x] = 0
         /\ \A y \in Objects : y # x => type'[y] = type[y] /\ pool'[y] = pool[y]
<1>1. /\ type \in [Objects -> Types \cup {"none"}] /\ pool \in [Objects -> 0..MaxPuts]
      /\ panicked \in BOOLEAN
      /\ pool[x] \in {0, 1} /\ (pool[x] = 1 => type[x] # "none") /\ (~InHand(x) => Blank(x))
  BY DEF PInv, TypeOK, PoolsBlank
<1>2. CASE /\ type[x] = "none"
           /\ type' = [type EXCEPT ![x] = t]
           /\ UNCHANGED <<pool, panicked>>
  BY <1>1, <1>2 DEF InHand
<1>3. CASE /\ pool[x] > 0
           /\ pool' = [pool EXCEPT ![x] = @ - 1]
           /\ panicked' = (type[x] # t)
           /\ UNCHANGED type
  <2>1. pool[x] = 1 /\ pool'[x] = 0 /\ 0 \in 0..MaxPuts
    BY <1>1, <1>3, PoolsAssumption
  <2>2. pool' \in [Objects -> 0..MaxPuts]
    BY <1>1, <1>3, <2>1
  <2>3. panicked' \in BOOLEAN
    BY <1>3
  <2> QED
    BY <1>1, <1>3, <2>1, <2>2, <2>3 DEF InHand
<1> QED
  BY <1>2, <1>3 DEF Get

\* An object of a processor to be closed, and an object of an item, is in one place; an
\* object that is not in hand is in none.
LEMMA OccursOnce ==
  ASSUME PInv, current = NoOp, NEW x \in Objects
  PROVE  Occurrences(x) \in {0, 1} /\ (Occurrences(x) = 1 => InHand(x))
<1>1. ASSUME NEW p \in Places(x)
      PROVE  /\ InHand(x)
             /\ \/ \E o \in Ops : processor[o] = x /\ p = <<o, 0>>
                \/ \E o \in accepted : \E i \in DOMAIN ns[processor[o]] :
                     p = <<o, i>> /\ ns[processor[o]][i] = x /\ holds[x] = <<o, i>>
  <2>1. CASE \E o \in Ops : processor[o] = x /\ p = <<o, 0>>
    BY <2>1, PoolsAssumption DEF PInv, ProcessorsApart
  <2>2. CASE \E o \in Ops : \E i \in DOMAIN ns[processor[o]] :
               processor[o] # NoOp /\ p = <<o, i>> /\ ns[processor[o]][i] = x
    <3>0. PICK o \in Ops : \E i \in DOMAIN ns[processor[o]] :
            processor[o] # NoOp /\ p = <<o, i>> /\ ns[processor[o]][i] = x
      BY <2>2
    <3>1. PICK i \in DOMAIN ns[processor[o]] :
            processor[o] # NoOp /\ p = <<o, i>> /\ ns[processor[o]][i] = x
      BY <3>0
    <3>2. o \in accepted
      BY <3>1 DEF PInv, ProcessorsApart
    <3>3. i \in 1..Items[o]
      BY <3>1, <3>2 DEF PInv, OwnItems, TypeOK
    <3> QED
      BY <3>1, <3>2, <3>3 DEF PInv, ItemsInHand, OwnItems
  <2> QED
    BY <2>1, <2>2 DEF Places
<1>2. ASSUME NEW p \in Places(x), NEW q \in Places(x)
      PROVE  p = q
  <2>1. CASE Blank(x)
    <3>1. \A o \in accepted : o # NoOp
      BY PoolsAssumption DEF PInv, TypeOK
    <3>2. /\ \E o \in Ops : processor[o] = x /\ p = <<o, 0>>
          /\ \E o \in Ops : processor[o] = x /\ q = <<o, 0>>
      BY <1>1, <2>1, <3>1 DEF Blank
    <3> QED
      BY <3>2, PoolsAssumption DEF PInv, ProcessorsApart
  <2>2. CASE ~Blank(x)
    <3>1. \A o \in Ops : processor[o] # x
      BY <2>2, PoolsAssumption DEF PInv, ProcessorsApart
    <3> QED
      BY <1>1, <3>1
  <2> QED
    BY <2>1, <2>2
<1>3. CASE Places(x) = {}
  BY <1>3, FS_EmptySet DEF Occurrences
<1>4. CASE Places(x) # {}
  <2>1. PICK p \in Places(x) : Places(x) = {p}
    BY <1>2, <1>4
  <2>2. Cardinality({p}) = 1
    BY FS_Singleton
  <2> QED
    BY <1>1, <2>1, <2>2 DEF Occurrences
<1> QED
  BY <1>3, <1>4

\* The lists of accepted operations are sequences of objects in hand.
LEMMA HandedObjects ==
  ASSUME PInv, NEW a \in accepted
  PROVE  /\ a \in Ops /\ processor[a] \in Objects
         /\ ns[processor[a]] \in Seq(Objects) /\ DOMAIN ns[processor[a]] = 1..Items[a]
         /\ \A i \in DOMAIN ns[processor[a]] :
              /\ ns[processor[a]][i] \in Objects /\ InHand(ns[processor[a]][i])
              /\ holds[ns[processor[a]][i]] = <<a, i>>
<1>1. a \in Ops /\ processor[a] \in Objects /\ ns[processor[a]] \in Seq(Objects)
  BY DEF PInv, TypeOK, ItemsInHand
<1>2. Len(ns[processor[a]]) = Items[a]
  BY DEF PInv, OwnItems
<1>3. DOMAIN ns[processor[a]] = 1..Items[a]
  BY <1>1, <1>2
<1>4. \A i \in DOMAIN ns[processor[a]] : ns[processor[a]][i] \in Objects
  BY <1>1
<1> QED
  BY <1>1, <1>3, <1>4 DEF PInv, ItemsInHand, OwnItems

-----------------------------------------------------------------------------
(* Every step keeps the inductive invariant. *)

\* The first state satisfies it.
LEMMA InitPInv == Init => PInv
<1> SUFFICES ASSUME Init
             PROVE  PInv
  OBVIOUS
<1>1. TypeOK
  <2>1. <<>> \in Seq(Objects)
    OBVIOUS
  <2>2. ns \in [Objects -> Seq(Objects)]
    BY <2>1 DEF Init
  <2>3. holds \in [Objects -> (Ops \cup {NoOp}) \X Nat]
    BY DEF Init
  <2>4. pool \in [Objects -> 0..MaxPuts]
    BY PoolsAssumption DEF Init
  <2> QED
    BY <2>1, <2>2, <2>3, <2>4 DEF Init, TypeOK
<1> QED
  BY <1>1
  DEF Init, PInv, PoolsBlank, ProcessorsApart, ItemsInHand, OwnItems, Preparing, InHand, Blank

\* A processor is taken; whatever the others hold stays theirs.
LEMMA NewProcessorPInv ==
  ASSUME PInv, NEW o \in Ops, NEW x \in Objects, NewProcessor(o, x)
  PROVE  PInv'
<1>1. /\ current = NoOp /\ processor[o] = NoOp
      /\ ns' = [ns EXCEPT ![x] = <<>>]
      /\ processor' = [processor EXCEPT ![o] = x]
      /\ current' = o /\ got' = <<>>
      /\ UNCHANGED <<holds, inPool, accepted>>
      /\ Get(Processor(Kind[o]), x)
  BY DEF NewProcessor, NewItems
<1>2. /\ ~InHand(x) /\ Blank(x)
      /\ type' \in [Objects -> Types \cup {"none"}]
      /\ pool' \in [Objects -> 0..MaxPuts]
      /\ panicked' \in BOOLEAN
      /\ type'[x] # "none" /\ pool'[x] = 0
      /\ \A y \in Objects : y # x => type'[y] = type[y] /\ pool'[y] = pool[y]
  BY <1>1, KindTypes, GetTakes
<1>3. TypeOK'
  BY <1>1, <1>2 DEF PInv, TypeOK
<1>4. \A y \in Objects : InHand(y) => y # x /\ type'[y] # "none" /\ pool'[y] = 0
  BY <1>2 DEF InHand
<1>6. PoolsBlank'
  <2> SUFFICES ASSUME NEW y \in Objects
               PROVE  /\ pool'[y] \in {0, 1} /\ (pool'[y] = 1 => type'[y] # "none")
                      /\ type'[y] = "none" \/ pool'[y] # 0 => holds[y] = <<NoOp, 0>>
    BY <1>1 DEF PoolsBlank, InHand, Blank
  <2>1. CASE y = x
    BY <1>2, <2>1
  <2>2. CASE y # x
    BY <1>2, <2>2 DEF PInv, PoolsBlank, InHand, Blank
  <2> QED
    BY <2>1, <2>2
<1>7. \A p \in Ops : processor[p] # NoOp =>
        /\ processor[p] \in Objects /\ InHand(processor[p]) /\ processor[p] # x
        /\ processor'[p] = processor[p] /\ ns'[processor[p]] = ns[processor[p]]
  BY <1>1, <1>4 DEF PInv, TypeOK, ProcessorsApart
<1>8. /\ processor'[o] = x /\ ns'[x] = <<>> /\ x # NoOp /\ o \notin accepted
      /\ \A p \in Ops : p # o => processor'[p] = processor[p]
  BY <1>1, PoolsAssumption DEF PInv, TypeOK, ItemsInHand
<1>9. ProcessorsApart'
  <2> SUFFICES ASSUME NEW p \in Ops, processor'[p] # NoOp
               PROVE  /\ type'[processor'[p]] # "none" /\ pool'[processor'[p]] = 0
                      /\ holds[processor'[p]] = <<NoOp, 0>>
                      /\ \A q \in Ops : processor'[q] = processor'[p] => q = p
                      /\ p \notin accepted => ns'[processor'[p]] = <<>>
    BY <1>1 DEF ProcessorsApart, InHand, Blank
  <2>1. CASE p = o
    <3>1. \A q \in Ops : processor'[q] = x => q = o
      BY <1>7, <1>8
    <3> QED
      BY <1>2, <1>8, <2>1, <3>1 DEF Blank
  <2>2. CASE p # o
    <3>1. processor'[p] = processor[p] /\ processor[p] # NoOp
      BY <1>8, <2>2
    <3>2. /\ InHand(processor[p]) /\ holds[processor[p]] = <<NoOp, 0>>
          /\ \A q \in Ops : processor[q] = processor[p] => q = p
          /\ p \notin accepted => ns[processor[p]] = <<>>
      BY <3>1 DEF PInv, ProcessorsApart, Blank
    <3>3. processor[p] \in Objects /\ processor[p] # x /\ ns'[processor[p]] = ns[processor[p]]
      BY <1>7, <3>1
    <3>4. \A q \in Ops : processor'[q] = processor[p] => q = p
      BY <1>8, <3>2, <3>3
    <3> QED
      BY <1>4, <3>1, <3>2, <3>3, <3>4
  <2> QED
    BY <2>1, <2>2
<1>10. \A a \in accepted :
         /\ a \in Ops /\ processor'[a] = processor[a] /\ processor[a] # NoOp
         /\ ns'[processor'[a]] = ns[processor[a]]
  BY <1>7 DEF PInv, TypeOK, ItemsInHand
<1>11. ItemsInHand'
  <2>1. \A a \in accepted : \A i \in DOMAIN ns[processor[a]] :
          ns[processor[a]][i] \in Objects /\ InHand(ns[processor[a]][i])
    BY HandedObjects
  <2>2. \A a \in accepted : \A i \in DOMAIN ns[processor[a]] :
          type'[ns[processor[a]][i]] # "none" /\ pool'[ns[processor[a]][i]] = 0
    BY <1>4, <2>1
  <2> QED
    BY <1>1, <1>10, <2>2 DEF ItemsInHand, InHand
<1>12. OwnItems'
  <2>1. accepted' = accepted /\ holds' = holds
    BY <1>1
  <2>2. ASSUME NEW a \in accepted
        PROVE  /\ Len(ns'[processor'[a]]) = Items[a]
               /\ \A i \in 1 .. Items[a] : holds[ns'[processor'[a]][i]] = <<a, i>>
    <3>1. ns'[processor'[a]] = ns[processor[a]]
      BY <1>10
    <3>2. /\ Len(ns[processor[a]]) = Items[a]
          /\ \A i \in 1 .. Items[a] : holds[ns[processor[a]][i]] = <<a, i>>
      BY DEF PInv, OwnItems
    <3> QED
      BY <3>1, <3>2
  <2> QED
    BY <2>1, <2>2, Zenon DEF OwnItems
<1>13. Preparing'
  BY <1>1, <1>8 DEF Preparing
<1> QED
  BY <1>3, <1>6, <1>9, <1>11, <1>12, <1>13 DEF PInv

\* An item processor is taken and given its item.
LEMMA PrepareItemPInv ==
  ASSUME PInv, NEW x \in Objects, PrepareItem(x)
  PROVE  PInv'
<1>1. /\ current \in Ops /\ current # NoOp
      /\ holds' = [holds EXCEPT ![x] = <<current, Len(got) + 1>>]
      /\ got' = Append(got, x)
      /\ UNCHANGED <<ns, inPool, processor, current, accepted>>
      /\ Get(ItemProcessor(Kind[current]), x)
  BY DEF PrepareItem, PInv, TypeOK
<1>2. /\ ~InHand(x) /\ Blank(x)
      /\ type' \in [Objects -> Types \cup {"none"}]
      /\ pool' \in [Objects -> 0..MaxPuts]
      /\ panicked' \in BOOLEAN
      /\ type'[x] # "none" /\ pool'[x] = 0
      /\ \A y \in Objects : y # x => type'[y] = type[y] /\ pool'[y] = pool[y]
  BY <1>1, KindTypes, GetTakes
<1>3. TypeOK'
  <2>1. Append(got, x) \in Seq(Objects) /\ Len(got) + 1 \in Nat
    BY DEF PInv, TypeOK
  <2>2. holds' \in [Objects -> (Ops \cup {NoOp}) \X Nat]
    BY <1>1, <2>1 DEF PInv, TypeOK
  <2> QED
    BY <1>1, <1>2, <2>1, <2>2 DEF PInv, TypeOK
<1>4. \A y \in Objects :
        InHand(y) => y # x /\ type'[y] # "none" /\ pool'[y] = 0 /\ holds'[y] = holds[y]
  BY <1>1, <1>2 DEF InHand, PInv, TypeOK
<1>6. PoolsBlank'
  <2> SUFFICES ASSUME NEW y \in Objects
               PROVE  /\ pool'[y] \in {0, 1} /\ (pool'[y] = 1 => type'[y] # "none")
                      /\ type'[y] = "none" \/ pool'[y] # 0 => holds'[y] = <<NoOp, 0>>
    BY DEF PoolsBlank, InHand, Blank
  <2>1. CASE y = x
    BY <1>2, <2>1
  <2>2. CASE y # x
    BY <1>1, <1>2, <2>2 DEF PInv, TypeOK, PoolsBlank, InHand, Blank
  <2> QED
    BY <2>1, <2>2
<1>7. ProcessorsApart'
  <2>1. ASSUME NEW p \in Ops, processor[p] # NoOp
        PROVE  /\ type'[processor[p]] # "none" /\ pool'[processor[p]] = 0
               /\ holds'[processor[p]] = <<NoOp, 0>>
    <3>1. processor[p] \in Objects /\ InHand(processor[p]) /\ holds[processor[p]] = <<NoOp, 0>>
      BY <2>1 DEF PInv, TypeOK, ProcessorsApart, Blank
    <3> QED
      BY <1>4, <3>1
  <2> QED
    BY <1>1, <2>1 DEF PInv, ProcessorsApart, InHand, Blank
<1>8. \A a \in accepted : \A i \in DOMAIN ns[processor[a]] :
         ns[processor[a]][i] \in Objects /\ InHand(ns[processor[a]][i])
  BY HandedObjects
<1>9. ItemsInHand'
  <2>1. \A a \in accepted : \A i \in DOMAIN ns[processor[a]] :
          type'[ns[processor[a]][i]] # "none" /\ pool'[ns[processor[a]][i]] = 0
    BY <1>4, <1>8
  <2> QED
    BY <1>1, <2>1 DEF PInv, ItemsInHand, InHand
<1>10. OwnItems'
  <2>1. ns' = ns /\ processor' = processor /\ accepted' = accepted
    BY <1>1
  <2> SUFFICES ASSUME NEW a \in accepted
               PROVE  /\ Len(ns[processor[a]]) = Items[a]
                      /\ \A i \in 1 .. Items[a] : holds'[ns[processor[a]][i]] = <<a, i>>
    BY <2>1, Zenon DEF OwnItems
  <2>2. /\ Len(ns[processor[a]]) = Items[a]
        /\ \A i \in 1 .. Items[a] : holds[ns[processor[a]][i]] = <<a, i>>
    BY DEF PInv, OwnItems
  <2>3. \A i \in 1 .. Items[a] : i \in DOMAIN ns[processor[a]]
    BY <2>2, HandedObjects
  <2> QED
    BY <1>4, <1>8, <2>2, <2>3
<1>11. Preparing'
  <2>1. got \in Seq(Objects) /\ \A i \in DOMAIN got : InHand(got[i]) /\ holds[got[i]] = <<current, i>>
    BY <1>1 DEF PInv, TypeOK, Preparing
  <2>2. ASSUME NEW i \in DOMAIN got'
        PROVE  /\ type'[got'[i]] # "none" /\ pool'[got'[i]] = 0
               /\ holds'[got'[i]] = <<current, i>>
    <3>1. CASE i = Len(got) + 1
      <4>1. got'[i] = x
        BY <1>1, <2>1, <3>1
      <4>2. holds'[x] = <<current, i>>
        BY <1>1, <3>1 DEF PInv, TypeOK
      <4> QED
        BY <1>2, <4>1, <4>2
    <3>2. CASE i # Len(got) + 1
      <4>1. i \in DOMAIN got /\ got'[i] = got[i] /\ got[i] \in Objects
        BY <1>1, <2>1, <2>2, <3>2
      <4> QED
        BY <1>4, <2>1, <4>1
    <3> QED
      BY <3>1, <3>2
  <2>3. processor[current] # NoOp /\ current \notin accepted
    BY <1>1 DEF PInv, Preparing
  <2> QED
    BY <1>1, <2>2, <2>3 DEF Preparing, InHand
<1> QED
  BY <1>3, <1>6, <1>7, <1>9, <1>10, <1>11 DEF PInv

\* The item processors of a refused operation are in nobody's hands and in no pool.
LEMMA RefusePInv ==
  ASSUME PInv, Refuse
  PROVE  PInv'
<1>1. TypeOK'
  BY DEF PInv, TypeOK, Refuse
<1> QED
  BY <1>1 DEF PInv, Refuse, PoolsBlank, ProcessorsApart, ItemsInHand, OwnItems, Preparing,
              InHand, Blank

\* What PreProcess prepared becomes the operation's.
LEMMA AcceptPInv ==
  ASSUME PInv, Accept
  PROVE  PInv'
<1>1. /\ current \in Ops /\ current # NoOp /\ Len(got) = Items[current]
      /\ processor[current] \in Objects /\ current \notin accepted
      /\ ns' = [ns EXCEPT ![processor[current]] = got]
      /\ accepted' = accepted \cup {current}
      /\ current' = NoOp /\ got' = <<>>
      /\ UNCHANGED <<type, holds, pool, inPool, processor, panicked>>
  BY DEF PInv, TypeOK, Preparing, Accept
<1>2. TypeOK'
  BY <1>1 DEF PInv, TypeOK
<1>3. \A x \in Objects : (InHand(x)' <=> InHand(x)) /\ (Blank(x)' <=> Blank(x))
  BY <1>1 DEF InHand, Blank
<1>4. PoolsBlank'
  BY <1>1, <1>3 DEF PInv, PoolsBlank
<1>5. /\ ns'[processor[current]] = got
      /\ \A p \in Ops : p # current /\ processor[p] # NoOp => ns'[processor[p]] = ns[processor[p]]
  BY <1>1 DEF PInv, TypeOK, ProcessorsApart
<1>6. ProcessorsApart'
  BY <1>1, <1>3, <1>5 DEF PInv, TypeOK, ProcessorsApart, InHand, Blank
<1>7. ItemsInHand'
  BY <1>1, <1>5 DEF PInv, TypeOK, ItemsInHand, Preparing, InHand
<1>8. OwnItems'
  <2>1. \A i \in 1 .. Items[current] : holds[got[i]] = <<current, i>>
    <3>1. got \in Seq(Objects) /\ DOMAIN got = 1 .. Len(got)
      BY DEF PInv, TypeOK
    <3>2. \A i \in DOMAIN got : holds[got[i]] = <<current, i>>
      BY <1>1 DEF PInv, Preparing
    <3> QED
      BY <1>1, <3>1, <3>2
  <2>2. \A a \in accepted : a \in Ops /\ a # current /\ processor[a] # NoOp
    BY <1>1 DEF PInv, TypeOK, ItemsInHand
  <2>3. processor' = processor /\ holds' = holds
    BY <1>1
  <2>4. ASSUME NEW a \in accepted'
        PROVE  /\ Len(ns'[processor[a]]) = Items[a]
               /\ \A i \in 1 .. Items[a] : holds[ns'[processor[a]][i]] = <<a, i>>
    <3>1. CASE a = current
      BY <1>1, <1>5, <2>1, <3>1
    <3>2. CASE a # current
      <4>1. a \in accepted /\ ns'[processor[a]] = ns[processor[a]]
        BY <1>1, <1>5, <2>2, <3>2
      <4>2. /\ Len(ns[processor[a]]) = Items[a]
            /\ \A i \in 1 .. Items[a] : holds[ns[processor[a]][i]] = <<a, i>>
        BY <4>1 DEF PInv, OwnItems
      <4> QED
        BY <4>1, <4>2
    <3> QED
      BY <3>1, <3>2
  <2> QED
    BY <2>3, <2>4, Zenon DEF OwnItems
<1> QED
  BY <1>1, <1>2, <1>4, <1>6, <1>7, <1>8 DEF PInv, Preparing

\* Each object in hand goes into a pool once, and blank.
LEMMA ClosePInv ==
  ASSUME PInv, close
  PROVE  PInv'
<1>1. /\ current = NoOp /\ got = <<>>
      /\ pool' = [x \in Objects |->
                    IF pool[x] + Occurrences(x) < MaxPuts THEN pool[x] + Occurrences(x)
                                                          ELSE MaxPuts]
      /\ inPool' = [x \in Objects |->
                      IF Occurrences(x) > 0 THEN PutInto(type[x]) ELSE inPool[x]]
      /\ holds' = [x \in Objects |-> IF Occurrences(x) > 0 THEN <<NoOp, 0>> ELSE holds[x]]
      /\ processor' = [o \in Ops |-> NoOp] /\ accepted' = {}
      /\ UNCHANGED <<type, ns, current, got, panicked>>
  BY DEF PInv, TypeOK, close
<1>2. \A x \in Objects :
        /\ Occurrences(x) \in {0, 1} /\ (Occurrences(x) = 1 => InHand(x))
        /\ pool[x] \in {0, 1} /\ (pool[x] = 1 => type[x] # "none") /\ (~InHand(x) => Blank(x))
  BY <1>1, OccursOnce DEF PInv, PoolsBlank
<1>3. \A x \in Objects : pool[x] + Occurrences(x) \in {0, 1} /\ pool'[x] = pool[x] + Occurrences(x)
  BY <1>1, <1>2, PoolsAssumption DEF InHand
<1>4. \A x \in Objects : PutInto(type[x]) \in Types \cup {"none"}
  BY DEF PutInto, PInv, TypeOK, Types, Processors, ItemProcessors
<1>5. TypeOK'
  <2>1. pool' \in [Objects -> 0..MaxPuts]
    BY <1>1, <1>2, PoolsAssumption
  <2>2. inPool' \in [Objects -> Types \cup {"none"}]
    BY <1>1, <1>4 DEF PInv, TypeOK
  <2>3. holds' \in [Objects -> (Ops \cup {NoOp}) \X Nat]
    BY <1>1 DEF PInv, TypeOK
  <2> QED
    BY <1>1, <2>1, <2>2, <2>3 DEF PInv, TypeOK
<1>6. PoolsBlank'
  BY <1>1, <1>2, <1>3 DEF PoolsBlank, InHand, Blank
<1> QED
  BY <1>1, <1>5, <1>6 DEF PInv, ProcessorsApart, ItemsInHand, OwnItems, Preparing

LEMMA NextPInv == PInv /\ [Next]_vars => PInv'
<1> SUFFICES ASSUME PInv, [Next]_vars
             PROVE  PInv'
  OBVIOUS
<1>1. ASSUME NEW o \in Ops, NEW x \in Objects, NewProcessor(o, x)
      PROVE  PInv'
  BY <1>1, NewProcessorPInv
<1>2. ASSUME NEW x \in Objects, PrepareItem(x)
      PROVE  PInv'
  BY <1>2, PrepareItemPInv
<1>3. CASE Refuse
  BY <1>3, RefusePInv
<1>4. CASE Accept
  BY <1>4, AcceptPInv
<1>5. CASE close
  BY <1>5, ClosePInv
<1>6. CASE UNCHANGED vars
  <2>1. UNCHANGED <<type, holds, ns, pool, inPool, processor, current, got, accepted, panicked>>
    BY <1>6 DEF vars
  <2>2. TypeOK'
    BY <2>1 DEF PInv, TypeOK
  <2>3. PoolsBlank' /\ ProcessorsApart' /\ ItemsInHand' /\ Preparing'
    BY <2>1 DEF PInv, PoolsBlank, ProcessorsApart, ItemsInHand, Preparing, InHand, Blank
  <2>4. OwnItems'
    BY <2>1 DEF PInv, OwnItems
  <2> QED
    BY <2>2, <2>3, <2>4 DEF PInv
<1> QED
  BY <1>1, <1>2, <1>3, <1>4, <1>5, <1>6 DEF Next

\* The inductive invariant of the pools holds in every reachable state.
THEOREM PoolsInvariance == Spec => []PInv
<1> QED
  BY InitPInv, NextPInv, PTL DEF Spec

\* Every variable stays in its type.
THEOREM PoolsTypeCorrect == Spec => []TypeOK
<1>1. PInv => TypeOK
  BY DEF PInv
<1> QED
  BY <1>1, PoolsInvariance, PTL

\* An accepted operation has its own item processors, whatever was refused, closed and
\* taken from the pools before.
THEOREM ItemsAreOwn == Spec => []OwnItems
<1>1. PInv => OwnItems
  BY DEF PInv
<1> QED
  BY <1>1, PoolsInvariance, PTL

-----------------------------------------------------------------------------
(* Where no operation is a sign, no assertion fails. *)

\* What Get answers has the type that was asked for.
LEMMA GetOwnType ==
  ASSUME PInv, ~panicked, InOwnPool, NEW x \in Objects,
         NEW t \in Types \ {"none", "SignDocumentsProcessor", "SignDocumentsItemProcessor"},
         Get(t, x), UNCHANGED inPool
  PROVE  ~panicked' /\ InOwnPool'
<1>1. ~InHand(x) /\ pool'[x] = 0 /\ \A y \in Objects : y # x => type'[y] = type[y] /\ pool'[y] = pool[y]
  BY GetTakes
<1>2. CASE /\ type[x] = "none"
           /\ type' = [type EXCEPT ![x] = t]
           /\ UNCHANGED <<pool, panicked>>
  <2>1. type'[x] = t
    BY <1>2 DEF PInv, TypeOK
  <2> QED
    BY <1>1, <1>2, <2>1 DEF InOwnPool
<1>3. CASE /\ pool[x] > 0 /\ inPool[x] = t
           /\ panicked' = (type[x] # t)
           /\ UNCHANGED type
  <2>1. type[x] = t
    BY <1>3 DEF InOwnPool
  <2> QED
    BY <1>1, <1>3, <2>1 DEF InOwnPool
<1> QED
  BY <1>2, <1>3 DEF Get

\* Close puts every object into the pool of its type.
LEMMA CloseOwnPool ==
  ASSUME PInv, ~panicked, InOwnPool, close
  PROVE  ~panicked' /\ InOwnPool'
<1>1. /\ current = NoOp
      /\ pool' = [x \in Objects |->
                    IF pool[x] + Occurrences(x) < MaxPuts THEN pool[x] + Occurrences(x)
                                                          ELSE MaxPuts]
      /\ inPool' = [x \in Objects |->
                      IF Occurrences(x) > 0 THEN PutInto(type[x]) ELSE inPool[x]]
      /\ UNCHANGED <<type, panicked>>
  BY DEF close
<1>2. ASSUME NEW x \in Objects, pool'[x] > 0
      PROVE  inPool'[x] = type[x]
  <2>1. Occurrences(x) \in {0, 1} /\ pool[x] \in {0, 1}
    BY <1>1, OccursOnce DEF PInv, PoolsBlank
  <2>2. CASE Occurrences(x) = 1
    <3>1. PutInto(type[x]) = type[x]
      BY DEF InOwnPool, PutInto
    <3> QED
      BY <1>1, <2>2, <3>1
  <2>3. CASE Occurrences(x) = 0
    <3>1. pool[x] > 0
      BY <1>1, <1>2, <2>1, <2>3, PoolsAssumption
    <3> QED
      BY <1>1, <2>3, <3>1 DEF InOwnPool
  <2> QED
    BY <2>1, <2>2, <2>3
<1> QED
  BY <1>1, <1>2 DEF InOwnPool

\* The type assertion at each Get holds as long as creates and updates alone are
\* processed: the panic of pools_sign takes a sign.
THEOREM OnlySignsPanic ==
  ASSUME \A o \in Ops : Kind[o] # "sign"
  PROVE  Spec => []AssertionHolds
<1> DEFINE OInv == ~panicked /\ InOwnPool
<1>1. Init => OInv
  BY DEF Init, InOwnPool
<1>2. PInv /\ OInv /\ [Next]_vars => OInv'
  <2> SUFFICES ASSUME PInv, ~panicked, InOwnPool, [Next]_vars
               PROVE  ~panicked' /\ InOwnPool'
    OBVIOUS
  <2> DEFINE Asked == Types \ {"none", "SignDocumentsProcessor", "SignDocumentsItemProcessor"}
  <2>1. \A o \in Ops : Processor(Kind[o]) \in Asked /\ ItemProcessor(Kind[o]) \in Asked
    <3> SUFFICES ASSUME NEW o \in Ops
                 PROVE  Processor(Kind[o]) \in Asked /\ ItemProcessor(Kind[o]) \in Asked
      OBVIOUS
    <3>1. Kind[o] \in {"create", "update"}
      BY PoolsAssumption
    <3> QED
      BY <3>1 DEF Processor, ItemProcessor, Types, Processors, ItemProcessors
  <2>2. ASSUME NEW o \in Ops, NEW x \in Objects, NewProcessor(o, x)
        PROVE  ~panicked' /\ InOwnPool'
    <3>1. Get(Processor(Kind[o]), x) /\ UNCHANGED inPool
      BY <2>2 DEF NewProcessor
    <3> QED
      BY <2>1, <3>1, GetOwnType
  <2>3. ASSUME NEW x \in Objects, PrepareItem(x)
        PROVE  ~panicked' /\ InOwnPool'
    <3>1. current \in Ops /\ Get(ItemProcessor(Kind[current]), x) /\ UNCHANGED inPool
      BY <2>3 DEF PrepareItem, PInv, TypeOK
    <3> QED
      BY <2>1, <3>1, GetOwnType
  <2>4. CASE Refuse
    BY <2>4 DEF Refuse, InOwnPool
  <2>5. CASE Accept
    BY <2>5 DEF Accept, InOwnPool
  <2>6. CASE close
    BY <2>6, CloseOwnPool
  <2>7. CASE UNCHANGED vars
    BY <2>7 DEF vars, InOwnPool
  <2> QED
    BY <2>2, <2>3, <2>4, <2>5, <2>6, <2>7 DEF Next
<1>3. OInv => AssertionHolds
  BY DEF AssertionHolds
<1> QED
  BY <1>1, <1>2, <1>3, PoolsInvariance, PTL DEF Spec
=============================================================================
