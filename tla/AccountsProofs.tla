--------------------------- MODULE AccountsProofs ---------------------------
(***************************************************************************)
(* Proofs about Accounts: type correctness, that a page lists only         *)
(* accounts that had the key while it was made, that no request fails for  *)
(* up to two chunks of accounts, that a walk lists no account twice for up *)
(* to one chunk, and that it lists every account that keeps the key for as *)
(* many as the chunks cover.                                               *)
(***************************************************************************)
EXTENDS Accounts, FiniteSetTheorems, SequenceTheorems, WellOrder

-----------------------------------------------------------------------------
(* Sequences of addresses. *)

\* The elements of a sequence.
LEMMA Elements ==
  ASSUME NEW S, NEW s \in Seq(S)
  PROVE  /\ DOMAIN s = 1 .. Len(s) /\ Len(s) \in Nat
         /\ \A i \in 1 .. Len(s) : s[i] \in S /\ s[i] \in ToSet(s)
         /\ \A a \in ToSet(s) : \E i \in 1 .. Len(s) : s[i] = a
         /\ ToSet(s) \subseteq S
         /\ s # <<>> <=> Len(s) > 0
         /\ s # <<>> => Last(s) = s[Len(s)] /\ Last(s) \in ToSet(s) /\ Last(s) \in S
<1>1. DOMAIN s = 1 .. Len(s) /\ Len(s) \in Nat /\ \A i \in 1 .. Len(s) : s[i] \in S
  OBVIOUS
<1>2. s # <<>> <=> Len(s) > 0
  BY <1>1, EmptySeq
<1>3. s # <<>> => Len(s) \in 1 .. Len(s)
  BY <1>1, <1>2
<1> QED
  BY <1>1, <1>2, <1>3 DEF ToSet, Last

\* The elements of two sequences in a row.
LEMMA Joined ==
  ASSUME NEW S, NEW s \in Seq(S), NEW t \in Seq(S)
  PROVE  /\ s \o t \in Seq(S) /\ Len(s \o t) = Len(s) + Len(t)
         /\ \A i \in 1 .. Len(s) : (s \o t)[i] = s[i]
         /\ \A i \in 1 .. Len(t) : (s \o t)[Len(s) + i] = t[i]
         /\ ToSet(s \o t) = ToSet(s) \cup ToSet(t)
         /\ t # <<>> => s \o t # <<>> /\ Last(s \o t) = Last(t)
         /\ t = <<>> => s \o t = s
<1>1. /\ s \o t \in Seq(S) /\ Len(s \o t) = Len(s) + Len(t)
      /\ \A i \in 1 .. Len(s) + Len(t) :
           (s \o t)[i] = IF i <= Len(s) THEN s[i] ELSE t[i - Len(s)]
  BY ConcatProperties
<1>2. Len(s) \in Nat /\ Len(t) \in Nat
  OBVIOUS
<1>3. \A i \in 1 .. Len(s) : (s \o t)[i] = s[i]
  BY <1>1, <1>2
<1>4. \A i \in 1 .. Len(t) : (s \o t)[Len(s) + i] = t[i]
  <2> TAKE i \in 1 .. Len(t)
  <2>1. Len(s) + i \in 1 .. Len(s) + Len(t) /\ ~(Len(s) + i <= Len(s)) /\ (Len(s) + i) - Len(s) = i
    BY <1>2
  <2> QED
    BY <1>1, <2>1
<1>5. ToSet(s \o t) = ToSet(s) \cup ToSet(t)
  <2>1. ASSUME NEW a \in ToSet(s \o t)
        PROVE  a \in ToSet(s) \cup ToSet(t)
    <3>1. PICK i \in 1 .. Len(s) + Len(t) : (s \o t)[i] = a
      <4>1. \E i \in 1 .. Len(s \o t) : (s \o t)[i] = a
        BY <1>1, Elements
      <4> QED
        BY <1>1, <4>1
    <3>2. CASE i <= Len(s)
      BY <1>2, <1>3, <3>1, <3>2, Elements
    <3>3. CASE ~(i <= Len(s))
      <4>1. i - Len(s) \in 1 .. Len(t) /\ a = t[i - Len(s)]
        BY <1>1, <1>2, <3>1, <3>3
      <4> QED
        BY <4>1, Elements
    <3> QED
      BY <3>2, <3>3
  <2>2. ASSUME NEW a \in ToSet(s)
        PROVE  a \in ToSet(s \o t)
    <3>1. PICK i \in 1 .. Len(s) : s[i] = a
      BY Elements
    <3>2. i \in 1 .. Len(s \o t) /\ (s \o t)[i] = a
      BY <1>1, <1>2, <1>3, <3>1
    <3> QED
      BY <1>1, <3>2, Elements
  <2>3. ASSUME NEW a \in ToSet(t)
        PROVE  a \in ToSet(s \o t)
    <3>1. PICK i \in 1 .. Len(t) : t[i] = a
      BY Elements
    <3>2. Len(s) + i \in 1 .. Len(s \o t) /\ (s \o t)[Len(s) + i] = a
      BY <1>1, <1>2, <1>4, <3>1
    <3> QED
      BY <1>1, <3>2, Elements
  <2> QED
    BY <2>1, <2>2, <2>3
<1>6. t # <<>> => s \o t # <<>> /\ Last(s \o t) = Last(t)
  <2> SUFFICES ASSUME t # <<>>
               PROVE  s \o t # <<>> /\ Last(s \o t) = Last(t)
    OBVIOUS
  <2>1. Len(t) > 0 /\ Len(t) \in 1 .. Len(t)
    BY <1>2, Elements
  <2>2. Len(s \o t) > 0 /\ (s \o t)[Len(s \o t)] = t[Len(t)]
    BY <1>1, <1>2, <1>4, <2>1
  <2> QED
    BY <1>1, <2>2, Elements DEF Last
<1>7. t = <<>> => s \o t = s
  BY ConcatEmptySeq
<1> QED
  BY <1>1, <1>3, <1>4, <1>5, <1>6, <1>7

\* A part of a sequence.
LEMMA Part ==
  ASSUME NEW S, NEW s \in Seq(S), NEW m \in Nat \ {0}, NEW n \in Nat, n <= Len(s)
  PROVE  /\ SubSeq(s, m, n) \in Seq(S)
         /\ Len(SubSeq(s, m, n)) = IF m <= n THEN n - m + 1 ELSE 0
         /\ \A i \in 1 .. Len(SubSeq(s, m, n)) : SubSeq(s, m, n)[i] = s[m + i - 1]
         /\ \A i \in m .. n : s[i] \in ToSet(SubSeq(s, m, n))
         /\ \A a \in ToSet(SubSeq(s, m, n)) : \E i \in m .. n : s[i] = a
         /\ ToSet(SubSeq(s, m, n)) \subseteq ToSet(s)
<1>1. (Len(s) \in Nat /\ m \in 1 .. Len(s) + 1 /\ n \in 0 .. Len(s)) \/ n < m
  OBVIOUS
<1> DEFINE t == SubSeq(s, m, n)
<1>2. /\ t \in Seq(S)
      /\ Len(t) = IF m <= n THEN n - m + 1 ELSE 0
      /\ \A i \in 1 .. Len(t) : t[i] = s[m + i - 1]
  OBVIOUS
<1> HIDE DEF t
<1>3. \A i \in m .. n : s[i] \in ToSet(t)
  <2> TAKE i \in m .. n
  <2>1. i - m + 1 \in 1 .. Len(t) /\ m + (i - m + 1) - 1 = i
    BY <1>2
  <2>2. t[i - m + 1] = s[i]
    BY <1>2, <2>1
  <2> QED
    BY <1>2, <2>1, <2>2, Elements
<1>4. \A a \in ToSet(t) : \E i \in m .. n : s[i] = a
  <2> TAKE a \in ToSet(t)
  <2>1. PICK i \in 1 .. Len(t) : t[i] = a
    BY <1>2, Elements
  <2>2. m + i - 1 \in m .. n
    BY <1>2, <2>1
  <2> QED
    BY <1>2, <2>1, <2>2
<1>5. ToSet(t) \subseteq ToSet(s)
  <2>1. \A i \in m .. n : i \in 1 .. Len(s)
    OBVIOUS
  <2> QED
    BY <1>4, <2>1, Elements
<1> QED
  BY <1>2, <1>3, <1>4, <1>5 DEF t

-----------------------------------------------------------------------------
(* Sets in their order. *)

\* How many elements of a set are smaller than one of it.
Rank(S, a) == Cardinality({b \in S : b < a})

\* A greater element has a greater rank, and each has its own.
LEMMA RankGrows ==
  ASSUME NEW S \in SUBSET Nat, IsFiniteSet(S)
  PROVE  /\ \A a \in S : Rank(S, a) \in 0 .. Cardinality(S) - 1
         /\ \A a, b \in S : a < b => Rank(S, a) < Rank(S, b)
<1>0. (\A a \in S : a \in Nat) /\ Cardinality(S) \in Nat
  BY FS_CardinalityType
<1>1. ASSUME NEW a \in S
      PROVE  /\ IsFiniteSet({b \in S : b < a}) /\ Rank(S, a) \in Nat
             /\ IsFiniteSet({b \in S : b < a} \cup {a})
             /\ Cardinality({b \in S : b < a} \cup {a}) = Rank(S, a) + 1
  <2>1. {b \in S : b < a} \in SUBSET S /\ a \notin {b \in S : b < a}
    OBVIOUS
  <2>2. IsFiniteSet({b \in S : b < a})
    BY <2>1, FS_Subset
  <2> QED
    BY <2>1, <2>2, FS_CardinalityType, FS_AddElement DEF Rank
<1>2. ASSUME NEW a \in S
      PROVE  Rank(S, a) \in 0 .. Cardinality(S) - 1
  <2>1. {b \in S : b < a} \cup {a} \in SUBSET S
    OBVIOUS
  <2>2. Cardinality({b \in S : b < a} \cup {a}) <= Cardinality(S)
    BY <2>1, FS_Subset
  <2>3. Rank(S, a) + 1 <= Cardinality(S) /\ Rank(S, a) \in Nat
    BY <1>1, <2>2
  <2> QED
    BY <1>0, <2>3
<1>3. ASSUME NEW a \in S, NEW b \in S, a < b
      PROVE  Rank(S, a) < Rank(S, b)
  <2>1. {c \in S : c < a} \cup {a} \in SUBSET {c \in S : c < b}
    <3>1. \A c \in S : c < a => c < b
      <4> TAKE c \in S
      <4>1. a \in Nat /\ b \in Nat /\ c \in Nat
        BY <1>0
      <4> QED
        BY <1>3, <4>1
    <3> QED
      BY <1>3, <3>1
  <2>2. Cardinality({c \in S : c < a} \cup {a}) <= Cardinality({c \in S : c < b})
    BY <1>1, <2>1, FS_Subset
  <2>3. Rank(S, a) + 1 <= Rank(S, b)
    BY <1>1, <2>2 DEF Rank
  <2>4. Rank(S, a) \in Nat /\ Rank(S, b) \in Nat
    BY <1>1
  <2> QED
    BY <2>3, <2>4
<1> QED
  BY <1>2, <1>3

\* There is an element of each rank.
LEMMA Ranks ==
  ASSUME NEW S \in SUBSET Nat, IsFiniteSet(S)
  PROVE  \A i \in 1 .. Cardinality(S) : \E a \in S : Rank(S, a) = i - 1
<1> DEFINE Full(T) == \A i \in 1 .. Cardinality(T) : \E a \in T : Rank(T, a) = i - 1
           Sizes == {n \in Nat : \A T \in SUBSET Nat :
                       IsFiniteSet(T) /\ Cardinality(T) = n => Full(T)}
<1>1. 0 \in Sizes
  OBVIOUS
<1>2. ASSUME NEW n \in Nat, n \in Sizes
      PROVE  n + 1 \in Sizes
  <2> SUFFICES ASSUME NEW T \in SUBSET Nat, IsFiniteSet(T), Cardinality(T) = n + 1,
                      NEW i \in 1 .. n + 1
               PROVE  \E a \in T : Rank(T, a) = i - 1
    OBVIOUS
  <2>1. T # {}
    BY FS_EmptySet
  <2>2. PICK x \in T : \A y \in T : x <= y
    BY <2>1, Smallest
  <2>3. T \ {x} \in SUBSET Nat /\ IsFiniteSet(T \ {x}) /\ Cardinality(T \ {x}) = n
    <3>1. IsFiniteSet(T \ {x}) /\ Cardinality(T \ {x}) = (n + 1) - 1
      BY <2>2, FS_RemoveElement
    <3> QED
      BY <3>1
  <2>4. CASE i = 1
    <3>1. {b \in T : b < x} = {}
      <4>1. \A b \in T : b \in Nat /\ ~(b < x)
        BY <2>2
      <4> QED
        BY <4>1
    <3>2. Rank(T, x) = 0
      BY <3>1, FS_EmptySet DEF Rank
    <3> QED
      BY <2>4, <3>2
  <2>5. CASE i # 1
    <3>1. i - 1 \in 1 .. n
      BY <2>5
    <3>2. PICK a \in T \ {x} : Rank(T \ {x}, a) = (i - 1) - 1
      BY <1>2, <2>3, <3>1
    <3>3. {b \in T : b < a} = {b \in T \ {x} : b < a} \cup {x} /\ x \notin {b \in T \ {x} : b < a}
      BY <2>2
    <3>4. {b \in T \ {x} : b < a} \in SUBSET (T \ {x})
      OBVIOUS
    <3>5. IsFiniteSet({b \in T \ {x} : b < a})
      BY <2>3, <3>4, FS_Subset
    <3>6. Rank(T, a) = Rank(T \ {x}, a) + 1
      BY <3>3, <3>5, FS_AddElement DEF Rank
    <3> QED
      BY <3>1, <3>2, <3>6
  <2> QED
    BY <2>4, <2>5
<1>3. Nat \subseteq Sizes
  <2> HIDE DEF Sizes
  <2> QED
    BY <1>1, <1>2, Induction
<1>4. Cardinality(S) \in Sizes
  BY <1>3, FS_CardinalityType
<1> QED
  BY <1>4

\* Sorted is what it says.
LEMMA SortedSet ==
  ASSUME NEW S \in SUBSET Nat, IsFiniteSet(S)
  PROVE  /\ Sorted(S) \in Seq(S) /\ Len(Sorted(S)) = Cardinality(S) /\ Cardinality(S) \in Nat
         /\ ToSet(Sorted(S)) = S /\ Rising(Sorted(S))
         /\ Sorted(S) = <<>> <=> S = {}
<1> DEFINE n == Cardinality(S)
           s == Sorted(S)
<1>1. n \in Nat /\ (n = 0 <=> S = {})
  BY FS_CardinalityType, FS_EmptySet
<1>2. \A i \in 1 .. n : s[i] \in S /\ Rank(S, s[i]) = i - 1
  <2> TAKE i \in 1 .. n
  <2>1. \E a \in S : Cardinality({b \in S : b < a}) = i - 1
    BY Ranks DEF Rank
  <2>2. s[i] = CHOOSE a \in S : Cardinality({b \in S : b < a}) = i - 1
    BY DEF Sorted
  <2> QED
    BY <2>1, <2>2 DEF Rank
<1>3. s \in [1 .. n -> S]
  <2> DEFINE element(i) == CHOOSE a \in S : Cardinality({b \in S : b < a}) = i - 1
  <2>1. s = [i \in 1 .. n |-> element(i)]
    BY DEF Sorted
  <2> HIDE DEF s, n, element
  <2>2. \A i \in 1 .. n : s[i] = element(i)
    BY <2>1
  <2> QED
    BY <1>2, <2>1, <2>2
<1> HIDE DEF s, n
<1>4. s \in Seq(S) /\ Len(s) = n
  BY <1>1, <1>3, IsASeq
<1>5. S \subseteq ToSet(s)
  <2> SUFFICES ASSUME NEW a \in S
               PROVE  a \in ToSet(s)
    OBVIOUS
  <2>1. Rank(S, a) \in 0 .. n - 1
    BY RankGrows DEF n
  <2>2. Rank(S, a) + 1 \in 1 .. n /\ (Rank(S, a) + 1) - 1 = Rank(S, a)
    BY <1>1, <2>1
  <2> DEFINE b == s[Rank(S, a) + 1]
  <2>3. b \in S /\ Rank(S, b) = Rank(S, a) /\ b \in ToSet(s)
    BY <1>2, <1>4, <2>2, Elements
  <2> HIDE DEF b
  <2>4. a = b
    <3>1. Rank(S, b) \in Nat
      BY <2>1, <2>3, <1>1
    <3>2. ~(Rank(S, a) < Rank(S, b)) /\ ~(Rank(S, b) < Rank(S, a))
      BY <2>3, <3>1
    <3>3. ~(a < b) /\ ~(b < a) /\ a \in Nat /\ b \in Nat
      BY <2>3, <3>2, RankGrows
    <3> QED
      BY <3>3
  <2> QED
    BY <2>3, <2>4
<1>6. Rising(s)
  <2> SUFFICES ASSUME NEW i \in 1 .. n, NEW j \in 1 .. n, i < j
               PROVE  s[i] < s[j]
    BY <1>4 DEF Rising
  <2>1. /\ s[i] \in S /\ s[i] \in Nat /\ Rank(S, s[i]) = i - 1
        /\ s[j] \in S /\ s[j] \in Nat /\ Rank(S, s[j]) = j - 1
    BY <1>2
  <2>2. ~(Rank(S, s[j]) < Rank(S, s[i])) /\ Rank(S, s[i]) # Rank(S, s[j])
    BY <1>1, <2>1
  <2>3. ~(s[j] < s[i]) /\ s[i] # s[j]
    BY <2>1, <2>2, RankGrows
  <2> QED
    BY <2>1, <2>3
<1>7. ToSet(s) \subseteq S /\ (s = <<>> <=> S = {})
  BY <1>1, <1>4, Elements
<1> QED
  BY <1>1, <1>4, <1>5, <1>6, <1>7 DEF s, n

-----------------------------------------------------------------------------
(* The arithmetic of chunks. *)

LEMMA Multiples ==
  ASSUME NEW c \in Nat \ {0}, NEW i \in Nat, NEW j \in Nat
  PROVE  /\ i * c \in Nat
         /\ i <= j => i * c <= j * c
         /\ i < j => i * c + c <= j * c
         /\ i * c < j * c => i < j
<1>1. i * c \in Nat /\ (i <= j => i * c <= j * c) /\ (i < j => i * c + c <= j * c)
  OBVIOUS
<1>2. j <= i => j * c <= i * c
  OBVIOUS
<1>3. j * c \in Nat
  OBVIOUS
<1> QED
  BY <1>1, <1>2, <1>3

\* The chunks of n addresses are as many as it takes to hold them.
LEMMA ChunkCount ==
  ASSUME NEW n \in Nat
  PROVE  /\ Chunks(n) \in Nat
         /\ n > 0 => Chunks(n) > 0
         /\ n <= Chunk => Chunks(n) <= 1
         /\ n > Chunk => Chunks(n) > 1
         /\ \A i \in 0 .. Chunks(n) - 1 : ChunkStart(i) \in Nat /\ ChunkStart(i) < n
<1> DEFINE k == Chunks(n)
<1>1. Chunk \in Nat \ {0} /\ n + Chunk - 1 \in Nat
  BY AccountsAssumption
<1>2. k \in Nat /\ k * Chunk <= n + Chunk - 1 /\ n + Chunk - 1 < k * Chunk + Chunk
  BY <1>1 DEF Chunks
<1> HIDE DEF k
<1>3. k * Chunk \in Nat /\ 1 * Chunk = Chunk /\ 0 * Chunk = 0
  BY <1>1, <1>2
<1>4. n <= k * Chunk /\ k * Chunk < n + Chunk
  BY <1>1, <1>2, <1>3
<1>5. n > 0 => k > 0
  <2>1. k = 0 => k * Chunk = 0
    BY <1>3
  <2> QED
    BY <1>2, <1>4, <2>1
<1>6. n > Chunk => k > 1
  <2>1. k <= 1 => k * Chunk <= 1 * Chunk
    BY <1>1, <1>2, Multiples
  <2> QED
    BY <1>1, <1>2, <1>3, <1>4, <2>1
<1>7. n <= Chunk => k <= 1
  <2>1. 1 < k => 1 * Chunk + Chunk <= k * Chunk
    BY <1>1, <1>2, Multiples
  <2> QED
    BY <1>1, <1>2, <1>3, <1>4, <2>1
<1>8. ASSUME NEW i \in 0 .. k - 1
      PROVE  ChunkStart(i) \in Nat /\ ChunkStart(i) < n
  <2>1. i \in Nat /\ i < k
    BY <1>2
  <2>2. i * Chunk \in Nat /\ i * Chunk + Chunk <= k * Chunk
    BY <1>1, <1>2, <2>1, Multiples
  <2> QED
    BY <1>1, <1>3, <1>4, <2>2 DEF ChunkStart
<1> QED
  BY <1>2, <1>5, <1>6, <1>7, <1>8 DEF k

\* A chunk ends within the addresses, and after its start for up to two chunks of them.
LEMMA ChunkEnds ==
  ASSUME NEW n \in Nat, NEW i \in 0 .. Chunks(n) - 1
  PROVE  /\ ChunkEnd(i, n) \in 0 .. n
         /\ SliceFails(i, n) => n > 2 * Chunk
<1>1. Chunk \in Nat /\ Chunk > 0 /\ Chunks(n) \in Nat /\ i \in Nat
      /\ ChunkStart(i) \in Nat /\ ChunkStart(i) < n /\ ChunkStart(i) = i * Chunk
  BY ChunkCount, AccountsAssumption DEF ChunkStart
<1>2. ChunkEnd(i, n) = IF (i + 1) + Chunk > n THEN n ELSE (i + 1) + Chunk
  BY DEF ChunkEnd
<1>3. ChunkEnd(i, n) \in 0 .. n
  BY <1>1, <1>2
<1>4. ASSUME SliceFails(i, n)
      PROVE  n > 2 * Chunk
  <2>1. i * Chunk > (i + 1) + Chunk
    BY <1>1, <1>2, <1>3, <1>4 DEF SliceFails
  <2>2. i > 1
    <3>1. i = 0 => i * Chunk = 0
      BY <1>1
    <3>2. i = 1 => i * Chunk = Chunk
      BY <1>1
    <3> QED
      BY <1>1, <2>1, <3>1, <3>2
  <2>3. 2 * Chunk <= i * Chunk
    BY <1>1, <2>2, Multiples
  <2> QED
    BY <1>1, <2>3
<1> QED
  BY <1>3, <1>4

\* Where the slices fall short by little, the chunks meet, and come to the end.
LEMMA ChunksMeet ==
  ASSUME NEW n \in Nat, n <= Chunk + 2, NEW i \in 0 .. Chunks(n) - 1
  PROVE  /\ ~SliceFails(i, n) \/ n > 2 * Chunk
         /\ i # 0 => ChunkEnd(i - 1, n) \in 0 .. n /\ ChunkStart(i) <= ChunkEnd(i - 1, n)
         /\ i = 0 => ChunkStart(i) = 0
         /\ i + 1 = Chunks(n) => ChunkEnd(i, n) = n
<1>1. Chunk \in Nat /\ Chunk > 0 /\ Chunks(n) \in Nat /\ i \in Nat /\ n > 0
      /\ ChunkStart(i) \in Nat /\ ChunkStart(i) < n /\ ChunkStart(i) = i * Chunk
  BY ChunkCount, AccountsAssumption DEF ChunkStart
<1>2. i # 0 => ChunkEnd(i - 1, n) \in 0 .. n /\ ChunkStart(i) <= ChunkEnd(i - 1, n)
  BY <1>1 DEF ChunkEnd
<1>3. i + 1 = Chunks(n) => ChunkEnd(i, n) = n
  <2> SUFFICES ASSUME i + 1 = Chunks(n)
               PROVE  ~(n > (i + 1) + Chunk)
    BY <1>1 DEF ChunkEnd
  <2>1. n > Chunk => i + 1 > 1
    BY ChunkCount
  <2> QED
    BY <1>1, <2>1
<1>4. i = 0 => ChunkStart(i) = 0
  BY <1>1
<1> QED
  BY <1>2, <1>3, <1>4, ChunkEnds

\* All of the addresses are in a chunk then.
LEMMA AllCovered ==
  ASSUME NEW n \in Nat, n <= Chunk + 2, n > 0
  PROVE  Covered(n) = n
<1>1. /\ Chunk \in Nat /\ Chunk > 0 /\ Chunks(n) \in Nat /\ Chunks(n) > 0
      /\ n > Chunk => Chunks(n) > 1
  BY ChunkCount, AccountsAssumption
<1>2. ASSUME NEW i \in 0 .. Chunks(n) - 1
      PROVE  ChunkStart(i) + 1 .. ChunkEnd(i, n) \subseteq 1 .. n
  <2>1. ChunkStart(i) \in Nat /\ ChunkEnd(i, n) \in 0 .. n
    BY ChunkCount, ChunkEnds
  <2> QED
    BY <2>1
<1>3. ASSUME NEW j \in 1 .. n
      PROVE  \E i \in 0 .. Chunks(n) - 1 : j \in ChunkStart(i) + 1 .. ChunkEnd(i, n)
  <2>1. CASE j <= Chunk + 1
    <3>1. 0 \in 0 .. Chunks(n) - 1
      BY <1>1
    <3>2. ChunkStart(0) = 0 /\ ChunkEnd(0, n) = IF Chunk + 1 > n THEN n ELSE Chunk + 1
      BY <1>1 DEF ChunkStart, ChunkEnd
    <3>3. j \in ChunkStart(0) + 1 .. ChunkEnd(0, n)
      BY <1>1, <2>1, <3>2
    <3> QED
      BY <3>1, <3>3
  <2>2. CASE j > Chunk + 1
    <3>1. 1 \in 0 .. Chunks(n) - 1 /\ j = n /\ n = Chunk + 2
      BY <1>1, <2>2
    <3>2. ChunkStart(1) = Chunk /\ ChunkEnd(1, n) = n
      BY <1>1, <3>1 DEF ChunkStart, ChunkEnd
    <3>3. j \in ChunkStart(1) + 1 .. ChunkEnd(1, n)
      BY <1>1, <3>1, <3>2
    <3> QED
      BY <3>1, <3>3
  <2> QED
    BY <1>1, <2>1, <2>2
<1> DEFINE part(i) == ChunkStart(i) + 1 .. ChunkEnd(i, n)
           all == UNION {part(i) : i \in 0 .. Chunks(n) - 1}
<1>4. all = 1 .. n
  BY <1>2, <1>3
<1>5. Cardinality(1 .. n) = n
  <2>1. 1 \in Int /\ n \in Int
    OBVIOUS
  <2> QED
    BY <2>1, FS_Interval
<1>6. Covered(n) = Cardinality(all)
  BY DEF Covered
<1> HIDE DEF all
<1> QED
  BY <1>4, <1>5, <1>6

-----------------------------------------------------------------------------
(* Account rows. *)

LEMMA HeightsAre == Heights \subseteq Nat /\ 0 \in Heights /\ 1 \in Heights
BY AccountsAssumption DEF Heights

LEMMA RowFields ==
  ASSUME NEW r \in Row
  PROVE  r.address \in Addresses /\ r.address \in Nat /\ r.height \in Heights /\ r.height \in Nat
         /\ r.holds \in BOOLEAN
BY HeightsAre, AccountsAssumption DEF Row

\* The last block is that of a row, or block 1.
LEMMA Blocks ==
  ASSUME rows \subseteq Row
  PROVE  /\ LastBlock \in Heights /\ LastBlock \in Nat /\ LastBlock >= 1
         /\ \A r \in rows : r.height <= LastBlock
         /\ LastBlock = 1 \/ \E r \in rows : r.height = LastBlock
<1> DEFINE hs == {1} \cup {r.height : r \in rows}
<1>1. MaxUpdates + 1 \in Nat /\ hs \in SUBSET (0 .. MaxUpdates + 1) /\ hs # {}
  BY HeightsAre, RowFields, AccountsAssumption DEF Heights
<1>2. Max(hs) \in hs /\ \A y \in hs : y <= Max(hs)
  <2> HIDE DEF hs
  <2> QED
    BY <1>1, MaxOfNaturals
<1>3. LastBlock = Max(hs)
  BY DEF LastBlock
<1>4. Max(hs) \in Heights /\ Max(hs) \in Nat
  BY <1>1, <1>2, HeightsAre DEF Heights
<1> QED
  BY <1>2, <1>3, <1>4

\* The newest row of an account is one of its rows, and none is newer.
LEMMA NewestRow ==
  ASSUME rows \subseteq Row, NEW a, RowsOf({a}) # {}
  PROVE  Newest(a) \in RowsOf({a}) /\ \A s \in RowsOf({a}) : s.height <= Newest(a).height
<1> DEFINE hs == {r.height : r \in RowsOf({a})}
<1>1. MaxUpdates + 1 \in Nat /\ hs \in SUBSET (0 .. MaxUpdates + 1) /\ hs # {}
  BY RowFields, AccountsAssumption DEF Heights, RowsOf
<1>2. \E h \in hs : \A y \in hs : y <= h
  <2> HIDE DEF hs
  <2> QED
    BY <1>1, Largest
<1>3. \E r \in RowsOf({a}) : \A s \in RowsOf({a}) : s.height <= r.height
  BY <1>2
<1> QED
  BY <1>3 DEF Newest

\* Who ever had the key are the accounts of the rows that hold it; they are finitely many,
\* and those up to a height, and those that have it still, are among them.
LEMMA EverHolding ==
  ASSUME rows \subseteq Row, IsFiniteSet(rows)
  PROVE  /\ \A a : a \in EverHeld <=> \E r \in rows : r.holds /\ r.address = a
         /\ EverHeld \subseteq Addresses /\ EverHeld \subseteq Nat /\ IsFiniteSet(EverHeld)
         /\ Cardinality(EverHeld) \in Nat
         /\ \A h : AddressesOf(h) \subseteq EverHeld
         /\ Holders \subseteq EverHeld
<1>1. \A a : a \in EverHeld <=> \E r \in rows : r.holds /\ r.address = a
  BY Blocks DEF EverHeld, AddressesOf
<1>2. EverHeld \subseteq Addresses /\ EverHeld \subseteq Nat
  BY <1>1, RowFields
<1>3. IsFiniteSet(EverHeld)
  <2> DEFINE held == {r \in rows : r.holds}
             f == [r \in held |-> r.address]
  <2>1. IsFiniteSet(held)
    BY FS_Subset
  <2>2. f \in Surjection(held, EverHeld)
    BY <1>1 DEF Surjection
  <2> HIDE DEF held, f
  <2> QED
    BY <2>1, <2>2, FS_Surjection
<1>4. \A h : AddressesOf(h) \subseteq EverHeld
  BY <1>1 DEF AddressesOf
<1>5. Holders \subseteq EverHeld
  <2> SUFFICES ASSUME NEW a \in Addresses, HasKey(a)
               PROVE  a \in EverHeld
    BY DEF Holders
  <2>1. Newest(a) \in RowsOf({a}) /\ Newest(a).holds
    BY NewestRow DEF HasKey
  <2> QED
    BY <1>1, <2>1 DEF RowsOf
<1> QED
  BY <1>1, <1>2, <1>3, <1>4, <1>5, FS_CardinalityType

\* The same in one formula, of the rows before and after a step.
Told ==
  /\ LastBlock \in Nat /\ (LastBlock = 1 \/ \E r \in rows : r.height = LastBlock)
  /\ \A a : RowsOf({a}) # {} =>
       Newest(a) \in RowsOf({a}) /\ \A s \in RowsOf({a}) : s.height <= Newest(a).height
  /\ IsFiniteSet(rows) =>
       /\ \A a : a \in EverHeld <=> \E r \in rows : r.holds /\ r.address = a
       /\ IsFiniteSet(EverHeld) /\ Cardinality(EverHeld) \in Nat /\ EverHeld \subseteq Addresses

\* It holds as long as the rows are rows, in every state and so after every step.
LEMMA RowsNow == rows \subseteq Row => Told
BY Blocks, NewestRow, EverHolding DEF Told

\* The same after a step.
LEMMA RowsThen == (rows \subseteq Row => Told)'
BY RowsNow, PTL

\* A row of a new height decides whether its account has the key; those who ever had it,
\* and those who had it up to a height, still did.
LEMMA Inserted ==
  ASSUME Inv, NEW a \in Changing, NEW holds \in BOOLEAN, InsertRow(a, holds)
  PROVE  /\ rows' \subseteq Row /\ IsFiniteSet(rows')
         /\ (LastBlock <= 1 + Cardinality({r \in rows : r.height > 1}))'
         /\ \A h : AddressesOf(h) \subseteq AddressesOf(h)'
         /\ EverHeld \subseteq EverHeld' /\ Cardinality(EverHeld) <= Cardinality(EverHeld')
         /\ Holders' \subseteq IF holds THEN Holders \cup {a} ELSE Holders \ {a}
         /\ Lost(a, holds, Holders) \subseteq Holders'
<1>1. /\ rows \subseteq Row /\ IsFiniteSet(rows)
      /\ LastBlock <= 1 + Cardinality({r \in rows : r.height > 1})
  BY DEF Inv, TypeOK
<1>2. PICK h \in {LastBlock, LastBlock + 1} \ {1} :
        /\ \A r \in RowsOf({a}) : r.height < h
        /\ rows' = rows \cup {[address |-> a, height |-> h, holds |-> holds]}
  BY DEF InsertRow
<1> DEFINE new == [address |-> a, height |-> h, holds |-> holds]
<1>3. new.address = a /\ new.height = h /\ new.holds = holds
  OBVIOUS
<1>4. LastBlock \in Nat /\ LastBlock >= 1 /\ h \in Nat /\ h > 1 /\ h <= LastBlock + 1
  BY <1>1, <1>2, Blocks
<1>5. a \in Addresses /\ a \in Nat /\ MaxUpdates \in Nat
  BY AccountsAssumption
<1> DEFINE late == {r \in rows : r.height > 1}
<1>6. IsFiniteSet(late) /\ Cardinality(late) \in Nat /\ Cardinality(late) < MaxUpdates
  <2>1. late \in SUBSET rows
    OBVIOUS
  <2> QED
    BY <1>1, <2>1, FS_Subset, FS_CardinalityType DEF InsertRow
<1>7. h \in Heights /\ new \in Row
  <2>1. h <= MaxUpdates + 1
    BY <1>1, <1>4, <1>5, <1>6
  <2>2. h \in Heights
    BY <1>4, <1>5, <2>1 DEF Heights
  <2> QED
    BY <1>5, <2>2 DEF Row
<1>8. new \notin rows
  <2> SUFFICES ASSUME new \in rows
               PROVE  FALSE
    OBVIOUS
  <2>1. new \in RowsOf({a})
    BY <1>3 DEF RowsOf
  <2>2. h < h
    BY <1>2, <1>3, <2>1
  <2> QED
    BY <1>4, <2>2
<1> HIDE DEF new
<1>9. rows' = rows \cup {new} /\ rows' \subseteq Row /\ IsFiniteSet(rows')
  <2>1. rows' = rows \cup {new}
    BY <1>2 DEF new
  <2> QED
    BY <1>1, <1>7, <2>1, FS_AddElement
<1>10. (LastBlock <= 1 + Cardinality({r \in rows : r.height > 1}))'
  <2>1. {r \in rows' : r.height > 1} = late \cup {new} /\ new \notin late
    BY <1>3, <1>4, <1>8, <1>9
  <2>2. Cardinality({r \in rows' : r.height > 1}) = Cardinality(late) + 1
    BY <1>6, <2>1, FS_AddElement
  <2>3. /\ LastBlock' \in Nat
        /\ LastBlock' = 1 \/ \E r \in rows' : r.height = LastBlock'
    BY <1>9, RowsThen DEF Told
  <2>4. \A r \in rows : r.height \in Nat /\ r.height <= LastBlock
    BY <1>1, Blocks, RowFields
  <2>5. LastBlock' <= LastBlock + 1
    BY <1>3, <1>4, <1>9, <2>3, <2>4
  <2> QED
    BY <1>1, <1>4, <1>6, <2>2, <2>3, <2>5
<1>11. \A k : AddressesOf(k) \subseteq AddressesOf(k)'
  BY <1>9 DEF AddressesOf
<1>12. EverHeld \subseteq EverHeld' /\ Cardinality(EverHeld) <= Cardinality(EverHeld')
  <2>1. /\ \A b : b \in EverHeld <=> \E r \in rows : r.holds /\ r.address = b
        /\ \A b : b \in EverHeld' <=> \E r \in rows' : r.holds /\ r.address = b
        /\ IsFiniteSet(EverHeld')
    BY <1>1, <1>9, EverHolding, RowsThen DEF Told
  <2>2. EverHeld \in SUBSET EverHeld'
    BY <1>9, <2>1
  <2> QED
    BY <2>1, <2>2, FS_Subset
<1>13. ASSUME NEW b \in Addresses, b # a
       PROVE  HasKey(b)' <=> HasKey(b)
  <2>1. RowsOf({b})' = RowsOf({b})
    BY <1>3, <1>9, <1>13 DEF RowsOf
  <2>2. Newest(b)' = Newest(b)
    BY <2>1 DEF Newest
  <2> QED
    BY <2>1, <2>2 DEF HasKey
<1>14. HasKey(a)' <=> holds
  <2>1. /\ RowsOf({a})' = RowsOf({a}) \cup {new}
        /\ \A r \in RowsOf({a}) : r.height < h /\ r.height \in Nat
    BY <1>1, <1>2, <1>3, <1>9, RowFields DEF RowsOf
  <2>2. /\ Newest(a)' \in RowsOf({a})'
        /\ \A s \in RowsOf({a})' : s.height <= Newest(a)'.height
    BY <1>9, <2>1, RowsThen DEF Told
  <2>3. Newest(a)' = new
    <3>1. new.height <= Newest(a)'.height
      BY <2>1, <2>2
    <3>2. Newest(a)' \notin RowsOf({a})
      <4>1. \A r \in RowsOf({a}) : ~(h <= r.height)
        BY <1>4, <2>1
      <4> QED
        BY <1>3, <3>1, <4>1
    <3> QED
      BY <2>1, <2>2, <3>2
  <2> QED
    BY <1>3, <2>1, <2>3 DEF HasKey
<1>15. /\ Holders' \subseteq IF holds THEN Holders \cup {a} ELSE Holders \ {a}
       /\ Lost(a, holds, Holders) \subseteq Holders'
  BY <1>13, <1>14 DEF Holders, Lost
<1> QED
  BY <1>9, <1>10, <1>11, <1>12, <1>15

\* What is right of a request or of a page depends on the rows alone.
LEMMA SameRows ==
  ASSUME UNCHANGED rows
  PROVE  /\ \A q : RequestRight(q)' <=> RequestRight(q)
         /\ \A p : PageRight(p)' <=> PageRight(p)
         /\ EverHeld' = EverHeld /\ LastBlock' = LastBlock /\ Holders' = Holders
<1>1. /\ EverHeld' = EverHeld /\ LastBlock' = LastBlock /\ Holders' = Holders
      /\ \A h : AddressesOf(h)' = AddressesOf(h)
  BY DEF EverHeld, LastBlock, Holders, HasKey, Newest, RowsOf, AddressesOf
<1>2. \A q : Forward(q)' <=> Forward(q)
  BY DEF Forward, Chunks
<1>3. \A q : Fits(q)' <=> Fits(q)
  BY <1>1 DEF Fits
<1>4. \A o : (EverHeldAt(o)' <=> EverHeldAt(o)) /\ \A s : InOrder(o, s)' <=> InOrder(o, s)
  BY <1>1 DEF EverHeldAt, InOrder, Rising, Reached
<1>5. \A q : Ordered(q)' <=> Ordered(q)
  BY <1>1, <1>4 DEF Ordered
<1>6. \A p : Covers(p)' <=> Covers(p)
  BY DEF Covers, Reached
<1>7. \A q : Covering(q)' <=> Covering(q)
  BY <1>1, <1>6 DEF Covering, Reached, Taken, ChunkEnd
<1>8. \A p : PageRight(p)' <=> PageRight(p)
  BY <1>1, <1>4, <1>6 DEF PageRight
<1> QED
  BY <1>1, <1>2, <1>3, <1>5, <1>7, <1>8 DEF RequestRight

-----------------------------------------------------------------------------
(* What the steps of a request do to it. *)

\* The fields of a request.
LEMMA RequestFields ==
  ASSUME NEW q \in RequestType
  PROVE  /\ q.offset \in Offsets \cup {NoOffset} /\ q.top \in Heights \cup {NilHeight}
         /\ q.stage \in {"top", "addresses", "chunks", "end", "failed"}
         /\ q.rest \in Seq(Addresses) /\ q.items \in Seq(Addresses) /\ q.chunk \in Nat
         /\ q.kept \subseteq Addresses /\ q.held \subseteq Addresses
BY DEF RequestType

\* A request that begins knows nothing but who has the key.
LEMMA Beginning ==
  ASSUME Inv, NEW offset \in Links, NEW mine \in BOOLEAN
  PROVE  /\ Request(offset, mine) \in RequestType /\ RequestRight(Request(offset, mine))
         /\ Request(offset, mine).offset = offset /\ Request(offset, mine).mine = mine
<1>1. /\ TypeOK /\ rows \subseteq Row /\ IsFiniteSet(rows)
      /\ EverHeldAt(link) /\ \A p \in cache : EverHeldAt(p.next)
  BY DEF Inv, TypeOK, PageRight, ClientRight
<1>2. offset \in Offsets \cup {NoOffset} /\ EverHeldAt(offset)
  BY <1>1 DEF Links, TypeOK, PageType, EverHeldAt
<1> DEFINE r == Request(offset, mine)
<1>3. /\ r.offset = offset /\ r.mine = mine /\ r.joined = FALSE /\ r.shared = FALSE
      /\ r.stage = "top" /\ r.top = NilHeight /\ r.rest = <<>> /\ r.chunk = 0
      /\ r.items = <<>> /\ r.kept = Holders /\ r.held = Holders
  BY DEF Request
<1>4. r \in RequestType
  <2>1. <<>> \in Seq(Addresses) /\ Holders \in SUBSET Addresses
    BY DEF Holders
  <2> QED
    BY <1>2, <2>1 DEF Request, RequestType
<1> HIDE DEF r
<1>5. ToSet(<<>>) = {} /\ Len(<<>>) = 0 /\ \A s : s = <<>> => Rising(s)
  BY DEF ToSet, Rising
<1>6. Forward(r)
  BY <1>3 DEF Forward
<1>7. Fits(r)
  BY <1>1, <1>3, <1>5, EverHolding DEF Fits
<1>8. Ordered(r)
  BY <1>2, <1>3, <1>5 DEF Ordered, InOrder
<1>9. Covering(r)
  BY <1>3 DEF Covering
<1> QED
  BY <1>3, <1>4, <1>6, <1>7, <1>8, <1>9 DEF RequestRight, r

\* Who asks for it makes no difference to a request.
LEMMA SameRight ==
  ASSUME NEW q, NEW r, RequestRight(q),
         r.offset = q.offset, r.stage = q.stage, r.top = q.top, r.rest = q.rest,
         r.chunk = q.chunk, r.items = q.items, r.kept = q.kept, r.held = q.held
  PROVE  RequestRight(r)
<1>1. Forward(r)
  BY DEF RequestRight, Forward
<1>2. Fits(r)
  BY DEF RequestRight, Fits
<1>3. Ordered(r)
  BY DEF RequestRight, Ordered
<1>4. Covering(r)
  BY DEF RequestRight, Covering, Covers, Taken
<1> QED
  BY <1>1, <1>2, <1>3, <1>4 DEF RequestRight

\* A row that is inserted makes no request wrong that is told of it.
LEMMA InsertedRight ==
  ASSUME Inv, NEW a \in Changing, NEW holds \in BOOLEAN, InsertRow(a, holds),
         NEW q \in RequestType, RequestRight(q), NEW r \in RequestType,
         r.offset = q.offset, r.stage = q.stage, r.top = q.top, r.rest = q.rest,
         r.chunk = q.chunk, r.items = q.items, r.kept = Lost(a, holds, q.kept),
         r.held = IF holds THEN q.held \cup {a} ELSE q.held
  PROVE  RequestRight(r)'
<1>0. rows \subseteq Row /\ IsFiniteSet(rows)
  BY DEF Inv, TypeOK
<1>1. /\ rows' \subseteq Row /\ IsFiniteSet(rows')
      /\ \A h : AddressesOf(h) \subseteq AddressesOf(h)'
      /\ EverHeld \subseteq EverHeld' /\ Cardinality(EverHeld) <= Cardinality(EverHeld')
      /\ Holders' \subseteq IF holds THEN Holders \cup {a} ELSE Holders \ {a}
      /\ Lost(a, holds, Holders) \subseteq Holders'
  BY Inserted
<1>2. /\ Cardinality(EverHeld) \in Nat /\ Cardinality(EverHeld') \in Nat
      /\ Chunk \in Nat /\ Len(q.rest) \in Nat
  BY <1>0, <1>1, EverHolding, RowsThen, RequestFields, AccountsAssumption DEF Told
<1>3. r.kept \subseteq q.kept
  BY DEF Lost
<1>4. Forward(r)'
  BY DEF RequestRight, Forward, Chunks
<1>5. Fits(r)'
  <2>1. r.kept \subseteq Holders' /\ Holders' \subseteq r.held
    BY <1>1 DEF RequestRight, Fits, Lost
  <2>2. ToSet(r.items) \subseteq r.held \cap EverHeld' /\ ToSet(r.rest) \subseteq EverHeld'
    BY <1>1 DEF RequestRight, Fits
  <2>3. Len(r.rest) <= Cardinality(EverHeld')
    BY <1>1, <1>2 DEF RequestRight, Fits
  <2>4. r.stage = "failed" => Cardinality(EverHeld') > 2 * Chunk
    BY <1>1, <1>2 DEF RequestRight, Fits
  <2> QED
    BY <2>1, <2>2, <2>3, <2>4 DEF Fits
<1>6. Ordered(r)'
  <2>1. \A o, s : InOrder(o, s)' <=> InOrder(o, s)
    BY DEF InOrder, Rising, Reached
  <2>2. EverHeldAt(q.offset)'
    BY <1>1 DEF RequestRight, Ordered, EverHeldAt
  <2>3. Cardinality(EverHeld') <= Chunk => Cardinality(EverHeld) <= Chunk
    BY <1>1, <1>2
  <2> QED
    BY <2>1, <2>2, <2>3 DEF RequestRight, Ordered
<1>7. Covering(r)'
  <2> SUFFICES ASSUME Cardinality(EverHeld') <= Chunk + 2
               PROVE  /\ r.stage = "addresses" =>
                           /\ r.kept \subseteq AddressesOf(r.top)'
                           /\ r.offset # NoOffset => r.offset[2] \in AddressesOf(r.top)'
                      /\ r.stage = "chunks" =>
                           /\ \A b \in r.kept : Reached(r.offset, b) => b \in ToSet(r.rest)
                           /\ \A i \in 1 .. Taken(r) : r.rest[i] \in r.kept => r.rest[i] \in ToSet(r.items)
                      /\ r.stage = "end" => Covers(r)
    BY DEF Covering, Reached, Taken, ChunkEnd, Covers
  <2>1. Cardinality(EverHeld) <= Chunk + 2
    BY <1>1, <1>2
  <2>2. Taken(r) = Taken(q)
    BY DEF Taken
  <2>3. r.stage = "end" => Covers(r)
    BY <1>3, <2>1 DEF RequestRight, Covering, Covers
  <2> QED
    BY <1>1, <1>3, <2>1, <2>2, <2>3 DEF RequestRight, Covering
<1> QED
  BY <1>4, <1>5, <1>6, <1>7 DEF RequestRight

\* Nor a page.
LEMMA InsertedPageRight ==
  ASSUME Inv, NEW a \in Changing, NEW holds \in BOOLEAN, InsertRow(a, holds),
         NEW p \in PageType, PageRight(p), NEW r \in PageType,
         r.offset = p.offset, r.items = p.items, r.next = p.next, r.kept = Lost(a, holds, p.kept)
  PROVE  PageRight(r)'
<1>1. /\ rows \subseteq Row /\ IsFiniteSet(rows)
      /\ rows' \subseteq Row /\ IsFiniteSet(rows')
      /\ EverHeld \subseteq EverHeld' /\ Cardinality(EverHeld) <= Cardinality(EverHeld')
  BY Inserted DEF Inv, TypeOK
<1>2. Cardinality(EverHeld) \in Nat /\ Cardinality(EverHeld') \in Nat /\ Chunk \in Nat
  BY <1>1, EverHolding, RowsThen, AccountsAssumption DEF Told
<1>3. EverHeldAt(r.next)'
  BY <1>1 DEF PageRight, EverHeldAt
<1>4. Cardinality(EverHeld') <= Chunk => InOrder(r.offset, r.items)'
  <2>1. \A o, s : InOrder(o, s)' <=> InOrder(o, s)
    BY DEF InOrder, Rising, Reached
  <2> QED
    BY <1>1, <1>2, <2>1 DEF PageRight
<1>5. Cardinality(EverHeld') <= Chunk + 2 => Covers(r)'
  <2>1. Cardinality(EverHeld') <= Chunk + 2 => Covers(p)
    BY <1>1, <1>2 DEF PageRight
  <2>2. r.kept \subseteq p.kept
    BY DEF Lost
  <2> QED
    BY <2>1, <2>2 DEF Covers, Reached
<1> QED
  BY <1>3, <1>4, <1>5 DEF PageRight

\* A step of a request leaves the rest alone, and makes of it another one that is right.
Served(q) ==
  \E r \in RequestType :
    /\ Replace(q, r) /\ UNCHANGED <<rows, answered, cache, client>>
    /\ r.offset = q.offset /\ r.mine = q.mine /\ RequestRight(r)

\* The newest height: with no more accounts than the chunks cover it is that of all of them.
LEMMA TopServed ==
  ASSUME Inv, NEW q \in requests, QueryTop(q)
  PROVE  Served(q)
<1>1. /\ TypeOK /\ rows \subseteq Row /\ IsFiniteSet(rows)
      /\ q \in RequestType /\ RequestRight(q) /\ q.stage = "top"
      /\ UNCHANGED <<rows, answered, cache, client>>
  BY DEF Inv, TypeOK, QueryTop
<1> DEFINE ever == AddressesOf(LastBlock)
           n == Cardinality(ever)
<1>2. ever = EverHeld /\ IsFiniteSet(EverHeld) /\ n \in Nat
  BY <1>1, EverHolding DEF EverHeld
<1>3. /\ q.items = <<>> /\ q.chunk = 0 /\ q.kept \subseteq EverHeld
      /\ EverHeldAt(q.offset)
  BY <1>1, EverHolding DEF RequestRight, Forward, Fits, Ordered
<1>4. CASE ever = {} /\ Replace(q, [q EXCEPT !.stage = "end"])
  <2> DEFINE r == [q EXCEPT !.stage = "end"]
  <2>1. /\ r \in RequestType
        /\ r.offset = q.offset /\ r.mine = q.mine /\ r.stage = "end" /\ r.top = q.top
        /\ r.rest = q.rest /\ r.chunk = q.chunk /\ r.items = q.items /\ r.kept = q.kept
        /\ r.held = q.held
    BY <1>1 DEF RequestType
  <2> HIDE DEF r
  <2>2. Forward(r) /\ Fits(r) /\ Ordered(r)
    BY <1>1, <1>3, <2>1 DEF RequestRight, Forward, Fits, Ordered
  <2>3. Covering(r)
    BY <1>2, <1>3, <1>4, <2>1 DEF Covering, Covers
  <2> QED
    BY <1>1, <1>4, <2>1, <2>2, <2>3 DEF Served, RequestRight, r
<1>5. CASE /\ \E i \in 0 .. Chunks(n) - 1 : SliceFails(i, n)
           /\ Replace(q, [q EXCEPT !.stage = "failed"])
  <2> DEFINE r == [q EXCEPT !.stage = "failed"]
  <2>1. /\ r \in RequestType
        /\ r.offset = q.offset /\ r.mine = q.mine /\ r.stage = "failed" /\ r.top = q.top
        /\ r.rest = q.rest /\ r.chunk = q.chunk /\ r.items = q.items /\ r.kept = q.kept
        /\ r.held = q.held
    BY <1>1 DEF RequestType
  <2>2. n > 2 * Chunk
    BY <1>2, <1>5, ChunkEnds
  <2> HIDE DEF r
  <2>3. Forward(r) /\ Ordered(r) /\ Covering(r)
    BY <1>1, <1>3, <2>1 DEF RequestRight, Forward, Ordered, Covering
  <2>4. Fits(r)
    BY <1>1, <1>2, <2>1, <2>2 DEF RequestRight, Fits
  <2> QED
    BY <1>1, <1>5, <2>1, <2>3, <2>4 DEF Served, RequestRight, r
<1>6. ASSUME ever # {}, NEW covered \in SUBSET ever, Cardinality(covered) = Covered(n),
             NEW t \in RowsOf(covered), \A s \in RowsOf(covered) : s.height <= t.height,
             Replace(q, [q EXCEPT !.stage = "addresses", !.top = t.height])
      PROVE  Served(q)
  <2> DEFINE r == [q EXCEPT !.stage = "addresses", !.top = t.height]
  <2>1. t.height \in Heights
    BY <1>1, <1>6, RowFields DEF RowsOf
  <2>2. /\ r \in RequestType
        /\ r.offset = q.offset /\ r.mine = q.mine /\ r.stage = "addresses" /\ r.top = t.height
        /\ r.rest = q.rest /\ r.chunk = q.chunk /\ r.items = q.items /\ r.kept = q.kept
        /\ r.held = q.held
    BY <1>1, <2>1 DEF RequestType
  <2> HIDE DEF r
  <2>3. Forward(r) /\ Fits(r) /\ Ordered(r)
    BY <1>1, <1>3, <2>1, <2>2 DEF RequestRight, Forward, Fits, Ordered
  <2>4. ASSUME Cardinality(EverHeld) <= Chunk + 2
        PROVE  EverHeld \subseteq AddressesOf(t.height)
    <3>1. n > 0
      BY <1>2, <1>6, FS_EmptySet
    <3>2. Covered(n) = n
      BY <1>2, <2>4, <3>1, AllCovered
    <3>3. covered = EverHeld
      BY <1>2, <1>6, <3>2, FS_Subset
    <3>4. ASSUME NEW a \in EverHeld
          PROVE  a \in AddressesOf(t.height)
      <4>1. PICK s \in rows : s.holds /\ s.address = a
        BY <1>1, EverHolding
      <4>2. s \in RowsOf(covered)
        BY <3>3, <4>1 DEF RowsOf
      <4> QED
        BY <1>6, <4>1, <4>2 DEF AddressesOf
    <3> QED
      BY <3>4
  <2>5. Covering(r)
    BY <1>3, <2>2, <2>4 DEF Covering, EverHeldAt
  <2> QED
    BY <1>1, <1>6, <2>2, <2>3, <2>5 DEF Served, RequestRight, r
<1>7. \/ ever = {} /\ Replace(q, [q EXCEPT !.stage = "end"])
      \/ /\ \E i \in 0 .. Chunks(n) - 1 : SliceFails(i, n)
         /\ Replace(q, [q EXCEPT !.stage = "failed"])
      \/ /\ ever # {}
         /\ \E covered \in SUBSET ever :
              /\ Cardinality(covered) = Covered(n)
              /\ \E t \in RowsOf(covered) :
                   /\ \A s \in RowsOf(covered) : s.height <= t.height
                   /\ Replace(q, [q EXCEPT !.stage = "addresses", !.top = t.height])
  BY DEF QueryTop
<1> HIDE DEF ever, n
<1> QED
  BY <1>4, <1>5, <1>6, <1>7

\* The addresses: those that keep the key are among them, and the one of the offset.
LEMMA AddressesServed ==
  ASSUME Inv, NEW q \in requests, QueryAddresses(q)
  PROVE  Served(q)
<1>1. /\ TypeOK /\ rows \subseteq Row /\ IsFiniteSet(rows)
      /\ q \in RequestType /\ RequestRight(q) /\ q.stage = "addresses"
      /\ UNCHANGED <<rows, answered, cache, client>>
  BY DEF Inv, TypeOK, QueryAddresses
<1> DEFINE as == AddressesOf(q.top)
           filtered == IF q.offset = NoOffset THEN as ELSE After(as, q.offset[2])
           r == [q EXCEPT !.rest = Sorted(filtered),
                          !.stage = IF filtered = {} THEN "end" ELSE "chunks"]
<1>2. Replace(q, r)
  BY DEF QueryAddresses
<1>3. /\ filtered \subseteq EverHeld /\ filtered \in SUBSET Nat /\ IsFiniteSet(filtered)
      /\ filtered \subseteq Addresses /\ Cardinality(filtered) <= Cardinality(EverHeld)
      /\ Cardinality(filtered) \in Nat
  <2>1. filtered \subseteq as
    BY DEF After
  <2>2. filtered \in SUBSET EverHeld /\ IsFiniteSet(EverHeld) /\ EverHeld \subseteq Addresses
        /\ EverHeld \subseteq Nat
    BY <1>1, <2>1, EverHolding
  <2> HIDE DEF filtered
  <2> QED
    BY <2>2, FS_Subset, FS_CardinalityType
<1>4. \A a \in filtered : Reached(q.offset, a)
  BY DEF After, Reached
<1>5. \A a \in as : (q.offset # NoOffset => q.offset[2] \in as) /\ Reached(q.offset, a) => a \in filtered
  BY DEF After, Reached
<1> HIDE DEF filtered
<1>6. /\ Sorted(filtered) \in Seq(filtered) /\ Len(Sorted(filtered)) = Cardinality(filtered)
      /\ ToSet(Sorted(filtered)) = filtered /\ Rising(Sorted(filtered))
      /\ Sorted(filtered) = <<>> <=> filtered = {}
  BY <1>3, SortedSet
<1>7. Sorted(filtered) \in Seq(Addresses)
  BY <1>3, <1>6, SeqMonotonic
<1>8. /\ r \in RequestType
      /\ r.offset = q.offset /\ r.mine = q.mine /\ r.top = q.top /\ r.rest = Sorted(filtered)
      /\ r.stage = (IF filtered = {} THEN "end" ELSE "chunks")
      /\ r.chunk = q.chunk /\ r.items = q.items /\ r.kept = q.kept /\ r.held = q.held
  BY <1>1, <1>7 DEF RequestType
<1>9. q.items = <<>> /\ q.chunk = 0 /\ q.top \in Heights
  BY <1>1 DEF RequestRight, Forward
<1> HIDE DEF r, as
<1>10. Forward(r)
  <2>1. filtered # {} => Chunks(Len(r.rest)) > 0
    <3>1. filtered # {} => Cardinality(filtered) # 0
      BY <1>3, FS_EmptySet
    <3> QED
      BY <1>3, <1>6, <1>8, <3>1, ChunkCount
  <2> QED
    BY <1>8, <1>9, <2>1 DEF Forward
<1>11. Fits(r)
  BY <1>1, <1>3, <1>6, <1>8 DEF RequestRight, Fits
<1>12. Ordered(r)
  BY <1>1, <1>4, <1>6, <1>8, <1>9 DEF RequestRight, Ordered, InOrder
<1>13. Covering(r)
  <2> SUFFICES ASSUME Cardinality(EverHeld) <= Chunk + 2
               PROVE  /\ r.stage = "chunks" =>
                           /\ \A a \in r.kept : Reached(r.offset, a) => a \in ToSet(r.rest)
                           /\ \A i \in 1 .. Taken(r) : r.rest[i] \in r.kept => r.rest[i] \in ToSet(r.items)
                      /\ r.stage = "end" => Covers(r)
    BY <1>8 DEF Covering
  <2>1. r.kept \subseteq as /\ (r.offset # NoOffset => r.offset[2] \in as)
    BY <1>1, <1>8 DEF RequestRight, Covering, as
  <2>2. \A a \in r.kept : Reached(r.offset, a) => a \in filtered
    BY <1>5, <1>8, <2>1
  <2>3. r.stage = "end" => Covers(r)
    BY <1>8, <2>2 DEF Covers
  <2>4. Taken(r) = 0
    BY <1>8, <1>9 DEF Taken
  <2> QED
    BY <1>6, <1>8, <2>2, <2>3, <2>4
<1> QED
  BY <1>1, <1>2, <1>8, <1>10, <1>11, <1>12, <1>13 DEF Served, RequestRight

\* A sequence c that is the first k elements of s, which is the set S in its order: m of
\* them, or all.
Firsts(S, s, c, k, m) ==
  /\ S \in SUBSET Nat /\ s \in Seq(S) /\ ToSet(s) = S /\ Rising(s)
  /\ c \in Seq(S) /\ k \in Nat /\ k <= Len(s) /\ m # 0 /\ (k # m => k = Len(s))
  /\ Len(c) = k /\ \A j \in 1 .. k : c[j] = s[j]

\* The first of a set, as many as a limit: all of them when there are fewer.
LEMMA FirstOf ==
  ASSUME NEW S, NEW s, NEW c, NEW k, NEW m, Firsts(S, s, c, k, m)
  PROVE  /\ Rising(c) /\ ToSet(c) \subseteq S
         /\ k # m => S \subseteq ToSet(c)
         /\ c = <<>> => S = {}
         /\ \A a \in S : c # <<>> /\ a <= Last(c) => a \in ToSet(c)
<1>0. S \in SUBSET Nat /\ s \in Seq(S) /\ ToSet(s) = S /\ Rising(s) /\ c \in Seq(S) /\ k \in Nat
  BY DEF Firsts
<1> DEFINE n == Len(s)
<1>1. n \in Nat /\ n = Len(s) /\ DOMAIN s = 1 .. n /\ \A a \in S : \E j \in 1 .. n : s[j] = a
  BY <1>0, Elements
<1>2. /\ DOMAIN c = 1 .. k /\ \A j \in 1 .. k : c[j] = s[j] /\ c[j] \in ToSet(c)
      /\ c # <<>> => k > 0 /\ Last(c) = c[k]
      /\ c = <<>> => k = 0
      /\ ToSet(c) \subseteq S
  <2>1. /\ DOMAIN c = 1 .. Len(c) /\ \A j \in 1 .. Len(c) : c[j] \in ToSet(c)
        /\ c # <<>> => Len(c) > 0 /\ Last(c) = c[Len(c)]
        /\ c = <<>> => Len(c) = 0
        /\ ToSet(c) \subseteq S
    <3>1. Len(c) \in Nat /\ (c # <<>> <=> Len(c) > 0)
      BY <1>0, Elements
    <3> QED
      BY <1>0, <3>1, Elements
  <2>2. Len(c) = k /\ \A j \in 1 .. k : c[j] = s[j]
    BY DEF Firsts
  <2> QED
    BY <2>1, <2>2
<1> HIDE DEF n
<1>3. k <= n /\ m # 0 /\ (k # m => k = n)
  BY <1>1 DEF Firsts
<1>4. \A j \in 1 .. k : j \in 1 .. n
  BY <1>0, <1>1, <1>3
<1>5. \A i, j \in 1 .. n : i < j => s[i] < s[j]
  BY <1>0, <1>1 DEF Rising
<1>6. Rising(c)
  BY <1>2, <1>4, <1>5 DEF Rising
<1>7. ASSUME NEW a \in S, a \notin ToSet(c)
      PROVE  k = m /\ (c # <<>> => ~(a <= Last(c)))
  <2>1. PICK j \in 1 .. n : s[j] = a
    BY <1>1
  <2>2. ~(j \in 1 .. k)
    BY <1>2, <1>7, <2>1
  <2>3. k < j /\ k = m
    BY <1>0, <1>1, <1>3, <2>1, <2>2
  <2>4. ASSUME c # <<>>
        PROVE  ~(a <= Last(c))
    <3>1. k \in 1 .. k /\ Last(c) = s[k]
      BY <1>0, <1>2, <2>4
    <3>2. s[k] < s[j]
      BY <1>4, <1>5, <2>1, <2>3, <3>1
    <3>3. s[k] \in Nat /\ s[j] \in Nat
      BY <1>0, <1>4, <2>1, <3>1, Elements DEF n
    <3> QED
      BY <2>1, <3>1, <3>2, <3>3
  <2> QED
    BY <2>3, <2>4
<1>8. c = <<>> => S = {}
  <2>1. k = 0 => 1 .. n = {}
    BY <1>1, <1>3
  <2> QED
    BY <1>1, <1>2, <2>1
<1> QED
  BY <1>2, <1>6, <1>7, <1>8

\* Part, with its hypotheses in one operator, which the provers match more easily.
Within(S, s, m, n) == s \in Seq(S) /\ m \in Nat \ {0} /\ n \in Nat /\ n <= Len(s)

LEMMA PartWithin ==
  ASSUME NEW S, NEW s, NEW m, NEW n, Within(S, s, m, n)
  PROVE  /\ SubSeq(s, m, n) \in Seq(S)
         /\ \A i \in m .. n : s[i] \in ToSet(SubSeq(s, m, n))
         /\ \A a \in ToSet(SubSeq(s, m, n)) : \E i \in m .. n : s[i] = a
         /\ ToSet(SubSeq(s, m, n)) \subseteq ToSet(s)
BY Part DEF Within

\* A chunk: as long as the chunks meet, those that keep the key are among the items.
LEMMA ChunkServed ==
  ASSUME Inv, NEW q \in requests, QueryChunk(q)
  PROVE  Served(q)
<1>1. /\ TypeOK /\ rows \subseteq Row /\ IsFiniteSet(rows)
      /\ q \in RequestType /\ RequestRight(q) /\ q.stage = "chunks"
      /\ UNCHANGED <<rows, answered, cache, client>>
  BY DEF Inv, TypeOK, QueryChunk
<1> DEFINE n == Len(q.rest)
           i == q.chunk
           limited == SubSeq(q.rest, ChunkStart(i) + 1, ChunkEnd(i, n))
           found == Sorted(Holding(ToSet(limited)))
           called == SubSeq(found, 1, IF Len(found) < ItemsLimit THEN Len(found) ELSE ItemsLimit)
           done == Len(called) = ItemsLimit \/ i + 1 = Chunks(n)
           r == [q EXCEPT !.items = @ \o called,
                          !.chunk = @ + 1,
                          !.stage = IF done THEN "end" ELSE "chunks"]
           e == [q EXCEPT !.stage = "failed"]
<1>2. IF SliceFails(i, n) THEN Replace(q, e) ELSE Replace(q, r)
  BY DEF QueryChunk
<1>3. /\ n \in Nat /\ i \in 0 .. Chunks(n) - 1 /\ i \in Nat /\ Chunks(n) \in Nat
      /\ q.rest \in Seq(Addresses) /\ q.items \in Seq(Addresses)
      /\ q.top \in Heights /\ (i = 0 => q.items = <<>>)
  <2>1. n \in Nat /\ i \in Nat /\ q.rest \in Seq(Addresses) /\ q.items \in Seq(Addresses)
    BY <1>1, RequestFields
  <2>2. Chunks(n) \in Nat
    BY <2>1, ChunkCount
  <2>3. i < Chunks(n) /\ q.top \in Heights /\ (i = 0 => q.items = <<>>)
    BY <1>1 DEF RequestRight, Forward
  <2> QED
    BY <2>1, <2>2, <2>3
<1>4. /\ Chunk \in Nat \ {0} /\ ItemsLimit \in Nat \ {0} /\ Addresses \subseteq Nat
      /\ Cardinality(EverHeld) \in Nat /\ n <= Cardinality(EverHeld)
      /\ Holders \subseteq EverHeld /\ IsFiniteSet(EverHeld)
  BY <1>1, EverHolding, AccountsAssumption DEF RequestRight, Fits
<1>5. CASE SliceFails(i, n)
  <2>1. /\ e \in RequestType
        /\ e.offset = q.offset /\ e.mine = q.mine /\ e.stage = "failed" /\ e.top = q.top
        /\ e.rest = q.rest /\ e.chunk = q.chunk /\ e.items = q.items /\ e.kept = q.kept
        /\ e.held = q.held
    BY <1>1 DEF RequestType
  <2>2. Cardinality(EverHeld) > 2 * Chunk
    BY <1>3, <1>4, <1>5, ChunkEnds
  <2>3. Replace(q, e)
    BY <1>2, <1>5
  <2> HIDE DEF e, r
  <2>4. Forward(e) /\ Covering(e)
    BY <1>3, <2>1 DEF Forward, Covering
  <2>5. Fits(e)
    BY <1>1, <2>1, <2>2 DEF RequestRight, Fits
  <2>6. Ordered(e)
    BY <1>1, <1>4, <2>1, <2>2 DEF RequestRight, Ordered
  <2> QED
    BY <1>1, <2>1, <2>3, <2>4, <2>5, <2>6 DEF Served, RequestRight
<1>6. CASE ~SliceFails(i, n)
  <2> HIDE DEF e, n, i
  <2> DEFINE start == ChunkStart(i)
             end == ChunkEnd(i, n)
  <2>1. start \in Nat /\ end \in 0 .. n /\ start + 1 \in Nat \ {0} /\ end \in Nat /\ end <= Len(q.rest)
    <3>1. start \in Nat /\ end \in 0 .. n
      BY <1>3, ChunkCount, ChunkEnds
    <3> HIDE DEF start, end
    <3>2. start + 1 \in Nat \ {0} /\ end \in Nat /\ end <= n
      BY <1>3, <3>1
    <3> QED
      BY <3>1, <3>2 DEF n
  <2>2. /\ limited \in Seq(Addresses)
        /\ \A j \in start + 1 .. end : q.rest[j] \in ToSet(limited)
        /\ \A a \in ToSet(limited) : \E j \in start + 1 .. end : q.rest[j] = a
        /\ ToSet(limited) \subseteq ToSet(q.rest)
    <3>1. limited = SubSeq(q.rest, start + 1, end)
      OBVIOUS
    <3> HIDE DEF limited, start, end
    <3>2. Within(Addresses, q.rest, start + 1, end)
      BY <1>3, <2>1 DEF Within
    <3>3. /\ SubSeq(q.rest, start + 1, end) \in Seq(Addresses)
          /\ \A j \in start + 1 .. end : q.rest[j] \in ToSet(SubSeq(q.rest, start + 1, end))
          /\ \A a \in ToSet(SubSeq(q.rest, start + 1, end)) :
               \E j \in start + 1 .. end : q.rest[j] = a
          /\ ToSet(SubSeq(q.rest, start + 1, end)) \subseteq ToSet(q.rest)
      BY <3>2, PartWithin, Zenon
    <3> QED
      BY <3>1, <3>3, Zenon
  <2> DEFINE S == Holding(ToSet(limited))
  <2>3. S \in SUBSET Nat /\ IsFiniteSet(S) /\ S \subseteq Addresses /\ S \subseteq Holders
        /\ S \subseteq ToSet(limited)
    <3>1. S = ToSet(limited) \cap Holders
      BY DEF Holding
    <3>2. S \in SUBSET EverHeld /\ S \subseteq Addresses
      BY <1>4, <3>1 DEF Holders
    <3> QED
      BY <1>4, <3>1, <3>2, FS_Subset
  <2> HIDE DEF S
  <2>4. /\ called \in Seq(S) /\ Rising(called) /\ ToSet(called) \subseteq S
        /\ Len(called) # ItemsLimit => S \subseteq ToSet(called)
        /\ called = <<>> => S = {}
        /\ \A a \in S : called # <<>> /\ a <= Last(called) => a \in ToSet(called)
    <3> DEFINE s == Sorted(S)
               k == IF Len(s) < ItemsLimit THEN Len(s) ELSE ItemsLimit
    <3>1. called = SubSeq(s, 1, k)
      BY DEF S
    <3>2. s \in Seq(S) /\ ToSet(s) = S /\ Rising(s) /\ Len(s) \in Nat
      BY <2>3, SortedSet
    <3> HIDE DEF called, s
    <3>3. k \in Nat /\ k <= Len(s) /\ (k # ItemsLimit => k = Len(s))
      BY <1>4, <3>2
    <3> HIDE DEF k
    <3>4. 1 \in Nat \ {0} /\ S \in SUBSET Nat /\ ItemsLimit \in Nat \ {0}
      BY <1>4, <2>3
    <3>5. /\ called \in Seq(S)
          /\ Len(called) = IF 1 <= k THEN k - 1 + 1 ELSE 0
          /\ \A j \in 1 .. Len(called) : called[j] = s[1 + j - 1]
          /\ \A j \in 1 .. k : s[j] \in ToSet(called)
      BY <3>1, <3>2, <3>3, <3>4, Part
    <3>6. Len(called) = k /\ \A j \in 1 .. k : called[j] = s[j]
      BY <3>3, <3>5
    <3>7. Firsts(S, s, called, k, ItemsLimit)
      BY <3>2, <3>3, <3>4, <3>5, <3>6 DEF Firsts
    <3> QED
      BY <3>5, <3>6, <3>7, FirstOf
  <2> HIDE DEF called, limited, found
  <2>5. called \in Seq(Addresses)
    BY <2>3, <2>4, SeqMonotonic
  <2>6. /\ q.items \o called \in Seq(Addresses)
        /\ ToSet(q.items \o called) = ToSet(q.items) \cup ToSet(called)
        /\ called # <<>> => q.items \o called # <<>> /\ Last(q.items \o called) = Last(called)
        /\ called = <<>> => q.items \o called = q.items
    BY <1>3, <2>5, Joined
  <2>7. /\ r \in RequestType
        /\ r.offset = q.offset /\ r.mine = q.mine /\ r.top = q.top /\ r.rest = q.rest
        /\ r.stage = (IF done THEN "end" ELSE "chunks")
        /\ r.chunk = i + 1 /\ r.items = q.items \o called /\ r.kept = q.kept /\ r.held = q.held
    <3> HIDE DEF done
    <3>1. r = [q EXCEPT !.items = q.items \o called, !.chunk = q.chunk + 1,
                        !.stage = IF done THEN "end" ELSE "chunks"]
      OBVIOUS
    <3>2. q.chunk \in Nat /\ q.chunk + 1 \in Nat /\ i = q.chunk
      BY <1>3 DEF i
    <3> HIDE DEF r
    <3> QED
      BY <1>1, <2>6, <3>1, <3>2 DEF RequestType
  <2>8. Replace(q, r)
    BY <1>2, <1>6
  <2> HIDE DEF r
  <2>9. Forward(r)
    BY <1>3, <2>7 DEF Forward, n
  <2>10. Fits(r)
    <3>1. ToSet(r.items) \subseteq q.held \cap EverHeld
      BY <1>1, <1>4, <2>3, <2>4, <2>6, <2>7 DEF RequestRight, Fits
    <3> QED
      BY <1>1, <2>7, <3>1 DEF RequestRight, Fits
  <2>11. Ordered(r)
    <3>1. ASSUME Cardinality(EverHeld) <= Chunk
          PROVE  InOrder(r.offset, r.items) /\ (r.stage = "chunks" => r.chunk = 0)
      <4>1. Chunks(n) <= 1
        BY <1>3, <1>4, <3>1, ChunkCount
      <4>2. i = 0 /\ done
        BY <1>3, <4>1
      <4>3. r.items = called /\ r.stage = "end"
        <5>1. q.items = <<>>
          BY <1>3, <4>2
        <5>2. <<>> \o called = called
          BY <2>5, ConcatEmptySeq
        <5> QED
          BY <2>7, <4>2, <5>1, <5>2
      <4>4. \A a \in ToSet(called) : Reached(q.offset, a)
        BY <1>1, <2>2, <2>3, <2>4 DEF RequestRight, Ordered, InOrder
      <4> QED
        BY <2>4, <2>7, <4>3, <4>4 DEF InOrder
    <3> QED
      BY <1>1, <2>7, <3>1 DEF RequestRight, Ordered
  <2>12. ASSUME Cardinality(EverHeld) <= Chunk + 2
         PROVE  /\ r.stage = "chunks" =>
                     /\ \A a \in r.kept : Reached(r.offset, a) => a \in ToSet(r.rest)
                     /\ \A j \in 1 .. Taken(r) : r.rest[j] \in r.kept => r.rest[j] \in ToSet(r.items)
                /\ r.stage = "end" => Covers(r)
    <3>1. /\ \A a \in q.kept : Reached(q.offset, a) => a \in ToSet(q.rest)
          /\ \A j \in 1 .. Taken(q) : q.rest[j] \in q.kept => q.rest[j] \in ToSet(q.items)
          /\ q.kept \subseteq Holders /\ Rising(q.rest)
      BY <1>1, <2>12 DEF RequestRight, Covering, Fits, Ordered, InOrder
    <3>2. n <= Chunk + 2
      BY <1>3, <1>4, <2>12
    <3>3. \A j \in 1 .. end : j \in 1 .. Taken(q) \/ j \in start + 1 .. end
      <4>1. i # 0 => Taken(q) \in 0 .. n /\ start <= Taken(q)
        BY <1>3, <3>2, ChunksMeet DEF Taken, n, i
      <4>2. i = 0 => start = 0
        BY <1>3, <3>2, ChunksMeet
      <4> HIDE DEF start, end
      <4> QED
        BY <1>3, <2>1, <4>1, <4>2
    <3>4. ASSUME NEW j \in 1 .. end, q.rest[j] \in q.kept
          PROVE  q.rest[j] \in ToSet(q.items) \cup S
      <4>1. j \in 1 .. Taken(q) => q.rest[j] \in ToSet(q.items)
        BY <3>1, <3>4
      <4>2. j \in start + 1 .. end => q.rest[j] \in S
        BY <2>2, <3>1, <3>4 DEF S, Holding
      <4> QED
        BY <3>3, <4>1, <4>2
    <3>5. Taken(r) = end
      <4>1. (i + 1) - 1 = i /\ i + 1 # 0
        BY <1>3
      <4> QED
        BY <2>7, <4>1 DEF Taken, n
    <3>6. ASSUME r.stage = "chunks"
          PROVE  \A j \in 1 .. Taken(r) : r.rest[j] \in r.kept => r.rest[j] \in ToSet(r.items)
      <4>1. S \subseteq ToSet(called)
        BY <2>4, <2>7, <3>6
      <4> HIDE DEF start, end
      <4> QED
        BY <2>6, <2>7, <3>4, <3>5, <4>1
    <3>7. ASSUME r.stage = "end", NEW a \in q.kept, Reached(q.offset, a),
                 r.items # <<>> => a <= Last(r.items)
          PROVE  a \in ToSet(r.items)
      <4>1. PICK j \in 1 .. Len(q.rest) : q.rest[j] = a
        BY <1>3, <3>1, <3>7, Elements
      <4>2. CASE j \in 1 .. end
        <5>1. a \in ToSet(q.items) \cup S
          BY <3>4, <3>7, <4>1, <4>2
        <5>2. a \in S => a \in ToSet(called)
          <6>1. called # <<>> => a <= Last(called)
            BY <2>6, <2>7, <3>7
          <6> QED
            BY <2>4, <6>1
        <5> QED
          BY <2>6, <2>7, <5>1, <5>2
      <4>3. CASE j \notin 1 .. end
        <5>1. end < j /\ end # n
          BY <1>3, <2>1, <4>1, <4>3 DEF n
        <5>2. i + 1 # Chunks(n)
          BY <1>3, <3>2, <5>1, ChunksMeet
        <5>3. Len(called) = ItemsLimit
          BY <2>7, <3>7, <5>2
        <5>4. called # <<>> /\ Last(called) \in ToSet(called)
          BY <1>4, <2>5, <5>3, Elements
        <5>5. PICK k \in start + 1 .. end : q.rest[k] = Last(called)
          BY <2>2, <2>3, <2>4, <5>4
        <5>6. k \in 1 .. Len(q.rest) /\ k < j
          <6>1. start \in Nat /\ end \in Nat /\ end <= n /\ n = Len(q.rest) /\ n \in Nat
            BY <1>3, <2>1 DEF n
          <6> HIDE DEF start, end
          <6>2. k \in Nat /\ start + 1 <= k /\ k <= end
            <7>1. k \in start + 1 .. end
              BY <5>5
            <7> QED
              BY <6>1, <7>1
          <6>3. 1 <= k
            BY <6>1, <6>2
          <6>4. j \in Nat /\ k < j /\ k <= n
            <7>1. j \in 1 .. n /\ end < j
              BY <4>1, <5>1, <6>1
            <7> QED
              BY <6>1, <6>2, <7>1
          <6> QED
            BY <6>1, <6>2, <6>3, <6>4
        <5>7. Last(called) < a /\ a \in Nat /\ Last(called) \in Nat
          <6>1. q.rest[k] < q.rest[j]
            <7>1. k \in DOMAIN q.rest /\ j \in DOMAIN q.rest
              BY <1>3, <4>1, <5>6
            <7>2. \A g, h \in DOMAIN q.rest : g < h => q.rest[g] < q.rest[h]
              BY <3>1 DEF Rising
            <7> QED
              BY <5>6, <7>1, <7>2, Zenon
          <6>2. q.rest[k] \in Addresses /\ q.rest[j] \in Addresses
            BY <1>3, <4>1, <5>6, Elements
          <6> QED
            BY <1>4, <4>1, <5>5, <6>1, <6>2
        <5>8. a <= Last(called)
          BY <2>6, <2>7, <3>7, <5>4
        <5> QED
          BY <5>7, <5>8
      <4> QED
        BY <4>2, <4>3
    <3> QED
      BY <2>7, <3>1, <3>6, <3>7 DEF Covers
  <2>13. Covering(r)
    BY <2>7, <2>12 DEF Covering
  <2> QED
    BY <1>1, <2>7, <2>8, <2>9, <2>10, <2>11, <2>13 DEF Served, RequestRight
<1> QED
  BY <1>5, <1>6

\* A request that the client joins is shared.
LEMMA JoinedRight ==
  ASSUME NEW q \in RequestType, RequestRight(q), NEW r,
         r = [q EXCEPT !.mine = TRUE, !.joined = TRUE, !.shared = TRUE]
  PROVE  r \in RequestType /\ r.offset = q.offset /\ r.mine = TRUE /\ RequestRight(r)
<1>1. /\ r \in RequestType /\ r.mine = TRUE
      /\ r.offset = q.offset /\ r.stage = q.stage /\ r.top = q.top /\ r.rest = q.rest
      /\ r.chunk = q.chunk /\ r.items = q.items /\ r.kept = q.kept /\ r.held = q.held
  BY DEF RequestType
<1> QED
  BY <1>1, SameRight

\* The page of a request that came to its end is right.
LEMMA PageFrom ==
  ASSUME Inv, NEW q \in requests, q.stage = "end"
  PROVE  PageOf(q) \in PageType /\ PageRight(PageOf(q)) /\ PageOf(q).offset = q.offset
<1>1. q \in RequestType /\ RequestRight(q)
  BY DEF Inv, TypeOK
<1>2. /\ q.offset \in Offsets \cup {NoOffset} /\ q.items \in Seq(Addresses)
      /\ q.kept \subseteq Addresses /\ NoOffset \notin Offsets
  BY <1>1, RequestFields, NoneAssumption
<1>3. q.items # <<>> => Last(q.items) \in ToSet(q.items) /\ Last(q.items) \in Addresses
  BY <1>2, Elements
<1>4. q.items # <<>> => NextLink(q) \in Offsets /\ NextLink(q)[2] = Last(q.items)
  <2> SUFFICES ASSUME q.items # <<>>
               PROVE  NextLink(q) \in Offsets /\ NextLink(q)[2] = Last(q.items)
    OBVIOUS
  <2>1. q.top \in Heights /\ Last(q.items) \in Addresses
    BY <1>1, <1>3 DEF RequestRight, Forward
  <2>2. q.offset # NoOffset => q.offset[1] \in Heights
    BY <1>2 DEF Offsets
  <2>3. PICK h \in Heights : NextLink(q) = <<h, Last(q.items)>>
    BY <2>1, <2>2 DEF NextLink
  <2> QED
    BY <2>1, <2>3 DEF Offsets
<1> DEFINE p == PageOf(q)
<1>5. /\ p.offset = q.offset /\ p.items = q.items /\ p.kept = q.kept
      /\ p.next = IF q.items = <<>> THEN NoOffset ELSE NextLink(q)
  BY DEF PageOf
<1>6. p \in PageType
  <2> DEFINE next == IF q.items = <<>> THEN NoOffset ELSE NextLink(q)
  <2>1. next \in Offsets \cup {NoOffset}
    BY <1>4
  <2>2. p = [offset |-> q.offset, items |-> q.items, kept |-> q.kept, next |-> next]
    BY DEF PageOf
  <2> HIDE DEF p, next
  <2> QED
    BY <1>2, <2>1, <2>2 DEF PageType
<1> HIDE DEF p
<1>7. p.next = NoOffset <=> p.items = <<>>
  BY <1>2, <1>4, <1>5
<1>8. p.items # <<>> => p.next[2] = Last(p.items)
  BY <1>4, <1>5
<1>9. EverHeldAt(p.next)
  BY <1>1, <1>3, <1>4, <1>5 DEF EverHeldAt, RequestRight, Fits
<1>10. Cardinality(EverHeld) <= Chunk => InOrder(p.offset, p.items)
  BY <1>1, <1>5 DEF RequestRight, Ordered
<1>11. Cardinality(EverHeld) <= Chunk + 2 => Covers(p)
  BY <1>1, <1>5 DEF RequestRight, Covering, Covers
<1> QED
  BY <1>5, <1>6, <1>7, <1>8, <1>9, <1>10, <1>11 DEF PageRight, p

-----------------------------------------------------------------------------
(* What the client was shown. *)

\* The last of a rising sequence is its largest.
LEMMA LastRising ==
  ASSUME NEW S \in SUBSET Nat, NEW s \in Seq(S), Rising(s), NEW a \in ToSet(s)
  PROVE  s # <<>> /\ a <= Last(s)
<1> DEFINE n == Len(s)
<1>1. /\ n \in Nat /\ DOMAIN s = 1 .. n /\ \A i \in 1 .. n : s[i] \in S
      /\ s # <<>> <=> n > 0
      /\ s # <<>> => Last(s) = s[n]
  BY Elements
<1>2. PICK i \in 1 .. n : s[i] = a
  BY Elements
<1>3. \A j, k \in 1 .. n : j < k => s[j] < s[k]
  BY <1>1 DEF Rising
<1> HIDE DEF n
<1>4. n > 0 /\ n \in 1 .. n /\ (i < n \/ i = n)
  BY <1>1, <1>2
<1>5. i < n => s[i] < s[n]
  BY <1>2, <1>3, <1>4
<1>6. s[i] \in Nat /\ s[n] \in Nat
  BY <1>1, <1>2, <1>4
<1> QED
  BY <1>1, <1>2, <1>4, <1>5, <1>6

\* A rising sequence followed by a rising one of larger numbers.
LEMMA RisingOn ==
  ASSUME NEW S \in SUBSET Nat, NEW s \in Seq(S), NEW t \in Seq(S), Rising(s), Rising(t),
         \A a \in ToSet(s), b \in ToSet(t) : a < b
  PROVE  Rising(s \o t)
<1> DEFINE u == s \o t
           m == Len(s)
           n == Len(t)
<1>1. /\ u \in Seq(S) /\ Len(u) = m + n
      /\ \A i \in 1 .. m : u[i] = s[i]
      /\ \A i \in 1 .. n : u[m + i] = t[i]
  BY Joined
<1>2. /\ m \in Nat /\ DOMAIN s = 1 .. m /\ \A i \in 1 .. m : s[i] \in ToSet(s)
      /\ n \in Nat /\ DOMAIN t = 1 .. n /\ \A i \in 1 .. n : t[i] \in ToSet(t)
  BY Elements
<1>3. DOMAIN u = 1 .. m + n
  BY <1>1, Elements
<1>4. /\ \A i, j \in 1 .. m : i < j => s[i] < s[j]
      /\ \A i, j \in 1 .. n : i < j => t[i] < t[j]
  BY <1>2 DEF Rising
<1> HIDE DEF u, m, n
<1>5. ASSUME NEW i \in 1 .. m + n, NEW j \in 1 .. m + n, i < j
      PROVE  u[i] < u[j]
  <2>1. CASE j \in 1 .. m
    <3>1. i \in 1 .. m
      BY <1>2, <1>5, <2>1
    <3> QED
      BY <1>1, <1>4, <1>5, <2>1, <3>1
  <2>2. CASE j \notin 1 .. m /\ i \in 1 .. m
    <3>1. j - m \in 1 .. n /\ m + (j - m) = j
      BY <1>2, <1>5, <2>2
    <3>2. u[j] = t[j - m] /\ u[i] = s[i]
      BY <1>1, <2>2, <3>1
    <3>3. s[i] \in ToSet(s) /\ t[j - m] \in ToSet(t)
      BY <1>2, <2>2, <3>1
    <3> QED
      BY <3>2, <3>3
  <2>3. CASE i \notin 1 .. m
    <3>1. /\ j - m \in 1 .. n /\ m + (j - m) = j
          /\ i - m \in 1 .. n /\ m + (i - m) = i /\ i - m < j - m
      BY <1>2, <1>5, <2>3
    <3>2. u[j] = t[j - m] /\ u[i] = t[i - m]
      BY <1>1, <3>1
    <3> QED
      BY <1>4, <3>1, <3>2
  <2> QED
    BY <2>1, <2>2, <2>3
<1> QED
  BY <1>3, <1>5 DEF Rising, u

\* What holds of the client's variables.
ClientFit ==
  /\ walk \in {"idle", "walking", "waiting", "done", "failed"}
  /\ link \in Offsets \cup {NoOffset}
  /\ shown \in Seq(Addresses) /\ kept \subseteq Addresses
  /\ ClientRight

\* A page that is right and of the client's link leaves out no account that kept the key.
LEMMA PageShown ==
  ASSUME Inv, UNCHANGED rows, NEW p \in PageType, PageRight(p), p.offset = link,
         walk \in {"walking", "waiting"}, Show(p)
  PROVE  ClientFit' /\ walk' \in {"done", "walking"}
<1>1. /\ walk' = IF p.items = <<>> THEN "done" ELSE "walking"
      /\ shown' = shown \o p.items /\ link' = p.next /\ kept' = kept \cap p.kept
  BY DEF Show
<1>2. /\ link \in Offsets \cup {NoOffset} /\ shown \in Seq(Addresses) /\ kept \subseteq Addresses
      /\ ClientRight
      /\ p.next \in Offsets \cup {NoOffset} /\ p.items \in Seq(Addresses)
      /\ p.kept \subseteq Addresses /\ Addresses \in SUBSET Nat /\ EverHeld' = EverHeld
  BY SameRows, AccountsAssumption DEF Inv, TypeOK, PageType
<1>3. link # NoOffset => link[2] \in Nat
  BY <1>2 DEF Offsets
<1>4. /\ shown' \in Seq(Addresses)
      /\ ToSet(shown') = ToSet(shown) \cup ToSet(p.items)
      /\ ToSet(shown) \subseteq Nat /\ ToSet(p.items) \subseteq Nat
  <2>1. ToSet(shown) \subseteq Addresses /\ ToSet(p.items) \subseteq Addresses
    BY <1>2, Elements
  <2>2. /\ shown \o p.items \in Seq(Addresses)
        /\ ToSet(shown \o p.items) = ToSet(shown) \cup ToSet(p.items)
    BY <1>2, Joined
  <2> QED
    BY <1>1, <1>2, <2>1, <2>2
<1>5. link = NoOffset => shown = <<>> /\ ToSet(shown) = {}
  <2>1. ToSet(<<>>) = {}
    BY DEF ToSet
  <2> QED
    BY <1>2, <2>1 DEF ClientRight
<1>6. p.items # <<>> => Last(p.items) \in ToSet(p.items) /\ Last(p.items) \in Nat
  BY <1>2, Elements
<1>7. EverHeldAt(link)' /\ (link = NoOffset => shown = <<>> \/ walk = "done")'
  BY <1>1, <1>2 DEF PageRight, EverHeldAt
<1>8. ASSUME Cardinality(EverHeld) <= Chunk
      PROVE  Rising(shown') /\ (link' # NoOffset => \A a \in ToSet(shown') : a <= link'[2])
  <2>1. /\ Rising(shown) /\ (link # NoOffset => \A a \in ToSet(shown) : a <= link[2])
        /\ Rising(p.items) /\ \A b \in ToSet(p.items) : Reached(link, b)
    BY <1>2, <1>8 DEF ClientRight, PageRight, InOrder
  <2>2. \A a \in ToSet(shown), b \in ToSet(p.items) : a < b
    BY <1>3, <1>4, <1>5, <2>1 DEF Reached
  <2>3. Rising(shown')
    BY <1>1, <1>2, <2>1, <2>2, RisingOn
  <2>4. ASSUME p.items # <<>>, NEW a \in ToSet(shown')
        PROVE  a <= Last(p.items)
    <3>1. a \in ToSet(p.items) => a <= Last(p.items)
      BY <1>2, <2>1, LastRising
    <3>2. a \in ToSet(shown) => a <= Last(p.items)
      BY <1>4, <1>6, <2>2, <2>4
    <3> QED
      BY <1>4, <2>4, <3>1, <3>2
  <2> QED
    BY <1>1, <2>3, <2>4 DEF PageRight
<1>9. ASSUME Cardinality(EverHeld) <= Chunk + 2, NEW a \in kept',
             walk' = "done" \/ (link' # NoOffset /\ a <= link'[2])
      PROVE  a \in ToSet(shown')
  <2>1. a \in kept /\ a \in p.kept /\ a \in Nat
    BY <1>1, <1>2
  <2>2. p.items # <<>> => a <= Last(p.items)
    BY <1>1, <1>9 DEF PageRight
  <2>3. Reached(link, a) => a \in ToSet(p.items)
    BY <1>9, <2>1, <2>2 DEF PageRight, Covers
  <2>4. ~Reached(link, a) => link # NoOffset /\ a <= link[2]
    BY <1>3, <2>1 DEF Reached
  <2>5. ~Reached(link, a) => a \in ToSet(shown)
    BY <1>2, <1>9, <2>1, <2>4 DEF ClientRight
  <2> QED
    BY <1>4, <2>3, <2>5
<1>10. ClientRight'
  <2>1. \A s : Rising(s)' <=> Rising(s)
    BY DEF Rising
  <2> QED
    BY <1>2, <1>7, <1>8, <1>9, <2>1 DEF ClientRight
<1> QED
  BY <1>1, <1>2, <1>4, <1>10 DEF ClientFit

-----------------------------------------------------------------------------
(* The invariant. *)

\* What holds of requests, with the client's link and walk, and of pages.
RequestsFit(rs, l, w) ==
  /\ rs \subseteq RequestType
  /\ \A q, r \in rs : q.offset = r.offset => q = r
  /\ \A q \in rs : (q.mine => q.offset = l) /\ RequestRight(q)
  /\ w = "waiting" <=> \E q \in rs : q.mine
PagesFit(ps) == ps \subseteq PageType /\ \A p \in ps : PageRight(p)
OneOfAnOffset(ps) == \A p, r \in ps : p.offset = r.offset => p = r
RowsFit ==
  /\ rows \subseteq Row /\ IsFiniteSet(rows)
  /\ LastBlock <= 1 + Cardinality({r \in rows : r.height > 1})

\* The invariant, in these parts.
LEMMA InvParts ==
  Inv <=> /\ RowsFit /\ RequestsFit(requests, link, walk)
          /\ PagesFit(answered) /\ PagesFit(cache) /\ OneOfAnOffset(cache) /\ ClientFit
BY DEF Inv, TypeOK, RowsFit, RequestsFit, PagesFit, OneOfAnOffset, ClientFit

\* The same after a step.
LEMMA InvPartsThen ==
  (Inv <=> /\ RowsFit /\ RequestsFit(requests, link, walk)
           /\ PagesFit(answered) /\ PagesFit(cache) /\ OneOfAnOffset(cache) /\ ClientFit)'
BY InvParts, PTL

\* A step that leaves the rows alone is judged by the rows before it.
LEMMA Undisturbed ==
  ASSUME Inv, UNCHANGED rows, RequestsFit(requests', link', walk'),
         PagesFit(answered'), PagesFit(cache'), OneOfAnOffset(cache'), ClientFit'
  PROVE  Inv'
<1>1. RowsFit'
  BY SameRows, InvParts DEF RowsFit
<1>2. RequestsFit(requests, link, walk)'
  BY SameRows DEF RequestsFit
<1>3. PagesFit(answered)' /\ PagesFit(cache)' /\ OneOfAnOffset(cache)'
  BY SameRows DEF PagesFit, OneOfAnOffset
<1> QED
  BY <1>1, <1>2, <1>3, InvPartsThen

\* The client's variables, in a step that disturbs none but where the walk is.
LEMMA SameClient ==
  ASSUME Inv, UNCHANGED <<rows, link, shown, kept>>,
         walk' \in {"idle", "walking", "waiting", "done", "failed"},
         walk' = "done" <=> walk = "done"
  PROVE  ClientFit'
<1>1. ClientFit /\ EverHeld' = EverHeld
  BY SameRows, InvParts
<1>2. \A s : Rising(s)' <=> Rising(s)
  BY DEF Rising
<1>3. ClientRight'
  BY <1>1, <1>2 DEF ClientFit, ClientRight, EverHeldAt
<1> QED
  BY <1>1, <1>3 DEF ClientFit

\* The initial states.
LEMMA InitInv == Init => Inv
<1> SUFFICES ASSUME Init
             PROVE  Inv
  OBVIOUS
<1>1. /\ rows \in InitialRows /\ requests = {} /\ answered = {} /\ cache = {}
      /\ walk = "idle" /\ link = NoOffset /\ shown = <<>> /\ kept = Addresses
  BY DEF Init
<1>2. rows \subseteq Row /\ IsFiniteSet(rows) /\ \A r \in rows : r.height <= 1
  BY <1>1, AccountsAssumption
<1>3. RowsFit
  <2> DEFINE late == {r \in rows : r.height > 1}
  <2>1. \A r \in rows : r.height \in Nat
    BY <1>2, RowFields
  <2>2. late = {}
    BY <1>2, <2>1
  <2>3. Cardinality(late) = 0
    BY <2>2, FS_EmptySet
  <2>4. LastBlock \in Nat /\ LastBlock <= 1
    BY <1>2, <2>1, Blocks
  <2> HIDE DEF late
  <2>5. LastBlock <= 1 + Cardinality(late)
    BY <2>3, <2>4
  <2> QED
    BY <1>2, <2>5 DEF RowsFit, late
<1>4. RequestsFit(requests, link, walk)
  BY <1>1 DEF RequestsFit
<1>5. PagesFit(answered) /\ PagesFit(cache) /\ OneOfAnOffset(cache)
  BY <1>1 DEF PagesFit, OneOfAnOffset
<1>6. ClientFit
  <2>1. <<>> \in Seq(Addresses) /\ Rising(<<>>)
    BY DEF Rising
  <2> QED
    BY <1>1, <2>1 DEF ClientFit, ClientRight, EverHeldAt
<1> QED
  BY <1>3, <1>4, <1>5, <1>6, InvParts

\* Requests that are served.
LEMMA ServedInv ==
  ASSUME Inv, NEW q \in requests, Served(q)
  PROVE  Inv'
<1>1. PICK r \in RequestType :
        /\ Replace(q, r) /\ UNCHANGED <<rows, answered, cache, client>>
        /\ r.offset = q.offset /\ r.mine = q.mine /\ RequestRight(r)
  BY DEF Served
<1>2. requests' = (requests \ {q}) \cup {r}
  BY <1>1 DEF Replace
<1>3. /\ RequestsFit(requests, link, walk) /\ PagesFit(answered) /\ PagesFit(cache)
      /\ OneOfAnOffset(cache) /\ ClientFit
  BY InvParts
<1>4. UNCHANGED <<rows, answered, cache, walk, link, shown, kept>>
  BY <1>1 DEF client
<1>5. RequestsFit(requests', link', walk')
  BY <1>1, <1>2, <1>3, <1>4 DEF RequestsFit
<1>6. ClientFit'
  BY <1>3, <1>4, SameClient DEF ClientFit
<1> QED
  BY <1>3, <1>4, <1>5, <1>6, Undisturbed

\* A request that is answered.
LEMMA AnswerInv ==
  ASSUME Inv, NEW q \in requests, Answer(q)
  PROVE  Inv'
<1>1. /\ requests' = requests \ {q} /\ q.stage \in {"end", "failed"}
      /\ answered' = IF q.stage = "failed" \/ q.shared THEN answered ELSE answered \cup {PageOf(q)}
      /\ UNCHANGED <<rows, cache>>
  BY DEF Answer
<1>2. /\ RequestsFit(requests, link, walk) /\ PagesFit(answered) /\ PagesFit(cache)
      /\ OneOfAnOffset(cache) /\ ClientFit
  BY InvParts
<1>3. q.stage = "end" =>
        PageOf(q) \in PageType /\ PageRight(PageOf(q)) /\ PageOf(q).offset = q.offset
  BY PageFrom
<1>4. PagesFit(answered') /\ PagesFit(cache') /\ OneOfAnOffset(cache')
  BY <1>1, <1>2, <1>3 DEF PagesFit
<1>5. CASE ~q.mine
  <2>1. UNCHANGED <<walk, link, shown, kept>>
    BY <1>5 DEF Answer, client
  <2>2. RequestsFit(requests', link', walk')
    BY <1>1, <1>2, <1>5, <2>1 DEF RequestsFit
  <2>3. ClientFit'
    BY <1>1, <1>2, <2>1, SameClient DEF ClientFit
  <2> QED
    BY <1>1, <1>4, <2>2, <2>3, Undisturbed
<1>6. CASE q.mine
  <2>1. walk = "waiting" /\ q.offset = link /\ \A r \in requests' : ~r.mine
    BY <1>1, <1>2, <1>6 DEF RequestsFit
  <2>2. walk' # "waiting" => RequestsFit(requests', link', walk')
    BY <1>1, <1>2, <2>1 DEF RequestsFit
  <2>3. CASE Fails(q)
    <3>1. walk' = "failed" /\ UNCHANGED <<link, shown, kept>>
      BY <1>6, <2>3 DEF Answer
    <3>2. ClientFit'
      BY <1>1, <2>1, <3>1, SameClient
    <3> QED
      BY <1>1, <1>4, <2>2, <3>1, <3>2, Undisturbed
  <2>4. CASE ~Fails(q)
    <3>1. Show(PageOf(q)) /\ q.stage = "end"
      BY <1>1, <1>6, <2>4 DEF Answer, Fails
    <3>2. ClientFit' /\ walk' \in {"done", "walking"}
      BY <1>1, <1>3, <2>1, <3>1, PageShown
    <3> QED
      BY <1>1, <1>4, <2>2, <3>2, Undisturbed
  <2> QED
    BY <2>3, <2>4
<1> QED
  BY <1>5, <1>6

\* The pages that are cached, and that expire.
LEMMA CacheInv ==
  ASSUME Inv, NEW page, Store(page) \/ Expire(page)
  PROVE  Inv'
<1>1. /\ RequestsFit(requests, link, walk) /\ PagesFit(answered) /\ PagesFit(cache)
      /\ OneOfAnOffset(cache) /\ ClientFit
  BY InvParts
<1>2. UNCHANGED <<rows, requests, walk, link, shown, kept>>
  BY DEF Store, Expire, client
<1>3. PagesFit(answered') /\ PagesFit(cache') /\ OneOfAnOffset(cache')
  BY <1>1 DEF Store, Expire, PagesFit, OneOfAnOffset
<1>4. ClientFit'
  BY <1>1, <1>2, SameClient DEF ClientFit
<1> QED
  BY <1>1, <1>2, <1>3, <1>4, Undisturbed

\* The steps of the client, and of other clients that ask.
LEMMA AskInv ==
  ASSUME Inv, Begin \/ Follow \/ \E offset \in Links : Other(offset)
  PROVE  Inv'
<1>1. /\ RequestsFit(requests, link, walk) /\ PagesFit(answered) /\ PagesFit(cache)
      /\ OneOfAnOffset(cache) /\ ClientFit
  BY InvParts
<1>2. CASE Begin
  <2>1. /\ walk = "idle" /\ walk' = "walking"
        /\ UNCHANGED <<rows, requests, answered, cache, link, shown, kept>>
    BY <1>2 DEF Begin, api
  <2>2. RequestsFit(requests', link', walk')
    BY <1>1, <2>1 DEF RequestsFit
  <2>3. ClientFit'
    BY <2>1, SameClient
  <2> QED
    BY <1>1, <2>1, <2>2, <2>3, Undisturbed
<1>3. CASE LoadFromCache
  <2>1. walk = "walking" /\ UNCHANGED <<rows, requests, answered, cache>>
    BY <1>3 DEF LoadFromCache, api
  <2>2. PICK page \in cache : page.offset = link /\ Show(page)
    BY <1>3 DEF LoadFromCache
  <2>3. ClientFit' /\ walk' \in {"done", "walking"}
    BY <1>1, <2>1, <2>2, PageShown DEF PagesFit
  <2>4. RequestsFit(requests', link', walk')
    BY <1>1, <2>1, <2>3 DEF RequestsFit
  <2> QED
    BY <1>1, <2>1, <2>3, <2>4, Undisturbed
<1>4. CASE Lead
  <2> DEFINE r == Request(link, TRUE)
  <2>1. /\ walk = "walking" /\ walk' = "waiting" /\ requests' = requests \cup {r}
        /\ \A q \in requests : q.offset # link
        /\ UNCHANGED <<rows, answered, cache, link, shown, kept>>
    BY <1>4 DEF Lead, Open
  <2>2. r \in RequestType /\ RequestRight(r) /\ r.offset = link /\ r.mine = TRUE
    BY Beginning DEF Links
  <2> HIDE DEF r
  <2>3. RequestsFit(requests', link', walk')
    BY <1>1, <2>1, <2>2 DEF RequestsFit
  <2>4. ClientFit'
    BY <2>1, SameClient
  <2> QED
    BY <1>1, <2>1, <2>3, <2>4, Undisturbed
<1>5. CASE Join
  <2>1. /\ walk = "walking" /\ walk' = "waiting"
        /\ UNCHANGED <<rows, answered, cache, link, shown, kept>>
    BY <1>5 DEF Join
  <2>2. PICK q \in requests :
          /\ q.offset = link
          /\ Replace(q, [q EXCEPT !.mine = TRUE, !.joined = TRUE, !.shared = TRUE])
    BY <1>5 DEF Join, Open
  <2> DEFINE r == [q EXCEPT !.mine = TRUE, !.joined = TRUE, !.shared = TRUE]
  <2>3. requests' = (requests \ {q}) \cup {r}
    BY <2>2 DEF Replace
  <2>4. r \in RequestType /\ r.offset = q.offset /\ r.mine = TRUE /\ RequestRight(r)
    BY <1>1, <2>2, JoinedRight DEF RequestsFit
  <2> HIDE DEF r
  <2>5. RequestsFit(requests', link', walk')
    BY <1>1, <2>1, <2>2, <2>3, <2>4 DEF RequestsFit
  <2>6. ClientFit'
    BY <2>1, SameClient
  <2> QED
    BY <1>1, <2>1, <2>5, <2>6, Undisturbed
<1>6. ASSUME NEW offset \in Links, Other(offset)
      PROVE  Inv'
  <2> DEFINE r == Request(offset, FALSE)
  <2>1. /\ requests' = requests \cup {r} /\ \A q \in requests : q.offset # offset
        /\ UNCHANGED <<rows, answered, cache, walk, link, shown, kept>>
    BY <1>6 DEF Other, Open, client
  <2>2. r \in RequestType /\ RequestRight(r) /\ r.offset = offset /\ r.mine = FALSE
    BY Beginning
  <2> HIDE DEF r
  <2>3. RequestsFit(requests', link', walk')
    BY <1>1, <2>1, <2>2 DEF RequestsFit
  <2>4. ClientFit'
    BY <1>1, <2>1, SameClient DEF ClientFit
  <2> QED
    BY <1>1, <2>1, <2>3, <2>4, Undisturbed
<1> QED
  BY <1>2, <1>3, <1>4, <1>5, <1>6 DEF Follow

\* An account row that is inserted.
LEMMA InsertInv ==
  ASSUME Inv, NEW a \in Changing, NEW holds \in BOOLEAN, InsertRow(a, holds)
  PROVE  Inv'
<1>1. /\ RowsFit /\ RequestsFit(requests, link, walk) /\ PagesFit(answered) /\ PagesFit(cache)
      /\ OneOfAnOffset(cache) /\ ClientFit
  BY InvParts
<1>2. RowsFit'
  BY Inserted DEF RowsFit
<1> DEFINE RequestThen(q) ==
             [q EXCEPT !.kept = Lost(a, holds, @), !.held = IF holds THEN @ \cup {a} ELSE @]
           PageThen(p) == [p EXCEPT !.kept = Lost(a, holds, @)]
<1>3. /\ requests' = {RequestThen(q) : q \in requests}
      /\ answered' = {PageThen(p) : p \in answered} /\ cache' = {PageThen(p) : p \in cache}
      /\ kept' = Lost(a, holds, kept) /\ UNCHANGED <<walk, link, shown>>
  BY DEF InsertRow
<1>4. a \in Addresses /\ \A S \in SUBSET Addresses : Lost(a, holds, S) \in SUBSET Addresses
  BY AccountsAssumption DEF Lost
<1>5. ASSUME NEW q \in requests
      PROVE  /\ RequestThen(q) \in RequestType /\ RequestRight(RequestThen(q))'
             /\ RequestThen(q).offset = q.offset /\ RequestThen(q).mine = q.mine
  <2> DEFINE r == RequestThen(q)
             k == Lost(a, holds, q.kept)
             h == IF holds THEN q.held \cup {a} ELSE q.held
  <2>1. q \in RequestType /\ RequestRight(q)
    BY <1>1 DEF RequestsFit
  <2>2. k \in SUBSET Addresses /\ h \in SUBSET Addresses
    BY <1>4, <2>1, RequestFields
  <2>3. r = [q EXCEPT !.kept = k, !.held = h]
    OBVIOUS
  <2> HIDE DEF r, k, h
  <2>4. /\ r \in RequestType /\ r.offset = q.offset /\ r.mine = q.mine
        /\ r.stage = q.stage /\ r.top = q.top /\ r.rest = q.rest
        /\ r.chunk = q.chunk /\ r.items = q.items /\ r.kept = k /\ r.held = h
    BY <2>1, <2>2, <2>3 DEF RequestType
  <2>5. RequestRight(r)'
    BY <2>1, <2>4, InsertedRight DEF k, h
  <2> QED
    BY <2>4, <2>5 DEF r
<1>6. ASSUME NEW p \in PageType, PageRight(p)
      PROVE  /\ PageThen(p) \in PageType /\ PageRight(PageThen(p))'
             /\ PageThen(p).offset = p.offset
  <2> DEFINE r == PageThen(p)
             k == Lost(a, holds, p.kept)
  <2>1. k \in SUBSET Addresses
    BY <1>4, <1>6 DEF PageType
  <2>2. r = [p EXCEPT !.kept = k]
    OBVIOUS
  <2> HIDE DEF r, k
  <2>3. /\ r \in PageType /\ r.offset = p.offset /\ r.items = p.items /\ r.next = p.next
        /\ r.kept = k
    BY <1>6, <2>1, <2>2 DEF PageType
  <2>4. PageRight(r)'
    BY <1>6, <2>3, InsertedPageRight DEF k
  <2> QED
    BY <2>3, <2>4 DEF r
<1> HIDE DEF RequestThen, PageThen
<1>7. RequestsFit(requests, link, walk)'
  <2>1. requests' \subseteq RequestType /\ \A r \in requests' : RequestRight(r)'
    BY <1>3, <1>5
  <2>2. \A q, r \in requests' : q.offset = r.offset => q = r
    BY <1>1, <1>3, <1>5 DEF RequestsFit
  <2>3. \A r \in requests' : r.mine => r.offset = link'
    BY <1>1, <1>3, <1>5 DEF RequestsFit
  <2>4. walk' = "waiting" <=> \E r \in requests' : r.mine
    BY <1>1, <1>3, <1>5 DEF RequestsFit
  <2> QED
    BY <2>1, <2>2, <2>3, <2>4 DEF RequestsFit
<1>8. PagesFit(answered)' /\ PagesFit(cache)'
  BY <1>1, <1>3, <1>6 DEF PagesFit
<1>9. OneOfAnOffset(cache)'
  BY <1>1, <1>3, <1>6 DEF OneOfAnOffset, PagesFit
<1>10. ClientFit'
  <2>1. /\ EverHeld \subseteq EverHeld' /\ Cardinality(EverHeld) <= Cardinality(EverHeld')
        /\ Cardinality(EverHeld) \in Nat /\ Cardinality(EverHeld') \in Nat /\ Chunk \in Nat
    BY <1>1, <1>2, Inserted, EverHolding, RowsThen, AccountsAssumption DEF RowsFit, Told
  <2>2. kept' \subseteq kept
    BY <1>3 DEF Lost
  <2>3. EverHeldAt(link)'
    BY <1>1, <1>3, <2>1 DEF ClientFit, ClientRight, EverHeldAt
  <2>4. /\ Cardinality(EverHeld') <= Chunk => Cardinality(EverHeld) <= Chunk
        /\ Cardinality(EverHeld') <= Chunk + 2 => Cardinality(EverHeld) <= Chunk + 2
    BY <2>1
  <2>5. \A s : Rising(s)' <=> Rising(s)
    BY DEF Rising
  <2>6. ClientRight'
    BY <1>1, <1>3, <2>2, <2>3, <2>4, <2>5 DEF ClientFit, ClientRight
  <2> QED
    BY <1>1, <1>3, <2>2, <2>6 DEF ClientFit
<1> QED
  BY <1>2, <1>7, <1>8, <1>9, <1>10, InvPartsThen

\* Every step.
LEMMA NextInv == Inv /\ [Next]_vars => Inv'
<1> SUFFICES ASSUME Inv, [Next]_vars
             PROVE  Inv'
  OBVIOUS
<1>1. ASSUME NEW q \in requests, Serve(q)
      PROVE  Inv'
  <2>1. QueryTop(q) \/ QueryAddresses(q) \/ QueryChunk(q) => Served(q)
    BY TopServed, AddressesServed, ChunkServed
  <2> QED
    BY <1>1, <2>1, ServedInv, AnswerInv DEF Serve
<1>2. ASSUME UNCHANGED vars
      PROVE  Inv'
  <2>1. UNCHANGED <<rows, requests, answered, cache, walk, link, shown, kept>>
    BY <1>2 DEF vars, api, client
  <2>2. ClientFit'
    BY <2>1, SameClient, InvParts DEF ClientFit
  <2> QED
    BY <2>1, <2>2, InvParts, Undisturbed
<1> QED
  BY <1>1, <1>2, InsertInv, CacheInv, AskInv DEF Next

\* The invariant holds in every reachable state.
LEMMA SpecInv == Spec => []Inv
<1>1. Init => Inv
  BY InitInv
<1>2. Inv /\ [Next]_vars => Inv'
  BY NextInv
<1> QED
  BY <1>1, <1>2, PTL DEF Spec

-----------------------------------------------------------------------------
(* The theorems. *)

\* Every variable stays in its type: one page of an offset at most is cached, and the client
\* waits for a page exactly while a request is its own.
THEOREM TypeCorrect == Spec => []TypeOK
<1>1. Inv => TypeOK
  BY DEF Inv
<1> QED
  BY <1>1, SpecInv, PTL

\* A page lists only accounts that had the key while it was made: what filterAccountByPublickey
\* takes of a chunk had the key at that query, or when the request began.
THEOREM OnlyHoldersListed == Spec => []ListedHeld
<1>1. Inv => ListedHeld
  BY DEF Inv, RequestRight, Fits, ListedHeld
<1> QED
  BY <1>1, SpecInv, PTL

\* The slices of topHeightByPublickey and filterAccountByPublickey do not fail, for as many
\* accounts as two chunks hold.
THEOREM SlicesHold == Spec => []FailsAlone
<1>1. Inv => FailsAlone
  BY DEF Inv, RequestRight, Fits, FailsAlone
<1> QED
  BY <1>1, SpecInv, PTL

\* A walk lists no account twice, and in the order of the addresses, as long as one chunk
\* covers them.
THEOREM AccountsListedOnce == Spec => []ListedOnce
<1>1. Inv => ListedOnce
  BY DEF Inv, ClientRight, Rising, ListedOnce
<1> QED
  BY <1>1, SpecInv, PTL

\* A walk that came to its end has listed every account that had the key all the while,
\* as long as there are no more than the chunks cover, whatever rows were digested between the
\* queries and the pages, and whatever came out of the cache.
THEOREM AllHoldersListed == Spec => []HoldersListed
<1>1. Inv => HoldersListed
  BY DEF Inv, ClientRight, HoldersListed
<1> QED
  BY <1>1, SpecInv, PTL

=============================================================================
