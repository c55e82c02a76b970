----------------------------- MODULE PagesProofs -----------------------------
(***************************************************************************)
(* Proofs about Pages: type correctness, that a walk shows no row twice,   *)
(* and that it skips none but a document, or a row that appeared late, at  *)
(* the edge of a page; whichever pages it gets out of the cache, in        *)
(* whatever order rows appear, and however many there are in a block.      *)
(***************************************************************************)
EXTENDS Pages, FiniteSetTheorems, WellOrder

-----------------------------------------------------------------------------
(* Rows, positions and their order. *)

\* The heights of blocks.
LEMMA BlockHeights ==
  /\ Heights \subseteq Nat \ {0}
  /\ \A l \in Listings : /\ DOMAIN Blocks[l] = 1..Len(Blocks[l]) /\ Len(Blocks[l]) \in Nat
                         /\ DOMAIN Blocks[l] \subseteq Heights
                         /\ \A h \in DOMAIN Blocks[l] : Blocks[l][h] \subseteq Ids
<1>1. \A l \in Listings : Blocks[l] \in Seq((SUBSET Ids) \ {{}})
  BY PagesAssumption
<1>2. \A l \in Listings : DOMAIN Blocks[l] = 1..Len(Blocks[l]) /\ Len(Blocks[l]) \in Nat
  BY <1>1
<1>3. \A l \in Listings : \A h \in DOMAIN Blocks[l] : Blocks[l][h] \subseteq Ids
  BY <1>1
<1> QED
  BY <1>2, <1>3 DEF Heights

\* A row is its id and its height.
LEMMA RowFields ==
  ASSUME NEW r \in AllRows
  PROVE  /\ r.id \in Ids \cup {0} /\ r.id \in Nat
         /\ r.height \in Heights /\ r.height \in Nat \ {0}
         /\ r = [id |-> r.id, height |-> r.height]
<1>1. r.id \in Ids \cup {0} /\ r.height \in Heights /\ r = [id |-> r.id, height |-> r.height]
  BY DEF AllRows
<1> QED
  BY <1>1, BlockHeights, PagesAssumption

\* A block's rows.
LEMMA RowsOfBlock ==
  ASSUME listing \in Listings, NEW h \in DOMAIN Blocks[listing], NEW r \in RowsOf(h)
  PROVE  r \in AllRows /\ r.height = h
<1>1. h \in Heights /\ Blocks[listing][h] \subseteq Ids
  BY BlockHeights
<1> QED
  BY <1>1 DEF RowsOf, AllRows

\* The position of a row is an offset, of two numbers.
LEMMA Positions ==
  /\ \A o \in Offsets : o = <<o[1], o[2]>> /\ o[1] \in Nat /\ o[2] \in Nat
  /\ \A r \in AllRows : Position(r) \in Offsets /\ Position(r)[1] = r.height
<1>1. \A o \in Offsets : o = <<o[1], o[2]>> /\ o[1] \in Nat /\ o[2] \in Nat
  <2>1. Heights \subseteq Nat /\ Ids \cup {0} \subseteq Nat
    BY BlockHeights, PagesAssumption
  <2>2. Offsets \subseteq Nat \X Nat
    BY <2>1 DEF Offsets
  <2>3. \A o \in Nat \X Nat : o = <<o[1], o[2]>> /\ o[1] \in Nat /\ o[2] \in Nat
    OBVIOUS
  <2> QED
    BY <2>2, <2>3
<1>2. \A r \in AllRows : Position(r) \in Offsets /\ Position(r)[1] = r.height
  BY RowFields DEF Position, Offsets
<1> QED
  BY <1>1, <1>2

\* Ahead is a strict total order of the offsets, the converse of itself the other way.
LEMMA AheadOrder ==
  ASSUME NEW p \in Offsets, NEW q \in Offsets, NEW u \in Offsets
  PROVE  /\ ~Ahead(p, p)
         /\ Ahead(p, q) => ~Ahead(q, p)
         /\ Ahead(p, q) /\ Ahead(q, u) => Ahead(p, u)
         /\ Ahead(p, q) \/ Ahead(q, p) \/ p = q
<1>1. /\ p = <<p[1], p[2]>> /\ p[1] \in Nat /\ p[2] \in Nat
      /\ q = <<q[1], q[2]>> /\ q[1] \in Nat /\ q[2] \in Nat
      /\ u = <<u[1], u[2]>> /\ u[1] \in Nat /\ u[2] \in Nat
  BY Positions
<1>2. /\ ~Less(p, p)
      /\ Less(p, q) => ~Less(q, p)
      /\ Less(p, q) /\ Less(q, u) => Less(p, u)
      /\ Less(u, q) /\ Less(q, p) => Less(u, p)
      /\ Less(p, q) \/ Less(q, p) \/ p = q
  BY <1>1 DEF Less
<1> QED
  BY <1>2 DEF Ahead

\* A page that is not empty has a last row.
LEMMA LastRow ==
  ASSUME NEW p \in SUBSET AllRows, IsFiniteSet(p), p # {}
  PROVE  Last(p) \in p /\ \A s \in p : ~Ahead(Position(Last(p)), Position(s))
<1> DEFINE Sizes == {n \in Nat : \A T \in SUBSET AllRows :
                       IsFiniteSet(T) /\ Cardinality(T) = n + 1 =>
                         \E r \in T : \A s \in T : ~Ahead(Position(r), Position(s))}
<1>1. 0 \in Sizes
  <2> SUFFICES ASSUME NEW T \in SUBSET AllRows, IsFiniteSet(T), Cardinality(T) = 0 + 1
               PROVE  \E r \in T : \A s \in T : ~Ahead(Position(r), Position(s))
    OBVIOUS
  <2>1. \E r : T = {r}
    <3>1. Cardinality(T) = 1
      OBVIOUS
    <3> QED
      BY <3>1, FS_Singleton
  <2>2. PICK r : T = {r}
    BY <2>1
  <2> QED
    BY <2>2, Positions, AheadOrder
<1>2. ASSUME NEW n \in Nat, n \in Sizes
      PROVE  n + 1 \in Sizes
  <2> SUFFICES ASSUME NEW T \in SUBSET AllRows, IsFiniteSet(T), Cardinality(T) = (n + 1) + 1
               PROVE  \E r \in T : \A s \in T : ~Ahead(Position(r), Position(s))
    OBVIOUS
  <2>1. T # {}
    BY FS_EmptySet
  <2>2. PICK t \in T : TRUE
    BY <2>1
  <2>3. T \ {t} \in SUBSET AllRows /\ IsFiniteSet(T \ {t}) /\ Cardinality(T \ {t}) = n + 1
    BY <2>2, FS_RemoveElement
  <2>4. PICK r \in T \ {t} : \A s \in T \ {t} : ~Ahead(Position(r), Position(s))
    BY <1>2, <2>3
  <2>5. CASE Ahead(Position(r), Position(t))
    <3>1. \A s \in T : ~Ahead(Position(t), Position(s))
      BY <2>2, <2>4, <2>5, Positions, AheadOrder
    <3> QED
      BY <2>2, <3>1
  <2>6. CASE ~Ahead(Position(r), Position(t))
    BY <2>4, <2>6
  <2> QED
    BY <2>5, <2>6
<1>3. Nat \subseteq Sizes
  <2> HIDE DEF Sizes
  <2> QED
    BY <1>1, <1>2, Induction
<1>4. Cardinality(p) \in Nat /\ Cardinality(p) # 0
  BY FS_CardinalityType, FS_EmptySet
<1>5. Cardinality(p) - 1 \in Sizes /\ Cardinality(p) = (Cardinality(p) - 1) + 1
  BY <1>3, <1>4
<1>6. \E r \in p : \A s \in p : ~Ahead(Position(r), Position(s))
  BY <1>5
<1> QED
  BY <1>6 DEF Last

\* The link of a page that is not empty is the position of its last row.
LEMMA NextLink ==
  ASSUME NEW p \in SUBSET AllRows, IsFiniteSet(p), p # {}
  PROVE  /\ NextOffset(p) \in Offsets \cup {NoOffset}
         /\ listing # "account-documents" =>
              /\ NextOffset(p) = Position(Last(p)) /\ NextOffset(p) \in Offsets
              /\ Last(p) \in p
              /\ \A s \in p : ~Ahead(NextOffset(p), Position(s))
BY LastRow, Positions DEF NextOffset

\* The sets that are not empty.
LEMMA NotEmpty ==
  ASSUME NEW S, NEW x
  PROVE  x \in S \ {{}} <=> x \in S /\ x # {}
<1>1. \A e : x \in S \ {e} <=> x \in S /\ x # e
  OBVIOUS
<1> QED
  BY <1>1

\* A page in the cache has rows.
LEMMA CachedPage ==
  ASSUME TypeOK, NEW o \in DOMAIN cache, cache[o] # NoPage
  PROVE  cache[o] \in SUBSET AllRows /\ cache[o] # {}
<1>1. cache[o] \in {NoPage} \cup ((SUBSET AllRows) \ {{}})
  BY DEF TypeOK
<1>2. cache[o] \in (SUBSET AllRows) \ {{}}
  BY <1>1
<1> QED
  BY <1>2, NotEmpty

\* A page that a query answers.
LEMMA QueriedPage ==
  ASSUME TypeOK, IsFiniteSet(rows), NEW o, NEW l \in Nat, NEW p \in Pages(o, l)
  PROVE  /\ p \subseteq Listed /\ p \subseteq AllRows /\ IsFiniteSet(p)
         /\ Whole(o, p)
         /\ listing # "documents-by-height" =>
              /\ PageAfter(o, p)
              /\ p = {} => \A r \in Listed : o # NoOffset /\ ~Ahead(o, Position(r))
<1> DEFINE after == Filter(o)
<1>1. /\ p \subseteq after /\ Cardinality(p) = Size(l, Cardinality(after))
      /\ \A r \in p, s \in after \ p : ~Ahead(Position(s), Position(r))
  BY DEF Pages
<1>2. Listed \subseteq rows /\ after \subseteq Listed /\ rows \subseteq AllRows
  BY DEF Listed, Filter, TypeOK
<1>3. IsFiniteSet(after) /\ IsFiniteSet(p)
  <2>1. after \in SUBSET rows /\ p \in SUBSET rows
    BY <1>1, <1>2
  <2> QED
    BY <2>1, FS_Subset
<1>4. listing # "documents-by-height" => PageAfter(o, p)
  BY <1>1 DEF Filter, PageAfter
<1>5. Whole(o, p)
  BY <1>1 DEF Filter, Whole
<1>6. ASSUME p = {}
      PROVE  after = {}
  <2>1. Cardinality(p) = 0
    BY <1>6, FS_EmptySet
  <2>2. Cardinality(after) \in Nat
    BY <1>3, FS_CardinalityType
  <2>3. Cardinality(after) = 0
    BY <1>1, <2>1, <2>2, PagesAssumption DEF Size
  <2> QED
    BY <1>3, <2>3, FS_EmptySet
<1>7. listing # "documents-by-height" /\ p = {} =>
        \A r \in Listed : o # NoOffset /\ ~Ahead(o, Position(r))
  BY <1>6 DEF Filter
<1> QED
  BY <1>1, <1>2, <1>3, <1>4, <1>5, <1>7

-----------------------------------------------------------------------------
(* What the steps do to the rows, the pages and the client. *)

\* The listing and the direction are those of the first state.
LEMMA SameListing ==
  ASSUME [Next]_vars
  PROVE  listing' = listing /\ reverse' = reverse
<1>1. \A r \in AllRows : DeleteRow(r) \/ InsertRow(r) => listing' = listing /\ reverse' = reverse
  BY DEF DeleteRow, InsertRow
<1>2. \A q \in requests : Answer(q) \/ Store(q) => listing' = listing /\ reverse' = reverse
  BY DEF Answer, Store
<1>3. \A o \in DOMAIN cache : Expire(o) => listing' = listing /\ reverse' = reverse
  BY DEF Expire
<1> QED
  BY <1>1, <1>2, <1>3 DEF Next, Digest, Other, Begin, Follow, LoadFromCache, Lead, Join, vars

\* So the order of the rows is the same.
LEMMA SameOrder ==
  ASSUME [Next]_vars
  PROVE  /\ \A r : Position(r)' = Position(r)
         /\ \A p, q : Ahead(p, q)' = Ahead(p, q)
         /\ \A h : RowsOf(h)' = RowsOf(h)
         /\ \A o, p : PageAfter(o, p)' = PageAfter(o, p)
BY SameListing DEF Position, Ahead, RowsOf, PageAfter, Less

\* The digester deletes a row of a block that is there, or inserts one of the next.
LEMMA RowsNext ==
  ASSUME [Next]_vars
  PROVE  \/ UNCHANGED <<rows, height, late>>
         \/ /\ \E r \in AllRows : DeleteRow(r) \/ InsertRow(r)
            /\ height + 1 \in DOMAIN Blocks[listing]
            /\ UNCHANGED <<api, client>>
<1>1. \A r \in AllRows : DeleteRow(r) \/ InsertRow(r) => UNCHANGED <<api, client>>
  BY DEF DeleteRow, InsertRow
<1>2. \A q \in requests : Answer(q) \/ Store(q) => UNCHANGED <<rows, height, late>>
  BY DEF Answer, Store, digest
<1>3. \A o \in DOMAIN cache : Expire(o) => UNCHANGED <<rows, height, late>>
  BY DEF Expire, digest
<1> QED
  BY <1>1, <1>2, <1>3
  DEF Next, Digest, Other, Begin, Follow, LoadFromCache, Lead, Join, vars, digest

\* A page that is served was served before, or a query has made it.
LEMMA ServedNext ==
  ASSUME TypeOK, [Next]_vars
  PROVE  \A s \in Served' :
           \/ s \in Served
           \/ \E l \in Nat : s[2] \in Pages(s[1], l)
              /\ \/ s[1] = NoOffset \/ s[1] = link
                 \/ \E r \in Listed : s[1] = Position(r)
<1> SUFFICES ASSUME NEW s \in Served'
             PROVE  \/ s \in Served
                    \/ \E l \in Nat : s[2] \in Pages(s[1], l)
                       /\ \/ s[1] = NoOffset \/ s[1] = link
                          \/ \E r \in Listed : s[1] = Position(r)
  OBVIOUS
<1>0. cache \in [Offsets \cup {NoOffset} -> {NoPage} \cup ((SUBSET AllRows) \ {{}})]
  BY DEF TypeOK
<1>1. CASE UNCHANGED api
  BY <1>1 DEF api, Served
<1>2. ASSUME NEW o, NEW l \in Nat, NEW mine, Query(o, l, mine), UNCHANGED cache,
             o = NoOffset \/ o = link \/ \E r \in Listed : o = Position(r)
      PROVE  \/ s \in Served
             \/ \E k \in Nat : s[2] \in Pages(s[1], k)
                /\ \/ s[1] = NoOffset \/ s[1] = link
                   \/ \E r \in Listed : s[1] = Position(r)
  <2>1. PICK p \in Pages(o, l) :
          requests' = requests \cup
            {[offset |-> o, page |-> p, mine |-> mine, shared |-> FALSE, open |-> TRUE]}
    BY <1>2 DEF Query
  <2>2. s \in Served \/ s = <<o, p>>
    BY <1>2, <2>1 DEF Served
  <2> QED
    BY <1>2, <2>1, <2>2
<1>3. CASE Other
  <2>1. PICK o \in DOMAIN cache, l \in Limits \cup {ItemsLimit} :
          /\ o # NoOffset => \E r \in Listed : Position(r) = o
          /\ Query(o, l, FALSE)
    BY <1>3 DEF Other
  <2>2. l \in Nat /\ UNCHANGED cache
    BY <1>3, PagesAssumption DEF Other
  <2> QED
    BY <1>2, <2>1, <2>2
<1>4. CASE Lead
  <2>1. limit \in Nat
    BY PagesAssumption DEF TypeOK
  <2> QED
    BY <1>2, <1>4, <2>1 DEF Lead
<1>5. ASSUME NEW q \in requests, Answer(q)
      PROVE  s \in Served
  <2>1. requests' \subseteq (requests \ {q}) \cup {[q EXCEPT !.open = FALSE, !.mine = FALSE]}
        /\ UNCHANGED cache
    BY <1>5 DEF Answer
  <2>2. /\ [q EXCEPT !.open = FALSE, !.mine = FALSE].offset = q.offset
        /\ [q EXCEPT !.open = FALSE, !.mine = FALSE].page = q.page
    BY DEF TypeOK
  <2> QED
    BY <2>1, <2>2 DEF Served
<1>6. ASSUME NEW q \in requests, Store(q)
      PROVE  s \in Served
  <2>1. UNCHANGED requests \/ requests' = requests \ {q}
    BY <1>6 DEF Store
  <2>2. cache' = [cache EXCEPT ![q.offset] = q.page]
    BY <1>6 DEF Store
  <2>3. CASE s \in {<<r.offset, r.page>> : r \in requests'}
    BY <2>1, <2>3 DEF Served
  <2>4. CASE s \in {<<o, cache'[o]>> : o \in {u \in DOMAIN cache' : cache'[u] # NoPage}}
    <3>1. PICK o \in DOMAIN cache : cache'[o] # NoPage /\ s = <<o, cache'[o]>>
      BY <2>2, <2>4
    <3>2. CASE o = q.offset
      BY <2>2, <3>1, <3>2 DEF Served
    <3>3. CASE o # q.offset
      BY <2>2, <3>1, <3>3 DEF Served
    <3> QED
      BY <3>2, <3>3
  <2> QED
    BY <2>3, <2>4 DEF Served
<1>7. ASSUME NEW o \in DOMAIN cache, Expire(o)
      PROVE  s \in Served
  BY <1>0, <1>7 DEF Expire, Served
<1>8. CASE Join
  <2>1. PICK q \in requests :
          requests' = (requests \ {q}) \cup {[q EXCEPT !.shared = TRUE, !.mine = TRUE]}
    BY <1>8 DEF Join, Open
  <2>2. /\ [q EXCEPT !.shared = TRUE, !.mine = TRUE].offset = q.offset
        /\ [q EXCEPT !.shared = TRUE, !.mine = TRUE].page = q.page
    BY DEF TypeOK
  <2> QED
    BY <1>8, <2>1, <2>2 DEF Join, Served
<1>9. \A r \in AllRows : DeleteRow(r) \/ InsertRow(r) => UNCHANGED api
  BY DEF DeleteRow, InsertRow
<1>10. Begin \/ LoadFromCache \/ UNCHANGED vars => UNCHANGED api
  BY DEF Begin, LoadFromCache, vars
<1> QED
  BY <1>1, <1>3, <1>4, <1>5, <1>6, <1>7, <1>8, <1>9, <1>10 DEF Next, Digest, Follow

\* What the client does: it waits or stays, gets a page of its link, comes to the end of
\* the links, or begins.
LEMMA ClientNext ==
  ASSUME TypeOK, MineAtLink, [Next]_vars
  PROVE  \/ /\ UNCHANGED <<before, link, page, shown, ends>>
            /\ (walk' = "done" => walk = "done") /\ (walk' = "idle" => walk = "idle")
         \/ /\ \E p : /\ <<link, p>> \in Served /\ p # {}
                      /\ page' = p /\ link' = NextOffset(p)
                      /\ ends' = ends \cup {Last(p).height}
            /\ shown' = shown \cup page /\ walk' = "walking" /\ before' = before
         \/ /\ \E q \in requests : q.open /\ q.offset = link /\ q.page = {}
            /\ UNCHANGED <<before, link, page, shown, ends>> /\ walk' = "done"
         \/ /\ walk = "idle" /\ walk' = "walking"
            /\ before' = IF \E q \in requests : q.open THEN {} ELSE rows
            /\ UNCHANGED <<link, page, shown, ends>>
<1> DEFINE Goal ==
      \/ /\ UNCHANGED <<before, link, page, shown, ends>>
         /\ (walk' = "done" => walk = "done") /\ (walk' = "idle" => walk = "idle")
      \/ /\ \E p : /\ <<link, p>> \in Served /\ p # {}
                   /\ page' = p /\ link' = NextOffset(p)
                   /\ ends' = ends \cup {Last(p).height}
         /\ shown' = shown \cup page /\ walk' = "walking" /\ before' = before
      \/ /\ \E q \in requests : q.open /\ q.offset = link /\ q.page = {}
         /\ UNCHANGED <<before, link, page, shown, ends>> /\ walk' = "done"
      \/ /\ walk = "idle" /\ walk' = "walking"
         /\ before' = IF \E q \in requests : q.open THEN {} ELSE rows
         /\ UNCHANGED <<link, page, shown, ends>>
<1> SUFFICES Goal
  OBVIOUS
<1>1. ASSUME NEW q \in requests, Answer(q)
      PROVE  Goal
  <2>1. CASE ~q.mine
    BY <1>1, <2>1 DEF Answer, client
  <2>2. CASE q.mine
    <3>1. q.open /\ q.offset = link /\ Show(q.page)
      BY <1>1, <2>2 DEF Answer, MineAtLink
    <3>2. <<link, q.page>> \in Served
      BY <3>1 DEF Served
    <3> QED
      BY <3>1, <3>2 DEF Show
  <2> QED
    BY <2>1, <2>2
<1>2. CASE LoadFromCache
  <2>1. cache[link] # NoPage /\ Show(cache[link]) /\ link \in DOMAIN cache
    BY <1>2 DEF LoadFromCache, TypeOK
  <2>2. <<link, cache[link]>> \in Served
    BY <2>1 DEF Served
  <2>3. cache[link] # {}
    BY <2>1, CachedPage
  <2> QED
    BY <2>1, <2>2, <2>3 DEF Show
<1>3. Begin => Goal
  BY DEF Begin
<1>4. \A r \in AllRows : DeleteRow(r) \/ InsertRow(r) => UNCHANGED client
  BY DEF DeleteRow, InsertRow
<1>5. \A q \in requests : Store(q) => UNCHANGED client
  BY DEF Store
<1>6. \A o \in DOMAIN cache : Expire(o) => UNCHANGED client
  BY DEF Expire
<1>7. Other \/ UNCHANGED vars => UNCHANGED client
  BY DEF Other, vars
<1>8. Lead \/ Join => UNCHANGED <<before, link, page, shown, ends>> /\ walk' = "waiting"
  BY DEF Lead, Join
<1>9. UNCHANGED client => Goal
  BY DEF client
<1>10. Lead \/ Join => Goal
  BY <1>8
<1> HIDE DEF Goal
<1> QED
  BY <1>1, <1>2, <1>3, <1>4, <1>5, <1>6, <1>7, <1>9, <1>10 DEF Next, Digest, Follow

-----------------------------------------------------------------------------
(* Types. *)

LEMMA TInit == Init => TInv
<1> SUFFICES ASSUME Init
             PROVE  TInv
  OBVIOUS
<1>1. Served = {}
  BY DEF Init, Served
<1>2. IsFiniteSet(rows)
  BY FS_EmptySet DEF Init
<1>3. TypeOK
  BY DEF Init, TypeOK
<1>4. MineAtLink
  BY DEF Init, MineAtLink
<1> QED
  BY <1>1, <1>2, <1>3, <1>4 DEF TInv

\* The rows stay rows of the listing, finitely many.
LEMMA RowTypes ==
  ASSUME TInv, [Next]_vars
  PROVE  /\ rows' \subseteq AllRows /\ IsFiniteSet(rows') /\ late' \subseteq AllRows
         /\ height' \in Heights \cup {0}
<1>1. /\ listing \in Listings /\ rows \subseteq AllRows /\ IsFiniteSet(rows)
      /\ late \subseteq AllRows /\ height \in Heights \cup {0}
  BY DEF TInv, TypeOK
<1>2. CASE UNCHANGED <<rows, height, late>>
  BY <1>1, <1>2
<1>3. ASSUME NEW r \in AllRows, DeleteRow(r)
      PROVE  /\ rows' \subseteq AllRows /\ IsFiniteSet(rows') /\ late' \subseteq AllRows
             /\ height' \in Heights \cup {0}
  <2>1. rows' = rows \ {r} /\ height' = height /\ late' = late
    BY <1>3 DEF DeleteRow
  <2> QED
    BY <1>1, <2>1, FS_RemoveElement
<1>4. ASSUME NEW r \in AllRows, InsertRow(r), height + 1 \in DOMAIN Blocks[listing]
      PROVE  /\ rows' \subseteq AllRows /\ IsFiniteSet(rows') /\ late' \subseteq AllRows
             /\ height' \in Heights \cup {0}
  <2>1. /\ rows' = rows \cup {r} /\ height' \in {height, height + 1}
        /\ late' \in {late, late \cup {r}}
    BY <1>4 DEF InsertRow
  <2>2. height + 1 \in Heights
    BY <1>1, <1>4, BlockHeights
  <2> QED
    BY <1>1, <2>1, <2>2, FS_AddElement
<1> QED
  BY <1>2, <1>3, <1>4, RowsNext

\* The pages that are served stay sets of rows, finite ones.
LEMMA PageTypes ==
  ASSUME TInv, [Next]_vars, NEW s \in Served'
  PROVE  s[2] \subseteq AllRows /\ IsFiniteSet(s[2])
<1>1. ASSUME NEW t \in Served
      PROVE  t[2] \subseteq AllRows /\ IsFiniteSet(t[2])
  <2>1. \A q \in requests : q.page \subseteq AllRows
    BY DEF TInv, TypeOK
  <2>2. \A o \in DOMAIN cache : cache[o] # NoPage => cache[o] \subseteq AllRows
    BY DEF TInv, TypeOK
  <2> QED
    BY <2>1, <2>2 DEF TInv, Served
<1>2. TypeOK /\ IsFiniteSet(rows)
  BY DEF TInv
<1> QED
  BY <1>1, <1>2, ServedNext, QueriedPage

\* Requests and cached pages.
RequestType ==
  [offset : Offsets \cup {NoOffset}, page : SUBSET AllRows,
   mine : BOOLEAN, shared : BOOLEAN, open : BOOLEAN]

LEMMA ApiTypes ==
  ASSUME TInv, [Next]_vars
  PROVE  /\ requests' \subseteq RequestType
         /\ cache' \in [Offsets \cup {NoOffset} -> {NoPage} \cup ((SUBSET AllRows) \ {{}})]
         /\ \A q \in requests' : q.page = {} => q.open
<1> DEFINE Goal ==
      /\ requests' \subseteq RequestType
      /\ cache' \in [Offsets \cup {NoOffset} -> {NoPage} \cup ((SUBSET AllRows) \ {{}})]
      /\ \A q \in requests' : q.page = {} => q.open
<1> SUFFICES Goal
  OBVIOUS
<1>1. /\ requests \subseteq RequestType
      /\ cache \in [Offsets \cup {NoOffset} -> {NoPage} \cup ((SUBSET AllRows) \ {{}})]
      /\ \A q \in requests : q.page = {} => q.open
      /\ TypeOK /\ IsFiniteSet(rows)
  BY DEF TInv, TypeOK, MineAtLink, RequestType
<1>2. ASSUME NEW o \in Offsets \cup {NoOffset}, NEW l \in Nat, NEW mine \in BOOLEAN,
             Query(o, l, mine), UNCHANGED cache
      PROVE  Goal
  <2>1. PICK p \in Pages(o, l) :
          requests' = requests \cup
            {[offset |-> o, page |-> p, mine |-> mine, shared |-> FALSE, open |-> TRUE]}
    BY <1>2 DEF Query
  <2>2. p \subseteq AllRows
    BY <1>1, QueriedPage
  <2> DEFINE new == [offset |-> o, page |-> p, mine |-> mine, shared |-> FALSE, open |-> TRUE]
  <2>3. new \in RequestType /\ new.open
    BY <2>2 DEF RequestType
  <2> HIDE DEF new
  <2> QED
    BY <1>1, <1>2, <2>1, <2>3 DEF new
<1>3. CASE Other
  <2>1. PICK o \in DOMAIN cache, l \in Limits \cup {ItemsLimit} : Query(o, l, FALSE)
    BY <1>3 DEF Other
  <2>2. l \in Nat /\ UNCHANGED cache /\ o \in Offsets \cup {NoOffset}
    BY <1>1, <1>3, PagesAssumption DEF Other
  <2> QED
    BY <1>2, <2>1, <2>2
<1>4. CASE Lead
  <2>1. limit \in Nat /\ link \in Offsets \cup {NoOffset}
    BY <1>1, PagesAssumption DEF TypeOK
  <2> QED
    BY <1>2, <1>4, <2>1 DEF Lead
<1>5. ASSUME NEW q \in requests, Answer(q)
      PROVE  Goal
  <2> DEFINE a == [q EXCEPT !.open = FALSE, !.mine = FALSE]
  <2>1. /\ requests' \subseteq (requests \ {q}) \cup {a} /\ UNCHANGED cache
        /\ q.page = {} => requests' \subseteq requests
    BY <1>5 DEF Answer
  <2>2. a \in RequestType /\ a.page = q.page
    BY <1>1 DEF RequestType
  <2> HIDE DEF a
  <2> QED
    BY <1>1, <2>1, <2>2
<1>6. ASSUME NEW q \in requests, Store(q)
      PROVE  Goal
  <2>1. ~q.open /\ requests' = requests \ {q} /\ cache' = [cache EXCEPT ![q.offset] = q.page]
    BY <1>6 DEF Store
  <2>2. q.page \in (SUBSET AllRows) \ {{}}
    <3>1. q.page # {}
      BY <1>1, <2>1
    <3>2. q.page \in SUBSET AllRows
      BY <1>1 DEF RequestType
    <3> QED
      BY <3>1, <3>2, NotEmpty
  <2> QED
    BY <1>1, <2>1, <2>2
<1>7. ASSUME NEW o \in DOMAIN cache, Expire(o)
      PROVE  Goal
  BY <1>1, <1>7 DEF Expire
<1>8. CASE Join
  <2>1. PICK q \in requests :
          q.open /\ requests' = (requests \ {q}) \cup {[q EXCEPT !.shared = TRUE, !.mine = TRUE]}
    BY <1>8 DEF Join, Open
  <2>2. [q EXCEPT !.shared = TRUE, !.mine = TRUE] \in RequestType
        /\ [q EXCEPT !.shared = TRUE, !.mine = TRUE].open
    BY <1>1, <2>1 DEF RequestType
  <2> QED
    BY <1>1, <1>8, <2>1, <2>2 DEF Join
<1>9. UNCHANGED api => Goal
  BY <1>1 DEF api
<1>10. \A r \in AllRows : DeleteRow(r) \/ InsertRow(r) => UNCHANGED api
  BY DEF DeleteRow, InsertRow
<1>11. Begin \/ LoadFromCache \/ UNCHANGED vars => UNCHANGED api
  BY DEF Begin, LoadFromCache, vars
<1> HIDE DEF Goal
<1> QED
  BY <1>3, <1>4, <1>5, <1>6, <1>7, <1>8, <1>9, <1>10, <1>11 DEF Next, Digest, Follow

\* This client waits for one request, of its link.
LEMMA MineNext ==
  ASSUME TInv, [Next]_vars
  PROVE  /\ walk' \in {"idle", "walking", "waiting", "done"}
         /\ walk' = "waiting" <=> \E q \in requests' : q.mine
         /\ \A q, r \in requests' : q.mine /\ r.mine => q = r
         /\ \A q \in requests' : q.mine => q.open /\ q.offset = link'
<1> DEFINE Goal ==
      /\ walk' \in {"idle", "walking", "waiting", "done"}
      /\ walk' = "waiting" <=> \E q \in requests' : q.mine
      /\ \A q, r \in requests' : q.mine /\ r.mine => q = r
      /\ \A q \in requests' : q.mine => q.open /\ q.offset = link'
<1> SUFFICES Goal
  OBVIOUS
<1>1. /\ walk \in {"idle", "walking", "waiting", "done"}
      /\ walk = "waiting" <=> \E q \in requests : q.mine
      /\ \A q, r \in requests : q.mine /\ r.mine => q = r
      /\ \A q \in requests : q.mine => q.open /\ q.offset = link
      /\ requests \subseteq RequestType
  BY DEF TInv, TypeOK, MineAtLink, RequestType
<1>2. CASE Other
  <2>1. PICK o, p : requests' = requests \cup
            {[offset |-> o, page |-> p, mine |-> FALSE, shared |-> FALSE, open |-> TRUE]}
    BY <1>2 DEF Other, Query
  <2>2. UNCHANGED <<walk, link>>
    BY <1>2 DEF Other, client
  <2> QED
    BY <1>1, <2>1, <2>2
<1>3. CASE Lead
  <2>1. PICK p : requests' = requests \cup
            {[offset |-> link, page |-> p, mine |-> TRUE, shared |-> FALSE, open |-> TRUE]}
    BY <1>3 DEF Lead, Query
  <2>2. walk = "walking" /\ walk' = "waiting" /\ link' = link
    BY <1>3 DEF Lead
  <2>3. \A q \in requests : ~q.mine
    BY <1>1, <2>2
  <2> DEFINE new == [offset |-> link, page |-> p, mine |-> TRUE, shared |-> FALSE, open |-> TRUE]
  <2>4. new.mine /\ new.open /\ new.offset = link
    OBVIOUS
  <2> HIDE DEF new
  <2> QED
    BY <2>1, <2>2, <2>3, <2>4 DEF new
<1>4. CASE Join
  <2>1. PICK q \in requests :
          /\ q.open /\ q.offset = link
          /\ requests' = (requests \ {q}) \cup {[q EXCEPT !.shared = TRUE, !.mine = TRUE]}
    BY <1>4 DEF Join, Open
  <2>2. walk = "walking" /\ walk' = "waiting" /\ link' = link
    BY <1>4 DEF Join
  <2>3. \A r \in requests : ~r.mine
    BY <1>1, <2>2
  <2> DEFINE j == [q EXCEPT !.shared = TRUE, !.mine = TRUE]
  <2>4. j.mine /\ j.open /\ j.offset = link
    BY <1>1, <2>1 DEF RequestType
  <2> HIDE DEF j
  <2> QED
    BY <2>1, <2>2, <2>3, <2>4 DEF j
<1>5. ASSUME NEW q \in requests, Answer(q)
      PROVE  Goal
  <2> DEFINE a == [q EXCEPT !.open = FALSE, !.mine = FALSE]
  <2>1. requests' = requests \ {q} \/ requests' = (requests \ {q}) \cup {a}
    BY <1>5 DEF Answer
  <2>2. ~a.mine
    BY <1>1 DEF RequestType
  <2> HIDE DEF a
  <2>3. CASE ~q.mine
    <3>1. UNCHANGED <<walk, link>>
      BY <1>5, <2>3 DEF Answer, client
    <3> QED
      BY <1>1, <2>1, <2>2, <2>3, <3>1
  <2>4. CASE q.mine
    <3>1. walk' \in {"done", "walking"}
      BY <1>5, <2>4 DEF Answer, Show
    <3>2. \A r \in requests' : ~r.mine
      BY <1>1, <2>1, <2>2, <2>4
    <3> QED
      BY <3>1, <3>2
  <2> QED
    BY <2>3, <2>4
<1>6. ASSUME NEW q \in requests, Store(q)
      PROVE  Goal
  <2>1. ~q.open /\ requests' = requests \ {q} /\ UNCHANGED <<walk, link>>
    BY <1>6 DEF Store, client
  <2> QED
    BY <1>1, <2>1
<1>7. ASSUME NEW o \in DOMAIN cache, Expire(o)
      PROVE  Goal
  BY <1>1, <1>7 DEF Expire, client
<1>8. CASE LoadFromCache
  <2>1. walk = "walking" /\ walk' \in {"done", "walking"} /\ requests' = requests
    BY <1>8 DEF LoadFromCache, Show, api
  <2> QED
    BY <1>1, <2>1
<1>9. CASE Begin
  BY <1>1, <1>9 DEF Begin, api
<1>10. ASSUME UNCHANGED <<api, client>>
       PROVE  Goal
  BY <1>1, <1>10 DEF api, client
<1>11. \A r \in AllRows : DeleteRow(r) \/ InsertRow(r) => UNCHANGED <<api, client>>
  BY DEF DeleteRow, InsertRow
<1>12. UNCHANGED vars => UNCHANGED <<api, client>>
  BY DEF vars
<1> HIDE DEF Goal
<1> QED
  BY <1>2, <1>3, <1>4, <1>5, <1>6, <1>7, <1>8, <1>9, <1>10, <1>11, <1>12 DEF Next, Digest, Follow

LEMMA LimitNext ==
  ASSUME TypeOK, [Next]_vars
  PROVE  limit' \in Limits \cup {ItemsLimit}
<1>1. limit \in Limits \cup {ItemsLimit}
  BY DEF TypeOK
<1>2. \A p : Show(p) => limit' \in Limits \cup {ItemsLimit}
  BY <1>1 DEF Show
<1>3. \A r \in AllRows : DeleteRow(r) \/ InsertRow(r) => UNCHANGED client
  BY DEF DeleteRow, InsertRow
<1>4. \A q \in requests : Answer(q) \/ Store(q) => UNCHANGED client \/ \E p : Show(p)
  BY DEF Answer, Store
<1>5. \A o \in DOMAIN cache : Expire(o) => UNCHANGED client
  BY DEF Expire
<1> QED
  BY <1>1, <1>2, <1>3, <1>4, <1>5
  DEF Next, Digest, Other, Begin, Follow, LoadFromCache, Lead, Join, vars, client

LEMMA TNext == TInv /\ [Next]_vars => TInv'
<1> SUFFICES ASSUME TInv, [Next]_vars
             PROVE  TInv'
  OBVIOUS
<1>1. TypeOK /\ MineAtLink /\ IsFiniteSet(rows)
  BY DEF TInv
<1>2. /\ before' \subseteq AllRows /\ page' \subseteq AllRows /\ shown' \subseteq AllRows
      /\ link' \in Offsets \cup {NoOffset} /\ ends' \subseteq Heights
      /\ page' = {} => shown' = {} /\ link' = NoOffset
      /\ walk' = "idle" => page' = {}
  <2>1. /\ before \subseteq AllRows /\ page \subseteq AllRows /\ shown \subseteq AllRows
        /\ link \in Offsets \cup {NoOffset} /\ rows \subseteq AllRows /\ ends \subseteq Heights
        /\ page = {} => shown = {} /\ link = NoOffset
        /\ walk = "idle" => page = {}
    BY <1>1 DEF TypeOK, MineAtLink
  <2>2. \A p : <<link, p>> \in Served => p \subseteq AllRows /\ IsFiniteSet(p)
    <3>1. \A q \in requests : q.page \subseteq AllRows
      BY <1>1 DEF TypeOK
    <3>2. \A o \in DOMAIN cache : cache[o] # NoPage => cache[o] \subseteq AllRows
      BY <1>1 DEF TypeOK
    <3> QED
      BY <3>1, <3>2 DEF TInv, Served
  <2>3. \A p : <<link, p>> \in Served /\ p # {} =>
          NextOffset(p) \in Offsets \cup {NoOffset} /\ Last(p).height \in Heights
    BY <2>2, NextLink, LastRow, RowFields
  <2> QED
    BY <1>1, <2>1, <2>2, <2>3, ClientNext
<1>3. listing' \in Listings /\ reverse' \in BOOLEAN
  BY <1>1, SameListing DEF TypeOK
<1>4. TypeOK'
  BY <1>1, <1>2, <1>3, RowTypes, ApiTypes, MineNext, LimitNext DEF TypeOK, RequestType
<1>5. MineAtLink'
  BY <1>2, ApiTypes, MineNext DEF MineAtLink
<1>6. \A s \in Served' : IsFiniteSet(s[2])
  BY PageTypes
<1> QED
  BY <1>4, <1>5, <1>6, RowTypes DEF TInv

\* Every variable stays in its type, and this client waits for one request at a time.
THEOREM TypeCorrect == Spec => []TypeOK
<1>1. TInv => TypeOK
  BY DEF TInv
<1> QED
  BY <1>1, TInit, TNext, PTL DEF Spec

-----------------------------------------------------------------------------
(* No row is shown twice. *)

\* What a client may get was served, or a query made it: pages of rows.
LEMMA ServedTypes ==
  ASSUME TInv, NEW s \in Served
  PROVE  s[2] \subseteq AllRows /\ IsFiniteSet(s[2]) /\ s[1] \in Offsets \cup {NoOffset}
<1>1. \A q \in requests : q.page \subseteq AllRows /\ q.offset \in Offsets \cup {NoOffset}
  BY DEF TInv, TypeOK
<1>2. \A o \in DOMAIN cache : cache[o] # NoPage => cache[o] \subseteq AllRows
  <2>1. \A o \in DOMAIN cache : cache[o] \in {NoPage} \cup ((SUBSET AllRows) \ {{}})
    BY DEF TInv, TypeOK
  <2> QED
    BY <2>1
<1>3. DOMAIN cache = Offsets \cup {NoOffset}
  BY DEF TInv, TypeOK
<1> QED
  BY <1>1, <1>2, <1>3 DEF TInv, Served

LEMMA OnceInit == Init => OInv
<1> SUFFICES ASSUME Init
             PROVE  OInv
  OBVIOUS
<1>1. Served = {}
  BY DEF Init, Served
<1> QED
  BY <1>1, TInit DEF Init, OInv, ShownOnce, Shown

\* A page that the client gets has rows after its link only, and the new link is the last.
LEMMA ShownNext ==
  ASSUME OInv, [Next]_vars, Listings \cap Circular = {},
         NEW p, <<link, p>> \in Served, p # {},
         page' = p, link' = NextOffset(p), shown' = shown \cup page
  PROVE  /\ link' \in Offsets /\ link' = Position(Last(p)) /\ Last(p) \in p
         /\ \A r \in Shown \cup p : ~Ahead(link', Position(r))
         /\ page' \cap shown' = {}
<1>1. TInv /\ p \subseteq AllRows /\ IsFiniteSet(p)
  BY ServedTypes DEF OInv
<1>2. listing # "account-documents"
  BY <1>1 DEF TInv, TypeOK, Circular
<1>3. /\ link' \in Offsets /\ link' = Position(Last(p)) /\ Last(p) \in p
      /\ \A r \in p : ~Ahead(link', Position(r))
  BY <1>1, <1>2, NextLink
<1>4. CASE page = {}
  <2>1. shown = {}
    BY <1>1, <1>4 DEF TInv, MineAtLink
  <2> QED
    BY <1>3, <1>4, <2>1 DEF Shown
<1>5. CASE page # {}
  <2>1. link \in Offsets /\ link # NoOffset /\ \A r \in Shown : ~Ahead(link, Position(r))
    BY <1>5, NoneAssumption DEF OInv
  <2>2. \A r \in p : Ahead(link, Position(r))
    BY <2>1 DEF OInv, PageAfter
  <2>3. p \cap Shown = {}
    BY <2>1, <2>2
  <2>4. Ahead(link, link')
    BY <1>3, <2>2
  <2>5. ASSUME NEW r \in Shown
        PROVE  ~Ahead(link', Position(r))
    <3>1. r \in AllRows
      BY <1>1 DEF TInv, TypeOK, Shown
    <3> QED
      BY <1>3, <2>1, <2>4, <3>1, AheadOrder, Positions
  <2> QED
    BY <1>3, <2>3, <2>5 DEF Shown
<1> QED
  BY <1>4, <1>5

LEMMA OnceNext ==
  ASSUME Listings \cap Circular = {}
  PROVE  OInv /\ [Next]_vars => OInv'
<1> SUFFICES ASSUME OInv, [Next]_vars
             PROVE  OInv'
  OBVIOUS
<1>1. TInv /\ TInv' /\ TypeOK /\ MineAtLink /\ IsFiniteSet(rows)
  BY TNext DEF OInv, TInv
<1>2. \A s \in Served' : PageAfter(s[1], s[2])'
  <2>1. listing # "documents-by-height"
    BY <1>1 DEF TypeOK, Circular
  <2>2. \A s \in Served' : PageAfter(s[1], s[2])
    BY <1>1, <2>1, ServedNext, QueriedPage DEF OInv
  <2> QED
    BY <2>2, SameOrder
<1>3. /\ page' # {} => link' \in Offsets /\ \A r \in Shown' : ~Ahead(link', Position(r))
      /\ page' \cap shown' = {}
  <2>1. CASE UNCHANGED <<link, page, shown>>
    BY <2>1 DEF OInv, ShownOnce, Shown
  <2>2. ASSUME NEW p, <<link, p>> \in Served, p # {},
               page' = p, link' = NextOffset(p), shown' = shown \cup page
        PROVE  /\ page' # {} => link' \in Offsets /\ \A r \in Shown' : ~Ahead(link', Position(r))
               /\ page' \cap shown' = {}
    <3>1. Shown' = Shown \cup p
      BY <2>2 DEF Shown
    <3> QED
      BY <2>2, <3>1, ShownNext
  <2> QED
    BY <1>1, <2>1, <2>2, ClientNext
<1>4. page' # {} => link' \in Offsets /\ \A r \in Shown' : ~Ahead(link, Position(r))'
  <2>1. Shown' \subseteq AllRows
    BY <1>1 DEF TInv, TypeOK, Shown
  <2>2. \A r : Ahead(link, Position(r))' <=> Ahead(link', Position(r))
    BY SameListing DEF Ahead, Less, Position
  <2> QED
    BY <1>3, <2>2
<1> QED
  BY <1>1, <1>2, <1>3, <1>4 DEF OInv, ShownOnce

\* A walk shows no row twice, in whatever order rows appear, however many there are in a
\* block, and whichever pages of other requests come out of the cache; the two listings of
\* documents whose link leads back to the page it stands on are left out.
THEOREM RowsShownOnce ==
  ASSUME Listings \cap Circular = {}
  PROVE  Spec => []ShownOnce
<1>1. OInv => ShownOnce
  BY DEF OInv
<1> QED
  BY <1>1, OnceInit, OnceNext, PTL DEF Spec

-----------------------------------------------------------------------------
(* No row is skipped but a document, or one that appeared late, at the edge of a page. *)

\* The position of a row of operations or manifests is that of no other.
LEMMA SamePlace ==
  ASSUME TypeOK, listing \notin DocumentListings,
         NEW r, r.height \in DOMAIN Blocks[listing], r \in RowsOf(r.height),
         NEW s, s.height \in DOMAIN Blocks[listing], s \in RowsOf(s.height),
         Position(r) = Position(s)
  PROVE  r = s
<1>1. listing \in Listings /\ listing \in ByIndex \cup {"manifests"}
  BY PagesAssumption DEF TypeOK, AllListings, ByIndex, DocumentListings
<1>2. r \in AllRows /\ s \in AllRows
  BY <1>1, RowsOfBlock
<1>3. r.height = s.height
  BY <1>2 DEF Position
<1>4. r.id = s.id
  <2>1. CASE listing \in ByIndex
    BY <2>1 DEF Position
  <2>2. CASE listing = "manifests"
    BY <2>2 DEF RowsOf
  <2> QED
    BY <1>1, <2>1, <2>2
<1> QED
  BY <1>2, <1>3, <1>4, RowFields

\* A row that is known is no row to come, and is in no later block.
LEMMA KnownRow ==
  ASSUME TypeOK, NEW r, Known(r)
  PROVE  /\ r \in AllRows /\ Position(r)[1] = r.height
         /\ \A s \in Coming : r.height <= s.height
         /\ Passed(Position(r))
         /\ listing \notin DocumentListings => r \in rows
<1>1. listing \in Listings
  BY DEF TypeOK
<1>2. r \in AllRows
  BY <1>1, RowsOfBlock DEF Known
<1> QED
  BY <1>2, Positions DEF Known, Passed

\* A row that is inserted was one to come, of the next block; it is late if one after it
\* is there.
LEMMA InsertedRow ==
  ASSUME TypeOK, NEW r, InsertRow(r), height + 1 \in DOMAIN Blocks[listing]
  PROVE  /\ r \in Coming /\ r \in RowsOf(r.height) /\ r.height = height + 1
         /\ r.height \in DOMAIN Blocks[listing]
         /\ height' \in {height, height + 1}
         /\ rows' = rows \cup {r} /\ late \subseteq late'
         /\ (\E s \in rows : Less(Position(r), Position(s))) => r \in late'
         /\ Coming' \subseteq Coming
         /\ \A s \in Coming' : r.height <= s.height
<1>1. /\ r \in RowsOf(height + 1) \ rows /\ rows' = rows \cup {r} /\ listing' = listing
      /\ height' \in {height, height + 1}
      /\ late \subseteq late'
      /\ (\E s \in rows : Less(Position(r), Position(s))) => r \in late'
  BY DEF InsertRow
<1>2. listing \in Listings
  BY DEF TypeOK
<1>3. height \in Nat
  BY BlockHeights DEF TypeOK
<1>4. r \in AllRows /\ r.height = height + 1
  BY <1>1, <1>2, RowsOfBlock
<1>5. r \in Coming
  BY <1>1, <1>3, <1>4 DEF Coming
<1>6. ASSUME NEW s \in Coming'
      PROVE  s \in Coming /\ r.height <= s.height
  <2>1. /\ s \in AllRows /\ s.height \in DOMAIN Blocks[listing] /\ s.height > height'
        /\ s \in RowsOf(s.height) \ rows'
    BY <1>1 DEF Coming, RowsOf
  <2>2. s.height \in Nat
    BY <2>1, RowFields
  <2> QED
    BY <1>1, <1>3, <1>4, <2>1, <2>2 DEF Coming
<1> QED
  BY <1>1, <1>4, <1>5, <1>6

\* Deleting a row of a block that is there leaves no more rows to come.
LEMMA DeletedRow ==
  ASSUME TypeOK, NEW r, DeleteRow(r)
  PROVE  /\ rows' = rows \ {r} /\ height' = height /\ late' = late /\ Coming' \subseteq Coming
         /\ listing \in DocumentListings
<1>1. /\ r \in OldRows /\ rows' = rows \ {r} /\ height' = height /\ late' = late
      /\ listing' = listing
  BY DEF DeleteRow
<1>2. r.height <= height /\ r \in AllRows /\ listing \in DocumentListings
  BY <1>1 DEF OldRows, TypeOK
<1>3. height \in Nat /\ r.height \in Nat
  BY <1>2, BlockHeights, RowFields DEF TypeOK
<1>4. ASSUME NEW s \in Coming'
      PROVE  s \in Coming
  <2>1. /\ s \in AllRows /\ s.height \in DOMAIN Blocks[listing] /\ s.height > height
        /\ s \in RowsOf(s.height) \ (rows \ {r})
    BY <1>1 DEF Coming, RowsOf
  <2>2. s # r
    BY <1>2, <1>3, <2>1
  <2> QED
    BY <2>1, <2>2 DEF Coming
<1> QED
  BY <1>1, <1>2, <1>4

\* No step makes rows come that would not have, or of a block that was passed.
LEMMA ComingNext ==
  ASSUME TypeOK, [Next]_vars
  PROVE  /\ Coming' \subseteq Coming
         /\ listing \notin DocumentListings => rows \subseteq rows'
         /\ \A o : Passed(o) => Passed(o)'
         /\ \A r : Known(r) => Known(r)'
         /\ \A r : MayMiss(r) => MayMiss(r)'
         /\ \A r \in rows' \ rows :
              /\ r \in Coming /\ Known(r)' /\ r.height = height + 1
              /\ (\E s \in rows : Less(Position(r), Position(s))) => r \in late'
         /\ height' \in {height, height + 1}
         /\ rows # rows' => UNCHANGED <<api, client>>
<1>1. /\ Coming' \subseteq Coming /\ height' \in {height, height + 1} /\ late \subseteq late'
      /\ listing \notin DocumentListings => rows \subseteq rows'
  <2>1. CASE UNCHANGED <<rows, height, late>>
    BY <2>1, SameListing DEF Coming, RowsOf
  <2> QED
    BY <2>1, RowsNext, InsertedRow, DeletedRow
<1>2. \A p, q : Less(p, q)' = Less(p, q)
  BY DEF Less
<1>3. \A o : Passed(o) => Passed(o)'
  BY <1>1, SameListing DEF Passed, Position, DocumentListings
<1>4. \A r : Known(r) => Known(r)'
  BY <1>1, SameListing DEF Known, RowsOf, DocumentListings
<1>5. \A r : MayMiss(r) => MayMiss(r)'
  BY <1>1, SameListing DEF MayMiss, DocumentListings
<1>6. ASSUME NEW r \in rows' \ rows
      PROVE  /\ r \in Coming /\ Known(r)' /\ r.height = height + 1
             /\ (\E s \in rows : Less(Position(r), Position(s))) => r \in late'
  <2>1. PICK s \in AllRows : DeleteRow(s) \/ InsertRow(s)
    BY <1>6, RowsNext
  <2>2. height + 1 \in DOMAIN Blocks[listing]
    BY <1>6, RowsNext
  <2>3. InsertRow(s) /\ r = s
    BY <1>6, <2>1, DeletedRow DEF InsertRow
  <2>4. /\ r \in Coming /\ r \in RowsOf(r.height) /\ r.height = height + 1
        /\ r.height \in DOMAIN Blocks[listing]
        /\ \A t \in Coming' : r.height <= t.height
        /\ (\E t \in rows : Less(Position(r), Position(t))) => r \in late'
    BY <2>2, <2>3, InsertedRow
  <2> QED
    BY <1>6, <2>4, SameListing DEF Known, RowsOf, DocumentListings
<1> QED
  BY <1>1, <1>3, <1>4, <1>5, <1>6, RowsNext

LEMMA SkippedInit == Init => NInv
<1> SUFFICES ASSUME Init
             PROVE  NInv
  OBVIOUS
<1>1. Served = {}
  BY DEF Init, Served
<1> QED
  BY <1>1, OnceInit DEF Init, ShownUpToLink, NInv

\* A row that comes into the range of a page is of the block at an edge of the page, and of
\* operations or manifests one that is late.
LEMMA InsertedInPage ==
  ASSUME TypeOK, [Next]_vars,
         NEW o \in Offsets \cup {NoOffset}, NEW p \in SUBSET AllRows,
         o # NoOffset => Passed(o), \A s \in p : Known(s),
         \E t \in p : \A s \in p : ~Ahead(Position(t), Position(s)),
         NEW r \in rows' \ rows,
         o # NoOffset => Ahead(o, Position(r)),
         reverse /\ o = NoOffset => \E s \in p : ~Ahead(Position(r), Position(s)),
         \E s \in p : Ahead(Position(r), Position(s))
  PROVE  /\ MayMiss(r)'
         /\ \/ o # NoOffset /\ o[1] = r.height
            \/ \E t \in p : t.height = r.height /\ \A s \in p : ~Ahead(Position(t), Position(s))
            \/ reverse /\ o = NoOffset /\ \A s \in p : s.height <= r.height
<1>1. /\ r \in Coming /\ r \in AllRows /\ r \notin rows
      /\ (\E s \in rows : Less(Position(r), Position(s))) => r \in late'
      /\ Position(r)[1] = r.height /\ r.height \in Nat /\ Position(r) \in Offsets
  BY ComingNext, Positions, RowFields DEF Coming
<1>2. ASSUME NEW s \in p
      PROVE  /\ s \in AllRows /\ s.height <= r.height /\ s.height \in Nat
             /\ Position(s) \in Offsets /\ Position(s)[1] = s.height
             /\ listing \notin DocumentListings => s \in rows
  BY <1>1, KnownRow, RowFields, Positions
<1>3. ASSUME NEW s \in p, Less(Position(r), Position(s))
      PROVE  s.height = r.height /\ MayMiss(r)'
  <2>1. s.height = r.height
    BY <1>1, <1>2, <1>3 DEF Less
  <2>2. MayMiss(r)'
    BY <1>1, <1>2, <1>3, SameListing DEF MayMiss, DocumentListings
  <2> QED
    BY <2>1, <2>2
<1>4. CASE ~reverse
  <2>1. PICK s \in p : Less(Position(r), Position(s))
    BY <1>4 DEF Ahead
  <2>2. PICK t \in p : \A u \in p : ~Ahead(Position(t), Position(u))
    OBVIOUS
  <2>3. ~Less(Position(t), Position(s))
    BY <1>4, <2>2 DEF Ahead
  <2>4. t.height = r.height
    BY <1>1, <1>2, <1>3, <2>1, <2>3 DEF Less
  <2> QED
    BY <1>3, <2>1, <2>2, <2>4
<1>5. CASE reverse /\ o # NoOffset
  <2>1. Less(Position(r), o)
    BY <1>5 DEF Ahead
  <2>2. o[1] \in Nat /\ o[1] <= r.height
    BY <1>1, <1>5, Positions DEF Passed
  <2>3. o[1] = r.height
    BY <1>1, <2>1, <2>2 DEF Less
  <2>4. MayMiss(r)'
    BY <1>1, <1>5, <2>1, SameListing DEF Passed, MayMiss, DocumentListings
  <2> QED
    BY <1>5, <2>3, <2>4
<1>6. CASE reverse /\ o = NoOffset
  <2>1. PICK s \in p : ~Less(Position(s), Position(r))
    BY <1>6 DEF Ahead
  <2>2. Less(Position(r), Position(s)) \/ Position(r) = Position(s)
    BY <1>1, <1>2, <2>1, AheadOrder DEF Ahead
  <2>3. s.height = r.height
    BY <1>1, <1>2, <1>3, <2>2
  <2>4. MayMiss(r)'
    <3>1. CASE listing \in DocumentListings
      BY <3>1, SameListing DEF MayMiss, DocumentListings
    <3>2. CASE listing \notin DocumentListings
      <4>1. s \in rows
        BY <1>2, <3>2
      <4>2. Position(r) # Position(s)
        <5> SUFFICES ASSUME Position(r) = Position(s)
                     PROVE  r = s
          BY <1>1, <4>1
        <5>1. Known(s)
          OBVIOUS
        <5>2. r.height \in DOMAIN Blocks[listing] /\ r \in RowsOf(r.height)
          BY <1>1 DEF Coming
        <5> QED
          BY <1>1, <1>2, <3>2, <5>1, <5>2, SamePlace DEF Known
      <4> QED
        BY <1>3, <2>2, <4>2
    <3> QED
      BY <3>1, <3>2
  <2> QED
    BY <1>2, <1>6, <2>3, <2>4
<1> QED
  BY <1>4, <1>5, <1>6

\* A page stays whole.
LEMMA WholeNext ==
  ASSUME TypeOK, [Next]_vars,
         NEW o \in Offsets \cup {NoOffset}, NEW p \in SUBSET AllRows, IsFiniteSet(p),
         o # NoOffset => Passed(o), \A s \in p : Known(s), Whole(o, p)
  PROVE  Whole(o, p)'
<1>1. \A r \in Listed' : r \in Listed \/ r \in rows' \ rows
  BY SameListing DEF Listed, ByHeight
<1>2. ASSUME NEW r \in Listed',
             o # NoOffset => Ahead(o, Position(r)),
             reverse /\ o = NoOffset => \E s \in p : ~Ahead(Position(r), Position(s)),
             \E s \in p : Ahead(Position(r), Position(s))
      PROVE  \/ r \in p
             \/ /\ MayMiss(r)'
                /\ \/ o # NoOffset /\ o[1] = r.height
                   \/ \E t \in p : t.height = r.height /\ \A s \in p : ~Ahead(Position(t), Position(s))
                   \/ reverse /\ o = NoOffset /\ \A s \in p : s.height <= r.height
  <2>1. CASE r \in Listed
    BY <1>2, <2>1, ComingNext DEF Whole
  <2>2. CASE r \in rows' \ rows
    <3>1. \E t \in p : \A s \in p : ~Ahead(Position(t), Position(s))
      BY <1>2, LastRow
    <3> QED
      BY <1>2, <2>2, <3>1, InsertedInPage
  <2> QED
    BY <1>1, <2>1, <2>2
<1>3. reverse' = reverse /\ \A q, u : Ahead(q, u)' = Ahead(q, u)
  BY SameOrder, SameListing
<1>4. \A q : Position(q)' = Position(q)
  BY SameOrder
<1> QED
  BY <1>2, <1>3, <1>4, SameListing DEF Whole, Ahead, Less, Position

\* The rows that were there when the walk began, and still are.
LEMMA BeforeNext ==
  ASSUME NInv, Listings \cap Circular = {}, [Next]_vars
  PROVE  /\ before' \cap Coming' = {}
         /\ before' = before => Listed' \cap before' \subseteq Listed \cap before
<1>1. TypeOK /\ MineAtLink
  BY DEF NInv, OInv, TInv
<1>2. Coming' \subseteq Coming /\ \A r \in rows' \ rows : r \in Coming
  BY <1>1, ComingNext
<1>3. before' \subseteq before \cup rows
  BY <1>1, ClientNext
<1>4. before \cap Coming = {} /\ rows \cap Coming = {}
  <2>1. rows \cap Coming = {}
    BY DEF Coming
  <2> QED
    BY <2>1 DEF NInv
<1>5. before' = before => Listed' \cap before' \subseteq Listed \cap before
  BY <1>2, <1>4, SameListing DEF Listed, ByHeight
<1> QED
  BY <1>2, <1>3, <1>4, <1>5

\* What is served is of known rows after an offset that is passed, and whole.
LEMMA PagesNext ==
  ASSUME NInv, Listings \cap Circular = {}, [Next]_vars
  PROVE  \A s \in Served' : /\ \A r \in s[2] : Known(r)'
                            /\ s[1] # NoOffset => Passed(s[1])'
                            /\ Whole(s[1], s[2])'
<1>1. TInv /\ TypeOK /\ MineAtLink /\ IsFiniteSet(rows)
  BY DEF NInv, OInv, TInv
<1>2. ASSUME NEW s \in Served', s \notin Served
      PROVE  rows' = rows
  <2>1. ~UNCHANGED api
    BY <1>2 DEF Served, api
  <2> QED
    BY <1>1, <2>1, ComingNext
<1>3. ASSUME NEW s \in Served'
      PROVE  /\ s[2] \in SUBSET AllRows /\ IsFiniteSet(s[2]) /\ s[1] \in Offsets \cup {NoOffset}
             /\ \A r \in s[2] : Known(r)
             /\ s[1] # NoOffset => Passed(s[1])
             /\ Whole(s[1], s[2])
  <2>1. CASE s \in Served
    BY <1>1, <2>1, ServedTypes DEF NInv
  <2>2. CASE s \notin Served
    <3>1. PICK l \in Nat : s[2] \in Pages(s[1], l)
            /\ \/ s[1] = NoOffset \/ s[1] = link
               \/ \E r \in Listed : s[1] = Position(r)
      BY <1>1, <2>2, ServedNext
    <3>2. s[2] \subseteq Listed /\ s[2] \subseteq AllRows /\ Whole(s[1], s[2])
      BY <1>1, <3>1, QueriedPage
    <3>3. Listed \subseteq rows /\ rows \subseteq AllRows
      BY <1>1 DEF Listed, TypeOK
    <3>4. \A r \in s[2] : Known(r)
      BY <3>2, <3>3 DEF NInv
    <3>5. s[1] \in Offsets \cup {NoOffset}
      BY <1>1, <3>1, <3>3, Positions DEF TypeOK
    <3>6. ASSUME s[1] # NoOffset
          PROVE  Passed(s[1])
      <4>1. CASE \E r \in Listed : s[1] = Position(r)
        BY <1>1, <3>3, <4>1, KnownRow DEF NInv
      <4>2. CASE s[1] = link
        <5>1. page # {}
          BY <1>1, <3>6, <4>2 DEF MineAtLink
        <5> QED
          BY <1>1, <4>2, <5>1, KnownRow DEF NInv
      <4> QED
        BY <3>1, <3>6, <4>1, <4>2
    <3>7. IsFiniteSet(s[2])
      BY <1>1, <3>1, QueriedPage
    <3> QED
      BY <3>2, <3>4, <3>5, <3>6, <3>7
  <2> QED
    BY <2>1, <2>2
<1> QED
  BY <1>1, <1>3, ComingNext, WholeNext

\* An empty page leaves nothing after its offset of what the walk began with.
LEMMA EmptyNext ==
  ASSUME NInv, Listings \cap Circular = {}, [Next]_vars
  PROVE  \A q \in requests' : q.page = {} =>
           \A r \in Listed' \cap before' : q.offset # NoOffset /\ ~Ahead(q.offset, Position(r))'
<1> SUFFICES ASSUME NEW q \in requests', q.page = {}, NEW r \in Listed' \cap before'
             PROVE  q.offset # NoOffset /\ ~Ahead(q.offset, Position(r))
  BY SameListing DEF Ahead, Less, Position
<1>1. TInv /\ TypeOK /\ MineAtLink /\ IsFiniteSet(rows)
  BY DEF NInv, OInv, TInv
<1> DEFINE s == <<q.offset, q.page>>
<1>2. s \in Served'
  BY DEF Served
<1>3. CASE s \in Served
  <2>1. PICK u \in requests : u.page = {} /\ u.offset = q.offset
    <3>1. ASSUME NEW o \in DOMAIN cache, cache[o] # NoPage
          PROVE  s # <<o, cache[o]>>
      BY <1>1, <3>1, CachedPage
    <3> QED
      BY <1>3, <3>1 DEF Served
  <2>2. u.open
    BY <1>1, <2>1 DEF MineAtLink
  <2>3. before' = before \/ before' = {}
    BY <1>1, <2>2, ClientNext
  <2>4. before' = before /\ r \in Listed \cap before
    BY <2>3, BeforeNext
  <2> QED
    BY <2>1, <2>4 DEF NInv
<1>4. CASE s \notin Served
  <2>1. \E l \in Nat : s[2] \in Pages(s[1], l)
    BY <1>1, <1>2, <1>4, ServedNext
  <2>2. \A t \in Listed : q.offset # NoOffset /\ ~Ahead(q.offset, Position(t))
    BY <1>1, <2>1, QueriedPage DEF TypeOK, Circular
  <2>3. ~UNCHANGED api
    BY <1>2, <1>4 DEF Served, api
  <2>4. Listed' = Listed
    BY <1>1, <2>3, ComingNext, SameListing DEF Listed, ByHeight
  <2> QED
    BY <2>2, <2>4
<1> QED
  BY <1>3, <1>4

\* Getting a page shows all of the rows up to its link that may not be missed.
LEMMA LinkNext ==
  ASSUME NInv, Listings \cap Circular = {}, [Next]_vars,
         NEW p, <<link, p>> \in Served, p # {},
         page' = p, link' = NextOffset(p), shown' = shown \cup page,
         ends' = ends \cup {Last(p).height},
         NEW r \in Listed \cap before, ~Ahead(link', Position(r)),
         reverse => \E s \in Shown \cup p : ~Ahead(Position(r), Position(s))
  PROVE  \/ r \in Shown \cup p
         \/ /\ MayMiss(r)
            /\ \/ r.height \in ends'
               \/ reverse /\ \A s \in Shown \cup p : s.height <= r.height
<1>1. TInv /\ TypeOK /\ MineAtLink /\ OInv
  BY DEF NInv, OInv, TInv
<1>2. /\ p \subseteq AllRows /\ Shown \subseteq AllRows /\ r \in AllRows /\ Known(r)
      /\ \A s \in p : Known(s)
  <2>1. p \subseteq AllRows
    BY <1>1, ServedTypes
  <2>2. Shown \subseteq AllRows /\ r \in AllRows /\ r \in rows
    BY <1>1 DEF Shown, TypeOK, Listed
  <2> QED
    BY <2>1, <2>2 DEF NInv
<1>3. /\ link' \in Offsets /\ link' = Position(Last(p)) /\ Last(p) \in p
      /\ \A s \in p : ~Ahead(Position(Last(p)), Position(s))
      /\ Last(p).height \in ends'
  BY <1>1, ShownNext
<1>4. CASE page # {} /\ ~Ahead(link, Position(r))
  <2>1. link \in Offsets /\ link # NoOffset
    BY <1>1, <1>4, NoneAssumption DEF OInv
  <2>2. PICK t \in page : link = Position(t)
    BY <1>4 DEF NInv
  <2>3. \A s \in p : Ahead(link, Position(s))
    BY <1>1, <2>1 DEF OInv, PageAfter
  <2>4. t \in Shown /\ t \in AllRows
    BY <1>2, <2>2 DEF Shown
  <2>5. reverse => \E s \in Shown : ~Ahead(Position(r), Position(s))
    <3> SUFFICES ASSUME NEW s \in p, ~Ahead(Position(r), Position(s))
                 PROVE  ~Ahead(Position(r), Position(t))
      BY <2>4
    <3> QED
      BY <1>2, <2>2, <2>3, <2>4, Positions, AheadOrder
  <2>6. r \in Shown \/ (MayMiss(r) /\ AtEdge(r))
    BY <1>4, <2>5 DEF NInv, ShownUpToLink
  <2>7. ASSUME reverse, \A s \in Shown : s.height <= r.height, NEW s \in p
        PROVE  s.height <= r.height
    <3>1. Less(Position(s), Position(t))
      BY <2>2, <2>3, <2>7 DEF Ahead
    <3>2. /\ Position(s)[1] = s.height /\ Position(t)[1] = t.height
          /\ s.height \in Nat /\ t.height \in Nat /\ r.height \in Nat
      BY <1>2, <2>4, <2>7, Positions, RowFields
    <3> QED
      BY <2>4, <2>7, <3>1, <3>2 DEF Less
  <2> QED
    BY <2>6, <2>7 DEF AtEdge
<1>5. CASE page = {} \/ Ahead(link, Position(r))
  <2>1. link # NoOffset => Ahead(link, Position(r))
    BY <1>1, <1>5 DEF MineAtLink
  <2>2. reverse /\ link = NoOffset => \E s \in p : ~Ahead(Position(r), Position(s))
    <3>1. link = NoOffset => page = {} /\ shown = {}
      BY <1>1, NoneAssumption DEF OInv, MineAtLink
    <3> QED
      BY <3>1 DEF Shown
  <2>3. CASE Ahead(Position(r), link')
    <3>1. \E s \in p : Ahead(Position(r), Position(s))
      BY <1>3, <2>3
    <3>2. Whole(link, p)
      BY DEF NInv
    <3>3. \/ r \in p
          \/ /\ MayMiss(r)
             /\ \/ link # NoOffset /\ link[1] = r.height
                \/ \E t \in p : t.height = r.height /\ \A s \in p : ~Ahead(Position(t), Position(s))
                \/ reverse /\ link = NoOffset /\ \A s \in p : s.height <= r.height
      BY <2>1, <2>2, <3>1, <3>2 DEF Whole
    <3>4. ASSUME link # NoOffset, link[1] = r.height
          PROVE  r.height \in ends'
      BY <1>1, <3>4 DEF MineAtLink, NInv
    <3>5. ASSUME NEW t \in p, t.height = r.height, \A s \in p : ~Ahead(Position(t), Position(s))
          PROVE  r.height \in ends'
      <4>1. Position(t) = Position(Last(p))
        BY <1>2, <1>3, <3>5, Positions, AheadOrder
      <4>2. Last(p).height = r.height
        BY <1>2, <1>3, <3>5, <4>1, Positions
      <4> QED
        BY <1>3, <4>2
    <3>6. link = NoOffset => Shown = {}
      BY <1>1, NoneAssumption DEF OInv, MineAtLink, Shown
    <3> QED
      BY <3>3, <3>4, <3>5, <3>6
  <2>4. CASE ~Ahead(Position(r), link')
    <3>1. Position(r) = Position(Last(p))
      BY <1>2, <1>3, <2>4, Positions, AheadOrder
    <3>2. CASE listing \in DocumentListings
      <4>1. Last(p).height = r.height
        BY <1>2, <1>3, <3>1, Positions
      <4> QED
        BY <1>3, <3>2, <4>1 DEF MayMiss
    <3>3. CASE listing \notin DocumentListings
      <4>1. r = Last(p)
        BY <1>1, <1>2, <1>3, <3>1, <3>3, SamePlace DEF Known
      <4> QED
        BY <1>3, <4>1
    <3> QED
      BY <3>2, <3>3
  <2> QED
    BY <2>3, <2>4
<1> QED
  BY <1>4, <1>5

LEMMA SkippedNext ==
  ASSUME Listings \cap Circular = {}
  PROVE  NInv /\ [Next]_vars => NInv'
<1> SUFFICES ASSUME NInv, [Next]_vars
             PROVE  NInv'
  OBVIOUS
<1>1. OInv /\ OInv' /\ TInv /\ TypeOK /\ MineAtLink
  BY OnceNext DEF NInv, OInv, TInv
<1>2. \A r \in rows' : Known(r)' /\ r.height <= height' + 1
  <2>1. height \in Nat /\ rows \subseteq AllRows
    BY <1>1, BlockHeights DEF TypeOK
  <2>2. \A r \in rows : r.height \in Nat
    BY <2>1, RowFields
  <2>3. height' \in Nat /\ height' >= height
    BY <1>1, <2>1, ComingNext
  <2>4. \A r \in rows' : Known(r)'
    BY <1>1, ComingNext DEF NInv
  <2>5. \A r \in rows : r.height <= height + 1
    BY DEF NInv
  <2>6. \A r \in rows' \ rows : r.height = height + 1
    BY <1>1, ComingNext
  <2> QED
    BY <2>1, <2>2, <2>3, <2>4, <2>5, <2>6
<1>3. \A s \in Served' : /\ \A r \in s[2] : Known(r)'
                         /\ s[1] # NoOffset => Passed(s[1])'
                         /\ Whole(s[1], s[2])'
  BY PagesNext
<1>4. /\ \A r \in page' : Known(r)'
      /\ page' # {} => link'[1] \in ends' /\ \E r \in page' : link' = Position(r)
  <2>1. \A p : <<link, p>> \in Served => \A r \in p : Known(r)
    BY DEF NInv
  <2>2. \A r \in page : Known(r)
    BY DEF NInv
  <2>3. \A r \in page' : Known(r)
    BY <1>1, <2>1, <2>2, ClientNext
  <2>4. page' # {} => link'[1] \in ends' /\ \E r \in page' : link' = Position(r)
    <3>1. CASE UNCHANGED <<link, page, shown, ends>>
      BY <3>1 DEF NInv
    <3>2. ASSUME NEW p, <<link, p>> \in Served, p # {},
                 page' = p, link' = NextOffset(p), shown' = shown \cup page,
                 ends' = ends \cup {Last(p).height}
          PROVE  link'[1] \in ends' /\ \E r \in page' : link' = Position(r)
      <4>1. link' = Position(Last(p)) /\ Last(p) \in p
        BY <1>1, <3>2, ShownNext
      <4>2. p \subseteq AllRows
        BY <1>1, <3>2, ServedTypes
      <4>3. link'[1] = Last(p).height
        BY <4>1, <4>2, Positions
      <4> QED
        BY <3>2, <4>1, <4>3
    <3> QED
      BY <1>1, <3>1, <3>2, ClientNext
  <2> QED
    BY <1>1, <2>3, <2>4, ComingNext
<1>5. before' \cap Coming' = {}
  BY BeforeNext
<1>6. \A q \in requests' : q.page = {} =>
        \A r \in Listed' \cap before' : q.offset # NoOffset /\ ~Ahead(q.offset, Position(r))'
  BY EmptyNext
<1>7. walk' = "done" =>
        \A r \in Listed' \cap before' : page' # {} /\ ~Ahead(link', Position(r))
  <2> SUFFICES ASSUME walk' = "done", NEW r \in Listed' \cap before'
               PROVE  page' # {} /\ ~Ahead(link', Position(r))
    OBVIOUS
  <2>1. CASE /\ UNCHANGED <<before, link, page, shown, ends>>
             /\ (walk' = "done" => walk = "done")
    BY <2>1, BeforeNext DEF NInv
  <2>2. CASE /\ \E q \in requests : q.open /\ q.offset = link /\ q.page = {}
             /\ UNCHANGED <<before, link, page, shown, ends>>
    <3>1. r \in Listed \cap before
      BY <2>2, BeforeNext
    <3>2. link # NoOffset /\ ~Ahead(link, Position(r))
      BY <2>2, <3>1 DEF NInv
    <3> QED
      BY <1>1, <2>2, <3>2 DEF MineAtLink
  <2> QED
    BY <1>1, <2>1, <2>2, ClientNext
<1>8. \A r \in Listed' \cap before' :
        /\ page' # {} /\ ~Ahead(link', Position(r))
        /\ reverse => \E s \in Shown' : ~Ahead(Position(r), Position(s))
        => r \in Shown' \/ (MayMiss(r)' /\ AtEdge(r)')
  <2> SUFFICES ASSUME NEW r \in Listed' \cap before',
                      page' # {}, ~Ahead(link', Position(r)),
                      reverse => \E s \in Shown' : ~Ahead(Position(r), Position(s))
               PROVE  r \in Shown' \/ (MayMiss(r)' /\ AtEdge(r)')
    OBVIOUS
  <2>1. CASE UNCHANGED <<before, link, page, shown, ends>>
    <3>1. r \in Listed \cap before /\ Shown' = Shown /\ AtEdge(r)' = AtEdge(r)
      BY <2>1, BeforeNext, SameListing DEF Shown, AtEdge
    <3>2. r \in Shown \/ (MayMiss(r) /\ AtEdge(r))
      BY <2>1, <3>1 DEF NInv, ShownUpToLink
    <3> QED
      BY <1>1, <3>1, <3>2, ComingNext
  <2>2. ASSUME NEW p, <<link, p>> \in Served, p # {}, before' = before,
               page' = p, link' = NextOffset(p), shown' = shown \cup page,
               ends' = ends \cup {Last(p).height}
        PROVE  r \in Shown' \/ (MayMiss(r)' /\ AtEdge(r)')
    <3>1. r \in Listed \cap before /\ Shown' = Shown \cup p
      BY <2>2, BeforeNext DEF Shown
    <3>2. \/ r \in Shown'
          \/ /\ MayMiss(r)
             /\ r.height \in ends' \/ (reverse /\ \A s \in Shown' : s.height <= r.height)
      BY <2>2, <3>1, LinkNext
    <3> QED
      BY <1>1, <3>2, ComingNext, SameListing DEF AtEdge
  <2>3. walk = "idle" /\ page' = page => page' = {}
    BY <1>1 DEF MineAtLink
  <2> QED
    BY <1>1, <2>1, <2>2, <2>3, ClientNext
<1>9. /\ page' # {} => (link[1] \in ends /\ \E r \in page : link = Position(r))'
      /\ walk' = "done" =>
           \A r \in Listed' \cap before' : page' # {} /\ ~Ahead(link, Position(r))'
      /\ ShownUpToLink'
  BY <1>4, <1>7, <1>8, SameListing DEF ShownUpToLink, Ahead, Less, Position
<1> QED
  BY <1>1, <1>2, <1>3, <1>4, <1>5, <1>6, <1>9 DEF NInv

\* A walk skips no row that was there when it began and still is, whatever pages of other
\* requests came out of the cache, and whatever was digested meanwhile, but one that may be
\* missed, at the edge of a page: a document, or a row of operations that appeared before
\* one of its block that was already there.
THEOREM NoRowSkipped ==
  ASSUME Listings \cap Circular = {}
  PROVE  Spec => []NothingSkipped
<1>1. NInv => NothingSkipped
  <2> SUFFICES ASSUME NInv, NEW r \in Listed \cap before, Past(r)
               PROVE  r \in Shown \/ (MayMiss(r) /\ AtEdge(r))
    BY DEF NothingSkipped
  <2>1. /\ OInv /\ MineAtLink /\ Shown \subseteq AllRows /\ r \in AllRows
        /\ page = {} => Shown = {}
    BY DEF NInv, OInv, TInv, TypeOK, MineAtLink, Listed, Shown
  <2>2. page # {}
    BY <2>1 DEF NInv, Past
  <2>3. ~Ahead(link, Position(r))
    <3>1. CASE walk = "done"
      BY <3>1 DEF NInv
    <3>2. ASSUME NEW s \in Shown, Ahead(Position(r), Position(s))
          PROVE  ~Ahead(link, Position(r))
      <4>1. link \in Offsets /\ ~Ahead(link, Position(s))
        BY <2>1, <2>2 DEF OInv
      <4> QED
        BY <2>1, <3>2, <4>1, Positions, AheadOrder
    <3> QED
      BY <3>1, <3>2 DEF Past
  <2> QED
    BY <2>2, <2>3 DEF NInv, ShownUpToLink, Past
<1> QED
  BY <1>1, SkippedInit, SkippedNext, PTL DEF Spec

=============================================================================
