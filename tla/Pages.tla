-------------------------------- MODULE Pages --------------------------------
(***************************************************************************)
(* The paged listings of the digest API (digest/handler_operation.go,      *)
(* handler_account.go, handler_document.go, handler_manifest.go and the    *)
(* queries of database.go): a client asks for the first page and follows   *)
(* the "next" links, while the digester adds blocks and other clients ask  *)
(* for the same pages.                                                     *)
(*                                                                         *)
(* Requests of one key share one query (singleflight) when they overlap,   *)
(* and a page that was not shared is put into the response cache.  The key *)
(* holds the path, the offset and the direction, and not the limit.  An    *)
(* entry may be gone at any time: it expires, or the cache evicts it.      *)
(*                                                                         *)
(* The listing and its direction do not change during a behavior, and      *)
(* `rows' are those that its filter on address or document type lets       *)
(* through.  MongoDB, the cache and singleflight are external.             *)
(*                                                                         *)
(* The definitions under "Faults" are not the code's: each is a variant of *)
(* the definition that follows it with one plausible bug in it.            *)
(***************************************************************************)
EXTENDS Integers, Sequences, FiniteSets

CONSTANTS
  Listings,    \* the listings to walk
  Ids,         \* indexes of operations in a block, numbers of documents
  Blocks,      \* the rows of each block: for each listing, a set of Ids for each height
  At,          \* the height of the listings of one height
  Limits,      \* values of the query "limit" (0: no limit)
  ItemsLimit,  \* the limit of a request without one
  MaxLimit,    \* maxLimit of the database
  NoOffset, NoPage,
  MaxRequests  \* bound: requests of other clients being answered at a time

AllListings ==
  {"operations", "operations-by-height", "manifests", "documents", "account-documents",
   "documents-by-height"}

Heights == UNION {DOMAIN Blocks[l] : l \in Listings}

ASSUME PagesAssumption ==
  /\ Listings \subseteq AllListings
  /\ Ids \subseteq Nat
  /\ Blocks \in [Listings -> Seq((SUBSET Ids) \ {{}})] /\ At \in Heights
  /\ Limits \subseteq Nat /\ ItemsLimit \in Nat \ {0} /\ MaxLimit \in Nat \ {0}
  /\ MaxRequests \in Nat

VARIABLES
  listing, reverse,  \* what is walked, and in which direction
  rows,              \* the rows of the listing in the database
  height,            \* the last block whose rows are there
  late,              \* history: the rows that appeared before one that was already there
  cache,             \* the cached page of each offset
  requests,          \* queries being answered, of this client and of others
  walk,              \* "idle", "walking", "waiting" for a page, or "done"
  before,            \* the rows when the walk began and no query was older
  link,              \* offset of the next request
  limit,             \* limit of the next request
  page,              \* the last page that was answered
  shown,             \* the rows of the pages before
  ends               \* history: the heights that the pages of the walk ended at

digest == <<rows, height, late>>
api == <<cache, requests>>
client == <<walk, before, link, limit, page, shown, ends>>
vars == <<listing, reverse, digest, api, client>>

-----------------------------------------------------------------------------
DocumentListings == {"documents", "account-documents", "documents-by-height"}
ByIndex == {"operations", "operations-by-height"}
ByHeight == {"operations-by-height", "documents-by-height"}

\* The rows a block adds; there is one manifest for each block.
RowsOf(h) ==
  IF listing = "manifests" THEN {[id |-> 0, height |-> h]}
  ELSE {[id |-> i, height |-> h] : i \in Blocks[listing][h]}

AllRows == {[id |-> i, height |-> h] : i \in Ids \cup {0}, h \in Heights}

\* What a listing is sorted by: operations by height and index, documents and
\* manifests by height alone.
Position(r) == <<r.height, IF listing \in ByIndex THEN r.id ELSE 0>>
Offsets == Heights \X (Ids \cup {0})

ASSUME NoneAssumption == \A o \in Offsets : o # NoOffset

Less(p, q) == p[1] < q[1] \/ (p[1] = q[1] /\ p[2] < q[2])
Ahead(p, q) == IF reverse THEN Less(q, p) ELSE Less(p, q)

\* The rows of the listing.
Listed == IF listing \in ByHeight THEN {r \in rows : r.height = At} ELSE rows

\* Faults: the row at the offset is shown again.
FilterFromOffset(offset) ==
  IF offset = NoOffset \/ listing = "documents-by-height" THEN Listed
  ELSE {r \in Listed : ~Ahead(Position(r), offset)}

\* The rows after the offset; the query for the documents of one height is given
\* none.
Filter(offset) ==
  IF offset = NoOffset \/ listing = "documents-by-height" THEN Listed
  ELSE {r \in Listed : Ahead(offset, Position(r))}

\* The number of rows of a page.
Size(l, n) ==
  LET most == IF l = 0 THEN n ELSE IF l > MaxLimit THEN MaxLimit ELSE l
  IN IF n < most THEN n ELSE most

\* A page: the first rows after the offset; rows at one position are in any order.
Pages(offset, l) ==
  LET after == Filter(offset) IN
  {p \in SUBSET after :
     /\ Cardinality(p) = Size(l, Cardinality(after))
     /\ \A r \in p, s \in after \ p : ~Ahead(Position(s), Position(r))}

Last(p) == CHOOSE r \in p : \A s \in p : ~Ahead(Position(r), Position(s))

\* Faults: the link names the index as the height, or only the height.
NextOfRow(p) == <<Last(p).id, 0>>
NextOfHeight(p) == <<Last(p).height, 0>>

\* The offset of the link "next"; the one of an account's documents is written
\* under the name "documentid", which no handler reads.
NextOffset(p) == IF listing = "account-documents" THEN NoOffset ELSE Position(Last(p))

-----------------------------------------------------------------------------
Init ==
  /\ listing \in Listings /\ reverse \in BOOLEAN
  /\ rows = {} /\ height = 0 /\ late = {}
  /\ cache = [o \in Offsets \cup {NoOffset} |-> NoPage]
  /\ requests = {}
  /\ walk = "idle" /\ before = {}
  /\ link = NoOffset /\ limit = ItemsLimit
  /\ page = {} /\ shown = {} /\ ends = {}

\* The digester deletes the rows of the documents it is about to insert.
OldRows ==
  IF listing \in DocumentListings
  THEN {r \in rows : r.height <= height /\ r.id \in Blocks[listing][height + 1]}
  ELSE {}

DeleteRow(r) ==
  /\ r \in OldRows
  /\ rows' = rows \ {r}
  /\ UNCHANGED <<listing, reverse, height, late, api, client>>

\* The rows of a block are inserted by an unordered bulk write, and can be read
\* as they appear, in any order.
InsertRow(r) ==
  /\ OldRows = {}
  /\ r \in RowsOf(height + 1) \ rows
  /\ rows' = rows \cup {r}
  /\ height' = IF RowsOf(height + 1) \subseteq rows' THEN height + 1 ELSE height
  /\ late' = IF \E s \in rows : Less(Position(r), Position(s)) THEN late \cup {r} ELSE late
  /\ UNCHANGED <<listing, reverse, api, client>>

Digest ==
  /\ height + 1 \in DOMAIN Blocks[listing]
  /\ \E r \in AllRows : DeleteRow(r) \/ InsertRow(r)

-----------------------------------------------------------------------------
\* The first request of a key queries the database.  It belongs to a group, to
\* which requests of the same key are added until it is answered.
Open(offset) == {q \in requests : q.open /\ q.offset = offset}

Query(offset, l, mine) ==
  /\ Open(offset) = {}
  /\ \E p \in Pages(offset, l) :
       requests' = requests \cup
         {[offset |-> offset, page |-> p, mine |-> mine, shared |-> FALSE, open |-> TRUE]}

\* Another client asks for a page, with any limit.  One that joins a group has
\* no action: a page that is not cached then is one that expires at once.
Other ==
  /\ Cardinality({q \in requests : ~q.mine}) < MaxRequests
  /\ \E offset \in DOMAIN cache, l \in Limits \cup {ItemsLimit} :
       /\ offset # NoOffset => \E r \in Listed : Position(r) = offset
       /\ Query(offset, l, FALSE)
  /\ UNCHANGED <<listing, reverse, digest, cache, client>>

\* The client gets a page, and follows its link; the link has no limit.
Show(p) ==
  IF p = {} THEN walk' = "done" /\ UNCHANGED <<before, link, limit, page, shown, ends>>
  ELSE /\ walk' = "walking"
       /\ shown' = shown \cup page
       /\ page' = p
       /\ ends' = ends \cup {Last(p).height}
       /\ link' = NextOffset(p)
       /\ limit' = ItemsLimit
       /\ UNCHANGED before

\* The group is answered.  A page that is empty (not found) or was shared is not
\* cached.
Answer(q) ==
  /\ q \in requests /\ q.open
  /\ requests' = (requests \ {q}) \cup
       (IF q.shared \/ q.page = {} THEN {} ELSE {[q EXCEPT !.open = FALSE, !.mine = FALSE]})
  /\ IF q.mine THEN Show(q.page) ELSE UNCHANGED client
  /\ UNCHANGED <<listing, reverse, digest, cache>>

\* CacheResponseWriter.Cache, after the response.
Store(q) ==
  /\ q \in requests /\ ~q.open
  /\ requests' = requests \ {q}
  /\ cache' = [cache EXCEPT ![q.offset] = q.page]
  /\ UNCHANGED <<listing, reverse, digest, client>>

Expire(offset) ==
  /\ cache[offset] # NoPage
  /\ cache' = [cache EXCEPT ![offset] = NoPage]
  /\ UNCHANGED <<listing, reverse, digest, requests, client>>

-----------------------------------------------------------------------------
Begin ==
  /\ walk = "idle"
  /\ walk' = "walking"
  /\ before' = IF \E q \in requests : q.open THEN {} ELSE rows
  /\ limit' \in Limits
  /\ UNCHANGED <<listing, reverse, digest, api, link, page, shown, ends>>

LoadFromCache ==
  /\ walk = "walking"
  /\ cache[link] # NoPage
  /\ Show(cache[link])
  /\ UNCHANGED <<listing, reverse, digest, api>>

Lead ==
  /\ walk = "walking"
  /\ Query(link, limit, TRUE)
  /\ walk' = "waiting"
  /\ UNCHANGED <<listing, reverse, digest, cache, before, link, limit, page, shown, ends>>

Join ==
  /\ walk = "walking"
  /\ \E q \in Open(link) :
       requests' = (requests \ {q}) \cup {[q EXCEPT !.shared = TRUE, !.mine = TRUE]}
  /\ walk' = "waiting"
  /\ UNCHANGED <<listing, reverse, digest, cache, before, link, limit, page, shown, ends>>

Follow == LoadFromCache \/ Lead \/ Join

Next ==
  \/ Digest
  \/ Other
  \/ \E q \in requests : Answer(q) \/ Store(q)
  \/ \E offset \in DOMAIN cache : Expire(offset)
  \/ Begin
  \/ Follow

\* The server answers this client's requests, and a client that began goes on.
Fairness ==
  /\ WF_vars(Follow)
  /\ WF_vars(\E q \in requests : q.mine /\ Answer(q))

Spec == Init /\ [][Next]_vars /\ Fairness

-----------------------------------------------------------------------------
(***************************************************************************)
(* Properties.                                                             *)
(***************************************************************************)

\* Every variable stays in its type.
TypeOK ==
  /\ listing \in Listings /\ reverse \in BOOLEAN
  /\ rows \subseteq AllRows /\ late \subseteq AllRows /\ height \in Heights \cup {0}
  /\ cache \in [Offsets \cup {NoOffset} -> {NoPage} \cup ((SUBSET AllRows) \ {{}})]
  /\ requests \subseteq [offset : Offsets \cup {NoOffset}, page : SUBSET AllRows,
                         mine : BOOLEAN, shared : BOOLEAN, open : BOOLEAN]
  /\ walk \in {"idle", "walking", "waiting", "done"}
  /\ walk = "waiting" <=> \E q \in requests : q.mine
  /\ link \in Offsets \cup {NoOffset} /\ limit \in Limits \cup {ItemsLimit}
  /\ before \subseteq AllRows /\ page \subseteq AllRows /\ shown \subseteq AllRows
  /\ ends \subseteq Heights

\* A walk skips no row but at the edge of a page.  A row that was there when the
\* walk began and still is has been shown when the walk is past it, whatever pages
\* of other requests, with other limits, came out of the cache, and whatever was
\* digested meanwhile.  One that may be missed is a document, as the offset names
\* its height alone (handler_document.go, nextOffsetOfDocuments), or a row that
\* appeared before one of its block that was already there (block_session.go,
\* writeModels); and it is missed only where a page ended in its block, or the
\* first page of a walk back began there.  A walk back starts at the newest row
\* of its first page.
Shown == shown \cup page
Past(r) ==
  /\ reverse => \E s \in Shown : ~Ahead(Position(r), Position(s))
  /\ walk = "done" \/ \E s \in Shown : Ahead(Position(r), Position(s))
MayMiss(r) == listing \in DocumentListings \/ r \in late
AtEdge(r) == r.height \in ends \/ (reverse /\ \A s \in Shown : s.height <= r.height)
NothingSkipped ==
  \A r \in Listed \cap before : Past(r) => r \in Shown \/ (MayMiss(r) /\ AtEdge(r))

\* A walk shows no row twice.
ShownOnce == page \cap shown = {}

\* A client that follows the links comes to the end of them; not one of the
\* listings in Circular, whose links lead back to the page they stand on.
Circular == {"account-documents", "documents-by-height"}
WalkEnds == walk # "idle" ~> walk = "done"

(***************************************************************************)
(* The inductive invariants behind the safety properties (PagesProofs).    *)
(***************************************************************************)
\* What TypeOK needs to be kept: this client waits for one request, of its link.
MineAtLink ==
  /\ \A q, r \in requests : q.mine /\ r.mine => q = r
  /\ \A q \in requests : q.mine => q.open /\ q.offset = link
  /\ \A q \in requests : q.page = {} => q.open
  /\ walk = "idle" => page = {}
  /\ page = {} => shown = {} /\ link = NoOffset

\* The pages that a client may get, each with its offset.
Served ==
  {<<q.offset, q.page>> : q \in requests} \cup
  {<<o, cache[o]>> : o \in {u \in DOMAIN cache : cache[u] # NoPage}}

TInv ==
  /\ TypeOK /\ MineAtLink
  /\ IsFiniteSet(rows) /\ \A s \in Served : IsFiniteSet(s[2])

\* A page is after its offset, and what was shown is not after the link.
PageAfter(o, p) == o # NoOffset => \A r \in p : Ahead(o, Position(r))
OInv ==
  /\ TInv
  /\ \A s \in Served : PageAfter(s[1], s[2])
  /\ page # {} => link \in Offsets /\ \A r \in Shown : ~Ahead(link, Position(r))
  /\ ShownOnce

\* The rows that are still to be inserted; none is in a block before one that was, or
\* before that of an offset.
Coming ==
  {r \in AllRows :
     /\ r.height \in DOMAIN Blocks[listing] /\ r.height > height
     /\ r \in RowsOf(r.height) \ rows}
Passed(o) ==
  /\ \A r \in Coming : o[1] <= r.height
  /\ listing \notin DocumentListings => \E s \in rows : Position(s) = o
Known(r) ==
  /\ r.height \in DOMAIN Blocks[listing] /\ r \in RowsOf(r.height)
  /\ \A s \in Coming : r.height <= s.height
  /\ listing \notin DocumentListings => r \in rows

\* A page leaves out none of the rows between its offset and its last row that may not be
\* missed; the first page of a walk back may have been made before rows that are newer
\* than all of its own.
Whole(o, p) ==
  \A r \in Listed :
    /\ o # NoOffset => Ahead(o, Position(r))
    /\ reverse /\ o = NoOffset => \E s \in p : ~Ahead(Position(r), Position(s))
    /\ \E s \in p : Ahead(Position(r), Position(s))
    => \/ r \in p
       \/ /\ MayMiss(r)
          /\ \/ o # NoOffset /\ o[1] = r.height
             \/ \E t \in p : t.height = r.height /\ \A s \in p : ~Ahead(Position(t), Position(s))
             \/ reverse /\ o = NoOffset /\ \A s \in p : s.height <= r.height

\* The rows up to the link were shown, and a walk that came to its end left none after it.
ShownUpToLink ==
  \A r \in Listed \cap before :
    /\ page # {} /\ ~Ahead(link, Position(r))
    /\ reverse => \E s \in Shown : ~Ahead(Position(r), Position(s))
    => r \in Shown \/ (MayMiss(r) /\ AtEdge(r))

NInv ==
  /\ OInv
  /\ \A r \in rows : Known(r) /\ r.height <= height + 1
  /\ \A s \in Served : /\ \A r \in s[2] : Known(r)
                       /\ s[1] # NoOffset => Passed(s[1])
                       /\ Whole(s[1], s[2])
  /\ \A r \in page : Known(r)
  /\ page # {} => link[1] \in ends /\ \E r \in page : link = Position(r)
  /\ before \cap Coming = {}
  /\ \A q \in requests : q.page = {} =>
       \A r \in Listed \cap before : q.offset # NoOffset /\ ~Ahead(q.offset, Position(r))
  /\ walk = "done" =>
       \A r \in Listed \cap before : page # {} /\ ~Ahead(link, Position(r))
  /\ ShownUpToLink
=============================================================================
