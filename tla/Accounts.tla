------------------------------ MODULE Accounts ------------------------------
(***************************************************************************)
(* The accounts of a public key in the digest API (handleAccounts of       *)
(* digest/handler_account.go; topHeightByPublickey, AccountsByPublickey    *)
(* and filterAccountByPublickey of digest/database.go): a client asks for  *)
(* the accounts that one key belongs to and follows the "next" links,      *)
(* while the digester adds account rows and other clients ask as well.     *)
(*                                                                         *)
(* A page takes three kinds of queries, with account rows arriving between *)
(* them: the newest height of the accounts that ever had the key, the      *)
(* addresses of these accounts up to that height, and, chunk by chunk, the *)
(* newest row of each address, which tells whether it still has the key.   *)
(* The code takes Chunk = 50; here chunks are smaller and their ends are   *)
(* computed in the same way.                                               *)
(*                                                                         *)
(* An account row is its address, its height and whether it has the key.   *)
(* Addresses are numbers, in the order of their strings.  MongoDB, the     *)
(* cache and singleflight are external, as in Pages.                       *)
(*                                                                         *)
(* The definitions under "Faults" are not the code's: each is a variant of *)
(* the definition that follows it with one plausible bug in it.            *)
(***************************************************************************)
EXTENDS Integers, FiniteSets, SequencesExt

CONSTANTS
  Addresses,   \* numbers, in the order of the addresses
  InitialRows, \* the account rows that there may be at the start, of blocks 0 and 1
  Chunk,       \* addresses of a chunk
  ItemsLimit,  \* the limit of a page
  NoOffset,
  Changing,    \* the addresses whose account rows are digested
  MaxUpdates,  \* bound: account rows that are digested
  MaxRequests  \* bound: requests of other clients, with the pages to be cached, at a time

Heights == 0 .. MaxUpdates + 1
NilHeight == -1

Row == [address : Addresses, height : Heights, holds : BOOLEAN]

ASSUME AccountsAssumption ==
  /\ Addresses \subseteq Nat \ {0}
  /\ \A rs \in InitialRows :
       rs \subseteq Row /\ IsFiniteSet(rs) /\ \A r \in rs : r.height <= 1
  /\ Chunk \in Nat \ {0} /\ ItemsLimit \in Nat \ {0}
  /\ Changing \subseteq Addresses
  /\ MaxUpdates \in Nat /\ MaxRequests \in Nat

VARIABLES
  rows,      \* the account rows in the database
  requests,  \* requests being answered, of this client and of others
  answered,  \* pages that were answered and are still to be cached
  cache,     \* cached pages, one of an offset at most
  walk,      \* "idle", "walking", "waiting" for a page, "done" or "failed"
  link,      \* offset of the next request
  shown,     \* the items of all pages
  kept       \* history: addresses with the key ever since the oldest page shown was begun

client == <<walk, link, shown, kept>>
api == <<requests, answered, cache>>
vars == <<rows, api, client>>

-----------------------------------------------------------------------------
\* The database.
RowsOf(S) == {r \in rows : r.address \in S}
Newest(a) == CHOOSE r \in RowsOf({a}) : \A s \in RowsOf({a}) : s.height <= r.height
HasKey(a) == RowsOf({a}) # {} /\ Newest(a).holds
Holders == {a \in Addresses : HasKey(a)}

\* Faults: accounts that once had the key have it.
HeldEver(S) == {r.address : r \in {s \in RowsOf(S) : s.holds}}

\* pubExists of the newest row of each address.
Holding(S) == S \cap Holders

\* buildAccountsFilterByPublickey, up to a height.
AddressesOf(h) == {r.address : r \in {s \in rows : s.holds /\ s.height <= h}}

\* A set of addresses in their order.
Sorted(S) ==
  [i \in 1 .. Cardinality(S) |-> CHOOSE a \in S : Cardinality({b \in S : b < a}) = i - 1]

\* The last block that has account rows, from block 1 on.
LastBlock == Max({1} \cup {r.height : r \in rows})

-----------------------------------------------------------------------------
\* Faults: a chunk ends one address early; the last chunk has the length of the others.
ChunkEndShort(i, n) == LET l == i + Chunk - 1 IN IF l > n THEN n ELSE l
ChunkEndFull(i, n) == (i + 1) + Chunk

\* Chunk i of n addresses: those from start to end, as in a Go slice; the end is
\* computed with (i + 1) + 50.
ChunkStart(i) == i * Chunk
ChunkEnd(i, n) == LET l == (i + 1) + Chunk IN IF l > n THEN n ELSE l
Chunks(n) == (n + Chunk - 1) \div Chunk
SliceFails(i, n) == ChunkStart(i) > ChunkEnd(i, n) \/ ChunkEnd(i, n) > n

\* The number of addresses that are in a chunk.
Covered(n) ==
  Cardinality(UNION {ChunkStart(i) + 1 .. ChunkEnd(i, n) : i \in 0 .. Chunks(n) - 1})

\* Faults: the address of the offset is listed again.
AfterWith(as, address) == {a \in as : address \in as /\ a >= address}

\* The addresses after the one of the offset; none, if that is not there.
After(as, address) == {a \in as : address \in as /\ a > address}

-----------------------------------------------------------------------------
Offsets == Heights \X Addresses

ASSUME NoneAssumption == \A o \in Offsets : o # NoOffset

Init ==
  /\ rows \in InitialRows
  /\ requests = {} /\ answered = {} /\ cache = {}
  /\ walk = "idle" /\ link = NoOffset /\ shown = <<>> /\ kept = Addresses

Lost(a, holds, S) == IF holds THEN S ELSE S \ {a}

\* The digester inserts an account row, of the block whose rows are arriving or of
\* the next one.  What is left of `kept' are the accounts that did not lose the key.
InsertRow(a, holds) ==
  /\ Cardinality({r \in rows : r.height > 1}) < MaxUpdates
  /\ \E h \in {LastBlock, LastBlock + 1} \ {1} :
       /\ \A r \in RowsOf({a}) : r.height < h
       /\ rows' = rows \cup {[address |-> a, height |-> h, holds |-> holds]}
  /\ answered' = {[p EXCEPT !.kept = Lost(a, holds, @)] : p \in answered}
  /\ cache' = {[p EXCEPT !.kept = Lost(a, holds, @)] : p \in cache}
  /\ requests' =
       {[q EXCEPT !.kept = Lost(a, holds, @), !.held = IF holds THEN @ \cup {a} ELSE @] :
          q \in requests}
  /\ kept' = Lost(a, holds, kept)
  /\ UNCHANGED <<walk, link, shown>>

-----------------------------------------------------------------------------
\* Requests of one offset are a group while the first is being answered.
Open(offset) == {q \in requests : q.offset = offset}

Request(offset, mine) ==
  [offset |-> offset, mine |-> mine, joined |-> FALSE, shared |-> FALSE,
   stage |-> "top", top |-> NilHeight, rest |-> <<>>, chunk |-> 0, items |-> <<>>,
   kept |-> Holders, held |-> Holders]

Replace(q, r) == requests' = (requests \ {q}) \cup {r}

\* topHeightByPublickey: the newest height among the accounts that ever had the key,
\* in chunks of the order the database answers in.
QueryTop(q) ==
  /\ q.stage = "top"
  /\ LET ever == AddressesOf(LastBlock)
         n == Cardinality(ever)
         most == Covered(n)
     IN IF ever = {} THEN Replace(q, [q EXCEPT !.stage = "end"])
        ELSE IF \E i \in 0 .. Chunks(n) - 1 : SliceFails(i, n)
        THEN Replace(q, [q EXCEPT !.stage = "failed"])
        ELSE \E covered \in SUBSET ever :
               /\ Cardinality(covered) = most
               /\ \E r \in RowsOf(covered) :
                    /\ \A s \in RowsOf(covered) : s.height <= r.height
                    /\ Replace(q, [q EXCEPT !.stage = "addresses", !.top = r.height])
  /\ UNCHANGED <<rows, answered, cache, client>>

\* addressesByPublickey, and what is after the offset.
QueryAddresses(q) ==
  /\ q.stage = "addresses"
  /\ LET as == AddressesOf(q.top)
         filtered == IF q.offset = NoOffset THEN as ELSE After(as, q.offset[2])
     IN Replace(q, [q EXCEPT !.rest = Sorted(filtered),
                             !.stage = IF filtered = {} THEN "end" ELSE "chunks"])
  /\ UNCHANGED <<rows, answered, cache, client>>

\* filterAccountByPublickey: the accounts of the next chunk that still have the key,
\* until there are as many as the limit; the limit counts for each chunk.
QueryChunk(q) ==
  /\ q.stage = "chunks"
  /\ LET n == Len(q.rest)
         limited == SubSeq(q.rest, ChunkStart(q.chunk) + 1, ChunkEnd(q.chunk, n))
         found == Sorted(Holding(ToSet(limited)))
         called == SubSeq(found, 1, IF Len(found) < ItemsLimit THEN Len(found) ELSE ItemsLimit)
         done == Len(called) = ItemsLimit \/ q.chunk + 1 = Chunks(n)
     IN IF SliceFails(q.chunk, n) THEN Replace(q, [q EXCEPT !.stage = "failed"])
        ELSE Replace(q, [q EXCEPT !.items = @ \o called,
                                  !.chunk = @ + 1,
                                  !.stage = IF done THEN "end" ELSE "chunks"])
  /\ UNCHANGED <<rows, answered, cache, client>>

-----------------------------------------------------------------------------
\* Faults: the height of the link is the one the request came with.
NextLinkOfRequest(q) ==
  <<IF q.offset = NoOffset THEN NilHeight ELSE q.offset[1], Last(q.items)>>

\* buildAccountsHal: the offset of the next page, of a page that is not empty.
NextLink(q) ==
  <<IF q.offset = NoOffset \/ q.offset[1] > q.top THEN q.top ELSE q.offset[1], Last(q.items)>>

PageOf(q) ==
  [offset |-> q.offset, items |-> q.items, kept |-> q.kept,
   next |-> IF q.items = <<>> THEN NoOffset ELSE NextLink(q)]

\* The client gets a page, and follows its link; there is none on an empty page.
Show(page) ==
  /\ walk' = IF page.items = <<>> THEN "done" ELSE "walking"
  /\ shown' = shown \o page.items
  /\ link' = page.next
  /\ kept' = kept \cap page.kept

\* The response.  Only the request that ran the queries has the last address: one
\* that joined it fails when it builds the link of a page that is not empty.
Fails(q) == q.stage = "failed" \/ (q.joined /\ q.items # <<>>)
Answer(q) ==
  /\ q.stage \in {"end", "failed"}
  /\ requests' = requests \ {q}
  /\ answered' = IF q.stage = "failed" \/ q.shared THEN answered ELSE answered \cup {PageOf(q)}
  /\ CASE ~q.mine           -> UNCHANGED client
       [] q.mine /\ Fails(q) -> walk' = "failed" /\ UNCHANGED <<link, shown, kept>>
       [] OTHER             -> Show(PageOf(q))
  /\ UNCHANGED <<rows, cache>>

\* CacheResponseWriter.Cache, after the response, of a request that was not shared.
Store(page) ==
  /\ page \in answered
  /\ answered' = answered \ {page}
  /\ cache' = {p \in cache : p.offset # page.offset} \cup {page}
  /\ UNCHANGED <<rows, requests, client>>

Expire(page) ==
  /\ page \in cache
  /\ cache' = cache \ {page}
  /\ UNCHANGED <<rows, requests, answered, client>>

\* Another client asks for the first page or follows a link.
Links == {NoOffset, link} \cup {page.next : page \in cache}

Other(offset) ==
  /\ Cardinality({q \in requests : ~q.mine}) + Cardinality(answered) < MaxRequests
  /\ Open(offset) = {}
  /\ requests' = requests \cup {Request(offset, FALSE)}
  /\ UNCHANGED <<rows, answered, cache, client>>

-----------------------------------------------------------------------------
Begin ==
  /\ walk = "idle"
  /\ walk' = "walking"
  /\ UNCHANGED <<rows, api, link, shown, kept>>

LoadFromCache ==
  /\ walk = "walking"
  /\ \E page \in cache : page.offset = link /\ Show(page)
  /\ UNCHANGED <<rows, api>>

Lead ==
  /\ walk = "walking"
  /\ Open(link) = {}
  /\ requests' = requests \cup {Request(link, TRUE)}
  /\ walk' = "waiting"
  /\ UNCHANGED <<rows, answered, cache, link, shown, kept>>

Join ==
  /\ walk = "walking"
  /\ \E q \in Open(link) :
       Replace(q, [q EXCEPT !.mine = TRUE, !.joined = TRUE, !.shared = TRUE])
  /\ walk' = "waiting"
  /\ UNCHANGED <<rows, answered, cache, link, shown, kept>>

Follow == LoadFromCache \/ Lead \/ Join
Serve(q) == QueryTop(q) \/ QueryAddresses(q) \/ QueryChunk(q) \/ Answer(q)

Next ==
  \/ \E a \in Changing, holds \in BOOLEAN : InsertRow(a, holds)
  \/ \E offset \in Links : Other(offset)
  \/ \E q \in requests : Serve(q)
  \/ \E page \in answered : Store(page)
  \/ \E page \in cache : Expire(page)
  \/ Begin
  \/ Follow

Spec == Init /\ [][Next]_vars

-----------------------------------------------------------------------------
(***************************************************************************)
(* Properties.                                                             *)
(***************************************************************************)

RequestType ==
  [offset : Offsets \cup {NoOffset}, mine : BOOLEAN, joined : BOOLEAN, shared : BOOLEAN,
   stage : {"top", "addresses", "chunks", "end", "failed"}, top : Heights \cup {NilHeight},
   rest : Seq(Addresses), chunk : Nat, items : Seq(Addresses),
   kept : SUBSET Addresses, held : SUBSET Addresses]
PageType ==
  [offset : Offsets \cup {NoOffset}, items : Seq(Addresses), kept : SUBSET Addresses,
   next : Offsets \cup {NoOffset}]

\* Every variable stays in its type.
TypeOK ==
  /\ rows \subseteq Row /\ requests \subseteq RequestType
  /\ answered \subseteq PageType /\ cache \subseteq PageType
  /\ \A p, r \in cache : p.offset = r.offset => p = r
  /\ walk \in {"idle", "walking", "waiting", "done", "failed"}
  /\ walk = "waiting" <=> \E q \in requests : q.mine
  /\ link \in Offsets \cup {NoOffset}
  /\ shown \in Seq(Addresses) /\ kept \subseteq Addresses

EverHeld == AddressesOf(LastBlock)

\* A walk that came to its end has listed every account that had the key all the
\* while, whatever account rows arrived between the queries of a page and between
\* pages, and whatever pages came out of the cache, as long as there are no more
\* accounts than the chunks cover: with 53 or more, chunks leave some out.
HoldersListed ==
  walk = "done" /\ Cardinality(EverHeld) <= Chunk + 2 => kept \subseteq ToSet(shown)

\* A page lists only accounts that had the key while it was made.
ListedHeld == \A q \in requests : ToSet(q.items) \subseteq q.held

\* A walk lists no account twice, and in the order of the addresses, as long as one
\* chunk covers them: with 51 or more, chunks overlap.
ListedOnce ==
  Cardinality(EverHeld) <= Chunk => \A i, j \in DOMAIN shown : i < j => shown[i] < shown[j]

\* A request that shares no other's queries does not fail, as long as there are no
\* more than two chunks of accounts.
FailsAlone == \A q \in requests : q.stage = "failed" => Cardinality(EverHeld) > 2 * Chunk

(***************************************************************************)
(* The inductive invariant behind the safety properties (AccountsProofs).  *)
(***************************************************************************)
\* Where a request is: it has a height when it has items, or will have, and a next chunk.
Forward(q) ==
  /\ q.stage \in {"addresses", "chunks"} \/ q.items # <<>> => q.top \in Heights
  /\ q.stage \in {"top", "addresses"} => q.items = <<>> /\ q.chunk = 0
  /\ q.stage = "chunks" => q.chunk < Chunks(Len(q.rest)) /\ (q.chunk = 0 => q.items = <<>>)

\* It knows who had the key since it began, and takes no more addresses than ever had it.
Fits(q) ==
  /\ q.kept \subseteq Holders /\ Holders \subseteq q.held
  /\ ToSet(q.items) \subseteq q.held \cap EverHeld
  /\ ToSet(q.rest) \subseteq EverHeld /\ Len(q.rest) <= Cardinality(EverHeld)
  /\ q.stage = "failed" => Cardinality(EverHeld) > 2 * Chunk

\* Addresses are in their order, after the offset.
Rising(s) == \A i, j \in DOMAIN s : i < j => s[i] < s[j]
Reached(offset, a) == offset = NoOffset \/ a > offset[2]
InOrder(offset, s) == Rising(s) /\ \A a \in ToSet(s) : Reached(offset, a)
EverHeldAt(offset) == offset # NoOffset => offset[2] \in EverHeld
Ordered(q) ==
  /\ InOrder(q.offset, q.rest) /\ EverHeldAt(q.offset)
  /\ Cardinality(EverHeld) <= Chunk =>
       InOrder(q.offset, q.items) /\ (q.stage = "chunks" => q.chunk = 0)

\* A page leaves out no account that kept the key, between its offset and its last item.
Covers(p) ==
  \A a \in p.kept :
    Reached(p.offset, a) /\ (p.items # <<>> => a <= Last(p.items)) => a \in ToSet(p.items)

\* The accounts that keep the key are among the addresses, and those of the chunks that were
\* taken among the items.
Taken(q) == IF q.chunk = 0 THEN 0 ELSE ChunkEnd(q.chunk - 1, Len(q.rest))
Covering(q) ==
  Cardinality(EverHeld) <= Chunk + 2 =>
    /\ q.stage = "addresses" =>
         /\ q.kept \subseteq AddressesOf(q.top)
         /\ q.offset # NoOffset => q.offset[2] \in AddressesOf(q.top)
    /\ q.stage = "chunks" =>
         /\ \A a \in q.kept : Reached(q.offset, a) => a \in ToSet(q.rest)
         /\ \A i \in 1 .. Taken(q) : q.rest[i] \in q.kept => q.rest[i] \in ToSet(q.items)
    /\ q.stage = "end" => Covers(q)

RequestRight(q) == Forward(q) /\ Fits(q) /\ Ordered(q) /\ Covering(q)

PageRight(p) ==
  /\ p.next = NoOffset <=> p.items = <<>>
  /\ p.items # <<>> => p.next[2] = Last(p.items)
  /\ EverHeldAt(p.next)
  /\ Cardinality(EverHeld) <= Chunk => InOrder(p.offset, p.items)
  /\ Cardinality(EverHeld) <= Chunk + 2 => Covers(p)

\* What the client was shown is up to its link, and in order; no account that kept the key
\* is left out.
ClientRight ==
  /\ EverHeldAt(link)
  /\ link = NoOffset => shown = <<>> \/ walk = "done"
  /\ Cardinality(EverHeld) <= Chunk =>
       Rising(shown) /\ (link # NoOffset => \A a \in ToSet(shown) : a <= link[2])
  /\ Cardinality(EverHeld) <= Chunk + 2 =>
       \A a \in kept :
         walk = "done" \/ (link # NoOffset /\ a <= link[2]) => a \in ToSet(shown)

Inv ==
  /\ TypeOK /\ IsFiniteSet(rows)
  /\ LastBlock <= 1 + Cardinality({r \in rows : r.height > 1})
  /\ \A q, r \in requests : q.offset = r.offset => q = r
  /\ \A q \in requests : (q.mine => q.offset = link) /\ RequestRight(q)
  /\ \A p \in answered \cup cache : PageRight(p)
  /\ ClientRight
=============================================================================
