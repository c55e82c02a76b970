------------------------------- MODULE Codecs -------------------------------
(***************************************************************************)
(* What becomes of a value that the JSON and the BSON encoder carry: an    *)
(* operation comes as JSON and is kept as BSON, states are kept as BSON    *)
(* and written to block files as JSON, the digest keeps its rows as BSON   *)
(* and shows them as JSON.                                                 *)
(*                                                                         *)
(* A value is the objects that it is made of.  An object has a hint, its   *)
(* type, and parts: by field of the Go struct in memory, by key in an      *)
(* encoded form.  Strings, numbers, addresses, hashes and times (to the    *)
(* millisecond) are leaves.                                                *)
(* The tables below are the code: for each type and encoder the key that   *)
(* the packer writes each field under and the keys whose contents the      *)
(* unpacker passes on, and for each type the parameters of unpack, in the  *)
(* same order, with how each one becomes a field.                          *)
(***************************************************************************)
EXTENDS Naturals, Sequences, Functions

CONSTANT Values   \* the values that are built: the ones with MCCodecs, any in CodecsProofs

VARIABLES
  origin,    \* the value as it was built
  value,     \* the value as it is now
  form,      \* what it is now: "memory", "json", "bson", or "failed"
  fromJSON,  \* whether it was read from JSON at some time
  altered,   \* whether a leaf of its JSON form was altered on the way
  verdict    \* of the check of the hash: "none", "accepted" or "refused"

vars == <<origin, value, form, fromJSON, altered, verdict>>

Encoders == {"json", "bson"}
DataTypes == {"BSDocData", "BCUserData", "BCLandData", "BCVotingData", "BCHistoryData"}
IdTypes == {"BSDocId", "UserDocId", "LandDocId", "VotingDocId", "HistoryDocId"}
Facts == {"CreateDocumentsFact", "UpdateDocumentsFact", "SignDocumentsFact"}
Operations == {"CreateDocuments", "UpdateDocuments", "SignDocuments"}

(* The rows of two tables.                                                 *)
Merge(f, g) == [x \in DOMAIN f \cup DOMAIN g |-> IF x \in DOMAIN f THEN f[x] ELSE g[x]]
f ++ g == Merge(f, g)
-----------------------------------------------------------------------------
(* How a parameter of unpack becomes a field: as it is, by Decode and a    *)
(* type assertion, the same when it is there at all, by DecodeSlice and an *)
(* assertion on every element, or, in JSON, by an object of the unpacker's *)
(* own making that UnpackJSON fills without Decode.                        *)
As(f, how, types) == [field |-> f, how |-> how, types |-> types]
Plain(f) == As(f, "plain", {})
Uint(f) == As(f, "uint", {})
One(f, types) == As(f, "one", types)
Perhaps(f, types) == As(f, "perhaps", types)
Many(f, types) == As(f, "many", types)
Own(f, types) == As(f, "own", types)

BlockSignUnpack ==
  [Document   |-> <<One("data", DataTypes)>>,
   BSDocData  |-> <<One("info", {"DocInfo"}), Plain("owner"), Plain("fileHash"),
                    One("creator", {"DocSign"}), Plain("title"), Plain("size"),
                    Many("signers", {"DocSign"})>>,
   BCUserData |-> <<One("info", {"DocInfo"}), Plain("owner"), Uint("gold"),
                    Uint("bankgold"), One("statistics", {"UserStatistics"})>>]

BlockCityUnpack ==
  [BCLandData    |-> <<One("info", {"DocInfo"}), Plain("owner"), Plain("address"),
                       Plain("area"), Plain("renter"), Plain("account"),
                       Plain("rentdate"), Uint("periodday")>>,
   BCVotingData  |-> <<One("info", {"DocInfo"}), Plain("owner"), Uint("round"),
                       Plain("endVoteTime"), Many("candidates", {"VotingCandidate"}),
                       Plain("bossname"), Plain("account"), Plain("termofoffice")>>,
   BCHistoryData |-> <<One("info", {"DocInfo"}), Plain("owner"), Plain("name"),
                       Plain("account"), Plain("date"), Plain("usage"),
                       Plain("application")>>]

PartsUnpack ==
  [UserStatistics  |-> <<Uint("hp"), Uint("strength"), Uint("agility"), Uint("dexterity"),
                         Uint("charisma"), Uint("intelligence"), Uint("vital")>>,
   DocInfo         |-> <<One("id", IdTypes), Plain("docType")>>,
   DocSign         |-> <<Plain("address"), Plain("signcode"), Plain("signed")>>,
   VotingCandidate |-> <<Plain("address"), Plain("nickname"), Plain("manifest"),
                         Uint("count")>>]

DocIdUnpack == [T \in IdTypes |-> <<Plain("s")>>]

InventoryUnpack == [DocumentInventory |-> <<Many("docInfos", {"DocInfo"})>>]

FactUnpack(item) ==
  <<Plain("h"), Plain("token"), Plain("sender"), Many("items", {item})>>
CreateFactUnpack == [CreateDocumentsFact |-> FactUnpack("CreateDocumentsItemImpl")]
UpdateFactUnpack == [UpdateDocumentsFact |-> FactUnpack("UpdateDocumentsItemImpl")]
SignFactUnpack == [SignDocumentsFact |-> FactUnpack("SignItemSingleDocument")]

CreateItemUnpack == [CreateDocumentsItemImpl |-> <<One("doc", DataTypes), Plain("cid")>>]
UpdateItemUnpack == [UpdateDocumentsItemImpl |-> <<One("doc", DataTypes), Plain("cid")>>]
SignItemUnpack == [SignItemSingleDocument |-> <<Plain("id"), Plain("owner"), Plain("cid")>>]

(* The JSON unpacker gives unpack no account, which it then reads into a   *)
(* new one: that has no hint, as only Decode gives one.                    *)
AccountValueUnpack ==
  [AccountValue |-> <<Own("ac", {"Account", "UnhintedAccount"}), Many("balance", {"Amount"}),
                      Perhaps("document", {"DocumentInventory"}), Plain("height"),
                      Plain("previousHeight")>>]
DocumentValueUnpack == [DocumentValue |-> <<Perhaps("doc", DataTypes), Plain("height")>>]
OperationValueUnpack ==
  [OperationValue |-> <<Perhaps("op", Operations), Plain("height"), Plain("confirmedAt"),
                        Plain("inState"), Plain("reason"), Plain("index")>>]

(* currency.Account, the same without its hint, currency.Amount and        *)
(* currency.BaseOperation.                                                 *)
CurrencyUnpack ==
  [Account |-> <<Plain("keys")>>, UnhintedAccount |-> <<Plain("keys")>>,
   Amount |-> <<Plain("big")>>]
  ++ [T \in Operations |-> <<One("fact", Facts), Plain("signs")>>]

Unpack ==
  BlockSignUnpack ++ BlockCityUnpack ++ PartsUnpack ++ DocIdUnpack ++ InventoryUnpack
  ++ CreateFactUnpack ++ UpdateFactUnpack ++ SignFactUnpack
  ++ CreateItemUnpack ++ UpdateItemUnpack ++ SignItemUnpack
  ++ AccountValueUnpack ++ DocumentValueUnpack ++ OperationValueUnpack ++ CurrencyUnpack
-----------------------------------------------------------------------------
(* The keys that MarshalJSON or MarshalBSON writes the fields under, and   *)
(* those whose contents UnpackJSON or UnpackBSON passes to unpack, both in *)
(* the order of the parameters of unpack.                                  *)
Tags(packer, unpacker) == [packer |-> packer, unpacker |-> unpacker]
Both(keys) == Tags(keys, keys)

BlockSignJSON ==
  [Document   |-> Both(<<"documentdata">>),
   BSDocData  |-> Both(<<"info", "owner", "filehash", "creator", "title", "size",
                         "signers">>),
   BCUserData |-> Both(<<"info", "owner", "gold", "bankgold", "statistics">>)]

BlockCityJSON ==
  [BCLandData    |-> Both(<<"info", "owner", "address", "area", "renter", "account",
                            "rentdate", "periodday">>),
   BCVotingData  |-> Both(<<"info", "owner", "round", "endvotetime", "candidates",
                            "bossname", "account", "termofoffice">>),
   BCHistoryData |-> Both(<<"info", "owner", "name", "account", "date", "usage",
                            "application">>)]

(* The unpacker of a DocInfo reads "docType": the JSON decoder matches     *)
(* keys without regard to case.                                            *)
PartsJSON ==
  [UserStatistics  |-> Both(<<"hp", "strength", "agility", "dexterity", "charisma",
                              "intelligence", "vital">>),
   DocInfo         |-> Both(<<"docid", "doctype">>),
   DocSign         |-> Both(<<"address", "signcode", "signed">>),
   VotingCandidate |-> Both(<<"address", "nickname", "manifest", "count">>)]

DocIdJSON == [T \in IdTypes |-> Both(<<"id">>)]

(* The methods for BSON use the same keys.                                 *)
BlockSignBSON == BlockSignJSON
BlockCityBSON == BlockCityJSON
PartsBSON == PartsJSON
DocIdBSON == DocIdJSON

\* Faults: the tag of another type in the unpacker.
InventoryBSONMistaken == [DocumentInventory |-> Tags(<<"documents">>, <<"address">>)]

InventoryJSON == [DocumentInventory |-> Tags(<<"documents">>, <<"address">>)]
InventoryBSON == [DocumentInventory |-> Both(<<"documents">>)]

FactTags == Both(<<"hash", "token", "sender", "items">>)
CreateFactJSON == [CreateDocumentsFact |-> FactTags]
UpdateFactJSON == [UpdateDocumentsFact |-> FactTags]
SignFactJSON == [SignDocumentsFact |-> FactTags]
CreateFactBSON == [CreateDocumentsFact |-> FactTags]
UpdateFactBSON == [UpdateDocumentsFact |-> FactTags]
SignFactBSON == [SignDocumentsFact |-> FactTags]

CreateItemJSON == [CreateDocumentsItemImpl |-> Both(<<"doc", "currency">>)]
UpdateItemJSON == [UpdateDocumentsItemImpl |-> Both(<<"doc", "currency">>)]
SignItemJSON == [SignItemSingleDocument |-> Both(<<"documentid", "owner", "currency">>)]
CreateItemBSON == [CreateDocumentsItemImpl |-> Both(<<"doc", "currency">>)]
UpdateItemBSON == [UpdateDocumentsItemImpl |-> Both(<<"doc", "currency">>)]
SignItemBSON == [SignItemSingleDocument |-> Both(<<"documentid", "owner", "currency">>)]

(* In JSON the keys of the account stand among those of the account value, *)
(* whose hint hides the account's; they are one key here, "account".       *)
AccountValueJSON ==
  [AccountValue |-> Both(<<"account", "balance", "documents", "height", "previous_height">>)]
AccountValueBSON ==
  [AccountValue |-> Both(<<"ac", "balance", "documents", "height", "previous_height">>)]
DocumentValueJSON == [DocumentValue |-> Both(<<"document", "height">>)]
DocumentValueBSON == [DocumentValue |-> Both(<<"document", "height">>)]
OperationValueJSON ==
  [OperationValue |-> Both(<<"operation", "height", "confirmed_at", "in_state", "reason",
                             "index">>)]
OperationValueBSON ==
  [OperationValue |-> Both(<<"op", "height", "confirmed_at", "in_state", "reason", "index">>)]

CurrencyTags ==
  [Account |-> Both(<<"keys">>), UnhintedAccount |-> Both(<<"keys">>),
   Amount |-> Both(<<"amount">>)]
  ++ [T \in Operations |-> Both(<<"fact", "fact_signs">>)]

TagsOf ==
  [json |-> BlockSignJSON ++ BlockCityJSON ++ PartsJSON ++ DocIdJSON ++ InventoryJSON
            ++ CreateFactJSON ++ UpdateFactJSON ++ SignFactJSON
            ++ CreateItemJSON ++ UpdateItemJSON ++ SignItemJSON
            ++ AccountValueJSON ++ DocumentValueJSON ++ OperationValueJSON ++ CurrencyTags,
   bson |-> BlockSignBSON ++ BlockCityBSON ++ PartsBSON ++ DocIdBSON ++ InventoryBSON
            ++ CreateFactBSON ++ UpdateFactBSON ++ SignFactBSON
            ++ CreateItemBSON ++ UpdateItemBSON ++ SignItemBSON
            ++ AccountValueBSON ++ DocumentValueBSON ++ OperationValueBSON ++ CurrencyTags]

OtherTypes ==
  {"Document", "DocumentInventory", "DocInfo", "DocSign", "UserStatistics",
   "VotingCandidate", "CreateDocumentsItemImpl", "UpdateDocumentsItemImpl",
   "SignItemSingleDocument", "AccountValue", "DocumentValue", "OperationValue",
   "Account", "Amount"}

\* Faults: a type added without its hinter.
HintersWithoutIds == DataTypes \cup Facts \cup Operations \cup OtherTypes

(* The types whose hinters the node registers with its encoders; an empty  *)
(* hint has none.                                                          *)
Hinters == DataTypes \cup IdTypes \cup Facts \cup Operations \cup OtherTypes
-----------------------------------------------------------------------------
(* An object is at a place: the way to it from the outermost one, the root,*)
(* as a sequence of steps, each a field and the position in the field.  A   *)
(* value is a function from places to objects.  A part is a leaf (a name   *)
(* and the position of the element that it belongs to), the object at a     *)
(* place or the list of those at some places.  What no object leads to is   *)
(* not part of the value any more.                                          *)
Root == <<>>
Below(p, f, j) == Append(p, <<f, j>>)

Nothing == <<"", 0>>
Undecodable == <<"undecodable", 0>>
TooBig == <<"2^63 or more", 0>>
Other == <<"other", 0>>
Sealed == <<"hash of the fact that was built", 0>>

Leaf(x) == [kind |-> "leaf", leaf |-> x, at |-> <<>>]
Object(p) == [kind |-> "object", leaf |-> Nothing, at |-> <<p>>]
List(places) == [kind |-> "list", leaf |-> Nothing, at |-> places]

Fields(T) == {Unpack[T][i].field : i \in DOMAIN Unpack[T]}
Parameter(T, f) == CHOOSE i \in DOMAIN Unpack[T] : Unpack[T][i].field = f

Reached(v) ==
  {p \in DOMAIN v :
     \A i \in 1 .. Len(p) :
       LET q == SubSeq(p, 1, i - 1)
       IN  q \in DOMAIN v /\ \E k \in DOMAIN v[q].parts : SubSeq(p, 1, i) \in Range(v[q].parts[k].at)}
Leaves(v) == UNION {{v[p].parts[k].leaf : k \in DOMAIN v[p].parts} : p \in Reached(v)}

(* The values that differ from v in the content of one leaf.               *)
Altered(v) ==
  UNION {{[v EXCEPT ![p].parts[k] = Leaf(Other)] :
            k \in {x \in DOMAIN v[p].parts :
                     v[p].parts[x].kind = "leaf" /\ v[p].parts[x].leaf # Other}} : p \in Reached(v)}
-----------------------------------------------------------------------------
(* The values there are.  NewDocInfo chooses the type of the id by the type *)
(* of the document.                                                        *)
NewDocInfo ==
  [BSDocData |-> "BSDocId", BCUserData |-> "UserDocId", BCLandData |-> "LandDocId",
   BCVotingData |-> "VotingDocId", BCHistoryData |-> "HistoryDocId"]
FactOf ==
  [CreateDocuments |-> "CreateDocumentsFact", UpdateDocuments |-> "UpdateDocumentsFact",
   SignDocuments |-> "SignDocumentsFact"]

Roots ==
  Facts \cup {"Document", "DocumentInventory", "AccountValue", "DocumentValue", "OperationValue"}

(* Field arg.field of the object at p is what unpack would put there.       *)
WellBuiltPart(v, p, arg) ==
  LET part == v[p].parts[arg.field]
  IN  /\ CASE arg.how \in {"one", "perhaps", "own"} -> part = Object(Below(p, arg.field, 1))
           [] arg.how = "many" ->
                part = List([j \in 1 .. Len(part.at) |-> Below(p, arg.field, j)])
           [] OTHER -> part = Leaf(part.leaf) /\ part.leaf # Undecodable
      /\ arg.field = "h" => part = Leaf(Sealed)
      /\ \A q \in Range(part.at) : q \in DOMAIN v /\ v[q].hint \in arg.types

WellBuilt(v) ==
  /\ v = [p \in DOMAIN v |-> [hint |-> v[p].hint,
                              parts |-> [f \in Fields(v[p].hint) |-> v[p].parts[f]]]]
  /\ DOMAIN v \subseteq Seq(STRING \X Nat) /\ Reached(v) = DOMAIN v
  /\ Root \in DOMAIN v /\ v[Root].hint \in Roots
  /\ \A p \in DOMAIN v :
       LET T == v[p].hint
       IN  /\ T \in DOMAIN Unpack \ {"UnhintedAccount"}
           /\ \A i \in DOMAIN Unpack[T] : WellBuiltPart(v, p, Unpack[T][i])
           /\ T \in DataTypes =>
                v[Below(Below(p, "info", 1), "id", 1)].hint = NewDocInfo[T]
           /\ T \in Operations => v[Below(p, "fact", 1)].hint = FactOf[T]

ASSUME ValuesAssumption == \A v \in Values : WellBuilt(v)
-----------------------------------------------------------------------------
(* Every object is written by its packer.                                  *)
Packed(enc, object) ==
  LET key == TagsOf[enc][object.hint].packer
      Position(k) == CHOOSE i \in DOMAIN key : key[i] = k
  IN  [hint |-> object.hint,
       parts |-> [k \in Range(key) |-> object.parts[Unpack[object.hint][Position(k)].field]]]
Encode(enc, v) == [p \in DOMAIN v |-> Packed(enc, v[p])]

(* BSON has signed integers only: its encoder refuses an unsigned one of   *)
(* 2^63 or more.                                                           *)
Encodable(enc, v) == enc = "bson" => TooBig \notin Leaves(v)

(* What unpack makes of a parameter whose key was not there.               *)
Absent(how) ==
  CASE how = "one" -> Leaf(Undecodable)
    [] how = "many" -> List(<<>>)
    [] OTHER -> Leaf(Nothing)

(* What it makes of one that was: Decode finds the hinter of each object,  *)
(* and the assertion its type; not where the unpacker has its own object.  *)
Asserted(enc, v, arg, part) ==
  IF \/ arg.how = "own" /\ enc = "json"
     \/ /\ arg.how \in {"one", "perhaps", "own"} => part.kind = "object"
        /\ arg.how \in {"one", "perhaps", "own", "many"} =>
             \A i \in DOMAIN part.at : v[part.at[i]].hint \in arg.types \cap Hinters
  THEN part ELSE Leaf(Undecodable)

(* Accounts stand in account values only, and are read there by an object  *)
(* of the JSON unpacker's own.                                             *)
HintRead(enc, T) == IF enc = "json" /\ T = "Account" THEN "UnhintedAccount" ELSE T

(* Every object is read by its unpacker and unpack.                        *)
Decode(enc, v) ==
  [p \in DOMAIN v |->
    LET T == v[p].hint
        key == TagsOf[enc][T].unpacker
        Argument(i) ==
          IF key[i] \in DOMAIN v[p].parts
          THEN Asserted(enc, v, Unpack[T][i], v[p].parts[key[i]])
          ELSE Absent(Unpack[T][i].how)
    IN  [hint |-> HintRead(enc, T), parts |-> [f \in Fields(T) |-> Argument(Parameter(T, f))]]]

\* Faults: the code of a signer is not hashed.
UnhashedCode == {"h", "signcode"}

(* The fields that Bytes leaves out, of all types: the hash of a fact.      *)
Unhashed == {"h"}

(* What a hash is made of: the fields, not the hints.  Bytes concatenates   *)
(* them, and sorts the signers and the candidates first; here they stay     *)
(* apart and in their order, which is the same where one leaf is compared.  *)
(* The bytes of a number are those of the number: whether currency.Big puts *)
(* the sign of BSDocData.size into them is outside the repository.          *)
Bytes(v) ==
  [p \in Reached(v) |-> [f \in DOMAIN v[p].parts \ Unhashed |-> v[p].parts[f]]]

GenerateHash(v) == IF Bytes(v) = Bytes(origin) THEN Sealed ELSE Nothing

IsFact(v) == v[Root].hint \in Facts

Init ==
  /\ origin \in Values
  /\ value = origin
  /\ form = "memory"
  /\ fromJSON = FALSE
  /\ altered = FALSE
  /\ verdict = "none"
-----------------------------------------------------------------------------
Marshal(enc) ==
  /\ form = "memory"
  /\ verdict # "refused"
  /\ Encodable(enc, value)
  /\ value' = Encode(enc, value)
  /\ form' = enc
  /\ UNCHANGED <<origin, fromJSON, altered, verdict>>

MarshalFails(enc) ==
  /\ form = "memory"
  /\ verdict # "refused"
  /\ ~Encodable(enc, value)
  /\ form' = "failed"
  /\ UNCHANGED <<origin, value, fromJSON, altered, verdict>>

Unmarshal(enc) ==
  /\ form = enc
  /\ LET v == Decode(enc, value)
     IN  IF value[Root].hint \notin Hinters \/ Undecodable \in Leaves(v)
         THEN form' = "failed" /\ UNCHANGED value
         ELSE form' = "memory" /\ value' = v
  /\ fromJSON' = (fromJSON \/ enc = "json")
  /\ verdict' = "none"
  /\ UNCHANGED <<origin, altered>>

(* A leaf of the JSON form of a fact is changed: an operation put together  *)
(* by another program, or a file or a message that was damaged.             *)
Alter ==
  /\ form = "json"
  /\ IsFact(value)
  /\ ~altered
  /\ value' \in Altered(value)
  /\ altered' = TRUE
  /\ UNCHANGED <<origin, form, fromJSON, verdict>>

(* The check of its hash with which IsValid of a fact ends.                 *)
IsValid ==
  /\ form = "memory"
  /\ IsFact(value)
  /\ verdict = "none"
  /\ verdict' = IF value[Root].parts.h.leaf = GenerateHash(value) THEN "accepted" ELSE "refused"
  /\ UNCHANGED <<origin, value, form, fromJSON, altered>>

Next ==
  \/ \E enc \in Encoders : Marshal(enc) \/ MarshalFails(enc) \/ Unmarshal(enc)
  \/ Alter
  \/ IsValid

Spec == Init /\ [][Next]_vars
-----------------------------------------------------------------------------
(* What JSON leaves of a value.                                            *)
FromJSON(v) ==
  [p \in DOMAIN v |->
    IF v[p].hint = "DocumentInventory" THEN [v[p] EXCEPT !.parts.docInfos = List(<<>>)]
    ELSE IF v[p].hint = "Account" THEN [v[p] EXCEPT !.hint = "UnhintedAccount"]
    ELSE v[p]]

(* Written and read again, by either encoder and any number of times, every *)
(* object of every type has the hint and the fields that it had, with two   *)
(* exceptions.  A document inventory that was ever read from JSON has no    *)
(* documents left, wherever it stands, and the account of an account value  *)
(* that was has no hint.  (document_json.go, document_bson.go,              *)
(* document_encode.go, document_inventory.go, account_value_json.go)        *)
ContentKept ==
  form = "memory" /\ ~altered =>
    value = IF fromJSON THEN FromJSON(origin) ELSE origin

(* A value is lost on the way in two cases only: a number is too big for    *)
(* BSON, as one of user, land or voting data that IsValid and JSON let      *)
(* pass; or it is an account value that was once read from JSON, whose      *)
(* account BSON cannot read without its hint.  (document_bson.go,           *)
(* account_value_json.go, account_value_encode.go, hinters.go)              *)
OnlyNumbersAndAccountsFail ==
  form = "failed" =>
    TooBig \in Leaves(origin) \/ (fromJSON /\ origin[Root].hint = "AccountValue")

(* A fact is accepted on arrival only as it was when its hash was made: no  *)
(* single part of it can change on the way unnoticed, through any number of *)
(* encodings and checks.  (CreateDocumentsFact.IsValid and its like)        *)
AcceptedAsBuilt == verdict = "accepted" /\ form = "memory" => value = origin

-----------------------------------------------------------------------------
(* The inductive invariant behind the three (CodecsProofs): in memory the   *)
(* value is the one that was built, or what JSON leaves of it, or, if it is *)
(* a fact, with one leaf altered; in an encoded form it is what the encoder *)
(* makes of such a value.                                                  *)
Kept == IF fromJSON THEN FromJSON(origin) ELSE origin
Carried == IF altered THEN Altered(origin) ELSE {Kept}

CInv ==
  /\ origin \in Values
  /\ form \in {"memory", "failed"} \cup Encoders
  /\ altered \in BOOLEAN /\ fromJSON \in BOOLEAN
  /\ altered => IsFact(origin)
  /\ form # "failed" =>
       \E w \in Carried : value = IF form = "memory" THEN w ELSE Encode(form, w)
  /\ AcceptedAsBuilt
  /\ OnlyNumbersAndAccountsFail
=============================================================================
