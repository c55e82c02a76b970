---------------------------- MODULE CodecsProofs ----------------------------
(***************************************************************************)
(* Proofs about Codecs, for every set of values that are well built,       *)
(* however large.  The tables of the code are looked at row by row: each   *)
(* type's packer and unpacker must agree (Proper).  From that the lemmas   *)
(* say what becomes of one object, of one value and of an altered one, and *)
(* the steps of the specification keep the inductive invariant CInv.       *)
(***************************************************************************)
EXTENDS Codecs, WellOrder

\* The types that a fact can have inside.
Inner ==
  {"CreateDocumentsItemImpl", "UpdateDocumentsItemImpl", "SignItemSingleDocument",
   "DocInfo", "DocSign", "UserStatistics", "VotingCandidate"} \cup DataTypes \cup IdTypes

(* What unpack, the packers and the unpackers of a type have to agree on: a   *)
(* key for every parameter and no two alike, and every type that a parameter *)
(* can have with a hinter, but for the account that JSON reads.  The JSON    *)
(* methods of an inventory do not agree.                                     *)
Hows == {"plain", "uint", "one", "perhaps", "own", "many"}
Accounts == {"Account", "UnhintedAccount"}
Once(s) == \A i, j \in DOMAIN s : s[i] = s[j] => i = j
FieldsOf(u) == [i \in DOMAIN u |-> u[i].field]

ParametersProper(T, u) ==
  \A i \in DOMAIN u :
    /\ u[i].how \in Hows
    /\ u[i].field = "h" => T \in Facts /\ u[i].how = "plain"
    /\ T \in Facts \cup Inner => u[i].types \subseteq Inner
    /\ u[i].how = "own" => T = "AccountValue" /\ u[i].types = Accounts
    /\ u[i].how # "own" => u[i].types \cap Accounts = {}
    /\ "AccountValue" \notin u[i].types

Proper(T, u, json, bson) ==
  /\ DOMAIN json.packer = DOMAIN u /\ DOMAIN bson.packer = DOMAIN u
  /\ Once(FieldsOf(u)) /\ Once(json.packer) /\ Once(bson.packer)
  /\ bson.unpacker = bson.packer
  /\ T # "DocumentInventory" => json.unpacker = json.packer
  /\ T = "DocumentInventory" =>
       /\ DOMAIN u = {1} /\ u[1].field = "docInfos" /\ u[1].how = "many"
       /\ json.unpacker[1] # json.packer[1]
  /\ T # "UnhintedAccount" => T \in Hinters
  /\ T \in Accounts => u = <<Plain("keys")>>
  /\ T \in Facts => \E i \in DOMAIN u : u[i].field = "h"
  /\ T = "AccountValue" => \E i \in DOMAIN u : u[i].how = "own"
  /\ ParametersProper(T, u)

Tables(U, J, B) ==
  /\ DOMAIN J = DOMAIN U /\ DOMAIN B = DOMAIN U
  /\ \A T \in DOMAIN U : Proper(T, U[T], J[T], B[T])

\* Two tables whose rows are proper make one.
LEMMA UnionRows ==
  ASSUME NEW U1, NEW J1, NEW B1, NEW U2, NEW J2, NEW B2,
         Tables(U1, J1, B1), Tables(U2, J2, B2)
  PROVE  Tables(U1 ++ U2, J1 ++ J2, B1 ++ B2)
<1>1. /\ DOMAIN J1 = DOMAIN U1 /\ DOMAIN B1 = DOMAIN U1
      /\ DOMAIN J2 = DOMAIN U2 /\ DOMAIN B2 = DOMAIN U2
  BY DEF Tables
<1>2. /\ DOMAIN Merge(J1, J2) = DOMAIN Merge(U1, U2)
      /\ DOMAIN Merge(B1, B2) = DOMAIN Merge(U1, U2)
  BY <1>1 DEF Merge
<1>3. ASSUME NEW T \in DOMAIN Merge(U1, U2)
      PROVE  Proper(T, Merge(U1, U2)[T], Merge(J1, J2)[T], Merge(B1, B2)[T])
  <2>1. CASE T \in DOMAIN U1
    <3>1. Merge(U1, U2)[T] = U1[T] /\ Merge(J1, J2)[T] = J1[T] /\ Merge(B1, B2)[T] = B1[T]
      BY <1>1, <2>1 DEF Merge
    <3> QED
      BY <2>1, <3>1 DEF Tables
  <2>2. CASE T \in DOMAIN U2 \ DOMAIN U1
    <3>1. Merge(U1, U2)[T] = U2[T] /\ Merge(J1, J2)[T] = J2[T] /\ Merge(B1, B2)[T] = B2[T]
      BY <1>1, <2>2 DEF Merge
    <3> QED
      BY <2>2, <3>1 DEF Tables
  <2> QED
    BY <1>3, <2>1, <2>2 DEF Merge
<1>4. Tables(Merge(U1, U2), Merge(J1, J2), Merge(B1, B2))
  BY <1>2, <1>3 DEF Tables
<1> QED
  BY <1>4 DEF ++

\* The same for a table and three more.
LEMMA UnionRowsOfThree ==
  ASSUME NEW U, NEW J, NEW B, NEW U1, NEW J1, NEW B1, NEW U2, NEW J2, NEW B2,
         NEW U3, NEW J3, NEW B3,
         Tables(U, J, B), Tables(U1, J1, B1), Tables(U2, J2, B2), Tables(U3, J3, B3)
  PROVE  Tables(U ++ U1 ++ U2 ++ U3, J ++ J1 ++ J2 ++ J3, B ++ B1 ++ B2 ++ B3)
<1>1. Tables(U ++ U1, J ++ J1, B ++ B1)
  BY UnionRows
<1>2. Tables(U ++ U1 ++ U2, J ++ J1 ++ J2, B ++ B1 ++ B2)
  BY <1>1, UnionRows
<1> QED
  BY <1>2, UnionRows

\* document.go, document_data.go: blocksign and user data.
LEMMA BlockSignRows == Tables(BlockSignUnpack, BlockSignJSON, BlockSignBSON)
<1>0. /\ DOMAIN BlockSignUnpack = {"Document", "BSDocData", "BCUserData"}
      /\ DOMAIN BlockSignJSON = {"Document", "BSDocData", "BCUserData"}
  BY DEF BlockSignUnpack, BlockSignJSON
<1>1. ASSUME NEW u, NEW json, u = BlockSignUnpack.Document, json = BlockSignJSON.Document
      PROVE  Proper("Document", u, json, json)
  <2>1. Once(FieldsOf(u)) /\ ParametersProper("Document", u)
    BY <1>1 DEF BlockSignUnpack, As, Plain, Uint, One, Perhaps, Many, Own,
           Once, FieldsOf, ParametersProper, Hows, Accounts, Facts, Inner, DataTypes, IdTypes
  <2>2. Once(json.packer) /\ json.unpacker = json.packer /\ DOMAIN json.packer = DOMAIN u
    BY <1>1 DEF BlockSignUnpack, BlockSignJSON, Both, Tags, Once
  <2>3. "Document" \in Hinters /\ "Document" \notin Facts /\ "Document" \notin Accounts
    BY DEF Hinters, Facts, DataTypes, OtherTypes, Accounts
  <2> QED
    BY <2>1, <2>2, <2>3 DEF Proper
<1>2. ASSUME NEW u, NEW json, u = BlockSignUnpack.BSDocData, json = BlockSignJSON.BSDocData
      PROVE  Proper("BSDocData", u, json, json)
  <2>1. Once(FieldsOf(u)) /\ ParametersProper("BSDocData", u)
    BY <1>2 DEF BlockSignUnpack, As, Plain, Uint, One, Perhaps, Many, Own,
           Once, FieldsOf, ParametersProper, Hows, Accounts, Facts, Inner
  <2>2. Once(json.packer) /\ json.unpacker = json.packer /\ DOMAIN json.packer = DOMAIN u
    BY <1>2 DEF BlockSignUnpack, BlockSignJSON, Both, Tags, Once
  <2>3. "BSDocData" \in Hinters /\ "BSDocData" \notin Facts /\ "BSDocData" \notin Accounts
    BY DEF Hinters, Facts, DataTypes, OtherTypes, Accounts
  <2> QED
    BY <2>1, <2>2, <2>3 DEF Proper
<1>3. ASSUME NEW u, NEW json, u = BlockSignUnpack.BCUserData, json = BlockSignJSON.BCUserData
      PROVE  Proper("BCUserData", u, json, json)
  <2>1. Once(FieldsOf(u)) /\ ParametersProper("BCUserData", u)
    BY <1>3 DEF BlockSignUnpack, As, Plain, Uint, One, Perhaps, Many, Own,
           Once, FieldsOf, ParametersProper, Hows, Accounts, Facts, Inner
  <2>2. Once(json.packer) /\ json.unpacker = json.packer /\ DOMAIN json.packer = DOMAIN u
    BY <1>3 DEF BlockSignUnpack, BlockSignJSON, Both, Tags, Once
  <2>3. "BCUserData" \in Hinters /\ "BCUserData" \notin Facts /\ "BCUserData" \notin Accounts
    BY DEF Hinters, Facts, DataTypes, OtherTypes, Accounts
  <2> QED
    BY <2>1, <2>2, <2>3 DEF Proper
<1> QED
  BY <1>0, <1>1, <1>2, <1>3 DEF Tables, BlockSignBSON

\* document_data.go: land, voting and history data.
LEMMA BlockCityRows == Tables(BlockCityUnpack, BlockCityJSON, BlockCityBSON)
<1>0. /\ DOMAIN BlockCityUnpack = {"BCLandData", "BCVotingData", "BCHistoryData"}
      /\ DOMAIN BlockCityJSON = {"BCLandData", "BCVotingData", "BCHistoryData"}
  BY DEF BlockCityUnpack, BlockCityJSON
<1>1. ASSUME NEW u, NEW json, u = BlockCityUnpack.BCLandData, json = BlockCityJSON.BCLandData
      PROVE  Proper("BCLandData", u, json, json)
  <2>1. Once(FieldsOf(u)) /\ ParametersProper("BCLandData", u)
    BY <1>1 DEF BlockCityUnpack, As, Plain, Uint, One, Perhaps, Many, Own,
           Once, FieldsOf, ParametersProper, Hows, Accounts, Facts, Inner
  <2>2. Once(json.packer) /\ json.unpacker = json.packer /\ DOMAIN json.packer = DOMAIN u
    BY <1>1 DEF BlockCityUnpack, BlockCityJSON, Both, Tags, Once
  <2>3. "BCLandData" \in Hinters /\ "BCLandData" \notin Facts /\ "BCLandData" \notin Accounts
    BY DEF Hinters, Facts, DataTypes, OtherTypes, Accounts
  <2> QED
    BY <2>1, <2>2, <2>3 DEF Proper
<1>2. ASSUME NEW u, NEW json, u = BlockCityUnpack.BCVotingData, json = BlockCityJSON.BCVotingData
      PROVE  Proper("BCVotingData", u, json, json)
  <2>1. Once(FieldsOf(u)) /\ ParametersProper("BCVotingData", u)
    BY <1>2 DEF BlockCityUnpack, As, Plain, Uint, One, Perhaps, Many, Own,
           Once, FieldsOf, ParametersProper, Hows, Accounts, Facts, Inner
  <2>2. Once(json.packer) /\ json.unpacker = json.packer /\ DOMAIN json.packer = DOMAIN u
    BY <1>2 DEF BlockCityUnpack, BlockCityJSON, Both, Tags, Once
  <2>3. "BCVotingData" \in Hinters /\ "BCVotingData" \notin Facts /\ "BCVotingData" \notin Accounts
    BY DEF Hinters, Facts, DataTypes, OtherTypes, Accounts
  <2> QED
    BY <2>1, <2>2, <2>3 DEF Proper
<1>3. ASSUME NEW u, NEW json, u = BlockCityUnpack.BCHistoryData, json = BlockCityJSON.BCHistoryData
      PROVE  Proper("BCHistoryData", u, json, json)
  <2>1. Once(FieldsOf(u)) /\ ParametersProper("BCHistoryData", u)
    BY <1>3 DEF BlockCityUnpack, As, Plain, Uint, One, Perhaps, Many, Own,
           Once, FieldsOf, ParametersProper, Hows, Accounts, Facts, Inner
  <2>2. Once(json.packer) /\ json.unpacker = json.packer /\ DOMAIN json.packer = DOMAIN u
    BY <1>3 DEF BlockCityUnpack, BlockCityJSON, Both, Tags, Once
  <2>3. "BCHistoryData" \in Hinters /\ "BCHistoryData" \notin Facts /\ "BCHistoryData" \notin Accounts
    BY DEF Hinters, Facts, DataTypes, OtherTypes, Accounts
  <2> QED
    BY <2>1, <2>2, <2>3 DEF Proper
<1> QED
  BY <1>0, <1>1, <1>2, <1>3 DEF Tables, BlockCityBSON

\* What document data is made of.
LEMMA PartsRows == Tables(PartsUnpack, PartsJSON, PartsBSON)
<1>0. /\ DOMAIN PartsUnpack = {"UserStatistics", "DocInfo", "DocSign", "VotingCandidate"}
      /\ DOMAIN PartsJSON = {"UserStatistics", "DocInfo", "DocSign", "VotingCandidate"}
  BY DEF PartsUnpack, PartsJSON
<1>1. ASSUME NEW u, NEW json, u = PartsUnpack.UserStatistics, json = PartsJSON.UserStatistics
      PROVE  Proper("UserStatistics", u, json, json)
  <2>1. Once(FieldsOf(u)) /\ ParametersProper("UserStatistics", u)
    BY <1>1 DEF PartsUnpack, As, Plain, Uint, One, Perhaps, Many, Own,
           Once, FieldsOf, ParametersProper, Hows, Accounts, Facts, Inner
  <2>2. Once(json.packer) /\ json.unpacker = json.packer /\ DOMAIN json.packer = DOMAIN u
    BY <1>1 DEF PartsUnpack, PartsJSON, Both, Tags, Once
  <2>3. "UserStatistics" \in Hinters /\ "UserStatistics" \notin Facts /\ "UserStatistics" \notin Accounts
    BY DEF Hinters, Facts, DataTypes, OtherTypes, Accounts
  <2> QED
    BY <2>1, <2>2, <2>3 DEF Proper
<1>2. ASSUME NEW u, NEW json, u = PartsUnpack.DocInfo, json = PartsJSON.DocInfo
      PROVE  Proper("DocInfo", u, json, json)
  <2>1. Once(FieldsOf(u)) /\ ParametersProper("DocInfo", u)
    BY <1>2 DEF PartsUnpack, As, Plain, Uint, One, Perhaps, Many, Own,
           Once, FieldsOf, ParametersProper, Hows, Accounts, Facts, Inner, DataTypes, IdTypes
  <2>2. Once(json.packer) /\ json.unpacker = json.packer /\ DOMAIN json.packer = DOMAIN u
    BY <1>2 DEF PartsUnpack, PartsJSON, Both, Tags, Once
  <2>3. "DocInfo" \in Hinters /\ "DocInfo" \notin Facts /\ "DocInfo" \notin Accounts
    BY DEF Hinters, Facts, DataTypes, OtherTypes, Accounts
  <2> QED
    BY <2>1, <2>2, <2>3 DEF Proper
<1>3. ASSUME NEW u, NEW json, u = PartsUnpack.DocSign, json = PartsJSON.DocSign
      PROVE  Proper("DocSign", u, json, json)
  <2>1. Once(FieldsOf(u)) /\ ParametersProper("DocSign", u)
    BY <1>3 DEF PartsUnpack, As, Plain, Uint, One, Perhaps, Many, Own,
           Once, FieldsOf, ParametersProper, Hows, Accounts, Facts, Inner
  <2>2. Once(json.packer) /\ json.unpacker = json.packer /\ DOMAIN json.packer = DOMAIN u
    BY <1>3 DEF PartsUnpack, PartsJSON, Both, Tags, Once
  <2>3. "DocSign" \in Hinters /\ "DocSign" \notin Facts /\ "DocSign" \notin Accounts
    BY DEF Hinters, Facts, DataTypes, OtherTypes, Accounts
  <2> QED
    BY <2>1, <2>2, <2>3 DEF Proper
<1>4. ASSUME NEW u, NEW json, u = PartsUnpack.VotingCandidate, json = PartsJSON.VotingCandidate
      PROVE  Proper("VotingCandidate", u, json, json)
  <2>1. Once(FieldsOf(u)) /\ ParametersProper("VotingCandidate", u)
    BY <1>4 DEF PartsUnpack, As, Plain, Uint, One, Perhaps, Many, Own,
           Once, FieldsOf, ParametersProper, Hows, Accounts, Facts, Inner
  <2>2. Once(json.packer) /\ json.unpacker = json.packer /\ DOMAIN json.packer = DOMAIN u
    BY <1>4 DEF PartsUnpack, PartsJSON, Both, Tags, Once
  <2>3. "VotingCandidate" \in Hinters /\ "VotingCandidate" \notin Facts /\ "VotingCandidate" \notin Accounts
    BY DEF Hinters, Facts, DataTypes, OtherTypes, Accounts
  <2> QED
    BY <2>1, <2>2, <2>3 DEF Proper
<1> QED
  BY <1>0, <1>1, <1>2, <1>3, <1>4 DEF Tables, PartsBSON

\* The items of the operations.
LEMMA ItemRows ==
  /\ Tables(CreateItemUnpack, CreateItemJSON, CreateItemBSON)
  /\ Tables(UpdateItemUnpack, UpdateItemJSON, UpdateItemBSON)
  /\ Tables(SignItemUnpack, SignItemJSON, SignItemBSON)
<1>1. Tables(CreateItemUnpack, CreateItemJSON, CreateItemBSON)
  <2>1. /\ DOMAIN CreateItemUnpack = {"CreateDocumentsItemImpl"}
        /\ DOMAIN CreateItemJSON = {"CreateDocumentsItemImpl"}
        /\ DOMAIN CreateItemBSON = {"CreateDocumentsItemImpl"}
    BY DEF CreateItemUnpack, CreateItemJSON, CreateItemBSON
  <2>2. ASSUME NEW u, NEW json, NEW bson, u = CreateItemUnpack.CreateDocumentsItemImpl,
               json = CreateItemJSON.CreateDocumentsItemImpl, bson = CreateItemBSON.CreateDocumentsItemImpl
        PROVE  Proper("CreateDocumentsItemImpl", u, json, bson)
    <3>1. Once(FieldsOf(u)) /\ ParametersProper("CreateDocumentsItemImpl", u)
      BY <2>2 DEF CreateItemUnpack, As, Plain, Uint, One, Perhaps, Many, Own,
             Once, FieldsOf, ParametersProper, Hows, Accounts, Facts, Inner, DataTypes, IdTypes
    <3>2. /\ Once(json.packer) /\ json.unpacker = json.packer /\ DOMAIN json.packer = DOMAIN u
          /\ Once(bson.packer) /\ bson.unpacker = bson.packer /\ DOMAIN bson.packer = DOMAIN u
      BY <2>2 DEF CreateItemUnpack, CreateItemJSON, CreateItemBSON, Both, Tags, Once
    <3>3. "CreateDocumentsItemImpl" \in Hinters /\ "CreateDocumentsItemImpl" \notin Facts /\ "CreateDocumentsItemImpl" \notin Accounts
      BY DEF Hinters, Facts, DataTypes, OtherTypes, Accounts
    <3> QED
      BY <3>1, <3>2, <3>3 DEF Proper
  <2> QED
    BY <2>1, <2>2 DEF Tables
<1>2. Tables(UpdateItemUnpack, UpdateItemJSON, UpdateItemBSON)
  <2>1. /\ DOMAIN UpdateItemUnpack = {"UpdateDocumentsItemImpl"}
        /\ DOMAIN UpdateItemJSON = {"UpdateDocumentsItemImpl"}
        /\ DOMAIN UpdateItemBSON = {"UpdateDocumentsItemImpl"}
    BY DEF UpdateItemUnpack, UpdateItemJSON, UpdateItemBSON
  <2>2. ASSUME NEW u, NEW json, NEW bson, u = UpdateItemUnpack.UpdateDocumentsItemImpl,
               json = UpdateItemJSON.UpdateDocumentsItemImpl, bson = UpdateItemBSON.UpdateDocumentsItemImpl
        PROVE  Proper("UpdateDocumentsItemImpl", u, json, bson)
    <3>1. Once(FieldsOf(u)) /\ ParametersProper("UpdateDocumentsItemImpl", u)
      BY <2>2 DEF UpdateItemUnpack, As, Plain, Uint, One, Perhaps, Many, Own,
             Once, FieldsOf, ParametersProper, Hows, Accounts, Facts, Inner, DataTypes, IdTypes
    <3>2. /\ Once(json.packer) /\ json.unpacker = json.packer /\ DOMAIN json.packer = DOMAIN u
          /\ Once(bson.packer) /\ bson.unpacker = bson.packer /\ DOMAIN bson.packer = DOMAIN u
      BY <2>2 DEF UpdateItemUnpack, UpdateItemJSON, UpdateItemBSON, Both, Tags, Once
    <3>3. "UpdateDocumentsItemImpl" \in Hinters /\ "UpdateDocumentsItemImpl" \notin Facts /\ "UpdateDocumentsItemImpl" \notin Accounts
      BY DEF Hinters, Facts, DataTypes, OtherTypes, Accounts
    <3> QED
      BY <3>1, <3>2, <3>3 DEF Proper
  <2> QED
    BY <2>1, <2>2 DEF Tables
<1>3. Tables(SignItemUnpack, SignItemJSON, SignItemBSON)
  <2>1. /\ DOMAIN SignItemUnpack = {"SignItemSingleDocument"}
        /\ DOMAIN SignItemJSON = {"SignItemSingleDocument"}
        /\ DOMAIN SignItemBSON = {"SignItemSingleDocument"}
    BY DEF SignItemUnpack, SignItemJSON, SignItemBSON
  <2>2. ASSUME NEW u, NEW json, NEW bson, u = SignItemUnpack.SignItemSingleDocument,
               json = SignItemJSON.SignItemSingleDocument, bson = SignItemBSON.SignItemSingleDocument
        PROVE  Proper("SignItemSingleDocument", u, json, bson)
    <3>1. Once(FieldsOf(u)) /\ ParametersProper("SignItemSingleDocument", u)
      BY <2>2 DEF SignItemUnpack, As, Plain, Uint, One, Perhaps, Many, Own,
             Once, FieldsOf, ParametersProper, Hows, Accounts, Facts, Inner
    <3>2. /\ Once(json.packer) /\ json.unpacker = json.packer /\ DOMAIN json.packer = DOMAIN u
          /\ Once(bson.packer) /\ bson.unpacker = bson.packer /\ DOMAIN bson.packer = DOMAIN u
      BY <2>2 DEF SignItemUnpack, SignItemJSON, SignItemBSON, Both, Tags, Once
    <3>3. "SignItemSingleDocument" \in Hinters /\ "SignItemSingleDocument" \notin Facts /\ "SignItemSingleDocument" \notin Accounts
      BY DEF Hinters, Facts, DataTypes, OtherTypes, Accounts
    <3> QED
      BY <3>1, <3>2, <3>3 DEF Proper
  <2> QED
    BY <2>1, <2>2 DEF Tables
<1> QED
  BY <1>1, <1>2, <1>3

\* The rows of the digest.
LEMMA ValueRows ==
  /\ Tables(AccountValueUnpack, AccountValueJSON, AccountValueBSON)
  /\ Tables(DocumentValueUnpack, DocumentValueJSON, DocumentValueBSON)
  /\ Tables(OperationValueUnpack, OperationValueJSON, OperationValueBSON)
<1>1. Tables(AccountValueUnpack, AccountValueJSON, AccountValueBSON)
  <2>1. /\ DOMAIN AccountValueUnpack = {"AccountValue"}
        /\ DOMAIN AccountValueJSON = {"AccountValue"}
        /\ DOMAIN AccountValueBSON = {"AccountValue"}
    BY DEF AccountValueUnpack, AccountValueJSON, AccountValueBSON
  <2>2. ASSUME NEW u, NEW json, NEW bson, u = AccountValueUnpack.AccountValue,
               json = AccountValueJSON.AccountValue, bson = AccountValueBSON.AccountValue
        PROVE  Proper("AccountValue", u, json, bson)
    <3>1. Once(FieldsOf(u)) /\ ParametersProper("AccountValue", u)
      BY <2>2 DEF AccountValueUnpack, As, Plain, Uint, One, Perhaps, Many, Own,
             Once, FieldsOf, ParametersProper, Hows, Accounts, Facts, Inner, DataTypes, IdTypes
    <3>2. /\ Once(json.packer) /\ json.unpacker = json.packer /\ DOMAIN json.packer = DOMAIN u
          /\ Once(bson.packer) /\ bson.unpacker = bson.packer /\ DOMAIN bson.packer = DOMAIN u
      BY <2>2 DEF AccountValueUnpack, AccountValueJSON, AccountValueBSON, Both, Tags, Once
    <3>3. "AccountValue" \in Hinters /\ "AccountValue" \notin Facts /\ "AccountValue" \notin Accounts
      BY DEF Hinters, Facts, DataTypes, OtherTypes, Accounts
    <3>4. 1 \in DOMAIN u /\ u[1].how = "own"
      BY <2>2 DEF AccountValueUnpack, As, Own
    <3> QED
      BY <3>1, <3>2, <3>3, <3>4 DEF Proper
  <2> QED
    BY <2>1, <2>2 DEF Tables
<1>2. Tables(DocumentValueUnpack, DocumentValueJSON, DocumentValueBSON)
  <2>1. /\ DOMAIN DocumentValueUnpack = {"DocumentValue"}
        /\ DOMAIN DocumentValueJSON = {"DocumentValue"}
        /\ DOMAIN DocumentValueBSON = {"DocumentValue"}
    BY DEF DocumentValueUnpack, DocumentValueJSON, DocumentValueBSON
  <2>2. ASSUME NEW u, NEW json, NEW bson, u = DocumentValueUnpack.DocumentValue,
               json = DocumentValueJSON.DocumentValue, bson = DocumentValueBSON.DocumentValue
        PROVE  Proper("DocumentValue", u, json, bson)
    <3>1. Once(FieldsOf(u)) /\ ParametersProper("DocumentValue", u)
      BY <2>2 DEF DocumentValueUnpack, As, Plain, Uint, One, Perhaps, Many, Own,
             Once, FieldsOf, ParametersProper, Hows, Accounts, Facts, Inner, DataTypes, IdTypes
    <3>2. /\ Once(json.packer) /\ json.unpacker = json.packer /\ DOMAIN json.packer = DOMAIN u
          /\ Once(bson.packer) /\ bson.unpacker = bson.packer /\ DOMAIN bson.packer = DOMAIN u
      BY <2>2 DEF DocumentValueUnpack, DocumentValueJSON, DocumentValueBSON, Both, Tags, Once
    <3>3. "DocumentValue" \in Hinters /\ "DocumentValue" \notin Facts /\ "DocumentValue" \notin Accounts
      BY DEF Hinters, Facts, DataTypes, OtherTypes, Accounts
    <3> QED
      BY <3>1, <3>2, <3>3 DEF Proper
  <2> QED
    BY <2>1, <2>2 DEF Tables
<1>3. Tables(OperationValueUnpack, OperationValueJSON, OperationValueBSON)
  <2>1. /\ DOMAIN OperationValueUnpack = {"OperationValue"}
        /\ DOMAIN OperationValueJSON = {"OperationValue"}
        /\ DOMAIN OperationValueBSON = {"OperationValue"}
    BY DEF OperationValueUnpack, OperationValueJSON, OperationValueBSON
  <2>2. ASSUME NEW u, NEW json, NEW bson, u = OperationValueUnpack.OperationValue,
               json = OperationValueJSON.OperationValue, bson = OperationValueBSON.OperationValue
        PROVE  Proper("OperationValue", u, json, bson)
    <3>1. Once(FieldsOf(u)) /\ ParametersProper("OperationValue", u)
      BY <2>2 DEF OperationValueUnpack, As, Plain, Uint, One, Perhaps, Many, Own,
             Once, FieldsOf, ParametersProper, Hows, Accounts, Facts, Inner, DataTypes, IdTypes,
             Operations
    <3>2. /\ Once(json.packer) /\ json.unpacker = json.packer /\ DOMAIN json.packer = DOMAIN u
          /\ Once(bson.packer) /\ bson.unpacker = bson.packer /\ DOMAIN bson.packer = DOMAIN u
      BY <2>2 DEF OperationValueUnpack, OperationValueJSON, OperationValueBSON, Both, Tags, Once
    <3>3. "OperationValue" \in Hinters /\ "OperationValue" \notin Facts /\ "OperationValue" \notin Accounts
      BY DEF Hinters, Facts, DataTypes, OtherTypes, Accounts
    <3> QED
      BY <3>1, <3>2, <3>3 DEF Proper
  <2> QED
    BY <2>1, <2>2 DEF Tables
<1> QED
  BY <1>1, <1>2, <1>3

\* The ids of the documents.
LEMMA DocIdRows == Tables(DocIdUnpack, DocIdJSON, DocIdBSON)
<1>1. DOMAIN DocIdUnpack = IdTypes /\ DOMAIN DocIdJSON = IdTypes
  BY DEF DocIdUnpack, DocIdJSON
<1>2. ASSUME NEW T \in IdTypes, NEW u, NEW json, u = DocIdUnpack[T], json = DocIdJSON[T]
      PROVE  Proper(T, u, json, json)
  <2>1. u = <<Plain("s")>> /\ json = Both(<<"id">>)
    BY <1>2 DEF DocIdUnpack, DocIdJSON
  <2>2. Once(FieldsOf(u)) /\ DOMAIN u = {1}
    BY <2>1 DEF Plain, As, Once, FieldsOf
  <2>3. DOMAIN json.packer = {1} /\ Once(json.packer) /\ json.unpacker = json.packer
    BY <2>1 DEF Both, Tags, Once
  <2>4. ParametersProper(T, u)
    BY <2>1 DEF ParametersProper, Plain, As, Hows
  <2>5. /\ T \in Hinters /\ T \notin Facts \cup Accounts
        /\ T \notin {"DocumentInventory", "AccountValue"}
    BY DEF Hinters, IdTypes, Facts, Accounts
  <2> QED
    BY <2>2, <2>3, <2>4, <2>5 DEF Proper
<1> QED
  BY <1>1, <1>2 DEF Tables, DocIdBSON

\* The JSON packer of an inventory writes one key and its unpacker reads another.
LEMMA InventoryRows == Tables(InventoryUnpack, InventoryJSON, InventoryBSON)
<1>1. /\ DOMAIN InventoryUnpack = {"DocumentInventory"}
      /\ DOMAIN InventoryJSON = {"DocumentInventory"}
      /\ DOMAIN InventoryBSON = {"DocumentInventory"}
  BY DEF InventoryUnpack, InventoryJSON, InventoryBSON
<1>2. ASSUME NEW u, NEW json, NEW bson,
             u = InventoryUnpack.DocumentInventory, json = InventoryJSON.DocumentInventory,
             bson = InventoryBSON.DocumentInventory
      PROVE  Proper("DocumentInventory", u, json, bson)
  <2>1. /\ u = <<Many("docInfos", {"DocInfo"})>>
        /\ json = Tags(<<"documents">>, <<"address">>) /\ bson = Both(<<"documents">>)
    BY <1>2 DEF InventoryUnpack, InventoryJSON, InventoryBSON
  <2>2. Once(FieldsOf(u)) /\ DOMAIN u = {1} /\ u[1].field = "docInfos" /\ u[1].how = "many"
    BY <2>1 DEF Many, As, Once, FieldsOf
  <2>3. /\ DOMAIN json.packer = {1} /\ Once(json.packer) /\ json.unpacker[1] # json.packer[1]
        /\ DOMAIN bson.packer = {1} /\ Once(bson.packer) /\ bson.unpacker = bson.packer
    BY <2>1 DEF Both, Tags, Once
  <2>4. ParametersProper("DocumentInventory", u)
    BY <2>1 DEF ParametersProper, Many, As, Hows, Inner, Accounts
  <2>5. "DocumentInventory" \in Hinters /\ "DocumentInventory" \notin Facts \cup Accounts
    BY DEF Hinters, OtherTypes, Facts, Accounts
  <2> QED
    BY <2>2, <2>3, <2>4, <2>5 DEF Proper
<1> QED
  BY <1>1, <1>2 DEF Tables

\* The facts are alike but for the type of their items.
LEMMA FactRow ==
  ASSUME NEW T \in Facts, NEW item \in Inner
  PROVE  Proper(T, FactUnpack(item), FactTags, FactTags)
<1> DEFINE u == FactUnpack(item)   tags == FactTags
<1>1. /\ Once(FieldsOf(u)) /\ DOMAIN u = 1 .. 4 /\ u[1].field = "h"
      /\ ParametersProper(T, u)
  <2>1. u = <<Plain("h"), Plain("token"), Plain("sender"), Many("items", {item})>>
    BY DEF FactUnpack
  <2> HIDE DEF u
  <2>2. Once(FieldsOf(u)) /\ DOMAIN u = 1 .. 4 /\ u[1].field = "h"
    BY <2>1 DEF Plain, Many, As, Once, FieldsOf
  <2>3. ParametersProper(T, u)
    <3>1. item \notin Accounts /\ item # "AccountValue"
      BY DEF Inner, Accounts, DataTypes, IdTypes
    <3> QED
      BY <2>1, <3>1 DEF ParametersProper, Plain, Many, As, Hows
  <2> QED
    BY <2>2, <2>3
<1>2. DOMAIN tags.packer = 1 .. 4 /\ Once(tags.packer) /\ tags.unpacker = tags.packer
  BY DEF FactTags, Both, Tags, Once
<1>3. T \in Hinters /\ T \notin Accounts /\ T \notin {"DocumentInventory", "AccountValue"}
  BY DEF Hinters, Facts, Accounts
<1> HIDE DEF u, tags
<1>4. Proper(T, u, tags, tags)
  BY <1>1, <1>2, <1>3 DEF Proper
<1> QED
  BY <1>4 DEF u, tags

\* The facts of the three operations.
LEMMA FactRows ==
  /\ Tables(CreateFactUnpack, CreateFactJSON, CreateFactBSON)
  /\ Tables(UpdateFactUnpack, UpdateFactJSON, UpdateFactBSON)
  /\ Tables(SignFactUnpack, SignFactJSON, SignFactBSON)
<1>1. /\ Proper("CreateDocumentsFact", FactUnpack("CreateDocumentsItemImpl"), FactTags, FactTags)
      /\ Proper("UpdateDocumentsFact", FactUnpack("UpdateDocumentsItemImpl"), FactTags, FactTags)
      /\ Proper("SignDocumentsFact", FactUnpack("SignItemSingleDocument"), FactTags, FactTags)
  <2>1. /\ "CreateDocumentsItemImpl" \in Inner /\ "UpdateDocumentsItemImpl" \in Inner
        /\ "SignItemSingleDocument" \in Inner
    BY DEF Inner
  <2> QED
    BY <2>1, FactRow DEF Facts
<1>2. Tables(CreateFactUnpack, CreateFactJSON, CreateFactBSON)
  BY <1>1 DEF Tables, CreateFactUnpack, CreateFactJSON, CreateFactBSON
<1>3. Tables(UpdateFactUnpack, UpdateFactJSON, UpdateFactBSON)
  BY <1>1 DEF Tables, UpdateFactUnpack, UpdateFactJSON, UpdateFactBSON
<1>4. Tables(SignFactUnpack, SignFactJSON, SignFactBSON)
  BY <1>1 DEF Tables, SignFactUnpack, SignFactJSON, SignFactBSON
<1> QED
  BY <1>2, <1>3, <1>4

\* The types of mitum-currency.
LEMMA CurrencyRows == Tables(CurrencyUnpack, CurrencyTags, CurrencyTags)
<1> DEFINE U1 == [Account |-> <<Plain("keys")>>, UnhintedAccount |-> <<Plain("keys")>>,
                  Amount |-> <<Plain("big")>>]
           U2 == [T \in Operations |-> <<One("fact", Facts), Plain("signs")>>]
           X1 == [Account |-> Both(<<"keys">>), UnhintedAccount |-> Both(<<"keys">>),
                  Amount |-> Both(<<"amount">>)]
           X2 == [T \in Operations |-> Both(<<"fact", "fact_signs">>)]
<1>1. Tables(U1, X1, X1)
  <2>1. /\ DOMAIN U1 = {"Account", "UnhintedAccount", "Amount"}
        /\ DOMAIN X1 = {"Account", "UnhintedAccount", "Amount"}
    OBVIOUS
  <2>2. ASSUME NEW T \in {"Account", "UnhintedAccount", "Amount"}, NEW u, NEW tags, u = U1[T], tags = X1[T]
        PROVE  Proper(T, u, tags, tags)
    <3>1. DOMAIN u = {1} /\ Once(FieldsOf(u)) /\ ParametersProper(T, u)
      BY <2>2 DEF Plain, As, Once, FieldsOf, ParametersProper, Hows
    <3>2. DOMAIN tags.packer = {1} /\ Once(tags.packer) /\ tags.unpacker = tags.packer
      BY <2>2 DEF Both, Tags, Once
    <3>3. /\ T # "UnhintedAccount" => T \in Hinters
          /\ T \notin Facts /\ T \notin {"DocumentInventory", "AccountValue"}
      BY <2>2 DEF Hinters, OtherTypes, Facts
    <3>4. T \in Accounts => u = <<Plain("keys")>>
      BY <2>2 DEF Accounts
    <3> QED
      BY <3>1, <3>2, <3>3, <3>4 DEF Proper
  <2> HIDE DEF U1, X1
  <2> QED
    BY <2>1, <2>2 DEF Tables
<1>2. Tables(U2, X2, X2)
  <2>1. DOMAIN U2 = Operations /\ DOMAIN X2 = Operations
    OBVIOUS
  <2>2. ASSUME NEW T \in Operations, NEW u, NEW tags, u = U2[T], tags = X2[T]
        PROVE  Proper(T, u, tags, tags)
    <3>1. u = <<One("fact", Facts), Plain("signs")>> /\ tags = Both(<<"fact", "fact_signs">>)
      BY <2>2
    <3>2. DOMAIN u = {1, 2} /\ Once(FieldsOf(u))
      BY <3>1 DEF One, Plain, As, Once, FieldsOf
    <3>3. ParametersProper(T, u)
      <4>1. T \notin Facts \cup Inner
        BY DEF Operations, Facts, Inner, DataTypes, IdTypes
      <4>2. Facts \cap Accounts = {} /\ "AccountValue" \notin Facts
        BY DEF Facts, Accounts
      <4> QED
        BY <3>1, <4>1, <4>2 DEF ParametersProper, One, Plain, As, Hows
    <3>4. DOMAIN tags.packer = {1, 2} /\ Once(tags.packer) /\ tags.unpacker = tags.packer
      BY <3>1 DEF Both, Tags, Once
    <3>5. /\ T \in Hinters /\ T \notin Facts \cup Accounts
          /\ T \notin {"DocumentInventory", "AccountValue"}
      BY DEF Operations, Hinters, Facts, Accounts
    <3> QED
      BY <3>2, <3>3, <3>4, <3>5 DEF Proper
  <2> HIDE DEF U2, X2
  <2> QED
    BY <2>1, <2>2 DEF Tables
<1> HIDE DEF U1, U2, X1, X2
<1>3. Tables(U1 ++ U2, X1 ++ X2, X1 ++ X2)
  BY <1>1, <1>2, UnionRows
<1> QED
  BY <1>3 DEF U1, U2, X1, X2, CurrencyUnpack, CurrencyTags

\* Every type has a proper row.
LEMMA AllRows == Tables(Unpack, TagsOf.json, TagsOf.bson)
<1> DEFINE
     U1 == BlockSignUnpack ++ BlockCityUnpack ++ PartsUnpack ++ DocIdUnpack
     J1 == BlockSignJSON ++ BlockCityJSON ++ PartsJSON ++ DocIdJSON
     B1 == BlockSignBSON ++ BlockCityBSON ++ PartsBSON ++ DocIdBSON
     U2 == U1 ++ InventoryUnpack
     J2 == J1 ++ InventoryJSON
     B2 == B1 ++ InventoryBSON
     U3 == U2 ++ CreateFactUnpack ++ UpdateFactUnpack ++ SignFactUnpack
     J3 == J2 ++ CreateFactJSON ++ UpdateFactJSON ++ SignFactJSON
     B3 == B2 ++ CreateFactBSON ++ UpdateFactBSON ++ SignFactBSON
     U4 == U3 ++ CreateItemUnpack ++ UpdateItemUnpack ++ SignItemUnpack
     J4 == J3 ++ CreateItemJSON ++ UpdateItemJSON ++ SignItemJSON
     B4 == B3 ++ CreateItemBSON ++ UpdateItemBSON ++ SignItemBSON
     U5 == U4 ++ AccountValueUnpack ++ DocumentValueUnpack ++ OperationValueUnpack
     J5 == J4 ++ AccountValueJSON ++ DocumentValueJSON ++ OperationValueJSON
     B5 == B4 ++ AccountValueBSON ++ DocumentValueBSON ++ OperationValueBSON
     U6 == U5 ++ CurrencyUnpack
     J6 == J5 ++ CurrencyTags
     B6 == B5 ++ CurrencyTags
<1>1. Tables(U1, J1, B1)
  BY BlockSignRows, BlockCityRows, PartsRows, DocIdRows, UnionRowsOfThree
<1> HIDE DEF U1, J1, B1
<1>2. Tables(U2, J2, B2)
  BY <1>1, InventoryRows, UnionRows
<1> HIDE DEF U2, J2, B2
<1>3. Tables(U3, J3, B3)
  BY <1>2, FactRows, UnionRowsOfThree
<1> HIDE DEF U3, J3, B3
<1>4. Tables(U4, J4, B4)
  BY <1>3, ItemRows, UnionRowsOfThree
<1> HIDE DEF U4, J4, B4
<1>5. Tables(U5, J5, B5)
  BY <1>4, ValueRows, UnionRowsOfThree
<1> HIDE DEF U5, J5, B5
<1>6. Tables(U6, J6, B6)
  BY <1>5, CurrencyRows, UnionRows
<1> HIDE DEF U6, J6, B6
<1>7. Unpack = U6 /\ TagsOf.json = J6 /\ TagsOf.bson = B6
  BY DEF Unpack, TagsOf, U1, J1, B1, U2, J2, B2, U3, J3, B3, U4, J4, B4, U5, J5, B5, U6, J6, B6
<1> QED
  BY <1>6, <1>7

-----------------------------------------------------------------------------
(* What the encoders make of a value.                                       *)

\* An object with a hint and parts by these names, and no more.
Formed(o, T, fields) == o = [hint |-> T, parts |-> [f \in fields |-> o.parts[f]]]

\* What WellBuilt asks that every step keeps.
ShapedPart(v, part, arg) ==
  /\ arg.how \in {"one", "perhaps", "own"} => part.kind = "object"
  /\ \A j \in DOMAIN part.at : part.at[j] \in DOMAIN v /\ v[part.at[j]].hint \in arg.types
Shaped(v) ==
  /\ v = [p \in DOMAIN v |-> [hint |-> v[p].hint,
                              parts |-> [f \in Fields(v[p].hint) |-> v[p].parts[f]]]]
  /\ \A p \in DOMAIN v :
       /\ v[p].hint \in DOMAIN Unpack
       /\ \A i \in DOMAIN Unpack[v[p].hint] :
            ShapedPart(v, v[p].parts[Unpack[v[p].hint][i].field], Unpack[v[p].hint][i])

\* The parameters of unpack have the positions of their fields.
LEMMA Row ==
  ASSUME NEW T \in DOMAIN Unpack
  PROVE  /\ Proper(T, Unpack[T], TagsOf.json[T], TagsOf.bson[T])
         /\ \A i \in DOMAIN Unpack[T] :
              Unpack[T][i].field \in Fields(T) /\ Parameter(T, Unpack[T][i].field) = i
         /\ \A f \in Fields(T) :
              Parameter(T, f) \in DOMAIN Unpack[T] /\ Unpack[T][Parameter(T, f)].field = f
<1>1. Proper(T, Unpack[T], TagsOf.json[T], TagsOf.bson[T])
  BY AllRows DEF Tables
<1>2. \A i, j \in DOMAIN Unpack[T] : Unpack[T][i].field = Unpack[T][j].field => i = j
  BY <1>1 DEF Proper, Once, FieldsOf
<1>3. \A f \in Fields(T) :
        Parameter(T, f) \in DOMAIN Unpack[T] /\ Unpack[T][Parameter(T, f)].field = f
  BY DEF Fields, Parameter
<1>4. \A i \in DOMAIN Unpack[T] : Unpack[T][i].field \in Fields(T)
  BY DEF Fields
<1> QED
  BY <1>1, <1>2, <1>3, <1>4

\* An account with its hint and one without have the same one field.
LEMMA AccountRows ==
  /\ \A T \in Accounts : T \in DOMAIN Unpack /\ Unpack[T] = <<Plain("keys")>>
  /\ "UnhintedAccount" \notin Hinters
  /\ \A T \in DOMAIN Unpack :
       /\ HintRead("json", T) \in DOMAIN Unpack
       /\ Unpack[HintRead("json", T)] = Unpack[T] /\ Fields(HintRead("json", T)) = Fields(T)
<1>0. ASSUME NEW f, NEW g PROVE DOMAIN (f ++ g) = DOMAIN f \cup DOMAIN g
  <2>1. DOMAIN Merge(f, g) = DOMAIN f \cup DOMAIN g
    BY DEF Merge
  <2> QED
    BY <2>1 DEF ++
<1>1. Accounts \subseteq DOMAIN CurrencyUnpack
  BY <1>0 DEF Accounts, CurrencyUnpack
<1>2. DOMAIN CurrencyUnpack \subseteq DOMAIN Unpack
  BY <1>0 DEF Unpack
<1>3. \A T \in Accounts : T \in DOMAIN Unpack /\ Unpack[T] = <<Plain("keys")>>
  BY <1>1, <1>2, Row DEF Proper
<1>4. "UnhintedAccount" \notin Hinters
  BY DEF Hinters, DataTypes, IdTypes, Facts, Operations, OtherTypes
<1>5. ASSUME NEW T \in DOMAIN Unpack
      PROVE  /\ HintRead("json", T) \in DOMAIN Unpack
             /\ Unpack[HintRead("json", T)] = Unpack[T]
  BY <1>3 DEF HintRead, Accounts
<1> QED
  BY <1>3, <1>4, <1>5 DEF Fields

\* Every key of an encoded object has what the field at its position had.
LEMMA Encoded ==
  ASSUME NEW enc \in Encoders, NEW v, NEW p \in DOMAIN v, v[p].hint \in DOMAIN Unpack
  PROVE  LET key == TagsOf[enc][v[p].hint].packer
             object == Encode(enc, v)[p]
         IN  /\ DOMAIN key = DOMAIN Unpack[v[p].hint] /\ Once(key)
             /\ Formed(object, v[p].hint, Range(key))
             /\ \A i \in DOMAIN key :
                  /\ key[i] \in Range(key)
                  /\ object.parts[key[i]] = v[p].parts[Unpack[v[p].hint][i].field]
<1> DEFINE key == TagsOf[enc][v[p].hint].packer
           Position(k) == CHOOSE i \in DOMAIN key : key[i] = k
           object == Encode(enc, v)[p]
<1>1. DOMAIN key = DOMAIN Unpack[v[p].hint] /\ Once(key)
  BY Row DEF Encoders, Proper
<1>2. object = [hint |-> v[p].hint,
                parts |-> [k \in Range(key) |-> v[p].parts[Unpack[v[p].hint][Position(k)].field]]]
  BY DEF Encode, Packed
<1> HIDE DEF object
<1>3. ASSUME NEW i \in DOMAIN key
      PROVE  key[i] \in Range(key) /\ Position(key[i]) = i
  <2>1. key[i] \in Range(key)
    BY DEF Range
  <2>2. Position(key[i]) \in DOMAIN key /\ key[Position(key[i])] = key[i]
    OBVIOUS
  <2> QED
    BY <1>1, <2>1, <2>2 DEF Once
<1> HIDE DEF key, Position
<1>4. /\ Formed(object, v[p].hint, Range(key))
      /\ \A i \in DOMAIN key : key[i] \in Range(key)
           /\ object.parts[key[i]] = v[p].parts[Unpack[v[p].hint][i].field]
  BY <1>2, <1>3 DEF Formed
<1> QED
  BY <1>1, <1>4 DEF key, object

\* BSON reads an account by its hint.
Readable(enc, v) == enc = "json" \/ \A p \in DOMAIN v : v[p].hint # "UnhintedAccount"

\* An object that was written and read is as it was, but for an inventory and an
\* account in JSON.
LEMMA Decoded ==
  ASSUME NEW enc \in Encoders, NEW v, Shaped(v), Readable(enc, v), NEW p \in DOMAIN v
  PROVE  Decode(enc, Encode(enc, v))[p] = IF enc = "json" THEN FromJSON(v)[p] ELSE v[p]
<1> DEFINE e == Encode(enc, v)
           T == v[p].hint
           key == TagsOf[enc][T].packer
           read == TagsOf[enc][T].unpacker
           Argument(i) ==
             IF read[i] \in DOMAIN e[p].parts
             THEN Asserted(enc, e, Unpack[T][i], e[p].parts[read[i]])
             ELSE Absent(Unpack[T][i].how)
<1>1. T \in DOMAIN Unpack /\ DOMAIN e = DOMAIN v
  BY DEF Shaped, Encode
<1>2. /\ DOMAIN key = DOMAIN Unpack[T] /\ Once(key)
      /\ e[p].hint = T /\ DOMAIN e[p].parts = Range(key)
      /\ \A i \in DOMAIN key : key[i] \in Range(key)
           /\ e[p].parts[key[i]] = v[p].parts[Unpack[T][i].field]
  <2>1. /\ DOMAIN key = DOMAIN Unpack[T] /\ Once(key) /\ Formed(e[p], T, Range(key))
        /\ \A i \in DOMAIN key : key[i] \in Range(key)
             /\ e[p].parts[key[i]] = v[p].parts[Unpack[T][i].field]
    BY <1>1, Encoded
  <2> HIDE DEF e, T, key
  <2>2. e[p].hint = T /\ DOMAIN e[p].parts = Range(key)
    BY <2>1 DEF Formed
  <2> QED
    BY <2>1, <2>2
<1>3. \A q \in DOMAIN v :
        /\ e[q].hint = v[q].hint
        /\ v[q].hint # "UnhintedAccount" => v[q].hint \in Hinters
  <2>1. \A q \in DOMAIN v : e[q].hint = v[q].hint
    BY DEF Encode, Packed
  <2>2. \A q \in DOMAIN v : v[q].hint \in DOMAIN Unpack
    BY DEF Shaped
  <2> QED
    BY <2>1, <2>2, Row DEF Proper
<1>4. Decode(enc, e)[p] = [hint |-> HintRead(enc, T),
                            parts |-> [f \in Fields(T) |-> Argument(Parameter(T, f))]]
  BY <1>1, <1>2 DEF Decode
<1>5. v[p] = [hint |-> T, parts |-> [f \in Fields(T) |-> v[p].parts[f]]]
  BY DEF Shaped
<1>6. FromJSON(v)[p] =
        IF T = "DocumentInventory" THEN [v[p] EXCEPT !.parts.docInfos = List(<<>>)]
        ELSE IF T = "Account" THEN [v[p] EXCEPT !.hint = "UnhintedAccount"] ELSE v[p]
  BY DEF FromJSON
<1>7. CASE ~(enc = "json" /\ T = "DocumentInventory")
  <2>1. read = key
    BY <1>1, <1>7, Row DEF Encoders, Proper
  <2>2. ASSUME NEW f \in Fields(T)
        PROVE  Argument(Parameter(T, f)) = v[p].parts[f]
    <3> DEFINE i == Parameter(T, f)
               arg == Unpack[T][i]
               part == v[p].parts[f]
    <3>1. i \in DOMAIN Unpack[T] /\ arg.field = f
      BY <1>1, Row
    <3>2. Argument(i) = Asserted(enc, e, arg, part)
      BY <1>2, <2>1, <3>1
    <3>3. ShapedPart(v, part, arg)
      BY <3>1 DEF Shaped
    <3>4. arg.how # "own" => "UnhintedAccount" \notin arg.types
      BY <1>1, <3>1, Row DEF Proper, ParametersProper, Accounts
    <3> HIDE DEF i, arg, part, e
    <3>5. Asserted(enc, e, arg, part) = part
      <4>1. CASE arg.how = "own" /\ enc = "json"
        BY <4>1 DEF Asserted
      <4>2. CASE ~(arg.how = "own" /\ enc = "json")
        <5>1. \A j \in DOMAIN part.at : v[part.at[j]].hint # "UnhintedAccount"
          BY <3>3, <3>4, <4>2 DEF ShapedPart, Readable
        <5> QED
          BY <1>3, <3>3, <5>1 DEF Asserted, ShapedPart
      <4> QED
        BY <4>1, <4>2
    <3> QED
      BY <3>2, <3>5 DEF i, part
  <2> HIDE DEF Argument, e, T
  <2>3. [f \in Fields(T) |-> Argument(Parameter(T, f))] = [f \in Fields(T) |-> v[p].parts[f]]
    BY <2>2
  <2>4. Decode(enc, e)[p] = [hint |-> HintRead(enc, T), parts |-> v[p].parts]
    BY <1>4, <1>5, <2>3
  <2>5. CASE enc = "json" /\ T = "Account"
    BY <1>5, <1>6, <2>4, <2>5 DEF HintRead, e
  <2>6. CASE ~(enc = "json" /\ T = "Account")
    <3>1. Decode(enc, e)[p] = v[p]
      BY <1>5, <2>4, <2>6 DEF HintRead
    <3> QED
      BY <1>6, <1>7, <2>6, <3>1 DEF e
  <2> QED
    BY <2>5, <2>6
<1>8. CASE enc = "json" /\ T = "DocumentInventory"
  <2>1. /\ DOMAIN Unpack[T] = {1} /\ Unpack[T][1].field = "docInfos" /\ Unpack[T][1].how = "many"
        /\ read[1] # key[1]
    BY <1>1, <1>8, Row DEF Proper
  <2>2. Fields(T) = {"docInfos"} /\ Parameter(T, "docInfos") = 1
    BY <1>1, <2>1, Row DEF Fields
  <2>3. Range(key) = {key[1]}
    BY <1>2, <2>1 DEF Range
  <2>4. Argument(1) = List(<<>>)
    BY <1>2, <2>1, <2>3 DEF Absent
  <2> HIDE DEF Argument, e, T
  <2>5. Decode(enc, e)[p] = [hint |-> T, parts |-> [f \in {"docInfos"} |-> List(<<>>)]]
    BY <1>4, <1>8, <2>2, <2>4 DEF HintRead
  <2>6. [v[p] EXCEPT !.parts.docInfos = List(<<>>)]
          = [hint |-> T, parts |-> [f \in {"docInfos"} |-> List(<<>>)]]
    BY <1>5, <2>2
  <2> QED
    BY <1>8, <1>6, <2>5, <2>6 DEF e
<1> QED
  BY <1>7, <1>8

\* Every object of a value is read as it was written, so the value is.
LEMMA RoundTrip ==
  ASSUME NEW enc \in Encoders, NEW v, Shaped(v), Readable(enc, v)
  PROVE  Decode(enc, Encode(enc, v)) = IF enc = "json" THEN FromJSON(v) ELSE v
<1>1. v = [p \in DOMAIN v |-> v[p]]
  BY DEF Shaped
<1>2. DOMAIN Decode(enc, Encode(enc, v)) = DOMAIN v
  BY DEF Decode, Encode
<1>3. Decode(enc, Encode(enc, v)) = [p \in DOMAIN v |-> Decode(enc, Encode(enc, v))[p]]
  BY <1>2 DEF Decode
<1>4. CASE enc = "json"
  <2>1. \A p \in DOMAIN v : Decode(enc, Encode(enc, v))[p] = FromJSON(v)[p]
    BY <1>4, Decoded
  <2>2. FromJSON(v) = [p \in DOMAIN v |-> FromJSON(v)[p]]
    BY DEF FromJSON
  <2> QED
    BY <1>3, <1>4, <2>1, <2>2
<1>5. CASE enc # "json"
  <2>1. \A p \in DOMAIN v : Decode(enc, Encode(enc, v))[p] = v[p]
    BY <1>5, Decoded
  <2> QED
    BY <1>1, <1>3, <1>5, <2>1
<1> QED
  BY <1>4, <1>5

-----------------------------------------------------------------------------
(* The values that were built, what JSON leaves of them, and what one       *)
(* altered leaf makes of them.                                              *)

\* The names of leaves that stand for a case are apart.
LEMMA Marks ==
  /\ Nothing \notin {Undecodable, TooBig, Sealed}
  /\ Other \notin {Nothing, Undecodable, TooBig, Sealed}
BY DEF Nothing, Undecodable, TooBig, Sealed, Other

\* A value that is well built has the shape, and every part of it was decoded.
LEMMA Built ==
  ASSUME NEW v \in Values
  PROVE  /\ Shaped(v)
         /\ Root \in DOMAIN v /\ v[Root].hint \in Roots
         /\ \A p \in DOMAIN v : \A k \in DOMAIN v[p].parts : v[p].parts[k].leaf # Undecodable
<1>1. /\ WellBuilt(v)
      /\ \A p \in DOMAIN v : /\ v[p].hint \in DOMAIN Unpack
                             /\ \A i \in DOMAIN Unpack[v[p].hint] :
                                  WellBuiltPart(v, p, Unpack[v[p].hint][i])
  BY ValuesAssumption DEF WellBuilt
<1>2. ASSUME NEW p \in DOMAIN v, NEW arg, WellBuiltPart(v, p, arg), arg.how \in Hows,
             NEW part, part = v[p].parts[arg.field]
      PROVE  ShapedPart(v, part, arg) /\ part.leaf # Undecodable
  <2>1. \A j \in DOMAIN part.at : part.at[j] \in DOMAIN v /\ v[part.at[j]].hint \in arg.types
    BY <1>2 DEF WellBuiltPart, Range
  <2>2. CASE arg.how \in {"one", "perhaps", "own"}
    <3>1. part = Object(Below(p, arg.field, 1))
      BY <1>2, <2>2 DEF WellBuiltPart
    <3> QED
      BY <2>1, <3>1, Marks DEF ShapedPart, Object
  <2>3. CASE arg.how = "many"
    <3>1. part = List([j \in 1 .. Len(part.at) |-> Below(p, arg.field, j)])
      BY <1>2, <2>3 DEF WellBuiltPart
    <3>2. part.leaf = Nothing
      BY <3>1 DEF List
    <3>3. part.leaf # Undecodable
      BY <3>2, Marks
    <3> QED
      BY <2>1, <2>3, <3>3 DEF ShapedPart
  <2>4. CASE arg.how \in {"plain", "uint"}
    <3>1. part.leaf # Undecodable
      BY <1>2, <2>4 DEF WellBuiltPart
    <3> QED
      BY <2>1, <2>4, <3>1 DEF ShapedPart
  <2> QED
    BY <1>2, <2>2, <2>3, <2>4 DEF Hows
<1>3. \A p \in DOMAIN v : \A i \in DOMAIN Unpack[v[p].hint] : Unpack[v[p].hint][i].how \in Hows
  BY <1>1, Row DEF Proper, ParametersProper
<1>4. Shaped(v)
  BY <1>1, <1>2, <1>3 DEF Shaped, WellBuilt
<1>5. \A p \in DOMAIN v : \A k \in DOMAIN v[p].parts : v[p].parts[k].leaf # Undecodable
  <2> SUFFICES ASSUME NEW p \in DOMAIN v, NEW k \in DOMAIN v[p].parts
               PROVE  v[p].parts[k].leaf # Undecodable
    OBVIOUS
  <2>1. k \in Fields(v[p].hint)
    BY <1>1 DEF WellBuilt
  <2>2. PICK i \in DOMAIN Unpack[v[p].hint] : Unpack[v[p].hint][i].field = k
    BY <2>1 DEF Fields
  <2> QED
    BY <1>1, <1>2, <1>3, <2>2
<1> QED
  BY <1>1, <1>4, <1>5 DEF WellBuilt

\* What JSON leaves of a value keeps its shape, and JSON leaves all of it the next time.
LEMMA FromJSONShaped ==
  ASSUME NEW v, Shaped(v)
  PROVE  /\ Shaped(FromJSON(v)) /\ FromJSON(FromJSON(v)) = FromJSON(v)
         /\ DOMAIN FromJSON(v) = DOMAIN v
         /\ \A p \in DOMAIN v :
              /\ FromJSON(v)[p].hint = HintRead("json", v[p].hint)
              /\ \A f \in Fields(v[p].hint) :
                   FromJSON(v)[p].parts[f] =
                     IF v[p].hint = "DocumentInventory" /\ f = "docInfos"
                     THEN List(<<>>) ELSE v[p].parts[f]
<1> DEFINE w == FromJSON(v)
<1>1. \A p \in DOMAIN v : /\ v[p].hint \in DOMAIN Unpack
        /\ v[p] = [hint |-> v[p].hint, parts |-> [f \in Fields(v[p].hint) |-> v[p].parts[f]]]
  BY DEF Shaped
<1>2. w = [p \in DOMAIN v |->
             [hint |-> HintRead("json", v[p].hint),
              parts |-> [f \in Fields(v[p].hint) |->
                           IF v[p].hint = "DocumentInventory" /\ f = "docInfos"
                           THEN List(<<>>) ELSE v[p].parts[f]]]]
  <2>1. ASSUME NEW p \in DOMAIN v
        PROVE  w[p] = [hint |-> HintRead("json", v[p].hint),
                       parts |-> [f \in Fields(v[p].hint) |->
                                    IF v[p].hint = "DocumentInventory" /\ f = "docInfos"
                                    THEN List(<<>>) ELSE v[p].parts[f]]]
    <3>1. CASE v[p].hint = "DocumentInventory"
      <4>1. w[p] = [v[p] EXCEPT !.parts.docInfos = List(<<>>)]
        BY <3>1 DEF FromJSON
      <4> HIDE DEF w
      <4> QED
        BY <1>1, <3>1, <4>1 DEF HintRead
    <3>2. CASE v[p].hint = "Account"
      <4>1. w[p] = [v[p] EXCEPT !.hint = "UnhintedAccount"]
        BY <3>2 DEF FromJSON
      <4> HIDE DEF w
      <4> QED
        BY <1>1, <3>2, <4>1 DEF HintRead
    <3>3. CASE v[p].hint \notin {"DocumentInventory", "Account"}
      <4>1. w[p] = v[p]
        BY <3>3 DEF FromJSON
      <4> HIDE DEF w
      <4> QED
        BY <1>1, <3>3, <4>1 DEF HintRead
    <3> QED
      BY <3>1, <3>2, <3>3
  <2>2. w = [p \in DOMAIN v |-> w[p]]
    BY DEF FromJSON
  <2> HIDE DEF w
  <2> QED
    BY <2>1, <2>2
<1> HIDE DEF w
<1>3. DOMAIN w = DOMAIN v
  BY <1>2
<1>4. \A p \in DOMAIN v :
        /\ w[p].hint = HintRead("json", v[p].hint) /\ DOMAIN w[p].parts = Fields(v[p].hint)
        /\ w[p] = [hint |-> w[p].hint, parts |-> [f \in Fields(v[p].hint) |-> w[p].parts[f]]]
        /\ \A f \in Fields(v[p].hint) :
             w[p].parts[f] = IF v[p].hint = "DocumentInventory" /\ f = "docInfos"
                             THEN List(<<>>) ELSE v[p].parts[f]
  BY <1>2
<1>5. \A p \in DOMAIN v : /\ w[p].hint \in DOMAIN Unpack /\ Fields(w[p].hint) = Fields(v[p].hint)
                          /\ Unpack[w[p].hint] = Unpack[v[p].hint]
  BY <1>1, <1>4, AccountRows
<1>6. Shaped(w)
  <2>1. w = [p \in DOMAIN w |-> [hint |-> w[p].hint,
                                 parts |-> [f \in Fields(w[p].hint) |-> w[p].parts[f]]]]
    <3>1. w = [p \in DOMAIN w |-> w[p]]
      BY <1>2
    <3> QED
      BY <1>3, <1>4, <1>5, <3>1
  <2>2. ASSUME NEW p \in DOMAIN w, NEW i \in DOMAIN Unpack[w[p].hint],
               NEW arg, arg = Unpack[w[p].hint][i], NEW part, part = w[p].parts[arg.field]
        PROVE  ShapedPart(w, part, arg)
    <3>1. p \in DOMAIN v /\ v[p].hint \in DOMAIN Unpack
          /\ i \in DOMAIN Unpack[v[p].hint] /\ arg = Unpack[v[p].hint][i]
      BY <1>1, <1>3, <1>5, <2>2
    <3>2. arg.field \in Fields(v[p].hint)
      BY <3>1, Row
    <3>3. CASE v[p].hint = "DocumentInventory" /\ arg.field = "docInfos"
      <4>1. part = List(<<>>)
        BY <1>4, <2>2, <3>1, <3>2, <3>3
      <4>2. arg.how = "many"
        BY <3>1, <3>3, Row DEF Proper
      <4> QED
        BY <4>1, <4>2 DEF List, ShapedPart
    <3>4. CASE ~(v[p].hint = "DocumentInventory" /\ arg.field = "docInfos")
      <4>1. part = v[p].parts[arg.field]
        BY <1>4, <2>2, <3>1, <3>2, <3>4
      <4>2. ShapedPart(v, part, arg)
        BY <3>1, <4>1 DEF Shaped
      <4>3. /\ arg.how = "own" => arg.types = Accounts
            /\ arg.how # "own" => arg.types \cap Accounts = {}
        BY <3>1, Row DEF Proper, ParametersProper
      <4>4. \A T \in arg.types : HintRead("json", T) \in arg.types
        BY <4>3 DEF HintRead, Accounts
      <4> QED
        BY <1>3, <1>4, <4>2, <4>4 DEF ShapedPart
    <3> QED
      BY <3>3, <3>4
  <2>3. \A p \in DOMAIN w : w[p].hint \in DOMAIN Unpack
    BY <1>3, <1>5
  <2> QED
    BY <2>1, <2>2, <2>3 DEF Shaped
<1>7. FromJSON(w) = w
  <2>1. ASSUME NEW p \in DOMAIN w, w[p].hint = "DocumentInventory"
        PROVE  [w[p] EXCEPT !.parts.docInfos = List(<<>>)] = w[p]
    <3>1. v[p].hint = "DocumentInventory"
      BY <1>3, <1>4, <2>1 DEF HintRead
    <3>2. /\ w[p] = [hint |-> w[p].hint, parts |-> [f \in Fields(v[p].hint) |-> w[p].parts[f]]]
          /\ "docInfos" \in Fields(v[p].hint) => w[p].parts.docInfos = List(<<>>)
      BY <1>3, <1>4, <3>1
    <3> QED
      BY <3>2
  <2>2. \A p \in DOMAIN w : w[p].hint # "Account"
    BY <1>3, <1>4 DEF HintRead
  <2>3. w = [p \in DOMAIN w |-> w[p]]
    BY <1>2, <1>3
  <2> QED
    BY <2>1, <2>2, <2>3 DEF FromJSON
<1> QED
  BY <1>3, <1>4, <1>6, <1>7 DEF w

\* An altered value differs in one leaf, and has the shape that it had.
LEMMA AlteredShaped ==
  ASSUME NEW v, Shaped(v), NEW w \in Altered(v)
  PROVE  /\ w # v /\ Shaped(w) /\ DOMAIN w = DOMAIN v
         /\ \E p \in Reached(v) : \E f \in DOMAIN v[p].parts :
              /\ v[p].parts[f].kind = "leaf" /\ v[p].parts[f].leaf # Other
              /\ \A q \in DOMAIN v :
                   /\ w[q].hint = v[q].hint /\ DOMAIN w[q].parts = DOMAIN v[q].parts
                   /\ \A g \in DOMAIN v[q].parts :
                        w[q].parts[g] = IF q = p /\ g = f THEN Leaf(Other) ELSE v[q].parts[g]
<1>1. PICK p \in Reached(v) : \E f \in DOMAIN v[p].parts :
        /\ v[p].parts[f].kind = "leaf" /\ v[p].parts[f].leaf # Other
        /\ w = [v EXCEPT ![p].parts[f] = Leaf(Other)]
  BY DEF Altered
<1>2. PICK f \in DOMAIN v[p].parts :
        /\ v[p].parts[f].kind = "leaf" /\ v[p].parts[f].leaf # Other
        /\ w = [v EXCEPT ![p].parts[f] = Leaf(Other)]
  BY <1>1
<1>3. p \in DOMAIN v
  BY DEF Reached
<1>4. \A q \in DOMAIN v : /\ v[q].hint \in DOMAIN Unpack
        /\ v[q] = [hint |-> v[q].hint, parts |-> [g \in Fields(v[q].hint) |-> v[q].parts[g]]]
        /\ DOMAIN v[q].parts = Fields(v[q].hint)
  BY DEF Shaped
<1>5. /\ DOMAIN w = DOMAIN v /\ w = [q \in DOMAIN v |-> w[q]]
      /\ \A q \in DOMAIN v \ {p} : w[q] = v[q]
      /\ w[p] = [v[p] EXCEPT !.parts[f] = Leaf(Other)]
  <2>1. v = [q \in DOMAIN v |-> v[q]]
    BY DEF Shaped
  <2> QED
    BY <1>2, <1>3, <2>1
<1>6. w[p] = [hint |-> v[p].hint,
              parts |-> [g \in Fields(v[p].hint) |-> IF g = f THEN Leaf(Other) ELSE v[p].parts[g]]]
  BY <1>3, <1>4, <1>5
<1>7. \A q \in DOMAIN v :
        /\ w[q].hint = v[q].hint /\ DOMAIN w[q].parts = DOMAIN v[q].parts
        /\ w[q] = [hint |-> w[q].hint, parts |-> [g \in Fields(w[q].hint) |-> w[q].parts[g]]]
        /\ \A g \in DOMAIN v[q].parts :
             w[q].parts[g] = IF q = p /\ g = f THEN Leaf(Other) ELSE v[q].parts[g]
  BY <1>3, <1>4, <1>5, <1>6
<1>8. Shaped(w)
  <2>1. w = [q \in DOMAIN w |-> [hint |-> w[q].hint,
                                 parts |-> [g \in Fields(w[q].hint) |-> w[q].parts[g]]]]
    BY <1>5, <1>7
  <2>2. ASSUME NEW q \in DOMAIN w, NEW i \in DOMAIN Unpack[w[q].hint],
               NEW arg, arg = Unpack[w[q].hint][i], NEW part, part = w[q].parts[arg.field]
        PROVE  ShapedPart(w, part, arg)
    <3> DEFINE old == v[q].parts[arg.field]
    <3>1. w[q].hint = v[q].hint /\ q \in DOMAIN v
      BY <1>5, <1>7, <2>2
    <3>2. arg.field \in DOMAIN v[q].parts
      BY <1>4, <2>2, <3>1, Row
    <3>3. ShapedPart(v, old, arg)
      BY <2>2, <3>1 DEF Shaped
    <3> HIDE DEF old
    <3>4. CASE q = p /\ arg.field = f
      <4>1. part = Leaf(Other) /\ old.kind = "leaf"
        BY <1>2, <1>7, <2>2, <3>1, <3>2, <3>4 DEF old
      <4> QED
        BY <3>3, <4>1 DEF Leaf, ShapedPart
    <3>5. CASE ~(q = p /\ arg.field = f)
      <4>1. part = old
        BY <1>7, <2>2, <3>1, <3>2, <3>5 DEF old
      <4> QED
        BY <1>5, <1>7, <3>3, <4>1 DEF ShapedPart
    <3> QED
      BY <3>4, <3>5
  <2>3. \A q \in DOMAIN w : w[q].hint \in DOMAIN Unpack
    BY <1>4, <1>5, <1>7
  <2> QED
    BY <2>1, <2>2, <2>3 DEF Shaped
<1>9. w # v
  <2>1. w[p].parts[f] = Leaf(Other)
    BY <1>2, <1>3, <1>7
  <2>2. v[p].parts[f] # Leaf(Other)
    BY <1>2 DEF Leaf
  <2> QED
    BY <2>1, <2>2
<1> QED
  BY <1>2, <1>5, <1>7, <1>8, <1>9

\* Encoded and then altered is altered and then encoded.
LEMMA AlteredEncoded ==
  ASSUME NEW enc \in Encoders, NEW v, Shaped(v), Reached(v) = DOMAIN v,
         NEW x \in Altered(Encode(enc, v))
  PROVE  \E w \in Altered(v) : x = Encode(enc, w)
<1> DEFINE e == Encode(enc, v)
<1>1. DOMAIN e = DOMAIN v /\ e = [q \in DOMAIN v |-> e[q]]
  BY DEF Encode
<1>2. \A q \in DOMAIN v : v[q].hint \in DOMAIN Unpack
  BY DEF Shaped
<1>3. PICK p \in Reached(e) : \E k \in DOMAIN e[p].parts :
        /\ e[p].parts[k].kind = "leaf" /\ e[p].parts[k].leaf # Other
        /\ x = [e EXCEPT ![p].parts[k] = Leaf(Other)]
  BY DEF Altered
<1>4. PICK k \in DOMAIN e[p].parts :
        /\ e[p].parts[k].kind = "leaf" /\ e[p].parts[k].leaf # Other
        /\ x = [e EXCEPT ![p].parts[k] = Leaf(Other)]
  BY <1>3
<1>5. p \in DOMAIN v
  BY <1>1 DEF Reached
<1> DEFINE T == v[p].hint
           key == TagsOf[enc][T].packer
<1>6. /\ DOMAIN key = DOMAIN Unpack[T] /\ Once(key)
      /\ Formed(e[p], T, Range(key))
      /\ \A i \in DOMAIN key : e[p].parts[key[i]] = v[p].parts[Unpack[T][i].field]
  BY <1>2, <1>5, Encoded
<1>7. PICK i \in DOMAIN key : key[i] = k
  <2> HIDE DEF e, T, key
  <2> QED
    BY <1>6 DEF Formed, Range
<1> DEFINE f == Unpack[T][i].field
           w == [v EXCEPT ![p].parts[f] = Leaf(Other)]
<1>8. f \in Fields(T) /\ \A j \in DOMAIN key : Unpack[T][j].field = f => j = i
  BY <1>2, <1>5, <1>6, Row
<1>9. /\ v = [q \in DOMAIN v |-> v[q]]
      /\ v[p] = [hint |-> T, parts |-> [g \in Fields(T) |-> v[p].parts[g]]]
  BY <1>5 DEF Shaped
<1>10. /\ DOMAIN w = DOMAIN v /\ \A q \in DOMAIN v \ {p} : w[q] = v[q]
       /\ w[p] = [hint |-> T,
                  parts |-> [g \in Fields(T) |-> IF g = f THEN Leaf(Other) ELSE v[p].parts[g]]]
  BY <1>5, <1>9
<1>11. w \in Altered(v)
  <2>1. /\ v[p].parts[f].kind = "leaf" /\ v[p].parts[f].leaf # Other
        /\ f \in DOMAIN v[p].parts /\ p \in Reached(v)
    BY <1>4, <1>5, <1>6, <1>7, <1>8, <1>9
  <2> DEFINE At(q) == {[v EXCEPT ![q].parts[m] = Leaf(Other)] :
                         m \in {g \in DOMAIN v[q].parts :
                                 v[q].parts[g].kind = "leaf" /\ v[q].parts[g].leaf # Other}}
  <2> HIDE DEF f
  <2>2. w \in At(p)
    BY <2>1
  <2>3. Altered(v) = UNION {At(q) : q \in Reached(v)}
    BY DEF Altered
  <2> HIDE DEF At, w
  <2> QED
    BY <2>1, <2>2, <2>3
<1>12. x = Encode(enc, w)
  <2>1. /\ DOMAIN x = DOMAIN v /\ x = [q \in DOMAIN v |-> x[q]]
        /\ \A q \in DOMAIN v \ {p} : x[q] = e[q]
        /\ x[p] = [hint |-> T,
                   parts |-> [m \in Range(key) |-> IF m = k THEN Leaf(Other) ELSE e[p].parts[m]]]
    <3> HIDE DEF e, T, key
    <3> QED
      BY <1>1, <1>4, <1>5, <1>6 DEF Formed
  <2>2. /\ DOMAIN Encode(enc, w) = DOMAIN v
        /\ Encode(enc, w) = [q \in DOMAIN v |-> Encode(enc, w)[q]]
    BY <1>10 DEF Encode
  <2>3. ASSUME NEW q \in DOMAIN v \ {p} PROVE Encode(enc, w)[q] = x[q]
    <3>1. w[q] = v[q] /\ q \in DOMAIN w
      BY <1>10
    <3> HIDE DEF w
    <3>2. Encode(enc, w)[q] = e[q]
      BY <3>1 DEF Encode
    <3> QED
      BY <2>1, <3>2
  <2>4. Encode(enc, w)[p] = x[p]
    <3>1. w[p].hint = T /\ p \in DOMAIN w
          /\ \A g \in Fields(T) : w[p].parts[g] = IF g = f THEN Leaf(Other) ELSE v[p].parts[g]
      BY <1>5, <1>10
    <3> HIDE DEF w
    <3>2. /\ Formed(Encode(enc, w)[p], T, Range(key))
          /\ \A j \in DOMAIN key : Encode(enc, w)[p].parts[key[j]] = w[p].parts[Unpack[T][j].field]
      BY <1>2, <1>5, <3>1, Encoded
    <3>3. ASSUME NEW m \in Range(key)
          PROVE  Encode(enc, w)[p].parts[m] = IF m = k THEN Leaf(Other) ELSE e[p].parts[m]
      <4>1. PICK j \in DOMAIN key : key[j] = m
        BY DEF Range
      <4>2. Unpack[T][j].field \in Fields(T)
        BY <1>2, <1>5, <1>6, Row
      <4>3. m = k <=> Unpack[T][j].field = f
        BY <1>6, <1>7, <1>8, <4>1 DEF Once
      <4> HIDE DEF e, f, key, T
      <4> QED
        BY <1>6, <3>1, <3>2, <4>1, <4>2, <4>3
    <3> HIDE DEF e, f, key, T
    <3> QED
      BY <2>1, <3>2, <3>3 DEF Formed
  <2> HIDE DEF w
  <2> QED
    BY <2>1, <2>2, <2>3, <2>4
<1> QED
  BY <1>11, <1>12

\* An object that is not the root is in a part of the object one step above it.
LEMMA Parent ==
  ASSUME NEW v \in Values, NEW p \in DOMAIN v, p # Root
  PROVE  LET r == SubSeq(p, 1, Len(p) - 1)
         IN  /\ Len(p) \in Nat \ {0} /\ Len(r) = Len(p) - 1 /\ r \in DOMAIN v
             /\ v[r].hint \in DOMAIN Unpack
             /\ \E i \in DOMAIN Unpack[v[r].hint] : v[p].hint \in Unpack[v[r].hint][i].types
<1> DEFINE n == Len(p)
           r == SubSeq(p, 1, n - 1)
<1>1. /\ DOMAIN v \subseteq Seq(STRING \X Nat) /\ Reached(v) = DOMAIN v
      /\ \A q \in DOMAIN v :
           /\ v[q].hint \in DOMAIN Unpack /\ DOMAIN v[q].parts = Fields(v[q].hint)
           /\ \A i \in DOMAIN Unpack[v[q].hint] : WellBuiltPart(v, q, Unpack[v[q].hint][i])
  BY ValuesAssumption DEF WellBuilt
<1>2. /\ p \in Seq(STRING \X Nat) /\ n \in Nat \ {0}
      /\ SubSeq(p, 1, n) = p /\ Len(r) = n - 1
  <2>1. p \in Seq(STRING \X Nat) /\ p # <<>>
    BY <1>1 DEF Root
  <2>2. Len(p) \in Nat /\ Len(p) # 0
    BY <2>1
  <2>3. SubSeq(p, 1, Len(p)) = p
    BY <2>1
  <2>4. Len(SubSeq(p, 1, Len(p) - 1)) = Len(p) - 1
    <3>1. PICK m \in Nat : Len(p) = m + 1
      <4>1. Len(p) - 1 \in Nat /\ Len(p) = (Len(p) - 1) + 1
        BY <2>2
      <4> QED
        BY <4>1
    <3>2. Len(SubSeq(p, 1, m)) = m
      BY <2>1, <3>1
    <3>3. Len(p) - 1 = m
      BY <3>1
    <3> QED
      BY <3>2, <3>3
  <2> QED
    BY <2>1, <2>2, <2>3, <2>4
<1>3. r \in DOMAIN v /\ \E k \in DOMAIN v[r].parts : p \in Range(v[r].parts[k].at)
  <2>1. p \in Reached(v)
    BY <1>1
  <2>2. \A i \in 1 .. Len(p) :
          /\ SubSeq(p, 1, i - 1) \in DOMAIN v
          /\ \E k \in DOMAIN v[SubSeq(p, 1, i - 1)].parts :
               SubSeq(p, 1, i) \in Range(v[SubSeq(p, 1, i - 1)].parts[k].at)
    BY <2>1 DEF Reached
  <2>3. n \in 1 .. Len(p)
    BY <1>2
  <2>4. \E k \in DOMAIN v[r].parts : SubSeq(p, 1, n) \in Range(v[r].parts[k].at)
    BY <2>2, <2>3
  <2> QED
    BY <1>2, <2>2, <2>3, <2>4
<1> HIDE DEF n, r
<1>4. PICK i \in DOMAIN Unpack[v[r].hint] : p \in Range(v[r].parts[Unpack[v[r].hint][i].field].at)
  <2>1. PICK k \in Fields(v[r].hint) : p \in Range(v[r].parts[k].at)
    BY <1>1, <1>3
  <2> QED
    BY <2>1 DEF Fields
<1>5. v[p].hint \in Unpack[v[r].hint][i].types
  BY <1>1, <1>3, <1>4 DEF WellBuiltPart
<1>6. v[r].hint \in DOMAIN Unpack
  BY <1>1, <1>3
<1> QED
  BY <1>2, <1>3, <1>5, <1>6 DEF n, r

\* The parts of a fact are of the types that are inner ones: no fact, no inventory
\* and no account.
LEMMA InsideFact ==
  ASSUME NEW v \in Values, IsFact(v), NEW p \in DOMAIN v
  PROVE  p # Root => v[p].hint \in Inner
<1> DEFINE Within(q) == (q = Root /\ v[q].hint \in Facts) \/ (q # Root /\ v[q].hint \in Inner)
           S == {n \in Nat : \A q \in DOMAIN v : Len(q) = n => Within(q)}
<1>1. 0 \in S
  <2> SUFFICES ASSUME NEW q \in DOMAIN v, Len(q) = 0 PROVE Within(q)
    OBVIOUS
  <2>1. q = Root
    BY Parent
  <2> QED
    BY <2>1 DEF IsFact
<1>2. ASSUME NEW n \in Nat, n \in S PROVE n + 1 \in S
  <2> SUFFICES ASSUME NEW q \in DOMAIN v, Len(q) = n + 1 PROVE Within(q)
    OBVIOUS
  <2> DEFINE r == SubSeq(q, 1, Len(q) - 1)
  <2>1. q # Root
    BY DEF Root
  <2>2. /\ Len(r) = Len(q) - 1 /\ r \in DOMAIN v /\ v[r].hint \in DOMAIN Unpack
        /\ \E i \in DOMAIN Unpack[v[r].hint] : v[q].hint \in Unpack[v[r].hint][i].types
    BY <2>1, Parent
  <2> HIDE DEF r
  <2>3. v[r].hint \in Facts \cup Inner
    <3>1. Len(r) = n
      BY <2>2
    <3> QED
      BY <1>2, <2>2, <3>1
  <2>4. \A i \in DOMAIN Unpack[v[r].hint] : Unpack[v[r].hint][i].types \subseteq Inner
    BY <2>2, <2>3, Row DEF Proper, ParametersProper
  <2> QED
    BY <2>1, <2>2, <2>4
<1> HIDE DEF S
<1>3. Nat \subseteq S
  BY <1>1, <1>2, Induction
<1>4. Len(p) \in Nat
  BY Parent DEF Root
<1> QED
  BY <1>3, <1>4 DEF S

\* Only an account value has an account inside, and it is the whole value.
LEMMA AccountInside ==
  ASSUME NEW v \in Values, NEW p \in DOMAIN v, v[p].hint = "Account"
  PROVE  v[Root].hint = "AccountValue"
<1> DEFINE r == SubSeq(p, 1, Len(p) - 1)
<1>1. p # Root
  <2>1. v[Root].hint \in Roots /\ "Account" \notin Roots
    BY Built DEF Roots, Facts
  <2> QED
    BY <2>1
<1>2. /\ r \in DOMAIN v /\ v[r].hint \in DOMAIN Unpack
      /\ \E i \in DOMAIN Unpack[v[r].hint] : v[p].hint \in Unpack[v[r].hint][i].types
  BY <1>1, Parent
<1> HIDE DEF r
<1>3. v[r].hint = "AccountValue"
  BY <1>2, Row DEF Proper, ParametersProper, Accounts
<1>4. r = Root
  <2> SUFFICES ASSUME r # Root PROVE FALSE
    OBVIOUS
  <2> DEFINE s == SubSeq(r, 1, Len(r) - 1)
  <2>1. /\ s \in DOMAIN v /\ v[s].hint \in DOMAIN Unpack
        /\ \E i \in DOMAIN Unpack[v[s].hint] : v[r].hint \in Unpack[v[s].hint][i].types
    BY <1>2, Parent
  <2> HIDE DEF s
  <2> QED
    BY <1>3, <2>1, Row DEF Proper, ParametersProper
<1> QED
  BY <1>3, <1>4

\* So JSON loses nothing of a fact.
LEMMA NothingInFactLost ==
  ASSUME NEW v \in Values, IsFact(v), NEW w, Shaped(w),
         DOMAIN w = DOMAIN v, \A p \in DOMAIN v : w[p].hint = v[p].hint
  PROVE  FromJSON(w) = w
<1>1. {"DocumentInventory", "Account"} \cap (Facts \cup Inner) = {}
  BY DEF Facts, Inner, DataTypes, IdTypes
<1>2. \A p \in DOMAIN w : w[p].hint \notin {"DocumentInventory", "Account"}
  BY <1>1, InsideFact DEF IsFact
<1>3. w = [p \in DOMAIN w |-> w[p]]
  BY DEF Shaped
<1> QED
  BY <1>2, <1>3 DEF FromJSON


-----------------------------------------------------------------------------
(* The steps.  Carried, of any value and at any time, is Carry.             *)

Carry(v, alter, json) ==
  IF alter THEN Altered(v) ELSE {IF json THEN FromJSON(v) ELSE v}

\* The values that come of one have its shape, and its objects at its places.
LEMMA CarriedShaped ==
  ASSUME NEW v \in Values, NEW alter \in BOOLEAN, NEW json \in BOOLEAN,
         NEW w \in Carry(v, alter, json)
  PROVE  /\ Shaped(w) /\ DOMAIN w = DOMAIN v
         /\ \A p \in DOMAIN v :
              /\ alter => w[p].hint = v[p].hint
              /\ w[p].hint = v[p].hint \/ (json /\ w[p].hint = HintRead("json", v[p].hint))
              /\ DOMAIN w[p].parts = Fields(v[p].hint)
<1>1. Shaped(v)
  BY Built
<1>2. /\ Shaped(w) /\ DOMAIN w = DOMAIN v
      /\ \A p \in DOMAIN v :
           /\ alter => w[p].hint = v[p].hint
           /\ w[p].hint = v[p].hint \/ (json /\ w[p].hint = HintRead("json", v[p].hint))
  <2>1. CASE alter
    BY <1>1, <2>1, AlteredShaped DEF Carry
  <2>2. CASE ~alter
    <3>1. w = IF json THEN FromJSON(v) ELSE v
      BY <2>2 DEF Carry
    <3> QED
      BY <1>1, <2>2, <3>1, FromJSONShaped
  <2> QED
    BY <2>1, <2>2
<1>3. \A p \in DOMAIN v : /\ v[p].hint \in DOMAIN Unpack
                          /\ DOMAIN w[p].parts = Fields(w[p].hint)
  BY <1>1, <1>2 DEF Shaped
<1>4. \A p \in DOMAIN v : Fields(w[p].hint) = Fields(v[p].hint)
  BY <1>2, <1>3, AccountRows
<1> QED
  BY <1>2, <1>3, <1>4

\* Written and read, such a value is such a value, unless it is the account value
\* of which the next lemma tells.
LEMMA Reread ==
  ASSUME NEW v \in Values, NEW alter \in BOOLEAN, NEW json \in BOOLEAN, alter => IsFact(v),
         NEW w \in Carry(v, alter, json), NEW enc \in Encoders,
         enc = "json" \/ ~json \/ v[Root].hint # "AccountValue"
  PROVE  Decode(enc, Encode(enc, w)) \in Carry(v, alter, json \/ enc = "json")
<1>1. /\ Shaped(v) /\ Shaped(w) /\ DOMAIN w = DOMAIN v
      /\ \A p \in DOMAIN v :
           /\ alter => w[p].hint = v[p].hint
           /\ w[p].hint = v[p].hint \/ (json /\ w[p].hint = HintRead("json", v[p].hint))
  BY Built, CarriedShaped
<1>2. Readable(enc, w)
  <2> SUFFICES ASSUME enc # "json", NEW p \in DOMAIN v, w[p].hint = "UnhintedAccount"
               PROVE  FALSE
    BY <1>1 DEF Readable
  <2>1. v[p].hint # "UnhintedAccount"
    BY ValuesAssumption DEF WellBuilt
  <2>2. json /\ v[p].hint = "Account"
    BY <1>1, <2>1 DEF HintRead
  <2> QED
    BY <2>2, AccountInside
<1>3. Decode(enc, Encode(enc, w)) = IF enc = "json" THEN FromJSON(w) ELSE w
  BY <1>1, <1>2, RoundTrip
<1>4. CASE alter
  <2>1. FromJSON(w) = w
    BY <1>1, <1>4, NothingInFactLost
  <2> QED
    BY <1>3, <1>4, <2>1 DEF Carry
<1>5. CASE ~alter
  <2>1. w = IF json THEN FromJSON(v) ELSE v
    BY <1>5 DEF Carry
  <2>2. FromJSON(FromJSON(v)) = FromJSON(v)
    BY <1>1, FromJSONShaped
  <2> QED
    BY <1>3, <1>5, <2>1, <2>2 DEF Carry
<1> QED
  BY <1>4, <1>5

\* BSON cannot read the account of an account value that was once JSON.
LEMMA AccountUnread ==
  ASSUME NEW v \in Values, v[Root].hint = "AccountValue"
  PROVE  Undecodable \in Leaves(Decode("bson", Encode("bson", FromJSON(v))))
<1> DEFINE T == "AccountValue"
           w == FromJSON(v)
           e == Encode("bson", w)
           d == Decode("bson", e)
           key == TagsOf.bson[T].packer
<1>1. /\ Shaped(v) /\ Root \in DOMAIN v /\ T \in DOMAIN Unpack
      /\ \A p \in DOMAIN v : v[p].hint # "UnhintedAccount"
      /\ \A i \in DOMAIN Unpack[T] : WellBuiltPart(v, Root, Unpack[T][i])
  BY Built, ValuesAssumption DEF WellBuilt
<1>2. /\ DOMAIN w = DOMAIN v /\ w[Root].hint = T
      /\ \A p \in DOMAIN v : w[p].hint = HintRead("json", v[p].hint)
      /\ \A f \in Fields(T) : w[Root].parts[f] = v[Root].parts[f]
  BY <1>1, FromJSONShaped DEF HintRead
<1>3. PICK i \in DOMAIN Unpack[T] : Unpack[T][i].how = "own" /\ Unpack[T][i].types = Accounts
  BY <1>1, Row DEF Proper, ParametersProper
<1> DEFINE arg == Unpack[T][i]
           q == Below(Root, arg.field, 1)
<1>4. arg.field \in Fields(T) /\ Parameter(T, arg.field) = i
  BY <1>1, <1>3, Row
<1>5. w[Root].parts[arg.field] = Object(q) /\ q \in DOMAIN v /\ v[q].hint \in Accounts
  <2>1. WellBuiltPart(v, Root, arg)
    BY <1>1, <1>3
  <2>2. v[Root].parts[arg.field] = Object(q)
    BY <1>3, <2>1 DEF WellBuiltPart
  <2>3. q \in Range(v[Root].parts[arg.field].at)
    BY <2>2 DEF Object, Range
  <2>4. q \in DOMAIN v /\ v[q].hint \in arg.types
    BY <2>1, <2>3 DEF WellBuiltPart
  <2> QED
    BY <1>2, <1>3, <1>4, <2>2, <2>4
<1>6. w[q].hint = "UnhintedAccount"
  BY <1>1, <1>2, <1>5 DEF Accounts, HintRead
<1>7. /\ DOMAIN key = DOMAIN Unpack[T] /\ e[Root].hint = T /\ DOMAIN e[Root].parts = Range(key)
      /\ key[i] \in Range(key) /\ e[Root].parts[key[i]] = w[Root].parts[arg.field]
      /\ TagsOf.bson[T].unpacker = key
  <2>1. "bson" \in Encoders
    BY DEF Encoders
  <2>2. /\ DOMAIN key = DOMAIN Unpack[T] /\ Formed(e[Root], T, Range(key))
        /\ \A j \in DOMAIN key : /\ key[j] \in Range(key)
                                 /\ e[Root].parts[key[j]] = w[Root].parts[Unpack[T][j].field]
    BY <1>1, <1>2, <2>1, Encoded
  <2>3. TagsOf.bson[T].unpacker = key
    BY <1>1, Row DEF Proper
  <2> HIDE DEF e, key
  <2> QED
    BY <1>3, <2>2, <2>3 DEF Formed
<1>8. DOMAIN e = DOMAIN v /\ DOMAIN d = DOMAIN v /\ e[q].hint = "UnhintedAccount"
  BY <1>2, <1>5, <1>6 DEF Encode, Packed, Decode
<1>9. Asserted("bson", e, arg, Object(q)) = Leaf(Undecodable)
  <2>1. e[Object(q).at[1]].hint \notin Hinters /\ 1 \in DOMAIN Object(q).at
    BY <1>8, AccountRows DEF Object
  <2> HIDE DEF e, q, arg
  <2> QED
    BY <1>3, <2>1 DEF Asserted, arg
<1>10. arg.field \in DOMAIN d[Root].parts /\ d[Root].parts[arg.field] = Leaf(Undecodable)
  BY <1>1, <1>4, <1>5, <1>7, <1>8, <1>9 DEF Decode
<1>11. Root \in Reached(d)
  BY <1>1, <1>8 DEF Reached, Root
<1> HIDE DEF d
<1>12. Undecodable \in Leaves(d)
  BY <1>10, <1>11 DEF Leaves, Leaf
<1> QED
  BY <1>12 DEF d

\* It has no leaf that was not there, but for the one that was altered.
LEMMA LeavesKept ==
  ASSUME NEW v \in Values, NEW alter \in BOOLEAN, NEW json \in BOOLEAN,
         NEW w \in Carry(v, alter, json), NEW x \in Leaves(w), x \notin {Nothing, Other}
  PROVE  x \in Leaves(v)
<1>1. Shaped(v) /\ Reached(v) = DOMAIN v
  BY Built, ValuesAssumption DEF WellBuilt
<1>2. DOMAIN w = DOMAIN v /\ \A p \in DOMAIN v : DOMAIN w[p].parts = Fields(v[p].hint)
  BY CarriedShaped
<1>3. PICK p \in DOMAIN v : \E k \in DOMAIN w[p].parts : w[p].parts[k].leaf = x
  BY <1>2 DEF Leaves, Reached
<1>4. PICK k \in DOMAIN w[p].parts : w[p].parts[k].leaf = x
  BY <1>3
<1>5. DOMAIN w[p].parts = Fields(v[p].hint) /\ DOMAIN v[p].parts = Fields(v[p].hint)
  BY <1>1, <1>2 DEF Shaped
<1>6. v[p].parts[k].leaf = x
  <2>1. CASE alter
    <3>1. w[p].parts[k] \in {Leaf(Other), v[p].parts[k]}
      BY <1>1, <1>4, <1>5, <2>1, AlteredShaped DEF Carry
    <3> QED
      BY <1>4, <3>1 DEF Leaf
  <2>2. CASE ~alter
    <3>1. w = v \/ w = FromJSON(v)
      BY <2>2 DEF Carry
    <3>2. w[p].parts[k] \in {List(<<>>), v[p].parts[k]}
      BY <1>1, <1>4, <1>5, <3>1, FromJSONShaped
    <3>3. List(<<>>).leaf = Nothing
      BY DEF List
    <3> QED
      BY <1>4, <3>2, <3>3
  <2> QED
    BY <2>1, <2>2
<1> QED
  BY <1>1, <1>4, <1>5, <1>6 DEF Leaves

\* Its outermost object has a hinter, and none of its parts failed to be decoded.
LEMMA AlwaysRead ==
  ASSUME NEW v \in Values, NEW alter \in BOOLEAN, NEW json \in BOOLEAN,
         NEW w \in Carry(v, alter, json)
  PROVE  /\ Root \in DOMAIN w /\ w[Root].hint = v[Root].hint /\ w[Root].hint \in Hinters
         /\ Undecodable \notin Leaves(w)
<1>1. Shaped(v) /\ Root \in DOMAIN v
  BY Built
<1>2. DOMAIN w = DOMAIN v /\ w[Root].hint = v[Root].hint
  <2>1. v[Root].hint # "Account"
    BY Built DEF Roots, Facts
  <2> QED
    BY <1>1, <2>1, CarriedShaped DEF HintRead
<1>3. v[Root].hint \in Hinters
  <2>1. v[Root].hint # "UnhintedAccount"
    BY <1>1, ValuesAssumption DEF WellBuilt
  <2> QED
    BY <1>1, <2>1, Row DEF Shaped, Proper
<1>4. Undecodable \notin Leaves(v)
  BY Built DEF Leaves, Reached
<1>5. Undecodable \notin {Nothing, Other}
  BY Marks
<1> QED
  BY <1>1, <1>2, <1>3, <1>4, <1>5, LeavesKept

\* One leaf of a fact was altered: the hash it has is not the hash of what it is.
LEMMA AlteredRefused ==
  ASSUME origin \in Values, IsFact(origin), NEW w \in Altered(origin)
  PROVE  w[Root].parts.h.leaf # GenerateHash(w)
<1> DEFINE v == origin
<1>1. /\ Shaped(v) /\ Reached(v) = DOMAIN v /\ Root \in DOMAIN v
      /\ \A q \in DOMAIN v : v[q].hint \in DOMAIN Unpack /\ DOMAIN v[q].parts = Fields(v[q].hint)
  BY Built, ValuesAssumption DEF WellBuilt
<1>2. PICK p \in DOMAIN v : \E f \in DOMAIN v[p].parts :
        /\ v[p].parts[f].leaf # Other
        /\ \A q \in DOMAIN v :
             /\ DOMAIN w[q].parts = DOMAIN v[q].parts
             /\ \A g \in DOMAIN v[q].parts :
                  w[q].parts[g] = IF q = p /\ g = f THEN Leaf(Other) ELSE v[q].parts[g]
  BY <1>1, AlteredShaped
<1>3. PICK f \in DOMAIN v[p].parts :
        /\ v[p].parts[f].leaf # Other
        /\ \A q \in DOMAIN v :
             /\ DOMAIN w[q].parts = DOMAIN v[q].parts
             /\ \A g \in DOMAIN v[q].parts :
                  w[q].parts[g] = IF q = p /\ g = f THEN Leaf(Other) ELSE v[q].parts[g]
  BY <1>2
<1>4. "h" \in DOMAIN v[Root].parts /\ v[Root].parts["h"] = Leaf(Sealed)
  <2>1. PICK i \in DOMAIN Unpack[v[Root].hint] : Unpack[v[Root].hint][i].field = "h"
    BY <1>1, Row DEF IsFact, Proper
  <2>2. WellBuiltPart(v, Root, Unpack[v[Root].hint][i])
    BY <1>1, ValuesAssumption DEF WellBuilt
  <2>3. v[Root].parts["h"] = Leaf(Sealed)
    BY <2>1, <2>2 DEF WellBuiltPart
  <2>4. "h" \in Fields(v[Root].hint)
    BY <2>1 DEF Fields
  <2> QED
    BY <1>1, <2>3, <2>4
<1>5. Leaf(Other).leaf = Other /\ Leaf(Sealed).leaf = Sealed
  BY DEF Leaf
<1>6. GenerateHash(w) \in {Sealed, Nothing}
  BY DEF GenerateHash
<1>7. CASE f = "h"
  <2>1. p = Root
    <3>1. PICK i \in DOMAIN Unpack[v[p].hint] : Unpack[v[p].hint][i].field = "h"
      BY <1>1, <1>7 DEF Fields
    <3>2. v[p].hint \in Facts
      BY <1>1, <3>1, Row DEF Proper, ParametersProper
    <3>3. Facts \cap Inner = {}
      BY DEF Facts, Inner, DataTypes, IdTypes
    <3> QED
      BY <3>2, <3>3, InsideFact
  <2>2. w[Root].parts["h"] = Leaf(Other)
    BY <1>1, <1>3, <1>4, <1>7, <2>1
  <2> QED
    BY <1>5, <1>6, <2>2, Marks
<1>8. CASE f # "h"
  <2>1. w[Root].parts["h"].leaf = Sealed
    BY <1>1, <1>3, <1>4, <1>5, <1>8
  <2>2. Bytes(w) # Bytes(v)
    <3> SUFFICES ASSUME Bytes(w) = Bytes(v) PROVE FALSE
      OBVIOUS
    <3>1. DOMAIN Bytes(w) = Reached(w) /\ DOMAIN Bytes(v) = Reached(v)
      BY DEF Bytes
    <3>2. p \in Reached(w) /\ p \in Reached(v)
      BY <1>1, <3>1
    <3>3. Bytes(v)[p] = [g \in DOMAIN v[p].parts \ Unhashed |-> v[p].parts[g]]
      BY <3>2 DEF Bytes
    <3>4. Bytes(w)[p] = [g \in DOMAIN w[p].parts \ Unhashed |-> w[p].parts[g]]
      BY <3>2 DEF Bytes
    <3>5. f \in DOMAIN v[p].parts \ Unhashed /\ f \in DOMAIN w[p].parts \ Unhashed
      BY <1>3, <1>8 DEF Unhashed
    <3>6. w[p].parts[f] = v[p].parts[f]
      BY <3>3, <3>4, <3>5
    <3>7. w[p].parts[f] = Leaf(Other)
      BY <1>3
    <3> QED
      BY <1>3, <1>5, <3>6, <3>7
  <2>3. GenerateHash(w) = Nothing
    BY <2>2 DEF GenerateHash
  <2> QED
    BY <2>1, <2>3, Marks
<1> QED
  BY <1>7, <1>8

\* A value in memory is the one that was built.
LEMMA InitCInv == Init => CInv
BY DEF Init, CInv, Carried, Kept, Encoders, AcceptedAsBuilt, OnlyNumbersAndAccountsFail

\* What CInv says of the value, and what it takes to say it of the next one.
LEMMA CInvCarries ==
  ASSUME CInv, form # "failed"
  PROVE  \E w \in Carry(origin, altered, fromJSON) :
           value = IF form = "memory" THEN w ELSE Encode(form, w)
BY DEF CInv, Carried, Kept, Carry

LEMMA NextCarries ==
  ASSUME NEW w \in Carry(origin', altered', fromJSON'),
         value' = IF form' = "memory" THEN w ELSE Encode(form', w)
  PROVE  \E u \in Carried' : value' = IF form' = "memory" THEN u ELSE Encode(form', u)
BY DEF Carried, Kept, Carry

\* Writing a value keeps the invariant.
LEMMA MarshalCInv ==
  ASSUME CInv, NEW enc \in Encoders, Marshal(enc)
  PROVE  CInv'
<1> DEFINE Now == Carry(origin, altered, fromJSON)
<1>1. /\ form = "memory" /\ form' = enc /\ value' = Encode(enc, value)
      /\ UNCHANGED <<origin, fromJSON, altered, verdict>>
  BY DEF Marshal
<1>2. enc \notin {"memory", "failed"}
  BY DEF Encoders
<1>3. value \in Now
  BY <1>1, CInvCarries
<1>4. value \in Carry(origin', altered', fromJSON')
  BY <1>1, <1>3
<1>5. \E w \in Carried' : value' = IF form' = "memory" THEN w ELSE Encode(form', w)
  BY <1>1, <1>2, <1>4, NextCarries
<1>6. AcceptedAsBuilt' /\ OnlyNumbersAndAccountsFail'
  BY <1>1, <1>2 DEF AcceptedAsBuilt, OnlyNumbersAndAccountsFail
<1>7. IsFact(origin') = IsFact(origin)
  BY <1>1
<1> QED
  BY <1>1, <1>5, <1>6, <1>7 DEF CInv, IsFact

\* Only a number that is too big cannot be written.
LEMMA MarshalFailsCInv ==
  ASSUME CInv, NEW enc \in Encoders, MarshalFails(enc)
  PROVE  CInv'
<1>1. /\ form = "memory" /\ form' = "failed" /\ ~Encodable(enc, value)
      /\ UNCHANGED <<origin, value, fromJSON, altered, verdict>>
  BY DEF MarshalFails
<1>2. value \in Carry(origin, altered, fromJSON)
  BY <1>1, CInvCarries
<1>3. TooBig \in Leaves(value)
  BY <1>1 DEF Encodable
<1>4. TooBig \notin {Nothing, Other}
  BY Marks
<1>5. origin \in Values /\ altered \in BOOLEAN /\ fromJSON \in BOOLEAN
  BY DEF CInv
<1>6. TooBig \in Leaves(origin)
  BY <1>2, <1>3, <1>4, <1>5, LeavesKept
<1>7. AcceptedAsBuilt' /\ OnlyNumbersAndAccountsFail'
  BY <1>1, <1>6 DEF AcceptedAsBuilt, OnlyNumbersAndAccountsFail
<1> QED
  BY <1>1, <1>7 DEF CInv, IsFact

\* Whatever was written is read, but for the account value that was once JSON.
LEMMA UnmarshalCInv ==
  ASSUME CInv, NEW enc \in Encoders, Unmarshal(enc)
  PROVE  CInv'
<1> DEFINE v == Decode(enc, value)
<1>1. origin \in Values /\ altered \in BOOLEAN /\ fromJSON \in BOOLEAN
      /\ (altered => IsFact(origin))
  BY DEF CInv
<1>2. form = enc /\ enc \notin {"memory", "failed"}
  BY DEF Unmarshal, Encoders
<1>3. PICK w \in Carry(origin, altered, fromJSON) : value = Encode(enc, w)
  BY <1>2, CInvCarries
<1>4. /\ verdict' = "none" /\ fromJSON' = (fromJSON \/ enc = "json")
      /\ UNCHANGED <<origin, altered>> /\ fromJSON' \in BOOLEAN
  BY <1>1 DEF Unmarshal
<1>5. CASE enc # "json" /\ fromJSON /\ origin[Root].hint = "AccountValue"
  <2>1. enc = "bson" /\ ~altered
    BY <1>1, <1>5 DEF Encoders, IsFact, Facts
  <2>2. Undecodable \in Leaves(v)
    BY <1>1, <1>3, <1>5, <2>1, AccountUnread DEF Carry
  <2>3. form' = "failed"
    BY <2>2 DEF Unmarshal
  <2>4. AcceptedAsBuilt' /\ OnlyNumbersAndAccountsFail'
    BY <1>4, <1>5, <2>3 DEF AcceptedAsBuilt, OnlyNumbersAndAccountsFail
  <2> QED
    BY <1>1, <1>4, <2>3, <2>4 DEF CInv, IsFact
<1>6. CASE ~(enc # "json" /\ fromJSON /\ origin[Root].hint = "AccountValue")
  <2>1. v \in Carry(origin, altered, fromJSON \/ enc = "json")
    BY <1>1, <1>3, <1>6, Reread
  <2>2. Undecodable \notin Leaves(v)
    BY <1>1, <2>1, AlwaysRead
  <2>3. value[Root].hint \in Hinters
    BY <1>1, <1>3, AlwaysRead DEF Encode, Packed
  <2>4. form' = "memory" /\ value' = v
    BY <2>2, <2>3 DEF Unmarshal
  <2> HIDE DEF v
  <2>5. v \in Carry(origin', altered', fromJSON')
    BY <1>4, <2>1
  <2>6. \E u \in Carried' : value' = IF form' = "memory" THEN u ELSE Encode(form', u)
    BY <2>4, <2>5, NextCarries
  <2>7. AcceptedAsBuilt' /\ OnlyNumbersAndAccountsFail'
    BY <1>4, <2>4 DEF AcceptedAsBuilt, OnlyNumbersAndAccountsFail
  <2> QED
    BY <1>1, <1>4, <2>4, <2>6, <2>7 DEF CInv, IsFact
<1> QED
  BY <1>5, <1>6

\* A leaf that is altered in the JSON form is a leaf of the fact altered.
LEMMA AlterCInv ==
  ASSUME CInv, Alter
  PROVE  CInv'
<1>1. /\ form = "json" /\ IsFact(value) /\ ~altered /\ altered' = TRUE
      /\ value' \in Altered(value) /\ UNCHANGED <<origin, form, fromJSON, verdict>>
  BY DEF Alter
<1>2. origin \in Values /\ altered \in BOOLEAN /\ fromJSON \in BOOLEAN /\ "json" \in Encoders
  BY DEF CInv, Encoders
<1>3. PICK w \in Carry(origin, altered, fromJSON) : value = Encode("json", w)
  BY <1>1, CInvCarries
<1>4. Shaped(origin) /\ Reached(origin) = DOMAIN origin
  BY <1>2, Built, ValuesAssumption DEF WellBuilt
<1>5. IsFact(origin)
  <2>1. Root \in DOMAIN w /\ w[Root].hint = origin[Root].hint
    BY <1>2, AlwaysRead
  <2> QED
    BY <1>1, <1>3, <2>1 DEF IsFact, Encode, Packed
<1>6. w = origin
  <2>1. FromJSON(origin) = origin
    BY <1>2, <1>4, <1>5, NothingInFactLost
  <2> QED
    BY <1>1, <2>1 DEF Carry
<1>7. PICK u \in Altered(origin) : value' = Encode("json", u)
  BY <1>1, <1>2, <1>3, <1>4, <1>6, AlteredEncoded
<1>8. \E x \in Carried' : value' = IF form' = "memory" THEN x ELSE Encode(form', x)
  <2>1. u \in Carry(origin', altered', fromJSON')
    BY <1>1 DEF Carry
  <2> QED
    BY <1>1, <1>7, <2>1, NextCarries
<1>9. AcceptedAsBuilt' /\ OnlyNumbersAndAccountsFail'
  BY <1>1 DEF AcceptedAsBuilt, OnlyNumbersAndAccountsFail
<1> QED
  BY <1>1, <1>2, <1>5, <1>8, <1>9 DEF CInv, IsFact

\* A fact whose hash is that of its contents is the one that was built.
LEMMA IsValidCInv ==
  ASSUME CInv, IsValid
  PROVE  CInv'
<1>1. /\ form = "memory" /\ IsFact(value)
      /\ verdict' = IF value[Root].parts.h.leaf = GenerateHash(value)
                    THEN "accepted" ELSE "refused"
      /\ UNCHANGED <<origin, value, form, fromJSON, altered>>
  BY DEF IsValid
<1>2. origin \in Values /\ altered \in BOOLEAN /\ fromJSON \in BOOLEAN
      /\ (altered => IsFact(origin))
  BY DEF CInv
<1>3. value \in Carry(origin, altered, fromJSON)
  BY <1>1, CInvCarries
<1>4. ASSUME verdict' = "accepted" PROVE value = origin
  <2>1. value[Root].parts.h.leaf = GenerateHash(value)
    BY <1>1, <1>4
  <2>2. ~altered
    <3> SUFFICES ASSUME altered PROVE FALSE
      OBVIOUS
    <3>1. value \in Altered(origin) /\ IsFact(origin)
      BY <1>2, <1>3 DEF Carry
    <3> QED
      BY <1>2, <2>1, <3>1, AlteredRefused
  <2>3. IsFact(origin)
    BY <1>1, <1>2, <1>3, AlwaysRead DEF IsFact
  <2>4. FromJSON(origin) = origin
    BY <1>2, <2>3, Built, NothingInFactLost
  <2> QED
    BY <1>3, <2>2, <2>4 DEF Carry
<1>5. AcceptedAsBuilt' /\ OnlyNumbersAndAccountsFail'
  BY <1>1, <1>4 DEF AcceptedAsBuilt, OnlyNumbersAndAccountsFail
<1>6. Carried' = Carried
  BY <1>1 DEF Carried, Kept
<1> QED
  BY <1>1, <1>5, <1>6 DEF CInv, IsFact

\* Every step keeps the invariant.
LEMMA NextCInv == CInv /\ [Next]_vars => CInv'
<1> SUFFICES ASSUME CInv, [Next]_vars PROVE CInv'
  OBVIOUS
<1>1. CASE \E enc \in Encoders : Marshal(enc) \/ MarshalFails(enc) \/ Unmarshal(enc)
  BY <1>1, MarshalCInv, MarshalFailsCInv, UnmarshalCInv
<1>2. CASE Alter
  BY <1>2, AlterCInv
<1>3. CASE IsValid
  BY <1>3, IsValidCInv
<1>4. CASE UNCHANGED vars
  <2>1. UNCHANGED <<origin, value, form, fromJSON, altered, verdict>>
    BY <1>4 DEF vars
  <2>2. Carried' = Carried
    BY <2>1 DEF Carried, Kept
  <2>3. AcceptedAsBuilt' /\ OnlyNumbersAndAccountsFail'
    BY <2>1 DEF CInv, AcceptedAsBuilt, OnlyNumbersAndAccountsFail
  <2> QED
    BY <2>1, <2>2, <2>3 DEF CInv, IsFact
<1> QED
  BY <1>1, <1>2, <1>3, <1>4 DEF Next

\* The inductive invariant, of every set of values that are well built: in memory
\* a value is what was built, less the documents of its inventories and the hint of
\* its account once it was JSON, or a fact with one leaf altered; encoded, it is what
\* the encoder makes of that (the packers and unpackers of document_json.go,
\* document_bson.go, account_value_json.go and the others).
THEOREM Invariance == Spec => []CInv
<1>1. Init => CInv
  BY InitCInv
<1>2. CInv /\ [Next]_vars => CInv'
  BY NextCInv
<1> QED
  BY <1>1, <1>2, PTL DEF Spec

\* Any value, however large and however often it is written and read by either
\* encoder, has every hint and every field that it had, but for the documents of an
\* inventory that was once JSON (DocumentInventory.UnpackJSON reads "address") and
\* the hint of an account that was (AccountValue.unpack fills a new account).
THEOREM ContentsKept == Spec => []ContentKept
<1>1. CInv => ContentKept
  BY DEF CInv, ContentKept, Carried, Kept, Encoders
<1> QED
  BY <1>1, Invariance, PTL

\* Writing fails only for a number that BSON cannot hold, and reading only for an
\* account value that was once JSON: any other type that a value can have inside has
\* its hinter (hinters.go).
THEOREM OnlyNumbersAndAccountsLost == Spec => []OnlyNumbersAndAccountsFail
<1>1. CInv => OnlyNumbersAndAccountsFail
  BY DEF CInv
<1> QED
  BY <1>1, Invariance, PTL

\* No leaf of a fact of any size is altered unnoticed: IsValid, which compares the
\* hash with that of Bytes, accepts the fact that was built and no other.
THEOREM OnlyBuiltAccepted == Spec => []AcceptedAsBuilt
<1>1. CInv => AcceptedAsBuilt
  BY DEF CInv
<1> QED
  BY <1>1, Invariance, PTL
=============================================================================
