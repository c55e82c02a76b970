---------------------------- MODULE MCDocuments ----------------------------
(***************************************************************************)
(* Instances of Documents for TLC: two accounts of the first block and a   *)
(* third address that create-accounts can make, two document ids and one   *)
(* currency with a fee.                                                    *)
(***************************************************************************)
EXTENDS Documents, TLC

MCAccounts == {"alice", "bob", "carol"}
MCKeys == {"ka", "kb", "kc"}
MCDocIds == {"d1sdi", "d2cui"}
MCCurrencies == {"MCC", "PEN"}
MCFee == [c \in {"MCC"} |-> 1]

KeysOf(ks, t) == [weight |-> [k \in MCKeys |-> IF k \in ks THEN 50 ELSE 0], threshold |-> t]

MCGenesis ==
  [account |-> ("alice" :> KeysOf({"ka", "kc"}, 100)) @@ ("bob" :> KeysOf({"kb"}, 50))
               @@ ("carol" :> NoAccount),
   held    |-> [a \in MCAccounts |-> IF a = "carol" THEN {} ELSE {"MCC"}],
   balance |-> [a \in MCAccounts |-> [c \in MCCurrencies |->
                  CASE a = "alice" /\ c = "MCC" -> 7
                    [] a = "bob" /\ c = "MCC"   -> 6
                    [] OTHER                    -> 0]]]

AliceSigns == {"ka", "kc"}
BobSigns == {"kb"}

BSDoc(owner, signers, signed) ==
  [type |-> "blocksign", owner |-> owner, creator |-> owner, signers |-> signers, signed |-> signed]
UserDoc(owner) ==
  [type |-> "user", owner |-> owner, creator |-> owner, signers |-> {}, signed |-> {}]

DocItems(D) == [d \in DOMAIN D |-> [doc |-> D[d], cid |-> "MCC"]]
SignItems(D, owner) == [d \in D |-> [owner |-> owner, cid |-> "MCC"]]

Both == {"alice", "bob"}

Creates ==
  \* alice registers a document for herself and bob to sign
  "createA1" :> [kind |-> "create", sender |-> "alice", signs |-> AliceSigns,
                 items |-> DocItems("d1sdi" :> BSDoc("alice", Both, {}))]
  \* alice registers both documents
  @@ "createA12" :> [kind |-> "create", sender |-> "alice", signs |-> AliceSigns,
                     items |-> DocItems(("d1sdi" :> BSDoc("alice", Both, {"alice"}))
                                        @@ ("d2cui" :> UserDoc("alice")))]
  \* alice registers the other one
  @@ "createA2" :> [kind |-> "create", sender |-> "alice", signs |-> AliceSigns,
                    items |-> DocItems("d2cui" :> UserDoc("alice"))]
  \* bob registers the same document, with alice as its owner
  @@ "createB1" :> [kind |-> "create", sender |-> "bob", signs |-> BobSigns,
                    items |-> DocItems("d1sdi" :> BSDoc("alice", {"bob"}, {}))]

Signs ==
  "signA1" :> [kind |-> "sign", sender |-> "alice", signs |-> AliceSigns,
               items |-> SignItems({"d1sdi"}, "alice")]
  @@ "signB1" :> [kind |-> "sign", sender |-> "bob", signs |-> BobSigns,
                  items |-> SignItems({"d1sdi"}, "alice")]
  \* only one of alice's two keys
  @@ "signA1short" :> [kind |-> "sign", sender |-> "alice", signs |-> {"ka"},
                       items |-> SignItems({"d1sdi"}, "alice")]

Updates ==
  \* bob replaces alice's document, keeping her as the owner
  "updateB1" :> [kind |-> "update", sender |-> "bob", signs |-> BobSigns,
                 items |-> DocItems("d1sdi" :> BSDoc("alice", Both, {}))]
  \* bob replaces it with one of his own
  @@ "updateB1own" :> [kind |-> "update", sender |-> "bob", signs |-> BobSigns,
                       items |-> DocItems("d1sdi" :> BSDoc("bob", Both, {}))]

CurrencyOps ==
  "payA" :> [kind |-> "transfer", sender |-> "alice", signs |-> AliceSigns,
             receiver |-> "bob", cid |-> "MCC", amount |-> 3]
  @@ "payB" :> [kind |-> "transfer", sender |-> "bob", signs |-> BobSigns,
                receiver |-> "alice", cid |-> "MCC", amount |-> 4]
  @@ "openA" :> [kind |-> "create-accounts", sender |-> "alice", signs |-> AliceSigns,
                 receiver |-> "carol", keys |-> KeysOf({"kc"}, 50), cid |-> "MCC", amount |-> 1]
  @@ "openB" :> [kind |-> "create-accounts", sender |-> "bob", signs |-> BobSigns,
                 receiver |-> "carol", keys |-> KeysOf({"kc"}, 50), cid |-> "MCC", amount |-> 1]
  @@ "rekeyA" :> [kind |-> "key-updater", sender |-> "alice", signs |-> AliceSigns,
                  keys |-> KeysOf({"kb"}, 50), cid |-> "MCC"]
  \* an unregistered currency
  @@ "payPEN" :> [kind |-> "transfer", sender |-> "bob", signs |-> BobSigns,
                  receiver |-> "alice", cid |-> "PEN", amount |-> 0]

Universe == Creates @@ Signs @@ Updates @@ CurrencyOps

DocumentOps == DOMAIN Creates \cup DOMAIN Signs \cup DOMAIN Updates
MixedOps == DOMAIN Universe \ {"payB"}
MCFact == [o \in Ops |-> Universe[o]]

-----------------------------------------------------------------------------
(* What the code says of itself, and does not do. *)

\* "documentid already registered": a document id is registered by one operation.
RegisteredOnce ==
  \A o1, o2 \in included :
    /\ Fact[o1].kind = "create" /\ Fact[o2].kind = "create"
    /\ ItemIds(o1) \cap ItemIds(o2) # {}
    => o1 = o2
=============================================================================
