------------------------------- MODULE Making -------------------------------
(***************************************************************************)
(* How clients make the operations that they send: with the builder of the *)
(* digest API (digest/builder.go, handler_operation_build.go,              *)
(* handler_send.go), or with the commands of `seal' (cmds/create_*.go,     *)
(* update_*.go, sign_document.go, send.go).                                *)
(*                                                                         *)
(* With the API, a client takes the template of a fact and fills it, the   *)
(* builder makes an operation of it, the client and perhaps a second       *)
(* signer put their signatures in, and the builder checks the operation    *)
(* and may send it.  Every call may be repeated, and signers may hold the  *)
(* bytes of an earlier answer.  A fact is its type, its token, the fields  *)
(* that still hold the value of the template, and the number of amounts of *)
(* its item.  A sign is the key it names, the key that made it, the fact   *)
(* that was signed, and its time.                                          *)
(*                                                                         *)
(* With the commands, each one reads the seal that the one before wrote,   *)
(* takes over the items of the operation of its own type, and writes a     *)
(* seal with an operation that has its own item, too.                      *)
(*                                                                         *)
(* IsValid of operations and seals and of the currency facts, and the      *)
(* nodes that seals are sent to, are external.                             *)
(*                                                                         *)
(* The definitions under "Faults" are not the code's: each is a variant of *)
(* the definition that follows it with one plausible bug in it.            *)
(***************************************************************************)
EXTENDS Integers, Sequences, FiniteSets, SequencesExt, FiniteSetsExt

CONSTANTS
  Ways,      \* subset of {"api", "commands"}: what clients use
  Keys,      \* keys of the signers
  Ids,       \* ids of the documents that commands are about
  MaxItems,  \* items of an operation, at most
  Seals,     \* the seals that a first command may read
  None,
  MaxCalls   \* bound: calls of the builder, or commands

ASSUME MakingAssumption ==
  /\ Ways \subseteq {"api", "commands"}
  /\ MaxItems \in Nat \ {0} /\ MaxCalls \in Nat

VARIABLES
  way,      \* what the client of this behavior uses
  calls,    \* how many calls there were; the current time
  \* a client of the API
  draft,    \* its fact, or None
  bases,    \* the facts whose bytes it was given to sign, "signature_base"
  op,       \* its operation, or None
  builder,  \* whether the builder made the operation
  checked,  \* whether the operation is one that BuildOperation answered
  refused,  \* what the last call refused: "fact", "sign", or "nothing"
  sent,     \* the operations that went to the nodes
  \* a user of the commands
  seal,     \* the operations of the seal in the file, or None
  first,    \* history: the seal before the first command
  asked,    \* history: the type that each command makes, and its id
  sentSeals \* the seals that went to the nodes

client == <<draft, bases, op, builder, checked, refused, sent>>
user == <<seal, first, asked, sentSeals>>
vars == <<way, calls, client, user>>

-----------------------------------------------------------------------------
Types == {"create-accounts", "key-updater", "transfers", "currency-register",
          "currency-policy-updater", "create-documents", "update-documents", "sign-documents"}

\* The types that clients get a template of: those of factTypesByHint but create-documents,
\* whose template is an empty document, of which there are no bytes.
Templates == {"create-accounts", "key-updater", "transfers", "currency-register", "sign-documents"}

\* The fields that the template has a value of its own for.
Fields(type) ==
  CASE type = "create-accounts"         -> {"sender", "key", "big", "currency"}
    [] type = "key-updater"             -> {"sender", "key", "currency"}
    [] type = "transfers"               -> {"sender", "receiver", "big", "currency"}
    [] type = "currency-register"       -> {"genesis", "big", "minbalance", "currency"}
    [] type = "sign-documents"          -> {"sender", "documentid", "owner", "currency"}
    [] OTHER                            -> {}

\* The types that BuildFact and BuildOperation know.
Known == Types \ {"update-documents"}

\* Values of a template that IsValid of the facts refuses: amounts below zero.
Invalid == {"big", "minbalance"}

\* Faults: the receiver of a transfer is not compared.
ComparedButReceiver(type) ==
  CASE type \in {"create-accounts", "key-updater"} -> {"sender", "key"}
    [] type = "currency-register"                  -> {"genesis", "minbalance"}
    [] type = "sign-documents"                     -> {"sender", "owner"}
    [] type \in {"create-documents", "transfers"}  -> {"sender"}
    [] OTHER                                       -> {}

\* The fields that isValidFact... compares with the template.
Compared(type) ==
  CASE type \in {"create-accounts", "key-updater"} -> {"sender", "key"}
    [] type = "transfers"                          -> {"sender", "receiver"}
    [] type = "currency-register"                  -> {"genesis", "minbalance"}
    [] type = "sign-documents"                     -> {"sender", "owner"}
    [] type = "create-documents"                   -> {"sender"}
    [] OTHER                                       -> {}

Template == -1  \* the token of a template, and the time of its sign
Own == 0        \* a token, or a time, of the client
Times == 1..MaxCalls

Fact == [type : Types, token : {Template, Own} \cup Times,
         unset : SUBSET UNION {Fields(t) : t \in Types}, amounts : {1, 2}]

Signature == [signer : Keys \cup {None}, by : Keys \cup {None}, over : Fact \cup {None},
              at : {Template, Own} \cup Times]
Operations == [fact : Fact, hash : Fact, signs : Seq(Signature)]

ASSUME NoneAssumption == None \notin Keys /\ None \notin Operations

Commands == {"create", "update", "update-history", "sign"}

\* The type of the operation that a command makes: the one that updates a history
\* document makes a create operation.
Made(command) ==
  CASE command \in {"create", "update-history"} -> "create-documents"
    [] command = "update"                       -> "update-documents"
    [] command = "sign"                         -> "sign-documents"

\* An operation of a seal is its type and its items' ids.
SealOperations == [type : {Made(command) : command \in Commands}, items : Seq(Ids)]

ASSUME SealsAssumption ==
  /\ None \notin Seq(SealOperations)
  /\ \A s \in Seals : s = None \/ s \in Seq(SealOperations)

Init ==
  /\ way \in Ways
  /\ calls = 0
  /\ draft = None /\ bases = {} /\ op = None
  /\ builder = FALSE /\ checked = FALSE /\ refused = "nothing"
  /\ sent = {}
  /\ seal \in (IF way = "commands" THEN Seals ELSE {None})
  /\ first = seal /\ asked = <<>> /\ sentSeals = {}

Call ==
  /\ calls < MaxCalls
  /\ calls' = calls + 1
  /\ UNCHANGED way

-----------------------------------------------------------------------------
(* The client of the API.                                                  *)

\* The client starts from FactTemplate, or from nothing.
FactTemplate(type) ==
  /\ way = "api" /\ draft = None
  /\ draft' = [type |-> type, amounts |-> 1,
               token |-> IF type \in Templates THEN Template ELSE Own,
               unset |-> Fields(type)]
  /\ UNCHANGED <<way, calls, bases, op, builder, checked, refused, sent, user>>

\* It fills in a field, a token of its own, a second amount.
Fill ==
  /\ draft # None /\ op = None
  /\ \/ \E field \in draft.unset : draft' = [draft EXCEPT !.unset = @ \ {field}]
     \/ draft.token = Template /\ draft' = [draft EXCEPT !.token = Own]
     \/ /\ draft.type = "create-accounts" /\ draft.amounts = 1
        /\ draft' = [draft EXCEPT !.amounts = 2]
  /\ UNCHANGED <<way, calls, bases, op, builder, checked, refused, sent, user>>

isValidFact(fact) ==
  /\ fact.unset \cap Invalid = {}
  /\ fact.token # Template
  /\ fact.unset \cap Compared(fact.type) = {}

\* Faults: every token is replaced by the time.
checkTokenAlways(token) == calls + 1

\* checkToken: the token of the template is replaced by the time.
checkToken(token) == IF token = Template THEN calls + 1 ELSE token

\* The fact that BuildFact makes; an account is created with its first amount only.
Rebuilt(fact) == [fact EXCEPT !.token = checkToken(@), !.amounts = 1]

TemplateSign == [signer |-> None, by |-> None, over |-> None, at |-> Template]

\* An operation of a fact with the sign of the template, and the bytes to sign.
Make(fact) ==
  /\ op' = [fact |-> fact, hash |-> fact, signs |-> <<TemplateSign>>]
  /\ bases' = bases \cup {fact}
  /\ checked' = FALSE

\* Faults: the fact is not checked.
BuildFactUnchecked ==
  /\ draft # None /\ (op # None => builder)
  /\ Call
  /\ Make(Rebuilt(draft)) /\ builder' = TRUE /\ refused' = "nothing"
  /\ UNCHANGED <<draft, sent, user>>

\* BuildFact.  A client whose call got lost repeats it.
BuildFact ==
  /\ draft # None /\ (op # None => builder)
  /\ Call
  /\ IF draft.type \in Known /\ isValidFact(Rebuilt(draft))
     THEN Make(Rebuilt(draft)) /\ builder' = TRUE /\ refused' = "nothing"
     ELSE refused' = "fact" /\ UNCHANGED <<bases, op, builder, checked>>
  /\ UNCHANGED <<draft, sent, user>>

\* A client makes the operation without the builder.
Compose ==
  /\ draft # None /\ op = None
  /\ Make(draft)
  /\ UNCHANGED <<way, calls, draft, builder, refused, sent, user>>

Unsigned(k) == op # None /\ \A i \in DOMAIN op.signs : op.signs[i].by # k

Change(signs) ==
  /\ op' = [op EXCEPT !.signs = signs]
  /\ checked' = FALSE /\ refused' = "nothing"
  /\ UNCHANGED <<way, calls, draft, bases, builder, sent, user>>

\* A signature, of some bytes that were given to sign, and a key in the places of the
\* template's; one may forget the key.
Sign(k) ==
  /\ Unsigned(k) /\ Last(op.signs).by = None
  /\ \E signer \in {k, None}, base \in bases :
       Change(Append(Front(op.signs),
                     [signer |-> signer, by |-> k, over |-> base, at |-> Template]))

\* A second signer adds a sign of its own, with its time or the template's.
AddSign(k) ==
  /\ Unsigned(k)
  /\ \E at \in {Template, Own}, base \in bases :
       Change(<<[signer |-> k, by |-> k, over |-> base, at |-> at]>> \o op.signs)

\* The client fills in a field when the operation is built already.
Alter ==
  /\ op # None
  /\ \E field \in op.fact.unset : op' = [op EXCEPT !.fact.unset = @ \ {field}]
  /\ checked' = FALSE /\ refused' = "nothing"
  /\ UNCHANGED <<way, calls, draft, bases, builder, sent, user>>

\* IsValid of an operation: the hash and the signs are those of its fact.
IsValid(o) ==
  /\ o.hash = o.fact /\ o.fact.unset \cap Invalid = {}
  /\ \A i \in DOMAIN o.signs :
       o.signs[i].signer # None /\ o.signs[i].signer = o.signs[i].by /\ o.signs[i].over = o.fact

\* Faults: every sign gets the time.
updateAllFactSigns(signs) == [i \in DOMAIN signs |-> [signs[i] EXCEPT !.at = calls + 1]]

\* Faults: only the last sign gets the time.
updateLastFactSign(signs) ==
  [signs EXCEPT ![Len(signs)].at = IF @ = Template THEN calls + 1 ELSE @]

\* updateFactSigns: the signs with the time of the template get the time.
updateFactSigns(signs) ==
  [i \in DOMAIN signs |->
     IF signs[i].at = Template THEN [signs[i] EXCEPT !.at = calls + 1] ELSE signs[i]]

\* BuildOperation, which sends the operation if it is asked to.
BuildOperation(send) ==
  /\ op # None
  /\ Call
  /\ IF op.fact.type \in Known /\ IsValid(op) /\ isValidFact(op.fact)
     THEN /\ op' = [op EXCEPT !.signs = updateFactSigns(@)]
          /\ checked' = TRUE /\ refused' = "nothing"
          /\ sent' = IF send THEN sent \cup {op'} ELSE sent
     ELSE refused' = "sign" /\ UNCHANGED <<op, checked, sent>>
  /\ UNCHANGED <<draft, bases, builder, user>>

\* Faults: what a client sends is not checked.
sendAnything ==
  /\ op # None
  /\ Call
  /\ sent' = sent \cup {op}
  /\ UNCHANGED <<draft, bases, op, builder, checked, refused, user>>

\* handleSend: an operation, alone, in a list or in a seal, is checked and sent.
sendItem ==
  /\ op # None /\ IsValid(op)
  /\ Call
  /\ sent' = sent \cup {op}
  /\ UNCHANGED <<draft, bases, op, builder, checked, refused, user>>

-----------------------------------------------------------------------------
(* The user of the commands.                                               *)

\* LoadSeal: the seal is there, and it and its operations are valid.
LoadSeal ==
  /\ seal # None
  /\ \A i \in DOMAIN seal : Len(seal[i].items) <= MaxItems /\ IsInjective(seal[i].items)

\* Faults: the items of the first operation of the type are taken over.
FirstItems(type) ==
  LET own == {i \in DOMAIN seal : seal[i].type = type}
  IN IF own = {} THEN <<>> ELSE seal[Min(own)].items

\* createOperation: the items of the seal's last operation of the type, or none.
TakenItems(type) ==
  LET own == {i \in DOMAIN seal : seal[i].type = type}
  IN IF own = {} THEN <<>> ELSE seal[Max(own)].items

\* LoadSealAndAddOperation: the operation is the only one of the seal that is written.
Run(command, id) ==
  /\ way = "commands"
  /\ seal = None \/ LoadSeal
  /\ Call
  /\ seal' = <<[type |-> Made(command),
               items |-> Append(IF seal = None THEN <<>> ELSE TakenItems(Made(command)), id)]>>
  /\ asked' = Append(asked, <<Made(command), id>>)
  /\ UNCHANGED <<client, first, sentSeals>>

\* SendCommand.
SendSeal ==
  /\ way = "commands"
  /\ LoadSeal
  /\ sentSeals' = sentSeals \cup {seal}
  /\ UNCHANGED <<way, calls, client, seal, first, asked>>

-----------------------------------------------------------------------------
Next ==
  \/ \E type \in Types : FactTemplate(type)
  \/ Fill \/ BuildFact \/ Compose
  \/ \E k \in Keys : Sign(k) \/ AddSign(k)
  \/ Alter
  \/ \E send \in BOOLEAN : BuildOperation(send)
  \/ sendItem
  \/ \E command \in Commands, id \in Ids : Run(command, id)
  \/ SendSeal

Spec == Init /\ [][Next]_vars

-----------------------------------------------------------------------------
(* Properties.                                                             *)

\* The seals are sequences of operations, and commands are asked for items.
SealTypes ==
  /\ seal \in {None} \cup Seq(SealOperations) /\ first \in {None} \cup Seq(SealOperations)
  /\ asked \in Seq({Made(command) : command \in Commands} \X Ids)
  /\ sentSeals \subseteq Seq(SealOperations)

\* Types of the variables; an operation that the builder answered holds no time of the
\* template any more.
TypeOK ==
  /\ way \in Ways /\ calls \in 0..MaxCalls
  /\ draft \in Fact \cup {None} /\ bases \subseteq Fact
  /\ op \in Operations \cup {None}
  /\ builder \in BOOLEAN /\ checked \in BOOLEAN /\ refused \in {"fact", "sign", "nothing"}
  /\ sent \subseteq Operations
  /\ SealTypes
  /\ checked => \A i \in DOMAIN op.signs : op.signs[i].at # Template

\* An operation that BuildOperation answered, whoever made it, holds no value of a
\* template any more, but for the currency and the id of a document, which no
\* isValidFact compares.
AcceptedFilled == checked => op.fact.unset \subseteq {"currency", "documentid"}

\* What BuildFact answers, BuildOperation accepts: it refuses an operation that the
\* builder made only for what was done to it since, or for a sign that is not its
\* signer's over the fact.
HonestAccepted ==
  refused = "sign" /\ builder =>
    \/ op.fact \notin bases
    \/ \E i \in DOMAIN op.signs :
         LET sign == op.signs[i]
         IN sign.by = None \/ sign.signer # sign.by \/ sign.over # op.fact

\* Whatever reaches the nodes is what the client filled in, signed by each of its
\* signers, but for a token of the template and a second amount, which BuildFact
\* replaced and dropped.
SentAsFilled ==
  \A o \in sent :
    /\ o.hash = o.fact
    /\ o.fact.type = draft.type /\ o.fact.unset = draft.unset
    /\ o.fact.token = draft.token \/ (draft.token = Template /\ o.fact.token \in Times)
    /\ o.fact.amounts \in {1, draft.amounts}
    /\ \A i \in DOMAIN o.signs : o.signs[i].over = o.fact /\ o.signs[i].signer = o.signs[i].by

\* A client that repeats any of its calls sends one operation, as nodes know them by
\* the hash of the fact, as long as it filled in a token of its own.
RetrySafe == sent # {} /\ draft.token = Own => Cardinality({o.hash : o \in sent}) = 1

\* The times of a key's sign in an operation.
TimesOf(o, k) == {o.signs[i].at : i \in {j \in DOMAIN o.signs : o.signs[j].by = k}} \ {Template}

\* A sign keeps its time when the operation is built, checked or sent again, until
\* BuildFact makes a new operation.
SignTimesKept ==
  [][\A k \in Keys :
       op # None /\ op'.signs # <<TemplateSign>> => TimesOf(op, k) \subseteq TimesOf(op', k)]_vars

\* The last command that makes another type than the last one, 0 if there is none.
Since == Max({0} \cup {i \in 1..Len(asked) : asked[i][1] # asked[Len(asked)][1]})

\* The items of the first seal's last operation of the type that the commands since then
\* make, if they are the first ones.
FirstTaken(type) ==
  LET own == {i \in DOMAIN first : first[i].type = type}
  IN IF Since = 0 /\ first # None /\ own # {} THEN first[Max(own)].items ELSE <<>>

\* The seal holds, in order, the items that the commands that make its type were asked
\* for since the last one that makes another, after those of the last operation of the
\* type in the first seal: a chain of commands loses and repeats none.
ItemsKept ==
  asked # <<>> =>
    LET last == Len(asked)
        type == asked[last][1]
        ids  == [i \in 1..(last - Since) |-> asked[Since + i][2]]
    IN seal = <<[type |-> type, items |-> FirstTaken(type) \o ids]>>

(***************************************************************************)
(* The inductive invariant behind the properties of the API (MakingProofs). *)
(***************************************************************************)
\* The facts whose bytes were given to sign are the one that the client filled in, but
\* for the token and the amounts that BuildFact gives them.
BasesAsFilled ==
  \A b \in bases :
    /\ b \in Fact /\ b.type = draft.type /\ b.unset = draft.unset
    /\ b.token = draft.token \/ (draft.token = Template /\ b.token \in Times)
    /\ IF builder THEN b.type \in Known /\ isValidFact(b) /\ b.amounts = 1 ELSE b = draft

\* The operation still has the hash of such a fact; its fact is another one only if it
\* has fewer fields of the template.
OperationAsFilled ==
  op # None =>
    /\ draft # None /\ op \in Operations /\ op.hash \in bases
    /\ op.fact.type = draft.type /\ op.fact.unset \subseteq draft.unset
    /\ op.fact.unset = draft.unset => op.fact = op.hash

IInv ==
  /\ calls \in 0..MaxCalls
  /\ draft # None => draft \in Fact /\ draft.unset \subseteq Fields(draft.type)
  /\ op = None => bases = {} /\ sent = {} /\ ~builder /\ ~checked
  /\ BasesAsFilled
  /\ OperationAsFilled
  /\ checked => isValidFact(op.fact)
  /\ \A o \in sent : o \in Operations /\ IsValid(o) /\ o.fact \in bases
  /\ HonestAccepted

\* The inductive invariant of the user of the commands.
UInv ==
  /\ SealTypes
  /\ IF asked = <<>> THEN seal = first ELSE seal # None
  /\ asked # <<>> => Since \in 0..(Len(asked) - 1)
  /\ ItemsKept
=============================================================================
