---------------------------- MODULE MakingProofs ----------------------------
(***************************************************************************)
(* Proofs about Making: the inductive invariant IInv of the client of the  *)
(* API and of the builder, and from it that what BuildOperation answers is *)
(* filled in, that it accepts what BuildFact answered, that what is sent   *)
(* is what the client filled in, and that a client that repeats its calls  *)
(* sends one operation; and that a sign keeps its time.  The user of the   *)
(* commands changes none of the client's variables.                        *)
(***************************************************************************)
EXTENDS Making, FiniteSetTheorems, SequenceTheorems, WellOrder

-----------------------------------------------------------------------------
(* Facts about facts and operations. *)

\* A fact is the record of its fields.
LEMMA FactFields ==
  ASSUME NEW f \in Fact
  PROVE  /\ f.type \in Types /\ f.token \in {Template, Own} \cup Times
         /\ f.unset \subseteq UNION {Fields(t) : t \in Types} /\ f.amounts \in {1, 2}
BY DEF Fact

\* The fact that BuildFact makes is one of the client's type and fields.
LEMMA RebuiltFact ==
  ASSUME NEW f \in Fact, calls \in 0..MaxCalls, calls < MaxCalls
  PROVE  /\ Rebuilt(f) \in Fact
         /\ Rebuilt(f).type = f.type /\ Rebuilt(f).unset = f.unset /\ Rebuilt(f).amounts = 1
         /\ Rebuilt(f).token = f.token \/ (f.token = Template /\ Rebuilt(f).token \in Times)
<1>1. calls + 1 \in Times
  BY MakingAssumption DEF Times
<1>2. checkToken(f.token) \in {Template, Own} \cup Times
  BY <1>1, FactFields DEF checkToken
<1> QED
  BY <1>1, <1>2 DEF Rebuilt, Fact, checkToken

\* A new operation has the sign of the template.
LEMMA MadeOperation ==
  ASSUME NEW f \in Fact
  PROVE  [fact |-> f, hash |-> f, signs |-> <<TemplateSign>>] \in Operations
<1>1. TemplateSign \in Signature
  BY DEF TemplateSign, Signature
<1>2. <<TemplateSign>> \in Seq(Signature)
  BY <1>1
<1> QED
  BY <1>2 DEF Operations

\* The times that updateFactSigns sets change nothing else.
LEMMA UpdatedSigns ==
  ASSUME NEW signs \in Seq(Signature), calls \in 0..MaxCalls, calls < MaxCalls
  PROVE  /\ updateFactSigns(signs) \in Seq(Signature)
         /\ DOMAIN updateFactSigns(signs) = DOMAIN signs
         /\ \A i \in DOMAIN signs :
              /\ updateFactSigns(signs)[i].signer = signs[i].signer
              /\ updateFactSigns(signs)[i].by = signs[i].by
              /\ updateFactSigns(signs)[i].over = signs[i].over
              /\ signs[i].at # Template => updateFactSigns(signs)[i].at = signs[i].at
<1>1. calls + 1 \in Times
  BY MakingAssumption DEF Times
<1>2. ASSUME NEW i \in DOMAIN signs
      PROVE  /\ updateFactSigns(signs)[i] \in Signature
             /\ updateFactSigns(signs)[i].signer = signs[i].signer
             /\ updateFactSigns(signs)[i].by = signs[i].by
             /\ updateFactSigns(signs)[i].over = signs[i].over
             /\ signs[i].at # Template => updateFactSigns(signs)[i].at = signs[i].at
  <2>1. signs[i] \in Signature
    OBVIOUS
  <2> QED
    BY <1>1, <2>1 DEF updateFactSigns, Signature
<1>3. updateFactSigns(signs) \in Seq(Signature) /\ DOMAIN updateFactSigns(signs) = DOMAIN signs
  <2>1. updateFactSigns(signs) = [i \in 1..Len(signs) |-> updateFactSigns(signs)[i]]
    BY DEF updateFactSigns
  <2>2. \A i \in 1..Len(signs) : updateFactSigns(signs)[i] \in Signature
    BY <1>2
  <2> HIDE DEF updateFactSigns
  <2> QED
    BY <2>1, <2>2
<1> QED
  BY <1>2, <1>3

\* A sign in the place of the last one, or before all others.
LEMMA SignedSigns ==
  ASSUME NEW signs \in Seq(Signature), NEW sign \in Signature
  PROVE  /\ Append(Front(signs), sign) \in Seq(Signature)
         /\ <<sign>> \o signs \in Seq(Signature)
<1>1. Front(signs) \in Seq(Signature)
  <2>1. \A i \in 1..(Len(signs) - 1) : signs[i] \in Signature
    OBVIOUS
  <2> QED
    BY <2>1, SubSeqProperties DEF Front
<1>2. <<sign>> \in Seq(Signature)
  OBVIOUS
<1> QED
  BY <1>1, <1>2, AppendProperties, ConcatProperties

-----------------------------------------------------------------------------
(* Every step keeps the inductive invariant. *)

\* The first state satisfies it.
LEMMA InitIInv == Init => IInv
BY MakingAssumption DEF Init, IInv, BasesAsFilled, OperationAsFilled, HonestAccepted

\* What leaves the client alone keeps it.
LEMMA UntouchedIInv ==
  ASSUME IInv, UNCHANGED client, calls' \in 0..MaxCalls
  PROVE  IInv'
BY DEF IInv, client, BasesAsFilled, OperationAsFilled, HonestAccepted, IsValid, isValidFact

\* A template is a fact, and there is nothing else yet.
LEMMA FactTemplateIInv ==
  ASSUME IInv, NEW type \in Types, FactTemplate(type)
  PROVE  IInv'
<1>1. op = None /\ bases = {} /\ sent = {}
  BY DEF IInv, FactTemplate, OperationAsFilled
<1>2. draft' \in Fact /\ draft'.unset = Fields(draft'.type)
  BY DEF FactTemplate, Fact
<1> QED
  BY <1>1, <1>2 DEF FactTemplate, IInv, BasesAsFilled, OperationAsFilled, HonestAccepted

\* The client fills its fact before there is an operation.
LEMMA FillIInv ==
  ASSUME IInv, Fill
  PROVE  IInv'
<1>1. op = None /\ bases = {} /\ sent = {} /\ draft \in Fact /\ draft.unset \subseteq Fields(draft.type)
  BY DEF IInv, Fill
<1>2. draft' \in Fact /\ draft'.unset \subseteq Fields(draft'.type)
  BY <1>1 DEF Fill, Fact
<1> QED
  BY <1>1, <1>2 DEF Fill, IInv, BasesAsFilled, OperationAsFilled, HonestAccepted

\* BuildFact makes an operation of a fact that it checked, or changes nothing.
LEMMA BuildFactIInv ==
  ASSUME IInv, BuildFact
  PROVE  IInv'
<1>1. /\ draft \in Fact /\ calls \in 0..MaxCalls /\ calls < MaxCalls
      /\ calls' \in 0..MaxCalls /\ UNCHANGED <<draft, sent>>
      /\ op # None => builder
  BY MakingAssumption DEF IInv, BuildFact, Call
<1> DEFINE f == Rebuilt(draft)
<1>2. CASE draft.type \in Known /\ isValidFact(f)
  <2>1. /\ op' = [fact |-> f, hash |-> f, signs |-> <<TemplateSign>>]
        /\ bases' = bases \cup {f}
        /\ ~checked' /\ builder' /\ refused' = "nothing"
    BY <1>2 DEF BuildFact, Make
  <2>2. /\ f \in Fact /\ f.type = draft.type /\ f.unset = draft.unset /\ f.amounts = 1
        /\ f.token = draft.token \/ (draft.token = Template /\ f.token \in Times)
    BY <1>1, RebuiltFact
  <2>3. op' \in Operations /\ op' # None
    BY <2>1, <2>2, MadeOperation, NoneAssumption
  <2>4. bases = {} \/ builder
    BY <1>1 DEF IInv
  <2> HIDE DEF f
  <2>5. BasesAsFilled'
    BY <1>1, <1>2, <2>1, <2>2, <2>4 DEF IInv, BasesAsFilled, isValidFact
  <2>6. OperationAsFilled'
    BY <1>1, <2>1, <2>2, <2>3, NoneAssumption DEF IInv, OperationAsFilled, BuildFact
  <2> QED
    BY <1>1, <2>1, <2>3, <2>5, <2>6 DEF IInv, HonestAccepted, IsValid
<1>3. CASE ~(draft.type \in Known /\ isValidFact(f))
  <2>1. UNCHANGED <<bases, op, builder, checked>> /\ refused' = "fact"
    BY <1>3 DEF BuildFact
  <2> QED
    BY <1>1, <2>1
    DEF IInv, BasesAsFilled, OperationAsFilled, HonestAccepted, IsValid, isValidFact
<1> QED
  BY <1>2, <1>3

\* A client that does not use BuildFact makes an operation of its fact.
LEMMA ComposeIInv ==
  ASSUME IInv, Compose
  PROVE  IInv'
<1>1. /\ draft \in Fact /\ draft # None /\ bases = {} /\ sent = {} /\ ~builder
      /\ op' = [fact |-> draft, hash |-> draft, signs |-> <<TemplateSign>>]
      /\ bases' = bases \cup {draft} /\ ~checked'
      /\ UNCHANGED <<calls, draft, builder, refused, sent>>
  BY DEF IInv, Compose, Make
<1>2. op' \in Operations /\ op' # None
  BY <1>1, MadeOperation, NoneAssumption
<1> QED
  BY <1>1, <1>2 DEF IInv, BasesAsFilled, OperationAsFilled, HonestAccepted

\* Other signs, which nobody checked, keep the fact and the hash.
LEMMA ChangeIInv ==
  ASSUME IInv, op # None, NEW signs \in Seq(Signature), Change(signs)
  PROVE  IInv'
<1>1. /\ op \in Operations /\ op' = [op EXCEPT !.signs = signs]
      /\ ~checked' /\ refused' = "nothing"
      /\ UNCHANGED <<calls, draft, bases, builder, sent>>
  BY DEF IInv, OperationAsFilled, Change
<1>2. op' \in Operations /\ op' # None /\ op'.fact = op.fact /\ op'.hash = op.hash
  BY <1>1, NoneAssumption DEF Operations
<1> QED
  BY <1>1, <1>2 DEF IInv, BasesAsFilled, OperationAsFilled, HonestAccepted, IsValid, isValidFact

\* A signer signs a fact that it was given the bytes of.
LEMMA SignIInv ==
  ASSUME IInv, NEW k \in Keys, Sign(k) \/ AddSign(k)
  PROVE  IInv'
<1>1. op # None /\ op.signs \in Seq(Signature) /\ bases \subseteq Fact
  BY DEF Sign, AddSign, Unsigned, IInv, BasesAsFilled, OperationAsFilled, Operations
<1>2. \E signs \in Seq(Signature) : Change(signs)
  <2>1. CASE Sign(k)
    <3>1. PICK signer \in {k, None}, base \in bases :
            Change(Append(Front(op.signs),
                          [signer |-> signer, by |-> k, over |-> base, at |-> Template]))
      BY <2>1 DEF Sign
    <3>2. [signer |-> signer, by |-> k, over |-> base, at |-> Template] \in Signature
      BY <1>1 DEF Signature
    <3> QED
      BY <1>1, <3>1, <3>2, SignedSigns
  <2>2. CASE AddSign(k)
    <3>1. PICK at \in {Template, Own}, base \in bases :
            Change(<<[signer |-> k, by |-> k, over |-> base, at |-> at]>> \o op.signs)
      BY <2>2 DEF AddSign
    <3>2. [signer |-> k, by |-> k, over |-> base, at |-> at] \in Signature
      BY <1>1 DEF Signature
    <3> QED
      BY <1>1, <3>1, <3>2, SignedSigns
  <2> QED
    BY <2>1, <2>2
<1> QED
  BY <1>1, <1>2, ChangeIInv

\* An operation that is altered has fewer fields of the template than its hash.
LEMMA AlterIInv ==
  ASSUME IInv, Alter
  PROVE  IInv'
<1>1. PICK field \in op.fact.unset : op' = [op EXCEPT !.fact.unset = @ \ {field}]
  BY DEF Alter
<1>2. /\ op # None /\ op \in Operations /\ ~checked' /\ refused' = "nothing"
      /\ UNCHANGED <<calls, draft, bases, builder, sent>>
  BY DEF IInv, OperationAsFilled, Alter
<1>3. /\ op'.hash = op.hash /\ op'.signs = op.signs /\ op'.fact \in Fact
      /\ op'.fact.type = op.fact.type
      /\ op'.fact.unset = op.fact.unset \ {field}
  BY <1>1, <1>2 DEF Operations, Fact
<1>4. op' \in Operations /\ op' # None
  BY <1>1, <1>2, <1>3, NoneAssumption DEF Operations
<1>5. op'.fact.unset # draft.unset
  BY <1>2, <1>3 DEF IInv, OperationAsFilled
<1> QED
  BY <1>2, <1>3, <1>4, <1>5
  DEF IInv, BasesAsFilled, OperationAsFilled, HonestAccepted, IsValid, isValidFact

\* A valid operation has a fact whose bytes were given to sign.
LEMMA ValidOperation ==
  ASSUME IInv, op # None, IsValid(op)
  PROVE  op \in Operations /\ op.fact \in bases
BY DEF IInv, OperationAsFilled, IsValid

\* BuildOperation refuses only what was altered, or what is not signed.
LEMMA RefusedOperation ==
  ASSUME IInv, op # None, builder,
         ~(op.fact.type \in Known /\ IsValid(op) /\ isValidFact(op.fact))
  PROVE  \/ op.fact \notin bases
         \/ \E i \in DOMAIN op.signs :
              LET sign == op.signs[i]
              IN sign.by = None \/ sign.signer # sign.by \/ sign.over # op.fact
<1> SUFFICES ASSUME op.fact \in bases
             PROVE  \E i \in DOMAIN op.signs :
                      \/ op.signs[i].by = None
                      \/ op.signs[i].signer # op.signs[i].by
                      \/ op.signs[i].over # op.fact
  OBVIOUS
<1>1. op.fact.type \in Known /\ isValidFact(op.fact) /\ op.fact.unset = draft.unset
  BY DEF IInv, BasesAsFilled
<1>2. op.hash = op.fact
  BY <1>1 DEF IInv, OperationAsFilled
<1> QED
  BY <1>1, <1>2 DEF IsValid, isValidFact

\* What BuildOperation accepts, and perhaps sends, is valid and filled in.
LEMMA BuildOperationIInv ==
  ASSUME IInv, NEW send \in BOOLEAN, BuildOperation(send)
  PROVE  IInv'
<1>1. /\ op # None /\ op \in Operations
      /\ calls \in 0..MaxCalls /\ calls < MaxCalls /\ calls' \in 0..MaxCalls
      /\ UNCHANGED <<draft, bases, builder>>
  BY MakingAssumption DEF IInv, OperationAsFilled, BuildOperation, Call
<1>2. CASE op.fact.type \in Known /\ IsValid(op) /\ isValidFact(op.fact)
  <2>1. /\ op' = [op EXCEPT !.signs = updateFactSigns(op.signs)]
        /\ refused' = "nothing"
        /\ sent' \subseteq sent \cup {op'}
    BY <1>1, <1>2 DEF BuildOperation
  <2>2. op.signs \in Seq(Signature)
    BY <1>1 DEF Operations
  <2>3. /\ op' \in Operations /\ op' # None
        /\ op'.fact = op.fact /\ op'.hash = op.hash /\ op'.signs = updateFactSigns(op.signs)
    BY <1>1, <2>1, <2>2, UpdatedSigns, NoneAssumption DEF Operations
  <2>4. IsValid(op')
    BY <1>1, <1>2, <2>2, <2>3, UpdatedSigns DEF IsValid
  <2>5. op.fact \in bases
    BY <1>1, <1>2, ValidOperation
  <2>6. BasesAsFilled'
    BY <1>1 DEF IInv, BasesAsFilled, isValidFact
  <2>7. OperationAsFilled'
    BY <1>1, <2>3 DEF IInv, OperationAsFilled
  <2>8. \A o \in sent' : o \in Operations /\ IsValid(o) /\ o.fact \in bases
    BY <2>1, <2>3, <2>4, <2>5 DEF IInv
  <2> QED
    BY <1>1, <1>2, <2>1, <2>3, <2>6, <2>7, <2>8 DEF IInv, HonestAccepted, IsValid, isValidFact
<1>3. CASE ~(op.fact.type \in Known /\ IsValid(op) /\ isValidFact(op.fact))
  <2>1. UNCHANGED <<op, checked, sent>>
    BY <1>3 DEF BuildOperation
  <2>2. HonestAccepted'
    BY <1>1, <1>3, <2>1, RefusedOperation DEF HonestAccepted
  <2> QED
    BY <1>1, <2>1, <2>2 DEF IInv, BasesAsFilled, OperationAsFilled, IsValid, isValidFact
<1> QED
  BY <1>2, <1>3

\* What is sent without the builder is valid.
LEMMA SendItemIInv ==
  ASSUME IInv, sendItem
  PROVE  IInv'
<1>1. /\ op # None /\ sent' = sent \cup {op} /\ calls' \in 0..MaxCalls
      /\ UNCHANGED <<draft, bases, op, builder, checked, refused>>
  BY MakingAssumption DEF IInv, sendItem, Call
<1>2. op \in Operations /\ IsValid(op) /\ op.fact \in bases
  BY <1>1, ValidOperation DEF sendItem
<1> QED
  BY <1>1, <1>2 DEF IInv, BasesAsFilled, OperationAsFilled, HonestAccepted, IsValid, isValidFact

\* The commands leave the client of the API alone.
LEMMA CommandIInv ==
  ASSUME IInv, (\E command \in Commands, id \in Ids : Run(command, id)) \/ SendSeal
  PROVE  IInv'
<1>1. UNCHANGED client
  BY DEF Run, SendSeal
<1>2. calls' \in 0..MaxCalls
  BY MakingAssumption DEF IInv, Run, SendSeal, Call
<1> QED
  BY <1>1, <1>2, UntouchedIInv

LEMMA NextIInv == IInv /\ [Next]_vars => IInv'
<1> SUFFICES ASSUME IInv, [Next]_vars
             PROVE  IInv'
  OBVIOUS
<1>1. ASSUME NEW type \in Types, FactTemplate(type)
      PROVE  IInv'
  BY <1>1, FactTemplateIInv
<1>2. CASE Fill
  BY <1>2, FillIInv
<1>3. CASE BuildFact
  BY <1>3, BuildFactIInv
<1>4. CASE Compose
  BY <1>4, ComposeIInv
<1>5. ASSUME NEW k \in Keys, Sign(k) \/ AddSign(k)
      PROVE  IInv'
  BY <1>5, SignIInv
<1>6. CASE Alter
  BY <1>6, AlterIInv
<1>7. ASSUME NEW send \in BOOLEAN, BuildOperation(send)
      PROVE  IInv'
  BY <1>7, BuildOperationIInv
<1>8. CASE sendItem
  BY <1>8, SendItemIInv
<1>9. CASE (\E command \in Commands, id \in Ids : Run(command, id)) \/ SendSeal
  BY <1>9, CommandIInv
<1>10. CASE UNCHANGED vars
  BY <1>10, UntouchedIInv DEF vars, client, IInv
<1> QED
  BY <1>1, <1>2, <1>3, <1>4, <1>5, <1>6, <1>7, <1>8, <1>9, <1>10 DEF Next

\* The inductive invariant of the client and of the builder holds in every reachable state.
THEOREM Invariance == Spec => []IInv
<1> QED
  BY InitIInv, NextIInv, PTL DEF Spec

-----------------------------------------------------------------------------
(* What follows from it. *)

\* What a fact may still hold of the template once isValidFact accepted it.
LEMMA ComparedFields ==
  ASSUME NEW type \in Types
  PROVE  Fields(type) \ (Invalid \cup Compared(type)) \subseteq {"currency", "documentid"}
<1>1. CASE type \in {"create-accounts", "key-updater"}
  BY <1>1 DEF Fields, Compared, Invalid
<1>2. CASE type = "transfers"
  BY <1>2 DEF Fields, Compared, Invalid
<1>3. CASE type = "currency-register"
  BY <1>3 DEF Fields, Compared, Invalid
<1>4. CASE type = "sign-documents"
  BY <1>4 DEF Fields, Compared, Invalid
<1>5. CASE type \in {"currency-policy-updater", "create-documents", "update-documents"}
  BY <1>5 DEF Fields
<1> QED
  BY <1>1, <1>2, <1>3, <1>4, <1>5 DEF Types

\* An operation that BuildOperation answered holds no value of a template but the
\* currency and the id of a document.
THEOREM AnsweredIsFilled == Spec => []AcceptedFilled
<1>1. IInv => AcceptedFilled
  <2> SUFFICES ASSUME IInv, checked
               PROVE  op.fact.unset \subseteq {"currency", "documentid"}
    BY DEF AcceptedFilled
  <2>1. /\ op # None /\ draft # None /\ isValidFact(op.fact)
        /\ op.fact.type = draft.type /\ op.fact.unset \subseteq draft.unset
    BY DEF IInv, OperationAsFilled
  <2>2. draft.type \in Types /\ draft.unset \subseteq Fields(draft.type)
    BY <2>1, FactFields DEF IInv
  <2> QED
    BY <2>1, <2>2, ComparedFields DEF isValidFact
<1> QED
  BY <1>1, Invariance, PTL

\* BuildOperation accepts the operations of BuildFact that are signed and not altered.
THEOREM AnswerIsAccepted == Spec => []HonestAccepted
<1>1. IInv => HonestAccepted
  BY DEF IInv
<1> QED
  BY <1>1, Invariance, PTL

\* What is sent is what the client filled in, signed by its signers.
THEOREM SentIsFilled == Spec => []SentAsFilled
<1>1. IInv => SentAsFilled
  <2> SUFFICES ASSUME IInv, NEW o \in sent
               PROVE  /\ o.hash = o.fact
                      /\ o.fact.type = draft.type /\ o.fact.unset = draft.unset
                      /\ o.fact.token = draft.token \/ (draft.token = Template /\ o.fact.token \in Times)
                      /\ o.fact.amounts \in {1, draft.amounts}
                      /\ \A i \in DOMAIN o.signs :
                           o.signs[i].over = o.fact /\ o.signs[i].signer = o.signs[i].by
    BY DEF SentAsFilled
  <2>1. IsValid(o) /\ o.fact \in bases
    BY DEF IInv
  <2> QED
    BY <2>1 DEF IInv, BasesAsFilled, IsValid
<1> QED
  BY <1>1, Invariance, PTL

\* The fields but the token and the amounts are those of the client's fact, so with a
\* token of its own there is one fact that may be sent.
THEOREM RetriesSendOne == Spec => []RetrySafe
<1>1. IInv => RetrySafe
  <2> SUFFICES ASSUME IInv, sent # {}, draft.token = Own
               PROVE  Cardinality({o.hash : o \in sent}) = 1
    BY DEF RetrySafe
  <2>1. \A o \in sent : o.hash = o.fact /\ o.fact \in bases
    BY DEF IInv, IsValid
  <2>2. \A a, b \in bases : a = b
    <3>1. SUFFICES ASSUME NEW a \in bases, NEW b \in bases
                   PROVE  a = b
      OBVIOUS
    <3>2. a \in Fact /\ b \in Fact
      BY DEF IInv, BasesAsFilled
    <3>3. a.type = b.type /\ a.unset = b.unset
      BY DEF IInv, BasesAsFilled
    <3>4. a.token = Own /\ b.token = Own
      BY DEF IInv, BasesAsFilled, Own, Template
    <3>5. a.amounts = b.amounts
      BY DEF IInv, BasesAsFilled
    <3> QED
      BY <3>2, <3>3, <3>4, <3>5 DEF Fact
  <2>3. PICK p \in sent : TRUE
    OBVIOUS
  <2>4. {o.hash : o \in sent} = {p.hash}
    BY <2>1, <2>2
  <2> QED
    BY <2>4, FS_Singleton
<1> QED
  BY <1>1, Invariance, PTL

\* A key's sign keeps its place, or the place after a new sign, and its time: a sign
\* with the template's time is the only one that BuildOperation gives a time.
LEMMA SignTimesStep ==
  ASSUME IInv, [Next]_vars, NEW k \in Keys, op # None, op'.signs # <<TemplateSign>>
  PROVE  TimesOf(op, k) \subseteq TimesOf(op', k)
<1> DEFINE signs == op.signs
<1>1. signs \in Seq(Signature) /\ op \in Operations /\ k # None
  BY NoneAssumption DEF IInv, OperationAsFilled, Operations
<1> SUFFICES ASSUME NEW i \in DOMAIN signs, signs[i].by = k, signs[i].at # Template
             PROVE  \E j \in DOMAIN op'.signs : op'.signs[j].by = k /\ op'.signs[j].at = signs[i].at
  BY DEF TimesOf
<1>2. CASE op'.signs = signs
  BY <1>2
<1>3. ASSUME NEW s \in Keys, Sign(s)
      PROVE  \E j \in DOMAIN op'.signs : op'.signs[j].by = k /\ op'.signs[j].at = signs[i].at
  <2>1. PICK sign : op' = [op EXCEPT !.signs = Append(Front(signs), sign)] /\ sign \in Signature
    <3>1. PICK signer \in {s, None}, base \in bases :
            Change(Append(Front(signs),
                          [signer |-> signer, by |-> s, over |-> base, at |-> Template]))
      BY <1>3 DEF Sign
    <3>2. [signer |-> signer, by |-> s, over |-> base, at |-> Template] \in Signature
      BY DEF IInv, BasesAsFilled, Signature
    <3> QED
      BY <3>1, <3>2 DEF Change
  <2>2. op'.signs = Append(Front(signs), sign)
    BY <1>1, <2>1 DEF Operations
  <2>3. i \in 1..(Len(signs) - 1)
    BY <1>1, <1>3 DEF Sign, Last
  <2>4. /\ Front(signs) \in Seq(Signature) /\ Len(Front(signs)) = Len(signs) - 1
        /\ Front(signs)[i] = signs[i]
    <3>1. \A j \in 1..(Len(signs) - 1) : signs[j] \in Signature
      BY <1>1
    <3> QED
      BY <1>1, <2>3, <3>1, SubSeqProperties DEF Front
  <2>5. i \in DOMAIN op'.signs /\ op'.signs[i] = signs[i]
    BY <2>1, <2>2, <2>3, <2>4, AppendProperties
  <2> QED
    BY <2>5
<1>4. ASSUME NEW s \in Keys, AddSign(s)
      PROVE  \E j \in DOMAIN op'.signs : op'.signs[j].by = k /\ op'.signs[j].at = signs[i].at
  <2>1. PICK sign : op' = [op EXCEPT !.signs = <<sign>> \o signs] /\ sign \in Signature
    <3>1. PICK at \in {Template, Own}, base \in bases :
            Change(<<[signer |-> s, by |-> s, over |-> base, at |-> at]>> \o signs)
      BY <1>4 DEF AddSign
    <3>2. [signer |-> s, by |-> s, over |-> base, at |-> at] \in Signature
      BY DEF IInv, BasesAsFilled, Signature
    <3> QED
      BY <3>1, <3>2 DEF Change
  <2>2. op'.signs = <<sign>> \o signs
    BY <1>1, <2>1 DEF Operations
  <2>3. <<sign>> \in Seq(Signature) /\ Len(<<sign>>) = 1
    BY <2>1
  <2>4. i + 1 \in DOMAIN op'.signs /\ op'.signs[i + 1] = signs[i]
    BY <1>1, <2>2, <2>3, ConcatProperties
  <2> QED
    BY <2>4
<1>5. ASSUME NEW send \in BOOLEAN, BuildOperation(send)
      PROVE  \E j \in DOMAIN op'.signs : op'.signs[j].by = k /\ op'.signs[j].at = signs[i].at
  <2>1. CASE op' = op
    BY <2>1
  <2>2. CASE op' # op
    <3>1. op' = [op EXCEPT !.signs = updateFactSigns(signs)]
      BY <1>5, <2>2 DEF BuildOperation
    <3>2. op'.signs = updateFactSigns(signs)
      BY <1>1, <3>1 DEF Operations
    <3>3. calls \in 0..MaxCalls /\ calls < MaxCalls
      BY <1>5 DEF IInv, BuildOperation, Call
    <3> QED
      BY <1>1, <3>2, <3>3, UpdatedSigns
  <2> QED
    BY <2>1, <2>2
<1>6. BuildFact => op' = op
  <2>1. ASSUME Make(Rebuilt(draft))
        PROVE  FALSE
    BY <2>1 DEF Make
  <2> QED
    BY <2>1 DEF BuildFact
<1>7. CASE Alter
  <2>1. PICK field \in op.fact.unset : op' = [op EXCEPT !.fact.unset = @ \ {field}]
    BY <1>7 DEF Alter
  <2>2. op'.signs = signs
    BY <1>1, <2>1 DEF Operations
  <2> QED
    BY <2>2
<1>8. CASE op' = op
  BY <1>8
<1>9. Fill \/ Compose => FALSE
  BY DEF Fill, Compose
<1>10. ASSUME NEW type \in Types, FactTemplate(type)
       PROVE  op' = op
  BY <1>10 DEF FactTemplate
<1>11. sendItem \/ SendSeal \/ UNCHANGED vars => op' = op
  BY DEF sendItem, SendSeal, client, vars
<1>12. ASSUME NEW command \in Commands, NEW id \in Ids, Run(command, id)
       PROVE  op' = op
  BY <1>12 DEF Run, client
<1> HIDE DEF signs
<1> QED
  BY <1>3, <1>4, <1>5, <1>6, <1>7, <1>8, <1>9, <1>10, <1>11, <1>12 DEF Next

\* A sign keeps its time until BuildFact makes a new operation.
THEOREM TimesStay == Spec => SignTimesKept
<1>1. IInv /\ [Next]_vars =>
        [\A k \in Keys :
           op # None /\ op'.signs # <<TemplateSign>> => TimesOf(op, k) \subseteq TimesOf(op', k)]_vars
  BY SignTimesStep
<1> QED
  BY <1>1, Invariance, PTL DEF Spec, SignTimesKept

-----------------------------------------------------------------------------
(* The user of the commands. *)

\* The items of the last operation of a type in a seal are a sequence of ids.
LEMMA LastOfType ==
  ASSUME NEW s \in Seq(SealOperations), NEW type, {i \in DOMAIN s : s[i].type = type} # {}
  PROVE  s[Max({i \in DOMAIN s : s[i].type = type})].items \in Seq(Ids)
<1> DEFINE own == {i \in DOMAIN s : s[i].type = type}
<1>1. own \in SUBSET (0..Len(s)) /\ own # {}
  OBVIOUS
<1>2. Max(own) \in own
  <2>1. Len(s) \in Nat
    OBVIOUS
  <2> HIDE DEF own
  <2> QED
    BY <1>1, <2>1, MaxOfNaturals
<1>3. s[Max(own)] \in SealOperations
  BY <1>2
<1> QED
  BY <1>3 DEF SealOperations

\* The items that a command takes over, from the seal or in the end from the first one.
LEMMA TakenTypes ==
  ASSUME SealTypes, NEW type
  PROVE  /\ seal # None => TakenItems(type) \in Seq(Ids)
         /\ FirstTaken(type) \in Seq(Ids)
<1>1. ASSUME seal # None
      PROVE  TakenItems(type) \in Seq(Ids)
  <2> DEFINE own == {i \in DOMAIN seal : seal[i].type = type}
  <2>1. seal \in Seq(SealOperations)
    BY <1>1 DEF SealTypes
  <2>2. own # {} => seal[Max(own)].items \in Seq(Ids)
    BY <2>1, LastOfType
  <2> QED
    BY <2>2 DEF TakenItems
<1>2. FirstTaken(type) \in Seq(Ids)
  <2> DEFINE own == {i \in DOMAIN first : first[i].type = type}
  <2>1. first # None => first \in Seq(SealOperations)
    BY DEF SealTypes
  <2>2. first # None /\ own # {} => first[Max(own)].items \in Seq(Ids)
    BY <2>1, LastOfType
  <2> QED
    BY <2>2 DEF FirstTaken
<1> QED
  BY <1>1, <1>2

\* What a command is asked for and what it writes.
LEMMA RunTypes ==
  ASSUME SealTypes, NEW command \in Commands, NEW id \in Ids, Run(command, id)
  PROVE  /\ SealTypes'
         /\ asked' = Append(asked, <<Made(command), id>>)
         /\ Len(asked') = Len(asked) + 1
         /\ asked'[Len(asked) + 1] = <<Made(command), id>>
         /\ \A i \in 1..Len(asked) : asked'[i] = asked[i]
         /\ seal' # None
<1> DEFINE made == Made(command)
           taken == IF seal = None THEN <<>> ELSE TakenItems(made)
<1>1. made \in {Made(c) : c \in Commands}
  OBVIOUS
<1>2. asked \in Seq({Made(c) : c \in Commands} \X Ids)
  BY DEF SealTypes
<1>3. asked' = Append(asked, <<made, id>>)
  BY DEF Run
<1>4. <<made, id>> \in {Made(c) : c \in Commands} \X Ids
  BY <1>1
<1>5. /\ asked' \in Seq({Made(c) : c \in Commands} \X Ids)
      /\ Len(asked') = Len(asked) + 1 /\ asked'[Len(asked) + 1] = <<made, id>>
      /\ \A i \in 1..Len(asked) : asked'[i] = asked[i]
  <2> HIDE DEF made
  <2> QED
    BY <1>2, <1>3, <1>4, AppendProperties
<1>6. seal' = <<[type |-> made, items |-> Append(taken, id)]>>
  BY DEF Run
<1>7. taken \in Seq(Ids)
  BY TakenTypes
<1>8. [type |-> made, items |-> Append(taken, id)] \in SealOperations
  <2>1. Append(taken, id) \in Seq(Ids)
    BY <1>7
  <2> QED
    BY <1>1, <2>1 DEF SealOperations
<1>9. seal' \in Seq(SealOperations)
  BY <1>6, <1>8
<1>10. seal' # None
  BY <1>9, SealsAssumption
<1>11. SealTypes'
  BY <1>5, <1>9 DEF SealTypes, Run
<1> QED
  BY <1>3, <1>5, <1>10, <1>11

\* The first command of a chain takes over the items of the first seal.
LEMMA FirstCommand ==
  ASSUME UInv, NEW command \in Commands, NEW id \in Ids, Run(command, id), asked = <<>>
  PROVE  UInv'
<1> DEFINE made == Made(command)
<1>1. /\ Len(asked') = 1 /\ asked'[1] = <<made, id>> /\ SealTypes' /\ asked' # <<>>
      /\ SealTypes /\ seal = first /\ first' = first /\ seal' # None
  BY RunTypes DEF UInv, Run
<1>2. {i \in 1..1 : asked'[i][1] # made} = {}
  BY <1>1
<1>3. Since' = 0
  <2>1. Since' = Max({0} \cup {i \in 1..1 : asked'[i][1] # made})
    BY <1>1 DEF Since
  <2>2. Since' = Max({0})
    BY <1>2, <2>1
  <2>3. Max({0}) = 0
    BY DEF Max
  <2> QED
    BY <2>2, <2>3
<1>4. FirstTaken(made)' = IF seal = None THEN <<>> ELSE TakenItems(made)
  BY <1>1, <1>3 DEF FirstTaken, TakenItems
<1>5. FirstTaken(made)' \in Seq(Ids)
  BY <1>1, <1>4, TakenTypes
<1>6. seal' = <<[type |-> made, items |-> Append(FirstTaken(made)', id)]>>
  BY <1>4 DEF Run
<1>7. Append(FirstTaken(made)', id) = FirstTaken(made)' \o <<id>>
  <2> DEFINE kept == FirstTaken(made)'
  <2>1. kept \in Seq(Ids)
    BY <1>5
  <2> HIDE DEF kept
  <2>2. Append(kept, id) = kept \o <<id>>
    BY <2>1
  <2> QED
    BY <2>2 DEF kept
<1>8. [i \in 1..(1 - 0) |-> asked'[0 + i][2]] = <<id>>
  BY <1>1
<1>9. ItemsKept'
  BY <1>1, <1>3, <1>6, <1>7, <1>8 DEF ItemsKept
<1>10. Since' \in 0..(1 - 1)
  BY <1>3
<1> QED
  BY <1>1, <1>9, <1>10 DEF UInv

\* A command that makes the type of the one before adds its item to the others.
LEMMA SameCommand ==
  ASSUME UInv, NEW command \in Commands, NEW id \in Ids, Run(command, id),
         asked # <<>>, asked[Len(asked)][1] = Made(command)
  PROVE  UInv'
<1> DEFINE made == Made(command)
           last == Len(asked)
<1>1. /\ SealTypes /\ SealTypes' /\ first' = first
      /\ Len(asked') = last + 1 /\ asked'[last + 1] = <<made, id>> /\ asked' # <<>>
      /\ \A i \in 1..last : asked'[i] = asked[i]
  <2>1. SealTypes /\ first' = first
    BY DEF UInv, Run
  <2> QED
    BY <2>1, RunTypes
<1> DEFINE since == Since
           ids == [i \in 1..(last - since) |-> asked[since + i][2]]
           kept == FirstTaken(made)
<1>2. last \in Nat \ {0} /\ since \in 0..(last - 1)
  <2>1. asked \in Seq({Made(c) : c \in Commands} \X Ids)
    BY <1>1 DEF SealTypes
  <2> QED
    BY <2>1 DEF UInv
<1>3. {i \in 1..(last + 1) : asked'[i][1] # made} = {i \in 1..last : asked[i][1] # made}
  BY <1>1, <1>2
<1>4. Since' = since
  <2>1. Since = Max({0} \cup {i \in 1..last : asked[i][1] # made})
    BY DEF Since
  <2>2. Since' = Max({0} \cup {i \in 1..(last + 1) : asked'[i][1] # made})
    BY <1>1 DEF Since
  <2> QED
    BY <1>3, <2>1, <2>2
<1>5. FirstTaken(made)' = kept
  BY <1>1, <1>4 DEF FirstTaken
<1>6. seal = <<[type |-> made, items |-> kept \o ids]>>
  BY DEF UInv, ItemsKept
<1>7. kept \in Seq(Ids) /\ ids \in Seq(Ids)
  <2>1. kept \in Seq(Ids)
    BY <1>1, TakenTypes
  <2>2. asked \in Seq({Made(c) : c \in Commands} \X Ids)
    BY <1>1 DEF SealTypes
  <2>3. last - since \in Nat /\ \A i \in 1..(last - since) : since + i \in 1..last
    BY <1>2
  <2>4. \A i \in 1..(last - since) : asked[since + i][2] \in Ids
    <3>1. \A j \in 1..last : asked[j] \in {Made(c) : c \in Commands} \X Ids
      BY <2>2
    <3>2. \A j \in 1..last : asked[j][2] \in Ids
      BY <3>1
    <3> QED
      BY <2>3, <3>2
  <2> HIDE DEF last, since
  <2> QED
    BY <2>1, <2>3, <2>4
<1>8. TakenItems(made) = kept \o ids
  <2>1. {i \in DOMAIN seal : seal[i].type = made} = {1}
    BY <1>6
  <2>2. Max({1}) = 1
    BY DEF Max
  <2>3. seal[1].items = kept \o ids
    BY <1>6
  <2> QED
    BY <2>1, <2>2, <2>3 DEF TakenItems
<1>9. seal' = <<[type |-> made, items |-> kept \o Append(ids, id)]>>
  <2>1. seal # None
    BY DEF UInv
  <2>2. seal' = <<[type |-> made, items |-> Append(kept \o ids, id)]>>
    BY <1>8, <2>1 DEF Run
  <2>3. Append(kept \o ids, id) = kept \o Append(ids, id)
    <3> HIDE DEF kept, ids
    <3> QED
      BY <1>7
  <2> QED
    BY <2>2, <2>3
<1>10. [i \in 1..((last + 1) - since) |-> asked'[since + i][2]] = Append(ids, id)
  <2> DEFINE n == last - since
  <2>1. n \in Nat /\ (last + 1) - since = n + 1 /\ since + (n + 1) = last + 1
    BY <1>2
  <2>2. \A i \in 1..n : asked'[since + i][2] = asked[since + i][2]
    BY <1>1, <1>2
  <2>3. asked'[since + (n + 1)][2] = id
    BY <1>1, <2>1
  <2>4. Append(ids, id) = [i \in 1..(n + 1) |-> IF i = n + 1 THEN id ELSE asked[since + i][2]]
    <3> HIDE DEF n
    <3>1. ids = [i \in 1..n |-> asked[since + i][2]]
      BY DEF n
    <3> HIDE DEF ids
    <3>2. Len(ids) = n
      BY <1>7, <2>1, <3>1
    <3> QED
      BY <1>7, <2>1, <3>1, <3>2
  <2>5. \A i \in 1..(n + 1) : asked'[since + i][2] = IF i = n + 1 THEN id ELSE asked[since + i][2]
    BY <2>1, <2>2, <2>3
  <2> HIDE DEF n, last, since, ids
  <2> QED
    BY <2>1, <2>4, <2>5
<1>11. ItemsKept'
  <2> HIDE DEF ids, kept, since, last, made
  <2>1. asked'[Len(asked')][1] = made
    BY <1>1
  <2> QED
    BY <1>1, <1>4, <1>5, <1>9, <1>10, <2>1 DEF ItemsKept
<1>12. Since' \in 0..((last + 1) - 1)
  BY <1>2, <1>4
<1> QED
  BY <1>1, <1>11, <1>12, RunTypes DEF UInv

\* A command that makes another type than the one before starts with its own item.
LEMMA OtherCommand ==
  ASSUME UInv, NEW command \in Commands, NEW id \in Ids, Run(command, id),
         asked # <<>>, asked[Len(asked)][1] # Made(command)
  PROVE  UInv'
<1> DEFINE made == Made(command)
           last == Len(asked)
           others == {0} \cup {i \in 1..(last + 1) : asked'[i][1] # made}
<1>1. /\ SealTypes /\ SealTypes'
      /\ Len(asked') = last + 1 /\ asked'[last + 1] = <<made, id>> /\ asked' # <<>>
      /\ \A i \in 1..last : asked'[i] = asked[i]
  BY RunTypes DEF UInv
<1>2. last \in Nat \ {0}
  <2>1. asked \in Seq({Made(c) : c \in Commands} \X Ids)
    BY <1>1 DEF SealTypes
  <2> QED
    BY <2>1
<1>3. Since' = last
  <2>1. Since' = Max(others)
    BY <1>1 DEF Since
  <2>2. last \in others /\ \A i \in others : i \in 0..last
    BY <1>1, <1>2
  <2>3. \A x \in others : (\A y \in others : x >= y) => x = last
    BY <1>2, <2>2
  <2>4. Max(others) = last
    <3> HIDE DEF others
    <3>1. \A y \in others : last >= y
      BY <1>2, <2>2
    <3> QED
      BY <2>2, <2>3, <3>1 DEF Max
  <2> QED
    BY <2>1, <2>4
<1>4. FirstTaken(made)' = <<>>
  BY <1>2, <1>3 DEF FirstTaken
<1>5. seal # None /\ TakenItems(made) = <<>>
  <2>1. PICK items : seal = <<[type |-> asked[last][1], items |-> items]>>
    BY DEF UInv, ItemsKept
  <2>2. {i \in DOMAIN seal : seal[i].type = made} = {}
    BY <2>1
  <2> QED
    BY <2>2 DEF TakenItems, UInv
<1>6. seal' = <<[type |-> made, items |-> <<>> \o <<id>>]>>
  BY <1>5 DEF Run
<1>7. [i \in 1..((last + 1) - last) |-> asked'[last + i][2]] = <<id>>
  BY <1>1, <1>2
<1>8. ItemsKept'
  BY <1>1, <1>3, <1>4, <1>6, <1>7 DEF ItemsKept
<1>9. Since' \in 0..((last + 1) - 1)
  BY <1>2, <1>3
<1> QED
  BY <1>1, <1>8, <1>9, RunTypes DEF UInv

LEMMA InitUInv == Init => UInv
<1> SUFFICES ASSUME Init
             PROVE  UInv
  OBVIOUS
<1>1. asked = <<>> /\ seal = first /\ sentSeals = {}
  BY DEF Init
<1>2. seal \in {None} \cup Seq(SealOperations)
  BY SealsAssumption DEF Init
<1> QED
  BY <1>1, <1>2 DEF UInv, SealTypes, ItemsKept

LEMMA NextUInv == UInv /\ [Next]_vars => UInv'
<1> SUFFICES ASSUME UInv, [Next]_vars
             PROVE  UInv'
  OBVIOUS
<1>1. ASSUME UNCHANGED user
      PROVE  UInv'
  BY <1>1 DEF user, UInv, SealTypes, ItemsKept, FirstTaken, Since
<1>2. ASSUME NEW command \in Commands, NEW id \in Ids, Run(command, id)
      PROVE  UInv'
  BY <1>2, FirstCommand, SameCommand, OtherCommand
<1>3. CASE SendSeal
  <2>1. seal \in Seq(SealOperations) /\ sentSeals' = sentSeals \cup {seal}
        /\ UNCHANGED <<seal, first, asked>>
    BY <1>3 DEF SendSeal, LoadSeal, UInv, SealTypes
  <2> QED
    BY <2>1 DEF UInv, SealTypes, ItemsKept, FirstTaken, Since
<1>4. \A type \in Types : FactTemplate(type) => UNCHANGED user
  BY DEF FactTemplate
<1>5. Fill \/ BuildFact \/ Compose \/ Alter \/ sendItem => UNCHANGED user
  BY DEF Fill, BuildFact, Compose, Alter, sendItem
<1>6. \A k \in Keys : Sign(k) \/ AddSign(k) => UNCHANGED user
  BY DEF Sign, AddSign, Change
<1>7. \A send \in BOOLEAN : BuildOperation(send) => UNCHANGED user
  BY DEF BuildOperation
<1>8. UNCHANGED vars => UNCHANGED user
  BY DEF vars
<1> QED
  BY <1>1, <1>2, <1>3, <1>4, <1>5, <1>6, <1>7, <1>8 DEF Next

\* The seal holds the items of the chain of commands, in their order, whatever the first
\* seal, the items allowed and the number of commands are.
THEOREM ChainKeepsItems == Spec => []ItemsKept
<1>1. UInv => ItemsKept
  BY DEF UInv
<1> QED
  BY <1>1, InitUInv, NextUInv, PTL DEF Spec

-----------------------------------------------------------------------------
(* Type correctness. *)

\* The variables of the client that IInv does not type, and the times of an answer.
ClientTypes ==
  /\ way \in Ways
  /\ builder \in BOOLEAN /\ checked \in BOOLEAN /\ refused \in {"fact", "sign", "nothing"}
  /\ checked => \A i \in DOMAIN op.signs : op.signs[i].at # Template

LEMMA InitClientTypes == Init => ClientTypes
BY DEF Init, ClientTypes

LEMMA NextClientTypes == IInv /\ ClientTypes /\ [Next]_vars => ClientTypes'
<1> SUFFICES ASSUME IInv, ClientTypes, [Next]_vars
             PROVE  ClientTypes'
  OBVIOUS
<1>1. \A type \in Types : FactTemplate(type) => ClientTypes'
  BY DEF FactTemplate, ClientTypes
<1>2. Fill => ClientTypes'
  BY DEF Fill, ClientTypes
<1>3. BuildFact => ClientTypes'
  BY DEF BuildFact, Make, Call, ClientTypes
<1>4. Compose => ClientTypes'
  BY DEF Compose, Make, ClientTypes
<1>5. \A k \in Keys : Sign(k) \/ AddSign(k) => ClientTypes'
  BY DEF Sign, AddSign, Change, ClientTypes
<1>6. Alter => ClientTypes'
  BY DEF Alter, ClientTypes
<1>7. ASSUME NEW send \in BOOLEAN, BuildOperation(send)
      PROVE  ClientTypes'
  <2>1. CASE op.fact.type \in Known /\ IsValid(op) /\ isValidFact(op.fact)
    <3>1. op \in Operations /\ op.signs \in Seq(Signature) /\ calls \in 0..MaxCalls
      BY <1>7 DEF BuildOperation, IInv, OperationAsFilled, Operations
    <3>2. op' = [op EXCEPT !.signs = updateFactSigns(op.signs)]
          /\ checked' = TRUE /\ refused' = "nothing" /\ UNCHANGED <<way, builder>>
      BY <1>7, <2>1 DEF BuildOperation, Call
    <3>3. op'.signs = updateFactSigns(op.signs)
      BY <3>1, <3>2 DEF Operations
    <3>4. \A i \in DOMAIN op'.signs : op'.signs[i].at # Template
      <4> SUFFICES ASSUME NEW i \in DOMAIN op.signs
                   PROVE  updateFactSigns(op.signs)[i].at # Template
        BY <3>3 DEF updateFactSigns
      <4>1. op.signs[i] \in Signature
        BY <3>1
      <4>2. calls + 1 # Template
        BY <3>1, MakingAssumption DEF Template
      <4> QED
        BY <4>1, <4>2 DEF updateFactSigns, Signature
    <3> QED
      BY <3>2, <3>4 DEF ClientTypes
  <2>2. CASE ~(op.fact.type \in Known /\ IsValid(op) /\ isValidFact(op.fact))
    BY <1>7, <2>2 DEF BuildOperation, Call, ClientTypes
  <2> QED
    BY <2>1, <2>2
<1>8. sendItem => ClientTypes'
  BY DEF sendItem, Call, ClientTypes
<1>9. \A command \in Commands, id \in Ids : Run(command, id) => ClientTypes'
  BY DEF Run, Call, client, ClientTypes
<1>10. SendSeal => ClientTypes'
  BY DEF SendSeal, client, ClientTypes
<1>11. UNCHANGED vars => ClientTypes'
  BY DEF vars, client, ClientTypes
<1> QED
  BY <1>1, <1>2, <1>3, <1>4, <1>5, <1>6, <1>7, <1>8, <1>9, <1>10, <1>11 DEF Next

\* Every variable stays in its type, and no time of the template is left in an operation
\* that BuildOperation answered.
THEOREM TypeCorrect == Spec => []TypeOK
<1>1. IInv /\ UInv /\ ClientTypes => TypeOK
  <2> SUFFICES ASSUME IInv, UInv, ClientTypes
               PROVE  TypeOK
    OBVIOUS
  <2>1. draft \in Fact \cup {None} /\ op \in Operations \cup {None} /\ bases \subseteq Fact
    BY DEF IInv, BasesAsFilled, OperationAsFilled
  <2> QED
    BY <2>1 DEF IInv, UInv, ClientTypes, TypeOK
<1> QED
  BY <1>1, Invariance, InitUInv, NextUInv, InitClientTypes, NextClientTypes, InitIInv, NextIInv,
     PTL DEF Spec
=============================================================================
