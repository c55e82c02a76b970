\* Two senders register the same document id in one proposal.
SPECIFICATION Spec
CONSTANTS
  Accounts <- MCAccounts
  Keys <- MCKeys
  DocIds <- MCDocIds
  Currencies <- MCCurrencies
  Fee <- MCFee
  FeeReceiver = "bob"
  Ops <- DocumentOps
  Fact <- MCFact
  NoAccount = NoAccount
  NoDoc = NoDoc
  Genesis <- MCGenesis
  MaxItems = 2
  MaxProposal = 3
INVARIANTS
  RegisteredOnce
