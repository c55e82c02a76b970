\* Document and currency operations in the same proposals.
SPECIFICATION Spec
CONSTANTS
  Accounts <- MCAccounts
  Keys <- MCKeys
  DocIds <- MCDocIds
  Currencies <- MCCurrencies
  Fee <- MCFee
  FeeReceiver = "bob"
  Ops <- MixedOps
  Fact <- MCFact
  NoAccount = NoAccount
  NoDoc = NoDoc
  Genesis <- MCGenesis
  MaxItems = 2
  MaxProposal = 3
INVARIANTS
  TypeOK
  EntriesRegistered
  DocumentsListed
  AppendSucceeds
  NoOverdraft
  FeesCollected
  SupplyConserved
  AccountCreatedOnce
PROPERTIES
  OwnerStable
  ImplementsRegistry
  SignaturesKept
  SignaturesSent
  SignedOrOverwritten
  IncludedAuthorised
