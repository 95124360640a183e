SPECIFICATION Spec
CONSTANTS
  NClients = 2
  Peers <- MCPeers
  PerClientMaxSize = 1
  Items <- MCItems
  EndOfEpoch = EndOfEpoch
  Nothing = Nothing
  MaxOverflow = 1
  MaxCrashes = 2
INVARIANTS
  CreditConserved
  FailureHasCause
PROPERTIES
  ImplementsFanOut
  PutReturns
  NoClientStarved
CHECK_DEADLOCK FALSE
