CONSTANTS
  Apps <- MCApps
  AcceptTos <- MCAcceptAll
  Backends <- MCBackends
SPECIFICATION FairSpec
INVARIANT TypeOK
INVARIANT ConnectedAfterHandshake
INVARIANT RateAgreement
PROPERTY WaitingAcceptConnects
PROPERTY ConnectReturns
