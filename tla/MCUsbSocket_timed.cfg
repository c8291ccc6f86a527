CONSTANTS
  Apps <- MCApps
  AcceptTos <- MCAcceptTimed
  Backends <- MCLinux
SPECIFICATION FairSpec
PROPERTY WakeLeadsToConnection
