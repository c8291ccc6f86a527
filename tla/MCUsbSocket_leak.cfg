CONSTANTS
  Apps <- MCPilotConnect
  AcceptTos <- MCAcceptWait
  Backends <- MCLinux
SPECIFICATION Spec
INVARIANT NoLeakOnFailure
