SPECIFICATION FairSpec
CONSTANTS
  PopPorts <- MCPopPorts
  SmtpPorts <- MCSmtpPorts
  MaxTries = 2
  Sessions = {c1, c2, c3}
  NoSession = NoSession
INVARIANTS
  ServersTypeOK
  SharedOutlivesUsers
  SessionsOwned
  CleanExit
  PortsServed
PROPERTY
  ShutdownEnds
