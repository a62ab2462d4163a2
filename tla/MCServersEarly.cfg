SPECIFICATION Spec
CONSTANTS
  PopPorts <- MCPopPorts
  SmtpPorts <- MCSmtpPorts
  MaxTries = 2
  Sessions = {c1, c2}
  NoSession = NoSession
INVARIANT
  DataAttached
