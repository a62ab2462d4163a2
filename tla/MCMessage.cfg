SPECIFICATION Spec
CONSTANTS
  her = her
  both = both
  lenient = lenient
  strict = strict
  foreign = foreign
  other = other
  Directory <- MCDirectory
  SmtpSessions = {s1}
  Address = {her, both, lenient, strict, foreign}
  UserID = {1, 2, 3}
  MaxID = 6
  MaxFaults = 0
  NoRow = NoRow
  MaxLocal = 2
  MaxRemote = 1
  MaxLogins = 2
  MaxMails = 2
  MaxLines = 2
INVARIANTS
  MessageTypeOK
  AcceptedIsStored
  NoDuplicateCopies
  NoOpenRelay
  SaveAssertionsHold
PROPERTY
  OnlyNamedRecipients
