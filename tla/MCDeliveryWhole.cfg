SPECIFICATION Spec
CONSTANTS
  own = own
  foreign = foreign
  Directory <- MCDirectory
  SmtpSessions = {s1}
  PopSessions = {p1}
  Address = {own}
  UserID = {1}
  MaxID = 1
  MaxFaults = 0
  NoRow = NoRow
  MaxLocal = 2
  MaxRemote = 1
  MaxLogins = 0
  MaxMails = 1
  MaxLines = 1
  MaxItems = 2
  MaxCrashes = 0
INVARIANT
  CollectedWhole
