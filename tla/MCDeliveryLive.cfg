SPECIFICATION FairSpec
CONSTANTS
  own = own
  foreign = foreign
  Directory <- MCDirectory
  SmtpSessions = {s1}
  PopSessions = {p1}
  Address = {own}
  UserID = {1}
  MaxID = 2
  MaxFaults = 1
  NoRow = NoRow
  MaxLocal = 2
  MaxRemote = 1
  MaxLogins = 0
  MaxMails = 2
  MaxLines = 1
  MaxItems = 1
  MaxCrashes = 1
INVARIANTS
  AcceptedIsKept
PROPERTIES
  OnlyMarkedTaken
  ImplementsContract
  CallbacksEnd
