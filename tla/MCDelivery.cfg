SPECIFICATION Spec
CONSTANTS
  own = own
  foreign = foreign
  Directory <- MCDirectory
  SmtpSessions = {s1}
  PopSessions = {p1, p2}
  Address = {own}
  UserID = {1, 2}
  MaxID = 2
  MaxFaults = 0
  NoRow = NoRow
  MaxLocal = 3
  MaxRemote = 1
  MaxLogins = 0
  MaxMails = 1
  MaxLines = 1
  MaxItems = 1
  MaxCrashes = 0
SYMMETRY Symmetry
INVARIANTS
  AcceptedIsKept
  NumbersKeepTheirMeaning
PROPERTIES
  OnlyMarkedTaken
  ImplementsContract
