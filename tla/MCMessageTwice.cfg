SPECIFICATION Spec
CONSTANTS
  her = her
  both = both
  lenient = lenient
  strict = strict
  foreign = foreign
  other = other
  Directory <- MCDirectory
  SmtpSessions = {s1}
  Address = {her}
  UserID = {1, 2, 3}
  MaxID = 2
  MaxFaults = 0
  NoRow = NoRow
  MaxLocal = 2
  MaxRemote = 1
  MaxLogins = 2
  MaxMails = 2
  MaxLines = 1
INVARIANT
  OneMailPerBody
