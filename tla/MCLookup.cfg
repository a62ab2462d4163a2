SPECIFICATION Spec
CONSTANTS
  her = her
  pm = pm
  Clients = {c1, c2}
  Domain = {1, 2}
  Name = {her, pm}
  Postmaster = pm
  UserID = {1, 2, 3}
  Addresses <- MCAddresses
  Absent = Absent
  Junk = Junk
  MaxLocal = 2
  MaxRcpts = 2
  MaxFaults = 1
  MaxChanges = 1
SYMMETRY Symmetry
INVARIANTS
  LookupTypeOK
  RejectIsFresh
  AnswerFollowsTables
  ConfirmedIsListed
  LookupAssertionsHold
