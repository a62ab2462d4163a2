------------------------------ MODULE Recipients -----------------------------
(***************************************************************************)
(* The list of the local recipients of a mail, which class Message keeps   *)
(* in an array of fixed length, and the rows of table Addresses that RCPT  *)
(* adds to it.                                                             *)
(***************************************************************************)
EXTENDS Integers, Sequences, SequencesExt

CONSTANT MaxLocal      \* MAX_LOCAL_ADDRESSES

ASSUME RecipientsAssumption == MaxLocal \in Nat \ {0}

\* Fault: a user who is on the list already is put on it again.
AddUserTwice(users, user) ==
  IF Len(users) < MaxLocal THEN Append(users, user) ELSE users

\* Fault: the limit is off by one.
AddUserOneMore(users, user) ==
  IF Len(users) <= MaxLocal /\ user \notin ToSet(users)
    THEN Append(users, user)
    ELSE users

AddUser(users, user) ==
  IF Len(users) < MaxLocal /\ user \notin ToSet(users)
    THEN Append(users, user)
    ELSE users

\* The list after the first rows of an answer, by their number.
Added(users, rows) ==
  LET added[n \in 0..Len(rows)] ==
        IF n = 0 THEN users ELSE AddUser(added[n - 1], rows[n])
  IN  added

AddUsers(users, rows) == Added(users, rows)[Len(rows)]
==============================================================================
