----------------------------- MODULE MailContract ----------------------------
(***************************************************************************)
(* What the daemon promises about mail, without sessions, statements or    *)
(* crashes.  A mail is stored as one item for each recipient who has an    *)
(* account here (a remote one may be named twice), under a number that is  *)
(* given once; the item is taken once.  A mail is acknowledged once, for   *)
(* recipients whose items have been stored, and nothing of it is stored    *)
(* afterwards.                                                             *)
(***************************************************************************)
CONSTANTS ID, Mail, Rcpt,
          Single      \* the recipients for whom a mail is stored once

VARIABLES stored,   \* the items that wait for their recipients
          accepted, \* the mails that have been acknowledged, with recipients
          taken     \* the items that have been taken away

contractVars == <<stored, accepted, taken>>

Items == stored \cup taken

Init ==
  /\ stored = {}
  /\ accepted = {}
  /\ taken = {}

Acknowledged(mail) == \E a \in accepted : a.mail = mail

Store(id, mail, rcpt) ==
  /\ \A item \in Items : /\ item.id # id
                         /\ ~(item.mail = mail /\ item.rcpt = rcpt
                              /\ rcpt \in Single)
  /\ ~Acknowledged(mail)
  /\ stored' = stored \cup {[id |-> id, mail |-> mail, rcpt |-> rcpt]}
  /\ UNCHANGED <<accepted, taken>>

Acknowledge(mail, rcpts) ==
  /\ ~Acknowledged(mail)
  /\ \A r \in rcpts :
       \E item \in Items : item.mail = mail /\ item.rcpt = r
  /\ accepted' = accepted \cup {[mail |-> mail, rcpt |-> r] : r \in rcpts}
  /\ UNCHANGED <<stored, taken>>

Take(item) ==
  /\ stored' = stored \ {item}
  /\ taken' = taken \cup {item}
  /\ UNCHANGED accepted

Next ==
  \/ \E id \in ID, mail \in Mail, rcpt \in Rcpt : Store(id, mail, rcpt)
  \/ \E mail \in Mail : \E rcpts \in SUBSET Rcpt : Acknowledge(mail, rcpts)
  \/ \E item \in stored : Take(item)

Spec == Init /\ [][Next]_contractVars
==============================================================================
