-------------------------- MODULE MailContractProofs -------------------------
(***************************************************************************)
(* What follows from MailContract, for any numbers, mails and recipients,  *)
(* and so for the daemon, which implements it.                             *)
(***************************************************************************)
EXTENDS MailContract, TLAPS

\* What was acknowledged is there, or was taken.
Covered ==
  \A a \in accepted :
    \E item \in Items : item.mail = a.mail /\ item.rcpt = a.rcpt

\* A number is given once, and a mail stored once for each single recipient.
Distinct ==
  \A x, y \in Items :
    \/ x.id = y.id
    \/ x.mail = y.mail /\ x.rcpt = y.rcpt /\ x.rcpt \in Single
    => x = y

\* An item that was taken does not come back.
TakenOnce == stored \cap taken = {}

Promise == Covered /\ Distinct /\ TakenOnce

LEMMA InitPromise == Init => Promise
BY DEF Init, Promise, Covered, Distinct, TakenOnce, Items

LEMMA StorePromise ==
  ASSUME Promise, NEW id, NEW mail, NEW rcpt, Store(id, mail, rcpt)
  PROVE  Promise'
<1> DEFINE new == [id |-> id, mail |-> mail, rcpt |-> rcpt]
<1>1. /\ new.id = id /\ new.mail = mail /\ new.rcpt = rcpt
      /\ \A x \in Items :
           x.id # id /\ ~(x.mail = mail /\ x.rcpt = rcpt /\ rcpt \in Single)
      /\ stored' = stored \cup {new} /\ accepted' = accepted /\ taken' = taken
  BY DEF Store
<1> HIDE DEF new
<1>2. Items' = Items \cup {new}
  BY <1>1 DEF Items
<1>3. Covered'
  BY <1>1, <1>2 DEF Promise, Covered
<1>4. Distinct'
  BY <1>1, <1>2 DEF Promise, Distinct
<1>5. TakenOnce'
  BY <1>1 DEF Promise, TakenOnce, Items
<1> QED
  BY <1>3, <1>4, <1>5 DEF Promise

LEMMA AcknowledgePromise ==
  ASSUME Promise, NEW mail, NEW rcpts, Acknowledge(mail, rcpts)
  PROVE  Promise'
<1>1. Items' = Items /\ stored' = stored /\ taken' = taken
  BY DEF Acknowledge, Items
<1>2. ASSUME NEW a \in accepted'
      PROVE  \E item \in Items : item.mail = a.mail /\ item.rcpt = a.rcpt
  <2>1. CASE a \in accepted
    BY <2>1 DEF Promise, Covered
  <2>2. CASE a \notin accepted
    <3>1. PICK r \in rcpts : a = [mail |-> mail, rcpt |-> r]
      BY <1>2, <2>2 DEF Acknowledge
    <3>2. \E item \in Items : item.mail = mail /\ item.rcpt = r
      BY DEF Acknowledge
    <3> QED
      BY <3>1, <3>2
  <2> QED
    BY <2>1, <2>2
<1> QED
  BY <1>1, <1>2 DEF Promise, Covered, Distinct, TakenOnce

LEMMA TakePromise ==
  ASSUME Promise, NEW item \in stored, Take(item)
  PROVE  Promise'
<1>1. Items' = Items /\ accepted' = accepted
  BY DEF Take, Items
<1>2. TakenOnce'
  BY DEF Promise, TakenOnce, Take
<1> QED
  BY <1>1, <1>2 DEF Promise, Covered, Distinct

(***************************************************************************)
(* A mail that was acknowledged is there for each of its recipients until  *)
(* it is taken, no number stands for two items, no mail is stored twice    *)
(* for a single recipient, and what was taken does not come back.          *)
(***************************************************************************)
THEOREM ContractPromise == Spec => []Promise
<1>1. Promise /\ [Next]_contractVars => Promise'
  <2> SUFFICES ASSUME Promise, [Next]_contractVars PROVE Promise'
    OBVIOUS
  <2>1. CASE UNCHANGED contractVars
    BY <2>1 DEF contractVars, Promise, Covered, Distinct, TakenOnce, Items
  <2> QED
    BY <2>1, StorePromise, AcknowledgePromise, TakePromise DEF Next
<1> QED
  BY InitPromise, <1>1, PTL DEF Spec
==============================================================================
