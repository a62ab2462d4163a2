--------------------------- MODULE RecipientsProofs --------------------------
(***************************************************************************)
(* What AddUsers makes of a list of recipients and the rows of an answer,  *)
(* whatever their number.                                                  *)
(***************************************************************************)
EXTENDS Recipients, WellFoundedInduction, TLAPS

\* Induction: what does not hold for every number has a least exception.
LEMMA Least ==
  ASSUME NEW T, T \subseteq Nat, T # {}
  PROVE  \E n \in T : \A m \in T : ~(m < n)
<1>1. IsWellFoundedOn(OpToRel(<, Nat), Nat)
  BY NatLessThanWellFounded
<1>2. PICK n \in T : \A m \in T : ~(<<m, n>> \in OpToRel(<, Nat))
  BY <1>1, WFMin, Zenon
<1>3. \A m \in T : ~(m < n)
  BY <1>2 DEF OpToRel
<1> QED
  BY <1>3

------------------------------------------------------------------------------
\* g is the list after each of the first n rows.
Counts(g, n, users, rows) ==
  g = [k \in 0..n |-> IF k = 0 THEN users ELSE AddUser(g[k - 1], rows[k])]

LEMMA CountsOneMore ==
  ASSUME NEW users, NEW rows, NEW n \in Nat \ {0}, NEW g,
         Counts(g, n - 1, users, rows)
  PROVE  \E h : Counts(h, n, users, rows)
<1> DEFINE h == [k \in 0..n |-> IF k = n THEN AddUser(g[n - 1], rows[n])
                                         ELSE g[k]]
<1>1. \A k \in 0..(n - 1) :
        g[k] = IF k = 0 THEN users ELSE AddUser(g[k - 1], rows[k])
  BY DEF Counts
<1>2. ASSUME NEW k \in 0..n
      PROVE  h[k] = IF k = 0 THEN users ELSE AddUser(h[k - 1], rows[k])
  <2>1. CASE k = n
    <3>1. h[k] = AddUser(g[n - 1], rows[n]) /\ h[k - 1] = g[n - 1]
      BY <2>1
    <3> QED
      BY <3>1, <2>1
  <2>2. CASE k # n
    <3>1. h[k] = g[k] /\ (k # 0 => h[k - 1] = g[k - 1])
      BY <2>2
    <3> QED
      BY <3>1, <1>1, <2>2
  <2> QED
    BY <2>1, <2>2
<1>3. h = [k \in 0..n |-> h[k]]
  OBVIOUS
<1> HIDE DEF h
<1>4. h = [k \in 0..n |-> IF k = 0 THEN users ELSE AddUser(h[k - 1], rows[k])]
  BY <1>2, <1>3
<1> QED
  BY <1>4 DEF Counts

LEMMA AddedCounts ==
  ASSUME NEW users, NEW rows, Len(rows) \in Nat
  PROVE  Counts(Added(users, rows), Len(rows), users, rows)
<1> DEFINE T == {n \in Nat : ~ \E g : Counts(g, n, users, rows)}
<1>1. T = {}
  <2> SUFFICES ASSUME T # {} PROVE FALSE
    OBVIOUS
  <2>1. PICK n \in T : \A m \in T : ~(m < n)
    BY Least
  <2>2. CASE n = 0
    <3>1. Counts([k \in 0..0 |-> users], 0, users, rows)
      BY DEF Counts
    <3> QED
      BY <3>1, <2>2
  <2>3. CASE n # 0
    <3>1. n - 1 \in Nat /\ n - 1 < n
      BY <2>3
    <3>2. PICK g : Counts(g, n - 1, users, rows)
      BY <2>1, <3>1
    <3> QED
      BY <2>3, <3>2, CountsOneMore
  <2> QED
    BY <2>2, <2>3
<1>2. \E g : Counts(g, Len(rows), users, rows)
  BY <1>1
<1> QED
  BY <1>2 DEF Added, Counts

------------------------------------------------------------------------------
Distinct(users) ==
  \A i, j \in 1..Len(users) : users[i] = users[j] => i = j

\* A list of recipients with no room for more than MaxLocal, and nobody twice.
IsList(users, S) ==
  /\ users \in Seq(S)
  /\ Distinct(users)
  /\ Len(users) <= MaxLocal

LEMMA AppendSet ==
  ASSUME NEW S, NEW users \in Seq(S), NEW user \in S
  PROVE  ToSet(Append(users, user)) = ToSet(users) \cup {user}
<1> DEFINE more == Append(users, user)
<1>1. /\ DOMAIN users = 1..Len(users) /\ Len(users) \in Nat
      /\ DOMAIN more = 1..(Len(users) + 1)
      /\ \A i \in 1..Len(users) : more[i] = users[i]
      /\ more[Len(users) + 1] = user
  OBVIOUS
<1> HIDE DEF more
<1>2. ToSet(more) = ToSet(users) \cup {user}
  BY <1>1 DEF ToSet
<1> QED
  BY <1>2 DEF more

LEMMA ConcatParts ==
  ASSUME NEW S, NEW T, NEW users \in Seq(S), NEW more \in Seq(T)
  PROVE  /\ Len(users) \in Nat /\ Len(more) \in Nat
         /\ Len(users \o more) = Len(users) + Len(more)
         /\ DOMAIN (users \o more) = 1..(Len(users) + Len(more))
         /\ \A i \in 1..Len(users) : (users \o more)[i] = users[i]
         /\ \A i \in 1..Len(more) : (users \o more)[Len(users) + i] = more[i]
OBVIOUS

LEMMA ConcatSet ==
  ASSUME NEW S, NEW T, NEW users \in Seq(S), NEW more \in Seq(T)
  PROVE  ToSet(users \o more) = ToSet(users) \cup ToSet(more)
<1> DEFINE all == users \o more
<1>1. /\ Len(users) \in Nat /\ Len(more) \in Nat
      /\ DOMAIN users = 1..Len(users) /\ DOMAIN more = 1..Len(more)
      /\ DOMAIN all = 1..(Len(users) + Len(more))
      /\ \A i \in 1..Len(users) : all[i] = users[i]
      /\ \A i \in 1..Len(more) : all[Len(users) + i] = more[i]
  BY ConcatParts
<1> HIDE DEF all
<1>2. ASSUME NEW i \in DOMAIN all
      PROVE  all[i] \in ToSet(users) \cup ToSet(more)
  <2>1. i \in 1..Len(users) \/ i - Len(users) \in 1..Len(more)
    BY <1>1
  <2>2. i - Len(users) \in 1..Len(more) => all[i] = more[i - Len(users)]
    BY <1>1
  <2> QED
    BY <1>1, <2>1, <2>2 DEF ToSet
<1>3. ASSUME NEW i \in DOMAIN users PROVE users[i] \in ToSet(all)
  BY <1>1 DEF ToSet
<1>4. ASSUME NEW i \in DOMAIN more PROVE more[i] \in ToSet(all)
  <2>1. Len(users) + i \in DOMAIN all /\ all[Len(users) + i] = more[i]
    BY <1>1
  <2> QED
    BY <2>1 DEF ToSet
<1>5. ToSet(all) = ToSet(users) \cup ToSet(more)
  BY <1>2, <1>3, <1>4 DEF ToSet
<1> QED
  BY <1>5 DEF all

LEMMA AddUserList ==
  ASSUME NEW S, NEW users, IsList(users, S), NEW user \in S
  PROVE  /\ IsList(AddUser(users, user), S)
         /\ Len(AddUser(users, user)) >= Len(users)
         /\ ToSet(users) \subseteq ToSet(AddUser(users, user))
         /\ ToSet(AddUser(users, user)) \subseteq ToSet(users) \cup {user}
         /\ Len(AddUser(users, user)) < MaxLocal =>
              user \in ToSet(AddUser(users, user))
<1>0. users \in Seq(S) /\ Len(users) \in Nat /\ Len(users) <= MaxLocal
      /\ DOMAIN users = 1..Len(users)
  BY DEF IsList
<1>1. CASE AddUser(users, user) = users
  <2>1. Len(users) < MaxLocal => user \in ToSet(users)
    <3> SUFFICES ASSUME Len(users) < MaxLocal, user \notin ToSet(users)
                 PROVE  FALSE
      OBVIOUS
    <3>1. Append(users, user) = users
      BY <1>1 DEF AddUser
    <3>2. Len(Append(users, user)) = Len(users) + 1
      BY <1>0
    <3> QED
      BY <3>1, <3>2, <1>0
  <2> QED
    BY <1>0, <1>1, <2>1
<1>2. CASE /\ AddUser(users, user) = Append(users, user)
           /\ Len(users) < MaxLocal
           /\ user \notin ToSet(users)
  <2> DEFINE more == Append(users, user)
  <2>1. /\ more \in Seq(S)
        /\ Len(more) = Len(users) + 1
        /\ DOMAIN more = 1..Len(more)
        /\ \A i \in 1..Len(users) : more[i] = users[i]
        /\ more[Len(users) + 1] = user
    BY <1>0
  <2>2. ToSet(more) = ToSet(users) \cup {user}
    BY <1>0, AppendSet
  <2> HIDE DEF more
  <2>3. \A i \in 1..Len(users) : users[i] # user
    BY <1>0, <1>2 DEF ToSet
  <2>4. Distinct(more)
    BY <1>0, <2>1, <2>3 DEF IsList, Distinct
  <2>5. IsList(more, S)
    BY <1>0, <1>2, <2>1, <2>4, RecipientsAssumption DEF IsList
  <2> QED
    BY <1>0, <1>2, <2>1, <2>2, <2>5 DEF more
<1> QED
  BY <1>1, <1>2 DEF AddUser

\* What holds of the list after k rows.
AfterRows(all, k, users, rows, S) ==
  /\ IsList(all, S)
  /\ Len(all) >= Len(users)
  /\ ToSet(users) \subseteq ToSet(all)
  /\ ToSet(all) \subseteq ToSet(users) \cup ToSet(rows)
  /\ Len(all) < MaxLocal => \A i \in 1..k : rows[i] \in ToSet(all)

LEMMA AfterOneRow ==
  ASSUME NEW S, NEW users, NEW rows \in Seq(S), NEW all, NEW k \in 1..Len(rows),
         users \in Seq(S), AfterRows(all, k - 1, users, rows, S)
  PROVE  AfterRows(AddUser(all, rows[k]), k, users, rows, S)
<1> DEFINE more == AddUser(all, rows[k])
<1>1. rows[k] \in S /\ rows[k] \in ToSet(rows)
  BY DEF ToSet
<1>2. /\ IsList(more, S)
      /\ Len(more) >= Len(all)
      /\ ToSet(all) \subseteq ToSet(more)
      /\ ToSet(more) \subseteq ToSet(all) \cup {rows[k]}
      /\ Len(more) < MaxLocal => rows[k] \in ToSet(more)
  BY <1>1, AddUserList DEF AfterRows
<1>3. Len(more) \in Nat /\ Len(all) \in Nat /\ Len(users) \in Nat
  BY <1>2 DEF IsList, AfterRows
<1> HIDE DEF more
<1>4. ASSUME Len(more) < MaxLocal, NEW i \in 1..k
      PROVE  rows[i] \in ToSet(more)
  BY <1>2, <1>3, <1>4, RecipientsAssumption DEF AfterRows
<1>5. AfterRows(more, k, users, rows, S)
  BY <1>1, <1>2, <1>3, <1>4 DEF AfterRows
<1> QED
  BY <1>5 DEF more

(***************************************************************************)
(* However many rows there are: the list stays a list, keeps whom it had,  *)
(* gains only who is in the rows, and has all of them unless it is full.   *)
(***************************************************************************)
THEOREM AddUsersList ==
  ASSUME NEW S, NEW users, IsList(users, S), NEW rows \in Seq(S)
  PROVE  LET all == AddUsers(users, rows)
         IN  /\ IsList(all, S)
             /\ ToSet(users) \subseteq ToSet(all)
             /\ ToSet(all) \subseteq ToSet(users) \cup ToSet(rows)
             /\ Len(all) < MaxLocal => ToSet(rows) \subseteq ToSet(all)
<1> DEFINE g == Added(users, rows)
           n == Len(rows)
           T == {k \in 0..n : ~ AfterRows(g[k], k, users, rows, S)}
<1>0. n \in Nat /\ users \in Seq(S) /\ Len(users) \in Nat
  BY DEF IsList
<1>1. \A k \in 0..n :
        g[k] = IF k = 0 THEN users ELSE AddUser(g[k - 1], rows[k])
  BY <1>0, AddedCounts DEF Counts
<1> HIDE DEF g, n
<1>2. T = {}
  <2> SUFFICES ASSUME T # {} PROVE FALSE
    OBVIOUS
  <2>1. PICK k \in T : \A m \in T : ~(m < k)
    <3>1. T \subseteq Nat
      BY <1>0
    <3> HIDE DEF T
    <3> QED
      BY <3>1, Least
  <2>2. CASE k = 0
    <3>1. g[0] = users
      BY <1>0, <1>1
    <3>2. AfterRows(users, 0, users, rows, S)
      BY <1>0 DEF AfterRows
    <3> QED
      BY <2>2, <3>1, <3>2
  <2>3. CASE k # 0
    <3>1. k \in 1..n /\ k - 1 \in 0..n /\ k - 1 < k
      BY <1>0, <2>3
    <3>2. AfterRows(g[k - 1], k - 1, users, rows, S)
      BY <2>1, <3>1
    <3>3. g[k] = AddUser(g[k - 1], rows[k])
      BY <1>1, <3>1
    <3>4. k \in 1..Len(rows)
      BY <3>1 DEF n
    <3> QED
      BY <1>0, <3>2, <3>3, <3>4, AfterOneRow
  <2> QED
    BY <2>2, <2>3
<1>3. AfterRows(g[n], n, users, rows, S)
  BY <1>0, <1>2
<1>4. AddUsers(users, rows) = g[n]
  BY DEF AddUsers, g, n
<1>5. ToSet(rows) = {rows[i] : i \in 1..n}
  BY DEF ToSet, n
<1> QED
  BY <1>3, <1>4, <1>5 DEF AfterRows
==============================================================================
