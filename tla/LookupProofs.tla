----------------------------- MODULE LookupProofs ----------------------------
(***************************************************************************)
(* RCPT, for any number of sessions, domains, changes of the tables,       *)
(* failing queries, and for results of any length.  First the cache of the *)
(* DataModel: what GetDomainReject says is never another domain's, nor out *)
(* of date.  Then the lists and the answer.                                *)
(***************************************************************************)
EXTENDS Lookup, RecipientsProofs, TLAPS

Fields == {"step", "id", "name", "reject", "list", "userID", "users",
           "reply", "rcpts", "seen", "before", "read"}

\* A record with these fields, whatever their values.
IsRcpt(m) == m = [f \in Fields |-> m[f]]

Shape ==
  /\ rcpt = [c \in Clients |-> rcpt[c]]
  /\ \A c \in Clients : IsRcpt(rcpt[c])

\* Between the two calls the table, and the cache if it is about the domain,
\* hold a value that the domain has had since the first of them.
Waiting(c) ==
  rcpt[c].step = "reject" =>
    /\ rcpt[c].id \in Domain
    /\ domains[rcpt[c].id] \in rcpt[c].seen
    /\ cache.nID = rcpt[c].id => cache.nReject \in rcpt[c].seen

Fresh(c) ==
  Asked(c) =>
    \/ rcpt[c].reject \in rcpt[c].seen
    \/ rcpt[c].reject = 1 /\ (Absent \in rcpt[c].seen \/ faults > 0)

Inv ==
  /\ domains \in [Domain -> Rejects \cup {Absent}]
  /\ faults \in Nat
  /\ Shape
  /\ \A c \in Clients : Waiting(c) /\ Fresh(c)

------------------------------------------------------------------------------
LEMMA NewIsRcpt == IsRcpt(NewRcpt) /\ NewRcpt.step = "none"
BY DEF NewRcpt, IsRcpt, Fields

LEMMA InvInit == Init => Inv
<1>1. ASSUME Init PROVE Inv
  <2>1. /\ domains \in [Domain -> Rejects \cup {Absent}]
        /\ faults \in Nat
    BY <1>1 DEF Init
  <2>2. Shape
    <3>1. rcpt = [c \in Clients |-> NewRcpt]
      BY <1>1 DEF Init
    <3> QED
      BY <3>1, NewIsRcpt DEF Shape
  <2>3. \A c \in Clients : rcpt[c].step = "none"
    BY <1>1 DEF Init, NewRcpt
  <2> QED
    BY <2>1, <2>2, <2>3 DEF Inv, Waiting, Fresh, Asked
<1> QED
  BY <1>1

\* A step of client c that leaves the table and the cache alone, and in which
\* c is not about to ask for Reject, concerns c only.
LEMMA OwnStep ==
  ASSUME Inv, NEW c \in Clients, NEW m,
         IsRcpt(m),
         rcpt' = [rcpt EXCEPT ![c] = m],
         m.step # "reject",
         m.step # "none" =>
           \/ m.reject \in m.seen
           \/ m.reject = 1 /\ (Absent \in m.seen \/ faults' > 0),
         UNCHANGED <<domains, cache>>,
         faults' \in Nat, faults' >= faults
  PROVE  Inv'
<1>1. \A b \in Clients : rcpt'[b] = IF b = c THEN m ELSE rcpt[b]
  BY DEF Inv, Shape
<1>2. Shape'
  <2>1. rcpt' = [b \in Clients |-> rcpt'[b]]
    BY DEF Inv, Shape
  <2>2. ASSUME NEW b \in Clients
        PROVE  IsRcpt(rcpt'[b])
    BY <1>1 DEF Inv, Shape
  <2> QED
    BY <2>1, <2>2 DEF Shape
<1>3. ASSUME NEW b \in Clients PROVE Waiting(b)' /\ Fresh(b)'
  <2>1. Waiting(b) /\ Fresh(b)
    BY DEF Inv
  <2>2. CASE b = c
    BY <1>1, <2>2 DEF Waiting, Fresh, Asked
  <2>3. CASE b # c
    BY <1>1, <2>1, <2>3 DEF Waiting, Fresh, Asked, Inv
  <2> QED
    BY <2>2, <2>3
<1> QED
  BY <1>2, <1>3 DEF Inv

\* A step that touches no client, nor the table nor the cache.
LEMMA NoStep ==
  ASSUME Inv, UNCHANGED <<domains, cache, rcpt>>,
         faults' \in Nat, faults' >= faults
  PROVE  Inv'
<1>1. Shape' /\ domains' \in [Domain -> Rejects \cup {Absent}]
  BY DEF Inv, Shape
<1>2. ASSUME NEW b \in Clients PROVE Waiting(b)' /\ Fresh(b)'
  <2>1. Waiting(b) /\ Fresh(b)
    BY DEF Inv
  <2> QED
    BY <2>1 DEF Waiting, Fresh, Asked, Inv
<1> QED
  BY <1>1, <1>2 DEF Inv

LEMMA BadNameInv ==
  ASSUME Inv, NEW c \in Clients, BadName(c)
  PROVE  Inv'
<1>1. UNCHANGED <<domains, cache, rcpt>> /\ faults' = faults
  BY DEF BadName, Assertion
<1>2. faults' \in Nat /\ faults' >= faults
  BY <1>1 DEF Inv
<1> QED
  BY <1>1, <1>2, NoStep

LEMMA FaultsGrow ==
  ASSUME Inv, Succeeds \/ Fails
  PROVE  faults' \in Nat /\ faults' >= faults
BY DEF Inv, Succeeds, Fails

LEMMA GetDomainIDInv ==
  ASSUME Inv, NEW c \in Clients, NEW d \in Domain, NEW name \in Name,
         GetDomainID(c, d, name)
  PROVE  Inv'
<1> DEFINE asked == [NewRcpt EXCEPT !.id = d, !.name = name,
                                    !.users = rcpt[c].users,
                                    !.before = rcpt[c].users,
                                    !.rcpts = rcpt[c].rcpts + 1,
                                    !.seen = {domains[d]}]
           notOurs == [asked EXCEPT !.reply = "notOurs"]
           found == [asked EXCEPT !.step = "reject"]
<1>1. CASE rcpt' = [rcpt EXCEPT ![c] = notOurs] /\ UNCHANGED cache
  <2>1. /\ notOurs.step = "none"
        /\ IsRcpt(notOurs)
    BY NewIsRcpt DEF IsRcpt, Fields
  <2>2. faults' \in Nat /\ faults' >= faults
    BY FaultsGrow DEF GetDomainID
  <2>3. UNCHANGED domains
    BY DEF GetDomainID
  <2> HIDE DEF notOurs
  <2> QED
    BY <1>1, <2>1, <2>2, <2>3, OwnStep
<1>2. CASE /\ rcpt' = [rcpt EXCEPT ![c] = found]
           /\ cache' = [nID |-> d, nReject |-> domains[d]]
           /\ Succeeds
  <2>1. /\ found.step = "reject"
        /\ found.id = d
        /\ found.seen = {domains[d]}
        /\ IsRcpt(found)
    BY NewIsRcpt DEF IsRcpt, Fields
  <2>2. UNCHANGED <<domains, faults>>
    BY <1>2 DEF GetDomainID, Succeeds
  <2>3. cache'.nID = d /\ cache'.nReject = domains[d]
    BY <1>2
  <2> HIDE DEF found
  <2>4. \A b \in Clients : rcpt'[b] = IF b = c THEN found ELSE rcpt[b]
    BY <1>2 DEF Inv, Shape
  <2>5. Shape'
    <3>1. rcpt' = [b \in Clients |-> rcpt'[b]]
      BY <1>2 DEF Inv, Shape
    <3>2. ASSUME NEW b \in Clients
          PROVE  IsRcpt(rcpt'[b])
      BY <2>1, <2>4 DEF Inv, Shape
    <3> QED
      BY <3>1, <3>2 DEF Shape
  <2>6. ASSUME NEW b \in Clients PROVE Waiting(b)' /\ Fresh(b)'
    <3>1. Waiting(b) /\ Fresh(b)
      BY DEF Inv
    <3>2. CASE b = c
      BY <2>1, <2>2, <2>3, <2>4, <3>2 DEF Waiting, Fresh, Asked
    <3>3. CASE b # c
      BY <2>2, <2>3, <2>4, <3>1, <3>3 DEF Waiting, Fresh, Asked
    <3> QED
      BY <3>2, <3>3
  <2> QED
    BY <2>2, <2>5, <2>6 DEF Inv
<1> QED
  BY <1>1, <1>2 DEF GetDomainID

LEMMA GetDomainRejectInv ==
  ASSUME Inv, NEW c \in Clients, GetDomainReject(c)
  PROVE  Inv'
<1>1. faults' \in Nat /\ faults' >= faults
  BY FaultsGrow DEF GetDomainReject
<1>2. UNCHANGED <<domains, cache>>
  BY DEF GetDomainReject
<1>3. /\ rcpt[c].id \in Domain
      /\ domains[rcpt[c].id] \in rcpt[c].seen
      /\ cache.nID = rcpt[c].id => cache.nReject \in rcpt[c].seen
  BY DEF GetDomainReject, At, Inv, Waiting
<1>4. PICK reject :
        /\ TakeReject(c, reject)
        /\ \/ reject \in rcpt[c].seen
           \/ reject = 1 /\ (Absent \in rcpt[c].seen \/ faults' > 0)
  BY <1>3 DEF GetDomainReject, Fails, Inv
<1>5. CASE UNCHANGED rcpt
  BY <1>1, <1>2, <1>5, NoStep
<1>6. CASE rcpt' = [rcpt EXCEPT ![c].reject = reject, ![c].step = "users"]
  <2> DEFINE m == [rcpt[c] EXCEPT !.reject = reject, !.step = "users"]
  <2>1. rcpt' = [rcpt EXCEPT ![c] = m]
    BY <1>6
  <2>2. /\ m.step = "users" /\ m.reject = reject /\ m.seen = rcpt[c].seen
        /\ IsRcpt(m)
    <3>1. IsRcpt(rcpt[c])
      BY DEF Inv, Shape
    <3> QED
      BY <3>1 DEF IsRcpt, Fields
  <2> HIDE DEF m
  <2> QED
    BY <1>1, <1>2, <1>4, <2>1, <2>2, OwnStep
<1> QED
  BY <1>4, <1>5, <1>6 DEF TakeReject, Assertion

\* After GetDomainReject nothing a session does by itself changes what it was
\* told, nor what it has seen.
LEMMA LaterStep ==
  ASSUME Inv, NEW c \in Clients, Asked(c), NEW m,
         IsRcpt(m),
         rcpt' = [rcpt EXCEPT ![c] = m],
         m.step # "reject", m.reject = rcpt[c].reject, m.seen = rcpt[c].seen,
         UNCHANGED <<domains, cache>>,
         Succeeds \/ Fails
  PROVE  Inv'
<1>1. faults' \in Nat /\ faults' >= faults
  BY FaultsGrow
<1>2. \/ m.reject \in m.seen
      \/ m.reject = 1 /\ (Absent \in m.seen \/ faults' > 0)
  BY <1>1 DEF Inv, Fresh
<1> QED
  BY <1>1, <1>2, OwnStep

LEMMA AskPostmasterStep ==
  ASSUME NEW m
  PROVE  AskPostmaster(m) \in {"postmaster", "answer"}
BY DEF AskPostmaster

LEMMA GetUserFromAddressInv ==
  ASSUME Inv, NEW c \in Clients, GetUserFromAddress(c)
  PROVE  Inv'
<1> DEFINE users == QueryResult("UserID", Addresses[rcpt[c].id][rcpt[c].name])
           m1 == [rcpt[c] EXCEPT !.list = users, !.step = "read"]
           m2 == [rcpt[c] EXCEPT !.step = AskPostmaster(rcpt[c])]
<1>1. IsRcpt(rcpt[c]) /\ Asked(c)
  BY DEF Inv, Shape, GetUserFromAddress, At, Asked
<1>2. UNCHANGED <<domains, cache>> /\ (Succeeds \/ Fails)
  BY DEF GetUserFromAddress
<1>3. \/ rcpt' = [rcpt EXCEPT ![c] = m1]
      \/ rcpt' = [rcpt EXCEPT ![c] = m2]
  BY DEF GetUserFromAddress
<1>4. /\ IsRcpt(m1) /\ m1.step # "reject"
      /\ m1.reject = rcpt[c].reject /\ m1.seen = rcpt[c].seen
  <2> HIDE DEF users
  <2> QED
    BY <1>1 DEF IsRcpt, Fields
<1>5. /\ IsRcpt(m2) /\ m2.step # "reject"
      /\ m2.reject = rcpt[c].reject /\ m2.seen = rcpt[c].seen
  <2>1. PICK step \in {"postmaster", "answer"} : AskPostmaster(rcpt[c]) = step
    BY AskPostmasterStep
  <2> QED
    BY <1>1, <2>1 DEF IsRcpt, Fields
<1> HIDE DEF m1, m2
<1> QED
  BY <1>1, <1>2, <1>3, <1>4, <1>5, LaterStep

LEMMA GetPostmasterInv ==
  ASSUME Inv, NEW c \in Clients, GetPostmaster(c)
  PROVE  Inv'
<1> DEFINE users == QueryResult("UserID", Addresses[rcpt[c].id][Postmaster])
           m == [rcpt[c] EXCEPT !.list = users, !.step = "readPostmaster"]
<1>1. IsRcpt(rcpt[c]) /\ Asked(c)
  BY DEF Inv, Shape, GetPostmaster, At, Asked
<1>2. UNCHANGED <<domains, cache>> /\ (Succeeds \/ Fails)
  BY DEF GetPostmaster
<1>3. rcpt' = [rcpt EXCEPT ![c] = m] \/ UNCHANGED rcpt
  BY DEF GetPostmaster, Assertion
<1>4. /\ IsRcpt(m) /\ m.step # "reject"
      /\ m.reject = rcpt[c].reject /\ m.seen = rcpt[c].seen
  <2> HIDE DEF users
  <2> QED
    BY <1>1 DEF IsRcpt, Fields
<1> HIDE DEF m
<1> QED
  BY <1>1, <1>2, <1>3, <1>4, LaterStep, FaultsGrow, NoStep

LEMMA ReadRowInv ==
  ASSUME Inv, NEW c \in Clients, ReadRow(c)
  PROVE  Inv'
<1> DEFINE list == NextRow(rcpt[c].list)
           user == GetInt(list, "UserID")
           users == AddUser(rcpt[c].users, user)
           read == rcpt[c].read \cup {user}
           m1 == [rcpt[c] EXCEPT !.list = list, !.userID = user,
                                 !.users = users, !.read = read]
           m2 == [rcpt[c] EXCEPT !.list = NewList,
                                 !.step = AskPostmaster(rcpt[c])]
<1>1. IsRcpt(rcpt[c]) /\ Asked(c) /\ rcpt[c].step # "reject"
  BY DEF Inv, Shape, ReadRow, Asked
<1>2. UNCHANGED <<domains, cache>> /\ Succeeds
  BY DEF ReadRow, Succeeds
<1>3. \/ rcpt' = [rcpt EXCEPT ![c].list = list, ![c].userID = user,
                              ![c].users = AddUser(@, user),
                              ![c].read = @ \cup {user}]
      \/ rcpt' = [rcpt EXCEPT ![c] = m2]
      \/ UNCHANGED rcpt
  BY DEF ReadRow, Assertion
<1>4. rcpt' = [rcpt EXCEPT ![c].list = list, ![c].userID = user,
                           ![c].users = AddUser(@, user),
                           ![c].read = @ \cup {user}]
      => rcpt' = [rcpt EXCEPT ![c] = m1]
  <2> HIDE DEF list, user
  <2> QED
    BY <1>1 DEF IsRcpt, Fields
<1>5. /\ IsRcpt(m1) /\ m1.step # "reject"
      /\ m1.reject = rcpt[c].reject /\ m1.seen = rcpt[c].seen
  <2> HIDE DEF list, user, users, read
  <2> QED
    BY <1>1 DEF IsRcpt, Fields
<1>6. /\ IsRcpt(m2) /\ m2.step # "reject"
      /\ m2.reject = rcpt[c].reject /\ m2.seen = rcpt[c].seen
  <2>1. PICK step \in {"postmaster", "answer"} : AskPostmaster(rcpt[c]) = step
    BY AskPostmasterStep
  <2> HIDE DEF list, user
  <2> QED
    BY <1>1, <2>1 DEF IsRcpt, Fields
<1> HIDE DEF list, user, users, read, m1, m2
<1> QED
  BY <1>1, <1>2, <1>3, <1>4, <1>5, <1>6, LaterStep, FaultsGrow, NoStep

LEMMA AnswerInv ==
  ASSUME Inv, NEW c \in Clients, Answer(c)
  PROVE  Inv'
<1> DEFINE reply == Reply(rcpt[c])
           m == [rcpt[c] EXCEPT !.reply = reply, !.step = "none"]
<1>1. IsRcpt(rcpt[c]) /\ Asked(c)
  BY DEF Inv, Shape, Answer, At, Asked
<1>2. UNCHANGED <<domains, cache>> /\ Succeeds
  BY DEF Answer, Succeeds
<1>3. rcpt' = [rcpt EXCEPT ![c] = m]
  BY DEF Answer
<1>4. /\ IsRcpt(m) /\ m.step # "reject"
      /\ m.reject = rcpt[c].reject /\ m.seen = rcpt[c].seen
  <2> HIDE DEF reply
  <2> QED
    BY <1>1 DEF IsRcpt, Fields
<1> HIDE DEF m
<1> QED
  BY <1>1, <1>2, <1>3, <1>4, LaterStep

\* What the table comes to hold, the clients that asked for the domain see.
LEMMA ChangeDomainInv ==
  ASSUME Inv, NEW d \in Domain, NEW reject \in Rejects \cup {Absent},
         ChangeDomain(d, reject)
  PROVE  Inv'
<1>1. /\ domains' = [domains EXCEPT ![d] = reject]
      /\ UNCHANGED <<cache, faults>>
  BY DEF ChangeDomain
<1>2. domains' \in [Domain -> Rejects \cup {Absent}]
  BY <1>1 DEF Inv
<1>3. ASSUME NEW c \in Clients
      PROVE  /\ IsRcpt(rcpt'[c])
             /\ rcpt'[c].step = rcpt[c].step
             /\ rcpt'[c].id = rcpt[c].id
             /\ rcpt'[c].reject = rcpt[c].reject
             /\ rcpt[c].seen \subseteq rcpt'[c].seen
             /\ rcpt[c].step # "none" /\ rcpt[c].id = d =>
                  reject \in rcpt'[c].seen
  <2>1. IsRcpt(rcpt[c])
    BY DEF Inv, Shape
  <2>2. CASE rcpt[c].step # "none" /\ rcpt[c].id = d
    <3>1. rcpt'[c] = [rcpt[c] EXCEPT !.seen = rcpt[c].seen \cup {reject}]
      BY <2>2 DEF ChangeDomain
    <3> QED
      BY <2>1, <3>1 DEF IsRcpt, Fields
  <2>3. CASE ~(rcpt[c].step # "none" /\ rcpt[c].id = d)
    <3>1. rcpt'[c] = rcpt[c]
      BY <2>3 DEF ChangeDomain
    <3> QED
      BY <2>1, <2>3, <3>1
  <2> QED
    BY <2>2, <2>3
<1>4. Shape'
  <2>1. rcpt' = [c \in Clients |-> rcpt'[c]]
    BY DEF ChangeDomain
  <2> QED
    BY <1>3, <2>1 DEF Shape
<1>5. ASSUME NEW c \in Clients PROVE Waiting(c)' /\ Fresh(c)'
  <2>1. Waiting(c) /\ Fresh(c)
    BY DEF Inv
  <2>2. Waiting(c)'
    BY <1>1, <1>3, <2>1 DEF Waiting, Inv
  <2>3. Fresh(c)'
    BY <1>1, <1>3, <2>1 DEF Fresh, Asked
  <2> QED
    BY <2>2, <2>3
<1> QED
  BY <1>1, <1>2, <1>4, <1>5 DEF Inv

------------------------------------------------------------------------------
LEMMA InvStep == Inv /\ [Next \/ Terminated]_lookupVars => Inv'
<1> SUFFICES ASSUME Inv, [Next \/ Terminated]_lookupVars PROVE Inv'
  OBVIOUS
<1>1. CASE \E c \in Clients : ProcessRCPT(c)
  BY <1>1, BadNameInv, GetDomainIDInv, GetDomainRejectInv,
     GetUserFromAddressInv, GetPostmasterInv, ReadRowInv, AnswerInv
     DEF ProcessRCPT
<1>2. CASE \E d \in Domain, reject \in Rejects \cup {Absent} :
             ChangeDomain(d, reject)
  BY <1>2, ChangeDomainInv
<1>3. CASE UNCHANGED lookupVars
  <2>1. faults' \in Nat /\ faults' >= faults
    BY <1>3 DEF lookupVars, Inv
  <2> QED
    BY <1>3, <2>1, NoStep DEF lookupVars
<1> QED
  BY <1>1, <1>2, <1>3 DEF Next, Terminated

\* RejectIsFresh for every number of sessions and domains, and for tables
\* that change, and queries that fail, any number of times: what a session
\* is told of its domain is what the table said during its own RCPT.
THEOREM Freshness == Spec => []RejectIsFresh
<1>1. Inv => RejectIsFresh
  BY DEF Inv, Fresh, RejectIsFresh
<1> QED
  BY InvInit, InvStep, <1>1, PTL DEF Spec

------------------------------------------------------------------------------
(***************************************************************************)
(* The lists, and what the client is answered.                             *)
(***************************************************************************)
\* A result of a query with the cursor on a row, by its number from 0.
Result(values, row) ==
  [columns |-> <<"UserID">>,
   rows |-> [i \in 1..Len(values) |-> [j \in 1..1 |-> values[i]]],
   complete |-> TRUE, currentRow |-> row, ok |-> TRUE]

\* The users whom the list names that a session reads.
Named(m) ==
  IF m.step = "readPostmaster" THEN Addresses[m.id][Postmaster]
                               ELSE Addresses[m.id][m.name]

\* The first n of the users have been added to the list of the mail.
Took(m, values, n) ==
  /\ m.users = Added(m.before, values)[n]
  /\ m.read = {values[i] : i \in 1..n}
  /\ m.userID = IF n = 0 THEN 0 ELSE values[n]

RcptTyped(m) ==
  /\ m.step \in Steps
  /\ m.id \in Domain \cup {0}
  /\ m.step # "none" => m.id \in Domain
  /\ m.name \in Name
  /\ m.reject \in Rejects
  /\ m.seen \subseteq Rejects \cup {Absent}
  /\ IsList(m.users, UserID)
  /\ IsList(m.before, UserID)

\* "failed" is the number of queries that have failed.
Reading(m, failed) ==
  /\ m.step \in {"reject", "users", "postmaster"} => Took(m, <<>>, 0)
  /\ m.step \in {"postmaster", "readPostmaster"} =>
       m.reject = 0 /\ (failed = 0 => Addresses[m.id][m.name] = <<>>)
  /\ m.step \in {"read", "readPostmaster"} =>
       \E row \in -1..(Len(Named(m)) - 1) :
         m.list = Result(Named(m), row) /\ Took(m, Named(m), row + 1)
  /\ m.step = "answer" =>
       \E values \in {<<>>, Addresses[m.id][m.name],
                      Addresses[m.id][Postmaster]} :
         /\ Took(m, values, Len(values))
         /\ failed = 0 => values = Expected(m.id, m.name, m.reject)

\* What the properties say of an answer that was given.
Answered(m, failed) ==
  /\ m.step # "none" => m.reply = "none" /\ m.seen \cap Rejects # {}
  /\ m.reply = "250" => m.read # {} /\ m.read \subseteq ToSet(m.users)
  /\ \A reject \in Rejects \cup {Absent} :
       m.reply # "none" /\ m.seen = {reject} /\ failed = 0 =>
         /\ m.reply = ExpectedReply(m, reject)
         /\ m.users = AddUsers(m.before, Expected(m.id, m.name, reject))

RcptInv(m, failed) == RcptTyped(m) /\ Reading(m, failed) /\ Answered(m, failed)

\* Once a session is between the two calls, the cache holds an answer.
CacheInv ==
  /\ cache \in [nID : Domain \cup {0}, nReject : Rejects \cup {Junk}]
  /\ \A c \in Clients : rcpt[c].step = "reject" => cache.nReject \in Rejects

ListInv ==
  /\ Inv
  /\ CacheInv
  /\ \A c \in Clients : RcptInv(rcpt[c], faults)
  /\ LookupAssertionsHold

LEMMA AddedStep ==
  ASSUME NEW users, NEW rows, Len(rows) \in Nat, NEW n \in 0..Len(rows)
  PROVE  Added(users, rows)[n] =
           IF n = 0 THEN users
                    ELSE AddUser(Added(users, rows)[n - 1], rows[n])
BY AddedCounts DEF Counts

LEMMA NothingAdded ==
  ASSUME NEW users
  PROVE  Added(users, <<>>)[0] = users /\ AddUsers(users, <<>>) = users
<1>1. Len(<<>>) = 0 /\ 0 \in 0..Len(<<>>)
  OBVIOUS
<1> QED
  BY <1>1, AddedStep DEF AddUsers

(***************************************************************************)
(* The DataList a query makes has its rows in their order, and is read to  *)
(* its end without an ASSERT that fails.                                   *)
(***************************************************************************)
\* The list before it is complete.
Partial(rows) ==
  [columns |-> <<"UserID">>, rows |-> rows, complete |-> FALSE,
   currentRow |-> -1, ok |-> TRUE]

Growing(values, n) ==
  Partial([i \in 1..n |-> [j \in 1..1 |-> values[i]]])

LEMMA FirstColumn ==
  ASSUME NEW values
  PROVE  AddColumn(NewList, "UserID") = Growing(values, 0)
<1>1. [i \in 1..0 |-> [j \in 1..1 |-> values[i]]] = <<>>
  OBVIOUS
<1>2. Append(<<>>, "UserID") = <<"UserID">>
  OBVIOUS
<1> QED
  BY <1>1, <1>2 DEF AddColumn, NewList, Asserting, Growing, Partial

LEMMA PartialFields ==
  ASSUME NEW rows, NEW list, list = Partial(rows)
  PROVE  /\ list.columns = <<"UserID">> /\ list.rows = rows
         /\ ~list.complete /\ list.currentRow = -1 /\ list.ok
         /\ \A more : [list EXCEPT !.rows = more] = Partial(more)
<1>1. /\ list.columns = <<"UserID">> /\ list.rows = rows
      /\ ~list.complete /\ list.currentRow = -1 /\ list.ok
  BY DEF Partial
<1>2. ASSUME NEW more
      PROVE  [Partial(rows) EXCEPT !.rows = more] = Partial(more)
  <2>1. PICK columns, no, start, yes :
          /\ columns = <<"UserID">> /\ no = FALSE
          /\ start = -1 /\ yes = TRUE
    OBVIOUS
  <2>2. \A x : Partial(x) = [columns |-> columns, rows |-> x,
                             complete |-> no, currentRow |-> start,
                             ok |-> yes]
    BY <2>1, Zenon DEF Partial
  <2> QED
    BY <2>2
<1> QED
  BY <1>1, <1>2

LEMMA RowAdded ==
  ASSUME NEW rows
  PROVE  AddRow(Partial(rows)) = Partial(Append(rows, [j \in 1..1 |-> 0]))
<1>1. PICK list : list = Partial(rows)
  OBVIOUS
<1>2. /\ list.columns = <<"UserID">> /\ list.rows = rows
      /\ list.currentRow = -1 /\ list.ok
      /\ \A more : [list EXCEPT !.rows = more] = Partial(more)
  BY <1>1, PartialFields
<1>3. list.columns # <<>> /\ DOMAIN list.columns = 1..1
  BY <1>2
<1>4. [i \in DOMAIN list.columns |-> 0] = [j \in 1..1 |-> 0]
  BY <1>3
<1>5. AddRow(list) = [list EXCEPT !.rows =
                        Append(list.rows, [i \in DOMAIN list.columns |-> 0])]
  BY <1>2, <1>3 DEF AddRow, Asserting
<1> QED
  BY <1>1, <1>2, <1>4, <1>5

LEMMA DataAdded ==
  ASSUME NEW rows, rows # <<>>, NEW value
  PROVE  AddData(Partial(rows), 0, value)
           = Partial([rows EXCEPT ![Len(rows)][1] = value])
<1>1. PICK list : list = Partial(rows)
  OBVIOUS
<1>2. /\ list.columns = <<"UserID">> /\ list.rows = rows
      /\ list.currentRow = -1 /\ list.ok
      /\ \A more : [list EXCEPT !.rows = more] = Partial(more)
  BY <1>1, PartialFields
<1>3. Len(list.columns) = 1
  BY <1>2
<1>4. AddData(list, 0, value)
        = [list EXCEPT !.rows[Len(list.rows)][0 + 1] = value]
  BY <1>2, <1>3 DEF AddData, Asserting
<1>5. [list EXCEPT !.rows[Len(list.rows)][0 + 1] = value]
        = [list EXCEPT !.rows = [rows EXCEPT ![Len(rows)][1] = value]]
  BY <1>2
<1> QED
  BY <1>1, <1>2, <1>4, <1>5

LEMMA OneMoreRow ==
  ASSUME NEW S, NEW values \in Seq(S), NEW n \in 1..Len(values)
  PROVE  AddData(AddRow(Growing(values, n - 1)), 0, values[n])
           = Growing(values, n)
<1>1. n - 1 \in Nat /\ n \in Nat /\ Len(values) \in Nat
  OBVIOUS
<1>2. PICK zero, old, more :
        /\ zero = [j \in 1..1 |-> 0]
        /\ old = [i \in 1..(n - 1) |-> [j \in 1..1 |-> values[i]]]
        /\ more = Append(old, zero)
  OBVIOUS
<1>3. \A i \in 1..n : values[i] \in S
  BY <1>1
<1>4. old \in Seq([1..1 -> S \cup {0}]) /\ Len(old) = n - 1
      /\ zero \in [1..1 -> S \cup {0}]
  <2>1. old \in [1..(n - 1) -> [1..1 -> S \cup {0}]]
    BY <1>1, <1>2, <1>3
  <2>2. zero \in [1..1 -> S \cup {0}]
    BY <1>2
  <2> QED
    BY <1>1, <2>1, <2>2
<1>5. /\ Len(more) = n /\ DOMAIN more = 1..n /\ more # <<>>
      /\ more[n] = zero
      /\ \A i \in 1..(n - 1) : more[i] = old[i]
      /\ more = [i \in 1..n |-> more[i]]
  BY <1>1, <1>2, <1>4
<1>6. [more EXCEPT ![n][1] = values[n]]
        = [i \in 1..n |-> [j \in 1..1 |-> values[i]]]
  <2>1. [zero EXCEPT ![1] = values[n]] = [j \in 1..1 |-> values[n]]
    BY <1>2
  <2>2. \A i \in 1..(n - 1) : more[i] = [j \in 1..1 |-> values[i]]
    BY <1>2, <1>5
  <2>3. [more EXCEPT ![n][1] = values[n]]
          = [i \in 1..n |-> IF i = n THEN [zero EXCEPT ![1] = values[n]]
                                     ELSE more[i]]
    BY <1>1, <1>5
  <2>4. ASSUME NEW i \in 1..n
        PROVE  (IF i = n THEN [zero EXCEPT ![1] = values[n]] ELSE more[i])
                 = [j \in 1..1 |-> values[i]]
    <3>1. CASE i = n
      BY <2>1, <3>1
    <3>2. CASE i # n
      <4>1. i \in 1..(n - 1)
        BY <1>1, <3>2
      <4> QED
        BY <2>2, <3>2, <4>1
    <3> QED
      BY <3>1, <3>2
  <2> QED
    BY <2>3, <2>4, Zenon
<1>7. AddRow(Growing(values, n - 1)) = Partial(more)
  BY <1>2, RowAdded DEF Growing
<1>8. AddData(Partial(more), 0, values[n])
        = Partial([more EXCEPT ![Len(more)][1] = values[n]])
  BY <1>5, DataAdded
<1> QED
  BY <1>5, <1>6, <1>7, <1>8 DEF Growing

LEMMA QueryRows ==
  ASSUME NEW S, NEW values \in Seq(S)
  PROVE  QueryResult("UserID", values) = Result(values, -1)
<1> DEFINE n == Len(values)
           f == Filled("UserID", values)
           g == [k \in 0..n |-> Growing(values, k)]
           T == {k \in 0..n : f[k] # Growing(values, k)}
<1>0. n \in Nat
  OBVIOUS
<1>1. g = [k \in 0..n |->
             IF k = 0 THEN AddColumn(NewList, "UserID")
                      ELSE AddData(AddRow(g[k - 1]), 0, values[k])]
  <2>1. ASSUME NEW k \in 0..n
        PROVE  Growing(values, k) =
                 IF k = 0 THEN AddColumn(NewList, "UserID")
                          ELSE AddData(AddRow(g[k - 1]), 0, values[k])
    <3>1. CASE k = 0
      BY <3>1, FirstColumn
    <3>2. CASE k # 0
      <4>1. k \in 1..n /\ g[k - 1] = Growing(values, k - 1)
        BY <1>0, <3>2
      <4> QED
        BY <3>2, <4>1, OneMoreRow
    <3> QED
      BY <3>1, <3>2
  <2> QED
    BY <2>1
<1>2. f = [k \in 0..n |->
             IF k = 0 THEN AddColumn(NewList, "UserID")
                      ELSE AddData(AddRow(f[k - 1]), 0, values[k])]
  <2> HIDE DEF g
  <2> QED
    BY <1>1 DEF Filled
<1> HIDE DEF f, g
<1>3. T = {}
  <2> SUFFICES ASSUME T # {} PROVE FALSE
    OBVIOUS
  <2>1. PICK k \in T : \A m \in T : ~(m < k)
    <3>1. T \subseteq Nat
      BY <1>0
    <3> HIDE DEF T
    <3> QED
      BY <3>1, Least
  <2>2. CASE k = 0
    BY <1>0, <1>2, <2>2, FirstColumn
  <2>3. CASE k # 0
    <3>1. k \in 1..n /\ k - 1 \in 0..n /\ k - 1 < k
      BY <1>0, <2>3
    <3>2. f[k - 1] = Growing(values, k - 1)
      BY <2>1, <3>1
    <3>3. f[k] = AddData(AddRow(f[k - 1]), 0, values[k])
      BY <1>2, <3>1
    <3> QED
      BY <3>1, <3>2, <3>3, OneMoreRow
  <2> QED
    BY <2>2, <2>3
<1>4. f[n] = Growing(values, n)
  BY <1>0, <1>3
<1>5. Complete(Growing(values, n)) = Result(values, -1)
  BY DEF Complete, Asserting, Growing, Partial, Result
<1> QED
  BY <1>4, <1>5 DEF QueryResult, f

LEMMA CursorMoved ==
  ASSUME NEW rows, NEW row, row + 1 <= Len(rows)
  PROVE  NextRow([columns |-> <<"UserID">>, rows |-> rows, complete |-> TRUE,
                  currentRow |-> row, ok |-> TRUE])
           = [columns |-> <<"UserID">>, rows |-> rows, complete |-> TRUE,
              currentRow |-> row + 1, ok |-> TRUE]
BY DEF NextRow, Asserting

LEMMA ColumnFound ==
  ASSUME NEW list, list.columns = <<"UserID">>
  PROVE  GetIndex(list, "UserID") = 0
<1>1. PICK found :
        found = {i \in DOMAIN list.columns : list.columns[i] = "UserID"}
  OBVIOUS
<1>2. found = {1}
  BY <1>1
<1>3. Min({1}) = 1
  BY DEF Min
<1>4. GetIndex(list, "UserID") = IF found = {} THEN -1 ELSE Min(found) - 1
  BY <1>1 DEF GetIndex
<1> QED
  BY <1>2, <1>3, <1>4

LEMMA NextResult ==
  ASSUME NEW S, NEW values \in Seq(S), NEW row \in -1..(Len(values) - 1),
         NEW next, next = NextRow(Result(values, row))
  PROVE  /\ next = Result(values, row + 1) /\ next.ok
         /\ OnRow(next) <=> row + 1 < Len(values)
         /\ row + 1 < Len(values) =>
              /\ HasInt(next, "UserID")
              /\ GetInt(next, "UserID") = values[row + 2]
<1>1. PICK rows : rows = [i \in 1..Len(values) |-> [j \in 1..1 |-> values[i]]]
  OBVIOUS
<1>2. /\ Len(values) \in Nat /\ Len(rows) = Len(values)
      /\ \A i \in 1..Len(values) : rows[i][1] = values[i]
  BY <1>1
<1>3. \A at : Result(values, at)
               = [columns |-> <<"UserID">>, rows |-> rows, complete |-> TRUE,
                  currentRow |-> at, ok |-> TRUE]
  BY <1>1, Zenon DEF Result
<1>8. next = Result(values, row + 1)
  BY <1>2, <1>3, CursorMoved
<1>4. /\ next.columns = <<"UserID">> /\ next.rows = rows /\ next.ok
      /\ next.currentRow = row + 1
  BY <1>3, <1>8
<1>5. GetIndex(next, "UserID") = 0
  BY <1>4, ColumnFound
<1>6. OnRow(next) <=> row + 1 < Len(values)
  BY <1>2, <1>4 DEF OnRow
<1>7. ASSUME row + 1 < Len(values)
      PROVE  /\ HasInt(next, "UserID")
             /\ GetInt(next, "UserID") = values[row + 2]
  <2>1. /\ row + 1 \in 0..(Len(next.rows) - 1)
        /\ row + 2 \in 1..Len(values) /\ row + 1 + 1 = row + 2
    BY <1>2, <1>4, <1>7
  <2> QED
    BY <1>2, <1>4, <1>5, <2>1 DEF HasInt, GetInt
<1> QED
  BY <1>4, <1>6, <1>7, <1>8

------------------------------------------------------------------------------
LEMMA RcptCurrent ==
  ASSUME ListInv, NEW c \in Clients
  PROVE  /\ IsRcpt(rcpt[c]) /\ RcptInv(rcpt[c], faults) /\ faults \in Nat
         /\ rcpt = [b \in Clients |-> rcpt[b]]
BY DEF ListInv, Inv, Shape

LEMMA MoreFailed ==
  ASSUME NEW m, NEW f \in Nat, NEW g \in Nat, g >= f, RcptInv(m, f)
  PROVE  RcptInv(m, g)
<1>1. g = 0 => f = 0
  OBVIOUS
<1>2. Reading(m, g)
  BY <1>1, Zenon DEF RcptInv, Reading
<1>3. Answered(m, g)
  BY <1>1, Zenon DEF RcptInv, Answered
<1> QED
  BY <1>2, <1>3 DEF RcptInv

\* The tables name users, whose numbers are not 0.
LEMMA NamesUsers ==
  ASSUME NEW d \in Domain, NEW name \in Name
  PROVE  /\ Addresses[d][name] \in Seq(UserID)
         /\ Addresses[d][Postmaster] \in Seq(UserID)
BY LookupAssumption

\* A step of a session, as far as the invariant is concerned.
Moves(c) ==
  /\ faults' \in Nat /\ faults' >= faults
  /\ \/ UNCHANGED rcpt
     \/ \E m : /\ rcpt' = [rcpt EXCEPT ![c] = m]
               /\ m.step # "reject"
               /\ RcptInv(m, faults')
  /\ UNCHANGED cache
  /\ process' # "up" => \/ process' = "name"
                        \/ process' = "postmaster" /\ faults' > 0

LEMMA MovesList ==
  ASSUME ListInv, Inv', NEW c \in Clients, Moves(c)
  PROVE  ListInv'
<1>1. \A b \in Clients : RcptInv(rcpt[b], faults')
  BY RcptCurrent, MoreFailed DEF Moves
<1>2. ASSUME NEW b \in Clients
      PROVE  /\ RcptInv(rcpt'[b], faults')
             /\ rcpt'[b].step = "reject" => rcpt[b].step = "reject"
  <2>1. CASE UNCHANGED rcpt
    BY <1>1, <2>1
  <2>2. CASE ~UNCHANGED rcpt
    <3>1. PICK m : /\ rcpt' = [rcpt EXCEPT ![c] = m]
                   /\ m.step # "reject"
                   /\ RcptInv(m, faults')
      BY <2>2 DEF Moves
    <3>2. rcpt'[b] = IF b = c THEN m ELSE rcpt[b]
      BY <3>1, RcptCurrent
    <3> QED
      BY <1>1, <3>1, <3>2
  <2> QED
    BY <2>1, <2>2
<1>3. CacheInv'
  BY <1>2 DEF Moves, CacheInv, ListInv
<1>4. LookupAssertionsHold'
  BY DEF Moves, LookupAssertionsHold
<1>5. \A b \in Clients : RcptInv(rcpt[b], faults)'
  BY <1>2 DEF RcptInv, RcptTyped, Reading, Answered
<1> QED
  BY <1>3, <1>4, <1>5 DEF ListInv

LEMMA BadNameList ==
  ASSUME ListInv, NEW c \in Clients, BadName(c)
  PROVE  Moves(c)
<1>1. /\ UNCHANGED <<cache, rcpt>> /\ faults' = faults
      /\ process' = "name"
  BY DEF BadName, Assertion
<1>2. faults' \in Nat /\ faults' >= faults
  BY <1>1, RcptCurrent
<1> QED
  BY <1>1, <1>2 DEF Moves

LEMMA GetDomainIDList ==
  ASSUME ListInv, Inv', NEW c \in Clients, NEW d \in Domain,
         NEW name \in Name, GetDomainID(c, d, name)
  PROVE  ListInv'
<1>1. /\ RcptInv(rcpt[c], faults) /\ faults \in Nat
      /\ domains[d] \in Rejects \cup {Absent}
      /\ process = "up" /\ process' = "up"
      /\ faults' \in Nat /\ faults' >= faults
  BY RcptCurrent, FaultsGrow DEF ListInv, Inv, GetDomainID, At
<1> DEFINE asked == [NewRcpt EXCEPT !.id = d, !.name = name,
                                    !.users = rcpt[c].users,
                                    !.before = rcpt[c].users,
                                    !.rcpts = rcpt[c].rcpts + 1,
                                    !.seen = {domains[d]}]
           notOurs == [asked EXCEPT !.reply = "notOurs"]
           found == [asked EXCEPT !.step = "reject"]
<1>2. /\ IsRcpt(asked) /\ asked.step = "none" /\ asked.id = d
      /\ asked.name = name /\ asked.users = rcpt[c].users
      /\ asked.before = rcpt[c].users /\ asked.seen = {domains[d]}
      /\ asked.reject = 0 /\ asked.userID = 0 /\ asked.read = {}
      /\ asked.reply = "none"
  BY DEF NewRcpt, IsRcpt, Fields
<1> HIDE DEF asked
<1>3. CASE rcpt' = [rcpt EXCEPT ![c] = notOurs] /\ UNCHANGED cache
  <2>1. /\ notOurs.step = "none" /\ notOurs.id = d
        /\ notOurs.name = name /\ notOurs.users = rcpt[c].users
        /\ notOurs.before = rcpt[c].users /\ notOurs.seen = {domains[d]}
        /\ notOurs.reject = 0 /\ notOurs.reply = "notOurs"
    BY <1>2 DEF IsRcpt, Fields
  <2>2. faults' = 0 => domains[d] = Absent
    <3>1. ~(rcpt' = [rcpt EXCEPT ![c] = found])
      <4>1. found.step = "reject"
        BY <1>2 DEF IsRcpt, Fields
      <4> HIDE DEF found, notOurs
      <4> QED
        BY <1>3, <2>1, <4>1, RcptCurrent
    <3>2. (Succeeds /\ domains[d] = Absent) \/ Fails
      BY <3>1 DEF GetDomainID, asked
    <3> QED
      BY <1>1, <3>2 DEF Fails
  <2> HIDE DEF notOurs
  <2>3. RcptTyped(notOurs)
    BY <1>1, <2>1 DEF RcptInv, RcptTyped, Steps, Rejects
  <2>4. Reading(notOurs, faults')
    BY <2>1 DEF Reading
  <2>5. Answered(notOurs, faults')
    <3>1. ASSUME NEW reject, notOurs.seen = {reject}, faults' = 0
          PROVE  /\ notOurs.reply = ExpectedReply(notOurs, reject)
                 /\ notOurs.users = AddUsers(notOurs.before,
                      Expected(notOurs.id, notOurs.name, reject))
      <4>1. reject = Absent
        BY <2>1, <2>2, <3>1
      <4>2. AddUsers(notOurs.before, <<>>) = notOurs.before
        BY NothingAdded
      <4> QED
        BY <2>1, <4>1, <4>2 DEF ExpectedReply, Expected
    <3> QED
      BY <2>1, <3>1 DEF Answered
  <2>6. RcptInv(notOurs, faults')
    BY <2>3, <2>4, <2>5 DEF RcptInv
  <2>7. Moves(c)
    BY <1>1, <1>3, <2>1, <2>6 DEF Moves
  <2> QED
    BY <2>7, MovesList
<1>4. CASE /\ rcpt' = [rcpt EXCEPT ![c] = found]
           /\ cache' = [nID |-> d, nReject |-> domains[d]]
           /\ Succeeds /\ domains[d] # Absent
  <2>1. /\ found.step = "reject" /\ found.id = d
        /\ found.name = name /\ found.users = rcpt[c].users
        /\ found.before = rcpt[c].users /\ found.seen = {domains[d]}
        /\ found.reject = 0 /\ found.userID = 0 /\ found.read = {}
        /\ found.reply = "none"
    BY <1>2 DEF IsRcpt, Fields
  <2> HIDE DEF found
  <2>2. domains[d] \in Rejects /\ faults' = faults
    BY <1>1, <1>4 DEF Succeeds
  <2>3. RcptTyped(found)
    BY <1>1, <2>1 DEF RcptInv, RcptTyped, Steps, Rejects
  <2>4. Took(found, <<>>, 0)
    <3>1. {<<>>[i] : i \in 1..0} = {}
      OBVIOUS
    <3> QED
      BY <2>1, <3>1, NothingAdded DEF Took
  <2>5. Reading(found, faults')
    BY <2>1, <2>4 DEF Reading
  <2>6. Answered(found, faults')
    BY <2>1, <2>2 DEF Answered
  <2>7. ASSUME NEW b \in Clients
        PROVE  RcptInv(rcpt'[b], faults')
    <3>1. rcpt'[b] = IF b = c THEN found ELSE rcpt[b]
      BY <1>4, RcptCurrent
    <3> QED
      BY <2>2, <2>3, <2>5, <2>6, <3>1, RcptCurrent DEF RcptInv
  <2>8. \A b \in Clients : RcptInv(rcpt[b], faults)'
    BY <2>7 DEF RcptInv, RcptTyped, Reading, Answered
  <2>9. CacheInv'
    BY <1>4, <2>2 DEF CacheInv
  <2> QED
    BY <1>1, <2>8, <2>9 DEF ListInv, LookupAssertionsHold
<1> QED
  BY <1>3, <1>4 DEF GetDomainID, asked

LEMMA GetDomainRejectList ==
  ASSUME ListInv, NEW c \in Clients, GetDomainReject(c)
  PROVE  Moves(c)
<1>1. /\ IsRcpt(rcpt[c]) /\ RcptInv(rcpt[c], faults) /\ faults \in Nat
      /\ rcpt[c].step = "reject" /\ process = "up"
      /\ faults' \in Nat /\ faults' >= faults /\ UNCHANGED cache
  BY RcptCurrent, FaultsGrow DEF ListInv, GetDomainReject, At
<1>2. PICK reject \in Rejects : TakeReject(c, reject)
  <2>1. /\ cache.nReject \in Rejects
        /\ domains[rcpt[c].id] \in Rejects \cup {Absent}
        /\ 1 \in Rejects
    BY <1>1 DEF ListInv, Inv, CacheInv, RcptInv, RcptTyped, Rejects
  <2> QED
    BY <2>1 DEF GetDomainReject
<1>3. process' = "up"
  BY <1>1, <1>2 DEF TakeReject
<1> DEFINE m == [rcpt[c] EXCEPT !.reject = reject, !.step = "users"]
<1>4. rcpt' = [rcpt EXCEPT ![c] = m]
  BY <1>2 DEF TakeReject
<1>5. /\ m.step = "users" /\ m.reject = reject /\ m.id = rcpt[c].id
      /\ m.name = rcpt[c].name /\ m.users = rcpt[c].users
      /\ m.before = rcpt[c].before /\ m.seen = rcpt[c].seen
      /\ m.userID = rcpt[c].userID /\ m.read = rcpt[c].read
      /\ m.reply = rcpt[c].reply
  BY <1>1 DEF IsRcpt, Fields
<1> HIDE DEF m
<1>6. RcptTyped(m)
  BY <1>1, <1>5 DEF RcptInv, RcptTyped, Steps
<1>7. Reading(m, faults')
  BY <1>1, <1>5 DEF RcptInv, Reading, Took
<1>8. Answered(m, faults')
  BY <1>1, <1>5 DEF RcptInv, Answered
<1> QED
  BY <1>1, <1>3, <1>4, <1>5, <1>6, <1>7, <1>8 DEF Moves, RcptInv

\* A list that has just been made.
LEMMA ListAtStart ==
  ASSUME NEW m, NEW values \in Seq(UserID), Took(m, <<>>, 0)
  PROVE  /\ QueryResult("UserID", values) = Result(values, -1)
         /\ Took(m, values, 0)
         /\ -1 \in -1..(Len(values) - 1)
<1>1. Len(values) \in Nat /\ 0 \in 0..Len(values)
  OBVIOUS
<1>2. Added(m.before, values)[0] = m.before
  BY <1>1, AddedStep
<1>3. {values[i] : i \in 1..0} = {<<>>[i] : i \in 1..0}
  OBVIOUS
<1> QED
  BY <1>1, <1>2, <1>3, NothingAdded, QueryRows DEF Took

LEMMA GetUserFromAddressList ==
  ASSUME ListInv, NEW c \in Clients, GetUserFromAddress(c)
  PROVE  Moves(c)
<1>1. /\ IsRcpt(rcpt[c]) /\ RcptInv(rcpt[c], faults) /\ faults \in Nat
      /\ rcpt[c].step = "users" /\ process = "up" /\ process' = "up"
      /\ faults' \in Nat /\ faults' >= faults /\ UNCHANGED cache
  BY RcptCurrent, FaultsGrow DEF ListInv, GetUserFromAddress, At
<1>2. /\ rcpt[c].id \in Domain /\ rcpt[c].name \in Name
      /\ rcpt[c].reject \in Rejects
      /\ Took(rcpt[c], <<>>, 0)
  BY <1>1 DEF RcptInv, RcptTyped, Reading
<1>3. PICK values : values = Addresses[rcpt[c].id][rcpt[c].name]
  OBVIOUS
<1>4. values \in Seq(UserID)
  BY <1>2, <1>3, NamesUsers
<1>5. CASE rcpt' = [rcpt EXCEPT ![c].list = QueryResult("UserID", values),
                                ![c].step = "read"]
  <2>1. PICK list : list = QueryResult("UserID", values)
    OBVIOUS
  <2> DEFINE m == [rcpt[c] EXCEPT !.list = list, !.step = "read"]
  <2>2. rcpt' = [rcpt EXCEPT ![c] = m]
    BY <1>5, <2>1
  <2>3. /\ m.step = "read" /\ m.reject = rcpt[c].reject /\ m.id = rcpt[c].id
        /\ m.name = rcpt[c].name /\ m.users = rcpt[c].users
        /\ m.before = rcpt[c].before /\ m.seen = rcpt[c].seen
        /\ m.userID = rcpt[c].userID /\ m.read = rcpt[c].read
        /\ m.reply = rcpt[c].reply /\ m.list = list
    BY <1>1 DEF IsRcpt, Fields
  <2> HIDE DEF m
  <2>4. RcptTyped(m)
    BY <1>1, <2>3 DEF RcptInv, RcptTyped, Steps
  <2>5. Took(m, <<>>, 0) /\ Named(m) = values
    BY <1>2, <1>3, <2>3 DEF Took, Named
  <2>6. \E row \in -1..(Len(values) - 1) :
          m.list = Result(values, row) /\ Took(m, values, row + 1)
    <3>1. /\ m.list = Result(values, -1) /\ Took(m, values, 0)
          /\ -1 \in -1..(Len(values) - 1) /\ -1 + 1 = 0
      BY <1>4, <2>1, <2>3, <2>5, ListAtStart
    <3> QED
      BY <3>1
  <2>7. Reading(m, faults')
    BY <2>3, <2>5, <2>6 DEF Reading
  <2>8. Answered(m, faults')
    BY <1>1, <2>3 DEF RcptInv, Answered
  <2> QED
    BY <1>1, <2>2, <2>3, <2>4, <2>7, <2>8 DEF Moves, RcptInv
<1>6. CASE /\ Fails
           /\ rcpt' = [rcpt EXCEPT ![c].step = AskPostmaster(rcpt[c])]
  <2>1. PICK step : step = AskPostmaster(rcpt[c])
    OBVIOUS
  <2> DEFINE m == [rcpt[c] EXCEPT !.step = step]
  <2>2. rcpt' = [rcpt EXCEPT ![c] = m]
    BY <1>6, <2>1
  <2>3. /\ m.step = step /\ m.reject = rcpt[c].reject /\ m.id = rcpt[c].id
        /\ m.name = rcpt[c].name /\ m.users = rcpt[c].users
        /\ m.before = rcpt[c].before /\ m.seen = rcpt[c].seen
        /\ m.userID = rcpt[c].userID /\ m.read = rcpt[c].read
        /\ m.reply = rcpt[c].reply
    BY <1>1 DEF IsRcpt, Fields
  <2> HIDE DEF m
  <2>4. /\ step \in {"postmaster", "answer"}
        /\ step = "postmaster" => rcpt[c].reject = 0
    BY <2>1 DEF AskPostmaster
  <2>5. faults' # 0
    BY <1>1, <1>6 DEF Fails
  <2>6. RcptTyped(m)
    BY <1>1, <2>3, <2>4 DEF RcptInv, RcptTyped, Steps
  <2>7. Took(m, <<>>, 0) /\ Len(<<>>) = 0
    BY <1>2, <2>3 DEF Took
  <2>8. Reading(m, faults')
    BY <2>3, <2>4, <2>5, <2>7 DEF Reading
  <2>9. Answered(m, faults')
    BY <1>1, <2>3, <2>4 DEF RcptInv, Answered
  <2> QED
    BY <1>1, <2>2, <2>3, <2>4, <2>6, <2>8, <2>9 DEF Moves, RcptInv
<1> QED
  BY <1>3, <1>5, <1>6 DEF GetUserFromAddress

LEMMA GetPostmasterList ==
  ASSUME ListInv, NEW c \in Clients, GetPostmaster(c)
  PROVE  Moves(c)
<1>1. /\ IsRcpt(rcpt[c]) /\ RcptInv(rcpt[c], faults) /\ faults \in Nat
      /\ rcpt[c].step = "postmaster" /\ process = "up"
      /\ faults' \in Nat /\ faults' >= faults /\ UNCHANGED cache
  BY RcptCurrent, FaultsGrow DEF ListInv, GetPostmaster, At
<1>2. /\ rcpt[c].id \in Domain /\ rcpt[c].name \in Name
      /\ rcpt[c].reject = 0
      /\ faults = 0 => Addresses[rcpt[c].id][rcpt[c].name] = <<>>
      /\ Took(rcpt[c], <<>>, 0)
  BY <1>1 DEF RcptInv, RcptTyped, Reading
<1>3. PICK values : values = Addresses[rcpt[c].id][Postmaster]
  OBVIOUS
<1>4. values \in Seq(UserID)
  BY <1>2, <1>3, NamesUsers
<1>5. CASE /\ rcpt' = [rcpt EXCEPT ![c].list = QueryResult("UserID", values),
                                   ![c].step = "readPostmaster"]
           /\ UNCHANGED process
  <2>1. PICK list : list = QueryResult("UserID", values)
    OBVIOUS
  <2> DEFINE m == [rcpt[c] EXCEPT !.list = list, !.step = "readPostmaster"]
  <2>2. rcpt' = [rcpt EXCEPT ![c] = m]
    BY <1>5, <2>1
  <2>3. /\ m.step = "readPostmaster" /\ m.reject = rcpt[c].reject
        /\ m.id = rcpt[c].id
        /\ m.name = rcpt[c].name /\ m.users = rcpt[c].users
        /\ m.before = rcpt[c].before /\ m.seen = rcpt[c].seen
        /\ m.userID = rcpt[c].userID /\ m.read = rcpt[c].read
        /\ m.reply = rcpt[c].reply /\ m.list = list
    BY <1>1 DEF IsRcpt, Fields
  <2> HIDE DEF m
  <2>4. RcptTyped(m)
    BY <1>1, <2>3 DEF RcptInv, RcptTyped, Steps
  <2>5. Took(m, <<>>, 0) /\ Named(m) = values
    BY <1>2, <1>3, <2>3 DEF Took, Named
  <2>6. \E row \in -1..(Len(values) - 1) :
          m.list = Result(values, row) /\ Took(m, values, row + 1)
    <3>1. /\ m.list = Result(values, -1) /\ Took(m, values, 0)
          /\ -1 \in -1..(Len(values) - 1) /\ -1 + 1 = 0
      BY <1>4, <2>1, <2>3, <2>5, ListAtStart
    <3> QED
      BY <3>1
  <2>7. Reading(m, faults')
    <3>1. faults' = 0 => faults = 0
      BY <1>1
    <3> QED
      BY <1>2, <2>3, <2>5, <2>6, <3>1 DEF Reading
  <2>8. Answered(m, faults')
    BY <1>1, <2>3 DEF RcptInv, Answered
  <2> QED
    BY <1>1, <1>5, <2>2, <2>3, <2>4, <2>7, <2>8 DEF Moves, RcptInv
<1>6. CASE Fails /\ Assertion("postmaster")
  <2>1. UNCHANGED rcpt /\ process' = "postmaster" /\ faults' > 0
    BY <1>1, <1>6 DEF Fails, Assertion
  <2> QED
    BY <1>1, <2>1 DEF Moves
<1> QED
  BY <1>3, <1>5, <1>6 DEF GetPostmaster

\* No query was made.
LEMMA MovesTo ==
  ASSUME NEW c \in Clients, NEW m, rcpt' = [rcpt EXCEPT ![c] = m],
         m.step # "reject", RcptTyped(m), Reading(m, faults'),
         Answered(m, faults'), faults \in Nat, process = "up",
         UNCHANGED <<cache, faults, process>>
  PROVE  Moves(c)
<1>1. faults' \in Nat /\ faults' >= faults /\ process' = "up"
  OBVIOUS
<1>2. RcptInv(m, faults')
  BY DEF RcptInv
<1> QED
  BY <1>1, <1>2 DEF Moves

\* One more row has been read.
LEMMA TookOneMore ==
  ASSUME NEW m, NEW n, NEW values \in Seq(UserID), NEW k \in 1..Len(values),
         Took(m, values, k - 1),
         n.before = m.before, n.users = AddUser(m.users, values[k]),
         n.read = m.read \cup {values[k]}, n.userID = values[k]
  PROVE  Took(n, values, k)
<1>1. Len(values) \in Nat /\ k \in 0..Len(values) /\ k # 0
  OBVIOUS
<1>2. n.users = Added(n.before, values)[k]
  BY <1>1, AddedStep DEF Took
<1>3. 1..k = 1..(k - 1) \cup {k}
  OBVIOUS
<1>4. n.read = {values[i] : i \in 1..k}
  BY <1>3 DEF Took
<1> QED
  BY <1>1, <1>2, <1>4 DEF Took

\* All rows have been read: is there nobody, the number is 0.
LEMMA TookAll ==
  ASSUME NEW m, NEW values \in Seq(UserID), Took(m, values, Len(values))
  PROVE  /\ m.userID = 0 <=> values = <<>>
         /\ m.users = AddUsers(m.before, values)
         /\ m.read = ToSet(values)
<1>1. Len(values) \in Nat /\ (Len(values) = 0 <=> values = <<>>)
      /\ DOMAIN values = 1..Len(values)
  OBVIOUS
<1>2. Len(values) # 0 => values[Len(values)] # 0
  BY <1>1, LookupAssumption
<1>3. m.read = ToSet(values)
  BY <1>1 DEF Took, ToSet
<1> QED
  BY <1>1, <1>2, <1>3 DEF Took, AddUsers

LEMMA ReadRowList ==
  ASSUME ListInv, NEW c \in Clients, ReadRow(c)
  PROVE  Moves(c)
<1>1. PICK old : old = rcpt[c]
  OBVIOUS
<1>2. /\ IsRcpt(old) /\ RcptInv(old, faults) /\ faults \in Nat
      /\ old.step \in {"read", "readPostmaster"}
      /\ process = "up" /\ UNCHANGED <<cache, faults>>
  BY <1>1, RcptCurrent DEF ListInv, ReadRow
<1>3. old.id \in Domain /\ old.name \in Name /\ old.reject \in Rejects
  BY <1>2 DEF RcptInv, RcptTyped
<1>4. PICK values : values = Named(old)
  OBVIOUS
<1>5. values \in Seq(UserID)
  BY <1>3, <1>4, NamesUsers DEF Named
<1>6. PICK row \in -1..(Len(values) - 1) :
        old.list = Result(values, row) /\ Took(old, values, row + 1)
  BY <1>2, <1>4 DEF RcptInv, Reading
<1>7. PICK list : list = NextRow(old.list)
  OBVIOUS
<1>8. /\ list = Result(values, row + 1) /\ list.ok
      /\ OnRow(list) <=> row + 1 < Len(values)
      /\ row + 1 < Len(values) => /\ HasInt(list, "UserID")
                                  /\ GetInt(list, "UserID") = values[row + 2]
  BY <1>5, <1>6, <1>7, NextResult
<1>9. CASE row + 1 < Len(values)
  <2>1. PICK k, user : k = row + 2 /\ user = values[k]
    OBVIOUS
  <2>2. k \in 1..Len(values) /\ k - 1 = row + 1 /\ user \in UserID
    BY <1>5, <1>9, <2>1
  <2>3. PICK users, read : /\ users = AddUser(old.users, user)
                           /\ read = old.read \cup {user}
    OBVIOUS
  <2> DEFINE m == [old EXCEPT !.list = list, !.userID = user,
                              !.users = users, !.read = read]
  <2>4. rcpt' = [rcpt EXCEPT ![c] = m] /\ UNCHANGED process
    <3>1. /\ rcpt' = [rcpt EXCEPT ![c].list = list, ![c].userID = user,
                                  ![c].users = AddUser(@, user),
                                  ![c].read = @ \cup {user}]
          /\ UNCHANGED process
      BY <1>1, <1>7, <1>8, <1>9, <2>1 DEF ReadRow
    <3> QED
      BY <1>1, <1>2, <2>3, <3>1 DEF IsRcpt, Fields
  <2>5. /\ m.step = old.step /\ m.reject = old.reject /\ m.id = old.id
        /\ m.name = old.name /\ m.users = users
        /\ m.before = old.before /\ m.seen = old.seen
        /\ m.userID = user /\ m.read = read
        /\ m.reply = old.reply /\ m.list = list
    BY <1>2 DEF IsRcpt, Fields
  <2> HIDE DEF m
  <2>6. RcptTyped(m)
    <3>1. IsList(users, UserID)
      BY <1>2, <2>2, <2>3, AddUserList DEF RcptInv, RcptTyped
    <3> QED
      BY <1>2, <2>5, <3>1 DEF RcptInv, RcptTyped
  <2>7. Took(m, values, k)
    BY <1>5, <1>6, <2>1, <2>2, <2>3, <2>5, TookOneMore
  <2>8. \E at \in -1..(Len(values) - 1) :
          m.list = Result(values, at) /\ Took(m, values, at + 1)
    <3>1. row + 1 \in -1..(Len(values) - 1) /\ row + 1 + 1 = k
      BY <1>9, <2>1, <2>2
    <3> QED
      BY <1>8, <2>5, <2>7, <3>1
  <2>9. Reading(m, faults')
    <3>1. Named(m) = values
      BY <1>4, <2>5 DEF Named
    <3> QED
      BY <1>2, <2>5, <2>8, <3>1 DEF RcptInv, Reading
  <2>10. Answered(m, faults')
    BY <1>2, <2>5 DEF RcptInv, Answered
  <2> QED
    BY <1>2, <2>4, <2>5, <2>6, <2>9, <2>10, MovesTo
<1>10. CASE ~(row + 1 < Len(values))
  <2>1. row + 1 = Len(values)
    BY <1>5, <1>6, <1>10
  <2>2. Took(old, values, Len(values))
    BY <1>6, <2>1
  <2>3. PICK step, none : step = AskPostmaster(old) /\ none = NewList
    OBVIOUS
  <2> DEFINE m == [old EXCEPT !.list = none, !.step = step]
  <2>4. rcpt' = [rcpt EXCEPT ![c] = m] /\ UNCHANGED process
    BY <1>1, <1>7, <1>8, <1>10, <2>3 DEF ReadRow
  <2>5. /\ m.step = step /\ m.reject = old.reject /\ m.id = old.id
        /\ m.name = old.name /\ m.users = old.users
        /\ m.before = old.before /\ m.seen = old.seen
        /\ m.userID = old.userID /\ m.read = old.read
        /\ m.reply = old.reply
    BY <1>2 DEF IsRcpt, Fields
  <2> HIDE DEF m
  <2>6. \/ /\ step = "postmaster" /\ old.userID = 0 /\ old.reject = 0
           /\ old.step = "read"
        \/ /\ step = "answer"
           /\ \/ old.userID # 0 \/ old.reject # 0
              \/ old.step = "readPostmaster"
    BY <1>2, <2>3 DEF AskPostmaster
  <2>7. RcptTyped(m)
    BY <1>2, <2>5, <2>6 DEF RcptInv, RcptTyped, Steps
  <2>8. old.userID = 0 <=> values = <<>>
    BY <1>5, <2>2, TookAll
  <2>9. CASE step = "postmaster"
    <3>1. values = <<>> /\ Addresses[m.id][m.name] = <<>> /\ Len(<<>>) = 0
      BY <1>4, <2>5, <2>6, <2>8, <2>9 DEF Named
    <3>2. Took(m, <<>>, 0)
      BY <2>2, <2>5, <3>1 DEF Took
    <3>3. Reading(m, faults')
      BY <2>5, <2>6, <2>9, <3>1, <3>2 DEF Reading
    <3>4. Answered(m, faults')
      BY <1>2, <2>5, <2>9 DEF RcptInv, Answered
    <3> QED
      BY <1>2, <2>4, <2>5, <2>7, <2>9, <3>3, <3>4, MovesTo
  <2>10. CASE step = "answer"
    <3>1. Took(m, values, Len(values))
      BY <2>2, <2>5 DEF Took
    <3>2. values \in {<<>>, Addresses[m.id][m.name],
                      Addresses[m.id][Postmaster]}
      BY <1>4, <2>5 DEF Named
    <3>3. m.reject # Absent
      BY <1>3, <2>5, LookupAssumption
    <3>4. faults = 0 => values = Expected(m.id, m.name, m.reject)
      <4>1. CASE old.step = "read"
        <5>1. values = Addresses[m.id][m.name]
          BY <1>4, <2>5, <4>1 DEF Named
        <5>2. values # <<>> \/ m.reject = 1
          BY <1>3, <2>5, <2>6, <2>8, <2>10, <4>1 DEF Rejects
        <5> QED
          BY <3>3, <5>1, <5>2 DEF Expected
      <4>2. CASE old.step = "readPostmaster"
        <5>1. values = Addresses[m.id][Postmaster] /\ m.reject = 0
              /\ (faults = 0 => Addresses[m.id][m.name] = <<>>)
          BY <1>2, <1>4, <2>5, <4>2 DEF Named, RcptInv, Reading
        <5> QED
          BY <3>3, <5>1 DEF Expected
      <4> QED
        BY <1>2, <4>1, <4>2
    <3>5. Reading(m, faults')
      BY <1>2, <2>5, <2>10, <3>1, <3>2, <3>4 DEF Reading
    <3>6. Answered(m, faults')
      BY <1>2, <2>5, <2>10 DEF RcptInv, Answered
    <3> QED
      BY <1>2, <2>4, <2>5, <2>7, <2>10, <3>5, <3>6, MovesTo
  <2> QED
    BY <2>6, <2>9, <2>10
<1> QED
  BY <1>9, <1>10

LEMMA AnswerList ==
  ASSUME ListInv, NEW c \in Clients, Answer(c)
  PROVE  Moves(c)
<1>1. PICK old, reply : old = rcpt[c] /\ reply = Reply(old)
  OBVIOUS
<1>2. /\ IsRcpt(old) /\ RcptInv(old, faults) /\ faults \in Nat
      /\ old.step = "answer" /\ Fresh(c)
      /\ process = "up" /\ UNCHANGED <<cache, faults, process>>
  BY <1>1, RcptCurrent DEF ListInv, Inv, Answer, At
<1> DEFINE m == [old EXCEPT !.reply = reply, !.step = "none"]
<1>3. rcpt' = [rcpt EXCEPT ![c] = m]
  BY <1>1 DEF Answer
<1>4. /\ m.step = "none" /\ m.reject = old.reject /\ m.id = old.id
      /\ m.name = old.name /\ m.users = old.users
      /\ m.before = old.before /\ m.seen = old.seen
      /\ m.userID = old.userID /\ m.read = old.read
      /\ m.reply = reply
  BY <1>2 DEF IsRcpt, Fields
<1> HIDE DEF m
<1>5. /\ old.id \in Domain /\ old.name \in Name /\ old.reject \in Rejects
      /\ IsList(old.users, UserID) /\ IsList(old.before, UserID)
      /\ old.seen \cap Rejects # {}
  BY <1>2 DEF RcptInv, RcptTyped, Answered
<1>6. PICK values : /\ values \in Seq(UserID)
                    /\ Took(old, values, Len(values))
                    /\ faults = 0 =>
                         values = Expected(old.id, old.name, old.reject)
  <2>1. /\ Addresses[old.id][old.name] \in Seq(UserID)
        /\ Addresses[old.id][Postmaster] \in Seq(UserID)
        /\ <<>> \in Seq(UserID)
    BY <1>5, NamesUsers
  <2> QED
    BY <1>2, <2>1 DEF RcptInv, Reading
<1>7. /\ old.userID = 0 <=> values = <<>>
      /\ old.users = AddUsers(old.before, values)
      /\ old.read = ToSet(values)
  BY <1>6, TookAll
<1>8. RcptTyped(m)
  BY <1>2, <1>4 DEF RcptInv, RcptTyped, Steps
<1>9. Reading(m, faults')
  BY <1>4 DEF Reading
<1>10. ASSUME m.reply = "250"
       PROVE  m.read # {} /\ m.read \subseteq ToSet(m.users)
  <2>1. old.userID # 0 /\ Len(old.users) # MaxLocal
    BY <1>1, <1>4, <1>10 DEF Reply
  <2>2. Len(old.users) < MaxLocal
    BY <1>5, <2>1, RecipientsAssumption DEF IsList
  <2>3. ToSet(values) \subseteq ToSet(old.users)
    BY <1>5, <1>6, <1>7, <2>2, AddUsersList
  <2>4. ToSet(values) # {}
    <3>1. values # <<>>
      BY <1>7, <2>1
    <3>2. 1 \in DOMAIN values
      BY <1>6, <3>1
    <3> QED
      BY <3>2 DEF ToSet
  <2> QED
    BY <1>4, <1>7, <2>3, <2>4
<1>11. ASSUME NEW reject, m.seen = {reject}, faults' = 0
       PROVE  /\ m.reply = ExpectedReply(m, reject)
              /\ m.users = AddUsers(m.before,
                                    Expected(m.id, m.name, reject))
  <2>1. faults = 0 /\ ~(faults > 0)
    BY <1>2, <1>11
  <2>2. reject \in Rejects /\ Absent \notin old.seen
    BY <1>4, <1>5, <1>11, LookupAssumption
  <2>3. old.reject = reject
    BY <1>1, <1>2, <1>4, <1>11, <2>1, <2>2 DEF Fresh, Asked
  <2>4. values = Expected(m.id, m.name, reject)
    BY <1>4, <1>6, <2>1, <2>3
  <2>5. reject # Absent
    BY <2>2, LookupAssumption
  <2> QED
    BY <1>1, <1>4, <1>7, <2>4, <2>5 DEF Reply, ExpectedReply
<1>12. Answered(m, faults')
  BY <1>4, <1>10, <1>11 DEF Answered
<1> QED
  BY <1>2, <1>3, <1>4, <1>8, <1>9, <1>12, MovesTo

\* What another one changes, the sessions that asked for the domain see.
LEMMA ChangeDomainList ==
  ASSUME ListInv, Inv', NEW d \in Domain, NEW reject \in Rejects \cup {Absent},
         ChangeDomain(d, reject)
  PROVE  ListInv'
<1>1. process = "up" /\ UNCHANGED <<cache, faults, process>>
  BY DEF ChangeDomain
<1>2. ASSUME NEW c \in Clients
      PROVE  RcptInv(rcpt'[c], faults) /\ rcpt'[c].step = rcpt[c].step
  <2>1. PICK old, m : old = rcpt[c] /\ m = rcpt'[c]
    OBVIOUS
  <2>2. IsRcpt(old) /\ RcptInv(old, faults)
    BY <2>1, RcptCurrent
  <2>3. CASE m = old
    BY <2>1, <2>2, <2>3
  <2>4. CASE m # old
    <3>1. old.step # "none" /\ m = [old EXCEPT !.seen = @ \cup {reject}]
      BY <2>1, <2>4 DEF ChangeDomain
    <3>2. /\ m.step = old.step /\ m.reject = old.reject /\ m.id = old.id
          /\ m.name = old.name /\ m.users = old.users
          /\ m.before = old.before /\ m.seen = old.seen \cup {reject}
          /\ m.userID = old.userID /\ m.read = old.read
          /\ m.reply = old.reply /\ m.list = old.list
      BY <2>2, <3>1 DEF IsRcpt, Fields
    <3>3. RcptTyped(m)
      BY <2>2, <3>2 DEF RcptInv, RcptTyped
    <3>4. Reading(m, faults)
      <4>1. Named(m) = Named(old)
        BY <3>2 DEF Named
      <4> QED
        BY <2>2, <3>2, <4>1 DEF RcptInv, Reading, Took
    <3>5. Answered(m, faults)
      <4>1. old.reply = "none" /\ old.seen \cap Rejects # {}
        BY <2>2, <3>1 DEF RcptInv, Answered
      <4> QED
        BY <3>2, <4>1 DEF Answered
    <3> QED
      BY <2>1, <3>2, <3>3, <3>4, <3>5 DEF RcptInv
  <2> QED
    BY <2>3, <2>4
<1>3. \A c \in Clients : RcptInv(rcpt[c], faults)'
  BY <1>1, <1>2 DEF RcptInv, RcptTyped, Reading, Answered
<1>4. CacheInv'
  BY <1>1, <1>2 DEF ListInv, CacheInv
<1> QED
  BY <1>1, <1>3, <1>4 DEF ListInv, LookupAssertionsHold

LEMMA ListInvInit == Init => ListInv
<1> SUFFICES ASSUME Init PROVE ListInv
  OBVIOUS
<1>1. RcptInv(NewRcpt, 0)
  <2>1. /\ NewRcpt.step = "none" /\ NewRcpt.id = 0
        /\ NewRcpt.name = Postmaster /\ NewRcpt.reject = 0
        /\ NewRcpt.seen = {} /\ NewRcpt.users = <<>>
        /\ NewRcpt.before = <<>> /\ NewRcpt.reply = "none"
    BY DEF NewRcpt
  <2>2. IsList(<<>>, UserID)
    <3>1. <<>> \in Seq(UserID) /\ Len(<<>>) = 0
      OBVIOUS
    <3> QED
      BY <3>1, RecipientsAssumption DEF IsList, Distinct
  <2>3. RcptTyped(NewRcpt)
    BY <2>1, <2>2, LookupAssumption DEF RcptTyped, Steps, Rejects
  <2> QED
    BY <2>1, <2>3 DEF RcptInv, Reading, Answered
<1>2. \A c \in Clients : rcpt[c] = NewRcpt
  BY DEF Init
<1>3. CacheInv
  BY <1>2 DEF Init, CacheInv, NewRcpt
<1> QED
  BY <1>1, <1>2, <1>3, InvInit DEF Init, ListInv, LookupAssertionsHold

LEMMA ListInvStep == ListInv /\ [Next \/ Terminated]_lookupVars => ListInv'
<1> SUFFICES ASSUME ListInv, [Next \/ Terminated]_lookupVars PROVE ListInv'
  OBVIOUS
<1>1. Inv'
  BY InvStep DEF ListInv
<1>2. ASSUME NEW c \in Clients, ProcessRCPT(c)
      PROVE  ListInv'
  <2>1. CASE \E d \in Domain, name \in Name : GetDomainID(c, d, name)
    BY <1>1, <2>1, GetDomainIDList
  <2>2. CASE ~ \E d \in Domain, name \in Name : GetDomainID(c, d, name)
    <3>1. Moves(c)
      BY <1>2, <2>2, BadNameList, GetDomainRejectList, GetUserFromAddressList,
         GetPostmasterList, ReadRowList, AnswerList DEF ProcessRCPT
    <3> QED
      BY <1>1, <3>1, MovesList
  <2> QED
    BY <2>1, <2>2
<1>3. CASE UNCHANGED lookupVars
  <2>1. UNCHANGED <<rcpt, cache, faults, process>>
    BY <1>3 DEF lookupVars
  <2> QED
    BY <1>1, <2>1 DEF ListInv, CacheInv, LookupAssertionsHold, RcptInv,
       RcptTyped, Reading, Answered
<1> QED
  BY <1>1, <1>2, <1>3, ChangeDomainList DEF Next, Terminated

LEMMA ListInvHolds == Spec => []ListInv
BY ListInvInit, ListInvStep, PTL DEF Spec

(***************************************************************************)
(* Every part of the lookup stays in its set, whatever the tables hold:    *)
(* the list of the mail has room for what RCPT adds to it.                 *)
(***************************************************************************)
THEOREM TypeCorrectness == Spec => []LookupTypeOK
<1>1. ListInv => LookupTypeOK
  <2> SUFFICES ASSUME ListInv PROVE LookupTypeOK
    OBVIOUS
  <2>1. ASSUME NEW c \in Clients
        PROVE  ToSet(rcpt[c].users) \subseteq UserID
    <3>1. rcpt[c].users \in Seq(UserID)
      BY DEF ListInv, RcptInv, RcptTyped, IsList
    <3> QED
      BY <3>1 DEF ToSet
  <2> QED
    BY <2>1 DEF ListInv, Inv, CacheInv, RcptInv, RcptTyped, IsList,
       LookupTypeOK
<1> QED
  BY <1>1, ListInvHolds, PTL

(***************************************************************************)
(* 250 means that all users the tables named are on the list of the mail,  *)
(* also when queries failed and the tables changed.                        *)
(***************************************************************************)
THEOREM Confirmation == Spec => []ConfirmedIsListed
<1>1. ListInv => ConfirmedIsListed
  BY DEF ListInv, RcptInv, Answered, ConfirmedIsListed
<1> QED
  BY <1>1, ListInvHolds, PTL

(***************************************************************************)
(* When nothing failed and the domain was left alone, the answer and the   *)
(* recipients are those the tables give, whatever the others asked.        *)
(***************************************************************************)
THEOREM TrueAnswers == Spec => []AnswerFollowsTables
<1>1. ListInv => AnswerFollowsTables
  BY DEF ListInv, RcptInv, Answered, AnswerFollowsTables
<1> QED
  BY <1>1, ListInvHolds, PTL

(***************************************************************************)
(* The ASSERTs on what the DataModel answers hold, for tables of any size: *)
(* those of DataList and the one on Reject.  Of those in module Lookup     *)
(* only two may end the daemon: that on the name in the client's line and, *)
(* when its query has failed, that on the postmaster's list.               *)
(***************************************************************************)
THEOREM Asserts == Spec => []LookupAssertionsHold
<1>1. ListInv => LookupAssertionsHold
  BY DEF ListInv
<1> QED
  BY <1>1, ListInvHolds, PTL
==============================================================================
