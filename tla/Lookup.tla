-------------------------------- MODULE Lookup -------------------------------
(***************************************************************************)
(* How RCPT finds out whose address it was given, with several sessions at *)
(* it: three or four calls of the DataModel they share, each of which      *)
(* holds its lock, and between which the others run.  GetDomainID leaves   *)
(* in _Cache what it read of the domain, and GetDomainReject takes it from *)
(* there if it is still the domain asked for.                              *)
(*                                                                         *)
(* The daemon only reads the tables.  Somebody else (ChangeDomain, bounded *)
(* by MaxChanges) may at any time add a domain, remove it, or change what  *)
(* is done with unknown names; Addresses stays.  Up to MaxFaults queries   *)
(* fail.  A domain is its number, and a name the client gives it.          *)
(***************************************************************************)
EXTENDS DataList, Recipients

CONSTANTS Clients,      \* the SMTP sessions
          Domain,       \* the domains, by DomainID
          Name,         \* the names RCPT asks for
          Postmaster,   \* the name that stands in for unknown ones
          UserID,       \* the accounts
          Addresses,    \* table Addresses
          Absent,       \* there is no such row in table Domains
          Junk,         \* what memory that was never written may hold
          MaxRcpts,     \* bound on the RCPTs of a client
          MaxFaults,    \* bound on the queries that fail
          MaxChanges    \* bound on the changes of the table

Rejects == {0, 1}

ASSUME LookupAssumption ==
  /\ Domain \subseteq Nat \ {0}
  /\ UserID \subseteq Nat \ {0}
  /\ Postmaster \in Name
  /\ Addresses \in [Domain -> [Name -> Seq(UserID)]]
  /\ Absent \notin Rejects
  /\ Junk \notin Rejects
  /\ MaxRcpts \in Nat
  /\ MaxFaults \in Nat
  /\ MaxChanges \in Nat

VARIABLES domains,   \* table Domains: Reject of each domain, or Absent
          cache,     \* _Cache.domain
          rcpt,      \* the RCPT each client is at
          faults,    \* queries that have failed
          changes,   \* changes that have been made
          process    \* "up", or the ASSERT that ended the daemon

lookupVars == <<domains, cache, rcpt, faults, changes, process>>

\* "step" is the call that comes next.  "users" is the list of the mail, to
\* which the RCPTs of a client add.  The rest are observers: "seen" is what
\* Reject of the domain was since the RCPT began, "before" the list then, and
\* "read" the users the tables named.
NewRcpt ==
  [step |-> "none", id |-> 0, name |-> Postmaster, reject |-> 0,
   list |-> NewList, userID |-> 0, users |-> <<>>, reply |-> "none",
   rcpts |-> 0, seen |-> {}, before |-> <<>>, read |-> {}]

\* _Cache has no constructor, and the DataModel comes from new.
Init ==
  /\ domains \in [Domain -> Rejects \cup {Absent}]
  /\ cache \in [nID : Domain \cup {0}, nReject : Rejects \cup {Junk}]
  /\ rcpt = [c \in Clients |-> NewRcpt]
  /\ faults = 0
  /\ changes = 0
  /\ process = "up"

At(c, step) ==
  /\ process = "up"
  /\ rcpt[c].step = step

Succeeds == UNCHANGED faults
Fails == faults < MaxFaults /\ faults' = faults + 1

Assertion(what) == process' = what /\ UNCHANGED rcpt

------------------------------------------------------------------------------
\* The client's line has no name before the @, or one of 255 characters: the
\* ASSERT on it comes before the first call.
BadName(c) ==
  /\ At(c, "none")
  /\ rcpt[c].rcpts < MaxRcpts
  /\ Assertion("name")
  /\ UNCHANGED <<domains, cache, faults, changes>>

(***************************************************************************)
(* The calls.                                                              *)
(***************************************************************************)
\* Whether the client may relay, and the ASSERTs on the list of remote
\* recipients, are a matter of module Message.
GetDomainID(c, d, name) ==
  LET asked == [NewRcpt EXCEPT !.id = d, !.name = name,
                               !.users = rcpt[c].users,
                               !.before = rcpt[c].users,
                               !.rcpts = rcpt[c].rcpts + 1,
                               !.seen = {domains[d]}]
      notOurs == [asked EXCEPT !.reply = "notOurs"]
  IN  /\ At(c, "none")
      /\ rcpt[c].rcpts < MaxRcpts
      /\ \/ /\ Succeeds
            /\ domains[d] # Absent
            /\ cache' = [nID |-> d, nReject |-> domains[d]]
            /\ rcpt' = [rcpt EXCEPT ![c] = [asked EXCEPT !.step = "reject"]]
         \/ /\ Succeeds
            /\ domains[d] = Absent
            /\ rcpt' = [rcpt EXCEPT ![c] = notOurs]
            /\ UNCHANGED cache
         \/ /\ Fails
            /\ rcpt' = [rcpt EXCEPT ![c] = notOurs]
            /\ UNCHANGED cache
      /\ UNCHANGED <<domains, changes, process>>

TakeReject(c, reject) ==
  IF reject \in Rejects
    THEN /\ rcpt' = [rcpt EXCEPT ![c].reject = reject, ![c].step = "users"]
         /\ UNCHANGED process
    ELSE Assertion("reject")

\* Fault: the cache is not asked whose answer it has.
GetDomainRejectCached(c) ==
  /\ At(c, "reject")
  /\ TakeReject(c, cache.nReject)
  /\ UNCHANGED <<domains, cache, faults, changes>>

\* No row, or no answer, reads as 1.
GetDomainReject(c) ==
  LET id == rcpt[c].id
      stored == IF domains[id] = Absent THEN 1 ELSE domains[id]
  IN  /\ At(c, "reject")
      /\ \/ cache.nID = id /\ TakeReject(c, cache.nReject) /\ Succeeds
         \/ cache.nID # id /\ TakeReject(c, stored) /\ Succeeds
         \/ cache.nID # id /\ TakeReject(c, 1) /\ Fails
      /\ UNCHANGED <<domains, cache, changes>>

\* Fault: the postmaster of a strict domain gets what is for unknown names.
AskPostmasterAlways(m) ==
  IF m.userID = 0 /\ m.step # "readPostmaster" THEN "postmaster"
  ELSE "answer"

\* After a list, or without one: bFound is userID > 0, as the ASSERTs at the
\* end of ProcessRCPT have it.
AskPostmaster(m) ==
  IF m.userID = 0 /\ m.reject = 0 /\ m.step # "readPostmaster"
    THEN "postmaster"
    ELSE "answer"

GetUserFromAddress(c) ==
  LET m == rcpt[c]
      users == QueryResult("UserID", Addresses[m.id][m.name])
  IN  /\ At(c, "users")
      /\ \/ /\ Succeeds
            /\ rcpt' = [rcpt EXCEPT ![c].list = users, ![c].step = "read"]
         \/ /\ Fails
            /\ rcpt' = [rcpt EXCEPT ![c].step = AskPostmaster(m)]
      /\ UNCHANGED <<domains, cache, changes, process>>

\* A query that fails returns no list, which is asserted.
GetPostmaster(c) ==
  LET users == QueryResult("UserID", Addresses[rcpt[c].id][Postmaster])
  IN  /\ At(c, "postmaster")
      /\ \/ /\ Succeeds
            /\ rcpt' = [rcpt EXCEPT ![c].list = users,
                                    ![c].step = "readPostmaster"]
            /\ UNCHANGED process
         \/ Fails /\ Assertion("postmaster")
      /\ UNCHANGED <<domains, cache, changes>>

------------------------------------------------------------------------------
(***************************************************************************)
(* What the session does with a list, a row at a time, and its answer.     *)
(***************************************************************************)
ReadRow(c) ==
  LET m == rcpt[c]
      list == NextRow(m.list)
      user == GetInt(list, "UserID")
  IN  /\ process = "up"
      /\ m.step \in {"read", "readPostmaster"}
      /\ IF OnRow(list)
           THEN IF HasInt(list, "UserID")
                  THEN /\ rcpt' = [rcpt EXCEPT ![c].list = list,
                                     ![c].userID = user,
                                     ![c].users = AddUser(@, user),
                                     ![c].read = @ \cup {user}]
                       /\ UNCHANGED process
                  ELSE Assertion("DataList")
           ELSE IF list.ok
                  THEN /\ rcpt' = [rcpt EXCEPT ![c].list = NewList,
                                               ![c].step = AskPostmaster(m)]
                       /\ UNCHANGED process
                  ELSE Assertion("DataList")
      /\ UNCHANGED <<domains, cache, faults, changes>>

\* Fault: a list that is full is not reported.
ReplySilently(m) == IF m.userID = 0 THEN "450" ELSE "250"

\* The list may have become full with this RCPT, or with an earlier one.
Reply(m) ==
  IF m.userID = 0 THEN "450"
  ELSE IF Len(m.users) = MaxLocal THEN "554"
  ELSE "250"

Answer(c) ==
  /\ At(c, "answer")
  /\ rcpt' = [rcpt EXCEPT ![c].reply = Reply(rcpt[c]), ![c].step = "none"]
  /\ UNCHANGED <<domains, cache, faults, changes, process>>

ProcessRCPT(c) ==
  \/ BadName(c)
  \/ \E d \in Domain, name \in Name : GetDomainID(c, d, name)
  \/ GetDomainReject(c) \/ GetUserFromAddress(c) \/ GetPostmaster(c)
  \/ ReadRow(c) \/ Answer(c)

\* Not the daemon's doing.
ChangeDomain(d, reject) ==
  /\ process = "up"
  /\ changes < MaxChanges
  /\ changes' = changes + 1
  /\ domains' = [domains EXCEPT ![d] = reject]
  /\ rcpt' = [c \in Clients |->
                IF rcpt[c].step # "none" /\ rcpt[c].id = d
                  THEN [rcpt[c] EXCEPT !.seen = @ \cup {reject}]
                  ELSE rcpt[c]]
  /\ UNCHANGED <<cache, faults, process>>

Next ==
  \/ \E c \in Clients : ProcessRCPT(c)
  \/ \E d \in Domain, reject \in Rejects \cup {Absent} : ChangeDomain(d, reject)

Terminated ==
  /\ \/ process # "up"
     \/ \A c \in Clients : rcpt[c].step = "none" /\ rcpt[c].rcpts = MaxRcpts
  /\ UNCHANGED lookupVars

Spec == Init /\ [][Next \/ Terminated]_lookupVars

------------------------------------------------------------------------------
(***************************************************************************)
(* Properties.                                                             *)
(***************************************************************************)
Steps == {"none", "reject", "users", "read", "postmaster", "readPostmaster",
          "answer"}

LookupTypeOK ==
  /\ domains \in [Domain -> Rejects \cup {Absent}]
  /\ cache \in [nID : Domain \cup {0}, nReject : Rejects \cup {Junk}]
  /\ \A c \in Clients :
       /\ rcpt[c].step \in Steps
       /\ rcpt[c].step # "none" => rcpt[c].id \in Domain
       /\ rcpt[c].reject \in Rejects
       /\ ToSet(rcpt[c].users) \subseteq UserID
       /\ Len(rcpt[c].users) <= MaxLocal

Asked(c) == rcpt[c].step \notin {"none", "reject"}

(***************************************************************************)
(* Whether unknown names are refused is decided by what the table said of  *)
(* the very domain the client named, at some moment of this RCPT: never by *)
(* what another session put into the cache, by an older value of it, or by *)
(* what was in memory before it was first filled.  A domain that is gone,  *)
(* and a query that fails, count as 1.                                     *)
(***************************************************************************)
RejectIsFresh ==
  \A c \in Clients :
    Asked(c) =>
      \/ rcpt[c].reject \in rcpt[c].seen
      \/ rcpt[c].reject = 1 /\ (Absent \in rcpt[c].seen \/ faults > 0)

Expected(d, name, reject) ==
  IF reject = Absent THEN <<>>
  ELSE IF Addresses[d][name] # <<>> \/ reject = 1 THEN Addresses[d][name]
  ELSE Addresses[d][Postmaster]

ExpectedReply(m, reject) ==
  IF reject = Absent THEN "notOurs"
  ELSE IF Expected(m.id, m.name, reject) = <<>> THEN "450"
  ELSE IF Len(m.users) = MaxLocal THEN "554"
  ELSE "250"

(***************************************************************************)
(* When nothing failed and the domain was left alone meanwhile, the client *)
(* gets the answer, and the mail the recipients, that the tables give for  *)
(* the address, whatever the other sessions asked in between.              *)
(***************************************************************************)
AnswerFollowsTables ==
  \A c \in Clients : \A reject \in Rejects \cup {Absent} :
    LET m == rcpt[c]
    IN  m.reply # "none" /\ m.seen = {reject} /\ faults = 0 =>
          /\ m.reply = ExpectedReply(m, reject)
          /\ m.users = AddUsers(m.before, Expected(m.id, m.name, reject))

(***************************************************************************)
(* 250 means that all users the tables named are on the list of the mail,  *)
(* however full it was before, also when queries failed and the tables     *)
(* changed.                                                                *)
(***************************************************************************)
ConfirmedIsListed ==
  \A c \in Clients :
    rcpt[c].reply = "250" =>
      /\ rcpt[c].read # {}
      /\ rcpt[c].read \subseteq ToSet(rcpt[c].users)

(***************************************************************************)
(* The ASSERTs on what the DataModel answers hold, whatever other sessions *)
(* ask and the tables become: those of DataList on its phases and cursor,  *)
(* and the one on Reject.  The daemon is only ended by the two ASSERTs on  *)
(* what comes from outside: the one on the name in the client's line, and  *)
(* that on the list of the postmaster, when its query has failed.  (Those  *)
(* on remote recipients are in module Message.)                            *)
(***************************************************************************)
LookupAssertionsHold ==
  process # "up" =>
    \/ process = "name"
    \/ process = "postmaster" /\ faults > 0
==============================================================================
