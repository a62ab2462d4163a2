----------------------------- MODULE MessageProofs ---------------------------
(***************************************************************************)
(* The SMTP sessions, for any number of them, any directory and limits.    *)
(*                                                                         *)
(* First what concerns one session alone: the types of its fields, who     *)
(* may relay, whom the recipients were named by, and which lines are of    *)
(* the mail that is being received.  Then what it has to do with the       *)
(* store: the copies that have been saved so far, and the receipts.        *)
(***************************************************************************)
EXTENDS Message, RecipientsProofs, TLAPS

Fields == {"state", "step", "helo", "from", "users", "remote", "lines",
           "authenticating", "authenticated", "szUser", "szPass", "userID",
           "i", "j", "id", "size", "logins", "mail", "sent", "promised",
           "refused"}

IsMessage(m) == m = [f \in Fields |-> m[f]]

Shape ==
  /\ smtp = [s \in SmtpSessions |-> smtp[s]]
  /\ \A s \in SmtpSessions : IsMessage(smtp[s])

\* A login is good for an account, and remote recipients need one, also while
\* another login is being tried, and a sender.
Relay(m) ==
  /\ m.authenticated => m.userID # 0
  /\ m.remote # <<>> =>
       m.userID # 0 /\ m.from /\ (m.authenticated \/ m.authenticating)
  /\ m.step # "none" => ~m.authenticating

Line == [mail : SmtpSessions \X Nat, n : Nat]

Typed(m) ==
  /\ m.state \in {"Starting", "Waiting", "Data", "Close", "Done"}
  /\ m.step \in {"none", "insert", "lines", "size"}
  /\ m.step # "none" => m.state = "Data" /\ m.lines # <<>>
  /\ m.remote \in Seq(Address)
  /\ Len(m.remote) <= MaxRemote
  /\ m.lines \in Seq(Line)
  /\ m.szUser \in UserID \cup {0}
  /\ m.userID \in UserID \cup {0}
  /\ m.i \in Nat \ {0}
  /\ m.j \in Nat \ {0}
  /\ m.id \in MsgID \cup {0}
  /\ m.size \in Nat
  /\ m.mail \in 0..MaxMails
  /\ m.sent \in Nat

\* The recipients: no user twice, all who were promised, and nobody who was
\* not named since the last RSET.
Named(m) ==
  /\ IsList(m.users, UserID)
  /\ m.promised \subseteq ToSet(m.users) \cup ToSet(m.remote)
  /\ ToSet(m.users) \cup ToSet(m.remote) \subseteq m.promised \cup m.refused

Receives(m) == m.state = "Data" /\ ~m.authenticating

\* The lines are of this session's mails; while one is received, its own lines
\* come last.
LinesInv(s, m) ==
  /\ \A k \in 1..Len(m.lines) : m.lines[k].mail \in {s} \X (0..m.mail)
  /\ Receives(m) => /\ m.mail # 0
                    /\ EndsWith(m.lines, <<s, m.mail>>, m.sent)

LocalInv(s, m) == Relay(m) /\ Typed(m) /\ Named(m) /\ LinesInv(s, m)

Local == Shape /\ \A s \in SmtpSessions : LocalInv(s, smtp[s])

------------------------------------------------------------------------------
LEMMA Limits ==
  MaxLocal \in Nat \ {0} /\ MaxRemote \in Nat \ {0} /\ MaxMails \in Nat
BY MessageAssumption, RecipientsAssumption DEF MessageParameters

LEMMA Apart == Address \cap UserID = {} /\ NoRow \notin Row
BY MessageAssumption DEF MessageParameters

LEMMA EmptyList == IsList(<<>>, UserID) /\ ToSet(<<>>) = {}
BY RecipientsAssumption DEF IsList, Distinct, ToSet

LEMMA FreshOK ==
  ASSUME NEW s, NEW m, IsMessage(m),
         m.state \in {"Starting", "Done"}, m.step = "none", m.users = <<>>,
         m.remote = <<>>, m.lines = <<>>, ~m.authenticated, m.szUser = 0,
         m.userID = 0, m.i = 1, m.j = 1, m.id = 0, m.size = 0,
         m.mail \in 0..MaxMails, m.sent = 0, m.promised = {}
  PROVE  LocalInv(s, m)
<1>1. Relay(m)
  BY DEF Relay
<1>2. Typed(m)
  BY Limits DEF Typed
<1>3. Named(m)
  BY EmptyList DEF Named
<1>4. LinesInv(s, m)
  BY DEF LinesInv, Receives
<1> QED
  BY <1>1, <1>2, <1>3, <1>4 DEF LocalInv

LEMMA NewMessageOK ==
  ASSUME NEW s
  PROVE  IsMessage(NewMessage) /\ LocalInv(s, NewMessage)
<1>1. IsMessage(NewMessage)
  BY DEF IsMessage, NewMessage, Fields
<1>2. NewMessage.mail \in 0..MaxMails
  BY Limits DEF NewMessage
<1> QED
  BY <1>1, <1>2, FreshOK DEF NewMessage

LEMMA GoneMessageOK ==
  ASSUME NEW s
  PROVE  IsMessage(GoneMessage) /\ LocalInv(s, GoneMessage)
<1>1. IsMessage(GoneMessage)
  BY DEF IsMessage, GoneMessage, NewMessage, Fields
<1>2. GoneMessage.mail \in 0..MaxMails
  BY Limits DEF GoneMessage, NewMessage
<1> QED
  BY <1>1, <1>2, FreshOK DEF GoneMessage, NewMessage

LEMMA InitLocal == InitMessage => Local
BY NewMessageOK DEF InitMessage, Local, Shape

------------------------------------------------------------------------------
\* A step changes one session, and leaves it a record of the same fields.
Changes(s) ==
  /\ smtp' = [t \in SmtpSessions |-> smtp'[t]]
  /\ \A t \in SmtpSessions \ {s} : smtp'[t] = smtp[t]
  /\ IsMessage(smtp'[s])

LEMMA OneSession ==
  ASSUME Local, NEW s \in SmtpSessions, Changes(s), LocalInv(s, smtp'[s])
  PROVE  Local'
<1>1. ASSUME NEW t \in SmtpSessions
      PROVE  IsMessage(smtp'[t]) /\ LocalInv(t, smtp'[t])
  <2>1. CASE t = s
    BY <2>1 DEF Changes
  <2>2. CASE t # s
    BY <2>2 DEF Changes, Local, Shape
  <2> QED
    BY <2>1, <2>2
<1> QED
  BY <1>1 DEF Local, Shape, Changes

LEMMA Unchanged == ASSUME Local, UNCHANGED smtp PROVE Local'
BY DEF Local, Shape

LEMMA Current ==
  ASSUME Local, NEW s \in SmtpSessions
  PROVE  /\ IsMessage(smtp[s])
         /\ smtp = [t \in SmtpSessions |-> smtp[t]]
         /\ LocalInv(s, smtp[s]) /\ Relay(smtp[s]) /\ Typed(smtp[s])
         /\ Named(smtp[s]) /\ LinesInv(s, smtp[s])
BY DEF Local, Shape, LocalInv

------------------------------------------------------------------------------
(***************************************************************************)
(* What a step leaves of a session.                                        *)
(***************************************************************************)
SameLogin(m, n) ==
  /\ n.authenticated = m.authenticated
  /\ n.authenticating = m.authenticating
  /\ n.userID = m.userID
  /\ n.szUser = m.szUser
  /\ m.from => n.from

SameNames(m, n) ==
  /\ n.users = m.users
  /\ n.remote = m.remote
  /\ n.promised = m.promised
  /\ n.refused = m.refused

SameLines(m, n) ==
  /\ n.lines = m.lines
  /\ n.mail = m.mail
  /\ n.sent = m.sent

SamePlace(m, n) ==
  /\ n.step = m.step
  /\ n.i = m.i
  /\ n.j = m.j
  /\ n.id = m.id
  /\ n.size = m.size

\* Commands that have nothing to do with recipients or lines.
Plain(s) ==
  \/ OnStart(s) \/ ProcessHELO(s) \/ ProcessMAIL(s) \/ ProcessQUIT(s)
  \/ IdleLimitReached(s)

LEMMA PlainStep ==
  ASSUME Local, NEW s \in SmtpSessions, Plain(s)
  PROVE  /\ Changes(s)
         /\ SameLogin(smtp[s], smtp'[s])
         /\ SameNames(smtp[s], smtp'[s])
         /\ SameLines(smtp[s], smtp'[s])
         /\ SamePlace(smtp[s], smtp'[s])
         /\ smtp'[s].state \in {"Waiting", "Close"}
         /\ smtp[s].step = "none"
         /\ UNCHANGED <<store, receipts>>
<1>1. IsMessage(smtp[s]) /\ smtp = [t \in SmtpSessions |-> smtp[t]]
  BY Current
<1>2. Changes(s)
  BY <1>1 DEF Plain, Changes, IsMessage, Fields, OnStart, ProcessHELO,
              ProcessMAIL, ProcessQUIT, IdleLimitReached
<1>3. /\ SameLogin(smtp[s], smtp'[s])
      /\ SameNames(smtp[s], smtp'[s])
      /\ SameLines(smtp[s], smtp'[s])
      /\ SamePlace(smtp[s], smtp'[s])
  BY <1>1 DEF Plain, SameLogin, SameNames, SameLines, SamePlace, IsMessage,
              Fields, OnStart, ProcessHELO, ProcessMAIL, ProcessQUIT,
              IdleLimitReached
<1>4. smtp'[s].state \in {"Waiting", "Close"}
  BY <1>1 DEF Plain, IsMessage, Fields, OnStart, ProcessHELO, ProcessMAIL,
              ProcessQUIT, IdleLimitReached, Command
<1>5. smtp[s].step = "none"
  BY Current DEF Typed, Plain, OnStart, ProcessHELO, ProcessMAIL, ProcessQUIT,
              IdleLimitReached, Command
<1>6. UNCHANGED <<store, receipts>>
  BY DEF Plain, OnStart, ProcessHELO, ProcessMAIL, ProcessQUIT,
         IdleLimitReached, Keep
<1> QED
  BY <1>2, <1>3, <1>4, <1>5, <1>6

LEMMA PlainLocal ==
  ASSUME Local, NEW s \in SmtpSessions, Plain(s)
  PROVE  Local'
<1>1. Relay(smtp'[s])
  BY Current, PlainStep DEF Relay, SameLogin, SameNames, SamePlace
<1>2. Typed(smtp'[s])
  BY Current, PlainStep DEF Typed, SameLogin, SameNames, SameLines, SamePlace
<1>3. Named(smtp'[s])
  BY Current, PlainStep DEF Named, SameNames
<1>4. LinesInv(s, smtp'[s])
  BY Current, PlainStep DEF LinesInv, SameLines, Receives
<1> QED
  BY <1>1, <1>2, <1>3, <1>4, PlainStep, OneSession DEF LocalInv

LEMMA DataStep ==
  ASSUME Local, NEW s \in SmtpSessions, ProcessDATA(s)
  PROVE  /\ Changes(s)
         /\ SameLogin(smtp[s], smtp'[s])
         /\ SameNames(smtp[s], smtp'[s])
         /\ SamePlace(smtp[s], smtp'[s])
         /\ smtp'[s].lines = smtp[s].lines
         /\ smtp'[s].mail = smtp[s].mail + 1
         /\ smtp'[s].sent = 0
         /\ smtp'[s].state = "Data"
         /\ smtp[s].step = "none"
         /\ smtp[s].state = "Waiting"
         /\ smtp[s].mail < MaxMails
         /\ UNCHANGED <<store, receipts>>
<1>1. IsMessage(smtp[s]) /\ smtp = [t \in SmtpSessions |-> smtp[t]]
  BY Current
<1>2. Changes(s)
  BY <1>1 DEF Changes, IsMessage, Fields, ProcessDATA
<1>3. /\ SameLogin(smtp[s], smtp'[s])
      /\ SameNames(smtp[s], smtp'[s])
      /\ SamePlace(smtp[s], smtp'[s])
  BY <1>1 DEF SameLogin, SameNames, SamePlace, IsMessage, Fields, ProcessDATA
<1>4. /\ smtp'[s].lines = smtp[s].lines
      /\ smtp'[s].mail = smtp[s].mail + 1
      /\ smtp'[s].sent = 0
      /\ smtp'[s].state = "Data"
  BY <1>1 DEF IsMessage, Fields, ProcessDATA
<1> QED
  BY <1>2, <1>3, <1>4 DEF ProcessDATA, Command, Keep

LEMMA DataLocal ==
  ASSUME Local, NEW s \in SmtpSessions, ProcessDATA(s)
  PROVE  Local'
<1>0. /\ Relay(smtp[s]) /\ Typed(smtp[s]) /\ Named(smtp[s])
      /\ LinesInv(s, smtp[s])
  BY Current
<1>1. Relay(smtp'[s])
  BY <1>0, DataStep DEF Relay, SameLogin, SameNames, SamePlace
<1>2. Typed(smtp'[s])
  <2>1. smtp'[s].mail \in 0..MaxMails
    BY <1>0, DataStep, Limits DEF Typed
  <2> QED
    BY <1>0, <2>1, DataStep DEF Typed, SameLogin, SameNames, SamePlace
<1>3. Named(smtp'[s])
  BY <1>0, DataStep DEF Named, SameNames
<1>4. LinesInv(s, smtp'[s])
  <2>1. /\ smtp[s].mail \in Nat
        /\ Len(smtp[s].lines) \in Nat
        /\ \A k \in 1..Len(smtp[s].lines) :
             smtp[s].lines[k].mail \in {s} \X (0..smtp[s].mail)
    BY <1>0, Limits DEF Typed, LinesInv
  <2>2. \A k \in 1..Len(smtp[s].lines) :
          /\ smtp[s].lines[k].mail # <<s, smtp[s].mail + 1>>
          /\ smtp[s].lines[k].mail \in {s} \X (0..(smtp[s].mail + 1))
    BY <2>1
  <2>3. EndsWith(smtp[s].lines, <<s, smtp[s].mail + 1>>, 0)
    BY <2>1, <2>2 DEF EndsWith
  <2>4. /\ smtp'[s].lines = smtp[s].lines
        /\ smtp'[s].mail = smtp[s].mail + 1
        /\ smtp'[s].sent = 0
    BY DataStep
  <2>5. EndsWith(smtp'[s].lines, <<s, smtp'[s].mail>>, smtp'[s].sent)
    BY <2>3, <2>4
  <2>6. smtp'[s].mail # 0
    BY <2>1, <2>4
  <2> QED
    BY <2>2, <2>4, <2>5, <2>6 DEF LinesInv
<1> QED
  BY <1>1, <1>2, <1>3, <1>4, DataStep, OneSession DEF LocalInv

------------------------------------------------------------------------------
(***************************************************************************)
(* RCPT and RSET.                                                          *)
(***************************************************************************)
LEMMA UsersForType == ASSUME NEW a \in Address PROVE UsersFor(a) \in Seq(UserID)
<1>1. Directory[a] \in [local : BOOLEAN, reject : BOOLEAN, users : Seq(UserID),
                        postmaster : Seq(UserID)]
  BY MessageAssumption DEF MessageParameters
<1> QED
  BY <1>1 DEF UsersFor

LEMMA RcptLocalStep ==
  ASSUME Local, NEW s \in SmtpSessions, NEW a \in Address, RcptLocal(s, a)
  PROVE  /\ Changes(s)
         /\ SameLogin(smtp[s], smtp'[s])
         /\ SameLines(smtp[s], smtp'[s])
         /\ SamePlace(smtp[s], smtp'[s])
         /\ smtp'[s].state = "Waiting"
         /\ smtp[s].step = "none"
         /\ smtp'[s].users = AddUsers(smtp[s].users, UsersFor(a))
         /\ smtp'[s].remote = smtp[s].remote
         /\ smtp'[s].promised \cup smtp'[s].refused
              = smtp[s].promised \cup smtp[s].refused \cup ToSet(UsersFor(a))
         /\ \/ smtp'[s].promised = smtp[s].promised
            \/ /\ smtp'[s].promised = smtp[s].promised \cup ToSet(UsersFor(a))
               /\ Len(smtp'[s].users) # MaxLocal
         /\ UNCHANGED <<store, receipts>>
<1> DEFINE all == AddUsers(smtp[s].users, UsersFor(a))
           new == ToSet(UsersFor(a)) \ smtp[s].promised
<1>1. IsMessage(smtp[s]) /\ smtp = [t \in SmtpSessions |-> smtp[t]]
  BY Current
<1>2. \/ /\ Len(all) = MaxLocal
         /\ smtp' = [smtp EXCEPT ![s].users = all, ![s].refused = @ \cup new]
      \/ /\ Len(all) # MaxLocal
         /\ smtp' = [smtp EXCEPT ![s].users = all, ![s].promised = @ \cup new]
  BY DEF RcptLocal, AddLocal
<1> HIDE DEF all, new
<1>3. Changes(s)
  BY <1>1, <1>2 DEF Changes, IsMessage, Fields
<1>4. /\ SameLogin(smtp[s], smtp'[s])
      /\ SameLines(smtp[s], smtp'[s])
      /\ SamePlace(smtp[s], smtp'[s])
      /\ smtp'[s].remote = smtp[s].remote
      /\ smtp'[s].state = smtp[s].state
      /\ smtp'[s].users = all
  BY <1>1, <1>2 DEF SameLogin, SameLines, SamePlace, IsMessage, Fields
<1>5. \/ /\ smtp'[s].promised = smtp[s].promised
         /\ smtp'[s].refused = smtp[s].refused \cup new
      \/ /\ smtp'[s].promised = smtp[s].promised \cup new
         /\ smtp'[s].refused = smtp[s].refused
         /\ Len(all) # MaxLocal
  <2>1. PICK more, less : /\ more = smtp[s].promised \cup new
                          /\ less = smtp[s].refused \cup new
    OBVIOUS
  <2>2. CASE smtp' = [smtp EXCEPT ![s].users = all, ![s].refused = less]
    <3>1. smtp'[s].promised = smtp[s].promised /\ smtp'[s].refused = less
      BY <1>1, <2>2 DEF IsMessage, Fields
    <3> QED
      BY <2>1, <3>1
  <2>3. CASE /\ Len(all) # MaxLocal
             /\ smtp' = [smtp EXCEPT ![s].users = all, ![s].promised = more]
    <3>1. smtp'[s].promised = more /\ smtp'[s].refused = smtp[s].refused
      BY <1>1, <2>3 DEF IsMessage, Fields
    <3> QED
      BY <2>1, <2>3, <3>1
  <2> QED
    BY <1>2, <2>1, <2>2, <2>3
<1>6. smtp[s].promised \cup new = smtp[s].promised \cup ToSet(UsersFor(a))
  BY DEF new
<1>7. smtp'[s].promised \cup smtp'[s].refused
        = smtp[s].promised \cup smtp[s].refused \cup ToSet(UsersFor(a))
  BY <1>5, <1>6
<1>8. /\ smtp[s].step = "none" /\ smtp[s].state = "Waiting"
      /\ UNCHANGED <<store, receipts>>
  BY DEF RcptLocal, Command, Keep
<1> QED
  BY <1>3, <1>4, <1>5, <1>6, <1>7, <1>8 DEF all

LEMMA RcptLocalLocal ==
  ASSUME Local, NEW s \in SmtpSessions, NEW a \in Address, RcptLocal(s, a)
  PROVE  Local'
<1> DEFINE rows == UsersFor(a)
<1>0. /\ Relay(smtp[s]) /\ Typed(smtp[s]) /\ Named(smtp[s])
      /\ LinesInv(s, smtp[s])
  BY Current
<1>1. Relay(smtp'[s])
  BY <1>0, RcptLocalStep DEF Relay, SameLogin, SamePlace
<1>2. Typed(smtp'[s])
  BY <1>0, RcptLocalStep DEF Typed, SameLogin, SameLines, SamePlace
<1>3. Named(smtp'[s])
  <2>1. /\ IsList(smtp'[s].users, UserID)
        /\ ToSet(smtp[s].users) \subseteq ToSet(smtp'[s].users)
        /\ ToSet(smtp'[s].users) \subseteq ToSet(smtp[s].users) \cup ToSet(rows)
        /\ Len(smtp'[s].users) < MaxLocal =>
             ToSet(rows) \subseteq ToSet(smtp'[s].users)
    BY <1>0, RcptLocalStep, UsersForType, AddUsersList DEF Named
  <2>2. Len(smtp'[s].users) # MaxLocal => Len(smtp'[s].users) < MaxLocal
    BY <2>1, Limits DEF IsList
  <2> HIDE DEF rows
  <2>3. /\ smtp'[s].remote = smtp[s].remote
        /\ smtp'[s].promised \cup smtp'[s].refused
             = smtp[s].promised \cup smtp[s].refused \cup ToSet(rows)
        /\ \/ smtp'[s].promised = smtp[s].promised
           \/ /\ smtp'[s].promised = smtp[s].promised \cup ToSet(rows)
              /\ Len(smtp'[s].users) # MaxLocal
    BY RcptLocalStep DEF rows
  <2>4. smtp'[s].promised \subseteq ToSet(smtp'[s].users) \cup ToSet(smtp'[s].remote)
    BY <1>0, <2>1, <2>2, <2>3 DEF Named
  <2>5. ToSet(smtp'[s].users) \cup ToSet(smtp'[s].remote)
          \subseteq smtp'[s].promised \cup smtp'[s].refused
    BY <1>0, <2>1, <2>3 DEF Named
  <2> QED
    BY <2>1, <2>4, <2>5 DEF Named
<1>4. LinesInv(s, smtp'[s])
  BY <1>0, RcptLocalStep DEF LinesInv, SameLines, Receives
<1> QED
  BY <1>1, <1>2, <1>3, <1>4, RcptLocalStep, OneSession DEF LocalInv

\* A remote recipient is only accepted from a client that has logged in.
LEMMA RcptRemoteStep ==
  ASSUME Local, NEW s \in SmtpSessions, NEW a \in Address, RcptRemote(s, a),
         smtp' # smtp
  PROVE  /\ Changes(s)
         /\ SameLogin(smtp[s], smtp'[s])
         /\ SameLines(smtp[s], smtp'[s])
         /\ SamePlace(smtp[s], smtp'[s])
         /\ smtp[s].authenticated /\ smtp[s].from
         /\ smtp'[s].state = "Waiting"
         /\ smtp[s].step = "none"
         /\ smtp'[s].users = smtp[s].users
         /\ Len(smtp[s].remote) # MaxRemote
         /\ smtp'[s].remote = Append(smtp[s].remote, a)
         /\ smtp'[s].promised = smtp[s].promised \cup {a}
         /\ smtp'[s].refused = smtp[s].refused
         /\ UNCHANGED <<store, receipts>>
<1>1. IsMessage(smtp[s]) /\ smtp = [t \in SmtpSessions |-> smtp[t]]
  BY Current
<1>2. /\ Len(smtp[s].remote) # MaxRemote
      /\ smtp' = [smtp EXCEPT ![s].remote = Append(@, a),
                              ![s].promised = @ \cup {a}]
      /\ UNCHANGED <<store, receipts>>
      /\ smtp[s].authenticated /\ smtp[s].from
      /\ smtp[s].step = "none" /\ smtp[s].state = "Waiting"
  BY DEF RcptRemote, Keep, Command
<1>3. PICK remote, promised :
        /\ remote = Append(smtp[s].remote, a)
        /\ promised = smtp[s].promised \cup {a}
        /\ smtp' = [smtp EXCEPT ![s].remote = remote, ![s].promised = promised]
  BY <1>2
<1>4. Changes(s)
  BY <1>1, <1>3 DEF Changes, IsMessage, Fields
<1>5. /\ SameLogin(smtp[s], smtp'[s])
      /\ SameLines(smtp[s], smtp'[s])
      /\ SamePlace(smtp[s], smtp'[s])
      /\ smtp'[s].users = smtp[s].users
      /\ smtp'[s].refused = smtp[s].refused
      /\ smtp'[s].state = smtp[s].state
      /\ smtp'[s].remote = remote
      /\ smtp'[s].promised = promised
  BY <1>1, <1>3 DEF SameLogin, SameLines, SamePlace, IsMessage, Fields
<1> QED
  BY <1>2, <1>3, <1>4, <1>5

LEMMA RcptRemoteLocal ==
  ASSUME Local, NEW s \in SmtpSessions, NEW a \in Address, RcptRemote(s, a)
  PROVE  Local'
<1> SUFFICES ASSUME smtp' # smtp PROVE Local'
  BY Unchanged
<1>0. /\ Relay(smtp[s]) /\ Typed(smtp[s]) /\ Named(smtp[s])
      /\ LinesInv(s, smtp[s])
  BY Current
<1>1. Relay(smtp'[s])
  BY <1>0, RcptRemoteStep DEF Relay, SameLogin, SamePlace
<1>2. /\ smtp'[s].remote \in Seq(Address)
      /\ Len(smtp'[s].remote) <= MaxRemote
      /\ ToSet(smtp'[s].remote) = ToSet(smtp[s].remote) \cup {a}
  <2>1. /\ smtp[s].remote \in Seq(Address)
        /\ Len(smtp[s].remote) <= MaxRemote
        /\ Len(smtp[s].remote) # MaxRemote
        /\ smtp'[s].remote = Append(smtp[s].remote, a)
    BY <1>0, RcptRemoteStep DEF Typed
  <2> QED
    BY <2>1, Limits, AppendSet
<1>3. Typed(smtp'[s])
  BY <1>0, <1>2, RcptRemoteStep DEF Typed, SameLogin, SameLines, SamePlace
<1>4. Named(smtp'[s])
  BY <1>0, <1>2, RcptRemoteStep DEF Named
<1>5. LinesInv(s, smtp'[s])
  BY <1>0, RcptRemoteStep DEF LinesInv, SameLines, Receives
<1> QED
  BY <1>1, <1>3, <1>4, <1>5, RcptRemoteStep, OneSession DEF LocalInv

LEMMA RsetStep ==
  ASSUME Local, NEW s \in SmtpSessions, ProcessRSET(s)
  PROVE  /\ Changes(s)
         /\ SamePlace(smtp[s], smtp'[s])
         /\ smtp'[s].authenticated = smtp[s].authenticated
         /\ smtp'[s].authenticating = FALSE
         /\ smtp'[s].userID = smtp[s].userID
         /\ smtp'[s].szUser = smtp[s].szUser
         /\ smtp'[s].state = "Waiting"
         /\ smtp[s].step = "none"
         /\ smtp'[s].users = <<>> /\ smtp'[s].remote = <<>>
         /\ smtp'[s].lines = <<>>
         /\ smtp'[s].mail = smtp[s].mail /\ smtp'[s].sent = smtp[s].sent
         /\ smtp'[s].promised = {} /\ smtp'[s].refused = {}
         /\ UNCHANGED <<store, receipts>>
<1>1. IsMessage(smtp[s]) /\ smtp = [t \in SmtpSessions |-> smtp[t]]
  BY Current
<1>2. Changes(s)
  BY <1>1 DEF Changes, IsMessage, Fields, ProcessRSET
<1>3. /\ SamePlace(smtp[s], smtp'[s])
      /\ smtp'[s].authenticated = smtp[s].authenticated
      /\ smtp'[s].authenticating = FALSE
      /\ smtp'[s].userID = smtp[s].userID
      /\ smtp'[s].szUser = smtp[s].szUser
      /\ smtp'[s].state = smtp[s].state
      /\ smtp'[s].users = <<>> /\ smtp'[s].remote = <<>>
      /\ smtp'[s].lines = <<>>
      /\ smtp'[s].mail = smtp[s].mail /\ smtp'[s].sent = smtp[s].sent
      /\ smtp'[s].promised = {} /\ smtp'[s].refused = {}
  BY <1>1 DEF SamePlace, IsMessage, Fields, ProcessRSET
<1> QED
  BY <1>2, <1>3 DEF ProcessRSET, Command, Keep

LEMMA RsetLocal ==
  ASSUME Local, NEW s \in SmtpSessions, ProcessRSET(s)
  PROVE  Local'
<1>0. /\ Relay(smtp[s]) /\ Typed(smtp[s]) /\ Named(smtp[s])
      /\ LinesInv(s, smtp[s])
  BY Current
<1>1. Relay(smtp'[s])
  BY <1>0, RsetStep DEF Relay
<1>2. Typed(smtp'[s])
  <2>1. <<>> \in Seq(Address) /\ <<>> \in Seq(Line) /\ Len(<<>>) <= MaxRemote
    BY Limits
  <2> QED
    BY <1>0, <2>1, RsetStep DEF Typed, SamePlace
<1>3. Named(smtp'[s])
  BY RsetStep, EmptyList DEF Named
<1>4. LinesInv(s, smtp'[s])
  <2>1. smtp'[s].lines = <<>> /\ smtp'[s].state = "Waiting"
    BY RsetStep
  <2>2. 1..Len(smtp'[s].lines) = {} /\ smtp'[s].state # "Data"
    BY <2>1
  <2> QED
    BY <2>2 DEF LinesInv, Receives
<1> QED
  BY <1>1, <1>2, <1>3, <1>4, RsetStep, OneSession DEF LocalInv

LEMMA GoneStep ==
  ASSUME Local, NEW s \in SmtpSessions,
         smtp' = [smtp EXCEPT ![s] = GoneMessage]
  PROVE  /\ Changes(s)
         /\ smtp'[s] = GoneMessage
         /\ smtp'[s].state = "Done" /\ smtp'[s].step = "none"
<1>1. smtp = [t \in SmtpSessions |-> smtp[t]]
  BY Current
<1>2. Changes(s) /\ smtp'[s] = GoneMessage
  BY <1>1, GoneMessageOK DEF Changes
<1>3. GoneMessage.state = "Done" /\ GoneMessage.step = "none"
  BY DEF GoneMessage, NewMessage
<1> QED
  BY <1>2, <1>3

LEMMA GoneLocal ==
  ASSUME Local, NEW s \in SmtpSessions, Leave(s) \/ DestroyedWhileSaving(s)
  PROVE  Local'
<1>1. UNCHANGED smtp \/ smtp' = [smtp EXCEPT ![s] = GoneMessage]
  BY DEF Leave, DestroyedWhileSaving
<1> QED
  BY <1>1, Unchanged, GoneStep, GoneMessageOK, OneSession

------------------------------------------------------------------------------
(***************************************************************************)
(* AUTH withdraws a login, and tries another.                              *)
(***************************************************************************)
LEMMA AuthStep ==
  ASSUME Local, NEW s \in SmtpSessions, ProcessAUTH(s)
  PROVE  /\ Changes(s)
         /\ SameNames(smtp[s], smtp'[s])
         /\ SameLines(smtp[s], smtp'[s])
         /\ SamePlace(smtp[s], smtp'[s])
         /\ smtp'[s].authenticated = FALSE /\ smtp'[s].authenticating = TRUE
         /\ smtp'[s].userID = smtp[s].userID
         /\ smtp'[s].szUser = smtp[s].szUser
         /\ smtp'[s].from = smtp[s].from
         /\ smtp'[s].state = "Data"
         /\ smtp[s].step = "none" /\ smtp[s].state = "Waiting"
         /\ UNCHANGED <<store, receipts>>
<1>1. IsMessage(smtp[s]) /\ smtp = [t \in SmtpSessions |-> smtp[t]]
  BY Current
<1>2. Changes(s)
  BY <1>1 DEF Changes, IsMessage, Fields, ProcessAUTH
<1>3. /\ SameNames(smtp[s], smtp'[s])
      /\ SameLines(smtp[s], smtp'[s])
      /\ SamePlace(smtp[s], smtp'[s])
      /\ smtp'[s].authenticated = FALSE /\ smtp'[s].authenticating = TRUE
      /\ smtp'[s].userID = smtp[s].userID
      /\ smtp'[s].szUser = smtp[s].szUser
      /\ smtp'[s].from = smtp[s].from
      /\ smtp'[s].state = "Data"
  BY <1>1 DEF SameNames, SameLines, SamePlace, IsMessage, Fields, ProcessAUTH
<1> QED
  BY <1>2, <1>3 DEF ProcessAUTH, Command, Keep

LEMMA AuthLocal ==
  ASSUME Local, NEW s \in SmtpSessions, ProcessAUTH(s)
  PROVE  Local'
<1>0. /\ Relay(smtp[s]) /\ Typed(smtp[s]) /\ Named(smtp[s])
      /\ LinesInv(s, smtp[s])
  BY Current
<1>1. Relay(smtp'[s])
  BY <1>0, AuthStep DEF Relay, SameNames, SamePlace
<1>2. Typed(smtp'[s])
  BY <1>0, AuthStep DEF Typed, SameNames, SameLines, SamePlace
<1>3. Named(smtp'[s])
  BY <1>0, AuthStep DEF Named, SameNames
<1>4. LinesInv(s, smtp'[s])
  BY <1>0, AuthStep DEF LinesInv, SameLines, Receives
<1> QED
  BY <1>1, <1>2, <1>3, <1>4, AuthStep, OneSession DEF LocalInv

\* A name, or a password.  A login only ends without an account behind it, and
\* so without remote recipients, if there was none before: else an ASSERT ends
\* the process.
LEMMA OnAuthStep ==
  ASSUME Local, NEW s \in SmtpSessions, NEW name \in UserID,
         NEW valid \in BOOLEAN, OnAuth(s, name, valid), smtp' # smtp
  PROVE  /\ Changes(s)
         /\ SameNames(smtp[s], smtp'[s])
         /\ SameLines(smtp[s], smtp'[s])
         /\ SamePlace(smtp[s], smtp'[s])
         /\ smtp[s].step = "none" /\ smtp[s].state = "Data"
         /\ smtp[s].userID = 0 /\ smtp[s].authenticating
         /\ smtp'[s].from = smtp[s].from
         /\ \/ /\ smtp'[s].szUser = name /\ smtp'[s].state = "Data"
               /\ smtp'[s].authenticating = TRUE
               /\ smtp'[s].authenticated = smtp[s].authenticated
               /\ smtp'[s].userID = smtp[s].userID
            \/ /\ smtp'[s].state = "Waiting"
               /\ smtp'[s].szUser = smtp[s].szUser
               /\ smtp[s].szUser # 0
               /\ smtp'[s].authenticating = FALSE
               /\ smtp'[s].authenticated = valid
               /\ smtp'[s].userID = GetUserID(smtp[s].szUser, valid)
         /\ UNCHANGED <<store, receipts>>
<1>1. IsMessage(smtp[s]) /\ smtp = [t \in SmtpSessions |-> smtp[t]]
  BY Current
<1>0. /\ smtp[s].step = "none" /\ smtp[s].state = "Data"
      /\ smtp[s].userID = 0 /\ smtp[s].authenticating
      /\ UNCHANGED <<store, receipts>>
  BY DEF OnAuth, DataMode, Keep
<1>2. CASE smtp' = [smtp EXCEPT ![s].szUser = name]
  <2>1. Changes(s)
    BY <1>1, <1>2 DEF Changes, IsMessage, Fields
  <2>2. /\ SameNames(smtp[s], smtp'[s])
        /\ SameLines(smtp[s], smtp'[s])
        /\ SamePlace(smtp[s], smtp'[s])
        /\ smtp'[s].from = smtp[s].from
        /\ smtp'[s].szUser = name /\ smtp'[s].state = smtp[s].state
        /\ smtp'[s].authenticating = smtp[s].authenticating
        /\ smtp'[s].authenticated = smtp[s].authenticated
        /\ smtp'[s].userID = smtp[s].userID
    BY <1>1, <1>2 DEF SameNames, SameLines, SamePlace, IsMessage, Fields
  <2> QED
    BY <1>0, <2>1, <2>2
<1>3. CASE /\ smtp[s].szUser # 0
           /\ smtp' = [smtp EXCEPT ![s].szPass = TRUE,
                         ![s].userID = GetUserID(smtp[s].szUser, valid),
                         ![s].authenticated = valid,
                         ![s].state = "Waiting",
                         ![s].authenticating = FALSE]
  <2>1. Changes(s)
    BY <1>1, <1>3 DEF Changes, IsMessage, Fields
  <2>2. /\ SameNames(smtp[s], smtp'[s])
        /\ SameLines(smtp[s], smtp'[s])
        /\ SamePlace(smtp[s], smtp'[s])
        /\ smtp'[s].from = smtp[s].from
        /\ smtp'[s].szUser = smtp[s].szUser /\ smtp'[s].state = "Waiting"
        /\ smtp'[s].authenticating = FALSE
        /\ smtp'[s].authenticated = valid
        /\ smtp'[s].userID = GetUserID(smtp[s].szUser, valid)
    BY <1>1, <1>3 DEF SameNames, SameLines, SamePlace, IsMessage, Fields
  <2> QED
    BY <1>0, <1>3, <2>1, <2>2
<1> QED
  BY <1>2, <1>3 DEF OnAuth

LEMMA OnAuthLocal ==
  ASSUME Local, NEW s \in SmtpSessions, NEW name \in UserID,
         NEW valid \in BOOLEAN, OnAuth(s, name, valid)
  PROVE  Local'
<1> SUFFICES ASSUME smtp' # smtp PROVE Local'
  BY Unchanged
<1>0. /\ Relay(smtp[s]) /\ Typed(smtp[s]) /\ Named(smtp[s])
      /\ LinesInv(s, smtp[s])
  BY Current
<1>1. /\ SameNames(smtp[s], smtp'[s])
      /\ SameLines(smtp[s], smtp'[s])
      /\ SamePlace(smtp[s], smtp'[s])
      /\ smtp[s].step = "none" /\ smtp[s].state = "Data"
      /\ smtp[s].userID = 0
  BY OnAuthStep
<1>2. \/ /\ smtp'[s].szUser = name /\ smtp'[s].state = "Data"
         /\ smtp'[s].authenticating = TRUE
         /\ smtp'[s].authenticated = smtp[s].authenticated
         /\ smtp'[s].userID = smtp[s].userID
      \/ /\ smtp'[s].state = "Waiting"
         /\ smtp'[s].szUser = smtp[s].szUser
         /\ smtp[s].szUser # 0
         /\ smtp'[s].authenticated = valid
         /\ smtp'[s].userID = IF valid THEN smtp[s].szUser ELSE 0
  BY <1>0, OnAuthStep DEF GetUserID, Typed
<1>3. Relay(smtp'[s])
  BY <1>0, <1>1, <1>2 DEF Relay, SameNames, SamePlace
<1>4. Typed(smtp'[s])
  <2>1. /\ smtp'[s].state \in {"Data", "Waiting"}
        /\ smtp'[s].szUser \in UserID \cup {0}
        /\ smtp'[s].userID \in UserID \cup {0}
    BY <1>0, <1>2 DEF Typed
  <2> QED
    BY <1>0, <1>1, <2>1 DEF Typed, SameNames, SameLines, SamePlace
<1>5. Named(smtp'[s])
  BY <1>0, <1>1 DEF Named, SameNames
<1>6. LinesInv(s, smtp'[s])
  <2>1. ~Receives(smtp'[s])
    BY <1>2 DEF Receives
  <2> QED
    BY <1>0, <1>1, <2>1 DEF LinesInv, SameLines
<1>7. Changes(s)
  BY OnAuthStep
<1> QED
  BY <1>3, <1>4, <1>5, <1>6, <1>7, OneSession DEF LocalInv

------------------------------------------------------------------------------
(***************************************************************************)
(* The lines of a mail, and its dot.                                       *)
(***************************************************************************)
LEMMA DataLineStep ==
  ASSUME Local, NEW s \in SmtpSessions, OnDataLine(s)
  PROVE  /\ Changes(s)
         /\ SameLogin(smtp[s], smtp'[s])
         /\ SameNames(smtp[s], smtp'[s])
         /\ SamePlace(smtp[s], smtp'[s])
         /\ smtp'[s].lines = Append(smtp[s].lines, NextLine(s))
         /\ smtp'[s].mail = smtp[s].mail
         /\ smtp'[s].sent = smtp[s].sent + 1
         /\ smtp'[s].state = "Data" /\ smtp[s].state = "Data"
         /\ smtp[s].step = "none"
         /\ ~smtp[s].authenticating
         /\ UNCHANGED <<store, receipts>>
<1>1. IsMessage(smtp[s]) /\ smtp = [t \in SmtpSessions |-> smtp[t]]
  BY Current
<1>2. PICK lines : /\ lines = Append(smtp[s].lines, NextLine(s))
                   /\ smtp' = [smtp EXCEPT ![s].lines = lines,
                                           ![s].sent = @ + 1]
  BY DEF OnDataLine
<1>3. Changes(s)
  BY <1>1, <1>2 DEF Changes, IsMessage, Fields
<1>4. /\ SameLogin(smtp[s], smtp'[s])
      /\ SameNames(smtp[s], smtp'[s])
      /\ SamePlace(smtp[s], smtp'[s])
      /\ smtp'[s].lines = lines
      /\ smtp'[s].mail = smtp[s].mail
      /\ smtp'[s].sent = smtp[s].sent + 1
      /\ smtp'[s].state = smtp[s].state
  BY <1>1, <1>2 DEF SameLogin, SameNames, SamePlace, IsMessage, Fields
<1> QED
  BY <1>2, <1>3, <1>4 DEF OnDataLine, DataMode, Keep

LEMMA EndsWithMore ==
  ASSUME NEW S, NEW lines \in Seq(S), NEW mail, NEW n \in Nat,
         EndsWith(lines, mail, n), NEW line \in S,
         line = [mail |-> mail, n |-> n + 1]
  PROVE  EndsWith(Append(lines, line), mail, n + 1)
<1> DEFINE more == Append(lines, line)
           before == Len(lines) - n
<1>1. /\ Len(lines) \in Nat /\ Len(more) = Len(lines) + 1
      /\ \A k \in 1..Len(lines) : more[k] = lines[k]
      /\ more[Len(lines) + 1] = line
  OBVIOUS
<1>2. /\ before \in Nat
      /\ \A k \in 1..before : lines[k].mail # mail
      /\ \A k \in 1..n : lines[before + k] = [mail |-> mail, n |-> k]
  BY <1>1 DEF EndsWith
<1> HIDE DEF more
<1>3. \A k \in 1..before : more[k].mail # mail
  BY <1>1, <1>2
<1>4. ASSUME NEW k \in 1..(n + 1)
      PROVE  more[before + k] = [mail |-> mail, n |-> k]
  <2>1. CASE k = n + 1
    BY <1>1, <2>1
  <2>2. CASE k # n + 1
    <3>1. k \in 1..n /\ before + k \in 1..Len(lines)
      BY <1>1, <1>2, <2>2
    <3> QED
      BY <1>1, <1>2, <3>1
  <2> QED
    BY <2>1, <2>2
<1>5. Len(more) - (n + 1) = before
  BY <1>1
<1>6. EndsWith(more, mail, n + 1)
  BY <1>2, <1>3, <1>4, <1>5 DEF EndsWith
<1> QED
  BY <1>6 DEF more

LEMMA DataLineLocal ==
  ASSUME Local, NEW s \in SmtpSessions, OnDataLine(s)
  PROVE  Local'
<1>0. /\ Relay(smtp[s]) /\ Typed(smtp[s]) /\ Named(smtp[s])
      /\ LinesInv(s, smtp[s])
  BY Current
<1>1. Relay(smtp'[s])
  BY <1>0, DataLineStep DEF Relay, SameLogin, SameNames, SamePlace
<1>2. /\ smtp[s].lines \in Seq(Line) /\ smtp[s].mail \in Nat
      /\ smtp[s].sent \in Nat
  BY <1>0, Limits DEF Typed
<1>3. NextLine(s) \in Line /\ NextLine(s).mail = <<s, smtp[s].mail>>
  BY <1>2 DEF NextLine, MailOf, Line
<1>4. /\ smtp'[s].lines \in Seq(Line)
      /\ Len(smtp'[s].lines) = Len(smtp[s].lines) + 1
      /\ Len(smtp[s].lines) \in Nat
      /\ \A k \in 1..Len(smtp[s].lines) : smtp'[s].lines[k] = smtp[s].lines[k]
      /\ smtp'[s].lines[Len(smtp[s].lines) + 1] = NextLine(s)
  <2>1. smtp'[s].lines = Append(smtp[s].lines, NextLine(s))
    BY DataLineStep
  <2> QED
    BY <1>2, <1>3, <2>1
<1>5. Typed(smtp'[s])
  <2>1. smtp'[s].sent \in Nat
    BY <1>2, DataLineStep
  <2>2. /\ SameLogin(smtp[s], smtp'[s])
        /\ SameNames(smtp[s], smtp'[s])
        /\ SamePlace(smtp[s], smtp'[s])
        /\ smtp'[s].mail = smtp[s].mail
        /\ smtp'[s].state = "Data"
        /\ smtp[s].step = "none"
    BY DataLineStep
  <2>3. smtp'[s].lines \in Seq(Line)
    BY <1>4
  <2> QED
    BY <1>0, <2>1, <2>2, <2>3 DEF Typed, SameLogin, SameNames, SamePlace
<1>6. Named(smtp'[s])
  BY <1>0, DataLineStep DEF Named, SameNames
<1>7. LinesInv(s, smtp'[s])
  <2>1. /\ smtp'[s].mail = smtp[s].mail
        /\ smtp'[s].sent = smtp[s].sent + 1
        /\ smtp'[s].lines = Append(smtp[s].lines, NextLine(s))
        /\ Receives(smtp[s])
    BY DataLineStep DEF Receives
  <2>2. \A k \in 1..Len(smtp[s].lines) :
          smtp[s].lines[k].mail \in {s} \X (0..smtp[s].mail)
    BY <1>0 DEF LinesInv
  <2>3. NextLine(s).mail \in {s} \X (0..smtp[s].mail)
    BY <1>2, <1>3
  <2>4. \A k \in 1..Len(smtp'[s].lines) :
          smtp'[s].lines[k].mail \in {s} \X (0..smtp[s].mail)
    <3>1. ASSUME NEW k \in 1..Len(smtp'[s].lines)
          PROVE  \/ k \in 1..Len(smtp[s].lines)
                 \/ k = Len(smtp[s].lines) + 1
      BY <1>4
    <3> QED
      BY <1>4, <2>2, <2>3, <3>1
  <2>5. EndsWith(smtp'[s].lines, <<s, smtp[s].mail>>, smtp[s].sent + 1)
    <3>1. EndsWith(smtp[s].lines, <<s, smtp[s].mail>>, smtp[s].sent)
      BY <1>0, <2>1 DEF LinesInv
    <3>2. NextLine(s) = [mail |-> <<s, smtp[s].mail>>, n |-> smtp[s].sent + 1]
      BY DEF NextLine, MailOf
    <3> QED
      BY <1>2, <1>3, <2>1, <3>1, <3>2, EndsWithMore
  <2>6. smtp'[s].mail # 0
    BY <1>0, <2>1 DEF LinesInv
  <2> QED
    BY <2>1, <2>4, <2>5, <2>6 DEF LinesInv
<1> QED
  BY <1>1, <1>5, <1>6, <1>7, DataLineStep, OneSession DEF LocalInv

LEMMA DotStep ==
  ASSUME Local, NEW s \in SmtpSessions, OnDot(s)
  PROVE  /\ Changes(s)
         /\ SameLogin(smtp[s], smtp'[s])
         /\ SameNames(smtp[s], smtp'[s])
         /\ SameLines(smtp[s], smtp'[s])
         /\ smtp[s].step = "none" /\ smtp[s].state = "Data"
         /\ ~smtp[s].authenticating
         /\ \/ /\ SamePlace(smtp[s], smtp'[s]) /\ smtp'[s].state = "Waiting"
               /\ smtp[s].lines = <<>>
               /\ receipts' = receipts \cup Receipts(s)
            \/ /\ smtp'[s].state = "Data" /\ smtp[s].lines # <<>>
               /\ smtp'[s].step = "insert" /\ smtp'[s].i = 1
               /\ smtp'[s].j = smtp[s].j /\ smtp'[s].id = smtp[s].id
               /\ smtp'[s].size = 0
               /\ UNCHANGED receipts
         /\ UNCHANGED store
<1>1. IsMessage(smtp[s]) /\ smtp = [t \in SmtpSessions |-> smtp[t]]
  BY Current
<1>2. Changes(s)
  BY <1>1 DEF Changes, IsMessage, Fields, OnDot
<1>3. /\ SameLogin(smtp[s], smtp'[s])
      /\ SameNames(smtp[s], smtp'[s])
      /\ SameLines(smtp[s], smtp'[s])
  BY <1>1 DEF SameLogin, SameNames, SameLines, IsMessage, Fields, OnDot
<1>4. /\ smtp[s].step = "none" /\ smtp[s].state = "Data"
      /\ ~smtp[s].authenticating
      /\ UNCHANGED store
  BY DEF OnDot, DataMode, Keep
<1>5. CASE smtp[s].lines = <<>>
  <2>1. /\ smtp' = [smtp EXCEPT ![s].state = "Waiting"]
        /\ receipts' = receipts \cup Receipts(s)
    BY <1>5 DEF OnDot
  <2>2. SamePlace(smtp[s], smtp'[s]) /\ smtp'[s].state = "Waiting"
    BY <1>1, <2>1 DEF SamePlace, IsMessage, Fields
  <2> QED
    BY <1>2, <1>3, <1>4, <1>5, <2>1, <2>2
<1>6. CASE smtp[s].lines # <<>>
  <2>1. /\ smtp' = [smtp EXCEPT ![s].step = "insert", ![s].i = 1, ![s].size = 0]
        /\ UNCHANGED receipts
    BY <1>6 DEF OnDot
  <2>2. /\ smtp'[s].state = "Data"
        /\ smtp'[s].step = "insert" /\ smtp'[s].i = 1
        /\ smtp'[s].j = smtp[s].j /\ smtp'[s].id = smtp[s].id
        /\ smtp'[s].size = 0
    BY <1>1, <1>4, <2>1 DEF IsMessage, Fields
  <2> QED
    BY <1>2, <1>3, <1>4, <1>6, <2>1, <2>2
<1> QED
  BY <1>5, <1>6

LEMMA DotLocal ==
  ASSUME Local, NEW s \in SmtpSessions, OnDot(s)
  PROVE  Local'
<1>0. /\ Relay(smtp[s]) /\ Typed(smtp[s]) /\ Named(smtp[s])
      /\ LinesInv(s, smtp[s])
  BY Current
<1>1. Relay(smtp'[s])
  BY <1>0, DotStep DEF Relay, SameLogin, SameNames
<1>2. Typed(smtp'[s])
  <2>1. /\ SameLogin(smtp[s], smtp'[s])
        /\ SameNames(smtp[s], smtp'[s])
        /\ SameLines(smtp[s], smtp'[s])
        /\ smtp[s].step = "none"
    BY DotStep
  <2>2. CASE SamePlace(smtp[s], smtp'[s]) /\ smtp'[s].state = "Waiting"
    BY <1>0, <2>1, <2>2 DEF Typed, SameLogin, SameNames, SameLines, SamePlace
  <2>3. CASE /\ smtp'[s].state = "Data" /\ smtp[s].lines # <<>>
             /\ smtp'[s].step = "insert" /\ smtp'[s].i = 1
             /\ smtp'[s].j = smtp[s].j /\ smtp'[s].id = smtp[s].id
             /\ smtp'[s].size = 0
    BY <1>0, <2>1, <2>3 DEF Typed, SameLogin, SameNames, SameLines
  <2> QED
    BY <2>2, <2>3, DotStep
<1>3. Named(smtp'[s])
  BY <1>0, DotStep DEF Named, SameNames
<1>4. LinesInv(s, smtp'[s])
  BY <1>0, DotStep DEF LinesInv, SameLines, SameLogin, Receives
<1> QED
  BY <1>1, <1>2, <1>3, <1>4, DotStep, OneSession DEF LocalInv

------------------------------------------------------------------------------
(***************************************************************************)
(* SaveMessage.                                                            *)
(***************************************************************************)
LEMMA SaveStep ==
  ASSUME Local, NEW s \in SmtpSessions, SaveMessage(s), smtp' # smtp
  PROVE  /\ Changes(s)
         /\ SameLogin(smtp[s], smtp'[s])
         /\ SameNames(smtp[s], smtp'[s])
         /\ smtp'[s].lines = smtp[s].lines
         /\ smtp'[s].mail = smtp[s].mail
         /\ smtp'[s].sent = smtp[s].sent
         /\ smtp[s].step # "none"
<1>1. IsMessage(smtp[s]) /\ smtp = [t \in SmtpSessions |-> smtp[t]]
  BY Current
<1>2. Changes(s)
  BY <1>1 DEF Changes, IsMessage, Fields, SaveMessage, SaveRow, SaveLine,
              SaveOutgoing, SaveSize, SaveDone
<1>3. /\ SameLogin(smtp[s], smtp'[s])
      /\ SameNames(smtp[s], smtp'[s])
      /\ smtp'[s].lines = smtp[s].lines
      /\ smtp'[s].mail = smtp[s].mail
      /\ smtp'[s].sent = smtp[s].sent
  BY <1>1 DEF SameLogin, SameNames, IsMessage, Fields, SaveMessage, SaveRow,
              SaveLine, SaveOutgoing, SaveSize, SaveDone
<1>4. smtp[s].step # "none"
  BY DEF SaveMessage, SaveRow, SaveLine, SaveOutgoing, SaveSize, SaveDone,
         Saving
<1> QED
  BY <1>2, <1>3, <1>4

\* Where each of its steps goes.
Place(s, state, step, i, j, id, size) ==
  /\ smtp'[s].state = state
  /\ smtp'[s].step = step
  /\ smtp'[s].i = i
  /\ smtp'[s].j = j
  /\ smtp'[s].id = id
  /\ smtp'[s].size = size

LEMMA SaveRowPlace ==
  ASSUME Local, NEW s \in SmtpSessions, SaveRow(s), smtp' # smtp
  PROVE  Place(s, "Data", "lines", smtp[s].i, 1, nextID, smtp[s].size)
<1>1. IsMessage(smtp[s]) /\ smtp = [t \in SmtpSessions |-> smtp[t]]
      /\ smtp[s].state = "Data"
  BY Current DEF Typed, SaveRow, Saving
<1>2. smtp' = [smtp EXCEPT ![s].id = nextID, ![s].j = 1, ![s].step = "lines"]
  BY DEF SaveRow
<1> QED
  BY <1>1, <1>2 DEF Place, IsMessage, Fields

LEMMA SaveLinePlace ==
  ASSUME Local, NEW s \in SmtpSessions, SaveLine(s)
  PROVE  Place(s, "Data", "lines", smtp[s].i, smtp[s].j + 1, smtp[s].id,
               smtp[s].size + 1)
<1>1. IsMessage(smtp[s]) /\ smtp = [t \in SmtpSessions |-> smtp[t]]
      /\ smtp[s].state = "Data" /\ smtp[s].step = "lines"
  BY Current DEF Typed, SaveLine, Saving
<1> QED
  BY <1>1 DEF Place, IsMessage, Fields, SaveLine

LEMMA SaveOutgoingPlace ==
  ASSUME Local, NEW s \in SmtpSessions, SaveOutgoing(s)
  PROVE  Place(s, "Data", "size", smtp[s].i, smtp[s].j, smtp[s].id,
               smtp[s].size)
<1>1. IsMessage(smtp[s]) /\ smtp = [t \in SmtpSessions |-> smtp[t]]
      /\ smtp[s].state = "Data"
  BY Current DEF Typed, SaveOutgoing, Saving
<1> QED
  BY <1>1 DEF Place, IsMessage, Fields, SaveOutgoing

LEMMA SaveSizePlace ==
  ASSUME Local, NEW s \in SmtpSessions, SaveSize(s)
  PROVE  Place(s, "Data", "insert", smtp[s].i + 1, smtp[s].j, smtp[s].id,
               smtp[s].size)
<1>1. IsMessage(smtp[s]) /\ smtp = [t \in SmtpSessions |-> smtp[t]]
      /\ smtp[s].state = "Data"
  BY Current DEF Typed, SaveSize, Saving
<1> QED
  BY <1>1 DEF Place, IsMessage, Fields, SaveSize

LEMMA SaveDonePlace ==
  ASSUME Local, NEW s \in SmtpSessions, SaveDone(s)
  PROVE  Place(s, "Waiting", "none", smtp[s].i, smtp[s].j, 0, 0)
<1>1. IsMessage(smtp[s]) /\ smtp = [t \in SmtpSessions |-> smtp[t]]
  BY Current
<1> QED
  BY <1>1 DEF Place, IsMessage, Fields, SaveDone

LEMMA SaveLocal ==
  ASSUME Local, NEW s \in SmtpSessions, SaveMessage(s)
  PROVE  Local'
<1> SUFFICES ASSUME smtp' # smtp PROVE Local'
  BY Unchanged
<1>0. /\ Relay(smtp[s]) /\ Typed(smtp[s]) /\ Named(smtp[s])
      /\ LinesInv(s, smtp[s])
  BY Current
<1>1. smtp[s].step # "none" /\ ~smtp[s].authenticating
  BY <1>0, SaveStep DEF Relay
<1>2. PICK state \in {"Data", "Waiting"},
           step \in {"none", "insert", "lines", "size"},
           i \in Nat \ {0}, j \in Nat \ {0}, id \in MsgID \cup {0},
           size \in Nat :
        /\ Place(s, state, step, i, j, id, size)
        /\ step # "none" => state = "Data"
  <2>1. /\ smtp[s].i \in Nat \ {0} /\ smtp[s].j \in Nat \ {0}
        /\ smtp[s].id \in MsgID \cup {0} /\ smtp[s].size \in Nat
    BY <1>0 DEF Typed
  <2>2. CASE SaveRow(s)
    <3>1. nextID \in MsgID
      BY <2>2 DEF SaveRow, InsertMessage
    <3> QED
      BY <2>1, <2>2, <3>1, SaveRowPlace
  <2>3. CASE SaveLine(s)
    <3>1. smtp[s].j + 1 \in Nat \ {0} /\ smtp[s].size + 1 \in Nat
      BY <2>1
    <3> QED
      BY <2>1, <2>3, <3>1, SaveLinePlace
  <2>4. CASE SaveOutgoing(s)
    BY <2>1, <2>4, SaveOutgoingPlace
  <2>5. CASE SaveSize(s)
    <3>1. smtp[s].i + 1 \in Nat \ {0}
      BY <2>1
    <3> QED
      BY <2>1, <2>5, <3>1, SaveSizePlace
  <2>6. CASE SaveDone(s)
    BY <2>1, <2>6, SaveDonePlace
  <2> QED
    BY <2>2, <2>3, <2>4, <2>5, <2>6 DEF SaveMessage
<1>3. Relay(smtp'[s])
  BY <1>0, <1>1, SaveStep DEF Relay, SameLogin, SameNames
<1>4. Typed(smtp'[s])
  BY <1>0, <1>1, <1>2, SaveStep DEF Typed, SameLogin, SameNames, Place
<1>5. Named(smtp'[s])
  BY <1>0, SaveStep DEF Named, SameNames
<1>6. LinesInv(s, smtp'[s])
  <2>1. Receives(smtp[s])
    BY <1>0, <1>1 DEF Typed, Receives
  <2> QED
    BY <1>0, <2>1, SaveStep DEF LinesInv
<1> QED
  BY <1>3, <1>4, <1>5, <1>6, SaveStep, OneSession DEF LocalInv

------------------------------------------------------------------------------
LEMMA SenderLocal ==
  ASSUME Local, NEW s \in SmtpSessions, Sender(s)
  PROVE  Local'
<1>1. CASE RcptBadName(s)
  BY <1>1, Unchanged DEF RcptBadName
<1> QED
  BY <1>1, PlainLocal, AuthLocal, RcptLocalLocal, RcptRemoteLocal, DataLocal,
     RsetLocal, OnAuthLocal, DataLineLocal, DotLocal, GoneLocal
     DEF Sender, Plain

LEMMA LocalHolds == Spec => []Local
<1>1. Init => Local
  BY InitLocal DEF Init
<1>2. Local /\ [Next \/ Terminated]_smtpVars => Local'
  <2> SUFFICES ASSUME Local, [Next \/ Terminated]_smtpVars PROVE Local'
    OBVIOUS
  <2>1. CASE UNCHANGED smtpVars
    BY <2>1, Unchanged DEF smtpVars
  <2> QED
    BY <2>1, SaveLocal, SenderLocal DEF Next, Terminated
<1> QED
  BY <1>1, <1>2, PTL DEF Spec

(***************************************************************************)
(* Every field of a session stays in its set, and the two lists of         *)
(* recipients within their arrays, however many rows an address has.       *)
(***************************************************************************)
THEOREM TypeCorrectness == Spec => []MessageTypeOK
<1>1. Local => MessageTypeOK
  BY Current DEF MessageTypeOK, Typed, Named, IsList
<1> QED
  BY <1>1, LocalHolds, PTL

(***************************************************************************)
(* No order of AUTH, failed AUTH, MAIL, RCPT and RSET gets a remote        *)
(* recipient onto the list of a session without an account behind it.      *)
(***************************************************************************)
THEOREM Relaying == Spec => []NoOpenRelay
<1>1. Local => NoOpenRelay
  BY Current DEF Relay, NoOpenRelay
<1> QED
  BY <1>1, LocalHolds, PTL

------------------------------------------------------------------------------
SavedUnderLogin ==
  \A s \in SmtpSessions :
    smtp[s].step # "none" /\ smtp[s].remote # <<>> => MayRelay(s)

LEMMA LoginHolds == Spec => []SavedUnderLogin
<1>1. Local => SavedUnderLogin
  BY Current DEF Relay, SavedUnderLogin, MayRelay
<1> QED
  BY LocalHolds, <1>1, PTL

(***************************************************************************)
(* The four ASSERTs of SaveMessage on a mail with remote recipients hold   *)
(* when it comes to them.                                                  *)
(***************************************************************************)
THEOREM SaveAsserts == Spec => []SaveAssertionsHold
<1>1. Init => SaveAssertionsHold
  BY DEF Init, SaveAssertionsHold
<1>2. ASSUME SavedUnderLogin, SaveAssertionsHold, NEW s \in SmtpSessions,
             SaveMessage(s)
      PROVE  SaveAssertionsHold'
  <2>1. CASE SaveRow(s)
    <3>1. IsLocal(s) \/ MayRelay(s)
      BY <1>2, <2>1 DEF SaveRow, IsRemote, Saving, SavedUnderLogin
    <3>2. process' = process \/ process' = "insert failed"
      BY <2>1, <3>1, Zenon DEF SaveRow, InsertMessage, InsertMessageFails
    <3> QED
      BY <1>2, <3>2 DEF SaveAssertionsHold
  <2>2. CASE SaveLine(s) \/ SaveOutgoing(s) \/ SaveSize(s) \/ SaveDone(s)
    BY <1>2, <2>2 DEF SaveLine, SaveOutgoing, SaveSize, SaveDone,
       InsertBodyLine, InsertOutgoing, UpdateMessageSize, Keep,
       SaveAssertionsHold
  <2> QED
    BY <1>2, <2>1, <2>2 DEF SaveMessage
<1>3. ASSUME SaveAssertionsHold, NEW s \in SmtpSessions, Sender(s)
      PROVE  SaveAssertionsHold'
  <2>1. CASE \E a \in Address : RcptRemote(s, a)
    BY <1>3, <2>1 DEF RcptRemote, Keep, Assertion, SaveAssertionsHold
  <2>2. CASE \E name \in UserID, valid \in BOOLEAN : OnAuth(s, name, valid)
    BY <1>3, <2>2 DEF OnAuth, Keep, Assertion, SaveAssertionsHold
  <2>3. CASE RcptBadName(s) \/ DestroyedWhileSaving(s)
    BY <1>3, <2>3 DEF RcptBadName, DestroyedWhileSaving, UpdateMessageSize,
       Keep, Assertion, SaveAssertionsHold
  <2>4. CASE UNCHANGED process
    BY <1>3, <2>4 DEF SaveAssertionsHold
  <2> QED
    BY <1>3, <2>1, <2>2, <2>3, <2>4 DEF Sender, OnStart, ProcessHELO,
       ProcessAUTH, ProcessMAIL, RcptLocal, ProcessDATA, ProcessRSET,
       ProcessQUIT, OnDataLine, OnDot, IdleLimitReached, Leave, Keep
<1>4. /\ SavedUnderLogin /\ SaveAssertionsHold
      /\ [Next \/ Terminated]_smtpVars
      => SaveAssertionsHold'
  <2>1. UNCHANGED smtpVars /\ SaveAssertionsHold => SaveAssertionsHold'
    BY DEF smtpVars, SaveAssertionsHold
  <2> QED
    BY <1>2, <1>3, <2>1 DEF Next, Terminated
<1> QED
  BY LoginHolds, <1>1, <1>4, PTL DEF Spec

------------------------------------------------------------------------------
(***************************************************************************)
(* The sessions and the store.  "gone" are the copies, each the origin of  *)
(* a row, that somebody has taken away in the meantime: here there are     *)
(* none, among the POP3 sessions there may be some.                        *)
(***************************************************************************)
Copy(mail, rcpt) == [mail |-> mail, rcpt |-> rcpt]

StoreTyped ==
  /\ messages \in [MsgID -> Row \cup {NoRow}]
  /\ bodies \in [MsgID -> Seq(Line)]
  /\ nextID \in Nat \ {0}
  /\ faults \in Nat
  /\ \A id \in Rows : id < nextID
  /\ \A id \in MsgID : nextID <= id => bodies[id] = <<>>

\* No mail is numbered above the DATA commands of its session.
Known(mail) ==
  /\ mail \in SmtpSessions \X Nat
  /\ smtp[mail[1]].state # "Done" => mail[2] <= smtp[mail[1]].mail

Numbered(gone) ==
  /\ \A id \in Rows : Known(messages[id].origin.mail)
  /\ \A r \in receipts : Known(r.mail)
  /\ \A c \in gone : Known(c.mail)

\* How many recipients of the mail have a row.
Reached(s) ==
  CASE smtp[s].step = "none"   -> 0
    [] smtp[s].step = "insert" -> smtp[s].i - 1
    [] OTHER                   -> smtp[s].i

Copies == {messages[id].origin : id \in Rows}

\* Of a mail that is being received or saved nothing has been acknowledged,
\* and there are no copies but those SaveMessage has come to.
Fresh(s, gone) ==
  Receives(smtp[s]) =>
    /\ \A r \in receipts : r.mail # MailOf(s)
    /\ \A c \in Copies \cup gone : c.mail = MailOf(s) =>
         \E k \in 1..Reached(s) : c.rcpt = AllRecipients(s)[k]

Held(s, k, gone) ==
  LET copy == Copy(MailOf(s), AllRecipients(s)[k])
  IN  \/ copy \in gone
      \/ \E id \in Rows : /\ messages[id].origin = copy
                          /\ faults = 0 => bodies[id] = smtp[s].lines

\* The copy that is being written.
Begun(s, gone) ==
  LET copy == Copy(MailOf(s), AllRecipients(s)[smtp[s].i])
      id == smtp[s].id
  IN  /\ id \in MsgID
      /\ id < nextID
      /\ id \in Rows => messages[id].origin = copy
      /\ \/ copy \in gone
         \/ /\ id \in Rows
            /\ faults = 0 => bodies[id] = SubSeq(smtp[s].lines, 1, smtp[s].j - 1)

\* The recipients before the current one have their copies, and he has his as
\* far as it is written.
Saved(s, gone) ==
  /\ smtp[s].step # "none" =>
       /\ Reached(s) \in 0..Len(AllRecipients(s))
       /\ \A k \in 1..(smtp[s].i - 1) : Held(s, k, gone)
  /\ smtp[s].step \in {"lines", "size"} =>
       /\ Begun(s, gone)
       /\ smtp[s].j <= Len(smtp[s].lines) + 1
  /\ smtp[s].step = "size" => smtp[s].j = Len(smtp[s].lines) + 1

Acknowledged(gone) ==
  faults = 0 =>
    \A r \in Promises :
      Copy(r.mail, r.rcpt) \in gone \/ \E id \in MsgID : Complete(id, r)

MailInv(gone) ==
  /\ StoreTyped
  /\ Numbered(gone)
  /\ \A s \in SmtpSessions : Fresh(s, gone) /\ Saved(s, gone)
  /\ Acknowledged(gone)
  /\ NoDuplicateCopies

(***************************************************************************)
(* What a step may do to the store, and to the receipts, that concerns     *)
(* other mails than its own: copies are taken, and become "gone".          *)
(***************************************************************************)
Evolves(own, G, H) ==
  /\ G \subseteq H
  /\ H \subseteq G \cup Copies
  /\ \A id \in Rows :
       \/ messages[id].origin \in H
       \/ /\ id \in Rows'
          /\ bodies'[id] = bodies[id] \/ messages[id].origin.mail \in own
  /\ \A id \in Rows' :
       \/ id \in Rows /\ messages'[id].origin = messages[id].origin
       \/ id = nextID /\ messages'[id].origin.mail \in own
  /\ nextID <= nextID'
  /\ faults' = 0 => faults = 0
  /\ \A r \in receipts' : r \in receipts \/ r.mail \in own

LEMMA Carried ==
  ASSUME StoreTyped, NEW own, NEW G, NEW H, Evolves(own, G, H), NEW id \in Rows
  PROVE  \/ messages[id].origin \in H
         \/ /\ id \in Rows'
            /\ messages'[id].origin = messages[id].origin
            /\ bodies'[id] = bodies[id] \/ messages[id].origin.mail \in own
<1>1. id # nextID
  BY DEF StoreTyped
<1> QED
  BY <1>1 DEF Evolves

LEMMA SameMail ==
  ASSUME NEW t, smtp'[t] = smtp[t]
  PROVE  /\ MailOf(t)' = MailOf(t)
         /\ AllRecipients(t)' = AllRecipients(t)
         /\ Reached(t)' = Reached(t)
BY DEF MailOf, AllRecipients, Reached

LEMMA CopiesEvolve ==
  ASSUME NEW own, NEW G, NEW H, Evolves(own, G, H),
         NEW c \in Copies' \cup H, c.mail \notin own
  PROVE  c \in Copies \cup G
BY DEF Evolves, Copies

LEMMA OthersFresh ==
  ASSUME StoreTyped, NEW own, NEW G, NEW H, Evolves(own, G, H),
         NEW t \in SmtpSessions, smtp'[t] = smtp[t], MailOf(t) \notin own,
         Fresh(t, G)
  PROVE  Fresh(t, H)'
<1> SUFFICES ASSUME Receives(smtp[t]) PROVE Fresh(t, H)'
  BY DEF Fresh
<1>1. \A r \in receipts' : r.mail # MailOf(t)
  BY DEF Fresh, Evolves
<1>2. ASSUME NEW c \in Copies' \cup H, c.mail = MailOf(t)
      PROVE  \E k \in 1..Reached(t) : c.rcpt = AllRecipients(t)[k]
  BY <1>2, CopiesEvolve DEF Fresh
<1> QED
  BY <1>1, <1>2, SameMail DEF Fresh

\* A copy is held as long as its lines stay, or it is gone.
LEMMA HeldStays ==
  ASSUME StoreTyped, NEW own, NEW G, NEW H, Evolves(own, G, H),
         NEW t \in SmtpSessions, MailOf(t)' = MailOf(t),
         AllRecipients(t)' = AllRecipients(t),
         smtp'[t].lines = smtp[t].lines,
         NEW k, Held(t, k, G),
         \A id \in Rows :
           /\ messages[id].origin = Copy(MailOf(t), AllRecipients(t)[k])
           /\ faults' = 0
           /\ bodies[id] = smtp[t].lines
           => bodies'[id] = bodies[id] \/ messages[id].origin \in H
  PROVE  Held(t, k, H)'
<1> DEFINE copy == Copy(MailOf(t), AllRecipients(t)[k])
<1>1. copy' = copy
  BY DEF Copy
<1>2. CASE copy \in G
  BY <1>1, <1>2 DEF Held, Evolves
<1>3. CASE \E id \in Rows : /\ messages[id].origin = copy
                            /\ faults = 0 => bodies[id] = smtp[t].lines
  <2>1. PICK id \in Rows : /\ messages[id].origin = copy
                           /\ faults = 0 => bodies[id] = smtp[t].lines
    BY <1>3
  <2>2. \/ copy \in H
        \/ id \in Rows' /\ messages'[id].origin = copy
    BY <2>1, Carried
  <2>3. faults' = 0 => \/ copy \in H
                       \/ bodies'[id] = smtp[t].lines
    BY <2>1 DEF Evolves
  <2> QED
    BY <1>1, <2>2, <2>3 DEF Held
<1> QED
  BY <1>2, <1>3 DEF Held

LEMMA OthersHeld ==
  ASSUME StoreTyped, NEW own, NEW G, NEW H, Evolves(own, G, H),
         NEW t \in SmtpSessions, smtp'[t] = smtp[t], MailOf(t) \notin own,
         NEW k, Held(t, k, G)
  PROVE  Held(t, k, H)'
<1>1. ASSUME NEW id \in Rows,
             messages[id].origin = Copy(MailOf(t), AllRecipients(t)[k])
      PROVE  bodies'[id] = bodies[id] \/ messages[id].origin \in H
  BY <1>1, Carried DEF Copy
<1> QED
  BY <1>1, SameMail, HeldStays

LEMMA OthersBegun ==
  ASSUME StoreTyped, StoreTyped', NEW own, NEW G, NEW H, Evolves(own, G, H),
         NEW t \in SmtpSessions, smtp'[t] = smtp[t], MailOf(t) \notin own,
         Begun(t, G)
  PROVE  Begun(t, H)'
<1> DEFINE copy == Copy(MailOf(t), AllRecipients(t)[smtp[t].i])
           id == smtp[t].id
<1>1. copy.mail = MailOf(t) /\ copy' = copy /\ id' = id
  BY SameMail DEF Copy
<1>2. id \in MsgID /\ id < nextID /\ id < nextID'
  BY DEF Begun, StoreTyped, Evolves, MsgID
<1>3. ASSUME id \in Rows'
      PROVE  messages'[id].origin = copy
  BY <1>2, <1>3 DEF Evolves, Begun, StoreTyped
<1>4. CASE copy \in G
  BY <1>1, <1>2, <1>3, <1>4 DEF Begun, Evolves
<1>5. CASE /\ id \in Rows
           /\ faults = 0 => bodies[id] = SubSeq(smtp[t].lines, 1, smtp[t].j - 1)
  <2>1. messages[id].origin = copy
    BY <1>5 DEF Begun
  <2>2. \/ copy \in H
        \/ id \in Rows' /\ bodies'[id] = bodies[id]
    BY <1>1, <1>5, <2>1, Carried
  <2>3. faults' = 0 => faults = 0
    BY DEF Evolves
  <2> QED
    BY <1>1, <1>2, <1>3, <1>5, <2>2, <2>3 DEF Begun
<1> QED
  BY <1>4, <1>5 DEF Begun

LEMMA OthersSaved ==
  ASSUME StoreTyped, StoreTyped', NEW own, NEW G, NEW H, Evolves(own, G, H),
         NEW t \in SmtpSessions, smtp'[t] = smtp[t], MailOf(t) \notin own,
         Saved(t, G)
  PROVE  Saved(t, H)'
<1>1. ASSUME smtp[t].step # "none"
      PROVE  /\ Reached(t) \in 0..Len(AllRecipients(t))
             /\ \A k \in 1..(smtp[t].i - 1) : Held(t, k, H)'
  BY <1>1, OthersHeld DEF Saved
<1>2. ASSUME smtp[t].step \in {"lines", "size"}
      PROVE  Begun(t, H)' /\ smtp[t].j <= Len(smtp[t].lines) + 1
  BY <1>2, OthersBegun DEF Saved
<1> QED
  BY <1>1, <1>2, SameMail DEF Saved

LEMMA AcknowledgedEvolve ==
  ASSUME StoreTyped, NEW own, NEW G, NEW H, Evolves(own, G, H),
         Acknowledged(G), faults' = 0,
         NEW r \in Promises, r.mail \notin own
  PROVE  Copy(r.mail, r.rcpt) \in H \/ \E id \in MsgID : Complete(id, r)'
<1> DEFINE copy == Copy(r.mail, r.rcpt)
<1>1. copy.mail = r.mail /\ copy = [mail |-> r.mail, rcpt |-> r.rcpt]
  BY DEF Copy
<1>2. CASE copy \in G
  BY <1>2 DEF Evolves
<1>3. CASE \E id \in MsgID : Complete(id, r)
  <2>1. PICK id \in MsgID : Complete(id, r)
    BY <1>3
  <2>2. id \in Rows /\ messages[id].origin = copy
    BY <1>1, <2>1 DEF Complete
  <2>3. \/ copy \in H
        \/ /\ id \in Rows' /\ messages'[id].origin = copy
           /\ bodies'[id] = bodies[id]
    BY <1>1, <2>2, Carried
  <2> QED
    BY <1>1, <2>1, <2>3 DEF Complete
<1> QED
  BY <1>2, <1>3 DEF Acknowledged, Evolves

\* Without a new row there are no new duplicates.
LEMMA NoNewCopies ==
  ASSUME NoDuplicateCopies,
         \A id \in Rows' :
           id \in Rows /\ messages'[id].origin = messages[id].origin
  PROVE  NoDuplicateCopies'
BY DEF NoDuplicateCopies

\* Others take copies, while the sessions and the receipts stay as they are.
LEMMA TakenMail ==
  ASSUME NEW G, NEW H, MailInv(G), StoreTyped', Evolves({}, G, H),
         UNCHANGED <<smtp, receipts>>
  PROVE  MailInv(H)'
<1>1. \A t \in SmtpSessions : Fresh(t, H)' /\ Saved(t, H)'
  BY OthersFresh, OthersSaved DEF MailInv
<1>2. \A id \in Rows' :
        id \in Rows /\ messages'[id].origin = messages[id].origin
  BY DEF Evolves
<1>3. Numbered(H)'
  <2>1. \A mail : Known(mail) => Known(mail)'
    BY DEF Known
  <2>2. \A c \in Copies \cup G : Known(c.mail)
    BY DEF MailInv, Numbered, Copies
  <2>3. \A c \in Copies' \cup H : Known(c.mail)'
    BY <2>1, <2>2, CopiesEvolve
  <2>4. \A r \in receipts' : Known(r.mail)'
    BY <2>1 DEF MailInv, Numbered
  <2> QED
    BY <2>3, <2>4 DEF Numbered, Copies
<1>4. Acknowledged(H)'
  BY AcknowledgedEvolve DEF MailInv, Acknowledged, Promises
<1>5. NoDuplicateCopies'
  BY <1>2, NoNewCopies DEF MailInv
<1> QED
  BY <1>1, <1>3, <1>4, <1>5 DEF MailInv

------------------------------------------------------------------------------
(***************************************************************************)
(* A step of a session.                                                    *)
(***************************************************************************)
LEMMA OtherMails ==
  ASSUME NEW s \in SmtpSessions, NEW t \in SmtpSessions, t # s
  PROVE  MailOf(t) \notin {MailOf(s)}
BY DEF MailOf

LEMMA OwnStep ==
  ASSUME NEW G, MailInv(G), StoreTyped', NEW s \in SmtpSessions, Changes(s),
         Evolves({MailOf(s)}, G, G),
         \A mail : Known(mail) => Known(mail)', Known(MailOf(s)),
         Fresh(s, G)', Saved(s, G)', Acknowledged(G)', NoDuplicateCopies'
  PROVE  MailInv(G)'
<1>1. ASSUME NEW t \in SmtpSessions
      PROVE  Fresh(t, G)' /\ Saved(t, G)'
  <2>1. CASE t = s
    BY <2>1
  <2>2. CASE t # s
    BY <2>2, OtherMails, OthersFresh, OthersSaved DEF MailInv, Changes
  <2> QED
    BY <2>1, <2>2
<1>2. Numbered(G)'
  <2>1. \A c \in Copies \cup G : Known(c.mail)'
    BY DEF MailInv, Numbered, Copies
  <2>2. \A c \in Copies' \cup G : Known(c.mail)'
    BY <2>1, CopiesEvolve
  <2>3. \A r \in receipts' : Known(r.mail)'
    BY DEF MailInv, Numbered, Evolves
  <2> QED
    BY <2>2, <2>3 DEF Numbered, Copies
<1> QED
  BY <1>1, <1>2 DEF MailInv

\* What is known stays known when the count of mails does not go back.
LEMMA KnownGrows ==
  ASSUME Local, Local', NEW s \in SmtpSessions, Changes(s),
         smtp[s].state # "Done",
         smtp'[s].state = "Done" \/ smtp[s].mail <= smtp'[s].mail
  PROVE  /\ \A mail : Known(mail) => Known(mail)'
         /\ Known(MailOf(s))
<1>1. /\ smtp[s].mail \in Nat
      /\ smtp'[s].mail \in Nat
  BY Limits DEF Local, LocalInv, Typed
<1>2. Known(MailOf(s))
  BY <1>1 DEF Known, MailOf
<1>3. ASSUME NEW mail, Known(mail)
      PROVE  Known(mail)'
  <2>1. /\ mail \in SmtpSessions \X Nat
        /\ mail[1] \in SmtpSessions /\ mail[2] \in Nat
        /\ smtp[mail[1]].state # "Done" => mail[2] <= smtp[mail[1]].mail
    BY <1>3 DEF Known
  <2>2. CASE mail[1] = s
    BY <1>1, <2>1, <2>2 DEF Known
  <2>3. CASE mail[1] # s
    BY <2>1, <2>3 DEF Known, Changes
  <2> QED
    BY <2>2, <2>3
<1> QED
  BY <1>2, <1>3

LEMMA StoreKept ==
  ASSUME UNCHANGED <<store, receipts>>
  PROVE  /\ StoreTyped => StoreTyped'
         /\ Copies' = Copies /\ Rows' = Rows
         /\ StoreTyped => \A own, G : Evolves(own, G, G)
         /\ \A G : Acknowledged(G) => Acknowledged(G)'
         /\ NoDuplicateCopies => NoDuplicateCopies'
<1>1. /\ messages' = messages /\ bodies' = bodies /\ nextID' = nextID
      /\ faults' = faults /\ receipts' = receipts
  BY DEF store
<1>2. Rows' = Rows /\ Copies' = Copies
  BY <1>1 DEF Rows, Copies
<1>3. StoreTyped => StoreTyped'
  BY <1>1, <1>2 DEF StoreTyped
<1>4. ASSUME StoreTyped, NEW own, NEW G
      PROVE  Evolves(own, G, G)
  BY <1>1, <1>2, <1>4 DEF Evolves, StoreTyped
<1>5. ASSUME NEW id, NEW r
      PROVE  Complete(id, r)' = Complete(id, r)
  BY <1>1, <1>2 DEF Complete
<1>6. \A G : Acknowledged(G) => Acknowledged(G)'
  BY <1>1, <1>5 DEF Acknowledged, Promises
<1>7. NoDuplicateCopies => NoDuplicateCopies'
  BY <1>1, <1>2 DEF NoDuplicateCopies
<1> QED
  BY <1>2, <1>3, <1>4, <1>6, <1>7

------------------------------------------------------------------------------
(***************************************************************************)
(* The commands, and the lines: the store and the receipts stay as they    *)
(* are.  A mail begins with DATA under a number nothing is known of.       *)
(***************************************************************************)
Quiet(s) ==
  /\ Changes(s)
  /\ UNCHANGED <<store, receipts>>
  /\ smtp[s].state # "Done" /\ smtp[s].step = "none"
  /\ \/ smtp'[s].step = "none"
     \/ smtp'[s].step = "insert" /\ smtp'[s].i = 1
  /\ smtp'[s].state = "Done" \/ smtp[s].mail <= smtp'[s].mail
  /\ Receives(smtp'[s]) =>
       \/ smtp'[s].mail = smtp[s].mail + 1
       \/ smtp'[s].mail = smtp[s].mail /\ Receives(smtp[s])

\* The mail without a line: its 250 promises nothing.
EmptyDot(s) == OnDot(s) /\ smtp[s].lines = <<>>

LEMMA QuietFresh ==
  ASSUME Local, NEW G, MailInv(G), NEW s \in SmtpSessions, Quiet(s)
  PROVE  Fresh(s, G)'
<1> SUFFICES ASSUME Receives(smtp'[s])
             PROVE  /\ \A r \in receipts : r.mail # MailOf(s)'
                    /\ \A c \in Copies \cup G : c.mail # MailOf(s)'
  BY StoreKept DEF Fresh, Quiet
<1>1. smtp[s].mail \in Nat /\ smtp[s].state # "Done"
  BY Current, Limits DEF Typed, Quiet
<1>2. CASE smtp'[s].mail = smtp[s].mail + 1
  <2>1. ~Known(MailOf(s)')
    BY <1>1, <1>2 DEF Known, MailOf
  <2>2. /\ \A r \in receipts : Known(r.mail)
        /\ \A c \in Copies \cup G : Known(c.mail)
    BY DEF MailInv, Numbered, Copies
  <2> QED
    BY <2>1, <2>2
<1>3. CASE smtp'[s].mail = smtp[s].mail /\ Receives(smtp[s])
  <2>1. MailOf(s)' = MailOf(s) /\ Reached(s) = 0
    BY <1>3 DEF MailOf, Reached, Quiet
  <2>2. 1..Reached(s) = {}
    BY <2>1
  <2> QED
    BY <1>3, <2>1, <2>2 DEF MailInv, Fresh
<1> QED
  BY <1>2, <1>3 DEF Quiet

LEMMA QuietMail ==
  ASSUME Local, Local', NEW G, MailInv(G), NEW s \in SmtpSessions, Quiet(s)
  PROVE  MailInv(G)'
<1>1. Fresh(s, G)'
  BY QuietFresh
<1>2. Saved(s, G)'
  <2>1. CASE smtp'[s].step = "none"
    BY <2>1 DEF Saved
  <2>2. CASE smtp'[s].step = "insert" /\ smtp'[s].i = 1
    <3>1. Reached(s)' = 0
      BY <2>2 DEF Reached
    <3>2. Len(AllRecipients(s))' \in Nat
      <4>1. smtp'[s].users \in Seq(UserID) /\ smtp'[s].remote \in Seq(Address)
        BY DEF Local, LocalInv, Typed, Named, IsList
      <4>2. \A users \in Seq(UserID), remote \in Seq(Address) :
              Len(users \o remote) \in Nat
        BY ConcatParts
      <4> QED
        BY <4>1, <4>2 DEF AllRecipients
    <3>3. 1..(smtp'[s].i - 1) = {}
      BY <2>2
    <3> QED
      BY <2>2, <3>1, <3>2, <3>3 DEF Saved
  <2> QED
    BY <2>1, <2>2 DEF Quiet
<1>3. /\ Changes(s) /\ smtp[s].state # "Done"
      /\ smtp'[s].state = "Done" \/ smtp[s].mail <= smtp'[s].mail
      /\ UNCHANGED <<store, receipts>>
  BY DEF Quiet
<1>4. /\ StoreTyped' /\ Evolves({MailOf(s)}, G, G) /\ Acknowledged(G)'
      /\ NoDuplicateCopies'
  BY <1>3, StoreKept DEF MailInv
<1>5. /\ \A mail : Known(mail) => Known(mail)'
      /\ Known(MailOf(s))
  BY <1>3, KnownGrows
<1> QED
  BY <1>1, <1>2, <1>3, <1>4, <1>5, OwnStep

\* A session comes to rest, or goes, without a promise about the mail it was at.
LEMMA RestMail ==
  ASSUME Local, Local', NEW G, MailInv(G), NEW s \in SmtpSessions, Changes(s),
         Receives(smtp[s]), smtp[s].state # "Done",
         ~Receives(smtp'[s]), smtp'[s].step = "none",
         smtp'[s].state = "Done" \/ smtp'[s].mail = smtp[s].mail,
         StoreTyped', Evolves({MailOf(s)}, G, G), Rows' = Rows,
         \A id \in Rows : messages'[id].origin = messages[id].origin,
         Promises' = Promises
  PROVE  MailInv(G)'
<1>1. Fresh(s, G)' /\ Saved(s, G)'
  BY DEF Fresh, Saved
<1>2. smtp'[s].state = "Done" \/ smtp[s].mail <= smtp'[s].mail
  BY Current, Limits DEF Typed
<1>3. /\ \A mail : Known(mail) => Known(mail)'
      /\ Known(MailOf(s))
  BY <1>2, KnownGrows
<1>4. \A r \in Promises : r.mail # MailOf(s)
  BY DEF MailInv, Fresh, Promises
<1>5. Acknowledged(G)'
  BY <1>4, AcknowledgedEvolve DEF MailInv, Acknowledged
<1>6. NoDuplicateCopies'
  BY NoNewCopies DEF MailInv
<1> QED
  BY <1>1, <1>3, <1>5, <1>6, OwnStep

LEMMA SenderQuiet ==
  ASSUME Local, NEW s \in SmtpSessions, Sender(s)
  PROVE  \/ Quiet(s) \/ UNCHANGED <<store, smtp, receipts>>
         \/ EmptyDot(s) \/ DestroyedWhileSaving(s)
<1> SUFFICES ASSUME ~DestroyedWhileSaving(s), ~RcptBadName(s)
             PROVE  \/ Quiet(s) \/ UNCHANGED <<store, smtp, receipts>>
                    \/ EmptyDot(s)
  BY DEF RcptBadName, Assertion
<1>1. smtp[s].state # "Done" /\ smtp[s].step = "none" /\ smtp[s].mail \in Nat
  <2>1. \/ OnStart(s) \/ IdleLimitReached(s) \/ Leave(s)
        \/ Command(s) \/ DataMode(s)
    <3>1. \A a \in Address : RcptLocal(s, a) \/ RcptRemote(s, a) => Command(s)
      BY DEF RcptLocal, RcptRemote
    <3>2. \A name \in UserID, valid \in BOOLEAN :
            OnAuth(s, name, valid) => DataMode(s)
      BY DEF OnAuth
    <3>3. \/ ProcessHELO(s) \/ ProcessAUTH(s) \/ ProcessMAIL(s)
          \/ ProcessDATA(s) \/ ProcessRSET(s) \/ ProcessQUIT(s)
          => Command(s)
      BY DEF ProcessHELO, ProcessAUTH, ProcessMAIL, ProcessDATA, ProcessRSET,
             ProcessQUIT
    <3>4. OnDataLine(s) \/ OnDot(s) => DataMode(s)
      BY DEF OnDataLine, OnDot
    <3> QED
      BY <3>1, <3>2, <3>3, <3>4 DEF Sender
  <2>2. /\ smtp[s].state \in {"Starting", "Waiting", "Data", "Close"}
        /\ smtp[s].state = "Starting" \/ smtp[s].step = "none"
    BY <2>1 DEF OnStart, IdleLimitReached, Leave, Command, DataMode
  <2> QED
    BY <2>2, Current, Limits DEF Typed
<1>2. CASE Plain(s)
  BY <1>1, <1>2, PlainStep DEF Quiet, SamePlace, SameLines, Receives
<1>3. CASE ProcessAUTH(s)
  <2>1. ~Receives(smtp'[s])
    BY <1>3, AuthStep DEF Receives
  <2>2. /\ Changes(s)
        /\ SamePlace(smtp[s], smtp'[s])
        /\ SameLines(smtp[s], smtp'[s])
        /\ UNCHANGED <<store, receipts>>
    BY <1>3, AuthStep
  <2> QED
    BY <1>1, <2>1, <2>2 DEF Quiet, SamePlace, SameLines
<1>4. ASSUME NEW a \in Address, RcptLocal(s, a)
      PROVE  Quiet(s)
  BY <1>1, <1>4, RcptLocalStep DEF Quiet, SamePlace, SameLines, Receives
<1>5. ASSUME NEW a \in Address, RcptRemote(s, a)
      PROVE  Quiet(s) \/ UNCHANGED <<store, smtp, receipts>>
  <2>1. CASE smtp' = smtp
    BY <1>5, <2>1 DEF RcptRemote, Assertion, Keep
  <2>2. CASE smtp' # smtp
    BY <1>1, <1>5, <2>2, RcptRemoteStep DEF Quiet, SamePlace, SameLines, Receives
  <2> QED
    BY <2>1, <2>2
<1>6. CASE ProcessDATA(s)
  BY <1>1, <1>6, DataStep DEF Quiet, SamePlace
<1>7. CASE ProcessRSET(s)
  <2>1. ~Receives(smtp'[s])
    BY <1>7, RsetStep DEF Receives
  <2>2. /\ Changes(s)
        /\ SamePlace(smtp[s], smtp'[s])
        /\ smtp'[s].mail = smtp[s].mail
        /\ UNCHANGED <<store, receipts>>
    BY <1>7, RsetStep
  <2> QED
    BY <1>1, <2>1, <2>2 DEF Quiet, SamePlace, SameLines
<1>8. ASSUME NEW name \in UserID, NEW valid \in BOOLEAN, OnAuth(s, name, valid)
      PROVE  Quiet(s) \/ UNCHANGED <<store, smtp, receipts>>
  <2>1. CASE smtp' = smtp
    BY <1>8, <2>1 DEF OnAuth, Assertion, Keep
  <2>2. CASE smtp' # smtp
    <3>1. /\ Changes(s)
          /\ SameLines(smtp[s], smtp'[s])
          /\ SamePlace(smtp[s], smtp'[s])
          /\ UNCHANGED <<store, receipts>>
      BY <1>8, <2>2, OnAuthStep
    <3>2. ~Receives(smtp'[s])
      BY <1>8, <2>2, OnAuthStep DEF Receives
    <3> QED
      BY <1>1, <3>1, <3>2 DEF Quiet, SamePlace, SameLines
  <2> QED
    BY <2>1, <2>2
<1>9. CASE OnDataLine(s)
  BY <1>1, <1>9, DataLineStep DEF Quiet, SamePlace, Receives
<1>10. CASE OnDot(s) /\ ~EmptyDot(s)
  <2>1. UNCHANGED <<store, receipts>>
    BY <1>10, DotStep DEF EmptyDot
  <2> QED
    BY <1>1, <1>10, <2>1, DotStep
       DEF EmptyDot, Quiet, SameLines, SameLogin, Receives
<1>11. CASE Leave(s)
  BY <1>1, <1>11, GoneStep DEF Leave, Keep, Quiet, Receives
<1> QED
  BY <1>2, <1>3, <1>4, <1>5, <1>6, <1>7, <1>8, <1>9, <1>10, <1>11
     DEF Sender, Plain

------------------------------------------------------------------------------
(***************************************************************************)
(* SaveMessage and the store.                                              *)
(***************************************************************************)
LEMMA Saver ==
  ASSUME Local, NEW s \in SmtpSessions, smtp[s].step # "none"
  PROVE  /\ Receives(smtp[s]) /\ smtp[s].state = "Data"
         /\ smtp[s].i \in Nat \ {0} /\ smtp[s].j \in Nat \ {0}
         /\ smtp[s].lines \in Seq(Line)
         /\ smtp[s].mail \in Nat /\ smtp[s].sent \in Nat
         /\ smtp[s].users \in Seq(UserID) /\ smtp[s].remote \in Seq(Address)
BY Current, Limits DEF Typed, Relay, Named, IsList, Receives

LEMMA Recipients ==
  ASSUME Local, NEW s \in SmtpSessions
  PROVE  /\ Len(smtp[s].users) \in Nat /\ Len(smtp[s].remote) \in Nat
         /\ Len(AllRecipients(s)) = Len(smtp[s].users) + Len(smtp[s].remote)
         /\ \A k \in 1..Len(smtp[s].users) :
              /\ AllRecipients(s)[k] = smtp[s].users[k]
              /\ AllRecipients(s)[k] \in UserID
         /\ \A k \in 1..Len(smtp[s].remote) :
              /\ AllRecipients(s)[Len(smtp[s].users) + k] = smtp[s].remote[k]
              /\ AllRecipients(s)[Len(smtp[s].users) + k] \in Address
<1> DEFINE u == smtp[s].users
           r == smtp[s].remote
<1>1. u \in Seq(UserID) /\ r \in Seq(Address)
  BY Current DEF Typed, Named, IsList
<1>2. \A users \in Seq(UserID), remote \in Seq(Address) :
        /\ Len(users) \in Nat /\ Len(remote) \in Nat
        /\ Len(users \o remote) = Len(users) + Len(remote)
        /\ \A k \in 1..Len(users) :
             (users \o remote)[k] = users[k] /\ users[k] \in UserID
        /\ \A k \in 1..Len(remote) :
             /\ (users \o remote)[Len(users) + k] = remote[k]
             /\ remote[k] \in Address
  BY ConcatParts
<1>3. AllRecipients(s) = u \o r
  BY DEF AllRecipients
<1> HIDE DEF u, r
<1>4. /\ Len(u) \in Nat /\ Len(r) \in Nat
      /\ Len(u \o r) = Len(u) + Len(r)
      /\ \A k \in 1..Len(u) : (u \o r)[k] = u[k] /\ u[k] \in UserID
      /\ \A k \in 1..Len(r) : (u \o r)[Len(u) + k] = r[k] /\ r[k] \in Address
  BY <1>1, <1>2
<1> QED
  BY <1>3, <1>4 DEF u, r

LEMMA Position ==
  ASSUME NEW n \in Nat, NEW m \in Nat, NEW i \in Nat \ {0}
  PROVE  /\ i <= n => i \in 1..n /\ i \in 1..(n + m)
         /\ ~(i <= n) /\ i <= n + m => /\ i - n \in 1..m
                                      /\ n + (i - n) = i
                                      /\ i \in 1..(n + m)
OBVIOUS

\* The recipient SaveMessage has come to.
LEMMA CurrentRecipient ==
  ASSUME Local, NEW s \in SmtpSessions, IsLocal(s) \/ IsRemote(s)
  PROVE  /\ smtp[s].i \in 1..Len(AllRecipients(s))
         /\ Recipient(s) = AllRecipients(s)[smtp[s].i]
         /\ IsLocal(s) => Recipient(s) \in UserID
         /\ ~IsLocal(s) => Recipient(s) \in Address
<1>1. /\ smtp[s].i \in Nat \ {0}
      /\ Len(smtp[s].users) \in Nat /\ Len(smtp[s].remote) \in Nat
      /\ Len(AllRecipients(s)) = Len(smtp[s].users) + Len(smtp[s].remote)
  BY Current, Recipients DEF Typed
<1>2. CASE IsLocal(s)
  <2>1. smtp[s].i \in 1..Len(smtp[s].users)
    BY <1>1, <1>2 DEF IsLocal
  <2>2. /\ AllRecipients(s)[smtp[s].i] = smtp[s].users[smtp[s].i]
        /\ AllRecipients(s)[smtp[s].i] \in UserID
    BY <2>1, Recipients
  <2>3. smtp[s].i \in 1..Len(AllRecipients(s))
    BY <1>1, <1>2, Position DEF IsLocal
  <2> QED
    BY <1>2, <2>2, <2>3 DEF Recipient
<1>3. CASE ~IsLocal(s)
  <2>1. /\ smtp[s].i - Len(smtp[s].users) \in 1..Len(smtp[s].remote)
        /\ Len(smtp[s].users) + (smtp[s].i - Len(smtp[s].users)) = smtp[s].i
        /\ smtp[s].i \in 1..(Len(smtp[s].users) + Len(smtp[s].remote))
    BY <1>1, <1>3, Position DEF IsLocal, IsRemote
  <2>2. /\ AllRecipients(s)[smtp[s].i]
             = smtp[s].remote[smtp[s].i - Len(smtp[s].users)]
        /\ AllRecipients(s)[smtp[s].i] \in Address
    <3>1. /\ AllRecipients(s)[Len(smtp[s].users)
                                + (smtp[s].i - Len(smtp[s].users))]
               = smtp[s].remote[smtp[s].i - Len(smtp[s].users)]
          /\ AllRecipients(s)[Len(smtp[s].users)
                                + (smtp[s].i - Len(smtp[s].users))] \in Address
      BY <2>1, Recipients
    <3> QED
      BY <2>1, <3>1
  <2> QED
    BY <1>1, <1>3, <2>1, <2>2 DEF Recipient
<1> QED
  BY <1>2, <1>3

\* No account is twice among the recipients.
LEMMA UsersOnce ==
  ASSUME Local, NEW s \in SmtpSessions,
         NEW i \in 1..Len(AllRecipients(s)), NEW k \in 1..(i - 1),
         AllRecipients(s)[i] \in UserID
  PROVE  AllRecipients(s)[k] # AllRecipients(s)[i]
<1>0. /\ Len(smtp[s].users) \in Nat /\ Len(smtp[s].remote) \in Nat
      /\ Len(AllRecipients(s)) = Len(smtp[s].users) + Len(smtp[s].remote)
  BY Recipients
<1>1. /\ Len(smtp[s].users) \in Nat /\ Len(smtp[s].remote) \in Nat
      /\ i \in Nat \ {0} /\ i <= Len(smtp[s].users) + Len(smtp[s].remote)
  <2>1. i \in 1..(Len(smtp[s].users) + Len(smtp[s].remote))
    BY <1>0
  <2>2. \A n, m \in Nat :
          i \in 1..(n + m) => i \in Nat \ {0} /\ i <= n + m
    OBVIOUS
  <2> QED
    BY <1>0, <2>1, <2>2
<1>2. i \in 1..Len(smtp[s].users)
  <2> SUFFICES ASSUME i \notin 1..Len(smtp[s].users) PROVE FALSE
    OBVIOUS
  <2>2. /\ i - Len(smtp[s].users) \in 1..Len(smtp[s].remote)
        /\ Len(smtp[s].users) + (i - Len(smtp[s].users)) = i
    BY <1>1, Position
  <2>3. AllRecipients(s)[i] \in Address
    BY <2>2, Recipients
  <2> QED
    BY <2>3, Apart
<1>3. k \in 1..Len(smtp[s].users) /\ k # i
  <2>1. \A n \in Nat : i \in 1..n => k \in 1..n /\ k # i
    BY <1>1
  <2> QED
    BY <1>1, <1>2, <2>1
<1>4. smtp[s].users[k] # smtp[s].users[i]
  BY <1>2, <1>3, Current DEF Named, IsList, Distinct
<1> QED
  BY <1>2, <1>3, <1>4, Recipients

LEMMA SaveKeeps ==
  ASSUME Local, NEW s \in SmtpSessions, SaveMessage(s), smtp' # smtp
  PROVE  MailOf(s)' = MailOf(s) /\ AllRecipients(s)' = AllRecipients(s)
BY SaveStep DEF MailOf, AllRecipients, SameNames

\* What is left to show for a step that does not end SaveMessage.
LEMMA SavingMail ==
  ASSUME Local, NEW G, MailInv(G), StoreTyped', NEW s \in SmtpSessions,
         SaveMessage(s), smtp' # smtp, smtp'[s].step # "none",
         Evolves({MailOf(s)}, G, G), receipts' = receipts,
         Fresh(s, G)', Saved(s, G)', NoDuplicateCopies'
  PROVE  MailInv(G)'
<1>1. /\ Changes(s) /\ smtp[s].step # "none"
      /\ smtp'[s].mail = smtp[s].mail
  BY SaveStep
<1>2. Receives(smtp[s]) /\ smtp[s].state # "Done" /\ smtp[s].mail \in Nat
  BY <1>1, Saver
<1>3. Local'
  BY SaveLocal
<1>4. smtp[s].mail <= smtp'[s].mail
  BY <1>1, <1>2
<1>5. /\ \A mail : Known(mail) => Known(mail)'
      /\ Known(MailOf(s))
  BY <1>1, <1>2, <1>3, <1>4, KnownGrows
<1>6. \A r \in receipts : r.mail # MailOf(s)
  BY <1>2 DEF MailInv, Fresh
<1>7. Acknowledged(G)'
  BY <1>6, AcknowledgedEvolve DEF MailInv, Acknowledged, Promises
<1> QED
  BY <1>1, <1>5, <1>7, OwnStep

\* The lines that have been written.
LEMMA Prefix ==
  ASSUME NEW S, NEW lines \in Seq(S)
  PROVE  /\ SubSeq(lines, 1, 0) = <<>>
         /\ SubSeq(lines, 1, Len(lines)) = lines
         /\ \A j \in 1..Len(lines) :
              /\ SubSeq(lines, 1, j - 1) # lines
              /\ Append(SubSeq(lines, 1, j - 1), lines[j]) = SubSeq(lines, 1, j)
<1>1. SubSeq(lines, 1, 0) = <<>> /\ SubSeq(lines, 1, Len(lines)) = lines
  OBVIOUS
<1>2. ASSUME NEW j \in 1..Len(lines)
      PROVE  /\ Len(SubSeq(lines, 1, j - 1)) = j - 1
             /\ Append(SubSeq(lines, 1, j - 1), lines[j]) = SubSeq(lines, 1, j)
  OBVIOUS
<1>3. \A j \in 1..Len(lines) : j - 1 # Len(lines)
  OBVIOUS
<1> QED
  BY <1>1, <1>2, <1>3

\* A row of its own for the next recipient.
LEMMA RowStep ==
  ASSUME Local, NEW s \in SmtpSessions, SaveRow(s), smtp' # smtp
  PROVE  /\ nextID \in MsgID
         /\ smtp[s].step = "insert"
         /\ IsLocal(s) \/ IsRemote(s)
         /\ \E user \in UserID :
              messages' = [messages EXCEPT ![nextID] =
                [user |-> user, size |-> 0,
                 origin |-> Copy(MailOf(s), AllRecipients(s)[smtp[s].i])]]
         /\ nextID' = nextID + 1
         /\ UNCHANGED <<bodies, faults, receipts>>
<1>1. IsLocal(s) \/ (~IsLocal(s) /\ IsRemote(s) /\ MayRelay(s))
  BY DEF SaveRow
<1> DEFINE user == IF IsLocal(s) THEN Recipient(s) ELSE smtp[s].userID
<1>2. InsertMessage(user, [mail |-> MailOf(s), rcpt |-> Recipient(s)])
  BY DEF SaveRow
<1>3. Recipient(s) = AllRecipients(s)[smtp[s].i]
  BY <1>1, CurrentRecipient
<1>4. user \in UserID
  <2>1. CASE IsLocal(s)
    BY <2>1, CurrentRecipient
  <2>2. CASE ~IsLocal(s)
    BY <1>1, <2>2, Current DEF MayRelay, Typed
  <2> QED
    BY <2>1, <2>2
<1>5. [mail |-> MailOf(s), rcpt |-> Recipient(s)]
        = Copy(MailOf(s), AllRecipients(s)[smtp[s].i])
  BY <1>3 DEF Copy
<1> HIDE DEF user
<1>6. messages' = [messages EXCEPT ![nextID] =
         [user |-> user, size |-> 0,
          origin |-> Copy(MailOf(s), AllRecipients(s)[smtp[s].i])]]
  BY <1>2, <1>5 DEF InsertMessage
<1> QED
  BY <1>1, <1>2, <1>4, <1>6 DEF InsertMessage, Succeeds, SaveRow, Saving

\* The row is the first for this recipient, if he has an account, and nothing
\* of the mail has been acknowledged.
LEMMA RowIsNew ==
  ASSUME Local, NEW G, MailInv(G), NEW s \in SmtpSessions, SaveRow(s),
         smtp' # smtp,
         NEW copy, copy = Copy(MailOf(s), AllRecipients(s)[smtp[s].i])
  PROVE  /\ nextID \in MsgID
         /\ Rows' = Rows \cup {nextID}
         /\ messages'[nextID].origin = copy
         /\ \A id \in Rows : id # nextID /\ messages'[id] = messages[id]
         /\ copy.mail \in SmtpSessions \X (1..MaxMails)
         /\ copy.rcpt \in UserID \cup Address
         /\ copy.rcpt \in UserID => copy \notin Copies \cup G
         /\ \A r \in receipts : r.mail # copy.mail
         /\ UNCHANGED receipts
<1> DEFINE all == AllRecipients(s)
<1>1. PICK row \in [user : UserID, size : Nat, origin : {copy}] :
        messages' = [messages EXCEPT ![nextID] = row]
  BY RowStep
<1>2. /\ nextID \in MsgID /\ receipts' = receipts
      /\ smtp[s].step = "insert"
      /\ smtp[s].i \in 1..Len(all)
      /\ all[smtp[s].i] \in UserID \cup Address
  BY RowStep, CurrentRecipient
<1>3. /\ Receives(smtp[s]) /\ smtp[s].i \in Nat \ {0} /\ smtp[s].mail \in Nat
  BY <1>2, Saver
<1>4. MailOf(s) \in SmtpSessions \X (1..MaxMails)
  <2>1. smtp[s].mail # 0 /\ smtp[s].mail \in 0..MaxMails
    BY <1>3, Current DEF LinesInv, Typed
  <2>2. smtp[s].mail \in 1..MaxMails
    BY <2>1, Limits
  <2> QED
    BY <2>2 DEF MailOf
<1>5. /\ copy.mail = MailOf(s) /\ copy.rcpt = all[smtp[s].i]
      /\ row.origin = copy
      /\ row \in Row
  <2>1. MailOf(s) \in SmtpSessions \X Nat
    BY <1>3 DEF MailOf
  <2>2. copy \in [mail : SmtpSessions \X Nat, rcpt : UserID \cup Address]
    BY <1>2, <2>1 DEF Copy
  <2> QED
    BY <2>2 DEF Row, Copy
<1> HIDE DEF all
<1>6. /\ messages \in [MsgID -> Row \cup {NoRow}]
      /\ nextID \in Nat
      /\ \A id \in Rows : id < nextID
  BY DEF MailInv, StoreTyped
<1>7. /\ Rows' = Rows \cup {nextID}
      /\ messages'[nextID] = row
      /\ \A id \in Rows : id # nextID /\ messages'[id] = messages[id]
  <2>1. row # NoRow
    BY <1>5, Apart
  <2> QED
    BY <1>1, <1>2, <1>6, <2>1 DEF Rows
<1>8. ASSUME copy \in Copies \cup G
      PROVE  copy.rcpt \notin UserID
  <2>1. PICK k \in 1..(smtp[s].i - 1) : copy.rcpt = all[k]
    BY <1>2, <1>3, <1>5, <1>8 DEF MailInv, Fresh, Reached, all
  <2> QED
    BY <1>2, <1>5, <2>1, UsersOnce DEF all
<1>9. \A r \in receipts : r.mail # copy.mail
  BY <1>3, <1>5 DEF MailInv, Fresh
<1> QED
  BY <1>2, <1>4, <1>5, <1>7, <1>8, <1>9

LEMMA RowMail ==
  ASSUME Local, NEW G, MailInv(G), NEW s \in SmtpSessions, SaveRow(s),
         smtp' # smtp
  PROVE  MailInv(G)'
<1> DEFINE all == AllRecipients(s)
           copy == Copy(MailOf(s), all[smtp[s].i])
<1>1. PICK row \in [user : UserID, size : Nat, origin : {copy}] :
        messages' = [messages EXCEPT ![nextID] = row]
  BY RowStep
<1>2. /\ nextID \in MsgID /\ nextID' = nextID + 1
      /\ bodies' = bodies /\ faults' = faults /\ receipts' = receipts
      /\ smtp[s].step = "insert" /\ SaveMessage(s)
      /\ smtp[s].i \in 1..Len(all)
      /\ all[smtp[s].i] \in UserID \cup Address
  BY RowStep, CurrentRecipient DEF SaveMessage
<1>3. /\ MailOf(s)' = MailOf(s) /\ AllRecipients(s)' = all
      /\ smtp'[s].lines = smtp[s].lines
  BY <1>2, SaveKeeps, SaveStep
<1>4. /\ smtp'[s].step = "lines" /\ smtp'[s].i = smtp[s].i
      /\ smtp'[s].j = 1 /\ smtp'[s].id = nextID
  BY SaveRowPlace DEF Place
<1>5. /\ Receives(smtp[s]) /\ smtp[s].i \in Nat \ {0} /\ smtp[s].mail \in Nat
      /\ smtp[s].lines \in Seq(Line)
  BY <1>2, Saver
<1>6. /\ copy.mail = MailOf(s) /\ copy.rcpt = all[smtp[s].i]
      /\ row.origin = copy
      /\ row \in Row
  <2>1. MailOf(s) \in SmtpSessions \X Nat
    BY <1>5 DEF MailOf
  <2>2. copy \in [mail : SmtpSessions \X Nat, rcpt : UserID \cup Address]
    BY <1>2, <2>1 DEF Copy
  <2> QED
    BY <2>2 DEF Row, Copy
<1> HIDE DEF copy, all
<1>7. /\ messages \in [MsgID -> Row \cup {NoRow}]
      /\ nextID \in Nat /\ faults \in Nat
      /\ \A id \in Rows : id < nextID
  BY DEF MailInv, StoreTyped
<1>8. /\ Rows' = Rows \cup {nextID}
      /\ messages'[nextID] = row
      /\ \A id \in Rows : id # nextID /\ messages'[id] = messages[id]
  <2>1. row # NoRow
    BY <1>6, Apart
  <2> QED
    BY <1>1, <1>2, <1>7, <2>1 DEF Rows
<1>9. StoreTyped'
  <2>1. messages' \in [MsgID -> Row \cup {NoRow}]
    BY <1>1, <1>6, <1>7
  <2>2. \A id \in Rows' : id < nextID'
    BY <1>2, <1>7, <1>8 DEF MsgID, Rows
  <2>3. \A id \in MsgID : nextID' <= id => bodies'[id] = <<>>
    BY <1>2, <1>7 DEF MailInv, StoreTyped, MsgID
  <2> QED
    BY <1>2, <2>1, <2>2, <2>3 DEF MailInv, StoreTyped
<1>10. Evolves({MailOf(s)}, G, G)
  <2>1. nextID <= nextID'
    BY <1>2, <1>7
  <2> QED
    BY <1>2, <1>6, <1>8, <2>1 DEF Evolves
<1>11. Copies' = Copies \cup {copy}
  BY <1>6, <1>8 DEF Copies
<1>12. \A c \in Copies \cup G : c.mail = MailOf(s) =>
         \E k \in 1..(smtp[s].i - 1) : c.rcpt = all[k]
  BY <1>2, <1>5 DEF MailInv, Fresh, Reached, all
<1>13. Fresh(s, G)'
  <2>1. Reached(s)' = smtp[s].i
    BY <1>4 DEF Reached
  <2>2. \A r \in receipts' : r.mail # MailOf(s)
    BY <1>2, <1>5 DEF MailInv, Fresh
  <2>3. \A c \in Copies' \cup G : c.mail = MailOf(s) =>
          \E k \in 1..smtp[s].i : c.rcpt = all[k]
    <3>1. /\ smtp[s].i \in 1..smtp[s].i
          /\ \A k \in 1..(smtp[s].i - 1) : k \in 1..smtp[s].i
      BY <1>5
    <3> QED
      BY <1>6, <1>11, <1>12, <3>1
  <2> QED
    BY <1>3, <2>1, <2>2, <2>3 DEF Fresh
<1>14. Saved(s, G)'
  <2>1. Reached(s)' \in 0..Len(all)
    BY <1>2, <1>4 DEF Reached
  <2>2. ASSUME NEW k \in 1..(smtp[s].i - 1)
        PROVE  Held(s, k, G)'
    <3>1. Held(s, k, G)
      BY <1>2 DEF MailInv, Saved
    <3> QED
      BY <1>2, <1>3, <1>10, <3>1, HeldStays DEF MailInv, all
  <2>3. Begun(s, G)'
    <3>1. bodies'[nextID] = SubSeq(smtp[s].lines, 1, 0)
      BY <1>2, <1>5, <1>7, Prefix DEF MailInv, StoreTyped
    <3>2. nextID < nextID' /\ smtp'[s].j - 1 = 0
      BY <1>2, <1>4, <1>7
    <3>3. copy = Copy(MailOf(s)', AllRecipients(s)'[smtp'[s].i])
      BY <1>3, <1>4 DEF copy
    <3> QED
      BY <1>2, <1>3, <1>4, <1>6, <1>8, <3>1, <3>2, <3>3 DEF Begun
  <2>4. smtp'[s].j <= Len(smtp'[s].lines) + 1
    BY <1>3, <1>4, <1>5
  <2> QED
    BY <1>3, <1>4, <2>1, <2>2, <2>3, <2>4 DEF Saved
<1>15. NoDuplicateCopies'
  <2>1. copy.rcpt \in UserID => copy \notin Copies
    BY RowIsNew DEF copy, all
  <2> QED
    BY <1>6, <1>8, <2>1 DEF MailInv, NoDuplicateCopies, Copies
<1> QED
  BY <1>2, <1>4, <1>9, <1>10, <1>13, <1>14, <1>15, SavingMail

\* The INSERT that fails, and the ASSERTs: the sessions stay as they are.
LEMMA RowFailed ==
  ASSUME Local, NEW s \in SmtpSessions, SaveRow(s), smtp' = smtp
  PROVE  /\ messages' = messages /\ bodies' = bodies /\ nextID' = nextID
         /\ faults' \in {faults, faults + 1} /\ receipts' = receipts
<1>1. ~(smtp' = [smtp EXCEPT ![s].id = nextID, ![s].j = 1,
                             ![s].step = "lines"])
  <2>1. smtp[s].step = "insert"
    BY DEF SaveRow, Saving
  <2> QED
    BY <2>1, Current DEF IsMessage, Fields
<1>2. InsertMessageFails \/ Assertion("SaveMessage")
  BY <1>1 DEF SaveRow
<1>3. receipts' = receipts
  BY DEF SaveRow
<1>4. CASE InsertMessageFails
  <2>1. Fails /\ UNCHANGED <<messages, bodies, nextID>>
    BY <1>4, Zenon DEF InsertMessageFails
  <2> QED
    BY <1>3, <2>1 DEF Fails
<1>5. CASE Assertion("SaveMessage")
  BY <1>3, <1>5 DEF Assertion, store
<1> QED
  BY <1>2, <1>4, <1>5

LEMMA RowFails ==
  ASSUME NEW G, MailInv(G), NEW s \in SmtpSessions, SaveRow(s), smtp' = smtp,
         Local
  PROVE  MailInv(G)'
<1>1. /\ messages' = messages /\ bodies' = bodies /\ nextID' = nextID
      /\ faults' \in {faults, faults + 1} /\ receipts' = receipts
  BY RowFailed
<1>2. faults \in Nat
  BY DEF MailInv, StoreTyped
<1>3. Rows' = Rows
  BY <1>1 DEF Rows
<1>4. StoreTyped'
  <2>1. faults' \in Nat
    BY <1>1, <1>2
  <2> QED
    BY <1>1, <1>3, <2>1 DEF MailInv, StoreTyped
<1>5. Evolves({}, G, G)
  <2>1. nextID <= nextID' /\ (faults' = 0 => faults = 0)
    BY <1>1, <1>2 DEF MailInv, StoreTyped
  <2> QED
    BY <1>1, <1>3, <2>1 DEF Evolves
<1> QED
  BY <1>1, <1>4, <1>5, TakenMail

\* The other steps leave the rows and their origins.
SameRows ==
  /\ Rows' = Rows
  /\ \A id \in Rows : messages'[id].origin = messages[id].origin
  /\ nextID' = nextID
  /\ receipts' = receipts

LEMMA FreshStays ==
  ASSUME Local, NEW G, MailInv(G), NEW s \in SmtpSessions, SaveMessage(s),
         smtp' # smtp, SameRows, Reached(s)' = Reached(s)
  PROVE  Fresh(s, G)' /\ NoDuplicateCopies'
<1>1. Copies' = Copies
  BY DEF SameRows, Copies
<1>2. MailOf(s)' = MailOf(s) /\ AllRecipients(s)' = AllRecipients(s)
  BY SaveKeeps
<1>3. Receives(smtp[s])
  BY SaveStep, Saver
<1>4. NoDuplicateCopies'
  BY NoNewCopies DEF SameRows, MailInv
<1> QED
  BY <1>1, <1>2, <1>3, <1>4 DEF SameRows, MailInv, Fresh

\* A line, or none when the statement fails: of this copy and of no other that
\* the mail has.
LEMMA LineMail ==
  ASSUME Local, NEW G, MailInv(G), NEW s \in SmtpSessions, SaveLine(s)
  PROVE  MailInv(G)'
<1> DEFINE all == AllRecipients(s)
           copy == Copy(MailOf(s), all[smtp[s].i])
           id == smtp[s].id
           lines == smtp[s].lines
           j == smtp[s].j
<1>1. /\ smtp[s].step = "lines" /\ j <= Len(lines)
      /\ messages' = messages /\ nextID' = nextID /\ receipts' = receipts
      /\ \/ faults' = faults
            /\ bodies' = [bodies EXCEPT ![id] = Append(@, lines[j])]
         \/ faults' = faults + 1 /\ bodies' = bodies
  BY DEF SaveLine, Saving, InsertBodyLine, Succeeds, Fails
<1>2. Place(s, "Data", "lines", smtp[s].i, j + 1, id, smtp[s].size + 1)
  BY SaveLinePlace
<1>3. j \in 1..Len(lines) /\ lines \in Seq(Line) /\ j + 1 # j
      /\ smtp[s].i \in Nat \ {0}
  BY <1>1, Saver
<1>4. smtp' # smtp /\ SaveMessage(s)
  BY <1>2, <1>3 DEF Place, SaveMessage
<1>5. /\ MailOf(s)' = MailOf(s) /\ AllRecipients(s)' = all
      /\ smtp'[s].lines = lines
  BY <1>4, SaveKeeps, SaveStep
<1>6. /\ id \in MsgID /\ id < nextID
      /\ id \in Rows => messages[id].origin = copy
      /\ \/ copy \in G
         \/ /\ id \in Rows
            /\ faults = 0 => bodies[id] = SubSeq(lines, 1, j - 1)
  BY <1>1 DEF MailInv, Saved, Begun
<1>7. copy.mail = MailOf(s) /\ copy = Copy(MailOf(s)', AllRecipients(s)'[smtp[s].i])
  BY <1>5 DEF Copy
<1>8. /\ bodies \in [MsgID -> Seq(Line)] /\ faults \in Nat /\ nextID \in Nat
      /\ lines[j] \in Line
  BY <1>3 DEF MailInv, StoreTyped
<1> HIDE DEF all, copy, id, lines, j
<1>9. /\ \A x \in MsgID \ {id} : bodies'[x] = bodies[x]
      /\ faults' = 0 => faults = 0 /\ bodies'[id] = Append(bodies[id], lines[j])
      /\ bodies' \in [MsgID -> Seq(Line)] /\ faults' \in Nat
  <2>1. Append(bodies[id], lines[j]) \in Seq(Line)
    BY <1>6, <1>8
  <2>2. faults + 1 # 0 /\ faults + 1 \in Nat
    BY <1>8
  <2> QED
    BY <1>1, <1>6, <1>8, <2>1, <2>2
<1>10. SameRows
  BY <1>1 DEF SameRows, Rows
<1>11. StoreTyped'
  <2>1. \A x \in MsgID : nextID <= x => x # id
    BY <1>6, <1>8 DEF MsgID
  <2> QED
    BY <1>1, <1>9, <1>10, <2>1 DEF MailInv, StoreTyped, SameRows
<1>12. Evolves({MailOf(s)}, G, G)
  <2>1. nextID <= nextID'
    BY <1>1, <1>8
  <2>2. \A x \in Rows : x \in MsgID
    BY DEF Rows
  <2> QED
    BY <1>1, <1>6, <1>7, <1>9, <1>10, <2>1, <2>2 DEF Evolves, SameRows
<1>13. Reached(s)' = Reached(s) /\ Reached(s) = smtp[s].i
  BY <1>1, <1>2 DEF Reached, Place
<1>14. Saved(s, G)'
  <2>1. ASSUME NEW k \in 1..(smtp[s].i - 1)
        PROVE  Held(s, k, G)'
    <3>1. Held(s, k, G)
      BY <1>1 DEF MailInv, Saved
    <3>2. ASSUME NEW x \in Rows, bodies[x] = lines, faults' = 0,
                 bodies'[x] # bodies[x]
          PROVE  messages[x].origin \in G
      <4>1. x = id
        BY <1>9, <3>2 DEF Rows
      <4>2. bodies[x] # SubSeq(lines, 1, j - 1)
        BY <1>3, <3>2, Prefix
      <4> QED
        BY <1>6, <1>9, <3>2, <4>1, <4>2
    <3> QED
      BY <1>5, <1>12, <3>1, <3>2, HeldStays DEF MailInv, all, lines
  <2>2. Begun(s, G)'
    <3>1. faults' = 0 /\ bodies[id] = SubSeq(lines, 1, j - 1)
          => bodies'[id] = SubSeq(lines, 1, j)
      <4>1. Append(SubSeq(lines, 1, j - 1), lines[j]) = SubSeq(lines, 1, j)
        BY <1>3, Prefix
      <4> QED
        BY <1>9, <4>1
    <3>2. /\ smtp'[s].j - 1 = j /\ smtp'[s].id = id
          /\ smtp'[s].i = smtp[s].i
      BY <1>2, <1>3 DEF Place
    <3>3. SubSeq(smtp'[s].lines, 1, smtp'[s].j - 1) = SubSeq(lines, 1, j)
      BY <1>5, <3>2
    <3> QED
      BY <1>1, <1>5, <1>6, <1>7, <1>9, <1>10, <3>1, <3>2, <3>3
         DEF Begun, SameRows
  <2>3. smtp'[s].j <= Len(smtp'[s].lines) + 1
    BY <1>2, <1>3, <1>5 DEF Place
  <2>4. Reached(s)' \in 0..Len(all)
    BY <1>1, <1>13 DEF MailInv, Saved, all
  <2> QED
    BY <1>2, <1>5, <2>1, <2>2, <2>3, <2>4 DEF Saved, Place
<1>15. Fresh(s, G)' /\ NoDuplicateCopies'
  BY <1>4, <1>10, <1>13, FreshStays
<1>16. smtp'[s].step # "none" /\ receipts' = receipts
  BY <1>1, <1>2 DEF Place
<1> QED
  BY <1>4, <1>11, <1>12, <1>14, <1>15, <1>16, SavingMail

\* The Outgoing row, and the size.
SizeOrOutgoing(s) ==
  \/ InsertOutgoing(smtp[s].id, Recipient(s))
  \/ UpdateMessageSize(smtp[s].id, smtp[s].size)

LEMMA SizeStored ==
  ASSUME Local, NEW G, MailInv(G), NEW s \in SmtpSessions, SizeOrOutgoing(s),
         UNCHANGED receipts
  PROVE  /\ SameRows /\ StoreTyped' /\ Evolves({}, G, G)
         /\ bodies' = bodies
<1>1. /\ bodies' = bodies /\ nextID' = nextID /\ receipts' = receipts
      /\ faults' \in {faults, faults + 1}
  BY DEF SizeOrOutgoing, InsertOutgoing, UpdateMessageSize, Succeeds, Fails
<1>2. /\ messages \in [MsgID -> Row \cup {NoRow}] /\ faults \in Nat
      /\ nextID \in Nat \ {0}
  BY DEF MailInv, StoreTyped
<1>3. /\ messages' \in [MsgID -> Row \cup {NoRow}]
      /\ SameRows
  <2>1. CASE messages' = messages
    BY <1>1, <1>2, <2>1 DEF SameRows, Rows
  <2>2. CASE messages' # messages
    <3>1. /\ smtp[s].id \in Rows
          /\ messages' = [messages EXCEPT ![smtp[s].id].size = smtp[s].size]
      BY <2>2 DEF SizeOrOutgoing, InsertOutgoing, UpdateMessageSize
    <3> DEFINE id == smtp[s].id
    <3>2. PICK row : row = [messages[id] EXCEPT !.size = smtp[s].size]
      OBVIOUS
    <3>3. messages' = [messages EXCEPT ![id] = row]
      BY <3>1, <3>2
    <3>4. messages[id] \in Row /\ id \in MsgID /\ smtp[s].size \in Nat
      BY <1>2, <3>1, Current DEF Rows, Typed
    <3>5. row \in Row /\ row.origin = messages[id].origin
      BY <3>2, <3>4 DEF Row
    <3>6. row # NoRow
      BY <3>5, Apart
    <3> HIDE DEF id
    <3>7. messages' \in [MsgID -> Row \cup {NoRow}]
      BY <1>2, <3>3, <3>5
    <3>8. /\ messages[id] # NoRow /\ messages'[id] = row
          /\ \A x \in MsgID \ {id} : messages'[x] = messages[x]
      BY <1>2, <3>1, <3>3, <3>4 DEF Rows, id
    <3>9. Rows' = Rows /\ \A x \in Rows : messages'[x].origin = messages[x].origin
      BY <3>5, <3>6, <3>8 DEF Rows
    <3> QED
      BY <1>1, <3>7, <3>9 DEF SameRows
  <2> QED
    BY <2>1, <2>2
<1>4. StoreTyped'
  <2>1. faults' \in Nat
    BY <1>1, <1>2
  <2> QED
    BY <1>1, <1>3, <2>1 DEF MailInv, StoreTyped, SameRows
<1>5. Evolves({}, G, G)
  <2>1. nextID <= nextID' /\ (faults' = 0 => faults = 0)
    BY <1>1, <1>2
  <2> QED
    BY <1>1, <1>3, <2>1 DEF Evolves, SameRows
<1> QED
  BY <1>1, <1>3, <1>4, <1>5

\* When SaveMessage comes to them, the copy has all its lines.
LEMMA WrittenOut ==
  ASSUME Local, NEW G, MailInv(G), NEW s \in SmtpSessions,
         SaveOutgoing(s) \/ SaveSize(s)
  PROVE  /\ SameRows /\ StoreTyped' /\ Evolves({}, G, G)
         /\ bodies' = bodies
         /\ smtp[s].step \in {"lines", "size"}
         /\ smtp[s].j = Len(smtp[s].lines) + 1
<1>1. SameRows /\ StoreTyped' /\ Evolves({}, G, G) /\ bodies' = bodies
  BY SizeStored DEF SaveOutgoing, SaveSize, SizeOrOutgoing
<1>6. /\ smtp[s].step \in {"lines", "size"}
      /\ smtp[s].step = "lines" => smtp[s].j > Len(smtp[s].lines)
  BY DEF SaveOutgoing, SaveSize, Saving
<1>7. /\ smtp[s].j <= Len(smtp[s].lines) + 1
      /\ smtp[s].step = "size" => smtp[s].j = Len(smtp[s].lines) + 1
  BY <1>6 DEF MailInv, Saved
<1>8. smtp[s].j = Len(smtp[s].lines) + 1
  <2>1. Len(smtp[s].lines) \in Nat /\ smtp[s].j \in Nat
    BY <1>6, Saver
  <2>2. \A n, j \in Nat : j > n /\ j <= n + 1 => j = n + 1
    OBVIOUS
  <2> QED
    BY <1>6, <1>7, <2>1, <2>2
<1> QED
  BY <1>1, <1>6, <1>8

\* Evolving without copies of one's own is a special case.
LEMMA EvolvesMore ==
  ASSUME NEW G, NEW H, Evolves({}, G, H), NEW own
  PROVE  Evolves(own, G, H)
BY DEF Evolves

\* ~Message in the middle of SaveMessage.
LEMMA DestroyedStep ==
  ASSUME Local, NEW G, MailInv(G), NEW s \in SmtpSessions,
         DestroyedWhileSaving(s)
  PROVE  \/ UNCHANGED <<store, smtp, receipts>>
         \/ /\ smtp[s].step # "none" /\ receipts' = receipts
            /\ smtp' = [smtp EXCEPT ![s] = GoneMessage]
            /\ UNCHANGED store \/ SizeOrOutgoing(s)
BY DEF DestroyedWhileSaving, SizeOrOutgoing, Assertion, Keep

LEMMA DestroyedMail ==
  ASSUME Local, NEW G, MailInv(G), NEW s \in SmtpSessions,
         smtp[s].step # "none", receipts' = receipts,
         smtp' = [smtp EXCEPT ![s] = GoneMessage],
         UNCHANGED store \/ SizeOrOutgoing(s),
         Local'
  PROVE  MailInv(G)'
<1>1. StoreTyped' /\ Evolves({}, G, G) /\ SameRows
  <2>1. CASE UNCHANGED store
    BY <2>1, StoreKept DEF MailInv, SameRows, store
  <2>2. CASE SizeOrOutgoing(s)
    BY <2>2, SizeStored
  <2> QED
    BY <2>1, <2>2
<1>2. Evolves({MailOf(s)}, G, G) /\ Promises' = Promises
  BY <1>1, EvolvesMore DEF Promises
<1>3. /\ Changes(s) /\ smtp'[s].state = "Done" /\ smtp'[s].step = "none"
      /\ ~Receives(smtp'[s])
  BY GoneStep DEF Receives
<1>4. Receives(smtp[s]) /\ smtp[s].state # "Done"
  BY Saver
<1> QED
  BY <1>1, <1>2, <1>3, <1>4, RestMail DEF SameRows

LEMMA EmptyDotStep ==
  ASSUME Local, NEW s \in SmtpSessions, EmptyDot(s)
  PROVE  /\ Changes(s) /\ UNCHANGED store
         /\ Receives(smtp[s]) /\ smtp[s].state # "Done"
         /\ smtp'[s].state = "Waiting" /\ smtp'[s].step = "none"
         /\ smtp'[s].mail = smtp[s].mail
         /\ Promises' = Promises
         /\ \A r \in receipts' : r \in receipts \/ r.mail = MailOf(s)
<1>1. receipts' = receipts \cup Receipts(s) /\ smtp[s].lines = <<>>
  BY DotStep DEF EmptyDot
<1>2. ASSUME NEW r \in Receipts(s)
      PROVE  r.mail = MailOf(s) /\ ~r.saved
  <2>1. PICK rcpt, saved :
          /\ r = [mail |-> MailOf(s), rcpt |-> rcpt, n |-> smtp[s].sent,
                  saved |-> saved]
          /\ saved = (smtp[s].lines # <<>>)
    BY DEF Receipts
  <2>2. ~saved
    BY <1>1, <2>1
  <2> QED
    BY <2>1, <2>2
<1>3. Promises' = Promises
  BY <1>1, <1>2 DEF Promises
<1> QED
  BY <1>1, <1>2, <1>3, DotStep
     DEF EmptyDot, SamePlace, SameLines, Receives

LEMMA EmptyDotMail ==
  ASSUME Local, NEW G, MailInv(G), NEW s \in SmtpSessions, EmptyDot(s)
  PROVE  MailInv(G)'
<1>1. /\ messages' = messages /\ bodies' = bodies /\ nextID' = nextID
      /\ faults' = faults /\ Rows' = Rows
  BY EmptyDotStep DEF store, Rows
<1>2. StoreTyped'
  BY <1>1 DEF MailInv, StoreTyped
<1>3. Evolves({MailOf(s)}, G, G)
  <2>1. nextID <= nextID'
    BY <1>1 DEF MailInv, StoreTyped
  <2> QED
    BY <1>1, <2>1, EmptyDotStep DEF Evolves
<1>4. Local' /\ ~Receives(smtp'[s])
  BY DotLocal, EmptyDotStep DEF EmptyDot, Receives
<1> QED
  BY <1>1, <1>2, <1>3, <1>4, EmptyDotStep, RestMail

LEMMA SenderMail ==
  ASSUME Local, NEW G, MailInv(G), NEW s \in SmtpSessions, Sender(s)
  PROVE  MailInv(G)'
<1>1. CASE Quiet(s)
  BY <1>1, SenderLocal, QuietMail
<1>2. CASE UNCHANGED <<store, smtp, receipts>>
  <2>1. StoreTyped' /\ Evolves({}, G, G)
    BY <1>2, StoreKept DEF MailInv
  <2> QED
    BY <1>2, <2>1, TakenMail
<1>3. CASE EmptyDot(s)
  BY <1>3, EmptyDotMail
<1>4. CASE DestroyedWhileSaving(s)
  BY <1>2, <1>4, DestroyedStep, DestroyedMail, SenderLocal
<1> QED
  BY <1>1, <1>2, <1>3, <1>4, SenderQuiet

LEMMA HeldWritten ==
  ASSUME Local, NEW G, MailInv(G), NEW s \in SmtpSessions,
         SaveOutgoing(s) \/ SaveSize(s), smtp' # smtp,
         NEW k \in 1..(smtp[s].i - 1)
  PROVE  Held(s, k, G)'
<1>1. /\ Evolves({}, G, G) /\ bodies' = bodies
      /\ smtp[s].step # "none"
  BY WrittenOut
<1>2. /\ MailOf(s)' = MailOf(s) /\ AllRecipients(s)' = AllRecipients(s)
      /\ smtp'[s].lines = smtp[s].lines
  BY SaveKeeps, SaveStep DEF SaveMessage
<1>3. Held(s, k, G) /\ StoreTyped
  BY <1>1 DEF MailInv, Saved
<1> QED
  BY <1>1, <1>2, <1>3, HeldStays

LEMMA OutgoingMail ==
  ASSUME Local, NEW G, MailInv(G), NEW s \in SmtpSessions, SaveOutgoing(s)
  PROVE  MailInv(G)'
<1>1. /\ SameRows /\ StoreTyped' /\ Evolves({}, G, G)
      /\ bodies' = bodies /\ (faults' = 0 => faults = 0)
      /\ smtp[s].step = "lines"
      /\ smtp[s].j = Len(smtp[s].lines) + 1
  <2>1. smtp[s].step = "lines"
    BY DEF SaveOutgoing, Saving
  <2> QED
    BY <2>1, WrittenOut DEF Evolves
<1>2. Place(s, "Data", "size", smtp[s].i, smtp[s].j, smtp[s].id, smtp[s].size)
  BY SaveOutgoingPlace
<1>3. smtp' # smtp /\ SaveMessage(s)
  BY <1>1, <1>2 DEF Place, SaveMessage
<1>4. /\ MailOf(s)' = MailOf(s) /\ AllRecipients(s)' = AllRecipients(s)
      /\ smtp'[s].lines = smtp[s].lines
  BY <1>3, SaveKeeps, SaveStep
<1>5. Reached(s)' = Reached(s) /\ Reached(s) = smtp[s].i
  BY <1>1, <1>2 DEF Reached, Place
<1>6. Begun(s, G)'
  <2>1. Begun(s, G)
    BY <1>1 DEF MailInv, Saved
  <2>2. /\ smtp'[s].i = smtp[s].i /\ smtp'[s].j = smtp[s].j
        /\ smtp'[s].id = smtp[s].id
    BY <1>2 DEF Place
  <2> QED
    BY <1>1, <1>4, <2>1, <2>2 DEF Begun, SameRows
<1>7. Saved(s, G)'
  <2>1. \A k \in 1..(smtp[s].i - 1) : Held(s, k, G)'
    BY <1>3, HeldWritten
  <2>2. Reached(s)' \in 0..Len(AllRecipients(s))
    BY <1>1, <1>5 DEF MailInv, Saved
  <2>3. smtp'[s].j = Len(smtp'[s].lines) + 1 /\ smtp[s].j <= smtp[s].j
    BY <1>1, <1>2, <1>3, <1>4, SaveStep, Saver DEF Place
  <2> QED
    BY <1>1, <1>2, <1>4, <1>6, <2>1, <2>2, <2>3 DEF Saved, Place
<1>8. Fresh(s, G)' /\ NoDuplicateCopies'
  BY <1>1, <1>3, <1>5, FreshStays
<1>9. Evolves({MailOf(s)}, G, G) /\ receipts' = receipts
  BY <1>1, EvolvesMore DEF SameRows
<1>10. smtp'[s].step # "none"
  BY <1>2 DEF Place
<1> QED
  BY <1>1, <1>3, <1>7, <1>8, <1>9, <1>10, SavingMail

\* The next recipient: the copy of this one is complete.
LEMMA SizeMail ==
  ASSUME Local, NEW G, MailInv(G), NEW s \in SmtpSessions, SaveSize(s)
  PROVE  MailInv(G)'
<1>0. PICK i : i = smtp[s].i
  OBVIOUS
<1>1. /\ SameRows /\ StoreTyped' /\ Evolves({}, G, G)
      /\ bodies' = bodies /\ (faults' = 0 => faults = 0)
      /\ smtp[s].step \in {"lines", "size"}
      /\ smtp[s].j = Len(smtp[s].lines) + 1
  BY WrittenOut DEF Evolves
<1>2. Place(s, "Data", "insert", i + 1, smtp[s].j, smtp[s].id, smtp[s].size)
  BY <1>0, SaveSizePlace
<1>3. smtp' # smtp /\ SaveMessage(s)
  BY <1>1, <1>2 DEF Place, SaveMessage
<1>4. /\ MailOf(s)' = MailOf(s) /\ AllRecipients(s)' = AllRecipients(s)
      /\ smtp'[s].lines = smtp[s].lines
  BY <1>3, SaveKeeps, SaveStep
<1>5. i \in Nat \ {0} /\ i + 1 - 1 = i /\ smtp[s].lines \in Seq(Line)
  BY <1>0, <1>1, Saver
<1>6. Reached(s)' = Reached(s) /\ Reached(s) = i
  BY <1>0, <1>1, <1>2, <1>5 DEF Reached, Place
<1>7. Held(s, i, G)'
  <2> DEFINE copy == Copy(MailOf(s), AllRecipients(s)[i])
  <2>1. Begun(s, G)
    BY <1>1 DEF MailInv, Saved
  <2>2. SubSeq(smtp[s].lines, 1, smtp[s].j - 1) = smtp[s].lines
    <3>1. smtp[s].j - 1 = Len(smtp[s].lines)
      BY <1>1, <1>5
    <3> QED
      BY <1>5, <3>1, Prefix
  <2>3. copy = Copy(MailOf(s)', AllRecipients(s)'[i])
    BY <1>4
  <2>4. \/ copy \in G
        \/ \E id \in Rows : /\ messages[id].origin = copy
                            /\ faults = 0 => bodies[id] = smtp[s].lines
    BY <1>0, <2>1, <2>2 DEF Begun
  <2> QED
    BY <1>1, <1>4, <2>3, <2>4 DEF Held, SameRows
<1>8. Saved(s, G)'
  <2>1. ASSUME NEW k \in 1..i
        PROVE  Held(s, k, G)'
    <3>1. k = i \/ k \in 1..(smtp[s].i - 1)
      BY <1>0, <1>5
    <3> QED
      BY <1>3, <1>7, <3>1, HeldWritten
  <2>2. Reached(s)' \in 0..Len(AllRecipients(s))
    BY <1>1, <1>6 DEF MailInv, Saved
  <2> QED
    BY <1>2, <1>4, <1>5, <2>1, <2>2 DEF Saved, Place
<1>9. Fresh(s, G)' /\ NoDuplicateCopies'
  BY <1>1, <1>3, <1>6, FreshStays
<1>10. Evolves({MailOf(s)}, G, G) /\ receipts' = receipts
  BY <1>1, EvolvesMore DEF SameRows
<1>11. smtp'[s].step # "none"
  BY <1>2 DEF Place
<1> QED
  BY <1>1, <1>3, <1>8, <1>9, <1>10, <1>11, SavingMail

\* When SaveMessage is through, everybody who was promised it has a copy.
LEMMA DoneHeld ==
  ASSUME Local, NEW G, MailInv(G), NEW s \in SmtpSessions, SaveDone(s),
         NEW r \in smtp[s].promised
  PROVE  \E k \in 1..Len(AllRecipients(s)) :
           r = AllRecipients(s)[k] /\ Held(s, k, G)
<1>1. smtp[s].step = "insert" /\ ~IsLocal(s) /\ ~IsRemote(s)
  BY DEF SaveDone, Saving
<1>2. /\ smtp[s].i \in Nat \ {0}
      /\ smtp[s].users \in Seq(UserID) /\ smtp[s].remote \in Seq(Address)
  BY <1>1, Saver
<1>3. \A k \in 1..Len(AllRecipients(s)) : k \in 1..(smtp[s].i - 1)
  <2>1. /\ Len(smtp[s].users) \in Nat /\ Len(smtp[s].remote) \in Nat
        /\ Len(AllRecipients(s)) = Len(smtp[s].users) + Len(smtp[s].remote)
    BY Recipients
  <2>2. ~(smtp[s].i <= Len(smtp[s].users) + Len(smtp[s].remote))
    <3>1. CASE smtp[s].remote = <<>>
      <4>1. Len(smtp[s].remote) = 0
        BY <3>1
      <4> QED
        BY <1>1, <2>1, <4>1 DEF IsLocal
    <3>2. CASE smtp[s].remote # <<>>
      BY <1>1, <3>2 DEF IsRemote
    <3> QED
      BY <3>1, <3>2
  <2> DEFINE n == Len(smtp[s].users)
             m == Len(smtp[s].remote)
             i == smtp[s].i
  <2>3. n \in Nat /\ m \in Nat /\ i \in Nat \ {0} /\ ~(i <= n + m)
    BY <1>2, <2>1, <2>2
  <2> HIDE DEF n, m, i
  <2>4. \A k \in 1..(n + m) : k \in 1..(i - 1)
    BY <2>3
  <2> QED
    BY <2>1, <2>4 DEF n, m, i
<1>4. r \in ToSet(AllRecipients(s))
  <2>1. smtp[s].promised \subseteq ToSet(smtp[s].users) \cup ToSet(smtp[s].remote)
    BY Current DEF Named
  <2>2. ToSet(AllRecipients(s))
          = ToSet(smtp[s].users) \cup ToSet(smtp[s].remote)
    BY <1>2, ConcatSet DEF AllRecipients
  <2> QED
    BY <2>1, <2>2
<1>5. PICK k \in 1..Len(AllRecipients(s)) : r = AllRecipients(s)[k]
  <2>1. DOMAIN AllRecipients(s) = 1..Len(AllRecipients(s))
    <3>1. \A users \in Seq(UserID), remote \in Seq(Address) :
            DOMAIN (users \o remote) = 1..Len(users \o remote)
      OBVIOUS
    <3> QED
      BY <1>2, <3>1 DEF AllRecipients
  <2> QED
    BY <1>4, <2>1 DEF ToSet
<1>6. Held(s, k, G)
  BY <1>1, <1>3 DEF MailInv, Saved
<1> QED
  BY <1>5, <1>6

\* The 250: every recipient has his copy, with all lines of the mail.
LEMMA DoneMail ==
  ASSUME Local, NEW G, MailInv(G), NEW s \in SmtpSessions, SaveDone(s)
  PROVE  MailInv(G)'
<1>1. /\ smtp[s].step = "insert" /\ ~IsLocal(s) /\ ~IsRemote(s)
      /\ messages' = messages /\ bodies' = bodies /\ nextID' = nextID
      /\ faults' = faults /\ receipts' = receipts \cup Receipts(s)
  BY DEF SaveDone, Saving, Keep, store
<1>2. Place(s, "Waiting", "none", smtp[s].i, smtp[s].j, 0, 0)
  BY SaveDonePlace
<1>3. smtp' # smtp /\ SaveMessage(s)
  BY <1>1, <1>2 DEF Place, SaveMessage
<1>4. /\ Changes(s) /\ smtp'[s].mail = smtp[s].mail
      /\ smtp[s].mail \in Nat /\ smtp[s].state # "Done"
      /\ Receives(smtp[s]) /\ smtp[s].i \in Nat \ {0}
      /\ smtp[s].remote \in Seq(Address)
  BY <1>1, <1>3, SaveStep, Saver
<1>5. Local'
  BY <1>3, SaveLocal
<1>6. /\ \A mail : Known(mail) => Known(mail)'
      /\ Known(MailOf(s))
  <2>1. smtp[s].mail <= smtp'[s].mail
    BY <1>4
  <2> QED
    BY <1>4, <1>5, <2>1, KnownGrows
<1>7. Rows' = Rows
  BY <1>1 DEF Rows
<1>8. StoreTyped'
  BY <1>1, <1>7 DEF MailInv, StoreTyped
<1>9. \A r \in Receipts(s) :
        /\ r.mail = MailOf(s) /\ r.rcpt \in smtp[s].promised
        /\ r.n = smtp[s].sent
  BY DEF Receipts
<1>10. Evolves({MailOf(s)}, G, G)
  <2>1. nextID <= nextID'
    BY <1>1 DEF MailInv, StoreTyped
  <2> QED
    BY <1>1, <1>7, <1>9, <2>1 DEF Evolves
<1>11. Fresh(s, G)' /\ Saved(s, G)'
  BY <1>2 DEF Place, Fresh, Saved, Receives
<1>12. ASSUME NEW r \in Receipts(s), faults = 0
       PROVE  Copy(r.mail, r.rcpt) \in G \/ \E id \in MsgID : Complete(id, r)
  <2>1. PICK k \in 1..Len(AllRecipients(s)) :
          r.rcpt = AllRecipients(s)[k] /\ Held(s, k, G)
    BY <1>9, DoneHeld
  <2>2. Copy(r.mail, r.rcpt) = Copy(MailOf(s), AllRecipients(s)[k])
    BY <1>9, <2>1
  <2>3. EndsWith(smtp[s].lines, r.mail, r.n)
    BY <1>4, <1>9, Current DEF LinesInv, MailOf
  <2> QED
    BY <1>12, <2>1, <2>2, <2>3 DEF Held, Complete, Copy, Rows
<1>13. \A id, r : Complete(id, r)' = Complete(id, r)
  BY <1>1, <1>7 DEF Complete
<1>14. Acknowledged(G)'
  BY <1>1, <1>12, <1>13 DEF MailInv, Acknowledged, Promises
<1>15. NoDuplicateCopies'
  BY <1>1, <1>7 DEF MailInv, NoDuplicateCopies
<1> QED
  BY <1>4, <1>6, <1>8, <1>10, <1>11, <1>14, <1>15, OwnStep

------------------------------------------------------------------------------
LEMMA SaveMail ==
  ASSUME Local, NEW G, MailInv(G), NEW s \in SmtpSessions, SaveMessage(s)
  PROVE  MailInv(G)'
BY RowMail, RowFails, LineMail, OutgoingMail, SizeMail, DoneMail
   DEF SaveMessage

LEMMA InitMail == InitStore /\ InitMessage => MailInv({})
<1> SUFFICES ASSUME InitStore, InitMessage PROVE MailInv({})
  OBVIOUS
<1>1. Rows = {} /\ Copies = {} /\ receipts = {} /\ nextID = 1 /\ faults = 0
  BY DEF InitStore, InitMessage, Rows, Copies
<1>2. StoreTyped
  <2>1. <<>> \in Seq(Line)
    OBVIOUS
  <2> QED
    BY <1>1, <2>1 DEF StoreTyped, InitStore
<1>3. \A s \in SmtpSessions : smtp[s].step = "none" /\ ~Receives(smtp[s])
  BY DEF InitMessage, NewMessage, Receives
<1>4. \A s \in SmtpSessions : Fresh(s, {}) /\ Saved(s, {})
  BY <1>3 DEF Fresh, Saved
<1>5. Promises = {}
  BY <1>1 DEF Promises
<1> QED
  BY <1>1, <1>2, <1>4, <1>5
     DEF MailInv, Numbered, Acknowledged, NoDuplicateCopies

------------------------------------------------------------------------------
(***************************************************************************)
(* What the sessions do to the rows: one is added under the next number,   *)
(* and none is taken, nor are the lines of one.                            *)
(***************************************************************************)
KeepsRows ==
  /\ nextID <= nextID'
  /\ Rows' \subseteq Rows \cup {nextID}
  /\ \A id \in Rows :
       /\ id \in Rows'
       /\ messages'[id].user = messages[id].user
       /\ messages'[id].origin = messages[id].origin
       /\ bodies[id] # <<>> => bodies'[id] # <<>>

LEMMA SameStore == StoreTyped /\ UNCHANGED store => KeepsRows
BY DEF StoreTyped, store, KeepsRows, Rows

LEMMA SizeRows ==
  ASSUME Local, NEW G, MailInv(G), NEW s \in SmtpSessions, SizeOrOutgoing(s),
         UNCHANGED receipts
  PROVE  KeepsRows
<1>1. SameRows /\ bodies' = bodies /\ nextID \in Nat
  BY SizeStored DEF MailInv, StoreTyped
<1>2. ASSUME NEW id \in Rows
      PROVE  messages'[id].user = messages[id].user
  <2>1. \/ messages' = messages
        \/ messages' = [messages EXCEPT ![smtp[s].id].size = smtp[s].size]
    BY DEF SizeOrOutgoing, InsertOutgoing, UpdateMessageSize
  <2>2. /\ messages \in [MsgID -> Row \cup {NoRow}] /\ id \in MsgID
        /\ messages[id] \in Row
    BY DEF MailInv, StoreTyped, Rows
  <2>3. PICK row : row = [messages[smtp[s].id] EXCEPT !.size = smtp[s].size]
    OBVIOUS
  <2>4. smtp[s].id = id => row.user = messages[id].user
    BY <2>2, <2>3 DEF Row
  <2>5. \/ messages' = messages
        \/ messages' = [messages EXCEPT ![smtp[s].id] = row]
    BY <2>1, <2>3
  <2> QED
    BY <2>2, <2>4, <2>5
<1> QED
  BY <1>1, <1>2 DEF KeepsRows, SameRows

LEMMA SaveRows ==
  ASSUME Local, NEW G, MailInv(G), NEW s \in SmtpSessions, SaveMessage(s)
  PROVE  KeepsRows
<1>1. StoreTyped
  BY DEF MailInv
<1>2. CASE SaveRow(s) /\ smtp' = smtp
  <2>1. messages' = messages /\ bodies' = bodies /\ nextID' = nextID
    BY <1>2, RowFailed
  <2> QED
    BY <1>1, <2>1 DEF StoreTyped, KeepsRows, Rows
<1>3. CASE SaveRow(s) /\ smtp' # smtp
  <2>1. PICK row : /\ messages' = [messages EXCEPT ![nextID] = row]
                   /\ nextID' = nextID + 1 /\ bodies' = bodies
    BY <1>3, RowStep
  <2>2. \A id \in MsgID \ {nextID} : messages'[id] = messages[id]
    BY <1>1, <2>1 DEF StoreTyped
  <2>3. nextID \notin Rows /\ nextID <= nextID'
    BY <1>1, <2>1 DEF StoreTyped
  <2> QED
    BY <2>1, <2>2, <2>3 DEF KeepsRows, Rows
<1>4. CASE SaveLine(s)
  <2>1. /\ messages' = messages /\ nextID' = nextID
        /\ \/ bodies' = bodies
           \/ bodies' = [bodies EXCEPT ![smtp[s].id] =
                           Append(@, smtp[s].lines[smtp[s].j])]
    BY <1>4 DEF SaveLine, InsertBodyLine
  <2>2. bodies \in [MsgID -> Seq(Line)] /\ nextID \in Nat
    BY <1>1 DEF StoreTyped
  <2>3. smtp[s].lines[smtp[s].j] \in Line
    <3>1. smtp[s].step = "lines" /\ smtp[s].j <= Len(smtp[s].lines)
      BY <1>4 DEF SaveLine, Saving
    <3>2. smtp[s].lines \in Seq(Line) /\ smtp[s].j \in Nat \ {0}
      BY <3>1, Saver
    <3> QED
      BY <3>1, <3>2
  <2>4. ASSUME NEW lines \in Seq(Line), NEW line \in Line
        PROVE  Append(lines, line) # <<>>
    <3>1. Len(Append(lines, line)) = Len(lines) + 1 /\ Len(lines) \in Nat
      OBVIOUS
    <3>2. Len(<<>>) = 0
      OBVIOUS
    <3>3. Len(lines) + 1 # 0
      BY <3>1
    <3> QED
      BY <3>1, <3>2, <3>3
  <2>5. \A id \in MsgID : bodies[id] # <<>> => bodies'[id] # <<>>
    BY <2>1, <2>2, <2>3, <2>4
  <2> QED
    BY <2>1, <2>2, <2>5 DEF KeepsRows, Rows
<1>5. CASE SaveOutgoing(s) \/ SaveSize(s)
  BY <1>5, SizeRows DEF SaveOutgoing, SaveSize, SizeOrOutgoing
<1>6. CASE SaveDone(s)
  BY <1>1, <1>6, SameStore DEF SaveDone, Keep
<1> QED
  BY <1>2, <1>3, <1>4, <1>5, <1>6 DEF SaveMessage

\* The other statements add no row, and the 250 comes once, after the last copy.
LEMMA OtherStatements ==
  ASSUME Local, NEW G, MailInv(G), NEW s \in SmtpSessions,
         \/ SaveRow(s) /\ smtp' = smtp
         \/ SaveLine(s) \/ SaveOutgoing(s) \/ SaveSize(s)
  PROVE  /\ Rows' = Rows
         /\ \A id \in Rows : messages'[id].origin = messages[id].origin
         /\ UNCHANGED receipts
<1>1. CASE SaveRow(s) /\ smtp' = smtp
  BY <1>1, RowFailed DEF Rows
<1>2. CASE SaveLine(s)
  BY <1>2 DEF SaveLine, InsertBodyLine, Rows
<1>3. CASE SaveOutgoing(s) \/ SaveSize(s)
  BY <1>3, WrittenOut DEF SameRows
<1> QED
  BY <1>1, <1>2, <1>3

LEMMA DoneOnce ==
  ASSUME Local, NEW G, MailInv(G), NEW s \in SmtpSessions, SaveDone(s)
  PROVE  /\ MailOf(s) \in SmtpSessions \X (1..MaxMails)
         /\ \A r \in receipts : r.mail # MailOf(s)
         /\ smtp[s].promised \subseteq UserID \cup Address
         /\ \A r \in smtp[s].promised : Copy(MailOf(s), r) \in Copies \cup G
         /\ UNCHANGED store
         /\ receipts' = receipts \cup Receipts(s)
         /\ smtp[s].lines # <<>>
<1>1. /\ smtp[s].step = "insert" /\ UNCHANGED store
      /\ receipts' = receipts \cup Receipts(s)
  BY DEF SaveDone, Saving, Keep
<1>2. Receives(smtp[s])
  BY <1>1, Saver
<1>3. MailOf(s) \in SmtpSessions \X (1..MaxMails)
  <2>1. smtp[s].mail # 0 /\ smtp[s].mail \in 0..MaxMails
    BY <1>2, Current DEF LinesInv, Typed
  <2>2. smtp[s].mail \in 1..MaxMails
    BY <2>1, Limits
  <2> QED
    BY <2>2 DEF MailOf
<1>4. \A r \in receipts : r.mail # MailOf(s)
  BY <1>2 DEF MailInv, Fresh
<1>5. smtp[s].promised \subseteq UserID \cup Address
  <2>1. /\ smtp[s].promised \subseteq ToSet(smtp[s].users) \cup ToSet(smtp[s].remote)
        /\ smtp[s].users \in Seq(UserID) /\ smtp[s].remote \in Seq(Address)
    BY Current DEF Named, IsList, Typed
  <2>2. /\ \A users \in Seq(UserID) : ToSet(users) \subseteq UserID
        /\ \A remote \in Seq(Address) : ToSet(remote) \subseteq Address
    BY DEF ToSet
  <2> QED
    BY <2>1, <2>2
<1>6. ASSUME NEW r \in smtp[s].promised
      PROVE  Copy(MailOf(s), r) \in Copies \cup G
  <2>1. PICK k \in 1..Len(AllRecipients(s)) :
          r = AllRecipients(s)[k] /\ Held(s, k, G)
    BY DoneHeld
  <2> QED
    BY <2>1 DEF Held, Copies
<1>7. smtp[s].lines # <<>>
  BY <1>1, Current DEF Typed
<1> QED
  BY <1>1, <1>3, <1>4, <1>5, <1>6, <1>7

LEMMA SenderRows ==
  ASSUME Local, NEW G, MailInv(G), NEW s \in SmtpSessions, Sender(s)
  PROVE  /\ KeepsRows /\ Rows' = Rows
         /\ \A id \in Rows : messages'[id].origin = messages[id].origin
         /\ bodies' = bodies
         /\ Promises' = Promises
<1>1. ASSUME UNCHANGED store, Promises' = Promises
      PROVE  /\ KeepsRows /\ Rows' = Rows
             /\ \A id \in Rows : messages'[id].origin = messages[id].origin
             /\ bodies' = bodies
             /\ Promises' = Promises
  BY <1>1, SameStore DEF MailInv, store, Rows
<1>2. CASE Quiet(s)
  BY <1>1, <1>2 DEF Quiet, Promises
<1>3. CASE UNCHANGED <<store, smtp, receipts>>
  BY <1>1, <1>3 DEF Promises
<1>4. CASE EmptyDot(s)
  BY <1>1, <1>4, EmptyDotStep
<1>5. CASE DestroyedWhileSaving(s)
  <2>1. CASE UNCHANGED store /\ UNCHANGED receipts
    BY <1>1, <2>1 DEF Promises
  <2>2. CASE SizeOrOutgoing(s) /\ UNCHANGED receipts
    BY <2>2, SizeStored, SizeRows DEF SameRows, Promises
  <2> QED
    BY <1>5, <2>1, <2>2, DestroyedStep
<1> QED
  BY <1>2, <1>3, <1>4, <1>5, SenderQuiet

(***************************************************************************)
(* The sessions begin anew, and with them the numbering of their mails     *)
(* goes on: what is in the store and what was acknowledged stays true.     *)
(***************************************************************************)
LEMMA AnewMail ==
  ASSUME NEW G, MailInv(G), UNCHANGED <<store, receipts>>,
         \A s \in SmtpSessions :
           /\ smtp'[s].step = "none"
           /\ ~Receives(smtp'[s])
           /\ \/ smtp'[s].state = "Done"
              \/ smtp[s].state # "Done" /\ smtp'[s].mail = smtp[s].mail
  PROVE  MailInv(G)'
<1>1. \A mail : Known(mail) => Known(mail)'
  BY DEF Known
<1>2. Rows' = Rows /\ StoreTyped' /\ Acknowledged(G)' /\ NoDuplicateCopies'
  BY StoreKept DEF MailInv
<1>3. Numbered(G)'
  BY <1>1, <1>2 DEF MailInv, Numbered, store
<1>4. \A s \in SmtpSessions : Fresh(s, G)' /\ Saved(s, G)'
  BY DEF Fresh, Saved
<1> QED
  BY <1>2, <1>3, <1>4 DEF MailInv

LEMMA MailHolds == Spec => [](Local /\ MailInv({}))
<1>1. Init => Local /\ MailInv({})
  BY InitLocal, InitMail DEF Init
<1>2. Local /\ MailInv({}) /\ [Next \/ Terminated]_smtpVars
      => (Local /\ MailInv({}))'
  <2> SUFFICES ASSUME Local, MailInv({}), [Next \/ Terminated]_smtpVars
               PROVE  Local' /\ MailInv({})'
    OBVIOUS
  <2>1. CASE UNCHANGED smtpVars
    <3>1. UNCHANGED <<store, smtp, receipts>>
      BY <2>1 DEF smtpVars
    <3>2. StoreTyped' /\ Evolves({}, {}, {})
      BY <3>1, StoreKept DEF MailInv
    <3> QED
      BY <3>1, <3>2, TakenMail, Unchanged
  <2> QED
    BY <2>1, SaveLocal, SenderLocal, SaveMail, SenderMail DEF Next, Terminated
<1> QED
  BY <1>1, <1>2, PTL DEF Spec

(***************************************************************************)
(* Every recipient RCPT said 250 to has a copy with all lines of the mail, *)
(* in their order, once the 250 for the dot has been sent, unless a        *)
(* statement has failed.                                                   *)
(***************************************************************************)
THEOREM AcceptedMail == Spec => []AcceptedIsStored
<1>1. MailInv({}) => AcceptedIsStored
  BY DEF MailInv, Acknowledged, AcceptedIsStored
<1> QED
  BY <1>1, MailHolds, PTL

(***************************************************************************)
(* An account gets one copy of a mail, whatever addresses led to it.       *)
(***************************************************************************)
THEOREM SingleCopies == Spec => []NoDuplicateCopies
<1>1. MailInv({}) => NoDuplicateCopies
  BY DEF MailInv
<1> QED
  BY <1>1, MailHolds, PTL

(***************************************************************************)
(* A copy is only stored for a recipient who was named with RCPT since the *)
(* session's last RSET, and under the number of the mail it is sending.    *)
(* (That he was named for this mail, and not for one before it, is not     *)
(* true.)                                                                  *)
(***************************************************************************)
THEOREM NamedRecipients == Spec => OnlyNamedRecipients
<1> DEFINE StoresAsNamed ==
             \A id \in MsgID :
               messages[id] = NoRow /\ messages'[id] # NoRow =>
                 StoredAsNamed(messages'[id].origin)
<1>1. ASSUME Local, MailInv({}), NEW s \in SmtpSessions, SaveRow(s),
             smtp' # smtp
      PROVE  StoresAsNamed
  <2>1. PICK copy : copy = Copy(MailOf(s), AllRecipients(s)[smtp[s].i])
    OBVIOUS
  <2>2. /\ Rows' = Rows \cup {nextID}
        /\ messages'[nextID].origin = copy
    BY <1>1, <2>1, RowIsNew
  <2>3. copy.mail = <<s, smtp[s].mail>>
    BY <2>1 DEF Copy, MailOf
  <2>4. copy.rcpt \in smtp[s].promised \cup smtp[s].refused
    <3>1. smtp[s].i \in 1..Len(AllRecipients(s))
      BY <1>1, RowStep, CurrentRecipient
    <3>2. /\ smtp[s].users \in Seq(UserID) /\ smtp[s].remote \in Seq(Address)
          /\ Named(smtp[s])
      BY <1>1, Current DEF Typed, Named, IsList
    <3>3. \A users \in Seq(UserID), remote \in Seq(Address) :
            \A k \in 1..Len(users \o remote) :
              (users \o remote)[k] \in ToSet(users \o remote)
      BY DEF ToSet
    <3>4. AllRecipients(s)[smtp[s].i] \in ToSet(AllRecipients(s))
      <4> DEFINE users == smtp[s].users
                 remote == smtp[s].remote
      <4>1. AllRecipients(s) = users \o remote
        BY DEF AllRecipients
      <4>2. users \in Seq(UserID) /\ remote \in Seq(Address)
        BY <3>2
      <4> HIDE DEF users, remote
      <4> QED
        BY <3>1, <3>3, <4>1, <4>2
    <3>5. ToSet(AllRecipients(s))
            = ToSet(smtp[s].users) \cup ToSet(smtp[s].remote)
      BY <3>2, ConcatSet DEF AllRecipients
    <3> QED
      BY <2>1, <3>2, <3>4, <3>5 DEF Named, Copy
  <2>5. StoredAsNamed(copy)
    BY <2>3, <2>4 DEF StoredAsNamed
  <2>6. \A id \in MsgID : messages[id] = NoRow /\ messages'[id] # NoRow =>
          id = nextID
    BY <2>2 DEF Rows
  <2> QED
    BY <2>2, <2>5, <2>6
<1>2. ASSUME Rows' = Rows
      PROVE  StoresAsNamed
  BY <1>2 DEF Rows
<1> HIDE DEF StoresAsNamed
<1>3. Local /\ MailInv({}) /\ [Next \/ Terminated]_smtpVars
      => [StoresAsNamed]_smtpVars
  <2> SUFFICES ASSUME Local, MailInv({}), Next \/ Terminated
               PROVE  StoresAsNamed \/ UNCHANGED smtpVars
    OBVIOUS
  <2>1. CASE Terminated
    BY <2>1 DEF Terminated
  <2>2. ASSUME NEW s \in SmtpSessions, Sender(s)
        PROVE  StoresAsNamed
    BY <1>2, <2>2, SenderRows
  <2>3. ASSUME NEW s \in SmtpSessions, SaveMessage(s)
        PROVE  StoresAsNamed
    <3>1. CASE SaveRow(s) /\ smtp' # smtp
      BY <1>1, <3>1
    <3>2. CASE \/ SaveRow(s) /\ smtp' = smtp
               \/ SaveLine(s) \/ SaveOutgoing(s) \/ SaveSize(s)
      BY <1>2, <3>2, OtherStatements
    <3>3. CASE SaveDone(s)
      BY <1>2, <3>3 DEF SaveDone, Keep, store, Rows
    <3> QED
      BY <2>3, <3>1, <3>2, <3>3 DEF SaveMessage
  <2> QED
    BY <2>1, <2>2, <2>3 DEF Next
<1>4. [StoresAsNamed]_smtpVars =>
        [\A id \in MsgID :
           messages[id] = NoRow /\ messages'[id] # NoRow =>
             StoredAsNamed(messages'[id].origin)]_smtpVars
  BY DEF StoresAsNamed
<1> QED
  BY MailHolds, <1>3, <1>4, PTL DEF Spec, OnlyNamedRecipients
==============================================================================
