---------------------------- MODULE DeliveryProofs ---------------------------
(***************************************************************************)
(* The daemon as a whole, for any number of sessions of both kinds, any    *)
(* directory, and any number of crashes and failed statements.             *)
(*                                                                         *)
(* The SMTP sessions keep their invariant of module MessageProofs, in      *)
(* which the copies the POP3 sessions have taken count as "gone".  Of the  *)
(* POP3 sessions it matters whose rows their lists name: a row that is     *)
(* taken in OnClose is one the client has marked.                          *)
(***************************************************************************)
EXTENDS Delivery, FiniteSetTheorems, TLAPS

SP == INSTANCE MessageProofs

Gone == {SP!Copy(c.mail, c.rcpt) : c \in collected}

ListEntry == [id : MsgID, size : Int, deleted : BOOLEAN,
          origin : [mail : SmtpSessions \X Nat, rcpt : UserID \cup Address]]

Fields == {"state", "step", "szUser", "userID", "loaded", "list", "k", "arg"}

IsSession(m) == m = [f \in Fields |-> m[f]]

PopShape ==
  /\ pop = [p \in PopSessions |-> pop[p]]
  /\ \A p \in PopSessions : IsSession(pop[p])

PopTyped(m) ==
  /\ m.step \in {"none", "load", "sizes", "delete"}
  /\ m.szUser \in UserID \cup {0}
  /\ m.userID \in UserID \cup {0}
  /\ m.list \in Seq(ListEntry)
  /\ m.k \in Nat \ {0}
  /\ m.userID = 0 => m.list = <<>> /\ m.step # "load"

\* A number in a list has been given to a message, and if its row is there it
\* is the one that was listed, and the user's.
Listed(p) ==
  \A i \in 1..Len(pop[p].list) :
    LET item == pop[p].list[i]
    IN  /\ item.id < nextID
        /\ item.id \in Rows => /\ messages[item.id].user = pop[p].userID
                               /\ messages[item.id].origin = item.origin

PopInv ==
  /\ PopShape
  /\ \A p \in PopSessions : PopTyped(pop[p]) /\ Listed(p)

CollectedOK == \A c \in collected : c.id \in Nat /\ c.id < nextID

IInv == SP!Local /\ SP!MailInv(Gone) /\ PopInv /\ CollectedOK
------------------------------------------------------------------------------
(***************************************************************************)
(* MessageProofs is about its own instance of the definitions of module    *)
(* Message: what the sessions do here is what they do there.               *)
(***************************************************************************)
LEMMA Parameters == SP!MessageParameters
BY DeliveryAssumption
   DEF Smtp!MessageParameters, SP!MessageParameters, Smtp!Row, SP!Row

LEMMA SameOperators ==
  ASSUME NEW s
  PROVE  /\ Smtp!MailOf(s) = SP!MailOf(s)
         /\ Smtp!IsLocal(s) = SP!IsLocal(s)
         /\ Smtp!IsRemote(s) = SP!IsRemote(s)
         /\ Smtp!Recipient(s) = SP!Recipient(s)
         /\ Smtp!MayRelay(s) = SP!MayRelay(s)
         /\ Smtp!Receipts(s) = SP!Receipts(s)
         /\ Smtp!Promises = SP!Promises
         /\ SP!Rows = Rows /\ SP!MsgID = MsgID
BY DEF Smtp!MailOf, SP!MailOf, Smtp!IsLocal, SP!IsLocal, Smtp!IsRemote,
       SP!IsRemote, Smtp!Recipient, SP!Recipient, Smtp!MayRelay, SP!MayRelay,
       Smtp!Receipts, SP!Receipts, Smtp!Promises, SP!Promises, SP!Rows,
       SP!MsgID, Rows, MsgID

LEMMA SameUsers ==
  ASSUME NEW a, NEW users
  PROVE  /\ Smtp!UsersFor(a) = SP!UsersFor(a)
         /\ Smtp!AddUsers(users, SP!UsersFor(a)) = SP!AddUsers(users, SP!UsersFor(a))
         /\ Smtp!ToSet(SP!UsersFor(a)) = SP!ToSet(SP!UsersFor(a))
<1>1. \A list, user : Smtp!AddUser(list, user) = SP!AddUser(list, user)
  BY DEF Smtp!AddUser, SP!AddUser, Smtp!ToSet, SP!ToSet
<1>2. Smtp!UsersFor(a) = SP!UsersFor(a)
  BY DEF Smtp!UsersFor, SP!UsersFor
<1>3. Smtp!AddUsers(users, SP!UsersFor(a)) = SP!AddUsers(users, SP!UsersFor(a))
  BY <1>1 DEF Smtp!AddUsers, SP!AddUsers, Smtp!Added, SP!Added
<1>4. Smtp!ToSet(SP!UsersFor(a)) = SP!ToSet(SP!UsersFor(a))
  BY DEF Smtp!ToSet, SP!ToSet
<1> QED
  BY <1>2, <1>3, <1>4

LEMMA SameRcptLocal ==
  ASSUME NEW s, NEW a, Smtp!RcptLocal(s, a)
  PROVE  SP!RcptLocal(s, a)
<1>1. Smtp!UsersFor(a) = SP!UsersFor(a)
  BY SameUsers
<1>2. Smtp!AddUsers(smtp[s].users, SP!UsersFor(a))
        = SP!AddUsers(smtp[s].users, SP!UsersFor(a))
  BY SameUsers
<1>3. Smtp!ToSet(SP!UsersFor(a)) = SP!ToSet(SP!UsersFor(a))
  BY SameUsers
<1>4. Smtp!AddLocal(s, a) => SP!AddLocal(s, a)
  BY <1>1, <1>2, <1>3 DEF Smtp!AddLocal, SP!AddLocal
<1> QED
  BY <1>1, <1>4 DEF Smtp!RcptLocal, SP!RcptLocal, Smtp!Command, SP!Command,
     Smtp!Keep, SP!Keep, Smtp!store, SP!store

LEMMA SameSender ==
  ASSUME NEW s, Smtp!Sender(s)
  PROVE  SP!Sender(s)
<1> USE DEF Smtp!Command, SP!Command, Smtp!DataMode, SP!DataMode, Smtp!Keep,
            SP!Keep, Smtp!store, SP!store
<1>1. Smtp!OnStart(s) => SP!OnStart(s)
  BY DEF Smtp!OnStart, SP!OnStart
<1>2. Smtp!ProcessHELO(s) => SP!ProcessHELO(s)
  BY DEF Smtp!ProcessHELO, SP!ProcessHELO
<1>3. Smtp!ProcessAUTH(s) => SP!ProcessAUTH(s)
  BY DEF Smtp!ProcessAUTH, SP!ProcessAUTH
<1>4. Smtp!ProcessMAIL(s) => SP!ProcessMAIL(s)
  BY DEF Smtp!ProcessMAIL, SP!ProcessMAIL
<1>5. \A a \in Address : Smtp!RcptLocal(s, a) => SP!RcptLocal(s, a)
  BY SameRcptLocal
<1>6. \A a \in Address : Smtp!RcptRemote(s, a) => SP!RcptRemote(s, a)
  BY DEF Smtp!RcptRemote, SP!RcptRemote, Smtp!Assertion, SP!Assertion
<1>7. Smtp!ProcessDATA(s) => SP!ProcessDATA(s)
  BY DEF Smtp!ProcessDATA, SP!ProcessDATA
<1>8. Smtp!ProcessRSET(s) => SP!ProcessRSET(s)
  BY DEF Smtp!ProcessRSET, SP!ProcessRSET
<1>9. Smtp!ProcessQUIT(s) => SP!ProcessQUIT(s)
  BY DEF Smtp!ProcessQUIT, SP!ProcessQUIT
<1>10. \A name \in UserID, valid \in BOOLEAN :
         Smtp!OnAuth(s, name, valid) => SP!OnAuth(s, name, valid)
  BY DEF Smtp!OnAuth, SP!OnAuth, Smtp!GetUserID, SP!GetUserID,
         Smtp!Assertion, SP!Assertion
<1>11. Smtp!OnDataLine(s) => SP!OnDataLine(s)
  BY DEF Smtp!OnDataLine, SP!OnDataLine, Smtp!NextLine, SP!NextLine,
         Smtp!MailOf, SP!MailOf
<1>12. Smtp!OnDot(s) => SP!OnDot(s)
  BY SameOperators DEF Smtp!OnDot, SP!OnDot
<1>13. Smtp!IdleLimitReached(s) => SP!IdleLimitReached(s)
  BY DEF Smtp!IdleLimitReached, SP!IdleLimitReached
<1>14. Smtp!Leave(s) => SP!Leave(s)
  BY DEF Smtp!Leave, SP!Leave, Smtp!GoneMessage, SP!GoneMessage,
         Smtp!NewMessage, SP!NewMessage
<1>15. Smtp!RcptBadName(s) => SP!RcptBadName(s)
  BY DEF Smtp!RcptBadName, SP!RcptBadName, Smtp!Assertion, SP!Assertion
<1>16. Smtp!DestroyedWhileSaving(s) => SP!DestroyedWhileSaving(s)
  BY DEF Smtp!DestroyedWhileSaving, SP!DestroyedWhileSaving,
         Smtp!GoneMessage, SP!GoneMessage, Smtp!NewMessage, SP!NewMessage,
         Smtp!UpdateMessageSize, SP!UpdateMessageSize, Smtp!Rows, SP!Rows,
         Smtp!MsgID, SP!MsgID, Smtp!Succeeds, SP!Succeeds, Smtp!Fails,
         SP!Fails, Smtp!Assertion, SP!Assertion
<1> QED
  BY <1>1, <1>2, <1>3, <1>4, <1>5, <1>6, <1>7, <1>8, <1>9, <1>10, <1>11,
     <1>12, <1>13, <1>14, <1>15, <1>16 DEF Smtp!Sender, SP!Sender

LEMMA SameSave ==
  ASSUME NEW s
  PROVE  /\ Smtp!SaveRow(s) => SP!SaveRow(s)
         /\ Smtp!SaveDone(s) => SP!SaveDone(s)
         /\ Smtp!SaveMessage(s) => SP!SaveMessage(s)
         /\ Smtp!SaveMessage(s) /\ ~Smtp!SaveRow(s) /\ ~Smtp!SaveDone(s)
            => SP!SaveLine(s) \/ SP!SaveOutgoing(s) \/ SP!SaveSize(s)
<1> USE SameOperators
    DEF Smtp!Saving, SP!Saving, Smtp!Succeeds, SP!Succeeds, Smtp!Fails,
        SP!Fails
<1>1. Smtp!SaveRow(s) => SP!SaveRow(s)
  BY DEF Smtp!SaveRow, SP!SaveRow, Smtp!InsertMessage, SP!InsertMessage,
         Smtp!InsertMessageFails, SP!InsertMessageFails, Smtp!Assertion,
         SP!Assertion, Smtp!MsgID, SP!MsgID, Smtp!store, SP!store
<1>2. Smtp!SaveLine(s) => SP!SaveLine(s)
  BY DEF Smtp!SaveLine, SP!SaveLine, Smtp!InsertBodyLine, SP!InsertBodyLine
<1>3. Smtp!SaveOutgoing(s) => SP!SaveOutgoing(s)
  BY DEF Smtp!SaveOutgoing, SP!SaveOutgoing, Smtp!InsertOutgoing,
         SP!InsertOutgoing
<1>4. Smtp!SaveSize(s) => SP!SaveSize(s)
  BY DEF Smtp!SaveSize, SP!SaveSize, Smtp!UpdateMessageSize,
         SP!UpdateMessageSize, Smtp!Rows, SP!Rows, Smtp!MsgID, SP!MsgID
<1>5. Smtp!SaveDone(s) => SP!SaveDone(s)
  BY DEF Smtp!SaveDone, SP!SaveDone, Smtp!Keep, SP!Keep, Smtp!store, SP!store
<1> QED
  BY <1>1, <1>2, <1>3, <1>4, <1>5 DEF Smtp!SaveMessage, SP!SaveMessage

------------------------------------------------------------------------------
(***************************************************************************)
(* The POP3 sessions: what a step does to the list of its session.         *)
(***************************************************************************)
Changes(p) ==
  /\ pop' = [q \in PopSessions |-> pop'[q]]
  /\ \A q \in PopSessions \ {p} : pop'[q] = pop[q]
  /\ IsSession(pop'[p])

\* The list names the same messages, for the same user, or there is none.
SameList(m, n) ==
  \/ n.list = <<>>
  \/ /\ n.userID = m.userID
     /\ Len(n.list) = Len(m.list)
     /\ \A i \in 1..Len(m.list) : /\ n.list[i].id = m.list[i].id
                                  /\ n.list[i].origin = m.list[i].origin

Steps(p) ==
  Changes(p) /\ PopTyped(pop'[p]) /\ SameList(pop[p], pop'[p])

LEMMA PopCurrent ==
  ASSUME PopInv, NEW p \in PopSessions
  PROVE  /\ IsSession(pop[p]) /\ PopTyped(pop[p]) /\ Listed(p)
         /\ pop = [q \in PopSessions |-> pop[q]]
BY DEF PopInv, PopShape

LEMMA NewRecord ==
  ASSUME PopInv, NEW p \in PopSessions, NEW m, IsSession(m),
         pop' = [pop EXCEPT ![p] = m]
  PROVE  Changes(p) /\ pop'[p] = m
BY PopCurrent DEF Changes

LEMMA NewSteps ==
  ASSUME PopInv, NEW p \in PopSessions, NEW m, IsSession(m), PopTyped(m),
         SameList(pop[p], m), pop' = [pop EXCEPT ![p] = m]
  PROVE  Steps(p)
BY NewRecord DEF Steps

LEMMA NoStep ==
  ASSUME PopInv, NEW p \in PopSessions, UNCHANGED pop
  PROVE  Steps(p)
BY PopCurrent DEF Steps, Changes, SameList, PopInv, PopShape

\* All but the list stays, or changes within its type.
LEMMA PlainSteps ==
  ASSUME PopInv, NEW p \in PopSessions,
         \/ Pop!OnStart(p)
         \/ \E name \in UserID : Pop!ProcessUSER(p, name)
         \/ \E valid \in BOOLEAN : Pop!ProcessPASS(p, valid)
         \/ \E n \in {-1, 0} : Pop!ProcessLIST(p, n)
         \/ \E bare \in BOOLEAN : Pop!ProcessQUIT(p, bare)
         \/ Pop!IdleLimitReached(p)
         \/ Pop!OnClose(p)
         \/ Pop!Loaded(p)
         \/ Pop!DeleteMarked(p)
  PROVE  Steps(p)
<1>1. IsSession(pop[p]) /\ pop = [q \in PopSessions |-> pop[q]]
  BY PopCurrent
<1>2. CASE Pop!OnStart(p)
  BY <1>1, <1>2, PopCurrent DEF Pop!OnStart, Steps, Changes, SameList,
     PopTyped, IsSession, Fields
<1>3. ASSUME NEW name \in UserID, Pop!ProcessUSER(p, name)
      PROVE  Steps(p)
  BY <1>1, <1>3, PopCurrent DEF Pop!ProcessUSER, Steps, Changes, SameList,
     PopTyped, IsSession, Fields
<1>4. ASSUME NEW valid \in BOOLEAN, Pop!ProcessPASS(p, valid)
      PROVE  Steps(p)
  BY <1>1, <1>4, PopCurrent DEF Pop!ProcessPASS, Pop!GetUserID, Pop!Ready,
     Steps, Changes, SameList, PopTyped, IsSession, Fields
<1>5. ASSUME NEW n \in {-1, 0}, Pop!ProcessLIST(p, n)
      PROVE  Steps(p)
  <2>1. CASE UNCHANGED pop
    BY <2>1, NoStep
  <2>2. CASE pop' = [pop EXCEPT ![p].step = "load", ![p].arg = n]
    <3>1. PICK m : m = [pop[p] EXCEPT !.step = "load", !.arg = n]
      OBVIOUS
    <3>2. IsSession(m) /\ SameList(pop[p], m) /\ pop' = [pop EXCEPT ![p] = m]
      BY <1>1, <2>2, <3>1 DEF IsSession, SameList, Fields
    <3>3. PopTyped(m)
      BY <1>1, <1>5, <3>1, PopCurrent DEF PopTyped, Pop!ProcessLIST, IsSession,
         Fields
    <3> QED
      BY <3>2, <3>3, NewSteps
  <2> QED
    BY <1>5, <2>1, <2>2 DEF Pop!ProcessLIST
<1>6. ASSUME NEW bare \in BOOLEAN, Pop!ProcessQUIT(p, bare)
      PROVE  Steps(p)
  <2>1. CASE UNCHANGED pop
    BY <2>1, NoStep
  <2>2. CASE pop' = [pop EXCEPT ![p].state = "Close"]
    BY <1>1, <2>2, PopCurrent DEF Steps, Changes, SameList, PopTyped,
       IsSession, Fields
  <2> QED
    BY <1>6, <2>1, <2>2 DEF Pop!ProcessQUIT
<1>7. CASE Pop!IdleLimitReached(p)
  BY <1>1, <1>7, PopCurrent DEF Pop!IdleLimitReached, Steps, Changes,
     SameList, PopTyped, IsSession, Fields
<1>8. CASE Pop!OnClose(p)
  <2>1. PICK m : m = [pop[p] EXCEPT !.step = "delete", !.k = 1]
    OBVIOUS
  <2>2. /\ IsSession(m)
        /\ m.step = "delete" /\ m.k = 1
        /\ m.list = pop[p].list /\ m.userID = pop[p].userID
        /\ m.szUser = pop[p].szUser
    BY <1>1, <2>1 DEF IsSession, Fields
  <2>4. SameList(pop[p], m) /\ PopTyped(m)
    BY <2>2, PopCurrent DEF SameList, PopTyped
  <2>3. pop' = [pop EXCEPT ![p] = m]
    BY <1>8, <2>1 DEF Pop!OnClose
  <2> QED
    BY <2>2, <2>3, <2>4, NewSteps
<1>9. CASE Pop!Loaded(p)
  <2>1. PICK m : m = [pop[p] EXCEPT !.step = "none", !.loaded = TRUE,
                                    !.arg = 0, !.k = 1]
    OBVIOUS
  <2>2. /\ IsSession(m)
        /\ m.step = "none" /\ m.k = 1
        /\ m.list = pop[p].list /\ m.userID = pop[p].userID
        /\ m.szUser = pop[p].szUser
    BY <1>1, <2>1 DEF IsSession, Fields
  <2>4. SameList(pop[p], m) /\ PopTyped(m)
    BY <2>2, PopCurrent DEF SameList, PopTyped
  <2>3. pop' = [pop EXCEPT ![p] = m]
    BY <1>9, <2>1 DEF Pop!Loaded
  <2> QED
    BY <2>2, <2>3, <2>4, NewSteps
<1>10. CASE Pop!DeleteMarked(p)
  <2>1. PICK m : m = [pop[p] EXCEPT !.k = pop[p].k + 1]
    OBVIOUS
  <2>2. /\ IsSession(m)
        /\ m.step = pop[p].step /\ m.k = pop[p].k + 1
        /\ m.list = pop[p].list /\ m.userID = pop[p].userID
        /\ m.szUser = pop[p].szUser
    BY <1>1, <2>1 DEF IsSession, Fields
  <2>4. SameList(pop[p], m) /\ PopTyped(m)
    BY <2>2, PopCurrent DEF SameList, PopTyped
  <2>3. pop' = [pop EXCEPT ![p] = m]
    BY <1>10, <2>1 DEF Pop!DeleteMarked
  <2> QED
    BY <2>2, <2>3, <2>4, NewSteps
<1> QED
  BY <1>2, <1>3, <1>4, <1>5, <1>6, <1>7, <1>8, <1>9, <1>10

\* The session is over, or starts again after a crash.
LEMMA OverSteps ==
  ASSUME PopInv, NEW p \in PopSessions,
         Pop!LoseConnection(p) \/ Pop!Closed(p) \/ Pop!DestroyedInCallback(p)
  PROVE  Steps(p)
<1>1. IsSession(Pop!Finished) /\ PopTyped(Pop!Finished)
      /\ Pop!Finished.list = <<>>
  <2>1. <<>> \in Seq(ListEntry)
    OBVIOUS
  <2> QED
    BY <2>1 DEF Pop!Finished, Pop!NewSession, IsSession, PopTyped, Fields
<1>2. CASE pop' = [pop EXCEPT ![p] = Pop!Finished]
  BY <1>1, <1>2, NewRecord DEF Steps, SameList
<1>3. CASE UNCHANGED pop
  BY <1>3, NoStep
<1> QED
  BY <1>2, <1>3 DEF Pop!LoseConnection, Pop!Closed, Pop!DestroyedInCallback

\* An entry gets a size, or a mark: it names the same message.
LEMMA EntryChanged ==
  ASSUME NEW list \in Seq(ListEntry), NEW k \in 1..Len(list),
         NEW item \in ListEntry, item.id = list[k].id,
         item.origin = list[k].origin, NEW new, new = [list EXCEPT ![k] = item]
  PROVE  /\ new \in Seq(ListEntry)
         /\ Len(new) = Len(list)
         /\ \A i \in 1..Len(list) : /\ new[i].id = list[i].id
                                    /\ new[i].origin = list[i].origin
<1>1. new \in Seq(ListEntry) /\ Len(new) = Len(list)
  OBVIOUS
<1>2. ASSUME NEW i \in 1..Len(list)
      PROVE  new[i] = IF i = k THEN item ELSE list[i]
  OBVIOUS
<1> QED
  BY <1>1, <1>2

LEMMA EntrySteps ==
  ASSUME PopInv, NEW p \in PopSessions, NEW k \in 1..Len(pop[p].list),
         NEW item \in ListEntry, item.id = pop[p].list[k].id,
         item.origin = pop[p].list[k].origin, NEW place \in Nat \ {0},
         pop' = [pop EXCEPT ![p].list[k] = item, ![p].k = place]
  PROVE  Steps(p)
<1>1. IsSession(pop[p]) /\ PopTyped(pop[p])
  BY PopCurrent
<1>2. PICK list, new, m : /\ list = pop[p].list
                          /\ new = [list EXCEPT ![k] = item]
                          /\ m = [pop[p] EXCEPT !.list = new, !.k = place]
  OBVIOUS
<1>3. /\ IsSession(m)
      /\ m.step = pop[p].step /\ m.k = place
      /\ m.list = new /\ m.userID = pop[p].userID
      /\ m.szUser = pop[p].szUser
  BY <1>1, <1>2 DEF IsSession, Fields
<1>4. /\ new \in Seq(ListEntry) /\ Len(new) = Len(list)
      /\ \A i \in 1..Len(list) : /\ new[i].id = list[i].id
                                 /\ new[i].origin = list[i].origin
  <2>1. list \in Seq(ListEntry) /\ k \in 1..Len(list)
    BY <1>1, <1>2 DEF PopTyped
  <2> QED
    BY <1>2, <2>1, EntryChanged
<1>5. pop[p].userID # 0
  <2>1. Len(<<>>) = 0
    OBVIOUS
  <2>2. Len(pop[p].list) # 0
    OBVIOUS
  <2> QED
    BY <1>1, <2>1, <2>2 DEF PopTyped
<1>6. SameList(pop[p], m) /\ PopTyped(m)
  BY <1>1, <1>2, <1>3, <1>4, <1>5 DEF SameList, PopTyped
<1>7. pop' = [pop EXCEPT ![p] = m]
  BY <1>2
<1> QED
  BY <1>3, <1>6, <1>7, NewSteps

------------------------------------------------------------------------------
\* The store, as the SMTP sessions know it.
LEMMA StoreKnown ==
  ASSUME SP!MailInv(Gone)
  PROVE  /\ SP!StoreTyped
         /\ messages \in [MsgID -> SP!Row \cup {NoRow}]
         /\ bodies \in [MsgID -> Seq(SP!Line)]
         /\ nextID \in Nat \ {0}
         /\ faults \in Nat
         /\ \A id \in Rows :
              /\ id \in MsgID /\ id < nextID
              /\ messages[id] \in SP!Row
              /\ messages[id].user \in UserID /\ messages[id].size \in Nat
              /\ messages[id].origin \in [mail : SmtpSessions \X Nat,
                                          rcpt : UserID \cup Address]
<1>1. SP!StoreTyped
  BY DEF SP!MailInv
<1>2. messages \in [MsgID -> SP!Row \cup {NoRow}] /\ nextID \in Nat \ {0}
      /\ bodies \in [MsgID -> Seq(SP!Line)] /\ faults \in Nat
      /\ \A id \in Rows : id \in MsgID /\ id < nextID
  BY <1>1, SameOperators DEF SP!StoreTyped, Rows
<1>3. \A id \in Rows : messages[id] \in SP!Row
  BY <1>2 DEF Rows
<1> QED
  BY <1>1, <1>2, <1>3 DEF SP!Row

LEMMA SizeSteps ==
  ASSUME PopInv, SP!MailInv(Gone), NEW p \in PopSessions, Pop!ComputeSize(p)
  PROVE  Steps(p)
<1> DEFINE list == pop[p].list
           k == pop[p].k
<1>1. /\ list \in Seq(ListEntry) /\ k \in 1..Len(list) /\ k \in Nat \ {0}
      /\ list[k] \in ListEntry /\ list[k].id \in MsgID
      /\ list[k].size \in Int
  <2>1. list \in Seq(ListEntry) /\ k \in Nat \ {0} /\ k <= Len(list)
    BY PopCurrent DEF PopTyped, Pop!ComputeSize
  <2>2. k \in 1..Len(list) /\ list[k] \in ListEntry
    BY <2>1
  <2> QED
    BY <2>1, <2>2 DEF ListEntry
<1>2. PICK n \in Int : Pop!SetSize(p, n)
  <2>1. Pop!GetMessageLength(list[k].id) \subseteq Int
    <3>1. bodies[list[k].id] \in Seq(SP!Line)
      BY <1>1, StoreKnown
    <3>2. Len(bodies[list[k].id]) \in Int
      BY <3>1
    <3> QED
      BY <3>2 DEF Pop!GetMessageLength
  <2>2. Pop!SizesOf(list[k]) \subseteq Int
    BY <1>1, <2>1 DEF Pop!SizesOf
  <2> QED
    BY <2>2 DEF Pop!ComputeSize
<1>3. PICK item : item = [list[k] EXCEPT !.size = n]
  OBVIOUS
<1>4. /\ item \in ListEntry /\ item.id = list[k].id
      /\ item.origin = list[k].origin
  BY <1>1, <1>2, <1>3 DEF ListEntry
<1>5. pop' = [pop EXCEPT ![p].list[k] = item, ![p].k = k + 1]
  BY <1>2, <1>3 DEF Pop!SetSize
<1>6. k + 1 \in Nat \ {0}
  BY <1>1
<1> QED
  BY <1>1, <1>4, <1>5, <1>6, EntrySteps

LEMMA DeleSteps ==
  ASSUME PopInv, NEW p \in PopSessions, NEW n \in 1..MaxItems,
         Pop!ProcessDELE(p, n)
  PROVE  Steps(p)
<1> DEFINE list == pop[p].list
<1>1. n \in 1..Len(list) /\ list \in Seq(ListEntry) /\ list[n] \in ListEntry
      /\ pop[p].k \in Nat \ {0}
  <2>1. n \in 1..Len(list) /\ list \in Seq(ListEntry) /\ pop[p].k \in Nat \ {0}
    BY PopCurrent DEF PopTyped, Pop!ProcessDELE
  <2> QED
    BY <2>1
<1>2. PICK item : item = [list[n] EXCEPT !.deleted = TRUE]
  OBVIOUS
<1>3. /\ item \in ListEntry /\ item.id = list[n].id
      /\ item.origin = list[n].origin
  BY <1>1, <1>2 DEF ListEntry
<1>4. pop' = [pop EXCEPT ![p].list[n] = item]
  BY <1>2 DEF Pop!ProcessDELE
<1>5. pop' = [pop EXCEPT ![p].list[n] = item, ![p].k = pop[p].k]
  <2>1. IsSession(pop[p]) /\ pop = [q \in PopSessions |-> pop[q]]
    BY PopCurrent
  <2>2. PICK m : m = [pop[p] EXCEPT !.list[n] = item]
    OBVIOUS
  <2>3. m = [pop[p] EXCEPT !.list[n] = item, !.k = pop[p].k]
    BY <2>1, <2>2 DEF IsSession, Fields
  <2>4. pop' = [pop EXCEPT ![p] = m]
    BY <1>4, <2>2
  <2> QED
    BY <2>3, <2>4
<1> QED
  BY <1>1, <1>3, <1>5, EntrySteps

LEMMA MailboxList ==
  ASSUME NEW user, NEW ids \in Pop!GetMessageList(user, MaxItems)
  PROVE  \E n \in Nat : ids \in [1..n -> Mailbox(user)]
<1> DEFINE count == Cardinality(Mailbox(user))
<1>1. IsFiniteSet(MsgID)
  BY StoreAssumption, FS_Interval DEF MsgID
<1>2. IsFiniteSet(Mailbox(user))
  BY <1>1, FS_Subset DEF Mailbox, Rows
<1>3. count \in Nat
  BY <1>2, FS_CardinalityType
<1>4. Pop!Mailbox(user) = Mailbox(user)
  BY DEF Pop!Mailbox, Mailbox, Pop!Rows, Rows, Pop!MsgID, MsgID
<1>5. ids \in [1..(IF count < MaxItems THEN count ELSE MaxItems)
                 -> Mailbox(user)]
  BY <1>4 DEF Pop!GetMessageList, Pop!ListsOf, Pop!Injection, Pop!Cardinality, Cardinality
<1> QED
  BY <1>3, <1>5, DeliveryAssumption

------------------------------------------------------------------------------
\* Rows are added under new numbers, and taken; none changes its message.
RowsMove ==
  /\ nextID <= nextID'
  /\ \A id \in Rows' :
       \/ nextID <= id
       \/ /\ id \in Rows
          /\ messages'[id].user = messages[id].user
          /\ messages'[id].origin = messages[id].origin

LEMMA ListedStays ==
  ASSUME NEW p, PopTyped(pop[p]), Listed(p), nextID \in Nat, nextID' \in Nat,
         RowsMove, SameList(pop[p], pop'[p])
  PROVE  Listed(p)'
<1>1. CASE pop'[p].list = <<>>
  <2>1. 1..Len(<<>>) = {}
    OBVIOUS
  <2> QED
    BY <1>1, <2>1 DEF Listed
<1>2. CASE pop'[p].list # <<>>
  <2>1. /\ pop'[p].userID = pop[p].userID
        /\ Len(pop'[p].list) = Len(pop[p].list)
        /\ \A i \in 1..Len(pop[p].list) :
             /\ pop'[p].list[i].id = pop[p].list[i].id
             /\ pop'[p].list[i].origin = pop[p].list[i].origin
    BY <1>2 DEF SameList
  <2>2. ASSUME NEW i \in 1..Len(pop[p].list), NEW id, id = pop[p].list[i].id
        PROVE  /\ id < nextID'
               /\ id \in Rows' =>
                    /\ messages'[id].user = pop[p].userID
                    /\ messages'[id].origin = pop[p].list[i].origin
    <3>1. /\ id < nextID
          /\ id \in Rows => /\ messages[id].user = pop[p].userID
                            /\ messages[id].origin = pop[p].list[i].origin
      BY <2>2 DEF Listed
    <3>2. id \in Nat
      <4>1. pop[p].list[i] \in ListEntry
        BY DEF PopTyped
      <4> QED
        BY <2>2, <4>1, StoreAssumption DEF ListEntry, MsgID
    <3>3. id < nextID' /\ ~(nextID <= id)
      BY <3>1, <3>2 DEF RowsMove
    <3> QED
      BY <3>1, <3>3 DEF RowsMove
  <2> QED
    BY <2>1, <2>2 DEF Listed
<1> QED
  BY <1>1, <1>2

LEMMA StepsPop ==
  ASSUME PopInv, nextID \in Nat, nextID' \in Nat, RowsMove,
         NEW p \in PopSessions, Steps(p)
  PROVE  PopInv'
<1>1. ASSUME NEW q \in PopSessions
      PROVE  IsSession(pop'[q]) /\ PopTyped(pop'[q]) /\ Listed(q)'
  <2>1. CASE q = p
    BY <2>1, PopCurrent, ListedStays DEF Steps, Changes
  <2>2. CASE q # p
    <3>1. pop'[q] = pop[q]
      BY <2>2 DEF Steps, Changes
    <3> QED
      BY <3>1, PopCurrent, ListedStays DEF SameList
  <2> QED
    BY <2>1, <2>2
<1>2. PopShape'
  BY <1>1 DEF PopShape, Steps, Changes
<1> QED
  BY <1>1, <1>2 DEF PopInv, PopTyped

LEMMA StaysPop ==
  ASSUME PopInv, nextID \in Nat, nextID' \in Nat, RowsMove, UNCHANGED pop
  PROVE  PopInv'
<1>1. ASSUME NEW q \in PopSessions
      PROVE  IsSession(pop'[q]) /\ PopTyped(pop'[q]) /\ Listed(q)'
  BY PopCurrent, ListedStays DEF SameList
<1>2. PopShape'
  BY DEF PopInv, PopShape
<1> QED
  BY <1>1, <1>2 DEF PopInv, PopTyped

\* The list is what the database answers: rows of the user.
LEMMA LoadsPop ==
  ASSUME PopInv, SP!MailInv(Gone), NEW p \in PopSessions, Pop!LoadMessages(p)
  PROVE  PopInv'
<1>1. /\ IsSession(pop[p]) /\ PopTyped(pop[p])
      /\ pop = [q \in PopSessions |-> pop[q]]
  BY PopCurrent
<1>2. /\ pop[p].step = "load" /\ pop[p].userID # 0
      /\ messages' = messages /\ nextID' = nextID
      /\ nextID \in Nat /\ nextID' \in Nat
  <2>1. pop[p].step = "load"
    BY DEF Pop!LoadMessages
  <2> QED
    BY <1>1, <2>1, StoreKnown DEF PopTyped, Pop!LoadMessages
<1>3. Rows' = Rows /\ RowsMove
  <2>1. Rows' = Rows
    BY <1>2 DEF Rows
  <2> QED
    BY <1>2, <2>1 DEF RowsMove
<1>4. CASE pop' = [pop EXCEPT ![p].step = "sizes", ![p].k = 1]
  <2>1. PICK m : m = [pop[p] EXCEPT !.step = "sizes", !.k = 1]
    OBVIOUS
  <2>2. /\ IsSession(m)
        /\ m.step = "sizes" /\ m.k = 1
        /\ m.list = pop[p].list /\ m.userID = pop[p].userID
        /\ m.szUser = pop[p].szUser
    BY <1>1, <2>1 DEF IsSession, Fields
  <2>3. SameList(pop[p], m) /\ PopTyped(m)
    BY <1>1, <2>2 DEF SameList, PopTyped
  <2>4. pop' = [pop EXCEPT ![p] = m]
    BY <1>4, <2>1
  <2>5. Steps(p)
    BY <2>2, <2>3, <2>4, NewSteps
  <2> QED
    BY <1>2, <1>3, <2>5, StepsPop
<1>5. ASSUME NEW ids \in Pop!GetMessageList(pop[p].userID, MaxItems),
             pop' = [pop EXCEPT ![p].step = "sizes", ![p].k = 1,
                                ![p].list = [i \in DOMAIN ids |->
                                               Pop!ListItem(ids[i])]]
      PROVE  PopInv'
  <2>1. PICK list, m : /\ list = [i \in DOMAIN ids |-> Pop!ListItem(ids[i])]
                       /\ m = [pop[p] EXCEPT !.step = "sizes", !.k = 1,
                                             !.list = list]
    OBVIOUS
  <2>2. /\ IsSession(m)
        /\ m.step = "sizes" /\ m.k = 1
        /\ m.list = list /\ m.userID = pop[p].userID
        /\ m.szUser = pop[p].szUser
    BY <1>1, <2>1 DEF IsSession, Fields
  <2>3. PICK n \in Nat : ids \in [1..n -> Mailbox(pop[p].userID)]
    BY MailboxList
  <2>4. \A i \in 1..n : /\ ids[i] \in Rows
                        /\ messages[ids[i]].user = pop[p].userID
    BY <2>3 DEF Mailbox
  <2>5. ASSUME NEW i \in 1..n
        PROVE  /\ list[i] \in ListEntry /\ list[i].id = ids[i]
               /\ list[i].origin = messages[ids[i]].origin
    <3>1. /\ list[i] = [id |-> ids[i], size |-> messages[ids[i]].size,
                        deleted |-> FALSE,
                        origin |-> messages[ids[i]].origin]
      BY <2>1, <2>3 DEF Pop!ListItem
    <3>2. /\ ids[i] \in MsgID /\ messages[ids[i]].size \in Int
          /\ messages[ids[i]].origin \in [mail : SmtpSessions \X Nat,
                                          rcpt : UserID \cup Address]
      BY <2>4, StoreKnown
    <3> QED
      BY <3>1, <3>2 DEF ListEntry
  <2>6. list \in Seq(ListEntry) /\ Len(list) = n
    <3>1. list \in [1..n -> ListEntry]
      BY <2>1, <2>3, <2>5
    <3> QED
      BY <3>1
  <2>7. PopTyped(m)
    BY <1>1, <1>2, <2>2, <2>6 DEF PopTyped
  <2>8. Changes(p) /\ pop'[p] = m
    <3>1. pop' = [pop EXCEPT ![p] = m]
      BY <1>5, <2>1
    <3> QED
      BY <2>2, <3>1, NewRecord
  <2>9. Listed(p)'
    <3>1. \A i \in 1..n : ids[i] < nextID
      BY <2>4, StoreKnown
    <3> QED
      BY <1>2, <1>3, <2>2, <2>4, <2>5, <2>6, <2>8, <3>1 DEF Listed
  <2>10. ASSUME NEW q \in PopSessions
         PROVE  IsSession(pop'[q]) /\ PopTyped(pop'[q]) /\ Listed(q)'
    <3>1. CASE q = p
      BY <2>7, <2>8, <2>9, <3>1 DEF Changes
    <3>2. CASE q # p
      <4>1. pop'[q] = pop[q]
        BY <2>8, <3>2 DEF Changes
      <4> QED
        BY <1>2, <1>3, <4>1, PopCurrent, ListedStays DEF SameList
    <3> QED
      BY <3>1, <3>2
  <2> QED
    BY <2>8, <2>10 DEF PopInv, PopShape, Changes, PopTyped
<1> QED
  BY <1>4, <1>5 DEF Pop!LoadMessages

------------------------------------------------------------------------------
(***************************************************************************)
(* What the POP3 sessions do to the store: rows and lines go, and what has *)
(* gone is collected.                                                      *)
(***************************************************************************)
Takes ==
  /\ messages' \in [MsgID -> SP!Row \cup {NoRow}]
  /\ bodies' \in [MsgID -> Seq(SP!Line)]
  /\ \A id \in MsgID : /\ messages'[id] \in {messages[id], NoRow}
                       /\ bodies'[id] \in {bodies[id], <<>>}
  /\ nextID' = nextID
  /\ faults' \in {faults, faults + 1, faults + 2}
  /\ Collect

LEMMA KeepTakes ==
  ASSUME SP!MailInv(Gone), UNCHANGED <<messages, bodies, nextID>>,
         faults' \in {faults, faults + 1, faults + 2}, Collect
  PROVE  Takes /\ Taken = {}
<1>1. Taken = {}
  BY DEF Taken, Rows
<1> QED
  BY <1>1, StoreKnown DEF Takes

LEMMA DeleteTakes ==
  ASSUME SP!MailInv(Gone), NEW id \in MsgID, nextID' = nextID,
         faults' \in {faults, faults + 1, faults + 2}, Collect,
         messages' \in {messages, [messages EXCEPT ![id] = NoRow]},
         bodies' \in {bodies, [bodies EXCEPT ![id] = <<>>]}
  PROVE  Takes /\ Taken \subseteq {id}
<1>1. /\ messages \in [MsgID -> SP!Row \cup {NoRow}]
      /\ bodies \in [MsgID -> Seq(SP!Line)]
  BY StoreKnown
<1>2. /\ messages' \in [MsgID -> SP!Row \cup {NoRow}]
      /\ \A x \in MsgID : /\ messages'[x] \in {messages[x], NoRow}
                          /\ x # id => messages'[x] = messages[x]
  BY <1>1
<1>3. /\ bodies' \in [MsgID -> Seq(SP!Line)]
      /\ \A x \in MsgID : /\ bodies'[x] \in {bodies[x], <<>>}
                          /\ x # id => bodies'[x] = bodies[x]
  <2>1. <<>> \in Seq(SP!Line)
    OBVIOUS
  <2> QED
    BY <1>1, <2>1
<1>4. Taken \subseteq {id}
  BY <1>2, <1>3 DEF Taken, Rows
<1> QED
  BY <1>2, <1>3, <1>4 DEF Takes

\* A row that is not taken stays, with its lines.
LEMMA NotTaken ==
  ASSUME Takes
  PROVE  /\ Rows' \subseteq Rows
         /\ \A id \in Rows' : messages'[id] = messages[id]
         /\ \A id \in Rows \ Taken : /\ id \in Rows'
                                     /\ messages'[id] = messages[id]
                                     /\ bodies'[id] = bodies[id]
BY DEF Takes, Taken, Rows

LEMMA GoneGrows ==
  ASSUME SP!MailInv(Gone), Collect
  PROVE  Gone' = Gone \cup {messages[id].origin : id \in Taken}
<1> DEFINE Entry(id) == [id |-> id, mail |-> messages[id].origin.mail,
                         rcpt |-> messages[id].origin.rcpt,
                         n |-> Cardinality(OwnLines(id))]
<1>1. collected' = collected \cup {Entry(id) : id \in Taken}
  BY DEF Collect
<1>2. \A id \in Taken :
        SP!Copy(Entry(id).mail, Entry(id).rcpt) = messages[id].origin
  <2>1. \A id \in Taken :
          messages[id].origin \in [mail : SmtpSessions \X Nat,
                                   rcpt : UserID \cup Address]
    BY StoreKnown DEF Taken
  <2> QED
    BY <2>1 DEF SP!Copy
<1> HIDE DEF Entry
<1>3. Gone' = {SP!Copy(c.mail, c.rcpt) : c \in collected'}
  BY DEF Gone, SP!Copy
<1> QED
  BY <1>1, <1>2, <1>3 DEF Gone

LEMMA TakesMail ==
  ASSUME IInv, Takes, UNCHANGED <<smtp, receipts>>
  PROVE  /\ SP!MailInv(Gone)'
         /\ CollectedOK'
         /\ RowsMove
         /\ nextID \in Nat /\ nextID' \in Nat
<1>1. SP!MailInv(Gone) /\ CollectedOK
  BY DEF IInv
<1>2. /\ nextID \in Nat \ {0} /\ nextID' = nextID /\ faults \in Nat
      /\ SP!StoreTyped /\ faults' \in {faults, faults + 1, faults + 2}
  BY <1>1, StoreKnown DEF Takes
<1>3. SP!Rows = Rows /\ SP!Rows' = Rows' /\ SP!MsgID = MsgID
  BY DEF SP!Rows, Rows, SP!MsgID, MsgID
<1>4. SP!StoreTyped'
  <2>1. faults' \in Nat
    BY <1>2
  <2>2. \A id \in Rows' : id < nextID'
    BY <1>1, <1>2, NotTaken, StoreKnown
  <2>3. \A id \in MsgID : nextID' <= id => bodies'[id] = <<>>
    BY <1>2, <1>3 DEF SP!StoreTyped, Takes
  <2> QED
    BY <1>2, <1>3, <2>1, <2>2, <2>3 DEF SP!StoreTyped, Takes
<1>5. Gone' = Gone \cup {messages[id].origin : id \in Taken}
  BY <1>1, GoneGrows DEF Takes
<1>6. SP!Evolves({}, Gone, Gone')
  <2>1. Gone' \subseteq Gone \cup SP!Copies
    BY <1>3, <1>5 DEF SP!Copies, Taken
  <2>2. \A id \in Rows :
          \/ messages[id].origin \in Gone'
          \/ id \in Rows' /\ bodies'[id] = bodies[id]
    BY <1>5, NotTaken
  <2>3. nextID <= nextID' /\ (faults' = 0 => faults = 0)
    BY <1>2
  <2> QED
    BY <1>3, <1>5, <2>1, <2>2, <2>3, NotTaken DEF SP!Evolves
<1>7. SP!MailInv(Gone)'
  BY <1>1, <1>4, <1>6, SP!TakenMail, StoreAssumption, RecipientsAssumption,
     Parameters DEF SP!MessageAssumption
<1>8. CollectedOK'
  <2>1. \A c \in collected' : c \in collected \/ \E id \in Taken : c.id = id
    BY DEF Takes, Collect
  <2>2. \A id \in Taken : id \in Nat /\ id < nextID
    <3>1. MsgID \subseteq Nat
      BY StoreAssumption DEF MsgID
    <3> QED
      BY <1>1, <3>1, StoreKnown DEF Taken
  <2> QED
    BY <1>1, <1>2, <2>1, <2>2 DEF CollectedOK
<1>9. RowsMove
  BY <1>2, NotTaken DEF RowsMove
<1> QED
  BY <1>2, <1>7, <1>8, <1>9

\* OnClose deletes what is marked in its list, and of its user.
LEMMA MarkedIsOwn ==
  ASSUME IInv, NEW p \in PopSessions, pop[p].step = "delete",
         pop[p].k <= Len(pop[p].list), pop[p].list[pop[p].k].deleted
  PROVE  /\ pop[p].list[pop[p].k].id \in MsgID
         /\ pop[p].list[pop[p].k].id \in Rows =>
              Pop!DeletedForThisSession(pop[p].list[pop[p].k].id, p)
<1> DEFINE k == pop[p].k
           item == pop[p].list[k]
<1>1. PopTyped(pop[p]) /\ Listed(p)
  BY PopCurrent DEF IInv
<1>2. k \in 1..Len(pop[p].list) /\ item \in ListEntry
  <2>1. k \in 1..Len(pop[p].list)
    BY <1>1 DEF PopTyped
  <2> QED
    BY <1>1, <2>1 DEF PopTyped
<1>3. item.id \in MsgID
  BY <1>2 DEF ListEntry
<1>4. item.id \in Rows => /\ messages[item.id].user = pop[p].userID
                          /\ messages[item.id].origin = item.origin
  BY <1>1, <1>2 DEF Listed
<1> QED
  BY <1>2, <1>3, <1>4 DEF Pop!DeletedForThisSession, Pop!Marked

LEMMA OtherTakes ==
  ASSUME IInv, NEW p \in PopSessions, AlsoPop,
         Pop!Thread(p) \/ Pop!Client(p), ~Pop!DeleteMarked(p)
  PROVE  Takes /\ Taken = {}
<1>1. UNCHANGED <<messages, bodies, nextID>>
  BY DEF Pop!Thread, Pop!Client, Pop!LoadMessages, Pop!ComputeSize, Pop!Loaded,
     Pop!OnClose, Pop!Closed, Pop!OnStart, Pop!ProcessUSER, Pop!ProcessPASS,
     Pop!ProcessLIST, Pop!ProcessDELE, Pop!ProcessQUIT, Pop!IdleLimitReached,
     Pop!LoseConnection, Pop!DestroyedInCallback, Pop!Keep, Pop!Assertion, Pop!store
<1>2. faults' \in {faults, faults + 1, faults + 2}
  BY DEF Pop!Thread, Pop!Client, Pop!LoadMessages, Pop!ComputeSize, Pop!Loaded,
     Pop!OnClose, Pop!Closed, Pop!OnStart, Pop!ProcessUSER, Pop!ProcessPASS,
     Pop!ProcessLIST, Pop!ProcessDELE, Pop!ProcessQUIT, Pop!IdleLimitReached,
     Pop!LoseConnection, Pop!DestroyedInCallback, Pop!Keep, Pop!Assertion, Pop!store, Pop!Succeeds,
     Pop!Fails
<1> QED
  BY <1>1, <1>2, KeepTakes DEF IInv, AlsoPop

LEMMA DeletesTake ==
  ASSUME IInv, NEW p \in PopSessions, AlsoPop, Pop!DeleteMarked(p)
  PROVE  /\ Takes
         /\ \A id \in Taken : /\ Taken = {id}
                              /\ Pop!DeletedForThisSession(id, p)
<1> DEFINE item == pop[p].list[pop[p].k]
<1>1. Collect /\ SP!MailInv(Gone)
  BY DEF IInv, AlsoPop
<1>2. CASE ~item.deleted
  <2>1. UNCHANGED <<messages, bodies, nextID, faults>>
    BY <1>2 DEF Pop!DeleteMarked, Pop!Keep, Pop!store
  <2> QED
    BY <1>1, <2>1, KeepTakes
<1>3. CASE item.deleted
  <2>1. /\ item.id \in MsgID
        /\ item.id \in Rows => Pop!DeletedForThisSession(item.id, p)
    BY <1>3, MarkedIsOwn DEF Pop!DeleteMarked
  <2>2. /\ messages' \in {messages, [messages EXCEPT ![item.id] = NoRow]}
        /\ bodies' \in {bodies, [bodies EXCEPT ![item.id] = <<>>]}
        /\ faults' \in {faults, faults + 1, faults + 2} /\ nextID' = nextID
    BY <1>3 DEF Pop!DeleteMarked, Pop!DeleteMessage, Pop!Succeeds, Pop!Fails
  <2>3. Takes /\ Taken \subseteq {item.id}
    BY <1>1, <2>1, <2>2, DeleteTakes
  <2> QED
    BY <2>1, <2>3 DEF Taken
<1> QED
  BY <1>2, <1>3

LEMMA CrashTakes ==
  ASSUME IInv, NEW p \in PopSessions, CrashInDelete(p)
  PROVE  /\ Takes
         /\ \A id \in Taken : /\ Taken = {id}
                              /\ Pop!DeletedForThisSession(id, p)
<1> DEFINE item == pop[p].list[pop[p].k]
<1>1. Collect /\ SP!MailInv(Gone)
  BY DEF IInv, CrashInDelete
<1>2. /\ item.id \in MsgID
      /\ item.id \in Rows => Pop!DeletedForThisSession(item.id, p)
  BY MarkedIsOwn DEF CrashInDelete
<1>3. /\ messages' = messages
      /\ bodies' = [bodies EXCEPT ![item.id] = <<>>]
      /\ faults' = faults /\ nextID' = nextID
  BY DEF CrashInDelete
<1>4. Takes /\ Taken \subseteq {item.id}
  BY <1>1, <1>2, <1>3, DeleteTakes
<1> QED
  BY <1>2, <1>4 DEF Taken

LEMMA WorkTakes ==
  ASSUME IInv, NEW p \in PopSessions, PopStep(p)
  PROVE  /\ Takes
         /\ \A id \in Taken : /\ Taken = {id}
                              /\ Pop!DeletedForThisSession(id, p)
         /\ UNCHANGED <<smtp, receipts, crashes>>
<1>1. AlsoPop /\ (Pop!Thread(p) \/ Pop!Client(p))
  BY DEF PopStep, Works
<1>2. CASE Pop!DeleteMarked(p)
  BY <1>1, <1>2, DeletesTake DEF AlsoPop
<1>3. CASE ~Pop!DeleteMarked(p)
  BY <1>1, <1>3, OtherTakes DEF AlsoPop
<1> QED
  BY <1>2, <1>3

LEMMA WorkKeeps ==
  ASSUME IInv, NEW p \in PopSessions, PopStep(p)
  PROVE  IInv'
<1>1. /\ SP!MailInv(Gone)' /\ CollectedOK' /\ RowsMove
      /\ nextID \in Nat /\ nextID' \in Nat
  BY WorkTakes, TakesMail
<1>2. SP!Local'
  <2>1. SP!Local /\ UNCHANGED smtp
    BY WorkTakes DEF IInv
  <2> QED
    BY <2>1, SP!Unchanged, StoreAssumption, RecipientsAssumption, Parameters
       DEF SP!MessageAssumption
<1>3. PopInv'
  <2>1. PopInv /\ SP!MailInv(Gone)
    BY DEF IInv
  <2>2. CASE Pop!LoadMessages(p)
    BY <2>1, <2>2, LoadsPop
  <2>3. CASE ~Pop!LoadMessages(p)
    <3>1. Steps(p)
      <4>1. Pop!Thread(p) \/ Pop!Client(p)
        BY DEF PopStep, Works
      <4>2. CASE Pop!ComputeSize(p)
        BY <2>1, <4>2, SizeSteps
      <4>3. CASE \E n \in 1..MaxItems : Pop!ProcessDELE(p, n)
        BY <2>1, <4>3, DeleSteps
      <4>4. CASE \/ Pop!LoseConnection(p) \/ Pop!Closed(p)
                 \/ Pop!DestroyedInCallback(p)
        BY <2>1, <4>4, OverSteps
      <4>5. CASE \/ Pop!OnStart(p)
                 \/ \E name \in UserID : Pop!ProcessUSER(p, name)
                 \/ \E valid \in BOOLEAN : Pop!ProcessPASS(p, valid)
                 \/ \E n \in {-1, 0} : Pop!ProcessLIST(p, n)
                 \/ \E bare \in BOOLEAN : Pop!ProcessQUIT(p, bare)
                 \/ Pop!IdleLimitReached(p)
                 \/ Pop!OnClose(p)
                 \/ Pop!Loaded(p)
                 \/ Pop!DeleteMarked(p)
        BY <2>1, <4>5, PlainSteps
      <4> QED
        BY <2>3, <4>1, <4>2, <4>3, <4>4, <4>5 DEF Pop!Thread, Pop!Client
    <3> QED
      BY <1>1, <2>1, <3>1, StepsPop
  <2> QED
    BY <2>2, <2>3
<1> QED
  BY <1>1, <1>2, <1>3 DEF IInv

------------------------------------------------------------------------------
(***************************************************************************)
(* The SMTP sessions, and the process.                                     *)
(***************************************************************************)
LEMMA MailKept ==
  ASSUME IInv, NEW s \in SmtpSessions, SmtpStep(s)
  PROVE  /\ SP!Local' /\ SP!MailInv(Gone)' /\ SP!KeepsRows
         /\ UNCHANGED <<pop, crashes, collected>>
<1>1. UNCHANGED <<pop, crashes, collected>>
  BY DEF SmtpStep, Saves, AlsoSmtp
<1>2. Gone' = Gone
  BY <1>1 DEF Gone, SP!Copy
<1>3. PICK G : G = Gone
  OBVIOUS
<1>4. SP!Local /\ SP!MailInv(G)
  BY <1>3 DEF IInv
<1> USE StoreAssumption, RecipientsAssumption, Parameters
    DEF SP!MessageAssumption
<1>5. CASE Smtp!SaveMessage(s)
  <2>1. SP!SaveMessage(s)
    BY <1>5, SameSave
  <2>2. SP!Local' /\ SP!MailInv(G)' /\ SP!KeepsRows
    BY <1>4, <2>1, SP!SaveLocal, SP!SaveMail, SP!SaveRows
  <2> QED
    BY <1>1, <1>2, <1>3, <2>2
<1>6. CASE Smtp!Sender(s)
  <2>1. SP!Sender(s)
    BY <1>6, SameSender
  <2>2. SP!Local' /\ SP!MailInv(G)' /\ SP!KeepsRows
    BY <1>4, <2>1, SP!SenderLocal, SP!SenderMail, SP!SenderRows
  <2> QED
    BY <1>1, <1>2, <1>3, <2>2
<1> QED
  BY <1>5, <1>6 DEF SmtpStep, Saves

LEMMA RowsKept ==
  ASSUME IInv, SP!KeepsRows
  PROVE  RowsMove /\ Taken = {}
<1>1. SP!Rows = Rows /\ SP!Rows' = Rows'
  BY DEF SP!Rows, Rows, SP!MsgID, MsgID
<1>2. nextID \in Nat
  BY StoreKnown DEF IInv
<1>3. RowsMove
  BY <1>1, <1>2 DEF SP!KeepsRows, RowsMove
<1>4. Taken = {}
  BY <1>1 DEF SP!KeepsRows, Taken, Rows
<1> QED
  BY <1>3, <1>4

LEMMA SmtpKeeps ==
  ASSUME IInv, NEW s \in SmtpSessions, SmtpStep(s)
  PROVE  IInv'
<1>1. /\ SP!Local' /\ SP!MailInv(Gone)' /\ RowsMove
      /\ UNCHANGED <<pop, collected>>
  BY MailKept, RowsKept
<1>2. nextID \in Nat /\ nextID' \in Nat
  <2>1. nextID \in Nat
    BY StoreKnown DEF IInv
  <2>2. nextID' \in Nat
    BY <1>1 DEF SP!MailInv, SP!StoreTyped
  <2> QED
    BY <2>1, <2>2
<1>3. PopInv'
  BY <1>1, <1>2, StaysPop DEF IInv
<1>4. CollectedOK'
  <2>1. \A c \in collected : c.id \in Nat
    BY DEF IInv, CollectedOK
  <2> QED
    BY <1>1, <1>2, <2>1 DEF IInv, CollectedOK, RowsMove
<1> QED
  BY <1>1, <1>3, <1>4 DEF IInv

\* Nothing happens to the store.
LEMMA QuietKeeps ==
  ASSUME IInv, UNCHANGED <<store, smtp, receipts, pop, collected>>
  PROVE  IInv' /\ Taken = {}
<1> USE StoreAssumption, RecipientsAssumption, Parameters
    DEF SP!MessageAssumption
<1>1. Gone' = Gone
  BY DEF Gone, SP!Copy
<1>2. Rows' = Rows /\ RowsMove /\ Taken = {} /\ nextID \in Nat /\ nextID' \in Nat
  <2>1. Rows' = Rows /\ Taken = {}
    BY DEF Rows, Taken, store
  <2>2. nextID \in Nat /\ nextID' = nextID
    BY StoreKnown DEF IInv, store
  <2> QED
    BY <2>1, <2>2 DEF RowsMove, store
<1>3. SP!Local'
  BY SP!Unchanged DEF IInv
<1>4. SP!MailInv(Gone)'
  <2>1. PICK G : G = Gone
    OBVIOUS
  <2>2. SP!MailInv(G) /\ UNCHANGED <<SP!store, smtp, receipts>>
    BY <2>1 DEF IInv, SP!store, store
  <2>3. SP!StoreTyped' /\ SP!Evolves({}, G, G)
    BY <2>2, SP!StoreKept DEF SP!MailInv
  <2>4. SP!MailInv(G)'
    BY <2>2, <2>3, SP!TakenMail
  <2> QED
    BY <1>1, <2>1, <2>4
<1>5. PopInv'
  BY <1>2, StaysPop DEF IInv
<1>6. CollectedOK'
  BY DEF IInv, CollectedOK, store
<1> QED
  BY <1>2, <1>3, <1>4, <1>5, <1>6 DEF IInv

LEMMA CrashKeeps ==
  ASSUME IInv, Crash
  PROVE  IInv' /\ Taken = {}
BY QuietKeeps DEF Crash

LEMMA CrashInDeleteKeeps ==
  ASSUME IInv, NEW p \in PopSessions, CrashInDelete(p)
  PROVE  IInv'
<1>1. Takes /\ UNCHANGED <<smtp, receipts, pop>>
  BY CrashTakes DEF CrashInDelete
<1>2. /\ SP!MailInv(Gone)' /\ CollectedOK' /\ RowsMove
      /\ nextID \in Nat /\ nextID' \in Nat
  BY <1>1, TakesMail
<1>3. SP!Local'
  BY <1>1, SP!Unchanged, StoreAssumption, RecipientsAssumption, Parameters
     DEF SP!MessageAssumption, IInv
<1>4. PopInv'
  BY <1>1, <1>2, StaysPop DEF IInv
<1> QED
  BY <1>2, <1>3, <1>4 DEF IInv

\* New objects: the lists are empty, and nothing is being received.
LEMMA RestartKeeps ==
  ASSUME IInv, Restart
  PROVE  IInv' /\ Taken = {}
<1> USE StoreAssumption, RecipientsAssumption, Parameters
    DEF SP!MessageAssumption
<1>1. UNCHANGED <<messages, bodies, nextID, faults, receipts, collected>>
  BY DEF Restart, store
<1>2. Rows' = Rows /\ RowsMove /\ Taken = {} /\ nextID \in Nat /\ nextID' \in Nat
  <2>1. Rows' = Rows /\ Taken = {}
    BY <1>1 DEF Rows, Taken
  <2>2. nextID \in Nat
    BY StoreKnown DEF IInv
  <2> QED
    BY <1>1, <2>1, <2>2 DEF RowsMove
<1>3. ASSUME NEW s \in SmtpSessions
      PROVE  /\ SP!IsMessage(smtp'[s]) /\ SP!LocalInv(s, smtp'[s])
             /\ smtp'[s].step = "none" /\ ~SP!Receives(smtp'[s])
             /\ \/ smtp'[s].state = "Done"
                \/ smtp[s].state # "Done" /\ smtp'[s].mail = smtp[s].mail
  <2>1. /\ SP!IsMessage(smtp[s]) /\ SP!LocalInv(s, smtp[s])
        /\ SP!Typed(smtp[s])
    BY SP!Current DEF IInv
  <2>2. CASE smtp[s].state = "Done"
    <3>1. smtp'[s] = smtp[s]
      BY <2>2 DEF Restart
    <3> QED
      BY <2>1, <2>2, <3>1 DEF SP!Typed, SP!Receives
  <2>3. CASE smtp[s].state # "Done"
    <3>1. PICK m : m = [Smtp!NewMessage EXCEPT !.mail = smtp[s].mail]
      OBVIOUS
    <3>2. smtp'[s] = m
      BY <2>3, <3>1 DEF Restart
    <3>3. /\ SP!IsMessage(m)
          /\ m.state = "Starting" /\ m.step = "none" /\ m.users = <<>>
          /\ m.remote = <<>> /\ m.lines = <<>> /\ ~m.authenticated
          /\ m.szUser = 0 /\ m.userID = 0 /\ m.i = 1 /\ m.j = 1 /\ m.id = 0
          /\ m.size = 0 /\ m.mail = smtp[s].mail /\ m.sent = 0
          /\ m.promised = {}
      BY <3>1 DEF Smtp!NewMessage, SP!IsMessage, SP!Fields
    <3>4. m.mail \in 0..MaxMails
      BY <2>1, <3>3 DEF SP!Typed
    <3>5. SP!LocalInv(s, m)
      BY <3>3, <3>4, SP!FreshOK
    <3> QED
      BY <2>3, <3>2, <3>3, <3>5 DEF SP!Receives
  <2> QED
    BY <2>2, <2>3
<1>4. SP!Local'
  <2>1. smtp' = [s \in SmtpSessions |-> smtp'[s]]
    BY DEF Restart
  <2> QED
    BY <1>3, <2>1 DEF SP!Local, SP!Shape
<1>5. SP!MailInv(Gone)'
  <2>1. PICK G : G = Gone
    OBVIOUS
  <2>2. Gone' = G
    BY <1>1, <2>1 DEF Gone, SP!Copy
  <2>3. SP!MailInv(G) /\ UNCHANGED <<SP!store, receipts>>
    BY <2>1 DEF IInv, SP!store, store, Restart
  <2>4. SP!MailInv(G)'
    BY <1>3, <2>3, SP!AnewMail
  <2> QED
    BY <2>2, <2>4
<1>6. PopInv'
  <2>1. ASSUME NEW p \in PopSessions
        PROVE  /\ IsSession(pop'[p]) /\ PopTyped(pop'[p])
               /\ SameList(pop[p], pop'[p])
    <3>1. CASE pop[p].state = "Done"
      <4>1. pop'[p] = pop[p]
        BY <3>1 DEF Restart
      <4> QED
        BY <4>1, PopCurrent DEF IInv, SameList
    <3>2. CASE pop[p].state # "Done"
      <4>1. pop'[p] = Pop!NewSession
        BY <3>2 DEF Restart
      <4>2. <<>> \in Seq(ListEntry)
        OBVIOUS
      <4> QED
        BY <4>1, <4>2 DEF Pop!NewSession, IsSession, PopTyped, Fields, SameList
    <3> QED
      BY <3>1, <3>2
  <2>2. \A p \in PopSessions : Listed(p)'
    BY <1>2, <2>1, PopCurrent, ListedStays DEF IInv
  <2>3. pop' = [p \in PopSessions |-> pop'[p]]
    BY DEF Restart
  <2> QED
    BY <2>1, <2>2, <2>3 DEF PopInv, PopShape, PopTyped
<1>7. CollectedOK'
  BY <1>1 DEF IInv, CollectedOK
<1> QED
  BY <1>2, <1>4, <1>5, <1>6, <1>7 DEF IInv

------------------------------------------------------------------------------
LEMMA InitIInv == Init => IInv
<1> SUFFICES ASSUME Init PROVE IInv
  OBVIOUS
<1>1. SP!InitStore /\ SP!InitMessage
  BY DEF Init, InitStore, SP!InitStore, SP!MsgID, MsgID, Smtp!InitMessage,
         SP!InitMessage, Smtp!NewMessage, SP!NewMessage
<1>2. collected = {} /\ Gone = {}
  BY DEF Init, Gone
<1>3. SP!Local /\ SP!MailInv(Gone)
  BY <1>1, <1>2, SP!InitLocal, SP!InitMail, StoreAssumption,
     RecipientsAssumption, Parameters DEF SP!MessageAssumption
<1>4. PopInv
  <2>1. pop = [p \in PopSessions |-> Pop!NewSession]
    BY DEF Init, Pop!InitPop
  <2>2. IsSession(Pop!NewSession) /\ PopTyped(Pop!NewSession)
        /\ Pop!NewSession.list = <<>>
    <3>1. <<>> \in Seq(ListEntry)
      OBVIOUS
    <3> QED
      BY <3>1 DEF Pop!NewSession, IsSession, PopTyped, Fields
  <2>3. 1..Len(<<>>) = {}
    OBVIOUS
  <2> QED
    BY <2>1, <2>2, <2>3 DEF PopInv, PopShape, Listed
<1> QED
  BY <1>2, <1>3, <1>4 DEF IInv, CollectedOK

LEMMA NextIInv == IInv /\ [Next \/ Terminated]_vars => IInv'
<1> SUFFICES ASSUME IInv, [Next \/ Terminated]_vars PROVE IInv'
  OBVIOUS
<1>1. CASE UNCHANGED vars
  BY <1>1, QuietKeeps DEF vars
<1>2. CASE Next
  BY <1>2, SmtpKeeps, WorkKeeps, CrashKeeps, CrashInDeleteKeeps, RestartKeeps
     DEF Next
<1> QED
  BY <1>1, <1>2 DEF Terminated

LEMMA IInvHolds == Spec => []IInv
BY InitIInv, NextIInv, PTL DEF Spec

(***************************************************************************)
(* While a session has a message in its list, and the row is there, it is  *)
(* the message that was listed, whatever other sessions delete and deliver.*)
(***************************************************************************)
THEOREM StableNumbers == Spec => []NumbersKeepTheirMeaning
<1>1. IInv => NumbersKeepTheirMeaning
  BY DEF IInv, PopInv, Listed, NumbersKeepTheirMeaning
<1> QED
  BY <1>1, IInvHolds, PTL

(***************************************************************************)
(* Mail a client got 250 for is there, in full, for each recipient that    *)
(* was confirmed, until somebody collects it, across crashes, unless a     *)
(* statement has failed.                                                   *)
(***************************************************************************)
THEOREM AcceptedUntilTaken == Spec => []AcceptedIsKept
<1>1. IInv => AcceptedIsKept
  <2> SUFFICES ASSUME IInv, faults = 0, NEW r \in SP!Promises
               PROVE  Kept(r) \/ WasCollected(r)
    BY SameOperators DEF AcceptedIsKept
  <2>1. \/ SP!Copy(r.mail, r.rcpt) \in Gone
        \/ \E id \in SP!MsgID : SP!Complete(id, r)
    BY DEF IInv, SP!MailInv, SP!Acknowledged
  <2>2. CASE SP!Copy(r.mail, r.rcpt) \in Gone
    BY <2>2 DEF Gone, SP!Copy, WasCollected
  <2>3. CASE \E id \in SP!MsgID : SP!Complete(id, r)
    <3>1. \A id : SP!Complete(id, r) => Smtp!Complete(id, r)
      BY DEF SP!Complete, Smtp!Complete, SP!EndsWith, Smtp!EndsWith, SP!Rows,
             Smtp!Rows, SP!MsgID, Smtp!MsgID
    <3> QED
      BY <2>3, <3>1 DEF Kept, SP!MsgID, MsgID
  <2> QED
    BY <2>1, <2>2, <2>3
<1> QED
  BY <1>1, IInvHolds, PTL

(***************************************************************************)
(* A row, or the lines of one, is only taken in the OnClose of a session   *)
(* of its user in which that very message was marked.                      *)
(***************************************************************************)
THEOREM TakenWhenMarked == Spec => OnlyMarkedTaken
<1>1. IInv /\ [Next \/ Terminated]_vars
      => [\A id \in Taken :
            \E p \in PopSessions : Pop!DeletedForThisSession(id, p)]_vars
  <2> SUFFICES ASSUME IInv, [Next \/ Terminated]_vars
               PROVE  \A id \in Taken :
                        \E p \in PopSessions : Pop!DeletedForThisSession(id, p)
    OBVIOUS
  <2>1. CASE UNCHANGED vars
    BY <2>1, QuietKeeps DEF vars
  <2>2. ASSUME NEW s \in SmtpSessions, SmtpStep(s)
        PROVE  Taken = {}
    BY <2>2, MailKept, RowsKept
  <2>3. CASE Next
    BY <2>2, <2>3, WorkTakes, CrashKeeps, CrashTakes, RestartKeeps DEF Next
  <2> QED
    BY <2>1, <2>3 DEF Terminated
<1> QED
  BY <1>1, IInvHolds, PTL DEF Spec, OnlyMarkedTaken

------------------------------------------------------------------------------
(***************************************************************************)
(* The refinement: what a step is to MailContract.                         *)
(***************************************************************************)
Stored == {Item(id, messages[id].origin) : id \in Rows} \ CollectedItems

Accepted == {[mail |-> r.mail, rcpt |-> r.rcpt] : r \in Smtp!Promises}

Everything == Stored \cup CollectedItems

LEMMA ContractState ==
  /\ Contract!contractVars = <<Stored, Accepted, CollectedItems>>
  /\ Contract!contractVars' = <<Stored, Accepted, CollectedItems>>'
  /\ Contract!Items = Everything
BY DEF Contract!contractVars, Contract!Items, Everything, Stored, Accepted

\* An item is the copy of a row, or one that was collected.
LEMMA ItemsKnown ==
  ASSUME IInv, NEW item \in Everything
  PROVE  \/ \E id \in Rows : /\ item = Item(id, messages[id].origin)
                             /\ SP!Copy(item.mail, item.rcpt)
                                  = messages[id].origin
         \/ \E c \in collected : /\ item.id = c.id
                                 /\ SP!Copy(item.mail, item.rcpt)
                                      = SP!Copy(c.mail, c.rcpt)
<1>1. CASE item \in Stored
  <2>1. PICK id \in Rows : item = Item(id, messages[id].origin)
    BY <1>1 DEF Stored
  <2>2. messages[id].origin \in [mail : SmtpSessions \X Nat,
                                 rcpt : UserID \cup Address]
    BY StoreKnown DEF IInv
  <2>3. SP!Copy(item.mail, item.rcpt) = messages[id].origin
    BY <2>1, <2>2 DEF Item, SP!Copy
  <2> QED
    BY <2>1, <2>3
<1>2. CASE item \in CollectedItems
  BY <1>2 DEF CollectedItems, Item, SP!Copy
<1> QED
  BY <1>1, <1>2 DEF Everything

LEMMA CopiesStored ==
  ASSUME NEW mail, NEW rcpt, SP!Copy(mail, rcpt) \in SP!Copies \cup Gone
  PROVE  \E item \in Everything : item.mail = mail /\ item.rcpt = rcpt
<1>1. CASE SP!Copy(mail, rcpt) \in SP!Copies
  <2>1. PICK id \in Rows : messages[id].origin = SP!Copy(mail, rcpt)
    BY <1>1 DEF SP!Copies, SP!Rows, Rows, SP!MsgID, MsgID
  <2>2. Item(id, messages[id].origin) \in Everything
    BY <2>1 DEF Everything, Stored
  <2> QED
    BY <2>1, <2>2 DEF Item, SP!Copy
<1>2. CASE SP!Copy(mail, rcpt) \in Gone
  <2>1. PICK c \in collected : SP!Copy(c.mail, c.rcpt) = SP!Copy(mail, rcpt)
    BY <1>2 DEF Gone
  <2>2. Item(c.id, c) \in Everything
    BY <2>1 DEF Everything, CollectedItems
  <2> QED
    BY <2>1, <2>2 DEF Item, SP!Copy
<1> QED
  BY <1>1, <1>2

LEMMA SameContract ==
  ASSUME Rows' = Rows,
         \A id \in Rows : messages'[id].origin = messages[id].origin,
         UNCHANGED <<collected, Smtp!Promises>>
  PROVE  UNCHANGED Contract!contractVars
<1>1. CollectedItems' = CollectedItems
  BY DEF CollectedItems, Item
<1>2. Stored' = Stored
  BY <1>1 DEF Stored, Item
<1>3. Accepted' = Accepted
  BY DEF Accepted
<1> QED
  BY <1>1, <1>2, <1>3, ContractState

\* A row that is inserted is a copy that is stored.
LEMMA RowContract ==
  ASSUME IInv, NEW s \in SmtpSessions, Smtp!SaveRow(s), smtp' # smtp, AlsoSmtp
  PROVE  Contract!Next
<1> USE StoreAssumption, RecipientsAssumption, Parameters
    DEF SP!MessageAssumption
<1>1. PICK G, copy :
        /\ G = Gone
        /\ copy = SP!Copy(SP!MailOf(s), SP!AllRecipients(s)[smtp[s].i])
  OBVIOUS
<1>2. /\ SP!Local /\ SP!MailInv(G) /\ SP!SaveRow(s)
      /\ SP!Rows = Rows /\ SP!Rows' = Rows' /\ SP!MsgID = MsgID
  BY <1>1, SameSave DEF IInv, SP!Rows, Rows, SP!MsgID, MsgID
<1>3. /\ nextID \in MsgID
      /\ Rows' = Rows \cup {nextID}
      /\ messages'[nextID].origin = copy
      /\ \A id \in Rows : id # nextID /\ messages'[id] = messages[id]
      /\ copy.mail \in SmtpSessions \X (1..MaxMails)
      /\ copy.rcpt \in UserID \cup Address
      /\ copy.rcpt \in UserID => copy \notin SP!Copies \cup G
      /\ \A r \in receipts : r.mail # copy.mail
      /\ UNCHANGED receipts
  BY <1>1, <1>2, SP!RowIsNew
<1>4. SP!Copy(copy.mail, copy.rcpt) = copy
  BY <1>1 DEF SP!Copy
<1>5. UNCHANGED collected
  BY DEF AlsoSmtp
<1>6. CollectedItems' = CollectedItems /\ Accepted' = Accepted
  BY <1>3, <1>5 DEF CollectedItems, Item, Accepted, Smtp!Promises
<1> DEFINE new == [id |-> nextID, mail |-> copy.mail, rcpt |-> copy.rcpt]
<1>7. \A item \in Everything :
        /\ item.id # nextID
        /\ ~(item.mail = copy.mail /\ item.rcpt = copy.rcpt
             /\ copy.rcpt \in UserID)
  <2> SUFFICES ASSUME NEW item \in Everything
               PROVE  /\ item.id # nextID
                      /\ ~(item.mail = copy.mail /\ item.rcpt = copy.rcpt
                           /\ copy.rcpt \in UserID)
    OBVIOUS
  <2>1. ASSUME NEW id \in Rows, item = Item(id, messages[id].origin),
               SP!Copy(item.mail, item.rcpt) = messages[id].origin
        PROVE  /\ item.id # nextID
               /\ SP!Copy(item.mail, item.rcpt) \in SP!Copies
    BY <1>2, <1>3, <2>1 DEF Item, SP!Copies
  <2>2. ASSUME NEW c \in collected, item.id = c.id,
               SP!Copy(item.mail, item.rcpt) = SP!Copy(c.mail, c.rcpt)
        PROVE  /\ item.id # nextID
               /\ SP!Copy(item.mail, item.rcpt) \in G
    <3>1. c.id \in Nat /\ c.id < nextID
      BY DEF IInv, CollectedOK
    <3>2. item.id # nextID
      BY <2>2, <3>1
    <3> QED
      BY <1>1, <2>2, <3>2 DEF Gone
  <2>3. /\ item.id # nextID
        /\ SP!Copy(item.mail, item.rcpt) \in SP!Copies \cup G
    BY <2>1, <2>2, ItemsKnown
  <2> QED
    BY <1>3, <1>4, <2>3
<1>8. Stored' = Stored \cup {new}
  <2>1. Item(nextID, messages'[nextID].origin) = new
    BY <1>3 DEF Item
  <2>2. new \notin CollectedItems
    BY <1>7 DEF Everything
  <2>3. \A id \in Rows : Item(id, messages'[id].origin)
                           = Item(id, messages[id].origin)
    BY <1>3
  <2>4. Stored' = {Item(id, messages'[id].origin) : id \in Rows'}
                     \ CollectedItems
    BY <1>6 DEF Stored, Item
  <2> HIDE DEF new
  <2> QED
    BY <1>3, <2>1, <2>2, <2>3, <2>4 DEF Stored
<1>9. \A a \in Accepted : a.mail # copy.mail
  BY <1>3 DEF Accepted, Smtp!Promises
<1>10. Contract!Store(nextID, copy.mail, copy.rcpt)
  <2> USE DEF Stored, Accepted
  <2>1. ~Contract!Acknowledged(copy.mail)
    BY <1>9 DEF Contract!Acknowledged
  <2> QED
    BY <1>6, <1>7, <1>8, <2>1 DEF Contract!Store, Contract!Items, Everything
<1> QED
  BY <1>3, <1>10 DEF Contract!Next

\* The 250 is the acknowledgement.
LEMMA DoneContract ==
  ASSUME IInv, NEW s \in SmtpSessions, Smtp!SaveDone(s), AlsoSmtp
  PROVE  Contract!Next
<1> USE StoreAssumption, RecipientsAssumption, Parameters
    DEF SP!MessageAssumption
<1>1. PICK G, mail, rcpts : /\ G = Gone /\ mail = SP!MailOf(s)
                            /\ rcpts = smtp[s].promised
  OBVIOUS
<1>2. SP!Local /\ SP!MailInv(G) /\ SP!SaveDone(s)
  BY <1>1, SameSave DEF IInv
<1>3. /\ mail \in SmtpSessions \X (1..MaxMails)
      /\ \A r \in receipts : r.mail # mail
      /\ rcpts \subseteq UserID \cup Address
      /\ \A r \in rcpts : SP!Copy(mail, r) \in SP!Copies \cup G
      /\ UNCHANGED SP!store
      /\ receipts' = receipts \cup SP!Receipts(s)
      /\ smtp[s].lines # <<>>
  BY <1>1, <1>2, SP!DoneOnce
<1>4. CollectedItems' = CollectedItems /\ Stored' = Stored
  <2>1. UNCHANGED <<messages, collected>>
    BY <1>3 DEF SP!store, AlsoSmtp
  <2> QED
    BY <2>1 DEF CollectedItems, Stored, Item, Rows
<1>5. Accepted' = Accepted \cup {[mail |-> mail, rcpt |-> r] : r \in rcpts}
  <2> DEFINE Receipt(r) == [mail |-> mail, rcpt |-> r, n |-> smtp[s].sent,
                            saved |-> TRUE]
  <2>1. SP!Receipts(s) = {Receipt(r) : r \in rcpts}
    BY <1>1, <1>3 DEF SP!Receipts
  <2>2. \A r : /\ Receipt(r).mail = mail /\ Receipt(r).rcpt = r
               /\ Receipt(r).saved
    OBVIOUS
  <2> HIDE DEF Receipt
  <2>3. Smtp!Promises' = Smtp!Promises \cup {Receipt(r) : r \in rcpts}
    BY <1>3, <2>1, <2>2 DEF Smtp!Promises
  <2>4. Accepted' = {[mail |-> r.mail, rcpt |-> r.rcpt] : r \in Smtp!Promises'}
    BY DEF Accepted, Smtp!Promises
  <2> QED
    BY <2>2, <2>3, <2>4 DEF Accepted
<1>6. \A a \in Accepted : a.mail # mail
  BY <1>3 DEF Accepted, Smtp!Promises
<1>7. \A r \in rcpts :
        \E item \in Everything : item.mail = mail /\ item.rcpt = r
  BY <1>1, <1>3, CopiesStored
<1>8. Contract!Acknowledge(mail, rcpts)
  <2> USE DEF Stored, Accepted
  <2>1. ~Contract!Acknowledged(mail)
    BY <1>6 DEF Contract!Acknowledged
  <2> QED
    BY <1>4, <1>5, <1>7, <2>1
       DEF Contract!Acknowledge, Contract!Items, Everything
<1> QED
  BY <1>3, <1>8 DEF Contract!Next

LEMMA SmtpContract ==
  ASSUME IInv, NEW s \in SmtpSessions, SmtpStep(s)
  PROVE  [Contract!Next]_(Contract!contractVars)
<1> USE StoreAssumption, RecipientsAssumption, Parameters
    DEF SP!MessageAssumption
<1>1. PICK G : G = Gone
  OBVIOUS
<1>2. /\ SP!Local /\ SP!MailInv(G) /\ AlsoSmtp
      /\ SP!Rows = Rows /\ SP!Rows' = Rows'
      /\ UNCHANGED collected
  BY <1>1 DEF IInv, SmtpStep, Saves, AlsoSmtp, SP!Rows, Rows, SP!MsgID, MsgID
<1>3. CASE Smtp!Sender(s)
  <2>1. /\ SP!Rows' = SP!Rows /\ SP!Promises' = SP!Promises
        /\ \A id \in SP!Rows : messages'[id].origin = messages[id].origin
    BY <1>2, <1>3, SameSender, SP!SenderRows
  <2>2. Smtp!Promises' = Smtp!Promises
    BY <2>1 DEF Smtp!Promises, SP!Promises
  <2> QED
    BY <1>2, <2>1, <2>2, SameContract
<1>4. CASE Smtp!SaveMessage(s)
  <2>1. CASE Smtp!SaveRow(s) /\ smtp' # smtp
    BY <1>2, <2>1, RowContract
  <2>2. CASE Smtp!SaveDone(s)
    BY <1>2, <2>2, DoneContract
  <2>3. CASE ~(Smtp!SaveRow(s) /\ smtp' # smtp) /\ ~Smtp!SaveDone(s)
    <3>1. \/ SP!SaveRow(s) /\ smtp' = smtp
          \/ SP!SaveLine(s) \/ SP!SaveOutgoing(s) \/ SP!SaveSize(s)
      BY <1>4, <2>3, SameSave
    <3>2. /\ SP!Rows' = SP!Rows
          /\ \A id \in SP!Rows : messages'[id].origin = messages[id].origin
          /\ UNCHANGED receipts
      BY <1>2, <3>1, SP!OtherStatements
    <3> QED
      BY <1>2, <3>2, SameContract DEF Smtp!Promises
  <2> QED
    BY <2>1, <2>2, <2>3
<1> QED
  BY <1>3, <1>4 DEF SmtpStep, Saves

\* A message that goes is an item that is taken, unless it had been: its
\* lines went in a step before.
LEMMA TakesContract ==
  ASSUME IInv, Takes, \A id \in Taken : Taken = {id}, UNCHANGED receipts
  PROVE  [Contract!Next]_(Contract!contractVars)
<1>1. CASE Taken = {}
  <2>1. collected' = collected
    BY <1>1 DEF Takes, Collect
  <2>2. Rows' = Rows /\ \A id \in Rows : messages'[id] = messages[id]
    BY <1>1, NotTaken
  <2> QED
    BY <2>1, <2>2, SameContract DEF Smtp!Promises
<1>2. ASSUME NEW id \in Taken
      PROVE  [Contract!Next]_(Contract!contractVars)
  <2> DEFINE item == Item(id, messages[id].origin)
             entry == [id |-> id, mail |-> messages[id].origin.mail,
                       rcpt |-> messages[id].origin.rcpt,
                       n |-> Cardinality(OwnLines(id))]
  <2>1. Taken = {id} /\ id \in Rows
    BY DEF Taken
  <2>2. collected' = collected \cup {entry}
    BY <2>1 DEF Takes, Collect
  <2>3. Item(entry.id, entry) = item
    BY DEF Item
  <2> HIDE DEF entry
  <2>4. CollectedItems' = CollectedItems \cup {item}
    <3>1. CollectedItems' = {Item(c.id, c) : c \in collected'}
      BY DEF CollectedItems, Item
    <3> HIDE DEF item
    <3> QED
      BY <2>2, <2>3, <3>1 DEF CollectedItems
  <2>5. Stored' = Stored \ {item}
    <3>1. Stored' = {Item(x, messages'[x].origin) : x \in Rows'}
                       \ CollectedItems'
      BY DEF Stored, Item
    <3>2. /\ Rows' \subseteq Rows
          /\ \A x \in Rows' : messages'[x] = messages[x]
          /\ \A x \in Rows : x = id \/ x \in Rows'
      BY <2>1, NotTaken
    <3>3. \A x \in Rows' : Item(x, messages'[x].origin)
                             = Item(x, messages[x].origin)
      BY <3>2
    <3>4. \A x : x \in Stored' <=> x \in Stored /\ x # item
      <4>1. ASSUME NEW x \in Stored'
            PROVE  x \in Stored /\ x # item
        BY <2>4, <3>1, <3>2, <3>3 DEF Stored
      <4>2. ASSUME NEW x \in Stored, x # item
            PROVE  x \in Stored'
        <5>1. PICK y \in Rows : x = Item(y, messages[y].origin)
          BY DEF Stored
        <5>2. y # id
          BY <4>2, <5>1
        <5>3. x \notin CollectedItems'
          BY <2>4, <4>2 DEF Stored
        <5> QED
          BY <3>1, <3>2, <3>3, <5>1, <5>2, <5>3
      <4> QED
        BY <4>1, <4>2
    <3> HIDE DEF item
    <3> QED
      BY <3>4
  <2>6. Accepted' = Accepted
    BY DEF Accepted, Smtp!Promises
  <2>7. CASE item \in CollectedItems
    <3>1. CollectedItems' = CollectedItems /\ item \notin Stored
      BY <2>4, <2>7 DEF Stored
    <3>2. Stored' = Stored
      BY <2>5, <3>1
    <3> QED
      BY <2>6, <3>1, <3>2, ContractState
  <2>8. CASE item \notin CollectedItems
    <3>1. item \in Stored
      BY <2>1, <2>8 DEF Stored
    <3>2. Contract!Take(item)
      <4> HIDE DEF item
      <4> QED
        BY <2>4, <2>5, <2>6 DEF Contract!Take, Stored, Accepted
    <3> QED
      BY <3>1, <3>2 DEF Contract!Next, Stored
  <2> QED
    BY <2>7, <2>8
<1> QED
  BY <1>1, <1>2

LEMMA QuietContract ==
  ASSUME UNCHANGED <<messages, receipts, collected>>
  PROVE  UNCHANGED Contract!contractVars
<1>1. Rows' = Rows
  BY DEF Rows
<1> QED
  BY <1>1, SameContract DEF Smtp!Promises

(***************************************************************************)
(* The daemon implements MailContract: each copy is stored once, under a   *)
(* number of its own, and taken once; the 250 comes after the last copy,   *)
(* and no copy comes after the 250, whatever the statements, the sessions  *)
(* and the process do in between.                                          *)
(***************************************************************************)
THEOREM Implementation == Spec => ImplementsContract
<1>1. Init => Contract!Init
  <2>1. Init => receipts = {} /\ collected = {} /\ Rows = {}
    BY DEF Init, Smtp!InitMessage, InitStore, Rows
  <2> QED
    BY <2>1 DEF Contract!Init, CollectedItems, Smtp!Promises
<1>2. IInv /\ [Next \/ Terminated]_vars
      => [Contract!Next]_(Contract!contractVars)
  <2> SUFFICES ASSUME IInv, [Next \/ Terminated]_vars
               PROVE  [Contract!Next]_(Contract!contractVars)
    OBVIOUS
  <2>1. CASE UNCHANGED vars
    BY <2>1, QuietContract DEF vars, store
  <2>2. ASSUME NEW p \in PopSessions, PopStep(p)
        PROVE  [Contract!Next]_(Contract!contractVars)
    BY <2>2, WorkTakes, TakesContract
  <2>3. ASSUME NEW p \in PopSessions, CrashInDelete(p)
        PROVE  [Contract!Next]_(Contract!contractVars)
    <3>1. UNCHANGED receipts
      BY <2>3 DEF CrashInDelete
    <3> QED
      BY <2>3, <3>1, CrashTakes, TakesContract
  <2>4. CASE Crash \/ Restart
    BY <2>4, QuietContract DEF Crash, Restart, store
  <2> QED
    BY <2>1, <2>2, <2>3, <2>4, SmtpContract DEF Next, Terminated
<1> QED
  BY <1>1, <1>2, IInvHolds, PTL DEF Spec, ImplementsContract, Contract!Spec

------------------------------------------------------------------------------
Promised == INSTANCE MailContractProofs
  WITH ID <- MsgID,
       Mail <- SmtpSessions \X (1..MaxMails),
       Rcpt <- UserID \cup Address,
       Single <- UserID,
       stored <- Stored,
       accepted <- Accepted,
       taken <- CollectedItems

(***************************************************************************)
(* What MailContract promises, the daemon keeps: a mail that was           *)
(* acknowledged is in the tables for each recipient, or was taken; a       *)
(* number never stands for two copies, an account has no mail twice, and   *)
(* what was taken does not come back.                                      *)
(***************************************************************************)
THEOREM PromiseKept == Spec => []Promised!Promise
<1>1. Contract!Init => Promised!Init
  BY DEF Contract!Init, Promised!Init, Stored, Accepted
<1>2. [Contract!Next]_(Contract!contractVars)
      => [Promised!Next]_(Promised!contractVars)
  <2>1. Contract!contractVars = Promised!contractVars
        /\ Contract!contractVars' = Promised!contractVars'
    BY DEF Contract!contractVars, Promised!contractVars, Stored, Accepted
  <2>2. Contract!Next => Promised!Next
    BY DEF Contract!Next, Promised!Next, Contract!Store, Promised!Store,
       Contract!Acknowledge, Promised!Acknowledge, Contract!Take,
       Promised!Take, Contract!Acknowledged, Promised!Acknowledged,
       Contract!Items, Promised!Items, Stored, Accepted
  <2> QED
    BY <2>1, <2>2
<1> QED
  BY <1>1, <1>2, Implementation, Promised!ContractPromise, PTL
     DEF ImplementsContract, Contract!Spec, Promised!Spec
==============================================================================
