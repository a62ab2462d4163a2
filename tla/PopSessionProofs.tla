--------------------------- MODULE PopSessionProofs --------------------------
(***************************************************************************)
(* The message list of a POP3 session, for any number of sessions, users   *)
(* and old messages and any failures: whose messages it holds, where their *)
(* sizes come from, and that just the marked ones are deleted.             *)
(***************************************************************************)
EXTENDS PopSession, FiniteSetTheorems, TLAPS

Row == [user : UserID, size : Nat, origin : MsgID]

Item == [id : MsgID, size : Int, deleted : BOOLEAN, origin : MsgID]

Fields == {"state", "step", "szUser", "userID", "loaded", "list", "k", "arg"}

IsSession(m) == m = [f \in Fields |-> m[f]]

Shape ==
  /\ pop = [p \in PopSessions |-> pop[p]]
  /\ \A p \in PopSessions : IsSession(pop[p])

TypeInv(p) ==
  /\ pop[p].state \in {"Starting", "Waiting", "Close", "Done"}
  /\ pop[p].step \in {"none", "load", "sizes", "delete"}
  /\ pop[p].szUser \in UserID \cup {0}
  /\ pop[p].userID \in UserID \cup {0}
  /\ pop[p].loaded \in BOOLEAN
  /\ pop[p].list \in Seq(Item)
  /\ pop[p].k \in 1..MaxItems + 1

StoreInv ==
  /\ messages \in [MsgID -> Row \cup {NoRow}]
  /\ bodies \in [MsgID -> {<<>>, <<"line">>}]
  /\ faults \in Nat

\* There is a list only after a login, and it is loaded once.
PhaseInv(p) ==
  /\ Len(pop[p].list) <= MaxItems
  /\ pop[p].userID = 0 =>
       /\ pop[p].list = <<>>
       /\ ~pop[p].loaded
       /\ pop[p].step \notin {"load", "sizes"}
  /\ pop[p].step \in {"load", "sizes"} => ~pop[p].loaded

\* The message, if it is there, is the user's, and the one that was listed.
OwnItem(p, i) ==
  LET item == pop[p].list[i]
  IN  item.id \in Rows => /\ messages[item.id].user = pop[p].userID
                          /\ messages[item.id].origin = item.origin

\* A size is what the store says, or not recorded and still to be computed.
SizedItem(p, i) ==
  LET item == pop[p].list[i]
  IN  faults = 0 /\ item.id \in Rows =>
        \/ SizeFollowsStore(item)
        \/ /\ messages[item.id].size = 0
           /\ item.size = 0
           /\ ~pop[p].loaded
           /\ pop[p].step = "sizes" => pop[p].k <= i

\* OnClose has deleted what was marked of the messages it is past.
DeletedItem(p, i) ==
  LET item == pop[p].list[i]
  IN  faults = 0 /\ pop[p].step = "delete" /\ item.deleted /\ i < pop[p].k =>
        item.id \notin Rows

ListInv(p) ==
  \A i \in 1..Len(pop[p].list) :
    OwnItem(p, i) /\ SizedItem(p, i) /\ DeletedItem(p, i)

SessionInv(p) == TypeInv(p) /\ PhaseInv(p) /\ ListInv(p)

IInv ==
  /\ StoreInv
  /\ Shape
  /\ \A p \in PopSessions : SessionInv(p)

------------------------------------------------------------------------------
(***************************************************************************)
(* The store: rows and lines only go, failures are not forgotten, and      *)
(* without one the lines of a row stay for as long as it does.             *)
(***************************************************************************)
Evolves ==
  /\ StoreInv'
  /\ \A id \in MsgID : /\ messages'[id] \in {messages[id], NoRow}
                       /\ bodies'[id] \in {bodies[id], <<>>}
  /\ faults' = 0 => /\ faults = 0
                    /\ \A id \in MsgID : messages'[id] # NoRow
                                            => bodies'[id] = bodies[id]

LEMMA KeepEvolves ==
  ASSUME StoreInv, UNCHANGED <<messages, bodies>>,
         faults' = faults \/ faults' = faults + 1
  PROVE  Evolves
BY DEF Evolves, StoreInv, Rows

LEMMA DeleteEvolves ==
  ASSUME StoreInv, NEW id \in MsgID, DeleteMessage(id)
  PROVE  Evolves
<1>1. /\ messages' \in [MsgID -> Row \cup {NoRow}]
      /\ bodies' \in [MsgID -> {<<>>, <<"line">>}]
      /\ faults' \in Nat
      /\ faults' = 0 => faults = 0
  BY DEF DeleteMessage, StoreInv, Succeeds, Fails
<1>2. \A n \in MsgID : /\ messages'[n] \in {messages[n], NoRow}
                       /\ bodies'[n] \in {bodies[n], <<>>}
  BY DEF DeleteMessage, StoreInv
<1>3. ASSUME faults' = 0, NEW n \in MsgID, messages'[n] # NoRow
      PROVE  bodies'[n] = bodies[n]
  <2>1. /\ bodies' = [bodies EXCEPT ![id] = <<>>]
        /\ messages' = [messages EXCEPT ![id] = NoRow]
    BY <1>3 DEF DeleteMessage, StoreInv, Fails
  <2>2. n # id
    BY <1>3, <2>1 DEF StoreInv
  <2> QED
    BY <2>1, <2>2 DEF StoreInv
<1> QED
  BY <1>1, <1>2, <1>3 DEF Evolves, StoreInv

LEMMA MailboxList ==
  ASSUME NEW user, NEW ids \in GetMessageList(user, MaxItems)
  PROVE  \E n \in 0..MaxItems : ids \in [1..n -> Mailbox(user)]
<1> DEFINE count == Cardinality(Mailbox(user))
<1>1. IsFiniteSet(MsgID)
  BY StoreAssumption, FS_Interval DEF MsgID
<1>2. IsFiniteSet(Mailbox(user))
  BY <1>1, FS_Subset DEF Mailbox, Rows
<1>3. count \in Nat
  BY <1>2, FS_CardinalityType
<1>4. ids \in [1..(IF count < MaxItems THEN count ELSE MaxItems)
                 -> Mailbox(user)]
  BY DEF GetMessageList, ListsOf, Injection
<1> QED
  BY <1>3, <1>4, PopAssumption

------------------------------------------------------------------------------
(***************************************************************************)
(* The steps of a session.                                                 *)
(***************************************************************************)
\* A step changes one session, and leaves it a record of the same fields.
Changes(p) ==
  /\ pop' = [q \in PopSessions |-> pop'[q]]
  /\ \A q \in PopSessions \ {p} : pop'[q] = pop[q]
  /\ IsSession(pop'[p])

\* The list is as before, and so is the place in it, if that matters.
SameList(p) ==
  /\ pop'[p].list = pop[p].list
  /\ pop'[p].userID = pop[p].userID
  /\ pop'[p].loaded = pop[p].loaded
  /\ \/ pop'[p].step = pop[p].step /\ pop'[p].k = pop[p].k
     \/ pop'[p].step \in {"none", "load"}
     \/ pop'[p].step = "delete" /\ pop'[p].k = 1

LEMMA ItemsTyped ==
  ASSUME NEW p, TypeInv(p), NEW i \in 1..Len(pop[p].list)
  PROVE  pop[p].list[i] \in Item /\ pop[p].list[i].id \in MsgID
<1>1. pop[p].list[i] \in Item
  BY DEF TypeInv
<1> QED
  BY <1>1 DEF Item

LEMMA SameListInv ==
  ASSUME NEW p, SessionInv(p), Evolves, SameList(p)
  PROVE  ListInv(p)'
<1>1. ASSUME NEW i \in 1..Len(pop[p].list)
      PROVE  OwnItem(p, i)' /\ SizedItem(p, i)' /\ DeletedItem(p, i)'
  <2>1. pop[p].list[i].id \in MsgID
    BY ItemsTyped DEF SessionInv
  <2>2. OwnItem(p, i) /\ SizedItem(p, i) /\ DeletedItem(p, i)
    BY DEF SessionInv, ListInv
  <2>3. i >= 1
    OBVIOUS
  <2>4. OwnItem(p, i)'
    BY <2>1, <2>2 DEF OwnItem, Evolves, Rows, SameList
  <2>5. SizedItem(p, i)'
    BY <2>1, <2>2 DEF SizedItem, SizeFollowsStore, Evolves, Rows, SameList
  <2>6. DeletedItem(p, i)'
    BY <2>1, <2>2, <2>3 DEF DeletedItem, Evolves, Rows, SameList
  <2> QED
    BY <2>4, <2>5, <2>6
<1> QED
  BY <1>1 DEF ListInv, SameList

LEMMA OneSession ==
  ASSUME IInv, NEW p \in PopSessions, Evolves, Changes(p), SessionInv(p)'
  PROVE  IInv'
<1>1. ASSUME NEW q \in PopSessions
      PROVE  IsSession(pop'[q]) /\ SessionInv(q)'
  <2>1. CASE q = p
    BY <2>1 DEF Changes
  <2>2. CASE q # p
    <3>1. pop'[q] = pop[q] /\ IsSession(pop[q]) /\ SessionInv(q)
      BY <2>2 DEF Changes, IInv, Shape
    <3>2. TypeInv(q)' /\ PhaseInv(q)'
      BY <3>1 DEF SessionInv, TypeInv, PhaseInv
    <3>3. ListInv(q)'
      BY <3>1, SameListInv DEF SameList
    <3> QED
      BY <3>1, <3>2, <3>3 DEF SessionInv
  <2> QED
    BY <2>1, <2>2
<1> QED
  BY <1>1 DEF IInv, Shape, Evolves, Changes

LEMMA Bystander ==
  ASSUME IInv, Evolves, UNCHANGED pop
  PROVE  IInv'
<1>1. ASSUME NEW p \in PopSessions PROVE SessionInv(p)'
  <2>1. SessionInv(p)
    BY DEF IInv
  <2>2. TypeInv(p)' /\ PhaseInv(p)'
    BY <2>1 DEF SessionInv, TypeInv, PhaseInv
  <2>3. ListInv(p)'
    BY <2>1, SameListInv DEF SameList
  <2> QED
    BY <2>2, <2>3 DEF SessionInv
<1> QED
  BY <1>1 DEF IInv, Shape, Evolves

LEMMA Current ==
  ASSUME IInv, NEW p \in PopSessions
  PROVE  /\ SessionInv(p) /\ TypeInv(p) /\ PhaseInv(p) /\ ListInv(p)
         /\ IsSession(pop[p])
         /\ pop = [q \in PopSessions |-> pop[q]]
         /\ StoreInv
BY DEF IInv, SessionInv, Shape

LEMMA NewRecord ==
  ASSUME IInv, NEW p \in PopSessions, NEW m, IsSession(m),
         pop' = [pop EXCEPT ![p] = m]
  PROVE  Changes(p) /\ pop'[p] = m
BY Current DEF Changes

\* Commands that leave the list alone.
LEMMA FrameInv ==
  ASSUME IInv, NEW p \in PopSessions,
         \/ OnStart(p)
         \/ \E name \in UserID : ProcessUSER(p, name)
         \/ ProcessQUIT(p, TRUE)
         \/ IdleLimitReached(p)
  PROVE  IInv'
<1>0. PICK m, state, name :
        /\ m = [pop[p] EXCEPT !.state = state, !.szUser = name]
        /\ pop' = [pop EXCEPT ![p] = m]
        /\ state \in {pop[p].state, "Waiting", "Close"}
        /\ name \in UserID \cup {pop[p].szUser}
  <2>1. IsSession(pop[p]) /\ pop = [q \in PopSessions |-> pop[q]]
    BY Current
  <2>2. CASE \E state \in {"Waiting", "Close"} :
               pop' = [pop EXCEPT ![p].state = state]
    <3>1. PICK state \in {"Waiting", "Close"} :
            pop' = [pop EXCEPT ![p] = [pop[p] EXCEPT !.state = state]]
      BY <2>2
    <3>2. [pop[p] EXCEPT !.state = state]
            = [pop[p] EXCEPT !.state = state, !.szUser = pop[p].szUser]
      BY <2>1 DEF IsSession, Fields
    <3> QED
      BY <3>1, <3>2
  <2>3. CASE \E name \in UserID : pop' = [pop EXCEPT ![p].szUser = name]
    <3>1. PICK name \in UserID :
            pop' = [pop EXCEPT ![p] = [pop[p] EXCEPT !.szUser = name]]
      BY <2>3
    <3>2. [pop[p] EXCEPT !.szUser = name]
            = [pop[p] EXCEPT !.state = pop[p].state, !.szUser = name]
      BY <2>1 DEF IsSession, Fields
    <3> QED
      BY <3>1, <3>2
  <2> QED
    BY <2>2, <2>3 DEF OnStart, ProcessUSER, ProcessQUIT, IdleLimitReached
<1>1. Changes(p) /\ pop'[p] = m
  <2>1. IsSession(m)
    BY <1>0, Current DEF IsSession, Fields
  <2> QED
    BY <1>0, <2>1, NewRecord
<1>2. /\ pop'[p].list = pop[p].list
      /\ pop'[p].userID = pop[p].userID
      /\ pop'[p].loaded = pop[p].loaded
      /\ pop'[p].step = pop[p].step
      /\ pop'[p].k = pop[p].k
      /\ pop'[p].state \in {pop[p].state, "Waiting", "Close"}
      /\ pop'[p].szUser \in UserID \cup {pop[p].szUser}
  <2>1. m = [pop[p] EXCEPT !.state = state, !.szUser = name] /\ pop'[p] = m
    BY <1>0, <1>1
  <2>2. IsSession(pop[p])
    BY Current
  <2>3. /\ state \in {pop[p].state, "Waiting", "Close"}
        /\ name \in UserID \cup {pop[p].szUser}
    BY <1>0
  <2> QED
    BY <2>1, <2>2, <2>3 DEF IsSession, Fields
<1>3. Evolves
  BY Current, KeepEvolves DEF OnStart, ProcessUSER, ProcessQUIT,
                 IdleLimitReached, Keep, store
<1>4. TypeInv(p)' /\ PhaseInv(p)'
  BY <1>2, Current, PopAssumption DEF TypeInv, PhaseInv
<1>5. ListInv(p)'
  BY <1>2, <1>3, Current, SameListInv DEF SameList
<1> QED
  BY <1>1, <1>3, <1>4, <1>5, OneSession DEF SessionInv

LEMMA OnCloseInv ==
  ASSUME IInv, NEW p \in PopSessions, OnClose(p)
  PROVE  IInv'
<1>0. PICK m : /\ m = [pop[p] EXCEPT !.step = "delete", !.k = 1]
               /\ pop' = [pop EXCEPT ![p] = m]
  BY Current DEF OnClose
<1>1. Changes(p) /\ pop'[p] = m
  <2>1. IsSession(m)
    BY <1>0, Current DEF IsSession, Fields
  <2> QED
    BY <1>0, <2>1, NewRecord
<1>2. /\ pop'[p].list = pop[p].list
      /\ pop'[p].userID = pop[p].userID
      /\ pop'[p].loaded = pop[p].loaded
      /\ pop'[p].step = "delete"
      /\ pop'[p].k = 1
      /\ pop'[p].state = pop[p].state
      /\ pop'[p].szUser = pop[p].szUser
  <2>1. m = [pop[p] EXCEPT !.step = "delete", !.k = 1] /\ pop'[p] = m
    BY <1>0, <1>1
  <2>2. IsSession(pop[p])
    BY Current
  <2> QED
    BY <2>1, <2>2 DEF IsSession, Fields
<1>3. Evolves
  BY Current, KeepEvolves DEF OnClose, Keep, store
<1>4. TypeInv(p)' /\ PhaseInv(p)'
  BY <1>2, Current, PopAssumption DEF TypeInv, PhaseInv
<1>5. ListInv(p)'
  BY <1>2, <1>3, Current, SameListInv DEF SameList
<1> QED
  BY <1>1, <1>3, <1>4, <1>5, OneSession DEF SessionInv

\* STAT, LIST and UIDL.
LEMMA ListCommandInv ==
  ASSUME IInv, NEW p \in PopSessions, NEW n \in {-1, 0}, ProcessLIST(p, n)
  PROVE  IInv'
<1>1. Evolves
  BY Current, KeepEvolves DEF ProcessLIST, Keep, Assertion, store
<1>2. CASE pop[p].loaded
  <2>1. UNCHANGED pop
    BY <1>2 DEF ProcessLIST
  <2> QED
    BY <2>1, <1>1, Bystander
<1>3. CASE ~pop[p].loaded
  <2>0. PICK m : /\ m = [pop[p] EXCEPT !.step = "load", !.arg = n]
                 /\ pop' = [pop EXCEPT ![p] = m]
    BY <1>3, Current DEF ProcessLIST
  <2>1. Changes(p) /\ pop'[p] = m
    <3>1. IsSession(m)
      BY <2>0, Current DEF IsSession, Fields
    <3> QED
      BY <2>0, <3>1, NewRecord
  <2>2. /\ pop'[p].list = pop[p].list
        /\ pop'[p].userID = pop[p].userID
        /\ pop'[p].loaded = pop[p].loaded
        /\ pop'[p].step = "load"
        /\ pop'[p].k = pop[p].k
        /\ pop'[p].state = pop[p].state
        /\ pop'[p].szUser = pop[p].szUser
    <3>1. m = [pop[p] EXCEPT !.step = "load", !.arg = n] /\ pop'[p] = m
      BY <2>0, <2>1
    <3>2. IsSession(pop[p])
      BY Current
    <3> QED
      BY <3>1, <3>2 DEF IsSession, Fields
  <2>3. pop[p].userID # 0
    BY DEF ProcessLIST
  <2>4. TypeInv(p)' /\ PhaseInv(p)'
    BY <2>2, <2>3, <1>3, Current DEF TypeInv, PhaseInv
  <2>5. ListInv(p)'
    BY <2>2, <1>1, Current, SameListInv DEF SameList
  <2> QED
    BY <1>1, <2>1, <2>4, <2>5, OneSession DEF SessionInv
<1> QED
  BY <1>2, <1>3

\* Steps after which there is no list.
LEMMA PassInv ==
  ASSUME IInv, NEW p \in PopSessions, NEW valid \in BOOLEAN,
         ProcessPASS(p, valid)
  PROVE  IInv'
<1> DEFINE id == GetUserID(pop[p].szUser, valid)
<1>0. PICK m : /\ m = [pop[p] EXCEPT !.userID = id, !.szUser = 0]
               /\ pop' = [pop EXCEPT ![p] = m]
  BY Current DEF ProcessPASS
<1>1. Changes(p) /\ pop'[p] = m
  <2>1. IsSession(m)
    BY <1>0, Current DEF IsSession, Fields
  <2> QED
    BY <1>0, <2>1, NewRecord
<1>2. /\ pop'[p].list = pop[p].list
      /\ pop'[p].userID = id
      /\ pop'[p].loaded = pop[p].loaded
      /\ pop'[p].step = pop[p].step
      /\ pop'[p].k = pop[p].k
      /\ pop'[p].state = pop[p].state
      /\ pop'[p].szUser = 0
  <2>1. m = [pop[p] EXCEPT !.userID = id, !.szUser = 0] /\ pop'[p] = m
    BY <1>0, <1>1
  <2>2. IsSession(pop[p])
    BY Current
  <2> QED
    BY <2>1, <2>2 DEF IsSession, Fields
<1>3. id \in UserID \cup {0}
  BY Current DEF TypeInv, GetUserID
<1>4. /\ pop[p].list = <<>>
      /\ ~pop[p].loaded
      /\ pop[p].step \notin {"load", "sizes"}
  BY Current DEF PhaseInv, ProcessPASS
<1>5. Evolves
  BY Current, KeepEvolves DEF ProcessPASS, Keep, store
<1>6. TypeInv(p)' /\ PhaseInv(p)'
  BY <1>2, <1>3, <1>4, Current, PopAssumption DEF TypeInv, PhaseInv
<1>7. ListInv(p)'
  BY <1>2, <1>4 DEF ListInv
<1> QED
  BY <1>1, <1>5, <1>6, <1>7, OneSession DEF SessionInv

LEMMA FinishedInv ==
  ASSUME IInv, NEW p \in PopSessions, UNCHANGED store,
         pop' = [pop EXCEPT ![p] = Finished]
  PROVE  IInv'
<1>2. pop'[p] = Finished
  BY Current
<1>3. Changes(p)
  BY Current DEF Changes, IsSession, Fields, Finished, NewSession
<1>4. /\ pop'[p].list = <<>>
      /\ pop'[p].userID = 0
      /\ pop'[p].loaded = FALSE
      /\ pop'[p].step = "none"
      /\ pop'[p].k = 1
      /\ pop'[p].state = "Done"
      /\ pop'[p].szUser = 0
  BY <1>2 DEF Finished, NewSession
<1>5. Evolves
  BY Current, KeepEvolves DEF store
<1>6. TypeInv(p)' /\ PhaseInv(p)'
  <2>1. <<>> \in Seq(Item) /\ Len(<<>>) = 0 /\ 1 \in 1..MaxItems + 1
    BY PopAssumption
  <2>2. TypeInv(p)'
    BY <1>4, <2>1 DEF TypeInv
  <2>3. PhaseInv(p)'
    BY <1>4, <2>1, PopAssumption DEF PhaseInv
  <2> QED
    BY <2>2, <2>3
<1>7. ListInv(p)'
  BY <1>4 DEF ListInv
<1> QED
  BY <1>3, <1>5, <1>6, <1>7, OneSession DEF SessionInv

------------------------------------------------------------------------------
(***************************************************************************)
(* The steps that make, change or go through the list.                     *)
(***************************************************************************)
LEMMA DeleInv ==
  ASSUME IInv, NEW p \in PopSessions, NEW n \in 1..MaxItems,
         ProcessDELE(p, n)
  PROVE  IInv'
<1> DEFINE list == pop[p].list
           item == [list[n] EXCEPT !.deleted = TRUE]
           new == [list EXCEPT ![n] = item]
<1>0. PICK m : /\ m = [pop[p] EXCEPT !.list = new]
               /\ pop' = [pop EXCEPT ![p] = m]
  BY Current DEF ProcessDELE
<1>1. Changes(p) /\ pop'[p] = m
  <2>1. IsSession(m)
    BY <1>0, Current DEF IsSession, Fields
  <2> QED
    BY <1>0, <2>1, NewRecord
<1>2. /\ pop'[p].list = new
      /\ pop'[p].userID = pop[p].userID
      /\ pop'[p].loaded = pop[p].loaded
      /\ pop'[p].step = pop[p].step
      /\ pop'[p].k = pop[p].k
      /\ pop'[p].state = pop[p].state
      /\ pop'[p].szUser = pop[p].szUser
  <2>1. m = [pop[p] EXCEPT !.list = new] /\ pop'[p] = m
    BY <1>0, <1>1
  <2>2. IsSession(pop[p])
    BY Current
  <2> QED
    BY <2>1, <2>2 DEF IsSession, Fields
<1>3. Evolves
  BY Current, KeepEvolves DEF ProcessDELE, Keep, store
<1>4. list \in Seq(Item) /\ n \in 1..Len(list) /\ list[n] \in Item
  BY Current, ItemsTyped DEF TypeInv, ProcessDELE
<1>10. pop[p].step = "none" /\ pop[p].loaded
  BY DEF ProcessDELE, Ready
<1>5. /\ item \in Item /\ item.id = list[n].id /\ item.size = list[n].size
      /\ item.origin = list[n].origin
  BY <1>4 DEF Item
<1>6. pop'[p].list \in Seq(Item) /\ Len(pop'[p].list) = Len(list)
  BY <1>2, <1>4, <1>5
<1>7. \A i \in 1..Len(list) : /\ pop'[p].list[i].id = list[i].id
                              /\ pop'[p].list[i].size = list[i].size
                              /\ pop'[p].list[i].origin = list[i].origin
  BY <1>2, <1>4, <1>5
<1>8. TypeInv(p)' /\ PhaseInv(p)'
  <2>1. pop[p].userID # 0
    BY <1>10, Current DEF PhaseInv
  <2> QED
    BY <2>1, <1>2, <1>6, <1>10, Current DEF TypeInv, PhaseInv
<1>9. ListInv(p)'
  <2>1. ASSUME NEW i \in 1..Len(list)
        PROVE  OwnItem(p, i)' /\ SizedItem(p, i)' /\ DeletedItem(p, i)'
    <3>1. list[i].id \in MsgID
      BY ItemsTyped, Current
    <3>2. OwnItem(p, i) /\ SizedItem(p, i)
      BY Current DEF ListInv
    <3>3. OwnItem(p, i)'
      BY <1>2, <1>3, <1>7, <3>1, <3>2 DEF OwnItem, Evolves, Rows
    <3>4. SizedItem(p, i)'
      BY <1>2, <1>3, <1>7, <3>1, <3>2 DEF SizedItem, SizeFollowsStore, Evolves, Rows
    <3>5. DeletedItem(p, i)'
      BY <1>2, <1>10 DEF DeletedItem
    <3> QED
      BY <3>3, <3>4, <3>5
  <2> QED
    BY <2>1, <1>6 DEF ListInv
<1> QED
  BY <1>1, <1>3, <1>8, <1>9, OneSession DEF SessionInv

LEMMA LoadInv ==
  ASSUME IInv, NEW p \in PopSessions, LoadMessages(p)
  PROVE  IInv'
<1>1. Evolves
  BY Current, KeepEvolves DEF LoadMessages, Succeeds, Fails
<1>2. ~pop[p].loaded /\ pop[p].userID # 0
  BY Current DEF PhaseInv, LoadMessages
<1>3. CASE pop' = [pop EXCEPT ![p].step = "sizes", ![p].k = 1] /\ Fails
  <2>0. PICK m : /\ m = [pop[p] EXCEPT !.step = "sizes", !.k = 1]
                 /\ pop' = [pop EXCEPT ![p] = m]
    BY <1>3, Current
  <2>1. Changes(p) /\ pop'[p] = m
    <3>1. IsSession(m)
      BY <2>0, Current DEF IsSession, Fields
    <3> QED
      BY <2>0, <3>1, NewRecord
  <2>2. /\ pop'[p].list = pop[p].list
        /\ pop'[p].userID = pop[p].userID
        /\ pop'[p].loaded = pop[p].loaded
        /\ pop'[p].step = "sizes"
        /\ pop'[p].k = 1
        /\ pop'[p].state = pop[p].state
        /\ pop'[p].szUser = pop[p].szUser
    <3>1. m = [pop[p] EXCEPT !.step = "sizes", !.k = 1] /\ pop'[p] = m
      BY <2>0, <2>1
    <3>2. IsSession(pop[p])
      BY Current
    <3> QED
      BY <3>1, <3>2 DEF IsSession, Fields
  <2>3. TypeInv(p)' /\ PhaseInv(p)'
    BY <2>2, <1>2, PopAssumption, Current DEF TypeInv, PhaseInv
  <2>4. faults' # 0
    BY <1>3, Current DEF Fails, StoreInv
  <2>5. ASSUME NEW i \in 1..Len(pop[p].list)
        PROVE  OwnItem(p, i)' /\ SizedItem(p, i)' /\ DeletedItem(p, i)'
    <3>1. pop[p].list[i].id \in MsgID
      BY ItemsTyped, Current
    <3>2. OwnItem(p, i)
      BY Current DEF ListInv
    <3>3. OwnItem(p, i)'
      BY <2>2, <1>1, <3>1, <3>2 DEF OwnItem, Evolves, Rows
    <3> QED
      BY <3>3, <2>4 DEF SizedItem, DeletedItem
  <2>6. ListInv(p)'
    BY <2>5, <2>2 DEF ListInv
  <2> QED
    BY <1>1, <2>1, <2>3, <2>6, OneSession DEF SessionInv
<1>4. CASE UNCHANGED <<messages, bodies, faults>> /\
           \E ids \in GetMessageList(pop[p].userID, MaxItems) :
             pop' = [pop EXCEPT ![p].step = "sizes", ![p].k = 1,
                                ![p].list = [i \in DOMAIN ids |->
                                               ListItem(ids[i])]]
  <2>1. PICK ids \in GetMessageList(pop[p].userID, MaxItems) :
          pop' = [pop EXCEPT ![p].step = "sizes", ![p].k = 1,
                             ![p].list = [i \in DOMAIN ids |->
                                            ListItem(ids[i])]]
    BY <1>4
  <2>12. PICK new, m :
           /\ new = [i \in DOMAIN ids |-> ListItem(ids[i])]
           /\ m = [pop[p] EXCEPT !.step = "sizes", !.k = 1, !.list = new]
           /\ pop' = [pop EXCEPT ![p] = m]
    BY <2>1, Current
  <2>2. PICK n \in 0..MaxItems : ids \in [1..n -> Mailbox(pop[p].userID)]
    BY MailboxList
  <2> DEFINE list == [i \in 1..n |-> ListItem(ids[i])]
  <2>3. Changes(p) /\ pop'[p] = m
    <3>1. IsSession(m)
      BY <2>12, Current DEF IsSession, Fields
    <3> QED
      BY <2>12, <3>1, NewRecord
  <2>4. /\ pop'[p].list = new
        /\ pop'[p].userID = pop[p].userID
        /\ pop'[p].loaded = pop[p].loaded
        /\ pop'[p].step = "sizes"
        /\ pop'[p].k = 1
        /\ pop'[p].state = pop[p].state
        /\ pop'[p].szUser = pop[p].szUser
    <3>1. /\ m = [pop[p] EXCEPT !.step = "sizes", !.k = 1, !.list = new]
          /\ pop'[p] = m
      BY <2>12, <2>3
    <3>2. IsSession(pop[p])
      BY Current
    <3> QED
      BY <3>1, <3>2 DEF IsSession, Fields
  <2>5. pop'[p].list = list
    BY <2>2, <2>4, <2>12
  <2>6. ASSUME NEW i \in 1..n
        PROVE  /\ ids[i] \in Rows
               /\ messages[ids[i]] \in Row
               /\ messages[ids[i]].user = pop[p].userID
    BY <2>2, Current DEF Mailbox, Rows, StoreInv
  <2>7. ASSUME NEW i \in 1..n
        PROVE  /\ list[i] \in Item
               /\ list[i].id = ids[i]
               /\ list[i].size = messages[ids[i]].size
               /\ list[i].origin = messages[ids[i]].origin
    BY <2>6 DEF ListItem, Row, Item, Rows
  <2>8. list \in Seq(Item) /\ Len(list) = n
    BY <2>7
  <2>9. TypeInv(p)' /\ PhaseInv(p)'
    BY <2>4, <2>5, <2>8, <1>2, PopAssumption, Current DEF TypeInv, PhaseInv
  <2>10. ASSUME NEW i \in 1..n
         PROVE  OwnItem(p, i)' /\ SizedItem(p, i)' /\ DeletedItem(p, i)'
    <3>1. i >= 1 /\ ids[i] \in MsgID
      BY <2>6 DEF Rows
    <3>3. OwnItem(p, i)'
      BY <1>4, <2>4, <2>5, <2>6, <2>7 DEF OwnItem, Rows
    <3>4. SizedItem(p, i)'
      BY <1>4, <1>2, <2>4, <2>5, <2>7, <3>1, SMTT(30)
         DEF SizedItem, SizeFollowsStore, Rows
    <3>5. DeletedItem(p, i)'
      BY <2>4 DEF DeletedItem
    <3> QED
      BY <3>3, <3>4, <3>5
  <2>11. ListInv(p)'
    BY <2>10, <2>5, <2>8 DEF ListInv
  <2> QED
    BY <1>1, <2>3, <2>9, <2>11, OneSession DEF SessionInv
<1> QED
  BY <1>3, <1>4 DEF LoadMessages, Succeeds

\* The size that is computed replaces a 0.
LEMMA ComputeInv ==
  ASSUME IInv, NEW p \in PopSessions, ComputeSize(p)
  PROVE  IInv'
<1> DEFINE list == pop[p].list
           k == pop[p].k
           Sized(n) == [list[k] EXCEPT !.size = n]
<1>1. Evolves
  BY Current, KeepEvolves DEF ComputeSize, Succeeds, Fails
<1>2. /\ pop[p].step = "sizes" /\ list \in Seq(Item) /\ k \in 1..Len(list)
      /\ list[k] \in Item /\ Len(list) <= MaxItems
      /\ list[k].id \in MsgID
  <2>1. pop[p].step = "sizes" /\ k <= Len(list)
    BY DEF ComputeSize
  <2>2. list \in Seq(Item) /\ k \in 1..MaxItems + 1 /\ Len(list) <= MaxItems
    BY Current DEF TypeInv, PhaseInv
  <2>3. k \in 1..Len(list)
    BY <2>1, <2>2, PopAssumption
  <2> QED
    BY <2>1, <2>2, <2>3, ItemsTyped, Current
<1>3. PICK n \in Int :
        /\ SetSize(p, n)
        /\ faults' = 0 => n \in SizesOf(list[k])
  <2>1. SizesOf(list[k]) \subseteq Int
    BY <1>2, Current DEF SizesOf, GetMessageLength, StoreInv, Item
  <2>2. CASE Succeeds /\ \E n \in SizesOf(list[k]) : SetSize(p, n)
    BY <2>1, <2>2
  <2>3. CASE Fails /\ SetSize(p, -1)
    <3>1. faults' # 0
      BY <2>3, Current DEF Fails, StoreInv
    <3> QED
      BY <2>3, <3>1
  <2> QED
    BY <2>2, <2>3 DEF ComputeSize
<1>4. PICK new, m : /\ new = [list EXCEPT ![k] = Sized(n)]
                    /\ m = [pop[p] EXCEPT !.list = new, !.k = k + 1]
                    /\ pop' = [pop EXCEPT ![p] = m]
  BY <1>3 DEF SetSize
<1>13. IsSession(m)
  BY <1>4, Current DEF IsSession, Fields
<1>5. Changes(p) /\ pop'[p] = m
  BY <1>4, <1>13, NewRecord
<1>6. /\ pop'[p].list = new
      /\ pop'[p].userID = pop[p].userID
      /\ pop'[p].loaded = pop[p].loaded
      /\ pop'[p].step = pop[p].step
      /\ pop'[p].k = k + 1
      /\ pop'[p].state = pop[p].state
      /\ pop'[p].szUser = pop[p].szUser
  <2>1. m = [pop[p] EXCEPT !.list = new, !.k = k + 1] /\ pop'[p] = m
    BY <1>4, <1>5
  <2>2. IsSession(pop[p])
    BY Current
  <2> QED
    BY <2>1, <2>2 DEF IsSession, Fields
<1>7. /\ Sized(n) \in Item /\ Sized(n).id = list[k].id /\ Sized(n).size = n
      /\ Sized(n).origin = list[k].origin
  BY <1>2 DEF Item
<1>8. new \in Seq(Item) /\ Len(new) = Len(list)
  BY <1>2, <1>4, <1>7
<1>9. TypeInv(p)' /\ PhaseInv(p)'
  BY <1>2, <1>6, <1>8, PopAssumption, Current DEF TypeInv, PhaseInv
<1>10. ASSUME NEW i \in 1..Len(list)
       PROVE  OwnItem(p, i)' /\ SizedItem(p, i)' /\ DeletedItem(p, i)'
  <2>1. new[i].id = list[i].id /\ new[i].origin = list[i].origin
    BY <1>2, <1>4, <1>7
  <2>2. list[i].id \in MsgID
    BY ItemsTyped, Current
  <2>3. OwnItem(p, i) /\ SizedItem(p, i)
    BY Current DEF ListInv
  <2>4. OwnItem(p, i)'
    BY <1>1, <1>6, <2>1, <2>2, <2>3 DEF OwnItem, Evolves, Rows
  <2>5. SizedItem(p, i)'
    <3>1. CASE i = k
      <4>1. new[i].size = n
        BY <3>1, <1>2, <1>4, <1>7
      <4>2. UNCHANGED <<messages, bodies>>
        BY DEF ComputeSize
      <4>3. SUFFICES ASSUME faults' = 0, list[k].id \in Rows
                     PROVE  LET id == list[k].id
                            IN  IF messages[id].size # 0
                                  THEN n = messages[id].size
                                  ELSE \/ n = Len(bodies[id])
                                       \/ n = -1 /\ bodies[id] = <<>>
        BY <1>6, <2>1, <3>1, <4>1, <4>2 DEF SizedItem, SizeFollowsStore, Rows
      <4>4. faults = 0 /\ n \in SizesOf(list[k])
        BY <1>1, <1>3, <4>3 DEF Evolves
      <4>5. \/ SizeFollowsStore(list[k])
            \/ messages[list[k].id].size = 0 /\ list[k].size = 0
        BY <2>3, <3>1, <4>3, <4>4 DEF SizedItem
      <4>6. CASE list[k].size = 0
        <5>1. messages[list[k].id].size = 0
          BY <4>5, <4>6 DEF SizeFollowsStore
        <5>2. n \in GetMessageLength(list[k].id)
          BY <4>4, <4>6 DEF SizesOf
        <5>3. Len(<<>>) = 0
          OBVIOUS
        <5> QED
          BY <5>1, <5>2, <5>3 DEF GetMessageLength
      <4>7. CASE list[k].size # 0
        BY <4>4, <4>5, <4>7 DEF SizesOf, SizeFollowsStore
      <4> QED
        BY <4>6, <4>7
    <3>2. CASE i # k
      <4>1. new[i] = list[i]
        BY <3>2, <1>2, <1>4
      <4> QED
        BY <1>1, <1>2, <1>6, <2>2, <2>3, <3>2, <4>1
           DEF SizedItem, SizeFollowsStore, Evolves, Rows
    <3> QED
      BY <3>1, <3>2
  <2>6. DeletedItem(p, i)'
    BY <1>2, <1>6 DEF DeletedItem
  <2> QED
    BY <2>4, <2>5, <2>6
<1>11. ListInv(p)'
  BY <1>6, <1>8, <1>10 DEF ListInv
<1> QED
  BY <1>1, <1>5, <1>9, <1>11, OneSession DEF SessionInv

\* All sizes have been looked at.
LEMMA LoadedInv ==
  ASSUME IInv, NEW p \in PopSessions, Loaded(p)
  PROVE  IInv'
<1>0. PICK m : /\ m = [pop[p] EXCEPT !.step = "none", !.loaded = TRUE,
                                       !.arg = 0, !.k = 1]
               /\ pop' = [pop EXCEPT ![p] = m]
  BY Current DEF Loaded
<1>1. Changes(p) /\ pop'[p] = m
  <2>1. IsSession(m)
    BY <1>0, Current DEF IsSession, Fields
  <2> QED
    BY <1>0, <2>1, NewRecord
<1>2. /\ pop'[p].list = pop[p].list
      /\ pop'[p].userID = pop[p].userID
      /\ pop'[p].loaded = TRUE
      /\ pop'[p].step = "none"
      /\ pop'[p].k = 1
      /\ pop'[p].state = pop[p].state
      /\ pop'[p].szUser = pop[p].szUser
  <2>1. /\ m = [pop[p] EXCEPT !.step = "none", !.loaded = TRUE, !.arg = 0,
                              !.k = 1]
        /\ pop'[p] = m
    BY <1>0, <1>1
  <2>2. IsSession(pop[p])
    BY Current
  <2> QED
    BY <2>1, <2>2 DEF IsSession, Fields
<1>3. Evolves
  BY Current, KeepEvolves DEF Loaded, Keep, Assertion, store
<1>4. /\ pop[p].step = "sizes" /\ pop[p].userID # 0
      /\ pop[p].k > Len(pop[p].list)
  BY Current DEF PhaseInv, Loaded
<1>5. TypeInv(p)' /\ PhaseInv(p)'
  <2>1. 1 \in 1..MaxItems + 1 /\ TRUE \in BOOLEAN
    BY PopAssumption
  <2>2. TypeInv(p)'
    BY <1>2, <2>1, Current DEF TypeInv
  <2>3. PhaseInv(p)'
    BY <1>2, <1>4, Current DEF PhaseInv
  <2> QED
    BY <2>2, <2>3
<1>6. ASSUME NEW i \in 1..Len(pop[p].list)
      PROVE  OwnItem(p, i)' /\ SizedItem(p, i)' /\ DeletedItem(p, i)'
  <2>1. pop[p].list[i].id \in MsgID
    BY ItemsTyped, Current
  <2>2. OwnItem(p, i) /\ SizedItem(p, i) /\ ~(pop[p].k <= i)
    BY <1>4, Current DEF ListInv, TypeInv
  <2>3. OwnItem(p, i)'
    BY <1>2, <1>3, <2>1, <2>2 DEF OwnItem, Evolves, Rows
  <2>4. SizedItem(p, i)'
    BY <1>2, <1>3, <1>4, <2>1, <2>2
       DEF SizedItem, SizeFollowsStore, Evolves, Rows
  <2>5. DeletedItem(p, i)'
    BY <1>2 DEF DeletedItem
  <2> QED
    BY <2>3, <2>4, <2>5
<1>7. ListInv(p)'
  BY <1>2, <1>6 DEF ListInv
<1> QED
  BY <1>1, <1>3, <1>5, <1>7, OneSession DEF SessionInv

\* OnClose is past one more message, which is gone if it was marked.
LEMMA DeleteMarkedInv ==
  ASSUME IInv, NEW p \in PopSessions, DeleteMarked(p)
  PROVE  IInv'
<1> DEFINE list == pop[p].list
           k == pop[p].k
<1>1. /\ pop[p].step = "delete" /\ k \in 1..Len(list)
      /\ Len(list) <= MaxItems /\ list[k].id \in MsgID
  BY Current, ItemsTyped DEF TypeInv, PhaseInv, DeleteMarked
<1>2. Evolves
  BY <1>1, Current, KeepEvolves, DeleteEvolves DEF DeleteMarked, Keep, store
<1>3. faults' = 0 /\ list[k].deleted => list[k].id \notin Rows'
  <2>1. CASE list[k].deleted /\ faults' = 0
    <3>1. DeleteMessage(list[k].id) /\ faults \in Nat
      <4>1. DeleteMessage(list[k].id)
        BY <2>1, Zenon DEF DeleteMarked
      <4> QED
        BY <4>1, Current DEF StoreInv
    <3>2. messages' = [messages EXCEPT ![list[k].id] = NoRow]
      <4>1. ~Fails /\ faults' # faults + 2
        BY <2>1, <3>1 DEF Fails
      <4> HIDE DEF list, k
      <4> QED
        BY <3>1, <4>1 DEF DeleteMessage
    <3>3. messages = [n \in MsgID |-> messages[n]]
      BY Current DEF StoreInv
    <3> QED
      BY <1>1, <3>2, <3>3 DEF Rows
  <2> QED
    BY <2>1
<1>4. PICK m : /\ m = [pop[p] EXCEPT !.k = k + 1]
               /\ pop' = [pop EXCEPT ![p] = m]
  BY Current DEF DeleteMarked
<1>5. Changes(p) /\ pop'[p] = m
  <2>1. IsSession(m)
    BY <1>4, Current DEF IsSession, Fields
  <2> QED
    BY <1>4, <2>1, NewRecord
<1>6. /\ pop'[p].list = list
      /\ pop'[p].userID = pop[p].userID
      /\ pop'[p].loaded = pop[p].loaded
      /\ pop'[p].step = pop[p].step
      /\ pop'[p].k = k + 1
      /\ pop'[p].state = pop[p].state
      /\ pop'[p].szUser = pop[p].szUser
  <2>1. m = [pop[p] EXCEPT !.k = k + 1] /\ pop'[p] = m
    BY <1>4, <1>5
  <2>2. IsSession(pop[p])
    BY Current
  <2> QED
    BY <2>1, <2>2 DEF IsSession, Fields
<1>7. TypeInv(p)' /\ PhaseInv(p)'
  BY <1>1, <1>6, PopAssumption, Current DEF TypeInv, PhaseInv
<1>8. ASSUME NEW i \in 1..Len(list)
      PROVE  OwnItem(p, i)' /\ SizedItem(p, i)' /\ DeletedItem(p, i)'
  <2>1. list[i].id \in MsgID
    BY ItemsTyped, Current
  <2>2. OwnItem(p, i) /\ SizedItem(p, i) /\ DeletedItem(p, i)
    BY Current DEF ListInv
  <2>3. OwnItem(p, i)'
    BY <1>2, <1>6, <2>1, <2>2 DEF OwnItem, Evolves, Rows
  <2>4. SizedItem(p, i)'
    BY <1>1, <1>2, <1>6, <2>1, <2>2
       DEF SizedItem, SizeFollowsStore, Evolves, Rows
  <2>5. DeletedItem(p, i)'
    <3>1. CASE i = k
      BY <3>1, <1>3, <1>6 DEF DeletedItem
    <3>2. CASE i < k
      BY <3>2, <1>1, <1>2, <1>6, <2>1, <2>2 DEF DeletedItem, Evolves, Rows
    <3>3. CASE i > k
      BY <3>3, <1>1, <1>6 DEF DeletedItem
    <3> QED
      BY <3>1, <3>2, <3>3, <1>1
  <2> QED
    BY <2>3, <2>4, <2>5
<1>9. ListInv(p)'
  BY <1>6, <1>8 DEF ListInv
<1> QED
  BY <1>2, <1>5, <1>7, <1>9, OneSession DEF SessionInv

------------------------------------------------------------------------------
(***************************************************************************)
(* The invariant.                                                          *)
(***************************************************************************)
LEMMA InitInv == Init => IInv
<1> SUFFICES ASSUME Init PROVE IInv
  OBVIOUS
<1>1. /\ bodies \in [MsgID -> {<<>>, <<"line">>}]
      /\ faults = 0
      /\ pop = [p \in PopSessions |-> NewSession]
  BY DEF Init, InitPop
<1>2. PICK user \in [Legacy -> UserID], size \in [Legacy -> OldSizes] :
        messages = [id \in MsgID |->
          IF id \in Legacy THEN OldRow(id, user[id], size[id]) ELSE NoRow]
  BY DEF Init
<1>3. ASSUME NEW id \in MsgID
      PROVE  messages[id] = NoRow \/ messages[id] \in Row
  <2>1. CASE id \notin Legacy
    BY <2>1, <1>2
  <2>2. CASE id \in Legacy
    <3>1. messages[id] = [user |-> user[id], size |-> size[id], origin |-> id]
      BY <2>2, <1>2 DEF OldRow
    <3>2. user[id] \in UserID /\ size[id] \in Nat
      BY <2>2, PopAssumption
    <3> QED
      BY <3>1, <3>2 DEF Row
  <2> QED
    BY <2>1, <2>2
<1>4. StoreInv
  <2>1. messages = [id \in MsgID |-> messages[id]]
    BY <1>2
  <2> QED
    BY <2>1, <1>1, <1>3 DEF StoreInv
<1>5. Shape
  BY <1>1 DEF Shape, IsSession, Fields, NewSession
<1>6. ASSUME NEW p \in PopSessions PROVE SessionInv(p)
  <2>1. pop[p] = NewSession
    BY <1>1
  <2>2. <<>> \in Seq(Item) /\ Len(<<>>) = 0 /\ 1 \in 1..MaxItems + 1
    BY PopAssumption
  <2>3. TypeInv(p)
    BY <2>1, <2>2 DEF TypeInv, NewSession
  <2>4. PhaseInv(p)
    BY <2>1, <2>2, PopAssumption DEF PhaseInv, NewSession
  <2>5. ListInv(p)
    BY <2>1, <2>2 DEF ListInv, NewSession
  <2> QED
    BY <2>3, <2>4, <2>5 DEF SessionInv
<1> QED
  BY <1>4, <1>5, <1>6 DEF IInv

LEMMA SessionStep ==
  ASSUME IInv, NEW p \in PopSessions, Thread(p) \/ Client(p)
  PROVE  IInv'
<1>1. CASE LoadMessages(p)
  BY <1>1, LoadInv
<1>2. CASE ComputeSize(p)
  BY <1>2, ComputeInv
<1>3. CASE Loaded(p)
  BY <1>3, LoadedInv
<1>4. CASE OnClose(p)
  BY <1>4, OnCloseInv
<1>5. CASE DeleteMarked(p)
  BY <1>5, DeleteMarkedInv
<1>6. CASE Closed(p) \/ LoseConnection(p)
  BY <1>6, FinishedInv DEF Closed, LoseConnection, Keep
<1>12. CASE DestroyedInCallback(p)
  <2>1. UNCHANGED store
    BY <1>12 DEF DestroyedInCallback, Assertion, Keep
  <2>2. CASE UNCHANGED pop
    <3>1. Evolves
      BY <2>1, KeepEvolves DEF IInv, store
    <3> QED
      BY <2>2, <3>1, Bystander
  <2>3. CASE pop' = [pop EXCEPT ![p] = Finished]
    BY <2>1, <2>3, FinishedInv
  <2> QED
    BY <1>12, <2>2, <2>3 DEF DestroyedInCallback
<1>7. CASE OnStart(p) \/ IdleLimitReached(p)
           \/ \E name \in UserID : ProcessUSER(p, name)
  BY <1>7, FrameInv
<1>8. CASE \E valid \in BOOLEAN : ProcessPASS(p, valid)
  BY <1>8, PassInv
<1>9. CASE \E n \in {-1, 0} : ProcessLIST(p, n)
  BY <1>9, ListCommandInv
<1>10. CASE \E n \in 1..MaxItems : ProcessDELE(p, n)
  BY <1>10, DeleInv
<1>11. CASE \E bare \in BOOLEAN : ProcessQUIT(p, bare)
  <2>1. CASE ProcessQUIT(p, TRUE)
    BY <2>1, FrameInv
  <2>2. CASE ProcessQUIT(p, FALSE)
    <3>1. UNCHANGED pop /\ UNCHANGED store
      BY <2>2 DEF ProcessQUIT, Assertion
    <3>2. Evolves
      BY <3>1, KeepEvolves DEF IInv, store
    <3> QED
      BY <3>1, <3>2, Bystander
  <2> QED
    BY <1>11, <2>1, <2>2
<1> QED
  BY <1>1, <1>2, <1>3, <1>4, <1>5, <1>6, <1>7, <1>8, <1>9, <1>10, <1>11, <1>12
  DEF Thread, Client

LEMMA StepInv == IInv /\ [Next \/ Terminated]_popVars => IInv'
<1> SUFFICES ASSUME IInv, [Next \/ Terminated]_popVars PROVE IInv'
  OBVIOUS
<1>1. CASE Next
  BY <1>1, SessionStep DEF Next
<1>2. CASE UNCHANGED popVars
  <2>1. UNCHANGED pop /\ UNCHANGED store
    BY <1>2 DEF popVars
  <2>2. Evolves
    BY <2>1, KeepEvolves DEF IInv, store
  <2> QED
    BY <2>1, <2>2, Bystander
<1> QED
  BY <1>1, <1>2 DEF Terminated

\* The strengthening holds in every state; the properties follow from it.
THEOREM Invariance == Spec => []IInv
BY InitInv, StepInv, PTL DEF Spec

------------------------------------------------------------------------------
(***************************************************************************)
(* The properties.                                                         *)
(***************************************************************************)

\* Every part of a session stays in its set, and there is no list without a
\* login (USER, PASS and the commands that load the list).
THEOREM TypeCorrectness == Spec => []PopTypeOK
<1>1. IInv => PopTypeOK
  <2>1. ASSUME IInv, NEW p \in PopSessions
        PROVE  /\ pop[p].state \in {"Starting", "Waiting", "Close", "Done"}
               /\ pop[p].step \in {"none", "load", "sizes", "delete"}
               /\ pop[p].szUser \in UserID \cup {0}
               /\ pop[p].userID \in UserID \cup {0}
               /\ Len(pop[p].list) <= MaxItems
               /\ pop[p].k \in 1..MaxItems + 1
               /\ pop[p].loaded => pop[p].userID # 0
    BY <2>1, Current DEF TypeInv, PhaseInv
  <2> QED
    BY <2>1 DEF PopTypeOK
<1> QED
  BY <1>1, Invariance, PTL

\* A list holds messages of the session's own user only (ProcessUSER,
\* ProcessPASS and LoadMessages in any order).
THEOREM Ownership == Spec => []ListIsOwn
<1>1. IInv => ListIsOwn
  <2>1. ASSUME IInv, NEW p \in PopSessions, NEW i \in 1..Len(pop[p].list),
               pop[p].list[i].id \in Rows
        PROVE  messages[pop[p].list[i].id].user = pop[p].userID
    BY <2>1, Current DEF ListInv, OwnItem
  <2> QED
    BY <2>1 DEF ListIsOwn
<1> QED
  BY <1>1, Invariance, PTL

\* The size in the list is what the store has for the message (LoadMessages,
\* which computes what was not recorded).
THEOREM FollowedSizes == Spec => []ListedSizesFollowStore
<1>1. IInv => ListedSizesFollowStore
  <2>1. ASSUME IInv, NEW p \in PopSessions, NEW n \in 1..Len(pop[p].list),
               pop[p].loaded, faults = 0, pop[p].list[n].id \in Rows
        PROVE  SizeFollowsStore(pop[p].list[n])
    BY <2>1, Current DEF ListInv, SizedItem
  <2> QED
    BY <2>1 DEF ListedSizesFollowStore
<1> QED
  BY <1>1, Invariance, PTL

\* At the end of OnClose all that was marked is gone.
THEOREM Deletion == Spec => []ClosedMeansDeleted
<1>1. IInv => ClosedMeansDeleted
  <2>1. ASSUME IInv, NEW p \in PopSessions, pop[p].step = "delete",
               pop[p].k > Len(pop[p].list), faults = 0, NEW i \in Marked(p)
        PROVE  pop[p].list[i].id \notin Rows
    <3>1. i \in 1..Len(pop[p].list) /\ pop[p].list[i].deleted
      BY DEF Marked
    <3>2. i < pop[p].k
      BY <2>1, <3>1, Current DEF TypeInv
    <3> QED
      BY <2>1, <3>1, <3>2, Current DEF ListInv, DeletedItem
  <2> QED
    BY <2>1 DEF ClosedMeansDeleted
<1> QED
  BY <1>1, Invariance, PTL

\* What leaves the store was marked, by a session of its user that is in
\* OnClose, and is the very message that was listed.
THEOREM Restraint == Spec => OnlyMarkedDeleted
<1>1. ASSUME IInv, Next \/ Terminated, NEW id \in Removed
      PROVE  \E p \in PopSessions : DeletedForThisSession(id, p)
  <2>1. id \in Rows /\ id \in MsgID /\ messages' # messages
    BY <1>1 DEF Removed, Rows
  <2>2. PICK p \in PopSessions : Thread(p) \/ Client(p)
    BY <1>1, <2>1, SMTT(30) DEF Next, Terminated, popVars, store
  <2>3. DeleteMarked(p)
    BY <2>1, <2>2 DEF Thread, Client, LoadMessages, ComputeSize, Loaded,
      OnClose, Closed, DestroyedInCallback, OnStart, ProcessUSER, ProcessPASS, ProcessLIST,
      ProcessDELE, ProcessQUIT, IdleLimitReached, LoseConnection, Keep,
      Assertion, store
  <2> DEFINE k == pop[p].k
  <2>4. /\ k <= Len(pop[p].list)
        /\ pop[p].list[k].deleted
        /\ DeleteMessage(pop[p].list[k].id)
        /\ pop[p].step = "delete"
    BY <2>1, <2>3 DEF DeleteMarked, Keep, store
  <2>5. k \in 1..Len(pop[p].list)
    BY <1>1, <2>4, Current DEF TypeInv
  <2>6. pop[p].list[k].id = id
    <3>1. messages'[id] = NoRow /\ messages[id] # NoRow
      BY <2>1 DEF Removed, Rows
    <3>2. messages = [n \in MsgID |-> messages[n]]
      <4>1. messages \in [MsgID -> Row \cup {NoRow}]
        BY <1>1, SMTT(30) DEF IInv, StoreInv
      <4> QED
        BY <4>1
    <3>3. PICK n : /\ n = pop[p].list[k].id
                   /\ messages' = [messages EXCEPT ![n] = NoRow]
      BY <2>1, <2>4 DEF DeleteMessage
    <3>4. n # id => messages'[id] = messages[id]
      BY <2>1, <3>2, <3>3
    <3> QED
      BY <3>1, <3>3, <3>4
  <2>7. /\ messages[id].user = pop[p].userID
        /\ messages[id].origin = pop[p].list[k].origin
    BY <1>1, <2>1, <2>5, <2>6, Current DEF ListInv, OwnItem
  <2>8. k \in Marked(p)
    BY <2>4, <2>5 DEF Marked
  <2> QED
    BY <2>4, <2>6, <2>7, <2>8 DEF DeletedForThisSession
<1>2. IInv /\ [Next \/ Terminated]_popVars =>
        [\A id \in Removed :
           \E p \in PopSessions : DeletedForThisSession(id, p)]_popVars
  BY <1>1
<1> QED
  BY <1>2, Invariance, PTL DEF Spec, OnlyMarkedDeleted
==============================================================================
