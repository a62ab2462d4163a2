----------------------------- MODULE PopSession ------------------------------
(***************************************************************************)
(* The POP3 sessions: class PopSession on top of the framework of module   *)
(* Session, working on the MailStore.  A command is handled in one step,   *)
(* except that loading the message list and deleting the marked messages   *)
(* take one step for each statement they send.                             *)
(*                                                                         *)
(* Of the framework only what a PopSession sees is left: commands come in  *)
(* while the state is Waiting, the idle limit moves it to Close, OnClose   *)
(* runs when the output has been sent, and a lost connection takes it to   *)
(* Done without OnClose.  NOOP and refused commands change nothing, RETR   *)
(* nothing but the output, and RSET nothing either: Reset, which it calls, *)
(* has an empty body, and the marks of DELE stay.                          *)
(***************************************************************************)
EXTENDS MailStore

CONSTANTS PopSessions,   \* the sessions
          MaxItems,      \* MAX_POP_ITEMS
          Legacy,        \* the MessageIDs stored before the sessions start
          OldSizes       \* the sizes recorded with them, 0 for none

ASSUME PopAssumption ==
  /\ MaxItems \in Nat \ {0}
  /\ Legacy \subseteq MsgID
  /\ OldSizes \subseteq Nat

VARIABLE pop

popVars == <<store, process, pop>>

\* "step" is where the thread is inside a callback.
NewSession ==
  [state |-> "Starting", step |-> "none", szUser |-> 0, userID |-> 0,
   loaded |-> FALSE, list |-> <<>>, k |-> 1, arg |-> 0]

\* At Done the object only waits to be destroyed.
Finished == [NewSession EXCEPT !.state = "Done"]

InitPop == pop = [p \in PopSessions |-> NewSession]

Ready(p) ==
  /\ process = "up"
  /\ pop[p].state = "Waiting"
  /\ pop[p].step = "none"

Keep == UNCHANGED <<store, process>>

------------------------------------------------------------------------------
OnStart(p) ==
  /\ process = "up"
  /\ pop[p].state = "Starting"
  /\ pop' = [pop EXCEPT ![p].state = "Waiting"]
  /\ Keep

ProcessUSER(p, name) ==
  /\ Ready(p)
  /\ pop[p].szUser = 0
  /\ pop[p].userID = 0
  /\ pop' = [pop EXCEPT ![p].szUser = name]
  /\ Keep

\* The account and the password are looked up, and forgotten either way.
ProcessPASS(p, valid) ==
  /\ Ready(p)
  /\ pop[p].szUser # 0
  /\ pop[p].userID = 0
  /\ pop' = [pop EXCEPT ![p].userID = GetUserID(pop[p].szUser, valid),
                        ![p].szUser = 0]
  /\ Keep

\* Fault: the list can be had before a login.
ProcessLISTEarly(p, n) ==
  /\ Ready(p)
  /\ IF pop[p].loaded
       THEN n < 0 /\ Assertion("LIST") /\ UNCHANGED pop
       ELSE /\ pop' = [pop EXCEPT ![p].step = "load", ![p].arg = n]
            /\ Keep

\* STAT, LIST and UIDL load the list when it has not been loaded.  STAT has
\* no argument; for the others it went through atoi.
ProcessLIST(p, n) ==
  /\ Ready(p)
  /\ pop[p].userID # 0
  /\ IF pop[p].loaded
       THEN n < 0 /\ Assertion("LIST") /\ UNCHANGED pop
       ELSE /\ pop' = [pop EXCEPT ![p].step = "load", ![p].arg = n]
            /\ Keep

ListItem(id) ==
  [id |-> id, size |-> messages[id].size, deleted |-> FALSE,
   origin |-> messages[id].origin]

\* The messages and their sizes are one query.
LoadMessages(p) ==
  /\ process = "up"
  /\ pop[p].step = "load"
  /\ \/ /\ Succeeds
        /\ \E ids \in GetMessageList(pop[p].userID, MaxItems) :
             pop' = [pop EXCEPT ![p].step = "sizes", ![p].k = 1,
                                ![p].list = [i \in DOMAIN ids |->
                                               ListItem(ids[i])]]
     \/ Fails /\ pop' = [pop EXCEPT ![p].step = "sizes", ![p].k = 1]
  /\ UNCHANGED <<messages, bodies, outgoing, nextID, process>>

\* Fault: the computed size is not stored in the list.
ComputeSizeLost(p) ==
  /\ process = "up"
  /\ pop[p].step = "sizes"
  /\ pop[p].k <= Len(pop[p].list)
  /\ pop' = [pop EXCEPT ![p].k = @ + 1]
  /\ Keep

SizesOf(item) ==
  IF item.size = 0 THEN GetMessageLength(item.id) ELSE {item.size}

SetSize(p, n) ==
  pop' = [pop EXCEPT ![p].list[pop[p].k].size = n, ![p].k = @ + 1]

\* A size that was not stored is computed, a query for each message.
ComputeSize(p) ==
  LET item == pop[p].list[pop[p].k]
  IN  /\ process = "up"
      /\ pop[p].step = "sizes"
      /\ pop[p].k <= Len(pop[p].list)
      /\ \/ Succeeds /\ \E n \in SizesOf(item) : SetSize(p, n)
         \/ Fails /\ item.size = 0 /\ SetSize(p, -1)
      /\ UNCHANGED <<messages, bodies, outgoing, nextID, process>>

\* The command that loaded the list is answered.
Loaded(p) ==
  /\ process = "up"
  /\ pop[p].step = "sizes"
  /\ pop[p].k > Len(pop[p].list)
  /\ pop' = [pop EXCEPT ![p].step = "none", ![p].loaded = TRUE, ![p].arg = 0,
                        ![p].k = 1]
  /\ IF pop[p].arg < 0 THEN Assertion("LIST") ELSE Keep

ProcessDELE(p, n) ==
  /\ Ready(p)
  /\ pop[p].loaded
  /\ n \in 1..Len(pop[p].list)
  /\ ~pop[p].list[n].deleted
  /\ pop' = [pop EXCEPT ![p].list[n].deleted = TRUE]
  /\ Keep

Marked(p) ==
  {i \in 1..Len(pop[p].list) : pop[p].list[i].deleted}

\* ASSERT(len == 4): nothing may follow the word.
ProcessQUIT(p, bare) ==
  /\ Ready(p)
  /\ IF bare
       THEN /\ pop' = [pop EXCEPT ![p].state = "Close"]
            /\ Keep
       ELSE Assertion("QUIT") /\ UNCHANGED pop

------------------------------------------------------------------------------
\* Session::OnIdle at the limit.
IdleLimitReached(p) ==
  /\ Ready(p)
  /\ pop' = [pop EXCEPT ![p].state = "Close"]
  /\ Keep

\* A Receive or Send failed, or the owner forced the session to close; either
\* takes effect between two callbacks.
LoseConnection(p) ==
  /\ process = "up"
  /\ pop[p].state \in {"Waiting", "Close"}
  /\ pop[p].step = "none"
  /\ pop' = [pop EXCEPT ![p] = Finished]
  /\ Keep

\* ~PopSession runs while the thread is in a callback.  It frees the list and
\* leaves NULL in its place: a loop over it ends the process, and so does the
\* ASSERT of the destructor on a list that is just being filled.  Without one
\* the thread is through, and finds the state forced.
DestroyedInCallback(p) ==
  /\ process = "up"
  /\ pop[p].step # "none"
  /\ \/ Assertion("destroyed") /\ UNCHANGED pop
     \/ /\ pop[p].list = <<>>
        /\ pop' = [pop EXCEPT ![p] = Finished]
        /\ Keep

\* Fault: the loop starts at the second message.
OnCloseSkipsFirst(p) ==
  /\ process = "up"
  /\ pop[p].state = "Close"
  /\ pop[p].step = "none"
  /\ pop' = [pop EXCEPT ![p].step = "delete", ![p].k = 2]
  /\ Keep

OnClose(p) ==
  /\ process = "up"
  /\ pop[p].state = "Close"
  /\ pop[p].step = "none"
  /\ pop' = [pop EXCEPT ![p].step = "delete", ![p].k = 1]
  /\ Keep

\* Fault: every message of the list is deleted.
DeleteAll(p) ==
  LET k == pop[p].k
  IN  /\ process = "up"
      /\ pop[p].step = "delete"
      /\ k <= Len(pop[p].list)
      /\ DeleteMessage(pop[p].list[k].id)
      /\ pop' = [pop EXCEPT ![p].k = k + 1]

DeleteMarked(p) ==
  LET k == pop[p].k
  IN  /\ process = "up"
      /\ pop[p].step = "delete"
      /\ k <= Len(pop[p].list)
      /\ IF pop[p].list[k].deleted
           THEN DeleteMessage(pop[p].list[k].id)
           ELSE Keep
      /\ pop' = [pop EXCEPT ![p].k = k + 1]

Closed(p) ==
  /\ process = "up"
  /\ pop[p].step = "delete"
  /\ pop[p].k > Len(pop[p].list)
  /\ pop' = [pop EXCEPT ![p] = Finished]
  /\ Keep

\* What the thread does by itself once a callback has begun, and what waits for
\* the peer or the owner: OnClose, too, since it comes when the peer has read
\* all the output.
Thread(p) ==
  \/ LoadMessages(p) \/ ComputeSize(p) \/ Loaded(p)
  \/ DeleteMarked(p) \/ Closed(p)

Client(p) ==
  \/ OnStart(p)
  \/ \E name \in UserID : ProcessUSER(p, name)
  \/ \E valid \in BOOLEAN : ProcessPASS(p, valid)
  \/ \E n \in {-1, 0} : ProcessLIST(p, n)
  \/ \E n \in 1..MaxItems : ProcessDELE(p, n)
  \/ \E bare \in BOOLEAN : ProcessQUIT(p, bare)
  \/ IdleLimitReached(p)
  \/ OnClose(p)
  \/ LoseConnection(p)
  \/ DestroyedInCallback(p)

------------------------------------------------------------------------------
(***************************************************************************)
(* The sessions on a store that holds mail of earlier days, some without a *)
(* body.  Its recorded size is 0 (it was not always recorded), that of its *)
(* lines, or, for the later copies of a mail, that of several copies.      *)
(***************************************************************************)
OldRow(id, user, size) == [user |-> user, size |-> size, origin |-> id]

Init ==
  /\ bodies \in {b \in [MsgID -> {<<>>, <<"line">>}] :
                   \A id \in MsgID \ Legacy : b[id] = <<>>}
  /\ \E user \in [Legacy -> UserID], size \in [Legacy -> OldSizes] :
       messages = [id \in MsgID |->
         IF id \in Legacy THEN OldRow(id, user[id], size[id]) ELSE NoRow]
  /\ outgoing = {}
  /\ nextID = MaxID + 1
  /\ faults = 0
  /\ process = "up"
  /\ InitPop

Next == \E p \in PopSessions : Thread(p) \/ Client(p)

Terminated ==
  /\ process # "up" \/ \A p \in PopSessions : pop[p].state = "Done"
  /\ UNCHANGED popVars

Spec == Init /\ [][Next \/ Terminated]_popVars

------------------------------------------------------------------------------
(***************************************************************************)
(* Properties.                                                             *)
(***************************************************************************)
PopTypeOK ==
  \A p \in PopSessions :
    /\ pop[p].state \in {"Starting", "Waiting", "Close", "Done"}
    /\ pop[p].step \in {"none", "load", "sizes", "delete"}
    /\ pop[p].szUser \in UserID \cup {0}
    /\ pop[p].userID \in UserID \cup {0}
    /\ Len(pop[p].list) <= MaxItems
    /\ pop[p].k \in 1..MaxItems + 1
    /\ pop[p].loaded => pop[p].userID # 0

\* The messages that a step takes out of the table.
Removed == {id \in Rows : messages'[id] = NoRow}

(***************************************************************************)
(* A message only ever leaves the store because a client logged in as its  *)
(* user marked that very message with DELE, and in that session's OnClose: *)
(* not when the connection is lost after QUIT, not through a message       *)
(* number of another list, not while two sessions of one user close        *)
(* together, and not when statements fail.                                 *)
(***************************************************************************)
DeletedForThisSession(id, p) ==
  /\ pop[p].step = "delete"
  /\ pop[p].userID = messages[id].user
  /\ \E i \in Marked(p) : /\ pop[p].list[i].id = id
                          /\ pop[p].list[i].origin = messages[id].origin

OnlyMarkedDeleted ==
  [][\A id \in Removed :
       \E p \in PopSessions : DeletedForThisSession(id, p)]_popVars

(***************************************************************************)
(* When OnClose is done, every message the client marked is gone, also the *)
(* first and the last of the list and those another session had marked     *)
(* too, unless a DELETE failed.                                            *)
(***************************************************************************)
ClosedMeansDeleted ==
  \A p \in PopSessions :
    /\ pop[p].step = "delete"
    /\ pop[p].k > Len(pop[p].list)
    /\ faults = 0
    =>
      \A i \in Marked(p) : pop[p].list[i].id \notin Rows

(***************************************************************************)
(* The list of a session holds messages of its own user only, whatever the *)
(* order of USER, PASS and the commands that load the list, and however    *)
(* often a login failed before.                                            *)
(***************************************************************************)
ListIsOwn ==
  \A p \in PopSessions : \A i \in 1..Len(pop[p].list) :
    LET id == pop[p].list[i].id
    IN  id \in Rows => messages[id].user = pop[p].userID

(***************************************************************************)
(* The size LIST lists and RETR announces is the one recorded in the row   *)
(* of that very message, or, where none was recorded, that of its lines    *)
(* (-1 or 0 if there are none), whatever other sessions deleted between    *)
(* the query for the list and those for the sizes.  It says nothing of     *)
(* what RETR sends: the recorded size may be wrong, and CRLFs are not in   *)
(* either.                                                                 *)
(***************************************************************************)
SizeFollowsStore(item) ==
  IF messages[item.id].size # 0
    THEN item.size = messages[item.id].size
    ELSE \/ item.size = Len(bodies[item.id])
         \/ item.size = -1 /\ bodies[item.id] = <<>>

ListedSizesFollowStore ==
  \A p \in PopSessions : \A n \in 1..Len(pop[p].list) :
    pop[p].loaded /\ faults = 0 /\ pop[p].list[n].id \in Rows
      => SizeFollowsStore(pop[p].list[n])

==============================================================================
