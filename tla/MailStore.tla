------------------------------ MODULE MailStore ------------------------------
(***************************************************************************)
(* The database behind the daemon and the statements DataModel sends it.   *)
(* A DataModel operation holds the object's lock for as long as it talks   *)
(* to the database, so each is one step; the sessions interleave between   *)
(* them.  The result of a statement that writes is never looked at: where  *)
(* a statement may fail (MaxFaults of them), the program goes on.          *)
(*                                                                         *)
(* A line of a body is one unit long and knows the mail it comes from.     *)
(* Incoming is left out of the rows, InsertMessage always setting it.      *)
(* "origin", the mail and the recipient a row was inserted for, and the    *)
(* mail of a line are not columns: they are there for the properties.      *)
(***************************************************************************)
EXTENDS Integers, Sequences, SequencesExt

CONSTANTS UserID,      \* the accounts of table Users, 0 is none of them
          MaxID,       \* bound on the MessageIDs handed out
          MaxFaults,   \* bound on the statements that fail
          NoRow        \* there is no row with this MessageID

ASSUME StoreAssumption ==
  /\ UserID \subseteq Nat \ {0}
  /\ MaxID \in Nat
  /\ MaxFaults \in Nat

VARIABLES messages,   \* table Messages, by MessageID
          bodies,     \* table Bodies: the lines of each MessageID, in order
          outgoing,   \* table Outgoing
          nextID,     \* AUTO_INCREMENT of Messages
          faults,     \* statements that have failed
          process     \* "up", or why the daemon is no longer running

store == <<messages, bodies, outgoing, nextID, faults>>

MsgID == 1..MaxID
Rows == {id \in MsgID : messages[id] # NoRow}

InitStore ==
  /\ messages = [id \in MsgID |-> NoRow]
  /\ bodies = [id \in MsgID |-> <<>>]
  /\ outgoing = {}
  /\ nextID = 1
  /\ faults = 0

Succeeds == UNCHANGED faults
Fails == faults < MaxFaults /\ faults' = faults + 1

\* ASSERT ends the process; nothing of the store is undone.
Assertion(what) == process' = what /\ UNCHANGED store

------------------------------------------------------------------------------
\* Fault: the number of the highest row is taken instead of a counter.
InsertMessageReuse(user, origin) ==
  LET id == IF Rows = {} THEN 1 ELSE 1 + Max(Rows)
  IN  /\ id \in MsgID
      /\ messages' = [messages EXCEPT ![id] =
                        [user |-> user, size |-> 0, origin |-> origin]]
      /\ nextID' = id + 1
      /\ Succeeds
      /\ UNCHANGED <<bodies, outgoing, process>>

InsertMessage(user, origin) ==
  /\ nextID \in MsgID
  /\ messages' = [messages EXCEPT ![nextID] =
                    [user |-> user, size |-> 0, origin |-> origin]]
  /\ nextID' = nextID + 1
  /\ Succeeds
  /\ UNCHANGED <<bodies, outgoing, process>>

\* GetInsertID of a failed INSERT is 0, which an ASSERT refuses.
InsertMessageFails ==
  /\ Fails
  /\ process' = "insert failed"
  /\ UNCHANGED <<messages, bodies, outgoing, nextID>>

InsertBodyLine(id, line) ==
  /\ \/ Succeeds /\ bodies' = [bodies EXCEPT ![id] = Append(@, line)]
     \/ Fails /\ UNCHANGED bodies
  /\ UNCHANGED <<messages, outgoing, nextID, process>>

\* The row may have been deleted since: the UPDATE then matches nothing.
UpdateMessageSize(id, size) ==
  /\ \/ /\ Succeeds
        /\ messages' = IF id \in Rows
                         THEN [messages EXCEPT ![id].size = size]
                         ELSE messages
     \/ Fails /\ UNCHANGED messages
  /\ UNCHANGED <<bodies, outgoing, nextID, process>>

\* DATETIME('now') and %q are SQLite's: whether MySQL takes the statement is
\* not for this program to know, and it does not ask.
InsertOutgoing(id, to) ==
  /\ outgoing' \in {outgoing, outgoing \cup {[id |-> id, to |-> to]}}
  /\ UNCHANGED <<messages, bodies, nextID, faults, process>>

\* Two statements under one lock, each of which may fail.  The third one goes
\* to table Summaries, which nothing reads.
DeleteMessage(id) ==
  /\ \/ /\ Succeeds
        /\ bodies' = [bodies EXCEPT ![id] = <<>>]
        /\ messages' = [messages EXCEPT ![id] = NoRow]
     \/ /\ Fails
        /\ bodies' = [bodies EXCEPT ![id] = <<>>]
        /\ UNCHANGED messages
     \/ /\ Fails
        /\ messages' = [messages EXCEPT ![id] = NoRow]
        /\ UNCHANGED bodies
     \/ /\ faults + 2 <= MaxFaults
        /\ faults' = faults + 2
        /\ UNCHANGED <<messages, bodies>>
  /\ UNCHANGED <<outgoing, nextID, process>>

\* The number of the account if its password is right, else, and when the
\* query fails, 0.
GetUserID(user, valid) == IF valid THEN user ELSE 0

------------------------------------------------------------------------------
Mailbox(user) == {id \in Rows : messages[id].user = user}

\* Up to max of them, each once, in the order the database likes.
ListsOf(ids, max) ==
  LET count == Cardinality(ids)
  IN  Injection(1..(IF count < max THEN count ELSE max), ids)

\* Fault: the messages of every user are listed.
GetMessageListOfAll(user, max) == ListsOf(Rows, max)

GetMessageList(user, max) == ListsOf(Mailbox(user), max)

\* SUM over no line is NULL, which leaves -1 or reads as 0.
GetMessageLength(id) ==
  IF bodies[id] = <<>> THEN {-1, 0} ELSE {Len(bodies[id])}
==============================================================================
