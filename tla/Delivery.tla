------------------------------ MODULE Delivery -------------------------------
(***************************************************************************)
(* The daemon as a whole: the SMTP sessions of module Message and the POP3 *)
(* sessions of module PopSession on one MailStore, each in its own thread, *)
(* their statements interleaved; the process may die between any two of    *)
(* them, and in the middle of DeleteMessage, and be started again.         *)
(***************************************************************************)
EXTENDS MailStore, Recipients

CONSTANTS SmtpSessions, Address, Directory, MaxRemote, MaxLogins, MaxMails,
          MaxLines, PopSessions, MaxItems,
          MaxCrashes     \* bound on the times the process dies

VARIABLES smtp, receipts, pop,
          crashes,     \* times the process has died
          collected    \* what OnClose has deleted (observer)

vars == <<store, process, smtp, receipts, pop, crashes, collected>>

Smtp == INSTANCE Message
Pop == INSTANCE PopSession WITH Legacy <- {}, OldSizes <- {}

ASSUME DeliveryAssumption ==
  /\ Smtp!MessageParameters
  /\ MaxItems \in Nat \ {0}
  /\ MaxCrashes \in Nat

Init ==
  /\ InitStore
  /\ process = "up"
  /\ Smtp!InitMessage
  /\ Pop!InitPop
  /\ crashes = 0
  /\ collected = {}

------------------------------------------------------------------------------
\* The messages a step takes the row or the lines of, each with the number of
\* lines of its own mail that were there.
OwnLines(id) ==
  {k \in DOMAIN bodies[id] : bodies[id][k].mail = messages[id].origin.mail}

Taken ==
  {id \in Rows :
     messages'[id] = NoRow \/ (bodies[id] # <<>> /\ bodies'[id] = <<>>)}

Collect ==
  collected' = collected \cup
    {[id |-> id, mail |-> messages[id].origin.mail,
      rcpt |-> messages[id].origin.rcpt,
      n |-> Cardinality(OwnLines(id))] :
     id \in Taken}

AlsoSmtp == UNCHANGED <<pop, crashes, collected>>
AlsoPop == Collect /\ UNCHANGED <<smtp, receipts, crashes>>

\* What a thread does by itself, once a callback has begun.  That OnClose
\* begins is not part of it: it waits until the peer has read the output.
Saves(s) == Smtp!SaveMessage(s) /\ AlsoSmtp
Works(p) == Pop!Thread(p) /\ AlsoPop

SmtpStep(s) == Saves(s) \/ (Smtp!Sender(s) /\ AlsoSmtp)
PopStep(p) == Works(p) \/ (Pop!Client(p) /\ AlsoPop)

\* An ASSERT of another session has ended the process, or somebody has.
Crash ==
  /\ process = "up"
  /\ crashes < MaxCrashes
  /\ process' = "crashed"
  /\ crashes' = crashes + 1
  /\ UNCHANGED <<store, smtp, receipts, pop, collected>>

\* Between the DELETE for the lines and the one for the row.
CrashInDelete(p) ==
  /\ process = "up"
  /\ crashes < MaxCrashes
  /\ pop[p].step = "delete"
  /\ pop[p].k <= Len(pop[p].list)
  /\ pop[p].list[pop[p].k].deleted
  /\ bodies' = [bodies EXCEPT ![pop[p].list[pop[p].k].id] = <<>>]
  /\ process' = "crashed"
  /\ crashes' = crashes + 1
  /\ UNCHANGED <<messages, outgoing, nextID, faults, smtp, receipts, pop>>
  /\ Collect

\* The clients that had not finished connect again, to new objects.
Restart ==
  /\ process = "crashed"
  /\ process' = "up"
  /\ smtp' = [s \in SmtpSessions |->
                IF smtp[s].state = "Done" THEN smtp[s]
                ELSE [Smtp!NewMessage EXCEPT !.mail = smtp[s].mail]]
  /\ pop' = [p \in PopSessions |->
               IF pop[p].state = "Done" THEN pop[p] ELSE Pop!NewSession]
  /\ UNCHANGED <<store, receipts, crashes, collected>>

Next ==
  \/ \E s \in SmtpSessions : SmtpStep(s)
  \/ \E p \in PopSessions : PopStep(p)
  \/ Crash
  \/ \E p \in PopSessions : CrashInDelete(p)
  \/ Restart

Terminated ==
  /\ \/ process \notin {"up", "crashed"}
     \/ /\ \A s \in SmtpSessions : smtp[s].state = "Done"
        /\ \A p \in PopSessions : pop[p].state = "Done"
  /\ UNCHANGED vars

Spec == Init /\ [][Next \/ Terminated]_vars

\* The threads are scheduled; nothing is assumed of clients, of the owners of
\* the sessions, nor of restarts.
FairSpec ==
  /\ Spec
  /\ \A s \in SmtpSessions : WF_vars(Saves(s))
  /\ \A p \in PopSessions : WF_vars(Works(p))

------------------------------------------------------------------------------
(***************************************************************************)
(* Properties.                                                             *)
(***************************************************************************)
WasCollected(r) ==
  \E c \in collected : c.mail = r.mail /\ c.rcpt = r.rcpt

Kept(r) == \E id \in MsgID : Smtp!Complete(id, r)

(***************************************************************************)
(* Mail a client got 250 for is there, in full, for each recipient that    *)
(* was confirmed, until somebody collects it; POP3 sessions that list, or  *)
(* close, while it is being saved and a process that dies at any point do  *)
(* not make it go away.  Once a statement has failed nothing is claimed:   *)
(* nobody looks at the result of the INSERT of a line; nor is of the 250   *)
(* for a mail without a line, which is not saved.                          *)
(***************************************************************************)
AcceptedIsKept ==
  faults = 0 => \A r \in Smtp!Promises : Kept(r) \/ WasCollected(r)

Item(id, origin) == [id |-> id, mail |-> origin.mail, rcpt |-> origin.rcpt]

CollectedItems == {Item(c.id, c) : c \in collected}

Contract == INSTANCE MailContract
  WITH ID <- MsgID,
       Mail <- SmtpSessions \X (1..MaxMails),
       Rcpt <- UserID \cup Address,
       Single <- UserID,
       stored <- {Item(id, messages[id].origin) : id \in Rows}
                   \ CollectedItems,
       accepted <- {[mail |-> r.mail, rcpt |-> r.rcpt] :
                      r \in Smtp!Promises},
       taken <- CollectedItems

(***************************************************************************)
(* The daemon implements MailContract: each recipient's copy is stored (an *)
(* account's once) under a number of its own, and taken once, the 250      *)
(* comes after the last copy and no copy comes after the 250, whatever     *)
(* fails or dies between the statements, and whoever lists, marks or       *)
(* deletes meanwhile.  A copy counts as taken with its lines or its row,   *)
(* whichever goes first; the 250 for a mail without a line is none.        *)
(***************************************************************************)
ImplementsContract == Contract!Spec

(***************************************************************************)
(* A line or a row of a message is only taken away in the OnClose of a     *)
(* session of its user in which that very message was marked: a message    *)
(* number never comes to stand for another, later message.                 *)
(***************************************************************************)
OnlyMarkedTaken ==
  [][\A id \in Taken :
       \E p \in PopSessions : Pop!DeletedForThisSession(id, p)]_vars

(***************************************************************************)
(* For as long as a session has a message in its list, and the message is  *)
(* there, it is the message that was listed, while other sessions delete   *)
(* and deliver.                                                            *)
(***************************************************************************)
NumbersKeepTheirMeaning ==
  \A p \in PopSessions : \A i \in 1..Len(pop[p].list) :
    LET item == pop[p].list[i]
    IN  item.id \in Rows => messages[item.id].origin = item.origin

(***************************************************************************)
(* A callback that talks to the database ends: SaveMessage, the loading of *)
(* the list with a query for each size that is missing, and the deletions  *)
(* of OnClose come to their last statement, whatever statements fail and   *)
(* other sessions deliver or delete meanwhile, unless the process ends.    *)
(* That OnClose begins is for the peer to decide, and is not claimed.      *)
(***************************************************************************)
CallbacksEnd ==
  /\ \A s \in SmtpSessions :
       smtp[s].step # "none" ~> (smtp[s].step = "none" \/ process # "up")
  /\ \A p \in PopSessions :
       pop[p].step # "none" ~> (pop[p].step = "none" \/ process # "up")

------------------------------------------------------------------------------
(***************************************************************************)
(* Claims of the source that the code does not keep.                       *)
(***************************************************************************)

(***************************************************************************)
(* SaveMessage: "The process has been completed, and we need to save this  *)
(* email in the database."  Then an accepted mail is there in full, or was *)
(* there in full when its user took it.                                    *)
(***************************************************************************)
CollectedWhole ==
  \A r \in Smtp!Promises :
    Kept(r) \/ \E c \in collected : /\ c.mail = r.mail
                                    /\ c.rcpt = r.rcpt
                                    /\ c.n = r.n

==============================================================================
