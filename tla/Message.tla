------------------------------- MODULE Message -------------------------------
(***************************************************************************)
(* The SMTP sessions: class Message on top of the framework of module      *)
(* Session, working on the MailStore.  A command or a line of data is      *)
(* handled in one step (the directory it looks into does not change),      *)
(* except that SaveMessage takes one step for each statement it sends.     *)
(*                                                                         *)
(* A command that is refused changes nothing and is not an action: the     *)
(* guards below are the conditions under which the code does not refuse.   *)
(* What the framework does to a Message is as in module PopSession.        *)
(***************************************************************************)
EXTENDS MailStore, Recipients

CONSTANTS SmtpSessions,   \* the sessions
          Address,        \* the addresses RCPT names
          Directory,      \* tables Domains and Addresses, by address
          MaxRemote,      \* MAX_REMOTE_ADDRESSES
          MaxLogins,      \* bound on the AUTH commands of a session
          MaxMails,       \* bound on the DATA commands of a session
          MaxLines        \* bound on the lines a session sends in one mail

\* What a session puts into table Messages: the mail is the session and the
\* number of its DATA command.
Row == [user : UserID, size : Nat,
        origin : [mail : SmtpSessions \X Nat, rcpt : UserID \cup Address]]

(***************************************************************************)
(* For an address, "local" says that its domain is one of ours, "users"    *)
(* are the accounts it stands for, "postmaster" those of the postmaster of *)
(* its domain, and "reject" that unknown names do not go to the postmaster.*)
(***************************************************************************)
MessageParameters ==
  /\ Directory \in [Address -> [local : BOOLEAN, reject : BOOLEAN,
                                users : Seq(UserID),
                                postmaster : Seq(UserID)]]
  /\ Address \cap UserID = {}
  /\ NoRow \notin Row
  /\ MaxRemote \in Nat \ {0}
  /\ MaxLogins \in Nat
  /\ MaxMails \in Nat
  /\ MaxLines \in Nat

ASSUME MessageAssumption == MessageParameters

VARIABLES smtp,       \* _Data of each session, its state and its thread
          receipts    \* the mail a 250 has been sent for (observer)

smtpVars == <<store, process, smtp, receipts>>

\* "logins" and "mail" count the AUTH and DATA commands, "sent" the lines since
\* DATA; "promised" and "refused" are the recipients RCPT answered with 250, and
\* with 554, since the last RSET.
NewMessage ==
  [state |-> "Starting", step |-> "none", helo |-> FALSE, from |-> FALSE,
   users |-> <<>>, remote |-> <<>>, lines |-> <<>>,
   authenticating |-> FALSE, authenticated |-> FALSE, szUser |-> 0,
   szPass |-> FALSE, userID |-> 0, i |-> 1, j |-> 1, id |-> 0, size |-> 0,
   logins |-> 0, mail |-> 0, sent |-> 0, promised |-> {}, refused |-> {}]

\* At Done the object only waits to be destroyed.
GoneMessage == [NewMessage EXCEPT !.state = "Done"]

InitMessage ==
  /\ smtp = [s \in SmtpSessions |-> NewMessage]
  /\ receipts = {}

Keep == UNCHANGED <<store, process>>

Command(s) ==
  /\ process = "up"
  /\ smtp[s].state = "Waiting"
  /\ smtp[s].step = "none"

DataMode(s) ==
  /\ process = "up"
  /\ smtp[s].state = "Data"
  /\ smtp[s].step = "none"

------------------------------------------------------------------------------
OnStart(s) ==
  /\ process = "up"
  /\ smtp[s].state = "Starting"
  /\ smtp' = [smtp EXCEPT ![s].state = "Waiting"]
  /\ UNCHANGED receipts /\ Keep

\* EHLO is the same but for its reply.
ProcessHELO(s) ==
  /\ Command(s)
  /\ ~smtp[s].helo
  /\ smtp' = [smtp EXCEPT ![s].helo = TRUE]
  /\ UNCHANGED receipts /\ Keep

ProcessAUTH(s) ==
  /\ Command(s)
  /\ smtp[s].helo
  /\ smtp[s].logins < MaxLogins
  /\ smtp' = [smtp EXCEPT ![s].authenticating = TRUE,
                          ![s].authenticated = FALSE, ![s].state = "Data",
                          ![s].logins = @ + 1]
  /\ UNCHANGED receipts /\ Keep

ProcessMAIL(s) ==
  /\ Command(s)
  /\ smtp[s].helo
  /\ ~smtp[s].from
  /\ smtp' = [smtp EXCEPT ![s].from = TRUE]
  /\ UNCHANGED receipts /\ Keep

------------------------------------------------------------------------------
(***************************************************************************)
(* RCPT.                                                                   *)
(***************************************************************************)
\* The accounts of the address, else of the postmaster of a lenient domain.
UsersFor(a) ==
  IF Directory[a].users # <<>> THEN Directory[a].users
  ELSE IF Directory[a].reject THEN <<>>
  ELSE Directory[a].postmaster

\* Fault: a full list is not reported.
AddLocalSilently(s, a) ==
  LET all == AddUsers(smtp[s].users, UsersFor(a))
  IN  smtp' = [smtp EXCEPT ![s].users = all,
                           ![s].promised = @ \cup ToSet(UsersFor(a))]

\* The reply is 554 whenever the list is full afterwards.
AddLocal(s, a) ==
  LET all == AddUsers(smtp[s].users, UsersFor(a))
      new == ToSet(UsersFor(a)) \ smtp[s].promised
  IN  IF Len(all) = MaxLocal
        THEN smtp' = [smtp EXCEPT ![s].users = all, ![s].refused = @ \cup new]
        ELSE smtp' = [smtp EXCEPT ![s].users = all, ![s].promised = @ \cup new]

RcptLocal(s, a) ==
  /\ Command(s)
  /\ smtp[s].from
  /\ Directory[a].local
  /\ UsersFor(a) # <<>>
  /\ AddLocal(s, a)
  /\ UNCHANGED receipts /\ Keep

\* Fault: everyone may relay.
RcptRemoteOpen(s, a) ==
  /\ Command(s)
  /\ smtp[s].from
  /\ ~Directory[a].local
  /\ Len(smtp[s].remote) < MaxRemote
  /\ smtp' = [smtp EXCEPT ![s].remote = Append(@, a),
                          ![s].promised = @ \cup {a}]
  /\ UNCHANGED receipts /\ Keep

\* The element the ASSERT reads once the array is full is nRemote, not NULL.
RcptRemote(s, a) ==
  /\ Command(s)
  /\ smtp[s].from
  /\ ~Directory[a].local
  /\ smtp[s].authenticated
  /\ IF Len(smtp[s].remote) = MaxRemote
       THEN Assertion("RCPT") /\ UNCHANGED smtp
       ELSE /\ smtp' = [smtp EXCEPT ![s].remote = Append(@, a),
                                    ![s].promised = @ \cup {a}]
            /\ Keep
  /\ UNCHANGED receipts

\* ASSERT(strlen(user) < 255 && strlen(user) > 0), before any look at the
\* directory: the address of the command has no name, or too long a one.
RcptBadName(s) ==
  /\ Command(s)
  /\ smtp[s].from
  /\ Assertion("RCPT name")
  /\ UNCHANGED <<smtp, receipts>>

ProcessDATA(s) ==
  /\ Command(s)
  /\ smtp[s].users # <<>> \/ smtp[s].remote # <<>>
  /\ smtp[s].mail < MaxMails
  /\ smtp' = [smtp EXCEPT ![s].state = "Data", ![s].mail = @ + 1,
                          ![s].sent = 0]
  /\ UNCHANGED receipts /\ Keep

\* Fault: the recipients of the transaction are kept, but not the sender.
ResetSenderOnly(s) ==
  /\ Command(s)
  /\ smtp' = [smtp EXCEPT ![s].from = FALSE, ![s].lines = <<>>,
                          ![s].promised = {}, ![s].refused = {}]
  /\ UNCHANGED receipts /\ Keep

ProcessRSET(s) ==
  /\ Command(s)
  /\ smtp' = [smtp EXCEPT ![s].from = FALSE, ![s].users = <<>>,
                          ![s].remote = <<>>, ![s].lines = <<>>,
                          ![s].authenticating = FALSE,
                          ![s].promised = {}, ![s].refused = {}]
  /\ UNCHANGED receipts /\ Keep

ProcessQUIT(s) ==
  /\ Command(s)
  /\ smtp' = [smtp EXCEPT ![s].state = "Close"]
  /\ UNCHANGED receipts /\ Keep

------------------------------------------------------------------------------
(***************************************************************************)
(* OnData while authenticating: the name, then the password.  A blank line *)
(* is passed over.                                                         *)
(***************************************************************************)
\* Fault: the ASSERT on a first login is not there.
OnAuthAgain(s, name, valid) ==
  /\ DataMode(s)
  /\ smtp[s].authenticating
  /\ IF smtp[s].szUser = 0
       THEN smtp' = [smtp EXCEPT ![s].szUser = name]
       ELSE smtp' = [smtp EXCEPT ![s].szPass = TRUE,
                       ![s].userID = GetUserID(smtp[s].szUser, valid),
                       ![s].authenticated = valid,
                       ![s].state = "Waiting",
                       ![s].authenticating = FALSE]
  /\ UNCHANGED receipts /\ Keep

\* The ASSERTs: this is not the session's first login, or the line decodes to
\* nothing.
OnAuth(s, name, valid) ==
  /\ DataMode(s)
  /\ smtp[s].authenticating
  /\ \/ Assertion("AUTH") /\ UNCHANGED smtp
     \/ /\ ~smtp[s].szPass /\ smtp[s].userID = 0 /\ smtp[s].szUser = 0
        /\ smtp' = [smtp EXCEPT ![s].szUser = name]
        /\ Keep
     \/ /\ ~smtp[s].szPass /\ smtp[s].userID = 0 /\ smtp[s].szUser # 0
        /\ smtp' = [smtp EXCEPT ![s].szPass = TRUE,
                      ![s].userID = GetUserID(smtp[s].szUser, valid),
                      ![s].authenticated = valid,
                      ![s].state = "Waiting",
                      ![s].authenticating = FALSE]
        /\ Keep
  /\ UNCHANGED receipts

------------------------------------------------------------------------------
(***************************************************************************)
(* OnData otherwise: a line of the mail, or the dot that ends it.          *)
(***************************************************************************)
MailOf(s) == <<s, smtp[s].mail>>

NextLine(s) == [mail |-> MailOf(s), n |-> smtp[s].sent + 1]

OnDataLine(s) ==
  /\ DataMode(s)
  /\ ~smtp[s].authenticating
  /\ smtp[s].sent < MaxLines
  /\ smtp' = [smtp EXCEPT ![s].lines = Append(@, NextLine(s)),
                          ![s].sent = @ + 1]
  /\ UNCHANGED receipts /\ Keep

\* What the 250 for the dot tells the client: for whom the mail was taken, how
\* many lines it had, and (which the client is not told) whether it was saved.
Receipts(s) ==
  {[mail |-> MailOf(s), rcpt |-> r, n |-> smtp[s].sent,
    saved |-> smtp[s].lines # <<>>] : r \in smtp[s].promised}

\* "Body was empty, not saving message.", and 250 to the client all the same.
OnDot(s) ==
  /\ DataMode(s)
  /\ ~smtp[s].authenticating
  /\ IF smtp[s].lines = <<>>
       THEN /\ smtp' = [smtp EXCEPT ![s].state = "Waiting"]
            /\ receipts' = receipts \cup Receipts(s)
       ELSE /\ smtp' = [smtp EXCEPT ![s].step = "insert", ![s].i = 1,
                                    ![s].size = 0]
            /\ UNCHANGED receipts
  /\ Keep

------------------------------------------------------------------------------
(***************************************************************************)
(* SaveMessage: for each recipient, first the local ones, the message row, *)
(* its lines, for a remote one the Outgoing row, and the size.             *)
(***************************************************************************)
AllRecipients(s) == smtp[s].users \o smtp[s].remote

IsLocal(s) == smtp[s].i <= Len(smtp[s].users)

IsRemote(s) ==
  /\ ~IsLocal(s)
  /\ smtp[s].remote # <<>>
  /\ smtp[s].i <= Len(smtp[s].users) + Len(smtp[s].remote)

Recipient(s) ==
  IF IsLocal(s) THEN smtp[s].users[smtp[s].i]
                ELSE smtp[s].remote[smtp[s].i - Len(smtp[s].users)]

Saving(s, step) ==
  /\ process = "up"
  /\ smtp[s].step = step

MayRelay(s) ==
  /\ smtp[s].authenticated
  /\ ~smtp[s].authenticating
  /\ smtp[s].userID # 0
  /\ smtp[s].from

SaveRow(s) ==
  /\ Saving(s, "insert")
  /\ IsLocal(s) \/ IsRemote(s)
  /\ IF IsLocal(s) \/ MayRelay(s)
       THEN \/ /\ InsertMessage(IF IsLocal(s) THEN Recipient(s)
                                              ELSE smtp[s].userID,
                                [mail |-> MailOf(s), rcpt |-> Recipient(s)])
               /\ smtp' = [smtp EXCEPT ![s].id = nextID, ![s].j = 1,
                                       ![s].step = "lines"]
            \/ InsertMessageFails /\ UNCHANGED smtp
       ELSE Assertion("SaveMessage") /\ UNCHANGED smtp
  /\ UNCHANGED receipts

SaveLine(s) ==
  /\ Saving(s, "lines")
  /\ smtp[s].j <= Len(smtp[s].lines)
  /\ InsertBodyLine(smtp[s].id, smtp[s].lines[smtp[s].j])
  /\ smtp' = [smtp EXCEPT ![s].j = @ + 1, ![s].size = @ + 1]
  /\ UNCHANGED receipts

SaveOutgoing(s) ==
  /\ Saving(s, "lines")
  /\ smtp[s].j > Len(smtp[s].lines)
  /\ ~IsLocal(s)
  /\ InsertOutgoing(smtp[s].id, Recipient(s))
  /\ smtp' = [smtp EXCEPT ![s].step = "size"]
  /\ UNCHANGED receipts

\* Fault: the loop does not go on to the next recipient.
SaveSizeAgain(s) ==
  /\ \/ Saving(s, "size")
     \/ Saving(s, "lines") /\ smtp[s].j > Len(smtp[s].lines) /\ IsLocal(s)
  /\ UpdateMessageSize(smtp[s].id, smtp[s].size)
  /\ smtp' = [smtp EXCEPT ![s].step = "size"]
  /\ UNCHANGED receipts

\* Fault: the recipient is saved again.
SaveSizeRepeats(s) ==
  /\ \/ Saving(s, "size")
     \/ Saving(s, "lines") /\ smtp[s].j > Len(smtp[s].lines) /\ IsLocal(s)
  /\ UpdateMessageSize(smtp[s].id, smtp[s].size)
  /\ smtp' = [smtp EXCEPT ![s].step = "insert"]
  /\ UNCHANGED receipts

\* nSize goes on counting from one recipient to the next.
SaveSize(s) ==
  /\ \/ Saving(s, "size")
     \/ Saving(s, "lines") /\ smtp[s].j > Len(smtp[s].lines) /\ IsLocal(s)
  /\ UpdateMessageSize(smtp[s].id, smtp[s].size)
  /\ smtp' = [smtp EXCEPT ![s].i = @ + 1, ![s].step = "insert"]
  /\ UNCHANGED receipts

\* Fault: the 250 is sent before the last recipient's copy is saved.
SaveDoneEarly(s) ==
  /\ Saving(s, "insert")
  /\ smtp[s].i >= Len(AllRecipients(s))
  /\ smtp' = [smtp EXCEPT ![s].step = "none", ![s].state = "Waiting",
                          ![s].id = 0, ![s].size = 0]
  /\ receipts' = receipts \cup Receipts(s)
  /\ Keep

\* Back in OnData: 250 to the client.  Nothing of the transaction is reset.
SaveDone(s) ==
  /\ Saving(s, "insert")
  /\ ~IsLocal(s) /\ ~IsRemote(s)
  /\ smtp' = [smtp EXCEPT ![s].step = "none", ![s].state = "Waiting",
                          ![s].id = 0, ![s].size = 0]
  /\ receipts' = receipts \cup Receipts(s)
  /\ Keep

SaveMessage(s) ==
  SaveRow(s) \/ SaveLine(s) \/ SaveOutgoing(s) \/ SaveSize(s) \/ SaveDone(s)

------------------------------------------------------------------------------
\* Session::OnIdle at the limit.
IdleLimitReached(s) ==
  /\ process = "up"
  /\ smtp[s].state \in {"Waiting", "Data"}
  /\ smtp[s].step = "none"
  /\ smtp' = [smtp EXCEPT ![s].state = "Close"]
  /\ UNCHANGED receipts /\ Keep

\* The connection is lost, or OnClose, which does nothing, has been made.
Leave(s) ==
  /\ process = "up"
  /\ smtp[s].state \in {"Waiting", "Data", "Close"}
  /\ smtp[s].step = "none"
  /\ smtp' = [smtp EXCEPT ![s] = GoneMessage]
  /\ UNCHANGED receipts /\ Keep

\* ~Message runs while the thread is in SaveMessage: there are no recipients and
\* no lines any more, so that its loops end.  The size of the copy it was at may
\* still be stored; an ASSERT on what it finds instead of a user, a line or an
\* address ends the process.  Whether a 250 still reaches the client is left
\* open: no receipt speaks of it.
DestroyedWhileSaving(s) ==
  /\ process = "up"
  /\ smtp[s].step # "none"
  /\ \/ /\ smtp' = [smtp EXCEPT ![s] = GoneMessage]
        /\ \/ Keep
           \/ /\ smtp[s].step # "insert"
              /\ UpdateMessageSize(smtp[s].id, smtp[s].size)
     \/ Assertion("destroyed") /\ UNCHANGED smtp
  /\ UNCHANGED receipts

Sender(s) ==
  \/ OnStart(s) \/ ProcessHELO(s) \/ ProcessAUTH(s) \/ ProcessMAIL(s)
  \/ \E a \in Address : RcptLocal(s, a) \/ RcptRemote(s, a)
  \/ RcptBadName(s)
  \/ ProcessDATA(s) \/ ProcessRSET(s) \/ ProcessQUIT(s)
  \/ \E name \in UserID, valid \in BOOLEAN : OnAuth(s, name, valid)
  \/ OnDataLine(s) \/ OnDot(s)
  \/ IdleLimitReached(s) \/ Leave(s) \/ DestroyedWhileSaving(s)

Init == InitStore /\ process = "up" /\ InitMessage

Next == \E s \in SmtpSessions : SaveMessage(s) \/ Sender(s)

Terminated ==
  /\ process # "up" \/ \A s \in SmtpSessions : smtp[s].state = "Done"
  /\ UNCHANGED smtpVars

Spec == Init /\ [][Next \/ Terminated]_smtpVars

------------------------------------------------------------------------------
(***************************************************************************)
(* Properties.                                                             *)
(***************************************************************************)
MessageTypeOK ==
  \A s \in SmtpSessions :
    /\ smtp[s].state \in {"Starting", "Waiting", "Data", "Close", "Done"}
    /\ smtp[s].step \in {"none", "insert", "lines", "size"}
    /\ smtp[s].step # "none" => smtp[s].state = "Data" /\ smtp[s].lines # <<>>
    /\ Len(smtp[s].users) <= MaxLocal
    /\ Len(smtp[s].remote) <= MaxRemote
    /\ smtp[s].userID \in UserID \cup {0}
    /\ smtp[s].id \in MsgID \cup {0}

\* The n lines of a mail, in their order, end the body, and are not in front.
EndsWith(lines, mail, n) ==
  LET before == Len(lines) - n
  IN  /\ before >= 0
      /\ \A k \in 1..before : lines[k].mail # mail
      /\ \A k \in 1..n : lines[before + k] = [mail |-> mail, n |-> k]

\* The copy of a mail for one recipient, with every line of the mail.
Complete(id, r) ==
  /\ id \in Rows
  /\ messages[id].origin = [mail |-> r.mail, rcpt |-> r.rcpt]
  /\ EndsWith(bodies[id], r.mail, r.n)

\* The 250s that promise a copy.
Promises == {r \in receipts : r.saved}

(***************************************************************************)
(* What was accepted is there: when the 250 for the dot has been sent,     *)
(* every recipient RCPT said 250 to has a copy with all lines of the mail, *)
(* in their order, however the lists filled up, were deduplicated, reset   *)
(* or left over from an earlier DATA, unless a statement has failed.  The  *)
(* exception is a mail without a line, when no earlier one has left any:   *)
(* OnData answers 250 and saves nothing.                                   *)
(***************************************************************************)
AcceptedIsStored ==
  faults = 0 => \A r \in Promises : \E id \in MsgID : Complete(id, r)

(***************************************************************************)
(* A user gets one copy of a mail, also when several addresses of the mail *)
(* lead to him, or when he is postmaster as well.                          *)
(***************************************************************************)
NoDuplicateCopies ==
  \A a, b \in Rows :
    /\ messages[a].origin = messages[b].origin
    /\ messages[a].origin.rcpt \in UserID
    => a = b

(***************************************************************************)
(* Mail only leaves the system for a client that has logged in: no order   *)
(* of AUTH, failed AUTH, MAIL, RCPT and RSET gets a remote recipient onto  *)
(* the list of a session without an account behind it.                     *)
(***************************************************************************)
NoOpenRelay ==
  \A s \in SmtpSessions :
    smtp[s].remote # <<>> =>
      /\ smtp[s].userID # 0
      /\ smtp[s].authenticated \/ smtp[s].authenticating

(***************************************************************************)
(* The four ASSERTs of SaveMessage on a mail with remote recipients hold:  *)
(* the login those recipients were accepted under is still valid then.     *)
(***************************************************************************)
SaveAssertionsHold == process # "SaveMessage"

(***************************************************************************)
(* RSET forgets the recipients: SaveMessage stores a copy only for one the *)
(* session named with RCPT since its last RSET, and under the mail it is   *)
(* sending, whatever AUTH, DATA and earlier mails there were in between.   *)
(* (A recipient of an earlier mail gets this one, too, unnamed for it.)    *)
(***************************************************************************)
StoredAsNamed(origin) ==
  LET sender == smtp[origin.mail[1]]
  IN  /\ origin.mail[2] = sender.mail
      /\ origin.rcpt \in sender.promised \cup sender.refused

OnlyNamedRecipients ==
  [][\A id \in MsgID :
       messages[id] = NoRow /\ messages'[id] # NoRow =>
         StoredAsNamed(messages'[id].origin)]_smtpVars

------------------------------------------------------------------------------
(***************************************************************************)
(* Claims of the source that the code does not keep.                       *)
(***************************************************************************)

(***************************************************************************)
(* SaveMessage: "we need to save this email in the database".  The copy    *)
(* holds this email, and nothing of another.                               *)
(***************************************************************************)
OneMailPerBody ==
  \A id \in Rows : \A line \in ToSet(bodies[id]) :
    line.mail = messages[id].origin.mail

==============================================================================
