# Verification of mailsrvd

mailsrvd is a small mail daemon: SMTP servers take mail in, POP3 servers hand it
out, a MySQL database keeps it. Each connection has an object and a thread of its
own. This directory holds TLA+ specifications of it, the TLC configurations that
check them, and the theorems about them that TLAPS proves.

All paths below are relative to `src/src/` unless they say otherwise.

## 1. Inventory

| Component | State | Operations | Who it works with |
|---|---|---|---|
| Session framework (`Session.cpp`) | `_SessionState`, `_pSocket`, `_Qin`, `_Qout`, `_nIdleCount` | `Accept`, `OnThreadRun`, `ReceiveData`, `SendData`, `OnIdle`, `OnBusy`, `ChangeState`, `~Session` | thread of its own; owner (server); peer over the socket; callbacks of the derived class |
| SMTP session (`Message.cpp`) | `_Data`: HELO, sender, local users, remote addresses, lines, login | HELO, EHLO, AUTH, MAIL, RCPT, DATA, RSET, NOOP, QUIT, `OnData`, `SaveMessage`, `Reset` | called by the framework; calls `DataModel` |
| POP3 session (`PopSession.cpp`) | `_Data`: user, login, message list with sizes and marks | USER, PASS, STAT, LIST, UIDL, RETR, DELE, RSET, NOOP, QUIT, `LoadMessages`, `OnClose` | called by the framework; calls `DataModel` |
| DataModel, mail (`DataModel.cpp`, `src/docs/tables.sql`) | the tables of users, messages, bodies and outgoing mail | one method per statement | shared by all sessions, under the object's lock |
| DataModel, domains (`DataModel.cpp`) | the tables of domains and addresses, `_Cache` of one domain | `GetDomainID`, `GetDomainReject`, `GetUserFromAddress` | the `RCPT` of every SMTP session |
| Servers, main (`Server.cpp`, `SmtpServer.cpp`, `PopServer.cpp`, `main.cpp`) | theApp: configuration, logger, DataModel, list of servers; each server: list of sessions, pointer to the DataModel | `OnStartup`, `Listen` with its retries, `AddServer`, `OnAccept`, reaping, `OnShutdown` | own the sessions, lend them the DataModel and the log |
| Sender session, DNS cache (`SenderSession.cpp`) | not built | lookup and sending | `DataModel` |
| DataList (`DataList.cpp`) | columns, rows, cursor, phase | `AddColumn`, `AddRow`, `AddData`, `Complete`, `NextRow`, `Get*` | result of a query, one thread |
| Logger (`Logger.cpp`) | name, number, buffer | `Log` | every object |
| DevPlus library | | threads, locks, sockets, queues, MySQL | external |

What is hard here:

* *Threads.* A session's state is shared by its thread and its owner, read and
  written under a lock one access at a time. Every check followed by a change is a
  place where the other side may come in between.
* *Object life.* The owner may destroy a session whose thread is running.
* *Start and stop.* Servers accept clients while others are still being started; a
  shutdown may be asked for at any moment of it; what the main thread owns is used
  by all others through plain pointers.
* *A shared cache.* What one session put into `_Cache` between two calls of another
  one is what that one finds there.
* *A shared store without transactions.* Saving a mail and loading or deleting
  messages take many statements; sessions interleave between them, statements fail
  unnoticed, and the process may die anywhere. An `ASSERT` in one session ends it
  for all.
* *Commands in any order.* What a client may send when is checked by each command
  for itself; what a session remembers from one transaction to the next, or from one
  login to the next, decides who gets what.
* *Limits.* Recipient lists, message list, idle counter, numbers of the client's.

`PROJECT.json` lists these as hazards, at their lines, with the properties that
watch over each.

## 2. Modules

| Module | What it is |
|---|---|
| `SessionContract` | what the framework promises a derived class: a connection is opened once, `OnStart` comes first, `OnData` only after a command, `OnClose` last and only over a live connection |
| `Session` | the framework, its thread, its owner, its peer; implements `SessionContract` |
| `MailStore` | the tables of mail and the statements DataModel sends, with their failures |
| `Recipients` | the list of local recipients and how `RCPT` adds to it |
| `PopSession` | POP3 sessions on the `MailStore` |
| `Message` | SMTP sessions on the `MailStore`, with `Recipients` |
| `MailContract` | what the daemon promises about mail, without sessions, statements and crashes; `Single` are the recipients who get a mail once |
| `Delivery` | both kinds of session on one `MailStore`, crashes and restarts; implements `MailContract` |
| `DataList` | the result of a query, its phases and its cursor |
| `Lookup` | how `RCPT` finds an account: several sessions, the domain tables, the cache, a `DataList` each, `Recipients` |
| `Servers` | the main thread, the servers, and when the sessions live |
| `SessionProofs`, `PopSessionProofs`, `MessageProofs`, `DeliveryProofs`, `MailContractProofs`, `RecipientsProofs`, `LookupProofs`, `ServersProofs` | theorems about the module of that name, with their proofs |
| `MC*` | the instances for TLC |

The modules meet in three places. `Session` shows what the framework does with
`SessionContract`'s callbacks, and `PopSession` and `Message` start from these
callbacks. `Message` takes the answer of the lookup from a constant, and `Lookup`
shows what that answer is. `Servers` has a session as something that runs and, when
forced, either finds itself forced and ends, as `CaseForceClose` of `Session` does,
or has overwritten the request (`ForceLost`) and ends when its client lets it, which
is what `DestructorReturns` and its `QuietPeer` say.

### Session

`_SessionState` is the only datum thread and owner share. `GetState` and
`ChangeState` take the object's lock, so each is a step; what the thread does
between two of them touches only its own data and is part of the step. `pc` is the
place of the thread in `OnThreadRun`; `owner` follows the destructors: `Destroy`
enters the derived one, `CheckDone` is the test in `~Session`, `ForceClose` the
change after it, `WaitForThread` the rest. `CheckDone` and `ForceClose` are apart,
and so are `EnterThread` and `BeginThread`, since the lock is released between the
read and the write. A callback is reduced to what it can do to the framework: take a
line and queue output when it begins (`Serve`), and change the state at its end
(`CommandReturns`, `DataReturns`, `SetWaiting`), so that the owner's `ForceClose` may
land inside it and be overwritten, or meet the `ASSERT` that the state is still
`Waiting` (`CommandAsserts`: NOOP, RSET, and QUIT of POP3). `OnClose` is apart from
the deletion of the socket after it (`CaseClose`, `CloseReturns`), since in
`PopSession` it is a loop of statements.

When a callback is due and the derived destructor has begun, the model offers
`LateCallback`, the process going down, next to the call that still finds the object
intact (only until the base destructor is reached): this is undefined behaviour, and
both outcomes occur. The same goes for a callback that is under way by then.

`peer` says whether the other end still sends, `window` whether it still reads.
Lines of `_Qin` and bytes of `_Qout` are counted; a `Send` takes any part of what it
is given, or nothing when the window is shut.

### MailStore

One operation per method of `DataModel`; a method holds the lock from its first
statement to its last, so it is one step. `InsertMessage` asserts the number it
gets, so that one that fails (`InsertMessageFails`) ends the process; all others
ignore the result: each of them may fail, up to `MaxFaults` times, alone or (the two
`DELETE`s) together, and the program goes on. `InsertOutgoing` may at any time do
nothing: its statement uses `DATETIME('now')` and `'%q'`, which are SQLite's. A line
of a body is one unit long. Columns nothing depends on are left out; `origin` in a
row and `mail` in a line are not columns, they say for the properties where a row or
a line comes from. Nothing in the code reads them.

The query of `GetMessageList` has no `ORDER BY` (`DataModel.cpp:357`) and a `LIMIT`,
so its result is any choice of that many messages of the user, in any order.

### PopSession and Message

One action per command. Only accepted commands are actions; refused ones change
nothing. `RSET` of POP3 is not an action either: it calls `Reset`, whose body is
empty, and the marks stay. `STAT`, `LIST` and `UIDL` are one action, since they
differ in their reply only, and so are HELO and EHLO. `RETR` changes nothing either
and is no action; what it sends (a line and a CRLF, where sizes count lines only) is
not modelled, and `ListedSizesFollowStore` only says where a listed size comes from.
Old mail in `PopSession` has any user, and any recorded size of `OldSizes`: none, or
one that is not that of its lines, such as `SaveMessage` records for the later copies
of a mail. `LoadMessages`, `SaveMessage` and the loop of `OnClose` take one
step per statement (`step` and the loop counters `k`, `i`, `j` are the place in
them). What is left of the framework is what a derived class sees: a command comes
in state `Waiting`, a line of data in `Data`, the idle limit moves either to
`Close`, `OnClose` follows when output is gone, a lost connection (or the owner)
ends a session without it. The owner may also destroy a session in the middle of a
callback's statements: `DestroyedWhileSaving` and `DestroyedInCallback` take the
lists away that the loop runs over, so that the loop ends or the process does.

The `ASSERT`s on a client's line are actions, or disjuncts, that end the process:
`RcptBadName` (no name in front of the `@`, or one too long), `OnAuth` (a line that
decodes to nothing, or a second login), `RcptRemote` (the list is full),
`ProcessLIST` (a negative number), `ProcessQUIT` (anything behind the word).

In `Message` the domains and addresses are one constant, `Directory`: no operation
of the daemon changes those tables, and a query on them is one step of the command.
What goes on between the queries of a `RCPT` is the matter of `Lookup`.

`smtp[s].promised` and `refused` note what `RCPT` answered since the last RSET,
`receipts` what was acknowledged with 250. These are observers: no guard reads them.
`saved` in a receipt tells the 250 of `SaveMessage` from that for a mail without a
line, which `OnData` acknowledges without saving it; `Promises` are the former, and
the properties that say accepted mail is there speak of these. `sent` counts the
lines since the last `DATA`, which number the lines of a mail and bound them by
`MaxLines`; the code has no such counter, and no such bound. The rows of an answer
are added to the list one after the other (`Added` of `Recipients`, the loops of
`ProcessRCPT`), as those of a `DataList` are in `Filled`.

### Delivery and MailContract

`Smtp == INSTANCE Message` and `Pop == INSTANCE PopSession` on the same tables. A
step is a step of one session, or a `Crash`, or a crash inside `DeleteMessage`
between the `DELETE` for the lines and that for the row, or a `Restart`, after which
clients connect to new objects and the tables are as they were. `collected` observes
what has been deleted, with the number of lines there were.

`MailContract` knows items (one mail for one recipient, under one number) and three
steps: an item is stored, under a number never given before, before its mail is
acknowledged, and once for each account (`Single <- UserID`; a client may name a
remote address twice, and has it stored twice); a mail is acknowledged once, when
the items of its recipients have been stored; a stored item is taken, once.
`Contract == INSTANCE MailContract WITH ...` in `Delivery` maps the rows of the
table to `stored`, the `Promises` to `accepted` and what sessions deleted to
`taken`. Since `DeleteMessage` is two statements, of which one may fail or never be
sent, an item counts as taken when its lines or its row are gone, whichever comes
first. `ImplementsContract` says that every step of the daemon, a crash included, is
one of those three or none.

### DataList and Lookup

A `DataList` is a value: columns, rows, completeness, cursor. Its operations are
operators, each with its `ASSERT`s; `ok` is lost with the first that fails. The
cursor may stand one past the last row, which is where `NextRow` says that there is
none. Cells are integers; the strings that only `ConvertPop3` would put there, and
memory, are left out.

In `Lookup` each call of the DataModel is a step of `ProcessRCPT`: `GetDomainID`,
which fills the cache; `GetDomainReject`, which takes the answer from the cache if
it holds this domain and else from the table (before them, `BadName`, the `ASSERT`
on the name in the command); `GetUserFromAddress` for the name, and
for the postmaster if the name is unknown and not to be refused; then a step for
each row read and the answer. `_Cache` starts with anything in it (`Junk`): nothing
initialises it. `ChangeDomain` is not of the daemon: somebody changes the table
while it runs. Any query may fail, up to `MaxFaults` times, and reads as the code
reads it: an unknown domain, Reject 1, no list. `users` is the list of the mail,
which the `RCPT`s of a session share; `seen`, `before` and `read` are observers.

### Servers

`main` is the place of the main thread in `OnStartup` and `OnShutdown`, with the
loop counters; `app` the members of `theApp`; `server` and `session` the objects.
The servers are numbered in the order in which `StartPop3` and `StartSMTP` start
them; the two kinds differ in the class they make only and share their actions.
`Listen` fails when the port is taken, by another server of ours or by somebody
else, and is tried `MaxTries` times. `AddServer`, which gives the server the
DataModel, is a step of its own after `Listen`, whose thread accepts from the moment
it returns. `OnAccept` and `AddObject` are apart, since the session's own thread
runs between them; reaping (`OnObjectDelete`) goes on in the thread of the server
until the destructor of the base class has stopped it. `OnShutdown` deletes server
after server, each with its sessions (`DeleteSession` forces one and waits), then
the other objects, then the logger. A session that is forced may have overwritten
the request with its own `ChangeState` (`ForceLost`): it is `overruled` then, and its
end is up to its client. `AskShutdown` may come at any time.

## 3. Runs

Passing runs:

| Run | Instance | What it shows |
|---|---|---|
| `session` | idle limit 3, 2 lines, 2 units of output, 1 per send; fairness | `NoServiceWithoutSocket`, `SocketReleased`, `FailureIsFinal`, `ImplementsContract` under every interleaving of thread, owner and peer; `QuietSessionEnds`, `DestructorReturns` |
| `pop` | 2 sessions, 2 users, 2 old messages each with or without a body and a recorded size (not that of the body), 2 failing statements | `ListIsOwn`, `ListedSizesFollowStore`, `ClosedMeansDeleted`, `OnlyMarkedDeleted` |
| `smtp` | 1 session, 3 users, 5 addresses, lists of 2 and 1, 2 mails of up to 2 lines, 2 logins | `AcceptedIsStored`, `NoDuplicateCopies`, `NoOpenRelay`, `SaveAssertionsHold`, `OnlyNamedRecipients` |
| `delivery` | 1 SMTP and 2 POP3 sessions, 2 accounts, an address that leads to both, a mail of a line | `AcceptedIsKept`, `NumbersKeepTheirMeaning`, `OnlyMarkedTaken`, `ImplementsContract` |
| `delivery_live` | 1 SMTP and 1 POP3 session, 1 account, 2 mails of a line, 1 crash, 1 failing statement; fairness | `AcceptedIsKept`, `OnlyMarkedTaken` and `ImplementsContract` across a crash, `CallbacksEnd` |
| `lookup` | 2 sessions of 2 `RCPT`s, 2 domains, 2 names, 3 users, a list of 2, 1 failing query, 1 change of a domain | `RejectIsFresh`, `AnswerFollowsTables`, `ConfirmedIsListed`, `LookupAssertionsHold` |
| `servers` | ports 110, 25 and 25 again, 2 tries, 3 clients; fairness | `SharedOutlivesUsers`, `SessionsOwned`, `CleanExit`, `PortsServed`, `ShutdownEnds` |

Each run but those of `Delivery` checks the type invariant of its module. Runs that
end in a violation, each of one thing the source says of itself:

| Run | Property | What happens |
|---|---|---|
| `session_late` | `NoLateCallback` | a callback on an object being destroyed |
| `session_idle` | `IdleSessionEnds` | no idle limit in `Close` |
| `smtp_twice` | `OneMailPerBody` | second `DATA` without `RSET` |
| `delivery_whole` | `CollectedWhole` | read and deleted while being saved |
| `servers_early` | `DataAttached` | a client between `Listen` and `AddServer` ends the process |

The counterexample of `session_idle` has the window open and shut while the thread
is between two sends, so that no send finds it open; a window that stays shut does
the same. `QuietPeer` excludes both.

The models contain other places where the code departs from what it says of itself,
or from what its clients would expect, on which no run is spent:

* a session destroyed before the first step of its thread meets the `ASSERT` there
  (`Session.cpp:115`), one destroyed during a NOOP or RSET that of the command
  (`Message.cpp:549`), and one destroyed while it saves a mail ends the loop over
  its recipients early (`Message.cpp:50`);
* a `ForceClose` that the thread overwrites with `Close` (QUIT, the idle limit) is
  lost, and `~Session` waits for as long as the client does not read
  (`Session.cpp:64`, `186`), and with it the shutdown of the daemon;
* the idle limit deletes what is marked as `QUIT` does, of which alone
  `PopSession.cpp:125` speaks; `RSET` keeps the marks (`PopSession.cpp:475`);
* `LIST -1` and a `QUIT` with anything behind it end the process
  (`PopSession.cpp:263`, `464`), and so do a second `AUTH` on its first line of data
  (`Message.cpp:131`), a line of an `AUTH` that decodes to nothing (`135`, `150`), a
  `RCPT` without a name (`399`) and a failed query for the postmaster (`461`);
* the recipient who takes the last place of the list is answered 554 and gets the
  mail all the same (`Message.cpp:480`); when the remote list is full the element
  after its last is read (`Message.cpp:420`);
* recipients stay after a mail, so that a second `DATA` without `RSET` needs no `RCPT`
  and goes to them (`Message.cpp:198`);
* the size stored adds up over the recipients of a mail (`Message.cpp:609`);
* a failed `INSERT` of a line goes unnoticed before the 250 (`DataModel.cpp:280`), a
  mail without a line is not saved before it (`Message.cpp:196`), and a failed
  `DELETE` of a row or of its lines leaves the other one behind (`DataModel.cpp:326`);
* a `RETR` announces a size that counts no CRLFs and sends them
  (`PopSession.cpp:381`; not modelled);
* outgoing mail lies in its sender's mailbox, where he can delete it before it is
  sent (`Message.cpp:625`);
* a query that fails reads as an answer (`DataModel.cpp:151`, `215`): the domain is
  not ours, the name is unknown;
* a client accepted while its server is being deleted meets a pure virtual
  `OnAccept` (`Server.h:43`; `LateAccept`).

### Bounds, and why they are enough

* `IdleLimit` is 60000 ms in steps of 50; 3 steps leave room for a reset in between.
  `MaxIn` and `MaxOut` are limits of the model, not of the code: two lines let a
  state change come between two commands, two units of output with `MaxPacketSend` 1
  let a send be partial.
* `MaxItems`, `MaxLocal`, `MaxRemote` stand for 500, 1000 and 100, and are so small
  that they are reached: `MaxItems` in `pop` and `delivery_live`, `MaxLocal` in
  `smtp` and `lookup`, `MaxRemote` in `smtp`. `MaxID` is large enough for every row
  a run can insert, so that no session waits for a number.
* `MaxMails` 2 lets what a transaction leaves behind meet the next one, `MaxLogins`
  2 lets a login be withdrawn; with `MaxLogins` 0 the runs of `Delivery` leave
  relaying out. `MaxLines` 2 lets order and completeness be told.
* `MaxFaults` is 2 in `pop`, where both `DELETE`s of a `DeleteMessage` may fail, and 1
  in `delivery_live` and `lookup`, `MaxCrashes` (`delivery_live`) is 1: after the
  fault or crash the sessions go on, and meet what it left. Elsewhere nothing fails.
* `delivery` has two accounts and one address for both, so that a mail is two copies
  with their own numbers, of which one may be taken before the other is stored.
  `delivery_live` has one account, so that two mails go to one mailbox, of which a
  list of `MaxItems` 1 is a choice.
* `delivery` and `delivery_live` have one line to a mail: a POP3 session can already
  come before the line, between line and size, and after them. Order and
  completeness of several lines are the matter of `smtp`. `delivery` has two POP3
  sessions, since a number can change its meaning only when another session deletes.
* In `lookup` a name of domain 1 leads to two users who fill the list between them,
  one of whom is the postmaster of domain 2; a client's second `RCPT` meets the list
  of the first. Two domains and two clients are what it takes for one to overwrite
  the other's cache entry; `MaxChanges` 1 makes an entry go out of date. Junk in the
  cache is tried with every domain number, which is how it could be mistaken for an
  answer.
* In `servers` the port 25 is in the configuration twice: one of its servers gives
  up after `MaxTries` 2 (15 in the code), with the others already serving. Three
  clients let one be accepted, one run and one be reaped while the shutdown comes.
* POP3 sessions in `pop` and `delivery` and clients in `lookup` are interchangeable
  (`SYMMETRY`); these runs check no liveness.

### Fairness

`Session` assumes weak fairness of `Accept`, of the thread and of the destructor:
the operating system schedules threads, and nothing in them waits for another thread
but `WaitForThread`. Nothing is assumed of the peer; the properties that need a peer
that reads say so (`QuietPeer`).

`Delivery` assumes weak fairness of what a thread does by itself once a callback has
begun, for each session: `Saves(s)` (`SaveMessage`) and `Works(p)` (`LoadMessages`
and the deletions of `OnClose`). Client commands, the idle limit, lost connections,
crashes and restarts are not fair. Neither is the beginning of `OnClose`, which waits
until the client has read all output (`Session.cpp:186`): `CallbacksEnd` says nothing
of a session in `Close`, and starts from a callback that has begun.

`Servers` assumes weak fairness of the main thread, of `AddObject` and of the end of
a session that finds itself forced (`ForcedEnds`), which `CaseForceClose` leads to
whatever the client does. Nothing is assumed of an `overruled` one, and
`ShutdownEnds` has the condition that none stays so for ever (`ClientsLetGo`);
without it the destructor of such a session, and so the shutdown, may wait for ever.
A session nobody forces may stay for ever, a port may be taken for ever, a client
may never come and a signal never be sent.

## 4. Proofs

All theorems hold for every value of the constants that meets the module's
assumption, which is on constants only and which TLC evaluates in every run. None of
the properties is inductive as it stands; each module of proofs has the invariant
that is, a lemma for each action (or group of actions) that keeps it, and the
theorems at the end. `Shape` stands in all of them for the facts that a variable is
a function on its set and that its records have their fields, without which `EXCEPT`
says nothing.

| Module | Theorem | What it proves |
|---|---|---|
| `SessionProofs` | `TypeCorrectness` | `Spec => []TypeOK` |
| | `ServiceHasSocket` | `Spec => []NoServiceWithoutSocket` |
| | `NoSocketLeak` | `Spec => []SocketReleased` |
| | `FailureFinality` | `Spec => FailureIsFinal` |
| | `Refinement` | `Spec => ImplementsContract` |
| `PopSessionProofs` | `TypeCorrectness` | `Spec => []PopTypeOK` |
| | `Ownership` | `Spec => []ListIsOwn` |
| | `FollowedSizes` | `Spec => []ListedSizesFollowStore` |
| | `Deletion` | `Spec => []ClosedMeansDeleted` |
| | `Restraint` | `Spec => OnlyMarkedDeleted` |
| `RecipientsProofs` | `AddUsersList` | what `AddUsers` returns, for lists of any length |
| `MessageProofs` | `TypeCorrectness` | `Spec => []MessageTypeOK` |
| | `Relaying` | `Spec => []NoOpenRelay` |
| | `SaveAsserts` | `Spec => []SaveAssertionsHold` |
| | `NamedRecipients` | `Spec => OnlyNamedRecipients` |
| | `AcceptedMail` | `Spec => []AcceptedIsStored` |
| | `SingleCopies` | `Spec => []NoDuplicateCopies` |
| `DeliveryProofs` | `StableNumbers` | `Spec => []NumbersKeepTheirMeaning` |
| | `AcceptedUntilTaken` | `Spec => []AcceptedIsKept` |
| | `TakenWhenMarked` | `Spec => OnlyMarkedTaken` |
| | `Implementation` | `Spec => ImplementsContract` |
| | `PromiseKept` | `Spec => []Promised!Promise` |
| `LookupProofs` | `Freshness` | `Spec => []RejectIsFresh` |
| | `TypeCorrectness` | `Spec => []LookupTypeOK` |
| | `Confirmation` | `Spec => []ConfirmedIsListed` |
| | `TrueAnswers` | `Spec => []AnswerFollowsTables` |
| | `Asserts` | `Spec => []LookupAssertionsHold` |
| `ServersProofs` | `TypeCorrectness` | `Spec => []ServersTypeOK` |
| | `Service` | `Spec => []PortsServed` |
| | `Ownership` | `Spec => []SessionsOwned` |
| | `Lending` | `Spec => []SharedOutlivesUsers` |
| | `Cleanness` | `Spec => []CleanExit` |
| `MailContractProofs` | `ContractPromise` | `Spec => []Promise` |

*Session.* `IInv` adds to `TypeOK`: `FreshInv`, before the thread's first loop the
socket state is what `Accept` left; `SocketInv`, at each point of the loop, how the
socket and the state go together: a null socket goes with a state that leads to
`Done`, which is where the owner's `ForceClose`, landing anywhere, has to be
harmless; `IdleInv`, the counter is below the limit wherever another `OnIdle` may
follow; `OrderInv`, which callbacks can have been made at each point, for the
contract. `FailureFinality` and `Refinement` use `IInv` in the current state.

*PopSession.* `IInv` has `StoreInv`, the types of the tables; and for each session
`PhaseInv`, there is a list only after a login, and it is loaded once; and
`ListInv`, for each entry of the list: it is of the session's own user and means the
row it was made from (`OwnItem`), its size is what the store says once its turn has
come (`SizedItem`), and it is gone once `OnClose` has passed it with its mark
(`DeletedItem`). Messages are never inserted in this module, so a number that is
gone stays gone; that it does so with deliveries too is `StableNumbers` of
`DeliveryProofs`.

*Recipients.* The model adds rows to a list by a recursive function on their number.
`AddUsersList` says what comes out of it: a list without repetitions, within
`MaxLocal`, which has everyone it had, nobody but them and the rows, and all of the
rows unless it is full. It is proved without an induction theorem (see below): of
the numbers of rows for which it fails there would be a least one (`Least`, from
`WFMin` of the library), which is not 0 and, by one more `AddUser`, none above it.

*Message.* The invariant is in two parts. `Local` is what a session knows of itself:
`Typed`, the types and the limits of its lists; `Relay`, a login that counts has an
account behind it, remote recipients go with an account, a sender, and a login that
counts or is being tried again, and nobody saves while a login is being tried;
`Named`, the recipients are those RCPT answered since the last RSET, and those it
confirmed are all among them; `LinesInv`, the lines of the mail being received are
the last ones, in their order, and none of them comes before. The middle part of
`Relay` is for a second `AUTH`, between `RCPT` and `DATA`: it withdraws the login
and leaves the recipients, but the account stays behind them, and the line that
follows is taken for a login and meets the `ASSERT` on it, before anything is saved.
The types, the recipients, relaying and the `ASSERT`s follow from `Local`.
`NamedRecipients` is what `SaveRow` does with `Named`; it does not say that a
recipient was named for this mail, which the code does not keep.

`MailInv(gone)` is what a session has to do with the tables; `gone` is the set of
copies that somebody has taken, empty in this module. `Fresh`: of a mail that is
being received or saved nothing has been acknowledged, and its copies are those of
the recipients the loop of `SaveMessage` has reached, so that the next `INSERT` is
no second copy (`NoDuplicateCopies` is inductive with it). `Saved`: the recipients
before the current one have their copy with all lines (`Held`), and the current one
has his as far as `j` (`Begun`). At the 250 the loop has passed everyone, and with
`Named` that is everyone who was confirmed: `Acknowledged`, which is
`AcceptedIsStored` but for what is gone; it speaks of `Promises`, the mails that had
a line to save. What others may do meanwhile is
`Evolves`: they add rows of their own mails and take copies, which are gone then,
and touch no line of a copy that stays. In `Held` and `Begun`, `faults = 0` stands
only before what is said of lines: that the rows are there holds with failed
statements too, which is what the refinement below needs.

*Delivery.* `IInv` is `Local`, `MailInv(Gone)` with the copies in `collected` as
those that are gone, `CollectedOK`, and `PopInv`: a number in a list has been given
(it is below `nextID`), and its row, if it is there, is the user's and the one that
was listed. A new row gets `nextID`, so it is on no list; this is why a number keeps
its meaning, and why what `OnClose` deletes is what was marked. The proofs of
`MessageProofs` are used through `INSTANCE`; `SameOperators` and the lemmas after it
say that its operators are those of `Smtp`. A POP3 step is, for the SMTP sessions,
one that takes copies (`Evolves`); an SMTP step leaves the lists alone and adds only
a row above all of their numbers; a crash and a restart leave the tables alone, and
a restarted session has received nothing.

`Implementation` goes step by step: `SaveRow` is `Store`, by `Fresh` before the
acknowledgement and new for its account, and by `nextID` under a new number;
`SaveDone` is `Acknowledge` for the recipients the promises name, each of whom has
an item by `Saved`; a `DELETE` (or a crash in the middle of one) is `Take`, unless
its item counts as taken already; every other step changes nothing of the contract.
`PromiseKept` composes it with `ContractPromise`: what was acknowledged is in the
tables or was taken, a number stands for one copy, an account has a mail once, and
what was taken does not come back, in the daemon.

*Lookup.* For `Freshness`, `Waiting`: between `GetDomainID` and `GetDomainReject` of
a session the table holds a value seen since the first of them, and so does the
cache if it is about this domain, since whoever filled it in between read the table
then. `Fresh` is the property. The others have `ListInv`, which adds how far a
session has read: the `DataList` is the rows of the table with the cursor on one of
them (`Result`), and the list of recipients is what it was before with the rows up
to there (`Took`); the postmaster is only asked for a name that is unknown (`failed
= 0`) and not refused (`Reading`); and what an answer says of them is right
(`Answered`). `Asserts` is about the `ASSERT`s on what the DataModel answers: the
one on the name in the client's command (`BadName`) may fail at any time, the one on
the postmaster after a failed query, and none of the others. That a query makes such
a `DataList`, and that reading it to its end meets no `ASSERT`, is proved row by row
as in *Recipients*.

*Servers.* `PhaseInv` says what `theApp` has in each phase; `ServerInv`, that a
server which is there is in the list, at or behind the place `OnShutdown` has come
to, or is about to be added; `StoppedInv`, that a stopped server is not accepting;
`SessionsOwned` is inductive with these. `Lending` and `Cleanness` follow from it: a
session has a server, and a server is only there in phases in which its DataModel
is. `PortsInv`, kept by itself together with `IInv`, is about the loops of
`OnStartup`: a port they have passed has its server or has been tried to the end,
the tries left and the failed ones of the port they are at add up, and those behind
have not been tried; the list has one place for a port at most, which bounds the
loop of `OnShutdown` too. `ServerTypes` and `SessionTypes` complete the type
invariant.

*MailContract.* `Promise` says what the contract means for a client: what was
acknowledged is stored or was taken (`Covered`), a number is given once and an
account's copy stored once (`Distinct`), what was taken does not come back
(`TakenOnce`). It carries over to the daemon by `Implementation`.

Every safety property of the passing runs is a theorem, and so are both refinements.
Only model-checked are the liveness properties (`QuietSessionEnds`,
`DestructorReturns`, `CallbacksEnd`, `ShutdownEnds`), since TLAPS proves nothing of
fairness and `ENABLED`. The induction theorems of the library take an operator as a
parameter, which the installed provers cannot instantiate; where lists of any length
matter, recursion is written as a function and the proof goes by the least
exception.

## 5. External behaviour taken on trust

`ASSERT` ends the process. `DpLock` is recursive and `DpThreadObject::WaitForThread`
returns when the thread has ended. `DpSocket::Receive` and `Send` do not block and
return a negative number on a lost connection. `Execute` returns false on an error
and has then changed nothing, `AUTO_INCREMENT` does not hand out a number again, and
a statement that has returned survives the process.

`DpMain` calls `OnShutdown` after `OnStartup`, once a shutdown has been asked for.
`DpServerInterface::Listen` starts the thread that accepts and reaps; the destructor
of that class stops the thread and then deletes the sessions that are left. That it
does so is what `Server.cpp`, which does neither, relies on. A server's own `_log` is
a member of the derived class and is destroyed before that; what the thread writes
to it in between is outside `SharedOutlivesUsers`, which is about what `theApp` lends.

The column `Reject` holds 0 or 1, a domain has one row, and no name has the
wildcards of `LIKE` in it, by which `GetDomainID` and `GetUserFromAddress` compare.

## 6. Not modelled

* `SenderSession` and the DNS cache: the Makefile does not list the file, it uses
  members that `Session` and `DataModel` no longer have, and the timer that would
  start it is commented out (`main.cpp:316`). There is no behaviour to be faithful
  to. `Session::Connect`, which only it would call, goes with it.
* `ConvertPop3`, whose call in `main.cpp` is commented out, and with it the strings
  in a `DataList`.
* `Logger`: what it writes. That it is there when used is in `Servers`; that two
  threads may write its buffer together is not.
* Configuration and packaging: there is no behaviour but limits, which are
  constants, and presence of values, which `Connect` in `Servers` leaves open. The
  `enable=no` of the example `mailsrv.conf` is read by nobody.
* Parsing of lines and base64, text of replies, memory (such as `~DataList`, which
  leaves its headers), and DevPlus beyond section 5.
