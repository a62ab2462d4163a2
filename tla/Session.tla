------------------------------- MODULE Session -------------------------------
(***************************************************************************)
(* One session of the daemon: the thread that runs Session::OnThreadRun,   *)
(* the peer at the other end of its socket, and the owner (the server      *)
(* object) that creates the session and destroys it, possibly while its    *)
(* thread is still running.                                                *)
(*                                                                         *)
(* _SessionState is the only datum the two threads share; GetState and     *)
(* ChangeState take the object's lock, so each read and each write of it   *)
(* is one step here, and everything the session thread does between two of *)
(* them is part of that step.  The derived class is reduced to what its    *)
(* callbacks may do to the framework: queue output, and change the state   *)
(* at their end, so that the owner's ForceClose may come in between.       *)
(***************************************************************************)
EXTENDS Naturals

CONSTANTS IdleLimit,      \* IDLE_LIMIT in units of the 50 ms sleep of OnIdle
          MaxIn,          \* bound on the lines waiting in _Qin
          MaxOut,         \* bound on the output waiting in _Qout
          MaxPacketSend   \* MAX_PACKET_SEND, in the units of MaxOut

ASSUME SessionAssumption ==
  /\ IdleLimit \in Nat \ {0}
  /\ MaxIn \in Nat \ {0}
  /\ MaxOut \in Nat \ {0}
  /\ MaxPacketSend \in Nat \ {0}

VARIABLES
  sessionState,   \* _SessionState
  socket,         \* _pSocket: "null", or the "open" socket object
  qin,            \* complete lines in _Qin
  qout,           \* _Qout.Length()
  idleCount,      \* _nIdleCount / 50
  pc,             \* where the session thread is in OnThreadRun
  owner,          \* where the owner is in the life of the object
  peer,           \* what the other end does: sends lines, is silent, is gone
  window,         \* whether the other end reads what is sent to it
  last,           \* the callback made last (observer)
  fate            \* "running", or how the process was brought down

threadVars == <<qin, qout, idleCount, last>>
peerVars   == <<peer, window>>
vars == <<sessionState, socket, qin, qout, idleCount, pc, owner, peer, window,
          last, fate>>

State_e == {"Starting", "Started", "Waiting", "Data", "ForceClose", "Close",
            "Done"}

\* "test" is the loop condition, "switch" the dispatch on GetState(), and the
\* names of the cases are the program points inside them.
\* In "started", "commanded", "received" and "closing" a callback is under way.
PC == {"new", "entry", "begin", "test", "recv", "send", "switch", "start",
       "started", "command", "commanded", "data", "received", "force", "close",
       "closing", "exit"}

Owner == {"using", "derived", "force", "join", "gone"}

Running == fate = "running"

------------------------------------------------------------------------------
Init ==
  /\ sessionState = "Starting"
  /\ socket = "null"
  /\ qin = 0
  /\ qout = 0
  /\ idleCount = 0
  /\ pc = "new"
  /\ owner = "using"
  /\ peer = "talking"
  /\ window = "open"
  /\ last = "none"
  /\ fate = "running"

\* Accept holds the lock until the thread is started.
Accept ==
  /\ pc = "new"
  /\ owner = "using"
  /\ socket' = "open"
  /\ pc' = "entry"
  /\ UNCHANGED <<sessionState, threadVars, owner, peerVars, fate>>

------------------------------------------------------------------------------
(***************************************************************************)
(* The session thread.                                                     *)
(***************************************************************************)

\* ASSERT(GetState() == Starting), a read apart from the write that follows.
EnterThread ==
  /\ pc = "entry"
  /\ IF sessionState = "Starting"
       THEN pc' = "begin" /\ UNCHANGED fate
       ELSE fate' = "assertion" /\ UNCHANGED pc
  /\ UNCHANGED <<sessionState, socket, threadVars, owner, peerVars>>

\* Fault: the thread goes to command mode without the greeting.
BeginThreadWaiting ==
  /\ pc = "begin"
  /\ sessionState' = "Waiting"
  /\ pc' = "test"
  /\ UNCHANGED <<socket, threadVars, owner, peerVars, fate>>

BeginThread ==
  /\ pc = "begin"
  /\ sessionState' = "Started"
  /\ pc' = "test"
  /\ UNCHANGED <<socket, threadVars, owner, peerVars, fate>>

TestDone ==
  /\ pc = "test"
  /\ pc' = IF sessionState = "Done" THEN "exit" ELSE "recv"
  /\ UNCHANGED <<sessionState, socket, threadVars, owner, peerVars, fate>>

\* The case of the switch that each state selects.
Case == [s \in State_e |->
  CASE s = "Started"    -> "start"
    [] s = "Waiting"    -> "command"
    [] s = "Data"       -> "data"
    [] s = "ForceClose" -> "force"
    [] s = "Close"      -> "close"
    [] OTHER            -> "test"]

\* Fault: the socket is deleted and the state left as it was.
LoseSocketSilently ==
  /\ UNCHANGED sessionState
  /\ socket' = "null"

\* A failed Receive or Send ends the session at once.
LoseSocket ==
  /\ sessionState' = "ForceClose"
  /\ socket' = "null"

\* Fault: the switch uses the state read by the loop condition.
ReceiveDataStaleState ==
  /\ pc = "recv"
  /\ \/ socket = "open" /\ peer = "gone" /\ LoseSocket /\ pc' = Case[sessionState]
        /\ UNCHANGED qin
     \/ /\ socket = "null" \/ peer # "gone"
        /\ pc' = "send"
        /\ qin' \in IF socket = "open" /\ peer = "talking" /\ qin < MaxIn
                     THEN {qin, qin + 1} ELSE {qin}
        /\ UNCHANGED <<sessionState, socket>>
  /\ UNCHANGED <<qout, idleCount, last, owner, peerVars, fate>>

ReceiveData ==
  /\ pc = "recv"
  /\ pc' = "send"
  /\ \/ socket = "open" /\ peer = "gone" /\ LoseSocket /\ UNCHANGED qin
     \/ /\ socket = "open" /\ peer = "talking" /\ qin < MaxIn
        /\ qin' = qin + 1
        /\ UNCHANGED <<sessionState, socket>>
     \/ /\ socket = "null" \/ peer # "gone"
        /\ UNCHANGED <<qin, sessionState, socket>>
  /\ UNCHANGED <<qout, idleCount, last, owner, peerVars, fate>>

\* len is popped from _Qout, and what the socket did not take is pushed back.
SendData ==
  /\ pc = "send"
  /\ pc' = "switch"
  /\ LET len == IF qout > MaxPacketSend THEN MaxPacketSend ELSE qout
     IN  \/ /\ socket = "open" /\ len > 0 /\ peer = "gone"
            /\ LoseSocket
            /\ qout' = qout - len
         \/ /\ socket = "open" /\ len > 0
            /\ \E sent \in IF window = "open" THEN 1..len ELSE {0} :
                 qout' = qout - sent
            /\ UNCHANGED <<sessionState, socket>>
         \/ /\ socket = "null" \/ len = 0
            /\ UNCHANGED <<qout, sessionState, socket>>
  /\ UNCHANGED <<qin, idleCount, last, owner, peerVars, fate>>

\* Starting "should not be in this state at this point".
Dispatch ==
  /\ pc = "switch"
  /\ IF sessionState = "Starting"
       THEN fate' = "assertion" /\ UNCHANGED pc
       ELSE pc' = Case[sessionState] /\ UNCHANGED fate
  /\ UNCHANGED <<sessionState, socket, threadVars, owner, peerVars>>

------------------------------------------------------------------------------
(***************************************************************************)
(* The cases.  A callback is a virtual call: while the destructor of the   *)
(* derived class runs ("derived") it works on members that are being       *)
(* freed, and afterwards ("force", "join") the object is a plain Session,  *)
(* whose callbacks are pure virtual.                                       *)
(***************************************************************************)
Intact == owner \in {"using", "derived"}

LateCallback(c) ==
  /\ pc = c
  /\ owner \in {"derived", "force", "join"}
  /\ fate' = "late_callback"
  /\ UNCHANGED <<sessionState, socket, threadVars, pc, owner, peerVars>>

CaseStarted ==
  /\ pc = "start"
  /\ Intact
  /\ last' = "OnStart"
  /\ qout' \in qout..MaxOut
  /\ pc' = "started"
  /\ UNCHANGED <<sessionState, socket, qin, idleCount, owner, peerVars, fate>>

\* ChangeState(Waiting) comes after OnStart, which may take its time.
SetWaiting ==
  /\ pc = "started"
  /\ sessionState' = "Waiting"
  /\ idleCount' = 0
  /\ pc' = "test"
  /\ UNCHANGED <<socket, qin, qout, last, owner, peerVars, fate>>

\* A line is taken from _Qin, and its callback begins and queues its answer.
Serve(callback, point) ==
  /\ qin > 0
  /\ Intact
  /\ qin' = qin - 1
  /\ last' = callback
  /\ qout' \in qout..MaxOut
  /\ pc' = point
  /\ UNCHANGED <<sessionState, socket, idleCount, owner, peerVars, fate>>

CaseWaiting == pc = "command" /\ Serve("OnCommand", "commanded")

CaseData == pc = "data" /\ Serve("OnData", "received")

\* The callback ends, with a ChangeState or without; OnBusy follows it.
ServeReturns(states) ==
  /\ sessionState' \in states
  /\ idleCount' = 0
  /\ pc' = "test"
  /\ UNCHANGED <<socket, qin, qout, last, owner, peerVars, fate>>

CommandReturns ==
  /\ pc = "commanded"
  /\ ServeReturns({sessionState, "Data", "Close"})

\* NOOP, RSET and POP3's QUIT assert that the state is still Waiting.
CommandAsserts ==
  /\ pc = "commanded"
  /\ sessionState # "Waiting"
  /\ fate' = "assertion"
  /\ UNCHANGED <<sessionState, socket, threadVars, pc, owner, peerVars>>

DataReturns ==
  /\ pc = "received"
  /\ ServeReturns({sessionState, "Waiting"})

\* Fault: the limit is compared with > instead of >=.
OnIdlePastLimit ==
  /\ pc \in {"command", "data"}
  /\ qin = 0
  /\ idleCount' = idleCount + 1
  /\ sessionState' = IF idleCount' > IdleLimit THEN "Close" ELSE sessionState
  /\ pc' = "test"
  /\ UNCHANGED <<socket, qin, qout, last, owner, peerVars, fate>>

\* Fault: OnBusy is also called after OnIdle.
OnIdleThenBusy ==
  /\ pc \in {"command", "data"}
  /\ qin = 0
  /\ idleCount' = 0
  /\ pc' = "test"
  /\ UNCHANGED <<sessionState, socket, qin, qout, last, owner, peerVars, fate>>

OnIdle ==
  /\ pc \in {"command", "data"}
  /\ qin = 0
  /\ idleCount' = idleCount + 1
  /\ sessionState' = IF idleCount' >= IdleLimit THEN "Close" ELSE sessionState
  /\ pc' = "test"
  /\ UNCHANGED <<socket, qin, qout, last, owner, peerVars, fate>>

\* Fault: the socket is not deleted.
CaseForceCloseLeaks ==
  /\ pc = "force"
  /\ sessionState' = "Done"
  /\ pc' = "test"
  /\ UNCHANGED <<socket, threadVars, owner, peerVars, fate>>

\* Fault: the state is not advanced to Done.
CaseForceCloseStays ==
  /\ pc = "force"
  /\ socket' = "null"
  /\ pc' = "test"
  /\ UNCHANGED <<sessionState, threadVars, owner, peerVars, fate>>

CaseForceClose ==
  /\ pc = "force"
  /\ socket' = "null"
  /\ sessionState' = "Done"
  /\ pc' = "test"
  /\ UNCHANGED <<threadVars, owner, peerVars, fate>>

\* Close waits for _Qout to drain; the idle counter does not run meanwhile.
CaseClose ==
  /\ pc = "close"
  /\ \/ /\ socket = "null"
        /\ fate' = "assertion"
        /\ UNCHANGED <<last, pc>>
     \/ /\ socket = "open" /\ qout = 0 /\ Intact
        /\ last' = "OnClose"
        /\ pc' = "closing"
        /\ UNCHANGED fate
     \/ /\ socket = "open" /\ qout > 0
        /\ pc' = "test"
        /\ UNCHANGED <<last, fate>>
  /\ UNCHANGED <<sessionState, socket, qin, qout, idleCount, owner, peerVars>>

\* OnClose, a loop of database statements in PopSession, is through.
CloseReturns ==
  /\ pc = "closing"
  /\ socket' = "null"
  /\ sessionState' = "Done"
  /\ pc' = "test"
  /\ UNCHANGED <<threadVars, owner, peerVars, fate>>

\* Also a callback that began in time goes on with members that are freed.
TooLate ==
  \/ LateCallback("start")
  \/ qin > 0 /\ LateCallback("command")
  \/ qin > 0 /\ LateCallback("data")
  \/ socket = "open" /\ qout = 0 /\ LateCallback("close")
  \/ \E c \in {"commanded", "received", "closing"} : LateCallback(c)

OnThreadRun ==
  \/ EnterThread \/ BeginThread \/ TestDone \/ ReceiveData \/ SendData
  \/ Dispatch \/ CaseStarted \/ SetWaiting \/ CaseWaiting \/ CommandReturns
  \/ CommandAsserts \/ CaseData \/ DataReturns \/ OnIdle \/ CaseForceClose
  \/ CaseClose \/ CloseReturns \/ TooLate

------------------------------------------------------------------------------
(***************************************************************************)
(* The owner.  ~Message or ~PopSession frees the members of the derived    *)
(* class first, then ~Session asks the thread to stop and waits for it.    *)
(***************************************************************************)
Destroy ==
  /\ owner = "using"
  /\ pc # "new"
  /\ owner' = "derived"
  /\ UNCHANGED <<sessionState, socket, threadVars, pc, peerVars, fate>>

CheckDone ==
  /\ owner = "derived"
  /\ owner' = IF sessionState # "Done" THEN "force" ELSE "join"
  /\ UNCHANGED <<sessionState, socket, threadVars, pc, peerVars, fate>>

ForceClose ==
  /\ owner = "force"
  /\ sessionState' = "ForceClose"
  /\ owner' = "join"
  /\ UNCHANGED <<socket, threadVars, pc, peerVars, fate>>

\* WaitForThread, then ASSERT(_pSocket == NULL).
WaitForThread ==
  /\ owner = "join"
  /\ pc = "exit"
  /\ IF socket = "open"
       THEN fate' = "assertion" /\ UNCHANGED owner
       ELSE owner' = "gone" /\ UNCHANGED fate
  /\ UNCHANGED <<sessionState, socket, threadVars, pc, peerVars>>

Destructor == CheckDone \/ ForceClose \/ WaitForThread

------------------------------------------------------------------------------
(***************************************************************************)
(* The peer.                                                               *)
(***************************************************************************)
PeerChanges ==
  /\ peer # "gone"
  /\ peer' \in {"talking", "silent", "gone"} \ {peer}
  /\ UNCHANGED window

WindowChanges ==
  /\ peer # "gone"
  /\ window' \in {"open", "shut"} \ {window}
  /\ UNCHANGED peer

Peer ==
  /\ PeerChanges \/ WindowChanges
  /\ UNCHANGED <<sessionState, socket, threadVars, pc, owner, fate>>

------------------------------------------------------------------------------
Next ==
  /\ Running
  /\ Accept \/ OnThreadRun \/ Destroy \/ Destructor \/ Peer

\* The session is over: the object is gone, or the process is.
Terminated ==
  /\ owner = "gone" \/ ~Running
  /\ UNCHANGED vars

Spec == Init /\ [][Next \/ Terminated]_vars

(***************************************************************************)
(* The operating system schedules both threads.  Nothing is assumed of the *)
(* peer, nor that the owner ever destroys the session.                     *)
(***************************************************************************)
Fairness ==
  /\ WF_vars(Running /\ Accept)
  /\ WF_vars(Running /\ OnThreadRun)
  /\ WF_vars(Running /\ Destructor)

FairSpec == Spec /\ Fairness

------------------------------------------------------------------------------
(***************************************************************************)
(* Properties.                                                             *)
(***************************************************************************)
TypeOK ==
  /\ sessionState \in State_e
  /\ socket \in {"null", "open"}
  /\ qin \in 0..MaxIn
  /\ qout \in 0..MaxOut
  /\ idleCount \in 0..IdleLimit
  /\ pc \in PC
  /\ owner \in Owner
  /\ peer \in {"talking", "silent", "gone"}
  /\ window \in {"open", "shut"}
  /\ last \in {"none", "OnStart", "OnCommand", "OnData", "OnClose"}
  /\ fate \in {"running", "assertion", "late_callback"}

(***************************************************************************)
(* No case that serves the client runs, and no callback is under way, once *)
(* the socket object is deleted.                                           *)
(* For Close this is ASSERT(_pSocket != NULL) in OnThreadRun; for the      *)
(* others it is why a callback may count on a connection.  The state read  *)
(* by the dispatch, the two places that delete the socket and the owner's  *)
(* ChangeState(ForceClose) all have to agree for it to hold.               *)
(***************************************************************************)
NoServiceWithoutSocket ==
  pc \in {"start", "started", "command", "commanded", "data", "received",
          "close", "closing"} => socket = "open"

(***************************************************************************)
(* The thread never ends while the session still holds a socket, whichever *)
(* way it ends and whatever the destructor does meanwhile: the handle      *)
(* would leak, and ASSERT(_pSocket == NULL) in ~Session would fail.        *)
(***************************************************************************)
SocketReleased == pc = "exit" => socket = "null"

(***************************************************************************)
(* A connection that failed is never served again: once ReceiveData or     *)
(* SendData has given up the socket the session can only go to Done, even  *)
(* if the owner's ForceClose lands in between, or after Done.              *)
(***************************************************************************)
FailureIsFinal ==
  [][socket = "null" /\ sessionState = "ForceClose"
       => sessionState' \in {"ForceClose", "Done"}]_vars

(***************************************************************************)
(* The framework implements the contract it offers its derived classes.    *)
(***************************************************************************)
Contract == INSTANCE SessionContract WITH
  conn <- IF pc = "new" THEN "none"
          ELSE IF pc = "exit" THEN "over"
          ELSE IF socket = "open" THEN "up" ELSE "down"

ImplementsContract == Contract!Spec

(***************************************************************************)
(* From some moment on the peer sends nothing, but still reads.            *)
(***************************************************************************)
QuietPeer == <>[](peer # "talking" /\ window = "open")

Over == pc = "exit" \/ ~Running

(***************************************************************************)
(* A session whose peer falls silent but reads what it is sent comes to an *)
(* end by itself, through the idle limit: OnIdle, the drain in Close, and  *)
(* no state in between in which the thread spins for ever.                 *)
(***************************************************************************)
QuietSessionEnds == QuietPeer => <>Over

(***************************************************************************)
(* For such a peer the destructor returns, although its ForceClose can be  *)
(* overwritten by a ChangeState of the thread that was already decided.    *)
(***************************************************************************)
DestructorReturns ==
  QuietPeer => (owner = "derived" ~> (owner = "gone" \/ ~Running))

------------------------------------------------------------------------------
(***************************************************************************)
(* Claims of the source that the code does not keep.                       *)
(***************************************************************************)

(***************************************************************************)
(* ~Session: "Clean up everything before this object is destroyed", and    *)
(* Server: "we also need to destroy any session that is still active".     *)
(* No callback may then run on an object whose derived part is gone.       *)
(***************************************************************************)
NoLateCallback == fate # "late_callback"

(***************************************************************************)
(* OnIdle: the counter is there "so that we can close the session if it    *)
(* stays idle for too long".                                               *)
(***************************************************************************)
IdleSessionEnds == <>[](peer # "talking") => <>Over
==============================================================================
