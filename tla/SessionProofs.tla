---------------------------- MODULE SessionProofs ----------------------------
(***************************************************************************)
(* Proofs about Session, for every idle limit, queue bound and packet      *)
(* size.  The inductive invariant ties each place the socket, the state    *)
(* and the callbacks are changed to the program point that may see it:     *)
(* neither NoServiceWithoutSocket nor SocketReleased is inductive alone,   *)
(* because the state is read in one step and acted on in a later one.      *)
(***************************************************************************)
EXTENDS Session, TLAPS

Serving == {"start", "started", "command", "commanded", "data", "received",
            "close", "closing"}

\* Before the first turn of the loop nothing has been touched yet.
FreshInv ==
  /\ pc = "new" => socket = "null" /\ sessionState = "Starting" /\ owner = "using"
  /\ pc \in {"entry", "begin"} =>
       socket = "open" /\ sessionState \in {"Starting", "ForceClose"}
  /\ pc \in {"new", "entry", "begin"} => last = "none" /\ idleCount = 0
  /\ sessionState = "Starting" => pc \in {"new", "entry", "begin"}

\* A session without a socket is on its way to Done.
SocketInv ==
  /\ pc \in Serving => socket = "open"
  /\ pc # "new" /\ socket = "null" => sessionState \in {"ForceClose", "Done"}
  /\ sessionState = "Done" => socket = "null"
  /\ pc = "exit" => socket = "null"

\* The counter stands at its limit only when the session is being closed.
IdleInv ==
  /\ idleCount = IdleLimit => sessionState \in {"Close", "ForceClose", "Done"}
  /\ pc \in {"command", "data"} => idleCount < IdleLimit

\* Which callback was made last, as far as the state and the point tell it.
OrderInv ==
  /\ last = "OnClose" => socket = "null" \/ pc = "closing"
  /\ pc \in {"close", "closing"} => sessionState \in {"Close", "ForceClose"}
  /\ pc = "closing" => last = "OnClose"
  /\ pc = "commanded" => last = "OnCommand"
  /\ pc = "received" => last = "OnData"
  /\ sessionState \in {"Waiting", "Data", "Close"} => last # "none"
  /\ pc \in {"command", "data", "close"} => last # "none"
  /\ pc = "start" => last = "none"
  /\ pc = "started" => last = "OnStart"
  /\ sessionState = "Started" /\ pc # "started" => last = "none"
  /\ sessionState = "Data" \/ pc = "data" => last \in {"OnCommand", "OnData"}

IInv == TypeOK /\ FreshInv /\ SocketInv /\ IdleInv /\ OrderInv


------------------------------------------------------------------------------
\* The initial state of a session satisfies the invariant.
LEMMA InitInv == Init => IInv
BY SessionAssumption
   DEF SessionAssumption, Init, IInv, TypeOK, FreshInv, SocketInv, IdleInv, OrderInv, Serving,
       State_e, PC, Owner

\* Every step of the thread, of the owner and of the peer preserves it.
LEMMA StepInv == IInv /\ [Next \/ Terminated]_vars => IInv'
<1> SUFFICES ASSUME IInv, [Next \/ Terminated]_vars
             PROVE  IInv'
  OBVIOUS
<1> USE SessionAssumption DEF SessionAssumption
<1> USE DEF IInv, TypeOK, FreshInv, SocketInv, IdleInv, OrderInv, Serving,
            State_e, PC, Owner, threadVars, peerVars
<1>1. CASE Accept
  BY <1>1 DEF Accept
<1>2. CASE EnterThread
  BY <1>2 DEF EnterThread
<1>3. CASE BeginThread
  BY <1>3 DEF BeginThread
<1>4. CASE TestDone
  BY <1>4 DEF TestDone
<1>5. CASE ReceiveData
  BY <1>5 DEF ReceiveData, LoseSocket
<1>6. CASE SendData
  BY <1>6 DEF SendData, LoseSocket
<1>7. CASE Dispatch
  BY <1>7 DEF Dispatch, Case
<1>8. CASE CaseStarted
  BY <1>8 DEF CaseStarted, Intact
<1>9. CASE SetWaiting
  BY <1>9 DEF SetWaiting
<1>10. CASE CaseWaiting \/ CommandReturns \/ CommandAsserts
  BY <1>10 DEF CaseWaiting, Serve, Intact, CommandReturns, ServeReturns,
               CommandAsserts
<1>11. CASE CaseData \/ DataReturns
  BY <1>11 DEF CaseData, Serve, Intact, DataReturns, ServeReturns
<1>12. CASE OnIdle
  BY <1>12 DEF OnIdle
<1>13. CASE CaseForceClose
  BY <1>13 DEF CaseForceClose
<1>14. CASE CaseClose \/ CloseReturns
  BY <1>14 DEF CaseClose, Intact, CloseReturns
<1>15. CASE TooLate
  BY <1>15 DEF TooLate, LateCallback
<1>16. CASE Destroy
  BY <1>16 DEF Destroy
<1>17. CASE CheckDone
  BY <1>17 DEF CheckDone
<1>18. CASE ForceClose
  BY <1>18 DEF ForceClose
<1>19. CASE WaitForThread
  BY <1>19 DEF WaitForThread
<1>20. CASE Peer
  BY <1>20 DEF Peer, PeerChanges, WindowChanges
<1>21. CASE UNCHANGED vars
  BY <1>21 DEF vars
<1> QED
  BY <1>1, <1>2, <1>3, <1>4, <1>5, <1>6, <1>7, <1>8, <1>9, <1>10, <1>11, <1>12, <1>13, <1>14, <1>15, <1>16, <1>17, <1>18, <1>19, <1>20, <1>21
     DEF Next, OnThreadRun, Destructor, Terminated

(***************************************************************************)
(* The inductive invariant holds in every reachable state.                 *)
(***************************************************************************)
THEOREM Invariance == Spec => []IInv
BY InitInv, StepInv, PTL DEF Spec

(***************************************************************************)
(* Every variable keeps to its type: in particular the idle counter never  *)
(* runs past IDLE_LIMIT, although nothing resets it on the way to Close.   *)
(***************************************************************************)
THEOREM TypeCorrectness == Spec => []TypeOK
<1>1. IInv => TypeOK
  BY DEF IInv
<1> QED
  BY <1>1, Invariance, PTL

(***************************************************************************)
(* No case of OnThreadRun that serves the client runs without a socket.    *)
(***************************************************************************)
THEOREM ServiceHasSocket == Spec => []NoServiceWithoutSocket
<1>1. IInv => NoServiceWithoutSocket
  BY DEF IInv, SocketInv, Serving, NoServiceWithoutSocket
<1> QED
  BY <1>1, Invariance, PTL

(***************************************************************************)
(* The thread of a session never ends holding the socket.                  *)
(***************************************************************************)
THEOREM NoSocketLeak == Spec => []SocketReleased
<1>1. IInv => SocketReleased
  BY DEF IInv, SocketInv, SocketReleased
<1> QED
  BY <1>1, Invariance, PTL

(***************************************************************************)
(* After a failed Receive or Send the session can only go to Done.         *)
(***************************************************************************)
THEOREM FailureFinality == Spec => FailureIsFinal
<1>1. IInv /\ [Next \/ Terminated]_vars
        => [socket = "null" /\ sessionState = "ForceClose"
              => sessionState' \in {"ForceClose", "Done"}]_vars
  <2> SUFFICES ASSUME IInv, Next, socket = "null", sessionState = "ForceClose"
               PROVE  sessionState' \in {"ForceClose", "Done"}
    BY DEF Terminated
  <2>1. pc \notin {"entry", "begin"} \cup Serving
    BY DEF IInv, FreshInv, SocketInv
  <2>2. CASE OnThreadRun
    BY <2>1, <2>2
       DEF OnThreadRun, EnterThread, BeginThread, TestDone, ReceiveData,
           SendData, LoseSocket, Dispatch, CaseStarted, SetWaiting,
           CaseWaiting, CommandReturns, CommandAsserts, CaseData, DataReturns,
           OnIdle, CaseForceClose, CaseClose, CloseReturns, TooLate,
           LateCallback, Serving
  <2>3. CASE Accept \/ Destroy \/ Destructor \/ Peer
    BY <2>3 DEF Accept, Destroy, Destructor, CheckDone, ForceClose,
                WaitForThread, Peer
  <2> QED
    BY <2>2, <2>3 DEF Next
<1> QED
  BY <1>1, Invariance, PTL DEF Spec, FailureIsFinal

------------------------------------------------------------------------------
(***************************************************************************)
(* The framework implements SessionContract.  The steps that matter are    *)
(* those that change the socket, the callback made last or the end of the  *)
(* thread; each is an action of the contract, and all others stutter.      *)
(***************************************************************************)
LEMMA ContractInit == Init => Contract!Init
BY DEF Init, Contract!Init

LEMMA ContractStep ==
  IInv /\ IInv' /\ [Next \/ Terminated]_vars
    => [Contract!Next]_(Contract!contractVars)
<1> SUFFICES ASSUME IInv, IInv', [Next \/ Terminated]_vars
             PROVE  Contract!Next \/ UNCHANGED Contract!contractVars
  OBVIOUS
<1> USE DEF Contract!contractVars, threadVars
<1>1. CASE Accept
  <2>1. Contract!Open
    BY <1>1 DEF Accept, Contract!Open, IInv, FreshInv
  <2> QED
    BY <2>1 DEF Contract!Next
<1>2. CASE EnterThread \/ BeginThread \/ Dispatch \/ SetWaiting \/ OnIdle
  BY <1>2 DEF EnterThread, BeginThread, Dispatch, SetWaiting, OnIdle, Case, IInv, TypeOK, State_e
<1>3. CASE TestDone
  <2>1. CASE sessionState = "Done"
    <3>1. socket = "null"
      BY <2>1 DEF IInv, SocketInv
    <3>2. Contract!End
      BY <1>3, <2>1, <3>1 DEF TestDone, Contract!End
    <3> QED
      BY <3>2 DEF Contract!Next
  <2>2. CASE sessionState # "Done"
    BY <1>3, <2>2 DEF TestDone
  <2> QED
    BY <2>1, <2>2
<1>4. CASE ReceiveData \/ SendData
  <2>1. last' = last /\ pc \notin {"new", "exit"} /\ pc' \notin {"new", "exit"}
    BY <1>4 DEF ReceiveData, SendData
  <2>2. CASE socket = "open" /\ socket' = "null"
    <3>1. Contract!Drop
      BY <2>1, <2>2 DEF Contract!Drop
    <3> QED
      BY <3>1 DEF Contract!Next
  <2>3. CASE UNCHANGED socket
    BY <2>1, <2>3
  <2> QED
    BY <1>4, <2>2, <2>3 DEF ReceiveData, SendData, LoseSocket
<1>5. CASE CaseStarted
  <2>1. Contract!Call("OnStart")
    BY <1>5 DEF CaseStarted, Contract!Call, Contract!Follows, IInv, SocketInv,
                OrderInv, Serving
  <2> QED
    BY <2>1 DEF Contract!Next
<1>6. CASE CaseWaiting
  <2>1. socket = "open" /\ last \in {"OnStart", "OnCommand", "OnData"}
    BY <1>6 DEF CaseWaiting, IInv, TypeOK, SocketInv, OrderInv, Serving
  <2>2. Contract!Call("OnCommand")
    BY <1>6, <2>1 DEF CaseWaiting, Serve, Contract!Call, Contract!Follows
  <2> QED
    BY <2>2 DEF Contract!Next
<1>7. CASE CaseData
  <2>1. socket = "open" /\ last \in {"OnCommand", "OnData"}
    BY <1>7 DEF CaseData, IInv, SocketInv, OrderInv, Serving
  <2>2. Contract!Call("OnData")
    BY <1>7, <2>1 DEF CaseData, Serve, Contract!Call, Contract!Follows
  <2> QED
    BY <2>2 DEF Contract!Next
<1>8. CASE CaseForceClose \/ CloseReturns
  <2>1. CASE socket = "open"
    <3>1. Contract!Drop
      BY <1>8, <2>1 DEF CaseForceClose, CloseReturns, Contract!Drop
    <3> QED
      BY <3>1 DEF Contract!Next
  <2>2. CASE socket = "null"
    BY <1>8, <2>2 DEF CaseForceClose, CloseReturns
  <2> QED
    BY <2>1, <2>2 DEF IInv, TypeOK
<1>9. CASE CaseClose
  <2>1. socket = "open" /\ last \in {"OnStart", "OnCommand", "OnData"}
    BY <1>9 DEF CaseClose, IInv, TypeOK, SocketInv, OrderInv, Serving
  <2>2. CASE qout = 0 /\ last' = "OnClose" /\ pc' = "closing"
    <3>1. Contract!Call("OnClose")
      BY <1>9, <2>1, <2>2
         DEF CaseClose, Contract!Call, Contract!Follows
    <3> QED
      BY <3>1 DEF Contract!Next
  <2>3. CASE UNCHANGED <<socket, last>>
    BY <1>9, <2>3 DEF CaseClose
  <2> QED
    BY <1>9, <2>1, <2>2, <2>3 DEF CaseClose
<1>10. CASE TooLate \/ CommandReturns \/ CommandAsserts \/ DataReturns
  BY <1>10 DEF TooLate, LateCallback, CommandReturns, CommandAsserts,
               DataReturns, ServeReturns
<1>11. CASE Destroy \/ Destructor \/ Peer
  BY <1>11 DEF Destroy, Destructor, CheckDone, ForceClose, WaitForThread, Peer
<1>12. CASE UNCHANGED vars
  BY <1>12 DEF vars
<1> QED
  BY <1>1, <1>2, <1>3, <1>4, <1>5, <1>6, <1>7, <1>8, <1>9, <1>10, <1>11, <1>12
     DEF Next, OnThreadRun, Terminated

(***************************************************************************)
(* Whatever the owner and the peer do, the derived class sees the order of *)
(* callbacks the contract describes: the greeting first and once, OnData   *)
(* only after a command, OnClose last and on an open connection.           *)
(***************************************************************************)
THEOREM Refinement == Spec => ImplementsContract
BY ContractInit, ContractStep, Invariance, PTL
   DEF Spec, ImplementsContract, Contract!Spec
==============================================================================
