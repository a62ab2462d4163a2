-------------------------------- MODULE Servers ------------------------------
(***************************************************************************)
(* The life of the daemon: the main thread (class theApp) starts a server  *)
(* for each port of the configuration, idles, and takes everything down    *)
(* again; the thread of each server accepts clients and owns the sessions  *)
(* it starts for them, which have threads of their own.                    *)
(*                                                                         *)
(* The servers are numbered as theApp starts them: those of StartPop3,     *)
(* then those of StartSMTP, which differ in the class they make only, so   *)
(* that the actions below stand for both.  The pauses between two Listens, *)
(* and what the sessions do, are left out.                                 *)
(*                                                                         *)
(* DpMain and DpServerInterface are not in the repository.  Assumed is:    *)
(* OnShutdown follows OnStartup once a shutdown was asked for; Listen      *)
(* starts the thread, which also deletes sessions that have ended; and the *)
(* destructor of the base class stops it, then deletes the sessions left.  *)
(***************************************************************************)
EXTENDS Integers, Sequences, SequencesExt

CONSTANTS PopPorts, SmtpPorts,   \* the ports in the configuration
          MaxTries,              \* tries for a port, 15
          Sessions,              \* the clients that connect
          NoSession

Ports == PopPorts \o SmtpPorts
ServerNo == 1..Len(Ports)

ASSUME ServersAssumption ==
  /\ PopPorts \in Seq(Nat \ {0})
  /\ SmtpPorts \in Seq(Nat \ {0})
  /\ MaxTries \in Nat \ {0}
  /\ NoSession \notin Sessions

VARIABLES main,       \* the main thread: its place, loop counters, shutdown
          app,        \* the members of theApp
          server,     \* the Server objects that listen
          session,    \* the sessions
          tries,      \* failed Listens for each port (observer)
          process     \* "up", or how the daemon ended before its time

vars == <<main, app, server, session, tries, process>>

NoServer == [state |-> "none", pData |-> "null", accepting |-> NoSession]

Init ==
  /\ main = [step |-> "start", n |-> 1, k |-> MaxTries, i |-> 1,
             shutdown |-> "no"]
  /\ app = [pIni |-> "null", pLogger |-> "null", pData |-> "null",
            pServers |-> <<>>]
  /\ server = [n \in ServerNo |-> NoServer]
  /\ session = [s \in Sessions |->
                  [state |-> "none", server |-> 0, listed |-> "no"]]
  /\ tries = [n \in ServerNo |-> 0]
  /\ process = "up"

InMain(step) == process = "up" /\ main.step = step

------------------------------------------------------------------------------
(***************************************************************************)
(* OnStartup.                                                              *)
(***************************************************************************)
\* The logger is there first.  The file may be in neither directory.
LoadConfig ==
  /\ InMain("start")
  /\ \/ /\ app' = [app EXCEPT !.pLogger = "open", !.pIni = "loaded"]
        /\ main' = [main EXCEPT !.step = "connect"]
     \/ /\ app' = [app EXCEPT !.pLogger = "open"]
        /\ main' = [main EXCEPT !.step = "idle", !.shutdown = "asked"]
  /\ UNCHANGED <<server, session, tries, process>>

\* A value is missing in the configuration, or the database refuses.
Connect ==
  /\ InMain("connect")
  /\ \/ /\ app' = [app EXCEPT !.pData = "connected"]
        /\ main' = [main EXCEPT !.step = "listen"]
     \/ /\ app' = [app EXCEPT !.pData = "unconnected"]
        /\ main' = [main EXCEPT !.step = "idle", !.shutdown = "asked"]
  /\ UNCHANGED <<server, session, tries, process>>

\* The thread of the server is running when Listen returns.
Listens(n) ==
  /\ \A m \in ServerNo :
       Ports[m] = Ports[n] => server[m].state # "listening"
  /\ server' = [server EXCEPT ![n].state = "listening"]
  /\ main' = [main EXCEPT !.step = "add"]
  /\ UNCHANGED <<app, session, tries, process>>

\* Somebody has the port, and the new server is deleted again.
ListenFails(n) ==
  /\ main' = [main EXCEPT !.k = @ - 1]
  /\ tries' = [tries EXCEPT ![n] = @ + 1]
  /\ UNCHANGED <<app, server, session, process>>

\* Fault: the loop ends one try too late.
ListenOnceMore ==
  /\ InMain("listen")
  /\ main.n \in ServerNo
  /\ main.k >= 0
  /\ Listens(main.n) \/ ListenFails(main.n)

\* Fault: the tries are not counted.
ListenForever ==
  /\ InMain("listen")
  /\ main.n \in ServerNo
  /\ main.k > 0
  /\ \/ Listens(main.n)
     \/ UNCHANGED <<main, app, server, session, tries, process>>

Listen ==
  /\ InMain("listen")
  /\ main.n \in ServerNo
  /\ main.k > 0
  /\ Listens(main.n) \/ ListenFails(main.n)

\* Fault: the server does not get into the list.
AddServerUnlisted ==
  /\ InMain("add")
  /\ server' = [server EXCEPT ![main.n].pData = app.pData]
  /\ main' = [main EXCEPT !.step = "listen", !.k = 0]
  /\ UNCHANGED <<app, session, tries, process>>

AddServer ==
  /\ InMain("add")
  /\ app' = [app EXCEPT !.pServers = Append(@, main.n)]
  /\ server' = [server EXCEPT ![main.n].pData = app.pData]
  /\ main' = [main EXCEPT !.step = "listen", !.k = 0]
  /\ UNCHANGED <<session, tries, process>>

\* Fault: the tries are counted for all ports together.
NextPortSameTries ==
  /\ InMain("listen")
  /\ main.n \in ServerNo
  /\ main.k = 0
  /\ main' = [main EXCEPT !.n = @ + 1]
  /\ UNCHANGED <<app, server, session, tries, process>>

NextPort ==
  /\ InMain("listen")
  /\ main.n \in ServerNo
  /\ main.k = 0
  /\ main' = [main EXCEPT !.n = @ + 1, !.k = MaxTries]
  /\ UNCHANGED <<app, server, session, tries, process>>

Started ==
  /\ InMain("listen")
  /\ main.n \notin ServerNo
  /\ main' = [main EXCEPT !.step = "idle"]
  /\ UNCHANGED <<app, server, session, tries, process>>

OnStartup ==
  LoadConfig \/ Connect \/ Listen \/ AddServer \/ NextPort \/ Started

------------------------------------------------------------------------------
(***************************************************************************)
(* OnShutdown: the servers in their order, each with its sessions, then    *)
(* the configuration, the DataModel and the logger.                        *)
(***************************************************************************)
\* Fault: the DataModel goes first.
OnShutdownDataFirst ==
  /\ InMain("idle")
  /\ main.shutdown = "asked"
  /\ main' = [main EXCEPT !.step = "delete"]
  /\ app' = [app EXCEPT !.pData = "null"]
  /\ UNCHANGED <<server, session, tries, process>>

OnShutdown ==
  /\ InMain("idle")
  /\ main.shutdown = "asked"
  /\ main' = [main EXCEPT !.step = "delete"]
  /\ UNCHANGED <<app, server, session, tries, process>>

Doomed == app.pServers[main.i]

\* ~SmtpServer, ~PopServer and ~Server only write to the log, while the
\* thread goes on.
DeleteServer ==
  /\ InMain("delete")
  /\ main.i <= Len(app.pServers)
  /\ server[Doomed].state = "listening"
  /\ server' = [server EXCEPT ![Doomed].state = "dying"]
  /\ UNCHANGED <<main, app, session, tries, process>>

StopThread ==
  /\ InMain("delete")
  /\ main.i <= Len(app.pServers)
  /\ server[Doomed].state = "dying"
  /\ server[Doomed].accepting = NoSession
  /\ server' = [server EXCEPT ![Doomed].state = "stopped"]
  /\ UNCHANGED <<main, app, session, tries, process>>

OfServer(n) ==
  {s \in Sessions : session[s].server = n /\ session[s].listed = "yes"}

\* ~Session forces a session to close, and waits until it has ended.
DeleteSession(s) ==
  /\ InMain("delete")
  /\ main.i <= Len(app.pServers)
  /\ server[Doomed].state = "stopped"
  /\ s \in OfServer(Doomed)
  /\ \/ /\ session[s].state = "running"
        /\ session' = [session EXCEPT ![s].state = "forced"]
     \/ /\ session[s].state = "ended"
        /\ session' = [session EXCEPT ![s].state = "gone", ![s].listed = "no"]
  /\ UNCHANGED <<main, app, server, tries, process>>

ServerDeleted ==
  /\ InMain("delete")
  /\ main.i <= Len(app.pServers)
  /\ server[Doomed].state = "stopped"
  /\ OfServer(Doomed) = {}
  /\ server' = [server EXCEPT ![Doomed] = [NoServer EXCEPT !.state = "gone"]]
  /\ main' = [main EXCEPT !.i = @ + 1]
  /\ UNCHANGED <<app, session, tries, process>>

DeleteObjects ==
  /\ InMain("delete")
  /\ main.i > Len(app.pServers)
  /\ app' = [app EXCEPT !.pServers = <<>>, !.pIni = "null", !.pData = "null"]
  /\ main' = [main EXCEPT !.step = "close", !.i = 1]
  /\ UNCHANGED <<server, session, tries, process>>

CloseLogger ==
  /\ InMain("close")
  /\ app' = [app EXCEPT !.pLogger = "null"]
  /\ main' = [main EXCEPT !.step = "gone"]
  /\ UNCHANGED <<server, session, tries, process>>

ShutDown ==
  \/ OnShutdown \/ DeleteServer \/ StopThread \/ ServerDeleted
  \/ \E s \in Sessions : DeleteSession(s)
  \/ DeleteObjects \/ CloseLogger

\* A signal, as DpMain takes it; the handler here, OnCtrlBreak, only prints.
AskShutdown ==
  /\ process = "up"
  /\ main.step # "gone"
  /\ main.shutdown = "no"
  /\ main' = [main EXCEPT !.shutdown = "asked"]
  /\ UNCHANGED <<app, server, session, tries, process>>

------------------------------------------------------------------------------
(***************************************************************************)
(* The thread of a server, and the sessions.                               *)
(***************************************************************************)
CanAccept(n, s) ==
  /\ process = "up"
  /\ server[n].accepting = NoSession
  /\ session[s].state = "none"

\* The session has its own thread, and may be at its end, before AddObject.
OnAccept(n, s) ==
  /\ CanAccept(n, s)
  /\ server[n].state = "listening"
  /\ IF server[n].pData = "null"
       THEN process' = "noData" /\ UNCHANGED <<server, session>>
       ELSE /\ session' = [session EXCEPT ![s].state = "running",
                                          ![s].server = n]
            /\ server' = [server EXCEPT ![n].accepting = s]
            /\ UNCHANGED process
  /\ UNCHANGED <<main, app, tries>>

\* OnAccept is pure virtual once ~SmtpServer or ~PopServer is done.
LateAccept(n, s) ==
  /\ CanAccept(n, s)
  /\ server[n].state = "dying"
  /\ process' = "lateAccept"
  /\ UNCHANGED <<main, app, server, session, tries>>

\* Fault: the session does not get into the list.
AddObjectLost(n) ==
  /\ process = "up"
  /\ server[n].accepting # NoSession
  /\ server' = [server EXCEPT ![n].accepting = NoSession]
  /\ UNCHANGED <<main, app, session, tries, process>>

AddObject(n) ==
  /\ process = "up"
  /\ server[n].accepting # NoSession
  /\ session' = [session EXCEPT ![server[n].accepting].listed = "yes"]
  /\ server' = [server EXCEPT ![n].accepting = NoSession]
  /\ UNCHANGED <<main, app, tries, process>>

OnObjectDelete(n, s) ==
  /\ process = "up"
  /\ server[n].state \in {"listening", "dying"}
  /\ s \in OfServer(n)
  /\ session[s].state = "ended"
  /\ session' = [session EXCEPT ![s].state = "gone", ![s].listed = "no"]
  /\ UNCHANGED <<main, app, server, tries, process>>

\* A ChangeState that the thread of the session was at comes after that of
\* ~Session, and overwrites ForceClose.
ForceLost(s) ==
  /\ process = "up"
  /\ session[s].state = "forced"
  /\ session' = [session EXCEPT ![s].state = "overruled"]
  /\ UNCHANGED <<main, app, server, tries, process>>

SessionEnds(s) ==
  /\ process = "up"
  /\ session[s].state \in {"running", "forced", "overruled"}
  /\ session' = [session EXCEPT ![s].state = "ended"]
  /\ UNCHANGED <<main, app, server, tries, process>>

ForcedEnds(s) == session[s].state = "forced" /\ SessionEnds(s)

------------------------------------------------------------------------------
Main == OnStartup \/ ShutDown

Next ==
  \/ Main
  \/ AskShutdown
  \/ \E n \in ServerNo, s \in Sessions :
       OnAccept(n, s) \/ LateAccept(n, s) \/ OnObjectDelete(n, s)
  \/ \E n \in ServerNo : AddObject(n)
  \/ \E s \in Sessions : ForceLost(s) \/ SessionEnds(s)

Terminated ==
  /\ process # "up" \/ main.step = "gone"
  /\ UNCHANGED vars

Spec == Init /\ [][Next \/ Terminated]_vars

\* Threads are scheduled, and a session that finds itself told to close does so
\* whatever its client does.  Of one whose ForceClose was overwritten nothing is
\* assumed here, nor of clients, ports and signals.
FairSpec ==
  /\ Spec
  /\ WF_vars(Main)
  /\ \A n \in ServerNo : WF_vars(AddObject(n))
  /\ \A s \in Sessions : WF_vars(ForcedEnds(s))

------------------------------------------------------------------------------
(***************************************************************************)
(* Properties.                                                             *)
(***************************************************************************)
ServersTypeOK ==
  /\ main.step \in {"start", "connect", "listen", "add", "idle", "delete",
                    "close", "gone"}
  /\ main.n \in 1..Len(Ports) + 1
  /\ main.k \in 0..MaxTries
  /\ main.i \in 1..Len(Ports) + 1
  /\ ToSet(app.pServers) \subseteq ServerNo
  /\ \A n \in ServerNo :
       /\ server[n].state \in {"none", "listening", "dying", "stopped", "gone"}
       /\ server[n].accepting \in Sessions \cup {NoSession}
       /\ tries[n] \in 0..MaxTries
  /\ \A s \in Sessions :
       /\ session[s].state \in {"none", "running", "forced", "overruled",
                                "ended", "gone"}
       /\ session[s].server \in ServerNo \cup {0}

Exists(s) ==
  session[s].state \in {"running", "forced", "overruled", "ended"}

Serving(n) == server[n].state \in {"listening", "dying", "stopped"}

(***************************************************************************)
(* What theApp lends is there for as long as somebody uses it: sessions    *)
(* have pointers to the DataModel, and they and the servers write to the   *)
(* one log.  No shutdown, whenever it is asked for and whoever is just     *)
(* being accepted, takes it away under a session that is alive.  (The      *)
(* server's own _log, which is destroyed before its thread has stopped, is *)
(* not among what is lent.)                                                *)
(***************************************************************************)
SharedOutlivesUsers ==
  /\ \A s \in Sessions :
       Exists(s) => app.pData = "connected" /\ app.pLogger = "open"
  /\ \A n \in ServerNo : Serving(n) => app.pLogger = "open"

(***************************************************************************)
(* Every session has an owner that will delete it: its server is there,    *)
(* and has it in its list, unless it is in the middle of accepting it.     *)
(***************************************************************************)
SessionsOwned ==
  \A s \in Sessions :
    Exists(s) =>
      LET n == session[s].server
      IN  /\ n \in ServerNo
          /\ Serving(n)
          /\ session[s].listed = "yes" \/ server[n].accepting = s

(***************************************************************************)
(* The ASSERTs of ~theApp: after OnShutdown nothing is left, however far   *)
(* OnStartup came before, and no server and no session either.             *)
(***************************************************************************)
CleanExit ==
  main.step = "gone" =>
    /\ app = [pIni |-> "null", pLogger |-> "null", pData |-> "null",
              pServers |-> <<>>]
    /\ \A n \in ServerNo : ~Serving(n)
    /\ \A s \in Sessions : ~Exists(s)

(***************************************************************************)
(* Once the daemon has started, every port of the configuration has its    *)
(* server, also behind ports that could not be had, or was tried as often  *)
(* as it should be.                                                        *)
(***************************************************************************)
PortsServed ==
  main.step = "idle" /\ app.pData = "connected" =>
    \A n \in ServerNo :
      n \in ToSet(app.pServers) \/ tries[n] = MaxTries

(***************************************************************************)
(* The clients of sessions that have lost their ForceClose let go of them: *)
(* each reads what it was sent and falls silent, or leaves (QuietPeer of   *)
(* module Session, where the session then ends; otherwise it may not).     *)
(***************************************************************************)
ClientsLetGo == <>[](\A s \in Sessions : session[s].state # "overruled")

(***************************************************************************)
(* A shutdown that was asked for, be it while ports are being tried and    *)
(* clients come and go, is carried out, unless a client holds a session    *)
(* whose ForceClose was overwritten: ~Session then waits for it.           *)
(***************************************************************************)
ShutdownEnds ==
  ClientsLetGo =>
    (main.shutdown = "asked" ~> (main.step = "gone" \/ process # "up"))

------------------------------------------------------------------------------
(***************************************************************************)
(* A claim of the source that the code does not keep.                      *)
(***************************************************************************)

(***************************************************************************)
(* OnAccept: ASSERT(_pData != NULL).  A server that accepts has its data.  *)
(***************************************************************************)
DataAttached == process # "noData"
==============================================================================
