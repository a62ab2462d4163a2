----------------------------- MODULE ServersProofs ---------------------------
(***************************************************************************)
(* The life of the daemon, for any ports, any number of tries and any      *)
(* number of clients: every session has an owner, what theApp lends is     *)
(* there for as long as it is used, and nothing is left at the end.        *)
(***************************************************************************)
EXTENDS Servers, TLAPS

MainShape ==
  /\ main = [f \in {"step", "n", "k", "i", "shutdown"} |-> main[f]]
  /\ main.i \in Int

AppShape ==
  /\ app = [f \in {"pIni", "pLogger", "pData", "pServers"} |-> app[f]]
  /\ app.pServers \in Seq(ServerNo)

ServerShape ==
  /\ server = [n \in ServerNo |-> server[n]]
  /\ \A n \in ServerNo :
       server[n] = [f \in {"state", "pData", "accepting"} |-> server[n][f]]

SessionShape ==
  /\ session = [s \in Sessions |-> session[s]]
  /\ \A s \in Sessions :
       session[s] = [f \in {"state", "server", "listed"} |-> session[s][f]]

Shape == MainShape /\ AppShape /\ ServerShape /\ SessionShape

\* What theApp holds in each phase of the main thread.
PhaseInv ==
  /\ main.step \in {"start", "connect", "listen", "add", "idle", "delete",
                    "close", "gone"}
  /\ main.step \notin {"start", "gone"} => app.pLogger = "open"
  /\ main.step \in {"listen", "add"} => app.pData = "connected"
  /\ main.step \notin {"delete", "close", "gone"} => main.i = 1
  /\ main.step \in {"close", "gone"} =>
       app.pIni = "null" /\ app.pData = "null" /\ app.pServers = <<>>
  /\ main.step = "gone" => app.pLogger = "null"
  /\ main.step = "add" => main.n \in ServerNo

Listed(n) == \E j \in 1..Len(app.pServers) : main.i <= j /\ app.pServers[j] = n

\* A server that is there is in the list, not before the place OnShutdown has
\* come to, or is about to get there.
ServerInv ==
  \A n \in ServerNo :
    Serving(n) =>
      /\ main.step \in {"listen", "add", "idle", "delete"}
      /\ app.pData = "connected"
      /\ Listed(n) \/ (main.step = "add" /\ main.n = n)

\* Once its thread has stopped a server accepts nobody.
StoppedInv ==
  \A n \in ServerNo :
    server[n].state = "stopped" => server[n].accepting = NoSession

Owned(s) ==
  /\ session[s].server \in ServerNo
  /\ Serving(session[s].server)
  /\ \/ session[s].listed = "yes"
     \/ server[session[s].server].accepting = s

IInv == Shape /\ PhaseInv /\ ServerInv /\ StoppedInv /\ SessionsOwned

------------------------------------------------------------------------------
LEMMA InitInv == Init => IInv
<1> SUFFICES ASSUME Init PROVE IInv
  OBVIOUS
<1>1. Shape
  <2>1. MainShape
    BY DEF Init, MainShape
  <2>2. app = [f \in {"pIni", "pLogger", "pData", "pServers"} |-> app[f]]
    BY DEF Init
  <2>3. app.pServers = <<>>
    BY DEF Init
  <2>4. server = [n \in ServerNo |-> NoServer]
    BY DEF Init
  <2>5. NoServer = [f \in {"state", "pData", "accepting"} |-> NoServer[f]]
    BY DEF NoServer
  <2>6. ServerShape
    BY <2>4, <2>5 DEF ServerShape
  <2>7. SessionShape
    BY DEF Init, SessionShape
  <2>8. app.pServers \in Seq(ServerNo)
    BY <2>3
  <2>9. AppShape
    BY <2>2, <2>8 DEF AppShape
  <2> QED
    BY <2>1, <2>6, <2>7, <2>9 DEF Shape
<1>2. PhaseInv
  BY DEF Init, PhaseInv
<1>3. ServerInv /\ StoppedInv
  BY DEF Init, ServerInv, StoppedInv, Serving, NoServer
<1>4. SessionsOwned
  BY DEF Init, SessionsOwned, Exists
<1> QED
  BY <1>1, <1>2, <1>3, <1>4 DEF IInv

\* A step of the main thread that leaves the servers alone.
LEMMA ThreadsUnchanged ==
  ASSUME IInv, UNCHANGED <<server, session>>
  PROVE  ServerShape' /\ SessionShape' /\ StoppedInv' /\ SessionsOwned'
<1>1. ServerShape' /\ SessionShape'
  BY DEF IInv, Shape, ServerShape, SessionShape
<1>2. StoppedInv' /\ SessionsOwned'
  BY DEF IInv, StoppedInv, SessionsOwned, Exists, Serving
<1> QED
  BY <1>1, <1>2

\* A step that leaves the list and the place in it alone.
LEMMA ListUnchanged ==
  ASSUME app'.pServers = app.pServers, main'.i = main.i, NEW n \in ServerNo
  PROVE  Listed(n) <=> Listed(n)'
BY DEF Listed

------------------------------------------------------------------------------
\* OnStartup, but for Listen and AddServer.
LEMMA StartupInv ==
  ASSUME IInv, LoadConfig \/ Connect \/ NextPort \/ Started
  PROVE  IInv'
<1>1. UNCHANGED <<server, session>>
  BY DEF LoadConfig, Connect, NextPort, Started
<1>2. app'.pServers = app.pServers /\ main'.i = main.i
  BY DEF IInv, Shape, MainShape, AppShape, LoadConfig, Connect, NextPort,
         Started
<1>3. MainShape' /\ AppShape'
  <2>1. main' = [f \in {"step", "n", "k", "i", "shutdown"} |-> main'[f]]
    BY DEF IInv, Shape, MainShape, LoadConfig, Connect, NextPort, Started
  <2>2. app' = [f \in {"pIni", "pLogger", "pData", "pServers"} |-> app'[f]]
    BY DEF IInv, Shape, AppShape, LoadConfig, Connect, NextPort, Started
  <2> QED
    BY <1>2, <2>1, <2>2 DEF IInv, Shape, MainShape, AppShape
<1>4. PhaseInv' /\ ServerInv'
  <2>1. CASE LoadConfig
    <3>1. /\ main.step = "start"
          /\ main'.step \in {"connect", "idle"}
          /\ app'.pLogger = "open"
      BY <2>1 DEF IInv, Shape, MainShape, AppShape, LoadConfig, InMain
    <3> QED
      BY <1>1, <1>2, <3>1 DEF IInv, PhaseInv, ServerInv, Serving
  <2>2. CASE Connect
    <3>1. /\ main.step = "connect"
          /\ \/ main'.step = "listen" /\ app'.pData = "connected"
             \/ main'.step = "idle"
          /\ app'.pLogger = app.pLogger
      BY <2>2 DEF IInv, Shape, MainShape, AppShape, Connect, InMain
    <3> QED
      BY <1>1, <1>2, <3>1 DEF IInv, PhaseInv, ServerInv, Serving
  <2>3. CASE NextPort \/ Started
    <3>1. /\ main.step = "listen"
          /\ main'.step \in {"listen", "idle"}
          /\ app' = app
      BY <2>3 DEF IInv, Shape, MainShape, NextPort, Started, InMain
    <3>2. \A n \in ServerNo : Listed(n) => Listed(n)'
      BY <1>2, ListUnchanged
    <3> QED
      BY <1>1, <1>2, <3>1, <3>2 DEF IInv, PhaseInv, ServerInv, Serving
  <2> QED
    BY <2>1, <2>2, <2>3
<1> QED
  BY <1>1, <1>3, <1>4, ThreadsUnchanged DEF IInv, Shape

LEMMA ListenInv ==
  ASSUME IInv, Listen
  PROVE  IInv'
<1> DEFINE n == main.n
<1>1. n \in ServerNo /\ main.step = "listen"
  BY DEF Listen, InMain
<1>2. CASE ListenFails(n)
  <2>1. /\ UNCHANGED <<app, server, session>>
        /\ main'.step = main.step /\ main'.n = main.n /\ main'.i = main.i
    BY <1>2 DEF IInv, Shape, MainShape, ListenFails
  <2>2. main' = [f \in {"step", "n", "k", "i", "shutdown"} |-> main'[f]]
    BY <1>2 DEF IInv, Shape, MainShape, ListenFails
  <2>3. MainShape' /\ AppShape'
    BY <2>1, <2>2 DEF IInv, Shape, MainShape, AppShape
  <2>4. \A m \in ServerNo : Listed(m) => Listed(m)'
    BY <2>1, ListUnchanged
  <2>5. PhaseInv' /\ ServerInv'
    BY <2>1, <2>4 DEF IInv, PhaseInv, ServerInv, Serving
  <2> QED
    BY <2>1, <2>3, <2>5, ThreadsUnchanged DEF IInv, Shape
<1>3. CASE Listens(n)
  <2>1. /\ UNCHANGED <<app, session>>
        /\ main'.step = "add" /\ main'.n = main.n /\ main'.i = main.i
    BY <1>3 DEF IInv, Shape, MainShape, Listens
  <2>2. main' = [f \in {"step", "n", "k", "i", "shutdown"} |-> main'[f]]
    BY <1>3 DEF IInv, Shape, MainShape, Listens
  <2>3. MainShape' /\ AppShape' /\ SessionShape'
    BY <2>1, <2>2 DEF IInv, Shape, MainShape, AppShape, SessionShape
  <2>4. server' = [server EXCEPT ![n].state = "listening"]
    BY <1>3 DEF Listens
  <2> HIDE DEF n
  <2>5. ServerShape'
    BY <2>4 DEF IInv, Shape, ServerShape
  <2>6. \A m \in ServerNo :
          /\ m # n => server'[m] = server[m]
          /\ server'[n].state = "listening"
          /\ server'[m].accepting = server[m].accepting
    BY <1>1, <2>4 DEF IInv, Shape, ServerShape
  <2>7. \A m \in ServerNo : Listed(m) => Listed(m)'
    BY <2>1, ListUnchanged
  <2>8. PhaseInv'
    BY <1>1, <2>1 DEF n, IInv, PhaseInv
  <2>9. ServerInv' /\ StoppedInv'
    BY <1>1, <2>1, <2>6, <2>7
    DEF n, IInv, PhaseInv, ServerInv, StoppedInv, Serving
  <2>10. SessionsOwned'
    BY <2>1, <2>6 DEF IInv, SessionsOwned, Exists, Serving
  <2> QED
    BY <2>3, <2>5, <2>8, <2>9, <2>10 DEF IInv, Shape
<1> QED
  BY <1>2, <1>3 DEF Listen

LEMMA AddServerInv ==
  ASSUME IInv, AddServer
  PROVE  IInv'
<1> DEFINE n == main.n
<1>1. n \in ServerNo /\ main.step = "add"
  BY DEF IInv, PhaseInv, AddServer, InMain
<1>2. /\ app'.pServers = Append(app.pServers, n)
      /\ app'.pLogger = app.pLogger /\ app'.pData = app.pData
      /\ main'.step = "listen" /\ main'.i = main.i
      /\ UNCHANGED session
  BY DEF IInv, Shape, MainShape, AppShape, AddServer
<1>3. /\ main' = [f \in {"step", "n", "k", "i", "shutdown"} |-> main'[f]]
      /\ app' = [f \in {"pIni", "pLogger", "pData", "pServers"} |-> app'[f]]
  BY DEF IInv, Shape, MainShape, AppShape, AddServer
<1>4. server' = [server EXCEPT ![n].pData = app.pData]
  BY DEF AddServer
<1> HIDE DEF n
<1>5. MainShape' /\ AppShape' /\ SessionShape'
  BY <1>1, <1>2, <1>3 DEF IInv, Shape, MainShape, AppShape, SessionShape
<1>6. ServerShape'
  BY <1>4 DEF IInv, Shape, ServerShape
<1>7. \A m \in ServerNo : /\ server'[m].state = server[m].state
                          /\ server'[m].accepting = server[m].accepting
  BY <1>4 DEF IInv, Shape, ServerShape
<1>8. PhaseInv'
  BY <1>1, <1>2 DEF IInv, PhaseInv
<1>9. ASSUME NEW m \in ServerNo, Listed(m) \/ m = n
      PROVE  Listed(m)'
  <2>1. app.pServers \in Seq(ServerNo) /\ main.i = 1
    BY <1>1 DEF IInv, Shape, AppShape, PhaseInv
  <2>2. CASE Listed(m)
    <3>1. PICK j \in 1..Len(app.pServers) :
            main.i <= j /\ app.pServers[j] = m
      BY <2>2 DEF Listed
    <3>2. /\ j \in 1..Len(Append(app.pServers, n))
          /\ Append(app.pServers, n)[j] = m
      BY <1>1, <2>1, <3>1
    <3> QED
      BY <1>2, <3>1, <3>2 DEF Listed
  <2>3. CASE m = n
    <3> DEFINE j == Len(app.pServers) + 1
    <3>1. /\ j \in 1..Len(Append(app.pServers, n))
          /\ Append(app.pServers, n)[j] = m
          /\ 1 <= j
      BY <1>1, <2>1, <2>3
    <3> QED
      BY <1>2, <2>1, <3>1 DEF Listed
  <2> QED
    BY <1>9, <2>2, <2>3
<1>10. ServerInv' /\ StoppedInv'
  BY <1>1, <1>2, <1>7, <1>9
  DEF n, IInv, ServerInv, StoppedInv, Serving
<1>11. SessionsOwned'
  BY <1>2, <1>7 DEF IInv, SessionsOwned, Exists, Serving
<1> QED
  BY <1>5, <1>6, <1>8, <1>10, <1>11 DEF IInv, Shape

------------------------------------------------------------------------------
\* OnShutdown, up to the end of the thread of a server.
LEMMA OnShutdownInv ==
  ASSUME IInv, OnShutdown
  PROVE  IInv'
<1>1. /\ main.step = "idle" /\ main'.step = "delete" /\ main'.i = main.i
      /\ UNCHANGED <<app, server, session>>
      /\ main' = [f \in {"step", "n", "k", "i", "shutdown"} |-> main'[f]]
  BY DEF IInv, Shape, MainShape, OnShutdown, InMain
<1>2. MainShape' /\ AppShape'
  BY <1>1 DEF IInv, Shape, MainShape, AppShape
<1>3. \A n \in ServerNo : Listed(n) => Listed(n)'
  BY <1>1, ListUnchanged
<1>4. PhaseInv' /\ ServerInv'
  BY <1>1, <1>3 DEF IInv, PhaseInv, ServerInv, Serving
<1> QED
  BY <1>1, <1>2, <1>4, ThreadsUnchanged DEF IInv, Shape

LEMMA AskShutdownInv ==
  ASSUME IInv, AskShutdown
  PROVE  IInv'
<1>1. /\ main'.step = main.step /\ main'.n = main.n /\ main'.i = main.i
      /\ UNCHANGED <<app, server, session>>
      /\ main' = [f \in {"step", "n", "k", "i", "shutdown"} |-> main'[f]]
  BY DEF IInv, Shape, MainShape, AskShutdown
<1>2. MainShape' /\ AppShape'
  BY <1>1 DEF IInv, Shape, MainShape, AppShape
<1>3. \A n \in ServerNo : Listed(n) => Listed(n)'
  BY <1>1, ListUnchanged
<1>4. PhaseInv' /\ ServerInv'
  BY <1>1, <1>3 DEF IInv, PhaseInv, ServerInv, Serving
<1> QED
  BY <1>1, <1>2, <1>4, ThreadsUnchanged DEF IInv, Shape

\* A server goes from one state to the next; nothing else happens.
LEMMA ServerStepInv ==
  ASSUME IInv,
         NEW n, Serving(n),
         NEW state \in {"dying", "stopped"},
         server' = [server EXCEPT ![n].state = state],
         state = "stopped" => server[n].accepting = NoSession,
         UNCHANGED <<main, app, session>>
  PROVE  IInv'
<1>1. Shape'
  <2>1. MainShape' /\ AppShape' /\ SessionShape'
    BY DEF IInv, Shape, MainShape, AppShape, SessionShape
  <2>2. ServerShape'
    BY DEF IInv, Shape, ServerShape
  <2> QED
    BY <2>1, <2>2 DEF Shape
<1>2. \A m \in ServerNo :
        /\ m # n => server'[m] = server[m]
        /\ m = n => server'[m].state = state
        /\ server'[m].accepting = server[m].accepting
  BY DEF IInv, Shape, ServerShape
<1>3. \A m \in ServerNo : Listed(m) => Listed(m)'
  BY ListUnchanged
<1>4. PhaseInv'
  BY DEF IInv, PhaseInv
<1>5. ServerInv' /\ StoppedInv'
  BY <1>2, <1>3 DEF IInv, ServerInv, StoppedInv, Serving
<1>6. SessionsOwned'
  BY <1>2 DEF IInv, SessionsOwned, Exists, Serving
<1> QED
  BY <1>1, <1>4, <1>5, <1>6 DEF IInv

LEMMA DeleteServerInv ==
  ASSUME IInv, DeleteServer \/ StopThread
  PROVE  IInv'
<1>1. CASE DeleteServer
  <2>1. /\ Serving(Doomed)
        /\ server' = [server EXCEPT ![Doomed].state = "dying"]
        /\ UNCHANGED <<main, app, session>>
    BY <1>1 DEF DeleteServer, Serving
  <2> QED
    BY <2>1, ServerStepInv
<1>2. CASE StopThread
  <2>1. /\ Serving(Doomed)
        /\ server' = [server EXCEPT ![Doomed].state = "stopped"]
        /\ server[Doomed].accepting = NoSession
        /\ UNCHANGED <<main, app, session>>
    BY <1>2 DEF StopThread, Serving
  <2> QED
    BY <2>1, ServerStepInv
<1> QED
  BY <1>1, <1>2

\* A server goes only when it has no session any more.
LEMMA ServerDeletedInv ==
  ASSUME IInv, ServerDeleted
  PROVE  IInv'
<1> DEFINE n == Doomed
<1>1. /\ server' = [server EXCEPT ![n] = [NoServer EXCEPT !.state = "gone"]]
      /\ UNCHANGED <<app, session>>
      /\ main.step = "delete"
      /\ server[n].state = "stopped"
      /\ OfServer(n) = {}
  BY DEF ServerDeleted, InMain
<1>2. /\ main'.step = "delete" /\ main'.i = main.i + 1
      /\ main' = [f \in {"step", "n", "k", "i", "shutdown"} |-> main'[f]]
  BY DEF IInv, Shape, MainShape, ServerDeleted, InMain
<1>3. \A m \in ServerNo : Listed(m) /\ m # n => Listed(m)'
  <2> SUFFICES ASSUME NEW m \in ServerNo, Listed(m), m # n
               PROVE  Listed(m)'
    OBVIOUS
  <2>1. PICK j \in 1..Len(app.pServers) : main.i <= j /\ app.pServers[j] = m
    BY DEF Listed
  <2>2. main.i # j /\ j \in Int /\ main.i \in Int
    BY <2>1 DEF Doomed, IInv, Shape, MainShape, AppShape
  <2>3. main'.i <= j /\ app'.pServers[j] = m /\ j \in 1..Len(app'.pServers)
    BY <1>1, <1>2, <2>1, <2>2
  <2> QED
    BY <2>3 DEF Listed
<1> HIDE DEF n
<1>4. MainShape' /\ AppShape' /\ SessionShape'
  BY <1>1, <1>2 DEF IInv, Shape, MainShape, AppShape, SessionShape
<1> DEFINE gone == [NoServer EXCEPT !.state = "gone"]
<1>5. /\ gone = [f \in {"state", "pData", "accepting"} |-> gone[f]]
      /\ gone.state = "gone"
  BY DEF NoServer
<1> HIDE DEF gone
<1>6. \A m \in ServerNo : /\ m = n => server'[m] = gone
                          /\ m # n => server'[m] = server[m]
  BY <1>1 DEF gone, IInv, Shape, ServerShape
<1>7. server' = [m \in ServerNo |-> server'[m]]
  BY <1>1 DEF IInv, Shape, ServerShape
<1>8. ServerShape'
  BY <1>5, <1>6, <1>7 DEF IInv, Shape, ServerShape
<1>9. PhaseInv'
  BY <1>1, <1>2 DEF IInv, PhaseInv
<1>10. ServerInv' /\ StoppedInv'
  BY <1>1, <1>2, <1>3, <1>5, <1>6 DEF IInv, ServerInv, StoppedInv, Serving
<1>11. ASSUME NEW s \in Sessions, Exists(s) PROVE session[s].server # n
  <2>1. SUFFICES ASSUME session[s].server = n PROVE FALSE
    OBVIOUS
  <2>2. /\ n \in ServerNo
        /\ session[s].listed = "yes" \/ server[n].accepting = s
    BY <1>11, <2>1 DEF IInv, SessionsOwned
  <2>3. session[s].listed # "yes"
    BY <1>1, <2>1 DEF OfServer
  <2>4. server[n].accepting = NoSession
    BY <1>1, <2>2 DEF IInv, StoppedInv
  <2> QED
    BY <2>2, <2>3, <2>4, ServersAssumption DEF ServersAssumption
<1>12. SessionsOwned'
  BY <1>1, <1>6, <1>11 DEF IInv, SessionsOwned, Exists, Serving
<1> QED
  BY <1>4, <1>8, <1>9, <1>10, <1>12 DEF IInv, Shape

LEMMA DeleteObjectsInv ==
  ASSUME IInv, DeleteObjects
  PROVE  IInv'
<1>1. /\ main.step = "delete" /\ main.i > Len(app.pServers)
      /\ UNCHANGED <<server, session>>
  BY DEF DeleteObjects, InMain
<1>2. /\ main'.step = "close" /\ main'.i = 1
      /\ main' = [f \in {"step", "n", "k", "i", "shutdown"} |-> main'[f]]
  BY DEF IInv, Shape, MainShape, DeleteObjects
<1>3. /\ app'.pIni = "null" /\ app'.pData = "null" /\ app'.pServers = <<>>
      /\ app'.pLogger = app.pLogger
      /\ app' = [f \in {"pIni", "pLogger", "pData", "pServers"} |-> app'[f]]
  BY DEF IInv, Shape, AppShape, DeleteObjects
<1>4. MainShape' /\ AppShape'
  <2>1. app'.pServers \in Seq(ServerNo)
    BY <1>3
  <2> QED
    BY <1>2, <1>3, <2>1 DEF MainShape, AppShape
<1>5. \A n \in ServerNo : ~Listed(n)
  BY <1>1 DEF IInv, Shape, MainShape, AppShape, Listed
<1>6. PhaseInv' /\ ServerInv'
  BY <1>1, <1>2, <1>3, <1>5 DEF IInv, PhaseInv, ServerInv, Serving
<1> QED
  BY <1>1, <1>4, <1>6, ThreadsUnchanged DEF IInv, Shape

LEMMA CloseLoggerInv ==
  ASSUME IInv, CloseLogger
  PROVE  IInv'
<1>1. main.step = "close" /\ UNCHANGED <<server, session>>
  BY DEF CloseLogger, InMain
<1>2. /\ main'.step = "gone" /\ main'.i = main.i
      /\ main' = [f \in {"step", "n", "k", "i", "shutdown"} |-> main'[f]]
  BY DEF IInv, Shape, MainShape, CloseLogger
<1>3. /\ app'.pIni = app.pIni /\ app'.pData = app.pData
      /\ app'.pServers = app.pServers /\ app'.pLogger = "null"
      /\ app' = [f \in {"pIni", "pLogger", "pData", "pServers"} |-> app'[f]]
  BY DEF IInv, Shape, AppShape, CloseLogger
<1>4. MainShape' /\ AppShape'
  BY <1>2, <1>3 DEF IInv, Shape, MainShape, AppShape
<1>5. PhaseInv' /\ ServerInv'
  BY <1>1, <1>2, <1>3 DEF IInv, PhaseInv, ServerInv, Serving
<1> QED
  BY <1>1, <1>4, <1>5, ThreadsUnchanged DEF IInv, Shape

------------------------------------------------------------------------------
\* What the threads do leaves the main thread alone, and the states of the
\* servers.
LEMMA ThreadStepInv ==
  ASSUME IInv, UNCHANGED <<main, app>>,
         \A n \in ServerNo : server'[n].state = server[n].state
  PROVE  MainShape' /\ AppShape' /\ PhaseInv' /\ ServerInv'
<1>1. MainShape' /\ AppShape'
  BY DEF IInv, Shape, MainShape, AppShape
<1>2. \A n \in ServerNo : Listed(n) => Listed(n)'
  BY ListUnchanged
<1>3. PhaseInv' /\ ServerInv'
  BY <1>2 DEF IInv, PhaseInv, ServerInv, Serving
<1> QED
  BY <1>1, <1>3

LEMMA OnAcceptInv ==
  ASSUME IInv, NEW n \in ServerNo, NEW s \in Sessions, OnAccept(n, s)
  PROVE  IInv'
<1>1. CASE server[n].pData = "null"
  <2>1. UNCHANGED <<main, app, server, session>>
    BY <1>1 DEF OnAccept
  <2> QED
    BY <2>1, ThreadsUnchanged, ThreadStepInv DEF IInv, Shape
<1>2. CASE server[n].pData # "null"
  <2>1. /\ session' = [session EXCEPT ![s].state = "running", ![s].server = n]
        /\ server' = [server EXCEPT ![n].accepting = s]
        /\ UNCHANGED <<main, app>>
        /\ server[n].state = "listening"
        /\ server[n].accepting = NoSession
        /\ session[s].state = "none"
    BY <1>2 DEF OnAccept, CanAccept
  <2>2. ServerShape'
    BY <2>1 DEF IInv, Shape, ServerShape
  <2>3. SessionShape'
    BY <2>1 DEF IInv, Shape, SessionShape
  <2>4. \A m \in ServerNo :
          /\ server'[m].state = server[m].state
          /\ m # n => server'[m].accepting = server[m].accepting
          /\ m = n => server'[m].accepting = s
    BY <2>1 DEF IInv, Shape, ServerShape
  <2>5. \A t \in Sessions :
          /\ t # s => session'[t] = session[t]
          /\ t = s => session'[t].server = n
    BY <2>1 DEF IInv, Shape, SessionShape
  <2>6. StoppedInv'
    BY <2>1, <2>4 DEF IInv, StoppedInv
  <2>7. ASSUME NEW t \in Sessions, Exists(t)' PROVE Owned(t)'
    <3>1. CASE t = s
      BY <2>1, <2>4, <2>5, <3>1 DEF Owned, Serving
    <3>2. CASE t # s
      <4>1. Owned(t)
        BY <2>5, <2>7, <3>2 DEF IInv, SessionsOwned, Exists, Owned
      <4>2. session'[t] = session[t]
        BY <2>5, <3>2
      <4>3. CASE session[t].server = n
        BY <2>1, <2>4, <3>2, <4>1, <4>2, <4>3, ServersAssumption
        DEF Owned, Serving, ServersAssumption
      <4>4. CASE session[t].server # n
        BY <2>4, <4>1, <4>2, <4>4 DEF Owned, Serving
      <4> QED
        BY <4>3, <4>4
    <3> QED
      BY <3>1, <3>2
  <2>8. SessionsOwned'
    BY <2>7 DEF SessionsOwned, Owned
  <2> QED
    BY <2>1, <2>2, <2>3, <2>4, <2>6, <2>8, ThreadStepInv DEF IInv, Shape
<1> QED
  BY <1>1, <1>2

LEMMA AddObjectInv ==
  ASSUME IInv, NEW n \in ServerNo, AddObject(n)
  PROVE  IInv'
<1> DEFINE s == server[n].accepting
<1>1. /\ session' = [session EXCEPT ![s].listed = "yes"]
      /\ server' = [server EXCEPT ![n].accepting = NoSession]
      /\ UNCHANGED <<main, app>>
  BY DEF AddObject
<1>2. ServerShape'
  BY <1>1 DEF IInv, Shape, ServerShape
<1>3. \A m \in ServerNo :
        /\ server'[m].state = server[m].state
        /\ m # n => server'[m].accepting = server[m].accepting
        /\ m = n => server'[m].accepting = NoSession
  BY <1>1 DEF IInv, Shape, ServerShape
<1> HIDE DEF s
<1>4. SessionShape'
  BY <1>1 DEF IInv, Shape, SessionShape
<1>5. \A t \in Sessions :
        /\ session'[t].state = session[t].state
        /\ session'[t].server = session[t].server
        /\ t # s => session'[t].listed = session[t].listed
        /\ t = s => session'[t].listed = "yes"
  BY <1>1 DEF IInv, Shape, SessionShape
<1>6. StoppedInv'
  BY <1>3 DEF IInv, StoppedInv
<1>7. ASSUME NEW t \in Sessions, Exists(t)' PROVE Owned(t)'
  <2>1. Owned(t)
    BY <1>5, <1>7 DEF IInv, SessionsOwned, Exists, Owned
  <2>2. session'[t].server = session[t].server
    BY <1>5
  <2>3. CASE t = s
    BY <1>3, <1>5, <2>1, <2>2, <2>3 DEF Owned, Serving
  <2>4. CASE t # s
    <3>1. session[t].server = n => session[t].listed = "yes"
      BY <2>1, <2>4 DEF Owned, s
    <3> QED
      BY <1>3, <1>5, <2>1, <2>2, <2>4, <3>1 DEF Owned, Serving
  <2> QED
    BY <2>3, <2>4
<1>8. SessionsOwned'
  BY <1>7 DEF SessionsOwned, Owned
<1> QED
  BY <1>1, <1>2, <1>3, <1>4, <1>6, <1>8, ThreadStepInv DEF IInv, Shape

\* A session that ends keeps its owner, and one that is deleted needs none.
LEMMA SessionStepInv ==
  ASSUME IInv, UNCHANGED <<main, app, server>>,
         NEW s \in Sessions,
         \/ /\ Exists(s)
            /\ session' = [session EXCEPT ![s].state = "forced"]
         \/ /\ Exists(s)
            /\ session' = [session EXCEPT ![s].state = "overruled"]
         \/ /\ Exists(s)
            /\ session' = [session EXCEPT ![s].state = "ended"]
         \/ session' = [session EXCEPT ![s].state = "gone", ![s].listed = "no"]
  PROVE  IInv'
<1>1. ServerShape' /\ StoppedInv'
  BY DEF IInv, Shape, ServerShape, StoppedInv
<1>2. SessionShape'
  BY DEF IInv, Shape, SessionShape
<1>3. \A t \in Sessions :
        \/ /\ t # s
           /\ session'[t] = session[t]
        \/ /\ t = s /\ Exists(s)
           /\ session'[t].server = session[t].server
           /\ session'[t].listed = session[t].listed
        \/ /\ t = s
           /\ session'[t].state = "gone"
  BY DEF IInv, Shape, SessionShape
<1>4. ASSUME NEW t \in Sessions, Exists(t)' PROVE Owned(t)'
  <2>1. /\ Exists(t)
        /\ session'[t].server = session[t].server
        /\ session'[t].listed = session[t].listed
    BY <1>3, <1>4 DEF Exists
  <2>2. Owned(t)
    BY <2>1 DEF IInv, SessionsOwned, Owned
  <2> QED
    BY <2>1, <2>2 DEF Owned, Serving
<1>5. SessionsOwned'
  BY <1>4 DEF SessionsOwned, Owned
<1> QED
  BY <1>1, <1>2, <1>5, ThreadStepInv DEF IInv, Shape

------------------------------------------------------------------------------
LEMMA NextInv == IInv /\ [Next]_vars => IInv'
<1> SUFFICES ASSUME IInv, [Next]_vars PROVE IInv'
  OBVIOUS
<1>1. CASE OnStartup
  BY <1>1, StartupInv, ListenInv, AddServerInv DEF OnStartup
<1>2. CASE OnShutdown \/ DeleteServer \/ StopThread \/ ServerDeleted
  BY <1>2, OnShutdownInv, DeleteServerInv, ServerDeletedInv
<1>3. ASSUME NEW s \in Sessions, DeleteSession(s) PROVE IInv'
  BY <1>3, SessionStepInv DEF DeleteSession, Exists
<1>4. CASE DeleteObjects \/ CloseLogger \/ AskShutdown
  BY <1>4, DeleteObjectsInv, CloseLoggerInv, AskShutdownInv
<1>5. ASSUME NEW n \in ServerNo, NEW s \in Sessions, OnAccept(n, s)
      PROVE  IInv'
  BY <1>5, OnAcceptInv
<1>6. ASSUME NEW n \in ServerNo, NEW s \in Sessions, LateAccept(n, s)
      PROVE  IInv'
  <2>1. UNCHANGED <<main, app, server, session>>
    BY <1>6 DEF LateAccept
  <2> QED
    BY <2>1, ThreadsUnchanged, ThreadStepInv DEF IInv, Shape
<1>7. ASSUME NEW n \in ServerNo, NEW s \in Sessions, OnObjectDelete(n, s)
      PROVE  IInv'
  BY <1>7, SessionStepInv DEF OnObjectDelete
<1>8. ASSUME NEW n \in ServerNo, AddObject(n) PROVE IInv'
  BY <1>8, AddObjectInv
<1>9. ASSUME NEW s \in Sessions, ForceLost(s) \/ SessionEnds(s) PROVE IInv'
  BY <1>9, SessionStepInv DEF ForceLost, SessionEnds, Exists
<1>10. CASE UNCHANGED vars
  <2>1. UNCHANGED <<main, app, server, session>>
    BY <1>10 DEF vars
  <2> QED
    BY <2>1, ThreadsUnchanged, ThreadStepInv DEF IInv, Shape
<1> QED
  BY <1>1, <1>2, <1>3, <1>4, <1>5, <1>6, <1>7, <1>8, <1>9, <1>10
  DEF Next, Main, ShutDown

LEMMA InvHolds == Spec => []IInv
<1>1. IInv /\ [Next \/ Terminated]_vars => IInv'
  BY NextInv DEF Terminated
<1> QED
  BY InitInv, <1>1, PTL DEF Spec

(***************************************************************************)
(* Every session that lives has an owner that will delete it, whatever the *)
(* order of OnAccept, AddObject, the end of sessions and OnShutdown.       *)
(***************************************************************************)
THEOREM Ownership == Spec => []SessionsOwned
BY InvHolds, PTL DEF IInv

(***************************************************************************)
(* What theApp lends, the DataModel and the logger, is there for as long   *)
(* as a server or a session uses it.                                       *)
(***************************************************************************)
THEOREM Lending == Spec => []SharedOutlivesUsers
<1>1. ASSUME IInv PROVE SharedOutlivesUsers
  <2>1. \A n \in ServerNo :
          Serving(n) => app.pData = "connected" /\ app.pLogger = "open"
    BY <1>1 DEF IInv, PhaseInv, ServerInv
  <2>2. \A s \in Sessions :
          Exists(s) => session[s].server \in ServerNo
                       /\ Serving(session[s].server)
    BY <1>1 DEF IInv, SessionsOwned
  <2> QED
    BY <2>1, <2>2 DEF SharedOutlivesUsers
<1> QED
  BY InvHolds, <1>1, PTL

(***************************************************************************)
(* OnShutdown leaves nothing behind, as the ASSERTs of ~theApp say.        *)
(***************************************************************************)
THEOREM Cleanness == Spec => []CleanExit
<1>1. ASSUME IInv, main.step = "gone" PROVE CleanExit
  <2>1. \A n \in ServerNo : ~Serving(n)
    BY <1>1 DEF IInv, ServerInv
  <2>2. \A s \in Sessions : ~Exists(s)
    BY <1>1, <2>1 DEF IInv, SessionsOwned
  <2>3. /\ app = [f \in {"pIni", "pLogger", "pData", "pServers"} |-> app[f]]
        /\ app.pIni = "null" /\ app.pLogger = "null" /\ app.pData = "null"
        /\ app.pServers = <<>>
    BY <1>1 DEF IInv, Shape, AppShape, PhaseInv
  <2>4. app = [pIni |-> "null", pLogger |-> "null", pData |-> "null",
               pServers |-> <<>>]
    BY <2>3
  <2> QED
    BY <2>1, <2>2, <2>4 DEF CleanExit
<1>2. IInv => CleanExit
  BY <1>1 DEF CleanExit
<1> QED
  BY InvHolds, <1>2, PTL
------------------------------------------------------------------------------
(***************************************************************************)
(* The ports.  A port the loops have passed has been served or tried as    *)
(* often as it should be; the tries left and those that failed of the port *)
(* they are at add up; and those behind have not been tried.               *)
(***************************************************************************)
Starting == main.step \in {"start", "connect", "listen", "add"}

Served(n) == n \in ToSet(app.pServers) \/ tries[n] = MaxTries

CountInv ==
  /\ main.n \in 1..Len(Ports) + 1
  /\ main.k \in 0..MaxTries
  /\ main.i \in 1..Len(Ports) + 1
  /\ tries \in [ServerNo -> 0..MaxTries]

\* A port has one place in the list at most.
LengthInv ==
  /\ Len(app.pServers) <= Len(Ports)
  /\ Len(app.pServers) <= main.n
  /\ main.k > 0 => Len(app.pServers) < main.n
  /\ main.step = "add" => main.k > 0

PlaceInv ==
  /\ main.step \in {"start", "connect"} => main.n = 1 /\ app.pData = "null"
  /\ main.step = "idle" /\ app.pData = "connected" =>
       main.n = Len(Ports) + 1

TriesInv ==
  /\ Starting \/ main.step = "idle" =>
       \A n \in ServerNo : n < main.n => Served(n)
  /\ Starting =>
       \A n \in ServerNo :
         /\ n = main.n =>
              main.k + tries[n] = MaxTries \/ (main.k = 0 /\ Served(n))
         /\ n > main.n => tries[n] = 0

PortsInv == CountInv /\ LengthInv /\ PlaceInv /\ TriesInv

LEMMA PortsFinite == Len(Ports) \in Nat
BY ServersAssumption DEF ServersAssumption, Ports

LEMMA InitPorts == Init => PortsInv
<1> SUFFICES ASSUME Init PROVE PortsInv
  OBVIOUS
<1>1. /\ main.step = "start" /\ main.n = 1 /\ main.k = MaxTries /\ main.i = 1
      /\ app.pServers = <<>> /\ app.pData = "null"
  BY DEF Init
<1>2. tries = [n \in ServerNo |-> 0]
  BY DEF Init
<1>3. \A n \in ServerNo : n \in Int /\ n >= 1
  BY PortsFinite DEF ServerNo
<1>4. CountInv /\ LengthInv /\ PlaceInv
  BY <1>1, <1>2, PortsFinite, ServersAssumption
  DEF CountInv, LengthInv, PlaceInv, ServersAssumption
<1>5. TriesInv
  BY <1>1, <1>2, <1>3, ServersAssumption DEF TriesInv, ServersAssumption
<1> QED
  BY <1>4, <1>5 DEF PortsInv

\* A step that neither counts nor moves on.
LEMMA PortsUnchanged ==
  ASSUME PortsInv, UNCHANGED <<app, tries>>,
         main'.n = main.n, main'.k = main.k, main'.i = main.i,
         \/ main'.step = main.step
         \/ main'.step = "delete"
  PROVE  PortsInv'
BY DEF PortsInv, CountInv, LengthInv, PlaceInv, TriesInv, Starting, Served

LEMMA StartupPorts ==
  ASSUME IInv, PortsInv, LoadConfig \/ Connect \/ Started
  PROVE  PortsInv'
<1>1. /\ main'.n = main.n /\ main'.k = main.k /\ main'.i = main.i
      /\ app'.pServers = app.pServers
      /\ UNCHANGED tries
  BY DEF IInv, Shape, MainShape, AppShape, LoadConfig, Connect, Started
<1>2. \/ /\ main.step = "start" /\ main'.step \in {"connect", "idle"}
         /\ app'.pData = app.pData
      \/ /\ main.step = "connect"
         /\ \/ main'.step = "listen"
            \/ main'.step = "idle" /\ app'.pData = "unconnected"
      \/ /\ main.step = "listen" /\ main'.step = "idle"
         /\ main.n \notin ServerNo
         /\ app'.pData = app.pData
  BY DEF IInv, Shape, MainShape, AppShape, LoadConfig, Connect, Started, InMain
<1>3. CountInv' /\ LengthInv'
  BY <1>1, <1>2 DEF PortsInv, CountInv, LengthInv
<1>4. PlaceInv'
  BY <1>1, <1>2, PortsFinite DEF PortsInv, CountInv, PlaceInv, ServerNo
<1>5. TriesInv'
  BY <1>1, <1>2 DEF PortsInv, TriesInv, Starting, Served
<1> QED
  BY <1>3, <1>4, <1>5 DEF PortsInv

LEMMA NextPortPorts ==
  ASSUME IInv, PortsInv, NextPort
  PROVE  PortsInv'
<1>1. /\ main.step = "listen" /\ main'.step = "listen"
      /\ main.n \in ServerNo /\ main.k = 0
      /\ main'.n = main.n + 1 /\ main'.k = MaxTries /\ main'.i = main.i
      /\ UNCHANGED <<app, tries>>
  BY DEF IInv, Shape, MainShape, NextPort, InMain
<1>2. \A n \in ServerNo : n \in Int
  BY PortsFinite DEF ServerNo
<1>3. MaxTries \in Nat /\ MaxTries > 0
  BY ServersAssumption DEF ServersAssumption
<1>4. CountInv' /\ LengthInv' /\ PlaceInv'
  <2>1. Len(app.pServers) \in Nat
    BY DEF IInv, Shape, AppShape
  <2> QED
    BY <1>1, <1>3, <2>1, PortsFinite
    DEF PortsInv, CountInv, LengthInv, PlaceInv, ServerNo
<1>5. ASSUME NEW n \in ServerNo
      PROVE  /\ n < main'.n => Served(n)'
             /\ n = main'.n => main'.k + tries'[n] = MaxTries
             /\ n > main'.n => tries'[n] = 0
  <2>1. Served(n)' <=> Served(n)
    BY <1>1 DEF Served
  <2>2. /\ n < main.n => Served(n)
        /\ n = main.n => tries[n] = MaxTries \/ Served(n)
        /\ n > main.n => tries[n] = 0
    BY <1>1 DEF PortsInv, CountInv, TriesInv, Starting
  <2>3. main.n \in Int
    BY DEF PortsInv, CountInv
  <2>4. n < main'.n => n < main.n \/ n = main.n
    BY <1>1, <1>2, <2>3
  <2>5. n >= main'.n => n > main.n
    BY <1>1, <1>2, <2>3
  <2> QED
    BY <1>1, <1>2, <1>3, <2>1, <2>2, <2>3, <2>4, <2>5 DEF Served
<1>6. TriesInv'
  BY <1>5 DEF TriesInv
<1> QED
  BY <1>4, <1>6 DEF PortsInv

LEMMA ListenPorts ==
  ASSUME IInv, PortsInv, Listen
  PROVE  PortsInv'
<1>1. main.step = "listen" /\ main.n \in ServerNo /\ main.k > 0
  BY DEF Listen, InMain
<1>2. CASE Listens(main.n)
  <2>1. /\ UNCHANGED <<app, tries>>
        /\ main'.step = "add"
        /\ main'.n = main.n /\ main'.k = main.k /\ main'.i = main.i
    BY <1>2 DEF IInv, Shape, MainShape, Listens
  <2> QED
    BY <1>1, <2>1
    DEF PortsInv, CountInv, LengthInv, PlaceInv, TriesInv, Starting, Served
<1>3. CASE ListenFails(main.n)
  <2>1. /\ UNCHANGED app
        /\ main'.step = "listen"
        /\ main'.n = main.n /\ main'.k = main.k - 1 /\ main'.i = main.i
    BY <1>1, <1>3 DEF IInv, Shape, MainShape, ListenFails
  <2>2. tries' = [tries EXCEPT ![main.n] = @ + 1]
    BY <1>3 DEF ListenFails
  <2>3. /\ main.k \in 0..MaxTries /\ MaxTries \in Nat
        /\ tries \in [ServerNo -> 0..MaxTries]
        /\ main.n \in Int
    BY ServersAssumption DEF PortsInv, CountInv, ServersAssumption
  <2>4. main.k + tries[main.n] = MaxTries
    BY <1>1, <2>3 DEF PortsInv, TriesInv, Starting
  <2>5. tries[main.n] + 1 \in 0..MaxTries
    BY <1>1, <2>3, <2>4
  <2>6. /\ tries' \in [ServerNo -> 0..MaxTries]
        /\ tries'[main.n] = tries[main.n] + 1
        /\ \A n \in ServerNo : n # main.n => tries'[n] = tries[n]
    BY <1>1, <2>2, <2>3, <2>5
  <2>7. CountInv' /\ LengthInv' /\ PlaceInv'
    <3>1. Len(app.pServers) \in Nat
      BY DEF IInv, Shape, AppShape
    <3> QED
      BY <1>1, <2>1, <2>3, <2>6, <3>1
      DEF PortsInv, CountInv, LengthInv, PlaceInv
  <2>8. ASSUME NEW n \in ServerNo
        PROVE  /\ n < main'.n => Served(n)'
               /\ n = main'.n => main'.k + tries'[n] = MaxTries
               /\ n > main'.n => tries'[n] = 0
    <3>1. /\ n < main.n => Served(n)
          /\ n > main.n => tries[n] = 0
      BY <1>1 DEF PortsInv, TriesInv, Starting
    <3>2. n \in Int
      BY PortsFinite DEF ServerNo
    <3>3. CASE n = main.n
      BY <1>1, <2>1, <2>3, <2>4, <2>6, <3>2, <3>3
    <3>4. CASE n # main.n
      <4>1. Served(n) => Served(n)'
        BY <2>1, <2>6, <3>4 DEF Served
      <4> QED
        BY <2>1, <2>6, <3>1, <3>2, <3>4, <4>1
    <3> QED
      BY <3>3, <3>4
  <2>9. TriesInv'
    BY <2>8 DEF TriesInv
  <2> QED
    BY <2>7, <2>9 DEF PortsInv
<1> QED
  BY <1>2, <1>3 DEF Listen

LEMMA AddServerPorts ==
  ASSUME IInv, PortsInv, AddServer
  PROVE  PortsInv'
<1> DEFINE port == main.n
<1>1. /\ main.step = "add" /\ port \in ServerNo
      /\ main'.step = "listen"
      /\ main'.n = main.n /\ main'.k = 0 /\ main'.i = main.i
      /\ UNCHANGED tries
  BY DEF IInv, Shape, MainShape, PhaseInv, AddServer, InMain
<1>2. app'.pServers = Append(app.pServers, port)
  BY DEF IInv, Shape, AppShape, AddServer
<1>3. app.pServers \in Seq(ServerNo)
  BY DEF IInv, Shape, AppShape
<1> HIDE DEF port
<1>4. Len(app'.pServers) = Len(app.pServers) + 1 /\ Len(app.pServers) \in Nat
  BY <1>1, <1>2, <1>3
<1>5. CountInv' /\ LengthInv' /\ PlaceInv'
  <2>1. Len(app.pServers) < port /\ port \in 1..Len(Ports)
    BY <1>1 DEF PortsInv, LengthInv, CountInv, ServerNo, port
  <2> QED
    BY <1>1, <1>4, <2>1, PortsFinite, ServersAssumption
    DEF PortsInv, CountInv, LengthInv, PlaceInv, ServersAssumption, port
<1>6. /\ port \in ToSet(app'.pServers)
      /\ ToSet(app.pServers) \subseteq ToSet(app'.pServers)
  <2>1. app'.pServers[Len(app.pServers) + 1] = port
    BY <1>1, <1>2, <1>3
  <2>2. /\ DOMAIN app.pServers = 1..Len(app.pServers)
        /\ DOMAIN app'.pServers = 1..(Len(app.pServers) + 1)
    BY <1>1, <1>2, <1>3
  <2>3. \A j \in 1..Len(app.pServers) : app'.pServers[j] = app.pServers[j]
    BY <1>1, <1>2, <1>3
  <2> QED
    BY <1>4, <2>1, <2>2, <2>3 DEF ToSet
<1>7. \A n \in ServerNo : (n = port => Served(n)') /\ (Served(n) => Served(n)')
  BY <1>1, <1>6 DEF Served
<1>8. TriesInv'
  BY <1>1, <1>7 DEF PortsInv, TriesInv, Starting, port
<1> QED
  BY <1>5, <1>8 DEF PortsInv

\* OnShutdown goes down the list, which is no longer than the ports.
LEMMA ShutdownPorts ==
  ASSUME IInv, PortsInv,
         \/ OnShutdown \/ DeleteServer \/ StopThread \/ ServerDeleted
         \/ \E s \in Sessions : DeleteSession(s)
         \/ DeleteObjects \/ CloseLogger \/ AskShutdown
  PROVE  PortsInv'
<1>1. CASE ServerDeleted \/ DeleteObjects \/ CloseLogger
  <2>1. /\ main'.step \in {"delete", "close", "gone"}
        /\ main'.n = main.n /\ main'.k = main.k
        /\ \/ main'.i = main.i \/ main'.i = 1
           \/ main'.i = main.i + 1 /\ main.i <= Len(app.pServers)
        /\ app'.pServers = app.pServers \/ app'.pServers = <<>>
        /\ UNCHANGED tries
    BY <1>1 DEF IInv, Shape, MainShape, AppShape, ServerDeleted, DeleteObjects,
                CloseLogger, InMain
  <2>2. Len(app.pServers) \in Nat /\ Len(<<>>) = 0
    BY DEF IInv, Shape, AppShape
  <2>3. CountInv' /\ LengthInv'
    BY <2>1, <2>2, PortsFinite DEF PortsInv, CountInv, LengthInv
  <2>4. PlaceInv' /\ TriesInv'
    BY <2>1 DEF PlaceInv, TriesInv, Starting
  <2> QED
    BY <2>3, <2>4 DEF PortsInv
<1>2. CASE \/ OnShutdown \/ DeleteServer \/ StopThread \/ AskShutdown
           \/ \E s \in Sessions : DeleteSession(s)
  <2>1. /\ UNCHANGED <<app, tries>>
        /\ main'.n = main.n /\ main'.k = main.k /\ main'.i = main.i
        /\ main'.step = main.step \/ main'.step = "delete"
    BY <1>2 DEF IInv, Shape, MainShape, OnShutdown, DeleteServer, StopThread,
                AskShutdown, DeleteSession
  <2> QED
    BY <2>1, PortsUnchanged
<1> QED
  BY <1>1, <1>2

LEMMA NextPorts == IInv /\ PortsInv /\ [Next \/ Terminated]_vars => PortsInv'
<1> SUFFICES ASSUME IInv, PortsInv, [Next \/ Terminated]_vars PROVE PortsInv'
  OBVIOUS
<1>1. CASE UNCHANGED <<main, app, tries>>
  BY <1>1, PortsUnchanged
<1>2. CASE Main \/ AskShutdown
  BY <1>2, StartupPorts, NextPortPorts, ListenPorts, AddServerPorts,
     ShutdownPorts DEF Main, OnStartup, ShutDown
<1>3. ASSUME \/ \E n \in ServerNo, s \in Sessions :
                  OnAccept(n, s) \/ LateAccept(n, s) \/ OnObjectDelete(n, s)
             \/ \E n \in ServerNo : AddObject(n)
             \/ \E s \in Sessions : ForceLost(s) \/ SessionEnds(s)
             \/ UNCHANGED vars
      PROVE  UNCHANGED <<main, app, tries>>
  BY <1>3 DEF OnAccept, LateAccept, OnObjectDelete, AddObject, ForceLost,
              SessionEnds, vars
<1> QED
  BY <1>1, <1>2, <1>3 DEF Next, Terminated

LEMMA PortsInvHolds == Spec => []PortsInv
BY InitPorts, NextPorts, InvHolds, PTL DEF Spec

(***************************************************************************)
(* A daemon that has started has its server on every port of the           *)
(* configuration, or has tried for it as often as it should, whatever      *)
(* ports were taken and whenever a shutdown was asked for.                 *)
(***************************************************************************)
THEOREM Service == Spec => []PortsServed
<1>1. ASSUME PortsInv PROVE PortsServed
  <2>1. \A n \in ServerNo : n < Len(Ports) + 1
    BY PortsFinite DEF ServerNo
  <2> QED
    BY <1>1, <2>1 DEF PortsInv, PlaceInv, TriesInv, Served, PortsServed
<1> QED
  BY PortsInvHolds, <1>1, PTL
------------------------------------------------------------------------------
ServerTypes ==
  \A n \in ServerNo :
    /\ server[n].state \in {"none", "listening", "dying", "stopped", "gone"}
    /\ server[n].accepting \in Sessions \cup {NoSession}

SessionTypes ==
  \A s \in Sessions :
    /\ session[s].state \in {"none", "running", "forced", "overruled", "ended",
                             "gone"}
    /\ session[s].server \in ServerNo \cup {0}

LEMMA InitTypes == Init => ServerTypes /\ SessionTypes
BY DEF Init, NoServer, ServerTypes, SessionTypes

LEMMA ServerTypesStep ==
  ASSUME IInv, PortsInv, ServerTypes, [Next \/ Terminated]_vars
  PROVE  ServerTypes'
<1>1. CASE UNCHANGED server
  BY <1>1 DEF ServerTypes
<1>2. ASSUME NEW n, NEW new,
             server' = [server EXCEPT ![n] = new],
             new.state \in {"none", "listening", "dying", "stopped", "gone"},
             new.accepting \in Sessions \cup {NoSession}
      PROVE  ServerTypes'
  <2>1. \A m \in ServerNo : server'[m] = server[m] \/ server'[m] = new
    BY <1>2 DEF IInv, Shape, ServerShape
  <2> QED
    BY <1>2, <2>1 DEF ServerTypes
<1>3. CASE OnStartup
  <2>1. CASE UNCHANGED server
    BY <1>1, <2>1
  <2> DEFINE n == main.n
             listening == [server[n] EXCEPT !.state = "listening"]
             attached == [server[n] EXCEPT !.pData = app.pData]
  <2>2. CASE Listen /\ Listens(n)
    <3>1. n \in ServerNo /\ server' = [server EXCEPT ![n] = listening]
      BY <2>2 DEF Listen, Listens
    <3>2. listening.state = "listening"
          /\ listening.accepting = server[n].accepting
      BY <3>1 DEF IInv, Shape, ServerShape
    <3> HIDE DEF n, listening
    <3> QED
      BY <1>2, <3>1, <3>2 DEF ServerTypes
  <2>3. CASE AddServer
    <3>1. n \in ServerNo /\ server' = [server EXCEPT ![n] = attached]
      BY <2>3 DEF IInv, PhaseInv, AddServer, InMain
    <3>2. attached.state = server[n].state
          /\ attached.accepting = server[n].accepting
      BY <3>1 DEF IInv, Shape, ServerShape
    <3> HIDE DEF n, attached
    <3> QED
      BY <1>2, <3>1, <3>2 DEF ServerTypes
  <2> QED
    BY <1>3, <2>1, <2>2, <2>3
    DEF OnStartup, LoadConfig, Connect, Listen, ListenFails, NextPort, Started
<1>4. CASE DeleteServer \/ StopThread \/ ServerDeleted
  <2> DEFINE n == Doomed
             dying == [server[n] EXCEPT !.state = "dying"]
             stopped == [server[n] EXCEPT !.state = "stopped"]
             gone == [NoServer EXCEPT !.state = "gone"]
  <2>1. n \in ServerNo
    BY <1>4 DEF Doomed, DeleteServer, StopThread, ServerDeleted, IInv, Shape,
                AppShape, PortsInv, CountInv
  <2>2. \/ server' = [server EXCEPT ![n] = dying]
        \/ server' = [server EXCEPT ![n] = stopped]
        \/ server' = [server EXCEPT ![n] = gone]
    BY <1>4 DEF DeleteServer, StopThread, ServerDeleted
  <2>3. /\ dying.state = "dying" /\ dying.accepting = server[n].accepting
        /\ stopped.state = "stopped" /\ stopped.accepting = server[n].accepting
        /\ gone.state = "gone" /\ gone.accepting = NoSession
    BY <2>1 DEF IInv, Shape, ServerShape, NoServer
  <2>4. server[n].accepting \in Sessions \cup {NoSession}
    BY <2>1 DEF ServerTypes
  <2> HIDE DEF n, dying, stopped, gone
  <2>5. CASE server' = [server EXCEPT ![n] = dying]
    BY <1>2, <2>3, <2>4, <2>5
  <2>6. CASE server' = [server EXCEPT ![n] = stopped]
    BY <1>2, <2>3, <2>4, <2>6
  <2>7. CASE server' = [server EXCEPT ![n] = gone]
    BY <1>2, <2>3, <2>7
  <2> QED
    BY <2>2, <2>5, <2>6, <2>7
<1>5. ASSUME NEW n \in ServerNo, NEW s \in Sessions, OnAccept(n, s),
             server[n].pData # "null"
      PROVE  ServerTypes'
  <2> DEFINE accepting == [server[n] EXCEPT !.accepting = s]
  <2>1. server' = [server EXCEPT ![n] = accepting]
    BY <1>5 DEF OnAccept
  <2>2. accepting.state = server[n].state /\ accepting.accepting = s
    BY DEF IInv, Shape, ServerShape
  <2> HIDE DEF accepting
  <2> QED
    BY <1>2, <2>1, <2>2 DEF ServerTypes
<1>6. ASSUME NEW n \in ServerNo, AddObject(n)
      PROVE  ServerTypes'
  <2> DEFINE free == [server[n] EXCEPT !.accepting = NoSession]
  <2>1. server' = [server EXCEPT ![n] = free]
    BY <1>6 DEF AddObject
  <2>2. free.state = server[n].state /\ free.accepting = NoSession
    BY DEF IInv, Shape, ServerShape
  <2> HIDE DEF free
  <2> QED
    BY <1>2, <2>1, <2>2 DEF ServerTypes
<1>7. ASSUME \/ OnShutdown \/ DeleteObjects \/ CloseLogger \/ AskShutdown
             \/ \E s \in Sessions :
                  DeleteSession(s) \/ ForceLost(s) \/ SessionEnds(s)
             \/ \E n \in ServerNo, s \in Sessions :
                  \/ OnAccept(n, s) /\ server[n].pData = "null"
                  \/ LateAccept(n, s) \/ OnObjectDelete(n, s)
             \/ Terminated
             \/ UNCHANGED vars
      PROVE  UNCHANGED server
  BY <1>7 DEF OnShutdown, DeleteObjects, CloseLogger, AskShutdown,
     DeleteSession, ForceLost, SessionEnds, OnAccept, LateAccept,
     OnObjectDelete, Terminated, vars
<1> QED
  BY <1>1, <1>3, <1>4, <1>5, <1>6, <1>7 DEF Next, Main, ShutDown

LEMMA SessionTypesStep ==
  ASSUME IInv, SessionTypes, [Next \/ Terminated]_vars
  PROVE  SessionTypes'
<1>1. CASE UNCHANGED session
  BY <1>1 DEF SessionTypes
<1>2. ASSUME NEW s \in Sessions,
             \/ session' = [session EXCEPT ![s].state = "forced"]
             \/ session' = [session EXCEPT ![s].state = "overruled"]
             \/ session' = [session EXCEPT ![s].state = "ended"]
             \/ session' = [session EXCEPT ![s].state = "gone",
                                           ![s].listed = "no"]
      PROVE  SessionTypes'
  <2>1. \A t \in Sessions :
          /\ session'[t].state \in {session[t].state, "forced", "overruled",
                                    "ended", "gone"}
          /\ session'[t].server = session[t].server
    BY <1>2 DEF IInv, Shape, SessionShape
  <2> QED
    BY <2>1 DEF SessionTypes
<1>3. ASSUME NEW n \in ServerNo, NEW s \in Sessions, OnAccept(n, s),
             server[n].pData # "null"
      PROVE  SessionTypes'
  <2>1. session' = [session EXCEPT ![s].state = "running", ![s].server = n]
    BY <1>3 DEF OnAccept
  <2>2. \A t \in Sessions :
          /\ session'[t].state \in {session[t].state, "running"}
          /\ session'[t].server \in {session[t].server, n}
    BY <2>1 DEF IInv, Shape, SessionShape
  <2> QED
    BY <2>2 DEF SessionTypes
<1>4. ASSUME NEW s \in Sessions,
             DeleteSession(s) \/ ForceLost(s) \/ SessionEnds(s)
      PROVE  SessionTypes'
  BY <1>2, <1>4 DEF DeleteSession, ForceLost, SessionEnds
<1>5. ASSUME NEW n \in ServerNo, AddObject(n) PROVE SessionTypes'
  <2> DEFINE s == server[n].accepting
  <2>1. session' = [session EXCEPT ![s].listed = "yes"]
    BY <1>5 DEF AddObject
  <2> HIDE DEF s
  <2>2. \A t \in Sessions : /\ session'[t].state = session[t].state
                            /\ session'[t].server = session[t].server
    BY <2>1 DEF IInv, Shape, SessionShape
  <2> QED
    BY <2>2 DEF SessionTypes
<1>6. ASSUME NEW n \in ServerNo, NEW s \in Sessions, OnObjectDelete(n, s)
      PROVE  SessionTypes'
  BY <1>2, <1>6 DEF OnObjectDelete
<1>7. ASSUME \/ OnStartup \/ OnShutdown \/ DeleteServer \/ StopThread
             \/ ServerDeleted \/ DeleteObjects \/ CloseLogger \/ AskShutdown
             \/ \E n \in ServerNo, s \in Sessions :
                  \/ OnAccept(n, s) /\ server[n].pData = "null"
                  \/ LateAccept(n, s)
             \/ Terminated
             \/ UNCHANGED vars
      PROVE  UNCHANGED session
  BY <1>7 DEF OnStartup, LoadConfig, Connect, Listen, Listens, ListenFails,
     AddServer, NextPort, Started, OnShutdown, DeleteServer, StopThread,
     ServerDeleted, DeleteObjects, CloseLogger, AskShutdown, OnAccept,
     LateAccept, Terminated, vars
<1> QED
  BY <1>1, <1>3, <1>4, <1>5, <1>6, <1>7 DEF Next, Main, ShutDown

(***************************************************************************)
(* Every variable stays in its set, and the list of servers is no longer   *)
(* than the ports: no place of main's loops is past its end.               *)
(***************************************************************************)
THEOREM TypeCorrectness == Spec => []ServersTypeOK
<1>1. ASSUME IInv, PortsInv, ServerTypes, SessionTypes PROVE ServersTypeOK
  <2>1. ToSet(app.pServers) \subseteq ServerNo
    BY <1>1 DEF IInv, Shape, AppShape, ToSet
  <2>2. \A n \in ServerNo : tries[n] \in 0..MaxTries
    BY <1>1 DEF PortsInv, CountInv
  <2> QED
    BY <1>1, <2>1, <2>2 DEF IInv, PhaseInv, PortsInv, CountInv, ServerTypes,
       SessionTypes, ServersTypeOK
<1>2. /\ IInv /\ PortsInv
      /\ ServerTypes /\ SessionTypes
      /\ [Next \/ Terminated]_vars
      => ServerTypes' /\ SessionTypes'
  BY ServerTypesStep, SessionTypesStep
<1> QED
  BY InvHolds, PortsInvHolds, InitTypes, <1>1, <1>2, PTL DEF Spec
==============================================================================
