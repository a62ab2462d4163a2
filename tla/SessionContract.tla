--------------------------- MODULE SessionContract ---------------------------
(***************************************************************************)
(* What the Session framework (src/src/Session.h, src/src/Session.cpp)     *)
(* promises to the class derived from it (Message, PopSession): the order  *)
(* in which the four callbacks OnStart, OnCommand, OnData and OnClose are  *)
(* made, and the state of the connection while they run.  Nothing here     *)
(* mentions threads, queues, timers or the destructor.                     *)
(***************************************************************************)

VARIABLES conn,     \* "none" before Accept, "up" with a socket, "down" without
                    \* one, "over" when OnThreadRun has returned
          last      \* the callback made last, "none" before OnStart

contractVars == <<conn, last>>

(***************************************************************************)
(* The callbacks that may follow the callback c.  OnStart comes first and  *)
(* once, OnData only follows a command that asked for data (or more data), *)
(* and OnClose is the last one.                                            *)
(***************************************************************************)
Follows(c) ==
  CASE c = "none"     -> {"OnStart"}
    [] c = "OnStart"  -> {"OnCommand", "OnClose"}
    [] c = "OnCommand" -> {"OnCommand", "OnData", "OnClose"}
    [] c = "OnData"   -> {"OnCommand", "OnData", "OnClose"}
    [] OTHER          -> {}

Init ==
  /\ conn = "none"
  /\ last = "none"

Open ==
  /\ conn = "none"
  /\ conn' = "up"
  /\ UNCHANGED last

\* The connection stays up while a callback is made, OnClose included.
Call(c) ==
  /\ conn = "up"
  /\ c \in Follows(last)
  /\ last' = c
  /\ UNCHANGED conn

\* The connection is given up: after OnClose, or lost without that farewell.
Drop ==
  /\ conn = "up"
  /\ conn' = "down"
  /\ UNCHANGED last

End ==
  /\ conn = "down"
  /\ conn' = "over"
  /\ UNCHANGED last

Next ==
  \/ Open
  \/ \E c \in {"OnStart", "OnCommand", "OnData", "OnClose"} : Call(c)
  \/ Drop
  \/ End

Spec == Init /\ [][Next]_contractVars
==============================================================================
