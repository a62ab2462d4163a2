------------------------------ MODULE MCSession ------------------------------
(***************************************************************************)
(* Instance of Session for TLC.  An idle limit of three sleeps, two lines  *)
(* of input and two units of output sent one at a time are enough for      *)
(* every branch: a queue that is empty, partly drained and full, a counter *)
(* that is reset, advanced and at its limit.                               *)
(***************************************************************************)
EXTENDS Session
==============================================================================
