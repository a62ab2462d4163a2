------------------------------- MODULE MCServers -----------------------------
(***************************************************************************)
(* Instance of Servers for TLC: a POP3 port, and an SMTP port that stands  *)
(* in the configuration twice, so that one of its servers cannot listen.   *)
(***************************************************************************)
EXTENDS Servers

MCPopPorts == <<110>>
MCSmtpPorts == <<25, 25>>
==============================================================================
