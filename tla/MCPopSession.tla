---------------------------- MODULE MCPopSession -----------------------------
(***************************************************************************)
(* Instance of PopSession for TLC: the sessions may be of one user or of   *)
(* two, and are interchangeable.                                           *)
(***************************************************************************)
EXTENDS PopSession

Symmetry == Permutations(PopSessions)
==============================================================================
