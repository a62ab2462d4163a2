------------------------------- MODULE MCLookup ------------------------------
(***************************************************************************)
(* Instance of Lookup for TLC.  In domain 1 a name leads to users 1 and 2  *)
(* and the postmaster is user 3; in domain 2 the name is unknown and the   *)
(* postmaster is user 1.                                                   *)
(***************************************************************************)
EXTENDS Lookup

CONSTANTS her, pm

MCAddresses ==
  [d \in Domain |->
     [n \in Name |-> CASE d = 1 /\ n = her -> <<1, 2>>
                       [] d = 1 /\ n = pm  -> <<3>>
                       [] d = 2 /\ n = pm  -> <<1>>
                       [] OTHER            -> <<>>]]

Symmetry == Permutations(Clients)
==============================================================================
