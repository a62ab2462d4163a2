----------------------------- MODULE MCDelivery ------------------------------
(***************************************************************************)
(* Instance of Delivery for TLC: an address that leads to all accounts,    *)
(* and one of a domain that is not ours.                                   *)
(***************************************************************************)
EXTENDS Delivery

CONSTANTS own, foreign

MCDirectory ==
  [a \in Address |->
     [local |-> a = own, reject |-> TRUE, postmaster |-> <<>>,
      users |-> IF a = own THEN SetToSortSeq(UserID, LAMBDA u, v : u < v)
                             ELSE <<>>]]

Symmetry == Permutations(PopSessions)
==============================================================================
