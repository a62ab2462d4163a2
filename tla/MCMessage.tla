------------------------------ MODULE MCMessage ------------------------------
(***************************************************************************)
(* Instance of Message for TLC.  The directory has the address of user 1,  *)
(* one that reaches users 1 and 2, an unknown name of a lenient domain,    *)
(* which goes to the postmaster, user 3, an unknown name of a strict one,  *)
(* which is refused, and two addresses of domains that are not ours.       *)
(***************************************************************************)
EXTENDS Message

CONSTANTS her, both, lenient, strict, foreign, other

\* of: the accounts of the name; pm: those of the domain's postmaster.
Entry(own, no, of, pm) ==
  [local |-> own, reject |-> no, users |-> of, postmaster |-> pm]

MCDirectory ==
  [a \in Address |->
     CASE a = her     -> Entry(TRUE, FALSE, <<1>>, <<3>>)
       [] a = both    -> Entry(TRUE, FALSE, <<1, 2>>, <<3>>)
       [] a = lenient -> Entry(TRUE, FALSE, <<>>, <<3>>)
       [] a = strict  -> Entry(TRUE, TRUE, <<>>, <<3>>)
       [] OTHER       -> Entry(FALSE, FALSE, <<>>, <<>>)]

Symmetry == Permutations(SmtpSessions)
==============================================================================
