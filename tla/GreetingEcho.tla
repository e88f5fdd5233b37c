----------------------------- MODULE GreetingEcho -----------------------------
(***************************************************************************)
(* The protocol nntp_like promises a client: a greeting first, then each   *)
(* line it sends comes back once, in order, never before it was sent.      *)
(***************************************************************************)
EXTENDS Integers, Sequences

CONSTANTS Line, Welcome

VARIABLES sent, heard

gevars == <<sent, heard>>

Init == sent = <<>> /\ heard = <<>>

Say ==
  /\ \E line \in Line : sent' = Append(sent, line)
  /\ UNCHANGED heard

Greeted ==
  /\ heard = <<>>
  /\ heard' = <<Welcome>>
  /\ UNCHANGED sent

Echoed ==
  /\ heard # <<>>
  /\ Len(heard) <= Len(sent)
  /\ heard' = Append(heard, sent[Len(heard)])
  /\ UNCHANGED sent

Next == Say \/ Greeted \/ Echoed

Spec == Init /\ [][Next]_gevars
=============================================================================
