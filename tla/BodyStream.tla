------------------------------ MODULE BodyStream ------------------------------
(***************************************************************************)
(* What an input filter promises its reader: the buckets of the body, each *)
(* passed through the filter exactly once, in order, each only after it    *)
(* was supplied.                                                           *)
(***************************************************************************)
EXTENDS Buckets

VARIABLES src,         \* the body supplied so far
          delivered    \* what the reader has been given

bsvars == <<src, delivered>>

Init == src = <<>> /\ delivered = <<>>

Supplied ==
  /\ IsPrefix(src, src')
  /\ UNCHANGED delivered

Deliver ==
  /\ Len(delivered) < Len(src)
  /\ delivered' = Append(delivered, Filtered(src[Len(delivered) + 1]))
  /\ UNCHANGED src

Next == Supplied \/ Deliver

Spec == Init /\ [][Next]_bsvars
=============================================================================
