-------------------------------- MODULE Response --------------------------------
(***************************************************************************)
(* What the generators of responses in c-modules/ have in common: a total  *)
(* kept in a size_t, counters kept in an int, and an output that may fail  *)
(* at any write (the client is gone) and then fails for good.              *)
(***************************************************************************)
EXTENDS Integers

CONSTANTS SizeMod,    \* 2^(bits of size_t)
          IntMod      \* 2^(bits of int)

MaxInt == IntMod \div 2 - 1

\* int is even and narrower than size_t.
ASSUME WidthAssumption ==
  /\ IntMod \in Nat /\ SizeMod \in Nat
  /\ \E h \in 1..IntMod : IntMod = 2 * h
  /\ SizeMod >= 2 * IntMod

VARIABLES pc,       \* where the handler is; the loop is "loop", the end "done"
          total,    \* size_t
          aborted,  \* the output has failed
          result,   \* what the handler returns, "none" before
          out       \* history: bytes the output has accepted

Size == 0..(SizeMod - 1)

\* Conversion to size_t.
ToSize(n) == n % SizeMod
=============================================================================
