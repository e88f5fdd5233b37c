---------------------------- MODULE ReverseString ----------------------------
(***************************************************************************)
(* reverse_string(char *string, int len) of mod_input_body_filter.c: the   *)
(* in-place reversal, two pointers walking towards each other.  Positions  *)
(* are 1-based, so `string` is 1 and `string + len - 1` is len; for len 0  *)
(* down starts one before up.                                              *)
(***************************************************************************)
EXTENDS Integers, SequencesExt

CONSTANT Byte

\* The caller copies len > 0 bytes of a bucket (filter_handler, line 127-128).
Inputs == Seq(Byte)

VARIABLES string, up, down,
          given      \* history: the bytes the function was called with

vars == <<string, up, down, given>>

TypeOK ==
  /\ given \in Seq(Byte)
  /\ string \in Seq(Byte)
  /\ up \in Nat \ {0}
  /\ down \in Nat

InitWith(S) ==
  /\ given \in S
  /\ string = given
  /\ up = 1
  /\ down = Len(given)

Init == InitWith(Inputs)

\* Faulty variants: a swap without tmp, a loop that stops one swap early.
SwapWithoutTmp ==
  /\ down > up
  /\ string' = [string EXCEPT ![up] = string[down]]
  /\ up' = up + 1
  /\ down' = down - 1
  /\ UNCHANGED given

DoneEarly == ~(down > up + 1)

\* tmp = *up; *up++ = *down; *down-- = tmp;
Swap ==
  /\ down > up
  /\ string' = [string EXCEPT ![up] = string[down], ![down] = string[up]]
  /\ up' = up + 1
  /\ down' = down - 1
  /\ UNCHANGED given

Done == ~(down > up)

Return == Done /\ UNCHANGED vars

Next == Swap \/ Return

Spec == Init /\ [][Next]_vars

-----------------------------------------------------------------------------
Mirror(i) == Len(given) + 1 - i

\* The loop invariant: outside up..down every byte is already that of the
\* mirrored position, inside it is untouched.
LoopInv ==
  /\ TypeOK
  /\ Len(string) = Len(given)
  /\ up + down = Len(given) + 1
  /\ up <= down + 2
  /\ \A i \in 1..Len(given) :
        string[i] = IF up <= i /\ i <= down THEN given[i] ELSE given[Mirror(i)]

\* When the loop ends the string is the reversal of what was passed in, for
\* odd and even lengths, one byte and none (lines 69-76): the operator by which
\* Buckets!Filtered stands for a whole call of this function.
Reversed == Done => string = Reverse(given)
=============================================================================
