------------------------------- MODULE WriteLoop -------------------------------
(***************************************************************************)
(* The response generators driven by "?buff_size,remaining":               *)
(* c-modules/test_rwrite/mod_test_rwrite.c and                             *)
(* c-modules/test_pass_brigade/mod_test_pass_brigade.c, with the parser    *)
(* c-modules/httpd_test_util.c they share.  Both fill a buffer and write   *)
(* it until `remaining` bytes are out.                                     *)
(*                                                                         *)
(* apr_size_t and long hold SizeMod values, int holds IntMod of them: the  *)
(* loop's `int left = (remaining - total)` is a narrowing, and the         *)
(* comparison of left with buff_size widens it again.                      *)
(***************************************************************************)
EXTENDS Response, Sequences

CONSTANTS DefaultBuff, \* buff_size without a query (8192)
          Queries      \* the query strings, as sequences of numbers; one that
                       \* ends in a comma ends in 0, a missing one is <<>>

ASSUME QueryAssumption ==
  /\ DefaultBuff \in 1..MaxInt
  /\ Queries \subseteq Seq(Int)

VARIABLES handler,              \* "rwrite" or "pass_brigade"
          args,                 \* r->args: <<>> or the numbers of the query
          buff_size, remaining  \* size_t

vars == <<handler, args, buff_size, remaining, total, pc, aborted, result, out>>

DefaultRemaining == 1

TypeOK ==
  /\ handler \in {"rwrite", "pass_brigade"}
  /\ args \in Queries
  /\ buff_size \in Size /\ remaining \in Size /\ total \in Size
  /\ pc \in {"parse", "loop", "done", "crashed"}
  /\ aborted \in BOOLEAN
  /\ result \in {"none", "OK", "error"}
  /\ out \in Nat

\* Conversion of a size_t to int.
ToInt(s) == LET low == s % IntMod IN IF low <= MaxInt THEN low ELSE low - IntMod

More == total < remaining

-----------------------------------------------------------------------------
(* Faulty variants.                                                         *)

\* The comparison of left with buff_size made between signed numbers.
Len1Signed ==
  LET left == ToInt(ToSize(remaining - total))
  IN  IF left <= buff_size THEN left ELSE ToInt(buff_size)

\* Counts the buffer instead of what was written.
WriteCountsBuffer ==
  /\ pc = "loop" /\ More /\ ~aborted
  /\ total' = ToSize(total + buff_size)
  /\ out' = out + (IF remaining - total <= buff_size THEN remaining - total
                                                     ELSE buff_size)
  /\ UNCHANGED <<handler, args, buff_size, remaining, pc, aborted, result>>

\* A failed write leaves total as it is.
RwriteFailsIgnored ==
  /\ pc = "loop" /\ More /\ handler = "rwrite"
  /\ aborted' = TRUE
  /\ UNCHANGED <<handler, args, buff_size, remaining, total, pc, result, out>>

PassFailsSilently ==
  /\ pc = "loop" /\ More /\ handler = "pass_brigade"
  /\ aborted' = TRUE /\ pc' = "done" /\ result' = "OK"
  /\ UNCHANGED <<handler, args, buff_size, remaining, total, out>>

-----------------------------------------------------------------------------
(* httpd_test_split_qs_numbers: the i-th number goes to the i-th pointer;    *)
(* without a comma to pass the same number is parsed again.                  *)

Parsed(i, default) ==
  IF args = <<>> THEN default
  ELSE ToSize(args[IF i <= Len(args) THEN i ELSE Len(args)])

Init ==
  /\ handler \in {"rwrite", "pass_brigade"}
  /\ args \in Queries
  /\ buff_size = DefaultBuff /\ remaining = DefaultRemaining /\ total = 0
  /\ pc = "parse" /\ aborted = FALSE /\ result = "none" /\ out = 0

\* The query, then malloc and memset: where malloc returns NULL (external) the
\* memset ends the child process.
Parse ==
  /\ pc = "parse"
  /\ buff_size' = Parsed(1, DefaultBuff)
  /\ remaining' = Parsed(2, DefaultRemaining)
  /\ pc' \in {"loop", "crashed"}
  /\ UNCHANGED <<handler, args, total, aborted, result, out>>

\* int left = (remaining - total);
\* int len = left <= buff_size ? left : buff_size;
Len1 ==
  LET left == ToInt(ToSize(remaining - total))
  IN  IF ToSize(left) <= buff_size THEN left ELSE ToInt(buff_size)

\* The output takes the len bytes (external: ap_rwrite, ap_pass_brigade).
Write ==
  /\ pc = "loop" /\ More
  /\ ~aborted
  /\ Len1 >= 0
  /\ total' = ToSize(total + Len1)
  /\ out' = out + Len1
  /\ UNCHANGED <<handler, args, buff_size, remaining, pc, aborted, result>>

\* A write of negative length is nothing ap_rwrite or a heap bucket is made for
\* (external): it ends the child process, unless it fails like any other write.
NegativeWrite ==
  /\ pc = "loop" /\ More
  /\ ~aborted
  /\ Len1 < 0
  /\ pc' = "crashed"
  /\ UNCHANGED <<handler, args, buff_size, remaining, total, aborted, result, out>>

\* test_rwrite adds the -1 of a failed ap_rwrite to its total and goes on.
RwriteFails ==
  /\ pc = "loop" /\ More
  /\ handler = "rwrite"
  /\ aborted' = TRUE
  /\ total' = ToSize(total - 1)
  /\ UNCHANGED <<handler, args, buff_size, remaining, pc, result, out>>

\* test_pass_brigade cleans up and returns HTTP_INTERNAL_SERVER_ERROR.
PassFails ==
  /\ pc = "loop" /\ More
  /\ handler = "pass_brigade"
  /\ aborted' = TRUE
  /\ pc' = "done"
  /\ result' = "error"
  /\ UNCHANGED <<handler, args, buff_size, remaining, total, out>>

Leave ==
  /\ pc = "loop" /\ ~More
  /\ pc' = "done"
  /\ result' = "OK"
  /\ UNCHANGED <<handler, args, buff_size, remaining, total, aborted, out>>

Next == Parse \/ Write \/ NegativeWrite \/ RwriteFails \/ PassFails \/ Leave
          \/ (pc \in {"done", "crashed"} /\ UNCHANGED vars)

\* The handler keeps running; a write may fail but need not.
Fairness == WF_vars(Parse \/ Write \/ NegativeWrite \/ Leave
                      \/ (aborted /\ RwriteFails))

Spec == Init /\ [][Next]_vars /\ Fairness

-----------------------------------------------------------------------------
(* Correctness. *)

\* No write goes beyond the buffer or beyond what is left, however int and
\* size_t are mixed in `left <= buff_size ? left : buff_size` (test_rwrite
\* 46-47).  The length is negative only when both the buffer and what is left
\* are more than an int can count, and 0, so that the loop stands still, only
\* for a multiple of 2^(bits of int).
LenInBuffer ==
  pc = "loop" /\ More =>
    LET left == remaining - total
    IN  /\ Len1 <= buff_size /\ Len1 <= left
        /\ Len1 < 0 => buff_size > MaxInt /\ left > MaxInt
        /\ Len1 = 0 => buff_size % IntMod = 0 \/ left % IntMod = 0

\* Never more than asked for, and all of it when nothing failed: for every
\* query, those beyond the range of an int included (test_rwrite 45-53).
ExactOutput ==
  /\ out <= remaining
  /\ pc = "done" /\ ~aborted => out = remaining

\* Its inductive form: total counts the output until a write fails; then it
\* only goes down, until it wraps around and ends the loop.
LoopInv ==
  /\ pc = "parse" => total = 0 /\ out = 0 /\ ~aborted /\ remaining = 1
  /\ ~aborted => total = out /\ out <= remaining
  /\ aborted => /\ out <= remaining
                /\ total <= out \/ total = SizeMod - 1
                /\ pc # "parse"
  /\ pc = "done" /\ ~aborted => out = remaining

\* A failed write is reported by test_pass_brigade and by it alone.
FailureReported ==
  pc = "done" => (result = "error" <=> aborted /\ handler = "pass_brigade")

\* What the loop can serve: a buffer, and a remaining that an int can hold, or,
\* with a buffer that an int can hold, an unsigned int.
Servable ==
  /\ buff_size > 0
  /\ remaining <= MaxInt \/ (buff_size <= MaxInt /\ remaining < IntMod)

\* Such a request is always answered, also when the client goes away half-way
\* and test_rwrite's total runs down through zero (test_rwrite 45-53).
Terminates == (pc = "loop" /\ Servable) ~> (pc = "done")
=============================================================================
