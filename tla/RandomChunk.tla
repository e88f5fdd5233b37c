------------------------------ MODULE RandomChunk ------------------------------
(***************************************************************************)
(* c-modules/random_chunk/mod_random_chunk.c: "?seed,count" is answered    *)
(* with count things, each a byte, nothing or a segment, at random, and    *)
(* then with the total of the bytes, which the client compares with what   *)
(* it has received (t/http11/chunked.t).                                   *)
(*                                                                         *)
(* count and total are size_t, the loop's counter is an int: a count above *)
(* MaxInt overflows it, which is undefined.  The builds either wrap it or  *)
(* keep it in a wider register.  The output is external (ap_rputc,         *)
(* ap_rputs, ap_rprintf).                                                  *)
(***************************************************************************)
EXTENDS Response

CONSTANTS MaxSegment,  \* MAX_SEGMENT (32)
          OneWeight    \* ONE_WEIGHT (224)

ASSUME RandomChunkAssumption ==
  MaxSegment \in 1..(SizeMod - 1) /\ OneWeight \in Nat \ {0}

VARIABLES request,   \* what the guards look at
          count, i,
          answer,    \* how the body ends: "none", "usage", "total"
          announced, \* the number after __END__
          things     \* history: rounds of the loop

chunkVars == <<request, pc, count, i, total, aborted, result, answer, announced, out, things>>

MinInt == 0 - (MaxInt + 1)

Request == [ours : BOOLEAN, http11 : BOOLEAN, get : BOOLEAN, header_only : BOOLEAN]

ChunkInit ==
  /\ request \in Request
  /\ pc = "start" /\ count = 0 /\ i = 0 /\ total = 0
  /\ aborted = FALSE
  /\ result = "none" /\ answer = "none" /\ announced = 0
  /\ out = 0 /\ things = 0

-----------------------------------------------------------------------------
(* Before the loop. *)

Return(res) == pc' = "done" /\ result' = res

Decline ==
  /\ pc = "start"
  /\ ~(request.ours /\ request.http11 /\ request.get)
  /\ Return("DECLINED")
  /\ UNCHANGED <<request, count, i, total, aborted, answer, announced, out, things>>

Accepts == pc = "start" /\ request.ours /\ request.http11 /\ request.get

HeaderOnly ==
  /\ Accepts /\ request.header_only
  /\ Return("OK")
  /\ UNCHANGED <<request, count, i, total, aborted, answer, announced, out, things>>

\* count is what httpd_test_split_qs_numbers makes of the query, 0 without one.
Usage ==
  /\ Accepts /\ ~request.header_only
  /\ \/ answer' = "usage" /\ UNCHANGED aborted
     \/ aborted' = TRUE /\ UNCHANGED answer
  /\ Return("OK")
  /\ UNCHANGED <<request, count, i, total, announced, out, things>>

Start(c) ==
  /\ Accepts /\ ~request.header_only
  /\ c # 0
  /\ count' = c
  /\ pc' = "loop"
  /\ UNCHANGED <<request, i, total, aborted, result, answer, announced, out, things>>

-----------------------------------------------------------------------------
(* The loop. *)

\* Faulty: one round too many.
MoreOrEqual == ToSize(i) <= count

\* i < count, with i converted to a size_t.
MoreThings == ToSize(i) < count

\* ++i
Increment == i' \in IF i = MaxInt THEN {i + 1, MinInt} ELSE {i + 1}

Round ==
  /\ pc = "loop" /\ MoreThings
  /\ things' = things + 1
  /\ Increment
  /\ UNCHANGED <<request, pc, count, result, answer, announced>>

Takes(n) == ~aborted /\ out' = out + n /\ UNCHANGED aborted
Fails == aborted' = TRUE /\ UNCHANGED out

\* ap_rputc: the byte is counted whether it was written or not.
PutOne == Round /\ (Takes(1) \/ Fails) /\ total' = ToSize(total + 1)

\* len = 0
PutNothing == Round /\ UNCHANGED <<out, aborted, total>>

\* ap_rputs returns the length, or -1.
PutSegment(len) ==
  /\ Round
  /\ \/ Takes(len) /\ total' = ToSize(total + len)
     \/ Fails /\ total' = ToSize(total - 1)

\* Faulty: the last write is tried until it succeeds.
EndRetries ==
  /\ pc = "loop" /\ ~MoreThings
  /\ \/ ~aborted /\ answer' = "total" /\ announced' = total /\ Return("OK")
        /\ UNCHANGED aborted
     \/ aborted' = TRUE /\ UNCHANGED <<pc, result, answer, announced>>
  /\ UNCHANGED <<request, count, i, total, out, things>>

\* Faulty: the total is printed through an int.
EndAsInt ==
  /\ pc = "loop" /\ ~MoreThings
  /\ \/ ~aborted /\ answer' = "total" /\ announced' = total % (MaxInt + 1)
        /\ UNCHANGED aborted
     \/ aborted' = TRUE /\ UNCHANGED <<answer, announced>>
  /\ Return("OK")
  /\ UNCHANGED <<request, count, i, total, out, things>>

\* __END__:total, unless the client is gone.
End ==
  /\ pc = "loop" /\ ~MoreThings
  /\ \/ ~aborted /\ answer' = "total" /\ announced' = total /\ UNCHANGED aborted
     \/ aborted' = TRUE /\ UNCHANGED <<answer, announced>>
  /\ Return("OK")
  /\ UNCHANGED <<request, count, i, total, out, things>>

\* random() % (MAX_SEGMENT + ONE_WEIGHT)
Thing == \E len \in 0..(MaxSegment + OneWeight - 1) :
           \/ len >= MaxSegment /\ PutOne
           \/ len = 0 /\ PutNothing
           \/ len \in 1..(MaxSegment - 1) /\ PutSegment(len)

ChunkNext == \/ Decline \/ HeaderOnly \/ Usage \/ (\E c \in Size : Start(c))
        \/ Thing \/ End
        \/ (pc = "done" /\ UNCHANGED chunkVars)

\* The handler keeps running; nothing is assumed of the output or of random().
ChunkSpec == ChunkInit /\ [][ChunkNext]_chunkVars /\ WF_chunkVars(ChunkNext)

-----------------------------------------------------------------------------
(* Correctness. *)

ChunkTypeOK ==
  /\ request \in Request
  /\ pc \in {"start", "loop", "done"}
  /\ count \in Size /\ i \in Int /\ total \in Size
  /\ aborted \in BOOLEAN
  /\ result \in {"none", "DECLINED", "OK"}
  /\ answer \in {"none", "usage", "total"}
  /\ announced \in Size
  /\ out \in Nat /\ things \in Nat

\* A client that reads the announced total has received exactly that many
\* bytes before it, whatever was drawn and although failed writes are counted
\* in two ways (lines 156-174, t/http11/chunked.t:56-59), as long as a size_t
\* can hold the number.
AnnouncedTotal == answer = "total" /\ out < SizeMod => announced = out

\* The loop does count things while an int can count them; beyond that it does
\* at least as many as an int can count and never more than asked (line 149).
CountOfThings ==
  answer = "total" =>
    /\ things <= count
    /\ count <= MaxInt + 1 => things = count
    /\ count > MaxInt => things > MaxInt

\* Their inductive form: the counter and the rounds, the total and the bytes.
RoundsInv ==
  /\ ChunkTypeOK
  /\ pc = "start" => i = 0 /\ things = 0 /\ total = 0 /\ out = 0
  /\ pc = "start" => answer = "none" /\ ~aborted
  /\ pc = "loop" => answer = "none" /\ count > 0
  /\ i >= MinInt
  /\ i >= 0 => i = things /\ things <= count
  /\ i < 0 => things = i + 2 * (MaxInt + 1) /\ things <= count
  /\ ~aborted /\ out < SizeMod => total = out
  /\ AnnouncedTotal
  /\ CountOfThings

\* The handler returns for every count, those above MaxInt and those that were
\* negative in the query included, whatever the overflow does (line 149).
ChunkTerminates == <>(pc = "done")
=============================================================================
