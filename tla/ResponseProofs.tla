---------------------------- MODULE ResponseProofs ----------------------------
(***************************************************************************)
(* The generators of responses, WriteLoop and RandomChunk, for every width *)
(* of int and size_t, every query and every draw.                          *)
(***************************************************************************)
EXTENDS WriteLoop, RandomChunk, TLAPS

(* Facts about the conversions. *)

\* A number already in range keeps its value in size_t.
LEMMA ToSizeId ==
  \A n \in Int : 0 <= n /\ n < SizeMod => n \in Size /\ ToSize(n) = n
BY WidthAssumption DEF Size, ToSize

\* What it is to be a size_t.
LEMMA SizeFacts ==
  /\ SizeMod \in Nat /\ SizeMod >= 4
  /\ \A n \in Size : n \in Int /\ 0 <= n /\ n < SizeMod
BY WidthAssumption DEF Size

\* A small negative number wraps around to the top of size_t.
LEMMA ToSizeNegative ==
  \A n \in Int : -IntMod <= n /\ n < 0 => ToSize(n) = SizeMod + n
BY WidthAssumption DEF ToSize

LEMMA ToSizeType == \A n \in Int : ToSize(n) \in Size
BY WidthAssumption DEF ToSize, Size

\* Half the range of an int.
LEMMA MaxIntFacts == MaxInt \in Nat /\ IntMod = 2 * (MaxInt + 1) /\ MaxInt < SizeMod
BY WidthAssumption DEF MaxInt

\* Narrowing to int: a non-negative result is no larger than the number, a
\* negative one shows that the number is above MaxInt.
LEMMA ToIntFacts ==
  ASSUME NEW s \in Size
  PROVE  /\ ToInt(s) \in Int
         /\ ToInt(s) >= 0 => ToInt(s) <= s /\ ToInt(s) <= MaxInt
         /\ ToInt(s) < 0 => s > MaxInt /\ -IntMod <= ToInt(s)
         /\ s <= MaxInt => ToInt(s) = s
         /\ ToInt(s) = 0 => s % IntMod = 0
<1> DEFINE low == s % IntMod
<1>1. low \in 0..(IntMod - 1) /\ low <= s /\ (s < IntMod => low = s)
  BY WidthAssumption DEF Size
<1>2. ToInt(s) = IF low <= MaxInt THEN low ELSE low - IntMod
  BY DEF ToInt
<1>3. low \in Int /\ (ToInt(s) = 0 => low = 0)
  BY <1>1, <1>2, WidthAssumption
<1> HIDE DEF low
<1>4. /\ ToInt(s) \in Int
      /\ ToInt(s) >= 0 => ToInt(s) <= s /\ ToInt(s) <= MaxInt
      /\ ToInt(s) < 0 => s > MaxInt /\ -IntMod <= ToInt(s)
      /\ s <= MaxInt => ToInt(s) = s
  BY <1>1, <1>2, MaxIntFacts, WidthAssumption DEF Size
<1> QED
  BY <1>3, <1>4 DEF low

\* The length of one write: within the buffer and what is left, and what it is
\* to be negative or 0.
LEMMA Len1Bounds ==
  ASSUME buff_size \in Size, remaining \in Size, total \in Size, total < remaining
  PROVE  /\ Len1 \in Int
         /\ Len1 <= buff_size /\ Len1 <= remaining - total
         /\ Len1 < 0 => buff_size > MaxInt /\ remaining - total > MaxInt
         /\ Len1 = 0 => buff_size % IntMod = 0 \/ (remaining - total) % IntMod = 0
<1> DEFINE d == remaining - total
           left == ToInt(ToSize(d))
           b == ToInt(buff_size)
<1>1. d \in Size /\ ToSize(d) = d /\ d \in Int
  <2>1. d \in Int /\ 0 <= d /\ d < SizeMod
    BY SizeFacts
  <2> QED
    BY <2>1, ToSizeId
<1>2. /\ left \in Int
      /\ left >= 0 => left <= d /\ left <= MaxInt
      /\ left < 0 => d > MaxInt /\ -IntMod <= left
      /\ left = 0 => d % IntMod = 0
      /\ d <= MaxInt => left = d
  BY <1>1, ToIntFacts
<1>3. /\ b \in Int
      /\ b >= 0 => b <= buff_size /\ b <= MaxInt
      /\ b < 0 => buff_size > MaxInt
      /\ buff_size <= MaxInt => b = buff_size
      /\ b = 0 => buff_size % IntMod = 0
  BY ToIntFacts
<1>4. Len1 = IF ToSize(left) <= buff_size THEN left ELSE b
  BY DEF Len1
<1>5. buff_size \in Int /\ 0 <= buff_size /\ MaxInt \in Nat
  BY SizeFacts, MaxIntFacts
<1> HIDE DEF left, b, d
<1>6. ASSUME left >= 0
      PROVE  /\ Len1 <= buff_size /\ Len1 <= d /\ Len1 >= 0
             /\ Len1 = 0 => buff_size % IntMod = 0 \/ d % IntMod = 0
  <2>1. ToSize(left) = left
    <3>1. left >= 0 /\ left < SizeMod /\ left \in Int
      BY <1>2, <1>6, MaxIntFacts, WidthAssumption
    <3> QED
      BY <3>1, ToSizeId
  <2>2. CASE left <= buff_size
    <3>1. Len1 = left
      BY <1>4, <2>1, <2>2
    <3> QED
      BY <1>2, <1>6, <2>2, <3>1
  <2>3. CASE ~(left <= buff_size)
    <3>1. Len1 = buff_size /\ b = buff_size /\ buff_size < left
      BY <1>2, <1>3, <1>4, <1>5, <1>6, <2>1, <2>3
    <3> QED
      BY <1>1, <1>2, <1>3, <1>5, <1>6, <3>1
  <2> QED
    BY <2>2, <2>3
<1>7. ASSUME left < 0
      PROVE  /\ Len1 <= buff_size /\ Len1 <= d /\ d > MaxInt
             /\ Len1 < 0 => buff_size > MaxInt
             /\ Len1 = 0 => buff_size % IntMod = 0
  <2>1. ToSize(left) = SizeMod + left
    BY <1>2, <1>7, ToSizeNegative
  <2>2. d > MaxInt
    BY <1>2, <1>7
  <2>3. CASE SizeMod + left <= buff_size
    <3>1. Len1 = left
      BY <1>4, <2>1, <2>3
    <3>2. buff_size > MaxInt
      BY <1>2, <1>5, <1>7, <2>3, MaxIntFacts, WidthAssumption
    <3> QED
      BY <1>1, <1>2, <1>5, <1>7, <2>2, <3>1, <3>2
  <2>4. CASE ~(SizeMod + left <= buff_size)
    <3>1. Len1 = b
      BY <1>4, <2>1, <2>4
    <3>2. b <= MaxInt /\ b <= buff_size
      BY <1>3, <1>5
    <3> QED
      BY <1>1, <1>3, <1>5, <2>2, <3>1, <3>2
  <2> QED
    BY <2>3, <2>4
<1>8. Len1 \in Int
  BY <1>2, <1>3, <1>4
<1>9. left >= 0 \/ left < 0
  BY <1>2
<1>10. /\ Len1 <= buff_size /\ Len1 <= d
       /\ Len1 < 0 => buff_size > MaxInt /\ d > MaxInt
       /\ Len1 = 0 => buff_size % IntMod = 0 \/ d % IntMod = 0
  <2>1. CASE left >= 0
    BY <1>6, <1>8, <2>1
  <2>2. CASE left < 0
    BY <1>7, <2>2
  <2> QED
    BY <1>9, <2>1, <2>2
<1> QED
  BY <1>8, <1>10 DEF d

-----------------------------------------------------------------------------
\* Parsing a query yields size_t values.
LEMMA ParsedFacts ==
  ASSUME args \in Queries
  PROVE  Parsed(1, DefaultBuff) \in Size /\ Parsed(2, DefaultRemaining) \in Size
<1>1. CASE args = <<>>
  BY <1>1, QueryAssumption, MaxIntFacts, WidthAssumption
     DEF Parsed, Size, DefaultRemaining
<1>2. CASE args # <<>>
  <2>1. args \in Seq(Int) /\ Len(args) \in Nat /\ Len(args) >= 1
    BY <1>2, QueryAssumption
  <2>2. PICK j \in 1..Len(args) : Parsed(1, DefaultBuff) = ToSize(args[j])
    BY <1>2, <2>1 DEF Parsed
  <2>3. PICK k \in 1..Len(args) : Parsed(2, DefaultRemaining) = ToSize(args[k])
    BY <1>2, <2>1 DEF Parsed
  <2> QED
    BY <2>1, <2>2, <2>3, ToSizeType
<1> QED
  BY <1>1, <1>2

\* Types and the loop invariant together: total counts the bytes written, and
\* after a failed write only goes down until it wraps (test_rwrite 45-53).
THEOREM LoopInvariant == Spec => [](TypeOK /\ LoopInv)
<1>1. Init => TypeOK /\ LoopInv
  <2> SUFFICES ASSUME Init PROVE TypeOK /\ LoopInv
    OBVIOUS
  <2>1. /\ DefaultBuff \in Int /\ 1 <= DefaultBuff
        /\ DefaultBuff <= MaxInt /\ DefaultBuff < SizeMod
    BY QueryAssumption, MaxIntFacts, SizeFacts
  <2>2. DefaultBuff \in Size /\ 1 \in Size /\ 0 \in Size
    BY <2>1, SizeFacts, ToSizeId
  <2>3. TypeOK
    BY <2>2 DEF Init, TypeOK, DefaultRemaining
  <2>4. /\ total = 0 /\ out = 0 /\ remaining = 1
        /\ out <= remaining /\ pc = "parse" /\ pc # "done"
    BY <2>1 DEF Init, DefaultRemaining
  <2>5. ~aborted
    BY DEF Init
  <2> QED
    BY <2>3, <2>4, <2>5 DEF LoopInv
<1>2. TypeOK /\ LoopInv /\ [Next]_vars => TypeOK' /\ LoopInv'
  <2> SUFFICES ASSUME TypeOK, LoopInv, [Next]_vars PROVE TypeOK' /\ LoopInv'
    OBVIOUS
  <2> USE DEF TypeOK, LoopInv
  <2>1. CASE Parse
    BY <2>1, ParsedFacts DEF Parse, Size
  <2>2. CASE Write
    <3>1. Len1 \in Nat /\ Len1 <= remaining - total
      BY <2>2, Len1Bounds DEF Write, More
    <3>2. total + Len1 \in Size /\ ToSize(total + Len1) = total + Len1
      <4>1. /\ total + Len1 \in Int /\ 0 <= total + Len1
            /\ total + Len1 < SizeMod
        BY <3>1, SizeFacts
      <4> QED
        BY <4>1, ToSizeId
    <3> QED
      BY <2>2, <3>1, <3>2 DEF Write, More, Size
  <2>3. CASE RwriteFails
    <3>1. total < remaining /\ total <= out
      BY <2>3, WidthAssumption DEF RwriteFails, More, Size
    <3>2. CASE total = 0
      <4>1. ToSize(total - 1) = SizeMod - 1
        BY <3>2, ToSizeNegative, WidthAssumption
      <4> QED
        BY <2>3, <3>1, <4>1, WidthAssumption DEF RwriteFails, Size
    <3>3. CASE total # 0
      <4>1. ToSize(total - 1) = total - 1 /\ total - 1 \in Size
        <5>1. total - 1 \in Int /\ 0 <= total - 1 /\ total - 1 < SizeMod
          BY <3>3, SizeFacts
        <5> QED
          BY <5>1, ToSizeId
      <4> QED
        BY <2>3, <3>1, <4>1 DEF RwriteFails, Size
    <3> QED
      BY <3>2, <3>3
  <2>4. CASE PassFails
    BY <2>4 DEF PassFails, More, Size
  <2>5. CASE Leave
    BY <2>5 DEF Leave, More, Size
  <2>6. CASE NegativeWrite
    BY <2>6 DEF NegativeWrite
  <2>7. CASE UNCHANGED vars
    BY <2>7 DEF vars
  <2> QED
    BY <2>1, <2>2, <2>3, <2>4, <2>5, <2>6, <2>7 DEF Next
<1> QED
  BY <1>1, <1>2, PTL DEF Spec

\* No write goes beyond the malloc'ed buffer or what is left, whatever numbers
\* the query has; those for which the length is negative or 0 (LenInBuffer).
THEOREM LenInBufferHolds == Spec => []LenInBuffer
<1>1. TypeOK /\ LoopInv => LenInBuffer
  BY Len1Bounds DEF TypeOK, LoopInv, LenInBuffer, More
<1> QED
  BY <1>1, LoopInvariant, PTL

\* The response is never longer than asked for, and exactly as long unless a
\* write failed (ExactOutput).
THEOREM ExactOutputHolds == Spec => []ExactOutput
<1>1. TypeOK /\ LoopInv => ExactOutput
  BY DEF TypeOK, LoopInv, ExactOutput
<1> QED
  BY <1>1, LoopInvariant, PTL

-----------------------------------------------------------------------------
\* Where the failure goes: a loop that goes on after a failed write is that of
\* test_rwrite, and only the end of the handler has a result.
FailureInv ==
  /\ handler \in {"rwrite", "pass_brigade"}
  /\ pc # "done" /\ aborted => handler = "rwrite"
  /\ FailureReported

\* A failed write is reported by test_pass_brigade and by it alone, whatever
\* test_rwrite's total goes through after one (FailureReported).
THEOREM FailureReportedHolds == Spec => []FailureReported
<1>1. Init => FailureInv
  BY DEF Init, FailureInv, FailureReported
<1>2. FailureInv /\ [Next]_vars => FailureInv'
  <2> SUFFICES ASSUME FailureInv, [Next]_vars PROVE FailureInv'
    OBVIOUS
  <2> USE DEF FailureInv, FailureReported
  <2>1. CASE Parse
    BY <2>1 DEF Parse
  <2>2. CASE Write
    BY <2>2 DEF Write
  <2>3. CASE RwriteFails
    BY <2>3 DEF RwriteFails
  <2>4. CASE PassFails
    BY <2>4 DEF PassFails
  <2>5. CASE Leave
    BY <2>5 DEF Leave
  <2>6. CASE NegativeWrite
    BY <2>6 DEF NegativeWrite
  <2>7. CASE UNCHANGED vars
    BY <2>7 DEF vars
  <2> QED
    BY <2>1, <2>2, <2>3, <2>4, <2>5, <2>6, <2>7 DEF Next
<1>3. FailureInv => FailureReported
  BY DEF FailureInv
<1> QED
  BY <1>1, <1>2, <1>3, PTL DEF Spec

-----------------------------------------------------------------------------
(* The loops end: what Terminates and ChunkTerminates claim, without the    *)
(* fairness that they need on top.                                          *)

\* The length of a write is positive where the loop can serve the query.
LEMMA Len1Positive ==
  ASSUME buff_size \in Size, remaining \in Size, total \in Size,
         total < remaining, Servable
  PROVE  Len1 > 0
<1> DEFINE d == remaining - total
           left == ToInt(ToSize(d))
           b == ToInt(buff_size)
<1>1. /\ d \in Int /\ 0 < d /\ d < SizeMod /\ d < IntMod
      /\ d <= MaxInt \/ buff_size <= MaxInt
      /\ buff_size \in Int /\ buff_size > 0
  BY SizeFacts, MaxIntFacts, WidthAssumption DEF Servable
<1>2. ToSize(d) = d /\ d \in Size
  BY <1>1, ToSizeId
<1>3. left = IF d <= MaxInt THEN d ELSE d - IntMod
  <2>1. d % IntMod = d
    BY <1>1, WidthAssumption
  <2> QED
    BY <1>2, <2>1 DEF ToInt
<1>4. buff_size <= MaxInt => b = buff_size
  BY ToIntFacts
<1>5. Len1 = IF ToSize(left) <= buff_size THEN left ELSE b
  BY DEF Len1
<1> HIDE DEF left, d, b
<1>6. CASE d <= MaxInt
  <2>1. left = d /\ ToSize(left) = d
    BY <1>2, <1>3, <1>6
  <2>2. CASE d <= buff_size
    BY <1>1, <1>5, <2>1, <2>2
  <2>3. CASE ~(d <= buff_size)
    BY <1>1, <1>4, <1>5, <1>6, <2>1, <2>3, MaxIntFacts
  <2> QED
    BY <2>2, <2>3
<1>7. CASE ~(d <= MaxInt)
  <2>1. left = d - IntMod /\ left < 0 /\ -IntMod <= left /\ left \in Int
    BY <1>1, <1>3, <1>7, WidthAssumption
  <2>2. ToSize(left) = SizeMod + left
    BY <2>1, ToSizeNegative
  <2>3. ~(SizeMod + left <= buff_size) /\ b = buff_size
    BY <1>1, <1>4, <1>7, <2>1, MaxIntFacts, WidthAssumption
  <2> QED
    BY <1>1, <1>5, <2>2, <2>3
<1> QED
  BY <1>6, <1>7

\* What is left to do: bytes until a write fails, from then on the rounds that
\* take test_rwrite's total down through zero.
WritesToGo ==
  CASE pc = "parse" -> 2 * SizeMod + 3
    [] pc = "loop" /\ ~aborted -> SizeMod + 2 + (remaining - total)
    [] pc = "loop" /\ aborted -> IF More THEN total + 2 ELSE 1
    [] OTHER -> 0

\* Every round of a loop that can serve its query brings the end nearer, be
\* its write taken, lost for test_rwrite or lost for test_pass_brigade, and the
\* next round can always be made (Terminates; test_rwrite 45-53,
\* test_pass_brigade 50-75).
THEOREM EveryWriteCounts ==
  Spec => /\ [](WritesToGo \in 0..(2 * SizeMod + 3))
          /\ [][Servable' => WritesToGo' < WritesToGo]_vars
          /\ [](pc = "loop" /\ More /\ Servable => Len1 > 0)
<1>1. TypeOK /\ LoopInv => WritesToGo \in 0..(2 * SizeMod + 3)
  BY SizeFacts DEF TypeOK, LoopInv, WritesToGo
<1>2. TypeOK /\ LoopInv /\ pc = "loop" /\ More /\ Servable => Len1 > 0
  BY Len1Positive DEF TypeOK, LoopInv, More
<1>3. ASSUME TypeOK, LoopInv, TypeOK', LoopInv', Next, ~UNCHANGED vars, Servable'
      PROVE  WritesToGo' < WritesToGo
  <2>0. /\ SizeMod \in Nat /\ SizeMod >= 4
        /\ total \in Int /\ 0 <= total /\ total < SizeMod
        /\ remaining \in Int /\ 0 <= remaining /\ remaining < SizeMod
        /\ total' \in Int /\ 0 <= total' /\ total' < SizeMod
        /\ remaining' \in Int /\ 0 <= remaining' /\ remaining' < SizeMod
        /\ out \in Nat
    BY <1>3, SizeFacts DEF TypeOK
  <2>1. CASE Parse
    BY <1>3, <2>0, <2>1 DEF Parse, WritesToGo, LoopInv
  <2>2. CASE Write
    <3>1. Len1 > 0 /\ Len1 \in Nat /\ Len1 <= remaining - total
      BY <1>2, <1>3, <2>2, Len1Bounds DEF Write, Servable, TypeOK, LoopInv, More
    <3>2. ToSize(total + Len1) = total + Len1
      <4>1. total + Len1 \in Int /\ 0 <= total + Len1 /\ total + Len1 < SizeMod
        BY <2>0, <3>1
      <4> QED
        BY <4>1, ToSizeId
    <3> QED
      BY <2>0, <2>2, <3>1, <3>2 DEF Write, WritesToGo
  <2>3. CASE RwriteFails
    <3>1. pc = "loop" /\ pc' = "loop" /\ aborted' /\ total < remaining
          /\ remaining' = remaining /\ total' = ToSize(total - 1)
      BY <2>3 DEF RwriteFails, More
    <3>2. CASE total = 0
      <4>1. total' = SizeMod - 1
        BY <3>1, <3>2, ToSizeNegative, WidthAssumption
      <4>2. WritesToGo' = 1
        BY <2>0, <3>1, <4>1 DEF WritesToGo, More
      <4>3. WritesToGo \in Int /\ WritesToGo >= 2
        BY <2>0, <3>1 DEF WritesToGo, More
      <4> QED
        BY <4>2, <4>3
    <3>3. CASE total # 0
      <4>1. total' = total - 1
        <5>1. total - 1 \in Int /\ 0 <= total - 1 /\ total - 1 < SizeMod
          BY <2>0, <3>3
        <5> QED
          BY <3>1, <5>1, ToSizeId
      <4>2. WritesToGo' = total + 1
        BY <2>0, <3>1, <4>1 DEF WritesToGo, More
      <4>3. WritesToGo \in Int /\ WritesToGo >= total + 2
        BY <2>0, <3>1 DEF WritesToGo, More
      <4> QED
        BY <2>0, <4>2, <4>3
    <3> QED
      BY <3>2, <3>3
  <2>4. CASE PassFails
    BY <2>0, <2>4 DEF PassFails, WritesToGo, More
  <2>5. CASE Leave
    <3>1. WritesToGo' = 0
      BY <2>5 DEF Leave, WritesToGo
    <3>2. WritesToGo \in Int /\ WritesToGo >= 1
      BY <1>3, <2>0, <2>5 DEF Leave, WritesToGo, LoopInv, More
    <3> QED
      BY <3>1, <3>2
  <2>6. CASE NegativeWrite
    BY <2>0, <2>6 DEF NegativeWrite, WritesToGo, More
  <2> QED
    BY <1>3, <2>1, <2>2, <2>3, <2>4, <2>5, <2>6 DEF Next
<1> QED
  BY <1>1, <1>2, <1>3, LoopInvariant, PTL DEF Spec

-----------------------------------------------------------------------------
(* RandomChunk. *)

\* The widths as its counter needs them.
LEMMA ChunkAssumption ==
  /\ MaxInt \in Nat /\ SizeMod \in Nat
  /\ SizeMod >= 2 * (MaxInt + 1)
  /\ MaxSegment \in 1..(SizeMod - 1) /\ OneWeight \in Nat \ {0}
BY MaxIntFacts, WidthAssumption, RandomChunkAssumption

\* A conversion to size_t is the number itself, or one turn up or down.
LEMMA ToSizeRange ==
  /\ \A x \in Int : ToSize(x) \in Size
  /\ \A x \in Size : ToSize(x) = x
  /\ \A x \in Int : 0 - SizeMod <= x /\ x < 0 => ToSize(x) = x + SizeMod
<1>1. SizeMod \in Nat \ {0}
  BY ChunkAssumption
<1>2. \A x \in Int : x % SizeMod \in 0..(SizeMod - 1)
  BY <1>1
<1>3. \A x \in 0..(SizeMod - 1) : x % SizeMod = x
  BY <1>1
<1>4. \A x \in Int : 0 - SizeMod <= x /\ x < 0 => x % SizeMod = x + SizeMod
  BY <1>1
<1> QED BY <1>2, <1>3, <1>4 DEF ToSize, Size

\* The counter: it follows the rounds until it wraps, and then it is one turn
\* of an int behind them.
LEMMA RoundCounts ==
  ASSUME RoundsInv, Round
  PROVE  /\ i' \in Int /\ things' \in Nat
         /\ i' >= MinInt
         /\ i' >= 0 => i' = things' /\ things' <= count'
         /\ i' < 0 => things' = i' + 2 * (MaxInt + 1) /\ things' <= count'
<1>1. /\ i \in Int /\ things \in Nat /\ count \in Nat /\ MaxInt \in Nat /\ SizeMod \in Nat
      /\ SizeMod >= 2 * (MaxInt + 1) /\ count <= SizeMod - 1
      /\ i >= MinInt /\ MinInt = 0 - (MaxInt + 1)
      /\ i >= 0 => i = things /\ things <= count
      /\ i < 0 => things = i + 2 * (MaxInt + 1) /\ things <= count
  BY ChunkAssumption DEF RoundsInv, ChunkTypeOK, Size, MinInt
<1>2. /\ things' = things + 1 /\ count' = count
      /\ i' = i + 1 \/ (i = MaxInt /\ i' = MinInt)
  BY DEF Round, Increment
<1>3. CASE i >= 0
  <2>1. i < count
    <3>1. i \in Size
      BY <1>1, <1>3 DEF Size
    <3> QED BY <3>1, ToSizeRange DEF Round, MoreThings
  <2> QED BY <1>1, <1>2, <1>3, <2>1
<1>4. CASE i < 0
  <2>1. i + SizeMod < count
    <3>1. ToSize(i) = i + SizeMod
      BY <1>1, <1>4, ToSizeRange
    <3> QED BY <3>1 DEF Round, MoreThings
  <2> QED BY <1>1, <1>2, <1>4, <2>1
<1> QED BY <1>1, <1>3, <1>4

\* A round writes and counts the same, or the client is gone.
LEMMA ThingCounts ==
  ASSUME RoundsInv, Thing
  PROVE  /\ Round
         /\ total' \in Size /\ aborted' \in BOOLEAN /\ out' \in Nat
         /\ ~aborted' /\ out' < SizeMod => total' = out'
<1>0. /\ total \in Size /\ total \in Int /\ out \in Nat /\ aborted \in BOOLEAN
      /\ MaxSegment \in Nat /\ SizeMod \in Nat
      /\ ~aborted /\ out < SizeMod => total = out
  BY ChunkAssumption DEF RoundsInv, ChunkTypeOK, Size
<1>1. ASSUME NEW k \in Nat, Takes(k), total' = ToSize(total + k)
      PROVE  /\ total' \in Size /\ aborted' \in BOOLEAN /\ out' \in Nat
             /\ ~aborted' /\ out' < SizeMod => total' = out'
  <2>1. out' = out + k /\ aborted' = aborted
    BY <1>1 DEF Takes
  <2>2. total' \in Size
    BY <1>0, <1>1, ToSizeRange
  <2>3. ASSUME ~aborted, out + k < SizeMod PROVE total' = out + k
    <3>1. total = out /\ out + k \in Size
      BY <1>0, <2>3 DEF Size
    <3> QED BY <1>1, <3>1, ToSizeRange
  <2> QED BY <1>0, <2>1, <2>2, <2>3
<1>2. ASSUME NEW x \in Int, Fails, total' = ToSize(x)
      PROVE  /\ total' \in Size /\ aborted' \in BOOLEAN /\ out' \in Nat
             /\ ~aborted' /\ out' < SizeMod => total' = out'
  BY <1>0, <1>2, ToSizeRange DEF Fails
<1>3. PICK len \in 0..(MaxSegment + OneWeight - 1) :
        PutOne \/ PutNothing \/ PutSegment(len)
  BY DEF Thing
<1>4. len \in Nat
  BY <1>3, ChunkAssumption
<1>5. CASE PutOne
  <2>1. Round /\ (Takes(1) \/ Fails) /\ total' = ToSize(total + 1)
    BY <1>5 DEF PutOne
  <2>2. 1 \in Nat /\ total + 1 \in Int
    BY <1>0
  <2> QED BY <1>1, <1>2, <2>1, <2>2
<1>6. CASE PutNothing
  BY <1>0, <1>6 DEF PutNothing
<1>7. CASE PutSegment(len)
  <2>1. total - 1 \in Int
    BY <1>0
  <2> QED BY <1>1, <1>2, <1>4, <1>7, <2>1 DEF PutSegment
<1> QED BY <1>3, <1>5, <1>6, <1>7

\* The inductive invariant.
THEOREM RoundsInvariant == ChunkSpec => []RoundsInv
<1>1. ChunkInit => RoundsInv
  <2> SUFFICES ASSUME ChunkInit PROVE RoundsInv
    OBVIOUS
  <2>1. 0 \in Size
    BY ChunkAssumption DEF Size
  <2>2. ChunkTypeOK
    <3>1. aborted \in BOOLEAN
      BY DEF ChunkInit
    <3>2. i \in Int /\ out \in Nat /\ things \in Nat
      BY DEF ChunkInit
    <3> QED BY <2>1, <3>1, <3>2 DEF ChunkInit, ChunkTypeOK
  <2>3. AnnouncedTotal /\ CountOfThings
    BY DEF ChunkInit, AnnouncedTotal, CountOfThings
  <2>4. ~aborted /\ pc = "start" /\ answer = "none"
    BY DEF ChunkInit
  <2>5. i = 0 /\ things = 0 /\ total = 0 /\ out = 0 /\ count = 0
    BY DEF ChunkInit
  <2>6. i >= MinInt
    BY <2>5, ChunkAssumption DEF MinInt
  <2>7. ~(i < 0) /\ things <= count
    BY <2>5
  <2> QED BY <2>2, <2>3, <2>4, <2>5, <2>6, <2>7 DEF RoundsInv
<1>2. RoundsInv /\ [ChunkNext]_chunkVars => RoundsInv'
  <2> SUFFICES ASSUME RoundsInv, [ChunkNext]_chunkVars PROVE RoundsInv'
    OBVIOUS
  <2>1. CASE Decline
    BY <2>1 DEF Decline, Return, RoundsInv, ChunkTypeOK, AnnouncedTotal, CountOfThings
  <2>2. CASE HeaderOnly
    BY <2>2 DEF HeaderOnly, Accepts, Return, RoundsInv, ChunkTypeOK, AnnouncedTotal, CountOfThings
  <2>3. CASE Usage
    BY <2>3 DEF Usage, Accepts, Return, RoundsInv, ChunkTypeOK, AnnouncedTotal, CountOfThings
  <2>4. ASSUME NEW c \in Size, Start(c) PROVE RoundsInv'
    BY <2>4, ChunkAssumption
    DEF Start, Accepts, RoundsInv, ChunkTypeOK, AnnouncedTotal, CountOfThings, Size
  <2>5. CASE Thing
    <3>1. /\ Round
          /\ total' \in Size /\ aborted' \in BOOLEAN /\ out' \in Nat
          /\ ~aborted' /\ out' < SizeMod => total' = out'
      BY <2>5, ThingCounts
    <3>2. /\ i' \in Int /\ things' \in Nat
          /\ i' >= MinInt
          /\ i' >= 0 => i' = things' /\ things' <= count'
          /\ i' < 0 => things' = i' + 2 * (MaxInt + 1) /\ things' <= count'
      BY <3>1, RoundCounts
    <3>3. /\ pc' = "loop" /\ answer' = "none" /\ count' = count
          /\ UNCHANGED <<request, result, announced>>
      BY <3>1 DEF Round, RoundsInv
    <3>4. ChunkTypeOK'
      BY <3>1, <3>2, <3>3 DEF RoundsInv, ChunkTypeOK
    <3>5. AnnouncedTotal' /\ CountOfThings'
      BY <3>3 DEF AnnouncedTotal, CountOfThings
    <3>6. count' > 0 /\ pc' # "start"
      BY <3>3, <3>1 DEF RoundsInv, Round
    <3> QED BY <3>1, <3>2, <3>3, <3>4, <3>5, <3>6 DEF RoundsInv
  <2>6. CASE End
    <3>1. CountOfThings'
      <4>1. things <= count /\ things \in Nat /\ count \in Nat /\ MaxInt \in Nat
            /\ i \in Int /\ i >= MinInt /\ count <= SizeMod - 1
            /\ SizeMod >= 2 * (MaxInt + 1) /\ SizeMod \in Nat
            /\ MinInt = 0 - (MaxInt + 1)
        BY ChunkAssumption DEF RoundsInv, ChunkTypeOK, Size, MinInt
      <4>2. CASE i >= 0
        <5>1. i = things /\ i \in Size
          BY <4>1, <4>2 DEF RoundsInv, Size
        <5>2. ~(i < count)
          BY <2>6, <5>1, ToSizeRange DEF End, MoreThings
        <5> QED BY <2>6, <4>1, <5>1, <5>2 DEF End, CountOfThings
      <4>3. CASE i < 0
        <5>1. things = i + 2 * (MaxInt + 1)
          BY <4>3 DEF RoundsInv
        <5>2. things > MaxInt /\ count >= things
          BY <4>1, <5>1
        <5>3. count = MaxInt + 1 => things = count
          BY <4>1, <5>2
        <5> QED BY <2>6, <4>1, <5>2, <5>3 DEF End, CountOfThings
      <4> QED BY <4>1, <4>2, <4>3
    <3>2. AnnouncedTotal'
      BY <2>6 DEF End, RoundsInv, AnnouncedTotal
    <3>3. ChunkTypeOK'
      BY <2>6 DEF End, Return, RoundsInv, ChunkTypeOK
    <3> QED BY <2>6, <3>1, <3>2, <3>3 DEF End, Return, RoundsInv
  <2>7. CASE UNCHANGED chunkVars
    BY <2>7 DEF chunkVars, RoundsInv, ChunkTypeOK, AnnouncedTotal, CountOfThings
  <2> QED BY <2>1, <2>2, <2>3, <2>4, <2>5, <2>6, <2>7 DEF ChunkNext
<1> QED BY <1>1, <1>2, PTL DEF ChunkSpec

\* The announced total is the number of bytes before it, for every draw.
THEOREM AnnouncedTotalHolds == ChunkSpec => []AnnouncedTotal
<1>1. RoundsInv => AnnouncedTotal
  BY DEF RoundsInv
<1> QED BY <1>1, RoundsInvariant, PTL

\* The loop does what was asked, as far as an int can count.
THEOREM CountOfThingsHolds == ChunkSpec => []CountOfThings
<1>1. RoundsInv => CountOfThings
  BY DEF RoundsInv
<1> QED BY <1>1, RoundsInvariant, PTL

\* How many rounds are left at most, and the write behind them.
RoundsToGo ==
  CASE pc = "start" -> SizeMod + 1
    [] pc = "loop" -> 1 + (count - things)
    [] OTHER -> 0

\* Whatever is drawn, wherever the output fails and whether the counter wraps
\* or widens, a round is one of count: the handler returns (ChunkTerminates;
\* line 149).
THEOREM EveryRoundCounts ==
  ChunkSpec => /\ [](RoundsToGo \in 0..(SizeMod + 1))
               /\ [][RoundsToGo' < RoundsToGo]_chunkVars
<1>1. RoundsInv => RoundsToGo \in 0..(SizeMod + 1)
  BY ChunkAssumption DEF RoundsInv, ChunkTypeOK, RoundsToGo, Size
<1>2. ASSUME RoundsInv, RoundsInv', ChunkNext, ~UNCHANGED chunkVars
      PROVE  RoundsToGo' < RoundsToGo
  <2>1. /\ SizeMod \in Nat /\ count \in 0..(SizeMod - 1) /\ things \in Nat
        /\ things <= count
    BY <1>2, ChunkAssumption DEF RoundsInv, ChunkTypeOK, Size
  <2>2. CASE Decline \/ HeaderOnly \/ Usage
    BY <2>1, <2>2 DEF Decline, HeaderOnly, Usage, Accepts, Return, RoundsToGo
  <2>3. ASSUME NEW c \in Size, Start(c) PROVE RoundsToGo' < RoundsToGo
    <3>1. things = 0
      BY <1>2, <2>3 DEF RoundsInv, Start, Accepts
    <3> QED
      BY <2>1, <2>3, <3>1 DEF Start, Accepts, RoundsToGo, Size
  <2>4. CASE Thing
    <3>1. Round
      BY <1>2, <2>4, ThingCounts
    <3> QED
      BY <2>1, <3>1 DEF Round, RoundsToGo
  <2>5. CASE End
    BY <2>1, <2>5 DEF End, Return, RoundsToGo
  <2> QED
    BY <1>2, <2>2, <2>3, <2>4, <2>5 DEF ChunkNext
<1> QED
  BY <1>1, <1>2, RoundsInvariant, PTL DEF ChunkSpec
=============================================================================
