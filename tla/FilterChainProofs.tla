--------------------------- MODULE FilterChainProofs ---------------------------
(* The filter alone, above any next filter (Spec), and the chain of a        *)
(* request (ChainSpec), for every Byte, Supply and MaxBuckets.  What a step  *)
(* of the filter does to the body is stated once, for any brigade the next   *)
(* filter may hand over (FilterStep), and used for both.                     *)
EXTENDS FilterChain, BucketLemmas

\* A brigade that has been through two instances of the filter is what it was
\* before: reverse_string is its own inverse, and nothing else is changed
\* (lines 125-134; FilterChain).
THEOREM FilteredAllTwice ==
  ASSUME NEW bs \in Seq(Bucket)
  PROVE  FilteredAll(FilteredAll(bs)) = bs
<1> DEFINE again == FilteredAll(FilteredAll(bs))
<1>1. /\ FilteredAll(bs) \in Seq(Bucket) /\ Len(FilteredAll(bs)) = Len(bs)
      /\ again \in Seq(Bucket) /\ Len(again) = Len(bs)
  <2>1. FilteredAll(bs) \in Seq(Bucket) /\ Len(FilteredAll(bs)) = Len(bs)
    BY FilteredAllType
  <2> QED
    BY <2>1, FilteredAllType
<1>2. ASSUME NEW b \in Bucket PROVE Filtered(Filtered(b)) = b
  <2>1. CASE b.type = "data"
    <3> DEFINE s == b.bytes
    <3>1. /\ s \in Seq(Byte) /\ b = DataBucket(s)
          /\ Reverse(s) \in Seq(Byte) /\ Len(Reverse(s)) = Len(s)
          /\ Reverse(Reverse(s)) \in Seq(Byte) /\ Len(Reverse(Reverse(s))) = Len(s)
      <4>1. s \in Seq(Byte) /\ b = DataBucket(s)
        BY <2>1, BucketCases
      <4>2. Reverse(s) \in Seq(Byte) /\ Len(Reverse(s)) = Len(s)
        BY <4>1, ReverseFacts
      <4> QED
        BY <4>1, <4>2, ReverseFacts
    <3>2. ASSUME NEW i \in 1..Len(s) PROVE Reverse(Reverse(s))[i] = s[i]
      <4>1. /\ Len(s) - i + 1 \in 1..Len(s)
            /\ Len(s) - (Len(s) - i + 1) + 1 = i
        BY <3>1
      <4>2. Reverse(Reverse(s))[i] = Reverse(s)[Len(s) - i + 1]
        BY <3>1, ReverseFacts
      <4>3. Reverse(s)[Len(s) - i + 1] = s[i]
        BY <3>1, <4>1, ReverseFacts, SMTT(60)
      <4> QED
        BY <4>2, <4>3
    <3>3. Reverse(Reverse(s)) = s
      BY <3>1, <3>2, SeqEqual
    <3>4. Filtered(Filtered(b)) = DataBucket(Reverse(Reverse(s)))
      BY <2>1 DEF Filtered, DataBucket
    <3> QED
      BY <3>1, <3>3, <3>4
  <2> QED
    BY <2>1 DEF Filtered
<1>3. ASSUME NEW i \in 1..Len(bs) PROVE again[i] = bs[i]
  <2>1. again[i] = Filtered(Filtered(bs[i]))
    BY <1>1 DEF FilteredAll
  <2> QED
    BY <1>2, <2>1
<1> HIDE DEF again
<1>4. again = bs
  BY <1>1, <1>3, SeqEqual
<1> QED
  BY <1>4 DEF again

-----------------------------------------------------------------------------

(* One step of the filter. *)

AnyFetch == \E s \in Seq(Bucket), ok \in BOOLEAN : Fetch(s, ok)

FilterStep ==
  \/ Call \/ AnyFetch \/ Move \/ MoveEos \/ ReadError \/ Exhausted
  \/ Take \/ GiveUp \/ UNCHANGED vars

\* The steps of InputBodyFilter are among them.
LEMMA NextIsFilterStep == [Next]_vars => FilterStep
<1>1. FetchAny => AnyFetch
  BY SupplyAssumption DEF FetchAny, AnyFetch
<1> QED
  BY <1>1 DEF FilterStep, Next, Handler, Finished

\* A step keeps the types.
LEMMA TypeStep == TypeOK /\ FilterStep => TypeOK'
<1> SUFFICES ASSUME TypeOK, FilterStep PROVE TypeOK'
  OBVIOUS
<1> USE DEF TypeOK
<1>1. CASE Call
  BY <1>1 DEF Call
<1>2. CASE AnyFetch
  BY <1>2 DEF AnyFetch, Fetch
<1>3. CASE Move
  BY <1>3, FilteredType, HeadTailProperties DEF Move, Pass
<1>4. CASE MoveEos
  BY <1>4, HeadTailProperties DEF MoveEos
<1>5. CASE ReadError
  BY <1>5 DEF ReadError
<1>6. CASE Exhausted
  BY <1>6 DEF Exhausted
<1>7. CASE Take
  BY <1>7 DEF Take
<1>8. CASE GiveUp
  BY <1>8 DEF GiveUp
<1>9. CASE UNCHANGED vars
  BY <1>9 DEF vars
<1> QED
  BY <1>1, <1>2, <1>3, <1>4, <1>5, <1>6, <1>7, <1>8, <1>9 DEF FilterStep

\* Conservation, of any source, reader, reader's brigade and context.
Kept(s, g, b, c) == FilteredAll(s) = g \o b \o FilteredAll(c)

\* Passing the first bucket of a brigade on, filtered, keeps the body whole.
LEMMA MoveKeeps ==
  ASSUME NEW s \in Seq(Bucket), NEW g \in Seq(Bucket), NEW b \in Seq(Bucket),
         NEW c \in Seq(Bucket), c # <<>>, Kept(s, g, b, c)
  PROVE  Kept(s, g, Append(b, Filtered(Head(c))), Tail(c))
<1> DEFINE y == Filtered(Head(c))
           rest == FilteredAll(Tail(c))
<1>1. y \in Bucket /\ rest \in Seq(Bucket)
  BY HeadTailProperties, FilteredType, FilteredAllType
<1>2. FilteredAll(c) = <<y>> \o rest
  BY FilteredAllHead
<1> HIDE DEF y, rest
<1>3. <<y>> \in Seq(Bucket) /\ Append(b, y) = b \o <<y>>
  BY <1>1, AppendFacts
<1>4. (g \o b) \o (<<y>> \o rest) = (g \o (b \o <<y>>)) \o rest
  BY <1>1, <1>3, Regroup, SMTT(60)
<1>5. FilteredAll(s) = (g \o Append(b, y)) \o rest
  BY <1>2, <1>3, <1>4, Zenon DEF Kept
<1> QED
  BY <1>5 DEF Kept, y, rest

\* A brigade that comes from the next filter goes behind everything.
LEMMA FetchKeeps ==
  ASSUME NEW s \in Seq(Bucket), NEW g \in Seq(Bucket), NEW b \in Seq(Bucket),
         NEW c \in Seq(Bucket), NEW x \in Seq(Bucket), Kept(s, g, b, c)
  PROVE  Kept(s \o x, g, b, c \o x)
<1> DEFINE d == g \o b
           fc == FilteredAll(c)
           fx == FilteredAll(x)
<1>1. FilteredAll(s \o x) = FilteredAll(s) \o fx /\ FilteredAll(c \o x) = fc \o fx
  BY FilteredAllConcat
<1>2. fc \in Seq(Bucket) /\ fx \in Seq(Bucket) /\ d \in Seq(Bucket)
  BY FilteredAllType
<1>3. FilteredAll(s) = d \o fc
  BY DEF Kept
<1> HIDE DEF d, fc, fx
<1>4. (d \o fc) \o fx = d \o (fc \o fx)
  BY <1>2, Associative, SMTT(60)
<1>5. FilteredAll(s \o x) = d \o FilteredAll(c \o x)
  BY <1>1, <1>3, <1>4, Zenon
<1> QED
  BY <1>5 DEF Kept, d

\* What waits in the reader's brigade may as well be with the reader.
LEMMA TakeKeeps ==
  ASSUME NEW s \in Seq(Bucket), NEW g \in Seq(Bucket), NEW b \in Seq(Bucket),
         NEW c \in Seq(Bucket), Kept(s, g, b, c)
  PROVE  Kept(s, g \o b, <<>>, c)
<1>1. (g \o b) \o <<>> = g \o b
  OBVIOUS
<1> QED
  BY <1>1, Zenon DEF Kept

\* A step conserves the body.
LEMMA ConservationStep == TypeOK /\ Conservation /\ FilterStep => Conservation'
<1> SUFFICES ASSUME TypeOK, Conservation, FilterStep PROVE Conservation'
  OBVIOUS
<1>1. /\ src \in Seq(Bucket) /\ ctx \in Seq(Bucket)
      /\ got \in Seq(Bucket) /\ bb \in Seq(Bucket)
      /\ Kept(src, got, bb, ctx)
  BY DEF TypeOK, Conservation, Kept
<1>2. CASE AnyFetch
  <2>1. PICK s \in Seq(Bucket) : src' = src \o s /\ ctx' = ctx \o s
                                 /\ bb' = bb /\ got' = got
    BY <1>2 DEF AnyFetch, Fetch
  <2>2. Kept(src', got', bb', ctx')
    BY <1>1, <2>1, FetchKeeps, Zenon
  <2> QED
    BY <2>2 DEF Conservation, Kept
<1>3. CASE ctx # <<>> /\ bb' = Append(bb, Filtered(Head(ctx)))
           /\ ctx' = Tail(ctx) /\ UNCHANGED <<src, got>>
  <2>1. Kept(src', got', bb', ctx')
    BY <1>1, <1>3, MoveKeeps, Zenon
  <2> QED
    BY <2>1 DEF Conservation, Kept
<1>4. CASE Move
  BY <1>3, <1>4 DEF Move, Pass
<1>5. CASE MoveEos
  BY <1>3, <1>5 DEF MoveEos, Filtered
<1>6. CASE Take
  <2>1. Kept(src', got', bb', ctx')
    BY <1>1, <1>6, TakeKeeps, Zenon DEF Take
  <2> QED
    BY <2>1 DEF Conservation, Kept
<1>7. CASE UNCHANGED <<src, ctx, bb, got>>
  BY <1>7 DEF Conservation
<1> QED
  BY <1>2, <1>4, <1>5, <1>6, <1>7
     DEF FilterStep, Call, ReadError, Exhausted, GiveUp, vars

\* What Conservation says of the next bucket to deliver.
LEMMA NextBucket ==
  ASSUME TypeOK, Conservation, ctx # <<>>
  PROVE  /\ Len(got \o bb) < Len(src)
         /\ Filtered(src[Len(got \o bb) + 1]) = Filtered(Head(ctx))
<1> DEFINE d == got \o bb
           rest == FilteredAll(ctx)
<1>1. /\ d \in Seq(Bucket) /\ rest \in Seq(Bucket)
      /\ Len(rest) = Len(ctx) /\ Len(ctx) > 0
      /\ rest[1] = Filtered(Head(ctx))
  <2>1. ctx \in Seq(Bucket) /\ Len(ctx) > 0 /\ Head(ctx) = ctx[1]
    BY DEF TypeOK
  <2>2. rest \in Seq(Bucket) /\ Len(rest) = Len(ctx)
    BY <2>1, FilteredAllType
  <2>3. rest[1] = Filtered(ctx[1])
    BY <2>1 DEF FilteredAll
  <2> QED
    BY <2>1, <2>2, <2>3 DEF TypeOK
<1>2. /\ Len(src) \in Nat /\ Len(FilteredAll(src)) = Len(src)
      /\ \A i \in 1..Len(src) : FilteredAll(src)[i] = Filtered(src[i])
  BY FilteredAllType DEF FilteredAll, TypeOK
<1>3. FilteredAll(src) = d \o rest
  BY DEF Conservation
<1> HIDE DEF d, rest
<1>4. /\ Len(d \o rest) = Len(d) + Len(rest)
      /\ (d \o rest)[Len(d) + 1] = rest[1]
      /\ Len(d) \in Nat
  BY <1>1
<1>5. Len(d) + 1 \in 1..Len(src)
  BY <1>1, <1>2, <1>3, <1>4
<1>6. Filtered(src[Len(d) + 1]) = Filtered(Head(ctx))
  BY <1>1, <1>2, <1>3, <1>4, <1>5
<1>7. Len(d) < Len(src)
  BY <1>2, <1>4, <1>5
<1> QED
  BY <1>6, <1>7 DEF d

\* BodyStream's transformation of a bucket is the filter's.
LEMMA StreamFiltered == \A b : Stream!Filtered(b) = Filtered(b)
BY DEF Stream!Filtered, Filtered, Stream!DataBucket, DataBucket,
       Stream!Reverse, Reverse

\* A step of the filter is a step of BodyStream or leaves its variables alone.
LEMMA StreamStep ==
  TypeOK /\ Conservation /\ FilterStep => [Stream!Next]_(Stream!bsvars)
<1> SUFFICES ASSUME TypeOK, Conservation, FilterStep
             PROVE  [Stream!Next]_(Stream!bsvars)
  OBVIOUS
<1>1. CASE AnyFetch
  <2>1. PICK s \in Seq(Bucket) : src' = src \o s /\ bb' = bb /\ got' = got
    BY <1>1 DEF AnyFetch, Fetch
  <2>2. s \in Seq(Bucket) /\ src \in Seq(Bucket)
    BY DEF TypeOK
  <2>3. IsPrefix(src, src \o s)
    <3>1. Len(src) <= Len(src \o s)
      BY <2>2
    <3>2. SubSeq(src, 1, Len(src)) = SubSeq(src \o s, 1, Len(src))
      BY <2>2
    <3> QED
      BY <3>1, <3>2 DEF IsPrefix
  <2> QED
    BY <2>1, <2>3
       DEF Stream!Next, Stream!Supplied, Stream!IsPrefix, IsPrefix
<1>2. ASSUME ctx # <<>>, UNCHANGED <<src, got>>,
             bb' = Append(bb, Filtered(Head(ctx)))
      PROVE  Stream!Deliver
  <2>1. got' \o bb' = Append(got \o bb, Filtered(Head(ctx)))
    <3>1. got \in Seq(Bucket) /\ bb \in Seq(Bucket)
          /\ Filtered(Head(ctx)) \in Bucket
      BY <1>2, HeadTailProperties, FilteredType DEF TypeOK
    <3>2. got \o Append(bb, Filtered(Head(ctx)))
            = Append(got \o bb, Filtered(Head(ctx)))
      BY <3>1, AppendRight
    <3> QED
      BY <1>2, <3>1, <3>2
  <2> QED
    BY <1>2, <2>1, NextBucket, StreamFiltered DEF Stream!Deliver
<1>3. CASE Move
  BY <1>2, <1>3 DEF Move, Pass, Stream!Next
<1>4. CASE MoveEos
  <2>1. Filtered(Head(ctx)) = Head(ctx)
    BY <1>4 DEF MoveEos, Filtered
  <2> QED
    BY <1>2, <1>4, <2>1 DEF MoveEos, Stream!Next
<1>5. CASE Take
  <2>1. (got \o bb) \o <<>> = got \o bb
    BY DEF TypeOK
  <2> QED
    BY <1>5, <2>1 DEF Take, Stream!bsvars
<1>6. CASE UNCHANGED <<src, ctx, bb, got>>
  BY <1>6 DEF Stream!bsvars
<1> QED
  BY <1>1, <1>3, <1>4, <1>5, <1>6
     DEF FilterStep, Call, ReadError, Exhausted, GiveUp, vars

-----------------------------------------------------------------------------
(* The filter above any next filter. *)

\* The types hold in every reachable state.
THEOREM TypeCorrect == Spec => []TypeOK
<1>1. Init => TypeOK
  BY DEF Init, TypeOK
<1>2. TypeOK /\ [Next]_vars => TypeOK'
  BY TypeStep, NextIsFilterStep
<1> QED
  BY <1>1, <1>2, PTL DEF Spec

\* Conservation (no bucket lost, duplicated or reordered by errors and
\* retries) holds in every reachable state.
THEOREM ConservationHolds == Spec => []Conservation
<1>1. Init => Conservation
  BY DEF Init, Conservation, FilteredAll
<1>2. TypeOK /\ Conservation /\ [Next]_vars => Conservation'
  BY ConservationStep, NextIsFilterStep
<1> QED
  BY <1>1, <1>2, TypeCorrect, PTL DEF Spec

\* Each step of the handler or its caller is a step of BodyStream or leaves
\* its variables alone (ImplementsBodyStream).
THEOREM Refinement == Spec => ImplementsBodyStream
<1>1. Init => Stream!Init
  BY DEF Init, Stream!Init
<1>2. TypeOK /\ Conservation /\ [Next]_vars => [Stream!Next]_(Stream!bsvars)
  BY StreamStep, NextIsFilterStep
<1> QED
  BY <1>1, <1>2, TypeCorrect, ConservationHolds, PTL
     DEF Spec, ImplementsBodyStream, Stream!Spec

-----------------------------------------------------------------------------
(* reverse_string, by itself and in the chain. *)

\* The swap of two bytes keeps the loop invariant (lines 72-76).
LEMMA SwapStep == Reversal!LoopInv /\ Reversal!Swap => Reversal!LoopInv'
<1> SUFFICES ASSUME Reversal!LoopInv, Reversal!Swap PROVE Reversal!LoopInv'
  OBVIOUS
<1> DEFINE n == Len(given)
<1>1. /\ given' = given /\ n \in Nat
      /\ up \in 1..n /\ down \in 1..n /\ up < down
      /\ up' = up + 1 /\ down' = down - 1
      /\ up + down = n + 1
  BY DEF Reversal!LoopInv, Reversal!TypeOK, Reversal!Swap
<1>2. /\ string' \in Seq(Byte)
      /\ Len(string') = n
      /\ \A i \in 1..n : string'[i] = IF i = down THEN string[up]
                                      ELSE IF i = up THEN string[down]
                                      ELSE string[i]
  BY <1>1 DEF Reversal!LoopInv, Reversal!TypeOK, Reversal!Swap
<1>3. Reversal!TypeOK'
  BY <1>1, <1>2 DEF Reversal!LoopInv, Reversal!TypeOK
<1>4. /\ string[up] = given[up] /\ string[down] = given[down]
      /\ Reversal!Mirror(up) = down /\ Reversal!Mirror(down) = up
  BY <1>1 DEF Reversal!LoopInv, Reversal!Mirror
<1>5. ASSUME NEW i \in 1..n
      PROVE  string'[i] = IF up' <= i /\ i <= down' THEN given[i]
                          ELSE given[Reversal!Mirror(i)]
  BY <1>1, <1>2, <1>4 DEF Reversal!LoopInv
<1>6. \A i \in 1..n :
         string'[i] = IF up' <= i /\ i <= down' THEN given'[i]
                      ELSE given'[Len(given') + 1 - i]
  BY <1>1, <1>5 DEF Reversal!Mirror
<1>7. /\ Len(string') = Len(given')
      /\ up' + down' = Len(given') + 1
      /\ up' <= down' + 2
  BY <1>1, <1>2
<1> QED
  BY <1>1, <1>3, <1>6, <1>7 DEF Reversal!LoopInv, Reversal!Mirror

\* The invariant holds of a string that no byte of which was swapped yet.
LEMMA FirstRound ==
  ASSUME given \in Seq(Byte), string = given, up = 1, down = Len(given)
  PROVE  Reversal!LoopInv
BY DEF Reversal!LoopInv, Reversal!TypeOK, Reversal!Mirror

\* When the loop ends the string is reversed.
LEMMA LoopEnds == Reversal!LoopInv => Reversal!Reversed
<1> SUFFICES ASSUME Reversal!LoopInv, Reversal!Done
             PROVE  string = Reversal!Reverse(given)
  BY DEF Reversal!Reversed
<1> DEFINE n == Len(given)
<1>1. /\ n \in Nat /\ up \in Nat /\ down \in Nat
      /\ down <= up /\ up + down = n + 1
      /\ string \in Seq(Byte) /\ given \in Seq(Byte) /\ Len(string) = n
  BY DEF Reversal!LoopInv, Reversal!TypeOK, Reversal!Done
<1>2. ASSUME NEW i \in 1..n PROVE string[i] = given[(n - i) + 1]
  <2>1. Reversal!Mirror(i) = (n - i) + 1
    BY <1>1 DEF Reversal!Mirror
  <2>2. (up <= i /\ i <= down) => Reversal!Mirror(i) = i
    BY <1>1 DEF Reversal!Mirror
  <2> QED
    BY <2>1, <2>2 DEF Reversal!LoopInv
<1>3. string = [i \in 1..n |-> string[i]]
  BY <1>1
<1> QED
  BY <1>2, <1>3 DEF Reversal!Reverse

\* The loop invariant holds in every state of the loop (lines 72-76), whatever
\* bytes the function is called with.
THEOREM LoopInvariant == Reversal!Spec => []Reversal!LoopInv
<1>1. Reversal!Init => Reversal!LoopInv
  BY FirstRound DEF Reversal!Init, Reversal!InitWith, Reversal!Inputs
<1>2. Reversal!LoopInv /\ [Reversal!Next]_(Reversal!vars) => Reversal!LoopInv'
  <2>1. Reversal!LoopInv /\ UNCHANGED Reversal!vars => Reversal!LoopInv'
    BY DEF Reversal!LoopInv, Reversal!TypeOK, Reversal!Mirror, Reversal!vars
  <2> QED
    BY <2>1, SwapStep DEF Reversal!Next, Reversal!Return
<1> QED
  BY <1>1, <1>2, PTL DEF Reversal!Spec

\* When the loop is left the string is reversed, for every length.
THEOREM ReverseStringCorrect == Reversal!Spec => []Reversal!Reversed
BY LoopInvariant, LoopEnds, PTL

-----------------------------------------------------------------------------
(* The chain: what a step of either filter is. *)

\* The bucket put in the place of the first one is that bucket, filtered: the
\* loop has run on its bytes, or it has none.
LEMMA ReplacedIsFiltered ==
  ASSUME NEW c \in Seq(Bucket), c # <<>>, Reversal!LoopInv,
         Ready(c), reversing => Works(c)
  PROVE  Replaced(c) = Filtered(Head(c))
<1>1. Head(c) \in Bucket
  BY HeadTailProperties
<1>2. CASE Head(c).bytes = <<>>
  <2>1. Replaced(c) = Head(c)
    BY <1>2 DEF Replaced, Bytes
  <2>2. CASE Head(c).type = "data"
    <3>1. Reverse(<<>>) = <<>>
      BY DEF Reverse
    <3> QED
      BY <1>1, <1>2, <2>1, <2>2, <3>1, BucketCases DEF Filtered
  <2> QED
    BY <2>1, <2>2 DEF Filtered
<1>3. CASE Head(c).bytes # <<>>
  <2>1. Head(c).type = "data" /\ Head(c).bytes \in Seq(Byte)
    BY <1>1, <1>3, BucketCases
  <2>2. Bytes(c) > 0
    BY <1>3, <2>1 DEF Bytes
  <2>3. string = Reversal!Reverse(Head(c).bytes)
    BY <2>2, LoopEnds DEF Ready, Works, Reversal!Reversed
  <2> QED
    BY <2>1, <2>2, <2>3 DEF Replaced, Filtered, Reversal!Reverse, Reverse
<1> QED
  BY <1>2, <1>3

\* While one filter reverses a bucket the other waits.
LEMMA OneReverses ==
  ASSUME ChainInv
  PROVE  /\ pc = "loop" => (reversing => Works(ctx))
         /\ lpc = "loop" => (reversing => Works(low))
BY DEF ChainInv, Nesting, ReversesFirst

\* A step of the lower filter that moves buckets takes more from HTTP_IN or
\* hands its next bucket on, filtered.
LowerFetches(s) ==
  /\ lpc = "fetch" /\ s \in Seq(Bucket)
  /\ lsrc' = lsrc \o s /\ low' = low \o s /\ UNCHANGED handed

LowerMoves ==
  /\ low # <<>> /\ handed' = Append(handed, Filtered(Head(low)))
  /\ low' = Tail(low) /\ UNCHANGED lsrc

LEMMA LowerStepKinds ==
  ASSUME ChainInv, LowerStep
  PROVE  /\ UNCHANGED src
         /\ \/ \E s \in Supply : LowerFetches(s)
            \/ LowerMoves
            \/ UNCHANGED <<lsrc, low, handed>>
<1>1. CASE ReverseFirst(low) /\ lpc = "loop" /\ UNCHANGED <<lowerVars, src>>
  BY <1>1 DEF lowerVars
<1>2. CASE Ready(low) /\ Lower!Pass(Replaced(low)) /\ Moved
  <2>1. Replaced(low) = Filtered(Head(low))
    BY <1>2, OneReverses, ReplacedIsFiltered
       DEF Lower!Pass, ChainInv, ChainTypeOK, ReversesFirst
  <2> QED
    BY <1>2, <2>1 DEF Lower!Pass, LowerMoves
<1>3. CASE Lower!FetchAny
  BY <1>3, SupplyAssumption DEF Lower!FetchAny, Lower!Fetch, LowerFetches
<1>4. CASE Lower!MoveEos
  BY <1>4 DEF Lower!MoveEos, LowerMoves, Filtered
<1>5. CASE Lower!ReadError \/ Lower!Exhausted
  BY <1>5 DEF Lower!ReadError, Lower!Exhausted
<1> QED
  BY <1>1, <1>2, <1>3, <1>4, <1>5 DEF LowerStep

\* A step of the chain is a step of the upper filter, or none.
LEMMA ChainStepIsFilterStep == ChainInv /\ [ChainNext]_chainVars => FilterStep
<1> SUFFICES ASSUME ChainInv, [ChainNext]_chainVars PROVE FilterStep
  OBVIOUS
<1> USE DEF FilterStep
<1>1. CASE Reader
  BY <1>1 DEF Reader
<1>2. CASE HttpIn
  BY <1>2, SupplyAssumption DEF HttpIn, FetchAny, AnyFetch
<1>3. CASE UpperStep
  <2>1. CASE ReverseFirst(ctx) /\ pc = "loop" /\ UNCHANGED vars
    BY <2>1
  <2>2. CASE Ready(ctx) /\ Pass(Replaced(ctx)) /\ Moved
    <3>1. Replaced(ctx) = Filtered(Head(ctx))
      BY <2>2, OneReverses, ReplacedIsFiltered
         DEF Pass, ChainInv, ChainTypeOK, TypeOK, ReversesFirst
    <3> QED
      BY <2>2, <3>1 DEF Move
  <2> QED
    BY <1>3, <2>1, <2>2 DEF UpperStep
<1>4. CASE Back
  BY <1>4 DEF Back, Returned, AnyFetch, ChainInv, ChainTypeOK
<1>5. CASE LowerStep
  BY <1>5, LowerStepKinds DEF LowerStep, vars
<1>6. CASE UNCHANGED vars
  BY <1>6
<1> QED
  BY <1>1, <1>2, <1>3, <1>4, <1>5, <1>6
     DEF ChainNext, ChainHandler, ChainFinished, Swap, vars, chainVars

-----------------------------------------------------------------------------
(* The chain: its invariant. *)

\* An EOS that is last in a brigade is last in what is left of it, and alone
\* where it is first.
LEMMA TailEos ==
  ASSUME NEW c \in Seq(Bucket), c # <<>>, EosLast(c)
  PROVE  EosLast(Tail(c)) /\ (Head(c).type = "eos" => Tail(c) = <<>>)
<1> DEFINE t == Tail(c)
<1>1. /\ Head(c) = c[1] /\ Len(c) \in Nat /\ Len(c) > 0
      /\ t \in Seq(Bucket) /\ Len(t) = Len(c) - 1
      /\ \A i \in 1..Len(t) : t[i] = c[i + 1]
  OBVIOUS
<1> HIDE DEF t
<1>2. ASSUME NEW i \in 1..Len(t), t[i].type = "eos" PROVE i = Len(t)
  <2>1. i + 1 \in 1..Len(c) /\ c[i + 1].type = "eos"
    BY <1>1, <1>2
  <2> QED
    BY <1>1, <2>1 DEF EosLast
<1>3. ASSUME Head(c).type = "eos" PROVE t = <<>>
  <2>1. 1 \in 1..Len(c) /\ c[1].type = "eos"
    BY <1>1, <1>3
  <2>2. Len(t) = 0
    BY <1>1, <2>1 DEF EosLast
  <2> QED
    BY <1>1, <2>2, EmptySeq
<1> QED
  BY <1>2, <1>3 DEF EosLast, t

\* A bucket put behind a brigade without EOS.
LEMMA AppendEos ==
  ASSUME NEW c \in Seq(Bucket), NEW b \in Bucket, ~HasEos(c)
  PROVE  /\ EosLast(Append(c, b))
         /\ b.type # "eos" => ~HasEos(Append(c, b))
BY AppendFacts DEF EosLast, HasEos

\* Nothing in front of a brigade.
LEMMA EmptyConcat == \A s \in Seq(Bucket) : <<>> \o s = s
OBVIOUS

LEMMA NoEos == EosLast(<<>>) /\ ~HasEos(<<>>)
BY DEF EosLast, HasEos

\* The brigades of f->next end with their EOS.
LEMMA SupplyEos == \A s \in Supply : s \in Seq(Bucket) /\ EosLast(s)
BY SupplyAssumption DEF EosLast

LEMMA ChainInvInit == ChainInit => ChainInv
<1> SUFFICES ASSUME ChainInit PROVE ChainInv
  OBVIOUS
<1>1. /\ src = <<>> /\ ctx = <<>> /\ bb = <<>> /\ got = <<>>
      /\ pc = "caller" /\ rv = "none"
      /\ lsrc = <<>> /\ low = <<>> /\ handed = <<>>
      /\ lpc = "caller" /\ lrv = "none" /\ reversing = FALSE
      /\ twice \in BOOLEAN
  BY DEF ChainInit, Init, Lower!Init
<1>4. ChainTypeOK
  <2>1. <<>> \in Seq(Bucket)
    OBVIOUS
  <2> QED
    BY <1>1, <2>1, Zenon DEF ChainTypeOK, TypeOK
<1>5. Nesting /\ LeftOver /\ EosEnds
  BY <1>1, NoEos DEF Nesting, LeftOver, EosEnds
<1>2. Conservation /\ LowerConservation
  BY DEF ChainInit, Init, Lower!Init, Conservation, LowerConservation, FilteredAll
<1>3. ReversesFirst
  <2>1. <<>> \in Seq(Byte) /\ given = <<>> /\ string = given /\ up = 1
        /\ down = Len(given) /\ ~reversing
    BY DEF ChainInit, Reversal!InitWith
  <2> QED
    BY <2>1, FirstRound DEF ReversesFirst
<1> QED
  BY <1>2, <1>3, <1>4, <1>5 DEF ChainInv

\* The types.
LEMMA ChainTypeStep == ChainInv /\ [ChainNext]_chainVars => ChainTypeOK'
<1> SUFFICES ASSUME ChainInv, [ChainNext]_chainVars PROVE ChainTypeOK'
  OBVIOUS
<1>1. TypeOK'
  BY ChainStepIsFilterStep, TypeStep DEF ChainInv, ChainTypeOK
<1> USE DEF ChainInv, ChainTypeOK
<1>2. CASE Reader
  BY <1>1, <1>2 DEF Reader, Lower!Call, lowerVars, stringVars
<1>3. CASE Swap
  BY <1>1, <1>3 DEF Swap, lowerVars
<1>4. CASE HttpIn
  BY <1>1, <1>4 DEF HttpIn, lowerVars, stringVars
<1>5. CASE UpperStep
  BY <1>1, <1>5 DEF UpperStep, ReverseFirst, Moved, lowerVars, stringVars
<1>6. CASE LowerStep
  <2>1. lsrc' \in Seq(Bucket) /\ low' \in Seq(Bucket) /\ handed' \in Seq(Bucket)
    <3>1. CASE LowerMoves
      BY <3>1, FilteredType, HeadTailProperties DEF LowerMoves
    <3>2. ASSUME NEW s \in Supply, LowerFetches(s)
          PROVE  lsrc' \in Seq(Bucket) /\ low' \in Seq(Bucket) /\ handed' \in Seq(Bucket)
      BY <3>2 DEF LowerFetches
    <3> QED
      BY <1>6, <3>1, <3>2, LowerStepKinds
  <2>2. lpc' \in {"caller", "fetch", "loop"} /\ lrv' \in {"none", "OK", "error", "gaveup"}
    BY <1>6 DEF LowerStep, lowerVars, Lower!Pass, Lower!FetchAny, Lower!Fetch,
                Lower!MoveEos, Lower!ReadError, Lower!Exhausted
  <2>3. twice' \in BOOLEAN /\ reversing' \in BOOLEAN
    BY <1>6 DEF LowerStep, ReverseFirst, Moved, stringVars
  <2> QED
    BY <1>1, <2>1, <2>2, <2>3
<1>7. CASE Back
  BY <1>1, <1>7 DEF Back, Returned, stringVars
<1>8. CASE UNCHANGED chainVars
  BY <1>1, <1>8 DEF chainVars, lowerVars, stringVars
<1> QED
  BY <1>2, <1>3, <1>4, <1>5, <1>6, <1>7, <1>8
     DEF ChainNext, ChainHandler, ChainFinished

\* Where the lower filter can be.
LEMMA NestingStep == ChainInv /\ [ChainNext]_chainVars => Nesting'
<1> SUFFICES ASSUME ChainInv, [ChainNext]_chainVars PROVE Nesting'
  OBVIOUS
<1> USE DEF ChainInv, Nesting
<1>1. CASE Reader
  BY <1>1 DEF Reader, Call, Take, GiveUp, Lower!Call, lowerVars
<1>2. CASE Swap
  BY <1>2 DEF Swap, vars, lowerVars
<1>3. CASE HttpIn
  BY <1>3 DEF HttpIn, FetchAny, Fetch, lowerVars
<1>4. CASE UpperStep
  BY <1>4 DEF UpperStep, Pass, MoveEos, ReadError, Exhausted, vars, lowerVars
<1>5. CASE LowerStep
  <2>1. lpc # "caller" \/ UNCHANGED <<lowerVars, src>>
    BY <1>5 DEF LowerStep, Lower!Pass, Lower!FetchAny, Lower!Fetch,
                Lower!MoveEos, Lower!ReadError, Lower!Exhausted
  <2> QED
    BY <1>5, <2>1 DEF LowerStep, lowerVars
<1>6. CASE Back
  BY <1>6 DEF Back, Returned, Fetch
<1>7. CASE UNCHANGED chainVars
  BY <1>7 DEF chainVars, vars, lowerVars
<1> QED
  BY <1>1, <1>2, <1>3, <1>4, <1>5, <1>6, <1>7
     DEF ChainNext, ChainHandler, ChainFinished

\* The lower filter loses nothing either.
LEMMA LowerConservationStep ==
  ChainInv /\ [ChainNext]_chainVars => LowerConservation'
<1> SUFFICES ASSUME ChainInv, [ChainNext]_chainVars, twice'
             PROVE  Kept(lsrc', src', handed', low')
  BY DEF LowerConservation, Kept
<1>1. twice
  BY DEF ChainNext, Reader, ChainHandler, ChainFinished, Swap, HttpIn, UpperStep,
         LowerStep, Back, Returned, chainVars
<1>2. /\ lsrc \in Seq(Bucket) /\ src \in Seq(Bucket) /\ handed \in Seq(Bucket)
      /\ low \in Seq(Bucket) /\ Kept(lsrc, src, handed, low)
  BY <1>1 DEF ChainInv, ChainTypeOK, TypeOK, LowerConservation, Kept
<1>3. CASE UNCHANGED <<lsrc, src, handed, low>>
  BY <1>2, <1>3
<1>4. CASE LowerStep
  <2>1. CASE LowerMoves
    BY <1>2, <1>4, <2>1, MoveKeeps, LowerStepKinds, Zenon DEF LowerMoves
  <2>2. ASSUME NEW s \in Supply, LowerFetches(s)
        PROVE  Kept(lsrc', src', handed', low')
    BY <1>2, <1>4, <2>2, FetchKeeps, LowerStepKinds, Zenon DEF LowerFetches
  <2> QED
    BY <1>3, <1>4, <2>1, <2>2, LowerStepKinds
<1>5. CASE Back
  BY <1>2, <1>5, TakeKeeps, Zenon DEF Back, Returned, Fetch
<1>6. CASE Reader
  BY <1>3, <1>6 DEF Reader, Call, Take, GiveUp, Lower!Call, lowerVars
<1>7. CASE UpperStep
  BY <1>3, <1>7 DEF UpperStep, Pass, MoveEos, ReadError, Exhausted, vars, lowerVars
<1>8. CASE Swap \/ UNCHANGED chainVars
  BY <1>3, <1>8 DEF Swap, chainVars, vars, lowerVars
<1> QED
  BY <1>1, <1>4, <1>5, <1>6, <1>7, <1>8
     DEF ChainNext, ChainHandler, ChainFinished, HttpIn

\* EOS stays last, and both filters ask for more only when they have nothing.
LEMMA EosEndsStep == ChainInv /\ [ChainNext]_chainVars => EosEnds'
<1> SUFFICES ASSUME ChainInv, [ChainNext]_chainVars PROVE EosEnds'
  OBVIOUS
<1>1. /\ ctx \in Seq(Bucket) /\ low \in Seq(Bucket) /\ handed \in Seq(Bucket)
      /\ EosEnds /\ Nesting
  BY DEF ChainInv, ChainTypeOK, TypeOK
<1> USE DEF EosEnds
<1>2. CASE Reader
  BY <1>1, <1>2, NoEos DEF Reader, Call, Take, GiveUp, Lower!Call, lowerVars, Nesting
<1>3. CASE Swap \/ UNCHANGED chainVars
  BY <1>1, <1>3 DEF Swap, chainVars, vars, lowerVars, HasEos, EosLast
<1>4. CASE HttpIn
  <2>1. PICK s \in Supply : /\ pc = "fetch" /\ pc' # "fetch" /\ ctx' = ctx \o s
                            /\ UNCHANGED lowerVars
    BY <1>4 DEF HttpIn, FetchAny, Fetch
  <2>2. EosLast(ctx')
    BY <1>1, <2>1, EmptyConcat, SupplyEos
  <2> QED
    BY <1>1, <2>1, <2>2 DEF lowerVars
<1>5. CASE UpperStep
  <2>1. /\ pc' # "fetch" /\ UNCHANGED lowerVars
        /\ ctx' = ctx \/ (ctx # <<>> /\ ctx' = Tail(ctx))
    BY <1>5 DEF UpperStep, Pass, MoveEos, ReadError, Exhausted, vars
  <2>2. EosLast(ctx')
    BY <1>1, <2>1, TailEos
  <2> QED
    BY <1>1, <2>1, <2>2 DEF lowerVars
<1>6. CASE LowerStep
  <2>1. /\ UNCHANGED <<ctx, pc>> /\ lpc # "caller" /\ lpc' # "fetch"
    BY <1>6 DEF LowerStep, Lower!Pass, Lower!FetchAny, Lower!Fetch, ReverseFirst,
                Lower!MoveEos, Lower!ReadError, Lower!Exhausted, lowerVars
  <2>2. CASE LowerMoves
    <3>1. /\ Head(low) \in Bucket /\ Filtered(Head(low)) \in Bucket
          /\ Filtered(Head(low)).type = Head(low).type
      BY <1>1, <2>2, FilteredType, HeadTailProperties DEF LowerMoves
    <3>2. EosLast(low') /\ EosLast(handed')
      BY <1>1, <2>1, <2>2, <3>1, TailEos, AppendEos DEF LowerMoves
    <3>3. lpc' # "caller" => Head(low).type # "eos"
      BY <1>1, <1>6, <2>2, <3>1 DEF LowerStep, LowerMoves, Lower!Pass, Lower!FetchAny,
         Lower!Fetch, Lower!MoveEos, Lower!ReadError, Lower!Exhausted, lowerVars
    <3>4. lpc' # "caller" => ~HasEos(handed')
      BY <1>1, <2>1, <2>2, <3>1, <3>3, AppendEos DEF LowerMoves
    <3> QED
      BY <1>1, <2>1, <3>2, <3>4
  <2>3. ASSUME NEW s \in Supply, LowerFetches(s) PROVE EosEnds'
    <3>1. EosLast(low')
      BY <1>1, <2>3, EmptyConcat, SupplyEos DEF LowerFetches
    <3> QED
      BY <1>1, <2>1, <2>3, <3>1 DEF LowerFetches
  <2>4. CASE UNCHANGED <<lsrc, low, handed>>
    BY <1>1, <2>1, <2>4
  <2> QED
    BY <1>6, <2>2, <2>3, <2>4, LowerStepKinds
<1>7. CASE Back
  <2>1. /\ pc = "fetch" /\ pc' # "fetch" /\ ctx' = ctx \o handed
        /\ handed' = <<>> /\ lpc = "caller" /\ UNCHANGED <<low, lpc>>
    BY <1>7 DEF Back, Returned, Fetch
  <2>2. EosLast(ctx')
    BY <1>1, <2>1, EmptyConcat
  <2> QED
    BY <1>1, <2>1, <2>2, NoEos
<1> QED
  BY <1>2, <1>3, <1>4, <1>5, <1>6, <1>7
     DEF ChainNext, ChainHandler, ChainFinished

\* What is left in the contexts.
LEMMA LeftOverStep == ChainInv /\ [ChainNext]_chainVars => LeftOver'
<1> SUFFICES ASSUME ChainInv, [ChainNext]_chainVars PROVE LeftOver'
  OBVIOUS
<1>1. /\ ctx \in Seq(Bucket) /\ low \in Seq(Bucket)
      /\ EosLast(ctx) /\ EosLast(low) /\ Nesting /\ LeftOver
      /\ lpc = "fetch" => low = <<>>
  BY DEF ChainInv, ChainTypeOK, TypeOK, EosEnds
<1> USE DEF LeftOver
<1>2. CASE Reader
  BY <1>1, <1>2 DEF Reader, Call, Take, GiveUp, Lower!Call, lowerVars, Nesting
<1>3. CASE Swap \/ UNCHANGED chainVars
  BY <1>1, <1>3 DEF Swap, chainVars, vars, lowerVars
<1>4. CASE HttpIn
  BY <1>1, <1>4 DEF HttpIn, FetchAny, Fetch, lowerVars
<1>5. CASE UpperStep
  <2>1. UNCHANGED lowerVars
    BY <1>5 DEF UpperStep
  <2>2. CASE MoveEos
    BY <1>1, <2>1, <2>2, TailEos DEF MoveEos, lowerVars
  <2>3. CASE ~MoveEos
    BY <1>1, <1>5, <2>1, <2>3
       DEF UpperStep, Pass, ReadError, Exhausted, vars, lowerVars
  <2> QED
    BY <2>2, <2>3
<1>6. CASE LowerStep
  <2>1. UNCHANGED <<rv, pc, ctx>>
    BY <1>6 DEF LowerStep
  <2>2. CASE Lower!MoveEos
    BY <1>1, <2>1, <2>2, TailEos DEF Lower!MoveEos
  <2>3. CASE ~Lower!MoveEos
    BY <1>1, <1>6, <2>1, <2>3
       DEF LowerStep, ReverseFirst, Lower!Pass, Lower!FetchAny, Lower!Fetch, Lower!ReadError,
           Lower!Exhausted, lowerVars
  <2> QED
    BY <2>2, <2>3
<1>7. CASE Back
  BY <1>1, <1>7 DEF Back, Returned, Fetch
<1> QED
  BY <1>2, <1>3, <1>4, <1>5, <1>6, <1>7
     DEF ChainNext, ChainHandler, ChainFinished

\* reverse_string runs on the first bucket of the filter that called it.
LEMMA ReversesFirstStep == ChainInv /\ [ChainNext]_chainVars => ReversesFirst'
<1> SUFFICES ASSUME ChainInv, [ChainNext]_chainVars PROVE ReversesFirst'
  OBVIOUS
<1>1. /\ ctx \in Seq(Bucket) /\ low \in Seq(Bucket)
      /\ Reversal!LoopInv /\ ReversesFirst /\ Nesting
  BY DEF ChainInv, ChainTypeOK, TypeOK, ReversesFirst
<1>2. UNCHANGED <<string, up, down, given>> => Reversal!LoopInv'
  BY <1>1 DEF Reversal!LoopInv, Reversal!TypeOK, Reversal!Mirror
<1>3. CASE UNCHANGED stringVars /\ ~reversing
  BY <1>2, <1>3 DEF stringVars, ReversesFirst
<1>4. CASE Moved
  BY <1>2, <1>4 DEF Moved, ReversesFirst
<1>5. ASSUME NEW c \in Seq(Bucket), ReverseFirst(c), c = ctx \/ c = low
      PROVE  Reversal!LoopInv' /\ given' = Head(c).bytes /\ given' # <<>>
  <2>1. Head(c) \in Bucket /\ Head(c).bytes # <<>>
    BY <1>5, HeadTailProperties DEF ReverseFirst
  <2>2. given' \in Seq(Byte) /\ string' = given' /\ up' = 1 /\ down' = Len(given')
    BY <1>5, <2>1, BucketCases DEF ReverseFirst
  <2>3. Reversal!LoopInv'
    BY <2>2 DEF Reversal!LoopInv, Reversal!TypeOK, Reversal!Mirror
  <2> QED
    BY <1>5, <2>1, <2>3 DEF ReverseFirst
<1>6. CASE Swap
  <2>1. Reversal!LoopInv'
    BY <1>1, <1>6, SwapStep DEF Swap
  <2>2. UNCHANGED <<given, pc, ctx, lpc, low, reversing>>
    BY <1>6 DEF Swap, Reversal!Swap, vars, lowerVars
  <2> QED
    BY <1>1, <2>1, <2>2 DEF ReversesFirst, Works
<1>7. CASE UNCHANGED chainVars
  BY <1>1, <1>2, <1>7 DEF chainVars, stringVars, vars, lowerVars, ReversesFirst, Works
<1>8. CASE Reader
  BY <1>1, <1>3, <1>8 DEF Reader, Call, Take, GiveUp, Nesting, ReversesFirst
<1>9. CASE HttpIn \/ Back
  BY <1>1, <1>3, <1>9
     DEF HttpIn, FetchAny, Fetch, Back, Returned, Nesting, ReversesFirst, stringVars
<1>10. CASE UpperStep
  <2>1. CASE ReverseFirst(ctx) /\ pc = "loop" /\ UNCHANGED vars
    BY <1>1, <1>5, <2>1 DEF ReverseFirst, ReversesFirst, Works, vars
  <2> QED
    BY <1>3, <1>4, <1>10, <2>1 DEF UpperStep
<1>11. CASE LowerStep
  <2>1. CASE ReverseFirst(low) /\ lpc = "loop" /\ UNCHANGED <<lowerVars, src>>
    BY <1>1, <1>5, <2>1 DEF ReverseFirst, ReversesFirst, Works, lowerVars
  <2> QED
    BY <1>3, <1>4, <1>11, <2>1 DEF LowerStep
<1> QED
  BY <1>6, <1>7, <1>8, <1>9, <1>10, <1>11
     DEF ChainNext, ChainHandler, ChainFinished

\* The invariant holds in every reachable state of the chain.
THEOREM ChainInvariant == ChainSpec => []ChainInv
<1>1. ChainInv /\ [ChainNext]_chainVars => ChainInv'
  <2>1. ChainInv /\ [ChainNext]_chainVars => Conservation'
    BY ChainStepIsFilterStep, ConservationStep DEF ChainInv, ChainTypeOK
  <2> QED
    BY <2>1, ChainTypeStep, NestingStep, LowerConservationStep, EosEndsStep,
       LeftOverStep, ReversesFirstStep DEF ChainInv
<1> QED
  BY <1>1, ChainInvInit, PTL DEF ChainSpec

\* In the chain as well nothing is lost, repeated or reordered, whatever fails
\* in either filter or below them (Conservation).
THEOREM ChainConservation == ChainSpec => []Conservation
<1>1. ChainInv => Conservation
  BY DEF ChainInv
<1> QED
  BY <1>1, ChainInvariant, PTL

\* The upper filter's reader sees BodyStream, whatever f->next is.
THEOREM ChainRefinement == ChainSpec => ImplementsBodyStream
<1>1. ChainInit => Stream!Init
  BY DEF ChainInit, Init, Stream!Init
<1>2. ChainInv /\ [ChainNext]_chainVars => [Stream!Next]_(Stream!bsvars)
  BY ChainStepIsFilterStep, StreamStep DEF ChainInv, ChainTypeOK
<1> QED
  BY <1>1, <1>2, ChainInvariant, PTL
     DEF ChainSpec, ImplementsBodyStream, Stream!Spec

\* When the loop of reverse_string ends in a call of either filter, the copy is
\* the reversal of that filter's next bucket (Reversed).
THEOREM ReversedHolds == ChainSpec => []Reversed
<1>1. ChainInv => Reversed
  BY LoopEnds DEF ChainInv, ReversesFirst, Reversed
<1> QED
  BY <1>1, ChainInvariant, PTL

\* Two filters in the chain cancel, across all failures and retries.
THEOREM UndoesItselfHolds == ChainSpec => []UndoesItself
<1>1. ChainInv => UndoesItself
  <2> SUFFICES ASSUME ChainInv, twice
               PROVE  lsrc = got \o bb \o FilteredAll(ctx \o handed) \o low
    BY DEF UndoesItself
  <2> DEFINE d  == got \o bb
             fc == FilteredAll(ctx)
             fh == FilteredAll(handed)
             fl == FilteredAll(low)
             sh == src \o handed
  <2>1. /\ lsrc \in Seq(Bucket) /\ src \in Seq(Bucket) /\ ctx \in Seq(Bucket)
        /\ handed \in Seq(Bucket) /\ low \in Seq(Bucket) /\ d \in Seq(Bucket)
        /\ fc \in Seq(Bucket) /\ fh \in Seq(Bucket) /\ fl \in Seq(Bucket)
        /\ sh \in Seq(Bucket)
    BY FilteredAllType DEF ChainInv, ChainTypeOK, TypeOK
  <2>2. FilteredAll(src) = d \o fc /\ FilteredAll(lsrc) = sh \o fl
    BY DEF ChainInv, Conservation, LowerConservation
  <2>3. /\ FilteredAll(sh) = FilteredAll(src) \o fh
        /\ FilteredAll(ctx \o handed) = fc \o fh
    BY <2>1, FilteredAllConcat
  <2> HIDE DEF d, fc, fh, fl, sh
  <2>4. lsrc = FilteredAll(sh \o fl)
    BY <2>1, <2>2, FilteredAllTwice
  <2>5. FilteredAll(sh \o fl) = FilteredAll(sh) \o FilteredAll(fl)
    BY <2>1, FilteredAllConcat
  <2>6. FilteredAll(fl) = low
    BY <2>1, FilteredAllTwice DEF fl
  <2>7. (d \o fc) \o fh = d \o (fc \o fh)
    <3>1. d \in Seq(Bucket) /\ fc \in Seq(Bucket) /\ fh \in Seq(Bucket)
      BY <2>1
    <3> QED
      BY <3>1, Associative, ZenonT(60)
  <2>8. lsrc = (d \o FilteredAll(ctx \o handed)) \o low
    BY <2>2, <2>3, <2>4, <2>5, <2>6, <2>7, Zenon
  <2> QED
    BY <2>8 DEF d
<1> QED
  BY <1>1, ChainInvariant, PTL

\* A call that succeeds leaves nothing in the contexts but what a failed call
\* of the lower filter left there.
THEOREM LeftOnlyByFailureHolds == ChainSpec => []LeftOnlyByFailure
<1>1. ChainInv => LeftOnlyByFailure
  BY DEF ChainInv, LeftOver, Nesting, LeftOnlyByFailure
<1> QED
  BY <1>1, ChainInvariant, PTL

-----------------------------------------------------------------------------
(* The chain: every call comes nearer to its return, and none is stuck. *)

\* How far a call has to go at least: below the lower filter, in its loop,
\* behind it, in the upper one's loop, back.
CallStage ==
  CASE pc = "fetch" /\ lpc = "fetch"  -> 4
    [] pc = "fetch" /\ lpc = "loop"   -> 3
    [] pc = "fetch" /\ lpc = "caller" -> 2
    [] pc = "loop"                    -> 1
    [] OTHER                          -> 0

\* The brigade whose loop runs.
Running ==
  CASE pc = "loop"  -> ctx
    [] lpc = "loop" -> low
    [] OTHER        -> <<>>

\* The swaps left for the first bucket, if any, and the bucket itself.
SwapsToGo == IF reversing THEN down - up + 2 ELSE Bytes(Running) + 2

CallNearer ==
  \/ CallStage' < CallStage
  \/ CallStage' = CallStage /\ Len(Running') < Len(Running)
  \/ CallStage' = CallStage /\ Running' = Running /\ SwapsToGo' < SwapsToGo

\* Where a call of the chain is its own next step away: not in HTTP_IN, and
\* even if no bucket fails to be read.
HttpInAsked == pc = "fetch" /\ lpc = IF twice THEN "fetch" ELSE "caller"

LoopCanMove(brigade) ==
  \/ ~reversing /\ \/ brigade = <<>>
                   \/ Head(brigade).type = "eos"
                   \/ Head(brigade).bytes # <<>>
  \/ reversing /\ down > up
  \/ Ready(brigade) /\ brigade # <<>> /\ Head(brigade).type # "eos"

CallCanMove ==
  \/ pc = "loop" /\ LoopCanMove(ctx)
  \/ lpc = "loop" /\ LoopCanMove(low)
  \/ twice /\ pc = "fetch" /\ lpc = "caller"

\* The swaps left are never less than none.
LEMMA SwapsAreNatural == ChainInv => SwapsToGo \in Nat
<1> SUFFICES ASSUME ChainInv PROVE SwapsToGo \in Nat
  OBVIOUS
<1>1. CASE reversing
  <2>1. up \in Nat /\ down \in Nat /\ up <= down + 2
    BY DEF ChainInv, ReversesFirst, Reversal!LoopInv, Reversal!TypeOK
  <2> QED
    BY <1>1, <2>1 DEF SwapsToGo
<1>2. CASE ~reversing
  <2>1. Running \in Seq(Bucket)
    BY DEF Running, ChainInv, ChainTypeOK, TypeOK
  <2>2. Bytes(Running) \in Nat
    <3>1. CASE Running = <<>>
      BY <3>1 DEF Bytes
    <3>2. CASE Running # <<>>
      <4>1. Head(Running) \in Bucket
        BY <2>1, <3>2, HeadTailProperties
      <4>2. Head(Running).bytes \in Seq(Byte)
        BY <4>1, BucketBytes
      <4> QED
        BY <3>2, <4>2 DEF Bytes
    <3> QED
      BY <3>1, <3>2
  <2> QED
    BY <1>2, <2>2 DEF SwapsToGo
<1> QED
  BY <1>1, <1>2

\* A filter's own step, of either: it begins to reverse the first bucket of its
\* brigade, moves it, or returns.
LoopStep(brigade, point) ==
  \/ ReverseFirst(brigade) /\ point' = point /\ brigade' = brigade
  \/ brigade # <<>> /\ brigade' = Tail(brigade) /\ point' = point
  \/ point' = "caller"

LEMMA UpperLoopStep ==
  ASSUME UpperStep
  PROVE  pc = "loop" /\ LoopStep(ctx, pc) /\ UNCHANGED lowerVars
BY DEF UpperStep, LoopStep, Pass, MoveEos, ReadError, Exhausted, vars

LEMMA LowerLoopStep ==
  ASSUME LowerStep
  PROVE  /\ UNCHANGED <<pc, ctx>>
         /\ \/ lpc = "loop" /\ LoopStep(low, lpc)
            \/ lpc = "fetch" /\ lpc' \in {"loop", "caller"}
BY DEF LowerStep, LoopStep, Lower!Pass, Lower!FetchAny, Lower!Fetch,
       Lower!MoveEos, Lower!ReadError, Lower!Exhausted, lowerVars

\* The first bucket's swaps begin: one fewer than its bytes and two.
LEMMA ReverseFirstCounts ==
  ASSUME ChainInv, NEW c, c = Running, ReverseFirst(c), Running' = Running
  PROVE  SwapsToGo' < SwapsToGo
<1>1. c \in Seq(Bucket)
  BY DEF Running, ChainInv, ChainTypeOK, TypeOK
<1>2. Head(c) \in Bucket /\ c # <<>> /\ Head(c).bytes # <<>> /\ ~reversing
  BY <1>1, HeadTailProperties DEF ReverseFirst
<1>3. Head(c).bytes \in Seq(Byte)
  BY <1>2, BucketCases
<1>4. reversing' /\ up' = 1 /\ down' = Len(Head(c).bytes)
  BY DEF ReverseFirst
<1> QED
  BY <1>2, <1>3, <1>4 DEF SwapsToGo, Bytes

LEMMA ShorterTail ==
  ASSUME NEW c \in Seq(Bucket), c # <<>> PROVE Len(Tail(c)) < Len(c)
OBVIOUS

\* Every step of the handlers and of reverse_string brings the call that runs
\* nearer to its return, and a call has only so far to go (EveryCallReturns
\* but for the fairness; lines 69-76 and 98-137): nothing goes round in circles,
\* in one filter or in two, whatever fails.
THEOREM EveryCallStepCounts ==
  ChainSpec => [](SwapsToGo \in Nat) /\ [][ChainHandler => CallNearer]_chainVars
<1>1. ASSUME ChainInv, ChainHandler PROVE CallNearer
  <2> USE DEF CallNearer
  <2>1. /\ ctx \in Seq(Bucket) /\ low \in Seq(Bucket)
        /\ pc \in {"caller", "fetch", "loop"} /\ lpc \in {"caller", "fetch", "loop"}
        /\ lpc # "caller" => pc = "fetch"
    BY <1>1 DEF ChainInv, ChainTypeOK, TypeOK, Nesting
  <2>2. CASE Swap
    <3>1. /\ UNCHANGED <<pc, ctx, lpc, low, reversing>> /\ reversing
          /\ up' = up + 1 /\ down' = down - 1
      BY <2>2 DEF Swap, Reversal!Swap, vars, lowerVars
    <3>2. up \in Nat /\ down \in Nat
      BY <1>1 DEF ChainInv, ReversesFirst, Reversal!LoopInv, Reversal!TypeOK
    <3>3. CallStage' = CallStage /\ Running' = Running
      BY <3>1 DEF CallStage, Running
    <3>4. SwapsToGo' < SwapsToGo
      BY <3>1, <3>2 DEF SwapsToGo
    <3> QED
      BY <3>3, <3>4
  <2>3. CASE HttpIn \/ Back
    <3>1. /\ pc = "fetch" /\ pc' \in {"loop", "caller"} /\ lpc' = lpc
      BY <2>3 DEF HttpIn, FetchAny, Back, Returned, Fetch, lowerVars
    <3>2. lpc = "caller" \/ CallStage > 2
      BY <2>1, <3>1 DEF CallStage
    <3> QED
      BY <2>1, <3>1, <3>2 DEF CallStage
  <2>4. CASE UpperStep
    <3>1. pc = "loop" /\ LoopStep(ctx, pc) /\ UNCHANGED lowerVars
      BY <2>4, UpperLoopStep
    <3>2. lpc' = lpc /\ lpc = "caller" /\ CallStage = 1 /\ Running = ctx
      BY <2>1, <3>1 DEF lowerVars, CallStage, Running
    <3>3. CASE pc' = "caller"
      BY <3>2, <3>3 DEF CallStage
    <3>4. CASE ctx # <<>> /\ ctx' = Tail(ctx) /\ pc' = pc
      BY <2>1, <3>1, <3>2, <3>4, ShorterTail DEF CallStage, Running
    <3>5. CASE ReverseFirst(ctx) /\ pc' = pc /\ ctx' = ctx
      <4>1. CallStage' = CallStage /\ Running' = Running
        BY <3>1, <3>2, <3>5 DEF CallStage, Running
      <4> QED
        BY <1>1, <3>2, <3>5, <4>1, ReverseFirstCounts
    <3> QED
      BY <3>1, <3>3, <3>4, <3>5 DEF LoopStep
  <2>5. CASE LowerStep
    <3>1. /\ UNCHANGED <<pc, ctx>>
          /\ \/ lpc = "loop" /\ LoopStep(low, lpc)
             \/ lpc = "fetch" /\ lpc' \in {"loop", "caller"}
      BY <2>5, LowerLoopStep
    <3>2. CASE lpc = "fetch" /\ lpc' \in {"loop", "caller"}
      BY <2>1, <3>1, <3>2 DEF CallStage
    <3>3. CASE lpc = "loop" /\ LoopStep(low, lpc)
      <4>1. pc = "fetch" /\ pc' = "fetch" /\ CallStage = 3 /\ Running = low
        BY <2>1, <3>1, <3>3 DEF CallStage, Running
      <4>2. CASE lpc' = "caller"
        BY <4>1, <4>2 DEF CallStage
      <4>3. CASE low # <<>> /\ low' = Tail(low) /\ lpc' = lpc
        BY <2>1, <3>3, <4>1, <4>3, ShorterTail DEF CallStage, Running
      <4>4. CASE ReverseFirst(low) /\ lpc' = lpc /\ low' = low
        <5>1. CallStage' = CallStage /\ Running' = Running
          BY <3>3, <4>1, <4>4 DEF CallStage, Running
        <5> QED
          BY <1>1, <4>1, <4>4, <5>1, ReverseFirstCounts
      <4> QED
        BY <3>3, <4>2, <4>3, <4>4 DEF LoopStep
    <3> QED
      BY <3>1, <3>2, <3>3
  <2> QED
    BY <1>1, <2>2, <2>3, <2>4, <2>5 DEF ChainHandler
<1> QED
  BY <1>1, SwapsAreNatural, ChainInvariant, PTL

\* A loop over a brigade always has a step to take, no failing read needed.
LEMMA LoopMoves ==
  ASSUME ChainInv, NEW c \in Seq(Bucket), reversing => Works(c)
  PROVE  LoopCanMove(c)
<1>1. CASE ~reversing /\ c # <<>> /\ Head(c).bytes = <<>>
  BY <1>1 DEF LoopCanMove, Ready, Bytes
<1>2. CASE reversing
  <2>1. Head(c) \in Bucket /\ Head(c).bytes # <<>> /\ c # <<>>
    BY <1>2, HeadTailProperties DEF Works
  <2>2. Head(c).type = "data"
    BY <2>1, BucketCases
  <2> QED
    BY <1>2, <2>1, <2>2 DEF LoopCanMove, Ready, Reversal!Done
<1> QED
  BY <1>1, <1>2 DEF LoopCanMove

\* A call that has not returned waits for HTTP_IN, or it has a step to take:
\* the two filters and the loop of reverse_string never wait for each other
\* (lines 98-137).
THEOREM CallNeverStuck ==
  ChainSpec => [](pc # "caller" => HttpInAsked \/ CallCanMove)
<1>1. ChainInv => (pc # "caller" => HttpInAsked \/ CallCanMove)
  <2> SUFFICES ASSUME ChainInv, pc # "caller" PROVE HttpInAsked \/ CallCanMove
    OBVIOUS
  <2>1. /\ ctx \in Seq(Bucket) /\ low \in Seq(Bucket)
        /\ pc \in {"fetch", "loop"} /\ lpc \in {"caller", "fetch", "loop"}
        /\ lpc # "caller" => twice /\ pc = "fetch" /\ twice \in BOOLEAN
    BY DEF ChainInv, ChainTypeOK, TypeOK, Nesting
  <2>2. CASE pc = "loop"
    BY <2>1, <2>2, OneReverses, LoopMoves DEF CallCanMove
  <2>3. CASE lpc = "loop"
    BY <2>1, <2>3, OneReverses, LoopMoves DEF CallCanMove
  <2>4. CASE pc = "fetch" /\ lpc # "loop"
    BY <2>1, <2>4 DEF CallCanMove, HttpInAsked
  <2> QED
    BY <2>1, <2>2, <2>3, <2>4
<1> QED
  BY <1>1, ChainInvariant, PTL
=============================================================================
