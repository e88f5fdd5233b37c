----------------------------- MODULE BucketLemmas -----------------------------
(* Facts about sequences and about the operators of Buckets: what happens    *)
(* when an element goes from one sequence to the next, what filtering makes  *)
(* of a brigade, what the bytes of a brigade are.                            *)
EXTENDS Buckets, TLAPS, SequenceTheorems, WellFoundedInduction

\* Appending to the right part of a concatenation appends to the whole.
LEMMA AppendRight ==
  ASSUME NEW S, NEW p \in Seq(S), NEW q \in Seq(S), NEW x \in S
  PROVE  p \o Append(q, x) = Append(p \o q, x)
<1> DEFINE l == p \o Append(q, x)
           r == Append(p \o q, x)
<1>1. l \in Seq(S) /\ r \in Seq(S) /\ Len(l) = Len(r)
  OBVIOUS
<1>2. ASSUME NEW i \in 1..Len(l) PROVE l[i] = r[i]
  OBVIOUS
<1> HIDE DEF l, r
<1>3. l = r
  BY <1>1, <1>2, SeqEqual
<1> QED
  BY <1>3 DEF l, r

\* Moving the head of the right part to the end of the left part leaves the
\* concatenation as it was.
LEMMA MoveHeadLeft ==
  ASSUME NEW S, NEW p \in Seq(S), NEW q \in Seq(S), q # <<>>
  PROVE  Append(p, Head(q)) \o Tail(q) = p \o q
<1> DEFINE l == Append(p, Head(q)) \o Tail(q)
           r == p \o q
<1>1. /\ Head(q) \in S /\ Tail(q) \in Seq(S) /\ Len(q) > 0
      /\ Len(Tail(q)) = Len(q) - 1 /\ Head(q) = q[1]
      /\ \A i \in 1..Len(Tail(q)) : Tail(q)[i] = q[i + 1]
  OBVIOUS
<1>2. l \in Seq(S) /\ r \in Seq(S) /\ Len(l) = Len(r)
  BY <1>1
<1>3. ASSUME NEW i \in 1..Len(l) PROVE l[i] = r[i]
  BY <1>1
<1> HIDE DEF l, r
<1>4. l = r
  BY <1>2, <1>3, SeqEqual
<1> QED
  BY <1>4 DEF l, r

\* Appending one element: the length grows by one, what was there stays.
LEMMA AppendFacts ==
  ASSUME NEW S, NEW p \in Seq(S), NEW x \in S
  PROVE  /\ Append(p, x) \in Seq(S)
         /\ p \o <<x>> = Append(p, x)
         /\ Len(Append(p, x)) = Len(p) + 1
         /\ Append(p, x)[Len(p) + 1] = x
         /\ \A i \in 1..Len(p) : Append(p, x)[i] = p[i]
BY AppendIsConcat

\* Concatenation is associative, with four parts regrouped around the middle.
LEMMA Regroup ==
  ASSUME NEW S, NEW p \in Seq(S), NEW q \in Seq(S),
         NEW x \in Seq(S), NEW r \in Seq(S)
  PROVE  (p \o q) \o (x \o r) = (p \o (q \o x)) \o r
<1>1. p \o q \in Seq(S)
  OBVIOUS
<1>2. (p \o q) \o (x \o r) = ((p \o q) \o x) \o r
  <2> DEFINE pq == p \o q
  <2>1. pq \in Seq(S)
    BY <1>1
  <2> HIDE DEF pq
  <2>2. (pq \o x) \o r = pq \o (x \o r)
    BY <2>1, ConcatAssociative, SMTT(60)
  <2> QED
    BY <2>2 DEF pq
<1>3. (p \o q) \o x = p \o (q \o x)
  BY ConcatAssociative, SMTT(60)
<1> QED
  BY <1>2, <1>3

\* A sequence is a prefix of its concatenation with any other.
LEMMA PrefixOfConcat ==
  ASSUME NEW S, NEW p \in Seq(S), NEW q \in Seq(S)
  PROVE  Len(p) <= Len(p \o q) /\ SubSeq(p \o q, 1, Len(p)) = SubSeq(p, 1, Len(p))
OBVIOUS

-----------------------------------------------------------------------------
(* Induction, over sets: every set of naturals has a least element, so a     *)
(* set closed under the successor (or under Append) leaves nothing out.      *)

\* A non-empty set of naturals has a least element.
LEMMA LeastNatural ==
  ASSUME NEW T, T \subseteq Nat, T # {}
  PROVE  \E x \in T : \A y \in T : x <= y
<1> DEFINE R == OpToRel(<, Nat)
<1>1. \E x \in T : \A y \in T : ~(<<y, x>> \in R)
  <2>1. IsWellFoundedOn(R, Nat)
    BY NatLessThanWellFounded
  <2> HIDE DEF R
  <2> QED
    BY <2>1, WFMin
<1>2. \A x, y \in Nat : y < x => <<y, x>> \in R
  BY DEF OpToRel
<1> HIDE DEF R
<1>3. \A x, y \in Nat : ~(y < x) => x <= y
  OBVIOUS
<1> QED
  BY <1>1, <1>2, <1>3

\* A set that holds 0 and the successor of each of its numbers holds all.
LEMMA Induction ==
  ASSUME NEW T, 0 \in T, \A n \in Nat : n \in T => n + 1 \in T
  PROVE  Nat \subseteq T
<1> SUFFICES ASSUME Nat \ T # {} PROVE FALSE
  OBVIOUS
<1>1. PICK x \in Nat \ T : \A y \in Nat \ T : x <= y
  BY LeastNatural
<1>2. x # 0 /\ x - 1 \in Nat
  BY <1>1
<1>3. x - 1 \in T
  BY <1>1, <1>2
<1>4. (x - 1) + 1 \in T
  BY <1>2, <1>3
<1> QED
  BY <1>1, <1>4

\* A set that holds the empty sequence, and with a sequence everything that
\* is one element longer, holds every sequence.
LEMMA AppendInduction ==
  ASSUME NEW S, NEW T, <<>> \in T,
         \A s \in Seq(S), x \in S : s \in T => Append(s, x) \in T
  PROVE  Seq(S) \subseteq T
<1> DEFINE N == {n \in Nat : \A s \in Seq(S) : Len(s) = n => s \in T}
<1>1. 0 \in N
  <2>1. \A s \in Seq(S) : Len(s) = 0 => s = <<>>
    OBVIOUS
  <2> QED
    BY <2>1
<1>2. ASSUME NEW n \in Nat, n \in N PROVE n + 1 \in N
  <2> SUFFICES ASSUME NEW s \in Seq(S), Len(s) = n + 1 PROVE s \in T
    OBVIOUS
  <2> DEFINE p == SubSeq(s, 1, n)
             x == s[n + 1]
  <2>1. p \in Seq(S) /\ Len(p) = n /\ x \in S
    OBVIOUS
  <2>2. s = Append(p, x)
    <3>1. Append(p, x) \in Seq(S) /\ Len(Append(p, x)) = Len(s)
      BY <2>1
    <3>2. \A i \in 1..Len(s) : s[i] = Append(p, x)[i]
      BY <2>1
    <3> HIDE DEF p, x
    <3> QED
      BY <3>1, <3>2, SeqEqual
  <2> HIDE DEF p, x
  <2> QED
    BY <1>2, <2>1, <2>2
<1>3. Nat \subseteq N
  <2> HIDE DEF N
  <2> QED
    BY <1>1, <1>2, Induction
<1> QED
  BY <1>3

-----------------------------------------------------------------------------
(* Facts about brigades and filtered brigades. *)

\* Concatenation of brigades is associative.
LEMMA Associative ==
  \A p, q, r \in Seq(Bucket) : (p \o q) \o r = p \o (q \o r)
BY ConcatAssociative

\* So is concatenation of bytes.
LEMMA BytesAssociative ==
  \A p, q, r \in Seq(Byte) : (p \o q) \o r = p \o (q \o r)
BY ConcatAssociative

\* The buckets with bytes, and the others.
LEMMA BucketCases ==
  ASSUME NEW b \in Bucket
  PROVE  \/ b.type = "data" /\ b.bytes \in Seq(Byte) /\ b = DataBucket(b.bytes)
         \/ b.type # "data" /\ b.bytes = <<>> /\ b \in {MetaBucket, EOS}
BY DEF Bucket, DataBucket, MetaBucket, EOS

\* The bytes of a bucket are bytes.
LEMMA BucketBytes ==
  ASSUME NEW b \in Bucket PROVE b.bytes \in Seq(Byte)
<1>1. <<>> \in Seq(Byte)
  OBVIOUS
<1> QED
  BY <1>1, BucketCases

\* Reversal: what it gives for a sequence of bytes.
LEMMA ReverseFacts ==
  ASSUME NEW t \in Seq(Byte)
  PROVE  /\ Reverse(t) \in Seq(Byte) /\ Len(Reverse(t)) = Len(t)
         /\ \A i \in 1..Len(t) : Reverse(t)[i] = t[Len(t) - i + 1]
BY DEF Reverse

\* Filtering keeps a bucket a bucket, and of its type.
LEMMA FilteredType ==
  ASSUME NEW b \in Bucket PROVE Filtered(b) \in Bucket /\ Filtered(b).type = b.type
<1>1. CASE b.type = "data"
  <2>1. Reverse(b.bytes) \in Seq(Byte)
    BY <1>1, BucketCases, ReverseFacts
  <2>2. DataBucket(Reverse(b.bytes)) \in Bucket
    BY <2>1 DEF DataBucket, Bucket
  <2> QED
    BY <1>1, <2>2 DEF Filtered, DataBucket
<1>2. CASE b.type # "data"
  BY <1>2 DEF Filtered
<1> QED
  BY <1>1, <1>2

\* Filtering a brigade keeps it a brigade of the same length.
LEMMA FilteredAllType ==
  ASSUME NEW bs \in Seq(Bucket)
  PROVE  FilteredAll(bs) \in Seq(Bucket) /\ Len(FilteredAll(bs)) = Len(bs)
BY FilteredType DEF FilteredAll

\* Filtering distributes over concatenation.
LEMMA FilteredAllConcat ==
  ASSUME NEW a \in Seq(Bucket), NEW b \in Seq(Bucket)
  PROVE  FilteredAll(a \o b) = FilteredAll(a) \o FilteredAll(b)
<1> DEFINE l == FilteredAll(a \o b)
           r == FilteredAll(a) \o FilteredAll(b)
<1>1. /\ l \in Seq(Bucket) /\ Len(l) = Len(a) + Len(b)
      /\ r \in Seq(Bucket) /\ Len(r) = Len(a) + Len(b)
  <2>1. a \o b \in Seq(Bucket) /\ Len(a \o b) = Len(a) + Len(b)
    OBVIOUS
  <2>2. l \in Seq(Bucket) /\ Len(l) = Len(a) + Len(b)
    BY <2>1, FilteredAllType
  <2>3. /\ FilteredAll(a) \in Seq(Bucket) /\ Len(FilteredAll(a)) = Len(a)
        /\ FilteredAll(b) \in Seq(Bucket) /\ Len(FilteredAll(b)) = Len(b)
    BY FilteredAllType
  <2>4. r \in Seq(Bucket) /\ Len(r) = Len(a) + Len(b)
    BY <2>3, SMTT(60)
  <2> HIDE DEF l, r
  <2> QED
    BY <2>2, <2>4
<1>2. ASSUME NEW i \in 1..Len(l) PROVE l[i] = r[i]
  <2>1. CASE i <= Len(a)
    BY <1>1, <2>1, FilteredAllType DEF FilteredAll
  <2>2. CASE i > Len(a)
    BY <1>1, <2>2, FilteredAllType DEF FilteredAll
  <2> QED
    BY <1>1, <2>1, <2>2
<1> QED
  BY <1>1, <1>2, SeqEqual

\* Moving the first bucket of a brigade to the end of another moves its
\* filtered form from the front of the filtered brigade.
LEMMA FilteredAllHead ==
  ASSUME NEW c \in Seq(Bucket), c # <<>>
  PROVE  FilteredAll(c) = <<Filtered(Head(c))>> \o FilteredAll(Tail(c))
<1>1. /\ Head(c) \in Bucket /\ Tail(c) \in Seq(Bucket)
      /\ c = <<Head(c)>> \o Tail(c)
  BY HeadTailProperties
<1>2. FilteredAll(<<Head(c)>>) = <<Filtered(Head(c))>>
  BY DEF FilteredAll
<1>3. FilteredAll(<<Head(c)>> \o Tail(c))
        = FilteredAll(<<Head(c)>>) \o FilteredAll(Tail(c))
  <2>1. <<Head(c)>> \in Seq(Bucket)
    BY <1>1
  <2> QED
    BY <1>1, <2>1, FilteredAllConcat
<1> QED
  BY <1>1, <1>2, <1>3

-----------------------------------------------------------------------------
(* The bytes of a brigade.  FlattenSeq is defined by a recursive function:   *)
(* it exists, by induction, so it is what its definition says.               *)

\* f flattens the first n sequences of s, one after the other.
Flattens(f, s, n) ==
  f = [i \in 1..n |-> IF i = 1 THEN s[i] ELSE f[i - 1] \o s[i]]

LEMMA FlattenExists ==
  ASSUME NEW S, NEW s \in Seq(Seq(S)), NEW m \in Nat
  PROVE  \E f : Flattens(f, s, m)
<1> DEFINE T == {n \in Nat : \E f : Flattens(f, s, n)}
<1>1. 0 \in T
  <2> DEFINE f == [i \in 1..0 |-> <<>>]
  <2>1. Flattens(f, s, 0)
    BY DEF Flattens
  <2> QED
    BY <2>1, Zenon
<1>2. ASSUME NEW n \in Nat, n \in T PROVE n + 1 \in T
  <2>1. PICK f : Flattens(f, s, n)
    BY <1>2
  <2> DEFINE g == [i \in 1..(n + 1) |-> IF i = n + 1
                     THEN IF i = 1 THEN s[i] ELSE f[n] \o s[i]
                     ELSE f[i]]
             h == [i \in 1..(n + 1) |-> IF i = 1 THEN s[i] ELSE g[i - 1] \o s[i]]
  <2>2. ASSUME NEW i \in 1..(n + 1) PROVE g[i] = h[i]
    <3>1. CASE i = n + 1
      BY <3>1
    <3>2. CASE i # n + 1
      <4>1. i \in 1..n /\ g[i] = f[i]
        BY <3>2
      <4>2. f[i] = IF i = 1 THEN s[i] ELSE f[i - 1] \o s[i]
        BY <2>1, <4>1 DEF Flattens
      <4>3. i # 1 => i - 1 \in 1..(n + 1) /\ i - 1 # n + 1 /\ g[i - 1] = f[i - 1]
        BY <4>1
      <4> QED
        BY <4>1, <4>2, <4>3
    <3> QED
      BY <3>1, <3>2
  <2>3. g = h
    BY <2>2
  <2>4. Flattens(g, s, n + 1)
    BY <2>3, Zenon DEF Flattens
  <2> HIDE DEF g
  <2>5. n + 1 \in Nat
    OBVIOUS
  <2> QED
    BY <2>4, <2>5
<1>3. Nat \subseteq T
  <2> HIDE DEF T
  <2> QED
    BY <1>1, <1>2, Induction
<1> QED
  BY <1>3

LEMMA FlattenRec ==
  ASSUME NEW S, NEW s \in Seq(Seq(S)), Len(s) # 0
  PROVE  \E f : /\ FlattenSeq(s) = f[Len(s)]
                /\ \A i \in 1..Len(s) : f[i] = IF i = 1 THEN s[i] ELSE f[i - 1] \o s[i]
<1> DEFINE c == CHOOSE f : f = [i \in 1..Len(s) |-> IF i = 1 THEN s[i] ELSE f[i - 1] \o s[i]]
<1>1. \E f : Flattens(f, s, Len(s))
  BY FlattenExists
<1>2. Flattens(c, s, Len(s))
  <2>1. c = CHOOSE f : Flattens(f, s, Len(s))
    BY DEF Flattens
  <2> HIDE DEF c
  <2> QED
    BY <1>1, <2>1, Zenon
<1>3. FlattenSeq(s) = c[Len(s)]
  BY DEF FlattenSeq
<1> HIDE DEF c
<1>4. \A i \in 1..Len(s) : c[i] = IF i = 1 THEN s[i] ELSE c[i - 1] \o s[i]
  BY <1>2 DEF Flattens
<1> QED
  BY <1>3, <1>4

\* Flattening one sequence more adds that sequence at the end.
LEMMA FlattenAppend ==
  ASSUME NEW S, NEW s \in Seq(Seq(S)), NEW x \in Seq(S), FlattenSeq(s) \in Seq(S)
  PROVE  FlattenSeq(Append(s, x)) = FlattenSeq(s) \o x
<1> DEFINE t == Append(s, x)
<1>1. /\ t \in Seq(Seq(S)) /\ Len(t) = Len(s) + 1 /\ Len(t) # 0
      /\ t[Len(s) + 1] = x /\ \A i \in 1..Len(s) : t[i] = s[i]
  OBVIOUS
<1> HIDE DEF t
<1>2. PICK g : /\ FlattenSeq(t) = g[Len(t)]
               /\ \A i \in 1..Len(t) : g[i] = IF i = 1 THEN t[i] ELSE g[i - 1] \o t[i]
  BY <1>1, FlattenRec
<1>3. CASE Len(s) = 0
  <2>1. FlattenSeq(s) = <<>>
    BY <1>3 DEF FlattenSeq
  <2>2. FlattenSeq(t) = x
    BY <1>1, <1>2, <1>3
  <2> QED
    BY <2>1, <2>2 DEF t
<1>4. CASE Len(s) # 0
  <2>1. PICK f : /\ FlattenSeq(s) = f[Len(s)]
                 /\ \A i \in 1..Len(s) : f[i] = IF i = 1 THEN s[i] ELSE f[i - 1] \o s[i]
    BY <1>4, FlattenRec
  <2> DEFINE T == {n \in Nat : n \in 1..Len(s) => g[n] = f[n]}
  <2>2. 0 \in T
    OBVIOUS
  <2>3. ASSUME NEW n \in Nat, n \in T PROVE n + 1 \in T
    <3> SUFFICES ASSUME n + 1 \in 1..Len(s) PROVE g[n + 1] = f[n + 1]
      OBVIOUS
    <3>1. n + 1 \in 1..Len(t) /\ t[n + 1] = s[n + 1] /\ (n + 1) - 1 = n
      BY <1>1
    <3>2. /\ g[n + 1] = IF n + 1 = 1 THEN t[n + 1] ELSE g[n] \o t[n + 1]
          /\ f[n + 1] = IF n + 1 = 1 THEN s[n + 1] ELSE f[n] \o s[n + 1]
      BY <1>2, <2>1, <3>1
    <3>3. n + 1 # 1 => g[n] = f[n]
      BY <2>3
    <3> QED
      BY <3>1, <3>2, <3>3
  <2>4. Nat \subseteq T
    <3> HIDE DEF T
    <3> QED
      BY <2>2, <2>3, Induction
  <2>5. g[Len(s)] = f[Len(s)]
    BY <1>4, <2>4
  <2>6. g[Len(t)] = g[Len(s)] \o x
    <3>1. Len(t) \in 1..Len(t) /\ Len(t) # 1 /\ Len(t) - 1 = Len(s) /\ t[Len(t)] = x
      BY <1>1, <1>4
    <3>2. g[Len(t)] = IF Len(t) = 1 THEN t[Len(t)] ELSE g[Len(t) - 1] \o t[Len(t)]
      BY <1>2, <3>1
    <3> QED
      BY <3>1, <3>2
  <2> QED
    BY <1>2, <2>1, <2>5, <2>6 DEF t
<1> QED
  BY <1>3, <1>4

\* The bytes of brigades: none, one bucket more, all bytes.
LEMMA BytesOfEmpty == BytesOf(<<>>) = <<>>
BY DEF BytesOf, FlattenSeq

LEMMA BytesOfStep ==
  ASSUME NEW bs \in Seq(Bucket), NEW b \in Bucket, BytesOf(bs) \in Seq(Byte)
  PROVE  BytesOf(Append(bs, b)) = BytesOf(bs) \o b.bytes
<1> DEFINE s == [i \in 1..Len(bs) |-> bs[i].bytes]
           t == [i \in 1..Len(Append(bs, b)) |-> Append(bs, b)[i].bytes]
<1>1. \A x \in Bucket : x.bytes \in Seq(Byte)
  BY BucketBytes
<1>2. s \in Seq(Seq(Byte)) /\ Len(s) = Len(bs) /\ b.bytes \in Seq(Byte)
  BY <1>1
<1>3. t = Append(s, b.bytes)
  <2>1. t \in Seq(Seq(Byte)) /\ Len(t) = Len(bs) + 1
    BY <1>1
  <2>2. Append(s, b.bytes) \in Seq(Seq(Byte)) /\ Len(Append(s, b.bytes)) = Len(bs) + 1
    BY <1>2
  <2>3. ASSUME NEW i \in 1..(Len(bs) + 1) PROVE t[i] = Append(s, b.bytes)[i]
    BY <1>2
  <2> HIDE DEF s, t
  <2> QED
    BY <2>1, <2>2, <2>3, SeqEqual
<1>4. FlattenSeq(Append(s, b.bytes)) = FlattenSeq(s) \o b.bytes
  <2>1. FlattenSeq(s) \in Seq(Byte)
    BY DEF BytesOf
  <2> HIDE DEF s
  <2> QED
    BY <1>2, <2>1, FlattenAppend
<1> QED
  BY <1>3, <1>4, Zenon DEF BytesOf

LEMMA BytesOfType ==
  ASSUME NEW bs \in Seq(Bucket) PROVE BytesOf(bs) \in Seq(Byte)
<1> DEFINE T == {s \in Seq(Bucket) : BytesOf(s) \in Seq(Byte)}
<1>1. <<>> \in T
  <2>1. <<>> \in Seq(Byte) /\ <<>> \in Seq(Bucket)
    OBVIOUS
  <2>2. BytesOf(<<>>) \in Seq(Byte)
    BY <2>1, BytesOfEmpty, Zenon
  <2> QED
    BY <2>1, <2>2
<1>2. ASSUME NEW s \in Seq(Bucket), NEW b \in Bucket, s \in T PROVE Append(s, b) \in T
  <2>1. BytesOf(Append(s, b)) = BytesOf(s) \o b.bytes
    BY <1>2, BytesOfStep
  <2>2. BytesOf(s) \o b.bytes \in Seq(Byte)
    <3> DEFINE u == BytesOf(s)
               v == b.bytes
    <3>1. u \in Seq(Byte) /\ v \in Seq(Byte)
      BY <1>2, BucketBytes
    <3> HIDE DEF u, v
    <3>2. u \o v \in Seq(Byte)
      BY <3>1
    <3> QED
      BY <3>2 DEF u, v
  <2>3. Append(s, b) \in Seq(Bucket)
    OBVIOUS
  <2> QED
    BY <2>1, <2>2, <2>3
<1>3. Seq(Bucket) \subseteq T
  <2> HIDE DEF T
  <2> QED
    BY <1>1, <1>2, AppendInduction
<1> QED
  BY <1>3

LEMMA BytesOfAppend ==
  ASSUME NEW bs \in Seq(Bucket), NEW b \in Bucket
  PROVE  BytesOf(Append(bs, b)) = BytesOf(bs) \o b.bytes /\ b.bytes \in Seq(Byte)
<1>1. BytesOf(Append(bs, b)) = BytesOf(bs) \o b.bytes
  BY BytesOfType, BytesOfStep
<1> QED
  BY <1>1, BucketBytes

LEMMA BytesOfOne ==
  ASSUME NEW b \in Bucket PROVE BytesOf(<<b>>) = b.bytes
<1>1. <<b>> = Append(<<>>, b) /\ <<>> \in Seq(Bucket)
  OBVIOUS
<1>2. BytesOf(<<b>>) = <<>> \o b.bytes /\ b.bytes \in Seq(Byte)
  BY <1>1, BytesOfAppend, BytesOfEmpty
<1> QED
  BY <1>2

\* The bytes of two brigades, one after the other.
LEMMA BytesOfConcat ==
  ASSUME NEW p \in Seq(Bucket), NEW q \in Seq(Bucket)
  PROVE  BytesOf(p \o q) = BytesOf(p) \o BytesOf(q)
<1> DEFINE T == {s \in Seq(Bucket) : BytesOf(p \o s) = BytesOf(p) \o BytesOf(s)}
<1>1. <<>> \in T
  <2>1. p \o <<>> = p /\ <<>> \in Seq(Bucket)
    OBVIOUS
  <2>2. BytesOf(p) \o <<>> = BytesOf(p)
    BY BytesOfType
  <2>3. BytesOf(p \o <<>>) = BytesOf(p) \o BytesOf(<<>>)
    BY <2>1, <2>2, BytesOfEmpty
  <2> QED
    BY <2>1, <2>3
<1>2. ASSUME NEW s \in Seq(Bucket), NEW b \in Bucket, s \in T PROVE Append(s, b) \in T
  <2>1. p \o Append(s, b) = Append(p \o s, b) /\ p \o s \in Seq(Bucket)
    BY AppendRight
  <2>2. BytesOf(Append(p \o s, b)) = BytesOf(p \o s) \o b.bytes
    BY <2>1, BytesOfAppend
  <2>3. /\ BytesOf(Append(s, b)) = BytesOf(s) \o b.bytes
        /\ b.bytes \in Seq(Byte) /\ BytesOf(s) \in Seq(Byte) /\ BytesOf(p) \in Seq(Byte)
    BY BytesOfAppend, BytesOfType
  <2>4. BytesOf(p \o s) = BytesOf(p) \o BytesOf(s)
    BY <1>2
  <2>5. (BytesOf(p) \o BytesOf(s)) \o b.bytes = BytesOf(p) \o (BytesOf(s) \o b.bytes)
    <3> DEFINE u == BytesOf(p)
               v == BytesOf(s)
               w == b.bytes
    <3>1. u \in Seq(Byte) /\ v \in Seq(Byte) /\ w \in Seq(Byte)
      BY <2>3
    <3> HIDE DEF u, v, w
    <3>2. (u \o v) \o w = u \o (v \o w)
      BY <3>1, BytesAssociative, Zenon
    <3> QED
      BY <3>2 DEF u, v, w
  <2>6. BytesOf(p \o Append(s, b)) = BytesOf(p) \o BytesOf(Append(s, b))
    BY <2>1, <2>2, <2>3, <2>4, <2>5
  <2>7. Append(s, b) \in Seq(Bucket)
    OBVIOUS
  <2> QED
    BY <2>6, <2>7
<1>3. Seq(Bucket) \subseteq T
  <2> HIDE DEF T
  <2> QED
    BY <1>1, <1>2, AppendInduction
<1> QED
  BY <1>3

\* Filtering keeps the number of bytes.
LEMMA FilteredLength ==
  ASSUME NEW bs \in Seq(Bucket)
  PROVE  Len(BytesOf(FilteredAll(bs))) = Len(BytesOf(bs))
<1> DEFINE T == {s \in Seq(Bucket) : Len(BytesOf(FilteredAll(s))) = Len(BytesOf(s))}
<1>1. <<>> \in T
  <2>1. FilteredAll(<<>>) = <<>> /\ <<>> \in Seq(Bucket)
    BY DEF FilteredAll
  <2> QED
    BY <2>1
<1>2. ASSUME NEW s \in Seq(Bucket), NEW b \in Bucket, s \in T PROVE Append(s, b) \in T
  <2>1. /\ <<b>> \in Seq(Bucket) /\ Append(s, b) = s \o <<b>>
        /\ FilteredAll(<<b>>) = <<Filtered(b)>> /\ Append(s, b) \in Seq(Bucket)
    BY DEF FilteredAll
  <2>2. FilteredAll(s \o <<b>>) = FilteredAll(s) \o FilteredAll(<<b>>)
    BY <2>1, FilteredAllConcat
  <2>3. /\ Filtered(b) \in Bucket /\ FilteredAll(s) \in Seq(Bucket)
        /\ FilteredAll(s) \o <<Filtered(b)>> = Append(FilteredAll(s), Filtered(b))
    BY FilteredType, FilteredAllType, AppendFacts
  <2>4. /\ BytesOf(Append(FilteredAll(s), Filtered(b)))
             = BytesOf(FilteredAll(s)) \o Filtered(b).bytes
        /\ Filtered(b).bytes \in Seq(Byte) /\ BytesOf(FilteredAll(s)) \in Seq(Byte)
    BY <2>3, BytesOfAppend, BytesOfType
  <2>5. /\ BytesOf(Append(s, b)) = BytesOf(s) \o b.bytes
        /\ b.bytes \in Seq(Byte) /\ BytesOf(s) \in Seq(Byte)
    BY BytesOfAppend, BytesOfType
  <2>6. Len(Filtered(b).bytes) = Len(b.bytes)
    BY <2>5, ReverseFacts DEF Filtered, DataBucket
  <2>7. Len(BytesOf(FilteredAll(s))) = Len(BytesOf(s))
    BY <1>2
  <2>8. BytesOf(FilteredAll(Append(s, b))) = BytesOf(FilteredAll(s)) \o Filtered(b).bytes
    BY <2>1, <2>2, <2>3, <2>4
  <2>9. Len(BytesOf(FilteredAll(Append(s, b)))) = Len(BytesOf(Append(s, b)))
    BY <2>4, <2>5, <2>6, <2>7, <2>8
  <2> QED
    BY <2>1, <2>9
<1>3. Seq(Bucket) \subseteq T
  <2> HIDE DEF T
  <2> QED
    BY <1>1, <1>2, AppendInduction
<1> QED
  BY <1>3
=============================================================================
