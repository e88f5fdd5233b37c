--------------------------- MODULE PostRequestProofs ---------------------------
(* The body handlers, for every bound on the body, every buffer size, every  *)
(* cut of the body into brigades and every failure of the client.            *)
EXTENDS PostRequest, BucketLemmas

(* Facts about brigades with and without an EOS, as HTTP_IN and the filter    *)
(* hand them over.                                                            *)

\* Through the filter or past it, a brigade keeps its buckets' types and its
\* number of bytes.
LEMMA ThroughFacts ==
  ASSUME NEW f \in BOOLEAN, NEW bs \in Seq(Bucket)
  PROVE  /\ Through(f, bs) \in Seq(Bucket) /\ Len(Through(f, bs)) = Len(bs)
         /\ \A i \in 1..Len(bs) : Through(f, bs)[i].type = bs[i].type
         /\ Len(BytesOf(Through(f, bs))) = Len(BytesOf(bs))
         /\ bs = <<>> => Through(f, bs) = <<>>
<1>1. CASE f
  <2>1. Through(f, bs) = FilteredAll(bs)
    BY <1>1 DEF Through
  <2>2. FilteredAll(bs) \in Seq(Bucket) /\ Len(FilteredAll(bs)) = Len(bs)
    BY FilteredAllType
  <2>3. \A i \in 1..Len(bs) : FilteredAll(bs)[i].type = bs[i].type
    BY FilteredType DEF FilteredAll
  <2>4. bs = <<>> => FilteredAll(bs) = <<>>
    BY <2>2
  <2> QED
    BY <2>1, <2>2, <2>3, <2>4, FilteredLength
<1>2. CASE ~f
  BY <1>2 DEF Through
<1> QED
  BY <1>1, <1>2

LEMMA ThroughConcat ==
  ASSUME NEW f \in BOOLEAN, NEW p \in Seq(Bucket), NEW q \in Seq(Bucket)
  PROVE  Through(f, p \o q) = Through(f, p) \o Through(f, q)
BY FilteredAllConcat DEF Through

\* The EOS of a brigade is still there after the filter.
LEMMA EosThrough ==
  ASSUME NEW f \in BOOLEAN, NEW bs \in Seq(Bucket)
  PROVE  Filter!HasEos(Through(f, bs)) <=> Filter!HasEos(bs)
<1>1. /\ Len(Through(f, bs)) = Len(bs)
      /\ \A i \in 1..Len(bs) : Through(f, bs)[i].type = bs[i].type
  BY ThroughFacts
<1> QED
  BY <1>1 DEF Filter!HasEos

LEMMA EosConcat ==
  ASSUME NEW p \in Seq(Bucket), NEW q \in Seq(Bucket)
  PROVE  Filter!HasEos(p \o q) <=> Filter!HasEos(p) \/ Filter!HasEos(q)
<1>1. Len(p \o q) = Len(p) + Len(q)
  OBVIOUS
<1>2. \A i \in 1..Len(p) : i \in 1..Len(p \o q) /\ (p \o q)[i] = p[i]
  OBVIOUS
<1>3. \A i \in 1..Len(q) : Len(p) + i \in 1..Len(p \o q) /\ (p \o q)[Len(p) + i] = q[i]
  OBVIOUS
<1>4. ASSUME NEW i \in 1..Len(p \o q), i \notin 1..Len(p)
      PROVE  i - Len(p) \in 1..Len(q) /\ (p \o q)[i] = q[i - Len(p)]
  BY <1>1, <1>4
<1>5. Filter!HasEos(p) => Filter!HasEos(p \o q)
  BY <1>2 DEF Filter!HasEos
<1>6. Filter!HasEos(q) => Filter!HasEos(p \o q)
  BY <1>3 DEF Filter!HasEos
<1>7. ASSUME Filter!HasEos(p \o q) PROVE Filter!HasEos(p) \/ Filter!HasEos(q)
  <2>1. PICK i \in 1..Len(p \o q) : (p \o q)[i].type = "eos"
    BY <1>7 DEF Filter!HasEos
  <2>2. CASE i \in 1..Len(p)
    BY <1>2, <2>1, <2>2 DEF Filter!HasEos
  <2>3. CASE i \notin 1..Len(p)
    BY <1>4, <2>1, <2>3 DEF Filter!HasEos
  <2> QED
    BY <2>2, <2>3
<1> QED
  BY <1>5, <1>6, <1>7

\* Nothing follows an EOS that only the last bucket can be.
LEMMA NothingAfterEos ==
  ASSUME NEW p \in Seq(Bucket), NEW q \in Seq(Bucket),
         \A i \in 1..Len(p \o q) : (p \o q)[i].type = "eos" => i = Len(p \o q),
         Filter!HasEos(p)
  PROVE  q = <<>>
<1>1. PICK i \in 1..Len(p) : p[i].type = "eos"
  BY DEF Filter!HasEos
<1>2. i \in 1..Len(p \o q) /\ (p \o q)[i] = p[i] /\ Len(p \o q) = Len(p) + Len(q)
  OBVIOUS
<1>3. i = Len(p) + Len(q)
  BY <1>1, <1>2
<1> QED
  BY <1>3

\* No bucket, one bucket, one bucket after another.
LEMMA EosCases ==
  /\ ~Filter!HasEos(<<>>)
  /\ Filter!HasEos(<<EOS>>) /\ BytesOf(<<EOS>>) = <<>> /\ <<EOS>> \in Seq(Bucket)
<1>1. EOS \in Bucket
  BY DEF Bucket
<1>2. <<EOS>> \in Seq(Bucket)
  BY <1>1
<1>3. BytesOf(<<EOS>>) = EOS.bytes
  BY <1>1, BytesOfOne
<1>4. EOS.bytes = <<>> /\ EOS.type = "eos"
  BY DEF EOS
<1>5. Filter!HasEos(<<EOS>>)
  BY <1>4 DEF Filter!HasEos
<1>6. ~Filter!HasEos(<<>>)
  BY DEF Filter!HasEos
<1> QED
  BY <1>2, <1>3, <1>4, <1>5, <1>6

-----------------------------------------------------------------------------
(* What HTTP_IN hands over. *)

LEMMA BytesFacts ==
  ASSUME NEW from \in 0..MaxLen, NEW to \in 0..MaxLen, from <= to
  PROVE  Bytes(from, to) \in Seq(Byte) /\ Len(Bytes(from, to)) = to - from
<1>1. to - from \in Nat
  BY PostAssumption
<1>2. \A i \in 1..(to - from) : from + i \in Byte
  BY PostAssumption
<1> QED
  BY <1>1, <1>2 DEF Bytes

LEMMA BytesJoin ==
  ASSUME NEW from \in 0..MaxLen, NEW m \in 0..MaxLen, NEW to \in 0..MaxLen,
         from <= m, m <= to
  PROVE  Bytes(from, m) \o Bytes(m, to) = Bytes(from, to)
<1> DEFINE l == Bytes(from, m) \o Bytes(m, to)
           r == Bytes(from, to)
<1>0. from \in Int /\ m \in Int /\ to \in Int /\ from <= to
  BY PostAssumption
<1>1. /\ Bytes(from, m) \in Seq(Byte) /\ Len(Bytes(from, m)) = m - from
      /\ Bytes(m, to) \in Seq(Byte) /\ Len(Bytes(m, to)) = to - m
      /\ r \in Seq(Byte) /\ Len(r) = to - from
  <2>1. Bytes(from, m) \in Seq(Byte) /\ Len(Bytes(from, m)) = m - from
    BY BytesFacts
  <2>2. Bytes(m, to) \in Seq(Byte) /\ Len(Bytes(m, to)) = to - m
    BY BytesFacts
  <2>3. r \in Seq(Byte) /\ Len(r) = to - from
    BY <1>0, BytesFacts
  <2> QED
    BY <2>1, <2>2, <2>3
<1>2. l \in Seq(Byte) /\ Len(l) = to - from
  BY <1>0, <1>1, SMTT(60)
<1>3. ASSUME NEW i \in 1..(to - from) PROVE l[i] = r[i]
  <2>1. r[i] = from + i
    BY DEF Bytes
  <2>2. CASE i <= m - from
    <3>1. l[i] = Bytes(from, m)[i] /\ i \in 1..(m - from)
      BY <1>1, <2>2, PostAssumption
    <3> QED
      BY <2>1, <3>1 DEF Bytes
  <2>3. CASE i > m - from
    <3>1. /\ l[i] = Bytes(m, to)[i - (m - from)]
          /\ i - (m - from) \in 1..(to - m)
      BY <1>1, <2>3, PostAssumption, SMTT(60)
    <3>2. Bytes(m, to)[i - (m - from)] = m + (i - (m - from))
      BY <3>1 DEF Bytes
    <3>3. m + (i - (m - from)) = from + i
      BY PostAssumption
    <3> QED
      BY <2>1, <3>1, <3>2, <3>3
  <2>4. i <= m - from \/ i > m - from
    BY <1>0
  <2> QED
    BY <2>2, <2>3, <2>4, Zenon
<1> HIDE DEF l, r
<1>4. l = r
  BY <1>1, <1>2, <1>3, SeqEqual
<1> QED
  BY <1>4 DEF l, r

LEMMA DataFacts ==
  ASSUME NEW b \in Seq(Byte)
  PROVE  /\ DataBucket(b) \in Bucket /\ DataBucket(b).type # "eos"
         /\ DataBucket(b).bytes = b
         /\ <<DataBucket(b)>> \in Seq(Bucket)
BY DEF DataBucket, Bucket

\* Only an EOS may be empty.
NoneEmpty(bs) == \A i \in 1..Len(bs) : bs[i].type # "eos" => Len(bs[i].bytes) > 0

\* However the bytes are cut into buckets, they are the same bytes.
LEMMA CutsFacts ==
  ASSUME NEW from \in 0..MaxLen, NEW to \in 0..MaxLen, from < to,
         NEW cut \in Cuts(from, to)
  PROVE  /\ cut \in Seq(Bucket) /\ BytesOf(cut) = Bytes(from, to)
         /\ ~Filter!HasEos(cut) /\ NoneEmpty(cut)
<1>1. CASE cut = <<DataBucket(Bytes(from, to))>>
  <2> DEFINE d == DataBucket(Bytes(from, to))
  <2>1. /\ d \in Bucket /\ d.type # "eos" /\ d.bytes = Bytes(from, to)
        /\ Len(d.bytes) > 0
    <3>1. Bytes(from, to) \in Seq(Byte) /\ Len(Bytes(from, to)) > 0
      BY BytesFacts, PostAssumption
    <3> QED
      BY <3>1, DataFacts
  <2> HIDE DEF d
  <2>2. BytesOf(<<d>>) = Bytes(from, to) /\ <<d>> \in Seq(Bucket)
    BY <2>1, BytesOfOne
  <2>3. ~Filter!HasEos(<<d>>) /\ NoneEmpty(<<d>>)
    BY <2>1 DEF Filter!HasEos, NoneEmpty
  <2> QED
    BY <1>1, <2>2, <2>3 DEF d
<1>2. ASSUME NEW m \in (from + 1)..(to - 1),
             cut = <<DataBucket(Bytes(from, m)), DataBucket(Bytes(m, to))>>
      PROVE  /\ cut \in Seq(Bucket) /\ BytesOf(cut) = Bytes(from, to)
             /\ ~Filter!HasEos(cut) /\ NoneEmpty(cut)
  <2> DEFINE d == DataBucket(Bytes(from, m))
             e == DataBucket(Bytes(m, to))
  <2>1. m \in 0..MaxLen /\ from <= m /\ m <= to /\ m - from > 0 /\ to - m > 0
    BY PostAssumption
  <2>2. /\ d \in Bucket /\ d.type # "eos" /\ d.bytes = Bytes(from, m)
        /\ Len(d.bytes) > 0
    BY <2>1, BytesFacts, DataFacts
  <2>3. /\ e \in Bucket /\ e.type # "eos" /\ e.bytes = Bytes(m, to)
        /\ Len(e.bytes) > 0
    BY <2>1, BytesFacts, DataFacts
  <2>4. d.bytes \o e.bytes = Bytes(from, to)
    BY <2>1, <2>2, <2>3, BytesJoin
  <2> HIDE DEF d, e
  <2>5. <<d>> \in Seq(Bucket) /\ <<d, e>> = Append(<<d>>, e)
    BY <2>2
  <2>6. BytesOf(<<d, e>>) = d.bytes \o e.bytes
    <3>1. BytesOf(Append(<<d>>, e)) = BytesOf(<<d>>) \o e.bytes
      BY <2>3, <2>5, BytesOfAppend
    <3> QED
      BY <2>2, <2>5, <3>1, BytesOfOne
  <2>7. <<d, e>> \in Seq(Bucket) /\ ~Filter!HasEos(<<d, e>>) /\ NoneEmpty(<<d, e>>)
    BY <2>2, <2>3 DEF Filter!HasEos, NoneEmpty
  <2> QED
    BY <1>2, <2>4, <2>6, <2>7 DEF d, e
<1> QED
  BY <1>1, <1>2 DEF Cuts

LEMMA Brigades ==
  ASSUME TypeOK
  PROVE  /\ src \in Seq(Bucket) /\ ctx \in Seq(Bucket)
         /\ bb \in Seq(Bucket) /\ got \in Seq(Bucket)
         /\ Taken \in Nat /\ req.filtered \in BOOLEAN
         /\ arrived \in Nat /\ req.len \in Nat /\ req.len <= MaxLen
<1>1. {src, ctx, bb, got} \subseteq Seq(Bucket)
  BY DEF TypeOK
<1>2. /\ src \in Seq(Bucket) /\ ctx \in Seq(Bucket)
      /\ bb \in Seq(Bucket) /\ got \in Seq(Bucket)
  BY <1>1, Zenon
<1>3. Taken \in Nat
  BY <1>2, BytesOfType DEF Taken
<1>4. req \in Requests /\ arrived \in 0..MaxLen
  BY DEF TypeOK
<1>5. req.filtered \in BOOLEAN /\ req.len \in 0..MaxLen
  BY <1>4 DEF Requests
<1> QED
  BY <1>2, <1>3, <1>4, <1>5, PostAssumption

\* A successful read goes on where the last one ended, within what has come
\* and within the buffer; it ends with the EOS exactly where the body does.
Reads(s, to) ==
  /\ s \in Seq(Bucket) /\ BytesOf(s) = Bytes(Taken, to) /\ NoneEmpty(s)
  /\ to \in 0..MaxLen /\ Taken <= to /\ to <= arrived /\ to <= Taken + BufSize
  /\ \A i \in 1..Len(s) : s[i].type = "eos" => i = Len(s) /\ to = req.len
  /\ to = Taken => Filter!HasEos(s)
  /\ ~Chunked /\ to = req.len => Filter!HasEos(s)

LEMMA ReadableFacts ==
  ASSUME TypeOK, SentInOrder, NEW s \in Readable
  PROVE  \E to : Reads(s, to)
<1>1. /\ Taken \in Nat /\ Taken <= arrived /\ arrived \in 0..MaxLen
      /\ arrived <= req.len /\ req.len \in 0..MaxLen /\ Taken \in 0..MaxLen
  <2>1. /\ Taken \in Nat /\ arrived \in Nat
        /\ req.len \in Nat /\ req.len <= MaxLen
    BY Brigades
  <2>2. Taken <= arrived /\ arrived <= req.len
    BY DEF SentInOrder
  <2> QED
    BY <2>1, <2>2, PostAssumption
<1>2. CASE Chunked /\ wire = "sent" /\ Taken = req.len
  <2>1. s = <<EOS>>
    BY <1>2 DEF Readable
  <2>2. Bytes(Taken, Taken) = <<>>
    BY <1>1 DEF Bytes
  <2>3. (\A i \in 1..Len(s) : i = Len(s)) /\ NoneEmpty(s)
    BY <2>1 DEF NoneEmpty, EOS
  <2>4. Taken <= Taken + BufSize
    BY <1>1, PostAssumption
  <2>5. Reads(s, Taken)
    BY <1>1, <1>2, <2>1, <2>2, <2>3, <2>4, EosCases DEF Reads
  <2> QED
    BY <2>5
<1>3. CASE ~(Chunked /\ wire = "sent" /\ Taken = req.len)
  <2> DEFINE ends(to) == IF ~Chunked /\ to = req.len THEN <<EOS>> ELSE <<>>
  <2>1. PICK to \in {t \in (Taken + 1)..arrived : t <= Taken + BufSize} :
          \E cut \in Cuts(Taken, to) : s = cut \o ends(to)
    BY <1>3 DEF Readable
  <2>2. /\ to \in 0..MaxLen /\ Taken < to /\ to <= arrived
        /\ to <= Taken + BufSize /\ to # Taken /\ Taken <= to
    BY <1>1, <2>1, PostAssumption
  <2>3. PICK cut \in Cuts(Taken, to) : s = cut \o ends(to)
    BY <2>1
  <2>4. /\ cut \in Seq(Bucket) /\ BytesOf(cut) = Bytes(Taken, to)
        /\ ~Filter!HasEos(cut) /\ NoneEmpty(cut)
    BY <1>1, <2>2, <2>3, CutsFacts
  <2>5. CASE ~Chunked /\ to = req.len
    <3>1. s = cut \o <<EOS>>
      BY <2>3, <2>5
    <3>2. s \in Seq(Bucket) /\ Filter!HasEos(s)
      <4>1. s \in Seq(Bucket)
        BY <2>4, <3>1, EosCases
      <4>2. Filter!HasEos(cut \o <<EOS>>)
        BY <2>4, EosCases, EosConcat
      <4> QED
        BY <3>1, <4>1, <4>2
    <3>3. BytesOf(s) = Bytes(Taken, to)
      <4>1. BytesOf(s) = Bytes(Taken, to) \o <<>>
        BY <2>4, <3>1, EosCases, BytesOfConcat
      <4>2. Bytes(Taken, to) \in Seq(Byte)
        BY <1>1, <2>2, BytesFacts
      <4> QED
        BY <4>1, <4>2
    <3>4. ASSUME NEW i \in 1..Len(s), s[i].type = "eos" PROVE i = Len(s)
      <4>1. i \in 1..Len(cut) => s[i] = cut[i]
        BY <2>4, <3>1
      <4>2. i \notin 1..Len(cut)
        BY <2>4, <3>4, <4>1 DEF Filter!HasEos
      <4>3. Len(s) = Len(cut) + 1
        BY <2>4, <3>1
      <4> QED
        BY <2>4, <4>2, <4>3
    <3>5. NoneEmpty(s)
      <4>1. Len(s) = Len(cut) + 1 /\ s[Len(s)].type = "eos"
        BY <2>4, <3>1 DEF EOS
      <4>2. \A i \in 1..Len(cut) : s[i] = cut[i]
        BY <2>4, <3>1
      <4> QED
        BY <2>4, <4>1, <4>2 DEF NoneEmpty
    <3>6. Reads(s, to)
      BY <2>2, <2>5, <3>2, <3>3, <3>4, <3>5 DEF Reads
    <3> QED
      BY <3>6
  <2>6. CASE ~(~Chunked /\ to = req.len)
    <3>1. s = cut
      BY <2>3, <2>4, <2>6
    <3>2. Reads(s, to)
      BY <2>2, <2>4, <2>6, <3>1 DEF Reads, Filter!HasEos
    <3> QED
      BY <3>2
  <2> QED
    BY <2>5, <2>6
<1> QED
  BY <1>2, <1>3

-----------------------------------------------------------------------------
(* What the invariant says of a body read to its end, or as far as it came. *)

\* The handler has counted no more than was taken from the wire; once it has
\* the EOS it has counted the whole body, and when nothing waits in a brigade,
\* everything that was taken.
LEMMA Accounts ==
  ASSUME TypeOK, Conserved, EosEndsTheBody, Counted
  PROVE  /\ total <= Taken /\ Taken = total + Len(BytesOf(Batch))
         /\ Batch \in Seq(Bucket)
         /\ Filter!HasEos(got) => total = req.len /\ Batch = <<>>
         /\ Batch = <<>> =>
              total = Taken /\ (Filter!HasEos(got) <=> Filter!HasEos(src))
<1> DEFINE t == Through(req.filtered, src)
<1>1. /\ src \in Seq(Bucket) /\ got \in Seq(Bucket) /\ req.filtered \in BOOLEAN
      /\ Batch \in Seq(Bucket)
  <2>1. /\ src \in Seq(Bucket) /\ got \in Seq(Bucket) /\ bb \in Seq(Bucket)
        /\ ctx \in Seq(Bucket) /\ req.filtered \in BOOLEAN
    BY Brigades
  <2>2. Through(req.filtered, ctx) \in Seq(Bucket)
    BY <2>1, ThroughFacts
  <2> QED
    BY <2>1, <2>2 DEF Batch
<1>2. /\ t \in Seq(Bucket) /\ Len(t) = Len(src) /\ Len(BytesOf(t)) = Taken
      /\ \A i \in 1..Len(src) : t[i].type = src[i].type
  BY <1>1, ThroughFacts DEF Taken
<1>3. t = got \o Batch
  BY DEF Conserved
<1>4. Filter!HasEos(t) <=> Filter!HasEos(src)
  BY <1>1, EosThrough
<1>5. \A i \in 1..Len(t) : t[i].type = "eos" => i = Len(t)
  BY <1>2 DEF EosEndsTheBody
<1>6. Filter!HasEos(src) => Taken = req.len
  BY DEF EosEndsTheBody, Filter!HasEos
<1> HIDE DEF t
<1>7. /\ BytesOf(got) \in Seq(Byte) /\ BytesOf(Batch) \in Seq(Byte)
      /\ BytesOf(t) = BytesOf(got) \o BytesOf(Batch)
  BY <1>1, <1>3, BytesOfType, BytesOfConcat
<1>8. Taken = total + Len(BytesOf(Batch)) /\ Len(BytesOf(Batch)) \in Nat
  <2>1. Len(BytesOf(got) \o BytesOf(Batch)) = Len(BytesOf(got)) + Len(BytesOf(Batch))
    BY <1>7
  <2> QED
    BY <1>2, <1>7, <2>1 DEF Counted
<1>9. total \in Nat /\ Taken \in Nat
  BY Brigades DEF TypeOK
<1>10. ASSUME Batch = <<>>
       PROVE  total = Taken /\ (Filter!HasEos(got) <=> Filter!HasEos(src))
  <2>1. Len(BytesOf(Batch)) = 0
    BY <1>10, BytesOfEmpty
  <2>2. t = got
    BY <1>1, <1>3, <1>10
  <2> QED
    BY <1>4, <1>8, <1>9, <2>1, <2>2
<1>11. ASSUME Filter!HasEos(got) PROVE total = req.len /\ Batch = <<>>
  <2>1. Batch = <<>>
    BY <1>1, <1>3, <1>5, <1>11, NothingAfterEos
  <2> QED
    BY <1>6, <1>10, <1>11, <2>1
<1> QED
  BY <1>1, <1>8, <1>9, <1>10, <1>11

\* Nothing waits in a brigade where both are empty.
LEMMA NothingWaits ==
  ASSUME TypeOK, bb = <<>>, ctx = <<>> PROVE Batch = <<>>
<1>1. Through(req.filtered, ctx) = <<>>
  BY Brigades, ThroughFacts
<1> QED
  BY <1>1 DEF Batch

-----------------------------------------------------------------------------
(* The client's steps only let more arrive. *)

LEMMA ClientStep ==
  ASSUME PostInv, Client PROVE PostInv'
<1> USE DEF PostInv
<1>1. /\ UNCHANGED <<req, src, ctx, bb, got, fpc, frv, hpc, remaining, nrd>>
      /\ UNCHANGED <<announced, echoed, total, ending, result>>
  BY DEF Client, SendBytes, SendLastChunk, CloseEarly, SendMalformedChunk,
         ServerUnchanged, reqVars, filterVars, outVars
<1>2. /\ arrived' \in 0..MaxLen /\ arrived <= arrived' /\ arrived' <= req.len
      /\ wire' \in {"sending", "sent", "closed", "malformed"}
  <2>1. /\ arrived \in Nat /\ arrived <= req.len /\ req.len \in Nat
        /\ req.len <= MaxLen
    BY Brigades DEF SentInOrder
  <2>2. ASSUME NEW n \in 1..MaxLen, SendBytes(n)
        PROVE  arrived' = arrived + n /\ arrived + n <= req.len
               /\ wire' \in {"sending", "sent", "closed", "malformed"}
    BY <2>2 DEF SendBytes
  <2>3. CASE SendLastChunk \/ CloseEarly \/ SendMalformedChunk
    BY <2>1, <2>3, PostAssumption DEF SendLastChunk, CloseEarly, SendMalformedChunk
  <2> QED
    BY <2>1, <2>2, <2>3, PostAssumption DEF Client
<1>3. TypeOK'
  BY <1>1, <1>2, ZenonT(60) DEF TypeOK
<1>4. Taken' = Taken /\ Chunked' = Chunked /\ SetupFails' = SetupFails /\ Batch' = Batch
  BY <1>1 DEF Taken, Chunked, SetupFails, Batch
<1>5. Conserved' /\ ReadPoints' /\ BatchFits'
  BY <1>1, <1>4 DEF Conserved, ReadPoints, Failed, BatchFits, Filter!HasEos
<1>6. SentInOrder'
  <2>1. /\ Taken \in Nat /\ arrived \in Nat /\ Taken <= arrived
        /\ BytesOf(src) = Bytes(0, Taken)
    BY Brigades DEF SentInOrder
  <2>2. Taken <= arrived'
    BY <1>2, <2>1, PostAssumption
  <2> QED
    BY <1>1, <1>2, <1>4, <2>1, <2>2 DEF SentInOrder
<1>7. EosEndsTheBody' /\ Counted' /\ RemainingTells'
  BY <1>1, <1>4 DEF EosEndsTheBody, Counted, RemainingTells, Filter!HasEos
<1>8. Stages'
  BY <1>1, <1>4 DEF Stages, Filter!HasEos
<1>9. NoPartialEcho'
  BY <1>1, <1>4 DEF NoPartialEcho, Done
<1>10. TrailerEndsTheBody'
  BY <1>1, <1>4 DEF TrailerEndsTheBody, Done, Filter!HasEos
<1>11. EatenTotalTells'
  <2>1. ASSUME hpc = "done", ending = "total" PROVE total <= arrived'
    <3>1. total <= arrived /\ total \in Nat /\ arrived \in Nat
      BY <2>1, Brigades DEF EatenTotalTells, Done, TypeOK
    <3> QED
      BY <1>2, <3>1, PostAssumption
  <2> QED
    BY <1>1, <2>1 DEF EatenTotalTells, Done
<1> QED
  BY <1>3, <1>5, <1>6, <1>7, <1>8, <1>9, <1>10, <1>11

-----------------------------------------------------------------------------
(* The handler's steps outside the read loop leave the brigades alone. *)

\* What does not change with the brigades and what is counted.
LEMMA BrigadesKept ==
  ASSUME PostInv, UNCHANGED <<reqVars, wireVars, filterVars, remaining>>,
         UNCHANGED <<echoed, total>>,
         hpc' # "reading", hpc \in {"setup", "loop", "after"},
         hpc = "after" => hpc' = "done"
  PROVE  /\ Conserved' /\ SentInOrder' /\ ReadPoints' /\ BatchFits'
         /\ EosEndsTheBody' /\ Counted' /\ RemainingTells'
<1> USE DEF PostInv, reqVars, wireVars, filterVars
<1>1. Taken' = Taken /\ Chunked' = Chunked /\ Batch' = Batch
  BY DEF Taken, Chunked, Batch
<1>2. Conserved' /\ SentInOrder' /\ ReadPoints' /\ BatchFits'
  <2>1. Conserved' /\ SentInOrder' /\ BatchFits'
    BY <1>1 DEF Conserved, SentInOrder, BatchFits, Filter!HasEos
  <2>2. frv = "gaveup" => hpc' \in {"after", "done"}
    BY DEF ReadPoints
  <2>3. ReadPoints'
    BY <1>1, <2>2 DEF ReadPoints, Failed, Filter!HasEos
  <2> QED
    BY <2>1, <2>3
<1>3. EosEndsTheBody' /\ Counted' /\ RemainingTells'
  BY <1>1 DEF EosEndsTheBody, Counted, RemainingTells, Filter!HasEos
<1> QED
  BY <1>2, <1>3

HandlerStep ==
  Refuse \/ NoBody \/ Begin \/ NoMore \/ FinishEcho \/ FinishEat \/ FinishChunk

LEMMA HandlerFrame ==
  ASSUME HandlerStep
  PROVE  /\ UNCHANGED <<reqVars, wireVars, filterVars, remaining, echoed, total>>
         /\ hpc \in {"setup", "loop", "after"} /\ hpc' # "reading"
         /\ hpc = "after" => hpc' = "done"
BY DEF HandlerStep, Refuse, NoBody, Begin, NoMore, FinishEcho, FinishEat,
       FinishChunk, Finish, outVars

LEMMA HandlerTypes ==
  ASSUME PostInv, HandlerStep PROVE TypeOK'
<1>1. UNCHANGED <<req, arrived, wire, src, ctx, bb, got, fpc, frv>>
      /\ UNCHANGED <<remaining, echoed, total>>
  BY HandlerFrame DEF reqVars, wireVars, filterVars
<1>2. /\ hpc' \in {"setup", "loop", "reading", "after", "done"}
      /\ nrd' \in -1..MaxLen /\ announced' \in -1..MaxLen
  <2>1. nrd \in -1..MaxLen /\ announced \in -1..MaxLen /\ remaining \in -1..MaxLen
    BY DEF PostInv, TypeOK
  <2>2. 0 \in -1..MaxLen /\ -1 \in -1..MaxLen
    BY PostAssumption
  <2> QED
    BY <2>1, <2>2 DEF HandlerStep, Refuse, NoBody, Begin, NoMore, FinishEcho,
       FinishEat, FinishChunk, Finish, outVars
<1>3. /\ ending' \in {"none", "error", "total", "trailer", "no trailer"}
      /\ result' \in {"none", "OK", "bad request", "setup failed"}
  <2>1. /\ ending \in {"none", "error", "total", "trailer", "no trailer"}
        /\ result \in {"none", "OK", "bad request", "setup failed"}
    BY DEF PostInv, TypeOK
  <2> QED
    BY <2>1 DEF HandlerStep, Refuse, NoBody, Begin, NoMore, FinishEcho,
       FinishEat, FinishChunk, Finish, outVars
<1> QED
  BY <1>1, <1>2, <1>3 DEF PostInv, TypeOK

\* At the end of the loop: with the EOS the whole body is counted, without it
\* what was taken, and with a Content-Length that is not the whole body.
LEMMA AfterTheLoop ==
  ASSUME PostInv, hpc = "after"
  PROVE  /\ ~SetupFails /\ ending = "none" /\ total \in Nat /\ total <= arrived
         /\ nrd = 0 \/ nrd = -1
         /\ nrd = 0 => Filter!HasEos(got) /\ total = req.len
         /\ nrd = -1 => ~Filter!HasEos(got) /\ (~Chunked => total # req.len)
<1> USE DEF PostInv
<1>1. /\ total <= Taken /\ Taken = total + Len(BytesOf(Batch))
      /\ Filter!HasEos(got) => total = req.len /\ Batch = <<>>
      /\ Batch = <<>> =>
           total = Taken /\ (Filter!HasEos(got) <=> Filter!HasEos(src))
  BY Accounts
<1>2. Batch = <<>> \/ Len(BytesOf(Batch)) > 0
  <2>1. CASE Failed
    BY <2>1 DEF ReadPoints
  <2>2. CASE ~Failed
    <3>1. bb = <<>> /\ ctx = <<>>
      BY <2>2 DEF ReadPoints, Failed
    <3> QED
      BY <3>1, NothingWaits
  <2> QED
    BY <2>1, <2>2
<1>3. /\ total \in Nat /\ Taken \in Nat /\ arrived \in Nat /\ req.len \in Nat
      /\ Taken <= arrived /\ arrived <= req.len
  BY Brigades DEF SentInOrder, TypeOK
<1>4. /\ ~SetupFails /\ ending = "none"
      /\ ~Chunked => req.len > 0
      /\ (nrd = 0  /\ Filter!HasEos(got)) \/ (nrd = -1 /\ ~Filter!HasEos(got))
  BY DEF Stages
<1>5. total <= arrived
  BY <1>1, <1>3
<1>6. ASSUME ~Filter!HasEos(got), ~Chunked PROVE total # req.len
  <2>1. CASE Batch = <<>>
    <3>1. total = Taken /\ ~Filter!HasEos(src)
      BY <1>1, <1>6, <2>1
    <3>2. Taken # req.len
      BY <1>4, <1>6, <3>1 DEF EosEndsTheBody
    <3> QED
      BY <3>1, <3>2
  <2>2. CASE Len(BytesOf(Batch)) > 0
    <3>1. Len(BytesOf(Batch)) \in Nat
      BY Accounts, BytesOfType
    <3> QED
      BY <1>1, <1>3, <2>2, <3>1
  <2> QED
    BY <1>2, <2>1, <2>2
<1> QED
  BY <1>1, <1>3, <1>4, <1>5, <1>6

LEMMA HandlerStepKeeps ==
  ASSUME PostInv, HandlerStep PROVE PostInv'
<1> USE DEF PostInv
<1>0. /\ UNCHANGED <<req, arrived, wire, src, ctx, bb, got, fpc, frv>>
      /\ UNCHANGED <<remaining, echoed, total>>
  BY HandlerFrame DEF reqVars, wireVars, filterVars
<1>1. TypeOK'
  BY HandlerTypes
<1>2. /\ Conserved' /\ SentInOrder' /\ ReadPoints' /\ BatchFits'
      /\ EosEndsTheBody' /\ Counted' /\ RemainingTells'
  <2>1. /\ UNCHANGED <<reqVars, wireVars, filterVars, remaining>>
        /\ UNCHANGED <<echoed, total>>
        /\ hpc \in {"setup", "loop", "after"} /\ hpc' # "reading"
        /\ hpc = "after" => hpc' = "done"
    BY HandlerFrame
  <2> QED
    BY <2>1, BrigadesKept
<1>3. /\ Chunked' = Chunked /\ SetupFails' = SetupFails
      /\ Filter!HasEos(got)' = Filter!HasEos(got)
  BY <1>0 DEF Chunked, SetupFails, Filter!HasEos
<1>4. Stages' /\ NoPartialEcho' /\ EatenTotalTells' /\ TrailerEndsTheBody'
  <2> USE DEF Done, Finish
  <2>1. CASE Refuse
    <3>1. /\ hpc = "setup" /\ SetupFails /\ hpc' = "done" /\ ending' = ending
          /\ got = <<>> /\ ending = "none" /\ announced' = -1
      BY <2>1 DEF Refuse, Stages
    <3>2. ~Filter!HasEos(got)
      BY <3>1, EosCases
    <3>3. Stages'
      BY <1>0, <3>1 DEF Stages
    <3>4. req.handler = "echo_post" => echoed = <<>>
      BY <3>1, BytesOfEmpty DEF Counted
    <3>5. NoPartialEcho'
      BY <1>0, <1>3, <3>1, <3>4 DEF NoPartialEcho
    <3>6. EatenTotalTells' /\ TrailerEndsTheBody'
      BY <1>0, <1>3, <3>1, <3>2 DEF EatenTotalTells, TrailerEndsTheBody
    <3> QED
      BY <3>3, <3>5, <3>6
  <2>2. CASE NoBody
    <3>1. /\ hpc = "setup" /\ ~Chunked /\ ~(remaining > 0) /\ hpc' = "done"
          /\ ending' = ending /\ ending = "none" /\ got = <<>> /\ result' = "OK"
          /\ announced' = announced /\ announced = -1
      BY <2>2 DEF NoBody, ShouldRead, Stages
    <3>2. ~Filter!HasEos(got) /\ BytesOf(got) = <<>>
      BY <3>1, EosCases, BytesOfEmpty
    <3>3. total = 0 /\ (req.handler = "echo_post" => echoed = <<>>)
      BY <3>2 DEF Counted
    <3>4. req.len = 0
      <4>1. req.framing = "length" => remaining = req.len
        BY <3>2 DEF RemainingTells
      <4>2. req.framing \in {"none", "length", "invalid", "chunked"}
        BY DEF TypeOK, Requests
      <4>3. req.len \in Nat
        BY Brigades
      <4> QED
        BY <3>1, <4>1, <4>2, <4>3 DEF Stages, Chunked
    <3>5. Stages'
      BY <1>0, <3>1 DEF Stages
    <3>6. NoPartialEcho'
      BY <1>0, <3>1, <3>3, <3>4 DEF NoPartialEcho
    <3>7. EatenTotalTells' /\ TrailerEndsTheBody'
      BY <1>0, <1>3, <3>1, <3>2 DEF EatenTotalTells, TrailerEndsTheBody
    <3> QED
      BY <3>5, <3>6, <3>7
  <2>3. CASE Begin
    <3>1. /\ hpc = "setup" /\ ~SetupFails /\ (Chunked \/ remaining > 0)
          /\ hpc' = "loop" /\ ending' = ending /\ ending = "none" /\ got = <<>>
          /\ announced' = IF req.args /\ req.handler # "eat_post"
                            THEN remaining ELSE -1
      BY <2>3 DEF Begin, ShouldRead, Stages
    <3>2. ~Filter!HasEos(got)
      BY <3>1, EosCases
    <3>3. remaining = IF req.framing = "length" THEN req.len ELSE 0
      BY <3>2 DEF RemainingTells
    <3>4. ~Chunked => req.framing = "length" /\ req.len > 0 /\ remaining = req.len
      BY <3>1, <3>3
    <3>5. req.handler = "echo_post" => ~Chunked
      BY <3>1 DEF SetupFails
    <3>6. req.handler = "echo_post" => announced' \in {-1, req.len}
      BY <3>1, <3>4, <3>5
    <3>7. Stages'
      BY <1>0, <1>3, <3>1, <3>4, <3>6 DEF Stages
    <3> QED
      BY <3>1, <3>7 DEF NoPartialEcho, EatenTotalTells, TrailerEndsTheBody
  <2>4. CASE NoMore
    <3>1. /\ hpc = "loop" /\ hpc' = "after" /\ nrd' = 0
          /\ remaining < 0 \/ (~Chunked /\ remaining = 0)
          /\ announced' = announced /\ ending' = ending
      BY <2>4 DEF NoMore, AtEnd, outVars
    <3>2. ~Chunked => req.framing = "length" /\ req.len > 0
      BY <3>1 DEF Stages
    <3>3. Filter!HasEos(got)
      <4>1. req.len \in Nat
        BY Brigades
      <4>2. ~Filter!HasEos(got) =>
              remaining = IF req.framing = "length" THEN req.len ELSE 0
        BY DEF RemainingTells
      <4> QED
        BY <3>1, <3>2, <4>1, <4>2
    <3>4. Stages'
      BY <1>0, <1>3, <3>1, <3>3 DEF Stages
    <3> QED
      BY <3>1, <3>4 DEF NoPartialEcho, EatenTotalTells, TrailerEndsTheBody
  <2>5. CASE FinishEcho
    <3>1. /\ hpc = "after" /\ hpc' = "done" /\ req.handler = "echo_post"
          /\ ending' = IF nrd < 0 THEN "error" ELSE "none"
          /\ announced' = announced /\ nrd' = nrd
      BY <2>5 DEF FinishEcho
    <3>2. announced \in {-1, req.len}
      BY <3>1 DEF Stages
    <3>3. nrd = 0 => total = req.len
      BY <3>1, AfterTheLoop
    <3>4. Len(echoed) = total
      BY <3>1 DEF Counted
    <3>5. nrd = 0 \/ nrd = -1
      BY <3>1, AfterTheLoop
    <3>6. Stages'
      BY <1>0, <3>1 DEF Stages
    <3>7. NoPartialEcho'
      <4>1. ~SetupFails'
        BY <1>3, <3>1, AfterTheLoop
      <4> QED
        BY <1>0, <3>1, <3>2, <3>3, <3>4, <3>5, <4>1 DEF NoPartialEcho
    <3>8. EatenTotalTells' /\ TrailerEndsTheBody'
      BY <1>0, <3>1 DEF EatenTotalTells, TrailerEndsTheBody
    <3> QED
      BY <3>6, <3>7, <3>8
  <2>6. CASE FinishEat
    <3>1. /\ hpc = "after" /\ hpc' = "done" /\ req.handler = "eat_post"
          /\ ending' = "total" /\ nrd' = nrd
      BY <2>6 DEF FinishEat
    <3>2. ~Chunked
      BY <3>1, AfterTheLoop DEF SetupFails
    <3>3. (nrd = 0 <=> total = req.len) /\ total <= arrived
      BY <3>1, <3>2, AfterTheLoop
    <3>4. Stages'
      BY <1>0, <3>1 DEF Stages
    <3>5. EatenTotalTells'
      BY <1>0, <3>1, <3>3 DEF EatenTotalTells
    <3>6. NoPartialEcho' /\ TrailerEndsTheBody'
      BY <1>0, <3>1 DEF NoPartialEcho, TrailerEndsTheBody
    <3> QED
      BY <3>4, <3>5, <3>6
  <2>7. CASE FinishChunk
    <3>1. /\ hpc = "after" /\ hpc' = "done" /\ req.handler = "echo_post_chunk"
          /\ nrd' = nrd /\ ending = "none"
          /\ nrd < 0 => result' = "bad request" /\ ending' = ending
          /\ ~(nrd < 0) => /\ result' = "OK"
                           /\ ending' = IF req.trailer /\ Filter!HasEos(got)
                                          THEN "trailer" ELSE "no trailer"
      BY <2>7, AfterTheLoop DEF FinishChunk
    <3>2. /\ nrd = 0 \/ nrd = -1
          /\ nrd = 0 => Filter!HasEos(got) /\ total = req.len
      BY <3>1, AfterTheLoop
    <3>3. Stages'
      BY <1>0, <3>1 DEF Stages
    <3>4. /\ nrd < 0 <=> nrd = -1
          /\ "bad request" # "OK" /\ "none" # "trailer"
          /\ "no trailer" # "trailer" /\ "echo_post" # "echo_post_chunk"
          /\ "total" \notin {"none", "trailer", "no trailer"}
      BY <3>2
    <3>5. CASE nrd = -1
      <4>1. result' = "bad request" /\ ending' = "none" /\ nrd' # 0
        <5>1. nrd < 0 /\ nrd # 0
          BY <3>5
        <5> QED
          BY <3>1, <5>1, Zenon
      <4>2. NoPartialEcho'
        BY <1>0, <3>1, <3>4, <4>1, Zenon DEF NoPartialEcho
      <4>3. EatenTotalTells'
        BY <3>4, <4>1, Zenon DEF EatenTotalTells
      <4>4. TrailerEndsTheBody'
        BY <3>4, <4>1, Zenon DEF TrailerEndsTheBody
      <4> QED
        BY <3>3, <4>2, <4>3, <4>4
    <3>6. CASE nrd = 0
      <4>1. /\ total' = req'.len /\ Filter!HasEos(got)' /\ nrd' = 0
            /\ ending' = IF req.trailer THEN "trailer" ELSE "no trailer"
        <5>1. ~(nrd < 0)
          BY <3>6
        <5> QED
          BY <1>0, <1>3, <3>1, <3>2, <3>6, <5>1, Zenon
      <4>2. NoPartialEcho'
        <5>1. ~SetupFails'
          BY <1>3, <3>1, AfterTheLoop
        <5> QED
          BY <1>0, <3>1, <3>4, <4>1, <5>1, Zenon DEF NoPartialEcho
      <4>3. EatenTotalTells'
        BY <3>4, <4>1, Zenon DEF EatenTotalTells
      <4>4. TrailerEndsTheBody'
        <5>1. CASE req.trailer
          BY <1>0, <4>1, <5>1, Zenon DEF TrailerEndsTheBody
        <5>2. CASE ~req.trailer
          BY <1>0, <3>4, <4>1, <5>2, Zenon DEF TrailerEndsTheBody
        <5> QED
          BY <5>1, <5>2
      <4> QED
        BY <3>3, <4>2, <4>3, <4>4
    <3> QED
      BY <3>2, <3>5, <3>6
  <2> QED
    BY <2>1, <2>2, <2>3, <2>4, <2>5, <2>6, <2>7 DEF HandlerStep
<1> QED
  BY <1>1, <1>2, <1>4

-----------------------------------------------------------------------------
(* One read: the handler asks, HTTP_IN hands over, the filter passes on. *)

\* While a read goes on nothing is taken, counted, written or answered.
LEMMA ReadFrame ==
  ASSUME PostInv, hpc \in {"loop", "reading"}, hpc' = "reading",
         UNCHANGED <<reqVars, wireVars, got, remaining, nrd, outVars>>,
         src' \in Seq(Bucket), ctx' \in Seq(Bucket), bb' \in Seq(Bucket),
         fpc' \in {"caller", "fetch", "loop"}, frv' \in {"none", "OK", "error"}
  PROVE  /\ TypeOK' /\ Counted' /\ RemainingTells' /\ Stages'
         /\ NoPartialEcho' /\ EatenTotalTells' /\ TrailerEndsTheBody'
<1> USE DEF PostInv, reqVars, wireVars, outVars
<1>1. Chunked' = Chunked /\ SetupFails' = SetupFails
  BY DEF Chunked, SetupFails
<1>2. {src', ctx', bb', got'} \subseteq Seq(Bucket)
  BY Brigades
<1>3. TypeOK'
  BY <1>2 DEF TypeOK
<1>4. Counted' /\ RemainingTells'
  BY <1>1 DEF Counted, RemainingTells, Filter!HasEos
<1>5. Stages'
  BY <1>1 DEF Stages
<1>6. NoPartialEcho' /\ EatenTotalTells' /\ TrailerEndsTheBody'
  BY DEF NoPartialEcho, EatenTotalTells, TrailerEndsTheBody, Done
<1> QED
  BY <1>3, <1>4, <1>5, <1>6

LEMMA AskStep ==
  ASSUME PostInv, Ask PROVE PostInv'
<1> USE DEF PostInv
<1>1. /\ hpc = "loop" /\ hpc' = "reading" /\ bb = <<>> /\ ctx = <<>>
      /\ fpc' = "fetch" /\ frv' = "none" /\ ~Filter!HasEos(got)
      /\ UNCHANGED <<reqVars, wireVars, src, ctx, bb, got, remaining, nrd, outVars>>
  BY DEF Ask, Filter!Call, ReadPoints, Failed
<1>2. /\ src \in Seq(Bucket) /\ ctx \in Seq(Bucket) /\ bb \in Seq(Bucket)
  BY Brigades
<1>3. /\ TypeOK' /\ Counted' /\ RemainingTells' /\ Stages'
      /\ NoPartialEcho' /\ EatenTotalTells' /\ TrailerEndsTheBody'
  BY <1>1, <1>2, ReadFrame
<1>4. Taken' = Taken /\ Chunked' = Chunked /\ Batch' = Batch
  BY <1>1 DEF Taken, Chunked, Batch, reqVars
<1>5. Conserved' /\ SentInOrder' /\ EosEndsTheBody'
  BY <1>1, <1>4 DEF Conserved, SentInOrder, EosEndsTheBody, Filter!HasEos,
                    reqVars, wireVars
<1>6. ReadPoints' /\ BatchFits'
  BY <1>1 DEF ReadPoints, Failed, BatchFits, Filter!HasEos
<1> QED
  BY <1>3, <1>5, <1>6

\* A read that fails hands over nothing.
LEMMA FailedReadStep ==
  ASSUME PostInv, Fetched(<<>>, FALSE),
         UNCHANGED <<reqVars, wireVars, hpc, remaining, nrd, outVars>>
  PROVE  PostInv'
<1> USE DEF PostInv
<1>1. /\ src \in Seq(Bucket) /\ ctx \in Seq(Bucket) /\ bb \in Seq(Bucket)
      /\ src \o <<>> = src /\ ctx \o <<>> = ctx /\ bb \o <<>> = bb
  BY Brigades
<1>2. /\ fpc = "fetch" /\ fpc' = "caller" /\ frv' = "error"
      /\ UNCHANGED <<src, ctx, bb, got>>
  BY <1>1 DEF Fetched, Filter!Fetch
<1>3. hpc = "reading" /\ bb = <<>> /\ ctx = <<>> /\ ~Filter!HasEos(got)
  BY <1>2 DEF ReadPoints, Failed
<1>4. /\ TypeOK' /\ Counted' /\ RemainingTells' /\ Stages'
      /\ NoPartialEcho' /\ EatenTotalTells' /\ TrailerEndsTheBody'
  BY <1>1, <1>2, <1>3, ReadFrame
<1>5. Taken' = Taken /\ Chunked' = Chunked /\ Batch' = Batch
  BY <1>2 DEF Taken, Chunked, Batch, reqVars
<1>6. Conserved' /\ SentInOrder' /\ EosEndsTheBody'
  BY <1>2, <1>5 DEF Conserved, SentInOrder, EosEndsTheBody, Filter!HasEos,
                    reqVars, wireVars
<1>7. ReadPoints' /\ BatchFits'
  <2>1. Batch' = <<>>
    BY <1>3, <1>5, NothingWaits
  <2> QED
    BY <1>2, <1>3, <2>1 DEF ReadPoints, Failed, BatchFits, Filter!HasEos
<1> QED
  BY <1>4, <1>6, <1>7

\* A read that succeeds continues the body where the last one ended.
LEMMA ReadStep ==
  ASSUME PostInv, NEW s \in Readable, Fetched(s, TRUE),
         UNCHANGED <<reqVars, wireVars, hpc, remaining, nrd, outVars>>
  PROVE  PostInv'
<1> USE DEF PostInv
<1>1. PICK to : Reads(s, to)
  BY ReadableFacts
<1>2. /\ src \in Seq(Bucket) /\ ctx \in Seq(Bucket) /\ bb \in Seq(Bucket)
      /\ got \in Seq(Bucket) /\ Taken \in Nat /\ req.filtered \in BOOLEAN
      /\ req.len \in Nat /\ req.len <= MaxLen /\ arrived \in Nat
  BY Brigades
<1>3. fpc = "fetch" /\ src' = src \o s /\ got' = got
  BY DEF Fetched, Filter!Fetch
<1>4. hpc = "reading" /\ bb = <<>> /\ ctx = <<>> /\ ~Filter!HasEos(got)
  BY <1>3 DEF ReadPoints, Failed
<1>5. /\ s \in Seq(Bucket) /\ BytesOf(s) = Bytes(Taken, to) /\ NoneEmpty(s)
      /\ to \in 0..MaxLen /\ Taken <= to /\ to <= arrived /\ to <= Taken + BufSize
      /\ \A i \in 1..Len(s) : s[i].type = "eos" => i = Len(s) /\ to = req.len
      /\ to = Taken => Filter!HasEos(s)
      /\ ~Chunked /\ to = req.len => Filter!HasEos(s)
  BY <1>1 DEF Reads
<1>6. /\ <<>> \o s = s /\ src \o s \in Seq(Bucket)
      /\ Len(src \o s) = Len(src) + Len(s)
  BY <1>2, <1>5
<1>7. \/ /\ req.filtered /\ ctx' = s /\ bb' = <<>>
         /\ fpc' = "loop" /\ frv' = "none"
      \/ /\ ~req.filtered /\ ctx' = <<>> /\ bb' = s
         /\ fpc' = "caller" /\ frv' = "OK"
  BY <1>2, <1>4, <1>6 DEF Fetched, Filter!Fetch
<1>8. /\ TypeOK' /\ Counted' /\ RemainingTells' /\ Stages'
      /\ NoPartialEcho' /\ EatenTotalTells' /\ TrailerEndsTheBody'
  <2>1. /\ src' \in Seq(Bucket) /\ ctx' \in Seq(Bucket) /\ bb' \in Seq(Bucket)
        /\ fpc' \in {"caller", "fetch", "loop"} /\ frv' \in {"none", "OK", "error"}
    BY <1>2, <1>3, <1>4, <1>5, <1>6, <1>7
  <2> QED
    BY <1>3, <1>4, <2>1, ReadFrame
<1>9. Chunked' = Chunked /\ req' = req /\ arrived' = arrived
  BY DEF Chunked, reqVars, wireVars
<1>10. Batch' = Through(req.filtered, s)
  <2> DEFINE t == Through(req.filtered, s)
  <2>1. /\ t \in Seq(Bucket) /\ Through(FALSE, <<>>) = <<>>
        /\ (~req.filtered => t = s)
    BY <1>2, <1>5, ThroughFacts DEF Through
  <2>2. t \o <<>> = t /\ <<>> \o t = t
    BY <2>1
  <2>3. CASE req.filtered
    <3>1. Batch' = <<>> \o t
      BY <1>7, <1>9, <2>3 DEF Batch
    <3> QED
      BY <2>2, <3>1
  <2>4. CASE ~req.filtered
    <3>1. req.filtered = FALSE
      BY <1>2, <2>4
    <3>2. Batch' = s \o Through(FALSE, <<>>)
      BY <1>7, <1>9, <2>4, <3>1 DEF Batch
    <3> QED
      BY <2>1, <2>2, <2>4, <3>2
  <2> QED
    BY <2>3, <2>4
<1>11. Batch = <<>>
  BY <1>4, NothingWaits
<1>12. total = Taken /\ ~Filter!HasEos(src)
  BY <1>4, <1>11, Accounts
<1>13. Conserved'
  <2>1. Through(req.filtered, src \o s)
          = Through(req.filtered, src) \o Through(req.filtered, s)
    BY <1>2, <1>5, ThroughConcat
  <2>2. Through(req.filtered, src) = got
    BY <1>2, <1>11 DEF Conserved
  <2> QED
    BY <1>3, <1>9, <1>10, <2>1, <2>2 DEF Conserved
<1>14. BytesOf(src \o s) = Bytes(0, to) /\ Taken' = to
  <2>1. BytesOf(src \o s) = BytesOf(src) \o BytesOf(s)
    BY <1>2, <1>5, BytesOfConcat
  <2>2. BytesOf(src) = Bytes(0, Taken)
    BY DEF SentInOrder
  <2>3. 0 \in 0..MaxLen /\ Taken \in 0..MaxLen /\ to \in 0..MaxLen
        /\ 0 <= Taken /\ Taken <= to /\ 0 <= to
    BY <1>2, <1>5, PostAssumption
  <2>4. Bytes(0, Taken) \o Bytes(Taken, to) = Bytes(0, to)
    BY <2>3, BytesJoin
  <2>5. BytesOf(src \o s) = Bytes(0, to)
    BY <1>5, <2>1, <2>2, <2>4
  <2>6. Len(Bytes(0, to)) = to
    BY <2>3, BytesFacts
  <2> QED
    BY <1>3, <2>5, <2>6 DEF Taken
<1>15. SentInOrder'
  BY <1>3, <1>5, <1>9, <1>14 DEF SentInOrder
<1>16. ReadPoints'
  BY <1>3, <1>4, <1>7, <1>9 DEF ReadPoints, Failed, Filter!HasEos
<1>17. BatchFits'
  <2>1. Len(BytesOf(Through(req.filtered, s))) = Len(BytesOf(s))
    BY <1>2, <1>5, ThroughFacts
  <2>2. Len(BytesOf(s)) = to - Taken
    <3>1. Taken \in 0..MaxLen
      BY <1>2, <1>5, PostAssumption
    <3> QED
      BY <1>5, <3>1, BytesFacts
  <2>3. Filter!HasEos(Through(req.filtered, s)) <=> Filter!HasEos(s)
    BY <1>2, <1>5, EosThrough
  <2>4. /\ Len(BytesOf(Batch')) <= BufSize
        /\ Len(BytesOf(Batch')) = 0 => Filter!HasEos(Batch')
    BY <1>2, <1>5, <1>10, <2>1, <2>2, <2>3, PostAssumption
  <2> QED
    BY <2>4 DEF BatchFits, Filter!HasEos
<1>18. EosEndsTheBody'
  <2>1. ASSUME NEW i \in 1..Len(src \o s), (src \o s)[i].type = "eos"
        PROVE  i = Len(src \o s) /\ to = req.len
    <3>1. i \notin 1..Len(src)
      <4>1. i \in 1..Len(src) => (src \o s)[i] = src[i]
        BY <1>2, <1>5
      <4> QED
        BY <1>12, <2>1, <4>1 DEF Filter!HasEos
    <3>2. i - Len(src) \in 1..Len(s) /\ (src \o s)[i] = s[i - Len(src)]
      BY <1>2, <1>5, <1>6, <3>1
    <3>3. i - Len(src) = Len(s) /\ to = req.len
      BY <1>5, <2>1, <3>2
    <3> QED
      BY <1>2, <1>5, <1>6, <3>3
  <2>2. Filter!HasEos(s) => Filter!HasEos(src \o s)
    BY <1>2, <1>5, EosConcat
  <2>3. ~Chunked /\ to = req.len => Filter!HasEos(src \o s)
    BY <1>5, <2>2
  <2>4. NoneEmpty(src \o s)
    <3>1. \A i \in 1..Len(src) : (src \o s)[i] = src[i]
      BY <1>2, <1>5
    <3>2. ASSUME NEW i \in 1..Len(src \o s), i \notin 1..Len(src)
          PROVE  i - Len(src) \in 1..Len(s) /\ (src \o s)[i] = s[i - Len(src)]
      BY <1>2, <1>5, <1>6, <3>2
    <3>3. NoneEmpty(src)
      BY DEF EosEndsTheBody, NoneEmpty
    <3> QED
      BY <1>5, <3>1, <3>2, <3>3 DEF NoneEmpty
  <2> QED
    BY <1>3, <1>9, <1>14, <2>1, <2>3, <2>4
       DEF EosEndsTheBody, NoneEmpty, Filter!HasEos
<1> QED
  BY <1>8, <1>13, <1>15, <1>16, <1>17, <1>18

\* Passing the first bucket on, filtered, leaves what waits as it was.
LEMMA PassKeepsBatch ==
  ASSUME NEW b \in Seq(Bucket), NEW c \in Seq(Bucket), c # <<>>
  PROVE  /\ Append(b, Filtered(Head(c))) \in Seq(Bucket) /\ Tail(c) \in Seq(Bucket)
         /\ Append(b, Filtered(Head(c))) \o Through(TRUE, Tail(c))
              = b \o Through(TRUE, c)
<1> DEFINE y == Filtered(Head(c))
           rest == FilteredAll(Tail(c))
<1>1. /\ Head(c) \in Bucket /\ Tail(c) \in Seq(Bucket) /\ y \in Bucket
      /\ rest \in Seq(Bucket)
  BY HeadTailProperties, FilteredType, FilteredAllType
<1>2. FilteredAll(c) = <<y>> \o rest
  BY FilteredAllHead
<1> HIDE DEF y, rest
<1>3. <<y>> \in Seq(Bucket) /\ Append(b, y) = b \o <<y>> /\ Append(b, y) \in Seq(Bucket)
  BY <1>1, AppendFacts
<1>4. (b \o <<y>>) \o rest = b \o (<<y>> \o rest)
  BY <1>1, <1>3, Associative, Zenon
<1> QED
  BY <1>1, <1>2, <1>3, <1>4 DEF Through, y, rest

\* The filter inside the request filters as Buckets says.
LEMMA SameFilter == \A b : Filter!Filtered(b) = Filtered(b)
BY DEF Filtered, DataBucket, Reverse,
       Filter!Filtered, Filter!DataBucket, Filter!Reverse

\* Reversing a bucket does not change how long it is.
LEMMA SameLength ==
  ASSUME NEW b \in Bucket PROVE Len(Filtered(b).bytes) = Len(b.bytes)
<1>1. b.bytes \in Seq(Byte)
  BY BucketBytes
<1> QED
  BY <1>1, ReverseFacts DEF Filtered, DataBucket

\* A bucket that is still to be read has bytes the handler has not been given.
LEMMA UnreadHasBytes ==
  ASSUME PostInv, req.filtered = TRUE, ctx # <<>>, Head(ctx).type # "eos"
  PROVE  Len(BytesOf(Batch)) > 0
<1> USE DEF PostInv
<1> DEFINE y == Filtered(Head(ctx))
           rest == FilteredAll(Tail(ctx))
           t == Through(TRUE, src)
           p == got \o bb
           k == Len(got) + Len(bb) + 1
<1>1. /\ src \in Seq(Bucket) /\ ctx \in Seq(Bucket) /\ bb \in Seq(Bucket)
      /\ got \in Seq(Bucket)
  BY Brigades
<1>2. /\ y \in Bucket /\ rest \in Seq(Bucket) /\ y.type # "eos"
      /\ <<y>> \in Seq(Bucket)
  <2>1. Head(ctx) \in Bucket /\ Tail(ctx) \in Seq(Bucket)
    BY <1>1, HeadTailProperties
  <2>2. y \in Bucket /\ y.type = Head(ctx).type
    BY <2>1, FilteredType
  <2>3. rest \in Seq(Bucket)
    BY <2>1, FilteredAllType
  <2> QED
    BY <2>2, <2>3
<1>3. Batch = bb \o (<<y>> \o rest)
  BY <1>1, FilteredAllHead DEF Batch, Through
<1>4. t = got \o Batch
  BY DEF Conserved
<1>5. /\ t \in Seq(Bucket) /\ Len(t) = Len(src)
      /\ \A i \in 1..Len(src) : t[i] = Filtered(src[i])
  BY <1>1, FilteredAllType DEF Through, FilteredAll
<1> HIDE DEF y, rest, t
<1>6. k \in 1..Len(t) /\ t[k] = y
  <2>1. t = p \o (<<y>> \o rest) /\ p \in Seq(Bucket) /\ Len(p) = Len(got) + Len(bb)
    <3>1. <<y>> \o rest \in Seq(Bucket)
      BY <1>2
    <3>2. (got \o bb) \o (<<y>> \o rest) = got \o (bb \o (<<y>> \o rest))
      BY <1>1, <3>1, Associative, ZenonT(60)
    <3>3. p \in Seq(Bucket) /\ Len(p) = Len(got) + Len(bb)
      BY <1>1
    <3> QED
      BY <1>3, <1>4, <3>2, <3>3
  <2>2. /\ <<y>> \o rest \in Seq(Bucket) /\ (<<y>> \o rest)[1] = y
        /\ Len(<<y>> \o rest) = 1 + Len(rest)
    BY <1>2
  <2> HIDE DEF p
  <2> DEFINE z == <<y>> \o rest
  <2>3. z \in Seq(Bucket) /\ z[1] = y /\ Len(z) >= 1
    BY <1>2, <2>2
  <2> HIDE DEF z
  <2>4. t = p \o z
    BY <2>1 DEF z
  <2> QED
    BY <1>1, <2>1, <2>3, <2>4
<1>7. Len(src[k].bytes) > 0
  <2>1. src[k] \in Bucket /\ Filtered(src[k]) = y /\ k \in 1..Len(src)
    BY <1>1, <1>5, <1>6
  <2>2. src[k].type # "eos"
    BY <1>2, <2>1, FilteredType
  <2> QED
    BY <2>1, <2>2 DEF EosEndsTheBody
<1>8. Len(y.bytes) > 0
  <2>1. src[k] \in Bucket /\ Filtered(src[k]) = y
    BY <1>1, <1>5, <1>6
  <2> QED
    BY <1>7, <2>1, SameLength
<1>9. Len(BytesOf(Batch)) >= Len(y.bytes)
  <2>1. BytesOf(Batch) = BytesOf(bb) \o (y.bytes \o BytesOf(rest))
    <3>1. BytesOf(<<y>> \o rest) = y.bytes \o BytesOf(rest)
      BY <1>2, BytesOfConcat, BytesOfOne
    <3>2. <<y>> \o rest \in Seq(Bucket)
      BY <1>2
    <3> QED
      BY <1>1, <1>3, <3>1, <3>2, BytesOfConcat
  <2>2. /\ BytesOf(bb) \in Seq(Byte) /\ BytesOf(rest) \in Seq(Byte)
        /\ y.bytes \in Seq(Byte)
    BY <1>1, <1>2, BytesOfType, BucketBytes
  <2> QED
    BY <2>1, <2>2
<1>10. y.bytes \in Seq(Byte) /\ BytesOf(Batch) \in Seq(Byte)
  BY <1>2, Accounts, BytesOfType, BucketBytes
<1> QED
  BY <1>8, <1>9, <1>10

LEMMA FilterStepKeeps ==
  ASSUME PostInv, FilterStep PROVE PostInv'
<1> USE DEF PostInv
<1>1. /\ fpc = "loop" /\ src' = src /\ got' = got
      /\ UNCHANGED <<reqVars, wireVars, hpc, remaining, nrd, outVars>>
  BY DEF FilterStep, Filter!Move, Filter!Pass, Filter!MoveEos, Filter!ReadError,
         Filter!Exhausted
<1>2. /\ hpc = "reading" /\ req.filtered = TRUE /\ frv = "none"
      /\ ~Filter!HasEos(got)
  BY <1>1, Brigades DEF ReadPoints
<1>3. /\ src \in Seq(Bucket) /\ ctx \in Seq(Bucket) /\ bb \in Seq(Bucket)
      /\ got \in Seq(Bucket)
  BY Brigades
<1>4. req' = req /\ Taken' = Taken /\ Chunked' = Chunked
  BY <1>1 DEF Taken, Chunked, reqVars
<1>5. ASSUME Batch' = Batch, bb' \in Seq(Bucket), ctx' \in Seq(Bucket),
             \/ fpc' = "loop" /\ frv' = "none"
             \/ fpc' = "caller" /\ frv' = "OK" /\ ctx' = <<>>
             \/ fpc' = "caller" /\ frv' = "error" /\ Len(BytesOf(Batch)) > 0
      PROVE  PostInv'
  <2>1. /\ TypeOK' /\ Counted' /\ RemainingTells' /\ Stages'
        /\ NoPartialEcho' /\ EatenTotalTells' /\ TrailerEndsTheBody'
    <3>1. /\ src' \in Seq(Bucket) /\ hpc' = "reading"
          /\ fpc' \in {"caller", "fetch", "loop"}
          /\ frv' \in {"none", "OK", "error"}
      BY <1>1, <1>2, <1>3, <1>5
    <3> QED
      BY <1>1, <1>2, <1>5, <3>1, ReadFrame
  <2>2. Conserved' /\ SentInOrder' /\ EosEndsTheBody'
    BY <1>1, <1>4, <1>5 DEF Conserved, SentInOrder, EosEndsTheBody, Filter!HasEos,
                    wireVars
  <2>3. ReadPoints'
    BY <1>1, <1>2, <1>4, <1>5 DEF ReadPoints, Failed, Filter!HasEos
  <2>4. BatchFits'
    BY <1>1, <1>2, <1>5 DEF BatchFits, Filter!HasEos
  <2> QED
    BY <2>1, <2>2, <2>3, <2>4
<1>6. ASSUME ctx # <<>>, bb' = Append(bb, Filtered(Head(ctx))), ctx' = Tail(ctx)
      PROVE  Batch' = Batch /\ bb' \in Seq(Bucket) /\ ctx' \in Seq(Bucket)
  <2>1. Batch = bb \o Through(TRUE, ctx)
    BY <1>2 DEF Batch
  <2>2. Batch' = bb' \o Through(TRUE, ctx')
    BY <1>2, <1>4 DEF Batch
  <2> QED
    BY <1>3, <1>6, <2>1, <2>2, PassKeepsBatch
<1>7. CASE Filter!Move
  <2>1. /\ ctx # <<>> /\ bb' = Append(bb, Filtered(Head(ctx))) /\ ctx' = Tail(ctx)
        /\ fpc' = fpc /\ frv' = frv
    BY <1>7, SameFilter DEF Filter!Move, Filter!Pass
  <2> QED
    BY <1>1, <1>2, <1>5, <1>6, <2>1
<1>8. CASE Filter!MoveEos
  <2>1. /\ ctx # <<>> /\ Head(ctx).type = "eos" /\ bb' = Append(bb, Head(ctx))
        /\ ctx' = Tail(ctx) /\ fpc' = "caller" /\ frv' = "OK"
    BY <1>8 DEF Filter!MoveEos
  <2>2. Filtered(Head(ctx)) = Head(ctx)
    BY <2>1 DEF Filtered
  <2>3. Batch' = Batch /\ bb' \in Seq(Bucket) /\ ctx' \in Seq(Bucket)
    BY <1>6, <2>1, <2>2
  <2>4. ctx' = <<>>
    <3> DEFINE q == Through(TRUE, ctx')
               t == Through(TRUE, src)
    <3>1. q \in Seq(Bucket) /\ Len(q) = Len(ctx')
      BY <2>3, ThroughFacts
    <3>2. t = got \o (bb' \o q)
      BY <1>2, <1>4, <2>3 DEF Conserved, Batch
    <3>3. \A i \in 1..Len(t) : t[i].type = "eos" => i = Len(t)
      BY <1>3, ThroughFacts DEF EosEndsTheBody
    <3>4. Head(ctx) \in Bucket /\ Len(bb') = Len(bb) + 1 /\ bb'[Len(bb')] = Head(ctx)
      BY <1>3, <2>1, HeadTailProperties
    <3>5. Filter!HasEos(bb')
      <4>1. Len(bb') \in 1..Len(bb')
        BY <1>3, <3>4
      <4> QED
        BY <2>1, <3>4, <4>1 DEF Filter!HasEos
    <3> HIDE DEF q, t
    <3>6. t = (got \o bb') \o q
      <4>1. (got \o bb') \o q = got \o (bb' \o q)
        BY <1>3, <2>3, <3>1, Associative, ZenonT(60)
      <4> QED
        BY <3>2, <4>1
    <3>7. got \o bb' \in Seq(Bucket) /\ Filter!HasEos(got \o bb')
      <4>1. Filter!HasEos(got \o bb')
        BY <1>3, <2>3, <3>5, EosConcat
      <4> QED
        BY <1>3, <2>3, <4>1
    <3>8. q = <<>>
      BY <3>1, <3>3, <3>6, <3>7, NothingAfterEos
    <3> QED
      BY <2>3, <3>1, <3>8
  <2> QED
    BY <1>5, <2>1, <2>3, <2>4
<1>9. CASE Filter!Exhausted
  <2>1. /\ ctx = <<>> /\ ctx' = ctx /\ bb' = bb /\ fpc' = "caller" /\ frv' = "OK"
    BY <1>9 DEF Filter!Exhausted
  <2>2. Batch' = Batch
    BY <1>4, <2>1 DEF Batch
  <2> QED
    BY <1>3, <1>5, <2>1, <2>2
<1>10. CASE Filter!ReadError
  <2>1. /\ ctx # <<>> /\ Head(ctx).type # "eos" /\ ctx' = ctx /\ bb' = bb
        /\ fpc' = "caller" /\ frv' = "error"
    BY <1>10 DEF Filter!ReadError
  <2>2. Batch' = Batch
    BY <1>4, <2>1 DEF Batch
  <2>3. Len(BytesOf(Batch)) > 0
    BY <1>2, <2>1, UnreadHasBytes
  <2> QED
    BY <1>3, <1>5, <2>1, <2>2, <2>3
<1> QED
  BY <1>7, <1>8, <1>9, <1>10 DEF FilterStep

-----------------------------------------------------------------------------
(* The handler takes what it was handed. *)

LEMMA BlockStep ==
  ASSUME PostInv, Block PROVE PostInv'
<1> USE DEF PostInv
<1> DEFINE bytes == BytesOf(bb)
           n == Len(bytes)
<1>1. /\ src \in Seq(Bucket) /\ ctx \in Seq(Bucket) /\ bb \in Seq(Bucket)
      /\ got \in Seq(Bucket) /\ Taken \in Nat /\ req.filtered \in BOOLEAN
      /\ req.len \in Nat /\ req.len <= MaxLen /\ arrived \in Nat
  BY Brigades
<1>2. /\ hpc = "reading" /\ fpc = "caller" /\ frv = "OK"
      /\ got' = got \o bb /\ bb' = <<>> /\ frv' = "none"
      /\ UNCHANGED <<src, ctx, fpc>>
  BY DEF Block, Took, Filter!Take
<1>3. ctx = <<>> /\ ~Filter!HasEos(got)
  BY <1>2 DEF ReadPoints, Failed
<1>4. Batch = bb
  <2>1. Through(req.filtered, ctx) = <<>>
    BY <1>1, <1>3, ThroughFacts
  <2> QED
    BY <1>1, <2>1 DEF Batch
<1>5. bytes \in Seq(Byte) /\ n \in Nat /\ n <= BufSize /\ (n = 0 => Filter!HasEos(bb))
  BY <1>1, <1>2, <1>4, BytesOfType DEF BatchFits
<1>6. SubSeq(bytes, 1, n) = bytes
  BY <1>5
<1>7. (IF n < BufSize THEN n ELSE BufSize) = n
  BY <1>5, PostAssumption
<1>8. Took(n, bytes, n, n > 0)
  <2> HIDE DEF bytes
  <2>1. Took(n, SubSeq(bytes, 1, n), n, n > 0)
    BY <1>7 DEF Block, bytes
  <2> QED
    BY <1>6, <2>1
<1>9. /\ nrd' = n /\ total' = total + n
      /\ hpc' = IF n > 0 THEN "loop" ELSE "after"
      /\ echoed' = IF req.handler = "echo_post" THEN echoed \o bytes ELSE echoed
      /\ remaining' = IF ~Filter!HasEos(bb) THEN remaining
                      ELSE IF Chunked THEN -1 ELSE 0
      /\ UNCHANGED <<req, arrived, wire, announced, ending, result>>
  BY <1>8 DEF Took, reqVars, wireVars
<1>10. /\ Taken' = Taken /\ Chunked' = Chunked /\ SetupFails' = SetupFails
       /\ got' \in Seq(Bucket)
  BY <1>1, <1>2, <1>9 DEF Taken, Chunked, SetupFails
<1>11. Batch' = <<>>
  <2>1. Through(req.filtered, <<>>) = <<>>
    BY <1>1, <1>3, ThroughFacts
  <2> QED
    BY <1>2, <1>3, <1>9, <2>1 DEF Batch
<1>12. n <= MaxLen
  <2>1. Taken = total + n /\ total \in Nat
    BY <1>4, Accounts DEF TypeOK
  <2>2. Taken <= arrived /\ arrived <= req.len
    BY DEF SentInOrder
  <2> QED
    BY <1>1, <1>5, <2>1, <2>2, PostAssumption
<1>13. BytesOf(got') = BytesOf(got) \o bytes /\ BytesOf(got) \in Seq(Byte)
  BY <1>1, <1>2, BytesOfConcat, BytesOfType
<1>14. Filter!HasEos(got') <=> Filter!HasEos(bb)
  <2>1. Filter!HasEos(got \o bb) <=> Filter!HasEos(bb)
    BY <1>1, <1>3, EosConcat
  <2> QED
    BY <1>2, <2>1
<1> HIDE DEF bytes, n
<1>15. TypeOK'
  <2>1. {src', ctx', bb', got'} \subseteq Seq(Bucket)
    BY <1>1, <1>2, <1>10
  <2>2. nrd' \in -1..MaxLen /\ remaining' \in -1..MaxLen /\ total' \in Nat
    <3>1. remaining \in -1..MaxLen /\ total \in Nat
      BY DEF TypeOK
    <3> QED
      BY <1>5, <1>9, <1>12, <3>1, PostAssumption
  <2>3. echoed' \in Seq(Byte)
    <3>1. echoed \in Seq(Byte)
      BY DEF TypeOK
    <3>2. echoed \o bytes \in Seq(Byte)
      BY <1>5, <3>1
    <3> QED
      BY <1>9, <3>1, <3>2
  <2>4. hpc' \in {"setup", "loop", "reading", "after", "done"}
    BY <1>9
  <2> QED
    BY <1>2, <1>9, <2>1, <2>2, <2>3, <2>4 DEF TypeOK
<1>16. Conserved'
  <2>1. Through(req.filtered, src) = got \o bb
    BY <1>4 DEF Conserved
  <2>2. got' \o <<>> = got'
    BY <1>10
  <2> QED
    BY <1>2, <1>9, <1>11, <2>1, <2>2 DEF Conserved
<1>17. SentInOrder' /\ EosEndsTheBody'
  BY <1>2, <1>9, <1>10 DEF SentInOrder, EosEndsTheBody, Filter!HasEos
<1>18. ReadPoints' /\ BatchFits'
  BY <1>2, <1>3, <1>9 DEF ReadPoints, Failed, BatchFits
<1>19. Counted'
  <2>1. Len(BytesOf(got) \o bytes) = Len(BytesOf(got)) + n
    BY <1>5, <1>13 DEF n
  <2>2. total' = Len(BytesOf(got'))
    BY <1>9, <1>13, <2>1 DEF Counted
  <2>3. req.handler = "echo_post" => echoed' = BytesOf(got')
    BY <1>9, <1>13 DEF Counted
  <2> QED
    BY <1>9, <2>2, <2>3 DEF Counted
<1>20. RemainingTells'
  <2>1. remaining = IF req.framing = "length" THEN req.len ELSE 0
    BY <1>3 DEF RemainingTells
  <2>2. CASE Filter!HasEos(bb)
    <3>1. remaining' = IF Chunked THEN -1 ELSE 0
      BY <1>9, <2>2
    <3> QED
      BY <1>10, <1>14, <2>2, <3>1 DEF RemainingTells, Filter!HasEos
  <2>3. CASE ~Filter!HasEos(bb)
    <3>1. remaining' = remaining
      BY <1>9, <2>3
    <3> QED
      BY <1>9, <1>14, <2>1, <2>3, <3>1 DEF RemainingTells, Filter!HasEos
  <2> QED
    BY <2>2, <2>3
<1>21. Stages'
  <2>1. hpc' = "after" => nrd' = 0 /\ Filter!HasEos(got')
    BY <1>5, <1>9, <1>14
  <2> QED
    BY <1>2, <1>9, <1>10, <2>1 DEF Stages, Filter!HasEos
<1>22. NoPartialEcho' /\ EatenTotalTells' /\ TrailerEndsTheBody'
  BY <1>9 DEF NoPartialEcho, EatenTotalTells, TrailerEndsTheBody, Done
<1> QED
  BY <1>15, <1>16, <1>17, <1>18, <1>19, <1>20, <1>21, <1>22

LEMMA BlockFailsStep ==
  ASSUME PostInv, BlockFails PROVE PostInv'
<1> USE DEF PostInv
<1>1. /\ hpc = "reading" /\ fpc = "caller" /\ frv = "error" /\ frv' = "gaveup"
      /\ nrd' = -1 /\ hpc' = "after"
      /\ UNCHANGED <<req, arrived, wire, src, ctx, bb, got, fpc, remaining>>
      /\ UNCHANGED <<announced, echoed, total, ending, result>>
  BY DEF BlockFails, Filter!GiveUp, reqVars, wireVars, outVars
<1>2. ~Filter!HasEos(got) /\ (Batch = <<>> \/ Len(BytesOf(Batch)) > 0)
  BY <1>1 DEF ReadPoints, Failed
<1>3. /\ Taken' = Taken /\ Chunked' = Chunked /\ SetupFails' = SetupFails
      /\ Batch' = Batch
  BY <1>1 DEF Taken, Chunked, SetupFails, Batch
<1>4. TypeOK'
  <2>1. -1 \in -1..MaxLen
    BY PostAssumption
  <2> QED
    BY <1>1, <2>1 DEF TypeOK
<1>5. Conserved' /\ SentInOrder' /\ EosEndsTheBody'
  BY <1>1, <1>3 DEF Conserved, SentInOrder, EosEndsTheBody, Filter!HasEos
<1>6. ReadPoints' /\ BatchFits'
  BY <1>1, <1>2, <1>3 DEF ReadPoints, Failed, BatchFits
<1>7. Counted' /\ RemainingTells'
  BY <1>1, <1>3 DEF Counted, RemainingTells, Filter!HasEos
<1>8. Stages'
  BY <1>1, <1>2, <1>3 DEF Stages, Filter!HasEos
<1>9. NoPartialEcho' /\ EatenTotalTells' /\ TrailerEndsTheBody'
  BY <1>1 DEF NoPartialEcho, EatenTotalTells, TrailerEndsTheBody, Done
<1> QED
  BY <1>4, <1>5, <1>6, <1>7, <1>8, <1>9

-----------------------------------------------------------------------------
\* The invariant of a request, from its first byte to its answer.
THEOREM PostInvariant == Spec => []PostInv
<1>1. Init => PostInv
  <2> SUFFICES ASSUME Init PROVE PostInv
    OBVIOUS
  <2>1. /\ req \in Requests
        /\ req.framing \in {"none", "invalid"} => req.len = 0
        /\ src = <<>> /\ ctx = <<>> /\ bb = <<>> /\ got = <<>> /\ echoed = <<>>
        /\ arrived = 0 /\ fpc = "caller" /\ frv = "none" /\ hpc = "setup"
        /\ remaining = IF req.framing = "length" THEN req.len ELSE 0
        /\ nrd = 0 /\ announced = -1 /\ total = 0 /\ ending = "none"
        /\ result = "none" /\ wire \in {"sending", "sent"}
    BY DEF Init
  <2>2. req.len \in 0..MaxLen /\ req.len \in Nat
    BY <2>1, PostAssumption DEF Requests
  <2>3. TypeOK
    <3>1. <<>> \in Seq(Bucket) /\ <<>> \in Seq(Byte)
      OBVIOUS
    <3>2. {src, ctx, bb, got} \subseteq Seq(Bucket)
      BY <2>1, <3>1
    <3>3. remaining \in -1..MaxLen /\ 0 \in -1..MaxLen /\ -1 \in -1..MaxLen
          /\ 0 \in 0..MaxLen
      BY <2>1, <2>2, PostAssumption
    <3> QED
      BY <2>1, <3>1, <3>2, <3>3 DEF TypeOK
  <2>4. Batch = <<>>
    BY <2>1, <2>3, NothingWaits
  <2>5. Taken = 0 /\ BytesOf(src) = <<>> /\ BytesOf(got) = <<>>
    BY <2>1, BytesOfEmpty DEF Taken
  <2>6. ~Filter!HasEos(got) /\ ~Filter!HasEos(src)
    BY <2>1, EosCases
  <2>7. Conserved
    <3>1. Through(req.filtered, src) = <<>>
      BY <2>1, <2>3, Brigades, ThroughFacts
    <3> QED
      BY <2>1, <2>4, <3>1 DEF Conserved
  <2>8. SentInOrder
    BY <2>1, <2>2, <2>5 DEF SentInOrder, Bytes
  <2>9. ReadPoints /\ BatchFits
    BY <2>1 DEF ReadPoints, Failed, BatchFits
  <2>10. EosEndsTheBody
    BY <2>1, <2>2, <2>5 DEF EosEndsTheBody
  <2>11. Counted
    BY <2>1, <2>5 DEF Counted
  <2>12. RemainingTells
    BY <2>1, <2>6 DEF RemainingTells
  <2>13. Stages
    BY <2>1 DEF Stages
  <2>14. NoPartialEcho /\ EatenTotalTells /\ TrailerEndsTheBody
    BY <2>1 DEF NoPartialEcho, EatenTotalTells, TrailerEndsTheBody, Done
  <2> QED
    BY <2>3, <2>7, <2>8, <2>9, <2>10, <2>11, <2>12, <2>13, <2>14 DEF PostInv
<1>2. PostInv /\ [Next]_vars => PostInv'
  <2> SUFFICES ASSUME PostInv, [Next]_vars PROVE PostInv'
    OBVIOUS
  <2>1. CASE Client
    BY <2>1, ClientStep
  <2>2. CASE Ask
    BY <2>2, AskStep
  <2>3. CASE Read
    BY <2>3, ReadStep, FailedReadStep DEF Read
  <2>4. CASE FilterStep
    BY <2>4, FilterStepKeeps
  <2>5. CASE Block
    BY <2>5, BlockStep
  <2>6. CASE BlockFails
    BY <2>6, BlockFailsStep
  <2>7. CASE HandlerStep
    BY <2>7, HandlerStepKeeps
  <2>8. CASE UNCHANGED vars
    <3>1. /\ UNCHANGED <<req, arrived, wire, src, ctx, bb, got, fpc, frv, hpc>>
          /\ UNCHANGED <<remaining, nrd, announced, echoed, total, ending, result>>
      BY <2>8 DEF vars, reqVars, wireVars, filterVars, outVars
    <3>2. /\ Taken' = Taken /\ Chunked' = Chunked /\ SetupFails' = SetupFails
          /\ Batch' = Batch
      BY <3>1 DEF Taken, Chunked, SetupFails, Batch
    <3>3. TypeOK' /\ Conserved' /\ SentInOrder' /\ ReadPoints' /\ BatchFits'
      <4>1. TypeOK'
        <5>1. TypeOK
          BY DEF PostInv
        <5> QED
          BY <5>1, <3>1, ZenonT(60) DEF TypeOK
      <4>2. Conserved' /\ SentInOrder'
        BY <3>1, <3>2 DEF PostInv, Conserved, SentInOrder
      <4>3. ReadPoints' /\ BatchFits'
        BY <3>1, <3>2 DEF PostInv, ReadPoints, Failed, BatchFits, Filter!HasEos
      <4> QED
        BY <4>1, <4>2, <4>3
    <3>4. EosEndsTheBody' /\ Counted' /\ RemainingTells' /\ Stages'
      BY <3>1, <3>2 DEF PostInv, EosEndsTheBody, Counted, RemainingTells, Stages,
                        Filter!HasEos
    <3>5. NoPartialEcho' /\ EatenTotalTells' /\ TrailerEndsTheBody'
      BY <3>1, <3>2 DEF PostInv, NoPartialEcho, EatenTotalTells,
                        TrailerEndsTheBody, Done, Filter!HasEos
    <3> QED
      BY <3>3, <3>4, <3>5 DEF PostInv
  <2>9. \/ Client \/ Ask \/ Read \/ FilterStep \/ Block \/ BlockFails
        \/ HandlerStep \/ UNCHANGED vars
    BY DEF Next, Server, Finished, HandlerStep
  <2> QED
    BY <2>1, <2>2, <2>3, <2>4, <2>5, <2>6, <2>7, <2>8, <2>9
<1> QED
  BY <1>1, <1>2, PTL DEF Spec

\* What echo_post has written are the bytes of the buckets HTTP_IN handed
\* over, in their order, each reversed where the filter is on (63-76).
THEOREM EchoIsTheBodyHolds == Spec => []EchoIsTheBody
<1>1. PostInv => EchoIsTheBody
  <2> SUFFICES ASSUME PostInv, req.handler = "echo_post" PROVE EchoIsTheBody
    BY DEF EchoIsTheBody
  <2> DEFINE k == Len(got)
             first == SubSeq(src, 1, k)
             t == Through(req.filtered, src)
  <2>1. /\ src \in Seq(Bucket) /\ got \in Seq(Bucket) /\ req.filtered \in BOOLEAN
    BY Brigades DEF PostInv
  <2>2. Batch \in Seq(Bucket)
    BY Accounts DEF PostInv
  <2>3. t = got \o Batch /\ t \in Seq(Bucket) /\ Len(t) = Len(src)
    BY <2>1, ThroughFacts DEF PostInv, Conserved
  <2>4. k \in Nat /\ k <= Len(src)
    <3>1. Len(got \o Batch) = Len(got) + Len(Batch)
      BY <2>1, <2>2
    <3> QED
      BY <2>1, <2>2, <2>3, <3>1
  <2>5. first \in Seq(Bucket) /\ Len(first) = k /\ \A i \in 1..k : first[i] = src[i]
    BY <2>1, <2>4
  <2>6. Through(req.filtered, first) \in Seq(Bucket)
        /\ Len(Through(req.filtered, first)) = k
    BY <2>1, <2>5, ThroughFacts
  <2>7. ASSUME NEW i \in 1..k PROVE Through(req.filtered, first)[i] = got[i]
    <3>1. t[i] = got[i]
      BY <2>1, <2>2, <2>3
    <3>2. i \in 1..Len(src)
      BY <2>1, <2>4
    <3>3. Through(req.filtered, first)[i] = t[i]
      BY <2>1, <2>5, <3>2 DEF Through, FilteredAll
    <3> QED
      BY <3>1, <3>3
  <2> HIDE DEF first
  <2>8. Through(req.filtered, first) = got
    <3> DEFINE u == Through(req.filtered, first)
    <3>1. u \in Seq(Bucket) /\ Len(u) = Len(got) /\ \A i \in 1..Len(u) : u[i] = got[i]
      BY <2>6, <2>7
    <3> HIDE DEF u
    <3>2. u = got
      BY <2>1, <3>1, SeqEqual
    <3> QED
      BY <3>2 DEF u
  <2>9. echoed = Expected(first)
    BY <2>8 DEF PostInv, Counted, Expected
  <2> QED
    BY <2>9 DEF PostInv, SentInOrder, EchoIsTheBody, first
<1> QED
  BY <1>1, PostInvariant, PTL

\* An answer without the error mark is for the whole body, and says its length,
\* unless the body's framing was refused: then it is a 200 for none of the body
\* (echo_post 26-35, 45-51, 78-87, echo_post_chunk 27-36, 61-63).
THEOREM NoPartialEchoHolds == Spec => []NoPartialEcho
<1>1. PostInv => NoPartialEcho
  BY DEF PostInv
<1> QED
  BY <1>1, PostInvariant, PTL

\* The total eat_post answers with is the length of the body exactly when its
\* last read did not fail (52-56).
THEOREM EatenTotalTellsHolds == Spec => []EatenTotalTells
<1>1. PostInv => EatenTotalTells
  BY DEF PostInv
<1> QED
  BY <1>1, PostInvariant, PTL

\* The client's trailer is answered exactly at the end of its whole body
\* (echo_post_chunk 50-83).
THEOREM TrailerEndsTheBodyHolds == Spec => []TrailerEndsTheBody
<1>1. PostInv => TrailerEndsTheBody
  BY DEF PostInv
<1> QED
  BY <1>1, PostInvariant, PTL

-----------------------------------------------------------------------------
(* Every request is answered: what Answered claims, without the fairness    *)
(* that it needs on top.                                                    *)

\* What the handler has not been given yet: bytes, and the EOS.
Owed == (req.len - total) + IF Filter!HasEos(got) THEN 0 ELSE 1

\* How far the handler is on its way to the next read, or to its answer.
Stage ==
  CASE hpc = "setup"                      -> 6
    [] hpc = "loop"                       -> 5
    [] hpc = "reading" /\ fpc = "fetch"   -> 4
    [] hpc = "reading" /\ fpc = "loop"    -> 3
    [] hpc = "reading" /\ fpc = "caller"  -> 2
    [] hpc = "after"                      -> 1
    [] OTHER                              -> 0

\* A step nearer the answer: less is owed, or a later stage is reached, or
\* the filter has one bucket less to go through.
Nearer ==
  \/ Owed' < Owed
  \/ Owed' = Owed /\ \/ Stage' < Stage
                     \/ Stage' = Stage /\ Len(ctx') < Len(ctx)

\* The guards of the actions of Server.
ServerCanMove ==
  \/ hpc \in {"setup", "after"}
  \/ hpc = "loop" /\ AtEnd
  \/ hpc = "loop" /\ fpc = "caller" /\ frv \in {"none", "error"} /\ ~Filter!HasEos(got)
  \/ hpc = "reading" /\ \/ fpc = "fetch" /\ (Readable # {} \/ Unreadable)
                        \/ fpc = "loop"
                        \/ fpc = "caller" /\ frv \in {"OK", "error"}

\* What they need besides PostInv: a read is asked for only with the last one
\* taken, and a client that is done has put the whole body on the wire.
AskInv ==
  /\ hpc \in {"setup", "loop"} => frv = "none"
  /\ wire = "sent" => arrived = req.len

\* It holds in every reachable state.
THEOREM AskInvariant == Spec => []AskInv
<1>1. Init => AskInv
  BY DEF Init, AskInv, Chunked, Requests
<1>2. PostInv /\ AskInv /\ [Next]_vars => AskInv'
  <2> SUFFICES ASSUME PostInv, AskInv, [Next]_vars PROVE AskInv'
    OBVIOUS
  <2> USE DEF AskInv, reqVars, wireVars, filterVars, outVars
  <2>1. CASE Client
    <3>1. UNCHANGED <<req, hpc, frv>>
      BY <2>1 DEF Client, SendBytes, SendLastChunk, CloseEarly, SendMalformedChunk,
                  ServerUnchanged
    <3>2. wire' = "sent" => arrived' = req.len
      BY <2>1 DEF Client, SendBytes, SendLastChunk, CloseEarly, SendMalformedChunk
    <3> QED
      BY <3>1, <3>2
  <2>2. CASE Refuse \/ NoBody \/ Begin \/ NoMore
    BY <2>2 DEF Refuse, NoBody, Begin, NoMore, Finish
  <2>3. CASE FinishEcho \/ FinishEat \/ FinishChunk
    BY <2>3 DEF FinishEcho, FinishEat, FinishChunk, Finish
  <2>4. CASE Ask \/ BlockFails
    BY <2>4 DEF Ask, BlockFails
  <2>5. CASE Read \/ FilterStep
    <3>1. fpc # "caller" /\ UNCHANGED <<req, arrived, wire, hpc>>
      BY <2>5 DEF Read, Fetched, FilterStep, Filter!Fetch, Filter!Move, Filter!Pass,
                  Filter!MoveEos, Filter!ReadError, Filter!Exhausted
    <3>2. hpc = "reading"
      BY <3>1 DEF PostInv, ReadPoints
    <3> QED
      BY <3>1, <3>2
  <2>6. CASE Block
    BY <2>6 DEF Block, Took, Filter!Take
  <2>7. CASE UNCHANGED vars
    BY <2>7 DEF vars
  <2> QED
    BY <2>1, <2>2, <2>3, <2>4, <2>5, <2>6, <2>7 DEF Next, Server, Finished
<1> QED
  BY <1>1, <1>2, PostInvariant, PTL DEF Spec

\* The total never exceeds the body.
LEMMA OwedIsNatural ==
  ASSUME PostInv
  PROVE  /\ Owed \in Nat /\ total \in Nat /\ req.len \in Nat /\ total <= req.len
         /\ Stage \in 0..6
<1>1. /\ total \in Nat /\ req.len \in Nat /\ arrived \in Nat /\ Taken \in Nat
      /\ total <= Taken /\ Taken <= arrived /\ arrived <= req.len
  BY Brigades, Accounts DEF PostInv, TypeOK, SentInOrder
<1>2. Stage \in 0..6
  BY DEF Stage
<1> QED
  BY <1>1, <1>2 DEF Owed

\* A step that gives the handler nothing reaches a later stage.
LEMMA NearerByStage ==
  ASSUME UNCHANGED <<req, total, got>>, Stage' < Stage PROVE Nearer
BY DEF Nearer, Owed

\* Every step of the server, reads that fail included, brings it nearer.
LEMMA ServerStepCounts == ASSUME PostInv, Server PROVE Nearer
<1> USE DEF reqVars, wireVars, filterVars, outVars
<1>1. CASE Refuse \/ NoBody \/ Begin \/ NoMore
  <2>1. UNCHANGED <<req, total, got>>
    BY <1>1 DEF Refuse, NoBody, Begin, NoMore, Finish
  <2>2. \/ hpc = "setup" /\ hpc' \in {"loop", "done"}
        \/ hpc = "loop" /\ hpc' = "after"
    BY <1>1 DEF Refuse, NoBody, Begin, NoMore, Finish
  <2>3. Stage' < Stage
    BY <2>2 DEF Stage
  <2> QED
    BY <2>1, <2>3, NearerByStage
<1>2. CASE FinishEcho \/ FinishEat \/ FinishChunk
  <2>1. UNCHANGED <<req, total, got>>
    BY <1>2 DEF FinishEcho, FinishEat, FinishChunk, Finish
  <2>2. hpc = "after" /\ hpc' = "done"
    BY <1>2 DEF FinishEcho, FinishEat, FinishChunk, Finish
  <2>3. Stage' < Stage
    BY <2>2 DEF Stage
  <2> QED
    BY <2>1, <2>3, NearerByStage
<1>3. CASE Ask
  <2>1. UNCHANGED <<req, total, got>>
    BY <1>3 DEF Ask, Filter!Call
  <2>2. hpc = "loop" /\ hpc' = "reading" /\ fpc' \in {"fetch", "loop"}
    BY <1>3 DEF Ask, Filter!Call
  <2>3. Stage' < Stage
    BY <2>2 DEF Stage
  <2> QED
    BY <2>1, <2>3, NearerByStage
<1>4. CASE Read
  <2>1. UNCHANGED <<req, total, got, hpc>>
    BY <1>4 DEF Read, Fetched, Filter!Fetch
  <2>2. fpc = "fetch" /\ fpc' \in {"loop", "caller"}
    BY <1>4 DEF Read, Fetched, Filter!Fetch
  <2>3. hpc = "reading"
    BY <2>2 DEF PostInv, ReadPoints
  <2>4. Stage' < Stage
    BY <2>1, <2>2, <2>3 DEF Stage
  <2> QED
    BY <2>1, <2>4, NearerByStage
<1>5. CASE FilterStep
  <2>1. UNCHANGED <<req, total, got, hpc>> /\ fpc = "loop"
    BY <1>5 DEF FilterStep, Filter!Move, Filter!Pass, Filter!MoveEos,
                Filter!ReadError, Filter!Exhausted
  <2>2. hpc = "reading"
    BY <2>1 DEF PostInv, ReadPoints
  <2>3. CASE fpc' = "caller"
    <3>1. Stage' < Stage
      BY <2>1, <2>2, <2>3 DEF Stage
    <3> QED
      BY <2>1, <3>1, NearerByStage
  <2>4. CASE fpc' # "caller"
    <3>1. fpc' = fpc /\ ctx # <<>> /\ ctx' = Tail(ctx)
      BY <1>5, <2>4 DEF FilterStep, Filter!Move, Filter!Pass, Filter!MoveEos,
                        Filter!ReadError, Filter!Exhausted
    <3>2. Len(ctx') < Len(ctx)
      BY <3>1, Brigades DEF PostInv
    <3>3. Stage' = Stage /\ Owed' = Owed
      BY <2>1, <3>1 DEF Stage, Owed
    <3> QED
      BY <3>2, <3>3 DEF Nearer
  <2> QED
    BY <2>3, <2>4
<1>6. CASE Block
  <2> DEFINE bytes == BytesOf(bb)
             n == IF Len(bytes) < BufSize THEN Len(bytes) ELSE BufSize
  <2>1. /\ hpc = "reading" /\ fpc = "caller" /\ req' = req
        /\ got' = got \o bb /\ total' = total + n
        /\ hpc' = IF n > 0 THEN "loop" ELSE "after"
    BY <1>6 DEF Block, Took, Filter!Take
  <2>2. got \in Seq(Bucket) /\ bb \in Seq(Bucket) /\ n \in Nat
    <3>1. got \in Seq(Bucket) /\ bb \in Seq(Bucket)
      BY Brigades DEF PostInv
    <3> QED
      BY <3>1, BytesOfType, PostAssumption
  <2> HIDE DEF n
  <2>3. Filter!HasEos(got) => Filter!HasEos(got')
    BY <2>1, <2>2, EosConcat
  <2>4. total \in Nat /\ req.len \in Nat
    BY OwedIsNatural
  <2>5. CASE n > 0
    BY <2>1, <2>2, <2>3, <2>4, <2>5 DEF Nearer, Owed
  <2>6. CASE n = 0
    <3>1. Owed' < Owed \/ Owed' = Owed
      BY <2>1, <2>2, <2>3, <2>4, <2>6 DEF Owed
    <3>2. Stage' < Stage
      BY <2>1, <2>6 DEF Stage
    <3> QED
      BY <3>1, <3>2 DEF Nearer
  <2> QED
    BY <2>2, <2>5, <2>6
<1>7. CASE BlockFails
  <2>1. UNCHANGED <<req, total, got>>
    BY <1>7 DEF BlockFails, Filter!GiveUp
  <2>2. hpc = "reading" /\ fpc = "caller" /\ hpc' = "after"
    BY <1>7 DEF BlockFails, Filter!GiveUp
  <2>3. Stage' < Stage
    BY <2>2 DEF Stage
  <2> QED
    BY <2>1, <2>3, NearerByStage
<1> QED
  BY <1>1, <1>2, <1>3, <1>4, <1>5, <1>6, <1>7 DEF Server

\* However the body is cut and wherever it breaks off, each step of the server
\* brings the answer nearer, and nothing the client does takes it away again
\* (Answered; echo_post 63-87, eat_post 47-58, echo_post_chunk 50-83).
THEOREM EveryServerStepCounts ==
  Spec => /\ [](Owed \in Nat /\ Stage \in 0..6)
          /\ [][/\ Server => Nearer
                /\ Client => UNCHANGED <<Owed, Stage, ctx>>]_vars
<1>1. PostInv => Owed \in Nat /\ Stage \in 0..6
  BY OwedIsNatural
<1>2. PostInv => (Server => Nearer)
  BY ServerStepCounts
<1>3. Client => UNCHANGED <<Owed, Stage, ctx>>
  <2>1. Client => UNCHANGED <<req, total, got, hpc, fpc, ctx>>
    BY DEF Client, SendBytes, SendLastChunk, CloseEarly, SendMalformedChunk,
           ServerUnchanged, reqVars, filterVars, outVars
  <2> QED
    BY <2>1 DEF Owed, Stage
<1> QED
  BY <1>1, <1>2, <1>3, PostInvariant, PTL DEF Spec

\* A client that is done has left something to read.
LEMMA SomethingToRead ==
  ASSUME PostInv, AskInv, hpc = "reading", fpc = "fetch", wire = "sent"
  PROVE  Readable # {}
<1>1. bb = <<>> /\ ctx = <<>> /\ ~Filter!HasEos(got) /\ (~Chunked => req.len > 0)
  BY DEF PostInv, ReadPoints, Failed, Stages
<1>2. ~Filter!HasEos(src)
  BY <1>1, NothingWaits, Accounts DEF PostInv
<1>3. /\ Taken \in Nat /\ arrived \in Nat /\ Taken <= arrived /\ arrived = req.len
      /\ BufSize \in Nat /\ BufSize > 0
  BY Brigades, PostAssumption DEF PostInv, SentInOrder, AskInv
<1>4. CASE Chunked /\ Taken = req.len
  BY <1>4 DEF Readable
<1>5. CASE ~(Chunked /\ Taken = req.len)
  <2>1. Taken # req.len
    BY <1>1, <1>2, <1>5 DEF PostInv, EosEndsTheBody
  <2> DEFINE t == Taken + 1
             R(to) == {cut \o (IF ~Chunked /\ to = req.len THEN <<EOS>> ELSE <<>>) :
                         cut \in Cuts(Taken, to)}
             Ends == {to \in (Taken + 1)..arrived : to <= Taken + BufSize}
  <2>2. t \in Ends
    BY <1>3, <2>1
  <2>3. <<DataBucket(Bytes(Taken, t))>> \in Cuts(Taken, t)
    BY DEF Cuts
  <2>4. R(t) # {}
    BY <2>3
  <2>5. Readable = UNION {R(to) : to \in Ends}
    BY <1>5 DEF Readable
  <2> HIDE DEF R, Ends, t
  <2> QED
    BY <2>2, <2>4, <2>5
<1> QED
  BY <1>4, <1>5

\* The request thread is never stuck before it has answered: a client that has
\* sent everything has left something to read, any other read gives up, and a
\* call of the filter that was asked for can be made (Answered).
THEOREM ServerNeverStuck == Spec => [](Done \/ ServerCanMove)
<1>1. PostInv /\ AskInv => Done \/ ServerCanMove
  <2> SUFFICES ASSUME PostInv, AskInv, ~Done PROVE ServerCanMove
    OBVIOUS
  <2>1. /\ hpc \in {"setup", "loop", "reading", "after"}
        /\ fpc \in {"fetch", "loop", "caller"}
    BY DEF PostInv, TypeOK, Done
  <2>2. CASE hpc \in {"setup", "after"}
    BY <2>2 DEF ServerCanMove
  <2>3. CASE hpc = "loop"
    <3>1. fpc = "caller" /\ frv = "none"
      BY <2>3 DEF PostInv, ReadPoints, AskInv
    <3>2. Filter!HasEos(got) => AtEnd
      BY DEF PostInv, RemainingTells, AtEnd
    <3> QED
      BY <2>3, <3>1, <3>2 DEF ServerCanMove
  <2>4. CASE hpc = "reading"
    <3>1. fpc = "caller" => frv \in {"OK", "error"}
      BY <2>4 DEF PostInv, ReadPoints
    <3>2. fpc = "fetch" => Readable # {} \/ Unreadable
      BY <2>4, SomethingToRead DEF Unreadable
    <3> QED
      BY <2>1, <2>4, <3>1, <3>2 DEF ServerCanMove
  <2> QED
    BY <2>1, <2>2, <2>3, <2>4
<1> QED
  BY <1>1, PostInvariant, AskInvariant, PTL
=============================================================================
