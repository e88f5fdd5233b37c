------------------------------ MODULE AprUriProofs ------------------------------
(* The buffer of iterate_pieces is large enough for any pieces a row may     *)
(* have, the handler's report is bounded, whatever combination of pieces that *)
(* a grammar can tell apart is put together comes back from the parser, and   *)
(* every mistake of a parser that the table is there for shows in the report. *)
EXTENDS AprUri, SequenceTheorems, TLAPS

LEMMA PieceType ==
  ASSUME NEW p \in Pieces
  PROVE  /\ p.scheme \in Seq(Char) /\ p.user \in Seq(Char)
         /\ p.password \in Seq(Char) /\ p.hostname \in Seq(Char)
         /\ p.port_str \in Seq(Char) /\ p.path \in Seq(Char)
         /\ p.query \in Seq(Char) /\ p.fragment \in Seq(Char)
PROOF
<1>1. Field = {"scheme", "user", "password", "hostname", "port_str", "path",
               "query", "fragment"}
  BY DEF Field, T
<1> QED
  BY <1>1 DEF Pieces

\* The length of one part of the URI.
LEMMA PartLength ==
  ASSUME NEW p, NEW e, NEW f, NEW before \in Seq(Char),
         NEW after \in Seq(Char), p[f] \in Seq(Char)
  PROVE  /\ Part(p, e, f, before, after) \in Seq(Char)
         /\ Len(Part(p, e, f, before, after))
              <= Len(before) + Len(p[f]) + Len(after)
PROOF
<1> DEFINE s == p[f]
<1>1. s \in Seq(Char)
  OBVIOUS
<1> HIDE DEF s
<1>2. before \o s \in Seq(Char) /\ Len(before \o s) = Len(before) + Len(s)
  BY <1>1
<1>3. /\ before \o s \o after \in Seq(Char)
      /\ Len(before \o s \o after) = Len(before) + Len(s) + Len(after)
  BY <1>2
<1>4. /\ <<>> \in Seq(Char) /\ Len(<<>>) = 0 /\ Len(before) \in Nat
      /\ Len(s) \in Nat /\ Len(after) \in Nat
  BY <1>1
<1>5. \/ Part(p, e, f, before, after) = before \o s \o after
      \/ Part(p, e, f, before, after) = <<>>
  BY DEF Part, s
<1>6. CASE Part(p, e, f, before, after) = before \o s \o after
  BY <1>3, <1>4, <1>6 DEF s
<1>7. CASE Part(p, e, f, before, after) = <<>>
  BY <1>4, <1>7 DEF s
<1> QED
  BY <1>5, <1>6, <1>7

\* Whatever the pieces of a row and whatever the subset of them, the URI with
\* its NUL fits the buffer allocated for the row (lines 162-171 and 174-218).
THEOREM EveryInputFits ==
  ASSUME NEW p \in Pieces, NEW n
  PROVE  Input(p, n) \in Seq(Char) /\ Len(Input(p, n)) + 1 <= Room(p)
PROOF
<1> DEFINE e == Expect(n)
           A == Part(p, e, "scheme", <<>>, <<":", "/", "/">>)
           B == Part(p, e, "user", <<>>, <<>>)
           C == Part(p, e, "password", <<":">>, <<>>)
           D == IF "user" \in e THEN <<"@">> ELSE <<>>
           E == Part(p, e, "hostname", <<>>, <<>>)
           F == Part(p, e, "port_str", <<":">>, <<>>)
           G == Part(p, e, "path", <<>>, <<>>)
           H == Part(p, e, "query", <<"?">>, <<>>)
           I == Part(p, e, "fragment", <<"#">>, <<>>)
<1>1. /\ <<>> \in Seq(Char) /\ Len(<<>>) = 0
      /\ <<":", "/", "/">> \in Seq(Char) /\ Len(<<":", "/", "/">>) = 3
      /\ <<":">> \in Seq(Char) /\ Len(<<":">>) = 1
      /\ <<"@">> \in Seq(Char) /\ Len(<<"@">>) = 1
      /\ <<"?">> \in Seq(Char) /\ Len(<<"?">>) = 1
      /\ <<"#">> \in Seq(Char) /\ Len(<<"#">>) = 1
  <2>1. ":" \in Char /\ "/" \in Char /\ "@" \in Char /\ "?" \in Char
        /\ "#" \in Char
    BY CharAssumption
  <2> QED
    BY <2>1
<1>2. A \in Seq(Char) /\ Len(A) <= 0 + Len(p.scheme) + 3
  BY <1>1, PieceType, PartLength
<1>3. B \in Seq(Char) /\ Len(B) <= 0 + Len(p.user) + 0
  BY <1>1, PieceType, PartLength
<1>4. C \in Seq(Char) /\ Len(C) <= 1 + Len(p.password) + 0
  BY <1>1, PieceType, PartLength
<1>5. D \in Seq(Char) /\ Len(D) <= 1
  <2>1. CASE "user" \in e
    BY <2>1, <1>1
  <2>2. CASE "user" \notin e
    BY <2>2, <1>1
  <2> QED
    BY <2>1, <2>2
<1>6. E \in Seq(Char) /\ Len(E) <= 0 + Len(p.hostname) + 0
  BY <1>1, PieceType, PartLength
<1>7. F \in Seq(Char) /\ Len(F) <= 1 + Len(p.port_str) + 0
  BY <1>1, PieceType, PartLength
<1>8. G \in Seq(Char) /\ Len(G) <= 0 + Len(p.path) + 0
  BY <1>1, PieceType, PartLength
<1>9. H \in Seq(Char) /\ Len(H) <= 1 + Len(p.query) + 0
  BY <1>1, PieceType, PartLength
<1>10. I \in Seq(Char) /\ Len(I) <= 1 + Len(p.fragment) + 0
  BY <1>1, PieceType, PartLength
<1>11. Input(p, n) = A \o B \o C \o D \o E \o F \o G \o H \o I
  BY DEF Input
<1>12. /\ Len(p.scheme) \in Nat /\ Len(p.user) \in Nat
       /\ Len(p.password) \in Nat /\ Len(p.hostname) \in Nat
       /\ Len(p.port_str) \in Nat /\ Len(p.path) \in Nat
       /\ Len(p.query) \in Nat /\ Len(p.fragment) \in Nat
  BY PieceType, SMTT(60)
<1> HIDE DEF A, B, C, D, E, F, G, H, I
<1>13. /\ Input(p, n) \in Seq(Char)
       /\ Len(Input(p, n)) = Len(A) + Len(B) + Len(C) + Len(D) + Len(E)
                             + Len(F) + Len(G) + Len(H) + Len(I)
  <2>1. A \o B \o C \in Seq(Char)
        /\ Len(A \o B \o C) = Len(A) + Len(B) + Len(C)
    BY <1>2, <1>3, <1>4
  <2>2. A \o B \o C \o D \o E \in Seq(Char)
        /\ Len(A \o B \o C \o D \o E) = Len(A \o B \o C) + Len(D) + Len(E)
    BY <2>1, <1>5, <1>6
  <2>3. A \o B \o C \o D \o E \o F \o G \in Seq(Char)
        /\ Len(A \o B \o C \o D \o E \o F \o G)
             = Len(A \o B \o C \o D \o E) + Len(F) + Len(G)
    BY <2>2, <1>7, <1>8
  <2>4. A \o B \o C \o D \o E \o F \o G \o H \o I \in Seq(Char)
        /\ Len(A \o B \o C \o D \o E \o F \o G \o H \o I)
             = Len(A \o B \o C \o D \o E \o F \o G) + Len(H) + Len(I)
    BY <2>3, <1>9, <1>10
  <2> QED
    BY <2>1, <2>2, <2>3, <2>4, <1>11, <1>2, <1>3, <1>4, <1>5, <1>6, <1>7
<1> DEFINE a == Len(A)  b == Len(B)  c == Len(C)  d == Len(D)
           g == Len(E)  h == Len(F)  i == Len(G)  j == Len(H)  k == Len(I)
<1>14. Len(Input(p, n)) = a + b + c + d + g + h + i + j + k
  BY <1>13
<1>15. /\ a <= 0 + Len(p.scheme) + 3 /\ b <= 0 + Len(p.user) + 0
       /\ c <= 1 + Len(p.password) + 0 /\ d <= 1
       /\ g <= 0 + Len(p.hostname) + 0 /\ h <= 1 + Len(p.port_str) + 0
       /\ i <= 0 + Len(p.path) + 0 /\ j <= 1 + Len(p.query) + 0
       /\ k <= 1 + Len(p.fragment) + 0
  BY <1>2, <1>3, <1>4, <1>5, <1>6, <1>7, <1>8, <1>9, <1>10
<1>16. /\ a \in Nat /\ b \in Nat /\ c \in Nat /\ d \in Nat /\ g \in Nat
       /\ h \in Nat /\ i \in Nat /\ j \in Nat /\ k \in Nat
  <2>1. a \in Nat /\ b \in Nat /\ c \in Nat /\ d \in Nat
    BY <1>2, <1>3, <1>4, <1>5
  <2>2. g \in Nat /\ h \in Nat /\ i \in Nat /\ j \in Nat /\ k \in Nat
    BY <1>6, <1>7, <1>8, <1>9, <1>10
  <2> QED
    BY <2>1, <2>2
<1> DEFINE q == Len(p.scheme)  r == Len(p.user)  s == Len(p.password)
           t == Len(p.hostname)  v == Len(p.port_str)  w == Len(p.path)
           x == Len(p.query)  y == Len(p.fragment)  z == Len(Input(p, n))
<1>17. Room(p) = q + 3 + r + 1 + s + 1 + t + 1 + v + 1 + w + x + 1 + y + 1 + 1
  BY DEF Room
<1>18. /\ a <= 0 + q + 3 /\ b <= 0 + r + 0 /\ c <= 1 + s + 0 /\ d <= 1
       /\ g <= 0 + t + 0 /\ h <= 1 + v + 0 /\ i <= 0 + w + 0
       /\ j <= 1 + x + 0 /\ k <= 1 + y + 0
  BY <1>15
<1>19. /\ q \in Nat /\ r \in Nat /\ s \in Nat /\ t \in Nat /\ v \in Nat
       /\ w \in Nat /\ x \in Nat /\ y \in Nat
  BY <1>12
<1>20. z = a + b + c + d + g + h + i + j + k
  BY <1>14
<1> HIDE DEF a, b, c, d, g, h, i, j, k, q, r, s, t, v, w, x, y, z
<1>21. z + 1 <= q + 3 + r + 1 + s + 1 + t + 1 + v + 1 + w + x + 1 + y + 1 + 1
  BY <1>16, <1>18, <1>19, <1>20
<1> QED
  BY <1>13, <1>17, <1>21 DEF z

LEMMA TableLength == Len(uri_tests) = 8
BY DEF uri_tests

LEMMA ReportInit == Init => ReportInv
PROOF
<1> SUFFICES ASSUME Init
             PROVE  ReportInv
  OBVIOUS
<1>1. /\ u = 0 /\ failures = 0 /\ total_failures = 0
      /\ pc = (IF args = Outside THEN "outside" ELSE "iterate")
      /\ early = FALSE /\ parser \in {"apr"} \cup Mistakes
      /\ args \in {NoArgs, Outside} \cup Rows
      /\ row = (IF args \in Rows THEN args ELSE 0)
  BY DEF Init
<1>2. row \in Rows
  BY <1>1, TableLength DEF Rows
<1>3. u \in 0..T_MAX /\ failures <= u /\ failures \in Nat
      /\ total_failures \in Nat /\ total_failures <= 2 * T_MAX
      /\ total_failures <= 256
  BY <1>1 DEF T_MAX
<1>4. early \in BOOLEAN /\ ~Done /\ pc \in {"iterate", "outside", "done", "crashed"}
  BY <1>1 DEF Done
<1> QED
  BY <1>1, <1>2, <1>3, <1>4 DEF ReportInv, TypeOK, EarlyStop

LEMMA ReportStep == ReportInv /\ [Next]_vars => ReportInv'
PROOF
<1> SUFFICES ASSUME ReportInv, [Next]_vars
             PROVE  ReportInv'
  OBVIOUS
<1> USE DEF T_MAX, NoArgs, Rows
<1>1. CASE Piece
  <2>1. /\ UNCHANGED <<parser, args, row, total_failures, pc, early>>
        /\ u' = u + 1 /\ u < T_MAX /\ pc = "iterate"
    BY <1>1 DEF Piece
  <2>2. failures' \in {failures, failures + 1}
    BY <1>1 DEF Piece
  <2>3. /\ u \in 0..T_MAX /\ failures \in Nat /\ failures <= u
    BY DEF ReportInv, TypeOK
  <2>4. /\ u' \in 0..T_MAX /\ failures' \in Nat /\ failures' <= u'
    BY <2>1, <2>2, <2>3
  <2> QED
    BY <2>1, <2>4 DEF ReportInv, TypeOK, EarlyStop, Done
<1>2. CASE EndRow
  <2>1. /\ UNCHANGED <<parser, args>> /\ pc = "iterate" /\ u = T_MAX
        /\ total_failures' = total_failures + failures
        /\ early' = (args = NoArgs /\ total_failures' > 256)
    BY <1>2 DEF EndRow, AddRow
  <2>2. /\ row \in 0..(8 - 1) /\ failures \in Nat /\ failures <= 256
        /\ total_failures \in Nat /\ total_failures <= 256
    BY <2>1, TableLength DEF ReportInv, TypeOK
  <2>3. /\ total_failures' \in Nat /\ total_failures' <= 2 * T_MAX
        /\ early' \in BOOLEAN
    BY <2>1, <2>2
  <2>4. CASE args # NoArgs \/ early' \/ row + 1 = Len(uri_tests)
    <3>1. pc' = "done" /\ UNCHANGED <<row, u, failures>>
      BY <1>2, <2>4 DEF EndRow, AddRow
    <3> QED
      BY <2>1, <2>3, <2>4, <3>1 DEF ReportInv, TypeOK, EarlyStop, Done
  <2>5. CASE ~(args # NoArgs \/ early' \/ row + 1 = Len(uri_tests))
    <3>1. row' = row + 1 /\ u' = 0 /\ failures' = 0 /\ pc' = pc
      BY <1>2, <2>5 DEF EndRow, AddRow
    <3>2. total_failures' <= 256
      <4>1. ~(total_failures' > 256)
        BY <2>1, <2>5, Zenon
      <4> QED
        BY <4>1, <2>3
    <3>3. row' \in 0..(8 - 1)
      BY <2>2, <2>5, <3>1, TableLength
    <3>4. pc' = "iterate" /\ 0 \in 0..T_MAX /\ 0 \in Nat
      BY <2>1, <3>1
    <3> QED
      BY <2>1, <2>3, <3>1, <3>2, <3>3, <3>4, TableLength
         DEF ReportInv, TypeOK, EarlyStop, Done
  <2> QED
    BY <2>4, <2>5
<1>3. CASE UNCHANGED vars
  BY <1>3 DEF vars, ReportInv, TypeOK, EarlyStop, Done
<1>4. CASE PastTable
  <2>1. /\ pc = "outside" /\ pc' \in {"crashed", "done"} /\ args # NoArgs
        /\ UNCHANGED <<parser, args, row, u, failures, early>>
    BY <1>4, TableLength DEF PastTable, ReportInv, Outside
  <2>2. total_failures' \in Nat /\ total_failures' <= 2 * T_MAX
    <3>1. \/ total_failures' = total_failures
          \/ total_failures' \in 0..T_MAX
      BY <1>4, Zenon DEF PastTable
    <3>2. total_failures \in Nat /\ total_failures <= 2 * T_MAX
      BY DEF ReportInv, TypeOK, EarlyStop
    <3> QED
      BY <3>1, <3>2
  <2> QED
    BY <2>1, <2>2 DEF ReportInv, TypeOK, EarlyStop, Done
<1> QED
  BY <1>1, <1>2, <1>3, <1>4 DEF Next, Finished

\* A report that does not say it stopped early covers the whole table, and
\* no report counts more than two rows' worth of failures (326-334).
THEOREM EveryReportIsBounded == Spec => []ReportInv
PROOF
<1> QED
  BY ReportInit, ReportStep, PTL DEF Spec

\* The handler stops early only when it says so (EarlyStop).
THEOREM StopsEarlyOpenly == Spec => []EarlyStop
PROOF
<1>1. ReportInv => EarlyStop
  BY DEF ReportInv
<1> QED
  BY <1>1, EveryReportIsBounded, PTL

\* No round of the loop writes past the buffer (BufferSuffices).
THEOREM NoRoundOverruns == Spec => []BufferSuffices
PROOF
<1>1. ReportInv => BufferSuffices
  <2> SUFFICES ASSUME ReportInv
               PROVE  BufferSuffices
    OBVIOUS
  <2>1. row + 1 \in 1..Len(uri_tests)
    BY TableLength DEF ReportInv, TypeOK, Rows
  <2>2. pieces \in Pieces
    BY <2>1, CharAssumption DEF pieces
  <2> QED
    BY <2>2, EveryInputFits DEF BufferSuffices
<1> QED
  BY <1>1, EveryReportIsBounded, PTL
-----------------------------------------------------------------------------
(* The URI taken apart: where the delimiters are, and what is between them. *)

OfSequences == INSTANCE BucketLemmas WITH Byte <- Char

\* A first delimiter is behind everything that is free of them.
LEMMA FirstBehind ==
  ASSUME NEW x \in Seq(Char), NEW y \in Seq(Char), NEW D, Without(x, D)
  PROVE  /\ First(x \o y, D) \in Nat /\ First(x \o y, D) > Len(x)
         /\ y = <<>> \/ y[1] \in D => First(x \o y, D) = Len(x) + 1
<1> DEFINE s == x \o y
           J == {j \in 1..Len(s) : s[j] \in D}
<1>1. /\ s \in Seq(Char) /\ Len(s) = Len(x) + Len(y)
      /\ Len(x) \in Nat /\ Len(y) \in Nat
      /\ \A j \in 1..Len(x) : s[j] = x[j] /\ x[j] \notin D
      /\ y # <<>> => Len(y) > 0 /\ s[Len(x) + 1] = y[1]
      /\ y = <<>> => Len(y) = 0
  BY DEF Without
<1>2. First(s, D) = LET k == IF J # {} THEN Min(J) ELSE 0
                    IN  IF k = 0 THEN Len(s) + 1 ELSE k
  BY DEF First, SelectInSeq
<1> HIDE DEF s
<1>3. /\ J \subseteq Nat /\ \A j \in J : j > Len(x)
      /\ y = <<>> => J = {}
      /\ y # <<>> /\ y[1] \in D => Len(x) + 1 \in J
  BY <1>1
<1> HIDE DEF J
<1>4. CASE J = {}
  <2>1. First(s, D) = Len(s) + 1
    BY <1>2, <1>4
  <2> QED
    BY <1>1, <1>3, <1>4, <2>1 DEF s
<1>5. CASE J # {}
  <2>1. Min(J) \in J /\ \A j \in J : Min(J) <= j
    <3>1. \E j \in J : \A k \in J : j <= k
      BY <1>3, <1>5, OfSequences!LeastNatural
    <3> QED
      BY <3>1 DEF Min
  <2>2. Min(J) \in Nat /\ Min(J) > Len(x)
    BY <1>3, <2>1
  <2>3. First(s, D) = Min(J)
    BY <1>1, <1>2, <1>5, <2>2
  <2>4. y # <<>> /\ y[1] \in D => Min(J) = Len(x) + 1
    BY <1>1, <1>3, <2>1, <2>2
  <2> QED
    BY <1>3, <1>5, <2>2, <2>3, <2>4 DEF s
<1> QED
  BY <1>4, <1>5

\* The last of a delimiter, when nothing after one is one.
LEMMA LastAt ==
  ASSUME NEW x \in Seq(Char), NEW c \in Char, NEW y \in Seq(Char), Without(y, {c})
  PROVE  Last1(x \o <<c>> \o y, {c}) = Len(x) + 1
<1> DEFINE s == x \o <<c>> \o y
           J == {j \in 1..Len(s) : s[j] \in {c}}
<1>1. /\ s \in Seq(Char) /\ Len(s) = Len(x) + 1 + Len(y)
      /\ Len(x) \in Nat /\ Len(y) \in Nat
      /\ s[Len(x) + 1] = c
      /\ \A j \in 1..Len(y) : s[Len(x) + 1 + j] = y[j] /\ y[j] # c
  <2>1. x \o <<c>> \in Seq(Char) /\ Len(x \o <<c>>) = Len(x) + 1
        /\ (x \o <<c>>)[Len(x) + 1] = c
    OBVIOUS
  <2> QED
    BY <2>1 DEF Without
<1>2. Last1(s, {c}) = LET k == IF J # {} THEN Max(J) ELSE 0
                      IN  IF k = 0 THEN Len(s) + 1 ELSE k
  BY DEF Last1, SelectLastInSeq
<1> HIDE DEF s
<1>3. Len(x) + 1 \in J
  BY <1>1
<1>4. ASSUME NEW j \in J PROVE j \in Nat /\ j <= Len(x) + 1
  <2>1. j \in 1..Len(s) /\ s[j] = c
    OBVIOUS
  <2>2. CASE j > Len(x) + 1
    <3>1. j - (Len(x) + 1) \in 1..Len(y) /\ j = Len(x) + 1 + (j - (Len(x) + 1))
      BY <1>1, <2>1, <2>2
    <3> QED
      BY <1>1, <2>1, <3>1
  <2> QED
    BY <1>1, <2>1, <2>2
<1> HIDE DEF J
<1>5. Max(J) \in J /\ \A j \in J : Max(J) >= j
  <2>1. \E j \in J : \A k \in J : j >= k
    BY <1>1, <1>3, <1>4
  <2> QED
    BY <2>1 DEF Max
<1>6. Max(J) = Len(x) + 1
  BY <1>1, <1>3, <1>4, <1>5
<1> QED
  BY <1>1, <1>2, <1>3, <1>6 DEF s

LEMMA NoLast ==
  ASSUME NEW x \in Seq(Char), NEW D, Without(x, D)
  PROVE  Last1(x, D) = Len(x) + 1
<1> DEFINE J == {j \in 1..Len(x) : x[j] \in D}
<1>1. J = {}
  BY DEF Without
<1>2. Last1(x, D) = LET k == IF J # {} THEN Max(J) ELSE 0
                    IN  IF k = 0 THEN Len(x) + 1 ELSE k
  BY DEF Last1, SelectLastInSeq
<1> QED
  BY <1>1, <1>2

\* Cutting where two parts meet gives the parts back.
LEMMA CutAt ==
  ASSUME NEW x \in Seq(Char), NEW y \in Seq(Char)
  PROVE  /\ Upto(x \o y, Len(x) + 1) = x
         /\ From(x \o y, Len(x) + 1) = y
<1>1. /\ x \o y \in Seq(Char) /\ Len(x \o y) = Len(x) + Len(y)
      /\ Len(x) \in Nat /\ Len(y) \in Nat
      /\ \A j \in 1..Len(x) : (x \o y)[j] = x[j]
      /\ \A j \in 1..Len(y) : (x \o y)[Len(x) + j] = y[j]
  OBVIOUS
<1>2. Upto(x \o y, Len(x) + 1) = x
  <2> DEFINE l == SubSeq(x \o y, 1, Len(x))
  <2>1. l \in Seq(Char) /\ Len(l) = Len(x) /\ \A j \in 1..Len(l) : l[j] = x[j]
    BY <1>1
  <2>2. l = x
    <3> HIDE DEF l
    <3> QED
      BY <2>1, SeqEqual
  <2> QED
    BY <1>1, <2>2 DEF Upto
<1>3. From(x \o y, Len(x) + 1) = y
  <2> DEFINE l == SubSeq(x \o y, Len(x) + 1, Len(x) + Len(y))
  <2>1. l \in Seq(Char) /\ Len(l) = Len(y) /\ \A j \in 1..Len(l) : l[j] = y[j]
    BY <1>1
  <2>2. l = y
    <3> HIDE DEF l
    <3> QED
      BY <2>1, SeqEqual
  <2> QED
    BY <1>1, <2>2 DEF From
<1> QED
  BY <1>2, <1>3

\* The same across a delimiter.
LEMMA CutBehind ==
  ASSUME NEW x \in Seq(Char), NEW c \in Char, NEW y \in Seq(Char)
  PROVE  /\ x \o <<c>> \o y = x \o (<<c>> \o y)
         /\ Upto(x \o (<<c>> \o y), Len(x) + 1) = x
         /\ From(x \o (<<c>> \o y), Len(x) + 1 + 1) = y
         /\ Len(x \o (<<c>> \o y)) = Len(x) + 1 + Len(y)
         /\ (x \o (<<c>> \o y))[Len(x) + 1] = c
<1>1. /\ <<c>> \in Seq(Char) /\ <<c>> \o y \in Seq(Char)
      /\ Len(<<c>> \o y) = 1 + Len(y) /\ (<<c>> \o y)[1] = c
      /\ x \o <<c>> \in Seq(Char) /\ Len(x \o <<c>>) = Len(x) + 1
  OBVIOUS
<1>2. x \o <<c>> \o y = x \o (<<c>> \o y)
  BY <1>1, ConcatAssociative
<1>3. From(x \o <<c>> \o y, Len(x) + 1 + 1) = y
  <2> DEFINE v == x \o <<c>>
  <2>1. v \in Seq(Char) /\ Len(v) = Len(x) + 1
    BY <1>1
  <2> HIDE DEF v
  <2>2. From(v \o y, Len(v) + 1) = y
    BY <2>1, CutAt
  <2> QED
    BY <2>1, <2>2, Zenon DEF v
<1>4. Upto(x \o (<<c>> \o y), Len(x) + 1) = x
  BY <1>1, CutAt
<1>5. /\ Len(x \o (<<c>> \o y)) = Len(x) + 1 + Len(y)
      /\ (x \o (<<c>> \o y))[Len(x) + 1] = c
  BY <1>1
<1> QED
  BY <1>2, <1>3, <1>4, <1>5

LEMMA WithoutFacts ==
  ASSUME NEW x \in Seq(Char), NEW y \in Seq(Char), NEW D
  PROVE  /\ Without(<<>>, D)
         /\ Without(x, D) /\ Without(y, D) => Without(x \o y, D)
         /\ \A c \in Char : c \notin D => Without(<<c>>, D)
         /\ \A E \in SUBSET D : Without(x, D) => Without(x, E)
<1>1. Without(<<>>, D) /\ \A c \in Char : c \notin D => Without(<<c>>, D)
  BY DEF Without
<1>2. \A E \in SUBSET D : Without(x, D) => Without(x, E)
  BY DEF Without
<1>3. ASSUME Without(x, D), Without(y, D) PROVE Without(x \o y, D)
  <2>1. /\ Len(x \o y) = Len(x) + Len(y) /\ Len(x) \in Nat /\ Len(y) \in Nat
        /\ \A j \in 1..Len(x) : (x \o y)[j] = x[j]
        /\ \A j \in 1..(Len(x) + Len(y)) : j > Len(x) => /\ (x \o y)[j] = y[j - Len(x)]
                                                       /\ j - Len(x) \in 1..Len(y)
    OBVIOUS
  <2>2. ASSUME NEW j \in 1..Len(x \o y) PROVE (x \o y)[j] \notin D
    <3>1. CASE j <= Len(x)
      BY <1>3, <2>1, <3>1 DEF Without
    <3>2. CASE j > Len(x)
      BY <1>3, <2>1, <3>2 DEF Without
    <3> QED
      BY <2>1, <3>1, <3>2
  <2> QED
    BY <2>2 DEF Without
<1> QED
  BY <1>1, <1>2, <1>3

\* A first delimiter between two parts, and what is on either side of it.
LEMMA SplitBehind ==
  ASSUME NEW x \in Seq(Char), NEW c \in Char, NEW y \in Seq(Char), Without(x, {c})
  PROVE  /\ First(x \o (<<c>> \o y), {c}) = Len(x) + 1
         /\ ~(Len(x) + 1 > Len(x \o (<<c>> \o y)))
         /\ Upto(x \o (<<c>> \o y), Len(x) + 1) = x
         /\ From(x \o (<<c>> \o y), Len(x) + 1 + 1) = y
<1>1. <<c>> \o y \in Seq(Char) /\ (<<c>> \o y)[1] \in {c}
  OBVIOUS
<1> DEFINE b == <<c>> \o y
<1> HIDE DEF b
<1>2. First(x \o b, {c}) = Len(x) + 1
  BY <1>1, FirstBehind DEF b
<1>3. Len(x) \in Nat /\ Len(y) \in Nat /\ Len(x \o b) = Len(x) + 1 + Len(y)
  BY CutBehind DEF b
<1> QED
  BY <1>2, <1>3, CutBehind DEF b

LEMMA NoSplit ==
  ASSUME NEW x \in Seq(Char), NEW D, Without(x, D)
  PROVE  /\ First(x, D) = Len(x) + 1 /\ Len(x) + 1 > Len(x)
         /\ Upto(x, Len(x) + 1) = x
<1>1. <<>> \in Seq(Char) /\ x \o <<>> = x /\ Len(x) \in Nat
  OBVIOUS
<1>2. First(x \o <<>>, D) = Len(x) + 1 /\ Upto(x \o <<>>, Len(x) + 1) = x
  BY <1>1, FirstBehind, CutAt
<1> QED
  BY <1>1, <1>2

LEMMA Assoc == \A x, y, z \in Seq(Char) : (x \o y) \o z = x \o (y \o z)
BY ConcatAssociative

\* R holds the pieces S of p, and no others.
Gives(R, S, p) == DOMAIN R = S /\ \A f \in S : R[f] = p[f]

LEMMA GivesBoth ==
  ASSUME NEW R, NEW Q, NEW S, NEW U, NEW p, Gives(R, S, p), Gives(Q, U, p)
  PROVE  Gives(Both(R, Q), S \cup U, p)
BY DEF Gives, Both

LEMMA GivesNone == ASSUME NEW p PROVE Gives(<<>>, {}, p)
BY DEF Gives

LEMMA Delimiters == {":", "/", "@", "?", "#"} \subseteq Char
BY CharAssumption

\* What each part of a URI is made of.
Behind(c, p, e, f) == IF f \in e THEN <<c>> \o p[f] ELSE <<>>
HostText(p, e) == p.hostname \o Behind(":", p, e, "port_str")
UserText(p, e) == p.user \o Behind(":", p, e, "password")
InfoText(p, e) == IF "user" \in e THEN UserText(p, e) \o (<<"@">> \o HostText(p, e))
                  ELSE HostText(p, e)
PathText(p, e) == IF "path" \in e THEN p.path ELSE <<>>
RestText(p, e) == PathText(p, e) \o (Behind("?", p, e, "query") \o Behind("#", p, e, "fragment"))

LEMMA BehindFacts ==
  ASSUME NEW c \in Char, NEW p, NEW e, NEW f, p[f] \in Seq(Char)
  PROVE  /\ Behind(c, p, e, f) \in Seq(Char)
         /\ Behind(c, p, e, f) = <<>> \/ Behind(c, p, e, f)[1] = c
         /\ f \in e => Behind(c, p, e, f) = <<c>> \o p[f]
         /\ f \notin e => Behind(c, p, e, f) = <<>>
         /\ \A D : c \notin D /\ Without(p[f], D) => Without(Behind(c, p, e, f), D)
<1> DEFINE s == p[f]
<1>1. s \in Seq(Char) /\ <<c>> \in Seq(Char)
  OBVIOUS
<1>2. Behind(c, p, e, f) = IF f \in e THEN <<c>> \o s ELSE <<>>
  BY DEF Behind
<1> HIDE DEF s
<1>3. <<c>> \o s \in Seq(Char) /\ (<<c>> \o s)[1] = c /\ <<>> \in Seq(Char)
  BY <1>1
<1>4. \A D : c \notin D /\ Without(s, D) => Without(<<c>> \o s, D)
  BY <1>1, WithoutFacts
<1>5. \A D : Without(<<>>, D)
  BY <1>1, WithoutFacts
<1> QED
  BY <1>2, <1>3, <1>4, <1>5 DEF s

\* What the grammar's words are free of.
LEMMA GrammarFacts ==
  ASSUME NEW p \in Grammatical
  PROVE  /\ p \in Pieces /\ p.scheme # <<>> /\ p.scheme \in Seq(Letter)
         /\ Without(p.scheme, {":", "/", "?", "#"})
         /\ Without(p.hostname, {":", "@", "/", "?", "#"})
         /\ Without(p.port_str, {"@", "/", "?", "#"}) /\ p.port_str \in Seq(Digit)
<1>1. /\ p \in Pieces /\ p.scheme # <<>> /\ p.scheme \in Seq(Letter)
      /\ Without(p.hostname, {":", "@", "/", "?", "#", "["}) /\ p.port_str \in Seq(Digit)
  BY DEF Grammatical
<1>2. \A c \in Letter \cup Digit : c \notin {":", "/", "@", "?", "#"}
  BY CharAssumption
<1>3. \A x \in Seq(Letter) : Without(x, {":", "/", "?", "#"})
  BY <1>2 DEF Without
<1>4. \A x \in Seq(Digit) : Without(x, {"@", "/", "?", "#"})
  BY <1>2 DEF Without
<1>5. Without(p.hostname, {":", "@", "/", "?", "#"})
  BY <1>1 DEF Without
<1> QED
  BY <1>1, <1>3, <1>4, <1>5

\* The host: a name up to the first colon, a port behind it.
LEMMA HostComesBack ==
  ASSUME NEW p \in Grammatical, NEW e
  PROVE  /\ HostText(p, e) \in Seq(Char)
         /\ Without(HostText(p, e), {"@", "/", "?", "#"})
         /\ Gives(ParsedHost(HostText(p, e)), {"hostname"} \cup (e \cap {"port_str"}), p)
<1> DEFINE h == p.hostname
           y == p.port_str
           b == Behind(":", p, e, "port_str")
           D == {"@", "/", "?", "#"}
<1>1. /\ h \in Seq(Char) /\ Without(h, {":", "@", "/", "?", "#"})
      /\ y \in Seq(Char) /\ Without(y, D)
      /\ ":" \in Char
  BY GrammarFacts, PieceType, Delimiters
<1>2. /\ b \in Seq(Char) /\ Without(b, D)
      /\ "port_str" \in e => b = <<":">> \o y
      /\ "port_str" \notin e => b = <<>>
  <2>1. ":" \notin D
    OBVIOUS
  <2> QED
    <3>1. /\ b \in Seq(Char)
          /\ "port_str" \in e => b = <<":">> \o y
          /\ "port_str" \notin e => b = <<>>
          /\ \A X : ":" \notin X /\ Without(y, X) => Without(b, X)
      BY <1>1, BehindFacts
    <3> HIDE DEF b, y, D
    <3> QED
      BY <1>1, <2>1, <3>1, Zenon
<1>3. Without(h, D) /\ Without(h, {":"})
  BY <1>1, WithoutFacts
<1>4. Gives([hostname |-> h], {"hostname"}, p) /\ Gives([port_str |-> y], {"port_str"}, p)
  BY DEF Gives
<1>5. HostText(p, e) = h \o b
  BY DEF HostText
<1> HIDE DEF h, y, b, D
<1>6. h \o b \in Seq(Char) /\ Without(h \o b, D)
  BY <1>1, <1>2, <1>3, WithoutFacts
<1>7. CASE "port_str" \in e
  <2>1. /\ First(h \o b, {":"}) = Len(h) + 1 /\ ~(Len(h) + 1 > Len(h \o b))
        /\ Upto(h \o b, Len(h) + 1) = h /\ From(h \o b, Len(h) + 1 + 1) = y
    <3>1. /\ First(h \o (<<":">> \o y), {":"}) = Len(h) + 1
          /\ ~(Len(h) + 1 > Len(h \o (<<":">> \o y)))
          /\ Upto(h \o (<<":">> \o y), Len(h) + 1) = h
          /\ From(h \o (<<":">> \o y), Len(h) + 1 + 1) = y
      BY <1>1, <1>3, SplitBehind, Zenon
    <3> QED
      BY <1>2, <1>7, <3>1, Zenon
  <2>2. ParsedHost(h \o b) = Both([hostname |-> h], [port_str |-> y])
    BY <2>1 DEF ParsedHost
  <2>3. e \cap {"port_str"} = {"port_str"}
    BY <1>7
  <2> QED
    BY <1>4, <1>5, <1>6, <2>2, <2>3, GivesBoth DEF D
<1>8. CASE "port_str" \notin e
  <2>1. h \o b = h
    BY <1>1, <1>2, <1>8
  <2>2. /\ First(h, {":"}) = Len(h) + 1 /\ Len(h) + 1 > Len(h)
        /\ Upto(h, Len(h) + 1) = h
    BY <1>1, <1>3, NoSplit
  <2>3. ParsedHost(h \o b) = Both([hostname |-> h], <<>>)
    BY <2>1, <2>2 DEF ParsedHost
  <2>4. e \cap {"port_str"} = {}
    BY <1>8
  <2> QED
    BY <1>4, <1>5, <1>6, <2>3, <2>4, GivesBoth, GivesNone DEF D
<1> QED
  BY <1>7, <1>8

\* A user up to the first colon, a password behind it.
LEMMA UserComesBack ==
  ASSUME NEW p \in Grammatical, NEW e, parser = "apr"
  PROVE  /\ UserText(p, e) \in Seq(Char)
         /\ Without(UserText(p, e), {"/", "?", "#"})
         /\ Gives(ParsedUser(UserText(p, e)), {"user"} \cup (e \cap {"password"}), p)
<1> DEFINE h == p.user
           y == p.password
           b == Behind(":", p, e, "password")
           D == {"/", "?", "#"}
<1>1. /\ h \in Seq(Char) /\ Without(h, {":", "/", "?", "#"})
      /\ y \in Seq(Char) /\ Without(y, D)
      /\ ":" \in Char
  BY PieceType, Delimiters DEF Grammatical
<1>2. /\ b \in Seq(Char) /\ Without(b, D)
      /\ "password" \in e => b = <<":">> \o y
      /\ "password" \notin e => b = <<>>
  <2>1. ":" \notin D
    OBVIOUS
  <2> QED
    <3>1. /\ b \in Seq(Char)
          /\ "password" \in e => b = <<":">> \o y
          /\ "password" \notin e => b = <<>>
          /\ \A X : ":" \notin X /\ Without(y, X) => Without(b, X)
      BY <1>1, BehindFacts
    <3> HIDE DEF b, y, D
    <3> QED
      BY <1>1, <2>1, <3>1, Zenon
<1>3. Without(h, D) /\ Without(h, {":"})
  BY <1>1, WithoutFacts
<1>4. Gives([user |-> h], {"user"}, p) /\ Gives([password |-> y], {"password"}, p)
  BY DEF Gives
<1>5. UserText(p, e) = h \o b
  BY DEF UserText
<1> HIDE DEF h, y, b, D
<1>6. h \o b \in Seq(Char) /\ Without(h \o b, D)
  BY <1>1, <1>2, <1>3, WithoutFacts
<1>7. CASE "password" \in e
  <2>1. /\ First(h \o b, {":"}) = Len(h) + 1 /\ ~(Len(h) + 1 > Len(h \o b))
        /\ Upto(h \o b, Len(h) + 1) = h /\ From(h \o b, Len(h) + 1 + 1) = y
    <3>1. /\ First(h \o (<<":">> \o y), {":"}) = Len(h) + 1
          /\ ~(Len(h) + 1 > Len(h \o (<<":">> \o y)))
          /\ Upto(h \o (<<":">> \o y), Len(h) + 1) = h
          /\ From(h \o (<<":">> \o y), Len(h) + 1 + 1) = y
      BY <1>1, <1>3, SplitBehind, Zenon
    <3> QED
      BY <1>2, <1>7, <3>1, Zenon
  <2>2. ParsedUser(h \o b) = Both([user |-> h], [password |-> y])
    BY <2>1 DEF ParsedUser
  <2>3. e \cap {"password"} = {"password"}
    BY <1>7
  <2> QED
    BY <1>4, <1>5, <1>6, <2>2, <2>3, GivesBoth DEF D
<1>8. CASE "password" \notin e
  <2>1. h \o b = h
    BY <1>1, <1>2, <1>8
  <2>2. /\ First(h, {":"}) = Len(h) + 1 /\ Len(h) + 1 > Len(h)
        /\ Upto(h, Len(h) + 1) = h
    BY <1>1, <1>3, NoSplit
  <2>3. ParsedUser(h \o b) = Both([user |-> h], <<>>)
    BY <2>1, <2>2 DEF ParsedUser
  <2>4. e \cap {"password"} = {}
    BY <1>8
  <2> QED
    BY <1>4, <1>5, <1>6, <2>3, <2>4, GivesBoth, GivesNone DEF D
<1> QED
  BY <1>7, <1>8

\* What is before a host: nothing, or a user up to the last "@".
LEMMA InfoComesBack ==
  ASSUME NEW p \in Grammatical, NEW e, parser = "apr", "hostname" \in e,
         "password" \in e => "user" \in e
  PROVE  /\ InfoText(p, e) \in Seq(Char)
         /\ Without(InfoText(p, e), {"/", "?", "#"})
         /\ Gives(ParsedInfo(InfoText(p, e)),
                  e \cap {"user", "password", "hostname", "port_str"}, p)
<1> DEFINE x == UserText(p, e)
           y == HostText(p, e)
           D == {"/", "?", "#"}
           S == {"user"} \cup (e \cap {"password"})
           H == {"hostname"} \cup (e \cap {"port_str"})
<1>1. /\ x \in Seq(Char) /\ Without(x, D) /\ Gives(ParsedUser(x), S, p)
  BY UserComesBack
<1>2. /\ y \in Seq(Char) /\ Without(y, {"@", "/", "?", "#"})
      /\ Gives(ParsedHost(y), H, p)
  BY HostComesBack
<1>3. Without(y, D) /\ Without(y, {"@"})
  BY <1>2, WithoutFacts
<1>4. "@" \in Char /\ "@" \notin D
  BY Delimiters
<1>5. InfoText(p, e) = IF "user" \in e THEN x \o (<<"@">> \o y) ELSE y
  BY DEF InfoText
<1>6. /\ "user" \in e => e \cap {"user", "password", "hostname", "port_str"} = S \cup H
      /\ "user" \notin e => e \cap {"user", "password", "hostname", "port_str"} = H
  OBVIOUS
<1>7. CASE "user" \in e
  <2> HIDE DEF x, y, D, S, H
  <2>1. <<"@">> \in Seq(Char) /\ Without(<<"@">>, D) /\ <<"@">> \o y \in Seq(Char)
    BY <1>2, <1>4, WithoutFacts
  <2>2. Without(<<"@">> \o y, D)
    BY <1>2, <1>3, <2>1, WithoutFacts
  <2>3. x \o (<<"@">> \o y) \in Seq(Char) /\ Without(x \o (<<"@">> \o y), D)
    <3> DEFINE b == <<"@">> \o y
    <3>1. b \in Seq(Char) /\ Without(b, D)
      BY <2>1, <2>2
    <3> HIDE DEF b
    <3>2. x \o b \in Seq(Char) /\ Without(x \o b, D)
      BY <1>1, <3>1, WithoutFacts
    <3> QED
      BY <3>2 DEF b
  <2>4. /\ x \o <<"@">> \o y = x \o (<<"@">> \o y)
        /\ Upto(x \o (<<"@">> \o y), Len(x) + 1) = x
        /\ From(x \o (<<"@">> \o y), Len(x) + 1 + 1) = y
        /\ Len(x \o (<<"@">> \o y)) = Len(x) + 1 + Len(y)
    BY <1>1, <1>2, <1>4, CutBehind, Zenon
  <2>5. Last1(x \o (<<"@">> \o y), {"@"}) = Len(x) + 1
    <3>1. Last1(x \o <<"@">> \o y, {"@"}) = Len(x) + 1
      BY <1>1, <1>2, <1>3, <1>4, LastAt, Zenon
    <3> QED
      BY <2>4, <3>1, Zenon
  <2>6. ~(Len(x) + 1 > Len(x \o (<<"@">> \o y)))
    <3>1. Len(x) \in Nat /\ Len(y) \in Nat
      BY <1>1, <1>2
    <3> QED
      BY <2>4, <3>1
  <2>7. ParsedInfo(x \o (<<"@">> \o y)) = Both(ParsedUser(x), ParsedHost(y))
    BY <2>4, <2>5, <2>6 DEF ParsedInfo
  <2>8. Gives(Both(ParsedUser(x), ParsedHost(y)), S \cup H, p)
    BY <1>1, <1>2, GivesBoth
  <2>9. InfoText(p, e) = x \o (<<"@">> \o y)
    BY <1>5, <1>7, Zenon
  <2> QED
    BY <1>6, <1>7, <2>3, <2>7, <2>8, <2>9, Zenon DEF D
<1>8. CASE "user" \notin e
  <2> HIDE DEF x, y, D, S, H
  <2>1. Last1(y, {"@"}) = Len(y) + 1 /\ Len(y) + 1 > Len(y)
    BY <1>2, <1>3, NoLast
  <2>2. ParsedInfo(y) = ParsedHost(y)
    BY <2>1 DEF ParsedInfo
  <2> QED
    BY <1>2, <1>3, <1>5, <1>6, <1>8, <2>2, Zenon DEF D
<1> QED
  BY <1>7, <1>8

\* A part between two others.
LEMMA CutMiddle ==
  ASSUME NEW x \in Seq(Char), NEW y \in Seq(Char), NEW z \in Seq(Char)
  PROVE  SubSeq(x \o (y \o z), Len(x) + 1, Len(x) + Len(y)) = y
<1> DEFINE b == y \o z
           s == x \o b
           l == SubSeq(s, Len(x) + 1, Len(x) + Len(y))
<1>1. /\ b \in Seq(Char) /\ Len(b) = Len(y) + Len(z)
      /\ \A j \in 1..Len(y) : b[j] = y[j]
      /\ Len(x) \in Nat /\ Len(y) \in Nat /\ Len(z) \in Nat
  OBVIOUS
<1> HIDE DEF b
<1>2. s \in Seq(Char) /\ Len(s) = Len(x) + Len(b)
  BY <1>1, ConcatProperties, Zenon
<1>3. ASSUME NEW j \in 1..Len(y) PROVE s[Len(x) + j] = y[j]
  <2>1. /\ Len(x) + j \in 1..Len(x) + Len(b) /\ ~(Len(x) + j <= Len(x))
        /\ Len(x) + j - Len(x) = j
    BY <1>1
  <2>2. s[Len(x) + j] = b[j]
    BY <1>1, <2>1
  <2> QED
    BY <1>1, <2>2
<1> HIDE DEF s
<1>4. l \in Seq(Char) /\ Len(l) = Len(y)
  BY <1>1, <1>2
<1>5. ASSUME NEW j \in 1..Len(l) PROVE l[j] = y[j]
  <2>1. j \in 1..Len(y)
    BY <1>4
  <2>2. l[j] = s[Len(x) + 1 + j - 1] /\ Len(x) + 1 + j - 1 = Len(x) + j
    BY <1>1, <1>2, <2>1
  <2> QED
    BY <1>3, <2>1, <2>2
<1> HIDE DEF l
<1>6. l = y
  BY <1>4, <1>5, SeqEqual
<1> QED
  BY <1>6 DEF l, s, b

\* Path, query and fragment: cut at the first "?" and the first "#".
LEMMA RestComesBack ==
  ASSUME NEW p \in Grammatical, NEW e, parser = "apr"
  PROVE  /\ RestText(p, e) \in Seq(Char)
         /\ RestText(p, e) = <<>> \/ RestText(p, e)[1] \in {"/", "?", "#"}
         /\ Gives(ParsedRest(RestText(p, e)), e \cap {"path", "query", "fragment"}, p)
<1> DEFINE P == PathText(p, e)
           q == p.query
           f == p.fragment
           Q == Behind("?", p, e, "query")
           F == Behind("#", p, e, "fragment")
           s == P \o (Q \o F)
           hash == First(s, {"#"})
           quest == First(s, {"?"})
           n == Len(P) + 1
<1>1. "?" \in Char /\ "#" \in Char /\ "/" \in Char
  BY Delimiters
<1>2. /\ q \in Seq(Char) /\ Without(q, {"#"}) /\ f \in Seq(Char)
      /\ p.path \in Seq(Char) /\ Without(p.path, {"?", "#"})
      /\ p.path # <<>> /\ p.path[1] = "/"
  BY PieceType DEF Grammatical
<1>3. /\ Q \in Seq(Char) /\ Without(Q, {"#"}) /\ (Q = <<>> \/ Q[1] = "?")
      /\ "query" \in e => Q = <<"?">> \o q
      /\ "query" \notin e => Q = <<>>
  <2>1. "?" \notin {"#"}
    OBVIOUS
  <2> QED
    BY <1>1, <1>2, <2>1, BehindFacts
<1>4. /\ F \in Seq(Char) /\ (F = <<>> \/ F[1] = "#")
      /\ "fragment" \in e => F = <<"#">> \o f
      /\ "fragment" \notin e => F = <<>>
  BY <1>1, <1>2, BehindFacts
<1>5. /\ P \in Seq(Char) /\ Without(P, {"?", "#"})
      /\ P = <<>> \/ P[1] = "/"
      /\ "path" \in e => P = p.path /\ P # <<>>
      /\ "path" \notin e => P = <<>>
  <2>1. <<>> \in Seq(Char) /\ Without(<<>>, {"?", "#"})
    BY <1>2, WithoutFacts
  <2> QED
    BY <1>2, <2>1 DEF PathText
<1>6. Without(P, {"?"}) /\ Without(P, {"#"})
  BY <1>5, WithoutFacts
<1>7. RestText(p, e) = s
  BY DEF RestText
<1>8. /\ "path" \in e => Gives([path |-> P], {"path"}, p)
      /\ Gives([query |-> q], {"query"}, p) /\ Gives([fragment |-> f], {"fragment"}, p)
  BY <1>5 DEF Gives
<1> HIDE DEF P, q, f, Q, F
<1>9. Q \o F \in Seq(Char) /\ P \o Q \in Seq(Char) /\ P \o (Q \o F) = (P \o Q) \o F
  <2>1. Q \o F \in Seq(Char) /\ P \o Q \in Seq(Char)
    BY <1>3, <1>4, <1>5, ConcatProperties, Zenon
  <2>2. P \o (Q \o F) = (P \o Q) \o F
    BY <1>3, <1>4, <1>5, Assoc
  <2> QED
    BY <2>1, <2>2
<1>10. /\ Len(P) \in Nat /\ Len(Q) \in Nat /\ Len(F) \in Nat
       /\ s \in Seq(Char) /\ Len(s) = Len(P) + (Len(Q) + Len(F))
       /\ Len(P \o Q) = Len(P) + Len(Q)
  <2>1. Len(Q \o F) = Len(Q) + Len(F) /\ Len(P \o Q) = Len(P) + Len(Q)
    BY <1>3, <1>4, <1>5, ConcatProperties
  <2>2. P \o (Q \o F) \in Seq(Char) /\ Len(P \o (Q \o F)) = Len(P) + Len(Q \o F)
    BY <1>5, <1>9, ConcatProperties, Zenon
  <2> QED
    BY <1>3, <1>4, <1>5, <2>1, <2>2
\* The first "#" is where the fragment begins, or behind the end.
<1>11. hash = Len(P) + Len(Q) + 1
  <2>1. Without(P \o Q, {"#"})
    BY <1>3, <1>5, <1>6, WithoutFacts
  <2>2. First((P \o Q) \o F, {"#"}) = Len(P \o Q) + 1
    BY <1>4, <1>9, <2>1, FirstBehind
  <2> QED
    BY <1>9, <1>10, <2>2
\* The first "?" is where the query begins, or nowhere before the "#".
<1>12. /\ quest \in Nat /\ quest > Len(P)
       /\ "query" \in e => quest = n
  <2> DEFINE b == Q \o F
  <2>1. b \in Seq(Char) /\ ("query" \in e => b[1] \in {"?"})
    BY <1>1, <1>2, <1>3, <1>4, <1>9
  <2> HIDE DEF b
  <2>2. /\ First(P \o b, {"?"}) \in Nat /\ First(P \o b, {"?"}) > Len(P)
        /\ b[1] \in {"?"} => First(P \o b, {"?"}) = Len(P) + 1
    BY <1>5, <1>6, <2>1, FirstBehind
  <2> QED
    BY <2>1, <2>2 DEF b
<1>13. Upto(s, n) = P
  BY <1>5, <1>9, CutAt
<1>14. s = <<>> \/ s[1] \in {"/", "?", "#"}
  <2>1. CASE P # <<>>
    BY <1>5, <1>9, <2>1
  <2>2. CASE P = <<>>
    <3>1. s = Q \o F
      BY <1>9, <2>2
    <3>2. CASE Q = <<>>
      BY <1>3, <1>4, <3>1, <3>2
    <3>3. CASE Q # <<>>
      BY <1>3, <1>4, <3>1, <3>3
    <3> QED
      BY <3>2, <3>3
  <2> QED
    BY <2>1, <2>2
<1>15. (IF quest < hash THEN quest ELSE hash) = n
  <2> HIDE DEF quest, hash
  <2>1. CASE "query" \in e
    <3>1. Len(Q) = 1 + Len(q) /\ Len(q) \in Nat
      BY <1>1, <1>2, <1>3, <2>1
    <3> QED
      BY <1>10, <1>11, <1>12, <2>1, <3>1
  <2>2. CASE "query" \notin e
    <3>1. Len(Q) = 0
      BY <1>3, <2>2
    <3> QED
      BY <1>10, <1>11, <1>12, <3>1
  <2> QED
    BY <2>1, <2>2
<1> DEFINE A == IF P = <<>> THEN <<>> ELSE [path |-> P]
           B == IF n > Len(s) \/ s[n] # "?" THEN <<>>
                ELSE [query |-> SubSeq(s, n + 1, IF hash > n THEN hash - 1 ELSE Len(s))]
           C == IF hash > Len(s) THEN <<>> ELSE [fragment |-> From(s, hash + 1)]
<1>16. ParsedRest(s) = Both(A, Both(B, C))
  <2>1. (IF hash < n THEN hash ELSE n) = n
    <3> HIDE DEF hash
    <3> QED
      BY <1>10, <1>11
  <2> HIDE DEF n
  <2> QED
    BY <1>13, <1>15, <2>1 DEF ParsedRest
<1>17. Gives(A, e \cap {"path"}, p)
  <2>1. CASE "path" \in e
    <3>1. e \cap {"path"} = {"path"} /\ A = [path |-> P]
      BY <1>5, <2>1
    <3> QED
      BY <1>8, <2>1, <3>1
  <2>2. CASE "path" \notin e
    <3>1. e \cap {"path"} = {} /\ A = <<>>
      BY <1>5, <2>2
    <3> QED
      BY <3>1, GivesNone
  <2> QED
    BY <2>1, <2>2
<1>18. Gives(B, e \cap {"query"}, p)
  <2>1. CASE "query" \in e
    <3>1. q \o F \in Seq(Char) /\ <<"?">> \in Seq(Char) /\ P \o <<"?">> \in Seq(Char)
          /\ Len(P \o <<"?">>) = n
      BY <1>1, <1>2, <1>4, <1>5
    <3>2. Q \o F = <<"?">> \o (q \o F)
      <4>1. (<<"?">> \o q) \o F = <<"?">> \o (q \o F)
        <5>1. \A y, z \in Seq(Char) : (<<"?">> \o y) \o z = <<"?">> \o (y \o z)
          BY <3>1, Assoc, Zenon
        <5> QED
          BY <1>2, <1>4, <5>1, Zenon
      <4> QED
        BY <1>3, <2>1, <4>1
    <3>3. s = (P \o <<"?">>) \o (q \o F) /\ s[n] = "?"
      <4> DEFINE y == q \o F
      <4>1. y \in Seq(Char)
        BY <3>1
      <4> HIDE DEF y
      <4>2. /\ P \o <<"?">> \o y = P \o (<<"?">> \o y)
            /\ (P \o (<<"?">> \o y))[Len(P) + 1] = "?"
        BY <1>1, <1>5, <4>1, CutBehind
      <4> QED
        BY <3>2, <4>2, Zenon DEF y
    <3>4. SubSeq(s, n + 1, n + Len(q)) = q
      <4> DEFINE x == P \o <<"?">>
      <4>1. x \in Seq(Char) /\ Len(x) = n
        BY <3>1
      <4> HIDE DEF x, n
      <4>2. SubSeq(x \o (q \o F), Len(x) + 1, Len(x) + Len(q)) = q
        BY <1>2, <1>4, <4>1, CutMiddle
      <4> QED
        BY <3>3, <4>1, <4>2, Zenon DEF x
    <3>5. Len(q) \in Nat /\ Len(Q) = 1 + Len(q)
      BY <1>1, <1>2, <1>3, <2>1
    <3>6. hash > n /\ hash - 1 = n + Len(q) /\ ~(n > Len(s))
      <4> HIDE DEF hash, s
      <4> QED
        BY <1>10, <1>11, <3>5
    <3>7. B = [query |-> q]
      <4> HIDE DEF hash, s, n
      <4> QED
        BY <3>3, <3>4, <3>6
    <3>8. e \cap {"query"} = {"query"}
      BY <2>1
    <3> QED
      BY <1>8, <3>7, <3>8
  <2>2. CASE "query" \notin e
    <3>1. Q = <<>> /\ Len(Q) = 0 /\ Q \o F = F
      BY <1>3, <1>4, <2>2
    <3>2. n > Len(s) \/ s[n] # "?"
      <4>1. CASE F = <<>>
        <5>1. Len(F) = 0
          BY <4>1
        <5> HIDE DEF s
        <5> QED
          BY <1>10, <3>1, <5>1
      <4>2. CASE F # <<>>
        <5>1. F[1] = "#" /\ s = P \o F /\ Len(F) > 0
          BY <1>4, <3>1, <4>2
        <5>2. s[n] = F[1]
          BY <1>4, <1>5, <5>1
        <5> QED
          BY <5>1, <5>2
      <4> QED
        BY <4>1, <4>2
    <3>3. B = <<>> /\ e \cap {"query"} = {}
      BY <2>2, <3>2
    <3> QED
      BY <3>3, GivesNone
  <2> QED
    BY <2>1, <2>2
<1>19. Gives(C, e \cap {"fragment"}, p)
  <2>1. CASE "fragment" \in e
    <3>1. Without(P \o Q, {"#"})
      BY <1>3, <1>5, <1>6, WithoutFacts
    <3>2. s = (P \o Q) \o (<<"#">> \o f)
      BY <1>4, <1>9, <2>1
    <3>3. /\ hash = Len(P \o Q) + 1 /\ ~(Len(P \o Q) + 1 > Len(s))
          /\ From(s, Len(P \o Q) + 1 + 1) = f
      <4> DEFINE x == P \o Q
      <4> HIDE DEF x
      <4>1. /\ First(x \o (<<"#">> \o f), {"#"}) = Len(x) + 1
            /\ ~(Len(x) + 1 > Len(x \o (<<"#">> \o f)))
            /\ From(x \o (<<"#">> \o f), Len(x) + 1 + 1) = f
        BY <1>1, <1>2, <1>9, <3>1, SplitBehind DEF x
      <4> QED
        BY <3>2, <4>1, Zenon DEF x
    <3>4. C = [fragment |-> f]
      <4> HIDE DEF hash, s
      <4> QED
        BY <3>3
    <3>5. e \cap {"fragment"} = {"fragment"}
      BY <2>1
    <3> QED
      BY <1>8, <3>4, <3>5
  <2>2. CASE "fragment" \notin e
    <3>1. Len(F) = 0
      BY <1>4, <2>2
    <3>2. hash > Len(s)
      <4> HIDE DEF hash, s
      <4> QED
        BY <1>10, <1>11, <3>1
    <3>3. C = <<>> /\ e \cap {"fragment"} = {}
      BY <2>2, <3>2
    <3> QED
      BY <3>3, GivesNone
  <2> QED
    BY <2>1, <2>2
<1>20. e \cap {"path", "query", "fragment"}
         = (e \cap {"path"}) \cup ((e \cap {"query"}) \cup (e \cap {"fragment"}))
  OBVIOUS
<1> HIDE DEF A, B, C, s
<1>21. Gives(Both(A, Both(B, C)), e \cap {"path", "query", "fragment"}, p)
  <2> DEFINE R == Both(B, C)
  <2>1. Gives(R, (e \cap {"query"}) \cup (e \cap {"fragment"}), p)
    BY <1>18, <1>19, GivesBoth
  <2> HIDE DEF R
  <2>2. Gives(Both(A, R), (e \cap {"path"}) \cup ((e \cap {"query"}) \cup (e \cap {"fragment"})), p)
    BY <1>17, <2>1, GivesBoth
  <2> QED
    BY <1>20, <2>2 DEF R
<1> QED
  BY <1>7, <1>10, <1>14, <1>16, <1>21

\* The subset that is put together is closed under what its members require.
LEMMA ExpectClosed ==
  ASSUME NEW n
  PROVE  LET e == Expect(n)
         IN  /\ e \subseteq {"scheme", "user", "password", "hostname", "port_str",
                             "path", "query", "fragment"}
             /\ "scheme" \in e <=> "hostname" \in e
             /\ "password" \in e => "user" \in e
             /\ "user" \in e \/ "port_str" \in e => "hostname" \in e
<1> DEFINE e == Expect(n)
           b == Bits(n)
           host == b \cap HostField # {}
           user == b \cap {"user", "password"} # {}
<1>1. Field = {"scheme", "user", "password", "hostname", "port_str", "path",
               "query", "fragment"}
  BY DEF Field, T
<1>2. e = {f \in Field : IF f \in {"scheme", "hostname"} THEN host
                         ELSE IF f = "user" THEN user ELSE f \in b}
  BY DEF Expect
<1>3. user => host
  BY DEF HostField
<1>4. /\ "password" \in b => user
      /\ "port_str" \in b => host
  BY DEF HostField
<1> HIDE DEF e, b, host, user
<1>5. /\ "scheme" \in e <=> host
      /\ "hostname" \in e <=> host
      /\ "user" \in e <=> user
      /\ "password" \in e <=> "password" \in b
      /\ "port_str" \in e <=> "port_str" \in b
  BY <1>1, <1>2, Zenon
<1>6. e \subseteq Field
  BY <1>2
<1> QED
  BY <1>1, <1>3, <1>4, <1>5, <1>6 DEF e

\* What is before the path: a scheme with its "://" and the host's part, or nothing.
SchemeText(p, e) == IF "scheme" \in e THEN p.scheme \o <<":", "/", "/">> ELSE <<>>
HostPart(p, e) == IF "hostname" \in e THEN InfoText(p, e) ELSE <<>>

LEMMA Assoc4 ==
  ASSUME NEW x \in Seq(Char), NEW y \in Seq(Char), NEW z \in Seq(Char), NEW w \in Seq(Char)
  PROVE  x \o y \o z \o w = x \o (y \o (z \o w))
<1> DEFINE v == x \o y
           k == z \o w
<1>1. v \in Seq(Char) /\ k \in Seq(Char)
  OBVIOUS
<1>2. x \o (y \o k) = v \o k
  <2>1. \A t, q \in Seq(Char) : (x \o t) \o q = x \o (t \o q)
    BY Assoc
  <2> HIDE DEF k
  <2> QED
    BY <1>1, <2>1, Zenon
<1>3. v \o k = v \o z \o w
  <2> HIDE DEF v
  <2>1. \A t, q \in Seq(Char) : (v \o t) \o q = v \o (t \o q)
    BY <1>1, Assoc
  <2> QED
    BY <2>1, Zenon
<1> QED
  BY <1>2, <1>3

LEMMA InputParts ==
  ASSUME NEW p \in Grammatical, NEW n
  PROVE  LET e == Expect(n)
         IN  Input(p, n) = (SchemeText(p, e) \o HostPart(p, e)) \o RestText(p, e)
<1> DEFINE e == Expect(n)
           A == SchemeText(p, e)
           B == IF "user" \in e THEN p.user ELSE <<>>
           C == Behind(":", p, e, "password")
           D == IF "user" \in e THEN <<"@">> ELSE <<>>
           E == IF "hostname" \in e THEN p.hostname ELSE <<>>
           F == Behind(":", p, e, "port_str")
           G == PathText(p, e)
           H == Behind("?", p, e, "query")
           I == Behind("#", p, e, "fragment")
<1>1. /\ p.scheme \in Seq(Char) /\ p.user \in Seq(Char)
      /\ p.password \in Seq(Char) /\ p.hostname \in Seq(Char)
      /\ p.port_str \in Seq(Char) /\ p.path \in Seq(Char)
      /\ p.query \in Seq(Char) /\ p.fragment \in Seq(Char)
  BY PieceType DEF Grammatical
<1>2. ":" \in Char /\ "/" \in Char /\ "@" \in Char /\ "?" \in Char /\ "#" \in Char
  BY Delimiters
<1>3. /\ A \in Seq(Char) /\ B \in Seq(Char) /\ D \in Seq(Char)
      /\ E \in Seq(Char) /\ G \in Seq(Char)
  <2>1. <<>> \in Seq(Char) /\ <<"@">> \in Seq(Char) /\ <<":", "/", "/">> \in Seq(Char)
    BY <1>2
  <2>2. p.scheme \o <<":", "/", "/">> \in Seq(Char)
    BY <1>1, <2>1
  <2>3. A \in Seq(Char) /\ G \in Seq(Char)
    BY <1>1, <2>1, <2>2, Zenon DEF SchemeText, PathText
  <2> QED
    BY <1>1, <2>1, <2>3, Zenon
<1>4. C \in Seq(Char)
  BY <1>1, <1>2, BehindFacts
<1>5. F \in Seq(Char)
  BY <1>1, <1>2, BehindFacts
<1>6. H \in Seq(Char)
  BY <1>1, <1>2, BehindFacts
<1>7. I \in Seq(Char)
  BY <1>1, <1>2, BehindFacts
<1>8. Input(p, n) = A \o B \o C \o D \o E \o F \o G \o H \o I
  <2>1. \A x \in Seq(Char) : <<>> \o x = x /\ x \o <<>> = x
    OBVIOUS
  <2>2. Part(p, e, "user", <<>>, <<>>) = B
    BY <1>1, <2>1 DEF Part
  <2>3. Part(p, e, "hostname", <<>>, <<>>) = E
    BY <1>1, <2>1 DEF Part
  <2>4. Part(p, e, "path", <<>>, <<>>) = G
    BY <1>1, <2>1 DEF Part, PathText
  <2>5. Part(p, e, "scheme", <<>>, <<":", "/", "/">>) = A
    BY <1>1, <2>1 DEF Part, SchemeText
  <2>6. ASSUME NEW c \in Char, NEW f, p[f] \in Seq(Char)
        PROVE  Part(p, e, f, <<c>>, <<>>) = Behind(c, p, e, f)
    <3>1. <<c>> \o p[f] \in Seq(Char)
      BY <2>6
    <3>2. <<c>> \o p[f] \o <<>> = <<c>> \o p[f]
      BY <2>1, <3>1
    <3> QED
      BY <3>2 DEF Part, Behind
  <2>7. Part(p, e, "password", <<":">>, <<>>) = C
    BY <1>1, <1>2, <2>6
  <2>8. Part(p, e, "port_str", <<":">>, <<>>) = F
    BY <1>1, <1>2, <2>6
  <2>9. Part(p, e, "query", <<"?">>, <<>>) = H
    BY <1>1, <1>2, <2>6
  <2>10. Part(p, e, "fragment", <<"#">>, <<>>) = I
    BY <1>1, <1>2, <2>6
  <2> HIDE DEF A, B, C, E, F, G, H, I
  <2> QED
    BY <2>2, <2>3, <2>4, <2>5, <2>7, <2>8, <2>9, <2>10, Zenon DEF Input
<1> DEFINE X == A \o B \o C \o D \o E \o F
<1>9. RestText(p, e) = G \o (H \o I)
  BY DEF RestText
<1>10. X = A \o HostPart(p, e)
  <2>1. HostPart(p, e) = (B \o C) \o (D \o (E \o F))
    <3>1. CASE "user" \in e
      <4>1. "hostname" \in e
        BY <3>1, ExpectClosed
      <4>2. B = p.user /\ D = <<"@">> /\ E = p.hostname
        BY <3>1, <4>1
      <4> QED
        BY <3>1, <4>1, <4>2 DEF HostPart, InfoText, UserText, HostText
    <3>2. CASE "user" \notin e
      <4>1. "password" \notin e
        BY <3>2, ExpectClosed
      <4>2. B = <<>> /\ C = <<>> /\ D = <<>>
        BY <3>2, <4>1 DEF Behind
      <4>3. E \o F \in Seq(Char)
        BY <1>3, <1>5
      <4>4. (B \o C) \o (D \o (E \o F)) = E \o F
        <5> DEFINE y == E \o F
        <5> HIDE DEF y, B, C, D
        <5> QED
          BY <4>2, <4>3 DEF y
      <4>5. CASE "hostname" \in e
        BY <3>2, <4>4, <4>5 DEF HostPart, InfoText, HostText
      <4>6. CASE "hostname" \notin e
        <5>1. "port_str" \notin e
          BY <4>6, ExpectClosed
        <5>2. E = <<>> /\ F = <<>>
          BY <4>6, <5>1 DEF Behind
        <5>3. E \o F = <<>>
          BY <5>2
        <5> QED
          BY <4>4, <4>6, <5>3 DEF HostPart
      <4> QED
        BY <4>5, <4>6
    <3> QED
      BY <3>1, <3>2
  <2> DEFINE U == A \o B \o C
             K == D \o (E \o F)
  <2> HIDE DEF A, B, C, D, E, F
  <2>2. A \in Seq(Char) /\ B \in Seq(Char) /\ C \in Seq(Char)
    BY <1>3, <1>4
  <2>3. D \in Seq(Char) /\ E \in Seq(Char) /\ F \in Seq(Char)
    BY <1>3, <1>5
  <2>4. U \in Seq(Char)
    <3> DEFINE V == A \o B
    <3>1. V \in Seq(Char)
      BY <2>2
    <3> HIDE DEF V
    <3>2. V \o C \in Seq(Char)
      BY <2>2, <3>1
    <3> QED
      BY <3>2 DEF V
  <2>5. K \in Seq(Char)
    <3> DEFINE V == E \o F
    <3>1. V \in Seq(Char)
      BY <2>3
    <3> HIDE DEF V
    <3>2. D \o V \in Seq(Char)
      BY <2>3, <3>1
    <3> QED
      BY <3>2 DEF V
  <2>6. X = U \o K
    <3> HIDE DEF U
    <3>1. \A x, y, z \in Seq(Char) : U \o x \o y \o z = U \o (x \o (y \o z))
      BY <2>4, Assoc4, Zenon
    <3>2. U \o D \o E \o F = U \o (D \o (E \o F))
      BY <2>3, <3>1, Zenon
    <3> QED
      BY <3>2, Zenon DEF U
  <2> HIDE DEF K
  <2>7. A \o B \o C \o K = A \o (B \o (C \o K))
    <3>1. \A x, y, z \in Seq(Char) : A \o x \o y \o z = A \o (x \o (y \o z))
      BY <2>2, Assoc4, Zenon
    <3> QED
      BY <2>2, <2>5, <3>1, Zenon
  <2>8. B \o (C \o K) = B \o C \o K
    <3>1. \A y, z \in Seq(Char) : B \o y \o z = B \o (y \o z)
      <4>1. B \in Seq(Char)
        BY <2>2
      <4> QED
        BY <4>1, Assoc
    <3> QED
      BY <2>2, <2>5, <3>1, Zenon
  <2> QED
    BY <2>1, <2>6, <2>7, <2>8, Zenon DEF U, K
<1> HIDE DEF A, B, C, D, E, F, G, H, I
<1>11. X \in Seq(Char)
  <2>1. A \o B \in Seq(Char)
    BY <1>3
  <2>2. A \o B \o C \in Seq(Char)
    BY <1>4, <2>1
  <2>3. A \o B \o C \o D \in Seq(Char)
    BY <1>3, <2>2
  <2>4. A \o B \o C \o D \o E \in Seq(Char)
    BY <1>3, <2>3
  <2> QED
    BY <1>5, <2>4
<1> HIDE DEF X
<1>12. X \o G \o H \o I = X \o (G \o (H \o I))
  <2> DEFINE K == G \o H
  <2>1. X \o (G \o H) = X \o G \o H
    <3>1. \A y, z \in Seq(Char) : X \o (y \o z) = X \o y \o z
      BY <1>11, Assoc, Zenon
    <3> QED
      BY <1>3, <1>6, <3>1, Zenon
  <2>2. G \o (H \o I) = G \o H \o I
    <3>1. \A y, z \in Seq(Char) : G \o (y \o z) = G \o y \o z
      <4>1. G \in Seq(Char)
        BY <1>3
      <4> QED
        BY <4>1, Assoc
    <3> QED
      BY <1>6, <1>7, <3>1, Zenon
  <2>3. K \in Seq(Char)
    BY <1>3, <1>6
  <2> HIDE DEF K
  <2>4. X \o (K \o I) = X \o K \o I
    BY <1>7, <1>11, <2>3, Assoc, Zenon
  <2> QED
    BY <2>1, <2>2, <2>4, Zenon DEF K
<1> QED
  BY <1>8, <1>9, <1>10, <1>12, Zenon DEF X, A

LEMMA TwoSlashes ==
  ASSUME NEW s \in Seq(Char), IsPrefix(<<"/", "/">>, s)
  PROVE  Len(s) \in Nat /\ Len(s) >= 2 /\ s[1] = "/" /\ s[2] = "/"
<1> DEFINE t == <<"/", "/">>
<1>1. Len(t) = 2 /\ t[1] = "/" /\ t[2] = "/" /\ t \in Seq(Char)
  BY Delimiters
<1>2. Len(t) <= Len(s) /\ SubSeq(t, 1, Len(t)) = SubSeq(s, 1, Len(t))
  BY DEF IsPrefix
<1> HIDE DEF t
<1>3. Len(s) \in Nat /\ Len(s) >= 2 /\ SubSeq(t, 1, 2) = SubSeq(s, 1, 2)
  BY <1>1, <1>2
<1>4. /\ SubSeq(t, 1, 2)[1] = t[1] /\ SubSeq(t, 1, 2)[2] = t[2]
      /\ SubSeq(s, 1, 2)[1] = s[1] /\ SubSeq(s, 1, 2)[2] = s[2]
  BY <1>1, <1>3
<1> QED
  BY <1>1, <1>3, <1>4

\* A path and what follows it are not taken for a host.
LEMMA RestIsNoHost ==
  ASSUME NEW p \in Grammatical, NEW e
  PROVE  ~IsPrefix(<<"/", "/">>, RestText(p, e))
<1> DEFINE P == PathText(p, e)
           Q == Behind("?", p, e, "query")
           F == Behind("#", p, e, "fragment")
           t == Q \o F
<1>1. "?" \in Char /\ "#" \in Char /\ "/" \in Char
  BY Delimiters
<1>2. /\ p.query \in Seq(Char) /\ p.fragment \in Seq(Char)
      /\ p.path \in Seq(Char) /\ p.path # <<>>
      /\ Len(p.path) > 1 => p.path[2] # "/"
  BY PieceType DEF Grammatical
<1>3. /\ Q \in Seq(Char) /\ (Q = <<>> \/ Q[1] = "?")
      /\ F \in Seq(Char) /\ (F = <<>> \/ F[1] = "#")
  <2>1. p["query"] \in Seq(Char) /\ p["fragment"] \in Seq(Char)
    BY <1>2
  <2>2. /\ Q \in Seq(Char) /\ (Q = <<>> \/ Q[1] = "?")
        /\ "query" \in e => Q = <<"?">> \o p.query
        /\ "query" \notin e => Q = <<>>
    BY <1>1, <2>1, BehindFacts
  <2>3. /\ F \in Seq(Char) /\ (F = <<>> \/ F[1] = "#")
        /\ "fragment" \in e => F = <<"#">> \o p.fragment
        /\ "fragment" \notin e => F = <<>>
    BY <1>1, <2>1, BehindFacts
  <2> QED
    BY <2>2, <2>3
<1>4. P = <<>> \/ (P = p.path /\ p.path # <<>>)
  BY <1>2 DEF PathText
<1>5. RestText(p, e) = P \o (Q \o F)
  BY DEF RestText
<1> HIDE DEF P, Q, F
<1>6. t \in Seq(Char) /\ (t = <<>> \/ t[1] # "/")
  <2>1. CASE Q = <<>>
    <3>1. t = F
      BY <1>3, <2>1
    <3> QED
      BY <1>3, <3>1
  <2>2. CASE Q # <<>>
    <3>1. t \in Seq(Char) /\ t[1] = Q[1]
      BY <1>3, <2>2
    <3> QED
      BY <1>3, <2>2, <3>1
  <2> QED
    BY <2>1, <2>2
<1> HIDE DEF t
<1>7. P \o t \in Seq(Char)
  <2>1. P \in Seq(Char)
    <3>1. <<>> \in Seq(Char)
      OBVIOUS
    <3> QED
      BY <1>2, <1>4, <3>1, Zenon
  <2> QED
    BY <1>6, <2>1
<1>8. ASSUME Len(P \o t) >= 2, (P \o t)[1] = "/", (P \o t)[2] = "/" PROVE FALSE
  <2>1. CASE P = <<>>
    <3>1. P \o t = t
      BY <1>6, <2>1
    <3> QED
      BY <1>6, <1>8, <3>1
  <2>2. CASE P = p.path /\ p.path # <<>>
    <3> DEFINE q == p.path
    <3>1. q \in Seq(Char) /\ q # <<>> /\ (Len(q) > 1 => q[2] # "/") /\ P = q
      BY <1>2, <2>2
    <3> HIDE DEF q
    <3>2. Len(q) \in Nat /\ Len(q) >= 1 /\ Len(t) \in Nat /\ Len(q \o t) = Len(q) + Len(t)
      BY <1>6, <3>1
    <3>3. CASE Len(q) > 1
      BY <1>6, <1>8, <3>1, <3>2, <3>3
    <3>4. CASE Len(q) = 1
      <4>1. Len(t) >= 1 /\ (q \o t)[2] = t[1]
        BY <1>6, <1>8, <3>1, <3>2, <3>4
      <4> QED
        BY <1>6, <1>8, <3>1, <4>1
    <3>5. Len(q) > 1 \/ Len(q) = 1
      <4> DEFINE k == Len(q)
      <4>1. k \in Nat /\ k >= 1
        BY <3>2
      <4> HIDE DEF k
      <4>2. k > 1 \/ k = 1
        BY <4>1
      <4> QED
        BY <4>2 DEF k
    <3> QED
      BY <3>3, <3>4, <3>5, Zenon
  <2> QED
    BY <1>4, <2>1, <2>2
<1> QED
  BY <1>5, <1>7, <1>8, TwoSlashes DEF t

\* However they are combined, the pieces a grammar can tell apart come back
\* from the parser as they went in, and none is refused: iterate_pieces puts
\* together what apr_uri_parse takes apart (lines 174-218 and 221-240), for
\* schemes of letters, hosts without brackets, ports of digits, and paths that
\* do not begin with two slashes (Grammatical).
THEOREM EveryUriComesBack ==
  ASSUME NEW p \in Grammatical, NEW n, parser = "apr"
  PROVE  /\ Gives(Parsed(Input(p, n)), Expect(n), p)
         /\ ~Refuses(Parsed(Input(p, n)))
<1> DEFINE e == Expect(n)
           x == p.scheme
           c == <<":", "/", "/">>
           a == x \o c
           i == InfoText(p, e)
           r == RestText(p, e)
           d == {":", "/", "?", "#"}
           S == {"scheme"}
           I == e \cap {"user", "password", "hostname", "port_str"}
           R == e \cap {"path", "query", "fragment"}
<1>1. /\ e \subseteq {"scheme", "user", "password", "hostname", "port_str",
                      "path", "query", "fragment"}
      /\ "scheme" \in e <=> "hostname" \in e
      /\ "password" \in e => "user" \in e
      /\ "user" \in e \/ "port_str" \in e => "hostname" \in e
  BY ExpectClosed
<1>2. /\ r \in Seq(Char) /\ (r = <<>> \/ r[1] \in {"/", "?", "#"})
      /\ Gives(ParsedRest(r), R, p)
  BY RestComesBack
<1>3. Input(p, n) = (SchemeText(p, e) \o HostPart(p, e)) \o r
  BY InputParts
<1>6. ASSUME Gives(Parsed(Input(p, n)), e, p) PROVE ~Refuses(Parsed(Input(p, n)))
  <2> DEFINE g == Parsed(Input(p, n))
  <2>1. "port_str" \in DOMAIN g => g["port_str"] = p["port_str"]
    BY <1>6 DEF Gives
  <2>2. p["port_str"] \in Seq(Digit)
    BY GrammarFacts
  <2> HIDE DEF g
  <2>3. "port_str" \in DOMAIN g => g["port_str"] \in Seq(Digit)
    BY <2>1, <2>2, Zenon
  <2>4. parser # "refuses"
    OBVIOUS
  <2> QED
    BY <2>3, <2>4, Zenon DEF Refuses, g
<1>7. SUFFICES Gives(Parsed(Input(p, n)), e, p)
  BY <1>6
<1>4. CASE "hostname" \in e
  <2>1. /\ i \in Seq(Char) /\ Without(i, {"/", "?", "#"})
        /\ Gives(ParsedInfo(i), I, p)
    BY <1>1, <1>4, InfoComesBack
  <2>2. x \in Seq(Char) /\ x # <<>> /\ Without(x, d) /\ x \in Seq(Letter)
    BY PieceType, GrammarFacts
  <2>3. c \in Seq(Char) /\ Len(c) = 3 /\ c[1] = ":" /\ c = <<":", "/", "/">>
    BY Delimiters
  <2>4. Input(p, n) = (a \o i) \o r
    BY <1>1, <1>3, <1>4 DEF SchemeText, HostPart
  <2>5. Gives([scheme |-> x], S, p)
    BY DEF Gives
  <2>6. e = S \cup (I \cup R)
    BY <1>1, <1>4
  <2> HIDE DEF x, c, i, r, S, I, R
  <2>7. a \in Seq(Char) /\ i \o r \in Seq(Char) /\ Len(a) = Len(x) + 3
        /\ Len(x) \in Nat /\ Len(x) > 0
    BY <1>2, <2>1, <2>2, <2>3
  <2> DEFINE y == i \o r
             b == c \o y
             s == x \o b
  <2>8. Input(p, n) = s /\ a \o y = s
    <3>1. a \o (i \o r) = (a \o i) \o r
      <4> HIDE DEF a
      <4> QED
        <5>1. \A t, z \in Seq(Char) : a \o t \o z = a \o (t \o z)
          BY <2>7, Assoc
        <5> QED
          BY <1>2, <2>1, <5>1, Zenon
    <3>2. x \o (c \o y) = x \o c \o y
      <4> HIDE DEF y
      <4> QED
        <5>1. \A t, z \in Seq(Char) : x \o t \o z = x \o (t \o z)
          BY <2>2, Assoc, Zenon
        <5> QED
          BY <2>3, <2>7, <5>1, Zenon DEF y
    <3> QED
      BY <2>4, <3>1, <3>2
  <2> HIDE DEF a
  <2>9. /\ First(y, {"/", "?", "#"}) = Len(i) + 1
        /\ Upto(y, Len(i) + 1) = i /\ From(y, Len(i) + 1) = r
    BY <1>2, <2>1, FirstBehind, CutAt
  <2>10. y \in Seq(Char)
    BY <2>7
  <2> HIDE DEF y
  <2>11. b \in Seq(Char) /\ b[1] \in d
    BY <2>3, <2>10
  <2>12. From(s, Len(x) + 1 + 3) = y
    <3>1. From(a \o y, Len(a) + 1) = y
      BY <2>7, <2>10, CutAt
    <3>2. Len(a) + 1 = Len(x) + 1 + 3
      BY <2>7
    <3> QED
      BY <2>8, <3>1, <3>2, Zenon
  <2>13. SubSeq(s, Len(x) + 1, Len(x) + 1 + 2) = <<":", "/", "/">>
    <3>1. SubSeq(x \o (c \o y), Len(x) + 1, Len(x) + Len(c)) = c
      <4>1. \A t, z \in Seq(Char) :
              SubSeq(x \o (t \o z), Len(x) + 1, Len(x) + Len(t)) = t
        BY <2>2, CutMiddle, Zenon
      <4> QED
        BY <2>3, <2>10, <4>1, Zenon
    <3>2. Len(x) + Len(c) = Len(x) + 1 + 2
      BY <2>3, <2>7
    <3> QED
      BY <2>3, <3>1, <3>2, Zenon
  <2> HIDE DEF b
  <2>14. First(s, d) = Len(x) + 1 /\ Upto(s, Len(x) + 1) = x
    BY <2>2, <2>11, FirstBehind, CutAt
  <2>15. Len(x) + 1 > 1
    BY <2>7
  <2> HIDE DEF s
  <2>16. Parsed(s) = Both([scheme |-> x], Both(ParsedInfo(i), ParsedRest(r)))
    BY <2>2, <2>9, <2>12, <2>13, <2>14, <2>15 DEF Parsed
  <2>17. Gives(Both(ParsedInfo(i), ParsedRest(r)), I \cup R, p)
    BY <1>2, <2>1, GivesBoth
  <2>18. Gives(Both([scheme |-> x], Both(ParsedInfo(i), ParsedRest(r))), S \cup (I \cup R), p)
    <3> DEFINE Q == Both(ParsedInfo(i), ParsedRest(r))
    <3> HIDE DEF Q
    <3>1. Gives(Q, I \cup R, p)
      BY <2>17 DEF Q
    <3> QED
      BY <2>5, <3>1, GivesBoth DEF Q
  <2> QED
    BY <2>6, <2>8, <2>16, <2>18, Zenon
<1>5. CASE "hostname" \notin e
  <2>1. Input(p, n) = r
    <3>1. SchemeText(p, e) = <<>> /\ HostPart(p, e) = <<>>
      BY <1>1, <1>5 DEF SchemeText, HostPart
    <3> HIDE DEF r
    <3>2. (<<>> \o <<>>) \o r = r
      BY <1>2
    <3> QED
      BY <1>3, <3>1, <3>2
  <2>2. R = e
    BY <1>1, <1>5
  <2>5. ~IsPrefix(<<"/", "/">>, r)
    BY RestIsNoHost
  <2> HIDE DEF r, R
  <2>3. First(r, d) = 1
    <3>1. <<>> \in Seq(Char) /\ <<>> \o r = r /\ Len(<<>>) = 0
      BY <1>2
    <3>2. Without(<<>>, d)
      BY DEF Without
    <3>3. r = <<>> \/ r[1] \in d
      BY <1>2
    <3> HIDE DEF d
    <3>4. First(<<>> \o r, d) = Len(<<>>) + 1
      BY <1>2, <3>1, <3>2, <3>3, FirstBehind
    <3> QED
      BY <3>1, <3>4
  <2>4. Parsed(r) = ParsedRest(r)
    BY <2>3, <2>5 DEF Parsed
  <2> QED
    BY <1>2, <2>1, <2>2, <2>4
<1> QED
  BY <1>4, <1>5

-----------------------------------------------------------------------------
(* No failure to report. *)

LEMMA ShortWords ==
  ASSUME NEW D
  PROVE  /\ Without(<<>>, D)
         /\ \A a : a \notin D => Without(<<a>>, D)
         /\ \A a, b : a \notin D /\ b \notin D => Without(<<a, b>>, D)
         /\ \A a, b, c : a \notin D /\ b \notin D /\ c \notin D => Without(<<a, b, c>>, D)
<1>1. Without(<<>>, D)
  BY DEF Without
<1>2. ASSUME NEW a, a \notin D PROVE Without(<<a>>, D)
  BY <1>2 DEF Without
<1>3. ASSUME NEW a, NEW b, a \notin D, b \notin D PROVE Without(<<a, b>>, D)
  BY <1>3 DEF Without
<1>4. ASSUME NEW a, NEW b, NEW c, a \notin D, b \notin D, c \notin D
      PROVE  Without(<<a, b, c>>, D)
  BY <1>4 DEF Without
<1> QED
  BY <1>1, <1>2, <1>3, <1>4

\* Every row of the table is made of pieces that the grammar can tell apart.
LEMMA TableIsGrammatical ==
  ASSUME NEW i \in 1..Len(uri_tests)
  PROVE  uri_tests[i] \in Grammatical
<1> DEFINE p == uri_tests[i]
<1>1. p \in Pieces
  BY CharAssumption
<1>2. i \in 1..8
  BY TableLength
<1>3. /\ p.scheme \in {<<"http">>, <<"https">>}
      /\ p.user \in {<<>>, <<"userid">>, <<"user", "@", "d">>}
      /\ p.password \in {<<>>, <<"passwd">>, <<"pa", ":", "swd">>}
      /\ p.hostname \in {<<>>, <<"host">>, <<"host.">>}
      /\ p.port_str \in {<<>>, <<"80">>}
      /\ p.path \in {<<"/", "path">>, <<"/", "~path">>}
      /\ p.query \in {<<>>, <<"query">>, <<"query&query", "?", "crud">>}
  <2>1. p \in {Plain, [Plain EXCEPT !.user = <<>>], [Plain EXCEPT !.password = <<>>],
               [Plain EXCEPT !.hostname = <<>>], [Plain EXCEPT !.port_str = <<>>],
               [Plain EXCEPT !.query = <<>>], [Plain EXCEPT !.fragment = <<>>], Tricky}
    BY <1>2 DEF uri_tests
  <2> HIDE DEF p
  <2> QED
    BY <2>1 DEF Plain, Tricky
<1> HIDE DEF p
<1>4. /\ p.scheme # <<>> /\ p.path # <<>> /\ p.path[1] = "/"
      /\ Len(p.path) > 1 => p.path[2] # "/"
  <2>1. /\ <<"http">> # <<>> /\ <<"https">> # <<>>
        /\ <<"/", "path">> # <<>> /\ <<"/", "path">>[1] = "/"
        /\ <<"/", "~path">> # <<>> /\ <<"/", "~path">>[1] = "/"
        /\ <<"/", "path">>[2] # "/" /\ <<"/", "~path">>[2] # "/"
    OBVIOUS
  <2> QED
    BY <1>3, <2>1, Zenon
<1>5. Without(p.user, {":", "/", "?", "#"})
  <2> DEFINE D == {":", "/", "?", "#"}
  <2>1. /\ "userid" \notin D
        /\ "user" \notin D /\ "@" \notin D /\ "d" \notin D
    OBVIOUS
  <2> HIDE DEF D
  <2>2. /\ Without(<<>>, D)
        /\ Without(<<"userid">>, D) /\ Without(<<"user", "@", "d">>, D)
    BY <2>1, ShortWords, Zenon
  <2> QED
    BY <1>3, <2>2, Zenon DEF D
<1>6. Without(p.password, {"/", "?", "#"})
  <2> DEFINE D == {"/", "?", "#"}
  <2>1. "passwd" \notin D /\ "pa" \notin D /\ ":" \notin D /\ "swd" \notin D
    OBVIOUS
  <2> HIDE DEF D
  <2>2. Without(<<>>, D) /\ Without(<<"passwd">>, D) /\ Without(<<"pa", ":", "swd">>, D)
    BY <2>1, ShortWords, Zenon
  <2> QED
    BY <1>3, <2>2, Zenon DEF D
<1>7. Without(p.hostname, {":", "@", "/", "?", "#", "["})
  BY <1>3, ShortWords
<1>8. p.scheme \in Seq(Letter) /\ p.port_str \in Seq(Digit)
  <2>1. "http" \in Letter /\ "https" \in Letter /\ "80" \in Digit
    BY CharAssumption
  <2>2. /\ <<"http">> \in Seq(Letter) /\ <<"https">> \in Seq(Letter)
        /\ <<>> \in Seq(Digit) /\ <<"80">> \in Seq(Digit)
    BY <2>1
  <2> QED
    BY <1>3, <2>2, Zenon
<1>9. Without(p.path, {"?", "#"}) /\ Without(p.query, {"#"})
  <2> DEFINE D == {"?", "#"}
  <2>1. "/" \notin D /\ "path" \notin D /\ "~path" \notin D
    OBVIOUS
  <2> HIDE DEF D
  <2>2. Without(<<"/", "path">>, D) /\ Without(<<"/", "~path">>, D)
    BY <2>1, ShortWords, Zenon
  <2>3. /\ Without(<<>>, {"#"}) /\ Without(<<"query">>, {"#"})
        /\ Without(<<"query&query", "?", "crud">>, {"#"})
    BY ShortWords
  <2> QED
    BY <1>3, <2>2, <2>3, Zenon DEF D
<1> QED
  BY <1>1, <1>4, <1>5, <1>6, <1>7, <1>8, <1>9, Zenon DEF Grammatical, p

\* t/apr/uri.t's "TOTAL FAILURES = 0" for the library as it is documented: no
\* round of iterate_pieces counts a failure (RoundTrip, lines 222-267).
THEOREM RoundTripHolds == Spec => []RoundTrip
<1>1. Init => RoundTrip
  BY DEF Init, RoundTrip
<1>2. ReportInv /\ RoundTrip /\ [Next]_vars => RoundTrip'
  <2> SUFFICES ASSUME ReportInv, RoundTrip, [Next]_vars, parser' = "apr", args' # Outside'
               PROVE  failures' = 0 /\ total_failures' = 0
    BY DEF RoundTrip
  <2>1. parser = "apr" /\ failures = 0 /\ total_failures = 0
    <3>1. parser' = parser /\ args' = args
      BY DEF Next, Piece, EndRow, AddRow, PastTable, Finished, vars
    <3> QED
      BY <3>1 DEF RoundTrip
  <2>2. CASE Piece
    <3>1. pieces \in Grammatical
      <4>1. row + 1 \in 1..Len(uri_tests)
        BY TableLength DEF ReportInv, TypeOK, Rows
      <4> QED
        BY <4>1, TableIsGrammatical DEF pieces
    <3>2. Gives(Parsed(Input(pieces, u)), Expect(u), pieces)
      BY <2>1, <3>1, EveryUriComesBack
    <3>3. ~Differs(Parsed(Input(pieces, u)), Expect(u))
      BY <3>2 DEF Differs, Gives
    <3>4. ~Refuses(Parsed(Input(pieces, u)))
      BY <2>1, <3>1, EveryUriComesBack
    <3> QED
      BY <2>1, <2>2, <3>3, <3>4, Zenon DEF Piece
  <2>3. CASE EndRow
    BY <2>1, <2>3 DEF EndRow, AddRow
  <2>4. CASE UNCHANGED vars
    BY <2>1, <2>4 DEF vars
  <2>5. CASE PastTable
    <3>1. pc = "outside" /\ args' = args
      BY <2>5 DEF PastTable
    <3> QED
      BY <3>1 DEF ReportInv, Outside
  <2> QED
    BY <2>2, <2>3, <2>4, <2>5 DEF Next, Finished
<1> QED
  BY <1>1, <1>2, EveryReportIsBounded, PTL DEF Spec

-----------------------------------------------------------------------------
(* What a mistaken parser never gives back, whatever URI it is given.       *)

DropsEmpty == parser = "empty is NULL"
KeepsPath == parser = "path is never NULL"

LEMMA FirstFacts ==
  ASSUME NEW s \in Seq(Char), NEW D
  PROVE  /\ First(s, D) \in 1..(Len(s) + 1)
         /\ \A j \in 1..Len(s) : j < First(s, D) => s[j] \notin D
         /\ First(s, D) <= Len(s) => s[First(s, D)] \in D
<1> DEFINE J == {j \in 1..Len(s) : s[j] \in D}
<1>1. First(s, D) = LET k == IF J # {} THEN Min(J) ELSE 0
                    IN  IF k = 0 THEN Len(s) + 1 ELSE k
  BY DEF First, SelectInSeq
<1>2. J \subseteq Nat /\ Len(s) \in Nat /\ 0 \notin J
  OBVIOUS
<1>3. CASE J = {}
  <2>1. First(s, D) = Len(s) + 1
    BY <1>1, <1>3
  <2> QED
    BY <1>2, <1>3, <2>1
<1>4. CASE J # {}
  <2>1. Min(J) \in J /\ \A j \in J : Min(J) <= j
    <3>1. \E j \in J : \A k \in J : j <= k
      BY <1>2, <1>4, OfSequences!LeastNatural
    <3> QED
      BY <3>1 DEF Min
  <2>2. First(s, D) = Min(J)
    BY <1>1, <1>2, <1>4, <2>1
  <2>3. PICK m \in J : m = First(s, D) /\ \A j \in J : m <= j
    BY <2>1, <2>2
  <2>4. m \in 1..Len(s) /\ s[m] \in D
    OBVIOUS
  <2>5. ASSUME NEW j \in 1..Len(s), j < m PROVE s[j] \notin D
    BY <2>3, <2>4, <2>5
  <2> QED
    BY <1>2, <2>3, <2>4, <2>5
<1> QED
  BY <1>3, <1>4

LEMMA LastFacts ==
  ASSUME NEW s \in Seq(Char), NEW D
  PROVE  /\ Last1(s, D) \in 1..(Len(s) + 1)
         /\ \A j \in 1..Len(s) : j > Last1(s, D) => s[j] \notin D
<1> DEFINE J == {j \in 1..Len(s) : s[j] \in D}
           K == {Len(s) - j : j \in J}
<1>1. Last1(s, D) = LET k == IF J # {} THEN Max(J) ELSE 0
                    IN  IF k = 0 THEN Len(s) + 1 ELSE k
  BY DEF Last1, SelectLastInSeq
<1>2. J \subseteq Nat /\ Len(s) \in Nat /\ 0 \notin J
  OBVIOUS
<1>3. CASE J = {}
  <2>1. Last1(s, D) = Len(s) + 1
    BY <1>1, <1>3
  <2> QED
    BY <1>2, <1>3, <2>1
<1>4. CASE J # {}
  <2>1. Max(J) \in J /\ \A j \in J : Max(J) >= j
    <3>1. K \subseteq Nat /\ K # {}
      BY <1>2, <1>4
    <3>2. \E k \in K : \A l \in K : k <= l
      BY <3>1, OfSequences!LeastNatural
    <3>3. PICK j \in J : \A l \in K : Len(s) - j <= l
      BY <3>2
    <3>4. ASSUME NEW k \in J PROVE j >= k
      <4>1. Len(s) - k \in K /\ j \in Nat /\ k \in Nat
        BY <1>2
      <4>2. Len(s) - j <= Len(s) - k
        BY <3>3, <4>1
      <4> HIDE DEF J, K
      <4> QED
        BY <1>2, <4>1, <4>2
    <3> QED
      BY <3>4 DEF Max
  <2>2. Last1(s, D) = Max(J)
    BY <1>1, <1>2, <1>4, <2>1
  <2>3. PICK m \in J : m = Last1(s, D) /\ \A j \in J : m >= j
    BY <2>1, <2>2
  <2>4. ASSUME NEW j \in 1..Len(s), j > m PROVE s[j] \notin D
    BY <2>3, <2>4
  <2> QED
    BY <1>2, <2>3, <2>4
<1> QED
  BY <1>3, <1>4

LEMMA Slices ==
  ASSUME NEW s \in Seq(Char), NEW i \in Nat \ {0}, NEW j \in Int, j <= Len(s)
  PROVE  /\ SubSeq(s, i, j) \in Seq(Char)
         /\ \A k \in 1..Len(SubSeq(s, i, j)) :
              /\ SubSeq(s, i, j)[k] = s[i + k - 1]
              /\ i + k - 1 \in i..j /\ i + k - 1 \in 1..Len(s)
<1>1. CASE i <= j
  <2>1. /\ SubSeq(s, i, j) \in Seq(Char) /\ Len(SubSeq(s, i, j)) = j - i + 1
        /\ \A k \in 1..(j - i + 1) : SubSeq(s, i, j)[k] = s[i + k - 1]
    BY <1>1
  <2> QED
    BY <1>1, <2>1
<1>2. CASE i > j
  <2>1. SubSeq(s, i, j) = <<>>
    BY <1>2
  <2> QED
    BY <2>1
<1> QED
  BY <1>1, <1>2

LEMMA UptoFirst ==
  ASSUME NEW s \in Seq(Char), NEW D
  PROVE  Upto(s, First(s, D)) \in Seq(Char) /\ Without(Upto(s, First(s, D)), D)
<1> DEFINE i == First(s, D)
<1>1. i \in 1..(Len(s) + 1) /\ \A j \in 1..Len(s) : j < i => s[j] \notin D
  BY FirstFacts
<1> HIDE DEF i
<1>2. i - 1 \in Int /\ i - 1 <= Len(s) /\ Len(s) \in Nat
  BY <1>1
<1>3. /\ SubSeq(s, 1, i - 1) \in Seq(Char)
      /\ \A k \in 1..Len(SubSeq(s, 1, i - 1)) :
           SubSeq(s, 1, i - 1)[k] = s[1 + k - 1] /\ 1 + k - 1 \in 1..(i - 1)
           /\ 1 + k - 1 \in 1..Len(s)
  BY <1>2, Slices
<1>4. Without(SubSeq(s, 1, i - 1), D)
  BY <1>1, <1>2, <1>3 DEF Without
<1> QED
  BY <1>3, <1>4 DEF Upto, i

LEMMA RestShape ==
  ASSUME NEW s
  PROVE  LET hash  == First(s, {"#"})
             quest == IF parser = "last ?" THEN Last1(Upto(s, hash), {"?"})
                      ELSE First(s, {"?"})
             end   == IF parser = "? before #" THEN quest
                      ELSE IF quest < hash THEN quest ELSE hash
             r     == ParsedRest(s)
         IN  /\ DOMAIN r \subseteq {"path", "query", "fragment"}
             /\ KeepsPath => "path" \in DOMAIN r
             /\ "query" \in DOMAIN r <=> ~(end > Len(s) \/ s[end] # "?")
             /\ "query" \in DOMAIN r =>
                  r["query"] = SubSeq(s, end + 1, IF hash > end THEN hash - 1 ELSE Len(s))
<1> DEFINE hash  == First(s, {"#"})
           quest == IF parser = "last ?" THEN Last1(Upto(s, hash), {"?"})
                    ELSE First(s, {"?"})
           end   == IF parser = "? before #" THEN quest
                    ELSE IF quest < hash THEN quest ELSE hash
           path  == Upto(s, IF hash < end THEN hash ELSE end)
           q     == SubSeq(s, end + 1, IF hash > end THEN hash - 1 ELSE Len(s))
           A == IF path = <<>> /\ ~KeepsPath THEN <<>> ELSE [path |-> path]
           B == IF end > Len(s) \/ s[end] # "?" THEN <<>> ELSE [query |-> q]
           C == IF hash > Len(s) THEN <<>> ELSE [fragment |-> From(s, hash + 1)]
<1>1. ParsedRest(s) = Both(A, Both(B, C))
  BY Zenon DEF ParsedRest, KeepsPath
<1>2. /\ DOMAIN A \subseteq {"path"}
      /\ KeepsPath => "path" \in DOMAIN A
  <2> HIDE DEF path
  <2> QED
    OBVIOUS
<1>3. /\ DOMAIN B \subseteq {"query"}
      /\ "query" \in DOMAIN B <=> ~(end > Len(s) \/ s[end] # "?")
      /\ "query" \in DOMAIN B => B["query"] = q
  <2> HIDE DEF end, q
  <2> QED
    OBVIOUS
<1>4. DOMAIN C \subseteq {"fragment"}
  <2> HIDE DEF hash
  <2> QED
    OBVIOUS
<1> HIDE DEF A, B, C, hash, quest, end, path, q
<1>5. /\ DOMAIN Both(A, Both(B, C)) = DOMAIN A \cup (DOMAIN B \cup DOMAIN C)
      /\ "query" \notin DOMAIN A /\ "query" \in DOMAIN B =>
           Both(A, Both(B, C))["query"] = B["query"]
  BY DEF Both
<1>6. /\ DOMAIN ParsedRest(s) \subseteq {"path", "query", "fragment"}
      /\ KeepsPath => "path" \in DOMAIN ParsedRest(s)
  BY <1>1, <1>2, <1>3, <1>4, <1>5
<1>7. /\ "query" \in DOMAIN ParsedRest(s) <=> ~(end > Len(s) \/ s[end] # "?")
      /\ "query" \in DOMAIN ParsedRest(s) => ParsedRest(s)["query"] = q
  <2>1. "query" \notin DOMAIN A /\ "query" \notin DOMAIN C
    BY <1>2, <1>4
  <2>2. "query" \in DOMAIN ParsedRest(s) <=> "query" \in DOMAIN B
    BY <1>1, <1>5, <2>1
  <2> QED
    BY <1>1, <1>3, <1>5, <2>1, <2>2, Zenon
<1> QED
  BY <1>6, <1>7, Zenon DEF hash, quest, end, q

LEMMA Domains ==
  ASSUME NEW x
  PROVE  /\ DOMAIN ParsedHost(x) \subseteq {"hostname", "port_str"}
         /\ "user" \in DOMAIN ParsedUser(x)
         /\ DOMAIN ParsedUser(x) \subseteq {"user", "password"}
         /\ DOMAIN ParsedInfo(x) \subseteq {"user", "password", "hostname", "port_str"}
         /\ "hostname" \in DOMAIN ParsedInfo(x)
         /\ DOMAIN ParsedRest(x) \subseteq {"path", "query", "fragment"}
<1>1. \A v : /\ DOMAIN ParsedHost(v) \subseteq {"hostname", "port_str"}
            /\ "hostname" \in DOMAIN ParsedHost(v)
  BY DEF ParsedHost, Both
<1>0. \A f, g : DOMAIN Both(f, g) = DOMAIN f \cup DOMAIN g
  BY DEF Both
<1>2. ASSUME NEW v
      PROVE  /\ "user" \in DOMAIN ParsedUser(v)
             /\ DOMAIN ParsedUser(v) \subseteq {"user", "password"}
  <2>1. \E c, d : ParsedUser(v) = Both([user |-> Upto(v, c)], d)
                  /\ (d = <<>> \/ d = [password |-> From(v, c + 1)])
    BY Zenon DEF ParsedUser
  <2>2. PICK c, d : ParsedUser(v) = Both([user |-> Upto(v, c)], d)
                    /\ (d = <<>> \/ d = [password |-> From(v, c + 1)])
    BY <2>1
  <2> DEFINE A == [user |-> Upto(v, c)]
  <2>3. DOMAIN A = {"user"} /\ DOMAIN d \subseteq {"password"}
    BY <2>2
  <2>4. DOMAIN ParsedUser(v) = DOMAIN A \cup DOMAIN d
    BY <1>0, <2>2
  <2> HIDE DEF A
  <2> QED
    BY <2>3, <2>4
<1>3. /\ DOMAIN ParsedInfo(x) \subseteq {"user", "password", "hostname", "port_str"}
      /\ "hostname" \in DOMAIN ParsedInfo(x)
  <2>1. \/ \E v : ParsedInfo(x) = ParsedHost(v)
        \/ \E v, w : ParsedInfo(x) = Both(ParsedUser(v), ParsedHost(w))
    BY Zenon DEF ParsedInfo
  <2>2. CASE \E v : ParsedInfo(x) = ParsedHost(v)
    BY <1>1, <2>2
  <2>3. ASSUME NEW v, NEW w, ParsedInfo(x) = Both(ParsedUser(v), ParsedHost(w))
        PROVE  /\ DOMAIN ParsedInfo(x) \subseteq {"user", "password", "hostname", "port_str"}
               /\ "hostname" \in DOMAIN ParsedInfo(x)
    <3> DEFINE A == ParsedUser(v)
               B == ParsedHost(w)
    <3>1. /\ DOMAIN A \subseteq {"user", "password"}
          /\ DOMAIN B \subseteq {"hostname", "port_str"} /\ "hostname" \in DOMAIN B
      BY <1>1, <1>2
    <3>2. DOMAIN ParsedInfo(x) = DOMAIN A \cup DOMAIN B
      BY <1>0, <2>3
    <3> HIDE DEF A, B
    <3> QED
      BY <3>1, <3>2
  <2> QED
    BY <2>1, <2>2, <2>3, Zenon
<1>4. DOMAIN ParsedRest(x) \subseteq {"path", "query", "fragment"}
  BY RestShape, Zenon
<1> QED
  BY <1>1, <1>2, <1>3, <1>4

\* Where the parser's pieces come from.
LEMMA WhereFrom ==
  ASSUME NEW s \in Seq(Char), ~DropsEmpty
  PROVE  \/ Parsed(s) = ParsedRest(s)
         \/ \E sch, info, rest :
              /\ DOMAIN sch \subseteq {"scheme"}
              /\ info \in Seq(Char) /\ rest \in Seq(Char)
              /\ Parsed(s) = Both(sch, Both(ParsedInfo(info), ParsedRest(rest)))
<1> DEFINE colon == First(s, {":", "/", "?", "#"})
           named == /\ colon > 1 /\ Upto(s, colon) \in Seq(Letter)
                    /\ SubSeq(s, colon, colon + 2) = <<":", "/", "/">>
           name == IF named THEN [scheme |-> Upto(s, colon)] ELSE <<>>
           start == IF named THEN colon + 3 ELSE 3
           info == From(s, start)
           slash == First(info, {"/", "?", "#"})
<1>1. \/ Parsed(s) = ParsedRest(s)
      \/ Parsed(s) = Both(name,
                          Both(ParsedInfo(Upto(info, slash)), ParsedRest(From(info, slash))))
  BY Zenon DEF Parsed, DropsEmpty
<1>8. colon \in 1..(Len(s) + 1)
  BY FirstFacts, Zenon
<1> HIDE DEF colon
<1>2. DOMAIN name \subseteq {"scheme"}
  <2> HIDE DEF named
  <2> QED
    OBVIOUS
<1> HIDE DEF name, named
<1>3. start \in Nat \ {0} /\ Len(s) \in Int /\ Len(s) <= Len(s)
  <2>1. Len(s) \in Nat
    OBVIOUS
  <2> QED
    BY <1>8, <2>1
<1> HIDE DEF start
<1>4. info \in Seq(Char)
  BY <1>3, Slices DEF From
<1> HIDE DEF info
<1>5. Upto(info, slash) \in Seq(Char)
  BY <1>4, UptoFirst
<1>9. slash \in 1..(Len(info) + 1)
  BY <1>4, FirstFacts, Zenon
<1> HIDE DEF slash
<1>6. slash \in Nat \ {0} /\ Len(info) \in Int /\ Len(info) <= Len(info)
  <2>1. Len(info) \in Nat
    BY <1>4
  <2> QED
    BY <1>9, <2>1
<1>7. From(info, slash) \in Seq(Char)
  BY <1>4, <1>6, Slices DEF From
<1> QED
  BY <1>1, <1>2, <1>5, <1>7, Zenon

LEMMA PieceFrom ==
  ASSUME NEW s \in Seq(Char), ~DropsEmpty, NEW f \in DOMAIN Parsed(s)
  PROVE  /\ f \in {"user", "password"} =>
              \E y \in Seq(Char) : /\ f \in DOMAIN ParsedInfo(y)
                                   /\ Parsed(s)[f] = ParsedInfo(y)[f]
         /\ f \in {"path", "query", "fragment"} =>
              \E y \in Seq(Char) : /\ f \in DOMAIN ParsedRest(y)
                                   /\ Parsed(s)[f] = ParsedRest(y)[f]
<1>1. CASE Parsed(s) = ParsedRest(s)
  BY <1>1, Domains
<1>2. ASSUME NEW C, DOMAIN C \subseteq {"scheme"},
             NEW info \in Seq(Char), NEW rest \in Seq(Char),
             Parsed(s) = Both(C, Both(ParsedInfo(info), ParsedRest(rest)))
      PROVE  /\ f \in {"user", "password"} =>
                  f \in DOMAIN ParsedInfo(info) /\ Parsed(s)[f] = ParsedInfo(info)[f]
             /\ f \in {"path", "query", "fragment"} =>
                  f \in DOMAIN ParsedRest(rest) /\ Parsed(s)[f] = ParsedRest(rest)[f]
  <2> DEFINE A == ParsedInfo(info)
             B == ParsedRest(rest)
  <2>1. /\ DOMAIN A \subseteq {"user", "password", "hostname", "port_str"}
        /\ DOMAIN B \subseteq {"path", "query", "fragment"}
        /\ DOMAIN C \subseteq {"scheme"}
    BY <1>2, Domains
  <2>2. f \in DOMAIN Both(C, Both(A, B)) /\ Parsed(s)[f] = Both(C, Both(A, B))[f]
    BY <1>2
  <2> HIDE DEF A, B
  <2>3. f \in {"user", "password"} => f \in DOMAIN A /\ Parsed(s)[f] = A[f]
    BY <2>1, <2>2 DEF Both
  <2>4. f \in {"path", "query", "fragment"} => f \in DOMAIN B /\ Parsed(s)[f] = B[f]
    BY <2>1, <2>2 DEF Both
  <2> QED
    BY <2>3, <2>4 DEF A, B
<1>3. ASSUME ~(Parsed(s) = ParsedRest(s))
      PROVE  \E info, rest \in Seq(Char) :
               /\ f \in {"user", "password"} =>
                    f \in DOMAIN ParsedInfo(info) /\ Parsed(s)[f] = ParsedInfo(info)[f]
               /\ f \in {"path", "query", "fragment"} =>
                    f \in DOMAIN ParsedRest(rest) /\ Parsed(s)[f] = ParsedRest(rest)[f]
  <2>1. PICK sch, info, rest :
          /\ DOMAIN sch \subseteq {"scheme"}
          /\ info \in Seq(Char) /\ rest \in Seq(Char)
          /\ Parsed(s) = Both(sch, Both(ParsedInfo(info), ParsedRest(rest)))
    BY <1>3, WhereFrom, Zenon
  <2> QED
    BY <1>2, <2>1, Zenon
<1> QED
  BY <1>1, <1>3, Zenon

FirstAtSign == parser = "first @"
LastColon == parser = "last :"
QuestBeforeHash == parser = "? before #"
LastQuest == parser = "last ?"

\* The user ends at the first "@".
LEMMA NoAtInUser ==
  ASSUME NEW s \in Seq(Char), FirstAtSign, "user" \in DOMAIN Parsed(s)
  PROVE  Without(Parsed(s)["user"], {"@"})
<1>1. ~DropsEmpty
  BY Zenon DEF FirstAtSign, DropsEmpty
<1>2. PICK y \in Seq(Char) : /\ "user" \in DOMAIN ParsedInfo(y)
                             /\ Parsed(s)["user"] = ParsedInfo(y)["user"]
  BY <1>1, PieceFrom
<1> DEFINE at == First(y, {"@"})
           x == Upto(y, at)
<1>3. ParsedInfo(y) = IF at > Len(y) THEN ParsedHost(y)
                      ELSE Both(ParsedUser(x), ParsedHost(From(y, at + 1)))
  BY Zenon DEF ParsedInfo, FirstAtSign
<1>4. x \in Seq(Char) /\ Without(x, {"@"})
  BY UptoFirst
<1> HIDE DEF x, at
<1>5. ParsedInfo(y)["user"] = ParsedUser(x)["user"]
  <2>1. "user" \notin DOMAIN ParsedHost(y)
    BY Domains
  <2>2. ParsedInfo(y) = Both(ParsedUser(x), ParsedHost(From(y, at + 1)))
    BY <1>2, <1>3, <2>1
  <2>3. \A g : Both(ParsedUser(x), g)["user"] = ParsedUser(x)["user"]
    BY Domains DEF Both
  <2> QED
    BY <2>2, <2>3
<1>6. PICK i \in 1..(Len(x) + 1) : ParsedUser(x)["user"] = Upto(x, i)
  <2>1. \A D : First(x, D) \in 1..(Len(x) + 1)
    BY <1>4, FirstFacts
  <2>2. ParsedUser(x) = Both([user |-> Upto(x, First(x, {":"}))],
                             IF First(x, {":"}) > Len(x) THEN <<>>
                             ELSE [password |-> From(x, First(x, {":"}) + 1)])
    BY Zenon DEF ParsedUser, FirstAtSign
  <2>3. \A v, g : Both([user |-> v], g)["user"] = v
    BY DEF Both
  <2>4. ParsedUser(x)["user"] = Upto(x, First(x, {":"}))
    BY <2>2, <2>3, Zenon
  <2> QED
    BY <2>1, <2>4
<1>7. Without(Upto(x, i), {"@"})
  <2>1. i - 1 \in Int /\ i - 1 <= Len(x)
    BY <1>4
  <2>2. \A k \in 1..Len(SubSeq(x, 1, i - 1)) :
          SubSeq(x, 1, i - 1)[k] = x[1 + k - 1] /\ 1 + k - 1 \in 1..Len(x)
    BY <1>4, <2>1, Slices
  <2> QED
    BY <1>4, <2>2 DEF Without, Upto
<1> QED
  BY <1>2, <1>5, <1>6, <1>7

\* The password begins behind the last ":".
LEMMA NoColonInPassword ==
  ASSUME NEW s \in Seq(Char), LastColon, "password" \in DOMAIN Parsed(s)
  PROVE  Without(Parsed(s)["password"], {":"})
<1>1. ~DropsEmpty
  BY Zenon DEF LastColon, DropsEmpty
<1>2. PICK y \in Seq(Char) : /\ "password" \in DOMAIN ParsedInfo(y)
                             /\ Parsed(s)["password"] = ParsedInfo(y)["password"]
  BY <1>1, PieceFrom
<1> DEFINE at == Last1(y, {"@"})
           x == Upto(y, at)
           colon == Last1(x, {":"})
           w == From(x, colon + 1)
<1>3. ParsedInfo(y) = IF at > Len(y) THEN ParsedHost(y)
                      ELSE Both(ParsedUser(x), ParsedHost(From(y, at + 1)))
  BY Zenon DEF ParsedInfo, LastColon
<1>4. x \in Seq(Char)
  <2>1. at \in 1..(Len(y) + 1)
    BY LastFacts
  <2> HIDE DEF at
  <2>2. at - 1 \in Int /\ at - 1 <= Len(y)
    BY <2>1
  <2> QED
    BY <2>2, Slices DEF Upto
<1>5. ParsedUser(x) = Both([user |-> Upto(x, colon)],
                           IF colon > Len(x) THEN <<>> ELSE [password |-> w])
  BY Zenon DEF ParsedUser, LastColon
<1>6. Without(w, {":"})
  <2> HIDE DEF x
  <2>1. colon \in 1..(Len(x) + 1) /\ \A j \in 1..Len(x) : j > colon => x[j] \notin {":"}
    BY <1>4, LastFacts
  <2> HIDE DEF colon
  <2>2. Len(x) \in Nat /\ Len(x) <= Len(x) /\ colon + 1 \in Nat \ {0}
    BY <1>4, <2>1
  <2>3. \A k \in 1..Len(w) : w[k] = x[colon + 1 + k - 1]
          /\ colon + 1 + k - 1 \in (colon + 1)..Len(x) /\ colon + 1 + k - 1 \in 1..Len(x)
    BY <1>4, <2>2, Slices DEF From
  <2> HIDE DEF w
  <2>4. ASSUME NEW k \in 1..Len(w) PROVE w[k] \notin {":"}
    <3>1. PICK j \in 1..Len(x) : w[k] = x[j] /\ j \in (colon + 1)..Len(x)
      BY <2>3
    <3>2. j > colon
      BY <2>1, <3>1
    <3> QED
      BY <2>1, <3>1, <3>2
  <2> QED
    BY <2>4 DEF Without
<1> HIDE DEF x, at, w, colon
<1>7. ParsedInfo(y)["password"] = w
  <2>1. "password" \notin DOMAIN ParsedHost(y)
    BY Domains
  <2>2. /\ ParsedInfo(y) = Both(ParsedUser(x), ParsedHost(From(y, at + 1)))
        /\ "password" \in DOMAIN Both(ParsedUser(x), ParsedHost(From(y, at + 1)))
    BY <1>2, <1>3, <2>1
  <2>3. "password" \notin DOMAIN ParsedHost(From(y, at + 1))
    BY Domains
  <2>4. "password" \in DOMAIN ParsedUser(x)
    BY <2>2, <2>3 DEF Both
  <2>5. Both(ParsedUser(x), ParsedHost(From(y, at + 1)))["password"] = ParsedUser(x)["password"]
    BY <2>4 DEF Both
  <2>6. ParsedUser(x)["password"] = w
    BY <1>5, <2>4 DEF Both
  <2> QED
    BY <2>2, <2>5, <2>6
<1> QED
  BY <1>2, <1>6, <1>7

\* The query begins behind the last "?" before the fragment.
LEMMA NoQuestInQuery ==
  ASSUME NEW s \in Seq(Char), LastQuest, "query" \in DOMAIN Parsed(s)
  PROVE  Without(Parsed(s)["query"], {"?"})
<1>1. ~DropsEmpty
  BY Zenon DEF LastQuest, DropsEmpty
<1>2. PICK y \in Seq(Char) : /\ "query" \in DOMAIN ParsedRest(y)
                             /\ Parsed(s)["query"] = ParsedRest(y)["query"]
  BY <1>1, PieceFrom
<1> DEFINE hash == First(y, {"#"})
           x == Upto(y, hash)
           quest == Last1(x, {"?"})
           end == IF quest < hash THEN quest ELSE hash
           q == SubSeq(y, end + 1, IF hash > end THEN hash - 1 ELSE Len(y))
<1>3. ~(end > Len(y)) /\ y[end] = "?" /\ ParsedRest(y)["query"] = q
  BY <1>2, RestShape, Zenon DEF LastQuest
<1>4. hash \in 1..(Len(y) + 1) /\ Len(y) \in Nat
  BY FirstFacts
<1>12. hash <= Len(y) => y[hash] # "?"
  <2>1. hash <= Len(y) => y[hash] \in {"#"}
    BY FirstFacts
  <2> QED
    BY <2>1, Zenon
<1>5. x \in Seq(Char) /\ x = SubSeq(y, 1, hash - 1)
  BY UptoFirst DEF Upto
<1> HIDE DEF x, hash
<1>6. Len(x) = hash - 1 /\ \A j \in 1..Len(x) : x[j] = y[j]
  <2>1. CASE hash = 1
    <3>1. x = <<>>
      BY <1>5, <2>1
    <3> QED
      BY <2>1, <3>1
  <2>2. CASE hash > 1
    BY <1>4, <1>5, <2>2
  <2> QED
    BY <1>4, <2>1, <2>2
<1>7. quest \in 1..(Len(x) + 1) /\ \A j \in 1..Len(x) : j > quest => x[j] \notin {"?"}
  BY <1>5, LastFacts
<1> HIDE DEF quest
<1>8. end = quest /\ quest < hash
  <2>1. CASE quest < hash
    BY <2>1
  <2>2. CASE ~(quest < hash)
    <3>1. end = hash
      BY <2>2
    <3>2. hash <= Len(y)
      BY <1>3, <1>4, <3>1
    <3> QED
      BY <1>3, <1>12, <3>1, <3>2, Zenon
  <2> QED
    BY <2>1, <2>2
<1>9. q = SubSeq(y, quest + 1, hash - 1)
  BY <1>8
<1>10. \A k \in 1..Len(q) : /\ q[k] = y[quest + 1 + k - 1]
                             /\ quest + 1 + k - 1 \in (quest + 1)..(hash - 1)
  <2>1. quest + 1 \in Nat \ {0} /\ hash - 1 \in Int /\ hash - 1 <= Len(y)
    <3>1. Len(x) \in Nat
      BY <1>5
    <3> QED
      BY <1>4, <1>6, <1>7, <3>1
  <2> HIDE DEF end, q
  <2> QED
    BY <1>9, <2>1, Slices
<1> HIDE DEF q
<1>11. Without(q, {"?"})
  BY <1>4, <1>6, <1>7, <1>10 DEF Without
<1> QED
  BY <1>2, <1>3, <1>11

\* A "?" makes a query, also behind a "#".
LEMMA QuestMakesQuery ==
  ASSUME NEW s \in Seq(Char), QuestBeforeHash, ~Without(s, {"?"})
  PROVE  "hostname" \in DOMAIN Parsed(s) \/ "query" \in DOMAIN Parsed(s)
<1>1. ~DropsEmpty
  BY Zenon DEF QuestBeforeHash, DropsEmpty
<1>2. CASE Parsed(s) = ParsedRest(s)
  <2> DEFINE quest == First(s, {"?"})
  <2>1. "query" \in DOMAIN ParsedRest(s) <=> ~(quest > Len(s) \/ s[quest] # "?")
    BY RestShape, Zenon DEF QuestBeforeHash
  <2>2. /\ quest \in 1..(Len(s) + 1) /\ Len(s) \in Nat
        /\ \A j \in 1..Len(s) : j < quest => s[j] \notin {"?"}
        /\ quest <= Len(s) => s[quest] \in {"?"}
    BY FirstFacts
  <2> HIDE DEF quest
  <2>3. quest <= Len(s)
    BY <2>2 DEF Without
  <2>4. ~(quest > Len(s)) /\ s[quest] = "?"
    BY <2>2, <2>3
  <2> QED
    BY <1>2, <2>1, <2>4
<1>3. ASSUME ~(Parsed(s) = ParsedRest(s)) PROVE "hostname" \in DOMAIN Parsed(s)
  <2>1. PICK sch, info, rest :
          /\ DOMAIN sch \subseteq {"scheme"}
          /\ info \in Seq(Char) /\ rest \in Seq(Char)
          /\ Parsed(s) = Both(sch, Both(ParsedInfo(info), ParsedRest(rest)))
    BY <1>1, <1>3, WhereFrom, Zenon
  <2>2. \A f, g, h : "hostname" \in DOMAIN g => "hostname" \in DOMAIN Both(f, Both(g, h))
    BY DEF Both
  <2>3. "hostname" \in DOMAIN ParsedInfo(info)
    BY Domains
  <2> QED
    BY <2>1, <2>2, <2>3, Zenon
<1> QED
  BY <1>2, <1>3

LEMMA PathAlways ==
  ASSUME NEW s \in Seq(Char), KeepsPath
  PROVE  "path" \in DOMAIN Parsed(s)
<1>1. ~DropsEmpty
  BY Zenon DEF KeepsPath, DropsEmpty
<1>2. \A x : "path" \in DOMAIN ParsedRest(x)
  BY RestShape, Zenon
<1>3. \A f, g, h : "path" \in DOMAIN h => "path" \in DOMAIN Both(f, Both(g, h))
  BY DEF Both
<1> QED
  BY <1>1, <1>2, <1>3, WhereFrom, Zenon

LEMMA NeverEmpty ==
  ASSUME NEW s, DropsEmpty, NEW f \in DOMAIN Parsed(s)
  PROVE  Parsed(s)[f] # <<>>
<1>1. \E all : Parsed(s) = [h \in {g \in DOMAIN all : all[g] # <<>>} |-> all[h]]
  BY Zenon DEF Parsed, DropsEmpty
<1>2. PICK all : Parsed(s) = [h \in {g \in DOMAIN all : all[g] # <<>>} |-> all[h]]
  BY <1>1
<1>3. f \in {g \in DOMAIN all : all[g] # <<>>}
  BY <1>2
<1> QED
  BY <1>2, <1>3

-----------------------------------------------------------------------------
(* The rows of the table that give each mistake away.                       *)

\* The row, from 0, and the subset of its pieces.
TellingRow ==
  CASE parser \in {"first @", "last :", "? before #", "last ?"} -> 7
    [] parser = "empty is NULL" -> 1
    [] OTHER -> 0
TellingSubset ==
  CASE parser \in {"first @", "empty is NULL"} -> 2
    [] parser = "last :" -> 4
    [] parser = "last ?" -> 64
    [] parser = "? before #" -> 128
    [] OTHER -> 0

LEMMA TellingExpects ==
  /\ "user" \in Expect(2) /\ "password" \in Expect(4) /\ "query" \in Expect(64)
  /\ "fragment" \in Expect(128)
  /\ Expect(128) \cap {"scheme", "hostname", "path", "query"} = {}
  /\ "path" \notin Expect(0)
<1>1. Field = {"scheme", "user", "password", "hostname", "port_str", "path",
               "query", "fragment"}
  BY DEF Field, T
<1>2. /\ T["scheme"] = 1 /\ T["user"] = 2 /\ T["password"] = 4 /\ T["hostname"] = 8
      /\ T["port_str"] = 16 /\ T["path"] = 32 /\ T["query"] = 64 /\ T["fragment"] = 128
  BY DEF T
<1>3. /\ (2 \div 2) % 2 = 1 /\ (4 \div 4) % 2 = 1 /\ (64 \div 64) % 2 = 1
      /\ (128 \div 128) % 2 = 1 /\ (128 \div 1) % 2 # 1 /\ (128 \div 2) % 2 # 1
      /\ (128 \div 4) % 2 # 1 /\ (128 \div 8) % 2 # 1 /\ (128 \div 16) % 2 # 1
      /\ (128 \div 32) % 2 # 1
      /\ (128 \div 64) % 2 # 1 /\ (0 \div 32) % 2 # 1
  OBVIOUS
<1>4. \A n, f : f \in Bits(n) <=> f \in Field /\ (n \div T[f]) % 2 = 1
  BY Zenon DEF Bits
<1>5. /\ "user" \in Bits(2) /\ "password" \in Bits(4) /\ "query" \in Bits(64)
      /\ "fragment" \in Bits(128)
  <2>1. /\ (2 \div T["user"]) % 2 = 1 /\ (4 \div T["password"]) % 2 = 1
        /\ (64 \div T["query"]) % 2 = 1 /\ (128 \div T["fragment"]) % 2 = 1
    BY <1>2, <1>3
  <2> QED
    BY <1>1, <1>4, <2>1, Zenon
<1>7. /\ Bits(128) \cap HostField = {} /\ "path" \notin Bits(0)
      /\ "path" \notin Bits(128) /\ "query" \notin Bits(128)
  <2>1. /\ (0 \div T["path"]) % 2 # 1 /\ (128 \div T["path"]) % 2 # 1
        /\ (128 \div T["query"]) % 2 # 1 /\ (128 \div T["scheme"]) % 2 # 1
        /\ (128 \div T["user"]) % 2 # 1 /\ (128 \div T["password"]) % 2 # 1
        /\ (128 \div T["hostname"]) % 2 # 1 /\ (128 \div T["port_str"]) % 2 # 1
    BY <1>2, <1>3
  <2>2. \A n, f : (n \div T[f]) % 2 # 1 => f \notin Bits(n)
    BY <1>4, Zenon
  <2>3. /\ "path" \notin Bits(0) /\ "path" \notin Bits(128) /\ "query" \notin Bits(128)
    BY <2>1, <2>2, Zenon
  <2>4. /\ "scheme" \notin Bits(128) /\ "user" \notin Bits(128)
        /\ "password" \notin Bits(128) /\ "hostname" \notin Bits(128)
        /\ "port_str" \notin Bits(128)
    BY <2>1, <2>2, Zenon
  <2> QED
    BY <2>3, <2>4 DEF HostField
<1>6. \A n : /\ "user" \in Bits(n) => "user" \in Expect(n)
             /\ \A f \in Field : f \notin {"scheme", "hostname", "user"}
                                   => (f \in Expect(n) <=> f \in Bits(n))
             /\ "scheme" \in Expect(n) \/ "hostname" \in Expect(n)
                  => Bits(n) \cap HostField # {}
  BY <1>1, Zenon DEF Expect
<1> QED
  BY <1>1, <1>5, <1>6, <1>7

LEMMA TellingRows ==
  /\ uri_tests[1] = Plain /\ uri_tests[2] = [Plain EXCEPT !.user = <<>>]
  /\ uri_tests[8] = Tricky
BY DEF uri_tests

LEMMA TrickyPieces ==
  /\ ~Without(Tricky["user"], {"@"}) /\ ~Without(Tricky["password"], {":"})
  /\ ~Without(Tricky["query"], {"?"}) /\ ~Without(Tricky["fragment"], {"?"})
<1>1. \A a, b, c : ~Without(<<a, b, c>>, {b})
  BY DEF Without
<1> QED
  BY <1>1 DEF Tricky

LEMMA DiffersIf ==
  ASSUME NEW r, NEW e, NEW f \in Field,
         IF f \in e THEN f \in DOMAIN r => r[f] # pieces[f] ELSE f \in DOMAIN r
  PROVE  Differs(r, e)
BY Zenon DEF Differs

LEMMA InputTyped ==
  ASSUME NEW i \in 1..8, row + 1 = i
  PROVE  /\ pieces = uri_tests[i] /\ pieces \in Grammatical
         /\ Input(pieces, u) \in Seq(Char)
<1>1. pieces = uri_tests[i]
  BY DEF pieces
<1>2. pieces \in Grammatical
  BY <1>1, TableLength, TableIsGrammatical
<1>3. pieces \in Pieces
  BY <1>2 DEF Grammatical
<1> QED
  BY <1>1, <1>2, <1>3, EveryInputFits

\* The fragment alone: "#frag?baby".
LEMMA FragmentAlone ==
  ASSUME row = 7, u = 128
  PROVE  ~Without(Input(pieces, u), {"?"})
<1> DEFINE p == Tricky
           e == Expect(128)
           f == p["fragment"]
<1>1. pieces = p /\ p \in Grammatical
  BY InputTyped, TellingRows
<1>2. f \in Seq(Char) /\ "#" \in Char /\ ~Without(f, {"?"})
  BY <1>1, PieceType, Delimiters, TrickyPieces DEF Grammatical
<1>3. /\ SchemeText(p, e) = <<>> /\ HostPart(p, e) = <<>> /\ PathText(p, e) = <<>>
      /\ Behind("?", p, e, "query") = <<>>
      /\ Behind("#", p, e, "fragment") = <<"#">> \o f
  BY TellingExpects, Zenon DEF SchemeText, HostPart, PathText, Behind
<1>4. Input(p, 128) = (<<>> \o <<>>) \o (<<>> \o (<<>> \o (<<"#">> \o f)))
  <2>1. Input(p, 128) = (SchemeText(p, e) \o HostPart(p, e)) \o RestText(p, e)
    BY <1>1, InputParts, Zenon
  <2>2. RestText(p, e) = PathText(p, e) \o (Behind("?", p, e, "query")
                                           \o Behind("#", p, e, "fragment"))
    BY Zenon DEF RestText
  <2> HIDE DEF p, e, f
  <2> QED
    BY <1>3, <2>1, <2>2, Zenon
<1> HIDE DEF f, p, e
<1>5. <<"#">> \o f \in Seq(Char)
  BY <1>2
<1>6. \A x \in Seq(Char) : <<>> \o x = x /\ (<<>> \o <<>>) \o x = x
  OBVIOUS
<1>7. Input(p, 128) = <<"#">> \o f
  BY <1>4, <1>5, <1>6
<1>8. ~Without(<<"#">> \o f, {"?"})
  <2>1. PICK j \in 1..Len(f) : f[j] = "?"
    BY <1>2 DEF Without
  <2>2. /\ Len(<<"#">> \o f) = 1 + Len(f) /\ Len(f) \in Nat
        /\ (<<"#">> \o f)[1 + j] = f[j]
    BY <1>2
  <2>3. 1 + j \in 1..Len(<<"#">> \o f) /\ (<<"#">> \o f)[1 + j] = "?"
    BY <2>1, <2>2
  <2> QED
    BY <2>3, Zenon DEF Without
<1> QED
  BY <1>1, <1>7, <1>8

\* In that round of iterate_pieces the parser's mistake is counted.
LEMMA EveryMistakeShows ==
  ASSUME parser \in Mistakes, row = TellingRow, u = TellingSubset
  PROVE  \/ Refuses(Parsed(Input(pieces, u)))
         \/ Differs(Parsed(Input(pieces, u)), Expect(u))
<1> DEFINE s == Input(pieces, u)
           e == Expect(u)
           r == Parsed(s)
<1>0. Field = {"scheme", "user", "password", "hostname", "port_str", "path",
               "query", "fragment"}
  BY DEF Field, T
<1>1. CASE parser = "refuses"
  BY <1>1, Zenon DEF Refuses
<1>2. CASE FirstAtSign
  <2>1. row = 7 /\ u = 2
    BY <1>2, Zenon DEF FirstAtSign, TellingRow, TellingSubset
  <2>2. pieces = Tricky /\ s \in Seq(Char)
    BY <2>1, InputTyped, TellingRows
  <2>3. "user" \in e
    BY <2>1, TellingExpects, Zenon
  <2> HIDE DEF s, e
  <2>4. "user" \in DOMAIN r => r["user"] # pieces["user"]
    BY <1>2, <2>2, NoAtInUser, TrickyPieces, Zenon
  <2> QED
    BY <1>0, <2>3, <2>4, DiffersIf, Zenon DEF s, e
<1>3. CASE LastColon
  <2>1. row = 7 /\ u = 4
    BY <1>3, Zenon DEF LastColon, TellingRow, TellingSubset
  <2>2. pieces = Tricky /\ s \in Seq(Char)
    BY <2>1, InputTyped, TellingRows
  <2>3. "password" \in e
    BY <2>1, TellingExpects, Zenon
  <2> HIDE DEF s, e
  <2>4. "password" \in DOMAIN r => r["password"] # pieces["password"]
    BY <1>3, <2>2, NoColonInPassword, TrickyPieces, Zenon
  <2> QED
    BY <1>0, <2>3, <2>4, DiffersIf, Zenon DEF s, e
<1>4. CASE DropsEmpty
  <2>1. row = 1 /\ u = 2
    BY <1>4, Zenon DEF DropsEmpty, TellingRow, TellingSubset
  <2>2. pieces["user"] = <<>>
    <3>1. pieces = [Plain EXCEPT !.user = <<>>]
      BY <2>1, TellingRows DEF pieces
    <3> QED
      BY <3>1 DEF Plain
  <2>3. "user" \in e
    BY <2>1, TellingExpects, Zenon
  <2> HIDE DEF s, e
  <2>4. "user" \in DOMAIN r => r["user"] # pieces["user"]
    BY <1>4, <2>2, NeverEmpty, Zenon
  <2> QED
    BY <1>0, <2>3, <2>4, DiffersIf, Zenon DEF s, e
<1>5. CASE KeepsPath
  <2>1. row = 0 /\ u = 0
    BY <1>5, Zenon DEF KeepsPath, TellingRow, TellingSubset
  <2>2. s \in Seq(Char)
    BY <2>1, InputTyped
  <2>3. "path" \notin e
    BY <2>1, TellingExpects, Zenon
  <2> HIDE DEF s, e
  <2>4. "path" \in DOMAIN r
    BY <1>5, <2>2, PathAlways, Zenon
  <2> QED
    BY <1>0, <2>3, <2>4, DiffersIf, Zenon DEF s, e
<1>6. CASE QuestBeforeHash
  <2>1. row = 7 /\ u = 128
    BY <1>6, Zenon DEF QuestBeforeHash, TellingRow, TellingSubset
  <2>2. s \in Seq(Char) /\ ~Without(s, {"?"})
    BY <2>1, InputTyped, FragmentAlone
  <2>3. "hostname" \notin e /\ "query" \notin e
    BY <2>1, TellingExpects
  <2> HIDE DEF s, e
  <2>4. "hostname" \in DOMAIN r \/ "query" \in DOMAIN r
    BY <1>6, <2>2, QuestMakesQuery, Zenon
  <2> QED
    BY <1>0, <2>3, <2>4, DiffersIf, Zenon DEF s, e
<1>7. CASE LastQuest
  <2>1. row = 7 /\ u = 64
    BY <1>7, Zenon DEF LastQuest, TellingRow, TellingSubset
  <2>2. pieces = Tricky /\ s \in Seq(Char)
    BY <2>1, InputTyped, TellingRows
  <2>3. "query" \in e
    BY <2>1, TellingExpects, Zenon
  <2> HIDE DEF s, e
  <2>4. "query" \in DOMAIN r => r["query"] # pieces["query"]
    BY <1>7, <2>2, NoQuestInQuery, TrickyPieces, Zenon
  <2> QED
    BY <1>0, <2>3, <2>4, DiffersIf, Zenon DEF s, e
<1> QED
  BY <1>1, <1>2, <1>3, <1>4, <1>5, <1>6, <1>7, Zenon
     DEF Mistakes, FirstAtSign, LastColon, DropsEmpty, KeepsPath, QuestBeforeHash, LastQuest

\* What is found by the time a row is over: beyond the telling round there is
\* a failure on record.
TellInv ==
  /\ args = NoArgs /\ parser \in Mistakes
     /\ (row > TellingRow \/ (row = TellingRow /\ u > TellingSubset))
       => failures + total_failures > 0
  /\ TableTells

\* No mistake of the parser gets through the whole table (TableTells): the
\* report is not "TOTAL FAILURES = 0" (lines 113-137).
THEOREM MistakesAreFound == Spec => []TableTells
<1>1. Init => TellInv
  <2> SUFFICES ASSUME Init PROVE TellInv
    OBVIOUS
  <2>1. /\ args = NoArgs => row = 0
        /\ u = 0 /\ pc # "done"
    <3>1. /\ row = (IF args \in Rows THEN args ELSE 0) /\ u = 0
          /\ pc = "iterate" \/ pc = "outside"
      BY Zenon DEF Init
    <3>2. NoArgs \notin Rows
      BY DEF NoArgs, Rows
    <3> QED
      BY <3>1, <3>2
  <2>2. TellingRow \in {0, 1, 7} /\ TellingSubset \in {0, 2, 4, 64, 128}
    BY Zenon DEF TellingRow, TellingSubset
  <2> QED
    BY <2>1, <2>2 DEF TellInv, TableTells, Done
<1>2. ReportInv /\ TellInv /\ [Next]_vars => TellInv'
  <2> SUFFICES ASSUME ReportInv, TellInv, [Next]_vars PROVE TellInv'
    OBVIOUS
  <2> DEFINE m == parser \in Mistakes
             r == TellingRow
             w == TellingSubset
  <2>1. r \in {0, 1, 7} /\ w \in {0, 2, 4, 64, 128}
    BY Zenon DEF TellingRow, TellingSubset
  <2>2. /\ row \in 0..7 /\ u \in 0..256 /\ failures \in Nat /\ total_failures \in Nat
        /\ parser \in {"apr"} \cup Mistakes
    BY TableLength DEF ReportInv, TypeOK, Rows, T_MAX
  <2>3. /\ args = NoArgs /\ m /\ (row > r \/ (row = r /\ u > w))
             => failures + total_failures > 0
        /\ pc = "done" /\ args = NoArgs /\ m => total_failures > 0
    BY <2>2, Zenon DEF TellInv, TableTells, Done, Mistakes
  <2>4. CASE Piece
    <3>1. /\ pc = "iterate" /\ u < 256 /\ u' = u + 1 /\ args' = args /\ row' = row
          /\ parser' = parser /\ total_failures' = total_failures /\ pc' = pc
          /\ failures' = IF \/ Refuses(Parsed(Input(pieces, u)))
                            \/ Differs(Parsed(Input(pieces, u)), Expect(u))
                         THEN failures + 1 ELSE failures
      BY <2>4, Zenon DEF Piece, T_MAX
    <3>2. failures' \in {failures, failures + 1}
      BY <3>1, Zenon
    <3>3. m /\ row = r /\ u = w => failures' = failures + 1
      BY <3>1, EveryMistakeShows, Zenon
    <3>4. TellingRow' = r /\ TellingSubset' = w /\ ((parser \in Mistakes)' <=> m)
      BY <3>1, Zenon DEF TellingRow, TellingSubset
    <3> HIDE DEF m, r, w
    <3>5. args' = NoArgs /\ m /\ (row' > r \/ (row' = r /\ u' > w))
            => failures' + total_failures' > 0
      BY <2>1, <2>2, <2>3, <3>1, <3>2, <3>3
    <3>6. pc' # "done"
      BY <3>1
    <3>7. TableTells'
      BY <3>6, Zenon DEF TableTells, Done
    <3> QED
      <4>1. (args = NoArgs /\ parser \in Mistakes
             /\ (row > TellingRow \/ (row = TellingRow /\ u > TellingSubset))
               => failures + total_failures > 0)'
        BY <3>4, <3>5, Zenon
      <4> QED
        BY <4>1, <3>7, Zenon DEF TellInv
  <2>5. CASE EndRow
    <3>1. /\ pc = "iterate" /\ u = 256 /\ args' = args /\ parser' = parser
          /\ total_failures' = total_failures + failures
      BY <2>5, Zenon DEF EndRow, AddRow, T_MAX
    <3>2. \/ /\ pc' = "done" /\ row' = row /\ u' = u /\ failures' = failures
             /\ args # NoArgs \/ total_failures' > 256 \/ row + 1 = 8
          \/ pc' = "iterate" /\ row' = row + 1 /\ u' = 0 /\ failures' = 0
      BY <2>5, <3>1, TableLength, Zenon DEF EndRow, AddRow
    <3>3. TellingRow' = r /\ TellingSubset' = w /\ ((parser \in Mistakes)' <=> m)
      BY <3>1, Zenon DEF TellingRow, TellingSubset
    <3> HIDE DEF m, r, w
    <3>4. args' = NoArgs /\ m /\ (row' > r \/ (row' = r /\ u' > w))
            => failures' + total_failures' > 0
      BY <2>1, <2>2, <2>3, <3>1, <3>2
    <3>5. pc' = "done" /\ args' = NoArgs /\ m => total_failures' > 0
      BY <2>1, <2>2, <2>3, <3>1, <3>2
    <3>6. TableTells'
      <4>1. parser' # "apr" => m
        BY <2>2, <3>1, Zenon DEF m
      <4> QED
        BY <3>5, <4>1, Zenon DEF TableTells, Done
    <3> QED
      <4>1. (args = NoArgs /\ parser \in Mistakes
             /\ (row > TellingRow \/ (row = TellingRow /\ u > TellingSubset))
               => failures + total_failures > 0)'
        BY <3>3, <3>4, Zenon
      <4> QED
        BY <4>1, <3>6, Zenon DEF TellInv
  <2>6. CASE UNCHANGED vars
    BY <2>6, Zenon DEF vars, TellInv, TableTells, Done, TellingRow, TellingSubset
  <2>7. CASE PastTable
    <3>1. pc = "outside" /\ args' = args
      BY <2>7, Zenon DEF PastTable
    <3>2. args' # NoArgs
      BY <3>1, TableLength DEF ReportInv, Outside, NoArgs
    <3> QED
      BY <3>2, Zenon DEF TellInv, TableTells
  <2> QED
    BY <2>4, <2>5, <2>6, <2>7 DEF Next, Finished
<1>3. TellInv => TableTells
  BY DEF TellInv
<1> QED
  BY <1>1, <1>2, <1>3, EveryReportIsBounded, PTL DEF Spec
=============================================================================
