--------------------------------- MODULE AprUri ---------------------------------
(***************************************************************************)
(* The test of apr_uri_parse in c-modules/test_apr_uri/mod_test_apr_uri.c: *)
(* for every row of a table of URI pieces and each of the 256 subsets u of *)
(* the eight pieces, stitch the pieces together, parse the result, compare *)
(* it with the pieces that went in, and count the failures.                *)
(*                                                                         *)
(* A string is a sequence of characters, a long word being one character;  *)
(* the delimiters ":/@?#" inside pieces are characters of their own.  The  *)
(* parser is the library's (external): as it is documented, or with one of *)
(* the mistakes the table is there to catch.  Hosts in brackets and schemes *)
(* without "//" behind them are left out: no piece of the table has them.  *)
(* The row asked for is whatever atoi makes of the request's arguments; a  *)
(* number that is no row is read past the table, which is undefined.       *)
(***************************************************************************)
EXTENDS Integers, FiniteSets, SequencesExt

CONSTANTS Char,     \* the characters (and long words) of the pieces
          Letter,   \* those a scheme is made of
          Digit     \* those a port is made of

\* T_scheme .. T_fragment, the bits of u and of `expect`.
T == [scheme |-> 1, user |-> 2, password |-> 4, hostname |-> 8,
      port_str |-> 16, path |-> 32, query |-> 64, fragment |-> 128]
T_MAX == 256

Field == DOMAIN T
HostField == {"scheme", "user", "password", "hostname", "port_str"}

Pieces == [Field -> Seq(Char)]

Plain == [scheme |-> <<"http">>, user |-> <<"userid">>,
          password |-> <<"passwd">>, hostname |-> <<"host">>,
          port_str |-> <<"80">>, path |-> <<"/", "path">>,
          query |-> <<"query">>, fragment |-> <<"frag">>]
Tricky == [scheme |-> <<"https">>, user |-> <<"user", "@", "d">>,
           password |-> <<"pa", ":", "swd">>, hostname |-> <<"host.">>,
           port_str |-> <<>>, path |-> <<"/", "~path">>,
           query |-> <<"query&query", "?", "crud">>,
           fragment |-> <<"frag", "?", "baby">>]

\* Faulty variant: the row with delimiters inside pieces is missing.
TableOfPlainPieces ==
  <<Plain, [Plain EXCEPT !.user = <<>>], [Plain EXCEPT !.password = <<>>],
    [Plain EXCEPT !.hostname = <<>>], [Plain EXCEPT !.port_str = <<>>],
    [Plain EXCEPT !.query = <<>>], [Plain EXCEPT !.fragment = <<>>]>>

uri_tests ==
  <<Plain, [Plain EXCEPT !.user = <<>>], [Plain EXCEPT !.password = <<>>],
    [Plain EXCEPT !.hostname = <<>>], [Plain EXCEPT !.port_str = <<>>],
    [Plain EXCEPT !.query = <<>>], [Plain EXCEPT !.fragment = <<>>], Tricky>>

ASSUME CharAssumption ==
  /\ {":", "/", "@", "?", "#", "["} \subseteq Char
  /\ {"http", "https"} \subseteq Letter /\ Letter \subseteq Char
  /\ "80" \in Digit /\ Digit \subseteq Char
  /\ Letter \cup Digit \subseteq Char \ {":", "/", "@", "?", "#"}
  /\ \A i \in 1..Len(uri_tests) : uri_tests[i] \in Pieces

NoArgs == -1
Outside == Len(uri_tests)       \* any number that is no row
Rows == 0..(Len(uri_tests) - 1)

VARIABLES parser,            \* which library parses
          args,              \* the row asked for, Outside or NoArgs
          row, u, failures,  \* iterate_pieces: its arguments and locals
          total_failures,
          pc,                \* "iterate", "outside", "done", "crashed"
          early              \* the report says "Stopped early"

vars == <<parser, args, row, u, failures, total_failures, pc, early>>

Mistakes == {"first @", "last :", "empty is NULL", "path is never NULL",
             "? before #", "last ?", "refuses"}

TypeOK ==
  /\ parser \in {"apr"} \cup Mistakes
  /\ args \in {NoArgs, Outside} \cup Rows /\ row \in Rows
  /\ u \in 0..T_MAX /\ failures \in Nat /\ total_failures \in Nat
  /\ pc \in {"iterate", "outside", "done", "crashed"} /\ early \in BOOLEAN

-----------------------------------------------------------------------------
(* Stitching the pieces together. *)

Bits(n) == {f \in Field : (n \div T[f]) % 2 = 1}

\* Faulty variant: a password is allowed without a user.
ExpectPasswordAlone(n) ==
  LET host == Bits(n) \cap HostField # {}
  IN  {f \in Field : IF f \in {"scheme", "hostname"} THEN host ELSE f \in Bits(n)}

\* A scheme requires a hostinfo and vice versa, a hostinfo a hostname, a
\* password a user.
Expect(n) ==
  LET host == Bits(n) \cap HostField # {}
      user == Bits(n) \cap {"user", "password"} # {}
  IN  {f \in Field : IF f \in {"scheme", "hostname"} THEN host
                     ELSE IF f = "user" THEN user ELSE f \in Bits(n)}

Part(p, e, f, before, after) ==
  IF f \in e THEN before \o p[f] \o after ELSE <<>>

Input(p, n) ==
  LET e == Expect(n)
  IN  Part(p, e, "scheme", <<>>, <<":", "/", "/">>)
      \o Part(p, e, "user", <<>>, <<>>)
      \o Part(p, e, "password", <<":">>, <<>>)
      \o (IF "user" \in e THEN <<"@">> ELSE <<>>)
      \o Part(p, e, "hostname", <<>>, <<>>)
      \o Part(p, e, "port_str", <<":">>, <<>>)
      \o Part(p, e, "path", <<>>, <<>>)
      \o Part(p, e, "query", <<"?">>, <<>>)
      \o Part(p, e, "fragment", <<"#">>, <<>>)

\* Faulty variant: no room for the delimiters of password and port.
RoomWithoutColons(p) ==
  Len(p.scheme) + 3 + Len(p.user) + 1 + Len(p.password) + Len(p.hostname) + 1
  + Len(p.port_str) + Len(p.path) + Len(p.query) + 1 + Len(p.fragment) + 1 + 1

\* What apr_palloc is asked for; the path has no delimiter of its own.
Room(p) ==
  Len(p.scheme) + 3 + Len(p.user) + 1 + Len(p.password) + 1
  + Len(p.hostname) + 1 + Len(p.port_str) + 1 + Len(p.path)
  + Len(p.query) + 1 + Len(p.fragment) + 1 + 1

-----------------------------------------------------------------------------
(* apr_uri_parse (external).  A piece that is NULL is not in the result's   *)
(* domain.                                                                  *)

First(s, D) == LET i == SelectInSeq(s, LAMBDA c : c \in D)
               IN  IF i = 0 THEN Len(s) + 1 ELSE i
Last1(s, D) == LET i == SelectLastInSeq(s, LAMBDA c : c \in D)
               IN  IF i = 0 THEN Len(s) + 1 ELSE i
Upto(s, i) == SubSeq(s, 1, i - 1)
From(s, i) == SubSeq(s, i, Len(s))

\* What is found in two parts of a URI.
Both(f, g) ==
  [x \in DOMAIN f \cup DOMAIN g |-> IF x \in DOMAIN f THEN f[x] ELSE g[x]]

ParsedHost(s) ==
  LET colon == First(s, {":"})
  IN  Both([hostname |-> Upto(s, colon)],
           IF colon > Len(s) THEN <<>> ELSE [port_str |-> From(s, colon + 1)])

ParsedUser(s) ==
  LET colon == IF parser = "last :" THEN Last1(s, {":"}) ELSE First(s, {":"})
  IN  Both([user |-> Upto(s, colon)],
           IF colon > Len(s) THEN <<>> ELSE [password |-> From(s, colon + 1)])

ParsedInfo(s) ==
  LET at == IF parser = "first @" THEN First(s, {"@"}) ELSE Last1(s, {"@"})
  IN  IF at > Len(s) THEN ParsedHost(s)
      ELSE Both(ParsedUser(Upto(s, at)), ParsedHost(From(s, at + 1)))

ParsedRest(s) ==
  LET hash  == First(s, {"#"})
      quest == IF parser = "last ?" THEN Last1(Upto(s, hash), {"?"})
               ELSE First(s, {"?"})
      end   == IF parser = "? before #" THEN quest
               ELSE IF quest < hash THEN quest ELSE hash
      path  == Upto(s, IF hash < end THEN hash ELSE end)
  IN  Both(IF path = <<>> /\ parser # "path is never NULL" THEN <<>> ELSE [path |-> path],
      Both(IF end > Len(s) \/ s[end] # "?" THEN <<>>
             ELSE [query |-> SubSeq(s, end + 1, IF hash > end THEN hash - 1 ELSE Len(s))],
           IF hash > Len(s) THEN <<>> ELSE [fragment |-> From(s, hash + 1)]))

\* A scheme is not empty, ends at the first delimiter, and "://" follows it.
\* Two slashes, and no third, stand before a host without a scheme.
Parsed(s) ==
  LET colon == First(s, {":", "/", "?", "#"})
      named == /\ colon > 1 /\ Upto(s, colon) \in Seq(Letter)
               /\ SubSeq(s, colon, colon + 2) = <<":", "/", "/">>
      bare  == IsPrefix(<<"/", "/">>, s) /\ ~IsPrefix(<<"/", "/", "/">>, s)
      info  == From(s, IF named THEN colon + 3 ELSE 3)
      slash == First(info, {"/", "?", "#"})
      all   == IF named \/ bare
                 THEN Both(IF named THEN [scheme |-> Upto(s, colon)] ELSE <<>>,
                      Both(ParsedInfo(Upto(info, slash)), ParsedRest(From(info, slash))))
                 ELSE ParsedRest(s)
  IN  IF parser = "empty is NULL"
        THEN [f \in {g \in DOMAIN all : all[g] # <<>>} |-> all[f]]
        ELSE all

\* The status is not APR_SUCCESS: a port that is not a number is an error.
Refuses(result) ==
  \/ parser = "refuses"
  \/ "port_str" \in DOMAIN result /\ result["port_str"] \notin Seq(Digit)

-----------------------------------------------------------------------------
Init ==
  /\ parser \in {"apr"} \cup Mistakes
  /\ args \in {NoArgs, Outside} \cup Rows
  /\ row = (IF args \in Rows THEN args ELSE 0)
  /\ u = 0 /\ failures = 0 /\ total_failures = 0
  /\ pc = (IF args = Outside THEN "outside" ELSE "iterate") /\ early = FALSE

pieces == uri_tests[row + 1]

\* CHECK of the eight fields.
Differs(result, e) ==
  \E f \in Field : IF f \in e
                     THEN f \notin DOMAIN result \/ result[f] # pieces[f]
                     ELSE f \in DOMAIN result

\* One round of iterate_pieces.
Piece ==
  /\ pc = "iterate" /\ u < T_MAX
  /\ LET result == Parsed(Input(pieces, u))
     IN  failures' = IF Refuses(result) \/ Differs(result, Expect(u))
                       THEN failures + 1 ELSE failures
  /\ u' = u + 1
  /\ UNCHANGED <<parser, args, row, total_failures, pc, early>>

\* The handler adds the row's failures, and goes on with the next of `rows`
\* unless one row was asked for or the total is above `limit`.
AddRow(limit, rows) ==
  /\ pc = "iterate" /\ u = T_MAX
  /\ total_failures' = total_failures + failures
  /\ early' = (args = NoArgs /\ total_failures' > limit)
  /\ IF args # NoArgs \/ early' \/ row + 1 = rows
       THEN pc' = "done" /\ UNCHANGED <<row, u, failures>>
       ELSE row' = row + 1 /\ u' = 0 /\ failures' = 0 /\ UNCHANGED pc
  /\ UNCHANGED <<parser, args>>

EndRow == AddRow(256, Len(uri_tests))

\* The pointers of a row that is not there: the reads fail, or give pieces
\* that parse as they may.
PastTable ==
  /\ pc = "outside"
  /\ \/ pc' = "crashed" /\ UNCHANGED total_failures
     \/ pc' = "done" /\ total_failures' \in 0..T_MAX
  /\ UNCHANGED <<parser, args, row, u, failures, early>>

Finished == pc \in {"done", "crashed"} /\ UNCHANGED vars

Next == Piece \/ EndRow \/ PastTable \/ Finished

Spec == Init /\ [][Next]_vars

-----------------------------------------------------------------------------
(* Correctness. *)

Done == pc = "done"

\* The pieces that the grammar can tell apart when they are put together: no
\* delimiter where it would end the piece, a scheme of letters, a host that is
\* not in brackets, a port of digits, and an absolute path that does not begin
\* the way an authority does.
Without(s, D) == \A i \in 1..Len(s) : s[i] \notin D
Grammatical ==
  {p \in Pieces :
     /\ p.scheme # <<>> /\ p.scheme \in Seq(Letter)
     /\ Without(p.user, {":", "/", "?", "#"})
     /\ Without(p.password, {"/", "?", "#"})
     /\ Without(p.hostname, {":", "@", "/", "?", "#", "["})
     /\ p.port_str \in Seq(Digit)
     /\ p.path # <<>> /\ p.path[1] = "/" /\ (Len(p.path) > 1 => p.path[2] # "/")
     /\ Without(p.path, {"?", "#"})
     /\ Without(p.query, {"#"})}

\* The URI and its terminating NUL fit the buffer allocated before the loop,
\* whatever the subset of pieces (lines 162-171, written by 174-218).
BufferSuffices == pc = "iterate" /\ u < T_MAX => Len(Input(pieces, u)) + 1 <= Room(pieces)

\* t/apr/uri.t: "TOTAL FAILURES = 0".  Every valid combination of pieces comes
\* back from the parser as it went in, so a right parser has no failure: the
\* closure rules of lines 177-203 are those of the grammar.
RoundTrip == parser = "apr" /\ args # Outside => failures = 0 /\ total_failures = 0

\* Each mistake the table was written for is caught by some row of it: empty
\* pieces and the delimiters inside pieces of the last row (lines 113-137).
TableTells == Done /\ args = NoArgs /\ parser # "apr" => total_failures > 0

\* The report covers the whole table unless it says that it does not, and
\* stopping early bounds it by two rows' worth of failures (326-334).
EarlyStop ==
  /\ total_failures <= 2 * T_MAX
  /\ Done /\ args = NoArgs /\ ~early => row + 1 = Len(uri_tests)

\* What makes TypeOK and EarlyStop inductive: a row has at most one failure
\* for each subset, and a row is begun only below the limit (160-174, 328).
ReportInv ==
  /\ TypeOK /\ EarlyStop
  /\ failures <= u
  /\ pc = "outside" => args = Outside
  /\ pc = "iterate" => args # Outside /\ total_failures <= 256
=============================================================================
