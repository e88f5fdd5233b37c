------------------------------ MODULE PostRequest ------------------------------
(***************************************************************************)
(* One POST request: a client sending its body over the wire, the core's   *)
(* HTTP_IN filter and ap_get_client_block (external), at most one          *)
(* InputBodyFilter, and one of the body handlers mod_echo_post.c,          *)
(* mod_eat_post.c and mod_echo_post_chunk.c (c-modules/).                  *)
(*                                                                         *)
(* The body is the bytes 1..len, so that an echo shows where each byte     *)
(* came from.  How the wire cuts it into brigades and buckets, a timeout   *)
(* while the client is slow, a client that goes away and a malformed chunk *)
(* are left open.                                                          *)
(***************************************************************************)
EXTENDS Buckets

CONSTANTS MaxLen,    \* bound on the length of a body
          BufSize    \* sizeof(buff) of the handlers

ASSUME PostAssumption ==
  /\ MaxLen \in Nat /\ BufSize \in Nat \ {0}
  /\ 1..MaxLen \subseteq Byte

VARIABLES
  req,                       \* the request and its configuration, see Requests
  arrived, wire,             \* bytes the client has put on the wire; its state
  src, ctx, bb, got, fpc, frv,      \* the input filter, see InputBodyFilter
  hpc,                       \* where the handler is
  remaining, nrd,            \* r->remaining; the last ap_get_client_block
  announced, echoed, total,  \* the "<remaining>:" written, bytes echoed, counted
  ending,                    \* what is written after the body
  result                     \* what the handler returned

reqVars    == <<req>>
wireVars   == <<arrived, wire>>
filterVars == <<src, ctx, bb, got, fpc, frv>>
outVars    == <<announced, echoed, total, ending, result>>
vars == <<reqVars, wireVars, filterVars, hpc, remaining, nrd, outVars>>

Handlers == {"echo_post", "eat_post", "echo_post_chunk"}

Requests == [handler : Handlers,
             framing : {"none", "length", "invalid", "chunked"},
             len : 0..MaxLen, args : BOOLEAN, trailer : BOOLEAN,
             filtered : BOOLEAN]

Chunked == req.framing = "chunked"

TypeOK ==
  /\ req \in Requests
  /\ arrived \in 0..MaxLen
  /\ wire \in {"sending", "sent", "closed", "malformed"}
  /\ {src, ctx, bb, got} \subseteq Seq(Bucket)
  /\ fpc \in {"caller", "fetch", "loop"}
  /\ frv \in {"none", "OK", "error", "gaveup"}
  /\ hpc \in {"setup", "loop", "reading", "after", "done"}
  /\ remaining \in -1..MaxLen
  /\ nrd \in -1..MaxLen
  /\ announced \in -1..MaxLen
  /\ echoed \in Seq(Byte)
  /\ total \in Nat
  /\ ending \in {"none", "error", "total", "trailer", "no trailer"}
  /\ result \in {"none", "OK", "bad request", "setup failed"}

Init ==
  /\ req \in {q \in Requests : /\ q.framing \in {"none", "invalid"} => q.len = 0
                               /\ q.trailer => q.framing = "chunked"}
  /\ arrived = 0
  /\ wire = IF Chunked \/ req.len > 0 THEN "sending" ELSE "sent"
  /\ src = <<>> /\ ctx = <<>> /\ bb = <<>> /\ got = <<>>
  /\ fpc = "caller" /\ frv = "none"
  /\ hpc = "setup"
  /\ remaining = IF req.framing = "length" THEN req.len ELSE 0
  /\ nrd = 0
  /\ announced = -1 /\ echoed = <<>> /\ total = 0 /\ ending = "none"
  /\ result = "none"

Filter == INSTANCE InputBodyFilter
            WITH Supply <- {}, MaxBuckets <- 1, pc <- fpc, rv <- frv

-----------------------------------------------------------------------------
(* The client (external). *)

ServerUnchanged ==
  UNCHANGED <<reqVars, filterVars, hpc, remaining, nrd, outVars>>

\* The next segment; a chunked body ends with a last chunk of its own.
SendBytes(n) ==
  /\ wire = "sending"
  /\ arrived + n <= req.len
  /\ arrived' = arrived + n
  /\ wire' = IF ~Chunked /\ arrived' = req.len THEN "sent" ELSE "sending"
  /\ ServerUnchanged

SendLastChunk ==
  /\ wire = "sending" /\ Chunked /\ arrived = req.len
  /\ wire' = "sent"
  /\ UNCHANGED arrived /\ ServerUnchanged

CloseEarly ==
  /\ wire = "sending"
  /\ wire' = "closed"
  /\ UNCHANGED arrived /\ ServerUnchanged

SendMalformedChunk ==
  /\ wire = "sending" /\ Chunked
  /\ wire' = "malformed"
  /\ UNCHANGED arrived /\ ServerUnchanged

Client == \/ \E n \in 1..MaxLen : SendBytes(n)
          \/ SendLastChunk \/ CloseEarly \/ SendMalformedChunk

-----------------------------------------------------------------------------
(* HTTP_IN (external): a blocking read of at most BufSize bytes. *)

Taken == Len(BytesOf(src))
Bytes(from, to) == [i \in 1..(to - from) |-> from + i]

\* The bytes from..to in one bucket, or cut in two.
Cuts(from, to) ==
  {<<DataBucket(Bytes(from, to))>>}
    \cup {<<DataBucket(Bytes(from, m)), DataBucket(Bytes(m, to))>> :
            m \in (from + 1)..(to - 1)}

\* Content-Length framing ends the brigade with EOS once all bytes are read;
\* chunked framing yields EOS alone when the last chunk has come.
Readable ==
  LET ends(to) == IF ~Chunked /\ to = req.len THEN <<EOS>> ELSE <<>>
  IN  IF Chunked /\ wire = "sent" /\ Taken = req.len
        THEN {<<EOS>>}
        ELSE UNION {{cut \o ends(to) : cut \in Cuts(Taken, to)} :
                    to \in {t \in (Taken + 1)..arrived : t <= Taken + BufSize}}

\* The read gives up: the client is gone, or too slow, or its chunk is bad.
Unreadable == Readable = {} /\ wire # "sent"

Fetched(s, ok) ==
  IF req.filtered
    THEN Filter!Fetch(s, ok)
    ELSE /\ fpc = "fetch"
         /\ src' = src \o s
         /\ bb' = bb \o s
         /\ fpc' = "caller"
         /\ frv' = IF ok THEN "OK" ELSE "error"
         /\ UNCHANGED <<ctx, got>>

Read ==
  /\ \/ \E s \in Readable : Fetched(s, TRUE)
     \/ Unreadable /\ Fetched(<<>>, FALSE)
  /\ UNCHANGED <<reqVars, wireVars, hpc, remaining, nrd, outVars>>

\* Reading a bucket may fail, which leaves what is read in bb and the rest in
\* the filter's context.
FilterStep ==
  /\ Filter!Move \/ Filter!MoveEos \/ Filter!ReadError \/ Filter!Exhausted
  /\ UNCHANGED <<reqVars, wireVars, hpc, remaining, nrd, outVars>>

-----------------------------------------------------------------------------
(* The handlers. *)

\* ap_setup_client_block: REQUEST_CHUNKED_ERROR refuses a chunked body,
\* either policy refuses an invalid Content-Length.
SetupFails ==
  req.framing = "invalid" \/ (Chunked /\ req.handler # "echo_post_chunk")

\* ap_should_client_block.
ShouldRead == Chunked \/ remaining > 0

Finish(code) == hpc' = "done" /\ result' = code

\* echo_post and echo_post_chunk log a failed setup and return 0, which is OK;
\* eat_post returns the failure.
Refuse ==
  /\ hpc = "setup" /\ SetupFails
  /\ Finish(IF req.handler = "eat_post" THEN "setup failed" ELSE "OK")
  /\ UNCHANGED <<reqVars, wireVars, filterVars, remaining, nrd,
                 announced, echoed, total, ending>>

NoBody ==
  /\ hpc = "setup" /\ ~SetupFails /\ ~ShouldRead
  /\ Finish("OK")
  /\ UNCHANGED <<reqVars, wireVars, filterVars, remaining, nrd,
                 announced, echoed, total, ending>>

Begin ==
  /\ hpc = "setup" /\ ~SetupFails /\ ShouldRead
  /\ announced' = IF req.args /\ req.handler # "eat_post" THEN remaining ELSE -1
  /\ hpc' = "loop"
  /\ UNCHANGED <<reqVars, wireVars, filterVars, remaining, nrd,
                 echoed, total, ending, result>>

\* ap_get_client_block once EOS was seen: 0, without asking any filter.
AtEnd == remaining < 0 \/ (~Chunked /\ remaining = 0)

NoMore ==
  /\ hpc = "loop" /\ AtEnd
  /\ nrd' = 0
  /\ hpc' = "after"
  /\ UNCHANGED <<reqVars, wireVars, filterVars, remaining, outVars>>

Ask ==
  /\ hpc = "loop" /\ ~AtEnd
  /\ Filter!Call
  /\ hpc' = "reading"
  /\ UNCHANGED <<reqVars, wireVars, remaining, nrd, outVars>>

\* A read of n bytes: `written` of them are echoed, `counted` added up.
Took(n, written, counted, again) ==
  /\ hpc = "reading"
  /\ Filter!Take
  /\ nrd' = n
  /\ hpc' = IF again THEN "loop" ELSE "after"
  /\ total' = total + counted
  /\ echoed' = IF req.handler = "echo_post" THEN echoed \o written ELSE echoed
  /\ remaining' = IF ~Filter!HasEos(bb) THEN remaining
                  ELSE IF Chunked THEN -1 ELSE 0
  /\ UNCHANGED <<reqVars, wireVars, announced, ending, result>>

BlockLosesByte ==
  LET n == Len(BytesOf(bb)) IN Took(n, SubSeq(BytesOf(bb), 1, n - 1), n, n > 0)

BlockCountsBuffer ==
  LET n == Len(BytesOf(bb))
  IN  Took(n, BytesOf(bb), IF n > 0 THEN BufSize ELSE 0, n > 0)

BlockFailureIgnored ==
  /\ hpc = "reading"
  /\ Filter!GiveUp
  /\ nrd' = -1
  /\ hpc' = "loop"
  /\ UNCHANGED <<reqVars, wireVars, remaining, outVars>>

\* ap_get_client_block returns the brigade's bytes, BufSize at most; the
\* handler's loop body writes (echo_post) and counts them.
Block ==
  LET bytes == BytesOf(bb)
      n == IF Len(bytes) < BufSize THEN Len(bytes) ELSE BufSize
  IN  Took(n, SubSeq(bytes, 1, n), n, n > 0)

\* ap_get_client_block returns -1 and destroys the brigade; the buckets that
\* were in it stay listed in bb, where nobody looks for them any more.
BlockFails ==
  /\ hpc = "reading"
  /\ Filter!GiveUp
  /\ nrd' = -1
  /\ hpc' = "after"
  /\ UNCHANGED <<reqVars, wireVars, remaining, outVars>>

\* Faulty variants: no error mark; trailers answered without looking at nrd.
FinishEchoUnmarked ==
  /\ hpc = "after" /\ req.handler = "echo_post"
  /\ Finish("OK")
  /\ UNCHANGED <<reqVars, wireVars, filterVars, remaining, nrd,
                 announced, echoed, total, ending>>

FinishChunkBlindly ==
  /\ hpc = "after" /\ req.handler = "echo_post_chunk"
  /\ Finish("OK")
  /\ ending' = IF req.trailer THEN "trailer" ELSE "no trailer"
  /\ UNCHANGED <<reqVars, wireVars, filterVars, remaining, nrd,
                 announced, echoed, total>>

FinishEcho ==
  /\ hpc = "after" /\ req.handler = "echo_post"
  /\ ending' = IF nrd < 0 THEN "error" ELSE "none"
  /\ Finish("OK")
  /\ UNCHANGED <<reqVars, wireVars, filterVars, remaining, nrd,
                 announced, echoed, total>>

FinishEat ==
  /\ hpc = "after" /\ req.handler = "eat_post"
  /\ ending' = "total"
  /\ Finish("OK")
  /\ UNCHANGED <<reqVars, wireVars, filterVars, remaining, nrd,
                 announced, echoed, total>>

FinishChunk ==
  /\ hpc = "after" /\ req.handler = "echo_post_chunk"
  /\ IF nrd < 0
       THEN Finish("bad request") /\ UNCHANGED ending
       ELSE /\ Finish("OK")
            /\ ending' = IF req.trailer /\ Filter!HasEos(got) THEN "trailer"
                                                      ELSE "no trailer"
  /\ UNCHANGED <<reqVars, wireVars, filterVars, remaining, nrd,
                 announced, echoed, total>>

Server == \/ Refuse \/ NoBody \/ Begin \/ NoMore \/ Ask \/ Read \/ FilterStep
          \/ Block \/ BlockFails \/ FinishEcho \/ FinishEat \/ FinishChunk

Finished == hpc = "done" /\ wire # "sending" /\ UNCHANGED vars

Next == Client \/ Server \/ Finished

\* The request thread runs; a blocking read ends with data or with a timeout.
Spec == Init /\ [][Next]_vars /\ WF_vars(Server)

-----------------------------------------------------------------------------
(* Correctness. *)

Done == hpc = "done"

\* What the filter, when there is one, makes of the brigades HTTP_IN returned.
Through(filtered, bs) == IF filtered THEN FilteredAll(bs) ELSE bs
Expected(bs) == BytesOf(Through(req.filtered, bs))

\* The bytes echo_post writes are exactly those of the buckets HTTP_IN handed
\* over, in order, each bucket reversed when InputBodyFilter is on: nothing is
\* lost between filter, flattening buffer and handler (echo_post lines 63-76).
EchoIsTheBody ==
  req.handler = "echo_post" =>
     /\ echoed = Expected(SubSeq(src, 1, Len(got)))
     /\ BytesOf(src) = Bytes(0, Taken)

\* An answer without the error mark is never for a part of the body: with the
\* connection lost, timed out or malformed half-way, or a bucket that cannot be
\* read, it does not look like a complete echo, and the length announced before
\* the body was read is the one that follows (echo_post 45-51, 78-87,
\* echo_post_chunk 61-63).  What the code does have is an unmarked answer for
\* none of the body: when ap_setup_client_block refuses its framing, both
\* handlers return 0, a 200 with nothing in it (echo_post 26-35,
\* echo_post_chunk 27-36).
NoPartialEcho ==
  Done =>
     CASE req.handler = "echo_post" /\ ending # "error" ->
            IF SetupFails THEN echoed = <<>> /\ announced = -1
            ELSE /\ Len(echoed) = req.len
                 /\ announced >= 0 => announced = req.len
       [] req.handler = "echo_post_chunk" /\ result = "OK" ->
            IF SetupFails THEN announced = -1 /\ ending = "none"
            ELSE total = req.len
       [] OTHER -> TRUE

\* eat_post says nothing of a failed read (52-56), but its total does: it is
\* the length of the body exactly when the last read did not fail, whatever
\* brigades and buffers the body came in, so a client that knows what it sent
\* can always tell.
EatenTotalTells ==
  Done /\ ending = "total" => (nrd = 0 <=> total = req.len) /\ total <= arrived

\* echo_post_chunk answers with the client's trailer exactly when the client
\* sent one and its whole body has been read (echo_post_chunk 50-83).
TrailerEndsTheBody ==
  Done /\ req.handler = "echo_post_chunk" =>
     (ending = "trailer" <=>
        req.trailer /\ nrd = 0 /\ Filter!HasEos(got) /\ total = req.len)

\* Every request is answered, whatever the client does with its connection.
Answered == <>Done

\* t/filter/input_body.t:13-19: posting the reverse of a string to a location
\* with InputBodyFilter yields the string, that is, the whole body reversed.
WholeBodyReversed ==
  Done /\ req.handler = "echo_post" /\ req.filtered /\ ~SetupFails
       /\ ending # "error"
     => echoed = Reverse(Bytes(0, req.len))

\* mod_echo_post_chunk.c:58-60: a negative read means that "Either the chunk
\* size overflowed or the buffer size was insufficient": the request itself is
\* malformed, not the connection lost or slow.
NegativeReadMeansBadChunk ==
  Done /\ req.handler = "echo_post_chunk" /\ nrd < 0 => wire = "malformed"

-----------------------------------------------------------------------------
(* The inductive invariant, in parts. *)

\* What ap_get_client_block has not handed to the handler yet.
Batch == bb \o Through(req.filtered, ctx)

Conserved == Through(req.filtered, src) = got \o Batch

SentInOrder ==
  /\ BytesOf(src) = Bytes(0, Taken)
  /\ Taken <= arrived /\ arrived <= req.len

Failed == frv \in {"error", "gaveup"}

\* Where in a read the filter is, and what waits in its brigades there: after a
\* failure nothing, or some of the body that the handler will not get.
ReadPoints ==
  /\ hpc # "reading" => fpc = "caller" /\ (frv = "gaveup" \/ bb = <<>>)
  /\ frv = "error" => hpc = "reading"
  /\ frv = "gaveup" => hpc \in {"after", "done"}
  /\ fpc = "fetch" => bb = <<>> /\ frv = "none"
  /\ fpc = "loop" => req.filtered /\ frv = "none"
  /\ fpc # "loop" /\ ~Failed => ctx = <<>>
  /\ Failed => Batch = <<>> \/ Len(BytesOf(Batch)) > 0
  /\ hpc = "reading" =>
       /\ ~Filter!HasEos(got)
       /\ fpc = "caller" => frv \in {"OK", "error"}

\* A successful read fits the buffer, and yields no byte only at the EOS.
BatchFits ==
  hpc = "reading" /\ fpc # "fetch" /\ frv # "error" =>
     /\ Len(BytesOf(Batch)) <= BufSize
     /\ Len(BytesOf(Batch)) = 0 => Filter!HasEos(Batch)

\* The EOS follows the last byte of the body, nothing follows the EOS, and no
\* other bucket is empty.
EosEndsTheBody ==
  /\ \A i \in 1..Len(src) : src[i].type # "eos" => Len(src[i].bytes) > 0
  /\ \A i \in 1..Len(src) :
       src[i].type = "eos" => i = Len(src) /\ Taken = req.len
  /\ ~Chunked /\ req.len > 0 /\ Taken = req.len => Filter!HasEos(src)

Counted ==
  /\ total = Len(BytesOf(got))
  /\ req.handler = "echo_post" => echoed = BytesOf(got)

\* r->remaining is the announced length until the EOS is read.
RemainingTells ==
  remaining = CASE Filter!HasEos(got) -> IF Chunked THEN -1 ELSE 0
                [] ~Filter!HasEos(got) -> IF req.framing = "length"
                                            THEN req.len ELSE 0

\* How far the handler is, and what it knows there.
Stages ==
  /\ req.framing \in {"none", "invalid"} => req.len = 0
  /\ hpc = "setup" => got = <<>> /\ nrd = 0 /\ announced = -1 /\ ending = "none"
  /\ hpc \in {"loop", "reading", "after"} =>
       /\ ~SetupFails
       /\ ~Chunked => req.framing = "length" /\ req.len > 0
       /\ req.handler = "echo_post" => announced \in {-1, req.len}
       /\ ending = "none"
  /\ hpc = "after" => \/ nrd = 0  /\ Filter!HasEos(got)
                      \/ nrd = -1 /\ ~Filter!HasEos(got)

PostInv ==
  /\ TypeOK /\ Conserved /\ SentInOrder /\ ReadPoints /\ BatchFits
  /\ EosEndsTheBody /\ Counted /\ RemainingTells /\ Stages
  /\ NoPartialEcho /\ EatenTotalTells /\ TrailerEndsTheBody
=============================================================================
