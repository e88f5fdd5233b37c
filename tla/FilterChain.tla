------------------------------ MODULE FilterChain ------------------------------
(***************************************************************************)
(* The filter of InputBodyFilter in the chain of a request, in detail:     *)
(*                                                                         *)
(* A bucket with bytes is not reversed at once but by the loop of          *)
(* reverse_string (ReverseString), on a copy of its bytes.                 *)
(*                                                                         *)
(* What f->next is: HTTP_IN, or `twice` a second instance of the filter.   *)
(* The chain has two where InputBodyFilter is On and the request carries   *)
(* X-AddInputFilter: INPUT_BODY_FILTER (Dispatch!FilterOnceEach).  The     *)
(* lower one is called with the upper's f->ctx->b, which is empty then, as *)
(* its brigade; `handed` is what is in it until that call returns.         *)
(***************************************************************************)
EXTENDS InputBodyFilter

VARIABLES twice,
          lsrc,      \* history: what HTTP_IN has handed to the lower filter
          low,       \* the lower filter's f->ctx->b
          handed,    \* what it has put into its caller's brigade
          lpc, lrv,  \* its point in the handler, and what it returned
          reversing, \* reverse_string runs, in one of the two
          string, up, down, given   \* see ReverseString

lowerVars == <<lsrc, low, handed, lpc, lrv>>
stringVars == <<reversing, string, up, down, given>>
chainVars == <<vars, lowerVars, stringVars, twice>>

Lower == INSTANCE InputBodyFilter
           WITH src <- lsrc, ctx <- low, bb <- handed, got <- src,
                pc <- lpc, rv <- lrv

Reversal == INSTANCE ReverseString

ChainInit ==
  /\ Init /\ Lower!Init
  /\ twice \in BOOLEAN
  /\ reversing = FALSE /\ Reversal!InitWith({<<>>})

-----------------------------------------------------------------------------
\* A copy of the first bucket's bytes, if any: pstrndup, reverse_string.
ReverseFirst(brigade) ==
  /\ ~reversing
  /\ brigade # <<>> /\ Head(brigade).bytes # <<>>
  /\ reversing' = TRUE
  /\ given' = Head(brigade).bytes /\ string' = given'
  /\ up' = 1 /\ down' = Len(given')

Swap == reversing /\ Reversal!Swap /\ UNCHANGED <<vars, lowerVars, twice, reversing>>

\* The bucket that takes the first one's place.
Bytes(brigade) == IF brigade = <<>> THEN 0 ELSE Len(Head(brigade).bytes)

Replaced(brigade) ==
  IF Bytes(brigade) > 0 THEN DataBucket(string) ELSE Head(brigade)

Ready(brigade) == IF Bytes(brigade) > 0 THEN reversing /\ Reversal!Done ELSE TRUE

Moved == reversing' = FALSE /\ UNCHANGED <<string, up, down, given>>

-----------------------------------------------------------------------------
\* The reader calls, takes what a call returned, or gives up.  A call that
\* finds f->ctx->b empty enters the lower filter.
Reader ==
  /\ \/ Call /\ IF twice /\ ctx = <<>> THEN Lower!Call ELSE UNCHANGED lowerVars
     \/ (Take \/ GiveUp) /\ UNCHANGED lowerVars
  /\ UNCHANGED <<stringVars, twice>>

HttpIn == ~twice /\ FetchAny /\ UNCHANGED <<lowerVars, stringVars, twice>>

UpperStep ==
  /\ \/ ReverseFirst(ctx) /\ pc = "loop" /\ UNCHANGED vars
     \/ Ready(ctx) /\ Pass(Replaced(ctx)) /\ Moved
     \/ ~reversing /\ (MoveEos \/ ReadError \/ Exhausted) /\ UNCHANGED stringVars
  /\ UNCHANGED <<lowerVars, twice>>

LowerStep ==
  /\ \/ ReverseFirst(low) /\ lpc = "loop" /\ UNCHANGED <<lowerVars, src>>
     \/ Ready(low) /\ Lower!Pass(Replaced(low)) /\ Moved
     \/ /\ ~reversing
        /\ Lower!FetchAny \/ Lower!MoveEos \/ Lower!ReadError \/ Lower!Exhausted
        /\ UNCHANGED stringVars
  /\ UNCHANGED <<ctx, bb, got, pc, rv, twice>>

\* The lower filter has returned, after a failure with part of a brigade.
Returned(s) ==
  /\ twice /\ lpc = "caller"
  /\ Fetch(s, lrv = "OK")
  /\ handed' = <<>>
  /\ lrv' = IF lrv = "OK" THEN "none" ELSE lrv
  /\ UNCHANGED <<lsrc, low, lpc, stringVars, twice>>

\* Faulty variant: a failed call's buckets are thrown away.
ReturnedDropsPart == Returned(IF lrv = "OK" THEN handed ELSE <<>>)

Back == Returned(handed)

ChainFinished == Finished /\ UNCHANGED chainVars

ChainHandler == Swap \/ HttpIn \/ UpperStep \/ LowerStep \/ Back

ChainNext == Reader \/ ChainHandler \/ ChainFinished

\* The request thread runs the handlers to their return; the reader is free.
ChainSpec == ChainInit /\ [][ChainNext]_chainVars /\ WF_chainVars(ChainHandler)

-----------------------------------------------------------------------------
(* Correctness; Conservation, EveryCallReturns and ImplementsBodyStream of    *)
(* InputBodyFilter hold of the upper filter, whatever f->next is.             *)

\* When the loop of reverse_string ends, the copy is the reversal of what was
\* in the bucket, for odd and even lengths and for one byte (lines 69-76).
Reversed == Reversal!Reversed

\* Twice in the chain the filter undoes itself, bucket by bucket and across
\* failures and retries: what the reader has and what waits in the contexts is
\* what HTTP_IN handed over, in order (119-134, by two instances).
UndoesItself ==
  twice => lsrc = got \o bb \o FilteredAll(ctx \o handed) \o low

\* A call that succeeds leaves nothing in f->ctx->b, and buckets in that of the
\* lower filter only where this failed half-way and has not been called since:
\* the reader of the next block is never given what belonged to this one
\* (98-106, 119-123).
LeftOnlyByFailure ==
  pc = "caller" /\ rv = "OK" => ctx = <<>> /\ (low # <<>> => lrv = "error")

-----------------------------------------------------------------------------
(* The inductive invariant of the chain, in parts. *)

EosLast(bs) == \A i \in 1..Len(bs) : bs[i].type = "eos" => i = Len(bs)

ChainTypeOK ==
  /\ TypeOK
  /\ lsrc \in Seq(Bucket) /\ low \in Seq(Bucket) /\ handed \in Seq(Bucket)
  /\ lpc \in {"caller", "fetch", "loop"}
  /\ lrv \in {"none", "OK", "error", "gaveup"}
  /\ twice \in BOOLEAN /\ reversing \in BOOLEAN

\* The lower filter runs only inside the upper one's call of f->next, and only
\* where there is one; its caller's brigade is empty outside.
Nesting ==
  /\ lpc # "caller" => twice /\ pc = "fetch"
  /\ pc # "fetch" => handed = <<>>
  /\ ~twice => lsrc = <<>> /\ low = <<>> /\ handed = <<>> /\ lrv = "none"

\* Conservation, of the lower filter.
LowerConservation ==
  twice => FilteredAll(lsrc) = src \o handed \o FilteredAll(low)

\* A filter asks for more only when it has nothing, and an EOS is the last
\* bucket of every brigade.
EosEnds ==
  /\ pc = "fetch" => ctx = <<>>
  /\ lpc = "fetch" => low = <<>>
  /\ EosLast(ctx) /\ EosLast(low) /\ EosLast(handed)
  /\ lpc # "caller" => ~HasEos(handed)

\* What a success and what a failure leave in the contexts.
LeftOver ==
  /\ rv = "OK" => pc = "caller" /\ ctx = <<>>
  /\ lpc = "caller" /\ low # <<>> => lrv = "error"

\* reverse_string works on the bytes of the bucket that comes next.
Works(brigade) ==
  brigade # <<>> /\ Head(brigade).bytes # <<>> /\ given = Head(brigade).bytes

ReversesFirst ==
  /\ Reversal!LoopInv
  /\ reversing => \/ pc = "loop" /\ Works(ctx)
                  \/ lpc = "loop" /\ Works(low)

ChainInv ==
  /\ ChainTypeOK /\ Nesting
  /\ Conservation /\ LowerConservation
  /\ EosEnds /\ LeftOver /\ ReversesFirst
=============================================================================
