--------------------------- MODULE InputBodyFilter ---------------------------
(***************************************************************************)
(* One instance of the input filter INPUT_BODY_FILTER, called again and    *)
(* again by the reader of the request body, above any next filter.         *)
(*                                                                         *)
(* f->ctx->b survives from call to call (ctx); bb belongs to the caller.   *)
(* A call fetches from f->next only when ctx->b is empty, and moves bucket *)
(* after bucket to bb; a failing apr_bucket_read leaves the rest in ctx->b *)
(* and the part done in bb.  What f->next returns, whether it fails after  *)
(* handing over part of its brigade, and whether the caller retries a      *)
(* failed call, is left open.                                              *)
(***************************************************************************)
EXTENDS Buckets

CONSTANTS Supply,      \* brigades one ap_get_brigade(f->next) may hand over
          MaxBuckets   \* bound on the buckets of one request body

ASSUME SupplyAssumption ==
  /\ Supply \subseteq Seq(Bucket)
  /\ \A s \in Supply : \A i \in 1..Len(s) : s[i].type = "eos" => i = Len(s)
  /\ MaxBuckets \in Nat \ {0}

VARIABLES src,   \* history: every bucket f->next has handed over, in order
          ctx,   \* f->ctx->b; <<>> also before the first call creates it
          bb,    \* the caller's brigade
          got,   \* history: every bucket the caller has taken out of bb
          pc,    \* "caller", or the point reached inside the handler
          rv     \* what the last call returned, "none" once taken

vars == <<src, ctx, bb, got, pc, rv>>

TypeOK ==
  /\ src \in Seq(Bucket)
  /\ ctx \in Seq(Bucket)
  /\ bb  \in Seq(Bucket)
  /\ got \in Seq(Bucket)
  /\ pc \in {"caller", "fetch", "loop"}
  /\ rv \in {"none", "OK", "error", "gaveup"}

Init ==
  /\ src = <<>> /\ ctx = <<>> /\ bb = <<>> /\ got = <<>>
  /\ pc = "caller"
  /\ rv = "none"

HasEos(bs) == \E i \in 1..Len(bs) : bs[i].type = "eos"

-----------------------------------------------------------------------------
(* Faulty variants of the handler's steps.                                  *)

\* Forgets `if (!ctx)`: a new, empty context for every call.
CallWithNewContext ==
  /\ pc = "caller" /\ rv \in {"none", "error"} /\ ~HasEos(got)
  /\ pc' = "fetch" /\ rv' = "none" /\ ctx' = <<>>
  /\ UNCHANGED <<src, bb, got>>

\* Returns after the first bucket, as if `if` stood for `while`.
PassOnce(b) ==
  /\ pc = "loop" /\ ctx # <<>> /\ Head(ctx).type # "eos"
  /\ bb' = Append(bb, b) /\ ctx' = Tail(ctx)
  /\ pc' = "caller" /\ rv' = "OK"
  /\ UNCHANGED <<src, got>>

\* APR_BUCKET_REMOVE before the read that may fail.
ReadErrorDropsBucket ==
  /\ pc = "loop" /\ ctx # <<>> /\ Head(ctx).type # "eos"
  /\ ctx' = Tail(ctx) /\ pc' = "caller" /\ rv' = "error"
  /\ UNCHANGED <<src, bb, got>>

\* Reads on until there is an EOS instead of returning what it has.
ExhaustedReadsOn ==
  /\ pc = "loop" /\ ctx = <<>>
  /\ pc' = "fetch"
  /\ UNCHANGED <<src, ctx, bb, got, rv>>

-----------------------------------------------------------------------------
(* The handler. *)

\* Entry: the context is created once and kept; f->next is asked only when
\* nothing is left over from an earlier call.
Call ==
  /\ pc = "caller"
  /\ rv \in {"none", "error"}
  /\ ~HasEos(got)
  /\ pc' = IF ctx = <<>> THEN "fetch" ELSE "loop"
  /\ rv' = "none"
  /\ UNCHANGED <<src, ctx, bb, got>>

\* ap_get_brigade(f->next, ctx->b): it appends s, and succeeds or fails.
Fetch(s, ok) ==
  /\ pc = "fetch"
  /\ src' = src \o s
  /\ ctx' = ctx \o s
  /\ IF ok THEN pc' = "loop"   /\ rv' = "none"
           ELSE pc' = "caller" /\ rv' = "error"
  /\ UNCHANGED <<bb, got>>

\* The first bucket is read and b passed on in its place.
Pass(b) ==
  /\ pc = "loop"
  /\ ctx # <<>>
  /\ Head(ctx).type # "eos"
  /\ bb' = Append(bb, b)
  /\ ctx' = Tail(ctx)
  /\ UNCHANGED <<src, got, pc, rv>>

\* A bucket that has bytes is reversed, others are passed on as they are.
Move == Pass(Filtered(Head(ctx)))

\* EOS is passed on unread and ends the call.
MoveEos ==
  /\ pc = "loop"
  /\ ctx # <<>>
  /\ Head(ctx).type = "eos"
  /\ bb' = Append(bb, Head(ctx))
  /\ ctx' = Tail(ctx)
  /\ pc' = "caller"
  /\ rv' = "OK"
  /\ UNCHANGED <<src, got>>

\* apr_bucket_read fails: return rv, the bucket still first in ctx->b.
ReadError ==
  /\ pc = "loop"
  /\ ctx # <<>>
  /\ Head(ctx).type # "eos"
  /\ pc' = "caller"
  /\ rv' = "error"
  /\ UNCHANGED <<src, ctx, bb, got>>

Exhausted ==
  /\ pc = "loop"
  /\ ctx = <<>>
  /\ pc' = "caller"
  /\ rv' = "OK"
  /\ UNCHANGED <<src, ctx, bb, got>>

-----------------------------------------------------------------------------
(* The caller: ap_get_client_block, or any other reader of the body.  After *)
(* a failure it may call again with the same brigade (Call) or stop.        *)

Take ==
  /\ pc = "caller"
  /\ rv = "OK"
  /\ got' = got \o bb
  /\ bb' = <<>>
  /\ rv' = "none"
  /\ UNCHANGED <<src, ctx, pc>>

GiveUp ==
  /\ pc = "caller"
  /\ rv = "error"
  /\ rv' = "gaveup"
  /\ UNCHANGED <<src, ctx, bb, got, pc>>

\* The body has been read to its EOS, or the caller gave up.
Finished ==
  /\ pc = "caller"
  /\ HasEos(got) \/ rv = "gaveup"
  /\ UNCHANGED vars

\* f->next hands over a brigade within the bound; the one that exhausts the
\* bound ends the body.
FetchAny ==
  \E s \in Supply, ok \in BOOLEAN :
    /\ \/ Len(src \o s) < MaxBuckets
       \/ Len(src \o s) = MaxBuckets /\ HasEos(s)
    /\ Fetch(s, ok)

Handler == FetchAny \/ Move \/ MoveEos \/ ReadError \/ Exhausted

Next == Call \/ Handler \/ Take \/ GiveUp \/ Finished

\* The request thread runs the handler to its return; the caller is free.
Spec == Init /\ [][Next]_vars /\ WF_vars(Handler)

-----------------------------------------------------------------------------
(* Correctness. *)

\* Nothing the next filter handed over is lost, duplicated or reordered,
\* whatever failed in between: what the caller has, what waits in its brigade
\* and what is left in f->ctx->b, each passed through the filter once, is what
\* came from f->next (filter_handler lines 98-135).
Conservation ==
  FilteredAll(src) = got \o bb \o FilteredAll(ctx)

\* Every call returns to its caller: the loop is over a brigade that only
\* shrinks while it runs (line 106).
EveryCallReturns == (pc # "caller") ~> (pc = "caller")

\* The filter's buckets as its reader's stream, and the claim that every step
\* supplies more of the body or delivers exactly its next bucket, filtered.
Stream == INSTANCE BodyStream WITH delivered <- got \o bb

ImplementsBodyStream == Stream!Spec
=============================================================================
