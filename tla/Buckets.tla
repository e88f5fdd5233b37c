------------------------------- MODULE Buckets -------------------------------
(***************************************************************************)
(* Bucket brigades as the input filter of                                  *)
(* c-modules/input_body_filter/mod_input_body_filter.c sees them.          *)
(*                                                                         *)
(* A brigade is a sequence of buckets in the order the APR ring lists      *)
(* them.  A "data" bucket carries bytes (possibly none), a "meta" bucket   *)
(* (FLUSH, ...) and the "eos" bucket carry none.  A lazy bucket (a pipe or *)
(* socket), which apr_bucket_read splits into the part it read and the     *)
(* rest, stands here as the buckets it is read into.                       *)
(***************************************************************************)
EXTENDS Integers, SequencesExt

CONSTANT Byte

DataBucket(bytes) == [type |-> "data", bytes |-> bytes]
MetaBucket == [type |-> "meta", bytes |-> <<>>]
EOS == [type |-> "eos", bytes |-> <<>>]

Bucket == [type : {"data"}, bytes : Seq(Byte)] \cup {MetaBucket, EOS}

\* The bucket the filter puts in the place of b: pstrndup + reverse_string for
\* a bucket with bytes, the very same bucket when the read yields no bytes.
Filtered(b) == IF b.type = "data" THEN DataBucket(Reverse(b.bytes)) ELSE b

FilteredAll(bs) == [i \in 1..Len(bs) |-> Filtered(bs[i])]

\* The bytes of a brigade, as apr_brigade_flatten copies them out.
BytesOf(bs) == FlattenSeq([i \in 1..Len(bs) |-> bs[i].bytes])
=============================================================================
