-------------------------- MODULE MCInputBodyFilter --------------------------
(* FilterChain on a small instance.  Brigades of up to three buckets; the    *)
(* payloads have 0 to 4 bytes, so that reversal, empty buckets and metadata  *)
(* all occur, with EOS alone or behind data.                                 *)
EXTENDS FilterChain

MCSupply ==
  LET ab == DataBucket(<<"a", "b">>)
      c  == DataBucket(<<"c">>)
      d  == DataBucket(<<"d", "a", "c", "b">>)
      e  == DataBucket(<<"a", "c", "d">>)
  IN  { <<>>, <<ab>>, <<c, MetaBucket>>, <<DataBucket(<<>>), ab>>, <<d, e>>,
        <<EOS>>, <<ab, c, EOS>>, <<MetaBucket, EOS>> }
=============================================================================
