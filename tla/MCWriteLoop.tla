------------------------------ MODULE MCWriteLoop ------------------------------
(* WriteLoop with a 5-bit size_t and a 3-bit int: every query of up to three *)
(* numbers, the buffer and remaining over the whole range of size_t, on both  *)
(* sides of every multiple of IntMod, and negative.                           *)
EXTENDS WriteLoop

MCQueries ==
  {<<>>} \cup {<<b>> : b \in -2..(SizeMod + 1)}
         \cup {<<b, n>> : b, n \in -2..(SizeMod + 1)}
         \cup {<<b, n, 7>> : b \in {2}, n \in {5}}
=============================================================================
