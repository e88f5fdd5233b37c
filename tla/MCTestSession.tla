----------------------------- MODULE MCTestSession -----------------------------
(* TestSession with two entries.  The forms are those of session.t, one with *)
(* a field twice, one with the fields the other way round, actions cut short *)
(* or empty and the three kinds the handler refuses.                         *)
EXTENDS SessionLocation

Pair(f, v) == [field |-> f, value |-> v]

MCForms ==
  LET act(a) == Pair("action", a)
      name(n) == Pair("name", n)
      value(v) == Pair("value", v)
  IN  { <<act("set"), name("k"), value("v")>>,
        <<act("set"), name("l"), value("w")>>,
        <<act("set"), name("k"), value("")>>,
        <<act("set"), name("k")>>,
        <<value("w"), name("k"), act("set")>>,
        <<act("get"), name("k")>>,
        <<name("l"), act("")>>,
        <<act("ge"), name("k")>>,
        <<act("s"), name("l"), value("v")>>,
        <<act("set"), name("k"), name("l")>>,
        <<act("rm"), name("k")>>,
        <<name("k"), value("v")>>,
        <<Pair("other", ""), act("get"), name("k")>> }

MCOverrides == {[Blank EXCEPT !["k"] = "", !["l"] = "v"]}
=============================================================================
