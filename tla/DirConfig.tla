------------------------------- MODULE DirConfig -------------------------------
(***************************************************************************)
(* The per-directory configuration of mod_test_session.c: two flags, each  *)
(* with a *_set companion, and their merge.  The core (external) merges    *)
(* the <Location> sections of a request among themselves and the result    *)
(* into what the directories gave, so the merge must not depend on how it  *)
(* is grouped; and a section that does not mention a flag must not hide    *)
(* one that does.                                                          *)
(***************************************************************************)
EXTENDS Integers, Sequences

CONSTANT MaxSections   \* bound on the sections that apply to one request

VARIABLES outer,     \* the configuration the directories gave
          inner,     \* the <Location> sections merged so far
          section,   \* the section being read
          given,     \* history: the directives read, [flag, value], in order
          n          \* sections read

vars == <<outer, inner, section, given, n>>

\* The fields are ints that hold 0 or 1.
Flag == {0, 1}
Or(a, b) == IF a = 0 /\ b = 0 THEN 0 ELSE 1

Dcfg == [session : Flag, session_set : Flag, encoder : Flag, encoder_set : Flag]

Create == [session |-> 0, session_set |-> 0, encoder |-> 0, encoder_set |-> 0]

\* Faulty variant: a merge that keeps the outer flag.
MergeKeepsBase(base, add) ==
  [session     |-> IF base.session_set = 0 THEN add.session ELSE base.session,
   session_set |-> Or(add.session_set, base.session_set),
   encoder     |-> IF add.encoder_set = 0 THEN base.encoder ELSE add.encoder,
   encoder_set |-> Or(add.encoder_set, base.encoder_set)]

Merge(base, add) ==
  [session     |-> IF add.session_set = 0 THEN base.session ELSE add.session,
   session_set |-> Or(add.session_set, base.session_set),
   encoder     |-> IF add.encoder_set = 0 THEN base.encoder ELSE add.encoder,
   encoder_set |-> Or(add.encoder_set, base.encoder_set)]

SetSessionEnable(conf, flag) ==
  [session |-> flag, session_set |-> 1,
   encoder |-> conf.encoder, encoder_set |-> conf.encoder_set]

SetEncoderEnable(conf, flag) ==
  [session |-> conf.session, session_set |-> conf.session_set,
   encoder |-> flag, encoder_set |-> 1]

TypeOK ==
  /\ {outer, inner, section} \subseteq Dcfg
  /\ given \in Seq([flag : {"session", "encoder"}, value : Flag])
  /\ n \in Nat

Init ==
  /\ outer = Create /\ inner = Create /\ section = Create
  /\ given = <<>>
  /\ n = 0

\* TestSession and TestSessionEncoder, once a section (more would repeat).
TestSession(flag) ==
  /\ section.session_set = 0
  /\ section' = SetSessionEnable(section, flag)
  /\ given' = Append(given, [flag |-> "session", value |-> flag])
  /\ UNCHANGED <<outer, inner, n>>

TestSessionEncoder(flag) ==
  /\ section.encoder_set = 0
  /\ section' = SetEncoderEnable(section, flag)
  /\ given' = Append(given, [flag |-> "encoder", value |-> flag])
  /\ UNCHANGED <<outer, inner, n>>

\* The core (external) merges a section into those of its kind.
EndSection ==
  /\ n < MaxSections
  /\ inner' = Merge(inner, section)
  /\ section' = Create
  /\ n' = n + 1
  /\ UNCHANGED <<outer, given>>

\* The directories' sections are done, the locations' begin.
EndDirectories ==
  /\ section = Create
  /\ outer = Create
  /\ outer' = inner
  /\ inner' = Create
  /\ UNCHANGED <<section, given, n>>

Next == \/ \E flag \in Flag : TestSession(flag) \/ TestSessionEncoder(flag)
        \/ EndSection \/ EndDirectories

Spec == Init /\ [][Next]_vars

-----------------------------------------------------------------------------
(* Correctness. *)

\* What the request is served with.
Effective == Merge(outer, Merge(inner, section))

\* v is the value of the last directive for the flag, 0 without one.
Last(flag, v) ==
  LET at == {i \in 1..Len(given) : given[i].flag = flag}
  IN  \/ at = {} /\ v = 0
      \/ \E i \in at : (\A j \in at : j <= i) /\ given[i].value = v

\* The flags a request is served with are those of the innermost section that
\* sets them, whatever outer sections say and however the sections are grouped
\* (dcfg_merge, lines 291-303).
InnermostWins ==
  /\ Last("session", Effective.session)
  /\ Last("encoder", Effective.encoder)

\* Its inductive form, with the types: a flag counts as set exactly when it was
\* given, and a flag that is not set is off.
MergeInv ==
  /\ TypeOK
  /\ InnermostWins
  /\ \A c \in {outer, inner, section} :
       /\ c.session_set = 0 => c.session = 0
       /\ c.encoder_set = 0 => c.encoder = 0
  /\ Effective.session_set = 1 <=> \E i \in 1..Len(given) : given[i].flag = "session"
  /\ Effective.encoder_set = 1 <=> \E i \in 1..Len(given) : given[i].flag = "encoder"
=============================================================================
