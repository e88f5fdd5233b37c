---------------------------- MODULE SessionLocation ----------------------------
(***************************************************************************)
(* The sections that configure a location of mod_test_session.c and the    *)
(* sessions kept at it: what DirConfig merges is what the hooks of         *)
(* TestSession read with ap_get_module_config.  The core (external) reads  *)
(* the sections first; from the first request on they stay as they are.    *)
(***************************************************************************)
EXTENDS TestSession

CONSTANT MaxSections   \* bound on the sections that apply to the location

VARIABLES reading,                                \* no request has come yet
          outer, inner, section, directives, sections  \* see DirConfig

Config == INSTANCE DirConfig WITH given <- directives, n <- sections

configVars == <<outer, inner, section, directives, sections>>

\* TestSession's Init, before any directive is in force.
LocationInit ==
  /\ Init
  /\ conf = [fns |-> FALSE, enabled |-> FALSE, session |-> FALSE,
             encoder |-> FALSE, foreign |-> FALSE]
  /\ reading = TRUE
  /\ Config!Init

ReadDirective ==
  /\ reading
  /\ UNCHANGED <<vars, reading>>
  /\ Config!Next

\* The hooks get the merged flags; mod_session's functions and its own
\* directive Session may or may not be there.  The sections have done their
\* work and are forgotten.
Open ==
  /\ reading
  /\ \E fns, enabled, foreign \in BOOLEAN :
       conf' = [fns |-> fns, enabled |-> enabled,
                session |-> Config!Effective.session = 1,
                encoder |-> Config!Effective.encoder = 1,
                foreign |-> foreign]
  /\ conf'.foreign => conf'.encoder
  /\ jar' \in Jars(conf')
  /\ reading' = FALSE
  /\ outer' = Config!Create /\ inner' = Config!Create /\ section' = Config!Create
  /\ directives' = <<>> /\ sections' = 0
  /\ UNCHANGED <<req, notes, pc, code, body, saved, dirty, answer>>

Serve ==
  /\ ~reading
  /\ Next
  /\ UNCHANGED <<reading, configVars>>

LocationNext == ReadDirective \/ Open \/ Serve

LocationSpec == LocationInit /\ [][LocationNext]_<<vars, reading, configVars>>

-----------------------------------------------------------------------------
(* Correctness. *)

\* DirConfig's property: the flags the hooks are given are those of the
\* innermost section that sets them (dcfg_merge, lines 291-303).
InnermostWins == Config!InnermostWins

\* The inductive invariant: that of the requests, that of the merge, and that
\* no request has been served while the sections are read.
LocationInv ==
  /\ SessionInv
  /\ Config!MergeInv
  /\ reading \in BOOLEAN
  /\ reading => ~conf.fns /\ pc = "idle" /\ answer = Unset
=============================================================================
