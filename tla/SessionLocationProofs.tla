------------------------- MODULE SessionLocationProofs -------------------------
(* Theorems about the configuration of a location and the sessions kept at   *)
(* it: the merge of the sections can be grouped at will and the innermost    *)
(* section that sets a flag decides it; the session of a request is read     *)
(* once, those of the encoder are read, and a sequence of requests is a      *)
(* store of values.  For any names, values, forms and numbers of sections.   *)
EXTENDS SessionLocation, TLAPS, WellFoundedInduction

-----------------------------------------------------------------------------
(* The sections. *)

\* Three configurations merge to the same result from the outside in and from
\* the inside out (dcfg_merge, lines 291-303).
THEOREM MergeAssociative ==
  \A a, b, c \in Config!Dcfg :
    Config!Merge(a, Config!Merge(b, c)) = Config!Merge(Config!Merge(a, b), c)
BY DEF Config!Merge, Config!Or, Config!Flag, Config!Dcfg

LEMMA MergeType == \A a, b \in Config!Dcfg : Config!Merge(a, b) \in Config!Dcfg
BY DEF Config!Merge, Config!Or, Config!Flag, Config!Dcfg

LEMMA CreateType == Config!Create \in Config!Dcfg
BY DEF Config!Create, Config!Flag, Config!Dcfg

\* An empty section changes nothing.
LEMMA MergeCreate == \A a \in Config!Dcfg : Config!Merge(a, Config!Create) = a
BY DEF Config!Merge, Config!Or, Config!Flag, Config!Dcfg, Config!Create

\* Nothing outside changes nothing, for a flag that is on only where it is set.
LEMMA CreateMerge ==
  \A a \in Config!Dcfg :
    (a.session_set = 0 => a.session = 0) /\ (a.encoder_set = 0 => a.encoder = 0)
      => Config!Merge(Config!Create, a) = a
BY DEF Config!Merge, Config!Or, Config!Flag, Config!Dcfg, Config!Create

\* Setting a flag before or after what is outside is merged in is the same.
LEMMA MergeSet ==
  \A a, c \in Config!Dcfg, flag \in Config!Flag :
    /\ Config!SetSessionEnable(c, flag) \in Config!Dcfg
    /\ Config!SetEncoderEnable(c, flag) \in Config!Dcfg
    /\ Config!Merge(a, Config!SetSessionEnable(c, flag))
         = Config!SetSessionEnable(Config!Merge(a, c), flag)
    /\ Config!Merge(a, Config!SetEncoderEnable(c, flag))
         = Config!SetEncoderEnable(Config!Merge(a, c), flag)
BY DEF Config!Merge, Config!Or, Config!Flag, Config!Dcfg,
       Config!SetSessionEnable, Config!SetEncoderEnable

\* The last directive read decides its flag, and that flag alone.
LEMMA LastAppend ==
  ASSUME Config!TypeOK, NEW f \in {"session", "encoder"},
         NEW flag \in Config!Flag,
         directives' = Append(directives, [flag |-> f, value |-> flag])
  PROVE  /\ Config!Last(f, flag)'
         /\ \A g, v : g # f /\ Config!Last(g, v) => Config!Last(g, v)'
         /\ \A g : (\E i \in 1..Len(directives') : directives'[i].flag = g)
                     <=> \/ g = f
                  \/ \E i \in 1..Len(directives) : directives[i].flag = g
<1> DEFINE e == [flag |-> f, value |-> flag]
<1>1. /\ directives \in Seq([flag : {"session", "encoder"},
                            value : Config!Flag])
      /\ e \in [flag : {"session", "encoder"}, value : Config!Flag]
  BY DEF Config!TypeOK
<1>2. /\ Len(directives) \in Nat
      /\ Len(directives') = Len(directives) + 1
      /\ directives'[Len(directives) + 1] = e
      /\ \A i \in 1..Len(directives) : directives'[i] = directives[i]
  BY <1>1
<1>3. 1..Len(directives') = 1..Len(directives) \cup {Len(directives) + 1}
  BY <1>2
<1>4. Config!Last(f, flag)'
  <2>1. Len(directives) + 1
          \in {i \in 1..Len(directives') : directives'[i].flag = f}
    BY <1>2, <1>3
  <2>2. \A j \in 1..Len(directives') : j <= Len(directives) + 1
    BY <1>2
  <2>3. directives'[Len(directives) + 1].value = flag
    BY <1>2
  <2> QED BY <2>1, <2>2, <2>3 DEF Config!Last
<1>5. ASSUME NEW g, NEW v, g # f, Config!Last(g, v)
      PROVE  Config!Last(g, v)'
  <2>1. {i \in 1..Len(directives') : directives'[i].flag = g}
          = {i \in 1..Len(directives) : directives[i].flag = g}
    BY <1>2, <1>3, <1>5
  <2>2. \A i \in 1..Len(directives) : directives'[i].value = directives[i].value
    BY <1>2
  <2> QED BY <1>5, <2>1, <2>2 DEF Config!Last
<1>6. \A g : (\E i \in 1..Len(directives') : directives'[i].flag = g)
               <=> \/ g = f
                  \/ \E i \in 1..Len(directives) : directives[i].flag = g
  BY <1>2, <1>3
<1> QED BY <1>4, <1>5, <1>6

LEMMA EffectiveType == Config!TypeOK => Config!Effective \in Config!Dcfg
BY MergeType DEF Config!TypeOK, Config!Effective

\* No directive, no flag.
LEMMA MergeInit == Config!Init => Config!MergeInv
<1> SUFFICES ASSUME Config!Init PROVE Config!MergeInv
  OBVIOUS
<1>1. Config!TypeOK
  BY CreateType DEF Config!Init, Config!TypeOK
<1>2. Config!Effective = Config!Create
  BY MergeCreate, CreateType DEF Config!Init, Config!Effective
<1>3. ~\E i \in 1..Len(directives) : TRUE
  BY DEF Config!Init
<1> QED BY <1>1, <1>2, <1>3
           DEF Config!Init, Config!MergeInv, Config!InnermostWins, Config!Last,
               Config!Create

\* A directive decides its flag at once, and the end of a section or of the
\* directories regroups what is merged without changing it.
LEMMA MergeStep ==
  Config!MergeInv /\ [Config!Next]_(Config!vars) => Config!MergeInv'
<1> SUFFICES ASSUME Config!MergeInv, [Config!Next]_(Config!vars)
             PROVE  Config!MergeInv'
  OBVIOUS
<1>0. Config!TypeOK /\ Config!Effective \in Config!Dcfg
  BY EffectiveType DEF Config!MergeInv
<1>1. ASSUME NEW flag \in Config!Flag, Config!TestSession(flag)
      PROVE  Config!MergeInv'
  <2>1. Config!TypeOK'
    <3>1. section' \in Config!Dcfg
      BY <1>0, <1>1, MergeSet DEF Config!TestSession, Config!TypeOK
    <3>2. directives' \in Seq([flag : {"session", "encoder"},
                             value : Config!Flag])
      BY <1>0, <1>1 DEF Config!TestSession, Config!TypeOK
    <3> QED BY <1>0, <1>1, <3>1, <3>2 DEF Config!TestSession, Config!TypeOK
  <2>2. Config!Effective' = Config!SetSessionEnable(Config!Effective, flag)
    BY <1>0, <1>1, MergeSet, MergeType
       DEF Config!TestSession, Config!Effective, Config!TypeOK
  <2>3. /\ Config!Last("session", flag)'
        /\ \A v : Config!Last("encoder", v) => Config!Last("encoder", v)'
        /\ \E i \in 1..Len(directives') : directives'[i].flag = "session"
        /\ (\E i \in 1..Len(directives') : directives'[i].flag = "encoder")
             <=> \E i \in 1..Len(directives) : directives[i].flag = "encoder"
    <3>1. directives' = Append(directives, [flag |-> "session", value |-> flag])
      BY <1>1 DEF Config!TestSession
    <3> QED BY <1>0, <3>1, LastAppend
  <2>4. Config!Effective'.session = flag /\ Config!Effective'.session_set = 1
        /\ Config!Effective'.encoder = Config!Effective.encoder
        /\ Config!Effective'.encoder_set = Config!Effective.encoder_set
    BY <2>2 DEF Config!SetSessionEnable, Config!SetEncoderEnable
  <2>5. Config!InnermostWins'
    <3>1. /\ Config!Last("session", Config!Effective.session)
          /\ Config!Last("encoder", Config!Effective.encoder)
      BY DEF Config!MergeInv, Config!InnermostWins
    <3>2. Config!Last("session", Config!Effective.session)'
      BY <2>3, <2>4 DEF Config!Last
    <3>3. Config!Last("encoder", Config!Effective.encoder)'
      <4>1. PICK v : v = Config!Effective.encoder
        OBVIOUS
      <4>2. Config!Last("encoder", v)'
        BY <2>3, <3>1, <4>1
      <4>3. Config!Effective'.encoder = v
        BY <2>4, <4>1
      <4> QED BY <4>2, <4>3 DEF Config!Last
    <3> QED BY <3>2, <3>3 DEF Config!InnermostWins
  <2>6. \A c \in {outer', inner', section'} :
           /\ c.session_set = 0 => c.session = 0
           /\ c.encoder_set = 0 => c.encoder = 0
    <3>1. section'.session_set = 1
          /\ section'.encoder = section.encoder
          /\ section'.encoder_set = section.encoder_set
      BY <1>0, <1>1 DEF Config!TestSession, Config!SetSessionEnable
    <3> QED BY <1>1, <3>1 DEF Config!MergeInv, Config!TestSession
  <2> QED BY <2>1, <2>3, <2>4, <2>5, <2>6 DEF Config!MergeInv
<1>2. ASSUME NEW flag \in Config!Flag, Config!TestSessionEncoder(flag)
      PROVE  Config!MergeInv'
  <2>1. Config!TypeOK'
    <3>1. section' \in Config!Dcfg
      BY <1>0, <1>2, MergeSet DEF Config!TestSessionEncoder, Config!TypeOK
    <3>2. directives' \in Seq([flag : {"session", "encoder"},
                             value : Config!Flag])
      BY <1>0, <1>2 DEF Config!TestSessionEncoder, Config!TypeOK
    <3> QED BY <1>0, <1>2, <3>1, <3>2
               DEF Config!TestSessionEncoder, Config!TypeOK
  <2>2. Config!Effective' = Config!SetEncoderEnable(Config!Effective, flag)
    BY <1>0, <1>2, MergeSet, MergeType
       DEF Config!TestSessionEncoder, Config!Effective, Config!TypeOK
  <2>3. /\ Config!Last("encoder", flag)'
        /\ \A v : Config!Last("session", v) => Config!Last("session", v)'
        /\ \E i \in 1..Len(directives') : directives'[i].flag = "encoder"
        /\ (\E i \in 1..Len(directives') : directives'[i].flag = "session")
             <=> \E i \in 1..Len(directives) : directives[i].flag = "session"
    <3>1. directives' = Append(directives, [flag |-> "encoder", value |-> flag])
      BY <1>2 DEF Config!TestSessionEncoder
    <3> QED BY <1>0, <3>1, LastAppend
  <2>4. Config!Effective'.encoder = flag /\ Config!Effective'.encoder_set = 1
        /\ Config!Effective'.session = Config!Effective.session
        /\ Config!Effective'.session_set = Config!Effective.session_set
    BY <2>2 DEF Config!SetSessionEnable, Config!SetEncoderEnable
  <2>5. Config!InnermostWins'
    <3>1. /\ Config!Last("session", Config!Effective.session)
          /\ Config!Last("encoder", Config!Effective.encoder)
      BY DEF Config!MergeInv, Config!InnermostWins
    <3>2. Config!Last("encoder", Config!Effective.encoder)'
      BY <2>3, <2>4 DEF Config!Last
    <3>3. Config!Last("session", Config!Effective.session)'
      <4>1. PICK v : v = Config!Effective.session
        OBVIOUS
      <4>2. Config!Last("session", v)'
        BY <2>3, <3>1, <4>1
      <4>3. Config!Effective'.session = v
        BY <2>4, <4>1
      <4> QED BY <4>2, <4>3 DEF Config!Last
    <3> QED BY <3>2, <3>3 DEF Config!InnermostWins
  <2>6. \A c \in {outer', inner', section'} :
           /\ c.session_set = 0 => c.session = 0
           /\ c.encoder_set = 0 => c.encoder = 0
    <3>1. section'.encoder_set = 1
          /\ section'.session = section.session
          /\ section'.session_set = section.session_set
      BY <1>0, <1>2 DEF Config!TestSessionEncoder, Config!SetEncoderEnable
    <3> QED BY <1>2, <3>1 DEF Config!MergeInv, Config!TestSessionEncoder
  <2> QED BY <2>1, <2>3, <2>4, <2>5, <2>6 DEF Config!MergeInv
<1>3. CASE Config!EndSection
  <2>1. Config!TypeOK'
    BY <1>0, <1>3, MergeType, CreateType
    DEF Config!EndSection, Config!TypeOK
  <2>2. Config!Effective' = Config!Effective
    <3>1. Config!Merge(inner, section) \in Config!Dcfg
      BY <1>0, MergeType DEF Config!TypeOK
    <3> QED BY <1>3, <3>1, MergeCreate DEF Config!EndSection, Config!Effective
  <2>3. \A c \in {outer', inner', section'} :
           /\ c.session_set = 0 => c.session = 0
           /\ c.encoder_set = 0 => c.encoder = 0
    BY <1>0, <1>3
       DEF Config!MergeInv, Config!EndSection, Config!TypeOK, Config!Flag,
           Config!Or, Config!Dcfg, Config!Merge, Config!Create
  <2> QED BY <1>3, <2>1, <2>2, <2>3
             DEF Config!MergeInv, Config!EndSection, Config!InnermostWins,
                 Config!Last
<1>4. CASE Config!EndDirectories
  <2>1. Config!TypeOK'
    BY <1>0, <1>4, CreateType DEF Config!EndDirectories, Config!TypeOK
  <2>2. Config!Effective' = Config!Effective
    <3>1. inner \in Config!Dcfg /\ Config!Merge(Config!Create, inner) = inner
      BY <1>0, CreateMerge DEF Config!TypeOK, Config!MergeInv
    <3> QED BY <1>4, <3>1, MergeCreate, CreateType
               DEF Config!EndDirectories, Config!Effective
  <2>3. \A c \in {outer', inner', section'} :
           /\ c.session_set = 0 => c.session = 0
           /\ c.encoder_set = 0 => c.encoder = 0
    BY <1>4 DEF Config!MergeInv, Config!EndDirectories
  <2> QED BY <1>4, <2>1, <2>2, <2>3
         
            DEF Config!MergeInv, Config!EndDirectories, Config!InnermostWins,
                Config!Last
<1>5. CASE UNCHANGED Config!vars
  BY <1>5
     DEF Config!vars, Config!MergeInv, Config!TypeOK, Config!InnermostWins,
         Config!Effective, Config!Last
<1> QED BY <1>1, <1>2, <1>3, <1>4, <1>5 DEF Config!Next

\* The invariant of the merge, by itself.
THEOREM MergeInvariant == Config!Spec => []Config!MergeInv
BY MergeInit, MergeStep, PTL DEF Config!Spec

\* What a request is served with is what the innermost section that mentions
\* the flag says.
THEOREM InnermostSectionWins == Config!Spec => []Config!InnermostWins
<1>1. Config!MergeInv => Config!InnermostWins
  BY DEF Config!MergeInv
<1> QED BY <1>1, MergeInvariant, PTL

-----------------------------------------------------------------------------
(* The forms and the entries. *)

\* Every nonempty set of naturals has a least member.
LEMMA LeastNatural ==
  ASSUME NEW T, T \subseteq Nat, T # {}
  PROVE  \E x \in T : \A y \in T : x <= y
<1> DEFINE R == OpToRel(<, Nat)
<1>1. \E x \in T : \A y \in T : ~(<<y, x>> \in R)
  <2>1. IsWellFoundedOn(R, Nat)
    BY NatLessThanWellFounded
  <2> HIDE DEF R
  <2> QED BY <2>1, WFMin
<1>2. \A x, y \in Nat : y < x => <<y, x>> \in R
  BY DEF OpToRel
<1> HIDE DEF R
<1>3. \A x, y \in Nat : ~(y < x) => x <= y
  OBVIOUS
<1> QED BY <1>1, <1>2, <1>3

\* The handler finds the value of a field that the form has, and no other.
LEMMA FirstIsAValue ==
  ASSUME NEW field
  PROVE  \/ /\ First(field) = Unset
            /\ \A i \in 1..Len(req.form) : req.form[i].field # field
         \/ \E i \in 1..Len(req.form) : /\ req.form[i].field = field
                                        /\ First(field) = req.form[i].value
<1> DEFINE at == {i \in 1..Len(req.form) : req.form[i].field = field}
<1>1. CASE at = {}
  BY <1>1 DEF First
<1>2. CASE at # {}
  <2>1. at \subseteq Nat
    OBVIOUS
  <2>2. \E i \in at : \A j \in at : i <= j
    <3> HIDE DEF at
    <3> QED BY <1>2, <2>1, LeastNatural
  <2> DEFINE least == CHOOSE i \in at : \A j \in at : i <= j
  <2>3. least \in at
    <3> HIDE DEF at
    <3> QED BY <2>2
  <2>4. First(field) = req.form[least].value
    BY <1>2 DEF First
  <2> QED BY <2>3, <2>4
<1> QED BY <1>1, <1>2

\* What the first fields of a name hold.
LEMMA FirstTypes ==
  ASSUME req \in Requests
  PROVE  /\ ~BadForm => First("name") \in Name
         /\ First("value") \in Value \cup {Unset}
<1>1. ASSUME ~BadForm PROVE First("name") \in Name
  <2>1. req.form # <<>>
    <3>1. ASSUME req.form = <<>> PROVE FALSE
      <4>1. ~\E i \in 1..Len(req.form) : TRUE
        BY <3>1
      <4> QED BY <1>1, <4>1, FirstIsAValue DEF BadForm
    <3> QED BY <3>1
  <2>2. req.form \in Forms
    BY <2>1 DEF Requests
  <2> QED BY <2>2, FirstIsAValue, SessionAssumption, ZenonT(60)
<1>2. First("value") \in Value \cup {Unset}
  <2>1. CASE req.form \in Forms
    <3>1. \A i \in 1..Len(req.form) :
            req.form[i].field = "value" => req.form[i].value \in Value
      BY <2>1, SessionAssumption
    <3>2. \/ First("value") = Unset
          \/ \E i \in 1..Len(req.form) : /\ req.form[i].field = "value"
                                        /\ First("value") = req.form[i].value
      BY FirstIsAValue
    <3> QED BY <3>1, <3>2
  <2>2. CASE req.form = <<>>
    <3>0. Len(req.form) = 0
      BY <2>2
    <3>1. ~\E i \in 1..Len(req.form) : TRUE
      BY <3>0
    <3> QED BY <3>1, FirstIsAValue
  <2> QED BY <2>1, <2>2 DEF Requests
<1> QED BY <1>1, <1>2

\* Normal and Overlay on the entries: the empty value is dropped before or after
\* one set of entries is laid over another.
LEMMA EntriesTypes ==
  /\ Blank \in Entries
  /\ Normal(Blank) = Blank
  /\ \A d \in Entries : Normal(d) \in Entries /\ Normal(Normal(d)) = Normal(d)
  /\ \A d, o \in Entries :
       /\ Overlay(d, o) \in Entries
       /\ Normal(Overlay(d, Normal(o))) = Overlay(Normal(d), Normal(o))
  /\ \A d \in Entries : Overlay(d, Blank) = d /\ Overlay(Blank, d) = d
<1>1. Blank \in Entries /\ Normal(Blank) = Blank
  BY SessionAssumption DEF Blank, Entries, Normal
<1>2. \A d \in Entries : Normal(d) \in Entries /\ Normal(Normal(d)) = Normal(d)
  BY SessionAssumption DEF Entries, Normal
<1>3. \A d, o \in Entries : Overlay(d, o) \in Entries
  BY SessionAssumption DEF Entries, Overlay
<1>4. \A d, o \in Entries : Normal(Overlay(d, Normal(o))) = Overlay(Normal(d), Normal(o))
  BY SessionAssumption, ZenonT(60) DEF Entries, Overlay, Normal
<1>5. \A d \in Entries : Overlay(d, Blank) = d /\ Overlay(Blank, d) = d
  BY SessionAssumption DEF Entries, Overlay, Blank
<1> QED BY <1>1, <1>2, <1>3, <1>4, <1>5

\* The handler takes an action for what it means.
LEMMA Meanings ==
  \A a : /\ Meaning(a) \in {"get", "set", "none"}
         /\ IsGet(a) <=> Meaning(a) = "get"
         /\ IsSet(a) <=> Meaning(a) = "set"
BY DEF Meaning, IsGet, IsSet

\* It finds the field that counts, and refuses what cannot be understood.
LEMMA HandlerUnderstands ==
  /\ \A f : Told(f) = First(f)
  /\ Understood <=> IsPost /\ ~BadForm
  /\ Understood => IsGet(First("action")) \/ IsSet(First("action"))
  /\ Changed <=> IsPost /\ ~BadForm /\ IsSet(First("action"))
<1>1. \A f : Told(f) = First(f)
  BY DEF Told, First
<1>2. Understood <=> IsPost /\ ~BadForm
  BY <1>1, Meanings DEF Understood, IsPost, BadForm
<1>3. Understood => IsGet(First("action")) \/ IsSet(First("action"))
  BY <1>2, FirstIsAValue DEF BadForm
<1>4. Changed <=> IsPost /\ ~BadForm /\ IsSet(First("action"))
  BY <1>1, <1>2, Meanings DEF Changed
<1> QED BY <1>1, <1>2, <1>3, <1>4

\* What a request asks of a session that works.
LEMMA Asked ==
  ASSUME Works, pc # "idle"
  PROVE  /\ Asks \in {"look", "get", "set"}
         /\ Asks = "set" <=> Changed /\ ~req.garbled
         /\ Asks = "get" <=> /\ IsPost /\ ~BadForm /\ IsGet(First("action"))
                             /\ ~req.garbled
<1>1. /\ Understood => Meaning(Told("action")) \in {"get", "set"}
      /\ IsGet(First("action")) <=> Meaning(Told("action")) = "get"
  BY HandlerUnderstands, Meanings
<1> QED BY <1>1, HandlerUnderstands DEF Asks, Changed

\* A session string is NULL or has a prefix, present or not.
LEMMA NullFacts ==
  /\ Null \in Strings /\ Null.prefix # 0 /\ Null.prefix # 1 /\ Null.data = Blank
  /\ \A s \in Strings : s.data \in Entries /\ (s = Null \/ s.prefix \in {0, 1})
<1>1. Null.prefix # 0 /\ Null.prefix # 1 /\ Null.data = Blank
  BY DEF Null
<1>2. Null \in Strings
  BY DEF Strings
<1>3. \A s \in Strings : s.data \in Entries
  BY <1>1, EntriesTypes DEF Strings
<1>4. \A s \in Strings : s = Null \/ s.prefix \in {0, 1}
  BY DEF Strings
<1> QED BY <1>1, <1>2, <1>3, <1>4

\* What the decode hooks make of a session that they do not refuse.
LEMMA Decoded ==
  ASSUME NEW h \in Sessions, ~DecodeFails(h)
  PROVE  LET d == IdentityDecode(TestDecode(h))
         IN  /\ d \in Sessions
             /\ d.made = h.made /\ d.dirty = h.dirty /\ d.encoded = Null
             /\ d.entries = IF ~conf.encoder /\ h.encoded.prefix = 1 THEN h.entries
                            ELSE Overlay(h.entries, Normal(h.encoded.data))
<1> DEFINE t == TestDecode(h)
<1>0. h.encoded \in Strings /\ h.entries \in Entries
  BY DEF Sessions
<1>1. /\ t.made = h.made /\ t.dirty = h.dirty /\ t.entries = h.entries
      /\ t.encoded.data = h.encoded.data
      /\ t.encoded.prefix = 1 <=> ~conf.encoder /\ h.encoded.prefix = 1
      /\ t = [made |-> t.made, encoded |-> t.encoded,
              entries |-> t.entries, dirty |-> t.dirty]
  <2>1. CASE conf.encoder /\ h.encoded.prefix = 1
    <3>1. h.encoded \in [prefix : {0, 1}, data : Entries]
      BY <1>0, <2>1, NullFacts DEF Strings
    <3>2. t = [h EXCEPT !.encoded.prefix = 0]
      BY <2>1 DEF TestDecode
    <3> HIDE DEF t
    <3>3. t.encoded = [prefix |-> 0, data |-> h.encoded.data]
      BY <3>1, <3>2 DEF Sessions
    <3>4. t.made = h.made /\ t.dirty = h.dirty /\ t.entries = h.entries
      BY <3>2 DEF Sessions
    <3>5. t = [made |-> t.made, encoded |-> t.encoded,
              entries |-> t.entries, dirty |-> t.dirty]
      BY <3>2 DEF Sessions
    <3> QED BY <2>1, <3>3, <3>4, <3>5
  <2>2. CASE ~(conf.encoder /\ h.encoded.prefix = 1)
    <3>1. t = h
      BY <2>2 DEF TestDecode
    <3>2. ~conf.encoder \/ h.encoded.prefix # 1
      BY <2>2
    <3>3. t = [made |-> t.made, encoded |-> t.encoded,
              entries |-> t.entries, dirty |-> t.dirty]
      BY <3>1 DEF Sessions
    <3> HIDE DEF t
    <3> QED BY <3>1, <3>2, <3>3
  <2> QED BY <2>1, <2>2
<1> DEFINE d == IdentityDecode(t)
<1>2. /\ d.made = t.made /\ d.dirty = t.dirty /\ d.encoded = Null
      /\ d.entries = IF t.encoded.prefix = 1 THEN t.entries
                     ELSE Overlay(t.entries, Normal(t.encoded.data))
      /\ d = [made |-> d.made, encoded |-> d.encoded,
              entries |-> d.entries, dirty |-> d.dirty]
  <2> DEFINE e == IF t.encoded.prefix = 1 THEN t.entries
                  ELSE Overlay(t.entries, Normal(t.encoded.data))
  <2>1. d = [t EXCEPT !.entries = e, !.encoded = Null]
    BY DEF IdentityDecode
  <2>2. t = [made |-> t.made, encoded |-> t.encoded,
              entries |-> t.entries, dirty |-> t.dirty]
    BY <1>1
  <2> HIDE DEF t, d, e
  <2>3. d = [made |-> t.made, encoded |-> Null, entries |-> e, dirty |-> t.dirty]
    BY <2>1, <2>2
  <2> QED BY <2>3 DEF e
<1> HIDE DEF t
<1>3. d.entries = IF ~conf.encoder /\ h.encoded.prefix = 1 THEN h.entries
                  ELSE Overlay(h.entries, Normal(h.encoded.data))
  <2> HIDE DEF d
  <2> QED BY <1>1, <1>2
<1>4. d.entries \in Entries
  <2> HIDE DEF d
  <2> QED BY <1>0, <1>3, NullFacts, EntriesTypes
<1>5. d \in Sessions
  <2>1. h.made \in BOOLEAN /\ h.dirty \in BOOLEAN
    BY DEF Sessions
  <2> HIDE DEF d
  <2> QED BY <1>1, <1>2, <1>4, <2>1, NullFacts DEF Sessions
<1>6. d.made = h.made /\ d.dirty = h.dirty /\ d.encoded = Null
  <2> HIDE DEF d
  <2> QED BY <1>1, <1>2
<1> QED BY <1>3, <1>5, <1>6 DEF t

\* A new session, and none.
LEMMA NoSessionType ==
  /\ NoSession \in Sessions /\ NoSession.made = FALSE
  /\ \A s \in Strings : /\ NewSession(s) \in Sessions
                        /\ NewSession(s).made = TRUE /\ NewSession(s).dirty = FALSE
                        /\ NewSession(s).encoded = s /\ NewSession(s).entries = Blank
<1>1. \A s \in Strings : /\ NewSession(s) \in Sessions
                        /\ NewSession(s).made = TRUE /\ NewSession(s).dirty = FALSE
                        /\ NewSession(s).encoded = s /\ NewSession(s).entries = Blank
  BY EntriesTypes DEF NewSession, Sessions
<1>2. NoSession \in Sessions /\ NoSession.made = FALSE
  BY EntriesTypes, NullFacts DEF NoSession, NewSession, Sessions
<1> QED BY <1>1, <1>2

\* The session of a request once it is there.
LEMMA Hook ==
  ASSUME TypeOK
  PROVE  /\ LoadHook \in Sessions /\ LoadHook.made = TRUE
         /\ notes.made => LoadHook = notes
         /\ ~notes.made => LoadHook = NewSession(jar)
<1>1. notes \in Sessions /\ jar \in Strings
  BY DEF TypeOK
<1>2. notes.made \in BOOLEAN
  BY <1>1 DEF Sessions
<1>3. CASE notes.made
  BY <1>1, <1>2, <1>3 DEF LoadHook
<1>4. CASE ~notes.made
  BY <1>1, <1>4, NoSessionType DEF LoadHook
<1> QED BY <1>3, <1>4

\* The ways a load can end.
LEMMA LoadCases ==
  ASSUME TypeOK
  PROVE  \/ /\ Loaded \in {"off", "error", "bad request"}
            /\ NotesAfterLoad = notes
            /\ ~conf.enabled \/ ~conf.session \/ (~notes.made /\ req.garbled)
            /\ conf.enabled /\ conf.session => Loaded = "bad request"
         \/ /\ Loaded = "blank"
            /\ NotesAfterLoad = LoadHook
            /\ conf.encoder /\ LoadHook.encoded.prefix = 0
            /\ conf.enabled /\ conf.session /\ (notes.made \/ ~req.garbled)
         \/ /\ Loaded = "notes"
            /\ NotesAfterLoad = IdentityDecode(TestDecode(LoadHook))
            /\ ~DecodeFails(LoadHook)
            /\ conf.enabled /\ conf.session /\ (notes.made \/ ~req.garbled)
BY DEF Loaded, NotesAfterLoad, LoadFails, DecodeFails

\* A load leaves a session.
LEMMA LoadType ==
  ASSUME TypeOK
  PROVE  NotesAfterLoad \in Sessions
<1>1. notes \in Sessions
  BY DEF TypeOK
<1> QED BY <1>1, LoadCases, Hook, Decoded

\* Any load before the save leaves what the parts of the invariant say.
AfterLoad(m) ==
  LET loads == conf.fns /\ conf.enabled /\ conf.session /\ ~req.garbled
  IN  /\ IF m.made THEN loads ELSE m = NoSession
      /\ pc = "handled" /\ Changed /\ loads => m.made
      /\ m.made => /\ m.encoded = IF Readable THEN Null ELSE jar
                   /\ m.dirty <=> pc = "handled" /\ Changed /\ Readable
      /\ Works => \/ m.encoded = Null
                  \/ m.encoded.prefix = IF conf.encoder THEN 1 ELSE 0
      /\ Works /\ m.made /\ pc = "fixups" => m.entries = Normal(jar.data)
      /\ Works /\ m.made /\ pc = "handled" => m.entries = Applied

LEMMA LoadKeeps ==
  ASSUME SessionInv, pc \in {"fixups", "handled"}, conf.fns
  PROVE  /\ AfterLoad(NotesAfterLoad)
         /\ Loaded = "notes" => NotesAfterLoad.made /\ Readable
         /\ Loaded = "blank" => ~Readable
<1>0. /\ TypeOK /\ NothingCarried /\ MadeByLoad /\ NotesBeforeSave
      /\ OwnStrings /\ EntriesOfRequest
  BY DEF SessionInv
<1>1. jar \in Strings /\ notes \in Sessions
  BY <1>0 DEF TypeOK
<1>a. AfterLoad(notes)
  BY <1>0 DEF AfterLoad, MadeByLoad, NotesBeforeSave, OwnStrings, EntriesOfRequest
<1>2. CASE Loaded \in {"off", "error", "bad request"}
  BY <1>0, <1>a, <1>2, LoadCases
<1>3. CASE Loaded = "blank"
  <2>1. /\ NotesAfterLoad = LoadHook
        /\ conf.encoder /\ LoadHook.encoded.prefix = 0
        /\ conf.enabled /\ conf.session /\ (notes.made \/ ~req.garbled)
    BY <1>0, <1>3, LoadCases
  <2>2. CASE notes.made
    <3>1. NotesAfterLoad = notes
      BY <1>0, <2>1, <2>2, Hook
    <3>2. ~Readable
      BY <1>0, <2>1, <2>2, <3>1, NullFacts DEF NotesBeforeSave, Readable
    <3> QED BY <1>3, <1>a, <3>1, <3>2
  <2>3. CASE ~notes.made
    <3>1. NotesAfterLoad = NewSession(jar)
      BY <1>0, <2>1, <2>3, Hook
    <3>2. /\ NotesAfterLoad.encoded = jar
          /\ NotesAfterLoad.made = TRUE /\ NotesAfterLoad.dirty = FALSE
      BY <1>1, <3>1, NoSessionType
    <3>3. ~Readable
      BY <2>1, <3>1, <3>2 DEF Readable
    <3>4. ~Works
      BY <1>0, <2>1, <3>2, <3>1, NullFacts DEF OwnStrings
    <3> QED BY <1>3, <2>1, <2>3, <3>2, <3>3, <3>4 DEF AfterLoad
  <2> QED BY <2>2, <2>3
<1>4. CASE Loaded = "notes"
  <2>1. /\ NotesAfterLoad = IdentityDecode(TestDecode(LoadHook))
        /\ ~DecodeFails(LoadHook)
        /\ conf.enabled /\ conf.session /\ (notes.made \/ ~req.garbled)
    BY <1>0, <1>4, LoadCases
  <2>2. /\ NotesAfterLoad.made = LoadHook.made /\ NotesAfterLoad.dirty = LoadHook.dirty
        /\ NotesAfterLoad.encoded = Null
        /\ NotesAfterLoad.entries =
             IF ~conf.encoder /\ LoadHook.encoded.prefix = 1 THEN LoadHook.entries
             ELSE Overlay(LoadHook.entries, Normal(LoadHook.encoded.data))
    BY <1>0, <2>1, Hook, Decoded
  <2>3. CASE notes.made
    <3>0. LoadHook = notes /\ LoadHook.made = TRUE
      BY <1>0, <2>3, Hook
    <3>1. Readable
      BY <1>0, <2>1, <2>3, <3>0 DEF NotesBeforeSave, Readable, DecodeFails
    <3>2. notes.encoded = Null
      BY <1>0, <2>3, <3>1 DEF NotesBeforeSave
    <3>3. NotesAfterLoad.entries = notes.entries
      <4>1. notes.entries \in Entries
        BY <1>1 DEF Sessions
      <4> QED BY <2>2, <3>0, <3>2, <4>1, NullFacts, EntriesTypes
    <3> DEFINE m == NotesAfterLoad
    <3>4. m.made = TRUE /\ notes.made = TRUE /\ m.dirty = notes.dirty
          /\ m.encoded = notes.encoded /\ m.entries = notes.entries
      BY <2>2, <3>0, <3>2, <3>3
    <3> HIDE DEF m
    <3>5. AfterLoad(m)
      BY <1>a, <3>4 DEF AfterLoad
    <3> QED BY <1>4, <3>1, <3>4, <3>5 DEF m
  <2>4. CASE ~notes.made
    <3>0. LoadHook = NewSession(jar) /\ LoadHook.made = TRUE
      BY <1>0, <2>4, Hook
    <3>1. LoadHook.encoded = jar /\ LoadHook.dirty = FALSE /\ LoadHook.entries = Blank
      BY <1>1, <3>0, NoSessionType
    <3>2. Readable
      BY <2>1, <3>1 DEF Readable, DecodeFails
    <3>3. ~(pc = "handled" /\ Changed)
      BY <1>0, <2>1, <2>4 DEF MadeByLoad
    <3>4. ASSUME Works
          PROVE  NotesAfterLoad.entries = Normal(jar.data)
      <4>1. ~(~conf.encoder /\ jar.prefix = 1)
        BY <1>0, <3>4, NullFacts DEF OwnStrings
      <4>2. Normal(jar.data) \in Entries
        BY <1>1, NullFacts, EntriesTypes
      <4> QED BY <2>2, <3>1, <4>1, <4>2, EntriesTypes
    <3>5. Works /\ pc = "handled" => Applied = Normal(jar.data)
      BY <3>3, Asked DEF Applied
    <3> DEFINE m == NotesAfterLoad
    <3>6. m.made = TRUE /\ m.dirty = FALSE /\ m.encoded = Null
      BY <2>2, <3>0, <3>1
    <3>7. ~req.garbled
      BY <2>1, <2>4
    <3> HIDE DEF m
    <3>8. AfterLoad(m)
      BY <2>1, <3>2, <3>3, <3>4, <3>5, <3>6, <3>7 DEF AfterLoad, m
    <3> QED BY <1>4, <3>2, <3>6, <3>8 DEF m
  <2> QED BY <2>3, <2>4
<1> QED BY <1>0, <1>2, <1>3, <1>4, LoadCases

\* An encoder's own strings are never refused, at any point of a request.
LEMMA OwnAfterLoad ==
  ASSUME TypeOK, OwnStrings, Works
  PROVE  /\ Loaded # "blank"
         /\ \/ NotesAfterLoad.encoded = Null
            \/ NotesAfterLoad.encoded.prefix = IF conf.encoder THEN 1 ELSE 0
<1>1. jar \in Strings /\ notes \in Sessions
  BY DEF TypeOK
<1>2. \/ LoadHook.encoded = Null
      \/ LoadHook.encoded.prefix = IF conf.encoder THEN 1 ELSE 0
  <2>1. CASE notes.made
    BY <2>1, Hook DEF OwnStrings
  <2>2. CASE ~notes.made
    <3>1. LoadHook.encoded = jar
      BY <1>1, <2>2, Hook, NoSessionType
    <3> QED BY <3>1 DEF OwnStrings
  <2> QED BY <2>1, <2>2
<1>3. ASSUME Loaded = "blank" PROVE FALSE
  <2>1. conf.encoder /\ LoadHook.encoded.prefix = 0
    BY <1>3, LoadCases
  <2> QED BY <1>2, <2>1, NullFacts
<1>4. CASE Loaded = "notes"
  <2>1. NotesAfterLoad.encoded = Null
    BY <1>4, LoadCases, Hook, Decoded
  <2> QED BY <1>3, <2>1
<1>5. CASE Loaded \in {"off", "error", "bad request"}
  BY <1>3, <1>5, LoadCases DEF OwnStrings
<1> QED BY <1>3, <1>4, <1>5, LoadCases

\* What depends on the request and the client's string alone.
LEMMA SameRequest ==
  ASSUME UNCHANGED <<conf, jar, req>>
  PROVE  /\ Changed' = Changed /\ Works' = Works /\ Readable' = Readable
         /\ AskedOver' = AskedOver
         /\ pc # "idle" /\ pc' # "idle" => Asks' = Asks /\ Applied' = Applied
<1>1. \A f : Told(f)' = Told(f)
  BY DEF Told
<1>2. Understood' = Understood
  BY <1>1 DEF Understood
<1>3. Changed' = Changed /\ Works' = Works /\ Readable' = Readable
  BY <1>1, <1>2 DEF Changed, Works, Readable
<1>4. AskedOver' = AskedOver
  BY DEF AskedOver, Works, Normal
<1>5. ASSUME pc # "idle", pc' # "idle" PROVE Asks' = Asks /\ Applied' = Applied
  <2>1. Asks' = Asks
    BY <1>1, <1>2, <1>3, <1>5 DEF Asks
  <2>2. Normal(jar.data)' = Normal(jar.data)
    BY DEF Normal
  <2> QED BY <1>1, <2>1, <2>2 DEF Applied
<1> QED BY <1>3, <1>4, <1>5

\* What is saved is a session, and the string made of it is not NULL.
LEMMA SessionType ==
  ASSUME TypeOK
  PROVE  /\ Session \in Sessions
         /\ TestEncode([prefix |-> 0, data |-> Session.entries])
              = [prefix |-> IF conf.encoder THEN 1 ELSE 0, data |-> Session.entries]
         /\ TestEncode([prefix |-> 0, data |-> Session.entries]) \in Strings \ {Null}
<1> DEFINE z == IF Loaded = "notes" THEN NotesAfterLoad ELSE NewSession(Null)
<1>1. z \in Sessions
  BY LoadType, NoSessionType, NullFacts
<1>2. Normal(req.override) \in Entries
  <2>1. req.override \in Entries
    BY SessionAssumption, EntriesTypes DEF TypeOK, Requests, Entries
  <2> QED BY <2>1, EntriesTypes
<1>3. Session = IF req.override = Blank THEN z
                ELSE [z EXCEPT !.entries = Overlay(z.entries, Normal(req.override)),
                               !.dirty = TRUE]
  BY DEF Session
<1>4. Session \in Sessions
  <2>1. z.entries \in Entries
    <3> HIDE DEF z
    <3> QED BY <1>1 DEF Sessions
  <2> DEFINE e == Overlay(z.entries, Normal(req.override))
  <2>2. e \in Entries
    BY <1>2, <2>1, EntriesTypes
  <2>3. Session = IF req.override = Blank THEN z
                  ELSE [z EXCEPT !.entries = e, !.dirty = TRUE]
    BY <1>3
  <2> HIDE DEF z, e
  <2>4. [z EXCEPT !.entries = e, !.dirty = TRUE] \in Sessions
    BY <1>1, <2>2 DEF Sessions
  <2> QED BY <1>1, <2>3, <2>4
<1>5. Session.entries \in Entries
  BY <1>4 DEF Sessions
<1>6. conf.encoder \in BOOLEAN
  BY DEF TypeOK
<1>7. TestEncode([prefix |-> 0, data |-> Session.entries])
        = [prefix |-> IF conf.encoder THEN 1 ELSE 0, data |-> Session.entries]
  BY <1>6 DEF TestEncode
<1>8. [prefix |-> IF conf.encoder THEN 1 ELSE 0, data |-> Session.entries]
        \in Strings \ {Null}
  BY <1>5, NullFacts DEF Strings
<1> QED BY <1>4, <1>7, <1>8

\* The answers of a get.
LEMMA GetAnswers ==
  ASSUME Get
  PROVE  /\ code' \in {"OK", "bad request", "not found", "error"}
         /\ Loaded # "notes" => body' = Unset
         /\ Loaded = "notes" =>
              \/ body' = notes'.entries[First("name")]
              \/ notes'.entries[First("name")] = "" /\ body' = Unset
<1> DEFINE value == IF Loaded = "notes" THEN notes'.entries[First("name")]
                                        ELSE Unset
<1>1. \/ Loaded \in {"error", "bad request"} /\ Answered(Loaded, Unset)
      \/ value = Unset /\ Answered("not found", Unset)
      \/ value = "" /\ Answered("error", Unset)
      \/ /\ Loaded \notin {"error", "bad request"}
         /\ value # Unset /\ value # ""
         /\ Answered("OK", value)
  BY DEF Get
<1>2. CASE Loaded = "notes"
  BY <1>1, <1>2 DEF Answered
<1>3. CASE Loaded # "notes"
  <2>1. value = Unset
    BY <1>3
  <2> HIDE DEF value
  <2> QED BY <1>1, <1>3, <2>1 DEF Answered
<1> QED BY <1>2, <1>3

\* Every step keeps the types.
LEMMA TypeStep == SessionInv /\ [Next]_vars => TypeOK'
<1> SUFFICES ASSUME TypeOK, [Next]_vars PROVE TypeOK'
  BY DEF SessionInv
<1>0. NotesAfterLoad \in Sessions /\ NoSession \in Sessions /\ Null \in Strings
  BY LoadType, NoSessionType, NullFacts
<1>1. ASSUME NEW r \in Requests, Begin(r) PROVE TypeOK'
  BY <1>0, <1>1 DEF Begin, TypeOK
<1>2. CASE SomeLoad
  BY <1>0, <1>2 DEF SomeLoad, TypeOK
<1>3. CASE HandleOther
  BY <1>3 DEF HandleOther, TypeOK, Answered
<1>4. CASE Get
  <2>1. Loaded = "notes" => notes'.entries[First("name")] \in Value \cup {Unset}
    <3>1. First("name") \in Name
      BY <1>4, FirstTypes DEF Get, TypeOK
    <3> QED BY <1>0, <1>4, <3>1 DEF Get, Sessions, Entries
  <2>2. /\ body' \in Value \cup {Unset}
        /\ code' \in {"OK", "bad request", "not found", "error"}
    BY <1>4, <2>1, GetAnswers
  <2>3. pc' = "handled"
    BY <1>4 DEF Get, Answered
  <2> QED BY <1>0, <1>4, <2>2, <2>3 DEF Get, TypeOK
<1>5. CASE Set
  <2> DEFINE m == NotesAfterLoad
             f == First("name")
             v == First("value")
  <2>1. f \in Name /\ v \in Value \cup {Unset}
    BY <1>5, FirstTypes DEF Set, TypeOK
  <2>2. notes' = IF Loaded = "notes"
                   THEN [m EXCEPT !.dirty = TRUE, !.entries[f] = v] ELSE m
    BY <1>5 DEF Set
  <2>3. m \in Sessions
    BY <1>0
  <2>4. notes' \in Sessions
    <3> HIDE DEF m, f, v
    <3>1. [m.entries EXCEPT ![f] = v] \in Entries
      BY <2>1, <2>3 DEF Sessions, Entries
    <3> QED BY <2>2, <2>3, <3>1 DEF Sessions
  <2>5. Loaded \in {"off", "error", "bad request", "blank", "notes"}
    BY LoadCases
  <2> QED BY <1>5, <2>4, <2>5 DEF Set, TypeOK, Answered
<1>6. CASE Save
  <2>1. saved' \in Strings
    BY <1>6, SessionType DEF Save
  <2>2. /\ [Session EXCEPT !.encoded = saved'] \in Sessions
        /\ Session.dirty \in BOOLEAN
    BY <2>1, SessionType DEF Sessions
  <2> QED BY <1>0, <1>6, <2>1, <2>2 DEF Save, TypeOK
<1>7. CASE SaveSkipped
  BY <1>7 DEF SaveSkipped, TypeOK
<1>8. CASE Respond
  <2>1. jar' \in Strings
    BY <1>8 DEF Respond, TypeOK
  <2>2. req' \in Requests
    BY <1>8 DEF Respond, NoRequest, Requests
  <2> QED BY <1>0, <1>8, <2>1, <2>2 DEF Respond, TypeOK
<1>9. CASE UNCHANGED vars
  BY <1>9, ZenonT(60) DEF vars, TypeOK
<1> QED BY <1>1, <1>2, <1>3, <1>4, <1>5, <1>6, <1>7, <1>8, <1>9 DEF Next

\* The rest of the invariant, without the types.
SessionParts ==
  /\ NothingCarried /\ MadeByLoad /\ NotesBeforeSave /\ OwnStrings
  /\ EntriesOfRequest /\ DirtyIsChanged

\* Every step keeps the other parts: one lemma for each action.
LEMMA BeginStep ==
  ASSUME SessionInv, NEW r \in Requests, Begin(r)
  PROVE  SessionParts'
<1>1. /\ TypeOK /\ NothingCarried /\ OwnStrings
      /\ pc = "idle" /\ pc' = "fixups" /\ notes' = NoSession
      /\ UNCHANGED <<conf, jar, body, saved>>
  BY DEF Begin, SessionInv
<1>2. notes'.made = FALSE /\ notes'.encoded = Null
  BY <1>1, NoSessionType DEF NoSession, NewSession
<1>3. NothingCarried' /\ MadeByLoad' /\ NotesBeforeSave' /\ DirtyIsChanged'
  BY <1>1, <1>2 DEF NothingCarried, MadeByLoad, NotesBeforeSave, DirtyIsChanged
<1>4. OwnStrings'
  BY <1>1, <1>2 DEF OwnStrings, Works
<1>5. EntriesOfRequest'
  BY <1>1, <1>2 DEF EntriesOfRequest
<1> QED BY <1>3, <1>4, <1>5 DEF SessionParts

LEMMA SomeLoadStep ==
  ASSUME SessionInv, SomeLoad
  PROVE  SessionParts'
<1>1. /\ TypeOK /\ SessionParts /\ conf.fns
      /\ pc \in {"fixups", "handled", "saved"}
      /\ notes' = NotesAfterLoad
      /\ UNCHANGED <<conf, jar, req, pc, code, body, saved, dirty, answer>>
  BY DEF SomeLoad, SessionInv, SessionParts
<1>2. /\ Changed' = Changed /\ Works' = Works /\ Readable' = Readable
      /\ AskedOver' = AskedOver /\ Asks' = Asks /\ Applied' = Applied
      /\ Normal(jar.data)' = Normal(jar.data) /\ Told("name")' = Told("name")
  BY <1>1, SameRequest DEF Normal, Told
<1>3. NothingCarried'
  BY <1>1 DEF NothingCarried, SessionParts
<1>4. DirtyIsChanged'
  BY <1>1, <1>2 DEF DirtyIsChanged, SessionParts
<1>5. OwnStrings'
  BY <1>1, <1>2, OwnAfterLoad DEF OwnStrings, SessionParts
<1>6. CASE pc # "saved"
  <2>1. AfterLoad(notes')
    BY <1>1, <1>6, LoadKeeps
  <2>2. MadeByLoad' /\ NotesBeforeSave'
    BY <1>1, <1>2, <2>1 DEF AfterLoad, MadeByLoad, NotesBeforeSave
  <2>3. EntriesOfRequest'
    BY <1>1, <1>2, <1>6, <2>1 DEF AfterLoad, EntriesOfRequest, SessionParts
  <2> QED BY <1>3, <1>4, <1>5, <2>2, <2>3 DEF SessionParts
<1>7. CASE pc = "saved"
  <2>1. IF notes'.made THEN conf.fns /\ conf.enabled /\ conf.session /\ ~req.garbled
                       ELSE notes' = NoSession
    <3>1. CASE notes' = notes
      BY <1>1, <3>1 DEF SessionParts, MadeByLoad
    <3>2. CASE notes' # notes
      <4>1. Loaded \in {"blank", "notes"}
        BY <1>1, <3>2, LoadCases
      <4>2. conf.enabled /\ conf.session /\ (notes.made \/ ~req.garbled)
        BY <1>1, <4>1, LoadCases
      <4>3. notes'.made = TRUE
        BY <1>1, <4>1, LoadCases, Hook, Decoded
      <4>4. ~req.garbled
        BY <1>1, <4>2 DEF SessionParts, MadeByLoad
      <4> QED BY <1>1, <4>2, <4>3, <4>4
    <3> QED BY <3>1, <3>2
  <2>2. MadeByLoad' /\ NotesBeforeSave'
    BY <1>1, <1>7, <2>1 DEF MadeByLoad, NotesBeforeSave
  <2>3. EntriesOfRequest'
    BY <1>1, <1>2, <1>7 DEF EntriesOfRequest, SessionParts
  <2> QED BY <1>3, <1>4, <1>5, <2>2, <2>3 DEF SessionParts
<1> QED BY <1>6, <1>7

LEMMA HandleOtherStep ==
  ASSUME SessionInv, HandleOther
  PROVE  SessionParts'
<1>1. /\ TypeOK /\ SessionParts /\ pc = "fixups" /\ pc' = "handled" /\ body' = Unset
      /\ UNCHANGED <<conf, jar, req, notes, saved, dirty, answer>>
      /\ ~IsPost \/ ~conf.fns \/ BadForm
  BY DEF HandleOther, Answered, SessionInv, SessionParts
<1>2. /\ Changed' = Changed /\ Works' = Works /\ Readable' = Readable
      /\ Asks' = Asks
      /\ Normal(jar.data)' = Normal(jar.data)
  BY <1>1, SameRequest DEF Normal
<1>3. ~conf.fns \/ ~Changed
  BY <1>1, HandlerUnderstands
<1>4. NothingCarried' /\ DirtyIsChanged'
  BY <1>1 DEF NothingCarried, DirtyIsChanged, SessionParts
<1>5. OwnStrings'
  BY <1>1, <1>2 DEF OwnStrings, SessionParts
<1>6. MadeByLoad'
  BY <1>1, <1>2, <1>3 DEF MadeByLoad, SessionParts
<1>7. NotesBeforeSave'
  <2>1. ~(notes.made /\ Changed)
    BY <1>1, <1>3 DEF MadeByLoad, SessionParts
  <2> QED BY <1>1, <1>2, <2>1 DEF NotesBeforeSave, SessionParts
<1>8. EntriesOfRequest'
  <2>1. Works => Asks = "look"
    BY <1>1, <1>3, Asked DEF Works
  <2>2. Works => Applied' = Normal(jar.data)
    BY <1>2, <2>1 DEF Applied
  <2> QED BY <1>1, <1>2, <2>1, <2>2 DEF EntriesOfRequest, SessionParts
<1> QED BY <1>4, <1>5, <1>6, <1>7, <1>8 DEF SessionParts

LEMMA GetStep ==
  ASSUME SessionInv, Get
  PROVE  SessionParts'
<1>1. /\ TypeOK /\ SessionParts /\ pc = "fixups" /\ pc' = "handled" /\ conf.fns
      /\ IsPost /\ ~BadForm /\ IsGet(First("action"))
      /\ notes' = NotesAfterLoad
      /\ UNCHANGED <<conf, jar, req, saved, dirty, answer>>
  BY DEF Get, Answered, SessionInv, SessionParts
<1>2. /\ Changed' = Changed /\ Works' = Works /\ Readable' = Readable
      /\ Asks' = Asks
      /\ Normal(jar.data)' = Normal(jar.data) /\ Told("name")' = Told("name")
  BY <1>1, SameRequest DEF Normal, Told
<1>3. ~Changed
  BY <1>1, HandlerUnderstands DEF IsSet
<1>4. AfterLoad(notes')
  BY <1>1, LoadKeeps
<1>5. NothingCarried' /\ DirtyIsChanged'
  BY <1>1 DEF NothingCarried, DirtyIsChanged, SessionParts
<1>6. OwnStrings'
  BY <1>1, <1>2, OwnAfterLoad DEF OwnStrings, SessionParts
<1>7. MadeByLoad' /\ NotesBeforeSave'
  BY <1>1, <1>2, <1>3, <1>4 DEF AfterLoad, MadeByLoad, NotesBeforeSave
<1>8. EntriesOfRequest'
  <2> SUFFICES ASSUME Works PROVE EntriesOfRequest'
    BY <1>2 DEF EntriesOfRequest
  <2>1. Asks = "get" <=> ~req.garbled
    BY <1>1, Asked
  <2>2. Asks # "set"
    BY <1>3, <1>1, Asked
  <2>3. Applied' = Normal(jar.data)
    BY <1>2, <2>2 DEF Applied
  <2>4. notes'.made => notes'.entries = Normal(jar.data)
    BY <1>1, <1>4 DEF AfterLoad
  <2>5. body' = IF Asks = "get" THEN Normal(jar.data)[Told("name")] ELSE Unset
    <3>0. Told("name") = First("name")
      BY HandlerUnderstands
    <3>1. CASE Loaded = "notes"
      <4>1. notes'.entries = Normal(jar.data) /\ ~req.garbled
        BY <1>1, <1>4, <2>4, <3>1, LoadKeeps DEF AfterLoad
      <4>2. Normal(jar.data)[First("name")] # ""
        <5>1. First("name") \in Name
          BY <1>1, FirstTypes DEF TypeOK
        <5> QED BY <5>1, SessionAssumption DEF Normal
      <4> QED BY <2>1, <3>0, <3>1, <4>1, <4>2, GetAnswers
    <3>2. CASE Loaded # "notes"
      <4>1. req.garbled
        BY <1>1, <3>2, LoadCases, OwnAfterLoad DEF SessionParts, Works
      <4> QED BY <2>1, <3>2, <4>1, GetAnswers
    <3> QED BY <3>1, <3>2
  <2> QED BY <1>1, <1>2, <2>3, <2>4, <2>5 DEF EntriesOfRequest
<1> QED BY <1>5, <1>6, <1>7, <1>8 DEF SessionParts

LEMMA SetStep ==
  ASSUME SessionInv, Set
  PROVE  SessionParts'
<1> DEFINE m == NotesAfterLoad
           f == First("name")
           v == First("value")
<1>1. /\ TypeOK /\ SessionParts /\ pc = "fixups" /\ pc' = "handled" /\ conf.fns
      /\ Changed /\ body' = Unset
      /\ notes' = IF Loaded = "notes"
                    THEN [m EXCEPT !.dirty = TRUE, !.entries[f] = v] ELSE m
      /\ UNCHANGED <<conf, jar, req, saved, dirty, answer>>
  BY HandlerUnderstands DEF Set, Answered, SessionInv, SessionParts
<1>2. /\ Changed' = Changed /\ Works' = Works /\ Readable' = Readable
      /\ Asks' = Asks
      /\ Normal(jar.data)' = Normal(jar.data)
      /\ Told("name")' = f /\ Told("value")' = v
  <2>1. Told("name")' = Told("name") /\ Told("value")' = Told("value")
    BY <1>1 DEF Told
  <2> HIDE DEF m
  <2> QED BY <1>1, <2>1, SameRequest, HandlerUnderstands DEF Normal
<1>3. m \in Sessions /\ AfterLoad(m)
  BY <1>1, LoadKeeps, LoadType
<1>4. /\ Loaded = "notes" => m.made /\ Readable
      /\ Loaded = "blank" => ~Readable
  BY <1>1, LoadKeeps
<1>5. OwnStrings /\ Works => \/ m.encoded = Null
                             \/ m.encoded.prefix = IF conf.encoder THEN 1 ELSE 0
  BY <1>1, OwnAfterLoad
<1>6. Loaded \notin {"notes", "blank"} =>
        ~m.made /\ (~conf.enabled \/ ~conf.session \/ req.garbled)
  <2> SUFFICES ASSUME Loaded \notin {"notes", "blank"}
               PROVE  ~m.made /\ (~conf.enabled \/ ~conf.session \/ req.garbled)
    OBVIOUS
  <2>1. m = notes /\ (~conf.enabled \/ ~conf.session \/ (~notes.made /\ req.garbled))
    BY <1>1, LoadCases
  <2> QED BY <1>1, <2>1 DEF SessionParts, MadeByLoad
<1>7. /\ notes'.made = m.made /\ notes'.encoded = m.encoded
      /\ Loaded = "notes" => /\ notes'.dirty = TRUE
                             /\ notes'.entries = [m.entries EXCEPT ![f] = v]
      /\ Loaded # "notes" => notes' = m
  <2> HIDE DEF m, f, v
  <2> QED BY <1>1, <1>3 DEF Sessions
<1> HIDE DEF m, f, v
<1>8. NothingCarried' /\ DirtyIsChanged'
  BY <1>1 DEF NothingCarried, DirtyIsChanged, SessionParts
<1>9. OwnStrings'
  BY <1>1, <1>2, <1>5, <1>7 DEF OwnStrings, SessionParts
<1>10. Loaded = "blank" => m.made
  BY <1>1, LoadCases, Hook DEF m
<1>11. MadeByLoad'
  BY <1>1, <1>2, <1>3, <1>4, <1>6, <1>7, <1>10 DEF AfterLoad, MadeByLoad
<1>12. NotesBeforeSave'
  <2>1. CASE Loaded = "notes"
    BY <1>1, <1>2, <1>3, <1>4, <1>7, <2>1 DEF AfterLoad, NotesBeforeSave
  <2>2. CASE Loaded = "blank"
    BY <1>1, <1>2, <1>3, <1>4, <1>7, <2>2 DEF AfterLoad, NotesBeforeSave
  <2>3. CASE Loaded \notin {"notes", "blank"}
    BY <1>6, <1>7, <2>3 DEF NotesBeforeSave
  <2> QED BY <2>1, <2>2, <2>3
<1>13. EntriesOfRequest'
  <2> SUFFICES ASSUME Works PROVE EntriesOfRequest'
    BY <1>2 DEF EntriesOfRequest
  <2>1. Asks = "set" <=> ~req.garbled
    BY <1>1, Asked
  <2>2. Asks # "get"
    BY <1>1, Asked, HandlerUnderstands DEF IsSet
  <2>3. notes'.made => notes'.entries = Applied'
    <3>1. CASE Loaded = "notes"
      <4>1. m.entries = Normal(jar.data) /\ ~req.garbled
        BY <1>1, <1>3, <1>4, <3>1 DEF AfterLoad
      <4> QED BY <1>2, <1>7, <2>1, <3>1, <4>1 DEF Applied
    <3>2. CASE Loaded # "notes"
      BY <1>1, <1>6, <1>7, <3>2, OwnAfterLoad DEF SessionParts
    <3> QED BY <3>1, <3>2
  <2> QED BY <1>1, <1>2, <2>2, <2>3 DEF EntriesOfRequest
<1> QED BY <1>8, <1>9, <1>11, <1>12, <1>13 DEF SessionParts

\* What is saved: the entries of the request and the overriding header.
LEMMA SavedEntries ==
  ASSUME SessionInv, pc = "handled", conf.fns, Loaded \in {"notes", "blank"}
  PROVE  /\ Session.dirty <=> (Changed /\ Readable) \/ req.override # Blank
         /\ Loaded = "notes" => Session.made = TRUE
         /\ Works => Normal(Session.entries) = Overlay(Normal(Applied), AskedOver)
<1> DEFINE m == NotesAfterLoad
           z == IF Loaded = "notes" THEN m ELSE NewSession(Null)
           o == Normal(req.override)
<1>1. TypeOK /\ MadeByLoad /\ OwnStrings
  BY DEF SessionInv
<1>2. /\ m \in Sessions /\ AfterLoad(m)
      /\ Loaded = "notes" => m.made /\ Readable
      /\ Loaded = "blank" => ~Readable
  BY <1>1, LoadKeeps, LoadType
<1>3. z \in Sessions /\ (Loaded = "notes" => z = m)
  BY <1>2, NoSessionType, NullFacts
<1>4. z.dirty <=> Changed /\ Readable
  <2>1. CASE Loaded = "notes"
    BY <1>2, <1>3, <2>1 DEF AfterLoad
  <2>2. CASE Loaded = "blank"
    <3>1. z.dirty = FALSE
      BY <2>2, NoSessionType, NullFacts
    <3> QED BY <1>2, <2>2, <3>1
  <2> QED BY <2>1, <2>2
<1>5. req.override \in Entries /\ o \in Entries
  <2>1. req.override \in Entries
    BY <1>1, SessionAssumption, EntriesTypes, ZenonT(60) DEF TypeOK, Requests, Entries
  <2> QED BY <2>1, EntriesTypes
<1>6. /\ req.override = Blank => Session = z
      /\ req.override # Blank => /\ Session.dirty = TRUE /\ Session.made = z.made
                                 /\ Session.entries = Overlay(z.entries, o)
  <2>1. Session = IF req.override = Blank THEN z
                  ELSE [z EXCEPT !.entries = Overlay(z.entries, o), !.dirty = TRUE]
    BY DEF Session
  <2> DEFINE e == Overlay(z.entries, o)
  <2>2. Session = IF req.override = Blank THEN z
                  ELSE [z EXCEPT !.entries = e, !.dirty = TRUE]
    BY <2>1
  <2> HIDE DEF z, e
  <2>3. req.override # Blank => /\ Session.dirty = TRUE /\ Session.made = z.made
                                /\ Session.entries = e
    BY <1>3, <2>2 DEF Sessions
  <2> QED BY <2>2, <2>3 DEF e
<1> HIDE DEF z, m, o
<1>7. Session.dirty <=> (Changed /\ Readable) \/ req.override # Blank
  BY <1>4, <1>6
<1>8. Loaded = "notes" => Session.made = TRUE
  BY <1>2, <1>3, <1>6 DEF Sessions
<1>9. ASSUME Works
      PROVE  Normal(Session.entries) = Overlay(Normal(Applied), AskedOver)
  <2>1. Loaded = "notes" /\ ~req.garbled
    <3>1. Loaded = "notes"
      BY <1>1, <1>9, OwnAfterLoad
    <3> QED BY <1>2, <3>1 DEF AfterLoad
  <2>2. z.entries = Applied /\ z.entries \in Entries /\ AskedOver = o
    BY <1>2, <1>3, <1>9, <2>1 DEF AfterLoad, AskedOver, Sessions, o
  <2>3. CASE req.override = Blank
    <3>1. Normal(Applied) \in Entries /\ o = Blank
      BY <2>2, <2>3, EntriesTypes DEF o
    <3>2. Overlay(Normal(Applied), Blank) = Normal(Applied)
      BY <3>1, EntriesTypes
    <3> QED BY <1>6, <2>2, <2>3, <3>1, <3>2
  <2>4. CASE req.override # Blank
    <3>1. Session.entries = Overlay(Applied, o)
      BY <1>6, <2>2, <2>4
    <3> QED BY <1>5, <2>2, <3>1, EntriesTypes DEF o
  <2> QED BY <2>3, <2>4
<1> QED BY <1>7, <1>8, <1>9

LEMMA SaveStep ==
  ASSUME SessionInv, Save
  PROVE  SessionParts'
<1>1. /\ TypeOK /\ SessionParts /\ pc = "handled" /\ pc' = "saved" /\ conf.fns
      /\ Loaded \in {"notes", "blank"}
      /\ saved' = TestEncode([prefix |-> 0, data |-> Session.entries])
      /\ dirty' = Session.dirty
      /\ notes' = IF Loaded = "notes" THEN [Session EXCEPT !.encoded = saved']
                                      ELSE NotesAfterLoad
      /\ UNCHANGED <<conf, jar, req, code, body, answer>>
  BY DEF Save, SessionInv, SessionParts
<1>2. /\ Changed' = Changed /\ Works' = Works /\ Readable' = Readable
      /\ AskedOver' = AskedOver /\ Asks' = Asks /\ Applied' = Applied
      /\ Normal(jar.data)' = Normal(jar.data) /\ Told("name")' = Told("name")
  BY <1>1, SameRequest DEF Normal, Told
<1>3. /\ Session.dirty <=> (Changed /\ Readable) \/ req.override # Blank
      /\ Loaded = "notes" => Session.made = TRUE
      /\ Works => Normal(Session.entries) = Overlay(Normal(Applied), AskedOver)
  BY <1>1, SavedEntries
<1>4. /\ saved' = [prefix |-> IF conf.encoder THEN 1 ELSE 0, data |-> Session.entries]
      /\ saved' # Null
  BY <1>1, SessionType
<1>5. NothingCarried' /\ DirtyIsChanged' /\ NotesBeforeSave'
  BY <1>1, <1>2, <1>3 DEF NothingCarried, DirtyIsChanged, NotesBeforeSave
<1>6. Loaded = "notes" => notes'.made = TRUE /\ notes'.encoded = saved'
  BY <1>1, <1>3, SessionType DEF Sessions
<1>7. OwnStrings'
  <2> SUFFICES ASSUME Works PROVE OwnStrings'
    BY <1>2 DEF OwnStrings
  <2>1. Loaded = "notes"
    BY <1>1, OwnAfterLoad DEF SessionParts
  <2>2. saved'.prefix = IF conf.encoder THEN 1 ELSE 0
    BY <1>4
  <2> QED BY <1>1, <1>6, <2>1, <2>2 DEF OwnStrings, SessionParts
<1>8. MadeByLoad'
  <2>1. AfterLoad(NotesAfterLoad)
    BY <1>1, LoadKeeps
  <2>2. conf.fns /\ conf.enabled /\ conf.session /\ ~req.garbled /\ notes'.made
    <3>1. /\ conf.enabled /\ conf.session /\ NotesAfterLoad.made = TRUE
      BY <1>1, LoadCases, Hook, Decoded
    <3>2. notes'.made
      BY <1>1, <1>6, <3>1
    <3> QED BY <1>1, <2>1, <3>1, <3>2 DEF AfterLoad
  <2> QED BY <1>1, <2>2 DEF MadeByLoad
<1>9. EntriesOfRequest'
  <2>1. Normal((IF saved' = Null THEN jar' ELSE saved').data) = Normal(Session.entries)
    BY <1>4
  <2>2. Normal((IF saved = Null THEN jar ELSE saved).data)'
          = Normal((IF saved' = Null THEN jar' ELSE saved').data)
    BY DEF Normal
  <2> QED BY <1>1, <1>2, <1>3, <2>1, <2>2 DEF EntriesOfRequest, SessionParts
<1> QED BY <1>5, <1>7, <1>8, <1>9 DEF SessionParts

LEMMA SaveSkippedStep ==
  ASSUME SessionInv, SaveSkipped
  PROVE  SessionParts'
<1>1. /\ TypeOK /\ SessionParts /\ pc = "handled" /\ pc' = "saved" /\ saved' = Null
      /\ saved = Null
      /\ conf.fns => Loaded \in {"off", "error", "bad request"} \/ ~Session.dirty
      /\ UNCHANGED <<conf, jar, req, notes, code, body, saved, dirty, answer>>
  BY DEF SaveSkipped, SessionInv, SessionParts, NothingCarried
<1>2. /\ Changed' = Changed /\ Works' = Works /\ Readable' = Readable
      /\ AskedOver' = AskedOver /\ Asks' = Asks /\ Applied' = Applied
      /\ Normal(jar.data)' = Normal(jar.data) /\ Told("name")' = Told("name")
  <2>1. UNCHANGED <<conf, jar, req>> /\ pc # "idle" /\ pc' # "idle"
    BY <1>1
  <2>2. Normal(jar.data)' = Normal(jar.data) /\ Told("name")' = Told("name")
    BY <2>1 DEF Normal, Told
  <2> QED BY <2>1, <2>2, SameRequest
<1>3. NothingCarried' /\ DirtyIsChanged' /\ NotesBeforeSave'
  BY <1>1 DEF NothingCarried, DirtyIsChanged, NotesBeforeSave
<1>4. OwnStrings'
  BY <1>1, <1>2 DEF OwnStrings, SessionParts
<1>5. MadeByLoad'
  BY <1>1 DEF MadeByLoad, SessionParts
<1>6. ASSUME Works
      PROVE  Normal(jar.data) = Overlay(Normal(Applied), AskedOver)
  <2>1. conf.fns /\ conf.enabled /\ conf.session /\ Readable
    <3>1. jar = Null \/ jar.prefix = IF conf.encoder THEN 1 ELSE 0
      BY <1>1, <1>6 DEF OwnStrings, SessionParts
    <3> QED BY <1>6, <3>1, NullFacts DEF Works, Readable
  <2>2. Asks # "set" /\ AskedOver = Blank
    <3>1. CASE req.garbled
      BY <1>1, <1>6, <3>1, Asked DEF AskedOver
    <3>2. CASE ~req.garbled
      <4>1. Loaded \in {"notes", "blank"}
        BY <1>1, <2>1, <3>2, LoadCases
      <4>2. ~(Changed /\ Readable) /\ req.override = Blank
        BY <1>1, <2>1, <4>1, SavedEntries
      <4> QED BY <1>1, <1>6, <2>1, <4>2, Asked, EntriesTypes DEF AskedOver
    <3> QED BY <3>1, <3>2
  <2>3. Applied = Normal(jar.data) /\ jar.data \in Entries
    BY <1>1, <2>2, NullFacts DEF Applied, TypeOK
  <2> QED BY <2>2, <2>3, EntriesTypes
<1>7. EntriesOfRequest'
  <2>1. Normal((IF saved = Null THEN jar ELSE saved).data)' = Normal(jar.data)
    BY <1>1, <1>2
  <2> QED BY <1>1, <1>2, <1>6, <2>1 DEF EntriesOfRequest, SessionParts
<1> QED BY <1>3, <1>4, <1>5, <1>7 DEF SessionParts

LEMMA RespondStep ==
  ASSUME SessionInv, Respond
  PROVE  SessionParts'
<1>1. /\ SessionParts /\ pc' = "idle" /\ saved' = Null /\ notes' = NoSession
      /\ jar' = (IF saved = Null THEN jar ELSE saved)
      /\ req' = NoRequest
      /\ body' = Unset /\ conf' = conf
  BY DEF Respond, SessionInv, SessionParts
<1>2. notes'.made = FALSE /\ notes'.encoded = Null
  BY <1>1, NoSessionType DEF NoSession, NewSession
<1>3. /\ NothingCarried' /\ MadeByLoad' /\ NotesBeforeSave' /\ DirtyIsChanged'
  BY <1>1, <1>2 DEF NothingCarried, MadeByLoad, NotesBeforeSave, DirtyIsChanged
<1>4. OwnStrings'
  BY <1>1, <1>2 DEF OwnStrings, Works, SessionParts
<1>5. EntriesOfRequest'
  BY <1>1, <1>2 DEF EntriesOfRequest
<1> QED BY <1>3, <1>4, <1>5 DEF SessionParts

\* Together.
LEMMA SessionStep == SessionInv /\ [Next]_vars => SessionInv'
<1> SUFFICES ASSUME SessionInv, [Next]_vars PROVE SessionInv'
  OBVIOUS
<1>1. TypeOK'
  BY TypeStep
<1>2. SessionParts'
  <2>1. CASE UNCHANGED vars
    <3>1. SessionParts
      BY DEF SessionInv, SessionParts
    <3>2. /\ Changed' = Changed /\ Works' = Works /\ Readable' = Readable
          /\ AskedOver' = AskedOver /\ Asks' = Asks /\ Applied' = Applied
          /\ Told("name")' = Told("name")
      BY <2>1 DEF vars, Changed, Works, Readable, AskedOver, Asks, Applied, Told,
                  Understood, Normal, Meaning
    <3> QED BY <2>1, <3>1, <3>2, ZenonT(60)
            DEF vars, SessionParts, NothingCarried, MadeByLoad, NotesBeforeSave,
                OwnStrings, EntriesOfRequest, DirtyIsChanged, Normal
  <2> QED BY <2>1, BeginStep, SomeLoadStep, HandleOtherStep, GetStep, SetStep,
             SaveStep, SaveSkippedStep, RespondStep DEF Next
<1> QED BY <1>1, <1>2 DEF SessionInv, SessionParts

-----------------------------------------------------------------------------
(* The location. *)

\* A client that has not been here holds NULL or what the decoder refuses.
LEMMA JarsType ==
  ASSUME NEW c, NEW j \in Jars(c)
  PROVE  j \in Strings /\ (~c.foreign => j = Null)
<1>1. CASE c.foreign
  BY <1>1 DEF Jars, Strings, Entries
<1>2. CASE ~c.foreign
  BY <1>2, NullFacts DEF Jars
<1> QED BY <1>1, <1>2

\* A client between requests that has only what it came with.
Fresh ==
  /\ conf \in [fns : BOOLEAN, enabled : BOOLEAN, session : BOOLEAN,
               encoder : BOOLEAN, foreign : BOOLEAN]
  /\ jar \in Jars(conf) /\ pc = "idle" /\ notes = NoSession /\ saved = Null
  /\ req = NoRequest
  /\ body = Unset /\ answer \in Value \cup {Unset} /\ dirty \in BOOLEAN
  /\ code \in {"OK", "bad request", "not found", "error"}

LEMMA FreshInv == Fresh => SessionInv
<1> SUFFICES ASSUME Fresh PROVE SessionInv
  OBVIOUS
<1> USE DEF Fresh
<1>1. jar \in Strings /\ (~conf.foreign => jar = Null)
  BY JarsType
<1>2. /\ notes \in Sessions /\ notes.made = FALSE /\ notes.encoded = Null
  BY NoSessionType DEF NoSession, NewSession
<1>3. req \in Requests
  BY DEF NoRequest, Requests
<1>4. TypeOK
  BY <1>1, <1>2, <1>3, NullFacts DEF TypeOK
<1>5. NothingCarried /\ MadeByLoad /\ NotesBeforeSave /\ DirtyIsChanged
  BY <1>2 DEF NothingCarried, MadeByLoad, NotesBeforeSave, DirtyIsChanged
<1>6. OwnStrings /\ EntriesOfRequest
  BY <1>1, <1>2 DEF OwnStrings, EntriesOfRequest, Works
<1> QED BY <1>4, <1>5, <1>6 DEF SessionInv

\* No request has come and no section has been read.
LEMMA LocationInitInv == LocationInit => LocationInv
<1> SUFFICES ASSUME LocationInit PROVE LocationInv
  OBVIOUS
<1>1. SessionInv
  BY FreshInv DEF Fresh, LocationInit, Init
<1>2. Config!MergeInv
  BY MergeInit DEF LocationInit
<1>3. reading \in BOOLEAN /\ ~conf.fns /\ pc = "idle" /\ answer = Unset
  BY DEF LocationInit, Init
<1> QED BY <1>1, <1>2, <1>3 DEF LocationInv

\* The sections that a location forgets are those it begins with.
LEMMA Forgotten ==
  /\ Config!Init' => Config!MergeInv'
  /\ Fresh' => SessionInv'
<1>1. Config!Init' => Config!MergeInv'
  BY MergeInit, PTL
<1>2. Fresh' => SessionInv'
  BY FreshInv, PTL
<1> QED BY <1>1, <1>2

\* The sections are read: the first request finds the flags they merged to.
LEMMA OpenStep ==
  ASSUME LocationInv, Open
  PROVE  LocationInv' /\ Jars(conf)' = Jars(conf')
<1>1. /\ SessionInv /\ pc = "idle" /\ answer = Unset /\ TypeOK /\ NothingCarried
  BY DEF Open, LocationInv, SessionInv
<1>2. /\ conf' \in [fns : BOOLEAN, enabled : BOOLEAN, session : BOOLEAN,
                    encoder : BOOLEAN, foreign : BOOLEAN]
      /\ jar' \in Jars(conf')
      /\ reading' = FALSE
      /\ outer' = Config!Create /\ inner' = Config!Create /\ section' = Config!Create
      /\ directives' = <<>> /\ sections' = 0
      /\ UNCHANGED <<req, notes, pc, code, body, saved, dirty, answer>>
  BY DEF Open
<1>3. Jars(conf)' = Jars(conf')
  BY DEF Jars
<1>4. SessionInv'
  <2>1. /\ pc' = "idle" /\ notes' = NoSession /\ saved' = Null
        /\ req' = NoRequest
        /\ body' = Unset /\ answer' \in Value \cup {Unset} /\ dirty' \in BOOLEAN
        /\ code' \in {"OK", "bad request", "not found", "error"}
    BY <1>1, <1>2 DEF NothingCarried, TypeOK
  <2>2. Fresh'
    BY <1>2, <1>3, <2>1 DEF Fresh
  <2> QED BY <2>2, Forgotten
<1>5. Config!MergeInv'
  BY <1>2, Forgotten DEF Config!Init, Config!Create
<1> QED BY <1>2, <1>3, <1>4, <1>5 DEF LocationInv

\* The invariant of a location and its sessions.
THEOREM LocationInvariant == LocationSpec => []LocationInv
<1>1. LocationInv /\ [LocationNext]_<<vars, reading, configVars>> => LocationInv'
  <2> SUFFICES ASSUME LocationInv, [LocationNext]_<<vars, reading, configVars>>
               PROVE  LocationInv'
    OBVIOUS
  <2>1. CASE ReadDirective
    <3>1. UNCHANGED <<vars, reading>> /\ Config!Next
      BY <2>1 DEF ReadDirective
    <3>2. SessionInv'
      BY <3>1, SessionStep DEF LocationInv
    <3>3. Config!MergeInv'
      BY <3>1, MergeStep DEF LocationInv
    <3> QED BY <3>1, <3>2, <3>3 DEF LocationInv, vars
  <2>2. CASE Open
    BY <2>2, OpenStep
  <2>3. CASE Serve
    <3>1. ~reading /\ Next /\ UNCHANGED <<reading, configVars>>
      BY <2>3 DEF Serve
    <3>2. SessionInv'
      BY <3>1, SessionStep DEF LocationInv
    <3>3. Config!MergeInv'
      BY <3>1, MergeStep DEF LocationInv, Config!vars, configVars
    <3> QED BY <3>1, <3>2, <3>3 DEF LocationInv
  <2>4. CASE UNCHANGED <<vars, reading, configVars>>
    <3>1. SessionInv'
      BY <2>4, SessionStep DEF LocationInv
    <3>2. Config!MergeInv'
      BY <2>4, MergeStep DEF LocationInv, Config!vars, configVars
    <3> QED BY <2>4, <3>1, <3>2 DEF LocationInv, vars
  <2> QED BY <2>1, <2>2, <2>3, <2>4 DEF LocationNext
<1> QED BY <1>1, LocationInitInv, PTL DEF LocationSpec

\* However often mod_session loads it, the session holds what the client sent,
\* and nothing is decoded twice (test_session_load, lines 105-122,
\* test_session_decode, 157-172).
THEOREM LoadedOnceHolds == LocationSpec => []LoadedOnce
<1>1. LocationInv => LoadedOnce
  <2> SUFFICES ASSUME LocationInv, Works, notes.made, pc = "fixups"
               PROVE  notes.entries = Normal(jar.data) /\ notes.encoded = Null
    BY DEF LoadedOnce
  <2>1. NotesBeforeSave /\ OwnStrings /\ EntriesOfRequest
    BY DEF LocationInv, SessionInv
  <2>2. Readable
    <3>1. jar = Null \/ jar.prefix = IF conf.encoder THEN 1 ELSE 0
      BY <2>1 DEF OwnStrings
    <3> QED BY <3>1, NullFacts DEF Readable
  <2> QED BY <2>1, <2>2 DEF NotesBeforeSave, EntriesOfRequest
<1> QED BY <1>1, LocationInvariant, PTL

\* The decoder refuses no session that the encoder has made (144-172).
THEOREM OwnSessionsAreReadHolds == LocationSpec => []OwnSessionsAreRead
<1>1. LocationInv => OwnSessionsAreRead
  BY OwnAfterLoad DEF LocationInv, SessionInv, OwnSessionsAreRead
<1> QED BY <1>1, LocationInvariant, PTL

\* A session that can be decoded is marked dirty exactly when this request
\* changed it, in the handler or with the overriding header (128-142,
\* 193-202).
THEOREM DirtyIsChangedHolds == LocationSpec => []DirtyIsChanged
<1>1. LocationInv => DirtyIsChanged
  BY DEF LocationInv, SessionInv
<1> QED BY <1>1, LocationInvariant, PTL

\* The flags of the location are those of the innermost section that sets
\* them, sessions being served or not (dcfg_merge, 291-303).
THEOREM InnermostWinsHolds == LocationSpec => []InnermostWins
<1>1. LocationInv => InnermostWins
  BY DEF LocationInv, Config!MergeInv, InnermostWins
<1> QED BY <1>1, LocationInvariant, PTL

-----------------------------------------------------------------------------
(* A sequence of requests is a store of values. *)

\* The state of the store, written out.
LEMMA StoreVars ==
  Store!ssvars = <<IF Works THEN Normal(jar.data) ELSE Blank,
                   [op |-> Asks, name |-> AskedName,
                    value |-> AskedValue, over |-> AskedOver],
                   IF Works THEN answer ELSE Unset>>
BY DEF Store!ssvars

\* Without a session that works there is no store.
EmptyStore == <<Blank, [op |-> "none", name |-> CHOOSE n \in Name : TRUE,
                        value |-> Unset, over |-> Blank], Unset>>

LEMMA NoStore == ~Works => Store!ssvars = EmptyStore
<1> SUFFICES ASSUME ~Works PROVE Store!ssvars = EmptyStore
  OBVIOUS
<1>1. Asks = "none"
  BY DEF Asks
<1>2. AskedName = (CHOOSE n \in Name : TRUE) /\ AskedValue = Unset /\ AskedOver = Blank
  BY <1>1 DEF AskedName, AskedValue, AskedOver
<1> QED BY <1>1, <1>2, StoreVars DEF EmptyStore

\* It does not change either.
LEMMA NoStoreStep ==
  ASSUME ~Works, ~Works'
  PROVE  UNCHANGED Store!ssvars
<1>1. (~Works => Store!ssvars = EmptyStore)'
  BY NoStore, PTL
<1>2. EmptyStore' = EmptyStore
  BY DEF EmptyStore, Blank
<1> QED BY <1>1, <1>2, NoStore

\* Between requests nothing is asked.
LEMMA NothingAsked ==
  ASSUME NothingCarried, pc = "idle"
  PROVE  /\ Asks = "none" /\ AskedName = (CHOOSE n \in Name : TRUE)
         /\ AskedValue = Unset /\ AskedOver = Blank
<1>1. Asks = "none"
  BY DEF Asks
<1>2. AskedName = (CHOOSE n \in Name : TRUE) /\ AskedValue = Unset
  BY <1>1 DEF AskedName, AskedValue
<1>3. AskedOver = Blank
  BY EntriesTypes DEF NothingCarried, NoRequest, AskedOver
<1> QED BY <1>1, <1>2, <1>3

\* The same of the next state.
LEMMA NothingAskedNext ==
  (NothingCarried /\ pc = "idle" =>
     /\ Asks = "none" /\ AskedName = (CHOOSE n \in Name : TRUE)
     /\ AskedValue = Unset /\ AskedOver = Blank)'
<1>1. NothingCarried /\ pc = "idle" =>
        /\ Asks = "none" /\ AskedName = (CHOOSE n \in Name : TRUE)
        /\ AskedValue = Unset /\ AskedOver = Blank
  BY NothingAsked
<1> QED BY <1>1, PTL

\* Within a request nothing is asked or answered anew.
LEMMA QuietStep ==
  ASSUME UNCHANGED <<conf, jar, req, answer>>,
         UNCHANGED pc \/ (pc # "idle" /\ pc' # "idle")
  PROVE  UNCHANGED Store!ssvars
<1>1. /\ Works' = Works /\ AskedOver' = AskedOver
      /\ Told("name")' = Told("name") /\ Told("value")' = Told("value")
      /\ Normal(jar.data)' = Normal(jar.data) /\ Blank' = Blank
  BY SameRequest DEF Told, Normal, Blank
<1>2. Asks' = Asks
  <2>1. CASE pc # "idle" /\ pc' # "idle"
    BY <2>1, SameRequest
  <2>2. CASE pc = "idle" /\ pc' = "idle"
    BY <2>2 DEF Asks
  <2> QED BY <2>1, <2>2
<1>3. AskedName' = AskedName
  <2> DEFINE some == CHOOSE n \in Name : TRUE
  <2>1. /\ AskedName = IF Asks \in {"get", "set"} THEN Told("name") ELSE some
        /\ AskedName' = IF Asks' \in {"get", "set"} THEN Told("name")' ELSE some
    BY Zenon DEF AskedName
  <2> HIDE DEF some
  <2> QED BY <1>1, <1>2, <2>1
<1>4. AskedValue' = AskedValue
  BY <1>1, <1>2 DEF AskedValue
<1>5. (IF Works THEN Normal(jar.data) ELSE Blank)'
        = IF Works THEN Normal(jar.data) ELSE Blank
  BY <1>1
<1>6. (IF Works THEN answer ELSE Unset)' = IF Works THEN answer ELSE Unset
  BY <1>1
<1> QED BY <1>1, <1>2, <1>3, <1>4, <1>5, <1>6, Zenon DEF Store!ssvars

\* What is told of a form that is understood, of the next state.
LEMMA ToldTypesNext ==
  (req \in Requests => /\ Understood => Told("name") \in Name
                       /\ Told("value") \in Value \cup {Unset})'
<1>1. req \in Requests => /\ Understood => Told("name") \in Name
                          /\ Told("value") \in Value \cup {Unset}
  BY FirstTypes, HandlerUnderstands
<1> QED BY <1>1, PTL

\* Asked, of the next state.
LEMMA AskedNext == (Works /\ pc # "idle" => Asks \in {"look", "get", "set"})'
<1>1. Works /\ pc # "idle" => Asks \in {"look", "get", "set"}
  BY Asked
<1> QED BY <1>1, PTL

\* A request that begins asks, one that ends is answered.
LEMMA BeginAsks ==
  ASSUME SessionInv, NEW r \in Requests, Begin(r)
  PROVE  [Store!Next]_(Store!ssvars)
<1>1. /\ TypeOK /\ TypeOK' /\ NothingCarried
      /\ pc = "idle" /\ pc' = "fixups"
      /\ UNCHANGED <<conf, jar, answer>>
  BY TypeStep DEF Begin, Next, SessionInv
<1>2. CASE ~Works
  <2>1. ~Works'
    BY <1>1, <1>2 DEF Works
  <2> QED BY <1>2, <2>1, NoStoreStep
<1>3. CASE Works
  <2>1. Works' /\ Normal(jar.data)' = Normal(jar.data)
    BY <1>1, <1>3 DEF Works, Normal
  <2>2. Asks = "none"
    BY <1>1, NothingAsked
  <2>3. Asks' \in {"look", "get", "set"}
    BY <1>1, <2>1, AskedNext
  <2>4. Told("value")' \in Value \cup {Unset} /\ (Understood' => Told("name")' \in Name)
    BY <1>1, ToldTypesNext DEF TypeOK
  <2>5. AskedName' \in Name
    <3>1. CASE Asks' \in {"get", "set"}
      <4>1. Understood'
        BY <3>1, <2>1, <1>1 DEF Asks
      <4> QED BY <2>4, <3>1, <4>1 DEF AskedName
    <3>2. CASE Asks' \notin {"get", "set"}
      BY <3>2, SessionAssumption DEF AskedName
    <3> QED BY <3>1, <3>2
  <2>6. AskedValue' \in (Value \ {""}) \cup {Unset}
    BY <2>4 DEF AskedValue
  <2>7. AskedOver' \in [Name -> (Value \ {""}) \cup {Unset}]
    <3>1. Blank \in [Name -> (Value \ {""}) \cup {Unset}]
      BY DEF Blank
    <3>2. req'.override \in Entries
      <4>1. req' \in Requests
        BY <1>1 DEF TypeOK
      <4>2. req'.override \in Overrides \cup {Blank}
        BY <4>1 DEF Requests
      <4> QED BY <4>2, SessionAssumption, EntriesTypes DEF Entries
    <3>3. Normal(req'.override) \in [Name -> (Value \ {""}) \cup {Unset}]
      BY <3>2 DEF Normal, Entries
    <3>4. AskedOver' = IF ~Works' \/ req'.garbled THEN Blank ELSE Normal(req'.override)
      BY DEF AskedOver, Normal
    <3> QED BY <3>1, <3>3, <3>4
  <2>8. [op |-> Asks, name |-> AskedName, value |-> AskedValue, over |-> AskedOver]'
          \in Store!Operation
    BY <2>3, <2>5, <2>6, <2>7 DEF Store!Operation, Store!Entries
  <2>9. Store!Ask
    BY <1>1, <1>3, <2>1, <2>2, <2>3, <2>8 DEF Store!Ask
  <2> QED BY <2>9 DEF Store!Next
<1> QED BY <1>2, <1>3

LEMMA RespondAnswers ==
  ASSUME SessionInv, Respond
  PROVE  [Store!Next]_(Store!ssvars)
<1>1. /\ TypeOK /\ EntriesOfRequest /\ NothingCarried'
      /\ pc = "saved" /\ pc' = "idle"
      /\ jar' = (IF saved = Null THEN jar ELSE saved)
      /\ answer' = body /\ conf' = conf
  BY RespondStep DEF Respond, SessionInv, SessionParts
<1>2. CASE ~Works
  <2>1. ~Works'
    BY <1>1, <1>2 DEF Works
  <2> QED BY <1>2, <2>1, NoStoreStep
<1>3. CASE Works
  <2>1. Works'
    BY <1>1, <1>3 DEF Works
  <2>2. Asks' = "none"
    BY <1>1 DEF Asks
  <2>3. Asks \in {"look", "get", "set"}
    BY <1>1, <1>3, Asked
  <2>4. Normal(jar.data)' = Overlay(Normal(Applied), AskedOver)
    <3>1. Normal(jar.data)' = Normal((IF saved = Null THEN jar ELSE saved).data)
      BY <1>1 DEF Normal
    <3> QED BY <1>1, <1>3, <3>1 DEF EntriesOfRequest
  <2>5. Normal(Applied) = IF Asks = "set"
                            THEN [Normal(jar.data) EXCEPT ![AskedName] = AskedValue]
                            ELSE Normal(jar.data)
    <3>1. jar.data \in Entries /\ Normal(jar.data) \in Entries
      BY <1>1, NullFacts, EntriesTypes DEF TypeOK
    <3>2. CASE Asks = "set"
      <4> DEFINE d == Normal(jar.data)
                 f == Told("name")
                 v == Told("value")
      <4>1. /\ Applied = [d EXCEPT ![f] = v]
            /\ AskedName = f /\ AskedValue = IF v = "" THEN Unset ELSE v
        BY <3>2 DEF Applied, AskedName, AskedValue
      <4>2. d \in Entries /\ \A n \in Name : d[n] # ""
        BY <3>1, SessionAssumption DEF Normal
      <4> HIDE DEF d, f, v
      <4>3. Normal(Applied) = [d EXCEPT ![f] = IF v = "" THEN Unset ELSE v]
        BY <4>1, <4>2 DEF Normal, Entries
      <4> QED BY <3>2, <4>1, <4>3 DEF d
    <3>3. CASE Asks # "set"
      BY <3>1, <3>3, EntriesTypes DEF Applied
    <3> QED BY <3>2, <3>3
  <2>6. body = IF Asks = "get" THEN Normal(jar.data)[AskedName] ELSE Unset
    BY <1>1, <1>3 DEF EntriesOfRequest, AskedName
  <2>7. Store!Answer
    BY <1>1, <1>3, <2>1, <2>2, <2>3, <2>4, <2>5, <2>6
       DEF Store!Answer, Store!Overlay, Overlay
  <2> QED BY <2>7 DEF Store!Next
<1> QED BY <1>2, <1>3

\* The hooks and the handler implement the store of values: a get answers with
\* what was last set, whatever was loaded, decoded, encoded and saved in between
\* (t/modules/session.t:130-141, 161-163).
THEOREM SessionRefinement == LocationSpec => ImplementsSessionStore
<1>1. LocationInit => Store!Init
  <2> SUFFICES ASSUME LocationInit PROVE Store!Init
    OBVIOUS
  <2>1. ~Works /\ Asks = "none"
    BY DEF LocationInit, Works, Asks
  <2>2. Blank \in [Name -> (Value \ {""}) \cup {Unset}]
    BY DEF Blank
  <2> QED BY <2>1, <2>2 DEF Store!Init, Store!Entries
<1>2. LocationInv /\ LocationInv' /\ [LocationNext]_<<vars, reading, configVars>>
        => [Store!Next]_(Store!ssvars)
  <2> SUFFICES ASSUME LocationInv, LocationInv',
                      [LocationNext]_<<vars, reading, configVars>>
               PROVE  [Store!Next]_(Store!ssvars)
    OBVIOUS
  <2>1. /\ SessionInv /\ NothingCarried /\ NothingCarried'
        /\ reading => ~Works /\ pc = "idle" /\ answer = Unset
    BY DEF LocationInv, SessionInv, Works
  <2>2. CASE Open
    <3>1. /\ pc = "idle" /\ pc' = "idle" /\ answer = Unset /\ answer' = Unset /\ ~Works
          /\ conf'.foreign \in BOOLEAN
          /\ jar' \in Jars(conf')
      BY <2>1, <2>2 DEF Open
    <3>2. (IF Works THEN Normal(jar.data) ELSE Blank)' = Blank
      <4>1. CASE Works'
        <5>1. jar' = Null
          BY <3>1, <4>1, JarsType DEF Works
        <5>2. Normal(jar.data)' = Normal(jar'.data)
          BY DEF Normal
        <5>3. Normal(jar'.data) = Blank
          BY <5>1, NullFacts, EntriesTypes
        <5> QED BY <4>1, <5>2, <5>3
      <4>2. CASE ~Works'
        BY <4>2 DEF Blank
      <4> QED BY <4>1, <4>2
    <3>3. /\ Asks' = "none" /\ AskedName' = (CHOOSE n \in Name : TRUE)
          /\ AskedValue' = Unset /\ AskedOver' = Blank
      BY <2>1, <3>1, NothingAskedNext
    <3>4. Store!ssvars' = EmptyStore
      <4>1. (IF Works THEN answer ELSE Unset)' = Unset
        BY <3>1
      <4> QED BY <3>2, <3>3, <4>1, Zenon DEF EmptyStore, Store!ssvars
    <3> QED BY <3>1, <3>4, NoStore DEF EmptyStore, Blank
  <2>3. CASE Serve
    <3>1. ASSUME NEW r \in Requests, Begin(r) PROVE [Store!Next]_(Store!ssvars)
      BY <2>1, <3>1, BeginAsks
    <3>2. CASE Respond
      BY <2>1, <3>2, RespondAnswers
    <3>3. CASE SomeLoad \/ HandleOther \/ Get \/ Set \/ Save \/ SaveSkipped
      <4>1. UNCHANGED <<conf, jar, req, answer>> /\ pc # "idle" /\ pc' # "idle"
        BY <3>3 DEF SomeLoad, HandleOther, Get, Set, Save, SaveSkipped, Answered
      <4> QED BY <4>1, QuietStep
    <3> QED BY <2>3, <3>1, <3>2, <3>3 DEF Serve, Next
  <2>4. CASE ReadDirective \/ UNCHANGED <<vars, reading, configVars>>
    <3>1. UNCHANGED vars
      BY <2>4 DEF ReadDirective
    <3> QED BY <3>1, QuietStep DEF vars
  <2> QED BY <2>2, <2>3, <2>4 DEF LocationNext
<1> QED BY <1>1, <1>2, LocationInvariant, PTL
        DEF LocationSpec, ImplementsSessionStore, Store!Spec
=============================================================================
