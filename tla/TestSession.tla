------------------------------ MODULE TestSession ------------------------------
(***************************************************************************)
(* c-modules/test_session/mod_test_session.c: the load, save, encode and   *)
(* decode hooks of a session kept in the request's notes, and the handler  *)
(* that gets and sets its entries; a client that sends the session it was  *)
(* given with its next request (t/modules/session.t).                      *)
(*                                                                         *)
(* mod_session (external) chooses when hooks run: any number of loads      *)
(* before and after the handler, one save at the end, which it may leave   *)
(* out for a session that is not dirty.  Every load runs the decode hooks  *)
(* on the same session again, and decode cuts the prefix off in place.     *)
(*                                                                         *)
(* A session string is its encoder's prefix, present or not, and the       *)
(* entries it spells.  An entry spelled with an empty value decodes to no  *)
(* entry.  Forms name a field: one without hands NULL to mod_session.      *)
(***************************************************************************)
EXTENDS Integers, Sequences

CONSTANTS Name,     \* names of session entries
          Value,    \* values, "" among them
          Unset,    \* no value
          Forms,    \* POST bodies: sequences of [field, value]
          Overrides \* what the header X-Test-Session-Override may hold

ASSUME SessionAssumption ==
  /\ Name # {} /\ "" \in Value
  /\ Unset \notin Value
  /\ \A f \in Forms : \E i \in 1..Len(f) : f[i].field = "name"
  /\ \A f \in Forms : \A i \in 1..Len(f) :
       /\ f[i].field = "name" => f[i].value \in Name
       /\ f[i].field = "value" => f[i].value \in Value
  /\ Overrides \subseteq [Name -> Value \cup {Unset}]

VARIABLES
  conf,   \* [fns, enabled, session, encoder, foreign]: mod_session's functions
          \* found; Session; TestSession; TestSessionEncoder; whether the client
          \* starts with a string that the decoder refuses
  jar,    \* the session string the client holds
  req,    \* the request, see Requests
  notes,  \* the session in r->notes
  pc,     \* "idle", "fixups", "handled", "saved"
  code, body,   \* the handler's answer
  saved, dirty, \* X-Test-Session and X-Test-Session-Dirty
  answer        \* body of the last response

vars == <<conf, jar, req, notes, pc, code, body, saved, dirty, answer>>

Entries == [Name -> Value \cup {Unset}]
Blank == [n \in Name |-> Unset]

\* z->encoded: NULL, or a string.
Null == [prefix |-> -1, data |-> Blank]
Strings == [prefix : {0, 1}, data : Entries] \cup {Null}

\* session_rec (external).
Sessions == [made : BOOLEAN, encoded : Strings, entries : Entries, dirty : BOOLEAN]

\* Only a POST has a form, which may be empty.  garbled: args that
\* ap_unescape_urlencoded refuses; override: the header
\* X-Test-Session-Override, Blank without it.
Requests ==
  {r \in [post : BOOLEAN, form : Forms \cup {<<>>}, garbled : BOOLEAN,
          override : Overrides \cup {Blank}] : ~r.post => r.form = <<>>}

NoRequest ==
  [post |-> FALSE, form |-> <<>>, garbled |-> FALSE, override |-> Blank]

NewSession(args) ==
  [made |-> TRUE, encoded |-> args, entries |-> Blank, dirty |-> FALSE]
NoSession == [NewSession(Null) EXCEPT !.made = FALSE]

TypeOK ==
  /\ conf \in [fns : BOOLEAN, enabled : BOOLEAN, session : BOOLEAN,
               encoder : BOOLEAN, foreign : BOOLEAN]
  /\ jar \in Strings /\ saved \in Strings
  /\ req \in Requests
  /\ notes \in Sessions
  /\ pc \in {"idle", "fixups", "handled", "saved"}
  /\ code \in {"OK", "bad request", "not found", "error"}
  /\ body \in Value \cup {Unset} /\ answer \in Value \cup {Unset}
  /\ dirty \in BOOLEAN

\* What a client may hold that has not been here yet.
Jars(c) == IF c.foreign
             THEN {[prefix |-> 0, data |-> [n \in Name |-> v]] : v \in Value}
             ELSE {Null}

Init ==
  /\ conf \in [fns : BOOLEAN, enabled : BOOLEAN, session : BOOLEAN,
               encoder : BOOLEAN, foreign : BOOLEAN]
  /\ conf.foreign => conf.encoder
  /\ jar \in Jars(conf)
  /\ req = NoRequest
  /\ notes = NoSession
  /\ pc = "idle" /\ code = "OK" /\ body = Unset
  /\ saved = Null /\ dirty = FALSE /\ answer = Unset

Overlay(base, over) ==
  [n \in Name |-> IF over[n] = Unset THEN base[n] ELSE over[n]]

\* An entry with an empty value is read as none (external).
Normal(data) == [n \in Name |-> IF data[n] = "" THEN Unset ELSE data[n]]

\* Where the prefix is left in place the entries have other names.
IdentityDecode(z) ==
  [z EXCEPT !.entries = IF z.encoded.prefix = 1 THEN z.entries
                        ELSE Overlay(z.entries, Normal(z.encoded.data)),
            !.encoded = Null]

-----------------------------------------------------------------------------
(* The hooks. *)

\* test_session_load: the session is made from the query string once a request.
LoadHook ==
  IF notes.made THEN notes ELSE NewSession(jar)

LoadFails == ~notes.made /\ req.garbled

\* Faulty variants: NULL is refused like any string without the prefix, and
\* the prefix is recognised but not cut off.
DecodeFailsOnNull(z) == conf.encoder /\ z.encoded.prefix < 1

TestDecodeInVain(z) == z

\* test_session_decode: whether it fails, and the string without its prefix.
DecodeFails(z) == conf.encoder /\ z.encoded.prefix = 0

TestDecode(z) ==
  IF conf.encoder /\ z.encoded.prefix = 1 THEN [z EXCEPT !.encoded.prefix = 0]
                                          ELSE z

\* Faulty variant: no prefix.
TestEncodeInVain(string) == string

\* test_session_encode.
TestEncode(string) ==
  IF conf.encoder THEN [string EXCEPT !.prefix = 1] ELSE string

\* ap_session_load (external): what it returns besides the new notes.  "off"
\* is no session, "blank" a new one that replaces one it cannot decode.
Loaded ==
  IF ~conf.enabled THEN "off"
  ELSE IF ~conf.session THEN "error"
  ELSE IF LoadFails THEN "bad request"
  ELSE IF DecodeFails(LoadHook) THEN "blank"
  ELSE "notes"

NotesAfterLoad ==
  CASE Loaded = "notes" -> IdentityDecode(TestDecode(LoadHook))
    [] Loaded = "blank" -> LoadHook
    [] OTHER            -> notes

SomeLoad ==
  /\ pc \in {"fixups", "handled", "saved"}
  /\ conf.fns
  /\ notes' = NotesAfterLoad
  /\ UNCHANGED <<conf, jar, req, pc, code, body, saved, dirty, answer>>

-----------------------------------------------------------------------------
(* test_session_handler. *)

\* Fields are popped from the end of the form: the first of a name counts.
First(field) ==
  LET at == {i \in 1..Len(req.form) : req.form[i].field = field}
  IN  IF at = {} THEN Unset
      ELSE req.form[CHOOSE i \in at : \A j \in at : i <= j].value

\* Faulty variant: "set" comes first, so that no action is a set.
IsGetSecond(action) == action \in {"g", "ge", "get"}

\* strncmp(value, "get", len), with the length of the value: it is enough that
\* "get" begins with the value, as it does with the empty one; "set" comes
\* second.
IsGet(action) == action \in {"", "g", "ge", "get"}
IsSet(action) == ~IsGet(action) /\ action \in {"", "s", "se", "set"}

\* An unknown field or action, or no action at all.
BadForm ==
  \/ \E i \in 1..Len(req.form) :
       \/ req.form[i].field \notin {"action", "name", "value"}
       \/ /\ req.form[i].field = "action"
          /\ ~IsGet(req.form[i].value) /\ ~IsSet(req.form[i].value)
  \/ First("action") = Unset

IsPost == req.post

Answered(c, b) == pc' = "handled" /\ code' = c /\ body' = b

\* Anything but POST; POST without mod_session; a form it does not take.
HandleOther ==
  /\ pc = "fixups"
  /\ \/ ~IsPost /\ Answered("OK", Unset)
     \/ IsPost /\ ~conf.fns /\ Answered("error", Unset)
     \/ IsPost /\ conf.fns /\ BadForm /\ Answered("bad request", Unset)
  /\ UNCHANGED <<conf, jar, req, notes, saved, dirty, answer>>

\* test_session_get.
Get ==
  /\ pc = "fixups" /\ IsPost /\ conf.fns /\ ~BadForm /\ IsGet(First("action"))
  /\ notes' = NotesAfterLoad
  /\ LET value == IF Loaded = "notes" THEN notes'.entries[First("name")]
                                      ELSE Unset
     IN  CASE Loaded \in {"error", "bad request"} -> Answered(Loaded, Unset)
           [] value = Unset -> Answered("not found", Unset)
           [] value = ""    -> Answered("error", Unset)
           [] OTHER         -> Answered("OK", value)
  /\ UNCHANGED <<conf, jar, req, saved, dirty, answer>>

\* test_session_set: without a value the entry is deleted; set on a blank
\* session it is lost, since nothing else holds that session.
Set ==
  /\ pc = "fixups" /\ IsPost /\ conf.fns /\ ~BadForm /\ IsSet(First("action"))
  /\ notes' = IF Loaded = "notes"
                THEN [NotesAfterLoad EXCEPT !.dirty = TRUE,
                                    !.entries[First("name")] = First("value")]
                ELSE NotesAfterLoad
  /\ Answered(IF Loaded \in {"error", "bad request"} THEN Loaded ELSE "OK", Unset)
  /\ UNCHANGED <<conf, jar, req, saved, dirty, answer>>

-----------------------------------------------------------------------------
(* The end of the request. *)

\* ap_session_save (external) with the encode and save hooks: identity, then
\* test_session_encode, then test_session_save.  An overriding header is
\* merged first, when the handler has copied it.
Session ==
  LET z == IF Loaded = "notes" THEN NotesAfterLoad ELSE NewSession(Null)
  IN  IF req.override = Blank THEN z
      ELSE [z EXCEPT !.entries = Overlay(z.entries, Normal(req.override)),
                     !.dirty = TRUE]

\* Faulty variant: X-Test-Session-Dirty is never 0.
SaveDirty ==
  /\ pc = "handled" /\ conf.fns /\ Loaded \in {"notes", "blank"}
  /\ saved' = TestEncode([prefix |-> 0, data |-> Session.entries])
  /\ dirty' = TRUE
  /\ notes' = NotesAfterLoad
  /\ pc' = "saved"
  /\ UNCHANGED <<conf, jar, req, code, body, answer>>

Save ==
  /\ pc = "handled" /\ conf.fns /\ Loaded \in {"notes", "blank"}
  /\ saved' = TestEncode([prefix |-> 0, data |-> Session.entries])
  /\ dirty' = Session.dirty
  /\ notes' = IF Loaded = "notes" THEN [Session EXCEPT !.encoded = saved']
                                  ELSE NotesAfterLoad
  /\ pc' = "saved"
  /\ UNCHANGED <<conf, jar, req, code, body, answer>>

SaveSkipped ==
  /\ pc = "handled"
  /\ conf.fns => Loaded \in {"off", "error", "bad request"} \/ ~Session.dirty
  /\ pc' = "saved"
  /\ UNCHANGED <<conf, jar, req, notes, code, body, saved, dirty, answer>>

\* The client (external): it keeps the session of the response, if any.
Begin(r) ==
  /\ pc = "idle"
  /\ req' = r
  /\ notes' = NoSession
  /\ pc' = "fixups"
  /\ UNCHANGED <<conf, jar, code, body, saved, dirty, answer>>

Respond ==
  /\ pc = "saved"
  /\ jar' = IF saved = Null THEN jar ELSE saved
  /\ answer' = body
  /\ saved' = Null /\ dirty' = FALSE /\ code' = "OK" /\ body' = Unset
  /\ req' = NoRequest
  /\ notes' = NoSession
  /\ pc' = "idle"
  /\ UNCHANGED conf

Next == \/ \E r \in Requests : Begin(r)
        \/ SomeLoad \/ HandleOther \/ Get \/ Set
        \/ Save \/ SaveSkipped \/ Respond

Spec == Init /\ [][Next]_vars

-----------------------------------------------------------------------------
(* Correctness. *)

\* Configured so that sessions work, for a client without a foreign session.
Works == conf.fns /\ conf.enabled /\ conf.session /\ ~conf.foreign

Readable == conf.encoder => jar.prefix # 0

\* What a form means, whatever the handler makes of it: an action may be cut
\* short, no action is a get, and the first of two fields of a name counts.
Told(field) ==
  LET at == {i \in 1..Len(req.form) : req.form[i].field = field}
  IN  IF at = {} THEN Unset
      ELSE req.form[CHOOSE i \in at : \A j \in at : i <= j].value

Meaning(action) == CASE action \in {"", "g", "ge", "get"} -> "get"
                     [] action \in {"s", "se", "set"}     -> "set"
                     [] OTHER                             -> "none"

Understood ==
  /\ req.post
  /\ Told("action") # Unset
  /\ \A i \in 1..Len(req.form) :
       /\ req.form[i].field \in {"action", "name", "value"}
       /\ req.form[i].field = "action" => Meaning(req.form[i].value) # "none"

Changed == Understood /\ Meaning(Told("action")) = "set"

\* However often mod_session has loaded it, the session in the notes holds
\* what the client sent, until the handler or the override changes it: the
\* prefix is cut off once and nothing is decoded twice (lines 105-122,
\* 157-172).
LoadedOnce ==
  Works /\ notes.made /\ pc = "fixups"
    => notes.entries = Normal(jar.data) /\ notes.encoded = Null

\* The decoder refuses no session that the encoder has made, in whatever order
\* loads, changes and saves come within a request and over several: what was
\* decoded in place is not decoded again without its prefix (144-172).
OwnSessionsAreRead == Works /\ pc # "idle" => Loaded # "blank"

\* A session that can be decoded is marked dirty exactly when this request set
\* something, by the handler or by the overriding header, however often it was
\* loaded since (128-142, 193-202).
DirtyIsChanged ==
  pc = "saved" /\ saved # Null /\ Readable
    => (dirty <=> Changed \/ req.override # Blank)

\* What the request does to the entries of the session, as SessionStore has it:
\* a form the handler refuses and a query string that cannot be read look only,
\* and with such a query string the overriding header is not merged either.
Asks == IF ~Works \/ pc = "idle" THEN "none"
        ELSE IF ~Understood \/ req.garbled THEN "look"
        ELSE Meaning(Told("action"))

AskedName == IF Asks \in {"get", "set"} THEN Told("name")
                                        ELSE CHOOSE n \in Name : TRUE

AskedValue == IF Asks # "set" \/ Told("value") = "" THEN Unset
                                                    ELSE Told("value")

AskedOver == IF ~Works \/ req.garbled THEN Blank ELSE Normal(req.override)

\* Over a sequence of requests the session is a store of values: a get answers
\* with what was last set, whatever was loaded, decoded, encoded and saved in
\* between (t/modules/session.t:130-141, 161-163).
Store ==
  INSTANCE SessionStore
    WITH Value <- Value \ {""},
         data <- IF Works THEN Normal(jar.data) ELSE Blank,
         answer <- IF Works THEN answer ELSE Unset,
         asked <- [op |-> Asks, name |-> AskedName,
                   value |-> AskedValue, over |-> AskedOver]

ImplementsSessionStore == Store!Spec

-----------------------------------------------------------------------------
(* The inductive invariant, in parts. *)

\* Between requests nothing of the last one is left.
NothingCarried ==
  /\ pc # "saved" => saved = Null
  /\ pc = "idle" => notes = NoSession /\ body = Unset /\ req = NoRequest

\* A session is in the notes only where it can be loaded, and it is there when
\* the handler has set something.
MadeByLoad ==
  LET loads == conf.fns /\ conf.enabled /\ conf.session /\ ~req.garbled
  IN  /\ IF notes.made THEN loads ELSE notes = NoSession
      /\ pc = "handled" /\ Changed /\ loads => notes.made

\* Until the save it is decoded, unless the decoder refuses it, and dirty once
\* the handler has changed it.
NotesBeforeSave ==
  notes.made /\ pc \in {"fixups", "handled"} =>
    /\ notes.encoded = IF Readable THEN Null ELSE jar
    /\ notes.dirty <=> pc = "handled" /\ Changed /\ Readable

\* Every string of an own session has the prefix that the encoder gives it.
OwnStrings ==
  Works => \A s \in {jar, saved, notes.encoded} :
             s = Null \/ s.prefix = IF conf.encoder THEN 1 ELSE 0

\* The entries that the request leaves, the overriding header aside.
Applied ==
  IF Asks = "set" THEN [Normal(jar.data) EXCEPT ![Told("name")] = Told("value")]
                  ELSE Normal(jar.data)

\* The handler works on the entries the client sent; what it answers and what
\* the client will hold follow from them.
EntriesOfRequest ==
  Works =>
    /\ notes.made /\ pc = "fixups" => notes.entries = Normal(jar.data)
    /\ notes.made /\ pc = "handled" => notes.entries = Applied
    /\ pc \in {"handled", "saved"} =>
         body = IF Asks = "get" THEN Normal(jar.data)[Told("name")] ELSE Unset
    /\ pc = "saved" =>
         Normal((IF saved = Null THEN jar ELSE saved).data)
           = Overlay(Normal(Applied), AskedOver)

SessionInv ==
  /\ TypeOK /\ NothingCarried /\ MadeByLoad /\ NotesBeforeSave /\ OwnStrings
  /\ EntriesOfRequest /\ DirtyIsChanged
=============================================================================
