----------------------------- MODULE RequestProofs -----------------------------
(***************************************************************************)
(* What happens to a request before a handler writes: who may make it      *)
(* (AuthAny) and which module answers it, through which filters            *)
(* (Dispatch).                                                             *)
(***************************************************************************)
EXTENDS AuthAny, Dispatch, FiniteSetTheorems, SequenceTheorems, TLAPS

(* AuthAny. *)

\* The hooks run in one order only: authany's predecessor comes before it, and
\* who does not ask to be first comes last (lines 154-167).
LEMMA OrderFacts ==
  ASSUME build \in Builds, order \in Orders(build)
  PROVE  /\ order[1] = "mod_ssl"
         /\ build = "2.2" => /\ DOMAIN order = 1..3
                             /\ order[2] = "authany" /\ order[3] = "mod_auth"
         /\ build = "2.4" => DOMAIN order = 1..2 /\ order[2] = "mod_auth"
<1>1. CASE build = "2.2"
  <2>1. /\ order \in [1..3 -> {"mod_ssl", "authany", "mod_auth"}]
        /\ \A j, k \in 1..3 : j < k =>
             /\ order[j] # order[k]
             /\ First(order[k]) => First(order[j])
             /\ order[k] \notin Predecessors(order[j])
    BY <1>1 DEF Orders, UserHooks
  <2>2. {order[1], order[2], order[3]} \subseteq {"mod_ssl", "authany", "mod_auth"}
    BY <2>1
  <2>3. \A j, k \in {1, 2, 3} : j < k =>
             /\ order[j] # order[k]
             /\ First(order[k]) => First(order[j])
             /\ order[k] \notin Predecessors(order[j])
    BY <2>1
  <2>4. /\ order[1] # order[2] /\ order[1] # order[3] /\ order[2] # order[3]
        /\ First(order[3]) => First(order[1])
        /\ First(order[3]) => First(order[2])
        /\ First(order[2]) => First(order[1])
        /\ order[2] \notin Predecessors(order[1])
    BY <2>3
  <2> QED
    BY <1>1, <2>1, <2>2, <2>4 DEF First, Predecessors
<1>2. CASE build = "2.4"
  <2>1. /\ order \in [1..2 -> {"mod_ssl", "mod_auth"}]
        /\ \A j, k \in 1..2 : j < k =>
             /\ order[j] # order[k]
             /\ First(order[k]) => First(order[j])
    BY <1>2 DEF Orders, UserHooks
  <2>2. {order[1], order[2]} \subseteq {"mod_ssl", "mod_auth"}
    BY <2>1
  <2>3. order[1] # order[2] /\ (First(order[2]) => First(order[1]))
    BY <2>1
  <2> QED
    BY <1>2, <2>1, <2>2, <2>3 DEF First
<1> QED
  BY <1>1, <1>2, CredentialAssumption

\* What mod_authz_core makes of a location for somebody, and for nobody.
LEMMA AuthzFacts ==
  ASSUME loc \in Locations, claims \in Claims, NEW u
  PROVE  /\ Authz(u) \in {"granted", "no user", "denied"}
         /\ u # NoUser /\ loc.requires = {"bob"} => Authz(u) = "denied"
         /\ u # NoUser /\ loc.requires = {"valid-user"} => Authz(u) = "granted"
         /\ u \notin {NoUser, ""} /\ loc.requires = {"any-user"} => Authz(u) = "granted"
         /\ u = NoUser /\ Authz(u) = "granted" => ByEnv
         /\ /\ u = NoUser /\ loc.requires # {"env"}
            /\ "env" \in loc.requires => ~(loc.op = "Any" <=> claims.env)
            => Authz(u) = "no user"
<1> DEFINE one(r) == IF r = "env" THEN IF claims.env THEN "granted" ELSE "denied"
                     ELSE IF r = "valid-user"
                       THEN IF u = NoUser THEN "no user" ELSE "granted"
                     ELSE any_check_authorization(u, r)
           all == {one(r) : r \in loc.requires}
<1>1. /\ loc.requires \subseteq {"any-user", "bob", "valid-user", "env"}
      /\ loc.requires # {} /\ loc.op \in {"Any", "All"}
  BY DEF Locations, UserRequirement
<1>2. /\ one("env") = IF claims.env THEN "granted" ELSE "denied"
      /\ one("valid-user") = IF u = NoUser THEN "no user" ELSE "granted"
      /\ one("bob") = IF u = NoUser THEN "no user" ELSE "denied"
      /\ one("any-user") = IF u = NoUser THEN "no user"
                           ELSE IF u = "" THEN "denied" ELSE "granted"
  BY DEF any_check_authorization
<1>3. Authz(u) =
        IF loc.op = "Any"
          THEN IF "granted" \in all THEN "granted"
               ELSE IF "no user" \in all THEN "no user" ELSE "denied"
          ELSE IF "denied" \in all THEN "denied"
               ELSE IF "no user" \in all THEN "no user" ELSE "granted"
  BY DEF Authz
<1> HIDE DEF one
<1>4. \A x : x \in all <=> \E r \in loc.requires : x = one(r)
  OBVIOUS
<1>5. \A x : loc.requires = {x} => all = {one(x)}
  OBVIOUS
<1>6. /\ \E r \in loc.requires : r # "env" => loc.requires # {"env"}
      /\ loc.requires = {"env"} \/ \E r \in loc.requires : r # "env"
  BY <1>1
<1> HIDE DEF all
<1>0. claims.env \in BOOLEAN
  BY DEF Claims
<1>7. ASSUME u # NoUser, loc.requires = {"bob"}
      PROVE  Authz(u) = "denied"
  <2>1. all = {"denied"}
    BY <1>2, <1>5, <1>7
  <2> QED
    BY <1>1, <1>3, <2>1
<1>8. ASSUME u # NoUser, loc.requires = {"valid-user"}
      PROVE  Authz(u) = "granted"
  <2>1. all = {"granted"}
    BY <1>2, <1>5, <1>8
  <2> QED
    BY <1>1, <1>3, <2>1
<1>9. ASSUME u # NoUser, u # "", loc.requires = {"any-user"}
      PROVE  Authz(u) = "granted"
  <2>1. all = {"granted"}
    BY <1>2, <1>5, <1>9
  <2> QED
    BY <1>1, <1>3, <2>1
<1>10. ASSUME u = NoUser, Authz(u) = "granted" PROVE ByEnv
  <2>1. CASE loc.op = "Any"
    <3>1. "granted" \in all
      BY <1>3, <1>10, <2>1
    <3> QED
      BY <1>1, <1>2, <1>4, <1>10, <2>1, <3>1 DEF ByEnv
  <2>2. CASE loc.op = "All"
    <3>1. "denied" \notin all /\ "no user" \notin all
      BY <1>3, <1>10, <2>2
    <3>2. ASSUME NEW r \in loc.requires, r # "env" PROVE FALSE
      <4>1. one(r) \in all /\ r \in {"any-user", "bob", "valid-user"}
        BY <1>1, <1>4, <3>2
      <4>2. one(r) = "no user"
        BY <1>2, <1>10, <4>1
      <4> QED
        BY <3>1, <4>1, <4>2
    <3>3. loc.requires = {"env"}
      BY <1>6, <3>2
    <3> QED
      BY <1>2, <1>4, <3>1, <3>3 DEF ByEnv
  <2> QED
    BY <1>1, <2>1, <2>2
<1>11. ASSUME u = NoUser, loc.requires # {"env"},
              "env" \in loc.requires => ~(loc.op = "Any" <=> claims.env)
       PROVE  Authz(u) = "no user"
  <2>1. "no user" \in all
    BY <1>1, <1>2, <1>4, <1>6, <1>11
  <2>4. \A r \in loc.requires : r # "env" => one(r) = "no user"
    BY <1>1, <1>2, <1>11
  <2>2. CASE loc.op = "Any"
    <3>0. "env" \in loc.requires => ~claims.env
      BY <1>11, <2>2
    <3>1. "granted" \notin all
      BY <1>2, <1>4, <2>4, <3>0
    <3> QED
      BY <1>3, <2>1, <2>2, <3>1
  <2>3. CASE loc.op = "All"
    <3>0. "env" \in loc.requires => claims.env
      BY <1>0, <1>11, <2>3
    <3>1. "denied" \notin all
      BY <1>2, <1>4, <2>4, <3>0
    <3> QED
      BY <1>3, <2>1, <2>3, <3>1
  <2> QED
    BY <1>1, <2>2, <2>3
<1> QED
  BY <1>3, <1>7, <1>8, <1>9, <1>10, <1>11

\* The parts of the type invariant and of what a request claims.
LEMMA ClaimFacts ==
  ASSUME AuthTypeOK
  PROVE  /\ build \in {"2.2", "2.4"} /\ loc \in Locations /\ claims \in Claims
         /\ NoUser \notin Users /\ {"", "guest", "bob"} \subseteq Users
         /\ "right" \in Passwords
         /\ claims.creds = None \/ claims.creds \in [user : Users, pw : Passwords]
         /\ claims.cert \in {NoUser, "bob", "stranger"}
         /\ claims.env \in BOOLEAN
         /\ loc.provider \in {"any", "file"} /\ loc.fakebasic \in BOOLEAN
         /\ loc.op \in {"Any", "All"}
BY CredentialAssumption, ZenonT(60) DEF AuthTypeOK, Claims, Locations, NoUser

\* The certificate's name stands for the credentials, and is one of a user.
LEMMA PresentedFacts ==
  ASSUME AuthTypeOK
  PROVE  /\ Presented \in {None} \cup [user : Users \cup {"stranger"}, pw : Passwords]
         /\ ~Faked => Presented = claims.creds
         /\ loc.fakebasic /\ claims.cert = "bob" => InFile(Presented)
<1>1. NoUser # "bob"
  BY DEF NoUser
<1>2. CASE Faked
  <2>1. claims.cert \in Users \cup {"stranger"}
    BY <1>2, ClaimFacts DEF Faked
  <2>2. Presented = [user |-> claims.cert, pw |-> "right"]
    BY <1>2 DEF Presented
  <2> QED
    BY <1>2, <2>1, <2>2, ClaimFacts DEF InFile
<1>3. CASE ~Faked
  <2>1. Presented = claims.creds
    BY <1>3 DEF Presented
  <2>2. ~(loc.fakebasic /\ claims.cert = "bob")
    BY <1>1, <1>3 DEF Faked
  <2> QED
    BY <2>1, <2>2, ClaimFacts
<1> QED
  BY <1>2, <1>3

\* Which hook runs at which turn.
LEMMA TurnFacts ==
  ASSUME AuthTypeOK
  PROVE  /\ order[i] = "mod_ssl" => i = 1 /\ 2 \in DOMAIN order
         /\ order[i] = "authany" => build = "2.2" /\ i = 2 /\ 3 \in DOMAIN order
         /\ order[i] = "mod_auth" => \/ build = "2.2" /\ i = 3
                                     \/ build = "2.4" /\ i = 2
<1>1. build \in Builds /\ order \in Orders(build) /\ i \in DOMAIN order
  BY DEF AuthTypeOK
<1>2. CASE build = "2.2"
  <2>1. /\ order[1] = "mod_ssl" /\ order[2] = "authany" /\ order[3] = "mod_auth"
        /\ DOMAIN order = 1..3
    BY <1>1, <1>2, OrderFacts
  <2>2. i = 1 \/ i = 2 \/ i = 3
    BY <1>1, <2>1
  <2> QED
    BY <1>2, <2>1, <2>2
<1>3. CASE build = "2.4"
  <2>1. order[1] = "mod_ssl" /\ order[2] = "mod_auth" /\ DOMAIN order = 1..2
    BY <1>1, <1>3, OrderFacts
  <2>2. i = 1 \/ i = 2
    BY <1>1, <2>1
  <2> QED
    BY <1>3, <2>1, <2>2
<1> QED
  BY <1>1, <1>2, <1>3, CredentialAssumption

\* A request that is still before its answer has none of the properties to keep.
LEMMA Unanswered ==
  ASSUME ~Answered
  PROVE  AskedThenServed /\ CertificateIsEnough /\ OnlyTheAuthenticated
BY DEF AskedThenServed, CertificateIsEnough, OnlyTheAuthenticated, Served

\* Authorization before authentication.
LEMMA AccessStep == AuthInv /\ Access => AuthInv'
<1> SUFFICES ASSUME AuthInv, Access PROVE AuthInv'
  OBVIOUS
<1>1. /\ AuthTypeOK /\ Turns /\ phase = "access" /\ i = 1 /\ status = 0
      /\ hdr = claims.creds /\ user = NoUser /\ i' = i
      /\ UNCHANGED <<build, loc, claims, order, hdr, user>>
  BY DEF AuthInv, AuthTypeOK, Turns, Access, Answer, Answered
<1>2. Userless' = Userless
  BY <1>1 DEF Userless, Authz, any_check_authorization
<1>3. CASE build = "2.2" \/ Authz(NoUser) = "no user"
  <2>1. phase' = "authn" /\ status' = status
    BY <1>3 DEF Access
  <2>2. AuthTypeOK'
    BY <1>1, <2>1 DEF AuthTypeOK, Answered
  <2>3. Turns'
    <3>1. build = "2.4" => Userless' = "no user"
      BY <1>2, <1>3 DEF Userless
    <3>2. /\ phase' = "authn" /\ i' = 1 /\ hdr' = claims'.creds /\ user' = NoUser
          /\ build' = "2.2" => loc'.op = "Any" /\ "env" \notin loc'.requires
      BY <1>1, <2>1 DEF Turns
    <3>3. build' = "2.4" => Userless' = "no user"
      BY <1>1, <3>1
    <3>4. ~(i' > 1) /\ i' # 3 /\ phase' # "access" /\ phase' # "authz"
      BY <3>2
    <3> QED
      BY <3>2, <3>3, <3>4, Zenon DEF Turns
  <2>4. ~Answered'
    BY <2>1 DEF Answered
  <2>5. AskedThenServed' /\ CertificateIsEnough' /\ OnlyTheAuthenticated'
    BY <2>4, Unanswered DEF AskedThenServed, CertificateIsEnough, OnlyTheAuthenticated, Served
  <2> QED
    BY <2>2, <2>3, <2>5 DEF AuthInv
<1>4. CASE ~(build = "2.2" \/ Authz(NoUser) = "no user")
  <2>1. /\ phase' = "done" /\ build = "2.4"
        /\ status' = IF Authz(NoUser) = "granted" THEN 200 ELSE 403
    BY <1>1, <1>4, ClaimFacts DEF Access, Answer
  <2>2. AuthTypeOK'
    BY <1>1, <2>1 DEF AuthTypeOK, Answered
  <2>3. Turns'
    BY <1>1, <2>1 DEF Turns
  <2>4. loc.requires = {"env"} \/ ("env" \in loc.requires /\ (loc.op = "Any" <=> claims.env))
    BY <1>1, <1>4, ClaimFacts, AuthzFacts
  <2>5. AskedThenServed'
    <3>1. ~(loc.requires = {"any-user"}) /\ "env" \in loc.requires
      BY <2>4
    <3> QED
      BY <1>1, <2>4, <3>1 DEF AskedThenServed
  <2>6. CertificateIsEnough'
    BY <1>1, <2>4 DEF CertificateIsEnough
  <2>7. OnlyTheAuthenticated'
    <3>1. status' = 200 => ByEnv
      <4>1. Authz(NoUser) = "granted" => ByEnv
        BY <1>1, ClaimFacts, AuthzFacts
      <4> QED
        BY <2>1, <4>1
    <3> QED
      BY <1>1, <3>1 DEF OnlyTheAuthenticated, Served, ByEnv
  <2> QED
    BY <2>2, <2>3, <2>5, <2>6, <2>7 DEF AuthInv
<1> QED
  BY <1>3, <1>4

\* FakeBasicAuth.
LEMMA SslHookStep == AuthInv /\ SslHook => AuthInv'
<1> SUFFICES ASSUME AuthInv, SslHook PROVE AuthInv'
  OBVIOUS
<1>1. /\ AuthTypeOK /\ Turns /\ phase = "authn" /\ order[i] = "mod_ssl"
      /\ phase' = phase /\ status' = status /\ i' = i + 1
      /\ UNCHANGED <<build, loc, claims, order, user>>
  BY DEF AuthInv, SslHook
<1>2. i = 1 /\ i' = 2 /\ i' \in DOMAIN order'
  BY <1>1, TurnFacts
<1>3. hdr = claims.creds /\ user = NoUser
  BY <1>1, <1>2 DEF Turns
<1>4. hdr' = Presented /\ Presented' = Presented
  BY <1>1, <1>3 DEF SslHook, Presented, Faked
<1>5. AuthTypeOK'
  BY <1>1, <1>2, <1>4, PresentedFacts DEF AuthTypeOK, Answered
<1>6. Userless' = Userless
  BY <1>1 DEF Userless, Authz, any_check_authorization
<1>7. Turns'
  <2>1. hdr' = Presented' /\ i' # 1 /\ i' # 3
    BY <1>2, <1>4
  <2>2. build' = "2.4" => Userless' = "no user"
    BY <1>1, <1>6, Zenon DEF Turns
  <2>3. build' = "2.2" => loc'.op = "Any" /\ "env" \notin loc'.requires
    BY <1>1, Zenon DEF Turns
  <2>4. phase' = "authn" /\ phase' # "access" /\ phase' # "authz"
    BY <1>1
  <2> QED
    BY <2>1, <2>2, <2>3, <2>4, Zenon DEF Turns
<1>8. AskedThenServed' /\ CertificateIsEnough' /\ OnlyTheAuthenticated'
  BY <1>1 DEF AskedThenServed, CertificateIsEnough, OnlyTheAuthenticated, Served, Answered
<1> QED
  BY <1>5, <1>7, <1>8 DEF AuthInv

\* What a hook finds that is not the first: the credentials presented.
LEMMA HookFinds ==
  ASSUME AuthInv, phase \in {"authn", "authz"}, i > 1
  PROVE  /\ hdr = Presented /\ status = 0
         /\ hdr = None \/ hdr \in [user : Users \cup {"stranger"}, pw : Passwords]
         /\ ~Faked => hdr = claims.creds
         /\ loc.fakebasic /\ claims.cert = "bob" => InFile(hdr)
<1>1. AuthTypeOK /\ hdr = Presented
  BY DEF AuthInv, Turns
<1>2. status = 0
  BY <1>1 DEF AuthTypeOK, Answered
<1> QED
  BY <1>1, <1>2, PresentedFacts DEF AuthTypeOK

\* Nobody's credentials are somebody's.
LEMMA NotNobody ==
  /\ None.user = NoUser
  /\ NoUser # "guest" /\ NoUser # "bob" /\ NoUser # ""
  /\ \A c : InFile(c) => c.user = "bob" /\ c # None
BY DEF None, NoUser, InFile

\* A step that ends in authorization.
LEMMA ToAuthz ==
  ASSUME AuthInv, phase = "authn", i > 1, i # 1, phase' = "authz", status' = status,
         UNCHANGED <<build, loc, claims, order, hdr, i>>,
         hdr # None, user' = hdr.user, user' \notin {NoUser, ""},
         \/ loc.provider = "file" /\ InFile(hdr)
         \/ build = "2.4" /\ loc.provider = "any" /\ user' = "guest"
         \/ build = "2.2" /\ require_any_user /\ hdr.pw # ""
  PROVE  AuthInv'
<1>1. AuthTypeOK /\ Turns /\ status = 0 /\ hdr = Presented
  BY HookFinds DEF AuthInv
<1>2. hdr \in [user : Users \cup {"stranger"}, pw : Passwords]
  BY HookFinds
<1>3. AuthTypeOK'
  <2>1. user' \in Users \cup {NoUser, "stranger"}
    BY <1>2
  <2> QED
    BY <1>1, <2>1 DEF AuthTypeOK, Answered
<1>4. Authenticated' /\ Presented' = Presented
  <2>1. InFile(hdr') = InFile(hdr) /\ require_any_user' = require_any_user
    BY DEF InFile, require_any_user
  <2>2. Presented' = Presented
    BY DEF Presented, Faked
  <2> QED
    BY <2>1, <2>2, Zenon DEF Authenticated
<1>5. Turns'
  <2>1. Userless' = Userless
    BY DEF Userless, Authz, any_check_authorization
  <2>2. build' = "2.4" => Userless' = "no user"
    BY <1>1, <2>1, Zenon DEF Turns
  <2>3. build' = "2.2" => loc'.op = "Any" /\ "env" \notin loc'.requires
    BY <1>1, Zenon DEF Turns
  <2>4. i' > 1 /\ i' # 1 /\ phase' # "access" /\ phase' # "authn"
    OBVIOUS
  <2>5. hdr' = Presented'
    BY <1>1, <1>4
  <2> QED
    BY <1>4, <2>2, <2>3, <2>4, <2>5, Zenon DEF Turns
<1>6. AskedThenServed' /\ CertificateIsEnough' /\ OnlyTheAuthenticated'
  BY DEF AskedThenServed, CertificateIsEnough, OnlyTheAuthenticated, Served, Answered
<1> QED
  BY <1>3, <1>5, <1>6 DEF AuthInv

\* A step that ends in an answer.
LEMMA ToAnswer ==
  ASSUME AuthInv, phase # "access", i > 1, phase' = "done",
         status' \in {200, 401, 403, 500}, user' \in Users \cup {NoUser, "stranger"},
         UNCHANGED <<build, loc, claims, order, hdr, i>>,
         AskedThenServed', CertificateIsEnough', OnlyTheAuthenticated'
  PROVE  AuthInv'
<1>1. AuthTypeOK /\ Turns
  BY DEF AuthInv
<1>2. AuthTypeOK'
  BY <1>1 DEF AuthTypeOK, Answered
<1>3. Turns'
  <2>1. build' = "2.2" => loc'.op = "Any" /\ "env" \notin loc'.requires
    BY <1>1, ZenonT(60) DEF Turns
  <2>2. phase' # "access" /\ phase' # "authn" /\ phase' # "authz"
    OBVIOUS
  <2>3. hdr' = Presented'
    <3>1. hdr = Presented
      BY <1>1 DEF Turns
    <3> QED
      BY <3>1 DEF Presented, Faked
  <2> QED
    BY <2>1, <2>2, <2>3, ZenonT(60) DEF Turns
<1> QED
  BY <1>2, <1>3 DEF AuthInv

\* The password file, or in 2.4 the provider that knows guest.
LEMMA FileHookStep == AuthInv /\ FileHook => AuthInv'
<1> SUFFICES ASSUME AuthInv, FileHook PROVE AuthInv'
  OBVIOUS
<1>1. /\ AuthTypeOK /\ Turns /\ phase = "authn" /\ order[i] = "mod_auth"
      /\ UNCHANGED <<build, loc, claims, order, hdr>>
  BY DEF AuthInv, FileHook
<1>2. \/ build = "2.2" /\ i = 3
      \/ build = "2.4" /\ i = 2
  BY <1>1, TurnFacts
<1>3. i > 1 /\ i # 1
  BY <1>2
<1>4. /\ hdr = None \/ hdr \in [user : Users \cup {"stranger"}, pw : Passwords]
      /\ ~Faked => hdr = claims.creds
      /\ loc.fakebasic /\ claims.cert = "bob" => InFile(hdr)
  BY <1>1, <1>3, HookFinds
<1>5. /\ AuthTypeOK => /\ loc.provider \in {"any", "file"}
                       /\ build \in {"2.2", "2.4"} /\ NoUser \notin Users
  BY ClaimFacts
<1>6. Faked' = Faked
  BY <1>1 DEF Faked
<1>7. CASE build = "2.2" /\ loc.provider = "any"
  <2>1. phase' = "done" /\ status' = 500 /\ i' = i /\ user' = user
    BY <1>7 DEF FileHook, Answer
  <2>2. hdr # None /\ "any-user" \notin loc.requires
    <3>1. i = 3
      BY <1>2, <1>7
    <3> QED
      BY <1>1, <3>1 DEF Turns, require_any_user
  <2>3. AskedThenServed'
    <3>1. ~Faked' => claims'.creds # None
      BY <1>1, <1>4, <1>6, <2>2
    <3>2. loc'.requires # {"any-user"}
      BY <1>1, <2>2
    <3> QED
      BY <3>1, <3>2 DEF AskedThenServed
  <2>4. CertificateIsEnough'
    BY <1>1, <1>7 DEF CertificateIsEnough
  <2>5. OnlyTheAuthenticated'
    <3>1. status' # 200
      BY <2>1
    <3> QED
      BY <3>1, Zenon DEF OnlyTheAuthenticated, Served
  <2> QED
    BY <1>1, <1>3, <2>1, <2>3, <2>4, <2>5, ToAnswer DEF AuthTypeOK
<1>8. CASE ~(build = "2.2" /\ loc.provider = "any")
  <2> DEFINE Passes == /\ hdr # None
                       /\ IF loc.provider = "any" THEN hdr.user = "guest" ELSE InFile(hdr)
  <2>1. user' = IF hdr = None THEN user ELSE hdr.user
    BY <1>8 DEF FileHook
  <2>2. IF Passes THEN phase' = "authz" /\ i' = i /\ status' = status
                  ELSE phase' = "done" /\ i' = i /\ status' = 401
    <3>1. hdr # None => (authn_check_password(user') <=> hdr.user = "guest")
      BY <2>1, NotNobody DEF authn_check_password
    <3> QED
      BY <1>8, <3>1 DEF FileHook, Answer
  <2>3. CASE Passes
    <3>1. /\ hdr # None /\ user' = hdr.user /\ user' \notin {NoUser, ""}
          /\ \/ loc.provider = "file" /\ InFile(hdr)
             \/ build = "2.4" /\ loc.provider = "any" /\ user' = "guest"
      BY <1>1, <1>5, <1>8, <2>1, <2>3, NotNobody
    <3> QED
      BY <1>1, <1>3, <2>2, <2>3, <3>1, ToAuthz
  <2>4. CASE ~Passes
    <3>1. user' \in Users \cup {NoUser, "stranger"}
      BY <1>1, <1>4, <2>1 DEF AuthTypeOK
    <3>2. AskedThenServed'
      <4>1. ~(~Faked /\ loc.provider = "any" /\ claims.creds.user = "guest")
        BY <1>4, <2>4, NotNobody
      <4> QED
        BY <1>1, <1>6, <2>2, <2>4, <4>1 DEF AskedThenServed
    <3>3. CertificateIsEnough'
      <4>1. ~(loc.fakebasic /\ claims.cert = "bob" /\ loc.provider = "file")
        BY <1>4, <2>4, NotNobody
      <4> QED
        BY <1>1, <4>1 DEF CertificateIsEnough
    <3>4. OnlyTheAuthenticated'
      <4>1. status' # 200
        BY <2>2, <2>4
      <4> QED
        BY <4>1, Zenon DEF OnlyTheAuthenticated, Served
    <3> QED
      BY <1>1, <1>3, <2>2, <2>4, <3>1, <3>2, <3>3, <3>4, ToAnswer
  <2> QED
    BY <2>3, <2>4
<1> QED
  BY <1>7, <1>8

\* authany's hook in 2.2.
LEMMA AuthanyStep == AuthInv /\ authany_handler => AuthInv'
<1> SUFFICES ASSUME AuthInv, authany_handler PROVE AuthInv'
  OBVIOUS
<1>1. /\ AuthTypeOK /\ Turns /\ phase = "authn" /\ order[i] = "authany"
      /\ user' = IF hdr = None THEN user ELSE hdr.user
      /\ UNCHANGED <<build, loc, claims, order, hdr>>
  BY DEF AuthInv, authany_handler
<1>2. build = "2.2" /\ i = 2 /\ 3 \in DOMAIN order
  BY <1>1, TurnFacts
<1>3. i > 1 /\ i # 1
  BY <1>2
<1>4. /\ hdr = None \/ hdr \in [user : Users \cup {"stranger"}, pw : Passwords]
      /\ ~Faked => hdr = claims.creds
      /\ loc.fakebasic /\ claims.cert = "bob" => InFile(hdr)
      /\ hdr = Presented /\ status = 0
  BY <1>1, <1>3, HookFinds
<1>5. Faked' = Faked
  BY <1>1 DEF Faked
<1>6. user' \in Users \cup {NoUser, "stranger"}
  BY <1>1, <1>4 DEF AuthTypeOK
<1>7. CASE hdr = None
  <2>1. phase' = "done" /\ status' = 401 /\ i' = i
    BY <1>7 DEF authany_handler, Answer
  <2>2. AskedThenServed'
    <3>1. ~(~Faked /\ claims.creds.user = "guest")
      BY <1>4, <1>7, NotNobody
    <3> QED
      BY <1>1, <1>5, <2>1, <3>1 DEF AskedThenServed
  <2>3. CertificateIsEnough'
    <3>1. ~(loc.fakebasic /\ claims.cert = "bob")
      BY <1>4, <1>7, NotNobody
    <3> QED
      BY <1>1, <3>1 DEF CertificateIsEnough
  <2>4. OnlyTheAuthenticated'
    <3>1. status' # 200
      BY <2>1
    <3> QED
      BY <3>1, Zenon DEF OnlyTheAuthenticated, Served
  <2> QED
    BY <1>1, <1>3, <1>6, <2>1, <2>2, <2>3, <2>4, ToAnswer
<1>8. CASE hdr # None /\ ~require_any_user
  <2>1. i' = 3 /\ phase' = "authn" /\ status' = status
    BY <1>1, <1>2, <1>8 DEF authany_handler
  <2>2. AuthTypeOK'
    BY <1>1, <1>2, <1>6, <2>1 DEF AuthTypeOK, Answered
  <2>3. Turns'
    <3>1. hdr' # None /\ ~require_any_user' /\ hdr' = Presented'
      BY <1>1, <1>4, <1>8 DEF require_any_user, Presented, Faked
    <3>2. build' = "2.2" => loc'.op = "Any" /\ "env" \notin loc'.requires
      BY <1>1, Zenon DEF Turns
    <3>3. /\ i' # 1 /\ phase' # "access" /\ phase' # "authz" /\ build' # "2.4"
      BY <1>1, <1>2, <2>1
    <3> QED
      BY <3>1, <3>2, <3>3, Zenon DEF Turns
  <2>4. AskedThenServed' /\ CertificateIsEnough' /\ OnlyTheAuthenticated'
    BY <2>1 DEF AskedThenServed, CertificateIsEnough, OnlyTheAuthenticated, Served, Answered
  <2> QED
    BY <2>2, <2>3, <2>4 DEF AuthInv
<1>9. CASE hdr # None /\ require_any_user /\ (hdr.user = "" \/ hdr.pw = "")
  <2>1. phase' = "done" /\ status' = 401 /\ i' = i
    BY <1>9 DEF authany_handler, Answer
  <2>2. AskedThenServed'
    <3>1. ~(~Faked /\ claims.creds.user = "guest" /\ claims.creds.pw # "")
      BY <1>4, <1>9
    <3> QED
      BY <1>1, <1>5, <2>1, <3>1 DEF AskedThenServed
  <2>3. CertificateIsEnough'
    <3>1. loc.requires # {"valid-user"}
      BY <1>9 DEF require_any_user
    <3> QED
      BY <1>1, <3>1 DEF CertificateIsEnough
  <2>4. OnlyTheAuthenticated'
    <3>1. status' # 200
      BY <2>1
    <3> QED
      BY <3>1, Zenon DEF OnlyTheAuthenticated, Served
  <2> QED
    BY <1>1, <1>3, <1>6, <2>1, <2>2, <2>3, <2>4, ToAnswer
<1>10. CASE hdr # None /\ require_any_user /\ hdr.user # "" /\ hdr.pw # ""
  <2>1. phase' = "authz" /\ status' = status /\ i' = i
    BY <1>10 DEF authany_handler
  <2>2. user' = hdr.user /\ user' \notin {NoUser, ""}
    BY <1>1, <1>4, <1>10, ClaimFacts DEF NoUser
  <2> QED
    BY <1>1, <1>2, <1>3, <1>10, <2>1, <2>2, ToAuthz
<1> QED
  BY <1>7, <1>8, <1>9, <1>10

\* The decision for somebody.
LEMMA DecisionStep ==
  ASSUME AuthInv, phase = "authz", phase' = "done", i' = i,
         UNCHANGED <<build, loc, claims, order, hdr, user>>,
         NEW granted, status' = IF granted THEN 200 ELSE 401,
         "any-user" \in loc.requires /\ loc.requires = {"any-user"} => granted,
         loc.requires = {"valid-user"} => granted,
         granted /\ loc.requires = {"bob"} => build = "2.2" /\ user = "bob"
  PROVE  AuthInv'
<1>1. AuthTypeOK /\ Authenticated /\ i > 1
  BY DEF AuthInv, Turns
<1>2. /\ hdr # None
      /\ ~Faked => hdr = claims.creds
      /\ loc.fakebasic /\ claims.cert = "bob" => InFile(hdr)
  BY <1>1, HookFinds DEF Authenticated
<1>3. Faked' = Faked
  BY DEF Faked
<1>4. user' \in Users \cup {NoUser, "stranger"}
  BY <1>1 DEF AuthTypeOK
<1>5. AskedThenServed'
  <2>1. ~Faked => claims.creds # None
    BY <1>2
  <2>2. loc'.requires = {"any-user"} => status' = 200
    <3>1. loc.requires = {"any-user"} => granted
      OBVIOUS
    <3> QED
      BY <3>1
  <2>3. ~Faked' => claims'.creds # None
    BY <1>3, <2>1
  <2> QED
    BY <2>2, <2>3, Zenon DEF AskedThenServed
<1>6. CertificateIsEnough'
  BY DEF CertificateIsEnough
<1>7. OnlyTheAuthenticated'
  <2>1. /\ user' \notin {NoUser, ""} /\ user' = hdr'.user
        /\ \/ loc'.provider = "file" /\ InFile(hdr')
           \/ build' = "2.4" /\ loc'.provider = "any" /\ user' = "guest"
           \/ build' = "2.2" /\ require_any_user' /\ hdr'.pw # ""
    <3>1. InFile(hdr') = InFile(hdr) /\ require_any_user' = require_any_user
      BY DEF InFile, require_any_user
    <3> QED
      BY <1>1, <3>1 DEF Authenticated
  <2>2. status' = 200 /\ loc'.requires = {"bob"} => build' = "2.2" /\ user' = "bob"
    OBVIOUS
  <2> QED
    BY <2>1, <2>2, Zenon DEF OnlyTheAuthenticated, Served
<1> QED
  BY <1>1, <1>4, <1>5, <1>6, <1>7, ToAnswer

LEMMA Authz22Step == AuthInv /\ Authz22 => AuthInv'
<1> SUFFICES ASSUME AuthInv, Authz22 PROVE AuthInv'
  OBVIOUS
<1> DEFINE granted == \/ require_any_user
                      \/ "valid-user" \in loc.requires \/ user \in loc.requires
<1>1. /\ phase = "authz" /\ phase' = "done" /\ i' = i /\ build = "2.2"
      /\ UNCHANGED <<build, loc, claims, order, hdr, user>>
      /\ status' = IF granted THEN 200 ELSE 401
  BY DEF Authz22, Answer
<1>2. loc.requires = {"any-user"} => granted
  BY DEF require_any_user
<1>3. loc.requires = {"valid-user"} => granted
  OBVIOUS
<1>4. granted /\ loc.requires = {"bob"} => build = "2.2" /\ user = "bob"
  BY <1>1 DEF require_any_user
<1> HIDE DEF granted
<1> QED
  BY <1>1, <1>2, <1>3, <1>4, DecisionStep

LEMMA Authz24Step == AuthInv /\ Authz24 => AuthInv'
<1> SUFFICES ASSUME AuthInv, Authz24 PROVE AuthInv'
  OBVIOUS
<1> DEFINE granted == Authz(user) = "granted"
<1>1. /\ phase = "authz" /\ phase' = "done" /\ i' = i /\ build = "2.4"
      /\ UNCHANGED <<build, loc, claims, order, hdr, user>>
      /\ status' = IF granted THEN 200 ELSE 401
  BY DEF Authz24, Answer
<1>2. loc \in Locations /\ claims \in Claims /\ user \notin {NoUser, ""}
  BY <1>1 DEF AuthInv, AuthTypeOK, Turns, Authenticated
<1>3. loc.requires = {"any-user"} => granted
  BY <1>2, AuthzFacts
<1>4. loc.requires = {"valid-user"} => granted
  BY <1>2, AuthzFacts
<1>5. granted /\ loc.requires = {"bob"} => FALSE
  BY <1>2, AuthzFacts
<1> HIDE DEF granted
<1> QED
  BY <1>1, <1>3, <1>4, <1>5, DecisionStep

\* The invariant of a request's way through authentication and authorization.
THEOREM AuthInvariant == AuthSpec => []AuthInv
<1>1. AuthInit => AuthInv
  <2> SUFFICES ASSUME AuthInit PROVE AuthInv
    OBVIOUS
  <2>1. /\ build \in Builds /\ loc \in Locations /\ claims \in Claims
        /\ order \in Orders(build) /\ hdr = claims.creds /\ user = NoUser
        /\ phase = "access" /\ i = 1 /\ status = 0
        /\ build = "2.2" => loc.op = "Any" /\ "env" \notin loc.requires
    BY DEF AuthInit
  <2>2. 1 \in DOMAIN order
    <3>1. build \in {"2.2", "2.4"}
      BY <2>1, CredentialAssumption
    <3>2. CASE build = "2.2"
      BY <2>1, <3>2, OrderFacts
    <3>3. CASE build = "2.4"
      BY <2>1, <3>3, OrderFacts
    <3> QED
      BY <3>1, <3>2, <3>3
  <2>3. hdr \in {None} \cup [user : Users \cup {"stranger"}, pw : Passwords]
    BY <2>1 DEF Claims
  <2>4. AuthTypeOK
    BY <2>1, <2>2, <2>3 DEF AuthTypeOK, Answered
  <2>5. Turns
    <3>1. phase # "authn" /\ phase # "authz" /\ ~(i > 1)
      BY <2>1
    <3> QED
      BY <2>1, <3>1, Zenon DEF Turns
  <2>6. AskedThenServed /\ CertificateIsEnough /\ OnlyTheAuthenticated
    <3>1. ~Answered
      BY <2>1 DEF Answered
    <3> QED
      BY <3>1, Unanswered
  <2> QED
    BY <2>4, <2>5, <2>6 DEF AuthInv
<1>2. AuthInv /\ [AuthNext]_authVars => AuthInv'
  <2>1. AuthInv /\ UNCHANGED authVars => AuthInv'
    <3> SUFFICES ASSUME AuthInv, UNCHANGED authVars PROVE AuthInv'
      OBVIOUS
    <3>1. UNCHANGED <<build, loc, claims, order, hdr, user, phase, i, status>>
      BY DEF authVars
    <3>2. AuthTypeOK'
      BY <3>1, SMT DEF AuthInv, AuthTypeOK, Answered
    <3>3. Turns'
      BY <3>1, Zenon DEF AuthInv, Turns, Authenticated, Presented, Faked, Userless, Authz,
             any_check_authorization, require_any_user, InFile
    <3>4. /\ Answered' = Answered /\ Faked' = Faked /\ status' = status
          /\ ByEnv' = ByEnv /\ InFile(hdr)' = InFile(hdr)
          /\ require_any_user' = require_any_user
      BY <3>1 DEF Answered, Faked, ByEnv, InFile, require_any_user
    <3>5. AskedThenServed'
      BY <3>1, <3>4, ZenonT(60) DEF AuthInv, AskedThenServed
    <3>6. CertificateIsEnough'
      BY <3>1, <3>4 DEF AuthInv, CertificateIsEnough
    <3>7. OnlyTheAuthenticated'
      BY <3>1, <3>4, ZenonT(60) DEF AuthInv, OnlyTheAuthenticated, Served, InFile
    <3> QED
      BY <3>2, <3>3, <3>5, <3>6, <3>7 DEF AuthInv
  <2> QED
    BY <2>1, AccessStep, SslHookStep, FileHookStep, AuthanyStep, Authz22Step, Authz24Step
    DEF AuthNext, Stays
<1> QED
  BY <1>1, <1>2, PTL DEF AuthSpec

\* A request that names nobody is asked who it is, and guest is served
\* (authany 39-50, 117-152).
THEOREM AskedThenServedHolds == AuthSpec => []AskedThenServed
<1>1. AuthInv => AskedThenServed
  BY DEF AuthInv
<1> QED
  BY <1>1, AuthInvariant, PTL

\* A certificate that stands for a known user is enough, although authany's
\* hook asks to run first (154-167).
THEOREM CertificateIsEnoughHolds == AuthSpec => []CertificateIsEnough
<1>1. AuthInv => CertificateIsEnough
  BY DEF AuthInv
<1> QED
  BY <1>1, AuthInvariant, PTL

\* Nobody is served without having been authenticated by what the location
\* asks, whatever names and passwords there are (27-50, 89-152).
THEOREM OnlyTheAuthenticatedHolds == AuthSpec => []OnlyTheAuthenticated
<1>1. AuthInv => OnlyTheAuthenticated
  BY DEF AuthInv
<1> QED
  BY <1>1, AuthInvariant, PTL

-----------------------------------------------------------------------------
(* Dispatch. *)

\* A sequence that grows by y has one place more for y and no other.
LEMMA PlacesAppend ==
  ASSUME NEW S, NEW s \in Seq(S), NEW x, NEW y \in S
  PROVE  /\ IsFiniteSet(Places(x, s)) /\ Cardinality(Places(x, s)) \in Nat
         /\ Cardinality(Places(x, Append(s, y)))
              = Cardinality(Places(x, s)) + IF x = y THEN 1 ELSE 0
<1>1. /\ Len(s) \in Nat /\ DOMAIN s = 1..Len(s)
      /\ Append(s, y) \in Seq(S) /\ Len(Append(s, y)) = Len(s) + 1
      /\ DOMAIN Append(s, y) = 1..(Len(s) + 1)
      /\ \A n \in 1..Len(s) : Append(s, y)[n] = s[n]
      /\ Append(s, y)[Len(s) + 1] = y
  OBVIOUS
<1>2. IsFiniteSet(Places(x, s)) /\ Cardinality(Places(x, s)) \in Nat
  <2>1. Places(x, s) \subseteq 1..Len(s)
    BY <1>1 DEF Places
  <2>2. IsFiniteSet(1..Len(s))
    BY <1>1, FS_Interval
  <2> QED
    BY <2>1, <2>2, FS_Subset, FS_CardinalityType
<1>3. Len(s) + 1 \notin Places(x, s)
  BY <1>1 DEF Places
<1>4. CASE x = y
  <2>1. Places(x, Append(s, y)) = Places(x, s) \cup {Len(s) + 1}
    BY <1>1, <1>4 DEF Places
  <2> QED
    BY <1>2, <1>3, <1>4, <2>1, FS_AddElement
<1>5. CASE x # y
  <2>1. Places(x, Append(s, y)) = Places(x, s)
    BY <1>1, <1>5 DEF Places
  <2> QED
    BY <1>2, <1>5, <2>1
<1> QED
  BY <1>2, <1>4, <1>5

LEMMA PlacesEmpty == ASSUME NEW x PROVE Cardinality(Places(x, <<>>)) = 0
<1>1. Places(x, <<>>) = {}
  BY DEF Places
<1> QED
  BY <1>1, FS_EmptySet

\* What has been read of a sequence grows by the element read.
LEMMA ReadOne ==
  ASSUME NEW S, NEW s \in Seq(S), NEW n \in DOMAIN s
  PROVE  /\ SubSeq(s, 1, n - 1) \in Seq(S)
         /\ SubSeq(s, 1, (n + 1) - 1) = Append(SubSeq(s, 1, n - 1), s[n])
<1>1. n \in 1..Len(s) /\ Len(s) \in Nat
  OBVIOUS
<1>2. SubSeq(s, 1, n - 1) \in Seq(S) /\ Len(SubSeq(s, 1, n - 1)) = n - 1
  BY <1>1
<1>3. SubSeq(s, 1, n) \in Seq(S) /\ Len(SubSeq(s, 1, n)) = n
  BY <1>1
<1>4. /\ \A m \in 1..n : SubSeq(s, 1, n)[m] = s[m]
      /\ \A m \in 1..(n - 1) : SubSeq(s, 1, n - 1)[m] = s[m]
  BY <1>1
<1>5. SubSeq(s, 1, n) = Append(SubSeq(s, 1, n - 1), s[n])
  BY <1>1, <1>2, <1>3, <1>4
<1>6. (n + 1) - 1 = n
  BY <1>1
<1> QED
  BY <1>2, <1>5, <1>6

\* The parts of the type invariant and of what a request is.
LEMMA DispatchFacts ==
  ASSUME TypeOK
  PROVE  /\ loaded \subseteq Hooks /\ untried \subseteq loaded
         /\ req.headers \in Seq(Header) /\ req.method \in Methods
         /\ req.name \in Names \cup {NULL} /\ req.http11 \in BOOLEAN
         /\ {"GET", "POST", "PUT"} \subseteq Methods
         /\ answer = "none" \/ answer \in Hooks
BY DispatchAssumption DEF TypeOK, Requests

\* The request_recs a hook takes, by name and method.
LEMMA TakesWhat ==
  /\ Takes("echo_post") <=> handler = "echo_post" /\ req.method = "POST"
  /\ Takes("eat_post") <=> handler = "eat_post" /\ req.method \in {"POST", "PUT"}
  /\ Takes("echo_post_chunk") <=> handler = "echo_post_chunk" /\ req.method = "POST"
  /\ Takes("test_rwrite") <=> handler = "test_rwrite" /\ req.method = "GET"
  /\ Takes("test_pass_brigade") <=> handler = "test_pass_brigade" /\ req.method = "GET"
  /\ Takes("random_chunk") <=>
       handler = "random_chunk" /\ req.method = "GET" /\ req.http11
  /\ Takes("test_session") <=> handler = "test-session-handler" /\ req.method \in Methods
  /\ Takes("fold") <=> handler \in {"fold", "FOLD"}
  /\ Takes("list_modules") <=> handler = "list_modules" /\ req.method = "GET"
  /\ Takes("test_apr_uri") <=> handler = "test-apr-uri" /\ req.method = "GET"
  /\ Takes("test_ssl_var") <=> handler = "test-ssl-var-lookup" /\ req.method = "GET"
  /\ Takes("test_ssl_ext") <=> handler = "test-ssl-ext-lookup" /\ req.method = "GET"
  /\ Takes("input_body_filter") <=>
       handler = "echo_post" /\ req.method \in Methods \ {"POST"}
BY DEF Takes, On, echo_post_handler, eat_post_handler, echo_post_chunk_handler,
       test_rwrite_handler, test_pass_brigade_handler, random_chunk_handler,
       test_session_handler, fold_handler, list_modules_handler, test_apr_uri_handler,
       test_ssl_var_lookup, test_ssl_ext_lookup, input_body_filter_response_handler

Handlers == Hooks \ {"client_add_filter"}

\* No two of them take the same.
LEMMA OneTakes ==
  ASSUME NEW h \in Handlers, NEW k \in Handlers, Takes(h), Takes(k)
  PROVE  h = k
<1>1. h \in {"echo_post", "input_body_filter"} \/ h \notin {"echo_post", "input_body_filter"}
  OBVIOUS
<1> QED
  BY TakesWhat DEF Handlers, Hooks

\* What a hook leaves, whether it takes the request or not.
LEMMA LeavesWhat ==
  ASSUME NEW h \in Handlers
  PROVE  /\ Leaves(h) \subseteq Marks
         /\ ~Takes(h) => Leaves(h) \subseteq {"allowed GET"}
         /\ ~Takes(h) => ("allowed GET" \in Leaves(h) <=>
              \/ h = "test_apr_uri"
              \/ h = "random_chunk" /\ handler = "random_chunk" /\ req.http11)
BY TakesWhat DEF Handlers, Hooks, Leaves, Marks, Mark, random_chunk_marks,
     test_apr_uri_marks, fold_marks, test_ssl_var_marks, random_chunk_handler, On,
     test_apr_uri_handler, fold_handler, test_ssl_var_lookup, test_session_handler

\* Both depend on nothing but the request and its handler.
LEMMA SameWhat ==
  ASSUME handler' = handler, req' = req, NEW h \in Handlers
  PROVE  (Takes(h)' <=> Takes(h)) /\ Leaves(h)' = Leaves(h)
BY DEF Handlers, Hooks, Takes, On, echo_post_handler, eat_post_handler,
       echo_post_chunk_handler, test_rwrite_handler, test_pass_brigade_handler,
       random_chunk_handler, test_session_handler, fold_handler, list_modules_handler,
       test_apr_uri_handler, test_ssl_var_lookup, test_ssl_ext_lookup,
       input_body_filter_response_handler,
       Leaves, Mark, random_chunk_marks, test_apr_uri_marks, fold_marks, test_ssl_var_marks

\* What the core calls a request once the fixups have run.
Called == IF /\ "input_body_filter" \in loaded
             /\ req.method = "POST" /\ req.name = "input-body-filter"
            THEN "echo_post"
          ELSE IF req.name = NULL THEN "text/html" ELSE req.name

LEMMA CalledFacts ==
  ASSUME TypeOK
  PROVE  Called \in Names
BY DispatchFacts DEF Called, Names, NULL

\* A step that asks no hook keeps what those asked have left.
LEMMA NobodyAsked ==
  ASSUME TypeOK, MarksOfAsked, UNCHANGED <<loaded, req, marks, untried, answer>>,
         pc # "done",
         handler' = handler \/ Asked = {},
         pc' \in {"handlers", "done"} \/ Asked = {},
         pc' = "done" => untried = {}
  PROVE  MarksOfAsked'
<1>1. Asked' = Asked
  BY DEF Asked
<1>2. marks' = UNION {Leaves(h)' : h \in Asked'}
  <2>1. CASE Asked = {}
    BY <1>1, <2>1 DEF MarksOfAsked
  <2>2. CASE handler' = handler
    <3>1. \A h \in Asked : h \in Handlers
      BY DispatchFacts DEF Asked, Handlers
    <3>2. \A h \in Asked : Leaves(h)' = Leaves(h)
      BY <2>2, <3>1, SameWhat
    <3> QED
      BY <1>1, <3>2 DEF MarksOfAsked
  <2> QED
    BY <2>1, <2>2
<1>3. \A h \in Asked' : Takes(h)' <=> h = answer'
  <2> SUFFICES ASSUME NEW h \in Asked' PROVE Takes(h)' <=> h = answer'
    OBVIOUS
  <2>1. h \in Asked /\ h \in Handlers /\ handler' = handler
    BY <1>1, DispatchFacts DEF Asked, Handlers
  <2>2. Takes(h)' <=> Takes(h)
    BY <2>1, SameWhat
  <2>3. Takes(h) <=> h = answer
    BY <2>1 DEF MarksOfAsked
  <2> QED
    BY <2>2, <2>3
<1>4. /\ pc' \notin {"handlers", "done"} => Asked' = {}
      /\ "client_add_filter" \notin untried'
      /\ pc' = "done" /\ answer' = "none" => untried' = {}
  BY <1>1 DEF MarksOfAsked
<1> QED
  BY <1>2, <1>3, <1>4 DEF MarksOfAsked

LEMMA FixupStep == DispatchInv /\ Fixup => DispatchInv'
<1> SUFFICES ASSUME DispatchInv, Fixup PROVE DispatchInv'
  OBVIOUS
<1>1. /\ TypeOK /\ Renamed /\ MarksOfAsked /\ FiltersSoFar
      /\ pc = "fixups" /\ pc' = "insert"
      /\ UNCHANGED <<loaded, req, enabled, filters, at, marks, untried, answer>>
  BY DEF DispatchInv, Fixup, FixupTo
<1>2. handler' = Called'
  BY <1>1 DEF Fixup, FixupTo, Renamed, Called
<1>3. TypeOK'
  <2>1. handler' \in Names
    <3>1. Called' = Called
      BY <1>1 DEF Called
    <3> QED
      BY <1>1, <1>2, <3>1, CalledFacts
  <2> QED
    BY <1>1, <2>1 DEF TypeOK
<1>4. Renamed'
  BY <1>1, <1>2 DEF Renamed, Called
<1>5. MarksOfAsked'
  <2>1. Asked = {}
    BY <1>1 DEF MarksOfAsked
  <2> QED
    BY <1>1, <2>1, NobodyAsked
<1>6. FiltersSoFar'
  BY <1>1 DEF FiltersSoFar
<1> QED
  BY <1>3, <1>4, <1>5, <1>6 DEF DispatchInv

LEMMA HeadStays ==
  ASSUME NEW S, NEW s \in Seq(S), s # <<>>, NEW y \in S
  PROVE  Append(s, y) # <<>> /\ Head(Append(s, y)) = Head(s)
OBVIOUS

LEMMA InsertConfiguredStep == DispatchInv /\ InsertConfigured => DispatchInv'
<1> SUFFICES ASSUME DispatchInv, InsertConfigured PROVE DispatchInv'
  OBVIOUS
<1>1. /\ TypeOK /\ Renamed /\ MarksOfAsked /\ FiltersSoFar
      /\ pc = "insert" /\ pc' = "insert last"
      /\ UNCHANGED <<loaded, req, enabled, handler, at, marks, untried, answer>>
      /\ filters' = IF enabled THEN Append(filters, IBF) ELSE filters
  BY DEF DispatchInv, InsertConfigured
<1>2. filters = <<>> /\ at = 1
  BY <1>1 DEF FiltersSoFar
<1>3. TypeOK'
  <2>1. filters' \in Seq({IBF, "other"})
    <3>1. <<>> \in Seq({IBF, "other"}) /\ Append(<<>>, IBF) \in Seq({IBF, "other"})
      OBVIOUS
    <3>2. filters' = <<>> \/ filters' = Append(<<>>, IBF)
      BY <1>1, <1>2, Zenon
    <3> QED
      BY <3>1, <3>2
  <2> QED
    BY <1>1, <2>1 DEF TypeOK
<1>4. Renamed'
  BY <1>1 DEF Renamed
<1>5. MarksOfAsked'
  <2>1. Asked = {}
    BY <1>1 DEF MarksOfAsked
  <2> QED
    BY <1>1, <2>1, NobodyAsked
<1>6. FiltersSoFar'
  <2>1. Cardinality(Places(IBF, <<>>)) = 0 /\ Cardinality(Places(AskIBF, <<>>)) = 0
    BY PlacesEmpty
  <2>2. SubSeq(req.headers, 1, at - 1) = <<>>
    <3>1. req.headers \in Seq(Header)
      BY <1>1, DispatchFacts
    <3> QED
      BY <1>2, <3>1
  <2>3. enabled => /\ filters' # <<>> /\ Head(filters') = IBF
                   /\ Cardinality(Places(IBF, filters')) = 1
    <3>1. <<>> \in Seq({IBF})
      OBVIOUS
    <3>2. Cardinality(Places(IBF, Append(<<>>, IBF)))
            = Cardinality(Places(IBF, <<>>)) + IF IBF = IBF THEN 1 ELSE 0
      BY <3>1, PlacesAppend, Zenon
    <3>3. Append(<<>>, IBF) # <<>> /\ Head(Append(<<>>, IBF)) = IBF
      OBVIOUS
    <3>4. enabled => filters' = Append(<<>>, IBF)
      BY <1>1, <1>2
    <3> QED
      BY <2>1, <3>2, <3>3, <3>4
  <2>4. ~enabled => Cardinality(Places(IBF, filters')) = 0
    BY <1>1, <1>2, <2>1
  <2>5. Cardinality(Places(AskIBF, SubSeq(req'.headers, 1, at' - 1))) = 0
    BY <1>1, <2>1, <2>2
  <2>6. Cardinality(Places(IBF, filters')) = IF enabled' THEN 1 ELSE 0
    BY <1>1, <2>3, <2>4
  <2>7. Cardinality(Places(IBF, filters'))
          = (IF enabled' THEN 1 ELSE 0)
            + (IF {"client_add_filter", "input_body_filter"} \subseteq loaded'
                 THEN Cardinality(Places(AskIBF, SubSeq(req'.headers, 1, at' - 1)))
                 ELSE 0)
    BY <2>5, <2>6
  <2>8. enabled' => "input_body_filter" \in loaded' /\ filters' # <<>> /\ Head(filters') = IBF
    BY <1>1, <2>3 DEF FiltersSoFar
  <2>9. pc' = "insert last"
    BY <1>1
  <2> QED
    BY <2>7, <2>8, <2>9, Zenon DEF FiltersSoFar
<1> QED
  BY <1>3, <1>4, <1>5, <1>6 DEF DispatchInv

\* The callback, for the header it is at.
LEMMA HeaderStep == DispatchInv /\ client_add_filter_header => DispatchInv'
<1> SUFFICES ASSUME DispatchInv, client_add_filter_header PROVE DispatchInv'
  OBVIOUS
<1> DEFINE h == req.headers[at]
           read == SubSeq(req.headers, 1, at - 1)
           both == {"client_add_filter", "input_body_filter"} \subseteq loaded
<1>1. /\ TypeOK /\ Renamed /\ MarksOfAsked /\ FiltersSoFar
      /\ pc = "insert last" /\ "client_add_filter" \in loaded /\ pc' = pc
      /\ at \in DOMAIN req.headers /\ at' = at + 1
      /\ UNCHANGED <<loaded, req, enabled, handler, marks, untried, answer>>
      /\ filters' = IF Adds(h) THEN Append(filters, h.val) ELSE filters
  BY DEF DispatchInv, client_add_filter_header
<1>2. req.headers \in Seq(Header) /\ filters \in Seq({IBF, "other"})
  BY <1>1, DispatchFacts DEF TypeOK
<1>0. at \in DOMAIN req.headers /\ at' = at + 1
  BY <1>1
<1>3. h \in Header /\ at' \in 1..(Len(req.headers) + 1)
  BY <1>0, <1>2
<1>4. h.key \in {"X-AddInputFilter", "X-AddOutputFilter", "Host"} /\ h.val \in {IBF, "other"}
  BY <1>3 DEF Header
<1>5. /\ read \in Seq(Header)
      /\ SubSeq(req.headers, 1, at' - 1) = Append(read, h)
  BY <1>1, <1>2, ReadOne
<1>6. AskIBF = h <=> h.key = "X-AddInputFilter" /\ h.val = IBF
  BY <1>3 DEF Header, AskIBF
<1>7. both => (Adds(h) /\ h.val = IBF <=> AskIBF = h)
  BY <1>6 DEF Adds, Known
<1>8. ~both => ~(Adds(h) /\ h.val = IBF)
  BY <1>1 DEF Adds, Known
<1> HIDE DEF h, read, both
<1>9. TypeOK'
  <2>1. filters' \in Seq({IBF, "other"})
    <3>1. Append(filters, h.val) \in Seq({IBF, "other"})
      BY <1>2, <1>4
    <3>2. filters' = Append(filters, h.val) \/ filters' = filters
      BY <1>1
    <3> QED
      BY <1>2, <3>1, <3>2
  <2> QED
    BY <1>1, <1>3, <2>1 DEF TypeOK
<1>10. Renamed'
  BY <1>1 DEF Renamed
<1>11. MarksOfAsked'
  <2>1. Asked = {}
    BY <1>1 DEF MarksOfAsked
  <2> QED
    BY <1>1, <2>1, NobodyAsked
<1>12. FiltersSoFar'
  <2>1. /\ Cardinality(Places(IBF, filters))
             = (IF enabled THEN 1 ELSE 0)
               + (IF both THEN Cardinality(Places(AskIBF, read)) ELSE 0)
        /\ enabled => filters # <<>> /\ Head(filters) = IBF
        /\ enabled => "input_body_filter" \in loaded
    BY <1>1 DEF FiltersSoFar, both, read
  <2>2. Cardinality(Places(IBF, filters)) \in Nat
    BY <1>2, PlacesAppend
  <2>3. /\ Cardinality(Places(AskIBF, read)) \in Nat
        /\ Cardinality(Places(AskIBF, Append(read, h)))
             = Cardinality(Places(AskIBF, read)) + IF AskIBF = h THEN 1 ELSE 0
    BY <1>3, <1>5, PlacesAppend
  <2>4. Cardinality(Places(IBF, filters'))
          = Cardinality(Places(IBF, filters)) + IF Adds(h) /\ h.val = IBF THEN 1 ELSE 0
    <3>1. CASE Adds(h)
      <4>1. Cardinality(Places(IBF, Append(filters, h.val)))
              = Cardinality(Places(IBF, filters)) + IF IBF = h.val THEN 1 ELSE 0
        BY <1>2, <1>4, PlacesAppend
      <4> QED
        BY <1>1, <3>1, <4>1
    <3>2. CASE ~Adds(h)
      <4>1. filters' = filters
        BY <1>1, <3>2
      <4> QED
        BY <2>2, <3>2, <4>1
    <3> QED
      BY <3>1, <3>2
  <2>5. Cardinality(Places(IBF, filters'))
          = (IF enabled THEN 1 ELSE 0)
            + (IF both THEN Cardinality(Places(AskIBF, Append(read, h))) ELSE 0)
    <3>1. CASE both
      <4>1. Adds(h) /\ h.val = IBF <=> AskIBF = h
        BY <1>7, <3>1
      <4>2. CASE AskIBF = h
        BY <2>1, <2>2, <2>3, <2>4, <3>1, <4>1, <4>2
      <4>3. CASE AskIBF # h
        BY <2>1, <2>2, <2>3, <2>4, <3>1, <4>1, <4>3
      <4> QED
        BY <4>2, <4>3
    <3>2. CASE ~both
      BY <1>8, <2>1, <2>2, <2>4, <3>2
    <3> QED
      BY <3>1, <3>2
  <2>6. enabled => filters' # <<>> /\ Head(filters') = IBF
    <3>1. filters # <<>> => /\ Append(filters, h.val) # <<>>
                            /\ Head(Append(filters, h.val)) = Head(filters)
      BY <1>2, <1>4, HeadStays
    <3> QED
      BY <1>1, <2>1, <3>1
  <2>7. pc' = "insert last" /\ both' = both
    BY <1>1 DEF both
  <2> QED
    BY <1>1, <1>5, <2>1, <2>5, <2>6, <2>7 DEF FiltersSoFar, both
<1> QED
  BY <1>9, <1>10, <1>11, <1>12 DEF DispatchInv

\* A step that leaves the filters alone.
LEMMA FiltersStay ==
  ASSUME FiltersSoFar, UNCHANGED <<loaded, req, enabled, filters, at>>,
         pc \in {"insert last", "handlers", "done"},
         pc' \in {"handlers", "done"},
         \/ pc # "insert last"
         \/ "client_add_filter" \in loaded => at = Len(req.headers) + 1
  PROVE  FiltersSoFar'
BY DEF FiltersSoFar

LEMMA InsertedStep == DispatchInv /\ Inserted => DispatchInv'
<1> SUFFICES ASSUME DispatchInv, Inserted PROVE DispatchInv'
  OBVIOUS
<1>1. /\ TypeOK /\ Renamed /\ MarksOfAsked /\ FiltersSoFar
      /\ pc = "insert last" /\ pc' = "handlers"
      /\ UNCHANGED <<loaded, req, enabled, handler, filters, at, marks, untried, answer>>
      /\ "client_add_filter" \in loaded => at \notin DOMAIN req.headers
  BY DEF DispatchInv, Inserted
<1>2. handler \in Names /\ handler # NULL
  <2>1. handler = Called
    BY <1>1 DEF Renamed, Called
  <2> QED
    BY <1>1, <2>1, CalledFacts DEF Names, NULL
<1>3. TypeOK'
  BY <1>1, <1>2 DEF TypeOK
<1>4. Renamed'
  BY <1>1 DEF Renamed
<1>5. MarksOfAsked'
  BY <1>1, NobodyAsked
<1>6. "client_add_filter" \in loaded => at = Len(req.headers) + 1
  <2>1. req.headers \in Seq(Header) /\ at \in 1..(Len(req.headers) + 1)
    BY <1>1, DispatchFacts DEF TypeOK
  <2>2. at \notin DOMAIN req.headers => at = Len(req.headers) + 1
    BY <2>1
  <2> QED
    BY <1>1, <2>2
<1>7. FiltersSoFar'
  BY <1>1, <1>6, FiltersStay
<1> QED
  BY <1>3, <1>4, <1>5, <1>7 DEF DispatchInv

LEMMA HandleStep ==
  ASSUME DispatchInv, NEW h \in Hooks, Handle(h)
  PROVE  DispatchInv'
<1>1. /\ TypeOK /\ Renamed /\ MarksOfAsked /\ FiltersSoFar
      /\ pc = "handlers" /\ h \in untried /\ untried' = untried \ {h}
      /\ marks' = marks \cup Leaves(h)
      /\ UNCHANGED <<loaded, req, enabled, handler, filters, at>>
  BY DEF DispatchInv, Handle
<1>2. IF Takes(h) THEN answer' = h /\ pc' = "done" ELSE answer' = answer /\ pc' = pc
  BY DEF Handle
<1>3. h \in Handlers /\ h \in loaded /\ h # "none" /\ answer = "none"
  BY <1>1, DispatchFacts DEF MarksOfAsked, Handlers, Hooks, TypeOK
<1>4. pc' \in {"handlers", "done"} /\ handler # NULL
  BY <1>1, <1>2 DEF TypeOK
<1>5. TypeOK'
  <2>1. marks' \subseteq Marks
    BY <1>1, <1>3, LeavesWhat DEF TypeOK
  <2>2. answer' \in loaded \cup {"none"} /\ (answer' # "none" => pc' = "done")
    BY <1>2, <1>3
  <2> QED
    BY <1>1, <1>4, <2>1, <2>2 DEF TypeOK
<1>6. Renamed'
  BY <1>1, <1>4 DEF Renamed
<1>7. MarksOfAsked'
  <2>1. Asked' = Asked \cup {h} /\ h \notin Asked
    BY <1>1, <1>3 DEF Asked, Handlers
  <2>2. \A k \in Asked' : k \in Handlers
    BY <1>3, <2>1, <1>1, DispatchFacts DEF Asked, Handlers
  <2>3. \A k \in Asked' : Leaves(k)' = Leaves(k) /\ (Takes(k)' <=> Takes(k))
    BY <1>1, <2>2, SameWhat
  <2>4. marks' = UNION {Leaves(k)' : k \in Asked'}
    <3>1. marks' = UNION {Leaves(k) : k \in Asked'}
      BY <1>1, <2>1 DEF MarksOfAsked
    <3> QED
      BY <2>3, <3>1
  <2>5. \A k \in Asked' : Takes(k)' <=> k = answer'
    <3> SUFFICES ASSUME NEW k \in Asked' PROVE Takes(k)' <=> k = answer'
      OBVIOUS
    <3>1. Takes(k)' <=> Takes(k)
      BY <2>3
    <3>2. CASE k = h
      BY <1>2, <1>3, <3>1, <3>2
    <3>3. CASE k # h
      <4>1. k \in Asked /\ (Takes(k) <=> k = answer)
        BY <1>1, <2>1, <3>3 DEF MarksOfAsked
      <4>2. k # "none"
        BY <2>2 DEF Handlers, Hooks
      <4>3. ~Takes(k) /\ k # answer'
        BY <1>2, <1>3, <3>3, <4>1, <4>2
      <4> QED
        BY <3>1, <4>3
    <3> QED
      BY <3>2, <3>3
  <2>6. "client_add_filter" \notin untried'
    BY <1>1 DEF MarksOfAsked
  <2>7. ~(pc' = "done" /\ answer' = "none")
    BY <1>1, <1>2, <1>3
  <2> QED
    BY <1>4, <2>4, <2>5, <2>6, <2>7 DEF MarksOfAsked
<1>8. FiltersSoFar'
  BY <1>1, <1>4, FiltersStay
<1> QED
  BY <1>5, <1>6, <1>7, <1>8 DEF DispatchInv

LEMMA DefaultStep == DispatchInv /\ Default => DispatchInv'
<1> SUFFICES ASSUME DispatchInv, Default PROVE DispatchInv'
  OBVIOUS
<1>1. /\ TypeOK /\ Renamed /\ MarksOfAsked /\ FiltersSoFar
      /\ pc = "handlers" /\ untried = {} /\ pc' = "done"
      /\ UNCHANGED <<loaded, req, enabled, handler, filters, at, marks, untried, answer>>
  BY DEF DispatchInv, Default
<1>2. TypeOK'
  BY <1>1 DEF TypeOK
<1>3. Renamed'
  BY <1>1 DEF Renamed
<1>4. MarksOfAsked'
  BY <1>1, NobodyAsked
<1>5. FiltersSoFar'
  BY <1>1, FiltersStay
<1> QED
  BY <1>2, <1>3, <1>4, <1>5 DEF DispatchInv

\* The invariant of a request's way through the hooks.
THEOREM DispatchInvariant == Spec => []DispatchInv
<1>1. Init => DispatchInv
  <2> SUFFICES ASSUME Init PROVE DispatchInv
    OBVIOUS
  <2>1. /\ loaded \in LoadedSets /\ req \in Requests /\ enabled \in BOOLEAN
        /\ enabled => "input_body_filter" \in loaded
        /\ handler = req.name /\ filters = <<>> /\ at = 1 /\ marks = {}
        /\ untried = loaded \ {"client_add_filter"}
        /\ pc = "fixups" /\ answer = "none"
    BY DEF Init
  <2>2. req.headers \in Seq(Header) /\ req.name \in Names \cup {NULL}
    BY <2>1, DispatchAssumption DEF Requests
  <2>3. TypeOK
    <3>1. at \in 1..(Len(req.headers) + 1) /\ filters \in Seq({IBF, "other"})
      BY <2>1, <2>2
    <3> QED
      BY <2>1, <2>2, <3>1 DEF TypeOK
  <2>4. Renamed
    BY <2>1 DEF Renamed
  <2>5. MarksOfAsked
    <3>1. Asked = {}
      BY <2>1 DEF Asked
    <3> QED
      BY <2>1, <3>1 DEF MarksOfAsked
  <2>6. FiltersSoFar
    BY <2>1 DEF FiltersSoFar
  <2> QED
    BY <2>3, <2>4, <2>5, <2>6 DEF DispatchInv
<1>2. DispatchInv /\ [Next]_vars => DispatchInv'
  <2>1. DispatchInv /\ UNCHANGED vars => DispatchInv'
    <3> SUFFICES ASSUME DispatchInv, UNCHANGED vars PROVE DispatchInv'
      OBVIOUS
    <3>1. UNCHANGED <<loaded, req, enabled, handler, filters, at, marks, untried, pc, answer>>
      BY DEF vars
    <3>2. TypeOK'
      BY <3>1 DEF DispatchInv, TypeOK
    <3>3. Renamed'
      BY <3>1 DEF DispatchInv, Renamed
    <3>4. MarksOfAsked'
      <4>1. /\ Asked' = Asked /\ \A h \in Asked : h \in Handlers
        BY <3>1, DispatchFacts DEF DispatchInv, Asked, Handlers
      <4>2. \A h \in Asked : (Takes(h)' <=> Takes(h)) /\ Leaves(h)' = Leaves(h)
        BY <3>1, <4>1, SameWhat
      <4>3. marks' = UNION {Leaves(h)' : h \in Asked'}
        BY <3>1, <4>1, <4>2 DEF DispatchInv, MarksOfAsked
      <4>4. \A h \in Asked' : Takes(h)' <=> h = answer'
        BY <3>1, <4>1, <4>2 DEF DispatchInv, MarksOfAsked
      <4> QED
        BY <3>1, <4>1, <4>3, <4>4 DEF DispatchInv, MarksOfAsked
    <3>5. FiltersSoFar'
      BY <3>1 DEF DispatchInv, FiltersSoFar
    <3> QED
      BY <3>2, <3>3, <3>4, <3>5 DEF DispatchInv
  <2> QED
    BY <2>1, FixupStep, InsertConfiguredStep, HeaderStep, InsertedStep, HandleStep,
       DefaultStep DEF Next, Finished
<1> QED
  BY <1>1, <1>2, PTL DEF Spec

\* Whatever modules are loaded, at most one answers a request, and the filter's
\* own location is shared by method (echo_post 19-24, input_body_filter 38-62).
THEOREM OneOwnerHolds == Spec => []OneOwner
<1>1. DispatchInv => OneOwner
  <2> SUFFICES ASSUME DispatchInv, pc = "handlers"
               PROVE  LET owners == {h \in loaded \ {"client_add_filter"} : Takes(h)}
                      IN  /\ Cardinality(owners) <= 1
                          /\ /\ req.name = "input-body-filter"
                             /\ {"input_body_filter", "echo_post"} \subseteq loaded
                             => owners = IF req.method = "POST" THEN {"echo_post"} ELSE {}
    BY DEF OneOwner
  <2> DEFINE owners == {h \in loaded \ {"client_add_filter"} : Takes(h)}
  <2>1. TypeOK /\ handler = Called
    BY DEF DispatchInv, Renamed, Called
  <2>2. \A h \in owners : h \in Handlers /\ Takes(h)
    BY <2>1, DispatchFacts DEF Handlers
  <2>3. \A h, k \in owners : h = k
    BY <2>2, OneTakes
  <2>4. Cardinality(owners) <= 1
    <3>1. CASE owners = {}
      BY <3>1, FS_EmptySet
    <3>2. CASE owners # {}
      <4>1. PICK h \in owners : owners = {h}
        BY <2>3, <3>2
      <4>2. Cardinality({h}) = 1
        BY FS_Singleton
      <4> QED
        BY <4>1, <4>2
    <3> QED
      BY <3>1, <3>2
  <2>5. ASSUME req.name = "input-body-filter",
               {"input_body_filter", "echo_post"} \subseteq loaded
        PROVE  owners = IF req.method = "POST" THEN {"echo_post"} ELSE {}
    <3>1. CASE req.method = "POST"
      <4>1. Takes("echo_post")
        BY <2>1, <2>5, <3>1, TakesWhat DEF Called
      <4>2. "echo_post" \in owners
        BY <2>5, <4>1
      <4> QED
        BY <2>3, <3>1, <4>2
    <3>2. CASE req.method # "POST"
      <4>1. handler = "input-body-filter"
        BY <2>1, <2>5, <3>2 DEF Called, NULL
      <4>2. \A h \in Handlers : ~Takes(h)
        BY <4>1, TakesWhat DEF Handlers, Hooks
      <4> QED
        BY <2>2, <3>2, <4>2
    <3> QED
      BY <3>1, <3>2
  <2> QED
    BY <2>4, <2>5
<1> QED
  BY <1>1, DispatchInvariant, PTL

\* A handler that declines leaves at most GET among the allowed methods.
THEOREM NothingLeftBehindHolds == Spec => []NothingLeftBehind
<1>1. DispatchInv => NothingLeftBehind
  <2> SUFFICES ASSUME DispatchInv, NEW m \in marks
               PROVE  m \in {"allowed GET"} \cup IF answer = "none" THEN {} ELSE Leaves(answer)
    BY DEF NothingLeftBehind
  <2>1. /\ TypeOK /\ \A h \in Asked : Takes(h) <=> h = answer
        /\ marks = UNION {Leaves(h) : h \in Asked}
    BY DEF DispatchInv, MarksOfAsked
  <2>2. PICK h \in Asked : m \in Leaves(h)
    BY <2>1
  <2>3. h \in Handlers /\ h # "none"
    BY <2>1, DispatchFacts DEF Asked, Handlers, Hooks
  <2>4. CASE h = answer
    BY <2>2, <2>3, <2>4
  <2>5. CASE h # answer
    <3>1. ~Takes(h)
      BY <2>1, <2>5
    <3> QED
      BY <2>2, <2>3, <3>1, LeavesWhat
  <2> QED
    BY <2>4, <2>5
<1> QED
  BY <1>1, DispatchInvariant, PTL

\* What an unanswered request is told it may do depends on the modules and the
\* request, not on the order of asking (random_chunk 116-124, test_apr_uri 278).
THEOREM AllowIsOrderFreeHolds == Spec => []AllowIsOrderFree
<1>1. DispatchInv => AllowIsOrderFree
  <2> SUFFICES ASSUME DispatchInv, pc = "done", answer = "none"
               PROVE  "allowed GET" \in marks <=>
                        \/ "test_apr_uri" \in loaded
                        \/ /\ "random_chunk" \in loaded /\ req.http11
                           /\ req.name = "random_chunk"
    BY DEF AllowIsOrderFree, Done
  <2>1. /\ TypeOK /\ handler = Called /\ untried = {}
        /\ \A h \in Asked : Takes(h) <=> h = answer
        /\ marks = UNION {Leaves(h) : h \in Asked}
    BY DEF DispatchInv, MarksOfAsked, Renamed, Called
  <2>2. Asked = loaded \ {"client_add_filter"}
    BY <2>1 DEF Asked
  <2>3. \A h \in Asked : h \in Handlers /\ h # "none" /\ ~Takes(h)
    BY <2>1, DispatchFacts DEF Asked, Handlers, Hooks
  <2>4. \A h \in Asked : "allowed GET" \in Leaves(h) <=>
          \/ h = "test_apr_uri"
          \/ h = "random_chunk" /\ handler = "random_chunk" /\ req.http11
    BY <2>3, LeavesWhat
  <2>5. handler = "random_chunk" <=> req.name = "random_chunk"
    BY <2>1 DEF Called, NULL
  <2>6. "allowed GET" \in marks <=> \E h \in Asked : "allowed GET" \in Leaves(h)
    BY <2>1
  <2> QED
    BY <2>2, <2>4, <2>5, <2>6
<1> QED
  BY <1>1, DispatchInvariant, PTL

\* However many headers a request has, the filter is in the chain once for the
\* directive and once for each header that asks for it.
THEOREM FilterOnceEachHolds == Spec => []FilterOnceEach
<1>1. DispatchInv => FilterOnceEach
  <2> SUFFICES ASSUME DispatchInv, pc \in {"handlers", "done"} PROVE FilterOnceEach
    BY DEF FilterOnceEach
  <2>1. TypeOK /\ FiltersSoFar
    BY DEF DispatchInv
  <2>2. req.headers \in Seq(Header)
    BY <2>1, DispatchFacts
  <2>3. "client_add_filter" \in loaded => SubSeq(req.headers, 1, at - 1) = req.headers
    <3>1. SubSeq(req.headers, 1, Len(req.headers)) = req.headers
      BY <2>2
    <3>2. "client_add_filter" \in loaded => at = Len(req.headers) + 1
      BY <2>1 DEF FiltersSoFar
    <3>3. Len(req.headers) \in Nat /\ (Len(req.headers) + 1) - 1 = Len(req.headers)
      BY <2>2
    <3> QED
      BY <3>1, <3>2, <3>3
  <2> QED
    BY <2>1, <2>3 DEF FiltersSoFar, FilterOnceEach
<1> QED
  BY <1>1, DispatchInvariant, PTL
=============================================================================
