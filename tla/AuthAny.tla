-------------------------------- MODULE AuthAny --------------------------------
(***************************************************************************)
(* Authentication and authorization of one request with                    *)
(* c-modules/authany/mod_authany.c loaded, in its two builds: the hooks it *)
(* gives httpd 2.2 and the providers it gives httpd 2.4.  The core, mod_ssl*)
(* with FakeBasicAuth, mod_auth_basic with a password file and             *)
(* mod_authz_core around it are external.                                  *)
(*                                                                         *)
(* A location requires a set of "any-user" (require user any-user), "bob"  *)
(* (require user bob), "valid-user" and "env" (a non-user requirement the  *)
(* request meets or not).  The password file knows bob and "right".        *)
(***************************************************************************)
EXTENDS Integers, Sequences

CONSTANTS Builds,     \* the servers, among "2.2" and "2.4"
          Users,      \* the names that credentials carry, "" among them
          Passwords   \* and the passwords, "" among them

ASSUME CredentialAssumption ==
  /\ Builds \subseteq {"2.2", "2.4"}
  /\ {"", "guest", "bob"} \subseteq Users /\ {"", "right"} \subseteq Passwords
  /\ "NULL" \notin Users

NoUser == "NULL"      \* r->user without one; not a name
None == [user |-> NoUser, pw |-> NoUser]

UserRequirement == {"any-user", "bob", "valid-user"}
Locations == [requires : (SUBSET (UserRequirement \cup {"env"})) \ {{}},
              op : {"Any", "All"}, provider : {"any", "file"},
              fakebasic : BOOLEAN]
Claims == [creds : {None} \cup [user : Users, pw : Passwords],
             cert : {NoUser, "bob", "stranger"}, env : BOOLEAN]

VARIABLES build, loc, claims,
          order,       \* the check_user_id hooks, in the order they run
          hdr, user,   \* the Authorization header; r->user
          phase,       \* "access", "authn", "authz", "done"
          i,           \* the next hook of order
          status       \* what the request is answered with, 0 before

authVars == <<build, loc, claims, order, hdr, user, phase, i, status>>

UserHooks(b) == IF b = "2.2" THEN {"mod_ssl", "authany", "mod_auth"}
                         ELSE {"mod_ssl", "mod_auth"}

\* Faulty variant: the hook is registered without predecessors.
NoPredecessors(h) == {}

\* Both ask to be FIRST; authany's hook names mod_ssl.c as a predecessor.
Predecessors(h) == IF h = "authany" THEN {"mod_ssl"} ELSE {}
First(h) == h \in {"mod_ssl", "authany"}

\* The orders apr_hook_sort may give (external).
Orders(b) ==
  LET n == IF b = "2.2" THEN 3 ELSE 2
  IN  {s \in [1..n -> UserHooks(b)] :
         \A j, k \in 1..n : j < k =>
           /\ s[j] # s[k]
           /\ First(s[k]) => First(s[j])
           /\ s[k] \notin Predecessors(s[j])}

AuthInit ==
  /\ build \in Builds
  /\ loc \in {l \in Locations : build = "2.2" =>
                                  l.op = "Any" /\ "env" \notin l.requires}
  /\ claims \in Claims
  /\ order \in Orders(build)
  /\ hdr = claims.creds /\ user = NoUser
  /\ phase = "access" /\ i = 1 /\ status = 0

Answer(code) == phase' = "done" /\ status' = code /\ UNCHANGED i

-----------------------------------------------------------------------------
(* The 2.4 build: an authentication and an authorization provider.          *)

authn_check_password(u) == u # NoUser /\ u = "guest"

\* Faulty variant: without a user it denies.
DeniesWithoutUser(u, requirement) ==
  IF u \notin {NoUser, ""} /\ requirement = "any-user" THEN "granted" ELSE "denied"

any_check_authorization(u, requirement) ==
  IF u = NoUser THEN "no user"
  ELSE IF u # "" /\ requirement = "any-user" THEN "granted" ELSE "denied"

\* mod_authz_core (external): each requirement, and their combination.
Authz(u) ==
  LET one(r) == IF r = "env" THEN IF claims.env THEN "granted" ELSE "denied"
                ELSE IF r = "valid-user"
                  THEN IF u = NoUser THEN "no user" ELSE "granted"
                ELSE any_check_authorization(u, r)
      all    == {one(r) : r \in loc.requires}
      first(s) == IF s[1] \in all THEN s[1] ELSE IF s[2] \in all THEN s[2] ELSE s[3]
  IN  IF loc.op = "Any" THEN first(<<"granted", "no user", "denied">>)
                        ELSE first(<<"denied", "no user", "granted">>)

\* Before authentication: only a missing user sends the request on.
Access ==
  /\ phase = "access"
  /\ IF build = "2.2" \/ Authz(NoUser) = "no user"
       THEN phase' = "authn" /\ UNCHANGED <<i, status>>
       ELSE Answer(IF Authz(NoUser) = "granted" THEN 200 ELSE 403)
  /\ UNCHANGED <<build, loc, claims, order, hdr, user>>

Authz24 ==
  /\ phase = "authz" /\ build = "2.4"
  /\ Answer(IF Authz(user) = "granted" THEN 200 ELSE 401)
  /\ UNCHANGED <<build, loc, claims, order, hdr, user>>

-----------------------------------------------------------------------------
(* The check_user_id hooks. *)

InFile(c) == c = [user |-> "bob", pw |-> "right"]

\* FakeBasicAuth (external): the certificate's name becomes the credentials.
SslHook ==
  /\ phase = "authn" /\ order[i] = "mod_ssl"
  /\ hdr' = IF loc.fakebasic /\ claims.cert # NoUser
              THEN [user |-> claims.cert, pw |-> "right"] ELSE hdr
  /\ i' = i + 1
  /\ UNCHANGED <<build, loc, claims, order, user, phase, status>>

\* A password file, or in 2.4 the "any" provider (external but for "any");
\* without a file the 2.2 module declines, and nobody else is left to ask.
FileHook ==
  /\ phase = "authn" /\ order[i] = "mod_auth"
  /\ IF build = "2.2" /\ loc.provider = "any"
       THEN Answer(500) /\ UNCHANGED user
       ELSE /\ user' = IF hdr = None THEN user ELSE hdr.user
            /\ IF hdr # None /\ IF loc.provider = "any"
                                  THEN authn_check_password(user') ELSE InFile(hdr)
                 THEN phase' = "authz" /\ UNCHANGED <<i, status>>
                 ELSE Answer(401)
  /\ UNCHANGED <<build, loc, claims, order, hdr>>

\* The 2.2 build: OK for the requirement it serves, DECLINED otherwise.
require_any_user == "any-user" \in loc.requires

\* Faulty variant: the requirement is not looked at.
HandlerForAll ==
  /\ phase = "authn" /\ order[i] = "authany"
  /\ user' = IF hdr = None THEN user ELSE hdr.user
  /\ IF hdr = None \/ hdr.user = "" \/ hdr.pw = "" THEN Answer(401)
     ELSE phase' = "authz" /\ UNCHANGED <<i, status>>
  /\ UNCHANGED <<build, loc, claims, order, hdr>>

\* ap_get_basic_auth_pw challenges first, whatever the location requires.
authany_handler ==
  /\ phase = "authn" /\ order[i] = "authany"
  /\ user' = IF hdr = None THEN user ELSE hdr.user
  /\ IF hdr = None THEN Answer(401)
     ELSE IF ~require_any_user
       THEN i' = i + 1 /\ UNCHANGED <<phase, status>>
     ELSE IF hdr.user = "" \/ hdr.pw = "" THEN Answer(401)
     ELSE phase' = "authz" /\ UNCHANGED <<i, status>>
  /\ UNCHANGED <<build, loc, claims, order, hdr>>

\* auth_checker: authany's require_any_user FIRST, then mod_auth's (external).
Authz22 ==
  /\ phase = "authz" /\ build = "2.2"
  /\ Answer(IF \/ require_any_user
               \/ "valid-user" \in loc.requires \/ user \in loc.requires
              THEN 200 ELSE 401)
  /\ UNCHANGED <<build, loc, claims, order, hdr, user>>

Stays == phase = "done" /\ UNCHANGED authVars

AuthNext == Access \/ SslHook \/ FileHook \/ authany_handler \/ Authz22 \/ Authz24
        \/ Stays

AuthSpec == AuthInit /\ [][AuthNext]_authVars

-----------------------------------------------------------------------------
(* Correctness. *)

Answered == phase = "done"
Served == Answered /\ status = 200
Faked == loc.fakebasic /\ claims.cert # NoUser
ByEnv == "env" \in loc.requires /\ claims.env /\ (loc.op = "Any" \/ loc.requires = {"env"})

AuthTypeOK ==
  /\ build \in Builds /\ loc \in Locations /\ claims \in Claims
  /\ order \in Orders(build) /\ i \in DOMAIN order
  /\ hdr \in {None} \cup [user : Users \cup {"stranger"}, pw : Passwords]
  /\ user \in Users \cup {NoUser, "stranger"}
  /\ phase \in {"access", "authn", "authz", "done"}
  /\ status \in {0, 200, 401, 403, 500} /\ (status # 0 <=> Answered)

\* t/http11/basicauth.t in both builds: a request that names nobody is asked who
\* it is (401), never turned away (403), unless requirements on other things
\* decide alone, and guest is then served where any-user is required.  The
\* provider runs before authentication too (lines 43-49); the 2.2 hook
\* challenges before it looks at the requirement (119-151).
AskedThenServed ==
  LET others == loc.requires \cap {"env"}
      decided == \/ loc.requires = {"env"}
                 \/ others # {} /\ (loc.op = "Any" <=> claims.env)
  IN  Answered /\ ~Faked =>
        /\ claims.creds = None /\ ~decided => status = 401
        /\ /\ loc.requires = {"any-user"} /\ loc.provider = "any"
           /\ claims.creds.user = "guest" /\ claims.creds.pw # ""
           => status = 200

\* Lines 157-166: whoever's certificate stands for a known user is served
\* where FakeBasicAuth and the password file ask for a valid user, with or
\* without credentials of its own, although authany's hook also asks to run
\* first and answers 401 to a request that has no header yet.
CertificateIsEnough ==
  Answered /\ loc.fakebasic /\ claims.cert = "bob" /\ loc.provider = "file"
       /\ loc.requires = {"valid-user"}
    => status = 200

\* Nobody is served without having been authenticated by what the location
\* asks: the file, the provider that knows only guest, or in 2.2 any name with
\* any password where any-user is required, and nowhere else.  "user bob" is
\* bob in 2.2 and nobody in 2.4 (60-62): t/modules/authz_core.t:99 says
\* "mod_authany overrides the 'user' provider, so we can't check users directly".
OnlyTheAuthenticated ==
  Served /\ ~ByEnv =>
    /\ user \notin {NoUser, ""} /\ user = hdr.user
    /\ \/ loc.provider = "file" /\ InFile(hdr)
       \/ build = "2.4" /\ loc.provider = "any" /\ user = "guest"
       \/ build = "2.2" /\ require_any_user /\ hdr.pw # ""
    /\ loc.requires = {"bob"} => build = "2.2" /\ user = "bob"

-----------------------------------------------------------------------------
(* The inductive form. *)

\* The credentials once mod_ssl's hook has run.
Presented == IF Faked THEN [user |-> claims.cert, pw |-> "right"] ELSE claims.creds

\* What stands for a user where authorization begins.
Authenticated ==
  /\ hdr # None /\ user = hdr.user /\ user \notin {NoUser, ""}
  /\ \/ loc.provider = "file" /\ InFile(hdr)
     \/ build = "2.4" /\ loc.provider = "any" /\ user = "guest"
     \/ build = "2.2" /\ require_any_user /\ hdr.pw # ""

\* What Access has found.
Userless == Authz(NoUser)

\* Whose turn it is, and what the hooks before have left.
Turns ==
  /\ build = "2.2" => loc.op = "Any" /\ "env" \notin loc.requires
  /\ phase = "access" => i = 1
  /\ phase \in {"access", "authn"} /\ i = 1 => hdr = claims.creds /\ user = NoUser
  /\ i > 1 => hdr = Presented
  /\ phase \in {"authn", "authz"} /\ build = "2.4" => Userless = "no user"
  /\ phase = "authn" /\ i = 3 => hdr # None /\ ~require_any_user
  /\ phase = "authz" => i > 1 /\ Authenticated

AuthInv ==
  /\ AuthTypeOK /\ Turns
  /\ AskedThenServed /\ CertificateIsEnough /\ OnlyTheAuthenticated
=============================================================================
