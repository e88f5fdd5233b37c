----------------------------- MODULE OneShotServer -----------------------------
(***************************************************************************)
(* The two tests that fork a server of their own for httpd to proxy to:    *)
(*   "fcgi"  t/modules/proxy_fcgi.t: the child is a FastCGI responder and  *)
(*           tells the parent through a pipe when it listens;              *)
(*   "uds"   t/modules/proxy.t:102-112: the parent becomes                 *)
(*           scripts/uds-test.pl, the child sleeps and goes on testing.    *)
(* Either server serves one connection and ends.                           *)
(*                                                                         *)
(* How long two seconds are is not modelled: in a `late` world a timeout   *)
(* may come first, in the others it waits for what can still happen.       *)
(***************************************************************************)
EXTENDS Integers

Worlds == [kind : {"fcgi", "uds"},
           forks : BOOLEAN,   \* fork succeeds
           opens : BOOLEAN,   \* the socket can be opened
           accepts : BOOLEAN, \* Accept returns no error
           port : BOOLEAN,    \* httpd proxies to where the server listens
           late : BOOLEAN,    \* the server may need more than two seconds
           term : BOOLEAN]    \* kill 'TERM' is delivered

VARIABLES world,
          tpc,       \* the tester: "start", "select", "sleep", "get",
                     \* "response", "waitpid", "kill", "exited"
          spc,       \* the server: "none", "open", "signal", "accept",
                     \* "handle", "close", "exited"
          listening, \* the server's socket
          pipe,      \* the byte in the pipe
          killed,    \* TERM is on its way to the server
          conn,      \* httpd's connection: "none", "asked", "queued",
                     \* "answered", "failed"
          code,      \* what GET returned, 0 before
          oks        \* "none", or whether the tester's check passed

testVars == <<world, tpc, spc, listening, pipe, killed, conn, code, oks>>

ServersTypeOK ==
  /\ world \in Worlds
  /\ tpc \in {"start", "select", "sleep", "get", "response", "waitpid",
             "kill", "exited"}
  /\ spc \in {"none", "open", "signal", "accept", "handle", "close", "exited"}
  /\ listening \in BOOLEAN /\ pipe \in BOOLEAN /\ killed \in BOOLEAN
  /\ conn \in {"none", "asked", "queued", "answered", "failed"}
  /\ code \in {0, 200, 503} /\ oks \in {"none", "ok", "not ok"}

ServersInit ==
  /\ world \in {w \in Worlds : w.kind = "uds" => w.port /\ w.term}
  /\ tpc = "start" /\ spc = "none"
  /\ listening = FALSE /\ pipe = FALSE /\ killed = FALSE
  /\ conn = "none" /\ code = 0 /\ oks = "none"

FCGI == world.kind = "fcgi"

-----------------------------------------------------------------------------
(* The tester. *)

\* A failed fork ends the fcgi test; in the other, `if ($pid)` takes it for
\* the child's side and goes on without a server.
Fork ==
  /\ tpc = "start"
  /\ spc' = IF world.forks THEN "open" ELSE "none"
  /\ IF FCGI /\ ~world.forks
       THEN tpc' = "exited" /\ oks' = "not ok"
       ELSE tpc' = (IF FCGI THEN "select" ELSE "sleep") /\ UNCHANGED oks
  /\ UNCHANGED <<world, listening, pipe, killed, conn, code>>

CanRead ==
  /\ tpc = "select" /\ pipe
  /\ tpc' = "get"
  /\ UNCHANGED <<world, spc, listening, pipe, killed, conn, code, oks>>

\* Nothing in the pipe within two seconds.  The parent holds the writing end
\* too, so that a child that dies does not make the pipe readable.
SelectTimesOut ==
  /\ tpc = "select" /\ ~pipe
  /\ world.late \/ spc = "exited"
  /\ tpc' = "kill" /\ oks' = "not ok"
  /\ UNCHANGED <<world, spc, listening, pipe, killed, conn, code>>

\* The signal is sent, and the test exits without waiting for the child.
Kill ==
  /\ tpc = "kill"
  /\ killed' = world.term /\ tpc' = "exited"
  /\ UNCHANGED <<world, spc, listening, pipe, conn, code, oks>>

SleepEnds ==
  /\ tpc = "sleep"
  /\ world.late \/ listening \/ spc \in {"none", "exited"}
  /\ tpc' = "get"
  /\ UNCHANGED <<world, spc, listening, pipe, killed, conn, code, oks>>

Get ==
  /\ tpc = "get"
  /\ conn' = "asked" /\ tpc' = "response"
  /\ UNCHANGED <<world, spc, listening, pipe, killed, code, oks>>

\* Faulty variant: the test does not wait for its child.
ResponseWithoutWaitpid ==
  /\ tpc = "response" /\ conn \in {"answered", "failed"}
  /\ code' = IF conn = "answered" THEN 200 ELSE 503
  /\ oks' = IF code' = 200 THEN "ok" ELSE "not ok"
  /\ tpc' = "exited"
  /\ UNCHANGED <<world, spc, listening, pipe, killed, conn>>

Response ==
  /\ tpc = "response" /\ conn \in {"answered", "failed"}
  /\ code' = IF conn = "answered" THEN 200 ELSE 503
  /\ oks' = IF code' = 200 THEN "ok" ELSE "not ok"
  /\ tpc' = IF FCGI THEN "waitpid" ELSE "exited"
  /\ UNCHANGED <<world, spc, listening, pipe, killed, conn>>

Waitpid ==
  /\ tpc = "waitpid" /\ spc = "exited"
  /\ tpc' = "exited"
  /\ UNCHANGED <<world, spc, listening, pipe, killed, conn, code, oks>>

-----------------------------------------------------------------------------
(* The server. *)

\* Faulty variants: the byte is written before the socket is open; the socket
\* is left to the next request.
OpenAfterSignal ==
  /\ spc = "open"
  /\ IF FCGI /\ ~pipe THEN pipe' = TRUE /\ UNCHANGED <<spc, listening>>
     ELSE spc' = "accept" /\ listening' = world.opens /\ UNCHANGED pipe
  /\ UNCHANGED <<world, tpc, killed, conn, code, oks>>

CloseAndAcceptAgain ==
  /\ spc = "close"
  /\ spc' = "accept"
  /\ UNCHANGED <<world, tpc, listening, pipe, killed, conn, code, oks>>

\* bind and listen.  Where they fail the uds server dies; the fcgi child does
\* so only if FCGI::OpenSocket (external) ends it, as nobody looks at the
\* socket, and else goes on as if it had one.
Open ==
  /\ spc = "open"
  /\ listening' = world.opens
  /\ \/ FCGI /\ spc' = "signal"
     \/ ~FCGI /\ world.opens /\ spc' = "accept"
     \/ ~world.opens /\ spc' = "exited"
  /\ UNCHANGED <<world, tpc, pipe, killed, conn, code, oks>>

Signal ==
  /\ spc = "signal"
  /\ pipe' = TRUE /\ spc' = "accept"
  /\ UNCHANGED <<world, tpc, listening, killed, conn, code, oks>>

Accept ==
  /\ spc = "accept" /\ world.accepts /\ conn = "queued"
  /\ spc' = "handle"
  /\ UNCHANGED <<world, tpc, listening, pipe, killed, conn, code, oks>>

\* No socket, an interrupt, or a connection that breaks: no request is handled.
AcceptFails ==
  /\ spc = "accept"
  /\ listening => ~world.accepts
  /\ spc' = "close"
  /\ UNCHANGED <<world, tpc, listening, pipe, killed, conn, code, oks>>

Answer ==
  /\ spc = "handle"
  /\ conn' = "answered" /\ spc' = "close"
  /\ UNCHANGED <<world, tpc, listening, pipe, killed, code, oks>>

\* A connection that nobody has accepted is closed with the socket.
CloseSocket ==
  /\ spc = "close"
  /\ listening' = FALSE /\ spc' = "exited"
  /\ conn' = IF conn = "queued" THEN "failed" ELSE conn
  /\ UNCHANGED <<world, tpc, pipe, killed, code, oks>>

\* TERM ends the child wherever it is, some time after it was sent.
Terminate ==
  /\ killed /\ spc \notin {"none", "exited"}
  /\ listening' = FALSE /\ spc' = "exited"
  /\ UNCHANGED <<world, tpc, pipe, killed, conn, code, oks>>

-----------------------------------------------------------------------------
\* httpd (external): the connection waits in the backlog of a listening
\* socket, or is refused.
Connect ==
  /\ conn = "asked"
  /\ conn' = IF listening /\ world.port THEN "queued" ELSE "failed"
  /\ UNCHANGED <<world, tpc, spc, listening, pipe, killed, code, oks>>

Tester == \/ Fork \/ CanRead \/ SelectTimesOut \/ Kill \/ SleepEnds
          \/ Get \/ Response \/ Waitpid
OneShot == Open \/ Signal \/ Accept \/ AcceptFails \/ Answer \/ CloseSocket

ServersNext == Tester \/ OneShot \/ Terminate \/ Connect

\* Accept returns when there is a connection, or no socket; nothing else is
\* sure to wake it.
Awake == spc = "accept" => conn = "queued" \/ ~listening

\* Every process runs; signals arrive; httpd answers.
ServersSpec ==
  /\ ServersInit /\ [][ServersNext]_testVars
  /\ WF_testVars(Tester) /\ WF_testVars(Awake /\ OneShot)
  /\ WF_testVars(Terminate) /\ WF_testVars(Connect)

-----------------------------------------------------------------------------
(* Correctness. *)

\* The handshake of lines 41-45 and 63: once the parent has read the byte its
\* GET is answered, however slow the child was.  It fails only if the port
\* guess (83-87) is wrong, if there was no socket, of which the byte says
\* nothing (41), or if Accept returns an error (51).
ReadyMeansListening ==
  FCGI /\ world.port /\ world.opens /\ world.accepts /\ code # 0 => code = 200

\* A test that has made its request waits for its child (122-123): the next one
\* finds the port free.  One that gave up (63-73) may exit before its server,
\* but TERM is then on the way to it, unless it cannot be delivered.
NothingLeftOver ==
  FCGI /\ tpc = "exited" =>
    \/ spc \in {"none", "exited"} /\ ~listening
    \/ code = 0 /\ (killed \/ ~world.term)

\* The worlds in which somebody waits for a connection that never comes.
Forsaken ==
  /\ world.forks /\ world.opens
  /\ IF FCGI THEN ~world.port \/ (world.late /\ ~world.term)
             ELSE world.late

\* In all others both processes end, also when the fork, the socket or Accept
\* fails, when the timeout comes too early, and whatever order they run in.
BothEnd ==
  Forsaken \/ <>(tpc = "exited" /\ spc \in {"none", "exited"} /\ ~listening)

=============================================================================
