------------------------------- MODULE NntpLike -------------------------------
(***************************************************************************)
(* c-modules/nntp_like/mod_nntp_like.c: a protocol in which the server     *)
(* speaks first.  One connection: the server's process_connection hook,    *)
(* the client (external: t/protocol/nntp-like.t, or any other peer) and    *)
(* the two directions of the socket, each holding at most Capacity lines   *)
(* not yet read.                                                           *)
(*                                                                         *)
(* tls abstracts the handshake that AP_MODE_INIT triggers in mod_ssl       *)
(* (external): the client opens it, the server completes it.  A client     *)
(* that stalls neither sends nor reads; only then can a blocking read or   *)
(* write of the server run into the socket's timeout.                      *)
(***************************************************************************)
EXTENDS Integers, SequencesExt

CONSTANTS Line,      \* the lines a client may send
          Welcome,   \* NNTP_LIKE_WELCOME
          MaxLines,  \* bound on the lines one client sends
          Capacity   \* lines a socket buffer holds

ASSUME NntpAssumption ==
  /\ Welcome \notin Line
  /\ MaxLines \in Nat
  /\ Capacity \in Nat \ {0}

VARIABLES
  cfg,     \* [enabled, ssl]: NNTPLike and SSLEngine of the virtual host
  pc,      \* where process_connection is; "returned" once it has
  result,  \* what it returned
  bb,      \* the brigade read and not yet echoed
  tls,     \* "none", "hello" (client's half), "up"
  client,  \* [kind, state]: kind "test" is the client of nntp-like.t
  c2s, s2c,          \* lines in flight
  sent, read, wrote, heard   \* histories: every line each end has handled

serverVars == <<pc, result, bb>>
vars == <<cfg, pc, result, bb, tls, client, c2s, s2c, sent, read, wrote, heard>>

Text == Line \cup {Welcome}

TypeOK ==
  /\ cfg \in [enabled : BOOLEAN, ssl : BOOLEAN]
  /\ pc \in {"entry", "handshake", "welcome", "getline", "echo", "returned"}
  /\ result \in {"none", "DECLINED", "OK", "error"}
  /\ bb \in Seq(Line)
  /\ tls \in {"none", "hello", "up"}
  /\ client \in [kind  : {"test", "any"},
                 state : {"open", "stalled", "shut", "reset"}]
  /\ c2s \in Seq(Line) /\ sent \in Seq(Line) /\ read \in Seq(Line)
  /\ s2c \in Seq(Text) /\ wrote \in Seq(Text) /\ heard \in Seq(Text)

Init ==
  /\ cfg \in [enabled : BOOLEAN, ssl : BOOLEAN]
  /\ client \in [kind : {"test", "any"}, state : {"open"}]
  /\ pc = "entry" /\ result = "none" /\ bb = <<>> /\ tls = "none"
  /\ c2s = <<>> /\ s2c = <<>>
  /\ sent = <<>> /\ read = <<>> /\ wrote = <<>> /\ heard = <<>>

Is(state) == client.state = state
Becomes(state) == client' = [client EXCEPT !.state = state]

\* The client no longer reads or writes as far as the server can tell.
Silent == client.state # "open"

Return(res) == pc' = "returned" /\ result' = res

\* ap_pass_brigade of lines and a FLUSH bucket: it waits for room.
CanPass == Len(s2c) < Capacity
Pass(lines) ==
  /\ CanPass
  /\ s2c' = s2c \o lines
  /\ wrote' = wrote \o lines

-----------------------------------------------------------------------------
(* Faulty variants of the hook's steps.                                     *)

\* Forgets AP_MODE_INIT.
NoHandshake ==
  /\ pc = "handshake" /\ pc' = "welcome"
  /\ UNCHANGED <<cfg, result, bb, tls, client, c2s, s2c, sent, read, wrote, heard>>

\* Waits for request data before it greets.
WelcomeAfterData ==
  /\ pc = "welcome" /\ c2s # <<>>
  /\ Pass(<<Welcome>>) /\ pc' = "getline"
  /\ UNCHANGED <<cfg, result, bb, tls, client, c2s, sent, read, heard>>

\* Overlooks the empty brigade of an end of file.
GetLineIgnoresEof ==
  /\ pc = "getline" /\ Is("reset")
  /\ Return("OK")
  /\ UNCHANGED <<cfg, bb, tls, client, c2s, s2c, sent, read, wrote, heard>>

EchoTwice ==
  /\ pc = "echo" /\ Pass(bb \o bb) /\ bb' = <<>> /\ pc' = "getline"
  /\ UNCHANGED <<cfg, result, tls, client, c2s, sent, read, heard>>

-----------------------------------------------------------------------------
(* The server: nntp_like_process_connection. *)

\* cfg->enabled decides whether the connection is this module's.
Enter ==
  /\ pc = "entry"
  /\ IF cfg.enabled THEN pc' = "handshake" /\ UNCHANGED result
                    ELSE Return("DECLINED")
  /\ UNCHANGED <<cfg, bb, tls, client, c2s, s2c, sent, read, wrote, heard>>

\* ap_get_brigade(AP_MODE_INIT): a no-op without SSL; with it, the handshake,
\* for which the server waits for the client's half.
Handshake ==
  /\ pc = "handshake"
  /\ IF cfg.ssl THEN tls = "hello" /\ ~Is("reset") /\ tls' = "up"
                ELSE UNCHANGED tls
  /\ pc' = "welcome"
  /\ UNCHANGED <<cfg, result, bb, client, c2s, s2c, sent, read, wrote, heard>>

\* The client closes, resets or stalls too long before its half arrives, or
\* sends something that is not a handshake.
HandshakeFails ==
  /\ pc = "handshake"
  /\ cfg.ssl
  /\ \/ tls = "none" /\ (c2s # <<>> \/ Silent)
     \/ Is("reset")
  /\ Return("error")
  /\ UNCHANGED <<cfg, bb, tls, client, c2s, s2c, sent, read, wrote, heard>>

\* A write fails once the client is gone, or does not read for too long.
CannotPass == Is("reset") \/ (Silent /\ ~CanPass)

SendWelcome ==
  /\ pc = "welcome"
  /\ Pass(<<Welcome>>)
  /\ pc' = "getline"
  /\ UNCHANGED <<cfg, result, bb, tls, client, c2s, sent, read, heard>>

WelcomeFails ==
  /\ pc = "welcome"
  /\ CannotPass
  /\ Return("error")
  /\ UNCHANGED <<cfg, bb, tls, client, c2s, s2c, sent, read, wrote, heard>>

\* ap_get_brigade(AP_MODE_GETLINE, APR_BLOCK_READ) yields the next line.
GetLine ==
  /\ pc = "getline"
  /\ c2s # <<>>
  /\ bb' = <<Head(c2s)>>
  /\ c2s' = Tail(c2s)
  /\ read' = Append(read, Head(c2s))
  /\ pc' = "echo"
  /\ UNCHANGED <<cfg, result, tls, client, s2c, sent, wrote, heard>>

\* End of file or a timeout when there is nothing to read; a reset at any
\* time: destroy bb, leave the loop.
GetLineFails ==
  /\ pc = "getline"
  /\ Is("reset") \/ (Silent /\ c2s = <<>>)
  /\ Return("OK")
  /\ UNCHANGED <<cfg, bb, tls, client, c2s, s2c, sent, read, wrote, heard>>

Echo ==
  /\ pc = "echo"
  /\ Pass(bb)
  /\ bb' = <<>>
  /\ pc' = "getline"
  /\ UNCHANGED <<cfg, result, tls, client, c2s, sent, read, heard>>

EchoFails ==
  /\ pc = "echo"
  /\ CannotPass
  /\ Return("OK")
  /\ bb' = <<>>
  /\ UNCHANGED <<cfg, tls, client, c2s, s2c, sent, read, wrote, heard>>

Server == \/ Enter \/ Handshake \/ HandshakeFails \/ SendWelcome
          \/ WelcomeFails \/ GetLine \/ GetLineFails \/ Echo \/ EchoFails

-----------------------------------------------------------------------------
(* The client. *)

\* The test prints a line only after reading the answer to all before it.
InTurn == client.kind = "test" => Len(heard) = Len(sent) + 1

Hello ==
  /\ Is("open") /\ cfg.ssl /\ tls = "none" /\ c2s = <<>>
  /\ tls' = "hello"
  /\ UNCHANGED <<cfg, serverVars, client, c2s, s2c, sent, read, wrote, heard>>

Say(line) ==
  /\ Is("open") /\ InTurn
  /\ client.kind = "test" /\ cfg.ssl => tls = "up"
  /\ tls # "hello"
  /\ Len(sent) < MaxLines /\ Len(c2s) < Capacity
  /\ c2s' = Append(c2s, line)
  /\ sent' = Append(sent, line)
  /\ UNCHANGED <<cfg, serverVars, tls, client, s2c, read, wrote, heard>>

Hear ==
  /\ Is("open")
  /\ s2c # <<>>
  /\ heard' = Append(heard, Head(s2c))
  /\ s2c' = Tail(s2c)
  /\ UNCHANGED <<cfg, serverVars, tls, client, c2s, sent, read, wrote>>

\* The test closes its socket when every line has been echoed; any other
\* client may stop sending, stop altogether and resume, or vanish.
Close ==
  /\ Is("open")
  /\ client.kind = "test" => pc = "returned" \/ Len(heard) = MaxLines + 1
  /\ Becomes("shut")
  /\ UNCHANGED <<cfg, serverVars, tls, c2s, s2c, sent, read, wrote, heard>>

Stall ==
  /\ client.kind = "any" /\ Is("open")
  /\ Becomes("stalled")
  /\ UNCHANGED <<cfg, serverVars, tls, c2s, s2c, sent, read, wrote, heard>>

Resume ==
  /\ Is("stalled")
  /\ Becomes("open")
  /\ UNCHANGED <<cfg, serverVars, tls, c2s, s2c, sent, read, wrote, heard>>

Reset ==
  /\ client.kind = "any" /\ ~Is("reset")
  /\ Becomes("reset")
  /\ UNCHANGED <<cfg, serverVars, tls, c2s, s2c, sent, read, wrote, heard>>

Client == \/ Hello \/ (\E line \in Line : Say(line)) \/ Hear
          \/ Close \/ Stall \/ Resume \/ Reset

Finished == pc = "returned" /\ ~Is("open") /\ UNCHANGED vars

Next == Server \/ Client \/ Finished

\* The worker thread keeps running the hook, and the test's client keeps
\* playing its part; a client of another kind promises nothing.
TestClient == client.kind = "test" /\ (Hello \/ Hear \/ \E l \in Line : Say(l))

Fairness == WF_vars(Server) /\ WF_vars(TestClient)

Spec == Init /\ [][Next]_vars /\ Fairness

-----------------------------------------------------------------------------
(* Correctness. *)

\* w is the welcome followed by the first lines of r.
GreetsAndEchoes(w, r) ==
  /\ Len(w) <= Len(r) + 1
  /\ w[1] = Welcome
  /\ \A i \in 2..Len(w) : w[i] = r[i - 1]

\* The server speaks first and then answers in order: what it has written is
\* the welcome followed by an echo of every line it has read, except the one
\* line it holds in bb or dropped when the echo failed (lines 131-152).
EchoInOrder ==
  /\ read # <<>> => wrote # <<>>
  /\ wrote # <<>> => GreetsAndEchoes(wrote, read)
  /\ Len(read) <= Len(wrote)

\* Its inductive form: what bb can hold where in the hook, and that no line is
\* lost or reordered on the wire or between wire and hook (lines 131-152).
EchoInv ==
  /\ sent = read \o c2s
  /\ wrote = heard \o s2c
  /\ wrote # <<>> => GreetsAndEchoes(wrote, read)
  /\ pc \in {"entry", "handshake", "welcome"}
        => wrote = <<>> /\ read = <<>> /\ bb = <<>>
  /\ pc = "getline" => Len(wrote) = Len(read) + 1 /\ bb = <<>>
  /\ pc = "echo" => /\ Len(wrote) = Len(read) /\ Len(read) > 0
                    /\ bb = <<read[Len(read)]>>
  /\ pc = "returned" => Len(read) <= Len(wrote)

\* On an SSL host no line is written or read before the handshake is done
\* (lines 131-134 before 136-150).
HandshakeFirst ==
  cfg.ssl /\ (wrote # <<>> \/ read # <<>>) => tls = "up"

\* The client of nntp-like.t hears the welcome and the echo of every line it
\* prints, with and without SSL: neither side waits for the other for good.
TestClientServed ==
  (cfg.enabled /\ client.kind = "test")
     ~> (heard = <<Welcome>> \o sent /\ Len(sent) = MaxLines)

\* Once the client has closed, vanished or stalled for good, the hook returns
\* and the worker is free again: the socket timeout set in pre_connection
\* bounds every read and write (lines 108-110, 140-152).
WorkerReleased == <>[]Silent => <>(pc = "returned")

\* The client's view is that of a peer that greets first, then echoes.
Peer == INSTANCE GreetingEcho

ImplementsGreetingEcho == Peer!Spec
=============================================================================
