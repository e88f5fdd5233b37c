---------------------------- MODULE ConnectionProofs --------------------------
(* The programs at the other end of httpd's connections: the order of the    *)
(* nntp_like protocol, for every set of lines, every bound on them and every *)
(* buffer capacity; and the servers forked for one test, in every world.     *)
EXTENDS NntpLike, OneShotServer, TLAPS, SequenceTheorems

\* The facts about sequences; those about brigades are of no use here.
Lemmas == INSTANCE BucketLemmas WITH Byte <- {}

\* The types hold in every reachable state.
THEOREM TypeCorrect == Spec => []TypeOK
<1>1. Init => TypeOK
  BY DEF Init, TypeOK
<1>2. TypeOK /\ [Next]_vars => TypeOK'
  <2> SUFFICES ASSUME TypeOK, [Next]_vars PROVE TypeOK'
    OBVIOUS
  <2> USE DEF TypeOK, Text, Is, Becomes, Silent, Return, serverVars
  <2>1. CASE Enter
    BY <2>1 DEF Enter
  <2>2. CASE Handshake
    BY <2>2 DEF Handshake
  <2>3. CASE HandshakeFails
    BY <2>3 DEF HandshakeFails
  <2>4. CASE SendWelcome
    BY <2>4 DEF SendWelcome, Pass
  <2>5. CASE WelcomeFails
    BY <2>5 DEF WelcomeFails
  <2>6. CASE GetLine
    BY <2>6 DEF GetLine
  <2>7. CASE GetLineFails
    BY <2>7 DEF GetLineFails
  <2>8. CASE Echo
    BY <2>8 DEF Echo, Pass
  <2>9. CASE EchoFails
    BY <2>9 DEF EchoFails
  <2>10. CASE Hello
    BY <2>10 DEF Hello
  <2>11. ASSUME NEW line \in Line, Say(line) PROVE TypeOK'
    BY <2>11 DEF Say
  <2>12. CASE Hear
    BY <2>12 DEF Hear
  <2>13. CASE Close
    BY <2>13 DEF Close
  <2>14. CASE Stall
    BY <2>14 DEF Stall
  <2>15. CASE Resume
    BY <2>15 DEF Resume
  <2>16. CASE Reset
    BY <2>16 DEF Reset
  <2>17. CASE UNCHANGED vars
    BY <2>17 DEF vars
  <2> QED
    BY <2>1, <2>2, <2>3, <2>4, <2>5, <2>6, <2>7, <2>8, <2>9, <2>10, <2>11,
       <2>12, <2>13, <2>14, <2>15, <2>16, <2>17
       DEF Next, Server, Client, Finished
<1> QED
  BY <1>1, <1>2, PTL DEF Spec

\* What a step leaves alone, EchoInv does not notice.
LEMMA EchoInvFrame ==
  ASSUME EchoInv,
         UNCHANGED <<pc, bb, c2s, s2c, sent, read, wrote, heard>>
  PROVE  EchoInv'
BY DEF EchoInv, GreetsAndEchoes

\* The inductive invariant behind the protocol's order.
THEOREM EchoInvariant == Spec => []EchoInv
<1>1. Init => EchoInv
  BY DEF Init, EchoInv
<1>2. TypeOK /\ EchoInv /\ [Next]_vars => EchoInv'
  <2> SUFFICES ASSUME TypeOK, EchoInv, [Next]_vars PROVE EchoInv'
    OBVIOUS
  <2>1. CASE Enter
    BY <2>1 DEF Enter, Return, EchoInv, GreetsAndEchoes
  <2>2. CASE Handshake
    BY <2>2 DEF Handshake, EchoInv, GreetsAndEchoes
  <2>3. CASE HandshakeFails \/ WelcomeFails
    BY <2>3 DEF HandshakeFails, WelcomeFails, Return, EchoInv, GreetsAndEchoes
  <2>4. CASE SendWelcome
    <3>1. wrote' = <<Welcome>> /\ read' = <<>> /\ bb' = <<>> /\ pc' = "getline"
      BY <2>4 DEF SendWelcome, Pass, EchoInv, TypeOK
    <3>2. GreetsAndEchoes(wrote', read')
      BY <3>1 DEF GreetsAndEchoes
    <3>3. wrote' = heard' \o s2c' /\ sent' = read' \o c2s'
      <4>1. /\ wrote' = wrote \o <<Welcome>> /\ s2c' = s2c \o <<Welcome>>
            /\ UNCHANGED <<heard, sent, read, c2s>>
        BY <2>4 DEF SendWelcome, Pass
      <4>2. <<Welcome>> \in Seq(Text) /\ heard \in Seq(Text) /\ s2c \in Seq(Text)
        BY DEF TypeOK, Text
      <4>3. (heard \o s2c) \o <<Welcome>> = heard \o (s2c \o <<Welcome>>)
        BY <4>2, ConcatAssociative
      <4> QED
        BY <4>1, <4>3 DEF EchoInv
    <3>4. Len(wrote') = Len(read') + 1
      BY <3>1
    <3> QED
      BY <3>1, <3>2, <3>3, <3>4 DEF EchoInv
  <2>5. CASE GetLine
    <3>1. /\ read' = Append(read, Head(c2s)) /\ bb' = <<Head(c2s)>>
          /\ pc' = "echo" /\ wrote' = wrote /\ Len(wrote) = Len(read) + 1
          /\ UNCHANGED <<heard, s2c, sent>> /\ c2s' = Tail(c2s) /\ c2s # <<>>
      BY <2>5 DEF GetLine, EchoInv
    <3>2. /\ Head(c2s) \in Line /\ Tail(c2s) \in Seq(Line)
          /\ read \in Seq(Line) /\ wrote \in Seq(Text)
      BY <3>1, HeadTailProperties DEF TypeOK
    <3>3. sent' = read' \o c2s'
      <4>1. Append(read, Head(c2s)) \o Tail(c2s) = read \o c2s
        BY <3>1, <3>2, Lemmas!MoveHeadLeft, SMTT(60) DEF TypeOK
      <4> QED
        BY <3>1, <4>1 DEF EchoInv
    <3>4. /\ Len(read') = Len(read) + 1 /\ read'[Len(read')] = Head(c2s)
          /\ \A i \in 1..Len(read) : read'[i] = read[i]
      BY <3>1, <3>2
    <3>5. wrote # <<>> => GreetsAndEchoes(wrote, read')
      BY <3>1, <3>2, <3>4 DEF EchoInv, GreetsAndEchoes
    <3>6. bb' = <<read'[Len(read')]>> /\ Len(read') > 0
      BY <3>1, <3>2, <3>4
    <3> QED
      BY <2>5, <3>1, <3>2, <3>3, <3>4, <3>5, <3>6 DEF EchoInv
  <2>6. CASE GetLineFails
    BY <2>6 DEF GetLineFails, Return, EchoInv, GreetsAndEchoes, TypeOK
  <2>7. CASE Echo
    <3>1. /\ wrote' = wrote \o bb /\ s2c' = s2c \o bb /\ bb' = <<>>
          /\ bb = <<read[Len(read)]>> /\ Len(read) > 0
          /\ pc' = "getline" /\ UNCHANGED <<sent, read, c2s, heard>>
          /\ Len(wrote) = Len(read)
      BY <2>7 DEF Echo, Pass, EchoInv
    <3>2. /\ read \in Seq(Line) /\ wrote \in Seq(Text) /\ s2c \in Seq(Text)
          /\ heard \in Seq(Text) /\ read[Len(read)] \in Text
          /\ bb \in Seq(Text)
      BY <3>1 DEF TypeOK, Text
    <3>3. /\ Len(wrote') = Len(wrote) + 1
          /\ wrote'[Len(wrote) + 1] = read[Len(read)]
          /\ \A i \in 1..Len(wrote) : wrote'[i] = wrote[i]
      <4> DEFINE x == read[Len(read)]
      <4>1. wrote' = wrote \o <<x>> /\ x \in Text /\ wrote \in Seq(Text)
        BY <3>1, <3>2
      <4> HIDE DEF x
      <4>2. wrote' = Append(wrote, x)
        BY <4>1, Lemmas!AppendFacts
      <4> QED
        BY <4>1, <4>2, Lemmas!AppendFacts DEF x
    <3>4. GreetsAndEchoes(wrote, read)
      BY <3>1, <3>2 DEF EchoInv
    <3>5. GreetsAndEchoes(wrote', read')
      BY <3>1, <3>2, <3>3, <3>4 DEF GreetsAndEchoes
    <3>6. wrote' = heard' \o s2c'
      <4>1. wrote = heard \o s2c
        BY DEF EchoInv
      <4>2. (heard \o s2c) \o bb = heard \o (s2c \o bb)
        BY <3>2, ConcatAssociative
      <4> QED
        BY <3>1, <4>1, <4>2
    <3>7. sent' = read' \o c2s'
      BY <3>1 DEF EchoInv
    <3> QED
      BY <3>1, <3>2, <3>3, <3>5, <3>6, <3>7 DEF EchoInv
  <2>8. CASE EchoFails
    BY <2>8 DEF EchoFails, Return, EchoInv, GreetsAndEchoes, TypeOK
  <2>9. ASSUME NEW line \in Line, Say(line) PROVE EchoInv'
    <3>1. sent' = read' \o c2s'
      <4>1. /\ sent' = Append(sent, line) /\ c2s' = Append(c2s, line)
            /\ read' = read
        BY <2>9 DEF Say
      <4>2. read \o Append(c2s, line) = Append(read \o c2s, line)
        BY <2>9, Lemmas!AppendRight DEF TypeOK
      <4> QED
        BY <4>1, <4>2 DEF EchoInv
    <3> QED
      BY <2>9, <3>1 DEF Say, serverVars, EchoInv, GreetsAndEchoes
  <2>10. CASE Hear
    <3>1. wrote' = heard' \o s2c'
      <4>1. /\ heard' = Append(heard, Head(s2c)) /\ s2c' = Tail(s2c)
            /\ s2c # <<>> /\ wrote' = wrote
        BY <2>10 DEF Hear
      <4>2. Append(heard, Head(s2c)) \o Tail(s2c) = heard \o s2c
        <5>1. heard \in Seq(Text) /\ s2c \in Seq(Text)
          BY DEF TypeOK
        <5> HIDE DEF TypeOK
        <5> QED
          BY <4>1, <5>1, Lemmas!MoveHeadLeft
      <4> QED
        BY <4>1, <4>2 DEF EchoInv
    <3> QED
      BY <2>10, <3>1 DEF Hear, serverVars, EchoInv, GreetsAndEchoes
  <2>11. CASE Hello \/ Close \/ Stall \/ Resume \/ Reset \/ UNCHANGED vars
    BY <2>11, EchoInvFrame
       DEF Hello, Close, Stall, Resume, Reset, serverVars, vars
  <2> QED
    BY <2>1, <2>2, <2>3, <2>4, <2>5, <2>6, <2>7, <2>8, <2>9, <2>10, <2>11
       DEF Next, Server, Client, Finished
<1> QED
  BY <1>1, <1>2, TypeCorrect, PTL DEF Spec

\* EchoInOrder: the server greets before it reads, then answers every line it
\* reads in order and at most one line late.
THEOREM EchoInOrderHolds == Spec => []EchoInOrder
<1>1. TypeOK /\ EchoInv => EchoInOrder
  BY DEF TypeOK, EchoInv, EchoInOrder
<1> QED
  BY <1>1, TypeCorrect, EchoInvariant, PTL

\* HandshakeFirst: nothing is said or read on an SSL host before the handshake.
THEOREM HandshakeFirstHolds == Spec => []HandshakeFirst
<1> DEFINE Shaken ==
      cfg.ssl /\ pc \in {"welcome", "getline", "echo"} => tls = "up"
           Inv == HandshakeFirst /\ Shaken
<1>1. Init => Inv
  BY DEF Init, HandshakeFirst
<1>2. EchoInv /\ Inv /\ [Next]_vars => Inv'
  <2> SUFFICES ASSUME EchoInv, Inv, [Next]_vars PROVE Inv'
    OBVIOUS
  <2> USE DEF HandshakeFirst, serverVars, Return
  <2>1. CASE Enter \/ Handshake \/ HandshakeFails
    BY <2>1 DEF Enter, Handshake, HandshakeFails, EchoInv
  <2>2. CASE SendWelcome \/ WelcomeFails
    BY <2>2 DEF SendWelcome, WelcomeFails, Pass
  <2>3. CASE GetLine \/ GetLineFails
    BY <2>3 DEF GetLine, GetLineFails
  <2>4. CASE Echo \/ EchoFails
    BY <2>4 DEF Echo, EchoFails, Pass
  <2>5. CASE Client \/ UNCHANGED vars
    BY <2>5 DEF Client, Hello, Say, Hear, Close, Stall, Resume, Reset, vars
  <2> QED
    BY <2>1, <2>2, <2>3, <2>4, <2>5 DEF Next, Server, Finished
<1> QED
  BY <1>1, <1>2, EchoInvariant, PTL DEF Spec

\* The client sees a peer that greets first and then echoes, whatever the
\* timing of the two ends (ImplementsGreetingEcho).
THEOREM Refinement == Spec => ImplementsGreetingEcho
<1>1. Init => Peer!Init
  BY DEF Init, Peer!Init
<1>2. TypeOK /\ EchoInv /\ [Next]_vars => [Peer!Next]_(Peer!gevars)
  <2> SUFFICES ASSUME TypeOK, EchoInv, [Next]_vars
               PROVE  [Peer!Next]_(Peer!gevars)
    OBVIOUS
  <2>1. ASSUME NEW line \in Line, Say(line) PROVE Peer!Say
    BY <2>1 DEF Say, Peer!Say
  <2>2. CASE Hear
    <3>1. /\ heard' = Append(heard, Head(s2c)) /\ s2c # <<>> /\ sent' = sent
          /\ heard \in Seq(Text) /\ s2c \in Seq(Text)
      BY <2>2 DEF Hear, TypeOK
    <3>2. /\ Len(heard) \in Nat /\ Len(s2c) > 0 /\ Len(s2c) \in Nat
          /\ Len(wrote) = Len(heard) + Len(s2c)
          /\ wrote[Len(heard) + 1] = Head(s2c)
      BY <3>1 DEF EchoInv
    <3>3. GreetsAndEchoes(wrote, read)
      BY <3>2 DEF EchoInv
    <3>4. CASE heard = <<>>
      <4>1. Head(s2c) = Welcome
        BY <3>2, <3>3, <3>4 DEF GreetsAndEchoes
      <4>2. heard' = <<Welcome>>
        BY <3>1, <3>4, <4>1
      <4> QED
        BY <3>1, <3>4, <4>2 DEF Peer!Next, Peer!Greeted
    <3>5. CASE heard # <<>>
      <4>1. Len(heard) > 0
        BY <3>1, <3>5
      <4>2. /\ Head(s2c) = read[Len(heard)]
            /\ Len(heard) \in 1..Len(read)
        <5> DEFINE k == Len(heard) + 1
        <5>1. /\ k \in 2..Len(wrote) /\ k - 1 = Len(heard)
              /\ Len(read) \in Nat /\ Len(wrote) <= Len(read) + 1
          BY <3>2, <3>3, <4>1 DEF GreetsAndEchoes, TypeOK
        <5>2. wrote[k] = read[k - 1]
          BY <5>1, <3>3 DEF GreetsAndEchoes
        <5> QED
          BY <3>2, <4>1, <5>1, <5>2
      <4>3. sent[Len(heard)] = read[Len(heard)] /\ Len(heard) <= Len(sent)
        BY <4>2 DEF EchoInv, TypeOK
      <4> QED
        BY <3>1, <3>5, <4>2, <4>3 DEF Peer!Next, Peer!Echoed
    <3> QED
      BY <3>4, <3>5
  <2>3. CASE UNCHANGED <<sent, heard>>
    BY <2>3 DEF Peer!gevars
  <2> QED
    BY <2>1, <2>2, <2>3
       DEF Next, Server, Client, Finished, Enter, Handshake, HandshakeFails,
           SendWelcome, WelcomeFails, GetLine, GetLineFails, Echo, EchoFails,
           Hello, Close, Stall, Resume, Reset, Peer!Next, vars
<1> QED
  BY <1>1, <1>2, TypeCorrect, EchoInvariant, PTL
     DEF Spec, ImplementsGreetingEcho, Peer!Spec

-----------------------------------------------------------------------------
(* Nobody waits for good: what WorkerReleased and TestClientServed claim,   *)
(* without the fairness that they need on top.                              *)

\* The guards of the actions of Server, of Hello and Hear, and of Say for a line.
HookCanMove ==
  \/ pc = "entry"
  \/ pc = "handshake" /\ (cfg.ssl => \/ tls = "hello" \/ Is("reset")
                                     \/ tls = "none" /\ (c2s # <<>> \/ Silent))
  \/ pc \in {"welcome", "echo"} /\ (CanPass \/ CannotPass)
  \/ pc = "getline" /\ (c2s # <<>> \/ Silent)

ClientCanMove ==
  /\ Is("open")
  /\ \/ cfg.ssl /\ tls = "none" /\ c2s = <<>>
     \/ s2c # <<>>
     \/ /\ InTurn /\ tls # "hello" /\ (client.kind = "test" /\ cfg.ssl => tls = "up")
        /\ Len(sent) < MaxLines /\ Len(c2s) < Capacity

\* What is left of the hook when no more lines arrive.
Place ==
  CASE pc = "entry"     -> 5
    [] pc = "handshake" -> 4
    [] pc = "welcome"   -> 3
    [] pc = "echo"      -> 3
    [] pc = "getline"   -> 1
    [] OTHER            -> 0

HookToGo == 3 * Len(c2s) + Place

\* What is left of the conversation: a line is to be said, read, echoed and
\* heard, and all of it once the client has introduced itself.
Introduction == IF tls = "none" THEN 1 ELSE 0

TalkToGo == 4 * (MaxLines - Len(sent)) + Len(s2c) + HookToGo + Introduction

\* The handshake completes once, before the greeting.
TlsInv ==
  /\ Len(sent) <= MaxLines
  /\ tls = "up" => pc \notin {"entry", "handshake"}
  /\ tls # "none" => cfg.ssl

\* The test's client speaks in turn, and neither leaves nor is left before it
\* has heard everything.
TestInv ==
  client.kind = "test" =>
    /\ client.state \in {"open", "shut"}
    /\ Len(sent) <= Len(heard)
    /\ cfg.ssl /\ sent # <<>> => tls = "up"
    /\ cfg.enabled /\ (Silent \/ pc = "returned") => Len(heard) = MaxLines + 1

\* Lengths of what the wire holds.
LEMMA WireLengths ==
  ASSUME TypeOK, EchoInv
  PROVE  /\ Len(sent) = Len(read) + Len(c2s) /\ Len(wrote) = Len(heard) + Len(s2c)
         /\ {Len(sent), Len(read), Len(c2s), Len(wrote), Len(heard), Len(s2c)}
              \subseteq Nat
         /\ Len(wrote) <= Len(read) + 1
         /\ c2s = <<>> <=> Len(c2s) = 0
         /\ s2c = <<>> <=> Len(s2c) = 0
         /\ wrote = <<>> <=> Len(wrote) = 0
<1>1. /\ Len(sent) = Len(read) + Len(c2s) /\ Len(wrote) = Len(heard) + Len(s2c)
      /\ {Len(sent), Len(read), Len(c2s), Len(wrote), Len(heard), Len(s2c)}
           \subseteq Nat
  BY DEF TypeOK, EchoInv
<1>2. (c2s = <<>> <=> Len(c2s) = 0) /\ (s2c = <<>> <=> Len(s2c) = 0)
      /\ (wrote = <<>> <=> Len(wrote) = 0)
  BY EmptySeq DEF TypeOK
<1>3. Len(wrote) <= Len(read) + 1
  BY <1>1, <1>2 DEF EchoInv, GreetsAndEchoes
<1> QED
  BY <1>1, <1>2, <1>3

\* One line more, one line less.
LEMMA LineMoves ==
  ASSUME TypeOK
  PROVE  /\ GetLine => Len(c2s') = Len(c2s) - 1
         /\ Hear => Len(s2c') = Len(s2c) - 1 /\ Len(heard') = Len(heard) + 1
         /\ \A line \in Line : Say(line) => /\ Len(c2s') = Len(c2s) + 1
                                            /\ Len(sent') = Len(sent) + 1
                                            /\ sent' # <<>>
         /\ SendWelcome => Len(s2c') = Len(s2c) + 1
         /\ Echo /\ EchoInv => Len(s2c') = Len(s2c) + 1
<1>1. GetLine => Len(c2s') = Len(c2s) - 1
  BY DEF GetLine, TypeOK
<1>2. Hear => Len(s2c') = Len(s2c) - 1 /\ Len(heard') = Len(heard) + 1
  BY DEF Hear, TypeOK
<1>3. ASSUME NEW line \in Line, Say(line)
      PROVE  /\ Len(c2s') = Len(c2s) + 1
             /\ Len(sent') = Len(sent) + 1 /\ sent' # <<>>
  <2>1. c2s' = Append(c2s, line) /\ sent' = Append(sent, line)
    BY <1>3 DEF Say
  <2>2. c2s \in Seq(Line) /\ sent \in Seq(Line)
    BY DEF TypeOK
  <2>3. /\ Len(Append(c2s, line)) = Len(c2s) + 1
        /\ Len(Append(sent, line)) = Len(sent) + 1
        /\ Append(sent, line) # <<>>
    BY <2>2
  <2> QED
    BY <2>1, <2>3
<1>4. SendWelcome => Len(s2c') = Len(s2c) + 1
  <2>1. <<Welcome>> \in Seq(Text) /\ Len(<<Welcome>>) = 1 /\ s2c \in Seq(Text)
    BY DEF TypeOK, Text
  <2> QED
    BY <2>1, ConcatProperties DEF SendWelcome, Pass
<1>5. ASSUME Echo, EchoInv PROVE Len(s2c') = Len(s2c) + 1
  <2>1. s2c' = s2c \o bb /\ bb \in Seq(Text) /\ s2c \in Seq(Text) /\ Len(bb) = 1
    BY <1>5 DEF Echo, Pass, EchoInv, TypeOK, Text
  <2> QED
    BY <2>1, ConcatProperties
<1> QED
  BY <1>1, <1>2, <1>3, <1>4, <1>5

\* Both hold in every reachable state.
THEOREM TurnsInvariant == Spec => [](TlsInv /\ TestInv)
<1>1. Init => TlsInv /\ TestInv
  BY NntpAssumption DEF Init, TlsInv, TestInv, Silent
<1>2. TypeOK /\ EchoInv /\ TlsInv /\ [Next]_vars => TlsInv'
  <2> SUFFICES ASSUME TypeOK, EchoInv, TlsInv, [Next]_vars PROVE TlsInv'
    OBVIOUS
  <2> USE NntpAssumption DEF TlsInv, Return, serverVars
  <2>1. CASE Enter \/ Handshake \/ HandshakeFails
    BY <2>1 DEF Enter, Handshake, HandshakeFails
  <2>2. CASE SendWelcome \/ WelcomeFails \/ GetLine \/ GetLineFails \/ Echo \/ EchoFails
    BY <2>2 DEF SendWelcome, WelcomeFails, GetLine, GetLineFails, Echo, EchoFails
  <2>3. ASSUME NEW line \in Line, Say(line) PROVE TlsInv'
    BY <2>3, LineMoves, WireLengths DEF Say
  <2>4. CASE Hello \/ Hear \/ Close \/ Stall \/ Resume \/ Reset \/ UNCHANGED vars
    BY <2>4 DEF Hello, Hear, Close, Stall, Resume, Reset, vars
  <2> QED
    BY <2>1, <2>2, <2>3, <2>4 DEF Next, Server, Client, Finished
<1>3. TypeOK /\ EchoInv /\ TlsInv /\ TestInv /\ [Next]_vars => TestInv'
  <2> SUFFICES ASSUME TypeOK, EchoInv, TlsInv, TestInv, [Next]_vars,
                      (client.kind = "test")'
               PROVE  TestInv'
    BY DEF TestInv
  <2>0. client.kind = "test"
    BY DEF Next, Server, Client, Finished, Enter, Handshake, HandshakeFails,
           SendWelcome, WelcomeFails, GetLine, GetLineFails, Echo, EchoFails,
           Hello, Say, Hear, Close, Stall, Resume, Reset, Becomes, vars, TypeOK
  <2>00. /\ client.state \in {"open", "shut"} /\ Len(sent) <= Len(heard)
         /\ cfg.ssl /\ sent # <<>> => tls = "up"
         /\ cfg.enabled /\ (Silent \/ pc = "returned") => Len(heard) = MaxLines + 1
         /\ ~Is("reset") /\ MaxLines \in Nat /\ Len(sent) <= MaxLines
    BY <2>0, NntpAssumption DEF TestInv, TlsInv, Is
  <2>01. /\ Len(sent) = Len(read) + Len(c2s) /\ Len(wrote) = Len(heard) + Len(s2c)
         /\ Len(sent) \in Nat /\ Len(read) \in Nat /\ Len(c2s) \in Nat
         /\ Len(wrote) \in Nat /\ Len(heard) \in Nat /\ Len(s2c) \in Nat
         /\ Len(wrote) <= Len(read) + 1
    BY WireLengths
  <2>02. ASSUME pc \in {"entry", "handshake", "welcome", "echo"}, cfg.enabled
         PROVE  ~Silent
    <3>1. Len(wrote) <= Len(read)
      BY <2>01, <2>02, WireLengths DEF EchoInv
    <3> QED
      BY <2>00, <2>01, <2>02, <3>1
  <2>1. CASE Enter
    BY <2>00, <2>1, <2>02 DEF Enter, Return, TestInv, Silent
  <2>2. CASE Handshake
    BY <2>00, <2>2, <2>02 DEF Handshake, TestInv, Silent
  <2>3. CASE HandshakeFails
    <3>1. cfg.ssl /\ tls = "none" /\ (c2s # <<>> \/ Silent) /\ pc = "handshake"
      BY <2>00, <2>3 DEF HandshakeFails
    <3>2. sent # <<>> => tls = "up"
      BY <2>00, <3>1
    <3>3. c2s = <<>>
      BY <2>01, <3>1, <3>2, WireLengths
    <3>4. ~cfg.enabled
      BY <2>02, <3>1, <3>3
    <3> QED
      BY <2>00, <2>3, <3>4 DEF HandshakeFails, Return, TestInv, Silent
  <2>4. CASE SendWelcome
    BY <2>00, <2>4 DEF SendWelcome, Pass, TestInv, Silent
  <2>5. CASE WelcomeFails
    BY <2>00, <2>02, <2>5 DEF WelcomeFails, CannotPass, Return, TestInv, Silent
  <2>6. CASE GetLine
    BY <2>00, <2>6 DEF GetLine, TestInv, Silent
  <2>7. CASE GetLineFails
    BY <2>00, <2>7 DEF GetLineFails, Return, TestInv, Silent
  <2>8. CASE Echo
    BY <2>00, <2>8 DEF Echo, Pass, TestInv, Silent
  <2>9. CASE EchoFails
    BY <2>00, <2>02, <2>9 DEF EchoFails, CannotPass, Return, TestInv, Silent
  <2>10. CASE Hello
    BY <2>00, <2>10 DEF Hello, serverVars, TestInv, Silent
  <2>11. ASSUME NEW line \in Line, Say(line) PROVE TestInv'
    <3>1. Len(sent') = Len(sent) + 1
      BY <2>11, LineMoves
    <3>2. /\ Len(heard) = Len(sent) + 1 /\ (cfg.ssl => tls = "up")
          /\ UNCHANGED <<cfg, pc, tls, client, heard>>
      BY <2>0, <2>11 DEF Say, InTurn, serverVars
    <3> QED
      BY <2>00, <2>01, <3>1, <3>2 DEF TestInv, Silent
  <2>12. CASE Hear
    <3>0. Len(heard') = Len(heard) + 1 /\ s2c # <<>>
      BY <2>12, LineMoves DEF Hear
    <3>1. Len(s2c) > 0 /\ UNCHANGED <<cfg, pc, tls, client, sent>>
      <4>1. Len(s2c) # 0
        BY <3>0, WireLengths
      <4> QED
        BY <2>01, <2>12, <4>1 DEF Hear, serverVars
    <3>2. ~(cfg.enabled /\ (Silent \/ pc = "returned"))
      BY <2>00, <2>01, <3>1
    <3> QED
      BY <2>00, <2>01, <3>0, <3>1, <3>2 DEF TestInv, Silent
  <2>13. CASE Close
    <3>1. /\ UNCHANGED <<cfg, pc, tls, sent, heard>> /\ client'.state = "shut"
          /\ pc = "returned" \/ Len(heard) = MaxLines + 1
      BY <2>0, <2>13 DEF Close, Becomes, serverVars, TypeOK
    <3> QED
      BY <2>00, <3>1 DEF TestInv, Silent
  <2>14. CASE Resume
    BY <2>00, <2>14 DEF Resume, Is
  <2>15. CASE Stall \/ Reset
    BY <2>0, <2>15 DEF Stall, Reset
  <2>16. CASE UNCHANGED vars
    BY <2>00, <2>16 DEF vars, TestInv, Silent
  <2> QED
    BY <2>1, <2>2, <2>3, <2>4, <2>5, <2>6, <2>7, <2>8, <2>9, <2>10, <2>11, <2>12,
       <2>13, <2>14, <2>15, <2>16 DEF Next, Server, Client, Finished
<1> QED
  BY <1>1, <1>2, <1>3, TypeCorrect, EchoInvariant, PTL DEF Spec

\* What each step takes off the two counts.
LEMMA TalkSteps ==
  ASSUME TypeOK, EchoInv, TlsInv
  PROVE  /\ HookToGo \in Nat /\ TalkToGo \in 0..(4 * MaxLines + 6)
         /\ Server => HookToGo' < HookToGo /\ TalkToGo' < TalkToGo
         /\ Hello \/ Hear \/ (\E line \in Line : Say(line)) => TalkToGo' < TalkToGo
         /\ Close \/ Stall \/ Resume \/ Reset \/ UNCHANGED vars
              => HookToGo' = HookToGo /\ TalkToGo' = TalkToGo
<1> DEFINE n == Len(sent)
           c == Len(c2s)
           s == Len(s2c)
<1>1. /\ n \in Nat /\ c \in Nat /\ s \in Nat /\ MaxLines \in Nat
      /\ n <= MaxLines /\ c <= n /\ s <= n + 1
      /\ Place > 1 => s <= n
  <2>1. /\ Len(sent) = Len(read) + Len(c2s) /\ Len(wrote) = Len(heard) + Len(s2c)
        /\ Len(sent) \in Nat /\ Len(read) \in Nat /\ Len(c2s) \in Nat
        /\ Len(wrote) \in Nat /\ Len(heard) \in Nat /\ Len(s2c) \in Nat
        /\ Len(wrote) <= Len(read) + 1
    BY WireLengths
  <2>2. pc \in {"entry", "handshake", "welcome"} => Len(wrote) = 0
    BY WireLengths DEF EchoInv
  <2>3. pc = "echo" => Len(wrote) = Len(read)
    BY DEF EchoInv
  <2>4. Place > 1 => pc \in {"entry", "handshake", "welcome", "echo"}
    BY DEF Place
  <2> QED
    BY <2>1, <2>2, <2>3, <2>4, NntpAssumption DEF TlsInv
<1>2. /\ Place \in 0..5 /\ Introduction \in 0..1
      /\ Place' \in 0..5 /\ Introduction' \in 0..1
  BY DEF Place, Introduction
<1>3. PICK p \in 0..5, q \in 0..5, i \in 0..1, j \in 0..1 :
        p = Place /\ q = Place' /\ i = Introduction /\ j = Introduction'
  BY <1>2
<1> HIDE DEF n, c, s
<1>4. /\ HookToGo = 3 * c + p /\ HookToGo' = 3 * Len(c2s') + q
      /\ TalkToGo = 4 * (MaxLines - n) + s + (3 * c + p) + i
      /\ TalkToGo' = 4 * (MaxLines - Len(sent')) + Len(s2c') + (3 * Len(c2s') + q) + j
  BY <1>3, Zenon DEF HookToGo, TalkToGo, n, c, s
<1>5. HookToGo \in Nat /\ TalkToGo \in 0..(4 * MaxLines + 6)
  BY <1>1, <1>3, <1>4
<1>6. ASSUME Server PROVE HookToGo' < HookToGo /\ TalkToGo' < TalkToGo
  <2>1. CASE Enter \/ Handshake \/ HandshakeFails \/ WelcomeFails \/ GetLineFails
             \/ EchoFails
    <3>1. sent' = sent /\ c2s' = c2s /\ s2c' = s2c
      BY <2>1 DEF Enter, Handshake, HandshakeFails, WelcomeFails, GetLineFails, EchoFails
    <3>2. q < p
      BY <1>3, <2>1 DEF Enter, Handshake, HandshakeFails, WelcomeFails, GetLineFails,
                        EchoFails, Return, Place
    <3>3. j <= i
      BY <1>3, <2>1 DEF Enter, Handshake, HandshakeFails, WelcomeFails, GetLineFails,
                        EchoFails, Introduction
    <3> QED
      BY <1>1, <1>3, <1>4, <3>1, <3>2, <3>3, SMTT(30) DEF n, c, s
  <2>2. CASE SendWelcome \/ Echo
    <3>1. sent' = sent /\ c2s' = c2s /\ Len(s2c') = s + 1 /\ i = j
      BY <1>3, <2>2, LineMoves DEF SendWelcome, Echo, Introduction, s
    <3>2. p = 3 /\ q = 1
      BY <1>3, <2>2 DEF SendWelcome, Echo, Place
    <3> QED
      BY <1>1, <1>3, <1>4, <3>1, <3>2, SMTT(30) DEF n, c
  <2>3. CASE GetLine
    <3>1. sent' = sent /\ s2c' = s2c /\ Len(c2s') = c - 1 /\ i = j
      BY <1>3, <2>3, LineMoves DEF GetLine, Introduction, c
    <3>2. p = 1 /\ q = 3
      BY <1>3, <2>3 DEF GetLine, Place
    <3> QED
      BY <1>1, <1>3, <1>4, <3>1, <3>2, SMTT(30) DEF n, s
  <2> QED
    BY <1>6, <2>1, <2>2, <2>3 DEF Server
<1>7. ASSUME NEW line \in Line, Say(line) PROVE TalkToGo' < TalkToGo
  <2>1. /\ Len(sent') = n + 1 /\ Len(c2s') = c + 1 /\ s2c' = s2c /\ p = q /\ i = j
    BY <1>3, <1>7, LineMoves DEF Say, serverVars, Introduction, Place, n, c
  <2> QED
    BY <1>1, <1>3, <1>4, <2>1, SMTT(30) DEF s
<1>8. ASSUME Hear PROVE TalkToGo' < TalkToGo
  <2>1. sent' = sent /\ c2s' = c2s /\ Len(s2c') = s - 1 /\ p = q /\ i = j
    BY <1>3, <1>8, LineMoves DEF Hear, serverVars, Introduction, Place, s
  <2>2. TalkToGo' = 4 * (MaxLines - n) + (s - 1) + (3 * c + p) + i
    BY <1>4, <2>1, Zenon DEF n, c
  <2>3. TalkToGo = 4 * (MaxLines - n) + s + (3 * c + p) + i
    BY <1>4
  <2> QED
    BY <1>1, <1>3, <2>2, <2>3
<1>9. ASSUME Hello PROVE TalkToGo' < TalkToGo
  <2>1. sent' = sent /\ c2s' = c2s /\ s2c' = s2c /\ p = q /\ i = 1 /\ j = 0
    BY <1>3, <1>9 DEF Hello, serverVars, Introduction, Place
  <2> QED
    BY <1>1, <1>3, <1>4, <2>1, SMTT(30) DEF n, c, s
<1>10. Close \/ Stall \/ Resume \/ Reset \/ UNCHANGED vars
         => HookToGo' = HookToGo /\ TalkToGo' = TalkToGo
  BY DEF Close, Stall, Resume, Reset, serverVars, vars, HookToGo, TalkToGo, Place,
         Introduction
<1> QED
  BY <1>5, <1>6, <1>7, <1>8, <1>9, <1>10

\* Whatever a connection goes through, it has at most 4 * MaxLines + 6 steps of
\* the hook, lines said and lines heard; and once the client is silent, the hook
\* alone counts down what is still in the socket (lines 136-152).
THEOREM EveryLineCounts ==
  Spec => /\ [](TalkToGo \in 0..(4 * MaxLines + 6) /\ HookToGo \in Nat)
          /\ [][/\ Server \/ Hello \/ Hear \/ (\E line \in Line : Say(line))
                     => TalkToGo' < TalkToGo
                /\ TalkToGo' <= TalkToGo
                /\ Server => HookToGo' < HookToGo
                /\ Silent => HookToGo' <= HookToGo]_vars
<1>1. ASSUME TypeOK, EchoInv, TlsInv
      PROVE  TalkToGo \in 0..(4 * MaxLines + 6) /\ HookToGo \in Nat
  BY <1>1, TalkSteps
<1>2. ASSUME TypeOK, EchoInv, TlsInv, TypeOK', EchoInv', TlsInv', [Next]_vars
      PROVE  /\ Server \/ Hello \/ Hear \/ (\E line \in Line : Say(line))
                     => TalkToGo' < TalkToGo
             /\ TalkToGo' <= TalkToGo
             /\ Server => HookToGo' < HookToGo
             /\ Silent => HookToGo' <= HookToGo
  <2>1. /\ Server => HookToGo' < HookToGo /\ TalkToGo' < TalkToGo
        /\ Hello \/ Hear \/ (\E line \in Line : Say(line)) => TalkToGo' < TalkToGo
        /\ Close \/ Stall \/ Resume \/ Reset \/ UNCHANGED vars
             => HookToGo' = HookToGo /\ TalkToGo' = TalkToGo
        /\ TalkToGo \in Int /\ HookToGo \in Int
    BY <1>2, TalkSteps
  <2>2. PICK t \in Int, h \in Int : t = TalkToGo' /\ h = HookToGo'
    <3>1. /\ Len(c2s') \in Nat /\ Len(sent') \in Nat /\ Len(s2c') \in Nat
          /\ MaxLines \in Nat
      BY <1>2, NntpAssumption DEF TypeOK
    <3>2. Place' \in 0..5 /\ Introduction' \in 0..1
      BY DEF Place, Introduction
    <3> QED
      BY <3>1, <3>2 DEF TalkToGo, HookToGo
  <2>3. Silent => ~(Hello \/ Hear \/ (\E line \in Line : Say(line)))
    BY DEF Silent, Hello, Hear, Say, Is
  <2>4. \/ Server
        \/ Hello \/ Hear \/ (\E line \in Line : Say(line))
        \/ Close \/ Stall \/ Resume \/ Reset \/ UNCHANGED vars
    BY <1>2 DEF Next, Client, Finished
  <2> HIDE DEF Silent
  <2>5. CASE Server
    BY <2>1, <2>2, <2>5
  <2>6. CASE ~Server /\ (Hello \/ Hear \/ (\E line \in Line : Say(line)))
    BY <2>1, <2>2, <2>3, <2>6
  <2>7. CASE ~Server /\ ~(Hello \/ Hear \/ (\E line \in Line : Say(line)))
    BY <2>1, <2>2, <2>4, <2>7
  <2> QED
    BY <2>5, <2>6, <2>7
<1> QED
  BY <1>1, <1>2, TypeCorrect, EchoInvariant, TurnsInvariant, PTL DEF Spec

\* A hook whose client is silent is never stuck: each read and write ends, with
\* a line or with the timeout (WorkerReleased).
THEOREM WorkerNeverStuck == Spec => [](pc # "returned" /\ Silent => HookCanMove)
<1>1. TypeOK /\ TlsInv => (pc # "returned" /\ Silent => HookCanMove)
  BY DEF TypeOK, TlsInv, Silent, HookCanMove, CannotPass
<1> QED
  BY <1>1, TypeCorrect, TurnsInvariant, PTL

\* What the test waits for.
Served == heard = <<Welcome>> \o sent /\ Len(sent) = MaxLines

\* Once it has heard MaxLines + 1 lines, they are the right ones.
LEMMA HeardIsServed ==
  ASSUME TypeOK, EchoInv, TlsInv, Len(heard) = MaxLines + 1
  PROVE  Served
<1>1. /\ Len(sent) = Len(read) + Len(c2s) /\ Len(wrote) = Len(heard) + Len(s2c)
      /\ Len(sent) \in Nat /\ Len(read) \in Nat /\ Len(c2s) \in Nat
      /\ Len(wrote) \in Nat /\ Len(heard) \in Nat /\ Len(s2c) \in Nat
      /\ Len(wrote) <= Len(read) + 1 /\ MaxLines \in Nat /\ Len(sent) <= MaxLines
  BY WireLengths, NntpAssumption DEF TlsInv
<1>2. Len(s2c) = 0 /\ Len(c2s) = 0 /\ Len(sent) = MaxLines
  BY <1>1
<1>3. wrote = heard /\ read = sent
  <2>1. s2c = <<>> /\ c2s = <<>>
    BY <1>2, WireLengths
  <2>2. heard \o <<>> = heard /\ read \o <<>> = read
    BY ConcatEmptySeq DEF TypeOK
  <2> QED
    BY <2>1, <2>2 DEF EchoInv
<1>4. /\ heard[1] = Welcome
      /\ \A i \in 2..Len(heard) : heard[i] = sent[i - 1]
  <2>1. heard # <<>>
    BY <1>1
  <2> QED
    BY <1>1, <1>2, <1>3, <2>1 DEF EchoInv, GreetsAndEchoes
<1>5. heard = <<Welcome>> \o sent
  <2>1. /\ heard \in Seq(Text) /\ sent \in Seq(Text) /\ <<Welcome>> \in Seq(Text)
        /\ Len(<<Welcome>>) = 1 /\ <<Welcome>>[1] = Welcome
    BY DEF TypeOK, Text
  <2>2. /\ <<Welcome>> \o sent \in Seq(Text)
        /\ Len(<<Welcome>> \o sent) = 1 + Len(sent)
        /\ \A i \in 1..(1 + Len(sent)) :
             (<<Welcome>> \o sent)[i] = IF i <= 1 THEN <<Welcome>>[i] ELSE sent[i - 1]
    BY <2>1, ConcatProperties
  <2>3. Len(heard) = Len(<<Welcome>> \o sent)
    BY <1>1, <1>2, <2>2
  <2>4. ASSUME NEW i \in 1..Len(heard) PROVE heard[i] = (<<Welcome>> \o sent)[i]
    <3>1. CASE i = 1
      BY <1>1, <1>2, <1>4, <2>1, <2>2, <3>1
    <3>2. CASE i # 1
      BY <1>1, <1>2, <1>4, <2>2, <3>2
    <3> QED
      BY <3>1, <3>2
  <2> QED
    BY <2>1, <2>2, <2>3, <2>4, SeqEqual
<1> QED
  BY <1>2, <1>5 DEF Served

\* Hook and test's client never wait for each other: until the client has heard
\* the welcome and an echo of every line, one of them can go on, with and
\* without SSL, for sockets of any capacity (TestClientServed; lines 131-152,
\* t/protocol/nntp-like.t).
THEOREM NeitherWaitsForGood ==
  Spec => [](cfg.enabled /\ client.kind = "test"
               => Served \/ HookCanMove \/ ClientCanMove)
<1>1. ASSUME TypeOK, EchoInv, TlsInv, TestInv, HandshakeFirst,
             cfg.enabled, client.kind = "test", ~Served, ~HookCanMove
      PROVE  ClientCanMove
  <2>1. /\ Len(sent) = Len(read) + Len(c2s) /\ Len(wrote) = Len(heard) + Len(s2c)
        /\ Len(sent) \in Nat /\ Len(read) \in Nat /\ Len(c2s) \in Nat
        /\ Len(wrote) \in Nat /\ Len(heard) \in Nat /\ Len(s2c) \in Nat
        /\ c2s = <<>> <=> Len(c2s) = 0
        /\ s2c = <<>> <=> Len(s2c) = 0
        /\ wrote = <<>> <=> Len(wrote) = 0
        /\ MaxLines \in Nat /\ Len(sent) <= MaxLines
        /\ Capacity \in Nat /\ Capacity > 0
    <3>1. /\ Len(sent) = Len(read) + Len(c2s) /\ Len(wrote) = Len(heard) + Len(s2c)
          /\ {Len(sent), Len(read), Len(c2s), Len(wrote), Len(heard), Len(s2c)}
               \subseteq Nat
          /\ c2s = <<>> <=> Len(c2s) = 0
          /\ s2c = <<>> <=> Len(s2c) = 0
          /\ wrote = <<>> <=> Len(wrote) = 0
      BY <1>1, WireLengths
    <3> QED
      BY <1>1, <3>1, NntpAssumption DEF TlsInv
  <2>2. Len(heard) # MaxLines + 1
    BY <1>1, HeardIsServed
  <2>3. /\ ~Silent /\ pc # "returned"
        /\ Len(sent) <= Len(heard)
        /\ cfg.ssl /\ sent # <<>> => tls = "up"
    BY <1>1, <2>2 DEF TestInv
  <2>4. Is("open")
    BY <2>3 DEF Silent, Is
  <2>5. CASE s2c # <<>>
    BY <2>4, <2>5 DEF ClientCanMove
  <2>6. CASE s2c = <<>>
    <3>1. CanPass
      BY <2>1, <2>6 DEF CanPass
    <3>2. CASE pc = "handshake"
      <4>1. cfg.ssl /\ tls = "none" /\ c2s = <<>>
        BY <1>1, <3>2 DEF HookCanMove, TypeOK, TlsInv
      <4> QED
        BY <2>4, <4>1 DEF ClientCanMove
    <3>3. CASE pc = "getline"
      <4>1. c2s = <<>> /\ Len(wrote) = Len(read) + 1
        BY <1>1, <3>3 DEF HookCanMove, EchoInv
      <4>2. Len(heard) = Len(sent) + 1 /\ Len(sent) < MaxLines /\ Len(c2s) < Capacity
        BY <2>1, <2>2, <2>6, <4>1
      <4>3. wrote # <<>>
        BY <2>1, <4>1
      <4>4. tls # "hello" /\ (cfg.ssl => tls = "up")
        BY <1>1, <4>3 DEF HandshakeFirst, TlsInv, TypeOK
      <4> QED
        BY <2>4, <4>2, <4>4 DEF ClientCanMove, InTurn
    <3> QED
      BY <1>1, <2>3, <3>1, <3>2, <3>3 DEF HookCanMove, TypeOK
  <2> QED
    BY <2>5, <2>6
<1> QED
  BY <1>1, TypeCorrect, EchoInvariant, TurnsInvariant, HandshakeFirstHolds, PTL

-----------------------------------------------------------------------------
(* The servers forked for one test each, in every world of OneShotServer.   *)

\* The socket listens from Open to CloseSocket, if it could be opened, and a
\* server runs once Fork has made one.  Only the fcgi child is ever killed.
SocketInv ==
  /\ listening <=> spc \in {"signal", "accept", "handle", "close"} /\ world.opens
  /\ tpc = "start" => spc = "none"
  /\ tpc # "start" => (world.forks <=> spc # "none")
  /\ tpc \in {"select", "kill"} => spc # "none"
  /\ tpc \in {"select", "kill", "waitpid"} \/ spc = "signal" \/ killed => FCGI
  /\ tpc = "sleep" => ~FCGI
  /\ killed => tpc = "exited" /\ world.term

\* The byte is in the pipe exactly from the time the fcgi child accepts, and
\* the tester goes on only when it is.
PipeInv ==
  /\ pipe => FCGI /\ spc \in {"accept", "handle", "close", "exited"}
  /\ FCGI /\ spc \in {"accept", "handle", "close"} => pipe
  /\ FCGI /\ tpc \in {"get", "response", "waitpid"} => pipe
  /\ ~FCGI /\ spc = "accept" => world.opens
  /\ pipe /\ conn \in {"none", "asked"} /\ tpc # "exited" =>
       spc = "accept" \/ ~world.opens \/ ~world.accepts

\* The one connection is the tester's GET, and where it is says where the
\* server is: queued before it handles it, answered before it closes.
ConnInv ==
  /\ conn = "none" <=> \/ tpc \in {"start", "select", "sleep", "kill", "get"}
                       \/ tpc = "exited" /\ code = 0
  /\ conn \in {"asked", "queued"} => tpc = "response"
  /\ spc = "handle" => conn = "queued"
  /\ spc = "close" => conn = "answered" \/ ~world.opens \/ ~world.accepts
  /\ conn = "queued" => /\ spc \in {"accept", "handle", "close"}
                        /\ listening /\ world.port
  /\ conn = "answered" => spc \in {"close", "exited"} /\ world.port
  /\ FCGI /\ conn = "failed" /\ world.port =>
       ~listening /\ (~world.opens \/ ~world.accepts)

\* What the tester has seen when it ends.
OutcomeInv ==
  /\ tpc = "waitpid" => code # 0
  /\ code # 0 => /\ tpc \in {"waitpid", "exited"}
                 /\ conn = "answered" <=> code = 200
  /\ oks = "ok" <=> code = 200
  /\ FCGI /\ tpc = "exited" =>
       \/ spc \in {"none", "exited"}
       \/ code = 0 /\ world.late /\ (killed \/ ~world.term)
  /\ FCGI /\ tpc = "kill" => code = 0 /\ (spc = "exited" \/ world.late)

\* The uds test has no handshake: whether the server is there when the sleep
\* ends is a matter of time.
SleepInv ==
  ~FCGI =>
    /\ world.port /\ (tpc = "exited" => code # 0)
    /\ ~world.late /\ tpc \notin {"start", "sleep"}
         => listening \/ spc \in {"none", "exited"}
    /\ conn = "failed" => world.late \/ spc \in {"none", "exited"}

ServersInv ==
  ServersTypeOK /\ SocketInv /\ PipeInv /\ ConnInv /\ OutcomeInv /\ SleepInv

\* Every step respects the types.
LEMMA ServersTypesStep == ServersTypeOK /\ [ServersNext]_testVars => ServersTypeOK'
<1> SUFFICES ASSUME ServersTypeOK, [ServersNext]_testVars PROVE ServersTypeOK'
  OBVIOUS
<1> USE DEF ServersNext, Tester, OneShot, Fork, CanRead, SelectTimesOut, Kill,
            SleepEnds, Get, Response, Waitpid, Open, Signal, Accept, AcceptFails,
            Answer, CloseSocket, Terminate, Connect, testVars
<1>1. /\ world \in Worlds => world' \in Worlds
      /\ pipe \in BOOLEAN => pipe' \in BOOLEAN
  OBVIOUS
<1>7. world \in Worlds => /\ killed \in BOOLEAN => killed' \in BOOLEAN
                          /\ listening \in BOOLEAN => listening' \in BOOLEAN
  BY DEF Worlds
<1>2. tpc \in {"start", "select", "sleep", "get", "response", "waitpid", "kill", "exited"} =>
      tpc' \in {"start", "select", "sleep", "get", "response", "waitpid", "kill", "exited"}
  OBVIOUS
<1>3. spc \in {"none", "open", "signal", "accept", "handle", "close", "exited"} =>
      spc' \in {"none", "open", "signal", "accept", "handle", "close", "exited"}
  OBVIOUS
<1>4. conn \in {"none", "asked", "queued", "answered", "failed"} =>
      conn' \in {"none", "asked", "queued", "answered", "failed"}
  OBVIOUS
<1> HIDE DEF ServersNext, Response, testVars
<1>5. code \in {0, 200, 503} => code' \in {0, 200, 503}
  <2>1. CASE Response
    <3>1. code' = IF conn = "answered" THEN 200 ELSE 503
      BY <2>1, Zenon DEF Response
    <3> QED
      BY <3>1
  <2>2. CASE ~Response
    <3>1. code' = code
      BY <2>2, Zenon DEF ServersNext, testVars
    <3> QED
      BY <3>1
  <2> QED
    BY <2>1, <2>2
<1>6. oks' \in {"none", "ok", "not ok"} \/ oks' = oks
  BY Zenon DEF ServersNext, Response, testVars
<1> QED
  BY <1>1, <1>2, <1>3, <1>4, <1>5, <1>6, <1>7, ZenonT(60) DEF ServersTypeOK

\* The invariant holds in every reachable state.
THEOREM ServersInvariant == ServersSpec => []ServersInv
<1> USE DEF FCGI
<1>0. 0 # 200
  OBVIOUS
<1>1. ServersInit => ServersInv
  <2> SUFFICES ASSUME ServersInit PROVE ServersInv
    OBVIOUS
  <2> USE DEF ServersInit
  <2>1. ServersTypeOK
    BY DEF ServersTypeOK
  <2>2. SocketInv /\ PipeInv
    BY DEF SocketInv, PipeInv
  <2>3. ConnInv /\ OutcomeInv
    BY DEF ConnInv, OutcomeInv
  <2>4. SleepInv
    BY DEF SleepInv, Worlds
  <2> QED
    BY <2>1, <2>2, <2>3, <2>4 DEF ServersInv
<1>2. ServersInv /\ [ServersNext]_testVars => ServersInv'
  <2> SUFFICES ASSUME ServersInv, [ServersNext]_testVars PROVE ServersInv'
    OBVIOUS
  <2>0. ServersTypeOK'
    BY ServersTypesStep DEF ServersInv
  <2>15. SocketInv /\ PipeInv /\ ConnInv /\ OutcomeInv /\ SleepInv
    BY DEF ServersInv
  <2> HIDE DEF ServersInv
  <2>1. CASE Fork
    <3> USE <2>1 DEF Fork
    <3>0. code' = 0 /\ (oks' = "ok" <=> code' = 200)
      <4>1. code' = code /\ tpc \in {"start", "select"} /\ oks' \in {"not ok", oks}
        BY Zenon
      <4>2. code = 0
        BY <2>15, <4>1, Zenon DEF OutcomeInv
      <4>3. oks # "ok"
        BY <1>0, <2>15, <4>2, Zenon DEF OutcomeInv
      <4> QED
        BY <1>0, <4>1, <4>2, <4>3, Zenon
    <3>1. SocketInv'
      BY <2>15 DEF SocketInv
    <3>2. PipeInv'
      BY <2>15 DEF PipeInv, SocketInv, ConnInv, OutcomeInv
    <3>3. ConnInv'
      BY <2>15 DEF ConnInv, SocketInv, PipeInv, OutcomeInv, SleepInv
    <3>4. OutcomeInv'
      BY <3>0, <2>15 DEF OutcomeInv, ConnInv, SocketInv, PipeInv
    <3>5. SleepInv'
      BY <2>15 DEF SleepInv, SocketInv, ConnInv, OutcomeInv, PipeInv
    <3> QED
      BY <2>0, <3>1, <3>2, <3>3, <3>4, <3>5 DEF ServersInv
  <2>2. CASE CanRead
    <3> USE <2>2 DEF CanRead
    <3>1. SocketInv'
      BY <2>15 DEF SocketInv
    <3>2. PipeInv'
      BY <2>15 DEF PipeInv, SocketInv, ConnInv, OutcomeInv
    <3>3. ConnInv'
      BY <2>15 DEF ConnInv, SocketInv, PipeInv, OutcomeInv, SleepInv
    <3>4. OutcomeInv'
      BY <2>15 DEF OutcomeInv, ConnInv, SocketInv, PipeInv
    <3>5. SleepInv'
      BY <2>15 DEF SleepInv, SocketInv, ConnInv, OutcomeInv, PipeInv
    <3> QED
      BY <2>0, <3>1, <3>2, <3>3, <3>4, <3>5 DEF ServersInv
  <2>3. CASE SelectTimesOut
    <3> USE <2>3 DEF SelectTimesOut
    <3>0. code' = 0 /\ (oks' = "ok" <=> code' = 200)
      <4>1. code' = code /\ tpc \in {"start", "select"} /\ oks' \in {"not ok", oks}
        BY Zenon
      <4>2. code = 0
        BY <2>15, <4>1, Zenon DEF OutcomeInv
      <4>3. oks # "ok"
        BY <1>0, <2>15, <4>2, Zenon DEF OutcomeInv
      <4> QED
        BY <1>0, <4>1, <4>2, <4>3, Zenon
    <3>1. SocketInv'
      BY <2>15 DEF SocketInv
    <3>2. PipeInv'
      BY <2>15 DEF PipeInv, SocketInv, ConnInv, OutcomeInv
    <3>3. ConnInv'
      BY <2>15 DEF ConnInv, SocketInv, PipeInv, OutcomeInv, SleepInv
    <3>4. OutcomeInv'
      BY <3>0, <2>15 DEF OutcomeInv, ConnInv, SocketInv, PipeInv
    <3>5. SleepInv'
      BY <2>15 DEF SleepInv, SocketInv, ConnInv, OutcomeInv, PipeInv
    <3> QED
      BY <2>0, <3>1, <3>2, <3>3, <3>4, <3>5 DEF ServersInv
  <2>4. CASE SleepEnds
    <3> USE <2>4 DEF SleepEnds
    <3>1. SocketInv'
      BY <2>15 DEF SocketInv
    <3>2. PipeInv'
      BY <2>15 DEF PipeInv, SocketInv, ConnInv, OutcomeInv
    <3>3. ConnInv'
      BY <2>15 DEF ConnInv, SocketInv, PipeInv, OutcomeInv, SleepInv
    <3>4. OutcomeInv'
      BY <2>15 DEF OutcomeInv, ConnInv, SocketInv, PipeInv
    <3>5. SleepInv'
      BY <2>15 DEF SleepInv, SocketInv, ConnInv, OutcomeInv, PipeInv
    <3> QED
      BY <2>0, <3>1, <3>2, <3>3, <3>4, <3>5 DEF ServersInv
  <2>5. CASE Get
    <3> USE <2>5 DEF Get
    <3>1. SocketInv'
      BY <2>15 DEF SocketInv
    <3>2. PipeInv'
      BY <2>15 DEF PipeInv, SocketInv, ConnInv, OutcomeInv
    <3>3. ConnInv'
      BY <2>15 DEF ConnInv, SocketInv, PipeInv, OutcomeInv, SleepInv
    <3>4. OutcomeInv'
      BY <2>15 DEF OutcomeInv, ConnInv, SocketInv, PipeInv
    <3>5. SleepInv'
      BY <2>15 DEF SleepInv, SocketInv, ConnInv, OutcomeInv, PipeInv
    <3> QED
      BY <2>0, <3>1, <3>2, <3>3, <3>4, <3>5 DEF ServersInv
  <2>6. CASE Response
    <3>0. /\ tpc = "response" /\ conn \in {"answered", "failed"}
          /\ code' = IF conn = "answered" THEN 200 ELSE 503
          /\ tpc' = IF FCGI THEN "waitpid" ELSE "exited"
          /\ UNCHANGED <<world, spc, listening, pipe, killed, conn>>
      BY <2>6, Zenon DEF Response
    <3>6. oks' = "ok" <=> code' = 200
      <4>1. oks' = IF code' = 200 THEN "ok" ELSE "not ok"
        BY <2>6, Zenon DEF Response
      <4> QED
        BY <4>1, Zenon
    <3> USE <3>0, <3>6
    <3>1. SocketInv'
      BY <2>15 DEF SocketInv
    <3>2. PipeInv'
      BY <2>15 DEF PipeInv, SocketInv, ConnInv, OutcomeInv
    <3>3. ConnInv'
      BY <2>15 DEF ConnInv, SocketInv, PipeInv, OutcomeInv, SleepInv
    <3>4. OutcomeInv'
      BY <2>15 DEF OutcomeInv, ConnInv, SocketInv, PipeInv
    <3>5. SleepInv'
      BY <2>15 DEF SleepInv, SocketInv, ConnInv, OutcomeInv, PipeInv
    <3> QED
      BY <2>0, <3>1, <3>2, <3>3, <3>4, <3>5 DEF ServersInv
  <2>7. CASE Waitpid
    <3> USE <2>7 DEF Waitpid
    <3>1. SocketInv'
      BY <2>15 DEF SocketInv
    <3>2. PipeInv'
      BY <2>15 DEF PipeInv, SocketInv, ConnInv, OutcomeInv
    <3>3. ConnInv'
      BY <2>15 DEF ConnInv, SocketInv, PipeInv, OutcomeInv, SleepInv
    <3>4. OutcomeInv'
      BY <2>15 DEF OutcomeInv, ConnInv, SocketInv, PipeInv
    <3>5. SleepInv'
      BY <2>15 DEF SleepInv, SocketInv, ConnInv, OutcomeInv, PipeInv
    <3> QED
      BY <2>0, <3>1, <3>2, <3>3, <3>4, <3>5 DEF ServersInv
  <2>8. CASE Open
    <3> USE <2>8 DEF Open
    <3>0. world.opens \in BOOLEAN
      BY <2>0, <2>8, Zenon DEF ServersTypeOK, Worlds
    <3>6. listening' <=> world.opens
      BY <3>0, <2>8, Zenon DEF Open
    <3>7. ~(FCGI /\ conn = "failed") /\ conn # "queued"
      <4>1. /\ spc = "open"
            /\ tpc \in {"start", "select", "sleep", "get", "response", "waitpid",
                       "kill", "exited"}
        BY <2>8, Zenon DEF Open, ServersInv, ServersTypeOK
      <4>2. FCGI => ~pipe /\ tpc \notin {"get", "response", "waitpid"}
                    /\ (tpc = "exited" => code = 0)
        BY <2>15, <4>1 DEF PipeInv, OutcomeInv
      <4> QED
        BY <2>15, <4>1, <4>2 DEF ConnInv
    <3> USE <3>6, <3>7
    <3>1. SocketInv'
      BY <2>15 DEF SocketInv
    <3>2. PipeInv'
      BY <2>15 DEF PipeInv, SocketInv, ConnInv, OutcomeInv
    <3>3. ConnInv'
      BY <2>15 DEF ConnInv, SocketInv, PipeInv, OutcomeInv, SleepInv
    <3>4. OutcomeInv'
      BY <2>15 DEF OutcomeInv, ConnInv, SocketInv, PipeInv
    <3>5. SleepInv'
      BY <2>15 DEF SleepInv, SocketInv, ConnInv, OutcomeInv, PipeInv
    <3> QED
      BY <2>0, <3>1, <3>2, <3>3, <3>4, <3>5 DEF ServersInv
  <2>9. CASE Signal
    <3> USE <2>9 DEF Signal
    <3>1. SocketInv'
      BY <2>15 DEF SocketInv
    <3>2. PipeInv'
      BY <2>15 DEF PipeInv, SocketInv, ConnInv, OutcomeInv
    <3>3. ConnInv'
      BY <2>15 DEF ConnInv, SocketInv, PipeInv, OutcomeInv, SleepInv
    <3>4. OutcomeInv'
      BY <2>15 DEF OutcomeInv, ConnInv, SocketInv, PipeInv
    <3>5. SleepInv'
      BY <2>15 DEF SleepInv, SocketInv, ConnInv, OutcomeInv, PipeInv
    <3> QED
      BY <2>0, <3>1, <3>2, <3>3, <3>4, <3>5 DEF ServersInv
  <2>10. CASE Accept
    <3> USE <2>10 DEF Accept
    <3>1. SocketInv'
      BY <2>15 DEF SocketInv
    <3>2. PipeInv'
      BY <2>15 DEF PipeInv, SocketInv, ConnInv, OutcomeInv
    <3>3. ConnInv'
      BY <2>15 DEF ConnInv, SocketInv, PipeInv, OutcomeInv, SleepInv
    <3>4. OutcomeInv'
      BY <2>15 DEF OutcomeInv, ConnInv, SocketInv, PipeInv
    <3>5. SleepInv'
      BY <2>15 DEF SleepInv, SocketInv, ConnInv, OutcomeInv, PipeInv
    <3> QED
      BY <2>0, <3>1, <3>2, <3>3, <3>4, <3>5 DEF ServersInv
  <2>11. CASE Answer
    <3> USE <2>11 DEF Answer
    <3>1. SocketInv'
      BY <2>15 DEF SocketInv
    <3>2. PipeInv'
      BY <2>15 DEF PipeInv, SocketInv, ConnInv, OutcomeInv
    <3>3. ConnInv'
      BY <2>15 DEF ConnInv, SocketInv, PipeInv, OutcomeInv, SleepInv
    <3>4. OutcomeInv'
      BY <2>15 DEF OutcomeInv, ConnInv, SocketInv, PipeInv
    <3>5. SleepInv'
      BY <2>15 DEF SleepInv, SocketInv, ConnInv, OutcomeInv, PipeInv
    <3> QED
      BY <2>0, <3>1, <3>2, <3>3, <3>4, <3>5 DEF ServersInv
  <2>12. CASE CloseSocket
    <3> USE <2>12 DEF CloseSocket
    <3>1. SocketInv'
      BY <2>15 DEF SocketInv
    <3>2. PipeInv'
      BY <2>15 DEF PipeInv, SocketInv, ConnInv, OutcomeInv
    <3>3. ConnInv'
      BY <2>15 DEF ConnInv, SocketInv, PipeInv, OutcomeInv, SleepInv
    <3>4. OutcomeInv'
      BY <2>15 DEF OutcomeInv, ConnInv, SocketInv, PipeInv
    <3>5. SleepInv'
      BY <2>15 DEF SleepInv, SocketInv, ConnInv, OutcomeInv, PipeInv
    <3> QED
      BY <2>0, <3>1, <3>2, <3>3, <3>4, <3>5 DEF ServersInv
  <2>13. CASE Connect
    <3> USE <2>13 DEF Connect
    <3>1. SocketInv'
      BY <2>15 DEF SocketInv
    <3>2. PipeInv'
      BY <2>15 DEF PipeInv, SocketInv, ConnInv, OutcomeInv
    <3>3. ConnInv'
      BY <2>15 DEF ConnInv, SocketInv, PipeInv, OutcomeInv, SleepInv
    <3>4. OutcomeInv'
      BY <2>15 DEF OutcomeInv, ConnInv, SocketInv, PipeInv
    <3>5. SleepInv'
      BY <2>15 DEF SleepInv, SocketInv, ConnInv, OutcomeInv, PipeInv
    <3> QED
      BY <2>0, <3>1, <3>2, <3>3, <3>4, <3>5 DEF ServersInv
  <2>16. CASE Kill
    <3> USE <2>16 DEF Kill
    <3>1. SocketInv'
      BY <2>15 DEF SocketInv
    <3>2. PipeInv'
      BY <2>15 DEF PipeInv, SocketInv, ConnInv, OutcomeInv
    <3>3. ConnInv'
      BY <2>15 DEF ConnInv, SocketInv, PipeInv, OutcomeInv, SleepInv
    <3>4. OutcomeInv'
      BY <2>15 DEF OutcomeInv, ConnInv, SocketInv, PipeInv
    <3>5. SleepInv'
      BY <2>15 DEF SleepInv, SocketInv, ConnInv, OutcomeInv, PipeInv
    <3> QED
      BY <2>0, <3>1, <3>2, <3>3, <3>4, <3>5 DEF ServersInv
  <2>17. CASE AcceptFails
    <3> USE <2>17 DEF AcceptFails
    <3>1. SocketInv'
      BY <2>15 DEF SocketInv
    <3>2. PipeInv'
      BY <2>15 DEF PipeInv, SocketInv, ConnInv, OutcomeInv
    <3>3. ConnInv'
      BY <2>15 DEF ConnInv, SocketInv, PipeInv, OutcomeInv, SleepInv
    <3>4. OutcomeInv'
      BY <2>15 DEF OutcomeInv, ConnInv, SocketInv, PipeInv
    <3>5. SleepInv'
      BY <2>15 DEF SleepInv, SocketInv, ConnInv, OutcomeInv, PipeInv
    <3> QED
      BY <2>0, <3>1, <3>2, <3>3, <3>4, <3>5 DEF ServersInv
  <2>18. CASE Terminate
    <3> USE <2>18 DEF Terminate
    <3>1. SocketInv'
      BY <2>15 DEF SocketInv
    <3>2. PipeInv'
      BY <2>15 DEF PipeInv, SocketInv, ConnInv, OutcomeInv
    <3>3. ConnInv'
      BY <2>15 DEF ConnInv, SocketInv, PipeInv, OutcomeInv, SleepInv
    <3>4. OutcomeInv'
      BY <2>15 DEF OutcomeInv, ConnInv, SocketInv, PipeInv
    <3>5. SleepInv'
      BY <2>15 DEF SleepInv, SocketInv, ConnInv, OutcomeInv, PipeInv
    <3> QED
      BY <2>0, <3>1, <3>2, <3>3, <3>4, <3>5 DEF ServersInv
  <2>14. CASE UNCHANGED testVars
    <3> USE <2>14 DEF testVars
    <3>1. SocketInv'
      BY <2>15 DEF SocketInv
    <3>2. PipeInv'
      BY <2>15 DEF PipeInv, SocketInv, ConnInv, OutcomeInv
    <3>3. ConnInv'
      BY <2>15 DEF ConnInv, SocketInv, PipeInv, OutcomeInv, SleepInv
    <3>4. OutcomeInv'
      BY <2>15 DEF OutcomeInv, ConnInv, SocketInv, PipeInv
    <3>5. SleepInv'
      BY <2>15 DEF SleepInv, SocketInv, ConnInv, OutcomeInv, PipeInv
    <3> QED
      BY <2>0, <3>1, <3>2, <3>3, <3>4, <3>5 DEF ServersInv
  <2> QED
    BY <2>1, <2>2, <2>3, <2>4, <2>5, <2>6, <2>7, <2>8, <2>9, <2>10, <2>11,
       <2>12, <2>13, <2>14, <2>16, <2>17, <2>18, Zenon DEF ServersNext, Tester, OneShot
<1> QED
  BY <1>1, <1>2, PTL DEF ServersSpec

\* After the handshake the GET can fail only for the port, the socket or the
\* Accept (ReadyMeansListening): nothing depends on how late the child was.
THEOREM HandshakeIsEnough == ServersSpec => []ReadyMeansListening
<1>1. ServersInv => ReadyMeansListening
  <2> SUFFICES ASSUME ServersInv, FCGI, world.port, world.opens, world.accepts,
                      code # 0
               PROVE  code = 200
    BY DEF ReadyMeansListening
  <2>1. tpc \in {"waitpid", "exited"}
    BY DEF ServersInv, OutcomeInv
  <2>2. conn \notin {"none", "asked", "queued", "failed"}
    BY <2>1 DEF ServersInv, ConnInv
  <2>3. conn = "answered"
    BY <2>2, Zenon DEF ServersInv, ServersTypeOK
  <2> QED
    BY <2>3 DEF ServersInv, OutcomeInv
<1> QED
  BY <1>1, ServersInvariant, PTL

\* The fcgi test that made its request leaves no server behind; one that gave
\* up leaves one only with TERM on the way to it, or where that cannot be
\* delivered (NothingLeftOver).
THEOREM NoServerIsLeft == ServersSpec => []NothingLeftOver
<1>1. ServersInv => NothingLeftOver
  BY DEF ServersInv, OutcomeInv, SocketInv, NothingLeftOver
<1> QED
  BY <1>1, ServersInvariant, PTL

-----------------------------------------------------------------------------
(* Why both processes end: every step brings them closer, and as long as one *)
(* has not ended somebody has a step to take, in the worlds that are not     *)
(* Forsaken.  With the fairness of ServersSpec this is BothEnd.              *)

TesterToGo ==
  CASE tpc = "start" -> 10 [] tpc \in {"select", "sleep"} -> 4 [] tpc = "get" -> 3
    [] tpc = "response" -> 2 [] tpc \in {"waitpid", "kill"} -> 1
    [] OTHER -> 0
OneShotToGo ==
  CASE spc = "open" -> 5 [] spc = "signal" -> 4 [] spc = "accept" -> 3
    [] spc = "handle" -> 2 [] spc = "close" -> 1 [] OTHER -> 0
ConnToGo ==
  CASE conn = "none" -> 4 [] conn = "asked" -> 3 [] conn = "queued" -> 2 [] OTHER -> 0

StepsToGo == TesterToGo + OneShotToGo + ConnToGo

BothEnded == tpc = "exited" /\ spc \in {"none", "exited"} /\ ~listening

\* The guards of the actions that ServersSpec is fair to.
SomebodyCanMove ==
  \/ tpc \in {"start", "kill", "get"}
  \/ tpc = "select" /\ (pipe \/ world.late \/ spc = "exited")
  \/ tpc = "sleep" /\ (world.late \/ listening \/ spc \in {"none", "exited"})
  \/ tpc = "response" /\ conn \in {"answered", "failed"}
  \/ tpc = "waitpid" /\ spc = "exited"
  \/ spc \in {"open", "signal", "handle", "close"}
  \/ spc = "accept" /\ (conn = "queued" \/ ~listening)
  \/ killed /\ spc \notin {"none", "exited"}
  \/ conn = "asked"

\* Every step of either process or of httpd lowers what is left to do, so
\* that no run of the test has more than 19 of them.
THEOREM EveryStepCounts ==
  ServersSpec => [](StepsToGo \in 0..19) /\ [][StepsToGo' < StepsToGo]_testVars
<1>1. /\ TesterToGo \in 0..10 /\ OneShotToGo \in 0..5 /\ ConnToGo \in 0..4
      /\ TesterToGo' \in 0..10 /\ OneShotToGo' \in 0..5 /\ ConnToGo' \in 0..4
  BY DEF TesterToGo, OneShotToGo, ConnToGo
<1>0. StepsToGo \in 0..19
  BY <1>1 DEF StepsToGo
<1>2. ASSUME ServersInv, ServersNext PROVE StepsToGo' < StepsToGo
  <2>14. PICK t \in 0..10, o \in 0..5, c \in 0..4 :
             t = TesterToGo' /\ o = OneShotToGo' /\ c = ConnToGo'
    BY <1>1
  <2>15. StepsToGo' = t + o + c
    BY <2>14, Zenon DEF StepsToGo
  <2>16. StepsToGo = TesterToGo + OneShotToGo + ConnToGo
    BY DEF StepsToGo
  <2>0. SocketInv /\ ConnInv
    BY <1>2 DEF ServersInv
  <2>1. ASSUME Fork PROVE StepsToGo' < StepsToGo
    <3>1. TesterToGo = 10 /\ (t = 0 \/ t = 4)
      BY <2>14, <2>1, Zenon DEF Fork, TesterToGo
    <3>2. OneShotToGo = 0 /\ (o = 0 \/ o = 5)
      BY <2>0, <2>14, <2>1, Zenon DEF Fork, OneShotToGo, SocketInv
    <3>3. c = ConnToGo
      BY <2>14, <2>1, Zenon DEF Fork, ConnToGo
    <3> QED
      BY <1>1, <2>15, <2>16, <3>1, <3>2, <3>3
  <2>2. ASSUME CanRead PROVE StepsToGo' < StepsToGo
    <3>1. TesterToGo = 4 /\ t = 3
      BY <2>14, <2>2, Zenon DEF CanRead, TesterToGo
    <3>2. o = OneShotToGo
      BY <2>14, <2>2, Zenon DEF CanRead, OneShotToGo
    <3>3. c = ConnToGo
      BY <2>14, <2>2, Zenon DEF CanRead, ConnToGo
    <3> QED
      BY <1>1, <2>15, <2>16, <3>1, <3>2, <3>3
  <2>3. ASSUME SelectTimesOut PROVE StepsToGo' < StepsToGo
    <3>1. TesterToGo = 4 /\ t = 1
      BY <2>14, <2>3, Zenon DEF SelectTimesOut, TesterToGo
    <3>2. o = OneShotToGo
      BY <2>14, <2>3, Zenon DEF SelectTimesOut, OneShotToGo
    <3>3. c = ConnToGo
      BY <2>14, <2>3, Zenon DEF SelectTimesOut, ConnToGo
    <3> QED
      BY <1>1, <2>15, <2>16, <3>1, <3>2, <3>3
  <2>4. ASSUME SleepEnds PROVE StepsToGo' < StepsToGo
    <3>1. TesterToGo = 4 /\ t = 3
      BY <2>14, <2>4, Zenon DEF SleepEnds, TesterToGo
    <3>2. o = OneShotToGo
      BY <2>14, <2>4, Zenon DEF SleepEnds, OneShotToGo
    <3>3. c = ConnToGo
      BY <2>14, <2>4, Zenon DEF SleepEnds, ConnToGo
    <3> QED
      BY <1>1, <2>15, <2>16, <3>1, <3>2, <3>3
  <2>5. ASSUME Get PROVE StepsToGo' < StepsToGo
    <3>1. TesterToGo = 3 /\ t = 2
      BY <2>14, <2>5, Zenon DEF Get, TesterToGo
    <3>2. o = OneShotToGo
      BY <2>14, <2>5, Zenon DEF Get, OneShotToGo
    <3>3. ConnToGo = 4 /\ c = 3
      BY <2>0, <2>14, <2>5, Zenon DEF Get, ConnToGo, ConnInv
    <3> QED
      BY <1>1, <2>15, <2>16, <3>1, <3>2, <3>3
  <2>6. ASSUME Response PROVE StepsToGo' < StepsToGo
    <3>1. TesterToGo = 2 /\ (t = 0 \/ t = 1)
      BY <2>14, <2>6, Zenon DEF Response, TesterToGo
    <3>2. o = OneShotToGo
      BY <2>14, <2>6, Zenon DEF Response, OneShotToGo
    <3>3. c = ConnToGo
      BY <2>14, <2>6, Zenon DEF Response, ConnToGo
    <3> QED
      BY <1>1, <2>15, <2>16, <3>1, <3>2, <3>3
  <2>7. ASSUME Waitpid PROVE StepsToGo' < StepsToGo
    <3>1. TesterToGo = 1 /\ t = 0
      BY <2>14, <2>7, Zenon DEF Waitpid, TesterToGo
    <3>2. o = OneShotToGo
      BY <2>14, <2>7, Zenon DEF Waitpid, OneShotToGo
    <3>3. c = ConnToGo
      BY <2>14, <2>7, Zenon DEF Waitpid, ConnToGo
    <3> QED
      BY <1>1, <2>15, <2>16, <3>1, <3>2, <3>3
  <2>8. ASSUME Open PROVE StepsToGo' < StepsToGo
    <3>1. t = TesterToGo
      BY <2>14, <2>8, Zenon DEF Open, TesterToGo
    <3>2. OneShotToGo = 5 /\ (o = 0 \/ o = 3 \/ o = 4)
      BY <2>14, <2>8, Zenon DEF Open, OneShotToGo
    <3>3. c = ConnToGo
      BY <2>14, <2>8, Zenon DEF Open, ConnToGo
    <3> QED
      BY <1>1, <2>15, <2>16, <3>1, <3>2, <3>3
  <2>9. ASSUME Signal PROVE StepsToGo' < StepsToGo
    <3>1. t = TesterToGo
      BY <2>14, <2>9, Zenon DEF Signal, TesterToGo
    <3>2. OneShotToGo = 4 /\ o = 3
      BY <2>14, <2>9, Zenon DEF Signal, OneShotToGo
    <3>3. c = ConnToGo
      BY <2>14, <2>9, Zenon DEF Signal, ConnToGo
    <3> QED
      BY <1>1, <2>15, <2>16, <3>1, <3>2, <3>3
  <2>10. ASSUME Accept PROVE StepsToGo' < StepsToGo
    <3>1. t = TesterToGo
      BY <2>14, <2>10, Zenon DEF Accept, TesterToGo
    <3>2. OneShotToGo = 3 /\ o = 2
      BY <2>14, <2>10, Zenon DEF Accept, OneShotToGo
    <3>3. c = ConnToGo
      BY <2>14, <2>10, Zenon DEF Accept, ConnToGo
    <3> QED
      BY <1>1, <2>15, <2>16, <3>1, <3>2, <3>3
  <2>11. ASSUME Answer PROVE StepsToGo' < StepsToGo
    <3>1. t = TesterToGo
      BY <2>14, <2>11, Zenon DEF Answer, TesterToGo
    <3>2. OneShotToGo = 2 /\ o = 1
      BY <2>14, <2>11, Zenon DEF Answer, OneShotToGo
    <3>3. ConnToGo = 2 /\ c = 0
      BY <2>0, <2>14, <2>11, Zenon DEF Answer, ConnToGo, ConnInv
    <3> QED
      BY <1>1, <2>15, <2>16, <3>1, <3>2, <3>3
  <2>12. ASSUME CloseSocket PROVE StepsToGo' < StepsToGo
    <3>1. t = TesterToGo
      BY <2>14, <2>12, Zenon DEF CloseSocket, TesterToGo
    <3>2. OneShotToGo = 1 /\ o = 0
      BY <2>14, <2>12, Zenon DEF CloseSocket, OneShotToGo
    <3>3. c = 0 \/ c = ConnToGo
      BY <2>14, <2>12, Zenon DEF CloseSocket, ConnToGo
    <3> QED
      BY <1>1, <2>15, <2>16, <3>1, <3>2, <3>3
  <2>13. ASSUME Connect PROVE StepsToGo' < StepsToGo
    <3>1. t = TesterToGo
      BY <2>14, <2>13, Zenon DEF Connect, TesterToGo
    <3>2. o = OneShotToGo
      BY <2>14, <2>13, Zenon DEF Connect, OneShotToGo
    <3>3. ConnToGo = 3 /\ (c = 0 \/ c = 2)
      BY <2>14, <2>13, Zenon DEF Connect, ConnToGo
    <3> QED
      BY <1>1, <2>15, <2>16, <3>1, <3>2, <3>3
  <2>17. ASSUME Kill PROVE StepsToGo' < StepsToGo
    <3>1. TesterToGo = 1 /\ t = 0
      BY <2>14, <2>17, Zenon DEF Kill, TesterToGo
    <3>2. o = OneShotToGo
      BY <2>14, <2>17, Zenon DEF Kill, OneShotToGo
    <3>3. c = ConnToGo
      BY <2>14, <2>17, Zenon DEF Kill, ConnToGo
    <3> QED
      BY <1>1, <2>15, <2>16, <3>1, <3>2, <3>3
  <2>18. ASSUME AcceptFails PROVE StepsToGo' < StepsToGo
    <3>1. t = TesterToGo
      BY <2>14, <2>18, Zenon DEF AcceptFails, TesterToGo
    <3>2. OneShotToGo = 3 /\ o = 1
      BY <2>14, <2>18, Zenon DEF AcceptFails, OneShotToGo
    <3>3. c = ConnToGo
      BY <2>14, <2>18, Zenon DEF AcceptFails, ConnToGo
    <3> QED
      BY <1>1, <2>15, <2>16, <3>1, <3>2, <3>3
  <2>19. ASSUME Terminate PROVE StepsToGo' < StepsToGo
    <3>1. t = TesterToGo
      BY <2>14, <2>19, Zenon DEF Terminate, TesterToGo
    <3>2. OneShotToGo \in 1..5 /\ o = 0
      <4>1. spc \in {"open", "signal", "accept", "handle", "close"} /\ spc' = "exited"
        BY <1>2, <2>19, Zenon DEF Terminate, ServersInv, ServersTypeOK
      <4>2. o = 0
        BY <2>14, <4>1, Zenon DEF OneShotToGo
      <4> QED
        BY <4>1, <4>2 DEF OneShotToGo
    <3>3. c = ConnToGo
      BY <2>14, <2>19, Zenon DEF Terminate, ConnToGo
    <3> QED
      BY <1>1, <2>15, <2>16, <3>1, <3>2, <3>3
  <2> QED
    BY <1>2, <2>1, <2>2, <2>3, <2>4, <2>5, <2>6, <2>7, <2>8, <2>9, <2>10, <2>11,
       <2>12, <2>13, <2>17, <2>18, <2>19, Zenon DEF ServersNext, Tester, OneShot
<1> QED
  BY <1>0, <1>2, ServersInvariant, PTL DEF ServersSpec

\* Nobody waits for what cannot come, except in the worlds that say so.
THEOREM NobodyIsStuck == ServersSpec => [](Forsaken \/ BothEnded \/ SomebodyCanMove)
<1>1. ServersInv => Forsaken \/ BothEnded \/ SomebodyCanMove
  <2> SUFFICES ASSUME ServersInv, ~SomebodyCanMove PROVE Forsaken \/ BothEnded
    OBVIOUS
  <2>1. SocketInv /\ PipeInv /\ ConnInv /\ OutcomeInv /\ SleepInv
    BY DEF ServersInv
  <2>2. tpc \in {"select", "sleep", "response", "waitpid", "exited"}
    BY Zenon DEF ServersInv, ServersTypeOK, SomebodyCanMove
  <2>3. spc \in {"none", "accept", "exited"}
    BY Zenon DEF ServersInv, ServersTypeOK, SomebodyCanMove
  <2>4. conn \in {"none", "queued", "answered", "failed"}
    BY Zenon DEF ServersInv, ServersTypeOK, SomebodyCanMove
  <2>5. CASE spc # "accept"
    <3>1. tpc = "exited"
      BY <2>1, <2>2, <2>3, <2>4, <2>5
         DEF SocketInv, PipeInv, ConnInv, OutcomeInv, SleepInv, SomebodyCanMove
    <3> QED
      BY <2>1, <2>3, <2>5, <3>1 DEF SocketInv, BothEnded
  <2>6. CASE spc = "accept"
    <3>1. tpc # "start" /\ listening /\ world.forks /\ world.opens
      BY <2>1, <2>2, <2>6 DEF SocketInv, SomebodyCanMove
    <3>2. tpc \in {"waitpid", "exited"} /\ conn \in {"none", "failed"}
      BY <2>1, <2>2, <2>4, <2>6, <3>1
         DEF SocketInv, PipeInv, ConnInv, SomebodyCanMove
    <3>3. CASE FCGI
      <4>1. ~world.port \/ (world.late /\ ~world.term)
        BY <2>1, <2>6, <3>1, <3>2, <3>3 DEF ConnInv, OutcomeInv, SomebodyCanMove
      <4> QED
        BY <3>1, <3>3, <4>1 DEF Forsaken
    <3>4. CASE ~FCGI
      <4>1. world.late
        BY <2>1, <2>6, <3>2, <3>4 DEF SocketInv, ConnInv, SleepInv
      <4> QED
        BY <3>1, <3>4, <4>1 DEF Forsaken
    <3> QED
      BY <3>3, <3>4
  <2> QED
    BY <2>5, <2>6
<1> QED
  BY <1>1, ServersInvariant, PTL

=============================================================================
