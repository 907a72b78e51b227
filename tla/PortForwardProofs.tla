-------------------------- MODULE PortForwardProofs --------------------------
(* What holds of PortForward for any bounds: the types, that no end is     *)
(* given bytes for a message, and that what each side writes comes to the  *)
(* other, with what among it.                                              *)
EXTENDS PortForward, TLAPS

\* A message of one of the types T is on the wire, and up to it none of N.
First(w, T, N) == \E k \in 1 .. Len(w) : w[k].type \in T /\ \A i \in 1 .. k : w[i].type \notin N
Has(w, type) == \E i \in 1 .. Len(w) : w[i].type = type


AnswerFirst(w) == First(w, {"PeerInfo", "Refused"}, {"raw"})
TestFirst(w) == First(w, {"TestDelay"}, {"PeerInfo"})
ReplyFirst(w) == First(w, {"TestDelay"}, {"raw"})

\* The client leaves the login before it comes to the bytes of the service: the
\* PeerInfo or a refusal is ahead of them.
ClientSide ==
    /\ client = "forward" => authorized
    /\ Has(toClient, "PeerInfo") => authorized
    /\ client = "login" /\ (authorized \/ server = "forward" \/ Has(toClient, "raw")) =>
          AnswerFirst(toClient)

\* The server leaves its loop before it comes to the bytes of the program: it
\* stays only for a reply, which is ahead of them, because the client comes to
\* the TestDelay before the PeerInfo.
ServerSide ==
    /\ Has(toServer, "raw") => authorized /\ client # "login"
    /\ server = "loop" =>
          /\ authorized => testing /\ socket
          /\ client = "forward" \/ Has(toServer, "raw") => ReplyFirst(toServer)
          /\ client = "login" /\ testing => ReplyFirst(toServer) \/ TestFirst(toClient)

Sides == ClientSide /\ ServerSide

-----------------------------------------------------------------------------
(* Wires.                                                                  *)

\* More at the end of a wire changes nothing of what comes first.
LEMMA FirstConcat ==
    ASSUME NEW S, NEW w \in Seq(S), NEW v \in Seq(S), NEW T, NEW N, First(w, T, N)
    PROVE  First(w \o v, T, N)
<1>1. PICK k \in 1 .. Len(w) : w[k].type \in T /\ \A i \in 1 .. k : w[i].type \notin N
  BY DEF First
<1>2. k \in 1 .. Len(w \o v) /\ \A i \in 1 .. k : (w \o v)[i] = w[i]
  OBVIOUS
<1>3. k \in 1 .. k
  OBVIOUS
<1> QED BY <1>1, <1>2, <1>3 DEF First

\* The first message of its kind, at the end of a wire that has none of N.
LEMMA FirstNew ==
    ASSUME NEW S, NEW w \in Seq(S), NEW m \in S, NEW T, NEW N,
           \A i \in 1 .. Len(w) : w[i].type \notin N, m.type \in T, m.type \notin N
    PROVE  First(w \o <<m>>, T, N)
<1>1. /\ Len(w) + 1 \in 1 .. Len(w \o <<m>>)
      /\ (w \o <<m>>)[Len(w) + 1] = m
      /\ \A i \in 1 .. Len(w) : (w \o <<m>>)[i] = w[i]
  OBVIOUS
<1>2. \A i \in 1 .. Len(w) + 1 : (w \o <<m>>)[i].type \notin N
  BY <1>1
<1> QED BY <1>1, <1>2 DEF First

\* Reading one of another kind.
LEMMA FirstTail ==
    ASSUME NEW S, NEW w \in Seq(S), NEW T, NEW N, First(w, T, N), w # <<>>,
           Head(w).type \notin T
    PROVE  First(Tail(w), T, N)
<1>1. PICK k \in 1 .. Len(w) : w[k].type \in T /\ \A i \in 1 .. k : w[i].type \notin N
  BY DEF First
<1>2. k # 1
  BY <1>1
<1>3. k - 1 \in 1 .. Len(Tail(w)) /\ \A i \in 1 .. k - 1 : Tail(w)[i] = w[i + 1]
  BY <1>2
<1>4. Tail(w)[k - 1].type \in T
  BY <1>1, <1>3, <1>2
<1>5. \A i \in 1 .. k - 1 : Tail(w)[i].type \notin N
  <2> TAKE i \in 1 .. k - 1
  <2>1. i + 1 \in 1 .. k
    OBVIOUS
  <2> QED BY <1>1, <1>3, <2>1
<1> QED BY <1>3, <1>4, <1>5 DEF First

\* What is read next.
LEMMA FirstHead ==
    ASSUME NEW S, NEW w \in Seq(S), NEW T, NEW N, First(w, T, N)
    PROVE  w # <<>> /\ Head(w).type \notin N
<1>1. PICK k \in 1 .. Len(w) : w[k].type \in T /\ \A i \in 1 .. k : w[i].type \notin N
  BY DEF First
<1>2. 1 \in 1 .. k /\ w # <<>>
  OBVIOUS
<1> QED BY <1>1, <1>2

LEMMA HasConcat ==
    ASSUME NEW S, NEW w \in Seq(S), NEW v \in Seq(S), NEW type
    PROVE  Has(w \o v, type) <=> Has(w, type) \/ Has(v, type)
<1>1. ASSUME NEW i \in 1 .. Len(w \o v), (w \o v)[i].type = type
      PROVE  Has(w, type) \/ Has(v, type)
  <2>1. CASE i <= Len(w)
    BY <1>1, <2>1 DEF Has
  <2>2. CASE i > Len(w)
    <3>1. i - Len(w) \in 1 .. Len(v) /\ (w \o v)[i] = v[i - Len(w)]
      BY <2>2
    <3> QED BY <1>1, <3>1 DEF Has
  <2> QED BY <2>1, <2>2
<1>2. ASSUME NEW i \in 1 .. Len(w), w[i].type = type
      PROVE  Has(w \o v, type)
  <2>1. i \in 1 .. Len(w \o v) /\ (w \o v)[i] = w[i]
    OBVIOUS
  <2> QED BY <1>2, <2>1 DEF Has
<1>3. ASSUME NEW i \in 1 .. Len(v), v[i].type = type
      PROVE  Has(w \o v, type)
  <2>1. Len(w) + i \in 1 .. Len(w \o v) /\ (w \o v)[Len(w) + i] = v[i]
    OBVIOUS
  <2> QED BY <1>3, <2>1 DEF Has
<1> QED BY <1>1, <1>2, <1>3 DEF Has

LEMMA HasTail ==
    ASSUME NEW S, NEW w \in Seq(S), w # <<>>, NEW type, Has(Tail(w), type)
    PROVE  Has(w, type)
<1>1. PICK i \in 1 .. Len(Tail(w)) : Tail(w)[i].type = type
  BY DEF Has
<1>2. i + 1 \in 1 .. Len(w) /\ Tail(w)[i] = w[i + 1]
  OBVIOUS
<1> QED BY <1>1, <1>2 DEF Has

LEMMA HasOne ==
    ASSUME NEW m, NEW type
    PROVE  Has(<<m>>, type) <=> m.type = type
<1>1. Len(<<m>>) = 1 /\ <<m>>[1] = m
  OBVIOUS
<1> QED BY <1>1 DEF Has

LEMMA HasNone == ASSUME NEW type PROVE ~Has(<<>>, type)
<1>1. Len(<<>>) = 0
  OBVIOUS
<1> QED BY <1>1 DEF Has

\* The messages there are.
LEMMA Kinds ==
    /\ \A type \in {"Hash", "TestDelay", "PeerInfo", "Notice"} \cup Errors :
          Msg(type) \in Messages /\ Msg(type).type = type
    /\ \A password \in Passwords :
          Login(password) \in Messages /\ Login(password).type = "Login"
    /\ \A piece \in Nat : Raw(piece) \in Messages /\ Raw(piece).type = "raw"
  BY DEF Msg, Login, Raw, Messages, Passwords, Errors

LEMMA AllRawType ==
    ASSUME NEW pieces \in Seq(Nat)
    PROVE  /\ AllRaw(pieces) \in Seq(Messages)
           /\ \A type : Has(AllRaw(pieces), type) => type = "raw"
<1>1. DOMAIN pieces = 1 .. Len(pieces) /\ \A i \in 1 .. Len(pieces) : pieces[i] \in Nat
  OBVIOUS
<1>2. AllRaw(pieces) = [i \in 1 .. Len(pieces) |-> Raw(pieces[i])]
  BY <1>1 DEF AllRaw
<1>3. \A i \in 1 .. Len(pieces) : Raw(pieces[i]) \in Messages /\ Raw(pieces[i]).type = "raw"
  BY <1>1, Kinds
<1>4. AllRaw(pieces) \in [1 .. Len(pieces) -> Messages]
  BY <1>2, <1>3
<1>5. AllRaw(pieces) \in Seq(Messages) /\ Len(AllRaw(pieces)) = Len(pieces)
  BY <1>2, <1>3
<1> QED BY <1>2, <1>3, <1>5 DEF Has

-----------------------------------------------------------------------------
(* Types.                                                                  *)

THEOREM TypeCorrect == Spec => []TypeOK
<1> USE BoundAssumption
<1>1. Init => TypeOK
  <2>1. <<Msg("Hash")>> \in Seq(Messages)
    BY Kinds
  <2>2. <<>> \in Seq(Messages) /\ <<>> \in Seq(Nat)
    OBVIOUS
  <2> SUFFICES ASSUME Init PROVE TypeOK
    OBVIOUS
  <2>3. /\ buffer \in Seq(Nat) /\ toServer \in Seq(Messages) /\ toClient \in Seq(Messages)
        /\ shown \in Seq(Messages) /\ served \in Seq(Messages)
    BY <2>1, <2>2 DEF Init
  <2>4. /\ local \in 0 .. MaxPieces /\ remote \in 0 .. MaxPieces
        /\ tests \in 0 .. MaxTests /\ typed \in 0 .. MaxTyped /\ notices \in 0 .. MaxNotices
    BY DEF Init, BoundAssumption
  <2> QED BY <2>3, <2>4, Zenon DEF Init, TypeOK
<1>2. TypeOK /\ [Next]_vars => TypeOK'
  <2> SUFFICES ASSUME TypeOK, [Next]_vars PROVE TypeOK'
    OBVIOUS
  <2> USE DEF TypeOK
  <2>1. CASE UNCHANGED vars
    BY <2>1 DEF vars, clientVars, serverVars
  <2>2. CASE \E password \in Passwords : OnHash(password)
    BY <2>2, Kinds DEF OnHash, ClientGets, ClientSends, clientVars, serverVars
  <2>3. CASE OnNotice
    BY <2>3 DEF OnNotice, ClientGets, clientVars, serverVars
  <2>4. CASE OnRefused
    BY <2>4 DEF OnRefused, ClientGets, serverVars
  <2>5. CASE OnTestDelay
    BY <2>5, Kinds DEF OnTestDelay, ClientGets, ClientSends, clientVars, serverVars
  <2>6. CASE OnPeerInfo
    BY <2>6, AllRawType DEF OnPeerInfo, ClientGets, serverVars
  <2>7. CASE LocalReads
    BY <2>7 DEF LocalReads, serverVars
  <2>8. CASE \E password \in Passwords \ {"empty"} : HandleLoginFromUi(password)
    BY <2>8, Kinds DEF HandleLoginFromUi, ClientSends, serverVars
  <2>9. CASE LocalWrites
    <3>1. local' \in 0 .. MaxPieces /\ local + 1 \in Nat
      BY <2>9 DEF LocalWrites
    <3>2. CASE client = "login"
      <4>1. buffer' \in Seq(Nat) /\ UNCHANGED toServer
        <5>1. buffer' = Append(buffer, local + 1) /\ UNCHANGED toServer
          BY <2>9, <3>2, Zenon DEF LocalWrites
        <5> QED BY <3>1, <5>1
      <4> QED BY <2>9, <3>1, <4>1 DEF LocalWrites, serverVars
    <3>3. CASE client # "login"
      <4>1. Raw(local + 1) \in Messages
        BY <3>1, Kinds
      <4>2. toServer' \in Seq(Messages)
        <5>1. toServer' = Append(toServer, Raw(local + 1))
          BY <2>9, <3>3, Zenon DEF LocalWrites, ClientSends
        <5> QED BY <4>1, <5>1
      <4> QED BY <2>9, <3>1, <3>3, <4>2 DEF LocalWrites, serverVars
    <3> QED BY <3>2, <3>3
  <2>10. CASE ClientCloses
    BY <2>10 DEF ClientCloses, serverVars
  <2>11. CASE \E password \in Passwords : OnLogin(password)
    <3> PICK password \in Passwords : OnLogin(password)
      BY <2>11
    <3>1. <<>> \in Seq(Messages) /\ <<Msg("PeerInfo")>> \in Seq(Messages)
          /\ Denial(password) \in Seq(Messages)
      BY Kinds DEF Denial, Errors
    <3>2. authorized' \in BOOLEAN /\ toClient' \in Seq(Messages) /\ toServer' \in Seq(Messages)
      <4>1. CASE Accepts(password)
        <5>1. /\ ~authorized
              /\ toClient' = toClient \o (IF authorized THEN <<>> ELSE <<Msg("PeerInfo")>>)
              /\ authorized' = TRUE /\ ServerTakes
          BY <4>1, Zenon DEF OnLogin, ServerSends, Logon
        <5> QED BY <3>1, <5>1 DEF ServerTakes
      <4>2. CASE ~Accepts(password)
        <5>1. toClient' = toClient \o Denial(password) /\ UNCHANGED authorized /\ ServerTakes
          BY <4>2, Zenon DEF OnLogin, ServerSends
        <5> QED BY <3>1, <5>1 DEF ServerTakes
      <4> QED BY <4>1, <4>2
    <3>3. server' \in {"loop", "forward", "closed"}
      BY DEF OnLogin, AfterMessage
    <3>4. waited' \in BOOLEAN
      BY DEF OnLogin
    <3> QED BY <3>2, <3>3, <3>4 DEF OnLogin, clientVars
  <2>12. CASE OnLoginAgain
    BY <2>12 DEF OnLoginAgain, ServerTakes, AfterMessage, clientVars
  <2>13. CASE OnLoginRefused
    BY <2>13, Kinds DEF OnLoginRefused, ServerTakes, ServerSends, LeaveLoop, clientVars, Errors
  <2>14. CASE OnTestDelayReply
    <3>1. server' \in {"loop", "forward", "closed"}
      BY <2>14 DEF OnTestDelayReply, AfterMessage
    <3>2. toServer' \in Seq(Messages)
      BY <2>14 DEF OnTestDelayReply, ServerTakes
    <3> QED BY <2>14, <3>1, <3>2 DEF OnTestDelayReply, clientVars
  <2>15. CASE RemoteReads
    BY <2>15 DEF RemoteReads, clientVars
  <2>16. CASE TestDelayTimer
    BY <2>16, Kinds DEF TestDelayTimer, ServerSends, clientVars
  <2>17. CASE Authorize
    BY <2>17, Kinds DEF Authorize, Logon, ServerSends, LeaveLoop, clientVars
  <2>18. CASE ManagerNotice
    BY <2>18, Kinds DEF ManagerNotice, ServerSends, clientVars
  <2>19. CASE ManagerCloses
    <3>1. toClient' \in Seq(Messages)
      BY <2>19, Kinds DEF ManagerCloses, ServerSends
    <3> QED BY <2>19, <3>1 DEF ManagerCloses, clientVars
  <2>20. CASE RemoteWrites
    BY <2>20, Kinds DEF RemoteWrites, ServerSends, clientVars
  <2>21. CASE ServerCloses
    BY <2>21 DEF ServerCloses, clientVars
  <2> QED
    BY <2>1, <2>2, <2>3, <2>4, <2>5, <2>6, <2>7, <2>8, <2>9, <2>10, <2>11, <2>12, <2>13,
       <2>14, <2>15, <2>16, <2>17, <2>18, <2>19, <2>20, <2>21 DEF Next, ClientReads, ServerReads
<1> QED BY <1>1, <1>2, PTL DEF Spec

-----------------------------------------------------------------------------
(* No end takes bytes for a message.                                       *)

\* What reading does to a wire.
LEMMA TailFacts ==
    ASSUME NEW w \in Seq(Messages), w # <<>>
    PROVE  /\ AnswerFirst(w) /\ Head(w).type \notin {"PeerInfo", "Refused"} =>
                  AnswerFirst(Tail(w))
           /\ TestFirst(w) /\ Head(w).type # "TestDelay" => TestFirst(Tail(w))
           /\ ReplyFirst(w) /\ Head(w).type # "TestDelay" => ReplyFirst(Tail(w))
           /\ \A type : Has(Tail(w), type) => Has(w, type)
           /\ Has(w, Head(w).type)
<1>1. AnswerFirst(w) /\ Head(w).type \notin {"PeerInfo", "Refused"} => AnswerFirst(Tail(w))
  BY FirstTail DEF AnswerFirst
<1>2. TestFirst(w) /\ Head(w).type \notin {"TestDelay"} => TestFirst(Tail(w))
  BY FirstTail DEF TestFirst
<1>3. ReplyFirst(w) /\ Head(w).type \notin {"TestDelay"} => ReplyFirst(Tail(w))
  BY FirstTail DEF ReplyFirst
<1>4. \A type : Has(Tail(w), type) => Has(w, type)
  BY HasTail
<1>5. Has(w, Head(w).type)
  <2>1. 1 \in 1 .. Len(w) /\ w[1] = Head(w)
    OBVIOUS
  <2> QED BY <2>1 DEF Has
<1> QED BY <1>1, <1>2, <1>3, <1>4, <1>5

\* What is next on it.
LEMMA HeadFacts ==
    ASSUME NEW w \in Seq(Messages)
    PROVE  /\ AnswerFirst(w) => w # <<>> /\ Head(w).type # "raw"
           /\ TestFirst(w) => w # <<>> /\ Head(w).type # "PeerInfo"
           /\ ReplyFirst(w) => w # <<>> /\ Head(w).type # "raw"
<1>1. AnswerFirst(w) => w # <<>> /\ Head(w).type \notin {"raw"}
  BY FirstHead DEF AnswerFirst
<1>2. TestFirst(w) => w # <<>> /\ Head(w).type \notin {"PeerInfo"}
  BY FirstHead DEF TestFirst
<1>3. ReplyFirst(w) => w # <<>> /\ Head(w).type \notin {"raw"}
  BY FirstHead DEF ReplyFirst
<1> QED BY <1>1, <1>2, <1>3

\* What more messages do to it.
LEMMA ConcatFacts ==
    ASSUME NEW w \in Seq(Messages), NEW v \in Seq(Messages)
    PROVE  /\ AnswerFirst(w) => AnswerFirst(w \o v)
           /\ TestFirst(w) => TestFirst(w \o v)
           /\ ReplyFirst(w) => ReplyFirst(w \o v)
           /\ \A type : Has(w \o v, type) <=> Has(w, type) \/ Has(v, type)
<1>1. AnswerFirst(w) => AnswerFirst(w \o v)
  BY FirstConcat DEF AnswerFirst
<1>2. TestFirst(w) => TestFirst(w \o v)
  BY FirstConcat DEF TestFirst
<1>3. ReplyFirst(w) => ReplyFirst(w \o v)
  BY FirstConcat DEF ReplyFirst
<1>4. \A type : Has(w \o v, type) <=> Has(w, type) \/ Has(v, type)
  BY HasConcat
<1> QED BY <1>1, <1>2, <1>3, <1>4

\* And one that is the first of its kind.
LEMMA OneFacts ==
    ASSUME NEW w \in Seq(Messages), NEW m \in Messages
    PROVE  /\ Append(w, m) = w \o <<m>>
           /\ \A type : Has(w \o <<m>>, type) <=> Has(w, type) \/ m.type = type
           /\ ~Has(w, "raw") /\ m.type \in {"PeerInfo", "Refused"} => AnswerFirst(w \o <<m>>)
           /\ ~Has(w, "PeerInfo") /\ m.type = "TestDelay" => TestFirst(w \o <<m>>)
           /\ ~Has(w, "raw") /\ m.type = "TestDelay" => ReplyFirst(w \o <<m>>)
<1>1. Append(w, m) = w \o <<m>>
  OBVIOUS
<1>2. \A type : Has(w \o <<m>>, type) <=> Has(w, type) \/ m.type = type
  <2>1. <<m>> \in Seq(Messages)
    OBVIOUS
  <2> QED BY <2>1, HasConcat, HasOne
<1>3. ~Has(w, "raw") /\ m.type \in {"PeerInfo", "Refused"} => AnswerFirst(w \o <<m>>)
  <2> SUFFICES ASSUME ~Has(w, "raw"), m.type \in {"PeerInfo", "Refused"}
               PROVE  AnswerFirst(w \o <<m>>)
    OBVIOUS
  <2>1. \A i \in 1 .. Len(w) : w[i].type \notin {"raw"}
    BY DEF Has
  <2> QED BY <2>1, FirstNew DEF AnswerFirst
<1>4. ~Has(w, "PeerInfo") /\ m.type = "TestDelay" => TestFirst(w \o <<m>>)
  <2> SUFFICES ASSUME ~Has(w, "PeerInfo"), m.type = "TestDelay"
               PROVE  TestFirst(w \o <<m>>)
    OBVIOUS
  <2>1. \A i \in 1 .. Len(w) : w[i].type \notin {"PeerInfo"}
    BY DEF Has
  <2> QED BY <2>1, FirstNew DEF TestFirst
<1>5. ~Has(w, "raw") /\ m.type = "TestDelay" => ReplyFirst(w \o <<m>>)
  <2> SUFFICES ASSUME ~Has(w, "raw"), m.type = "TestDelay"
               PROVE  ReplyFirst(w \o <<m>>)
    OBVIOUS
  <2>1. \A i \in 1 .. Len(w) : w[i].type \notin {"raw"}
    BY DEF Has
  <2> QED BY <2>1, FirstNew DEF ReplyFirst
<1> QED BY <1>1, <1>2, <1>3, <1>4, <1>5

\* A client that stays in the login reads one message and may answer it.
LEMMA ClientStays ==
    ASSUME TypeOK, Sides, client = "login", UNCHANGED <<client, serverVars>>,
           toClient # <<>>, toClient' = Tail(toClient),
           Head(toClient).type \notin {"PeerInfo", "Refused"},
           \/ UNCHANGED toServer /\ Head(toClient).type # "TestDelay"
           \/ \E m \in Messages :
                 /\ toServer' = Append(toServer, m) /\ m.type # "raw"
                 /\ Head(toClient).type = "TestDelay" => m.type = "TestDelay"
    PROVE  Sides'
<1> USE DEF TypeOK
<1>1. /\ AnswerFirst(toClient) => AnswerFirst(toClient')
      /\ TestFirst(toClient) /\ Head(toClient).type # "TestDelay" => TestFirst(toClient')
      /\ \A type : Has(toClient', type) => Has(toClient, type)
  BY TailFacts
<1>2. /\ server' = server /\ authorized' = authorized /\ testing' = testing /\ socket' = socket
      /\ client' = "login"
  BY DEF serverVars
<1>3. /\ ReplyFirst(toServer) => ReplyFirst(toServer')
      /\ ~Has(toServer, "raw") /\ Head(toClient).type = "TestDelay" => ReplyFirst(toServer')
      /\ Has(toServer', "raw") => Has(toServer, "raw")
  <2>1. CASE UNCHANGED toServer /\ Head(toClient).type # "TestDelay"
    BY <2>1
  <2>2. CASE ~(UNCHANGED toServer /\ Head(toClient).type # "TestDelay")
    <3>1. PICK m \in Messages : /\ toServer' = Append(toServer, m) /\ m.type # "raw"
                                /\ Head(toClient).type = "TestDelay" => m.type = "TestDelay"
      BY <2>2
    <3>2. toServer' = toServer \o <<m>> /\ <<m>> \in Seq(Messages)
      BY <3>1, OneFacts
    <3>3. ReplyFirst(toServer) => ReplyFirst(toServer')
      BY <3>2, ConcatFacts
    <3>4. Has(toServer', "raw") => Has(toServer, "raw")
      BY <3>1, <3>2, OneFacts
    <3>5. ~Has(toServer, "raw") /\ m.type = "TestDelay" => ReplyFirst(toServer')
      BY <3>2, OneFacts
    <3> QED BY <3>1, <3>3, <3>4, <3>5
  <2> QED BY <2>1, <2>2
<1>4. ClientSide'
  BY <1>1, <1>2 DEF Sides, ClientSide
<1>5. ServerSide'
  BY <1>1, <1>2, <1>3 DEF Sides, ServerSide
<1> QED BY <1>4, <1>5 DEF Sides

\* A server that stays in its loop, not yet authorized before the step, or waiting
\* for a reply.
LEMMA ServerAnswers ==
    ASSUME TypeOK, Sides, server = "loop", UNCHANGED <<client>>,
           \/ UNCHANGED toServer
           \/ /\ toServer # <<>> /\ toServer' = Tail(toServer)
              /\ Head(toServer).type # "TestDelay",
           NEW ms \in Seq(Messages), toClient' = toClient \o ms,
           ~Has(ms, "raw"), authorized' \in BOOLEAN, authorized => authorized',
           client = "login" /\ authorized' /\ ~authorized => AnswerFirst(toClient'),
           Has(ms, "PeerInfo") => authorized',
           client = "login" /\ server' = "forward" => authorized' \/ AnswerFirst(toClient'),
           client = "login" /\ testing' /\ ~testing => TestFirst(toClient'),
           server' = "loop" /\ authorized' => testing' /\ socket'
    PROVE  Sides'
<1> USE DEF TypeOK
<1>1. /\ AnswerFirst(toClient) => AnswerFirst(toClient')
      /\ TestFirst(toClient) => TestFirst(toClient')
      /\ \A type : Has(toClient', type) <=> Has(toClient, type) \/ Has(ms, type)
  BY ConcatFacts
<1>2. /\ ReplyFirst(toServer) => ReplyFirst(toServer')
      /\ Has(toServer', "raw") => Has(toServer, "raw")
  BY TailFacts
<1>3. ClientSide'
  BY <1>1 DEF Sides, ClientSide
<1>4. ServerSide'
  BY <1>1, <1>2 DEF Sides, ServerSide
<1> QED BY <1>3, <1>4 DEF Sides

LEMMA SidesStep == TypeOK /\ Sides /\ [Next]_vars => Sides'
<1> SUFFICES ASSUME TypeOK, Sides, [Next]_vars PROVE Sides'
  OBVIOUS
<1> USE DEF TypeOK
<1>1. CASE UNCHANGED vars
  BY <1>1 DEF vars, clientVars, serverVars, Sides, ClientSide, ServerSide
<1>2. CASE \E password \in Passwords : OnHash(password)
  <2> PICK password \in Passwords : OnHash(password)
    BY <1>2
  <2>1. /\ client = "login" /\ toClient # <<>> /\ Head(toClient).type = "Hash"
        /\ toClient' = Tail(toClient) /\ toServer' = Append(toServer, Login(password))
        /\ UNCHANGED <<client, serverVars>>
    BY DEF OnHash, ClientGets, ClientSends, clientVars
  <2>2. Login(password) \in Messages /\ Login(password).type # "raw"
    BY Kinds
  <2> QED BY <2>1, <2>2, ClientStays
<1>3. CASE OnNotice
  BY <1>3, ClientStays DEF OnNotice, ClientGets, clientVars
<1>4. CASE OnRefused
  <2>1. /\ client' = "closed" /\ toClient # <<>> /\ toClient' = Tail(toClient)
        /\ UNCHANGED <<serverVars, toServer>>
    BY <1>4 DEF OnRefused, ClientGets
  <2>2. \A type : Has(toClient', type) => Has(toClient, type)
    BY <2>1, TailFacts
  <2> QED BY <2>1, <2>2 DEF serverVars, Sides, ClientSide, ServerSide
<1>5. CASE OnTestDelay
  <2>1. /\ client = "login" /\ toClient # <<>> /\ Head(toClient).type = "TestDelay"
        /\ toClient' = Tail(toClient) /\ toServer' = Append(toServer, Msg("TestDelay"))
        /\ UNCHANGED <<client, serverVars>>
    BY <1>5 DEF OnTestDelay, ClientGets, ClientSends, clientVars
  <2>2. Msg("TestDelay") \in Messages /\ Msg("TestDelay").type = "TestDelay"
    BY Kinds
  <2> QED BY <2>1, <2>2, ClientStays
<1>6. CASE OnPeerInfo
  <2>1. /\ client = "login" /\ client' = "forward" /\ toClient # <<>>
        /\ Head(toClient).type = "PeerInfo" /\ toClient' = Tail(toClient)
        /\ toServer' = toServer \o AllRaw(buffer)
        /\ UNCHANGED serverVars
    BY <1>6 DEF OnPeerInfo, ClientGets
  <2>2. authorized /\ ~TestFirst(toClient)
    BY <2>1, TailFacts, HeadFacts DEF Sides, ClientSide
  <2>3. \A type : Has(toClient', type) => Has(toClient, type)
    BY <2>1, TailFacts
  <2>4. ReplyFirst(toServer) => ReplyFirst(toServer')
    BY <2>1, AllRawType, ConcatFacts
  <2> QED BY <2>1, <2>2, <2>3, <2>4 DEF serverVars, Sides, ClientSide, ServerSide
<1>7. CASE LocalReads
  <2>1. /\ client = "forward" /\ toClient # <<>> /\ toClient' = Tail(toClient)
        /\ UNCHANGED <<client, serverVars, toServer>>
    BY <1>7 DEF LocalReads
  <2>2. \A type : Has(toClient', type) => Has(toClient, type)
    BY <2>1, TailFacts
  <2> QED BY <2>1, <2>2 DEF serverVars, Sides, ClientSide, ServerSide
<1>8. CASE \E password \in Passwords \ {"empty"} : HandleLoginFromUi(password)
  <2> PICK password \in Passwords \ {"empty"} : HandleLoginFromUi(password)
    BY <1>8
  <2>1. /\ client = "login" /\ UNCHANGED <<client, serverVars, toClient>>
        /\ toServer' = Append(toServer, Login(password))
    BY DEF HandleLoginFromUi, ClientSends
  <2>2. Login(password) \in Messages /\ Login(password).type = "Login"
    BY Kinds
  <2>3. toServer' = toServer \o <<Login(password)>> /\ <<Login(password)>> \in Seq(Messages)
    BY <2>1, <2>2, OneFacts
  <2>4. ReplyFirst(toServer) => ReplyFirst(toServer')
    BY <2>3, ConcatFacts
  <2>5. Has(toServer', "raw") => Has(toServer, "raw")
    BY <2>2, <2>3, OneFacts
  <2> QED BY <2>1, <2>4, <2>5 DEF serverVars, Sides, ClientSide, ServerSide
<1>9. CASE LocalWrites
  <2>1. CASE client = "login"
    <3>1. UNCHANGED <<client, serverVars, toServer, toClient>>
      BY <1>9, <2>1, Zenon DEF LocalWrites
    <3> QED BY <3>1 DEF serverVars, Sides, ClientSide, ServerSide
  <2>2. CASE client # "login"
    <3>1. /\ client = "forward" /\ UNCHANGED <<client, serverVars, toClient>>
          /\ toServer' = Append(toServer, Raw(local + 1))
      BY <1>9, <2>2, Zenon DEF LocalWrites, ClientSends
    <3>2. Raw(local + 1) \in Messages
      BY Kinds, BoundAssumption
    <3>3. toServer' = toServer \o <<Raw(local + 1)>> /\ <<Raw(local + 1)>> \in Seq(Messages)
      <4> HIDE DEF TypeOK
      <4>1. toServer \in Seq(Messages)
        BY DEF TypeOK
      <4> QED BY <3>1, <3>2, <4>1, OneFacts
    <3>4. ReplyFirst(toServer) => ReplyFirst(toServer')
      BY <3>3, ConcatFacts
    <3> QED BY <3>1, <3>4 DEF serverVars, Sides, ClientSide, ServerSide
  <2> QED BY <2>1, <2>2
<1>10. CASE ClientCloses
  BY <1>10 DEF ClientCloses, serverVars, Sides, ClientSide, ServerSide
<1>11. CASE \E password \in Passwords : OnLogin(password)
  <2> PICK password \in Passwords : OnLogin(password)
    BY <1>11
  <2>1. /\ server = "loop" /\ toServer # <<>> /\ toServer' = Tail(toServer)
        /\ Head(toServer).type = "Login" /\ ~authorized
        /\ socket' = TRUE /\ UNCHANGED <<client, testing>>
    BY Kinds DEF OnLogin, ServerTakes, clientVars
  <2>2. server' = IF authorized' /\ ~testing THEN "forward" ELSE "loop"
    BY DEF OnLogin, AfterMessage
  <2>3. CASE Accepts(password)
    <3>1. authorized' = TRUE
          /\ toClient' = toClient \o (IF authorized THEN <<>> ELSE <<Msg("PeerInfo")>>)
      BY <2>3, Zenon DEF OnLogin, Logon, ServerSends
    <3>2. Msg("PeerInfo") \in Messages /\ Msg("PeerInfo").type = "PeerInfo"
      BY Kinds
    <3>3. toClient' = toClient \o <<Msg("PeerInfo")>> /\ <<Msg("PeerInfo")>> \in Seq(Messages)
      BY <2>1, <3>1, <3>2
    <3>4. ~Has(<<Msg("PeerInfo")>>, "raw")
      BY <3>2, HasOne
    <3>5. client = "login" => AnswerFirst(toClient')
      <4>1. CASE Has(toClient, "raw") /\ client = "login"
        BY <3>3, <4>1, ConcatFacts DEF Sides, ClientSide
      <4>2. CASE ~Has(toClient, "raw")
        BY <3>2, <3>3, <4>2, OneFacts
      <4> QED BY <4>1, <4>2
    <3> QED BY <2>1, <2>2, <3>1, <3>3, <3>4, <3>5, ServerAnswers
  <2>4. CASE ~Accepts(password)
    <3>1. authorized' = authorized /\ toClient' = toClient \o Denial(password)
      BY <2>4, Zenon DEF OnLogin, ServerSends
    <3>2. /\ Denial(password) \in Seq(Messages)
          /\ ~Has(Denial(password), "raw") /\ ~Has(Denial(password), "PeerInfo")
      BY Kinds, HasOne, HasNone DEF Denial, Errors
    <3> QED BY <2>1, <2>2, <3>1, <3>2, ServerAnswers
  <2> QED BY <2>3, <2>4
<1>12. CASE OnLoginAgain
  <2>1. /\ server = "loop" /\ toServer # <<>> /\ toServer' = Tail(toServer)
        /\ Head(toServer).type = "Login" /\ authorized
        /\ UNCHANGED <<client, toClient, testing, authorized, socket>>
    BY <1>12 DEF OnLoginAgain, ServerTakes, clientVars
  <2>2. toClient' = toClient \o <<>> /\ <<>> \in Seq(Messages)
    BY <2>1
  <2>3. ~Has(<<>>, "raw") /\ ~Has(<<>>, "PeerInfo")
    BY HasNone
  <2>4. testing /\ socket
    BY <2>1 DEF Sides, ServerSide
  <2> QED BY <2>1, <2>2, <2>3, <2>4, ServerAnswers
<1>13. CASE OnLoginRefused
  <2>1. /\ server = "loop" /\ toServer # <<>> /\ toServer' = Tail(toServer)
        /\ Head(toServer).type = "Login" /\ ~authorized
        /\ toClient' = toClient \o <<Msg("Refused")>>
        /\ server' = (IF socket THEN "forward" ELSE "closed")
        /\ UNCHANGED <<client, testing, authorized, socket>>
    BY <1>13 DEF OnLoginRefused, ServerTakes, ServerSends, LeaveLoop, clientVars
  <2>2. Msg("Refused") \in Messages /\ Msg("Refused").type = "Refused"
    BY Kinds DEF Errors
  <2>3. <<Msg("Refused")>> \in Seq(Messages)
        /\ ~Has(<<Msg("Refused")>>, "raw") /\ ~Has(<<Msg("Refused")>>, "PeerInfo")
    BY <2>2, HasOne
  <2>4. client = "login" => AnswerFirst(toClient')
    <3>1. CASE Has(toClient, "raw") /\ client = "login"
      BY <2>1, <2>3, <3>1, ConcatFacts DEF Sides, ClientSide
    <3>2. CASE ~Has(toClient, "raw")
      BY <2>1, <2>2, <3>2, OneFacts
    <3> QED BY <3>1, <3>2
  <2> QED BY <2>1, <2>3, <2>4, ServerAnswers
<1>14. CASE OnTestDelayReply
  <2>1. /\ server = "loop" /\ toServer # <<>> /\ toServer' = Tail(toServer)
        /\ testing' = FALSE /\ UNCHANGED <<client, toClient, authorized, socket>>
    BY <1>14 DEF OnTestDelayReply, ServerTakes, clientVars
  <2>2. server' = IF socket /\ authorized THEN "forward" ELSE "loop"
    BY <1>14 DEF OnTestDelayReply, AfterMessage
  <2>3. Has(toServer', "raw") => Has(toServer, "raw")
    BY <2>1, TailFacts
  <2>4. ClientSide'
    BY <2>1, <2>2 DEF Sides, ClientSide
  <2>5. ServerSide'
    BY <2>1, <2>2, <2>3 DEF Sides, ClientSide, ServerSide
  <2> QED BY <2>4, <2>5 DEF Sides
<1>15. CASE RemoteReads
  <2>1. /\ server = "forward" /\ toServer # <<>> /\ toServer' = Tail(toServer)
        /\ UNCHANGED <<client, server, toClient, testing, authorized, socket>>
    BY <1>15 DEF RemoteReads, clientVars
  <2>2. Has(toServer', "raw") => Has(toServer, "raw")
    BY <2>1, TailFacts
  <2> QED BY <2>1, <2>2 DEF Sides, ClientSide, ServerSide
<1>16. CASE TestDelayTimer
  <2>1. /\ server = "loop" /\ ~testing /\ testing' = TRUE /\ ~(socket /\ authorized)
        /\ toClient' = toClient \o <<Msg("TestDelay")>>
        /\ UNCHANGED <<client, server, toServer, authorized, socket>>
    BY <1>16 DEF TestDelayTimer, ServerSends, clientVars
  <2>2. ~authorized /\ ~Has(toClient, "PeerInfo")
    BY <2>1 DEF Sides, ClientSide, ServerSide
  <2>3. Msg("TestDelay") \in Messages /\ Msg("TestDelay").type = "TestDelay"
    BY Kinds
  <2>4. /\ <<Msg("TestDelay")>> \in Seq(Messages)
        /\ ~Has(<<Msg("TestDelay")>>, "raw") /\ ~Has(<<Msg("TestDelay")>>, "PeerInfo")
    BY <2>3, HasOne
  <2>5. TestFirst(toClient')
    BY <2>1, <2>2, <2>3, OneFacts
  <2> QED BY <2>1, <2>2, <2>4, <2>5, ServerAnswers
<1>17. CASE Authorize
  <2>1. /\ server = "loop" /\ authorized' = TRUE
        /\ toClient' = toClient \o (IF authorized THEN <<>> ELSE <<Msg("PeerInfo")>>)
        /\ server' = (IF socket THEN "forward" ELSE "closed")
        /\ UNCHANGED <<client, toServer, testing, socket>>
    BY <1>17 DEF Authorize, Logon, ServerSends, LeaveLoop, clientVars
  <2>2. Msg("PeerInfo") \in Messages /\ Msg("PeerInfo").type = "PeerInfo"
    BY Kinds
  <2>3. CASE authorized
    <3>1. toClient' = toClient \o <<>> /\ <<>> \in Seq(Messages)
      BY <2>1, <2>3
    <3>2. ~Has(<<>>, "raw") /\ ~Has(<<>>, "PeerInfo")
      BY HasNone
    <3> QED BY <2>1, <2>3, <3>1, <3>2, ServerAnswers
  <2>4. CASE ~authorized
    <3>1. toClient' = toClient \o <<Msg("PeerInfo")>> /\ <<Msg("PeerInfo")>> \in Seq(Messages)
      BY <2>1, <2>2, <2>4
    <3>2. ~Has(<<Msg("PeerInfo")>>, "raw")
      BY <2>2, HasOne
    <3>3. client = "login" => AnswerFirst(toClient')
      <4>1. CASE Has(toClient, "raw") /\ client = "login"
        BY <3>1, <4>1, ConcatFacts DEF Sides, ClientSide
      <4>2. CASE ~Has(toClient, "raw")
        BY <2>2, <3>1, <4>2, OneFacts
      <4> QED BY <4>1, <4>2
    <3> QED BY <2>1, <2>4, <3>1, <3>2, <3>3, ServerAnswers
  <2> QED BY <2>3, <2>4
<1>18. CASE ManagerNotice \/ ManagerCloses
  <2>1. /\ server = "loop" /\ server' \in {"loop", "closed"}
        /\ toClient' = toClient \o <<Msg("Notice")>>
        /\ server' = "loop" => socket' = socket
        /\ UNCHANGED <<client, toServer, authorized, testing>>
    BY <1>18 DEF ManagerNotice, ManagerCloses, ServerSends, clientVars
  <2>2. Msg("Notice") \in Messages /\ Msg("Notice").type = "Notice"
    BY Kinds
  <2>3. /\ <<Msg("Notice")>> \in Seq(Messages)
        /\ ~Has(<<Msg("Notice")>>, "raw") /\ ~Has(<<Msg("Notice")>>, "PeerInfo")
    BY <2>2, HasOne
  <2>4. server' = "loop" /\ authorized' => testing' /\ socket'
    BY <2>1 DEF Sides, ServerSide
  <2>5. /\ authorized' \in BOOLEAN /\ (authorized => authorized')
        /\ ~(authorized' /\ ~authorized) /\ ~(testing' /\ ~testing) /\ server' # "forward"
    BY <2>1
  <2> QED BY <2>1, <2>3, <2>4, <2>5, ServerAnswers
<1>19. CASE RemoteWrites
  <2>1. /\ server = "forward" /\ UNCHANGED <<client, server, toServer, authorized, testing, socket>>
        /\ toClient' = toClient \o <<Raw(remote + 1)>>
    BY <1>19 DEF RemoteWrites, ServerSends, clientVars
  <2>2. Raw(remote + 1) \in Messages /\ Raw(remote + 1).type = "raw"
    BY Kinds, BoundAssumption
  <2>3. <<Raw(remote + 1)>> \in Seq(Messages)
        /\ ~Has(<<Raw(remote + 1)>>, "PeerInfo")
    BY <2>2, HasOne
  <2>4. /\ AnswerFirst(toClient) => AnswerFirst(toClient')
        /\ Has(toClient', "PeerInfo") => Has(toClient, "PeerInfo")
    BY <2>1, <2>3, ConcatFacts
  <2> QED BY <2>1, <2>4 DEF Sides, ClientSide, ServerSide
<1>20. CASE ServerCloses
  BY <1>20 DEF ServerCloses, clientVars, Sides, ClientSide, ServerSide
<1> QED
  BY <1>1, <1>2, <1>3, <1>4, <1>5, <1>6, <1>7, <1>8, <1>9, <1>10, <1>11, <1>12, <1>13, <1>14,
     <1>15, <1>16, <1>17, <1>18, <1>19, <1>20 DEF Next, ClientReads, ServerReads

\* What the ends read next, as long as they read messages, is one.
THEOREM AlwaysUnderstood == Spec => []Understood
<1>1. Init => Sides
  <2> SUFFICES ASSUME Init PROVE Sides
    OBVIOUS
  <2>1. ~Has(<<Msg("Hash")>>, "raw") /\ ~Has(<<Msg("Hash")>>, "PeerInfo")
    BY Kinds, HasOne
  <2> QED BY <2>1, HasNone DEF Init, Sides, ClientSide, ServerSide
<1>2. TypeOK /\ Sides => Understood
  <2> SUFFICES ASSUME TypeOK, Sides PROVE Understood
    OBVIOUS
  <2>1. ASSUME server = "loop", toServer # <<>> PROVE ~IsRaw(Head(toServer))
    <3>1. Has(toServer, "raw") => ReplyFirst(toServer)
      BY <2>1 DEF Sides, ServerSide
    <3> QED BY <2>1, <3>1, HeadFacts, TailFacts DEF TypeOK, IsRaw
  <2>2. ASSUME client = "login", toClient # <<>> PROVE ~IsRaw(Head(toClient))
    <3>1. Has(toClient, "raw") => AnswerFirst(toClient)
      BY <2>2 DEF Sides, ClientSide
    <3> QED BY <2>2, <3>1, HeadFacts, TailFacts DEF TypeOK, IsRaw
  <2> QED BY <2>1, <2>2 DEF Understood
<1> QED BY <1>1, <1>2, SidesStep, TypeCorrect, PTL DEF Spec

-----------------------------------------------------------------------------
(* Pieces on wires.                                                        *)

\* One wire behind another.
LEMMA CarriesConcat ==
    ASSUME NEW w \in Seq(Messages), NEW v \in Seq(Messages),
           NEW a \in Nat, NEW b \in Nat, NEW c \in Nat, a <= b, b <= c,
           Carries(w, a, b), Carries(v, b, c)
    PROVE  Carries(w \o v, a, c)
<1> DEFINE both == w \o v
<1>1. /\ Len(both) = Len(w) + Len(v) /\ Len(w) \in Nat /\ Len(v) \in Nat
      /\ \A i \in 1 .. Len(w) : both[i] = w[i]
      /\ \A i \in 1 .. Len(v) : both[Len(w) + i] = v[i]
  OBVIOUS
<1>2. \A i \in 1 .. Len(both) :
         \/ i \in 1 .. Len(w) /\ both[i] = w[i]
         \/ i - Len(w) \in 1 .. Len(v) /\ both[i] = v[i - Len(w)]
  <2> TAKE i \in 1 .. Len(both)
  <2>1. CASE i <= Len(w)
    BY <1>1, <2>1
  <2>2. CASE i > Len(w)
    <3>1. i - Len(w) \in 1 .. Len(v) /\ Len(w) + (i - Len(w)) = i
      BY <1>1, <2>2
    <3> QED BY <1>1, <3>1
  <2> QED BY <2>1, <2>2
<1> HIDE DEF both
<1>3. \A i \in 1 .. Len(w) : IsRaw(w[i]) => w[i].piece \in Nat /\ w[i].piece \in a + 1 .. b
  BY DEF Carries
<1>4. \A i \in 1 .. Len(v) : IsRaw(v[i]) => v[i].piece \in Nat /\ v[i].piece \in b + 1 .. c
  BY DEF Carries
<1>5. \A i \in 1 .. Len(both) : IsRaw(both[i]) => both[i].piece \in a + 1 .. c
  <2> TAKE i \in 1 .. Len(both)
  <2>1. CASE i \in 1 .. Len(w) /\ both[i] = w[i]
    <3>1. IsRaw(both[i]) => both[i].piece \in a + 1 .. b
      BY <1>3, <2>1
    <3> QED BY <3>1
  <2>2. CASE i - Len(w) \in 1 .. Len(v) /\ both[i] = v[i - Len(w)]
    <3>1. IsRaw(both[i]) => both[i].piece \in b + 1 .. c
      BY <1>4, <2>2
    <3> QED BY <3>1
  <2> QED BY <1>2, <2>1, <2>2
<1>6. ASSUME NEW i \in 1 .. Len(both), NEW j \in 1 .. Len(both), i < j,
             IsRaw(both[i]), IsRaw(both[j])
      PROVE  both[i].piece < both[j].piece
  <2>1. CASE j <= Len(w)
    <3>1. i \in 1 .. Len(w) /\ j \in 1 .. Len(w) /\ both[i] = w[i] /\ both[j] = w[j]
      BY <1>1, <1>6, <2>1
    <3> QED BY <1>6, <3>1 DEF Carries
  <2>2. CASE i > Len(w)
    <3>1. i \notin 1 .. Len(w) /\ j \notin 1 .. Len(w) /\ i - Len(w) < j - Len(w)
      BY <1>1, <1>6, <2>2
    <3>2. i - Len(w) \in 1 .. Len(v) /\ both[i] = v[i - Len(w)]
      BY <1>2, <3>1, Zenon
    <3>3. j - Len(w) \in 1 .. Len(v) /\ both[j] = v[j - Len(w)]
      BY <1>2, <3>1, Zenon
    <3> QED BY <1>6, <3>1, <3>2, <3>3 DEF Carries
  <2>3. CASE i <= Len(w) /\ j > Len(w)
    <3>1. i \in 1 .. Len(w) /\ both[i] = w[i]
      BY <1>1, <2>3
    <3>2. j - Len(w) \in 1 .. Len(v) /\ both[j] = v[j - Len(w)]
      <4>1. j \notin 1 .. Len(w)
        BY <1>1, <2>3
      <4> QED BY <1>2, <4>1, Zenon
    <3>3. both[i].piece \in a + 1 .. b
      BY <1>6, <1>3, <3>1
    <3>4. both[j].piece \in b + 1 .. c
      BY <1>6, <1>4, <3>2
    <3> QED BY <3>3, <3>4
  <2> QED BY <2>1, <2>2, <2>3
<1>7. ASSUME NEW p \in a + 1 .. c
      PROVE  \E i \in 1 .. Len(both) : both[i] = Raw(p)
  <2>1. CASE p <= b
    <3>1. PICK i \in 1 .. Len(w) : w[i] = Raw(p)
      <4>1. p \in a + 1 .. b
        BY <2>1
      <4> QED BY <4>1 DEF Carries
    <3>2. i \in 1 .. Len(both) /\ both[i] = w[i]
      BY <1>1
    <3> QED BY <3>1, <3>2
  <2>2. CASE p > b
    <3>1. PICK i \in 1 .. Len(v) : v[i] = Raw(p)
      <4>1. p \in b + 1 .. c
        BY <2>2
      <4> QED BY <4>1 DEF Carries
    <3>2. Len(w) + i \in 1 .. Len(both) /\ both[Len(w) + i] = v[i]
      BY <1>1
    <3> QED BY <3>1, <3>2
  <2> QED BY <2>1, <2>2
<1> QED BY <1>5, <1>6, <1>7 DEF Carries, both

\* What is read next is the first of the pieces, or none of them.
LEMMA CarriesTail ==
    ASSUME NEW w \in Seq(Messages), w # <<>>, NEW a \in Nat, NEW b \in Nat, a <= b,
           Carries(w, a, b)
    PROVE  /\ IsRaw(Head(w)) => a < b /\ Head(w) = Raw(a + 1) /\ Carries(Tail(w), a + 1, b)
           /\ ~IsRaw(Head(w)) => Carries(Tail(w), a, b)
<1>1. /\ Len(w) >= 1 /\ 1 \in 1 .. Len(w) /\ Head(w) = w[1]
      /\ Len(Tail(w)) = Len(w) - 1
      /\ \A i \in 1 .. Len(w) - 1 : Tail(w)[i] = w[i + 1] /\ i + 1 \in 1 .. Len(w)
  <2>1. Len(w) \in Nat /\ Len(w) >= 1 /\ Head(w) = w[1] /\ Len(Tail(w)) = Len(w) - 1
    OBVIOUS
  <2>2. \A i \in 1 .. Len(w) - 1 : Tail(w)[i] = w[i + 1]
    OBVIOUS
  <2>3. \A i \in 1 .. Len(w) - 1 : i + 1 \in 1 .. Len(w)
    BY <2>1
  <2>4. 1 \in 1 .. Len(w)
    BY <2>1
  <2>5. \A i \in 1 .. Len(w) - 1 : Tail(w)[i] = w[i + 1] /\ i + 1 \in 1 .. Len(w)
    BY <2>2, <2>3
  <2> QED BY <2>1, <2>4, <2>5, Zenon
<1> DEFINE rest == Tail(w)
<1> HIDE DEF rest
<1>2. ASSUME NEW i \in 1 .. Len(rest), NEW j \in 1 .. Len(rest), i < j,
             IsRaw(rest[i]), IsRaw(rest[j])
      PROVE  rest[i].piece < rest[j].piece
  <2>1. /\ i + 1 \in 1 .. Len(w) /\ rest[i] = w[i + 1]
        /\ j + 1 \in 1 .. Len(w) /\ rest[j] = w[j + 1] /\ i + 1 < j + 1
    BY <1>1, <1>2 DEF rest
  <2> QED BY <1>2, <2>1 DEF Carries
<1>3. ASSUME NEW i \in 1 .. Len(rest), IsRaw(rest[i])
      PROVE  /\ rest[i].piece \in a + 1 .. b
             /\ IsRaw(Head(w)) => Head(w).piece < rest[i].piece
  <2>1. i + 1 \in 1 .. Len(w) /\ rest[i] = w[i + 1] /\ 1 < i + 1
    BY <1>1 DEF rest
  <2> QED BY <1>1, <1>3, <2>1 DEF Carries
<1>4. ASSUME NEW p \in a + 1 .. b, Head(w) # Raw(p)
      PROVE  \E i \in 1 .. Len(rest) : rest[i] = Raw(p)
  <2>1. PICK i \in 1 .. Len(w) : w[i] = Raw(p)
    BY DEF Carries
  <2>2. i # 1
    BY <2>1, <1>1, <1>4
  <2>3. i - 1 \in 1 .. Len(w) - 1 /\ (i - 1) + 1 = i
    BY <1>1, <2>2
  <2>4. i - 1 \in 1 .. Len(rest) /\ rest[i - 1] = w[i]
    BY <1>1, <2>3 DEF rest
  <2> QED BY <2>1, <2>4
<1>5. ASSUME IsRaw(Head(w))
      PROVE  a < b /\ Head(w) = Raw(a + 1) /\ Carries(Tail(w), a + 1, b)
  <2>1. Head(w).piece \in a + 1 .. b
    BY <1>1, <1>5 DEF Carries
  <2>2. a < b /\ a + 1 \in a + 1 .. b
    BY <2>1
  <2>3. PICK i \in 1 .. Len(w) : w[i] = Raw(a + 1)
    BY <2>2 DEF Carries
  <2>4. IsRaw(w[i]) /\ w[i].piece = a + 1
    BY <2>3 DEF IsRaw, Raw
  <2>5. i = 1
    <3> SUFFICES ASSUME i # 1 PROVE FALSE
      OBVIOUS
    <3>1. 1 < i
      OBVIOUS
    <3>2. w[1].piece < w[i].piece
      BY <1>1, <1>5, <2>4, <3>1 DEF Carries
    <3> QED BY <1>1, <2>1, <2>4, <3>2
  <2>6. Head(w) = Raw(a + 1) /\ Head(w).piece = a + 1
    BY <1>1, <2>3, <2>4, <2>5
  <2>7. \A k \in 1 .. Len(rest) : IsRaw(rest[k]) => rest[k].piece \in (a + 1) + 1 .. b
    BY <1>3, <1>5, <2>6
  <2>8. \A p \in (a + 1) + 1 .. b : \E k \in 1 .. Len(rest) : rest[k] = Raw(p)
    <3> TAKE p \in (a + 1) + 1 .. b
    <3>1. p \in a + 1 .. b /\ Raw(p) # Raw(a + 1)
      BY DEF Raw
    <3> QED BY <1>4, <2>6, <3>1
  <2> QED BY <1>2, <2>2, <2>6, <2>7, <2>8 DEF Carries, rest
<1>6. ASSUME ~IsRaw(Head(w)) PROVE Carries(Tail(w), a, b)
  <2>1. \A p : Head(w) # Raw(p)
    BY <1>6 DEF IsRaw, Raw
  <2> QED BY <1>2, <1>3, <1>4, <2>1 DEF Carries, rest
<1> QED BY <1>5, <1>6

\* An empty wire, and a wire with one message.
LEMMA CarriesOne ==
    ASSUME NEW a \in Nat
    PROVE  /\ Carries(<<>>, a, a)
           /\ \A m \in Messages : ~IsRaw(m) => Carries(<<m>>, a, a)
           /\ Carries(<<Raw(a + 1)>>, a, a + 1)
<1>1. Len(<<>>) = 0 /\ a + 1 .. a = {} /\ 1 .. 0 = {}
  OBVIOUS
<1>2. Carries(<<>>, a, a)
  BY <1>1 DEF Carries
<1>3. \A m : Len(<<m>>) = 1 /\ <<m>>[1] = m
  OBVIOUS
<1>4. \A m \in Messages : ~IsRaw(m) => Carries(<<m>>, a, a)
  BY <1>1, <1>3 DEF Carries
<1>5. Carries(<<Raw(a + 1)>>, a, a + 1)
  <2>1. Raw(a + 1).piece = a + 1
    BY DEF Raw
  <2>2. \A p \in a + 1 .. a + 1 : p = a + 1
    OBVIOUS
  <2> QED BY <1>3, <2>1, <2>2 DEF Carries
<1> QED BY <1>2, <1>4, <1>5

\* One more message, at the end.
LEMMA CarriesMore ==
    ASSUME NEW w \in Seq(Messages), NEW m \in Messages,
           NEW a \in Nat, NEW b \in Nat, a <= b, Carries(w, a, b)
    PROVE  /\ ~IsRaw(m) => Carries(w \o <<m>>, a, b)
           /\ m = Raw(b + 1) => Carries(w \o <<m>>, a, b + 1)
<1> DEFINE v == <<m>>
<1>1. v \in Seq(Messages) /\ b <= b /\ b <= b + 1 /\ b + 1 \in Nat
  OBVIOUS
<1>2. /\ ~IsRaw(m) => Carries(v, b, b)
      /\ m = Raw(b + 1) => Carries(v, b, b + 1)
  BY CarriesOne
<1> HIDE DEF v
<1>3. /\ ~IsRaw(m) => Carries(w \o v, a, b)
      /\ m = Raw(b + 1) => Carries(w \o v, a, b + 1)
  BY <1>1, <1>2, CarriesConcat
<1> QED BY <1>3 DEF v

\* What was written during the login, passed on at once.
LEMMA CarriesAll ==
    ASSUME NEW pieces \in Seq(Nat), NEW a \in Nat,
           \A i \in 1 .. Len(pieces) : pieces[i] = a + i
    PROVE  Carries(AllRaw(pieces), a, a + Len(pieces))
<1> DEFINE w == AllRaw(pieces)
<1>1. Len(w) = Len(pieces) /\ \A i \in 1 .. Len(pieces) : w[i] = Raw(a + i)
  <2>1. DOMAIN pieces = 1 .. Len(pieces) /\ Len(pieces) \in Nat
    OBVIOUS
  <2>2. w = [i \in 1 .. Len(pieces) |-> Raw(pieces[i])]
    BY <2>1 DEF AllRaw
  <2> QED BY <2>1, <2>2
<1> HIDE DEF w
<1>2. \A i \in 1 .. Len(w) : w[i].piece = a + i
  <2>1. \A p : Raw(p).piece = p
    BY DEF Raw
  <2> QED BY <1>1, <2>1
<1>3. \A p \in a + 1 .. a + Len(pieces) : \E i \in 1 .. Len(w) : w[i] = Raw(p)
  <2> TAKE p \in a + 1 .. a + Len(pieces)
  <2>1. p - a \in 1 .. Len(w) /\ a + (p - a) = p
    BY <1>1
  <2> QED BY <1>1, <2>1
<1>4. \A i \in 1 .. Len(w) : w[i].piece \in a + 1 .. a + Len(pieces)
  BY <1>1, <1>2
<1>5. \A i, j \in 1 .. Len(w) : i < j => w[i].piece < w[j].piece
  BY <1>2
<1> QED BY <1>3, <1>4, <1>5 DEF Carries, w

\* A type that comes at most once; all types; the types after a PeerInfo.
Once(w, type) == \A i, j \in 1 .. Len(w) : w[i].type = type /\ w[j].type = type => i = j
Only(w, types) == \A i \in 1 .. Len(w) : w[i].type \in types
After(w, types) ==
    \A i, j \in 1 .. Len(w) : i < j /\ w[i].type = "PeerInfo" => w[j].type \in types

\* More messages, of a kind that does not come twice.
LEMMA OnceConcat ==
    ASSUME NEW S, NEW w \in Seq(S), NEW m \in S, NEW type, Once(w, type),
           m.type = type => ~Has(w, type)
    PROVE  Once(w \o <<m>>, type)
<1>1. /\ Len(w \o <<m>>) = Len(w) + 1 /\ (w \o <<m>>)[Len(w) + 1] = m
      /\ \A i \in 1 .. Len(w) : (w \o <<m>>)[i] = w[i]
      /\ \A i \in 1 .. Len(w) + 1 : i \in 1 .. Len(w) \/ i = Len(w) + 1
  OBVIOUS
<1> SUFFICES ASSUME NEW i \in 1 .. Len(w) + 1, NEW j \in 1 .. Len(w) + 1,
                    (w \o <<m>>)[i].type = type, (w \o <<m>>)[j].type = type
             PROVE  i = j
  BY <1>1 DEF Once
<1>2. CASE i \in 1 .. Len(w) /\ j \in 1 .. Len(w)
  BY <1>1, <1>2 DEF Once
<1>3. CASE i = Len(w) + 1 /\ j \in 1 .. Len(w)
  BY <1>1, <1>3 DEF Has
<1>4. CASE i \in 1 .. Len(w) /\ j = Len(w) + 1
  BY <1>1, <1>4 DEF Has
<1> QED BY <1>1, <1>2, <1>3, <1>4

\* Reading one: the next of its kind is the only one.
LEMMA OnceTail ==
    ASSUME NEW S, NEW w \in Seq(S), w # <<>>, NEW type, Once(w, type)
    PROVE  Once(Tail(w), type) /\ (Head(w).type = type => ~Has(Tail(w), type))
<1>1. /\ 1 \in 1 .. Len(w) /\ Head(w) = w[1] /\ Len(Tail(w)) \in Nat
      /\ \A i \in 1 .. Len(Tail(w)) : Tail(w)[i] = w[i + 1]
  OBVIOUS
<1>2. \A i \in 1 .. Len(Tail(w)) : i + 1 \in 1 .. Len(w) /\ i + 1 # 1
  OBVIOUS
<1>3. Once(Tail(w), type)
  <2> SUFFICES ASSUME NEW i \in 1 .. Len(Tail(w)), NEW j \in 1 .. Len(Tail(w)),
                      Tail(w)[i].type = type, Tail(w)[j].type = type
               PROVE  i = j
    BY DEF Once
  <2>1. i + 1 = j + 1
    BY <1>1, <1>2 DEF Once
  <2> QED BY <2>1
<1>4. Head(w).type = type => ~Has(Tail(w), type)
  BY <1>1, <1>2 DEF Once, Has
<1> QED BY <1>3, <1>4

\* All messages of a wire are of some types.
LEMMA OnlyFacts ==
    ASSUME NEW S, NEW w \in Seq(S), NEW types
    PROVE  /\ \A v \in Seq(S) : Only(w \o v, types) <=> Only(w, types) /\ Only(v, types)
           /\ w # <<>> /\ Only(w, types) => Only(Tail(w), types) /\ Head(w).type \in types
<1>1. ASSUME NEW v \in Seq(S)
      PROVE  Only(w \o v, types) <=> Only(w, types) /\ Only(v, types)
  <2>1. \A i \in 1 .. Len(w) : i \in 1 .. Len(w \o v) /\ (w \o v)[i] = w[i]
    OBVIOUS
  <2>2. \A i \in 1 .. Len(v) : Len(w) + i \in 1 .. Len(w \o v) /\ (w \o v)[Len(w) + i] = v[i]
    OBVIOUS
  <2>3. \A i \in 1 .. Len(w \o v) :
           \/ i \in 1 .. Len(w) /\ (w \o v)[i] = w[i]
           \/ i - Len(w) \in 1 .. Len(v) /\ (w \o v)[i] = v[i - Len(w)]
    OBVIOUS
  <2> QED BY <2>1, <2>2, <2>3 DEF Only
<1>2. ASSUME w # <<>>, Only(w, types) PROVE Only(Tail(w), types) /\ Head(w).type \in types
  <2>1. /\ 1 \in 1 .. Len(w) /\ Head(w) = w[1]
        /\ \A i \in 1 .. Len(Tail(w)) : Tail(w)[i] = w[i + 1]
    BY <1>2
  <2>2. \A i \in 1 .. Len(Tail(w)) : i + 1 \in 1 .. Len(w)
    BY <1>2
  <2> QED BY <1>2, <2>1, <2>2 DEF Only
<1> QED BY <1>1, <1>2

\* The same for one message, one more, and none.
LEMMA OnlyOne == ASSUME NEW m, NEW types PROVE Only(<<m>>, types) <=> m.type \in types
<1>1. Len(<<m>>) = 1 /\ <<m>>[1] = m
  OBVIOUS
<1> QED BY <1>1 DEF Only

LEMMA OnlyAppend ==
    ASSUME NEW S, NEW w \in Seq(S), NEW m \in S, NEW types, Only(w, types), m.type \in types
    PROVE  Only(w \o <<m>>, types)
<1> DEFINE v == <<m>>
<1>1. v \in Seq(S) /\ Only(v, types)
  BY OnlyOne
<1> HIDE DEF v
<1>2. Only(w \o v, types)
  BY <1>1, OnlyFacts
<1> QED BY <1>2 DEF v

LEMMA OnlyNone == ASSUME NEW types PROVE Only(<<>>, types)
<1>1. Len(<<>>) = 0
  OBVIOUS
<1> QED BY <1>1 DEF Only

\* More types are allowed.
LEMMA OnlyMore ==
    ASSUME NEW w, NEW S, NEW T, S \subseteq T
    PROVE  (Only(w, S) => Only(w, T)) /\ (After(w, S) => After(w, T))
  BY DEF Only, After

\* What follows the PeerInfo.
LEMMA AfterConcat ==
    ASSUME NEW S, NEW w \in Seq(S), NEW m \in S, NEW types, After(w, types),
           m.type \in types \/ ~Has(w, "PeerInfo")
    PROVE  After(w \o <<m>>, types)
<1>1. /\ Len(w \o <<m>>) = Len(w) + 1 /\ (w \o <<m>>)[Len(w) + 1] = m
      /\ \A i \in 1 .. Len(w) : (w \o <<m>>)[i] = w[i]
      /\ \A i \in 1 .. Len(w) + 1 : i \in 1 .. Len(w) \/ i = Len(w) + 1
  OBVIOUS
<1> SUFFICES ASSUME NEW i \in 1 .. Len(w) + 1, NEW j \in 1 .. Len(w) + 1, i < j,
                    (w \o <<m>>)[i].type = "PeerInfo"
             PROVE  (w \o <<m>>)[j].type \in types
  BY <1>1 DEF After
<1>2. i \in 1 .. Len(w) /\ w[i].type = "PeerInfo"
  BY <1>1
<1>3. CASE j \in 1 .. Len(w)
  BY <1>1, <1>2, <1>3 DEF After
<1>4. CASE j = Len(w) + 1
  BY <1>1, <1>2, <1>4 DEF Has
<1> QED BY <1>1, <1>3, <1>4

\* Reading one, the PeerInfo above all.
LEMMA AfterTail ==
    ASSUME NEW S, NEW w \in Seq(S), w # <<>>, NEW types, After(w, types)
    PROVE  After(Tail(w), types) /\ (Head(w).type = "PeerInfo" => Only(Tail(w), types))
<1>1. /\ 1 \in 1 .. Len(w) /\ Head(w) = w[1] /\ Len(Tail(w)) \in Nat
      /\ \A i \in 1 .. Len(Tail(w)) : Tail(w)[i] = w[i + 1]
  OBVIOUS
<1>2. /\ \A i \in 1 .. Len(Tail(w)) : i + 1 \in 1 .. Len(w) /\ 1 < i + 1
      /\ \A i, j \in 1 .. Len(Tail(w)) : i < j => i + 1 < j + 1
  OBVIOUS
<1> QED BY <1>1, <1>2 DEF After, Only

-----------------------------------------------------------------------------
(* What is tunnelled.                                                      *)

\* The program's pieces are with the service, on the wire and in the buffer.
Upward ==
    /\ Len(buffer) <= local
    /\ \A i \in 1 .. Len(buffer) : buffer[i] = (local - Len(buffer)) + i
    /\ client = "forward" => buffer = <<>>
    /\ \E a \in 0 .. local - Len(buffer) :
          Carries(served, 0, a) /\ Carries(toServer, a, local - Len(buffer))

\* The service's are with the program and on the wire.
Downward == \E a \in 0 .. remote : Carries(shown, 0, a) /\ Carries(toClient, a, remote)

\* A step, as the wire to the server sees it.
UpwardQuiet == UNCHANGED <<buffer, served, local, toServer>> /\ client' \in {client, "closed"}
ClientTells ==
    /\ UNCHANGED <<buffer, served, local, client>>
    /\ \E m \in Messages : m.type \in {"Login", "TestDelay"} /\ toServer' = toServer \o <<m>>
ServerHears ==
    /\ server = "loop" /\ toServer # <<>> /\ toServer' = Tail(toServer)
    /\ Head(toServer).type \in {"Login", "TestDelay"}
    /\ UNCHANGED <<buffer, served, local, client>>

\* There are no other steps.
LEMMA UpwardSteps ==
    ASSUME TypeOK, [Next]_vars
    PROVE  UpwardQuiet \/ ClientTells \/ ServerHears \/ OnPeerInfo \/ LocalWrites \/ RemoteReads
<1>0. \A m \in Messages : Append(toServer, m) = toServer \o <<m>>
  BY DEF TypeOK
<1>1. CASE \/ UNCHANGED vars \/ OnNotice \/ OnRefused \/ ClientCloses \/ LocalReads
           \/ TestDelayTimer \/ Authorize \/ ManagerNotice \/ ManagerCloses
           \/ RemoteWrites \/ ServerCloses
  BY <1>1 DEF UpwardQuiet, vars, clientVars, serverVars, OnNotice, OnRefused, ClientCloses,
              LocalReads, TestDelayTimer, Authorize, ManagerNotice, ManagerCloses,
              RemoteWrites, ServerCloses
<1>2. CASE \E password \in Passwords : OnHash(password)
  BY <1>0, <1>2, Kinds DEF OnHash, ClientTells, ClientSends, clientVars, serverVars
<1>3. CASE OnTestDelay
  BY <1>0, <1>3, Kinds DEF OnTestDelay, ClientTells, ClientSends, clientVars, serverVars
<1>4. CASE \E password \in Passwords \ {"empty"} : HandleLoginFromUi(password)
  BY <1>0, <1>4, Kinds DEF HandleLoginFromUi, ClientTells, ClientSends, serverVars
<1>5. CASE \E password \in Passwords : OnLogin(password)
  BY <1>5, Kinds DEF OnLogin, ServerTakes, ServerHears, clientVars
<1>6. CASE OnLoginAgain \/ OnLoginRefused \/ OnTestDelayReply
  BY <1>6 DEF OnLoginAgain, OnLoginRefused, OnTestDelayReply, ServerTakes, ServerHears, clientVars
<1> QED
  BY <1>1, <1>2, <1>3, <1>4, <1>5, <1>6 DEF Next, ClientReads, ServerReads

\* No step loses, doubles or swaps a piece of the program.
LEMMA UpwardStep ==
    ASSUME TypeOK, Upward, [Next]_vars
    PROVE  Upward'
<1> DEFINE sent == local - Len(buffer)
<1>0. /\ local \in Nat /\ Len(buffer) \in Nat /\ sent \in Nat /\ buffer \in Seq(Nat)
      /\ toServer \in Seq(Messages) /\ served \in Seq(Messages)
  BY BoundAssumption DEF TypeOK, Upward
<1>1. PICK a \in 0 .. sent : Carries(served, 0, a) /\ Carries(toServer, a, sent)
  BY DEF Upward
<1>2. a \in Nat /\ a <= sent
  BY <1>0, <1>1
<1>3. CASE UpwardQuiet
  BY <1>3, <1>1 DEF UpwardQuiet, Upward
<1>4. CASE ClientTells
  <2>1. PICK m \in Messages : m.type \in {"Login", "TestDelay"} /\ toServer' = toServer \o <<m>>
    BY <1>4 DEF ClientTells
  <2>2. ~IsRaw(m)
    BY <2>1 DEF IsRaw
  <2>3. Carries(toServer', a, sent)
    BY <1>0, <1>1, <1>2, <2>1, <2>2, CarriesMore
  <2> QED BY <1>4, <1>1, <2>3 DEF ClientTells, Upward
<1>5. CASE ServerHears
  <2>1. ~IsRaw(Head(toServer))
    BY <1>5 DEF ServerHears, IsRaw
  <2>2. Carries(toServer', a, sent)
    BY <1>0, <1>1, <1>2, <1>5, <2>1, CarriesTail DEF ServerHears
  <2> QED BY <1>5, <1>1, <2>2 DEF ServerHears, Upward
<1>6. CASE OnPeerInfo
  <2>1. /\ toServer' = toServer \o AllRaw(buffer) /\ buffer' = <<>>
        /\ UNCHANGED <<local, served>>
    BY <1>6 DEF OnPeerInfo, serverVars
  <2>2. Carries(AllRaw(buffer), sent, sent + Len(buffer)) /\ sent + Len(buffer) = local
    BY <1>0, CarriesAll DEF Upward
  <2>3. AllRaw(buffer) \in Seq(Messages)
    BY <1>0, AllRawType
  <2>4. Carries(toServer', a, local)
    BY <1>0, <1>1, <1>2, <2>1, <2>2, <2>3, CarriesConcat
  <2>5. Len(buffer') = 0 /\ local' - Len(buffer') = local /\ a \in 0 .. local
    BY <1>0, <1>2, <2>1
  <2> QED BY <1>0, <1>1, <2>1, <2>4, <2>5 DEF Upward
<1>7. CASE LocalWrites
  <2>1. local' = local + 1 /\ UNCHANGED <<client, served>> /\ client # "closed"
    BY <1>7 DEF LocalWrites, serverVars
  <2>2. CASE client = "login"
    <3>1. buffer' = Append(buffer, local + 1) /\ UNCHANGED toServer
      BY <1>7, <2>2, Zenon DEF LocalWrites
    <3>2. /\ Len(buffer') = Len(buffer) + 1 /\ buffer'[Len(buffer) + 1] = local + 1
          /\ \A i \in 1 .. Len(buffer) : buffer'[i] = buffer[i]
      BY <1>0, <3>1
    <3>3. local' - Len(buffer') = sent /\ Len(buffer') <= local'
      BY <1>0, <2>1, <3>2 DEF Upward
    <3>4. \A i \in 1 .. Len(buffer') : buffer'[i] = sent + i
      <4> TAKE i \in 1 .. Len(buffer')
      <4>1. CASE i \in 1 .. Len(buffer)
        BY <3>2, <4>1 DEF Upward
      <4>2. CASE i = Len(buffer) + 1
        BY <1>0, <3>2, <4>2
      <4> QED BY <1>0, <3>2, <4>1, <4>2
    <3> QED BY <1>1, <2>1, <2>2, <3>1, <3>3, <3>4 DEF Upward
  <2>3. CASE client # "login"
    <3>1. toServer' = Append(toServer, Raw(local + 1)) /\ UNCHANGED buffer
      BY <1>7, <2>3, Zenon DEF LocalWrites, ClientSends
    <3>2. client = "forward" /\ buffer = <<>>
      BY <2>1, <2>3 DEF TypeOK, Upward
    <3>3. Len(buffer) = 0 /\ sent = local /\ local' - Len(buffer') = local + 1
      BY <1>0, <2>1, <3>1, <3>2
    <3>4. Raw(local + 1) \in Messages
      BY <1>0, Kinds
    <3>5. toServer' = toServer \o <<Raw(local + 1)>>
      BY <1>0, <3>1, <3>4
    <3>6. Carries(toServer, a, local) /\ a <= local
      BY <1>1, <1>2, <3>3
    <3>7. Carries(toServer', a, local + 1)
      BY <1>0, <1>2, <3>4, <3>5, <3>6, CarriesMore
    <3>8. a \in 0 .. local + 1 /\ Len(buffer') = 0 /\ Len(buffer') <= local'
      BY <1>0, <1>2, <2>1, <3>1, <3>3
    <3> QED BY <1>1, <2>1, <3>1, <3>2, <3>3, <3>7, <3>8 DEF Upward
  <2> QED BY <2>2, <2>3
<1>8. CASE RemoteReads
  <2>1. /\ toServer # <<>> /\ served' = Append(served, Head(toServer))
        /\ toServer' = Tail(toServer) /\ UNCHANGED <<client, buffer, local>>
    BY <1>8 DEF RemoteReads, clientVars
  <2>2. Head(toServer) \in Messages
    BY <1>0, <2>1
  <2>3. served' = served \o <<Head(toServer)>>
    BY <1>0, <2>1, <2>2
  <2>4. CASE IsRaw(Head(toServer))
    <3>1. a < sent /\ Head(toServer) = Raw(a + 1) /\ Carries(toServer', a + 1, sent)
      BY <1>0, <1>1, <1>2, <2>1, <2>4, CarriesTail
    <3>2. 0 \in Nat /\ 0 <= a
      BY <1>2
    <3>3. Carries(served', 0, a + 1)
      BY <1>0, <1>1, <1>2, <2>2, <2>3, <3>1, <3>2, CarriesMore
    <3>4. a + 1 \in 0 .. sent
      BY <1>0, <1>2, <3>1
    <3> QED BY <2>1, <3>1, <3>3, <3>4 DEF Upward
  <2>5. CASE ~IsRaw(Head(toServer))
    <3>1. Carries(toServer', a, sent)
      BY <1>0, <1>1, <1>2, <2>1, <2>5, CarriesTail
    <3>2. 0 \in Nat /\ 0 <= a
      BY <1>2
    <3>3. Carries(served', 0, a)
      BY <1>0, <1>1, <1>2, <2>2, <2>3, <2>5, <3>2, CarriesMore
    <3> QED BY <1>1, <2>1, <3>1, <3>3 DEF Upward
  <2> QED BY <2>4, <2>5
<1> QED BY <1>3, <1>4, <1>5, <1>6, <1>7, <1>8, UpwardSteps

\* And the wire to the client.
DownwardQuiet == UNCHANGED <<shown, remote, toClient>>
ServerTells ==
    /\ UNCHANGED <<shown, remote>>
    /\ \E m \in Messages : ~IsRaw(m) /\ toClient' = toClient \o <<m>>
ClientHears ==
    /\ client = "login" /\ toClient # <<>> /\ toClient' = Tail(toClient)
    /\ ~IsRaw(Head(toClient)) /\ UNCHANGED <<shown, remote>>

\* There are no other steps.
LEMMA DownwardSteps ==
    ASSUME TypeOK, [Next]_vars
    PROVE  DownwardQuiet \/ ServerTells \/ ClientHears \/ LocalReads \/ RemoteWrites
<1>1. CASE \/ UNCHANGED vars \/ LocalWrites \/ ClientCloses \/ OnLoginAgain \/ OnTestDelayReply
           \/ RemoteReads \/ ServerCloses
           \/ \E password \in Passwords \ {"empty"} : HandleLoginFromUi(password)
  BY <1>1 DEF DownwardQuiet, vars, clientVars, serverVars, LocalWrites, ClientCloses,
              OnLoginAgain, OnTestDelayReply, RemoteReads, ServerCloses, HandleLoginFromUi
<1>2. CASE \/ \E password \in Passwords : OnHash(password)
           \/ OnNotice \/ OnRefused \/ OnTestDelay \/ OnPeerInfo
  BY <1>2 DEF ClientHears, ClientGets, IsRaw, OnHash, OnNotice, OnRefused, OnTestDelay,
              OnPeerInfo, clientVars, serverVars
<1>3. CASE OnLoginRefused \/ TestDelayTimer \/ ManagerNotice \/ ManagerCloses
  <2>1. \A type \in {"Refused", "TestDelay", "Notice"} :
           Msg(type) \in Messages /\ ~IsRaw(Msg(type))
    BY Kinds DEF Errors, IsRaw
  <2> QED BY <1>3, <2>1 DEF ServerTells, ServerSends, OnLoginRefused, TestDelayTimer,
                            ManagerNotice, ManagerCloses, clientVars
<1>4. ASSUME Logon, UNCHANGED <<shown, remote>> PROVE DownwardQuiet \/ ServerTells
  <2>1. Msg("PeerInfo") \in Messages /\ ~IsRaw(Msg("PeerInfo"))
    BY Kinds DEF IsRaw
  <2>2. toClient' = toClient \o (IF authorized THEN <<>> ELSE <<Msg("PeerInfo")>>)
    BY <1>4, Zenon DEF Logon, ServerSends
  <2>3. CASE authorized
    <3>1. toClient' = toClient
      BY <2>2, <2>3 DEF TypeOK
    <3> QED BY <1>4, <3>1 DEF DownwardQuiet
  <2>4. CASE ~authorized
    BY <1>4, <2>1, <2>2, <2>4 DEF ServerTells
  <2> QED BY <2>3, <2>4
<1>5. CASE \E password \in Passwords : OnLogin(password)
  <2> PICK password \in Passwords : OnLogin(password)
    BY <1>5
  <2>1. UNCHANGED <<shown, remote>>
    BY DEF OnLogin, clientVars
  <2>2. CASE Accepts(password)
    <3>1. Logon
      BY <2>2, Zenon DEF OnLogin
    <3> QED BY <1>4, <2>1, <3>1
  <2>3. CASE ~Accepts(password)
    <3>1. toClient' = toClient \o Denial(password)
      BY <2>3, Zenon DEF OnLogin, ServerSends
    <3>2. \A type \in {"NoPasswordAccess", "PasswordWrong"} :
             Msg(type) \in Messages /\ ~IsRaw(Msg(type))
      BY Kinds DEF Errors, IsRaw
    <3>3. \/ Denial(password) = <<>>
          \/ \E type \in {"NoPasswordAccess", "PasswordWrong"} : Denial(password) = <<Msg(type)>>
      BY DEF Denial
    <3>4. toClient \o <<>> = toClient
      BY DEF TypeOK
    <3> QED BY <2>1, <3>1, <3>2, <3>3, <3>4 DEF DownwardQuiet, ServerTells
  <2> QED BY <2>2, <2>3
<1>6. CASE Authorize
  BY <1>4, <1>6 DEF Authorize, clientVars
<1> QED
  BY <1>1, <1>2, <1>3, <1>5, <1>6 DEF Next, ClientReads, ServerReads

\* Nor one of the service.
LEMMA DownwardStep ==
    ASSUME TypeOK, Downward, [Next]_vars
    PROVE  Downward'
<1>0. remote \in Nat /\ toClient \in Seq(Messages) /\ shown \in Seq(Messages)
  BY BoundAssumption DEF TypeOK
<1>1. PICK a \in 0 .. remote : Carries(shown, 0, a) /\ Carries(toClient, a, remote)
  BY DEF Downward
<1>2. a \in Nat /\ a <= remote
  BY <1>0, <1>1
<1>3. CASE DownwardQuiet
  BY <1>3, <1>1 DEF DownwardQuiet, Downward
<1>4. CASE ServerTells
  <2>1. PICK m \in Messages : ~IsRaw(m) /\ toClient' = toClient \o <<m>>
    BY <1>4 DEF ServerTells
  <2>2. Carries(toClient', a, remote)
    BY <1>0, <1>1, <1>2, <2>1, CarriesMore
  <2> QED BY <1>4, <1>1, <2>2 DEF ServerTells, Downward
<1>5. CASE ClientHears
  <2>1. Carries(toClient', a, remote)
    BY <1>0, <1>1, <1>2, <1>5, CarriesTail DEF ClientHears
  <2> QED BY <1>5, <1>1, <2>1 DEF ClientHears, Downward
<1>6. CASE LocalReads
  <2>1. /\ toClient # <<>> /\ shown' = Append(shown, Head(toClient))
        /\ toClient' = Tail(toClient) /\ UNCHANGED remote
    BY <1>6 DEF LocalReads, serverVars
  <2>2. Head(toClient) \in Messages
    BY <1>0, <2>1
  <2>3. shown' = shown \o <<Head(toClient)>>
    BY <1>0, <2>1, <2>2
  <2>4. CASE IsRaw(Head(toClient))
    <3>1. a < remote /\ Head(toClient) = Raw(a + 1) /\ Carries(toClient', a + 1, remote)
      BY <1>0, <1>1, <1>2, <2>1, <2>4, CarriesTail
    <3>2. 0 \in Nat /\ 0 <= a
      BY <1>2
    <3>3. Carries(shown', 0, a + 1)
      BY <1>0, <1>1, <1>2, <2>2, <2>3, <3>1, <3>2, CarriesMore
    <3>4. a + 1 \in 0 .. remote
      BY <1>0, <1>2, <3>1
    <3> QED BY <2>1, <3>1, <3>3, <3>4 DEF Downward
  <2>5. CASE ~IsRaw(Head(toClient))
    <3>1. Carries(toClient', a, remote)
      BY <1>0, <1>1, <1>2, <2>1, <2>5, CarriesTail
    <3>2. 0 \in Nat /\ 0 <= a
      BY <1>2
    <3>3. Carries(shown', 0, a)
      BY <1>0, <1>1, <1>2, <2>2, <2>3, <2>5, <3>2, CarriesMore
    <3> QED BY <1>1, <2>1, <3>1, <3>3 DEF Downward
  <2> QED BY <2>4, <2>5
<1>7. CASE RemoteWrites
  <2>1. toClient' = toClient \o <<Raw(remote + 1)>> /\ remote' = remote + 1 /\ UNCHANGED shown
    BY <1>7 DEF RemoteWrites, ServerSends, clientVars
  <2>2. Raw(remote + 1) \in Messages
    BY <1>0, Kinds
  <2>3. Carries(toClient', a, remote + 1)
    BY <1>0, <1>1, <1>2, <2>1, <2>2, CarriesMore
  <2>4. a \in 0 .. remote + 1
    BY <1>0, <1>2
  <2> QED BY <1>1, <2>1, <2>3, <2>4 DEF Downward
<1> QED BY <1>3, <1>4, <1>5, <1>6, <1>7, DownwardSteps

-----------------------------------------------------------------------------
(* What comes among it.                                                    *)

\* The reply the server waits for is one, and is with it at the latest when it
\* reads on; one that comes when it passes on what it reads is not waited for.
Replies ==
    /\ Once(toClient, "TestDelay") /\ Once(toServer, "TestDelay")
    /\ ~(Has(toClient, "TestDelay") /\ Has(toServer, "TestDelay"))
    /\ Has(toClient, "TestDelay") \/ Has(toServer, "TestDelay") => testing
    /\ server = "forward" /\ testing => abrupt
    /\ Has(served, "TestDelay") => testing /\ abrupt
    /\ server = "loop" => served = <<>>

\* Only typed passwords come after the first login is read.
Logins ==
    /\ Only(toServer, {"Login", "TestDelay", "raw"}) /\ Only(served, {"Login", "TestDelay", "raw"})
    /\ socket \/ server = "forward" => asked
    /\ Once(toClient, "Hash")
    /\ typed = 0 =>
          /\ Has(toClient, "Hash") => ~asked /\ ~Has(toServer, "Login")
          /\ asked => ~Has(toServer, "Login")
          /\ Once(toServer, "Login") /\ ~Has(served, "Login")

\* What comes after the PeerInfo.
Late == {"raw"} \cup (IF waited THEN {"Notice"} ELSE {})
Answers ==
    /\ server = "loop" /\ authorized => waited
    /\ After(toClient, Late)
    /\ client = "forward" => Only(toClient, Late)
    /\ client = "login" => shown = <<>>
    /\ Only(shown, Late)

\* Reading, for a type that comes once.
LEMMA TypeTail ==
    ASSUME NEW w \in Seq(Messages), w # <<>>, NEW type, Once(w, type)
    PROVE  /\ Once(Tail(w), type) /\ (Head(w).type = type => Has(w, type))
           /\ Has(Tail(w), type) => Has(w, type) /\ Head(w).type # type
<1>1. Has(w, Head(w).type) /\ (Has(Tail(w), type) => Has(w, type))
  BY TailFacts
<1> QED BY <1>1, OnceTail

\* One more message.
LEMMA TypeMore ==
    ASSUME NEW w \in Seq(Messages), NEW m \in Messages, NEW type, Once(w, type)
    PROVE  /\ m.type # type \/ ~Has(w, type) => Once(w \o <<m>>, type)
           /\ Has(w \o <<m>>, type) <=> Has(w, type) \/ m.type = type
<1>1. Has(w \o <<m>>, type) <=> Has(w, type) \/ m.type = type
  BY OneFacts
<1> QED BY <1>1, OnceConcat

\* Several, none of that type.
LEMMA TypeRest ==
    ASSUME NEW w \in Seq(Messages), NEW v \in Seq(Messages), NEW type,
           Once(w, type), ~Has(v, type)
    PROVE  Once(w \o v, type)
<1>1. \A i \in 1 .. Len(w \o v) :
         \/ i \in 1 .. Len(w) /\ (w \o v)[i] = w[i]
         \/ i - Len(w) \in 1 .. Len(v) /\ (w \o v)[i] = v[i - Len(w)]
  OBVIOUS
<1> QED BY <1>1 DEF Once, Has

\* What the server answers to a login.
LEMMA LogonTells ==
    ASSUME TypeOK, Logon
    PROVE  /\ authorized' = TRUE
           /\ authorized => toClient' = toClient
           /\ ~authorized => toClient' = toClient \o <<Msg("PeerInfo")>>
<1>1. /\ authorized' = TRUE
      /\ toClient' = toClient \o (IF authorized THEN <<>> ELSE <<Msg("PeerInfo")>>)
  BY Zenon DEF Logon, ServerSends
<1>2. toClient \o <<>> = toClient
  BY DEF TypeOK
<1> QED BY <1>1, <1>2

\* And to a login, accepted or not.
LEMMA LoginTells ==
    ASSUME TypeOK, NEW password \in Passwords, OnLogin(password)
    PROVE  \/ authorized' = TRUE /\ toClient' = toClient \o <<Msg("PeerInfo")>>
           \/ /\ authorized' = authorized
              /\ \/ toClient' = toClient
                 \/ \E type \in {"NoPasswordAccess", "PasswordWrong"} :
                       toClient' = toClient \o <<Msg(type)>>
<1>1. CASE Accepts(password)
  <2>1. Logon /\ ~authorized
    BY <1>1, Zenon DEF OnLogin
  <2> QED BY <2>1, LogonTells
<1>2. CASE ~Accepts(password)
  <2>1. authorized' = authorized /\ toClient' = toClient \o Denial(password)
    BY <1>2, Zenon DEF OnLogin, ServerSends
  <2>2. \/ Denial(password) = <<>>
        \/ \E type \in {"NoPasswordAccess", "PasswordWrong"} : Denial(password) = <<Msg(type)>>
    BY DEF Denial
  <2>3. toClient \o <<>> = toClient
    BY DEF TypeOK
  <2> QED BY <2>1, <2>2, <2>3
<1> QED BY <1>1, <1>2

\* A step that adds at most a message, and not one of the type.
Spared(wire, type) ==
    \/ wire' = wire
    \/ \E m \in Messages : m.type # type /\ wire' = wire \o <<m>>

\* It changes nothing for that type.
LEMMA SparedFacts ==
    ASSUME TypeOK, NEW type
    PROVE  /\ Spared(toClient, type) =>
                 (Once(toClient, type) => Once(toClient', type))
                 /\ (Has(toClient', type) <=> Has(toClient, type))
           /\ Spared(toServer, type) =>
                 (Once(toServer, type) => Once(toServer', type))
                 /\ (Has(toServer', type) <=> Has(toServer, type))
<1>1. toClient \in Seq(Messages) /\ toServer \in Seq(Messages)
  BY DEF TypeOK
<1>2. \A w \in Seq(Messages), m \in Messages :
         m.type # type =>
            /\ Once(w, type) => Once(w \o <<m>>, type)
            /\ Has(w \o <<m>>, type) <=> Has(w, type)
  BY OneFacts, OnceConcat
<1> QED BY <1>1, <1>2 DEF Spared

\* Each step, as the TestDelay and its reply see it.
LEMMA RepliesStep ==
    ASSUME TypeOK, Replies, [Next]_vars
    PROVE  Replies'
<1> USE DEF Replies
<1>0. toServer \in Seq(Messages) /\ toClient \in Seq(Messages) /\ served \in Seq(Messages)
  BY DEF TypeOK
<1>t. \A m \in Messages : Append(toServer, m) = toServer \o <<m>>
  BY <1>0
<1>1. CASE UNCHANGED vars \/ ClientCloses \/ ServerCloses
  BY <1>1 DEF vars, clientVars, serverVars, ClientCloses, ServerCloses
<1>2. CASE OnNotice \/ OnRefused \/ LocalReads
  <2>1. toClient # <<>> /\ toClient' = Tail(toClient) /\ UNCHANGED <<serverVars, toServer>>
    BY <1>2 DEF OnNotice, OnRefused, LocalReads, ClientGets
  <2>2. Once(toClient', "TestDelay") /\ (Has(toClient', "TestDelay") => Has(toClient, "TestDelay"))
    BY <1>0, <2>1, TypeTail
  <2> QED BY <2>1, <2>2 DEF serverVars
<1>3. CASE OnPeerInfo
  <2>1. /\ toClient # <<>> /\ toClient' = Tail(toClient) /\ UNCHANGED serverVars
        /\ toServer' = toServer \o AllRaw(buffer)
    BY <1>3 DEF OnPeerInfo, ClientGets
  <2>2. Once(toClient', "TestDelay") /\ (Has(toClient', "TestDelay") => Has(toClient, "TestDelay"))
    BY <1>0, <2>1, TypeTail
  <2>3. AllRaw(buffer) \in Seq(Messages) /\ ~Has(AllRaw(buffer), "TestDelay")
    BY AllRawType DEF TypeOK
  <2>4. Once(toServer', "TestDelay") /\ (Has(toServer', "TestDelay") => Has(toServer, "TestDelay"))
    BY <1>0, <2>1, <2>3, TypeRest, HasConcat
  <2> QED BY <2>1, <2>2, <2>4 DEF serverVars
<1>4. CASE \/ \E password \in Passwords : OnHash(password)
           \/ OnTestDelay
  <2>1. PICK m \in Messages : /\ toServer' = Append(toServer, m)
                              /\ Head(toClient).type = "TestDelay" \/ m.type = "Login"
                              /\ toClient # <<>> /\ toClient' = Tail(toClient)
                              /\ UNCHANGED serverVars
    BY <1>4, Kinds DEF OnHash, OnTestDelay, ClientGets, ClientSends, clientVars
  <2>2. /\ Once(toClient', "TestDelay")
        /\ Has(toClient', "TestDelay") => Has(toClient, "TestDelay") /\ Head(toClient).type # "TestDelay"
        /\ Head(toClient).type = "TestDelay" => Has(toClient, "TestDelay")
    BY <1>0, <2>1, TypeTail
  <2>3. toServer' = toServer \o <<m>>
    BY <1>t, <2>1
  <2>4. /\ Once(toServer', "TestDelay")
        /\ Has(toServer', "TestDelay") <=> Has(toServer, "TestDelay") \/ m.type = "TestDelay"
    BY <1>0, <2>1, <2>2, <2>3, TypeMore
  <2> QED BY <2>1, <2>2, <2>4 DEF serverVars
<1>5. CASE \/ \E password \in Passwords \ {"empty"} : HandleLoginFromUi(password)
           \/ LocalWrites
  <2>1. UNCHANGED <<serverVars, toClient>>
    BY <1>5 DEF HandleLoginFromUi, LocalWrites
  <2>2. Raw(local + 1) \in Messages /\ Raw(local + 1).type # "TestDelay"
    BY Kinds, BoundAssumption DEF TypeOK
  <2>3. Spared(toServer, "TestDelay")
    BY <1>t, <1>5, <2>2, Kinds DEF Spared, HandleLoginFromUi, LocalWrites, ClientSends
  <2> QED BY <2>1, <2>3, SparedFacts DEF serverVars
<1>6. CASE \/ \E password \in Passwords : OnLogin(password)
           \/ OnLoginAgain \/ OnLoginRefused
  <2>1. /\ toServer # <<>> /\ toServer' = Tail(toServer) /\ Head(toServer).type = "Login"
        /\ UNCHANGED <<testing, served>> /\ (abrupt => abrupt')
        /\ server' = "forward" /\ testing => abrupt'
        /\ server' = "loop" => server = "loop"
    BY <1>6, Kinds DEF OnLogin, OnLoginAgain, OnLoginRefused, ServerTakes, AfterMessage, LeaveLoop
  <2>2. Spared(toClient, "TestDelay")
    <3>1. CASE \E password \in Passwords : OnLogin(password)
      <4>1. \A type \in {"PeerInfo", "NoPasswordAccess", "PasswordWrong"} :
               Msg(type) \in Messages /\ Msg(type).type # "TestDelay"
        BY Kinds DEF Errors
      <4> PICK password \in Passwords : OnLogin(password)
        BY <3>1
      <4>2. \/ toClient' = toClient
            \/ \E type \in {"PeerInfo", "NoPasswordAccess", "PasswordWrong"} :
                  toClient' = toClient \o <<Msg(type)>>
        BY LoginTells
      <4> QED BY <4>1, <4>2 DEF Spared
    <3>2. CASE OnLoginAgain \/ OnLoginRefused
      BY <3>2, Kinds DEF Spared, OnLoginAgain, OnLoginRefused, ServerSends, Errors
    <3> QED BY <1>6, <3>1, <3>2
  <2>3. Once(toServer', "TestDelay") /\ (Has(toServer', "TestDelay") => Has(toServer, "TestDelay"))
    BY <1>0, <2>1, TypeTail
  <2> QED BY <2>1, <2>2, <2>3, SparedFacts
<1>7. CASE OnTestDelayReply
  <2>1. /\ server = "loop" /\ toServer # <<>> /\ toServer' = Tail(toServer)
        /\ Head(toServer).type = "TestDelay"
        /\ testing' = FALSE /\ UNCHANGED <<toClient, served, abrupt>>
    BY <1>7 DEF OnTestDelayReply, ServerTakes, clientVars
  <2>2. /\ Once(toServer', "TestDelay") /\ ~Has(toServer', "TestDelay")
        /\ Has(toServer, "TestDelay")
    BY <1>0, <2>1, TypeTail
  <2>3. served = <<>> /\ ~Has(served, "TestDelay")
    BY <2>1, HasNone
  <2> QED BY <2>1, <2>2, <2>3
<1>8. CASE RemoteReads
  <2>1. /\ server = "forward" /\ toServer # <<>> /\ toServer' = Tail(toServer)
        /\ served' = Append(served, Head(toServer))
        /\ UNCHANGED <<server, toClient, testing, abrupt>>
    BY <1>8 DEF RemoteReads
  <2>2. /\ Once(toServer', "TestDelay") /\ (Has(toServer', "TestDelay") => Has(toServer, "TestDelay"))
        /\ Head(toServer).type = "TestDelay" => Has(toServer, "TestDelay")
    BY <1>0, <2>1, TypeTail
  <2>3. Has(served', "TestDelay") <=> Has(served, "TestDelay") \/ Head(toServer).type = "TestDelay"
    <3>1. Head(toServer) \in Messages
      BY <1>0, <2>1
    <3>2. served' = served \o <<Head(toServer)>>
      BY <1>0, <2>1, <3>1, OneFacts
    <3> QED BY <1>0, <3>1, <3>2, OneFacts
  <2> QED BY <2>1, <2>2, <2>3
<1>9. CASE TestDelayTimer
  <2>1. /\ ~testing /\ testing' = TRUE /\ toClient' = toClient \o <<Msg("TestDelay")>>
        /\ server = "loop" /\ UNCHANGED <<server, toServer, served, abrupt>>
    BY <1>9 DEF TestDelayTimer, ServerSends
  <2>2. Once(toClient', "TestDelay")
    BY <1>0, <2>1, Kinds, TypeMore
  <2>3. served = <<>> /\ ~Has(served, "TestDelay")
    BY <2>1, HasNone
  <2> QED BY <2>1, <2>2, <2>3
<1>10. CASE Authorize \/ ManagerNotice \/ ManagerCloses \/ RemoteWrites
  <2>1. /\ UNCHANGED <<toServer, testing, served>> /\ (abrupt => abrupt')
        /\ server' = "forward" /\ testing => abrupt'
        /\ server' = "loop" => server = "loop"
    BY <1>10 DEF Authorize, ManagerNotice, ManagerCloses, RemoteWrites
  <2>2. Spared(toClient, "TestDelay")
    <3>1. CASE Authorize
      BY <3>1, LogonTells, Kinds DEF Spared, Authorize
    <3>2. CASE ManagerNotice \/ ManagerCloses
      BY <3>2, Kinds DEF Spared, ManagerNotice, ManagerCloses, ServerSends
    <3>3. CASE RemoteWrites
      <4>1. Raw(remote + 1) \in Messages /\ Raw(remote + 1).type # "TestDelay"
        BY Kinds, BoundAssumption DEF TypeOK
      <4> QED BY <3>3, <4>1 DEF Spared, RemoteWrites, ServerSends
    <3> QED BY <1>10, <3>1, <3>2, <3>3
  <2> QED BY <2>1, <2>2, SparedFacts
<1> QED
  BY <1>1, <1>2, <1>3, <1>4, <1>5, <1>6, <1>7, <1>8, <1>9, <1>10 DEF Next, ClientReads, ServerReads

\* Each step, as the passwords see it.
LEMMA LoginsStep ==
    ASSUME TypeOK, Logins, [Next]_vars
    PROVE  Logins'
<1> USE DEF Logins
<1> DEFINE Kept == {"Login", "TestDelay", "raw"}
<1>0. toServer \in Seq(Messages) /\ toClient \in Seq(Messages) /\ served \in Seq(Messages)
      /\ typed \in Nat
  BY BoundAssumption DEF TypeOK
<1>t. \A m \in Messages : Append(toServer, m) = toServer \o <<m>>
  BY <1>0
<1>m. \A m \in Messages : m.type \in Kept => Only(toServer \o <<m>>, Kept)
  BY <1>0, OnlyAppend
<1>1. CASE UNCHANGED vars \/ ClientCloses \/ ServerCloses
  BY <1>1 DEF vars, clientVars, serverVars, ClientCloses, ServerCloses
<1>2. CASE OnNotice \/ OnRefused \/ LocalReads
  <2>1. toClient # <<>> /\ toClient' = Tail(toClient) /\ UNCHANGED <<serverVars, toServer, typed>>
    BY <1>2 DEF OnNotice, OnRefused, LocalReads, ClientGets, clientVars
  <2>2. Once(toClient', "Hash") /\ (Has(toClient', "Hash") => Has(toClient, "Hash"))
    BY <1>0, <2>1, TypeTail
  <2> QED BY <2>1, <2>2 DEF serverVars
<1>3. CASE OnPeerInfo
  <2>1. /\ toClient # <<>> /\ toClient' = Tail(toClient) /\ UNCHANGED <<serverVars, typed>>
        /\ toServer' = toServer \o AllRaw(buffer)
    BY <1>3 DEF OnPeerInfo, ClientGets
  <2>2. Once(toClient', "Hash") /\ (Has(toClient', "Hash") => Has(toClient, "Hash"))
    BY <1>0, <2>1, TypeTail
  <2>3. /\ AllRaw(buffer) \in Seq(Messages) /\ ~Has(AllRaw(buffer), "Login")
        /\ Only(AllRaw(buffer), Kept)
    BY AllRawType DEF TypeOK, Has, Only
  <2>4. Once(toServer, "Login") => Once(toServer', "Login")
    BY <1>0, <2>1, <2>3, TypeRest
  <2>5. Has(toServer', "Login") => Has(toServer, "Login")
    BY <1>0, <2>1, <2>3, HasConcat
  <2>6. Only(toServer', Kept)
    BY <1>0, <2>1, <2>3, OnlyFacts
  <2> QED BY <2>1, <2>2, <2>4, <2>5, <2>6 DEF serverVars
<1>4. CASE \E password \in Passwords : OnHash(password)
  <2> PICK password \in Passwords : OnHash(password)
    BY <1>4
  <2>1. /\ toServer' = Append(toServer, Login(password))
        /\ toClient # <<>> /\ toClient' = Tail(toClient) /\ Head(toClient).type = "Hash"
        /\ UNCHANGED <<serverVars, typed>>
    BY DEF OnHash, ClientGets, ClientSends, clientVars
  <2>2. Once(toClient', "Hash") /\ ~Has(toClient', "Hash") /\ Has(toClient, "Hash")
    BY <1>0, <2>1, TypeTail
  <2>3. Login(password) \in Messages /\ Login(password).type = "Login"
    BY Kinds
  <2>4. toServer' = toServer \o <<Login(password)>>
    BY <1>t, <2>1, <2>3
  <2>5. Only(toServer', Kept)
    BY <1>m, <2>3, <2>4
  <2>6. typed = 0 => Once(toServer', "Login")
    BY <1>0, <2>2, <2>3, <2>4, TypeMore
  <2> QED BY <2>1, <2>2, <2>5, <2>6 DEF serverVars
<1>5. CASE OnTestDelay \/ LocalWrites
  <2>1. UNCHANGED <<serverVars, typed>>
    BY <1>5 DEF OnTestDelay, LocalWrites, clientVars
  <2>2. Once(toClient', "Hash") /\ (Has(toClient', "Hash") => Has(toClient, "Hash"))
    <3>1. CASE OnTestDelay
      BY <1>0, <3>1, TypeTail DEF OnTestDelay, ClientGets
    <3>2. CASE LocalWrites
      BY <3>2 DEF LocalWrites
    <3> QED BY <1>5, <3>1, <3>2
  <2>3. Raw(local + 1) \in Messages /\ Raw(local + 1).type = "raw"
    BY Kinds, BoundAssumption DEF TypeOK
  <2>4. Msg("TestDelay") \in Messages /\ Msg("TestDelay").type = "TestDelay"
    BY Kinds
  <2>5. \/ toServer' = toServer
        \/ \E m \in Messages : m.type \in {"TestDelay", "raw"} /\ toServer' = toServer \o <<m>>
    BY <1>t, <1>5, <2>3, <2>4 DEF OnTestDelay, LocalWrites, ClientSends
  <2>6. Spared(toServer, "Login") /\ Only(toServer', Kept)
    BY <1>m, <2>5 DEF Spared
  <2> QED BY <2>1, <2>2, <2>6, SparedFacts DEF serverVars
<1>6. CASE \E password \in Passwords \ {"empty"} : HandleLoginFromUi(password)
  <2> PICK password \in Passwords \ {"empty"} : HandleLoginFromUi(password)
    BY <1>6
  <2>1. /\ toServer' = Append(toServer, Login(password)) /\ typed' = typed + 1
        /\ UNCHANGED <<serverVars, toClient>>
    BY DEF HandleLoginFromUi, ClientSends
  <2>2. Login(password) \in Messages /\ Login(password).type = "Login"
    BY Kinds
  <2>3. Only(toServer', Kept)
    BY <1>t, <1>m, <2>1, <2>2
  <2>4. typed' # 0
    BY <1>0, <2>1
  <2> QED BY <2>1, <2>3, <2>4 DEF serverVars
<1>7. CASE \/ \E password \in Passwords : OnLogin(password)
           \/ OnLoginAgain \/ OnLoginRefused
  <2>1. /\ toServer # <<>> /\ toServer' = Tail(toServer) /\ Head(toServer).type = "Login"
        /\ UNCHANGED <<served, typed>>
        /\ asked => asked'
        /\ socket' \/ server' = "forward" => asked' \/ socket
    BY <1>7, Kinds DEF OnLogin, OnLoginAgain, OnLoginRefused, ServerTakes, AfterMessage, LeaveLoop,
                       clientVars
  <2>2. Spared(toClient, "Hash")
    <3>1. CASE \E password \in Passwords : OnLogin(password)
      <4>1. \A type \in {"PeerInfo", "NoPasswordAccess", "PasswordWrong"} :
               Msg(type) \in Messages /\ Msg(type).type # "Hash"
        BY Kinds DEF Errors
      <4> PICK password \in Passwords : OnLogin(password)
        BY <3>1
      <4>2. \/ toClient' = toClient
            \/ \E type \in {"PeerInfo", "NoPasswordAccess", "PasswordWrong"} :
                  toClient' = toClient \o <<Msg(type)>>
        BY LoginTells
      <4> QED BY <4>1, <4>2 DEF Spared
    <3>2. CASE OnLoginAgain \/ OnLoginRefused
      BY <3>2, Kinds DEF Spared, OnLoginAgain, OnLoginRefused, ServerSends, Errors
    <3> QED BY <1>7, <3>1, <3>2
  <2>3. Only(toServer', Kept)
    BY <1>0, <2>1, OnlyFacts
  <2>4. Once(toServer, "Login") =>
           Once(toServer', "Login") /\ ~Has(toServer', "Login") /\ Has(toServer, "Login")
    BY <1>0, <2>1, TypeTail
  <2> QED BY <2>1, <2>2, <2>3, <2>4, SparedFacts
<1>8. CASE OnTestDelayReply
  <2>1. /\ toServer # <<>> /\ toServer' = Tail(toServer)
        /\ UNCHANGED <<toClient, served, typed, asked, socket>>
        /\ server' = "forward" => socket
    BY <1>8 DEF OnTestDelayReply, ServerTakes, AfterMessage, clientVars
  <2>2. /\ Once(toServer, "Login") => Once(toServer', "Login")
        /\ Has(toServer', "Login") => Has(toServer, "Login")
    BY <1>0, <2>1, TypeTail, TailFacts
  <2>3. Only(toServer', Kept)
    BY <1>0, <2>1, OnlyFacts
  <2> QED BY <2>1, <2>2, <2>3
<1>9. CASE RemoteReads
  <2>1. /\ server = "forward" /\ toServer # <<>> /\ toServer' = Tail(toServer)
        /\ served' = Append(served, Head(toServer))
        /\ UNCHANGED <<server, toClient, typed, asked, socket>>
    BY <1>9 DEF RemoteReads, clientVars
  <2>2. /\ Once(toServer, "Login") => Once(toServer', "Login")
        /\ Has(toServer', "Login") => Has(toServer, "Login")
        /\ Has(toServer, Head(toServer).type)
    BY <1>0, <2>1, TypeTail, TailFacts
  <2>3. Head(toServer) \in Messages /\ served' = served \o <<Head(toServer)>>
    <3>1. Head(toServer) \in Messages
      BY <1>0, <2>1
    <3> QED BY <1>0, <2>1, <3>1, OneFacts
  <2>4. Only(toServer', Kept) /\ Head(toServer).type \in Kept
    BY <1>0, <2>1, OnlyFacts
  <2>5. Only(served', Kept)
    BY <1>0, <2>3, <2>4, OnlyAppend
  <2>6. Has(served', "Login") <=> Has(served, "Login") \/ Head(toServer).type = "Login"
    BY <1>0, <2>3, OneFacts
  <2>7. typed = 0 => Head(toServer).type # "Login"
    BY <2>1, <2>2
  <2> QED BY <2>1, <2>2, <2>4, <2>5, <2>6, <2>7
<1>10. CASE TestDelayTimer \/ Authorize \/ ManagerNotice \/ ManagerCloses \/ RemoteWrites
  <2>1. /\ UNCHANGED <<toServer, served, typed, asked>>
        /\ socket' => socket
        /\ server' = "forward" => asked
    BY <1>10 DEF TestDelayTimer, Authorize, ManagerNotice, ManagerCloses, RemoteWrites, LeaveLoop,
                 clientVars
  <2>2. Spared(toClient, "Hash")
    <3>1. CASE Authorize
      BY <3>1, LogonTells, Kinds DEF Spared, Authorize
    <3>2. CASE ManagerNotice \/ ManagerCloses \/ TestDelayTimer
      BY <3>2, Kinds DEF Spared, ManagerNotice, ManagerCloses, TestDelayTimer, ServerSends
    <3>3. CASE RemoteWrites
      <4>1. Raw(remote + 1) \in Messages /\ Raw(remote + 1).type # "Hash"
        BY Kinds, BoundAssumption DEF TypeOK
      <4> QED BY <3>3, <4>1 DEF Spared, RemoteWrites, ServerSends
    <3> QED BY <1>10, <3>1, <3>2, <3>3
  <2> QED BY <2>1, <2>2, SparedFacts
<1> QED
  BY <1>1, <1>2, <1>3, <1>4, <1>5, <1>6, <1>7, <1>8, <1>9, <1>10 DEF Next, ClientReads, ServerReads

\* The server says something, or nothing.
LEMMA AnswersTold ==
    ASSUME TypeOK, Sides, Answers, UNCHANGED <<client, shown>>, waited => waited',
           waited' \in BOOLEAN, server' = "loop" /\ authorized' => waited',
           \/ toClient' = toClient
           \/ \E m \in Messages :
                 toClient' = toClient \o <<m>> /\ (~authorized \/ m.type \in Late)
    PROVE  Answers'
<1> USE DEF Answers
<1>0. toClient \in Seq(Messages) /\ shown \in Seq(Messages)
  BY DEF TypeOK
<1>1. Late \subseteq Late'
  BY DEF Late, TypeOK
<1>2. Only(shown', Late')
  BY <1>1, OnlyMore
<1>3. CASE toClient' = toClient
  BY <1>1, <1>2, <1>3, OnlyMore
<1>4. CASE toClient' # toClient
  <2>1. PICK m \in Messages : toClient' = toClient \o <<m>> /\ (~authorized \/ m.type \in Late)
    BY <1>4
  <2>2. ~authorized => ~Has(toClient, "PeerInfo") /\ client # "forward"
    BY DEF Sides, ClientSide
  <2>3. After(toClient', Late)
    BY <1>0, <2>1, <2>2, AfterConcat
  <2>4. client = "forward" => Only(toClient', Late)
    BY <1>0, <2>1, <2>2, OnlyAppend
  <2> QED BY <1>1, <1>2, <2>3, <2>4, OnlyMore
<1> QED BY <1>3, <1>4

\* Each step, as what follows the PeerInfo sees it.
LEMMA AnswersStep ==
    ASSUME TypeOK, Sides, Answers, [Next]_vars
    PROVE  Answers'
<1>0. toClient \in Seq(Messages) /\ shown \in Seq(Messages) /\ waited \in BOOLEAN
      /\ client \in {"login", "forward", "closed"}
  BY DEF TypeOK
<1>1. CASE \/ UNCHANGED vars \/ LocalWrites
           \/ \E password \in Passwords \ {"empty"} : HandleLoginFromUi(password)
  <2>1. UNCHANGED <<client, shown, toClient, server, authorized, waited>>
    BY <1>1 DEF vars, clientVars, serverVars, LocalWrites, HandleLoginFromUi
  <2> QED BY <2>1 DEF Answers, Late
<1>2. CASE ClientCloses
  BY <1>2 DEF ClientCloses, serverVars, Answers, Late
<1>3. CASE \/ \E password \in Passwords : OnHash(password)
           \/ OnNotice \/ OnTestDelay \/ OnRefused \/ OnPeerInfo
  <2>1. /\ toClient # <<>> /\ toClient' = Tail(toClient) /\ client = "login" /\ UNCHANGED <<shown, serverVars>>
        /\ \/ client' = "login" \/ client' = "closed"
           \/ client' = "forward" /\ Head(toClient).type = "PeerInfo"
    BY <1>3 DEF OnHash, OnNotice, OnTestDelay, OnRefused, OnPeerInfo, ClientGets, clientVars
  <2>2. After(toClient', Late) /\ (Head(toClient).type = "PeerInfo" => Only(toClient', Late))
    BY <1>0, <2>1, AfterTail DEF Answers
  <2>3. Late' = Late /\ UNCHANGED <<server, authorized, waited>>
    BY <2>1 DEF Late, serverVars
  <2> QED BY <2>1, <2>2, <2>3 DEF Answers
<1>4. CASE LocalReads
  <2>1. /\ client = "forward" /\ toClient # <<>> /\ toClient' = Tail(toClient)
        /\ shown' = Append(shown, Head(toClient)) /\ UNCHANGED <<client, serverVars>>
    BY <1>4 DEF LocalReads
  <2>2. After(toClient', Late) /\ Only(toClient', Late) /\ Head(toClient).type \in Late
    BY <1>0, <2>1, AfterTail, OnlyFacts DEF Answers
  <2>3. Only(shown', Late)
    <3>1. Head(toClient) \in Messages
      BY <1>0, <2>1
    <3>2. shown' = shown \o <<Head(toClient)>>
      BY <1>0, <2>1, <3>1, OneFacts
    <3> QED BY <1>0, <2>2, <3>1, <3>2, OnlyAppend DEF Answers
  <2>4. Late' = Late /\ UNCHANGED <<server, authorized, waited>>
    BY <2>1 DEF Late, serverVars
  <2> QED BY <2>1, <2>2, <2>3, <2>4 DEF Answers
<1>5. CASE \E password \in Passwords : OnLogin(password)
  <2> PICK password \in Passwords : OnLogin(password)
    BY <1>5
  <2>1. /\ ~authorized /\ UNCHANGED <<client, shown>>
        /\ waited' = (waited \/ (authorized' /\ testing))
        /\ server' = "loop" /\ authorized' => testing
    BY DEF OnLogin, AfterMessage, clientVars
  <2>2. \/ toClient' = toClient
        \/ \E type \in {"PeerInfo", "NoPasswordAccess", "PasswordWrong"} :
              toClient' = toClient \o <<Msg(type)>>
    BY LoginTells
  <2>3. \A type \in {"PeerInfo", "NoPasswordAccess", "PasswordWrong"} : Msg(type) \in Messages
    BY Kinds DEF Errors
  <2>4. (waited => waited') /\ waited' \in BOOLEAN /\ (server' = "loop" /\ authorized' => waited')
    BY <2>1
  <2>5. \/ toClient' = toClient
        \/ \E m \in Messages :
              toClient' = toClient \o <<m>> /\ (~authorized \/ m.type \in Late)
    BY <2>1, <2>2, <2>3
  <2> QED BY <2>1, <2>4, <2>5, AnswersTold
<1>6. CASE \/ OnLoginAgain \/ OnTestDelayReply \/ RemoteReads \/ ServerCloses
  <2>1. /\ UNCHANGED <<client, shown, toClient, waited, authorized>>
        /\ server' = "loop" => server = "loop"
    BY <1>6 DEF OnLoginAgain, OnTestDelayReply, RemoteReads, ServerCloses, ServerTakes, clientVars
  <2> QED BY <1>0, <2>1, AnswersTold DEF Answers
<1>7. CASE OnLoginRefused
  <2>1. /\ ~authorized /\ UNCHANGED <<client, shown, waited, authorized>>
        /\ toClient' = toClient \o <<Msg("Refused")>> /\ Msg("Refused") \in Messages
    BY <1>7, Kinds DEF OnLoginRefused, ServerSends, clientVars, Errors
  <2> QED BY <1>0, <2>1, AnswersTold
<1>8. CASE TestDelayTimer
  <2>1. /\ UNCHANGED <<client, shown, waited, authorized, server>>
        /\ server = "loop" /\ ~(socket /\ authorized)
        /\ toClient' = toClient \o <<Msg("TestDelay")>> /\ Msg("TestDelay") \in Messages
    BY <1>8, Kinds DEF TestDelayTimer, ServerSends, clientVars
  <2>2. ~authorized
    BY <2>1 DEF Sides, ServerSide, TypeOK
  <2> QED BY <1>0, <2>1, <2>2, AnswersTold
<1>9. CASE Authorize
  <2>1. UNCHANGED <<client, shown, waited>> /\ server' # "loop" /\ Logon
    BY <1>9 DEF Authorize, LeaveLoop, clientVars
  <2>2. \/ toClient' = toClient
        \/ ~authorized /\ toClient' = toClient \o <<Msg("PeerInfo")>>
    BY <2>1, LogonTells DEF TypeOK
  <2>3. Msg("PeerInfo") \in Messages
    BY Kinds
  <2> QED BY <1>0, <2>1, <2>2, <2>3, AnswersTold
<1>10. CASE ManagerNotice \/ ManagerCloses
  <2>1. /\ UNCHANGED <<client, shown, waited, authorized>> /\ server = "loop"
        /\ toClient' = toClient \o <<Msg("Notice")>>
    BY <1>10 DEF ManagerNotice, ManagerCloses, ServerSends, clientVars
  <2>2. Msg("Notice") \in Messages /\ Msg("Notice").type = "Notice"
    BY Kinds
  <2>3. ~authorized \/ Msg("Notice").type \in Late
    BY <2>1, <2>2 DEF Answers, Late
  <2>4. server' = "loop" /\ authorized' => waited'
    BY <2>1 DEF Answers
  <2> QED BY <1>0, <2>1, <2>2, <2>3, <2>4, AnswersTold
<1>11. CASE RemoteWrites
  <2>1. /\ UNCHANGED <<client, shown, waited, authorized, server>> /\ server = "forward"
        /\ toClient' = toClient \o <<Raw(remote + 1)>>
    BY <1>11 DEF RemoteWrites, ServerSends, clientVars
  <2>2. Raw(remote + 1) \in Messages /\ Raw(remote + 1).type \in Late
    BY Kinds, BoundAssumption DEF TypeOK, Late
  <2> QED BY <1>0, <2>1, <2>2, AnswersTold
<1> QED
  BY <1>1, <1>2, <1>3, <1>4, <1>5, <1>6, <1>7, <1>8, <1>9, <1>10, <1>11
  DEF Next, ClientReads, ServerReads

\* What each side wrote comes to the other, in order and from the start, with
\* nothing among it but what is named.
THEOREM AlwaysTunnelled == Spec => []Tunnelled
<1> DEFINE Inv == Sides /\ Upward /\ Downward /\ Replies /\ Logins /\ Answers
<1>1. Init => Inv
  <2> SUFFICES ASSUME Init PROVE Inv
    OBVIOUS
  <2>1. /\ ~Has(<<Msg("Hash")>>, "raw") /\ ~Has(<<Msg("Hash")>>, "PeerInfo")
        /\ ~Has(<<Msg("Hash")>>, "TestDelay") /\ ~IsRaw(Msg("Hash")) /\ Msg("Hash") \in Messages
    BY Kinds, HasOne DEF IsRaw
  <2>2. Len(<<>>) = 0 /\ Len(<<Msg("Hash")>>) = 1 /\ 0 \in Nat
    OBVIOUS
  <2>3. Sides
    BY <2>1, HasNone DEF Init, Sides, ClientSide, ServerSide
  <2>4. Carries(<<>>, 0, 0) /\ Carries(<<Msg("Hash")>>, 0, 0)
    BY <2>1, <2>2, CarriesOne
  <2>5. local = 0 /\ remote = 0 /\ Len(buffer) = 0 /\ 0 \in 0 .. 0 - 0 /\ 0 \in 0 .. 0
    BY <2>2 DEF Init
  <2>6. Upward
    BY <2>4, <2>5 DEF Init, Upward
  <2>7. Downward
    BY <2>4, <2>5 DEF Init, Downward
  <2>8. \A type : Once(<<>>, type) /\ Once(<<Msg("Hash")>>, type)
    BY <2>2 DEF Once
  <2>9. Replies
    BY <2>1, <2>8, HasNone DEF Init, Replies
  <2>10. Logins
    BY <2>8, HasNone, OnlyNone DEF Init, Logins
  <2>11. After(<<Msg("Hash")>>, Late)
    BY <2>2 DEF After
  <2>12. Answers
    BY <2>11, OnlyNone DEF Init, Answers
  <2> QED BY <2>3, <2>6, <2>7, <2>9, <2>10, <2>12
<1>2. TypeOK /\ Inv /\ [Next]_vars => Inv'
  BY SidesStep, UpwardStep, DownwardStep, RepliesStep, LoginsStep, AnswersStep
<1>3. TypeOK /\ Inv => Tunnelled
  <2> SUFFICES ASSUME TypeOK, Inv PROVE Tunnelled
    OBVIOUS
  <2>0. /\ local \in Nat /\ local <= MaxPieces /\ remote \in Nat /\ remote <= MaxPieces
        /\ MaxPieces \in Nat /\ Len(buffer) \in Nat
    BY BoundAssumption DEF TypeOK
  <2>1. InOrder(served)
    <3>1. PICK a \in 0 .. local - Len(buffer) : Carries(served, 0, a)
      BY DEF Upward
    <3>2. a \in 0 .. MaxPieces
      BY <2>0, <3>1
    <3> QED BY <3>1, <3>2 DEF InOrder
  <2>2. InOrder(shown)
    <3>1. PICK a \in 0 .. remote : Carries(shown, 0, a)
      BY DEF Downward
    <3>2. a \in 0 .. MaxPieces
      BY <2>0, <3>1
    <3> QED BY <3>1, <3>2 DEF InOrder
  <2>3. DOMAIN served = 1 .. Len(served) /\ DOMAIN shown = 1 .. Len(shown)
    BY DEF TypeOK
  <2>4. ASSUME NEW m \in Strays(served)
        PROVE  \/ m.type = "TestDelay" /\ testing /\ abrupt
               \/ m.type = "Login" /\ typed > 0
    <3>1. PICK i \in 1 .. Len(served) : m = served[i] /\ ~IsRaw(served[i])
      BY <2>3 DEF Strays, ToSet
    <3>2. m.type \in {"Login", "TestDelay"}
      BY <3>1 DEF Logins, Only, IsRaw
    <3>3. Has(served, m.type)
      BY <3>1 DEF Has
    <3>4. CASE m.type = "TestDelay"
      <4>1. Has(served, "TestDelay")
        BY <3>3, <3>4
      <4>2. testing /\ abrupt
        BY <4>1, Zenon DEF Replies
      <4> QED BY <3>4, <4>2
    <3>5. CASE m.type = "Login"
      <4>1. typed # 0 /\ typed \in Nat
        BY <3>3, <3>5, BoundAssumption DEF Logins, TypeOK
      <4> QED BY <3>5, <4>1
    <3> QED BY <3>2, <3>4, <3>5
  <2>5. ASSUME NEW m \in Strays(shown)
        PROVE  waited /\ m.type = "Notice"
    <3>1. PICK i \in 1 .. Len(shown) : m = shown[i] /\ ~IsRaw(shown[i])
      BY <2>3 DEF Strays, ToSet
    <3> QED BY <3>1 DEF Answers, Only, IsRaw, Late
  <2> QED BY <2>1, <2>2, <2>4, <2>5 DEF Tunnelled
<1> QED BY <1>1, <1>2, <1>3, TypeCorrect, PTL DEF Spec
=============================================================================
