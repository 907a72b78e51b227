----------------------------- MODULE PortForward -----------------------------
(***************************************************************************)
(* One connection of a port forwarding window (src/port_forward.rs) and    *)
(* the connection at the other end (server/connection.rs): first a login,  *)
(* in messages, then set_raw at both ends, from where on the same stream   *)
(* carries nothing but the bytes of a program at the client and a service  *)
(* at the server.  Each end changes over on its own: the client when it    *)
(* reads the PeerInfo, the server when it leaves its loop.                 *)
(*                                                                         *)
(* The wires are sequences of messages, among them pieces of bytes, "raw". *)
(* What an end that changed over reads is passed on whatever it is; a      *)
(* piece that comes to an end that did not would be taken for the head of  *)
(* a message.  A program's pieces are numbered from 1.                     *)
(*                                                                         *)
(* How a login is decided is fixed for the connection: by password, the one *)
(* that is valid or that of a recent session, or by a click in the         *)
(* connection manager only.  Two-factor codes, and the limit of wrong      *)
(* passwords, are left out.                                                *)
(*                                                                         *)
(* History variables: `abrupt', the server left its loop without the check *)
(* for an outstanding reply; `waited', it stayed after the PeerInfo.       *)
(*                                                                         *)
(* A definition whose name starts with Bug_ is no part of the model: it is *)
(* the definition that follows it with a plausible mistake, kept to show   *)
(* which property finds that mistake.                                      *)
(***************************************************************************)
EXTENDS Integers, Sequences, SequencesExt

CONSTANTS MaxPieces,   \* bound: pieces written by the program, by the service
          MaxTests,    \* bound: TestDelay messages
          MaxTyped,    \* bound: passwords typed
          MaxNotices   \* bound: messages of the connection manager

ASSUME BoundAssumption == /\ MaxPieces \in Nat /\ MaxTests \in Nat
                          /\ MaxTyped \in Nat /\ MaxNotices \in Nat

VARIABLES
    client, buffer,             \* connect_and_login, then run_forward
    server, authorized, testing,  \* testing: last_test_delay is some
    socket,                     \* port_forward_socket is some
    asked,                      \* the connection manager shows the request
    toServer, toClient,
    shown, served,              \* what the program and the service have read
    approve,                    \* how logins are decided
    local, remote, tests, typed, notices,   \* counters of the bounds
    abrupt, waited              \* history, see above

clientVars == <<client, buffer, shown, local, typed>>
serverVars == <<server, authorized, testing, socket, asked, served, remote, tests,
                notices, approve, abrupt, waited>>
vars == <<clientVars, serverVars, toServer, toClient>>

Passwords == {"empty", "right", "wrong"}
Errors == {"PasswordWrong", "NoPasswordAccess", "Refused"}
Messages == [type : {"Hash", "TestDelay", "PeerInfo", "Notice"} \cup Errors]
            \cup [type : {"Login"}, password : Passwords]
            \cup [type : {"raw"}, piece : Nat]

Msg(type) == [type |-> type]
Login(password) == [type |-> "Login", password |-> password]
Raw(piece) == [type |-> "raw", piece |-> piece]
AllRaw(pieces) == [i \in DOMAIN pieces |-> Raw(pieces[i])]

TypeOK == /\ client \in {"login", "forward", "closed"}
          /\ server \in {"loop", "forward", "closed"}
          /\ authorized \in BOOLEAN /\ testing \in BOOLEAN /\ socket \in BOOLEAN
          /\ asked \in BOOLEAN /\ abrupt \in BOOLEAN /\ waited \in BOOLEAN
          /\ buffer \in Seq(Nat)
          /\ toServer \in Seq(Messages) /\ toClient \in Seq(Messages)
          /\ shown \in Seq(Messages) /\ served \in Seq(Messages)
          /\ approve \in {"password", "click"}
          /\ local \in 0 .. MaxPieces /\ remote \in 0 .. MaxPieces
          /\ tests \in 0 .. MaxTests /\ typed \in 0 .. MaxTyped
          /\ notices \in 0 .. MaxNotices

\* on_open has sent the Hash.
Init == /\ client = "login" /\ server = "loop"
        /\ authorized = FALSE /\ testing = FALSE
        /\ socket = FALSE /\ asked = FALSE
        /\ buffer = <<>> /\ shown = <<>> /\ served = <<>>
        /\ toServer = <<>> /\ toClient = <<Msg("Hash")>>
        /\ approve \in {"password", "click"}
        /\ local = 0 /\ remote = 0 /\ tests = 0 /\ typed = 0 /\ notices = 0
        /\ abrupt = FALSE /\ waited = FALSE

-----------------------------------------------------------------------------
(* The client.  Its stream has no send timeout.                            *)

ClientGets(type) == /\ client = "login" /\ toClient # <<>>
                    /\ Head(toClient).type = type
                    /\ toClient' = Tail(toClient)
ClientSends(m) == toServer' = Append(toServer, m)

\* handle_hash: a password it knows, or none: the other side may accept.
OnHash(password) ==
    /\ ClientGets("Hash")
    /\ ClientSends(Login(password))
    /\ UNCHANGED <<clientVars, serverVars>>

\* handle_login_error and what else needs no reply.
OnNotice ==
    /\ \E type \in {"Notice", "NoPasswordAccess", "PasswordWrong"} : ClientGets(type)
    /\ UNCHANGED <<clientVars, serverVars, toServer>>

OnRefused ==
    /\ ClientGets("Refused")
    /\ client' = "closed"
    /\ UNCHANGED <<buffer, shown, local, typed, serverVars, toServer>>

OnTestDelay ==
    /\ ClientGets("TestDelay")
    /\ ClientSends(Msg("TestDelay"))
    /\ UNCHANGED <<clientVars, serverVars>>

\* handle_peer_info, set_raw, and the bytes that came in the meantime.
OnPeerInfo ==
    /\ ClientGets("PeerInfo")
    /\ client' = "forward"
    /\ toServer' = toServer \o AllRaw(buffer)
    /\ buffer' = <<>>
    /\ UNCHANGED <<shown, local, typed, serverVars>>

\* Data::Login: the user typed a password, here or for another port: each port
\* of the window gets it (ui_session_interface.rs).
HandleLoginFromUi(password) ==
    /\ client = "login" /\ typed < MaxTyped
    /\ typed' = typed + 1
    /\ ClientSends(Login(password))
    /\ UNCHANGED <<client, buffer, shown, local, serverVars, toClient>>

\* forward.next(): the program has written.
Bug_LocalWritesAtOnce ==
    /\ client # "closed" /\ local < MaxPieces
    /\ local' = local + 1
    /\ ClientSends(Raw(local + 1))
    /\ UNCHANGED <<client, buffer, shown, typed, serverVars, toClient>>

LocalWrites ==
    /\ client # "closed" /\ local < MaxPieces
    /\ local' = local + 1
    /\ IF client = "login"
       THEN buffer' = Append(buffer, local + 1) /\ UNCHANGED toServer
       ELSE ClientSends(Raw(local + 1)) /\ UNCHANGED buffer
    /\ UNCHANGED <<client, shown, typed, serverVars, toClient>>

\* stream.next() of run_forward.
LocalReads ==
    /\ client = "forward" /\ toClient # <<>>
    /\ shown' = Append(shown, Head(toClient))
    /\ toClient' = Tail(toClient)
    /\ UNCHANGED <<client, buffer, local, typed, serverVars, toServer>>

\* The program closes, the server is gone, or nothing came for 18 seconds.
ClientCloses ==
    /\ client # "closed"
    /\ client' = "closed"
    /\ UNCHANGED <<buffer, shown, local, typed, serverVars, toServer, toClient>>

-----------------------------------------------------------------------------
(* The server: its loop.                                                   *)

ServerSends(ms) == toClient' = toClient \o ms
ServerTakes == /\ server = "loop" /\ toServer # <<>>
               /\ toServer' = Tail(toServer)

\* What follows the loop: try_port_forward_loop, when there is a socket.
LeaveLoop(s) == server' = IF s THEN "forward" ELSE "closed"

\* After a message: the change is put off while a TestDelay is unanswered.
Bug_AfterMessageAtOnce(s, a, t) ==
    server' = IF s /\ a THEN "forward" ELSE "loop"
Bug_AfterMessageOnlyLogin(s, a, t) ==
    server' = IF s /\ a /\ ~testing /\ ~t THEN "forward" ELSE "loop"
AfterMessage(s, a, t) ==
    server' = IF s /\ a /\ ~t THEN "forward" ELSE "loop"

\* send_logon_response of a port forwarding connection.
Logon == /\ ServerSends(IF authorized THEN <<>> ELSE <<Msg("PeerInfo")>>)
         /\ authorized' = TRUE

Accepts(password) == approve = "password" /\ password = "right"

\* The answer to a login that is not accepted, which the manager may do.
Denial(password) ==
    IF approve = "click" THEN <<Msg("NoPasswordAccess")>>
    ELSE IF password = "empty" THEN <<>> ELSE <<Msg("PasswordWrong")>>

\* A login: the socket is made before the password is looked at.
OnLogin(password) ==
    /\ ServerTakes /\ Head(toServer) = Login(password)
    /\ ~authorized
    /\ socket' = TRUE
    /\ asked' = TRUE
    /\ IF Accepts(password) THEN Logon
       ELSE ServerSends(Denial(password)) /\ UNCHANGED authorized
    /\ AfterMessage(TRUE, authorized', testing)
    /\ waited' = (waited \/ (authorized' /\ testing))
    /\ UNCHANGED <<clientVars, testing, served, remote, tests, notices, approve, abrupt>>

OnLoginAgain ==
    /\ ServerTakes /\ Head(toServer).type = "Login"
    /\ authorized
    /\ AfterMessage(socket, TRUE, testing)
    /\ UNCHANGED <<clientVars, authorized, testing, socket, asked, served, remote, tests,
                   notices, approve, abrupt, waited, toClient>>

\* Tunnels are not allowed, or the service cannot be reached.
OnLoginRefused ==
    /\ ServerTakes /\ Head(toServer).type = "Login"
    /\ ~authorized
    /\ ServerSends(<<Msg("Refused")>>)
    /\ LeaveLoop(socket)
    /\ abrupt' = TRUE
    /\ UNCHANGED <<clientVars, authorized, testing, socket, asked, served, remote, tests,
                   notices, approve, waited>>

\* The reply to the TestDelay.
OnTestDelayReply ==
    /\ ServerTakes /\ Head(toServer).type = "TestDelay"
    /\ testing' = FALSE
    /\ AfterMessage(socket, authorized, FALSE)
    /\ UNCHANGED <<clientVars, authorized, socket, asked, served, remote, tests, notices,
                   approve, abrupt, waited, toClient>>

TestDelayTimer ==
    /\ server = "loop" /\ tests < MaxTests
    /\ ~testing /\ ~(socket /\ authorized)
    /\ testing' = TRUE
    /\ tests' = tests + 1
    /\ ServerSends(<<Msg("TestDelay")>>)
    /\ UNCHANGED <<clientVars, server, authorized, socket, asked, served, remote, notices,
                   approve, abrupt, waited, toServer>>

\* ipc::Data::Authorize: no look at the TestDelay.
Authorize ==
    /\ server = "loop" /\ asked
    /\ Logon
    /\ LeaveLoop(socket)
    /\ abrupt' = TRUE
    /\ UNCHANGED <<clientVars, testing, socket, asked, served, remote, tests, notices,
                   approve, waited, toServer>>

\* Another message the manager has sent: a permission, a text.
ManagerNotice ==
    /\ server = "loop" /\ asked /\ notices < MaxNotices
    /\ notices' = notices + 1
    /\ ServerSends(<<Msg("Notice")>>)
    /\ UNCHANGED <<clientVars, server, authorized, testing, socket, asked, served, remote,
                   tests, approve, abrupt, waited, toServer>>

\* ipc::Data::Close in the loop: the client is told; the socket is dropped.
ManagerCloses ==
    /\ server = "loop" /\ asked
    /\ ServerSends(<<Msg("Notice")>>)
    /\ socket' = FALSE
    /\ server' = "closed"
    /\ UNCHANGED <<clientVars, authorized, testing, asked, served, remote, tests, notices,
                   approve, abrupt, waited, toServer>>

-----------------------------------------------------------------------------
(* The server: try_port_forward_loop.                                      *)

\* stream.next().
RemoteReads ==
    /\ server = "forward" /\ toServer # <<>>
    /\ served' = Append(served, Head(toServer))
    /\ toServer' = Tail(toServer)
    /\ UNCHANGED <<clientVars, server, authorized, testing, socket, asked, remote, tests,
                   notices, approve, abrupt, waited, toClient>>

\* forward.next(): the service has written.
RemoteWrites ==
    /\ server = "forward" /\ remote < MaxPieces
    /\ remote' = remote + 1
    /\ ServerSends(<<Raw(remote + 1)>>)
    /\ UNCHANGED <<clientVars, server, authorized, testing, socket, asked, served, tests,
                   notices, approve, abrupt, waited, toServer>>

\* The service closes, the client is gone, a timeout, a send that failed.
ServerCloses ==
    /\ server # "closed"
    /\ server' = "closed"
    /\ socket' = FALSE
    /\ UNCHANGED <<clientVars, authorized, testing, asked, served, remote, tests, notices,
                   approve, abrupt, waited, toServer, toClient>>

-----------------------------------------------------------------------------
ClientReads == \/ \E password \in Passwords : OnHash(password)
               \/ OnNotice \/ OnRefused \/ OnTestDelay \/ OnPeerInfo
               \/ LocalReads

ServerReads == \/ \E password \in Passwords : OnLogin(password)
               \/ OnLoginAgain \/ OnLoginRefused \/ OnTestDelayReply
               \/ RemoteReads

Next == \/ ClientReads
        \/ \E password \in Passwords \ {"empty"} : HandleLoginFromUi(password)
        \/ LocalWrites \/ ClientCloses
        \/ ServerReads
        \/ TestDelayTimer \/ Authorize \/ ManagerNotice \/ ManagerCloses
        \/ RemoteWrites \/ ServerCloses

Spec == Init /\ [][Next]_vars

\* Both ends read what comes, as tasks of the runtime that are ready.
FairSpec == Spec /\ WF_vars(ClientReads) /\ WF_vars(ServerReads)

-----------------------------------------------------------------------------
(* Properties.                                                             *)

IsRaw(m) == m.type = "raw"
\* The pieces on a wire are those after a up to b, in their order.
Carries(wire, a, b) ==
    /\ \A i \in 1 .. Len(wire) : IsRaw(wire[i]) => wire[i].piece \in a + 1 .. b
    /\ \A i, j \in 1 .. Len(wire) :
          i < j /\ IsRaw(wire[i]) /\ IsRaw(wire[j]) => wire[i].piece < wire[j].piece
    /\ \A p \in a + 1 .. b : \E i \in 1 .. Len(wire) : wire[i] = Raw(p)
InOrder(wire) == \E n \in 0 .. MaxPieces : Carries(wire, 0, n)
Strays(wire) == {m \in ToSet(wire) : ~IsRaw(m)}

\* connection.rs: "Avoid TestDelay reply injection into rdp data stream".  Each
\* side gets what the other wrote, all of it from the first byte on, what was
\* written during the login too.  A message gets among it at the service only as
\* the reply the server left its loop without, and as a password typed meanwhile;
\* at the program only as one of the manager's, from a server that stays for the
\* reply after the PeerInfo.
Tunnelled ==
    /\ InOrder(served) /\ InOrder(shown)
    /\ \A m \in Strays(served) :
          \/ m.type = "TestDelay" /\ testing /\ abrupt
          \/ m.type = "Login" /\ typed > 0
    /\ \A m \in Strays(shown) : waited /\ m.type = "Notice"

\* No end that still reads messages is sent pieces.
Understood ==
    /\ server = "loop" /\ toServer # <<>> => ~IsRaw(Head(toServer))
    /\ client = "login" /\ toClient # <<>> => ~IsRaw(Head(toClient))

\* Once the login is accepted, what either side writes arrives, unless an end
\* closes: in particular, the reply the server stays for comes.
Carried ==
    LET Closed == client = "closed" \/ server = "closed"
    IN  \A k \in 1 .. MaxPieces :
            /\ (authorized /\ local >= k) ~> (Raw(k) \in ToSet(served) \/ Closed)
            /\ remote >= k ~> (Raw(k) \in ToSet(shown) \/ Closed)

\* The comment quoted above, taken at its word.
NoReplyInData == \A m \in ToSet(served) : m.type # "TestDelay"
=============================================================================
