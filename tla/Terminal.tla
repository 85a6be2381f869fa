------------------------------- MODULE Terminal -------------------------------
(***************************************************************************)
(* Who reads and who types on the serial line: the WebSocket client table  *)
(* of main/web_server.c over the session table of auth.c and the sockets   *)
(* of esp_http_server.                                                     *)
(*                                                                         *)
(* All of it runs on the httpd task, so a handler, a close callback or a   *)
(* flush of the ring is one step.  What is hard is their order: sessions   *)
(* end by logout, password change, idling or eviction while sockets stay   *)
(* open, socket numbers are reused, and the push path looks at a session   *)
(* at most once a second.  A flush finds in the ring some chunks, of which *)
(* only the ports matter here; module WsTxRing says how they got there.    *)
(* Failed logins touch nothing that is read here and stay in module Auth.  *)
(***************************************************************************)
EXTENDS Auth

CONSTANTS
    Fds,       \* the sockets of the server (max_open_sockets is 4)
    NClients,  \* MAX_WS_CLIENTS (4)
    Ports,     \* the serial ports, from 0
    Recheck,   \* WS_AUTH_RECHECK_US, in ticks
    MaxConns   \* bound: connections accepted

ASSUME ClientsAssumption == NClients \in Nat \ {0} /\ MaxConns \in Nat
ASSUME PortsAssumption == 0 \in Ports
ASSUME RecheckAssumption == Recheck \in Nat

VARIABLES
    inited,   \* config.auth_initialized: the default password was replaced
    sock,     \* per socket, its connection (0: closed), and whether upgraded
    conns,    \* connections accepted so far
    clients,  \* s_ws_clients; conn is history: the connection it registered
    pushed,   \* history: the tokens of the clients the last step sent data to
    relayed,  \* history: the tokens of the clients whose data it took
    died,     \* history: when each token stopped being valid (0: it has not)
    barred    \* history: the last token issued before the password change

wsVars == <<inited, sock, conns, clients>>
traceVars == <<pushed, relayed>>
vars == <<authVars, wsVars, traceVars, died, barred>>

Open(fd) == sock[fd].conn # 0
Upgraded(fd) == Open(fd) /\ sock[fd].ws

Closed == [conn |-> 0, ws |-> FALSE]

\* A free entry: what an inactive one still holds is never read.
NoFd == 0
NoClient == [active |-> FALSE, fd |-> NoFd, port |-> 0, token |-> NoToken,
             checked |-> 0, conn |-> 0]

\* Some socket on which an HTTP request can arrive.
Reachable == \E fd \in Fds : Open(fd) /\ ~sock[fd].ws

ActiveClients == {i \in 1..NClients : clients[i].active}
ClientsOn(fd) == {i \in 1..NClients : clients[i].active /\ clients[i].fd = fd}
Inactive(S) == [i \in 1..NClients |-> IF i \in S THEN NoClient ELSE clients[i]]

\* ws_remove_client: the first active entry with this socket number.
Removed(fd) == Inactive(IF ClientsOn(fd) = {} THEN {} ELSE {Min(ClientsOn(fd))})

\* Bookkeeping of the histories: every step says what it sent and took.
Trace(out, in) == pushed' = out /\ relayed' = in
Bury ==
    died' = [tok \in Tokens |->
                IF died[tok] = 0 /\ tok <= issued' /\ ~Valid(tok)' THEN clock'
                ELSE died[tok]]
Quiet == Trace({}, {}) /\ Bury /\ UNCHANGED barred

-------------------------------------------------------------------------------
Init ==
    /\ AuthInit
    /\ inited \in BOOLEAN
    /\ sock = [fd \in Fds |-> Closed]
    /\ conns = 0
    /\ clients = [i \in 1..NClients |-> NoClient]
    /\ pushed = {} /\ relayed = {}
    /\ died = [tok \in Tokens |-> 0]
    /\ barred = 0

-------------------------------------------------------------------------------
(* Sockets.                                                                *)

Accept(fd) ==
    /\ ~Open(fd)
    /\ conns < MaxConns
    /\ conns' = conns + 1
    /\ sock' = [sock EXCEPT ![fd] = [conn |-> conns + 1, ws |-> FALSE]]
    /\ UNCHANGED <<authVars, inited, clients>>
    /\ Quiet

CloseConn_KeepsClient(fd) ==
    /\ Open(fd)
    /\ sock' = [sock EXCEPT ![fd] = Closed]
    /\ UNCHANGED <<authVars, inited, conns, clients>>
    /\ Quiet

(* The peer goes away, or httpd purges its least recently used socket to   *)
(* make room: either way on_close runs.                                    *)
CloseConn(fd) ==
    /\ Open(fd)
    /\ sock' = [sock EXCEPT ![fd] = Closed]
    /\ clients' = Removed(fd)
    /\ UNCHANGED <<authVars, inited, conns>>
    /\ Quiet

-------------------------------------------------------------------------------
(* HTTP requests.                                                          *)

Login(a) ==
    /\ Reachable
    /\ LoginOk(a)
    /\ UNCHANGED wsVars
    /\ Quiet

ApiRequest(tok) ==
    /\ Reachable
    /\ Request(tok)
    /\ UNCHANGED wsVars
    /\ Quiet

ApiLogout(tok) ==
    /\ Reachable
    /\ Logout(tok)
    /\ UNCHANGED wsVars
    /\ Quiet

ApiPassword_LeavesSockets(tok) ==
    /\ Reachable
    /\ ChangePassword(tok)
    /\ inited' = TRUE
    /\ barred' = issued
    /\ Trace({}, {})
    /\ UNCHANGED <<sock, conns, clients>>
    /\ Bury

(* handle_config_post with a new password: every session is invalidated    *)
(* and every client evicted; their sockets stay open until the peer, or    *)
(* its next frame, closes them.                                            *)
ApiPassword(tok) ==
    /\ Reachable
    /\ ChangePassword(tok)
    /\ inited' = TRUE
    /\ clients' = Inactive(1..NClients)
    /\ barred' = issued
    /\ Trace({}, {})
    /\ UNCHANGED <<sock, conns>>
    /\ Bury

PortOf_Unchecked(p) == p

\* The port the query names, or port 0 if there is no such port.
PortOf(p) == IF p \in Ports THEN p ELSE 0

(* handle_ws on the handshake.  The cookie's token is looked at first, the *)
(* query's only if that one is not valid; the session slides even if the   *)
(* handshake is then refused, and a refused handshake closes the socket.   *)
Handshake(fd, cookie, query, port) ==
    LET tok  == IF Valid(cookie) THEN cookie
                ELSE IF Valid(query) THEN query ELSE NoToken
        free == {i \in 1..NClients : ~clients[i].active}
        accept == tok # NoToken /\ inited /\ free # {}
    IN
    /\ Open(fd) /\ ~sock[fd].ws
    /\ sessions' = Validated(sessions,
                             IF Valid(cookie) THEN {cookie} ELSE {cookie, query})
    /\ IF tok # NoToken THEN Use(tok) ELSE UNCHANGED used
    /\ \/ /\ accept
          /\ clients' = [clients EXCEPT ![Min(free)] =
                [active |-> TRUE, fd |-> fd, port |-> PortOf(port), token |-> tok,
                 checked |-> clock, conn |-> sock[fd].conn]]
          /\ sock' = [sock EXCEPT ![fd].ws = TRUE]
       \/ /\ ~accept
          /\ sock' = [sock EXCEPT ![fd] = Closed]
          /\ clients' = Removed(fd)
    /\ UNCHANGED <<clock, issued, hostVars, inited, conns>>
    /\ Quiet

-------------------------------------------------------------------------------
(* WebSocket frames.                                                       *)

Inbound_Unchecked(fd, kind) ==
    /\ Upgraded(fd)
    /\ kind = "data"
    /\ ClientsOn(fd) # {}
    /\ Trace({}, {clients[Min(ClientsOn(fd))].token})
    /\ UNCHANGED <<authVars, wsVars, barred>>
    /\ Bury

(* handle_ws on a frame.  ws_touch_client looks the session up, without a  *)
(* throttle: a dead one evicts the client, and the socket is closed.  A    *)
(* live one slides, and then a data frame goes to the serial port, an      *)
(* empty one does nothing, a close frame drops the client but not yet the  *)
(* socket, and an oversized or failed one drops both.                      *)
Inbound(fd, kind) ==
    LET known == ClientsOn(fd) # {}
        tok   == clients[Min(ClientsOn(fd))].token
    IN
    /\ Upgraded(fd)
    /\ sessions' = IF known THEN Validated(sessions, {tok}) ELSE sessions
    /\ IF known THEN Use(tok) ELSE UNCHANGED used
    /\ IF known /\ Valid(tok)
       THEN /\ clients' = IF kind \in {"close", "bad"} THEN Removed(fd) ELSE clients
            /\ sock' = IF kind = "bad" THEN [sock EXCEPT ![fd] = Closed] ELSE sock
            /\ Trace({}, IF kind = "data" THEN {tok} ELSE {})
       ELSE /\ clients' = Removed(fd)
            /\ sock' = [sock EXCEPT ![fd] = Closed]
            /\ Trace({}, {})
    /\ UNCHANGED <<clock, issued, hostVars, inited, conns, barred>>
    /\ Bury

Due_Late(i) == clients[i].active /\ clock - clients[i].checked > Recheck

\* ws_revalidate_locked's throttle.
Due(i) == clients[i].active /\ clock - clients[i].checked >= Recheck

(* ws_flush_work: the clients that are due are looked up again, which      *)
(* slides their sessions or evicts them; then the chunks found go to the   *)
(* clients of their port (a text event to those of every port).  A send    *)
(* fails on a socket that is gone, and may fail on any; then the client is *)
(* dropped.                                                                *)
Flush(ports, bad) ==
    LET due  == {i \in 1..NClients : Due(i)}
        dead == {i \in due : ~Valid(clients[i].token)}
        to   == {i \in 1..NClients :
                    /\ clients[i].active /\ i \notin dead
                    /\ clients[i].port \in ports}
        lost == {i \in to : i \in bad \/ ~Open(clients[i].fd)}
    IN
    /\ sessions' = Validated(sessions, {clients[i].token : i \in due})
    /\ clients' = [i \in 1..NClients |->
           IF i \in dead \cup lost THEN NoClient
           ELSE IF i \in due THEN [clients[i] EXCEPT !.checked = clock]
           ELSE clients[i]]
    /\ Trace({clients[i].token : i \in to}, {})
    /\ UNCHANGED <<clock, issued, used, hostVars, inited, sock, conns, barred>>
    /\ Bury

TimePasses ==
    /\ Tick
    /\ UNCHANGED wsVars
    /\ Quiet

\* A query may name any port; one past the last stands for a wrong one.
Asked == Ports \cup {Max(Ports) + 1}

Requests ==
    \/ \E a \in Addrs : Login(a)
    \/ \E tok \in 1..issued : ApiRequest(tok) \/ ApiLogout(tok) \/ ApiPassword(tok)

Frames ==
    \/ \E fd \in Fds, cookie \in 0..issued, port \in Asked :
          \E query \in IF Valid(cookie) THEN {NoToken} ELSE 0..issued :
             Handshake(fd, cookie, query, port)
    \/ \E fd \in Fds, kind \in {"data", "empty", "close", "bad"} : Inbound(fd, kind)
    \/ \E ports \in SUBSET Ports, bad \in SUBSET ActiveClients : Flush(ports, bad)

Next ==
    \/ \E fd \in Fds : Accept(fd) \/ CloseConn(fd)
    \/ Requests
    \/ Frames
    \/ TimePasses

Spec == Init /\ [][Next]_vars

TypeOK ==
    /\ AuthTypeOK
    /\ inited \in BOOLEAN
    /\ sock \in [Fds -> [conn : 0..MaxConns, ws : BOOLEAN]]
    /\ conns \in 0..MaxConns
    /\ clients \in [1..NClients ->
                      [active : BOOLEAN, fd : Fds \cup {NoFd}, port : Ports,
                       token : 0..MaxLogins, checked : 0..MaxTime,
                       conn : 0..MaxConns]]
    /\ pushed \subseteq Tokens /\ relayed \subseteq Tokens
    /\ died \in [Tokens -> 0..MaxTime]
    /\ barred \in 0..MaxLogins

(* An active client is the very connection that authenticated: its socket  *)
(* is still open, upgraded, and not reused by another, and no socket has   *)
(* two clients.  Serial data never lands in someone else's connection, and *)
(* with as many entries as sockets the table cannot fill up with leftovers.*)
ClientOwnsSocket ==
    \A i \in 1..NClients : clients[i].active =>
        /\ Upgraded(clients[i].fd)
        /\ clients[i].conn = sock[clients[i].fd].conn
        /\ \A j \in 1..NClients :
              clients[j].active /\ clients[j].fd = clients[i].fd => j = i

(* However a session ended (logout, password change, idling, eviction by   *)
(* another login), its terminal gets no serial data once the recheck       *)
(* interval has passed.                                                    *)
RevokedWithinRecheck ==
    \A tok \in pushed : Valid(tok) \/ clock - died[tok] < Recheck

(* Keystrokes reach the serial port only under a session that is valid at  *)
(* that moment: what is typed has no such interval of grace.               *)
KeystrokesNeedSession == \A tok \in relayed : Valid(tok)

(* A password change takes effect at once in both directions: no data goes *)
(* to, or comes from, a client that authenticated before it; and before    *)
(* the first change there are no terminals at all.                         *)
PasswordCutsAll ==
    \A tok \in pushed \cup relayed : tok > barred /\ inited

(* README: a logout or an idle timeout "cuts the serial stream             *)
(* immediately".  Not what the code does: see RevokedWithinRecheck.        *)
RevocationImmediate == \A tok \in pushed : Valid(tok)
===============================================================================
