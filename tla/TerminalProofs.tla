---------------------------- MODULE TerminalProofs ----------------------------
(***************************************************************************)
(* Terminals, sockets and sessions: for any number of each, any ports and  *)
(* addresses, and any timeouts.  The session table is the one module       *)
(* AuthProofs knows; what comes here is what the client table makes of it. *)
(***************************************************************************)
EXTENDS Terminal, AuthProofs

Client == [active : BOOLEAN, fd : Fds \cup {NoFd}, port : Ports,
           token : 0..MaxLogins, checked : 0..MaxTime, conn : 0..MaxConns]

\* The tables of auth.c.  A flush slides sessions that nobody used, so nothing
\* is said here of when a client last did.
Tables ==
    ClockType /\ SessionType /\ SlotInv /\ UsedType /\ HostsOK(hosts, wrong)

ClientType == clients \in [1..NClients -> Client]
SockType ==
    /\ sock \in [Fds -> [conn : 0..MaxConns, ws : BOOLEAN]]
    /\ conns \in 0..MaxConns
MarkType ==
    /\ inited \in BOOLEAN
    /\ pushed \subseteq Tokens /\ relayed \subseteq Tokens
    /\ barred \in 0..issued

\* An active client has an upgraded socket to itself, by the connection that
\* registered it.
SocketInv ==
    \A i \in 1..NClients : clients[i].active =>
        /\ clients[i].fd \in Fds
        /\ sock[clients[i].fd].conn # 0 /\ sock[clients[i].fd].ws
        /\ clients[i].conn = sock[clients[i].fd].conn
        /\ \A j \in 1..NClients :
              clients[j].active /\ clients[j].fd = clients[i].fd => j = i

\* A token is dead from the moment it was buried.
DiedInv ==
    /\ died \in [Tokens -> 0..MaxTime]
    /\ \A tok \in Tokens :
          /\ died[tok] <= clock
          /\ died[tok] = 0 <=> tok > issued \/ Valid(tok)

\* No session from before the password change has come through it.
BarredInv == \A tok \in Tokens : tok <= barred => ~Valid(tok)

\* A client that was let in with this token and last checked then ...
Using(tok, at) ==
    \E i \in 1..NClients :
       clients[i].active /\ clients[i].token = tok /\ clients[i].checked = at

\* ... was let in after the password change, and its session was valid then.
Held(tok, at) ==
    /\ inited /\ tok \in Tokens /\ barred < tok /\ tok <= issued /\ at <= clock
    /\ Valid(tok) \/ at <= died[tok]

SessionInv ==
    \A tok \in 0..MaxLogins, at \in 0..MaxTime :
       Using(tok, at) => Held(tok, at)

\* What the last step sent and took.
TraceInv == RevokedWithinRecheck /\ KeystrokesNeedSession /\ PasswordCutsAll

Types == ClientType /\ SockType /\ MarkType
TermInv ==
    /\ Tables /\ Types /\ SocketInv /\ DiedInv /\ BarredInv /\ SessionInv
    /\ TraceInv

-------------------------------------------------------------------------------
(* What a step makes of the sessions                                       *)

\* The tables stay what they are, and no session comes back to life.
Moves ==
    /\ Tables' /\ issued <= issued' /\ clock <= clock'
    /\ \A tok \in Tokens : tok <= issued /\ Valid(tok)' => Valid(tok)

\* No session begins or ends.
SameValid == \A tok \in Tokens : Valid(tok)' <=> Valid(tok)

LEMMA Numbers ==
    ASSUME Tables
    PROVE  /\ clock \in Nat /\ clock <= MaxTime /\ clock # 0
           /\ issued \in Nat /\ issued <= MaxLogins
           /\ Tokens \subseteq Nat /\ 0 \notin Tokens
           /\ \A tok \in 1..issued : tok \in Tokens
           /\ MaxLogins \in Nat /\ MaxTime \in Nat
BY LimitsAssumption DEF Tables, ClockType, SessionType, Tokens

LEMMA StillMoves ==
    ASSUME Tables, UNCHANGED authVars
    PROVE  Moves /\ SameValid
<1>1. UNCHANGED <<clock, sessions, issued, hosts, wrong, used>>
  BY DEF authVars
<1>2. mono_now' = mono_now
  BY <1>1 DEF mono_now
<1>3. Tables'
  BY <1>1 DEF Tables, ClockType, SessionType, SlotInv, UsedType
<1>4. SameValid
  BY <1>1, <1>2 DEF SameValid, Valid, Live, Expired
<1>5. issued <= issued' /\ clock <= clock'
  BY <1>1, Numbers
<1> QED BY <1>3, <1>4, <1>5 DEF Moves, SameValid

\* Looking at some tokens slides or closes their sessions; those that are
\* closed were not valid any more.
LEMMA LookMoves ==
    ASSUME Tables, NEW toks, sessions' = Validated(sessions, toks), UsedType',
           UNCHANGED <<clock, issued, hosts, wrong>>
    PROVE  Moves /\ SameValid
<1>1. SessionType' /\ SlotInv' /\ SameValid
  BY ValidatedKeeps DEF Tables, SameValid
<1>2. Tables'
  BY <1>1 DEF Tables, ClockType
<1>3. issued <= issued' /\ clock <= clock'
  BY Numbers
<1> QED BY <1>1, <1>2, <1>3 DEF Moves, SameValid

LEMMA UseTyped ==
    ASSUME Tables, NEW tok, Use(tok)
    PROVE  UsedType'
<1>1. mono_now \in 0..MaxTime /\ used \in [Tokens -> 0..MaxTime]
  BY Clock DEF Tables, UsedType
<1>2. used' \in [Tokens -> 0..MaxTime]
  BY <1>1 DEF Use
<1> QED BY <1>2 DEF UsedType

LEMMA LoginMoves ==
    ASSUME Tables, NEW a \in Addrs, LoginOk(a)
    PROVE  Moves
<1>1. IssueToken /\ clock' = clock
  BY DEF LoginOk
<1>2. /\ SessionType' /\ SlotInv' /\ issued' = issued + 1
      /\ \A tok \in 1..issued : Valid(tok)' => Valid(tok)
  BY <1>1, IssueKeeps DEF Tables
<1>3. UsedType'
  <2>1. mono_now \in 0..MaxTime /\ used \in [Tokens -> 0..MaxTime]
    BY Clock DEF Tables, UsedType
  <2>2. used' \in [Tokens -> 0..MaxTime]
    BY <1>1, <2>1 DEF IssueToken
  <2> QED BY <2>2 DEF UsedType
<1>4. HostsOK(hosts', wrong')
  <2>1. AuthNext
    BY DEF AuthNext
  <2> QED BY <2>1, HostsStep DEF Tables
<1>5. Tables'
  BY <1>1, <1>2, <1>3, <1>4 DEF Tables, ClockType
<1>6. /\ issued <= issued' /\ clock <= clock'
      /\ \A tok \in Tokens : tok <= issued => tok \in 1..issued
  BY <1>1, <1>2, Numbers DEF Tokens
<1> QED BY <1>2, <1>5, <1>6 DEF Moves

LEMMA LogoutMoves ==
    ASSUME Tables, NEW tok, Logout(tok)
    PROVE  Moves
<1>1. sessions' = LoggedOut(sessions, tok)
      /\ UNCHANGED <<clock, issued, used, hosts, wrong>>
  BY DEF Logout, hostVars
<1>2. /\ SessionType' /\ SlotInv' /\ \A t \in Tokens : Valid(t)' => Valid(t)
  BY <1>1, LogoutKeeps DEF Tables
<1>3. Tables'
  BY <1>1, <1>2 DEF Tables, ClockType, UsedType
<1>4. issued <= issued' /\ clock <= clock'
  BY <1>1, Numbers
<1> QED BY <1>2, <1>3, <1>4 DEF Moves

LEMMA PasswordMoves ==
    ASSUME Tables, NEW tok, ChangePassword(tok)
    PROVE  Moves /\ \A t \in Tokens : ~Valid(t)'
<1>1. sessions' = NoneActive(sessions) /\ Use(tok)
      /\ UNCHANGED <<clock, issued, hosts, wrong>>
  BY DEF ChangePassword, hostVars
<1>2. /\ SessionType' /\ SlotInv' /\ \A t \in Tokens : ~Valid(t)'
  BY <1>1, NoneKeeps DEF Tables
<1>3. Tables'
  BY <1>1, <1>2, UseTyped DEF Tables, ClockType
<1>4. issued <= issued' /\ clock <= clock'
  BY <1>1, Numbers
<1> QED BY <1>2, <1>3, <1>4 DEF Moves

LEMMA TickMoves ==
    ASSUME Tables, Tick
    PROVE  Moves
<1>1. /\ clock' = clock + 1 /\ UNCHANGED <<issued, used, hosts, wrong>>
  BY DEF Tick, sessionVars, hostVars
<1>2. /\ ClockType' /\ SessionType' /\ SlotInv'
      /\ \A t \in Tokens : Valid(t)' => Valid(t)
  BY TickKeeps DEF Tables
<1>3. Tables'
  BY <1>1, <1>2 DEF Tables, UsedType
<1>4. issued <= issued' /\ clock <= clock'
  BY <1>1, Numbers
<1> QED BY <1>2, <1>3, <1>4 DEF Moves

\* What the histories make of it.
LEMMA DiedStep ==
    ASSUME Tables, DiedInv, Moves, Bury
    PROVE  /\ DiedInv'
           /\ \A tok \in Tokens :
                 /\ died[tok] # 0 => died'[tok] = died[tok]
                 /\ tok <= issued /\ Valid(tok) /\ ~Valid(tok)'
                       => died'[tok] = clock'
<1>1. Tables'
  BY DEF Moves
<1>2. /\ clock' \in Nat /\ clock' <= MaxTime /\ clock' # 0 /\ issued' \in Nat
      /\ clock \in Nat /\ issued \in Nat /\ clock <= clock' /\ MaxTime \in Nat
      /\ issued <= issued' /\ Tokens \subseteq Nat
  <2>1. /\ clock' \in Nat /\ clock' <= MaxTime /\ clock' # 0 /\ issued' \in Nat
    BY <1>1, LimitsAssumption DEF Tables, ClockType, SessionType
  <2> QED BY <2>1, Numbers DEF Moves
<1>3. ASSUME NEW tok \in Tokens
      PROVE  /\ died'[tok] \in 0..MaxTime /\ died'[tok] <= clock'
             /\ died'[tok] = 0 <=> tok > issued' \/ Valid(tok)'
             /\ died[tok] # 0 => died'[tok] = died[tok]
             /\ tok <= issued /\ Valid(tok) /\ ~Valid(tok)'
                   => died'[tok] = clock'
  <2>1. /\ died[tok] \in 0..MaxTime /\ died[tok] <= clock
        /\ died[tok] = 0 <=> tok > issued \/ Valid(tok)
    BY DEF DiedInv
  <2>2. died'[tok] = IF died[tok] = 0 /\ tok <= issued' /\ ~Valid(tok)'
                     THEN clock' ELSE died[tok]
    BY DEF Bury
  <2>3. tok <= issued /\ Valid(tok)' => Valid(tok)
    BY DEF Moves
  <2>4. tok \in Nat
    BY <1>2
  <2>5. CASE died[tok] = 0 /\ tok <= issued' /\ ~Valid(tok)'
    BY <1>2, <2>2, <2>4, <2>5
  <2>6. CASE ~(died[tok] = 0 /\ tok <= issued' /\ ~Valid(tok)')
    <3>1. died'[tok] = died[tok] /\ died[tok] <= clock'
      BY <1>2, <2>1, <2>2, <2>6
    <3> QED BY <1>2, <2>1, <2>3, <2>4, <2>6, <3>1
  <2> QED BY <2>5, <2>6
<1>4. died' \in [Tokens -> 0..MaxTime]
  BY <1>3 DEF Bury
<1>5. DiedInv'
  BY <1>3, <1>4 DEF DiedInv
<1> QED BY <1>3, <1>5

LEMMA HeldStays ==
    ASSUME Tables, DiedInv, Moves, Bury, barred' = barred, inited => inited'
    PROVE  \A tok \in 0..MaxLogins, at \in 0..MaxTime :
              Held(tok, at) => Held(tok, at)'
<1> SUFFICES ASSUME NEW tok \in 0..MaxLogins, NEW at \in 0..MaxTime,
                    Held(tok, at)
             PROVE  Held(tok, at)'
  OBVIOUS
<1>1. /\ tok \in Tokens /\ inited /\ barred < tok /\ tok <= issued
      /\ at <= clock /\ (Valid(tok) \/ at <= died[tok])
  BY DEF Held
<1>2. /\ clock \in Nat /\ clock' \in Nat /\ issued \in Nat /\ issued' \in Nat
      /\ clock <= clock' /\ issued <= issued' /\ at \in Nat /\ tok \in Nat
  BY LimitsAssumption
     DEF Moves, Tables, ClockType, SessionType
<1>3. tok <= issued' /\ at <= clock'
  BY <1>1, <1>2
<1>4. Valid(tok)' \/ at <= died'[tok]
  <2>1. /\ died[tok] # 0 => died'[tok] = died[tok]
        /\ tok <= issued /\ Valid(tok) /\ ~Valid(tok)' => died'[tok] = clock'
    BY <1>1, DiedStep
  <2>2. CASE Valid(tok)
    BY <1>1, <1>3, <2>1, <2>2
  <2>3. CASE ~Valid(tok)
    <3>1. died[tok] # 0
      <4>1. ~(tok > issued)
        BY <1>1, <1>2
      <4> QED BY <1>1, <2>3, <4>1 DEF DiedInv
    <3> QED BY <1>1, <2>1, <2>3, <3>1
  <2> QED BY <2>2, <2>3
<1> QED BY <1>1, <1>3, <1>4 DEF Held

\* Each client after the step was one before it, or is let in under a session
\* that held before it.
LEMMA SessionStep ==
    ASSUME Tables, DiedInv, SessionInv, Moves, Bury, barred' = barred,
           inited => inited',
           \A tok \in 0..MaxLogins, at \in 0..MaxTime :
              Using(tok, at)' => Using(tok, at) \/ Held(tok, at)
    PROVE  SessionInv'
BY HeldStays DEF SessionInv

LEMMA BarredStep ==
    ASSUME Tables, MarkType, BarredInv, Moves, barred' = barred
    PROVE  BarredInv'
<1>1. ASSUME NEW tok \in Tokens, tok <= barred PROVE ~Valid(tok)'
  <2>1. tok <= issued
    BY <1>1, Numbers DEF MarkType
  <2> QED BY <1>1, <2>1 DEF BarredInv, Moves
<1> QED BY <1>1 DEF BarredInv

-------------------------------------------------------------------------------
(* What a step makes of the clients                                        *)

LEMMA NoClientTyped == NoClient \in Client /\ NoClient.active = FALSE
<1>1. 0 \in 0..MaxLogins /\ 0 \in 0..MaxTime /\ 0 \in 0..MaxConns
  BY LimitsAssumption, ClientsAssumption
<1> QED BY <1>1, PortsAssumption DEF NoClient, Client, NoFd, NoToken

\* A client is dropped, kept, or kept and found valid again, and the sockets of
\* those that are kept stay as they are.
LEMMA KeptClients ==
    ASSUME ClientType, SocketInv, clock \in 0..MaxTime,
           clients' = [i \in 1..NClients |-> clients'[i]],
           \A i \in 1..NClients :
              clients'[i] \in {clients[i], NoClient,
                               [clients[i] EXCEPT !.checked = clock]},
           \A i \in 1..NClients : clients'[i].active =>
              sock'[clients[i].fd] = sock[clients[i].fd]
    PROVE  ClientType' /\ SocketInv'
<1>1. ASSUME NEW i \in 1..NClients
      PROVE  /\ clients'[i] \in Client
             /\ clients'[i].active =>
                   /\ clients[i].active /\ clients'[i].fd = clients[i].fd
                   /\ clients'[i].conn = clients[i].conn
  <2>1. clients[i] \in Client
    BY DEF ClientType
  <2>2. CASE clients'[i] = NoClient
    BY <2>2, NoClientTyped
  <2>3. CASE clients'[i] = clients[i]
    BY <2>1, <2>3
  <2>4. CASE clients'[i] = [clients[i] EXCEPT !.checked = clock]
    BY <2>1, <2>4 DEF Client
  <2> QED BY <2>2, <2>3, <2>4
<1>2. ClientType'
  BY <1>1 DEF ClientType
<1>3. SocketInv'
  BY <1>1 DEF SocketInv
<1> QED BY <1>2, <1>3

LEMMA KeptUse ==
    ASSUME \A i \in 1..NClients : clients'[i] \in {clients[i], NoClient}
    PROVE  \A tok \in 0..MaxLogins, at \in 0..MaxTime :
              Using(tok, at)' => Using(tok, at)
BY NoClientTyped DEF Using

\* A socket has one client at most, and that is the one that is removed.
LEMMA RemovedIs ==
    ASSUME SocketInv, NEW fd
    PROVE  /\ Removed(fd) = [i \in 1..NClients |-> Removed(fd)[i]]
           /\ \A i \in 1..NClients :
                 Removed(fd)[i] = IF i \in ClientsOn(fd) THEN NoClient
                                  ELSE clients[i]
           /\ ClientsOn(fd) # {} =>
                 /\ Min(ClientsOn(fd)) \in 1..NClients
                 /\ clients[Min(ClientsOn(fd))].active
                 /\ clients[Min(ClientsOn(fd))].fd = fd
<1>1. Removed(fd) = [i \in 1..NClients |-> Removed(fd)[i]]
  BY DEF Removed, Inactive
<1>2. CASE ClientsOn(fd) = {}
  BY <1>1, <1>2 DEF Removed, Inactive
<1>3. CASE ClientsOn(fd) # {}
  <2>1. ClientsOn(fd) \subseteq Nat
    BY DEF ClientsOn
  <2>2. Min(ClientsOn(fd)) \in ClientsOn(fd)
    BY <1>3, <2>1, Least
  <2>3. PICK m \in 1..NClients : m = Min(ClientsOn(fd))
    BY <2>2 DEF ClientsOn
  <2>4. clients[m].active /\ clients[m].fd = fd
    BY <2>2, <2>3 DEF ClientsOn
  <2>5. \A i \in 1..NClients : i \in ClientsOn(fd) <=> i = m
    BY <2>4 DEF ClientsOn, SocketInv
  <2>6. Removed(fd) = Inactive({m})
    BY <1>3, <2>3 DEF Removed
  <2>7. \A i \in 1..NClients :
           Removed(fd)[i] = IF i = m THEN NoClient ELSE clients[i]
    BY <2>6 DEF Inactive
  <2> QED BY <1>1, <2>3, <2>4, <2>5, <2>7
<1> QED BY <1>2, <1>3

\* A socket closes and its client goes.
LEMMA Dropped ==
    ASSUME ClientType, SocketInv, clock \in 0..MaxTime, NEW fd,
           clients' = Removed(fd),
           \A f \in Fds : f # fd => sock'[f] = sock[f]
    PROVE  /\ ClientType' /\ SocketInv'
           /\ \A tok \in 0..MaxLogins, at \in 0..MaxTime :
                 Using(tok, at)' => Using(tok, at)
<1>1. /\ clients' = [i \in 1..NClients |-> clients'[i]]
      /\ \A i \in 1..NClients :
            clients'[i] = IF i \in ClientsOn(fd) THEN NoClient ELSE clients[i]
  BY RemovedIs
<1>2. \A i \in 1..NClients : clients'[i] \in {clients[i], NoClient}
  BY <1>1
<1>3. ASSUME NEW i \in 1..NClients, clients'[i].active
      PROVE  sock'[clients[i].fd] = sock[clients[i].fd]
  <2>1. clients[i].active /\ i \notin ClientsOn(fd)
    BY <1>1, <1>3, NoClientTyped
  <2>2. clients[i].fd \in Fds /\ clients[i].fd # fd
    BY <2>1 DEF SocketInv, ClientsOn
  <2> QED BY <2>2
<1>4. ClientType' /\ SocketInv'
  BY <1>1, <1>2, <1>3, KeptClients
<1> QED BY <1>2, <1>4, KeptUse

LEMMA ClosedTyped ==
    ASSUME SockType, NEW fd \in Fds, sock' = [sock EXCEPT ![fd] = Closed],
           conns' = conns
    PROVE  SockType' /\ \A f \in Fds : f # fd => sock'[f] = sock[f]
<1>1. Closed \in [conn : 0..MaxConns, ws : BOOLEAN]
  BY ClientsAssumption DEF Closed
<1> QED BY <1>1 DEF SockType

\* The clients and the sockets are left alone.
LEMMA StillClients ==
    ASSUME Types, SocketInv, UNCHANGED <<sock, conns, clients>>
    PROVE  /\ ClientType' /\ SockType' /\ SocketInv'
           /\ \A tok \in 0..MaxLogins, at \in 0..MaxTime :
                 Using(tok, at)' => Using(tok, at)
BY DEF Types, ClientType, SockType, SocketInv, Using

-------------------------------------------------------------------------------
(* The steps                                                               *)

\* What is common to all of them: what is left to show is the new trace.
LEMMA AfterStep ==
    ASSUME TermInv, Moves, Bury, barred' = barred, inited' = inited,
           ClientType', SockType', SocketInv',
           \A tok \in 0..MaxLogins, at \in 0..MaxTime :
              Using(tok, at)' => Using(tok, at) \/ Held(tok, at),
           pushed' \subseteq Tokens, relayed' \subseteq Tokens, TraceInv'
    PROVE  TermInv'
<1>1. Tables' /\ DiedInv' /\ BarredInv' /\ SessionInv'
  BY DiedStep, BarredStep, SessionStep DEF TermInv, Types, Moves
<1>2. MarkType'
  <2>1. barred \in 0..issued /\ issued <= issued' /\ issued' \in Nat
        /\ issued \in Nat
    BY <1>1, Numbers DEF TermInv, Types, MarkType, Moves, Tables, SessionType
  <2>2. barred' \in 0..issued'
    BY <2>1
  <2> QED BY <2>2 DEF TermInv, Types, MarkType
<1> QED BY <1>1, <1>2 DEF TermInv, Types

LEMMA QuietStep ==
    ASSUME TermInv, Moves, Quiet, inited' = inited,
           ClientType', SockType', SocketInv',
           \A tok \in 0..MaxLogins, at \in 0..MaxTime :
              Using(tok, at)' => Using(tok, at) \/ Held(tok, at)
    PROVE  TermInv'
<1>1. pushed' = {} /\ relayed' = {} /\ Bury /\ barred' = barred
  BY DEF Quiet, Trace
<1>2. TraceInv'
  BY <1>1 DEF TraceInv, RevokedWithinRecheck, KeystrokesNeedSession,
              PasswordCutsAll
<1> QED BY <1>1, <1>2, AfterStep

LEMMA AcceptStep ==
    ASSUME TermInv, NEW fd \in Fds, Accept(fd)
    PROVE  TermInv'
<1>1. /\ ~Open(fd) /\ conns < MaxConns /\ conns' = conns + 1
      /\ sock' = [sock EXCEPT ![fd] = [conn |-> conns + 1, ws |-> FALSE]]
      /\ UNCHANGED authVars /\ inited' = inited /\ clients' = clients /\ Quiet
  BY DEF Accept
<1>2. Moves
  BY <1>1, StillMoves DEF TermInv
<1>3. SockType'
  <2>1. conns + 1 \in 0..MaxConns
    BY <1>1, ClientsAssumption DEF TermInv, Types, SockType
  <2> QED BY <1>1, <2>1 DEF TermInv, Types, SockType
<1>4. \A f \in Fds : f # fd => sock'[f] = sock[f]
  BY <1>1 DEF TermInv, Types, SockType
<1>5. ASSUME NEW i \in 1..NClients, clients[i].active
      PROVE  clients[i].fd \in Fds /\ clients[i].fd # fd
  BY <1>1, <1>5 DEF TermInv, SocketInv, Open
<1>6. SocketInv'
  <2>1. \A i \in 1..NClients : clients[i].active =>
           clients[i].fd \in Fds /\ sock'[clients[i].fd] = sock[clients[i].fd]
    BY <1>4, <1>5
  <2> QED BY <1>1, <2>1 DEF TermInv, SocketInv
<1>7. ClientType' /\ \A tok, at : Using(tok, at)' => Using(tok, at)
  BY <1>1 DEF TermInv, Types, ClientType, Using
<1> QED BY <1>1, <1>2, <1>3, <1>6, <1>7, QuietStep

LEMMA CloseStep ==
    ASSUME TermInv, NEW fd \in Fds, CloseConn(fd)
    PROVE  TermInv'
<1>1. /\ sock' = [sock EXCEPT ![fd] = Closed] /\ clients' = Removed(fd)
      /\ UNCHANGED authVars /\ inited' = inited /\ conns' = conns /\ Quiet
  BY DEF CloseConn
<1>2. Moves /\ clock \in 0..MaxTime
  BY <1>1, StillMoves, Numbers DEF TermInv
<1>3. SockType' /\ \A f \in Fds : f # fd => sock'[f] = sock[f]
  BY <1>1, ClosedTyped DEF TermInv, Types
<1>4. /\ ClientType' /\ SocketInv'
      /\ \A tok \in 0..MaxLogins, at \in 0..MaxTime :
            Using(tok, at)' => Using(tok, at)
  BY <1>1, <1>2, <1>3, Dropped DEF TermInv, Types
<1> QED BY <1>1, <1>2, <1>3, <1>4, QuietStep

\* A step of auth.c alone.
LEMMA AuthStep ==
    ASSUME TermInv, Moves, UNCHANGED wsVars, Quiet
    PROVE  TermInv'
<1>1. UNCHANGED <<inited, sock, conns, clients>>
  BY DEF wsVars
<1>2. /\ ClientType' /\ SockType' /\ SocketInv'
      /\ \A tok \in 0..MaxLogins, at \in 0..MaxTime :
            Using(tok, at)' => Using(tok, at)
  BY <1>1, StillClients DEF TermInv
<1> QED BY <1>1, <1>2, QuietStep

LEMMA PasswordStep ==
    ASSUME TermInv, NEW tok \in 1..issued, ApiPassword(tok)
    PROVE  TermInv'
<1>1. /\ ChangePassword(tok) /\ inited' = TRUE /\ barred' = issued
      /\ clients' = Inactive(1..NClients) /\ pushed' = {} /\ relayed' = {}
      /\ UNCHANGED <<sock, conns>> /\ Bury
  BY DEF ApiPassword, Trace
<1>2. Moves /\ (\A t \in Tokens : ~Valid(t)') /\ clock \in 0..MaxTime
      /\ issued' = issued
  BY <1>1, PasswordMoves, Numbers DEF TermInv, ChangePassword
<1>3. Tables' /\ DiedInv'
  BY <1>1, <1>2, DiedStep DEF TermInv, Moves
<1>4. BarredInv'
  BY <1>2 DEF BarredInv
<1>5. /\ clients' = [i \in 1..NClients |-> clients'[i]]
      /\ \A i \in 1..NClients : clients'[i] = NoClient
  BY <1>1 DEF Inactive
<1>6. ClientType' /\ SocketInv' /\ SockType'
  BY <1>1, <1>5, NoClientTyped
     DEF TermInv, Types, ClientType, SockType, SocketInv
<1>7. SessionInv'
  <2>1. \A t, at : ~Using(t, at)'
    BY <1>5, NoClientTyped DEF Using
  <2> QED BY <2>1 DEF SessionInv
<1>8. MarkType'
  BY <1>1, <1>2, Numbers DEF MarkType, TermInv
<1>9. TraceInv'
  BY <1>1 DEF TraceInv, RevokedWithinRecheck, KeystrokesNeedSession,
              PasswordCutsAll
<1> QED BY <1>3, <1>4, <1>6, <1>7, <1>8, <1>9 DEF TermInv, Types

\* The handshake lets a client in under a session valid at that moment.
LEMMA HandshakeStep ==
    ASSUME TermInv, NEW fd \in Fds, NEW cookie \in 0..issued,
           NEW query \in 0..issued, NEW port,
           Handshake(fd, cookie, query, port)
    PROVE  TermInv'
<1> DEFINE tok  == IF Valid(cookie) THEN cookie
                   ELSE IF Valid(query) THEN query ELSE NoToken
           free == {i \in 1..NClients : ~clients[i].active}
           asked == IF Valid(cookie) THEN {cookie} ELSE {cookie, query}
           new  == [active |-> TRUE, fd |-> fd, port |-> PortOf(port),
                    token |-> tok, checked |-> clock, conn |-> sock[fd].conn]
<1>1. /\ Open(fd) /\ ~sock[fd].ws /\ sessions' = Validated(sessions, asked)
      /\ IF tok # NoToken THEN Use(tok) ELSE UNCHANGED used
      /\ \/ /\ tok # NoToken /\ inited /\ free # {}
            /\ clients' = [clients EXCEPT ![Min(free)] = new]
            /\ sock' = [sock EXCEPT ![fd].ws = TRUE]
         \/ sock' = [sock EXCEPT ![fd] = Closed] /\ clients' = Removed(fd)
      /\ UNCHANGED <<clock, issued, hosts, wrong, inited, conns>> /\ Quiet
  BY DEF Handshake, hostVars
<1>2. /\ tok # NoToken => Valid(tok) /\ tok \in Tokens /\ tok <= issued
      /\ tok \in 0..MaxLogins
  <2>1. tok # NoToken => Valid(tok) /\ tok \in 0..issued
    OBVIOUS
  <2>2. tok \in 0..issued
    BY Numbers DEF TermInv, NoToken
  <2>3. issued \in Nat /\ MaxLogins \in Nat /\ issued <= MaxLogins
    BY Numbers DEF TermInv
  <2> HIDE DEF tok
  <2>4. tok \in Nat /\ tok <= issued /\ tok <= MaxLogins
    BY <2>2, <2>3
  <2> QED BY <2>1, <2>3, <2>4 DEF Tokens, NoToken
<1> HIDE DEF tok
<1>3. UsedType'
  <2>1. CASE tok # NoToken
    BY <1>1, <2>1, UseTyped DEF TermInv
  <2>2. CASE tok = NoToken
    BY <1>1, <2>2 DEF TermInv, Tables, UsedType
  <2> QED BY <2>1, <2>2
<1>4. Moves /\ clock \in 0..MaxTime
  <2> HIDE DEF asked
  <2> QED BY <1>1, <1>3, LookMoves, Numbers DEF TermInv
<1>5. CASE /\ tok # NoToken /\ inited /\ free # {}
           /\ clients' = [clients EXCEPT ![Min(free)] = new]
           /\ sock' = [sock EXCEPT ![fd].ws = TRUE]
  <2>1. PICK m \in 1..NClients : m = Min(free) /\ ~clients[m].active
    <3>1. free \subseteq Nat /\ free # {}
      BY <1>5
    <3>2. Min(free) \in free
      <4> HIDE DEF free
      <4> QED BY <3>1, Least
    <3> QED BY <3>2
  <2>2. PortOf(port) \in Ports
    BY PortsAssumption DEF PortOf
  <2>3. new \in Client
    BY <1>2, <1>4, <2>2 DEF Client, TermInv, Types, SockType
  <2>4. /\ new.active /\ new.fd = fd /\ new.conn = sock[fd].conn
        /\ new.token = tok /\ new.checked = clock
    OBVIOUS
  <2> HIDE DEF new
  <2>5. /\ clients'[m] = new
        /\ \A i \in 1..NClients : i # m => clients'[i] = clients[i]
    BY <1>5, <2>1 DEF TermInv, Types, ClientType
  <2>6. ClientType'
    BY <1>5, <2>3 DEF TermInv, Types, ClientType
  <2>7. /\ sock'[fd].ws /\ sock'[fd].conn = sock[fd].conn
        /\ \A f \in Fds : f # fd => sock'[f] = sock[f]
        /\ SockType'
    BY <1>1, <1>5 DEF TermInv, Types, SockType
  <2>8. SocketInv'
    <3> SUFFICES ASSUME NEW i \in 1..NClients, clients'[i].active
                 PROVE  /\ clients'[i].fd \in Fds
                        /\ sock'[clients'[i].fd].conn # 0
                        /\ sock'[clients'[i].fd].ws
                        /\ clients'[i].conn = sock'[clients'[i].fd].conn
                        /\ \A j \in 1..NClients :
                              clients'[j].active
                              /\ clients'[j].fd = clients'[i].fd => j = i
      BY DEF SocketInv
    <3>1. \A j \in 1..NClients : clients[j].active =>
             /\ clients[j].fd \in Fds /\ clients[j].fd # fd
             /\ sock'[clients[j].fd] = sock[clients[j].fd]
      BY <1>1, <2>7 DEF TermInv, SocketInv
    <3>2. CASE i = m
      <4>1. sock[fd].conn # 0
        BY <1>1 DEF Open
      <4> QED BY <2>4, <2>5, <2>7, <3>1, <3>2, <4>1
    <3>3. CASE i # m
      <4>1. /\ clients'[i] = clients[i] /\ clients[i].active
            /\ clients[i].fd # fd
        BY <2>5, <3>1, <3>3
      <4> QED BY <2>4, <2>5, <3>1, <4>1 DEF TermInv, SocketInv
    <3> QED BY <3>2, <3>3
  <2>9. Held(tok, clock)
    <3>1. barred < tok
      <4>1. barred \in Nat /\ tok \in Nat
        BY <1>2, <1>5, Numbers DEF TermInv, Types, MarkType
      <4>2. ~(tok <= barred)
        BY <1>2, <1>5 DEF TermInv, BarredInv
      <4> QED BY <4>1, <4>2
    <3> QED BY <1>2, <1>4, <1>5, <3>1 DEF Held
  <2>10. ASSUME NEW t, NEW at, Using(t, at)'
         PROVE  Using(t, at) \/ (t = tok /\ at = clock)
    BY <2>4, <2>5, <2>10 DEF Using
  <2>11. \A t, at : Using(t, at)' => Using(t, at) \/ Held(t, at)
    BY <2>9, <2>10
  <2> QED BY <1>1, <1>4, <2>6, <2>7, <2>8, <2>11, QuietStep
<1>6. CASE sock' = [sock EXCEPT ![fd] = Closed] /\ clients' = Removed(fd)
  <2>1. SockType' /\ \A f \in Fds : f # fd => sock'[f] = sock[f]
    BY <1>1, <1>6, ClosedTyped DEF TermInv, Types
  <2>2. /\ ClientType' /\ SocketInv'
        /\ \A t \in 0..MaxLogins, at \in 0..MaxTime :
              Using(t, at)' => Using(t, at)
    BY <1>4, <1>6, <2>1, Dropped DEF TermInv, Types
  <2> QED BY <1>1, <1>4, <2>1, <2>2, QuietStep
<1> QED BY <1>1, <1>5, <1>6

\* The session of an active client, as the invariant knows it.
LEMMA ClientHeld ==
    ASSUME TermInv, NEW i \in 1..NClients, clients[i].active
    PROVE  /\ Held(clients[i].token, clients[i].checked)
           /\ clients[i].token \in Tokens /\ clients[i].checked \in 0..MaxTime
<1>1. /\ clients[i].token \in 0..MaxLogins
      /\ clients[i].checked \in 0..MaxTime
  BY DEF TermInv, Types, ClientType, Client
<1>2. Using(clients[i].token, clients[i].checked)
  BY DEF Using
<1>3. Held(clients[i].token, clients[i].checked)
  BY <1>1, <1>2 DEF TermInv, SessionInv
<1> QED BY <1>1, <1>3 DEF Held

\* A frame is taken from a client whose session is valid when it arrives.
LEMMA InboundStep ==
    ASSUME TermInv, NEW fd \in Fds, NEW kind, Inbound(fd, kind)
    PROVE  TermInv'
<1> DEFINE known == ClientsOn(fd) # {}
           tok   == clients[Min(ClientsOn(fd))].token
<1>1. /\ sessions' = IF known THEN Validated(sessions, {tok}) ELSE sessions
      /\ IF known THEN Use(tok) ELSE UNCHANGED used
      /\ \/ /\ known /\ Valid(tok)
            /\ clients' = Removed(fd) \/ clients' = clients
            /\ sock' = [sock EXCEPT ![fd] = Closed] \/ sock' = sock
            /\ sock' = sock \/ clients' = Removed(fd)
            /\ pushed' = {} /\ relayed' \subseteq {tok}
         \/ /\ clients' = Removed(fd) /\ sock' = [sock EXCEPT ![fd] = Closed]
            /\ pushed' = {} /\ relayed' = {}
      /\ UNCHANGED <<clock, issued, hosts, wrong, inited, conns, barred>>
      /\ Bury
  BY DEF Inbound, Trace, hostVars
<1>2. known => /\ tok \in Tokens /\ inited /\ barred < tok
  <2>1. ASSUME known PROVE /\ tok \in Tokens /\ inited /\ barred < tok
    <3>1. PICK m \in 1..NClients :
             m = Min(ClientsOn(fd)) /\ clients[m].active
      BY <2>1, RemovedIs DEF TermInv
    <3> QED BY <3>1, ClientHeld DEF Held
  <2> QED BY <2>1
<1> HIDE DEF known, tok
<1>3. Moves /\ SameValid
  <2>1. CASE known
    <3>1. UsedType'
      BY <1>1, <2>1, UseTyped DEF TermInv
    <3> QED BY <1>1, <2>1, <3>1, LookMoves DEF TermInv
  <2>2. CASE ~known
    BY <1>1, <2>2, StillMoves DEF TermInv, authVars
  <2> QED BY <2>1, <2>2
<1>4. clock \in 0..MaxTime
  BY Numbers DEF TermInv
<1>5. /\ SockType' /\ \A f \in Fds : f # fd => sock'[f] = sock[f]
  <2>1. CASE sock' = [sock EXCEPT ![fd] = Closed]
    BY <1>1, <2>1, ClosedTyped DEF TermInv, Types
  <2>2. CASE sock' = sock
    BY <1>1, <2>2 DEF TermInv, Types, SockType
  <2> QED BY <1>1, <2>1, <2>2
<1>6. /\ ClientType' /\ SocketInv'
      /\ \A t \in 0..MaxLogins, at \in 0..MaxTime :
            Using(t, at)' => Using(t, at)
  <2>1. CASE clients' = Removed(fd)
    BY <1>4, <1>5, <2>1, Dropped DEF TermInv, Types
  <2>2. CASE clients' = clients /\ sock' = sock
    BY <1>1, <2>2, StillClients DEF TermInv
  <2> QED BY <1>1, <2>1, <2>2
<1>7. \A t \in relayed' : t \in Tokens /\ Valid(t)' /\ inited' /\ t > barred'
  <2> SUFFICES ASSUME NEW t \in relayed'
               PROVE  t \in Tokens /\ Valid(t)' /\ inited' /\ t > barred'
    OBVIOUS
  <2>1. t = tok /\ known /\ Valid(tok)
    BY <1>1
  <2>2. t \in Tokens /\ Valid(t) /\ inited /\ barred < t
    BY <1>2, <2>1
  <2>3. Valid(t)'
    BY <1>3, <2>2 DEF SameValid
  <2>4. t > barred
    BY <2>2
  <2> QED BY <1>1, <2>2, <2>3, <2>4
<1>8. pushed' = {} /\ relayed' \subseteq Tokens
  BY <1>1, <1>7
<1>9. TraceInv'
  BY <1>7, <1>8 DEF TraceInv, RevokedWithinRecheck, KeystrokesNeedSession,
                    PasswordCutsAll
<1> QED BY <1>1, <1>3, <1>5, <1>6, <1>8, <1>9, AfterStep

\* A flush sends to clients found valid now, or less than the recheck interval
\* ago.
LEMMA FlushStep ==
    ASSUME TermInv, NEW ports, NEW bad, Flush(ports, bad)
    PROVE  TermInv'
<1> DEFINE due  == {i \in 1..NClients : Due(i)}
           dead == {i \in due : ~Valid(clients[i].token)}
           to   == {i \in 1..NClients :
                       /\ clients[i].active /\ i \notin dead
                       /\ clients[i].port \in ports}
           lost == {i \in to : i \in bad \/ ~Open(clients[i].fd)}
<1>1. /\ sessions' = Validated(sessions, {clients[i].token : i \in due})
      /\ clients' = [i \in 1..NClients |->
             IF i \in dead \cup lost THEN NoClient
             ELSE IF i \in due THEN [clients[i] EXCEPT !.checked = clock]
             ELSE clients[i]]
      /\ pushed' = {clients[i].token : i \in to} /\ relayed' = {}
      /\ UNCHANGED <<clock, issued, used, hosts, wrong>>
      /\ UNCHANGED <<inited, sock, conns, barred>>
      /\ Bury
  BY DEF Flush, Trace, hostVars
<1>2. Moves /\ SameValid
  <2> DEFINE toks == {clients[i].token : i \in due}
  <2>1. sessions' = Validated(sessions, toks) /\ UsedType'
    BY <1>1 DEF TermInv, Tables, UsedType
  <2> HIDE DEF toks
  <2> QED BY <1>1, <2>1, LookMoves DEF TermInv
<1>3. clock \in 0..MaxTime
  BY Numbers DEF TermInv
<1>4. ASSUME NEW i \in 1..NClients
      PROVE  /\ clients'[i] \in {clients[i], NoClient,
                                 [clients[i] EXCEPT !.checked = clock]}
             /\ \/ clients'[i] \in {clients[i], NoClient}
                \/ /\ clients'[i] = [clients[i] EXCEPT !.checked = clock]
                   /\ clients[i].active /\ Valid(clients[i].token)
  <2>1. i \in due /\ i \notin dead
           => clients[i].active /\ Valid(clients[i].token)
    BY DEF Due
  <2>2. clients'[i] = IF i \in dead \cup lost THEN NoClient
                      ELSE IF i \in due
                           THEN [clients[i] EXCEPT !.checked = clock]
                      ELSE clients[i]
    BY <1>1
  <2> HIDE DEF due, dead, lost, to
  <2> QED BY <2>1, <2>2
<1>5. clients' = [i \in 1..NClients |-> clients'[i]]
  BY <1>1
<1>6. ASSUME NEW i \in to
      PROVE  LET t == clients[i].token IN
             /\ t \in Tokens /\ inited /\ t > barred
             /\ Valid(t) \/ clock - died[t] < Recheck
  <2>1. i \in 1..NClients /\ clients[i].active /\ i \notin dead
    OBVIOUS
  <2>2. PICK t, at : t = clients[i].token /\ at = clients[i].checked
    OBVIOUS
  <2>3. Held(t, at) /\ t \in Tokens /\ at \in 0..MaxTime
    BY <2>1, <2>2, ClientHeld
  <2>4. inited /\ barred < t /\ (Valid(t) \/ at <= died[t])
    BY <2>3 DEF Held
  <2>5. CASE i \in due
    BY <2>1, <2>2, <2>3, <2>4, <2>5
  <2>6. CASE i \notin due /\ ~Valid(t)
    <3>1. ~(clock - at >= Recheck)
      BY <2>1, <2>2, <2>6 DEF Due
    <3>2. died[t] \in 0..MaxTime
      BY <2>3 DEF TermInv, DiedInv
    <3>3. clock - died[t] < Recheck
      BY <1>3, <2>3, <2>4, <2>6, <3>1, <3>2, LimitsAssumption,
         RecheckAssumption
    <3> QED BY <2>2, <2>3, <2>4, <3>3
  <2>7. CASE Valid(t)
    BY <2>2, <2>3, <2>4, <2>7
  <2> QED BY <2>5, <2>6, <2>7
<1>7. \A t \in pushed' : /\ t \in Tokens /\ inited /\ t > barred
                         /\ Valid(t) \/ clock - died[t] < Recheck
  <2> HIDE DEF to
  <2> QED BY <1>1, <1>6
<1> HIDE DEF due, dead, to, lost
<1>8. ClientType' /\ SocketInv' /\ SockType'
  <2>1. \A i \in 1..NClients : clients'[i].active =>
           sock'[clients[i].fd] = sock[clients[i].fd]
    BY <1>1
  <2>2. ClientType' /\ SocketInv'
    BY <1>3, <1>4, <1>5, <2>1, KeptClients DEF TermInv, Types
  <2> QED BY <1>1, <2>2 DEF TermInv, Types, SockType
<1>9. ASSUME NEW t \in 0..MaxLogins, NEW at \in 0..MaxTime, Using(t, at)'
      PROVE  Using(t, at) \/ Held(t, at)
  <2>1. PICK i \in 1..NClients : /\ clients'[i].active
                                 /\ clients'[i].token = t
                                 /\ clients'[i].checked = at
    BY <1>9 DEF Using
  <2>2. CASE clients'[i] \in {clients[i], NoClient}
    BY <2>1, <2>2, NoClientTyped DEF Using
  <2>3. CASE /\ clients'[i] = [clients[i] EXCEPT !.checked = clock]
             /\ clients[i].active /\ Valid(clients[i].token)
    <3>1. clients[i] \in Client
      BY DEF TermInv, Types, ClientType
    <3>2. at = clock /\ t = clients[i].token
      BY <2>1, <2>3, <3>1 DEF Client
    <3>3. inited /\ t \in Tokens /\ barred < t /\ t <= issued
      BY <2>3, <3>2, ClientHeld DEF Held
    <3> QED BY <1>3, <2>3, <3>2, <3>3 DEF Held
  <2> QED BY <1>4, <2>2, <2>3
<1>10. TraceInv'
  <2>1. \A t \in pushed' :
           Valid(t)' \/ clock' - died'[t] < Recheck
    <3> SUFFICES ASSUME NEW t \in pushed', ~Valid(t)'
                 PROVE  clock' - died'[t] < Recheck
      OBVIOUS
    <3>1. t \in Tokens /\ ~Valid(t)
      BY <1>2, <1>7 DEF SameValid
    <3>2. clock - died[t] < Recheck
      BY <1>7, <3>1
    <3>3. died'[t] = died[t]
      <4>1. t <= issued
        <5>1. PICK i \in 1..NClients :
                 clients[i].active /\ t = clients[i].token
          BY <1>1 DEF to
        <5> QED BY <5>1, ClientHeld DEF Held
      <4>2. died[t] # 0
        <5>1. ~(t > issued)
          BY <3>1, <4>1, Numbers DEF TermInv
        <5> QED BY <3>1, <5>1 DEF TermInv, DiedInv
      <4> QED BY <1>1, <1>2, <3>1, <4>2, DiedStep DEF TermInv
    <3> QED BY <1>1, <3>2, <3>3
  <2>2. RevokedWithinRecheck'
    BY <2>1 DEF RevokedWithinRecheck
  <2>3. KeystrokesNeedSession'
    BY <1>1 DEF KeystrokesNeedSession
  <2>4. PasswordCutsAll'
    BY <1>1, <1>7 DEF PasswordCutsAll
  <2> QED BY <2>2, <2>3, <2>4 DEF TraceInv
<1>11. pushed' \subseteq Tokens /\ relayed' \subseteq Tokens
  BY <1>1, <1>7
<1> QED BY <1>1, <1>2, <1>8, <1>9, <1>10, <1>11, AfterStep

-------------------------------------------------------------------------------
(* Results                                                                 *)

LEMMA InitTermInv == Init => TermInv
<1> SUFFICES ASSUME Init PROVE TermInv
  OBVIOUS
<1>1. /\ AuthInit /\ inited \in BOOLEAN /\ sock = [fd \in Fds |-> Closed]
      /\ conns = 0 /\ clients = [i \in 1..NClients |-> NoClient]
      /\ pushed = {} /\ relayed = {} /\ died = [tok \in Tokens |-> 0]
      /\ barred = 0
  BY DEF Init
<1>2. Tables /\ issued = 0
  <2>1. IInv /\ issued = 0
    BY <1>1, InitIInv DEF AuthInit
  <2> QED BY <2>1 DEF IInv, Sessions, Tables
<1>3. /\ 0 \in 0..MaxTime /\ 0 \in 0..MaxConns /\ 0 \in 0..issued
      /\ Closed \in [conn : 0..MaxConns, ws : BOOLEAN]
  BY <1>2, LimitsAssumption, ClientsAssumption DEF Closed
<1>4. Types
  BY <1>1, <1>3, NoClientTyped DEF Types, ClientType, SockType, MarkType
<1>5. SocketInv
  BY <1>1, NoClientTyped DEF SocketInv
<1>6. SessionInv
  BY <1>1, NoClientTyped DEF SessionInv, Using
<1>7. \A tok \in Tokens : tok > issued /\ tok > barred /\ 0 <= clock
  BY <1>1, <1>2, Numbers DEF Tokens
<1>8. DiedInv
  BY <1>1, <1>3, <1>7 DEF DiedInv
<1>9. BarredInv
  <2> SUFFICES ASSUME NEW tok \in Tokens, tok <= barred PROVE FALSE
    BY DEF BarredInv
  <2>1. tok \in Nat /\ tok > 0
    BY <1>1, <1>2, <1>7, Numbers
  <2> QED BY <1>1, <2>1
<1>10. TraceInv
  BY <1>1 DEF TraceInv, RevokedWithinRecheck, KeystrokesNeedSession,
              PasswordCutsAll
<1> QED BY <1>2, <1>4, <1>5, <1>6, <1>8, <1>9, <1>10 DEF TermInv

LEMMA StepTermInv == TermInv /\ [Next]_vars => TermInv'
<1> SUFFICES ASSUME TermInv, [Next]_vars PROVE TermInv'
  OBVIOUS
<1>1. ASSUME NEW fd \in Fds, Accept(fd) \/ CloseConn(fd) PROVE TermInv'
  BY <1>1, AcceptStep, CloseStep
<1>2. ASSUME NEW a \in Addrs, Login(a) PROVE TermInv'
  BY <1>2, LoginMoves, AuthStep DEF Login, TermInv
<1>3. ASSUME NEW tok \in 1..issued, ApiRequest(tok) PROVE TermInv'
  <2>1. Request(tok) /\ UNCHANGED wsVars /\ Quiet
    BY <1>3 DEF ApiRequest
  <2>2. /\ sessions' = Validated(sessions, {tok}) /\ UsedType'
        /\ UNCHANGED <<clock, issued, hosts, wrong>>
    BY <2>1, UseTyped DEF Request, TermInv, hostVars
  <2>3. Moves
    BY <2>2, LookMoves DEF TermInv
  <2> QED BY <2>1, <2>3, AuthStep
<1>4. ASSUME NEW tok \in 1..issued, ApiLogout(tok) PROVE TermInv'
  BY <1>4, LogoutMoves, AuthStep DEF ApiLogout, TermInv
<1>5. ASSUME NEW tok \in 1..issued, ApiPassword(tok) PROVE TermInv'
  BY <1>5, PasswordStep
<1>6. CASE Requests
  BY <1>2, <1>3, <1>4, <1>5, <1>6 DEF Requests
<1>7. CASE Frames
  <2>1. NoToken \in 0..issued
    BY Numbers DEF TermInv, NoToken
  <2>2. CASE \E fd \in Fds, cookie \in 0..issued, port \in Asked :
               \E query \in IF Valid(cookie) THEN {NoToken} ELSE 0..issued :
                  Handshake(fd, cookie, query, port)
    BY <2>1, <2>2, HandshakeStep
  <2>3. CASE \E fd \in Fds, kind \in {"data", "empty", "close", "bad"} :
               Inbound(fd, kind)
    BY <2>3, InboundStep
  <2>4. CASE \E ports \in SUBSET Ports, bad \in SUBSET ActiveClients :
               Flush(ports, bad)
    BY <2>4, FlushStep
  <2> QED BY <1>7, <2>2, <2>3, <2>4 DEF Frames
<1>8. CASE TimePasses
  BY <1>8, TickMoves, AuthStep DEF TimePasses, TermInv
<1>9. CASE UNCHANGED vars
  <2>1. /\ UNCHANGED authVars /\ UNCHANGED <<inited, sock, conns, clients>>
        /\ UNCHANGED <<pushed, relayed, died, barred>>
    BY <1>9 DEF vars, wsVars, traceVars
  <2>2. /\ UNCHANGED <<clock, sessions, issued>> /\ Tables' /\ SameValid
    BY <2>1, StillMoves DEF TermInv, Moves, authVars
  <2>3. ClientType' /\ SockType' /\ SocketInv'
    BY <2>1, StillClients DEF TermInv
  <2>4. MarkType'
    BY <2>1, <2>2 DEF TermInv, Types, MarkType
  <2>5. DiedInv' /\ BarredInv'
    BY <2>1, <2>2 DEF TermInv, DiedInv, BarredInv, SameValid
  <2>6. SessionInv'
    <3> SUFFICES ASSUME NEW tok \in 0..MaxLogins, NEW at \in 0..MaxTime,
                        Using(tok, at)'
                 PROVE  Held(tok, at)'
      BY DEF SessionInv
    <3>1. Held(tok, at)
      BY <2>1 DEF TermInv, SessionInv, Using
    <3> QED BY <2>1, <2>2, <3>1 DEF Held, SameValid
  <2>7. TraceInv'
    <3>1. \A tok \in pushed \cup relayed :
             tok \in Tokens /\ (Valid(tok)' <=> Valid(tok))
      BY <2>2 DEF TermInv, Types, MarkType, SameValid
    <3> QED BY <2>1, <2>2, <3>1
            DEF TermInv, TraceInv, RevokedWithinRecheck,
                KeystrokesNeedSession, PasswordCutsAll
  <2> QED BY <2>2, <2>3, <2>4, <2>5, <2>6, <2>7 DEF TermInv, Types
<1> QED BY <1>1, <1>6, <1>7, <1>8, <1>9 DEF Next

\* Whatever order requests, frames, flushes and closing sockets come in, each
\* client keeps its socket, and its session is or recently was a valid one.
THEOREM TerminalInvariant == Spec => []TermInv
<1> QED BY InitTermInv, StepTermInv, PTL DEF Spec

\* The client table names only sockets, ports and tokens there are.
THEOREM TerminalTypeCorrect == Spec => []TypeOK
<1>1. TermInv => TypeOK
  <2> SUFFICES ASSUME TermInv PROVE TypeOK
    OBVIOUS
  <2>1. AuthTypeOK
    BY DEF TermInv, Tables, ClockType, SessionType, UsedType, HostsOK,
           AuthTypeOK, Session, Host
  <2>2. barred \in 0..MaxLogins
    BY Numbers DEF TermInv, Types, MarkType
  <2> QED BY <2>1, <2>2 DEF TermInv, Types, ClientType, SockType, MarkType,
                            DiedInv, Client, TypeOK
<1> QED BY <1>1, TerminalInvariant, PTL

\* An active client is the connection that authenticated, alone on its socket.
THEOREM SocketsOwned == Spec => []ClientOwnsSocket
<1>1. TermInv => ClientOwnsSocket
  BY DEF TermInv, SocketInv, ClientOwnsSocket, Upgraded, Open
<1> QED BY <1>1, TerminalInvariant, PTL

\* A session that ended, for whatever reason, is sent no serial data once the
\* recheck interval has passed.
THEOREM RevocationBites == Spec => []RevokedWithinRecheck
<1>1. TermInv => RevokedWithinRecheck
  BY DEF TermInv, TraceInv
<1> QED BY <1>1, TerminalInvariant, PTL

\* What is typed reaches the port only under a session valid at that moment.
THEOREM TypingNeedsSession == Spec => []KeystrokesNeedSession
<1>1. TermInv => KeystrokesNeedSession
  BY DEF TermInv, TraceInv
<1> QED BY <1>1, TerminalInvariant, PTL

\* After a password change nothing goes to, or comes from, a client let in
\* before it.
THEOREM PasswordChangeCuts == Spec => []PasswordCutsAll
<1>1. TermInv => PasswordCutsAll
  BY DEF TermInv, TraceInv
<1> QED BY <1>1, TerminalInvariant, PTL
===============================================================================
