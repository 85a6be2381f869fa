--------------------------------- MODULE Auth ---------------------------------
(***************************************************************************)
(* main/auth.c: the session table and the failed-login counters.  Every    *)
(* function here runs on the httpd task, inside a request handler or the   *)
(* ring's flush, so one call is one step.                                  *)
(*                                                                         *)
(* A token is the number of the login that made it: auth.c draws 32 random *)
(* bytes, which never repeat.  Time is monotonic and in ticks; auth.c sees *)
(* it in whole seconds.                                                    *)
(***************************************************************************)
EXTENDS Integers, FiniteSetsExt

CONSTANTS
    NSessions,    \* AUTH_MAX_SESSIONS (4)
    TimeoutS,     \* AUTH_SESSION_TIMEOUT_S (3600)
    NHosts,       \* AUTH_TRACKED_HOSTS (8)
    MaxFailed,    \* AUTH_MAX_FAILED (5)
    LockoutS,     \* AUTH_LOCKOUT_S (300)
    Addrs,        \* peer addresses, the shared "" bucket being one of them
    NoAddr,       \* the key of an entry never used
    TicksPerSec,  \* resolution of the clock
    MaxLogins,    \* bound: successful logins
    MaxTime       \* bound: the clock stops here

ASSUME TablesAssumption == NSessions \in Nat \ {0} /\ NHosts \in Nat \ {0}
ASSUME LimitsAssumption ==
    /\ TimeoutS \in Nat /\ LockoutS \in Nat \ {0} /\ MaxFailed \in Nat \ {0}
    /\ TicksPerSec \in Nat \ {0} /\ MaxLogins \in Nat
    /\ MaxTime \in Nat /\ MaxTime >= TicksPerSec
ASSUME NoAddrAssumption == NoAddr \notin Addrs

VARIABLES
    clock,     \* ticks since boot
    sessions,  \* s_sessions
    issued,    \* how many tokens have been drawn
    hosts,     \* s_hosts
    wrong,     \* history: wrong passwords in a row from each address
    used       \* history: the second a client last used each token

sessionVars == <<sessions, issued, used>>
hostVars == <<hosts, wrong>>
authVars == <<clock, sessions, issued, hosts, wrong, used>>

Tokens == 1..MaxLogins
NoToken == 0

mono_now == clock \div TicksPerSec

-------------------------------------------------------------------------------
(* The session table.                                                      *)

Expired(s) == mono_now - s.last > TimeoutS
Live(s) == s.active /\ ~Expired(s)

\* auth_validate_session's answer ...
Valid(tok) == \E i \in 1..NSessions : sessions[i].token = tok /\ Live(sessions[i])

Validated_Revives(tbl, toks) ==
    [i \in 1..NSessions |->
        IF tbl[i].active /\ tbl[i].token \in toks
        THEN [tbl[i] EXCEPT !.last = mono_now]
        ELSE tbl[i]]

\* ... and what it leaves behind, asked about each token of a set: the session
\* slid forward, or closed if too late.
Validated(tbl, toks) ==
    [i \in 1..NSessions |->
        IF ~(tbl[i].active /\ tbl[i].token \in toks) THEN tbl[i]
        ELSE IF Expired(tbl[i]) THEN [tbl[i] EXCEPT !.active = FALSE]
        ELSE [tbl[i] EXCEPT !.last = mono_now]]

Use(tok) ==
    used' = IF Valid(tok) THEN [used EXCEPT ![tok] = mono_now] ELSE used

\* auth_logout
LoggedOut(tbl, tok) ==
    [i \in 1..NSessions |->
        IF tbl[i].token = tok THEN [tbl[i] EXCEPT !.active = FALSE] ELSE tbl[i]]

\* auth_invalidate_all_sessions
NoneActive(tbl) ==
    [i \in 1..NSessions |-> [tbl[i] EXCEPT !.active = FALSE]]

(* The scan for the least recently used slot.  Its running minimum starts  *)
(* at 0, which also means "none yet": a session last used in second 0 is   *)
(* passed over for whichever slot follows it.                              *)
Scanned ==
    {i \in 1..NSessions : \A j \in i..NSessions - 1 : sessions[j].last # 0}

LeastRecent_First(S) == Min(S)

LeastRecent(S) ==
    CHOOSE i \in S : \A j \in S :
        \/ sessions[i].last < sessions[j].last
        \/ sessions[i].last = sessions[j].last /\ i <= j

\* The slot a login takes: the first that is free or expired, or the LRU one.
LoginSlot ==
    LET free == {i \in 1..NSessions : ~Live(sessions[i])}
    IN  IF free # {} THEN Min(free) ELSE LeastRecent(Scanned)

IssueToken ==
    /\ issued < MaxLogins
    /\ issued' = issued + 1
    /\ sessions' = [sessions EXCEPT ![LoginSlot] =
                      [token |-> issued + 1, last |-> mono_now, active |-> TRUE]]
    /\ used' = [used EXCEPT ![issued + 1] = mono_now]

-------------------------------------------------------------------------------
(* The failed-login counters.                                              *)

EntriesOf(a) == {i \in 1..NHosts : hosts[i].used /\ hosts[i].ip = a}

Running(h) == h.until # 0 /\ mono_now < h.until

\* auth_is_locked_out's answer ...
LockedOut(a) == \E i \in EntriesOf(a) : Running(hosts[i])

Forgiven_KeepsCount(a) ==
    [i \in 1..NHosts |->
        IF i \in EntriesOf(a) /\ hosts[i].until # 0 /\ ~Running(hosts[i])
        THEN [hosts[i] EXCEPT !.until = 0]
        ELSE hosts[i]]

\* ... and its effect: a lapsed lockout is forgiven when next looked at.
Forgiven(a) ==
    [i \in 1..NHosts |->
        IF i \in EntriesOf(a) /\ hosts[i].until # 0 /\ ~Running(hosts[i])
        THEN [hosts[i] EXCEPT !.until = 0, !.failed = 0]
        ELSE hosts[i]]

Recycled_First(tbl) == 1

\* host_entry on a full table: the first entry with the earliest lockout_until.
Recycled(tbl) ==
    CHOOSE i \in 1..NHosts : \A j \in 1..NHosts :
        \/ tbl[i].until < tbl[j].until
        \/ tbl[i].until = tbl[j].until /\ i <= j

Claimed_KeepsCount(tbl, a) ==
    LET free == {i \in 1..NHosts : ~tbl[i].used}
        slot == IF free # {} THEN Min(free) ELSE Recycled(tbl)
    IN  IF EntriesOf(a) # {} THEN tbl
        ELSE [tbl EXCEPT ![slot] = [@ EXCEPT !.used = TRUE, !.ip = a]]

\* host_entry(a, true): a's entry, a free one, or a recycled one.
Claimed(tbl, a) ==
    LET free == {i \in 1..NHosts : ~tbl[i].used}
        slot == IF free # {} THEN Min(free) ELSE Recycled(tbl)
    IN  IF EntriesOf(a) # {} THEN tbl
        ELSE [tbl EXCEPT ![slot] =
                 [used |-> TRUE, ip |-> a, failed |-> 0, until |-> 0]]

Failed(tbl, a) ==
    [i \in 1..NHosts |->
        IF ~(tbl[i].used /\ tbl[i].ip = a) THEN tbl[i]
        ELSE [tbl[i] EXCEPT
                 !.failed = @ + 1,
                 !.until = IF tbl[i].failed + 1 >= MaxFailed
                           THEN mono_now + LockoutS ELSE @]]

Trusted(tbl, a) ==
    [i \in 1..NHosts |->
        IF tbl[i].used /\ tbl[i].ip = a
        THEN [tbl[i] EXCEPT !.failed = 0, !.until = 0]
        ELSE tbl[i]]

-------------------------------------------------------------------------------
(* The handlers.  A login from a locked-out address changes nothing.       *)

NoSession == [token |-> NoToken, last |-> 0, active |-> FALSE]
NoHost == [used |-> FALSE, ip |-> NoAddr, failed |-> 0, until |-> 0]

(* Boot: the tables are zeroed.  The server starts after WiFi, in second 1 *)
(* of uptime at the earliest.                                              *)
AuthInit ==
    /\ clock = TicksPerSec
    /\ sessions = [i \in 1..NSessions |-> NoSession]
    /\ issued = 0
    /\ hosts = [i \in 1..NHosts |-> NoHost]
    /\ wrong = [a \in Addrs |-> 0]
    /\ used = [tok \in Tokens |-> 0]

\* handle_login with a body it cannot use: the lockout was looked at.
LoginMalformed(a) ==
    /\ ~LockedOut(a)
    /\ hosts' = Forgiven(a)
    /\ UNCHANGED <<clock, sessionVars, wrong>>

LoginWrong(a) ==
    /\ ~LockedOut(a)
    /\ hosts' = Failed(Claimed(Forgiven(a), a), a)
    /\ wrong' = [wrong EXCEPT ![a] = IF @ < MaxFailed THEN @ + 1 ELSE @]
    /\ UNCHANGED <<clock, sessionVars>>

LoginOk(a) ==
    /\ ~LockedOut(a)
    /\ hosts' = Trusted(Forgiven(a), a)
    /\ wrong' = [wrong EXCEPT ![a] = 0]
    /\ IssueToken
    /\ UNCHANGED clock

\* require_auth, for any request that carries the token.
Request(tok) ==
    /\ sessions' = Validated(sessions, {tok})
    /\ Use(tok)
    /\ UNCHANGED <<clock, issued, hostVars>>

Logout(tok) ==
    /\ sessions' = LoggedOut(sessions, tok)
    /\ UNCHANGED <<clock, issued, used, hostVars>>

\* handle_config_post, from a live session, with the right current password.
ChangePassword(tok) ==
    /\ Valid(tok)
    /\ sessions' = NoneActive(sessions)
    /\ Use(tok)
    /\ UNCHANGED <<clock, issued, hostVars>>

Tick ==
    /\ clock < MaxTime
    /\ clock' = clock + 1
    /\ UNCHANGED <<sessionVars, hostVars>>

AuthNext ==
    \/ \E a \in Addrs : LoginMalformed(a) \/ LoginWrong(a) \/ LoginOk(a)
    \/ \E tok \in 1..issued : Request(tok) \/ Logout(tok) \/ ChangePassword(tok)
    \/ Tick

AuthSpec == AuthInit /\ [][AuthNext]_authVars

-------------------------------------------------------------------------------
(* A counter never passes MaxFailed: a host at the limit is locked out, and *)
(* its next attempt either is refused or starts again from 0.               *)
AuthTypeOK ==
    /\ clock \in TicksPerSec..MaxTime
    /\ sessions \in [1..NSessions ->
                        [token : 0..MaxLogins, last : 0..MaxTime, active : BOOLEAN]]
    /\ issued \in 0..MaxLogins
    /\ hosts \in [1..NHosts ->
                     [used : BOOLEAN, ip : Addrs \cup {NoAddr},
                      failed : 0..MaxFailed, until : 0..MaxTime + LockoutS]]
    /\ wrong \in [Addrs -> 0..MaxFailed]
    /\ used \in [Tokens -> 0..MaxTime]

(* "An abandoned one still expires": no session outlives the timeout       *)
(* counted from the last request that carried its token, whatever was      *)
(* validated, reused or evicted in between.                                *)
AbandonedExpires ==
    \A i \in 1..NSessions :
        Live(sessions[i]) => mono_now - used[sessions[i].token] <= TimeoutS

(* A login ends another session only when every slot holds a live one, and *)
(* then ends the one whose last use by its client is the oldest.           *)
LruEviction ==
    [][issued' # issued =>
         \A i \in 1..NSessions :
            Live(sessions[i]) /\ sessions'[i] # sessions[i] =>
               \A j \in 1..NSessions :
                  /\ Live(sessions[j])
                  /\ used[sessions[i].token] <= used[sessions[j].token]
                  /\ j # i => sessions'[j] = sessions[j]
      ]_authVars

(* An address is locked out only for its own wrong passwords, MaxFailed in *)
(* a row: an entry taken over from another address brings nothing with it. *)
NoInheritedLockout == \A a \in Addrs : LockedOut(a) => wrong[a] >= MaxFailed

(* A lockout runs its full time.  It ends early only when the table is     *)
(* full of running lockouts, and then it is the one that ends soonest.     *)
LockoutHonoured ==
    [][\A i \in 1..NHosts :
          Running(hosts[i]) /\ hosts'[i] # hosts[i] =>
             \A j \in 1..NHosts :
                Running(hosts[j]) /\ hosts[i].until <= hosts[j].until
      ]_authVars
===============================================================================
