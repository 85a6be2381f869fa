------------------------------ MODULE AuthProofs ------------------------------
(***************************************************************************)
(* Sessions and lockouts, for tables of any size, any number of addresses  *)
(* and logins, and any timeouts.                                           *)
(***************************************************************************)
EXTENDS Auth, FiniteSetTheorems, TLAPS

Session == [token : 0..MaxLogins, last : 0..MaxTime, active : BOOLEAN]
Host == [used : BOOLEAN, ip : Addrs \cup {NoAddr}, failed : 0..MaxFailed,
         until : 0..MaxTime + LockoutS]
ClockType == clock \in TicksPerSec..MaxTime
SessionType ==
    sessions \in [1..NSessions -> Session] /\ issued \in 0..MaxLogins

\* A token is in one slot only, and was issued; a slot in use was looked at.
SlotInv ==
    \A i \in 1..NSessions :
       /\ sessions[i].token <= issued
       /\ sessions[i].active
             => sessions[i].token # NoToken /\ sessions[i].last # 0
       /\ \A j \in 1..NSessions :
             sessions[i].token = sessions[j].token
             /\ sessions[i].token # NoToken
                => i = j

\* An open session was last looked at when its client last used it.
UsedInv ==
    \A i \in 1..NSessions :
       sessions[i].active => sessions[i].last = used[sessions[i].token]

\* A table of counters with one entry for an address, none of which counts
\* more than the address's own wrong passwords in a row, and is locked exactly
\* when it is at the limit.
HostsOK(tbl, w) ==
    /\ tbl \in [1..NHosts -> Host] /\ w \in [Addrs -> 0..MaxFailed]
    /\ \A i \in 1..NHosts :
          /\ tbl[i].used
                => tbl[i].ip \in Addrs /\ tbl[i].failed <= w[tbl[i].ip]
          /\ ~tbl[i].used => tbl[i].failed = 0
          /\ tbl[i].until # 0 <=> tbl[i].failed = MaxFailed
          /\ \A j \in 1..NHosts :
                tbl[i].used /\ tbl[j].used /\ tbl[i].ip = tbl[j].ip => i = j

-------------------------------------------------------------------------------
(* Numbers and the clock                                                   *)

LEMMA Division ==
    ASSUME NEW a \in Nat, NEW b \in Nat, NEW n \in Nat \ {0}
    PROVE  /\ a \div n \in Nat /\ a \div n <= a
           /\ a <= b => a \div n <= b \div n
           /\ a >= n => a \div n >= 1
OBVIOUS

LEMMA Clock ==
    ASSUME ClockType
    PROVE  /\ mono_now \in 1..MaxTime
           /\ clock' = clock => mono_now' = mono_now
<1>1. mono_now \in 1..MaxTime
  <2>1. clock \in Nat /\ clock >= TicksPerSec /\ clock <= MaxTime
        /\ TicksPerSec \in Nat \ {0} /\ MaxTime \in Nat
    BY LimitsAssumption DEF ClockType
  <2> DEFINE q == clock \div TicksPerSec
  <2>2. q \in Nat /\ q <= clock /\ q >= 1
    BY <2>1, Division
  <2> HIDE DEF q
  <2>3. q \in 1..MaxTime
    BY <2>1, <2>2
  <2> QED BY <2>3 DEF q, mono_now
<1>2. clock' = clock => mono_now' = mono_now
  BY DEF mono_now
<1> QED BY <1>1, <1>2

LEMMA ClockTicks ==
    ASSUME ClockType, Tick
    PROVE  /\ ClockType' /\ mono_now' \in 1..MaxTime /\ mono_now <= mono_now'
<1>1. clock \in Nat /\ clock + 1 \in Nat /\ clock + 1 >= TicksPerSec
      /\ clock + 1 <= MaxTime /\ clock' = clock + 1
      /\ TicksPerSec \in Nat \ {0} /\ MaxTime \in Nat
  BY LimitsAssumption DEF ClockType, Tick
<1> DEFINE q == clock \div TicksPerSec
           r == (clock + 1) \div TicksPerSec
<1>2. q \in Nat /\ r \in Nat /\ q <= r /\ r <= clock + 1 /\ r >= 1
  <2>1. clock <= clock + 1
    BY <1>1
  <2> QED BY <1>1, <2>1, Division
<1>3. ClockType'
  BY <1>1 DEF ClockType
<1>4. mono_now = q /\ mono_now' = r
  BY <1>1 DEF mono_now
<1> HIDE DEF q, r
<1> QED BY <1>1, <1>2, <1>3, <1>4

\* Every nonempty set of numbers has a least one: a least of the sets of
\* numbers of it up to some number.
LEMMA Least ==
    ASSUME NEW S, S \subseteq Nat, S # {}
    PROVE  /\ \E x \in S : \A y \in S : x <= y
           /\ Min(S) \in S /\ \A y \in S : Min(S) <= y
<1> DEFINE UpTo(x) == {y \in S : y <= x}
           T == {UpTo(x) : x \in S}
<1>1. T \subseteq FiniteSubsetsOf(S)
  <2> SUFFICES ASSUME NEW x \in S PROVE UpTo(x) \in FiniteSubsetsOf(S)
    OBVIOUS
  <2>1. UpTo(x) \in SUBSET Nat /\ x \in Nat
    OBVIOUS
  <2>2. IsFiniteSet(UpTo(x))
    BY <2>1, FS_BoundedSetOfNaturals
  <2> QED BY <2>2 DEF FiniteSubsetsOf
<1>2. PICK U \in T : \A V \in T : <<V, U>> \notin StrictSubsetOrdering(S)
  <2>1. T # {}
    OBVIOUS
  <2>2. IsWellFoundedOn(StrictSubsetOrdering(S), FiniteSubsetsOf(S))
    BY FS_StrictSubsetOrderingWellFounded
  <2> HIDE DEF T
  <2> QED BY <1>1, <2>1, <2>2, WFMin
<1>3. PICK x \in S : U = UpTo(x)
  BY <1>2
<1>4. ASSUME NEW y \in S, y < x PROVE FALSE
  <2>1. x \in Nat /\ y \in Nat /\ \A z \in S : z \in Nat
    OBVIOUS
  <2>2. UpTo(y) \subseteq UpTo(x) /\ x \in UpTo(x) /\ x \notin UpTo(y)
    <3>1. \A z \in S : z <= y => z <= x
      BY <1>4, <2>1
    <3>2. x <= x /\ ~(x <= y)
      BY <1>4, <2>1
    <3> QED BY <3>1, <3>2
  <2>3. <<UpTo(y), UpTo(x)>> \in StrictSubsetOrdering(S)
    BY <2>2 DEF StrictSubsetOrdering
  <2> QED BY <1>2, <1>3, <2>3
<1>5. \A y \in S : ~(y < x)
  BY <1>4
<1>6. \E z \in S : \A y \in S : z <= y
  BY <1>5
<1> QED BY <1>6 DEF Min

\* Of several numbers in a table, the first of the least.
LEMMA FirstLeast ==
    ASSUME NEW S, S \subseteq Nat, S # {}, NEW f, \A i \in S : f[i] \in Nat
    PROVE  \E i \in S : \A j \in S : f[i] < f[j] \/ (f[i] = f[j] /\ i <= j)
<1> DEFINE F == {f[i] : i \in S}
<1>1. PICK m \in F : \A k \in F : m <= k
  <2>1. F \subseteq Nat /\ F # {}
    OBVIOUS
  <2> HIDE DEF F
  <2> QED BY <2>1, Least
<1> DEFINE I == {i \in S : f[i] = m}
<1>2. PICK i \in I : \A j \in I : i <= j
  <2>1. I \subseteq Nat /\ I # {}
    BY <1>1
  <2> HIDE DEF I
  <2> QED BY <2>1, Least
<1>3. ASSUME NEW j \in S PROVE f[i] < f[j] \/ (f[i] = f[j] /\ i <= j)
  <2>1. m \in Nat /\ f[j] \in Nat /\ f[i] = m /\ m <= f[j]
    BY <1>1, <1>2
  <2>2. CASE f[j] = m
    BY <1>2, <2>1, <2>2
  <2>3. CASE f[j] # m
    <3>1. f[i] \in Nat /\ f[j] \in Nat /\ f[i] <= f[j] /\ f[i] # f[j]
      BY <2>1, <2>3
    <3> QED BY <3>1
  <2> QED BY <2>2, <2>3
<1> QED BY <1>2, <1>3

-------------------------------------------------------------------------------
(* The session table                                                       *)

\* The slot of a login: one that is not live, or the one last used longest ago.
LEMMA LoginSlotIs ==
    ASSUME ClockType, SessionType, SlotInv
    PROVE  /\ LoginSlot \in 1..NSessions
           /\ Live(sessions[LoginSlot]) =>
                 \A j \in 1..NSessions :
                    /\ Live(sessions[j])
                    /\ sessions[LoginSlot].last <= sessions[j].last
<1> DEFINE free == {i \in 1..NSessions : ~Live(sessions[i])}
<1>1. \A i \in 1..NSessions : sessions[i].last \in 0..MaxTime
  BY DEF SessionType, Session
<1>2. CASE free # {}
  <2>1. free \subseteq Nat
    OBVIOUS
  <2>2. Min(free) \in free
    <3> HIDE DEF free
    <3> QED BY <1>2, <2>1, Least
  <2>3. LoginSlot = Min(free)
    BY <1>2 DEF LoginSlot
  <2> QED BY <2>2, <2>3
<1>3. CASE free = {}
  <2>1. \A i \in 1..NSessions : Live(sessions[i])
    BY <1>3
  <2>2. Scanned = 1..NSessions
    <3>1. \A i \in 1..NSessions : sessions[i].last # 0
      BY <2>1 DEF Live, SlotInv
    <3>2. \A i \in 1..NSessions :
             \A j \in i..NSessions - 1 : j \in 1..NSessions
      BY TablesAssumption
    <3> QED BY <3>1, <3>2 DEF Scanned
  <2>3. LoginSlot = LeastRecent(1..NSessions)
    BY <1>3, <2>2 DEF LoginSlot
  <2> DEFINE Last == [i \in 1..NSessions |-> sessions[i].last]
  <2>4. \E i \in 1..NSessions : \A j \in 1..NSessions :
           Last[i] < Last[j] \/ (Last[i] = Last[j] /\ i <= j)
    <3>1. /\ 1..NSessions \subseteq Nat /\ 1..NSessions # {}
          /\ \A i \in 1..NSessions : Last[i] \in Nat
      BY <1>1, TablesAssumption, LimitsAssumption
    <3> HIDE DEF Last
    <3> QED BY <3>1, FirstLeast
  <2>5. \E i \in 1..NSessions : \A j \in 1..NSessions :
           \/ sessions[i].last < sessions[j].last
           \/ sessions[i].last = sessions[j].last /\ i <= j
    BY <2>4
  <2>6. /\ LoginSlot \in 1..NSessions
        /\ \A j \in 1..NSessions :
              \/ sessions[LoginSlot].last < sessions[j].last
              \/ sessions[LoginSlot].last = sessions[j].last /\ LoginSlot <= j
    BY <2>3, <2>5 DEF LeastRecent
  <2> QED BY <1>1, <2>1, <2>6, LimitsAssumption
<1> QED BY <1>2, <1>3

\* What each function of auth.c does to the table: it keeps the invariant and
\* never makes a session valid that was not, but for the one a login issues.
LEMMA ValidatedKeeps ==
    ASSUME ClockType, SessionType, SlotInv, NEW toks, clock' = clock,
           sessions' = Validated(sessions, toks), issued' = issued
    PROVE  /\ SessionType' /\ SlotInv'
           /\ \A tok \in Tokens : Valid(tok)' <=> Valid(tok)
<1>1. mono_now \in 1..MaxTime /\ mono_now' = mono_now
  BY Clock
<1>2. ASSUME NEW i \in 1..NSessions
      PROVE  /\ sessions'[i] \in Session
             /\ sessions'[i].token = sessions[i].token
             /\ sessions'[i].active => /\ sessions[i].active
                                       /\ sessions'[i].last
                                             \in {sessions[i].last, mono_now}
             /\ Live(sessions[i])' <=> Live(sessions[i])
  <2>1. sessions[i] \in Session
    BY DEF SessionType
  <2>2. CASE ~(sessions[i].active /\ sessions[i].token \in toks)
    <3>1. sessions'[i] = sessions[i]
      BY <2>2 DEF Validated
    <3> QED BY <1>1, <2>1, <3>1 DEF Live, Expired
  <2>3. CASE /\ sessions[i].active /\ sessions[i].token \in toks
             /\ Expired(sessions[i])
    <3>1. sessions'[i] = [sessions[i] EXCEPT !.active = FALSE]
      BY <2>3 DEF Validated
    <3> QED BY <2>1, <2>3, <3>1 DEF Session, Live
  <2>4. CASE /\ sessions[i].active /\ sessions[i].token \in toks
             /\ ~Expired(sessions[i])
    <3>1. sessions'[i] = [sessions[i] EXCEPT !.last = mono_now]
      BY <2>4 DEF Validated
    <3>2. /\ sessions'[i] \in Session /\ sessions'[i].last = mono_now
          /\ sessions'[i].token = sessions[i].token
          /\ sessions'[i].active = sessions[i].active
      BY <1>1, <2>1, <3>1 DEF Session
    <3>3. ~(mono_now - mono_now > TimeoutS)
      BY <1>1, LimitsAssumption
    <3>4. Live(sessions[i])' /\ Live(sessions[i])
      BY <1>1, <2>4, <3>2, <3>3 DEF Live, Expired
    <3> QED BY <2>4, <3>2, <3>4
  <2> QED BY <2>2, <2>3, <2>4
<1>3. SessionType'
  <2>1. sessions' = [i \in 1..NSessions |-> sessions'[i]]
    BY DEF Validated
  <2>2. \A i \in 1..NSessions : sessions'[i] \in Session
    BY <1>2
  <2> QED BY <2>1, <2>2 DEF SessionType
<1>4. SlotInv'
  BY <1>1, <1>2 DEF SlotInv
<1>5. \A tok \in Tokens : Valid(tok)' <=> Valid(tok)
  BY <1>2 DEF Valid
<1> QED BY <1>3, <1>4, <1>5

\* A session that is only closed.
LEMMA ClosedKeeps ==
    ASSUME ClockType, SessionType, SlotInv, clock' = clock, issued' = issued,
           NEW Gone,
           sessions' = [i \in 1..NSessions |->
                          IF i \in Gone
                          THEN [sessions[i] EXCEPT !.active = FALSE]
                          ELSE sessions[i]]
    PROVE  /\ SessionType' /\ SlotInv'
           /\ \A tok \in Tokens : Valid(tok)' => Valid(tok)
<1>1. mono_now' = mono_now
  BY Clock
<1>2. ASSUME NEW i \in 1..NSessions
      PROVE  /\ sessions'[i] \in Session
             /\ sessions'[i].token = sessions[i].token
             /\ sessions'[i].last = sessions[i].last
             /\ sessions'[i].active => sessions[i].active
             /\ Live(sessions[i])' => Live(sessions[i])
  <2>1. sessions[i] \in Session
    BY DEF SessionType
  <2>2. \/ sessions'[i] = [sessions[i] EXCEPT !.active = FALSE]
        \/ sessions'[i] = sessions[i]
    OBVIOUS
  <2>3. /\ sessions'[i] \in Session
        /\ sessions'[i].token = sessions[i].token
        /\ sessions'[i].last = sessions[i].last
        /\ sessions'[i].active => sessions[i].active
    BY <2>1, <2>2 DEF Session
  <2> QED BY <1>1, <2>3 DEF Live, Expired
<1>3. SessionType'
  BY <1>2 DEF SessionType
<1>4. SlotInv'
  BY <1>2 DEF SlotInv
<1>5. \A tok \in Tokens : Valid(tok)' => Valid(tok)
  BY <1>2 DEF Valid
<1> QED BY <1>3, <1>4, <1>5

LEMMA LogoutKeeps ==
    ASSUME ClockType, SessionType, SlotInv, clock' = clock, issued' = issued,
           NEW tok, sessions' = LoggedOut(sessions, tok)
    PROVE  /\ SessionType' /\ SlotInv'
           /\ \A t \in Tokens : Valid(t)' => Valid(t)
<1>1. \A i \in 1..NSessions :
         sessions[i].token = tok
            <=> i \in {k \in 1..NSessions : sessions[k].token = tok}
  OBVIOUS
<1>2. sessions' = [i \in 1..NSessions |->
                     IF i \in {k \in 1..NSessions : sessions[k].token = tok}
                     THEN [sessions[i] EXCEPT !.active = FALSE]
                     ELSE sessions[i]]
  BY <1>1 DEF LoggedOut
<1> QED BY <1>2, ClosedKeeps

LEMMA NoneKeeps ==
    ASSUME ClockType, SessionType, SlotInv, clock' = clock, issued' = issued,
           sessions' = NoneActive(sessions)
    PROVE  /\ SessionType' /\ SlotInv' /\ \A t \in Tokens : ~Valid(t)'
<1>1. sessions' = [i \in 1..NSessions |->
                     IF i \in 1..NSessions
                     THEN [sessions[i] EXCEPT !.active = FALSE]
                     ELSE sessions[i]]
  BY DEF NoneActive
<1>2. SessionType' /\ SlotInv'
  BY <1>1, ClosedKeeps
<1>3. ASSUME NEW i \in 1..NSessions PROVE ~Live(sessions[i])'
  <2>1. sessions'[i] = [sessions[i] EXCEPT !.active = FALSE]
    BY DEF NoneActive
  <2> QED BY <2>1 DEF SessionType, Session, Live
<1>4. \A t \in Tokens : ~Valid(t)'
  BY <1>3 DEF Valid
<1> QED BY <1>2, <1>4

\* A login takes one slot, for a token nobody has had.
LEMMA IssueKeeps ==
    ASSUME ClockType, SessionType, SlotInv, clock' = clock, IssueToken
    PROVE  /\ SessionType' /\ SlotInv' /\ issued' = issued + 1
           /\ issued + 1 \in Tokens
           /\ LoginSlot \in 1..NSessions
           /\ sessions'[LoginSlot] = [token |-> issued + 1, last |-> mono_now,
                                      active |-> TRUE]
           /\ \A i \in 1..NSessions :
                 i # LoginSlot => sessions'[i] = sessions[i]
           /\ \A tok \in Tokens : tok = issued + 1 => Valid(tok)'
           /\ \A tok \in 1..issued : Valid(tok)' => Valid(tok)
<1>1. mono_now \in 1..MaxTime /\ mono_now' = mono_now
  BY Clock
<1>2. /\ issued' = issued + 1 /\ issued + 1 \in 1..MaxLogins
      /\ issued \in Nat /\ MaxLogins \in Nat
  BY LimitsAssumption DEF SessionType, IssueToken
<1>3. LoginSlot \in 1..NSessions
  BY LoginSlotIs
<1> DEFINE new == [token |-> issued + 1, last |-> mono_now, active |-> TRUE]
<1>4. new \in Session
  BY <1>1, <1>2 DEF Session
<1>5. /\ sessions'[LoginSlot] = new
      /\ \A i \in 1..NSessions : i # LoginSlot => sessions'[i] = sessions[i]
  BY <1>3 DEF IssueToken, SessionType
<1>6. SessionType'
  <2>1. sessions' \in [1..NSessions -> Session]
    BY <1>3, <1>4 DEF IssueToken, SessionType
  <2> QED BY <1>2, <2>1 DEF SessionType
<1>7. new.token = issued + 1 /\ new.last = mono_now /\ new.active = TRUE
  OBVIOUS
<1> HIDE DEF new
<1>8. \A i \in 1..NSessions : sessions[i].token \in Nat
                              /\ sessions[i].token <= issued
  BY LimitsAssumption DEF SlotInv, SessionType, Session
<1>9. SlotInv'
  <2> SUFFICES ASSUME NEW i \in 1..NSessions
               PROVE  /\ sessions'[i].token <= issued'
                      /\ sessions'[i].active =>
                            /\ sessions'[i].token # NoToken
                            /\ sessions'[i].last # 0
                      /\ \A j \in 1..NSessions :
                            sessions'[i].token = sessions'[j].token
                            /\ sessions'[i].token # NoToken => i = j
    BY DEF SlotInv
  <2>1. CASE i = LoginSlot
    <3>1. /\ sessions'[i].token <= issued'
          /\ sessions'[i].token # NoToken /\ sessions'[i].last # 0
      BY <1>1, <1>2, <1>5, <1>7, <2>1 DEF NoToken
    <3>2. \A j \in 1..NSessions :
             j # i => sessions'[j].token # sessions'[i].token
      BY <1>2, <1>5, <1>7, <1>8, <2>1
    <3> QED BY <3>1, <3>2
  <2>2. CASE i # LoginSlot
    <3>1. sessions'[i] = sessions[i]
      BY <1>5, <2>2
    <3>2. /\ sessions[i].token <= issued + 1
          /\ sessions'[LoginSlot].token # sessions[i].token
      BY <1>2, <1>5, <1>7, <1>8
    <3> QED BY <1>2, <1>5, <3>1, <3>2 DEF SlotInv
  <2> QED BY <2>1, <2>2
<1>10. ASSUME NEW tok \in Tokens, tok = issued + 1 PROVE Valid(tok)'
  <2>1. PICK i \in 1..NSessions : i = LoginSlot
    BY <1>3
  <2>2. ~(mono_now - mono_now > TimeoutS)
    BY <1>1, LimitsAssumption
  <2>3. /\ sessions'[i].token = tok /\ sessions'[i].last = mono_now
        /\ sessions'[i].active = TRUE
    BY <1>5, <1>7, <1>10, <2>1
  <2>4. Live(sessions[i])'
    BY <1>1, <2>2, <2>3 DEF Live, Expired
  <2> QED BY <2>3, <2>4 DEF Valid
<1>11. ASSUME NEW tok \in 1..issued, Valid(tok)' PROVE Valid(tok)
  <2>1. PICK i \in 1..NSessions :
           sessions'[i].token = tok /\ Live(sessions[i])'
    BY <1>11 DEF Valid
  <2>2. i # LoginSlot
    BY <1>2, <1>5, <1>7, <2>1
  <2>3. sessions'[i] = sessions[i]
    BY <1>5, <2>2
  <2> QED BY <1>1, <2>1, <2>3 DEF Valid, Live, Expired
<1> QED BY <1>2, <1>3, <1>5, <1>6, <1>9, <1>10, <1>11 DEF Tokens, new

LEMMA TickKeeps ==
    ASSUME ClockType, SessionType, SlotInv, Tick
    PROVE  /\ ClockType' /\ SessionType' /\ SlotInv'
           /\ \A tok \in Tokens : Valid(tok)' => Valid(tok)
<1>1. /\ ClockType' /\ mono_now \in Nat /\ mono_now' \in Nat
      /\ mono_now <= mono_now' /\ UNCHANGED <<sessions, issued>>
  BY ClockTicks, Clock, LimitsAssumption DEF Tick, sessionVars
<1>2. ASSUME NEW i \in 1..NSessions, Live(sessions[i])' PROVE Live(sessions[i])
  <2>1. sessions[i].last \in Nat /\ TimeoutS \in Nat
    BY LimitsAssumption DEF SessionType, Session
  <2> QED BY <1>1, <1>2, <2>1 DEF Live, Expired
<1>3. \A tok \in Tokens : Valid(tok)' => Valid(tok)
  BY <1>1, <1>2 DEF Valid
<1>4. SessionType' /\ SlotInv'
  BY <1>1 DEF SessionType, SlotInv
<1> QED BY <1>1, <1>3, <1>4

-------------------------------------------------------------------------------
(* The sessions and their clients                                          *)

UsedType == used \in [Tokens -> 0..MaxTime]
Sessions == ClockType /\ SessionType /\ SlotInv /\ UsedType /\ UsedInv

\* What one look at a token does, to the table and to its client's clock.
LEMMA UseKeeps ==
    ASSUME Sessions, NEW tok \in 1..issued, clock' = clock,
           sessions' = Validated(sessions, {tok}), issued' = issued, Use(tok)
    PROVE  Sessions'
<1>1. mono_now \in 1..MaxTime /\ mono_now' = mono_now /\ tok \in Tokens
  BY Clock, LimitsAssumption DEF Sessions, SessionType, Tokens
<1>2. ClockType' /\ SessionType' /\ SlotInv'
  BY ValidatedKeeps DEF Sessions, ClockType
<1>3. UsedType'
  BY <1>1 DEF Sessions, UsedType, Use
<1>4. ASSUME NEW i \in 1..NSessions, sessions'[i].active
      PROVE  sessions'[i].last = used'[sessions'[i].token]
  <2>1. sessions[i] \in Session /\ sessions[i].token \in Tokens \cup {0}
    BY DEF Sessions, SessionType, Session, Tokens
  <2>2. CASE ~(sessions[i].active /\ sessions[i].token = tok)
    <3>1. sessions'[i] = sessions[i]
      BY <2>2 DEF Validated
    <3>2. sessions[i].token # tok
      BY <1>4, <2>2, <3>1
    <3>3. used'[sessions[i].token] = used[sessions[i].token]
      <4>1. sessions[i].token \in Tokens
        BY <1>4, <2>1, <3>1 DEF Sessions, SlotInv, NoToken
      <4> QED BY <3>2, <4>1 DEF Use, Sessions, UsedType
    <3> QED BY <1>4, <3>1, <3>3 DEF Sessions, UsedInv
  <2>3. CASE /\ sessions[i].active /\ sessions[i].token = tok
             /\ Expired(sessions[i])
    <3>1. sessions'[i] = [sessions[i] EXCEPT !.active = FALSE]
      BY <2>3 DEF Validated
    <3> QED BY <1>4, <2>1, <3>1 DEF Session
  <2>4. CASE /\ sessions[i].active /\ sessions[i].token = tok
             /\ ~Expired(sessions[i])
    <3>1. sessions'[i] = [sessions[i] EXCEPT !.last = mono_now]
      BY <2>4 DEF Validated
    <3>2. Valid(tok)
      BY <2>4 DEF Valid, Live
    <3>3. used'[tok] = mono_now
      BY <1>1, <3>2 DEF Use, Sessions, UsedType
    <3>4. sessions'[i].last = mono_now /\ sessions'[i].token = tok
      BY <2>1, <2>4, <3>1 DEF Session
    <3> QED BY <3>3, <3>4
  <2> QED BY <2>2, <2>3, <2>4
<1>5. UsedInv'
  BY <1>4 DEF UsedInv
<1> QED BY <1>2, <1>3, <1>5 DEF Sessions

\* Closing sessions leaves the clock of each open one to its client.
LEMMA CloseKeeps ==
    ASSUME Sessions, clock' = clock, issued' = issued, UsedType',
           \A i \in 1..NSessions :
              sessions'[i] \in {sessions[i],
                               [sessions[i] EXCEPT !.active = FALSE]},
           \A i \in 1..NSessions : sessions'[i].active =>
              used'[sessions[i].token] = used[sessions[i].token],
           SessionType', SlotInv'
    PROVE  Sessions'
<1>1. ASSUME NEW i \in 1..NSessions, sessions'[i].active
      PROVE  sessions'[i].last = used'[sessions'[i].token]
  <2>1. sessions[i] \in Session
    BY DEF Sessions, SessionType
  <2>2. sessions'[i] = sessions[i]
    <3>1. [sessions[i] EXCEPT !.active = FALSE].active = FALSE
      BY <2>1 DEF Session
    <3> QED BY <1>1, <3>1
  <2> QED BY <1>1, <2>2 DEF Sessions, UsedInv
<1>2. UsedInv'
  BY <1>1 DEF UsedInv
<1> QED BY <1>2 DEF Sessions, ClockType

LEMMA SessionsStep == ASSUME Sessions, AuthNext PROVE Sessions'
<1>1. mono_now \in 1..MaxTime /\ (clock' = clock => mono_now' = mono_now)
  BY Clock DEF Sessions
<1>2. CASE UNCHANGED <<clock, sessions, issued, used>>
  <2>1. mono_now' = mono_now
    BY <1>1, <1>2
  <2> QED BY <1>2
          DEF Sessions, ClockType, SessionType, SlotInv, UsedType, UsedInv
<1>3. CASE \E a \in Addrs : LoginMalformed(a) \/ LoginWrong(a)
  BY <1>2, <1>3 DEF LoginMalformed, LoginWrong, sessionVars
<1>4. ASSUME NEW a \in Addrs, LoginOk(a) PROVE Sessions'
  <2>1. IssueToken /\ clock' = clock
    BY <1>4 DEF LoginOk
  <2>2. /\ SessionType' /\ SlotInv' /\ issued + 1 \in Tokens
        /\ LoginSlot \in 1..NSessions
        /\ sessions'[LoginSlot] = [token |-> issued + 1, last |-> mono_now,
                                   active |-> TRUE]
        /\ \A i \in 1..NSessions : i # LoginSlot => sessions'[i] = sessions[i]
    BY <2>1, IssueKeeps DEF Sessions
  <2>3. used' = [used EXCEPT ![issued + 1] = mono_now]
    BY <2>1 DEF IssueToken
  <2>4. UsedType'
    BY <1>1, <2>2, <2>3 DEF Sessions, UsedType
  <2>5. ASSUME NEW i \in 1..NSessions, sessions'[i].active
        PROVE  sessions'[i].last = used'[sessions'[i].token]
    <3>1. CASE i = LoginSlot
      <4>1. sessions'[i].last = mono_now /\ sessions'[i].token = issued + 1
        BY <2>2, <3>1
      <4> QED BY <2>2, <2>3, <4>1 DEF Sessions, UsedType
    <3>2. CASE i # LoginSlot
      <4>1. sessions'[i] = sessions[i]
        BY <2>2, <3>2
      <4>2. sessions[i].token \in Nat /\ sessions[i].token <= issued
            /\ issued \in Nat
        BY LimitsAssumption DEF Sessions, SlotInv, SessionType, Session
      <4>3. sessions[i].token # issued + 1
        BY <4>2
      <4>4. sessions[i].token \in Tokens
        BY <2>5, <4>1
           DEF Sessions, SlotInv, SessionType, Session, Tokens, NoToken
      <4>5. used'[sessions[i].token] = used[sessions[i].token]
        BY <2>3, <4>3, <4>4 DEF Sessions, UsedType
      <4> QED BY <2>5, <4>1, <4>5 DEF Sessions, UsedInv
    <3> QED BY <3>1, <3>2
  <2>6. UsedInv'
    BY <2>5 DEF UsedInv
  <2> QED BY <2>1, <2>2, <2>4, <2>6 DEF Sessions, ClockType
<1>5. ASSUME NEW tok \in 1..issued, Request(tok) PROVE Sessions'
  BY <1>5, UseKeeps DEF Request
<1>6. ASSUME NEW tok \in 1..issued, Logout(tok) PROVE Sessions'
  <2>1. sessions' = LoggedOut(sessions, tok)
        /\ UNCHANGED <<clock, issued, used>>
    BY <1>6 DEF Logout
  <2>2. SessionType' /\ SlotInv'
    BY <2>1, LogoutKeeps DEF Sessions
  <2>3. \A i \in 1..NSessions :
           sessions'[i] \in {sessions[i],
                            [sessions[i] EXCEPT !.active = FALSE]}
    BY <2>1 DEF LoggedOut
  <2> QED BY <2>1, <2>2, <2>3, CloseKeeps DEF Sessions, UsedType
<1>7. ASSUME NEW tok \in 1..issued, ChangePassword(tok) PROVE Sessions'
  <2>1. sessions' = NoneActive(sessions) /\ UNCHANGED <<clock, issued>>
    BY <1>7 DEF ChangePassword
  <2>2. SessionType' /\ SlotInv'
    BY <2>1, NoneKeeps DEF Sessions
  <2>3. ASSUME NEW i \in 1..NSessions
        PROVE  sessions'[i] = [sessions[i] EXCEPT !.active = FALSE]
    BY <2>1 DEF NoneActive
  <2>4. \A i \in 1..NSessions : sessions'[i].active = FALSE
    BY <2>3 DEF Sessions, SessionType, Session
  <2>5. UsedType'
    <3>1. Use(tok) /\ tok \in Tokens
      BY <1>7, LimitsAssumption
         DEF ChangePassword, Sessions, SessionType, Tokens
    <3> QED BY <1>1, <3>1 DEF Sessions, UsedType, Use
  <2> QED BY <2>1, <2>2, <2>3, <2>4, <2>5, CloseKeeps
<1>8. CASE Tick
  <2>1. ClockType' /\ SessionType' /\ SlotInv'
    BY <1>8, TickKeeps DEF Sessions
  <2>2. UNCHANGED <<sessions, issued, used>>
    BY <1>8 DEF Tick, sessionVars
  <2> QED BY <2>1, <2>2 DEF Sessions, UsedType, UsedInv
<1> QED BY <1>3, <1>4, <1>5, <1>6, <1>7, <1>8 DEF AuthNext

-------------------------------------------------------------------------------
(* The counters                                                            *)

\* A change of the table, entry by entry, that leaves the addresses alone.
Fits(tbl, new, w) ==
    /\ new = [i \in 1..NHosts |-> new[i]] /\ w \in [Addrs -> 0..MaxFailed]
    /\ \A i \in 1..NHosts :
          /\ new[i] \in Host /\ new[i].used = tbl[i].used
          /\ new[i].ip = tbl[i].ip
          /\ tbl[i].used => new[i].failed <= w[tbl[i].ip]
          /\ ~tbl[i].used => new[i].failed = 0
          /\ new[i].until # 0 <=> new[i].failed = MaxFailed

LEMMA EntriesKeep ==
    ASSUME NEW tbl, NEW w, HostsOK(tbl, w), NEW new, NEW w2, Fits(tbl, new, w2)
    PROVE  HostsOK(new, w2)
<1>1. new \in [1..NHosts -> Host] /\ w2 \in [Addrs -> 0..MaxFailed]
  BY DEF Fits
<1>2. ASSUME NEW i \in 1..NHosts
      PROVE  /\ new[i].used = tbl[i].used /\ new[i].ip = tbl[i].ip
             /\ tbl[i].used => tbl[i].ip \in Addrs
             /\ new[i].used => new[i].failed <= w2[new[i].ip]
             /\ ~new[i].used => new[i].failed = 0
             /\ new[i].until # 0 <=> new[i].failed = MaxFailed
  BY DEF Fits, HostsOK
<1>3. \A i, j \in 1..NHosts :
         new[i].used /\ new[j].used /\ new[i].ip = new[j].ip => i = j
  BY <1>2 DEF HostsOK
<1> QED BY <1>1, <1>2, <1>3 DEF HostsOK

\* Looking at a lockout forgives those that lapsed and leaves those that run.
LEMMA ForgivenKeeps ==
    ASSUME HostsOK(hosts, wrong), ClockType, NEW a \in Addrs
    PROVE  /\ HostsOK(Forgiven(a), wrong)
           /\ \A i \in 1..NHosts :
                 /\ Forgiven(a)[i].used = hosts[i].used
                 /\ Forgiven(a)[i].ip = hosts[i].ip
                 /\ Forgiven(a)[i] = hosts[i] \/ Forgiven(a)[i].until = 0
                 /\ Running(hosts[i]) => Forgiven(a)[i] = hosts[i]
           /\ ~LockedOut(a) =>
                 \A i \in EntriesOf(a) : Forgiven(a)[i].until = 0
<1>1. ASSUME NEW i \in 1..NHosts
      PROVE  /\ Forgiven(a)[i] \in Host
             /\ Forgiven(a)[i].used = hosts[i].used
             /\ Forgiven(a)[i].ip = hosts[i].ip
             /\ \/ Forgiven(a)[i] = hosts[i]
                \/ /\ Forgiven(a)[i].until = 0 /\ Forgiven(a)[i].failed = 0
                   /\ ~Running(hosts[i])
             /\ ~Running(hosts[i]) /\ i \in EntriesOf(a)
                   => Forgiven(a)[i].until = 0
  <2>1. hosts[i] \in Host /\ 0 \in 0..MaxFailed /\ 0 \in 0..MaxTime + LockoutS
    BY LimitsAssumption DEF HostsOK
  <2>2. CASE i \in EntriesOf(a) /\ hosts[i].until # 0 /\ ~Running(hosts[i])
    <3>1. Forgiven(a)[i] = [hosts[i] EXCEPT !.until = 0, !.failed = 0]
      BY <2>2 DEF Forgiven
    <3>2. /\ Forgiven(a)[i].until = 0 /\ Forgiven(a)[i].failed = 0
          /\ Forgiven(a)[i].used = hosts[i].used
          /\ Forgiven(a)[i].ip = hosts[i].ip
          /\ Forgiven(a)[i] \in Host
      BY <2>1, <3>1 DEF Host
    <3> QED BY <2>2, <3>2
  <2>3. CASE ~(i \in EntriesOf(a) /\ hosts[i].until # 0 /\ ~Running(hosts[i]))
    <3>1. Forgiven(a)[i] = hosts[i]
      BY <2>3 DEF Forgiven
    <3> QED BY <2>1, <2>3, <3>1
  <2> QED BY <2>2, <2>3
<1>2. HostsOK(Forgiven(a), wrong)
  <2>1. ASSUME NEW i \in 1..NHosts
        PROVE  /\ Forgiven(a)[i] \in Host
               /\ Forgiven(a)[i].used = hosts[i].used
               /\ Forgiven(a)[i].ip = hosts[i].ip
               /\ hosts[i].used =>
                     Forgiven(a)[i].failed <= wrong[hosts[i].ip]
               /\ ~hosts[i].used => Forgiven(a)[i].failed = 0
               /\ Forgiven(a)[i].until # 0
                     <=> Forgiven(a)[i].failed = MaxFailed
    <3>1. CASE Forgiven(a)[i] = hosts[i]
      BY <1>1, <3>1 DEF HostsOK
    <3>2. CASE Forgiven(a)[i].until = 0 /\ Forgiven(a)[i].failed = 0
      <4>1. hosts[i].used => wrong[hosts[i].ip] \in Nat
        BY LimitsAssumption DEF HostsOK
      <4> QED BY <1>1, <3>2, <4>1, LimitsAssumption
    <3> QED BY <1>1, <3>1, <3>2
  <2>2. Forgiven(a) = [i \in 1..NHosts |-> Forgiven(a)[i]]
    BY DEF Forgiven
  <2>3. wrong \in [Addrs -> 0..MaxFailed]
    BY DEF HostsOK
  <2>4. Fits(hosts, Forgiven(a), wrong)
    BY <2>1, <2>2, <2>3 DEF Fits
  <2> QED BY <2>4, EntriesKeep
<1>3. ~LockedOut(a) => \A i \in EntriesOf(a) : Forgiven(a)[i].until = 0
  BY <1>1 DEF LockedOut, EntriesOf
<1> QED BY <1>1, <1>2, <1>3

\* Finding a counter for an address takes nothing of another's over, and takes
\* one in use only where all are, the one whose lockout ends soonest.
LEMMA ClaimedKeeps ==
    ASSUME NEW tbl, HostsOK(tbl, wrong), NEW a \in Addrs,
           \A i \in 1..NHosts : /\ tbl[i].used = hosts[i].used
                                /\ tbl[i].ip = hosts[i].ip
    PROVE  /\ HostsOK(Claimed(tbl, a), wrong)
           /\ \A i \in 1..NHosts :
                 \/ Claimed(tbl, a)[i] = tbl[i]
                 \/ /\ Claimed(tbl, a)[i].until = 0 /\ EntriesOf(a) = {}
                    /\ \/ ~tbl[i].used
                       \/ \A j \in 1..NHosts :
                             tbl[j].used /\ tbl[i].until <= tbl[j].until
<1>1. CASE EntriesOf(a) # {}
  <2>1. Claimed(tbl, a) = tbl
    BY <1>1 DEF Claimed
  <2> QED BY <2>1
<1>2. CASE EntriesOf(a) = {}
  <2> DEFINE free == {i \in 1..NHosts : ~tbl[i].used}
             slot == IF free # {} THEN Min(free) ELSE Recycled(tbl)
             new == [used |-> TRUE, ip |-> a, failed |-> 0, until |-> 0]
  <2>1. /\ slot \in 1..NHosts
        /\ \/ ~tbl[slot].used
           \/ \A j \in 1..NHosts :
                 tbl[j].used /\ tbl[slot].until <= tbl[j].until
    <3>1. CASE free # {}
      <4>1. free \subseteq Nat
        OBVIOUS
      <4>2. Min(free) \in free
        <5> HIDE DEF free
        <5> QED BY <3>1, <4>1, Least
      <4> QED BY <3>1, <4>2
    <3>2. CASE free = {}
      <4> DEFINE Until == [i \in 1..NHosts |-> tbl[i].until]
      <4>1. \A i \in 1..NHosts : tbl[i].until \in Nat
        BY LimitsAssumption DEF HostsOK, Host
      <4>2. \E i \in 1..NHosts : \A j \in 1..NHosts :
               Until[i] < Until[j] \/ (Until[i] = Until[j] /\ i <= j)
        <5>1. /\ 1..NHosts \subseteq Nat /\ 1..NHosts # {}
              /\ \A i \in 1..NHosts : Until[i] \in Nat
          BY <4>1, TablesAssumption
        <5> HIDE DEF Until
        <5> QED BY <5>1, FirstLeast
      <4>3. \E i \in 1..NHosts : \A j \in 1..NHosts :
               \/ tbl[i].until < tbl[j].until
               \/ tbl[i].until = tbl[j].until /\ i <= j
        BY <4>2
      <4>4. /\ Recycled(tbl) \in 1..NHosts
            /\ \A j \in 1..NHosts :
                  \/ tbl[Recycled(tbl)].until < tbl[j].until
                  \/ /\ tbl[Recycled(tbl)].until = tbl[j].until
                     /\ Recycled(tbl) <= j
        BY <4>3 DEF Recycled
      <4>5. \A j \in 1..NHosts : tbl[Recycled(tbl)].until <= tbl[j].until
        BY <4>1, <4>4
      <4> QED BY <3>2, <4>4, <4>5
    <3> QED BY <3>1, <3>2
  <2>2. Claimed(tbl, a) = [tbl EXCEPT ![slot] = new]
    BY <1>2 DEF Claimed
  <2>3. /\ new \in Host /\ new.used = TRUE /\ new.ip = a /\ new.failed = 0
        /\ new.until = 0
    BY LimitsAssumption DEF Host
  <2>4. \A i \in 1..NHosts : ~(tbl[i].used /\ tbl[i].ip = a)
    BY <1>2 DEF EntriesOf
  <2> HIDE DEF slot, new
  <2>5. /\ tbl \in [1..NHosts -> Host]
        /\ Claimed(tbl, a) \in [1..NHosts -> Host]
        /\ Claimed(tbl, a)[slot] = new
        /\ \A i \in 1..NHosts : i # slot => Claimed(tbl, a)[i] = tbl[i]
    BY <2>1, <2>2, <2>3 DEF HostsOK
  <2>6. wrong[a] \in Nat /\ 0 # MaxFailed
    BY LimitsAssumption DEF HostsOK
  <2>7. HostsOK(Claimed(tbl, a), wrong)
    <3> SUFFICES ASSUME NEW i \in 1..NHosts
                 PROVE  LET h == Claimed(tbl, a)[i] IN
                        /\ h.used => h.ip \in Addrs /\ h.failed <= wrong[h.ip]
                        /\ ~h.used => h.failed = 0
                        /\ h.until # 0 <=> h.failed = MaxFailed
                        /\ \A j \in 1..NHosts :
                              h.used /\ Claimed(tbl, a)[j].used
                              /\ h.ip = Claimed(tbl, a)[j].ip => i = j
      BY <2>5 DEF HostsOK
    <3>1. CASE i = slot
      BY <2>3, <2>4, <2>5, <2>6, <3>1
    <3>2. CASE i # slot
      <4>1. Claimed(tbl, a)[i] = tbl[i] /\ ~(tbl[i].used /\ tbl[i].ip = a)
        BY <2>4, <2>5, <3>2
      <4>2. \A j \in 1..NHosts : j = slot \/ Claimed(tbl, a)[j] = tbl[j]
        BY <2>5
      <4> QED BY <2>3, <2>5, <4>1, <4>2 DEF HostsOK
    <3> QED BY <3>1, <3>2
  <2> QED BY <1>2, <2>1, <2>3, <2>5, <2>7
<1> QED BY <1>1, <1>2

\* One more wrong password, from an address that is not locked out.
LEMMA FailedKeeps ==
    ASSUME NEW tbl, HostsOK(tbl, wrong), NEW a \in Addrs, ClockType,
           \A i \in 1..NHosts :
              tbl[i].used /\ tbl[i].ip = a => tbl[i].until = 0
    PROVE  HostsOK(Failed(tbl, a),
                   [wrong EXCEPT ![a] = IF @ < MaxFailed THEN @ + 1 ELSE @])
<1> DEFINE w == [wrong EXCEPT ![a] = IF @ < MaxFailed THEN @ + 1 ELSE @]
<1>1. /\ w \in [Addrs -> 0..MaxFailed]
      /\ w[a] = IF wrong[a] < MaxFailed THEN wrong[a] + 1 ELSE wrong[a]
      /\ \A b \in Addrs : b # a => w[b] = wrong[b]
      /\ wrong[a] \in 0..MaxFailed /\ MaxFailed \in Nat
  BY LimitsAssumption DEF HostsOK
<1> HIDE DEF w
<1>2. ASSUME NEW i \in 1..NHosts
      PROVE  LET h == Failed(tbl, a)[i] IN
             /\ h \in Host /\ h.used = tbl[i].used /\ h.ip = tbl[i].ip
             /\ tbl[i].used => h.failed <= w[tbl[i].ip]
             /\ ~tbl[i].used => h.failed = 0
             /\ h.until # 0 <=> h.failed = MaxFailed
  <2>1. /\ tbl[i] \in Host /\ tbl[i].failed \in 0..MaxFailed
        /\ tbl[i].until # 0 <=> tbl[i].failed = MaxFailed
        /\ tbl[i].used =>
              tbl[i].ip \in Addrs /\ tbl[i].failed <= wrong[tbl[i].ip]
        /\ ~tbl[i].used => tbl[i].failed = 0
    BY DEF HostsOK, Host
  <2>2. CASE ~(tbl[i].used /\ tbl[i].ip = a)
    <3>1. Failed(tbl, a)[i] = tbl[i]
      BY <2>2 DEF Failed
    <3> QED BY <1>1, <2>1, <2>2, <3>1
  <2>3. CASE tbl[i].used /\ tbl[i].ip = a
    <3> DEFINE until == IF tbl[i].failed + 1 >= MaxFailed
                        THEN mono_now + LockoutS ELSE tbl[i].until
    <3>1. Failed(tbl, a)[i] = [tbl[i] EXCEPT !.failed = tbl[i].failed + 1,
                                             !.until = until]
      BY <2>3 DEF Failed
    <3>2. tbl[i].until = 0
      BY <2>3
    <3>3. /\ tbl[i].failed + 1 \in 0..MaxFailed
          /\ tbl[i].failed + 1 <= w[a]
      BY <1>1, <2>1, <2>3, <3>2
    <3>4. /\ until \in 0..MaxTime + LockoutS
          /\ until # 0 <=> tbl[i].failed + 1 = MaxFailed
      <4>1. mono_now \in 1..MaxTime
        BY Clock
      <4> QED BY <3>2, <3>3, <4>1, LimitsAssumption
    <3> HIDE DEF until
    <3>5. LET h == Failed(tbl, a)[i] IN
          /\ h \in Host /\ h.used = tbl[i].used /\ h.ip = tbl[i].ip
          /\ h.failed = tbl[i].failed + 1 /\ h.until = until
      BY <2>1, <3>1, <3>3, <3>4 DEF Host
    <3> QED BY <2>3, <3>3, <3>4, <3>5
  <2> QED BY <2>2, <2>3
<1>3. Failed(tbl, a) = [i \in 1..NHosts |-> Failed(tbl, a)[i]]
  BY DEF Failed
<1>4. Fits(tbl, Failed(tbl, a), w)
  BY <1>1, <1>2, <1>3 DEF Fits
<1> QED BY <1>4, EntriesKeep DEF w

\* The right password.
LEMMA TrustedKeeps ==
    ASSUME NEW tbl, HostsOK(tbl, wrong), NEW a \in Addrs
    PROVE  HostsOK(Trusted(tbl, a), [wrong EXCEPT ![a] = 0])
<1> DEFINE w == [wrong EXCEPT ![a] = 0]
<1>1. /\ w \in [Addrs -> 0..MaxFailed] /\ w[a] = 0
      /\ \A b \in Addrs : b # a => w[b] = wrong[b]
      /\ 0 \in 0..MaxFailed /\ 0 \in 0..MaxTime + LockoutS /\ 0 # MaxFailed
  BY LimitsAssumption DEF HostsOK
<1> HIDE DEF w
<1>2. ASSUME NEW i \in 1..NHosts
      PROVE  LET h == Trusted(tbl, a)[i] IN
             /\ h \in Host /\ h.used = tbl[i].used /\ h.ip = tbl[i].ip
             /\ tbl[i].used => h.failed <= w[tbl[i].ip]
             /\ ~tbl[i].used => h.failed = 0
             /\ h.until # 0 <=> h.failed = MaxFailed
  <2>1. /\ tbl[i] \in Host
        /\ tbl[i].until # 0 <=> tbl[i].failed = MaxFailed
        /\ tbl[i].used =>
              tbl[i].ip \in Addrs /\ tbl[i].failed <= wrong[tbl[i].ip]
        /\ ~tbl[i].used => tbl[i].failed = 0
    BY DEF HostsOK
  <2>2. CASE ~(tbl[i].used /\ tbl[i].ip = a)
    <3>1. Trusted(tbl, a)[i] = tbl[i]
      BY <2>2 DEF Trusted
    <3> QED BY <1>1, <2>1, <2>2, <3>1
  <2>3. CASE tbl[i].used /\ tbl[i].ip = a
    <3>1. Trusted(tbl, a)[i] = [tbl[i] EXCEPT !.failed = 0, !.until = 0]
      BY <2>3 DEF Trusted
    <3>2. LET h == Trusted(tbl, a)[i] IN
          /\ h \in Host /\ h.used = tbl[i].used /\ h.ip = tbl[i].ip
          /\ h.failed = 0 /\ h.until = 0
      BY <1>1, <2>1, <3>1 DEF Host
    <3> QED BY <1>1, <2>3, <3>2
  <2> QED BY <2>2, <2>3
<1>3. Trusted(tbl, a) = [i \in 1..NHosts |-> Trusted(tbl, a)[i]]
  BY DEF Trusted
<1>4. Fits(tbl, Trusted(tbl, a), w)
  BY <1>1, <1>2, <1>3 DEF Fits
<1> QED BY <1>4, EntriesKeep DEF w

\* A wrong password, as the handler counts it.
LEMMA WrongKeeps ==
    ASSUME ClockType, HostsOK(hosts, wrong), NEW a \in Addrs, LoginWrong(a)
    PROVE  /\ HostsOK(hosts', wrong')
           /\ \A i \in 1..NHosts :
                 Running(hosts[i])
                 /\ Claimed(Forgiven(a), a)[i] = Forgiven(a)[i]
                    => hosts'[i] = Forgiven(a)[i]
<1> DEFINE F == Forgiven(a)
           C == Claimed(F, a)
<1>1. /\ HostsOK(F, wrong)
      /\ \A i \in 1..NHosts :
            F[i].used = hosts[i].used /\ F[i].ip = hosts[i].ip
      /\ \A i \in 1..NHosts : Running(hosts[i]) => F[i] = hosts[i]
      /\ \A i \in EntriesOf(a) : F[i].until = 0
  BY ForgivenKeeps DEF LoginWrong
<1> HIDE DEF F
<1>2. /\ HostsOK(C, wrong)
      /\ \A i \in 1..NHosts :
            C[i] = F[i] \/ (C[i].until = 0 /\ EntriesOf(a) = {})
  BY <1>1, ClaimedKeeps
<1> HIDE DEF C
<1>3. \A i \in 1..NHosts : C[i].used /\ C[i].ip = a => C[i].until = 0
  <2>1. \A i \in 1..NHosts : F[i].used /\ F[i].ip = a => i \in EntriesOf(a)
    BY <1>1 DEF EntriesOf
  <2> QED BY <1>1, <1>2, <2>1
<1>4. /\ hosts' = Failed(C, a)
      /\ wrong' = [wrong EXCEPT ![a] = IF @ < MaxFailed THEN @ + 1 ELSE @]
  BY DEF LoginWrong, C, F
<1>5. HostsOK(hosts', wrong')
  BY <1>2, <1>3, <1>4, FailedKeeps
<1>6. ASSUME NEW i \in 1..NHosts, Running(hosts[i]), C[i] = F[i]
      PROVE  hosts'[i] = C[i]
  <2>1. i \notin EntriesOf(a)
    BY <1>6 DEF LoginWrong, LockedOut
  <2>2. ~(C[i].used /\ C[i].ip = a)
    BY <1>1, <1>6, <2>1 DEF EntriesOf
  <2> QED BY <1>4, <2>2 DEF Failed
<1> QED BY <1>5, <1>6 DEF C, F

LEMMA HostsStep ==
    ASSUME ClockType, HostsOK(hosts, wrong), AuthNext
    PROVE  HostsOK(hosts', wrong')
<1>1. CASE UNCHANGED <<hosts, wrong>>
  BY <1>1
<1>2. ASSUME NEW a \in Addrs, LoginMalformed(a) PROVE HostsOK(hosts', wrong')
  <2>1. hosts' = Forgiven(a) /\ wrong' = wrong
    BY <1>2 DEF LoginMalformed
  <2> QED BY <2>1, ForgivenKeeps
<1>3. ASSUME NEW a \in Addrs, LoginWrong(a) PROVE HostsOK(hosts', wrong')
  BY <1>3, WrongKeeps
<1>4. ASSUME NEW a \in Addrs, LoginOk(a) PROVE HostsOK(hosts', wrong')
  <2>1. /\ hosts' = Trusted(Forgiven(a), a)
        /\ wrong' = [wrong EXCEPT ![a] = 0]
    BY <1>4 DEF LoginOk
  <2> QED BY <2>1, ForgivenKeeps, TrustedKeeps
<1>5. CASE Tick
  BY <1>1, <1>5 DEF Tick, hostVars
<1>6. CASE \E tok \in 1..issued :
              Request(tok) \/ Logout(tok) \/ ChangePassword(tok)
  BY <1>1, <1>6 DEF Request, Logout, ChangePassword, hostVars
<1> QED BY <1>2, <1>3, <1>4, <1>5, <1>6 DEF AuthNext

-------------------------------------------------------------------------------
(* Results                                                                 *)

IInv == Sessions /\ HostsOK(hosts, wrong)

LEMMA InitIInv == AuthInit => IInv
<1> SUFFICES ASSUME AuthInit PROVE IInv
  OBVIOUS
<1> USE LimitsAssumption
<1>1. /\ clock = TicksPerSec /\ issued = 0
      /\ sessions = [i \in 1..NSessions |-> NoSession]
      /\ hosts = [i \in 1..NHosts |-> NoHost]
      /\ wrong = [a \in Addrs |-> 0] /\ used = [tok \in Tokens |-> 0]
  BY DEF AuthInit
<1>2. /\ NoSession \in Session /\ NoSession.token = NoToken
      /\ NoSession.active = FALSE
  BY DEF NoSession, Session, NoToken
<1>3. /\ NoHost \in Host /\ NoHost.used = FALSE /\ NoHost.failed = 0
      /\ NoHost.until = 0
  BY DEF NoHost, Host
<1>4. ClockType /\ SessionType /\ UsedType
  <2>1. clock \in TicksPerSec..MaxTime /\ issued \in 0..MaxLogins
    BY <1>1
  <2>2. used \in [Tokens -> 0..MaxTime]
    BY <1>1
  <2> QED BY <1>1, <1>2, <2>1, <2>2 DEF ClockType, SessionType, UsedType
<1>5. SlotInv /\ UsedInv
  BY <1>1, <1>2 DEF SlotInv, UsedInv, NoToken
<1>6. HostsOK(hosts, wrong)
  <2>1. wrong \in [Addrs -> 0..MaxFailed] /\ MaxFailed # 0
    BY <1>1
  <2> QED BY <1>1, <1>3, <2>1 DEF HostsOK
<1> QED BY <1>4, <1>5, <1>6 DEF IInv, Sessions

LEMMA StepIInv == IInv /\ [AuthNext]_authVars => IInv'
<1> SUFFICES ASSUME IInv, [AuthNext]_authVars PROVE IInv'
  OBVIOUS
<1>1. CASE AuthNext
  BY <1>1, SessionsStep, HostsStep DEF IInv, Sessions
<1>2. CASE UNCHANGED authVars
  <2>1. UNCHANGED <<clock, sessions, issued, hosts, wrong, used>>
    BY <1>2 DEF authVars
  <2>2. mono_now' = mono_now
    BY <2>1 DEF mono_now
  <2> QED BY <2>1, <2>2 DEF IInv, Sessions, ClockType, SessionType, SlotInv,
                            UsedType, UsedInv
<1> QED BY <1>1, <1>2

\* The sessions and the counters keep to their tables, whatever is asked of
\* auth.c, and in any order.
THEOREM AuthInvariant == AuthSpec => []IInv
<1> QED BY InitIInv, StepIInv, PTL DEF AuthSpec

\* A counter never passes its limit and a token is never one not yet drawn.
THEOREM AuthTypeCorrect == AuthSpec => []AuthTypeOK
<1>1. IInv => AuthTypeOK
  BY DEF IInv, Sessions, ClockType, SessionType, UsedType, HostsOK, AuthTypeOK,
         Session, Host
<1> QED BY <1>1, AuthInvariant, PTL

\* No session is live longer than the timeout after its client's last request.
THEOREM SessionsExpire == AuthSpec => []AbandonedExpires
<1>1. IInv => AbandonedExpires
  <2> SUFFICES ASSUME IInv, NEW i \in 1..NSessions, Live(sessions[i])
               PROVE  mono_now - used[sessions[i].token] <= TimeoutS
    BY DEF AbandonedExpires
  <2>1. sessions[i].last = used[sessions[i].token]
    BY DEF IInv, Sessions, UsedInv, Live
  <2>2. sessions[i].last \in Nat /\ mono_now \in Nat /\ TimeoutS \in Nat
    BY Clock, LimitsAssumption DEF IInv, Sessions, SessionType, Session
  <2>3. ~(mono_now - sessions[i].last > TimeoutS)
    BY DEF Live, Expired
  <2> QED BY <2>1, <2>2, <2>3
<1> QED BY <1>1, AuthInvariant, PTL

\* An address is locked out only for wrong passwords of its own.
THEOREM LockoutIsOwn == AuthSpec => []NoInheritedLockout
<1>1. IInv => NoInheritedLockout
  <2> SUFFICES ASSUME IInv, NEW a \in Addrs, LockedOut(a)
               PROVE  wrong[a] >= MaxFailed
    BY DEF NoInheritedLockout
  <2>1. PICK i \in EntriesOf(a) : Running(hosts[i])
    BY DEF LockedOut
  <2>2. i \in 1..NHosts /\ hosts[i].used /\ hosts[i].ip = a
        /\ hosts[i].until # 0
    BY <2>1 DEF EntriesOf, Running
  <2>3. hosts[i].failed = MaxFailed /\ hosts[i].failed <= wrong[a]
        /\ wrong[a] \in 0..MaxFailed
    BY <2>2 DEF IInv, HostsOK
  <2> QED BY <2>3, LimitsAssumption
<1> QED BY <1>1, AuthInvariant, PTL

\* A login ends another session only for want of a slot, and then the one whose
\* client has been away the longest.
THEOREM OldestEvicted == AuthSpec => LruEviction
<1>1. ASSUME IInv, [AuthNext]_authVars, issued' # issued,
             NEW i \in 1..NSessions, Live(sessions[i]),
             sessions'[i] # sessions[i], NEW j \in 1..NSessions
      PROVE  /\ Live(sessions[j])
             /\ used[sessions[i].token] <= used[sessions[j].token]
             /\ j # i => sessions'[j] = sessions[j]
  <2>1. IssueToken /\ clock' = clock
    BY <1>1 DEF AuthNext, authVars, LoginMalformed, LoginWrong, LoginOk,
                Request, Logout, ChangePassword, Tick, sessionVars
  <2>2. i = LoginSlot /\ (j # i => sessions'[j] = sessions[j])
    BY <1>1, <2>1, IssueKeeps DEF IInv, Sessions
  <2>3. Live(sessions[j]) /\ sessions[i].last <= sessions[j].last
    BY <1>1, <2>2, LoginSlotIs DEF IInv, Sessions
  <2> QED BY <1>1, <2>2, <2>3 DEF IInv, Sessions, UsedInv, Live
<1>2. IInv /\ [AuthNext]_authVars =>
         [issued' # issued =>
             \A i \in 1..NSessions :
                Live(sessions[i]) /\ sessions'[i] # sessions[i] =>
                   \A j \in 1..NSessions :
                      /\ Live(sessions[j])
                      /\ used[sessions[i].token] <= used[sessions[j].token]
                      /\ j # i => sessions'[j] = sessions[j]
         ]_authVars
  BY <1>1
<1> QED BY <1>2, AuthInvariant, PTL DEF AuthSpec, LruEviction

\* A lockout that runs is cut short only where every counter is running one,
\* and then it is the one with the least left.
THEOREM LockoutRuns == AuthSpec => LockoutHonoured
<1>1. ASSUME IInv, AuthNext, NEW i \in 1..NHosts, Running(hosts[i]),
             hosts'[i] # hosts[i], NEW j \in 1..NHosts
      PROVE  Running(hosts[j]) /\ hosts[i].until <= hosts[j].until
  <2>1. PICK a \in Addrs : LoginMalformed(a) \/ LoginWrong(a) \/ LoginOk(a)
    BY <1>1 DEF AuthNext, Tick, Request, Logout, ChangePassword, hostVars
  <2> DEFINE F == Forgiven(a)
             C == Claimed(F, a)
  <2>2. /\ HostsOK(F, wrong)
        /\ \A k \in 1..NHosts :
              /\ F[k].used = hosts[k].used /\ F[k].ip = hosts[k].ip
              /\ F[k] = hosts[k] \/ F[k].until = 0
              /\ Running(hosts[k]) => F[k] = hosts[k]
    BY <1>1, ForgivenKeeps DEF IInv, Sessions
  <2>3. LoginWrong(a)
    <3>1. CASE LoginMalformed(a)
      BY <1>1, <2>2, <3>1 DEF LoginMalformed
    <3>2. CASE LoginOk(a)
      <4>1. i \notin EntriesOf(a)
        BY <1>1, <3>2 DEF LoginOk, LockedOut
      <4>2. ~(F[i].used /\ F[i].ip = a)
        BY <2>2, <4>1 DEF EntriesOf
      <4>3. hosts'[i] = F[i]
        BY <3>2, <4>2 DEF LoginOk, Trusted
      <4> QED BY <1>1, <2>2, <4>3
    <3> QED BY <2>1, <3>1, <3>2
  <2>4. C[i] # F[i]
    BY <1>1, <2>2, <2>3, WrongKeeps DEF IInv, Sessions
  <2>5. \/ ~F[i].used
        \/ \A k \in 1..NHosts : F[k].used /\ F[i].until <= F[k].until
    <3>1. \A k \in 1..NHosts :
             F[k].used = hosts[k].used /\ F[k].ip = hosts[k].ip
      BY <2>2
    <3> HIDE DEF F
    <3> QED BY <2>2, <2>4, <3>1, ClaimedKeeps
  <2>6. /\ F[i] = hosts[i] /\ hosts[i].until # 0 /\ mono_now < hosts[i].until
    BY <1>1, <2>2 DEF Running
  <2>7. F[i].used
    BY <1>1, <2>6, LimitsAssumption DEF IInv, HostsOK
  <2>8. /\ mono_now \in Nat /\ F[j].until \in Nat /\ hosts[i].until \in Nat
    <3>1. mono_now \in 1..MaxTime
      BY <1>1, Clock DEF IInv, Sessions
    <3>2. F[j] \in Host /\ hosts[i] \in Host
      BY <1>1, <2>2 DEF IInv, HostsOK
    <3> QED BY <3>1, <3>2, LimitsAssumption DEF Host
  <2>9. hosts[i].until <= F[j].until /\ F[j].until # 0 /\ mono_now < F[j].until
    BY <2>5, <2>6, <2>7, <2>8
  <2>10. F[j] = hosts[j]
    BY <2>2, <2>9
  <2> QED BY <2>9, <2>10 DEF Running
<1>2. IInv /\ [AuthNext]_authVars =>
         [\A i \in 1..NHosts :
             Running(hosts[i]) /\ hosts'[i] # hosts[i] =>
                \A j \in 1..NHosts :
                   Running(hosts[j]) /\ hosts[i].until <= hosts[j].until
         ]_authVars
  BY <1>1
<1> QED BY <1>2, AuthInvariant, PTL DEF AuthSpec, LockoutHonoured
==============================================================================
