----------------------------- MODULE StoreProofs -----------------------------
(***************************************************************************)
(* What a reset in the middle of a save leaves behind, for any passwords,  *)
(* requests, number of requests, resets and failed writes.                 *)
(***************************************************************************)
EXTENDS Store, TLAPS

Number == 0..MaxPosts + MaxFaults + 1
HashType == [pw : Passwords \cup {Default},
             salt : 1..MaxPosts + MaxFaults + 1, ver : {0, 1}]
TypeOf(k) == IF k = "auth_hash" THEN HashType ELSE Number

\* The two stores are functions; the password is set up or it is not.
ShapeInv ==
    /\ s_config = [k \in Keys |-> s_config[k]]
    /\ flash = [k \in Keys |-> flash[k]]
    /\ s_config["auth_init"] \in {0, 1}
    /\ flash["auth_init"] \in {0, 1, Absent}

\* config_init's reading of a key.
Value(k) == IF flash[k] = Absent THEN 0 ELSE flash[k]

\* Flash has what the running configuration has.
Synced(k) == IF k = "auth_hash" THEN flash[k] = s_config[k]
             ELSE Value(k) = s_config[k]

Password == s_config["auth_hash"].pw
Initialized == s_config["auth_init"] = 1

\* The salt and the version are those the hash was made with.
Whole(c) == /\ c["auth_hash"].salt = c["auth_salt"]
            /\ c["auth_hash"].ver = c["hash_ver"]

\* No password was ever saved: each boot makes up a hash of the default one.
Factory ==
    /\ flash["auth_hash"] = Absent
    /\ Password = Default /\ Whole(s_config)

\* After a reset now, pw would open the device.
Loads(pw) ==
    IF flash["auth_hash"] = Absent THEN pw = Default
    ELSE flash["auth_hash"] = Hash(pw, Value("auth_salt"), Value("hash_ver"))

SavingPassword == saving > 0 /\ Current = "new_password"

\* A key that was written and not lost is the same on both sides.
SaveInv ==
    /\ \A k \in Keys \ lost :
          Written(k) \/ (saving = 0 /\ k \notin Credential) => Synced(k)
    /\ saving = 0 => Factory \/ \A k \in Credential \ lost : Synced(k)

\* A device that is not set up has nothing but the password to be set, and
\* flash does not say it is set up before the running configuration does.
SetupInv ==
    /\ flash["auth_init"] = 1 => Initialized
    /\ ~Initialized => saving = 0 /\ todo \subseteq {"new_password"}
    /\ todo # {} => reply = "none"

\* The password is the one before the request or the one it sets.
RequestInv ==
    ~torn =>
        /\ Whole(s_config) /\ Password \in {prev, next}
        /\ Initialized => Password # Default
        /\ reply = "error" => Password = prev
        /\ todo # {} /\ ~SavingPassword => prev = next
        /\ SavingPassword => Password = next

\* What a reset would find: before the first of the credentials is written it
\* is all of the old ones.
FlashInv ==
    ~torn =>
        /\ ~SavingPassword => \/ Factory /\ ~Initialized
                              \/ \A k \in Credential \ lost : Synced(k)
        /\ SavingPassword /\ saving <= 8 /\ lost \cap Credential = {} =>
              Loads(prev) /\ (flash["auth_init"] = 1 => prev # Default)

IInv == TypeOK /\ ShapeInv /\ SaveInv /\ SetupInv /\ RequestInv /\ FlashInv

-------------------------------------------------------------------------------
(* Fields, keys and the order of saving                                    *)

\* The fields are gone through in the order of FieldOrder.
LEMMA FieldIs ==
    ASSUME todo \subseteq Fields, todo # {}
    PROVE  /\ Field \in 1..9 /\ Current \in todo
           /\ \A i \in 1..9 : FieldOrder[i] \in todo => Field <= i
<1> DEFINE I == {i \in 1..Len(FieldOrder) : FieldOrder[i] \in todo}
<1>1. Len(FieldOrder) = 9 /\ DOMAIN FieldOrder = 1..9
  BY DEF FieldOrder
<1>2. I # {}
  BY <1>1 DEF Fields, Range
<1>3. \E m \in I : \A i \in I : m <= i
  BY <1>1, <1>2
<1>4. Field = Min(I)
  BY <1>2 DEF Field, SelectInSeq
<1>5. Min(I) \in I /\ \A i \in I : Min(I) <= i
  BY <1>3 DEF Min
<1> QED BY <1>1, <1>4, <1>5 DEF Current

\* The password comes last.
LEMMA PasswordLast ==
    ASSUME todo \subseteq Fields, todo # {}, Current = "new_password"
    PROVE  todo = {"new_password"}
<1>1. Len(FieldOrder) = 9 /\ DOMAIN FieldOrder = 1..9
  BY DEF FieldOrder
<1>2. \A i \in 1..9 : FieldOrder[i] = "new_password" => i = 9
  BY DEF FieldOrder
<1>3. Field = 9
  BY <1>2, FieldIs DEF Current
<1>4. ASSUME NEW f \in todo PROVE f = "new_password"
  <2>1. PICK i \in 1..9 : FieldOrder[i] = f
    BY <1>1 DEF Fields, Range
  <2>2. i = 9
    BY <1>3, <2>1, FieldIs
  <2> QED BY <2>1, <2>2 DEF FieldOrder
<1> QED BY <1>4

LEMMA SameField == ASSUME UNCHANGED todo PROVE Current' = Current
<1>1. {i \in 1..Len(FieldOrder) : FieldOrder[i] \in todo'}
      = {i \in 1..Len(FieldOrder) : FieldOrder[i] \in todo}
  OBVIOUS
<1>2. Field' = Field
  BY <1>1 DEF Field, SelectInSeq
<1> QED BY <1>2 DEF Current

LEMMA FieldKeys ==
    \A f : KeysOf(f) \subseteq Keys \ (Credential \cup {"auth_init"})
BY DEF KeysOf, Keys, Credential

LEMMA Order ==
    /\ Len(SaveOrder) = 14
    /\ \A i \in 1..14 :
          /\ SaveOrder[i] \in Keys
          /\ SaveOrder[i] = "auth_hash" <=> i = 8
          /\ SaveOrder[i] = "auth_salt" <=> i = 9
          /\ SaveOrder[i] = "auth_init" <=> i = 10
          /\ SaveOrder[i] = "hash_ver" <=> i = 11
BY DEF SaveOrder, Keys

LEMMA AllSaved == \A k \in Keys : \E i \in 1..14 : SaveOrder[i] = k
BY DEF SaveOrder, Keys

LEMMA WrittenIs ==
    ASSUME saving \in 0..15
    PROVE  /\ saving = 15 => \A k \in Keys : Written(k)
           /\ saving <= 1 => \A k : ~Written(k)
           /\ Written("auth_hash") <=> saving >= 9
           /\ Written("auth_salt") <=> saving >= 10
           /\ Written("auth_init") <=> saving >= 11
           /\ Written("hash_ver") <=> saving >= 12
BY Order, AllSaved DEF Written

LEMMA WrittenStep ==
    ASSUME InSave, saving' = saving + 1
    PROVE  \A k : Written(k)' <=> Written(k) \/ k = NextKey
BY Order DEF InSave, Written, NextKey

-------------------------------------------------------------------------------
(* Types                                                                   *)

LEMMA Typed ==
    ASSUME TypeOK
    PROVE  /\ s_config["auth_hash"] \in HashType
           /\ \A k \in Keys : s_config[k] \in TypeOf(k)
           /\ \A k \in Keys : flash[k] = Absent \/ flash[k] \in TypeOf(k)
           /\ \A k \in Keys \ {"auth_hash"} :
                 s_config[k] \in Number /\ Value(k) \in Number
           /\ saving \in 0..15
<1>1. 0 \in Number
  BY BoundsAssumption DEF Number
<1>2. "auth_hash" \in Keys
  BY DEF Keys
<1> QED BY <1>1, <1>2, Order DEF TypeOK, TypeOf, Number, HashType, Value

\* TypeOK with its types named.
TypeParts ==
    /\ DOMAIN s_config = Keys /\ DOMAIN flash = Keys
    /\ \A k \in Keys : s_config[k] \in TypeOf(k)
    /\ \A k \in Keys : flash[k] = Absent \/ flash[k] \in TypeOf(k)
    /\ saving \in 0..15 /\ todo \subseteq Fields /\ (saving > 0 => todo # {})
    /\ reply \in {"none", "ok", "error"}
    /\ posts \in 0..MaxPosts /\ faults \in 0..MaxFaults
    /\ lost \subseteq Keys /\ torn \in BOOLEAN
    /\ {prev, next} \subseteq Passwords \cup {Default}

LEMMA TypeFrom == (TypeParts => TypeOK) /\ (TypeParts' => TypeOK')
<1>1. TypeParts => TypeOK
  BY Order DEF TypeParts, TypeOK, TypeOf, Number, HashType
<1>2. TypeParts' => TypeOK'
  BY Order DEF TypeParts, TypeOK, TypeOf, Number, HashType
<1> QED BY <1>1, <1>2

\* What is stored is never taken for a missing key.
LEMMA NotAbsent ==
    ASSUME NEW k, NEW v \in TypeOf(k)
    PROVE  v # Absent
BY AbsentAssumption, BoundsAssumption DEF TypeOf, Number, HashType

LEMMA FreshType ==
    ASSUME posts \in 0..MaxPosts, faults \in 0..MaxFaults
    PROVE  Fresh \in 1..MaxPosts + MaxFaults + 1 /\ Fresh \in Number
BY BoundsAssumption DEF Fresh, Number

\* A whole configuration opens with its password and no other.
LEMMA Opens ==
    ASSUME NEW c, c["auth_hash"] \in HashType, NEW pw
    PROVE  Accepts(c, pw) <=> Whole(c) /\ pw = c["auth_hash"].pw
BY DEF HashType, Accepts, Hash, Whole

LEMMA LoadedIs ==
    /\ DOMAIN Loaded = Keys /\ Loaded = [k \in Keys |-> Loaded[k]]
    /\ \A k \in Keys \ Credential : Loaded[k] = Value(k)
    /\ flash["auth_hash"] # Absent => \A k \in Keys : Loaded[k] = Value(k)
    /\ flash["auth_hash"] = Absent =>
          /\ Loaded["auth_hash"] = Hash(Default, Fresh, 1)
          /\ Loaded["auth_salt"] = Fresh /\ Loaded["hash_ver"] = 1
BY DEF Loaded, Value, Keys, Credential

-------------------------------------------------------------------------------
(* Boot                                                                    *)

\* What config_init makes of a flash whose values are of their types.
LEMMA LoadedType ==
    /\ \A k \in Keys : flash[k] = Absent \/ flash[k] \in TypeOf(k)
    /\ posts \in 0..MaxPosts /\ faults \in 0..MaxFaults
    => \A k \in Keys : Loaded[k] \in TypeOf(k)
<1> SUFFICES ASSUME \A k \in Keys : flash[k] = Absent \/ flash[k] \in TypeOf(k),
                    posts \in 0..MaxPosts, faults \in 0..MaxFaults
             PROVE  \A k \in Keys : Loaded[k] \in TypeOf(k)
  OBVIOUS
<1>1. 0 \in Number /\ 1 \in Number
  BY BoundsAssumption DEF Number
<1>2. Hash(Default, Fresh, 1) \in HashType
  BY FreshType DEF HashType, Hash
<1>3. \A k \in Keys \ {"auth_hash"} : Value(k) \in Number
  BY <1>1 DEF Value, TypeOf
<1>4. CASE flash["auth_hash"] = Absent
  BY <1>1, <1>2, <1>3, <1>4, LoadedIs, FreshType DEF TypeOf, Credential
<1>5. CASE flash["auth_hash"] # Absent
  <2>1. flash["auth_hash"] \in HashType /\ Value("auth_hash") = flash["auth_hash"]
    BY <1>5 DEF TypeOf, Value, Keys
  <2> QED BY <1>3, <1>5, <2>1, LoadedIs DEF TypeOf
<1> QED BY <1>4, <1>5

\* A running configuration that was just loaded is in step with flash.
LEMMA LoadedSynced ==
    s_config = Loaded =>
        /\ \A k \in Keys \ Credential : Synced(k)
        /\ Factory \/ \A k \in Credential : Synced(k)
<1> SUFFICES ASSUME s_config = Loaded
             PROVE  /\ \A k \in Keys \ Credential : Synced(k)
                    /\ Factory \/ \A k \in Credential : Synced(k)
  OBVIOUS
<1>1. \A k \in Keys \ Credential : Synced(k)
  BY LoadedIs DEF Synced, Credential
<1>2. CASE flash["auth_hash"] = Absent
  <2>1. /\ s_config["auth_hash"] = Hash(Default, Fresh, 1)
        /\ s_config["auth_salt"] = Fresh /\ s_config["hash_ver"] = 1
    BY <1>2, LoadedIs
  <2>2. Factory
    BY <1>2, <2>1 DEF Factory, Password, Whole, Hash
  <2> QED BY <1>1, <2>2
<1>3. CASE flash["auth_hash"] # Absent
  BY <1>3, LoadedIs DEF Synced, Value, Credential, Keys
<1> QED BY <1>1, <1>2, <1>3

\* What is loaded opens with the password that flash loads.
LEMMA LoadedOpens ==
    s_config = Loaded =>
        \A p : Loads(p) => Whole(s_config) /\ Password = p
BY LoadedIs DEF Loads, Whole, Password, Hash, Value, Keys, Credential

LEMMA InitIInv == Init => IInv
<1> SUFFICES ASSUME Init PROVE IInv
  OBVIOUS
<1>1. 0 \in Number /\ 1 \in Number /\ 1 \in 1..MaxPosts + MaxFaults + 1
  BY BoundsAssumption DEF Number
<1>2. /\ flash = [k \in Keys |-> flash[k]] /\ DOMAIN flash = Keys
      /\ flash["auth_init"] \in {0, 1, Absent}
      /\ \A k \in Keys : flash[k] = Absent \/ flash[k] \in TypeOf(k)
  BY <1>1 DEF Init, Delivered, Empty, Hash, HashType, TypeOf, Keys
<1>3. flash["auth_init"] = 1 => /\ flash["auth_hash"] # Absent
                                /\ flash["auth_hash"].pw # Default
  BY AbsentAssumption, DefaultAssumption
     DEF Init, Delivered, Empty, Hash, Keys
<1>4. Loads(Default) \/ \E pw \in Passwords : Loads(pw)
  <2>1. CASE flash = Empty
    BY <2>1 DEF Empty, Keys, Loads
  <2>2. ASSUME NEW pw \in Passwords, NEW init \in {0, 1}, NEW ver \in {0, 1},
               flash["auth_hash"] = Hash(pw, 1, ver), Value("auth_salt") = 1,
               Value("hash_ver") = ver
        PROVE  Loads(pw)
    <3>1. Hash(pw, 1, ver) \in TypeOf("auth_hash")
      BY <1>1 DEF TypeOf, HashType, Hash
    <3> QED BY <2>2, <3>1, NotAbsent DEF Loads
  <2>3. ASSUME NEW pw \in Passwords, NEW init \in {0, 1},
               flash = [Empty EXCEPT !["auth_hash"] = Hash(pw, 1, 1),
                                     !["auth_salt"] = 1, !["hash_ver"] = 1,
                                     !["auth_init"] = init]
        PROVE  Loads(pw)
    <3>1. /\ flash["auth_hash"] = Hash(pw, 1, 1)
          /\ flash["auth_salt"] = 1 /\ flash["hash_ver"] = 1
      BY <2>3 DEF Empty, Keys
    <3>2. Value("auth_salt") = 1 /\ Value("hash_ver") = 1
      BY <3>1, AbsentAssumption DEF Value
    <3> QED BY <2>2, <3>1, <3>2
  <2>4. ASSUME NEW pw \in Passwords,
               flash = [Empty EXCEPT !["auth_hash"] = Hash(pw, 1, 0),
                                     !["auth_salt"] = 1, !["auth_init"] = 1]
        PROVE  Loads(pw)
    <3>1. /\ flash["auth_hash"] = Hash(pw, 1, 0)
          /\ flash["auth_salt"] = 1 /\ flash["hash_ver"] = Absent
      BY <2>4 DEF Empty, Keys
    <3>2. Value("auth_salt") = 1 /\ Value("hash_ver") = 0
      BY <3>1, AbsentAssumption DEF Value
    <3> QED BY <2>2, <3>1, <3>2
  <2> QED BY <2>1, <2>3, <2>4 DEF Init, Delivered
<1>5. posts \in 0..MaxPosts /\ faults \in 0..MaxFaults
  BY BoundsAssumption DEF Init
<1>6. /\ DOMAIN s_config = Keys /\ s_config = [k \in Keys |-> s_config[k]]
      /\ \A k \in Keys : s_config[k] \in TypeOf(k)
  BY <1>2, <1>5, LoadedType, LoadedIs DEF Init
<1>7. Whole(s_config) /\ Password \in Passwords \cup {Default}
  BY <1>4, LoadedOpens DEF Init
<1>8. s_config["auth_init"] = Value("auth_init")
  BY LoadedIs DEF Init, Keys, Credential
<1>9. Initialized => Password # Default
  <2>1. Initialized => flash["auth_init"] = 1
    BY <1>8 DEF Initialized, Value
  <2>2. flash["auth_hash"] # Absent => Password = flash["auth_hash"].pw
    BY LoadedIs DEF Init, Password, Value, Keys
  <2> QED BY <1>3, <2>1, <2>2
<1>10. TypeOK
  <2>1. {prev, next} \subseteq Passwords \cup {Default}
    BY <1>7 DEF Init, Password
  <2>2. /\ saving \in 0..15 /\ todo = {} /\ ~(saving > 0) /\ reply = "none"
        /\ lost = {} /\ torn = FALSE
    BY DEF Init
  <2> QED BY <1>2, <1>5, <1>6, <2>1, <2>2, TypeFrom DEF TypeParts
<1>11. ShapeInv
  BY <1>2, <1>6, <1>8 DEF ShapeInv, Value
<1>12. SaveInv
  BY LoadedSynced DEF Init, SaveInv, Written
<1>13. SetupInv
  BY <1>8, AbsentAssumption DEF Init, SetupInv, Initialized, Value
<1>14. RequestInv
  BY <1>7, <1>9 DEF Init, RequestInv, Password, SavingPassword
<1>15. FlashInv
  <2>1. Factory => ~Initialized
    BY <1>9 DEF Factory
  <2> QED BY <2>1, LoadedSynced DEF Init, FlashInv, SavingPassword
<1> QED BY <1>10, <1>11, <1>12, <1>13, <1>14, <1>15 DEF IInv

-------------------------------------------------------------------------------
(* The request                                                             *)

LEMMA PostStep == ASSUME IInv, NEW body \in Bodies, Post(body) PROVE IInv'
<1>1. /\ saving = 0 /\ todo = {} /\ posts' = posts + 1
      /\ UNCHANGED <<s_config, flash, lost, faults, saving, torn>>
      /\ next' = prev' /\ (prev' = next \/ prev' = prev)
      /\ posts < MaxPosts
  BY DEF Post, saveVars
<1>2. \/ Locked(body) /\ reply' = "error" /\ todo' = {}
      \/ ~Locked(body) /\ reply' = "none" /\ todo' = body /\ body \subseteq Fields
  BY BodiesAssumption DEF Post, Answer
<1>3. ~torn => Whole(s_config) /\ Password = prev'
  <2>1. s_config["auth_hash"] \in HashType
    BY Typed DEF IInv
  <2>2. prev' = IF Accepts(s_config, next) THEN next ELSE prev
    BY DEF Post
  <2>3. ~torn => Whole(s_config) /\ Password \in {prev, next}
    BY DEF IInv, RequestInv
  <2> QED BY <2>1, <2>2, <2>3, Opens DEF Password
<1>4. TypeOK'
  <2>1. posts' \in 0..MaxPosts
    BY <1>1, BoundsAssumption DEF IInv, TypeOK
  <2> QED BY <1>1, <1>2, <2>1 DEF IInv, TypeOK
<1>5. ShapeInv'
  BY <1>1 DEF IInv, ShapeInv
<1>6. SaveInv'
  BY <1>1 DEF IInv, SaveInv, Written, Synced, Value, Factory, Password, Whole
<1>7. SetupInv'
  BY <1>1, <1>2 DEF IInv, SetupInv, ShapeInv, Initialized, Locked
<1>8. RequestInv'
  BY <1>1, <1>3 DEF IInv, RequestInv, Initialized, Password, Whole,
                    SavingPassword
<1>9. FlashInv'
  BY <1>1 DEF IInv, FlashInv, SavingPassword, Factory, Initialized, Password,
              Whole, Synced, Value
<1> QED BY <1>4, <1>5, <1>6, <1>7, <1>8, <1>9 DEF IInv

\* Passing a field over and refusing it leave both stores as they are.
LEMMA FieldStep == ASSUME IInv, PassOver \/ Refuse PROVE IInv'
<1>1. /\ saving = 0 /\ todo # {}
      /\ UNCHANGED <<s_config, flash, lost, faults, saving, torn, posts, next>>
  BY DEF PassOver, Refuse, AtField, saveVars, historyVars, known
<1>2. /\ todo' \subseteq todo /\ reply' \in {"none", "ok", "error"}
      /\ todo' # {} => reply' = "none" /\ prev' = prev
      /\ prev' \in {prev, next}
  <2>1. CASE PassOver
    BY <2>1 DEF PassOver, AtField, Past, IInv, SetupInv
  <2>2. CASE Refuse
    BY <2>2 DEF Refuse, Answer, historyVars, known
  <2> QED BY <2>1, <2>2
<1>3. ~torn => Password = prev /\ prev = next
  BY <1>1 DEF IInv, RequestInv, SavingPassword
<1>4. TypeOK'
  BY <1>1, <1>2 DEF IInv, TypeOK
<1>5. ShapeInv'
  BY <1>1 DEF IInv, ShapeInv
<1>6. SaveInv'
  BY <1>1 DEF IInv, SaveInv, Written, Synced, Value, Factory, Password, Whole
<1>7. SetupInv'
  BY <1>1, <1>2 DEF IInv, SetupInv, Initialized
<1>8. RequestInv'
  BY <1>1, <1>2, <1>3 DEF IInv, RequestInv, Initialized, Password, Whole,
                          SavingPassword
<1>9. FlashInv'
  BY <1>1 DEF IInv, FlashInv, SavingPassword, Factory, Initialized, Password,
              Whole, Synced, Value
<1> QED BY <1>4, <1>5, <1>6, <1>7, <1>8, <1>9 DEF IInv

LEMMA SetStep == ASSUME IInv, Set PROVE IInv'
<1>1. /\ saving = 0 /\ saving' = 1 /\ todo # {} /\ Current # "new_password"
      /\ UNCHANGED <<flash, lost, faults, todo, reply, torn, posts, prev, next>>
  BY DEF Set, AtField, saveVars, historyVars, known
<1>2. Current' = Current /\ Current \in todo /\ todo \subseteq Fields
  <2>1. todo \subseteq Fields
    BY DEF IInv, TypeOK
  <2>2. Current \in todo
    BY <1>1, <2>1, FieldIs
  <2> QED BY <1>1, <2>1, <2>2, SameField
<1>3. /\ DOMAIN s_config' = Keys /\ s_config' = [k \in Keys |-> s_config'[k]]
      /\ \A k \in Keys :
            \/ s_config'[k] = s_config[k]
            \/ /\ k \notin Credential \cup {"auth_init"}
               /\ s_config'[k] \in {0, posts}
  <2>1. s_config' = [k \in Keys |-> IF k \notin KeysOf(Current) THEN s_config[k]
                     ELSE IF Current = "wifi_disconnect" THEN 0 ELSE posts]
    BY DEF Set
  <2>2. KeysOf(Current) \subseteq Keys \ (Credential \cup {"auth_init"})
    BY FieldKeys
  <2> QED BY <2>1, <2>2
<1>4. Initialized
  BY <1>1, <1>2 DEF IInv, SetupInv
<1>5. /\ UNCHANGED <<Password, Initialized>>
      /\ Whole(s_config)' <=> Whole(s_config)
      /\ \A k \in Credential : s_config'[k] = s_config[k]
  BY <1>3 DEF Password, Initialized, Whole, Credential, Keys
<1>6. \A k : ~Written(k)'
  BY <1>1 DEF Written
<1>7. TypeOK'
  <2>1. {0, posts} \subseteq Number
    BY BoundsAssumption DEF IInv, TypeOK, Number
  <2>2. \A k \in Keys : s_config'[k] \in TypeOf(k)
    BY <1>3, <2>1, Typed DEF TypeOf, IInv, Credential
  <2> QED BY <1>1, <1>3, <2>2, Typed, TypeFrom DEF IInv, TypeOK, TypeParts
<1>8. ShapeInv'
  BY <1>1, <1>3 DEF IInv, ShapeInv, Keys
<1>9. SaveInv'
  BY <1>1, <1>6 DEF SaveInv
<1>10. SetupInv'
  BY <1>1, <1>4, <1>5 DEF IInv, SetupInv
<1>11. RequestInv'
  BY <1>1, <1>2, <1>5 DEF IInv, RequestInv, SavingPassword
<1>12. FlashInv'
  BY <1>1, <1>2, <1>4, <1>5
     DEF IInv, FlashInv, SavingPassword, Synced, Value
<1> QED BY <1>7, <1>8, <1>9, <1>10, <1>11, <1>12 DEF IInv


LEMMA SetAuthStep ==
    ASSUME IInv, NEW pw \in Passwords, NEW user \in {s_config["auth_user"], posts},
           SetAuth(pw, user)
    PROVE  IInv'
<1>1. /\ saving = 0 /\ saving' = 1 /\ todo # {} /\ Current = "new_password"
      /\ UNCHANGED <<flash, lost, faults, todo, reply, torn, posts, prev>>
      /\ next' = pw
  BY DEF SetAuth, AtField, saveVars
<1>2. Current' = Current
  BY <1>1, SameField
<1>3. Fresh \in 1..MaxPosts + MaxFaults + 1 /\ Fresh \in Number
  BY FreshType DEF IInv, TypeOK
<1>4. /\ s_config["auth_hash"] \in HashType
      /\ \A k \in Keys : s_config[k] \in TypeOf(k)
      /\ posts \in Number /\ 1 \in Number /\ "auth_user" \in Keys
  <2>1. posts \in Number /\ 1 \in Number
    BY BoundsAssumption DEF IInv, TypeOK, Number
  <2> QED BY <2>1, Typed DEF IInv, Keys
<1>5. Whole(s_config)
  BY <1>4, Opens DEF SetAuth
<1>6. /\ DOMAIN s_config' = Keys /\ s_config' = [k \in Keys |-> s_config'[k]]
      /\ s_config'["auth_hash"] = Hash(pw, Fresh, 1)
      /\ s_config'["auth_salt"] = Fresh /\ s_config'["hash_ver"] = 1
      /\ s_config'["auth_init"] = 1 /\ s_config'["auth_user"] = user
      /\ \A k \in Keys \ (Credential \cup {"auth_init", "auth_user"}) :
            s_config'[k] = s_config[k]
  BY DEF SetAuth, IInv, ShapeInv, Credential, Keys
<1>7. Whole(s_config)' /\ Password' = pw /\ Initialized'
  BY <1>6 DEF Whole, Hash, Password, Initialized
<1>8. TypeOK'
  <2>1. user \in Number
    BY <1>4 DEF TypeOf
  <2>2. Hash(pw, Fresh, 1) \in HashType
    BY <1>3 DEF HashType, Hash
  <2>3. \A k \in Keys : s_config'[k] \in TypeOf(k)
    BY <1>3, <1>4, <1>6, <2>1, <2>2 DEF TypeOf, Credential
  <2> QED BY <1>1, <1>6, <2>3, Typed, TypeFrom DEF IInv, TypeOK, TypeParts
<1>9. ShapeInv'
  BY <1>1, <1>6 DEF IInv, ShapeInv
<1>10. SaveInv'
  <2>1. \A k : ~Written(k)'
    BY <1>1 DEF Written
  <2> QED BY <1>1, <2>1 DEF SaveInv
<1>11. SetupInv'
  BY <1>1, <1>7 DEF IInv, SetupInv
<1>12. RequestInv'
  BY <1>1, <1>2, <1>7, DefaultAssumption DEF IInv, RequestInv, SetupInv,
                                             SavingPassword
<1>13. FlashInv'
  <2>1. SavingPassword'
    BY <1>1, <1>2 DEF SavingPassword
  <2>2. ASSUME ~torn, lost \cap Credential = {}
        PROVE  Loads(prev) /\ (flash["auth_init"] = 1 => prev # Default)
    <3>1. Password = prev
      BY <1>1, <2>2 DEF IInv, RequestInv, SavingPassword
    <3>2. flash["auth_init"] = 1 => prev # Default
      BY <2>2, <3>1 DEF IInv, SetupInv, RequestInv
    <3>3. CASE Factory
      BY <3>1, <3>2, <3>3 DEF Factory, Loads
    <3>4. CASE \A k \in Credential \ lost : Synced(k)
      <4>1. /\ flash["auth_hash"] = s_config["auth_hash"]
            /\ Value("auth_salt") = s_config["auth_salt"]
            /\ Value("hash_ver") = s_config["hash_ver"]
        BY <2>2, <3>4 DEF Synced, Credential
      <4>2. s_config["auth_hash"]
            = Hash(prev, s_config["auth_salt"], s_config["hash_ver"])
        BY <1>4, <1>5, <3>1 DEF HashType, Whole, Password, Hash
      <4>3. flash["auth_hash"] # Absent
        BY <1>4, <4>1, NotAbsent DEF TypeOf
      <4> QED BY <3>2, <4>1, <4>2, <4>3 DEF Loads
    <3> QED BY <1>1, <2>2, <3>3, <3>4 DEF IInv, FlashInv, SavingPassword
  <2> QED BY <1>1, <2>1, <2>2 DEF FlashInv, Loads, Value
<1> QED BY <1>8, <1>9, <1>10, <1>11, <1>12, <1>13 DEF IInv

-------------------------------------------------------------------------------
(* save_to_nvs                                                             *)

\* One place further, the key of this place written or lost.
LEMMA SaveStep == ASSUME IInv, Write \/ WriteFails PROVE IInv'
<1>1. /\ saving \in 1..14 /\ saving' = saving + 1
      /\ UNCHANGED <<s_config, todo, reply, posts, torn, prev, next>>
  BY Order DEF Write, WriteFails, InSave, historyVars, known
<1>2. NextKey \in Keys /\ s_config[NextKey] \in TypeOf(NextKey)
      /\ s_config[NextKey] # Absent
  <2>1. NextKey \in Keys
    BY <1>1, Order DEF NextKey
  <2> QED BY <2>1, Typed, NotAbsent DEF IInv
<1>3. /\ DOMAIN flash' = Keys /\ flash' = [k \in Keys |-> flash'[k]]
      /\ \A k \in Keys \ {NextKey} : flash'[k] = flash[k]
      /\ flash'[NextKey] \in {flash[NextKey], s_config[NextKey]}
      /\ lost' \subseteq lost \cup {NextKey} /\ lost \subseteq lost' \cup {NextKey}
      /\ NextKey \notin lost' => flash'[NextKey] = s_config[NextKey]
  <2>1. CASE Write
    BY <1>2, <2>1 DEF Write, IInv, ShapeInv, TypeOK
  <2>2. CASE WriteFails
    BY <2>2 DEF WriteFails, IInv, ShapeInv, TypeOK
  <2> QED BY <2>1, <2>2
<1>4. \A k : Written(k)' <=> Written(k) \/ k = NextKey
  BY <1>1, WrittenStep DEF Write, WriteFails
<1>5. Current' = Current /\ SavingPassword' = SavingPassword
  BY <1>1, SameField DEF SavingPassword
<1>6. UNCHANGED <<Password, Initialized>> /\ (Whole(s_config)' <=> Whole(s_config))
  BY <1>1 DEF Password, Initialized, Whole
<1>7. \A k \in Keys \ {NextKey} : (Synced(k)' <=> Synced(k)) /\ Value(k)' = Value(k)
  BY <1>1, <1>3 DEF Synced, Value
<1>8. \A k \in Keys \ lost' : k = NextKey => Synced(k)'
  BY <1>1, <1>2, <1>3 DEF Synced, Value
<1>9. Initialized
  BY <1>1 DEF IInv, SetupInv
<1>10. TypeOK'
  <2>1. faults' \in 0..MaxFaults
    BY BoundsAssumption DEF Write, WriteFails, IInv, TypeOK
  <2>2. ASSUME NEW k \in Keys PROVE flash'[k] = Absent \/ flash'[k] \in TypeOf(k)
    <3>1. flash[k] = Absent \/ flash[k] \in TypeOf(k)
      BY Typed DEF IInv
    <3> QED BY <1>2, <1>3, <3>1
  <2>3. \A k \in Keys : s_config'[k] \in TypeOf(k)
    BY <1>1, Typed DEF IInv
  <2>4. lost' \subseteq Keys
    BY <1>2, <1>3 DEF IInv, TypeOK
  <2>5. /\ DOMAIN s_config' = Keys
        /\ todo' \subseteq Fields /\ (saving' > 0 => todo' # {})
        /\ reply' \in {"none", "ok", "error"} /\ posts' \in 0..MaxPosts
        /\ torn' \in BOOLEAN /\ {prev', next'} \subseteq Passwords \cup {Default}
    BY <1>1 DEF IInv, TypeOK
  <2>6. TypeParts'
    BY <1>1, <1>3, <2>1, <2>2, <2>3, <2>4, <2>5 DEF TypeParts
  <2> QED BY <2>6, TypeFrom
<1>11. ShapeInv'
  BY <1>1, <1>3 DEF IInv, ShapeInv, Keys
<1>12. SaveInv'
  <2>1. ASSUME NEW k \in Keys \ lost', Written(k)' PROVE Synced(k)'
    BY <1>3, <1>4, <1>7, <1>8, <2>1 DEF IInv, SaveInv
  <2> QED BY <1>1, <2>1 DEF SaveInv
<1>13. SetupInv'
  BY <1>1, <1>6, <1>9 DEF IInv, SetupInv
<1>14. RequestInv'
  BY <1>1, <1>5, <1>6 DEF IInv, RequestInv
<1>15. FlashInv'
  <2>1. ASSUME ~torn, ~SavingPassword, NEW k \in Credential \ lost'
        PROVE  Synced(k)'
    <3>1. \A c \in Credential \ lost : Synced(c)
      BY <1>9, <2>1 DEF IInv, FlashInv
    <3>2. k \in Keys
      BY <2>1 DEF Credential, Keys
    <3> QED BY <1>3, <1>7, <1>8, <2>1, <3>1, <3>2
  <2>2. ASSUME ~torn, SavingPassword, saving' <= 8, lost' \cap Credential = {}
        PROVE  /\ Loads(prev)'
               /\ flash'["auth_init"] = 1 => prev' # Default
    <3>1. NextKey \notin Credential \cup {"auth_init"}
      BY <1>1, <2>2, Order DEF NextKey, Credential
    <3>2. lost \cap Credential = {} /\ saving <= 8
      BY <1>1, <1>3, <2>2, <3>1
    <3>3. Loads(prev) /\ (flash["auth_init"] = 1 => prev # Default)
      BY <2>2, <3>2 DEF IInv, FlashInv
    <3>4. /\ \A k \in Credential \cup {"auth_init"} : flash'[k] = flash[k]
          /\ {"auth_hash", "auth_salt", "hash_ver"} = Credential
      BY <1>3, <3>1 DEF Credential, Keys
    <3> QED BY <1>1, <3>3, <3>4 DEF Loads, Value
  <2> QED BY <1>1, <1>5, <2>1, <2>2 DEF FlashInv
<1> QED BY <1>10, <1>11, <1>12, <1>13, <1>14, <1>15 DEF IInv

LEMMA CommitStep == ASSUME IInv, Commit PROVE IInv'
<1>1. /\ saving = 15 /\ saving' = 0 /\ todo # {}
      /\ UNCHANGED <<s_config, flash, lost, faults, posts, torn, next>>
  BY Order DEF Commit, saveVars, IInv, TypeOK
<1>2. /\ todo' \subseteq todo /\ reply' \in {"none", "ok", "error"}
      /\ todo' # {} => reply' = "none" /\ prev' = prev
      /\ prev' \in {prev, next}
      /\ Current = "new_password" => todo' = {} /\ prev' = next
  <2>1. Current = "new_password" => todo = {Current}
    BY <1>1, PasswordLast DEF IInv, TypeOK
  <2>2. CASE Past(Current)
    <3>1. reply = "none"
      BY <1>1 DEF IInv, SetupInv
    <3>2. todo' = todo \ {Current}
      BY <2>2 DEF Past
    <3>3. /\ todo = {Current} => reply' = "ok" /\ prev' = next
          /\ todo # {Current} => reply' = reply /\ prev' = prev
      BY <2>2 DEF Past
    <3> QED BY <1>1, <2>1, <3>1, <3>2, <3>3
  <2>3. CASE Current \in Refusable /\ Answer("error") /\ UNCHANGED prev
    BY <2>3 DEF Answer, Refusable
  <2> QED BY <2>2, <2>3 DEF Commit
<1>3. \A k \in Keys \ lost : Synced(k)
  BY <1>1, WrittenIs DEF IInv, SaveInv
<1>4. /\ UNCHANGED <<Password, Initialized>> /\ (Whole(s_config)' <=> Whole(s_config))
      /\ \A k \in Keys \ lost' : Synced(k)'
  BY <1>1, <1>3 DEF Password, Initialized, Whole, Synced, Value
<1>5. Initialized /\ ~SavingPassword' /\ Credential \subseteq Keys
  BY <1>1 DEF IInv, SetupInv, SavingPassword, Credential, Keys
<1>6. TypeOK'
  BY <1>1, <1>2, Typed, TypeFrom DEF IInv, TypeOK, TypeParts
<1>7. ShapeInv'
  BY <1>1 DEF IInv, ShapeInv
<1>8. SaveInv'
  BY <1>4, <1>5 DEF SaveInv
<1>9. SetupInv'
  BY <1>1, <1>2, <1>4, <1>5 DEF IInv, SetupInv
<1>10. RequestInv'
  <2>1. ASSUME ~torn PROVE Password = prev'
    <3>1. CASE Current = "new_password"
      BY <1>1, <1>2, <2>1, <3>1 DEF IInv, RequestInv, SavingPassword
    <3>2. CASE Current # "new_password"
      BY <1>1, <1>2, <2>1, <3>2 DEF IInv, RequestInv, SavingPassword
    <3> QED BY <3>1, <3>2
  <2>2. ASSUME ~torn, todo' # {} PROVE prev = next
    BY <1>1, <1>2, <2>2 DEF IInv, RequestInv, SavingPassword
  <2> QED BY <1>1, <1>2, <1>4, <1>5, <2>1, <2>2 DEF IInv, RequestInv
<1>11. FlashInv'
  BY <1>4, <1>5 DEF FlashInv
<1> QED BY <1>6, <1>7, <1>8, <1>9, <1>10, <1>11 DEF IInv

-------------------------------------------------------------------------------
(* Reset                                                                   *)

\* A reset that is not torn loads one of the two passwords, and the default
\* one only into a device that is not set up.
LEMMA ResetLoads ==
    ASSUME IInv, Reset, ~torn'
    PROVE  \E pw \in {prev, next} :
              Loads(pw) /\ (flash["auth_init"] = 1 => pw # Default)
<1>1. ~torn /\ ~HalfDone /\ lost \cap Credential = {}
  BY DEF Reset
<1>2. s_config["auth_hash"] \in HashType /\ saving \in 0..15
  BY Typed DEF IInv
<1>3. ASSUME \A k \in Credential : Synced(k), Whole(s_config)
      PROVE  Loads(Password)
  <2>1. /\ flash["auth_hash"] = s_config["auth_hash"]
        /\ Value("auth_salt") = s_config["auth_salt"]
        /\ Value("hash_ver") = s_config["hash_ver"]
    BY <1>3 DEF Synced, Credential
  <2>2. s_config["auth_hash"]
        = Hash(Password, s_config["auth_salt"], s_config["hash_ver"])
    BY <1>2, <1>3 DEF HashType, Whole, Password, Hash
  <2>3. flash["auth_hash"] # Absent
    BY <1>2, <2>1, NotAbsent DEF TypeOf
  <2> QED BY <2>1, <2>2, <2>3 DEF Loads
<1>4. /\ Whole(s_config) /\ Password \in {prev, next}
      /\ flash["auth_init"] = 1 => Password # Default
  BY <1>1 DEF IInv, RequestInv, SetupInv
<1>5. CASE ~SavingPassword
  <2>1. CASE Factory
    BY <1>4, <2>1 DEF Factory, Loads
  <2>2. CASE \A k \in Credential : Synced(k)
    BY <1>3, <1>4, <2>2
  <2> QED BY <1>1, <1>5, <2>1, <2>2 DEF IInv, FlashInv
<1>6. CASE SavingPassword /\ saving <= 8
  BY <1>1, <1>6 DEF IInv, FlashInv
<1>7. CASE SavingPassword /\ saving > 8
  <2>1. Written("auth_hash") /\ todo # {} /\ Current = "new_password"
    BY <1>2, <1>7, WrittenIs DEF SavingPassword, IInv, TypeOK
  <2>2. \A k \in Credential : Written(k)
    BY <1>1, <2>1 DEF HalfDone
  <2>3. \A k \in Credential : Synced(k)
    BY <1>1, <2>2 DEF IInv, SaveInv, Credential, Keys
  <2> QED BY <1>3, <1>4, <2>3
<1> QED BY <1>2, <1>5, <1>6, <1>7

LEMMA ResetStep == ASSUME IInv, Reset PROVE IInv'
<1>1. /\ saving' = 0 /\ todo' = {} /\ reply' = "none" /\ lost' = {}
      /\ UNCHANGED <<flash, posts, prev, next>> /\ s_config' = Loaded'
      /\ torn => torn'
  BY DEF Reset, known
<1>2. /\ posts' \in 0..MaxPosts /\ faults' \in 0..MaxFaults
      /\ torn' \in BOOLEAN
  BY BoundsAssumption DEF Reset, IInv, TypeOK
<1>3. \A k \in Keys : flash'[k] = Absent \/ flash'[k] \in TypeOf(k)
  BY <1>1, Typed DEF IInv
<1>4. /\ DOMAIN Loaded' = Keys /\ Loaded' = [k \in Keys |-> Loaded'[k]]
      /\ \A k \in Keys \ Credential : Loaded'[k] = Value(k)'
  <2>1. (/\ DOMAIN Loaded = Keys /\ Loaded = [k \in Keys |-> Loaded[k]]
         /\ \A k \in Keys \ Credential : Loaded[k] = Value(k))'
    BY LoadedIs, PTL
  <2> QED BY <2>1
<1>5. \A k \in Keys : Loaded'[k] \in TypeOf(k)
  <2>1. (/\ \A k \in Keys : flash[k] = Absent \/ flash[k] \in TypeOf(k)
         /\ posts \in 0..MaxPosts /\ faults \in 0..MaxFaults
         => \A k \in Keys : Loaded[k] \in TypeOf(k))'
    BY LoadedType, PTL
  <2> QED BY <1>2, <1>3, <2>1
<1>6. /\ \A k \in Keys \ Credential : Synced(k)'
      /\ Factory' \/ \A k \in Credential : Synced(k)'
  <2>1. (s_config = Loaded =>
            /\ \A k \in Keys \ Credential : Synced(k)
            /\ Factory \/ \A k \in Credential : Synced(k))'
    BY LoadedSynced, PTL
  <2> QED BY <1>1, <2>1
<1>7. s_config'["auth_init"] = Value("auth_init")
  BY <1>1, <1>4 DEF Value, Keys, Credential
<1>8. Initialized' <=> flash["auth_init"] = 1
  BY <1>7, AbsentAssumption DEF Initialized, Value
<1>9. (s_config = Loaded =>
          \A p : Loads(p) => Whole(s_config) /\ Password = p)'
  BY LoadedOpens, PTL
<1>10. ASSUME ~torn'
      PROVE  /\ Whole(s_config)' /\ Password' \in {prev, next}
             /\ Initialized' => Password' # Default
  <2>1. PICK pw \in {prev, next} :
            Loads(pw) /\ (flash["auth_init"] = 1 => pw # Default)
    BY <1>10, ResetLoads
  <2>2. Loads(pw)'
    BY <1>1, <2>1 DEF Loads, Value
  <2>3. Whole(s_config)' /\ Password' = pw
    BY <1>1, <1>9, <2>2
  <2> QED BY <1>8, <2>1, <2>3
<1>11. TypeOK'
  <2>1. /\ DOMAIN s_config' = Keys /\ DOMAIN flash' = Keys
        /\ \A k \in Keys : s_config'[k] \in TypeOf(k)
    BY <1>1, <1>4, <1>5 DEF IInv, TypeOK
  <2>2. {prev', next'} \subseteq Passwords \cup {Default}
    BY <1>1 DEF IInv, TypeOK
  <2> QED BY <1>1, <1>2, <1>3, <2>1, <2>2, TypeFrom DEF TypeParts
<1>12. ShapeInv'
  BY <1>1, <1>4, <1>7 DEF IInv, ShapeInv, Value
<1>13. SaveInv'
  <2>1. \A k : ~Written(k)'
    BY <1>1 DEF Written
  <2> QED BY <1>1, <1>6, <2>1 DEF SaveInv
<1>14. SetupInv'
  BY <1>1, <1>8 DEF SetupInv
<1>15. RequestInv'
  BY <1>1, <1>10 DEF RequestInv, SavingPassword
<1>16. FlashInv'
  <2>1. ~torn' /\ Factory' => ~Initialized'
    BY <1>10 DEF Factory
  <2> QED BY <1>1, <1>6, <2>1 DEF FlashInv, SavingPassword
<1> QED BY <1>11, <1>12, <1>13, <1>14, <1>15, <1>16 DEF IInv

-------------------------------------------------------------------------------
(* Results                                                                 *)

THEOREM StoreInvariant == Spec => []IInv
<1>1. IInv /\ [Next]_vars => IInv'
  <2> SUFFICES ASSUME IInv, [Next]_vars PROVE IInv'
    OBVIOUS
  <2>1. CASE UNCHANGED vars
    <3> USE <2>1 DEF vars, saveVars, historyVars, known
    <3>1. TypeOK' /\ ShapeInv'
      BY DEF IInv, TypeOK, ShapeInv
    <3>2. SaveInv'
      BY DEF IInv, SaveInv, Written, Synced, Value, Factory, Password, Whole
    <3>3. UNCHANGED Current
      BY SameField
    <3>4. SetupInv' /\ RequestInv'
      BY <3>3 DEF IInv, SetupInv, RequestInv, Initialized, Password, Whole,
                  SavingPassword
    <3>5. FlashInv'
      BY <3>3 DEF IInv, FlashInv, SavingPassword, Factory, Initialized,
                  Password, Whole, Synced, Value, Loads
    <3> QED BY <3>1, <3>2, <3>4, <3>5 DEF IInv
  <2> QED BY <2>1, PostStep, FieldStep, SetStep, SetAuthStep, SaveStep,
             CommitStep, ResetStep DEF Next
<1> QED BY <1>1, InitIInv, PTL DEF Spec

\* Types, for any passwords, requests and bounds.
THEOREM TypeCorrect == Spec => []TypeOK
BY StoreInvariant, PTL DEF IInv

\* Without a torn save, no device that counts as set up opens with the default
\* password: SaveOrder has the hash before auth_init, so that flash says "set up"
\* only once the default hash is gone from it.
THEOREM DefaultIsRetired == Spec => []DefaultRetired
<1>1. IInv => DefaultRetired
  BY Typed, Opens DEF IInv, RequestInv, DefaultRetired, Initialized, Password
<1> QED BY <1>1, StoreInvariant, PTL

\* Without a torn save, the device opens with the password before the request
\* or with the one that it sets.
THEOREM PasswordIsKnown == Spec => []PasswordKnown
<1>1. IInv => PasswordKnown
  BY Typed, Opens DEF IInv, RequestInv, PasswordKnown, Password
<1> QED BY <1>1, StoreInvariant, PTL

\* An error leaves the password as it was.
THEOREM ErrorIsHarmless == Spec => []ErrorKeepsPassword
<1>1. IInv => ErrorKeepsPassword
  BY Typed, Opens DEF IInv, RequestInv, ErrorKeepsPassword, Password
<1> QED BY <1>1, StoreInvariant, PTL

\* A reset between two saves changes nothing but the keys whose write failed:
\* each save goes through all the keys.
THEOREM SavesSurvive == Spec => []SavedSurvives
<1>1. IInv => SavedSurvives
  <2> SUFFICES ASSUME IInv, saving = 0 PROVE SavedSurvives
    BY DEF SavedSurvives
  <2>1. \A k \in Keys \ (Credential \cup lost) : Loaded[k] = s_config[k]
    BY LoadedIs DEF IInv, SaveInv, Synced, Credential
  <2>2. ASSUME lost \cap Credential = {}, NEW pw
        PROVE  Accepts(Loaded, pw) <=> Accepts(s_config, pw)
    <3>1. CASE Factory
      <4>1. /\ Loaded["auth_hash"] = Hash(Default, Fresh, 1)
            /\ Loaded["auth_salt"] = Fresh /\ Loaded["hash_ver"] = 1
        BY <3>1, LoadedIs DEF Factory
      <4>2. Accepts(Loaded, pw) <=> pw = Default
        BY <4>1 DEF Accepts, Hash
      <4>3. Accepts(s_config, pw) <=> pw = Default
        BY <3>1, Typed, Opens DEF Factory, Password, IInv
      <4> QED BY <4>2, <4>3
    <3>2. CASE \A k \in Credential : Synced(k)
      <4>1. /\ flash["auth_hash"] = s_config["auth_hash"]
            /\ Value("auth_salt") = s_config["auth_salt"]
            /\ Value("hash_ver") = s_config["hash_ver"]
        BY <3>2 DEF Synced, Credential
      <4>2. flash["auth_hash"] # Absent
        BY <4>1, Typed, NotAbsent DEF TypeOf, IInv
      <4>3. \A k \in Credential : Loaded[k] = s_config[k]
        BY <4>1, <4>2, LoadedIs DEF Value, Credential, Keys
      <4> QED BY <4>3 DEF Accepts, Credential
    <3> QED BY <2>2, <3>1, <3>2 DEF IInv, SaveInv
  <2> QED BY <2>1, <2>2 DEF SavedSurvives
<1> QED BY <1>1, StoreInvariant, PTL
==============================================================================
