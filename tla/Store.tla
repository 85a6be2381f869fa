--------------------------------- MODULE Store ---------------------------------
(***************************************************************************)
(* The configuration store, main/config.c, and POST /api/config, which     *)
(* changes it.                                                             *)
(*                                                                         *)
(* The running configuration is a copy of flash.  A change goes to the     *)
(* copy and then, key by key, to flash; the device may be reset between    *)
(* two keys and a key may fail to be written, which nobody looks at.  A    *)
(* request changes one field after the other and may be refused half way.  *)
(***************************************************************************)
EXTENDS Naturals, Sequences, FiniteSets, SequencesExt

CONSTANTS
    Passwords,  \* passwords of at least MIN_PASSWORD_LEN characters
    Default,    \* CONFIG_DEFAULT_AUTH_PASS
    Absent,     \* what flash holds for a key that was never written
    Bodies,     \* sets of fields that a request may carry
    MaxPosts,   \* bound: requests
    MaxFaults   \* bound: resets and failed writes

\* MIN_PASSWORD_LEN is longer than the default password.
ASSUME DefaultAssumption == Default \notin Passwords
ASSUME BoundsAssumption == MaxPosts \in Nat /\ MaxFaults \in Nat

VARIABLES
    s_config,  \* the running configuration: a value for every key
    flash,     \* NVS, namespace "webterm"
    saving,    \* save_to_nvs: place in SaveOrder of the next key; 0 if idle
    todo,      \* fields the request still has to go through
    reply,     \* what the last request was answered
    posts, faults,
    lost,      \* history: keys whose last write failed
    torn,      \* history: a reset found the credentials in flash incomplete
    prev, next \* history: the password when the last request came, and the
               \* one it sets; the same when it is answered "ok"

saveVars == <<flash, lost, faults>>
known == <<prev, next>>
historyVars == <<torn, known>>
vars == <<s_config, saveVars, saving, todo, reply, posts, historyVars>>

-------------------------------------------------------------------------------
(* Keys and fields                                                         *)

SaveOrder_InitFirst ==
    <<"sta_ssid", "sta_pass", "ap_ssid", "ap_pass", "auth_user", "baud_rate",
      "power_on", "auth_init", "auth_hash", "auth_salt", "hash_ver",
      "dev_name", "ntp_srv", "timezone">>

SaveOrder_InitForgotten ==
    <<"sta_ssid", "sta_pass", "ap_ssid", "ap_pass", "auth_user", "baud_rate",
      "power_on", "auth_hash", "auth_salt", "hash_ver", "dev_name", "ntp_srv",
      "timezone">>

SaveOrder == <<"sta_ssid", "sta_pass", "ap_ssid", "ap_pass", "auth_user",
               "baud_rate", "power_on", "auth_hash", "auth_salt", "auth_init",
               "hash_ver", "dev_name", "ntp_srv", "timezone">>

Keys == {"sta_ssid", "sta_pass", "ap_ssid", "ap_pass", "auth_user",
         "baud_rate", "power_on", "auth_hash", "auth_salt", "auth_init",
         "hash_ver", "dev_name", "ntp_srv", "timezone"}
Credential == {"auth_hash", "auth_salt", "hash_ver"}
Settings == Keys \ (Credential \cup {"auth_init"})

\* The order in which the handler looks at the fields.
FieldOrder == <<"baud_rate", "ap", "sta", "power_on", "dev_name", "ntp_srv",
                "timezone", "wifi_disconnect", "new_password">>
Fields == Range(FieldOrder)

ASSUME BodiesAssumption == Bodies \subseteq SUBSET Fields

KeysOf(f) == CASE f = "ap" -> {"ap_ssid", "ap_pass"}
               [] f \in {"sta", "wifi_disconnect"} -> {"sta_ssid", "sta_pass"}
               [] f \in {"baud_rate", "power_on", "dev_name", "ntp_srv",
                         "timezone"} -> {f}
               [] OTHER -> {}

Field == SelectInSeq(FieldOrder, LAMBDA f : f \in todo)
Current == FieldOrder[Field]

-------------------------------------------------------------------------------
(* Credentials.  A hash stands for what was hashed, and how: version 0 is  *)
(* the salted SHA-256 of older firmware, version 1 is PBKDF2.              *)

Hash(pw, salt, ver) == [pw |-> pw, salt |-> salt, ver |-> ver]

\* A key that is not there is told apart from every value.
ASSUME AbsentAssumption ==
    /\ Absent \notin Nat
    /\ Absent \notin [pw : Passwords \cup {Default}, salt : Nat, ver : {0, 1}]

\* config_check_password
Accepts(c, pw) == c["auth_hash"] = Hash(pw, c["auth_salt"], c["hash_ver"])

\* esp_fill_random: a salt that was never drawn before.
Fresh == 1 + posts + faults

\* config_init: what is not in flash has its default, salt and version those
\* of a zeroed buffer; without a hash it is the default password's.
Loaded ==
    LET stored == [k \in Keys |-> IF flash[k] = Absent THEN 0 ELSE flash[k]]
    IN IF flash["auth_hash"] # Absent THEN stored
       ELSE [stored EXCEPT !["auth_hash"] = Hash(Default, Fresh, 1),
                           !["auth_salt"] = Fresh, !["hash_ver"] = 1]

-------------------------------------------------------------------------------
(* Boot                                                                    *)

Empty == [k \in Keys |-> Absent]

\* A device of the factory, one seeded by the flashing tool with a password to
\* be kept or changed, and one that older firmware has set up.
Delivered ==
    {Empty} \cup
    {[Empty EXCEPT !["auth_hash"] = Hash(pw, 1, 1), !["auth_salt"] = 1,
                   !["hash_ver"] = 1, !["auth_init"] = init] :
        pw \in Passwords, init \in {0, 1}} \cup
    {[Empty EXCEPT !["auth_hash"] = Hash(pw, 1, 0), !["auth_salt"] = 1,
                   !["auth_init"] = 1] : pw \in Passwords}

Init ==
    /\ flash \in Delivered
    /\ posts = 0 /\ faults = 0
    /\ s_config = Loaded
    /\ saving = 0 /\ todo = {} /\ reply = "none"
    /\ lost = {} /\ torn = FALSE
    /\ prev = s_config["auth_hash"].pw /\ next = prev

Written(k) == \E i \in 1..saving - 1 : SaveOrder[i] = k

\* The save had begun to replace the credentials and was not through.
HalfDone ==
    /\ todo # {} /\ Current = "new_password"
    /\ Written("auth_hash") /\ \E k \in Credential : ~Written(k)

\* A reset at any point, and config_init after it.
Reset ==
    /\ faults < MaxFaults
    /\ faults' = faults + 1
    /\ UNCHANGED <<flash, posts, known>>
    /\ s_config' = Loaded'
    /\ saving' = 0 /\ todo' = {} /\ reply' = "none" /\ lost' = {}
    /\ torn' = (torn \/ HalfDone \/ lost \cap Credential # {})

-------------------------------------------------------------------------------
(* POST /api/config, by a client with a session                            *)

Answer(r) == reply' = r /\ todo' = {}

\* In setup mode a request that carries anything else is refused whole.
Locked(body) == s_config["auth_init"] = 0 /\ body # {"new_password"}

Post(body) ==
    /\ saving = 0 /\ todo = {} /\ posts < MaxPosts
    /\ posts' = posts + 1
    /\ prev' = IF Accepts(s_config, next) THEN next ELSE prev
    /\ next' = prev'
    /\ IF Locked(body) THEN Answer("error")
       ELSE reply' = "none" /\ todo' = body
    /\ UNCHANGED <<s_config, saveVars, saving, torn>>

AtField(S) == saving = 0 /\ todo # {} /\ Current \in S

\* A rate off the list or an empty name is passed over, and the next field
\* looked at.
Past(f) ==
    /\ todo' = todo \ {f}
    /\ IF todo = {f} THEN reply' = "ok" /\ prev' = next
       ELSE UNCHANGED <<reply, prev>>

PassOver ==
    /\ AtField({"baud_rate", "dev_name"})
    /\ Past(Current)
    /\ UNCHANGED <<s_config, saveVars, saving, posts, torn, next>>

\* Names and passwords out of their limits, and a wrong current password, end
\* the request; what the fields before did stays done.
Refuse ==
    /\ AtField({"ap", "sta", "new_password"})
    /\ Answer("error")
    /\ UNCHANGED <<s_config, saveVars, saving, posts, historyVars>>

\* config_set_*: the copy is changed and save_to_nvs called.
Set ==
    /\ AtField(Fields \ {"new_password"})
    /\ s_config' = [k \in Keys |->
          IF k \notin KeysOf(Current) THEN s_config[k]
          ELSE IF Current = "wifi_disconnect" THEN 0 ELSE posts]
    /\ saving' = 1
    /\ UNCHANGED <<saveVars, todo, reply, posts, historyVars>>

\* config_set_auth, the current password having been given
SetAuth_KeepsVersion(pw, user) ==
    /\ AtField({"new_password"})
    /\ \E cur \in Passwords \cup {Default} : Accepts(s_config, cur)
    /\ next' = pw
    /\ s_config' = [s_config EXCEPT !["auth_hash"] = Hash(pw, Fresh, 1),
                                    !["auth_salt"] = Fresh,
                                    !["auth_init"] = 1, !["auth_user"] = user]
    /\ saving' = 1
    /\ UNCHANGED <<saveVars, todo, reply, posts, torn, prev>>

SetAuth(pw, user) ==
    /\ AtField({"new_password"})
    /\ \E cur \in Passwords \cup {Default} : Accepts(s_config, cur)
    /\ next' = pw
    /\ s_config' = [s_config EXCEPT !["auth_hash"] = Hash(pw, Fresh, 1),
                                    !["auth_salt"] = Fresh, !["hash_ver"] = 1,
                                    !["auth_init"] = 1, !["auth_user"] = user]
    /\ saving' = 1
    /\ UNCHANGED <<saveVars, todo, reply, posts, torn, prev>>

-------------------------------------------------------------------------------
(* save_to_nvs                                                             *)

InSave == saving \in 1..Len(SaveOrder)
NextKey == SaveOrder[saving]

Write ==
    /\ InSave
    /\ flash' = [flash EXCEPT ![NextKey] = s_config[NextKey]]
    /\ lost' = lost \ {NextKey}
    /\ saving' = saving + 1
    /\ UNCHANGED <<s_config, faults, todo, reply, posts, historyVars>>

WriteFails_Answers ==
    /\ InSave /\ faults < MaxFaults
    /\ faults' = faults + 1
    /\ saving' = saving + 1
    /\ lost' = IF flash[NextKey] = s_config[NextKey] THEN lost
               ELSE lost \cup {NextKey}
    /\ Answer("error")
    /\ UNCHANGED <<s_config, flash, posts, historyVars>>

\* The result of the write is not looked at.
WriteFails ==
    /\ InSave /\ faults < MaxFaults
    /\ faults' = faults + 1
    /\ saving' = saving + 1
    /\ lost' = IF flash[NextKey] = s_config[NextKey] THEN lost
               ELSE lost \cup {NextKey}
    /\ UNCHANGED <<s_config, flash, todo, reply, posts, historyVars>>

\* What is saved first and can be refused after that, by the driver.
Refusable_Password == {"ap", "sta", "wifi_disconnect", "new_password"}
Refusable == {"ap", "sta", "wifi_disconnect"}

Commit ==
    /\ saving = Len(SaveOrder) + 1
    /\ saving' = 0
    /\ \/ Past(Current)
       \/ Current \in Refusable /\ Answer("error") /\ UNCHANGED prev
    /\ UNCHANGED <<s_config, saveVars, posts, torn, next>>

Next ==
    \/ \E body \in Bodies : Post(body)
    \/ PassOver \/ Refuse \/ Set
    \/ \E pw \in Passwords, user \in {s_config["auth_user"], posts} :
          SetAuth(pw, user)
    \/ Write \/ WriteFails \/ Commit
    \/ Reset

Spec == Init /\ [][Next]_vars

(* Properties                                                              *)

\* Every variable has its type; in particular a save is for a field that is
\* still to be answered.
TypeOK ==
    /\ DOMAIN s_config = Keys /\ DOMAIN flash = Keys
    /\ \A k \in Keys :
          LET type == IF k # "auth_hash" THEN 0..MaxPosts + MaxFaults + 1
                      ELSE [pw : Passwords \cup {Default},
                            salt : 1..MaxPosts + MaxFaults + 1, ver : {0, 1}]
          IN s_config[k] \in type /\ (flash[k] = Absent \/ flash[k] \in type)
    /\ saving \in 0..Len(SaveOrder) + 1
    /\ todo \subseteq Fields /\ (saving > 0 => todo # {})
    /\ reply \in {"none", "ok", "error"}
    /\ posts \in 0..MaxPosts /\ faults \in 0..MaxFaults
    /\ lost \subseteq Keys /\ torn \in BOOLEAN
    /\ {prev, next} \subseteq Passwords \cup {Default}

\* Once a device counts as set up, the default password no longer opens it,
\* also when it was reset in the middle of saving the first password.
DefaultRetired ==
    s_config["auth_init"] = 1 /\ ~torn => ~Accepts(s_config, Default)

\* A device is never locked: the password last acknowledged opens it, or the
\* one that was being set when it was reset, unless the reset fell between the
\* writes of the hash and of what goes with it, or one of these failed.
PasswordKnown == torn \/ Accepts(s_config, prev) \/ Accepts(s_config, next)

\* While nothing is being saved a reset changes nothing, but for the keys whose
\* write failed: each save makes good what the one before it lost.
SavedSurvives ==
    saving = 0 =>
        /\ \A k \in Keys \ (Credential \cup lost) : Loaded[k] = s_config[k]
        /\ lost \cap Credential = {} =>
              \A pw \in Passwords \cup {Default} :
                 Accepts(Loaded, pw) <=> Accepts(s_config, pw)

\* A request answered with an error has left the password as it was, whatever
\* else of it was applied.
ErrorKeepsPassword == reply = "error" /\ ~torn => Accepts(s_config, prev)
===============================================================================
