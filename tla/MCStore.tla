------------------------------- MODULE MCStore -------------------------------
(***************************************************************************)
(* Store for TLC: two passwords, a request for every field by itself, and  *)
(* two that carry several, refused or reset half way.                      *)
(***************************************************************************)
EXTENDS Store

MCBodies == {{f} : f \in Fields} \cup
            {{"ap", "sta", "new_password"}, {"dev_name", "new_password"}}
===============================================================================
