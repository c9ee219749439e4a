------------------------------- MODULE MCAccess -------------------------------
(* Access with three tokens, the first two of one name, and a path of each kind. *)
EXTENDS Access

CONSTANTS t1, t2, t3, n1, n2, login, panel, manage, users

ThreeNames == [t \in {t1, t2, t3} |-> IF t = t3 THEN n2 ELSE n1]
Scopes == [t \in {t1, t2, t3} |-> IF t = t3 THEN {panel, manage} ELSE {panel}]
FourLevels == [p \in {login, panel, manage, users} |->
                 CASE p = login -> "open" [] p = panel -> "user"
                   [] p = manage -> "owner" [] p = users -> "admin"]
=============================================================================
