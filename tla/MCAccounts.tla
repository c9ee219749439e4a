------------------------------ MODULE MCAccounts ------------------------------
(* Accounts with two keys of one name. *)
EXTENDS Accounts

MCNameOf == [k \in Keys |-> CHOOSE n \in Names : TRUE]
=============================================================================
