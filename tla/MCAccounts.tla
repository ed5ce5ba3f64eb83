------------------------------- MODULE MCAccounts -------------------------------
(* Two Google accounts, one phone and three requests that overlap in every way. *)
EXTENDS Accounts
=============================================================================
