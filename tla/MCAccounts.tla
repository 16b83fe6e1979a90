----------------------------- MODULE MCAccounts -----------------------------
(***************************************************************************)
(* Instance of Accounts for TLC: a verified buyer with a session and a     *)
(* recovery code that was just sent, a second address with an invitation.  *)
(***************************************************************************)
EXTENDS Accounts, TLC

Interchangeable == Permutations(Requests)
=============================================================================
