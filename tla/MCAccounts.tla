----------------------------- MODULE MCAccounts -----------------------------
(***************************************************************************)
(* One address, its own document number and one somebody else has.         *)
(***************************************************************************)
EXTENDS Accounts, TLC

CONSTANTS own, others, v1
=============================================================================
