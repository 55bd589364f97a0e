------------------------------ MODULE MCClients ------------------------------
(***************************************************************************)
(* Instance of Clients for TLC: one client of TMR, one local company, a    *)
(* contact, a process and two listings at once.                            *)
(***************************************************************************)
EXTENDS Clients, TLC
=============================================================================
