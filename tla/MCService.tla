------------------------------ MODULE MCService ------------------------------
(***************************************************************************)
(* Instances of Service for TLC: two clients, and daemons enough for one to *)
(* crash, one to be stopped and one to be turned away.                     *)
(***************************************************************************)
EXTENDS Service
=============================================================================
