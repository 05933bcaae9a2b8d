------------------------------- MODULE MCMemory -------------------------------
(***************************************************************************)
(* Instance of Memory for TLC: two searches over a job, which is continued *)
(* twice, and two packets.                                                 *)
(***************************************************************************)
EXTENDS Memory
=============================================================================
