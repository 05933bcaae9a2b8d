---------------------------- MODULE MCCoordination ----------------------------
(***************************************************************************)
(* Instance of Coordination for TLC: one job gets mail, from Codex and from *)
(* itself and its peer, a page at a time, and both publish and hand off,   *)
(* with one packet more than a job may start with.  Packets are alike.     *)
(***************************************************************************)
EXTENDS Coordination, TLC

MCSymmetry == Permutations(Packets)
=============================================================================
