-------------------------- MODULE ScopeReservation --------------------------
(***************************************************************************)
(* What the job manager promises about files, with no queue, goroutine,    *)
(* channel, disk or crash in it: a job holds its write scopes from the     *)
(* moment it is accepted until it stops, no two holders have overlapping   *)
(* scopes (the file system's root against a path below it excepted), and   *)
(* only a holder edits a file (docs/reference.md, "A running editor        *)
(* retains its reservation until it stops").                               *)
(***************************************************************************)
EXTENDS Scopes

CONSTANTS
    Jobs,       \* the job identifiers that may be drawn
    Task,       \* the task of each of them
    Files,      \* absolute paths of workspace files
    NoJob       \* no job

VARIABLES
    holders,    \* the jobs whose scopes are reserved
    writer      \* the job that last edited each file

rvars == <<holders, writer>>

ResInit == holders = {} /\ writer = [x \in Files |-> NoJob]

Reserve(B) ==
    /\ \A j \in B, k \in holders \cup B :
          j # k => Apart(Task[j], Task[k])
    /\ holders' = holders \cup B
    /\ UNCHANGED writer

Release(B) ==
    /\ holders' = holders \ B
    /\ UNCHANGED writer

Edit(j, x) ==
    /\ j \in holders
    /\ MayWrite(Task[j], x)
    /\ writer' = [writer EXCEPT ![x] = j]
    /\ UNCHANGED holders

ResNext ==
    \/ \E B \in SUBSET Jobs : Reserve(B) \/ Release(B)
    \/ \E j \in Jobs, x \in Files : Edit(j, x)

ResSpec == ResInit /\ [][ResNext]_rvars
=============================================================================
