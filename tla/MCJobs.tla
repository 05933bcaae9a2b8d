------------------------------- MODULE MCJobs -------------------------------
(***************************************************************************)
(* Instances of Jobs for TLC.  "edit", "nested" and "phase" reach the same *)
(* file by different workspaces and spellings; "docs" overlaps with none   *)
(* of them, and "root" with all.                                           *)
(***************************************************************************)
EXTENDS Jobs

CONSTANT Small      \* the identifiers of this instance

MCNames == {"/", "r", "src", "SRC", "docs", "f"}
MCLower == [n \in MCNames |-> IF n = "SRC" THEN "src" ELSE n]

AllTasks ==
    [edit |-> [ws |-> <<"/", "r">>, write |-> {<<"SRC">>}, kind |-> "task",
               intent |-> "implementation"],
     nested |-> [ws |-> <<"/", "r", "src">>, write |-> {<<>>}, kind |-> "task",
                 intent |-> ""],
     docs |-> [ws |-> <<"/", "r">>, write |-> {<<"docs">>, <<"f">>},
               kind |-> "task", intent |-> "implementation"],
     phase |-> [ws |-> <<"/", "r">>, write |-> {<<"SRC", "f">>}, kind |-> "phase",
                intent |-> "implementation"],
     root |-> [ws |-> <<"/">>, write |-> {<<>>}, kind |-> "task",
               intent |-> ""],
     planner |-> [ws |-> <<"/", "r">>, write |-> {}, kind |-> "plan",
                  intent |-> "investigation"]]

MCTask == [j \in Small |-> AllTasks[j]]
MCFiles == {<<"/", "r", "src", "f">>}
=============================================================================
