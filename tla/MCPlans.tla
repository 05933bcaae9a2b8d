------------------------------- MODULE MCPlans -------------------------------
(***************************************************************************)
(* Instance of Plans for TLC: all plans of up to four steps.  A step       *)
(* writes a directory, a file in it spelled in another case, both, or a    *)
(* file outside the authorized scope.                                      *)
(***************************************************************************)
EXTENDS Plans, TLC

MCNames == {"/", "r", "src", "SRC", "f", "doc"}
MCLower == [n \in MCNames |-> IF n = "SRC" THEN "src" ELSE n]
MCWorkspace == <<"/", "r">>
MCAuthorized == {<<"src">>}
MCWriteSets == {{<<"src">>}, {<<"SRC", "f">>}, {<<"src", "f">>, <<"doc">>},
                {<<"src", "doc">>}}
MCSymmetry == Permutations(Ids)
=============================================================================
