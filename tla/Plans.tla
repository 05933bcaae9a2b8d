-------------------------------- MODULE Plans --------------------------------
(***************************************************************************)
(* What GetPlan makes of a planning job (internal/worker/plan.go): the     *)
(* steps of its plan are validated, their dependencies closed and searched *)
(* for cycles, their scopes compared, and the steps dealt into waves that  *)
(* may be dispatched together.                                             *)
(*                                                                         *)
(* The plan is arbitrary and read lazily: a step is chosen when the loop   *)
(* over the steps comes to it, the dependencies when they are looked at.   *)
(* The order of the steps bears only on which of two errors is reported,   *)
(* so the plan is kept as functions of the step IDs.                       *)
(***************************************************************************)
EXTENDS Scopes, FiniteSets

CONSTANTS
    Ids,            \* step IDs
    WriteSets,      \* bound: the write paths a step may come with
    Workspace,      \* in.Task.Workspace
    Authorized,     \* in.Task.WritePaths
    MaxTasks        \* in.MaxTasks

ASSUME PlansAssumption ==
    /\ IsFiniteSet(Ids)
    /\ \A w \in WriteSets : w \in SUBSET RelPath
    /\ Workspace \in AbsPath
    /\ Authorized \in SUBSET RelPath
    /\ MaxTasks \in Int

\* A specification without a limit, or with one out of range, gets the default.
StepLimit == IF MaxTasks \in 1 .. 12 THEN MaxTasks ELSE 6

VARIABLES
    job,        \* the planning job: Status, and whether its checkpoint is
                \* complete with nothing remaining
    pc,         \* where GetPlan is, or the status it has returned
    ids,        \* seenIDs
    write,      \* WritePaths of the steps
    deps,       \* DependsOn of the steps
    reach,      \* transitiveDeps
    todo,       \* the IDs the outermost loop of the closure has still to take
    degree,     \* inDegree
    waves,      \* the waves so far
    cause       \* why the plan was refused

plan == <<ids, write, deps>>
closure == <<reach, todo>>
order == <<degree, waves>>
vars == <<job, pc, ids, write, deps, reach, todo, degree, waves, cause>>

JobStatus == {"queued", "running", "completed", "failed", "cancelled",
              "limit_reached", "needs_attention", "interrupted"}
active(s) == s \in {"queued", "running"}

Init ==
    /\ job \in [status : JobStatus, complete : BOOLEAN]
    /\ pc = "status" /\ cause = "none"
    /\ ids = {} /\ write = [i \in Ids |-> {}] /\ deps = [i \in Ids |-> {}]
    /\ reach = [i \in Ids |-> {}] /\ todo = {}
    /\ degree = [i \in Ids |-> 0] /\ waves = <<>>

\* needs_attention, with an error that names the cause.
Refuse(c) ==
    /\ pc' = "needs_attention" /\ cause' = c
    /\ UNCHANGED <<job, plan, closure, order>>

Goto(place) == pc' = place /\ UNCHANGED <<job, cause>>

\* All there is to return of an active job is its status.
StatusOnly ==
    /\ pc = "status" /\ active(job.status)
    /\ Goto(job.status) /\ UNCHANGED <<plan, closure, order>>

\* It is the checkpoint that says whether planning was finished.
NotFinished ==
    /\ pc = "status" /\ ~active(job.status)
    /\ job.status # "completed" \/ ~job.complete
    /\ Refuse("job")

\* At most 64 KiB of strict JSON with nothing after it.
Parse ==
    /\ pc = "status" /\ job.status = "completed" /\ job.complete
    /\ \/ Refuse("parse")
       \/ Goto("steps") /\ UNCHANGED <<plan, closure, order>>

\* No step, or one more than allowed.
WrongCount ==
    /\ pc = "steps"
    /\ ids = {} \/ Cardinality(ids) = StepLimit
    /\ Refuse("count")

\* The ID of the step is malformed or taken, it has no prompt, acceptance
\* criteria or write paths, it asks for too many tokens, or brings a task.
BadStep == pc = "steps" /\ Refuse("step")

ReadStep ==
    /\ pc = "steps" /\ Cardinality(ids) < StepLimit
    /\ \E i \in Ids \ ids, w \in WriteSets \ {{}} :
          /\ ids' = ids \cup {i}
          /\ write' = [write EXCEPT ![i] = w]
    /\ UNCHANGED <<job, pc, cause, deps, closure, order>>

StepsRead ==
    /\ pc = "steps" /\ ids # {}
    /\ Goto("dependencies") /\ UNCHANGED <<plan, closure, order>>
-----------------------------------------------------------------------------
(* Dependencies, their closure, and cycles.                                *)

\* A step depends on itself, on an unknown step, or on one step twice.
BadDependency == pc = "dependencies" /\ Refuse("dependency")

\* Mutant of ReadDependencies: an unknown step is as good as any.
ReadDependenciesUnknown ==
    /\ pc = "dependencies"
    /\ \E D \in [ids -> SUBSET Ids] :
          /\ \A i \in ids : i \notin D[i]
          /\ deps' = [i \in Ids |-> IF i \in ids THEN D[i] ELSE {}]
    /\ reach' = deps' /\ todo' = ids
    /\ Goto("closure") /\ UNCHANGED <<ids, write, order>>

ReadDependencies ==
    /\ pc = "dependencies"
    /\ \E D \in [ids -> SUBSET ids] :
          /\ \A i \in ids : i \notin D[i]
          /\ deps' = [i \in Ids |-> IF i \in ids THEN D[i] ELSE {}]
    /\ reach' = deps' /\ todo' = ids
    /\ Goto("closure") /\ UNCHANGED <<ids, write, order>>

\* Mutant of Closed: goes by the direct dependencies, not by what is known.
ClosedDirectly(k) ==
    [i \in Ids |-> IF k \in deps[i] THEN reach[i] \cup reach[k] ELSE reach[i]]

\* The two inner loops for one k of the outermost.  The loops range over a
\* map, whose order is different every time.
Closed(k) ==
    [i \in Ids |-> IF k \in reach[i] THEN reach[i] \cup reach[k] ELSE reach[i]]

Close ==
    /\ pc = "closure"
    /\ \E k \in todo : reach' = Closed(k) /\ todo' = todo \ {k}
    /\ UNCHANGED <<job, pc, cause, plan, order>>

Cycle == \E i \in ids : i \in reach[i]

CheckCycles ==
    /\ pc = "closure" /\ todo = {}
    /\ \/ Cycle /\ Refuse("cycle")
       \/ ~Cycle /\ Goto("tasks") /\ UNCHANGED <<plan, closure, order>>
-----------------------------------------------------------------------------
(* The tasks of the steps and their scopes.                                *)

\* A path of a step is protected or a link, or the assignment is too long.
BadTask == pc = "tasks" /\ Refuse("task")

Outside(i) == \E p \in write[i] : ~owns(Authorized, p)

CheckTasks ==
    /\ pc = "tasks"
    /\ \/ (\E i \in ids : Outside(i)) /\ Refuse("scope")
       \/ /\ \A i \in ids : ~Outside(i)
          /\ Goto("overlaps") /\ UNCHANGED <<plan, closure, order>>

\* Mutant of Overlap: compares the paths, not the subtrees.
OverlapEqual(i, j) ==
    /\ i # j /\ j \notin reach[i] /\ i \notin reach[j]
    /\ write[i] \cap write[j] # {}

\* Mutant of Overlap: takes only direct dependencies for an order.
OverlapDirect(i, j) ==
    /\ i # j /\ j \notin deps[i] /\ i \notin deps[j]
    /\ conflicts(write[i], write[j])

Overlap(i, j) ==
    /\ i # j /\ j \notin reach[i] /\ i \notin reach[j]
    /\ conflicts(write[i], write[j])

CheckOverlaps ==
    /\ pc = "overlaps"
    /\ \/ (\E i, j \in ids : Overlap(i, j)) /\ Refuse("overlap")
       \/ /\ \A i, j \in ids : ~Overlap(i, j)
          /\ Goto("waves") /\ degree' = [i \in Ids |-> Cardinality(deps[i])]
          /\ UNCHANGED <<plan, closure, waves>>
-----------------------------------------------------------------------------
(* Waves.                                                                  *)

\* currentWave, and what has been dealt with (inDegree -1, remainingCount).
Wave == {i \in ids : degree[i] = 0}
Remaining == {i \in ids : degree[i] # -1}

\* Mutant of Resolved: a step is ready with the first wave it depends on.
ResolvedAtOnce(W) ==
    [i \in Ids |-> IF i \in W THEN -1
                   ELSE IF deps[i] \cap W # {} THEN 0 ELSE degree[i]]

\* inDegree after the wave W.
Resolved(W) ==
    [i \in Ids |-> IF i \in W THEN -1
                   ELSE degree[i] - Cardinality(deps[i] \cap W)]

NextWave ==
    /\ pc = "waves" /\ Remaining # {} /\ Wave # {}
    /\ waves' = Append(waves, Wave)
    /\ degree' = Resolved(Wave)
    /\ UNCHANGED <<job, pc, cause, plan, closure>>

\* An error of the code that RefusedForCause says is never reported; hence no
\* disjunct of Next.
Deadlocked == pc = "waves" /\ Remaining # {} /\ Wave = {}

Ready ==
    /\ pc = "waves" /\ Remaining = {}
    /\ Goto("plan_ready") /\ UNCHANGED <<plan, closure, order>>

Next ==
    \/ StatusOnly \/ NotFinished \/ Parse
    \/ WrongCount \/ BadStep \/ ReadStep \/ StepsRead
    \/ BadDependency \/ ReadDependencies \/ Close \/ CheckCycles
    \/ BadTask \/ CheckTasks \/ CheckOverlaps
    \/ NextWave \/ Ready

Spec == Init /\ [][Next]_vars
-----------------------------------------------------------------------------
TypeOK ==
    /\ job \in [status : JobStatus, complete : BOOLEAN]
    /\ pc \in {"status", "queued", "running", "steps", "dependencies", "closure",
               "tasks", "overlaps", "waves", "plan_ready", "needs_attention"}
    /\ ids \in SUBSET Ids /\ Cardinality(ids) =< StepLimit
    /\ write \in [Ids -> SUBSET RelPath]
    /\ deps \in [Ids -> SUBSET ids] /\ reach \in [Ids -> SUBSET ids]
    /\ todo \in SUBSET ids
    /\ degree \in [Ids -> Int] /\ waves \in Seq(SUBSET ids)
    /\ cause \in {"none", "job", "parse", "count", "step", "dependency", "cycle",
                  "task", "scope", "overlap"}

\* Step i cannot start before step j has finished: whatever set of steps holds
\* the dependencies of i and with every step its dependencies holds j.  This is
\* the reference definition, with no closure computed.
Needs(i, j) ==
    \A S \in SUBSET ids :
        deps[i] \subseteq S /\ (\A x \in S : deps[x] \subseteq S) => j \in S

\* The loops of the closure, run in the order the map happens to have, find
\* exactly the steps a step needs, the long way round included.
ClosureExact ==
    pc \in {"tasks", "overlaps", "waves", "plan_ready"} =>
        \A i, j \in ids : j \in reach[i] <=> Needs(i, j)

\* In a plan that is ready every step is in one wave, and everything it needs
\* is in earlier ones.
WavesInOrder ==
    pc = "plan_ready" =>
        \A i \in ids :
            \E n \in 1 .. Len(waves) :
                /\ \A m \in 1 .. Len(waves) : i \in waves[m] <=> m = n
                /\ \A j \in ids : Needs(i, j) =>
                      \E m \in 1 .. n - 1 : j \in waves[m]

TaskOf(i) == [ws |-> Workspace, write |-> write[i]]

\* Spawn takes every wave whole: by its own comparison, of absolute paths, no
\* two tasks of a wave conflict, nor do they share a file that it overlooks;
\* and no task reaches beyond the authorized scope, in whatever case its paths
\* are spelled.
WavesDispatchable ==
    pc = "plan_ready" =>
        /\ \A n \in 1 .. Len(waves) : \A i, j \in waves[n] :
              i # j => /\ ~taskConflicts(TaskOf(i), TaskOf(j))
                       /\ ~SharedFile(TaskOf(i), TaskOf(j))
        /\ \A i \in ids : \A p \in write[i] :
              \E s \in Authorized : IsUnder(ToLower(Workspace \o p),
                                            ToLower(Workspace \o s))

\* A plan is refused for its dependencies only if some step needs itself, for
\* overlaps only if two steps that share a file may run at the same time, and
\* the waves never get stuck.
RefusedForCause ==
    /\ cause = "cycle" => \E i \in ids : Needs(i, i)
    /\ cause = "overlap" =>
          \E i, j \in ids : /\ i # j /\ ~Needs(i, j) /\ ~Needs(j, i)
                            /\ SharedFile(TaskOf(i), TaskOf(j))
    /\ ~Deadlocked
=============================================================================
