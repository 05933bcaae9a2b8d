------------------------------ MODULE Plans_proof ------------------------------
(***************************************************************************)
(* Theorems about Plans, for plans of any number of steps and any scopes:  *)
(* the closure is exact in whatever order its loops run, the waves respect *)
(* it and can be dispatched, and a plan is refused only for a reason.      *)
(***************************************************************************)
EXTENDS Plans, FiniteSetTheorems, WellFoundedInduction, TLAPS

\* Nothing is worked out before the steps and their dependencies are read, nor are
\* there waves before the last check is passed.
EarlyInv ==
    /\ pc \in {"status", "steps", "dependencies"} =>
          /\ \A i \in Ids : deps[i] = {} /\ reach[i] = {}
          /\ todo = {}
    /\ pc \notin {"waves", "plan_ready"} => waves = <<>>
    /\ cause # "none" => pc = "needs_attention"

\* What is reached is needed; the dependencies are reached, and so is all that is
\* reached through a step that the outermost loop has taken.
ReachInv ==
    /\ \A i, j \in ids : j \in reach[i] => Needs(i, j)
    /\ \A i \in ids : deps[i] \subseteq reach[i]
    /\ \A k \in ids \ todo : \A i \in ids : k \in reach[i] => reach[k] \subseteq reach[i]

\* What the checks have left of a plan, and what a refusal was for.
CheckedInv ==
    /\ pc \in {"tasks", "overlaps", "waves", "plan_ready"} =>
          todo = {} /\ \A i \in ids : i \notin reach[i]
    /\ pc \in {"overlaps", "waves", "plan_ready"} => \A i \in ids : ~Outside(i)
    /\ pc \in {"waves", "plan_ready"} => \A i, j \in ids : ~Overlap(i, j)
    /\ cause = "cycle" => Cycle
    /\ cause = "overlap" => todo = {} /\ \E i, j \in ids : Overlap(i, j)

\* The steps of the waves before the n-th, and of all of them.
Before(n) == UNION {waves[m] : m \in 1 .. n - 1}
Dealt == Before(Len(waves) + 1)

\* Waves do not meet, have their dependencies behind them, and a step that is in none
\* counts the dependencies that are not either.
WaveInv ==
    /\ \A n \in 1 .. Len(waves) : \A i \in waves[n] : deps[i] \subseteq Before(n)
    /\ \A n, m \in 1 .. Len(waves) : n # m => waves[n] \cap waves[m] = {}
    /\ pc \in {"waves", "plan_ready"} =>
          \A i \in ids : degree[i] = IF i \in Dealt THEN -1
                                     ELSE Cardinality(deps[i] \ Dealt)
    /\ pc = "plan_ready" => ids \subseteq Dealt

PInv == TypeOK /\ EarlyInv /\ ReachInv /\ CheckedInv /\ WaveInv
-----------------------------------------------------------------------------
(* Types.                                                                  *)

\* The limit is a number of steps.
LEMMA StepLimitType == StepLimit \in 1 .. 12
BY PlansAssumption DEF StepLimit

\* The steps of a plan are finitely many, and so are the dependencies of one.
LEMMA IdsFinite ==
    ASSUME TypeOK
    PROVE  /\ IsFiniteSet(ids) /\ Cardinality(ids) \in Nat
           /\ \A S \in SUBSET ids : IsFiniteSet(S) /\ Cardinality(S) \in Nat
<1>1. \A S \in SUBSET Ids : IsFiniteSet(S) /\ Cardinality(S) \in Nat
  BY PlansAssumption, FS_Subset, FS_CardinalityType
<1>2. ids \in SUBSET Ids
  BY DEF TypeOK
<1>3. \A S \in SUBSET ids : S \in SUBSET Ids
  BY <1>2
<1> QED
  BY <1>1, <1>2, <1>3

\* A step that is read has write paths.
LEMMA ReadStepTypes ==
    ASSUME TypeOK, ReadStep
    PROVE  TypeOK'
<1>1. PICK i \in Ids \ ids, w \in WriteSets \ {{}} :
         ids' = ids \cup {i} /\ write' = [write EXCEPT ![i] = w]
  BY DEF ReadStep
<1>2. Cardinality(ids) < StepLimit /\ UNCHANGED <<job, pc, cause, deps, closure, order>>
  BY DEF ReadStep
<1>3. ids' \in SUBSET Ids /\ Cardinality(ids') =< StepLimit
  <2>1. Cardinality(ids') = Cardinality(ids) + 1
    BY <1>1, IdsFinite, FS_AddElement
  <2> QED
    BY <1>1, <1>2, <2>1, IdsFinite, StepLimitType DEF TypeOK
<1>4. write' \in [Ids -> SUBSET RelPath]
  BY <1>1, PlansAssumption DEF TypeOK
<1>5. \A S : S \in SUBSET ids => S \in SUBSET ids'
  BY <1>1
<1>6. deps' \in [Ids -> SUBSET ids'] /\ reach' \in [Ids -> SUBSET ids'] /\ todo' \in SUBSET ids'
  BY <1>2, <1>5 DEF TypeOK, closure
<1>7. waves' \in Seq(SUBSET ids')
  <2>1. \A n \in 1 .. Len(waves) : waves[n] \in SUBSET ids'
    BY <1>5 DEF TypeOK
  <2> QED
    BY <1>2, <2>1 DEF TypeOK, order
<1> QED
  BY <1>2, <1>3, <1>4, <1>6, <1>7 DEF TypeOK, order

\* The degrees are integers, the sets of reached steps hold steps of the plan.
LEMMA StepTypes ==
    ASSUME TypeOK, ReadDependencies \/ Close \/ CheckOverlaps \/ NextWave
    PROVE  TypeOK'
<1>1. CASE ReadDependencies
  <2>1. PICK D \in [ids -> SUBSET ids] :
           deps' = [i \in Ids |-> IF i \in ids THEN D[i] ELSE {}]
    BY <1>1 DEF ReadDependencies
  <2>2. deps' \in [Ids -> SUBSET ids]
    BY <2>1
  <2> QED
    BY <1>1, <2>2 DEF ReadDependencies, TypeOK, Goto, order
<1>2. CASE Close
  <2>1. PICK k \in todo : reach' = Closed(k) /\ todo' = todo \ {k}
    BY <1>2 DEF Close
  <2>2. k \in Ids
    BY <2>1 DEF TypeOK
  <2>3. reach' \in [Ids -> SUBSET ids]
    BY <2>1, <2>2 DEF Closed, TypeOK
  <2> QED
    BY <1>2, <2>1, <2>3 DEF Close, TypeOK, plan, order
<1>3. CASE CheckOverlaps
  <2>1. CASE UNCHANGED order
    BY <1>3, <2>1 DEF CheckOverlaps, Refuse, Goto, TypeOK, plan, closure, order
  <2>2. CASE degree' = [i \in Ids |-> Cardinality(deps[i])]
    <3>1. \A i \in Ids : Cardinality(deps[i]) \in Int
      BY IdsFinite DEF TypeOK
    <3>2. degree' \in [Ids -> Int]
      BY <2>2, <3>1
    <3> QED
      BY <1>3, <3>2 DEF CheckOverlaps, Refuse, Goto, TypeOK, plan, closure, order
  <2> QED
    BY <1>3, <2>1, <2>2 DEF CheckOverlaps, Refuse
<1>4. CASE NextWave
  <2>1. Wave \in SUBSET ids
    BY DEF Wave
  <2>2. degree' \in [Ids -> Int]
    <3>1. \A i \in Ids : Cardinality(deps[i] \cap Wave) \in Int /\ degree[i] \in Int
      BY <2>1, IdsFinite DEF TypeOK
    <3> QED
      BY <1>4, <3>1 DEF NextWave, Resolved
  <2>3. waves' \in Seq(SUBSET ids)
    BY <1>4, <2>1 DEF NextWave, TypeOK
  <2> QED
    BY <1>4, <2>2, <2>3 DEF NextWave, TypeOK, plan, closure
<1> QED
  BY <1>1, <1>2, <1>3, <1>4

\* The other steps only go on or refuse.
LEMMA CheckTypes ==
    ASSUME TypeOK,
           \/ StatusOnly \/ NotFinished \/ Parse \/ WrongCount \/ BadStep \/ StepsRead
           \/ BadDependency \/ CheckCycles \/ BadTask \/ CheckTasks \/ Ready
    PROVE  TypeOK'
<1>1. UNCHANGED <<job, ids, write, deps, reach, todo, degree, waves>>
  BY DEF StatusOnly, NotFinished, Parse, WrongCount, BadStep, StepsRead, BadDependency,
         CheckCycles, BadTask, CheckTasks, Ready, Refuse, Goto, plan, closure, order
<1>2. /\ pc' \in {"status", "queued", "running", "steps", "dependencies", "closure",
                  "tasks", "overlaps", "waves", "plan_ready", "needs_attention"}
      /\ cause' \in {cause, "job", "parse", "count", "step", "dependency", "cycle", "task",
                     "scope"}
  BY DEF StatusOnly, NotFinished, Parse, WrongCount, BadStep, StepsRead, BadDependency,
         CheckCycles, BadTask, CheckTasks, Ready, Refuse, Goto, active
<1> QED
  BY <1>1, <1>2 DEF TypeOK
-----------------------------------------------------------------------------
(* What a step needs.                                                      *)

\* What is needed by something needed is needed.
LEMMA NeedsTransitive ==
    ASSUME NEW i \in ids, NEW k \in ids, NEW j \in ids, Needs(i, k), Needs(k, j)
    PROVE  Needs(i, j)
<1> SUFFICES ASSUME NEW S \in SUBSET ids, deps[i] \subseteq S,
                    \A x \in S : deps[x] \subseteq S
             PROVE  j \in S
  BY DEF Needs
<1>1. k \in S
  BY DEF Needs
<1> QED
  BY <1>1 DEF Needs

\* When the loops have taken every step, what is reached is what is needed.
LEMMA ReachIsNeeds ==
    ASSUME PInv, todo = {}, NEW i \in ids, NEW j \in ids
    PROVE  j \in reach[i] <=> Needs(i, j)
<1>1. j \in reach[i] => Needs(i, j)
  BY DEF PInv, ReachInv
<1>2. reach[i] \in SUBSET ids
  BY DEF PInv, TypeOK
<1>3. \A x \in reach[i] : deps[x] \subseteq reach[i]
  BY <1>2 DEF PInv, ReachInv
<1>4. deps[i] \subseteq reach[i]
  BY DEF PInv, ReachInv
<1> QED
  BY <1>1, <1>2, <1>3, <1>4 DEF Needs

\* The two inner loops reach no more than is needed, and with the steps taken before
\* also the one they are run for is left transitive.
LEMMA CloseReaches ==
    ASSUME PInv, Close
    PROVE  ReachInv'
<1>1. PICK k \in todo : reach' = Closed(k) /\ todo' = todo \ {k}
  BY DEF Close
<1>2. UNCHANGED <<ids, deps>> /\ k \in ids /\ ids \subseteq Ids
  BY <1>1 DEF Close, plan, PInv, TypeOK
<1>3. \A i \in ids : /\ reach[i] \subseteq ids
                     /\ reach'[i] = IF k \in reach[i] THEN reach[i] \cup reach[k] ELSE reach[i]
  BY <1>1, <1>2 DEF Closed, PInv, TypeOK
<1>4. \A i, j \in ids : j \in reach'[i] => Needs(i, j)'
  <2> SUFFICES ASSUME NEW i \in ids, NEW j \in ids, j \in reach'[i]
               PROVE  Needs(i, j)
    BY <1>2 DEF Needs
  <2>1. CASE j \in reach[i]
    BY <2>1 DEF PInv, ReachInv
  <2>2. CASE k \in reach[i] /\ j \in reach[k]
    <3>1. Needs(i, k) /\ Needs(k, j)
      BY <1>2, <2>2 DEF PInv, ReachInv
    <3> QED
      BY <1>2, <3>1, NeedsTransitive
  <2> QED
    BY <1>3, <2>1, <2>2
<1>5. \A i \in ids : deps[i] \subseteq reach'[i]
  BY <1>3 DEF PInv, ReachInv
<1>6. ASSUME NEW m \in ids \ todo', NEW i \in ids, m \in reach'[i]
      PROVE  reach'[m] \subseteq reach'[i]
  <2>1. m \in ids /\ (m = k \/ m \in ids \ todo)
    BY <1>1, <1>6
  <2>2. CASE m = k
    BY <1>2, <1>3, <1>6, <2>2
  <2>3. CASE m \in ids \ todo
    <3>1. \A h \in ids : m \in reach[h] => reach[m] \subseteq reach[h]
      BY <2>3 DEF PInv, ReachInv
    <3>2. CASE m \in reach[i]
      BY <1>3, <2>1, <3>1, <3>2
    <3>3. CASE k \in reach[i] /\ m \in reach[k]
      BY <1>2, <1>3, <2>1, <3>1, <3>3
    <3> QED
      BY <1>3, <1>6, <3>2, <3>3
  <2> QED
    BY <2>1, <2>2, <2>3
<1> QED
  BY <1>2, <1>4, <1>5, <1>6 DEF ReachInv

-----------------------------------------------------------------------------
(* Steps up to the waves.                                                  *)

\* A step that leaves the plan as it is leaves what is known of it.
LEMMA PlanKept ==
    ASSUME PInv, UNCHANGED <<ids, write, deps, reach, todo, waves>>
    PROVE  /\ ReachInv' /\ Cycle' = Cycle /\ Dealt' = Dealt
           /\ \A i \in ids : Outside(i)' = Outside(i)
           /\ \A i, j \in ids : Overlap(i, j)' = Overlap(i, j)
           /\ \A n \in 1 .. Len(waves) : \A i \in waves[n] : deps[i] \subseteq Before(n)'
           /\ \A n, m \in 1 .. Len(waves) : n # m => waves[n] \cap waves[m] = {}
<1>1. ReachInv'
  BY DEF PInv, ReachInv, Needs
<1>2. Cycle' = Cycle /\ Dealt' = Dealt
  BY DEF Cycle, Dealt, Before
<1>3. /\ \A i \in ids : Outside(i)' = Outside(i)
      /\ \A i, j \in ids : Overlap(i, j)' = Overlap(i, j)
  BY DEF Outside, Overlap
<1>4. /\ \A n \in 1 .. Len(waves) : \A i \in waves[n] : deps[i] \subseteq Before(n)'
      /\ \A n, m \in 1 .. Len(waves) : n # m => waves[n] \cap waves[m] = {}
  BY DEF PInv, WaveInv, Before
<1> QED
  BY <1>1, <1>2, <1>3, <1>4

\* Steps that go on to read, or refuse for what was read.
LEMMA ReadingKeeps ==
    ASSUME PInv,
           \/ StatusOnly \/ NotFinished \/ Parse \/ WrongCount \/ BadStep \/ StepsRead
           \/ BadDependency \/ BadTask
    PROVE  PInv'
<1>1. UNCHANGED <<job, ids, write, deps, reach, todo, degree, waves>>
  BY DEF StatusOnly, NotFinished, Parse, WrongCount, BadStep, StepsRead, BadDependency,
         BadTask, Refuse, Goto, plan, closure, order
<1>2. /\ pc' \in {"queued", "running", "steps", "dependencies", "needs_attention"}
      /\ cause' \in {cause, "job", "parse", "count", "step", "dependency", "task"}
      /\ pc' # "needs_attention" => cause' = cause
      /\ pc \in {"status", "steps", "dependencies", "tasks"}
      /\ pc = "tasks" => pc' = "needs_attention"
  BY DEF StatusOnly, NotFinished, Parse, WrongCount, BadStep, StepsRead, BadDependency,
         BadTask, Refuse, Goto, active
<1>3. TypeOK'
  BY CheckTypes DEF PInv
<1>4. EarlyInv'
  BY <1>1, <1>2 DEF PInv, EarlyInv
<1>5. ReachInv'
  BY <1>1, PlanKept
<1>6. cause = "none"
  BY <1>2 DEF PInv, EarlyInv
<1>7. CheckedInv'
  BY <1>2, <1>6 DEF CheckedInv
<1>8. WaveInv'
  BY <1>1, <1>2, PlanKept DEF WaveInv
<1> QED
  BY <1>3, <1>4, <1>5, <1>7, <1>8 DEF PInv

\* A step is read while nothing depends on it.
LEMMA ReadStepKeeps ==
    ASSUME PInv, ReadStep
    PROVE  PInv'
<1>1. /\ pc = "steps" /\ UNCHANGED <<pc, cause, deps, reach, todo, degree, waves>>
      /\ ids' \subseteq Ids
  <2>1. TypeOK'
    BY ReadStepTypes DEF PInv
  <2> QED
    BY <2>1 DEF ReadStep, closure, order, TypeOK
<1>2. /\ \A i \in Ids : deps[i] = {} /\ reach[i] = {}
      /\ todo = {} /\ waves = <<>> /\ cause = "none"
  BY <1>1 DEF PInv, EarlyInv
<1>3. ReachInv'
  BY <1>1, <1>2 DEF ReachInv
<1>4. EarlyInv' /\ CheckedInv'
  BY <1>1, <1>2 DEF EarlyInv, CheckedInv
<1>5. WaveInv'
  BY <1>1, <1>2 DEF WaveInv
<1> QED
  BY <1>3, <1>4, <1>5, ReadStepTypes DEF PInv

\* The closure starts from the dependencies.
LEMMA ReadDependenciesKeeps ==
    ASSUME PInv, ReadDependencies
    PROVE  PInv'
<1>1. /\ pc = "dependencies" /\ pc' = "closure" /\ reach' = deps' /\ todo' = ids
      /\ UNCHANGED <<cause, ids, write, degree, waves>>
  BY DEF ReadDependencies, Goto, order
<1>2. TypeOK'
  BY StepTypes DEF PInv
<1>3. waves = <<>> /\ cause = "none"
  BY <1>1 DEF PInv, EarlyInv
<1>4. ReachInv'
  BY <1>1 DEF ReachInv, Needs
<1>5. EarlyInv' /\ CheckedInv' /\ WaveInv'
  BY <1>1, <1>3 DEF EarlyInv, CheckedInv, WaveInv
<1> QED
  BY <1>2, <1>4, <1>5 DEF PInv

\* One turn of the outermost loop.
LEMMA CloseKeeps ==
    ASSUME PInv, Close
    PROVE  PInv'
<1>1. pc = "closure" /\ UNCHANGED <<pc, cause, waves>>
  BY DEF Close, order
<1>2. waves = <<>> /\ cause = "none"
  BY <1>1 DEF PInv, EarlyInv
<1>3. EarlyInv' /\ CheckedInv' /\ WaveInv'
  BY <1>1, <1>2 DEF EarlyInv, CheckedInv, WaveInv
<1> QED
  BY <1>3, CloseReaches, StepTypes DEF PInv

\* The checks of the plan as a whole.
LEMMA ChecksKeep ==
    ASSUME PInv, CheckCycles \/ CheckTasks
    PROVE  PInv'
<1>1. /\ UNCHANGED <<ids, write, deps, reach, todo, degree, waves>>
      /\ pc \in {"closure", "tasks"} /\ pc' \in {"tasks", "overlaps", "needs_attention"}
      /\ cause' \in {cause, "cycle", "scope"}
      /\ pc' # "needs_attention" => cause' = cause
  BY DEF CheckCycles, CheckTasks, Refuse, Goto, plan, closure, order
<1>2. TypeOK'
  BY CheckTypes DEF PInv
<1>3. ReachInv' /\ EarlyInv'
  BY <1>1, PlanKept DEF PInv, EarlyInv
<1>4. cause = "none"
  BY <1>1 DEF PInv, EarlyInv
<1>5. CheckedInv'
  <2>1. CASE CheckCycles
    <3>1. /\ pc' \in {"tasks", "needs_attention"}
          /\ pc' = "tasks" => todo = {} /\ ~Cycle
          /\ cause' = "cycle" => Cycle
          /\ cause' \in {"none", "cycle"}
      BY <1>4, <2>1 DEF CheckCycles, Refuse, Goto
    <3>2. pc' = "tasks" => \A i \in ids : i \notin reach[i]
      BY <3>1 DEF Cycle
    <3> QED
      BY <1>1, <3>1, <3>2, PlanKept DEF CheckedInv
  <2>2. CASE CheckTasks
    <3>1. /\ pc = "tasks" /\ pc' \in {"overlaps", "needs_attention"}
          /\ pc' = "overlaps" => \A i \in ids : ~Outside(i)
          /\ cause' \in {"none", "scope"}
      BY <1>4, <2>2 DEF CheckTasks, Refuse, Goto
    <3> QED
      BY <1>1, <3>1, PlanKept DEF PInv, CheckedInv
  <2> QED
    BY <2>1, <2>2
<1>6. WaveInv'
  BY <1>1, PlanKept DEF WaveInv
<1> QED
  BY <1>2, <1>3, <1>5, <1>6 DEF PInv

\* The last check; the degrees are counted before the first wave.
LEMMA CheckOverlapsKeeps ==
    ASSUME PInv, CheckOverlaps
    PROVE  PInv'
<1>1. /\ UNCHANGED <<ids, write, deps, reach, todo, waves>> /\ pc = "overlaps"
      /\ \/ pc' = "needs_attention" /\ cause' = "overlap" /\ \E i, j \in ids : Overlap(i, j)
         \/ /\ pc' = "waves" /\ cause' = cause /\ \A i, j \in ids : ~Overlap(i, j)
            /\ degree' = [i \in Ids |-> Cardinality(deps[i])]
  BY DEF CheckOverlaps, Refuse, Goto, plan, closure, order
<1>2. TypeOK'
  BY StepTypes DEF PInv
<1>3. cause = "none" /\ waves = <<>> /\ todo = {}
  BY <1>1 DEF PInv, EarlyInv, CheckedInv
<1>4. ReachInv' /\ EarlyInv'
  BY <1>1, <1>3, PlanKept DEF EarlyInv
<1>5. CheckedInv'
  <2>1. /\ \A i \in ids : i \notin reach[i]
        /\ \A i \in ids : ~Outside(i)
    BY <1>1 DEF PInv, CheckedInv
  <2> QED
    BY <1>1, <1>3, <2>1, PlanKept DEF CheckedInv
<1>6. WaveInv'
  <2>1. Dealt = {}
    BY <1>3 DEF Dealt, Before
  <2>2. pc' = "waves" => \A i \in ids : degree'[i] = Cardinality(deps[i] \ {})
    <3>1. \A i \in ids : i \in Ids /\ deps[i] \ {} = deps[i]
      BY DEF PInv, TypeOK
    <3> QED
      BY <1>1, <3>1
  <2> QED
    BY <1>1, <2>1, <2>2, PlanKept DEF WaveInv
<1> QED
  BY <1>2, <1>4, <1>5, <1>6 DEF PInv
-----------------------------------------------------------------------------
(* Waves.                                                                  *)

\* What has been dealt with is in some wave.
LEMMA InDealt ==
    ASSUME PInv
    PROVE  /\ Len(waves) \in Nat
           /\ \A x : x \in Dealt <=> \E m \in 1 .. Len(waves) : x \in waves[m]
<1>1. Len(waves) \in Nat
  BY DEF PInv, TypeOK
<1>2. (Len(waves) + 1) - 1 = Len(waves)
  BY <1>1
<1> QED
  BY <1>1, <1>2 DEF Dealt, Before

\* A step is dealt with exactly if its degree says so; the next wave has its
\* dependencies behind it.
LEMMA Degrees ==
    ASSUME PInv, pc = "waves", NEW i \in ids
    PROVE  /\ degree[i] = -1 <=> i \in Dealt
           /\ degree[i] = 0 <=> i \notin Dealt /\ deps[i] \subseteq Dealt
<1>1. deps[i] \ Dealt \in SUBSET ids
  BY DEF PInv, TypeOK
<1>2. IsFiniteSet(deps[i] \ Dealt) /\ Cardinality(deps[i] \ Dealt) \in Nat
  BY <1>1, IdsFinite DEF PInv
<1>3. Cardinality(deps[i] \ Dealt) = 0 <=> deps[i] \ Dealt = {}
  BY <1>2, FS_EmptySet
<1>4. degree[i] = IF i \in Dealt THEN -1 ELSE Cardinality(deps[i] \ Dealt)
  BY DEF PInv, WaveInv
<1> QED
  BY <1>2, <1>3, <1>4

\* What has been dealt with has all it needs dealt with.
LEMMA DealtClosed ==
    ASSUME PInv, NEW i \in Dealt
    PROVE  deps[i] \subseteq Dealt
<1>1. PICK n \in 1 .. Len(waves) : i \in waves[n]
  BY InDealt
<1>2. deps[i] \subseteq Before(n)
  BY <1>1 DEF PInv, WaveInv
<1>3. \A m \in 1 .. n - 1 : m \in 1 .. Len(waves)
  BY InDealt
<1> QED
  BY <1>2, <1>3, InDealt DEF Before

\* One wave more.
LEMMA NextWaveKeeps ==
    ASSUME PInv, NextWave
    PROVE  PInv'
<1>1. /\ pc = "waves" /\ waves' = Append(waves, Wave) /\ degree' = Resolved(Wave)
      /\ UNCHANGED <<pc, cause, ids, write, deps, reach, todo>>
  BY DEF NextWave, plan, closure
<1>2. TypeOK'
  BY StepTypes DEF PInv
<1>3. EarlyInv'
  BY <1>1 DEF PInv, EarlyInv
<1>4. ReachInv'
  BY <1>1 DEF PInv, ReachInv, Needs
<1>5. CheckedInv'
  BY <1>1 DEF PInv, CheckedInv, Cycle, Outside, Overlap
<1>6. /\ Len(waves) \in Nat /\ Len(waves') = Len(waves) + 1
      /\ \A n \in 1 .. Len(waves) : waves'[n] = waves[n]
      /\ waves'[Len(waves) + 1] = Wave
  BY <1>1 DEF PInv, TypeOK
<1>7. \A n \in 1 .. Len(waves) + 1 : Before(n)' = Before(n)
  BY <1>6 DEF Before
<1>8. Dealt' = Dealt \cup Wave
  <2>1. (Len(waves') + 1) - 1 = Len(waves) + 1
    BY <1>6
  <2>2. \A x : x \in Dealt' <=> \E m \in 1 .. Len(waves) + 1 : x \in waves'[m]
    BY <2>1 DEF Dealt, Before
  <2>3. \A m \in 1 .. Len(waves) + 1 : m \in 1 .. Len(waves) \/ m = Len(waves) + 1
    BY <1>6
  <2>4. \A x : x \in Dealt' <=> x \in Wave \/ \E m \in 1 .. Len(waves) : x \in waves[m]
    <3>1. \A m \in 1 .. Len(waves) : m \in 1 .. Len(waves) + 1
      BY <1>6
    <3>2. Len(waves) + 1 \in 1 .. Len(waves) + 1
      BY <1>6
    <3> QED
      BY <1>6, <2>2, <2>3, <3>1, <3>2
  <2> QED
    BY <2>4, InDealt
<1>9. \A i \in Wave : i \in ids /\ i \notin Dealt /\ deps[i] \subseteq Dealt
  BY <1>1, Degrees DEF Wave
<1>10. Wave \cap Dealt = {} /\ \A n \in 1 .. Len(waves) : waves[n] \subseteq Dealt
  BY <1>6, <1>9 DEF Dealt, Before
<1>11. \A n \in 1 .. Len(waves') : \A i \in waves'[n] : deps'[i] \subseteq Before(n)'
  <2> SUFFICES ASSUME NEW n \in 1 .. Len(waves) + 1, NEW i \in waves'[n]
               PROVE  deps[i] \subseteq Before(n)'
    BY <1>1, <1>6
  <2>1. Before(n)' = Before(n)
    BY <1>7
  <2>2. CASE n = Len(waves) + 1
    BY <1>6, <1>9, <2>1, <2>2 DEF Dealt
  <2>3. CASE n # Len(waves) + 1
    <3>1. n \in 1 .. Len(waves)
      BY <1>6, <2>3
    <3> QED
      BY <1>6, <2>1, <3>1 DEF PInv, WaveInv
  <2> QED
    BY <2>2, <2>3
<1>12. \A n, m \in 1 .. Len(waves') : n # m => waves'[n] \cap waves'[m] = {}
  <2> SUFFICES ASSUME NEW n \in 1 .. Len(waves) + 1, NEW m \in 1 .. Len(waves) + 1, n # m
               PROVE  waves'[n] \cap waves'[m] = {}
    BY <1>6
  <2>1. CASE n \in 1 .. Len(waves) /\ m \in 1 .. Len(waves)
    BY <1>6, <2>1 DEF PInv, WaveInv
  <2>2. CASE n = Len(waves) + 1 /\ m \in 1 .. Len(waves)
    BY <1>6, <1>10, <2>2
  <2>3. CASE n \in 1 .. Len(waves) /\ m = Len(waves) + 1
    BY <1>6, <1>10, <2>3
  <2> QED
    BY <1>6, <2>1, <2>2, <2>3
<1>13. \A i \in ids : degree'[i] = IF i \in Dealt' THEN -1
                                   ELSE Cardinality(deps[i] \ Dealt')
  <2> SUFFICES ASSUME NEW i \in ids
               PROVE  degree'[i] = IF i \in Dealt' THEN -1
                                   ELSE Cardinality(deps[i] \ Dealt')
    OBVIOUS
  <2>1. i \in Ids /\ deps[i] \in SUBSET ids
    BY DEF PInv, TypeOK
  <2>2. degree'[i] = IF i \in Wave THEN -1 ELSE degree[i] - Cardinality(deps[i] \cap Wave)
    BY <1>1, <2>1 DEF Resolved
  <2>3. CASE i \in Wave
    BY <1>8, <2>2, <2>3
  <2>4. CASE i \in Dealt
    <3>1. i \notin Wave /\ deps[i] \cap Wave = {}
      BY <1>10, <2>4, DealtClosed
    <3>2. degree[i] = -1
      BY <1>1, <2>4, Degrees
    <3>3. Cardinality({}) = 0
      BY FS_EmptySet
    <3> QED
      BY <1>8, <2>2, <2>4, <3>1, <3>2, <3>3
  <2>5. CASE i \notin Wave /\ i \notin Dealt
    <3> DEFINE left == deps[i] \ Dealt
    <3>1. left \in SUBSET ids /\ left \cap Wave = deps[i] \cap Wave
          /\ left \ Wave = deps[i] \ Dealt'
      BY <1>8, <1>10, <2>1
    <3>2. Cardinality(left \ Wave) = Cardinality(left) - Cardinality(left \cap Wave)
      <4>1. IsFiniteSet(left)
        BY <3>1, IdsFinite DEF PInv
      <4> HIDE DEF left
      <4> QED
        BY <4>1, FS_Difference
    <3>3. degree[i] = Cardinality(left)
      BY <1>1, <2>5 DEF PInv, WaveInv
    <3> QED
      BY <1>8, <2>2, <2>5, <3>1, <3>2, <3>3
  <2> QED
    BY <2>3, <2>4, <2>5
<1>14. WaveInv'
  BY <1>1, <1>11, <1>12, <1>13 DEF WaveInv
<1> QED
  BY <1>2, <1>3, <1>4, <1>5, <1>14 DEF PInv

\* The plan is ready when nothing remains.
LEMMA ReadyKeeps ==
    ASSUME PInv, Ready
    PROVE  PInv'
<1>1. /\ pc = "waves" /\ pc' = "plan_ready" /\ Remaining = {}
      /\ UNCHANGED <<cause, ids, write, deps, reach, todo, degree, waves>>
  BY DEF Ready, Goto, plan, closure, order
<1>2. TypeOK'
  BY CheckTypes DEF PInv
<1>3. ids \subseteq Dealt
  BY <1>1, Degrees DEF Remaining
<1>4. EarlyInv' /\ ReachInv'
  BY <1>1, PlanKept DEF PInv, EarlyInv
<1>5. CheckedInv'
  BY <1>1, PlanKept DEF PInv, CheckedInv
<1>6. WaveInv'
  <2>1. \A i \in ids : degree[i] = IF i \in Dealt THEN -1 ELSE Cardinality(deps[i] \ Dealt)
    BY <1>1 DEF PInv, WaveInv
  <2> QED
    BY <1>1, <1>3, <2>1, PlanKept DEF WaveInv
<1> QED
  BY <1>2, <1>4, <1>5, <1>6 DEF PInv
-----------------------------------------------------------------------------
(* The invariant.                                                          *)

\* A specification begins with no plan at all.
LEMMA PInvInit ==
    Init => PInv
<1> SUFFICES ASSUME Init
             PROVE  PInv
  OBVIOUS
<1>1. TypeOK
  <2>1. Cardinality({}) = 0
    BY FS_EmptySet
  <2> QED
    BY <2>1, StepLimitType DEF Init, TypeOK
<1>2. EarlyInv /\ CheckedInv
  BY DEF Init, EarlyInv, CheckedInv
<1>3. ReachInv /\ WaveInv
  BY DEF Init, ReachInv, WaveInv
<1> QED
  BY <1>1, <1>2, <1>3 DEF PInv

\* The invariant holds always.
LEMMA PInvCorrect ==
    Spec => []PInv
<1>1. PInv /\ [Next]_vars => PInv'
  <2> SUFFICES ASSUME PInv, [Next]_vars
               PROVE  PInv'
    OBVIOUS
  <2>1. CASE UNCHANGED vars
    <3>1. UNCHANGED <<job, pc, ids, write, deps, reach, todo, degree, waves, cause>>
      BY <2>1 DEF vars
    <3>2. TypeOK' /\ EarlyInv' /\ CheckedInv'
      BY <3>1 DEF PInv, TypeOK, EarlyInv, CheckedInv, Cycle, Outside, Overlap
    <3>3. ReachInv' /\ Dealt' = Dealt /\ (\A n \in 1 .. Len(waves) + 1 : Before(n)' = Before(n))
      <4>1. ReachInv' /\ Dealt' = Dealt
        BY <3>1, PlanKept
      <4>2. \A n \in 1 .. Len(waves) + 1 : Before(n)' = Before(n)
        BY <3>1 DEF Before
      <4> QED
        BY <4>1, <4>2
    <3>4. WaveInv'
      BY <3>1, <3>3, PlanKept DEF PInv, WaveInv
    <3> QED
      BY <3>2, <3>3, <3>4 DEF PInv
  <2>2. CASE Next
    BY <2>2, ReadingKeeps, ReadStepKeeps, ReadDependenciesKeeps, CloseKeeps, ChecksKeep,
       CheckOverlapsKeeps, NextWaveKeeps, ReadyKeeps DEF Next
  <2> QED
    BY <2>1, <2>2
<1> QED
  BY <1>1, PInvInit, PTL DEF Spec
-----------------------------------------------------------------------------
(* Scopes below one workspace.                                             *)

\* In one workspace it makes no difference whether paths are compared relative to
\* it or absolute.
LEMMA UnderSameRoot ==
    ASSUME NEW w \in Path, NEW p \in Path, NEW q \in Path
    PROVE  IsUnder(ToLower(w \o p), ToLower(w \o q)) <=> IsUnder(ToLower(p), ToLower(q))
<1>1. /\ w \in Seq(Names) /\ p \in Seq(Names) /\ q \in Seq(Names)
      /\ Len(w) \in Nat /\ Len(p) \in Nat /\ Len(q) \in Nat
  BY DEF Path
<1>2. /\ Len(w \o p) = Len(w) + Len(p) /\ Len(w \o q) = Len(w) + Len(q)
      /\ \A i \in 1 .. Len(w) : (w \o p)[i] = w[i] /\ (w \o q)[i] = w[i]
      /\ \A i \in 1 .. Len(p) : (w \o p)[Len(w) + i] = p[i]
      /\ \A i \in 1 .. Len(q) : (w \o q)[Len(w) + i] = q[i]
  BY <1>1
<1>3. \A x \in Seq(Names) : /\ Len(ToLower(x)) = Len(x)
                            /\ \A i \in 1 .. Len(x) : ToLower(x)[i] = Lower[x[i]]
  BY DEF ToLower
<1>4. w \o p \in Seq(Names) /\ w \o q \in Seq(Names)
  BY <1>1
<1>5. IsUnder(ToLower(p), ToLower(q)) <=>
         Len(q) =< Len(p) /\ \A i \in 1 .. Len(q) : Lower[p[i]] = Lower[q[i]]
  BY <1>1, <1>3 DEF IsUnder
<1>6. IsUnder(ToLower(w \o p), ToLower(w \o q)) <=>
         /\ Len(q) =< Len(p)
         /\ \A i \in 1 .. Len(w) + Len(q) : Lower[(w \o p)[i]] = Lower[(w \o q)[i]]
  <2> DEFINE wp == w \o p
             wq == w \o q
  <2>1. /\ Len(ToLower(wp)) = Len(w) + Len(p) /\ Len(ToLower(wq)) = Len(w) + Len(q)
        /\ \A i \in 1 .. Len(w) + Len(p) : ToLower(wp)[i] = Lower[wp[i]]
        /\ \A i \in 1 .. Len(w) + Len(q) : ToLower(wq)[i] = Lower[wq[i]]
    BY <1>2, <1>3, <1>4
  <2>2. IsUnder(ToLower(wp), ToLower(wq)) <=>
           /\ Len(ToLower(wq)) =< Len(ToLower(wp))
           /\ \A i \in 1 .. Len(ToLower(wq)) : ToLower(wp)[i] = ToLower(wq)[i]
    BY DEF IsUnder
  <2> HIDE DEF wp, wq
  <2>3. Len(ToLower(wq)) =< Len(ToLower(wp)) <=> Len(q) =< Len(p)
    BY <1>1, <2>1
  <2>4. ASSUME Len(q) =< Len(p), NEW i \in 1 .. Len(w) + Len(q)
        PROVE  ToLower(wp)[i] = Lower[wp[i]] /\ ToLower(wq)[i] = Lower[wq[i]]
    <3>1. i \in 1 .. Len(w) + Len(p)
      BY <1>1, <2>4
    <3> QED
      BY <2>1, <3>1
  <2>5. IsUnder(ToLower(wp), ToLower(wq)) <=>
           /\ Len(q) =< Len(p)
           /\ \A i \in 1 .. Len(w) + Len(q) : Lower[wp[i]] = Lower[wq[i]]
    BY <2>1, <2>2, <2>3, <2>4
  <2> QED
    BY <2>5 DEF wp, wq
<1>7. ASSUME Len(q) =< Len(p)
      PROVE  (\A i \in 1 .. Len(w) + Len(q) : Lower[(w \o p)[i]] = Lower[(w \o q)[i]]) <=>
             (\A i \in 1 .. Len(q) : Lower[p[i]] = Lower[q[i]])
  <2>1. ASSUME \A i \in 1 .. Len(w) + Len(q) : Lower[(w \o p)[i]] = Lower[(w \o q)[i]],
               NEW i \in 1 .. Len(q)
        PROVE  Lower[p[i]] = Lower[q[i]]
    <3>1. Len(w) + i \in 1 .. Len(w) + Len(q) /\ i \in 1 .. Len(p)
      BY <1>1, <1>7
    <3> QED
      BY <1>2, <2>1, <3>1
  <2>2. ASSUME \A i \in 1 .. Len(q) : Lower[p[i]] = Lower[q[i]],
               NEW i \in 1 .. Len(w) + Len(q)
        PROVE  Lower[(w \o p)[i]] = Lower[(w \o q)[i]]
    <3>1. CASE i \in 1 .. Len(w)
      BY <1>2, <3>1
    <3>2. CASE i \notin 1 .. Len(w)
      <4>1. PICK k \in 1 .. Len(q) : i = Len(w) + k
        <5>1. i - Len(w) \in 1 .. Len(q) /\ i = Len(w) + (i - Len(w))
          BY <1>1, <3>2
        <5> QED
          BY <5>1
      <4>2. k \in 1 .. Len(p)
        BY <1>1, <1>7
      <4> QED
        BY <1>2, <2>2, <4>1, <4>2
    <3> QED
      BY <3>1, <3>2
  <2> QED
    BY <2>1, <2>2
<1> QED
  BY <1>5, <1>6, <1>7

\* Lower-casing keeps every component in its place.
LEMMA LowerPath ==
    ASSUME NEW p \in Path
    PROVE  /\ Len(p) \in Nat /\ Len(ToLower(p)) = Len(p)
           /\ \A i \in 1 .. Len(p) : ToLower(p)[i] = Lower[p[i]]
BY DEF ToLower, Path

\* A relative path is a path.
LEMMA RelIsPath ==
    ASSUME NEW p \in RelPath
    PROVE  p \in Path /\ \A i \in 1 .. Len(p) : p[i] # "/"
<1>1. Len(p) \in Nat /\ \A i \in 1 .. Len(p) : p[i] \in Names \ {"/"}
  BY DEF RelPath
<1>2. p = [i \in 1 .. Len(p) |-> p[i]]
  BY DEF RelPath
<1>3. p \in [1 .. Len(p) -> Names]
  BY <1>1, <1>2
<1> QED
  BY <1>1, <1>3 DEF Path

\* Between relative paths owns is what it is meant to be.
LEMMA OwnsRelative ==
    ASSUME NEW S \in SUBSET RelPath, NEW p \in RelPath
    PROVE  owns(S, p) <=> \E s \in S : IsUnder(ToLower(p), ToLower(s))
<1>1. ASSUME NEW s \in S
      PROVE  ToLower(s) # Root
  <2>1. s \in Seq(Names) /\ \A i \in 1 .. Len(s) : s[i] # "/"
    BY RelIsPath DEF Path
  <2>2. SUFFICES ASSUME ToLower(s) = Root
                 PROVE  FALSE
    OBVIOUS
  <2>3. Len(s) = 1
    BY <2>1, <2>2, LowerPath DEF Path, Root
  <2>4. ToLower(s)[1] = Lower[s[1]] /\ s[1] \in Names /\ s[1] # "/"
    BY <2>1, <2>3, LowerPath DEF Path
  <2>5. Lower[s[1]] = "/"
    BY <2>2, <2>4 DEF Root
  <2> QED
    BY <2>4, <2>5, LowerAssumption
<1>2. Len(ToLower(p)) \in Nat
  BY RelIsPath, LowerPath
<1>3. IsUnder(ToLower(p), ToLower(p))
  BY <1>2 DEF IsUnder
<1> QED
  BY <1>1, <1>3 DEF owns

\* So the plan's own comparison finds the steps that share a file, even in a
\* workspace that is the root of the file system,
LEMMA ConflictsShare ==
    ASSUME TypeOK, NEW i \in ids, NEW j \in ids
    PROVE  SharedFile(TaskOf(i), TaskOf(j)) <=> conflicts(write[i], write[j])
<1>1. /\ Workspace \in Path
      /\ write[i] \in SUBSET RelPath /\ write[j] \in SUBSET RelPath
  BY PlansAssumption DEF TypeOK, AbsPath
<1>2. /\ AbsScopes(TaskOf(i)) = {Workspace \o p : p \in write[i]}
      /\ AbsScopes(TaskOf(j)) = {Workspace \o p : p \in write[j]}
  BY DEF AbsScopes, TaskOf
<1>3. \A p, q \in RelPath : Overlapping(Workspace \o p, Workspace \o q) <=>
                            Overlapping(p, q)
  BY <1>1, UnderSameRoot, RelIsPath DEF Overlapping
<1>4. SharedFile(TaskOf(i), TaskOf(j)) <=> \E p \in write[i], q \in write[j] : Overlapping(p, q)
  <2>1. SharedFile(TaskOf(i), TaskOf(j)) <=>
           \E p \in write[i], q \in write[j] : Overlapping(Workspace \o p, Workspace \o q)
    BY <1>2, Zenon DEF SharedFile
  <2>2. ASSUME NEW p \in write[i], NEW q \in write[j]
        PROVE  Overlapping(Workspace \o p, Workspace \o q) <=> Overlapping(p, q)
    BY <1>1, <1>3
  <2> QED
    BY <2>1, <2>2
<1>5. conflicts(write[i], write[j]) <=> \E p \in write[i], q \in write[j] : Overlapping(p, q)
  BY <1>1, OwnsRelative DEF conflicts, Overlapping
<1> QED
  BY <1>4, <1>5

\* and that of Spawn finds no others.
LEMMA ConflictShares ==
    ASSUME TypeOK, NEW i \in ids, NEW j \in ids, taskConflicts(TaskOf(i), TaskOf(j))
    PROVE  SharedFile(TaskOf(i), TaskOf(j))
<1>1. PICK p \in AbsScopes(TaskOf(i)), q \in AbsScopes(TaskOf(j)) :
          \/ ToLower(p) = ToLower(q)
          \/ IsUnder(ToLower(p), ToLower(q)) \/ IsUnder(ToLower(q), ToLower(p))
  BY DEF taskConflicts, conflicts, owns
<1>2. PICK s \in write[i] : p = Workspace \o s
  BY DEF AbsScopes, TaskOf
<1>3. Workspace \in Path /\ s \in Path
  <2>1. s \in RelPath
    BY <1>2 DEF TypeOK
  <2> QED
    BY <2>1, RelIsPath, PlansAssumption DEF AbsPath
<1>4. p \in Path
  BY <1>2, <1>3 DEF Path
<1>5. IsUnder(ToLower(p), ToLower(p))
  BY <1>4, LowerPath DEF IsUnder
<1> QED
  BY <1>1, <1>5 DEF SharedFile, Overlapping
-----------------------------------------------------------------------------
(* Theorems.                                                               *)

\* The steps of a plan keep within the limit, and every table of the validation is
\* about them alone.
THEOREM PlanTypeCorrect ==
    Spec => []TypeOK
<1>1. PInv => TypeOK
  BY DEF PInv
<1> QED
  BY <1>1, PInvCorrect, PTL

\* Whatever the order of the loops over the map, and however long the chains, the
\* closure is what the dependencies mean.
THEOREM ClosureCorrect ==
    Spec => []ClosureExact
<1>1. PInv => ClosureExact
  <2> SUFFICES ASSUME PInv, pc \in {"tasks", "overlaps", "waves", "plan_ready"},
                      NEW i \in ids, NEW j \in ids
               PROVE  j \in reach[i] <=> Needs(i, j)
    BY DEF ClosureExact
  <2>1. todo = {}
    BY DEF PInv, CheckedInv
  <2> QED
    BY <2>1, ReachIsNeeds
<1> QED
  BY <1>1, PInvCorrect, PTL

\* What a step of the n-th wave needs is in the waves before.
LEMMA NeedsBefore ==
    ASSUME PInv, NEW n \in 1 .. Len(waves), NEW i \in waves[n], NEW j \in ids, Needs(i, j)
    PROVE  \E m \in 1 .. n - 1 : j \in waves[m]
<1> DEFINE S == Before(n)
<1>1. \A m \in 1 .. n - 1 : m \in 1 .. Len(waves) /\ \A l \in 1 .. m - 1 : l \in 1 .. n - 1
  BY InDealt
<1>2. \A m \in 1 .. Len(waves) : waves[m] \in SUBSET ids
  BY DEF PInv, TypeOK
<1>3. S \in SUBSET ids
  BY <1>1, <1>2 DEF Before
<1>4. deps[i] \subseteq S
  BY DEF PInv, WaveInv
<1>5. \A x \in S : deps[x] \subseteq S
  <2> SUFFICES ASSUME NEW x \in S
               PROVE  deps[x] \subseteq S
    OBVIOUS
  <2>1. PICK m \in 1 .. n - 1 : x \in waves[m]
    BY DEF Before
  <2>2. deps[x] \subseteq Before(m)
    BY <1>1, <2>1 DEF PInv, WaveInv
  <2> QED
    BY <1>1, <2>2 DEF Before
<1>6. j \in S
  BY <1>3, <1>4, <1>5 DEF Needs
<1> QED
  BY <1>6 DEF Before

\* The waves are a partition of the plan that puts everything behind what it needs.
THEOREM WavesInOrderCorrect ==
    Spec => []WavesInOrder
<1>1. PInv => WavesInOrder
  <2> SUFFICES ASSUME PInv, pc = "plan_ready", NEW i \in ids
               PROVE  \E n \in 1 .. Len(waves) :
                         /\ \A m \in 1 .. Len(waves) : i \in waves[m] <=> m = n
                         /\ \A j \in ids : Needs(i, j) => \E m \in 1 .. n - 1 : j \in waves[m]
    BY DEF WavesInOrder
  <2>1. i \in Dealt
    BY DEF PInv, WaveInv
  <2>2. PICK n \in 1 .. Len(waves) : i \in waves[n]
    BY <2>1, InDealt
  <2>3. \A m \in 1 .. Len(waves) : i \in waves[m] <=> m = n
    BY <2>2 DEF PInv, WaveInv
  <2>4. \A j \in ids : Needs(i, j) => \E m \in 1 .. n - 1 : j \in waves[m]
    BY <2>2, NeedsBefore
  <2> QED
    BY <2>3, <2>4
<1> QED
  BY <1>1, PInvCorrect, PTL

\* Two steps of a wave need neither the other; their scopes were compared, so they
\* share no file, and Spawn, which compares absolute paths, finds no conflict.
THEOREM DispatchCorrect ==
    Spec => []WavesDispatchable
<1>1. PInv => WavesDispatchable
  <2> SUFFICES ASSUME PInv, pc = "plan_ready"
               PROVE  /\ \A n \in 1 .. Len(waves) : \A i, j \in waves[n] :
                            i # j => /\ ~taskConflicts(TaskOf(i), TaskOf(j))
                                     /\ ~SharedFile(TaskOf(i), TaskOf(j))
                      /\ \A i \in ids : \A p \in write[i] :
                            \E s \in Authorized : IsUnder(ToLower(Workspace \o p),
                                                          ToLower(Workspace \o s))
    BY DEF WavesDispatchable
  <2>1. ASSUME NEW n \in 1 .. Len(waves), NEW i \in waves[n], NEW j \in waves[n], i # j
        PROVE  ~taskConflicts(TaskOf(i), TaskOf(j)) /\ ~SharedFile(TaskOf(i), TaskOf(j))
    <3>1. waves[n] \in SUBSET ids
      BY DEF PInv, TypeOK
    <3>2. i \in ids /\ j \in ids
      BY <3>1
    <3>3. ASSUME NEW a \in waves[n], NEW b \in waves[n]
          PROVE  b \notin reach[a]
      <4> SUFFICES ASSUME b \in reach[a]
                   PROVE  FALSE
        OBVIOUS
      <4>1. a \in ids /\ b \in ids /\ Needs(a, b)
        BY <3>1, <3>3 DEF PInv, ReachInv
      <4>2. PICK m \in 1 .. n - 1 : b \in waves[m]
        BY <4>1, NeedsBefore
      <4>3. m \in 1 .. Len(waves) /\ m # n
        BY InDealt
      <4> QED
        BY <4>2, <4>3 DEF PInv, WaveInv
    <3>4. ~conflicts(write[i], write[j])
      BY <2>1, <3>2, <3>3 DEF PInv, CheckedInv, Overlap
    <3> QED
      BY <3>2, <3>4, ConflictsShare, ConflictShares DEF PInv
  <2>2. ASSUME NEW i \in ids, NEW p \in write[i]
        PROVE  \E s \in Authorized : IsUnder(ToLower(Workspace \o p), ToLower(Workspace \o s))
    <3>1. p \in RelPath /\ Workspace \in Path /\ Authorized \in SUBSET RelPath
      BY PlansAssumption DEF PInv, TypeOK, AbsPath
    <3>2. owns(Authorized, p)
      BY DEF PInv, CheckedInv, Outside
    <3>3. PICK s \in Authorized : IsUnder(ToLower(p), ToLower(s))
      BY <3>1, <3>2, OwnsRelative
    <3>4. p \in Path /\ s \in Path
      BY <3>1, RelIsPath
    <3> QED
      BY <3>1, <3>3, <3>4, UnderSameRoot
  <2> QED
    BY <2>1, <2>2
<1> QED
  BY <1>1, PInvCorrect, PTL

\* Among the steps that remain there is one that reaches least; if it had a
\* dependency among them, that would reach less.
LEMMA NeverStuck ==
    ASSUME PInv, pc = "waves", Remaining # {}
    PROVE  Wave # {}
<1> DEFINE R == {reach[i] : i \in Remaining}
           Less == StrictSubsetOrdering(ids)
<1>1. Remaining \subseteq ids /\ \A i \in ids : reach[i] \in SUBSET ids
  BY DEF Remaining, PInv, TypeOK
<1>2. R \subseteq FiniteSubsetsOf(ids) /\ R # {}
  BY <1>1, IdsFinite DEF FiniteSubsetsOf, PInv
<1>3. IsWellFoundedOn(Less, FiniteSubsetsOf(ids))
  BY FS_StrictSubsetOrderingWellFounded
<1>4. PICK least \in R : \A x \in R : <<x, least>> \notin Less
  <2> HIDE DEF R, Less
  <2> QED
    BY <1>2, <1>3, WFMin
<1>5. PICK i \in Remaining : least = reach[i]
  OBVIOUS
<1>6. SUFFICES ASSUME i \notin Wave
               PROVE  FALSE
  OBVIOUS
<1>7. i \in ids /\ i \notin Dealt /\ ~(deps[i] \subseteq Dealt)
  BY <1>1, <1>5, <1>6, Degrees DEF Wave, Remaining
<1>8. PICK d \in deps[i] : d \notin Dealt
  BY <1>7
<1>9. d \in ids /\ d \in reach[i] /\ d \in Remaining
  <2>1. d \in ids /\ d \in reach[i]
    BY <1>7, <1>8 DEF PInv, TypeOK, ReachInv
  <2> QED
    BY <1>8, <2>1, Degrees DEF Remaining
<1>10. reach[d] \subseteq reach[i] /\ d \notin reach[d]
  BY <1>7, <1>9 DEF PInv, ReachInv, CheckedInv
<1>11. <<reach[d], reach[i]>> \in Less
  BY <1>1, <1>7, <1>9, <1>10 DEF StrictSubsetOrdering
<1> QED
  BY <1>4, <1>5, <1>9, <1>11

\* A cycle is a step that needs itself, an overlap a file that is shared, and
\* the error of a plan without a next wave is never reported.
THEOREM RefusalCorrect ==
    Spec => []RefusedForCause
<1>1. PInv => RefusedForCause
  <2> SUFFICES ASSUME PInv
               PROVE  RefusedForCause
    OBVIOUS
  <2>1. cause = "cycle" => \E i \in ids : Needs(i, i)
    BY DEF PInv, CheckedInv, Cycle, ReachInv
  <2>2. ASSUME cause = "overlap"
        PROVE  \E i, j \in ids : /\ i # j /\ ~Needs(i, j) /\ ~Needs(j, i)
                                 /\ SharedFile(TaskOf(i), TaskOf(j))
    <3>1. todo = {}
      BY <2>2 DEF PInv, CheckedInv
    <3>2. PICK i \in ids, j \in ids : Overlap(i, j)
      BY <2>2 DEF PInv, CheckedInv
    <3>3. i # j /\ ~Needs(i, j) /\ ~Needs(j, i)
      BY <3>1, <3>2, ReachIsNeeds DEF Overlap
    <3>4. SharedFile(TaskOf(i), TaskOf(j))
      BY <3>2, ConflictsShare DEF Overlap, PInv
    <3> QED
      BY <3>3, <3>4
  <2>3. ~Deadlocked
    BY NeverStuck DEF Deadlocked
  <2> QED
    BY <2>1, <2>2, <2>3 DEF RefusedForCause
<1> QED
  BY <1>1, PInvCorrect, PTL
=============================================================================
