------------------------- MODULE Jobs_outcome_proof -------------------------
(***************************************************************************)
(* More theorems about Jobs: what is left of a run when it is over.  Its   *)
(* outcome is final and, if it was a success, on disk; planners and phases *)
(* run once, although the files they are judged by after a restart may be  *)
(* those of any earlier moment.                                            *)
(***************************************************************************)
EXTENDS Jobs_proof

\* A planner is known as one by PlanSpec, in memory and on disk, unless it never
\* got as far as being marked: then it is interrupted, or will be when it is
\* loaded, and an interrupted job is never continued.
PlannerMarked ==
    \A j \in Jobs : Task[j].kind = "plan" =>
        /\ plan[j] \/ status[j] \in {"none", "interrupted"}
        /\ diskPlan[j] \/ diskStatus[j] \in {"none", "queued", "interrupted"}
        /\ \A w \in Alive : w[1] = j => plan[j]

\* A job that was ever started has a file, so its identifier is not used again.
StartedOnDisk == \A j \in Jobs : run[j] > 0 => diskStatus[j] # "none"

\* Success that is not on disk is about to become a failure.
CompletedOnDisk ==
    \A j \in Jobs :
        status[j] = "completed" =>
            diskStatus[j] = "completed" \/ pc[Cur(j)] = "failing"

DiskInv == PlannerMarked /\ StartedOnDisk /\ CompletedOnDisk /\ RunOnce
-----------------------------------------------------------------------------
(* What a step may do to a status and to a file.                           *)

\* A step of a goroutine touches the status and the file of its own job only,
\* and what it writes there is the status it sets.
LEMMA StepSaves ==
    ASSUME TypeOK, WorkerInv, NEW w \in Workers, Step(w)
    PROVE  /\ UNCHANGED <<run, plan, up>>
           /\ pc[w] # "none" /\ status'[w[1]] # "none"
           /\ \A v \in Workers : v # w => pc'[v] = pc[v]
           /\ \A k \in Jobs : k # w[1] => status'[k] = status[k]
           /\ NotSaved \/ Saved(w[1], status'[w[1]], plan[w[1]])
           /\ status'[w[1]] = "completed" =>
                 \/ diskStatus'[w[1]] = "completed" \/ pc'[w] = "failing"
                 \/ NotSaved /\ status[w[1]] = "completed" /\ pc[w] # "failing"
<1> DEFINE j == w[1]
<1>0. j \in Jobs /\ status[j] \in Status /\ pc[w] \in PC
  BY WorkerParts DEF TypeOK
<1>1. pc[w] # "none"
  BY DEF Step, AcquireSlot, CancelledInQueue, Begin, Ask, Answered, BeginCall, EndCall,
         NextTurn, Complete, GiveUp, FailUnsaved, ReleaseSlot, Index, CloseDone, EditFile
<1>2. status[j] # "none"
  BY <1>1, AliveHasStatus
<1>3. UNCHANGED <<run, plan, up>>
  BY DEF Step, AcquireSlot, CancelledInQueue, Begin, Ask, Answered, BeginCall, EndCall,
         NextTurn, Complete, GiveUp, FailUnsaved, ReleaseSlot, Index, CloseDone, EditFile,
         Silent
<1>4. \E l : pc' = [pc EXCEPT ![w] = l]
  BY DEF Step, AcquireSlot, CancelledInQueue, Begin, Ask, Answered, BeginCall, EndCall,
         NextTurn, Complete, GiveUp, FailUnsaved, ReleaseSlot, Index, CloseDone, EditFile,
         Goto
<1>5. \A v \in Workers : v # w => pc'[v] = pc[v]
  BY <1>4 DEF TypeOK
<1> DEFINE Goal == /\ status'[j] # "none"
                   /\ \A k \in Jobs : k # j => status'[k] = status[k]
                   /\ NotSaved \/ Saved(j, status'[j], plan[j])
                   /\ status'[j] = "completed" =>
                         \/ diskStatus'[j] = "completed" \/ pc'[w] = "failing"
                         \/ NotSaved /\ status[j] = "completed" /\ pc[w] # "failing"
<1>s. SUFFICES Goal
  BY <1>1, <1>3, <1>5
<1>6. CASE \/ AcquireSlot(w) \/ Ask(w) \/ Answered(w) \/ BeginCall(w) \/ EndCall(w)
           \/ NextTurn(w) \/ ReleaseSlot(w) \/ Index(w) \/ CloseDone(w)
           \/ (\E x \in Files : EditFile(w, x))
  <2>1. UNCHANGED status /\ pc[w] # "failing"
    BY <1>6 DEF AcquireSlot, Ask, Answered, BeginCall, EndCall, NextTurn, ReleaseSlot,
                Index, CloseDone, EditFile
  <2>2. NotSaved \/ Saved(j, status[j], plan[j])
    BY <1>6 DEF AcquireSlot, Ask, Answered, BeginCall, EndCall, NextTurn, ReleaseSlot,
                Index, CloseDone, EditFile, SaveOrNot
  <2>3. Saved(j, status[j], plan[j]) => diskStatus'[j] = status[j]
    BY <1>0 DEF Saved, TypeOK
  <2> QED
    BY <1>2, <2>1, <2>2, <2>3
<1>7. ASSUME NEW s \in FailStatus, Fail(w, s)
      PROVE  Goal
  <2>1. \A k \in Jobs : status'[k] = IF k = j THEN s ELSE status[k]
    BY <1>7, <1>0 DEF Fail, TypeOK
  <2>2. s # "none" /\ s # "completed"
    BY DEF FailStatus
  <2> QED
    BY <1>0, <1>7, <2>1, <2>2 DEF Fail, SaveOrNot
<1>8. CASE CancelledInQueue(w) \/ FailUnsaved(w) \/ (\E s \in FailStatus : GiveUp(w, s))
  BY <1>7, <1>8 DEF CancelledInQueue, FailUnsaved, GiveUp, FailStatus
<1>9. CASE Begin(w)
  <2>1. \A k \in Jobs : status'[k] = IF k = j THEN "running" ELSE status[k]
    BY <1>9, <1>0 DEF Begin, TypeOK
  <2> QED
    BY <1>0, <1>9, <2>1 DEF Begin
<1>10. CASE Complete(w)
  <2>1. \A k \in Jobs : status'[k] = IF k = j THEN "completed" ELSE status[k]
    BY <1>10, <1>0 DEF Complete, TypeOK
  <2>2. \/ Saved(j, "completed", plan[j]) /\ diskStatus'[j] = "completed"
        \/ NotSaved /\ pc'[w] = "failing"
    BY <1>10, <1>0 DEF Complete, Goto, Saved, TypeOK
  <2> QED
    BY <1>0, <2>1, <2>2
<1> QED
  BY <1>6, <1>8, <1>9, <1>10 DEF Step
-----------------------------------------------------------------------------
(* The strengthenings, one after the other.                                *)

\* They hold at first.
LEMMA InitDisk == Init => DiskInv
BY DEF Init, DiskInv, PlannerMarked, StartedOnDisk, CompletedOnDisk, RunOnce, Alive

\* Where the planners are marked.
LEMMA NextMarked ==
    ASSUME TypeOK, WorkerInv, PlannerMarked, [Next]_vars
    PROVE  PlannerMarked'
<1> SUFFICES ASSUME NEW j \in Jobs, Task[j].kind = "plan"
             PROVE  /\ plan'[j] \/ status'[j] \in {"none", "interrupted"}
                    /\ \/ diskPlan'[j]
                       \/ diskStatus'[j] \in {"none", "queued", "interrupted"}
                    /\ \A w \in Workers : pc'[w] # "none" /\ w[1] = j => plan'[j]
  BY DEF PlannerMarked, Alive
<1> DEFINE Goal == /\ plan'[j] \/ status'[j] \in {"none", "interrupted"}
                   /\ \/ diskPlan'[j]
                      \/ diskStatus'[j] \in {"none", "queued", "interrupted"}
                   /\ \A w \in Workers : pc'[w] # "none" /\ w[1] = j => plan'[j]
<1>0. /\ plan[j] \/ status[j] \in {"none", "interrupted"}
      /\ diskPlan[j] \/ diskStatus[j] \in {"none", "queued", "interrupted"}
      /\ \A w \in Workers : pc[w] # "none" /\ w[1] = j => plan[j]
  BY DEF PlannerMarked, Alive
<1>t. /\ plan[j] \in BOOLEAN /\ diskPlan[j] \in BOOLEAN
      /\ status[j] \in Status /\ diskStatus[j] \in Status
  BY DEF TypeOK
<1>u. ASSUME UNCHANGED <<status, plan, pc, diskStatus, diskPlan>>
      PROVE  Goal
  BY <1>u, <1>0
<1>m. ASSUME MemoryLost, diskPlan' = diskPlan,
             diskStatus'[j] \in {diskStatus[j], "queued"}
      PROVE  Goal
  BY <1>m, <1>0 DEF MemoryLost
<1>1. CASE New
  <2>1. \A w \in Workers : pc'[w] = "none"
    BY <1>1, AliveHasStatus DEF New
  <2>2. status'[j] = (IF active(diskStatus[j]) THEN "interrupted" ELSE diskStatus[j])
    BY <1>1 DEF New
  <2> QED
    BY <1>0, <1>1, <2>1, <2>2 DEF New, active
<1>2. CASE Stop \/ (\E w \in Workers : Timeout(w)) \/ (\E k \in Jobs : Cancel(k))
           \/ UNCHANGED vars
  BY <1>2, <1>u DEF Stop, Timeout, Cancel, vars
<1>3. CASE CloseManager \/ Crash
  BY <1>3, <1>m DEF CloseManager, Crash, NotSaved
<1>4. ASSUME NEW B \in SUBSET Jobs, Spawn(B)
      PROVE  Goal
  <2>1. j \notin B
    BY <1>4 DEF Spawn
  <2>2. \A w \in Workers : w[1] = j => pc'[w] = pc[w]
    BY <1>4, <2>1 DEF Spawn, Enter, Start
  <2> QED
    BY <1>0, <1>4, <2>1, <2>2 DEF Spawn, Enter
<1>5. ASSUME NEW B \in SUBSET Jobs, NEW S \in SUBSET B, SpawnCrash(B, S)
      PROVE  Goal
  BY <1>5, <1>m DEF SpawnCrash
<1>6. ASSUME NEW B \in SUBSET Jobs, NEW S \in SUBSET B, SpawnOrphans(B, S)
      PROVE  Goal
  BY <1>0, <1>6 DEF SpawnOrphans
<1>7. ASSUME NEW k \in Jobs, StartPlan(k)
      PROVE  Goal
  <2>1. CASE k = j
    <3>1. plan'[j] /\ diskStatus'[j] = "queued"
      BY <1>7, <2>1 DEF StartPlan, TypeOK
    <3> QED
      BY <3>1
  <2>2. CASE k # j
    <3>1. /\ plan'[j] = plan[j] /\ diskStatus'[j] = diskStatus[j]
          /\ diskPlan'[j] = diskPlan[j] /\ status'[j] = status[j]
      BY <1>7, <2>2 DEF StartPlan, Enter, TypeOK
    <3>2. \A w \in Workers : w[1] = j => pc'[w] = pc[w]
      BY <1>7, <2>2 DEF StartPlan, Enter, Start
    <3> QED
      BY <1>0, <3>1, <3>2
  <2> QED
    BY <2>1, <2>2
<1>8. ASSUME NEW k \in Jobs, Continue(k)
      PROVE  Goal
  <2>1. k # j
    BY <1>0, <1>8 DEF Continue, MayContinue
  <2>2. /\ plan'[j] = plan[j] /\ diskStatus'[j] = diskStatus[j]
        /\ diskPlan'[j] = diskPlan[j] /\ status'[j] = status[j]
    BY <1>8, <2>1 DEF Continue, Enter, Saved, TypeOK
  <2>3. \A w \in Workers : w[1] = j => pc'[w] = pc[w]
    BY <1>8, <2>1 DEF Continue, Enter, Start
  <2> QED
    BY <1>0, <2>2, <2>3
<1>9. ASSUME NEW k \in Jobs, Persist(k)
      PROVE  Goal
  <2>1. \/ diskStatus'[j] = diskStatus[j] /\ diskPlan'[j] = diskPlan[j]
        \/ diskStatus'[j] = status[j] /\ diskPlan'[j] = plan[j]
    BY <1>9, <1>t DEF Persist, Saved, TypeOK
  <2> QED
    BY <1>0, <1>9, <2>1 DEF Persist
<1>10. ASSUME NEW w \in Workers, Step(w)
       PROVE  Goal
  <2>1. w[1] \in Jobs
    BY WorkerParts
  <2>2. CASE w[1] = j
    <3>1. plan'[j]
      BY <1>0, <1>10, <2>2, StepSaves
    <3>2. \/ diskStatus'[j] = diskStatus[j] /\ diskPlan'[j] = diskPlan[j]
          \/ diskPlan'[j] = plan[j]
      BY <1>10, <1>t, <2>2, StepSaves DEF Saved, NotSaved, TypeOK
    <3> QED
      BY <1>0, <3>1, <3>2, <1>10, StepSaves
  <2>3. CASE w[1] # j
    <3>1. /\ diskStatus'[j] = diskStatus[j] /\ diskPlan'[j] = diskPlan[j]
          /\ status'[j] = status[j] /\ plan'[j] = plan[j]
      BY <1>10, <2>3, StepSaves DEF Saved, NotSaved, TypeOK
    <3>2. \A v \in Workers : v[1] = j => pc'[v] = pc[v]
      BY <1>10, <2>3, StepSaves
    <3> QED
      BY <1>0, <3>1, <3>2
  <2> QED
    BY <2>2, <2>3
<1> QED
  BY <1>1, <1>2, <1>3, <1>4, <1>5, <1>6, <1>7, <1>8, <1>9, <1>10 DEF Next, Operation

\* A job that was started has a file from then on.
LEMMA NextStarted ==
    ASSUME TypeOK, WorkerInv, StartedOnDisk, [Next]_vars
    PROVE  StartedOnDisk'
<1> SUFFICES ASSUME NEW j \in Jobs, run'[j] > 0
             PROVE  diskStatus'[j] # "none"
  BY DEF StartedOnDisk
<1>0. run[j] > 0 => diskStatus[j] # "none"
  BY DEF StartedOnDisk
<1>u. ASSUME run'[j] = run[j], diskStatus'[j] \in {diskStatus[j], "queued"}
      PROVE  diskStatus'[j] # "none"
  BY <1>u, <1>0
<1>1. CASE New \/ Stop \/ (\E k \in Jobs : Cancel(k)) \/ (\E w \in Workers : Timeout(w))
           \/ CloseManager \/ Crash \/ UNCHANGED vars
  BY <1>1, <1>u DEF New, Stop, Cancel, Timeout, CloseManager, Crash, MemoryLost,
                    NotSaved, vars
<1>2. ASSUME NEW B \in SUBSET Jobs,
             Spawn(B) \/ (\E S \in SUBSET B : SpawnCrash(B, S) \/ SpawnOrphans(B, S))
      PROVE  diskStatus'[j] # "none"
  <2>1. CASE Spawn(B)
    BY <2>1, <1>0 DEF Spawn, Enter, Start
  <2>2. ASSUME NEW S \in SUBSET B, SpawnCrash(B, S) \/ SpawnOrphans(B, S)
        PROVE  diskStatus'[j] # "none"
    BY <2>2, <1>0 DEF SpawnCrash, SpawnOrphans, MemoryLost
  <2> QED
    BY <1>2, <2>1, <2>2
<1>3. ASSUME NEW k \in Jobs, StartPlan(k) \/ Continue(k)
      PROVE  diskStatus'[j] # "none"
  <2>1. diskStatus' = [diskStatus EXCEPT ![k] = "queued"] /\ Start({k})
    BY <1>3 DEF StartPlan, Continue, Saved, Enter
  <2> QED
    BY <2>1, <1>0 DEF Start, TypeOK
<1>4. ASSUME NEW k \in Jobs, Persist(k)
      PROVE  diskStatus'[j] # "none"
  BY <1>4, <1>0 DEF Persist, Saved, TypeOK
<1>5. ASSUME NEW w \in Workers, Step(w)
      PROVE  diskStatus'[j] # "none"
  BY <1>5, <1>0, StepSaves DEF Saved, NotSaved, TypeOK
<1> QED
  BY <1>1, <1>2, <1>3, <1>4, <1>5 DEF Next, Operation

\* Success is on disk, or its goroutine has still to deal with a failed save.
LEMMA NextCompleted ==
    ASSUME TypeOK, WorkerInv, CompletedOnDisk, [Next]_vars
    PROVE  CompletedOnDisk'
<1> SUFFICES ASSUME NEW j \in Jobs, status'[j] = "completed"
             PROVE  diskStatus'[j] = "completed" \/ pc'[Cur(j)'] = "failing"
  BY DEF CompletedOnDisk
<1> DEFINE Goal == diskStatus'[j] = "completed" \/ pc'[Cur(j)'] = "failing"
<1>0. status[j] = "completed" => diskStatus[j] = "completed" \/ pc[Cur(j)] = "failing"
  BY DEF CompletedOnDisk
<1>c. Cur(j) \in Workers /\ Cur(j)[1] = j
  BY CurIsWorker
<1>u. ASSUME status'[j] = status[j], run'[j] = run[j], pc'[Cur(j)] = pc[Cur(j)],
             diskStatus'[j] = diskStatus[j] \/ diskStatus'[j] = status[j]
      PROVE  Goal
  BY <1>u, <1>0 DEF Cur
<1>1. CASE New
  BY <1>1 DEF New, active
<1>2. CASE Stop \/ (\E k \in Jobs : Cancel(k)) \/ (\E w \in Workers : Timeout(w))
           \/ UNCHANGED vars
  BY <1>2, <1>u DEF Stop, Cancel, Timeout, vars
<1>3. CASE CloseManager \/ Crash
           \/ (\E B \in SUBSET Jobs : \E S \in SUBSET B : SpawnCrash(B, S))
  BY <1>3 DEF CloseManager, Crash, SpawnCrash, MemoryLost
<1>4. ASSUME NEW B \in SUBSET Jobs, NEW S \in SUBSET B, SpawnOrphans(B, S)
      PROVE  Goal
  <2>1. j \notin B
    BY <1>4 DEF SpawnOrphans, Acceptable
  <2> QED
    BY <1>4, <1>u, <2>1 DEF SpawnOrphans
<1>5. ASSUME NEW B \in SUBSET Jobs, NEW st \in {"queued", "cancelled"}, Enter(B, st),
             diskStatus'[j] = diskStatus[j] \/ j \in B
      PROVE  Goal
  <2>1. j \notin B /\ status'[j] = status[j]
    BY <1>5 DEF Enter
  <2>2. run'[j] = run[j] /\ pc'[Cur(j)] = pc[Cur(j)]
    BY <1>5, <1>c, <2>1 DEF Enter, Start
  <2> QED
    BY <1>5, <1>u, <2>1, <2>2
<1>6. ASSUME NEW B \in SUBSET Jobs, Spawn(B)
      PROVE  Goal
  BY <1>5, <1>6 DEF Spawn
<1>7. ASSUME NEW k \in Jobs, StartPlan(k) \/ Continue(k)
      PROVE  Goal
  <2>1. diskStatus'[j] = diskStatus[j] \/ j \in {k}
    BY <1>7 DEF StartPlan, Continue, Saved, TypeOK
  <2> QED
    BY <1>5, <1>7, <2>1 DEF StartPlan, Continue
<1>8. ASSUME NEW k \in Jobs, Persist(k)
      PROVE  Goal
  <2>1. diskStatus'[j] = diskStatus[j] \/ diskStatus'[j] = status[j]
    BY <1>8 DEF Persist, Saved, TypeOK
  <2> QED
    BY <1>8, <1>u, <2>1 DEF Persist
<1>9. ASSUME NEW w \in Workers, Step(w)
      PROVE  Goal
  <2>0. run' = run /\ Cur(j)' = Cur(j)
    BY <1>9, StepSaves DEF Cur
  <2>1. CASE w[1] = j
    <3>1. w = Cur(j)
      BY <1>9, <2>1, StepSaves, AliveHasStatus
    <3>2. \/ diskStatus'[j] = "completed" \/ pc'[w] = "failing"
          \/ NotSaved /\ status[j] = "completed" /\ pc[w] # "failing"
      BY <1>9, <2>1, StepSaves
    <3> QED
      BY <1>0, <2>0, <3>1, <3>2 DEF NotSaved
  <2>2. CASE w[1] # j
    <3>1. pc'[Cur(j)] = pc[Cur(j)] /\ status'[j] = status[j]
      BY <1>9, <1>c, <2>2, StepSaves
    <3>2. diskStatus'[j] = diskStatus[j]
      BY <1>9, <2>2, StepSaves DEF Saved, NotSaved, TypeOK
    <3> QED
      BY <1>u, <2>0, <3>1, <3>2
  <2> QED
    BY <2>1, <2>2
<1> QED
  BY <1>1, <1>2, <1>3, <1>4, <1>6, <1>7, <1>8, <1>9 DEF Next, Operation

\* A planner or a phase is started only when there is no trace of it.
LEMMA NextOnce ==
    ASSUME TypeOK, WorkerInv, PlannerMarked, StartedOnDisk, RunOnce, [Next]_vars
    PROVE  RunOnce'
<1> SUFFICES ASSUME NEW j \in Jobs, Task[j].kind # "task"
             PROVE  run'[j] =< 1
  BY DEF RunOnce
<1>0. run[j] =< 1 /\ run[j] \in Nat
  BY DEF RunOnce, TypeOK
<1>1. ASSUME NEW B \in SUBSET Jobs, Acceptable(B), Start(B)
      PROVE  run'[j] =< 1
  <2>1. j \in B => run[j] = 0
    BY <1>0, <1>1 DEF Acceptable, StartedOnDisk
  <2> QED
    BY <1>0, <1>1, <2>1 DEF Start
<1>2. ASSUME NEW k \in Jobs, Continue(k)
      PROVE  run'[j] =< 1
  <2>1. Task[j].kind \in {"phase", "plan"}
    BY JobsAssumption DEF TaskType
  <2>2. k # j
    BY <1>2, <2>1 DEF Continue, MayContinue, PlannerMarked
  <2> QED
    BY <1>0, <1>2, <2>2 DEF Continue, Enter, Start
<1>3. CASE \/ (\E B \in SUBSET Jobs : Spawn(B)) \/ (\E k \in Jobs : StartPlan(k))
  BY <1>1, <1>3 DEF Spawn, StartPlan, Enter
<1>4. CASE New \/ Stop \/ (\E k \in Jobs : Cancel(k) \/ Persist(k))
           \/ (\E w \in Workers : Timeout(w)) \/ CloseManager \/ Crash
           \/ (\E B \in SUBSET Jobs : \E S \in SUBSET B :
                  SpawnCrash(B, S) \/ SpawnOrphans(B, S))
           \/ UNCHANGED vars
  BY <1>0, <1>4 DEF New, Stop, Cancel, Persist, Timeout, CloseManager, Crash,
                    MemoryLost, SpawnCrash, SpawnOrphans, vars
<1>5. CASE \E w \in Workers : Step(w)
  BY <1>0, <1>5, StepSaves
<1> QED
  BY <1>2, <1>3, <1>4, <1>5 DEF Next, Operation

\* The invariant of the job files.
LEMMA DiskCorrect == Spec => [](TypeOK /\ WorkerInv /\ DiskInv)
<1>1. TypeOK /\ WorkerInv /\ DiskInv /\ [Next]_vars => DiskInv'
  BY NextMarked, NextStarted, NextCompleted, NextOnce DEF DiskInv
<1> QED
  BY <1>1, InitDisk, WorkerCorrect, PTL DEF Spec
-----------------------------------------------------------------------------
(* The theorems.                                                           *)

\* A job reported completed is completed on disk: the result survives a crash.
THEOREM DurableCorrect == Spec => []DurableCompletion
<1>1. TypeOK /\ WorkerInv /\ DiskInv => DurableCompletion
  <2> SUFFICES ASSUME TypeOK, WorkerInv, DiskInv,
                      NEW j \in Jobs, status[j] = "completed", Cur(j) \in closed
               PROVE  diskStatus[j] = "completed"
    BY DEF DurableCompletion
  <2>1. pc[Cur(j)] = "none"
    BY CurIsWorker DEF WorkerInv, OneGoroutine, Alive
  <2> QED
    BY <2>1 DEF DiskInv, CompletedOnDisk
<1> QED
  BY <1>1, DiskCorrect, PTL

\* Planners and workflow phases are never run again, over any number of crashes,
\* failed saves and restarts.
THEOREM RunOnceCorrect == Spec => []RunOnce
BY DiskCorrect, PTL DEF DiskInv

\* Once done is closed nothing but a continuation of a completed job changes the
\* outcome while the process lives.
THEOREM OutcomeCorrect == Spec => OutcomeIsFinal
<1> DEFINE A == \A j \in Jobs : up /\ up' /\ Cur(j) \in closed =>
                  \/ status'[j] = status[j]
                  \/ status[j] = "completed" /\ status'[j] = "queued"
<1>1. TypeOK /\ WorkerInv /\ [Next]_vars => A
  <2> SUFFICES ASSUME TypeOK, WorkerInv, [Next]_vars,
                      NEW j \in Jobs, up, up', Cur(j) \in closed
               PROVE  \/ status'[j] = status[j]
                      \/ status[j] = "completed" /\ status'[j] = "queued"
    OBVIOUS
  <2>0. status[j] # "none" /\ pc[Cur(j)] = "none"
    BY CurIsWorker DEF WorkerInv, DoneMeansStopped, OneGoroutine, Alive, Terminal
  <2>1. CASE New \/ Stop \/ (\E k \in Jobs : Cancel(k) \/ Persist(k))
             \/ (\E w \in Workers : Timeout(w)) \/ CloseManager \/ Crash
             \/ (\E B \in SUBSET Jobs : \E S \in SUBSET B :
                    SpawnCrash(B, S) \/ SpawnOrphans(B, S))
             \/ UNCHANGED vars
    BY <2>1 DEF New, Stop, Cancel, Persist, Timeout, CloseManager, Crash, MemoryLost,
                SpawnCrash, SpawnOrphans, vars
  <2>2. ASSUME NEW B \in SUBSET Jobs, Spawn(B)
        PROVE  status'[j] = status[j]
    BY <2>0, <2>2 DEF Spawn, Acceptable, Enter
  <2>3. ASSUME NEW k \in Jobs, StartPlan(k)
        PROVE  status'[j] = status[j]
    BY <2>0, <2>3 DEF StartPlan, Acceptable, Enter
  <2>4. ASSUME NEW k \in Jobs, Continue(k)
        PROVE  \/ status'[j] = status[j]
               \/ status[j] = "completed" /\ status'[j] = "queued"
    BY <2>4 DEF Continue, MayContinue, Enter
  <2>5. ASSUME NEW w \in Workers, Step(w)
        PROVE  status'[j] = status[j]
    <3>1. w[1] # j
      BY <2>0, <2>5, StepSaves, AliveHasStatus
    <3> QED
      BY <2>5, <3>1, StepSaves
  <2> QED
    BY <2>1, <2>2, <2>3, <2>4, <2>5 DEF Next, Operation
<1>2. TypeOK /\ WorkerInv /\ [Next]_vars => [A]_vars
  BY <1>1
<1> QED
  BY <1>2, WorkerCorrect, PTL DEF Spec, OutcomeIsFinal
=============================================================================
