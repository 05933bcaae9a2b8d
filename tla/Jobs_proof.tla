----------------------------- MODULE Jobs_proof -----------------------------
(***************************************************************************)
(* Theorems about Jobs, for every set of jobs and tasks, every queue and   *)
(* concurrency limit, and every bound on runs and restarts.                *)
(***************************************************************************)
EXTENDS Jobs, FiniteSetTheorems, TLAPS

\* Where the goroutine of a job is says what its status may be.  A planner
\* whose PlanSpec could not be saved is in the queue already cancelled.
StatusOfWorker ==
    \A w \in Workers :
        /\ pc[w] \in {"queue", "begin"} =>
              \/ status[w[1]] = "queued"
              \/ status[w[1]] = "cancelled" /\ Task[w[1]].kind = "plan"
        /\ pc[w] \in {"top", "ask", "reply", "call"} => status[w[1]] = "running"
        /\ pc[w] \in {"failing", "release", "index", "close"}
              => status[w[1]] \in Terminal

\* An active job has a goroutine that has not ended its run yet.
ActiveHasWorker ==
    \A j \in Jobs :
        active(status[j]) =>
            pc[Cur(j)] \in {"queue", "begin", "top", "ask", "reply", "call"}

\* A channel belongs to a start that has happened.
ClosedIsPast == \A w \in closed : w[2] =< run[w[1]]

\* A process that is down has no jobs in memory.
DownIsEmpty == ~up => \A j \in Jobs : status[j] = "none"

\* How jobs, goroutines and done channels belong together.
WorkerInv ==
    /\ OneGoroutine
    /\ DoneMeansStopped
    /\ StatusOfWorker
    /\ ActiveHasWorker
    /\ ClosedIsPast
    /\ DownIsEmpty

\* No two active jobs overlap by the comparison that the code makes.
NoConflict == \A j, k \in ActiveJobs : j # k => ~taskConflicts(Task[j], Task[k])

\* The inductive invariant.
IInv == TypeOK /\ WorkerInv /\ NoConflict
-----------------------------------------------------------------------------
(* Facts about goroutine identifiers and the small steps of the model.     *)

\* The current start of a job names a goroutine.
LEMMA CurIsWorker ==
    ASSUME TypeOK, NEW j \in Jobs
    PROVE  Cur(j) \in Workers /\ Cur(j)[1] = j /\ Cur(j)[2] = run[j]
BY DEF TypeOK, Cur, Workers

\* A goroutine is a job and the number of a start of it.
LEMMA WorkerParts ==
    ASSUME NEW w \in Workers
    PROVE  w[1] \in Jobs /\ w[2] \in 0 .. MaxRuns /\ w = <<w[1], w[2]>>
BY DEF Workers

\* A save, whether it succeeds or fails, leaves the job files well typed.
LEMMA SaveType ==
    ASSUME TypeOK, NEW j \in Jobs, NEW s \in Status, NEW p \in BOOLEAN,
           SaveOrNot(j, s, p)
    PROVE  diskStatus' \in [Jobs -> Status] /\ diskPlan' \in [Jobs -> BOOLEAN]
BY DEF TypeOK, SaveOrNot, Saved, NotSaved

\* Starting a set of jobs that have starts left.
LEMMA StartType ==
    ASSUME TypeOK, NEW B \in SUBSET Jobs, Start(B),
           \A j \in B : run[j] < MaxRuns
    PROVE  run' \in [Jobs -> 0 .. MaxRuns] /\ pc' \in [Workers -> PC]
<1>1. \A j \in Jobs : run[j] \in 0 .. MaxRuns
  BY DEF TypeOK
<1>2. MaxRuns \in Nat
  BY LimitsAssumption
<1>3. \A j \in B : run[j] + 1 \in 0 .. MaxRuns
  BY <1>1, <1>2
<1>4. run' \in [Jobs -> 0 .. MaxRuns]
  BY <1>1, <1>3 DEF Start
<1>5. pc' \in [Workers -> PC]
  BY DEF Start, TypeOK, PC
<1> QED
  BY <1>4, <1>5
-----------------------------------------------------------------------------
(* Types.                                                                  *)

\* The initial state is well typed.
LEMMA InitType == Init => TypeOK
<1> SUFFICES ASSUME Init PROVE TypeOK
  OBVIOUS
<1>1. MaxRuns \in Nat
  BY LimitsAssumption
<1>2. 0 \in 0 .. MaxRuns
  BY <1>1
<1> QED
  BY <1>2 DEF Init, TypeOK, Status, PC

\* Every step of a goroutine leaves the state well typed.
LEMMA StepType ==
    ASSUME TypeOK, NEW w \in Workers, Step(w)
    PROVE  TypeOK'
<1> DEFINE j == w[1]
<1>0. j \in Jobs /\ status[j] \in Status /\ plan[j] \in BOOLEAN
  BY WorkerParts DEF TypeOK
<1>q. \A s \in FailStatus : s \in Status
  BY DEF FailStatus, Status, Terminal
<1>1. CASE AcquireSlot(w)
  BY <1>1 DEF AcquireSlot, Goto, Silent, NotSaved, TypeOK, PC
<1>2. CASE CancelledInQueue(w)
  <2>1. "cancelled" \in Status
    BY DEF Status, Terminal
  <2>2. diskStatus' \in [Jobs -> Status] /\ diskPlan' \in [Jobs -> BOOLEAN]
    BY <1>0, <1>2, <2>1, SaveType DEF CancelledInQueue, Fail
  <2> QED
    BY <1>0, <1>2, <2>1, <2>2 DEF CancelledInQueue, Fail, Goto, Silent, TypeOK, PC
<1>3. CASE Begin(w)
  BY <1>3 DEF Begin, Goto, Silent, NotSaved, TypeOK, PC, Status
<1>4. CASE Ask(w)
  <2>1. diskStatus' \in [Jobs -> Status] /\ diskPlan' \in [Jobs -> BOOLEAN]
    BY <1>0, <1>4, SaveType DEF Ask, SaveOrNot
  <2> QED
    BY <1>4, <2>1 DEF Ask, Goto, Silent, TypeOK, PC
<1>5. CASE Answered(w)
  BY <1>5 DEF Answered, Goto, Silent, NotSaved, TypeOK, PC
<1>6. CASE BeginCall(w)
  BY <1>6 DEF BeginCall, Goto, Silent, NotSaved, TypeOK, PC
<1>7. CASE EndCall(w)
  BY <1>7 DEF EndCall, Goto, Silent, NotSaved, TypeOK, PC
<1>8. CASE NextTurn(w)
  <2>1. diskStatus' \in [Jobs -> Status] /\ diskPlan' \in [Jobs -> BOOLEAN]
    BY <1>0, <1>8, SaveType DEF NextTurn, SaveOrNot
  <2> QED
    BY <1>8, <2>1 DEF NextTurn, Goto, Silent, TypeOK, PC
<1>9. CASE Complete(w)
  <2>1. "completed" \in Status
    BY DEF Status, Terminal
  <2>2. diskStatus' \in [Jobs -> Status] /\ diskPlan' \in [Jobs -> BOOLEAN]
    BY <1>0, <1>9, <2>1, SaveType DEF Complete, SaveOrNot
  <2>3. pc' \in [Workers -> PC]
    BY <1>9 DEF Complete, Goto, TypeOK, PC
  <2> QED
    BY <1>0, <1>9, <2>1, <2>2, <2>3 DEF Complete, Silent, TypeOK
<1>10. ASSUME NEW x \in Files, EditFile(w, x)
       PROVE  TypeOK'
  BY <1>0, <1>10 DEF EditFile, Goto, Silent, NotSaved, TypeOK, PC
<1>11. ASSUME NEW s \in FailStatus, GiveUp(w, s)
       PROVE  TypeOK'
  <2>1. diskStatus' \in [Jobs -> Status] /\ diskPlan' \in [Jobs -> BOOLEAN]
    BY <1>0, <1>q, <1>11, SaveType DEF GiveUp, Fail
  <2> QED
    BY <1>0, <1>q, <1>11, <2>1 DEF GiveUp, Fail, Goto, Silent, TypeOK, PC
<1>12. CASE FailUnsaved(w)
  <2>1. "failed" \in Status
    BY DEF Status, Terminal
  <2>2. diskStatus' \in [Jobs -> Status] /\ diskPlan' \in [Jobs -> BOOLEAN]
    BY <1>0, <1>12, <2>1, SaveType DEF FailUnsaved, Fail
  <2> QED
    BY <1>0, <1>12, <2>1, <2>2 DEF FailUnsaved, Fail, Goto, Silent, TypeOK, PC
<1>13. CASE ReleaseSlot(w)
  BY <1>13 DEF ReleaseSlot, Goto, Silent, NotSaved, TypeOK, PC
<1>14. CASE Index(w)
  <2>1. diskStatus' \in [Jobs -> Status] /\ diskPlan' \in [Jobs -> BOOLEAN]
    BY <1>0, <1>14, SaveType DEF Index
  <2> QED
    BY <1>14, <2>1 DEF Index, Goto, Silent, TypeOK, PC
<1>15. CASE CloseDone(w)
  <2>1. Cur(w[1]) \in Workers
    BY <1>0, CurIsWorker
  <2> QED
    BY <1>15, <2>1 DEF CloseDone, Goto, NotSaved, TypeOK, PC
<1> QED
  BY <1>1, <1>2, <1>3, <1>4, <1>5, <1>6, <1>7, <1>8, <1>9, <1>10, <1>11, <1>12,
     <1>13, <1>14, <1>15 DEF Step

\* So does every step.
LEMMA NextType == TypeOK /\ [Next]_vars => TypeOK'
<1> SUFFICES ASSUME TypeOK, [Next]_vars PROVE TypeOK'
  OBVIOUS
<1>0. \A k \in Jobs : Cur(k) \in Workers
  BY CurIsWorker
<1>s. {"none", "queued", "cancelled", "interrupted"} \subseteq Status
  BY DEF Status, Terminal
<1>m. ASSUME MemoryLost PROVE
        /\ up' \in BOOLEAN /\ stopping' \in BOOLEAN /\ restarts' \in Nat
        /\ status' \in [Jobs -> Status] /\ plan' \in [Jobs -> BOOLEAN]
        /\ run' \in [Jobs -> 0 .. MaxRuns] /\ pc' \in [Workers -> PC]
        /\ ctxDone' \in SUBSET Workers /\ closed' \in SUBSET Workers
        /\ sem' \in Nat /\ writer' \in [Files -> Jobs \cup {NoJob}]
  BY <1>m, <1>s DEF MemoryLost, TypeOK, PC
<1>1. CASE New
  BY <1>1, <1>s DEF New, TypeOK
<1>2. CASE Stop
  BY <1>2 DEF Stop, TypeOK, Alive
<1>3. CASE CloseManager
  BY <1>3, <1>m DEF CloseManager, NotSaved, TypeOK
<1>4. CASE Crash
  BY <1>4, <1>m DEF Crash, NotSaved, TypeOK
<1>5. ASSUME NEW B \in SUBSET Jobs, Spawn(B)
      PROVE  TypeOK'
  <2>1. run' \in [Jobs -> 0 .. MaxRuns] /\ pc' \in [Workers -> PC]
    BY <1>5, StartType DEF Spawn, Enter, Acceptable
  <2>2. status' \in [Jobs -> Status] /\ diskStatus' \in [Jobs -> Status]
    BY <1>5, <1>s DEF Spawn, Enter, TypeOK
  <2> QED
    BY <1>5, <2>1, <2>2 DEF Spawn, TypeOK
<1>6. ASSUME NEW B \in SUBSET Jobs, NEW S \in SUBSET B, SpawnCrash(B, S)
      PROVE  TypeOK'
  <2>1. diskStatus' \in [Jobs -> Status] /\ diskPlan' \in [Jobs -> BOOLEAN]
    BY <1>6, <1>s DEF SpawnCrash, TypeOK
  <2> QED
    BY <1>6, <1>m, <2>1 DEF SpawnCrash, TypeOK
<1>7. ASSUME NEW k \in Jobs, StartPlan(k)
      PROVE  TypeOK'
  <2>1. Start({k}) /\ run[k] < MaxRuns
    BY <1>7 DEF StartPlan, Enter, Acceptable
  <2>2. run' \in [Jobs -> 0 .. MaxRuns] /\ pc' \in [Workers -> PC]
    BY <2>1, StartType
  <2>3. status' \in [Jobs -> Status] /\ diskStatus' \in [Jobs -> Status]
    BY <1>7, <1>s DEF StartPlan, Enter, TypeOK
  <2>4. plan' \in [Jobs -> BOOLEAN] /\ diskPlan' \in [Jobs -> BOOLEAN]
    BY <1>7 DEF StartPlan, TypeOK
  <2>5. <<k, run[k] + 1>> \in Workers
    BY <2>1, LimitsAssumption DEF TypeOK, Workers
  <2>6. ctxDone' \in SUBSET Workers
    BY <1>7, <2>5 DEF StartPlan, TypeOK
  <2> QED
    BY <1>7, <2>2, <2>3, <2>4, <2>6 DEF StartPlan, TypeOK
<1>8. ASSUME NEW k \in Jobs, Cancel(k)
      PROVE  TypeOK'
  BY <1>0, <1>8 DEF Cancel, TypeOK
<1>9. ASSUME NEW k \in Jobs, Continue(k)
      PROVE  TypeOK'
  <2>1. run' \in [Jobs -> 0 .. MaxRuns] /\ pc' \in [Workers -> PC]
    BY <1>9, StartType DEF Continue, Enter
  <2>2. status' \in [Jobs -> Status]
    BY <1>9, <1>s DEF Continue, Enter, TypeOK
  <2>3. diskStatus' \in [Jobs -> Status] /\ diskPlan' \in [Jobs -> BOOLEAN]
    BY <1>9, <1>s DEF Continue, Saved, TypeOK
  <2> QED
    BY <1>9, <2>1, <2>2, <2>3 DEF Continue, TypeOK
<1>10. ASSUME NEW k \in Jobs, Persist(k)
       PROVE  TypeOK'
  BY <1>10 DEF Persist, Saved, TypeOK
<1>11. ASSUME NEW w \in Workers, Step(w) \/ Timeout(w)
       PROVE  TypeOK'
  BY <1>11, StepType DEF Timeout, TypeOK
<1>12. CASE UNCHANGED vars
  BY <1>12 DEF vars, TypeOK
<1>13. ASSUME NEW B \in SUBSET Jobs, NEW S \in SUBSET B, SpawnOrphans(B, S)
       PROVE  TypeOK'
  <2>1. diskStatus' \in [Jobs -> Status]
    BY <1>13, <1>s DEF SpawnOrphans, TypeOK
  <2> QED
    BY <1>13, <2>1 DEF SpawnOrphans, TypeOK
<1> QED
  BY <1>1, <1>2, <1>3, <1>4, <1>5, <1>6, <1>7, <1>8, <1>9, <1>10, <1>11, <1>12, <1>13
     DEF Next, Operation

\* Every variable of the manager keeps its type.
THEOREM TypeCorrect == Spec => []TypeOK
BY InitType, NextType, PTL DEF Spec
-----------------------------------------------------------------------------
(* Goroutines, statuses and done channels.                                 *)

InQueue == {"queue", "begin"}
InLoop == {"top", "ask", "reply", "call"}
Ending == {"failing", "release", "index", "close"}

\* A goroutine is its job's current one, and the process and the job are known.
LEMMA AliveHasStatus ==
    ASSUME WorkerInv, NEW w \in Workers, pc[w] # "none", TypeOK
    PROVE  /\ w = Cur(w[1]) /\ w \notin closed /\ up
           /\ status[w[1]] # "none"
<1>1. w = Cur(w[1]) /\ w \notin closed
  BY DEF WorkerInv, OneGoroutine, Alive
<1>2. pc[w] \in InQueue \cup InLoop \cup Ending
  BY DEF TypeOK, PC, InQueue, InLoop, Ending
<1>3. status[w[1]] # "none"
  BY <1>2 DEF WorkerInv, StatusOfWorker, InQueue, InLoop, Ending, Terminal
<1> QED
  BY <1>1, <1>3, WorkerParts DEF WorkerInv, DownIsEmpty, TypeOK

\* A step of a goroutine that goes on keeps the invariant if the status it
\* leaves fits the place it goes to.
LEMMA WorkerMoves ==
    ASSUME TypeOK, WorkerInv, NEW w \in Workers, pc[w] # "none",
           NEW l \in PC \ {"none"}, NEW s \in Status,
           pc' = [pc EXCEPT ![w] = l],
           status' = [status EXCEPT ![w[1]] = s],
           UNCHANGED <<up, run, closed>>,
           l \in InQueue => s = status[w[1]] /\ pc[w] \in InQueue,
           l \in InLoop => s = "running",
           l \in Ending => s \in Terminal
    PROVE  WorkerInv'
<1> DEFINE j == w[1]
<1>0. w = Cur(j) /\ w \notin closed /\ up /\ status[j] # "none" /\ j \in Jobs
  BY AliveHasStatus, WorkerParts
<1>c. \A k \in Jobs : Cur(k)' = Cur(k) /\ Cur(k) \in Workers /\ Cur(k)[1] = k
  BY CurIsWorker DEF Cur
<1>p. \A v \in Workers : pc'[v] = IF v = w THEN l ELSE pc[v]
  BY DEF TypeOK
<1>s. \A k \in Jobs : status'[k] = IF k = j THEN s ELSE status[k]
  BY DEF TypeOK
<1>o. \A v \in Workers : v # w /\ v[1] = j => pc[v] = "none"
  BY <1>0 DEF WorkerInv, OneGoroutine, Alive
<1>l. l \in InQueue \cup InLoop \cup Ending
  BY DEF PC, InQueue, InLoop, Ending
<1>n. s # "none"
  BY <1>0, <1>l DEF InQueue, InLoop, Ending, Terminal
<1>1. OneGoroutine'
  <2> SUFFICES ASSUME NEW v \in Workers, pc'[v] # "none"
               PROVE  v = Cur(v[1])' /\ v \notin closed'
    BY DEF OneGoroutine, Alive
  <2>1. pc[v] # "none"
    BY <1>p
  <2>2. v = Cur(v[1]) /\ v \notin closed
    BY <2>1 DEF WorkerInv, OneGoroutine, Alive
  <2> QED
    BY <2>2, <1>c, WorkerParts
<1>2. DoneMeansStopped'
  <2> SUFFICES ASSUME NEW k \in Jobs
               PROVE  /\ Cur(k)' \in closed' => status'[k] \in Terminal
                      /\ status'[k] # "none" /\ Cur(k)' \notin Alive'
                            => Cur(k)' \in closed'
    BY DEF DoneMeansStopped
  <2>1. CASE k = j
    BY <2>1, <1>0, <1>c, <1>p DEF Alive
  <2>2. CASE k # j
    <3>1. status'[k] = status[k] /\ pc'[Cur(k)] = pc[Cur(k)]
      BY <2>2, <1>0, <1>c, <1>p, <1>s
    <3> QED
      BY <3>1, <1>c DEF WorkerInv, DoneMeansStopped, Alive
  <2> QED
    BY <2>1, <2>2
<1>3. StatusOfWorker'
  <2> SUFFICES ASSUME NEW v \in Workers
               PROVE  /\ pc'[v] \in InQueue =>
                            \/ status'[v[1]] = "queued"
                            \/ status'[v[1]] = "cancelled" /\ Task[v[1]].kind = "plan"
                      /\ pc'[v] \in InLoop => status'[v[1]] = "running"
                      /\ pc'[v] \in Ending => status'[v[1]] \in Terminal
    BY DEF StatusOfWorker, InQueue, InLoop, Ending
  <2>1. CASE v = w
    BY <2>1, <1>0, <1>p, <1>s DEF WorkerInv, StatusOfWorker, InQueue, InLoop, Ending
  <2>2. CASE v # w /\ v[1] = j
    BY <2>2, <1>o, <1>p DEF InQueue, InLoop, Ending
  <2>3. CASE v[1] # j
    <3>1. status'[v[1]] = status[v[1]] /\ pc'[v] = pc[v]
      BY <2>3, <1>p, <1>s, WorkerParts
    <3> QED
      BY <3>1 DEF WorkerInv, StatusOfWorker, InQueue, InLoop, Ending
  <2> QED
    BY <2>1, <2>2, <2>3
<1>4. ActiveHasWorker'
  <2> SUFFICES ASSUME NEW k \in Jobs, active(status'[k])
               PROVE  pc'[Cur(k)'] \in InQueue \cup InLoop
    BY DEF ActiveHasWorker, InQueue, InLoop
  <2>1. CASE k = j
    <3>1. s \notin Terminal
      BY <2>1, <1>s DEF active, Terminal
    <3> QED
      BY <3>1, <2>1, <1>0, <1>c, <1>p, <1>l
  <2>2. CASE k # j
    <3>1. status'[k] = status[k] /\ pc'[Cur(k)] = pc[Cur(k)]
      BY <2>2, <1>0, <1>c, <1>p, <1>s
    <3> QED
      BY <3>1, <1>c DEF WorkerInv, ActiveHasWorker, InQueue, InLoop
  <2> QED
    BY <2>1, <2>2
<1>5. ClosedIsPast' /\ DownIsEmpty'
  BY <1>0 DEF WorkerInv, ClosedIsPast, DownIsEmpty
<1> QED
  BY <1>1, <1>2, <1>3, <1>4, <1>5 DEF WorkerInv

\* A job with no goroutine may be started, whatever it was before.
LEMMA JobsEnter ==
    ASSUME TypeOK, WorkerInv, TypeOK', up, NEW B \in SUBSET Jobs,
           NEW st \in {"queued", "cancelled"}, Enter(B, st),
           UNCHANGED <<up, closed>>,
           \A j \in B : pc[Cur(j)] = "none",
           st = "cancelled" => \A j \in B : Task[j].kind = "plan"
    PROVE  WorkerInv'
<1>r. \A j \in Jobs : run[j] \in Nat /\ run'[j] = IF j \in B THEN run[j] + 1 ELSE run[j]
  BY DEF Enter, Start, TypeOK
<1>s. \A j \in Jobs : status'[j] = IF j \in B THEN st ELSE status[j]
  BY DEF Enter
<1>c. \A j \in Jobs : /\ Cur(j) \in Workers /\ Cur(j)' \in Workers
                      /\ Cur(j)' = <<j, run'[j]>> /\ Cur(j) = <<j, run[j]>>
  BY DEF Cur, TypeOK, Workers
<1>b. \A v \in Workers : v[1] \in B => pc[v] = "none"
  BY DEF WorkerInv, OneGoroutine, Alive
<1>p. \A v \in Workers :
        /\ v[1] \in B => pc'[v] = IF v = Cur(v[1])' THEN "queue" ELSE "none"
        /\ v[1] \notin B => pc'[v] = pc[v] /\ Cur(v[1])' = Cur(v[1])
  <2> SUFFICES ASSUME NEW v \in Workers
               PROVE  /\ v[1] \in B => pc'[v] = IF v = Cur(v[1])' THEN "queue" ELSE "none"
                      /\ v[1] \notin B => pc'[v] = pc[v] /\ Cur(v[1])' = Cur(v[1])
    OBVIOUS
  <2>1. v = Cur(v[1])' <=> v[2] = run'[v[1]]
    BY <1>c, WorkerParts
  <2> QED
    BY <2>1, <1>b, <1>c, <1>r, WorkerParts DEF Enter, Start
<1>f. \A j \in B : Cur(j)' \notin closed
  BY <1>c, <1>r DEF WorkerInv, ClosedIsPast
<1>k. st \notin Terminal \/ st = "cancelled"
  BY DEF Terminal
<1>1. OneGoroutine'
  <2> SUFFICES ASSUME NEW v \in Workers, pc'[v] # "none"
               PROVE  v = Cur(v[1])' /\ v \notin closed
    BY DEF OneGoroutine, Alive
  <2>1. CASE v[1] \in B
    BY <2>1, <1>p, <1>f
  <2>2. CASE v[1] \notin B
    BY <2>2, <1>p DEF WorkerInv, OneGoroutine, Alive
  <2> QED
    BY <2>1, <2>2
<1>2. DoneMeansStopped'
  <2> SUFFICES ASSUME NEW k \in Jobs
               PROVE  /\ Cur(k)' \in closed => status'[k] \in Terminal
                      /\ status'[k] # "none" /\ pc'[Cur(k)'] = "none"
                            => Cur(k)' \in closed
    BY <1>c DEF DoneMeansStopped, Alive
  <2>1. CASE k \in B
    BY <2>1, <1>c, <1>f, <1>p
  <2>2. CASE k \notin B
    <3>1. Cur(k)' = Cur(k) /\ status'[k] = status[k] /\ pc'[Cur(k)] = pc[Cur(k)]
      BY <2>2, <1>c, <1>r, <1>s, <1>p
    <3> QED
      BY <3>1, <1>c DEF WorkerInv, DoneMeansStopped, Alive
  <2> QED
    BY <2>1, <2>2
<1>3. StatusOfWorker'
  <2> SUFFICES ASSUME NEW v \in Workers
               PROVE  /\ pc'[v] \in InQueue =>
                            \/ status'[v[1]] = "queued"
                            \/ status'[v[1]] = "cancelled" /\ Task[v[1]].kind = "plan"
                      /\ pc'[v] \in InLoop => status'[v[1]] = "running"
                      /\ pc'[v] \in Ending => status'[v[1]] \in Terminal
    BY DEF StatusOfWorker, InQueue, InLoop, Ending
  <2>1. CASE v[1] \in B
    BY <2>1, <1>p, <1>s, WorkerParts DEF InQueue, InLoop, Ending
  <2>2. CASE v[1] \notin B
    BY <2>2, <1>p, <1>s, WorkerParts
       DEF WorkerInv, StatusOfWorker, InQueue, InLoop, Ending
  <2> QED
    BY <2>1, <2>2
<1>4. ActiveHasWorker'
  <2> SUFFICES ASSUME NEW k \in Jobs, active(status'[k])
               PROVE  pc'[Cur(k)'] \in InQueue \cup InLoop
    BY DEF ActiveHasWorker, InQueue, InLoop
  <2>1. CASE k \in B
    BY <2>1, <1>c, <1>p DEF InQueue
  <2>2. CASE k \notin B
    <3>1. Cur(k)' = Cur(k) /\ status'[k] = status[k] /\ pc'[Cur(k)] = pc[Cur(k)]
      BY <2>2, <1>c, <1>r, <1>s, <1>p
    <3> QED
      BY <3>1, <1>c DEF WorkerInv, ActiveHasWorker, InQueue, InLoop
  <2> QED
    BY <2>1, <2>2
<1>5. ClosedIsPast' /\ DownIsEmpty'
  <2>1. \A w \in closed : w[2] =< run'[w[1]]
    BY <1>r, WorkerParts DEF WorkerInv, ClosedIsPast, TypeOK
  <2> QED
    BY <2>1 DEF ClosedIsPast, DownIsEmpty
<1> QED
  BY <1>1, <1>2, <1>3, <1>4, <1>5 DEF WorkerInv

\* At first there are no goroutines and no jobs.
LEMMA InitWorkers == Init => WorkerInv
BY DEF Init, WorkerInv, OneGoroutine, DoneMeansStopped, StatusOfWorker,
       ActiveHasWorker, ClosedIsPast, DownIsEmpty, Alive, active

\* With nothing in memory there is nothing to say.
LEMMA EmptyMemory == MemoryLost => WorkerInv'
BY DEF MemoryLost, WorkerInv, OneGoroutine, DoneMeansStopped, StatusOfWorker,
       ActiveHasWorker, ClosedIsPast, DownIsEmpty, Alive, active

\* Every step of a goroutine keeps statuses and goroutines in accord.
LEMMA StepWorkers ==
    ASSUME TypeOK, WorkerInv, NEW w \in Workers, Step(w)
    PROVE  WorkerInv'
<1> DEFINE j == w[1]
<1>0. j \in Jobs /\ status[j] \in Status
  BY WorkerParts DEF TypeOK
<1>a. ASSUME UNCHANGED status
      PROVE  status' = [status EXCEPT ![j] = status[j]]
  BY <1>a, <1>0 DEF TypeOK
<1>r. {"running", "completed", "cancelled", "failed"} \subseteq Status
  BY DEF Status, Terminal
<1>q. \A s \in FailStatus : s \in Status /\ s \in Terminal
  BY DEF FailStatus, Status, Terminal
<1>1. CASE AcquireSlot(w)
  BY <1>0, <1>1, <1>a, WorkerMoves
     DEF AcquireSlot, Goto, Silent, PC, InQueue, InLoop, Ending
<1>2. CASE CancelledInQueue(w)
  BY <1>0, <1>2, <1>r, WorkerMoves
     DEF CancelledInQueue, Fail, Goto, Silent, PC, InQueue, InLoop, Ending, Terminal
<1>3. CASE Begin(w)
  BY <1>0, <1>3, <1>r, WorkerMoves
     DEF Begin, Goto, Silent, PC, InQueue, InLoop, Ending
<1>w. pc[w] \in InLoop => status[j] = "running"
  BY DEF WorkerInv, StatusOfWorker, InLoop
<1>t. pc[w] \in Ending => status[j] \in Terminal
  BY DEF WorkerInv, StatusOfWorker, Ending
<1>4. CASE Ask(w) \/ Answered(w) \/ BeginCall(w) \/ EndCall(w) \/ NextTurn(w)
           \/ (\E x \in Files : EditFile(w, x))
  BY <1>0, <1>4, <1>a, <1>w, WorkerMoves
     DEF Ask, Answered, BeginCall, EndCall, NextTurn, EditFile, Goto, Silent,
         PC, InQueue, InLoop, Ending
<1>5. CASE Complete(w)
  <2>1. PICK l \in {"release", "failing"} : Goto(w, l)
    BY <1>5 DEF Complete
  <2> QED
    BY <1>0, <1>5, <1>r, <2>1, WorkerMoves
       DEF Complete, Goto, Silent, PC, InQueue, InLoop, Ending, Terminal
<1>6. ASSUME NEW s \in FailStatus, GiveUp(w, s)
      PROVE  WorkerInv'
  BY <1>0, <1>6, <1>q, WorkerMoves
     DEF GiveUp, Fail, Goto, Silent, PC, InQueue, InLoop, Ending
<1>7. CASE FailUnsaved(w)
  BY <1>0, <1>7, <1>r, WorkerMoves
     DEF FailUnsaved, Fail, Goto, Silent, PC, InQueue, InLoop, Ending, Terminal
<1>8. CASE ReleaseSlot(w) \/ Index(w)
  BY <1>0, <1>8, <1>a, <1>t, WorkerMoves
     DEF ReleaseSlot, Index, Goto, Silent, PC, InQueue, InLoop, Ending
<1>9. CASE CloseDone(w)
  <2>1. w = Cur(j) /\ w \notin closed /\ up /\ status[j] \in Terminal
    BY <1>9, <1>t, AliveHasStatus DEF CloseDone, Ending
  <2>2. \A v \in Workers : pc'[v] = IF v = w THEN "none" ELSE pc[v]
    BY <1>9 DEF CloseDone, Goto, TypeOK
  <2>3. \A k \in Jobs : Cur(k)' = Cur(k) /\ Cur(k) \in Workers /\ Cur(k)[1] = k
    BY <1>9, CurIsWorker DEF CloseDone, Cur
  <2>4. closed' = closed \cup {w} /\ UNCHANGED <<up, status, run>>
    BY <1>9, <2>1 DEF CloseDone
  <2>5. OneGoroutine'
    BY <2>2, <2>3, <2>4, WorkerParts DEF WorkerInv, OneGoroutine, Alive
  <2>6. DoneMeansStopped'
    BY <1>0, <2>1, <2>2, <2>3, <2>4 DEF WorkerInv, DoneMeansStopped, Alive
  <2>7. StatusOfWorker'
    BY <2>2, <2>4 DEF WorkerInv, StatusOfWorker
  <2>8. ActiveHasWorker'
    <3> SUFFICES ASSUME NEW k \in Jobs, active(status[k])
                 PROVE  pc'[Cur(k)] \in InQueue \cup InLoop
      BY <2>3, <2>4 DEF ActiveHasWorker, InQueue, InLoop
    <3>1. k # j
      BY <2>1 DEF active, Terminal
    <3> QED
      BY <3>1, <2>1, <2>2, <2>3 DEF WorkerInv, ActiveHasWorker, InQueue, InLoop
  <2>9. ClosedIsPast' /\ DownIsEmpty'
    <3>1. w[2] =< run[j]
      BY <2>1, <1>0, WorkerParts DEF Cur, TypeOK
    <3> QED
      BY <2>1, <2>4, <3>1 DEF WorkerInv, ClosedIsPast, DownIsEmpty
  <2> QED
    BY <2>5, <2>6, <2>7, <2>8, <2>9 DEF WorkerInv
<1> QED
  BY <1>1, <1>2, <1>3, <1>4, <1>5, <1>6, <1>7, <1>8, <1>9 DEF Step

\* So does every step.
LEMMA NextWorkers ==
    ASSUME TypeOK, TypeOK', WorkerInv, [Next]_vars
    PROVE  WorkerInv'
<1>e. ASSUME NEW j \in Jobs, status[j] = "none"
      PROVE  pc[Cur(j)] = "none"
  BY <1>e, AliveHasStatus, CurIsWorker
<1>1. CASE New
  <2>1. \A w \in Workers : pc'[w] = "none"
    BY <1>1, AliveHasStatus DEF New
  <2>2. \A k \in Jobs : Cur(k)' = Cur(k) /\ Cur(k) \in Workers /\ Cur(k)[1] = k
    BY <1>1, CurIsWorker DEF New, Cur
  <2>3. \A k \in Jobs : /\ diskStatus[k] \in Status
                        /\ status'[k] = IF active(diskStatus[k]) THEN "interrupted"
                                        ELSE diskStatus[k]
                        /\ Cur(k) \in closed' <=> diskStatus[k] # "none"
    BY <1>1, <2>2 DEF New, TypeOK
  <2>4. \A k \in Jobs : ~active(status'[k])
    BY <2>3 DEF active
  <2>5. \A k \in Jobs : diskStatus[k] # "none" => status'[k] \in Terminal
    BY <2>3 DEF active, Status, Terminal
  <2>6. OneGoroutine' /\ StatusOfWorker' /\ ActiveHasWorker'
    BY <2>1, <2>4 DEF OneGoroutine, StatusOfWorker, ActiveHasWorker, Alive
  <2>7. DoneMeansStopped'
    BY <2>2, <2>3, <2>5 DEF DoneMeansStopped, active
  <2>8. \A w \in closed' : w[2] = run'[w[1]]
    BY <1>1 DEF New, Cur
  <2>9. ClosedIsPast' /\ DownIsEmpty'
    <3>1. \A w \in closed' : w[2] =< run'[w[1]]
      BY <2>8, WorkerParts DEF TypeOK
    <3> QED
      BY <1>1, <3>1 DEF New, ClosedIsPast, DownIsEmpty
  <2> QED
    BY <2>6, <2>7, <2>9 DEF WorkerInv
<1>u. ASSUME UNCHANGED <<up, status, run, pc, closed>>
      PROVE  WorkerInv'
  BY <1>u DEF WorkerInv, OneGoroutine, DoneMeansStopped, StatusOfWorker,
              ActiveHasWorker, ClosedIsPast, DownIsEmpty, Alive, Cur
<1>2. CASE Stop
  BY <1>2, <1>u DEF Stop
<1>3. CASE CloseManager \/ Crash
  BY <1>3, EmptyMemory DEF CloseManager, Crash
<1>4. ASSUME NEW B \in SUBSET Jobs, Spawn(B)
      PROVE  WorkerInv'
  BY <1>4, <1>e, JobsEnter DEF Spawn, Acceptable
<1>5. ASSUME NEW B \in SUBSET Jobs, NEW S \in SUBSET B, SpawnCrash(B, S)
      PROVE  WorkerInv'
  BY <1>5, EmptyMemory DEF SpawnCrash
<1>6. ASSUME NEW j \in Jobs, StartPlan(j)
      PROVE  WorkerInv'
  BY <1>6, <1>e, JobsEnter DEF StartPlan, Acceptable
<1>7. ASSUME NEW j \in Jobs, Continue(j)
      PROVE  WorkerInv'
  <2>1. pc[Cur(j)] = "none"
    BY <1>7, CurIsWorker DEF Continue, MayContinue, WorkerInv, OneGoroutine, Alive
  <2> QED
    BY <1>7, <2>1, JobsEnter DEF Continue, MayContinue
<1>8. ASSUME NEW j \in Jobs, Cancel(j) \/ Persist(j)
      PROVE  WorkerInv'
  BY <1>8, <1>u DEF Cancel, Persist
<1>9. ASSUME NEW w \in Workers, Step(w) \/ Timeout(w)
      PROVE  WorkerInv'
  BY <1>9, <1>u, StepWorkers DEF Timeout
<1>10. CASE UNCHANGED vars
  BY <1>10, <1>u DEF vars
<1>11. ASSUME NEW B \in SUBSET Jobs, NEW S \in SUBSET B, SpawnOrphans(B, S)
       PROVE  WorkerInv'
  BY <1>11, <1>u DEF SpawnOrphans
<1> QED
  BY <1>1, <1>2, <1>3, <1>4, <1>5, <1>6, <1>7, <1>8, <1>9, <1>10, <1>11
     DEF Next, Operation

\* The invariant of goroutines, statuses and done channels.
LEMMA WorkerCorrect == Spec => [](TypeOK /\ WorkerInv)
<1>1. Init => TypeOK /\ WorkerInv
  BY InitType, InitWorkers
<1>2. TypeOK /\ WorkerInv /\ [Next]_vars => (TypeOK /\ WorkerInv)'
  BY NextType, NextWorkers
<1> QED
  BY <1>1, <1>2, PTL DEF Spec

\* A job never has two goroutines, and a goroutine that is about to close
\* the job's done channel finds it open and its own.
THEOREM OneGoroutineCorrect == Spec => []OneGoroutine
BY WorkerCorrect, PTL DEF WorkerInv

\* Waiters are released exactly when a job has stopped.
THEOREM DoneCorrect == Spec => []DoneMeansStopped
BY WorkerCorrect, PTL DEF WorkerInv
-----------------------------------------------------------------------------
(* Write scopes.                                                           *)

\* Overlap is symmetric.
LEMMA ConflictSymmetric ==
    ASSUME NEW t, NEW u
    PROVE  taskConflicts(t, u) <=> taskConflicts(u, t)
BY DEF taskConflicts, conflicts

\* A task without write paths overlaps with none.
LEMMA ReadOnlyConflictsNot ==
    ASSUME NEW t, NEW u, t.write = {}
    PROVE  ~taskConflicts(t, u)
BY DEF taskConflicts, conflicts, AbsScopes, owns

\* A planner has nothing to reserve.
LEMMA PlannerConflictsNot ==
    ASSUME NEW j \in Jobs, NEW k \in Jobs, Task[j].kind = "plan"
    PROVE  ~taskConflicts(Task[j], Task[k]) /\ ~taskConflicts(Task[k], Task[j])
BY JobsAssumption, ReadOnlyConflictsNot, ConflictSymmetric

\* How the set of active jobs changes in a step: jobs that stop leave it, and
\* those that enter it overlap neither with each other nor with those inside.
LEMMA ActiveChanges ==
    ASSUME TypeOK, WorkerInv, [Next]_vars
    PROVE  \A j \in ActiveJobs' \ ActiveJobs, k \in ActiveJobs' :
              j # k => ~taskConflicts(Task[j], Task[k])
<1> DEFINE Goal == \A j \in ActiveJobs' \ ActiveJobs, k \in ActiveJobs' :
                      j # k => ~taskConflicts(Task[j], Task[k])
<1>a. ASSUME ActiveJobs' \subseteq ActiveJobs
      PROVE  Goal
  BY <1>a
<1>u. ASSUME UNCHANGED status
      PROVE  Goal
  BY <1>u, <1>a DEF ActiveJobs
<1>s. ASSUME NEW j \in Jobs, NEW s, s \in Terminal \/ active(status[j]),
             status' = [status EXCEPT ![j] = s]
      PROVE  Goal
  <2>1. ActiveJobs' \subseteq ActiveJobs
    BY <1>s DEF ActiveJobs, active, Terminal, TypeOK
  <2> QED
    BY <2>1, <1>a
<1>1. CASE New
  <2>1. ActiveJobs' = {}
    BY <1>1 DEF New, ActiveJobs, active
  <2> QED
    BY <2>1, <1>a
<1>2. CASE Stop \/ CloseManager \/ Crash
  <2>1. ActiveJobs' \subseteq ActiveJobs
    BY <1>2 DEF Stop, CloseManager, Crash, MemoryLost, ActiveJobs, active
  <2> QED
    BY <2>1, <1>a
<1>3. ASSUME NEW B \in SUBSET Jobs, Acceptable(B), NEW st, Enter(B, st)
      PROVE  Goal
  <2>1. \A j \in ActiveJobs' : j \in B \/ j \in ActiveJobs
    BY <1>3 DEF Enter, ActiveJobs
  <2> QED
    BY <1>3, <2>1 DEF Acceptable, Blocked
<1>4. ASSUME NEW B \in SUBSET Jobs, Spawn(B)
      PROVE  Goal
  BY <1>4, <1>3 DEF Spawn
<1>5. ASSUME NEW B \in SUBSET Jobs, NEW S \in SUBSET B, SpawnCrash(B, S)
      PROVE  Goal
  <2>1. ActiveJobs' = {}
    BY <1>5 DEF SpawnCrash, MemoryLost, ActiveJobs, active
  <2> QED
    BY <2>1, <1>a
<1>6. ASSUME NEW j \in Jobs, StartPlan(j)
      PROVE  Goal
  BY <1>6, <1>3 DEF StartPlan
<1>7. ASSUME NEW j \in Jobs, Continue(j)
      PROVE  Goal
  <2>1. \A k \in ActiveJobs' : k = j \/ k \in ActiveJobs
    BY <1>7 DEF Continue, Enter, ActiveJobs
  <2> QED
    BY <1>7, <2>1 DEF Continue, MayContinue, Blocked
<1>8. ASSUME NEW j \in Jobs, Cancel(j) \/ Persist(j)
      PROVE  Goal
  BY <1>8, <1>u DEF Cancel, Persist
<1>9. ASSUME NEW w \in Workers, Step(w) \/ Timeout(w)
      PROVE  Goal
  <2>0. w[1] \in Jobs
    BY WorkerParts
  <2>1. CASE UNCHANGED status
    BY <2>1, <1>u
  <2>2. CASE CancelledInQueue(w) \/ Complete(w) \/ FailUnsaved(w)
             \/ (\E s \in FailStatus : GiveUp(w, s))
    <3>1. PICK s \in Terminal : status' = [status EXCEPT ![w[1]] = s]
      BY <2>2 DEF CancelledInQueue, Complete, FailUnsaved, GiveUp, Fail, Terminal, FailStatus
    <3> QED
      BY <3>1, <2>0, <1>s
  <2>3. CASE Begin(w)
    <3>1. \/ status[w[1]] = "queued"
          \/ Task[w[1]].kind = "plan"
      BY <2>3 DEF Begin, WorkerInv, StatusOfWorker
    <3>2. CASE status[w[1]] = "queued"
      BY <3>2, <2>0, <2>3, <1>s DEF Begin, active
    <3>3. CASE Task[w[1]].kind = "plan"
      <4>1. \A k \in ActiveJobs' : k = w[1] \/ k \in ActiveJobs
        BY <2>3 DEF Begin, ActiveJobs, TypeOK
      <4>2. \A k \in ActiveJobs' : k \in Jobs
        BY DEF ActiveJobs
      <4> QED
        BY <3>3, <4>1, <4>2, <2>0, PlannerConflictsNot
    <3> QED
      BY <3>1, <3>2, <3>3
  <2>4. CASE Timeout(w) \/ ReleaseSlot(w) \/ Index(w) \/ CloseDone(w)
             \/ AcquireSlot(w) \/ Ask(w) \/ Answered(w) \/ BeginCall(w)
             \/ EndCall(w) \/ NextTurn(w) \/ (\E x \in Files : EditFile(w, x))
    BY <2>4, <2>1 DEF Timeout, ReleaseSlot, Index, CloseDone, AcquireSlot, Ask,
                      Answered, BeginCall, EndCall, NextTurn, EditFile
  <2> QED
    BY <1>9, <2>2, <2>3, <2>4 DEF Step
<1>10. CASE UNCHANGED vars
  BY <1>10, <1>u DEF vars
<1>11. ASSUME NEW B \in SUBSET Jobs, NEW S \in SUBSET B, SpawnOrphans(B, S)
       PROVE  Goal
  BY <1>11, <1>u DEF SpawnOrphans
<1> QED
  BY <1>1, <1>2, <1>4, <1>5, <1>6, <1>7, <1>8, <1>9, <1>10, <1>11 DEF Next, Operation

\* The inductive invariant: types, goroutines, and disjoint scopes.
LEMMA IInvCorrect == Spec => []IInv
<1>1. Init => NoConflict
  BY DEF Init, NoConflict, ActiveJobs, active
<1>2. TypeOK /\ WorkerInv /\ NoConflict /\ [Next]_vars => NoConflict'
  <2> SUFFICES ASSUME TypeOK, WorkerInv, NoConflict, [Next]_vars,
                      NEW j \in ActiveJobs', NEW k \in ActiveJobs', j # k
               PROVE  ~taskConflicts(Task[j], Task[k])
    BY DEF NoConflict
  <2>1. CASE j \in ActiveJobs /\ k \in ActiveJobs
    BY <2>1 DEF NoConflict
  <2>2. CASE j \notin ActiveJobs
    BY <2>2, ActiveChanges
  <2>3. CASE k \notin ActiveJobs
    BY <2>3, ActiveChanges, ConflictSymmetric
  <2> QED
    BY <2>1, <2>2, <2>3
<1> QED
  BY <1>1, <1>2, WorkerCorrect, PTL DEF Spec, IInv

-----------------------------------------------------------------------------
(* What the comparison of scopes is worth.                                 *)

\* Lower-casing keeps the number of components and each in its place.
LEMMA LowerLength ==
    ASSUME NEW p \in Path
    PROVE  Len(ToLower(p)) = Len(p) /\ \A i \in 1 .. Len(p) : ToLower(p)[i] = Lower[p[i]]
BY DEF ToLower, Path

\* A relative path is a path.
LEMMA RelIsPath ==
    ASSUME NEW p \in RelPath
    PROVE  p \in Path /\ \A i \in 1 .. Len(p) : p[i] # "/"
<1>1. Len(p) \in Nat /\ \A i \in 1 .. Len(p) : p[i] \in Names \ {"/"}
  BY DEF RelPath
<1>2. p = [i \in 1 .. Len(p) |-> p[i]]
  BY DEF RelPath
<1>3. p \in [1 .. Len(p) -> Names]
  BY <1>1, <1>2
<1> QED
  BY <1>1, <1>3 DEF Path

\* A path that starts at the root and has one component is the root.
LEMMA OnlyRoot ==
    ASSUME NEW p \in Seq(Names), Len(p) >= 1, p[1] = "/"
    PROVE  p = Root <=> Len(p) = 1
BY DEF Root

\* A lower-cased absolute path is the root only if the path is.
LEMMA LowerRoot ==
    ASSUME NEW p \in AbsPath
    PROVE  ToLower(p) = Root <=> p = Root
<1>1. /\ p \in Seq(Names) /\ p # <<>>
      /\ \A i \in 1 .. Len(p) : p[i] = "/" <=> i = 1
  BY DEF AbsPath, Path
<1>2. Len(ToLower(p)) = Len(p) /\ \A i \in 1 .. Len(p) : ToLower(p)[i] = Lower[p[i]]
  BY <1>1, LowerLength DEF Path
<1>3. ToLower(p) \in Seq(Names)
  BY <1>1, LowerAssumption DEF ToLower
<1>4. Lower["/"] = "/"
  BY LowerAssumption
<1>5. Len(p) >= 1 /\ p[1] = "/" /\ ToLower(p)[1] = "/"
  BY <1>1, <1>2, <1>4
<1>6. ToLower(p) = Root <=> Len(p) = 1
  BY <1>2, <1>3, <1>5, OnlyRoot
<1>7. p = Root <=> Len(p) = 1
  BY <1>1, <1>5, OnlyRoot
<1> QED
  BY <1>6, <1>7

\* Nothing but the root has the root below it.
LEMMA RootIsTop ==
    ASSUME NEW p \in AbsPath, NEW q \in AbsPath, p = Root,
           IsUnder(ToLower(p), ToLower(q))
    PROVE  q = Root
<1>1. /\ q \in Seq(Names) /\ q # <<>>
      /\ \A i \in 1 .. Len(q) : q[i] = "/" <=> i = 1
  BY DEF AbsPath, Path
<1>2. Len(ToLower(q)) = Len(q) /\ Len(ToLower(p)) = 1
  BY <1>1, LowerLength, LowerAssumption DEF Path, Root, ToLower
<1>3. Len(q) = 1 /\ q[1] = "/"
  BY <1>1, <1>2 DEF IsUnder
<1> QED
  BY <1>1, <1>3 DEF Root

\* The scopes of a task are absolute paths.
LEMMA ScopesAreAbsolute ==
    ASSUME NEW t, TaskType(t), NEW p \in AbsScopes(t)
    PROVE  p \in AbsPath
<1>1. PICK s \in t.write : p = t.ws \o s
  BY DEF AbsScopes
<1> DEFINE m == Len(t.ws)
<1>2. /\ t.ws \in Seq(Names) /\ t.ws # <<>>
      /\ \A i \in 1 .. m : t.ws[i] = "/" <=> i = 1
  BY DEF TaskType, AbsPath, Path
<1>3. s \in Seq(Names) /\ \A i \in 1 .. Len(s) : s[i] # "/"
  BY RelIsPath DEF TaskType, Path
<1>4. m \in Nat /\ m >= 1 /\ Len(s) \in Nat
  BY <1>2, <1>3
<1>5. /\ p \in Seq(Names) /\ Len(p) = m + Len(s)
      /\ \A i \in 1 .. m : p[i] = t.ws[i]
      /\ \A i \in 1 .. Len(s) : p[m + i] = s[i]
  BY <1>1, <1>2, <1>3
<1>6. ASSUME NEW i \in 1 .. Len(p)
      PROVE  p[i] = "/" <=> i = 1
  <2>1. CASE i =< m
    BY <2>1, <1>2, <1>4, <1>5
  <2>2. CASE i > m
    <3>1. i - m \in 1 .. Len(s) /\ i = m + (i - m) /\ i # 1
      BY <2>2, <1>4, <1>5
    <3>2. p[i] = s[i - m] /\ s[i - m] # "/"
      BY <3>1, <1>3, <1>5
    <3> QED
      BY <3>1, <3>2
  <2> QED
    BY <2>1, <2>2, <1>4, <1>5
<1>7. p # <<>>
  BY <1>4, <1>5
<1> QED
  BY <1>5, <1>6, <1>7 DEF AbsPath, Path

\* The comparison of Spawn and Continue finds exactly the pairs of tasks that
\* are not apart: it works on the spelling of the paths, and what it misses of
\* the files that two tasks share is the root of the file system on one side.
THEOREM ComparisonExact ==
    ASSUME NEW t, NEW u, TaskType(t), TaskType(u)
    PROVE  taskConflicts(t, u) <=> ~Apart(t, u)
<1>0. \A x \in AbsPath : ToLower(x) = Root <=> x = Root
  BY LowerRoot
<1>1. (\A p \in AbsScopes(t) : p \in AbsPath) /\ (\A q \in AbsScopes(u) : q \in AbsPath)
  BY ScopesAreAbsolute
<1>2. ASSUME NEW p \in AbsScopes(t), NEW q \in AbsScopes(u),
             Overlapping(p, q), p = Root <=> q = Root
      PROVE  taskConflicts(t, u)
  <2>1. CASE p = Root
    BY <2>1, <1>2 DEF taskConflicts, conflicts, owns
  <2>2. CASE p # Root
    <3>1. ToLower(p) # Root /\ ToLower(q) # Root
      BY <2>2, <1>0, <1>1, <1>2
    <3> QED
      BY <3>1, <1>2 DEF Overlapping, taskConflicts, conflicts, owns
  <2> QED
    BY <2>1, <2>2
<1>3. ASSUME NEW p \in AbsPath, NEW q \in AbsPath,
             \/ ToLower(p) = ToLower(q)
             \/ ToLower(q) # Root /\ IsUnder(ToLower(p), ToLower(q))
      PROVE  IsUnder(ToLower(p), ToLower(q)) /\ (p = Root <=> q = Root)
  <2>1. CASE ToLower(p) = ToLower(q)
    <3>1. Len(ToLower(q)) \in Nat
      BY LowerLength DEF AbsPath, Path
    <3> QED
      BY <2>1, <3>1, <1>0 DEF IsUnder
  <2>2. CASE ToLower(q) # Root /\ IsUnder(ToLower(p), ToLower(q))
    BY <2>2, <1>0, RootIsTop
  <2> QED
    BY <1>3, <2>1, <2>2
<1>4. ASSUME taskConflicts(t, u)
      PROVE  ~Apart(t, u)
  <2>1. PICK p \in AbsScopes(t), q \in AbsScopes(u) :
            \/ ToLower(p) = ToLower(q)
            \/ ToLower(q) # Root /\ IsUnder(ToLower(p), ToLower(q))
            \/ ToLower(p) # Root /\ IsUnder(ToLower(q), ToLower(p))
    BY <1>4 DEF taskConflicts, conflicts, owns
  <2>2. Overlapping(p, q) /\ (p = Root <=> q = Root)
    BY <2>1, <1>1, <1>3 DEF Overlapping
  <2> QED
    BY <2>2 DEF Apart
<1> QED
  BY <1>2, <1>4 DEF Apart

\* Reserved scopes never overlap, for any set of tasks and any interleaving of
\* Spawn, Handoff, Continue, StartPlan, cancellations, crashes and restarts,
\* except that the root may be reserved next to a path below it.
THEOREM ScopesCorrect == Spec => []DisjointScopes
<1>1. IInv => DisjointScopes
  BY ComparisonExact, JobsAssumption DEF IInv, NoConflict, DisjointScopes, ActiveJobs
<1> QED
  BY <1>1, IInvCorrect, PTL
-----------------------------------------------------------------------------
(* Edits.                                                                  *)

\* A path a tool reaches through a task's workspace lies, as an absolute path
\* and whatever its spelling, in an absolute scope of the task.
LEMMA ReachIsOwned ==
    ASSUME NEW t, TaskType(t), NEW x \in Path, MayWrite(t, x)
    PROVE  \E p \in AbsScopes(t) : p \in Path /\ IsUnder(ToLower(x), ToLower(p))
<1>1. PICK s \in t.write : \/ ToLower(Rel(x, t.ws)) = ToLower(s)
                           \/ IsUnder(ToLower(Rel(x, t.ws)), ToLower(s))
  BY DEF MayWrite, owns
<1> DEFINE p == t.ws \o s
           m == Len(t.ws)
           r == Rel(x, t.ws)
<1>2. t.ws \in Seq(Names) /\ s \in Seq(Names) /\ x \in Seq(Names) /\ m =< Len(x)
  <2>1. s \in Path
    BY RelIsPath DEF TaskType
  <2> QED
    BY <2>1 DEF TaskType, AbsPath, Path, MayWrite, IsUnder
<1>3. /\ r \in Seq(Names) /\ Len(r) = Len(x) - m
      /\ \A i \in 1 .. Len(r) : r[i] = x[m + i]
  BY <1>2 DEF Rel
<1>4. /\ p \in Seq(Names) /\ Len(p) = m + Len(s)
      /\ \A i \in 1 .. m : p[i] = t.ws[i]
      /\ \A i \in 1 .. Len(s) : p[m + i] = s[i]
  BY <1>2
<1>5. Len(s) =< Len(r) /\ \A i \in 1 .. Len(s) : Lower[r[i]] = Lower[s[i]]
  <2>1. Len(ToLower(s)) = Len(s) /\ Len(ToLower(r)) = Len(r)
    BY <1>2, <1>3, LowerLength DEF Path
  <2>2. Len(s) =< Len(r) /\ \A i \in 1 .. Len(s) : ToLower(r)[i] = ToLower(s)[i]
    <3>1. Len(s) \in Nat /\ Len(r) \in Nat
      BY <1>2, <1>3
    <3>2. CASE ToLower(r) = ToLower(s)
      BY <2>1, <3>1, <3>2
    <3>3. CASE IsUnder(ToLower(r), ToLower(s))
      BY <2>1, <3>3 DEF IsUnder
    <3> QED
      BY <1>1, <3>2, <3>3
  <2>3. ASSUME NEW i \in 1 .. Len(s)
        PROVE  Lower[r[i]] = Lower[s[i]]
    <3>1. i \in 1 .. Len(r)
      BY <1>2, <1>3, <2>2
    <3>2. ToLower(r)[i] = Lower[r[i]] /\ ToLower(s)[i] = Lower[s[i]]
      BY <1>2, <1>3, <3>1, LowerLength DEF Path
    <3> QED
      BY <2>2, <3>2
  <2> QED
    BY <2>2, <2>3
<1>6. Len(p) =< Len(x)
  BY <1>2, <1>3, <1>4, <1>5
<1>7. ASSUME NEW i \in 1 .. Len(p)
      PROVE  Lower[x[i]] = Lower[p[i]]
  <2>1. CASE i =< m
    <3>1. x[i] = t.ws[i]
      BY <1>2, <2>1 DEF MayWrite, IsUnder
    <3> QED
      BY <3>1, <2>1, <1>2, <1>4
  <2>2. CASE i > m
    <3>1. i - m \in 1 .. Len(s) /\ i - m \in 1 .. Len(r) /\ i = m + (i - m)
      BY <2>2, <1>2, <1>3, <1>4, <1>5
    <3>2. p[i] = s[i - m] /\ x[i] = r[i - m]
      BY <3>1, <1>3, <1>4
    <3> QED
      BY <3>1, <3>2, <1>5
  <2> QED
    BY <2>1, <2>2, <1>2, <1>4
<1>8. IsUnder(ToLower(x), ToLower(p))
  <2>1. Len(ToLower(x)) = Len(x) /\ Len(ToLower(p)) = Len(p)
    BY <1>2, <1>4, LowerLength DEF Path
  <2>2. ASSUME NEW i \in 1 .. Len(p)
        PROVE  ToLower(x)[i] = ToLower(p)[i]
    <3>1. i \in 1 .. Len(x)
      BY <1>2, <1>4, <1>6
    <3> QED
      BY <3>1, <1>2, <1>4, <1>7, LowerLength DEF Path
  <2> QED
    BY <2>1, <2>2, <1>6 DEF IsUnder
<1> QED
  BY <1>4, <1>8 DEF AbsScopes, Path

\* Tasks that reach one file share it, in scopes that overlap.
LEMMA ReachShares ==
    ASSUME NEW t, NEW u, TaskType(t), TaskType(u), NEW x \in Path, NEW y \in Path,
           MayWrite(t, x), MayWrite(u, y), SameFile(x, y)
    PROVE  SharedFile(t, u)
<1>1. PICK p \in AbsScopes(t) : p \in Path /\ IsUnder(ToLower(x), ToLower(p))
  BY ReachIsOwned
<1>2. PICK q \in AbsScopes(u) : q \in Path /\ IsUnder(ToLower(x), ToLower(q))
  BY ReachIsOwned DEF SameFile
<1>3. Len(ToLower(p)) \in Nat /\ Len(ToLower(q)) \in Nat
  BY <1>1, <1>2, LowerLength DEF Path
<1>4. Overlapping(p, q)
  BY <1>1, <1>2, <1>3 DEF IsUnder, Overlapping
<1> QED
  BY <1>4 DEF SharedFile

\* Tasks that are apart share a file only if one of them reserves the root.
LEMMA ApartShareRoot ==
    ASSUME NEW t, NEW u, Apart(t, u), SharedFile(t, u)
    PROVE  ~(ReservesRoot(t) <=> ReservesRoot(u))
<1>1. PICK p \in AbsScopes(t), q \in AbsScopes(u) : Overlapping(p, q)
  BY DEF SharedFile
<1>2. ~(p = Root <=> q = Root)
  BY <1>1 DEF Apart
<1>3. Overlapping(Root, Root)
  BY DEF Overlapping, IsUnder, ToLower, Root
<1>4. ~(Root \in AbsScopes(t) /\ Root \in AbsScopes(u))
  BY <1>3 DEF Apart
<1> QED
  BY <1>2, <1>4 DEF ReservesRoot

\* Only an edit changes a file, and its author is running.
LEMMA WriterChanges ==
    ASSUME TypeOK, WorkerInv, [Next]_vars, writer' # writer
    PROVE  \E w \in Workers, x \in Files :
              EditFile(w, x) /\ w[1] \in ActiveJobs /\ status[w[1]] = "running"
<1>1. PICK w \in Workers, x \in Files : EditFile(w, x)
  BY DEF Next, Operation, New, Stop, CloseManager, Crash, MemoryLost, Spawn,
         SpawnCrash, SpawnOrphans, StartPlan, Cancel, Continue, Persist, Timeout, Step,
         AcquireSlot, CancelledInQueue, Begin, Ask, Answered, BeginCall, EndCall,
         NextTurn, Complete, GiveUp, FailUnsaved, ReleaseSlot, Index, CloseDone, vars
<1>2. status[w[1]] = "running" /\ w[1] \in Jobs
  BY <1>1, WorkerParts DEF EditFile, WorkerInv, StatusOfWorker
<1> QED
  BY <1>1, <1>2 DEF ActiveJobs, active

\* A file is edited only by a running job, and never inside the scope of any
\* other active job, unless one of the two has reserved the root.
THEOREM EditsCorrect == Spec => ExclusiveEdits
<1> DEFINE Only(x, k) ==
             \/ k = writer'[x]
             \/ ~(ReservesRoot(Task[k]) <=> ReservesRoot(Task[writer'[x]]))
           A == \A x \in Files : writer'[x] # writer[x] =>
                  /\ writer'[x] \in Jobs /\ status[writer'[x]] = "running"
                  /\ \A k \in ActiveJobs, y \in Files :
                        SameFile(x, y) /\ MayWrite(Task[k], y) => Only(x, k)
<1>1. IInv /\ [Next]_vars => A
  <2> SUFFICES ASSUME IInv, [Next]_vars, NEW x \in Files, writer'[x] # writer[x]
               PROVE  /\ writer'[x] \in Jobs /\ status[writer'[x]] = "running"
                      /\ \A k \in ActiveJobs, y \in Files :
                            SameFile(x, y) /\ MayWrite(Task[k], y) => Only(x, k)
    OBVIOUS
  <2>1. PICK w \in Workers, f \in Files :
            EditFile(w, f) /\ w[1] \in ActiveJobs /\ status[w[1]] = "running"
    BY WriterChanges DEF IInv
  <2>2. x = f /\ writer'[x] = w[1] /\ MayWrite(Task[w[1]], x)
    BY <2>1 DEF EditFile, IInv, TypeOK
  <2>3. ASSUME NEW k \in ActiveJobs, NEW y \in Files,
               SameFile(x, y), MayWrite(Task[k], y)
        PROVE  k = w[1] \/ ~(ReservesRoot(Task[k]) <=> ReservesRoot(Task[w[1]]))
    <3>1. x \in Path /\ y \in Path /\ TaskType(Task[k]) /\ TaskType(Task[w[1]])
      BY <2>1, <2>3, JobsAssumption DEF ActiveJobs, AbsPath
    <3>2. SharedFile(Task[w[1]], Task[k])
      BY <2>2, <2>3, <3>1, ReachShares
    <3>3. w[1] # k => ~taskConflicts(Task[w[1]], Task[k])
      BY <2>1, <2>3 DEF IInv, NoConflict
    <3> QED
      BY <3>1, <3>2, <3>3, ComparisonExact, ApartShareRoot
  <2> QED
    BY <2>1, <2>2, <2>3 DEF ActiveJobs
<1>2. IInv /\ [Next]_vars => [A]_vars
  BY <1>1
<1> QED
  BY <1>2, IInvCorrect, PTL DEF Spec, ExclusiveEdits
-----------------------------------------------------------------------------
(* Refinement of ScopeReservation.                                         *)

\* No step both starts and stops jobs.
LEMMA ActiveGrowsOrShrinks ==
    ASSUME TypeOK, WorkerInv, [Next]_vars
    PROVE  ActiveJobs \subseteq ActiveJobs' \/ ActiveJobs' \subseteq ActiveJobs
<1>1. CASE New \/ CloseManager \/ Crash
           \/ (\E B \in SUBSET Jobs : \E S \in SUBSET B : SpawnCrash(B, S))
  <2>1. ActiveJobs' = {}
    BY <1>1 DEF New, CloseManager, Crash, SpawnCrash, MemoryLost, ActiveJobs, active
  <2> QED
    BY <2>1
<1>2. CASE UNCHANGED status
  BY <1>2 DEF ActiveJobs
<1>3. ASSUME NEW B \in SUBSET Jobs, NEW st, Enter(B, st), \A j \in B : ~active(status[j])
      PROVE  ActiveJobs \subseteq ActiveJobs'
  BY <1>3 DEF Enter, ActiveJobs
<1>4. CASE \/ (\E B \in SUBSET Jobs : Spawn(B))
           \/ (\E j \in Jobs : StartPlan(j) \/ Continue(j))
  <2>1. ASSUME NEW B \in SUBSET Jobs, Spawn(B)
        PROVE  ActiveJobs \subseteq ActiveJobs'
    BY <2>1, <1>3 DEF Spawn, Acceptable, active
  <2>2. ASSUME NEW j \in Jobs, StartPlan(j)
        PROVE  ActiveJobs \subseteq ActiveJobs'
    BY <2>2, <1>3 DEF StartPlan, Acceptable, active
  <2>3. ASSUME NEW j \in Jobs, Continue(j)
        PROVE  ActiveJobs \subseteq ActiveJobs'
    BY <2>3, <1>3 DEF Continue, MayContinue
  <2> QED
    BY <1>4, <2>1, <2>2, <2>3
<1>5. ASSUME NEW w \in Workers, NEW s, status' = [status EXCEPT ![w[1]] = s]
      PROVE  ActiveJobs \subseteq ActiveJobs' \/ ActiveJobs' \subseteq ActiveJobs
  <2>1. \A k \in Jobs : k # w[1] => status'[k] = status[k]
    BY <1>5 DEF TypeOK
  <2>2. CASE active(status'[w[1]])
    BY <2>1, <2>2 DEF ActiveJobs
  <2>3. CASE ~active(status'[w[1]])
    BY <2>1, <2>3 DEF ActiveJobs
  <2> QED
    BY <2>2, <2>3
<1>6. ASSUME NEW w \in Workers, Step(w)
      PROVE  UNCHANGED status \/ (\E s : status' = [status EXCEPT ![w[1]] = s])
  BY <1>6 DEF Step, AcquireSlot, CancelledInQueue, Begin, Ask, Answered, BeginCall,
              EndCall, NextTurn, Complete, GiveUp, FailUnsaved, ReleaseSlot, Index,
              CloseDone, EditFile, Fail
<1>7. CASE \E w \in Workers : Step(w)
  BY <1>2, <1>5, <1>6, <1>7
<1>8. CASE Stop \/ (\E j \in Jobs : Cancel(j) \/ Persist(j))
           \/ (\E B \in SUBSET Jobs : \E S \in SUBSET B : SpawnOrphans(B, S))
           \/ (\E w \in Workers : Timeout(w)) \/ UNCHANGED vars
  BY <1>8, <1>2 DEF Stop, Cancel, Persist, SpawnOrphans, Timeout, vars
<1> QED
  BY <1>1, <1>4, <1>7, <1>8 DEF Next, Operation

\* The job manager implements scope reservation, with the exception that the
\* abstract specification makes.
THEOREM RefinesReservation == Spec => ImplementsReservation
<1>0. /\ \A j, k \in Jobs : Reservation!Apart(Task[j], Task[k])
                              <=> Apart(Task[j], Task[k])
      /\ \A j \in Jobs, x \in Files : Reservation!MayWrite(Task[j], x)
                                      <=> MayWrite(Task[j], x)
  BY DEF Reservation!Apart, Reservation!Overlapping, Reservation!AbsScopes,
         Reservation!MayWrite, Reservation!Rel, Reservation!owns, Reservation!ToLower,
         Reservation!IsUnder, Reservation!Root, Apart, Overlapping, AbsScopes, MayWrite,
         Rel, owns, ToLower, IsUnder, Root
<1>1. Init => Reservation!ResInit
  BY DEF Init, Reservation!ResInit, ActiveJobs, active
<1>2. IInv /\ IInv' /\ [Next]_vars => [Reservation!ResNext]_(Reservation!rvars)
  <2> SUFFICES ASSUME IInv, IInv', [Next]_vars
               PROVE  [Reservation!ResNext]_(Reservation!rvars)
    OBVIOUS
  <2>1. CASE writer' # writer
    <3>1. PICK w \in Workers, x \in Files : EditFile(w, x) /\ w[1] \in ActiveJobs
      BY <2>1, WriterChanges DEF IInv
    <3>2. Reservation!Edit(w[1], x)
      BY <1>0, <3>1 DEF EditFile, Reservation!Edit, ActiveJobs
    <3> QED
      BY <3>1, <3>2, WorkerParts DEF Reservation!ResNext
  <2>2. CASE writer' = writer /\ ActiveJobs \subseteq ActiveJobs'
    <3>1. \A j \in ActiveJobs', k \in ActiveJobs \cup ActiveJobs' :
              j # k => Reservation!Apart(Task[j], Task[k])
      BY <1>0, <2>2, ComparisonExact, JobsAssumption DEF IInv, NoConflict, ActiveJobs
    <3>3. Reservation!Reserve(ActiveJobs')
      BY <2>2, <3>1 DEF Reservation!Reserve
    <3>2. ActiveJobs' \in SUBSET Jobs
      BY DEF ActiveJobs
    <3> QED
      BY <3>2, <3>3 DEF Reservation!ResNext
  <2>3. CASE writer' = writer /\ ActiveJobs' \subseteq ActiveJobs
    <3>1. Reservation!Release(ActiveJobs \ ActiveJobs')
      BY <2>3 DEF Reservation!Release
    <3>2. ActiveJobs \ ActiveJobs' \in SUBSET Jobs
      BY DEF ActiveJobs
    <3> QED
      BY <3>1, <3>2 DEF Reservation!ResNext
  <2> QED
    BY <2>1, <2>2, <2>3, ActiveGrowsOrShrinks DEF IInv
<1> QED
  BY <1>1, <1>2, IInvCorrect, PTL DEF Spec, ImplementsReservation, Reservation!ResSpec
-----------------------------------------------------------------------------
(* The semaphore.                                                          *)

SlotHolders == {w \in Workers : pc[w] \in Holding}

\* There are finitely many goroutines,
LEMMA WorkersFinite == IsFiniteSet(Workers)
<1>1. IsFiniteSet(0 .. MaxRuns)
  BY FS_Interval, LimitsAssumption
<1> QED
  BY <1>1, FS_Product, JobsAssumption DEF Workers

\* and so finitely many that hold a slot.
LEMMA HoldersFinite == IsFiniteSet(SlotHolders)
BY WorkersFinite, FS_Subset DEF SlotHolders

\* A goroutine that moves without touching the semaphore stays on its side.
LEMMA HoldersStay ==
    ASSUME TypeOK, SlotsAccounted, NEW w \in Workers, NEW l,
           pc' = [pc EXCEPT ![w] = l], sem' = sem,
           pc[w] \in Holding <=> l \in Holding
    PROVE  SlotsAccounted'
<1>1. SlotHolders' = SlotHolders
  BY DEF SlotHolders, TypeOK
<1> QED
  BY <1>1 DEF SlotsAccounted, SlotHolders

\* Every step of a goroutine keeps the tokens and their holders equal.
LEMMA StepSlots ==
    ASSUME TypeOK, SlotsAccounted, NEW w \in Workers, Step(w)
    PROVE  SlotsAccounted'
<1>1. CASE AcquireSlot(w)
  <2>1. w \notin SlotHolders /\ SlotHolders' = SlotHolders \cup {w}
    BY <1>1 DEF AcquireSlot, Goto, SlotHolders, Holding, TypeOK
  <2>2. Cardinality(SlotHolders') = Cardinality(SlotHolders) + 1
    BY <2>1, HoldersFinite, FS_AddElement
  <2> QED
    BY <1>1, <2>2, LimitsAssumption DEF AcquireSlot, SlotsAccounted, SlotHolders, TypeOK
<1>2. CASE ReleaseSlot(w)
  <2>1. w \in SlotHolders /\ SlotHolders' = SlotHolders \ {w}
    BY <1>2 DEF ReleaseSlot, Goto, SlotHolders, Holding, TypeOK
  <2>2. Cardinality(SlotHolders') = Cardinality(SlotHolders) - 1
    BY <2>1, HoldersFinite, FS_RemoveElement
  <2> QED
    BY <1>2, <2>2, LimitsAssumption DEF ReleaseSlot, SlotsAccounted, SlotHolders, TypeOK
<1>3. CASE Complete(w)
  <2>1. PICK l \in {"release", "failing"} : Goto(w, l)
    BY <1>3 DEF Complete
  <2> QED
    BY <1>3, <2>1, HoldersStay DEF Complete, Goto, Holding
<1>4. CASE \/ CancelledInQueue(w) \/ Begin(w) \/ Ask(w) \/ Answered(w)
           \/ BeginCall(w) \/ EndCall(w) \/ NextTurn(w) \/ FailUnsaved(w)
           \/ Index(w) \/ CloseDone(w)
           \/ (\E x \in Files : EditFile(w, x)) \/ (\E s \in FailStatus : GiveUp(w, s))
  BY <1>4, HoldersStay
     DEF CancelledInQueue, Begin, Ask, Answered, BeginCall, EndCall, NextTurn,
         FailUnsaved, Index, CloseDone, EditFile, GiveUp, Goto, Holding
<1> QED
  BY <1>1, <1>2, <1>3, <1>4 DEF Step

\* Tokens of the semaphore and goroutines that hold one always agree, so a slot
\* is never lost and the concurrency limit holds.
THEOREM SlotsCorrect == Spec => []SlotsAccounted
<1>e. Cardinality({}) = 0
  BY FS_EmptySet
<1>m. ASSUME \A w \in Workers : pc[w] = "none", sem = 0
      PROVE  SlotsAccounted
  <2>1. SlotHolders = {}
    BY <1>m DEF SlotHolders, Holding
  <2> QED
    BY <1>m, <1>e, <2>1, LimitsAssumption DEF SlotsAccounted, SlotHolders
<1>1. Init => SlotsAccounted
  BY <1>m DEF Init
<1>2. TypeOK /\ WorkerInv /\ SlotsAccounted /\ [Next]_vars => SlotsAccounted'
  <2> SUFFICES ASSUME TypeOK, WorkerInv, SlotsAccounted, [Next]_vars
               PROVE  SlotsAccounted'
    OBVIOUS
  <2>l. ASSUME MemoryLost
        PROVE  SlotsAccounted'
    <3>1. SlotHolders' = {} /\ sem' = 0
      BY <2>l DEF MemoryLost, SlotHolders, Holding
    <3> QED
      BY <3>1, <1>e, LimitsAssumption DEF SlotsAccounted, SlotHolders
  <2>u. ASSUME UNCHANGED <<pc, sem>>
        PROVE  SlotsAccounted'
    BY <2>u DEF SlotsAccounted
  <2>s. ASSUME NEW B \in SUBSET Jobs, Start(B), sem' = sem
        PROVE  SlotsAccounted'
    <3>1. ASSUME NEW w \in Workers, w[2] = run[w[1]] + 1
          PROVE  pc[w] = "none"
      <4>1. w # Cur(w[1])
        BY <3>1, WorkerParts DEF Cur, TypeOK
      <4> QED
        BY <4>1 DEF WorkerInv, OneGoroutine, Alive
    <3>2. SlotHolders' = SlotHolders
      BY <2>s, <3>1 DEF Start, SlotHolders, Holding
    <3> QED
      BY <2>s, <3>2 DEF SlotsAccounted, SlotHolders
  <2>1. CASE CloseManager \/ Crash
             \/ (\E B \in SUBSET Jobs : \E S \in SUBSET B : SpawnCrash(B, S))
    BY <2>1, <2>l DEF CloseManager, Crash, SpawnCrash
  <2>2. CASE New \/ Stop \/ (\E j \in Jobs : Cancel(j) \/ Persist(j))
             \/ (\E B \in SUBSET Jobs : \E S \in SUBSET B : SpawnOrphans(B, S))
             \/ (\E w \in Workers : Timeout(w)) \/ UNCHANGED vars
    BY <2>2, <2>u DEF New, Stop, Cancel, Persist, SpawnOrphans, Timeout, vars
  <2>3. CASE \/ (\E B \in SUBSET Jobs : Spawn(B))
             \/ (\E j \in Jobs : StartPlan(j) \/ Continue(j))
    BY <2>3, <2>s DEF Spawn, StartPlan, Continue, Enter
  <2>4. CASE \E w \in Workers : Step(w)
    BY <2>4, StepSlots
  <2> QED
    BY <2>1, <2>2, <2>3, <2>4 DEF Next, Operation
<1> QED
  BY <1>1, <1>2, WorkerCorrect, PTL DEF Spec
=============================================================================
