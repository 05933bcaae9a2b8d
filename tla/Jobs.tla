-------------------------------- MODULE Jobs --------------------------------
(***************************************************************************)
(* The life of jobs in the worker manager (internal/worker/manager.go) and *)
(* of the goroutine that runs each of them (internal/worker/runner.go):    *)
(* acceptance with write-scope reservation, the queue for the concurrency  *)
(* semaphore, the run, cancellation, the order in which a finished run     *)
(* releases what it holds, continuation, the job file on disk, shutdown,   *)
(* crash and restart.                                                      *)
(*                                                                         *)
(* Everything the code does under the mutex m.mu in one critical section   *)
(* is one action; tool calls, requests and waits, which run outside it,    *)
(* are split into a begin and an end.  A save of the job file may fail.    *)
(***************************************************************************)
EXTENDS Scopes, FiniteSets

CONSTANTS
    Jobs,           \* the identifiers newID may draw
    Task,           \* the task each of them would be drawn for
    Files,          \* absolute paths of workspace files
    NoJob,          \* no job
    Concurrency,    \* cfg.Concurrency, the capacity of m.sem
    MaxActive,      \* the queue limit (300)
    MaxBatch,       \* the batch limit (30)
    MaxRuns,        \* bound: starts of one job
    MaxRestarts     \* bound: starts of the process

ASSUME JobsAssumption ==
    /\ IsFiniteSet(Jobs)
    /\ NoJob \notin Jobs
    /\ \A j \in Jobs : TaskType(Task[j])
    \* StartPlan clears the planner's write paths.
    /\ \A j \in Jobs : Task[j].kind = "plan" => Task[j].write = {}
    /\ Files \in SUBSET AbsPath

ASSUME LimitsAssumption ==
    /\ Concurrency \in Nat \ {0}
    /\ MaxActive \in Nat
    /\ MaxBatch \in Nat
    /\ MaxRuns \in Nat
    /\ MaxRestarts \in Nat

VARIABLES
    up,         \* the process runs and owns the state lock
    stopping,   \* m.ctx is cancelled
    restarts,   \* starts of the process so far
    status,     \* Job.Status in memory; "none" if m.jobs has no such job
    plan,       \* Job.PlanSpec # nil in memory
    run,        \* how often start was called for the job
    pc,         \* where each goroutine is; one for every start of a job
    ctxDone,    \* the goroutines whose context is cancelled or timed out
    closed,     \* the goroutines whose done channel is closed
    sem,        \* tokens in m.sem
    diskStatus, \* status in the job file; "none" if there is no file
    diskPlan,   \* plan_spec in the job file
    writer      \* the job that last edited each file

vars == <<up, stopping, restarts, status, plan, run, pc, ctxDone, closed, sem,
          diskStatus, diskPlan, writer>>

Terminal == {"completed", "failed", "cancelled", "limit_reached",
             "needs_attention", "interrupted"}
FailStatus == {"failed", "cancelled", "limit_reached", "needs_attention"}
Status == {"none", "queued", "running"} \cup Terminal

active(s) == s \in {"queued", "running"}

\* A goroutine is the r-th start of job j.
Workers == Jobs \X (0 .. MaxRuns)

\* none      no such goroutine, or it has returned
\* queue     the select on m.sem and the context
\* begin     it holds a slot and is about to mark the job running
\* top       head of the loop
\* ask       a request to the model is in flight
\* reply     an answer is being processed
\* call      a tool call is in flight
\* failing   a result was set but not saved; fail is about to be called
\* release   the deferred release of the slot
\* index     the deferred indexing of the job
\* close     the deferred closing of the done channel
PC == {"none", "queue", "begin", "top", "ask", "reply", "call", "failing",
       "release", "index", "close"}

\* Where a goroutine holds a slot of m.sem.
Holding == {"begin", "top", "ask", "reply", "call", "failing", "release"}

Cur(j) == <<j, run[j]>>

ActiveJobs == {j \in Jobs : active(status[j])}
Alive == {w \in Workers : pc[w] # "none"}

\* Mutant of Blocked: scopes are compared within one workspace only.
BlockedInWorkspace(j) ==
    \E k \in ActiveJobs :
        Task[k].ws = Task[j].ws /\ conflicts(Task[j].write, Task[k].write)

\* Overlap with another active job.
Blocked(j) ==
    \E k \in ActiveJobs : taskConflicts(Task[j], Task[k])
-----------------------------------------------------------------------------
Init ==
    /\ up = FALSE /\ stopping = FALSE /\ restarts = 0
    /\ status = [j \in Jobs |-> "none"]
    /\ plan = [j \in Jobs |-> FALSE]
    /\ run = [j \in Jobs |-> 0]
    /\ pc = [w \in Workers |-> "none"]
    /\ ctxDone = {} /\ closed = {} /\ sem = 0
    /\ diskStatus = [j \in Jobs |-> "none"]
    /\ diskPlan = [j \in Jobs |-> FALSE]
    /\ writer = [x \in Files |-> NoJob]

\* save(j) with status s and plan p: the file is replaced by a rename, or
\* it stays what it was.
Saved(j, s, p) ==
    /\ diskStatus' = [diskStatus EXCEPT ![j] = s]
    /\ diskPlan' = [diskPlan EXCEPT ![j] = p]
NotSaved == UNCHANGED <<diskStatus, diskPlan>>
SaveOrNot(j, s, p) == Saved(j, s, p) \/ NotSaved

\* What the process keeps in memory is gone.
MemoryLost ==
    /\ up' = FALSE /\ stopping' = FALSE
    /\ status' = [j \in Jobs |-> "none"]
    /\ plan' = [j \in Jobs |-> FALSE]
    /\ pc' = [w \in Workers |-> "none"]
    /\ ctxDone' = {} /\ closed' = {} /\ sem' = 0
    /\ UNCHANGED <<restarts, run, writer>>

\* start(j) for every j of B: a context, a done channel, a goroutine.
Start(B) ==
    /\ run' = [j \in Jobs |-> IF j \in B THEN run[j] + 1 ELSE run[j]]
    /\ pc' = [w \in Workers |->
                IF w[1] \in B /\ w[2] = run[w[1]] + 1 THEN "queue" ELSE pc[w]]
-----------------------------------------------------------------------------
(* The process.                                                            *)

\* Mutant of New: the done channels of loaded jobs stay open.
NewOpenDone ==
    /\ ~up /\ restarts < MaxRestarts
    /\ up' = TRUE /\ restarts' = restarts + 1
    /\ status' = [j \in Jobs |-> IF active(diskStatus[j]) THEN "interrupted"
                                 ELSE diskStatus[j]]
    /\ plan' = diskPlan
    /\ UNCHANGED <<stopping, run, pc, ctxDone, closed, sem, diskStatus, diskPlan,
                   writer>>

\* Mutant of New: PlanSpec is not read back.
NewWithoutPlan ==
    /\ ~up /\ restarts < MaxRestarts
    /\ up' = TRUE /\ restarts' = restarts + 1
    /\ status' = [j \in Jobs |-> IF active(diskStatus[j]) THEN "interrupted"
                                 ELSE diskStatus[j]]
    /\ closed' = {w \in Workers : diskStatus[w[1]] # "none" /\ w = Cur(w[1])}
    /\ UNCHANGED <<stopping, run, plan, pc, ctxDone, sem, diskStatus, diskPlan,
                   writer>>

\* New: every job file is loaded; a job that was active is interrupted.
New ==
    /\ ~up /\ restarts < MaxRestarts
    /\ up' = TRUE /\ restarts' = restarts + 1
    /\ status' = [j \in Jobs |-> IF active(diskStatus[j]) THEN "interrupted"
                                 ELSE diskStatus[j]]
    /\ plan' = diskPlan
    /\ closed' = {w \in Workers : diskStatus[w[1]] # "none" /\ w = Cur(w[1])}
    /\ UNCHANGED <<stopping, run, pc, ctxDone, sem, diskStatus, diskPlan, writer>>

\* Mutant of Stop: jobs do not inherit the manager's context.
StopNewJobsOnly ==
    /\ up /\ ~stopping
    /\ stopping' = TRUE
    /\ UNCHANGED <<up, restarts, status, plan, run, pc, ctxDone, closed, sem,
                   diskStatus, diskPlan, writer>>

\* A signal, or the first step of Close: m.ctx and so every job's context.
Stop ==
    /\ up /\ ~stopping
    /\ stopping' = TRUE
    /\ ctxDone' = ctxDone \cup Alive
    /\ UNCHANGED <<up, restarts, status, plan, run, pc, closed, sem,
                   diskStatus, diskPlan, writer>>

\* The rest of Close: wg.Wait, then the lock is released.
CloseManager ==
    /\ up /\ stopping /\ Alive = {}
    /\ MemoryLost /\ NotSaved

Crash == up /\ MemoryLost /\ NotSaved
-----------------------------------------------------------------------------
(* The operations of the manager.                                          *)

\* What spawnLocked asks of the batch B, whatever its tasks are for.
Acceptable(B) ==
    /\ up /\ ~stopping
    /\ B # {} /\ Cardinality(B) =< MaxBatch
    /\ Cardinality(ActiveJobs) + Cardinality(B) =< MaxActive
    /\ \A j \in B :
          /\ ValidTask(Task[j]) /\ ~Blocked(j)
          /\ \A k \in B : j # k => ~taskConflicts(Task[j], Task[k])
    \* identifiers are fresh
    /\ \A j \in B : status[j] = "none" /\ diskStatus[j] = "none"
    /\ \A j \in B : run[j] < MaxRuns

\* The jobs of the batch enter m.jobs with status st, and each is started.
Enter(B, st) ==
    /\ status' = [j \in Jobs |-> IF j \in B THEN st ELSE status[j]]
    /\ Start(B)

\* Spawn, Handoff and the phases of a workflow.  When a save fails the files
\* already written are removed and nothing changes.
Spawn(B) ==
    /\ Acceptable(B)
    /\ \A j \in B : Task[j].kind # "plan"
    /\ Enter(B, "queued")
    /\ diskStatus' = [j \in Jobs |-> IF j \in B THEN "queued" ELSE diskStatus[j]]
    /\ UNCHANGED <<up, stopping, restarts, plan, ctxDone, closed, sem,
                   diskPlan, writer>>

\* The process dies in spawnLocked, with the files of S written.
SpawnCrash(B, S) ==
    /\ Acceptable(B) /\ S # {}
    /\ MemoryLost
    /\ diskStatus' = [j \in Jobs |-> IF j \in S THEN "queued" ELSE diskStatus[j]]
    /\ UNCHANGED diskPlan

\* spawnLocked refuses the batch when the files of S are already written and
\* does not take them back: a context packet can no longer be read, or a file
\* cannot be removed.
SpawnOrphans(B, S) ==
    /\ Acceptable(B) /\ S # {} /\ S # B
    /\ diskStatus' = [j \in Jobs |-> IF j \in S THEN "queued" ELSE diskStatus[j]]
    /\ UNCHANGED <<up, stopping, restarts, status, plan, run, pc, ctxDone,
                   closed, sem, diskPlan, writer>>

\* StartPlan: spawnLocked saves the planner, then PlanSpec is set and saved
\* again.  If that save fails the planner is cancelled and marked so, while
\* its goroutine has already been started.
StartPlan(j) ==
    /\ Acceptable({j})
    /\ Task[j].kind = "plan"
    /\ plan' = [plan EXCEPT ![j] = TRUE]
    /\ diskStatus' = [diskStatus EXCEPT ![j] = "queued"]
    /\ \/ /\ Enter({j}, "queued")
          /\ diskPlan' = [diskPlan EXCEPT ![j] = TRUE]
          /\ UNCHANGED ctxDone
       \/ /\ Enter({j}, "cancelled")
          /\ ctxDone' = ctxDone \cup {<<j, run[j] + 1>>}
          /\ UNCHANGED diskPlan
    /\ UNCHANGED <<up, stopping, restarts, closed, sem, writer>>

\* Mutant of Cancel: the job counts as cancelled at once.
CancelAtOnce(j) ==
    /\ up /\ active(status[j])
    /\ ctxDone' = ctxDone \cup {Cur(j)}
    /\ status' = [status EXCEPT ![j] = "cancelled"]
    /\ UNCHANGED <<up, stopping, restarts, plan, run, pc, closed, sem,
                   diskStatus, diskPlan, writer>>

Cancel(j) ==
    /\ up /\ active(status[j])
    /\ ctxDone' = ctxDone \cup {Cur(j)}
    /\ UNCHANGED <<up, stopping, restarts, status, plan, run, pc, closed, sem,
                   diskStatus, diskPlan, writer>>

\* Mutants of MayContinue: the scopes are not acquired again; a run that is
\* winding down is continued; any job that is over is continued.
ContinueUnreserved(j) ==
    /\ up /\ ~stopping
    /\ status[j] = "completed" /\ Cur(j) \in closed
    /\ ~plan[j] /\ Task[j].kind # "phase"

ContinueFinishing(j) ==
    /\ up /\ ~stopping
    /\ status[j] = "completed"
    /\ ~plan[j] /\ Task[j].kind # "phase" /\ ~Blocked(j)

ContinueAny(j) ==
    /\ up /\ ~stopping
    /\ status[j] # "none" /\ ~active(status[j]) /\ Cur(j) \in closed
    /\ ~plan[j] /\ Task[j].kind # "phase" /\ ~Blocked(j)

\* What Continue asks of the job; the model never changes here.
MayContinue(j) ==
    /\ up /\ ~stopping
    /\ status[j] # "none" /\ ~active(status[j])
    /\ Cur(j) \in closed
    /\ ~plan[j] /\ Task[j].kind # "phase"
    /\ status[j] = "completed"
    /\ ~Blocked(j)

\* When the save fails the job is put back as it was.
Continue(j) ==
    /\ MayContinue(j)
    /\ run[j] < MaxRuns
    /\ Enter({j}, "queued")
    /\ Saved(j, "queued", plan[j])
    /\ UNCHANGED <<up, stopping, restarts, plan, ctxDone, closed, sem, writer>>

\* Send, Publish and checkpoint save the job they touch.
Persist(j) ==
    /\ up /\ status[j] # "none"
    /\ Saved(j, status[j], plan[j])
    /\ UNCHANGED <<up, stopping, restarts, status, plan, run, pc, ctxDone,
                   closed, sem, writer>>
-----------------------------------------------------------------------------
(* The goroutine w = <<j, r>> of a job: run in runner.go.                  *)

Goto(w, l) == pc' = [pc EXCEPT ![w] = l]

Silent == UNCHANGED <<up, stopping, restarts, run, plan, ctxDone>>

\* fail(s): status, error and partial result, then a save that may fail.
Fail(w, s) ==
    /\ status' = [status EXCEPT ![w[1]] = s]
    /\ SaveOrNot(w[1], s, plan[w[1]])

AcquireSlot(w) ==
    /\ pc[w] = "queue" /\ sem < Concurrency
    /\ sem' = sem + 1
    /\ Goto(w, "begin")
    /\ Silent /\ NotSaved /\ UNCHANGED <<status, closed, writer>>

\* Mutants of CancelledInQueue: a status no reader knows; the queue waits for
\* a slot only.
CancelledMisspelt(w) ==
    /\ pc[w] = "queue" /\ w \in ctxDone
    /\ Fail(w, "canceled")
    /\ Goto(w, "index")
    /\ Silent /\ UNCHANGED <<closed, sem, writer>>

NeverCancelledInQueue(w) == FALSE /\ UNCHANGED vars

\* Ready together with a free slot, either branch of the select may be taken.
CancelledInQueue(w) ==
    /\ pc[w] = "queue" /\ w \in ctxDone
    /\ Fail(w, "cancelled")
    /\ Goto(w, "index")
    /\ Silent /\ UNCHANGED <<closed, sem, writer>>

Begin(w) ==
    /\ pc[w] = "begin"
    /\ status' = [status EXCEPT ![w[1]] = "running"]
    /\ Goto(w, "top")
    /\ Silent /\ NotSaved /\ UNCHANGED <<closed, sem, writer>>

\* The run's timeout, counted from the moment it holds a slot.
Timeout(w) ==
    /\ pc[w] \in {"begin", "top", "ask", "reply", "call"} /\ w \notin ctxDone
    /\ ctxDone' = ctxDone \cup {w}
    /\ UNCHANGED <<up, stopping, restarts, status, plan, run, pc, closed, sem,
                   diskStatus, diskPlan, writer>>

\* Head of the loop: the context is live, the job is saved, a request starts.
Ask(w) ==
    /\ pc[w] = "top" /\ w \notin ctxDone
    /\ Saved(w[1], status[w[1]], plan[w[1]])
    /\ Goto(w, "ask")
    /\ Silent /\ UNCHANGED <<status, closed, sem, writer>>

Answered(w) ==
    /\ pc[w] = "ask" /\ w \notin ctxDone
    /\ Goto(w, "reply")
    /\ Silent /\ NotSaved /\ UNCHANGED <<status, closed, sem, writer>>

BeginCall(w) ==
    /\ pc[w] = "reply" /\ w \notin ctxDone
    /\ Goto(w, "call")
    /\ Silent /\ NotSaved /\ UNCHANGED <<status, closed, sem, writer>>

\* A tool call that edits the file x.
EditFile(w, x) ==
    /\ pc[w] = "call"
    /\ MayWrite(Task[w[1]], x)
    /\ writer' = [writer EXCEPT ![x] = w[1]]
    /\ Goto(w, "reply")
    /\ Silent /\ NotSaved /\ UNCHANGED <<status, closed, sem>>

\* Any other tool call, and one that fails.
EndCall(w) ==
    /\ pc[w] = "call"
    /\ Goto(w, "reply")
    /\ Silent /\ NotSaved /\ UNCHANGED <<status, closed, sem, writer>>

\* End of a turn that does not end the run; after a compaction or a truncated
\* answer the loop also starts again.
NextTurn(w) ==
    /\ pc[w] \in {"ask", "reply"}
    /\ Saved(w[1], status[w[1]], plan[w[1]]) \/ (pc[w] = "reply" /\ NotSaved)
    /\ Goto(w, "top")
    /\ Silent /\ UNCHANGED <<status, closed, sem, writer>>

\* Mutant of Complete: the error of the save is ignored.
CompleteUnsaved(w) ==
    /\ pc[w] \in {"ask", "reply"}
    /\ status' = [status EXCEPT ![w[1]] = "completed"]
    /\ SaveOrNot(w[1], "completed", plan[w[1]]) /\ Goto(w, "release")
    /\ Silent /\ UNCHANGED <<closed, sem, writer>>

\* The final answer or a complete checkpoint.  It is set and saved in one
\* critical section; if the save fails, fail follows in another.
Complete(w) ==
    /\ pc[w] \in {"ask", "reply"}
    /\ status' = [status EXCEPT ![w[1]] = "completed"]
    /\ \/ Saved(w[1], "completed", plan[w[1]]) /\ Goto(w, "release")
       \/ NotSaved /\ Goto(w, "failing")
    /\ Silent /\ UNCHANGED <<closed, sem, writer>>

\* Mutant of GiveUp: the slot is released by the successful path only.
GiveUpWithSlot(w, s) ==
    /\ pc[w] \in {"top", "ask", "reply"}
    /\ s = "cancelled" => w \in ctxDone
    /\ Fail(w, s)
    /\ Goto(w, "index")
    /\ Silent /\ UNCHANGED <<closed, sem, writer>>

\* Every other end of the run: an error of the model or of a save, a limit,
\* a stalled implementation, and the context found done.
GiveUp(w, s) ==
    /\ pc[w] \in {"top", "ask", "reply"}
    /\ s = "cancelled" => w \in ctxDone
    /\ s = "needs_attention" => Task[w[1]].intent = "implementation"
    /\ Fail(w, s)
    /\ Goto(w, "release")
    /\ Silent /\ UNCHANGED <<closed, sem, writer>>

FailUnsaved(w) ==
    /\ pc[w] = "failing"
    /\ Fail(w, "failed")
    /\ Goto(w, "release")
    /\ Silent /\ UNCHANGED <<closed, sem, writer>>

\* A receive from m.sem: it would block on an empty channel.
ReleaseSlot(w) ==
    /\ pc[w] = "release" /\ sem > 0
    /\ sem' = sem - 1
    /\ Goto(w, "index")
    /\ Silent /\ NotSaved /\ UNCHANGED <<status, closed, writer>>

\* indexJob; when it fails MemoryError is set and the job saved again.
Index(w) ==
    /\ pc[w] = "index"
    /\ SaveOrNot(w[1], status[w[1]], plan[w[1]])
    /\ Goto(w, "close")
    /\ Silent /\ UNCHANGED <<status, closed, sem, writer>>

\* The deferred closure works on the job's current cancel and done fields.
CloseDone(w) ==
    /\ pc[w] = "close"
    /\ ctxDone' = ctxDone \cup {Cur(w[1])}
    /\ closed' = closed \cup {Cur(w[1])}
    /\ Goto(w, "none")
    /\ NotSaved
    /\ UNCHANGED <<up, stopping, restarts, status, plan, run, sem, writer>>

Step(w) ==
    \/ AcquireSlot(w) \/ CancelledInQueue(w) \/ Begin(w) \/ Ask(w)
    \/ Answered(w) \/ BeginCall(w) \/ EndCall(w) \/ NextTurn(w) \/ Complete(w)
    \/ (\E x \in Files : EditFile(w, x))
    \/ (\E s \in FailStatus : GiveUp(w, s))
    \/ FailUnsaved(w) \/ ReleaseSlot(w) \/ Index(w) \/ CloseDone(w)
-----------------------------------------------------------------------------
Operation ==
    \/ \E B \in SUBSET Jobs : Spawn(B)
    \/ \E B \in SUBSET Jobs : \E S \in SUBSET B :
          SpawnCrash(B, S) \/ SpawnOrphans(B, S)
    \/ \E j \in Jobs : StartPlan(j) \/ Cancel(j) \/ Continue(j) \/ Persist(j)

Next ==
    \/ New \/ Stop \/ CloseManager \/ Crash
    \/ Operation
    \/ \E w \in Workers : Step(w) \/ Timeout(w)

Spec == Init /\ [][Next]_vars

\* The scheduler runs every goroutine, a contended mutex is granted in the
\* end, a request or a tool call returns (once the context is done at the
\* latest), and the daemon calls Close when it stops serving.
StepFairness ==
    /\ \A w \in Workers : WF_vars(Step(w))
    /\ WF_vars(CloseManager)

\* Senders blocked on a channel are served in turn, and timers fire.
QueueFairness ==
    \A w \in Workers : SF_vars(AcquireSlot(w)) /\ WF_vars(Timeout(w))

FairSpec == Spec /\ StepFairness
-----------------------------------------------------------------------------
(* Invariants.                                                             *)

TypeOK ==
    /\ up \in BOOLEAN /\ stopping \in BOOLEAN
    /\ restarts \in Nat
    /\ status \in [Jobs -> Status]
    /\ plan \in [Jobs -> BOOLEAN]
    /\ run \in [Jobs -> 0 .. MaxRuns]
    /\ pc \in [Workers -> PC]
    /\ ctxDone \in SUBSET Workers
    /\ closed \in SUBSET Workers
    /\ sem \in Nat
    /\ diskStatus \in [Jobs -> Status]
    /\ diskPlan \in [Jobs -> BOOLEAN]
    /\ writer \in [Files -> Jobs \cup {NoJob}]

\* No two active jobs have overlapping write scopes, whichever of Spawn,
\* Handoff, Continue and the workflows made them active, and however their
\* workspaces nest or their paths are spelled.  The comparison overlooks one
\* pair of scopes: the file system's root and a path below it.
DisjointScopes ==
    \A j, k \in ActiveJobs : j # k => Apart(Task[j], Task[k])


\* A job has at most one goroutine, the one its cancel and done fields belong
\* to: a run that is winding down can neither cancel its successor nor close
\* a channel twice (which would panic and take the service down).
OneGoroutine == \A w \in Alive : w = Cur(w[1]) /\ w \notin closed

\* Done is closed exactly for the jobs that are known and have stopped: a
\* waiter is neither woken while the job can still change nor left behind.
DoneMeansStopped ==
    \A j \in Jobs :
        /\ Cur(j) \in closed => status[j] \in Terminal
        /\ status[j] # "none" /\ Cur(j) \notin Alive => Cur(j) \in closed

\* Every token of the semaphore belongs to a goroutine that will give it
\* back, on whichever path its run ends, and there are never more than
\* cfg.Concurrency.
SlotsAccounted ==
    /\ sem = Cardinality({w \in Workers : pc[w] \in Holding})
    /\ sem =< Concurrency

\* A job that is over and reported completed is completed on disk too: the
\* result survives a crash, although any single save may have failed.
DurableCompletion ==
    \A j \in Jobs :
        status[j] = "completed" /\ Cur(j) \in closed
            => diskStatus[j] = "completed"

\* Planners and workflow phases are never run again, not even after a restart
\* that had to rely on what was saved about them.
RunOnce == \A j \in Jobs : Task[j].kind # "task" => run[j] =< 1

\* At most 300 jobs are queued or running.
QueueLimit == Cardinality(ActiveJobs) =< MaxActive
-----------------------------------------------------------------------------
(* Properties of steps.                                                    *)

\* A file changes only by the hand of a running job, and never while another
\* active job has it in its write scope, under whatever spelling, unless one
\* of the two, and not the other, has reserved the root of the file system.
ExclusiveEdits ==
    [][\A x \in Files : writer'[x] # writer[x] =>
          /\ writer'[x] \in Jobs /\ status[writer'[x]] = "running"
          /\ \A k \in ActiveJobs, y \in Files :
                SameFile(x, y) /\ MayWrite(Task[k], y) =>
                    \/ k = writer'[x]
                    \/ ~(ReservesRoot(Task[k]) <=> ReservesRoot(Task[writer'[x]]))]_vars

\* Once done is closed the outcome is final: only a continuation of a
\* completed job changes it while the process lives.
OutcomeIsFinal ==
    [][\A j \in Jobs : up /\ up' /\ Cur(j) \in closed =>
          \/ status'[j] = status[j]
          \/ status[j] = "completed" /\ status'[j] = "queued"]_vars
-----------------------------------------------------------------------------
(* The abstract specification.                                             *)

Reservation == INSTANCE ScopeReservation WITH holders <- ActiveJobs

\* The manager implements scope reservation: the jobs that hold their scopes
\* are the active ones.
ImplementsReservation == Reservation!ResSpec
-----------------------------------------------------------------------------
(* Liveness.                                                               *)

\* A cancelled job ends without a slot becoming free and without the help
\* of any timeout, wherever the cancellation finds it.
CancelEnds ==
    \A w \in Workers : w \in ctxDone /\ pc[w] # "none" ~> pc[w] = "none"

\* Shutdown ends, whatever is queued and running, and needs no timeout.
ShutdownEnds == stopping ~> ~up

\* Every accepted job is over in the end: the queue is served, a run ends by
\* its timeout at the latest, and its slot comes back.
EveryRunEnds ==
    QueueFairness => \A w \in Workers : pc[w] # "none" ~> pc[w] = "none"
=============================================================================
