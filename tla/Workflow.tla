------------------------------ MODULE Workflow ------------------------------
(***************************************************************************)
(* One workflow (internal/worker/workflow.go): investigation,              *)
(* implementation and review, run one after the other as fresh jobs within *)
(* one token budget and one timeout, with the workflow file on disk,       *)
(* cancellation, shutdown, crash and restart.                              *)
(*                                                                         *)
(* The job of a phase is known by the number of the phase.  Of its life    *)
(* only what Jobs.tla promises is used: it stops in some status, it is     *)
(* reported completed only if that is on disk, it stops when cancelled,    *)
(* and done is closed after it has stopped.                                *)
(***************************************************************************)
EXTENDS Integers, FiniteSets

CONSTANTS
    MaxTokens,      \* w.Input.MaxTokens
    PhaseCap,       \* w.Input.Task.MaxTokens; 0 if there is none
    MinBudget,      \* what a phase needs (1000)
    Overshoot,      \* bound: the tokens a job spends beyond its budget
    MaxRestarts     \* bound: starts of the process

ASSUME WorkflowAssumption ==
    /\ {MaxTokens, PhaseCap, MinBudget, Overshoot, MaxRestarts} \subseteq Nat
    \* StartWorkflow: 12000 tokens at least, 1000 for every phase.
    /\ MinBudget >= 1 /\ MaxTokens >= 12 * MinBudget
    /\ PhaseCap = 0 \/ PhaseCap >= MinBudget

Phases == 1 .. 3
Investigation == 1
Implementation == 2
Review == 3

VARIABLES
    up, stopping, restarts, \* the process, as in Jobs.tla
    wf,         \* the workflow in memory: Status, Phase, UsedTokens, Jobs
    file,       \* the workflow file
    pc,         \* where runWorkflow is
    ctx,        \* the workflow's context is done
    err,        \* the error of the last save of Jobs
    verdict,    \* what finish is about to be called with
    cap,        \* the max_tokens given to the job of each phase
    job,        \* the jobs: Status, Usage.Total, len(Changed) > 0
    jobFile,    \* their files
    cancelled,  \* the jobs whose context is done
    closed      \* the jobs whose done channel is closed

process == <<up, stopping, restarts>>
children == <<job, jobFile, cancelled, closed>>
vars == <<up, stopping, restarts, wf, file, pc, ctx, err, verdict, cap, job,
          jobFile, cancelled, closed>>

active(s) == s \in {"queued", "running"}

JobEnds == {"completed", "failed", "cancelled", "limit_reached",
            "needs_attention"}
WorkflowEnds == {"failed", "cancelled", "limit_reached", "needs_attention",
                 "ready_for_validation", "interrupted"}

NoWorkflow == [status |-> "none", phase |-> 0, used |-> 0, jobs |-> {}]
NoJob == [status |-> "none", usage |-> 0, changed |-> FALSE]

Min2(a, b) == IF a < b THEN a ELSE b

\* The tokens that the records f have for the jobs of S.
Charge(f, S) ==
    LET usage(c) == IF c \in S THEN f[c].usage ELSE 0
    IN  usage(Investigation) + usage(Implementation) + usage(Review)

\* The tokens of a set of jobs.
Tokens(S) == Charge(job, S)

\* saveWorkflow of w, and a save that fails.
Save(w) == file' = w
NoSave == file' = file
-----------------------------------------------------------------------------
Init ==
    /\ up = FALSE /\ stopping = FALSE /\ restarts = 0
    /\ wf = NoWorkflow /\ file = NoWorkflow
    /\ pc = "none" /\ ctx = FALSE /\ err = FALSE /\ verdict = "none"
    /\ cap = [c \in Phases |-> 0]
    /\ job = [c \in Phases |-> NoJob] /\ jobFile = [c \in Phases |-> NoJob]
    /\ cancelled = {} /\ closed = {}

MemoryLost ==
    /\ up' = FALSE /\ stopping' = FALSE
    /\ wf' = NoWorkflow /\ pc' = "none" /\ ctx' = FALSE /\ err' = FALSE
    /\ verdict' = "none"
    /\ job' = [c \in Phases |-> NoJob] /\ cancelled' = {} /\ closed' = {}
    /\ UNCHANGED <<restarts, file, cap, jobFile>>

\* New: the jobs are loaded, then loadWorkflows.  A workflow that was active
\* is interrupted, charged anew with the usage of the jobs it knows, and saved.
New ==
    /\ ~up /\ restarts < MaxRestarts
    /\ up' = TRUE /\ restarts' = restarts + 1
    /\ job' = [c \in Phases |->
                 IF active(jobFile[c].status)
                 THEN [jobFile[c] EXCEPT !.status = "interrupted"] ELSE jobFile[c]]
    /\ closed' = {c \in Phases : jobFile[c] # NoJob}
    /\ wf' = IF active(file.status)
             THEN [file EXCEPT !.status = "interrupted",
                               !.used = Charge(jobFile, file.jobs)]
             ELSE file
    /\ file' = wf'
    /\ UNCHANGED <<stopping, pc, ctx, err, verdict, cap, jobFile, cancelled>>

\* The manager's context is the parent of the workflow's and of every job's.
Stop ==
    /\ up /\ ~stopping
    /\ stopping' = TRUE
    /\ ctx' = TRUE /\ cancelled' = Phases
    /\ UNCHANGED <<up, restarts, wf, file, pc, err, verdict, cap, job, jobFile, closed>>

\* wg.Wait: for runWorkflow and for the goroutines of the jobs.
CloseManager ==
    /\ up /\ stopping /\ pc = "none"
    /\ \A c \in Phases : job[c] = NoJob \/ c \in closed
    /\ MemoryLost

Crash == up /\ MemoryLost
-----------------------------------------------------------------------------
(* The operations on the workflow.                                         *)

\* A save that fails leaves no workflow behind.
StartWorkflow ==
    /\ up /\ ~stopping /\ wf = NoWorkflow
    /\ wf' = [NoWorkflow EXCEPT !.status = "queued"]
    /\ Save(wf')
    /\ pc' = "head" /\ ctx' = FALSE
    /\ UNCHANGED <<process, err, verdict, cap, children>>

\* CancelWorkflow, and the workflow's timeout.
ContextDone ==
    /\ pc # "none" /\ ~ctx
    /\ ctx' = TRUE
    /\ UNCHANGED <<process, wf, file, pc, err, verdict, cap, children>>
-----------------------------------------------------------------------------
(* runWorkflow.                                                            *)

Finishing(s) == pc' = "finish" /\ verdict' = s

\* Mutant of CancelledAtHead: a status no reader knows.
CancelledMisspelt ==
    /\ pc = "head" /\ ctx
    /\ Finishing("canceled")
    /\ UNCHANGED <<process, wf, file, ctx, err, cap, children>>

CancelledAtHead ==
    /\ pc = "head" /\ ctx
    /\ Finishing("cancelled")
    /\ UNCHANGED <<process, wf, file, ctx, err, cap, children>>

\* Mutant of Budget: the review's quarter is not kept back.
BudgetForReview(i) ==
    LET b == IF i = Investigation THEN MaxTokens \div 4 ELSE MaxTokens - wf.used
    IN  IF PhaseCap > 0 THEN Min2(b, PhaseCap) ELSE b

\* A quarter for the investigation, a quarter kept for the review.
Budget(i) ==
    LET remaining == MaxTokens - wf.used
        b == CASE i = Investigation -> MaxTokens \div 4
               [] i = Implementation -> remaining - MaxTokens \div 4
               [] i = Review -> remaining
    IN  IF PhaseCap > 0 THEN Min2(b, PhaseCap) ELSE b

\* The next phase is recorded and saved before it is paid for.
EnterPhase ==
    /\ pc = "head" /\ ~ctx
    /\ LET i == wf.phase + 1
       IN  /\ wf' = [wf EXCEPT !.status = "running", !.phase = i]
           /\ cap' = [cap EXCEPT ![i] = IF Budget(i) > 0 THEN Budget(i) ELSE 0]
           /\ \/ Save(wf') /\ IF Budget(i) < MinBudget
                              THEN Finishing("limit_reached")
                              ELSE pc' = "spawn" /\ UNCHANGED verdict
              \/ NoSave /\ Finishing("failed")
    /\ UNCHANGED <<process, ctx, err, children>>

\* Spawn or Handoff.  It may be refused: another job has the scope or the
\* queue is full, the contexts are too many, the manager stops, a save fails.
SpawnPhase ==
    /\ pc = "spawn"
    /\ \/ /\ ~stopping
          /\ job' = [job EXCEPT ![wf.phase] = [NoJob EXCEPT !.status = "queued"]]
          /\ jobFile' = [jobFile EXCEPT ![wf.phase] = job'[wf.phase]]
          /\ pc' = "append" /\ UNCHANGED verdict
       \/ Finishing("failed") /\ UNCHANGED <<job, jobFile>>
    /\ UNCHANGED <<process, wf, file, ctx, err, cap, cancelled, closed>>

\* The job is listed; if that cannot be saved or the context is done, the job
\* is cancelled (m.Cancel touches active jobs only).
CancelJob(c) ==
    cancelled' = IF active(job[c].status) THEN cancelled \cup {c} ELSE cancelled

AppendJob ==
    /\ pc = "append"
    /\ wf' = [wf EXCEPT !.jobs = @ \cup {wf.phase}]
    /\ \/ Save(wf') /\ err' = FALSE
       \/ NoSave /\ err' = TRUE
    /\ IF err' \/ ctx THEN CancelJob(wf.phase) ELSE UNCHANGED cancelled
    /\ pc' = "wait"
    /\ UNCHANGED <<process, ctx, verdict, cap, job, jobFile, closed>>

\* Mutant of CancelWait: the workflow does not wait for the job it cancels.
CancelAndGo ==
    /\ pc = "wait" /\ ctx
    /\ CancelJob(wf.phase)
    /\ pc' = "account"
    /\ UNCHANGED <<process, wf, file, ctx, err, verdict, cap, job, jobFile, closed>>

\* Mutant of CancelWait: the job is left to its own devices.
WaitOnly ==
    /\ pc = "wait" /\ ctx
    /\ pc' = "drain"
    /\ UNCHANGED <<process, wf, file, ctx, err, verdict, cap, children>>

CancelWait ==
    /\ pc = "wait" /\ ctx
    /\ CancelJob(wf.phase)
    /\ pc' = "drain"
    /\ UNCHANGED <<process, wf, file, ctx, err, verdict, cap, job, jobFile, closed>>

PhaseDone ==
    /\ pc \in {"wait", "drain"} /\ wf.phase \in closed
    /\ pc' = "account"
    /\ UNCHANGED <<process, wf, file, ctx, err, verdict, cap, children>>

\* Mutant of Verdict: a job that ended in any way will do.
VerdictAny(used, saved) ==
    IF err \/ ~saved THEN "failed"
    ELSE IF ctx THEN "cancelled"
    ELSE IF used >= MaxTokens THEN "limit_reached"
    ELSE IF wf.phase = Review THEN "ready_for_validation"
    ELSE "none"

\* Mutant of Verdict: an implementation without edits will do.
VerdictUnchanged(used, saved) ==
    IF err \/ ~saved THEN "failed"
    ELSE IF ctx THEN "cancelled"
    ELSE IF job[wf.phase].status # "completed" THEN "needs_attention"
    ELSE IF used >= MaxTokens THEN "limit_reached"
    ELSE IF wf.phase = Review THEN "ready_for_validation"
    ELSE "none"

\* How the phase went, in the order in which the code asks; "none" to go on.
Verdict(used, saved) ==
    LET c == job[wf.phase] IN
    IF err \/ ~saved THEN "failed"
    ELSE IF ctx THEN "cancelled"
    ELSE IF \/ c.status # "completed"
            \/ wf.phase = Implementation /\ ~c.changed THEN "needs_attention"
    ELSE IF used >= MaxTokens THEN "limit_reached"
    ELSE IF wf.phase = Review THEN "ready_for_validation"
    ELSE "none"

\* Mutant of Account: a phase that failed is not paid for.
AccountCompleted ==
    /\ pc = "account"
    /\ wf' = [wf EXCEPT !.used = @ + IF job[wf.phase].status = "completed"
                                     THEN job[wf.phase].usage ELSE 0]
    /\ \E saved \in BOOLEAN :
          /\ IF saved THEN Save(wf') ELSE NoSave
          /\ IF Verdict(wf'.used, saved) = "none"
             THEN pc' = "head" /\ UNCHANGED verdict
             ELSE Finishing(Verdict(wf'.used, saved))
    /\ UNCHANGED <<process, ctx, err, cap, children>>

\* The usage of the phase is added and saved, whatever became of it.
Account ==
    /\ pc = "account"
    /\ wf' = [wf EXCEPT !.used = @ + job[wf.phase].usage]
    /\ \E saved \in BOOLEAN :
          /\ IF saved THEN Save(wf') ELSE NoSave
          /\ IF Verdict(wf'.used, saved) = "none"
             THEN pc' = "head" /\ UNCHANGED verdict
             ELSE Finishing(Verdict(wf'.used, saved))
    /\ UNCHANGED <<process, ctx, err, cap, children>>

Finish ==
    /\ pc = "finish"
    /\ wf' = [wf EXCEPT !.status = verdict]
    /\ Save(wf') \/ NoSave
    /\ pc' = "none" /\ verdict' = "none" /\ ctx' = TRUE /\ err' = FALSE
    /\ UNCHANGED <<process, cap, children>>

WorkflowStep ==
    \/ CancelledAtHead \/ EnterPhase \/ SpawnPhase \/ AppendJob
    \/ CancelWait \/ PhaseDone \/ Account \/ Finish
-----------------------------------------------------------------------------
(* The jobs of the phases, as Jobs.tla and Runner.tla have them.           *)

JobsMove == UNCHANGED <<process, wf, file, pc, ctx, err, verdict, cap>>

\* Calls to the model.  The budget is soft: the last call may overshoot.
JobSpends(c) ==
    /\ active(job[c].status) /\ job[c].usage < cap[c]
    /\ \E n \in {1, cap[c], cap[c] + Overshoot} :
          /\ n > job[c].usage
          /\ job' = [job EXCEPT ![c].status = "running", ![c].usage = n]
    /\ JobsMove /\ UNCHANGED <<jobFile, cancelled, closed>>

\* Only the implementation has write paths.
JobEdits(c) ==
    /\ c = Implementation /\ job[c].status = "running"
    /\ job' = [job EXCEPT ![c].changed = TRUE]
    /\ JobsMove /\ UNCHANGED <<jobFile, cancelled, closed>>

JobSaved(c) ==
    /\ job[c] # NoJob
    /\ jobFile' = [jobFile EXCEPT ![c] = job[c]]
    /\ JobsMove /\ UNCHANGED <<job, cancelled, closed>>

\* Jobs!DurableCompletion: a job stays completed only if that was saved.
JobStops(c, s) ==
    /\ active(job[c].status)
    /\ job' = [job EXCEPT ![c].status = s]
    /\ \/ jobFile' = [jobFile EXCEPT ![c] = job'[c]]
       \/ s # "completed" /\ UNCHANGED jobFile
    /\ JobsMove /\ UNCHANGED <<cancelled, closed>>

JobDone(c) ==
    /\ job[c] # NoJob /\ ~active(job[c].status) /\ c \notin closed
    /\ closed' = closed \cup {c}
    /\ JobsMove /\ UNCHANGED <<job, jobFile, cancelled>>

\* gemini_cancel on the job itself.
JobCancelled(c) ==
    /\ active(job[c].status)
    /\ cancelled' = cancelled \cup {c}
    /\ JobsMove /\ UNCHANGED <<job, jobFile, closed>>

JobEnded(c) == \E s \in JobEnds : JobStops(c, s)

JobStep(c) ==
    \/ JobSpends(c) \/ JobEdits(c) \/ JobSaved(c) \/ JobEnded(c) \/ JobDone(c)
    \/ JobCancelled(c)
-----------------------------------------------------------------------------
Next ==
    \/ New \/ Stop \/ CloseManager \/ Crash
    \/ StartWorkflow \/ ContextDone \/ WorkflowStep
    \/ \E c \in Phases : JobStep(c)

Spec == Init /\ [][Next]_vars

\* The goroutine is scheduled and a job that is cancelled stops
\* (Jobs!CancelEnds); that any other job stops is not assumed.
StepFairness ==
    /\ WF_vars(WorkflowStep) /\ WF_vars(CloseManager)
    /\ \A c \in Phases :
          WF_vars(c \in cancelled /\ JobEnded(c)) /\ WF_vars(JobDone(c))

\* The timer of the workflow fires.
FairSpec == Spec /\ StepFairness /\ WF_vars(ContextDone)
-----------------------------------------------------------------------------
(* Invariants.                                                             *)

JobType ==
    [status : JobEnds \cup {"none", "queued", "running", "interrupted"},
     usage : Nat, changed : BOOLEAN]
WorkflowType ==
    [status : WorkflowEnds \cup {"none", "queued", "running"}, phase : 0 .. 3,
     used : Nat, jobs : SUBSET Phases]

TypeOK ==
    /\ {up, stopping, ctx, err} \subseteq BOOLEAN /\ restarts \in Nat
    /\ wf \in WorkflowType /\ file \in WorkflowType
    /\ pc \in {"none", "head", "spawn", "append", "wait", "drain", "account",
               "finish"}
    /\ verdict \in WorkflowEnds \cup {"none"}
    /\ cap \in [Phases -> Nat]
    /\ job \in [Phases -> JobType] /\ jobFile \in [Phases -> JobType]
    /\ cancelled \subseteq Phases /\ closed \subseteq Phases

Over == wf.status \in WorkflowEnds
Running(c) == job[c] # NoJob /\ c \notin closed

\* When a workflow is over, however it was cancelled or failed, no job of it
\* is left running, and while it runs at most the job of its phase is.
JobsStopFirst ==
    /\ Over => \A c \in Phases : ~Running(c)
    /\ \A c \in Phases : Running(c) => c = wf.phase

\* When a workflow is over it has been charged for every token its jobs are
\* on record with, those of failed and cancelled phases included; a job is
\* missing only if the process died before it could be listed.
AccountedExactly ==
    Over =>
        /\ wf.used >= Tokens(wf.jobs)
        /\ wf.status = "interrupted" => wf.used = Tokens(wf.jobs)
        /\ restarts = 1 => wf.used = Tokens(Phases)

\* Ready for validation: all three jobs are listed and completed, and the
\* implementation made edits; a restart does not take that back.
ReadyIsEarned ==
    wf.status = "ready_for_validation" =>
        /\ wf.jobs = Phases
        /\ \A c \in Phases : job[c].status = "completed"
        /\ job[Implementation].changed

\* While the jobs stay within what they were given, the workflow stays within
\* its tokens and every phase can be paid for: at most the review ends with
\* nothing left.  Whatever they do, none is started on borrowed tokens.
PhasesFunded ==
    /\ pc \in {"spawn", "append"} => wf.used + cap[wf.phase] =< MaxTokens
    /\ restarts =< 1 /\ (\A c \in Phases : job[c].usage =< cap[c]) =>
          /\ wf.used =< MaxTokens
          /\ "limit_reached" \in {wf.status, verdict} => Review \in wf.jobs
-----------------------------------------------------------------------------
(* Properties of behaviours.                                               *)

\* A phase is entered only after the one before it was completed, listed and
\* charged for, and a phase is never entered twice, restarts included: no
\* edit is ever resumed.
PhasesInOrder ==
    [][\A c \in Phases : job[c] = NoJob /\ job'[c] # NoJob /\ up =>
          /\ jobFile[c] = NoJob
          /\ \A b \in 1 .. c - 1 : b \in wf.jobs /\ job[b].status = "completed"
          /\ wf.used = Tokens(1 .. c - 1)]_vars

\* A workflow ends when it is cancelled or its time is up, at the latest,
\* although no job is assumed to end by itself.
WorkflowIsOver == active(wf.status) ~> ~active(wf.status)
=============================================================================
