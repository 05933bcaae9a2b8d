---------------------------- MODULE Workflow_proof ----------------------------
(***************************************************************************)
(* Theorems about Workflow, for every budget and any number of restarts:   *)
(* no job outlives its workflow, every token is charged for, a verdict of  *)
(* readiness is earned, and phases are funded and run in order.            *)
(***************************************************************************)
EXTENDS Workflow, TLAPS

\* The process and the goroutine of the workflow.
ProcessInv ==
    /\ ~up => /\ wf = NoWorkflow /\ pc = "none" /\ closed = {}
              /\ \A c \in Phases : job[c] = NoJob
    /\ pc # "none" <=> active(wf.status)
    /\ pc = "finish" <=> verdict # "none"
    /\ verdict # "interrupted"
    /\ restarts = 0 => ~up /\ file = NoWorkflow

\* A job in memory and its file: they exist together, the file is not ahead, and a
\* completed job is on disk as it is.
JobInv(c) ==
    /\ job[c].status = "none" => job[c] = NoJob
    /\ jobFile[c].status = "none" => jobFile[c] = NoJob
    /\ c \in closed => job[c] # NoJob /\ ~active(job[c].status)
    /\ job[c].status = "completed" => jobFile[c] = job[c]
    /\ up => /\ jobFile[c].usage =< job[c].usage
             /\ jobFile[c] = NoJob <=> job[c] = NoJob

\* What the records f say of a workflow w that is over.
SettledBy(w, f) ==
    /\ w.used >= Charge(f, w.jobs)
    /\ w.status = "interrupted" => w.used = Charge(f, w.jobs)
    /\ w.status = "ready_for_validation" =>
          /\ w.jobs = Phases /\ \A c \in Phases : f[c].status = "completed"
          /\ f[Implementation].changed

\* The workflow file: started once, active while the workflow is, and, when it is
\* over, settled by the job files; a workflow that is over in memory is over in
\* the file or will be interrupted.
FileInv ==
    /\ file.status = "none" => file = NoWorkflow /\ \A c \in Phases : jobFile[c] = NoJob
    /\ wf.status = "none" => wf = NoWorkflow
    /\ up /\ wf = NoWorkflow => file = NoWorkflow
    /\ pc # "none" => active(file.status)
    /\ up /\ Over => file = wf \/ active(file.status)
    /\ file.status \in WorkflowEnds => SettledBy(file, jobFile)

\* A phase that the workflow went on from.
Passed(c) ==
    /\ job[c].status = "completed" /\ c \in closed
    /\ c = Implementation => job[c].changed

\* Where the goroutine is, what is listed, paid for, and done.
GoroutineInv ==
    pc # "none" =>
        /\ \A c \in Phases : c > wf.phase => job[c] = NoJob
        /\ \A c \in Phases : c < wf.phase => Passed(c)
        /\ pc = "head" => /\ wf.phase < 3 /\ wf.jobs = 1 .. wf.phase
                          /\ wf.phase > 0 => Passed(wf.phase)
                          /\ wf.used = Tokens(1 .. wf.phase)
        /\ pc \notin {"head", "finish"} => wf.phase > 0
        /\ pc \in {"spawn", "append"} => wf.jobs = 1 .. wf.phase - 1
        /\ pc = "spawn" => job[wf.phase] = NoJob
        /\ pc \in {"append", "wait", "drain", "account"} => job[wf.phase] # NoJob
        /\ pc \in {"wait", "drain", "account"} => wf.jobs = 1 .. wf.phase
        /\ pc \in {"spawn", "append", "wait", "drain", "account"} =>
              wf.used = Tokens(1 .. wf.phase - 1)
        /\ pc = "account" => wf.phase \in closed
        /\ pc = "finish" =>
              /\ \A c \in Phases : ~Running(c)
              /\ wf.used = Tokens(Phases)
              /\ verdict = "ready_for_validation" =>
                    wf.jobs = Phases /\ \A c \in Phases : Passed(c)

\* A workflow that is over: settled by its jobs, none of which moves any more.
OverInv ==
    up /\ Over =>
        /\ \A c \in Phases : ~Running(c)
        /\ SettledBy(wf, job)
        /\ restarts = 1 => /\ wf.used = Tokens(Phases)
                           /\ \A c \in Phases : c > wf.phase => job[c] = NoJob
        /\ wf.status = "interrupted" => \A c \in Phases : jobFile[c].usage = job[c].usage

Quarter == MaxTokens \div 4

\* What each phase was given is left for it once those before it are paid for, with
\* a quarter kept for the review.
CapInv ==
    pc # "none" \/ (up /\ restarts = 1) =>
        /\ wf.phase >= 1 => cap[1] =< Quarter
        /\ wf.phase >= 2 => cap[2] = 0 \/ job[1].usage + cap[2] =< MaxTokens - Quarter
        /\ wf.phase >= 3 => cap[3] = 0 \/ job[1].usage + job[2].usage + cap[3] =< MaxTokens
        /\ pc \in {"spawn", "append"} => wf.used + cap[wf.phase] =< MaxTokens

\* A job with more than it was given, once stopped, has it for good.
WithinCaps == \A c \in Phases : job[c].usage =< cap[c]
LimitInv ==
    up /\ restarts = 1 /\ WithinCaps /\ "limit_reached" \in {wf.status, verdict} =>
        Review \in wf.jobs

WInv ==
    /\ TypeOK /\ ProcessInv /\ (\A c \in Phases : JobInv(c)) /\ FileInv
    /\ GoroutineInv /\ OverInv /\ CapInv /\ LimitInv
-----------------------------------------------------------------------------
(* Charges.                                                                *)

\* There are three phases.
LEMMA ThreePhases == Phases = {1, 2, 3}
BY DEF Phases

\* Records of jobs have numbers for their usage.
LEMMA JobFields ==
    ASSUME NEW f \in [Phases -> JobType], NEW c \in Phases
    PROVE  /\ f[c] \in JobType /\ f[c].usage \in Nat /\ f[c].changed \in BOOLEAN
           /\ f[c].status \in JobEnds \cup {"none", "queued", "running", "interrupted"}
BY DEF JobType

\* A charge is a number.
LEMMA ChargeType ==
    ASSUME NEW f \in [Phases -> JobType], NEW S
    PROVE  Charge(f, S) \in Nat
<1>1. f[1].usage \in Nat /\ f[2].usage \in Nat /\ f[3].usage \in Nat
  BY ThreePhases, JobFields
<1> QED
  BY <1>1 DEF Charge, Investigation, Implementation, Review

\* It depends on the usage of the jobs that are charged for, and grows with it.
LEMMA ChargeSame ==
    ASSUME NEW f, NEW g, NEW S,
           \A c \in Phases : c \in S => f[c].usage = g[c].usage
    PROVE  Charge(f, S) = Charge(g, S)
BY ThreePhases DEF Charge, Investigation, Implementation, Review

\* More jobs, and more usage, are charged more.
LEMMA ChargeGrows ==
    ASSUME NEW f \in [Phases -> JobType], NEW g \in [Phases -> JobType], NEW S, NEW T,
           \A c \in Phases : c \in S => c \in T /\ f[c].usage =< g[c].usage
    PROVE  Charge(f, S) =< Charge(g, T)
<1>1. /\ f[1].usage \in Nat /\ f[2].usage \in Nat /\ f[3].usage \in Nat
      /\ g[1].usage \in Nat /\ g[2].usage \in Nat /\ g[3].usage \in Nat
  BY ThreePhases, JobFields
<1>2. \A c \in {1, 2, 3} : c \in S => c \in T /\ f[c].usage =< g[c].usage
  BY ThreePhases
<1> QED
  BY <1>1, <1>2 DEF Charge, Investigation, Implementation, Review

\* One phase more.
LEMMA ChargeNext ==
    ASSUME NEW f \in [Phases -> JobType], NEW i \in Phases
    PROVE  Charge(f, 1 .. i) = Charge(f, 1 .. i - 1) + f[i].usage
<1>1. f[1].usage \in Nat /\ f[2].usage \in Nat /\ f[3].usage \in Nat
  BY ThreePhases, JobFields
<1>2. i \in {1, 2, 3}
  BY ThreePhases
<1>3. CASE i = 1
  BY <1>1, <1>3 DEF Charge, Investigation, Implementation, Review
<1>4. CASE i = 2
  BY <1>1, <1>4 DEF Charge, Investigation, Implementation, Review
<1>5. CASE i = 3
  BY <1>1, <1>5 DEF Charge, Investigation, Implementation, Review
<1> QED
  BY <1>2, <1>3, <1>4, <1>5

\* Phases without usage add nothing.
LEMMA ChargeAll ==
    ASSUME NEW f \in [Phases -> JobType], NEW S,
           \A c \in Phases : c \notin S => f[c].usage = 0
    PROVE  Charge(f, Phases) = Charge(f, S)
<1>1. f[1].usage \in Nat /\ f[2].usage \in Nat /\ f[3].usage \in Nat
  BY ThreePhases, JobFields
<1> QED
  BY <1>1, ThreePhases DEF Charge, Investigation, Implementation, Review
-----------------------------------------------------------------------------
(* The jobs of the phases.                                                 *)

\* The types of the parts of a record.
LEMMA Fields ==
    ASSUME TypeOK
    PROVE  /\ wf.status \in WorkflowEnds \cup {"none", "queued", "running"}
           /\ wf.phase \in 0 .. 3 /\ wf.used \in Nat /\ wf.jobs \subseteq Phases
           /\ job \in [Phases -> JobType] /\ jobFile \in [Phases -> JobType]
           /\ \A c \in Phases : cap[c] \in Nat
BY DEF TypeOK, WorkflowType

\* Statuses are of one kind.
LEMMA Statuses ==
    /\ \A s : active(s) <=> s \in {"queued", "running"}
    /\ ~active("none") /\ ~active("interrupted") /\ ~active("completed")
    /\ \A s \in JobEnds : ~active(s) /\ s # "none"
    /\ \A s \in WorkflowEnds : ~active(s) /\ s # "none"
BY DEF active, JobEnds, WorkflowEnds

\* A job exists only while the process is up, and, while the workflow goes on, only
\* up to its phase.
LEMMA JobExists ==
    ASSUME WInv, NEW c \in Phases, job[c] # NoJob
    PROVE  /\ up /\ jobFile[c] # NoJob
           /\ pc # "none" => c =< wf.phase
           /\ pc = "none" => Over
<1>1. up
  BY DEF WInv, ProcessInv
<1>2. jobFile[c] # NoJob
  BY <1>1 DEF WInv, JobInv
<1>3. pc # "none" => c =< wf.phase
  BY Fields DEF WInv, GoroutineInv, Phases
<1>4. CASE pc = "none"
  <2>1. ~active(wf.status)
    BY <1>4 DEF WInv, ProcessInv
  <2>2. file # NoWorkflow
    BY <1>2 DEF WInv, FileInv, NoWorkflow
  <2>3. wf.status # "none"
    BY <1>1, <2>2 DEF WInv, FileInv
  <2> QED
    BY <1>1, <1>2, <1>4, <2>1, <2>3, Fields, Statuses DEF Over, WInv
<1> QED
  BY <1>1, <1>2, <1>3, <1>4

\* A job is active only while its phase is the current one, and waited for.
LEMMA ActiveJob ==
    ASSUME WInv, NEW c \in Phases, active(job[c].status)
    PROVE  /\ up /\ c = wf.phase /\ pc \in {"append", "wait", "drain"}
           /\ job[c] # NoJob /\ jobFile[c] # NoJob /\ c \notin closed
<1>1. job[c] # NoJob /\ c \notin closed
  BY Statuses DEF WInv, JobInv, NoJob
<1>2. up /\ jobFile[c] # NoJob /\ (pc # "none" => c =< wf.phase) /\ (pc = "none" => Over)
  BY <1>1, JobExists
<1>3. pc # "none"
  BY <1>1, <1>2 DEF WInv, OverInv, Running
<1>4. c = wf.phase
  <2>1. ~(c < wf.phase)
    BY <1>1, <1>3 DEF WInv, GoroutineInv, Passed
  <2> QED
    BY <1>2, <1>3, <2>1, Fields DEF WInv, Phases
<1>5. pc \in {"append", "wait", "drain"}
  <2>1. pc # "head"
    BY <1>1, <1>3, <1>4 DEF WInv, GoroutineInv, Passed, Phases
  <2>2. pc # "spawn" /\ pc # "account" /\ pc # "finish"
    BY <1>1, <1>3, <1>4 DEF WInv, GoroutineInv, Running
  <2> QED
    BY <1>3, <2>1, <2>2 DEF WInv, TypeOK
<1> QED
  BY <1>1, <1>2, <1>4, <1>5
-----------------------------------------------------------------------------
(* Types.                                                                  *)

\* The records of jobs that a step writes are records of jobs.
LEMMA JobTypes ==
    /\ NoJob \in JobType
    /\ [NoJob EXCEPT !.status = "queued"] \in JobType
    /\ \A j \in JobType :
          /\ \A s \in JobEnds \cup {"running", "interrupted"} :
                [j EXCEPT !.status = s] \in JobType
          /\ \A n \in Nat : [j EXCEPT !.status = "running", !.usage = n] \in JobType
          /\ [j EXCEPT !.changed = TRUE] \in JobType
BY DEF JobType, NoJob, JobEnds

\* No step of the process breaks a type.
LEMMA ProcessTypes ==
    ASSUME TypeOK, New \/ Stop \/ MemoryLost \/ StartWorkflow \/ ContextDone
    PROVE  TypeOK'
<1>1. CASE New
  <2>1. Charge(jobFile, file.jobs) \in Nat
    BY ChargeType DEF TypeOK
  <2>2. wf' \in WorkflowType
    BY <1>1, <2>1 DEF New, TypeOK, WorkflowType, WorkflowEnds
  <2>3. job' \in [Phases -> JobType]
    <3>1. \A c \in Phases : jobFile[c] \in JobType
      BY DEF TypeOK
    <3> QED
      BY <1>1, <3>1, JobTypes DEF New
  <2>4. closed' \subseteq Phases /\ restarts' \in Nat /\ up' \in BOOLEAN
    BY <1>1 DEF New, TypeOK
  <2> QED
    BY <1>1, <2>2, <2>3, <2>4 DEF New, TypeOK
<1>2. CASE Stop
  BY <1>2 DEF Stop, TypeOK
<1>3. CASE MemoryLost
  <2>1. job' \in [Phases -> JobType]
    BY <1>3, JobTypes DEF MemoryLost
  <2>2. wf' \in WorkflowType
    BY <1>3 DEF MemoryLost, NoWorkflow, WorkflowType
  <2> QED
    BY <1>3, <2>1, <2>2 DEF MemoryLost, TypeOK
<1>4. CASE StartWorkflow
  <2>1. wf' \in WorkflowType
    BY <1>4 DEF StartWorkflow, NoWorkflow, WorkflowType
  <2> QED
    BY <1>4, <2>1 DEF StartWorkflow, TypeOK, Save, process, children
<1>5. CASE ContextDone
  BY <1>5 DEF ContextDone, TypeOK, process, children
<1> QED
  BY <1>1, <1>2, <1>3, <1>4, <1>5

\* The budget of a phase is an integer.
LEMMA BudgetType ==
    ASSUME TypeOK, NEW i \in Phases
    PROVE  Budget(i) \in Int
<1>1. wf.used \in Nat /\ MaxTokens \in Nat /\ PhaseCap \in Nat
  BY WorkflowAssumption, Fields
<1>2. MaxTokens \div 4 \in Int
  BY <1>1
<1> QED
  BY <1>1, <1>2, ThreePhases
  DEF Budget, Min2, Investigation, Implementation, Review

\* A step of runWorkflow does not either: there are three phases to enter.
LEMMA WorkflowStepTypes ==
    ASSUME WInv, WorkflowStep
    PROVE  TypeOK'
<1>0. TypeOK
  BY DEF WInv
<1>1. CASE CancelledAtHead
  BY <1>0, <1>1 DEF CancelledAtHead, Finishing, TypeOK, process, children, WorkflowEnds
<1>2. CASE EnterPhase
  <2> DEFINE i == wf.phase + 1
  <2>1. i \in Phases
    BY <1>0, <1>2, Fields DEF WInv, GoroutineInv, EnterPhase, Phases
  <2>2. Budget(i) \in Int
    BY <1>0, <2>1, BudgetType
  <2>3. wf' = [wf EXCEPT !.status = "running", !.phase = i]
        /\ cap' = [cap EXCEPT ![i] = IF Budget(i) > 0 THEN Budget(i) ELSE 0]
    BY <1>2 DEF EnterPhase
  <2>4. wf' \in WorkflowType
    <3>1. i \in 0 .. 3
      BY <2>1 DEF Phases
    <3> HIDE DEF i
    <3> QED
      BY <1>0, <2>3, <3>1 DEF TypeOK, WorkflowType
  <2>5. cap' \in [Phases -> Nat]
    BY <1>0, <2>1, <2>2, <2>3 DEF TypeOK
  <2>6. file' \in WorkflowType /\ pc' \in {"spawn", "finish"}
        /\ verdict' \in WorkflowEnds \cup {"none"}
    BY <1>0, <1>2, <2>4 DEF EnterPhase, Save, NoSave, Finishing, TypeOK, WorkflowEnds
  <2> QED
    BY <1>0, <1>2, <2>4, <2>5, <2>6 DEF EnterPhase, TypeOK, process, children
<1>3. CASE SpawnPhase
  <2>1. job' \in [Phases -> JobType] /\ jobFile' \in [Phases -> JobType]
    <3>1. CASE UNCHANGED <<job, jobFile>>
      BY <1>0, <3>1 DEF TypeOK
    <3>2. CASE /\ job' = [job EXCEPT ![wf.phase] = [NoJob EXCEPT !.status = "queued"]]
               /\ jobFile' = [jobFile EXCEPT ![wf.phase] = job'[wf.phase]]
      <4>1. job' \in [Phases -> JobType]
        BY <1>0, <3>2, JobTypes DEF TypeOK
      <4>2. wf.phase \in Phases => job'[wf.phase] \in JobType
        BY <4>1
      <4> QED
        BY <1>0, <3>2, <4>1, <4>2 DEF TypeOK
    <3> QED
      BY <1>3, <3>1, <3>2 DEF SpawnPhase
  <2> QED
    BY <1>0, <1>3, <2>1 DEF SpawnPhase, Finishing, TypeOK, process, WorkflowEnds
<1>4. CASE AppendJob
  <2>1. wf.phase \in Phases
    BY <1>0, <1>4, Fields DEF WInv, GoroutineInv, AppendJob, Phases
  <2>2. wf' \in WorkflowType
    BY <1>0, <1>4, <2>1 DEF AppendJob, TypeOK, WorkflowType
  <2>3. cancelled' \subseteq Phases
    BY <1>0, <1>4, <2>1 DEF AppendJob, CancelJob, TypeOK
  <2> QED
    BY <1>0, <1>4, <2>2, <2>3 DEF AppendJob, Save, NoSave, TypeOK, process
<1>5. CASE CancelWait
  <2>1. wf.phase \in Phases
    BY <1>0, <1>5, Fields DEF WInv, GoroutineInv, CancelWait, Phases
  <2> QED
    BY <1>0, <1>5, <2>1 DEF CancelWait, CancelJob, TypeOK, process
<1>6. CASE PhaseDone
  BY <1>0, <1>6 DEF PhaseDone, TypeOK, process, children
<1>7. CASE Account
  <2>1. wf.phase \in Phases
    BY <1>0, <1>7, Fields DEF WInv, GoroutineInv, Account, Phases
  <2>2. wf.used + job[wf.phase].usage \in Nat
    BY <1>0, <2>1, Fields, JobFields
  <2>3. wf' \in WorkflowType
    BY <1>0, <1>7, <2>2 DEF Account, TypeOK, WorkflowType
  <2>4. file' \in WorkflowType /\ pc' \in {"head", "finish"}
        /\ verdict' \in WorkflowEnds \cup {"none"}
    BY <1>0, <1>7, <2>3
    DEF Account, Save, NoSave, Finishing, Verdict, TypeOK, WorkflowEnds
  <2> QED
    BY <1>0, <1>7, <2>3, <2>4 DEF Account, TypeOK, process, children
<1>8. CASE Finish
  <2>1. wf' \in WorkflowType
    BY <1>0, <1>8 DEF Finish, TypeOK, WorkflowType
  <2> QED
    BY <1>0, <1>8, <2>1 DEF Finish, Save, NoSave, TypeOK, process, children
<1> QED
  BY <1>1, <1>2, <1>3, <1>4, <1>5, <1>6, <1>7, <1>8 DEF WorkflowStep

\* What one step of a job does to it and its file; the rest stays.
LEMMA JobStepTypes ==
    ASSUME TypeOK, NEW c \in Phases, JobStep(c)
    PROVE  /\ TypeOK' /\ UNCHANGED <<process, wf, file, pc, ctx, err, verdict, cap>>
           /\ \A d \in Phases : d # c => job'[d] = job[d] /\ jobFile'[d] = jobFile[d]
<1>0. UNCHANGED <<process, wf, file, pc, ctx, err, verdict, cap>>
  BY DEF JobStep, JobSpends, JobEdits, JobSaved, JobEnded, JobStops, JobDone,
         JobCancelled, JobsMove
<1>1. job[c] \in JobType /\ cap[c] \in Nat /\ Overshoot \in Nat
  BY Fields, WorkflowAssumption
<1>2. /\ job' \in [Phases -> JobType] /\ \A d \in Phases : d # c => job'[d] = job[d]
  <2>1. CASE UNCHANGED job
    BY <2>1 DEF TypeOK
  <2>2. CASE JobSpends(c)
    <3>1. PICK n \in {1, cap[c], cap[c] + Overshoot} :
             job' = [job EXCEPT ![c].status = "running", ![c].usage = n]
      BY <2>2 DEF JobSpends
    <3>2. n \in Nat
      BY <1>1
    <3>3. job' = [job EXCEPT ![c] = [job[c] EXCEPT !.status = "running", !.usage = n]]
      BY <3>1, Fields DEF JobType
    <3> QED
      BY <1>1, <3>2, <3>3, Fields, JobTypes
  <2>3. CASE JobEdits(c)
    <3>1. job' = [job EXCEPT ![c] = [job[c] EXCEPT !.changed = TRUE]]
      BY <2>3 DEF JobEdits
    <3> QED
      BY <1>1, <3>1, Fields, JobTypes
  <2>4. CASE JobEnded(c)
    <3>1. PICK s \in JobEnds : job' = [job EXCEPT ![c].status = s]
      BY <2>4 DEF JobEnded, JobStops
    <3>2. job' = [job EXCEPT ![c] = [job[c] EXCEPT !.status = s]]
      BY <3>1
    <3> QED
      BY <1>1, <3>2, Fields, JobTypes
  <2> QED
    BY <2>1, <2>2, <2>3, <2>4 DEF JobStep, JobSaved, JobDone, JobCancelled
<1>3. /\ jobFile' \in [Phases -> JobType]
      /\ \A d \in Phases : d # c => jobFile'[d] = jobFile[d]
  <2>1. CASE UNCHANGED jobFile
    BY <2>1 DEF TypeOK
  <2>2. CASE jobFile' = [jobFile EXCEPT ![c] = job[c]]
    BY <1>1, <2>2 DEF TypeOK
  <2>3. CASE jobFile' = [jobFile EXCEPT ![c] = job'[c]]
    <3>1. job'[c] \in JobType
      BY <1>2
    <3> QED
      BY <2>3, <3>1 DEF TypeOK
  <2> QED
    BY <2>1, <2>2, <2>3
    DEF JobStep, JobSpends, JobEdits, JobSaved, JobEnded, JobStops, JobDone, JobCancelled
<1>4. cancelled' \subseteq Phases /\ closed' \subseteq Phases
  BY DEF TypeOK, JobStep, JobSpends, JobEdits, JobSaved, JobEnded, JobStops, JobDone,
         JobCancelled
<1>5. TypeOK'
  BY <1>0, <1>2, <1>3, <1>4 DEF TypeOK, process
<1> QED
  BY <1>0, <1>2, <1>3, <1>5
-----------------------------------------------------------------------------
(* The process.                                                            *)

\* The memory of the process can be lost at any moment.
LEMMA MemoryLostKeeps ==
    ASSUME WInv, MemoryLost
    PROVE  WInv'
<1>1. TypeOK'
  BY ProcessTypes DEF WInv
<1>2. /\ up' = FALSE /\ wf' = NoWorkflow /\ pc' = "none" /\ verdict' = "none"
      /\ job' = [c \in Phases |-> NoJob] /\ closed' = {}
      /\ UNCHANGED <<restarts, file, cap, jobFile>>
  BY DEF MemoryLost
<1>3. wf'.status = "none" /\ ~active(wf'.status) /\ "none" \notin WorkflowEnds
  BY <1>2, Statuses DEF NoWorkflow, WorkflowEnds
<1>4. ProcessInv'
  BY <1>2, <1>3 DEF WInv, ProcessInv
<1>5. \A c \in Phases : JobInv(c)'
  BY <1>2, Statuses DEF WInv, JobInv, NoJob
<1>6. FileInv'
  BY <1>2, <1>3 DEF WInv, FileInv, SettledBy
<1>7. GoroutineInv' /\ OverInv' /\ CapInv' /\ LimitInv'
  BY <1>2 DEF GoroutineInv, OverInv, CapInv, LimitInv
<1> QED
  BY <1>1, <1>4, <1>5, <1>6, <1>7 DEF WInv

\* Nobody relies on a context that is not done.
LEMMA ContextsKeep ==
    ASSUME WInv, Stop \/ ContextDone
    PROVE  WInv'
<1>1. TypeOK'
  BY ProcessTypes DEF WInv
<1>2. UNCHANGED <<up, restarts, wf, file, pc, verdict, cap, job, jobFile, closed>>
  BY DEF Stop, ContextDone, process, children
<1>3. ProcessInv' /\ (\A c \in Phases : JobInv(c)') /\ FileInv'
  BY <1>2 DEF WInv, ProcessInv, JobInv, FileInv, Over, SettledBy
<1>4. GoroutineInv'
  BY <1>2 DEF WInv, GoroutineInv, Tokens, Passed, Running
<1>5. OverInv' /\ CapInv' /\ LimitInv'
  BY <1>2 DEF WInv, OverInv, CapInv, LimitInv, WithinCaps, Over, SettledBy, Tokens, Running
<1> QED
  BY <1>1, <1>3, <1>4, <1>5 DEF WInv

\* Jobs that do not exist are charged nothing.
LEMMA NothingCharged ==
    ASSUME NEW f, NEW S, \A c \in Phases : f[c] = NoJob
    PROVE  Charge(f, S) = 0
BY ThreePhases DEF Charge, Investigation, Implementation, Review, NoJob

\* After a restart the records are those of the files, and a workflow that was
\* active is charged for what they say.
LEMMA NewKeeps ==
    ASSUME WInv, New
    PROVE  WInv'
<1>1. TypeOK'
  BY ProcessTypes DEF WInv
<1>2. /\ ~up /\ up' = TRUE /\ restarts' = restarts + 1
      /\ job' = [c \in Phases |->
                   IF active(jobFile[c].status)
                   THEN [jobFile[c] EXCEPT !.status = "interrupted"] ELSE jobFile[c]]
      /\ closed' = {c \in Phases : jobFile[c] # NoJob}
      /\ file' = wf' /\ UNCHANGED <<pc, verdict, cap, jobFile>>
  BY DEF New
<1>3. wf' = IF active(file.status)
             THEN [file EXCEPT !.status = "interrupted", !.used = Charge(jobFile, file.jobs)]
             ELSE file
  BY DEF New
<1>4. pc = "none" /\ verdict = "none" /\ restarts \in Nat /\ file \in WorkflowType
  BY <1>2 DEF WInv, ProcessInv, TypeOK
<1>5. \A c \in Phases : /\ jobFile[c] \in JobType
                        /\ jobFile[c].status = "none" => jobFile[c] = NoJob
  BY DEF WInv, TypeOK, JobInv
<1>6. \A c \in Phases : /\ job'[c].usage = jobFile[c].usage
                        /\ job'[c].changed = jobFile[c].changed
                        /\ ~active(job'[c].status)
                        /\ jobFile[c].status = "completed" => job'[c] = jobFile[c]
                        /\ job'[c].status = "completed" => job'[c] = jobFile[c]
                        /\ job'[c] = NoJob <=> jobFile[c] = NoJob
                        /\ job'[c].status = "none" => job'[c] = NoJob
  BY <1>2, <1>5, Statuses DEF JobType, NoJob
<1>7. \A S : Charge(job', S) = Charge(jobFile, S)
  BY <1>6, ChargeSame
<1>8. /\ wf'.status # "none" => file.status # "none"
      /\ file.status = "none" => wf' = file
      /\ wf'.jobs = file.jobs /\ wf'.phase = file.phase /\ ~active(wf'.status)
      /\ wf'.status # "interrupted" => wf' = file
  BY <1>3, <1>4, Statuses DEF WorkflowType
<1>9. wf'.status \in WorkflowEnds => SettledBy(wf', jobFile)
  <2>1. CASE active(file.status)
    <3>1. wf'.used = Charge(jobFile, wf'.jobs) /\ wf'.status = "interrupted"
      BY <1>3, <1>4, <2>1 DEF WorkflowType
    <3>2. Charge(jobFile, wf'.jobs) \in Nat
      BY ChargeType DEF WInv, TypeOK
    <3> QED
      BY <3>1, <3>2 DEF SettledBy
  <2>2. CASE ~active(file.status)
    BY <1>3, <2>2 DEF WInv, FileInv
  <2> QED
    BY <2>1, <2>2
<1>10. ASSUME restarts' = 1
       PROVE  /\ wf' = NoWorkflow /\ file = NoWorkflow
              /\ \A c \in Phases : jobFile[c] = NoJob
  <2>1. restarts = 0
    BY <1>2, <1>4, <1>10
  <2>2. file = NoWorkflow
    BY <2>1 DEF WInv, ProcessInv
  <2> QED
    BY <1>8, <2>2 DEF WInv, FileInv, NoWorkflow
<1>11. ProcessInv'
  BY <1>2, <1>4, <1>8 DEF ProcessInv
<1>12. \A c \in Phases : JobInv(c)'
  <2> SUFFICES ASSUME NEW c \in Phases
               PROVE  JobInv(c)'
    OBVIOUS
  <2>1. jobFile[c].usage \in Nat
    BY <1>5 DEF JobType
  <2> QED
    BY <1>2, <1>5, <1>6, <2>1 DEF JobInv
<1>13. FileInv'
  <2>1. file'.status = "none" => file' = NoWorkflow /\ \A c \in Phases : jobFile'[c] = NoJob
    BY <1>2, <1>8 DEF WInv, FileInv
  <2> QED
    BY <1>2, <1>4, <1>9, <2>1 DEF FileInv, SettledBy
<1>14. GoroutineInv'
  BY <1>2, <1>4 DEF GoroutineInv
<1>15. OverInv'
  <2>1. \A c \in Phases : ~Running(c)'
    BY <1>2, <1>6 DEF Running
  <2>2. wf'.status \in WorkflowEnds => SettledBy(wf', job')
    BY <1>6, <1>7, <1>9, ThreePhases DEF SettledBy, Implementation
  <2>3. restarts' = 1 => wf'.used = Charge(job', Phases)
    <3>1. restarts' = 1 => Charge(job', Phases) = 0
      BY <1>6, <1>10, NothingCharged
    <3> QED
      BY <1>10, <3>1 DEF NoWorkflow
  <2>4. restarts' = 1 => \A c \in Phases : job'[c] = NoJob
    BY <1>6, <1>10
  <2> QED
    BY <1>2, <1>6, <2>1, <2>2, <2>3, <2>4 DEF OverInv, Over, Tokens, SettledBy
<1>16. CapInv' /\ LimitInv'
  <2>1. restarts' = 1 => wf'.phase = 0 /\ wf'.status = "none"
    BY <1>10 DEF NoWorkflow
  <2> QED
    BY <1>2, <1>4, <2>1 DEF CapInv, LimitInv
<1> QED
  BY <1>1, <1>11, <1>12, <1>13, <1>14, <1>15, <1>16 DEF WInv

\* A workflow that starts has nothing behind it.
LEMMA StartKeeps ==
    ASSUME WInv, StartWorkflow
    PROVE  WInv'
<1>1. TypeOK'
  BY ProcessTypes DEF WInv
<1>2. /\ up /\ wf = NoWorkflow /\ wf' = [NoWorkflow EXCEPT !.status = "queued"]
      /\ file' = wf' /\ pc' = "head"
      /\ UNCHANGED <<up, restarts, verdict, cap, job, jobFile, closed>>
  BY DEF StartWorkflow, Save, process, children
<1>3. /\ wf'.status = "queued" /\ wf'.phase = 0 /\ wf'.used = 0 /\ wf'.jobs = {}
      /\ active(wf'.status) /\ wf'.status \notin WorkflowEnds
  BY <1>2, Statuses DEF NoWorkflow, WorkflowEnds
<1>4. file = NoWorkflow /\ pc = "none" /\ verdict = "none"
  BY <1>2, Statuses DEF WInv, FileInv, ProcessInv, NoWorkflow
<1>5. \A c \in Phases : jobFile[c] = NoJob /\ job[c] = NoJob
  BY <1>2, <1>4 DEF WInv, FileInv, JobInv, NoWorkflow
<1>6. ProcessInv'
  <2>1. restarts # 0
    BY <1>2 DEF WInv, ProcessInv
  <2> QED
    BY <1>2, <1>3, <1>4, <2>1 DEF WInv, ProcessInv
<1>7. \A c \in Phases : JobInv(c)'
  BY <1>2 DEF WInv, JobInv
<1>8. FileInv'
  BY <1>2, <1>3 DEF FileInv, Over, NoWorkflow
<1>9. GoroutineInv'
  <2>1. wf'.used = Charge(job', 1 .. wf'.phase)
    BY <1>2, <1>3, <1>5, NothingCharged
  <2>2. wf'.jobs = 1 .. wf'.phase
    BY <1>3
  <2>3. \A c \in Phases : job'[c] = NoJob /\ ~(c < wf'.phase)
    BY <1>2, <1>3, <1>5 DEF Phases
  <2> QED
    BY <1>2, <1>3, <2>1, <2>2, <2>3 DEF GoroutineInv, Tokens
<1>10. OverInv' /\ CapInv' /\ LimitInv'
  BY <1>2, <1>3, <1>4 DEF OverInv, Over, CapInv, LimitInv, WorkflowEnds
<1> QED
  BY <1>1, <1>6, <1>7, <1>8, <1>9, <1>10 DEF WInv
-----------------------------------------------------------------------------
(* The steps of runWorkflow.                                               *)

\* Phases without a job add nothing.
LEMMA ChargeUpTo ==
    ASSUME NEW f \in [Phases -> JobType], NEW k \in 0 .. 3,
           \A c \in Phases : c > k => f[c] = NoJob
    PROVE  Charge(f, Phases) = Charge(f, 1 .. k)
<1>1. \A c \in Phases : c \notin 1 .. k => f[c].usage = 0
  BY DEF Phases, NoJob
<1> QED
  BY <1>1, ChargeAll

\* The charges of the first phases, one by one.
LEMMA ChargeSums ==
    ASSUME NEW f \in [Phases -> JobType]
    PROVE  /\ Charge(f, 1 .. 0) = 0 /\ Charge(f, 1 .. 1) = f[1].usage
           /\ Charge(f, 1 .. 2) = f[1].usage + f[2].usage
           /\ Charge(f, 1 .. 3) = f[1].usage + f[2].usage + f[3].usage
<1>1. f[1].usage \in Nat /\ f[2].usage \in Nat /\ f[3].usage \in Nat
  BY ThreePhases, JobFields
<1> QED
  BY <1>1 DEF Charge, Investigation, Implementation, Review

\* While the goroutine goes on, the workflow is active, in memory and on disk.
LEMMA GoesOn ==
    ASSUME WInv, WorkflowStep, ~Finish
    PROVE  /\ pc # "none" /\ up /\ pc' # "none" /\ active(wf'.status)
           /\ UNCHANGED <<up, restarts, closed>>
           /\ ProcessInv' /\ FileInv' /\ OverInv'
<1>1. /\ pc # "none" /\ active(wf.status) /\ active(file.status) /\ up
      /\ restarts # 0 /\ wf.status \notin WorkflowEnds /\ wf.status # "none"
  <2>1. pc # "none"
    BY DEF WorkflowStep, CancelledAtHead, EnterPhase, SpawnPhase, AppendJob, CancelWait,
           PhaseDone, Account, Finish
  <2>2. active(wf.status) /\ active(file.status) /\ up
    BY <2>1 DEF WInv, ProcessInv, FileInv
  <2>3. restarts # 0
    BY <2>2 DEF WInv, ProcessInv
  <2> QED
    BY <2>1, <2>2, <2>3, Statuses
<1>2. /\ UNCHANGED <<up, restarts, closed>> /\ pc' # "none"
      /\ wf'.status \in {wf.status, "running"}
  BY DEF WorkflowStep, CancelledAtHead, EnterPhase, SpawnPhase, AppendJob, CancelWait,
         PhaseDone, Account, Finishing, process, children, WInv, TypeOK, WorkflowType
<1>3. file' \in {file, wf'}
  BY DEF WorkflowStep, CancelledAtHead, EnterPhase, SpawnPhase, AppendJob, CancelWait,
         PhaseDone, Account, Save, NoSave
<1>4. pc' = "finish" <=> verdict' # "none"
  <2>1. pc # "finish" /\ verdict = "none"
    BY DEF WorkflowStep, CancelledAtHead, EnterPhase, SpawnPhase, AppendJob, CancelWait,
           PhaseDone, Account, WInv, ProcessInv
  <2> QED
    BY <2>1 DEF WorkflowStep, CancelledAtHead, EnterPhase, SpawnPhase, AppendJob,
                CancelWait, PhaseDone, Account, Finishing, Verdict
<1>5. verdict' # "interrupted"
  BY DEF WorkflowStep, CancelledAtHead, EnterPhase, SpawnPhase, AppendJob, CancelWait,
         PhaseDone, Account, Finishing, Verdict, WInv, ProcessInv
<1>6. active(wf'.status) /\ active(file'.status)
  BY <1>1, <1>2, <1>3, Statuses
<1>7. wf'.status # "none" /\ file'.status # "none" /\ wf'.status \notin WorkflowEnds
      /\ file'.status \notin WorkflowEnds
  BY <1>6, Statuses
<1>8. ProcessInv'
  BY <1>1, <1>2, <1>4, <1>5, <1>6 DEF ProcessInv
<1>9. FileInv'
  BY <1>2, <1>6, <1>7 DEF FileInv, Over, NoWorkflow
<1>10. OverInv'
  BY <1>7 DEF OverInv, Over
<1> QED
  BY <1>1, <1>2, <1>6, <1>8, <1>9, <1>10

\* It touches no job but the one it starts, which it starts with its file.
LEMMA JobsKeep ==
    ASSUME WInv, WorkflowStep
    PROVE  /\ \A c \in Phases : JobInv(c)'
           /\ \/ UNCHANGED <<job, jobFile, closed>>
              \/ /\ SpawnPhase /\ wf.phase \in Phases /\ job[wf.phase] = NoJob
                 /\ job' = [job EXCEPT ![wf.phase] = [NoJob EXCEPT !.status = "queued"]]
                 /\ jobFile' = [jobFile EXCEPT ![wf.phase] = job'[wf.phase]]
                 /\ UNCHANGED <<up, closed>> /\ pc' = "append"
<1>1. CASE UNCHANGED <<job, jobFile, closed>>
  <2>1. up' = up
    BY DEF WorkflowStep, CancelledAtHead, EnterPhase, SpawnPhase, AppendJob, CancelWait,
           PhaseDone, Account, Finish, process
  <2> QED
    BY <1>1, <2>1 DEF WInv, JobInv
<1>2. CASE ~UNCHANGED <<job, jobFile, closed>>
  <2>1. SpawnPhase
    BY <1>2 DEF WorkflowStep, CancelledAtHead, EnterPhase, AppendJob, CancelWait,
                PhaseDone, Account, Finish, children
  <2>2. wf.phase \in Phases /\ job[wf.phase] = NoJob
    BY <2>1, Fields DEF SpawnPhase, WInv, GoroutineInv, Phases
  <2>3. /\ job' = [job EXCEPT ![wf.phase] = [NoJob EXCEPT !.status = "queued"]]
        /\ jobFile' = [jobFile EXCEPT ![wf.phase] = job'[wf.phase]]
        /\ UNCHANGED <<up, closed>> /\ pc' = "append"
    BY <1>2, <2>1 DEF SpawnPhase, process
  <2>4. wf.phase \notin closed
    BY <2>2 DEF WInv, JobInv
  <2>5. ASSUME NEW c \in Phases
        PROVE  JobInv(c)'
    <3>1. CASE c = wf.phase
      <4>1. /\ job'[c] = [NoJob EXCEPT !.status = "queued"] /\ jobFile'[c] = job'[c]
            /\ c \notin closed'
        BY <2>3, <2>4, <3>1, Fields DEF WInv
      <4>2. job'[c].status = "queued" /\ job'[c].usage = 0 /\ job'[c] # NoJob
        BY <4>1 DEF NoJob
      <4> QED
        BY <4>1, <4>2, Statuses DEF JobInv
    <3>2. CASE c # wf.phase
      <4>1. job'[c] = job[c] /\ jobFile'[c] = jobFile[c] /\ UNCHANGED <<up, closed>>
        BY <2>3, <3>2, Fields DEF WInv
      <4> QED
        BY <4>1 DEF WInv, JobInv
    <3> QED
      BY <3>1, <3>2
  <2> QED
    BY <2>1, <2>2, <2>3, <2>5
<1> QED
  BY <1>1, <1>2

\* What a step that only moves the goroutine to its end has to show.
LEMMA ToFinish ==
    ASSUME WInv, pc # "none", UNCHANGED <<job, closed>>, wf'.phase = wf.phase,
           pc' = "finish", \A c \in Phases : ~Running(c), wf'.used = Tokens(Phases),
           verdict' = "ready_for_validation" =>
               wf'.jobs = Phases /\ \A c \in Phases : Passed(c)
    PROVE  GoroutineInv'
BY DEF WInv, GoroutineInv, Running, Passed, Tokens

\* The workflow is cancelled between two phases.
LEMMA CancelledAtHeadKeeps ==
    ASSUME WInv, CancelledAtHead
    PROVE  GoroutineInv'
<1>1. /\ pc = "head" /\ pc' = "finish" /\ verdict' = "cancelled"
      /\ UNCHANGED <<wf, job, closed>>
  BY DEF CancelledAtHead, Finishing, children
<1>2. /\ \A c \in Phases : c > wf.phase => job[c] = NoJob
      /\ \A c \in Phases : c < wf.phase => Passed(c)
      /\ wf.phase > 0 => Passed(wf.phase)
      /\ wf.used = Tokens(1 .. wf.phase)
  BY <1>1 DEF WInv, GoroutineInv
<1>3. \A c \in Phases : ~Running(c)
  BY <1>2, Fields DEF Running, Passed, WInv, Phases
<1>4. wf.used = Tokens(Phases)
  BY <1>2, Fields, ChargeUpTo DEF Tokens, WInv
<1> QED
  BY <1>1, <1>3, <1>4, ToFinish

\* The next phase is entered: nothing has been started for it.
LEMMA EnterPhaseKeeps ==
    ASSUME WInv, EnterPhase
    PROVE  GoroutineInv'
<1>1. /\ pc = "head" /\ pc' \in {"spawn", "finish"} /\ UNCHANGED <<job, closed>>
      /\ pc' = "finish" => verdict' # "ready_for_validation"
  BY DEF EnterPhase, Finishing, children
<1>2. wf'.phase = wf.phase + 1 /\ wf'.used = wf.used /\ wf'.jobs = wf.jobs
  BY DEF EnterPhase, WInv, TypeOK, WorkflowType
<1>3. /\ \A c \in Phases : c > wf.phase => job[c] = NoJob
      /\ \A c \in Phases : c < wf.phase => Passed(c)
      /\ wf.phase > 0 => Passed(wf.phase)
      /\ wf.used = Tokens(1 .. wf.phase) /\ wf.jobs = 1 .. wf.phase
      /\ wf.phase \in 0 .. 2
  BY <1>1, Fields DEF WInv, GoroutineInv
<1>4. \A c \in Phases : c > wf'.phase => job'[c] = NoJob
  BY <1>1, <1>2, <1>3 DEF Phases
<1>5. \A c \in Phases : c < wf'.phase => Passed(c)'
  <2>1. \A c \in Phases : c < wf'.phase => Passed(c)
    BY <1>2, <1>3 DEF Phases
  <2> QED
    BY <1>1, <2>1 DEF Passed
<1>6. wf'.phase - 1 = wf.phase /\ wf'.phase > 0
  BY <1>2, <1>3
<1>7. CASE pc' = "spawn"
  <2>1. job'[wf'.phase] = NoJob
    BY <1>1, <1>2, <1>3 DEF Phases
  <2>2. wf'.used = Tokens(1 .. wf.phase - 1)' /\ wf'.jobs = 1 .. wf'.phase - 1
    BY <1>1, <1>2, <1>3, <1>6 DEF Tokens
  <2> QED
    BY <1>4, <1>5, <1>6, <1>7, <2>1, <2>2 DEF GoroutineInv
<1>8. CASE pc' = "finish"
  <2>1. \A c \in Phases : ~Running(c)'
    <3>1. \A c \in Phases : ~Running(c)
      BY <1>3 DEF Running, Passed, Phases
    <3> QED
      BY <1>1, <3>1 DEF Running
  <2>2. wf'.used = Tokens(Phases)'
    BY <1>1, <1>2, <1>3, Fields, ChargeUpTo DEF Tokens, WInv
  <2> QED
    BY <1>1, <1>4, <1>5, <1>6, <1>8, <2>1, <2>2 DEF GoroutineInv
<1> QED
  BY <1>1, <1>7, <1>8

\* The job of the phase is started, or the workflow fails without it.
LEMMA SpawnPhaseKeeps ==
    ASSUME WInv, SpawnPhase
    PROVE  GoroutineInv'
<1>1. pc = "spawn" /\ UNCHANGED <<wf, closed>>
  BY DEF SpawnPhase
<1>2. /\ \A c \in Phases : c > wf.phase => job[c] = NoJob
      /\ \A c \in Phases : c < wf.phase => Passed(c)
      /\ job[wf.phase] = NoJob /\ wf.phase \in Phases
      /\ wf.used = Tokens(1 .. wf.phase - 1) /\ wf.jobs = 1 .. wf.phase - 1
  BY <1>1, Fields DEF WInv, GoroutineInv, Phases
<1>3. CASE UNCHANGED job /\ pc' = "finish" /\ verdict' = "failed"
  <2>1. \A c \in Phases : ~Running(c)
    BY <1>2 DEF Running, Passed, Phases
  <2>2. wf.used = Tokens(Phases)
    <3>1. wf.phase - 1 \in 0 .. 3 /\ \A c \in Phases : c > wf.phase - 1 => job[c] = NoJob
      BY <1>2 DEF Phases
    <3> QED
      BY <1>2, <3>1, Fields, ChargeUpTo DEF Tokens, WInv
  <2> QED
    BY <1>1, <1>3, <2>1, <2>2, ToFinish
<1>4. CASE /\ job' = [job EXCEPT ![wf.phase] = [NoJob EXCEPT !.status = "queued"]]
           /\ pc' = "append"
  <2>1. /\ job'[wf.phase] = [NoJob EXCEPT !.status = "queued"]
        /\ \A c \in Phases : c # wf.phase => job'[c] = job[c]
    BY <1>2, <1>4, Fields DEF WInv
  <2>2. job'[wf.phase] # NoJob
    BY <2>1 DEF NoJob
  <2>3. Tokens(1 .. wf.phase - 1)' = Tokens(1 .. wf.phase - 1)
    <3>1. \A c \in Phases : c \in 1 .. wf.phase - 1 => job'[c].usage = job[c].usage
      BY <1>2, <2>1 DEF Phases
    <3> QED
      BY <1>1, <3>1, ChargeSame DEF Tokens
  <2>4. \A c \in Phases : c < wf.phase => Passed(c)'
    BY <1>1, <1>2, <2>1 DEF Passed, Phases
  <2>5. \A c \in Phases : c > wf.phase => job'[c] = NoJob
    BY <1>2, <2>1 DEF Phases
  <2>6. wf.phase > 0
    BY <1>2 DEF Phases
  <2> QED
    BY <1>1, <1>2, <1>4, <2>2, <2>3, <2>4, <2>5, <2>6 DEF GoroutineInv
<1> QED
  BY <1>3, <1>4 DEF SpawnPhase, Finishing

\* The job is listed.
LEMMA AppendJobKeeps ==
    ASSUME WInv, AppendJob
    PROVE  GoroutineInv'
<1>1. pc = "append" /\ pc' = "wait" /\ UNCHANGED <<job, closed>>
  BY DEF AppendJob
<1>2. /\ wf'.jobs = wf.jobs \cup {wf.phase} /\ wf'.phase = wf.phase
      /\ wf'.used = wf.used
  BY DEF AppendJob, WInv, TypeOK, WorkflowType
<1>3. wf.phase \in Phases /\ wf.jobs = 1 .. wf.phase - 1
  BY <1>1, Fields DEF WInv, GoroutineInv, Phases
<1>4. wf'.jobs = 1 .. wf'.phase
  BY <1>2, <1>3 DEF Phases
<1> QED
  BY <1>1, <1>2, <1>4 DEF WInv, GoroutineInv, Passed, Tokens

\* It is waited for, and drained if it has been cancelled.
LEMMA WaitKeeps ==
    ASSUME WInv, CancelWait \/ PhaseDone
    PROVE  GoroutineInv'
<1>1. /\ pc \in {"wait", "drain"} /\ UNCHANGED <<wf, job, closed>>
      /\ pc' = "drain" \/ (pc' = "account" /\ wf.phase \in closed)
  BY DEF CancelWait, PhaseDone, children
<1> QED
  BY <1>1 DEF WInv, GoroutineInv, Passed, Tokens

\* The phase is paid for; the workflow goes on only from a phase that is complete.
LEMMA AccountKeeps ==
    ASSUME WInv, Account
    PROVE  GoroutineInv'
<1>1. pc = "account" /\ UNCHANGED <<job, closed>>
  BY DEF Account, children
<1>2. /\ wf'.jobs = wf.jobs /\ wf'.phase = wf.phase
      /\ wf'.used = wf.used + job[wf.phase].usage
  BY DEF Account, WInv, TypeOK, WorkflowType
<1>3. PICK saved \in BOOLEAN :
         IF Verdict(wf'.used, saved) = "none"
         THEN pc' = "head" /\ UNCHANGED verdict
         ELSE Finishing(Verdict(wf'.used, saved))
  BY DEF Account
<1>4. /\ \A c \in Phases : c > wf.phase => job[c] = NoJob
      /\ \A c \in Phases : c < wf.phase => Passed(c)
      /\ job[wf.phase] # NoJob /\ wf.phase \in Phases /\ wf.phase \in closed
      /\ wf.used = Tokens(1 .. wf.phase - 1) /\ wf.jobs = 1 .. wf.phase
  BY <1>1, Fields DEF WInv, GoroutineInv, Phases
<1>5. wf'.used = Tokens(1 .. wf.phase)
  BY <1>2, <1>4, Fields, ChargeNext DEF Tokens, WInv
<1>6. Verdict(wf'.used, saved) \in {"none", "ready_for_validation"} =>
         /\ Passed(wf.phase)
         /\ Verdict(wf'.used, saved) = "none" <=> wf.phase # Review
  BY <1>4 DEF Verdict, Passed
<1>7. CASE Verdict(wf'.used, saved) = "none"
  <2>1. pc' = "head" /\ Passed(wf.phase) /\ wf.phase < 3
    BY <1>3, <1>4, <1>6, <1>7 DEF Phases, Review
  <2> QED
    BY <1>1, <1>2, <1>4, <1>5, <2>1 DEF GoroutineInv, Passed, Tokens
<1>8. CASE Verdict(wf'.used, saved) # "none"
  <2>1. pc' = "finish" /\ verdict' = Verdict(wf'.used, saved)
    BY <1>3, <1>8 DEF Finishing
  <2>2. \A c \in Phases : ~Running(c)
    BY <1>4 DEF Running, Passed, Phases
  <2>3. wf'.used = Tokens(Phases)
    BY <1>4, <1>5, Fields, ChargeUpTo DEF Tokens, WInv, Phases
  <2>4. verdict' = "ready_for_validation" =>
           wf'.jobs = Phases /\ \A c \in Phases : Passed(c)
    <3>1. verdict' = "ready_for_validation" => wf.phase = 3 /\ Passed(wf.phase)
      BY <1>6, <1>8, <2>1 DEF Review
    <3> QED
      BY <1>2, <1>4, <3>1 DEF Phases
  <2> QED
    BY <1>1, <1>2, <2>1, <2>2, <2>3, <2>4, ToFinish
<1> QED
  BY <1>7, <1>8
-----------------------------------------------------------------------------
(* What phases are given.                                                  *)

\* A quarter of the tokens pays for a phase.
LEMMA QuarterBounds ==
    /\ Quarter \in Nat /\ 4 * Quarter =< MaxTokens /\ MaxTokens =< 4 * Quarter + 3
    /\ MinBudget =< Quarter /\ MinBudget >= 1 /\ MinBudget \in Nat /\ MaxTokens \in Nat
BY WorkflowAssumption DEF Quarter

\* A budget is what is left, less what is kept for the review; it is enough if
\* that is.
LEMMA BudgetBounds ==
    ASSUME TypeOK, NEW i \in Phases,
           NEW left, left = CASE i = 1 -> Quarter
                              [] i = 2 -> MaxTokens - wf.used - Quarter
                              [] i = 3 -> MaxTokens - wf.used
    PROVE  /\ left \in Int /\ Budget(i) \in Int /\ Budget(i) =< left
           /\ left >= MinBudget => Budget(i) >= MinBudget
<1>1. wf.used \in Nat /\ MaxTokens \in Nat /\ PhaseCap \in Nat /\ Quarter \in Nat
      /\ MinBudget \in Nat /\ (PhaseCap = 0 \/ PhaseCap >= MinBudget)
  BY WorkflowAssumption, Fields, QuarterBounds
<1>2. left \in Int /\ i \in {1, 2, 3}
  BY <1>1, ThreePhases
<1>3. Budget(i) = IF PhaseCap > 0 THEN Min2(left, PhaseCap) ELSE left
  BY <1>1, <1>2 DEF Budget, Quarter, Investigation, Implementation, Review
<1> QED
  BY <1>1, <1>2, <1>3 DEF Min2

\* The job of a phase does not exist before the phase is entered.
LEMMA AtHead ==
    ASSUME WInv, pc = "head"
    PROVE  /\ wf.phase \in 0 .. 2 /\ wf.jobs = 1 .. wf.phase /\ wf.used \in Nat
           /\ job[1].usage \in Nat /\ job[2].usage \in Nat
           /\ wf.phase = 0 => wf.used = 0
           /\ wf.phase = 1 => wf.used = job[1].usage
           /\ wf.phase = 2 => wf.used = job[1].usage + job[2].usage
<1>1. wf.phase \in 0 .. 2 /\ wf.jobs = 1 .. wf.phase /\ wf.used = Tokens(1 .. wf.phase)
  BY Fields DEF WInv, GoroutineInv
<1>2. job[1].usage \in Nat /\ job[2].usage \in Nat
  BY Fields, ThreePhases, JobFields DEF WInv
<1> QED
  BY <1>1, <1>2, Fields, ChargeSums DEF WInv, Tokens

\* Caps hold when a phase is entered, and the quarter is still there for the review.
LEMMA EnterPhaseCaps ==
    ASSUME WInv, EnterPhase
    PROVE  CapInv' /\ LimitInv'
<1> DEFINE i == wf.phase + 1
           B == Budget(i)
<1>1. /\ pc = "head" /\ UNCHANGED <<up, restarts, job>> /\ verdict = "none"
      /\ cap' = [cap EXCEPT ![i] = IF B > 0 THEN B ELSE 0]
  BY DEF EnterPhase, process, children, WInv, ProcessInv
<1>2. /\ wf'.phase = i /\ wf'.used = wf.used /\ wf'.jobs = wf.jobs /\ wf'.status = "running"
  BY DEF EnterPhase, WInv, TypeOK, WorkflowType
<1>3. /\ pc' = "spawn" => B >= MinBudget
      /\ pc' \in {"spawn", "finish"}
      /\ verdict' = "limit_reached" => B < MinBudget
  <2>1. (IF B < MinBudget THEN Finishing("limit_reached")
                          ELSE pc' = "spawn" /\ UNCHANGED verdict) \/ Finishing("failed")
    BY DEF EnterPhase
  <2>2. B \in Int /\ MinBudget \in Nat
    <3>1. i \in Phases
      BY <1>1, AtHead DEF Phases
    <3> QED
      BY <3>1, BudgetType, QuarterBounds DEF WInv
  <2> HIDE DEF B
  <2> QED
    BY <1>1, <2>1, <2>2 DEF Finishing
<1>4. wf.phase \in 0 .. 2 /\ i \in Phases /\ i \in {1, 2, 3}
  BY <1>1, AtHead DEF Phases
<1>5. /\ i = 1 => B =< Quarter /\ B >= MinBudget
      /\ i = 2 => /\ B =< MaxTokens - wf.used - Quarter
                  /\ MaxTokens - wf.used - Quarter >= MinBudget => B >= MinBudget
      /\ i = 3 => /\ B =< MaxTokens - wf.used
                  /\ MaxTokens - wf.used >= MinBudget => B >= MinBudget
      /\ B \in Int
  <2>1. TypeOK
    BY DEF WInv
  <2> HIDE DEF i
  <2>2. CASE i = 1
    BY <1>4, <2>1, <2>2, BudgetBounds, QuarterBounds
  <2>3. CASE i = 2
    BY <1>4, <2>1, <2>3, BudgetBounds
  <2>4. CASE i = 3
    BY <1>4, <2>1, <2>4, BudgetBounds
  <2> QED
    BY <1>4, <2>2, <2>3, <2>4
<1>6. /\ cap'[i] = (IF B > 0 THEN B ELSE 0) /\ \A c \in Phases : c # i => cap'[c] = cap[c]
  BY <1>1, <1>4 DEF WInv, TypeOK
<1>7. /\ wf.phase >= 1 => cap[1] =< Quarter
      /\ wf.phase >= 2 => cap[2] = 0 \/ job[1].usage + cap[2] =< MaxTokens - Quarter
      /\ cap[1] \in Nat /\ cap[2] \in Nat
  BY <1>1, Fields, ThreePhases DEF WInv, CapInv
<1> HIDE DEF B
<1>8. CapInv'
  <2>1. wf'.phase >= 1 => cap'[1] =< Quarter
    BY <1>2, <1>4, <1>5, <1>6, <1>7, QuarterBounds, ThreePhases
  <2>2. wf'.phase >= 2 => cap'[2] = 0 \/ job[1].usage + cap'[2] =< MaxTokens - Quarter
    <3>1. CASE i = 2
      <4>1. wf.used = job[1].usage /\ job[1].usage \in Nat
        BY <1>1, <3>1, AtHead
      <4>2. cap'[2] = (IF B > 0 THEN B ELSE 0)
        BY <1>6, <3>1
      <4>3. B \in Int /\ B =< MaxTokens - wf.used - Quarter
        BY <1>5, <3>1
      <4>4. cap'[2] = 0 \/ (cap'[2] = B /\ B \in Int)
        BY <4>2, <4>3
      <4>5. wf.used \in Nat /\ cap'[2] = B => job[1].usage + cap'[2] =< MaxTokens - Quarter
        BY <4>1, <4>3, QuarterBounds
      <4> QED
        BY <4>1, <4>4, <4>5
    <3>2. CASE i = 3
      <4>1. wf.phase >= 2
        BY <1>4, <3>2
      <4>2. 2 \in Phases /\ 2 # i
        BY <3>2, ThreePhases
      <4> QED
        BY <1>6, <1>7, <4>1, <4>2
    <3> QED
      BY <1>2, <1>4, <3>1, <3>2
  <2>3. wf'.phase >= 3 => \/ cap'[3] = 0
                          \/ job[1].usage + job[2].usage + cap'[3] =< MaxTokens
    BY <1>1, <1>2, <1>4, <1>5, <1>6, AtHead, QuarterBounds
  <2>4. pc' = "spawn" => wf.used + cap'[i] =< MaxTokens
    BY <1>1, <1>3, <1>4, <1>5, <1>6, AtHead, QuarterBounds
  <2>5. pc' # "append"
    BY <1>3
  <2> QED
    BY <1>1, <1>2, <2>1, <2>2, <2>3, <2>4, <2>5 DEF CapInv
<1>9. LimitInv'
  <2> SUFFICES ASSUME WithinCaps', verdict' = "limit_reached"
               PROVE  FALSE
    BY <1>2 DEF LimitInv
  <2>1. i > 1 => job[1].usage =< cap[1]
    BY <1>1, <1>6, ThreePhases DEF WithinCaps
  <2>2. i > 2 => job[2].usage =< cap[2]
    BY <1>1, <1>6, ThreePhases DEF WithinCaps
  <2>3. B < MinBudget
    BY <1>3
  <2>4. CASE i = 1
    BY <1>5, <2>3, <2>4, QuarterBounds
  <2>5. CASE i = 2
    <3>1. wf.used =< Quarter
      BY <1>1, <1>7, <2>1, <2>5, AtHead, QuarterBounds
    <3> QED
      BY <1>1, <1>5, <2>3, <2>5, <3>1, AtHead, QuarterBounds
  <2>6. CASE i = 3
    <3>1. wf.used =< MaxTokens - Quarter
      BY <1>1, <1>7, <2>1, <2>2, <2>6, AtHead, QuarterBounds
    <3> QED
      BY <1>1, <1>5, <2>3, <2>6, <3>1, AtHead, QuarterBounds
  <2> QED
    BY <1>4, <2>4, <2>5, <2>6
<1> QED
  BY <1>8, <1>9

\* The job that is started has used nothing.
LEMMA UsageKeeps ==
    ASSUME WInv, WorkflowStep
    PROVE  \A c \in Phases : job'[c].usage = job[c].usage
<1>1. CASE UNCHANGED job
  BY <1>1
<1>2. CASE /\ wf.phase \in Phases /\ job[wf.phase] = NoJob
           /\ job' = [job EXCEPT ![wf.phase] = [NoJob EXCEPT !.status = "queued"]]
  BY <1>2, Fields DEF NoJob, WInv
<1> QED
  BY <1>1, <1>2, JobsKeep

\* The other steps of runWorkflow keep to what was given.
LEMMA WorkflowCaps ==
    ASSUME WInv, WorkflowStep, ~EnterPhase
    PROVE  CapInv'
<1>1. /\ pc # "none" /\ wf'.phase = wf.phase /\ UNCHANGED cap
      /\ pc' \in {"spawn", "append"} => pc \in {"spawn", "append"} /\ wf'.used = wf.used
  BY DEF WorkflowStep, CancelledAtHead, SpawnPhase, AppendJob, CancelWait, PhaseDone,
         Account, Finish, Finishing, WInv, TypeOK, WorkflowType
<1>2. job'[1].usage = job[1].usage /\ job'[2].usage = job[2].usage
  BY UsageKeeps, ThreePhases
<1> QED
  BY <1>1, <1>2 DEF WInv, CapInv

\* Only the review leaves nothing to go on with.
LEMMA AccountLimit ==
    ASSUME WInv, Account
    PROVE  LimitInv'
<1>1. /\ pc = "account" /\ UNCHANGED <<up, restarts, job, cap>> /\ verdict = "none"
      /\ wf'.status = wf.status /\ wf'.jobs = wf.jobs
      /\ wf'.used = wf.used + job[wf.phase].usage
  BY DEF Account, process, children, WInv, ProcessInv, TypeOK, WorkflowType
<1>2. /\ wf.phase \in Phases /\ wf.jobs = 1 .. wf.phase
      /\ wf.used = Tokens(1 .. wf.phase - 1)
  BY <1>1, Fields DEF WInv, GoroutineInv, Phases
<1>3. wf.status # "limit_reached"
  BY <1>1, Statuses DEF WInv, ProcessInv, WorkflowEnds
<1>4. verdict' = "limit_reached" => wf'.used >= MaxTokens
  BY <1>1 DEF Account, Finishing, Verdict
<1>5. wf'.used = Tokens(1 .. wf.phase)
  BY <1>1, <1>2, Fields, ChargeNext DEF Tokens, WInv
<1>6. SUFFICES ASSUME WithinCaps, verdict' = "limit_reached"
               PROVE  wf.phase = 3
  BY <1>1, <1>2, <1>3 DEF LimitInv, WithinCaps, Review, Phases
<1>7. /\ job[1].usage \in Nat /\ job[2].usage \in Nat /\ cap[1] \in Nat /\ cap[2] \in Nat
      /\ job[1].usage =< cap[1] /\ job[2].usage =< cap[2]
  BY <1>6, Fields, ThreePhases, JobFields DEF WInv, WithinCaps
<1>8. /\ wf.phase >= 1 => cap[1] =< Quarter
      /\ wf.phase >= 2 => cap[2] = 0 \/ job[1].usage + cap[2] =< MaxTokens - Quarter
  BY <1>1 DEF WInv, CapInv
<1> DEFINE due == wf'.used
<1> HIDE DEF due
<1>9. ASSUME wf.phase = 1
      PROVE  FALSE
  <2>1. due = job[1].usage /\ due >= MaxTokens
    BY <1>4, <1>5, <1>6, <1>9, Fields, ChargeSums DEF WInv, Tokens, due
  <2> QED
    BY <1>7, <1>8, <1>9, <2>1, QuarterBounds
<1>10. ASSUME wf.phase = 2
       PROVE  FALSE
  <2>1. due = job[1].usage + job[2].usage /\ due >= MaxTokens
    BY <1>4, <1>5, <1>6, <1>10, Fields, ChargeSums DEF WInv, Tokens, due
  <2> QED
    BY <1>7, <1>8, <1>10, <2>1, QuarterBounds
<1> QED
  BY <1>2, <1>9, <1>10, ThreePhases

\* The verdict of a workflow becomes its status; no other step gives it one of these.
LEMMA WorkflowLimit ==
    ASSUME WInv, WorkflowStep, ~EnterPhase, ~Account
    PROVE  LimitInv'
<1>1. /\ UNCHANGED <<up, restarts, cap>>
      /\ wf.jobs \subseteq wf'.jobs
      /\ "limit_reached" \in {wf'.status, verdict'} =>
            "limit_reached" \in {wf.status, verdict}
  BY DEF WorkflowStep, CancelledAtHead, SpawnPhase, AppendJob, CancelWait, PhaseDone,
         Finish, Finishing, process, WInv, TypeOK, WorkflowType
<1>2. WithinCaps' => WithinCaps
  BY <1>1, UsageKeeps DEF WithinCaps
<1> QED
  BY <1>1, <1>2 DEF WInv, LimitInv

\* When the goroutine ends, the workflow is over and settled.
LEMMA FinishKeeps ==
    ASSUME WInv, Finish
    PROVE  ProcessInv' /\ FileInv' /\ GoroutineInv' /\ OverInv'
<1>1. /\ pc = "finish" /\ pc' = "none" /\ verdict' = "none"
      /\ UNCHANGED <<up, restarts, cap, job, jobFile, closed>>
      /\ file' \in {file, wf'}
  BY DEF Finish, process, children, Save, NoSave
<1>2. /\ wf'.status = verdict /\ wf'.used = wf.used /\ wf'.jobs = wf.jobs
      /\ wf'.phase = wf.phase
  BY DEF Finish, WInv, TypeOK, WorkflowType
<1>3. verdict \in WorkflowEnds /\ verdict # "interrupted"
  BY <1>1 DEF WInv, ProcessInv, TypeOK
<1>4. up /\ active(file.status) /\ restarts # 0
  BY <1>1 DEF WInv, ProcessInv, FileInv
<1>5. /\ \A c \in Phases : ~Running(c)
      /\ wf.used = Tokens(Phases)
      /\ verdict = "ready_for_validation" => wf.jobs = Phases /\ \A c \in Phases : Passed(c)
      /\ \A c \in Phases : c > wf.phase => job[c] = NoJob
  BY <1>1 DEF WInv, GoroutineInv
<1>6. wf.jobs \subseteq Phases /\ job \in [Phases -> JobType] /\ jobFile \in [Phases -> JobType]
  BY Fields DEF WInv
<1>7. \A c \in Phases : jobFile[c].usage =< job[c].usage /\ job[c].usage \in Nat
  BY <1>4, <1>6, JobFields DEF WInv, JobInv
<1>8. Charge(job, wf.jobs) =< wf.used /\ Charge(jobFile, wf.jobs) =< wf.used
  <2>1. \A c \in Phases : c \in wf.jobs => c \in Phases /\ job[c].usage =< job[c].usage
    BY <1>7
  <2>2. \A c \in Phases : c \in wf.jobs => c \in Phases /\ jobFile[c].usage =< job[c].usage
    BY <1>7
  <2> QED
    BY <1>5, <1>6, <2>1, <2>2, ChargeGrows DEF Tokens
<1>9. SettledBy(wf', job) /\ SettledBy(wf', jobFile)
  <2>1. verdict = "ready_for_validation" =>
           /\ \A c \in Phases : job[c].status = "completed" /\ jobFile[c] = job[c]
           /\ job[Implementation].changed
    BY <1>5, ThreePhases DEF Passed, Implementation, WInv, JobInv
  <2>2. wf.used >= Charge(job, wf.jobs) /\ wf.used >= Charge(jobFile, wf.jobs)
    BY <1>6, <1>8, ChargeType, Fields DEF WInv
  <2>3. Implementation \in Phases
    BY ThreePhases DEF Implementation
  <2> QED
    BY <1>2, <1>3, <1>5, <2>1, <2>2, <2>3 DEF SettledBy
<1>10. ProcessInv'
  BY <1>1, <1>2, <1>3, <1>4, Statuses DEF ProcessInv
<1>11. FileInv'
  <2>1. wf'.status \in WorkflowEnds /\ wf'.status # "none"
    BY <1>2, <1>3, Statuses
  <2>2. file'.status # "none"
    BY <1>1, <1>4, <2>1, Statuses
  <2>3. file'.status \in WorkflowEnds => SettledBy(file', jobFile')
    <3>1. CASE file' = wf'
      BY <1>1, <1>9, <3>1
    <3>2. CASE file' = file
      BY <1>4, <3>2, Statuses
    <3> QED
      BY <1>1, <3>1, <3>2
  <2>4. wf' # NoWorkflow
    BY <2>1 DEF NoWorkflow
  <2> QED
    BY <1>1, <1>4, <2>1, <2>2, <2>3, <2>4 DEF FileInv, Over, SettledBy
<1>12. GoroutineInv'
  BY <1>1 DEF GoroutineInv
<1>13. OverInv'
  <2>1. (\A c \in Phases : ~Running(c))' /\ Tokens(Phases)' = Tokens(Phases)
    BY <1>1, <1>5 DEF Running, Tokens
  <2>2. SettledBy(wf', job')
    BY <1>1, <1>9
  <2> QED
    BY <1>1, <1>2, <1>3, <1>5, <2>1, <2>2 DEF OverInv, SettledBy
<1> QED
  BY <1>10, <1>11, <1>12, <1>13

\* Every step of runWorkflow.
LEMMA WorkflowStepKeeps ==
    ASSUME WInv, WorkflowStep
    PROVE  WInv'
<1>1. TypeOK' /\ \A c \in Phases : JobInv(c)'
  BY WorkflowStepTypes, JobsKeep
<1>2. CASE Finish
  BY <1>1, <1>2, FinishKeeps, WorkflowCaps, WorkflowLimit DEF WInv, Finish, EnterPhase, Account
<1>3. CASE ~Finish
  <2>1. ProcessInv' /\ FileInv' /\ OverInv'
    BY <1>3, GoesOn
  <2>2. GoroutineInv'
    BY <1>3, CancelledAtHeadKeeps, EnterPhaseKeeps, SpawnPhaseKeeps, AppendJobKeeps,
       WaitKeeps, AccountKeeps DEF WorkflowStep
  <2>3. CapInv' /\ LimitInv'
    <3>1. CASE EnterPhase
      BY <3>1, EnterPhaseCaps
    <3>2. CASE ~EnterPhase
      BY <3>2, WorkflowCaps, WorkflowLimit, AccountLimit
    <3> QED
      BY <3>1, <3>2
  <2> QED
    BY <1>1, <2>1, <2>2, <2>3 DEF WInv
<1> QED
  BY <1>2, <1>3
-----------------------------------------------------------------------------
(* The steps of the jobs.                                                  *)

\* A job that is active is the one the workflow waits for: nothing that is settled
\* or paid for depends on it.
LEMMA ActiveKeeps ==
    ASSUME WInv, TypeOK', NEW c \in Phases, active(job[c].status),
           UNCHANGED <<up, restarts, wf, file, pc, verdict, cap, closed>>,
           \A d \in Phases : d # c => job'[d] = job[d] /\ jobFile'[d] = jobFile[d],
           job'[c] # NoJob, JobInv(c)'
    PROVE  WInv'
<1>1. /\ up /\ c = wf.phase /\ pc \in {"append", "wait", "drain"} /\ c \notin closed
  BY ActiveJob
<1>2. /\ active(wf.status) /\ active(file.status) /\ verdict = "none"
  BY <1>1 DEF WInv, ProcessInv, FileInv
<1>3. /\ wf.status \notin WorkflowEnds /\ file.status \notin WorkflowEnds
      /\ wf.status # "none" /\ file.status # "none"
  BY <1>2, Statuses
<1>4. ProcessInv'
  BY <1>1 DEF WInv, ProcessInv
<1>5. \A d \in Phases : JobInv(d)'
  <2>1. ASSUME NEW d \in Phases, d # c
        PROVE  JobInv(d)'
    <3>1. job'[d] = job[d] /\ jobFile'[d] = jobFile[d] /\ UNCHANGED <<up, closed>>
      BY <2>1
    <3> QED
      BY <3>1 DEF WInv, JobInv
  <2> QED
    BY <2>1
<1>6. FileInv'
  BY <1>1, <1>2, <1>3 DEF FileInv, Over, NoWorkflow
<1>7. OverInv' /\ LimitInv'
  BY <1>2, <1>3 DEF OverInv, Over, LimitInv, WorkflowEnds
<1>8. GoroutineInv'
  <2>1. \A d \in Phases : d > wf.phase => job'[d] = NoJob
    BY <1>1 DEF WInv, GoroutineInv, Phases
  <2>2. \A d \in Phases : d < wf.phase => Passed(d)'
    <3>1. \A d \in Phases : d < wf.phase => Passed(d) /\ d # c
      BY <1>1 DEF WInv, GoroutineInv, Phases
    <3> QED
      BY <3>1 DEF Passed
  <2>3. Tokens(1 .. wf.phase - 1)' = Tokens(1 .. wf.phase - 1)
    <3> DEFINE paid == 1 .. wf.phase - 1
    <3>1. \A d \in Phases : d \in paid => job'[d].usage = job[d].usage
      BY <1>1 DEF Phases
    <3>2. Charge(job', paid) = Charge(job, paid)
      <4> HIDE DEF paid
      <4> QED
        BY <3>1, ChargeSame
    <3>3. wf' = wf
      OBVIOUS
    <3> QED
      BY <3>2, <3>3 DEF Tokens
  <2> QED
    BY <1>1, <2>1, <2>2, <2>3 DEF WInv, GoroutineInv
<1>9. CapInv'
  <2>1. /\ wf.phase >= 2 => job'[1].usage = job[1].usage
        /\ wf.phase >= 3 => job'[1].usage = job[1].usage /\ job'[2].usage = job[2].usage
    BY <1>1, ThreePhases
  <2> QED
    BY <1>1, <2>1 DEF WInv, CapInv
<1> QED
  BY <1>4, <1>5, <1>6, <1>7, <1>8, <1>9 DEF WInv

\* A job that is saved may belong to a workflow that is over; the file of that
\* workflow is what the job is charged to.
LEMMA JobSavedKeeps ==
    ASSUME WInv, TypeOK', NEW c \in Phases, JobSaved(c)
    PROVE  WInv'
<1>1. /\ job[c] # NoJob /\ jobFile' = [jobFile EXCEPT ![c] = job[c]]
      /\ UNCHANGED <<process, wf, file, pc, ctx, err, verdict, cap, job, closed>>
  BY DEF JobSaved, JobsMove
<1>2. up /\ jobFile[c] # NoJob /\ (pc = "none" => Over)
  BY <1>1, JobExists
<1>3. jobFile'[c] = job[c] /\ \A d \in Phases : d # c => jobFile'[d] = jobFile[d]
  BY <1>1, Fields DEF WInv
<1>4. \A d \in Phases : /\ jobFile[d].usage =< job[d].usage
                        /\ job[d].usage \in Nat /\ jobFile'[d].usage =< job[d].usage
  BY <1>2, <1>3, Fields, JobFields DEF WInv, JobInv
<1>5. ProcessInv' /\ GoroutineInv' /\ CapInv' /\ LimitInv'
  <2>1. UNCHANGED <<up, restarts, wf, file, pc, verdict, cap, job, closed>>
    BY <1>1 DEF process
  <2>2. ProcessInv' /\ GoroutineInv'
    BY <2>1 DEF WInv, ProcessInv, GoroutineInv, Passed, Running, Tokens
  <2>3. CapInv' /\ LimitInv'
    BY <2>1 DEF WInv, CapInv, LimitInv, WithinCaps
  <2> QED
    BY <2>2, <2>3
<1>6. \A d \in Phases : JobInv(d)'
  <2> SUFFICES ASSUME NEW d \in Phases
               PROVE  JobInv(d)'
    OBVIOUS
  <2>1. UNCHANGED <<up, job, closed>>
    BY <1>1 DEF process
  <2>2. CASE d = c
    BY <1>1, <1>3, <1>4, <2>1, <2>2 DEF WInv, JobInv
  <2>3. CASE d # c
    BY <1>3, <2>1, <2>3 DEF WInv, JobInv
  <2> QED
    BY <2>2, <2>3
<1>7. OverInv'
  <2>1. UNCHANGED <<up, restarts, wf, job, closed>>
    BY <1>1 DEF process
  <2>2. \A d \in Phases : jobFile[d].usage = job[d].usage => jobFile'[d].usage = job[d].usage
    BY <1>3
  <2> QED
    BY <2>1, <2>2 DEF WInv, OverInv, Over, SettledBy, Running, Tokens
<1>8. FileInv'
  <2>1. file.status # "none"
    BY <1>2 DEF WInv, FileInv
  <2>2. ASSUME file.status \in WorkflowEnds
        PROVE  SettledBy(file, jobFile')
    <3>1. pc = "none" /\ Over /\ ~active(file.status) /\ file = wf
      <4>1. ~active(file.status)
        BY <2>2, Statuses
      <4>2. pc = "none"
        BY <4>1 DEF WInv, FileInv
      <4> QED
        BY <1>2, <4>1, <4>2 DEF WInv, FileInv
    <3>2. /\ SettledBy(wf, job)
          /\ wf.status = "interrupted" => \A d \in Phases : jobFile[d].usage = job[d].usage
      BY <1>2, <3>1 DEF WInv, OverInv
    <3>3. wf.used >= Charge(jobFile', wf.jobs)
      <4>1. Charge(jobFile', wf.jobs) =< Charge(job, wf.jobs)
        BY <1>4, ChargeGrows DEF WInv, TypeOK
      <4>2. /\ Charge(jobFile', wf.jobs) \in Nat /\ Charge(job, wf.jobs) \in Nat
            /\ wf.used \in Nat /\ wf.used >= Charge(job, wf.jobs)
        BY <3>2, ChargeType, Fields DEF WInv, TypeOK, SettledBy
      <4> QED
        BY <4>1, <4>2
    <3>4. wf.status = "interrupted" => wf.used = Charge(jobFile', wf.jobs)
      <4>1. wf.status = "interrupted" => \A d \in Phases : jobFile'[d].usage = job[d].usage
        BY <1>3, <3>2
      <4>2. wf.status = "interrupted" => Charge(jobFile', wf.jobs) = Charge(job, wf.jobs)
        BY <4>1, ChargeSame
      <4> QED
        BY <3>2, <4>2 DEF SettledBy
    <3>5. wf.status = "ready_for_validation" =>
             \A d \in Phases : job[d].status = "completed" /\ jobFile'[d] = job[d]
      BY <1>3, <3>2 DEF SettledBy, WInv, JobInv
    <3>6. Implementation \in Phases
      BY ThreePhases DEF Implementation
    <3> QED
      BY <3>1, <3>2, <3>3, <3>4, <3>5, <3>6 DEF SettledBy
  <2> QED
    BY <1>1, <2>1, <2>2 DEF WInv, FileInv, Over, process
<1> QED
  BY <1>5, <1>6, <1>7, <1>8 DEF WInv

\* The done channel of a job that has stopped is closed.
LEMMA JobDoneKeeps ==
    ASSUME WInv, TypeOK', NEW c \in Phases, JobDone(c)
    PROVE  WInv'
<1>1. /\ job[c] # NoJob /\ ~active(job[c].status) /\ closed' = closed \cup {c}
      /\ UNCHANGED <<up, restarts, wf, file, pc, verdict, cap, job, jobFile>>
  BY DEF JobDone, JobsMove, process
<1>2. up
  BY <1>1, JobExists
<1>3. ProcessInv' /\ FileInv' /\ \A d \in Phases : JobInv(d)'
  BY <1>1, <1>2 DEF WInv, ProcessInv, FileInv, JobInv, Over, SettledBy
<1>4. /\ \A d \in Phases : Passed(d) => Passed(d)'
      /\ \A d \in Phases : ~Running(d) => ~Running(d)'
      /\ \A S : Tokens(S)' = Tokens(S)
  BY <1>1 DEF Passed, Running, Tokens
<1>5. GoroutineInv'
  <2>1. wf.phase > 0 => wf.phase \in Phases
    BY Fields DEF WInv, Phases
  <2> QED
    BY <1>1, <1>4, <2>1 DEF WInv, GoroutineInv
<1>6. OverInv'
  BY <1>1, <1>4 DEF WInv, OverInv, Over, SettledBy
<1>7. CapInv' /\ LimitInv'
  BY <1>1 DEF WInv, CapInv, LimitInv, WithinCaps
<1> QED
  BY <1>3, <1>5, <1>6, <1>7 DEF WInv

\* Every step of a job.
LEMMA JobStepKeeps ==
    ASSUME WInv, NEW c \in Phases, JobStep(c)
    PROVE  WInv'
<1>1. /\ TypeOK' /\ UNCHANGED <<process, wf, file, pc, ctx, err, verdict, cap>>
      /\ \A d \in Phases : d # c => job'[d] = job[d] /\ jobFile'[d] = jobFile[d]
      /\ UNCHANGED <<up, restarts>>
  BY JobStepTypes DEF WInv, process
<1>2. job \in [Phases -> JobType] /\ jobFile \in [Phases -> JobType]
  BY Fields DEF WInv
<1>3. job[c] \in JobType /\ job[c].usage \in Nat /\ jobFile[c].usage \in Nat
  BY <1>2, JobFields
<1>4. /\ active(job[c].status) =>
            up /\ up' /\ c \notin closed /\ job[c] # NoJob /\ jobFile[c] # NoJob
      /\ jobFile[c].status = "none" => jobFile[c] = NoJob
      /\ up => jobFile[c].usage =< job[c].usage
  BY <1>1, ActiveJob DEF WInv, JobInv, process
<1>5. CASE JobSpends(c)
  <2>1. PICK n \in {1, cap[c], cap[c] + Overshoot} :
           /\ n > job[c].usage
           /\ job' = [job EXCEPT ![c].status = "running", ![c].usage = n]
    BY <1>5 DEF JobSpends
  <2>2. /\ job'[c] = [job[c] EXCEPT !.status = "running", !.usage = n]
        /\ jobFile' = jobFile /\ closed' = closed /\ active(job[c].status)
    BY <1>2, <1>5, <2>1 DEF JobSpends, JobType
  <2>3. job'[c].status = "running" /\ job'[c].usage = n /\ job'[c] # NoJob
    <3>1. job'[c].status = "running" /\ job'[c].usage = n
      BY <1>3, <2>2 DEF JobType
    <3> QED
      BY <3>1 DEF NoJob
  <2>4. n \in Nat
    BY Fields, WorkflowAssumption DEF WInv
  <2>5. jobFile[c].usage =< n
    BY <1>3, <1>4, <2>1, <2>2, <2>4
  <2>6. JobInv(c)'
    BY <1>4, <2>2, <2>3, <2>5, Statuses DEF JobInv
  <2> QED
    BY <1>1, <2>2, <2>3, <2>6, ActiveKeeps
<1>6. CASE JobEdits(c)
  <2>1. /\ job'[c] = [job[c] EXCEPT !.changed = TRUE]
        /\ jobFile' = jobFile /\ closed' = closed /\ job[c].status = "running"
    BY <1>2, <1>6 DEF JobEdits
  <2>2. /\ job'[c].status = "running" /\ job'[c].usage = job[c].usage /\ job'[c] # NoJob
        /\ active(job[c].status)
    BY <1>3, <2>1, Statuses DEF JobType, NoJob
  <2>3. JobInv(c)'
    BY <1>4, <2>1, <2>2, Statuses DEF JobInv
  <2> QED
    BY <1>1, <2>1, <2>2, <2>3, ActiveKeeps
<1>7. CASE JobSaved(c)
  BY <1>1, <1>7, JobSavedKeeps
<1>8. CASE JobEnded(c)
  <2>1. PICK s \in JobEnds : JobStops(c, s)
    BY <1>8 DEF JobEnded
  <2>2. /\ job'[c] = [job[c] EXCEPT !.status = s]
        /\ closed' = closed /\ active(job[c].status)
        /\ jobFile'[c] = job'[c] \/ (s # "completed" /\ jobFile'[c] = jobFile[c])
    BY <1>2, <2>1 DEF JobStops
  <2>3. /\ job'[c].status = s /\ job'[c].usage = job[c].usage /\ job'[c] # NoJob
        /\ s # "none" /\ ~active(s)
    BY <1>3, <2>2, Statuses DEF JobType, NoJob
  <2>4. JobInv(c)'
    <3>1. CASE jobFile'[c] = job'[c]
      BY <1>3, <1>4, <2>2, <2>3, <3>1 DEF JobInv
    <3>2. CASE s # "completed" /\ jobFile'[c] = jobFile[c]
      BY <1>3, <1>4, <2>2, <2>3, <3>2 DEF JobInv
    <3> QED
      BY <2>2, <3>1, <3>2
  <2> QED
    BY <1>1, <2>2, <2>3, <2>4, ActiveKeeps
<1>9. CASE JobDone(c)
  BY <1>1, <1>9, JobDoneKeeps
<1>10. CASE JobCancelled(c)
  <2>1. UNCHANGED <<job, jobFile, closed>> /\ active(job[c].status)
    BY <1>10 DEF JobCancelled
  <2>2. JobInv(c)'
    BY <1>1, <2>1 DEF WInv, JobInv, process
  <2> QED
    BY <1>1, <1>4, <2>1, <2>2, ActiveKeeps
<1> QED
  BY <1>5, <1>6, <1>7, <1>8, <1>9, <1>10 DEF JobStep
-----------------------------------------------------------------------------
(* The invariant.                                                          *)

\* Before the process has ever started there is nothing.
LEMMA WInvInit ==
    Init => WInv
<1> SUFFICES ASSUME Init
             PROVE  WInv
  OBVIOUS
<1>1. /\ up = FALSE /\ wf = NoWorkflow /\ file = NoWorkflow /\ pc = "none"
      /\ verdict = "none" /\ closed = {} /\ cancelled = {}
      /\ job = [c \in Phases |-> NoJob] /\ jobFile = [c \in Phases |-> NoJob]
      /\ cap = [c \in Phases |-> 0] /\ restarts = 0
      /\ stopping = FALSE /\ ctx = FALSE /\ err = FALSE
  BY DEF Init
<1>2. TypeOK
  <2>1. NoWorkflow \in WorkflowType
    BY DEF NoWorkflow, WorkflowType
  <2> QED
    BY <1>1, <2>1, JobTypes DEF TypeOK
<1>3. wf.status = "none" /\ file.status = "none" /\ "none" \notin WorkflowEnds
  BY <1>1 DEF NoWorkflow, WorkflowEnds
<1>4. ProcessInv /\ FileInv
  BY <1>1, <1>3, Statuses DEF ProcessInv, FileInv
<1>5. \A c \in Phases : JobInv(c)
  BY <1>1, Statuses DEF JobInv, NoJob
<1>6. GoroutineInv /\ OverInv /\ CapInv /\ LimitInv
  BY <1>1 DEF GoroutineInv, OverInv, CapInv, LimitInv
<1> QED
  BY <1>2, <1>4, <1>5, <1>6 DEF WInv

\* Every step keeps it.
LEMMA WInvNext ==
    WInv /\ [Next]_vars => WInv'
<1> SUFFICES ASSUME WInv, [Next]_vars
             PROVE  WInv'
  OBVIOUS
<1>1. CASE New
  BY <1>1, NewKeeps
<1>2. CASE Stop \/ ContextDone
  BY <1>2, ContextsKeep
<1>3. CASE CloseManager \/ Crash
  BY <1>3, MemoryLostKeeps DEF CloseManager, Crash
<1>4. CASE StartWorkflow
  BY <1>4, StartKeeps
<1>5. CASE WorkflowStep
  BY <1>5, WorkflowStepKeeps
<1>6. CASE \E c \in Phases : JobStep(c)
  BY <1>6, JobStepKeeps
<1>7. CASE UNCHANGED vars
  <2>1. UNCHANGED <<up, stopping, restarts, wf, file, pc, ctx, err, verdict, cap, job,
                    jobFile, cancelled, closed>>
    BY <1>7 DEF vars
  <2>2. TypeOK' /\ ProcessInv' /\ (\A c \in Phases : JobInv(c)') /\ FileInv'
    BY <2>1 DEF WInv, TypeOK, ProcessInv, JobInv, FileInv, Over, SettledBy
  <2>3. GoroutineInv' /\ OverInv'
    BY <2>1 DEF WInv, GoroutineInv, Tokens, Passed, Running, OverInv, Over, SettledBy
  <2>4. CapInv' /\ LimitInv'
    BY <2>1 DEF WInv, CapInv, LimitInv, WithinCaps
  <2> QED
    BY <2>2, <2>3, <2>4 DEF WInv
<1> QED
  BY <1>1, <1>2, <1>3, <1>4, <1>5, <1>6, <1>7 DEF Next

\* It holds always.
LEMMA WInvCorrect ==
    Spec => []WInv
BY WInvInit, WInvNext, PTL DEF Spec
-----------------------------------------------------------------------------
(* Theorems.                                                               *)

\* Every field, counter and status stays within its type: the workflow knows three
\* phases and never an unlisted status.
THEOREM WorkflowTypeCorrect ==
    Spec => []TypeOK
<1>1. WInv => TypeOK
  BY DEF WInv
<1> QED
  BY <1>1, WInvCorrect, PTL

\* finish is called only after the last job has been waited for: a workflow that is
\* over leaves no job running, and one that is not has only that of its phase.
THEOREM JobsStopFirstCorrect ==
    Spec => []JobsStopFirst
<1>1. WInv => JobsStopFirst
  <2> SUFFICES ASSUME WInv
               PROVE  JobsStopFirst
    OBVIOUS
  <2>1. Over => up
    BY Statuses DEF WInv, ProcessInv, Over, NoWorkflow
  <2>2. Over => \A c \in Phases : ~Running(c)
    BY <2>1 DEF WInv, OverInv
  <2>3. ASSUME NEW c \in Phases, Running(c)
        PROVE  c = wf.phase
    <3>1. job[c] # NoJob /\ c \notin closed
      BY <2>3 DEF Running
    <3>2. pc # "none"
      BY <2>2, <2>3, <3>1, JobExists
    <3>3. c =< wf.phase
      BY <3>1, <3>2, JobExists
    <3>4. ~(c < wf.phase)
      BY <3>1, <3>2 DEF WInv, GoroutineInv, Passed
    <3> QED
      BY <3>3, <3>4, Fields DEF WInv, Phases
  <2> QED
    BY <2>2, <2>3 DEF JobsStopFirst
<1> QED
  BY <1>1, WInvCorrect, PTL

\* Whatever became of a phase, and however often the process was restarted, the
\* workflow that is over is charged for the jobs it lists.
THEOREM AccountedCorrect ==
    Spec => []AccountedExactly
<1>1. WInv => AccountedExactly
  <2> SUFFICES ASSUME WInv, Over
               PROVE  /\ wf.used >= Tokens(wf.jobs)
                      /\ wf.status = "interrupted" => wf.used = Tokens(wf.jobs)
                      /\ restarts = 1 => wf.used = Tokens(Phases)
    BY DEF AccountedExactly
  <2>1. up
    BY Statuses DEF WInv, ProcessInv, Over, NoWorkflow
  <2> QED
    BY <2>1 DEF WInv, OverInv, SettledBy, Tokens
<1> QED
  BY <1>1, WInvCorrect, PTL

\* Ready for validation is said only of three completed jobs and an edit, and said
\* again after a restart only if the files of the jobs say so.
THEOREM ReadyCorrect ==
    Spec => []ReadyIsEarned
<1>1. WInv => ReadyIsEarned
  <2> SUFFICES ASSUME WInv, wf.status = "ready_for_validation"
               PROVE  /\ wf.jobs = Phases
                      /\ \A c \in Phases : job[c].status = "completed"
                      /\ job[Implementation].changed
    BY DEF ReadyIsEarned
  <2>1. up /\ Over
    BY Statuses DEF WInv, ProcessInv, Over, NoWorkflow, WorkflowEnds
  <2> QED
    BY <2>1 DEF WInv, OverInv, SettledBy
<1> QED
  BY <1>1, WInvCorrect, PTL

\* A phase is given what is left, less the quarter of the review; while its jobs keep
\* to that, the workflow keeps to its tokens and none but the review exhausts them.
THEOREM PhasesFundedCorrect ==
    Spec => []PhasesFunded
<1>1. WInv => PhasesFunded
  <2> SUFFICES ASSUME WInv
               PROVE  PhasesFunded
    OBVIOUS
  <2>1. pc \in {"spawn", "append"} => wf.used + cap[wf.phase] =< MaxTokens
    BY DEF WInv, CapInv
  <2>2. ASSUME restarts =< 1, WithinCaps
        PROVE  /\ wf.used =< MaxTokens
               /\ "limit_reached" \in {wf.status, verdict} => Review \in wf.jobs
    <3>1. CASE wf.status = "none"
      <4>1. wf = NoWorkflow /\ pc = "none"
        BY <3>1, Statuses DEF WInv, FileInv, ProcessInv
      <4>2. verdict = "none" /\ wf.used = 0
        BY <4>1 DEF WInv, ProcessInv, NoWorkflow
      <4> QED
        BY <3>1, <4>2, QuarterBounds
    <3>2. CASE wf.status # "none"
      <4>1. up /\ restarts = 1
        <5>1. up
          BY <3>2 DEF WInv, ProcessInv, NoWorkflow
        <5>2. restarts # 0 /\ restarts \in Nat
          BY <5>1 DEF WInv, ProcessInv, TypeOK
        <5> QED
          BY <2>2, <5>1, <5>2
      <4>2. pc # "none" \/ Over
        BY <3>2, Fields, Statuses DEF WInv, ProcessInv, Over
      <4>3. /\ job[1].usage \in Nat /\ job[2].usage \in Nat /\ job[3].usage \in Nat
            /\ cap[1] \in Nat /\ cap[2] \in Nat /\ cap[3] \in Nat
            /\ job[1].usage =< cap[1] /\ job[2].usage =< cap[2] /\ job[3].usage =< cap[3]
        BY <2>2, Fields, ThreePhases, JobFields DEF WInv, WithinCaps
      <4>4. \A c \in Phases : c > wf.phase => job[c] = NoJob
        BY <4>1, <4>2 DEF WInv, GoroutineInv, OverInv
      <4>5. /\ wf.phase < 1 => job[1].usage = 0
            /\ wf.phase < 2 => job[2].usage = 0
            /\ wf.phase < 3 => job[3].usage = 0
        BY <4>4, ThreePhases DEF NoJob
      <4>6. /\ wf.phase >= 1 => cap[1] =< Quarter
            /\ wf.phase >= 2 => cap[2] = 0 \/ job[1].usage + cap[2] =< MaxTokens - Quarter
            /\ wf.phase >= 3 => \/ cap[3] = 0
                                \/ job[1].usage + job[2].usage + cap[3] =< MaxTokens
        BY <4>1 DEF WInv, CapInv
      <4>7. wf.used =< job[1].usage + job[2].usage + job[3].usage
        <5>1. wf.phase \in 0 .. 3
          BY Fields DEF WInv
        <5>2. \/ wf.used = Tokens(Phases)
              \/ pc = "head" /\ wf.used = Tokens(1 .. wf.phase)
              \/ pc # "head" /\ wf.phase > 0 /\ wf.used = Tokens(1 .. wf.phase - 1)
          BY <4>1, <4>2 DEF WInv, TypeOK, GoroutineInv, OverInv
        <5>3. /\ Tokens(1 .. 0) = 0 /\ Tokens(1 .. 1) = job[1].usage
              /\ Tokens(1 .. 2) = job[1].usage + job[2].usage
              /\ Tokens(1 .. 3) = job[1].usage + job[2].usage + job[3].usage
          BY Fields, ChargeSums DEF Tokens, WInv
        <5>4. Phases = 1 .. 3
          BY DEF Phases
        <5>5. wf.used \in {Tokens(1 .. 0), Tokens(1 .. 1), Tokens(1 .. 2), Tokens(1 .. 3)}
          <6> DEFINE k == IF pc = "head" THEN wf.phase ELSE wf.phase - 1
          <6>1. CASE wf.used = Tokens(Phases)
            BY <5>4, <6>1
          <6>2. CASE wf.used # Tokens(Phases)
            <7>1. wf.used = Tokens(1 .. k)
              BY <5>2, <6>2
            <7>2. k \in {0, 1, 2, 3}
              BY <5>1, <5>2, <6>2
            <7> HIDE DEF k
            <7> QED
              BY <7>1, <7>2
          <6> QED
            BY <6>1, <6>2
        <5> QED
          BY <4>3, <5>3, <5>5
      <4>8. job[1].usage + job[2].usage + job[3].usage =< MaxTokens
        <5>1. CASE wf.phase = 0
          BY <4>3, <4>5, <5>1, QuarterBounds
        <5>2. CASE wf.phase = 1
          BY <4>3, <4>5, <4>6, <5>2, QuarterBounds
        <5>3. CASE wf.phase = 2
          BY <4>3, <4>5, <4>6, <5>3, QuarterBounds
        <5>4. CASE wf.phase = 3
          BY <4>3, <4>6, <5>4, QuarterBounds
        <5>5. wf.phase \in {0, 1, 2, 3}
          BY Fields DEF WInv
        <5> QED
          BY <5>1, <5>2, <5>3, <5>4, <5>5
      <4>9. wf.used =< MaxTokens
        BY <4>3, <4>7, <4>8, Fields, QuarterBounds DEF WInv
      <4> QED
        BY <2>2, <4>1, <4>9 DEF WInv, LimitInv
    <3> QED
      BY <3>1, <3>2
  <2> QED
    BY <2>1, <2>2 DEF PhasesFunded, WithinCaps
<1> QED
  BY <1>1, WInvCorrect, PTL

\* Only Spawn starts the job of a phase, once, and only when every phase before it
\* is completed, listed and paid for; no restart starts it again.
THEOREM PhasesInOrderCorrect ==
    Spec => PhasesInOrder
<1> DEFINE InOrder ==
        \A c \in Phases : job[c] = NoJob /\ job'[c] # NoJob /\ up =>
            /\ jobFile[c] = NoJob
            /\ \A b \in 1 .. c - 1 : b \in wf.jobs /\ job[b].status = "completed"
            /\ wf.used = Tokens(1 .. c - 1)
<1>1. WInv /\ [Next]_vars => [InOrder]_vars
  <2> SUFFICES ASSUME WInv, Next,
                      NEW c \in Phases, job[c] = NoJob, job'[c] # NoJob, up
               PROVE  /\ jobFile[c] = NoJob
                      /\ \A b \in 1 .. c - 1 : b \in wf.jobs /\ job[b].status = "completed"
                      /\ wf.used = Tokens(1 .. c - 1)
    OBVIOUS
  <2>1. ~active(job[c].status) /\ job[c].status # "running"
    BY Statuses DEF NoJob
  <2>2. ~(\E d \in Phases : JobStep(d))
    <3> SUFFICES ASSUME NEW d \in Phases, JobStep(d)
                 PROVE  FALSE
      OBVIOUS
    <3>1. d = c
      BY JobStepTypes DEF WInv
    <3>2. job' = job
      BY <2>1, <3>1 DEF JobStep, JobSpends, JobEdits, JobSaved, JobEnded, JobStops,
                        JobDone, JobCancelled
    <3> QED
      BY <3>2
  <2>3. WorkflowStep
    <3>1. ~MemoryLost
      BY DEF MemoryLost
    <3> QED
      BY <2>2, <3>1 DEF Next, New, Stop, CloseManager, Crash, StartWorkflow, ContextDone,
                        children
  <2>4. SpawnPhase /\ c = wf.phase
    BY <2>3, JobsKeep, Fields DEF WInv
  <2>5. /\ wf.jobs = 1 .. c - 1 /\ wf.used = Tokens(1 .. c - 1)
        /\ \A b \in Phases : b < c => Passed(b)
    BY <2>4 DEF SpawnPhase, WInv, GoroutineInv
  <2>6. \A b \in 1 .. c - 1 : b \in Phases /\ b < c
    BY DEF Phases
  <2>7. jobFile[c] = NoJob
    BY DEF WInv, JobInv
  <2> QED
    BY <2>5, <2>6, <2>7 DEF Passed
<1>2. Spec => [][InOrder]_vars
  BY <1>1, WInvCorrect, PTL DEF Spec
<1> QED
  BY <1>2 DEF PhasesInOrder
=============================================================================
