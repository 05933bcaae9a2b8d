------------------------------- MODULE Runner -------------------------------
(***************************************************************************)
(* One run of a job, from the slot it holds to the outcome it leaves (the  *)
(* loop of run in internal/worker/runner.go, with internal/worker/         *)
(* autopilot.go and metrics.go): the token and model-call budgets, the     *)
(* detection of implementation work that makes no edits, checkpoints, and  *)
(* the compaction of the conversation.                                     *)
(*                                                                         *)
(* Tokens are counted in coarse units and the conversation is represented  *)
(* by its size; everything that is added to it adds one unit.  Jobs.tla    *)
(* has the same run with all of this left to chance; ImplementsWorker says *)
(* that every step here is a step there.                                   *)
(***************************************************************************)
EXTENDS Integers, FiniteSets

CONSTANTS
    MaxSteps,       \* cfg.MaxSteps, the model calls of a run
    Limit,          \* the token budget of the run
    MaxOutput,      \* cfg.MaxOutput
    MinOutput,      \* the least output asked for (256)
    SummaryOutput,  \* the most output a checkpoint gets (2048)
    Share,          \* the part of the remaining budget for one output (8)
    LargeContext,   \* a prompt worth compacting (12000)
    Seed,           \* size of the assignment and the direct follow-ups
    NudgeAfter,     \* calls without edits before the nudge (8)
    StallAfter,     \* calls without edits before the run is blocked (16)
    StallEarly,     \* the same with repeated reads (12)
    StallReads,     \* that many repeated reads (3)
    MaxCompactions, \* compactions of a run (2)
    MaxCalls,       \* tool calls of one answer that are executed (4)
    Recent,         \* size of the recent exchanges kept by a compaction
    Reports,        \* what progressSignature tells apart
    NoReport,       \* none of them
    Past,           \* bound: size of the earlier runs of a continued job
    PastEdits,      \* bound: edits made in them
    PastReads,      \* bound: reads repeated in them
    MaxEdits,       \* bound: edits of a run
    MaxRereads,     \* bound: repeated reads from one edit to the next
    Spare           \* bound: how far actual usage may stay below its estimate

ASSUME RunnerAssumption ==
    /\ {MaxSteps, Limit, MaxOutput, MinOutput, SummaryOutput, Share, Seed}
          \subseteq Nat \ {0}
    /\ {LargeContext, NudgeAfter, StallAfter, StallEarly, StallReads,
        MaxCompactions, MaxCalls, Recent, Past, PastEdits, PastReads, MaxEdits,
        MaxRereads}
          \subseteq Nat
    /\ Spare \subseteq Nat
    /\ NoReport \notin Reports

VARIABLES
    task,           \* Autopilot and Intent = "implementation"
    pc,             \* where the goroutine is
    ctx,            \* the run's context is done
    clock,          \* what is left of the timeout, in multiples of the reserve
    status,         \* Job.Status
    disk,           \* Job.Status in the job file
    used,           \* Usage.Total - baseTokens
    steps,          \* Steps - baseSteps
    size,           \* size of history
    turned,         \* turns > 0
    noEditTurns, nudged, loopBlocked,
    edits,          \* Metrics.SuccessfulEdits, over all runs of the job
    repeats,        \* Metrics.RepeatedReads, likewise
    baseEdits,      \* edits when the run began
    baseRepeated,   \* repeats at the last edit, or when the run began
    forceSummary,
    compactions,
    checkpoint,     \* Job.Checkpoint
    lastRecovery,   \* signature of the checkpoint last recovered from
    progressed,     \* progress # lastProgress
    answer,         \* the answer being processed: calls to go, calls made, text
    \* history variables, about this run alone
    touched,        \* it has made an edit
    sinceEdit,      \* its working calls since the last edit
    rereads         \* its repeated reads since the last edit

metrics == <<edits, repeats, baseEdits, baseRepeated>>
seen == <<touched, sinceEdit, rereads>>
progress == <<noEditTurns, nudged, loopBlocked, progressed, metrics, seen>>
budget == <<used, steps>>
recovery == <<compactions, lastRecovery>>
vars == <<task, pc, ctx, clock, status, disk, used, steps, size, turned,
          noEditTurns, nudged, loopBlocked, edits, repeats, baseEdits,
          baseRepeated, forceSummary, compactions, checkpoint, lastRecovery,
          progressed, answer, touched, sinceEdit, rereads>>

\* complete and remaining = TRUE together are refused by validateCheckpoint.
Checkpoint ==
    {c \in [complete : BOOLEAN, remaining : BOOLEAN, report : Reports] :
        ~(c.complete /\ c.remaining)}
NoCheckpoint == [complete |-> FALSE, remaining |-> FALSE, report |-> NoReport]
NoAnswer == [todo |-> 0, calls |-> 0, text |-> FALSE]

Outcomes == {"completed", "failed", "cancelled", "limit_reached",
             "needs_attention"}

Min2(a, b) == IF a < b THEN a ELSE b
Max2(a, b) == IF a > b THEN a ELSE b

\* cfg.MaxOutputTokens and the cost of a checkpoint of the conversation as it
\* is; the request for it adds one message.
Output == Min2(MaxOutput, Max2(MinOutput, (Limit - used) \div Share))
SummaryOut == Min2(Output, SummaryOutput)
SummaryCost == size + 1 + SummaryOut

\* What a request may turn out to cost that was estimated at e tokens; the
\* answer may come without the counts.
Usage(e) == {0} \cup {n \in {e - d : d \in Spare} : n >= 0}

\* Mutant of Edited: an edit of an earlier run counts.
EditedEver == edits > 0

\* What the metrics say of this run; they are kept from run to run.
Edited == edits # baseEdits
Repeated == repeats - baseRepeated

Incomplete == checkpoint # NoCheckpoint /\ ~checkpoint.complete

\* The reasons to ask for a checkpoint instead of going on.
Summarize ==
    /\ task.automatic
    /\ \/ forceSummary
       \/ compactions < MaxCompactions /\ turned /\ size >= LargeContext
       \/ steps >= MaxSteps - 1
       \/ used + size + Output + SummaryCost > Limit
       \/ turned /\ clock = "last"
-----------------------------------------------------------------------------
Init ==
    /\ task \in [automatic : BOOLEAN, implementation : BOOLEAN]
    /\ pc = "top" /\ ctx = FALSE /\ clock = "ample"
    /\ status = "running" /\ disk = "queued"
    /\ used = 0 /\ steps = 0 /\ turned = FALSE
    /\ noEditTurns = 0 /\ nudged = FALSE /\ loopBlocked = FALSE
    /\ forceSummary = FALSE
    /\ compactions = 0 /\ lastRecovery = NoReport /\ progressed = FALSE
    \* a continued job still has its conversation and its metrics, and the
    \* checkpoint its last run completed with
    /\ \/ size = Seed /\ edits = 0 /\ repeats = 0
       \/ size = Seed + Past /\ edits = PastEdits /\ repeats = PastReads
    /\ baseEdits = edits /\ baseRepeated = repeats
    /\ checkpoint \in {NoCheckpoint} \cup
          {c \in Checkpoint : task.automatic => c.complete}
    /\ answer = NoAnswer /\ touched = FALSE /\ sinceEdit = 0 /\ rereads = 0

\* fail(s) and the return from run; the save may fail too.
Fail(s) ==
    /\ status' = s
    /\ disk' \in {s, disk}
    /\ pc' = "release"

\* Cancel, shutdown, or the timeout.
ContextDone ==
    /\ pc # "release" /\ pc # "failing" /\ ~ctx
    /\ ctx' = TRUE
    /\ UNCHANGED <<task, pc, clock, status, disk, budget, size, turned, progress,
                   forceSummary, recovery, checkpoint, answer>>

\* Less than two reserves are left; less than one.  Only autopilot looks.
Tick ==
    /\ task.automatic /\ pc # "release" /\ clock # "last"
    /\ clock' = IF clock = "ample" THEN "short" ELSE "last"
    /\ UNCHANGED <<task, pc, ctx, status, disk, budget, size, turned, progress,
                   forceSummary, recovery, checkpoint, answer>>
-----------------------------------------------------------------------------
(* The head of the loop.                                                   *)

\* Mutant of CancelledAtHead: a status no reader knows.
CancelledMisspelt ==
    /\ pc = "top" /\ ctx
    /\ Fail("canceled")
    /\ UNCHANGED <<task, ctx, clock, budget, size, turned, progress, forceSummary,
                   recovery, checkpoint, answer>>

CancelledAtHead ==
    /\ pc = "top" /\ ctx
    /\ Fail("cancelled")
    /\ UNCHANGED <<task, ctx, clock, budget, size, turned, progress, forceSummary,
                   recovery, checkpoint, answer>>

Watched == task.automatic /\ task.implementation

Stalled ==
    /\ Watched
    /\ \/ noEditTurns >= StallAfter
       \/ noEditTurns >= StallEarly /\ Repeated >= StallReads

\* The nudge, the stall, new mail; then the job is saved.
Head ==
    /\ pc = "top" /\ ~ctx
    /\ LET nudge == Watched /\ noEditTurns >= NudgeAfter /\ ~nudged
       IN  /\ nudged' = (nudged \/ nudge)
           /\ \E mail \in {0, 1} :
                 size' = size + mail + (IF nudge THEN 1 ELSE 0)
    /\ forceSummary' = (forceSummary \/ Stalled)
    /\ loopBlocked' = (loopBlocked \/ Stalled)
    /\ \/ /\ disk' = status /\ pc' = "planned"
          /\ UNCHANGED status
       \/ Fail("failed")
    /\ UNCHANGED <<task, ctx, clock, budget, turned, noEditTurns, progressed,
                   metrics, seen, recovery, checkpoint, answer>>

Spent == used >= Limit \/ steps >= MaxSteps

\* Mutant of TooExpensive: a checkpoint is always affordable.
TooExpensiveRequest ==
    ~Summarize /\ used + size + Output > Limit

TooExpensive ==
    \/ Summarize /\ used + SummaryCost > Limit
    \/ ~Summarize /\ used + size + Output > Limit

\* The budget is used up, or would be by the next call.
LimitReached ==
    /\ pc = "planned" /\ (Spent \/ TooExpensive)
    /\ Fail("limit_reached")
    /\ UNCHANGED <<task, ctx, clock, budget, size, turned, progress, forceSummary,
                   recovery, checkpoint, answer>>

StartCall ==
    /\ pc = "planned" /\ ~Spent /\ ~TooExpensive
    /\ pc' = IF Summarize THEN "summary" ELSE "request"
    /\ UNCHANGED <<task, ctx, clock, status, disk, budget, size, turned, progress,
                   forceSummary, recovery, checkpoint, answer>>
-----------------------------------------------------------------------------
(* An ordinary request and the answer to it.                               *)

RequestFails ==
    /\ pc = "request"
    /\ Fail(IF ctx THEN "cancelled" ELSE "failed")
    /\ UNCHANGED <<task, ctx, clock, budget, size, turned, progress, forceSummary,
                   recovery, checkpoint, answer>>

\* recordUsage
Record(n) == used' = used + n /\ steps' = steps + 1

Answered ==
    /\ pc = "request"
    /\ \E n \in Usage(size + Output) : Record(n)
    /\ turned' = TRUE
    /\ noEditTurns' = noEditTurns + 1 /\ sinceEdit' = sinceEdit + 1
    /\ UNCHANGED <<task, ctx, clock, nudged, loopBlocked, progressed, metrics,
                   touched, rereads, recovery, checkpoint>>

\* No candidate, an answer that comes too late, or one that was stopped.
AnswerUseless ==
    /\ Answered
    /\ \/ Fail("failed")
       \/ ctx /\ Fail("cancelled")
    /\ UNCHANGED <<size, forceSummary, answer>>

\* Mutant of AnswerTruncated: asked again, before the answer is counted.
TruncatedAgain ==
    /\ pc = "request" /\ ~ctx /\ task.automatic
    /\ pc' = "top"
    /\ UNCHANGED <<task, ctx, clock, status, disk, budget, size, turned, progress,
                   forceSummary, recovery, checkpoint, answer>>

\* MAX_TOKENS under autopilot: none of the calls in the answer is executed.
AnswerTruncated ==
    /\ Answered /\ ~ctx /\ task.automatic
    /\ forceSummary' = TRUE /\ pc' = "top"
    /\ UNCHANGED <<status, disk, size, answer>>

AnswerWhole ==
    /\ Answered /\ ~ctx
    /\ size' = size + 1 /\ pc' = "reply"
    \* text that comes with calls changes nothing
    /\ answer' \in {a \in [todo : 0 .. MaxCalls + 1, calls : {0}, text : BOOLEAN] :
                      a.todo > 0 => ~a.text}
    /\ UNCHANGED <<status, disk, forceSummary>>

CancelledBetweenCalls ==
    /\ pc = "reply" /\ answer.todo > 0 /\ ctx
    /\ Fail("cancelled")
    /\ UNCHANGED <<task, ctx, clock, budget, size, turned, progress, forceSummary,
                   recovery, checkpoint, answer>>

\* One call more has a result; nothing waits for it.
Counted == [answer EXCEPT !.todo = @ - 1, !.calls = @ + 1]

\* The fifth call and those after it.
RejectCall ==
    /\ pc = "reply" /\ answer.todo > 0 /\ ~ctx /\ answer.calls >= MaxCalls
    /\ answer' = Counted
    /\ UNCHANGED <<task, pc, ctx, clock, status, disk, budget, size, turned,
                   progress, forceSummary, recovery, checkpoint>>

BeginCall ==
    /\ pc = "reply" /\ answer.todo > 0 /\ ~ctx /\ answer.calls < MaxCalls
    /\ pc' = "call"
    /\ UNCHANGED <<task, ctx, clock, status, disk, budget, size, turned, progress,
                   forceSummary, recovery, checkpoint, answer>>

EndCall ==
    /\ pc = "call" /\ pc' = "reply" /\ answer' = Counted
    /\ UNCHANGED <<task, ctx, clock, status, disk, budget, size, turned,
                   loopBlocked, forceSummary, recovery>>

\* A successful write_file or edit_file; progress only if it is a new one.
Edit ==
    /\ EndCall /\ edits < baseEdits + MaxEdits
    /\ edits' = edits + 1 /\ baseRepeated' = repeats
    /\ progressed' \in {TRUE, progressed}
    /\ noEditTurns' = 0 /\ nudged' = FALSE
    /\ touched' = TRUE /\ sinceEdit' = 0 /\ rereads' = 0
    /\ UNCHANGED <<repeats, baseEdits, checkpoint>>

\* Any other call, and one that fails.  A read or a search is progress if its
\* arguments or its result are new; a read is repeated if its range and its
\* result are not.
Look ==
    /\ EndCall
    /\ progressed' \in {TRUE, progressed}
    /\ \/ UNCHANGED <<repeats, rereads>>
       \/ /\ rereads < MaxRereads
          /\ repeats' = repeats + 1 /\ rereads' = rereads + 1
    /\ UNCHANGED <<noEditTurns, nudged, edits, baseEdits, baseRepeated, touched,
                   sinceEdit, checkpoint>>

\* report_checkpoint: kept in memory although the save may fail.
Report ==
    /\ EndCall
    /\ checkpoint' \in Checkpoint
    /\ UNCHANGED <<noEditTurns, nudged, progressed, metrics, seen>>

\* Text alone does not end a run that is known to be unfinished, nor an
\* implementation without an edit.
NeedsCheck ==
    task.automatic /\ (Incomplete \/ (task.implementation /\ ~Edited))

\* The end of a turn: results join the conversation and the job is saved.
EndTurn ==
    /\ pc = "reply" /\ answer.todo = 0
    /\ answer.calls > 0 \/ (answer.text /\ NeedsCheck)
    /\ size' = IF answer.calls > 0 THEN size + 1 ELSE size
    /\ forceSummary' = (forceSummary \/ answer.calls = 0)
    /\ answer' = NoAnswer
    /\ \/ disk' = status /\ pc' = "top" /\ UNCHANGED status
       \/ Fail("failed")
    /\ UNCHANGED <<task, ctx, clock, budget, turned, progress, recovery, checkpoint>>

\* Mutant of Complete: the error of the save is dropped.
CompleteUnsaved ==
    /\ status' = "completed"
    /\ disk' \in {"completed", disk} /\ pc' = "release"

\* The status is set to completed and saved; if that fails, fail comes next.
Complete ==
    /\ status' = "completed"
    /\ \/ disk' = "completed" /\ pc' = "release"
       \/ disk' = disk /\ pc' = "failing"

FinalText ==
    /\ pc = "reply" /\ answer.todo = 0 /\ answer.calls = 0
    /\ answer.text /\ ~NeedsCheck
    /\ Complete
    /\ UNCHANGED <<task, ctx, clock, budget, size, turned, progress, forceSummary,
                   recovery, checkpoint, answer>>

EmptyAnswer ==
    /\ pc = "reply" /\ answer.todo = 0 /\ answer.calls = 0 /\ ~answer.text
    /\ Fail("failed")
    /\ UNCHANGED <<task, ctx, clock, budget, size, turned, progress, forceSummary,
                   recovery, checkpoint, answer>>

FailUnsaved ==
    /\ pc = "failing"
    /\ Fail("failed")
    /\ UNCHANGED <<task, ctx, clock, budget, size, turned, progress, forceSummary,
                   recovery, checkpoint, answer>>
-----------------------------------------------------------------------------
(* The request for a checkpoint and the answer to it.                      *)

\* An error, in which case nothing is counted, or no valid checkpoint.
SummaryFails ==
    /\ pc = "summary"
    /\ \/ UNCHANGED budget
       \/ \E n \in Usage(SummaryCost) : Record(n)
    /\ Fail(IF ctx THEN "cancelled" ELSE "limit_reached")
    /\ UNCHANGED <<task, ctx, clock, size, turned, progress, forceSummary, recovery,
                   checkpoint, answer>>

\* An implementation that is blocked, or claims to be complete without edits.
NeedsAttention(c) ==
    task.implementation /\ (loopBlocked \/ (~Edited /\ c.complete))

Summarized(c) ==
    /\ pc = "summary" /\ ~ctx
    /\ \E n \in Usage(SummaryCost) : Record(n)
    /\ checkpoint' = c
    /\ UNCHANGED <<task, ctx, clock, answer>>

SummaryNeedsAttention ==
    /\ \E c \in Checkpoint :
          /\ NeedsAttention(c)
          /\ Summarized([c EXCEPT !.complete = FALSE, !.remaining = TRUE])
    /\ Fail("needs_attention")
    /\ UNCHANGED <<size, turned, progress, forceSummary, recovery>>

SummaryCompletes ==
    /\ \E c \in Checkpoint :
          c.complete /\ ~NeedsAttention(c) /\ Summarized(c)
    /\ Complete
    /\ UNCHANGED <<size, turned, progress, forceSummary, recovery>>

\* Whether the run goes on from checkpoint c in a conversation of size fresh,
\* after the call that made the checkpoint.
MayRecover(c, fresh) ==
    /\ ~(lastRecovery = c.report /\ ~progressed)
    /\ c.remaining
    /\ compactions < MaxCompactions
    /\ steps + 3 =< MaxSteps
    /\ used' + 2 * fresh + Output + SummaryOut < Limit
    /\ clock = "ample"

\* Mutant of Compacted: the stall window is opened again.
CompactedAnew(c, fresh) ==
    /\ size' = fresh
    /\ compactions' = compactions + 1
    /\ lastRecovery' = c.report /\ progressed' = FALSE
    /\ turned' = FALSE /\ forceSummary' = FALSE
    /\ noEditTurns' = 0
    /\ UNCHANGED <<nudged, loopBlocked, metrics, seen>>

\* The conversation is archived and starts again from the checkpoint.
Compacted(c, fresh) ==
    /\ size' = fresh
    /\ compactions' = compactions + 1
    /\ lastRecovery' = c.report /\ progressed' = FALSE
    /\ turned' = FALSE /\ forceSummary' = FALSE
    /\ UNCHANGED <<noEditTurns, nudged, loopBlocked, metrics, seen>>

Recover ==
    \E c \in Checkpoint, fresh \in Seed + 1 .. Seed + 1 + Recent :
        /\ ~c.complete /\ ~NeedsAttention(c)
        /\ Summarized(c) /\ MayRecover(c, fresh)
        /\ \/ /\ Compacted(c, fresh)
              /\ \/ disk' = status /\ pc' = "top" /\ UNCHANGED status
                 \/ Fail("failed")
           \* the archive cannot be written
           \/ Fail("failed")
              /\ UNCHANGED <<size, turned, progress, forceSummary, recovery>>

StopAtCheckpoint ==
    /\ \E c \in Checkpoint, fresh \in Seed + 1 .. Seed + 1 + Recent :
          /\ ~c.complete /\ ~NeedsAttention(c)
          /\ Summarized(c) /\ ~MayRecover(c, fresh)
    /\ Fail("limit_reached") \/ Fail("failed")
    /\ UNCHANGED <<size, turned, progress, forceSummary, recovery>>
-----------------------------------------------------------------------------
RunStep ==
    \/ CancelledAtHead \/ Head \/ LimitReached \/ StartCall
    \/ RequestFails \/ AnswerUseless \/ AnswerTruncated \/ AnswerWhole
    \/ CancelledBetweenCalls \/ RejectCall \/ BeginCall
    \/ Edit \/ Look \/ Report
    \/ EndTurn \/ FinalText \/ EmptyAnswer \/ FailUnsaved
    \/ SummaryFails \/ SummaryNeedsAttention \/ SummaryCompletes
    \/ Recover \/ StopAtCheckpoint

Next == RunStep \/ ContextDone \/ Tick

Spec == Init /\ [][Next]_vars

\* The goroutine is scheduled, and calls return.  No timer is assumed.
FairSpec == Spec /\ WF_vars(RunStep)
-----------------------------------------------------------------------------
(* Properties.                                                             *)

TypeOK ==
    /\ task \in [automatic : BOOLEAN, implementation : BOOLEAN]
    /\ pc \in {"top", "planned", "request", "reply", "call", "summary",
               "failing", "release"}
    /\ clock \in {"ample", "short", "last"}
    /\ {ctx, turned, nudged, loopBlocked, forceSummary, progressed, touched}
          \subseteq BOOLEAN
    /\ status \in Outcomes \cup {"running"}
    /\ disk \in Outcomes \cup {"queued", "running"}
    /\ {used, steps, size, noEditTurns, compactions, edits, repeats, baseEdits,
        baseRepeated, sinceEdit, rereads} \subseteq Nat
    /\ checkpoint \in Checkpoint \cup {NoCheckpoint}
    /\ lastRecovery \in Reports \cup {NoReport}
    /\ answer \in [todo : 0 .. MaxCalls + 1, calls : 0 .. MaxCalls + 1,
                   text : BOOLEAN]

\* As long as estimates are not too low, a run with its checkpoints and
\* recoveries stays within the one token budget, the model calls and the
\* compactions it was given.
BudgetKept ==
    /\ used =< Limit
    /\ steps =< MaxSteps
    /\ compactions =< MaxCompactions

\* Under autopilot a job is completed only if the worker has no unfinished
\* checkpoint on record and, if it was to implement something, made an edit
\* in this very run, whether it ended by text or by a checkpoint, and whatever
\* checkpoint and metrics earlier runs have left.
HonestCompletion ==
    status = "completed" /\ task.automatic =>
        /\ ~Incomplete
        /\ task.implementation => touched

\* An implementation under autopilot never makes another working call after
\* StallAfter of them without an edit, nor after StallEarly of them with the
\* repeated reads, compactions or not; from NudgeAfter on it was nudged; and it
\* is not blocked before, whatever reads earlier runs have repeated.
StallWindow ==
    LET stalled == \/ sinceEdit >= StallAfter
                   \/ sinceEdit >= StallEarly /\ rereads >= StallReads
    IN  /\ pc = "request" /\ task.automatic /\ task.implementation =>
               ~stalled /\ (sinceEdit >= NudgeAfter => nudged)
        /\ loopBlocked => stalled

\* Every run ends by itself, within its budgets and without its timeout.
RunEnds == <>(pc = "release")
-----------------------------------------------------------------------------
(* The run as Jobs.tla sees it.                                            *)

Worker == <<"job", 1>>
File == <<"/", "r", "f">>
JobsPC ==
    CASE pc \in {"planned", "request", "summary"} -> "ask"
      [] OTHER -> pc

J == INSTANCE Jobs WITH
        Names <- {"/", "r", "f"}, Lower <- [n \in {"/", "r", "f"} |-> n],
        Jobs <- {"job"}, Files <- {File}, NoJob <- "no job",
        Task <- [j \in {"job"} |-> [ws |-> <<"/", "r">>, write |-> {<<>>},
                                   kind |-> "task", intent |-> "implementation"]],
        Concurrency <- 1, MaxActive <- 1, MaxBatch <- 1, MaxRuns <- 1,
        MaxRestarts <- 1,
        up <- TRUE, stopping <- FALSE, restarts <- 1,
        status <- [j \in {"job"} |-> status],
        plan <- [j \in {"job"} |-> FALSE],
        run <- [j \in {"job"} |-> 1],
        pc <- [w \in {"job"} \X (0 .. 1) |-> IF w = Worker THEN JobsPC ELSE "none"],
        ctxDone <- IF ctx THEN {Worker} ELSE {},
        closed <- {}, sem <- 1,
        diskStatus <- [j \in {"job"} |-> disk],
        diskPlan <- [j \in {"job"} |-> FALSE],
        writer <- [x \in {File} |-> IF touched THEN "job" ELSE "no job"]

\* Every step of the run is a step of the worker in Jobs.tla, where budgets,
\* checkpoints and answers are left to chance, or no step there at all.
ImplementsWorker == [][J!Step(Worker) \/ J!Timeout(Worker)]_(J!vars)
=============================================================================
