----------------------------- MODULE Runner_proof -----------------------------
(***************************************************************************)
(* Theorems about Runner, for every budget and every threshold: a run stays *)
(* within its budgets, is completed honestly, does not go on working when  *)
(* it has stalled, and is a run as Jobs has it.                            *)
(***************************************************************************)
EXTENDS Runner, TLAPS

\* Calls are executed, or rejected, once each.
CallsCounted ==
    /\ answer.calls + answer.todo =< MaxCalls + 1
    /\ pc = "call" => answer.todo > 0

RunTypes == TypeOK /\ CallsCounted

\* A call that is made was affordable when the job was saved before it, whatever
\* the clock has done to the choice between a request and a checkpoint since.
CallAffordable ==
    /\ pc \in {"request", "summary"} => steps < MaxSteps
    /\ pc = "request" => used + size + Output =< Limit
    /\ pc = "summary" => used + SummaryCost =< Limit

BudgetInv == BudgetKept /\ CallAffordable

\* A status other than running is the last thing a run sets.
OutcomeLast == pc \notin {"failing", "release"} => status = "running"

\* The metrics, less what earlier runs have left in them, say whether this run
\* has made an edit.
EditsSeen == edits >= baseEdits /\ (touched <=> Edited)

HonestInv == OutcomeLast /\ EditsSeen /\ HonestCompletion

\* The counters say what this run has done since its last edit, and what the head
\* of the loop has seen of them still holds when the call is made: only answers and
\* tool calls change them.  A blocked run asks for its last checkpoint and ends.
StallSeen ==
    /\ sinceEdit = noEditTurns /\ rereads = Repeated
    /\ pc = "planned" /\ Stalled => forceSummary
    /\ pc \in {"planned", "request"} /\ Watched /\ noEditTurns >= NudgeAfter => nudged
    /\ loopBlocked => Stalled /\ forceSummary /\ pc \in {"planned", "summary", "release"}

StallInv == StallSeen /\ StallWindow
-----------------------------------------------------------------------------
(* Numbers.                                                                *)

\* A request turns out to cost what was estimated, or less.
LEMMA UsageBound ==
    ASSUME NEW e \in Nat, NEW n \in Usage(e)
    PROVE  n \in Nat /\ n =< e
<1>1. Spare \subseteq Nat
  BY RunnerAssumption
<1>2. n = 0 \/ \E d \in Nat : n = e - d /\ n >= 0
  BY <1>1 DEF Usage
<1> QED
  BY <1>2

\* The parameters are numbers.
LEMMA ParametersAreNumbers ==
    /\ MaxSteps \in Nat /\ MaxSteps >= 1 /\ Limit \in Nat /\ Limit >= 1
    /\ MaxOutput \in Nat /\ MinOutput \in Nat /\ SummaryOutput \in Nat
    /\ Share \in Nat /\ Share >= 1 /\ Seed \in Nat /\ Seed >= 1
    /\ LargeContext \in Nat /\ NudgeAfter \in Nat /\ StallAfter \in Nat
    /\ StallEarly \in Nat /\ StallReads \in Nat /\ MaxCompactions \in Nat
    /\ MaxCalls \in Nat /\ Recent \in Nat /\ Past \in Nat
    /\ PastEdits \in Nat /\ PastReads \in Nat
BY RunnerAssumption

\* The outputs that are asked for are numbers too.
LEMMA OutputTypes ==
    ASSUME TypeOK
    PROVE  Output \in Nat /\ SummaryOut \in Nat /\ SummaryCost \in Nat
<1>1. used \in Nat /\ size \in Nat
  BY DEF TypeOK
<1>2. (Limit - used) \div Share \in Int
  BY <1>1, ParametersAreNumbers
<1> DEFINE third == (Limit - used) \div Share
<1> HIDE DEF third
<1>3. Max2(MinOutput, third) \in Nat
  BY <1>2, ParametersAreNumbers DEF Max2, third
<1>4. Output \in Nat
  BY <1>3, ParametersAreNumbers DEF Output, Min2, third
<1>5. SummaryOut \in Nat
  BY <1>4, ParametersAreNumbers DEF SummaryOut, Min2
<1> QED
  BY <1>1, <1>4, <1>5 DEF SummaryCost
-----------------------------------------------------------------------------
(* Types.                                                                  *)

\* The same as TypeOK with a conjunct for each variable.
LEMMA PlainTypes ==
    TypeOK <=>
        /\ task \in [automatic : BOOLEAN, implementation : BOOLEAN]
        /\ pc \in {"top", "planned", "request", "reply", "call", "summary",
                   "failing", "release"}
        /\ clock \in {"ample", "short", "last"}
        /\ ctx \in BOOLEAN /\ turned \in BOOLEAN /\ nudged \in BOOLEAN
        /\ loopBlocked \in BOOLEAN /\ touched \in BOOLEAN
        /\ forceSummary \in BOOLEAN /\ progressed \in BOOLEAN
        /\ status \in Outcomes \cup {"running"}
        /\ disk \in Outcomes \cup {"queued", "running"}
        /\ used \in Nat /\ steps \in Nat /\ size \in Nat /\ noEditTurns \in Nat
        /\ edits \in Nat /\ repeats \in Nat /\ baseEdits \in Nat /\ baseRepeated \in Nat
        /\ compactions \in Nat /\ sinceEdit \in Nat /\ rereads \in Nat
        /\ checkpoint \in Checkpoint \cup {NoCheckpoint}
        /\ lastRecovery \in Reports \cup {NoReport}
        /\ answer \in [todo : 0 .. MaxCalls + 1, calls : 0 .. MaxCalls + 1,
                       text : BOOLEAN]
BY DEF TypeOK

\* A run starts with the types it has.
LEMMA InitTypes == Init => RunTypes
<1> SUFFICES ASSUME Init PROVE RunTypes
  OBVIOUS
<1>1. size \in Nat /\ edits \in Nat /\ repeats \in Nat
  BY ParametersAreNumbers DEF Init
<1>2. answer \in [todo : 0 .. MaxCalls + 1, calls : 0 .. MaxCalls + 1, text : BOOLEAN]
  BY ParametersAreNumbers DEF Init, NoAnswer
<1>3. checkpoint \in Checkpoint \cup {NoCheckpoint}
  BY DEF Init
<1>4. TypeOK
  BY <1>1, <1>2, <1>3, PlainTypes DEF Init, Outcomes
<1>5. CallsCounted
  BY ParametersAreNumbers DEF Init, NoAnswer, CallsCounted
<1> QED
  BY <1>4, <1>5 DEF RunTypes

\* One call more has a result.
LEMMA CountedTypes ==
    ASSUME RunTypes, answer.todo > 0
    PROVE  /\ Counted \in [todo : 0 .. MaxCalls + 1, calls : 0 .. MaxCalls + 1,
                           text : BOOLEAN]
           /\ Counted.calls + Counted.todo =< MaxCalls + 1
<1>1. /\ answer \in [todo : 0 .. MaxCalls + 1, calls : 0 .. MaxCalls + 1, text : BOOLEAN]
      /\ answer.todo \in 0 .. MaxCalls + 1 /\ answer.calls \in 0 .. MaxCalls + 1
      /\ answer.calls + answer.todo =< MaxCalls + 1
  BY DEF RunTypes, TypeOK, CallsCounted
<1>2. answer.todo - 1 \in 0 .. MaxCalls + 1 /\ answer.calls + 1 \in 0 .. MaxCalls + 1
  BY <1>1, ParametersAreNumbers
<1>3. Counted.todo = answer.todo - 1 /\ Counted.calls = answer.calls + 1
  BY <1>1 DEF Counted
<1>4. Counted \in [todo : 0 .. MaxCalls + 1, calls : 0 .. MaxCalls + 1, text : BOOLEAN]
  BY <1>1, <1>2 DEF Counted
<1> QED
  BY <1>1, <1>3, <1>4, ParametersAreNumbers

\* The step of a call has its types, but for what the tool does.
LEMMA EndCallTypes ==
    ASSUME RunTypes, EndCall, touched' \in BOOLEAN, progressed' \in BOOLEAN,
           noEditTurns' \in Nat, nudged' \in BOOLEAN, edits' \in Nat, repeats' \in Nat,
           UNCHANGED baseEdits, baseRepeated' \in Nat, sinceEdit' \in Nat,
           rereads' \in Nat, checkpoint' \in Checkpoint \cup {NoCheckpoint}
    PROVE  RunTypes'
<1>1. answer.todo > 0 /\ answer' = Counted /\ pc' = "reply"
  BY DEF EndCall, RunTypes, CallsCounted
<1>2. /\ answer' \in [todo : 0 .. MaxCalls + 1, calls : 0 .. MaxCalls + 1,
                      text : BOOLEAN]
      /\ CallsCounted'
  BY <1>1, CountedTypes DEF CallsCounted
<1>3. UNCHANGED <<task, ctx, clock, status, disk, used, steps, size, turned,
                 loopBlocked, forceSummary, compactions, lastRecovery>>
  BY DEF EndCall, budget, recovery
<1>4. TypeOK'
  BY <1>1, <1>2, <1>3 DEF RunTypes, TypeOK
<1> QED
  BY <1>2, <1>4 DEF RunTypes

\* What recordUsage writes is a number.
LEMMA RecordTypes ==
    ASSUME TypeOK, NEW e \in Nat, \E n \in Usage(e) : Record(n)
    PROVE  used' \in Nat /\ used' =< used + e /\ steps' = steps + 1 /\ steps' \in Nat
<1>1. PICK n \in Usage(e) : Record(n)
  OBVIOUS
<1>2. n \in Nat /\ n =< e /\ used \in Nat /\ steps \in Nat
  BY UsageBound DEF TypeOK
<1> QED
  BY <1>1, <1>2 DEF Record

\* A working call has its types, but for what becomes of the answer.
LEMMA AnsweredTypes ==
    ASSUME RunTypes, Answered
    PROVE  /\ used' \in Nat /\ steps' \in Nat /\ noEditTurns' \in Nat
           /\ sinceEdit' \in Nat
<1>1. size + Output \in Nat
  BY OutputTypes DEF RunTypes, TypeOK
<1> QED
  BY <1>1, RecordTypes DEF RunTypes, Answered, TypeOK

\* What a checkpoint leaves, but for where the run goes from it.
LEMMA SummarizedTypes ==
    ASSUME RunTypes, NEW c \in Checkpoint, Summarized(c)
    PROVE  used' \in Nat /\ steps' \in Nat /\ checkpoint' \in Checkpoint
BY OutputTypes, RecordTypes DEF RunTypes, Summarized

\* Statuses are known ones.
LEMMA FailTypes ==
    ASSUME TypeOK, NEW s \in Outcomes, Fail(s)
    PROVE  /\ status' \in Outcomes \cup {"running"} /\ pc' = "release"
           /\ disk' \in Outcomes \cup {"queued", "running"}
BY DEF TypeOK, Fail

\* Every step of a run has its types.
LEMMA StepTypes == ASSUME RunTypes, RunStep PROVE RunTypes'
<1>0. TypeOK /\ CallsCounted
  BY DEF RunTypes
<1> USE DEF progress, metrics, seen, budget, recovery
<1>1. ASSUME NEW s \in Outcomes, Fail(s),
             UNCHANGED <<task, ctx, clock, answer>>,
             UNCHANGED <<used, steps>> \/ (used' \in Nat /\ steps' \in Nat),
             turned' \in BOOLEAN, nudged' \in BOOLEAN, loopBlocked' \in BOOLEAN,
             forceSummary' \in BOOLEAN, progressed' \in BOOLEAN,
             UNCHANGED <<metrics, touched, rereads>>,
             size' \in Nat, noEditTurns' \in Nat, sinceEdit' \in Nat, compactions' \in Nat,
             checkpoint' \in Checkpoint \cup {NoCheckpoint},
             lastRecovery' \in Reports \cup {NoReport}
      PROVE  RunTypes'
  <2>1. /\ status' \in Outcomes \cup {"running"} /\ pc' = "release"
        /\ disk' \in Outcomes \cup {"queued", "running"}
    BY <1>0, <1>1, FailTypes
  <2>2. TypeOK'
    BY <1>0, <1>1, <2>1 DEF TypeOK
  <2>3. CallsCounted'
    BY <1>0, <1>1, <2>1 DEF CallsCounted
  <2> QED
    BY <2>2, <2>3 DEF RunTypes
<1>2. {"completed", "failed", "cancelled", "limit_reached", "needs_attention"} = Outcomes
  BY DEF Outcomes
<1>3. /\ turned \in BOOLEAN /\ nudged \in BOOLEAN /\ loopBlocked \in BOOLEAN
      /\ forceSummary \in BOOLEAN /\ progressed \in BOOLEAN
      /\ size \in Nat /\ noEditTurns \in Nat /\ sinceEdit \in Nat /\ compactions \in Nat
      /\ edits \in Nat /\ repeats \in Nat /\ baseRepeated \in Nat /\ rereads \in Nat
      /\ touched \in BOOLEAN
      /\ checkpoint \in Checkpoint \cup {NoCheckpoint}
      /\ lastRecovery \in Reports \cup {NoReport}
  BY <1>0 DEF TypeOK
<1>4. CASE CancelledAtHead \/ LimitReached \/ RequestFails \/ CancelledBetweenCalls
           \/ EmptyAnswer \/ FailUnsaved
  BY <1>1, <1>2, <1>3, <1>4
     DEF CancelledAtHead, LimitReached, RequestFails, CancelledBetweenCalls,
         EmptyAnswer, FailUnsaved
<1>5. CASE Head
  <2>1. /\ nudged' \in BOOLEAN /\ forceSummary' \in BOOLEAN /\ loopBlocked' \in BOOLEAN
        /\ size' \in Nat
    BY <1>3, <1>5 DEF Head
  <2>2. CASE Fail("failed")
    BY <1>1, <1>2, <1>3, <1>5, <2>1, <2>2 DEF Head
  <2>3. CASE disk' = status /\ pc' = "planned" /\ UNCHANGED status
    <3>1. TypeOK'
      BY <1>0, <1>5, <2>1, <2>3 DEF Head, TypeOK
    <3>2. CallsCounted'
      BY <1>0, <1>5, <2>3 DEF Head, CallsCounted
    <3> QED
      BY <3>1, <3>2 DEF RunTypes
  <2> QED
    BY <1>5, <2>2, <2>3 DEF Head
<1>6. CASE StartCall
  BY <1>0, <1>6 DEF StartCall, RunTypes, TypeOK, CallsCounted
<1>7. CASE AnswerUseless
  BY <1>1, <1>2, <1>3, <1>7, AnsweredTypes DEF AnswerUseless, Answered
<1>8. CASE AnswerTruncated
  <2>1. /\ used' \in Nat /\ steps' \in Nat /\ noEditTurns' \in Nat /\ sinceEdit' \in Nat
        /\ turned' = TRUE
        /\ UNCHANGED <<task, ctx, clock, nudged, metrics, loopBlocked, touched, rereads,
                       progressed, compactions, lastRecovery, checkpoint>>
        /\ forceSummary' = TRUE /\ pc' = "top" /\ UNCHANGED <<status, disk, size, answer>>
    BY <1>8, AnsweredTypes DEF AnswerTruncated, Answered
  <2>2. TypeOK'
    BY <1>0, <2>1 DEF TypeOK
  <2>3. CallsCounted'
    BY <1>0, <2>1 DEF CallsCounted
  <2> QED
    BY <2>2, <2>3 DEF RunTypes
<1>9. CASE AnswerWhole
  <2>1. /\ used' \in Nat /\ steps' \in Nat /\ noEditTurns' \in Nat /\ sinceEdit' \in Nat
        /\ turned' = TRUE
        /\ UNCHANGED <<task, ctx, clock, nudged, metrics, loopBlocked, touched, rereads,
                       progressed, compactions, lastRecovery, checkpoint>>
        /\ pc' = "reply" /\ UNCHANGED <<status, disk, forceSummary>>
        /\ answer' \in [todo : 0 .. MaxCalls + 1, calls : {0}, text : BOOLEAN]
    BY <1>9, AnsweredTypes DEF AnswerWhole, Answered
  <2>2. size' \in Nat
    BY <1>3, <1>9 DEF AnswerWhole
  <2>3. /\ answer' \in [todo : 0 .. MaxCalls + 1, calls : 0 .. MaxCalls + 1,
                        text : BOOLEAN]
        /\ answer'.calls + answer'.todo =< MaxCalls + 1
    BY <2>1, ParametersAreNumbers
  <2>4. TypeOK'
    BY <1>0, <2>1, <2>2, <2>3 DEF TypeOK
  <2>5. CallsCounted'
    BY <2>1, <2>3 DEF CallsCounted
  <2> QED
    BY <2>4, <2>5 DEF RunTypes
<1>10. CASE RejectCall
  <2>1. /\ answer' \in [todo : 0 .. MaxCalls + 1, calls : 0 .. MaxCalls + 1, text : BOOLEAN]
        /\ answer'.calls + answer'.todo =< MaxCalls + 1
    BY <1>10, CountedTypes DEF RejectCall
  <2>2. UNCHANGED <<task, pc, ctx, clock, status, disk, used, steps, size, turned,
                    noEditTurns, nudged, metrics, loopBlocked, seen, progressed,
                    forceSummary, compactions, lastRecovery, checkpoint>>
        /\ pc = "reply"
    BY <1>10 DEF RejectCall
  <2>3. TypeOK'
    BY <1>0, <2>1, <2>2 DEF TypeOK
  <2> QED
    BY <2>1, <2>2, <2>3 DEF RunTypes, CallsCounted
<1>11. CASE BeginCall
  BY <1>0, <1>11 DEF BeginCall, RunTypes, TypeOK, CallsCounted
<1>12. CASE Edit
  <2>1. /\ touched' \in BOOLEAN /\ progressed' \in BOOLEAN /\ noEditTurns' \in Nat
        /\ nudged' \in BOOLEAN /\ sinceEdit' \in Nat /\ rereads' \in Nat
        /\ checkpoint' \in Checkpoint \cup {NoCheckpoint} /\ EndCall
    BY <1>3, <1>12 DEF Edit
  <2>2. edits' \in Nat /\ repeats' \in Nat /\ baseRepeated' \in Nat /\ UNCHANGED baseEdits
    BY <1>3, <1>12 DEF Edit
  <2> QED
    BY <2>1, <2>2, EndCallTypes
<1>13. CASE Look
  <2>1. /\ touched' \in BOOLEAN /\ edits' \in Nat /\ progressed' \in BOOLEAN
        /\ noEditTurns' \in Nat /\ nudged' \in BOOLEAN /\ sinceEdit' \in Nat
        /\ checkpoint' \in Checkpoint \cup {NoCheckpoint} /\ EndCall
    BY <1>3, <1>13 DEF Look
  <2>2. repeats' \in Nat /\ rereads' \in Nat /\ baseRepeated' \in Nat /\ UNCHANGED baseEdits
    BY <1>3, <1>13 DEF Look
  <2> QED
    BY <2>1, <2>2, EndCallTypes
<1>14. CASE Report
  BY <1>3, <1>14, EndCallTypes DEF Report
<1>15. CASE EndTurn
  <2>1. /\ size' \in Nat /\ forceSummary' \in BOOLEAN /\ answer' = NoAnswer
        /\ UNCHANGED <<task, ctx, clock, used, steps, turned, noEditTurns, nudged,
                       metrics, loopBlocked, seen, progressed, compactions, lastRecovery, checkpoint>>
    BY <1>3, <1>15 DEF EndTurn
  <2>2. /\ NoAnswer \in [todo : 0 .. MaxCalls + 1, calls : 0 .. MaxCalls + 1, text : BOOLEAN]
        /\ NoAnswer.calls + NoAnswer.todo =< MaxCalls + 1
    BY ParametersAreNumbers DEF NoAnswer
  <2>3. /\ status' \in Outcomes \cup {"running"} /\ pc' \in {"top", "release"}
        /\ disk' \in Outcomes \cup {"queued", "running"}
    BY <1>0, <1>2, <1>15, FailTypes DEF EndTurn, TypeOK
  <2>4. TypeOK'
    BY <1>0, <2>1, <2>2, <2>3 DEF TypeOK
  <2> QED
    BY <2>1, <2>2, <2>3, <2>4 DEF RunTypes, CallsCounted
<1>16. CASE FinalText
  BY <1>0, <1>16 DEF FinalText, Complete, RunTypes, TypeOK, CallsCounted, Outcomes
<1>17. CASE SummaryFails
  <2>1. UNCHANGED <<used, steps>> \/ (used' \in Nat /\ steps' \in Nat)
    BY <1>0, <1>17, OutputTypes, RecordTypes DEF SummaryFails
  <2> QED
    BY <1>1, <1>2, <1>3, <1>17, <2>1 DEF SummaryFails
<1>18. ASSUME NEW c \in Checkpoint, Summarized(c)
       PROVE  /\ used' \in Nat /\ steps' \in Nat /\ checkpoint' \in Checkpoint
              /\ UNCHANGED <<task, ctx, clock, answer>>
  BY <1>18, SummarizedTypes DEF Summarized
<1>19. CASE SummaryNeedsAttention
  <2>1. PICK c \in Checkpoint : Summarized([c EXCEPT !.complete = FALSE, !.remaining = TRUE])
    BY <1>19 DEF SummaryNeedsAttention
  <2>2. [c EXCEPT !.complete = FALSE, !.remaining = TRUE] \in Checkpoint
    BY DEF Checkpoint
  <2> QED
    BY <1>1, <1>2, <1>3, <1>18, <1>19, <2>1, <2>2 DEF SummaryNeedsAttention
<1>20. CASE SummaryCompletes
  <2>1. /\ used' \in Nat /\ steps' \in Nat /\ checkpoint' \in Checkpoint
        /\ UNCHANGED <<task, ctx, clock, answer>>
    BY <1>18, <1>20 DEF SummaryCompletes
  <2>2. /\ UNCHANGED <<size, turned, noEditTurns, nudged, metrics, loopBlocked, seen,
                       progressed, forceSummary, compactions, lastRecovery>>
        /\ status' = "completed" /\ pc' \in {"release", "failing"}
        /\ disk' \in {"completed", disk}
    BY <1>20 DEF SummaryCompletes, Complete
  <2>3. TypeOK'
    BY <1>0, <1>2, <2>1, <2>2 DEF TypeOK
  <2>4. CallsCounted'
    BY <1>0, <2>1, <2>2 DEF CallsCounted
  <2> QED
    BY <2>3, <2>4 DEF RunTypes
<1>21. CASE Recover
  <2>1. PICK c \in Checkpoint, fresh \in Seed + 1 .. Seed + 1 + Recent :
          /\ Summarized(c)
          /\ \/ /\ Compacted(c, fresh)
                /\ \/ disk' = status /\ pc' = "top" /\ UNCHANGED status
                   \/ Fail("failed")
             \/ Fail("failed")
                /\ UNCHANGED <<size, turned, progress, forceSummary, recovery>>
    BY <1>21 DEF Recover
  <2>2. /\ used' \in Nat /\ steps' \in Nat /\ checkpoint' \in Checkpoint
        /\ UNCHANGED <<task, ctx, clock, answer>>
    BY <1>18, <2>1
  <2>3. fresh \in Nat /\ c.report \in Reports
    BY ParametersAreNumbers DEF Checkpoint
  <2>4. CASE Fail("failed") /\ UNCHANGED <<size, turned, progress, forceSummary, recovery>>
    BY <1>1, <1>2, <1>3, <2>2, <2>4
  <2>5. CASE Compacted(c, fresh)
    <3>1. /\ size' \in Nat /\ compactions' \in Nat /\ lastRecovery' \in Reports
          /\ progressed' = FALSE /\ turned' = FALSE /\ forceSummary' = FALSE
          /\ UNCHANGED <<noEditTurns, nudged, metrics, loopBlocked, seen>>
      BY <1>3, <2>3, <2>5 DEF Compacted
    <3>2. CASE Fail("failed")
      BY <1>1, <1>2, <1>3, <2>2, <3>1, <3>2
    <3>3. CASE disk' = status /\ pc' = "top" /\ UNCHANGED status
      <4>1. TypeOK'
        BY <1>0, <2>2, <3>1, <3>3 DEF TypeOK
      <4>2. CallsCounted'
        BY <1>0, <2>2, <3>3 DEF CallsCounted
      <4> QED
        BY <4>1, <4>2 DEF RunTypes
    <3> QED
      BY <2>1, <3>2, <3>3
  <2> QED
    BY <2>1, <2>4, <2>5
<1>22. CASE StopAtCheckpoint
  BY <1>1, <1>2, <1>3, <1>18, <1>22 DEF StopAtCheckpoint
<1> QED
  BY <1>4, <1>5, <1>6, <1>7, <1>8, <1>9, <1>10, <1>11, <1>12, <1>13, <1>14, <1>15,
     <1>16, <1>17, <1>19, <1>20, <1>21, <1>22 DEF RunStep

\* Time passes, and the context may be done, at any point of a run.
LEMMA TimeTypes == ASSUME RunTypes, ContextDone \/ Tick \/ UNCHANGED vars PROVE RunTypes'
<1> USE DEF metrics, seen
<1>1. /\ UNCHANGED <<task, pc, status, disk, used, steps, size, turned, noEditTurns,
                     nudged, metrics, loopBlocked, seen, forceSummary, compactions,
                     checkpoint, lastRecovery, progressed, answer>>
      /\ clock' \in {"short", "last", clock} /\ (ctx' = TRUE \/ UNCHANGED ctx)
  BY DEF ContextDone, Tick, vars, budget, progress, recovery
<1>2. TypeOK'
  <2>1. ctx' \in BOOLEAN /\ clock' \in {"ample", "short", "last"}
    BY <1>1 DEF RunTypes, TypeOK
  <2> QED
    BY <1>1, <2>1 DEF RunTypes, TypeOK
<1>3. CallsCounted'
  BY <1>1 DEF RunTypes, CallsCounted
<1> QED
  BY <1>2, <1>3 DEF RunTypes

\* Types are inductive by themselves.
LEMMA RunTypesCorrect == Spec => []RunTypes
<1>1. Init => RunTypes
  BY InitTypes
<1>2. RunTypes /\ [Next]_vars => RunTypes'
  BY StepTypes, TimeTypes DEF Next
<1> QED
  BY <1>1, <1>2, PTL DEF Spec
-----------------------------------------------------------------------------
(* Budgets.                                                                *)

\* A call that is counted was affordable.
LEMMA CallWithinBudget ==
    ASSUME RunTypes, BudgetInv, NEW e \in Nat, used + e =< Limit, steps < MaxSteps,
           \E n \in Usage(e) : Record(n)
    PROVE  used' =< Limit /\ steps' =< MaxSteps
<1>1. used' \in Nat /\ used' =< used + e /\ steps' = steps + 1
  BY RecordTypes DEF RunTypes
<1>2. used \in Nat /\ steps \in Nat
  BY DEF RunTypes, TypeOK
<1> QED
  BY <1>1, <1>2, ParametersAreNumbers

\* Every step keeps a run within its budgets.
LEMMA StepBudget == ASSUME RunTypes, BudgetInv, RunStep PROVE BudgetInv'
<1> USE DEF progress, budget, recovery
<1>1. ASSUME UNCHANGED <<used, steps, compactions>>, pc' \notin {"request", "summary"}
      PROVE  BudgetInv'
  BY <1>1 DEF BudgetInv, BudgetKept, CallAffordable
<1>2. ASSUME used' =< Limit, steps' =< MaxSteps, pc' \notin {"request", "summary"},
             compactions' =< MaxCompactions
      PROVE  BudgetInv'
  BY <1>2 DEF BudgetInv, BudgetKept, CallAffordable
<1>3. CASE CancelledAtHead \/ LimitReached \/ RequestFails \/ CancelledBetweenCalls
           \/ EmptyAnswer \/ FailUnsaved
  BY <1>1, <1>3 DEF CancelledAtHead, LimitReached, RequestFails, CancelledBetweenCalls,
                    EmptyAnswer, FailUnsaved, Fail
<1>4. CASE Head
  BY <1>1, <1>4 DEF Head, Fail
<1>5. CASE StartCall
  <2>1. steps \in Nat /\ used \in Nat /\ size \in Nat /\ Output \in Nat /\ SummaryCost \in Nat
    BY OutputTypes DEF RunTypes, TypeOK
  <2>2. /\ steps < MaxSteps
        /\ Summarize => used + SummaryCost =< Limit
        /\ ~Summarize => used + size + Output =< Limit
    BY <1>5, <2>1, ParametersAreNumbers DEF StartCall, Spent, TooExpensive
  <2>3. UNCHANGED <<used, steps, size, compactions>> /\ pc' = IF Summarize THEN "summary" ELSE "request"
    BY <1>5 DEF StartCall
  <2>4. Output' = Output /\ SummaryCost' = SummaryCost
    BY <2>3 DEF Output, SummaryCost, SummaryOut
  <2> QED
    BY <2>2, <2>3, <2>4 DEF BudgetInv, BudgetKept, CallAffordable
<1>6. ASSUME Answered, pc' \notin {"request", "summary"} PROVE BudgetInv'
  <2>1. size + Output \in Nat /\ used + (size + Output) =< Limit /\ steps < MaxSteps
    <3>1. used \in Nat /\ size \in Nat /\ Output \in Nat
      BY OutputTypes DEF RunTypes, TypeOK
    <3>2. used + size + Output =< Limit /\ steps < MaxSteps
      BY <1>6 DEF Answered, BudgetInv, CallAffordable
    <3> QED
      BY <3>1, <3>2, ParametersAreNumbers
  <2>2. used' =< Limit /\ steps' =< MaxSteps
    BY <1>6, <2>1, CallWithinBudget DEF Answered
  <2> QED
    BY <1>2, <1>6, <2>2 DEF Answered, BudgetInv, BudgetKept
<1>7. CASE AnswerUseless \/ AnswerTruncated \/ AnswerWhole
  BY <1>6, <1>7 DEF AnswerUseless, AnswerTruncated, AnswerWhole, Fail
<1>8. CASE RejectCall \/ BeginCall \/ Edit \/ Look \/ Report
  BY <1>1, <1>8 DEF RejectCall, BeginCall, Edit, Look, Report, EndCall
<1>9. CASE EndTurn \/ FinalText
  BY <1>1, <1>9 DEF EndTurn, FinalText, Complete, Fail
<1>10. ASSUME pc = "summary", \E n \in Usage(SummaryCost) : Record(n)
       PROVE  used' =< Limit /\ steps' =< MaxSteps
  <2>1. SummaryCost \in Nat /\ used + SummaryCost =< Limit /\ steps < MaxSteps
    BY <1>10, OutputTypes DEF RunTypes, BudgetInv, CallAffordable
  <2> QED
    BY <1>10, <2>1, CallWithinBudget
<1>11. CASE SummaryFails
  BY <1>1, <1>2, <1>10, <1>11 DEF SummaryFails, Fail, BudgetInv, BudgetKept
<1>12. CASE SummaryNeedsAttention \/ SummaryCompletes \/ StopAtCheckpoint
  BY <1>2, <1>10, <1>12
     DEF SummaryNeedsAttention, SummaryCompletes, StopAtCheckpoint, Summarized, Complete,
         Fail, BudgetInv, BudgetKept
<1>13. CASE Recover
  <2>1. used' =< Limit /\ steps' =< MaxSteps /\ pc' \notin {"request", "summary"}
    BY <1>10, <1>13 DEF Recover, Summarized, Fail
  <2>2. compactions < MaxCompactions /\ compactions' \in {compactions, compactions + 1}
    BY <1>13 DEF Recover, MayRecover, Compacted
  <2>3. compactions' =< MaxCompactions
    BY <2>2, ParametersAreNumbers DEF RunTypes, TypeOK
  <2> QED
    BY <1>2, <2>1, <2>3
<1> QED
  BY <1>3, <1>4, <1>5, <1>7, <1>8, <1>9, <1>11, <1>12, <1>13 DEF RunStep

\* The budget is kept whatever the clock does between the choice and the call.
LEMMA BudgetInvCorrect == Spec => []BudgetInv
<1>1. Init => BudgetInv
  BY ParametersAreNumbers DEF Init, BudgetInv, BudgetKept, CallAffordable
<1>2. RunTypes /\ BudgetInv /\ [Next]_vars => BudgetInv'
  <2> SUFFICES ASSUME RunTypes, BudgetInv, [Next]_vars PROVE BudgetInv'
    OBVIOUS
  <2>1. CASE ContextDone \/ Tick \/ UNCHANGED vars
    <3>1. UNCHANGED <<pc, used, steps, size, compactions>>
      BY <2>1 DEF ContextDone, Tick, vars, budget, recovery
    <3> QED
      BY <3>1 DEF BudgetInv, BudgetKept, CallAffordable, Output, SummaryCost, SummaryOut
  <2> QED
    BY <2>1, StepBudget DEF Next
<1> QED
  BY <1>1, <1>2, RunTypesCorrect, PTL DEF Spec
-----------------------------------------------------------------------------
(* Outcomes.                                                               *)

\* A job is completed by a final text or a complete checkpoint, and by nothing
\* else.
LEMMA StepHonest == ASSUME RunTypes, HonestInv, RunStep PROVE HonestInv'
<1> USE DEF metrics, seen
<1>1. ASSUME NEW s, s # "completed", Fail(s), UNCHANGED <<metrics, seen>>
      PROVE  HonestInv'
  BY <1>1 DEF Fail, HonestInv, OutcomeLast, EditsSeen, Edited, HonestCompletion
<1>2. ASSUME pc \notin {"failing", "release"}, UNCHANGED status, EditsSeen'
      PROVE  HonestInv'
  BY <1>2 DEF HonestInv, OutcomeLast, HonestCompletion
<1>3. ASSUME UNCHANGED <<metrics, touched>> PROVE EditsSeen'
  BY <1>3 DEF HonestInv, EditsSeen, Edited
<1>4. CASE CancelledAtHead \/ LimitReached \/ RequestFails \/ CancelledBetweenCalls
           \/ EmptyAnswer \/ FailUnsaved \/ SummaryFails
           \/ SummaryNeedsAttention \/ StopAtCheckpoint
  BY <1>1, <1>4 DEF CancelledAtHead, LimitReached, RequestFails, CancelledBetweenCalls,
                    EmptyAnswer, FailUnsaved, SummaryFails, SummaryNeedsAttention,
                    StopAtCheckpoint, progress
<1>5. CASE AnswerUseless
  <2>1. UNCHANGED <<metrics, touched>> /\ (Fail("failed") \/ Fail("cancelled"))
    BY <1>5 DEF AnswerUseless, Answered
  <2> QED
    BY <1>3, <2>1 DEF Fail, HonestInv, OutcomeLast, HonestCompletion
<1>6. CASE Head \/ EndTurn \/ Recover
  <2>1. UNCHANGED <<metrics, seen>> /\ pc \notin {"failing", "release"}
    BY <1>6 DEF Head, EndTurn, Recover, Summarized, Compacted, progress
  <2>2. UNCHANGED status \/ Fail("failed")
    BY <1>6 DEF Head, EndTurn, Recover
  <2> QED
    BY <1>1, <1>2, <1>3, <2>1, <2>2
<1>7. CASE StartCall \/ AnswerTruncated \/ AnswerWhole \/ RejectCall \/ BeginCall
           \/ Look \/ Report
  <2>1. pc \notin {"failing", "release"} /\ UNCHANGED <<status, touched, edits, baseEdits>>
    BY <1>7 DEF StartCall, AnswerTruncated, AnswerWhole, Answered, RejectCall, BeginCall,
                Look, Report, EndCall, progress
  <2>2. EditsSeen'
    BY <2>1 DEF HonestInv, EditsSeen, Edited
  <2> QED
    BY <1>2, <2>1, <2>2
<1>8. CASE Edit
  <2>1. /\ pc = "call" /\ UNCHANGED <<status, baseEdits>>
        /\ edits' = edits + 1 /\ touched' = TRUE
    BY <1>8 DEF Edit, EndCall
  <2>2. edits \in Nat /\ baseEdits \in Nat
    BY DEF RunTypes, TypeOK
  <2>3. EditsSeen'
    BY <2>1, <2>2 DEF HonestInv, EditsSeen, Edited
  <2> QED
    BY <1>2, <2>1, <2>3
<1>9. CASE FinalText
  <2>1. ~NeedsCheck /\ UNCHANGED <<task, metrics, touched, checkpoint>>
        /\ status' = "completed" /\ pc' \in {"failing", "release"}
    BY <1>9 DEF FinalText, Complete, progress
  <2>2. EditsSeen'
    BY <1>3, <2>1
  <2> QED
    BY <2>1, <2>2
       DEF NeedsCheck, Incomplete, EditsSeen, HonestInv, OutcomeLast, HonestCompletion
<1>10. CASE SummaryCompletes
  <2>1. PICK c \in Checkpoint : c.complete /\ ~NeedsAttention(c) /\ Summarized(c)
    BY <1>10 DEF SummaryCompletes
  <2>2. /\ UNCHANGED <<task, metrics, touched>> /\ checkpoint' = c
        /\ status' = "completed" /\ pc' \in {"failing", "release"}
    BY <1>10, <2>1 DEF SummaryCompletes, Summarized, Complete, progress
  <2>3. task.implementation => touched
    BY <2>1 DEF NeedsAttention, HonestInv, EditsSeen
  <2>4. EditsSeen'
    BY <1>3, <2>2
  <2> QED
    BY <2>1, <2>2, <2>3, <2>4 DEF Incomplete, HonestInv, OutcomeLast, HonestCompletion
<1> QED
  BY <1>4, <1>5, <1>6, <1>7, <1>8, <1>9, <1>10 DEF RunStep

\* Honesty is inductive once the outcome is known to be the last thing set and
\* the metrics to tell the edits of this run from those before it.
LEMMA HonestInvCorrect == Spec => []HonestInv
<1>1. Init => HonestInv
  BY ParametersAreNumbers DEF Init, HonestInv, OutcomeLast, EditsSeen, Edited,
                              HonestCompletion
<1>2. RunTypes /\ HonestInv /\ [Next]_vars => HonestInv'
  <2> SUFFICES ASSUME RunTypes, HonestInv, [Next]_vars PROVE HonestInv'
    OBVIOUS
  <2>1. CASE ContextDone \/ Tick \/ UNCHANGED vars
    <3>1. UNCHANGED <<task, pc, status, edits, baseEdits, touched, checkpoint>>
      BY <2>1 DEF ContextDone, Tick, vars, progress, metrics, seen
    <3> QED
      BY <3>1 DEF HonestInv, OutcomeLast, EditsSeen, Edited, HonestCompletion, Incomplete
  <2> QED
    BY <2>1, StepHonest DEF Next
<1> QED
  BY <1>1, <1>2, RunTypesCorrect, PTL DEF Spec
-----------------------------------------------------------------------------
(* Stalls.                                                                 *)

\* The counters change with answers and tool calls; the head of the loop reads
\* them before each call.
LEMMA StepStall == ASSUME RunTypes, StallInv, RunStep PROVE StallInv'
<1> USE DEF progress, metrics, seen
<1>1. ASSUME sinceEdit' = noEditTurns', rereads' = Repeated',
             pc' \notin {"planned", "request"}, ~loopBlocked'
      PROVE  StallInv'
  BY <1>1 DEF StallInv, StallSeen, StallWindow
<1>2. sinceEdit = noEditTurns /\ rereads = Repeated
  BY DEF StallInv, StallSeen
<1>3. pc \notin {"planned", "summary", "release"} => ~loopBlocked
  BY DEF StallInv, StallSeen
<1>4. ASSUME UNCHANGED <<task, noEditTurns, loopBlocked, forceSummary, metrics, seen>>,
             pc' = "release"
      PROVE  StallInv'
  BY <1>4 DEF StallInv, StallSeen, StallWindow, Stalled, Watched, Repeated
<1>5. ASSUME UNCHANGED <<noEditTurns, loopBlocked, metrics, seen>>, ~loopBlocked,
             pc' \notin {"planned", "request"}
      PROVE  StallInv'
  BY <1>1, <1>2, <1>5 DEF Repeated
<1>6. CASE CancelledAtHead \/ RequestFails \/ CancelledBetweenCalls \/ EmptyAnswer
           \/ FailUnsaved \/ EndTurn \/ FinalText \/ RejectCall \/ BeginCall \/ Report
  BY <1>3, <1>5, <1>6
     DEF CancelledAtHead, RequestFails, CancelledBetweenCalls, EmptyAnswer, FailUnsaved,
         EndTurn, FinalText, RejectCall, BeginCall, Report, EndCall, Fail, Complete
<1>7. CASE LimitReached \/ SummaryFails \/ SummaryNeedsAttention \/ StopAtCheckpoint
  BY <1>4, <1>7 DEF LimitReached, SummaryFails, SummaryNeedsAttention, StopAtCheckpoint,
                    Summarized, Fail
<1>8. CASE AnswerUseless \/ AnswerTruncated \/ AnswerWhole
  <2>1. /\ sinceEdit' = noEditTurns' /\ UNCHANGED <<metrics, rereads, loopBlocked>>
        /\ pc = "request" /\ pc' \notin {"planned", "request"}
    BY <1>2, <1>8 DEF AnswerUseless, AnswerTruncated, AnswerWhole, Answered, Fail
  <2> QED
    BY <1>1, <1>2, <1>3, <2>1 DEF Repeated
<1>9. CASE Edit
  <2>1. /\ sinceEdit' = 0 /\ noEditTurns' = 0 /\ rereads' = 0 /\ baseRepeated' = repeats
        /\ pc = "call" /\ pc' = "reply" /\ UNCHANGED <<repeats, loopBlocked>>
    BY <1>9 DEF Edit, EndCall
  <2>2. repeats \in Nat
    BY DEF RunTypes, TypeOK
  <2>3. Repeated' = 0
    BY <2>1, <2>2 DEF Repeated
  <2> QED
    BY <1>1, <1>3, <2>1, <2>3
<1>10. CASE Look
  <2>1. /\ UNCHANGED <<noEditTurns, sinceEdit, baseRepeated, loopBlocked>>
        /\ \/ UNCHANGED <<repeats, rereads>>
           \/ repeats' = repeats + 1 /\ rereads' = rereads + 1
        /\ pc = "call" /\ pc' = "reply"
    BY <1>10 DEF Look, EndCall
  <2>2. repeats \in Nat /\ baseRepeated \in Nat
    BY DEF RunTypes, TypeOK
  <2>3. rereads' = Repeated'
    BY <1>2, <2>1, <2>2 DEF Repeated
  <2> QED
    BY <1>1, <1>2, <1>3, <2>1, <2>3
<1>11. ASSUME loopBlocked PROVE task.implementation
  BY <1>11 DEF StallInv, StallSeen, Stalled, Watched
<1>12. CASE SummaryCompletes \/ Recover
  <2>1. ~loopBlocked
    BY <1>11, <1>12 DEF SummaryCompletes, Recover, NeedsAttention
  <2> QED
    BY <1>5, <1>12, <2>1 DEF SummaryCompletes, Recover, Summarized, Compacted, Fail, Complete
<1>13. CASE Head
  <2>1. /\ UNCHANGED <<task, noEditTurns, metrics, seen>>
        /\ pc = "top" /\ pc' \in {"planned", "release"}
        /\ nudged' = (nudged \/ (Watched /\ noEditTurns >= NudgeAfter /\ ~nudged))
        /\ forceSummary' = (forceSummary \/ Stalled)
        /\ loopBlocked' = (loopBlocked \/ Stalled)
    BY <1>13 DEF Head, Fail
  <2>2. (Stalled' <=> Stalled) /\ Repeated' = Repeated
    BY <2>1 DEF Stalled, Watched, Repeated
  <2>3. Watched' /\ noEditTurns' >= NudgeAfter => nudged'
    BY <2>1 DEF Watched
  <2>4. StallSeen'
    BY <1>2, <1>3, <2>1, <2>2, <2>3 DEF StallSeen
  <2>5. StallWindow'
    BY <2>1, <2>4 DEF StallWindow, StallSeen, Stalled
  <2> QED
    BY <2>4, <2>5 DEF StallInv
<1>14. CASE StartCall
  <2>1. /\ UNCHANGED <<task, noEditTurns, nudged, loopBlocked, forceSummary, metrics, seen>>
        /\ pc = "planned" /\ pc' = IF Summarize THEN "summary" ELSE "request"
    BY <1>14 DEF StartCall
  <2>2. (Stalled' <=> Stalled) /\ Repeated' = Repeated
    BY <2>1 DEF Stalled, Watched, Repeated
  <2>3. CASE Summarize
    <3>1. StallSeen'
      BY <2>1, <2>2, <2>3 DEF StallInv, StallSeen
    <3> QED
      BY <2>1, <2>3, <3>1 DEF StallInv, StallWindow
  <2>4. CASE ~Summarize
    <3>1. ~Stalled /\ ~loopBlocked
      BY <2>1, <2>4 DEF Summarize, Stalled, Watched, StallInv, StallSeen
    <3>2. Watched /\ noEditTurns >= NudgeAfter => nudged
      BY <2>1 DEF StallInv, StallSeen
    <3>3. StallSeen'
      BY <1>2, <2>1, <2>2, <2>4, <3>1, <3>2 DEF StallSeen, Watched
    <3>4. StallWindow'
      BY <1>2, <2>1, <2>4, <3>1, <3>2 DEF StallWindow, Stalled, Watched
    <3> QED
      BY <3>3, <3>4 DEF StallInv
  <2> QED
    BY <2>3, <2>4
<1> QED
  BY <1>6, <1>7, <1>8, <1>9, <1>10, <1>12, <1>13, <1>14 DEF RunStep

\* The window is inductive with what the head of the loop has seen.
LEMMA StallInvCorrect == Spec => []StallInv
<1>1. Init => StallInv
  <2>1. ASSUME Init PROVE Repeated = 0
    BY <2>1, ParametersAreNumbers DEF Init, Repeated
  <2> QED
    BY <2>1 DEF Init, StallInv, StallSeen, StallWindow
<1>2. RunTypes /\ StallInv /\ [Next]_vars => StallInv'
  <2> SUFFICES ASSUME RunTypes, StallInv, [Next]_vars PROVE StallInv'
    OBVIOUS
  <2>1. CASE ContextDone \/ Tick \/ UNCHANGED vars
    <3>1. UNCHANGED <<task, pc, noEditTurns, nudged, loopBlocked, forceSummary, repeats,
                      baseRepeated, sinceEdit, rereads>>
      BY <2>1 DEF ContextDone, Tick, vars, progress, metrics, seen
    <3> QED
      BY <3>1 DEF StallInv, StallSeen, StallWindow, Stalled, Watched, Repeated
  <2> QED
    BY <2>1, StepStall DEF Next
<1> QED
  BY <1>1, <1>2, RunTypesCorrect, PTL DEF Spec
-----------------------------------------------------------------------------
(* What follows.                                                           *)

\* The variables of a run have their types.
THEOREM RunTypeCorrect == Spec => []TypeOK
<1>1. RunTypes => TypeOK
  BY DEF RunTypes
<1> QED
  BY <1>1, RunTypesCorrect, PTL

\* As long as estimates are not too low, a run with its checkpoints and recoveries
\* stays within the token budget, the model calls and the compactions it was given.
THEOREM BudgetCorrect == Spec => []BudgetKept
<1>1. BudgetInv => BudgetKept
  BY DEF BudgetInv
<1> QED
  BY <1>1, BudgetInvCorrect, PTL

\* Under autopilot a job is completed only if no unfinished checkpoint is on
\* record, and an implementation only after an edit in this very run, whatever
\* checkpoint and metrics earlier runs have left.
THEOREM HonestCorrect == Spec => []HonestCompletion
<1>1. HonestInv => HonestCompletion
  BY DEF HonestInv
<1> QED
  BY <1>1, HonestInvCorrect, PTL

\* A watched run makes no working call once it has stalled, compactions or not,
\* is nudged first, and is not blocked before, whatever earlier runs have read.
THEOREM StallCorrect == Spec => []StallWindow
<1>1. StallInv => StallWindow
  BY DEF StallInv
<1> QED
  BY <1>1, StallInvCorrect, PTL
-----------------------------------------------------------------------------
(* The run as Jobs has it.                                                 *)

\* From the head of the loop on, what is on disk is what is in memory.
SavedAtHead ==
    /\ pc \in {"planned", "request", "reply", "call", "summary"} => disk = status
    /\ OutcomeLast

\* The values of the functions of Jobs for the one job, goroutine and file.
Of(s) == [j \in {"job"} |-> s]
PCOf(l) == [w \in {"job"} \X (0 .. 1) |-> IF w = Worker THEN l ELSE "none"]

\* An update of them is one with another value.
LEMMA Values ==
    /\ Worker \in {"job"} \X (0 .. 1) /\ Worker[1] = "job"
    /\ \A l, m : PCOf(l)[Worker] = l /\ [PCOf(l) EXCEPT ![Worker] = m] = PCOf(m)
    /\ \A s, t : Of(s)["job"] = s /\ [Of(s) EXCEPT !["job"] = t] = Of(t)
<1>1. Worker \in {"job"} \X (0 .. 1) /\ Worker[1] = "job"
  BY DEF Worker
<1>2. ASSUME NEW l, NEW m
      PROVE  PCOf(l)[Worker] = l /\ [PCOf(l) EXCEPT ![Worker] = m] = PCOf(m)
  BY <1>1 DEF PCOf
<1>3. ASSUME NEW s, NEW t
      PROVE  Of(s)["job"] = s /\ [Of(s) EXCEPT !["job"] = t] = Of(t)
  BY DEF Of
<1> QED
  BY <1>1, <1>2, <1>3

\* The goroutine leaves pc l1 for l2; that is what Goto says.
LEMMA Goes ==
    ASSUME NEW l \in {"top", "ask", "reply", "call", "failing", "release"}, JobsPC' = l
    PROVE  J!Goto(Worker, l)
BY Values DEF J!Goto, PCOf

\* A step that leaves alone what Jobs has no freedom in.
LEMMA Quiet ==
    ASSUME UNCHANGED <<ctx, touched>>
    PROVE  J!Silent /\ UNCHANGED [x \in {File} |-> IF touched THEN "job" ELSE "no job"]
BY DEF J!Silent

\* The job file gets status s, and no plan, as before.
LEMMA Saves ==
    ASSUME NEW s, disk' = s
    PROVE  J!Saved("job", s, FALSE)
BY Values DEF J!Saved, Of

\* A run that fails gives up in Jobs.
LEMMA Fails ==
    ASSUME JobsPC \in {"top", "ask", "reply"}, UNCHANGED <<ctx, touched>>,
           NEW s \in {"failed", "cancelled", "limit_reached", "needs_attention"}, Fail(s),
           s = "cancelled" => ctx
    PROVE  J!Step(Worker)
<1>1. J!Silent /\ UNCHANGED [x \in {File} |-> IF touched THEN "job" ELSE "no job"]
  BY Quiet
<1>2. JobsPC' = "release" /\ J!Goto(Worker, "release")
  <2>1. JobsPC' = "release"
    BY DEF Fail, JobsPC
  <2> QED
    BY <2>1, Goes
<1>3. J!Fail(Worker, s)
  <2>1. J!SaveOrNot("job", s, FALSE)
    <3>1. CASE disk' = s
      BY <3>1, Saves DEF J!SaveOrNot
    <3>2. CASE disk' = disk
      BY <3>2 DEF J!SaveOrNot, J!NotSaved
    <3> QED
      BY <3>1, <3>2 DEF Fail
  <2>2. Worker[1] = "job"
    BY Values
  <2> QED
    BY <2>1, <2>2, Values DEF J!Fail, Fail, Of
<1>4. J!GiveUp(Worker, s)
  BY <1>1, <1>2, <1>3, Values DEF J!GiveUp, PCOf
<1> QED
  BY <1>4 DEF J!Step, J!FailStatus

\* A run that is completed, saved or not, is completed in Jobs.
LEMMA Completes ==
    ASSUME pc \in {"reply", "summary"}, UNCHANGED <<ctx, touched>>, Complete
    PROVE  J!Step(Worker)
<1>1. J!Silent /\ UNCHANGED [x \in {File} |-> IF touched THEN "job" ELSE "no job"]
  BY Quiet
<1>2. JobsPC \in {"ask", "reply"} /\ JobsPC' = pc' /\ pc' \in {"release", "failing"}
  BY DEF JobsPC, Complete
<1>3. \/ pc' = "release" /\ J!Goto(Worker, "release")
      \/ pc' = "failing" /\ J!Goto(Worker, "failing")
  BY <1>2, Goes
<1>4. \/ J!Saved("job", "completed", FALSE) /\ pc' = "release"
      \/ J!NotSaved /\ pc' = "failing"
  BY Saves DEF Complete, J!NotSaved
<1>5. J!Complete(Worker)
  BY <1>1, <1>2, <1>3, <1>4, Values DEF J!Complete, Complete, Of, PCOf
<1> QED
  BY <1>5 DEF J!Step

\* The end of a turn, or a conversation that starts again, is saved.
LEMMA Turns ==
    ASSUME JobsPC \in {"ask", "reply"}, UNCHANGED <<ctx, touched, status>>, pc' = "top",
           disk' = status
    PROVE  J!Step(Worker)
<1>1. J!Silent /\ UNCHANGED [x \in {File} |-> IF touched THEN "job" ELSE "no job"]
  BY Quiet
<1>2. J!Goto(Worker, "top")
  BY Goes DEF JobsPC
<1>3. J!Saved("job", status, FALSE)
  BY Saves
<1>4. J!NextTurn(Worker)
  BY <1>1, <1>2, <1>3, Values DEF J!NextTurn, Of, PCOf
<1> QED
  BY <1>4 DEF J!Step

\* A file of the job is one it may write.
LEMMA MayWriteFile ==
    J!MayWrite([ws |-> <<"/", "r">>, write |-> {<<>>}, kind |-> "task",
                intent |-> "implementation"], File)
<1>1. J!IsUnder(File, <<"/", "r">>)
  BY DEF J!IsUnder, File
<1>2. J!ToLower(<<>>) = <<>>
  BY DEF J!ToLower
<1>3. <<>> # J!Root
  BY DEF J!Root
<1>4. ASSUME NEW q PROVE J!owns({<<>>}, q)
  BY <1>2, <1>3 DEF J!owns, J!IsUnder
<1> QED
  BY <1>1, <1>4 DEF J!MayWrite

\* Every step of a run is one in Jobs, or none.
LEMMA StepWorker ==
    ASSUME RunTypes, SavedAtHead, RunStep
    PROVE  J!Step(Worker) \/ UNCHANGED J!vars
<1> USE DEF progress, metrics, seen, budget, recovery
<1>1. {"failed", "cancelled", "limit_reached", "needs_attention"} = J!FailStatus
  BY DEF J!FailStatus
<1>2. CASE CancelledAtHead \/ LimitReached \/ RequestFails \/ CancelledBetweenCalls
           \/ EmptyAnswer \/ AnswerUseless \/ SummaryFails \/ SummaryNeedsAttention
           \/ StopAtCheckpoint
  BY <1>2, Fails
     DEF CancelledAtHead, LimitReached, RequestFails, CancelledBetweenCalls, EmptyAnswer,
         AnswerUseless, Answered, SummaryFails, SummaryNeedsAttention, StopAtCheckpoint,
         Summarized, JobsPC
<1>3. CASE FailUnsaved
  <2>1. J!Silent /\ UNCHANGED [x \in {File} |-> IF touched THEN "job" ELSE "no job"]
    BY <1>3, Quiet DEF FailUnsaved
  <2>2. J!Goto(Worker, "release") /\ JobsPC = "failing"
    BY <1>3, Goes DEF FailUnsaved, Fail, JobsPC
  <2>3. J!SaveOrNot("job", "failed", FALSE) /\ status' = "failed"
    BY <1>3, Saves DEF FailUnsaved, Fail, J!SaveOrNot, J!NotSaved
  <2>4. J!FailUnsaved(Worker)
    BY <2>1, <2>2, <2>3, Values DEF J!FailUnsaved, J!Fail, Of, PCOf
  <2> QED
    BY <2>4 DEF J!Step
<1>4. CASE Head
  <2>1. CASE Fail("failed")
    BY <1>4, <2>1, Fails DEF Head, JobsPC
  <2>2. CASE disk' = status /\ pc' = "planned" /\ UNCHANGED status
    <3>1. J!Silent /\ UNCHANGED [x \in {File} |-> IF touched THEN "job" ELSE "no job"]
      BY <1>4, Quiet DEF Head
    <3>2. J!Goto(Worker, "ask") /\ JobsPC = "top" /\ ~ctx
      BY <1>4, <2>2, Goes DEF Head, JobsPC
    <3>3. J!Saved("job", status, FALSE)
      BY <2>2, Saves
    <3>4. J!Ask(Worker)
      BY <2>2, <3>1, <3>2, <3>3, Values DEF J!Ask, Of, PCOf
    <3> QED
      BY <3>4 DEF J!Step
  <2> QED
    BY <1>4, <2>1, <2>2 DEF Head
<1>5. CASE StartCall \/ RejectCall
  <2>1. UNCHANGED <<JobsPC, status, disk, ctx, touched>>
    BY <1>5 DEF StartCall, RejectCall, JobsPC
  <2> QED
    BY <2>1 DEF J!vars
<1>6. CASE AnswerTruncated
  BY <1>6, Turns DEF AnswerTruncated, Answered, JobsPC, SavedAtHead
<1>7. CASE AnswerWhole
  <2>1. J!Silent /\ UNCHANGED [x \in {File} |-> IF touched THEN "job" ELSE "no job"]
    BY <1>7, Quiet DEF AnswerWhole, Answered
  <2>2. /\ J!Goto(Worker, "reply") /\ JobsPC = "ask" /\ ~ctx
        /\ UNCHANGED <<status, disk>>
    BY <1>7, Goes DEF AnswerWhole, Answered, JobsPC
  <2>3. J!Answered(Worker)
    BY <2>1, <2>2, Values DEF J!Answered, J!NotSaved, PCOf
  <2> QED
    BY <2>3 DEF J!Step
<1>8. CASE BeginCall
  <2>1. J!Silent /\ UNCHANGED [x \in {File} |-> IF touched THEN "job" ELSE "no job"]
    BY <1>8, Quiet DEF BeginCall
  <2>2. /\ J!Goto(Worker, "call") /\ JobsPC = "reply" /\ ~ctx
        /\ UNCHANGED <<status, disk>>
    BY <1>8, Goes DEF BeginCall, JobsPC
  <2>3. J!BeginCall(Worker)
    BY <2>1, <2>2, Values DEF J!BeginCall, J!NotSaved, PCOf
  <2> QED
    BY <2>3 DEF J!Step
<1>9. CASE Edit
  <2>1. J!Silent /\ touched'
    BY <1>9 DEF Edit, EndCall, J!Silent
  <2>2. /\ J!Goto(Worker, "reply") /\ JobsPC = "call" /\ UNCHANGED <<status, disk>>
    BY <1>9, Goes DEF Edit, EndCall, JobsPC
  <2>3. J!EditFile(Worker, File)
    BY <2>1, <2>2, Values, MayWriteFile DEF J!EditFile, J!NotSaved, PCOf
  <2> QED
    BY <2>3 DEF J!Step
<1>10. CASE Look \/ Report
  <2>1. J!Silent /\ UNCHANGED [x \in {File} |-> IF touched THEN "job" ELSE "no job"]
    BY <1>10, Quiet DEF Look, Report, EndCall
  <2>2. /\ J!Goto(Worker, "reply") /\ JobsPC = "call" /\ UNCHANGED <<status, disk>>
    BY <1>10, Goes DEF Look, Report, EndCall, JobsPC
  <2>3. J!EndCall(Worker)
    BY <2>1, <2>2, Values DEF J!EndCall, J!NotSaved, PCOf
  <2> QED
    BY <2>3 DEF J!Step
<1>11. CASE EndTurn
  <2>1. CASE Fail("failed")
    BY <1>11, <2>1, Fails DEF EndTurn, JobsPC
  <2>2. CASE disk' = status /\ pc' = "top" /\ UNCHANGED status
    BY <1>11, <2>2, Turns DEF EndTurn, JobsPC
  <2> QED
    BY <1>11, <2>1, <2>2 DEF EndTurn
<1>12. CASE FinalText \/ SummaryCompletes
  BY <1>12, Completes DEF FinalText, SummaryCompletes, Summarized
<1>13. CASE Recover
  <2>1. /\ UNCHANGED <<ctx, touched>> /\ pc = "summary"
        /\ \/ disk' = status /\ pc' = "top" /\ UNCHANGED status
           \/ Fail("failed")
    BY <1>13 DEF Recover, Summarized, Compacted
  <2> QED
    BY <2>1, Fails, Turns DEF JobsPC
<1> QED
  BY <1>2, <1>3, <1>4, <1>5, <1>6, <1>7, <1>8, <1>9, <1>10, <1>11, <1>12, <1>13 DEF RunStep

\* The head of the loop saves, and what follows it leaves the status alone.
LEMMA SavedAtHeadCorrect == Spec => []SavedAtHead
<1>1. Init => SavedAtHead
  BY DEF Init, SavedAtHead, OutcomeLast
<1>2. SavedAtHead /\ HonestInv' /\ [Next]_vars => SavedAtHead'
  <2> SUFFICES ASSUME SavedAtHead, HonestInv', [Next]_vars PROVE SavedAtHead'
    OBVIOUS
  <2> SUFFICES pc' \in {"planned", "request", "reply", "call", "summary"} => disk' = status'
    BY DEF SavedAtHead, HonestInv
  <2> USE DEF SavedAtHead
  <2>1. CASE ContextDone \/ Tick \/ UNCHANGED vars
    BY <2>1 DEF ContextDone, Tick, vars
  <2>2. CASE Head
    BY <2>2 DEF Head, Fail
  <2>3. CASE StartCall \/ AnswerWhole \/ RejectCall \/ BeginCall \/ Edit \/ Look \/ Report
    BY <2>3 DEF StartCall, AnswerWhole, Answered, RejectCall, BeginCall, Edit, Look, Report,
                EndCall
  <2>4. CASE \/ CancelledAtHead \/ LimitReached \/ RequestFails \/ AnswerUseless
             \/ AnswerTruncated \/ CancelledBetweenCalls \/ EndTurn \/ FinalText
             \/ EmptyAnswer \/ FailUnsaved \/ SummaryFails \/ SummaryNeedsAttention
             \/ SummaryCompletes \/ Recover \/ StopAtCheckpoint
    BY <2>4 DEF CancelledAtHead, LimitReached, RequestFails, AnswerUseless, AnswerTruncated,
                CancelledBetweenCalls, EndTurn, FinalText, EmptyAnswer, FailUnsaved,
                SummaryFails, SummaryNeedsAttention, SummaryCompletes, Recover,
                StopAtCheckpoint, Fail, Complete
  <2> QED
    BY <2>1, <2>2, <2>3, <2>4 DEF Next, RunStep
<1> QED
  BY <1>1, <1>2, HonestInvCorrect, PTL DEF Spec

\* Whatever the budgets, the checkpoints and the answers, every step of a run is a
\* step of the goroutine in Jobs, or none there at all.
THEOREM WorkerCorrect == Spec => ImplementsWorker
<1>1. RunTypes /\ SavedAtHead /\ [Next]_vars =>
        [J!Step(Worker) \/ J!Timeout(Worker)]_(J!vars)
  <2> SUFFICES ASSUME RunTypes, SavedAtHead, [Next]_vars
               PROVE  [J!Step(Worker) \/ J!Timeout(Worker)]_(J!vars)
    OBVIOUS
  <2>1. CASE RunStep
    BY <2>1, StepWorker
  <2>2. CASE ContextDone
    <3>1. /\ pc \notin {"release", "failing"} /\ ~ctx /\ ctx'
          /\ UNCHANGED <<pc, status, disk, touched>>
      BY <2>2 DEF ContextDone, progress, seen
    <3>2. JobsPC \in {"top", "ask", "reply", "call"} /\ UNCHANGED JobsPC
      BY <3>1 DEF JobsPC, RunTypes, TypeOK
    <3>3. J!Timeout(Worker)
      BY <3>1, <3>2, Values DEF J!Timeout, PCOf
    <3> QED
      BY <3>3
  <2>3. CASE Tick \/ UNCHANGED vars
    <3>1. UNCHANGED <<JobsPC, status, disk, ctx, touched>>
      BY <2>3 DEF Tick, vars, progress, seen, JobsPC
    <3> QED
      BY <3>1 DEF J!vars
  <2> QED
    BY <2>1, <2>2, <2>3 DEF Next
<1> QED
  BY <1>1, RunTypesCorrect, SavedAtHeadCorrect, PTL DEF Spec, ImplementsWorker
=============================================================================
