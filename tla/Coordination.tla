----------------------------- MODULE Coordination -----------------------------
(***************************************************************************)
(* Messages and context packets (internal/worker/coordination.go), with    *)
(* the parts of the run loop that deliver messages and drop them from the  *)
(* conversation (runner.go).                                               *)
(*                                                                         *)
(* Messages are appended to the mailbox of a job and saved with it.  The   *)
(* run loop copies them into the conversation at the head of a turn and    *)
(* advances the cursor; a compaction leaves them out of the new            *)
(* conversation.  Packets are files of their own, listed by the job that   *)
(* published them and by the jobs that start with them.                    *)
(*                                                                         *)
(* Jobs.tla has slots, scopes and the life of a goroutine; here a job is   *)
(* queued or running in one status, and its conversation is the set of     *)
(* messages in it, known by their sequence numbers.                        *)
(***************************************************************************)
EXTENDS Integers, Sequences, FiniteSets

CONSTANTS
    Jobs,           \* job IDs
    Packets,        \* packet IDs
    Recipient,      \* bound: the one job that is sent messages
    MailboxLimit,   \* messages of a mailbox (128)
    Batch,          \* messages delivered or read at once (8)
    ContextLimit,   \* packets a job publishes, or starts with (8)
    MaxRuns,        \* bound: runs of a job
    MaxRestarts     \* bound: restarts of the process

ASSUME CoordinationAssumption ==
    /\ IsFiniteSet(Jobs) /\ "codex" \notin Jobs
    /\ Recipient \in Jobs
    /\ {MailboxLimit, Batch, ContextLimit, MaxRuns, MaxRestarts} \subseteq Nat
    /\ Batch >= 1 /\ MaxRuns >= 1

VARIABLES
    up, restarts,   \* the process
    job,            \* the jobs in memory: status, messages, delivered, history,
                    \* ContextIDs and Task.ContextIDs
    file,           \* the job files
    pc,             \* where the run of a job is
    runs,           \* starts of a job
    packets,        \* the files in contexts/
    seen,           \* history variable: messages in a request that was answered
    entered         \* history variable: messages as they entered the conversation

process == <<up, restarts>>
vars == <<up, restarts, job, file, pc, runs, packets, seen, entered>>

\* All ways to stop before the end are one here: none of them can go on.
Stopped == {"completed", "stopped"}

\* Sequence numbers are positions; sender and text bear on nothing.
Message == [contexts : SUBSET Packets]

NoJob == [status |-> "none", messages |-> <<>>, delivered |-> 0, history |-> {},
          published |-> {}, task |-> {}]

known == {j \in Jobs : job[j] # NoJob}
Min2(a, b) == IF a < b THEN a ELSE b

Init ==
    /\ up = TRUE /\ restarts = 0
    /\ job = [j \in Jobs |-> NoJob] /\ file = [j \in Jobs |-> NoJob]
    /\ pc = [j \in Jobs |-> "none"] /\ runs = [j \in Jobs |-> 0]
    /\ packets = {}
    /\ seen = [j \in Jobs |-> {}] /\ entered = [j \in Jobs |-> <<>>]

\* The job becomes r, in memory and in its file; or the save fails.
Save(j, r) == job' = [job EXCEPT ![j] = r] /\ file' = [file EXCEPT ![j] = r]
NotSaved(j, r) == job' = [job EXCEPT ![j] = r] /\ UNCHANGED file

\* fail: the status is set whether or not it can be saved.
Fail(j, r) ==
    /\ \/ Save(j, [r EXCEPT !.status = "stopped"])
       \/ NotSaved(j, [r EXCEPT !.status = "stopped"])
    /\ pc' = [pc EXCEPT ![j] = "none"]

\* The process dies at any moment; New reads the files and interrupts what was
\* active.  A clean shutdown ends every run with Fail before it comes to this.
Crash ==
    /\ up
    /\ up' = FALSE
    /\ job' = [j \in Jobs |-> NoJob] /\ pc' = [j \in Jobs |-> "none"]
    /\ UNCHANGED <<restarts, file, runs, packets, seen, entered>>

\* Mutant of New: the cursor is not restored.
NewUndelivered ==
    /\ ~up /\ restarts < MaxRestarts
    /\ up' = TRUE /\ restarts' = restarts + 1
    /\ job' = [j \in Jobs |->
                 IF file[j].status = "active"
                 THEN [file[j] EXCEPT !.status = "stopped", !.delivered = 0]
                 ELSE [file[j] EXCEPT !.delivered = 0]]
    /\ UNCHANGED <<file, pc, runs, packets, seen, entered>>

New ==
    /\ ~up /\ restarts < MaxRestarts
    /\ up' = TRUE /\ restarts' = restarts + 1
    /\ job' = [j \in Jobs |->
                 IF file[j].status = "active"
                 THEN [file[j] EXCEPT !.status = "stopped"] ELSE file[j]]
    /\ UNCHANGED <<file, pc, runs, packets, seen, entered>>
-----------------------------------------------------------------------------
(* Starting jobs.                                                          *)

\* A job that starts with the packets C, which validateTask has read.
Start(j, C) ==
    /\ job[j] = NoJob /\ file[j] = NoJob
    /\ C \subseteq packets /\ Cardinality(C) =< ContextLimit
    /\ Save(j, [NoJob EXCEPT !.status = "active", !.task = C])
    /\ pc' = [pc EXCEPT ![j] = "top"]
    /\ runs' = [runs EXCEPT ![j] = 1]
    /\ UNCHANGED <<process, packets, seen, entered>>

Spawn(j) == up /\ \E C \in SUBSET packets : Start(j, C)

\* What the sources started with, and what they published.
Inherited(S) == UNION {job[s].task \cup job[s].published : s \in S}

\* A fresh conversation from stopped jobs, with the packets of all of them;
\* refused when these are too many.
Handoff(j) ==
    /\ up
    /\ \E S \in SUBSET known \ {{}}, C \in SUBSET packets :
          /\ \A s \in S : job[s].status \in Stopped
          /\ Start(j, C \cup Inherited(S))

\* Its mailbox and cursor stay as they are.
Continue(j) ==
    /\ up /\ job[j].status = "completed" /\ runs[j] < MaxRuns
    /\ Save(j, [job[j] EXCEPT !.status = "active"])
    /\ pc' = [pc EXCEPT ![j] = "top"]
    /\ runs' = [runs EXCEPT ![j] = @ + 1]
    /\ UNCHANGED <<process, packets, seen, entered>>
-----------------------------------------------------------------------------
(* Messages and packets.  Both come from codex at any time, and from a job *)
(* in its tool calls.                                                      *)

MayCall(a) == up /\ (a = "codex" \/ (a \in Jobs /\ pc[a] = "tools"))

\* Mutant of Send: one message more than the mailbox holds.
SendFull(from, to) ==
    /\ MayCall(from)
    /\ job[to] # NoJob
    /\ Len(job[to].messages) =< MailboxLimit
    /\ Save(to, [job[to] EXCEPT !.messages = Append(@, [contexts |-> {}])])
    /\ UNCHANGED <<process, pc, runs, packets, seen, entered>>

Send(from, to) ==
    /\ MayCall(from)
    /\ job[to] # NoJob
    /\ Len(job[to].messages) < MailboxLimit
    /\ \E C \in SUBSET packets :
          /\ Cardinality(C) =< ContextLimit
          /\ Save(to, [job[to] EXCEPT !.messages =
                         Append(@, [contexts |-> C])])
    /\ UNCHANGED <<process, pc, runs, packets, seen, entered>>

\* Mutant of Publish: the job is saved first, and writing the packet may fail.
PublishFirst(a) ==
    /\ MayCall(a)
    /\ a \in Jobs => Cardinality(job[a].published) < ContextLimit
    /\ \E p \in Packets \ packets :
          /\ IF a = "codex" THEN UNCHANGED <<job, file>>
             ELSE Save(a, [job[a] EXCEPT !.published = @ \cup {p}])
          /\ packets' \in {packets, packets \cup {p}}
    /\ UNCHANGED <<process, pc, runs, seen, entered>>

\* The packet is written first, then the job that lists it.  The second save
\* may fail, or the process die between the two: nobody lists the packet then.
Publish(a) ==
    /\ MayCall(a)
    /\ a \in Jobs => Cardinality(job[a].published) < ContextLimit
    /\ \E p \in Packets \ packets :
          /\ packets' = packets \cup {p}
          /\ IF a = "codex" THEN UNCHANGED <<job, file>>
             ELSE \/ Save(a, [job[a] EXCEPT !.published = @ \cup {p}])
                  \/ UNCHANGED <<job, file>>
    /\ UNCHANGED <<process, pc, runs, seen, entered>>

\* Mutant of inbox: the cursor is put at the end of the mailbox.
inboxEnd(j, n) ==
    LET first == Min2(n, Len(job[j].messages))
    IN  [messages |-> SubSeq(job[j].messages, first + 1,
                             Min2(first + Batch, Len(job[j].messages))),
         next |-> Len(job[j].messages)]

\* The page of a mailbox after position n, and the cursor for the next one.
inbox(j, n) ==
    LET first == Min2(n, Len(job[j].messages))
        next == Min2(first + Batch, Len(job[j].messages))
    IN  [messages |-> SubSeq(job[j].messages, first + 1, next), next |-> next]

-----------------------------------------------------------------------------
(* The run loop.                                                           *)

\* The job with the next page of its mail in the conversation.
Delivered(j) ==
    LET mail == inbox(j, job[j].delivered)
        first == job[j].delivered + 1
    IN  [job[j] EXCEPT !.delivered = mail.next,
                       !.history = @ \cup first .. job[j].delivered + Len(mail.messages)]

\* The head of a turn: mail, save, and then the next request, a checkpoint, or
\* the end of the budget.
TopOfTurn(j) ==
    /\ pc[j] = "top"
    /\ LET r == Delivered(j)
       IN  /\ entered' = [entered EXCEPT ![j] =
                            @ \o inbox(j, job[j].delivered).messages]
           /\ \/ Save(j, r) /\ \E p \in {"request", "summary"} :
                                  pc' = [pc EXCEPT ![j] = p]
              \/ Fail(j, r)
    /\ UNCHANGED <<process, runs, packets, seen>>

\* The context is done, or the request or the checkpoint fails.
GiveUp(j) ==
    /\ pc[j] # "none"
    /\ Fail(j, job[j])
    /\ UNCHANGED <<process, runs, packets, seen, entered>>

\* The model has read the conversation.
See(j) == seen' = [seen EXCEPT ![j] = @ \cup job[j].history]

\* An answer with tool calls; one that was truncated, or needs a checkpoint
\* first; or the last one.
Answered(j) ==
    /\ pc[j] = "request" /\ See(j)
    /\ \/ /\ \E p \in {"tools", "top"} : pc' = [pc EXCEPT ![j] = p]
          /\ UNCHANGED <<job, file>>
       \/ /\ Save(j, [job[j] EXCEPT !.status = "completed"])
          /\ pc' = [pc EXCEPT ![j] = "none"]
       \/ Fail(j, job[j])
    /\ UNCHANGED <<process, runs, packets, entered>>

EndTurn(j) ==
    /\ pc[j] = "tools"
    /\ \/ Save(j, job[j]) /\ pc' = [pc EXCEPT ![j] = "top"]
       \/ Fail(j, job[j])
    /\ UNCHANGED <<process, runs, packets, seen, entered>>

\* recoveryInput: assignments, the checkpoint and recent file exchanges.
Compacted(j) == [job[j] EXCEPT !.history = {}]

\* The checkpoint completes the job, stops it, or is what a fresh conversation
\* starts from; the old one is archived and the new one saved.
Summarized(j) ==
    /\ pc[j] = "summary" /\ See(j)
    /\ \/ Save(j, [job[j] EXCEPT !.status = "completed"])
            /\ pc' = [pc EXCEPT ![j] = "none"]
       \/ Fail(j, job[j])
       \/ Save(j, Compacted(j)) /\ pc' = [pc EXCEPT ![j] = "top"]
       \/ Fail(j, Compacted(j))
    /\ UNCHANGED <<process, runs, packets, entered>>

Next ==
    \/ Crash \/ New
    \/ \E j \in Jobs : Spawn(j) \/ Handoff(j) \/ Continue(j)
    \/ \E a \in Jobs \cup {"codex"} : Publish(a) \/ Send(a, Recipient)
    \/ \E j \in Jobs : TopOfTurn(j) \/ GiveUp(j) \/ Answered(j) \/ EndTurn(j) \/ Summarized(j)

Spec == Init /\ [][Next]_vars
-----------------------------------------------------------------------------
(* Properties.                                                             *)

Record == [status : {"none", "active"} \cup Stopped, messages : Seq(Message),
           delivered : 0 .. MailboxLimit, history : SUBSET (1 .. MailboxLimit),
           published : SUBSET Packets, task : SUBSET Packets]

\* Types, and the mailbox and the two lists of packets within their limits.
RecordsWithinLimits ==
    /\ up \in BOOLEAN /\ restarts \in 0 .. MaxRestarts
    /\ job \in [Jobs -> Record] /\ file \in [Jobs -> Record]
    /\ pc \in [Jobs -> {"none", "top", "request", "summary", "tools"}]
    /\ runs \in [Jobs -> 0 .. MaxRuns]
    /\ packets \subseteq Packets
    /\ \A j \in Jobs : /\ Len(job[j].messages) =< MailboxLimit
                      /\ Cardinality(job[j].published) =< ContextLimit
                      /\ Cardinality(job[j].task) =< ContextLimit

\* No mail is lost on its way into the conversation: what lies behind the
\* cursor is in the conversation still, or the model has read it, in memory
\* and in the file that a restart would go on from.
MailSafe ==
    \A j \in Jobs : \A r \in {job[j], file[j]} :
        /\ r.delivered =< Len(r.messages)
        /\ 1 .. r.delivered \subseteq r.history \cup seen[j]

\* Whatever lists a packet, a job, its task, or a message in a mailbox, can
\* read it, after a crash or a failed save as well.
PacketsExist ==
    \A j \in Jobs : \A r \in {job[j], file[j]} :
        /\ r.published \cup r.task \subseteq packets
        /\ \A n \in 1 .. Len(r.messages) : r.messages[n].contexts \subseteq packets

\* The mailbox as the process has it, or as it will find it.
Kept == IF up THEN job[Recipient].messages ELSE file[Recipient].messages

Delivery == INSTANCE Mailbox WITH Messages <- Message, Capacity <- MailboxLimit,
                                  sent <- Kept, taken <- entered[Recipient]

\* Through continuations, failed saves, compactions and restarts a mailbox
\* loses nothing, and its worker gets every message once and in order.
ImplementsMailbox == Delivery!Spec
=============================================================================
