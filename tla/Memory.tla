-------------------------------- MODULE Memory --------------------------------
(***************************************************************************)
(* The shared memory index (internal/memory/store.go) and what the manager *)
(* puts into it (internal/worker/memory.go).                               *)
(*                                                                         *)
(* The index is a SQLite file of its own: a report is read from the job    *)
(* under the manager's mutex and written to the index later under the      *)
(* store's.  A semantic search holds the store's mutex while it sends      *)
(* texts out to be embedded; vectors are kept by the hash of their text.   *)
(*                                                                         *)
(* One workspace.  A document is one chunk, and is known by what its text  *)
(* is made from.  Ranking and keyword search change nothing and are left   *)
(* out.                                                                    *)
(***************************************************************************)
EXTENDS Integers, FiniteSets

CONSTANTS
    Jobs,           \* job IDs
    Packets,        \* context packet IDs
    Searchers,      \* clients and workers that search
    ScanLimit,      \* documents one search looks at (5000)
    Batch,          \* documents embedded by one search (16)
    MaxRuns,        \* bound: runs of a job
    MaxRestarts,    \* bound: starts of the process
    None            \* nobody

ASSUME MemoryAssumption ==
    /\ IsFiniteSet(Jobs) /\ IsFiniteSet(Packets) /\ Jobs \cap Packets = {}
    /\ None \notin Searchers
    /\ ScanLimit \in Nat \ {0} /\ Batch \in Nat \ {0}
    /\ MaxRuns \in Nat /\ MaxRestarts \in Nat

Docs == Jobs \cup Packets

VARIABLES
    up, restarts,   \* the process
    job,            \* the jobs: Status, and the runs that Result and Checkpoint are of
    file,           \* their files, and those of the packets
    runs,           \* the runs of a job so far
    pc,             \* where a run is, or the publication of a packet
    snap,           \* the text that indexJob has put together
    failed,         \* the jobs with a MemoryError, the packets whose Publish failed
    index,          \* the table chunks: the text of every document
    vectors,        \* the table vectors: the texts with one
    holder,         \* who holds s.mu across steps
    spc,            \* where a search is
    hits,           \* the texts that it looks at
    truncated,      \* there were more of them
    pending,        \* the hits without a vector
    reported        \* pending_embeddings of its answer

process == <<up, restarts>>
documents == <<job, file, runs, pc, snap, failed, index>>
searches == <<holder, spc, hits, truncated, pending, reported>>
vars == <<up, restarts, job, file, runs, pc, snap, failed, index, vectors, holder, spc,
          hits, truncated, pending, reported>>

NoText == [status |-> "none", report |-> 0, checkpoint |-> 0]
Packet == [status |-> "packet", report |-> 1, checkpoint |-> 0]

\* A job with neither report nor checkpoint is not indexed.
Text(r) == IF r.report = 0 /\ r.checkpoint = 0 THEN NoText ELSE r

Query == "query"
Indexed == {<<d, index[d]>> : d \in {e \in Docs : index[e] # NoText}}
Min2(a, b) == IF a < b THEN a ELSE b

Idle ==
    /\ pc' = [d \in Docs |-> "none"] /\ snap' = [d \in Docs |-> NoText]
    /\ holder' = None /\ spc' = [c \in Searchers |-> "idle"]
    /\ hits' = [c \in Searchers |-> {}] /\ truncated' = [c \in Searchers |-> FALSE]
    /\ pending' = [c \in Searchers |-> {}] /\ reported' = [c \in Searchers |-> 0]

Init ==
    /\ up = FALSE /\ restarts = 0
    /\ job = [d \in Docs |-> NoText] /\ file = [d \in Docs |-> NoText]
    /\ runs = [j \in Jobs |-> 0]
    /\ pc = [d \in Docs |-> "none"] /\ snap = [d \in Docs |-> NoText]
    /\ failed = {} /\ index = [d \in Docs |-> NoText] /\ vectors = {}
    /\ holder = None /\ spc = [c \in Searchers |-> "idle"]
    /\ hits = [c \in Searchers |-> {}] /\ truncated = [c \in Searchers |-> FALSE]
    /\ pending = [c \in Searchers |-> {}] /\ reported = [c \in Searchers |-> 0]

\* Close waits for runs and sessions; a crash does not.
Crash ==
    /\ up /\ up' = FALSE
    /\ Idle /\ job' = [d \in Docs |-> NoText] /\ failed' = {}
    /\ UNCHANGED <<restarts, file, runs, index, vectors>>

Loaded(d) ==
    IF file[d].status = "active" THEN [file[d] EXCEPT !.status = "interrupted"] ELSE file[d]

\* The index with the documents S as they are in the archive.
Reindexed(S) ==
    [d \in Docs |-> IF d \in S /\ Text(Loaded(d)) # NoText THEN Text(Loaded(d)) ELSE index[d]]

\* Mutant of New: only packets are indexed when the process starts.
NewUnindexed ==
    /\ ~up /\ restarts < MaxRestarts
    /\ restarts' = restarts + 1 /\ up' = TRUE
    /\ job' = [d \in Docs |-> Loaded(d)] /\ index' = Reindexed(Packets)
    /\ UNCHANGED <<file, runs, pc, snap, failed, vectors, searches>>

\* New with initMemory: every packet and job is indexed again, or it fails with
\* the index half written.
New ==
    /\ ~up /\ restarts < MaxRestarts
    /\ restarts' = restarts + 1
    /\ \/ /\ up' = TRUE
          /\ job' = [d \in Docs |-> Loaded(d)] /\ index' = Reindexed(Docs)
       \/ \E S \in SUBSET Docs : index' = Reindexed(S) /\ UNCHANGED <<up, job>>
    /\ UNCHANGED <<file, runs, pc, snap, failed, vectors, searches>>
-----------------------------------------------------------------------------
(* Runs and publications.                                                  *)

Save(d, r) == job' = [job EXCEPT ![d] = r] /\ file' = [file EXCEPT ![d] = r]
SaveOrNot(d, r) ==
    job' = [job EXCEPT ![d] = r] /\ file' \in {file, [file EXCEPT ![d] = r]}
To(d, p) == pc' = [pc EXCEPT ![d] = p]

\* A continuation erases the result and the last MemoryError.  It is refused
\* before done is closed.
Begin(j, r) ==
    /\ up /\ pc[j] = "none"
    /\ Save(j, r) /\ To(j, "running")
    /\ runs' = [runs EXCEPT ![j] = @ + 1]
    /\ failed' = failed \ {j}
    /\ UNCHANGED <<process, snap, index, vectors, searches>>

Spawn(j) == job[j] = NoText /\ file[j] = NoText /\ Begin(j, [NoText EXCEPT !.status = "active"])

Continue(j) ==
    /\ job[j].status = "completed" /\ runs[j] < MaxRuns
    /\ Begin(j, [job[j] EXCEPT !.status = "active", !.report = 0])

\* report_checkpoint, or a synthesized one.
Checkpoint(j) ==
    /\ pc[j] = "running"
    /\ SaveOrNot(j, [job[j] EXCEPT !.checkpoint = runs[j]])
    /\ UNCHANGED <<process, runs, pc, snap, failed, index, vectors, searches>>

\* Every end of a run leaves a result.
Finish(j) ==
    /\ pc[j] = "running"
    /\ \/ Save(j, [job[j] EXCEPT !.status = "completed", !.report = runs[j]])
       \/ SaveOrNot(j, [job[j] EXCEPT !.status = "stopped", !.report = runs[j]])
    /\ To(j, "read")
    /\ UNCHANGED <<process, runs, snap, failed, index, vectors, searches>>

\* indexJob, under the manager's mutex.
ReadJob(j) ==
    /\ pc[j] = "read"
    /\ snap' = [snap EXCEPT ![j] = Text(job[j])] /\ To(j, "upsert")
    /\ UNCHANGED <<process, job, file, runs, failed, index, vectors, searches>>

\* publishLocked writes the packet and lets go of the mutex.
Publish(p) ==
    /\ up /\ pc[p] = "none" /\ file[p] = NoText
    /\ Save(p, Packet) /\ snap' = [snap EXCEPT ![p] = Packet] /\ To(p, "upsert")
    /\ UNCHANGED <<process, runs, failed, index, vectors, searches>>

\* Upsert, in one transaction under the store's mutex.  A run then closes done;
\* its error is noted in the job, that of a publication is returned.
Upsert(d) ==
    /\ pc[d] = "upsert" /\ holder = None
    /\ \/ index' = [index EXCEPT ![d] = snap[d]] /\ UNCHANGED failed
       \/ failed' = failed \cup {d} /\ UNCHANGED index
    /\ To(d, "none") /\ snap' = [snap EXCEPT ![d] = NoText]
    /\ UNCHANGED <<process, job, file, runs, vectors, searches>>
-----------------------------------------------------------------------------
(* A semantic search.                                                      *)

At(c, p) == spc' = [spc EXCEPT ![c] = p]
Report(c, n) == reported' = [reported EXCEPT ![c] = n]

\* The search c looks at S, the newest documents as far as the limit goes.  Which
\* of more documents are the newest is left open.
Look(c, S) ==
    /\ Cardinality(S) = Min2(ScanLimit, Cardinality(Indexed))
    /\ hits' = [hits EXCEPT ![c] = S]
    /\ truncated' = [truncated EXCEPT ![c] = Cardinality(Indexed) > ScanLimit]
    /\ pending' = [pending EXCEPT ![c] = S \ vectors]

\* Mutant of Scan: the store's mutex is not held across the search.
ScanUnlocked(c) ==
    /\ up /\ spc[c] = "idle" /\ Indexed # {}
    /\ (\E S \in SUBSET Indexed : Look(c, S)) /\ At(c, "documents")
    /\ UNCHANGED <<process, documents, vectors, holder, reported>>

\* Nothing to rank, or a context that is done by now, ends it here.
Scan(c) ==
    /\ up /\ spc[c] = "idle" /\ holder = None /\ Indexed # {}
    /\ holder' = c
    /\ (\E S \in SUBSET Indexed : Look(c, S)) /\ At(c, "documents")
    /\ UNCHANGED <<process, documents, vectors, reported>>

\* The first documents without a vector; if any of it fails none is stored and
\* the search falls back to keywords.
EmbedDocuments(c) ==
    /\ spc[c] = "documents"
    /\ \/ /\ \E B \in SUBSET pending[c] :
                /\ Cardinality(B) = Min2(Batch, Cardinality(pending[c]))
                /\ vectors' = vectors \cup B
                /\ Report(c, Cardinality(pending[c]) - Cardinality(B))
          /\ At(c, "query")
       \/ /\ pending[c] # {}
          /\ Report(c, Cardinality(pending[c])) /\ At(c, "answer")
          /\ UNCHANGED vectors
    /\ UNCHANGED <<process, documents, holder, hits, truncated, pending>>

EmbedQuery(c) ==
    /\ spc[c] = "query" /\ At(c, "answer")
    /\ \/ vectors' = vectors \cup {<<Query, NoText>>} /\ UNCHANGED reported
       \/ /\ <<Query, NoText>> \notin vectors
          /\ Report(c, Cardinality(pending[c])) /\ UNCHANGED vectors
    /\ UNCHANGED <<process, documents, holder, hits, truncated, pending>>

\* The hits are ranked and the mutex is released.
Answer(c) ==
    /\ spc[c] = "answer" /\ At(c, "idle")
    /\ holder' = None
    /\ hits' = [hits EXCEPT ![c] = {}] /\ truncated' = [truncated EXCEPT ![c] = FALSE]
    /\ pending' = [pending EXCEPT ![c] = {}] /\ Report(c, 0)
    /\ UNCHANGED <<process, documents, vectors>>
-----------------------------------------------------------------------------
Next ==
    \/ Crash \/ New
    \/ \E j \in Jobs :
          Spawn(j) \/ Continue(j) \/ Checkpoint(j) \/ Finish(j) \/ ReadJob(j)
    \/ \E p \in Packets : Publish(p)
    \/ \E d \in Docs : Upsert(d)
    \/ \E c \in Searchers : Scan(c) \/ EmbedDocuments(c) \/ EmbedQuery(c) \/ Answer(c)

Spec == Init /\ [][Next]_vars
-----------------------------------------------------------------------------
(* Properties.                                                             *)

\* Whenever no run of a job and no publication of a packet is under way, the
\* index has the last text there is of it, in the running process and after every
\* restart, or an error was noted or returned.  (A job without any text is left
\* as the index has it: a continuation erases the report, and when it is
\* interrupted the report of the run before stays in the index.)
IndexFresh ==
    up => \A d \in Docs :
             pc[d] = "none" /\ Text(job[d]) # NoText =>
                 index[d] = Text(job[d]) \/ d \in failed

\* While searches wait for the provider and documents change, no text is sent
\* that has a vector by then, and an answer never makes out more to be embedded
\* than is: of what it looked at, and of the whole archive unless it says that it
\* did not look at everything.
SearchAccounts ==
    \A c \in Searchers :
        /\ spc[c] = "documents" => pending[c] \cap vectors = {}
        /\ spc[c] = "answer" =>
              /\ reported[c] >= Cardinality(hits[c] \ vectors)
              /\ truncated[c] \/ reported[c] >= Cardinality(Indexed \ vectors)
=============================================================================
