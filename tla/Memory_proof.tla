----------------------------- MODULE Memory_proof -----------------------------
(***************************************************************************)
(* Theorems about Memory, for any number of documents and searches: the    *)
(* index is as fresh as the archive, and a search accounts for every text  *)
(* it has left without a vector, or says that it did not see all of them.  *)
(***************************************************************************)
EXTENDS Memory, FiniteSetTheorems, TLAPS

Records ==
    [status : {"none", "active", "completed", "stopped", "interrupted", "packet"},
     report : Nat, checkpoint : Nat]

MemoryTypes ==
    /\ {job, file, snap, index} \subseteq [Docs -> Records]
    /\ runs \in [Jobs -> Nat]
    /\ pc \in [Docs -> {"none", "running", "read", "upsert"}]
    /\ holder \in Searchers \cup {None}
    /\ spc \in [Searchers -> {"idle", "documents", "query", "answer"}]
    /\ hits = [c \in Searchers |-> hits[c]] /\ truncated = [c \in Searchers |-> truncated[c]]
    /\ pending = [c \in Searchers |-> pending[c]] /\ reported \in [Searchers -> Nat]

\* Between the moment the text is read and the moment it is written the job does not
\* change; a process that is down has no runs.
FreshInv ==
    /\ IndexFresh
    /\ \A d \in Docs : pc[d] = "upsert" => snap[d] = Text(job[d])
    /\ ~up => \A d \in Docs : pc[d] = "none"

\* The documents that f has a text of.
Stored(f) == {d \in Docs : f[d] # NoText}

FiniteInv ==
    /\ IsFiniteSet(Stored(file)) /\ IsFiniteSet(Stored(index))
    /\ \A c \in Searchers : IsFiniteSet(pending[c]) /\ IsFiniteSet(hits[c])

\* The search that holds the mutex is the only one under way, and what it has to
\* account for does not change but by its own hand.
SearchInv ==
    /\ ~up => holder = None
    /\ \A c \in Searchers :
          /\ spc[c] # "idle" <=> holder = c
          /\ spc[c] # "idle" => truncated[c] \/ hits[c] = Indexed
          /\ spc[c] = "documents" => pending[c] = hits[c] \ vectors
          /\ spc[c] = "query" => hits[c] \ vectors \subseteq pending[c]
          /\ spc[c] \in {"query", "answer"} =>
                reported[c] >= Cardinality(hits[c] \ vectors)

MInv == MemoryTypes /\ FreshInv /\ FiniteInv /\ SearchInv
-----------------------------------------------------------------------------
(* Texts and sets of them.                                                 *)

\* The records that steps write are records.
LEMMA RecordTypes ==
    /\ NoText \in Records /\ Packet \in Records
    /\ NoText.status = "none" /\ NoText.report = 0
    /\ Packet # NoText /\ Text(Packet) = Packet
    /\ [NoText EXCEPT !.status = "active"] \in Records
    /\ \A r \in Records :
          /\ Text(r) \in Records
          /\ \A n \in Nat : [r EXCEPT !.checkpoint = n] \in Records
          /\ \A n \in Nat : \A s \in {"completed", "stopped"} :
                [r EXCEPT !.status = s, !.report = n] \in Records
          /\ [r EXCEPT !.status = "active", !.report = 0] \in Records
          /\ [r EXCEPT !.status = "interrupted"] \in Records
<1>1. NoText \in Records /\ Packet \in Records
      /\ [NoText EXCEPT !.status = "active"] \in Records
  BY DEF Records, NoText, Packet
<1>2. NoText.status = "none" /\ NoText.report = 0 /\ Packet.report = 1
      /\ Packet.status = "packet"
  BY DEF NoText, Packet
<1>3. Packet # NoText /\ Text(Packet) = Packet
  BY <1>2 DEF Text
<1>4. ASSUME NEW r \in Records
      PROVE  /\ Text(r) \in Records
             /\ \A n \in Nat : [r EXCEPT !.checkpoint = n] \in Records
             /\ \A n \in Nat : \A s \in {"completed", "stopped"} :
                   [r EXCEPT !.status = s, !.report = n] \in Records
             /\ [r EXCEPT !.status = "active", !.report = 0] \in Records
             /\ [r EXCEPT !.status = "interrupted"] \in Records
  <2>1. Text(r) \in Records
    BY <1>1 DEF Text
  <2>2. \A n \in Nat : [r EXCEPT !.checkpoint = n] \in Records
    BY DEF Records
  <2>3. \A n \in Nat : \A s \in {"completed", "stopped"} :
           [r EXCEPT !.status = s, !.report = n] \in Records
    BY DEF Records
  <2>4. [r EXCEPT !.status = "active", !.report = 0] \in Records
        /\ [r EXCEPT !.status = "interrupted"] \in Records
    BY DEF Records
  <2> QED
    BY <2>1, <2>2, <2>3, <2>4
<1> QED
  BY <1>1, <1>2, <1>3, <1>4

\* One more document is stored.
LEMMA StoredGrows ==
    ASSUME NEW f, NEW g, NEW d \in Docs, IsFiniteSet(Stored(f)),
           \A e \in Docs : e # d => g[e] = f[e]
    PROVE  IsFiniteSet(Stored(g))
<1>1. Stored(g) \in SUBSET (Stored(f) \cup {d})
  BY DEF Stored
<1>2. IsFiniteSet(Stored(f) \cup {d})
  BY FS_AddElement
<1> QED
  BY <1>1, <1>2, FS_Subset

\* What is indexed is a finite set if the documents are.
LEMMA IndexedFinite ==
    ASSUME IsFiniteSet(Stored(index))
    PROVE  IsFiniteSet(Indexed)
<1> DEFINE pair == [d \in Stored(index) |-> <<d, index[d]>>]
<1>1. pair \in [Stored(index) -> Indexed]
  BY DEF Stored, Indexed
<1>2. \A t \in Indexed : \E d \in Stored(index) : pair[d] = t
  BY DEF Stored, Indexed
<1>3. pair \in Surjection(Stored(index), Indexed)
  BY <1>1, <1>2, Zenon DEF Surjection
<1> QED
  BY <1>3, FS_Surjection
-----------------------------------------------------------------------------
(* The process.                                                            *)

\* A crash leaves the files and the index.
LEMMA CrashKeeps ==
    ASSUME MInv, Crash
    PROVE  MInv'
<1>1. /\ up' = FALSE /\ job' = [d \in Docs |-> NoText]
      /\ pc' = [d \in Docs |-> "none"] /\ snap' = [d \in Docs |-> NoText]
      /\ holder' = None /\ spc' = [c \in Searchers |-> "idle"]
      /\ hits' = [c \in Searchers |-> {}] /\ truncated' = [c \in Searchers |-> FALSE]
      /\ pending' = [c \in Searchers |-> {}] /\ reported' = [c \in Searchers |-> 0]
      /\ UNCHANGED <<file, runs, index, vectors>>
  BY DEF Crash, Idle
<1>2. MemoryTypes'
  BY <1>1, RecordTypes DEF MInv, MemoryTypes
<1>3. FreshInv'
  BY <1>1 DEF FreshInv, IndexFresh
<1>4. FiniteInv'
  BY <1>1, FS_EmptySet DEF MInv, FiniteInv, Stored
<1>5. SearchInv'
  <2>1. \A c \in Searchers : spc'[c] = "idle" /\ holder' # c
    BY <1>1, MemoryAssumption
  <2> QED
    BY <1>1, <2>1 DEF SearchInv
<1> QED
  BY <1>2, <1>3, <1>4, <1>5 DEF MInv

\* A start indexes what it finds; one that fails leaves a part of it.
LEMMA NewKeeps ==
    ASSUME MInv, New
    PROVE  MInv'
<1>1. ~up /\ UNCHANGED <<file, runs, pc, snap, failed, vectors, searches>>
  BY DEF New
<1>2. PICK S \in SUBSET Docs :
         /\ index' = Reindexed(S)
         /\ \/ up' = TRUE /\ job' = [d \in Docs |-> Loaded(d)] /\ S = Docs
            \/ UNCHANGED <<up, job>>
  BY DEF New
<1>3. UNCHANGED <<holder, spc, hits, truncated, pending, reported>>
  BY <1>1 DEF searches
<1>4. \A d \in Docs : /\ Loaded(d) \in Records /\ Text(Loaded(d)) \in Records
                      /\ index'[d] = IF d \in S /\ Text(Loaded(d)) # NoText
                                     THEN Text(Loaded(d)) ELSE index[d]
  BY <1>2, RecordTypes DEF Loaded, Reindexed, MInv, MemoryTypes
<1>5. MemoryTypes'
  <2>1. index' \in [Docs -> Records]
    BY <1>2, <1>4 DEF Reindexed, MInv, MemoryTypes
  <2>2. job' \in [Docs -> Records]
    BY <1>2, <1>4 DEF MInv, MemoryTypes
  <2> QED
    BY <1>1, <1>3, <2>1, <2>2 DEF MInv, MemoryTypes
<1>6. \A d \in Docs : pc[d] = "none"
  BY <1>1 DEF MInv, FreshInv
<1>7. FreshInv'
  <2>1. ASSUME up'
        PROVE  \A d \in Docs : Text(job'[d]) # NoText => index'[d] = Text(job'[d])
    BY <1>1, <1>2, <1>4, <2>1
  <2> QED
    BY <1>1, <1>6, <2>1 DEF FreshInv, IndexFresh
<1>8. FiniteInv'
  <2>1. Stored(index') \in SUBSET (Stored(index) \cup Stored(file))
    <3> SUFFICES ASSUME NEW d \in Docs, index'[d] # NoText, index[d] = NoText
                 PROVE  file[d] # NoText
      BY DEF Stored
    <3>1. Text(Loaded(d)) # NoText
      BY <1>4
    <3>2. CASE file[d] = NoText
      <4>1. Loaded(d) = NoText
        BY <3>2, RecordTypes DEF Loaded
      <4> QED
        BY <3>1, <4>1 DEF Text
    <3> QED
      BY <3>2
  <2>2. IsFiniteSet(Stored(index) \cup Stored(file))
    BY FS_Union DEF MInv, FiniteInv
  <2>3. IsFiniteSet(Stored(index'))
    BY <2>1, <2>2, FS_Subset
  <2> QED
    BY <1>1, <1>3, <2>3 DEF MInv, FiniteInv, Stored
<1>9. SearchInv'
  <2>1. holder = None /\ \A c \in Searchers : spc[c] = "idle" /\ c # None
    BY <1>1, MemoryAssumption DEF MInv, SearchInv
  <2> QED
    BY <1>3, <2>1 DEF SearchInv
<1> QED
  BY <1>5, <1>7, <1>8, <1>9 DEF MInv
-----------------------------------------------------------------------------
(* Runs and publications.                                                  *)

\* A step of a document that does not write to the index: the document is under way
\* afterwards, and what is about to be written is its text.
LEMMA DocumentKeeps ==
    ASSUME MInv, NEW d \in Docs, up, UNCHANGED <<process, index, vectors, searches>>,
           NEW r \in Records, NEW t \in Records, NEW p \in {"running", "read", "upsert"},
           job' = [job EXCEPT ![d] = r], snap' = [snap EXCEPT ![d] = t],
           pc' = [pc EXCEPT ![d] = p], p = "upsert" => t = Text(r),
           file' \in {file, [file EXCEPT ![d] = r]},
           failed' \in {failed, failed \ {d}}, runs' \in [Jobs -> Nat]
    PROVE  MInv'
<1>1. UNCHANGED <<up, index, vectors, holder, spc, hits, truncated, pending, reported>>
  BY DEF process, searches
<1>2. /\ job \in [Docs -> Records] /\ file \in [Docs -> Records]
      /\ snap \in [Docs -> Records] /\ index \in [Docs -> Records]
      /\ pc \in [Docs -> {"none", "running", "read", "upsert"}]
  BY DEF MInv, MemoryTypes
<1>3. MemoryTypes'
  <2>1. job' \in [Docs -> Records] /\ snap' \in [Docs -> Records]
        /\ file' \in [Docs -> Records]
        /\ pc' \in [Docs -> {"none", "running", "read", "upsert"}]
    BY <1>2
  <2> QED
    BY <1>1, <2>1 DEF MInv, MemoryTypes
<1>4. /\ job'[d] = r /\ snap'[d] = t /\ pc'[d] = p
      /\ \A e \in Docs : e # d => /\ job'[e] = job[e] /\ snap'[e] = snap[e]
                                  /\ pc'[e] = pc[e] /\ file'[e] = file[e]
                                  /\ e \in failed' <=> e \in failed
  BY <1>2
<1>5. FreshInv'
  <2>1. IndexFresh'
    <3> SUFFICES ASSUME NEW e \in Docs, pc'[e] = "none", Text(job'[e]) # NoText
                 PROVE  index'[e] = Text(job'[e]) \/ e \in failed'
      BY DEF IndexFresh
    <3>1. e # d
      BY <1>4
    <3> QED
      BY <1>1, <1>4, <3>1 DEF MInv, FreshInv, IndexFresh
  <2>2. \A e \in Docs : pc'[e] = "upsert" => snap'[e] = Text(job'[e])
    BY <1>4 DEF MInv, FreshInv
  <2> QED
    BY <1>1, <2>1, <2>2 DEF FreshInv
<1>6. FiniteInv'
  <2>1. IsFiniteSet(Stored(file'))
    BY <1>4, StoredGrows DEF MInv, FiniteInv
  <2> QED
    BY <1>1, <2>1 DEF MInv, FiniteInv, Stored
<1>7. SearchInv'
  BY <1>1 DEF MInv, SearchInv, Indexed
<1> QED
  BY <1>3, <1>5, <1>6, <1>7 DEF MInv

\* Spawn and a continuation.
LEMMA BeginKeeps ==
    ASSUME MInv, NEW j \in Jobs, NEW r \in Records, Begin(j, r)
    PROVE  MInv'
<1>1. /\ j \in Docs /\ up /\ UNCHANGED <<process, snap, index, vectors, searches>>
      /\ job' = [job EXCEPT ![j] = r] /\ file' = [file EXCEPT ![j] = r]
      /\ pc' = [pc EXCEPT ![j] = "running"] /\ failed' = failed \ {j}
      /\ runs' = [runs EXCEPT ![j] = @ + 1]
  BY DEF Begin, Save, To, Docs
<1>2. runs' \in [Jobs -> Nat] /\ snap \in [Docs -> Records]
  BY <1>1 DEF MInv, MemoryTypes
<1>3. snap' = [snap EXCEPT ![j] = snap[j]] /\ snap[j] \in Records
  BY <1>1, <1>2
<1> QED
  BY <1>1, <1>2, <1>3, DocumentKeeps

\* A step that leaves a run or a publication under way.
LEMMA RunKeeps ==
    ASSUME MInv
    PROVE  /\ \A j \in Jobs :
                 Spawn(j) \/ Continue(j) \/ Checkpoint(j) \/ Finish(j) \/ ReadJob(j) => MInv'
           /\ \A p \in Packets : Publish(p) => MInv'
<1>0. /\ job \in [Docs -> Records] /\ snap \in [Docs -> Records] /\ runs \in [Jobs -> Nat]
      /\ pc \in [Docs -> {"none", "running", "read", "upsert"}] /\ Jobs \subseteq Docs
      /\ file \in [Docs -> Records]
  BY DEF MInv, MemoryTypes, Docs
<1>1. ASSUME NEW j \in Jobs, Spawn(j)
      PROVE  MInv'
  BY <1>1, RecordTypes, BeginKeeps DEF Spawn
<1>2. ASSUME NEW j \in Jobs, Continue(j)
      PROVE  MInv'
  <2>1. [job[j] EXCEPT !.status = "active", !.report = 0] \in Records
    BY <1>0, RecordTypes
  <2> QED
    BY <1>2, <2>1, BeginKeeps DEF Continue
<1>3. ASSUME NEW j \in Jobs, Checkpoint(j)
      PROVE  MInv'
  <2> DEFINE r == [job[j] EXCEPT !.checkpoint = runs[j]]
  <2>1. r \in Records /\ snap[j] \in Records /\ j \in Docs
    BY <1>0, RecordTypes
  <2>2. /\ pc[j] = "running" /\ job' = [job EXCEPT ![j] = r]
        /\ file' \in {file, [file EXCEPT ![j] = r]}
        /\ UNCHANGED <<process, runs, pc, snap, failed, index, vectors, searches>>
    BY <1>3 DEF Checkpoint, SaveOrNot
  <2>3. /\ pc' = [pc EXCEPT ![j] = "running"] /\ snap' = [snap EXCEPT ![j] = snap[j]]
    BY <1>0, <2>1, <2>2
  <2>4. up
    BY <2>1, <2>2 DEF MInv, FreshInv
  <2> HIDE DEF r
  <2> QED
    BY <1>0, <2>1, <2>2, <2>3, <2>4, DocumentKeeps
<1>4. ASSUME NEW j \in Jobs, Finish(j)
      PROVE  MInv'
  <2>1. PICK s \in {"completed", "stopped"} :
           /\ job' = [job EXCEPT ![j] = [job[j] EXCEPT !.status = s, !.report = runs[j]]]
           /\ file' \in {file, [file EXCEPT ![j] = [job[j] EXCEPT !.status = s,
                                                                   !.report = runs[j]]]}
    BY <1>4 DEF Finish, Save, SaveOrNot
  <2> DEFINE r == [job[j] EXCEPT !.status = s, !.report = runs[j]]
  <2>2. r \in Records /\ snap[j] \in Records /\ j \in Docs
    BY <1>0, RecordTypes
  <2>3. /\ pc[j] = "running" /\ pc' = [pc EXCEPT ![j] = "read"]
        /\ UNCHANGED <<process, runs, snap, failed, index, vectors, searches>>
    BY <1>4 DEF Finish, To
  <2>4. snap' = [snap EXCEPT ![j] = snap[j]]
    BY <1>0, <2>2, <2>3
  <2>5. up
    BY <2>2, <2>3 DEF MInv, FreshInv
  <2>6. job' = [job EXCEPT ![j] = r] /\ file' \in {file, [file EXCEPT ![j] = r]}
    BY <2>1
  <2> HIDE DEF r
  <2> QED
    BY <1>0, <2>2, <2>3, <2>4, <2>5, <2>6, DocumentKeeps
<1>5. ASSUME NEW j \in Jobs, ReadJob(j)
      PROVE  MInv'
  <2>1. /\ pc[j] = "read" /\ pc' = [pc EXCEPT ![j] = "upsert"]
        /\ snap' = [snap EXCEPT ![j] = Text(job[j])]
        /\ UNCHANGED <<process, job, file, runs, failed, index, vectors, searches>>
    BY <1>5 DEF ReadJob, To
  <2>2. job[j] \in Records /\ Text(job[j]) \in Records /\ j \in Docs
    BY <1>0, RecordTypes
  <2>3. job' = [job EXCEPT ![j] = job[j]]
    BY <1>0, <2>1, <2>2
  <2>4. up
    BY <2>1, <2>2 DEF MInv, FreshInv
  <2> QED
    BY <1>0, <2>1, <2>2, <2>3, <2>4, DocumentKeeps
<1>6. ASSUME NEW p \in Packets, Publish(p)
      PROVE  MInv'
  <2>1. /\ up /\ pc' = [pc EXCEPT ![p] = "upsert"] /\ job' = [job EXCEPT ![p] = Packet]
        /\ file' = [file EXCEPT ![p] = Packet] /\ snap' = [snap EXCEPT ![p] = Packet]
        /\ UNCHANGED <<process, runs, failed, index, vectors, searches>>
    BY <1>6 DEF Publish, To, Save
  <2>2. p \in Docs
    BY DEF Docs
  <2> QED
    BY <1>0, <2>1, <2>2, RecordTypes, DocumentKeeps
<1> QED
  BY <1>1, <1>2, <1>3, <1>4, <1>5, <1>6

\* The text is written while no search is under way, or the failure is noted.
LEMMA UpsertKeeps ==
    ASSUME MInv, NEW d \in Docs, Upsert(d)
    PROVE  MInv'
<1>1. /\ pc[d] = "upsert" /\ holder = None
      /\ \/ index' = [index EXCEPT ![d] = snap[d]] /\ UNCHANGED failed
         \/ failed' = failed \cup {d} /\ UNCHANGED index
      /\ pc' = [pc EXCEPT ![d] = "none"] /\ snap' = [snap EXCEPT ![d] = NoText]
      /\ UNCHANGED <<up, job, file, runs, vectors, holder, spc, hits, truncated, pending,
                     reported>>
  BY DEF Upsert, To, process, searches
<1>2. /\ job \in [Docs -> Records] /\ snap \in [Docs -> Records] /\ index \in [Docs -> Records]
      /\ pc \in [Docs -> {"none", "running", "read", "upsert"}]
  BY DEF MInv, MemoryTypes
<1>3. MemoryTypes'
  <2>1. /\ snap' \in [Docs -> Records] /\ index' \in [Docs -> Records]
        /\ pc' \in [Docs -> {"none", "running", "read", "upsert"}]
    BY <1>1, <1>2, RecordTypes
  <2> QED
    BY <1>1, <2>1 DEF MInv, MemoryTypes
<1>4. /\ \A e \in Docs : e # d => /\ index'[e] = index[e] /\ snap'[e] = snap[e]
                                  /\ pc'[e] = pc[e]
                                  /\ e \in failed' <=> e \in failed
      /\ pc'[d] = "none" /\ snap[d] = Text(job[d])
      /\ index'[d] = snap[d] \/ d \in failed'
  BY <1>1, <1>2 DEF MInv, FreshInv
<1>5. FreshInv'
  <2>1. IndexFresh'
    <3> SUFFICES ASSUME up, NEW e \in Docs, pc'[e] = "none", Text(job[e]) # NoText
                 PROVE  index'[e] = Text(job[e]) \/ e \in failed'
      BY <1>1 DEF IndexFresh
    <3>1. CASE e = d
      BY <1>4, <3>1
    <3>2. CASE e # d
      BY <1>4, <3>2 DEF MInv, FreshInv, IndexFresh
    <3> QED
      BY <3>1, <3>2
  <2>2. \A e \in Docs : pc'[e] = "upsert" => snap'[e] = Text(job'[e])
    BY <1>1, <1>4 DEF MInv, FreshInv
  <2>3. up
    BY <1>1 DEF MInv, FreshInv
  <2> QED
    BY <1>1, <2>1, <2>2, <2>3 DEF FreshInv
<1>6. FiniteInv'
  <2>1. IsFiniteSet(Stored(index'))
    BY <1>4, StoredGrows DEF MInv, FiniteInv
  <2> QED
    BY <1>1, <2>1 DEF MInv, FiniteInv, Stored
<1>7. SearchInv'
  <2>1. \A c \in Searchers : spc[c] = "idle" /\ c # None
    BY <1>1, MemoryAssumption DEF MInv, SearchInv
  <2> QED
    BY <1>1, <2>1 DEF SearchInv
<1> QED
  BY <1>3, <1>5, <1>6, <1>7 DEF MInv
-----------------------------------------------------------------------------
(* A semantic search.                                                      *)

\* A search touches no document; what is finite of it stays so.
LEMMA SearchFrame ==
    ASSUME MInv, UNCHANGED <<process, documents>>, MemoryTypes',
           \A c \in Searchers : IsFiniteSet(pending'[c]) /\ IsFiniteSet(hits'[c])
    PROVE  FreshInv' /\ FiniteInv'
<1>1. UNCHANGED <<up, job, file, pc, snap, failed, index>>
  BY DEF process, documents
<1> QED
  BY <1>1 DEF MInv, FreshInv, IndexFresh, FiniteInv, Stored

\* While one search is under way there is no other.
LEMMA OneSearch ==
    ASSUME MInv, NEW c \in Searchers, holder = c \/ holder = None
    PROVE  \A b \in Searchers : b # c => spc[b] = "idle"
BY MemoryAssumption DEF MInv, SearchInv

\* A step of one search, whose own part of the invariant holds after it.
LEMMA SearchStep ==
    ASSUME MInv, NEW c \in Searchers, UNCHANGED <<process, documents>>,
           NEW p \in {"idle", "documents", "query", "answer"},
           NEW H, IsFiniteSet(H), NEW t, NEW W, IsFiniteSet(W), NEW n \in Nat,
           holder = c \/ holder = None,
           holder' = IF p = "idle" THEN None ELSE c,
           spc' = [spc EXCEPT ![c] = p],
           hits' = [hits EXCEPT ![c] = H], truncated' = [truncated EXCEPT ![c] = t],
           pending' = [pending EXCEPT ![c] = W],
           reported' = [reported EXCEPT ![c] = n],
           p # "idle" => up /\ (t \/ H = Indexed),
           p = "documents" => W = H \ vectors',
           p = "query" => H \ vectors' \subseteq W,
           p \in {"query", "answer"} => n >= Cardinality(H \ vectors')
    PROVE  MInv'
<1>1. UNCHANGED <<up, job, file, runs, pc, snap, failed, index>> /\ Indexed' = Indexed
  BY DEF process, documents, Indexed
<1>2. /\ spc \in [Searchers -> {"idle", "documents", "query", "answer"}]
      /\ hits = [b \in Searchers |-> hits[b]] /\ truncated = [b \in Searchers |-> truncated[b]]
      /\ pending = [b \in Searchers |-> pending[b]] /\ reported \in [Searchers -> Nat]
  BY DEF MInv, MemoryTypes
<1>3. /\ spc'[c] = p /\ reported'[c] = n
      /\ \A b \in Searchers : b # c => /\ spc'[b] = spc[b] /\ spc[b] = "idle"
                                       /\ reported'[b] = reported[b]
  BY <1>2, OneSearch
<1>4. /\ pending'[c] = W /\ pending' = [b \in Searchers |-> pending'[b]]
      /\ \A b \in Searchers : b # c => pending'[b] = pending[b]
      /\ hits'[c] = H /\ hits' = [b \in Searchers |-> hits'[b]]
      /\ \A b \in Searchers : b # c => hits'[b] = hits[b]
      /\ truncated'[c] = t /\ truncated' = [b \in Searchers |-> truncated'[b]]
  BY <1>2
<1>5. MemoryTypes'
  <2>1. /\ spc' \in [Searchers -> {"idle", "documents", "query", "answer"}]
        /\ reported' \in [Searchers -> Nat] /\ holder' \in Searchers \cup {None}
    BY <1>2
  <2> QED
    BY <1>1, <1>4, <2>1 DEF MInv, MemoryTypes
<1>6. FreshInv' /\ FiniteInv'
  <2>1. \A b \in Searchers : IsFiniteSet(pending'[b]) /\ IsFiniteSet(hits'[b])
    BY <1>4 DEF MInv, FiniteInv
  <2> QED
    BY <1>5, <2>1, SearchFrame
<1>7. SearchInv'
  <2>1. ~up' => holder' = None
    BY <1>1
  <2>2. \A b \in Searchers :
          /\ spc'[b] # "idle" <=> holder' = b
          /\ spc'[b] # "idle" => truncated'[b] \/ hits'[b] = Indexed
          /\ spc'[b] = "documents" => pending'[b] = hits'[b] \ vectors'
          /\ spc'[b] = "query" => hits'[b] \ vectors' \subseteq pending'[b]
          /\ spc'[b] \in {"query", "answer"} => reported'[b] >= Cardinality(hits'[b] \ vectors')
    <3> SUFFICES ASSUME NEW b \in Searchers
                 PROVE  /\ spc'[b] # "idle" <=> holder' = b
                        /\ spc'[b] # "idle" => truncated'[b] \/ hits'[b] = Indexed
                        /\ spc'[b] = "documents" => pending'[b] = hits'[b] \ vectors'
                        /\ spc'[b] = "query" => hits'[b] \ vectors' \subseteq pending'[b]
                        /\ spc'[b] \in {"query", "answer"} =>
                              reported'[b] >= Cardinality(hits'[b] \ vectors')
      OBVIOUS
    <3>1. CASE b = c
      BY <1>3, <1>4, <3>1, MemoryAssumption
    <3>2. CASE b # c
      BY <1>3, <3>2, MemoryAssumption
    <3> QED
      BY <3>1, <3>2
  <2> QED
    BY <1>1, <2>1, <2>2 DEF SearchInv
<1> QED
  BY <1>5, <1>6, <1>7 DEF MInv

\* A search that goes on keeps its hits, and what it has found to be pending.
LEMMA SearchMoves ==
    ASSUME MInv, NEW c \in Searchers, spc[c] # "idle",
           UNCHANGED <<process, documents, holder, hits, truncated, pending>>,
           NEW p \in {"query", "answer"}, NEW n \in Nat,
           spc' = [spc EXCEPT ![c] = p], reported' = [reported EXCEPT ![c] = n],
           p = "query" => hits[c] \ vectors' \subseteq pending[c],
           n >= Cardinality(hits[c] \ vectors')
    PROVE  MInv'
<1> DEFINE H == hits[c]
           t == truncated[c]
           W == pending[c]
<1>1. /\ hits' = [hits EXCEPT ![c] = H] /\ truncated' = [truncated EXCEPT ![c] = t]
      /\ pending' = [pending EXCEPT ![c] = W]
  <2>1. /\ hits = [b \in Searchers |-> hits[b]] /\ truncated = [b \in Searchers |-> truncated[b]]
        /\ pending = [b \in Searchers |-> pending[b]]
    BY DEF MInv, MemoryTypes
  <2> QED
    BY <2>1, Zenon
<1>2. IsFiniteSet(H) /\ IsFiniteSet(W)
  BY DEF MInv, FiniteInv
<1>3. /\ holder = c /\ up /\ (t \/ H = Indexed)
  BY MemoryAssumption DEF MInv, SearchInv
<1>4. p # "idle" /\ p # "documents" /\ p \in {"idle", "documents", "query", "answer"}
  OBVIOUS
<1>5. UNCHANGED <<process, documents>> /\ holder' = IF p = "idle" THEN None ELSE c
  BY <1>3, <1>4
<1>6. (p = "query" => H \ vectors' \subseteq W) /\ n >= Cardinality(H \ vectors')
  OBVIOUS
<1> HIDE DEF H, t, W
<1> QED
  BY <1>1, <1>2, <1>3, <1>4, <1>5, <1>6, SearchStep

\* A search accounts for every text among its hits that it does not embed.
LEMMA SearchKeeps ==
    ASSUME MInv, NEW c \in Searchers,
           Scan(c) \/ EmbedDocuments(c) \/ EmbedQuery(c) \/ Answer(c)
    PROVE  MInv'
<1> DEFINE H == hits[c]
           U == H \ vectors
<1>0. IsFiniteSet(H) /\ IsFiniteSet(U) /\ Cardinality(U) \in Nat
  <2>1. IsFiniteSet(H)
    BY DEF MInv, FiniteInv
  <2> QED
    BY <2>1, FS_Difference, FS_CardinalityType
<1>1. /\ IsFiniteSet(pending[c]) /\ Cardinality(pending[c]) \in Nat
      /\ reported = [reported EXCEPT ![c] = reported[c]] /\ reported[c] \in Nat
  <2>1. reported \in [Searchers -> Nat] /\ IsFiniteSet(pending[c])
    BY DEF MInv, MemoryTypes, FiniteInv
  <2>2. Cardinality(pending[c]) \in Nat
    BY <2>1, FS_CardinalityType
  <2>3. reported = [reported EXCEPT ![c] = reported[c]] /\ reported[c] \in Nat
    BY <2>1, Zenon
  <2> QED
    BY <2>1, <2>2, <2>3
<1>2. CASE Scan(c)
  <2>1. /\ up /\ holder = None /\ holder' = c /\ spc' = [spc EXCEPT ![c] = "documents"]
        /\ UNCHANGED <<process, documents, vectors, reported>>
    BY <1>2 DEF Scan, At
  <2>2. PICK S \in SUBSET Indexed : Look(c, S)
    BY <1>2 DEF Scan
  <2> DEFINE t == Cardinality(Indexed) > ScanLimit
  <2>3. /\ hits' = [hits EXCEPT ![c] = S] /\ truncated' = [truncated EXCEPT ![c] = t]
        /\ pending' = [pending EXCEPT ![c] = S \ vectors]
    BY <2>2 DEF Look
  <2>4. IsFiniteSet(Indexed) /\ Cardinality(Indexed) \in Nat
    BY IndexedFinite, FS_CardinalityType DEF MInv, FiniteInv
  <2>5. IsFiniteSet(S) /\ IsFiniteSet(S \ vectors)
    BY <2>4, FS_Subset, FS_Difference
  <2>6. t \/ S = Indexed
    <3> SUFFICES ASSUME ~t
                 PROVE  S = Indexed
      OBVIOUS
    <3>1. Cardinality(S) = Cardinality(Indexed)
      BY <2>2, <2>4, MemoryAssumption DEF Look, Min2
    <3> QED
      BY <2>4, <3>1, FS_Subset
  <2>7. reported' = [reported EXCEPT ![c] = reported[c]] /\ S \ vectors = S \ vectors'
    BY <1>1, <2>1
  <2> HIDE DEF t
  <2> QED
    BY <1>1, <2>1, <2>3, <2>5, <2>6, <2>7, SearchStep
<1>3. CASE EmbedDocuments(c)
  <2>1. spc[c] = "documents" /\ UNCHANGED <<process, documents, holder, hits, truncated, pending>>
    BY <1>3 DEF EmbedDocuments
  <2>2. pending[c] = U
    BY <2>1 DEF MInv, SearchInv
  <2>3. CASE \E B \in SUBSET pending[c] :
                /\ vectors' = vectors \cup B
                /\ Report(c, Cardinality(pending[c]) - Cardinality(B)) /\ At(c, "query")
    <3>1. PICK B \in SUBSET pending[c] :
             /\ vectors' = vectors \cup B
             /\ Report(c, Cardinality(pending[c]) - Cardinality(B)) /\ At(c, "query")
      BY <2>3
    <3> DEFINE n == Cardinality(pending[c]) - Cardinality(B)
    <3>2. H \ vectors' = pending[c] \ B /\ pending[c] \cap B = B
      BY <2>2, <3>1
    <3>3. Cardinality(pending[c] \ B) = n
      BY <1>1, <3>2, FS_Difference
    <3>4. n \in Nat
      <4>1. IsFiniteSet(pending[c] \ B)
        BY <1>1, FS_Difference
      <4> QED
        BY <3>3, <4>1, FS_CardinalityType
    <3>5. /\ spc' = [spc EXCEPT ![c] = "query"] /\ reported' = [reported EXCEPT ![c] = n]
      BY <3>1 DEF Report, At
    <3>6. H \ vectors' \subseteq pending[c] /\ n >= Cardinality(H \ vectors')
      <4> HIDE DEF n
      <4> QED
        BY <3>2, <3>3, <3>4
    <3> HIDE DEF n
    <3> QED
      BY <2>1, <3>4, <3>5, <3>6, SearchMoves
  <2>4. CASE Report(c, Cardinality(pending[c])) /\ At(c, "answer") /\ UNCHANGED vectors
    <3>1. /\ spc' = [spc EXCEPT ![c] = "answer"]
          /\ reported' = [reported EXCEPT ![c] = Cardinality(pending[c])]
      BY <2>4 DEF Report, At
    <3>2. Cardinality(pending[c]) >= Cardinality(H \ vectors')
      BY <1>1, <2>2, <2>4
    <3> QED
      BY <1>1, <2>1, <3>1, <3>2, SearchMoves
  <2> QED
    BY <1>3, <2>3, <2>4 DEF EmbedDocuments
<1>4. CASE EmbedQuery(c)
  <2>1. /\ spc[c] = "query" /\ spc' = [spc EXCEPT ![c] = "answer"]
        /\ UNCHANGED <<process, documents, holder, hits, truncated, pending>>
    BY <1>4 DEF EmbedQuery, At
  <2>2. U \subseteq pending[c] /\ reported[c] >= Cardinality(U)
    BY <2>1 DEF MInv, SearchInv
  <2>3. CASE vectors' = vectors \cup {<<Query, NoText>>} /\ UNCHANGED reported
    <3>1. H \ vectors' \in SUBSET U
      BY <2>3
    <3>2. /\ Cardinality(H \ vectors') =< Cardinality(U)
          /\ Cardinality(H \ vectors') \in Nat
      BY <1>0, <3>1, FS_Subset, FS_CardinalityType
    <3>3. reported[c] >= Cardinality(H \ vectors')
      <4> HIDE DEF U, H
      <4> QED
        BY <1>0, <1>1, <2>2, <3>2
    <3>4. reported' = [reported EXCEPT ![c] = reported[c]]
      BY <1>1, <2>3
    <3> QED
      BY <1>1, <2>1, <3>3, <3>4, SearchMoves
  <2>4. CASE Report(c, Cardinality(pending[c])) /\ UNCHANGED vectors
    <3>1. reported' = [reported EXCEPT ![c] = Cardinality(pending[c])]
      BY <2>4 DEF Report
    <3>2. U \in SUBSET pending[c]
      BY <2>2
    <3>3. Cardinality(U) =< Cardinality(pending[c])
      <4> HIDE DEF U, H
      <4> QED
        BY <1>1, <3>2, FS_Subset
    <3>4. Cardinality(pending[c]) >= Cardinality(H \ vectors')
      BY <1>0, <1>1, <2>4, <3>3
    <3> QED
      BY <1>1, <2>1, <3>1, <3>4, SearchMoves
  <2> QED
    BY <1>4, <2>3, <2>4 DEF EmbedQuery
<1>5. CASE Answer(c)
  <2>1. /\ spc[c] = "answer" /\ spc' = [spc EXCEPT ![c] = "idle"] /\ holder' = None
        /\ hits' = [hits EXCEPT ![c] = {}] /\ truncated' = [truncated EXCEPT ![c] = FALSE]
        /\ pending' = [pending EXCEPT ![c] = {}] /\ reported' = [reported EXCEPT ![c] = 0]
        /\ UNCHANGED <<process, documents, vectors>>
    BY <1>5 DEF Answer, At, Report
  <2>2. holder = c
    BY <2>1 DEF MInv, SearchInv
  <2>3. IsFiniteSet({}) /\ 0 \in Nat
    BY FS_EmptySet
  <2> QED
    BY <2>1, <2>2, <2>3, SearchStep
<1> QED
  BY <1>2, <1>3, <1>4, <1>5
-----------------------------------------------------------------------------
(* Theorems.                                                               *)

\* The invariant holds at the start, and always.
LEMMA MInvCorrect ==
    Spec => []MInv
<1>1. Init => MInv
  <2> SUFFICES ASSUME Init
               PROVE  MInv
    OBVIOUS
  <2>1. MemoryTypes
    BY RecordTypes DEF Init, MemoryTypes
  <2>2. FreshInv
    BY DEF Init, FreshInv, IndexFresh
  <2>3. FiniteInv
    <3>1. /\ Stored(file) = {} /\ Stored(index) = {}
          /\ \A c \in Searchers : pending[c] = {} /\ hits[c] = {}
      BY DEF Init, Stored
    <3> QED
      BY <3>1, FS_EmptySet DEF FiniteInv
  <2>4. SearchInv
    BY MemoryAssumption DEF Init, SearchInv
  <2> QED
    BY <2>1, <2>2, <2>3, <2>4 DEF MInv
<1>2. MInv /\ [Next]_vars => MInv'
  <2> SUFFICES ASSUME MInv, [Next]_vars
               PROVE  MInv'
    OBVIOUS
  <2>1. CASE UNCHANGED vars
    <3>1. UNCHANGED <<up, job, file, runs, pc, snap, failed, index, vectors, holder, spc,
                      hits, truncated, pending, reported>>
      BY <2>1 DEF vars
    <3>2. MemoryTypes' /\ FreshInv' /\ FiniteInv'
      BY <3>1 DEF MInv, MemoryTypes, FreshInv, IndexFresh, FiniteInv, Stored
    <3>3. SearchInv'
      BY <3>1 DEF MInv, SearchInv, Indexed
    <3> QED
      BY <3>2, <3>3 DEF MInv
  <2>2. CASE Next
    BY <2>2, CrashKeeps, NewKeeps, RunKeeps, UpsertKeeps, SearchKeeps DEF Next
  <2> QED
    BY <2>1, <2>2
<1> QED
  BY <1>1, <1>2, PTL DEF Spec

\* The text of a report is read under one mutex and written under another; still,
\* when its run is over the index has it, or the job says why not, and a start
\* makes good what the process before it left undone.
THEOREM IndexFreshCorrect ==
    Spec => []IndexFresh
<1>1. MInv => IndexFresh
  BY DEF MInv, FreshInv
<1> QED
  BY <1>1, MInvCorrect, PTL

\* The mutex that a search holds while it waits for the provider keeps the count of
\* what it leaves out true, for archives of any size: within its hits always, and of
\* all documents when the answer is not marked as truncated.
THEOREM SearchAccountsCorrect ==
    Spec => []SearchAccounts
<1>1. MInv => SearchAccounts
  BY DEF MInv, SearchInv, SearchAccounts
<1> QED
  BY <1>1, MInvCorrect, PTL
=============================================================================
