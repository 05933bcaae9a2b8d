------------------------- MODULE Coordination_proof -------------------------
(***************************************************************************)
(* Theorems about Coordination, for every set of jobs and packets and every *)
(* limit: no mail is lost or read twice, no packet is listed that does not *)
(* exist, whatever is lost in between.                                     *)
(***************************************************************************)
EXTENDS Coordination, FiniteSetTheorems, SequenceTheorems, TLAPS

\* What a record promises, given the messages S that the model has read and the
\* packets P on disk; it is the same for records in memory and in files.
Sound(r, S, P) ==
    /\ r \in Record
    /\ r.status = "none" => r = NoJob
    /\ Len(r.messages) =< MailboxLimit
    /\ r.delivered =< Len(r.messages)
    /\ 1 .. r.delivered \subseteq r.history \cup S
    /\ r.published \cup r.task \subseteq P
    /\ \A n \in 1 .. Len(r.messages) : r.messages[n].contexts \subseteq P
    /\ IsFiniteSet(r.published) /\ Cardinality(r.published) =< ContextLimit
    /\ Cardinality(r.task) =< ContextLimit

\* The variables beside the records.
PlainTypes ==
    /\ up \in BOOLEAN /\ restarts \in 0 .. MaxRestarts
    /\ job \in [Jobs -> Record] /\ file \in [Jobs -> Record]
    /\ pc \in [Jobs -> {"none", "top", "request", "summary", "tools"}]
    /\ runs \in [Jobs -> 0 .. MaxRuns]
    /\ packets \subseteq Packets
    /\ DOMAIN seen = Jobs /\ entered \in [Jobs -> Seq(Message)]

RecordsSound ==
    \A j \in Jobs :
        /\ Sound(job[j], seen[j], packets)
        /\ Sound(file[j], seen[j], packets)

\* The worker has got what lies behind the cursor of r, and nothing else.
IsRead(r, e) == e = SubSeq(r.messages, 1, r.delivered)

\* Memory and file agree on the mailbox.  The records that a run goes on from
\* have the cursor where the worker is: the one in memory unless the job was
\* stopped, and the file of a completed job, which may be continued after a
\* restart.  (The cursor in the file of an active job may lag behind: such a
\* job is stopped by a restart.)
MailInOrder(j) ==
    /\ up => job[j].messages = file[j].messages
    /\ pc[j] # "none" => up /\ job[j].status = "active" /\ file[j].status = "active"
    /\ job[j].status \in {"active", "completed"} => IsRead(job[j], entered[j])
    /\ file[j].status = "completed" => IsRead(file[j], entered[j])
    /\ file[j].status = "none" => entered[j] = <<>> /\ job[j].status = "none"

\* The inductive invariant.
CInv == PlainTypes /\ RecordsSound /\ \A j \in Jobs : MailInOrder(j)
-----------------------------------------------------------------------------
(* Records.                                                                *)

\* The empty record is sound.
LEMMA NoJobSound == ASSUME NEW S, NEW P PROVE Sound(NoJob, S, P)
<1>1. 0 \in 0 .. MailboxLimit /\ 0 =< MailboxLimit /\ 0 =< ContextLimit
  BY CoordinationAssumption
<1>2. IsFiniteSet({}) /\ Cardinality({}) = 0
  BY FS_EmptySet
<1>3. <<>> \in Seq(Message) /\ Len(<<>>) = 0
  OBVIOUS
<1>4. NoJob \in Record
  BY <1>1, <1>3 DEF NoJob, Record
<1>5. 1 .. 0 = {}
  OBVIOUS
<1> QED
  BY <1>1, <1>2, <1>3, <1>4, <1>5 DEF NoJob, Sound

\* What is read and what is on disk only grow.
LEMMA SoundGrows ==
    ASSUME NEW r, NEW S, NEW P, NEW S2, NEW P2, Sound(r, S, P),
           S \subseteq S2, P \subseteq P2
    PROVE  Sound(r, S2, P2)
BY DEF Sound

\* A status may be set on any record there is.
LEMMA SoundStatus ==
    ASSUME NEW r, NEW S, NEW P, Sound(r, S, P), NEW s \in {"active"} \cup Stopped
    PROVE  Sound([r EXCEPT !.status = s], S, P)
<1>1. s # "none" /\ s \in {"none", "active"} \cup Stopped
  BY DEF Stopped
<1>2. [r EXCEPT !.status = s] \in Record
  BY <1>1 DEF Sound, Record
<1> QED
  BY <1>1, <1>2 DEF Sound, Record

\* A page of a sequence, which continues what lies before it.
LEMMA Page ==
    ASSUME NEW T, NEW s \in Seq(T), NEW a \in 0 .. Len(s), NEW b \in a .. Len(s)
    PROVE  /\ SubSeq(s, a + 1, b) \in Seq(T) /\ Len(SubSeq(s, a + 1, b)) = b - a
           /\ SubSeq(s, 1, a) \o SubSeq(s, a + 1, b) = SubSeq(s, 1, b)
<1>1. Len(s) \in Nat /\ a \in Nat /\ b \in Nat /\ a =< b /\ b =< Len(s)
  BY LenProperties
<1>2. \A i \in a + 1 .. b : s[i] \in T
  BY <1>1, ElementOfSeq
<1>3. Len(SubSeq(s, a + 1, b)) = (IF a + 1 =< b THEN b - (a + 1) + 1 ELSE 0)
      /\ SubSeq(s, a + 1, b) \in Seq(T)
  BY <1>1, <1>2, SubSeqProperties
<1>4. SubSeq(s, 1, a) \o SubSeq(s, a + 1, b) = SubSeq(s, 1, b)
  <2>1. 1 \in 1 .. Len(s) + 1 /\ a \in 1 - 1 .. Len(s) /\ b \in a .. Len(s)
    BY <1>1
  <2> QED
    BY <2>1, ConcatAdjacentSubSeq
<1> QED
  BY <1>1, <1>3, <1>4

\* A message more does not change what lies behind the cursor.
LEMMA AppendKeeps ==
    ASSUME NEW T, NEW s \in Seq(T), NEW e \in T, NEW a \in 0 .. Len(s)
    PROVE  SubSeq(Append(s, e), 1, a) = SubSeq(s, 1, a)
<1>1. Len(s) \in Nat /\ a \in Nat /\ a =< Len(s)
  BY LenProperties
<1>2. /\ Append(s, e) \in Seq(T) /\ Len(Append(s, e)) = Len(s) + 1
      /\ \A i \in 1 .. Len(s) : Append(s, e)[i] = s[i]
  BY AppendProperties
<1> QED
  BY <1>1, <1>2

\* The page of a mailbox behind its cursor, and the cursor behind the page.
LEMMA InboxPage ==
    ASSUME NEW r \in Record, NEW j \in Jobs, r = job[j], r.delivered =< Len(r.messages)
    PROVE  LET mail == inbox(j, r.delivered)
           IN  /\ mail.next \in r.delivered .. Len(r.messages)
               /\ mail.next =< r.delivered + Batch
               /\ mail.messages = SubSeq(r.messages, r.delivered + 1, mail.next)
               /\ mail.messages \in Seq(Message)
               /\ r.delivered + Len(mail.messages) = mail.next
<1> DEFINE mail == inbox(j, r.delivered)
<1>1. /\ r.delivered \in Nat /\ Len(r.messages) \in Nat /\ Batch \in Nat
      /\ r.messages \in Seq(Message)
  BY CoordinationAssumption DEF Record
<1>2. Min2(r.delivered, Len(r.messages)) = r.delivered
  BY <1>1 DEF Min2
<1>3. /\ mail.next = Min2(r.delivered + Batch, Len(r.messages))
      /\ mail.messages = SubSeq(r.messages, r.delivered + 1, mail.next)
  BY <1>2 DEF inbox
<1>4. mail.next \in r.delivered .. Len(r.messages) /\ mail.next =< r.delivered + Batch
  BY <1>1, <1>3 DEF Min2
<1> HIDE DEF mail
<1>5. mail.messages \in Seq(Message) /\ Len(mail.messages) = mail.next - r.delivered
  <2>1. r.delivered \in 0 .. Len(r.messages)
    BY <1>1
  <2> QED
    BY <2>1, <1>1, <1>3, <1>4, Page
<1>6. r.delivered + Len(mail.messages) = mail.next
  BY <1>1, <1>4, <1>5
<1> QED
  BY <1>3, <1>4, <1>5, <1>6 DEF mail
-----------------------------------------------------------------------------
(* Steps.  Every one touches a single job, in memory, on disk, or both.    *)

Places == {"none", "top", "request", "summary", "tools"}

\* The invariant survives what happens to one job, if its new records are sound
\* and in order.
LEMMA OneJob ==
    ASSUME CInv, up, NEW j \in Jobs, NEW r, NEW f, NEW p \in Places,
           NEW e \in Seq(Message),
           job' = [job EXCEPT ![j] = r], file' = [file EXCEPT ![j] = f],
           pc' = [pc EXCEPT ![j] = p], entered' = [entered EXCEPT ![j] = e],
           UNCHANGED process, runs' \in [Jobs -> 0 .. MaxRuns],
           packets \subseteq packets', packets' \subseteq Packets,
           DOMAIN seen' = Jobs, \A k \in Jobs : seen[k] \subseteq seen'[k],
           Sound(r, seen'[j], packets'), Sound(f, seen'[j], packets'),
           r.messages = f.messages,
           p # "none" => r.status = "active" /\ f.status = "active",
           r.status \in {"active", "completed"} => IsRead(r, e),
           f.status = "completed" => IsRead(f, e),
           f.status = "none" => e = <<>> /\ r.status = "none"
    PROVE  CInv'
<1>1. \A k \in Jobs : /\ job'[k] = IF k = j THEN r ELSE job[k]
                      /\ file'[k] = IF k = j THEN f ELSE file[k]
                      /\ pc'[k] = IF k = j THEN p ELSE pc[k]
                      /\ entered'[k] = IF k = j THEN e ELSE entered[k]
  BY DEF CInv, PlainTypes
<1>2. PlainTypes'
  <2>1. r \in Record /\ f \in Record
    BY DEF Sound
  <2> QED
    BY <2>1 DEF CInv, PlainTypes, Places, process
<1>3. RecordsSound'
  <2> SUFFICES ASSUME NEW k \in Jobs
               PROVE  /\ Sound(job'[k], seen'[k], packets')
                      /\ Sound(file'[k], seen'[k], packets')
    BY DEF RecordsSound
  <2>1. CASE k = j
    BY <1>1, <2>1
  <2>2. CASE k # j
    <3>1. Sound(job[k], seen[k], packets) /\ Sound(file[k], seen[k], packets)
      BY DEF CInv, RecordsSound
    <3>2. Sound(job[k], seen'[k], packets') /\ Sound(file[k], seen'[k], packets')
      BY <3>1, SoundGrows
    <3> QED
      BY <1>1, <2>2, <3>2
  <2> QED
    BY <2>1, <2>2
<1>4. ASSUME NEW k \in Jobs
      PROVE  MailInOrder(k)'
  <2>1. CASE k = j
    BY <1>1, <2>1 DEF MailInOrder, IsRead, process
  <2>2. CASE k # j
    BY <1>1, <2>2 DEF CInv, MailInOrder, IsRead, process
  <2> QED
    BY <2>1, <2>2
<1> QED
  BY <1>2, <1>3, <1>4 DEF CInv

\* What the invariant says of one job.
LEMMA JobFacts ==
    ASSUME CInv, NEW j \in Jobs
    PROVE  /\ Sound(job[j], seen[j], packets) /\ Sound(file[j], seen[j], packets)
           /\ job[j] \in Record /\ file[j] \in Record
           /\ pc[j] \in Places /\ entered[j] \in Seq(Message)
           /\ MailInOrder(j)
BY DEF CInv, PlainTypes, RecordsSound, Places

\* A run that fails, saved or not, with the mailbox it had.
LEMMA FailKeeps ==
    ASSUME CInv, NEW j \in Jobs, pc[j] # "none", NEW r, Fail(j, r),
           NEW e \in Seq(Message), entered' = [entered EXCEPT ![j] = e],
           Sound(r, seen'[j], packets), r.messages = job[j].messages,
           r.status # "none",
           DOMAIN seen' = Jobs, \A k \in Jobs : seen[k] \subseteq seen'[k],
           UNCHANGED <<process, runs, packets>>
    PROVE  CInv'
<1> DEFINE s == [r EXCEPT !.status = "stopped"]
<1>1. up /\ file[j].status = "active" /\ job[j].messages = file[j].messages
  BY JobFacts DEF MailInOrder
<1>2. Sound(s, seen'[j], packets')
  BY SoundStatus DEF Stopped
<1>3. s.status = "stopped" /\ s.messages = job[j].messages
  BY DEF Sound, Record
<1>4. Sound(file[j], seen'[j], packets')
  BY JobFacts, SoundGrows
<1>5. /\ job' = [job EXCEPT ![j] = s] /\ pc' = [pc EXCEPT ![j] = "none"]
      /\ file' = [file EXCEPT ![j] = s] \/ file' = [file EXCEPT ![j] = file[j]]
  <2>1. file = [file EXCEPT ![j] = file[j]]
    BY DEF CInv, PlainTypes
  <2> QED
    BY <2>1 DEF Fail, Save, NotSaved
<1>6. runs' \in [Jobs -> 0 .. MaxRuns] /\ packets' \subseteq Packets
  BY DEF CInv, PlainTypes
<1> HIDE DEF s
<1>7. CASE file' = [file EXCEPT ![j] = s]
  BY <1>1, <1>2, <1>3, <1>5, <1>6, <1>7, OneJob DEF Places
<1>8. CASE file' = [file EXCEPT ![j] = file[j]]
  BY <1>1, <1>2, <1>3, <1>4, <1>5, <1>6, <1>8, OneJob DEF Places
<1> QED
  BY <1>5, <1>7, <1>8

\* A job starts with packets that are there, and with no mail.
LEMMA StartKeeps ==
    ASSUME CInv, up, NEW j \in Jobs, NEW C, Start(j, C)
    PROVE  CInv'
<1> DEFINE r == [NoJob EXCEPT !.status = "active", !.task = C]
<1>1. Sound(r, seen[j], packets)
  <2>1. Sound(NoJob, seen[j], packets)
    BY NoJobSound
  <2>2. C \subseteq packets /\ C \subseteq Packets /\ Cardinality(C) =< ContextLimit
    BY DEF Start, CInv, PlainTypes
  <2> QED
    BY <2>1, <2>2 DEF Sound, Record, NoJob
<1>2. entered[j] = <<>> /\ <<>> \in Seq(Message)
  <2>1. file[j].status = "none"
    BY DEF Start, NoJob
  <2> QED
    BY <2>1, JobFacts DEF MailInOrder
<1>3. r.status = "active" /\ r.messages = <<>> /\ r.delivered = 0
  BY DEF NoJob
<1>4. IsRead(r, <<>>)
  BY <1>3, SubSeqEmpty DEF IsRead
<1>5. runs' \in [Jobs -> 0 .. MaxRuns]
  <2>1. 1 \in 0 .. MaxRuns
    BY CoordinationAssumption
  <2> QED
    BY <2>1 DEF Start, CInv, PlainTypes
<1>6. /\ job' = [job EXCEPT ![j] = r] /\ file' = [file EXCEPT ![j] = r]
      /\ pc' = [pc EXCEPT ![j] = "top"] /\ UNCHANGED <<process, packets, seen, entered>>
  BY DEF Start, Save
<1>7. entered' = [entered EXCEPT ![j] = <<>>]
  BY <1>2, <1>6 DEF CInv, PlainTypes
<1>8. DOMAIN seen' = Jobs /\ packets' \subseteq Packets
  BY <1>6 DEF CInv, PlainTypes
<1> HIDE DEF r
<1> QED
  BY <1>1, <1>2, <1>3, <1>4, <1>5, <1>6, <1>7, <1>8, OneJob DEF Places

\* A continuation goes on from the record of a completed job, and from its cursor.
LEMMA ContinueKeeps ==
    ASSUME CInv, NEW j \in Jobs, Continue(j)
    PROVE  CInv'
<1> DEFINE r == [job[j] EXCEPT !.status = "active"]
<1>1. Sound(r, seen[j], packets)
  BY JobFacts, SoundStatus
<1>2. /\ r.status = "active" /\ r.messages = job[j].messages
      /\ r.delivered = job[j].delivered
  BY JobFacts DEF Record
<1>3. IsRead(r, entered[j])
  BY <1>2, JobFacts DEF Continue, MailInOrder, IsRead
<1>4. runs' \in [Jobs -> 0 .. MaxRuns]
  BY CoordinationAssumption DEF Continue, CInv, PlainTypes
<1>5. /\ up /\ job' = [job EXCEPT ![j] = r] /\ file' = [file EXCEPT ![j] = r]
      /\ pc' = [pc EXCEPT ![j] = "top"] /\ UNCHANGED <<process, packets, seen, entered>>
  BY DEF Continue, Save
<1>6. entered' = [entered EXCEPT ![j] = entered[j]] /\ entered[j] \in Seq(Message)
  BY <1>5 DEF CInv, PlainTypes
<1>7. DOMAIN seen' = Jobs /\ packets' \subseteq Packets
  BY <1>5 DEF CInv, PlainTypes
<1> HIDE DEF r
<1> QED
  BY <1>1, <1>2, <1>3, <1>4, <1>5, <1>6, <1>7, OneJob DEF Places

\* A message is put behind what was there, in memory and on disk.
LEMMA SendKeeps ==
    ASSUME CInv, NEW a \in Jobs \cup {"codex"}, NEW j \in Jobs, Send(a, j)
    PROVE  CInv'
<1>1. PICK C \in SUBSET packets :
        Save(j, [job[j] EXCEPT !.messages = Append(@, [contexts |-> C])])
  BY DEF Send
<1> DEFINE m == [contexts |-> C]
           r == [job[j] EXCEPT !.messages = Append(job[j].messages, m)]
<1>2. /\ up /\ job[j] # NoJob /\ Len(job[j].messages) < MailboxLimit
      /\ UNCHANGED <<process, pc, runs, packets, seen, entered>>
  BY DEF Send, MayCall
<1>3. /\ job[j] \in Record /\ job[j].messages \in Seq(Message) /\ m \in Message
      /\ job[j].delivered \in 0 .. Len(job[j].messages)
      /\ job[j].status # "none"
  <2>1. Sound(job[j], seen[j], packets) /\ job[j] \in Record
    BY JobFacts
  <2>2. job[j].messages \in Seq(Message) /\ job[j].delivered \in 0 .. MailboxLimit
    BY <2>1 DEF Record
  <2>3. m \in Message
    BY DEF Message, CInv, PlainTypes
  <2>4. job[j].delivered \in 0 .. Len(job[j].messages)
    BY <2>1, <2>2, CoordinationAssumption DEF Sound
  <2> QED
    BY <1>2, <2>1, <2>2, <2>3, <2>4 DEF Sound
<1>4. /\ r.status = job[j].status /\ r.delivered = job[j].delivered
      /\ r.messages = Append(job[j].messages, m)
      /\ r.history = job[j].history /\ r.published = job[j].published
      /\ r.task = job[j].task
  BY <1>3 DEF Record
<1>5. /\ r.messages \in Seq(Message) /\ Len(r.messages) = Len(job[j].messages) + 1
      /\ \A n \in 1 .. Len(job[j].messages) : r.messages[n] = job[j].messages[n]
      /\ r.messages[Len(job[j].messages) + 1] = m
  BY <1>3, <1>4, AppendProperties
<1>6. Len(job[j].messages) \in Nat /\ MailboxLimit \in Nat
  BY <1>3, LenProperties, CoordinationAssumption
<1>7. r \in Record
  BY <1>3, <1>5 DEF Record
<1>8. Sound(r, seen[j], packets)
  <2>0. Sound(job[j], seen[j], packets)
    BY JobFacts
  <2>1. \A n \in 1 .. Len(r.messages) : r.messages[n].contexts \subseteq packets
    <3> SUFFICES ASSUME NEW n \in 1 .. Len(r.messages)
                 PROVE  r.messages[n].contexts \subseteq packets
      OBVIOUS
    <3>1. CASE n = Len(job[j].messages) + 1
      BY <3>1, <1>5
    <3>2. CASE n # Len(job[j].messages) + 1
      <4>1. n \in 1 .. Len(job[j].messages)
        BY <3>2, <1>5, <1>6
      <4> QED
        BY <4>1, <1>5, <2>0 DEF Sound
    <3> QED
      BY <3>1, <3>2
  <2>2. Len(r.messages) =< MailboxLimit /\ r.delivered =< Len(r.messages)
    BY <1>2, <1>3, <1>4, <1>5, <1>6
  <2> QED
    BY <2>0, <2>1, <2>2, <1>3, <1>4, <1>7 DEF Sound
<1>9. r.status \in {"active", "completed"} => IsRead(r, entered[j])
  <2>1. SubSeq(r.messages, 1, r.delivered) = SubSeq(job[j].messages, 1, job[j].delivered)
    BY <1>3, <1>4, AppendKeeps
  <2> QED
    BY <2>1, <1>4, JobFacts DEF MailInOrder, IsRead
<1>10. /\ job' = [job EXCEPT ![j] = r] /\ file' = [file EXCEPT ![j] = r]
       /\ pc' = [pc EXCEPT ![j] = pc[j]] /\ pc[j] \in Places
       /\ entered' = [entered EXCEPT ![j] = entered[j]] /\ entered[j] \in Seq(Message)
       /\ DOMAIN seen' = Jobs /\ packets' \subseteq Packets
       /\ runs' \in [Jobs -> 0 .. MaxRuns]
  BY <1>1, <1>2 DEF Save, CInv, PlainTypes, Places
<1>11. pc[j] # "none" => r.status = "active"
  BY <1>4, JobFacts DEF MailInOrder
<1> HIDE DEF r
<1> QED
  BY <1>2, <1>3, <1>4, <1>8, <1>9, <1>10, <1>11, OneJob

\* A packet is on disk before anyone lists it.
LEMMA PublishKeeps ==
    ASSUME CInv, NEW a \in Jobs \cup {"codex"}, Publish(a)
    PROVE  CInv'
<1>1. PICK p \in Packets \ packets :
          /\ packets' = packets \cup {p}
          /\ IF a = "codex" THEN UNCHANGED <<job, file>>
             ELSE \/ Save(a, [job[a] EXCEPT !.published = @ \cup {p}])
                  \/ UNCHANGED <<job, file>>
  BY DEF Publish
<1>2. up /\ UNCHANGED <<process, pc, runs, seen, entered>>
  BY DEF Publish, MayCall
<1>3. CASE UNCHANGED <<job, file>>
  <2>1. PlainTypes'
    BY <1>1, <1>2, <1>3 DEF CInv, PlainTypes, process
  <2>2. RecordsSound'
    BY <1>1, <1>2, <1>3, SoundGrows DEF CInv, RecordsSound
  <2>3. \A k \in Jobs : MailInOrder(k)'
    BY <1>2, <1>3 DEF CInv, MailInOrder, IsRead, process
  <2> QED
    BY <2>1, <2>2, <2>3 DEF CInv
<1>4. ASSUME a \in Jobs, Save(a, [job[a] EXCEPT !.published = @ \cup {p}])
      PROVE  CInv'
  <2> DEFINE r == [job[a] EXCEPT !.published = job[a].published \cup {p}]
  <2>1. pc[a] = "tools" /\ Cardinality(job[a].published) < ContextLimit
    BY <1>4, CoordinationAssumption DEF Publish, MayCall
  <2>2. job[a].status = "active"
    BY <1>4, <2>1, JobFacts DEF MailInOrder
  <2>3. Sound(job[a], seen[a], packets) /\ job[a] \in Record
    BY <1>4, JobFacts
  <2>4. /\ r \in Record /\ r.status = "active" /\ r.messages = job[a].messages
        /\ r.delivered = job[a].delivered /\ r.history = job[a].history
        /\ r.published = job[a].published \cup {p} /\ r.task = job[a].task
    BY <2>2, <2>3 DEF Record
  <2>5. IsFiniteSet(r.published) /\ Cardinality(r.published) =< ContextLimit
    <3>0. IsFiniteSet(job[a].published)
      BY <2>3 DEF Sound
    <3>1. /\ IsFiniteSet(job[a].published \cup {p})
          /\ Cardinality(job[a].published \cup {p}) =
                IF p \in job[a].published THEN Cardinality(job[a].published)
                ELSE Cardinality(job[a].published) + 1
      BY <3>0, FS_AddElement
    <3>2. Cardinality(job[a].published) \in Nat /\ ContextLimit \in Nat
      BY <3>0, FS_CardinalityType, CoordinationAssumption
    <3> QED
      BY <2>1, <2>4, <3>1, <3>2
  <2>6. Sound(r, seen[a], packets')
    BY <1>1, <2>3, <2>4, <2>5 DEF Sound
  <2>7. IsRead(r, entered[a])
    BY <1>4, <2>2, <2>4, JobFacts DEF MailInOrder, IsRead
  <2>8. /\ job' = [job EXCEPT ![a] = r] /\ file' = [file EXCEPT ![a] = r]
        /\ pc' = [pc EXCEPT ![a] = "tools"]
        /\ entered' = [entered EXCEPT ![a] = entered[a]] /\ entered[a] \in Seq(Message)
        /\ DOMAIN seen' = Jobs /\ packets' \subseteq Packets
        /\ runs' \in [Jobs -> 0 .. MaxRuns]
    BY <1>1, <1>2, <1>4, <2>1 DEF Save, CInv, PlainTypes
  <2> HIDE DEF r
  <2> QED
    BY <1>1, <1>2, <1>4, <2>4, <2>6, <2>7, <2>8, OneJob DEF Places
<1> QED
  BY <1>1, <1>3, <1>4

\* The head of a turn: the worker gets the next page of its mail.
LEMMA TopKeeps ==
    ASSUME CInv, NEW j \in Jobs, TopOfTurn(j)
    PROVE  CInv'
<1> DEFINE old == job[j]
           mail == inbox(j, old.delivered)
           r == Delivered(j)
           e == entered[j] \o mail.messages
<1>1. /\ pc[j] = "top" /\ UNCHANGED <<process, runs, packets, seen>>
      /\ entered' = [entered EXCEPT ![j] = e]
      /\ \/ /\ Save(j, r)
            /\ \E p \in {"request", "summary"} : pc' = [pc EXCEPT ![j] = p]
         \/ Fail(j, r)
  BY DEF TopOfTurn
<1>2. /\ Sound(old, seen[j], packets) /\ old \in Record /\ up
      /\ old.status = "active" /\ IsRead(old, entered[j])
      /\ old.delivered =< Len(old.messages)
  BY <1>1, JobFacts DEF MailInOrder, Sound
<1>3. /\ mail.next \in old.delivered .. Len(old.messages)
      /\ mail.next =< old.delivered + Batch
      /\ mail.messages = SubSeq(old.messages, old.delivered + 1, mail.next)
      /\ mail.messages \in Seq(Message)
      /\ old.delivered + Len(mail.messages) = mail.next
  BY <1>2, InboxPage
<1>4. r = [old EXCEPT !.delivered = mail.next,
                      !.history = old.history \cup old.delivered + 1 .. mail.next]
  BY <1>3 DEF Delivered
<1> HIDE DEF mail
<1>5. /\ old.messages \in Seq(Message) /\ Len(old.messages) \in Nat
      /\ old.delivered \in Nat /\ MailboxLimit \in Nat
      /\ old.history \subseteq 1 .. MailboxLimit
      /\ Len(old.messages) =< MailboxLimit
  BY <1>2, CoordinationAssumption, LenProperties DEF Record, Sound
<1>6. /\ mail.next \in 0 .. MailboxLimit
      /\ old.history \cup old.delivered + 1 .. mail.next \subseteq 1 .. MailboxLimit
  <2>1. mail.next \in 0 .. MailboxLimit
    <3>1. \A d \in Nat, l \in Nat : l =< MailboxLimit =>
              \A n \in d .. l : n \in 0 .. MailboxLimit
      BY <1>5
    <3>2. mail.next \in old.delivered .. Len(old.messages)
      BY <1>3
    <3> QED
      BY <1>5, <3>1, <3>2
  <2>2. ASSUME NEW n \in old.delivered + 1 .. mail.next
        PROVE  n \in 1 .. MailboxLimit
    BY <1>5, <2>1
  <2>3. old.delivered + 1 .. mail.next \subseteq 1 .. MailboxLimit
    BY <2>2
  <2> QED
    BY <1>5, <2>1, <2>3
<1>7. /\ r \in Record /\ r.status = "active" /\ r.messages = old.messages
      /\ r.delivered = mail.next
      /\ r.history = old.history \cup old.delivered + 1 .. mail.next
      /\ r.published = old.published /\ r.task = old.task
  BY <1>2, <1>4, <1>6 DEF Record
<1>8. Sound(r, seen[j], packets)
  <2>1. 1 .. mail.next \subseteq r.history \cup seen[j]
    <3> SUFFICES ASSUME NEW n \in 1 .. mail.next, n \notin old.delivered + 1 .. mail.next
                 PROVE  n \in old.history \cup seen[j]
      BY <1>7
    <3>1. n \in 1 .. old.delivered
      BY <1>3, <1>5
    <3> QED
      BY <3>1, <1>2 DEF Sound
  <2> QED
    BY <1>2, <1>3, <1>5, <1>7, <2>1 DEF Sound
<1>9. e = SubSeq(old.messages, 1, mail.next) /\ e \in Seq(Message)
  <2>1. entered[j] = SubSeq(old.messages, 1, old.delivered) /\ entered[j] \in Seq(Message)
    BY <1>2, JobFacts DEF IsRead
  <2>2. old.delivered \in 0 .. Len(old.messages)
    BY <1>2, <1>5
  <2>3. e = SubSeq(old.messages, 1, mail.next)
    BY <1>3, <1>5, <2>1, <2>2, Page
  <2>4. e \in Seq(Message)
    BY <1>3, <2>1, ConcatProperties
  <2> QED
    BY <2>3, <2>4
<1>10. IsRead(r, e)
  BY <1>7, <1>9 DEF IsRead
<1>11. DOMAIN seen' = Jobs /\ packets' \subseteq Packets
       /\ runs' \in [Jobs -> 0 .. MaxRuns]
  BY <1>1 DEF CInv, PlainTypes
<1> HIDE DEF r, e
<1>12. CASE Fail(j, r)
  BY <1>1, <1>7, <1>8, <1>9, <1>11, <1>12, FailKeeps
<1>13. ASSUME Save(j, r), NEW p \in {"request", "summary"}, pc' = [pc EXCEPT ![j] = p]
       PROVE  CInv'
  <2>1. p \in Places /\ job' = [job EXCEPT ![j] = r] /\ file' = [file EXCEPT ![j] = r]
    BY <1>13 DEF Save, Places
  <2> QED
    BY <1>1, <1>2, <1>7, <1>8, <1>9, <1>10, <1>11, <1>13, <2>1, OneJob
<1> QED
  BY <1>1, <1>12, <1>13

\* A run that goes on, or completes, with the mailbox and the cursor it had.
LEMMA SaveKeeps ==
    ASSUME CInv, NEW j \in Jobs, pc[j] # "none", NEW r, Save(j, r),
           NEW p \in Places, pc' = [pc EXCEPT ![j] = p],
           Sound(r, seen'[j], packets), r.messages = job[j].messages,
           r.delivered = job[j].delivered,
           r.status = "active" \/ (r.status = "completed" /\ p = "none"),
           DOMAIN seen' = Jobs, \A k \in Jobs : seen[k] \subseteq seen'[k],
           UNCHANGED <<process, runs, packets, entered>>
    PROVE  CInv'
<1>1. up /\ job[j].status = "active" /\ IsRead(r, entered[j])
  BY JobFacts DEF MailInOrder, IsRead
<1>2. /\ job' = [job EXCEPT ![j] = r] /\ file' = [file EXCEPT ![j] = r]
      /\ entered' = [entered EXCEPT ![j] = entered[j]] /\ entered[j] \in Seq(Message)
      /\ packets' \subseteq Packets /\ runs' \in [Jobs -> 0 .. MaxRuns]
  BY DEF Save, CInv, PlainTypes
<1> QED
  BY <1>1, <1>2, OneJob

\* What the model has been sent counts as read from then on.
LEMMA SeeGrows ==
    ASSUME CInv, NEW j \in Jobs, See(j)
    PROVE  /\ DOMAIN seen' = Jobs /\ \A k \in Jobs : seen[k] \subseteq seen'[k]
           /\ seen'[j] = seen[j] \cup job[j].history
           /\ Sound(job[j], seen'[j], packets)
<1>1. /\ DOMAIN seen' = Jobs /\ \A k \in Jobs : seen[k] \subseteq seen'[k]
      /\ seen'[j] = seen[j] \cup job[j].history
  BY DEF See, CInv, PlainTypes
<1> QED
  BY <1>1, JobFacts, SoundGrows

\* A compaction drops what the model has read.
LEMMA CompactedSound ==
    ASSUME NEW j \in Jobs, NEW S, NEW P, Sound(job[j], S, P), job[j].history \subseteq S,
           job[j].status # "none"
    PROVE  /\ Sound(Compacted(j), S, P) /\ Compacted(j).status = job[j].status
           /\ Compacted(j).messages = job[j].messages
           /\ Compacted(j).delivered = job[j].delivered
<1> DEFINE old == job[j]
           r == Compacted(j)
<1>1. old \in Record
  BY DEF Sound
<1>2. {} \in SUBSET (1 .. MailboxLimit)
  OBVIOUS
<1>3. /\ r.status = old.status /\ r.messages = old.messages
      /\ r.delivered = old.delivered /\ r.history = {}
      /\ r.published = old.published /\ r.task = old.task
  BY <1>1 DEF Compacted, Record
<1>4. r \in Record
  BY <1>1, <1>2 DEF Compacted, Record
<1>5. 1 .. r.delivered \subseteq r.history \cup S
  BY <1>3 DEF Sound
<1> HIDE DEF r
<1>6. Sound(r, S, P)
  BY <1>3, <1>4, <1>5 DEF Sound
<1> QED
  BY <1>3, <1>6 DEF r

\* Every step of a run keeps the invariant.
LEMMA RunKeeps ==
    ASSUME CInv, NEW j \in Jobs, GiveUp(j) \/ Answered(j) \/ EndTurn(j) \/ Summarized(j)
    PROVE  CInv'
<1> DEFINE done == [job[j] EXCEPT !.status = "completed"]
<1>1. pc[j] # "none" /\ UNCHANGED <<process, runs, packets, entered>>
  BY DEF GiveUp, Answered, EndTurn, Summarized
<1>2. /\ job[j] \in Record /\ job[j].status = "active"
      /\ entered' = [entered EXCEPT ![j] = entered[j]] /\ entered[j] \in Seq(Message)
  BY <1>1, JobFacts DEF MailInOrder, CInv, PlainTypes
<1>3. CASE GiveUp(j) \/ EndTurn(j)
  <2>1. /\ Sound(job[j], seen'[j], packets) /\ DOMAIN seen' = Jobs
        /\ \A k \in Jobs : seen[k] \subseteq seen'[k]
    BY <1>3, JobFacts DEF GiveUp, EndTurn, CInv, PlainTypes
  <2>2. CASE Fail(j, job[j])
    BY <1>1, <1>2, <2>1, <2>2, FailKeeps
  <2>3. CASE Save(j, job[j]) /\ pc' = [pc EXCEPT ![j] = "top"]
    BY <1>1, <1>2, <2>1, <2>3, SaveKeeps DEF Places
  <2> QED
    BY <1>3, <2>2, <2>3 DEF GiveUp, EndTurn
<1>4. CASE Answered(j) \/ Summarized(j)
  <2>1. /\ DOMAIN seen' = Jobs /\ \A k \in Jobs : seen[k] \subseteq seen'[k]
        /\ seen'[j] = seen[j] \cup job[j].history
        /\ Sound(job[j], seen'[j], packets)
    BY <1>4, SeeGrows DEF Answered, Summarized
  <2>2. Sound(done, seen'[j], packets)
    BY <2>1, SoundStatus DEF Stopped
  <2>3. /\ done.status = "completed" /\ done.messages = job[j].messages
        /\ done.delivered = job[j].delivered
    BY <1>2 DEF Record
  <2>4. CASE Fail(j, job[j])
    BY <1>1, <1>2, <2>1, <2>4, FailKeeps
  <2>5. CASE Save(j, done) /\ pc' = [pc EXCEPT ![j] = "none"]
    <3> HIDE DEF done
    <3> QED
      BY <1>1, <2>1, <2>2, <2>3, <2>5, SaveKeeps DEF Places
  <2>6. ASSUME NEW p \in {"tools", "top"}, pc' = [pc EXCEPT ![j] = p],
               UNCHANGED <<job, file>>
        PROVE  CInv'
    <3>1. /\ job' = [job EXCEPT ![j] = job[j]] /\ file' = [file EXCEPT ![j] = file[j]]
          /\ packets' \subseteq Packets /\ runs' \in [Jobs -> 0 .. MaxRuns]
      BY <1>1, <2>6 DEF CInv, PlainTypes
    <3>2. /\ up /\ file[j].status = "active" /\ job[j].messages = file[j].messages
          /\ IsRead(job[j], entered[j])
      BY <1>1, <1>2, JobFacts DEF MailInOrder
    <3>3. Sound(file[j], seen'[j], packets')
      BY <1>1, <2>1, JobFacts, SoundGrows
    <3> QED
      BY <1>1, <1>2, <2>1, <2>6, <3>1, <3>2, <3>3, OneJob DEF Places
  <2>7. CASE \/ Save(j, Compacted(j)) /\ pc' = [pc EXCEPT ![j] = "top"]
             \/ Fail(j, Compacted(j))
    <3>1. /\ Sound(Compacted(j), seen'[j], packets)
          /\ Compacted(j).status = "active"
          /\ Compacted(j).messages = job[j].messages
          /\ Compacted(j).delivered = job[j].delivered
      BY <1>2, <2>1, CompactedSound
    <3>2. CASE Fail(j, Compacted(j))
      BY <1>1, <1>2, <2>1, <3>1, <3>2, FailKeeps
    <3>3. CASE Save(j, Compacted(j)) /\ pc' = [pc EXCEPT ![j] = "top"]
      BY <1>1, <1>2, <2>1, <3>1, <3>3, SaveKeeps DEF Places
    <3> QED
      BY <2>7, <3>2, <3>3
  <2> QED
    BY <1>4, <2>4, <2>5, <2>6, <2>7 DEF Answered, Summarized
<1> QED
  BY <1>3, <1>4
-----------------------------------------------------------------------------
(* The process.                                                            *)

\* A crash loses what is in memory; the files are as sound as they were.
LEMMA CrashKeeps == ASSUME CInv, Crash PROVE CInv'
<1>1. /\ up' = FALSE /\ job' = [j \in Jobs |-> NoJob] /\ pc' = [j \in Jobs |-> "none"]
      /\ UNCHANGED <<restarts, file, runs, packets, seen, entered>>
  BY DEF Crash
<1>2. \A j \in Jobs : Sound(job'[j], seen'[j], packets') /\ job'[j] = NoJob
  BY <1>1, NoJobSound
<1>3. PlainTypes'
  <2>1. NoJob \in Record
    BY NoJobSound DEF Sound
  <2> QED
    BY <1>1, <2>1 DEF CInv, PlainTypes
<1>4. RecordsSound'
  BY <1>1, <1>2 DEF CInv, RecordsSound
<1>5. ASSUME NEW j \in Jobs PROVE MailInOrder(j)'
  <2>1. job'[j].status = "none"
    BY <1>1 DEF NoJob
  <2> QED
    BY <1>1, <2>1, <1>5 DEF CInv, MailInOrder, IsRead
<1> QED
  BY <1>3, <1>4, <1>5 DEF CInv

\* A restart goes on from the files, with what was active stopped.
LEMMA NewKeeps == ASSUME CInv, New PROVE CInv'
<1> DEFINE loaded(j) == IF file[j].status = "active"
                        THEN [file[j] EXCEPT !.status = "stopped"] ELSE file[j]
<1>1. /\ ~up /\ restarts < MaxRestarts /\ up' = TRUE /\ restarts' = restarts + 1
      /\ job' = [j \in Jobs |-> loaded(j)]
      /\ UNCHANGED <<file, pc, runs, packets, seen, entered>>
  BY DEF New
<1>2. ASSUME NEW j \in Jobs
      PROVE  /\ Sound(loaded(j), seen[j], packets)
             /\ loaded(j).messages = file[j].messages
             /\ loaded(j).delivered = file[j].delivered
             /\ loaded(j).status = IF file[j].status = "active" THEN "stopped"
                                   ELSE file[j].status
  <2>1. Sound(file[j], seen[j], packets) /\ file[j] \in Record
    BY <1>2, JobFacts
  <2>2. CASE file[j].status = "active"
    <3>1. Sound([file[j] EXCEPT !.status = "stopped"], seen[j], packets)
      BY <2>1, SoundStatus DEF Stopped
    <3> QED
      BY <2>1, <2>2, <3>1 DEF Record
  <2>3. CASE file[j].status # "active"
    BY <2>1, <2>3
  <2> QED
    BY <2>2, <2>3
<1>3. \A j \in Jobs : job'[j] = loaded(j)
  BY <1>1
<1> HIDE DEF loaded
<1>4. PlainTypes'
  <2>1. restarts' \in 0 .. MaxRestarts
    BY <1>1, CoordinationAssumption DEF CInv, PlainTypes
  <2>2. job' \in [Jobs -> Record]
    BY <1>1, <1>2 DEF Sound
  <2> QED
    BY <1>1, <2>1, <2>2 DEF CInv, PlainTypes
<1>5. RecordsSound'
  BY <1>1, <1>2, <1>3 DEF CInv, RecordsSound
<1>6. ASSUME NEW j \in Jobs PROVE MailInOrder(j)'
  <2>1. pc[j] = "none" /\ (file[j].status = "completed" => IsRead(file[j], entered[j]))
        /\ (file[j].status = "none" => entered[j] = <<>>)
    BY <1>1, <1>6, JobFacts DEF MailInOrder
  <2>2. file[j].status \in {"none", "active", "completed", "stopped"}
    BY <1>6, JobFacts DEF Record, Stopped
  <2>3. /\ job'[j].messages = file[j].messages
        /\ job'[j].status \in {"active", "completed"} => IsRead(job'[j], entered[j])
        /\ file[j].status = "none" => job'[j].status = "none"
    BY <1>2, <1>3, <1>6, <2>1, <2>2 DEF IsRead
  <2> QED
    BY <1>1, <1>6, <2>1, <2>3 DEF MailInOrder, IsRead
<1> QED
  BY <1>4, <1>5, <1>6 DEF CInv
-----------------------------------------------------------------------------
(* The invariant and what follows from it.                                 *)

\* It holds before anything has happened.
LEMMA InitCInv == ASSUME Init PROVE CInv
<1>1. \A j \in Jobs : job[j] = NoJob /\ file[j] = NoJob
  BY DEF Init
<1>2. NoJob \in Record /\ NoJob.status = "none"
  BY NoJobSound DEF Sound, NoJob
<1>3. 0 \in 0 .. MaxRestarts /\ 0 \in 0 .. MaxRuns
  BY CoordinationAssumption
<1>4. PlainTypes
  BY <1>2, <1>3 DEF Init, PlainTypes
<1>5. RecordsSound
  BY <1>1, NoJobSound DEF RecordsSound
<1>6. \A j \in Jobs : MailInOrder(j)
  BY <1>1, <1>2 DEF Init, MailInOrder
<1> QED
  BY <1>4, <1>5, <1>6 DEF CInv

\* Every step keeps it.
LEMMA NextCInv == ASSUME CInv, [Next]_vars PROVE CInv'
<1>1. CASE Crash
  BY <1>1, CrashKeeps
<1>2. CASE New
  BY <1>2, NewKeeps
<1>3. ASSUME NEW j \in Jobs, Spawn(j) \/ Handoff(j) PROVE CInv'
  <2>1. up /\ \E C : Start(j, C)
    BY <1>3 DEF Spawn, Handoff
  <2> QED
    BY <1>3, <2>1, StartKeeps
<1>4. ASSUME NEW j \in Jobs, Continue(j) PROVE CInv'
  BY <1>4, ContinueKeeps
<1>5. ASSUME NEW a \in Jobs \cup {"codex"}, Publish(a) PROVE CInv'
  BY <1>5, PublishKeeps
<1>6. ASSUME NEW a \in Jobs \cup {"codex"}, Send(a, Recipient) PROVE CInv'
  BY <1>6, SendKeeps, CoordinationAssumption
<1>7. ASSUME NEW j \in Jobs, TopOfTurn(j) PROVE CInv'
  BY <1>7, TopKeeps
<1>8. ASSUME NEW j \in Jobs, GiveUp(j) \/ Answered(j) \/ EndTurn(j) \/ Summarized(j)
      PROVE  CInv'
  BY <1>8, RunKeeps
<1>9. CASE UNCHANGED vars
  BY <1>9 DEF vars, CInv, PlainTypes, RecordsSound, MailInOrder, IsRead
<1> QED
  BY <1>1, <1>2, <1>3, <1>4, <1>5, <1>6, <1>7, <1>8, <1>9 DEF Next

\* The inductive invariant holds in every reachable state.
LEMMA CInvCorrect == Spec => []CInv
<1>1. Init => CInv
  BY InitCInv
<1>2. CInv /\ [Next]_vars => CInv'
  BY NextCInv
<1> QED
  BY <1>1, <1>2, PTL DEF Spec

\* Mailboxes and lists of packets stay within their limits.
THEOREM CoordinationTypeCorrect == Spec => []RecordsWithinLimits
<1>1. CInv => RecordsWithinLimits
  BY DEF CInv, PlainTypes, RecordsSound, Sound, RecordsWithinLimits
<1> QED
  BY <1>1, CInvCorrect, PTL

\* No mail is lost on its way into the conversation: what lies behind a cursor
\* is in the conversation, or the model has read it, in memory and on disk.
THEOREM MailSafeCorrect == Spec => []MailSafe
<1>1. CInv => MailSafe
  BY DEF CInv, RecordsSound, Sound, MailSafe
<1> QED
  BY <1>1, CInvCorrect, PTL

\* Whatever lists a packet can read it.
THEOREM PacketsExistCorrect == Spec => []PacketsExist
<1>1. CInv => PacketsExist
  BY DEF CInv, RecordsSound, Sound, PacketsExist
<1> QED
  BY <1>1, CInvCorrect, PTL
-----------------------------------------------------------------------------
(* The mailbox of Mailbox.tla.                                             *)

\* A mailbox starts empty, in memory and on disk.
LEMMA InitDelivery == ASSUME Init PROVE Delivery!Init
<1>1. Kept = <<>> /\ entered[Recipient] = <<>>
  BY CoordinationAssumption DEF Init, Kept, NoJob
<1> QED
  BY <1>1 DEF Delivery!Init

\* While the process is up, the records in memory and on disk keep the same
\* mailbox.
LEMMA KeptIsFile == ASSUME CInv PROVE Kept = file[Recipient].messages
BY CoordinationAssumption, JobFacts DEF Kept, MailInOrder

\* A step that leaves the mailbox on disk, and what entered the conversation.
LEMMA Stutter ==
    ASSUME CInv, CInv', entered'[Recipient] = entered[Recipient],
           file'[Recipient].messages = file[Recipient].messages
    PROVE  UNCHANGED <<Kept, entered[Recipient]>>
<1>1. Kept = file[Recipient].messages
  BY KeptIsFile
<1>2. Kept' = file'[Recipient].messages
  <2>1. up' => job'[Recipient].messages = file'[Recipient].messages
    BY CoordinationAssumption DEF CInv, MailInOrder
  <2> QED
    BY <2>1 DEF Kept
<1> QED
  BY <1>1, <1>2

\* The head of a turn takes what lies behind the cursor, or nothing.
LEMMA TopTakes ==
    ASSUME CInv, CInv', TopOfTurn(Recipient)
    PROVE  [Delivery!Next]_<<Kept, entered[Recipient]>>
<1> DEFINE j == Recipient
           old == job[j]
           mail == inbox(j, old.delivered)
<1>0. j \in Jobs
  BY CoordinationAssumption
<1>1. /\ Sound(old, seen[j], packets) /\ old \in Record /\ up
      /\ IsRead(old, entered[j]) /\ old.messages = file[j].messages
      /\ old.delivered =< Len(old.messages)
  BY <1>0, JobFacts DEF TopOfTurn, MailInOrder, Sound
<1>2. /\ mail.next \in old.delivered .. Len(old.messages)
      /\ mail.next =< old.delivered + Batch
      /\ mail.messages = SubSeq(old.messages, old.delivered + 1, mail.next)
      /\ old.delivered + Len(mail.messages) = mail.next
  BY <1>0, <1>1, InboxPage
<1>3. /\ entered' = [entered EXCEPT ![j] = entered[j] \o mail.messages]
      /\ \/ Save(j, Delivered(j)) \/ Fail(j, Delivered(j))
  BY DEF TopOfTurn
<1>4. Delivered(j).messages = old.messages
  BY <1>1 DEF Delivered, Record
<1>5. file'[j].messages = file[j].messages
  <2>1. [Delivered(j) EXCEPT !.status = "stopped"].messages = old.messages
    BY <1>1, <1>4 DEF Delivered, Record
  <2>2. file'[j] \in {Delivered(j), [Delivered(j) EXCEPT !.status = "stopped"], file[j]}
    BY <1>0, <1>3 DEF Save, Fail, NotSaved, CInv, PlainTypes
  <2> QED
    BY <1>1, <1>4, <2>1, <2>2
<1> HIDE DEF mail
<1>6. /\ old.messages \in Seq(Message) /\ Len(old.messages) \in Nat
      /\ old.delivered \in Nat /\ old.delivered \in 0 .. Len(old.messages)
      /\ Batch \in Nat /\ mail.next \in Nat
  <2>1. /\ old.messages \in Seq(Message) /\ Len(old.messages) \in Nat
        /\ old.delivered \in Nat /\ Batch \in Nat
    BY <1>1, CoordinationAssumption, LenProperties DEF Record
  <2> QED
    BY <1>1, <1>2, <2>1
<1>7. /\ entered[j] = SubSeq(old.messages, 1, old.delivered)
      /\ entered'[j] = SubSeq(old.messages, 1, mail.next)
  <2>1. entered[j] = SubSeq(old.messages, 1, old.delivered)
    BY <1>1 DEF IsRead
  <2>2. entered'[j] = entered[j] \o mail.messages
    BY <1>0, <1>3 DEF CInv, PlainTypes
  <2> QED
    BY <1>2, <1>6, <2>1, <2>2, Page
<1>8. Kept = old.messages /\ Kept' = old.messages
  <2>1. up' => job'[j].messages = file'[j].messages
    BY <1>0 DEF CInv, MailInOrder
  <2> QED
    BY <1>1, <1>5, <2>1 DEF Kept
<1>9. CASE mail.next = old.delivered
  BY <1>7, <1>8, <1>9
<1>10. CASE mail.next # old.delivered
  <2> DEFINE n == mail.next - old.delivered
  <2>1. n \in 1 .. Batch /\ old.delivered + n = mail.next /\ mail.next =< Len(old.messages)
    <3>1. \A a \in Nat, b \in Nat, l \in Nat, k \in Nat :
            b \in a .. l /\ b =< a + k /\ b # a =>
              b - a \in 1 .. k /\ a + (b - a) = b /\ b =< l
      OBVIOUS
    <3> QED
      BY <1>2, <1>6, <1>10, <3>1
  <2>2. Len(entered[j]) = old.delivered
    <3>1. Len(SubSeq(old.messages, 0 + 1, old.delivered)) = old.delivered - 0
      BY <1>6, Page
    <3> QED
      BY <1>6, <1>7, <3>1
  <2> HIDE DEF n
  <2>3. Len(entered[j]) + n =< Len(Kept) /\ entered'[j] = SubSeq(Kept, 1, Len(entered[j]) + n)
    BY <1>7, <1>8, <2>1, <2>2
  <2>4. Delivery!Take
    BY <1>8, <2>1, <2>3 DEF Delivery!Take
  <2> QED
    BY <2>4 DEF Delivery!Next
<1> QED
  BY <1>9, <1>10

\* Every step is a step of the mailbox, or leaves it alone.
LEMMA NextDelivery ==
    ASSUME CInv, CInv', [Next]_vars
    PROVE  [Delivery!Next]_<<Kept, entered[Recipient]>>
<1>0. Recipient \in Jobs
  BY CoordinationAssumption
<1>1. CASE Crash \/ New
  BY <1>1, Stutter DEF Crash, New
<1>2. ASSUME NEW j \in Jobs, NEW C, Start(j, C)
      PROVE  [Delivery!Next]_<<Kept, entered[Recipient]>>
  <2>1. entered'[Recipient] = entered[Recipient]
    BY <1>2 DEF Start
  <2>2. file[j].messages = <<>> /\ file'[j].messages = <<>>
    BY <1>2 DEF Start, Save, NoJob, CInv, PlainTypes
  <2>3. file'[Recipient].messages = file[Recipient].messages
    BY <1>0, <1>2, <2>2 DEF Start, Save, CInv, PlainTypes
  <2> QED
    BY <2>1, <2>3, Stutter
<1>3. ASSUME NEW j \in Jobs, Continue(j)
      PROVE  [Delivery!Next]_<<Kept, entered[Recipient]>>
  <2>1. entered' = entered /\ file' = [file EXCEPT ![j] = [job[j] EXCEPT !.status = "active"]]
    BY <1>3 DEF Continue, Save
  <2>2. job[j].messages = file[j].messages /\ job[j] \in Record
    BY <1>3, JobFacts DEF Continue, MailInOrder
  <2>3. [job[j] EXCEPT !.status = "active"].messages = file[j].messages
    BY <2>2 DEF Record
  <2>4. file'[Recipient].messages = file[Recipient].messages
    BY <1>0, <2>1, <2>3 DEF CInv, PlainTypes
  <2> QED
    BY <2>1, <2>4, Stutter
<1>4. ASSUME NEW a \in Jobs \cup {"codex"}, Publish(a)
      PROVE  [Delivery!Next]_<<Kept, entered[Recipient]>>
  <2>1. PICK p \in Packets : \/ file' = file
                             \/ /\ a \in Jobs
                                /\ file' = [file EXCEPT ![a] =
                                     [job[a] EXCEPT !.published = job[a].published \cup {p}]]
    BY <1>4 DEF Publish, Save
  <2>2. up /\ entered' = entered
    BY <1>4 DEF Publish, MayCall
  <2>3. ASSUME a \in Jobs
        PROVE  /\ job[a].messages = file[a].messages
               /\ [job[a] EXCEPT !.published = job[a].published \cup {p}].messages
                     = job[a].messages
    BY <2>2, <2>3, JobFacts DEF MailInOrder, Record
  <2>4. file'[Recipient].messages = file[Recipient].messages
    BY <1>0, <2>1, <2>3 DEF CInv, PlainTypes
  <2> QED
    BY <2>2, <2>4, Stutter
<1>5. ASSUME NEW a \in Jobs \cup {"codex"}, Send(a, Recipient)
      PROVE  [Delivery!Next]_<<Kept, entered[Recipient]>>
  <2>1. PICK C \in SUBSET packets :
          Save(Recipient, [job[Recipient] EXCEPT !.messages = Append(@, [contexts |-> C])])
    BY <1>5 DEF Send
  <2>2. /\ up /\ UNCHANGED <<up, entered>> /\ Len(job[Recipient].messages) < MailboxLimit
    BY <1>5 DEF Send, MayCall, process
  <2>3. [contexts |-> C] \in Message
    BY DEF Message, CInv, PlainTypes
  <2>4. Kept = job[Recipient].messages /\ Kept' = Append(Kept, [contexts |-> C])
    <3> DEFINE ms == Append(job[Recipient].messages, [contexts |-> C])
    <3>1. job[Recipient] \in Record
      BY <1>0, JobFacts
    <3>2. job' = [job EXCEPT ![Recipient] = [job[Recipient] EXCEPT !.messages = ms]]
      BY <2>1 DEF Save
    <3> HIDE DEF ms
    <3>3. job'[Recipient].messages = ms
      BY <1>0, <3>1, <3>2 DEF CInv, PlainTypes, Record
    <3> QED
      BY <2>2, <3>3 DEF Kept, ms
  <2>5. Delivery!Accept
    BY <2>2, <2>3, <2>4 DEF Delivery!Accept
  <2> QED
    BY <2>5 DEF Delivery!Next
<1>6. ASSUME NEW j \in Jobs, TopOfTurn(j)
      PROVE  [Delivery!Next]_<<Kept, entered[Recipient]>>
  <2>1. CASE j = Recipient
    BY <1>6, <2>1, TopTakes
  <2>2. CASE j # Recipient
    <3>1. entered'[Recipient] = entered[Recipient]
      BY <1>0, <1>6, <2>2 DEF TopOfTurn, CInv, PlainTypes
    <3>2. file'[Recipient] = file[Recipient]
      BY <1>0, <1>6, <2>2 DEF TopOfTurn, Save, Fail, NotSaved, CInv, PlainTypes
    <3> QED
      BY <3>1, <3>2, Stutter
  <2> QED
    BY <2>1, <2>2
<1>7. ASSUME NEW j \in Jobs, GiveUp(j) \/ Answered(j) \/ EndTurn(j) \/ Summarized(j)
      PROVE  [Delivery!Next]_<<Kept, entered[Recipient]>>
  <2>1. pc[j] # "none" /\ entered' = entered
    BY <1>7 DEF GiveUp, Answered, EndTurn, Summarized
  <2>2. job[j].messages = file[j].messages /\ job[j] \in Record
    BY <1>7, <2>1, JobFacts DEF MailInOrder
  <2>3. Compacted(j).messages = job[j].messages /\ Compacted(j) \in Record
    <3>1. {} \in SUBSET (1 .. MailboxLimit)
      OBVIOUS
    <3> QED
      BY <2>2, <3>1 DEF Compacted, Record
  <2>4. ASSUME NEW r \in Record, r.messages = job[j].messages,
               NEW s \in {"stopped", "completed"}
        PROVE  [r EXCEPT !.status = s].messages = job[j].messages
    BY <2>4 DEF Record
  <2>5. ASSUME NEW r \in Record, r.messages = job[j].messages, Fail(j, r)
        PROVE  \E f : f.messages = job[j].messages /\ file' = [file EXCEPT ![j] = f]
    <3>1. CASE file' = [file EXCEPT ![j] = [r EXCEPT !.status = "stopped"]]
      BY <2>4, <2>5, <3>1
    <3>2. CASE file' = file
      <4>1. file = [file EXCEPT ![j] = file[j]]
        BY <1>7 DEF CInv, PlainTypes
      <4> QED
        BY <2>2, <3>2, <4>1
    <3> QED
      BY <2>5, <3>1, <3>2 DEF Fail, Save, NotSaved
  <2>6. \E f : f.messages = job[j].messages /\ file' = [file EXCEPT ![j] = f]
    <3>1. CASE GiveUp(j)
      BY <2>2, <2>5, <3>1 DEF GiveUp
    <3>2. CASE EndTurn(j)
      BY <2>2, <2>5, <3>2 DEF EndTurn, Save
    <3>3. CASE Answered(j)
      <4>1. CASE UNCHANGED <<job, file>>
        <5>1. file = [file EXCEPT ![j] = file[j]]
          BY <1>7 DEF CInv, PlainTypes
        <5> QED
          BY <2>2, <4>1, <5>1
      <4>2. CASE Save(j, [job[j] EXCEPT !.status = "completed"])
        BY <2>2, <2>4, <4>2 DEF Save
      <4>3. CASE Fail(j, job[j])
        BY <2>2, <2>5, <4>3
      <4> QED
        BY <3>3, <4>1, <4>2, <4>3 DEF Answered
    <3>4. CASE Summarized(j)
      <4>1. CASE Save(j, [job[j] EXCEPT !.status = "completed"])
        BY <2>2, <2>4, <4>1 DEF Save
      <4>2. CASE Fail(j, job[j])
        BY <2>2, <2>5, <4>2
      <4>3. CASE Save(j, Compacted(j))
        BY <2>3, <4>3 DEF Save
      <4>4. CASE Fail(j, Compacted(j))
        BY <2>3, <2>5, <4>4
      <4> QED
        BY <3>4, <4>1, <4>2, <4>3, <4>4 DEF Summarized
    <3> QED
      BY <1>7, <3>1, <3>2, <3>3, <3>4
  <2>7. file'[Recipient].messages = file[Recipient].messages
    BY <1>0, <1>7, <2>2, <2>6 DEF CInv, PlainTypes
  <2> QED
    BY <2>1, <2>7, Stutter
<1>8. CASE UNCHANGED vars
  BY <1>8 DEF vars, Kept
<1>9. ASSUME NEW j \in Jobs, Spawn(j) \/ Handoff(j) PROVE \E C : Start(j, C)
  BY <1>9 DEF Spawn, Handoff
<1> QED
  BY <1>1, <1>2, <1>3, <1>4, <1>5, <1>6, <1>7, <1>8, <1>9 DEF Next

\* Through continuations, failed saves, compactions and restarts a mailbox
\* loses nothing, and its worker gets every message once and in order.
THEOREM MailboxCorrect == Spec => ImplementsMailbox
<1>1. Init => Delivery!Init
  BY InitDelivery
<1>2. CInv /\ CInv' /\ [Next]_vars => [Delivery!Next]_<<Kept, entered[Recipient]>>
  BY NextDelivery
<1> QED
  BY <1>1, <1>2, CInvCorrect, PTL DEF Spec, ImplementsMailbox, Delivery!Spec
=============================================================================
