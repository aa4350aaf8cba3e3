-------------------------- MODULE JobManagerProofs --------------------------
(***************************************************************************)
(* Proofs about JobManager, for any number of jobs, resources and keys and *)
(* any limits: type correctness, exclusive resources, that Cancel is       *)
(* honoured, the durability of the records and of terminal statuses across *)
(* crashes, the bound on running jobs, one run per idempotency key, and    *)
(* that recovery reports as interrupted what was active.                   *)
(***************************************************************************)
EXTENDS JobManager, FiniteSetTheorems, TLAPS

Records == [JobId -> Status \cup {NoRecord}]

DiskType ==
    /\ journal \in Records
    /\ journalLen \in 0 .. CompactAt
    /\ torn \in BOOLEAN
    /\ snapshot \in Records

(* persistLocked, with its compaction and every fault, keeps the files     *)
(* well-formed.                                                            *)
LEMMA PersistType ==
    ASSUME DiskType, NEW j \in JobId, NEW R \in SUBSET JobId, NEW S \in Records,
           persistLocked(j, R, S)
    PROVE  DiskType'
<1> USE JobManagerAssumption
<1>1. CASE /\ "append" \in Faults
           /\ torn' \in {torn, TRUE}
           /\ UNCHANGED <<journal, journalLen, snapshot>>
  BY <1>1 DEF DiskType
<1>2. CASE ~ (/\ "append" \in Faults
              /\ torn' \in {torn, TRUE}
              /\ UNCHANGED <<journal, journalLen, snapshot>>)
  <2> DEFINE J == IF torn THEN journal ELSE [journal EXCEPT ![j] = S[j]]
  <2>1. J \in Records
    BY DEF DiskType, Records
  <2>2. AfterAppend(journalLen) \in 0 .. CompactAt
    BY DEF DiskType, AfterAppend
  <2>3. NoRecords \in Records
    BY DEF NoRecords, Records
  <2>4. [i \in JobId |-> IF i \in R THEN S[i] ELSE NoRecord] \in Records
    BY DEF Records
  <2>5. /\ torn' = FALSE
        /\ \/ /\ AfterAppend(journalLen) < CompactAt
              /\ journal' = J
              /\ journalLen' = AfterAppend(journalLen)
              /\ UNCHANGED snapshot
           \/ /\ AfterAppend(journalLen) = CompactAt
              /\ compactLocked(R, S, J)
    BY <1>2 DEF persistLocked
  <2> HIDE DEF J
  <2> QED
    <3>1. 0 \in 0 .. CompactAt /\ CompactAt \in 0 .. CompactAt
      OBVIOUS
    <3>2. journalLen' \in 0 .. CompactAt
      BY <2>2, <2>5, <3>1 DEF compactLocked
    <3>3. journal' \in Records
      BY <2>1, <2>3, <2>5 DEF compactLocked
    <3>4. snapshot' \in Records
      <4>1. snapshot \in Records
        BY DEF DiskType
      <4> QED BY <2>4, <2>5, <4>1 DEF compactLocked
    <3> QED
      BY <2>5, <3>2, <3>3, <3>4 DEF DiskType
<1> QED
  BY <1>1, <1>2

(* trimLocked only deletes, and only terminal jobs.                        *)
LEMMA TrimKeepsActive ==
    ASSUME NEW R, NEW S
    PROVE  /\ trimLocked(R, S) \subseteq R
           /\ \A j \in R : S[j] \notin Terminal => j \in trimLocked(R, S)
BY DEF trimLocked

(* Every action keeps every variable in its type: TypeOK is inductive.     *)
LEMMA TypeStep == TypeOK /\ [Next]_vars => TypeOK'
<1> SUFFICES ASSUME TypeOK, [Next]_vars PROVE TypeOK'
  OBVIOUS
<1> USE JobManagerAssumption
<1>d. DiskType
  BY DEF TypeOK, DiskType, Records
<1>s. status \in Records
  BY DEF TypeOK, Records
<1>1. ASSUME NEW r \in Resource \cup {NoResource}, NEW k \in Key \cup {NoKey},
             StartWithOptions(r, k)
      PROVE  TypeOK'
  <2>1. next \in JobId
    BY <1>1 DEF StartWithOptions, TypeOK, JobId
  <2>2. status' \in Records /\ retained' \in SUBSET JobId
    <3>1. status' \in Records
      BY <1>1, <1>s, <2>1 DEF StartWithOptions, Records, Status, Active
    <3>2. retained' \subseteq retained \cup {next}
      BY <1>1, TrimKeepsActive DEF StartWithOptions
    <3> QED
      BY <2>1, <3>1, <3>2 DEF TypeOK
  <2>3. DiskType'
    BY <1>1, <1>d, <2>1, <2>2, PersistType DEF StartWithOptions
  <2>4. next' \in 1 .. MaxJobs + 1
    BY <1>1 DEF StartWithOptions, TypeOK
  <2>5. seen' \in Records /\ pc' \in [JobId -> Place]
    BY <1>1, <2>1 DEF StartWithOptions, TypeOK, Records, Status, Active, Place
  <2>6. /\ resource' \in [JobId -> Resource \cup {NoResource}]
        /\ key' \in [JobId -> Key \cup {NoKey}]
    BY <1>1, <2>1 DEF StartWithOptions, TypeOK
  <2> QED
    BY <1>1, <2>2, <2>3, <2>4, <2>5, <2>6
       DEF StartWithOptions, TypeOK, DiskType, Records
<1>2. ASSUME NEW j \in JobId, Cancel(j) PROVE TypeOK'
  BY <1>2 DEF Cancel, TypeOK, diskVars
<1>3. ASSUME NEW j \in JobId, AcquireResource(j) PROVE TypeOK'
  BY <1>3 DEF AcquireResource, Goto, TypeOK, jobVars, diskVars, Place
<1>4. ASSUME NEW j \in JobId, AcquireCancelled(j) PROVE TypeOK'
  BY <1>4 DEF AcquireCancelled, Goto, TypeOK, jobVars, diskVars, Place
<1>5. ASSUME NEW j \in JobId, TakeSlot(j) PROVE TypeOK'
  BY <1>5 DEF TakeSlot, Goto, TypeOK, jobVars, diskVars, Place
<1>6. ASSUME NEW j \in JobId, SlotCancelled(j) PROVE TypeOK'
  BY <1>6 DEF SlotCancelled, Goto, TypeOK, jobVars, diskVars, Place
<1>7. ASSUME NEW j \in JobId, markRunning(j) PROVE TypeOK'
  <2>1. status' \in Records /\ seen' \in Records
    BY <1>7, <1>s DEF markRunning, TypeOK, Records, Status, Active
  <2>2. retained \in SUBSET JobId
    BY DEF TypeOK
  <2>3. DiskType'
    <3>1. CASE status[j] = "queued"
      BY <1>7, <1>d, <2>1, <2>2, <3>1, PersistType DEF markRunning
    <3>2. CASE status[j] # "queued"
      BY <1>7, <1>d, <3>2 DEF markRunning, diskVars, DiskType
    <3> QED BY <3>1, <3>2
  <2> QED
    BY <1>7, <2>1, <2>3 DEF markRunning, Goto, TypeOK, DiskType, Records, Place
<1>8. ASSUME NEW j \in JobId, appendLog(j) PROVE TypeOK'
  <2>1. DiskType'
    BY <1>8, <1>d, <1>s, PersistType DEF appendLog, TypeOK
  <2> QED
    BY <1>8, <2>1 DEF appendLog, TypeOK, DiskType, Records, jobVars, goroutineVars
<1>9. ASSUME NEW j \in JobId, FunctionReturns(j) PROVE TypeOK'
  BY <1>9 DEF FunctionReturns, Goto, TypeOK, jobVars, diskVars, Place
<1>10. ASSUME NEW j \in JobId, finish(j) PROVE TypeOK'
  <2>1. /\ status' \in Records /\ seen' \in Records
        /\ retained' \in SUBSET JobId
    <3>1. verdict(j) \in Status
      BY DEF verdict, Status, Terminal
    <3> QED
      BY <1>10, <1>s, <3>1, TrimKeepsActive DEF finish, TypeOK, Records
  <2>2. DiskType'
    <3>1. CASE status[j] \in Terminal \/ proc = "stopping"
      BY <1>10, <1>d, <3>1 DEF finish, diskVars, DiskType
    <3>2. CASE ~ (status[j] \in Terminal \/ proc = "stopping")
      BY <1>10, <1>d, <2>1, <3>2, PersistType DEF finish
    <3> QED BY <3>1, <3>2
  <2>3. pc' \in [JobId -> Place]
    BY <1>10 DEF finish, Goto, TypeOK, Place, AfterFinish
  <2> QED
    BY <1>10, <2>1, <2>2, <2>3 DEF finish, TypeOK, DiskType, Records
<1>11. ASSUME NEW j \in JobId, releaseSlot(j) PROVE TypeOK'
  BY <1>11 DEF releaseSlot, Goto, TypeOK, jobVars, diskVars, Place
<1>12. ASSUME NEW j \in JobId, releaseResource(j) PROVE TypeOK'
  BY <1>12 DEF releaseResource, Goto, TypeOK, jobVars, diskVars, Place
<1>13. ASSUME NEW j \in JobId, ShutdownCancels(j) PROVE TypeOK'
  BY <1>13 DEF ShutdownCancels, TypeOK, jobVars, diskVars
<1>14. ASSUME NEW j \in JobId, InterruptRecovered(j) PROVE TypeOK'
  <2>1. status' \in Records
    BY <1>14, <1>s DEF InterruptRecovered, Records, Status, Terminal
  <2>2. DiskType'
    BY <1>14, <1>d, <2>1, PersistType DEF InterruptRecovered, TypeOK
  <2> QED
    BY <1>14, <2>1, <2>2
       DEF InterruptRecovered, TypeOK, DiskType, Records, goroutineVars
<1>15. CASE Shutdown
  BY <1>15 DEF Shutdown, TypeOK, diskVars, ActiveJobs
<1>m. MemoryLost /\ UNCHANGED torn /\ owed' \in SUBSET JobId => TypeOK'
  BY DEF MemoryLost, TypeOK, NoRecords, Nowhere, Place
<1>16. CASE ShutdownDone
  BY <1>16, <1>m DEF ShutdownDone, TypeOK
<1>17. CASE ShutdownTimeout
  BY <1>17, <1>m DEF ShutdownTimeout, TypeOK
<1>18. CASE Crash
  <2>1. owed' \in SUBSET JobId /\ torn' \in BOOLEAN
    BY <1>18 DEF Crash, TypeOK, ActiveJobs
  <2> QED
    BY <1>18, <2>1 DEF Crash, MemoryLost, TypeOK, NoRecords, Nowhere, Place
<1>19. CASE LoadFiles
  <2>1. Replayed \in Records
    BY DEF Replayed, Records, TypeOK
  <2> QED
    BY <1>19, <2>1 DEF LoadFiles, TypeOK, Records, goroutineVars, diskVars
<1>20. CASE LoadTrim
  BY <1>20, TrimKeepsActive DEF LoadTrim, TypeOK, goroutineVars, diskVars
<1>21. CASE UNCHANGED vars
  BY <1>21 DEF vars, goroutineVars, diskVars, TypeOK
<1> QED
  BY <1>1, <1>2, <1>3, <1>4, <1>5, <1>6, <1>7, <1>8, <1>9, <1>10, <1>11, <1>12,
     <1>13, <1>14, <1>15, <1>16, <1>17, <1>18, <1>19, <1>20, <1>21
     DEF Next, JobStep

(* NewWithOptions on an empty directory gives well-typed state.            *)
LEMMA TypeInit == Init => TypeOK
<1> USE JobManagerAssumption
<1>1. 1 \in 1 .. MaxJobs + 1 /\ 0 \in 0 .. MaxConcurrent /\ 0 \in 0 .. CompactAt
  OBVIOUS
<1>2. NoRecords \in [JobId -> Status \cup {NoRecord}]
  BY DEF NoRecords
<1>3. Nowhere \in [JobId -> Place]
  BY DEF Nowhere, Place
<1>4. SUFFICES ASSUME Init PROVE TypeOK
  OBVIOUS
<1>5. /\ outcome \in [JobId -> {"none", "ok", "error", "canceled"}]
      /\ cancelled \in [JobId -> BOOLEAN]
      /\ locked \in [Resource -> {0, 1}]
  BY <1>4 DEF Init
<1>6. /\ resource \in [JobId -> Resource \cup {NoResource}]
      /\ key \in [JobId -> Key \cup {NoKey}]
  BY <1>4 DEF Init
<1> QED
  BY <1>1, <1>2, <1>3, <1>4, <1>5, <1>6 DEF Init, TypeOK

(* Every variable of the job manager keeps its type, for any number of     *)
(* jobs, any limits and any set of faults.                                 *)
THEOREM TypeCorrect == Spec => []TypeOK
BY TypeInit, TypeStep, PTL DEF Spec

-----------------------------------------------------------------------------
(* Exclusive resources.                                                    *)

(* A step leaves ExclusionInv alone when it moves no goroutine in or out   *)
(* of the places that hold a lock.                                         *)
LEMMA ExclusionStep == TypeOK /\ ExclusionInv /\ [Next]_vars => ExclusionInv'
<1> SUFFICES ASSUME TypeOK, ExclusionInv, [Next]_vars PROVE ExclusionInv'
  OBVIOUS
<1> USE JobManagerAssumption
<1>t. /\ pc \in [JobId -> Place]
      /\ resource \in [JobId -> Resource \cup {NoResource}]
      /\ locked \in [Resource -> {0, 1}]
  BY DEF TypeOK
<1>i. ASSUME UNCHANGED <<resource, locked>>,
             NEW j \in JobId, NEW p \in Place, pc' = [pc EXCEPT ![j] = p],
             pc[j] \in Holding \/ p \notin Holding
      PROVE  ExclusionInv'
  BY <1>i, <1>t DEF ExclusionInv
<1>u. ASSUME UNCHANGED <<resource, locked, pc>> PROVE ExclusionInv'
  BY <1>u DEF ExclusionInv
<1>1. ASSUME NEW r \in Resource \cup {NoResource}, NEW k \in Key \cup {NoKey},
             StartWithOptions(r, k)
      PROVE  ExclusionInv'
  <2>1. next \in JobId
    BY <1>1 DEF StartWithOptions, TypeOK, JobId
  <2>2. /\ pc'[next] \notin Holding
        /\ \A j \in JobId : j # next => pc'[j] = pc[j] /\ resource'[j] = resource[j]
        /\ locked' = locked
    BY <1>1, <1>t, <2>1 DEF StartWithOptions, Holding
  <2> QED
    BY <2>1, <2>2 DEF ExclusionInv
<1>2. ASSUME NEW j \in JobId, Cancel(j) PROVE ExclusionInv'
  BY <1>2, <1>u DEF Cancel
<1>3. ASSUME NEW j \in JobId, AcquireResource(j) PROVE ExclusionInv'
  <2>1. resource[j] # NoResource
           => \A i \in JobId : pc[i] \in Holding => resource[i] # resource[j]
    BY <1>3 DEF AcquireResource, ExclusionInv
  <2>2. /\ \A i \in JobId : i # j => pc'[i] = pc[i]
        /\ resource' = resource
        /\ pc[j] \notin Holding
    BY <1>3, <1>t DEF AcquireResource, Goto, jobVars, Holding
  <2>3. \A r \in Resource : locked[r] = 1 => locked'[r] = 1
    BY <1>3, <1>t DEF AcquireResource
  <2>4. resource[j] # NoResource => locked'[resource[j]] = 1
    BY <1>3, <1>t DEF AcquireResource
  <2> QED
    BY <1>t, <2>1, <2>2, <2>3, <2>4 DEF ExclusionInv
<1>4. ASSUME NEW j \in JobId, AcquireCancelled(j) PROVE ExclusionInv'
  BY <1>4, <1>i DEF AcquireCancelled, Goto, jobVars, Place, Holding
<1>5. ASSUME NEW j \in JobId, TakeSlot(j) PROVE ExclusionInv'
  BY <1>5, <1>i DEF TakeSlot, Goto, jobVars, Place, Holding
<1>6. ASSUME NEW j \in JobId, SlotCancelled(j) PROVE ExclusionInv'
  BY <1>6, <1>i DEF SlotCancelled, Goto, jobVars, Place, Holding
<1>7. ASSUME NEW j \in JobId, markRunning(j) PROVE ExclusionInv'
  BY <1>7, <1>i DEF markRunning, Goto, Place, Holding
<1>8. ASSUME NEW j \in JobId, appendLog(j) PROVE ExclusionInv'
  BY <1>8, <1>u DEF appendLog, jobVars, goroutineVars
<1>9. ASSUME NEW j \in JobId, FunctionReturns(j) PROVE ExclusionInv'
  BY <1>9, <1>i DEF FunctionReturns, Goto, jobVars, Place, Holding
<1>10. ASSUME NEW j \in JobId, finish(j) PROVE ExclusionInv'
  BY <1>10, <1>i DEF finish, Goto, Place, Holding, AfterFinish
<1>11. ASSUME NEW j \in JobId, releaseSlot(j) PROVE ExclusionInv'
  BY <1>11, <1>i DEF releaseSlot, Goto, jobVars, Place, Holding
<1>12. ASSUME NEW j \in JobId, releaseResource(j) PROVE ExclusionInv'
  <2>1. /\ pc'[j] \notin Holding
        /\ pc[j] \in Holding
        /\ \A i \in JobId : i # j => pc'[i] = pc[i]
        /\ resource' = resource
    BY <1>12, <1>t DEF releaseResource, Goto, jobVars, Holding
  <2>2. \A r \in Resource : r # resource[j] => locked'[r] = locked[r]
    BY <1>12 DEF releaseResource
  <2> QED
    BY <1>t, <2>1, <2>2 DEF ExclusionInv
<1>13. ASSUME NEW j \in JobId, ShutdownCancels(j) PROVE ExclusionInv'
  BY <1>13, <1>u DEF ShutdownCancels, jobVars
<1>14. ASSUME NEW j \in JobId, InterruptRecovered(j) PROVE ExclusionInv'
  BY <1>14, <1>u DEF InterruptRecovered, goroutineVars
<1>15. CASE Shutdown
  BY <1>15, <1>u DEF Shutdown
<1>16. CASE ShutdownDone \/ ShutdownTimeout \/ Crash
  <2>1. \A j \in JobId : pc'[j] \notin Holding
    BY <1>16 DEF ShutdownDone, ShutdownTimeout, Crash, MemoryLost, Nowhere, Holding
  <2> QED
    BY <2>1 DEF ExclusionInv
<1>17. CASE LoadFiles
  BY <1>17, <1>u DEF LoadFiles, goroutineVars
<1>18. CASE LoadTrim
  BY <1>18, <1>u DEF LoadTrim, goroutineVars
<1>19. CASE UNCHANGED vars
  BY <1>19, <1>u DEF vars, goroutineVars
<1> QED
  BY <1>1, <1>2, <1>3, <1>4, <1>5, <1>6, <1>7, <1>8, <1>9, <1>10, <1>11, <1>12,
     <1>13, <1>14, <1>15, <1>16, <1>17, <1>18, <1>19
     DEF Next, JobStep

(* No two jobs that name the same resource ever execute together.          *)
THEOREM ResourcesAreExclusive == Spec => []ResourceExclusion
<1>1. Init => ExclusionInv
  BY DEF Init, ExclusionInv, Nowhere, Holding
<1>2. ExclusionInv => ResourceExclusion
  BY DEF ExclusionInv, ResourceExclusion, Holding
<1> QED
  BY <1>1, <1>2, TypeCorrect, ExclusionStep, PTL DEF Spec

-----------------------------------------------------------------------------
(* Cancellation.                                                           *)

(* CancelInv is inductive: finish is the only step that decides between    *)
(* success and failure, and it looks at the context under the mutex.       *)
LEMMA CancelStep == TypeOK /\ CancelInv /\ [Next]_vars => CancelInv'
<1> SUFFICES ASSUME TypeOK, CancelInv, [Next]_vars PROVE CancelInv'
  OBVIOUS
<1> USE JobManagerAssumption
<1>t. /\ status \in [JobId -> Status \cup {NoRecord}]
      /\ cancelled \in [JobId -> BOOLEAN]
      /\ pending \subseteq JobId
      /\ retained \subseteq JobId
  BY DEF TypeOK
<1>a. Active \cap Terminal = {}
  BY DEF Active, Terminal
<1>u. ASSUME UNCHANGED <<proc, pending, cancelled, status>> PROVE CancelInv'
  BY <1>u DEF CancelInv, CancelIsHonoured
<1>1. ASSUME NEW r \in Resource \cup {NoResource}, NEW k \in Key \cup {NoKey},
             StartWithOptions(r, k)
      PROVE  CancelInv'
  <2>1. next \in JobId
    BY <1>1 DEF StartWithOptions, TypeOK, JobId
  <2> QED
    BY <1>1, <1>t, <2>1 DEF StartWithOptions, CancelInv, CancelIsHonoured
<1>2. ASSUME NEW j \in JobId, Cancel(j) PROVE CancelInv'
  BY <1>2, <1>t DEF Cancel, ActiveJobs, Active, CancelInv, CancelIsHonoured
<1>3. ASSUME NEW j \in JobId,
             AcquireResource(j) \/ AcquireCancelled(j) \/ TakeSlot(j)
               \/ SlotCancelled(j) \/ FunctionReturns(j) \/ releaseSlot(j)
               \/ releaseResource(j)
      PROVE  CancelInv'
  BY <1>3, <1>u DEF AcquireResource, AcquireCancelled, TakeSlot, SlotCancelled,
     FunctionReturns, releaseSlot, releaseResource, jobVars
<1>4. ASSUME NEW j \in JobId, markRunning(j) PROVE CancelInv'
  BY <1>4, <1>t DEF markRunning, CancelInv, CancelIsHonoured, Active
<1>5. ASSUME NEW j \in JobId, appendLog(j) PROVE CancelInv'
  BY <1>5, <1>u DEF appendLog, jobVars, goroutineVars
<1>6. ASSUME NEW j \in JobId, finish(j) PROVE CancelInv'
  <2>1. CASE status[j] \in Terminal \/ proc = "stopping"
    BY <1>6, <1>u, <2>1 DEF finish
  <2>2. CASE ~ (status[j] \in Terminal \/ proc = "stopping")
    <3>1. pending = {} /\ UNCHANGED <<proc, pending, cancelled>>
      BY <1>6, <2>2 DEF finish, CancelInv
    <3>2. status' = [status EXCEPT ![j] = verdict(j)]
      BY <1>6, <2>2 DEF finish
    <3>3. cancelled[j] => verdict(j) = "cancelled"
      BY DEF verdict
    <3> QED
      BY <1>t, <3>1, <3>2, <3>3 DEF CancelInv, CancelIsHonoured
  <2> QED BY <2>1, <2>2
<1>7. ASSUME NEW j \in JobId, ShutdownCancels(j) PROVE CancelInv'
  BY <1>7, <1>t DEF ShutdownCancels, jobVars, Active, CancelInv, CancelIsHonoured
<1>8. ASSUME NEW j \in JobId, InterruptRecovered(j) PROVE CancelInv'
  BY <1>8, <1>t DEF InterruptRecovered, goroutineVars, CancelInv, CancelIsHonoured
<1>9. CASE Shutdown
  BY <1>9, <1>t DEF Shutdown, ActiveJobs, CancelInv, CancelIsHonoured
<1>10. CASE ShutdownDone \/ ShutdownTimeout \/ Crash
  BY <1>10 DEF ShutdownDone, ShutdownTimeout, Crash, MemoryLost, CancelInv, CancelIsHonoured
<1>11. CASE LoadFiles
  BY <1>11 DEF LoadFiles, goroutineVars, CancelInv, CancelIsHonoured
<1>12. CASE LoadTrim
  BY <1>12 DEF LoadTrim, goroutineVars, CancelInv, CancelIsHonoured
<1>13. CASE UNCHANGED vars
  BY <1>13, <1>u DEF vars, goroutineVars
<1> QED
  BY <1>1, <1>2, <1>3, <1>4, <1>5, <1>6, <1>7, <1>8, <1>9, <1>10, <1>11, <1>12, <1>13
     DEF Next, JobStep

(* A job whose cancellation was acknowledged never ends as succeeded or    *)
(* failed.                                                                 *)
THEOREM CancellationIsHonoured == Spec => []CancelIsHonoured
<1>1. Init => CancelInv
  BY DEF Init, CancelInv, CancelIsHonoured
<1>2. CancelInv => CancelIsHonoured
  BY DEF CancelInv
<1> QED
  BY <1>1, <1>2, TypeCorrect, CancelStep, PTL DEF Spec

-----------------------------------------------------------------------------
(* Durability, when no append to the journal fails.                        *)

(* How the record a restart would read of job i may change when job j is   *)
(* persisted and memory holds jobs R with statuses S.                      *)
ReplayStep(i, j, R, S) ==
    \/ i # j /\ Replayed'[i] = Replayed[i]
    \/ i \in R /\ Replayed'[i] = S[i]
    \/ i \notin R /\ Replayed'[i] = NoRecord
    \/ i = j /\ (IF torn THEN Replayed'[i] = Replayed[i]
                         ELSE Replayed'[i] = S[i])

(* What persistLocked does to the records a restart would read: only the   *)
(* record of j is certain to change, unless an incomplete line swallows    *)
(* it; compaction may bring the record of another job up to what memory    *)
(* holds, or drop it when memory no longer holds the job.                  *)
LEMMA PersistReplay ==
    ASSUME TypeOK, "append" \notin Faults,
           NEW j \in JobId, NEW R \in SUBSET JobId, NEW S \in Records,
           S[j] # NoRecord, persistLocked(j, R, S)
    PROVE  torn' = FALSE /\ \A i \in JobId : ReplayStep(i, j, R, S)
<1> DEFINE J == IF torn THEN journal ELSE [journal EXCEPT ![j] = S[j]]
<1>1. /\ torn' = FALSE
      /\ \/ journal' = J /\ UNCHANGED snapshot
         \/ /\ snapshot' = [i \in JobId |-> IF i \in R THEN S[i] ELSE NoRecord]
            /\ journal' = NoRecords \/ journal' = J
  BY DEF persistLocked, compactLocked
<1>2. journal \in Records /\ snapshot \in Records
  BY DEF TypeOK, Records
<1>3. /\ J \in Records
      /\ \A i \in JobId : J[i] = IF i = j /\ ~ torn THEN S[j] ELSE journal[i]
  BY <1>2 DEF Records
<1>4. \A i \in JobId : NoRecords[i] = NoRecord
  BY DEF NoRecords
<1>5. \A i \in JobId :
         /\ Replayed[i] = IF journal[i] # NoRecord THEN journal[i] ELSE snapshot[i]
         /\ Replayed'[i] = IF journal'[i] # NoRecord THEN journal'[i] ELSE snapshot'[i]
  BY DEF Replayed
<1> HIDE DEF J
<1>6. ASSUME NEW i \in JobId
      PROVE  ReplayStep(i, j, R, S)
  <2>1. CASE journal' = J /\ UNCHANGED snapshot
    BY <1>3, <1>5, <2>1 DEF ReplayStep
  <2>2. CASE /\ snapshot' = [k \in JobId |-> IF k \in R THEN S[k] ELSE NoRecord]
             /\ journal' = NoRecords
    BY <1>4, <1>5, <2>2 DEF ReplayStep
  <2>3. CASE /\ snapshot' = [k \in JobId |-> IF k \in R THEN S[k] ELSE NoRecord]
             /\ journal' = J
    BY <1>3, <1>5, <2>3 DEF ReplayStep
  <2> QED
    BY <1>1, <2>1, <2>2, <2>3
<1> QED
  BY <1>1, <1>6

(* DurableInv and TerminalInv are inductive together.                      *)
LEMMA DurableStep ==
    ASSUME "append" \notin Faults
    PROVE  TypeOK /\ DurableInv /\ TerminalInv /\ [Next]_vars
               => DurableInv' /\ TerminalInv'
<1> SUFFICES ASSUME TypeOK, DurableInv, TerminalInv, [Next]_vars
             PROVE  DurableInv' /\ TerminalInv'
  OBVIOUS
<1> USE JobManagerAssumption
<1>t. /\ status \in Records
      /\ seen \in Records
      /\ pc \in [JobId -> Place]
      /\ retained \subseteq JobId
      /\ next \in Nat
  BY DEF TypeOK, Records
<1>c. /\ "queued" \in Active /\ "running" \in Active /\ "interrupted" \in Terminal
      /\ Active \cap Terminal = {} /\ NoRecord \notin Active /\ NoRecord \notin Terminal
      /\ "interrupted" # "queued"
  BY DEF Active, Terminal, NoRecord
<1>r. /\ \A x \in Active : Recovered(x) = "interrupted"
      /\ \A x : x \notin Active => Recovered(x) = x
  BY DEF Recovered
<1>f. \A i \in JobId : pc[i] # "idle" => ~ torn /\ proc \in {"up", "stopping"}
  BY DEF DurableInv, TypeOK
<1>d. UNCHANGED <<journal, snapshot>> => Replayed' = Replayed
  BY DEF Replayed
<1>u. ASSUME UNCHANGED <<proc, next, retained, status, journal, snapshot, torn, seen, pc>>
      PROVE  DurableInv' /\ TerminalInv'
  BY <1>u, <1>d DEF DurableInv, TerminalInv, DurableRecords
<1>i. ASSUME UNCHANGED <<proc, next, retained, status, journal, snapshot, torn, seen>>,
             NEW j \in JobId, NEW p \in Place, pc' = [pc EXCEPT ![j] = p],
             pc[j] # "idle", p \in Unfinished => pc[j] \in Unfinished
      PROVE  DurableInv' /\ TerminalInv'
  <2>1. /\ pc'[j] = p
        /\ \A i \in JobId : i # j => pc'[i] = pc[i]
    BY <1>i, <1>t
  <2>2. DurableInv'
    BY <1>i, <1>d, <1>f, <2>1 DEF DurableInv, DurableRecords
  <2>3. TerminalInv'
    BY <1>i, <1>d, <2>1 DEF TerminalInv
  <2> QED BY <2>2, <2>3
<1>1. ASSUME NEW r \in Resource \cup {NoResource}, NEW k \in Key \cup {NoKey},
             StartWithOptions(r, k)
      PROVE  DurableInv' /\ TerminalInv'
  <2>1. next \in JobId
    BY <1>1 DEF StartWithOptions, TypeOK, JobId
  <2>2. /\ proc = "up" /\ proc' = "up"
        /\ status' = [status EXCEPT ![next] = "queued"]
        /\ seen' = [seen EXCEPT ![next] = "queued"]
        /\ pc' = [pc EXCEPT ![next] = "acquire"]
        /\ next' = next + 1
    BY <1>1 DEF StartWithOptions
  <2>3. retained' \subseteq retained \cup {next}
    BY <1>1, TrimKeepsActive DEF StartWithOptions
  <2>4. status' \in Records /\ retained' \in SUBSET JobId /\ status'[next] = "queued"
    BY <1>t, <1>c, <2>1, <2>2, <2>3 DEF Records, Status
  <2>5. /\ torn' = FALSE
        /\ \A i \in JobId :
               \/ i # next /\ Replayed'[i] = Replayed[i]
               \/ i \in retained' /\ Replayed'[i] = status'[i]
               \/ i \notin retained' /\ Replayed'[i] = NoRecord
               \/ i = next
    <3>1. persistLocked(next, retained', status')
      BY <1>1 DEF StartWithOptions
    <3>2. status'[next] # NoRecord
      BY <1>c, <2>4
    <3>3. torn' = FALSE /\ \A i \in JobId : ReplayStep(i, next, retained', status')
      BY <2>1, <2>4, <3>1, <3>2, PersistReplay
    <3> QED
      BY <3>3 DEF ReplayStep
  <2>6. /\ \A i \in JobId : i # next =>
               status'[i] = status[i] /\ seen'[i] = seen[i] /\ pc'[i] = pc[i]
        /\ seen'[next] = "queued" /\ pc'[next] = "acquire"
    BY <1>t, <2>1, <2>2 DEF Records
  <2>7. DurableInv'
    BY <1>t, <1>c, <2>1, <2>2, <2>3, <2>4, <2>5, <2>6
       DEF DurableInv, DurableRecords
  <2>8. TerminalInv'
    <3>1. \A i \in JobId : i >= next' => i >= next /\ i # next
      BY <1>t, <2>1, <2>2 DEF JobId
    <3>2. \A i \in JobId : i >= next' =>
             /\ seen'[i] = NoRecord /\ Replayed'[i] = NoRecord
             /\ pc'[i] = "idle" /\ i \notin retained'
      BY <2>3, <2>5, <2>6, <3>1 DEF TerminalInv
    <3>3. \A i \in JobId : (i \in retained' \/ pc'[i] \in Unfinished)
             => seen'[i] = status'[i]
      BY <2>2, <2>3, <2>4, <2>6 DEF TerminalInv
    <3>4. \A i \in JobId : (seen'[i] \in Terminal /\ Replayed'[i] # NoRecord)
             => Recovered(Replayed'[i]) = seen'[i]
      BY <1>c, <1>r, <2>5, <2>6, <3>3 DEF TerminalInv
    <3> QED
      BY <2>2, <3>2, <3>3, <3>4 DEF TerminalInv
  <2> QED BY <2>7, <2>8
<1>2. ASSUME NEW j \in JobId, Cancel(j) PROVE DurableInv' /\ TerminalInv'
  BY <1>2, <1>u DEF Cancel, diskVars
<1>3. ASSUME NEW j \in JobId,
             AcquireResource(j) \/ AcquireCancelled(j) \/ TakeSlot(j)
               \/ SlotCancelled(j) \/ FunctionReturns(j) \/ releaseSlot(j)
               \/ releaseResource(j)
      PROVE  DurableInv' /\ TerminalInv'
  BY <1>3, <1>i DEF AcquireResource, AcquireCancelled, TakeSlot, SlotCancelled,
     FunctionReturns, releaseSlot, releaseResource, Goto, jobVars, diskVars,
     Unfinished, Place
(* Any step of an unfinished job that persists its record: markRunning,    *)
(* appendLog and finish.                                                   *)
<1>p. ASSUME NEW j \in JobId, pc[j] \in Unfinished, NEW s \in Status, NEW p \in Place,
             p \in Unfinished => s \in Active,
             UNCHANGED <<proc, next>>,
             status' = [status EXCEPT ![j] = s],
             seen' = [seen EXCEPT ![j] = s],
             pc' = [pc EXCEPT ![j] = p],
             retained' \subseteq retained,
             persistLocked(j, retained', status')
      PROVE  DurableInv' /\ TerminalInv'
  <2>1. ~ torn /\ proc \in {"up", "stopping"} /\ pc[j] # "idle"
    BY <1>f, <1>p DEF Unfinished
  <2>2. /\ \A i \in JobId : i # j =>
               status'[i] = status[i] /\ seen'[i] = seen[i] /\ pc'[i] = pc[i]
        /\ status'[j] = s /\ seen'[j] = s /\ pc'[j] = p
    BY <1>t, <1>p DEF Records
  <2>3. status' \in Records /\ retained' \in SUBSET JobId
    BY <1>t, <1>p DEF Records
  <2>4. /\ torn' = FALSE
        /\ \A i \in JobId :
               \/ i # j /\ Replayed'[i] = Replayed[i]
               \/ i \in retained' /\ Replayed'[i] = status'[i]
               \/ i \notin retained' /\ Replayed'[i] = NoRecord
               \/ i = j /\ Replayed'[i] = status'[i]
    <3>1. status'[j] # NoRecord
      BY <1>c, <1>p, <2>2 DEF Status
    <3>2. torn' = FALSE /\ \A i \in JobId : ReplayStep(i, j, retained', status')
      BY <1>p, <2>3, <3>1, PersistReplay
    <3> QED
      BY <2>1, <3>2 DEF ReplayStep
  <2>5. ~ (j >= next)
    BY <2>1 DEF TerminalInv
  <2>6. DurableInv'
    <3>1. \A i \in JobId : pc'[i] \in Unfinished => status'[i] \in Active
      BY <1>p, <2>2 DEF DurableInv
    <3>2. \A i \in retained' : status'[i] # "queued"
             => Recovered(Replayed'[i]) = Recovered(status'[i])
      BY <1>p, <1>t, <2>1, <2>2, <2>3, <2>4 DEF DurableInv, DurableRecords
    <3> QED
      BY <1>p, <2>1, <2>4, <3>1, <3>2 DEF DurableInv, DurableRecords
  <2>7. TerminalInv'
    <3>1. \A i \in JobId : i >= next' =>
             /\ seen'[i] = NoRecord /\ Replayed'[i] = NoRecord
             /\ pc'[i] = "idle" /\ i \notin retained'
      BY <1>p, <2>2, <2>4, <2>5 DEF TerminalInv
    <3>2. \A i \in JobId : (i \in retained' \/ pc'[i] \in Unfinished)
             => seen'[i] = status'[i]
      BY <1>p, <2>1, <2>2 DEF TerminalInv
    <3>3. \A i \in JobId : (seen'[i] \in Terminal /\ Replayed'[i] # NoRecord)
             => Recovered(Replayed'[i]) = seen'[i]
      BY <1>c, <1>r, <2>2, <2>4, <3>2 DEF TerminalInv
    <3> QED
      BY <1>p, <2>1, <3>1, <3>2, <3>3 DEF TerminalInv
  <2> QED BY <2>6, <2>7
<1>4. ASSUME NEW j \in JobId, markRunning(j) PROVE DurableInv' /\ TerminalInv'
  <2>1. CASE status[j] = "queued"
    <3>1. /\ pc[j] \in Unfinished /\ UNCHANGED <<proc, next, retained>>
          /\ status' = [status EXCEPT ![j] = "running"]
          /\ seen' = [seen EXCEPT ![j] = "running"]
          /\ pc' = [pc EXCEPT ![j] = "exec"]
          /\ persistLocked(j, retained', status')
      BY <1>4, <2>1 DEF markRunning, Goto, Unfinished
    <3>2. "running" \in Status /\ "exec" \in Place
      BY <1>c DEF Status, Place
    <3> QED
      BY <1>c, <1>p, <3>1, <3>2
  <2>2. CASE status[j] # "queued"
    BY <1>4, <1>i, <2>2 DEF markRunning, Goto, diskVars, Unfinished, Place
  <2> QED BY <2>1, <2>2
<1>5. ASSUME NEW j \in JobId, appendLog(j) PROVE DurableInv' /\ TerminalInv'
  <2>1. pc[j] \in Unfinished /\ pc[j] # "idle"
    BY <1>5 DEF appendLog, Unfinished
  <2>2. status[j] \in Active /\ seen[j] = status[j]
    BY <1>f, <2>1 DEF DurableInv, TerminalInv
  <2>3. /\ status' = [status EXCEPT ![j] = status[j]]
        /\ seen' = [seen EXCEPT ![j] = status[j]]
        /\ pc' = [pc EXCEPT ![j] = pc[j]]
        /\ UNCHANGED <<proc, next, retained>>
    BY <1>5, <1>t, <2>2 DEF appendLog, jobVars, goroutineVars, Records
  <2>4. persistLocked(j, retained', status')
    BY <1>5, <2>3 DEF appendLog, jobVars, persistLocked, compactLocked
  <2> QED
    BY <1>p, <1>t, <2>1, <2>2, <2>3, <2>4 DEF Status
<1>6. ASSUME NEW j \in JobId, finish(j) PROVE DurableInv' /\ TerminalInv'
  <2>1. AfterFinish(pc[j]) \in Place /\ AfterFinish(pc[j]) \notin Unfinished
    BY <1>6 DEF finish, AfterFinish, Place, Unfinished
  <2>2. pc[j] \in Unfinished /\ pc[j] # "idle"
    BY <1>6 DEF finish, Unfinished
  <2>3. CASE status[j] \in Terminal \/ proc = "stopping"
    BY <1>6, <1>i, <2>1, <2>2, <2>3 DEF finish, Goto, diskVars
  <2>4. CASE ~ (status[j] \in Terminal \/ proc = "stopping")
    <3>1. /\ UNCHANGED <<proc, next>>
          /\ status' = [status EXCEPT ![j] = verdict(j)]
          /\ seen' = [seen EXCEPT ![j] = verdict(j)]
          /\ pc' = [pc EXCEPT ![j] = AfterFinish(pc[j])]
          /\ persistLocked(j, retained', status')
      BY <1>6, <2>4 DEF finish, Goto
    <3>2. retained' \subseteq retained
      BY <1>6, <2>4, TrimKeepsActive DEF finish
    <3>3. verdict(j) \in Status
      BY DEF verdict, Status, Terminal
    <3> QED
      BY <1>p, <2>1, <2>2, <3>1, <3>2, <3>3
  <2> QED BY <2>3, <2>4
<1>7. ASSUME NEW j \in JobId, ShutdownCancels(j) PROVE DurableInv' /\ TerminalInv'
  BY <1>7, <1>u DEF ShutdownCancels, jobVars, diskVars
<1>8. ASSUME NEW j \in JobId, InterruptRecovered(j) PROVE DurableInv' /\ TerminalInv'
  <2>1. /\ proc = "loading" /\ UNCHANGED <<proc, next, retained, seen, pc>>
        /\ j \in retained /\ status[j] \in Active
        /\ status' = [status EXCEPT ![j] = "interrupted"]
        /\ persistLocked(j, retained, status')
    BY <1>8 DEF InterruptRecovered, ActiveJobs, goroutineVars
  <2>2. status' \in Records /\ retained \in SUBSET JobId /\ status'[j] = "interrupted"
    BY <1>t, <1>c, <2>1 DEF Records, Status
  <2>3. \A i \in JobId : i # j => status'[i] = status[i]
    BY <1>t, <2>1 DEF Records
  <2>4. /\ torn' = FALSE
        /\ \A i \in JobId :
               \/ Replayed'[i] = Replayed[i]
               \/ i \in retained /\ Replayed'[i] = status'[i]
               \/ i \notin retained /\ Replayed'[i] = NoRecord
    <3>1. status'[j] # NoRecord
      BY <1>c, <2>2
    <3>2. torn' = FALSE /\ \A i \in JobId : ReplayStep(i, j, retained, status')
      BY <1>8, <2>2, <3>1, PersistReplay DEF InterruptRecovered
    <3> QED
      BY <2>1, <3>2 DEF ReplayStep
  <2>5. \A i \in retained : Recovered(status'[i]) = Recovered(status[i])
    BY <1>t, <1>c, <1>r, <2>1, <2>2, <2>3
  <2>6. \A i \in JobId : pc'[i] = "idle"
    BY <2>1 DEF DurableInv
  <2>7. "idle" \notin Unfinished
    BY DEF Unfinished
  <2>8. DurableInv'
    BY <1>t, <2>1, <2>4, <2>5, <2>6, <2>7 DEF DurableInv, DurableRecords
  <2>9. \A i \in JobId : i >= next => Replayed'[i] = NoRecord
    BY <2>4 DEF TerminalInv
  <2>10. \A i \in retained : seen[i] \in Terminal => Recovered(status'[i]) = seen[i]
    BY <2>1, <2>5 DEF TerminalInv
  <2>11. \A i \in JobId : (seen[i] \in Terminal /\ Replayed'[i] # NoRecord)
            => Recovered(Replayed'[i]) = seen[i]
    BY <2>4, <2>10 DEF TerminalInv
  <2>12. TerminalInv'
    BY <2>1, <2>9, <2>10, <2>11 DEF TerminalInv
  <2> QED BY <2>8, <2>12
<1>9. CASE Shutdown
  BY <1>9, <1>d DEF Shutdown, diskVars, DurableInv, TerminalInv, DurableRecords
<1>10. CASE ShutdownDone \/ ShutdownTimeout \/ Crash
  <2>1. /\ proc' = "down" /\ retained' = {}
        /\ \A i \in JobId : pc'[i] = "idle"
        /\ UNCHANGED <<next, journal, snapshot, seen>>
    BY <1>10 DEF ShutdownDone, ShutdownTimeout, Crash, MemoryLost, Nowhere
  <2> QED
    BY <1>d, <2>1 DEF DurableInv, TerminalInv, DurableRecords, Unfinished
<1>11. CASE LoadFiles
  <2>1. /\ proc = "down" /\ proc' = "loading" /\ status' = Replayed
        /\ retained' = {j \in JobId : Replayed[j] # NoRecord}
        /\ UNCHANGED <<next, journal, snapshot, torn, seen, pc>>
    BY <1>11 DEF LoadFiles, goroutineVars, diskVars
  <2>2. \A i \in JobId : pc'[i] = "idle" /\ pc'[i] \notin Unfinished
    BY <2>1 DEF DurableInv, Unfinished
  <2> QED
    BY <1>d, <2>1, <2>2 DEF DurableInv, TerminalInv, DurableRecords
<1>12. CASE LoadTrim
  <2>1. /\ proc = "loading" /\ proc' = "up"
        /\ \A i \in retained : status[i] \notin Active
        /\ seen' = [j \in JobId |-> IF j \in retained' THEN status[j] ELSE seen[j]]
        /\ UNCHANGED <<next, status, journal, snapshot, torn, pc>>
    BY <1>12 DEF LoadTrim, goroutineVars, diskVars, ActiveJobs
  <2>2. retained' \subseteq retained
    BY <1>12, TrimKeepsActive DEF LoadTrim
  <2>3. \A i \in JobId : pc'[i] = "idle" /\ pc'[i] \notin Unfinished
    BY <2>1 DEF DurableInv, Unfinished
  <2>4. \A i \in retained' : Recovered(Replayed'[i]) = status[i]
    BY <1>d, <1>r, <2>1, <2>2 DEF DurableInv
  <2>5. DurableInv'
    BY <1>d, <1>r, <2>1, <2>2, <2>3, <2>4 DEF DurableInv, DurableRecords
  <2>6. TerminalInv'
    BY <1>d, <1>t, <2>1, <2>2, <2>3, <2>4 DEF TerminalInv
  <2> QED BY <2>5, <2>6
<1>13. CASE UNCHANGED vars
  BY <1>13, <1>u DEF vars, goroutineVars, diskVars
<1> QED
  BY <1>1, <1>2, <1>3, <1>4, <1>5, <1>6, <1>7, <1>8, <1>9, <1>10, <1>11, <1>12, <1>13
     DEF Next, JobStep

(* A manager without jobs and files satisfies both invariants.             *)
LEMMA DurableInit == Init => DurableInv /\ TerminalInv
BY DEF Init, DurableInv, DurableRecords, TerminalInv, Replayed, NoRecords, Nowhere,
   NoRecord, Terminal, Unfinished

(* As long as appends to the journal succeed, a crash at any moment, in    *)
(* the middle of a compaction or of a recovery too, brings every retained  *)
(* job past the queue back as memory had it.                               *)
THEOREM RecordsAreDurable ==
    ASSUME "append" \notin Faults
    PROVE  Spec => []DurableRecords
<1>1. DurableInv => DurableRecords
  BY DEF DurableInv
<1> QED
  BY <1>1, TypeCorrect, DurableInit, DurableStep, PTL DEF Spec

(* As long as appends to the journal succeed, no step of the manager, its  *)
(* shutdown or its recovery revises a terminal status a client has read.   *)
THEOREM TerminalStatusIsFinal ==
    ASSUME "append" \notin Faults
    PROVE  Spec => TerminalRemainsTerminal
<1>1. ASSUME TypeOK, DurableInv, TerminalInv, [Next]_vars
      PROVE  [\A j \in JobId : seen[j] \in Terminal => seen'[j] = seen[j]]_vars
  <2> SUFFICES ASSUME NEW j \in JobId, seen[j] \in Terminal, Next
               PROVE  seen'[j] = seen[j]
    BY <1>1
  <2> USE <1>1
  <2>t. seen \in Records /\ status \in Records
    BY DEF TypeOK, Records
  <2>c. Active \cap Terminal = {} /\ NoRecord \notin Terminal /\ "queued" \notin Terminal
    BY DEF Active, Terminal, NoRecord
  <2>1. ASSUME NEW r \in Resource \cup {NoResource}, NEW k \in Key \cup {NoKey},
               StartWithOptions(r, k)
        PROVE  seen'[j] = seen[j]
    <3>1. seen' = [seen EXCEPT ![next] = "queued"] /\ next \in Nat
      BY <2>1 DEF StartWithOptions, TypeOK
    <3>2. j # next
      BY <2>c, <3>1 DEF TerminalInv
    <3> QED
      BY <2>t, <3>1, <3>2 DEF Records
  <2>2. ASSUME NEW i \in JobId, markRunning(i) PROVE seen'[j] = seen[j]
    <3>1. pc[i] \in Unfinished /\ pc[i] # "idle"
      BY <2>2 DEF markRunning, Unfinished
    <3>2. seen[i] = status[i]
      BY <3>1 DEF TerminalInv, DurableInv, TypeOK
    <3> QED
      BY <2>2, <2>t, <2>c, <3>2 DEF markRunning, Records
  <2>3. ASSUME NEW i \in JobId, finish(i) PROVE seen'[j] = seen[j]
    <3>1. pc[i] \in Unfinished /\ pc[i] # "idle"
      BY <2>3 DEF finish, Unfinished
    <3>2. seen[i] = status[i]
      BY <3>1 DEF TerminalInv, DurableInv, TypeOK
    <3> QED
      BY <2>3, <2>t, <3>2 DEF finish, Records
  <2>4. CASE LoadTrim
    <3>1. /\ proc = "loading"
          /\ \A i \in retained : status[i] \notin Active
          /\ seen'[j] = IF j \in retained' THEN status[j] ELSE seen[j]
      BY <2>4 DEF LoadTrim, ActiveJobs
    <3>2. retained' \subseteq retained
      BY <2>4, TrimKeepsActive DEF LoadTrim
    <3>3. j \in retained' => status[j] = seen[j]
      BY <3>1, <3>2 DEF TerminalInv, Recovered
    <3> QED
      BY <3>1, <3>3
  <2>5. ASSUME NEW i \in JobId,
               Cancel(i) \/ AcquireResource(i) \/ AcquireCancelled(i) \/ TakeSlot(i)
                 \/ SlotCancelled(i) \/ appendLog(i) \/ FunctionReturns(i)
                 \/ releaseSlot(i) \/ releaseResource(i) \/ ShutdownCancels(i)
                 \/ InterruptRecovered(i)
        PROVE  seen'[j] = seen[j]
    BY <2>5 DEF Cancel, AcquireResource, AcquireCancelled, TakeSlot, SlotCancelled,
       appendLog, FunctionReturns, releaseSlot, releaseResource, ShutdownCancels,
       InterruptRecovered
  <2>6. CASE Shutdown \/ ShutdownDone \/ ShutdownTimeout \/ Crash \/ LoadFiles
    BY <2>6 DEF Shutdown, ShutdownDone, ShutdownTimeout, Crash, MemoryLost, LoadFiles
  <2> QED
    BY <2>1, <2>2, <2>3, <2>4, <2>5, <2>6 DEF Next, JobStep
<1> QED
  BY <1>1, TypeCorrect, DurableInit, DurableStep, PTL DEF Spec, TerminalRemainsTerminal

-----------------------------------------------------------------------------
(* Goroutines, slots and keys.                                             *)

(* Where a step of job j can take its goroutine.                           *)
LEMMA JobStepMoves ==
    ASSUME TypeOK, NEW j \in JobId, JobStep(j)
    PROVE  /\ next' = next /\ proc' = proc
           /\ \/ pc' = pc
              \/ pc[j] # "idle" /\ \E p \in Place : pc' = [pc EXCEPT ![j] = p]
<1> USE DEF Goto, jobVars, goroutineVars, Place
<1>1. CASE Cancel(j) \/ appendLog(j) \/ ShutdownCancels(j) \/ InterruptRecovered(j)
  BY <1>1 DEF Cancel, appendLog, ShutdownCancels, InterruptRecovered
<1>2. CASE AcquireResource(j) \/ AcquireCancelled(j) \/ TakeSlot(j) \/ SlotCancelled(j)
  BY <1>2 DEF AcquireResource, AcquireCancelled, TakeSlot, SlotCancelled
<1>3. CASE markRunning(j) \/ FunctionReturns(j) \/ releaseSlot(j) \/ releaseResource(j)
  BY <1>3 DEF markRunning, FunctionReturns, releaseSlot, releaseResource
<1>4. CASE finish(j)
  <2>1. AfterFinish(pc[j]) \in Place
    BY <1>4 DEF finish, AfterFinish
  <2> QED
    BY <1>4, <2>1 DEF finish
<1> QED
  BY <1>1, <1>2, <1>3, <1>4 DEF JobStep

(* IdleInv is inductive.                                                   *)
LEMMA IdleStep == TypeOK /\ IdleInv /\ [Next]_vars => IdleInv'
<1> SUFFICES ASSUME TypeOK, IdleInv, [Next]_vars PROVE IdleInv'
  OBVIOUS
<1> USE JobManagerAssumption
<1>t. pc \in [JobId -> Place] /\ next \in Nat
  BY DEF TypeOK
<1>1. ASSUME NEW r \in Resource \cup {NoResource}, NEW k \in Key \cup {NoKey},
             StartWithOptions(r, k)
      PROVE  IdleInv'
  <2>1. /\ proc' = "up" /\ next' = next + 1
        /\ \A j \in JobId : j # next => pc'[j] = pc[j]
    BY <1>1, <1>t DEF StartWithOptions
  <2> QED
    BY <1>t, <2>1 DEF IdleInv, JobId
<1>2. ASSUME NEW j \in JobId, JobStep(j) PROVE IdleInv'
  BY <1>2, <1>t, JobStepMoves DEF IdleInv
<1>3. CASE Shutdown \/ LoadFiles \/ LoadTrim \/ UNCHANGED vars
  BY <1>3 DEF Shutdown, LoadFiles, LoadTrim, vars, goroutineVars, IdleInv
<1>4. CASE ShutdownDone \/ ShutdownTimeout \/ Crash
  BY <1>4 DEF ShutdownDone, ShutdownTimeout, Crash, MemoryLost, Nowhere, IdleInv
<1> QED
  BY <1>1, <1>2, <1>3, <1>4 DEF Next

(* IdleInv holds always.                                                   *)
LEMMA IdleInductive == Spec => []IdleInv
<1>1. Init => IdleInv
  BY DEF Init, Nowhere, IdleInv
<1> QED
  BY <1>1, TypeCorrect, IdleStep, PTL DEF Spec

(* The jobs that hold a slot are finitely many.                            *)
LEMMA SlotHoldersFinite == IsFiniteSet(SlotHolders)
<1>1. IsFiniteSet(JobId)
  BY FS_Interval, JobManagerAssumption DEF JobId
<1> QED
  BY <1>1, FS_Subset DEF SlotHolders

(* SlotInv is inductive: TakeSlot adds one holder with its token and       *)
(* releaseSlot takes one away, on every path through run.                  *)
LEMMA SlotStep == TypeOK /\ IdleInv /\ SlotInv /\ [Next]_vars => SlotInv'
<1> SUFFICES ASSUME TypeOK, IdleInv, SlotInv, [Next]_vars PROVE SlotInv'
  OBVIOUS
<1> USE JobManagerAssumption
<1>t. pc \in [JobId -> Place] /\ slots \in Nat
  BY DEF TypeOK
<1>s. ASSUME SlotHolders' = SlotHolders, slots' = slots PROVE SlotInv'
  BY <1>s DEF SlotInv
<1>1. ASSUME NEW r \in Resource \cup {NoResource}, NEW k \in Key \cup {NoKey},
             StartWithOptions(r, k)
      PROVE  SlotInv'
  <2>1. next \in JobId /\ pc[next] = "idle"
    BY <1>1 DEF StartWithOptions, TypeOK, JobId, IdleInv
  <2> QED
    BY <1>1, <1>s, <1>t, <2>1 DEF StartWithOptions, SlotHolders
<1>2. ASSUME NEW j \in JobId, TakeSlot(j) PROVE SlotInv'
  <2>1. j \notin SlotHolders /\ SlotHolders' = SlotHolders \cup {j} /\ slots' = slots + 1
    BY <1>2, <1>t DEF TakeSlot, Goto, SlotHolders
  <2>2. Cardinality(SlotHolders \cup {j}) = Cardinality(SlotHolders) + 1
    BY <2>1, SlotHoldersFinite, FS_AddElement
  <2> QED
    BY <2>1, <2>2 DEF SlotInv
<1>3. ASSUME NEW j \in JobId, releaseSlot(j) PROVE SlotInv'
  <2>1. j \in SlotHolders /\ SlotHolders' = SlotHolders \ {j} /\ slots' = slots - 1
    BY <1>3, <1>t DEF releaseSlot, Goto, SlotHolders
  <2>2. Cardinality(SlotHolders \ {j}) = Cardinality(SlotHolders) - 1
    BY <2>1, SlotHoldersFinite, FS_RemoveElement
  <2> QED
    BY <2>1, <2>2 DEF SlotInv
<1>4. ASSUME NEW j \in JobId,
             \/ Cancel(j) \/ appendLog(j) \/ ShutdownCancels(j) \/ InterruptRecovered(j)
             \/ AcquireResource(j) \/ AcquireCancelled(j) \/ SlotCancelled(j)
             \/ markRunning(j) \/ FunctionReturns(j) \/ releaseResource(j)
      PROVE  SlotInv'
  BY <1>4, <1>s, <1>t
     DEF Cancel, appendLog, ShutdownCancels, InterruptRecovered, AcquireResource,
         AcquireCancelled, SlotCancelled, markRunning, FunctionReturns, releaseResource,
         Goto, jobVars, goroutineVars, SlotHolders
<1>5. ASSUME NEW j \in JobId, finish(j) PROVE SlotInv'
  BY <1>5, <1>s, <1>t DEF finish, Goto, AfterFinish, SlotHolders
<1>6. CASE Shutdown \/ LoadFiles \/ LoadTrim \/ UNCHANGED vars
  BY <1>6, <1>s DEF Shutdown, LoadFiles, LoadTrim, vars, goroutineVars, SlotHolders
<1>7. CASE ShutdownDone \/ ShutdownTimeout \/ Crash
  <2>1. SlotHolders' = {} /\ slots' = 0
    BY <1>7 DEF ShutdownDone, ShutdownTimeout, Crash, MemoryLost, Nowhere, SlotHolders
  <2> QED
    BY <2>1, FS_EmptySet DEF SlotInv
<1> QED
  BY <1>1, <1>2, <1>3, <1>4, <1>5, <1>6, <1>7 DEF Next, JobStep

(* At most MaxConcurrent functions execute at the same time, whatever is   *)
(* cancelled while it waits or runs.                                       *)
THEOREM SlotsAreBounded == Spec => []SlotBound
<1>1. Init => SlotInv
  <2> SUFFICES ASSUME Init PROVE SlotInv
    OBVIOUS
  <2>1. SlotHolders = {}
    BY DEF Init, Nowhere, SlotHolders
  <2> QED
    BY <2>1, FS_EmptySet DEF Init, SlotInv
<1>2. TypeOK /\ SlotInv => SlotBound
  <2> SUFFICES ASSUME TypeOK, SlotInv PROVE SlotBound
    OBVIOUS
  <2> DEFINE E == {j \in JobId : pc[j] = "exec"}
  <2>1. E \subseteq SlotHolders
    BY DEF SlotHolders
  <2>2. IsFiniteSet(E) /\ Cardinality(E) <= Cardinality(SlotHolders)
    BY <2>1, SlotHoldersFinite, FS_Subset
  <2>3. Cardinality(E) \in Nat
    BY <2>2, FS_CardinalityType
  <2>4. Cardinality(SlotHolders) \in Nat /\ Cardinality(SlotHolders) <= MaxConcurrent
    BY JobManagerAssumption DEF SlotInv, TypeOK
  <2> QED
    BY <2>2, <2>3, <2>4, JobManagerAssumption DEF SlotBound
<1> QED
  BY <1>1, <1>2, TypeCorrect, IdleInductive, SlotStep, PTL DEF Spec

(* KeyInv is inductive: StartWithOptions looks for the key among the       *)
(* retained jobs, and no trim drops a job whose goroutine is under way.    *)
LEMMA KeyStep == TypeOK /\ IdleInv /\ KeyInv /\ [Next]_vars => KeyInv'
<1> SUFFICES ASSUME TypeOK, IdleInv, KeyInv, [Next]_vars PROVE KeyInv'
  OBVIOUS
<1> USE JobManagerAssumption
<1>t. /\ pc \in [JobId -> Place]
      /\ status \in Records
      /\ key \in [JobId -> Key \cup {NoKey}]
      /\ retained \subseteq JobId
  BY DEF TypeOK, Records
<1>c. "idle" \notin Unfinished /\ Active \cap Terminal = {}
  BY DEF Unfinished, Active, Terminal
<1>i. ASSUME UNCHANGED <<retained, status, key>>,
             NEW j \in JobId, NEW p \in Place, pc' = [pc EXCEPT ![j] = p],
             p \in Unfinished => pc[j] \in Unfinished
      PROVE  KeyInv'
  BY <1>i, <1>t DEF KeyInv
<1>u. ASSUME UNCHANGED <<retained, status, key, pc>> PROVE KeyInv'
  BY <1>u DEF KeyInv
<1>o. ASSUME \A j \in JobId : pc'[j] = "idle" PROVE KeyInv'
  BY <1>o, <1>c DEF KeyInv
<1>1. ASSUME NEW r \in Resource \cup {NoResource}, NEW k \in Key \cup {NoKey},
             StartWithOptions(r, k)
      PROVE  KeyInv'
  <2>1. next \in JobId
    BY <1>1 DEF StartWithOptions, TypeOK, JobId
  <2>2. /\ \A i \in JobId : i # next =>
               pc'[i] = pc[i] /\ status'[i] = status[i] /\ key'[i] = key[i]
        /\ status'[next] = "queued" /\ key'[next] = k
        /\ k # NoKey => \A i \in retained : key[i] # k
    BY <1>1, <1>t, <2>1 DEF StartWithOptions, Records
  <2>3. \A i \in retained \cup {next} : status'[i] \in Active => i \in retained'
    <3> DEFINE R == retained \cup {next}
    <3>1. retained' = trimLocked(R, status')
      BY <1>1 DEF StartWithOptions
    <3> HIDE DEF R
    <3>2. \A i \in R : status'[i] \notin Terminal => i \in retained'
      BY <3>1, TrimKeepsActive
    <3> QED
      BY <1>c, <3>2 DEF R
  <2>4. "queued" \in Active
    BY DEF Active
  <2>5. \A i \in JobId : pc'[i] \in Unfinished => i \in retained' /\ status'[i] \in Active
    BY <2>2, <2>3, <2>4 DEF KeyInv
  <2>6. \A i \in JobId : (i # next /\ pc'[i] \in Unfinished /\ k # NoKey) => key'[i] # k
    BY <2>2 DEF KeyInv
  <2> QED
    BY <2>2, <2>5, <2>6 DEF KeyInv
<1>2. ASSUME NEW j \in JobId, Cancel(j) \/ appendLog(j) \/ ShutdownCancels(j)
      PROVE  KeyInv'
  BY <1>2, <1>u DEF Cancel, appendLog, ShutdownCancels, jobVars, goroutineVars
<1>3. ASSUME NEW j \in JobId,
             AcquireResource(j) \/ AcquireCancelled(j) \/ TakeSlot(j) \/ SlotCancelled(j)
      PROVE  KeyInv'
  BY <1>3, <1>i DEF AcquireResource, AcquireCancelled, TakeSlot, SlotCancelled, Goto,
     jobVars, Place, Unfinished
<1>4. ASSUME NEW j \in JobId, FunctionReturns(j) \/ releaseSlot(j) \/ releaseResource(j)
      PROVE  KeyInv'
  BY <1>4, <1>i DEF FunctionReturns, releaseSlot, releaseResource, Goto, jobVars, Place,
     Unfinished
<1>5. ASSUME NEW j \in JobId, markRunning(j) PROVE KeyInv'
  <2>1. /\ UNCHANGED <<retained, key>>
        /\ pc[j] \in Unfinished
        /\ \A i \in JobId : i # j => pc'[i] = pc[i] /\ status'[i] = status[i]
        /\ status'[j] \in Active \/ status'[j] = status[j]
    BY <1>5, <1>t DEF markRunning, Goto, Records, Unfinished, Active
  <2> QED
    BY <2>1 DEF KeyInv
<1>6. ASSUME NEW j \in JobId, finish(j) PROVE KeyInv'
  <2>1. pc'[j] \notin Unfinished
    BY <1>6, <1>t DEF finish, Goto, AfterFinish, Unfinished
  <2>2. /\ key' = key
        /\ \A i \in JobId : i # j => pc'[i] = pc[i] /\ status'[i] = status[i]
    BY <1>6, <1>t DEF finish, Goto, Records
  <2>3. \A i \in retained : status'[i] \in Active => i \in retained'
    BY <1>6, <1>c, TrimKeepsActive DEF finish
  <2> QED
    BY <2>1, <2>2, <2>3 DEF KeyInv
<1>7. ASSUME NEW j \in JobId, InterruptRecovered(j) PROVE KeyInv'
  BY <1>7, <1>o DEF InterruptRecovered, goroutineVars, IdleInv
<1>8. CASE Shutdown \/ UNCHANGED vars
  BY <1>8, <1>u DEF Shutdown, vars, goroutineVars
<1>9. CASE LoadFiles \/ LoadTrim
  BY <1>9, <1>o DEF LoadFiles, LoadTrim, goroutineVars, IdleInv
<1>10. CASE ShutdownDone \/ ShutdownTimeout \/ Crash
  BY <1>10, <1>o DEF ShutdownDone, ShutdownTimeout, Crash, MemoryLost, Nowhere
<1> QED
  BY <1>1, <1>2, <1>3, <1>4, <1>5, <1>6, <1>7, <1>8, <1>9, <1>10 DEF Next, JobStep

(* Two jobs with the same idempotency key never execute at the same time,  *)
(* however small MaxHistory is and whatever the disk does.                 *)
THEOREM KeysRunOnce == Spec => []OneRunPerKey
<1>1. Init => KeyInv
  BY DEF Init, Nowhere, KeyInv, Unfinished
<1>2. KeyInv => OneRunPerKey
  BY DEF KeyInv, OneRunPerKey, Unfinished
<1> QED
  BY <1>1, <1>2, TypeCorrect, IdleInductive, KeyStep, PTL DEF Spec

-----------------------------------------------------------------------------
(* Recovery.                                                               *)

(* What persistLocked of job j may make a restart read of job i, memory    *)
(* holding jobs R with statuses S: what it read before, nothing, or what   *)
(* memory holds.                                                           *)
ValueStep(i, j, R, S) ==
    \/ Replayed'[i] = Replayed[i]
    \/ Replayed'[i] = NoRecord
    \/ i \in R \cup {j} /\ Replayed'[i] = S[i]

(* persistLocked does nothing else to what a restart reads, whatever the   *)
(* faults, failed appends included.                                        *)
LEMMA PersistValues ==
    ASSUME TypeOK, NEW j \in JobId, NEW R \in SUBSET JobId, NEW S \in Records,
           S[j] # NoRecord, persistLocked(j, R, S)
    PROVE  \A i \in JobId : ValueStep(i, j, R, S)
<1> SUFFICES ASSUME NEW i \in JobId PROVE ValueStep(i, j, R, S)
  OBVIOUS
<1> DEFINE J == IF torn THEN journal ELSE [journal EXCEPT ![j] = S[j]]
<1>1. \/ UNCHANGED <<journal, snapshot>>
      \/ journal' = J /\ UNCHANGED snapshot
      \/ /\ snapshot' = [k \in JobId |-> IF k \in R THEN S[k] ELSE NoRecord]
         /\ journal' = NoRecords \/ journal' = J
  BY DEF persistLocked, compactLocked
<1>2. journal \in Records /\ NoRecords[i] = NoRecord
  BY DEF TypeOK, Records, NoRecords
<1>3. J[i] = IF i = j /\ ~ torn THEN S[j] ELSE journal[i]
  BY <1>2 DEF Records
<1>4. /\ Replayed[i] = IF journal[i] # NoRecord THEN journal[i] ELSE snapshot[i]
      /\ Replayed'[i] = IF journal'[i] # NoRecord THEN journal'[i] ELSE snapshot'[i]
  BY DEF Replayed
<1> HIDE DEF J
<1>5. CASE UNCHANGED <<journal, snapshot>>
  BY <1>4, <1>5 DEF ValueStep
<1>6. CASE journal' = J /\ UNCHANGED snapshot
  BY <1>3, <1>4, <1>6 DEF ValueStep
<1>7. CASE /\ snapshot' = [k \in JobId |-> IF k \in R THEN S[k] ELSE NoRecord]
           /\ journal' = NoRecords \/ journal' = J
  <2>1. snapshot'[i] = IF i \in R THEN S[i] ELSE NoRecord
    BY <1>7
  <2> QED
    BY <1>2, <1>3, <1>4, <1>7, <2>1 DEF ValueStep
<1> QED
  BY <1>1, <1>5, <1>6, <1>7

(* RecoveryInv is inductive: finish records nothing while the manager is   *)
(* stopping, and what loadState finds active it interrupts before anyone   *)
(* can ask.  No write needs to succeed for that.                           *)
LEMMA RecoveryStep ==
    TypeOK /\ IdleInv /\ KeyInv /\ RecoveryInv /\ [Next]_vars => RecoveryInv'
<1> SUFFICES ASSUME TypeOK, IdleInv, KeyInv, RecoveryInv, [Next]_vars PROVE RecoveryInv'
  OBVIOUS
<1> USE JobManagerAssumption
<1>t. /\ status \in Records
      /\ retained \subseteq JobId /\ owed \subseteq JobId
      /\ next \in Nat
  BY DEF TypeOK, Records
<1>c. /\ "queued" \in Active /\ "running" \in Active /\ "interrupted" \in Terminal
      /\ Active \cap Terminal = {} /\ NoRecord \notin Active /\ NoRecord \notin Terminal
      /\ Active \subseteq Status /\ Terminal \subseteq Status
  BY DEF Active, Terminal, Status, NoRecord
<1>d. UNCHANGED <<journal, snapshot>> => Replayed' = Replayed
  BY DEF Replayed
<1>u. ASSUME UNCHANGED <<proc, next, retained, status, journal, snapshot, owed>>
      PROVE  RecoveryInv'
  BY <1>u, <1>d DEF RecoveryInv, RecoveredAsInterrupted, ActiveJobs
<1>b. \A j \in JobId : pc[j] # "idle" => proc \in {"up", "stopping"} /\ ~ j >= next
  BY DEF IdleInv, TypeOK
<1>p. ASSUME NEW j \in JobId, NEW x \in Status,
             proc \in {"up", "stopping"}, j \in retained, status[j] \in Active,
             UNCHANGED <<proc, next, owed>>,
             status' = [status EXCEPT ![j] = x],
             retained' \subseteq retained,
             \A i \in retained : status'[i] \notin Terminal => i \in retained',
             x \in Active \/ proc = "up",
             persistLocked(j, retained', status')
      PROVE  RecoveryInv'
  <2>1. status' \in Records /\ status'[j] = x /\ x # NoRecord
    BY <1>p, <1>t, <1>c DEF Records, Status
  <2>2. \A i \in JobId : i # j => status'[i] = status[i]
    BY <1>p, <1>t DEF Records
  <2>3. \A i \in JobId : ValueStep(i, j, retained', status')
    <3>1. retained' \in SUBSET JobId
      BY <1>p, <1>t
    <3> QED
      BY <1>p, <2>1, <3>1, PersistValues
  <2>4. \A i \in JobId : i >= next =>
           Replayed'[i] = NoRecord /\ i \notin retained' \cup owed
    BY <1>p, <2>3 DEF RecoveryInv, ValueStep
  <2>5. \A i \in ActiveJobs' : i \in ActiveJobs /\ Replayed'[i] \in Active \cup {NoRecord}
    BY <1>p, <1>t, <2>2, <2>3 DEF RecoveryInv, ActiveJobs, ValueStep
  <2>6. proc = "stopping" => owed \subseteq ActiveJobs'
    BY <1>p, <1>t, <1>c, <2>1, <2>2 DEF RecoveryInv, ActiveJobs
  <2>7. proc = "up" => \A i \in owed \cap retained' : status'[i] = "interrupted"
    BY <1>p, <1>t, <1>c, <2>2 DEF RecoveryInv, RecoveredAsInterrupted
  <2> QED
    BY <1>p, <2>4, <2>5, <2>6, <2>7 DEF RecoveryInv, RecoveredAsInterrupted
<1>1. ASSUME NEW r \in Resource \cup {NoResource}, NEW k \in Key \cup {NoKey},
             StartWithOptions(r, k)
      PROVE  RecoveryInv'
  <2>1. next \in JobId /\ next \notin retained \cup owed
    BY <1>1 DEF StartWithOptions, TypeOK, JobId, RecoveryInv
  <2>2. /\ proc = "up" /\ proc' = "up" /\ next' = next + 1 /\ owed' = owed
        /\ status' = [status EXCEPT ![next] = "queued"]
        /\ persistLocked(next, retained', status')
    BY <1>1 DEF StartWithOptions
  <2>3. retained' \subseteq retained \cup {next}
    BY <1>1, TrimKeepsActive DEF StartWithOptions
  <2>4. status' \in Records /\ status'[next] = "queued"
    BY <1>t, <1>c, <2>1, <2>2 DEF Records
  <2>5. \A i \in JobId : i # next => status'[i] = status[i]
    BY <1>t, <2>2 DEF Records
  <2>6. \A i \in JobId : ValueStep(i, next, retained', status')
    <3>1. retained' \in SUBSET JobId /\ status'[next] # NoRecord
      BY <1>t, <1>c, <2>1, <2>3, <2>4
    <3> QED
      BY <2>1, <2>2, <2>4, <3>1, PersistValues
  <2>7. \A i \in JobId : i >= next' =>
           Replayed'[i] = NoRecord /\ i \notin retained' \cup owed
    <3>1. \A i \in JobId : i >= next' => i >= next /\ i # next
      BY <1>t, <2>2 DEF JobId
    <3> QED
      BY <2>3, <2>6, <3>1 DEF RecoveryInv, ValueStep
  <2>8. \A i \in ActiveJobs' : Replayed'[i] \in Active \cup {NoRecord}
    <3>1. Replayed[next] = NoRecord
      BY <1>t, <2>1 DEF RecoveryInv
    <3> QED
      BY <1>t, <1>c, <2>1, <2>2, <2>3, <2>4, <2>5, <2>6, <3>1
         DEF RecoveryInv, ActiveJobs, ValueStep
  <2>9. \A i \in owed \cap retained' : status'[i] = "interrupted"
    BY <1>t, <2>1, <2>2, <2>3, <2>5 DEF RecoveryInv, RecoveredAsInterrupted
  <2> QED
    BY <2>2, <2>7, <2>8, <2>9 DEF RecoveryInv, RecoveredAsInterrupted
<1>2. ASSUME NEW j \in JobId,
             \/ Cancel(j) \/ AcquireResource(j) \/ AcquireCancelled(j) \/ TakeSlot(j)
             \/ SlotCancelled(j) \/ FunctionReturns(j) \/ releaseSlot(j)
             \/ releaseResource(j) \/ ShutdownCancels(j)
      PROVE  RecoveryInv'
  BY <1>2, <1>u
     DEF Cancel, AcquireResource, AcquireCancelled, TakeSlot, SlotCancelled,
         FunctionReturns, releaseSlot, releaseResource, ShutdownCancels, jobVars, diskVars
<1>3. ASSUME NEW j \in JobId, markRunning(j) PROVE RecoveryInv'
  <2>1. CASE status[j] # "queued"
    BY <1>3, <1>u, <2>1 DEF markRunning, diskVars
  <2>2. CASE status[j] = "queued"
    <3>1. j \in retained /\ proc \in {"up", "stopping"}
      BY <1>3, <1>b DEF markRunning, KeyInv, Unfinished
    <3>2. /\ UNCHANGED <<proc, next, owed, retained>>
          /\ status' = [status EXCEPT ![j] = "running"]
          /\ persistLocked(j, retained', status')
      BY <1>3, <2>2 DEF markRunning
    <3> QED
      BY <1>p, <1>c, <2>2, <3>1, <3>2
  <2> QED BY <2>1, <2>2
<1>4. ASSUME NEW j \in JobId, appendLog(j) PROVE RecoveryInv'
  <2>1. /\ UNCHANGED <<proc, next, owed, retained, status>>
        /\ persistLocked(j, retained', status')
    BY <1>4 DEF appendLog, jobVars
  <2>2. j \in retained /\ status[j] \in Active /\ proc \in {"up", "stopping"}
    BY <1>4, <1>b DEF appendLog, KeyInv, Unfinished
  <2>3. status' = [status EXCEPT ![j] = status[j]]
    BY <1>t, <2>1 DEF Records
  <2> QED
    BY <1>p, <1>c, <2>1, <2>2, <2>3
<1>5. ASSUME NEW j \in JobId, finish(j) PROVE RecoveryInv'
  <2>1. CASE status[j] \in Terminal \/ proc = "stopping"
    BY <1>5, <1>u, <2>1 DEF finish, diskVars
  <2>2. CASE ~ (status[j] \in Terminal \/ proc = "stopping")
    <3>1. j \in retained /\ status[j] \in Active /\ proc \in {"up", "stopping"}
      BY <1>5, <1>b DEF finish, KeyInv, Unfinished
    <3>2. /\ UNCHANGED <<proc, next, owed>>
          /\ status' = [status EXCEPT ![j] = verdict(j)]
          /\ persistLocked(j, retained', status')
          /\ retained' = trimLocked(retained, status')
      BY <1>5, <2>2 DEF finish
    <3>3. /\ retained' \subseteq retained
          /\ \A i \in retained : status'[i] \notin Terminal => i \in retained'
      BY <3>2, TrimKeepsActive
    <3>4. verdict(j) \in Status
      BY DEF verdict, Status, Terminal
    <3> QED
      BY <1>p, <2>2, <3>1, <3>2, <3>3, <3>4
  <2> QED BY <2>1, <2>2
<1>6. ASSUME NEW j \in JobId, InterruptRecovered(j) PROVE RecoveryInv'
  <2>1. /\ proc = "loading" /\ UNCHANGED <<proc, next, retained, owed>>
        /\ j \in retained
        /\ status' = [status EXCEPT ![j] = "interrupted"]
        /\ persistLocked(j, retained, status')
    BY <1>6 DEF InterruptRecovered, ActiveJobs
  <2>2. status' \in Records /\ status'[j] = "interrupted" /\ "interrupted" # NoRecord
    BY <1>t, <1>c, <2>1 DEF Records
  <2>3. \A i \in JobId : i # j => status'[i] = status[i]
    BY <1>t, <2>1 DEF Records
  <2>4. \A i \in JobId : ValueStep(i, j, retained, status')
    BY <1>t, <2>1, <2>2, PersistValues
  <2>5. \A i \in owed \cap retained : status'[i] \in Active \cup {"interrupted"}
    BY <1>t, <2>1, <2>2, <2>3 DEF RecoveryInv
  <2>6. \A i \in owed : Replayed'[i] \in Active \cup {NoRecord, "interrupted"}
    BY <1>t, <2>1, <2>4, <2>5 DEF RecoveryInv, ValueStep
  <2>7. \A i \in JobId : i >= next => Replayed'[i] = NoRecord
    BY <2>1, <2>4 DEF RecoveryInv, ValueStep
  <2> QED
    BY <2>1, <2>5, <2>6, <2>7 DEF RecoveryInv, RecoveredAsInterrupted
<1>7. CASE Shutdown
  BY <1>7, <1>d DEF Shutdown, diskVars, RecoveryInv, RecoveredAsInterrupted, ActiveJobs
<1>8. CASE ShutdownDone \/ ShutdownTimeout \/ Crash
  <2>1. /\ proc' = "down" /\ retained' = {}
        /\ UNCHANGED <<next, journal, snapshot>>
    BY <1>8 DEF ShutdownDone, ShutdownTimeout, Crash, MemoryLost
  <2>2. \/ proc = "up" /\ owed' = ActiveJobs
        \/ proc # "up" /\ owed' = owed
    BY <1>8 DEF ShutdownDone, ShutdownTimeout, Crash
  <2>3. \A i \in owed' : i \in owed \cup retained
    BY <2>2 DEF ActiveJobs
  <2>4. \A i \in owed' : Replayed[i] \in Active \cup {NoRecord, "interrupted"}
    BY <2>2 DEF RecoveryInv, TypeOK
  <2> QED
    BY <1>d, <1>t, <2>1, <2>3, <2>4 DEF RecoveryInv, RecoveredAsInterrupted
<1>9. CASE LoadFiles
  <2>1. /\ proc = "down" /\ proc' = "loading" /\ status' = Replayed
        /\ retained' = {j \in JobId : Replayed[j] # NoRecord}
        /\ UNCHANGED <<next, journal, snapshot, owed>>
    BY <1>9 DEF LoadFiles, diskVars
  <2> QED
    BY <1>d, <1>t, <2>1 DEF RecoveryInv, RecoveredAsInterrupted
<1>10. CASE LoadTrim
  <2>1. /\ proc = "loading" /\ proc' = "up"
        /\ \A i \in retained : status[i] \notin Active
        /\ UNCHANGED <<next, status, journal, snapshot, owed>>
    BY <1>10 DEF LoadTrim, diskVars, ActiveJobs
  <2>2. retained' \subseteq retained
    BY <1>10, TrimKeepsActive DEF LoadTrim
  <2>3. \A i \in owed \cap retained' : status[i] = "interrupted"
    BY <2>1, <2>2 DEF RecoveryInv
  <2> QED
    BY <1>d, <2>1, <2>2, <2>3 DEF RecoveryInv, RecoveredAsInterrupted, ActiveJobs
<1>11. CASE UNCHANGED vars
  BY <1>11, <1>u DEF vars, diskVars
<1> QED
  BY <1>1, <1>2, <1>3, <1>4, <1>5, <1>6, <1>7, <1>8, <1>9, <1>10, <1>11
     DEF Next, JobStep

(* A job that was active when the process was stopped or died is reported  *)
(* as interrupted, or not at all, afterwards, whatever the disk did.       *)
THEOREM ActiveJobsAreInterrupted == Spec => []RecoveredAsInterrupted
<1>1. Init => KeyInv /\ RecoveryInv
  BY DEF Init, Nowhere, KeyInv, Unfinished, RecoveryInv, RecoveredAsInterrupted,
     Replayed, NoRecords, NoRecord, ActiveJobs
<1>2. RecoveryInv => RecoveredAsInterrupted
  BY DEF RecoveryInv
<1> QED
  BY <1>1, <1>2, TypeCorrect, IdleInductive, KeyStep, RecoveryStep, PTL DEF Spec

=============================================================================
