----------------------------- MODULE JobManager -----------------------------
(***************************************************************************)
(* The asynchronous job manager of the agent                               *)
(* (agent/internal/jobs/jobs.go): its retained jobs, one goroutine per     *)
(* job, the per-resource locks and the concurrency semaphore, the          *)
(* lifecycle journal with its snapshot, graceful shutdown, and recovery    *)
(* after the process died at any point.                                    *)
(*                                                                         *)
(* A critical section under Manager.mu is one action.  A job is named by   *)
(* the order of its creation, which is the order of its CreatedAt.         *)
(* Outside the model: job payloads and results, the log lines and their    *)
(* bounds, clock steps backwards.                                          *)
(***************************************************************************)
EXTENDS Integers, FiniteSets

CONSTANTS
    MaxJobs,        \* bound on the jobs StartWithOptions creates in a behaviour
    Resource,       \* resource names that callers lock
    NoResource,     \* the empty Resource of a job that locks nothing
    Key,            \* idempotency keys that callers send
    NoKey,          \* no idempotency key
    MaxHistory,     \* Options.MaxHistory
    MaxConcurrent,  \* Options.MaxConcurrent, the capacity of the semaphore
    CompactAt,      \* Options.CompactBytes, counted in journal records
    Faults          \* the faults the environment may inject

ASSUME JobManagerAssumption ==
    /\ MaxJobs \in Nat
    /\ NoResource \notin Resource
    /\ NoKey \notin Key
    /\ MaxHistory \in Nat \ {0}
    /\ MaxConcurrent \in Nat \ {0}
    /\ CompactAt \in Nat \ {0}
    /\ Faults \subseteq {"crash", "torn", "append", "snapshot", "truncate"}

JobId == 1 .. MaxJobs

Active == {"queued", "running"}
Terminal == {"succeeded", "failed", "cancelled", "interrupted"}
Status == Active \cup Terminal
NoRecord == "none"

(* Where the goroutine of a job is inside Manager.run.  The three "finish"  *)
(* places are its three calls of Manager.finish, by what it still holds.    *)
Place == {"idle", "acquire", "slot", "mark", "exec",
          "finishBare", "finishLocked", "finish", "freeSlot", "freeLock"}

VARIABLES
    proc,       \* the agent process: "down", "loading", "up" or "stopping"
    next,       \* creation order of the next job
    retained,   \* the keys of Manager.jobs
    status,     \* Job.Status of the jobs in memory
    resource,   \* Job.Resource, fixed at creation
    key,        \* Job.IdempotencyKey, fixed at creation
    pc,         \* place of each job's goroutine
    outcome,    \* what a job's function returned
    cancelled,  \* the job's context is cancelled
    locked,     \* tokens in each resource lock, a channel of capacity one
    slots,      \* tokens in the semaphore channel
    pending,    \* contexts Shutdown has collected and not yet cancelled
    journal,    \* last complete record of each job in the journal file
    journalLen, \* size of the journal file, capped at CompactAt
    torn,       \* the journal file ends in an incomplete line
    snapshot,   \* record of each job in the snapshot file
    seen,       \* history: last status of each job a client could read
    owed        \* history: jobs active when the last process stopped or died

goroutineVars == <<pc, outcome, cancelled, locked, slots, pending>>
diskVars == <<journal, journalLen, torn, snapshot>>
vars == <<proc, next, retained, status, resource, key, goroutineVars,
          diskVars, seen, owed>>

TypeOK ==
    /\ proc \in {"down", "loading", "up", "stopping"}
    /\ next \in 1 .. MaxJobs + 1
    /\ retained \in SUBSET JobId
    /\ status \in [JobId -> Status \cup {NoRecord}]
    /\ resource \in [JobId -> Resource \cup {NoResource}]
    /\ key \in [JobId -> Key \cup {NoKey}]
    /\ pc \in [JobId -> Place]
    /\ outcome \in [JobId -> {"none", "ok", "error", "canceled"}]
    /\ cancelled \in [JobId -> BOOLEAN]
    /\ locked \in [Resource -> {0, 1}]
    /\ slots \in 0 .. MaxConcurrent
    /\ pending \in SUBSET JobId
    /\ journal \in [JobId -> Status \cup {NoRecord}]
    /\ journalLen \in 0 .. CompactAt
    /\ torn \in BOOLEAN
    /\ snapshot \in [JobId -> Status \cup {NoRecord}]
    /\ seen \in [JobId -> Status \cup {NoRecord}]
    /\ owed \in SUBSET JobId

Nowhere == [j \in JobId |-> "idle"]
NoRecords == [j \in JobId |-> NoRecord]
ActiveJobs == {j \in retained : status[j] \in Active}

-----------------------------------------------------------------------------
(* The disk.                                                               *)

(* Mutant: the snapshot is trusted over the newer journal.                 *)
SnapshotWins ==
    [j \in JobId |-> IF snapshot[j] # NoRecord THEN snapshot[j] ELSE journal[j]]

(* loadSnapshot, then loadJournal: the last complete journal line of a job *)
(* replaces its snapshot record.                                           *)
Replayed ==
    [j \in JobId |-> IF journal[j] # NoRecord THEN journal[j] ELSE snapshot[j]]

AfterAppend(old) == IF old + 1 < CompactAt THEN old + 1 ELSE CompactAt

(* Mutant: the journal is truncated although no snapshot was written.      *)
truncateFirst(R, S, J) ==
    /\ journal' = NoRecords
    /\ journalLen' = 0
    /\ snapshot' = IF "snapshot" \in Faults THEN snapshot
                   ELSE [i \in JobId |-> IF i \in R THEN S[i] ELSE NoRecord]

(* compactLocked on jobs R with statuses S, the journal being J: write and *)
(* rename the snapshot, then truncate the journal.  Failing to write the   *)
(* snapshot leaves both files; failing to truncate leaves the journal, as  *)
(* a crash between the two does.                                           *)
compactLocked(R, S, J) ==
    \/ /\ "snapshot" \in Faults
       /\ journal' = J
       /\ journalLen' = CompactAt
       /\ UNCHANGED snapshot
    \/ /\ snapshot' = [i \in JobId |-> IF i \in R THEN S[i] ELSE NoRecord]
       /\ \/ /\ journal' = NoRecords
             /\ journalLen' = 0
          \/ /\ "truncate" \in Faults
             /\ journal' = J
             /\ journalLen' = CompactAt

(* persistLocked of job j when memory holds jobs R with statuses S.  A     *)
(* record written behind an incomplete line is lost with that line; a      *)
(* failed write is ignored and may leave an incomplete line.               *)
persistLocked(j, R, S) ==
    \/ /\ "append" \in Faults
       /\ torn' \in {torn, TRUE}
       /\ UNCHANGED <<journal, journalLen, snapshot>>
    \/ LET J == IF torn THEN journal ELSE [journal EXCEPT ![j] = S[j]]
       IN  /\ torn' = FALSE
           /\ \/ /\ AfterAppend(journalLen) < CompactAt
                 /\ journal' = J
                 /\ journalLen' = AfterAppend(journalLen)
                 /\ UNCHANGED snapshot
              \/ /\ AfterAppend(journalLen) = CompactAt
                 /\ compactLocked(R, S, J)

-----------------------------------------------------------------------------
(* History.                                                                *)

(* Mutant: the oldest job goes, whether or not it is still active.         *)
trimAny(R, S) ==
    R \ {j \in R : Cardinality({i \in R : i <= j}) <= Cardinality(R) - MaxHistory}

(* trimLocked: while there are too many jobs, delete the oldest one that   *)
(* is terminal; active jobs stay however many there are.                   *)
trimLocked(R, S) ==
    LET old == {j \in R : S[j] \in Terminal}
    IN  R \ {j \in old : Cardinality({i \in old : i <= j})
                             <= Cardinality(R) - MaxHistory}

-----------------------------------------------------------------------------
(* Operations of the API.                                                  *)

Init ==
    /\ proc = "up"
    /\ next = 1
    /\ retained = {}
    /\ status = NoRecords
    /\ resource = [j \in JobId |-> NoResource]
    /\ key = [j \in JobId |-> NoKey]
    /\ pc = Nowhere
    /\ outcome = [j \in JobId |-> "none"]
    /\ cancelled = [j \in JobId |-> FALSE]
    /\ locked = [r \in Resource |-> 0]
    /\ slots = 0
    /\ pending = {}
    /\ journal = NoRecords
    /\ journalLen = 0
    /\ torn = FALSE
    /\ snapshot = NoRecords
    /\ seen = NoRecords
    /\ owed = {}

(* StartWithOptions accepts a job.  A key that a retained job has is       *)
(* answered with that job, and while stopping the answer is a failed job   *)
(* that is recorded nowhere: neither changes the state.                    *)
StartWithOptions(r, k) ==
    /\ proc = "up"
    /\ next <= MaxJobs
    /\ k # NoKey => \A j \in retained : key[j] # k
    /\ next' = next + 1
    /\ resource' = [resource EXCEPT ![next] = r]
    /\ key' = [key EXCEPT ![next] = k]
    /\ status' = [status EXCEPT ![next] = "queued"]
    /\ seen' = [seen EXCEPT ![next] = "queued"]
    /\ retained' = trimLocked(retained \cup {next}, status')
    /\ persistLocked(next, retained', status')
    /\ pc' = [pc EXCEPT ![next] = "acquire"]
    /\ UNCHANGED <<proc, outcome, cancelled, locked, slots, pending, owed>>

(* Cancel of a retained job that is still active; otherwise it is refused. *)
Cancel(j) ==
    /\ proc \in {"up", "stopping"}
    /\ j \in ActiveJobs
    /\ cancelled' = [cancelled EXCEPT ![j] = TRUE]
    /\ UNCHANGED <<proc, next, retained, status, resource, key, pc, outcome,
                   locked, slots, pending, diskVars, seen, owed>>

-----------------------------------------------------------------------------
(* The goroutine of a job: Manager.run.                                    *)

Goto(j, place) == pc' = [pc EXCEPT ![j] = place]

jobVars == <<proc, next, retained, status, resource, key>>

(* acquireResource sends to the lock's channel.                            *)
AcquireResource(j) ==
    /\ pc[j] = "acquire"
    /\ resource[j] # NoResource => locked[resource[j]] = 0
    /\ locked' = [r \in Resource |-> IF r = resource[j] THEN 1 ELSE locked[r]]
    /\ Goto(j, "slot")
    /\ UNCHANGED <<jobVars, outcome, cancelled, slots, pending, diskVars, seen, owed>>

(* Mutant: the release is deferred before the acquisition is known.        *)
GiveUpLockHeld(j) ==
    /\ pc[j] = "acquire"
    /\ resource[j] # NoResource
    /\ cancelled[j]
    /\ Goto(j, "finishLocked")
    /\ outcome' = [outcome EXCEPT ![j] = "canceled"]
    /\ UNCHANGED <<jobVars, cancelled, locked, slots, pending, diskVars, seen, owed>>

(* acquireResource gives up: its select takes ctx.Done(), which it may     *)
(* take or leave when the lock is free as well.                            *)
AcquireCancelled(j) ==
    /\ pc[j] = "acquire"
    /\ resource[j] # NoResource
    /\ cancelled[j]
    /\ Goto(j, "finishBare")
    /\ outcome' = [outcome EXCEPT ![j] = "canceled"]
    /\ UNCHANGED <<jobVars, cancelled, locked, slots, pending, diskVars, seen, owed>>

(* The select of run sends to the semaphore.                               *)
TakeSlot(j) ==
    /\ pc[j] = "slot"
    /\ slots < MaxConcurrent
    /\ slots' = slots + 1
    /\ Goto(j, "mark")
    /\ UNCHANGED <<jobVars, outcome, cancelled, locked, pending, diskVars, seen, owed>>

(* Mutant: the slot is released on the path that never took one.           *)
GiveUpSlotHeld(j) ==
    /\ pc[j] = "slot"
    /\ cancelled[j]
    /\ Goto(j, "finish")
    /\ outcome' = [outcome EXCEPT ![j] = "canceled"]
    /\ UNCHANGED <<jobVars, cancelled, locked, slots, pending, diskVars, seen, owed>>

(* Mutant: the context is looked at only when the semaphore has room.      *)
SlotCancelledLate(j) ==
    /\ pc[j] = "slot"
    /\ cancelled[j]
    /\ slots < MaxConcurrent
    /\ Goto(j, "finishLocked")
    /\ outcome' = [outcome EXCEPT ![j] = "canceled"]
    /\ UNCHANGED <<jobVars, cancelled, locked, slots, pending, diskVars, seen, owed>>

(* The select of run takes ctx.Done(), with the lock held.                 *)
SlotCancelled(j) ==
    /\ pc[j] = "slot"
    /\ cancelled[j]
    /\ Goto(j, "finishLocked")
    /\ outcome' = [outcome EXCEPT ![j] = "canceled"]
    /\ UNCHANGED <<jobVars, cancelled, locked, slots, pending, diskVars, seen, owed>>

(* markRunning looks neither at the context nor at Manager.stopping.       *)
markRunning(j) ==
    /\ pc[j] = "mark"
    /\ IF status[j] = "queued"
       THEN /\ status' = [status EXCEPT ![j] = "running"]
            /\ seen' = [seen EXCEPT ![j] = "running"]
            /\ persistLocked(j, retained, status')
       ELSE UNCHANGED <<status, seen, diskVars>>
    /\ Goto(j, "exec")
    /\ UNCHANGED <<proc, next, retained, resource, key, outcome, cancelled,
                   locked, slots, pending, owed>>

(* appendLog, called by the job's function, persists the record again.     *)
appendLog(j) ==
    /\ pc[j] = "exec"
    /\ persistLocked(j, retained, status)
    /\ UNCHANGED <<jobVars, goroutineVars, seen, owed>>

(* The job's function returns with a result, an error or context.Canceled. *)
FunctionReturns(j) ==
    /\ pc[j] = "exec"
    /\ \E o \in {"ok", "error", "canceled"} :
           outcome' = [outcome EXCEPT ![j] = o]
    /\ Goto(j, "finish")
    /\ UNCHANGED <<jobVars, cancelled, locked, slots, pending, diskVars, seen, owed>>

(* Mutant: the status is spelt like the context error.                     *)
verdictMisspelt(j) ==
    IF cancelled[j] \/ outcome[j] = "canceled" THEN "canceled"
    ELSE IF outcome[j] = "error" THEN "failed" ELSE "succeeded"

(* Mutant: only the function's error decides, not the context.             *)
verdictOfError(j) ==
    CASE outcome[j] = "ok" -> "succeeded"
      [] outcome[j] = "canceled" -> "cancelled"
      [] OTHER -> "failed"

(* The final status finish records: a cancelled context or a Canceled      *)
(* error, then any other error, then success.                              *)
verdict(j) ==
    IF cancelled[j] \/ outcome[j] = "canceled" THEN "cancelled"
    ELSE IF outcome[j] = "error" THEN "failed" ELSE "succeeded"

AfterFinish(place) ==
    CASE place = "finishBare" -> "idle"
      [] place = "finishLocked" -> "freeLock"
      [] place = "finish" -> "freeSlot"

(* Mutant: finish records an outcome although the manager is stopping.     *)
finishAnyway(j) ==
    /\ pc[j] \in {"finishBare", "finishLocked", "finish"}
    /\ status' = [status EXCEPT ![j] = verdict(j)]
    /\ seen' = [seen EXCEPT ![j] = verdict(j)]
    /\ retained' = trimLocked(retained, status')
    /\ persistLocked(j, retained', status')
    /\ outcome' = [outcome EXCEPT ![j] = "none"]
    /\ Goto(j, AfterFinish(pc[j]))
    /\ UNCHANGED <<proc, next, resource, key, cancelled, locked, slots,
                   pending, owed>>

(* finish leaves the record alone when it is terminal or the manager is    *)
(* stopping.  The trim may delete the very job it then persists.           *)
finish(j) ==
    /\ pc[j] \in {"finishBare", "finishLocked", "finish"}
    /\ IF status[j] \in Terminal \/ proc = "stopping"
       THEN UNCHANGED <<status, seen, retained, diskVars>>
       ELSE /\ status' = [status EXCEPT ![j] = verdict(j)]
            /\ seen' = [seen EXCEPT ![j] = verdict(j)]
            /\ retained' = trimLocked(retained, status')
            /\ persistLocked(j, retained', status')
    /\ outcome' = [outcome EXCEPT ![j] = "none"]
    /\ Goto(j, AfterFinish(pc[j]))
    /\ UNCHANGED <<proc, next, resource, key, cancelled, locked, slots,
                   pending, owed>>

(* Mutant: the slot is not given back when the context was cancelled.      *)
leakSlot(j) ==
    /\ pc[j] = "freeSlot"
    /\ slots > 0
    /\ slots' = IF cancelled[j] THEN slots ELSE slots - 1
    /\ Goto(j, "freeLock")
    /\ UNCHANGED <<jobVars, outcome, cancelled, locked, pending, diskVars, seen, owed>>

(* The deferred receive from the semaphore, the first of run's defers.     *)
releaseSlot(j) ==
    /\ pc[j] = "freeSlot"
    /\ slots > 0
    /\ slots' = slots - 1
    /\ Goto(j, "freeLock")
    /\ UNCHANGED <<jobVars, outcome, cancelled, locked, pending, diskVars, seen, owed>>

(* releaseResource, then runWG.Done(): the goroutine is gone.              *)
releaseResource(j) ==
    /\ pc[j] = "freeLock"
    /\ resource[j] # NoResource => locked[resource[j]] = 1
    /\ locked' = [r \in Resource |-> IF r = resource[j] THEN 0 ELSE locked[r]]
    /\ Goto(j, "idle")
    /\ UNCHANGED <<jobVars, outcome, cancelled, slots, pending, diskVars, seen, owed>>

-----------------------------------------------------------------------------
(* Shutdown, crash and recovery.                                           *)

(* Mutant: no context is cancelled.                                        *)
ShutdownCancelsNone ==
    /\ proc = "up"
    /\ proc' = "stopping"
    /\ pending' = {}
    /\ owed' = ActiveJobs
    /\ UNCHANGED <<next, retained, status, resource, key, pc, outcome,
                   cancelled, locked, slots, diskVars, seen>>

(* Shutdown, under the mutex: refuse new jobs, collect the active ones.    *)
Shutdown ==
    /\ proc = "up"
    /\ proc' = "stopping"
    /\ pending' = ActiveJobs
    /\ owed' = ActiveJobs
    /\ UNCHANGED <<next, retained, status, resource, key, pc, outcome,
                   cancelled, locked, slots, diskVars, seen>>

(* Shutdown, after the mutex is released, calls the collected cancels.     *)
ShutdownCancels(j) ==
    /\ proc = "stopping"
    /\ j \in pending
    /\ cancelled' = [cancelled EXCEPT ![j] = TRUE]
    /\ pending' = pending \ {j}
    /\ UNCHANGED <<jobVars, pc, outcome, locked, slots, diskVars, seen, owed>>

(* The process is gone, and with it everything that was only in memory.    *)
MemoryLost ==
    /\ proc' = "down"
    /\ retained' = {}
    /\ status' = NoRecords
    /\ pc' = Nowhere
    /\ cancelled' = [j \in JobId |-> FALSE]
    /\ locked' = [r \in Resource |-> 0]
    /\ slots' = 0
    /\ pending' = {}
    /\ outcome' = [j \in JobId |-> "none"]
    /\ UNCHANGED <<next, resource, key, journal, journalLen, snapshot, seen>>

(* Shutdown returns because every goroutine is done; Server.Run returns.   *)
ShutdownDone ==
    /\ proc = "stopping"
    /\ pending = {}
    /\ pc = Nowhere
    /\ MemoryLost
    /\ UNCHANGED <<torn, owed>>

(* Shutdown returns because its 20 seconds are over.                       *)
ShutdownTimeout ==
    /\ proc = "stopping"
    /\ pending = {}
    /\ pc # Nowhere
    /\ MemoryLost
    /\ UNCHANGED <<torn, owed>>

(* The process is killed or the NAS loses power, perhaps while a record is *)
(* being appended.                                                         *)
Crash ==
    /\ "crash" \in Faults
    /\ proc # "down"
    /\ MemoryLost
    /\ owed' = IF proc = "up" THEN ActiveJobs ELSE owed
    /\ \/ UNCHANGED torn
       \/ /\ "torn" \in Faults
          /\ proc = "up" \/ ActiveJobs # {}
          /\ torn' = TRUE

(* loadState, first part: snapshot, then journal.                          *)
LoadFiles ==
    /\ proc = "down"
    /\ proc' = "loading"
    /\ status' = Replayed
    /\ retained' = {j \in JobId : Replayed[j] # NoRecord}
    /\ UNCHANGED <<next, resource, key, goroutineVars, diskVars, seen, owed>>

(* Mutant: every recovered job becomes interrupted.                        *)
InterruptAny(j) ==
    /\ proc = "loading"
    /\ j \in retained
    /\ status[j] # "interrupted"
    /\ status' = [status EXCEPT ![j] = "interrupted"]
    /\ persistLocked(j, retained, status')
    /\ UNCHANGED <<proc, next, retained, resource, key, goroutineVars, seen, owed>>

(* loadState, its loop: a job that was active becomes interrupted.         *)
InterruptRecovered(j) ==
    /\ proc = "loading"
    /\ j \in ActiveJobs
    /\ status' = [status EXCEPT ![j] = "interrupted"]
    /\ persistLocked(j, retained, status')
    /\ UNCHANGED <<proc, next, retained, resource, key, goroutineVars, seen, owed>>

(* loadState trims the history; the agent then starts to listen.           *)
LoadTrim ==
    /\ proc = "loading"
    /\ ActiveJobs = {}
    /\ proc' = "up"
    /\ retained' = trimLocked(retained, status)
    /\ seen' = [j \in JobId |-> IF j \in retained' THEN status[j] ELSE seen[j]]
    /\ UNCHANGED <<next, status, resource, key, goroutineVars, diskVars, owed>>

-----------------------------------------------------------------------------
JobStep(j) ==
    \/ Cancel(j)
    \/ AcquireResource(j)
    \/ AcquireCancelled(j)
    \/ TakeSlot(j)
    \/ SlotCancelled(j)
    \/ markRunning(j)
    \/ appendLog(j)
    \/ FunctionReturns(j)
    \/ finish(j)
    \/ releaseSlot(j)
    \/ releaseResource(j)
    \/ ShutdownCancels(j)
    \/ InterruptRecovered(j)

Next ==
    \/ \E r \in Resource \cup {NoResource}, k \in Key \cup {NoKey} :
           StartWithOptions(r, k)
    \/ \E j \in JobId : JobStep(j)
    \/ Shutdown
    \/ ShutdownDone
    \/ ShutdownTimeout
    \/ Crash
    \/ LoadFiles
    \/ LoadTrim

Spec == Init /\ [][Next]_vars

(* A goroutine that can move does move: the Go scheduler is fair.  A       *)
(* channel serves its waiting senders in order, so one that finds room     *)
(* again and again gets it: strong fairness.  The function of a cancelled  *)
(* job returns (Executor.Run kills its process group).                     *)
GoroutineFairness ==
    \A j \in JobId :
        /\ SF_vars(AcquireResource(j))
        /\ SF_vars(TakeSlot(j))
        /\ WF_vars(AcquireCancelled(j))
        /\ WF_vars(SlotCancelled(j))
        /\ WF_vars(markRunning(j))
        /\ WF_vars(cancelled[j] /\ FunctionReturns(j))
        /\ WF_vars(finish(j))
        /\ WF_vars(releaseSlot(j))
        /\ WF_vars(releaseResource(j))
        /\ WF_vars(ShutdownCancels(j))

FairSpec ==
    Spec /\ GoroutineFairness /\ WF_vars(ShutdownDone)

-----------------------------------------------------------------------------
(* Properties.                                                             *)

(* Two jobs that name the same resource never execute at the same time,    *)
(* whatever is cancelled while it waits (acquireResource,                  *)
(* releaseResource).                                                       *)
ResourceExclusion ==
    \A i, j \in JobId :
        (i # j /\ pc[i] = "exec" /\ pc[j] = "exec" /\ resource[i] # NoResource)
            => resource[i] # resource[j]

(* At most MaxConcurrent functions execute at the same time (semaphore).   *)
SlotBound == Cardinality({j \in JobId : pc[j] = "exec"}) <= MaxConcurrent

(* Two jobs with the same idempotency key never execute at the same time,  *)
(* however small the history is (StartWithOptions against trimLocked).     *)
OneRunPerKey ==
    \A i, j \in JobId :
        (i # j /\ pc[i] = "exec" /\ pc[j] = "exec" /\ key[i] # NoKey)
            => key[i] # key[j]

(* Once Cancel has returned true, the job is never recorded as succeeded   *)
(* or failed, even if its function had already returned (Cancel racing     *)
(* finish).                                                                *)
CancelIsHonoured ==
    \A j \in JobId : cancelled[j] => status[j] \notin {"succeeded", "failed"}

Recovered(s) == IF s \in Active THEN "interrupted" ELSE s

(* Write-ahead journal: at every moment a crash would recover each         *)
(* retained job past the queue with the status it has in memory (an        *)
(* active one as interrupted), across compaction, its failures and torn    *)
(* journal lines (persistLocked, compactLocked, loadState).                *)
DurableRecords ==
    proc \in {"up", "stopping"} =>
        \A j \in retained :
            status[j] # "queued" => Recovered(Replayed[j]) = Recovered(status[j])

(* A job a client has seen in a terminal state is never reported in        *)
(* another one, by this process or by one that recovered it from the disk  *)
(* (finish, loadState; docs/job-recovery.md: "remains terminal").          *)
TerminalRemainsTerminal ==
    [][\A j \in JobId : seen[j] \in Terminal => seen'[j] = seen[j]]_vars

(* A job that was active when the process was stopped or died is reported  *)
(* as interrupted, or not at all, afterwards: never with an outcome        *)
(* recorded while the service was stopping (Shutdown, finish, loadState).  *)
RecoveredAsInterrupted ==
    proc = "up" => \A j \in owed \cap retained : status[j] = "interrupted"

(* A cancelled job ends although the jobs it waits for may run for ever.   *)
CancelTakesEffect ==
    \A j \in JobId :
        (cancelled[j] /\ proc = "up")
            ~> (proc # "up" \/ status[j] \in Terminal)

(* Graceful shutdown comes to an end without its timeout (Shutdown).       *)
ShutdownEnds == (proc = "stopping") ~> (proc = "down")

(* An accepted job does not stay queued or running for ever: no waiting    *)
(* for locks and slots in a circle, none of them lost.  The functions of   *)
(* jobs must return for that (commands have a timeout).                    *)
JobsEnd ==
    (\A j \in JobId : WF_vars(FunctionReturns(j))) =>
        \A j \in JobId :
            (pc[j] = "acquire") ~> (proc # "up" \/ status[j] \in Terminal)

-----------------------------------------------------------------------------
(* Inductive strengthenings, for the proofs in JobManagerProofs.           *)

(* Places between taking the resource lock and giving it back.             *)
Holding == {"slot", "mark", "exec", "finishLocked", "finish", "freeSlot", "freeLock"}

(* The token in a lock belongs to one job that is past acquireResource and *)
(* not past releaseResource.                                               *)
ExclusionInv ==
    /\ \A j \in JobId : (pc[j] \in Holding /\ resource[j] # NoResource)
                            => locked[resource[j]] = 1
    /\ \A i, j \in JobId :
           (i # j /\ pc[i] \in Holding /\ pc[j] \in Holding
                  /\ resource[i] # NoResource)
               => resource[i] # resource[j]

(* Shutdown cancels only jobs that are still active when it gets to them.  *)
CancelInv ==
    /\ proc \in {"down", "loading"} => \A j \in JobId : ~ cancelled[j]
    /\ proc # "stopping" => pending = {}
    /\ \A j \in pending : status[j] \in Active
    /\ CancelIsHonoured

(* Places at which the job's record has not been finished.                 *)
Unfinished == {"acquire", "slot", "mark", "exec",
               "finishBare", "finishLocked", "finish"}

(* An incomplete journal line is only there while no job is under way; the *)
(* files agree with memory during recovery too, queued jobs included.      *)
DurableInv ==
    /\ (torn \/ proc \in {"down", "loading"}) => \A j \in JobId : pc[j] = "idle"
    /\ \A j \in JobId : pc[j] \in Unfinished => status[j] \in Active
    /\ DurableRecords
    /\ proc = "loading" =>
           \A j \in retained : Recovered(Replayed[j]) = Recovered(status[j])

(* What clients have read is what memory holds and what the files would    *)
(* bring back, for jobs that were trimmed too.                             *)
TerminalInv ==
    /\ \A j \in JobId : j >= next =>
           /\ seen[j] = NoRecord
           /\ Replayed[j] = NoRecord
           /\ pc[j] = "idle"
           /\ j \notin retained
    /\ proc \in {"up", "stopping"} =>
           \A j \in JobId : (j \in retained \/ pc[j] \in Unfinished)
                                => seen[j] = status[j]
    /\ proc = "loading" =>
           \A j \in retained : seen[j] \in Terminal => Recovered(status[j]) = seen[j]
    /\ \A j \in JobId : (seen[j] \in Terminal /\ Replayed[j] # NoRecord)
                            => Recovered(Replayed[j]) = seen[j]

(* Only a process that has finished loading runs goroutines, and only for  *)
(* jobs that were created.                                                 *)
IdleInv ==
    /\ proc \in {"down", "loading"} => \A j \in JobId : pc[j] = "idle"
    /\ \A j \in JobId : j >= next => pc[j] = "idle"

(* The tokens in the semaphore are those of the jobs between TakeSlot and  *)
(* releaseSlot.                                                            *)
SlotHolders == {j \in JobId : pc[j] \in {"mark", "exec", "finish", "freeSlot"}}
SlotInv == Cardinality(SlotHolders) = slots

(* A job that is under way is retained, so that its key is found; no two   *)
(* of them have the same one.                                              *)
KeyInv ==
    /\ \A j \in JobId : pc[j] \in Unfinished => j \in retained /\ status[j] \in Active
    /\ \A i, j \in JobId :
           (i # j /\ pc[i] \in Unfinished /\ pc[j] \in Unfinished /\ key[i] # NoKey)
               => key[i] # key[j]

(* The files know no outcome of a job that is active in memory, nor of one *)
(* that was when the process stopped, until recovery has interrupted it.   *)
RecoveryInv ==
    /\ \A j \in JobId : j >= next => Replayed[j] = NoRecord /\ j \notin retained \cup owed
    /\ proc \in {"up", "stopping"} =>
           \A j \in ActiveJobs : Replayed[j] \in Active \cup {NoRecord}
    /\ proc = "stopping" => owed \subseteq ActiveJobs
    /\ proc \in {"down", "loading"} =>
           \A j \in owed : Replayed[j] \in Active \cup {NoRecord, "interrupted"}
    /\ proc = "loading" =>
           \A j \in owed \cap retained : status[j] \in Active \cup {"interrupted"}
    /\ RecoveredAsInterrupted

=============================================================================
