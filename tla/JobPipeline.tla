----------------------------- MODULE JobPipeline -----------------------------
(***************************************************************************)
(* One transformation job from the moment submit() has created its row and *)
(* published the split task: the split task, the process_chunk tasks, the  *)
(* merge task, the stuck-job sweep and the manual retry, over the row in   *)
(* PostgreSQL, the objects in S3, the chunk locks in Redis and the task    *)
(* messages in RabbitMQ.                                                   *)
(*                                                                         *)
(* A worker's handler is cut at every access to shared state, so any two   *)
(* handlers interleave between any two accesses; pc names the next one.    *)
(* Messages are acknowledged late: a message belongs to its worker until   *)
(* "ack", and a worker that dies gives it back.                            *)
(*                                                                         *)
(* Faults: a worker dies (CrashAt), a database, storage, Redis or broker   *)
(* call raises (RaiseAt), a chunk cannot be converted by any retry         *)
(* (PermanentFailures), a chunk takes longer than CHUNK_LOCK_TTL           *)
(* (SlowHolders), a sweep finds a job past its maximum age (Abandons), a   *)
(* sweep or a manual retry picks a job whose tasks are merely slow         *)
(* (HitLiveJobs).  MaxFaults bounds how many of these happen, the lock     *)
(* expiries and the ages apart; MaxCopies how many identical copies of a   *)
(* message the queues hold.                                                *)
(*                                                                         *)
(* Ages are not modelled: where the code compares one with a threshold,    *)
(* both outcomes are possible.  With HitLiveJobs = FALSE an operator acts  *)
(* only when no task of the job is queued or running, which is what the    *)
(* thresholds of settings/base.py are calibrated for.                      *)
(*                                                                         *)
(* Not here: the report cache (nothing in the pipeline reads it), the      *)
(* skip-trace files (merged best-effort), the contents of the outputs.     *)
(***************************************************************************)
EXTENDS JobRow

CONSTANTS
  ChunkWorkers,       \* worker processes of the "chunks" queue
  DefaultWorkers,     \* worker processes of the "default" queue
  Operators,          \* runs of retry_stuck_jobs and of JobRetryView
  SkippingChunks,     \* chunks with an item the validator rejects
  MaxRetries,         \* max_retries of the three tasks
  MaxCopies, MaxFaults,
  CrashAt, RaiseAt, PermanentFailures, SlowHolders, Abandons,
  Sweeps, ManualRetries, HitLiveJobs

Workers == ChunkWorkers \union DefaultWorkers

NoChunk == 0            \* chunk of a split or merge message, not a range

Msg == [task : {"chunk"}, chunk : Chunks, retries : 0 .. MaxRetries]
         \union
       [task : {"split", "merge"}, chunk : {NoChunk}, retries : 0 .. MaxRetries]

SplitMsg    == [task |-> "split", chunk |-> NoChunk, retries |-> 0]
MergeMsg    == [task |-> "merge", chunk |-> NoChunk, retries |-> 0]
ChunkMsg(c) == [task |-> "chunk", chunk |-> c, retries |-> 0]

\* Between acquire_chunk_lock and the end of release_chunk_lock.
TryBody  == {"exists", "begin", "flush", "skips", "clear", "incr", "complete"}
Locked   == TryBody \union {"unlock"}
ChunkPCs == {"get", "lock", "record", "handoff"} \union Locked
SplitPCs == {"put", "send"}
MergePCs == {"mget", "list", "write", "done"}
PCs      == {"idle", "retry", "ack"} \union ChunkPCs \union SplitPCs \union MergePCs

\* How a chunk handler's process() ended, once it has: a ChunkResultStatus,
\* an exception, or "complete" for OK with job_complete.
Result == {"none", "ok", "counted", "complete", "already_done",
           "lock_conflict", "transient", "permanent"}

ASSUME ConstantsAssumption ==
  /\ MaxRetries \in Nat /\ MaxCopies \in Nat \ {0} /\ MaxFaults \in Nat
  /\ SkippingChunks \subseteq Chunks
  /\ CrashAt \subseteq PCs \ {"idle"} /\ RaiseAt \subseteq PCs \ {"idle", "ack"}
  /\ {PermanentFailures, SlowHolders, Abandons,
      Sweeps, ManualRetries, HitLiveJobs} \subseteq BOOLEAN

VARIABLES
  job,          \* the TransformationJob row
  inputs,       \* chunks whose pre-split input object exists
  outputs,      \* chunks whose output object exists
  final,        \* chunks merged into the final object, {} while there is none
  locks,        \* chunks whose Redis lock key exists (its value is always "1")
  queue,        \* copies of each message waiting in RabbitMQ
  pc, msg, result,  \* per worker: next access, message, outcome
  next,         \* per worker: the chunk a split task is at
  listed,       \* per worker: the outputs a merge task listed
  opc, snap, todo,  \* per operator: step, the row it read, messages to send
  faults,       \* faults so far
  counted       \* history: chunks counted in processed_chunks since a reset

storage    == <<inputs, outputs, final>>
workerVars == <<pc, msg, result, next, listed>>
opVars     == <<opc, snap, todo>>
vars == <<job, storage, locks, queue, workerVars, opVars, faults, counted>>

OpSteps == {"idle", "resume", "resume_merge", "mark_retrying", "abandon", "dispatch"}

\* submit() has created the job, and published its split task unless the
\* process died, or the broker refused, in between.
Init ==
  /\ job = NewRow
  /\ inputs = {} /\ outputs = {} /\ final = {} /\ locks = {}
  /\ \E published \in {0, 1} : queue = [m \in Msg |-> IF m = SplitMsg THEN published ELSE 0]
  /\ pc = [w \in Workers |-> "idle"] /\ msg = [w \in Workers |-> SplitMsg]
  /\ result = [w \in Workers |-> "none"]
  /\ next = [w \in Workers |-> 1] /\ listed = [w \in Workers |-> {}]
  /\ opc = [o \in Operators |-> "idle"] /\ snap = [o \in Operators |-> NewRow]
  /\ todo = [o \in Operators |-> {}]
  /\ faults = 0 /\ counted = {}
-----------------------------------------------------------------------------
(* Broker *)

\* apply_async.  A copy beyond MaxCopies of the same message is dropped.
Enqueue(m) ==
  queue' = [queue EXCEPT ![m] = IF @ < MaxCopies THEN @ + 1 ELSE @]

ToIdle(w) ==
  /\ pc' = [pc EXCEPT ![w] = "idle"]     /\ msg' = [msg EXCEPT ![w] = SplitMsg]
  /\ result' = [result EXCEPT ![w] = "none"]
  /\ next' = [next EXCEPT ![w] = 1]      /\ listed' = [listed EXCEPT ![w] = {}]

Entry(task) == CASE task = "chunk" -> "get" [] task = "split" -> "put"
                 [] task = "merge" -> "mget"

\* chunk tasks are routed to their own queue and workers.
Take(w, m) ==
  /\ pc[w] = "idle" /\ queue[m] > 0
  /\ w \in IF m.task = "chunk" THEN ChunkWorkers ELSE DefaultWorkers
  /\ queue' = [queue EXCEPT ![m] = @ - 1]
  /\ pc' = [pc EXCEPT ![w] = Entry(m.task)] /\ msg' = [msg EXCEPT ![w] = m]
  /\ UNCHANGED <<job, storage, locks, result, next, listed, opVars, faults, counted>>

Ack(w) ==
  /\ pc[w] = "ack" /\ ToIdle(w)
  /\ UNCHANGED <<job, storage, locks, queue, opVars, faults, counted>>

\* self.retry(): publishes the next attempt, or gives up past max_retries.
Retry(w) ==
  /\ pc[w] = "retry" /\ pc' = [pc EXCEPT ![w] = "ack"]
  /\ IF msg[w].retries < MaxRetries
       THEN Enqueue([msg[w] EXCEPT !.retries = @ + 1])
       ELSE UNCHANGED queue
  /\ UNCHANGED <<job, storage, locks, msg, result, next, listed, opVars, faults, counted>>
-----------------------------------------------------------------------------
(* split_and_dispatch_chunks *)

Goto(w, p) == pc' = [pc EXCEPT ![w] = p]

\* Mutant: the input object gets the key of the range before.
PutInputAtPrevious(w) ==
  /\ pc[w] = "put" /\ Goto(w, "send")
  /\ inputs' = inputs \union ({next[w] - 1} \ {0})
  /\ UNCHANGED <<job, outputs, final, locks, queue, msg, result, next, listed,
                 opVars, faults, counted>>

PutInput(w) ==
  /\ pc[w] = "put" /\ Goto(w, "send")
  /\ inputs' = inputs \union {next[w]}
  /\ UNCHANGED <<job, outputs, final, locks, queue, msg, result, next, listed,
                 opVars, faults, counted>>

\* Mutant: the loop runs once more after the last buffer.
SendOneMore(w) ==
  /\ pc[w] = "send" /\ Enqueue(ChunkMsg(next[w]))
  /\ IF next[w] > TotalChunks
       THEN Goto(w, "ack") /\ UNCHANGED next
       ELSE Goto(w, "put") /\ next' = [next EXCEPT ![w] = @ + 1]
  /\ UNCHANGED <<job, storage, locks, msg, result, listed, opVars, faults, counted>>

SendChunk(w) ==
  /\ pc[w] = "send" /\ Enqueue(ChunkMsg(next[w]))
  /\ IF next[w] = TotalChunks
       THEN Goto(w, "ack") /\ UNCHANGED next
       ELSE Goto(w, "put") /\ next' = [next EXCEPT ![w] = @ + 1]
  /\ UNCHANGED <<job, storage, locks, msg, result, listed, opVars, faults, counted>>
-----------------------------------------------------------------------------
(* process_chunk *)

Finish(w, r, p) == result' = [result EXCEPT ![w] = r] /\ Goto(w, p)

KeepWorker == UNCHANGED <<msg, next, listed>>
KeepRest   == UNCHANGED <<inputs, final, opVars, faults>>

GetJob(w) ==
  /\ pc[w] = "get"
  /\ IF job.status \in Terminal
       THEN Finish(w, "already_done", "ack")
       ELSE Goto(w, "lock") /\ UNCHANGED result
  /\ UNCHANGED <<job, outputs, locks, queue, counted>> /\ KeepWorker /\ KeepRest

\* Mutant: SET without NX, the reply ignored.
AcquireUnchecked(w) ==
  /\ pc[w] = "lock" /\ Goto(w, "exists")
  /\ locks' = locks \union {msg[w].chunk}
  /\ UNCHANGED <<job, outputs, queue, result, counted>> /\ KeepWorker /\ KeepRest

AcquireLock(w) ==
  /\ pc[w] = "lock"
  /\ IF msg[w].chunk \in locks
       THEN Finish(w, "lock_conflict", "retry")
       ELSE Goto(w, "exists") /\ UNCHANGED result
  /\ locks' = locks \union {msg[w].chunk}
  /\ UNCHANGED <<job, outputs, queue, counted>> /\ KeepWorker /\ KeepRest

\* Mutant: no output-existence guard.
SkipOutputCheck(w) ==
  /\ pc[w] = "exists" /\ Goto(w, "begin")
  /\ UNCHANGED <<job, outputs, locks, queue, result, counted>> /\ KeepWorker /\ KeepRest

\* Mutant: an output that exists is counted as if it had just been written.
CountExistingOutput(w) ==
  /\ pc[w] = "exists"
  /\ Goto(w, IF msg[w].chunk \in outputs THEN "incr" ELSE "begin")
  /\ UNCHANGED <<job, outputs, locks, queue, result, counted>> /\ KeepWorker /\ KeepRest

CheckOutput(w) ==
  /\ pc[w] = "exists"
  /\ IF msg[w].chunk \in outputs
       THEN Finish(w, "already_done", "unlock")
       ELSE Goto(w, "begin") /\ UNCHANGED result
  /\ UNCHANGED <<job, outputs, locks, queue, counted>> /\ KeepWorker /\ KeepRest

Begin(w) ==
  /\ pc[w] = "begin" /\ Goto(w, "flush")
  /\ job' = StartProcessing(job)
  /\ UNCHANGED <<outputs, locks, queue, result, counted>> /\ KeepWorker /\ KeepRest

\* _convert_chunk and _flush_output; one put_object creates the output.
Flush(w) ==
  /\ pc[w] = "flush" /\ msg[w].chunk \in inputs
  /\ outputs' = outputs \union {msg[w].chunk}
  /\ Goto(w, IF msg[w].chunk \in SkippingChunks THEN "skips" ELSE "clear")
  /\ UNCHANGED <<job, locks, queue, result, counted>> /\ KeepWorker /\ KeepRest

\* PermanentChunkError: the input object is missing, or the template or
\* the converter is.
ConvertImpossible(w) ==
  /\ pc[w] = "flush"
  /\ msg[w].chunk \in inputs => PermanentFailures /\ faults < MaxFaults
  /\ faults' = IF msg[w].chunk \in inputs THEN faults + 1 ELSE faults
  /\ Finish(w, "permanent", "unlock")
  /\ UNCHANGED <<job, storage, locks, queue, opVars, counted>> /\ KeepWorker

CountSkips(w) ==
  /\ pc[w] = "skips" /\ Goto(w, "clear")
  /\ job' = IncrementSkipped(job)
  /\ UNCHANGED <<outputs, locks, queue, result, counted>> /\ KeepWorker /\ KeepRest

ChunkSucceeded(w) ==
  /\ pc[w] = "clear" /\ Goto(w, "incr")
  /\ job' = ClearFailedChunk(job, msg[w].chunk)
  /\ UNCHANGED <<outputs, locks, queue, result, counted>> /\ KeepWorker /\ KeepRest

CountChunk(w) ==
  /\ pc[w] = "incr"
  /\ job' = IncrementProcessed(job)
  /\ Finish(w, IF CanIncrement(job) THEN "counted" ELSE "ok", "complete")
  /\ counted' = IF CanIncrement(job) THEN counted \union {msg[w].chunk} ELSE counted
  /\ UNCHANGED <<outputs, locks, queue>> /\ KeepWorker /\ KeepRest

\* Mutant: every counted chunk completes the job.
AlwaysComplete(w) ==
  /\ pc[w] = "complete"
  /\ Finish(w, IF result[w] = "counted" THEN "complete" ELSE "ok", "unlock")
  /\ UNCHANGED <<job, outputs, locks, queue, counted>> /\ KeepWorker /\ KeepRest

CheckComplete(w) ==
  /\ pc[w] = "complete"
  /\ Finish(w, IF result[w] = "counted" /\ IsComplete(job) THEN "complete" ELSE "ok",
            "unlock")
  /\ UNCHANGED <<job, outputs, locks, queue, counted>> /\ KeepWorker /\ KeepRest

AfterProcess(r) == CASE r \in {"transient", "permanent"} -> "record"
                     [] r = "complete" -> "handoff"
                     [] OTHER -> "ack"

\* DEL of the key, whoever set it.
ReleaseLock(w) ==
  /\ pc[w] = "unlock" /\ Goto(w, AfterProcess(result[w]))
  /\ locks' = locks \ {msg[w].chunk}
  /\ UNCHANGED <<job, outputs, queue, result, counted>> /\ KeepWorker /\ KeepRest

RecordFailure(w) ==
  /\ pc[w] = "record"
  /\ job' = AppendFailedChunk(job, msg[w].chunk,
              IF result[w] = "permanent" THEN "permanent" ELSE "retryable")
  /\ Goto(w, IF result[w] = "permanent" THEN "ack" ELSE "retry")
  /\ UNCHANGED <<outputs, locks, queue, result, counted>> /\ KeepWorker /\ KeepRest

DispatchMerge(w) ==
  /\ pc[w] = "handoff" /\ Goto(w, "ack") /\ Enqueue(MergeMsg)
  /\ UNCHANGED <<job, outputs, locks, result, counted>> /\ KeepWorker /\ KeepRest
-----------------------------------------------------------------------------
(* merge_output *)

MergeGet(w) ==
  /\ pc[w] = "mget"
  /\ Goto(w, IF job.status = "DONE" THEN "ack" ELSE "list")
  /\ UNCHANGED <<job, outputs, locks, queue, result, counted>> /\ KeepWorker /\ KeepRest

\* NO_CHUNKS is retried by the task.
MergeList(w) ==
  /\ pc[w] = "list" /\ listed' = [listed EXCEPT ![w] = outputs]
  /\ Goto(w, IF outputs = {} THEN "retry" ELSE "write")
  /\ UNCHANGED <<job, outputs, locks, queue, msg, result, next, counted>> /\ KeepRest

WriteFinal(w) ==
  /\ pc[w] = "write" /\ Goto(w, "done") /\ final' = listed[w]
  /\ UNCHANGED <<job, inputs, outputs, locks, queue, result, opVars, faults, counted>>
  /\ KeepWorker

\* completed() re-reads the row and does nothing if it is DONE, which is
\* what MarkDone does to a DONE row.
Completed(w) ==
  /\ pc[w] = "done" /\ Goto(w, "ack")
  /\ job' = MarkDone(job)
  /\ UNCHANGED <<outputs, locks, queue, result, counted>> /\ KeepWorker /\ KeepRest
-----------------------------------------------------------------------------
(* Faults *)

\* Where an exception raised at an access takes the handler: process()'s
\* finally clause, then the task's except clause; an exception in either
\* of those, or while publishing, ends the task.
Handler(p) == CASE p \in TryBody -> "unlock"
                [] p \in {"get", "lock", "unlock"} -> "record"
                [] p \in SplitPCs \union MergePCs -> "retry"
                [] OTHER -> "ack"

Raise(w) ==
  /\ pc[w] \in RaiseAt /\ faults < MaxFaults /\ faults' = faults + 1
  /\ Goto(w, Handler(pc[w]))
  /\ result' = [result EXCEPT ![w] = IF pc[w] \in {"get", "lock"} \union Locked
                                       THEN "transient" ELSE @]
  /\ UNCHANGED <<job, storage, locks, queue, msg, next, listed, opVars, counted>>

\* The worker dies; its message was not acknowledged and is redelivered.
Crash(w) ==
  /\ pc[w] \in CrashAt /\ faults < MaxFaults /\ faults' = faults + 1
  /\ ToIdle(w) /\ Enqueue(msg[w])
  /\ UNCHANGED <<job, storage, locks, opVars, counted>>

Held(c) == \E w \in Workers : pc[w] \in Locked /\ msg[w].chunk = c

\* The lock key's TTL passes.  A chunk that is being processed outlives it
\* only with SlowHolders; a key left by a dead worker always goes.
LockExpires(c) ==
  /\ c \in locks /\ (SlowHolders \/ ~Held(c))
  /\ locks' = locks \ {c}
  /\ UNCHANGED <<job, storage, queue, workerVars, opVars, faults, counted>>
-----------------------------------------------------------------------------
(* retry_stuck_jobs and JobRetryView *)

Quiet == /\ \A m \in Msg : queue[m] = 0
         /\ \A w \in Workers : pc[w] = "idle"

\* An operator has read the row; its next step is p, on the failures in fs.
Read(o, p, fs) ==
  /\ opc[o] = "idle"
  /\ Quiet \/ (HitLiveJobs /\ faults < MaxFaults)
  /\ faults' = IF Quiet THEN faults ELSE faults + 1
  /\ opc' = [opc EXCEPT ![o] = p] /\ snap' = [snap EXCEPT ![o] = job]
  /\ todo' = [todo EXCEPT ![o] = {ChunkMsg(c) : c \in fs}]
  /\ UNCHANGED <<job, storage, locks, queue, workerVars, counted>>

\* Mutant: a stuck job is always split again, fully processed or not.
AlwaysResume == "resume"

\* Step of _recover_processing, and of the view once no failure is listed.
Recovery == IF IsComplete(job) THEN "resume_merge" ELSE "resume"

\* list_stuck_pending, list_stuck_processing and list_stuck_partial.
Stuck == CASE job.status = "PENDING"    -> TRUE
           [] job.status = "PROCESSING" -> job.started
           [] job.status = "PARTIAL"    -> FailedChunks(job) # {}
           [] OTHER                     -> FALSE

Sweep(o) ==
  /\ Sweeps
  /\ \/ job.status = "PENDING" /\ Read(o, "resume", {})
     \/ job.status = "PROCESSING" /\ job.started /\ Read(o, Recovery, {})
     \/ /\ job.status = "PARTIAL" /\ RetryableChunks(job) # {}
        /\ Read(o, "mark_retrying", RetryableChunks(job))

SweepTooOld(o) ==
  /\ Sweeps /\ Abandons
  /\ Stuck /\ Read(o, "abandon", {})

\* can_retry refuses a PROCESSING job without started_at, or not stalled.
ManualRetry(o) ==
  /\ ManualRetries
  /\ job.status = "PROCESSING" => job.started
  /\ \/ /\ FailedChunks(job) # {}
        /\ \E fs \in SUBSET FailedChunks(job) \ {{}} : Read(o, "mark_retrying", fs)
     \/ /\ FailedChunks(job) = {} /\ ~(IsComplete(job) /\ job.status = "DONE")
        /\ Read(o, Recovery, {})

Decide(o, row, msgs) ==
  /\ job' = row
  /\ opc' = [opc EXCEPT ![o] = "dispatch"] /\ todo' = [todo EXCEPT ![o] = msgs]
  /\ UNCHANGED <<storage, locks, queue, workerVars, snap, faults>>

ActivateUnless(active) == IF active THEN job ELSE SetProcessing(job)

\* resume() decides on the row the operator read, safe_to_reset included.
Resume(o) ==
  /\ opc[o] = "resume"
  /\ IF snap[o].processed = 0
       THEN Decide(o, Reset(job), {SplitMsg}) /\ counted' = {}
       ELSE /\ Decide(o, ActivateUnless(snap[o].status = "PROCESSING"), {SplitMsg})
            /\ UNCHANGED counted

ResumeMerge(o) ==
  /\ opc[o] = "resume_merge"
  /\ Decide(o, ActivateUnless(snap[o].status = "PROCESSING"), {MergeMsg})
  /\ UNCHANGED counted

MarkRetrying(o) ==
  /\ opc[o] = "mark_retrying"
  /\ Decide(o, ActivateUnless(\E c \in FailedChunks(snap[o]) : ChunkMsg(c) \notin todo[o]),
            todo[o])
  /\ UNCHANGED counted

Abandon(o) ==
  /\ opc[o] = "abandon" /\ Decide(o, MarkFailed(job), {}) /\ UNCHANGED counted

Dispatch(o) ==
  /\ opc[o] = "dispatch"
  /\ \E m \in todo[o] : Enqueue(m) /\ todo' = [todo EXCEPT ![o] = @ \ {m}]
  /\ UNCHANGED <<job, storage, locks, workerVars, opc, snap, faults, counted>>

OperatorEnds(o) ==
  /\ opc[o] = "dispatch" /\ todo[o] = {}
  /\ opc' = [opc EXCEPT ![o] = "idle"] /\ snap' = [snap EXCEPT ![o] = NewRow]
  /\ UNCHANGED <<job, storage, locks, queue, workerVars, todo, faults, counted>>

\* The command or the request dies, at any of its own steps.
OperatorDies(o) ==
  /\ opc[o] # "idle" /\ faults < MaxFaults /\ faults' = faults + 1
  /\ opc' = [opc EXCEPT ![o] = "idle"] /\ snap' = [snap EXCEPT ![o] = NewRow]
  /\ todo' = [todo EXCEPT ![o] = {}]
  /\ UNCHANGED <<job, storage, locks, queue, workerVars, counted>>
-----------------------------------------------------------------------------
ChunkStep(w) ==
  \/ GetJob(w) \/ AcquireLock(w) \/ CheckOutput(w) \/ Begin(w) \/ Flush(w)
  \/ ConvertImpossible(w) \/ CountSkips(w) \/ ChunkSucceeded(w) \/ CountChunk(w)
  \/ CheckComplete(w) \/ ReleaseLock(w) \/ RecordFailure(w) \/ DispatchMerge(w)

SplitStep(w) == PutInput(w) \/ SendChunk(w)

MergeStep(w) == MergeGet(w) \/ MergeList(w) \/ WriteFinal(w) \/ Completed(w)

WorkerStep(w) == ChunkStep(w) \/ SplitStep(w) \/ MergeStep(w) \/ Retry(w) \/ Ack(w)

OperatorStep(o) ==
  Resume(o) \/ ResumeMerge(o) \/ MarkRetrying(o) \/ Abandon(o) \/ Dispatch(o)
    \/ OperatorEnds(o)

Next ==
  \/ \E w \in Workers : \/ WorkerStep(w) \/ Raise(w) \/ Crash(w)
                        \/ \E m \in Msg : Take(w, m)
  \/ \E o \in Operators : \/ Sweep(o) \/ SweepTooOld(o) \/ ManualRetry(o)
                          \/ OperatorStep(o) \/ OperatorDies(o)
  \/ \E c \in Chunks : LockExpires(c)

Spec == Init /\ [][Next]_vars

\* Workers keep running, the broker delivers, lock keys expire, and the
\* sweep runs "periodically via crontab or Celery beat".
Fairness ==
  /\ \A w \in Workers : WF_vars(WorkerStep(w))
  /\ \A m \in Msg : WF_vars(\E w \in Workers : Take(w, m))
  /\ \A c \in Chunks : WF_vars(LockExpires(c))
  /\ \A o \in Operators : WF_vars(OperatorStep(o)) /\ WF_vars(Sweep(o))

FairSpec == Spec /\ Fairness
-----------------------------------------------------------------------------
(* Properties *)

\* Every variable has the type its declaration describes.
TypeOK ==
  /\ job \in Row
  /\ inputs \subseteq Chunks /\ outputs \subseteq Chunks /\ final \subseteq Chunks
  /\ locks \subseteq Chunks /\ counted \subseteq Chunks
  /\ queue \in [Msg -> Nat]
  /\ pc \in [Workers -> PCs] /\ msg \in [Workers -> Msg]
  /\ result \in [Workers -> Result]
  /\ next \in [Workers -> Chunks] /\ listed \in [Workers -> SUBSET Chunks]
  /\ opc \in [Operators -> OpSteps] /\ snap \in [Operators -> Row]
  /\ todo \in [Operators -> SUBSET Msg]
  /\ faults \in Nat

\* The download never lacks a chunk: a job that reads DONE has a final object
\* merged from every chunk's output.  merge() takes whatever outputs it lists,
\* so this rests on the counter, the locks and the output-existence guard.
DoneIsComplete == job.status = "DONE" => final = Chunks

\* processed_chunks counts distinct chunks that have output, so it reaches
\* total_chunks only when every chunk has one.
CounterMatchesOutputs ==
  /\ job.processed = Cardinality(counted)
  /\ counted \subseteq outputs

\* acquire_chunk_lock keeps two workers from processing one chunk at a time.
OneWorkerPerChunk ==
  \A v, w \in Workers :
    pc[v] \in Locked /\ pc[w] \in Locked /\ msg[v].chunk = msg[w].chunk => v = w

\* list_stuck_partial skips a PARTIAL job without failed_chunks entries: such
\* a job would be out of every sweep's reach.
PartialHasFailures == job.status = "PARTIAL" => FailedChunks(job) # {}

\* skipped_items counts a rejected item once, however often its chunk is
\* retried: the trace is written after the output, the idempotency checkpoint.
SkipsCountedOnce == job.skipped <= Cardinality(outputs \intersect SkippingChunks)

\* A chunk task is published after its input object is stored, so no chunk
\* is recorded as permanently failed for a missing input.
ChunkTasksHaveInput ==
  /\ \A m \in Msg : m.task = "chunk" /\ queue[m] > 0 => m.chunk \in inputs
  /\ \A w \in Workers : pc[w] \in ChunkPCs => msg[w].chunk \in inputs

\* A chunk task still in flight when the job became DONE or FAILED changes
\* nothing of its row: only an operator, or a merge finishing, does.
ChunkTasksSpareTerminalJobs ==
  [][job.status \in Terminal /\ job' # job =>
       \/ \E o \in Operators : opc[o] # opc'[o]
       \/ \E w \in Workers : pc[w] = "done" /\ job' = MarkDone(job)]_vars

\* PARTIAL turns into PROCESSING only when the last failure is cleared or an
\* operator dispatches a retry, never because another chunk starts.
FailuresStayVisible ==
  [][job.status = "PARTIAL" /\ job'.status = "PROCESSING" =>
       \/ FailedChunks(job') = {}
       \/ \E o \in Operators : opc[o] \in {"resume", "resume_merge", "mark_retrying"}
                                 /\ opc'[o] = "dispatch"]_vars

\* The job ends DONE and stays so.
EventuallyDone == <>[](job.status = "DONE")


\* What the supplier sees of this pipeline is what JobOutcome promises: each
\* output once, a merge of all of them, DONE only over a whole file.
Outcome == INSTANCE JobOutcome WITH written <- outputs, merged <- final,
                                    finished <- (job.status = "DONE")
ImplementsOutcome == Outcome!Spec

-----------------------------------------------------------------------------
(* Inductive invariant behind DoneIsComplete and ImplementsOutcome, for    *)
(* locks that outlive their holders (~SlowHolders).                        *)

\* A handler runs the task its message names.
PcMatchesTask ==
  \A w \in Workers :
    /\ pc[w] \in ChunkPCs => msg[w].task = "chunk"
    /\ pc[w] \in MergePCs => msg[w].task = "merge"

HoldersAreLocked ==
  \A w \in Workers : pc[w] \in Locked => msg[w].chunk \in locks

\* The output-existence guard stays true up to Flush; from Flush to
\* CountChunk the holder's output is there and not yet counted.
GuardStaysTrue ==
  \A w \in Workers :
    /\ pc[w] \in {"begin", "flush"} => msg[w].chunk \notin outputs
    /\ pc[w] \in {"skips", "clear", "incr"} =>
         msg[w].chunk \in outputs /\ msg[w].chunk \notin counted

\* Nobody asks for a merge, or is about to, before every output exists.
NoMergeYet ==
  /\ \A m \in Msg : m.task = "merge" => queue[m] = 0
  /\ \A w \in Workers : msg[w].task # "merge" /\ result[w] # "complete" /\ pc[w] # "handoff"
  /\ \A o \in Operators : opc[o] # "resume_merge" /\ \A m \in todo[o] : m.task # "merge"

MergeMeansAllOutputs == outputs = Chunks \/ NoMergeYet

FinalIsWhole ==
  /\ final \in {{}, Chunks}
  /\ \A w \in Workers : /\ pc[w] \in {"write", "done"} => listed[w] = Chunks
                        /\ pc[w] = "done" => final = Chunks

\* The counter is exact, merges start from all outputs, and DONE follows.
IInv ==
  /\ TypeOK /\ PcMatchesTask /\ HoldersAreLocked /\ OneWorkerPerChunk
  /\ GuardStaysTrue /\ CounterMatchesOutputs /\ MergeMeansAllOutputs
  /\ FinalIsWhole /\ DoneIsComplete
=============================================================================
