-------------------------- MODULE JobPipeline_proofs -------------------------
(***************************************************************************)
(* What TLAPS proves of JobPipeline, for every number of chunks, workers   *)
(* and operators, every retry limit and any number of faults.              *)
(***************************************************************************)
EXTENDS JobPipeline, TLAPS, FiniteSetTheorems

-----------------------------------------------------------------------------
(* Messages, rows and the queue *)

LEMMA MsgType ==
  /\ SplitMsg \in Msg /\ MergeMsg \in Msg
  /\ \A c \in Chunks : ChunkMsg(c) \in Msg
  /\ \A m \in Msg : /\ m.task \in {"chunk", "split", "merge"}
                    /\ m.task = "chunk" => m.chunk \in Chunks
BY ConstantsAssumption DEF Msg, SplitMsg, MergeMsg, ChunkMsg, NoChunk, Chunks

LEMMA RetryType ==
  ASSUME NEW m \in Msg, m.retries < MaxRetries
  PROVE  /\ [m EXCEPT !.retries = @ + 1] \in Msg
         /\ [m EXCEPT !.retries = @ + 1].task = m.task
         /\ [m EXCEPT !.retries = @ + 1].chunk = m.chunk
BY ConstantsAssumption DEF Msg, NoChunk

LEMMA MergeMsgUnique ==
  \A c \in Chunks : ChunkMsg(c).task # "merge" /\ ChunkMsg(c) # MergeMsg
BY DEF ChunkMsg, MergeMsg

LEMMA RowType ==
  /\ NewRow \in Row
  /\ \A r \in Row :
       /\ StartProcessing(r) \in Row /\ SetProcessing(r) \in Row
       /\ IncrementProcessed(r) \in Row /\ IncrementSkipped(r) \in Row
       /\ MarkDone(r) \in Row /\ MarkFailed(r) \in Row /\ Reset(r) \in Row
       /\ \A c \in Chunks : /\ ClearFailedChunk(r, c) \in Row
                            /\ \A k \in Failure : AppendFailedChunk(r, c, k) \in Row
<1>1. NewRow \in Row
  BY DEF NewRow, Row, NoFailures, Status, Failure
<1>2. ASSUME NEW r \in Row
      PROVE  /\ StartProcessing(r) \in Row /\ SetProcessing(r) \in Row
             /\ IncrementProcessed(r) \in Row /\ IncrementSkipped(r) \in Row
             /\ MarkDone(r) \in Row /\ MarkFailed(r) \in Row /\ Reset(r) \in Row
  <2>1. StartProcessing(r) \in Row
    BY DEF Row, StartProcessing, Status
  <2>2. SetProcessing(r) \in Row
    BY DEF Row, SetProcessing, Status
  <2>3. IncrementProcessed(r) \in Row
    BY DEF Row, IncrementProcessed
  <2>4. IncrementSkipped(r) \in Row
    BY DEF Row, IncrementSkipped
  <2>5. MarkDone(r) \in Row /\ MarkFailed(r) \in Row
    BY DEF Row, MarkDone, MarkFailed, Status
  <2>6. Reset(r) \in Row
    BY DEF Row, Reset, NoFailures, Status, Failure
  <2>7. QED  BY <2>1, <2>2, <2>3, <2>4, <2>5, <2>6
<1>3. ASSUME NEW r \in Row, NEW c \in Chunks
      PROVE  ClearFailedChunk(r, c) \in Row
  BY DEF Row, ClearFailedChunk, Status, Failure
<1>4. ASSUME NEW r \in Row, NEW c \in Chunks, NEW k \in Failure
      PROVE  AppendFailedChunk(r, c, k) \in Row
  BY DEF Row, AppendFailedChunk, Status
<1>5. QED  BY <1>1, <1>2, <1>3, <1>4

LEMMA EnqueueType ==
  ASSUME queue \in [Msg -> Nat], NEW m \in Msg, Enqueue(m)
  PROVE  /\ queue' \in [Msg -> Nat]
         /\ \A x \in Msg : x # m => queue'[x] = queue[x]
BY DEF Enqueue
-----------------------------------------------------------------------------
(* Types *)

TypeInv == TypeOK /\ PcMatchesTask

LEMMA InitTypeInv == Init => TypeInv
BY TotalChunksAssumption, MsgType, RowType
   DEF Init, TypeInv, TypeOK, PcMatchesTask, PCs, ChunkPCs, MergePCs, Locked, TryBody,
       Result, OpSteps, Chunks, SplitMsg

LEMMA ChunkTypeInv == \A w \in Workers : TypeInv /\ ChunkStep(w) => TypeInv'
<1> SUFFICES ASSUME NEW w \in Workers, TypeInv, ChunkStep(w)  PROVE TypeInv'
  OBVIOUS
<1> USE DEF TypeInv, TypeOK, PcMatchesTask, PCs, ChunkPCs, SplitPCs, MergePCs, Locked,
            TryBody, Result, Goto, Finish, KeepWorker, KeepRest, opVars, storage
<1>0. pc[w] \in ChunkPCs => msg[w].chunk \in Chunks
  BY MsgType
<1>1. CASE GetJob(w)
  BY <1>1 DEF GetJob
<1>2. CASE AcquireLock(w)
  BY <1>0, <1>2 DEF AcquireLock
<1>3. CASE CheckOutput(w)
  BY <1>3 DEF CheckOutput
<1>4. CASE Begin(w)
  BY <1>4, RowType DEF Begin
<1>5. CASE Flush(w)
  BY <1>0, <1>5 DEF Flush
<1>6. CASE ConvertImpossible(w)
  BY <1>6 DEF ConvertImpossible
<1>7. CASE CountSkips(w)
  BY <1>7, RowType DEF CountSkips
<1>8. CASE ChunkSucceeded(w)
  BY <1>0, <1>8, RowType DEF ChunkSucceeded
<1>9. CASE CountChunk(w)
  BY <1>0, <1>9, RowType DEF CountChunk
<1>10. CASE CheckComplete(w)
  BY <1>10 DEF CheckComplete
<1>11. CASE ReleaseLock(w)
  BY <1>11 DEF ReleaseLock, AfterProcess
<1>12. CASE RecordFailure(w)
  BY <1>0, <1>12, RowType DEF RecordFailure, Failure
<1>13. CASE DispatchMerge(w)
  BY <1>13, MsgType, EnqueueType DEF DispatchMerge
<1>14. QED
  BY <1>1, <1>2, <1>3, <1>4, <1>5, <1>6, <1>7, <1>8, <1>9, <1>10, <1>11, <1>12, <1>13
     DEF ChunkStep

LEMMA OtherWorkerTypeInv ==
  \A w \in Workers :
    TypeInv /\ (SplitStep(w) \/ MergeStep(w) \/ Retry(w) \/ Ack(w)
                \/ Raise(w) \/ Crash(w) \/ \E m \in Msg : Take(w, m)) => TypeInv'
<1> SUFFICES ASSUME NEW w \in Workers, TypeInv,
                    SplitStep(w) \/ MergeStep(w) \/ Retry(w) \/ Ack(w)
                    \/ Raise(w) \/ Crash(w) \/ \E m \in Msg : Take(w, m)
             PROVE  TypeInv'
  OBVIOUS
<1> USE DEF TypeInv, TypeOK, PcMatchesTask, PCs, ChunkPCs, SplitPCs, MergePCs, Locked,
            TryBody, Result, Goto, Finish, KeepWorker, KeepRest, opVars, storage, ToIdle
<1>1. CASE PutInput(w)
  BY <1>1 DEF PutInput
<1>2. CASE SendChunk(w)
  <2>1. next' \in [Workers -> Chunks]
    BY <1>2, TotalChunksAssumption DEF SendChunk, Chunks
  <2>2. QED  BY <1>2, <2>1, MsgType, EnqueueType DEF SendChunk
<1>3. CASE MergeGet(w)
  BY <1>3 DEF MergeGet
<1>4. CASE MergeList(w)
  BY <1>4 DEF MergeList
<1>5. CASE WriteFinal(w)
  BY <1>5 DEF WriteFinal
<1>6. CASE Completed(w)
  BY <1>6, RowType DEF Completed
<1>7. CASE Retry(w)
  <2>1. queue' \in [Msg -> Nat]
    BY <1>7, RetryType, EnqueueType DEF Retry
  <2>2. QED  BY <1>7, <2>1 DEF Retry
<1>8. CASE Ack(w)
  BY <1>8, MsgType, TotalChunksAssumption DEF Ack, Chunks
<1>9. CASE Raise(w)
  BY <1>9 DEF Raise, Handler
<1>10. CASE Crash(w)
  <2>1. queue' \in [Msg -> Nat]
    BY <1>10, EnqueueType DEF Crash
  <2>2. QED  BY <1>10, <2>1, MsgType, TotalChunksAssumption DEF Crash, Chunks
<1>11. ASSUME NEW m \in Msg, Take(w, m)  PROVE TypeInv'
  <2>1. queue' \in [Msg -> Nat]
    BY <1>11 DEF Take
  <2>2. Entry(m.task) \in PCs /\ (Entry(m.task) \in ChunkPCs => m.task = "chunk")
                              /\ (Entry(m.task) \in MergePCs => m.task = "merge")
    BY MsgType DEF Entry
  <2>3. QED  BY <1>11, <2>1, <2>2 DEF Take
<1>12. QED
  BY <1>1, <1>2, <1>3, <1>4, <1>5, <1>6, <1>7, <1>8, <1>9, <1>10, <1>11
     DEF SplitStep, MergeStep

LEMMA OperatorTypeInv ==
  \A o \in Operators :
    TypeInv /\ (Sweep(o) \/ SweepTooOld(o) \/ ManualRetry(o) \/ OperatorStep(o)
                \/ OperatorDies(o)) => TypeInv'
<1> SUFFICES ASSUME NEW o \in Operators, TypeInv,
                    Sweep(o) \/ SweepTooOld(o) \/ ManualRetry(o) \/ OperatorStep(o)
                    \/ OperatorDies(o)
             PROVE  TypeInv'
  OBVIOUS
<1> USE DEF TypeInv, TypeOK, PcMatchesTask, OpSteps, storage, workerVars
<1>1. ASSUME NEW p \in OpSteps, NEW fs \in SUBSET Chunks, Read(o, p, fs)
      PROVE  TypeInv'
  <2>1. {ChunkMsg(c) : c \in fs} \subseteq Msg
    BY MsgType
  <2>2. QED  BY <1>1, <2>1 DEF Read
<1>2. Recovery \in OpSteps
  BY DEF Recovery
<1>3. CASE Sweep(o) \/ SweepTooOld(o) \/ ManualRetry(o)
  BY <1>1, <1>2, <1>3 DEF Sweep, SweepTooOld, ManualRetry, RetryableChunks, FailedChunks
<1>4. ASSUME NEW row \in Row, NEW msgs \in SUBSET Msg, Decide(o, row, msgs),
             counted' \in {counted, {}}
      PROVE  TypeInv'
  BY <1>4 DEF Decide
<1>5. CASE Resume(o)
  BY <1>4, <1>5, RowType, MsgType DEF Resume, ActivateUnless
<1>6. CASE ResumeMerge(o)
  BY <1>4, <1>6, RowType, MsgType DEF ResumeMerge, ActivateUnless
<1>7. CASE MarkRetrying(o)
  BY <1>4, <1>7, RowType DEF MarkRetrying, ActivateUnless
<1>8. CASE Abandon(o)
  BY <1>4, <1>8, RowType DEF Abandon
<1>9. CASE Dispatch(o)
  BY <1>9, EnqueueType DEF Dispatch
<1>10. CASE OperatorEnds(o)
  BY <1>10, RowType DEF OperatorEnds
<1>11. CASE OperatorDies(o)
  BY <1>11, RowType DEF OperatorDies
<1>12. QED
  BY <1>3, <1>5, <1>6, <1>7, <1>8, <1>9, <1>10, <1>11 DEF OperatorStep

LEMMA NextTypeInv == TypeInv /\ [Next]_vars => TypeInv'
<1> SUFFICES ASSUME TypeInv, [Next]_vars  PROVE TypeInv'
  OBVIOUS
<1>1. ASSUME NEW c \in Chunks, LockExpires(c)  PROVE TypeInv'
  BY <1>1 DEF LockExpires, TypeInv, TypeOK, PcMatchesTask, storage, workerVars, opVars
<1>2. CASE UNCHANGED vars
  BY <1>2 DEF vars, TypeInv, TypeOK, PcMatchesTask, storage, workerVars, opVars
<1>3. QED
  BY <1>1, <1>2, ChunkTypeInv, OtherWorkerTypeInv, OperatorTypeInv
     DEF Next, WorkerStep

\* Every variable keeps its type, whatever fails.
THEOREM TypeCorrect == Spec => []TypeOK
<1>1. TypeInv => TypeOK
  BY DEF TypeInv
<1>2. QED
  BY <1>1, InitTypeInv, NextTypeInv, PTL DEF Spec

-----------------------------------------------------------------------------
(* Locks: a chunk has one worker at a time, whose key stays until it ends  *)

LockPart == HoldersAreLocked /\ OneWorkerPerChunk

\* A worker that gets the lock key finds no other holder of it; one that
\* leaves the critical section takes only its own key away.
LEMMA NextLockPart ==
  ASSUME ~SlowHolders  PROVE TypeInv /\ LockPart /\ [Next]_vars => LockPart'
<1> SUFFICES ASSUME TypeInv, LockPart, [Next]_vars  PROVE LockPart'
  OBVIOUS
<1> USE DEF TypeInv, TypeOK, PcMatchesTask, LockPart, HoldersAreLocked, OneWorkerPerChunk,
            Locked, TryBody
<1>1. ASSUME NEW w \in Workers, ChunkStep(w)  PROVE LockPart'
  <2> USE DEF Goto, Finish, KeepWorker, KeepRest
  <2>1. CASE GetJob(w)
    BY <2>1 DEF GetJob
  <2>2. CASE AcquireLock(w)
    BY <2>2 DEF AcquireLock
  <2>3. CASE CheckOutput(w)
    BY <2>3 DEF CheckOutput
  <2>4. CASE Begin(w)
    BY <2>4 DEF Begin
  <2>5. CASE Flush(w)
    BY <2>5 DEF Flush
  <2>6. CASE ConvertImpossible(w)
    BY <2>6 DEF ConvertImpossible
  <2>7. CASE CountSkips(w)
    BY <2>7 DEF CountSkips
  <2>8. CASE ChunkSucceeded(w)
    BY <2>8 DEF ChunkSucceeded
  <2>9. CASE CountChunk(w)
    BY <2>9 DEF CountChunk
  <2>10. CASE CheckComplete(w)
    BY <2>10 DEF CheckComplete
  <2>11. CASE ReleaseLock(w)
    BY <2>11 DEF ReleaseLock, AfterProcess
  <2>12. CASE RecordFailure(w)
    BY <2>12 DEF RecordFailure
  <2>13. CASE DispatchMerge(w)
    BY <2>13 DEF DispatchMerge
  <2>14. QED
    BY <1>1, <2>1, <2>2, <2>3, <2>4, <2>5, <2>6, <2>7, <2>8, <2>9, <2>10, <2>11, <2>12,
       <2>13 DEF ChunkStep
<1>2. ASSUME NEW w \in Workers, SplitStep(w) \/ MergeStep(w)  PROVE LockPart'
  BY <1>2 DEF SplitStep, MergeStep, PutInput, SendChunk, MergeGet, MergeList, WriteFinal,
              Completed, Goto, KeepWorker, storage
<1>3. ASSUME NEW w \in Workers, Retry(w) \/ Ack(w) \/ Raise(w) \/ Crash(w)
      PROVE  LockPart'
  BY <1>3 DEF Retry, Ack, Raise, Crash, ToIdle, Handler, Goto, SplitPCs, MergePCs
<1>4. ASSUME NEW w \in Workers, NEW m \in Msg, Take(w, m)  PROVE LockPart'
  <2>1. Entry(m.task) \notin Locked
    BY MsgType DEF Entry
  <2>2. QED  BY <1>4, <2>1 DEF Take
<1>5. ASSUME NEW o \in Operators,
             Sweep(o) \/ SweepTooOld(o) \/ ManualRetry(o) \/ OperatorStep(o)
             \/ OperatorDies(o)
      PROVE  UNCHANGED <<locks, pc, msg>>
  BY <1>5 DEF Sweep, SweepTooOld, ManualRetry, Read, OperatorStep, Resume, ResumeMerge,
              MarkRetrying, Abandon, Decide, Dispatch, OperatorEnds, OperatorDies, workerVars
<1>6. ASSUME NEW c \in Chunks, LockExpires(c)  PROVE LockPart'
  BY <1>6 DEF LockExpires, Held, workerVars
<1>7. CASE UNCHANGED <<locks, pc, msg>>
  BY <1>7
<1>8. QED
  BY <1>1, <1>2, <1>3, <1>4, <1>5, <1>6, <1>7 DEF Next, WorkerStep, vars, workerVars

-----------------------------------------------------------------------------
(* The counter: processed_chunks is the number of chunks counted           *)

CountPart == GuardStaysTrue /\ CounterMatchesOutputs

\* No repository write but the increment and the reset touches the counter.
LEMMA CounterFrame ==
  \A r \in Row :
    /\ StartProcessing(r).processed = r.processed
    /\ SetProcessing(r).processed = r.processed
    /\ IncrementSkipped(r).processed = r.processed
    /\ MarkDone(r).processed = r.processed /\ MarkFailed(r).processed = r.processed
    /\ Reset(r).processed = 0
    /\ IncrementProcessed(r).processed =
         IF CanIncrement(r) THEN r.processed + 1 ELSE r.processed
    /\ \A c \in Chunks :
         /\ ClearFailedChunk(r, c).processed = r.processed
         /\ \A k \in Failure : AppendFailedChunk(r, c, k).processed = r.processed
BY DEF Row, StartProcessing, SetProcessing, IncrementSkipped, MarkDone, MarkFailed, Reset,
       IncrementProcessed, ClearFailedChunk, AppendFailedChunk

LEMMA ChunksFinite == IsFiniteSet(Chunks) /\ Cardinality(Chunks) = TotalChunks
BY TotalChunksAssumption, FS_Interval DEF Chunks

\* Counting a chunk not counted yet adds one.
LEMMA CountOne ==
  ASSUME NEW S \in SUBSET Chunks, NEW c \in Chunks, c \notin S
  PROVE  Cardinality(S \union {c}) = Cardinality(S) + 1
BY ChunksFinite, FS_Subset, FS_AddElement

\* A full counter means that every chunk was counted and every output is there.
LEMMA FullCounter ==
  TypeOK /\ CounterMatchesOutputs /\ IsComplete(job) => counted = Chunks /\ outputs = Chunks
<1> SUFFICES ASSUME TypeOK, CounterMatchesOutputs, IsComplete(job)
             PROVE  counted = Chunks /\ outputs = Chunks
  OBVIOUS
<1>1. counted \in SUBSET Chunks /\ outputs \in SUBSET Chunks /\ counted \subseteq outputs
  BY DEF TypeOK, CounterMatchesOutputs
<1>2. Cardinality(counted) >= TotalChunks
  BY DEF CounterMatchesOutputs, IsComplete
<1>3. /\ IsFiniteSet(counted) /\ Cardinality(counted) <= Cardinality(Chunks)
      /\ Cardinality(Chunks) = Cardinality(counted) => Chunks = counted
  BY <1>1, ChunksFinite, FS_Subset
<1>4. Cardinality(counted) \in Nat
  BY <1>3, FS_CardinalityType
<1>5. counted = Chunks
  BY <1>2, <1>3, <1>4, ChunksFinite, TotalChunksAssumption
<1>6. QED  BY <1>1, <1>5

LEMMA NextCountPart ==
  TypeInv /\ LockPart /\ CountPart /\ [Next]_vars => CountPart'
<1> SUFFICES ASSUME TypeInv, LockPart, CountPart, [Next]_vars  PROVE CountPart'
  OBVIOUS
<1> USE DEF TypeInv, TypeOK, PcMatchesTask, CountPart, GuardStaysTrue, CounterMatchesOutputs
<1>1. ASSUME NEW w \in Workers, ChunkStep(w)  PROVE CountPart'
  <2> USE DEF Goto, Finish, KeepWorker, KeepRest, ChunkPCs, Locked, TryBody
  <2>0. pc[w] \in ChunkPCs => msg[w].chunk \in Chunks
    BY MsgType
  <2>1. CASE GetJob(w)
    BY <2>1 DEF GetJob
  <2>2. CASE AcquireLock(w)
    BY <2>2 DEF AcquireLock
  <2>3. CASE CheckOutput(w)
    BY <2>3 DEF CheckOutput
  <2>4. CASE Begin(w)
    BY <2>4, CounterFrame DEF Begin
  <2>5. CASE Flush(w)
    <3>1. \A v \in Workers : pc[v] \in Locked /\ v # w => msg[v].chunk # msg[w].chunk
      BY <2>5 DEF Flush, LockPart, OneWorkerPerChunk
    <3>2. QED  BY <2>5, <3>1 DEF Flush
  <2>6. CASE ConvertImpossible(w)
    BY <2>6 DEF ConvertImpossible, storage
  <2>7. CASE CountSkips(w)
    BY <2>7, CounterFrame DEF CountSkips
  <2>8. CASE ChunkSucceeded(w)
    BY <2>0, <2>8, CounterFrame DEF ChunkSucceeded
  <2>9. CASE CountChunk(w)
    <3>1. \A v \in Workers : pc[v] \in Locked /\ v # w => msg[v].chunk # msg[w].chunk
      BY <2>9 DEF CountChunk, LockPart, OneWorkerPerChunk
    <3>2. job'.processed = Cardinality(counted')
      <4>1. msg[w].chunk \in Chunks /\ msg[w].chunk \notin counted
        BY <2>0, <2>9 DEF CountChunk
      <4>2. Cardinality(counted \union {msg[w].chunk}) = Cardinality(counted) + 1
        BY <4>1, CountOne
      <4>3. QED  BY <2>9, <4>2, CounterFrame DEF CountChunk
    <3>3. counted' \subseteq outputs'
      BY <2>9 DEF CountChunk
    <3>4. GuardStaysTrue'
      BY <2>9, <3>1 DEF CountChunk
    <3>5. QED  BY <3>2, <3>3, <3>4
  <2>10. CASE CheckComplete(w)
    BY <2>10 DEF CheckComplete
  <2>11. CASE ReleaseLock(w)
    BY <2>11 DEF ReleaseLock, AfterProcess
  <2>12. CASE RecordFailure(w)
    BY <2>0, <2>12, CounterFrame DEF RecordFailure, Failure
  <2>13. CASE DispatchMerge(w)
    BY <2>13 DEF DispatchMerge
  <2>14. QED
    BY <1>1, <2>1, <2>2, <2>3, <2>4, <2>5, <2>6, <2>7, <2>8, <2>9, <2>10, <2>11, <2>12,
       <2>13 DEF ChunkStep
<1>2. ASSUME NEW w \in Workers, SplitStep(w) \/ MergeStep(w)  PROVE CountPart'
  BY <1>2, CounterFrame
     DEF SplitStep, MergeStep, PutInput, SendChunk, MergeGet, MergeList, WriteFinal,
         Completed, Goto, KeepWorker, KeepRest, storage
<1>3. ASSUME NEW w \in Workers, Retry(w) \/ Ack(w) \/ Raise(w) \/ Crash(w)
      PROVE  CountPart'
  BY <1>3 DEF Retry, Ack, Raise, Crash, ToIdle, Handler, Goto, storage
<1>4. ASSUME NEW w \in Workers, NEW m \in Msg, Take(w, m)  PROVE CountPart'
  <2>1. Entry(m.task) \notin {"begin", "flush", "skips", "clear", "incr"}
    BY MsgType DEF Entry
  <2>2. QED  BY <1>4, <2>1 DEF Take, storage
<1>5. ASSUME NEW o \in Operators,
             Sweep(o) \/ SweepTooOld(o) \/ ManualRetry(o) \/ OperatorStep(o)
             \/ OperatorDies(o)
      PROVE  CountPart'
  <2> USE DEF workerVars, storage
  <2>1. CASE Sweep(o) \/ SweepTooOld(o) \/ ManualRetry(o)
    BY <2>1 DEF Sweep, SweepTooOld, ManualRetry, Read
  <2>2. CASE Resume(o)
    <3>1. UNCHANGED <<outputs, pc, msg>>
      BY <2>2 DEF Resume, Decide
    <3>2. CASE snap[o].processed = 0
      <4>1. job'.processed = 0 /\ counted' = {}
        BY <2>2, <3>2, CounterFrame DEF Resume, Decide
      <4>2. QED  BY <3>1, <4>1, FS_EmptySet
    <3>3. CASE snap[o].processed # 0
      <4>1. job'.processed = job.processed /\ counted' = counted
        BY <2>2, <3>3, CounterFrame DEF Resume, Decide, ActivateUnless
      <4>2. QED  BY <3>1, <4>1
    <3>4. QED  BY <3>2, <3>3
  <2>3. CASE ResumeMerge(o) \/ MarkRetrying(o) \/ Abandon(o)
    BY <2>3, CounterFrame
       DEF ResumeMerge, MarkRetrying, Abandon, Decide, ActivateUnless
  <2>4. CASE Dispatch(o) \/ OperatorEnds(o) \/ OperatorDies(o)
    BY <2>4 DEF Dispatch, OperatorEnds, OperatorDies
  <2>5. QED  BY <1>5, <2>1, <2>2, <2>3, <2>4 DEF OperatorStep
<1>6. ASSUME NEW c \in Chunks, LockExpires(c)  PROVE CountPart'
  BY <1>6 DEF LockExpires, workerVars, storage
<1>7. CASE UNCHANGED vars
  BY <1>7 DEF vars, workerVars, storage
<1>8. QED
  BY <1>1, <1>2, <1>3, <1>4, <1>5, <1>6, <1>7 DEF Next, WorkerStep

-----------------------------------------------------------------------------
(* The merge: asked for once every output exists, it lists all of them     *)

\* A row is DONE after a write only if it was, or if the write is mark_done.
LEMMA DoneFrame ==
  \A r \in Row :
    /\ StartProcessing(r).status = "DONE" => r.status = "DONE"
    /\ SetProcessing(r).status # "DONE" /\ Reset(r).status # "DONE"
    /\ IncrementSkipped(r).status = r.status
    /\ IncrementProcessed(r).status = r.status
    /\ MarkFailed(r).status = "DONE" => r.status = "DONE"
    /\ \A c \in Chunks :
         /\ ClearFailedChunk(r, c).status = "DONE" => r.status = "DONE"
         /\ \A k \in Failure :
              AppendFailedChunk(r, c, k).status = "DONE" => r.status = "DONE"
BY DEF Row, StartProcessing, SetProcessing, Reset, IncrementSkipped, IncrementProcessed,
       MarkFailed, ClearFailedChunk, AppendFailedChunk

\* Outputs are never deleted.
LEMMA OutputsStay == TypeInv /\ [Next]_vars => outputs \subseteq outputs'
<1> SUFFICES ASSUME TypeInv, [Next]_vars  PROVE outputs \subseteq outputs'
  OBVIOUS
<1> USE DEF storage, KeepRest
<1>1. ASSUME NEW w \in Workers, ChunkStep(w)  PROVE outputs \subseteq outputs'
  BY <1>1 DEF ChunkStep, GetJob, AcquireLock, CheckOutput, Begin, Flush, ConvertImpossible,
       CountSkips, ChunkSucceeded, CountChunk, CheckComplete, ReleaseLock, RecordFailure,
       DispatchMerge
<1>2. ASSUME NEW w \in Workers, SplitStep(w) \/ MergeStep(w)  PROVE outputs' = outputs
  BY <1>2 DEF SplitStep, MergeStep, PutInput, SendChunk, MergeGet, MergeList, WriteFinal,
              Completed
<1>3. ASSUME NEW w \in Workers,
             Retry(w) \/ Ack(w) \/ Raise(w) \/ Crash(w) \/ \E m \in Msg : Take(w, m)
      PROVE  outputs' = outputs
  BY <1>3 DEF Retry, Ack, Raise, Crash, Take
<1>4. ASSUME NEW o \in Operators,
             Sweep(o) \/ SweepTooOld(o) \/ ManualRetry(o) \/ OperatorStep(o)
             \/ OperatorDies(o)
      PROVE  outputs' = outputs
  BY <1>4 DEF Sweep, SweepTooOld, ManualRetry, Read, OperatorStep, Resume, ResumeMerge,
              MarkRetrying, Abandon, Decide, Dispatch, OperatorEnds, OperatorDies
<1>5. ASSUME NEW c \in Chunks, LockExpires(c)  PROVE outputs' = outputs
  BY <1>5 DEF LockExpires
<1>6. CASE UNCHANGED vars
  BY <1>6 DEF vars
<1>7. QED
  BY <1>1, <1>2, <1>3, <1>4, <1>5, <1>6 DEF Next, WorkerStep

\* Before the counter is full, no step asks for a merge: a chunk handler needs
\* a full counter, an operator a full counter in the row it read.
LEMMA NextNoMerge ==
  TypeInv /\ ~IsComplete(job) /\ NoMergeYet /\ [Next]_vars => NoMergeYet'
<1> SUFFICES ASSUME TypeInv, ~IsComplete(job), NoMergeYet, [Next]_vars
             PROVE  NoMergeYet'
  OBVIOUS
<1>0. ~IsComplete(job)
  OBVIOUS
<1> USE DEF TypeInv, TypeOK, PcMatchesTask, NoMergeYet
<1>1. ASSUME NEW w \in Workers, ChunkStep(w)  PROVE NoMergeYet'
  <2> USE DEF Goto, Finish, KeepWorker, KeepRest, opVars
  <2>1. CASE GetJob(w) \/ AcquireLock(w) \/ CheckOutput(w) \/ Begin(w) \/ Flush(w)
    BY <2>1 DEF GetJob, AcquireLock, CheckOutput, Begin, Flush
  <2>2. CASE ConvertImpossible(w) \/ CountSkips(w) \/ ChunkSucceeded(w)
    BY <2>2 DEF ConvertImpossible, CountSkips, ChunkSucceeded
  <2>3. CASE CountChunk(w)
    BY <2>3 DEF CountChunk
  <2>4. CASE CheckComplete(w)
    BY <1>0, <2>4 DEF CheckComplete
  <2>5. CASE ReleaseLock(w)
    BY <2>5 DEF ReleaseLock, AfterProcess
  <2>6. CASE RecordFailure(w)
    BY <2>6 DEF RecordFailure
  <2>7. CASE DispatchMerge(w)
    BY <2>7 DEF DispatchMerge
  <2>8. QED  BY <1>1, <2>1, <2>2, <2>3, <2>4, <2>5, <2>6, <2>7 DEF ChunkStep
<1>2. ASSUME NEW w \in Workers, PutInput(w)  PROVE NoMergeYet'
  BY <1>2 DEF PutInput, Goto, opVars
<1>3. ASSUME NEW w \in Workers, SendChunk(w)  PROVE NoMergeYet'
  <2>1. ChunkMsg(next[w]) \in Msg /\ ChunkMsg(next[w]).task # "merge"
    BY MsgType, MergeMsgUnique
  <2>2. QED  BY <1>3, <2>1, EnqueueType DEF SendChunk, Goto, opVars
<1>4. ASSUME NEW w \in Workers, MergeStep(w)  PROVE FALSE
  BY <1>4 DEF MergeStep, MergeGet, MergeList, WriteFinal, Completed, MergePCs
<1>5. ASSUME NEW w \in Workers, Retry(w)  PROVE NoMergeYet'
  <2>1. \A m \in Msg : m.task = "merge" => queue'[m] = 0
    <3>1. CASE msg[w].retries < MaxRetries
      <4>1. PICK x \in Msg : x.task = msg[w].task /\ Enqueue(x)
        BY <1>5, <3>1, RetryType DEF Retry
      <4>2. x.task # "merge"
        BY <4>1
      <4>3. QED  BY <4>1, <4>2, EnqueueType
    <3>2. CASE ~(msg[w].retries < MaxRetries)
      BY <1>5, <3>2 DEF Retry
    <3>3. QED  BY <3>1, <3>2
  <2>2. QED  BY <1>5, <2>1 DEF Retry, Goto, opVars
<1>6. ASSUME NEW w \in Workers, Ack(w)  PROVE NoMergeYet'
  BY <1>6 DEF Ack, ToIdle, opVars, SplitMsg
<1>7. ASSUME NEW w \in Workers, Raise(w)  PROVE NoMergeYet'
  BY <1>7 DEF Raise, Goto, Handler, opVars
<1>8. ASSUME NEW w \in Workers, Crash(w)  PROVE NoMergeYet'
  BY <1>8, EnqueueType DEF Crash, ToIdle, opVars, SplitMsg
<1>9. ASSUME NEW w \in Workers, NEW m \in Msg, Take(w, m)  PROVE NoMergeYet'
  <2>1. m.task # "merge" /\ Entry(m.task) # "handoff"
    BY <1>9, MsgType DEF Take, Entry
  <2>2. QED  BY <1>9, <2>1 DEF Take, opVars
<1>10. ASSUME NEW o \in Operators,
              Sweep(o) \/ SweepTooOld(o) \/ ManualRetry(o)
       PROVE  NoMergeYet'
  <2>1. ASSUME NEW p \in OpSteps, p # "resume_merge", NEW fs \in SUBSET Chunks,
               Read(o, p, fs)
        PROVE  NoMergeYet'
    <3>1. \A m \in {ChunkMsg(c) : c \in fs} : m.task # "merge"
      BY MergeMsgUnique
    <3>2. QED  BY <2>1, <3>1 DEF Read, workerVars
  <2>2. Recovery = "resume"
    BY <1>0 DEF Recovery
  <2>3. QED
    BY <1>10, <2>1, <2>2
       DEF Sweep, SweepTooOld, ManualRetry, RetryableChunks, FailedChunks, OpSteps
<1>11. ASSUME NEW o \in Operators, Resume(o) \/ MarkRetrying(o) \/ Abandon(o)
       PROVE  NoMergeYet'
  <2>1. PICK row, msgs : Decide(o, row, msgs) /\ msgs \in {{SplitMsg}, todo[o], {}}
    BY <1>11 DEF Resume, MarkRetrying, Abandon
  <2>2. \A m \in msgs : m.task # "merge"
    BY <2>1 DEF SplitMsg
  <2>3. QED  BY <2>1, <2>2 DEF Decide, workerVars
<1>12. ASSUME NEW o \in Operators, ResumeMerge(o)  PROVE FALSE
  BY <1>12 DEF ResumeMerge
<1>13. ASSUME NEW o \in Operators, Dispatch(o)  PROVE NoMergeYet'
  BY <1>13, EnqueueType DEF Dispatch, workerVars
<1>14. ASSUME NEW o \in Operators, OperatorEnds(o) \/ OperatorDies(o)  PROVE NoMergeYet'
  BY <1>14 DEF OperatorEnds, OperatorDies, workerVars
<1>15. ASSUME NEW c \in Chunks, LockExpires(c)  PROVE NoMergeYet'
  BY <1>15 DEF LockExpires, workerVars, opVars
<1>16. CASE UNCHANGED vars
  BY <1>16 DEF vars, workerVars, opVars
<1>17. QED
  BY <1>1, <1>2, <1>3, <1>4, <1>5, <1>6, <1>7, <1>8, <1>9, <1>10, <1>11, <1>12, <1>13,
     <1>14, <1>15, <1>16 DEF Next, WorkerStep, SplitStep, OperatorStep

FinalPart == FinalIsWhole /\ DoneIsComplete

\* The final object is written from all outputs, and DONE comes after it.
LEMMA NextFinalPart ==
  TypeInv /\ MergeMeansAllOutputs /\ FinalPart /\ [Next]_vars => FinalPart'
<1> SUFFICES ASSUME TypeInv, MergeMeansAllOutputs, FinalPart, [Next]_vars
             PROVE  FinalPart'
  OBVIOUS
<1>0. \A w \in Workers : pc[w] \in MergePCs => outputs = Chunks
  BY DEF MergeMeansAllOutputs, NoMergeYet, TypeInv, PcMatchesTask
<1> USE DEF TypeInv, TypeOK, FinalPart, FinalIsWhole, DoneIsComplete
<1>1. ASSUME NEW w \in Workers, ChunkStep(w)  PROVE FinalPart'
  <2> USE DEF Goto, Finish, KeepWorker, KeepRest
  <2>0. pc[w] \in ChunkPCs => msg[w].chunk \in Chunks
    BY MsgType DEF PcMatchesTask
  <2>1. CASE GetJob(w) \/ AcquireLock(w) \/ CheckOutput(w) \/ Flush(w)
    BY <2>1 DEF GetJob, AcquireLock, CheckOutput, Flush
  <2>2. CASE ConvertImpossible(w) \/ CheckComplete(w)
    BY <2>2 DEF ConvertImpossible, CheckComplete, storage
  <2>3. CASE Begin(w) \/ CountSkips(w)
    BY <2>3, DoneFrame DEF Begin, CountSkips
  <2>4. CASE CountChunk(w)
    BY <2>4, DoneFrame DEF CountChunk
  <2>5. CASE ChunkSucceeded(w)
    BY <2>0, <2>5, DoneFrame DEF ChunkSucceeded, ChunkPCs, Locked, TryBody
  <2>6. CASE RecordFailure(w)
    BY <2>0, <2>6, DoneFrame DEF RecordFailure, Failure, ChunkPCs
  <2>7. CASE ReleaseLock(w) \/ DispatchMerge(w)
    BY <2>7 DEF ReleaseLock, AfterProcess, DispatchMerge
  <2>8. QED  BY <1>1, <2>1, <2>2, <2>3, <2>4, <2>5, <2>6, <2>7 DEF ChunkStep
<1>2. ASSUME NEW w \in Workers, SplitStep(w)  PROVE FinalPart'
  BY <1>2 DEF SplitStep, PutInput, SendChunk, Goto, storage
<1>3. ASSUME NEW w \in Workers, MergeStep(w)  PROVE FinalPart'
  <2> USE DEF Goto, KeepWorker, KeepRest, MergePCs
  <2>1. CASE MergeGet(w)
    BY <2>1 DEF MergeGet
  <2>2. CASE MergeList(w)
    BY <1>0, <2>2 DEF MergeList
  <2>3. CASE WriteFinal(w)
    BY <2>3 DEF WriteFinal
  <2>4. CASE Completed(w)
    BY <2>4 DEF Completed
  <2>5. QED  BY <1>3, <2>1, <2>2, <2>3, <2>4 DEF MergeStep
<1>4. ASSUME NEW w \in Workers, Retry(w) \/ Ack(w) \/ Raise(w) \/ Crash(w)
      PROVE  FinalPart'
  BY <1>4 DEF Retry, Ack, Raise, Crash, ToIdle, Handler, Goto, storage
<1>5. ASSUME NEW w \in Workers, NEW m \in Msg, Take(w, m)  PROVE FinalPart'
  <2>1. Entry(m.task) \notin {"write", "done"}
    BY MsgType DEF Entry
  <2>2. QED  BY <1>5, <2>1 DEF Take, storage
<1>6. ASSUME NEW o \in Operators,
             Sweep(o) \/ SweepTooOld(o) \/ ManualRetry(o) \/ OperatorStep(o)
             \/ OperatorDies(o)
      PROVE  FinalPart'
  <2>1. UNCHANGED <<final, pc, listed>>
    BY <1>6 DEF Sweep, SweepTooOld, ManualRetry, Read, OperatorStep, Resume, ResumeMerge,
         MarkRetrying, Abandon, Decide, Dispatch, OperatorEnds, OperatorDies, workerVars,
         storage
  <2>2. job'.status = "DONE" => job.status = "DONE"
    BY <1>6, DoneFrame
       DEF Sweep, SweepTooOld, ManualRetry, Read, OperatorStep, Resume, ResumeMerge,
         MarkRetrying, Abandon, Decide, ActivateUnless, Dispatch, OperatorEnds, OperatorDies
  <2>3. QED  BY <2>1, <2>2
<1>7. ASSUME NEW c \in Chunks, LockExpires(c)  PROVE FinalPart'
  BY <1>7 DEF LockExpires, workerVars, storage
<1>8. CASE UNCHANGED vars
  BY <1>8 DEF vars, workerVars, storage
<1>9. QED
  BY <1>1, <1>2, <1>3, <1>4, <1>5, <1>6, <1>7, <1>8 DEF Next, WorkerStep

-----------------------------------------------------------------------------
(* The inductive invariant and what follows from it                        *)

LEMMA InitIInv == Init => IInv
<1> SUFFICES ASSUME Init  PROVE IInv
  OBVIOUS
<1>1. TypeInv
  BY InitTypeInv
<1>2. HoldersAreLocked /\ OneWorkerPerChunk /\ GuardStaysTrue
  BY DEF Init, HoldersAreLocked, OneWorkerPerChunk, GuardStaysTrue, Locked, TryBody
<1>3. CounterMatchesOutputs
  BY FS_EmptySet DEF Init, CounterMatchesOutputs, NewRow
<1>4. NoMergeYet
  BY DEF Init, NoMergeYet, SplitMsg
<1>5. FinalIsWhole /\ DoneIsComplete
  BY DEF Init, FinalIsWhole, DoneIsComplete, NewRow
<1>6. QED
  BY <1>1, <1>2, <1>3, <1>4, <1>5 DEF IInv, TypeInv, MergeMeansAllOutputs

LEMMA NextIInv == ASSUME ~SlowHolders  PROVE IInv /\ [Next]_vars => IInv'
<1> SUFFICES ASSUME IInv, [Next]_vars  PROVE IInv'
  OBVIOUS
<1>1. TypeInv /\ LockPart /\ CountPart /\ MergeMeansAllOutputs /\ FinalPart
  BY DEF IInv, TypeInv, LockPart, CountPart, FinalPart
<1>2. TypeInv' /\ LockPart' /\ CountPart' /\ FinalPart'
  BY <1>1, NextTypeInv, NextLockPart, NextCountPart, NextFinalPart
<1>3. MergeMeansAllOutputs'
  <2>1. CASE outputs = Chunks
    <3>1. outputs' = Chunks
      BY <1>1, <1>2, <2>1, OutputsStay DEF TypeInv, TypeOK
    <3>2. QED  BY <3>1 DEF MergeMeansAllOutputs
  <2>2. CASE outputs # Chunks
    BY <1>1, <2>2, FullCounter, NextNoMerge DEF TypeInv, CountPart, MergeMeansAllOutputs
  <2>3. QED  BY <2>1, <2>2
<1>4. QED
  BY <1>2, <1>3 DEF IInv, TypeInv, LockPart, CountPart, FinalPart

\* The strengthening is inductive while no chunk outlives its lock.
THEOREM Inductive == ASSUME ~SlowHolders  PROVE Spec => []IInv
BY InitIInv, NextIInv, PTL DEF Spec

\* A job that reads DONE has a final object made of every chunk's output,
\* whatever crashes, raises, is redelivered, swept or retried.
THEOREM DoneMeansWholeFile == ASSUME ~SlowHolders  PROVE Spec => []DoneIsComplete
<1>1. IInv => DoneIsComplete
  BY DEF IInv
<1>2. QED  BY <1>1, Inductive, PTL

\* processed_chunks is the number of distinct chunks counted since the last
\* reset, and each of them has its output.
THEOREM CounterIsExact == ASSUME ~SlowHolders  PROVE Spec => []CounterMatchesOutputs
<1>1. IInv => CounterMatchesOutputs
  BY DEF IInv
<1>2. QED  BY <1>1, Inductive, PTL

\* Two workers never hold the same chunk.
THEOREM ChunksAreExclusive == ASSUME ~SlowHolders  PROVE Spec => []OneWorkerPerChunk
<1>1. IInv => OneWorkerPerChunk
  BY DEF IInv
<1>2. QED  BY <1>1, Inductive, PTL

-----------------------------------------------------------------------------
(* The pipeline implements JobOutcome                                      *)

Unseen == /\ outputs' = outputs /\ final' = final
          /\ job'.status = "DONE" => job.status = "DONE"

\* A step the supplier cannot see, or sees as the job leaving DONE.
LEMMA UnseenStep == Unseen => [Outcome!Next]_Outcome!outcomeVars
BY DEF Unseen, Outcome!Next, Outcome!Reopen, Outcome!outcomeVars

\* Every step of the pipeline is a step of JobOutcome, or none.
LEMMA StepImplements ==
  IInv /\ [Next]_vars => [Outcome!Next]_Outcome!outcomeVars
<1> SUFFICES ASSUME IInv, [Next]_vars  PROVE [Outcome!Next]_Outcome!outcomeVars
  OBVIOUS
<1>0. TypeInv
  BY DEF IInv, TypeInv
<1>1. ASSUME NEW w \in Workers, ChunkStep(w)
      PROVE  [Outcome!Next]_Outcome!outcomeVars
  <2> USE DEF KeepRest
  <2>0. job \in Row /\ (pc[w] \in ChunkPCs => msg[w].chunk \in Chunks)
    BY <1>0, MsgType DEF TypeInv, TypeOK, PcMatchesTask
  <2>1. CASE Flush(w)
    <3>1. msg[w].chunk \in Chunks /\ msg[w].chunk \notin outputs
      BY <2>0, <2>1 DEF Flush, IInv, GuardStaysTrue, ChunkPCs, Locked, TryBody
    <3>2. Outcome!Write(msg[w].chunk)
      BY <2>1, <3>1 DEF Flush, Outcome!Write
    <3>3. QED  BY <3>1, <3>2 DEF Outcome!Next, Outcome!Chunks, Chunks
  <2>2. CASE GetJob(w) \/ AcquireLock(w) \/ CheckOutput(w) \/ ConvertImpossible(w)
             \/ CheckComplete(w) \/ ReleaseLock(w) \/ DispatchMerge(w)
    <3>1. Unseen
      BY <2>2 DEF Unseen, GetJob, AcquireLock, CheckOutput, ConvertImpossible, CheckComplete,
           ReleaseLock, DispatchMerge, storage
    <3>2. QED  BY <3>1, UnseenStep
  <2>3. CASE Begin(w) \/ CountSkips(w) \/ CountChunk(w)
    <3>1. Unseen
      BY <2>0, <2>3, DoneFrame DEF Unseen, Begin, CountSkips, CountChunk
    <3>2. QED  BY <3>1, UnseenStep
  <2>4. CASE ChunkSucceeded(w) \/ RecordFailure(w)
    <3>1. Unseen
      BY <2>0, <2>4, DoneFrame
         DEF Unseen, ChunkSucceeded, RecordFailure, Failure, ChunkPCs, Locked, TryBody
    <3>2. QED  BY <3>1, UnseenStep
  <2>5. QED  BY <1>1, <2>1, <2>2, <2>3, <2>4 DEF ChunkStep
<1>2. ASSUME NEW w \in Workers, MergeStep(w)
      PROVE  [Outcome!Next]_Outcome!outcomeVars
  <2> USE DEF KeepRest
  <2>1. CASE MergeGet(w) \/ MergeList(w)
    <3>1. Unseen
      BY <2>1 DEF Unseen, MergeGet, MergeList
    <3>2. QED  BY <3>1, UnseenStep
  <2>2. CASE WriteFinal(w)
    <3>1. outputs = Chunks
      BY <2>2 DEF WriteFinal, IInv, MergeMeansAllOutputs, NoMergeYet, PcMatchesTask, MergePCs
    <3>2. listed[w] = Chunks
      BY <2>2 DEF WriteFinal, IInv, FinalIsWhole
    <3>3. Outcome!Merge
      BY <2>2, <3>1, <3>2 DEF WriteFinal, Outcome!Merge, Outcome!Chunks, Chunks
    <3>4. QED  BY <3>3 DEF Outcome!Next
  <2>3. CASE Completed(w)
    <3>1. final = Chunks
      BY <2>3 DEF Completed, IInv, FinalIsWhole
    <3>2. job'.status = "DONE"
      BY <1>0, <2>3 DEF Completed, MarkDone, TypeInv, TypeOK, Row
    <3>3. Outcome!Complete
      BY <2>3, <3>1, <3>2 DEF Completed, Outcome!Complete, Outcome!Chunks, Chunks
    <3>4. QED  BY <3>3 DEF Outcome!Next
  <2>4. QED  BY <1>2, <2>1, <2>2, <2>3 DEF MergeStep
<1>3. ASSUME NEW w \in Workers,
             SplitStep(w) \/ Retry(w) \/ Ack(w) \/ Raise(w) \/ Crash(w)
             \/ \E m \in Msg : Take(w, m)
      PROVE  Unseen
  BY <1>3 DEF Unseen, SplitStep, PutInput, SendChunk, Retry, Ack, Raise, Crash, Take, storage
<1>4. ASSUME NEW o \in Operators,
             Sweep(o) \/ SweepTooOld(o) \/ ManualRetry(o) \/ OperatorStep(o)
             \/ OperatorDies(o)
      PROVE  Unseen
  <2>1. job \in Row
    BY <1>0 DEF TypeInv, TypeOK
  <2>2. QED
    BY <1>4, <2>1, DoneFrame
       DEF Unseen, Sweep, SweepTooOld, ManualRetry, Read, OperatorStep, Resume, ResumeMerge,
         MarkRetrying, Abandon, Decide, ActivateUnless, Dispatch, OperatorEnds, OperatorDies,
         storage
<1>5. ASSUME NEW c \in Chunks, LockExpires(c)  PROVE Unseen
  BY <1>5 DEF Unseen, LockExpires, storage
<1>6. CASE UNCHANGED vars
  BY <1>6 DEF vars, storage, Outcome!outcomeVars
<1>7. QED
  BY <1>1, <1>2, <1>3, <1>4, <1>5, <1>6, UnseenStep DEF Next, WorkerStep

\* What the supplier sees is what JobOutcome promises.
THEOREM PipelineImplementsOutcome == ASSUME ~SlowHolders  PROVE Spec => ImplementsOutcome
<1>1. Init => Outcome!Init
  BY DEF Init, Outcome!Init, NewRow
<1>2. QED
  BY <1>1, StepImplements, Inductive, PTL DEF Spec, ImplementsOutcome, Outcome!Spec

-----------------------------------------------------------------------------
(* The row's status                                                        *)

\* Each repository write keeps a PARTIAL row one with failures.
LEMMA PartialFrame ==
  \A r \in Row :
    (r.status = "PARTIAL" => FailedChunks(r) # {}) =>
      /\ \A s \in {StartProcessing(r), SetProcessing(r), IncrementProcessed(r),
                   IncrementSkipped(r), MarkDone(r), MarkFailed(r), Reset(r)} :
           s.status = "PARTIAL" => FailedChunks(s) # {}
      /\ \A c \in Chunks :
           /\ ClearFailedChunk(r, c).status = "PARTIAL" =>
                FailedChunks(ClearFailedChunk(r, c)) # {}
           /\ \A k \in {"retryable", "permanent"} :
                AppendFailedChunk(r, c, k).status = "PARTIAL" =>
                  FailedChunks(AppendFailedChunk(r, c, k)) # {}
<1> SUFFICES ASSUME NEW r \in Row, r.status = "PARTIAL" => FailedChunks(r) # {}
             PROVE  /\ \A s \in {StartProcessing(r), SetProcessing(r), IncrementProcessed(r),
                                 IncrementSkipped(r), MarkDone(r), MarkFailed(r), Reset(r)} :
                         s.status = "PARTIAL" => FailedChunks(s) # {}
                    /\ \A c \in Chunks :
                         /\ ClearFailedChunk(r, c).status = "PARTIAL" =>
                              FailedChunks(ClearFailedChunk(r, c)) # {}
                         /\ \A k \in {"retryable", "permanent"} :
                              AppendFailedChunk(r, c, k).status = "PARTIAL" =>
                                FailedChunks(AppendFailedChunk(r, c, k)) # {}
  OBVIOUS
<1>1. \A s \in {StartProcessing(r), SetProcessing(r), MarkDone(r), MarkFailed(r), Reset(r)} :
        s.status = "PARTIAL" => s = r
  BY DEF Row, StartProcessing, SetProcessing, MarkDone, MarkFailed, Reset
<1>2. \A s \in {IncrementProcessed(r), IncrementSkipped(r)} :
        s.status = r.status /\ s.failed = r.failed
  BY DEF Row, IncrementProcessed, IncrementSkipped
<1>3. ASSUME NEW c \in Chunks, ClearFailedChunk(r, c).status = "PARTIAL"
      PROVE  FailedChunks(ClearFailedChunk(r, c)) # {}
  <2>1. CASE r.status \in Terminal \/ r.failed[c] = "none"
    BY <1>3, <2>1 DEF ClearFailedChunk
  <2>2. CASE ~(r.status \in Terminal \/ r.failed[c] = "none")
    <3> DEFINE left == [r.failed EXCEPT ![c] = "none"]
    <3>1. ClearFailedChunk(r, c).failed = left /\ r.status = "PARTIAL" /\ left # NoFailures
      BY <1>3, <2>2 DEF ClearFailedChunk, Row, Status, Terminal
    <3>2. PICK d \in Chunks : left[d] # "none"
      BY <3>1 DEF Row, NoFailures
    <3>3. QED  BY <3>1, <3>2 DEF FailedChunks
  <2>3. QED  BY <2>1, <2>2
<1>4. ASSUME NEW c \in Chunks, NEW k \in {"retryable", "permanent"},
             AppendFailedChunk(r, c, k).status = "PARTIAL"
      PROVE  FailedChunks(AppendFailedChunk(r, c, k)) # {}
  BY <1>4 DEF AppendFailedChunk, FailedChunks, Row, Terminal
<1>5. \A s \in {IncrementProcessed(r), IncrementSkipped(r)} : FailedChunks(s) = FailedChunks(r)
  BY <1>2 DEF FailedChunks
<1>6. QED  BY <1>1, <1>2, <1>3, <1>4, <1>5

\* A PARTIAL job always lists a failure: the sweep and the retry view see why.
THEOREM PartialAlwaysHasFailures == Spec => []PartialHasFailures
<1>1. Init => PartialHasFailures
  BY DEF Init, PartialHasFailures, NewRow
<1>2. TypeInv /\ PartialHasFailures /\ [Next]_vars => PartialHasFailures'
  <2> SUFFICES ASSUME TypeInv, PartialHasFailures, [Next]_vars  PROVE PartialHasFailures'
    OBVIOUS
  <2>0. job \in Row
    BY DEF TypeInv, TypeOK
  <2> USE DEF PartialHasFailures
  <2>1. CASE UNCHANGED job
    BY <2>1 DEF FailedChunks
  <2>2. CASE \/ job' \in {StartProcessing(job), SetProcessing(job), IncrementProcessed(job),
                          IncrementSkipped(job), MarkDone(job), MarkFailed(job), Reset(job)}
             \/ \E c \in Chunks : job' = ClearFailedChunk(job, c)
             \/ \E c \in Chunks, k \in {"retryable", "permanent"} :
                  job' = AppendFailedChunk(job, c, k)
    <3>1. job'.status = "PARTIAL" =>
            \E s \in {job'} : s.status = "PARTIAL" /\ FailedChunks(s) # {}
      BY <2>0, <2>2, PartialFrame
    <3>2. FailedChunks(job)' = FailedChunks(job')
      BY DEF FailedChunks
    <3>3. QED  BY <3>1, <3>2
  <2>3. ASSUME NEW w \in Workers, ChunkStep(w)  PROVE PartialHasFailures'
    <3>1. pc[w] \in ChunkPCs => msg[w].chunk \in Chunks
      BY MsgType DEF TypeInv, TypeOK, PcMatchesTask
    <3>2. CASE ChunkSucceeded(w) \/ RecordFailure(w)
      BY <2>2, <3>1, <3>2 DEF ChunkSucceeded, RecordFailure, ChunkPCs, Locked, TryBody
    <3>3. CASE Begin(w) \/ CountSkips(w) \/ CountChunk(w)
      BY <2>2, <3>3 DEF Begin, CountSkips, CountChunk
    <3>4. CASE ~(ChunkSucceeded(w) \/ RecordFailure(w)
                 \/ Begin(w) \/ CountSkips(w) \/ CountChunk(w))
      BY <2>1, <2>3, <3>4 DEF ChunkStep, GetJob, AcquireLock, CheckOutput, Flush,
           ConvertImpossible, CheckComplete, ReleaseLock, DispatchMerge
    <3>5. QED  BY <3>2, <3>3, <3>4
  <2>4. ASSUME NEW w \in Workers,
               SplitStep(w) \/ MergeStep(w) \/ Retry(w) \/ Ack(w) \/ Raise(w) \/ Crash(w)
               \/ \E m \in Msg : Take(w, m)
        PROVE  PartialHasFailures'
    BY <2>1, <2>2, <2>4
       DEF SplitStep, PutInput, SendChunk, MergeStep, MergeGet, MergeList, WriteFinal,
           Completed, Retry, Ack, Raise, Crash, Take
  <2>5. ASSUME NEW o \in Operators,
               Sweep(o) \/ SweepTooOld(o) \/ ManualRetry(o) \/ OperatorStep(o)
               \/ OperatorDies(o)
        PROVE  PartialHasFailures'
    BY <2>1, <2>2, <2>5
       DEF Sweep, SweepTooOld, ManualRetry, Read, OperatorStep, Resume, ResumeMerge,
           MarkRetrying, Abandon, Decide, ActivateUnless, Dispatch, OperatorEnds, OperatorDies
  <2>6. ASSUME NEW c \in Chunks, LockExpires(c)  PROVE PartialHasFailures'
    BY <2>1, <2>6 DEF LockExpires
  <2>7. QED
    BY <2>1, <2>3, <2>4, <2>5, <2>6 DEF Next, WorkerStep, vars
<1>3. QED
  BY <1>1, <1>2, InitTypeInv, NextTypeInv, PTL DEF Spec

-----------------------------------------------------------------------------
(* The inputs: no chunk is asked for before its input object is stored     *)

QueueHasInput == \A m \in Msg : m.task = "chunk" /\ queue[m] > 0 => m.chunk \in inputs

TasksHaveInput ==
  \A w \in Workers : /\ msg[w].task = "chunk" => msg[w].chunk \in inputs
                     /\ pc[w] = "send" => next[w] \in inputs

TodoHasInput ==
  \A o \in Operators : \A m \in todo[o] : m.task = "chunk" => m.chunk \in inputs

\* An operator asks only for chunks that failed, hence were asked for before.
InputPart ==
  QueueHasInput /\ TasksHaveInput /\ TodoHasInput /\ FailedChunks(job) \subseteq inputs

LEMMA EnqueueWithInput ==
  ASSUME TypeInv, QueueHasInput, inputs' = inputs, NEW m \in Msg, Enqueue(m),
         m.task = "chunk" => m.chunk \in inputs
  PROVE  QueueHasInput'
<1>1. \A x \in Msg : x # m => queue'[x] = queue[x]
  BY EnqueueType DEF TypeInv, TypeOK
<1>2. QED  BY <1>1 DEF QueueHasInput

\* Only a failed conversion adds a failure.
LEMMA FailedFrame ==
  \A r \in Row :
    /\ \A s \in {StartProcessing(r), SetProcessing(r), IncrementProcessed(r),
                 IncrementSkipped(r), MarkDone(r), MarkFailed(r), Reset(r)} :
         FailedChunks(s) \subseteq FailedChunks(r)
    /\ \A c \in Chunks :
         /\ FailedChunks(ClearFailedChunk(r, c)) \subseteq FailedChunks(r)
         /\ \A k \in Failure :
              FailedChunks(AppendFailedChunk(r, c, k)) \subseteq FailedChunks(r) \union {c}
<1> SUFFICES ASSUME NEW r \in Row
             PROVE  /\ \A s \in {StartProcessing(r), SetProcessing(r), IncrementProcessed(r),
                                 IncrementSkipped(r), MarkDone(r), MarkFailed(r), Reset(r)} :
                         FailedChunks(s) \subseteq FailedChunks(r)
                    /\ \A c \in Chunks :
                         /\ FailedChunks(ClearFailedChunk(r, c)) \subseteq FailedChunks(r)
                         /\ \A k \in Failure :
                              FailedChunks(AppendFailedChunk(r, c, k))
                                \subseteq FailedChunks(r) \union {c}
  OBVIOUS
<1>1. \A s \in {StartProcessing(r), SetProcessing(r), IncrementProcessed(r),
                IncrementSkipped(r), MarkDone(r), MarkFailed(r)} : s.failed = r.failed
  BY DEF Row, StartProcessing, SetProcessing, IncrementProcessed, IncrementSkipped, MarkDone,
         MarkFailed
<1>2. FailedChunks(Reset(r)) = {}
  BY DEF Row, Reset, NoFailures, FailedChunks
<1>3. ASSUME NEW c \in Chunks
      PROVE  FailedChunks(ClearFailedChunk(r, c)) \subseteq FailedChunks(r)
  BY DEF ClearFailedChunk, FailedChunks, Row
<1>4. ASSUME NEW c \in Chunks, NEW k \in Failure
      PROVE  FailedChunks(AppendFailedChunk(r, c, k)) \subseteq FailedChunks(r) \union {c}
  BY DEF AppendFailedChunk, FailedChunks, Row
<1>5. \A s \in {StartProcessing(r), SetProcessing(r), IncrementProcessed(r),
                IncrementSkipped(r), MarkDone(r), MarkFailed(r)} :
        FailedChunks(s) = FailedChunks(r)
  BY <1>1 DEF FailedChunks
<1>6. QED  BY <1>2, <1>3, <1>4, <1>5

LEMMA ChunkInputPart ==
  \A w \in Workers : TypeInv /\ InputPart /\ ChunkStep(w) => InputPart'
<1> SUFFICES ASSUME NEW w \in Workers, TypeInv, InputPart, ChunkStep(w)  PROVE InputPart'
  OBVIOUS
<1>0. /\ job \in Row
      /\ pc[w] \in ChunkPCs => msg[w].task = "chunk" /\ msg[w].chunk \in Chunks
  BY MsgType DEF TypeInv, TypeOK, PcMatchesTask
<1> USE DEF KeepRest, KeepWorker
<1>1. UNCHANGED <<inputs, msg, next, todo>>
  BY DEF ChunkStep, GetJob, AcquireLock, CheckOutput, Begin, Flush, ConvertImpossible,
         CountSkips, ChunkSucceeded, CountChunk, CheckComplete, ReleaseLock, RecordFailure,
         DispatchMerge, opVars, storage
<1>2. \A v \in Workers : pc'[v] = "send" => pc[v] = "send"
  BY DEF ChunkStep, GetJob, AcquireLock, CheckOutput, Begin, Flush, ConvertImpossible,
         CountSkips, ChunkSucceeded, CountChunk, CheckComplete, ReleaseLock, RecordFailure,
         DispatchMerge, Goto, Finish, AfterProcess, TypeInv, TypeOK
<1>3. TasksHaveInput' /\ TodoHasInput'
  BY <1>1, <1>2 DEF InputPart, TasksHaveInput, TodoHasInput
<1>4. QueueHasInput'
  <2>1. CASE DispatchMerge(w)
    <3>1. Enqueue(MergeMsg) /\ MergeMsg \in Msg /\ MergeMsg.task # "chunk"
      BY <2>1, MsgType DEF DispatchMerge, MergeMsg
    <3>2. QED  BY <1>1, <3>1, EnqueueWithInput DEF InputPart
  <2>2. CASE ~DispatchMerge(w)
    <3>1. UNCHANGED queue
      BY <2>2 DEF ChunkStep, GetJob, AcquireLock, CheckOutput, Begin, Flush,
         ConvertImpossible, CountSkips, ChunkSucceeded, CountChunk, CheckComplete,
         ReleaseLock, RecordFailure
    <3>2. QED  BY <1>1, <3>1 DEF InputPart, QueueHasInput
  <2>3. QED  BY <2>1, <2>2
<1>5. FailedChunks(job') \subseteq inputs
  <2>1. CASE RecordFailure(w)
    <3>1. PICK k \in Failure : job' = AppendFailedChunk(job, msg[w].chunk, k)
      BY <2>1 DEF RecordFailure, Failure
    <3>2. msg[w].chunk \in Chunks /\ msg[w].chunk \in inputs
      BY <1>0, <2>1 DEF RecordFailure, ChunkPCs, InputPart, TasksHaveInput
    <3>3. FailedChunks(job') \subseteq FailedChunks(job) \union {msg[w].chunk}
      BY <1>0, <3>1, <3>2, FailedFrame
    <3>4. QED  BY <3>2, <3>3 DEF InputPart
  <2>2. CASE Begin(w) \/ CountSkips(w) \/ CountChunk(w)
    <3>1. job' \in {StartProcessing(job), IncrementSkipped(job), IncrementProcessed(job)}
      BY <2>2 DEF Begin, CountSkips, CountChunk
    <3>2. FailedChunks(job') \subseteq FailedChunks(job)
      BY <1>0, <3>1, FailedFrame
    <3>3. QED  BY <3>2 DEF InputPart
  <2>3. CASE ChunkSucceeded(w)
    <3>1. job' = ClearFailedChunk(job, msg[w].chunk) /\ msg[w].chunk \in Chunks
      BY <1>0, <2>3 DEF ChunkSucceeded, ChunkPCs, Locked, TryBody
    <3>2. FailedChunks(job') \subseteq FailedChunks(job)
      BY <1>0, <3>1, FailedFrame
    <3>3. QED  BY <3>2 DEF InputPart
  <2>4. CASE UNCHANGED job
    BY <2>4 DEF InputPart
  <2>5. QED
    BY <2>1, <2>2, <2>3, <2>4 DEF ChunkStep, GetJob, AcquireLock, CheckOutput, Flush,
       ConvertImpossible, CheckComplete, ReleaseLock, DispatchMerge
<1>6. FailedChunks(job)' = FailedChunks(job')
  BY DEF FailedChunks
<1>7. QED  BY <1>1, <1>3, <1>4, <1>5, <1>6 DEF InputPart

LEMMA OtherWorkerInputPart ==
  \A w \in Workers :
    TypeInv /\ InputPart /\ (SplitStep(w) \/ MergeStep(w) \/ Retry(w) \/ Ack(w)
                \/ Raise(w) \/ Crash(w) \/ \E m \in Msg : Take(w, m)) => InputPart'
<1> SUFFICES ASSUME NEW w \in Workers, TypeInv, InputPart,
                    SplitStep(w) \/ MergeStep(w) \/ Retry(w) \/ Ack(w)
                    \/ Raise(w) \/ Crash(w) \/ \E m \in Msg : Take(w, m)
             PROVE  InputPart'
  OBVIOUS
<1>0. /\ job \in Row /\ queue \in [Msg -> Nat]
      /\ pc \in [Workers -> PCs] /\ msg \in [Workers -> Msg]
      /\ next \in [Workers -> Chunks]
  BY DEF TypeInv, TypeOK
<1>a. SplitMsg.task # "chunk"
  BY DEF SplitMsg
<1> USE DEF KeepRest, KeepWorker, Goto, ToIdle, opVars, storage
<1>1. CASE PutInput(w)
  <2>1. /\ inputs \subseteq inputs' /\ next[w] \in inputs'
        /\ UNCHANGED <<job, queue, msg, next, todo>> /\ pc' = [pc EXCEPT ![w] = "send"]
    BY <1>1 DEF PutInput
  <2>2. TasksHaveInput'
    BY <1>0, <2>1 DEF InputPart, TasksHaveInput
  <2>3. QueueHasInput' /\ TodoHasInput' /\ (FailedChunks(job) \subseteq inputs)'
    BY <2>1 DEF InputPart, QueueHasInput, TodoHasInput, FailedChunks
  <2>4. QED  BY <2>2, <2>3 DEF InputPart
<1>2. CASE SendChunk(w)
  <2>1. next[w] \in inputs /\ UNCHANGED <<job, inputs, msg, todo>>
    BY <1>2 DEF SendChunk, InputPart, TasksHaveInput
  <2>2. ChunkMsg(next[w]) \in Msg /\ ChunkMsg(next[w]).chunk = next[w]
    BY <1>0, MsgType DEF ChunkMsg
  <2>3. QueueHasInput'
    BY <1>2, <2>1, <2>2, EnqueueWithInput DEF SendChunk, InputPart
  <2>4. \A v \in Workers : pc'[v] = "send" => pc[v] = "send" /\ next'[v] = next[v]
    BY <1>0, <1>2 DEF SendChunk
  <2>5. TasksHaveInput' /\ TodoHasInput' /\ (FailedChunks(job) \subseteq inputs)'
    BY <2>1, <2>4 DEF InputPart, TasksHaveInput, TodoHasInput, FailedChunks
  <2>6. QED  BY <2>3, <2>5 DEF InputPart
<1>3. CASE MergeStep(w)
  <2>1. UNCHANGED <<inputs, msg, next, todo, queue>>
    BY <1>3 DEF MergeStep, MergeGet, MergeList, WriteFinal, Completed
  <2>2. \A v \in Workers : pc'[v] = "send" => pc[v] = "send"
    BY <1>0, <1>3 DEF MergeStep, MergeGet, MergeList, WriteFinal, Completed
  <2>3. FailedChunks(job') \subseteq FailedChunks(job)
    BY <1>0, <1>3, FailedFrame DEF MergeStep, MergeGet, MergeList, WriteFinal, Completed
  <2>4. FailedChunks(job)' = FailedChunks(job')
    BY DEF FailedChunks
  <2>5. QED
    BY <2>1, <2>2, <2>3, <2>4 DEF InputPart, QueueHasInput, TasksHaveInput, TodoHasInput
<1>4. CASE Retry(w)
  <2>1. /\ UNCHANGED <<job, inputs, msg, next, todo>>
        /\ \A v \in Workers : pc'[v] = "send" => pc[v] = "send"
    BY <1>0, <1>4 DEF Retry
  <2>2. QueueHasInput'
    <3>1. CASE msg[w].retries < MaxRetries
      <4> DEFINE m == [msg[w] EXCEPT !.retries = @ + 1]
      <4>1. m \in Msg /\ m.task = msg[w].task /\ m.chunk = msg[w].chunk
        BY <1>0, <3>1, RetryType
      <4>2. Enqueue(m) /\ (m.task = "chunk" => m.chunk \in inputs)
        BY <1>4, <3>1, <4>1 DEF Retry, InputPart, TasksHaveInput
      <4> HIDE DEF m
      <4>3. QED  BY <2>1, <4>1, <4>2, EnqueueWithInput DEF InputPart
    <3>2. CASE ~(msg[w].retries < MaxRetries)
      BY <1>4, <2>1, <3>2 DEF Retry, InputPart, QueueHasInput
    <3>3. QED  BY <3>1, <3>2
  <2>3. QED
    BY <2>1, <2>2 DEF InputPart, TasksHaveInput, TodoHasInput, FailedChunks
<1>5. CASE Raise(w)
  <2>1. /\ UNCHANGED <<job, inputs, queue, msg, next, todo>>
        /\ \A v \in Workers : pc'[v] = "send" => pc[v] = "send"
    BY <1>0, <1>5 DEF Raise, Handler
  <2>2. QED
    BY <2>1 DEF InputPart, QueueHasInput, TasksHaveInput, TodoHasInput, FailedChunks
<1>6. CASE Ack(w) \/ Crash(w)
  <2>1. /\ UNCHANGED <<job, inputs, todo>> /\ ToIdle(w)
        /\ UNCHANGED queue \/ Enqueue(msg[w])
    BY <1>6 DEF Ack, Crash
  <2>2. QueueHasInput'
    BY <1>0, <2>1, EnqueueWithInput DEF InputPart, TasksHaveInput, QueueHasInput
  <2>3. TasksHaveInput'
    BY <1>0, <1>a, <2>1 DEF InputPart, TasksHaveInput
  <2>4. QED  BY <2>1, <2>2, <2>3 DEF InputPart, TodoHasInput, FailedChunks
<1>7. ASSUME NEW m \in Msg, Take(w, m)  PROVE InputPart'
  <2>1. /\ UNCHANGED <<job, inputs, next, todo>> /\ queue[m] > 0
        /\ queue' = [queue EXCEPT ![m] = @ - 1] /\ msg' = [msg EXCEPT ![w] = m]
    BY <1>7 DEF Take
  <2>2. \A v \in Workers : pc'[v] = "send" => pc[v] = "send"
    BY <1>0, <1>7, MsgType DEF Take, Entry
  <2>3. QueueHasInput'
    BY <1>0, <2>1 DEF InputPart, QueueHasInput
  <2>4. TasksHaveInput'
    BY <1>0, <2>1, <2>2 DEF InputPart, QueueHasInput, TasksHaveInput
  <2>5. QED  BY <2>1, <2>3, <2>4 DEF InputPart, TodoHasInput, FailedChunks
<1>8. QED
  BY <1>1, <1>2, <1>3, <1>4, <1>5, <1>6, <1>7 DEF SplitStep

LEMMA OperatorInputPart ==
  \A o \in Operators :
    TypeInv /\ InputPart /\ (Sweep(o) \/ SweepTooOld(o) \/ ManualRetry(o) \/ OperatorStep(o)
                \/ OperatorDies(o)) => InputPart'
<1> SUFFICES ASSUME NEW o \in Operators, TypeInv, InputPart,
                    Sweep(o) \/ SweepTooOld(o) \/ ManualRetry(o) \/ OperatorStep(o)
                    \/ OperatorDies(o)
             PROVE  InputPart'
  OBVIOUS
<1>0. /\ job \in Row /\ queue \in [Msg -> Nat]
      /\ todo \in [Operators -> SUBSET Msg]
  BY DEF TypeInv, TypeOK
<1> USE DEF storage, workerVars
<1>1. ASSUME NEW p \in OpSteps, NEW fs \in SUBSET FailedChunks(job), Read(o, p, fs)
      PROVE  InputPart'
  <2>1. \A c \in fs : ChunkMsg(c).chunk \in inputs
    BY DEF ChunkMsg, InputPart
  <2>2. /\ UNCHANGED <<job, inputs, queue, pc, msg, next>>
        /\ todo' = [todo EXCEPT ![o] = {ChunkMsg(c) : c \in fs}]
    BY <1>1 DEF Read
  <2>3. TodoHasInput'
    BY <1>0, <2>1, <2>2 DEF InputPart, TodoHasInput
  <2>4. QED  BY <2>2, <2>3 DEF InputPart, QueueHasInput, TasksHaveInput, FailedChunks
<1>2. Recovery \in OpSteps /\ {"resume", "mark_retrying", "abandon"} \subseteq OpSteps
  BY DEF Recovery, OpSteps
<1>3. CASE Sweep(o) \/ SweepTooOld(o) \/ ManualRetry(o)
  <2>1. RetryableChunks(job) \subseteq FailedChunks(job)
    BY DEF RetryableChunks, FailedChunks
  <2>2. QED  BY <1>1, <1>2, <1>3, <2>1 DEF Sweep, SweepTooOld, ManualRetry
<1>4. ASSUME NEW row, FailedChunks(row) \subseteq FailedChunks(job), NEW msgs,
             \A m \in msgs : m.task = "chunk" => m.chunk \in inputs, Decide(o, row, msgs)
      PROVE  InputPart'
  <2>1. /\ UNCHANGED <<inputs, queue, pc, msg, next>> /\ job' = row
        /\ todo' = [todo EXCEPT ![o] = msgs]
    BY <1>4 DEF Decide
  <2>2. TodoHasInput'
    BY <1>0, <1>4, <2>1 DEF InputPart, TodoHasInput
  <2>3. (FailedChunks(job) \subseteq inputs)'
    BY <1>4, <2>1 DEF InputPart, FailedChunks
  <2>4. QED  BY <2>1, <2>2, <2>3 DEF InputPart, QueueHasInput, TasksHaveInput
<1>5. /\ FailedChunks(job) \subseteq FailedChunks(job)
      /\ FailedChunks(SetProcessing(job)) \subseteq FailedChunks(job)
      /\ FailedChunks(Reset(job)) \subseteq FailedChunks(job)
      /\ FailedChunks(MarkFailed(job)) \subseteq FailedChunks(job)
  BY <1>0, FailedFrame
<1>6. SplitMsg.task # "chunk" /\ MergeMsg.task # "chunk"
  BY DEF SplitMsg, MergeMsg
<1>7. CASE Resume(o) \/ ResumeMerge(o) \/ MarkRetrying(o) \/ Abandon(o)
  <2>1. PICK row, msgs :
          /\ row \in {job, SetProcessing(job), Reset(job), MarkFailed(job)}
          /\ msgs \in {{}, {SplitMsg}, {MergeMsg}, todo[o]} /\ Decide(o, row, msgs)
    BY <1>7 DEF Resume, ResumeMerge, MarkRetrying, Abandon, ActivateUnless
  <2>2. FailedChunks(row) \subseteq FailedChunks(job)
    BY <1>5, <2>1
  <2>3. \A m \in msgs : m.task = "chunk" => m.chunk \in inputs
    BY <1>6, <2>1 DEF InputPart, TodoHasInput
  <2>4. QED  BY <1>4, <2>1, <2>2, <2>3
<1>8. CASE Dispatch(o)
  <2>1. PICK m \in todo[o] : Enqueue(m) /\ todo' = [todo EXCEPT ![o] = @ \ {m}]
    BY <1>8 DEF Dispatch
  <2>2. UNCHANGED <<job, inputs, pc, msg, next>>
    BY <1>8 DEF Dispatch
  <2>3. m \in Msg /\ (m.task = "chunk" => m.chunk \in inputs)
    BY <1>0, <2>1 DEF InputPart, TodoHasInput
  <2>4. QueueHasInput'
    BY <2>1, <2>2, <2>3, EnqueueWithInput DEF InputPart
  <2>5. TodoHasInput'
    BY <1>0, <2>1, <2>2 DEF InputPart, TodoHasInput
  <2>6. QED  BY <2>2, <2>4, <2>5 DEF InputPart, TasksHaveInput, FailedChunks
<1>9. CASE OperatorEnds(o) \/ OperatorDies(o)
  <2>1. /\ UNCHANGED <<job, inputs, queue, pc, msg, next>>
        /\ todo' \in {todo, [todo EXCEPT ![o] = {}]}
    BY <1>9 DEF OperatorEnds, OperatorDies
  <2>2. TodoHasInput'
    BY <1>0, <2>1 DEF InputPart, TodoHasInput
  <2>3. QED  BY <2>1, <2>2 DEF InputPart, QueueHasInput, TasksHaveInput, FailedChunks
<1>10. QED
  BY <1>3, <1>7, <1>8, <1>9 DEF OperatorStep

\* No chunk task is queued or run before the chunk's input object is stored,
\* not even one an operator sends again from the failures of the row.
THEOREM ChunkTasksFindInput == Spec => []ChunkTasksHaveInput
<1>1. Init => InputPart
  BY DEF Init, InputPart, QueueHasInput, TasksHaveInput, TodoHasInput, FailedChunks, NewRow,
         NoFailures, SplitMsg
<1>2. TypeInv /\ InputPart /\ [Next]_vars => InputPart'
  <2> SUFFICES ASSUME TypeInv, InputPart, [Next]_vars  PROVE InputPart'
    OBVIOUS
  <2>1. ASSUME UNCHANGED <<job, inputs, queue, pc, msg, next, todo>>  PROVE InputPart'
    BY <2>1 DEF InputPart, QueueHasInput, TasksHaveInput, TodoHasInput, FailedChunks
  <2>2. ASSUME NEW c \in Chunks, LockExpires(c)  PROVE InputPart'
    BY <2>1, <2>2 DEF LockExpires, storage, workerVars, opVars
  <2>3. QED
    BY <2>1, <2>2, ChunkInputPart, OtherWorkerInputPart, OperatorInputPart
       DEF Next, WorkerStep, vars, storage, workerVars, opVars
<1>3. TypeInv /\ InputPart => ChunkTasksHaveInput
  BY DEF TypeInv, PcMatchesTask, InputPart, QueueHasInput, TasksHaveInput, ChunkTasksHaveInput
<1>4. QED
  BY <1>1, <1>2, <1>3, InitTypeInv, NextTypeInv, PTL DEF Spec

-----------------------------------------------------------------------------
(* The skipped items: each chunk's are counted once                        *)

\* Chunks with rejected items whose output is stored and whose count is not
\* about to be written.
Accounted == {c \in outputs \intersect SkippingChunks :
              \A w \in Workers : pc[w] = "skips" => msg[w].chunk # c}

SkipPart ==
  /\ \A w \in Workers : pc[w] = "skips" => msg[w].chunk \in SkippingChunks
  /\ job.skipped <= Cardinality(Accounted)

LEMMA SkippedFrame ==
  \A r \in Row :
    /\ \A s \in {StartProcessing(r), SetProcessing(r), IncrementProcessed(r), MarkDone(r),
                 MarkFailed(r), Reset(r)} : s.skipped = r.skipped
    /\ IncrementSkipped(r).skipped \in {r.skipped, r.skipped + 1}
    /\ \A c \in Chunks :
         /\ ClearFailedChunk(r, c).skipped = r.skipped
         /\ \A k \in Failure : AppendFailedChunk(r, c, k).skipped = r.skipped
BY DEF Row, StartProcessing, SetProcessing, IncrementSkipped, MarkDone, MarkFailed, Reset,
       IncrementProcessed, ClearFailedChunk, AppendFailedChunk

LEMMA LargerSet ==
  ASSUME NEW S \in SUBSET Chunks, NEW T \in SUBSET Chunks, S \subseteq T
  PROVE  Cardinality(S) <= Cardinality(T) /\ Cardinality(S) \in Nat /\ Cardinality(T) \in Nat
BY ChunksFinite, FS_Subset, FS_CardinalityType

\* No worker comes to count skips, and none is counted.
SkipsSteady ==
  /\ job'.skipped = job.skipped
  /\ \A v \in Workers : pc'[v] = "skips" => pc[v] = "skips" /\ msg'[v] = msg[v]

LEMMA StepsOfWorkersAndSkips ==
  ASSUME NEW w \in Workers, TypeInv, WorkerStep(w), ~Flush(w), ~CountSkips(w)
  PROVE  SkipsSteady
<1>0. /\ job \in Row /\ pc \in [Workers -> PCs] /\ TypeOK
      /\ pc[w] \in ChunkPCs => msg[w].chunk \in Chunks
  BY MsgType DEF TypeInv, TypeOK, PcMatchesTask
<1> USE DEF KeepRest, KeepWorker, Goto, Finish
<1>1. CASE ChunkStep(w)
  <2>1. msg' = msg
    BY <1>1 DEF ChunkStep, GetJob, AcquireLock, CheckOutput, Begin, ConvertImpossible,
       ChunkSucceeded, CountChunk, CheckComplete, ReleaseLock, RecordFailure, DispatchMerge
  <2>2. \A v \in Workers : pc'[v] = "skips" => pc[v] = "skips"
    BY <1>0, <1>1 DEF ChunkStep, GetJob, AcquireLock, CheckOutput, Begin, ConvertImpossible,
       ChunkSucceeded, CountChunk, CheckComplete, ReleaseLock, AfterProcess, RecordFailure,
       DispatchMerge
  <2>3. job'.skipped = job.skipped
    <3>1. CASE ChunkSucceeded(w) \/ RecordFailure(w)
      BY <1>0, <3>1, SkippedFrame
         DEF ChunkSucceeded, RecordFailure, Failure, ChunkPCs, Locked, TryBody
    <3>2. CASE Begin(w) \/ CountChunk(w)
      BY <1>0, <3>2, SkippedFrame DEF Begin, CountChunk
    <3>3. CASE ~(ChunkSucceeded(w) \/ RecordFailure(w) \/ Begin(w) \/ CountChunk(w))
      BY <1>1, <3>3 DEF ChunkStep, GetJob, AcquireLock, CheckOutput, ConvertImpossible,
         CheckComplete, ReleaseLock, DispatchMerge
    <3>4. QED  BY <3>1, <3>2, <3>3
  <2>4. QED  BY <2>1, <2>2, <2>3 DEF SkipsSteady
<1>2. CASE SplitStep(w) \/ MergeStep(w)
  BY <1>0, <1>2, SkippedFrame
     DEF SkipsSteady, SplitStep, PutInput, SendChunk, MergeStep, MergeGet, MergeList,
         WriteFinal, Completed
<1>3. CASE Retry(w) \/ Ack(w)
  <2>1. /\ job' = job /\ pc' = [pc EXCEPT ![w] = IF Retry(w) THEN "ack" ELSE "idle"]
        /\ msg' = msg \/ msg' = [msg EXCEPT ![w] = SplitMsg]
    BY <1>3 DEF Retry, Ack, ToIdle
  <2>2. QED  BY <1>0, <2>1 DEF SkipsSteady, TypeOK
<1>4. QED  BY <1>1, <1>2, <1>3 DEF WorkerStep

LEMMA OtherStepsAndSkips ==
  ASSUME TypeInv,
         \/ \E w \in Workers : Raise(w) \/ Crash(w) \/ \E m \in Msg : Take(w, m)
         \/ \E o \in Operators : \/ Sweep(o) \/ SweepTooOld(o) \/ ManualRetry(o)
                                 \/ OperatorStep(o) \/ OperatorDies(o)
         \/ \E c \in Chunks : LockExpires(c)
         \/ UNCHANGED vars
  PROVE  SkipsSteady
<1>0. job \in Row /\ pc \in [Workers -> PCs] /\ msg \in [Workers -> Msg]
  BY DEF TypeInv, TypeOK
<1>1. ASSUME NEW w \in Workers, Raise(w) \/ Crash(w)  PROVE SkipsSteady
  <2>1. PICK p \in PCs \ {"skips"} : pc' = [pc EXCEPT ![w] = p]
    BY <1>0, <1>1 DEF Raise, Crash, ToIdle, Goto, Handler, SplitPCs, MergePCs, PCs, ChunkPCs,
       Locked
  <2>2. job' = job /\ (msg' = msg \/ msg' = [msg EXCEPT ![w] = SplitMsg])
    BY <1>1 DEF Raise, Crash, ToIdle
  <2>3. \A v \in Workers : v # w => msg'[v] = msg[v]
    BY <1>0, <2>2
  <2>4. QED  BY <1>0, <2>1, <2>2, <2>3 DEF SkipsSteady
<1>2. ASSUME NEW w \in Workers, NEW m \in Msg, Take(w, m)  PROVE SkipsSteady
  BY <1>0, <1>2, MsgType DEF Take, Entry, SkipsSteady
<1>3. ASSUME NEW o \in Operators,
             Sweep(o) \/ SweepTooOld(o) \/ ManualRetry(o) \/ OperatorStep(o)
             \/ OperatorDies(o)
      PROVE  SkipsSteady
  <2>1. UNCHANGED <<pc, msg>>
    BY <1>3 DEF Sweep, SweepTooOld, ManualRetry, Read, OperatorStep, Resume, ResumeMerge,
       MarkRetrying, Abandon, Decide, Dispatch, OperatorEnds, OperatorDies, workerVars
  <2>2. job'.skipped = job.skipped
    BY <1>0, <1>3, SkippedFrame
       DEF Sweep, SweepTooOld, ManualRetry, Read, OperatorStep, Resume, ResumeMerge,
       MarkRetrying, Abandon, Decide, ActivateUnless, Dispatch, OperatorEnds, OperatorDies
  <2>3. QED  BY <2>1, <2>2 DEF SkipsSteady
<1>4. ASSUME NEW c \in Chunks, LockExpires(c)  PROVE SkipsSteady
  BY <1>4 DEF LockExpires, workerVars, SkipsSteady
<1>5. CASE UNCHANGED vars
  BY <1>5 DEF vars, workerVars, SkipsSteady
<1>6. QED  BY <1>1, <1>2, <1>3, <1>4, <1>5

\* Where no worker comes to count skips, what is accounted for stays so.
LEMMA AccountedStays ==
  ASSUME TypeOK, TypeOK', SkipPart, outputs \subseteq outputs', job'.skipped = job.skipped,
         \A v \in Workers : pc'[v] = "skips" => pc[v] = "skips" /\ msg'[v] = msg[v]
  PROVE  SkipPart'
<1>1. \A v \in Workers : pc'[v] = "skips" => msg'[v].chunk \in SkippingChunks
  BY DEF SkipPart
<1>2. Accounted \subseteq Accounted'
  BY DEF Accounted
<1>3. Accounted \in SUBSET Chunks /\ Accounted' \in SUBSET Chunks
  BY DEF Accounted, TypeOK
<1>4. job.skipped \in Nat
  BY DEF TypeOK, Row
<1>5. job.skipped <= Cardinality(Accounted')
  BY <1>2, <1>3, <1>4, LargerSet DEF SkipPart
<1>6. QED  BY <1>1, <1>5 DEF SkipPart

LEMMA ChunkSkipPart ==
  ASSUME NEW w \in Workers, IInv, TypeOK', SkipPart, ChunkStep(w)
  PROVE  SkipPart'
<1>0. /\ TypeOK /\ job \in Row /\ pc \in [Workers -> PCs]
      /\ pc[w] \in ChunkPCs => msg[w].chunk \in Chunks
  BY MsgType DEF IInv, TypeOK, PcMatchesTask
<1> USE DEF KeepRest, KeepWorker, Goto, Finish
<1>1. CASE Flush(w)
  <2> DEFINE c == msg[w].chunk
  <2>1. c \notin outputs
    BY <1>1 DEF Flush, IInv, GuardStaysTrue
  <2>2. /\ outputs' = outputs \union {c} /\ UNCHANGED <<job, msg>>
        /\ \A v \in Workers : v # w => pc'[v] = pc[v]
        /\ pc[w] = "flush" /\ (pc'[w] = "skips" <=> c \in SkippingChunks)
    BY <1>0, <1>1 DEF Flush
  <2>3. \A v \in Workers : pc'[v] = "skips" => msg'[v].chunk \in SkippingChunks
    BY <2>2 DEF SkipPart
  <2>4. Accounted' = Accounted
    BY <2>1, <2>2 DEF Accounted
  <2>5. QED  BY <2>2, <2>3, <2>4 DEF SkipPart
<1>2. CASE CountSkips(w)
  <2> DEFINE c == msg[w].chunk
  <2>1. c \in outputs /\ c \in SkippingChunks /\ c \in Chunks
    BY <1>0, <1>2 DEF CountSkips, IInv, GuardStaysTrue, SkipPart, ChunkPCs, Locked, TryBody
  <2>2. \A v \in Workers : v # w /\ pc[v] = "skips" => msg[v].chunk # c
    BY <1>2 DEF CountSkips, IInv, OneWorkerPerChunk, Locked, TryBody
  <2>3. /\ UNCHANGED <<outputs, msg>> /\ pc[w] = "skips" /\ pc'[w] # "skips"
        /\ \A v \in Workers : v # w => pc'[v] = pc[v]
        /\ job' = IncrementSkipped(job)
    BY <1>0, <1>2 DEF CountSkips
  <2>4. Accounted' = Accounted \union {c} /\ c \notin Accounted
    BY <2>1, <2>2, <2>3 DEF Accounted
  <2>5. Accounted \in SUBSET Chunks
    BY <1>0 DEF Accounted, TypeOK
  <2>6. /\ Cardinality(Accounted') = Cardinality(Accounted) + 1
        /\ Cardinality(Accounted) \in Nat
    BY <2>1, <2>4, <2>5, CountOne, LargerSet
  <2>7. job'.skipped \in {job.skipped, job.skipped + 1} /\ job.skipped \in Nat
    BY <1>0, <2>3, SkippedFrame DEF Row
  <2>8. \A v \in Workers : pc'[v] = "skips" => msg'[v].chunk \in SkippingChunks
    BY <2>3 DEF SkipPart
  <2>9. QED  BY <2>6, <2>7, <2>8 DEF SkipPart
<1>3. CASE ~Flush(w) /\ ~CountSkips(w)
  <2>1. SkipsSteady /\ outputs' = outputs
    BY <1>0, <1>3, StepsOfWorkersAndSkips
       DEF IInv, TypeInv, WorkerStep, ChunkStep, GetJob, AcquireLock, CheckOutput, Begin,
           ConvertImpossible, ChunkSucceeded, CountChunk, CheckComplete, ReleaseLock,
           RecordFailure, DispatchMerge, storage
  <2>2. QED  BY <1>0, <2>1, AccountedStays DEF SkipsSteady
<1>4. QED  BY <1>1, <1>2, <1>3

\* skipped_items never exceeds the number of stored chunks with rejected
\* items, however often chunks are retried, redelivered or dispatched again.
THEOREM SkipsAreCountedOnce == ASSUME ~SlowHolders  PROVE Spec => []SkipsCountedOnce
<1>1. Init => SkipPart
  <2> SUFFICES ASSUME Init  PROVE SkipPart
    OBVIOUS
  <2>1. Accounted = {} /\ job.skipped = 0 /\ \A w \in Workers : pc[w] # "skips"
    BY DEF Init, Accounted, NewRow
  <2>2. QED  BY <2>1, FS_EmptySet DEF SkipPart
<1>2. IInv /\ IInv' /\ SkipPart /\ [Next]_vars => SkipPart'
  <2> SUFFICES ASSUME IInv, IInv', SkipPart, [Next]_vars  PROVE SkipPart'
    OBVIOUS
  <2>0. /\ TypeOK /\ TypeOK' /\ TypeInv /\ job \in Row /\ pc \in [Workers -> PCs]
        /\ outputs \subseteq outputs'
    BY OutputsStay DEF IInv, TypeOK, TypeInv
  <2>1. SkipsSteady => SkipPart'
    BY <2>0, AccountedStays DEF SkipsSteady
  <2>2. ASSUME NEW w \in Workers, WorkerStep(w)  PROVE SkipPart'
    BY <2>0, <2>1, <2>2, ChunkSkipPart, StepsOfWorkersAndSkips DEF ChunkStep
  <2>3. QED
    BY <2>0, <2>1, <2>2, OtherStepsAndSkips DEF Next
<1>3. IInv /\ SkipPart => SkipsCountedOnce
  <2> SUFFICES ASSUME IInv, SkipPart  PROVE SkipsCountedOnce
    OBVIOUS
  <2>1. /\ outputs \intersect SkippingChunks \in SUBSET Chunks /\ Accounted \in SUBSET Chunks
        /\ Accounted \subseteq outputs \intersect SkippingChunks /\ job.skipped \in Nat
    BY DEF IInv, TypeOK, Row, Accounted
  <2>2. QED  BY <2>1, LargerSet DEF SkipPart, SkipsCountedOnce
<1>4. QED
  BY <1>1, <1>2, <1>3, Inductive, PTL DEF Spec

-----------------------------------------------------------------------------
(* What a step may do to the row of a job                                  *)

\* On a terminal row only MarkDone, MarkFailed and the operators' writes act.
LEMMA TerminalFrame ==
  \A r \in Row :
    r.status \in Terminal =>
      /\ StartProcessing(r) = r /\ IncrementProcessed(r) = r /\ IncrementSkipped(r) = r
      /\ \A c \in Chunks : /\ ClearFailedChunk(r, c) = r
                           /\ \A k \in Failure : AppendFailedChunk(r, c, k) = r
BY DEF Row, Terminal, StartProcessing, IncrementProcessed, IncrementSkipped, CanIncrement,
       ClearFailedChunk, AppendFailedChunk

\* A chunk handler ends PARTIAL only with the last failure.
LEMMA PartialLeft ==
  \A r \in Row :
    r.status = "PARTIAL" =>
      /\ StartProcessing(r).status = "PARTIAL" /\ IncrementProcessed(r).status = "PARTIAL"
      /\ IncrementSkipped(r).status = "PARTIAL" /\ MarkDone(r).status = "DONE"
      /\ \A c \in Chunks :
           /\ ClearFailedChunk(r, c).status = "PROCESSING" =>
                ClearFailedChunk(r, c).failed = NoFailures
           /\ \A k \in Failure : AppendFailedChunk(r, c, k).status = "PARTIAL"
BY DEF Row, Terminal, StartProcessing, IncrementProcessed, IncrementSkipped, CanIncrement,
       MarkDone, ClearFailedChunk, AppendFailedChunk, NoFailures

\* The steps of a worker, by what they write to the row.
LEMMA WorkerWrites ==
  ASSUME NEW w \in Workers, TypeInv,
         WorkerStep(w) \/ Raise(w) \/ Crash(w) \/ \E m \in Msg : Take(w, m)
  PROVE  \/ UNCHANGED job
         \/ job' \in {StartProcessing(job), IncrementProcessed(job), IncrementSkipped(job)}
         \/ \E c \in Chunks : \/ job' = ClearFailedChunk(job, c)
                              \/ \E k \in Failure : job' = AppendFailedChunk(job, c, k)
         \/ pc[w] = "done" /\ job' = MarkDone(job)
<1>1. pc[w] \in ChunkPCs => msg[w].chunk \in Chunks
  BY MsgType DEF TypeInv, TypeOK, PcMatchesTask
<1>2. CASE ChunkSucceeded(w) \/ RecordFailure(w)
  BY <1>1, <1>2 DEF ChunkSucceeded, RecordFailure, Failure, ChunkPCs, Locked, TryBody
<1>3. CASE Begin(w) \/ CountSkips(w) \/ CountChunk(w)
  BY <1>3 DEF Begin, CountSkips, CountChunk
<1>4. CASE Completed(w)
  BY <1>4 DEF Completed
<1>5. CASE UNCHANGED job
  BY <1>5
<1>6. QED
  BY <1>2, <1>3, <1>4, <1>5
     DEF WorkerStep, ChunkStep, GetJob, AcquireLock, CheckOutput, Flush, ConvertImpossible,
         CheckComplete, ReleaseLock, DispatchMerge, SplitStep, PutInput, SendChunk,
         MergeStep, MergeGet, MergeList, WriteFinal, Retry, Ack, Raise, Crash, Take

\* An operator writes the row as it goes from its decision to its dispatch.
LEMMA OperatorWrites ==
  ASSUME NEW o \in Operators, TypeInv, job' # job,
         Sweep(o) \/ SweepTooOld(o) \/ ManualRetry(o) \/ OperatorStep(o) \/ OperatorDies(o)
  PROVE  /\ opc[o] \in {"resume", "resume_merge", "mark_retrying", "abandon"}
         /\ opc'[o] = "dispatch"
         /\ opc[o] = "abandon" => job' = MarkFailed(job)
BY DEF Sweep, SweepTooOld, ManualRetry, Read, OperatorStep, Resume, ResumeMerge, MarkRetrying,
       Abandon, Decide, Dispatch, OperatorEnds, OperatorDies, TypeInv, TypeOK

\* A late chunk task changes nothing of a job that is DONE or FAILED.
THEOREM LateTasksSpareTerminalJobs == Spec => ChunkTasksSpareTerminalJobs
<1> DEFINE Spared == job.status \in Terminal /\ job' # job =>
                       \/ \E o \in Operators : opc[o] # opc'[o]
                       \/ \E w \in Workers : pc[w] = "done" /\ job' = MarkDone(job)
<1>1. TypeInv /\ [Next]_vars => [Spared]_vars
  <2> SUFFICES ASSUME TypeInv, Next, job.status \in Terminal, job' # job
               PROVE  \/ \E o \in Operators : opc[o] # opc'[o]
                      \/ \E w \in Workers : pc[w] = "done" /\ job' = MarkDone(job)
    OBVIOUS
  <2>0. job \in Row
    BY DEF TypeInv, TypeOK
  <2>1. ASSUME NEW w \in Workers,
               WorkerStep(w) \/ Raise(w) \/ Crash(w) \/ \E m \in Msg : Take(w, m)
        PROVE  pc[w] = "done" /\ job' = MarkDone(job)
    BY <2>0, <2>1, WorkerWrites, TerminalFrame
  <2>2. ASSUME NEW o \in Operators,
               Sweep(o) \/ SweepTooOld(o) \/ ManualRetry(o) \/ OperatorStep(o)
               \/ OperatorDies(o)
        PROVE  opc[o] # opc'[o]
    BY <2>2, OperatorWrites
  <2>3. ASSUME NEW c \in Chunks, LockExpires(c)  PROVE FALSE
    BY <2>3 DEF LockExpires
  <2>4. QED  BY <2>1, <2>2, <2>3 DEF Next
<1>2. QED
  BY <1>1, InitTypeInv, NextTypeInv, PTL DEF Spec, ChunkTasksSpareTerminalJobs

\* PARTIAL turns into PROCESSING only with the last failure or by an operator.
THEOREM FailuresAreVisible == Spec => FailuresStayVisible
<1> DEFINE Visible == job.status = "PARTIAL" /\ job'.status = "PROCESSING" =>
       \/ FailedChunks(job') = {}
       \/ \E o \in Operators : opc[o] \in {"resume", "resume_merge", "mark_retrying"}
                                 /\ opc'[o] = "dispatch"
<1>1. TypeInv /\ [Next]_vars => [Visible]_vars
  <2> SUFFICES ASSUME TypeInv, Next, job.status = "PARTIAL", job'.status = "PROCESSING"
               PROVE  \/ FailedChunks(job') = {}
                      \/ \E o \in Operators :
                           opc[o] \in {"resume", "resume_merge", "mark_retrying"}
                             /\ opc'[o] = "dispatch"
    OBVIOUS
  <2>0. job \in Row /\ job' # job
    BY DEF TypeInv, TypeOK
  <2>1. ASSUME NEW w \in Workers,
               WorkerStep(w) \/ Raise(w) \/ Crash(w) \/ \E m \in Msg : Take(w, m)
        PROVE  FailedChunks(job') = {}
    <3>1. PICK c \in Chunks : job' = ClearFailedChunk(job, c)
      BY <2>0, <2>1, WorkerWrites, PartialLeft
    <3>2. job'.failed = NoFailures
      BY <2>0, <3>1, PartialLeft
    <3>3. QED  BY <3>2 DEF FailedChunks, NoFailures
  <2>2. ASSUME NEW o \in Operators,
               Sweep(o) \/ SweepTooOld(o) \/ ManualRetry(o) \/ OperatorStep(o)
               \/ OperatorDies(o)
        PROVE  /\ opc[o] \in {"resume", "resume_merge", "mark_retrying"}
               /\ opc'[o] = "dispatch"
    <3>1. MarkFailed(job).status = "FAILED"
      BY <2>0 DEF MarkFailed, Row
    <3>2. QED  BY <2>0, <2>2, <3>1, OperatorWrites
  <2>3. ASSUME NEW c \in Chunks, LockExpires(c)  PROVE FALSE
    BY <2>0, <2>3 DEF LockExpires
  <2>4. QED  BY <2>1, <2>2, <2>3 DEF Next
<1>2. QED
  BY <1>1, InitTypeInv, NextTypeInv, PTL DEF Spec, FailuresStayVisible
=============================================================================
