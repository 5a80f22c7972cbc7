-------------------------- MODULE JobReports_proofs --------------------------
(***************************************************************************)
(* What TLAPS proves of JobReports, for any number of pages, any TTLs and  *)
(* any lag, whatever the pipeline does and however its actors die.         *)
(***************************************************************************)
EXTENDS JobReports, JobPipeline_proofs

-----------------------------------------------------------------------------
(* How long a report is shown                                              *)

Longest(report) == MaxLag + IF report.row.status \in Terminal THEN LongTTL ELSE ShortTTL

\* The entry's shape, the lags, and the bound itself.
EntryInv ==
  /\ entry = [report |-> entry.report, left |-> entry.left, age |-> entry.age]
  /\ entry.left \in Nat /\ entry.age \in Nat
  /\ lag \in [Pages -> 0 .. MaxLag]
  /\ StaleForAWhile

LEMMA TTLFacts ==
  ASSUME NEW report
  PROVE  /\ TTL(report.row) \in Nat \ {0} /\ Longest(report) = MaxLag + TTL(report.row)
         /\ MaxLag \in Nat
BY ReportAssumption DEF TTL, Longest

LEMMA NoEntryFits == NoEntry = [report |-> NoReport, left |-> 0, age |-> 0]
BY DEF NoEntry

LEMMA InitEntry == ReportInit => EntryInv
BY NoEntryFits, ReportAssumption DEF ReportInit, EntryInv, StaleForAWhile, Cached

\* The steps that leave the entry and the lags alone.
Elsewhere ==
  \/ \E w \in Workers : \/ WorkerActs(w) \/ TakeMessage(w) \/ WorkerFails(w)
                        \/ WorkerDies(w) \/ MergeErrors(w) \/ InvalidationFails(w)
  \/ \E o \in Operators : OperatorStarts(o) \/ OperatorActs(o) \/ OperatorGoes(o)
  \/ \E p \in Pages : \/ Poll(p) \/ Reload(p) \/ ReadCache(p) \/ ReadRow(p)
                      \/ LookUpErrorsFile(p)
  \/ LockGoes
  \/ UNCHANGED allVars

LEMMA ElsewhereKeepsEntry == Elsewhere => UNCHANGED <<entry, lag>>
<1> USE DEF views, HalfDone, reportVars
<1>1. ASSUME NEW w \in Workers,
             \/ WorkerActs(w) \/ TakeMessage(w) \/ WorkerFails(w)
             \/ WorkerDies(w) \/ MergeErrors(w) \/ InvalidationFails(w)
      PROVE  UNCHANGED <<entry, lag>>
  BY <1>1 DEF WorkerActs, TakeMessage, WorkerFails, WorkerDies, MergeErrors, InvalidationFails
<1>2. ASSUME NEW o \in Operators, OperatorStarts(o) \/ OperatorActs(o) \/ OperatorGoes(o)
      PROVE  UNCHANGED <<entry, lag>>
  BY <1>2 DEF OperatorStarts, OperatorActs, OperatorGoes
<1>3. ASSUME NEW p \in Pages,
             Poll(p) \/ Reload(p) \/ ReadCache(p) \/ ReadRow(p) \/ LookUpErrorsFile(p)
      PROVE  UNCHANGED <<entry, lag>>
  BY <1>3 DEF Poll, Reload, Ask, ReadCache, ReadRow, LookUpErrorsFile
<1>4. LockGoes \/ UNCHANGED allVars => UNCHANGED <<entry, lag>>
  BY DEF LockGoes, allVars
<1>5. QED  BY <1>1, <1>2, <1>3, <1>4 DEF Elsewhere

LEMMA NextEntry == EntryInv /\ [ReportNext]_allVars => EntryInv'
<1> SUFFICES ASSUME EntryInv, [ReportNext]_allVars  PROVE EntryInv'
  OBVIOUS
<1>1. CASE Elsewhere
  BY <1>1, ElsewhereKeepsEntry DEF EntryInv, StaleForAWhile, Cached
<1>2. ASSUME NEW a \in Actors, Invalidate(a)  PROVE EntryInv'
  BY <1>2, NoEntryFits DEF Invalidate, views, EntryInv, StaleForAWhile, Cached
<1>3. ASSUME NEW p \in Pages, Fill(p)  PROVE EntryInv'
  <2>1. /\ entry' = [report |-> draft[p], left |-> TTL(draft[p].row), age |-> lag[p]]
        /\ lag' = [lag EXCEPT ![p] = 0]
    BY <1>3 DEF Fill
  <2>2. 0 \in 0 .. MaxLag /\ lag[p] \in 0 .. MaxLag
    BY TTLFacts DEF EntryInv
  <2>3. lag[p] + TTL(draft[p].row) <= Longest(draft[p])
    BY <2>2, TTLFacts
  <2>4. StaleForAWhile'
    BY <2>1, <2>3 DEF StaleForAWhile, Cached, Longest
  <2>5. QED  BY <2>1, <2>2, <2>4, TTLFacts DEF EntryInv
<1>4. CASE Tick
  <2>1. lag' \in [Pages -> 0 .. MaxLag]
    BY <1>4, TTLFacts DEF Tick, EntryInv
  <2>2. CASE entry.left > 1
    <3>1. entry' = [report |-> entry.report, left |-> entry.left - 1, age |-> entry.age + 1]
      BY <1>4, <2>2 DEF Tick, EntryInv
    <3>2. entry.age + entry.left <= Longest(entry.report)
      BY <2>2 DEF EntryInv, StaleForAWhile, Cached, Longest
    <3>3. StaleForAWhile'
      BY <3>1, <3>2 DEF StaleForAWhile, Cached, Longest, EntryInv
    <3>4. QED  BY <2>1, <2>2, <3>1, <3>3 DEF EntryInv
  <2>3. CASE ~(entry.left > 1)
    BY <1>4, <2>1, <2>3, NoEntryFits DEF Tick, EntryInv, StaleForAWhile, Cached
  <2>4. QED  BY <2>2, <2>3
<1>5. ASSUME NEW p \in Pages, RequestFails(p)  PROVE EntryInv'
  <2>1. entry' = entry /\ lag' = [lag EXCEPT ![p] = 0]
    BY <1>5 DEF RequestFails
  <2>2. lag' \in [Pages -> 0 .. MaxLag]
    BY <2>1, TTLFacts DEF EntryInv
  <2>3. QED  BY <2>1, <2>2 DEF EntryInv, StaleForAWhile, Cached
<1>6. QED
  BY <1>1, <1>2, <1>3, <1>4, <1>5 DEF ReportNext, Serve, Elsewhere

\* However it came to be stale, a cached report is shown for a bounded time,
\* for any number of pages and whatever the workers and the operators do.
THEOREM StaleReports == ReportSpec => []StaleForAWhile
<1>1. EntryInv => StaleForAWhile
  BY DEF EntryInv
<1>2. QED  BY <1>1, InitEntry, NextEntry, PTL DEF ReportSpec

-----------------------------------------------------------------------------
(* Types.  A worker that owes the invalidation of a step of process() is   *)
(* still in it, so the exception of a failed DEL has a chunk to unlock.    *)

DebtorsAreInside == \A w \in Workers : owes[w] \in TryBody => pc[w] \in ChunkPCs

TypePart == TypeInv /\ ReportTypeOK /\ DebtorsAreInside

LEMMA InitTypePart == ReportInit => TypePart
<1> SUFFICES ASSUME ReportInit  PROVE TypePart
  OBVIOUS
<1>1. TypeInv
  BY InitTypeInv DEF ReportInit
<1>2. NoReport \in Report
  BY RowType DEF NoReport, Report
<1>3. ReportTypeOK
  <2>1. 0 \in 0 .. LongTTL /\ 0 \in 0 .. MaxLag
    BY ReportAssumption
  <2>2. entry \in [report : Report, left : 0 .. LongTTL, age : Nat]
    BY <1>2, <2>1 DEF ReportInit, NoEntry
  <2>3. lag \in [Pages -> 0 .. MaxLag] /\ draft \in [Pages -> Report]
    BY <1>2, <2>1 DEF ReportInit
  <2>4. QED  BY <2>2, <2>3 DEF ReportInit, ReportTypeOK, Debts, Status
<1>4. DebtorsAreInside
  BY DEF ReportInit, DebtorsAreInside, TryBody, Actors
<1>5. QED  BY <1>1, <1>3, <1>4 DEF TypePart

LEMMA WorkerActsType ==
  ASSUME NEW w \in Workers, TypePart, WorkerActs(w)
  PROVE  TypePart'
<1>0. /\ TypeInv /\ owes \in [Actors -> Debts] /\ w \in Actors /\ pc \in [Workers -> PCs]
      /\ pc[w] \in ChunkPCs => msg[w].chunk \in Chunks
  BY MsgType DEF TypePart, ReportTypeOK, Actors, TypeInv, TypeOK, PcMatchesTask
<1>1. TypeInv'
  BY <1>0, NextTypeInv DEF WorkerActs, Next
<1>2. WorkerOwes(w) \in Debts /\ owes' = [owes EXCEPT ![w] = WorkerOwes(w)]
  BY DEF WorkerActs, Owe, WorkerOwes, Debts
<1>3. traces' \subseteq Chunks
  BY <1>0 DEF WorkerActs, TypePart, ReportTypeOK, ChunkPCs, Locked, TryBody
<1>4. ReportTypeOK'
  BY <1>0, <1>2, <1>3 DEF WorkerActs, RowMovesOn, views, TypePart, ReportTypeOK
<1>5. WorkerOwes(w) \in TryBody => pc'[w] \in ChunkPCs
  <2>1. WorkerOwes(w) \in TryBody => WorkerOwes(w) = pc[w] /\ pc[w] \in {"begin", "clear", "incr"}
    BY DEF WorkerOwes, TryBody
  <2>2. pc[w] = "begin" => Begin(w)
    BY DEF WorkerActs, WorkerStep, ChunkStep, GetJob, AcquireLock, CheckOutput, Flush,
         ConvertImpossible, CountSkips, ChunkSucceeded, CountChunk, CheckComplete,
         ReleaseLock, RecordFailure, DispatchMerge, SplitStep, PutInput, SendChunk,
         MergeStep, MergeGet, MergeList, WriteFinal, Completed, Retry, Ack
  <2>3. pc[w] = "clear" => ChunkSucceeded(w)
    BY DEF WorkerActs, WorkerStep, ChunkStep, GetJob, AcquireLock, CheckOutput, Begin, Flush,
         ConvertImpossible, CountSkips, CountChunk, CheckComplete,
         ReleaseLock, RecordFailure, DispatchMerge, SplitStep, PutInput, SendChunk,
         MergeStep, MergeGet, MergeList, WriteFinal, Completed, Retry, Ack
  <2>4. pc[w] = "incr" => CountChunk(w)
    BY DEF WorkerActs, WorkerStep, ChunkStep, GetJob, AcquireLock, CheckOutput, Begin, Flush,
         ConvertImpossible, CountSkips, ChunkSucceeded, CheckComplete,
         ReleaseLock, RecordFailure, DispatchMerge, SplitStep, PutInput, SendChunk,
         MergeStep, MergeGet, MergeList, WriteFinal, Completed, Retry, Ack
  <2>5. QED
    BY <1>0, <2>1, <2>2, <2>3, <2>4
       DEF Begin, ChunkSucceeded, CountChunk, Goto, Finish, ChunkPCs, Locked, TryBody
<1>6. \A v \in Workers : v # w => pc'[v] = pc[v]
  BY <1>0 DEF WorkerActs, WorkerStep, ChunkStep, GetJob, AcquireLock, CheckOutput, Begin, Flush,
       ConvertImpossible, CountSkips, ChunkSucceeded, CountChunk, CheckComplete,
       ReleaseLock, RecordFailure, DispatchMerge, SplitStep, PutInput, SendChunk,
       MergeStep, MergeGet, MergeList, WriteFinal, Completed, Retry, Ack, ToIdle, Goto, Finish
<1>7. DebtorsAreInside'
  BY <1>0, <1>2, <1>5, <1>6 DEF TypePart, DebtorsAreInside
<1>8. QED  BY <1>1, <1>4, <1>7 DEF TypePart

\* A worker whose handler is cut short owes nothing any more.
LEMMA CutShortType ==
  ASSUME NEW w \in Workers, TypePart, TypeInv', HalfDone(w), traces' \subseteq Chunks,
         \A v \in Workers : v # w => pc'[v] = pc[v]
  PROVE  TypePart'
<1>1. owes' = [owes EXCEPT ![w] = "nothing"] /\ "nothing" \in Debts \ TryBody
  BY DEF HalfDone, Owe, Debts, TryBody
<1>2. owes' \in [Actors -> Debts] /\ unswept' \in BOOLEAN
  BY <1>1 DEF HalfDone, TypePart, ReportTypeOK
<1>3. ReportTypeOK'
  BY <1>2 DEF HalfDone, views, TypePart, ReportTypeOK
<1>4. DebtorsAreInside'
  BY <1>1 DEF TypePart, ReportTypeOK, DebtorsAreInside, Actors
<1>5. QED  BY <1>3, <1>4 DEF TypePart

LEMMA WorkerFaultsType ==
  ASSUME NEW w \in Workers, TypePart,
         WorkerFails(w) \/ WorkerDies(w) \/ InvalidationFails(w)
  PROVE  TypePart'
<1>0. /\ TypeInv /\ pc \in [Workers -> PCs] /\ traces \subseteq Chunks
      /\ pc[w] = "skips" => msg[w].chunk \in Chunks
  BY MsgType DEF TypePart, ReportTypeOK, TypeInv, TypeOK, PcMatchesTask, ChunkPCs, Locked,
       TryBody
<1>1. HalfDone(w) /\ traces' \subseteq Chunks
  BY <1>0 DEF WorkerFails, WorkerDies, InvalidationFails
<1>2. \A v \in Workers : v # w => pc'[v] = pc[v]
  BY <1>0 DEF WorkerFails, WorkerDies, InvalidationFails, Raise, Crash, ToIdle, Goto
<1>3. TypeInv'
  <2>1. CASE WorkerFails(w) \/ WorkerDies(w)
    BY <1>0, <2>1, NextTypeInv DEF WorkerFails, WorkerDies, Next
  <2>2. CASE InvalidationFails(w)
    <3>1. /\ Handler(owes[w]) \in {"unlock", "record", "retry", "ack"}
          /\ Handler(owes[w]) \in {"unlock", "record"} => pc[w] \in ChunkPCs
      <4>1. /\ Handler(owes[w]) \in {"unlock", "record", "retry", "ack"}
            /\ Handler(owes[w]) \in {"unlock", "record"} =>
                 owes[w] \in TryBody \union {"get", "lock", "unlock"}
        BY DEF Handler, SplitPCs, MergePCs, TryBody
      <4>2. owes[w] \in TryBody \union {"get", "lock", "unlock"} => owes[w] \in TryBody
        BY DEF TypePart, ReportTypeOK, Actors, Debts, TryBody
      <4>3. QED  BY <4>1, <4>2 DEF TypePart, DebtorsAreInside
    <3>2. /\ pc' = [pc EXCEPT ![w] = Handler(owes[w])] /\ faults' = faults + 1
          /\ \/ result' = [result EXCEPT ![w] = "transient"]
             \/ result' = [result EXCEPT ![w] = result[w]]
          /\ UNCHANGED <<job, storage, locks, queue, msg, next, listed, opVars, counted>>
      BY <2>2 DEF InvalidationFails, Goto
    <3>3. pc' \in [Workers -> PCs] /\ result' \in [Workers -> Result] /\ faults' \in Nat
      BY <1>0, <3>1, <3>2 DEF TypeInv, TypeOK, PCs, ChunkPCs, Locked, Result
    <3>4. PcMatchesTask'
      BY <1>0, <3>1, <3>2
         DEF TypeInv, TypeOK, PcMatchesTask, ChunkPCs, Locked, TryBody, MergePCs
    <3>5. QED
      BY <1>0, <3>2, <3>3, <3>4 DEF TypeInv, TypeOK, storage, opVars
  <2>3. QED  BY <2>1, <2>2
<1>4. QED  BY <1>1, <1>2, <1>3, CutShortType

LEMMA OtherStepsType ==
  ASSUME TypePart,
         \/ \E w \in Workers : TakeMessage(w) \/ MergeErrors(w)
         \/ \E o \in Operators : OperatorStarts(o) \/ OperatorActs(o) \/ OperatorGoes(o)
         \/ \E a \in Actors : Invalidate(a)
         \/ LockGoes \/ UNCHANGED allVars
  PROVE  TypePart'
<1>0. /\ TypeInv /\ pc \in [Workers -> PCs] /\ owes \in [Actors -> Debts]
      /\ Workers \subseteq Actors /\ Operators \subseteq Actors
      /\ "nothing" \in Debts \ TryBody
  BY DEF TypePart, ReportTypeOK, Actors, TypeInv, TypeOK, Debts, TryBody
<1> USE DEF files, views, reportVars
<1>1. ASSUME NEW w \in Workers, TakeMessage(w)  PROVE TypePart'
  <2>1. TypeInv'
    BY <1>0, <1>1, NextTypeInv DEF TakeMessage, Next
  <2>2. pc[w] = "idle" /\ \A v \in Workers : v # w => pc'[v] = pc[v]
    BY <1>0, <1>1 DEF TakeMessage, Take
  <2>3. DebtorsAreInside'
    BY <1>1, <2>2 DEF TakeMessage, TypePart, DebtorsAreInside, ChunkPCs, Locked, TryBody
  <2>4. QED  BY <1>1, <2>1, <2>3 DEF TakeMessage, TypePart, ReportTypeOK
<1>2. ASSUME NEW w \in Workers, MergeErrors(w)  PROVE TypePart'
  <2>1. TypeInv'
    BY <1>0, <1>2, NextTypeInv DEF MergeErrors
  <2>2. owes' = [owes EXCEPT ![w] = "nothing"] /\ UNCHANGED pc
    BY <1>2 DEF MergeErrors, Settle, Owe, vars, workerVars
  <2>3. DebtorsAreInside'
    BY <1>0, <2>2 DEF TypePart, DebtorsAreInside
  <2>4. QED  BY <1>0, <1>2, <2>1, <2>2, <2>3 DEF MergeErrors, TypePart, ReportTypeOK
<1>3. ASSUME NEW a \in Actors, Invalidate(a)  PROVE TypePart'
  <2>1. TypeInv'
    BY <1>0, <1>3, NextTypeInv DEF Invalidate
  <2>2. owes' = [owes EXCEPT ![a] = "nothing"] /\ UNCHANGED pc
    BY <1>3 DEF Invalidate, Settle, Owe, vars, workerVars
  <2>3. entry' \in [report : Report, left : 0 .. LongTTL, age : Nat]
    BY <1>3, RowType, ReportAssumption DEF Invalidate, NoEntry, NoReport, Report
  <2>4. DebtorsAreInside'
    BY <1>0, <2>2 DEF TypePart, DebtorsAreInside
  <2>5. QED  BY <1>0, <1>3, <2>1, <2>2, <2>3, <2>4 DEF Invalidate, TypePart, ReportTypeOK
<1>4. ASSUME NEW o \in Operators, OperatorStarts(o) \/ OperatorActs(o) \/ OperatorGoes(o)
      PROVE  TypePart'
  <2>1. TypeInv'
    BY <1>0, <1>4, NextTypeInv DEF OperatorStarts, OperatorActs, OperatorGoes, Next
  <2>2. UNCHANGED pc
    BY <1>4 DEF OperatorStarts, Sweep, SweepTooOld, ManualRetry, Read, OperatorActs,
         OperatorStep, Resume, ResumeMerge, MarkRetrying, Abandon, Decide, Dispatch,
         OperatorEnds, OperatorGoes, OperatorDies, workerVars
  <2>3. PICK d \in Debts \ TryBody : owes' = owes \/ owes' = [owes EXCEPT ![o] = d]
    BY <1>0, <1>4 DEF OperatorStarts, OperatorActs, OperatorOwes, OperatorGoes, HalfDone, Owe,
         Debts, TryBody
  <2>4. DebtorsAreInside'
    BY <1>0, <2>2, <2>3 DEF TypePart, DebtorsAreInside
  <2>5. owes' \in [Actors -> Debts]
    BY <1>0, <2>3
  <2>6. ReportTypeOK'
    BY <1>4, <2>5 DEF OperatorStarts, OperatorActs, OperatorGoes, HalfDone, RowMovesOn,
         TypePart, ReportTypeOK
  <2>7. QED  BY <2>1, <2>4, <2>6 DEF TypePart
<1>5. CASE LockGoes \/ UNCHANGED allVars
  <2>1. TypeInv'
    BY <1>0, <1>5, NextTypeInv DEF LockGoes, Next, allVars
  <2>2. UNCHANGED <<pc, reportVars>>
    BY <1>5 DEF LockGoes, LockExpires, allVars, vars, workerVars
  <2>3. QED  BY <2>1, <2>2 DEF TypePart, ReportTypeOK, DebtorsAreInside
<1>6. QED  BY <1>1, <1>2, <1>3, <1>4, <1>5

LEMMA ViewsType ==
  ASSUME TypePart, Tick \/ \E p \in Pages : Poll(p) \/ Reload(p) \/ Serve(p)
  PROVE  TypePart'
<1>0. /\ TypeInv /\ UNCHANGED <<vars, files, owes>> /\ ReportTypeOK
  BY DEF TypePart, Tick, Poll, Reload, Ask, Serve, ReadCache, ReadRow, LookUpErrorsFile, Fill,
       KeepJob
<1>1. TypeInv' /\ DebtorsAreInside'
  BY <1>0, NextTypeInv DEF TypePart, DebtorsAreInside, vars, workerVars
<1>a. job \in Row /\ hasOutput \in BOOLEAN
  BY <1>0 DEF TypeInv, TypeOK, ReportTypeOK
<1> USE DEF ReportTypeOK, files, Step
<1>2. ASSUME NEW p \in Pages, Poll(p) \/ Reload(p)  PROVE ReportTypeOK'
  BY <1>0, <1>2 DEF Poll, Reload, Ask
<1>3. ASSUME NEW p \in Pages, ReadCache(p)  PROVE ReportTypeOK'
  BY <1>0, <1>3 DEF ReadCache, Show, Report, Row
<1>4. ASSUME NEW p \in Pages, ReadRow(p)  PROVE ReportTypeOK'
  <2>1. draft' \in [Pages -> Report]
    BY <1>0, <1>a, <1>4 DEF ReadRow, Report
  <2>2. vpc' \in [Pages -> {"idle", "cache", "row", "exists", "fill"}]
    BY <1>0, <1>4 DEF ReadRow
  <2>3. QED  BY <1>0, <1>4, <2>1, <2>2 DEF ReadRow
<1>5. ASSUME NEW p \in Pages, LookUpErrorsFile(p)  PROVE ReportTypeOK'
  <2>1. draft' \in [Pages -> Report]
    BY <1>0, <1>5 DEF LookUpErrorsFile, Report
  <2>2. QED  BY <1>0, <1>5, <2>1 DEF LookUpErrorsFile
<1>6. ASSUME NEW p \in Pages, Fill(p)  PROVE ReportTypeOK'
  <2>1. draft[p] \in Report /\ lag[p] \in 0 .. MaxLag /\ NoReport \in Report
    BY <1>0, RowType DEF NoReport, Report
  <2>2. TTL(draft[p].row) \in 0 .. LongTTL /\ lag[p] \in Nat /\ 0 \in 0 .. MaxLag
    BY <2>1, ReportAssumption DEF TTL
  <2>3. entry' \in [report : Report, left : 0 .. LongTTL, age : Nat]
    BY <1>6, <2>1, <2>2 DEF Fill
  <2>4. /\ draft' \in [Pages -> Report] /\ lag' \in [Pages -> 0 .. MaxLag]
        /\ page' \in [Pages -> Status \union {"error"}]
    BY <1>0, <1>6, <2>1, <2>2 DEF Fill, Show, Report, Row
  <2>5. vpc' \in [Pages -> {"idle", "cache", "row", "exists", "fill"}]
    BY <1>0, <1>6 DEF Fill
  <2>6. unswept' \in BOOLEAN /\ overtaken' \subseteq Pages
    BY <1>0, <1>6 DEF Fill
  <2>7. QED  BY <1>0, <2>3, <2>4, <2>5, <2>6
<1>7. ASSUME Tick  PROVE ReportTypeOK'
  <2>1. lag' \in [Pages -> 0 .. MaxLag]
    BY <1>0, <1>7, TTLFacts DEF Tick
  <2>2. entry' \in [report : Report, left : 0 .. LongTTL, age : Nat]
    <3>1. CASE entry.left > 1
      <4>1. entry' = [entry EXCEPT !.left = entry.left - 1, !.age = entry.age + 1]
        BY <1>7, <3>1 DEF Tick
      <4>2. entry.left - 1 \in 0 .. LongTTL /\ entry.age + 1 \in Nat
        BY <1>0, <3>1, ReportAssumption
      <4>3. QED  BY <1>0, <4>1, <4>2
    <3>2. CASE ~(entry.left > 1)
      BY <1>7, <3>2, RowType, ReportAssumption DEF Tick, NoEntry, NoReport, Report
    <3>3. QED  BY <3>1, <3>2
  <2>3. UNCHANGED <<hasOutput, traces, errorsFile, owes, vpc, draft, page, overtaken, unswept>>
    BY <1>0, <1>7 DEF Tick
  <2>4. QED  BY <1>0, <2>1, <2>2, <2>3
<1>8. QED
  BY <1>1, <1>2, <1>3, <1>4, <1>5, <1>6, <1>7 DEF TypePart, Serve

LEMMA RequestFailsType ==
  ASSUME TypePart, NEW p \in Pages, RequestFails(p)  PROVE TypePart'
<1>1. /\ TypeOK /\ ReportTypeOK /\ faults' \in 0 .. MaxFaults
      /\ UNCHANGED <<job, storage, locks, queue, workerVars, opVars, counted, files, owes>>
  BY ConstantsAssumption DEF TypePart, TypeInv, TypeOK, RequestFails
<1>2. TypeInv' /\ DebtorsAreInside'
  BY <1>1 DEF TypePart, TypeInv, TypeOK, PcMatchesTask, DebtorsAreInside, storage, workerVars,
              opVars
<1>3. NoReport \in Report /\ 0 \in 0 .. MaxLag
  BY RowType, ReportAssumption DEF NoReport, Report
<1>4. /\ vpc' \in [Pages -> {"idle", "cache", "row", "exists", "fill"}]
      /\ page' \in [Pages -> Status \union {"error"}]
  BY <1>1 DEF RequestFails, ReportTypeOK
<1>5. draft' \in [Pages -> Report] /\ lag' \in [Pages -> 0 .. MaxLag]
  BY <1>1, <1>3 DEF RequestFails, ReportTypeOK
<1>6. UNCHANGED <<entry, unswept>> /\ overtaken' \subseteq Pages
  BY <1>1 DEF RequestFails, ReportTypeOK
<1>7. ReportTypeOK'
  BY <1>1, <1>4, <1>5, <1>6 DEF ReportTypeOK, files
<1>8. QED  BY <1>2, <1>7 DEF TypePart

LEMMA NextTypePart == TypePart /\ [ReportNext]_allVars => TypePart'
BY WorkerActsType, WorkerFaultsType, OtherStepsType, ViewsType, RequestFailsType DEF ReportNext

\* Every variable keeps its type, those of the pipeline included.
THEOREM ReportTypesCorrect == ReportSpec => [](TypeOK /\ ReportTypeOK)
<1>1. TypePart => TypeOK /\ ReportTypeOK
  BY DEF TypePart, TypeInv
<1>2. QED  BY <1>1, InitTypePart, NextTypePart, PTL DEF ReportSpec

-----------------------------------------------------------------------------
(* Why a report is stale.  A draft the row has not moved on from is the    *)
(* row's; an actor that moves the row on owes the invalidation.            *)

DraftsFollowRow ==
  \A p \in Pages : Reading(p) /\ p \notin overtaken => draft[p].row = job

\* Somebody has yet to invalidate the report.
Pending == \/ \E a \in Actors : owes[a] \notin {"nothing", "write"}
           \/ \E w \in Workers : pc[w] = "clear"

RacePart == DraftsFollowRow /\ (Cached /\ entry.report.row # job => unswept \/ Pending)

\* A step of the pipeline that keeps the report's promise keeps RacePart.
LEMMA PipelineKeepsRace ==
  ASSUME RacePart, UNCHANGED <<entry, draft, vpc>>,
         overtaken' = overtaken \/ RowMovesOn, job' = job \/ RowMovesOn,
         job' # job => unswept' \/ Pending',
         unswept \/ Pending => unswept' \/ Pending'
  PROVE  RacePart'
<1>1. DraftsFollowRow'
  BY DEF RacePart, DraftsFollowRow, RowMovesOn, Reading
<1>2. (Cached /\ entry.report.row # job => unswept \/ Pending)'
  BY DEF RacePart, Cached
<1>3. QED  BY <1>1, <1>2 DEF RacePart

LEMMA WorkerActsRace ==
  ASSUME NEW w \in Workers, TypePart, RacePart, WorkerActs(w)  PROVE RacePart'
<1>0. /\ job \in Row /\ pc \in [Workers -> PCs] /\ owes \in [Actors -> Debts] /\ w \in Actors
  BY DEF TypePart, ReportTypeOK, Actors, TypeInv, TypeOK
<1>1. /\ owes[w] = "nothing" /\ owes' = [owes EXCEPT ![w] = WorkerOwes(w)]
      /\ UNCHANGED <<entry, draft, vpc, unswept>> /\ RowMovesOn /\ WorkerStep(w)
  BY DEF WorkerActs, Owe, views
<1>2. WorkerOwes(w) \notin {"nothing", "write"} => Pending'
  BY <1>0, <1>1 DEF Pending
<1>3. \A v \in Workers : v # w => pc'[v] = pc[v]
  BY <1>0, <1>1 DEF WorkerStep, ChunkStep, GetJob, AcquireLock, CheckOutput, Begin, Flush,
       ConvertImpossible, CountSkips, ChunkSucceeded, CountChunk, CheckComplete,
       ReleaseLock, RecordFailure, DispatchMerge, SplitStep, PutInput, SendChunk,
       MergeStep, MergeGet, MergeList, WriteFinal, Completed, Retry, Ack, ToIdle, Goto, Finish
<1>4. pc[w] = "clear" => Pending'
  BY <1>2 DEF WorkerOwes
<1>5. unswept \/ Pending => unswept' \/ Pending'
  <2>1. ASSUME NEW a \in Actors, owes[a] \notin {"nothing", "write"}  PROVE Pending'
    BY <1>0, <1>1, <2>1 DEF Pending
  <2>2. ASSUME NEW v \in Workers, pc[v] = "clear"  PROVE Pending'
    BY <1>3, <1>4, <2>2 DEF Pending
  <2>3. QED  BY <1>1, <2>1, <2>2 DEF Pending
<1>6. job' # job => Pending'
  <2>1. CASE Begin(w) \/ ChunkSucceeded(w) \/ CountChunk(w) \/ RecordFailure(w)
    <3>1. WorkerOwes(w) \in {"begin", "clear", "incr", "record"}
      BY <2>1 DEF Begin, ChunkSucceeded, CountChunk, RecordFailure, WorkerOwes
    <3>2. QED  BY <1>2, <3>1
  <2>2. CASE CountSkips(w)
    <3>1. pc'[w] = "clear"
      BY <1>0, <2>2 DEF CountSkips, Goto
    <3>2. QED  BY <3>1 DEF Pending
  <2>3. CASE Completed(w)
    <3>1. CASE job.status = "DONE"
      <4>1. job' = job
        BY <1>0, <2>3, <3>1 DEF Completed, MarkDone, Row
      <4>2. QED  BY <4>1
    <3>2. CASE job.status # "DONE"
      BY <1>2, <2>3, <3>2 DEF Completed, WorkerOwes
    <3>3. QED  BY <3>1, <3>2
  <2>4. CASE UNCHANGED job
    BY <2>4
  <2>5. QED
    BY <1>1, <2>1, <2>2, <2>3, <2>4
       DEF WorkerStep, ChunkStep, GetJob, AcquireLock, CheckOutput, Flush,
       ConvertImpossible, CheckComplete, ReleaseLock, DispatchMerge, SplitStep, PutInput,
       SendChunk, MergeStep, MergeGet, MergeList, WriteFinal, Retry, Ack
<1>7. QED  BY <1>1, <1>5, <1>6, PipelineKeepsRace

LEMMA OperatorActsRace ==
  ASSUME NEW o \in Operators, TypePart, RacePart, OperatorActs(o)  PROVE RacePart'
<1>0. /\ job \in Row /\ owes \in [Actors -> Debts] /\ o \in Actors
  BY DEF TypePart, ReportTypeOK, Actors, TypeInv, TypeOK
<1>1. /\ owes[o] = "nothing" /\ owes' = [owes EXCEPT ![o] = OperatorOwes(o)]
      /\ UNCHANGED <<entry, draft, vpc, unswept>> /\ RowMovesOn /\ OperatorStep(o)
  BY DEF OperatorActs, Owe, views
<1>2. UNCHANGED pc
  BY <1>1 DEF OperatorStep, Resume, ResumeMerge, MarkRetrying, Abandon, Decide, Dispatch,
       OperatorEnds, workerVars
<1>3. unswept \/ Pending => unswept' \/ Pending'
  BY <1>0, <1>1, <1>2 DEF Pending
<1>4. job' # job => OperatorOwes(o) \in {"resume", "abandon", "resume_merge", "mark_retrying"}
  <2>1. CASE Resume(o) \/ Abandon(o)
    BY <2>1 DEF Resume, Abandon, OperatorOwes
  <2>2. CASE ResumeMerge(o)
    BY <2>2 DEF ResumeMerge, Decide, ActivateUnless, OperatorOwes
  <2>3. CASE MarkRetrying(o)
    BY <2>3 DEF MarkRetrying, Decide, ActivateUnless, OperatorOwes
  <2>4. CASE Dispatch(o) \/ OperatorEnds(o)
    BY <2>4 DEF Dispatch, OperatorEnds
  <2>5. QED  BY <1>1, <2>1, <2>2, <2>3, <2>4 DEF OperatorStep
<1>5. job' # job => Pending'
  BY <1>0, <1>1, <1>4 DEF Pending
<1>6. QED  BY <1>1, <1>3, <1>5, PipelineKeepsRace

\* An actor that is cut short leaves its debt to the entry's TTL.
LEMMA CutShortRace ==
  ASSUME NEW a \in Actors, TypePart, RacePart, HalfDone(a), UNCHANGED job,
         \A v \in Workers : pc[v] = "clear" /\ v # a => pc'[v] = "clear"
  PROVE  RacePart'
<1>0. owes \in [Actors -> Debts] /\ UNCHANGED <<entry, draft, vpc, overtaken>>
  BY DEF TypePart, ReportTypeOK, HalfDone, views
<1>1. /\ owes' = [owes EXCEPT ![a] = "nothing"]
      /\ unswept' = (unswept \/ owes[a] # "nothing" \/ (a \in Workers /\ pc[a] = "clear"))
  BY DEF HalfDone, Owe
<1>2. ASSUME NEW b \in Actors, owes[b] \notin {"nothing", "write"}  PROVE unswept' \/ Pending'
  <2>1. CASE b = a
    BY <1>1, <1>2, <2>1
  <2>2. CASE b # a
    BY <1>0, <1>1, <1>2, <2>2 DEF Pending
  <2>3. QED  BY <2>1, <2>2
<1>3. ASSUME NEW v \in Workers, pc[v] = "clear"  PROVE unswept' \/ Pending'
  BY <1>1, <1>3 DEF Pending
<1>4. unswept \/ Pending => unswept' \/ Pending'
  BY <1>1, <1>2, <1>3 DEF Pending
<1>5. QED  BY <1>0, <1>4, PipelineKeepsRace

LEMMA FaultsRace ==
  ASSUME TypePart, RacePart,
         \/ \E w \in Workers : WorkerFails(w) \/ WorkerDies(w) \/ InvalidationFails(w)
         \/ \E o \in Operators : OperatorGoes(o)
  PROVE  RacePart'
<1>0. pc \in [Workers -> PCs]
  BY DEF TypePart, TypeInv, TypeOK
<1>1. ASSUME NEW w \in Workers, WorkerFails(w) \/ WorkerDies(w) \/ InvalidationFails(w)
      PROVE  RacePart'
  <2>1. HalfDone(w) /\ UNCHANGED job /\ w \in Actors
    BY <1>1 DEF WorkerFails, Raise, WorkerDies, Crash, InvalidationFails, Actors
  <2>2. \A v \in Workers : v # w => pc'[v] = pc[v]
    BY <1>0, <1>1 DEF WorkerFails, Raise, WorkerDies, Crash, InvalidationFails, ToIdle, Goto
  <2>3. QED  BY <2>1, <2>2, CutShortRace
<1>2. ASSUME NEW o \in Operators, OperatorGoes(o)  PROVE RacePart'
  <2>1. HalfDone(o) /\ UNCHANGED <<job, pc>> /\ o \in Actors
    BY <1>2 DEF OperatorGoes, OperatorDies, workerVars, Actors
  <2>2. QED  BY <2>1, CutShortRace
<1>3. QED  BY <1>1, <1>2

\* Steps that neither move the row on nor settle a debt, but on the entry.
LEMMA QuietRace ==
  ASSUME TypePart, RacePart,
         \/ \E w \in Workers : TakeMessage(w) \/ MergeErrors(w)
         \/ \E o \in Operators : OperatorStarts(o)
         \/ \E a \in Actors : Invalidate(a)
         \/ LockGoes \/ UNCHANGED allVars
  PROVE  RacePart'
<1>0. pc \in [Workers -> PCs] /\ owes \in [Actors -> Debts]
  BY DEF TypePart, TypeInv, TypeOK, ReportTypeOK
<1>1. ASSUME NEW w \in Workers, TakeMessage(w)  PROVE RacePart'
  <2>1. /\ UNCHANGED <<job, entry, draft, vpc, overtaken, owes, unswept>>
        /\ \A v \in Workers : pc[v] = "clear" => pc'[v] = "clear"
    BY <1>0, <1>1 DEF TakeMessage, Take, reportVars, views
  <2>2. Pending => Pending'
    BY <2>1 DEF Pending
  <2>3. QED  BY <2>1, <2>2, PipelineKeepsRace
<1>2. ASSUME NEW w \in Workers, MergeErrors(w)  PROVE RacePart'
  <2>1. /\ UNCHANGED <<job, entry, draft, vpc, overtaken, unswept, pc>>
        /\ owes[w] = "write" /\ owes' = [owes EXCEPT ![w] = "nothing"]
    BY <1>2 DEF MergeErrors, Settle, Owe, vars, views, workerVars
  <2>2. Pending => Pending'
    BY <1>0, <2>1 DEF Pending
  <2>3. QED  BY <2>1, <2>2, PipelineKeepsRace
<1>3. ASSUME NEW a \in Actors, Invalidate(a)  PROVE RacePart'
  <2>1. UNCHANGED <<job, draft, vpc, overtaken>> /\ entry' = NoEntry
    BY <1>3 DEF Invalidate, vars, views
  <2>2. DraftsFollowRow' /\ ~Cached'
    BY <2>1 DEF RacePart, DraftsFollowRow, Reading, Cached, NoEntry
  <2>3. QED  BY <2>2 DEF RacePart
<1>4. ASSUME NEW o \in Operators, OperatorStarts(o)  PROVE RacePart'
  <2>1. UNCHANGED <<job, entry, draft, vpc, overtaken, owes, unswept, pc>>
    BY <1>4 DEF OperatorStarts, Sweep, SweepTooOld, ManualRetry, Read, reportVars, views,
         workerVars
  <2>2. Pending => Pending'
    BY <2>1 DEF Pending
  <2>3. QED  BY <2>1, <2>2, PipelineKeepsRace
<1>5. CASE LockGoes \/ UNCHANGED allVars
  <2>1. UNCHANGED <<job, entry, draft, vpc, overtaken, owes, unswept, pc>>
    BY <1>5 DEF LockGoes, LockExpires, allVars, vars, reportVars, views, workerVars
  <2>2. Pending => Pending'
    BY <2>1 DEF Pending
  <2>3. QED  BY <2>1, <2>2, PipelineKeepsRace
<1>6. QED  BY <1>1, <1>2, <1>3, <1>4, <1>5

LEMMA ViewsRace ==
  ASSUME TypePart, RacePart, Tick \/ \E p \in Pages : Poll(p) \/ Reload(p) \/ Serve(p)
  PROVE  RacePart'
<1>0. /\ UNCHANGED <<job, owes, pc>> /\ overtaken \subseteq Pages
      /\ vpc \in [Pages -> {"idle", "cache", "row", "exists", "fill"}]
      /\ draft \in [Pages -> Report]
  BY DEF TypePart, ReportTypeOK, Tick, Poll, Reload, Ask, Serve, ReadCache, ReadRow,
       LookUpErrorsFile, Fill, KeepJob, vars, workerVars
<1>1. Pending' = Pending
  BY <1>0 DEF Pending
<1> USE DEF Step
<1>2. ASSUME NEW p \in Pages, Poll(p) \/ Reload(p) \/ ReadCache(p)  PROVE RacePart'
  <2>1. UNCHANGED <<entry, draft, overtaken, unswept>>
    BY <1>2 DEF Poll, Reload, Ask, ReadCache
  <2>2. \A q \in Pages : Reading(q)' => Reading(q)
    BY <1>0, <1>2 DEF Poll, Reload, Ask, ReadCache, Reading
  <2>3. QED  BY <1>0, <1>1, <2>1, <2>2 DEF RacePart, DraftsFollowRow, Cached, Reading
<1>3. ASSUME NEW p \in Pages, ReadRow(p)  PROVE RacePart'
  <2>1. UNCHANGED <<entry, unswept>> /\ overtaken' = overtaken \ {p}
    BY <1>3 DEF ReadRow
  <2>2. draft'[p].row = job
    BY <1>0, <1>3 DEF ReadRow
  <2>3. \A q \in Pages \ {p} : draft'[q] = draft[q] /\ vpc'[q] = vpc[q]
    BY <1>0, <1>3 DEF ReadRow
  <2>4. DraftsFollowRow'
    BY <1>0, <2>1, <2>2, <2>3 DEF RacePart, DraftsFollowRow, Reading
  <2>5. QED  BY <1>0, <1>1, <2>1, <2>4 DEF RacePart, Cached
<1>4. ASSUME NEW p \in Pages, LookUpErrorsFile(p)  PROVE RacePart'
  <2>1. UNCHANGED <<entry, unswept, overtaken>>
    BY <1>4 DEF LookUpErrorsFile
  <2>2. draft'[p].row = draft[p].row /\ Reading(p)
    BY <1>0, <1>4 DEF LookUpErrorsFile, Reading, Report
  <2>3. \A q \in Pages \ {p} : draft'[q] = draft[q] /\ vpc'[q] = vpc[q]
    BY <1>0, <1>4 DEF LookUpErrorsFile
  <2>4. DraftsFollowRow'
    BY <1>0, <2>1, <2>2, <2>3 DEF RacePart, DraftsFollowRow, Reading
  <2>5. QED  BY <1>0, <1>1, <2>1, <2>4 DEF RacePart, Cached
<1>5. ASSUME NEW p \in Pages, Fill(p)  PROVE RacePart'
  <2>1. /\ entry'.report = draft[p] /\ unswept' = (p \in overtaken)
        /\ overtaken' = overtaken \ {p} /\ vpc[p] = "fill" /\ vpc'[p] = "idle"
    BY <1>0, <1>5 DEF Fill
  <2>2. \A q \in Pages \ {p} : draft'[q] = draft[q] /\ vpc'[q] = vpc[q]
    BY <1>0, <1>5 DEF Fill
  <2>3. DraftsFollowRow'
    BY <1>0, <2>1, <2>2 DEF RacePart, DraftsFollowRow, Reading
  <2>4. p \notin overtaken => entry'.report.row = job'
    BY <1>0, <2>1 DEF RacePart, DraftsFollowRow, Reading
  <2>5. QED  BY <2>1, <2>3, <2>4 DEF RacePart, Cached
<1>6. ASSUME Tick  PROVE RacePart'
  <2>1. UNCHANGED <<draft, vpc, overtaken, unswept>>
    BY <1>6 DEF Tick
  <2>2. Cached' => Cached /\ entry'.report = entry.report
    BY <1>6 DEF Tick, Cached, NoEntry, TypePart, ReportTypeOK
  <2>3. QED  BY <1>0, <1>1, <2>1, <2>2 DEF RacePart, DraftsFollowRow, Reading
<1>7. QED  BY <1>2, <1>3, <1>4, <1>5, <1>6 DEF Serve

LEMMA RequestFailsRace ==
  ASSUME TypePart, RacePart, NEW p \in Pages, RequestFails(p)  PROVE RacePart'
<1>1. UNCHANGED <<job, owes, pc, entry, unswept>> /\ overtaken' = overtaken \ {p}
  BY DEF RequestFails, workerVars
<1>2. /\ vpc'[p] = "idle"
      /\ \A q \in Pages \ {p} : draft'[q] = draft[q] /\ vpc'[q] = vpc[q]
  BY DEF RequestFails, TypePart, ReportTypeOK
<1>3. DraftsFollowRow'
  BY <1>1, <1>2 DEF RacePart, DraftsFollowRow, Reading
<1>4. Pending' = Pending
  BY <1>1 DEF Pending
<1>5. QED  BY <1>1, <1>3, <1>4 DEF RacePart, Cached

\* A cached report differs from the row only while an invalidation is still to
\* come, or after one was lost or overtaken by a request that fills the cache.
THEOREM StaleReportsAreRaced == ReportSpec => []StaleOnlyByRace
<1>1. ReportInit => RacePart
  BY DEF ReportInit, RacePart, DraftsFollowRow, Reading, Cached, NoEntry
<1>2. TypePart /\ RacePart /\ [ReportNext]_allVars => RacePart'
  BY WorkerActsRace, OperatorActsRace, FaultsRace, QuietRace, ViewsRace,
     RequestFailsRace
     DEF ReportNext
<1>3. RacePart => StaleOnlyByRace
  BY DEF RacePart, Pending, StaleOnlyByRace
<1>4. QED
  BY <1>1, <1>2, <1>3, InitTypePart, NextTypePart, PTL DEF ReportSpec

-----------------------------------------------------------------------------
(* The downloads.  A step of this module is a step of the pipeline, or     *)
(* none of its, or an invalidation or a request that fails.                *)

LEMMA ReportStep ==
  [ReportNext]_allVars =>
    \/ [Next]_vars
    \/ \E w \in Workers : InvalidationFails(w)
    \/ \E p \in Pages : RequestFails(p)
BY DEF ReportNext, allVars, Next, WorkerActs, TakeMessage, WorkerFails, WorkerDies,
       MergeErrors, OperatorStarts, OperatorActs, OperatorGoes, Invalidate, Poll, Reload, Ask,
       Serve, ReadCache, ReadRow, LookUpErrorsFile, Fill, KeepJob, RequestFails, LockGoes, Tick

\* The DEL that fails leaves its worker in or behind the part of the handler
\* that holds the lock, as it found it; a handler that was counted may not go
\* on to ask for the merge.
LEMMA FailedInvalidation ==
  ASSUME NEW w \in Workers, TypePart, DebtorsWait, InvalidationFails(w)
  PROVE  /\ UNCHANGED <<job, storage, locks, queue, msg, next, listed, opVars, counted>>
         /\ \/ /\ pc[w] \in {"flush", "incr", "complete"} /\ pc' = [pc EXCEPT ![w] = "unlock"]
               /\ result' = [result EXCEPT ![w] = "transient"]
            \/ /\ \E p \in {"retry", "ack"} : pc' = [pc EXCEPT ![w] = p]
               /\ result' = result
<1>1. /\ owes[w] # "write" /\ owes[w] \in RaiseAt /\ owes[w] \in Debts
      /\ pc[w] \in After(owes[w]) /\ result \in [Workers -> Result]
  BY DEF InvalidationFails, TypePart, ReportTypeOK, TypeInv, TypeOK, Actors, DebtorsWait
<1>2. RaiseAt \subseteq PCs
  BY ConstantsAssumption
<1>3. owes[w] \in {"begin", "clear", "incr", "record", "done"}
  BY <1>1, <1>2 DEF Debts, PCs, ChunkPCs, Locked, TryBody, SplitPCs, MergePCs
<1>4. CASE owes[w] \in {"begin", "clear", "incr"}
  <2>1. Handler(owes[w]) = "unlock" /\ owes[w] \in TryBody
    BY <1>4 DEF Handler, TryBody, SplitPCs, MergePCs
  <2>2. pc[w] \in {"flush", "incr", "complete"}
    <3>1. CASE owes[w] = "begin"
      BY <1>1, <3>1 DEF After
    <3>2. CASE owes[w] = "clear"
      BY <1>1, <3>2 DEF After
    <3>3. CASE owes[w] = "incr"
      BY <1>1, <3>3 DEF After
    <3>4. QED  BY <1>4, <3>1, <3>2, <3>3
  <2>3. QED  BY <2>1, <2>2 DEF InvalidationFails, Goto
<1>5. CASE owes[w] = "record"
  BY <1>1, <1>5 DEF InvalidationFails, Goto, Handler, TryBody, SplitPCs, MergePCs
<1>6. CASE owes[w] = "done"
  BY <1>1, <1>6 DEF InvalidationFails, Goto, Handler, TryBody, SplitPCs, MergePCs
<1>7. QED  BY <1>3, <1>4, <1>5, <1>6

\* A request that fails counts as a fault, and leaves the rest as it was.
LEMMA FailedRequest ==
  ASSUME NEW p \in Pages, RequestFails(p)
  PROVE  UNCHANGED <<job, inputs, outputs, final, locks, queue, pc, msg, result, next, listed,
                     opc, snap, todo, counted, files, owes, entry>>
BY DEF RequestFails, storage, workerVars, opVars

\* The pipeline's invariant survives the report's steps.
LEMMA NextPipelineInv ==
  ASSUME ~SlowHolders
  PROVE  TypePart /\ DebtorsWait /\ IInv /\ [ReportNext]_allVars => IInv'
<1> SUFFICES ASSUME TypePart, DebtorsWait, IInv, [ReportNext]_allVars  PROVE IInv'
  OBVIOUS
<1>1. CASE [Next]_vars
  BY <1>1, NextIInv
<1>2. ASSUME NEW w \in Workers, InvalidationFails(w)  PROVE IInv'
  <2>1. TypeInv'
    BY NextTypePart DEF TypePart
  <2>2. /\ UNCHANGED <<job, inputs, outputs, final, locks, queue, msg, next, listed, opc, snap,
                       todo, counted>>
        /\ pc \in [Workers -> PCs] /\ result \in [Workers -> Result]
    BY <1>2, FailedInvalidation DEF storage, opVars, TypePart, TypeInv, TypeOK
  <2>3. \A v \in Workers \ {w} : pc'[v] = pc[v] /\ result'[v] = result[v]
    BY <1>2, <2>2, FailedInvalidation
  <2>4. \/ pc[w] \in {"flush", "incr", "complete"} /\ pc'[w] = "unlock" /\ result'[w] = "transient"
        \/ pc'[w] \in {"retry", "ack"} /\ result'[w] = result[w]
    BY <1>2, <2>2, FailedInvalidation
  <2>5. \A v \in Workers : /\ pc'[v] \in Locked => pc[v] \in Locked
                           /\ pc'[v] # pc[v] => pc'[v] \in {"unlock", "retry", "ack"}
                           /\ result'[v] = "complete" => result[v] = "complete"
    BY <2>3, <2>4 DEF Locked, TryBody
  <2>6. HoldersAreLocked' /\ OneWorkerPerChunk'
    BY <2>2, <2>5 DEF IInv, HoldersAreLocked, OneWorkerPerChunk
  <2>7. GuardStaysTrue' /\ CounterMatchesOutputs' /\ DoneIsComplete' /\ FinalIsWhole'
    BY <2>2, <2>5
       DEF IInv, GuardStaysTrue, CounterMatchesOutputs, DoneIsComplete, FinalIsWhole
  <2>8. MergeMeansAllOutputs'
    BY <2>2, <2>5 DEF IInv, MergeMeansAllOutputs, NoMergeYet
  <2>9. QED  BY <2>1, <2>6, <2>7, <2>8 DEF IInv, TypeInv
<1>3. ASSUME NEW p \in Pages, RequestFails(p)  PROVE IInv'
  <2>1. TypeInv'
    BY NextTypePart DEF TypePart
  <2>2. /\ HoldersAreLocked' /\ OneWorkerPerChunk' /\ GuardStaysTrue'
        /\ CounterMatchesOutputs' /\ DoneIsComplete' /\ FinalIsWhole'
    BY <1>3, FailedRequest
       DEF IInv, HoldersAreLocked, OneWorkerPerChunk, GuardStaysTrue, CounterMatchesOutputs,
           DoneIsComplete, FinalIsWhole
  <2>3. MergeMeansAllOutputs'
    BY <1>3, FailedRequest DEF IInv, MergeMeansAllOutputs, NoMergeYet
  <2>4. QED  BY <2>1, <2>2, <2>3 DEF IInv, TypeInv
<1>4. QED  BY <1>1, <1>2, <1>3, ReportStep

LEMMA NextDebtors == TypePart /\ DebtorsWait /\ [ReportNext]_allVars => DebtorsWait'
<1> SUFFICES ASSUME TypePart, DebtorsWait, [ReportNext]_allVars  PROVE DebtorsWait'
  OBVIOUS
<1>0. /\ pc \in [Workers -> PCs] /\ pc' \in [Workers -> PCs]
      /\ owes \in [Actors -> Debts] /\ Workers \subseteq Actors
      /\ TypeInv
  BY NextTypePart DEF TypePart, TypeInv, TypeOK, ReportTypeOK, Actors
<1>1. After("nothing") = PCs /\ \A d \in Debts \ {"nothing"} : "idle" \notin After(d) \/ After(d) = PCs
  BY DEF After
<1>2. ASSUME NEW w \in Workers, owes' = [owes EXCEPT ![w] = "nothing"],
             \A v \in Workers \ {w} : pc'[v] = pc[v]
      PROVE  DebtorsWait'
  BY <1>0, <1>1, <1>2 DEF DebtorsWait
<1>3. ASSUME UNCHANGED pc, \A v \in Workers : owes'[v] \in {owes[v], "nothing"}
      PROVE  DebtorsWait'
  BY <1>0, <1>1, <1>3 DEF DebtorsWait
<1>4. ASSUME NEW w \in Workers, WorkerActs(w)  PROVE DebtorsWait'
  <2>1. \A v \in Workers \ {w} : pc'[v] = pc[v]
    BY <1>0, <1>4
       DEF WorkerActs, WorkerStep, ChunkStep, GetJob, AcquireLock, CheckOutput, Begin, Flush,
       ConvertImpossible, CountSkips, ChunkSucceeded, CountChunk, CheckComplete,
       ReleaseLock, RecordFailure, DispatchMerge, SplitStep, PutInput, SendChunk,
       MergeStep, MergeGet, MergeList, WriteFinal, Completed, Retry, Ack, ToIdle, Goto, Finish
  <2>2. owes' = [owes EXCEPT ![w] = WorkerOwes(w)]
    BY <1>4 DEF WorkerActs, Owe
  <2>3. CASE WorkerOwes(w) = "nothing"
    BY <1>2, <2>1, <2>2, <2>3
  <2>4. CASE WorkerOwes(w) # "nothing"
    <3>1. /\ WorkerOwes(w) = pc[w]
          /\ pc[w] \in {"begin", "clear", "incr", "record", "write", "done"}
      BY <2>4 DEF WorkerOwes
    <3>2. \/ Begin(w) \/ ChunkSucceeded(w) \/ CountChunk(w) \/ RecordFailure(w)
          \/ WriteFinal(w) \/ Completed(w)
      BY <1>4, <3>1
         DEF WorkerActs, WorkerStep, ChunkStep, GetJob, AcquireLock, CheckOutput, Flush,
         ConvertImpossible, CountSkips, CheckComplete, ReleaseLock, DispatchMerge, SplitStep,
         PutInput, SendChunk, MergeStep, MergeGet, MergeList, Retry, Ack
    <3>3. pc'[w] \in After(pc[w])
      BY <1>0, <3>2
         DEF Begin, ChunkSucceeded, CountChunk, RecordFailure, WriteFinal, Completed, Goto,
             Finish, After
    <3>4. QED  BY <1>0, <2>1, <2>2, <3>1, <3>3 DEF DebtorsWait
  <2>5. QED  BY <2>3, <2>4
<1>5. ASSUME NEW w \in Workers, WorkerFails(w) \/ WorkerDies(w) \/ InvalidationFails(w)
      PROVE  DebtorsWait'
  <2>1. \A v \in Workers \ {w} : pc'[v] = pc[v]
    BY <1>0, <1>5 DEF WorkerFails, Raise, WorkerDies, Crash, InvalidationFails, ToIdle, Goto
  <2>2. QED  BY <1>2, <1>5, <2>1 DEF WorkerFails, WorkerDies, InvalidationFails, HalfDone, Owe
<1>6. ASSUME NEW w \in Workers, TakeMessage(w)  PROVE DebtorsWait'
  <2>1. pc[w] = "idle" /\ owes' = owes /\ \A v \in Workers \ {w} : pc'[v] = pc[v]
    BY <1>0, <1>6 DEF TakeMessage, Take, reportVars
  <2>2. After(owes[w]) = PCs
    BY <1>0, <1>1, <2>1 DEF DebtorsWait
  <2>3. QED  BY <1>0, <2>1, <2>2 DEF DebtorsWait
<1>7. ASSUME NEW a \in Actors, Invalidate(a)  PROVE DebtorsWait'
  BY <1>0, <1>3, <1>7 DEF Invalidate, Settle, Owe, vars, workerVars
<1>8. ASSUME NEW w \in Workers, MergeErrors(w)  PROVE DebtorsWait'
  BY <1>0, <1>3, <1>8 DEF MergeErrors, Settle, Owe, vars, workerVars
<1>9. ASSUME NEW o \in Operators, OperatorStarts(o) \/ OperatorActs(o) \/ OperatorGoes(o)
      PROVE  DebtorsWait'
  <2>1. UNCHANGED pc
    BY <1>9 DEF OperatorStarts, Sweep, SweepTooOld, ManualRetry, Read, OperatorActs,
         OperatorStep, Resume, ResumeMerge, MarkRetrying, Abandon, Decide, Dispatch,
         OperatorEnds, OperatorGoes, OperatorDies, workerVars
  <2>2. PICK d \in {"nothing", "resume", "abandon", "resume_merge", "mark_retrying"} :
             owes' = owes \/ owes' = [owes EXCEPT ![o] = d]
    BY <1>9 DEF OperatorStarts, OperatorActs, OperatorOwes, OperatorGoes, HalfDone, Owe,
         reportVars
  <2>3. After(d) = PCs
    BY DEF After
  <2>4. QED  BY <1>0, <2>1, <2>2, <2>3 DEF DebtorsWait
<1>10. CASE LockGoes \/ Tick \/ UNCHANGED allVars
        \/ \E p \in Pages : Poll(p) \/ Reload(p) \/ Serve(p) \/ RequestFails(p)
  <2>1. UNCHANGED <<pc, owes>>
    BY <1>10 DEF LockGoes, LockExpires, Tick, allVars, vars, reportVars, Poll, Reload, Ask,
         Serve, ReadCache, ReadRow, LookUpErrorsFile, Fill, KeepJob, RequestFails, workerVars
  <2>2. QED  BY <2>1 DEF DebtorsWait
<1>11. QED
  BY <1>4, <1>5, <1>6, <1>7, <1>8, <1>9, <1>10 DEF ReportNext

LEMMA OutputsAndFinalStay ==
  ASSUME TypePart, DebtorsWait, IInv, [ReportNext]_allVars
  PROVE  outputs \subseteq outputs' /\ (final = Chunks => final' = Chunks)
<1>1. CASE [Next]_vars
  <2>1. outputs \subseteq outputs'
    BY <1>1, OutputsStay DEF TypePart
  <2>2. final = Chunks => final' = Chunks
    BY <1>1, StepImplements
       DEF Outcome!Next, Outcome!Write, Outcome!Merge, Outcome!Complete, Outcome!Reopen,
           Outcome!outcomeVars, Outcome!Chunks, Chunks
  <2>3. QED  BY <2>1, <2>2
<1>2. ASSUME NEW w \in Workers, InvalidationFails(w)
      PROVE  outputs' = outputs /\ final' = final
  BY <1>2, FailedInvalidation DEF storage
<1>3. QED  BY <1>1, <1>2, FailedRequest, ReportStep

\* Only a handler's own next step counts a skip, or comes to count one.
LEMMA ReportStepsAndSkips ==
  ASSUME TypePart, DebtorsWait, [ReportNext]_allVars
  PROVE  SkipsSteady \/ \E w \in Workers : WorkerActs(w) /\ (Flush(w) \/ CountSkips(w))
<1>0. TypeInv /\ pc \in [Workers -> PCs]
  BY DEF TypePart, TypeInv, TypeOK
<1>1. ASSUME NEW w \in Workers, WorkerActs(w), ~Flush(w), ~CountSkips(w)  PROVE SkipsSteady
  BY <1>0, <1>1, StepsOfWorkersAndSkips DEF WorkerActs
<1>2. ASSUME NEW w \in Workers, InvalidationFails(w)  PROVE SkipsSteady
  BY <1>0, <1>2, FailedInvalidation DEF SkipsSteady
<1>3. ASSUME \/ \E w \in Workers : WorkerFails(w) \/ WorkerDies(w) \/ TakeMessage(w)
             \/ \E o \in Operators : OperatorStarts(o) \/ OperatorActs(o) \/ OperatorGoes(o)
             \/ LockGoes
      PROVE  SkipsSteady
  BY <1>0, <1>3, OtherStepsAndSkips
     DEF WorkerFails, WorkerDies, TakeMessage, OperatorStarts, OperatorActs, OperatorGoes,
         LockGoes
<1>4. ASSUME \/ \E w \in Workers : MergeErrors(w)
             \/ \E a \in Actors : Invalidate(a)
             \/ \E p \in Pages : Poll(p) \/ Reload(p) \/ Serve(p)
             \/ Tick \/ UNCHANGED allVars
      PROVE  SkipsSteady
  <2>1. UNCHANGED vars
    BY <1>4 DEF MergeErrors, Invalidate, Poll, Reload, Ask, Serve, ReadCache, ReadRow,
         LookUpErrorsFile, Fill, Tick, KeepJob, allVars
  <2>2. QED  BY <1>0, <2>1, OtherStepsAndSkips
<1>5. ASSUME NEW p \in Pages, RequestFails(p)  PROVE SkipsSteady
  BY <1>5, FailedRequest DEF SkipsSteady
<1>6. QED  BY <1>1, <1>2, <1>3, <1>4, <1>5 DEF ReportNext

\* A trace is stored for a chunk that has its output; none is ever deleted.
LEMMA TracesGrow ==
  ASSUME TypePart, DebtorsWait, IInv, EachSkipIsTraced, [ReportNext]_allVars
  PROVE  /\ traces \subseteq traces' /\ traces' \subseteq outputs'
         /\ \A w \in Workers : WorkerActs(w) /\ pc[w] # "skips" => traces' = traces
<1>1. traces' = traces \/ \E w \in Workers : pc[w] = "skips" /\ traces' = traces \union {msg[w].chunk}
  BY DEF ReportNext, allVars, reportVars, files, WorkerActs, TakeMessage, WorkerFails,
         WorkerDies, MergeErrors, InvalidationFails, OperatorStarts, OperatorActs,
         OperatorGoes, HalfDone, Invalidate, Poll, Reload, Ask, Serve, ReadCache, ReadRow,
         LookUpErrorsFile, Fill, KeepJob, RequestFails, LockGoes, Tick
<1>2. \A w \in Workers : pc[w] = "skips" => msg[w].chunk \in outputs
  BY DEF IInv, GuardStaysTrue
<1>3. traces \subseteq outputs /\ outputs \subseteq outputs'
  BY OutputsAndFinalStay DEF EachSkipIsTraced
<1>4. QED  BY <1>1, <1>2, <1>3 DEF WorkerActs

\* skipped_items counts no chunk without a trace.
LEMMA NextTraced ==
  ASSUME TypePart, TypePart', DebtorsWait, IInv, EachSkipIsTraced, [ReportNext]_allVars
  PROVE  EachSkipIsTraced'
<1>0. /\ job \in Row /\ job' \in Row /\ pc \in [Workers -> PCs]
      /\ outputs \in SUBSET Chunks /\ outputs' \in SUBSET Chunks
      /\ traces \subseteq traces' /\ traces' \subseteq outputs' /\ traces \subseteq outputs
      /\ Traced \in SUBSET Chunks /\ Traced' \in SUBSET Chunks
      /\ job.skipped <= Cardinality(Traced) /\ job.skipped \in Nat /\ job'.skipped \in Nat
      /\ Cardinality(Traced) \in Nat /\ Cardinality(Traced') \in Nat
  <2>1. /\ traces \subseteq traces' /\ traces' \subseteq outputs' /\ traces \subseteq outputs
        /\ job \in Row /\ job' \in Row /\ pc \in [Workers -> PCs]
        /\ outputs \in SUBSET Chunks /\ outputs' \in SUBSET Chunks
    BY TracesGrow DEF EachSkipIsTraced, TypePart, TypeInv, TypeOK
  <2>2. Traced \in SUBSET Chunks /\ Traced' \in SUBSET Chunks
    BY <2>1 DEF Traced
  <2>3. QED  BY <2>1, <2>2, LargerSet DEF EachSkipIsTraced, Row
<1>1. ASSUME Traced \subseteq Traced', job'.skipped = job.skipped  PROVE EachSkipIsTraced'
  <2>1. Cardinality(Traced) <= Cardinality(Traced')
    BY <1>0, <1>1, LargerSet
  <2>2. QED  BY <1>0, <1>1, <2>1 DEF EachSkipIsTraced
<1>2. CASE SkipsSteady
  <2>1. Traced \subseteq Traced'
    BY <1>0, <1>2 DEF Traced, SkipsSteady
  <2>2. QED  BY <1>1, <1>2, <2>1 DEF SkipsSteady
<1>3. ASSUME NEW w \in Workers, WorkerActs(w), Flush(w)  PROVE EachSkipIsTraced'
  <2>1. /\ pc[w] = "flush" /\ job' = job /\ msg' = msg /\ msg[w].chunk \notin outputs
        /\ \A v \in Workers : v # w => pc'[v] = pc[v]
    BY <1>0, <1>3 DEF Flush, KeepWorker, Goto, IInv, GuardStaysTrue
  <2>2. Traced \subseteq Traced'
    BY <1>0, <2>1 DEF Traced
  <2>3. QED  BY <1>1, <2>1, <2>2
<1>4. ASSUME NEW w \in Workers, WorkerActs(w), CountSkips(w)  PROVE EachSkipIsTraced'
  <2> DEFINE c == msg[w].chunk
  <2>1. /\ pc[w] = "skips" /\ pc'[w] = "clear" /\ msg' = msg /\ traces' = traces \union {c}
        /\ \A v \in Workers : v # w => pc'[v] = pc[v]
        /\ job' = IncrementSkipped(job)
    BY <1>0, <1>4 DEF CountSkips, KeepWorker, Goto, WorkerActs
  <2>2. \A v \in Workers : v # w /\ pc[v] = "skips" => msg[v].chunk # c
    BY <2>1 DEF IInv, OneWorkerPerChunk, Locked, TryBody
  <2>3. c \in Chunks /\ c \notin Traced /\ Traced' = Traced \union {c}
    <3>1. c \in Chunks
      BY <1>0, <2>1
    <3>2. c \notin Traced
      BY <2>1 DEF Traced
    <3>3. Traced' = Traced \union {c}
      BY <2>1, <2>2 DEF Traced
    <3>4. QED  BY <3>1, <3>2, <3>3
  <2>4. Cardinality(Traced') = Cardinality(Traced) + 1
    BY <1>0, <2>3, CountOne
  <2>5. job'.skipped \in {job.skipped, job.skipped + 1}
    BY <1>0, <2>1, SkippedFrame
  <2>6. QED  BY <1>0, <2>4, <2>5 DEF EachSkipIsTraced
<1>5. QED  BY <1>2, <1>3, <1>4, ReportStepsAndSkips

\* Once every output exists and no handler counts skips, none will again.
LEMMA SkipsStayOver ==
  ASSUME TypePart, TypePart', DebtorsWait, IInv, SkipsOver, [ReportNext]_allVars
  PROVE  SkipsOver' /\ job'.skipped = job.skipped
<1>1. \A w \in Workers : ~Flush(w) /\ ~CountSkips(w)
  <2>1. \A w \in Workers : pc[w] = "flush" => msg[w].chunk \in Chunks /\ msg[w].chunk \notin outputs
    BY MsgType
       DEF IInv, GuardStaysTrue, TypeOK, PcMatchesTask, ChunkPCs, Locked, TryBody
  <2>2. QED  BY <2>1 DEF SkipsOver, Flush, CountSkips
<1>2. SkipsSteady
  BY <1>1, ReportStepsAndSkips
<1>3. outputs' = Chunks
  BY OutputsAndFinalStay DEF SkipsOver, TypePart, TypeInv, TypeOK
<1>4. QED  BY <1>2, <1>3 DEF SkipsOver, SkipsSteady

LEMMA NextMerged ==
  ASSUME TypePart, TypePart', DebtorsWait, IInv, EachSkipIsTraced, ErrorsAreMergedLast,
         [ReportNext]_allVars
  PROVE  ErrorsAreMergedLast'
<1>1. ASSUME NoMergeYet, ~SkipsOver  PROVE NoMergeYet'
  <2>1. ~IsComplete(job)
    <3>1. ASSUME IsComplete(job)  PROVE SkipsOver
      <4>1. counted = Chunks /\ outputs = Chunks
        BY <3>1, FullCounter DEF IInv
      <4>2. \A w \in Workers : pc[w] = "skips" => msg[w].chunk \in Chunks
        BY MsgType DEF IInv, TypeOK, PcMatchesTask, ChunkPCs, Locked, TryBody
      <4>3. QED  BY <4>1, <4>2 DEF SkipsOver, IInv, GuardStaysTrue
    <3>2. QED  BY <1>1, <3>1
  <2>2. CASE [Next]_vars
    BY <1>1, <2>1, <2>2, NextNoMerge DEF TypePart
  <2>3. ASSUME NEW w \in Workers, InvalidationFails(w)  PROVE NoMergeYet'
    <3>1. UNCHANGED <<queue, msg, opc, todo>>
      BY <2>3, FailedInvalidation DEF opVars
    <3>2. \A v \in Workers : /\ pc'[v] \in {pc[v], "unlock", "retry", "ack"}
                             /\ result'[v] \in {result[v], "transient"}
      BY <2>3, FailedInvalidation DEF TypePart, TypeInv, TypeOK
    <3>3. QED  BY <1>1, <3>1, <3>2 DEF NoMergeYet
  <2>4. ASSUME NEW p \in Pages, RequestFails(p)  PROVE NoMergeYet'
    BY <1>1, <2>4, FailedRequest DEF NoMergeYet
  <2>5. QED  BY <2>2, <2>3, <2>4, ReportStep
<1>2. NoMergeYet' \/ SkipsOver'
  BY <1>1, SkipsStayOver DEF ErrorsAreMergedLast
<1>3. CASE errorsFile' = errorsFile
  BY <1>2, <1>3, SkipsStayOver DEF ErrorsAreMergedLast
<1>4. ASSUME NEW w \in Workers, MergeErrors(w), errorsFile' = traces
      PROVE  ErrorsAreMergedLast'
  <2>1. pc[w] = "done"
    BY <1>4 DEF MergeErrors, DebtorsWait, After
  <2>2. SkipsOver
    BY <2>1 DEF ErrorsAreMergedLast, NoMergeYet, IInv, PcMatchesTask, MergePCs
  <2>3. Traced = traces
    BY <2>2 DEF SkipsOver, Traced
  <2>4. SkipsOver' /\ job'.skipped <= Cardinality(errorsFile')
    BY <1>4, <2>2, <2>3, SkipsStayOver DEF EachSkipIsTraced
  <2>5. QED  BY <2>4 DEF ErrorsAreMergedLast
<1>5. errorsFile' = errorsFile \/ \E w \in Workers : MergeErrors(w) /\ errorsFile' = traces
  BY DEF ReportNext, allVars, reportVars, files, WorkerActs, TakeMessage, WorkerFails,
         WorkerDies, MergeErrors, InvalidationFails, OperatorStarts, OperatorActs,
         OperatorGoes, HalfDone, Invalidate, Poll, Reload, Ask, Serve, ReadCache, ReadRow,
         LookUpErrorsFile, Fill, KeepJob, RequestFails, LockGoes, Tick
<1>6. QED  BY <1>3, <1>4, <1>5

\* A report says of the files what was true when it was made, and they stay.
LEMMA NextFollow ==
  ASSUME TypePart, DebtorsWait, IInv, EachSkipIsTraced, ErrorsAreMergedLast,
         ReportsFollowFiles, [ReportNext]_allVars
  PROVE  ReportsFollowFiles'
<1> DEFINE Honest(r) == (r.output => final = Chunks) /\ (r.errors => errorsFile # {})
<1>0. /\ entry \in [report : Report, left : 0 .. LongTTL, age : Nat]
      /\ draft \in [Pages -> Report] /\ pc \in [Workers -> PCs] /\ hasOutput \in BOOLEAN
      /\ Honest(entry.report) /\ (\A p \in Pages : Honest(draft[p]))
      /\ (hasOutput => final = Chunks)
  BY DEF TypePart, ReportTypeOK, TypeInv, TypeOK, ReportsFollowFiles
<1>1. /\ final = Chunks => final' = Chunks
      /\ errorsFile # {} => errorsFile' # {}
  BY OutputsAndFinalStay
     DEF ReportNext, allVars, reportVars, files, WorkerActs, TakeMessage, WorkerFails,
         WorkerDies, MergeErrors, InvalidationFails, OperatorStarts, OperatorActs,
         OperatorGoes, HalfDone, Invalidate, Poll, Reload, Ask, Serve, ReadCache, ReadRow,
         LookUpErrorsFile, Fill, KeepJob, RequestFails, LockGoes, Tick
<1>2. \A r : Honest(r) => Honest(r)'
  BY <1>1
<1>3. hasOutput' => final' = Chunks
  <2>1. ASSUME NEW w \in Workers, WorkerActs(w), WorkerOwes(w) = "done"  PROVE final = Chunks
    BY <2>1 DEF WorkerOwes, IInv, FinalIsWhole
  <2>2. hasOutput' => hasOutput \/ \E w \in Workers : WorkerActs(w) /\ WorkerOwes(w) = "done"
    BY DEF ReportNext, allVars, reportVars, files, WorkerActs, TakeMessage, WorkerFails,
         WorkerDies, MergeErrors, InvalidationFails, OperatorStarts, OperatorActs,
         OperatorGoes, HalfDone, Invalidate, Poll, Reload, Ask, Serve, ReadCache, ReadRow,
         LookUpErrorsFile, Fill, KeepJob, RequestFails, LockGoes, Tick
  <2>3. QED  BY <1>0, <1>1, <2>1, <2>2
<1>4. ASSUME \A r \in {entry'.report} \union {draft'[p] : p \in Pages} : Honest(r)'
      PROVE  ReportsFollowFiles'
  BY <1>3, <1>4 DEF ReportsFollowFiles
<1> HIDE DEF Honest
<1>5. Honest(NoReport)
  BY DEF Honest, NoReport
<1>6. CASE UNCHANGED <<entry, draft>>
  BY <1>0, <1>2, <1>4, <1>6
<1>7. ASSUME NEW a \in Actors, Invalidate(a)  PROVE ReportsFollowFiles'
  <2>1. entry'.report = NoReport /\ draft' = draft
    BY <1>7 DEF Invalidate, NoEntry, views
  <2>2. QED  BY <1>0, <1>2, <1>4, <1>5, <2>1
<1>8. ASSUME NEW p \in Pages, ReadRow(p)  PROVE ReportsFollowFiles'
  <2>1. /\ entry' = entry
        /\ draft' = [draft EXCEPT ![p] = [row |-> job, output |-> hasOutput, errors |-> FALSE]]
    BY <1>8 DEF ReadRow
  <2>2. Honest([row |-> job, output |-> hasOutput, errors |-> FALSE])
    BY <1>0 DEF Honest
  <2>3. \A q \in Pages : Honest(draft'[q])
    BY <1>0, <2>1, <2>2
  <2>4. QED  BY <1>0, <1>2, <1>4, <2>1, <2>3
<1>9. ASSUME NEW p \in Pages, LookUpErrorsFile(p)  PROVE ReportsFollowFiles'
  <2>1. entry' = entry /\ draft' = [draft EXCEPT ![p].errors = errorsFile # {}]
    BY <1>9 DEF LookUpErrorsFile
  <2>2. draft'[p].output = draft[p].output /\ draft'[p].errors = (errorsFile # {})
    BY <1>0, <2>1 DEF Report
  <2>3. \A q \in Pages : Honest(draft'[q])
    BY <1>0, <2>1, <2>2 DEF Honest
  <2>4. QED  BY <1>0, <1>2, <1>4, <2>1, <2>3
<1>10. ASSUME NEW p \in Pages, Fill(p)  PROVE ReportsFollowFiles'
  <2>1. entry'.report = draft[p] /\ draft' = [draft EXCEPT ![p] = NoReport]
    BY <1>10 DEF Fill
  <2>2. \A q \in Pages : Honest(draft'[q])
    BY <1>0, <1>5, <2>1
  <2>3. QED  BY <1>0, <1>2, <1>4, <2>1, <2>2
<1>11. CASE Tick
  <2>1. draft' = draft /\ (entry'.report = entry.report \/ entry'.report = NoReport)
    BY <1>0, <1>11 DEF Tick, NoEntry
  <2>2. QED  BY <1>0, <1>2, <1>4, <1>5, <2>1
<1>12. ASSUME NEW p \in Pages, RequestFails(p)  PROVE ReportsFollowFiles'
  <2>1. entry' = entry /\ draft' = [draft EXCEPT ![p] = NoReport]
    BY <1>12 DEF RequestFails
  <2>2. \A q \in Pages : Honest(draft'[q])
    BY <1>0, <1>5, <2>1
  <2>3. QED  BY <1>0, <1>2, <1>4, <2>1, <2>2
<1>13. QED
  BY <1>6, <1>7, <1>8, <1>9, <1>10, <1>11, <1>12
     DEF ReportNext, allVars, reportVars, views, WorkerActs, TakeMessage, WorkerFails,
         WorkerDies, MergeErrors, InvalidationFails, OperatorStarts, OperatorActs,
         OperatorGoes, HalfDone, Poll, Reload, Ask, Serve, ReadCache, LockGoes

LEMMA InitDownloads == ReportInit => DownloadInv
<1> SUFFICES ASSUME ReportInit  PROVE DownloadInv
  OBVIOUS
<1>1. IInv
  BY InitIInv DEF ReportInit
<1>2. DebtorsWait
  BY <1>1 DEF ReportInit, DebtorsWait, After, Actors, IInv, TypeOK
<1>3. EachSkipIsTraced
  <2>1. Traced = {} /\ job.skipped = 0 /\ traces = {}
    BY DEF ReportInit, Init, Traced, NewRow
  <2>2. QED  BY <2>1, FS_EmptySet DEF EachSkipIsTraced
<1>4. ErrorsAreMergedLast
  BY DEF ReportInit, Init, ErrorsAreMergedLast, NoMergeYet, SplitMsg
<1>5. ReportsFollowFiles
  BY DEF ReportInit, ReportsFollowFiles, NoEntry, NoReport
<1>6. QED  BY <1>1, <1>2, <1>3, <1>4, <1>5 DEF DownloadInv

\* The pipeline's inductive invariant and the one of its files hold of the
\* composed system too, failing invalidations included, while no chunk
\* outlives its lock.
THEOREM DownloadsInductive == ASSUME ~SlowHolders  PROVE ReportSpec => []DownloadInv
<1>1. TypePart /\ DownloadInv /\ [ReportNext]_allVars => DownloadInv'
  <2> SUFFICES ASSUME TypePart, DownloadInv, [ReportNext]_allVars  PROVE DownloadInv'
    OBVIOUS
  <2>1. TypePart' /\ IInv' /\ DebtorsWait'
    BY NextTypePart, NextPipelineInv, NextDebtors DEF DownloadInv
  <2>2. EachSkipIsTraced' /\ ErrorsAreMergedLast' /\ ReportsFollowFiles'
    BY <2>1, NextTraced, NextMerged, NextFollow DEF DownloadInv
  <2>3. QED  BY <2>1, <2>2 DEF DownloadInv
<1>2. QED
  BY <1>1, InitDownloads, InitTypePart, NextTypePart, PTL DEF ReportSpec

\* Whatever crashes, fails, is swept or retried, a download is the whole file,
\* an errors file explains every skipped item the job counts, and no report
\* promises a file that is not there.
THEOREM DownloadsAreComplete == ASSUME ~SlowHolders  PROVE ReportSpec => []DownloadsAreWhole
<1>1. DownloadInv => DownloadsAreWhole
  BY DEF DownloadInv, IInv, FinalIsWhole, ErrorsAreMergedLast, ReportsFollowFiles,
         DownloadsAreWhole, DownloadedResult, DownloadedErrors
<1>2. QED  BY <1>1, DownloadsInductive, PTL

\* The pipeline's promise to the supplier holds of the composed system.
THEOREM ReportsImplementOutcome ==
  ASSUME ~SlowHolders  PROVE ReportSpec => ImplementsOutcome
<1>1. ReportInit => Outcome!Init
  BY DEF ReportInit, Init, Outcome!Init, NewRow
<1>2. TypePart /\ DownloadInv /\ [ReportNext]_allVars => [Outcome!Next]_Outcome!outcomeVars
  <2> SUFFICES ASSUME TypePart, DownloadInv, [ReportNext]_allVars
               PROVE  [Outcome!Next]_Outcome!outcomeVars
    OBVIOUS
  <2>1. CASE [Next]_vars
    BY <2>1, StepImplements DEF DownloadInv
  <2>2. ASSUME NEW w \in Workers, InvalidationFails(w)
        PROVE  UNCHANGED Outcome!outcomeVars
    BY <2>2, FailedInvalidation DEF DownloadInv, storage, Outcome!outcomeVars
  <2>3. ASSUME NEW p \in Pages, RequestFails(p)
        PROVE  UNCHANGED Outcome!outcomeVars
    BY <2>3, FailedRequest DEF Outcome!outcomeVars
  <2>4. QED  BY <2>1, <2>2, <2>3, ReportStep
<1>3. ReportSpec => []TypePart
  BY InitTypePart, NextTypePart, PTL DEF ReportSpec
<1>4. QED
  BY <1>1, <1>2, <1>3, DownloadsInductive, PTL DEF ReportSpec, ImplementsOutcome, Outcome!Spec
=============================================================================
