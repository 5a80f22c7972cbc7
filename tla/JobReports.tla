------------------------------ MODULE JobReports ------------------------------
(***************************************************************************)
(* The job as its supplier sees it: JobPipeline with the report JobView    *)
(* caches in Redis, the pages that poll it, and the merged skip traces.    *)
(*                                                                         *)
(* The pipeline's steps are those of JobPipeline.  Every write of the row  *)
(* that goes through JobLifecycleService is followed by an invalidation of *)
(* the report, a step of its own: the actor owes it and does nothing else  *)
(* until it is made, fails, or the actor dies.                             *)
(*                                                                         *)
(* Time is counted in ticks left to the cache entry.  ShortTTL < LongTTL   *)
(* stand for JOB_REPORT_CACHE_TTL and JOB_REPORT_DONE_CACHE_TTL, MaxLag    *)
(* for how long a request can hang between its read of the row and its     *)
(* write of the cache.                                                     *)
(*                                                                         *)
(* Not here: a request for another supplier's job, which gets a 404 and    *)
(* changes nothing, and the list of jobs, which is never cached.           *)
(***************************************************************************)
EXTENDS JobPipeline

CONSTANTS
  Pages,                       \* pages of the dashboard showing this job
  ShortTTL, LongTTL, MaxLag    \* ticks

ASSUME ReportAssumption ==
  /\ {ShortTTL, LongTTL} \subseteq Nat \ {0} /\ ShortTTL <= LongTTL
  /\ MaxLag \in Nat

VARIABLES
  hasOutput,    \* output_storage_path is set
  traces,       \* chunks whose .errors.json exists
  errorsFile,   \* chunks merged into final.errors.json, {} while there is none
  owes,         \* per actor: the step whose second half it still has to do
  entry,        \* the cached report
  vpc, draft,   \* per page: next step of its request, the report it builds
  lag,          \* per page: ticks since its request read the row
  page,         \* per page: the status it shows, or an error in its place
  overtaken,    \* history: pages whose draft the row has moved on from
  unswept       \* history: the entry can outlive the row it was read from

files   == <<hasOutput, traces, errorsFile>>
views   == <<vpc, draft, lag, page>>
reportVars == <<files, owes, entry, views, overtaken, unswept>>
allVars == <<vars, reportVars>>

Actors == Workers \union Operators

Report   == [row : Row, output : BOOLEAN, errors : BOOLEAN]
NoReport == [row |-> NewRow, output |-> FALSE, errors |-> FALSE]
NoEntry  == [report |-> NoReport, left |-> 0, age |-> 0]
Cached   == entry.left > 0

ReportInit ==
  /\ Init
  /\ hasOutput = FALSE /\ traces = {} /\ errorsFile = {}
  /\ owes = [a \in Actors |-> "nothing"] /\ entry = NoEntry
  /\ vpc = [p \in Pages |-> "idle"] /\ draft = [p \in Pages |-> NoReport]
  /\ lag = [p \in Pages |-> 0] /\ page = [p \in Pages |-> "PENDING"]
  /\ overtaken = {} /\ unswept = FALSE
-----------------------------------------------------------------------------
(* JobLifecycleService: a write of the row, then its invalidation *)

Owe(a, step) == owes' = [owes EXCEPT ![a] = step]
Settle(a)    == owes[a] # "nothing" /\ Owe(a, "nothing")

\* The drafts under way when the row changes are out of date.
RowMovesOn ==
  overtaken' = IF job' = job THEN overtaken
               ELSE overtaken \union {p \in Pages : vpc[p] \in {"exists", "fill"}}

\* Mutant: every step is followed by an invalidation.
OweAlways(w) == pc[w]

\* completed() stops at a job that is DONE already.
WorkerOwes(w) ==
  IF pc[w] \in {"begin", "clear", "incr", "record", "write"} THEN pc[w]
  ELSE IF pc[w] = "done" /\ job.status # "DONE" THEN "done"
  ELSE "nothing"

\* Mutant: abandon() leaves the report to its TTL.
OperatorOwesUnlessAbandoning(o) ==
  IF opc[o] = "resume" THEN "resume" ELSE "nothing"

\* resume() and abandon() always invalidate, resume_merge() and
\* mark_retrying() when they set the status.
OperatorOwes(o) ==
  IF \/ opc[o] \in {"resume", "abandon"}
     \/ opc[o] = "resume_merge" /\ snap[o].status # "PROCESSING"
     \/ /\ opc[o] = "mark_retrying"
        /\ \A c \in FailedChunks(snap[o]) : ChunkMsg(c) \in todo[o]
    THEN opc[o] ELSE "nothing"

\* increment_skipped_items has no invalidation of its own: the one of
\* chunk_succeeded() that follows stands for both.
WorkerActs(w) ==
  /\ owes[w] = "nothing" /\ WorkerStep(w)
  /\ Owe(w, WorkerOwes(w)) /\ RowMovesOn
  /\ hasOutput' = (hasOutput \/ WorkerOwes(w) = "done")
  /\ traces' = IF pc[w] = "skips" THEN traces \union {msg[w].chunk} ELSE traces
  /\ UNCHANGED <<errorsFile, entry, views, unswept>>

OperatorActs(o) ==
  /\ owes[o] = "nothing" /\ OperatorStep(o)
  /\ Owe(o, OperatorOwes(o)) /\ RowMovesOn
  /\ hasOutput' = (hasOutput /\ ~(opc[o] = "resume" /\ snap[o].processed = 0))
  /\ UNCHANGED <<traces, errorsFile, entry, views, unswept>>

OperatorStarts(o) ==
  /\ Sweep(o) \/ SweepTooOld(o) \/ ManualRetry(o)
  /\ UNCHANGED reportVars

TakeMessage(w) == (\E m \in Msg : Take(w, m)) /\ UNCHANGED reportVars
LockGoes       == (\E c \in Chunks : LockExpires(c)) /\ UNCHANGED reportVars

Invalidate(a) ==
  /\ owes[a] # "write" /\ Settle(a)
  /\ entry' = NoEntry
  /\ UNCHANGED <<vars, files, views, overtaken, unswept>>

\* _merge_errors(), between the final object and completed(): best-effort.
MergeErrors(w) ==
  /\ owes[w] = "write" /\ Settle(w)
  /\ \/ traces # {} /\ errorsFile' = traces
     \/ UNCHANGED errorsFile
  /\ UNCHANGED <<vars, hasOutput, traces, entry, views, overtaken, unswept>>

\* A worker whose handler is cut short, with or without a debt: the report
\* of what it wrote stays in the cache.
HalfDone(a) ==
  /\ Owe(a, "nothing")
  /\ unswept' = (unswept \/ owes[a] # "nothing" \/ (a \in Workers /\ pc[a] = "clear"))
  /\ UNCHANGED <<hasOutput, errorsFile, entry, views, overtaken>>

\* The chunk's trace may have been stored when its handler is cut short.
WorkerFails(w) ==
  /\ owes[w] = "nothing" /\ Raise(w)
  /\ HalfDone(w)
  /\ \/ UNCHANGED traces
     \/ pc[w] = "skips" /\ traces' = traces \union {msg[w].chunk}

WorkerDies(w) ==
  /\ Crash(w) /\ HalfDone(w)
  /\ \/ UNCHANGED traces
     \/ pc[w] = "skips" /\ traces' = traces \union {msg[w].chunk}

OperatorGoes(o) ==
  /\ OperatorDies(o) /\ HalfDone(o) /\ UNCHANGED traces

\* Redis refuses the DEL: the exception is one of the step that owes it.
InvalidationFails(w) ==
  /\ owes[w] \in RaiseAt \ {"write"} /\ faults < MaxFaults /\ faults' = faults + 1
  /\ Goto(w, Handler(owes[w]))
  /\ result' = [result EXCEPT ![w] = IF owes[w] \in TryBody THEN "transient" ELSE @]
  /\ HalfDone(w)
  /\ UNCHANGED <<traces, job, storage, locks, queue, msg, next, listed, opVars, counted>>
-----------------------------------------------------------------------------
(* JobView, and the dashboard's pages in front of it *)

\* _batch_status.html: a page with one of these statuses polls no more.
Settled == {"DONE", "FAILED", "PARTIAL"}

Step(p, from, to) == vpc[p] = from /\ vpc' = [vpc EXCEPT ![p] = to]

\* Mutant: a PARTIAL job is shown as before, still under way.
ShowPartialAsRunning(p, report) ==
  page' = IF report.row.status = "PARTIAL" THEN page
          ELSE [page EXCEPT ![p] = report.row.status]

Show(p, report) == page' = [page EXCEPT ![p] = report.row.status]

KeepJob == UNCHANGED <<vars, files, owes>>

Ask(p) ==
  /\ Step(p, "idle", "cache")
  /\ KeepJob /\ UNCHANGED <<entry, draft, lag, page, overtaken, unswept>>

\* The fragment of a settled status, and _error()'s, have no hx-trigger.
AtRest(p) == page[p] \in Settled \union {"error"}

Poll(p)   == ~AtRest(p) /\ Ask(p)    \* every 3 s
Reload(p) == AtRest(p) /\ Ask(p)     \* by its user

ReadCache(p) ==
  /\ IF Cached THEN Step(p, "cache", "idle") /\ Show(p, entry.report)
               ELSE Step(p, "cache", "row") /\ UNCHANGED page
  /\ KeepJob /\ UNCHANGED <<entry, draft, lag, overtaken, unswept>>

\* has_errors_file is looked up only when there can be one.
ReadRow(p) ==
  /\ Step(p, "row", IF hasOutput /\ job.skipped > 0 THEN "exists" ELSE "fill")
  /\ draft' = [draft EXCEPT ![p] = [row |-> job, output |-> hasOutput, errors |-> FALSE]]
  /\ overtaken' = overtaken \ {p}
  /\ KeepJob /\ UNCHANGED <<entry, lag, page, unswept>>

LookUpErrorsFile(p) ==
  /\ Step(p, "exists", "fill")
  /\ draft' = [draft EXCEPT ![p].errors = errorsFile # {}]
  /\ KeepJob /\ UNCHANGED <<entry, lag, page, overtaken, unswept>>

\* Mutant: any status that stops the polling counts as terminal.
LongTTLOnceSettled(row) == IF row.status \in Settled THEN LongTTL ELSE ShortTTL

TTL(row) == IF row.status \in Terminal THEN LongTTL ELSE ShortTTL

Fill(p) ==
  /\ Step(p, "fill", "idle") /\ Show(p, draft[p])
  /\ entry' = [report |-> draft[p], left |-> TTL(draft[p].row), age |-> lag[p]]
  /\ unswept' = (p \in overtaken) /\ overtaken' = overtaken \ {p}
  /\ draft' = [draft EXCEPT ![p] = NoReport] /\ lag' = [lag EXCEPT ![p] = 0]
  /\ KeepJob

\* Redis, the database or the object store fails under JobView.  The API's
\* answer is not a 200, so get_batch returns None and the page gets an error
\* in place of the report; or there is no answer at all, and the 204 of
\* UpstreamErrorMiddleware leaves the page as it was.
RequestFails(p) ==
  /\ vpc[p] # "idle" /\ vpc' = [vpc EXCEPT ![p] = "idle"]
  /\ faults < MaxFaults /\ faults' = faults + 1
  /\ page' \in {page, [page EXCEPT ![p] = "error"]}
  /\ draft' = [draft EXCEPT ![p] = NoReport] /\ lag' = [lag EXCEPT ![p] = 0]
  /\ overtaken' = overtaken \ {p}
  /\ UNCHANGED <<job, storage, locks, queue, workerVars, opVars, counted,
                 files, owes, entry, unswept>>

Reading(p) == vpc[p] \in {"exists", "fill"}

Tick ==
  /\ \A p \in Pages : Reading(p) => lag[p] < MaxLag
  /\ lag' = [p \in Pages |-> IF Reading(p) THEN lag[p] + 1 ELSE 0]
  /\ entry' = IF entry.left > 1
                THEN [entry EXCEPT !.left = @ - 1, !.age = @ + 1] ELSE NoEntry
  /\ KeepJob /\ UNCHANGED <<vpc, draft, page, overtaken, unswept>>
-----------------------------------------------------------------------------
Serve(p) == ReadCache(p) \/ ReadRow(p) \/ LookUpErrorsFile(p) \/ Fill(p)

ReportNext ==
  \/ \E w \in Workers : \/ WorkerActs(w) \/ TakeMessage(w) \/ WorkerFails(w)
                        \/ WorkerDies(w) \/ MergeErrors(w) \/ InvalidationFails(w)
  \/ \E o \in Operators : OperatorStarts(o) \/ OperatorActs(o) \/ OperatorGoes(o)
  \/ \E a \in Actors : Invalidate(a)
  \/ \E p \in Pages : Poll(p) \/ Reload(p) \/ Serve(p) \/ RequestFails(p)
  \/ LockGoes \/ Tick

ReportSpec == ReportInit /\ [][ReportNext]_allVars

\* A page polls, its requests go on, time passes.
ReportFairSpec ==
  ReportSpec /\ WF_allVars(Tick) /\ \A p \in Pages : WF_allVars(Poll(p) \/ Serve(p))
-----------------------------------------------------------------------------
(* Properties *)

Debts == {"nothing", "begin", "clear", "incr", "record", "write", "done",
          "resume", "abandon", "resume_merge", "mark_retrying"}

\* Every variable of this module has the type its declaration describes.
ReportTypeOK ==
  /\ hasOutput \in BOOLEAN /\ traces \subseteq Chunks /\ errorsFile \subseteq Chunks
  /\ owes \in [Actors -> Debts]
  /\ entry \in [report : Report, left : 0 .. LongTTL, age : Nat]
  /\ vpc \in [Pages -> {"idle", "cache", "row", "exists", "fill"}]
  /\ draft \in [Pages -> Report] /\ lag \in [Pages -> 0 .. MaxLag]
  /\ page \in [Pages -> Status \union {"error"}]
  /\ overtaken \subseteq Pages /\ unswept \in BOOLEAN

\* "Explicit invalidation on every state mutation": the cached report is the
\* row's, unless the invalidation is still to come, was lost with the actor
\* that owed it, or ran before a request that had read the row filled the
\* cache.  A worker past CountSkips owes chunk_succeeded's invalidation.
StaleOnlyByRace ==
  Cached /\ entry.report.row # job =>
    \/ unswept
    \/ \E a \in Actors : owes[a] \notin {"nothing", "write"}
    \/ \E w \in Workers : pc[w] = "clear"

\* However it came to be stale, a report is shown for a bounded time, and a
\* job that is neither DONE nor FAILED is not shown longer than ShortTTL
\* after its row was read, plus the lag of one request.
StaleForAWhile ==
  Cached => entry.age + entry.left <=
              MaxLag + IF entry.report.row.status \in Terminal THEN LongTTL ELSE ShortTTL

\* What the download views stream.
DownloadedResult == IF hasOutput THEN final ELSE {}
DownloadedErrors == errorsFile

\* A download is whole, whatever status the job has been taken back to; an
\* errors file explains every item that skipped_items counts; and no report
\* promises a file that is not there.
DownloadsAreWhole ==
  /\ DownloadedResult \in {{}, Chunks}
  /\ DownloadedErrors # {} => job.skipped <= Cardinality(DownloadedErrors)
  /\ Cached => /\ entry.report.output => final = Chunks
               /\ entry.report.errors => DownloadedErrors # {}

\* Once a job has come to rest, a page polls no more, for good: reloading it
\* brings no report back that is still under way, and what it ends with is
\* a settled status or an error.
PollingEnds ==
  \A p \in Pages : <>[](job.status \in Settled) => <>[]AtRest(p)

-----------------------------------------------------------------------------
(* Inductive invariant behind DownloadsAreWhole, next to IInv.             *)

\* Where a worker is after the step that made it owe something.
After(debt) ==
  CASE debt = "begin"  -> {"flush"}         [] debt = "clear" -> {"incr"}
    [] debt = "incr"   -> {"complete"}      [] debt = "write" -> {"done"}
    [] debt = "record" -> {"retry", "ack"}  [] debt = "done"  -> {"ack"}
    [] OTHER -> PCs

DebtorsWait == \A w \in Workers : pc[w] \in After(owes[w])

\* The chunks whose trace is stored and not about to be counted.
Traced == {c \in traces : \A w \in Workers : pc[w] = "skips" => msg[w].chunk # c}

EachSkipIsTraced == traces \subseteq outputs /\ job.skipped <= Cardinality(Traced)

\* Once a merge can run, nobody will count another skip.
SkipsOver == outputs = Chunks /\ \A w \in Workers : pc[w] # "skips"

ErrorsAreMergedLast ==
  /\ NoMergeYet \/ SkipsOver
  /\ errorsFile # {} => SkipsOver /\ job.skipped <= Cardinality(errorsFile)

\* Files stay; what a report, cached or in the making, says of them is true.
ReportsFollowFiles ==
  /\ hasOutput => final = Chunks
  /\ \A r \in {entry.report} \union {draft[p] : p \in Pages} :
       (r.output => final = Chunks) /\ (r.errors => errorsFile # {})

\* What the downloads rest on: skips are traced before they are counted and
\* counted before the traces are merged, and no file disappears again.
DownloadInv ==
  IInv /\ DebtorsWait /\ EachSkipIsTraced /\ ErrorsAreMergedLast /\ ReportsFollowFiles
=============================================================================
