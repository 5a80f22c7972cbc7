------------------------------- MODULE JobRow -------------------------------
(***************************************************************************)
(* The TransformationJob row and the writes JobRepository makes to it.     *)
(*                                                                         *)
(* Every operator below is one repository method: each is a single SQL     *)
(* UPDATE with its WHERE clause, or a read-modify-write under              *)
(* select_for_update, so each is one atomic function of the row.  Which    *)
(* method is called when is the business of the modules that extend this   *)
(* one.                                                                    *)
(*                                                                         *)
(* Data abstracted: a chunk range [start, end] is its index; of a          *)
(* failed_chunks entry only "retryable" is kept (error text, retry_count   *)
(* and failed_at decide nothing here); of started_at only whether it is    *)
(* set; skipped_items counts one item per chunk that skips any.            *)
(***************************************************************************)
EXTENDS Naturals, FiniteSets

CONSTANT TotalChunks        \* total_chunks of the job's row

ASSUME TotalChunksAssumption == TotalChunks \in Nat \ {0}

Chunks == 1 .. TotalChunks

Status   == {"PENDING", "PROCESSING", "PARTIAL", "DONE", "FAILED"}
Terminal == {"DONE", "FAILED"}
Failure  == {"none", "retryable", "permanent"}

NoFailures == [c \in Chunks |-> "none"]

Row == [status    : Status,
        processed : Nat,
        skipped   : Nat,
        failed    : [Chunks -> Failure],
        started   : BOOLEAN]

\* create(): the row submit() inserts.
NewRow == [status    |-> "PENDING",
           processed |-> 0,
           skipped   |-> 0,
           failed    |-> NoFailures,
           started   |-> FALSE]

FailedChunks(row)    == {c \in Chunks : row.failed[c] # "none"}
RetryableChunks(row) == {c \in Chunks : row.failed[c] = "retryable"}
IsComplete(row)      == row.processed >= TotalChunks

-----------------------------------------------------------------------------

\* Mutant: a plain set_status(PROCESSING) whatever the current status.
StartFromAnyStatus(row) == [row EXCEPT !.status = "PROCESSING", !.started = TRUE]

StartProcessing(row) ==
  IF row.status = "PENDING"
    THEN [row EXCEPT !.status = "PROCESSING", !.started = TRUE]
    ELSE row

\* set_status(PROCESSING), the only value it is ever called with.  Its two
\* UPDATEs (started_at null, then not null) leave what one does: nothing
\* sets started_at back to null between them except a reset.
SetProcessing(row) == [row EXCEPT !.status = "PROCESSING", !.started = TRUE]

CanIncrement(row) == row.processed < TotalChunks /\ row.status \notin Terminal

IncrementProcessed(row) ==
  IF CanIncrement(row) THEN [row EXCEPT !.processed = @ + 1] ELSE row

IncrementSkipped(row) ==
  IF row.status \in Terminal THEN row ELSE [row EXCEPT !.skipped = @ + 1]

MarkDone(row) == [row EXCEPT !.status = "DONE"]

MarkFailed(row) ==
  IF row.status = "DONE" THEN row ELSE [row EXCEPT !.status = "FAILED"]

\* Mutant: no check for a terminal status under the row lock.
AppendToAnyJob(row, c, kind) ==
  [row EXCEPT !.failed[c] = kind, !.status = "PARTIAL"]

AppendFailedChunk(row, c, kind) ==
  IF row.status \in Terminal
    THEN row
    ELSE [row EXCEPT !.failed[c] = kind, !.status = "PARTIAL"]

\* Mutant: the entry goes, the status stays PARTIAL.
ClearEntryOnly(row, c) ==
  IF row.status \in Terminal THEN row ELSE [row EXCEPT !.failed[c] = "none"]

ClearFailedChunk(row, c) ==
  LET remaining == [row.failed EXCEPT ![c] = "none"]
      emptied   == remaining = NoFailures /\ row.status = "PARTIAL"
  IN  IF row.status \in Terminal \/ row.failed[c] = "none"
        THEN row
        ELSE [row EXCEPT !.failed = remaining,
                         !.status = IF emptied THEN "PROCESSING" ELSE @]

\* skipped_items is not among the columns reset() clears.
Reset(row) == [row EXCEPT !.processed = 0,
                          !.failed    = NoFailures,
                          !.status    = "PENDING",
                          !.started   = FALSE]
=============================================================================
