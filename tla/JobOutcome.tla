----------------------------- MODULE JobOutcome ------------------------------
(***************************************************************************)
(* What a transformation job promises to the supplier who downloads it:    *)
(* each chunk's output appears once and stays, the merged file is written  *)
(* from all of them, and the job reads DONE only once that file exists.    *)
(* A retry may take a job out of DONE again; the file stays whole.         *)
(***************************************************************************)
EXTENDS Naturals

CONSTANT TotalChunks

Chunks == 1 .. TotalChunks

VARIABLES
  written,    \* chunks with an output object
  merged,     \* chunks in the final object, {} while there is none
  finished    \* the job reads DONE

outcomeVars == <<written, merged, finished>>

Init == written = {} /\ merged = {} /\ finished = FALSE

Write(c) == /\ c \notin written /\ written' = written \union {c}
            /\ UNCHANGED <<merged, finished>>

Merge == /\ written = Chunks /\ merged' = Chunks
         /\ UNCHANGED <<written, finished>>

Complete == /\ merged = Chunks /\ finished' = TRUE
            /\ UNCHANGED <<written, merged>>

Reopen == finished' = FALSE /\ UNCHANGED <<written, merged>>

Next == (\E c \in Chunks : Write(c)) \/ Merge \/ Complete \/ Reopen

Spec == Init /\ [][Next]_outcomeVars
=============================================================================
