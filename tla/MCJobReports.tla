----------------------------- MODULE MCJobReports -----------------------------
(* Instances of JobReports for TLC. *)
EXTENDS JobReports

CONSTANTS c1, d1, s1, p1

\* After begin(), with an invalidation owed; at the trace of a chunk, and at the
\* end of the merge.
CrashPCs == {"flush"}
RaisePCs == {"skips", "done"}
=============================================================================
