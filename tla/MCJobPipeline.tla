--------------------------- MODULE MCJobPipeline ----------------------------
(* Instances of JobPipeline for TLC. *)
EXTENDS JobPipeline, TLC

CONSTANTS c1, c2, d1, s1

WorkerSymmetry == Permutations({c1, c2})

AllPCs   == PCs \ {"idle"}
RaisePCs == PCs \ {"idle", "ack"}
NoPCs    == {}

\* From the write of the output to the increment of processed_chunks.
UncountedPCs == {"skips", "clear", "incr"}
SomeCrashes  == {"incr", "ack"}
SomeRaises   == {"get", "complete", "done"}
OtherPCs     == AllPCs \ UncountedPCs
OtherRaises  == RaisePCs \ UncountedPCs
=============================================================================
