---------------------------- MODULE MCSubmission ----------------------------
(* Instances of Submission for TLC. *)
EXTENDS Submission, TLC

CONSTANTS r1, r2, r3

RequestSymmetry == Permutations({r1, r2, r3})

NoPCs == {}

\* The job is created and its key not yet resolved.
OtherPCs == Working \ {"resolve"}
=============================================================================
