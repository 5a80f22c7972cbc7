------------------------- MODULE MCSupplierSessions --------------------------
(* Instances of SupplierSessions for TLC. *)
EXTENDS SupplierSessions, TLC

CONSTANTS r1, r2, b1

=============================================================================
