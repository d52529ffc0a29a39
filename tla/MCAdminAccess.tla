---------------------------- MODULE MCAdminAccess ---------------------------
(* A small instance of AdminAccess for TLC. *)
EXTENDS AdminAccess

CONSTANTS u1, u2, r1, r2, o1, o2, i1, i2, k1, k2
=============================================================================
