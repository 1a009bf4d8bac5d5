----------------------------- MODULE MCSession ------------------------------
(* Small instances of Session: two callers, and as many PHPSESSIDs as they   *)
(* and the manager can refer to at a time, with one to spare.                *)
EXTENDS Session

CONSTANTS w1, w2, s1, s2, s3, s4, s5, s6, s7, s8

=============================================================================
