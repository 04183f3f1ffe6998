----------------------------- MODULE MCTableScan -----------------------------
(* TableScan for TLC: the threads.                                         *)
EXTENDS TableScan

CONSTANTS t1, t2
=============================================================================
