------------------------------ MODULE MCKvPool ------------------------------
(* KvPool for TLC.  Labels and pages are interchangeable.                   *)
EXTENDS KvPool, TLC

Interchangeable == Permutations(Conv) \cup Permutations(Page)
=============================================================================
