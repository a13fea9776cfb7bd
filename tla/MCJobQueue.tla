----------------------------- MODULE MCJobQueue -----------------------------
(* Small instances of JobQueue, every row with a dedupe key of its own.     *)
EXTENDS JobQueue

OwnKey == [j \in Jobs |-> j]
=============================================================================
