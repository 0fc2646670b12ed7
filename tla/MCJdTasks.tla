----------------------------- MODULE MCJdTasks ------------------------------
(* Queues of two slots, so that a batch of two fills one; three calls, by   *)
(* the owner and by one other thread.                                       *)
EXTENDS JdTasks

CONSTANTS owner, other, thread

MCOthers == {other}
=============================================================================
