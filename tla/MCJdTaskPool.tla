---------------------------- MODULE MCJdTaskPool ----------------------------
(* Two workers, so that one task may block; two clients, so that one stops  *)
(* the pool while the other waits for its batch; a queue of two, which two  *)
(* null tasks fill.                                                         *)
EXTENDS JdTaskPool

CONSTANTS c1, c2, w1, w2, b1, b2, b3

MCClients == {c1, c2}
MCStoppers == {c1}      \* c2 is just like it, and Stop is called once
MCWorkers == {w1, w2}
MCBatches == {b1, b2, b3}
=============================================================================
