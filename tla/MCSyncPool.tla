----------------------------- MODULE MCSyncPool -----------------------------
(* Three calls on two workers and a queue of one: enough for a full queue, *)
(* for a job that waits behind two running handlers, and for two calls     *)
(* that share a cancellation flag next to one that does not.  Two calls    *)
(* suffice for the liveness run: they compete for one worker or for the    *)
(* only place in the queue.                                                *)
EXTENDS SyncPool, TLC

CONSTANTS c1, c2, c3, f1, f2

MCFlagOf == [c \in Calls |-> IF c = c3 THEN f2 ELSE f1]

(* The calls that share f1 are interchangeable, and so are the workers. *)
MCSymmetry == Permutations({c1, c2}) \cup Permutations(Workers)
=============================================================================
