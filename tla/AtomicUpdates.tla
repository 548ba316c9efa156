---------------------------- MODULE AtomicUpdates ----------------------------
(***************************************************************************)
(* What `eggsact update` promises whoever runs the executable, without     *)
(* saying how: no downloads, no evidence, no staging, no helper.           *)
(*                                                                         *)
(* The installed version changes in one step, to the release an updater    *)
(* chose when it was newer than what was installed, and at most once for   *)
(* each updater; one that is over installs nothing any more.  Besides, the *)
(* executable may be removed, and a transaction may end without knowing    *)
(* whether the old one, the new one or none is there; when it keeps its    *)
(* lock for somebody to look into that, no update installs anything.       *)
(***************************************************************************)
EXTENDS Naturals

CONSTANTS Updaters,   \* who may update
          Releases    \* versions, positive numbers

VARIABLES installed,  \* the installed version, 0 where there is none
          stuck,      \* a transaction has kept the lock
          chosen,     \* [Updaters -> Releases \cup {0}]: what an update is to install
          fate        \* [Updaters -> {"idle", "open", "done", "over", "unsure"}]

vars == <<installed, stuck, chosen, fate>>

Init == /\ installed \in Releases /\ stuck = FALSE
        /\ chosen = [u \in Updaters |-> 0]
        /\ fate = [u \in Updaters |-> "idle"]

Choose(u) == /\ fate[u] = "idle" /\ installed # 0
             /\ \E v \in Releases : v > installed /\ chosen' = [chosen EXCEPT ![u] = v]
             /\ fate' = [fate EXCEPT ![u] = "open"]
             /\ UNCHANGED <<installed, stuck>>

Install(u) == /\ fate[u] = "open" /\ ~stuck
              /\ installed' = chosen[u]
              /\ fate' = [fate EXCEPT ![u] = "done"]
              /\ UNCHANGED <<stuck, chosen>>

Ends(u, how) == /\ chosen' = [chosen EXCEPT ![u] = 0]
                /\ fate' = [fate EXCEPT ![u] = how]

(* There is nothing to do, or the update fails. *)
Close(u) == /\ fate[u] \in {"idle", "open"}
            /\ Ends(u, "over")
            /\ UNCHANGED <<installed, stuck>>

(* The transaction cannot be undone, or its process is killed. *)
Doubt(u) == /\ fate[u] = "open" /\ ~stuck
            /\ installed' \in {installed, 0, chosen[u]}
            /\ stuck' \in BOOLEAN
            /\ Ends(u, "unsure")

Remove == installed' = 0 /\ UNCHANGED <<stuck, chosen, fate>>

Next == Remove \/ \E u \in Updaters : Choose(u) \/ Install(u) \/ Close(u) \/ Doubt(u)

Spec == Init /\ [][Next]_vars
=============================================================================
