---------------------------- MODULE BoundedCalls ----------------------------
(***************************************************************************)
(* What a bounded executor promises the callers of its tools, without      *)
(* saying how: no queue, no channels, no clocks, no flags.                 *)
(*                                                                         *)
(* A call is refused, answered, or given up by its caller, once.  Its      *)
(* handler is claimed by at most one slot, at most once, and only while    *)
(* the caller is still there: a call that was refused, or that was given   *)
(* up before a slot was committed to it, is never run.  A caller may give  *)
(* up after the claim; then its handler may still start.  No answer is     *)
(* given before the handler has ended or has been dropped.                 *)
(***************************************************************************)
CONSTANTS Calls,    \* the calls made over a behaviour
          Slots,    \* what handlers run on; one handler a slot
          NoCall    \* the content of a free slot

VARIABLES caller,   \* [Calls -> CallerStates]: where the caller stands
          handler,  \* [Calls -> HandlerStates]: what became of the handler
          slot      \* [Slots -> Calls \cup {NoCall}]: who runs where

vars == <<caller, handler, slot>>

CallerStates  == {"new", "pending", "answered", "refused", "gaveup"}
HandlerStates == {"held", "claimed", "ran", "dropped"}

Init == /\ caller  = [c \in Calls |-> "new"]
        /\ handler = [c \in Calls |-> "held"]
        /\ slot    = [s \in Slots |-> NoCall]

(* The call is accepted, and its caller waits ... *)
Admit(c) == /\ caller[c] = "new"
            /\ caller' = [caller EXCEPT ![c] = "pending"]
            /\ UNCHANGED <<handler, slot>>

(* ... or refused, and its handler is never looked at. *)
Refuse(c) == /\ caller[c] = "new"
             /\ caller' = [caller EXCEPT ![c] = "refused"]
             /\ UNCHANGED <<handler, slot>>

(* Only a call whose caller still waits is committed to a slot. *)
Claim(s, c) == /\ caller[c] = "pending" /\ handler[c] = "held"
               /\ slot[s] = NoCall
               /\ handler' = [handler EXCEPT ![c] = "claimed"]
               /\ slot'    = [slot EXCEPT ![s] = c]
               /\ UNCHANGED caller

(* The handler ends ("ran"), or a cancellation seen after the claim keeps  *)
(* it from starting ("dropped").                                           *)
Release(s) == /\ slot[s] # NoCall
              /\ \E fate \in {"ran", "dropped"} :
                    handler' = [handler EXCEPT ![slot[s]] = fate]
              /\ slot' = [slot EXCEPT ![s] = NoCall]
              /\ UNCHANGED caller

Drop(c) == /\ caller[c] \in {"pending", "gaveup"} /\ handler[c] = "held"
           /\ handler' = [handler EXCEPT ![c] = "dropped"]
           /\ UNCHANGED <<caller, slot>>

Answer(c) == /\ caller[c] = "pending" /\ handler[c] \in {"ran", "dropped"}
             /\ caller' = [caller EXCEPT ![c] = "answered"]
             /\ UNCHANGED <<handler, slot>>

GiveUp(c) == /\ caller[c] = "pending"
             /\ caller' = [caller EXCEPT ![c] = "gaveup"]
             /\ UNCHANGED <<handler, slot>>

Next == \/ \E c \in Calls : Admit(c) \/ Refuse(c) \/ Drop(c) \/ Answer(c) \/ GiveUp(c)
        \/ \E s \in Slots, c \in Calls : Claim(s, c)
        \/ \E s \in Slots : Release(s)

Spec == Init /\ [][Next]_vars
=============================================================================
