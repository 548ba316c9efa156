---------------------------- MODULE Conversation ----------------------------
(***************************************************************************)
(* What the MCP server promises a client, without saying how: no read      *)
(* loop, no tasks, no registry, no flags, no channel, no shutdown.         *)
(*                                                                         *)
(* The client says one line after another.  Every line but a notification  *)
(* is owed an answer, which is decided once and told at most once, in any  *)
(* order; the server hangs up when it owes nothing.  The handshake alone   *)
(* is sequential: nothing more is heard before an initialize is answered   *)
(* and a notification that completes it has taken effect.  What is         *)
(* answered depends on nothing but what was said, on the one era the       *)
(* conversation has settled on, and on how far its handshake has come.     *)
(***************************************************************************)
EXTENDS Naturals, Sequences, FiniteSets

CONSTANTS Messages,     \* what may be said: records [kind, method, claim, id]
          EraOf,        \* [Messages -> {"legacy", "modern", "rejected"}]
          MaxLines,     \* how many lines are heard
          MaxInFlight   \* how many answers may be owed before a request is refused

VARIABLES heard,     \* Seq(Messages)
          era,       \* "undecided", or the one era
          phase,     \* "uninitialized", "awaiting", "ready"
          verdict,   \* [1 .. MaxLines -> STRING]: what a line is answered, "none" until decided
          owed,      \* the lines whose answer has not been handed over
          told,      \* [1 .. MaxLines -> Nat]: how often the client was told it
          cut,       \* the client cannot be told any more
          over       \* the server has hung up

vars == <<heard, era, phase, verdict, owed, told, cut, over>>

Last == Len(heard)

Init ==
  /\ heard = <<>> /\ era = "undecided" /\ phase = "uninitialized"
  /\ verdict = [n \in 1 .. MaxLines |-> "none"]
  /\ owed = {} /\ told = [n \in 1 .. MaxLines |-> 0]
  /\ cut = FALSE /\ over = FALSE

(* A legacy notifications/initialized. *)
Announces(m) == m.kind = "notification" /\ m.method = "initialized" /\ EraOf[m] = "legacy"

Settled ==
  /\ \A n \in owed : heard[n].method # "initialize"
  /\ Last > 0 /\ Announces(heard[Last]) => phase # "awaiting"

Hear ==
  /\ ~over /\ Settled /\ Last < MaxLines
  /\ \E m \in Messages :
       /\ heard' = Append(heard, m)
       /\ owed' = IF m.kind = "notification" THEN owed ELSE owed \cup {Last + 1}
       /\ verdict' = IF m.kind = "junk" THEN [verdict EXCEPT ![Last + 1] = "invalid"] ELSE verdict
  /\ UNCHANGED <<era, phase, told, cut, over>>

(* The first line to get that far settles the era: a request that waits    *)
(* for its answer, or the notification just heard.                         *)
Pin ==
  /\ era = "undecided"
  /\ \E n \in 1 .. Last :
       /\ verdict[n] = "none" /\ (heard[n].kind = "notification" => n = Last)
       /\ EraOf[heard[n]] # "rejected"
       /\ era' = EraOf[heard[n]]
  /\ UNCHANGED <<heard, phase, verdict, owed, told, cut, over>>

Complete ==
  /\ phase = "awaiting" /\ Last > 0 /\ Announces(heard[Last])
  /\ phase' = "ready"
  /\ UNCHANGED <<heard, era, verdict, owed, told, cut, over>>
-----------------------------------------------------------------------------
(* What a line may be answered.                                            *)

Undecided == {n \in owed : verdict[n] = "none"}

Decide(n, o) ==
  /\ verdict' = [verdict EXCEPT ![n] = o]
  /\ UNCHANGED <<heard, era, owed, told, cut, over>>

(* At the door: only while the answers that would make room are owed. *)
Refuse ==
  /\ Last \in Undecided
  /\ \/ Cardinality(owed \ {Last}) >= MaxInFlight /\ Decide(Last, "too_many")
     \/ /\ \E k \in owed \ {Last} : heard[k].id = heard[Last].id
        /\ Decide(Last, "duplicate")
  /\ UNCHANGED phase

Reject(n) ==
  /\ \/ EraOf[heard[n]] = "rejected" /\ Decide(n, "invalid")
     \/ EraOf[heard[n]] # "rejected" /\ era \notin {"undecided", EraOf[heard[n]]}
          /\ Decide(n, "mismatch")
  /\ UNCHANGED phase

Fail(n) == heard[n].method # "initialize" /\ Decide(n, "panic") /\ UNCHANGED phase

(* A line that is served is of the era of the conversation. *)
Of(n, e) == EraOf[heard[n]] = e /\ era = e

Open(n) ==
  /\ Of(n, "legacy") /\ heard[n].method = "initialize"
  /\ \/ phase = "uninitialized" /\ Decide(n, "result") /\ phase' = "awaiting"
     \/ phase # "uninitialized" /\ Decide(n, "already_initialized") /\ UNCHANGED phase
     \/ Decide(n, "method_error") /\ UNCHANGED phase

IsOpen(n) == Of(n, "modern") \/ (Of(n, "legacy") /\ phase = "ready")

(* A later cancellation that names it, of the same era. *)
Cancelled(n) ==
  \E k \in n + 1 .. Last : /\ heard[k].kind = "notification" /\ heard[k].method = "cancelled"
                           /\ heard[k].id = heard[n].id /\ EraOf[heard[k]] = era

Serve(n) ==
  /\ LET method == heard[n].method
         plain  == method \in {"initialize", "ping", "initialized"}
     IN  \/ ~plain /\ IsOpen(n) /\ Decide(n, "result")
         \/ ~plain /\ Of(n, "legacy") /\ phase # "ready" /\ Decide(n, "not_initialized")
         \/ method = "call" /\ IsOpen(n) /\ Decide(n, "timeout")
         \/ method = "call" /\ IsOpen(n) /\ Cancelled(n) /\ Decide(n, "cancelled")
         \/ method = "ping" /\ Of(n, "legacy") /\ Decide(n, "result")
         \/ method = "initialized" /\ Of(n, "legacy") /\ Decide(n, "method_error")
         \/ plain /\ Of(n, "modern") /\ Decide(n, "method_error")
  /\ UNCHANGED phase
-----------------------------------------------------------------------------
HandOver(n) ==
  /\ verdict[n] # "none"
  /\ owed' = owed \ {n}
  /\ UNCHANGED <<heard, era, phase, verdict, told, cut, over>>

Tell(n) ==
  /\ ~cut /\ verdict[n] # "none" /\ told[n] = 0
  /\ told' = [told EXCEPT ![n] = 1]
  /\ UNCHANGED <<heard, era, phase, verdict, owed, cut, over>>

CutOff == cut' = TRUE /\ UNCHANGED <<heard, era, phase, verdict, owed, told, over>>

HangUp ==
  /\ owed = {}
  /\ cut \/ \A n \in 1 .. Last : heard[n].kind = "notification" \/ told[n] = 1
  /\ over' = TRUE
  /\ UNCHANGED <<heard, era, phase, verdict, owed, told, cut>>

Next ==
  \/ Hear \/ Pin \/ Complete \/ Refuse \/ CutOff \/ HangUp
  \/ \E n \in Undecided : Reject(n) \/ Fail(n) \/ Open(n) \/ Serve(n)
  \/ \E n \in owed : HandOver(n)
  \/ \E n \in 1 .. Last \ owed : Tell(n)

Spec == Init /\ [][Next]_vars
=============================================================================
