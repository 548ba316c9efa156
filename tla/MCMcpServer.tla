---------------------------- MODULE MCMcpServer ----------------------------
(* Three lines of input: enough for a handshake and a request after it,    *)
(* two openings of different eras, a cancelled request whose id is used    *)
(* again, and a registry or a channel that is full.                        *)
EXTENDS McpServer, TLC

CONSTANTS i, j

Req(method, claim, id)  == [kind |-> "request", method |-> method, claim |-> claim, id |-> id]
Note(method, claim, id) == [kind |-> "notification", method |-> method, claim |-> claim, id |-> id]
Junk                    == [kind |-> "junk", method |-> "list", claim |-> "none", id |-> i]

MCMessages ==
  { Req("call", "none", i), Req("call", "none", j), Req("call", "modern", i),
    Req("initialize", "none", i),
    Note("initialized", "none", i),
    Note("cancelled", "none", i), Note("cancelled", "modern", i) }

(* The lines a loop of two lines adds: those it refuses, drops or answers  *)
(* at once.                                                                *)
MCAllMessages == MCMessages \cup
  { Req("initialize", "bad", j), Req("initialize", "modern", j), Req("ping", "none", j), Req("initialized", "none", j),
    Req("list", "incomplete", i),
    Req("list", "modern", j), Note("initialized", "modern", i), Note("cancelled", "bad", i),
    Junk }
=============================================================================
