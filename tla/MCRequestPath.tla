--------------------------- MODULE MCRequestPath ---------------------------
(* Four stations of a request, each a closed component that shares no      *)
(* state with the others: the framing of its line, the access to the tool  *)
(* it names, and the two tools whose verdict decides what a coding agent   *)
(* does next.  One of them moves while the others are at rest, so that     *)
(* their state spaces add up and do not multiply.                          *)
EXTENDS Framing, ToolAccess, EditPreflight, CommandPreflight

RequestPathInit == FramingInit /\ AccessInit /\ EditInit /\ CommandInit
RequestPathNext ==
  \/ /\ AccessInit /\ EditInit /\ CommandInit
     /\ UNCHANGED <<access, editing, commanding>>
     /\ FramingNext
  \/ /\ FramingInit /\ EditInit /\ CommandInit
     /\ UNCHANGED <<framing, editing, commanding>>
     /\ AccessNext
  \/ /\ FramingInit /\ AccessInit /\ CommandInit
     /\ UNCHANGED <<framing, access, commanding>>
     /\ EditNext
  \/ /\ FramingInit /\ AccessInit /\ EditInit
     /\ UNCHANGED <<framing, access, editing>>
     /\ CommandNext
RequestPathSpec ==
  RequestPathInit /\ [][RequestPathNext]_<<framing, access, editing, commanding>>

(* Fills of up to three bytes with a limit of two: a line within, at and   *)
(* beyond the limit, and a CRLF in one fill and split between two.         *)
MCChunks == UNION {[1..n -> {"cr", "bad", "other"}] : n \in 0..3}

(* A tool of each exposure, one of them deprecated, one in no profile but  *)
(* "full", one pinned that a model may not run.  Words either match no     *)
(* tool, or match a deprecated one less than the others and one of the     *)
(* others in more of their tokens than the tools before it.                *)
MCToolNames == {"math", "edit", "longtail", "old", "hidden"}
MCexposure == [math |-> "default", edit |-> "harness_only", longtail |-> "contextual",
               old |-> "default", hidden |-> "hidden"]
MCprofiles == [math |-> {"full", "default"}, edit |-> {"full", "default"},
               longtail |-> {"full"}, old |-> {"full"}, hidden |-> {}]
MCindex == [math |-> 1, edit |-> 2, longtail |-> 3, old |-> 4, hidden |-> 5]
MCWordRanks ==
  LET rank(r, n) == [relevance |-> r, matched_tokens |-> n]
  IN  {[t \in MCToolNames |-> rank(6, 0)],
       [t \in MCToolNames |-> IF t = "old" THEN rank(3, 1)
                              ELSE rank(2, IF t = "longtail" THEN 2 ELSE 1)]}

(* Each outcome of each mode with each outcome of every other check; and   *)
(* each way the arguments may be wrong.                                    *)
PlainEdit ==
  [original |-> "fits", mode |-> "literal", supplied |-> Required["literal"],
   ascending |-> TRUE, metadata |-> "fits", outcome |-> "one_match",
   fingerprint |-> Skip, path |-> Skip,
   newline |-> [checked |-> FALSE, original |-> "lf", replacement |-> "lf"], unicode |-> Skip]
OutcomesOf == [literal |-> {"one_match", "no_match", "several"},
               patch |-> {"applies", "fails", "oversize"}, line_range |-> {"valid", "invalid"}]
Newlines == {PlainEdit.newline} \cup
  {[checked |-> TRUE, original |-> s, replacement |-> t] : s \in {"lf", "mixed"}, t \in Styles}
Asked(m) ==
  {[PlainEdit EXCEPT !.mode = m, !.supplied = Required[m], !.outcome = o, !.fingerprint = f,
                     !.path = p, !.newline = n, !.unicode = u] :
     o \in OutcomesOf[m], f \in {Skip, "same", "differs"},
     p \in {Skip, "inside", "outside"}, n \in Newlines,
     u \in {Skip, "allow", "review", "block"}}
Malformed ==
  {[PlainEdit EXCEPT !.original = o, !.mode = m, !.supplied = s, !.ascending = a,
                     !.metadata = t] :
     o \in {"fits", "missing", "too_large"}, m \in Modes \cup {"other"},
     s \in SUBSET Arguments, a \in BOOLEAN, t \in {"fits", "too_large"}}
MCEdits == {e \in Malformed : argument_error(e) # "none"} \cup UNION {Asked(m) : m \in Modes}

(* Every program with and without a second word that writes, destructive   *)
(* patterns, kinds of regex risk, and the features of the shell a few at a *)
(* time; no more than one kind of rule at a time, an allow list and a      *)
(* denied subcommand excepted.                                             *)
PlainCommand ==
  [problem |-> "none", program |-> "cat", writes |-> FALSE, destructive |-> {}, uses |-> {},
   risky |-> FALSE, unbalanced |-> FALSE, regex |-> {}, ascii |-> TRUE, traversal |-> FALSE]
MCCommands ==
  {[PlainCommand EXCEPT !.program = g, !.writes = w] :
     g \in Programs \ ToldBySubcommand, w \in BOOLEAN}
  \cup {[PlainCommand EXCEPT !.program = g] : g \in ToldBySubcommand}
  \cup {[PlainCommand EXCEPT !.program = g, !.destructive = {"PipeToShell"}] :
          g \in {"cat", "curl"}}
  \cup {[PlainCommand EXCEPT !.program = "rm", !.destructive = d] :
          d \in {{"DestructiveRemove"}, {"DestructiveRemove", "PipeToShell"}}}
  \cup {[PlainCommand EXCEPT !.program = g, !.regex = r, !.traversal = t] :
          g \in {"cat", "make", "curl"}, t \in BOOLEAN,
          r \in {{}, {"COMPLEXITY"}, {"BACKREFERENCE", "AMBIGUOUS_DOT_STAR"}}}
  \cup {[PlainCommand EXCEPT !.program = g, !.uses = u, !.risky = TRUE,
                             !.unbalanced = b, !.ascii = b] :
          g \in {"cat", "curl"}, b \in BOOLEAN,
          u \in {{}, {"pipeline"},
                 {"command_substitution", "redirection", "background_execution"}}}
  \cup {[PlainCommand EXCEPT !.problem = x] : x \in Problems}
PlainConfig == [policy |-> "default", denied |-> FALSE, allow_list |-> "empty",
                sub_denied |-> FALSE, allows |-> {}]
RuleSets ==
  {PlainConfig, [PlainConfig EXCEPT !.denied = TRUE],
   [PlainConfig EXCEPT !.allow_list = "names_it"]}
  \cup {[PlainConfig EXCEPT !.allow_list = "names_others", !.sub_denied = s] : s \in BOOLEAN}
MCConfigs == {[r EXCEPT !.policy = p, !.allows = a] :
                r \in RuleSets, p \in Policies, a \in {{}, {"network"}, Overrides}}
=============================================================================
