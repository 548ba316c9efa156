--------------------------- MODULE EditPreflight ---------------------------
(***************************************************************************)
(* edit_preflight (src/tools/patch.rs): whether a proposed edit may be     *)
(* applied.  The handler runs its checks one after the other and looks,    *)
(* before each, whether the caller has cancelled or its time is up; the    *)
(* findings make a verdict, a primary code and secondary codes, which the  *)
(* typed wrapper (src/preflight/mod.rs) hands to its caller.  What a check *)
(* finds in the texts is part of the edit here, as an outcome.             *)
(***************************************************************************)
EXTENDS Naturals, Sequences, Functions

CONSTANT Edits  \* the edits that may be asked for

Modes     == {"literal", "patch", "line_range"}
Arguments == {"old", "new", "patch", "start_line", "end_line"}
Styles    == {"none", "lf", "crlf", "mixed"}
Skip      == "skip"
ModeOutcomes == {"one_match", "no_match", "several",  \* literal
                 "applies", "fails", "oversize",      \* patch
                 "valid", "invalid"}                  \* line_range
(* original: does it fit?  supplied: the arguments given besides it.       *)
(* ascending: start_line <= end_line.  outcome: what the mode's own check  *)
(* finds.  newline: the styles of original and replacement, and whether    *)
(* the policy has them checked.                                            *)
EditRecord ==
  [original    : {"fits", "missing", "too_large"},
   mode        : Modes \cup {"other"},
   supplied    : SUBSET Arguments,
   ascending   : BOOLEAN,
   metadata    : {"fits", "too_large"},
   outcome     : ModeOutcomes,
   fingerprint : {Skip, "same", "differs"},
   path        : {Skip, "inside", "outside"},
   newline     : [checked : BOOLEAN, original : Styles, replacement : Styles],
   unicode     : {Skip, "allow", "review", "block"}]
ASSUME EditAssumption == Edits \subseteq EditRecord

VARIABLES
  edit,       \* the edit being checked, NoEdit at the start
  at,         \* the stop check the handler is at, or has just passed
  passed,     \* whether it has passed that one
  findings,   \* in the order they were found
  cancelled,  \* the caller's flag
  expired,    \* the deadline has passed
  late,       \* how many checks were begun after either
  response,   \* of the tool
  output      \* of the typed wrapper
editing == <<edit, at, passed, findings, cancelled, expired, late, response, output>>

NoEdit  == [mode |-> "none"]
Pending == [kind |-> "pending"]
Error(code) == [kind |-> "error", code |-> code]

(* The stop checks; the last four are those of inspect_text_security. *)
Following == [mode |-> "fingerprint", fingerprint |-> "newline", newline |-> "unicode",
              unicode |-> "policy", policy |-> "normalization",
              normalization |-> "identifiers", identifiers |-> "verdict",
              verdict |-> "reply"]
Points == DOMAIN Following

-----------------------------------------------------------------------------
(* The contract of the arguments. *)
Required == [literal |-> {"old", "new"}, patch |-> {"patch"},
             line_range |-> {"start_line", "end_line", "new"}]
Conflicting == [literal |-> {"patch", "start_line", "end_line"},
                patch |-> {"old", "new"}, line_range |-> {"old", "patch"}]

argument_error(e) ==
  IF e.original = "missing" THEN "INVALID_ARGUMENTS"
  ELSE IF e.original = "too_large" THEN "INPUT_TOO_LARGE"
  ELSE IF e.mode \notin Modes THEN "EDIT_MODE_INVALID"
  ELSE IF ~(Required[e.mode] \subseteq e.supplied) THEN "EDIT_ARGUMENTS_MISSING"
  ELSE IF e.mode = "line_range" /\ ~e.ascending THEN "LINE_RANGE_INVALID"
  ELSE IF Conflicting[e.mode] \cap e.supplied # {} THEN "EDIT_ARGUMENTS_CONFLICT"
  ELSE IF e.metadata = "too_large" THEN "EDIT_METADATA_TOO_LARGE"
  ELSE "none"

-----------------------------------------------------------------------------
(* The checks: what each adds to the findings. *)
Finding(code, severity) == <<[code |-> code, severity |-> severity]>>

mode_findings(e) ==
  CASE e.outcome = "no_match" -> Finding("NO_MATCH", "high")
    [] e.outcome = "several"  -> Finding("MULTIPLE_MATCHES", "medium")
    [] e.outcome = "fails"    -> Finding("PATCH_FAILED", "high")
    [] e.outcome = "oversize" -> Finding("PATCH_ERROR", "high")
    [] e.outcome = "invalid"  -> Finding("INVALID_RANGE", "high")
    [] OTHER                  -> <<>>

fingerprint_findings(e) ==
  IF e.fingerprint = "differs" THEN Finding("FINGERPRINT_MISMATCH", "medium") ELSE <<>>
path_findings(e) ==
  IF e.path = "outside" THEN Finding("PATH_SCOPE_ESCAPE", "high") ELSE <<>>

Concrete(style) == style # "none" /\ style # "mixed"
mixed(n) == \/ n.original = "mixed" \/ n.replacement = "mixed"
            \/ n.original # "none" /\ n.replacement # "none" /\ n.original # n.replacement
(* Fault: one concrete style is enough for the texts to count as merely    *)
(* different.                                                              *)
mismatch_on_one_side(n) == Concrete(n.original) /\ n.replacement # n.original
consistent_style_mismatch(n) ==
  Concrete(n.original) /\ Concrete(n.replacement) /\ n.replacement # n.original
newline_findings(e) ==
  IF ~e.newline.checked \/ ~mixed(e.newline) THEN <<>>
  ELSE Finding("NEWLINE_INCONSISTENCY",
               IF consistent_style_mismatch(e.newline) THEN "info" ELSE "medium")

unicode_findings(e) ==
  CASE e.unicode = "block"  -> Finding("UNICODE_RISK", "high")
    [] e.unicode = "review" -> Finding("UNICODE_RISK", "medium")
    [] OTHER                -> <<>>

Found(point, e) ==
  CASE point = "mode"        -> mode_findings(e)
    [] point = "fingerprint" -> fingerprint_findings(e) \o path_findings(e)
    [] point = "newline"     -> newline_findings(e)
    [] point = "verdict"     -> unicode_findings(e)
    [] OTHER                 -> <<>>

-----------------------------------------------------------------------------
(* The reply. *)
Code == [NO_MATCH |-> "AMBIGUOUS_REPLACEMENT", MULTIPLE_MATCHES |-> "AMBIGUOUS_REPLACEMENT",
         PATCH_FAILED |-> "PATCH_FAILED", PATCH_ERROR |-> "PATCH_FAILED",
         INVALID_RANGE |-> "LINE_RANGE_INVALID",
         FINGERPRINT_MISMATCH |-> "FINGERPRINT_MISMATCH",
         PATH_SCOPE_ESCAPE |-> "PATH_SCOPE_ESCAPE",
         NEWLINE_INCONSISTENCY |-> "NEWLINE_INCONSISTENCY",
         UNICODE_RISK |-> "UNICODE_RISK"]
CodesOf(fs) == [i \in 1..Len(fs) |-> Code[fs[i].code]]

derive_primary_machine_code(fs) == IF fs = <<>> THEN "EDIT_OK" ELSE CodesOf(fs)[1]
next_tool(primary) ==
  IF primary \in {"AMBIGUOUS_REPLACEMENT", "FINGERPRINT_MISMATCH"}
  THEN "text_diff_explain" ELSE "none"

Severities(fs) == {fs[i].severity : i \in 1..Len(fs)}
derive_verdict(fs) == IF "high" \in Severities(fs) THEN "block"
                      ELSE IF "medium" \in Severities(fs) THEN "review" ELSE "allow"

secondary_machine_codes(fs) == Range(CodesOf(fs)) \ {derive_primary_machine_code(fs)}

Verdict(fs) ==
  LET primary == derive_primary_machine_code(fs)
  IN  [kind |-> "verdict", verdict |-> derive_verdict(fs),
       ok_to_apply |-> "high" \notin Severities(fs),
       machine_code |-> primary, secondary |-> secondary_machine_codes(fs),
       result_next_tool |-> next_tool(primary), recommended_next_tool |-> "none"]

-----------------------------------------------------------------------------
EditInit == /\ edit = NoEdit /\ at = "idle" /\ passed = FALSE /\ findings = <<>>
            /\ cancelled = FALSE /\ expired = FALSE /\ late = 0
            /\ response = Pending /\ output = Pending

Call ==
  /\ edit = NoEdit
  /\ \E e \in Edits :
       /\ edit' = e
       /\ IF argument_error(e) = "none"
          THEN at' = "mode" /\ UNCHANGED response
          ELSE at' = "done" /\ response' = Error(argument_error(e))
  /\ UNCHANGED <<passed, findings, cancelled, expired, late, output>>

should_stop == cancelled \/ expired

(* One stop check.  The unicode check has four of its own, and is left out *)
(* when the policy skips it.                                               *)
Look ==
  /\ at \in Points /\ ~passed
  /\ IF should_stop THEN at' = "stopping" /\ UNCHANGED passed
     ELSE IF at = "unicode" /\ edit.unicode = Skip THEN at' = "reply" /\ UNCHANGED passed
     ELSE passed' = TRUE /\ UNCHANGED at
  /\ UNCHANGED <<edit, findings, cancelled, expired, late, response, output>>

(* Fault: only the unicode check is preceded by a stop check. *)
straight_on(point) == passed' = (Following[point] \in {"fingerprint", "newline"})
(* The next thing to happen is the next stop check. *)
look_again(point) == passed' = FALSE

(* The work between one stop check and the next. *)
Check ==
  /\ at \in Points /\ passed
  /\ findings' = findings \o Found(at, edit)
  /\ at' = Following[at]
  /\ look_again(at)
  /\ late' = IF should_stop THEN late + 1 ELSE late
  /\ UNCHANGED <<edit, cancelled, expired, response, output>>

(* check_should_stop asks again, the flag first. *)
Stop == /\ at = "stopping"
        /\ at' = "done"
        /\ response' = Error(IF cancelled THEN "CANCELLED" ELSE "TIMEOUT")
        /\ UNCHANGED <<edit, passed, findings, cancelled, expired, late, output>>

Reply == /\ at = "reply"
         /\ at' = "done"
         /\ response' = Verdict(findings)
         /\ UNCHANGED <<edit, passed, findings, cancelled, expired, late, output>>

(* parse_response.  The tool is recommended in the result alone, and the   *)
(* wrapper reads the envelope.                                             *)
Parse == /\ at = "done" /\ output = Pending
         /\ output' = IF response.kind = "error"
                      THEN [kind |-> "rejected", machine_code |-> response.code]
                      ELSE [kind |-> "output", verdict |-> response.verdict,
                            ok_to_apply |-> response.ok_to_apply,
                            machine_code |-> response.machine_code,
                            secondary |-> response.secondary,
                            recommended_next_tool |-> response.recommended_next_tool]
         /\ UNCHANGED <<edit, at, passed, findings, cancelled, expired, late, response>>

Cancel == /\ ~cancelled /\ edit # NoEdit /\ response = Pending
          /\ cancelled' = TRUE
          /\ UNCHANGED <<edit, at, passed, findings, expired, late, response, output>>
Expire == /\ ~expired /\ edit # NoEdit /\ response = Pending
          /\ expired' = TRUE
          /\ UNCHANGED <<edit, at, passed, findings, cancelled, late, response, output>>

EditNext == \/ Call
            \/ Look \/ Check \/ Stop \/ Reply \/ Parse \/ Cancel \/ Expire
EditSpec == EditInit /\ [][EditNext]_editing

-----------------------------------------------------------------------------
Severity == {"high", "medium", "info"}
EditTypeOK ==
  /\ edit \in EditRecord \cup {NoEdit}
  /\ at \in Points \cup {"idle", "stopping", "reply", "done"}
  /\ passed \in BOOLEAN /\ cancelled \in BOOLEAN /\ expired \in BOOLEAN
  /\ findings \in Seq([code : DOMAIN Code, severity : Severity])
  /\ late \in Nat
  /\ response.kind \in {"pending", "error", "verdict"}
  /\ output.kind \in {"pending", "rejected", "output"}

(* What the checks that were asked for say of an edit, order aside. *)
Blocked(e) == \/ e.outcome \in {"no_match", "fails", "oversize", "invalid"}
              \/ e.path = "outside" \/ e.unicode = "block"
EachMixed(e) == e.newline.checked /\ "mixed" \in {e.newline.original, e.newline.replacement}
Doubtful(e) == \/ e.outcome = "several" \/ e.fingerprint = "differs"
               \/ e.unicode = "review" \/ EachMixed(e)
Reported(e) ==
  (CASE e.outcome \in {"no_match", "several"} -> {"AMBIGUOUS_REPLACEMENT"}
     [] e.outcome \in {"fails", "oversize"}   -> {"PATCH_FAILED"}
     [] e.outcome = "invalid"                 -> {"LINE_RANGE_INVALID"}
     [] OTHER                                 -> {})
  \cup (IF e.fingerprint = "differs" THEN {"FINGERPRINT_MISMATCH"} ELSE {})
  \cup (IF e.path = "outside" THEN {"PATH_SCOPE_ESCAPE"} ELSE {})
  \cup (IF e.newline.checked /\ mixed(e.newline) THEN {"NEWLINE_INCONSISTENCY"} ELSE {})
  \cup (IF e.unicode \in {"review", "block"} THEN {"UNICODE_RISK"} ELSE {})

(* A verdict weighs every check that was asked for: no stop, early return  *)
(* or later finding loses one.  It allows what nothing speaks against,     *)
(* blocks as soon as one check does, and the primary and secondary codes   *)
(* together name exactly what was found (patch.rs:340, 972, 1108).         *)
VerdictWeighsEveryCheck ==
  output.kind = "output" =>
    /\ output.verdict = IF Blocked(edit) THEN "block"
                        ELSE IF Doubtful(edit) THEN "review" ELSE "allow"
    /\ output.ok_to_apply <=> ~Blocked(edit)
    /\ {output.machine_code} \cup output.secondary =
         IF Reported(edit) = {} THEN {"EDIT_OK"} ELSE Reported(edit)
    /\ output.machine_code \notin output.secondary

(* Once the caller has cancelled or the time is up, at most the check then *)
(* under way is finished.  The answer then says so, and says it was        *)
(* cancelled if it was; it is a verdict only if that check was the last    *)
(* (budget.rs:381, 503, patch.rs:599, 822, 929, 986).                      *)
StopsWithinACheck ==
  /\ late <= 1
  /\ response.kind = "verdict" => late = 0 \/ edit.unicode # Skip
  /\ response.kind = "error" /\ response.code = "TIMEOUT" => expired /\ ~cancelled
  /\ response.kind = "error" /\ response.code = "CANCELLED" => cancelled
=============================================================================
