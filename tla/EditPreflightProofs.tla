------------------------ MODULE EditPreflightProofs ------------------------
(***************************************************************************)
(* For every edit: a verdict weighs every check that was asked for, and a  *)
(* cancellation or a deadline stops the handler within one check.          *)
(***************************************************************************)
EXTENDS EditPreflight, SequenceTheorems, TLAPS

FindingRecord == [code : DOMAIN Code, severity : Severity]
F(code, severity) == [code |-> code, severity |-> severity]

ModeSet(e)        == Range(Found("mode", e))
FingerprintSet(e) == Range(Found("fingerprint", e))
NewlineSet(e)     == Range(Found("newline", e))
UnicodeSet(e)     == Range(Found("verdict", e))
All(e) == ModeSet(e) \cup FingerprintSet(e) \cup NewlineSet(e) \cup UnicodeSet(e)

UnicodePoints == {"unicode", "policy", "normalization", "identifiers", "verdict"}

(* The findings at a stop check: those of the checks before it.             *)
SoFar ==
  /\ at \in {"idle", "mode"} => Range(findings) = {}
  /\ at = "fingerprint" => Range(findings) = ModeSet(edit)
  /\ at = "newline" => Range(findings) = ModeSet(edit) \cup FingerprintSet(edit)
  /\ at \in UnicodePoints =>
       Range(findings) = ModeSet(edit) \cup FingerprintSet(edit) \cup NewlineSet(edit)
  /\ at = "reply" => Range(findings) = All(edit)

(* A check that was begun late was the last; one can end in the reply only  *)
(* if it was the last of the unicode checks.                                *)
Punctual ==
  /\ late \in {0, 1}
  /\ late = 1 => should_stop /\ ~passed
  /\ at = "stopping" => should_stop
  /\ at \in UnicodePoints \ {"unicode"} \/ (at = "unicode" /\ passed) => edit.unicode # Skip
  /\ at = "reply" => late = 0 \/ edit.unicode # Skip

Answering ==
  /\ at # "done" => response = Pending /\ output = Pending
  /\ at = "done" => response.kind # "pending"
  /\ response.kind = "verdict" =>
       response = Verdict(findings) /\ Range(findings) = All(edit) /\ edit \in EditRecord
  /\ output.kind = "output" =>
       /\ response.kind = "verdict" /\ output.verdict = response.verdict
       /\ output.ok_to_apply = response.ok_to_apply
       /\ output.machine_code = response.machine_code
       /\ output.secondary = response.secondary

EditInv == /\ EditTypeOK
           /\ edit = NoEdit <=> at = "idle"
           /\ passed => at \in Points
           /\ SoFar /\ Punctual /\ Answering
           /\ StopsWithinACheck

-----------------------------------------------------------------------------
(* What the checks find.                                                    *)

LEMMA PointNames == Points = {"mode", "fingerprint", "newline", "unicode", "policy",
                              "normalization", "identifiers", "verdict"}
BY DEF Points, Following

LEMMA CodeNames == DOMAIN Code = {"NO_MATCH", "MULTIPLE_MATCHES", "PATCH_FAILED",
  "PATCH_ERROR", "INVALID_RANGE", "FINGERPRINT_MISMATCH", "PATH_SCOPE_ESCAPE",
  "NEWLINE_INCONSISTENCY", "UNICODE_RISK"}
BY DEF Code

LEMMA Edited == NoEdit \notin EditRecord
BY DEF NoEdit, EditRecord, Modes

LEMMA EmptyRange == Range(<<>>) = {}
BY DEF Range

LEMMA OneFinding ==
  ASSUME NEW c \in DOMAIN Code, NEW s \in Severity
  PROVE  Finding(c, s) \in Seq(FindingRecord) /\ Range(Finding(c, s)) = {F(c, s)}
<1>1. F(c, s) \in FindingRecord
  BY DEF F, FindingRecord
<1>2. Finding(c, s) = <<F(c, s)>>
  BY DEF Finding, F
<1> HIDE DEF FindingRecord
<1>3. <<F(c, s)>> \in Seq(FindingRecord) /\ Len(<<F(c, s)>>) = 1 /\ <<F(c, s)>>[1] = F(c, s)
  BY <1>1
<1>4. Range(<<F(c, s)>>) = {<<F(c, s)>>[i] : i \in 1 .. Len(<<F(c, s)>>)}
  BY <1>3, RangeEquality
<1>5. {<<F(c, s)>>[i] : i \in 1 .. 1} = {<<F(c, s)>>[1]}
  OBVIOUS
<1> QED BY <1>2, <1>3, <1>4, <1>5

LEMMA NoFinding == <<>> \in Seq(FindingRecord)
OBVIOUS

LEMMA ModeFinds ==
  ASSUME NEW e \in EditRecord
  PROVE  /\ mode_findings(e) \in Seq(FindingRecord)
         /\ \A f : f \in Range(mode_findings(e)) <=>
              \/ e.outcome = "no_match" /\ f = F("NO_MATCH", "high")
              \/ e.outcome = "several" /\ f = F("MULTIPLE_MATCHES", "medium")
              \/ e.outcome = "fails" /\ f = F("PATCH_FAILED", "high")
              \/ e.outcome = "oversize" /\ f = F("PATCH_ERROR", "high")
              \/ e.outcome = "invalid" /\ f = F("INVALID_RANGE", "high")
<1> HIDE DEF FindingRecord
<1>1. /\ \A c \in DOMAIN Code, s \in Severity :
           Finding(c, s) \in Seq(FindingRecord) /\ Range(Finding(c, s)) = {F(c, s)}
      /\ <<>> \in Seq(FindingRecord) /\ Range(<<>>) = {}
  BY OneFinding, NoFinding, EmptyRange
<1>2. "high" \in Severity /\ "medium" \in Severity
  BY DEF Severity
<1>3. CASE e.outcome = "no_match"
  BY <1>1, <1>2, <1>3, CodeNames DEF mode_findings
<1>4. CASE e.outcome = "several"
  BY <1>1, <1>2, <1>4, CodeNames DEF mode_findings
<1>5. CASE e.outcome = "fails"
  BY <1>1, <1>2, <1>5, CodeNames DEF mode_findings
<1>6. CASE e.outcome = "oversize"
  BY <1>1, <1>2, <1>6, CodeNames DEF mode_findings
<1>7. CASE e.outcome = "invalid"
  BY <1>1, <1>2, <1>7, CodeNames DEF mode_findings
<1>8. CASE e.outcome \notin {"no_match", "several", "fails", "oversize", "invalid"}
  <2>1. mode_findings(e) = <<>>
    BY <1>8 DEF mode_findings
  <2> QED BY <1>1, <1>8, <2>1
<1> QED BY <1>3, <1>4, <1>5, <1>6, <1>7, <1>8

LEMMA FingerprintFinds ==
  ASSUME NEW e \in EditRecord
  PROVE  /\ fingerprint_findings(e) \o path_findings(e) \in Seq(FindingRecord)
         /\ \A f : f \in Range(fingerprint_findings(e) \o path_findings(e)) <=>
              \/ e.fingerprint = "differs" /\ f = F("FINGERPRINT_MISMATCH", "medium")
              \/ e.path = "outside" /\ f = F("PATH_SCOPE_ESCAPE", "high")
<1> DEFINE a == fingerprint_findings(e)
           b == path_findings(e)
<1>1. /\ \A c \in DOMAIN Code, s \in Severity :
           Finding(c, s) \in Seq(FindingRecord) /\ Range(Finding(c, s)) = {F(c, s)}
      /\ <<>> \in Seq(FindingRecord) /\ Range(<<>>) = {}
      /\ "high" \in Severity /\ "medium" \in Severity
  BY OneFinding, NoFinding, EmptyRange DEF Severity
<1> HIDE DEF FindingRecord
<1>2. /\ a \in Seq(FindingRecord)
      /\ \A f : f \in Range(a) <=> e.fingerprint = "differs" /\ f = F("FINGERPRINT_MISMATCH", "medium")
  BY <1>1, CodeNames DEF fingerprint_findings
<1>3. /\ b \in Seq(FindingRecord)
      /\ \A f : f \in Range(b) <=> e.path = "outside" /\ f = F("PATH_SCOPE_ESCAPE", "high")
  BY <1>1, CodeNames DEF path_findings
<1> HIDE DEF a, b
<1>4. Range(a \o b) = Range(a) \cup Range(b) /\ a \o b \in Seq(FindingRecord)
  BY <1>2, <1>3, RangeConcatenation, ConcatProperties
<1> QED BY <1>2, <1>3, <1>4 DEF a, b

NewlineSeverity(e) == IF consistent_style_mismatch(e.newline) THEN "info" ELSE "medium"

LEMMA NewlineFinds ==
  ASSUME NEW e \in EditRecord
  PROVE  /\ newline_findings(e) \in Seq(FindingRecord)
         /\ \A f : f \in Range(newline_findings(e)) <=>
              /\ e.newline.checked /\ mixed(e.newline)
              /\ f = F("NEWLINE_INCONSISTENCY", NewlineSeverity(e))
<1>1. /\ \A c \in DOMAIN Code, s \in Severity :
           Finding(c, s) \in Seq(FindingRecord) /\ Range(Finding(c, s)) = {F(c, s)}
      /\ <<>> \in Seq(FindingRecord) /\ Range(<<>>) = {}
  BY OneFinding, NoFinding, EmptyRange
<1> HIDE DEF FindingRecord
<1>2. NewlineSeverity(e) \in Severity
  BY DEF NewlineSeverity, Severity
<1>3. newline_findings(e) = IF e.newline.checked /\ mixed(e.newline)
                            THEN Finding("NEWLINE_INCONSISTENCY", NewlineSeverity(e)) ELSE <<>>
  BY DEF newline_findings, NewlineSeverity
<1> QED BY <1>1, <1>2, <1>3, CodeNames

LEMMA UnicodeFinds ==
  ASSUME NEW e \in EditRecord
  PROVE  /\ unicode_findings(e) \in Seq(FindingRecord)
         /\ \A f : f \in Range(unicode_findings(e)) <=>
              \/ e.unicode = "block" /\ f = F("UNICODE_RISK", "high")
              \/ e.unicode = "review" /\ f = F("UNICODE_RISK", "medium")
<1>1. /\ \A c \in DOMAIN Code, s \in Severity :
           Finding(c, s) \in Seq(FindingRecord) /\ Range(Finding(c, s)) = {F(c, s)}
      /\ <<>> \in Seq(FindingRecord) /\ Range(<<>>) = {}
      /\ "high" \in Severity /\ "medium" \in Severity
  BY OneFinding, NoFinding, EmptyRange DEF Severity
<1> HIDE DEF FindingRecord
<1>2. CASE e.unicode = "block"
  BY <1>1, <1>2, CodeNames DEF unicode_findings
<1>3. CASE e.unicode = "review"
  BY <1>1, <1>3, CodeNames DEF unicode_findings
<1>4. CASE e.unicode \notin {"block", "review"}
  <2>1. unicode_findings(e) = <<>>
    BY <1>4 DEF unicode_findings
  <2> QED BY <1>1, <1>4, <2>1
<1> QED BY <1>2, <1>3, <1>4

(* Every stop check but four is followed by no check of its own.            *)
LEMMA FoundAt ==
  ASSUME NEW e \in EditRecord, NEW p \in Points
  PROVE  /\ Found(p, e) \in Seq(FindingRecord)
         /\ p \in {"unicode", "policy", "normalization", "identifiers"} => Range(Found(p, e)) = {}
<1> HIDE DEF FindingRecord
<1>1. CASE p = "mode"
  BY <1>1, ModeFinds DEF Found
<1>2. CASE p = "fingerprint"
  BY <1>2, FingerprintFinds DEF Found
<1>3. CASE p = "newline"
  BY <1>3, NewlineFinds DEF Found
<1>4. CASE p = "verdict"
  BY <1>4, UnicodeFinds DEF Found
<1>5. CASE p \notin {"mode", "fingerprint", "newline", "verdict"}
  <2>1. Found(p, e) = <<>>
    BY <1>5 DEF Found
  <2> QED BY <1>5, <2>1, EmptyRange, NoFinding, PointNames
<1> QED BY <1>1, <1>2, <1>3, <1>4, <1>5

-----------------------------------------------------------------------------
(* The verdict.                                                             *)

(* The findings of an edit, one by one.                                     *)
LEMMA AllFindings ==
  ASSUME NEW e \in EditRecord
  PROVE  \A f : f \in All(e) <=>
           \/ e.outcome = "no_match" /\ f = F("NO_MATCH", "high")
           \/ e.outcome = "several" /\ f = F("MULTIPLE_MATCHES", "medium")
           \/ e.outcome = "fails" /\ f = F("PATCH_FAILED", "high")
           \/ e.outcome = "oversize" /\ f = F("PATCH_ERROR", "high")
           \/ e.outcome = "invalid" /\ f = F("INVALID_RANGE", "high")
           \/ e.fingerprint = "differs" /\ f = F("FINGERPRINT_MISMATCH", "medium")
           \/ e.path = "outside" /\ f = F("PATH_SCOPE_ESCAPE", "high")
           \/ /\ e.newline.checked /\ mixed(e.newline)
              /\ f = F("NEWLINE_INCONSISTENCY", NewlineSeverity(e))
           \/ e.unicode = "block" /\ f = F("UNICODE_RISK", "high")
           \/ e.unicode = "review" /\ f = F("UNICODE_RISK", "medium")
<1>1. /\ Found("mode", e) = mode_findings(e) /\ Found("newline", e) = newline_findings(e)
      /\ Found("fingerprint", e) = fingerprint_findings(e) \o path_findings(e)
      /\ Found("verdict", e) = unicode_findings(e)
  BY DEF Found
<1> QED BY <1>1, ModeFinds, FingerprintFinds, NewlineFinds, UnicodeFinds
        DEF All, ModeSet, FingerprintSet, NewlineSet, UnicodeSet

LEMMA FFields == \A c, s : F(c, s).code = c /\ F(c, s).severity = s
BY DEF F

LEMMA SeveritiesOf ==
  ASSUME NEW fs \in Seq(FindingRecord)
  PROVE  Severities(fs) = {f.severity : f \in Range(fs)}
<1>1. Range(fs) = {fs[i] : i \in 1..Len(fs)}
  BY RangeEquality
<1> QED BY <1>1 DEF Severities

LEMMA CodesOfRange ==
  ASSUME NEW fs \in Seq(FindingRecord)
  PROVE  /\ Range(CodesOf(fs)) = {Code[f.code] : f \in Range(fs)}
         /\ fs # <<>> => CodesOf(fs)[1] \in Range(CodesOf(fs))
         /\ fs = <<>> <=> Range(fs) = {}
<1>1. Range(fs) = {fs[i] : i \in 1..Len(fs)}
  BY RangeEquality
<1>2. DOMAIN CodesOf(fs) = 1..Len(fs) /\ \A i \in 1..Len(fs) : CodesOf(fs)[i] = Code[fs[i].code]
  BY DEF CodesOf
<1>3. Range(CodesOf(fs)) = {Code[fs[i].code] : i \in 1..Len(fs)}
  BY <1>2 DEF Range
<1>4. fs # <<>> => 1 \in 1..Len(fs)
  BY EmptySeq, LenProperties
<1>5. fs # <<>> => fs[1] \in Range(fs)
  BY <1>1, <1>4
<1>6. fs # <<>> => CodesOf(fs)[1] \in Range(CodesOf(fs))
  BY <1>2, <1>3, <1>4
<1>7. Range(CodesOf(fs)) = {Code[f.code] : f \in Range(fs)}
  BY <1>1, <1>3
<1> QED BY <1>5, <1>6, <1>7, EmptyRange

(* Two styles that are each consistent are only worth a note.               *)
LEMMA NewlineWeight ==
  ASSUME NEW e \in EditRecord, e.newline.checked, mixed(e.newline)
  PROVE  NewlineSeverity(e) = IF EachMixed(e) THEN "medium" ELSE "info"
<1>1. CASE EachMixed(e)
  <2>1. ~consistent_style_mismatch(e.newline)
    BY <1>1 DEF EachMixed, consistent_style_mismatch, Concrete
  <2> QED BY <1>1, <2>1 DEF NewlineSeverity
<1>2. CASE ~EachMixed(e)
  <2>1. consistent_style_mismatch(e.newline)
    BY <1>2 DEF EachMixed, consistent_style_mismatch, Concrete, mixed
  <2> QED BY <1>2, <2>1 DEF NewlineSeverity
<1> QED BY <1>1, <1>2

LEMMA Weighed ==
  ASSUME NEW e \in EditRecord, NEW fs \in Seq(FindingRecord), Range(fs) = All(e)
  PROVE  LET v == Verdict(fs) IN
         /\ v.verdict = IF Blocked(e) THEN "block" ELSE IF Doubtful(e) THEN "review" ELSE "allow"
         /\ v.ok_to_apply <=> ~Blocked(e)
         /\ {v.machine_code} \cup v.secondary =
              IF Reported(e) = {} THEN {"EDIT_OK"} ELSE Reported(e)
         /\ v.machine_code \notin v.secondary
<1>1. Severities(fs) = {f.severity : f \in All(e)}
  BY SeveritiesOf
<1>2. Range(CodesOf(fs)) = {Code[f.code] : f \in All(e)} /\ (fs = <<>> <=> All(e) = {})
      /\ (fs # <<>> => CodesOf(fs)[1] \in Range(CodesOf(fs)))
  BY CodesOfRange
<1>3. EachMixed(e) => mixed(e.newline) /\ e.newline.checked
  BY DEF EachMixed, mixed
<1>4. "high" \in Severities(fs) <=> Blocked(e)
  <2>1. ASSUME "high" \in Severities(fs) PROVE Blocked(e)
    <3>1. PICK f \in All(e) : f.severity = "high"
      BY <1>1, <2>1
    <3>2. NewlineSeverity(e) # "high"
      BY DEF NewlineSeverity
    <3> QED BY <3>1, <3>2, AllFindings, FFields DEF Blocked
  <2>2. ASSUME Blocked(e) PROVE "high" \in Severities(fs)
    <3>1. \E c : F(c, "high") \in All(e)
      BY <2>2, AllFindings DEF Blocked
    <3> QED BY <1>1, <3>1, FFields
  <2> QED BY <2>1, <2>2
<1>5. "medium" \in Severities(fs) <=> Doubtful(e)
  <2>1. ASSUME "medium" \in Severities(fs) PROVE Doubtful(e)
    <3>1. PICK f \in All(e) : f.severity = "medium"
      BY <1>1, <2>1
    <3> QED BY <3>1, AllFindings, FFields, NewlineWeight DEF Doubtful
  <2>2. ASSUME Doubtful(e) PROVE "medium" \in Severities(fs)
    <3>1. \E c : F(c, "medium") \in All(e)
      BY <1>3, <2>2, AllFindings, NewlineWeight DEF Doubtful
    <3> QED BY <1>1, <3>1, FFields
  <2> QED BY <2>1, <2>2
<1>6. Range(CodesOf(fs)) = Reported(e)
  <2> DEFINE Named(c) ==
        \/ c = "AMBIGUOUS_REPLACEMENT" /\ e.outcome \in {"no_match", "several"}
        \/ c = "PATCH_FAILED" /\ e.outcome \in {"fails", "oversize"}
        \/ c = "LINE_RANGE_INVALID" /\ e.outcome = "invalid"
        \/ c = "FINGERPRINT_MISMATCH" /\ e.fingerprint = "differs"
        \/ c = "PATH_SCOPE_ESCAPE" /\ e.path = "outside"
        \/ c = "NEWLINE_INCONSISTENCY" /\ e.newline.checked /\ mixed(e.newline)
        \/ c = "UNICODE_RISK" /\ e.unicode \in {"review", "block"}
  <2>1. /\ Code["NO_MATCH"] = "AMBIGUOUS_REPLACEMENT"
        /\ Code["MULTIPLE_MATCHES"] = "AMBIGUOUS_REPLACEMENT"
        /\ Code["PATCH_FAILED"] = "PATCH_FAILED" /\ Code["PATCH_ERROR"] = "PATCH_FAILED"
        /\ Code["INVALID_RANGE"] = "LINE_RANGE_INVALID"
        /\ Code["FINGERPRINT_MISMATCH"] = "FINGERPRINT_MISMATCH"
        /\ Code["PATH_SCOPE_ESCAPE"] = "PATH_SCOPE_ESCAPE"
        /\ Code["NEWLINE_INCONSISTENCY"] = "NEWLINE_INCONSISTENCY"
        /\ Code["UNICODE_RISK"] = "UNICODE_RISK"
    BY DEF Code
  <2>2. \A c : c \in Reported(e) <=> Named(c)
    BY DEF Reported
  <2>3. ASSUME NEW f \in All(e) PROVE Named(Code[f.code])
    BY <2>1, <2>3, AllFindings, FFields
  <2>4. ASSUME NEW c, Named(c) PROVE \E f \in All(e) : c = Code[f.code]
    <3>1. \E d, s : F(d, s) \in All(e) /\ c = Code[d]
      BY <2>1, <2>4, AllFindings
    <3> QED BY <3>1, FFields
  <2> HIDE DEF Named
  <2> QED BY <1>2, <2>2, <2>3, <2>4
<1>7. Reported(e) = {} <=> fs = <<>>
  <2>1. All(e) = {} <=> {Code[f.code] : f \in All(e)} = {}
    OBVIOUS
  <2> QED BY <1>2, <1>6, <2>1
<1> DEFINE p == derive_primary_machine_code(fs)
<1>8. /\ Verdict(fs).verdict = derive_verdict(fs)
      /\ Verdict(fs).ok_to_apply = ("high" \notin Severities(fs))
      /\ Verdict(fs).machine_code = p
      /\ Verdict(fs).secondary = Reported(e) \ {p}
  BY <1>6 DEF Verdict, secondary_machine_codes
<1>9. /\ fs = <<>> => p = "EDIT_OK"
      /\ fs # <<>> => p \in Reported(e)
  BY <1>2, <1>6 DEF derive_primary_machine_code
<1> HIDE DEF p
<1> QED BY <1>4, <1>5, <1>7, <1>8, <1>9 DEF derive_verdict

-----------------------------------------------------------------------------
(* The steps.                                                               *)

LEMMA InitEdit == EditInit => EditInv
<1> SUFFICES ASSUME EditInit PROVE EditInv
  OBVIOUS
<1>1. /\ edit = NoEdit /\ at = "idle" /\ passed = FALSE /\ findings = <<>>
      /\ cancelled = FALSE /\ expired = FALSE /\ late = 0
      /\ response = Pending /\ output = Pending
  BY DEF EditInit
<1>2. response.kind = "pending" /\ output.kind = "pending"
  BY <1>1 DEF Pending
<1>3. EditTypeOK
  <2>1. findings \in Seq(FindingRecord)
    BY <1>1, NoFinding
  <2> QED BY <1>1, <1>2, <2>1 DEF EditTypeOK, FindingRecord
<1>4. SoFar /\ Punctual
  BY <1>1, EmptyRange DEF SoFar, Punctual, UnicodePoints
<1>5. Answering /\ StopsWithinACheck
  BY <1>1, <1>2 DEF Answering, StopsWithinACheck
<1> QED BY <1>1, <1>3, <1>4, <1>5 DEF EditInv

LEMMA Codes ==
  ASSUME NEW e
  PROVE  argument_error(e) \notin {"CANCELLED", "TIMEOUT"}
BY DEF argument_error

LEMMA CallKeepsEdit == ASSUME EditInv, Call PROVE EditInv'
<1>1. /\ edit = NoEdit /\ at = "idle" /\ response = Pending /\ output = Pending
      /\ passed' = passed /\ findings' = findings /\ cancelled' = cancelled
      /\ expired' = expired /\ late' = late /\ output' = output
      /\ passed = FALSE /\ late \in {0, 1}
  BY PointNames DEF Call, EditInv, Answering, Punctual, EditTypeOK
<1>2. PICK e \in Edits :
        /\ edit' = e
        /\ IF argument_error(e) = "none"
           THEN at' = "mode" /\ UNCHANGED response
           ELSE at' = "done" /\ response' = Error(argument_error(e))
  BY DEF Call
<1>3. edit' \in EditRecord /\ edit' # NoEdit
  BY <1>2, EditAssumption, Edited
<1>4. findings \in Seq(FindingRecord) /\ Range(findings) = {}
  BY <1>1 DEF EditInv, SoFar, EditTypeOK, FindingRecord
<1>5. CASE argument_error(edit') = "none"
  <2>1. at' = "mode" /\ response' = response
    BY <1>2, <1>5
  <2>2. EditTypeOK'
    BY <1>1, <1>3, <2>1, PointNames DEF EditInv, EditTypeOK
  <2>3. SoFar'
    BY <1>1, <1>4, <2>1 DEF SoFar, UnicodePoints
  <2>4. Punctual'
    BY <1>1, <2>1 DEF EditInv, Punctual, UnicodePoints, should_stop
  <2>5. Answering' /\ StopsWithinACheck'
    BY <1>1, <2>1 DEF Answering, StopsWithinACheck, Pending
  <2> QED BY <1>1, <1>3, <2>1, <2>2, <2>3, <2>4, <2>5 DEF EditInv
<1>6. CASE argument_error(edit') # "none"
  <2>1. at' = "done" /\ response' = Error(argument_error(edit'))
    BY <1>2, <1>6
  <2>2. response'.kind = "error" /\ response'.code = argument_error(edit')
    BY <2>1 DEF Error
  <2>3. EditTypeOK'
    BY <1>1, <1>3, <2>1, <2>2 DEF EditInv, EditTypeOK
  <2>4. SoFar'
    BY <2>1 DEF SoFar, UnicodePoints
  <2>5. Punctual'
    BY <1>1, <2>1 DEF EditInv, Punctual, UnicodePoints, should_stop
  <2>6. Answering'
    BY <1>1, <2>1, <2>2 DEF Answering, Pending
  <2>7. StopsWithinACheck'
    BY <1>1, <2>2, Codes DEF StopsWithinACheck
  <2> QED BY <1>1, <1>3, <2>1, <2>3, <2>4, <2>5, <2>6, <2>7 DEF EditInv
<1> QED BY <1>5, <1>6

(* At a stop check the caller has no answer yet.                            *)
LEMMA AtWork ==
  ASSUME EditInv, at # "done"
  PROVE  /\ response = Pending /\ output = Pending
         /\ response.kind = "pending" /\ output.kind = "pending"
BY DEF EditInv, Answering, Pending

LEMMA LookKeeps == ASSUME EditInv, Look PROVE EditInv'
<1>1. /\ at \in Points /\ passed = FALSE /\ edit \in EditRecord /\ edit # NoEdit
      /\ edit' = edit /\ findings' = findings /\ cancelled' = cancelled
      /\ expired' = expired /\ late' = late /\ response' = response /\ output' = output
      /\ should_stop' = should_stop
  BY PointNames DEF Look, EditInv, EditTypeOK, should_stop
<1>2. /\ response = Pending /\ output = Pending
      /\ response.kind = "pending" /\ output.kind = "pending"
  BY <1>1, PointNames, AtWork
<1>3. CASE should_stop
  <2>1. at' = "stopping" /\ passed' = passed
    BY <1>3 DEF Look
  <2>2. EditTypeOK' /\ SoFar'
    BY <1>1, <2>1 DEF EditInv, EditTypeOK, SoFar, UnicodePoints
  <2>3. Punctual'
    BY <1>1, <1>3, <2>1 DEF EditInv, Punctual, UnicodePoints
  <2>4. Answering' /\ StopsWithinACheck'
    BY <1>1, <1>2, <2>1 DEF EditInv, Answering, StopsWithinACheck
  <2> QED BY <1>1, <2>1, <2>2, <2>3, <2>4 DEF EditInv
<1>4. CASE ~should_stop /\ at = "unicode" /\ edit.unicode = Skip
  <2>1. at' = "reply" /\ passed' = passed
    BY <1>4 DEF Look
  <2>2. EditTypeOK'
    BY <1>1, <2>1 DEF EditInv, EditTypeOK
  <2>3. UnicodeSet(edit) = {}
    <3>1. unicode_findings(edit) = <<>>
      BY <1>4 DEF unicode_findings, Skip
    <3> QED BY <3>1, EmptyRange DEF UnicodeSet, Found
  <2>4. SoFar'
    <3>1. Range(findings) = All(edit)
      BY <1>4, <2>3 DEF EditInv, SoFar, UnicodePoints, All
    <3> QED BY <1>1, <2>1, <3>1 DEF SoFar, UnicodePoints
  <2>5. Punctual'
    BY <1>1, <1>4, <2>1 DEF EditInv, Punctual, UnicodePoints
  <2>6. Answering' /\ StopsWithinACheck'
    BY <1>1, <1>2, <2>1 DEF EditInv, Answering, StopsWithinACheck
  <2> QED BY <1>1, <2>1, <2>2, <2>4, <2>5, <2>6 DEF EditInv
<1>5. CASE ~should_stop /\ ~(at = "unicode" /\ edit.unicode = Skip)
  <2>1. at' = at /\ passed' = TRUE
    BY <1>5 DEF Look
  <2>2. EditTypeOK' /\ SoFar'
    BY <1>1, <2>1 DEF EditInv, EditTypeOK, SoFar
  <2>3. Punctual'
    BY <1>1, <1>5, <2>1, PointNames DEF EditInv, Punctual, UnicodePoints
  <2>4. Answering' /\ StopsWithinACheck'
    BY <1>1, <1>2, <2>1 DEF EditInv, Answering, StopsWithinACheck
  <2> QED BY <1>1, <2>1, <2>2, <2>3, <2>4 DEF EditInv
<1> QED BY <1>3, <1>4, <1>5

LEMMA CheckKeeps == ASSUME EditInv, Check PROVE EditInv'
<1>1. /\ at \in Points /\ passed = TRUE /\ edit \in EditRecord /\ edit # NoEdit /\ late = 0
      /\ edit' = edit /\ findings' = findings \o Found(at, edit) /\ cancelled' = cancelled
      /\ expired' = expired /\ response' = response /\ output' = output
      /\ should_stop' = should_stop /\ at' = Following[at] /\ passed' = FALSE
      /\ late' = IF should_stop THEN 1 ELSE 0
      /\ findings \in Seq(FindingRecord)
  BY PointNames DEF Check, EditInv, EditTypeOK, should_stop, look_again, Punctual, FindingRecord
<1>2. /\ response = Pending /\ output = Pending
      /\ response.kind = "pending" /\ output.kind = "pending"
  BY <1>1, PointNames, AtWork
<1>3. /\ Found(at, edit) \in Seq(FindingRecord)
      /\ at \in {"unicode", "policy", "normalization", "identifiers"} => Range(Found(at, edit)) = {}
  BY <1>1, FoundAt
<1>4. findings' \in Seq(FindingRecord) /\ Range(findings') = Range(findings) \cup Range(Found(at, edit))
  <2> HIDE DEF FindingRecord
  <2> QED BY <1>1, <1>3, ConcatProperties, RangeConcatenation
<1>5. /\ at = "mode" => at' = "fingerprint"
      /\ at = "fingerprint" => at' = "newline"
      /\ at = "newline" => at' = "unicode"
      /\ at = "unicode" => at' = "policy"
      /\ at = "policy" => at' = "normalization"
      /\ at = "normalization" => at' = "identifiers"
      /\ at = "identifiers" => at' = "verdict"
      /\ at = "verdict" => at' = "reply"
  BY <1>1 DEF Following
<1>6. EditTypeOK'
  BY <1>1, <1>4, <1>5, PointNames DEF EditInv, EditTypeOK, FindingRecord
<1>7. SoFar'
  <2>1. SoFar /\ edit' = edit
    BY <1>1 DEF EditInv
  <2>2. CASE at = "mode"
    <3>1. Range(findings') = ModeSet(edit)
      BY <1>4, <2>1, <2>2 DEF SoFar, ModeSet
    <3> QED BY <1>5, <2>1, <2>2, <3>1 DEF SoFar, UnicodePoints
  <2>3. CASE at = "fingerprint"
    <3>1. Range(findings') = ModeSet(edit) \cup FingerprintSet(edit)
      BY <1>4, <2>1, <2>3 DEF SoFar, FingerprintSet
    <3> QED BY <1>5, <2>1, <2>3, <3>1 DEF SoFar, UnicodePoints
  <2>4. CASE at = "newline"
    <3>1. Range(findings') = ModeSet(edit) \cup FingerprintSet(edit) \cup NewlineSet(edit)
      BY <1>4, <2>1, <2>4 DEF SoFar, NewlineSet
    <3> QED BY <1>5, <2>1, <2>4, <3>1 DEF SoFar, UnicodePoints
  <2>5. CASE at \in {"unicode", "policy", "normalization", "identifiers"}
    <3>1. Range(findings') = ModeSet(edit) \cup FingerprintSet(edit) \cup NewlineSet(edit)
      BY <1>3, <1>4, <2>1, <2>5 DEF SoFar, UnicodePoints
    <3> QED BY <1>5, <2>1, <2>5, <3>1 DEF SoFar, UnicodePoints
  <2>6. CASE at = "verdict"
    <3>1. Range(findings') = All(edit)
      BY <1>4, <2>1, <2>6 DEF SoFar, UnicodePoints, All, UnicodeSet
    <3> QED BY <1>5, <2>1, <2>6, <3>1 DEF SoFar, UnicodePoints
  <2> QED BY <1>1, <2>2, <2>3, <2>4, <2>5, <2>6, PointNames
<1>8. Punctual'
  <2>1. at \in UnicodePoints => edit.unicode # Skip
    BY <1>1 DEF EditInv, Punctual, UnicodePoints
  <2>2. at' \in (UnicodePoints \ {"unicode"}) \cup {"reply"} => at \in UnicodePoints
    BY <1>1, <1>5, PointNames DEF UnicodePoints
  <2>3. at' # "stopping"
    BY <1>1, <1>5, PointNames
  <2>4. late' \in {0, 1} /\ (late' = 1 => should_stop' /\ ~passed')
    BY <1>1
  <2>5. ~(at' = "unicode" /\ passed')
    BY <1>1
  <2>6. at' \in (UnicodePoints \ {"unicode"}) \cup {"reply"} => edit'.unicode # Skip
    BY <1>1, <2>1, <2>2
  <2> QED BY <2>3, <2>4, <2>5, <2>6 DEF Punctual
<1>9. at' # "idle" /\ at' # "done"
  BY <1>1, <1>5, PointNames
<1>10. Answering' /\ StopsWithinACheck'
  BY <1>1, <1>2, <1>9 DEF Answering, StopsWithinACheck
<1> QED BY <1>1, <1>6, <1>7, <1>8, <1>9, <1>10 DEF EditInv

LEMMA StopKeeps == ASSUME EditInv, Stop PROVE EditInv'
<1>1. /\ at = "stopping" /\ at' = "done" /\ should_stop /\ edit # NoEdit
      /\ response' = Error(IF cancelled THEN "CANCELLED" ELSE "TIMEOUT")
      /\ edit' = edit /\ passed' = passed /\ findings' = findings /\ cancelled' = cancelled
      /\ expired' = expired /\ late' = late /\ output' = output
      /\ should_stop' = should_stop /\ late \in {0, 1}
  BY DEF Stop, EditInv, Punctual, should_stop
<1>2. output = Pending /\ output.kind = "pending" /\ passed = FALSE
  BY <1>1, AtWork, PointNames DEF EditInv, EditTypeOK
<1>3. response'.kind = "error" /\ response'.code = IF cancelled THEN "CANCELLED" ELSE "TIMEOUT"
  BY <1>1 DEF Error
<1>4. EditTypeOK' /\ SoFar'
  BY <1>1, <1>3 DEF EditInv, EditTypeOK, SoFar, UnicodePoints
<1>5. Punctual'
  BY <1>1 DEF EditInv, Punctual, UnicodePoints
<1>6. Answering'
  BY <1>1, <1>2, <1>3 DEF Answering
<1>7. StopsWithinACheck'
  BY <1>1, <1>3 DEF StopsWithinACheck, should_stop
<1> QED BY <1>1, <1>2, <1>4, <1>5, <1>6, <1>7 DEF EditInv

LEMMA ReplyKeeps == ASSUME EditInv, Reply PROVE EditInv'
<1>1. /\ at = "reply" /\ at' = "done" /\ edit # NoEdit /\ response' = Verdict(findings)
      /\ edit' = edit /\ passed' = passed /\ findings' = findings /\ cancelled' = cancelled
      /\ expired' = expired /\ late' = late /\ output' = output
      /\ should_stop' = should_stop /\ late \in {0, 1}
      /\ edit \in EditRecord /\ Range(findings) = All(edit)
      /\ late = 0 \/ edit.unicode # Skip
  BY DEF Reply, EditInv, Punctual, should_stop, EditTypeOK, SoFar
<1>2. output = Pending /\ output.kind = "pending" /\ passed = FALSE
  BY <1>1, AtWork, PointNames DEF EditInv, EditTypeOK
<1>3. response'.kind = "verdict"
  BY <1>1 DEF Verdict
<1>4. EditTypeOK' /\ SoFar'
  BY <1>1, <1>3 DEF EditInv, EditTypeOK, SoFar, UnicodePoints
<1>5. Punctual'
  BY <1>1 DEF EditInv, Punctual, UnicodePoints
<1>6. Answering'
  BY <1>1, <1>2, <1>3 DEF Answering
<1>7. StopsWithinACheck'
  BY <1>1, <1>3 DEF StopsWithinACheck
<1> QED BY <1>1, <1>2, <1>4, <1>5, <1>6, <1>7 DEF EditInv

LEMMA ParseKeeps == ASSUME EditInv, Parse PROVE EditInv'
<1>1. /\ at = "done" /\ response' = response /\ at' = at
      /\ edit' = edit /\ passed' = passed /\ findings' = findings /\ cancelled' = cancelled
      /\ expired' = expired /\ late' = late /\ should_stop' = should_stop
  BY DEF Parse, should_stop
<1>2. SoFar' /\ Punctual' /\ StopsWithinACheck'
  BY <1>1 DEF EditInv, SoFar, Punctual, StopsWithinACheck, UnicodePoints
<1>3. CASE response.kind = "error"
  <2>1. output'.kind = "rejected"
    BY <1>3 DEF Parse
  <2>2. EditTypeOK' /\ Answering'
    BY <1>1, <1>3, <2>1 DEF EditInv, EditTypeOK, Answering
  <2> QED BY <1>1, <1>2, <2>2 DEF EditInv
<1>4. CASE response.kind = "verdict"
  <2>1. /\ output'.kind = "output" /\ output'.verdict = response.verdict
        /\ output'.ok_to_apply = response.ok_to_apply
        /\ output'.machine_code = response.machine_code
        /\ output'.secondary = response.secondary
    BY <1>4 DEF Parse
  <2>2. EditTypeOK' /\ Answering'
    BY <1>1, <1>4, <2>1 DEF EditInv, EditTypeOK, Answering
  <2> QED BY <1>1, <1>2, <2>2 DEF EditInv
<1>5. response.kind \in {"error", "verdict"}
  BY <1>1 DEF EditInv, EditTypeOK, Answering
<1> QED BY <1>3, <1>4, <1>5

LEMMA SignalKeeps == ASSUME EditInv, Cancel \/ Expire PROVE EditInv'
<1>1. /\ edit' = edit /\ at' = at /\ passed' = passed /\ findings' = findings /\ late' = late
      /\ response' = response /\ output' = output /\ response = Pending
      /\ cancelled' \in BOOLEAN /\ expired' \in BOOLEAN /\ should_stop'
  BY DEF Cancel, Expire, EditInv, EditTypeOK, should_stop
<1>2. response.kind = "pending"
  BY <1>1 DEF Pending
<1>3. EditTypeOK' /\ SoFar' /\ Answering'
  BY <1>1 DEF EditInv, EditTypeOK, SoFar, Answering
<1>4. Punctual'
  BY <1>1 DEF EditInv, Punctual
<1>5. StopsWithinACheck'
  BY <1>1, <1>2 DEF EditInv, StopsWithinACheck
<1> QED BY <1>1, <1>3, <1>4, <1>5 DEF EditInv

LEMMA StepEdit == EditInv /\ [EditNext]_editing => EditInv'
<1>1. ASSUME EditInv, UNCHANGED editing PROVE EditInv'
  BY <1>1 DEF editing, EditInv, EditTypeOK, SoFar, Punctual, should_stop, Answering,
              StopsWithinACheck
<1> QED BY <1>1, CallKeepsEdit, LookKeeps, CheckKeeps, StopKeeps, ReplyKeeps, ParseKeeps,
           SignalKeeps DEF EditNext

LEMMA EditInvariant == EditSpec => []EditInv
BY InitEdit, StepEdit, PTL DEF EditSpec

-----------------------------------------------------------------------------
(* Every variable stays within its type.                                    *)
THEOREM EditTypes == EditSpec => []EditTypeOK
<1>1. EditInv => EditTypeOK
  BY DEF EditInv
<1> QED BY <1>1, EditInvariant, PTL

(* A verdict weighs every check that was asked for.                         *)
THEOREM NoCheckIsLost == EditSpec => []VerdictWeighsEveryCheck
<1>1. EditInv => VerdictWeighsEveryCheck
  <2> SUFFICES ASSUME EditInv, output.kind = "output" PROVE VerdictWeighsEveryCheck
    BY DEF VerdictWeighsEveryCheck
  <2>1. /\ response = Verdict(findings) /\ Range(findings) = All(edit) /\ edit \in EditRecord
        /\ output.verdict = response.verdict /\ output.ok_to_apply = response.ok_to_apply
        /\ output.machine_code = response.machine_code
        /\ output.secondary = response.secondary
        /\ findings \in Seq(FindingRecord)
    BY DEF EditInv, Answering, EditTypeOK, FindingRecord
  <2> HIDE DEF FindingRecord
  <2>2. /\ response.verdict = IF Blocked(edit) THEN "block"
                              ELSE IF Doubtful(edit) THEN "review" ELSE "allow"
        /\ response.ok_to_apply <=> ~Blocked(edit)
        /\ {response.machine_code} \cup response.secondary =
             IF Reported(edit) = {} THEN {"EDIT_OK"} ELSE Reported(edit)
        /\ response.machine_code \notin response.secondary
    BY <2>1, Weighed
  <2> QED BY <2>1, <2>2 DEF VerdictWeighsEveryCheck
<1> QED BY <1>1, EditInvariant, PTL

(* The handler stops within one check of a cancellation or the deadline.    *)
THEOREM StopsPromptly == EditSpec => []StopsWithinACheck
<1>1. EditInv => StopsWithinACheck
  BY DEF EditInv
<1> QED BY <1>1, EditInvariant, PTL
=============================================================================
