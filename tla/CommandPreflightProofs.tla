----------------------- MODULE CommandPreflightProofs -----------------------
(***************************************************************************)
(* For every command and every configuration: a denied command is blocked, *)
(* a stricter configuration never softens a verdict, and a command that is *)
(* held back is told why.                                                  *)
(***************************************************************************)
EXTENDS CommandPreflight, WellFoundedInduction, TLAPS

(* What the checks find and what they push beside it, up to each stop      *)
(* check.                                                                   *)
ClassifyFinds(c, p) ==
  rule_findings(c, p) \cup policy_findings(c, p)
    \cup destructive_findings(c) \cup behavioral_findings(c, p)
ClassifyPushes(c, p) ==
  rule_codes(c, p) \cup policy_codes(c, p) \cup destructive_codes(c) \cup behavioral_codes(c, p)
AllCodes(c, p) ==
  ClassifyPushes(c, p) \cup risky_feature_codes(c) \cup regex_codes(c) \cup traversal_codes(c)

Gathered ==
  /\ stage = "parse" => found = {} /\ code_list = {}
  /\ stage = "features" =>
       found = ClassifyFinds(command, config) /\ code_list = ClassifyPushes(command, config)
  /\ stage = "regex" =>
       /\ found = ClassifyFinds(command, config) \cup risky_feature_findings(command, config)
       /\ code_list = ClassifyPushes(command, config) \cup risky_feature_codes(command)
  /\ stage = "reply" =>
       found = AllFindings(command, config) /\ code_list = AllCodes(command, config)

AnsweredFully ==
  tool_reply.kind = "answered" =>
    /\ command \in CommandRecord /\ config \in ConfigRecord
    /\ tool_reply.findings = AllFindings(command, config)
    /\ tool_reply.verdict = response_verdict(AllFindings(command, config))
    /\ tool_reply.machine_code = select_primary_code(AllCodes(command, config))

CommandInv ==
  /\ stage \in {"idle", "parse", "features", "regex", "reply", "answered"}
  /\ IF stage = "idle" THEN command = NoCommand /\ config = NoConfig /\ found = {} /\ code_list = {}
     ELSE command \in CommandRecord /\ config \in ConfigRecord
  /\ stage # "answered" => tool_reply = NoReply
  /\ Gathered
  /\ AnsweredFully

-----------------------------------------------------------------------------
(* The weight of a configuration.                                           *)

Behaves(c, p, severity) ==
  \E b \in detect_behavioral_features(c) \ p.allows : behaviour_severity(b, p) = severity
NoRule(p) == ~p.denied /\ ~p.sub_denied /\ p.allow_list # "names_others"

Grave(c, p) == \/ ~NoRule(p) \/ classify(c, p) = "block" \/ c.destructive # {}
               \/ Behaves(c, p, "high") \/ (c.risky /\ p.policy = "strict")
Doubted(c, p) == \/ ~NoRule(p) \/ classify(c, p) = "review"
                 \/ Behaves(c, p, "medium") \/ (c.risky /\ p.policy # "strict")
                 \/ c.regex # {}

LEMMA OfNotes ==
  ASSUME NEW c, NEW s
  PROVE  /\ \A t : Has(t, Note(c, s)) <=> t = s
         /\ Note(c, s) # {} /\ \A t : ~Has(t, {})
         /\ \A f : f \in Note(c, s) <=> f = [code |-> c, severity |-> s]
BY DEF Has, Note

LEMMA OfKinds ==
  ASSUME NEW S, NEW s
  PROVE  /\ \A t : Has(t, Notes(S, s)) <=> S # {} /\ t = s
         /\ \A k \in S : \E f \in Notes(S, s) : f.code = k
<1> DEFINE Of(k) == [code |-> k, severity |-> s]
<1>1. \A k : Of(k).code = k /\ Of(k).severity = s
  OBVIOUS
<1>2. Notes(S, s) = {Of(k) : k \in S}
  BY DEF Notes
<1> HIDE DEF Of
<1>3. \A t : Has(t, Notes(S, s)) <=> S # {} /\ t = s
  BY <1>1, <1>2 DEF Has
<1>4. \A k \in S : \E f \in Notes(S, s) : f.code = k
  BY <1>1, <1>2
<1> QED BY <1>3, <1>4

LEMMA HasUnion ==
  ASSUME NEW s, NEW a, NEW b
  PROVE  Has(s, a \cup b) <=> Has(s, a) \/ Has(s, b)
BY DEF Has

LEMMA RulesWeigh ==
  ASSUME NEW c \in CommandRecord, NEW p \in ConfigRecord
  PROVE  LET fs == rule_findings(c, p) IN
         /\ fs = {} <=> NoRule(p)
         /\ Has("high", fs) <=> p.denied \/ p.sub_denied
         /\ Has("medium", fs) <=> ~p.denied /\ p.allow_list = "names_others"
<1>1. p.denied \in BOOLEAN /\ p.sub_denied \in BOOLEAN
  BY DEF ConfigRecord
<1> DEFINE a == IF p.denied THEN Note(UNAPPROVED, "high")
                ELSE IF p.allow_list = "names_others" THEN Note(UNAPPROVED, "medium") ELSE {}
           b == IF p.sub_denied THEN Note(UNAPPROVED, "high") ELSE {}
<1>2. /\ a = {} <=> ~p.denied /\ p.allow_list # "names_others"
      /\ Has("high", a) <=> p.denied
      /\ Has("medium", a) <=> ~p.denied /\ p.allow_list = "names_others"
  BY <1>1, OfNotes
<1>3. /\ b = {} <=> ~p.sub_denied
      /\ Has("high", b) <=> p.sub_denied
      /\ ~Has("medium", b)
  BY <1>1, OfNotes
<1>4. rule_findings(c, p) = a \cup b
  BY DEF rule_findings
<1> HIDE DEF a, b
<1> QED BY <1>2, <1>3, <1>4, HasUnion DEF NoRule

LEMMA PolicyWeighs ==
  ASSUME NEW c \in CommandRecord, NEW p \in ConfigRecord
  PROVE  LET fs == policy_findings(c, p) IN
         /\ Has("high", fs) <=> /\ ~p.denied /\ ~p.sub_denied
                                /\ ~NoRule(p) \/ classify(c, p) = "block"
         /\ Has("medium", fs) <=> NoRule(p) /\ classify(c, p) = "review"
<1>1. /\ rule_findings(c, p) = {} <=> NoRule(p)
      /\ Has("high", rule_findings(c, p)) <=> p.denied \/ p.sub_denied
  BY RulesWeigh
<1>5. /\ p.denied \in BOOLEAN /\ p.sub_denied \in BOOLEAN
      /\ p.allow_list \in {"empty", "names_it", "names_others"}
  BY DEF ConfigRecord
<1>2. classify_disposition(c, p) = IF NoRule(p) THEN classify(c, p) ELSE "block"
  BY <1>5 DEF classify_disposition, rule_codes, NoRule
<1>6. Has("medium", rule_findings(c, p)) => ~NoRule(p)
  BY RulesWeigh DEF NoRule
<1>7. Has("high", rule_findings(c, p)) => ~NoRule(p)
  BY <1>1 DEF NoRule
<1>3. NoRule(p) => ~p.denied /\ ~p.sub_denied
  BY DEF NoRule
<1>4. /\ BlockIsNew(c, p) <=> /\ classify_disposition(c, p) = "block"
                              /\ ~(p.denied \/ p.sub_denied)
      /\ ReviewIsNew(c, p) <=> classify_disposition(c, p) = "review" /\ NoRule(p)
  BY <1>1, <1>2, <1>6, <1>7 DEF BlockIsNew, ReviewIsNew
<1>8. policy_findings(c, p) =
        IF classify_disposition(c, p) = "block" /\ ~(p.denied \/ p.sub_denied)
        THEN Note(UNAPPROVED, "high")
        ELSE IF classify_disposition(c, p) = "review" /\ NoRule(p)
        THEN Note(POLICY_REVIEW, "medium") ELSE {}
  BY <1>4 DEF policy_findings
<1> QED BY <1>2, <1>3, <1>8, OfNotes

LEMMA OthersWeigh ==
  ASSUME NEW c \in CommandRecord, NEW p \in ConfigRecord
  PROVE  /\ Has("high", destructive_findings(c)) <=> c.destructive # {}
         /\ ~Has("medium", destructive_findings(c))
         /\ \A s : Has(s, behavioral_findings(c, p)) <=> Behaves(c, p, s)
         /\ Has("high", risky_feature_findings(c, p)) <=> c.risky /\ p.policy = "strict"
         /\ Has("medium", risky_feature_findings(c, p)) <=> c.risky /\ p.policy # "strict"
         /\ ~Has("high", regex_findings(c)) /\ (Has("medium", regex_findings(c)) <=> c.regex # {})
         /\ ~Has("high", traversal_findings(c)) /\ ~Has("medium", traversal_findings(c))
<1>1. c.risky \in BOOLEAN /\ c.traversal \in BOOLEAN
  BY DEF CommandRecord
<1>2. \A s : Has(s, behavioral_findings(c, p)) <=> Behaves(c, p, s)
  <2> DEFINE B == detect_behavioral_features(c) \ p.allows
             Of(b) == [code |-> BehaviourKind[b], severity |-> behaviour_severity(b, p)]
  <2>1. behavioral_findings(c, p) = {Of(b) : b \in B}
    BY DEF behavioral_findings
  <2>2. \A b : Of(b).severity = behaviour_severity(b, p)
    OBVIOUS
  <2> HIDE DEF B, Of
  <2>3. ASSUME NEW s
        PROVE  (\E f \in {Of(b) : b \in B} : f.severity = s)
                 <=> \E b \in B : behaviour_severity(b, p) = s
    BY <2>2
  <2> QED BY <2>1, <2>3 DEF Has, Behaves, B
<1>3. /\ Has("high", destructive_findings(c)) <=> c.destructive # {}
      /\ ~Has("medium", destructive_findings(c))
  BY OfKinds DEF destructive_findings
<1>4. /\ Has("high", risky_feature_findings(c, p)) <=> c.risky /\ p.policy = "strict"
      /\ Has("medium", risky_feature_findings(c, p)) <=> c.risky /\ p.policy # "strict"
  BY <1>1, OfNotes DEF risky_feature_findings
<1>5. ~Has("high", regex_findings(c)) /\ (Has("medium", regex_findings(c)) <=> c.regex # {})
  BY OfKinds DEF regex_findings
<1>6. ~Has("high", traversal_findings(c)) /\ ~Has("medium", traversal_findings(c))
  BY <1>1, OfNotes DEF traversal_findings
<1> QED BY <1>2, <1>3, <1>4, <1>5, <1>6

LEMMA AllWeigh ==
  ASSUME NEW c \in CommandRecord, NEW p \in ConfigRecord
  PROVE  /\ Has("high", AllFindings(c, p)) <=> Grave(c, p)
         /\ Has("medium", AllFindings(c, p)) => Doubted(c, p)
         /\ Doubted(c, p) => Has("medium", AllFindings(c, p)) \/ Grave(c, p)
<1>1. \A s : Has(s, AllFindings(c, p)) <=>
        \/ Has(s, rule_findings(c, p)) \/ Has(s, policy_findings(c, p))
        \/ Has(s, destructive_findings(c)) \/ Has(s, behavioral_findings(c, p))
        \/ Has(s, risky_feature_findings(c, p)) \/ Has(s, regex_findings(c))
        \/ Has(s, traversal_findings(c))
  <2> TAKE s
  <2> DEFINE a1 == rule_findings(c, p) \cup policy_findings(c, p)
             a2 == a1 \cup destructive_findings(c)
             a3 == a2 \cup behavioral_findings(c, p)
             a4 == a3 \cup risky_feature_findings(c, p)
             a5 == a4 \cup regex_findings(c)
  <2>1. AllFindings(c, p) = a5 \cup traversal_findings(c)
    BY DEF AllFindings
  <2>2. Has(s, AllFindings(c, p)) <=> Has(s, a5) \/ Has(s, traversal_findings(c))
    BY <2>1, HasUnion
  <2>3. Has(s, a5) <=> Has(s, a4) \/ Has(s, regex_findings(c))
    BY HasUnion
  <2>4. Has(s, a4) <=> Has(s, a3) \/ Has(s, risky_feature_findings(c, p))
    BY HasUnion
  <2>5. Has(s, a3) <=> Has(s, a2) \/ Has(s, behavioral_findings(c, p))
    BY HasUnion
  <2>6. Has(s, a2) <=> Has(s, a1) \/ Has(s, destructive_findings(c))
    BY HasUnion
  <2>7. Has(s, a1) <=> Has(s, rule_findings(c, p)) \/ Has(s, policy_findings(c, p))
    BY HasUnion
  <2> HIDE DEF a1, a2, a3, a4, a5
  <2> QED BY <2>2, <2>3, <2>4, <2>5, <2>6, <2>7
<1>2. NoRule(p) <=> ~p.denied /\ ~p.sub_denied /\ p.allow_list # "names_others"
  BY DEF NoRule
<1>3. /\ Has("high", rule_findings(c, p)) <=> p.denied \/ p.sub_denied
      /\ Has("medium", rule_findings(c, p)) <=> ~p.denied /\ p.allow_list = "names_others"
  BY RulesWeigh
<1>4. /\ Has("high", policy_findings(c, p)) <=> /\ ~p.denied /\ ~p.sub_denied
                                                /\ ~NoRule(p) \/ classify(c, p) = "block"
      /\ Has("medium", policy_findings(c, p)) <=> NoRule(p) /\ classify(c, p) = "review"
  BY PolicyWeighs
<1> QED BY <1>1, <1>2, <1>3, <1>4, OthersWeigh DEF Grave, Doubted

(* What is at least as strict weighs at least as much.                      *)
LEMMA StricterWeighsMore ==
  ASSUME NEW c \in CommandRecord, NEW p \in ConfigRecord, NEW q \in ConfigRecord,
         AtLeastAsStrict(p, q)
  PROVE  /\ Grave(c, q) => Grave(c, p)
         /\ Doubted(c, q) => Doubted(c, p)
<1>1. p.policy = q.policy /\ (q.denied => p.denied) /\ (q.sub_denied => p.sub_denied)
      /\ p.allows \subseteq q.allows
  BY DEF AtLeastAsStrict
<1>2. q.allow_list = "names_others" => p.allow_list = "names_others"
  <2>1. ListRank[q.allow_list] <= ListRank[p.allow_list]
    BY DEF AtLeastAsStrict
  <2>2. p.allow_list \in {"empty", "names_it", "names_others"}
    BY DEF ConfigRecord
  <2> QED BY <2>1, <2>2 DEF ListRank
<1>3. ~NoRule(q) => ~NoRule(p)
  BY <1>1, <1>2 DEF NoRule
<1>4. classify(c, p) = classify(c, q)
  BY <1>1 DEF classify
<1>5. \A s : Behaves(c, q, s) => Behaves(c, p, s)
  BY <1>1 DEF Behaves, behaviour_severity
<1> QED BY <1>1, <1>3, <1>4, <1>5 DEF Grave, Doubted

LEMMA StricterIsNotSofter ==
  ASSUME NEW c \in CommandRecord, NEW p \in ConfigRecord, NEW q \in ConfigRecord,
         AtLeastAsStrict(p, q)
  PROVE  Weight[response_verdict(AllFindings(c, q))] <= Weight[response_verdict(AllFindings(c, p))]
<1> DEFINE h(x) == Has("high", AllFindings(c, x))
           m(x) == Has("medium", AllFindings(c, x))
<1>1. (h(q) => h(p)) /\ (m(q) => m(p) \/ h(p))
  BY AllWeigh, StricterWeighsMore
<1>2. \A x : response_verdict(AllFindings(c, x)) =
               IF h(x) THEN "block" ELSE IF m(x) THEN "review" ELSE "allow"
  BY DEF response_verdict
<1> HIDE DEF h, m
<1>3. Weight["allow"] = 0 /\ Weight["review"] = 1 /\ Weight["block"] = 2
  BY DEF Weight
<1> QED BY <1>1, <1>2, <1>3

-----------------------------------------------------------------------------
(* The reason.                                                              *)

LEMMA Priorities ==
  /\ Len(priority) = 14
  /\ priority[1] = "SHELL_DESTRUCTIVE_COMMAND" /\ priority[2] = "SHELL_PRIVILEGE_ESCALATION"
  /\ priority[3] = "SHELL_NETWORK_ACCESS" /\ priority[4] = "SHELL_FILESYSTEM_WRITE"
  /\ priority[5] = "SHELL_PROCESS_CONTROL" /\ priority[6] = "SHELL_COMMAND_SUBSTITUTION"
  /\ priority[7] = "SHELL_REDIRECTION" /\ priority[8] = "SHELL_PIPELINE"
  /\ priority[9] = "SHELL_BACKGROUND_EXECUTION" /\ priority[10] = UNAPPROVED
  /\ priority[11] = "SHELL_ENV_MUTATION" /\ priority[12] = POLICY_REVIEW
  /\ priority[13] = "SHELL_RISK" /\ priority[14] = "REGEX_RISK"
BY DEF priority

LEMMA CodesListed ==
  /\ \A b \in Behaviours : BehaviourCode[b] \in CommandCodes
  /\ {UNAPPROVED, POLICY_REVIEW, "SHELL_DESTRUCTIVE_COMMAND", "SHELL_RISK",
      "REGEX_RISK"} \subseteq CommandCodes
  /\ "PATH_HAS_TRAVERSAL" \notin CommandCodes /\ "COMMAND_OK" \notin CommandCodes
<1>1. \A i \in 1..14 : priority[i] \in CommandCodes
  BY Priorities DEF CommandCodes
<1>2. \A x \in CommandCodes : \E i \in 1..14 : x = priority[i]
  BY Priorities DEF CommandCodes
<1>3. /\ {1, 2, 3, 4, 5, 6, 7} \subseteq 1..14 /\ {8, 9, 10, 11, 12, 13, 14} \subseteq 1..14
  OBVIOUS
<1>4. ASSUME NEW b \in Behaviours PROVE BehaviourCode[b] \in CommandCodes
  <2>1. \E i \in 1..14 : BehaviourCode[b] = priority[i]
    BY <1>3, Priorities DEF Behaviours, Overrides, BehaviourCode
  <2> QED BY <1>1, <2>1
<1>5. {UNAPPROVED, POLICY_REVIEW, "SHELL_DESTRUCTIVE_COMMAND", "SHELL_RISK",
       "REGEX_RISK"} \subseteq CommandCodes
  BY <1>1, <1>3, Priorities
<1>6. ASSUME NEW i \in 1..14 PROVE priority[i] \notin {"PATH_HAS_TRAVERSAL", "COMMAND_OK"}
  <2>1. i \in {1, 2, 3, 4, 5, 6, 7, 8, 9, 10, 11, 12, 13, 14}
    OBVIOUS
  <2> QED BY <2>1, Priorities DEF UNAPPROVED, POLICY_REVIEW
<1> QED BY <1>2, <1>4, <1>5, <1>6

LEMMA KnownBehaviours ==
  ASSUME NEW c \in CommandRecord
  PROVE  detect_behavioral_features(c) \subseteq Behaviours
<1>1. c.program \in Programs /\ c.uses \subseteq Behaviours
  BY DEF CommandRecord
<1>2. \A g \in Programs : classify_tables[g].does \subseteq Behaviours
  BY DEF Programs, classify_tables, Class, Behaviours, Overrides
<1>3. "filesystem_write" \in Behaviours
  BY DEF Behaviours, Overrides
<1> QED BY <1>1, <1>2, <1>3 DEF detect_behavioral_features

(* A finding that weighs on the verdict has pushed a code of the list.      *)
LEMMA WeightIsCoded ==
  ASSUME NEW c \in CommandRecord, NEW p \in ConfigRecord, NEW f \in AllFindings(c, p),
         f.severity \in {"high", "medium"}
  PROVE  \E x \in CommandCodes : x \in AllCodes(c, p)
<1>1. \A x, s : \A g \in Note(x, s) : g.code = x /\ g.severity = s
  BY DEF Note
<1>2. CASE f \in rule_findings(c, p)
  <2>1. UNAPPROVED \in rule_codes(c, p)
    BY <1>2 DEF rule_findings, rule_codes
  <2> QED BY <2>1, CodesListed DEF AllCodes, ClassifyPushes
<1>3. CASE f \in policy_findings(c, p)
  <2>1. UNAPPROVED \in policy_codes(c, p) \/ POLICY_REVIEW \in policy_codes(c, p)
    BY <1>3 DEF policy_findings, policy_codes
  <2> QED BY <2>1, CodesListed DEF AllCodes, ClassifyPushes
<1>4. CASE f \in destructive_findings(c)
  <2>1. "SHELL_DESTRUCTIVE_COMMAND" \in destructive_codes(c)
    BY <1>4 DEF destructive_findings, destructive_codes, Notes
  <2> QED BY <2>1, CodesListed DEF AllCodes, ClassifyPushes
<1>5. CASE f \in behavioral_findings(c, p)
  <2>1. PICK b \in detect_behavioral_features(c) \ p.allows :
          f = [code |-> BehaviourKind[b], severity |-> behaviour_severity(b, p)]
    BY <1>5 DEF behavioral_findings
  <2>2. BehaviourCode[b] \in behavioral_codes(c, p)
    BY <2>1 DEF behavioral_codes
  <2>3. BehaviourCode[b] \in CommandCodes
    BY <2>1, KnownBehaviours, CodesListed
  <2> QED BY <2>2, <2>3 DEF AllCodes, ClassifyPushes
<1>6. CASE f \in risky_feature_findings(c, p)
  <2>1. "SHELL_RISK" \in risky_feature_codes(c)
    BY <1>6 DEF risky_feature_findings, risky_feature_codes
  <2> QED BY <2>1, CodesListed DEF AllCodes
<1>7. CASE f \in regex_findings(c)
  <2>1. "REGEX_RISK" \in regex_codes(c)
    BY <1>7 DEF regex_findings, regex_codes, Notes
  <2> QED BY <2>1, CodesListed DEF AllCodes
<1>8. CASE f \in traversal_findings(c)
  BY <1>1, <1>8 DEF traversal_findings
<1> QED BY <1>2, <1>3, <1>4, <1>5, <1>6, <1>7, <1>8 DEF AllFindings

LEMMA KindsByCode ==
  /\ KindsOf(UNAPPROVED) = {UNAPPROVED} /\ KindsOf(POLICY_REVIEW) = {POLICY_REVIEW}
  /\ KindsOf("SHELL_DESTRUCTIVE_COMMAND") = DestructivePatterns
  /\ KindsOf("SHELL_RISK") = {"RISKY_SHELL_FEATURE"} /\ KindsOf("REGEX_RISK") = RegexKinds
  /\ \A b \in Behaviours : BehaviourKind[b] \in KindsOf(BehaviourCode[b])
<1>1. /\ KindsOf(UNAPPROVED) = {UNAPPROVED} /\ KindsOf(POLICY_REVIEW) = {POLICY_REVIEW}
      /\ KindsOf("SHELL_DESTRUCTIVE_COMMAND") = DestructivePatterns
      /\ KindsOf("SHELL_RISK") = {"RISKY_SHELL_FEATURE"} /\ KindsOf("REGEX_RISK") = RegexKinds
  BY DEF KindsOf, UNAPPROVED, POLICY_REVIEW
<1>2. ASSUME NEW b \in Behaviours
      PROVE  BehaviourKind[b] \in KindsOf(BehaviourCode[b])
  <2>1. BehaviourCode[b] \notin {UNAPPROVED, POLICY_REVIEW, "SHELL_DESTRUCTIVE_COMMAND",
                                 "SHELL_RISK", "REGEX_RISK"}
    BY DEF Behaviours, Overrides, BehaviourCode, UNAPPROVED, POLICY_REVIEW
  <2>2. KindsOf(BehaviourCode[b]) =
          {BehaviourKind[y] : y \in {x \in Behaviours : BehaviourCode[x] = BehaviourCode[b]}}
    BY <2>1 DEF KindsOf
  <2> QED BY <2>2
<1> QED BY <1>1, <1>2

(* A code was pushed beside a finding of a kind that it stands for.         *)
LEMMA CodesAreFounded ==
  ASSUME NEW c \in CommandRecord, NEW p \in ConfigRecord, NEW x \in AllCodes(c, p),
         x \in CommandCodes
  PROVE  \E f \in AllFindings(c, p) : f.code \in KindsOf(x)
<1>1. \A k, s : \E f \in Note(k, s) : f.code = k
  BY DEF Note
<1>2. CASE x \in rule_codes(c, p)
  <2>1. x = UNAPPROVED /\ (p.denied \/ p.allow_list = "names_others" \/ p.sub_denied)
    BY <1>2 DEF rule_codes
  <2>2. \E f \in rule_findings(c, p) : f.code = UNAPPROVED
    BY <1>1, <2>1 DEF rule_findings
  <2> QED BY <2>1, <2>2, KindsByCode DEF AllFindings
<1>3. CASE x \in policy_codes(c, p)
  <2>1. /\ x \in {UNAPPROVED, POLICY_REVIEW}
        /\ \E f \in policy_findings(c, p) : f.code = x
    BY <1>1, <1>3 DEF policy_codes, policy_findings
  <2> QED BY <2>1, KindsByCode DEF AllFindings
<1>4. CASE x \in destructive_codes(c)
  <2>1. x = "SHELL_DESTRUCTIVE_COMMAND" /\ c.destructive # {}
    BY <1>4 DEF destructive_codes
  <2>2. PICK kind \in c.destructive : TRUE
    BY <2>1
  <2>3. kind \in DestructivePatterns
    BY DEF CommandRecord
  <2>4. \E f \in destructive_findings(c) : f.code = kind
    BY <2>2, OfKinds DEF destructive_findings
  <2> QED BY <2>1, <2>3, <2>4, KindsByCode DEF AllFindings
<1>5. CASE x \in behavioral_codes(c, p)
  <2>1. PICK b \in detect_behavioral_features(c) \ p.allows : x = BehaviourCode[b]
    BY <1>5 DEF behavioral_codes
  <2>2. BehaviourKind[b] \in KindsOf(x)
    BY <2>1, KnownBehaviours, KindsByCode
  <2>3. \E f \in behavioral_findings(c, p) : f.code = BehaviourKind[b]
    <3> DEFINE f == [code |-> BehaviourKind[b], severity |-> behaviour_severity(b, p)]
    <3>1. f.code = BehaviourKind[b]
      OBVIOUS
    <3>2. f \in behavioral_findings(c, p)
      BY <2>1 DEF behavioral_findings
    <3> HIDE DEF f
    <3> QED BY <3>1, <3>2
  <2> QED BY <2>2, <2>3 DEF AllFindings
<1>6. CASE x \in risky_feature_codes(c)
  <2>1. x = "SHELL_RISK" /\ c.risky
    BY <1>6 DEF risky_feature_codes
  <2>2. \E f \in risky_feature_findings(c, p) : f.code = "RISKY_SHELL_FEATURE"
    BY <1>1, <2>1 DEF risky_feature_findings
  <2> QED BY <2>1, <2>2, KindsByCode DEF AllFindings
<1>7. CASE x \in regex_codes(c)
  <2>1. x = "REGEX_RISK" /\ c.regex # {}
    BY <1>7 DEF regex_codes
  <2>2. PICK kind \in c.regex : TRUE
    BY <2>1
  <2>3. kind \in RegexKinds
    BY DEF CommandRecord
  <2>4. \E f \in regex_findings(c) : f.code = kind
    BY <2>2, OfKinds DEF regex_findings
  <2> QED BY <2>1, <2>3, <2>4, KindsByCode DEF AllFindings
<1>8. CASE x \in traversal_codes(c)
  BY <1>8, CodesListed DEF traversal_codes
<1> QED BY <1>2, <1>3, <1>4, <1>5, <1>6, <1>7, <1>8 DEF AllCodes, ClassifyPushes

(* Of a list that has one of the codes, the first that it has.              *)
LEMMA FirstIsThere ==
  ASSUME NEW codes, NEW x \in CommandCodes, x \in codes
  PROVE  select_primary_code(codes) \in codes \cap CommandCodes
<1> DEFINE hit == {i \in 1..Len(priority) : priority[i] \in codes}
<1>1. Len(priority) = 14
  BY Priorities
<1>2. hit # {} /\ hit \subseteq Nat
  BY <1>1 DEF CommandCodes
<1>3. \E i \in hit : \A k \in hit : ~(<<k, i>> \in OpToRel(<, Nat))
  <2> HIDE DEF hit
  <2> QED BY <1>2, NatLessThanWellFounded, WFMin
<1>4. \E i \in hit : \A k \in hit : i <= k
  <2>1. PICK i \in hit : \A k \in hit : ~(<<k, i>> \in OpToRel(<, Nat))
    BY <1>3
  <2>2. ASSUME NEW k \in hit PROVE i <= k
    <3>1. k \in Nat /\ i \in Nat
      BY <1>2
    <3>2. ~(k < i)
      BY <2>1, <3>1 DEF OpToRel
    <3> QED BY <3>1, <3>2
  <2> QED BY <2>2
<1> DEFINE first == CHOOSE i \in hit : \A k \in hit : i <= k
<1>5. first \in hit
  <2> HIDE DEF hit
  <2> QED BY <1>4
<1>6. select_primary_code(codes) = priority[first]
  BY <1>2 DEF select_primary_code, FirstOf
<1>7. priority[first] \in codes /\ priority[first] \in CommandCodes
  BY <1>5 DEF CommandCodes
<1> QED BY <1>6, <1>7

(* What is chosen is COMMAND_OK if there is nothing to choose.              *)
LEMMA ChosenIsThere ==
  ASSUME NEW codes, select_primary_code(codes) # "COMMAND_OK"
  PROVE  select_primary_code(codes) \in codes \cap CommandCodes
<1> DEFINE hit == {i \in 1..Len(priority) : priority[i] \in codes}
<1>1. hit # {}
  BY DEF select_primary_code, FirstOf
<1>2. PICK i \in hit : TRUE
  BY <1>1
<1>3. priority[i] \in codes /\ priority[i] \in CommandCodes
  BY <1>2 DEF CommandCodes
<1> QED BY <1>3, FirstIsThere

LEMMA ReasonIsGiven ==
  ASSUME NEW c \in CommandRecord, NEW p \in ConfigRecord
  PROVE  LET code == select_primary_code(AllCodes(c, p)) IN
         /\ response_verdict(AllFindings(c, p)) # "allow" => code # "COMMAND_OK"
         /\ code # "COMMAND_OK" => \E f \in AllFindings(c, p) : f.code \in KindsOf(code)
<1> DEFINE code == select_primary_code(AllCodes(c, p))
<1>1. ASSUME response_verdict(AllFindings(c, p)) # "allow"
      PROVE  code # "COMMAND_OK"
  <2>1. PICK f \in AllFindings(c, p) : f.severity \in {"high", "medium"}
    BY <1>1 DEF response_verdict, Has
  <2>2. PICK x \in CommandCodes : x \in AllCodes(c, p)
    BY <2>1, WeightIsCoded
  <2>3. code \in CommandCodes
    BY <2>2, FirstIsThere
  <2> QED BY <2>3, CodesListed
<1>2. ASSUME code # "COMMAND_OK"
      PROVE  \E f \in AllFindings(c, p) : f.code \in KindsOf(code)
  <2>1. code \in AllCodes(c, p) /\ code \in CommandCodes
    BY <1>2, ChosenIsThere
  <2> HIDE DEF code
  <2> QED BY <2>1, CodesAreFounded
<1> QED BY <1>1, <1>2

-----------------------------------------------------------------------------
(* The steps.                                                               *)

LEMMA NotStarted == NoCommand \notin CommandRecord /\ NoConfig \notin ConfigRecord
<1>1. ASSUME NEW c \in CommandRecord PROVE c.program # "none"
  BY DEF CommandRecord, Programs, classify_tables
<1>2. ASSUME NEW p \in ConfigRecord PROVE p.policy # "none"
  BY DEF ConfigRecord, Policies
<1>3. NoCommand.program = "none" /\ NoConfig.policy = "none"
  BY DEF NoCommand, NoConfig
<1> QED BY <1>1, <1>2, <1>3

LEMMA InitCommand == CommandInit => CommandInv
<1> SUFFICES ASSUME CommandInit PROVE CommandInv
  OBVIOUS
<1>1. /\ command = NoCommand /\ config = NoConfig /\ stage = "idle"
      /\ found = {} /\ code_list = {} /\ tool_reply = NoReply
  BY DEF CommandInit
<1>2. tool_reply.kind = "pending"
  BY <1>1 DEF NoReply
<1> QED BY <1>1, <1>2 DEF CommandInv, Gathered, AnsweredFully

LEMMA AskKeeps == ASSUME CommandInv, AskCommand PROVE CommandInv'
<1>1. stage = "idle" /\ found = {} /\ code_list = {} /\ tool_reply = NoReply
      /\ found' = found /\ code_list' = code_list
  BY NotStarted DEF AskCommand, CommandInv
<1>2. PICK c \in Commands, p \in Configs :
        /\ command' = c /\ config' = p
        /\ IF c.problem = "none" THEN stage' = "parse" /\ UNCHANGED tool_reply
           ELSE stage' = "answered" /\ tool_reply' = Refused(ProblemCode[c.problem])
  BY DEF AskCommand
<1>3. command' \in CommandRecord /\ config' \in ConfigRecord
  BY <1>2, CommandAssumption
<1>5. CASE stage' = "parse" /\ tool_reply' = tool_reply
  <2>1. tool_reply'.kind = "pending"
    BY <1>1, <1>5 DEF NoReply
  <2>2. Gathered'
    BY <1>1, <1>5 DEF Gathered
  <2> QED BY <1>1, <1>3, <1>5, <2>1, <2>2 DEF CommandInv, AnsweredFully
<1>6. CASE stage' = "answered" /\ tool_reply' = Refused(ProblemCode[command'.problem])
  <2>1. tool_reply'.kind = "refused"
    BY <1>6 DEF Refused
  <2> QED BY <1>3, <1>6, <2>1 DEF CommandInv, AnsweredFully, Gathered
<1> QED BY <1>2, <1>5, <1>6

(* A stop check either ends the handler or is passed.                       *)
LEMMA WorkOrStop ==
  ASSUME CommandInv, NEW here \in {"parse", "features", "regex"},
         NEW next \in {"features", "regex", "reply"}, NEW fs, NEW cs,
         Work(here, next, fs, cs),
         \/ /\ next = "features"
            /\ found \cup fs = ClassifyFinds(command, config)
            /\ code_list \cup cs = ClassifyPushes(command, config)
         \/ /\ next = "regex"
            /\ found \cup fs =
                 ClassifyFinds(command, config) \cup risky_feature_findings(command, config)
            /\ code_list \cup cs = ClassifyPushes(command, config) \cup risky_feature_codes(command)
         \/ /\ next = "reply"
            /\ found \cup fs = AllFindings(command, config)
            /\ code_list \cup cs = AllCodes(command, config)
  PROVE  CommandInv'
<1>1. /\ stage = here /\ command' = command /\ config' = config
      /\ command \in CommandRecord /\ config \in ConfigRecord
      /\ tool_reply = NoReply
  BY DEF Work, CommandInv
<1>2. CASE stop_signal # "none"
  <2>1. stage' = "answered" /\ tool_reply' = Refused(stop_signal)
    BY <1>2 DEF Work
  <2>2. tool_reply'.kind = "refused"
    BY <2>1 DEF Refused
  <2> QED BY <1>1, <2>1, <2>2 DEF CommandInv, Gathered, AnsweredFully
<1>3. CASE ~(stop_signal # "none")
  <2>1. found' = found \cup fs /\ code_list' = code_list \cup cs /\ stage' = next
        /\ tool_reply' = tool_reply
    BY <1>3 DEF Work
  <2>2. tool_reply'.kind = "pending"
    BY <1>1, <2>1 DEF NoReply
  <2>3. Gathered'
    BY <1>1, <2>1 DEF Gathered
  <2> QED BY <1>1, <2>1, <2>2, <2>3 DEF CommandInv, AnsweredFully
<1> QED BY <1>2, <1>3

LEMMA ClassifyKeeps == ASSUME CommandInv, ClassifyCommand PROVE CommandInv'
<1>1. Work("parse", "features", ClassifyFinds(command, config), ClassifyPushes(command, config))
      /\ stage = "parse"
  BY DEF ClassifyCommand, ClassifyFinds, ClassifyPushes, Work
<1>2. found = {} /\ code_list = {}
  BY <1>1 DEF CommandInv, Gathered
<1> QED BY <1>1, <1>2, WorkOrStop

LEMMA FeaturesKeep == ASSUME CommandInv, ShellFeatures PROVE CommandInv'
<1>1. /\ Work("features", "regex", risky_feature_findings(command, config),
              risky_feature_codes(command))
      /\ stage = "features"
  BY DEF ShellFeatures, Work
<1>2. found = ClassifyFinds(command, config) /\ code_list = ClassifyPushes(command, config)
  BY <1>1 DEF CommandInv, Gathered
<1> QED BY <1>1, <1>2, WorkOrStop

LEMMA RegexKeeps == ASSUME CommandInv, RegexArguments PROVE CommandInv'
<1> DEFINE fs == regex_findings(command) \cup traversal_findings(command)
           cs == regex_codes(command) \cup traversal_codes(command)
<1>1. Work("regex", "reply", fs, cs) /\ stage = "regex"
  BY DEF RegexArguments, Work
<1>2. /\ found = ClassifyFinds(command, config) \cup risky_feature_findings(command, config)
      /\ code_list = ClassifyPushes(command, config) \cup risky_feature_codes(command)
  BY <1>1 DEF CommandInv, Gathered
<1>3. found \cup fs = AllFindings(command, config)
  BY <1>2 DEF AllFindings, ClassifyFinds
<1>4. code_list \cup cs = AllCodes(command, config)
  BY <1>2 DEF AllCodes
<1> HIDE DEF fs, cs
<1> QED BY <1>1, <1>3, <1>4, WorkOrStop

LEMMA ReplyKeeps == ASSUME CommandInv, ReplyToCommand PROVE CommandInv'
<1>1. /\ stage = "reply" /\ stage' = "answered"
      /\ tool_reply' = ReplyTo(command, found, code_list)
      /\ command' = command /\ config' = config
      /\ command \in CommandRecord /\ config \in ConfigRecord
      /\ found = AllFindings(command, config) /\ code_list = AllCodes(command, config)
  BY DEF ReplyToCommand, CommandInv, Gathered
<1>2. /\ tool_reply'.findings = found /\ tool_reply'.verdict = response_verdict(found)
      /\ tool_reply'.machine_code = select_primary_code(code_list)
  BY <1>1 DEF ReplyTo
<1> QED BY <1>1, <1>2 DEF CommandInv, Gathered, AnsweredFully

LEMMA StepCommand == CommandInv /\ [CommandNext]_commanding => CommandInv'
<1>1. ASSUME CommandInv, ParseReply PROVE CommandInv'
  BY <1>1 DEF ParseReply, CommandInv, Gathered, AnsweredFully
<1>2. ASSUME CommandInv, NEW why, SignalStop(why) PROVE CommandInv'
  BY <1>2 DEF SignalStop, CommandInv, Gathered, AnsweredFully
<1>3. ASSUME CommandInv, UNCHANGED commanding PROVE CommandInv'
  BY <1>3 DEF commanding, CommandInv, Gathered, AnsweredFully
<1> QED BY <1>1, <1>2, <1>3, AskKeeps, ClassifyKeeps, FeaturesKeep, RegexKeeps, ReplyKeeps
        DEF CommandNext

LEMMA CommandInvariant == CommandSpec => []CommandInv
BY InitCommand, StepCommand, PTL DEF CommandSpec

-----------------------------------------------------------------------------
(* A command the caller's rules speak against is blocked, and one more rule *)
(* or one override less never softens a verdict.                            *)
THEOREM DenyRulesBlockAndNeverSoften == CommandSpec => []DenyBeatsAllow
<1>1. ASSUME CommandInv, tool_reply.kind = "answered",
             config.denied \/ config.sub_denied \/ config.allow_list = "names_others"
      PROVE  tool_reply.verdict = "block"
  <2>1. command \in CommandRecord /\ config \in ConfigRecord
        /\ tool_reply.verdict = response_verdict(AllFindings(command, config))
    BY <1>1 DEF CommandInv, AnsweredFully
  <2>2. Grave(command, config)
    BY <1>1 DEF Grave, NoRule
  <2> QED BY <2>1, <2>2, AllWeigh DEF response_verdict
<1>2. ASSUME CommandInv, tool_reply.kind = "answered", NEW q \in Configs,
             AtLeastAsStrict(config, q)
      PROVE  Weight[response_verdict(AllFindings(command, q))] <= Weight[tool_reply.verdict]
  BY <1>2, StricterIsNotSofter, CommandAssumption DEF CommandInv, AnsweredFully
<1>3. CommandInv => DenyBeatsAllow
  BY <1>1, <1>2 DEF DenyBeatsAllow
<1> QED BY <1>3, CommandInvariant, PTL

(* A command that is held back has a primary code, and a primary code goes  *)
(* with a finding of the kind it stands for.                                *)
THEOREM HeldBackWithAReason == CommandSpec => []HeldBackForAReason
<1>1. CommandInv => HeldBackForAReason
  BY ReasonIsGiven DEF CommandInv, AnsweredFully, HeldBackForAReason
<1> QED BY <1>1, CommandInvariant, PTL
=============================================================================
