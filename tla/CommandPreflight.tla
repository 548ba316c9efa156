-------------------------- MODULE CommandPreflight --------------------------
(***************************************************************************)
(* command_preflight (src/tools/shell.rs): may a shell command be run?     *)
(* Rules of the caller, a built-in policy, destructive patterns, the       *)
(* behaviour of the program, features of the shell and regex arguments     *)
(* each add findings; the worst severity is the verdict.  The typed        *)
(* wrapper (src/preflight/mod.rs) reads the reply strictly.                *)
(***************************************************************************)
EXTENDS Naturals, Sequences

CONSTANTS Commands,  \* the commands that may be asked about
          Configs    \* the policies and overrides they may be asked under

Dispositions == {"allow", "review", "block"}
Policies  == {"default", "strict", "permissive"}
Overrides == {"network", "filesystem_write", "process_control", "env_mutation"}
Behaviours == Overrides \cup {"privilege_escalation", "command_substitution",
                              "redirection", "pipeline", "background_execution"}
Problems  == {"none", "missing", "too_large", "nul_in_directory", "platform", "policy",
              "over_configured_length", "windows"}

(* A program stands for all, with their subcommands, that the three tables *)
(* and the lists of programs of detect_behavioral_features treat alike;    *)
(* that the second word is one that writes is told apart by the command.   *)
Class(default, strict, permissive, does) ==
  [default |-> default, strict |-> strict, permissive |-> permissive, does |-> does]
classify_tables ==
  [cat        |-> Class("allow", "allow", "allow", {}),
   stat       |-> Class("allow", "review", "allow", {}),
   cargo_fmt  |-> Class("review", "allow", "allow", {}),
   make       |-> Class("review", "review", "allow", {}),
   sh_c       |-> Class("review", "review", "review", {}),
   curl       |-> Class("review", "review", "allow", {"network"}),
   kill       |-> Class("review", "review", "allow", {"process_control"}),
   runas      |-> Class("review", "review", "allow", {"privilege_escalation"}),
   assignment |-> Class("review", "review", "allow", {"env_mutation"}),
   chmod      |-> Class("block", "block", "block", {}),
   rm         |-> Class("block", "block", "block", {"filesystem_write"}),
   sudo       |-> Class("block", "block", "block", {"privilege_escalation"}),
   wipefs     |-> Class("block", "review", "block", {"filesystem_write"}),
   pkexec     |-> Class("block", "review", "block", {"privilege_escalation"})]
Programs == DOMAIN classify_tables
(* Programs that are told apart by a second word that does not write. *)
ToldBySubcommand == {"cargo_fmt", "sh_c"}

DestructivePatterns == {"PipeToShell", "DestructiveRemove", "DestructiveGitReset",
  "DestructiveGitClean", "ForceGitPush", "PermissiveChmod", "RecursiveChown"}
RegexKinds == {"COMPLEXITY", "NESTED_QUANTIFIER", "BACKREFERENCE", "AMBIGUOUS_DOT_STAR"}

(* problem: the first thing wrong with the arguments.  writes: the second  *)
(* word says so.  uses: the features of the shell that count as behaviour. *)
(* risky: any feature at all.  regex: what is wrong with its patterns, of  *)
(* which none is found without a risk.                                     *)
CommandRecord == [problem     : Problems,
                  program     : Programs,
                  writes      : BOOLEAN,
                  destructive : SUBSET DestructivePatterns,
                  uses        : SUBSET (Behaviours \ (Overrides \cup {"privilege_escalation"})),
                  risky       : BOOLEAN,
                  unbalanced  : BOOLEAN,
                  regex       : SUBSET RegexKinds,
                  ascii       : BOOLEAN,
                  traversal   : BOOLEAN]
(* denied, sub_denied: whether the lists name the program.  allow_list:    *)
(* whether there is one, and whether it names it.                          *)
ConfigRecord == [policy     : Policies,
                 denied     : BOOLEAN,
                 allow_list : {"empty", "names_it", "names_others"},
                 sub_denied : BOOLEAN,
                 allows     : SUBSET Overrides]
ASSUME CommandAssumption == /\ Commands \subseteq CommandRecord
                            /\ Configs \subseteq ConfigRecord
                            /\ \A c \in Commands :
                                 /\ c.uses # {} \/ c.unbalanced => c.risky
                                 /\ c.writes => c.program \notin ToldBySubcommand

VARIABLES
  command, config,  \* what is asked, NoCommand and NoConfig at the start
  stage,            \* the stop check that comes next
  found,            \* the findings, as pairs of code and severity
  code_list,        \* the machine codes, collected beside the findings
  stop_signal,      \* why the handler is to stop, "none" as long as it is not
  tool_reply,       \* of the tool
  typed_reply       \* of the typed wrapper
commanding == <<command, config, stage, found, code_list, stop_signal, tool_reply, typed_reply>>

NoCommand  == [program |-> "none"]
NoConfig   == [policy |-> "none"]
NoReply    == [kind |-> "pending"]
Refused(c) == [kind |-> "refused", machine_code |-> c]

-----------------------------------------------------------------------------
ProblemCode ==
  [missing |-> "INVALID_ARGUMENTS", too_large |-> "INPUT_TOO_LARGE",
   nul_in_directory |-> "INVALID_ARGUMENTS", platform |-> "INVALID_ARGUMENTS",
   policy |-> "INVALID_ARGUMENTS", over_configured_length |-> "INPUT_TOO_LARGE",
   windows |-> "UNSUPPORTED_FEATURE"]

(* Findings are told apart by what the verdict and the wrapper read.  The  *)
(* code of a finding says of what kind it is; the machine code that goes   *)
(* with it is pushed to a list of its own, under a condition of its own.   *)
Note(code, severity) == {[code |-> code, severity |-> severity]}
Notes(kinds, severity) == {[code |-> kind, severity |-> severity] : kind \in kinds}
Has(severity, fs) == \E f \in fs : f.severity = severity

UNAPPROVED == "SHELL_UNAPPROVED_COMMAND"
POLICY_REVIEW == "SHELL_POLICY_REVIEW"

(* The rules of the caller.  Deny beats allow. *)
rule_findings(c, p) ==
  (IF p.denied THEN Note(UNAPPROVED, "high")
   ELSE IF p.allow_list = "names_others" THEN Note(UNAPPROVED, "medium") ELSE {})
  \cup (IF p.sub_denied THEN Note(UNAPPROVED, "high") ELSE {})
rule_codes(c, p) ==
  IF p.denied \/ p.allow_list = "names_others" \/ p.sub_denied THEN {UNAPPROVED} ELSE {}

classify(c, p) == classify_tables[c.program][p.policy]
(* Fault: the policy is not consulted once a rule of the caller has spoken. *)
rules_or_policy(c, p) ==
  IF UNAPPROVED \in rule_codes(c, p) THEN "allow" ELSE classify(c, p)
(* A rule of the caller that speaks against a program blocks it. *)
classify_disposition(c, p) ==
  IF UNAPPROVED \in rule_codes(c, p) THEN "block" ELSE classify(c, p)
BlockIsNew(c, p) ==
  classify_disposition(c, p) = "block" /\ ~Has("high", rule_findings(c, p))
ReviewIsNew(c, p) ==
  /\ classify_disposition(c, p) = "review"
  /\ ~Has("high", rule_findings(c, p)) /\ ~Has("medium", rule_findings(c, p))
policy_findings(c, p) ==
  IF BlockIsNew(c, p) THEN Note(UNAPPROVED, "high")
  ELSE IF ReviewIsNew(c, p) THEN Note(POLICY_REVIEW, "medium") ELSE {}
policy_codes(c, p) ==
  IF BlockIsNew(c, p) THEN {UNAPPROVED}
  ELSE IF ReviewIsNew(c, p) THEN {POLICY_REVIEW} ELSE {}

destructive_findings(c) == Notes(c.destructive, "high")
destructive_codes(c) == IF c.destructive # {} THEN {"SHELL_DESTRUCTIVE_COMMAND"} ELSE {}

BehaviourCode ==
  [network |-> "SHELL_NETWORK_ACCESS", filesystem_write |-> "SHELL_FILESYSTEM_WRITE",
   process_control |-> "SHELL_PROCESS_CONTROL", env_mutation |-> "SHELL_ENV_MUTATION",
   privilege_escalation |-> "SHELL_PRIVILEGE_ESCALATION",
   command_substitution |-> "SHELL_COMMAND_SUBSTITUTION",
   redirection |-> "SHELL_REDIRECTION", pipeline |-> "SHELL_PIPELINE",
   background_execution |-> "SHELL_BACKGROUND_EXECUTION"]
BehaviourKind ==
  [network |-> "NetworkAccess", filesystem_write |-> "FilesystemWrite",
   process_control |-> "ProcessControl", env_mutation |-> "EnvMutation",
   privilege_escalation |-> "PrivilegeEscalation",
   command_substitution |-> "CommandSubstitution",
   redirection |-> "Redirection", pipeline |-> "Pipeline",
   background_execution |-> "BackgroundExecution"]
behaviour_severity(b, p) ==
  IF b \in {"privilege_escalation", "network"}
  THEN IF p.policy = "strict" THEN "high" ELSE "medium"
  ELSE IF p.policy = "strict" THEN "medium" ELSE "info"
detect_behavioral_features(c) ==
  classify_tables[c.program].does \cup c.uses
    \cup IF c.writes THEN {"filesystem_write"} ELSE {}
behavioral_findings(c, p) ==
  {[code |-> BehaviourKind[b], severity |-> behaviour_severity(b, p)] :
     b \in detect_behavioral_features(c) \ p.allows}
behavioral_codes(c, p) == {BehaviourCode[b] : b \in detect_behavioral_features(c) \ p.allows}

risky_feature_findings(c, p) ==
  IF c.risky THEN Note("RISKY_SHELL_FEATURE", IF p.policy = "strict" THEN "high" ELSE "medium")
  ELSE {}
risky_feature_codes(c) == IF c.risky THEN {"SHELL_RISK"} ELSE {}

regex_findings(c) == Notes(c.regex, "medium")
(* Fault: the findings are pushed and their code is not. *)
regex_uncoded(c) == {}
regex_codes(c) == IF c.regex # {} THEN {"REGEX_RISK"} ELSE {}

(* This finding is written by hand, and without a `code`. *)
traversal_findings(c) == IF c.traversal THEN Note("none", "low") ELSE {}
traversal_codes(c) == IF c.traversal THEN {"PATH_HAS_TRAVERSAL"} ELSE {}

-----------------------------------------------------------------------------
(* The reply. *)
priority == <<"SHELL_DESTRUCTIVE_COMMAND", "SHELL_PRIVILEGE_ESCALATION",
  "SHELL_NETWORK_ACCESS", "SHELL_FILESYSTEM_WRITE", "SHELL_PROCESS_CONTROL",
  "SHELL_COMMAND_SUBSTITUTION", "SHELL_REDIRECTION", "SHELL_PIPELINE",
  "SHELL_BACKGROUND_EXECUTION", UNAPPROVED, "SHELL_ENV_MUTATION", POLICY_REVIEW,
  "SHELL_RISK", "REGEX_RISK">>
(* The first of a list of codes that was collected. *)
FirstOf(list, codes) ==
  LET hit == {i \in 1..Len(list) : list[i] \in codes}
  IN  IF hit = {} THEN "COMMAND_OK"
      ELSE list[CHOOSE i \in hit : \A k \in hit : i <= k]
select_primary_code(codes) == FirstOf(priority, codes)

response_verdict(fs) == IF Has("high", fs) THEN "block"
                        ELSE IF Has("medium", fs) THEN "review" ELSE "allow"
command_next_tool(c) == IF c.unbalanced THEN "shell_split"
                        ELSE IF ~c.ascii THEN "text_security_inspect" ELSE "none"
ReplyTo(c, fs, codes) ==
  [kind |-> "answered", verdict |-> response_verdict(fs),
   machine_code |-> select_primary_code(codes), findings |-> fs,
   recommended_next_tool |-> command_next_tool(c)]

-----------------------------------------------------------------------------
CommandInit ==
  /\ command = NoCommand /\ config = NoConfig /\ stage = "idle"
  /\ found = {} /\ code_list = {} /\ stop_signal = "none"
  /\ tool_reply = NoReply /\ typed_reply = NoReply

AskCommand ==
  /\ command = NoCommand
  /\ \E c \in Commands, p \in Configs :
       /\ command' = c /\ config' = p
       /\ IF c.problem = "none" THEN stage' = "parse" /\ UNCHANGED tool_reply
          ELSE stage' = "answered" /\ tool_reply' = Refused(ProblemCode[c.problem])
  /\ UNCHANGED <<found, code_list, stop_signal, typed_reply>>

(* A stop check and the work up to the next.  The work reads no signal, so *)
(* one that comes during it may as well come after it.                     *)
Work(at_stage, next, findings_of, codes_of) ==
  /\ stage = at_stage
  /\ IF stop_signal # "none"
     THEN /\ stage' = "answered"
          /\ tool_reply' = Refused(stop_signal)
          /\ UNCHANGED <<found, code_list>>
     ELSE /\ found' = found \cup findings_of
          /\ code_list' = code_list \cup codes_of
          /\ stage' = next
          /\ UNCHANGED tool_reply
  /\ UNCHANGED <<command, config, stop_signal, typed_reply>>

ClassifyCommand ==
  Work("parse", "features",
       rule_findings(command, config) \cup policy_findings(command, config)
         \cup destructive_findings(command) \cup behavioral_findings(command, config),
       rule_codes(command, config) \cup policy_codes(command, config)
         \cup destructive_codes(command) \cup behavioral_codes(command, config))
ShellFeatures ==
  Work("features", "regex",
       risky_feature_findings(command, config), risky_feature_codes(command))
RegexArguments ==
  Work("regex", "reply",
       regex_findings(command) \cup traversal_findings(command),
       regex_codes(command) \cup traversal_codes(command))

ReplyToCommand ==
  /\ stage = "reply"
  /\ stage' = "answered"
  /\ tool_reply' = ReplyTo(command, found, code_list)
  /\ UNCHANGED <<command, config, found, code_list, stop_signal, typed_reply>>

(* CommandPreflight::parse_response: a finding without a code is a breach  *)
(* of the contract.                                                        *)
ParseReply ==
  /\ stage = "answered" /\ typed_reply = NoReply
  /\ typed_reply' =
       IF tool_reply.kind = "refused"
       THEN [kind |-> "rejected", machine_code |-> tool_reply.machine_code]
       ELSE IF \E f \in tool_reply.findings : f.code = "none"
       THEN [kind |-> "contract_violation"]
       ELSE [kind |-> "output", verdict |-> tool_reply.verdict,
             machine_code |-> tool_reply.machine_code]
  /\ UNCHANGED <<command, config, stage, found, code_list, stop_signal, tool_reply>>

(* The caller cancels, which is asked about first, or the time is up. *)
SignalStop(why) ==
  /\ stage \in {"parse", "features", "regex", "reply"}
  /\ stop_signal = "none" \/ (stop_signal = "TIMEOUT" /\ why = "CANCELLED")
  /\ stop_signal' = why
  /\ UNCHANGED <<command, config, stage, found, code_list, tool_reply, typed_reply>>

CommandNext ==
  \/ AskCommand
  \/ ClassifyCommand \/ ShellFeatures \/ RegexArguments \/ ReplyToCommand \/ ParseReply
  \/ \E why \in {"CANCELLED", "TIMEOUT"} : SignalStop(why)
CommandSpec == CommandInit /\ [][CommandNext]_commanding

-----------------------------------------------------------------------------
CommandSeverity == {"high", "medium", "low", "info"}
CommandCodes == {priority[i] : i \in 1..Len(priority)}
FindingCodes ==
  {UNAPPROVED, POLICY_REVIEW, "RISKY_SHELL_FEATURE", "none"} \cup DestructivePatterns
    \cup {BehaviourKind[b] : b \in Behaviours} \cup RegexKinds
CommandTypeOK ==
  /\ command \in CommandRecord \cup {NoCommand}
  /\ config \in ConfigRecord \cup {NoConfig}
  /\ stage \in {"idle", "parse", "features", "regex", "reply", "answered"}
  /\ found \subseteq [code : FindingCodes, severity : CommandSeverity]
  /\ code_list \subseteq CommandCodes \cup {"PATH_HAS_TRAVERSAL"}
  /\ stop_signal \in {"none", "CANCELLED", "TIMEOUT"}
  /\ tool_reply.kind \in {"pending", "refused", "answered"}
  /\ typed_reply.kind \in {"pending", "rejected", "contract_violation", "output"}

(* Deny beats allow: a command that a rule of the caller denies, or that   *)
(* its allow list leaves out, is blocked; and a configuration that only    *)
(* adds rules, or withdraws overrides, never has a softer verdict.  The    *)
(* rules, the built-in policy and the overrides are weighed in turn, each  *)
(* looking at what the ones before it found (shell.rs:980, 1068, 1131,     *)
(* preflight/mod.rs:726).                                                  *)
Weight == [allow |-> 0, review |-> 1, block |-> 2]
ListRank == [empty |-> 0, names_it |-> 0, names_others |-> 1]
AtLeastAsStrict(p, q) ==
  /\ p.policy = q.policy
  /\ q.denied => p.denied
  /\ q.sub_denied => p.sub_denied
  /\ ListRank[q.allow_list] <= ListRank[p.allow_list]
  /\ p.allows \subseteq q.allows
AllFindings(c, p) ==
  rule_findings(c, p) \cup policy_findings(c, p) \cup destructive_findings(c)
    \cup behavioral_findings(c, p) \cup risky_feature_findings(c, p)
    \cup regex_findings(c) \cup traversal_findings(c)
DenyBeatsAllow ==
  tool_reply.kind = "answered" =>
    /\ config.denied \/ config.sub_denied \/ config.allow_list = "names_others" =>
         tool_reply.verdict = "block"
    /\ \A q \in Configs : AtLeastAsStrict(config, q) =>
         Weight[response_verdict(AllFindings(command, q))] <= Weight[tool_reply.verdict]

(* A command is never held back without a reason: a verdict other than     *)
(* allow has a primary code other than COMMAND_OK, and a primary code      *)
(* other than COMMAND_OK goes with a finding of the reply whose kind is    *)
(* one it stands for.  Verdict and findings come from one list, the        *)
(* primary code from another (shell.rs:675, 1088, 1168, 1233, 1284).       *)
KindsOf(code) ==
  CASE code \in {UNAPPROVED, POLICY_REVIEW}        -> {code}
    [] code = "SHELL_DESTRUCTIVE_COMMAND"          -> DestructivePatterns
    [] code = "SHELL_RISK"                         -> {"RISKY_SHELL_FEATURE"}
    [] code = "REGEX_RISK"                         -> RegexKinds
    [] OTHER -> {BehaviourKind[b] : b \in {x \in Behaviours : BehaviourCode[x] = code}}
HeldBackForAReason ==
  tool_reply.kind = "answered" =>
    /\ tool_reply.verdict # "allow" => tool_reply.machine_code # "COMMAND_OK"
    /\ tool_reply.machine_code # "COMMAND_OK" =>
         \E f \in tool_reply.findings : f.code \in KindsOf(tool_reply.machine_code)

(* The wrapper passes every verdict on: a reply of the tool is never taken *)
(* for a breach of its contract, architecture/machine-codes.md having it   *)
(* that a finding has a code.                                              *)
FindingsKeepTheContract == typed_reply.kind # "contract_violation"
=============================================================================
