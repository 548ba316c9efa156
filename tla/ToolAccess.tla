----------------------------- MODULE ToolAccess -----------------------------
(***************************************************************************)
(* Which tools a client is shown, and which it may run.  The policy, a     *)
(* profile and an audience, is fixed when the server starts (main.rs,      *)
(* mcp/runtime.rs) or when a library client makes its ToolRegistry         *)
(* (agent/mod.rs).  Listing (mcp/registry/listing.rs), the discovery       *)
(* surface (mcp/discovery.rs) and the calls (mcp/server.rs, agent/mod.rs)  *)
(* each apply it with code of their own.                                   *)
(***************************************************************************)
EXTENDS Naturals, FiniteSets

CONSTANTS
  ToolNames,       \* ALL_TOOLS
  PROFILE_NAMES,   \* the named profiles, "full" among them
  exposure,        \* of a tool
  profiles,        \* of a tool: the profiles that name it
  Deprecated,      \* the deprecated tools
  PINNED_DISCOVERY_TOOLS,
  index,           \* the place of a tool in the registry
  NoTool,          \* what a query names that is no tool
  WordRanks        \* bound: how a query's words may match the tools

Exposures  == {"default", "contextual", "expert_only", "harness_only", "hidden"}
Audiences  == {"model", "harness", "debug"}
Surfaces   == {"direct", "discovery"}
TOOL_SEARCH == "tool_search"
TOOL_INVOKE == "tool_invoke"
Facades    == {TOOL_SEARCH, TOOL_INVOKE}
Names      == ToolNames \cup Facades \cup {NoTool}
NoMatch    == 6  \* relevance 1..5 of score_index; 0 is the exact name
Rank       == [relevance : 1..NoMatch, matched_tokens : Nat]

(* The shipped registry has no hidden tool.  It could have one, as long as *)
(* no profile names it: the debug audience lists all that a profile names. *)
ASSUME RegistryAssumption ==
  /\ exposure \in [ToolNames -> Exposures]
  /\ profiles \in [ToolNames -> SUBSET PROFILE_NAMES]
  /\ \A t \in ToolNames : exposure[t] = "hidden" => profiles[t] = {}
  /\ index \in [ToolNames -> Nat]
  /\ \A t, u \in ToolNames : index[t] = index[u] => t = u
  /\ WordRanks \subseteq [ToolNames -> Rank]
  /\ Facades \cap ToolNames = {} /\ NoTool \notin ToolNames \cup Facades
  /\ IsFiniteSet(ToolNames)
  /\ "full" \in PROFILE_NAMES

VARIABLES
  policy,    \* [profile, audience, surface]; Unset before the start, Exited
  known,     \* the names the client was shown under its policy, or has run
  exchange   \* the last request and what came back
access == <<policy, known, exchange>>

Unset  == [surface |-> "unset"]
Exited == [surface |-> "exited"]
Quiet  == [asked |-> "nothing"]

-----------------------------------------------------------------------------
(* Listing. *)
CanExecuteExposure(audience, e) ==
  /\ e # "hidden"
  /\ audience = "model" => e # "harness_only"

InProfile(profile, t) ==
  IF profile = "full" THEN exposure[t] # "hidden" ELSE profile \in profiles[t]
tools_for_profile(profile) == {t \in ToolNames : InProfile(profile, t)}

InAudience(audience, t) ==
  audience = "debug" \/ CanExecuteExposure(audience, exposure[t])
tools_for_profile_audience(profile, audience) ==
  {t \in tools_for_profile(profile) : InAudience(audience, t)}
(* filtered_specs: `names` and `catalog`, its tier and tags, only narrow. *)
filtered_specs(profile, audience, names, catalog) ==
  tools_for_profile_audience(profile, audience) \cap names \cap catalog

(* Fault: the front doors are shown whatever the policy allows. *)
pinned_regardless(profile, audience, names) ==
  (PINNED_DISCOVERY_TOOLS \cup Facades) \cap names
discovery_definitions(profile, audience, names) ==
  ((tools_for_profile_audience(profile, audience) \cap PINNED_DISCOVERY_TOOLS)
     \cup Facades) \cap names

audience_rank == [model |-> 0, harness |-> 1, debug |-> 2]
(* Fault: the audience of the request is taken as it is. *)
unclamped_audience(active, requested) ==
  IF requested = "none" THEN active ELSE requested
(* The audience of a request narrows the active one and never widens it. *)
effective_audience(active, requested) ==
  IF requested = "none" THEN active
  ELSE IF audience_rank[requested] >= audience_rank[active] THEN active
  ELSE requested

-----------------------------------------------------------------------------
(* The search facade.  A query names a tool or none, and each tool matches *)
(* its words in some relevance class and with some of their tokens.        *)
Exact   == [relevance |-> 0, matched_tokens |-> 0]
Unfound == [relevance |-> NoMatch, matched_tokens |-> 0]
Query == [named : ToolNames \cup {NoTool}, words : WordRanks]

(* Fault: a deprecated tool is passed over even when it is the one named. *)
score_hiding_deprecated(t, query, include_deprecated) ==
  IF t \in Deprecated /\ ~include_deprecated THEN Unfound
  ELSE IF query.named = t THEN Exact ELSE query.words[t]
score_index(t, query, include_deprecated) ==
  IF query.named = t THEN Exact
  ELSE IF t \in Deprecated /\ ~include_deprecated THEN Unfound
  ELSE query.words[t]

search_filtered(specs, query, include_deprecated, limit) ==
  LET score(t)       == score_index(t, query, include_deprecated)
      hits           == {t \in specs : score(t).relevance # NoMatch}
      Precedes(t, u) ==
        \/ score(t).relevance < score(u).relevance
        \/ /\ score(t).relevance = score(u).relevance
           /\ \/ score(t).matched_tokens > score(u).matched_tokens
              \/ /\ score(t).matched_tokens = score(u).matched_tokens
                 /\ index[t] < index[u]
  IN  {t \in hits : Cardinality({u \in hits : Precedes(u, t)}) < limit}

-----------------------------------------------------------------------------
(* Calling. *)
Refusals == {"unknown_tool", "unavailable", "not_allowed"}

prepare_tool_call_internal(name, valid, profile, audience) ==
  IF name \notin ToolNames THEN "unknown_tool"
  ELSE IF /\ ~(profile = "full" /\ exposure[name] # "hidden")
          /\ profile \notin profiles[name] THEN "unavailable"
  ELSE IF ~CanExecuteExposure(audience, exposure[name]) THEN "not_allowed"
  ELSE IF ~valid THEN "invalid_arguments" ELSE "ready"

(* parse_invoke_params turns a facade away before any policy is looked at. *)
invoke(name, valid, profile, audience) ==
  IF name \in Facades THEN "recursive"
  ELSE prepare_tool_call_internal(name, valid, profile, audience)

has_tool(name, profile, audience) ==
  /\ name \in tools_for_profile(profile)
  /\ CanExecuteExposure(audience, exposure[name])

-----------------------------------------------------------------------------
(* Startup.  The environment may leave a setting out, or get it wrong. *)
Environment == [profile  : PROFILE_NAMES \cup {"absent", "wrong"},
                audience : Audiences \cup {"absent", "wrong"},
                surface  : Surfaces \cup {"absent", "wrong"}]
Flags == Surfaces \cup {"absent", "wrong"}

OrElse(setting, default) == IF setting = "absent" THEN default ELSE setting
parse_audience(a) == IF a = "wrong" THEN "model" ELSE OrElse(a, "model")
(* Fault: the flag's value is used whenever it or the environment says     *)
(* anything, its default included.                                         *)
flag_default_wins(env, flag) ==
  IF flag # "absent" \/ env.surface # "absent" THEN OrElse(flag, "direct")
  ELSE "direct"
active_surface(env, flag) ==
  LET surface == OrElse(flag, "direct")
  IN  IF (surface # "direct" \/ env.surface # "absent") /\ flag # "absent"
      THEN surface ELSE OrElse(env.surface, "direct")

Start(env, flag) ==
  /\ policy = Unset
  /\ exchange' = [asked |-> "start", env |-> env, flag |-> flag]
  /\ policy' = IF "wrong" \in {flag, env.profile, env.surface} THEN Exited
               ELSE [profile  |-> OrElse(env.profile, "full"),
                     audience |-> parse_audience(env.audience),
                     surface  |-> active_surface(env, flag)]
  /\ UNCHANGED known

(* A library client picks its own profile, a custom name included. *)
NewRegistry(profile, audience) ==
  /\ policy = Unset
  /\ policy' = [profile |-> profile, audience |-> audience, surface |-> "agent"]
  /\ UNCHANGED <<known, exchange>>

-----------------------------------------------------------------------------
(* A client of the server. *)
Serving == policy.surface \in Surfaces
Answer(asked, name, reply) ==
  exchange' = [asked |-> asked, name |-> name, reply |-> reply]

(* tools/list.  Only a listing of the active profile says what can be run. *)
ListTools(profile, audience, names, catalog) ==
  LET used  == IF profile = "active" THEN policy.profile ELSE profile
      clamp == effective_audience(policy.audience, audience)
      shown == IF policy.surface = "discovery"
               THEN discovery_definitions(used, clamp, names)
               ELSE filtered_specs(used, clamp, names, catalog)
  IN  /\ Serving
      /\ IF used \notin PROFILE_NAMES
         THEN Answer("list_error", NoTool, {}) /\ UNCHANGED known
         ELSE /\ exchange' = [asked |-> "list", name |-> NoTool, reply |-> shown,
                              plain |-> /\ profile = "active" /\ audience = "none"
                                        /\ names = Names /\ catalog = ToolNames]
              /\ known' = known \cup IF profile = "active" THEN shown ELSE {}
      /\ UNCHANGED policy

(* profiles/list: what each profile names, whatever the audience may run.  *)
ListProfiles ==
  /\ Serving
  /\ Answer("profiles", NoTool, UNION {tools_for_profile(p) : p \in PROFILE_NAMES})
  /\ UNCHANGED <<policy, known>>

(* tools/call of tool_search. *)
Search(query, include_deprecated, limit) ==
  LET specs == tools_for_profile_audience(policy.profile, policy.audience)
      hits  == search_filtered(specs, query, include_deprecated, limit)
  IN  /\ policy.surface = "discovery"
      /\ Answer("search", query.named, hits)
      /\ known' = known \cup hits \cup {TOOL_SEARCH}
      /\ UNCHANGED policy

Learn(name, outcome) ==
  known' = IF outcome \in Refusals \cup {"recursive"} THEN known
           ELSE known \cup {name}

(* tools/call of any other name: in the direct surface a facade is one     *)
(* more unknown tool.                                                      *)
CallTool(name, valid) ==
  LET outcome == prepare_tool_call_internal(name, valid, policy.profile, policy.audience)
  IN  /\ Serving
      /\ policy.surface = "discovery" => name \notin Facades
      /\ Answer("call", name, outcome)
      /\ Learn(name, outcome)
      /\ UNCHANGED policy
(* tools/call of tool_invoke. *)
InvokeTool(name, valid) ==
  LET outcome == invoke(name, valid, policy.profile, policy.audience)
  IN  /\ policy.surface = "discovery"
      /\ Answer("invoke", name, outcome)
      /\ Learn(name, outcome)
      /\ UNCHANGED policy

(* A library client.  available_tools looks at the profile alone.          *)
AvailableTools ==
  /\ policy.surface = "agent"
  /\ Answer("available", NoTool,
            {t \in tools_for_profile(policy.profile) : exposure[t] # "hidden"})
  /\ UNCHANGED <<policy, known>>
(* available_tools_for_audience, for the registry's audience or another. *)
AvailableToolsFor(audience) ==
  LET shown == tools_for_profile_audience(policy.profile, audience)
  IN  /\ policy.surface = "agent"
      /\ IF audience = policy.audience
         THEN /\ exchange' = [asked |-> "list", name |-> NoTool, reply |-> shown,
                              plain |-> TRUE]
              /\ known' = known \cup shown
         ELSE /\ exchange' = [asked |-> "list_for", name |-> NoTool, reply |-> shown,
                              audience |-> audience]
              /\ UNCHANGED known
      /\ UNCHANGED policy
HasTool(name) ==
  /\ policy.surface = "agent"
  /\ LET found == has_tool(name, policy.profile, policy.audience)
     IN  /\ Answer("has_tool", name, found)
         /\ known' = IF found THEN known \cup {name} ELSE known
  /\ UNCHANGED policy
(* call_json_with_execution_context: the context's profile and audience,   *)
(* where it has them, stand in for the registry's.                         *)
CallJson(name, valid, profile, audience) ==
  LET p == IF profile = "none" THEN policy.profile ELSE profile
      a == IF audience = "none" THEN policy.audience ELSE audience
      outcome == prepare_tool_call_internal(name, valid, p, a)
  IN  /\ policy.surface = "agent"
      /\ IF p = policy.profile /\ a = policy.audience
         THEN Answer("call", name, outcome) /\ Learn(name, outcome)
         ELSE /\ exchange' = [asked |-> "call_as", name |-> name, reply |-> outcome,
                              audience |-> a]
              /\ UNCHANGED known
      /\ UNCHANGED policy

-----------------------------------------------------------------------------
AccessInit == policy = Unset /\ known = {} /\ exchange = Quiet

Choices    == {"none"} \cup Audiences
Narrowings == {Names} \cup {{n} : n \in Names}
AccessNext ==
  \/ policy = Unset /\ \E env \in Environment, flag \in Flags : Start(env, flag)
  \/ \E p \in PROFILE_NAMES \cup {"custom"}, a \in Audiences : NewRegistry(p, a)
  \/ \E p \in PROFILE_NAMES \cup {"active", "custom"}, a \in Choices,
        names \in Narrowings, catalog \in {ToolNames, Deprecated} :
       ListTools(p, a, names, catalog)
  \/ \E query \in Query, deprecated \in BOOLEAN, limit \in {1, 10} :
       Search(query, deprecated, limit)
  \/ \E name \in Names, valid \in BOOLEAN :
       CallTool(name, valid) \/ InvokeTool(name, valid)
  \/ ListProfiles
  \/ AvailableTools
  \/ \E a \in Audiences : AvailableToolsFor(a)
  \/ \E name \in Names : HasTool(name)
  \/ \E name \in Names, valid \in BOOLEAN,
        p \in PROFILE_NAMES \cup {"none"}, a \in Choices : CallJson(name, valid, p, a)
AccessSpec == AccessInit /\ [][AccessNext]_access

-----------------------------------------------------------------------------
AccessTypeOK ==
  /\ policy \in {Unset, Exited}
                  \cup [profile  : PROFILE_NAMES \cup {"custom"},
                        audience : Audiences,
                        surface  : Surfaces \cup {"agent"}]
  /\ known \subseteq Names

(* A name the client was shown under its own policy, be it by a listing of *)
(* the active profile, a search or has_tool, or that it has already run,   *)
(* is not refused for policy by a later call, whatever its route: the      *)
(* listings, the search and the calls each filter with code of their own   *)
(* (listing.rs:242, agent/mod.rs:454, 572, server.rs:383, 586, 688).       *)
(* profiles/list and available_tools make no such promise.                 *)
KnownToolsWork ==
  /\ exchange.asked \in {"call", "invoke"} /\ exchange.reply \in Refusals =>
       exchange.name \notin known
  /\ exchange.asked = "has_tool" /\ ~exchange.reply => exchange.name \notin known

(* A request of the server narrows the audience and never widens it: a     *)
(* listing, whatever audience it asks for, and a search show, and a call   *)
(* or an invocation runs, only what the audience of the policy may run     *)
(* (server.rs:398, 688, discovery.rs:626).  A library client may name      *)
(* another audience than its registry's (agent/mod.rs:425, 713), and is    *)
(* then held to that one.  Two requests look at no audience at all:        *)
(* profiles/list (server.rs:506) and available_tools (agent/mod.rs:416)    *)
(* name harness-only tools to everyone; a hidden one they never name.      *)
RoutesKeepTheirAudience ==
  LET Within(audience, ts) ==
        \A t \in ts \cap ToolNames : CanExecuteExposure(audience, exposure[t])
  IN  /\ exchange.asked \in {"list", "search"} => Within(policy.audience, exchange.reply)
      /\ exchange.asked \in {"call", "invoke"} /\ exchange.reply = "ready" =>
           Within(policy.audience, {exchange.name})
      /\ exchange.asked = "list_for" => Within(exchange.audience, exchange.reply)
      /\ exchange.asked = "call_as" /\ exchange.reply = "ready" =>
           Within(exchange.audience, {exchange.name})
      /\ exchange.asked \in {"profiles", "available"} =>
           \A t \in exchange.reply : exposure[t] # "hidden"

Runnable == {t \in ToolNames :
               prepare_tool_call_internal(t, TRUE, policy.profile, policy.audience) = "ready"}

(* Every tool that can be run can be found: a listing without parameters   *)
(* has them all, and where the discovery surface keeps most of them back   *)
(* the search finds each by its name, deprecated or not, however few hits  *)
(* it may return (discovery.rs:420, 528, agent/mod.rs:572).                *)
NothingOutOfReach ==
  /\ exchange.asked = "list" /\ exchange.plain =>
       IF policy.surface = "discovery" THEN Facades \subseteq exchange.reply
       ELSE exchange.reply = Runnable
  /\ exchange.asked = "search" /\ exchange.name \in Runnable =>
       exchange.name \in exchange.reply

(* What each setting comes to.  The server does not start with a surface,  *)
(* named by the flag or the environment, or a profile that it does not     *)
(* know; otherwise the surface is the flag's, or else the environment's,   *)
(* or else direct, and the profile the environment's or else full.  The    *)
(* audience alone is forgiving: absent, or one that it does not know, it   *)
(* is the model's, which may run the least (main.rs:316, runtime.rs:901,   *)
(* 948, 1040).                                                             *)
StartsAsConfigured ==
  exchange.asked = "start" =>
    LET env  == exchange.env
        flag == exchange.flag
    IN  /\ policy = Exited <=> flag = "wrong" \/ env.surface = "wrong" \/ env.profile = "wrong"
        /\ policy # Exited =>
             /\ policy.surface = IF flag # "absent" THEN flag
                                 ELSE IF env.surface # "absent" THEN env.surface ELSE "direct"
             /\ policy.profile = IF env.profile # "absent" THEN env.profile ELSE "full"
             /\ policy.audience = IF env.audience \in Audiences THEN env.audience ELSE "model"
=============================================================================
