-------------------------- MODULE ToolAccessProofs --------------------------
(***************************************************************************)
(* For every registry, every policy and every sequence of requests: what a *)
(* client is shown it may run, the routes keep to their audience, what can *)
(* be run can be found, and each setting has the outcome it should.        *)
(***************************************************************************)
EXTENDS ToolAccess, FiniteSetTheorems, TLAPS

Permits(p, a, t) == InProfile(p, t) /\ CanExecuteExposure(a, exposure[t])

Usable(n) == /\ n \in ToolNames \cup Facades
             /\ n \in ToolNames => Permits(policy.profile, policy.audience, n)
             /\ n \in Facades => policy.surface = "discovery"

AccessInv ==
  /\ AccessTypeOK
  /\ policy = Unset => exchange = Quiet
  /\ policy \in {Unset, Exited} => known = {}
  /\ \A n \in known : Usable(n)
  /\ KnownToolsWork
  /\ RoutesKeepTheirAudience
  /\ NothingOutOfReach
  /\ StartsAsConfigured

-----------------------------------------------------------------------------
(* The filters agree.                                                       *)

LEMMA NotHidden ==
  ASSUME NEW t \in ToolNames, NEW p, InProfile(p, t)
  PROVE  exposure[t] # "hidden"
BY RegistryAssumption DEF InProfile

(* A call is refused exactly where the listing leaves the tool out.         *)
LEMMA CallsAgree ==
  ASSUME NEW t \in ToolNames, NEW p, NEW a, NEW valid \in BOOLEAN
  PROVE  LET outcome == prepare_tool_call_internal(t, valid, p, a)
         IN  /\ outcome \in Refusals <=> ~Permits(p, a, t)
             /\ outcome = "ready" <=> Permits(p, a, t) /\ valid
<1>1. exposure[t] = "hidden" => profiles[t] = {}
  BY RegistryAssumption
<1>2. InProfile(p, t) <=> \/ p = "full" /\ exposure[t] # "hidden"
                          \/ p \in profiles[t]
  BY <1>1, NotHidden DEF InProfile
<1>3. CASE ~InProfile(p, t)
  BY <1>2, <1>3 DEF prepare_tool_call_internal, Permits, Refusals
<1>4. CASE InProfile(p, t)
  BY <1>2, <1>4 DEF prepare_tool_call_internal, Permits, Refusals
<1> QED BY <1>3, <1>4

LEMMA ListingAgrees ==
  ASSUME NEW p, NEW a
  PROVE  tools_for_profile_audience(p, a) = {t \in ToolNames : Permits(p, a, t)}
<1>1. ASSUME NEW t \in ToolNames, InProfile(p, t)
      PROVE  InAudience(a, t) <=> CanExecuteExposure(a, exposure[t])
  BY <1>1, NotHidden DEF InAudience, CanExecuteExposure
<1> QED BY <1>1 DEF tools_for_profile_audience, tools_for_profile, Permits

(* Whatever audience a request names, the active one may run what it sees.  *)
LEMMA NeverWider ==
  ASSUME NEW t \in ToolNames, NEW p, NEW a \in Audiences, NEW r \in Choices,
         Permits(p, effective_audience(a, r), t)
  PROVE  Permits(p, a, t)
<1>1. \/ effective_audience(a, r) = a
      \/ effective_audience(a, r) = r /\ audience_rank[r] < audience_rank[a] /\ r \in Audiences
  <2>1. CASE r = "none"
    BY <2>1 DEF effective_audience
  <2>2. CASE r # "none"
    <3>1. r \in Audiences /\ audience_rank[r] \in Int /\ audience_rank[a] \in Int
      BY <2>2 DEF Choices, Audiences, audience_rank
    <3> QED BY <2>2, <3>1 DEF effective_audience
  <2> QED BY <2>1, <2>2
<1>2. CASE effective_audience(a, r) = r /\ audience_rank[r] < audience_rank[a] /\ r \in Audiences
  <2>1. a # "model"
    BY <1>2 DEF audience_rank, Audiences
  <2> QED BY <1>2, <2>1 DEF Permits, CanExecuteExposure
<1> QED BY <1>1, <1>2

(* The search returns the tool a query names, if it may be run.             *)
LEMMA NamedIsFound ==
  ASSUME NEW specs \in SUBSET ToolNames, NEW query \in Query, NEW deprecated \in BOOLEAN,
         NEW limit \in {1, 10}, query.named \in specs
  PROVE  query.named \in search_filtered(specs, query, deprecated, limit)
<1> DEFINE t        == query.named
           score(u) == score_index(u, query, deprecated)
           Precedes(v, u) ==
             \/ score(v).relevance < score(u).relevance
             \/ /\ score(v).relevance = score(u).relevance
                /\ \/ score(v).matched_tokens > score(u).matched_tokens
                   \/ /\ score(v).matched_tokens = score(u).matched_tokens
                      /\ index[v] < index[u]
           hits     == {u \in specs : score(u).relevance # NoMatch}
           before   == {u \in hits : Precedes(u, t)}
<1>1. score(t).relevance = 0 /\ score(t).matched_tokens = 0 /\ NoMatch # 0
  BY DEF score_index, NoMatch, Exact
<1>2. ASSUME NEW u \in specs, u # t
      PROVE  score(u).relevance \in Nat /\ score(u).relevance > 0
  <2>1. query.words \in [ToolNames -> Rank]
    BY RegistryAssumption DEF Query
  <2>2. query.words[u] \in Rank
    BY <2>1
  <2>3. query.words[u].relevance \in 1..NoMatch
    BY <2>2 DEF Rank
  <2> QED BY <1>2, <2>3 DEF score_index, NoMatch, Unfound
<1>3. index[t] \in Nat
  BY RegistryAssumption
<1>4. before = {}
  <2> SUFFICES ASSUME NEW u \in before PROVE FALSE
    OBVIOUS
  <2>1. u \in specs /\ Precedes(u, t)
    OBVIOUS
  <2> HIDE DEF score
  <2>2. u # t
    BY <1>1, <1>3, <2>1
  <2> QED BY <1>1, <1>2, <2>1, <2>2
<1>5. Cardinality(before) < limit
  <2> HIDE DEF before
  <2> QED BY <1>4, FS_EmptySet
<1> QED BY <1>1, <1>5 DEF search_filtered

-----------------------------------------------------------------------------
(* The requests.                                                            *)

PolicyRecord == [profile  : PROFILE_NAMES \cup {"custom"},
                 audience : Audiences,
                 surface  : Surfaces \cup {"agent"}]

LEMMA PolicyIsSet ==
  ASSUME AccessInv, policy.surface \in Surfaces \cup {"agent"}
  PROVE  policy \in PolicyRecord /\ policy \notin {Unset, Exited}
<1>1. Unset.surface = "unset" /\ Exited.surface = "exited"
  BY DEF Unset, Exited
<1>2. policy \notin {Unset, Exited}
  BY <1>1 DEF Surfaces
<1> QED BY <1>2 DEF AccessInv, AccessTypeOK, PolicyRecord

(* A request leaves the policy alone: it is enough to look at what it       *)
(* showed and what it answered.                                             *)
LEMMA Answered ==
  ASSUME AccessInv, policy' = policy, policy.surface \in Surfaces \cup {"agent"},
         \A n \in known' : Usable(n),
         KnownToolsWork', RoutesKeepTheirAudience', NothingOutOfReach', StartsAsConfigured'
  PROVE  AccessInv'
<1>1. policy \in PolicyRecord /\ policy \notin {Unset, Exited}
  BY PolicyIsSet
<1>2. \A n \in known' : Usable(n)'
  BY DEF Usable
<1>3. AccessTypeOK'
  BY DEF AccessInv, AccessTypeOK, Usable, Names
<1> QED BY <1>1, <1>2, <1>3 DEF AccessInv, Unset

(* A call that is not refused has named a tool that may be used, and one    *)
(* that is refused has not named one that was known.                        *)
LEMMA Learning ==
  ASSUME AccessInv, NEW name \in Names, NEW valid \in BOOLEAN, NEW outcome,
         outcome = prepare_tool_call_internal(name, valid, policy.profile, policy.audience),
         name \in Facades => policy.surface # "discovery",
         Learn(name, outcome)
  PROVE  /\ \A n \in known' : Usable(n)
         /\ outcome \in Refusals => name \notin known'
<1>1. \A n \in known : Usable(n)
  BY DEF AccessInv
<1>2. CASE name \in ToolNames
  <2>1. outcome \in Refusals <=> ~Permits(policy.profile, policy.audience, name)
    BY <1>2, CallsAgree
  <2>2. name \notin Facades
    BY <1>2, RegistryAssumption
  <2>3. CASE outcome \in Refusals
    BY <1>1, <1>2, <2>1, <2>3 DEF Learn, Usable
  <2>4. CASE outcome \notin Refusals
    <3>1. Usable(name)
      BY <1>2, <2>1, <2>2, <2>4 DEF Usable
    <3> QED BY <1>1, <2>4, <3>1 DEF Learn
  <2> QED BY <2>3, <2>4
<1>3. CASE name \notin ToolNames
  <2>1. outcome = "unknown_tool" /\ known' = known
    BY <1>3 DEF prepare_tool_call_internal, Learn, Refusals
  <2>2. ~Usable(name)
    BY <1>3 DEF Usable
  <2> QED BY <1>1, <2>1, <2>2
<1> QED BY <1>2, <1>3

ReadyIsAllowed(audience, name) ==
  name \in ToolNames /\ CanExecuteExposure(audience, exposure[name])

(* A call that is ready names a tool its audience may run.                  *)
LEMMA ReadyCalls ==
  ASSUME NEW name, NEW valid, NEW p, NEW a,
         prepare_tool_call_internal(name, valid, p, a) = "ready"
  PROVE  ReadyIsAllowed(a, name)
BY DEF prepare_tool_call_internal, ReadyIsAllowed

LEMMA CallKeeps ==
  ASSUME AccessInv, NEW name \in Names, NEW valid \in BOOLEAN, CallTool(name, valid)
  PROVE  AccessInv'
<1> DEFINE outcome == prepare_tool_call_internal(name, valid, policy.profile, policy.audience)
<1>1. /\ policy.surface \in Surfaces \cup {"agent"} /\ policy' = policy
      /\ name \in Facades => policy.surface # "discovery"
      /\ exchange' = [asked |-> "call", name |-> name, reply |-> outcome]
      /\ Learn(name, outcome)
  BY DEF CallTool, Serving, Answer
<1>2. /\ \A n \in known' : Usable(n)
      /\ outcome \in Refusals => name \notin known'
  BY <1>1, Learning
<1>5. outcome = "ready" => ReadyIsAllowed(policy.audience, name)
  BY ReadyCalls
<1> HIDE DEF outcome
<1>3. exchange'.asked = "call" /\ exchange'.name = name /\ exchange'.reply = outcome
  BY <1>1
<1>6. RoutesKeepTheirAudience'
  BY <1>1, <1>3, <1>5 DEF RoutesKeepTheirAudience, ReadyIsAllowed
<1>4. KnownToolsWork' /\ RoutesKeepTheirAudience' /\ NothingOutOfReach' /\ StartsAsConfigured'
  BY <1>2, <1>3, <1>6 DEF KnownToolsWork, NothingOutOfReach, StartsAsConfigured
<1> QED BY <1>1, <1>2, <1>4, Answered

LEMMA InvokeKeeps ==
  ASSUME AccessInv, NEW name \in Names, NEW valid \in BOOLEAN, InvokeTool(name, valid)
  PROVE  AccessInv'
<1> DEFINE outcome == invoke(name, valid, policy.profile, policy.audience)
<1>1. /\ policy.surface = "discovery" /\ policy' = policy
      /\ policy.surface \in Surfaces \cup {"agent"}
      /\ exchange' = [asked |-> "invoke", name |-> name, reply |-> outcome]
      /\ Learn(name, outcome)
  BY DEF InvokeTool, Answer, Surfaces
<1>2. /\ \A n \in known' : Usable(n)
      /\ outcome \in Refusals => name \notin known'
  <2>1. CASE name \in Facades
    <3>1. outcome = "recursive"
      BY <2>1 DEF invoke
    <3> HIDE DEF outcome
    <3> QED BY <1>1, <3>1 DEF Learn, Refusals, AccessInv
  <2>2. CASE name \notin Facades
    <3>1. outcome = prepare_tool_call_internal(name, valid, policy.profile, policy.audience)
      BY <2>2 DEF invoke
    <3> HIDE DEF outcome
    <3> QED BY <1>1, <2>2, <3>1, Learning
  <2> QED BY <2>1, <2>2
<1>5. outcome = "ready" => ReadyIsAllowed(policy.audience, name)
  BY ReadyCalls DEF invoke
<1> HIDE DEF outcome
<1>3. exchange'.asked = "invoke" /\ exchange'.name = name /\ exchange'.reply = outcome
  BY <1>1
<1>6. RoutesKeepTheirAudience'
  BY <1>1, <1>3, <1>5 DEF RoutesKeepTheirAudience, ReadyIsAllowed
<1>4. KnownToolsWork' /\ RoutesKeepTheirAudience' /\ NothingOutOfReach' /\ StartsAsConfigured'
  BY <1>2, <1>3, <1>6 DEF KnownToolsWork, NothingOutOfReach, StartsAsConfigured
<1> QED BY <1>1, <1>2, <1>4, Answered

LEMMA CallJsonKeeps ==
  ASSUME AccessInv, NEW name \in Names, NEW valid \in BOOLEAN,
         NEW profile, NEW audience, CallJson(name, valid, profile, audience)
  PROVE  AccessInv'
<1> DEFINE p == IF profile = "none" THEN policy.profile ELSE profile
           a == IF audience = "none" THEN policy.audience ELSE audience
           outcome == prepare_tool_call_internal(name, valid, p, a)
<1>1. policy.surface = "agent" /\ policy.surface \in Surfaces \cup {"agent"}
      /\ policy' = policy /\ policy.surface # "discovery"
  BY DEF CallJson
<1>2. CASE p = policy.profile /\ a = policy.audience
  <2>1. /\ exchange' = [asked |-> "call", name |-> name, reply |-> outcome]
        /\ Learn(name, outcome)
    BY <1>2 DEF CallJson, Answer
  <2>2. outcome = prepare_tool_call_internal(name, valid, policy.profile, policy.audience)
    BY <1>2
  <2>7. outcome = "ready" => ReadyIsAllowed(policy.audience, name)
    BY <2>2, ReadyCalls
  <2> HIDE DEF outcome, p, a
  <2>3. /\ \A n \in known' : Usable(n)
        /\ outcome \in Refusals => name \notin known'
    BY <1>1, <2>1, <2>2, Learning
  <2>4. exchange'.asked = "call" /\ exchange'.name = name /\ exchange'.reply = outcome
    BY <2>1
  <2>6. RoutesKeepTheirAudience'
    BY <1>1, <2>4, <2>7 DEF RoutesKeepTheirAudience, ReadyIsAllowed
  <2>5. KnownToolsWork' /\ RoutesKeepTheirAudience' /\ NothingOutOfReach' /\ StartsAsConfigured'
    BY <2>3, <2>4, <2>6 DEF KnownToolsWork, NothingOutOfReach, StartsAsConfigured
  <2> QED BY <1>1, <2>3, <2>5, Answered
<1>3. CASE ~(p = policy.profile /\ a = policy.audience)
  <2>1. /\ exchange' = [asked |-> "call_as", name |-> name, reply |-> outcome,
                        audience |-> a]
        /\ known' = known
    BY <1>3 DEF CallJson
  <2>2. outcome = "ready" => ReadyIsAllowed(a, name)
    BY ReadyCalls
  <2> HIDE DEF outcome, p, a
  <2>5. /\ exchange'.asked = "call_as" /\ exchange'.name = name
        /\ exchange'.reply = outcome /\ exchange'.audience = a
    BY <2>1
  <2>6. RoutesKeepTheirAudience'
    BY <2>2, <2>5 DEF RoutesKeepTheirAudience, ReadyIsAllowed
  <2>3. KnownToolsWork' /\ RoutesKeepTheirAudience' /\ NothingOutOfReach' /\ StartsAsConfigured'
    BY <2>5, <2>6 DEF KnownToolsWork, NothingOutOfReach, StartsAsConfigured
  <2>4. \A n \in known' : Usable(n)
    BY <2>1 DEF AccessInv
  <2> QED BY <1>1, <2>3, <2>4, Answered
<1> QED BY <1>2, <1>3

-----------------------------------------------------------------------------
(* The listings and the search.                                             *)

(* What a policy permits is what Runnable has.                              *)
LEMMA RunnableIsPermitted ==
  Runnable = {t \in ToolNames : Permits(policy.profile, policy.audience, t)}
BY CallsAgree DEF Runnable

LEMMA PermittedIsUsable ==
  ASSUME NEW t \in ToolNames, Permits(policy.profile, policy.audience, t)
  PROVE  Usable(t)
BY RegistryAssumption DEF Usable

LEMMA AvailableKeeps == ASSUME AccessInv, AvailableTools PROVE AccessInv'
<1> DEFINE shown == {t \in tools_for_profile(policy.profile) : exposure[t] # "hidden"}
<1>1. /\ policy.surface \in Surfaces \cup {"agent"} /\ policy' = policy /\ known' = known
      /\ exchange' = [asked |-> "available", name |-> NoTool, reply |-> shown]
  BY DEF AvailableTools, Answer
<1>2. \A t \in shown : exposure[t] # "hidden"
  OBVIOUS
<1> HIDE DEF shown
<1>3. exchange'.asked = "available" /\ exchange'.reply = shown
  BY <1>1
<1>4. \A n \in known' : Usable(n)
  BY <1>1 DEF AccessInv
<1>5. RoutesKeepTheirAudience'
  BY <1>2, <1>3 DEF RoutesKeepTheirAudience
<1>6. KnownToolsWork' /\ NothingOutOfReach' /\ StartsAsConfigured'
  BY <1>3 DEF KnownToolsWork, NothingOutOfReach, StartsAsConfigured
<1> QED BY <1>1, <1>4, <1>5, <1>6, Answered

LEMMA ProfilesKeep == ASSUME AccessInv, ListProfiles PROVE AccessInv'
<1> DEFINE shown == UNION {tools_for_profile(p) : p \in PROFILE_NAMES}
<1>1. /\ policy.surface \in Surfaces \cup {"agent"} /\ policy' = policy /\ known' = known
      /\ exchange' = [asked |-> "profiles", name |-> NoTool, reply |-> shown]
  BY DEF ListProfiles, Answer, Serving
<1>2. \A t \in shown : exposure[t] # "hidden"
  BY NotHidden DEF tools_for_profile
<1> HIDE DEF shown
<1>3. exchange'.asked = "profiles" /\ exchange'.reply = shown
  BY <1>1
<1>4. \A n \in known' : Usable(n)
  BY <1>1 DEF AccessInv
<1>5. RoutesKeepTheirAudience'
  BY <1>2, <1>3 DEF RoutesKeepTheirAudience
<1>6. KnownToolsWork' /\ NothingOutOfReach' /\ StartsAsConfigured'
  BY <1>3 DEF KnownToolsWork, NothingOutOfReach, StartsAsConfigured
<1> QED BY <1>1, <1>4, <1>5, <1>6, Answered

LEMMA AvailableForKeeps ==
  ASSUME AccessInv, NEW audience \in Audiences, AvailableToolsFor(audience)
  PROVE  AccessInv'
<1> DEFINE shown == tools_for_profile_audience(policy.profile, audience)
<1>1. /\ policy.surface = "agent" /\ policy.surface \in Surfaces \cup {"agent"}
      /\ policy' = policy
  BY DEF AvailableToolsFor
<1>2. shown = {t \in ToolNames : Permits(policy.profile, audience, t)}
  BY ListingAgrees
<1>3. CASE audience = policy.audience
  <2>1. /\ known' = known \cup shown
        /\ exchange' = [asked |-> "list", name |-> NoTool, reply |-> shown, plain |-> TRUE]
    BY <1>3 DEF AvailableToolsFor
  <2> HIDE DEF shown
  <2>2. exchange'.asked = "list" /\ exchange'.reply = shown
    BY <2>1
  <2>3. \A n \in known' : Usable(n)
    BY <1>2, <1>3, <2>1, PermittedIsUsable DEF AccessInv
  <2>4. KnownToolsWork' /\ StartsAsConfigured'
    BY <2>2 DEF KnownToolsWork, StartsAsConfigured
  <2>5. RoutesKeepTheirAudience'
    BY <1>1, <1>2, <1>3, <2>2 DEF RoutesKeepTheirAudience, Permits
  <2>6. NothingOutOfReach'
    <3>1. Runnable' = Runnable
      BY <1>1 DEF Runnable
    <3>2. Runnable = shown
      BY <1>2, <1>3, RunnableIsPermitted
    <3> QED BY <1>1, <2>2, <3>1, <3>2 DEF NothingOutOfReach
  <2> QED BY <1>1, <2>3, <2>4, <2>5, <2>6, Answered
<1>4. CASE audience # policy.audience
  <2>1. /\ known' = known
        /\ exchange' = [asked |-> "list_for", name |-> NoTool, reply |-> shown,
                        audience |-> audience]
    BY <1>4 DEF AvailableToolsFor
  <2> HIDE DEF shown
  <2>2. /\ exchange'.asked = "list_for" /\ exchange'.reply = shown
        /\ exchange'.audience = audience
    BY <2>1
  <2>3. \A n \in known' : Usable(n)
    BY <2>1 DEF AccessInv
  <2>4. KnownToolsWork' /\ NothingOutOfReach' /\ StartsAsConfigured'
    BY <2>2 DEF KnownToolsWork, NothingOutOfReach, StartsAsConfigured
  <2>5. RoutesKeepTheirAudience'
    BY <1>2, <2>2 DEF RoutesKeepTheirAudience, Permits
  <2> QED BY <1>1, <2>3, <2>4, <2>5, Answered
<1> QED BY <1>3, <1>4

LEMMA HasToolKeeps ==
  ASSUME AccessInv, NEW name \in Names, HasTool(name)
  PROVE  AccessInv'
<1> DEFINE hit == has_tool(name, policy.profile, policy.audience)
<1>1. /\ policy.surface = "agent" /\ policy.surface \in Surfaces \cup {"agent"}
      /\ policy' = policy
      /\ exchange' = [asked |-> "has_tool", name |-> name, reply |-> hit]
      /\ known' = IF hit THEN known \cup {name} ELSE known
  BY DEF HasTool, Answer
<1>2. hit <=> name \in ToolNames /\ Permits(policy.profile, policy.audience, name)
  BY DEF has_tool, tools_for_profile, Permits
<1>3. \A n \in known : Usable(n)
  BY DEF AccessInv
<1> HIDE DEF hit
<1>4. exchange'.asked = "has_tool" /\ exchange'.name = name /\ exchange'.reply = hit
  BY <1>1
<1>5. \A n \in known' : Usable(n)
  BY <1>1, <1>2, <1>3, PermittedIsUsable
<1>6. ~hit => name \notin known'
  BY <1>1, <1>2, <1>3 DEF Usable
<1>7. KnownToolsWork' /\ RoutesKeepTheirAudience' /\ NothingOutOfReach' /\ StartsAsConfigured'
  BY <1>4, <1>6
  DEF KnownToolsWork, RoutesKeepTheirAudience, NothingOutOfReach, StartsAsConfigured
<1> QED BY <1>1, <1>5, <1>7, Answered

LEMMA SearchKeeps ==
  ASSUME AccessInv, NEW query \in Query, NEW deprecated \in BOOLEAN, NEW limit \in {1, 10},
         Search(query, deprecated, limit)
  PROVE  AccessInv'
<1> DEFINE specs == tools_for_profile_audience(policy.profile, policy.audience)
           hits  == search_filtered(specs, query, deprecated, limit)
<1>1. /\ policy.surface = "discovery" /\ policy.surface \in Surfaces \cup {"agent"}
      /\ policy' = policy /\ known' = known \cup hits \cup {TOOL_SEARCH}
      /\ exchange' = [asked |-> "search", name |-> query.named, reply |-> hits]
  BY DEF Search, Answer, Surfaces
<1>2. specs = {t \in ToolNames : Permits(policy.profile, policy.audience, t)}
  BY ListingAgrees
<1> HIDE DEF specs
<1>3. hits \subseteq specs
  BY DEF search_filtered
<1>4. query.named \in specs => query.named \in hits
  BY <1>2, NamedIsFound
<1> HIDE DEF hits
<1>5. /\ exchange'.asked = "search" /\ exchange'.reply = hits
      /\ exchange'.name = query.named
  BY <1>1
<1>6. \A n \in known' : Usable(n)
  <2>1. Usable(TOOL_SEARCH)
    BY <1>1, RegistryAssumption DEF Usable, Facades
  <2> QED BY <1>1, <1>2, <1>3, <2>1, PermittedIsUsable DEF AccessInv
<1>7. KnownToolsWork' /\ StartsAsConfigured'
  BY <1>5 DEF KnownToolsWork, StartsAsConfigured
<1>8. RoutesKeepTheirAudience'
  BY <1>1, <1>2, <1>3, <1>5 DEF RoutesKeepTheirAudience, Permits
<1>9. NothingOutOfReach'
  <2>1. Runnable' = specs
    BY <1>1, <1>2, RunnableIsPermitted DEF Runnable
  <2> QED BY <1>4, <1>5, <2>1 DEF NothingOutOfReach
<1> QED BY <1>1, <1>6, <1>7, <1>8, <1>9, Answered

LEMMA ListKeeps ==
  ASSUME AccessInv, NEW profile, NEW audience \in Choices, NEW names, NEW catalog,
         ListTools(profile, audience, names, catalog)
  PROVE  AccessInv'
<1> DEFINE used  == IF profile = "active" THEN policy.profile ELSE profile
           clamp == effective_audience(policy.audience, audience)
           shown == IF policy.surface = "discovery"
                    THEN discovery_definitions(used, clamp, names)
                    ELSE filtered_specs(used, clamp, names, catalog)
           plain == /\ profile = "active" /\ audience = "none"
                    /\ names = Names /\ catalog = ToolNames
<1>1. /\ policy.surface \in Surfaces /\ policy.surface \in Surfaces \cup {"agent"}
      /\ policy' = policy
  BY DEF ListTools, Serving
<1>2. policy.audience \in Audiences
  BY <1>1, PolicyIsSet DEF PolicyRecord
<1>3. CASE used \notin PROFILE_NAMES
  <2>1. exchange' = [asked |-> "list_error", name |-> NoTool, reply |-> {}] /\ known' = known
    BY <1>3 DEF ListTools, Answer
  <2>2. exchange'.asked = "list_error"
    BY <2>1
  <2>3. KnownToolsWork' /\ RoutesKeepTheirAudience' /\ NothingOutOfReach' /\ StartsAsConfigured'
    BY <2>2 DEF KnownToolsWork, RoutesKeepTheirAudience, NothingOutOfReach, StartsAsConfigured
  <2>4. \A n \in known' : Usable(n)
    BY <2>1 DEF AccessInv
  <2> QED BY <1>1, <2>3, <2>4, Answered
<1>4. CASE used \in PROFILE_NAMES
  <2>1. /\ exchange' = [asked |-> "list", name |-> NoTool, reply |-> shown, plain |-> plain]
        /\ known' = known \cup IF profile = "active" THEN shown ELSE {}
    BY <1>4 DEF ListTools
  <2>2. \A t \in ToolNames : Permits(used, clamp, t) => Permits(used, policy.audience, t)
    BY <1>2, NeverWider
  <2>3. tools_for_profile_audience(used, clamp) = {t \in ToolNames : Permits(used, clamp, t)}
    BY ListingAgrees
  <2>4. /\ \A t \in shown : \/ t \in ToolNames /\ Permits(used, clamp, t)
                            \/ t \in Facades /\ policy.surface = "discovery"
        /\ policy.surface = "discovery" /\ names = Names => Facades \subseteq shown
        /\ policy.surface # "discovery" /\ names = Names /\ catalog = ToolNames =>
             shown = {t \in ToolNames : Permits(used, clamp, t)}
    <3> HIDE DEF used, clamp
    <3> QED BY <2>3 DEF discovery_definitions, filtered_specs, Names
  <2>5. plain => used = policy.profile /\ clamp = policy.audience
    BY DEF effective_audience
  <2>6. profile = "active" => used = policy.profile
    OBVIOUS
  <2>7. plain => names = Names /\ catalog = ToolNames
    OBVIOUS
  <2> HIDE DEF used, clamp, shown, plain
  <2>8. exchange'.asked = "list" /\ exchange'.reply = shown /\ exchange'.plain = plain
    BY <2>1
  <2>9. \A n \in known' : Usable(n)
    <3>1. ASSUME NEW n \in shown, profile = "active"
          PROVE  Usable(n)
      <4>1. CASE n \in ToolNames /\ Permits(used, clamp, n)
        BY <2>2, <2>6, <3>1, <4>1, PermittedIsUsable
      <4>2. CASE n \in Facades /\ policy.surface = "discovery"
        BY <4>2, RegistryAssumption DEF Usable
      <4> QED BY <2>4, <4>1, <4>2
    <3> QED BY <2>1, <3>1 DEF AccessInv
  <2>10. KnownToolsWork' /\ StartsAsConfigured'
    BY <2>8 DEF KnownToolsWork, StartsAsConfigured
  <2>11. RoutesKeepTheirAudience'
    <3>1. \A t \in shown \cap ToolNames : CanExecuteExposure(policy.audience, exposure[t])
      BY <2>2, <2>4, RegistryAssumption DEF Permits
    <3> QED BY <1>1, <2>8, <3>1 DEF RoutesKeepTheirAudience
  <2>12. NothingOutOfReach'
    <3>1. Runnable' = {t \in ToolNames : Permits(policy.profile, policy.audience, t)}
      BY <1>1, RunnableIsPermitted DEF Runnable
    <3> QED BY <1>1, <2>4, <2>5, <2>7, <2>8, <3>1 DEF NothingOutOfReach
  <2> QED BY <1>1, <2>9, <2>10, <2>11, <2>12, Answered
<1> QED BY <1>3, <1>4

-----------------------------------------------------------------------------
(* The start.                                                               *)

LEMMA StartKeeps ==
  ASSUME AccessInv, NEW env \in Environment, NEW flag \in Flags, Start(env, flag)
  PROVE  AccessInv'
<1> DEFINE wrong == "wrong" \in {flag, env.profile, env.surface}
           set == [profile  |-> OrElse(env.profile, "full"),
                   audience |-> parse_audience(env.audience),
                   surface  |-> active_surface(env, flag)]
<1>1. /\ policy = Unset /\ known' = known /\ known = {}
      /\ exchange' = [asked |-> "start", env |-> env, flag |-> flag]
      /\ policy' = IF wrong THEN Exited ELSE set
  BY DEF Start, AccessInv
<1>2. /\ env.profile \in PROFILE_NAMES \cup {"absent", "wrong"}
      /\ env.audience \in Audiences \cup {"absent", "wrong"}
      /\ env.surface \in Surfaces \cup {"absent", "wrong"}
      /\ flag \in Surfaces \cup {"absent", "wrong"}
  BY DEF Environment, Flags
<1>3. ~wrong => /\ active_surface(env, flag) = OrElse(flag, OrElse(env.surface, "direct"))
                /\ active_surface(env, flag) \in Surfaces
  BY <1>2 DEF active_surface, OrElse, Surfaces
<1>4. ~wrong => set \in PolicyRecord
  BY <1>2, <1>3, RegistryAssumption
  DEF PolicyRecord, OrElse, parse_audience, Audiences, Surfaces
<1>5. ~wrong => set # Exited /\ set # Unset
  <2>1. ~wrong => set.surface \in Surfaces
    BY <1>3
  <2>2. Unset.surface = "unset" /\ Exited.surface = "exited" /\ Unset # Exited
    BY DEF Unset, Exited
  <2> QED BY <2>1, <2>2 DEF Surfaces
<1>6. /\ set.surface = active_surface(env, flag)
      /\ set.profile = OrElse(env.profile, "full")
      /\ set.audience = parse_audience(env.audience)
  OBVIOUS
<1>7. wrong <=> "wrong" \in {flag, env.surface, env.profile}
  OBVIOUS
<1> HIDE DEF wrong, set
<1>8. /\ exchange'.asked = "start" /\ exchange'.env = env /\ exchange'.flag = flag
  BY <1>1
<1>9. AccessTypeOK'
  BY <1>1, <1>4 DEF AccessTypeOK, PolicyRecord
<1>10. policy' # Unset
  BY <1>1, <1>5 DEF Unset, Exited
<1>11. KnownToolsWork' /\ RoutesKeepTheirAudience' /\ NothingOutOfReach'
  BY <1>8 DEF KnownToolsWork, RoutesKeepTheirAudience, NothingOutOfReach
<1>12. StartsAsConfigured'
  <2>1. policy' = Exited <=> wrong
    BY <1>1, <1>5
  <2>2. ~wrong => /\ policy'.surface = OrElse(flag, OrElse(env.surface, "direct"))
                  /\ policy'.profile = OrElse(env.profile, "full")
                  /\ policy'.audience = parse_audience(env.audience)
    BY <1>1, <1>3, <1>6
  <2>3. parse_audience(env.audience) =
          IF env.audience \in Audiences THEN env.audience ELSE "model"
    BY <1>2 DEF parse_audience, OrElse, Audiences
  <2> QED BY <1>7, <1>8, <2>1, <2>2, <2>3 DEF StartsAsConfigured, OrElse
<1> QED BY <1>1, <1>9, <1>10, <1>11, <1>12 DEF AccessInv

LEMMA NewRegistryKeeps ==
  ASSUME AccessInv, NEW p \in PROFILE_NAMES \cup {"custom"}, NEW a \in Audiences,
         NewRegistry(p, a)
  PROVE  AccessInv'
<1>1. /\ policy = Unset /\ known' = known /\ known = {} /\ exchange' = exchange
      /\ exchange = Quiet
      /\ policy' = [profile |-> p, audience |-> a, surface |-> "agent"]
  BY DEF NewRegistry, AccessInv
<1>2. policy' \in PolicyRecord /\ policy' # Unset
  <2>1. policy'.surface = "agent" /\ Unset.surface = "unset"
    BY <1>1 DEF Unset
  <2> QED BY <1>1, <2>1 DEF PolicyRecord
<1>3. exchange'.asked = "nothing"
  BY <1>1 DEF Quiet
<1>4. KnownToolsWork' /\ RoutesKeepTheirAudience' /\ NothingOutOfReach' /\ StartsAsConfigured'
  BY <1>3 DEF KnownToolsWork, RoutesKeepTheirAudience, NothingOutOfReach, StartsAsConfigured
<1>5. AccessTypeOK'
  BY <1>1, <1>2 DEF AccessTypeOK, PolicyRecord
<1> QED BY <1>1, <1>2, <1>4, <1>5 DEF AccessInv

-----------------------------------------------------------------------------
LEMMA InitAccess == AccessInit => AccessInv
<1> SUFFICES ASSUME AccessInit PROVE AccessInv
  OBVIOUS
<1>1. policy = Unset /\ known = {} /\ exchange = Quiet /\ exchange.asked = "nothing"
  BY DEF AccessInit, Quiet
<1>2. KnownToolsWork /\ RoutesKeepTheirAudience /\ NothingOutOfReach /\ StartsAsConfigured
  BY <1>1 DEF KnownToolsWork, RoutesKeepTheirAudience, NothingOutOfReach, StartsAsConfigured
<1> QED BY <1>1, <1>2 DEF AccessInv, AccessTypeOK

LEMMA StepAccess == AccessInv /\ [AccessNext]_access => AccessInv'
<1> SUFFICES ASSUME AccessInv, [AccessNext]_access PROVE AccessInv'
  OBVIOUS
<1>1. CASE UNCHANGED access
  <2>1. policy' = policy /\ known' = known /\ exchange' = exchange
    BY <1>1 DEF access
  <2>2. Runnable' = Runnable
    BY <2>1 DEF Runnable
  <2> QED BY <2>1, <2>2 DEF AccessInv, AccessTypeOK, Usable, KnownToolsWork,
             RoutesKeepTheirAudience, NothingOutOfReach, StartsAsConfigured
<1>2. CASE AccessNext
  <2>1. CASE policy = Unset /\ \E env \in Environment, flag \in Flags : Start(env, flag)
    BY <2>1, StartKeeps
  <2>2. CASE \E p \in PROFILE_NAMES \cup {"custom"}, a \in Audiences : NewRegistry(p, a)
    BY <2>2, NewRegistryKeeps
  <2>3. CASE \E p \in PROFILE_NAMES \cup {"active", "custom"}, a \in Choices,
                names \in Narrowings, catalog \in {ToolNames, Deprecated} :
               ListTools(p, a, names, catalog)
    BY <2>3, ListKeeps
  <2>4. CASE \E query \in Query, deprecated \in BOOLEAN, limit \in {1, 10} :
               Search(query, deprecated, limit)
    BY <2>4, SearchKeeps
  <2>5. CASE \E name \in Names, valid \in BOOLEAN :
               CallTool(name, valid) \/ InvokeTool(name, valid)
    BY <2>5, CallKeeps, InvokeKeeps
  <2>6. CASE AvailableTools
    BY <2>6, AvailableKeeps
  <2>9. CASE ListProfiles
    BY <2>9, ProfilesKeep
  <2>10. CASE \E a \in Audiences : AvailableToolsFor(a)
    BY <2>10, AvailableForKeeps
  <2>7. CASE \E name \in Names : HasTool(name)
    BY <2>7, HasToolKeeps
  <2>8. CASE \E name \in Names, valid \in BOOLEAN,
                p \in PROFILE_NAMES \cup {"none"}, a \in Choices : CallJson(name, valid, p, a)
    BY <2>8, CallJsonKeeps
  <2> QED BY <1>2, <2>1, <2>2, <2>3, <2>4, <2>5, <2>6, <2>7, <2>8,
             <2>9, <2>10 DEF AccessNext
<1> QED BY <1>1, <1>2

LEMMA AccessInvariant == AccessSpec => []AccessInv
BY InitAccess, StepAccess, PTL DEF AccessSpec

-----------------------------------------------------------------------------
(* A name a client was shown, or has used, is not refused for policy later. *)
THEOREM ShownToolsWork == AccessSpec => []KnownToolsWork
<1>1. AccessInv => KnownToolsWork
  BY DEF AccessInv
<1> QED BY <1>1, AccessInvariant, PTL

(* What the server lists, finds and runs keeps to the audience of the       *)
(* policy, whatever a request asks for; a library call keeps to the one it  *)
(* names; what the two listings that know no audience name is never hidden. *)
THEOREM RoutesKeepToTheirAudience == AccessSpec => []RoutesKeepTheirAudience
<1>1. AccessInv => RoutesKeepTheirAudience
  BY DEF AccessInv
<1> QED BY <1>1, AccessInvariant, PTL

(* Whatever can be run can be found.                                        *)
THEOREM EveryToolIsReached == AccessSpec => []NothingOutOfReach
<1>1. AccessInv => NothingOutOfReach
  BY DEF AccessInv
<1> QED BY <1>1, AccessInvariant, PTL

(* The server does not start with a surface or a profile it does not know;  *)
(* otherwise surface and profile are the ones given, or else the defaults,  *)
(* and the audience is the one given if it is known, or else the model's.   *)
THEOREM PolicyIsAsConfigured == AccessSpec => []StartsAsConfigured
<1>1. AccessInv => StartsAsConfigured
  BY DEF AccessInv
<1> QED BY <1>1, AccessInvariant, PTL
=============================================================================
