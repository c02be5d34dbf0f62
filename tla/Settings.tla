------------------------------ MODULE Settings ------------------------------
(***************************************************************************)
(* The model settings (api/byom.py, core/config/byom_config.py,            *)
(* core/config/model_resolver.py, core/config/embedding_resolver.py,       *)
(* core/config_generator.py).  One file holds what the user picked         *)
(* (endpoints, presets, the active preset) and what is derived from it     *)
(* (the target of every tier, the embedding target); config.yaml holds the *)
(* proxy's view; the resolvers cache the derived part.  Requests of        *)
(* several dashboard windows load and save the whole file in threads, with *)
(* awaits between; any of them may fail after its first save.              *)
(*                                                                         *)
(* Abstractions: one endpoint per provider, so that a provider names its   *)
(* endpoint; a model id is its provider prefix ("" for a bare cloud id)    *)
(* and a name; secrets are members of a small set, a masked one is "mask". *)
(***************************************************************************)
EXTENDS Naturals, Sequences, FiniteSets

CONSTANTS Requests,    \* request slots of the dashboard
          Bodies,      \* bodies a PUT may carry: [endpoints, presets, active, cache]
          Ladder,      \* the tiers, ascending
          Local,       \* providers served on this machine
          Embeds,      \* cloud providers with embeddings of their own
          EnvKeys,     \* providers with a key in the environment
          Architecture,\* context length of a local model
          Ceiling,     \* _NUM_CTX_HARD_CEILING
          Served,      \* _OLLAMA_DEFAULT_NUM_CTX
          Affordable,  \* windows the free memory may allow
          MaxRequests  \* requests (bound)

ASSUME SettingsAssumption ==
    {Architecture, Ceiling, Served} \cup Affordable \subseteq Nat

VARIABLES config,    \* byom_config.json
          yaml,      \* config.yaml: tier -> model
          engine,    \* models of the running local engine, {} when it is down
          req,       \* the requests in flight
          chatCache, \* model_resolver._cached, or <<>> when cleared
          embCache,  \* embedding_resolver._cached, or <<>> when cleared
          caps,      \* _caps_cache of the local model: "unasked", "unknown", "known"
          announced, \* the stream watchdog the clients were given: "", "local", "cloud"
          numCtx,    \* _num_ctx_cache of the local model, 0 for none
          disturbed, \* two writers overlapped, or an apply failed
          requests   \* requests so far
settingsVars == <<config, yaml, engine, req, chatCache, embCache, caps, announced,
                  numCtx, disturbed, requests>>

LadderTiers == {Ladder[i] : i \in 1..Len(Ladder)}
Unset == [prov |-> "none", name |-> ""]
NoTarget == [of |-> Unset, prov |-> "none", key |-> "", local |-> FALSE]
Absent == <<>>               \* what the body does not carry
Kept == "kept"               \* an active preset the body does not carry
NoRequest == [at |-> "idle", kind |-> "", body |-> <<>>, base |-> <<>>, merged |-> <<>>, pool |-> {}]

EmptyConfig == [keys |-> <<>>, presets |-> <<>>, active |-> "", chat |-> <<>>,
                embed |-> <<>>, cache |-> <<>>]

SettingsInit ==
    /\ config = EmptyConfig
    /\ yaml = <<>>
    /\ engine \in {{}, {"phi"}}
    /\ req = [r \in Requests |-> NoRequest]
    /\ chatCache = <<>> /\ embCache = <<>>
    /\ caps = "unasked" /\ numCtx = 0 /\ announced = ""
    /\ disturbed = FALSE
    /\ requests = 0

(***************************************************************************)
(* Merging a partial body.                                                 *)
(***************************************************************************)
IsMaskedKey(k) == k = "mask"

MergedKeys(old, new) ==
    [e \in DOMAIN new |-> IF IsMaskedKey(new[e]) /\ e \in DOMAIN old THEN old[e] ELSE new[e]]

(* Model lists the body carries replace those stored; lists of endpoints   *)
(* that are gone are dropped.                                              *)
MergedCache(old, new, keys) ==
    [e \in (DOMAIN old \cup DOMAIN new) \cap DOMAIN keys |->
        IF e \in DOMAIN new THEN new[e] ELSE old[e]]

MergePatch(old, body) ==
    LET keys == IF body.endpoints = Absent THEN old.keys ELSE MergedKeys(old.keys, body.endpoints)
    IN [old EXCEPT !.keys = keys,
                   !.presets = IF body.presets = Absent THEN old.presets ELSE body.presets,
                   !.active = IF body.active = Kept THEN old.active ELSE body.active,
                   !.cache = MergedCache(old.cache, body.cache, keys)]

(***************************************************************************)
(* The derived targets.                                                    *)
(***************************************************************************)
CloudEndpoints(keys) == DOMAIN keys \ Local

(* By prefix; a bare id belongs to the only cloud endpoint there is.       *)
ProviderOfModel(m, keys) ==
    IF m.prov # "" THEN m.prov
    ELSE IF Cardinality(CloudEndpoints(keys)) = 1 THEN CHOOSE e \in CloudEndpoints(keys) : TRUE
    ELSE "none"

ProviderKey(p, keys) ==
    IF p \in DOMAIN keys /\ keys[p] # "" THEN keys[p] ELSE IF p \in EnvKeys THEN "env" ELSE ""

BuildChatTarget(m, keys) ==
    LET p == IF ProviderOfModel(m, keys) = "none" THEN "openai" ELSE ProviderOfModel(m, keys)
    IN [of |-> m, prov |-> p, key |-> ProviderKey(p, keys), local |-> p \in Local]

Assigned(tiers) == {t \in DOMAIN tiers : tiers[t] # Unset}
ChatModels(tiers, keys) == [t \in Assigned(tiers) |-> BuildChatTarget(tiers[t], keys)]

(* A provider without embeddings falls back to OpenAI's, then to the local *)
(* engine, then to none.                                                   *)
BuildEmbeddingTarget(p, keys, hasLocal) ==
    CASE p \in Local -> [prov |-> p, key |-> ""]
      [] p \in Embeds /\ ProviderKey(p, keys) # "" -> [prov |-> p, key |-> ProviderKey(p, keys)]
      [] p \notin Local /\ (p \notin Embeds \/ ProviderKey(p, keys) = "") ->
            IF "openai" \in EnvKeys THEN [prov |-> "openai", key |-> "env"]
            ELSE IF hasLocal THEN [prov |-> "ollama", key |-> ""] ELSE [prov |-> "none", key |-> ""]

(* Local providers first.                                                  *)
DeriveEmbeddingTarget(tiers, keys, pool) ==
    LET used == {ProviderOfModel(tiers[t], keys) : t \in Assigned(tiers)} \ {"none"}
        hasLocal == \E m \in pool : m.prov = "ollama"
        chosen == IF used = {} THEN (IF hasLocal THEN "ollama" ELSE "openai")
                  ELSE IF used \cap Local # {} THEN CHOOSE p \in used \cap Local : TRUE
                  ELSE CHOOSE p \in used : TRUE
    IN BuildEmbeddingTarget(chosen, keys, hasLocal)

(* Editable examples drawn from the models there are.                      *)
BuiltinPresets(pool) ==
    LET best == IF \E m \in pool : m.prov = "ollama" THEN CHOOSE m \in pool : m.prov = "ollama" ELSE Unset
        cloud == IF \E m \in pool : m.prov # "ollama" THEN CHOOSE m \in pool : m.prov # "ollama" ELSE Unset
    IN [id \in {"local", "cloud"} |-> [t \in LadderTiers |-> IF id = "local" THEN best ELSE cloud]]

ProbeOllama == {[prov |-> "ollama", name |-> n] : n \in engine}

(* The pool: what the engine serves and what testing an endpoint imported. *)
DiscoverModels(cfg) ==
    ProbeOllama \cup UNION {cfg.cache[e] : e \in DOMAIN cfg.cache}

(* Mutant: only an explicit activation applies. *)
NeverChanged(old, new) == FALSE
(* The save edited the tiers of the active preset.                         *)
ActivePresetTiersChanged(old, new) ==
    /\ new.active # "" /\ new.active \in DOMAIN new.presets
    /\ new.active \in DOMAIN old.presets => old.presets[new.active] # new.presets[new.active]

(* Aliases the preset leaves unset keep their entry.                       *)
WriteConfigWithOverrides(tiers) ==
    [t \in DOMAIN yaml \cup Assigned(tiers) |-> IF t \in Assigned(tiers) THEN tiers[t] ELSE yaml[t]]

(***************************************************************************)
(* The requests.                                                           *)
(***************************************************************************)
RequestGoes(r, s) == req' = [req EXCEPT ![r] = s]
Writing(s) == s.at \in {"save", "apply", "derive", "store"}
Overlaps(r) == \E s \in Requests \ {r} : Writing(req[s])

PutConfig(r) == \E b \in Bodies :
    /\ req[r].at = "idle" /\ requests < MaxRequests
    /\ RequestGoes(r, [NoRequest EXCEPT !.at = "load", !.kind = "put", !.body = b])
    /\ requests' = requests + 1
    /\ UNCHANGED <<announced, config, yaml, engine, chatCache, embCache, caps, numCtx, disturbed>>

(* The probe of an endpoint answers with its models, or fails.             *)
TestConnection(r) == \E e \in DOMAIN config.keys, ok \in BOOLEAN :
    /\ req[r].at = "idle" /\ requests < MaxRequests
    /\ RequestGoes(r, IF ok THEN [NoRequest EXCEPT !.at = "load", !.kind = "test", !.body = e] ELSE NoRequest)
    /\ requests' = requests + 1
    /\ UNCHANGED <<announced, config, yaml, engine, chatCache, embCache, caps, numCtx, disturbed>>

LoadByomConfig(r) ==
    /\ req[r].at = "load"
    /\ RequestGoes(r, [req[r] EXCEPT !.at = "save", !.base = config])
    /\ disturbed' = (disturbed \/ Overlaps(r))
    /\ UNCHANGED <<announced, config, yaml, engine, chatCache, embCache, caps, numCtx, requests>>

Imported(cfg, e) ==
    IF e \notin DOMAIN cfg.keys THEN cfg
    ELSE [cfg EXCEPT !.cache = [d \in DOMAIN cfg.cache \cup {e} |->
                                   IF d = e THEN {[prov |-> e, name |-> "chat"]} ELSE cfg.cache[d]]]

NeedsApply(old, new, body) ==
    new.active # "" /\ (body.active # Kept \/ ActivePresetTiersChanged(old, new))

(* The first save of a PUT, the only one of a test.                        *)
SaveByomConfig(r) ==
    LET q == req[r]
        new == IF q.kind = "put" THEN MergePatch(q.base, q.body) ELSE Imported(q.base, q.body)
    IN /\ q.at = "save"
       /\ config' = new
       /\ RequestGoes(r, IF q.kind = "put" /\ NeedsApply(q.base, new, q.body)
                   THEN [q EXCEPT !.at = "apply", !.merged = new, !.pool = DiscoverModels(new)]
                   ELSE NoRequest)
       /\ UNCHANGED <<announced, yaml, engine, chatCache, embCache, caps, numCtx, disturbed, requests>>

(* The built-in presets and, over them, the user's own.                    *)
AllPresets(q) ==
    [id \in {"local", "cloud"} \cup DOMAIN q.merged.presets |->
        IF id \in DOMAIN q.merged.presets THEN q.merged.presets[id] ELSE BuiltinPresets(q.pool)[id]]
Named(q) == q.merged.active \in DOMAIN AllPresets(q)
ActiveTiers(q) == AllPresets(q)[q.merged.active]

(* An active id that names no preset is left alone.  Writing the file may  *)
(* fail, and with it the request.                                          *)
ApplyPreset(r) ==
    /\ req[r].at = "apply"
    /\ \/ /\ Named(req[r])
          /\ yaml' = WriteConfigWithOverrides(ActiveTiers(req[r]))
          /\ RequestGoes(r, [req[r] EXCEPT !.at = "derive"]) /\ UNCHANGED disturbed
       \/ ~Named(req[r]) /\ RequestGoes(r, NoRequest) /\ UNCHANGED <<yaml, disturbed>>
       \/ /\ Named(req[r])
          /\ disturbed' = TRUE /\ RequestGoes(r, NoRequest) /\ UNCHANGED yaml
    /\ UNCHANGED <<announced, config, engine, chatCache, embCache, caps, numCtx, requests>>

(* The second save: the derived targets, on the config of the first.       *)
StoreTargets(r) ==
    LET q == req[r]
    IN /\ q.at = "derive"
       /\ config' = [q.merged EXCEPT
              !.embed = DeriveEmbeddingTarget(ActiveTiers(q), q.merged.keys, q.pool),
              !.chat = ChatModels(ActiveTiers(q), q.merged.keys)]
       /\ RequestGoes(r, [q EXCEPT !.at = "store"])
       /\ UNCHANGED <<announced, yaml, engine, chatCache, embCache, caps, numCtx, disturbed, requests>>

(* Patience with a stream: the big tier, else the medium one, governs.     *)
Watchdog(chat) ==
    LET slow == IF "big" \in DOMAIN chat THEN chat["big"].local
                ELSE IF "medium" \in DOMAIN chat THEN chat["medium"].local ELSE EnvKeys = {}
    IN IF slow THEN "local" ELSE "cloud"

(* Both resolvers forget; the applied preset and its patience are announced. *)
RefreshResolvers(r) ==
    /\ req[r].at = "store" /\ RequestGoes(r, NoRequest)
    /\ chatCache' = <<>> /\ embCache' = <<>> /\ caps' = "unasked" /\ numCtx' = 0
    /\ announced' = Watchdog(config.chat)
    /\ UNCHANGED <<config, yaml, engine, disturbed, requests>>

(***************************************************************************)
(* The readers.                                                            *)
(***************************************************************************)
(* Nearest configured tier, ties to the higher one.                        *)
Position(t) == CHOOSE i \in 1..Len(Ladder) : Ladder[i] = t
Distance(s, t) == LET a == Position(s) b == Position(t) IN IF a > b THEN a - b ELSE b - a
Nearest(t, have) == CHOOSE s \in have :
    \A u \in have : Distance(s, t) < Distance(u, t)
                      \/ (Distance(s, t) = Distance(u, t) /\ Position(s) >= Position(u))
LoadTargets == IF chatCache = <<>> THEN config.chat ELSE chatCache
GetChatTarget(t) ==
    IF DOMAIN LoadTargets = {} THEN NoTarget ELSE LoadTargets[Nearest(t, DOMAIN LoadTargets)]

(* A turn or a ping resolves a tier, and the cache fills.                  *)
PingModel ==
    /\ \E t \in LadderTiers : GetChatTarget(t) # NoTarget
    /\ chatCache = <<>> /\ chatCache' = config.chat
    /\ UNCHANGED <<announced, config, yaml, engine, req, embCache, caps, numCtx, disturbed, requests>>

(* So does the indexer with the embedding target.                          *)
GetEmbeddingTarget ==
    /\ embCache = <<>> /\ config.embed # <<>>
    /\ embCache' = config.embed
    /\ UNCHANGED <<announced, config, yaml, engine, req, chatCache, caps, numCtx, disturbed, requests>>

(* What the engine may report.                                             *)
ProbeOllamaShow == IF engine = {} THEN {"unknown"} ELSE {"known", "unknown"}

(* Asked once for each model; a fault is remembered like an answer.        *)
ProbeRuntimeCapabilities ==
    /\ \E t \in LadderTiers : GetChatTarget(t).local
    /\ caps = "unasked"
    /\ caps' \in ProbeOllamaShow
    /\ UNCHANGED <<announced, config, yaml, engine, req, chatCache, embCache, numCtx, disturbed, requests>>

Least(S) == CHOOSE x \in S : \A y \in S : x <= y
Greatest(S) == CHOOSE x \in S : \A y \in S : x >= y

(* The architecture, the hard ceiling and the free memory.                 *)
Affords(ram) == Least({Architecture, Ceiling, ram})

Window(need, ram) ==
    IF numCtx >= need THEN numCtx
    ELSE Greatest({Served, numCtx, Least({need, Affords(ram)})})

(* A call sizes the window it needs; the lock makes the step atomic.       *)
ResolveNumCtx == \E need \in {Served, Ceiling}, ram \in Affordable :
    /\ \E t \in LadderTiers : GetChatTarget(t).local
    /\ caps = "known"
    /\ numCtx' = Window(need, ram) /\ numCtx' # numCtx
    /\ UNCHANGED <<announced, config, yaml, engine, req, chatCache, embCache, caps, disturbed, requests>>

SettingsNext ==
    \/ \E r \in Requests : PutConfig(r) \/ TestConnection(r) \/ LoadByomConfig(r) \/ SaveByomConfig(r)
                             \/ ApplyPreset(r) \/ StoreTargets(r) \/ RefreshResolvers(r)
    \/ PingModel \/ GetEmbeddingTarget \/ ProbeRuntimeCapabilities \/ ResolveNumCtx

SettingsSpec == SettingsInit /\ [][SettingsNext]_settingsVars

(***************************************************************************)
(* Properties.                                                             *)
(***************************************************************************)
Quiet == \A r \in Requests : ~Writing(req[r])
Chosen == config.active # "" /\ config.active \in DOMAIN config.presets
Follows ==
    LET tiers == config.presets[config.active]
    IN /\ DOMAIN config.chat = Assigned(tiers)
       /\ \A t \in Assigned(tiers) : config.chat[t].of = tiers[t]
       /\ chatCache \in {<<>>, config.chat} /\ embCache \in {<<>>, config.embed}
       /\ announced = Watchdog(config.chat)

(* The window served for a local model only grows until a preset is        *)
(* applied, so that the engine is not reloaded back and forth, whatever    *)
(* the free memory does between two calls (model_resolver.py:449).         *)
WindowOnlyGrows == numCtx' >= numCtx \/ numCtx' = 0

(* Once the writes of the dashboard have ended, and none overlapped or     *)
(* failed half-way, every call path uses the models of the active preset   *)
(* as the user last edited it, and the clients have its patience: neither  *)
(* an edit of the active preset nor a cached target strands the engine on  *)
(* the previous model (byom.py:749).  The window only grows.  A target     *)
(* keeps the key it was built with: a key alone edited reaches the targets *)
(* with the next apply (byom.py:742), and the property does not compare    *)
(* keys.                                                                   *)
EngineFollowsTheChoice ==
    /\ [](Quiet /\ ~disturbed /\ Chosen => Follows)
    /\ [][WindowOnlyGrows]_settingsVars
=============================================================================
