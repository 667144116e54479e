---------------------------- MODULE LlmProvider ----------------------------
(***************************************************************************)
(* The access to language models in packages/api-core: llm/llm-provider.ts *)
(* with its cache of provider rows and its circuit breaker, both in the    *)
(* memory of one process of the API, and the requests of                   *)
(* routes/llm-config-routes.ts that change the rows and the system         *)
(* prompts, one statement at a time.  Several processes serve (the         *)
(* --max-instances of scripts/setup-cloudrun.sh), any of them any call.    *)
(*                                                                         *)
(* One use case has a provider assigned to it, maybe; a completion that    *)
(* finds none takes the default.  The retries of resilientFetch are one    *)
(* step, which succeeds or fails.  All providers are on one host.          *)
(***************************************************************************)
EXTENDS Naturals, Sequences, FiniteSets

CONSTANTS
  Providers,     \* BOUND: rows of llm_provider_config
  EnvConfig,     \* the provider that environment variables describe
  HasEnv,        \* is there one?
  NoConfig,
  Instances,     \* BOUND: processes of the API
  NoInstance,
  Completions,   \* BOUND: calls of llmComplete
  AdminCalls,    \* BOUND: requests of administrators
  FieldChoices,  \* BOUND: what they ask for
  Threshold      \* CB_THRESHOLD

ASSUME LlmAssumption ==
  /\ EnvConfig \notin Providers /\ NoConfig \notin Providers \cup {EnvConfig}
  /\ HasEnv \in BOOLEAN /\ Threshold \in Nat \ {0} /\ NoInstance \notin Instances

VARIABLES
  provider,      \* rows of llm_provider_config
  prompts,       \* rows of llm_system_prompt, by version: is it active?
  cachedConfig,  \* cachedConfig and useCaseCache of each instance
  circuit,       \* circuitState of each instance
  completion,    \* the locals of llmComplete
  adminCall      \* the locals of the requests

llmVars == <<provider, prompts, cachedConfig, circuit, completion, adminCall>>

-----------------------------------------------------------------------------
ConfigKeys == {"useCase", "default"}

\* setBy is history: the request that made the row the default.
NoProviderRow == [here |-> FALSE, active |-> FALSE, default |-> FALSE, assigned |-> FALSE,
                  setBy |-> {}]
Defaults == {p \in Providers : provider[p].default}
\* The WHERE of loadConfigForUseCase and loadDefaultConfig.
Serves(p, key) ==
  provider[p].here /\ provider[p].active
    /\ IF key = "default" THEN provider[p].default ELSE provider[p].assigned
Serving(key) == {p \in Providers : Serves(p, key)}

\* late, blind and missed are history: the caches were cleared after the SELECT, it failed,
\* and these requests have changed the table since.
NotCached == [config |-> NoConfig, fresh |-> FALSE, late |-> FALSE, blind |-> FALSE, missed |-> {}]

NotCompleting == [pc |-> "idle", at |-> NoInstance, key |-> "default", config |-> NoConfig,
                  late |-> FALSE, blind |-> FALSE, missed |-> {}]
CompletionAt(c, pc) == completion[c].pc = pc

\* What a request asks for: default is set, cleared or left alone.
Fields == [default : {"set", "clear", "keep"}, active : BOOLEAN, assigned : BOOLEAN]
ASSUME FieldAssumption == FieldChoices \subseteq Fields
NoFields == [default |-> "keep", active |-> TRUE, assigned |-> FALSE]
\* beside is history: the requests that were under way at some time during this one.
NotAdmin == [pc |-> "idle", at |-> NoInstance, kind |-> "none", target |-> NoConfig, fields |-> NoFields,
             beside |-> {}]
AdminSteps == {"unset", "write", "invalidate", "deactivate", "insert"}
AdminUnderWay == {a \in AdminCalls : adminCall[a].pc \in AdminSteps}
AdminAt(a, pc) == adminCall[a].pc = pc
AdminGoes(a, pc) == adminCall' = [adminCall EXCEPT ![a].pc = pc]

-----------------------------------------------------------------------------
(* The circuit breaker.                                                    *)

\* inARow is history: the calls that have failed since one succeeded or the cool-down ended.
NoFailures == [failures |-> 0, cooling |-> FALSE, inARow |-> 0]

\* Any look but one at an open or a cooling circuit forgets the failures: before the first
\* opening openUntil is 0.
Forgotten(s) == IF s.cooling THEN s ELSE [s EXCEPT !.failures = 0]
IsCircuitOpen(i) == circuit[i].failures >= Threshold /\ circuit[i].cooling

AfterFailure(s) == [failures |-> s.failures + 1, inARow |-> s.inARow + 1,
                    cooling |-> s.cooling \/ s.failures + 1 >= Threshold]
RecordFailure(i) == circuit' = [circuit EXCEPT ![i] = AfterFailure(@)]
RecordSuccess(i) == circuit' = [circuit EXCEPT ![i].failures = 0, ![i].inARow = 0]

CooldownEnds(i) ==
  /\ circuit[i].cooling
  /\ circuit' = [circuit EXCEPT ![i].cooling = FALSE, ![i].inARow = 0]
  /\ UNCHANGED <<provider, prompts, cachedConfig, completion, adminCall>>

-----------------------------------------------------------------------------
(* llmComplete, and llmEmbed.                                              *)

\* With a config in hand: the look at the circuit and the end, or the fetch.
Looks(c, i, config) ==
  IF config = NoConfig \/ IsCircuitOpen(i)
  THEN /\ completion' = [completion EXCEPT ![c] = [NotCompleting EXCEPT !.pc = "done"]]
       /\ UNCHANGED circuit
  ELSE /\ completion' = [completion EXCEPT ![c] = [NotCompleting EXCEPT !.pc = "fetch", !.at = i]]
       /\ circuit' = [circuit EXCEPT ![i] = Forgotten(@)]

\* Takes the config from the cache or goes to the table.
LooksUp(c, i, key, cache) ==
  IF cache[key].fresh THEN Looks(c, i, cache[key].config)
  ELSE /\ completion' = [completion EXCEPT ![c] =
            [NotCompleting EXCEPT !.pc = "select", !.at = i, !.key = key]]
       /\ UNCHANGED circuit

Complete(c) ==
  /\ CompletionAt(c, "idle")
  /\ \E i \in Instances, key \in ConfigKeys : LooksUp(c, i, key, cachedConfig[i])
  /\ UNCHANGED <<provider, prompts, cachedConfig, adminCall>>

\* A SELECT that fails finds nothing.
SelectConfig(c) ==
  LET key == completion[c].key
      found == IF Serving(key) = {} THEN {NoConfig} ELSE Serving(key)
  IN /\ CompletionAt(c, "select")
     /\ \/ \E p \in found : completion' =
             [completion EXCEPT ![c].pc = "selected", ![c].config = p]
        \/ completion' = [completion EXCEPT ![c].pc = "selected", ![c].blind = TRUE]
     /\ UNCHANGED <<provider, prompts, cachedConfig, circuit, adminCall>>

\* The code after the SELECT: what was found is cached, and so is the configuration of
\* the environment where there is no default.
KeepConfig(c) ==
  LET key == completion[c].key
      i == completion[c].at
      config == IF completion[c].config = NoConfig /\ key = "default" /\ HasEnv
                THEN EnvConfig ELSE completion[c].config
      kept == IF config = NoConfig THEN cachedConfig[i]
              ELSE [cachedConfig[i] EXCEPT ![key] =
                     [config |-> config, fresh |-> TRUE, late |-> completion[c].late,
                      blind |-> completion[c].blind, missed |-> completion[c].missed]]
  IN /\ CompletionAt(c, "selected") /\ cachedConfig' = [cachedConfig EXCEPT ![i] = kept]
     /\ IF config = NoConfig /\ key = "useCase" THEN LooksUp(c, i, "default", kept)
                                                ELSE Looks(c, i, config)
     /\ UNCHANGED <<provider, prompts, adminCall>>

FetchEnds(c) ==
  /\ CompletionAt(c, "fetch")
  /\ RecordFailure(completion[c].at) \/ RecordSuccess(completion[c].at)
  /\ completion' = [completion EXCEPT ![c] = [NotCompleting EXCEPT !.pc = "done"]]
  /\ UNCHANGED <<provider, prompts, cachedConfig, adminCall>>

\* CACHE_TTL_MS has passed.
ConfigExpires(i, key) ==
  /\ cachedConfig[i][key].fresh
  /\ cachedConfig' = [cachedConfig EXCEPT ![i][key] = NotCached]
  /\ UNCHANGED <<provider, prompts, circuit, completion, adminCall>>

-----------------------------------------------------------------------------
(* The requests of administrators.                                         *)

AdminBegins(a, kind, target, fields, pc) ==
  /\ AdminAt(a, "idle")
  /\ \E i \in Instances : adminCall' = [b \in AdminCalls |->
       IF b = a THEN [pc |-> pc, at |-> i, kind |-> kind, target |-> target, fields |-> fields,
                      beside |-> AdminUnderWay]
       ELSE IF b \in AdminUnderWay THEN [adminCall[b] EXCEPT !.beside = @ \cup {a}]
       ELSE adminCall[b]]
  /\ UNCHANGED <<provider, prompts, cachedConfig, circuit, completion>>

\* POST inserts a row and PATCH changes one, which may not exist.
ChangeProvider(a, kind, target, fields) ==
  /\ kind = "post" => target = NoConfig
  /\ AdminBegins(a, kind, target, fields, IF fields.default = "set" THEN "unset" ELSE "write")
ChangePrompt(a) == AdminBegins(a, "prompt", NoConfig, NoFields, "deactivate")

\* Leaves the other default alone.
UnsetNothing(a) == AdminAt(a, "unset") /\ AdminGoes(a, "write") /\
  UNCHANGED <<provider, prompts, cachedConfig, circuit, completion>>
\* The history of a statement that changes the table.
TableChanges(a) ==
  /\ cachedConfig' = [i \in Instances |-> [key \in ConfigKeys |->
       [cachedConfig[i][key] EXCEPT !.missed = IF cachedConfig[i][key].fresh THEN @ \cup {a} ELSE @]]]
  /\ completion' = [c \in Completions |->
       [completion[c] EXCEPT !.missed = IF CompletionAt(c, "selected") THEN @ \cup {a} ELSE @]]
UnsetDefault(a) ==
  /\ AdminAt(a, "unset") /\ AdminGoes(a, "write")
  /\ provider' = [p \in Providers |-> [provider[p] EXCEPT !.default = FALSE, !.setBy = {}]]
  /\ TableChanges(a) /\ UNCHANGED <<prompts, circuit>>

Written(a, row) ==
  LET f == adminCall[a].fields
  IN [here |-> TRUE, active |-> f.active, assigned |-> f.assigned,
      default |-> f.default = "set" \/ (f.default = "keep" /\ row.default),
      setBy |-> IF f.default = "set" THEN {a} ELSE IF f.default = "keep" THEN row.setBy ELSE {}]

WriteProvider(a) ==
  /\ AdminAt(a, "write")
  /\ \E p \in Providers :
       /\ IF adminCall[a].kind = "post" THEN ~provider[p].here ELSE p = adminCall[a].target
       /\ provider' = [provider EXCEPT ![p] = Written(a, @)]
  /\ AdminGoes(a, "invalidate") /\ TableChanges(a)
  /\ UNCHANGED <<prompts, circuit>>

\* 404, when the default has been unset.
ProviderNotFound(a) ==
  /\ AdminAt(a, "write") /\ adminCall[a].kind = "patch" /\ adminCall[a].target = NoConfig
  /\ AdminGoes(a, "failed")
  /\ UNCHANGED <<provider, prompts, cachedConfig, circuit, completion>>

\* One of the two caches is forgotten.
ClearedUseCasesOnly(i) == [cachedConfig[i] EXCEPT !["useCase"] = NotCached]
ClearedDefaultOnly(i) == [cachedConfig[i] EXCEPT !["default"] = NotCached]
ClearedConfigs(i) == [key \in ConfigKeys |-> NotCached]
\* Of the instance that handles the request.
InvalidateProviderCache(a) ==
  /\ AdminAt(a, "invalidate") /\ AdminGoes(a, "done")
  /\ cachedConfig' = [cachedConfig EXCEPT ![adminCall[a].at] = ClearedConfigs(adminCall[a].at)]
  /\ completion' = [c \in Completions |->
       IF CompletionAt(c, "selected") /\ completion[c].at = adminCall[a].at
       THEN [completion[c] EXCEPT !.late = TRUE] ELSE completion[c]]
  /\ UNCHANGED <<provider, prompts, circuit>>

\* Inserts, then deactivates what there is.
DeactivateLast(a) ==
  /\ AdminAt(a, "deactivate") /\ AdminGoes(a, "done")
  /\ prompts' = [v \in 1 .. Len(prompts) + 1 |-> FALSE]
  /\ UNCHANGED <<provider, cachedConfig, circuit, completion>>
DeactivatePrompts(a) ==
  /\ AdminAt(a, "deactivate") /\ AdminGoes(a, "insert")
  /\ prompts' = [v \in DOMAIN prompts |-> FALSE]
  /\ UNCHANGED <<provider, cachedConfig, circuit, completion>>
InsertPrompt(a) ==
  /\ AdminAt(a, "insert") /\ AdminGoes(a, "done")
  /\ prompts' = Append(prompts, TRUE)
  /\ UNCHANGED <<provider, cachedConfig, circuit, completion>>

AdminFails(a) ==
  /\ adminCall[a].pc \in AdminSteps \ {"invalidate"} /\ AdminGoes(a, "failed")
  /\ UNCHANGED <<provider, prompts, cachedConfig, circuit, completion>>

LlmInit ==
  /\ \E here \in SUBSET Providers : \E default \in here, assigned \in SUBSET here :
       provider = [p \in Providers |->
         [NoProviderRow EXCEPT !.here = p \in here, !.active = p \in here,
                               !.default = p = default, !.assigned = p \in assigned]]
  /\ prompts = <<>>
  /\ cachedConfig = [i \in Instances |-> [key \in ConfigKeys |-> NotCached]]
  /\ circuit = [i \in Instances |-> NoFailures]
  /\ completion = [c \in Completions |-> NotCompleting]
  /\ adminCall = [a \in AdminCalls |-> NotAdmin]

LlmNext ==
  \/ \E c \in Completions : Complete(c) \/ SelectConfig(c) \/ KeepConfig(c) \/ FetchEnds(c)
  \/ \E i \in Instances :
       CooldownEnds(i) \/ \E key \in ConfigKeys : ConfigExpires(i, key)
  \/ \E a \in AdminCalls :
       \/ \E kind \in {"post", "patch"}, fields \in FieldChoices :
          \E target \in {NoConfig} \cup {p \in Providers : provider[p].here} :
            ChangeProvider(a, kind, target, fields)
       \/ ChangePrompt(a) \/ UnsetDefault(a) \/ WriteProvider(a) \/ ProviderNotFound(a)
       \/ InvalidateProviderCache(a) \/ DeactivatePrompts(a) \/ InsertPrompt(a) \/ AdminFails(a)

LlmSpec == LlmInit /\ [][LlmNext]_llmVars

-----------------------------------------------------------------------------
(* Properties.                                                             *)

\* Types of the variables.
LlmTypeOK ==
  /\ provider \in [Providers -> [here : BOOLEAN, active : BOOLEAN, default : BOOLEAN,
                                 assigned : BOOLEAN, setBy : SUBSET AdminCalls]]
  /\ prompts \in Seq(BOOLEAN)
  /\ cachedConfig \in [Instances -> [ConfigKeys ->
       [config : Providers \cup {EnvConfig, NoConfig}, fresh : BOOLEAN, late : BOOLEAN,
        blind : BOOLEAN, missed : SUBSET AdminCalls]]]
  /\ circuit \in [Instances -> [failures : Nat, cooling : BOOLEAN, inARow : Nat]]
  /\ completion \in [Completions ->
       [pc : {"idle", "select", "selected", "fetch", "done"}, at : Instances \cup {NoInstance},
        key : ConfigKeys, config : Providers \cup {EnvConfig, NoConfig}, late : BOOLEAN,
        blind : BOOLEAN, missed : SUBSET AdminCalls]]
  /\ \A c \in Completions :
       completion[c].pc \notin {"idle", "done"} => completion[c].at \in Instances
  /\ adminCall \in [AdminCalls ->
       [pc : AdminSteps \cup {"idle", "done", "failed"}, at : Instances \cup {NoInstance}, kind : {"none", "post", "patch", "prompt"},
        target : Providers \cup {NoConfig}, fields : Fields, beside : SUBSET AdminCalls]]

\* Two rows are the default only through requests that overlapped, and none is only through
\* a request that cleared it or never got past the unset (two statements each,
\* llm-config-routes.ts:101-105, 169-172).
DefaultsAreAccountedFor ==
  /\ \A p, q \in Defaults : p # q =>
       \E a \in provider[p].setBy, b \in provider[q].setBy : a \in adminCall[b].beside
  /\ Defaults = {} =>
       \E a \in AdminCalls :
         \/ adminCall[a].fields.default = "set" /\ adminCall[a].pc \in {"write", "failed"}
         \/ adminCall[a].fields.default = "clear" /\ adminCall[a].pc \in {"invalidate", "done"}

\* A provider that an instance has cached is one that the table names now, unless a request
\* has changed the table since it was read which another instance handled, or which has not
\* come to clear the caches (yet, or ever), or which did so while the SELECT was under way;
\* or the SELECT failed (invalidateProviderCache).
CachedConfigIsCurrent ==
  \A i \in Instances, key \in ConfigKeys :
    LET cached == cachedConfig[i][key]
    IN cached.fresh /\ ~cached.blind =>
         \/ cached.config \in Serving(key)
         \/ cached.config = EnvConfig /\ Serving(key) = {}
         \/ \E a \in cached.missed :
              adminCall[a].at # i \/ adminCall[a].pc # "done" \/ cached.late

\* The newest system prompt is the active one, unless a request has deactivated the
\* prompts and not inserted its own, or never will.
NewestPromptIsActive ==
  prompts # <<>> /\ ~prompts[Len(prompts)] =>
    \E a \in AdminCalls : adminCall[a].kind = "prompt" /\ adminCall[a].pc \in {"insert", "failed"}

\* The circuit opens on sustained failures: it is open once as many calls of an instance as
\* CB_THRESHOLD have failed with no success between them, until the cool-down ends
\* (recordFailure, isCircuitOpen).
SustainedFailuresOpenCircuit ==
  \A i \in Instances : circuit[i].inARow >= Threshold => IsCircuitOpen(i)
=============================================================================
