--------------------------- MODULE Configuration ----------------------------
(***************************************************************************)
(* What the services are configured with: four components that share no    *)
(* state, one section each, with its own Init and Next.                    *)
(***************************************************************************)
EXTENDS Integers, FiniteSetsExt, FiniteSets

-----------------------------------------------------------------------------
(***************************************************************************)
(* config_manager.py: the process-wide ConfigurationManager merges the     *)
(* environment's file, the service's file and the caller's overrides, and  *)
(* ServiceConfig.__post_init__ then applies the environment variables. The *)
(* files and the variables change while the process runs; the cache of the *)
(* manager is never emptied.                                               *)
(***************************************************************************)
CONSTANTS
    ServiceNames,   \* the services that are loaded, each with its <service_name>.yaml
    EnvNames,       \* the environments, each with its <env>.yaml; "dev" is development
    ServiceMaxEdits \* changes made to files and variables

VARIABLES
    serviceFile,    \* file -> what is on disk
    serviceEnviron, \* the environment variables GRPC_PORT and ENV
    cache,          \* ConfigurationManager._cache
    loaded,         \* outcome of the last load_service_config and what it had read
    stuck,          \* history: environments in which a load failed on their file
    serviceEdits    \* changes so far

serviceVars == <<serviceFile, serviceEnviron, cache, loaded, stuck, serviceEdits>>

Files == EnvNames \union ServiceNames

\* Settings of one source; 0 or FALSE: the key is absent. own is the mapping ports,
\* fatal a key that ServiceConfig is given already, like environment, or does not have.
NoPorts == [s \in ServiceNames |-> 0]
Empty == [port |-> 0, own |-> NoPorts, fatal |-> FALSE]
Sources == {Empty, [Empty EXCEPT !.port = 1], [Empty EXCEPT !.fatal = TRUE]}
           \union {[Empty EXCEPT !.own[s] = 2] : s \in ServiceNames}

\* A file is missing, not YAML, or holds settings.
Missing == [kind |-> "missing", data |-> Empty]
Broken == [kind |-> "broken", data |-> Empty]
Contents == {Missing, Broken} \union [kind : {"yaml"}, data : Sources]

\* GRPC_PORT unset, a number, or a text that int() refuses.
BadPort == 9
Variables == [port : {0, 4, BadPort}, env : EnvNames \union {"unset"}]

Uncached == [present |-> FALSE, data |-> Empty]
NoConfigYet == [port |-> 0, environment |-> "unset"]
Nothing == [outcome |-> "none", env |-> "dev", argument |-> "unset", own |-> {0},
            config |-> NoConfigYet, variables |-> [port |-> 0, env |-> "unset"]]

ServiceTypeOK ==
    /\ serviceFile \in [Files -> Contents] /\ serviceEdits \in 0 .. ServiceMaxEdits
    /\ serviceEnviron \in Variables /\ stuck \subseteq EnvNames
    /\ cache \in [Files -> [present : BOOLEAN, data : Sources]]
    /\ loaded.outcome \in {"none", "config", "TypeError", "ValueError"}

ServiceInit ==
    /\ serviceFile \in [Files -> {Missing, [kind |-> "yaml", data |-> Empty]}]
    /\ serviceEnviron = [port |-> 0, env |-> "unset"]
    /\ cache = [f \in Files |-> Uncached]
    /\ loaded = Nothing /\ stuck = {} /\ serviceEdits = 0

\* ServiceConfig.grpc_port before __post_init__; 50051 is 3.
DefaultPort == 3

LoadFile_Fresh(f) == serviceFile[f].data

\* _load_config_file: the cache answers first; a missing or broken file is an empty mapping.
LoadFile(f) == IF cache[f].present THEN cache[f].data ELSE serviceFile[f].data

Cached_Validated(f) ==
    IF cache[f].present \/ serviceFile[f].kind # "yaml" \/ serviceFile[f].data.fatal THEN cache[f]
    ELSE [present |-> TRUE, data |-> serviceFile[f].data]

\* Only a file that was read is cached.
Cached(f) ==
    IF cache[f].present \/ serviceFile[f].kind # "yaml" THEN cache[f]
    ELSE [present |-> TRUE, data |-> serviceFile[f].data]

\* The service's file is looked for before the cache is.
HasServiceFile(s) == serviceFile[s].kind # "missing"
ReadFor(s) == IF HasServiceFile(s) THEN LoadFile(s) ELSE Empty

\* _merge_configs: the override wins for each key it has; ports is merged as a mapping.
merge_configs(base, over) ==
    [port |-> IF over.port # 0 THEN over.port ELSE base.port,
     own |-> [s \in ServiceNames |-> IF over.own[s] # 0 THEN over.own[s] ELSE base.own[s]],
     fatal |-> over.fatal \/ base.fatal]

PostInit_EnvLast(s, env, merged) ==
    [port |-> IF serviceEnviron.port # 0 THEN serviceEnviron.port
              ELSE IF merged.own[s] # 0 THEN merged.own[s]
              ELSE IF merged.port # 0 THEN merged.port ELSE DefaultPort,
     environment |-> env]

\* __post_init__: GRPC_PORT over the merged port, ports[service_name] over both; ENV
\* names the environment whatever was loaded.
PostInit(s, env, merged) ==
    [port |-> IF merged.own[s] # 0 THEN merged.own[s]
              ELSE IF serviceEnviron.port # 0 THEN serviceEnviron.port
              ELSE IF merged.port # 0 THEN merged.port ELSE DefaultPort,
     environment |-> IF serviceEnviron.env = "unset" THEN env ELSE serviceEnviron.env]

\* The argument, else ENV, else development.
EnvOf(argument) ==
    CASE argument # "unset" -> argument
      [] argument = "unset" /\ serviceEnviron.env # "unset" -> serviceEnviron.env
      [] OTHER -> "dev"

\* load_service_config: a fatal key raises when ServiceConfig is called, and a GRPC_PORT that is
\* no number in its __post_init__.
load_service_config(s, argument, overrides) ==
    LET env == EnvOf(argument)
        base == LoadFile(env)
        merged == merge_configs(merge_configs(base, ReadFor(s)), overrides)
        outcome == CASE merged.fatal -> "TypeError"
                     [] ~merged.fatal /\ serviceEnviron.port = BadPort -> "ValueError"
                     [] OTHER -> "config"
    IN  /\ cache' = [f \in Files |->
                        IF f = env \/ (f = s /\ HasServiceFile(s)) THEN Cached(f) ELSE cache[f]]
        /\ loaded' = [outcome |-> outcome, env |-> env, argument |-> argument,
                      own |-> {base.own[s], ReadFor(s).own[s], overrides.own[s]},
                      config |-> IF outcome = "config" THEN PostInit(s, env, merged) ELSE NoConfigYet,
                      variables |-> serviceEnviron]
        /\ stuck' = IF base.fatal THEN stuck \union {env} ELSE stuck
        /\ UNCHANGED <<serviceFile, serviceEnviron, serviceEdits>>

ServiceEditFile(f, content) ==
    /\ serviceEdits < ServiceMaxEdits
    /\ serviceFile' = [serviceFile EXCEPT ![f] = content] /\ serviceEdits' = serviceEdits + 1
    /\ UNCHANGED <<serviceEnviron, cache, loaded, stuck>>

ServiceSetVariables(variables) ==
    /\ serviceEdits < ServiceMaxEdits
    /\ serviceEnviron' = variables /\ serviceEdits' = serviceEdits + 1
    /\ UNCHANGED <<serviceFile, cache, loaded, stuck>>

ServiceNext ==
    \/ \E s \in ServiceNames, argument \in EnvNames \union {"unset"}, overrides \in Sources :
          load_service_config(s, argument, overrides)
    \/ \E f \in Files, content \in Contents : ServiceEditFile(f, content)
    \/ \E variables \in Variables : ServiceSetVariables(variables)

ServiceSpec == ServiceInit /\ [][ServiceNext]_serviceVars

FailureSticks_Step ==
    \A e \in stuck : loaded' # loaded /\ loaded'.env = e => loaded'.outcome = "TypeError"

(* A key in the environment's file that ServiceConfig refuses is fatal, and *)
(* it is in the cache before it is: once a load has failed on it, every     *)
(* later load in that environment fails in this process, for any service    *)
(* and also after the file has been repaired; other environments load.      *)
FailureSticks == [][FailureSticks_Step]_serviceVars

(* The override a caller passes for the port is not the last word, and     *)
(* neither is GRPC_PORT: an entry of ports for the service, even one in    *)
(* the environment's file, beats both.                                     *)
PortsBeatEverything ==
    loaded.outcome = "config" =>
        IF loaded.own # {0} THEN loaded.config.port \in loaded.own \ {0}
        ELSE loaded.variables.port # 0 => loaded.config.port = loaded.variables.port

(* A configuration is called after another environment than the one it was *)
(* read from only if the caller named the one and ENV the other.           *)
OtherNameNeedsBoth ==
    loaded.outcome = "config" /\ loaded.config.environment # loaded.env =>
        loaded.argument = loaded.env /\ loaded.variables.env = loaded.config.environment

-----------------------------------------------------------------------------
(***************************************************************************)
(* resilience/config.py: a ResilienceConfig comes from a preset, from      *)
(* environment variables or from a YAML file, and can be saved to that     *)
(* file and loaded again. The model follows one configuration through such *)
(* steps and records how it decides about the exceptions of a call.        *)
(***************************************************************************)
CONSTANTS
    MaxSteps        \* loads, saves and edits made

VARIABLES
    presetConfig,   \* the ResilienceConfig in use
    origin,         \* what it was made by
    disk,           \* the YAML file
    saved,          \* the configuration the file was last saved from, and whether it still is it
    presetEnviron,  \* the MARTY_RESILIENCE_ variables
    steps           \* steps so far

presetVars == <<presetConfig, origin, disk, saved, presetEnviron, steps>>

\* Exceptions of a call: the transient ones, ValueError, TypeError, KeyError and anything else.
Exceptions == {"transient", "value", "type", "key", "other"}

\* CircuitBreakerConfig, AdvancedRetryConfig and AdvancedFailureInjectionConfig as constructed;
\* the failure rate is in tenths.
Defaults ==
    [environment |-> "development", threshold |-> 5, attempts |-> 5, enabled |-> FALSE, rate |-> 0,
     retryOn |-> {"transient"}, abortOn |-> {"value", "type", "key"}]

get_development_config ==
    [Defaults EXCEPT !.threshold = 10, !.attempts = 3, !.enabled = TRUE, !.rate = 1]

get_production_config == [Defaults EXCEPT !.environment = "production"]

get_testing_config ==
    [Defaults EXCEPT !.environment = "testing", !.threshold = 3, !.attempts = 2,
                     !.enabled = TRUE, !.rate = 1]

\* A variable that is unset is "unset"; a number may not parse.
PresetUnset == [environment |-> "unset", threshold |-> "unset", enabled |-> FALSE, rate |-> "unset"]
Environs == [environment : {"unset", "production"}, threshold : {"unset", "7", "bad"},
             enabled : BOOLEAN, rate : {"unset", "2.0", "bad"}]

NoFile == [exists |-> FALSE]

PresetTypeOK ==
    /\ presetConfig.retryOn \subseteq Exceptions /\ presetConfig.abortOn \subseteq Exceptions
    /\ presetConfig.threshold \in Nat /\ presetConfig.rate \in Nat /\ presetEnviron \in Environs
    /\ origin \in {"preset", "environment", "defaults", "file"} /\ steps \in 0 .. MaxSteps

PresetInit ==
    /\ presetConfig = Defaults /\ origin = "defaults"
    /\ disk = NoFile /\ saved = [valid |-> FALSE, config |-> Defaults]
    /\ presetEnviron = PresetUnset /\ steps = 0

Clamped_Below(rate) == Max({0, rate})

\* AdvancedFailureInjectionConfig.__init__ keeps a rate within 0.0 .. 1.0.
Clamped(rate) == Max({0, Min({10, rate})})

RetryNames_Resolved == {"transient"}

\* Names of exceptions are looked up as attributes of __builtins__, which in an imported module
\* is a dict and has none of them: the fallback is Exception for every name.
RetryNames == Exceptions

\* The same lookup with the fallback ValueError.
AbortNames == {"value"}

\* from_dict; a document without a retry section keeps the default retry configuration.
from_dict(doc) ==
    [environment |-> doc.environment, threshold |-> doc.threshold,
     attempts |-> IF doc.retry THEN doc.attempts ELSE Defaults.attempts,
     enabled |-> doc.enabled, rate |-> Clamped(doc.rate),
     retryOn |-> IF doc.retry THEN RetryNames ELSE Defaults.retryOn,
     abortOn |-> IF doc.retry THEN AbortNames ELSE Defaults.abortOn]

\* to_dict leaves out both lists of exceptions.
to_dict(c) ==
    [retry |-> TRUE, environment |-> c.environment, threshold |-> c.threshold,
     attempts |-> c.attempts, enabled |-> c.enabled, rate |-> c.rate]

Parses(vs) == vs.threshold # "bad" /\ vs.rate # "bad"

\* from_environment assigns the rate to the attribute: nothing clamps it.
from_environment(vs) ==
    [Defaults EXCEPT
        !.environment = IF vs.environment = "unset" THEN @ ELSE vs.environment,
        !.threshold = IF vs.threshold = "7" THEN 7 ELSE @,
        !.enabled = vs.enabled, !.rate = IF vs.rate = "2.0" THEN 20 ELSE @]

FromEnvironment_Lenient(vs, use_defaults) ==
    [config |-> from_environment(vs), origin |-> "environment"]

\* load_config without a file: one value that does not parse loses all of them. Without
\* use_defaults the exception reaches the caller, who keeps what it has.
FromEnvironment(vs, use_defaults) ==
    CASE Parses(vs) -> [config |-> from_environment(vs), origin |-> "environment"]
      [] ~Parses(vs) /\ use_defaults -> [config |-> Defaults, origin |-> "defaults"]
      [] OTHER -> [config |-> presetConfig, origin |-> origin]

\* _is_retryable_exception: the abort list, the retry list, then the built-in detection.
ShouldRetry(c, e) == e \notin c.abortOn /\ (e \in c.retryOn \/ e = "transient")

Step == steps < MaxSteps /\ steps' = steps + 1

UsePreset(preset) ==
    /\ Step /\ presetConfig' = preset /\ origin' = "preset"
    /\ UNCHANGED <<disk, saved, presetEnviron>>

LoadEnvironment(use_defaults) ==
    LET result == FromEnvironment(presetEnviron, use_defaults)
    IN  /\ Step
        /\ presetConfig' = result.config /\ origin' = result.origin
        /\ UNCHANGED <<disk, saved, presetEnviron>>

\* load_config with a file, from_yaml_file: the environment variables are not looked at.
from_yaml_file ==
    /\ Step /\ disk.exists
    /\ presetConfig' = from_dict(disk.doc) /\ origin' = "file"
    /\ UNCHANGED <<disk, saved, presetEnviron>>

save_to_yaml_file ==
    /\ Step
    /\ disk' = [exists |-> TRUE, doc |-> to_dict(presetConfig)]
    /\ saved' = [valid |-> TRUE, config |-> presetConfig]
    /\ UNCHANGED <<presetConfig, origin, presetEnviron>>

\* An operator writes a file by hand.
PresetEditFile(retry, threshold) ==
    /\ Step
    /\ disk' = [exists |-> TRUE, doc |-> [to_dict(Defaults) EXCEPT !.retry = retry,
                                                                   !.threshold = threshold]]
    /\ saved' = [saved EXCEPT !.valid = FALSE]
    /\ UNCHANGED <<presetConfig, origin, presetEnviron>>

PresetSetVariables(vs) ==
    /\ Step /\ presetEnviron' = vs
    /\ UNCHANGED <<presetConfig, origin, disk, saved>>

PresetNext ==
    \/ \E p \in {get_development_config, get_production_config, get_testing_config} : UsePreset(p)
    \/ \E use_defaults \in BOOLEAN : LoadEnvironment(use_defaults)
    \/ from_yaml_file \/ save_to_yaml_file
    \/ \E retry \in BOOLEAN, threshold \in {3, 5} : PresetEditFile(retry, threshold)
    \/ \E vs \in Environs : PresetSetVariables(vs)

PresetSpec == PresetInit /\ [][PresetNext]_presetVars

ReloadWidensRetries_Step ==
    (disk.exists /\ saved.valid /\ origin' = "file" /\ steps' # steps /\ presetConfig' # presetConfig)
       => /\ \A e \in {"type", "key", "other"} : ShouldRetry(presetConfig', e)
          /\ ShouldRetry(presetConfig', "transient") /\ ~ShouldRetry(presetConfig', "value")
          /\ presetConfig'.threshold = saved.config.threshold
          /\ presetConfig'.attempts = saved.config.attempts
          /\ saved.config.rate <= 10 => presetConfig'.rate = saved.config.rate

(* Saving a configuration and loading it again is not the identity: every  *)
(* number survives, apart from a failure rate out of range, but the        *)
(* reloaded one retries a TypeError and any unknown exception, which the   *)
(* saved one gave up on unless it had itself been loaded from a file.      *)
ReloadWidensRetries == [][ReloadWidensRetries_Step]_presetVars

EnvironmentAllOrNothing_Step ==
    (/\ origin' \in {"environment", "defaults"} /\ presetConfig' # presetConfig
     /\ "bad" \in {presetEnviron.threshold, presetEnviron.rate})
       => presetConfig'.environment = "development" /\ ~presetConfig'.enabled /\ presetConfig'.rate = 0

(* Variables count all together or not at all: when one does not parse, a  *)
(* load with use_defaults=True gives the defaults, environment development *)
(* whatever its variable says, and one with use_defaults=False raises and  *)
(* changes nothing.                                                        *)
EnvironmentAllOrNothing == [][EnvironmentAllOrNothing_Step]_presetVars

(* A failure rate above one is only ever in use if the environment gave    *)
(* it: saving and loading that configuration brings it back into range.    *)
OutOfRangeNeedsVariable == presetConfig.rate > 10 => origin = "environment"

-----------------------------------------------------------------------------
(***************************************************************************)
(* ServiceRegistry of service_registry.py, "a single source of truth for   *)
(* all service configurations": each service has a base port, and its      *)
(* health and metrics ports are computed from it. Services of a local      *)
(* environment, all on localhost, bind their three ports when they start.  *)
(***************************************************************************)
CONSTANT Hosted     \* the services started on the host

\* SERVICES
base_port ==
    [ui |-> 8000, csca |-> 8081, document_signer |-> 8082, inspection |-> 8083,
     passport |-> 8084, mdl |-> 8085, mdoc |-> 8086, dtc |-> 8087, pkd |-> 8088,
     ledger |-> 8089, trust_svc |-> 8090, open_badges |-> 8091, trust_anchor |-> 9080]

grpc_port(s) == base_port[s]

health_port_Spread(s) == base_port[s] + 2000
health_port(s) == base_port[s] + 1

metrics_port_Near(s) == base_port[s] + 10
metrics_port(s) == base_port[s] + 1000

Kinds == {"grpc", "health", "metrics"}
PortOf(s) == [grpc |-> grpc_port(s), health |-> health_port(s), metrics |-> metrics_port(s)]

\* get_service_endpoints: on a cluster every service has an address of its own.
Environments == {"local", "k8s"}

VARIABLES
    environment,
    bound,          \* <<service, kind>> pairs that hold their port
    refused,        \* the pairs that found it taken, and by whom
    up              \* services started

portVars == <<environment, bound, refused, up>>

Sockets == Hosted \X Kinds
Port(x) == PortOf(x[1])[x[2]]
SameHost(x, y) == environment = "local" \/ x[1] = y[1]

PortTypeOK ==
    /\ environment \in Environments
    /\ bound \subseteq Sockets
    /\ refused \subseteq Sockets \X Sockets
    /\ up \subseteq Hosted

PortInit == environment \in Environments /\ bound = {} /\ refused = {} /\ up = {}

\* A starting service binds each of its ports that is free.
Start(s) ==
    LET own == {s} \X Kinds
        clashes == {c \in own \X bound : SameHost(c[1], c[2]) /\ Port(c[1]) = Port(c[2])}
    IN  /\ s \notin up
        /\ up' = up \union {s}
        /\ bound' = bound \union {x \in own : \A c \in clashes : c[1] # x}
        /\ refused' = refused \union clashes
        /\ UNCHANGED environment

Stop(s) ==
    /\ s \in up
    /\ up' = up \ {s}
    /\ bound' = bound \ ({s} \X Kinds)
    /\ refused' = {c \in refused : c[1][1] # s}
    /\ UNCHANGED environment

PortNext == \E s \in Hosted : Start(s) \/ Stop(s)

PortSpec == PortInit /\ [][PortNext]_portVars

\* The registry does not give every service ports of its own: of two services on one host
\* a port is refused exactly when one has the base port after the other's, whose health
\* port it is, or is trust_anchor beside csca, whose metrics port is the health port of
\* the other; and then whichever starts second is the one refused.
ClashesAreNeighbours ==
    \A c \in refused :
        LET s == c[1][1]
            t == c[2][1]
        IN  /\ environment = "local" /\ s # t
            /\ \/ base_port[s] = base_port[t] + 1 \/ base_port[t] = base_port[s] + 1
               \/ {s, t} = {"csca", "trust_anchor"}

\* A service that runs with a neighbour beside it lacks a port of one of the two: on one
\* host no two adjacent services ever have all six.
NeighboursNeverWhole ==
    environment = "local" =>
        \A s, t \in Hosted :
            base_port[t] = base_port[s] + 1 => ~(({s, t} \X Kinds) \subseteq bound)

-----------------------------------------------------------------------------
(***************************************************************************)
(* What a service is configured with: Config of config/base_config.py,     *)
(* which reads <environment>.yaml when it is made and again for every      *)
(* get_service; BaseService of services/base_service.py, which takes its   *)
(* section from it and then the environment variables; and                 *)
(* EnhancedServiceConfig of config/enhanced_config.py, made from the       *)
(* environment alone. Files and variables are edited while the process     *)
(* runs. The edits of the file are numbered.                               *)
(***************************************************************************)
CONSTANT SettingsMaxEdits       \* bound: edits of the files and the variables

VARIABLES
    settingsFile,   \* the YAML file: its state, its number, whether it has the service's section
    settingsEnviron, \* the variables: <SERVICE>_PORT, GRPC_PORT, SERVICE_PORT, a timeout
    secret,         \* the secret: its variable, the file its *_FILE variable names
    settingsConfig, \* the Config object: what of the file it was made from
    service,        \* the BaseService object: its state, its settings, the database it got
    enhanced,       \* the EnhancedServiceConfig last made
    answer,         \* what resolve_secret last returned
    settingsEdits, seen     \* edits so far; history: the file was edited since Config was made

settingsVars == <<settingsFile, settingsEnviron, secret, settingsConfig, service, enhanced, answer, settingsEdits, seen>>

None == 0
SettingsUnset == "unset"
SettingsDefault == "50051"      \* the port a service has by default

\* Values of a port variable; "other" is another number, "text" none.
PortValues == {SettingsUnset, "text", SettingsDefault, "other"}

NoConfig == [made |-> FALSE, number |-> None, listed |-> FALSE]
NoService == [up |-> FALSE, number |-> None, port |-> SettingsUnset, database |-> None]
NotMade == [outcome |-> SettingsUnset, port |-> SettingsUnset, own |-> SettingsUnset]

SettingsTypeOK ==
    /\ settingsFile \in [state : {"yaml", "broken", "missing"}, number : 1 .. SettingsMaxEdits + 1, listed : BOOLEAN]
    /\ settingsEnviron \in [own : PortValues, grpc : {SettingsUnset, "grpc"}, port : {SettingsUnset, "text", "other"},
                            timeout : {SettingsUnset, "text"}]
    /\ secret \in [var : {SettingsUnset, "direct"}, file : {SettingsUnset, "blank", "filed"}]
    /\ settingsConfig \in [made : BOOLEAN, number : 0 .. SettingsMaxEdits + 1, listed : BOOLEAN]
    /\ service \in [up : BOOLEAN, number : 0 .. SettingsMaxEdits + 1, port : {SettingsUnset, "section", "int", "str"},
                    database : 0 .. SettingsMaxEdits + 1]
    /\ enhanced.outcome \in {SettingsUnset, "config", "ValueError"}
    /\ answer \in {SettingsUnset, "direct", "filed", "default", "ValueError", "empty"}
    /\ settingsEdits \in 0 .. SettingsMaxEdits
    /\ seen \in [edited : BOOLEAN, bad : BOOLEAN]

SettingsInit ==
    /\ settingsFile \in [state : {"yaml", "missing"}, number : {1}, listed : BOOLEAN]
    /\ settingsEnviron = [own |-> SettingsUnset, grpc |-> SettingsUnset, port |-> SettingsUnset, timeout |-> SettingsUnset]
    /\ secret = [var |-> SettingsUnset, file |-> SettingsUnset]
    /\ settingsConfig = NoConfig /\ service = NoService /\ enhanced = NotMade /\ answer = SettingsUnset
    /\ settingsEdits = 0 /\ seen = [edited |-> FALSE, bad |-> FALSE]

(* The operator                                                            *)

SettingsEditFile(state, listed) ==
    /\ settingsEdits < SettingsMaxEdits
    /\ settingsFile' = [state |-> state, number |-> settingsFile.number + 1, listed |-> listed]
    /\ settingsEdits' = settingsEdits + 1 /\ seen' = [seen EXCEPT !.edited = TRUE]
    /\ UNCHANGED <<settingsEnviron, secret, settingsConfig, service, enhanced, answer>>

EditVariables(e) ==
    /\ settingsEdits < SettingsMaxEdits /\ e # settingsEnviron
    /\ settingsEnviron' = e
    /\ settingsEdits' = settingsEdits + 1
    /\ UNCHANGED <<settingsFile, secret, settingsConfig, service, enhanced, answer, seen>>

EditSecret(s) ==
    /\ settingsEdits < SettingsMaxEdits /\ s # secret
    /\ secret' = s
    /\ settingsEdits' = settingsEdits + 1
    /\ UNCHANGED <<settingsFile, settingsEnviron, settingsConfig, service, enhanced, answer, seen>>

(* Config and BaseService                                                  *)

\* load_config: a file that is missing or not YAML is a ConfigurationError.
Loadable == settingsFile.state = "yaml"

MakeConfig ==
    /\ Loadable
    /\ settingsConfig' = [made |-> TRUE, number |-> settingsFile.number, listed |-> settingsFile.listed]
    /\ service' = NoService /\ seen' = [edited |-> FALSE, bad |-> FALSE]
    /\ UNCHANGED <<settingsFile, settingsEnviron, secret, enhanced, answer, settingsEdits>>

get_service_Cased == None

\* get_service does not use what the object holds: it loads the file again, and fails if the
\* service has no section now.
get_service == IF Loadable /\ settingsFile.listed THEN settingsFile.number ELSE None

\* _load_env_config: a variable replaces the setting; digits become a number.
env_port(section) ==
    IF settingsEnviron.port = SettingsUnset THEN IF section THEN "section" ELSE SettingsUnset
    ELSE IF settingsEnviron.port = "other" THEN "int" ELSE "str"

\* BaseService.__init__, its dependencies holding the Config or there being none: any
\* exception of get_service means defaults.
StartService(dependencies) ==
    LET section == IF dependencies THEN get_service ELSE None
    IN  /\ ~service.up /\ (dependencies => settingsConfig.made)
        /\ service' = [up |-> TRUE, number |-> section, port |-> env_port(section # None),
                       database |-> None]
        /\ seen' = [seen EXCEPT !.bad = ~dependencies \/ settingsFile.state # "yaml" \/ ~settingsFile.listed]
        /\ UNCHANGED <<settingsFile, settingsEnviron, secret, settingsConfig, enhanced, answer, settingsEdits>>

database_Reloads == IF get_service # None THEN get_service ELSE settingsConfig.number

\* Config.database: from what the object holds; a service that is not in there is a
\* ValueError.
database == settingsConfig.number

\* get_database of a service with dependencies.
OpenDatabase ==
    /\ service.up /\ settingsConfig.made /\ settingsConfig.listed
    /\ service' = [service EXCEPT !.database = database]
    /\ UNCHANGED <<settingsFile, settingsEnviron, secret, settingsConfig, enhanced, answer, settingsEdits, seen>>

(* EnhancedServiceConfig and secrets                                       *)

get_env_int(v) == IF v \in {SettingsUnset, "text"} THEN SettingsDefault ELSE v

get_service_port_GrpcFirst(e) == IF e.grpc # SettingsUnset THEN e.grpc ELSE get_env_int(e.own)

\* get_service_port: the service's variable; when that gives the default, GRPC_PORT.
get_service_port(e) ==
    IF get_env_int(e.own) = SettingsDefault /\ e.grpc # SettingsUnset THEN e.grpc ELSE get_env_int(e.own)

\* create_enhanced_config: the port falls back to its default on text; a timeout, read by the
\* default factory of its field, does not.
create_enhanced_config ==
    /\ enhanced' = [outcome |-> IF settingsEnviron.timeout = "text" THEN "ValueError" ELSE "config",
                    port |-> get_service_port(settingsEnviron), own |-> settingsEnviron.own]
    /\ UNCHANGED <<settingsFile, settingsEnviron, secret, settingsConfig, service, answer, settingsEdits, seen>>

\* BaseService.resolve_secret.
service_secret ==
    /\ service.up
    /\ answer' = IF secret.var # SettingsUnset THEN secret.var
                 ELSE IF secret.file = "filed" THEN "filed" ELSE "empty"
    /\ UNCHANGED <<settingsFile, settingsEnviron, secret, settingsConfig, service, enhanced, settingsEdits, seen>>

\* ConfigurationManager.resolve_secret, with a default, required, or neither.
resolve_secret(default, required) ==
    /\ answer' = IF secret.var # SettingsUnset THEN secret.var
                 ELSE IF secret.file = "filed" THEN "filed"
                 ELSE IF default THEN "default" ELSE IF required THEN "ValueError" ELSE SettingsUnset
    /\ UNCHANGED <<settingsFile, settingsEnviron, secret, settingsConfig, service, enhanced, settingsEdits, seen>>

SettingsNext ==
    \/ \E state \in {"yaml", "broken", "missing"}, listed \in BOOLEAN : SettingsEditFile(state, listed)
    \/ \E own \in PortValues, grpc \in {SettingsUnset, "grpc"} :
          EditVariables([settingsEnviron EXCEPT !.own = own, !.grpc = grpc])
    \/ \E port \in {SettingsUnset, "text", "other"}, timeout \in {SettingsUnset, "text"} :
          EditVariables([settingsEnviron EXCEPT !.port = port, !.timeout = timeout])
    \/ \E s \in [var : {SettingsUnset, "direct"}, file : {SettingsUnset, "blank", "filed"}] : EditSecret(s)
    \/ MakeConfig \/ OpenDatabase \/ create_enhanced_config \/ service_secret
    \/ \E dependencies \in BOOLEAN : StartService(dependencies)
    \/ \E default, required \in BOOLEAN : resolve_secret(default, required)

SettingsSpec == SettingsInit /\ [][SettingsNext]_settingsVars

\* A service works with its section of one version of the file and the database of another
\* only if the file was edited after Config was made; and the database is never the newer.
MixNeedsEdit ==
    /\ service.number # None /\ service.database \notin {None, service.number} =>
          seen.edited /\ service.database < service.number
    /\ service.database # None => service.database <= settingsConfig.number

\* A service that runs on defaults without a word had no dependencies, or its file was
\* missing, broken or without its section at that moment: it is not told apart.
QuietDefaultsNeedCause == service.up /\ service.number = None => seen.bad

\* A port set for the service itself loses to GRPC_PORT only when it is the default one: a
\* service told to keep its default port does not.
OwnPortLosesOnlyAsDefault ==
    enhanced.own = "other" => enhanced.port = "other"
=============================================================================
