---------------------------- MODULE SystemConfig ----------------------------
(***************************************************************************)
(* What the system is configured with while it runs: the choice of an LLM  *)
(* and the credentials of the cloud providers                              *)
(* (api/routes/config-routes.py, core/config.py, core/llm/                 *)
(* llm-client-factory.py, and the start of the server in api/main.py).     *)
(*                                                                         *)
(* A setting is in up to three places: the file that survives the server,  *)
(* the environment of the process, and the Settings object that was made   *)
(* of the environment when somebody last asked for it and is kept.  A      *)
(* handler reads and writes all three without giving way to another.       *)
(***************************************************************************)
EXTENDS FiniteSets

CONSTANTS
  LLMs,          \* the AI providers that take a key
  DefaultLLM,    \* that of a Settings object no variable says otherwise to
  Models,        \* models one may choose
  DefaultModel(_),
  Secrets,       \* API keys
  Clouds,        \* cloud providers
  CloudKeys,     \* names of their credentials
  Containers     \* the environments that a process may be started with

Unset == "unset"
AllModels == Models \cup {DefaultModel(p) : p \in LLMs}

\* What may be set: the provider, the model, and each provider's key.
Setting == [provider : LLMs \cup {Unset}, model : AllModels \cup {Unset},
            key : [LLMs -> Secrets \cup {Unset}]]
NothingSet == [provider |-> Unset, model |-> Unset, key |-> [p \in LLMs |-> Unset]]

ASSUME ConfigAssumption ==
  /\ DefaultLLM \in LLMs /\ Containers \subseteq Setting
  /\ Unset \notin LLMs \cup AllModels \cup Secrets

VARIABLES
  container,  \* the environment that the process starts with
  aiFile,     \* ai-config.json
  aiEnv,      \* the TERRABOT_ variables of the process
  settings,   \* what get_settings answers: its cache, or the environment
  cloudFile,  \* provider-config.json
  cloudEnv    \* the variables that terraform reads

configVars == <<container, aiFile, aiEnv, settings, cloudFile, cloudEnv>>

\* Settings(): the environment, with defaults for the rest.
FromEnv(env) ==
  [ provider |-> IF env.provider = Unset THEN DefaultLLM ELSE env.provider,
    model    |-> IF env.model = Unset THEN DefaultModel(DefaultLLM) ELSE env.model,
    key      |-> env.key ]

\* The settings of `over`, and those of `under` where it has none.
Overlay(over, under) ==
  LET Of(a, b) == IF a = Unset THEN b ELSE a IN
  [ provider |-> Of(over.provider, under.provider), model |-> Of(over.model, under.model),
    key      |-> [p \in LLMs |-> Of(over.key[p], under.key[p])] ]

CloudValues == [Clouds -> [CloudKeys -> Secrets \cup {Unset}]]
NoClouds == [c \in Clouds |-> [k \in CloudKeys |-> Unset]]

ConfigTypeOK ==
  /\ container \in Containers
  /\ aiFile \in Setting /\ aiEnv \in Setting
  /\ settings \in {s \in Setting : s.provider # Unset /\ s.model # Unset}
  /\ cloudFile \in CloudValues /\ cloudEnv \in CloudValues

ConfigInit ==
  /\ container \in Containers
  /\ aiFile = NothingSet /\ aiEnv = container /\ settings = FromEnv(container)
  /\ cloudFile = NoClouds /\ cloudEnv = NoClouds

-----------------------------------------------------------------------------
\* What POST /config/ai makes of the file: without a model, a new provider
\* gets its default one and the same provider keeps what it has.
SavedFile(p, model, secret) ==
  LET old == IF aiFile.provider = Unset THEN "anthropic" ELSE aiFile.provider IN
  [ provider |-> p,
    model |-> IF model # Unset THEN model
              ELSE IF p # old THEN DefaultModel(p) ELSE aiFile.model,
    key   |-> IF secret = Unset THEN aiFile.key ELSE [aiFile.key EXCEPT ![p] = secret] ]

\* Mutant: the key is not put into the environment.
AppliedWithoutKey(p, model, secret) == Overlay([NothingSet EXCEPT !.provider = p, !.model = model], aiEnv)
\* What it makes of the environment: only what the request has.
Applied(p, model, secret) ==
  Overlay([NothingSet EXCEPT !.provider = p, !.model = model, !.key[p] = secret], aiEnv)

SaveAIConfig(p, model, secret) ==
  /\ aiFile' = SavedFile(p, model, secret)
  /\ aiEnv' = Applied(p, model, secret)
  /\ settings' = FromEnv(aiEnv')   \* cache_clear
  /\ UNCHANGED <<container, cloudFile, cloudEnv>>

\* POST /config/provider replaces the stored credentials and adds to the
\* environment: a credential that is left out stays there until a restart.
SaveProviderConfig(c, creds) ==
  /\ cloudFile' = [cloudFile EXCEPT ![c] = creds]
  /\ cloudEnv' = [cloudEnv EXCEPT ![c] = [k \in CloudKeys |-> IF creds[k] = Unset THEN @[k] ELSE creds[k]]]
  /\ UNCHANGED <<container, aiFile, aiEnv, settings>>

\* The process starts: create_app asks for the settings, which are kept, and
\* only then are the files loaded into the environment.
Start ==
  /\ settings' = FromEnv(container)
  /\ aiEnv' = Overlay(aiFile', container)
  /\ cloudEnv' = cloudFile'
  /\ UNCHANGED container
Restart == UNCHANGED <<aiFile, cloudFile>> /\ Start
\* A crash while a file is written leaves one that cannot be parsed, which is
\* read as an empty one and is overwritten by the next save.
CrashInSave ==
  /\ \/ aiFile' = NothingSet /\ UNCHANGED cloudFile
     \/ cloudFile' = NoClouds /\ UNCHANGED aiFile
  /\ Start

ConfigNext ==
  \/ \E p \in LLMs, model \in Models \cup {Unset}, secret \in Secrets \cup {Unset} :
       SaveAIConfig(p, model, secret)
  \/ \E c \in Clouds, creds \in [CloudKeys -> Secrets \cup {Unset}] : SaveProviderConfig(c, creds)
  \/ Restart
  \/ CrashInSave

ConfigSpec == ConfigInit /\ [][ConfigNext]_configVars

-----------------------------------------------------------------------------
\* What is stored is in the environment of the process, through saves,
\* restarts and crashes: each provider's key, the choice of a provider and
\* the credentials that terraform reads.  (A model is not: see SavedFile and
\* Applied, which differ when the provider changes.)
EnvironmentHasStored ==
  /\ aiFile.provider \in {Unset, aiEnv.provider}
  /\ \A p \in LLMs : aiFile.key[p] \in {Unset, aiEnv.key[p]}
  /\ \A c \in Clouds, k \in CloudKeys : cloudFile[c][k] \in {Unset, cloudEnv[c][k]}

\* "Called on app startup to apply saved AI config into environment. Sets
\* TERRABOT_ prefixed env vars so Settings picks them up"
\* (config-routes.py:156-158): the saved provider is the one in use.
SavedProviderIsUsed == aiFile.provider \in {Unset, settings.provider}
=============================================================================
