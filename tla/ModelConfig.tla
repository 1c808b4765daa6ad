---------------------------- MODULE ModelConfig ----------------------------
(* Changing the model provider (application/configuration.py,               *)
(* ModelConfigurationService.update) step by step, with a crash or a        *)
(* failure between any two: the key goes to the Keychain, the endpoint and  *)
(* the account of the key to the YAML file, both to the running process.    *)
EXTENDS Integers, FiniteSets

CONSTANTS
    Endpoint,    \* base URLs of OpenAI-compatible services
    Key,         \* their keys
    Account,     \* accounts of the Keychain
    StartEndpoint,       \* endpoint of the set-up
    StartKey,    \* its key, under StartAccount
    StartAccount

ASSUME ModelConfigAssumption == StartEndpoint \in Endpoint /\ StartKey \in Key /\ StartAccount \in Account
ASSUME NamesAreDistinct == "no key" \notin Key /\ "local" \notin Endpoint

VARIABLES
    keychain,   \* keys in the Keychain
    yaml,       \* what the file says
    settings,   \* what the process believes
    running,    \* endpoint and key of the installed provider
    update,     \* the update in progress
    wanted      \* pairs of endpoint and key the owner asked for

configVars == <<keychain, yaml, settings, running, update, wanted>>
-----------------------------------------------------------------------------
NoKey == "no key"
Local == "local"      \* the Ollama provider needs no key
NoUpdate == [at |-> "idle", to |-> Local, endpoint |-> StartEndpoint, key |-> NoKey,
             account |-> StartAccount]
Config == [uses : {"openai", Local}, endpoint : Endpoint, account : Account]
KeyOf(c) == keychain[c.account]
Provider(c) == IF c.uses = Local THEN <<Local, NoKey>> ELSE <<c.endpoint, KeyOf(c)>>

ModelConfigTypeOK ==
    /\ keychain \in [Account -> Key \cup {NoKey}]
    /\ yaml \in Config
    /\ settings \in Config
    /\ running \in (Endpoint \cup {Local}) \X (Key \cup {NoKey})
    /\ update \in [at : {"idle", "key", "build", "persist", "install"}, to : {"openai", Local},
                   endpoint : Endpoint, key : Key \cup {NoKey}, account : Account]
    /\ wanted \subseteq Endpoint \X Key

ModelConfigInit ==
    /\ keychain = [a \in Account |-> IF a = StartAccount THEN StartKey ELSE NoKey]
    /\ yaml = [uses |-> "openai", endpoint |-> StartEndpoint, account |-> StartAccount]
    /\ settings = yaml
    /\ running = Provider(yaml)
    /\ update = NoUpdate
    /\ wanted = {<<StartEndpoint, StartKey>>}
-----------------------------------------------------------------------------
UpdateAt(s) == update.at = s
Goes(s) == update' = [update EXCEPT !.at = s]
Stops == update' = NoUpdate

(* A request without a key keeps the key that is configured.                *)
AskForProvider(to, e, k) ==
    /\ UpdateAt("idle")
    /\ update' = [at |-> IF to = "openai" /\ k # NoKey THEN "key" ELSE "build", to |-> to,
                  endpoint |-> IF to = "openai" THEN e ELSE settings.endpoint, key |-> k,
                  account |-> settings.account]
    /\ LET used == IF k = NoKey THEN KeyOf(settings) ELSE k IN
       /\ to = "openai" => used # NoKey
       /\ wanted' = IF to = "openai" THEN wanted \cup {<<e, used>>} ELSE wanted
    /\ UNCHANGED <<keychain, yaml, settings, running>>

(* Fault: the key replaces the one in use. *)
FaultAccountFor(a) == a = settings.account
(* The key is kept under an account of its own.                             *)
AccountFor(a) == keychain[a] = NoKey
SetKey ==
    /\ UpdateAt("key")
    /\ \E a \in Account :
          /\ AccountFor(a)
          /\ keychain' = [keychain EXCEPT ![a] = update.key]
          /\ update' = [update EXCEPT !.at = "build", !.account = a]
    /\ UNCHANGED <<yaml, settings, running, wanted>>

(* The Keychain or the configuration file may refuse: nothing is undone.    *)
Refuse ==
    /\ update.at \in {"key", "build", "persist"}
    /\ Stops
    /\ UNCHANGED <<keychain, yaml, settings, running, wanted>>

NextSettings == [uses |-> update.to, endpoint |-> update.endpoint, account |-> update.account]

(* The next providers are made before anything refers to them.              *)
BuildProviders ==
    /\ UpdateAt("build")
    /\ Goes("persist")
    /\ UNCHANGED <<keychain, yaml, settings, running, wanted>>

(* _persist_config_values: a new file takes the place of the old one.       *)
Persist ==
    /\ UpdateAt("persist")
    /\ yaml' = NextSettings
    /\ Goes("install")
    /\ UNCHANGED <<keychain, settings, running, wanted>>

InstallModel ==
    /\ UpdateAt("install")
    /\ settings' = NextSettings
    /\ running' = Provider(NextSettings)
    /\ Stops
    /\ UNCHANGED <<keychain, yaml, wanted>>

(* A process that stops, and starts again from its file.                    *)
Restart ==
    /\ Stops
    /\ settings' = yaml
    /\ running' = Provider(yaml)
    /\ UNCHANGED <<keychain, yaml, wanted>>

ModelConfigNext ==
    \/ \E to \in {"openai", Local}, e \in Endpoint, k \in Key \cup {NoKey} : AskForProvider(to, e, k)
    \/ SetKey
    \/ BuildProviders
    \/ Persist
    \/ InstallModel
    \/ Refuse
    \/ Restart

ModelConfigSpec == ModelConfigInit /\ [][ModelConfigNext]_configVars
-----------------------------------------------------------------------------
(* "Never overwrite the previous generation: write failure/crash must leave *)
(* its key paired with the old endpoint, including after process restart"   *)
(* (application/configuration.py:117-119): what runs, and what would run    *)
(* after a restart, is a pair the owner asked for, and the key in memory is *)
(* the one the settings refer to, whatever was refused or cut short.        *)
KeysStayWithTheirEndpoint ==
    /\ \A c \in {yaml, settings} : c.uses = "openai" => Provider(c) \in wanted
    /\ running[1] # Local => running \in wanted
    /\ running = Provider(settings)
=============================================================================
