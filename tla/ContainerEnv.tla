---------------------------- MODULE ContainerEnv ----------------------------
(***************************************************************************)
(* resolveEnv (internal/discovery/env.go): the viewer rebuilds the         *)
(* environment of a container from its spec and the ConfigMaps, entry by   *)
(* entry, and never reads a Secret.  Beside it, real is what the kubelet   *)
(* makes of the same entries, Secrets included.  The spec is chosen one    *)
(* entry at a time.                                                        *)
(*                                                                         *)
(* Data keys and variables have the same names: the Prefix of an envFrom   *)
(* entry is taken to be part of the key.                                   *)
(***************************************************************************)
EXTENDS Integers

CONSTANTS
    Names,          \* variables, and keys of ConfigMaps and Secrets
    Values,         \* what the spec, a ConfigMap or a Secret can set one to
    ConfigMaps,     \* names of ConfigMaps that the spec refers to
    Secrets,        \* names of Secrets that it refers to
    NotSet,         \* a variable or key that is not there
    Default,        \* the service's built-in default
    MaxEnvEntries   \* bound: entries of envFrom and env together

ASSUME EnvAssumption ==
    /\ NotSet \notin Values \cup {Default}
    /\ MaxEnvEntries \in Nat

VARIABLES
    configMaps,     \* the ConfigMap of each name, Missing if there is none
    secrets,        \* the Secret of each name, likewise
    inList,         \* which list resolveEnv is in: envFrom, then env
    entries,        \* how many entries it has seen
    envVars,        \* environment.vars
    secretEnvFrom,  \* environment.secretEnvFrom
    problems,       \* environment.problems, as the entries they are about
    real,           \* the variables that the kubelet sets
    blocked,        \* what the kubelet waits for: "ConfigMap", "Secret"
    shadowed        \* history: variables that an import from a Secret redefined

spec == <<configMaps, secrets>>
viewer == <<envVars, secretEnvFrom, problems>>
kubelet == <<real, blocked, shadowed>>
envState == <<spec, inList, entries, viewer, kubelet>>

Missing == [exists |-> FALSE, data |-> [k \in Names |-> NotSet]]
Objects == {Missing} \cup
    [exists : {TRUE}, data : [Names -> Values \cup {NotSet}]]

\* A Value, with the reason it is Unresolved for, "" if it is not.
Value(v, why) == [value |-> v, unresolved |-> why]
Reasons == {"", "expansion", "the pod cannot start", "Secret", "pod", "envFrom Secret"}
Unset == Value(NotSet, "")

EnvInit ==
    /\ configMaps \in [ConfigMaps -> Objects]
    /\ secrets \in [Secrets -> Objects]
    /\ inList = "envFrom" /\ entries = 0
    /\ envVars = [n \in Names |-> Unset]
    /\ secretEnvFrom = {}
    /\ problems = {}
    /\ real = [n \in Names |-> NotSet]
    /\ blocked = {}
    /\ shadowed = {}

-----------------------------------------------------------------------------
(* The kubelet: envFrom in order, then env in order, later definitions     *)
(* winning.                                                                *)

Redefined(data) == {n \in Names : data[n] # NotSet}

Imported(data) == [n \in Names |-> IF data[n] # NotSet THEN data[n] ELSE real[n]]

\* The container does not start before a required reference leads somewhere.
Awaits(kind, found, optional) ==
    blocked' = IF found \/ optional THEN blocked ELSE blocked \cup {kind}

\* An env entry sets n to v, or to nothing if its reference leads nowhere.
KubeletSets(n, v) ==
    /\ real' = IF v = NotSet THEN real ELSE [real EXCEPT ![n] = v]
    /\ shadowed' = IF v = NotSet THEN shadowed ELSE shadowed \ {n}

Entry(list) ==
    /\ inList = list
    /\ entries < MaxEnvEntries
    /\ entries' = entries + 1
    /\ UNCHANGED <<spec, inList>>

-----------------------------------------------------------------------------
(* envFrom. *)

\* Variant of ImportProblems: an import of a missing ConfigMap is skipped.
NoImportProblems(m, optional) == problems

ImportProblems(m, optional) ==
    IF configMaps[m].exists \/ optional
      THEN problems ELSE problems \cup {<<"envFrom", m>>}

ImportConfigMap(m, optional) ==
    LET data == configMaps[m].data IN
    /\ Entry("envFrom")
    /\ envVars' = [n \in Names |-> IF data[n] # NotSet THEN Value(data[n], "")
                                                      ELSE envVars[n]]
    /\ problems' = ImportProblems(m, optional)
    /\ UNCHANGED secretEnvFrom
    /\ real' = Imported(data)
    /\ Awaits("ConfigMap", configMaps[m].exists, optional)
    /\ shadowed' = shadowed \ Redefined(data)

ImportSecret(s, optional) ==
    LET data == secrets[s].data IN
    /\ Entry("envFrom")
    /\ secretEnvFrom' = secretEnvFrom \cup {s}
    /\ UNCHANGED <<envVars, problems>>
    /\ real' = Imported(data)
    /\ Awaits("Secret", secrets[s].exists, optional)
    /\ shadowed' = shadowed \cup {n \in Redefined(data) : envVars[n] # Unset}

\* The loop over container.EnvFrom ends, the one over container.Env begins.
EnvFromDone ==
    /\ inList = "envFrom"
    /\ inList' = "env"
    /\ UNCHANGED <<spec, entries, viewer, kubelet>>

-----------------------------------------------------------------------------
(* env: resolveVar, and what resolveEnv does with its Value. *)

Set(n, v) ==
    /\ envVars' = [envVars EXCEPT ![n] = v]
    /\ problems' = IF v.unresolved = "the pod cannot start"
                     THEN problems \cup {<<"env", n>>} ELSE problems
    /\ UNCHANGED secretEnvFrom

Literal(n, v) ==
    /\ Entry("env")
    /\ Set(n, Value(v, ""))
    /\ KubeletSets(n, v)
    /\ UNCHANGED blocked

\* A literal that uses $(VAR): the kubelet expands it.
Expanded(n, v) ==
    /\ Entry("env")
    /\ Set(n, Value(NotSet, "expansion"))
    /\ KubeletSets(n, v)
    /\ UNCHANGED blocked

KeyRefValue(m, k) ==
    IF configMaps[m].data[k] # NotSet
      THEN Value(configMaps[m].data[k], "")
      ELSE Value(NotSet, "the pod cannot start")

\* configMapKeyRef.  An optional one that leads nowhere sets nothing.
FromConfigMap(n, m, k, optional) ==
    LET found == configMaps[m].data[k] # NotSet IN
    /\ Entry("env")
    /\ IF found \/ ~optional THEN Set(n, KeyRefValue(m, k)) ELSE UNCHANGED viewer
    /\ KubeletSets(n, configMaps[m].data[k])
    /\ Awaits("ConfigMap", found, optional)

SecretValue == Value(NotSet, "Secret")

\* secretKeyRef, optional or not.
FromSecret(n, s, k, optional) ==
    /\ Entry("env")
    /\ Set(n, SecretValue)
    /\ KubeletSets(n, secrets[s].data[k])
    /\ Awaits("Secret", secrets[s].data[k] # NotSet, optional)

\* fieldRef and resourceFieldRef, except metadata.namespace, which is a literal.
FromPod(n, v) ==
    /\ Entry("env")
    /\ Set(n, Value(NotSet, "pod"))
    /\ KubeletSets(n, v)
    /\ UNCHANGED blocked

\* resolveEnv returns.
Return ==
    /\ inList = "env"
    /\ inList' = "done"
    /\ UNCHANGED <<spec, entries, viewer, kubelet>>

EnvNext ==
    \/ \E m \in ConfigMaps, optional \in BOOLEAN : ImportConfigMap(m, optional)
    \/ \E s \in Secrets, optional \in BOOLEAN : ImportSecret(s, optional)
    \/ EnvFromDone
    \/ \E n \in Names, v \in Values : Literal(n, v) \/ Expanded(n, v) \/ FromPod(n, v)
    \/ \E n, k \in Names, m \in ConfigMaps, optional \in BOOLEAN :
         FromConfigMap(n, m, k, optional)
    \/ \E n, k \in Names, s \in Secrets, optional \in BOOLEAN :
         FromSecret(n, s, k, optional)
    \/ Return

EnvSpec == EnvInit /\ [][EnvNext]_envState

-----------------------------------------------------------------------------
\* Variant of Lookup: a Secret that is imported may not set a variable.
LookupIgnoresSecrets(n) == IF envVars[n] # Unset THEN envVars[n] ELSE Value(Default, "")

Lookup(n) == \* environment.lookup
    IF envVars[n] # Unset THEN envVars[n]
    ELSE Value(Default, IF secretEnvFrom # {} THEN "envFrom Secret" ELSE "")

(* Properties. *)

\* The type invariant.
TypeOK ==
    /\ configMaps \in [ConfigMaps -> Objects]
    /\ secrets \in [Secrets -> Objects]
    /\ inList \in {"envFrom", "env", "done"}
    /\ entries \in 0..MaxEnvEntries
    /\ envVars \in [Names -> [value : Values \cup {NotSet}, unresolved : Reasons]]
    /\ secretEnvFrom \in SUBSET Secrets
    /\ problems \in SUBSET (({"envFrom"} \X ConfigMaps) \cup ({"env"} \X Names))
    /\ real \in [Names -> Values \cup {NotSet}]
    /\ blocked \in SUBSET {"ConfigMap", "Secret"}
    /\ shadowed \in SUBSET Names

\* What the program in the container sees.
Seen(n) == IF real[n] = NotSet THEN Default ELSE real[n]

\* The value is shown without a warning.
Certain(n) == inList = "done" /\ Lookup(n).unresolved = ""

\* env.go:20-22, "Unresolved, when set, says why Value may not be what the
\* container sees": a value without that reason is what it sees, once the pod
\* starts - unless an import from a Secret redefines an imported variable.
CertainIsReal ==
    \A n \in Names :
        Certain(n) /\ blocked = {} /\ n \notin shadowed => Lookup(n).value = Seen(n)

\* README.md:34: a pod has a start problem exactly when a ConfigMap or key that it
\* requires is not there.
ProblemsAreBlocks == problems # {} <=> "ConfigMap" \in blocked

-----------------------------------------------------------------------------
(* What the repository says and the code does not do. *)

\* env.go:37, "resolved the way the kubelet builds it: envFrom in order, then env
\* in order, later definitions winning".
LaterDefinitionsWin ==
    \A n \in Names : Certain(n) /\ blocked = {} => Lookup(n).value = Seen(n)
=============================================================================
