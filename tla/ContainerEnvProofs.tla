------------------------- MODULE ContainerEnvProofs -------------------------
(* Theorems about ContainerEnv, for every spec, ConfigMaps and Secrets, and that *)
(* Container, in which a profile's path comes out of it, keeps them.            *)
EXTENDS Container, TLAPS

\* A variable that is set without a warning has the value the kubelet gave it,
\* and one that is not set could only come from an import from a Secret.
ValuesInv ==
    \A n \in Names :
        /\ envVars[n] # Unset /\ envVars[n].unresolved = "" /\ n \notin shadowed =>
             envVars[n].value = real[n] /\ real[n] # NotSet
        /\ envVars[n] = Unset /\ secretEnvFrom = {} => real[n] = NotSet

Inv == TypeOK /\ ValuesInv /\ ProblemsAreBlocks

EnvValues == [value : Values \cup {NotSet}, unresolved : Reasons]

\* The data of an object.
LEMMA ObjectData ==
    ASSUME NEW o \in Objects
    PROVE  /\ o.data \in [Names -> Values \cup {NotSet}]
           /\ o.exists \in BOOLEAN
  <1>1. CASE o = Missing
    BY <1>1 DEF Missing
  <1>2. CASE o \in [exists : {TRUE}, data : [Names -> Values \cup {NotSet}]]
    BY <1>2
  <1> QED BY <1>1, <1>2 DEF Objects

\* A Value has the fields it was made from, and is not Unset if it holds a value.
LEMMA ValueFields ==
    ASSUME NEW v \in Values \cup {NotSet}, NEW why \in Reasons
    PROVE  /\ Value(v, why) \in EnvValues
           /\ Value(v, why).value = v /\ Value(v, why).unresolved = why
           /\ v # NotSet \/ why # "" => Value(v, why) # Unset
  <1>1. /\ Value(v, why).value = v /\ Value(v, why).unresolved = why
        /\ Value(v, why) \in EnvValues
    BY DEF Value, EnvValues
  <1>2. Unset.value = NotSet /\ Unset.unresolved = ""
    BY DEF Unset, Value
  <1> QED BY <1>1, <1>2

\* Nothing is set at first.
LEMMA InitInv == EnvInit => Inv
  <1> SUFFICES ASSUME EnvInit PROVE Inv
    OBVIOUS
  <1>1. Unset \in EnvValues
    BY ValueFields DEF Unset, Reasons
  <1>2. envVars \in [Names -> EnvValues]
    BY <1>1 DEF EnvInit
  <1>3. 0 \in 0..MaxEnvEntries
    BY EnvAssumption
  <1>4. TypeOK
    BY <1>2, <1>3 DEF EnvInit, TypeOK, EnvValues
  <1>5. ValuesInv /\ ProblemsAreBlocks
    BY DEF EnvInit, ValuesInv, ProblemsAreBlocks
  <1> QED BY <1>4, <1>5 DEF Inv

\* One entry of either list keeps the types of what it leaves alone.
LEMMA EntryType ==
    ASSUME TypeOK, NEW list, Entry(list)
    PROVE  /\ configMaps' \in [ConfigMaps -> Objects]
           /\ secrets' \in [Secrets -> Objects]
           /\ inList' \in {"envFrom", "env", "done"}
           /\ entries' \in 0..MaxEnvEntries
  BY EnvAssumption DEF TypeOK, Entry, spec

\* A container waits for a ConfigMap after an entry if it did before or if the
\* entry requires one that is not there.
LEMMA AwaitsKind ==
    ASSUME blocked \in SUBSET {"ConfigMap", "Secret"},
           NEW kind \in {"ConfigMap", "Secret"},
           NEW found \in BOOLEAN, NEW optional \in BOOLEAN,
           Awaits(kind, found, optional)
    PROVE  /\ blocked' \in SUBSET {"ConfigMap", "Secret"}
           /\ "ConfigMap" \in blocked' <=>
                "ConfigMap" \in blocked \/ (kind = "ConfigMap" /\ ~found /\ ~optional)
  BY DEF Awaits

\* An import of a ConfigMap sets what it holds on both sides.
LEMMA ImportConfigMapStep ==
    ASSUME Inv, NEW m \in ConfigMaps, NEW optional \in BOOLEAN,
           ImportConfigMap(m, optional)
    PROVE  Inv'
  <1> DEFINE data == configMaps[m].data
  <1>0. configMaps[m] \in Objects
    BY DEF Inv, TypeOK
  <1>1. /\ data \in [Names -> Values \cup {NotSet}]
        /\ configMaps[m].exists \in BOOLEAN
    BY <1>0, ObjectData
  <1>2. \A n \in Names :
          envVars'[n] = IF data[n] # NotSet THEN Value(data[n], "") ELSE envVars[n]
    BY DEF ImportConfigMap
  <1>3. \A n \in Names : real'[n] = IF data[n] # NotSet THEN data[n] ELSE real[n]
    BY DEF ImportConfigMap, Imported
  <1>4. /\ shadowed' = shadowed \ Redefined(data)
        /\ secretEnvFrom' = secretEnvFrom
    BY DEF ImportConfigMap
  <1>5. /\ blocked' \in SUBSET {"ConfigMap", "Secret"}
        /\ "ConfigMap" \in blocked' <=>
             "ConfigMap" \in blocked \/ (~configMaps[m].exists /\ ~optional)
    BY <1>1, AwaitsKind DEF Inv, TypeOK, ImportConfigMap
  <1>6. problems' = IF configMaps[m].exists \/ optional
                      THEN problems ELSE problems \cup {<<"envFrom", m>>}
    BY DEF ImportConfigMap, ImportProblems
  <1>7. TypeOK'
    <2>1. envVars' \in [Names -> EnvValues]
      <3>1. "" \in Reasons
        BY DEF Reasons
      <3>2. \A n \in Names : Value(data[n], "") \in EnvValues
        BY <1>1, <3>1, ValueFields
      <3>3. envVars \in [Names -> EnvValues]
        BY DEF Inv, TypeOK, EnvValues
      <3>4. envVars' = [n \in Names |-> IF data[n] # NotSet THEN Value(data[n], "")
                                                          ELSE envVars[n]]
        BY DEF ImportConfigMap
      <3> HIDE DEF data
      <3> QED BY <3>2, <3>3, <3>4
    <2>2. real' \in [Names -> Values \cup {NotSet}]
      BY <1>1 DEF Inv, TypeOK, ImportConfigMap, Imported
    <2>3. problems' \in SUBSET (({"envFrom"} \X ConfigMaps) \cup ({"env"} \X Names))
      BY <1>6 DEF Inv, TypeOK
    <2>4. Entry("envFrom")
      BY DEF ImportConfigMap
    <2> QED BY <1>4, <1>5, <2>1, <2>2, <2>3, <2>4, EntryType DEF Inv, TypeOK, EnvValues
  <1>8. ValuesInv'
    <2> SUFFICES ASSUME NEW n \in Names
                 PROVE  /\ envVars'[n] # Unset /\ envVars'[n].unresolved = ""
                              /\ n \notin shadowed' =>
                             envVars'[n].value = real'[n] /\ real'[n] # NotSet
                        /\ envVars'[n] = Unset /\ secretEnvFrom' = {} => real'[n] = NotSet
      BY DEF ValuesInv, Unset, Value
    <2>1. CASE data[n] # NotSet
      <3>1. envVars'[n] = Value(data[n], "") /\ real'[n] = data[n]
        BY <1>2, <1>3, <2>1
      <3>2. /\ Value(data[n], "").value = data[n]
            /\ Value(data[n], "") # Unset
        BY <1>1, <2>1, ValueFields DEF Reasons
      <3> QED BY <2>1, <3>1, <3>2
    <2>2. CASE data[n] = NotSet
      <3>1. envVars'[n] = envVars[n] /\ real'[n] = real[n]
        BY <1>2, <1>3, <2>2
      <3>2. n \in shadowed => n \in shadowed'
        BY <1>4, <2>2 DEF Redefined
      <3> QED BY <1>4, <3>1, <3>2 DEF Inv, ValuesInv
    <2> QED BY <2>1, <2>2
  <1>9. ProblemsAreBlocks'
    BY <1>5, <1>6 DEF Inv, ProblemsAreBlocks
  <1> QED BY <1>7, <1>8, <1>9 DEF Inv

\* An import from a Secret is remembered, and shadows what was imported before.
LEMMA ImportSecretStep ==
    ASSUME Inv, NEW s \in Secrets, NEW optional \in BOOLEAN,
           ImportSecret(s, optional)
    PROVE  Inv'
  <1> DEFINE data == secrets[s].data
  <1>0. secrets[s] \in Objects
    BY DEF Inv, TypeOK
  <1>1. /\ data \in [Names -> Values \cup {NotSet}]
        /\ secrets[s].exists \in BOOLEAN
    BY <1>0, ObjectData
  <1>2. envVars' = envVars /\ problems' = problems /\ secretEnvFrom' = secretEnvFrom \cup {s}
    BY DEF ImportSecret
  <1>3. \A n \in Names : real'[n] = IF data[n] # NotSet THEN data[n] ELSE real[n]
    BY DEF ImportSecret, Imported
  <1>4. shadowed' = shadowed \cup {n \in Redefined(data) : envVars[n] # Unset}
    BY DEF ImportSecret
  <1>5. /\ blocked' \in SUBSET {"ConfigMap", "Secret"}
        /\ "ConfigMap" \in blocked' <=> "ConfigMap" \in blocked
    BY <1>1, AwaitsKind DEF Inv, TypeOK, ImportSecret
  <1>6. TypeOK'
    <2>1. real' \in [Names -> Values \cup {NotSet}]
      BY <1>1 DEF Inv, TypeOK, ImportSecret, Imported
    <2>2. shadowed' \in SUBSET Names
      BY <1>4 DEF Inv, TypeOK, Redefined
    <2>3. Entry("envFrom")
      BY DEF ImportSecret
    <2> QED BY <1>2, <1>5, <2>1, <2>2, <2>3, EntryType DEF Inv, TypeOK
  <1>7. ValuesInv'
    <2> SUFFICES ASSUME NEW n \in Names
                 PROVE  /\ envVars'[n] # Unset /\ envVars'[n].unresolved = ""
                              /\ n \notin shadowed' =>
                             envVars'[n].value = real'[n] /\ real'[n] # NotSet
                        /\ envVars'[n] = Unset /\ secretEnvFrom' = {} => real'[n] = NotSet
      BY DEF ValuesInv, Unset, Value
    <2>1. secretEnvFrom' # {}
      BY <1>2
    <2>2. envVars[n] # Unset /\ n \notin shadowed' => n \notin shadowed /\ data[n] = NotSet
      BY <1>4 DEF Redefined
    <2> QED BY <1>2, <1>3, <2>1, <2>2 DEF Inv, ValuesInv
  <1>8. ProblemsAreBlocks'
    BY <1>2, <1>5 DEF Inv, ProblemsAreBlocks
  <1> QED BY <1>6, <1>7, <1>8 DEF Inv

\* An env entry: w is the Value the viewer sets, v what the kubelet sets.  The two
\* agree unless w comes with a warning.
LEMMA EnvStep ==
    ASSUME Inv, Entry("env"),
           NEW n \in Names, NEW v \in Values \cup {NotSet}, NEW w \in EnvValues,
           Set(n, w), KubeletSets(n, v),
           w # Unset, w.unresolved = "" => w.value = v /\ v # NotSet,
           blocked' \in SUBSET {"ConfigMap", "Secret"},
           "ConfigMap" \in blocked' <=>
             "ConfigMap" \in blocked \/ w.unresolved = "the pod cannot start"
    PROVE  Inv'
  <1>1. /\ envVars' = [envVars EXCEPT ![n] = w]
        /\ problems' = IF w.unresolved = "the pod cannot start"
                         THEN problems \cup {<<"env", n>>} ELSE problems
        /\ secretEnvFrom' = secretEnvFrom
    BY DEF Set
  <1>2. /\ real' = IF v = NotSet THEN real ELSE [real EXCEPT ![n] = v]
        /\ shadowed' = IF v = NotSet THEN shadowed ELSE shadowed \ {n}
    BY DEF KubeletSets
  <1>3. TypeOK'
    <2>1. envVars' \in [Names -> EnvValues]
      BY <1>1 DEF Inv, TypeOK, EnvValues
    <2>2. /\ real' \in [Names -> Values \cup {NotSet}]
          /\ shadowed' \in SUBSET Names
      <3>1. real \in [Names -> Values \cup {NotSet}] /\ shadowed \in SUBSET Names
        BY DEF Inv, TypeOK
      <3>2. CASE v = NotSet
        BY <1>2, <3>1, <3>2
      <3>3. CASE v # NotSet
        BY <1>2, <3>1, <3>3
      <3> QED BY <3>2, <3>3
    <2>3. problems' \in SUBSET (({"envFrom"} \X ConfigMaps) \cup ({"env"} \X Names))
      <3>1. <<"env", n>> \in {"env"} \X Names
        OBVIOUS
      <3>2. problems' = problems \/ problems' = problems \cup {<<"env", n>>}
        BY <1>1
      <3> QED BY <3>1, <3>2 DEF Inv, TypeOK
    <2> QED BY <1>1, <2>1, <2>2, <2>3, EntryType DEF Inv, TypeOK, EnvValues
  <1>4. ValuesInv'
    <2> SUFFICES ASSUME NEW x \in Names
                 PROVE  /\ envVars'[x] # Unset /\ envVars'[x].unresolved = ""
                              /\ x \notin shadowed' =>
                             envVars'[x].value = real'[x] /\ real'[x] # NotSet
                        /\ envVars'[x] = Unset /\ secretEnvFrom' = {} => real'[x] = NotSet
      BY DEF ValuesInv, Unset, Value
    <2>1. CASE x = n
      <3>1. envVars'[x] = w
        BY <1>1, <2>1 DEF Inv, TypeOK
      <3>2. v # NotSet => real'[x] = v
        BY <1>2, <2>1 DEF Inv, TypeOK
      <3> QED BY <3>1, <3>2
    <2>2. CASE x # n
      <3>1. envVars'[x] = envVars[x] /\ real'[x] = real[x]
        BY <1>1, <1>2, <2>2 DEF Inv, TypeOK
      <3>2. x \in shadowed => x \in shadowed'
        BY <1>2, <2>2
      <3> QED BY <1>1, <3>1, <3>2 DEF Inv, ValuesInv
    <2> QED BY <2>1, <2>2
  <1>5. ProblemsAreBlocks'
    BY <1>1 DEF Inv, ProblemsAreBlocks
  <1> QED BY <1>3, <1>4, <1>5 DEF Inv

\* Inv is inductive.
LEMMA Inductive == Inv /\ [EnvNext]_envState => Inv'
  <1> SUFFICES ASSUME Inv, [EnvNext]_envState PROVE Inv'
    OBVIOUS
  <1> USE DEF Reasons
  <1>1. ASSUME NEW n \in Names, NEW v \in Values, Literal(n, v)
        PROVE  Inv'
    <2>1. /\ Value(v, "") \in EnvValues /\ Value(v, "") # Unset
          /\ Value(v, "").value = v /\ Value(v, "").unresolved = "" /\ v # NotSet
      BY ValueFields, EnvAssumption
    <2>2. blocked' = blocked /\ blocked \in SUBSET {"ConfigMap", "Secret"}
      BY <1>1 DEF Literal, Inv, TypeOK
    <2>3. Entry("env") /\ Set(n, Value(v, "")) /\ KubeletSets(n, v)
      BY <1>1 DEF Literal
    <2> QED BY <2>1, <2>2, <2>3, EnvStep
  <1>2. ASSUME NEW n \in Names, NEW v \in Values, Expanded(n, v)
        PROVE  Inv'
    <2> DEFINE w == Value(NotSet, "expansion")
    <2>1. w \in EnvValues /\ w # Unset /\ w.unresolved = "expansion"
      BY ValueFields
    <2>2. blocked' = blocked /\ blocked \in SUBSET {"ConfigMap", "Secret"}
      BY <1>2 DEF Expanded, Inv, TypeOK
    <2>3. Entry("env") /\ Set(n, w) /\ KubeletSets(n, v)
      BY <1>2 DEF Expanded
    <2> HIDE DEF w
    <2> QED BY <2>1, <2>2, <2>3, EnvStep
  <1>3. ASSUME NEW n \in Names, NEW v \in Values, FromPod(n, v)
        PROVE  Inv'
    <2> DEFINE w == Value(NotSet, "pod")
    <2>1. w \in EnvValues /\ w # Unset /\ w.unresolved = "pod"
      BY ValueFields
    <2>2. blocked' = blocked /\ blocked \in SUBSET {"ConfigMap", "Secret"}
      BY <1>3 DEF FromPod, Inv, TypeOK
    <2>3. Entry("env") /\ Set(n, w) /\ KubeletSets(n, v)
      BY <1>3 DEF FromPod
    <2> HIDE DEF w
    <2> QED BY <2>1, <2>2, <2>3, EnvStep
  <1>4. ASSUME NEW n \in Names, NEW k \in Names, NEW m \in ConfigMaps,
               NEW optional \in BOOLEAN, FromConfigMap(n, m, k, optional)
        PROVE  Inv'
    <2> DEFINE v == configMaps[m].data[k]
               w == KeyRefValue(m, k)
    <2>1. v \in Values \cup {NotSet}
      BY ObjectData DEF Inv, TypeOK
    <2>2. /\ Entry("env") /\ KubeletSets(n, v)
          /\ IF v # NotSet \/ ~optional THEN Set(n, w) ELSE UNCHANGED viewer
          /\ Awaits("ConfigMap", v # NotSet, optional)
      BY <1>4 DEF FromConfigMap
    <2>3. /\ blocked' \in SUBSET {"ConfigMap", "Secret"}
          /\ "ConfigMap" \in blocked' <=>
               "ConfigMap" \in blocked \/ (v = NotSet /\ ~optional)
      BY <2>2, AwaitsKind DEF Inv, TypeOK
    <2>4. CASE v # NotSet
      <3>1. w = Value(v, "")
        BY <2>4 DEF KeyRefValue
      <3>2. w \in EnvValues /\ w # Unset /\ w.value = v /\ w.unresolved = ""
        <4>1. /\ Value(v, "") \in EnvValues /\ Value(v, "") # Unset
              /\ Value(v, "").value = v /\ Value(v, "").unresolved = ""
          <5> HIDE DEF v
          <5> QED BY <2>1, <2>4, ValueFields
        <4> QED BY <3>1, <4>1
      <3>3. Set(n, w)
        BY <2>2, <2>4
      <3> HIDE DEF v, w
      <3> QED BY <2>1, <2>2, <2>3, <2>4, <3>2, <3>3, EnvStep
    <2>5. CASE v = NotSet /\ ~optional
      <3>1. w = Value(NotSet, "the pod cannot start")
        BY <2>5 DEF KeyRefValue
      <3>2. w \in EnvValues /\ w # Unset /\ w.unresolved = "the pod cannot start"
        <4>1. /\ Value(NotSet, "the pod cannot start") \in EnvValues
              /\ Value(NotSet, "the pod cannot start") # Unset
              /\ Value(NotSet, "the pod cannot start").unresolved = "the pod cannot start"
          BY ValueFields
        <4> QED BY <3>1, <4>1
      <3>3. Set(n, w)
        BY <2>2, <2>5
      <3> HIDE DEF v, w
      <3> QED BY <2>1, <2>2, <2>3, <2>5, <3>2, <3>3, EnvStep
    <2>6. CASE v = NotSet /\ optional
      <3>1. /\ real' = real /\ shadowed' = shadowed
        BY <2>2, <2>6 DEF KubeletSets
      <3>2. envVars' = envVars /\ secretEnvFrom' = secretEnvFrom /\ problems' = problems
        BY <2>2, <2>6 DEF viewer
      <3>3. TypeOK'
        BY <2>2, <2>3, <3>1, <3>2, EntryType DEF Inv, TypeOK
      <3>4. ValuesInv' /\ ProblemsAreBlocks'
        BY <2>3, <2>6, <3>1, <3>2 DEF Inv, ValuesInv, ProblemsAreBlocks
      <3> QED BY <3>3, <3>4 DEF Inv
    <2> QED BY <2>4, <2>5, <2>6
  <1>5. ASSUME NEW n \in Names, NEW k \in Names, NEW s \in Secrets,
               NEW optional \in BOOLEAN, FromSecret(n, s, k, optional)
        PROVE  Inv'
    <2> DEFINE v == secrets[s].data[k]
               w == SecretValue
    <2>1. v \in Values \cup {NotSet}
      BY ObjectData DEF Inv, TypeOK
    <2>2. /\ Entry("env") /\ Set(n, w) /\ KubeletSets(n, v)
          /\ Awaits("Secret", v # NotSet, optional)
      BY <1>5 DEF FromSecret
    <2>3. /\ blocked' \in SUBSET {"ConfigMap", "Secret"}
          /\ "ConfigMap" \in blocked' <=> "ConfigMap" \in blocked
      BY <2>2, AwaitsKind DEF Inv, TypeOK
    <2>4. w \in EnvValues /\ w # Unset /\ w.unresolved = "Secret"
      BY ValueFields DEF SecretValue
    <2> HIDE DEF v, w
    <2> QED BY <2>1, <2>2, <2>3, <2>4, EnvStep
  <1>6. CASE EnvFromDone \/ Return
    <2>1. /\ UNCHANGED <<configMaps, secrets, entries, envVars, secretEnvFrom, problems>>
          /\ UNCHANGED <<real, blocked, shadowed>>
          /\ inList' \in {"envFrom", "env", "done"}
      BY <1>6 DEF EnvFromDone, Return, spec, viewer, kubelet
    <2> QED BY <2>1 DEF Inv, TypeOK, ValuesInv, ProblemsAreBlocks
  <1>7. CASE UNCHANGED envState
    <2>1. /\ UNCHANGED <<configMaps, secrets, entries, envVars, secretEnvFrom, problems>>
          /\ UNCHANGED <<real, blocked, shadowed, inList>>
      BY <1>7 DEF envState, spec, viewer, kubelet
    <2> QED BY <2>1 DEF Inv, TypeOK, ValuesInv, ProblemsAreBlocks
  <1> QED
    BY <1>1, <1>2, <1>3, <1>4, <1>5, <1>6, <1>7, ImportConfigMapStep, ImportSecretStep
    DEF EnvNext

\* The strengthened invariant holds of every prefix of every spec (env.go:49-88).
LEMMA Invariance == EnvSpec => []Inv
  <1>1. EnvInit => Inv
    BY InitInv
  <1>2. Inv /\ [EnvNext]_envState => Inv'
    BY Inductive
  <1> QED BY <1>1, <1>2, PTL DEF EnvSpec

\* Every variable of resolveEnv keeps its type.
THEOREM TypeCorrect == EnvSpec => []TypeOK
  <1>1. Inv => TypeOK
    BY DEF Inv
  <1> QED BY <1>1, Invariance, PTL

\* Whatever a container imports and sets, in whatever order, a value that the
\* viewer shows without a warning is the one the program sees, unless an import
\* from a Secret redefined it.
THEOREM ValuesAreReal == EnvSpec => []CertainIsReal
  <1>1. Inv => CertainIsReal
    <2> SUFFICES ASSUME Inv, NEW n \in Names, Certain(n), n \notin shadowed
                 PROVE  Lookup(n).value = Seen(n)
      BY DEF CertainIsReal
    <2>1. CASE envVars[n] # Unset
      <3>1. Lookup(n) = envVars[n] /\ envVars[n].unresolved = ""
        BY <2>1 DEF Certain, Lookup
      <3> QED BY <2>1, <3>1 DEF Inv, ValuesInv, Seen
    <2>2. CASE envVars[n] = Unset
      <3>1. secretEnvFrom = {}
        BY <2>2 DEF Certain, Lookup, Value
      <3>2. Lookup(n).value = Default
        BY <2>2 DEF Lookup, Value
      <3> QED BY <2>2, <3>1, <3>2 DEF Inv, ValuesInv, Seen
    <2> QED BY <2>1, <2>2
  <1> QED BY <1>1, Invariance, PTL

\* A pod has a start problem exactly when the kubelet waits for a ConfigMap or for
\* a key of one.
THEOREM ProblemsExact == EnvSpec => []ProblemsAreBlocks
  <1>1. Inv => ProblemsAreBlocks
    BY DEF Inv
  <1> QED BY <1>1, Invariance, PTL

-----------------------------------------------------------------------------
(* Container. *)

\* While it finds a profile, a container's environment is resolved as ContainerEnv
\* says and nothing else happens to it: the theorems above hold of Container.
THEOREM ContainerResolvesEnv == ContainerSpec => EnvSpec
  <1>1. ContainerInit => EnvInit
    BY DEF ContainerInit
  <1>2. [ContainerNext]_<<envState, vars>> => [EnvNext]_envState
    BY DEF ContainerNext, ResolveEnv, ResolveArgs, ResolvePath, ReadPod
  <1> QED BY <1>1, <1>2, PTL DEF ContainerSpec, EnvSpec

\* The path that lookup finds is one that a variable may hold (env.go:145-154).
LEMMA LookupIsPath ==
    ASSUME TypeOK
    PROVE  /\ Default \in Paths
           /\ envVars[ProfilePath] = Unset \/ Lookup(ProfilePath).unresolved = "" =>
                Lookup(ProfilePath).value \in Paths
  <1> DEFINE v == envVars[ProfilePath]
  <1>1. /\ Default \in Paths /\ Values \subseteq Paths
        /\ ProfilePath \in Names
    BY ContainerAssumption
  <1>2. v \in [value : Values \cup {NotSet}, unresolved : Reasons]
    BY <1>1 DEF TypeOK
  <1>3. CASE v = Unset
    BY <1>1, <1>3 DEF Lookup, Value
  <1>4. CASE v # Unset /\ v.unresolved = ""
    <2>1. v.value # NotSet
      BY <1>2, <1>4 DEF Unset, Value
    <2>2. v.value \in Values
      BY <1>2, <2>1
    <2> QED BY <1>1, <1>4, <2>2 DEF Lookup
  <1>5. CASE v # Unset /\ v.unresolved # ""
    BY <1>1, <1>5 DEF Lookup
  <1> QED BY <1>3, <1>4, <1>5

\* Whatever path comes out of the environment or the arguments, it is read as Profile
\* says: the theorems about readFile hold of Container.
THEOREM ContainerReadsProfile == ContainerSpec => Spec
  <1>1. ContainerInit => Init
    BY DEF ContainerInit
  <1>2. TypeOK /\ [ContainerNext]_<<envState, vars>> => [Next]_vars
    <2> SUFFICES ASSUME TypeOK, [ContainerNext]_<<envState, vars>>
                 PROVE  [Next]_vars
      OBVIOUS
    <2>1. CASE ResolveEnv \/ UNCHANGED <<envState, vars>>
      BY <2>1 DEF ResolveEnv
    <2>2. CASE ResolveArgs
      BY <2>2 DEF ResolveArgs, Next
    <2>3. CASE ResolvePath
      <3>1. \E p \in Paths, u \in BOOLEAN : FromVariable(p, u)
        BY <2>3, LookupIsPath DEF ResolvePath
      <3> QED BY <3>1 DEF Next
    <2>4. CASE ReadPod
      BY <2>4 DEF ReadPod, Next
    <2> QED BY <2>1, <2>2, <2>3, <2>4 DEF ContainerNext
  <1> QED
    BY <1>1, <1>2, ContainerResolvesEnv, TypeCorrect, PTL DEF ContainerSpec, Spec
=============================================================================
