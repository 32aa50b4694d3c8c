------------------------ MODULE NamespaceReadProofs ------------------------
(* Theorems about NamespaceRead, for every set of Deployments and ConfigMaps. *)
EXTENDS NamespaceRead, TLAPS

Reading == step \in {"begun", "listed"}

\* What a read knows of the pairs broken ever since it began.
PersistentInv ==
    /\ Reading => brokenAll \subseteq Broken
    /\ step = "listed" => \A p \in brokenAll : p[2] \in listed[p[1]]
    /\ step = "read" => brokenAll \subseteq Missing(listed, found)

\* The pairs that were broken once, or whose ConfigMap was deleted meanwhile.
Explained == brokenAny \cup {p \in Pairs : p[2] \in deleted}

\* What it knows of the pairs it will report.
SeenInv ==
    /\ Reading => Broken \subseteq brokenAny
    /\ step = "listed" => Missing(listed, exist) \subseteq Explained
    /\ step = "read" => Missing(listed, found) \subseteq Explained

ReadInv == ReadTypeOK /\ PersistentInv /\ SeenInv

\* A pair is missing exactly when its Deployment refers to its ConfigMap and
\* there is none.
LEMMA MissingPairs ==
    ASSUME NEW refs, NEW cms, NEW p
    PROVE  p \in Missing(refs, cms) <=>
             p \in Pairs /\ p[2] \in refs[p[1]] /\ p[2] \notin cms
  BY DEF Missing

\* No read is under way at first.
LEMMA ReadInitInv == ReadInit => ReadInv
  <1> SUFFICES ASSUME ReadInit PROVE ReadInv
    OBVIOUS
  <1>1. ReadTypeOK
    BY DEF ReadInit, ReadTypeOK, Nothing
  <1>2. PersistentInv /\ SeenInv
    BY DEF ReadInit, PersistentInv, SeenInv, Reading
  <1> QED BY <1>1, <1>2 DEF ReadInv

\* Every change of the namespace keeps the type invariant.
LEMMA ClusterType ==
    ASSUME ReadTypeOK, Changed,
           needs' \in [Deployments -> SUBSET ConfigMaps],
           exist' \in SUBSET ConfigMaps
    PROVE  ReadTypeOK'
  <1>1. Missing(needs', exist') \subseteq Pairs
    BY DEF Missing
  <1>2. /\ brokenAll' \in SUBSET Pairs /\ brokenAny' \in SUBSET Pairs
        /\ deleted' \in SUBSET ConfigMaps
    BY <1>1 DEF ReadTypeOK, Changed, Watched, history
  <1> QED BY <1>2 DEF ReadTypeOK, Changed

\* Every change of the namespace keeps what a read under way knows: it makes a
\* listed reference one to a missing ConfigMap only by deleting the ConfigMap.
LEMMA ClusterStep ==
    ASSUME ReadInv, Changed,
           needs' \in [Deployments -> SUBSET ConfigMaps],
           exist' \in SUBSET ConfigMaps
    PROVE  ReadInv'
  <1>1. ReadTypeOK'
    BY ClusterType DEF ReadInv
  <1>2. /\ step' = step /\ listed' = listed /\ found' = found
        /\ Broken' = Missing(needs', exist')
    BY DEF Changed, Broken, Missing
  <1>3. CASE Reading
    <2>1. /\ brokenAll' = brokenAll \cap Broken'
          /\ brokenAny' = brokenAny \cup Broken'
          /\ deleted' = deleted \cup (exist \ exist')
      BY <1>2, <1>3 DEF Changed, Watched, Reading
    <2>2. PersistentInv'
      BY <1>2, <1>3, <2>1 DEF ReadInv, PersistentInv, Reading
    <2>3. Explained \subseteq Explained'
      BY <2>1 DEF Explained
    <2>4. step = "listed" => Missing(listed', exist') \subseteq Explained'
      <3> SUFFICES ASSUME step = "listed", NEW p \in Missing(listed', exist')
                   PROVE  p \in Explained'
        OBVIOUS
      <3>1. p \in Pairs /\ p[2] \in listed[p[1]] /\ p[2] \notin exist'
        BY <1>2, MissingPairs
      <3>2. CASE p[2] \in exist
        BY <2>1, <3>1, <3>2 DEF Explained
      <3>3. CASE p[2] \notin exist
        BY <2>3, <3>1, <3>3, MissingPairs DEF ReadInv, SeenInv
      <3> QED BY <3>2, <3>3
    <2>5. SeenInv'
      BY <1>2, <1>3, <2>1, <2>4 DEF ReadInv, SeenInv, Reading
    <2> QED BY <1>1, <2>2, <2>5 DEF ReadInv
  <1>4. CASE ~Reading
    <2>1. /\ brokenAll' = brokenAll /\ brokenAny' = brokenAny
          /\ deleted' = deleted /\ Explained' = Explained
      BY <1>4 DEF Changed, Reading, history, Explained
    <2>2. Missing(listed', found') = Missing(listed, found)
      BY <1>2 DEF Missing
    <2>3. PersistentInv' /\ SeenInv'
      BY <1>2, <1>4, <2>1, <2>2 DEF ReadInv, PersistentInv, SeenInv, Reading
    <2> QED BY <1>1, <2>3 DEF ReadInv
  <1> QED BY <1>3, <1>4

\* A read begins with what is broken then.
LEMMA DiscoverStep ==
    ASSUME ReadInv, Discover
    PROVE  ReadInv'
  <1>1. Broken' = Broken /\ Broken \in SUBSET Pairs
    BY DEF Discover, cluster, Broken, Missing
  <1>2. ReadTypeOK'
    BY <1>1 DEF ReadInv, ReadTypeOK, Discover, cluster
  <1>3. PersistentInv' /\ SeenInv'
    BY <1>1 DEF PersistentInv, SeenInv, Reading, Discover
  <1> QED BY <1>2, <1>3 DEF ReadInv

\* The list of the Deployments holds every reference that is broken by then, and
\* the list of the ConfigMaps none of the ConfigMaps that are missing by then.
LEMMA ReadStep ==
    ASSUME ReadInv, Read
    PROVE  ReadInv'
  <1>1. /\ needs' = needs /\ exist' = exist
        /\ brokenAll' = brokenAll /\ brokenAny' = brokenAny
        /\ deleted' = deleted
        /\ Broken' = Broken /\ Explained' = Explained
    BY DEF Read, cluster, history, Broken, Missing, Explained
  <1>2. ReadTypeOK'
    BY <1>1 DEF ReadInv, ReadTypeOK, Read, List, ListDeployments, ListConfigMaps
  <1>3. CASE step = "begun" /\ step' = "listed" /\ ListDeployments
    <2>1. listed' = needs /\ Missing(listed', exist') = Broken
      BY <1>1, <1>3 DEF ListDeployments, Broken, Missing
    <2>2. brokenAll \subseteq Broken /\ Broken \subseteq brokenAny
      BY <1>3 DEF ReadInv, PersistentInv, SeenInv, Reading
    <2>3. \A p \in brokenAll : p[2] \in needs[p[1]]
      BY <2>2, MissingPairs DEF Broken
    <2>4. PersistentInv'
      BY <1>1, <1>3, <2>1, <2>2, <2>3 DEF PersistentInv, Reading
    <2>5. SeenInv'
      BY <1>1, <1>3, <2>1, <2>2 DEF SeenInv, Reading, Explained
    <2> QED BY <1>2, <2>4, <2>5 DEF ReadInv
  <1>4. CASE step = "listed" /\ step' = "read" /\ ListConfigMaps
    <2>1. /\ found' = exist /\ listed' = listed
          /\ Missing(listed', found') = Missing(listed, exist)
      BY <1>4 DEF ListConfigMaps, Missing
    <2>2. \A p \in brokenAll : p \in Broken /\ p[2] \in listed[p[1]]
      BY <1>4 DEF ReadInv, PersistentInv, Reading
    <2>3. brokenAll \subseteq Missing(listed, exist)
      BY <2>2, MissingPairs DEF Broken
    <2>4. PersistentInv'
      BY <1>1, <1>4, <2>1, <2>3 DEF PersistentInv, Reading
    <2>5. SeenInv'
      BY <1>1, <1>4, <2>1 DEF ReadInv, SeenInv, Reading
    <2> QED BY <1>2, <2>4, <2>5 DEF ReadInv
  <1> QED BY <1>3, <1>4 DEF Read, List

\* A read that ends, with a Result or without, leaves nothing to know.
LEMMA EndStep ==
    ASSUME ReadInv, ListError \/ Return
    PROVE  ReadInv'
  <1>1. step' = "idle"
    BY DEF ListError, Return, Forget
  <1>2. Missing(listed, found) \in SUBSET Pairs
    BY DEF Missing
  <1>3. ReadTypeOK'
    BY <1>1, <1>2 DEF ReadInv, ReadTypeOK, ListError, Return, Forget, Nothing, cluster
  <1>4. PersistentInv' /\ SeenInv'
    BY <1>1 DEF PersistentInv, SeenInv, Reading
  <1> QED BY <1>3, <1>4 DEF ReadInv

\* ReadInv is inductive.
LEMMA ReadInductive == ReadInv /\ [ReadNext]_readVars => ReadInv'
  <1> SUFFICES ASSUME ReadInv, [ReadNext]_readVars PROVE ReadInv'
    OBVIOUS
  <1>1. ASSUME NEW d \in Deployments, NEW refs \in SUBSET ConfigMaps, Rollout(d, refs)
        PROVE  ReadInv'
    <2>1. /\ needs' \in [Deployments -> SUBSET ConfigMaps]
          /\ exist' \in SUBSET ConfigMaps
      BY <1>1 DEF ReadInv, ReadTypeOK, Rollout
    <2> QED BY <1>1, <2>1, ClusterStep DEF Rollout
  <1>2. ASSUME NEW m \in ConfigMaps, AddConfigMap(m)
        PROVE  ReadInv'
    <2>1. /\ needs' \in [Deployments -> SUBSET ConfigMaps]
          /\ exist' \in SUBSET ConfigMaps
      BY <1>2 DEF ReadInv, ReadTypeOK, AddConfigMap
    <2> QED BY <1>2, <2>1, ClusterStep DEF AddConfigMap
  <1>3. ASSUME NEW m \in ConfigMaps, DeleteConfigMap(m)
        PROVE  ReadInv'
    <2>1. /\ needs' \in [Deployments -> SUBSET ConfigMaps]
          /\ exist' \in SUBSET ConfigMaps
      BY <1>3 DEF ReadInv, ReadTypeOK, DeleteConfigMap
    <2> QED BY <1>3, <2>1, ClusterStep DEF DeleteConfigMap
  <1>4. CASE UNCHANGED readVars
    <2>1. /\ UNCHANGED <<needs, exist, step, listed, found, result>>
          /\ UNCHANGED <<brokenAll, brokenAny, deleted>>
      BY <1>4 DEF readVars, cluster, history
    <2>2. /\ Broken' = Broken
          /\ Missing(listed', found') = Missing(listed, found)
          /\ Missing(listed', exist') = Missing(listed, exist)
          /\ Explained' = Explained
      BY <2>1 DEF Broken, Missing, Explained
    <2> QED BY <2>1, <2>2 DEF ReadInv, ReadTypeOK, PersistentInv, SeenInv, Reading
  <1> QED BY <1>1, <1>2, <1>3, <1>4, DiscoverStep, ReadStep, EndStep DEF ReadNext

\* The variables of a read keep their types, and ReadInv holds of every state that
\* Discover and a changing namespace reach (discovery.go:115-145).
THEOREM ReadInvariance == ReadSpec => []ReadInv
  <1>1. ReadInit => ReadInv
    BY ReadInitInv
  <1>2. ReadInv /\ [ReadNext]_readVars => ReadInv'
    BY ReadInductive
  <1> QED BY <1>1, <1>2, PTL DEF ReadSpec

\* A reference that is broken all the time Discover runs is among the findings of
\* the Result, whatever is rolled out, created and deleted meanwhile.
THEOREM PersistentReported == ReadSpec => PersistentProblemReported
  <1>1. ReadInv /\ [ReadNext]_readVars => [ReadReturned => brokenAll \subseteq result']_readVars
    <2> SUFFICES ASSUME ReadInv, ReadNext, ReadReturned
                 PROVE  brokenAll \subseteq result'
      OBVIOUS
    <2>1. Return
      <3>1. ~(\E d \in Deployments, refs \in SUBSET ConfigMaps : Rollout(d, refs))
        BY DEF ReadReturned, Rollout, Changed
      <3>2. ~(\E m \in ConfigMaps : AddConfigMap(m) \/ DeleteConfigMap(m))
        BY DEF ReadReturned, AddConfigMap, DeleteConfigMap, Changed
      <3>3. ~ListError
        BY DEF ReadReturned, ListError
      <3> QED BY <3>1, <3>2, <3>3 DEF ReadNext, ReadReturned, Discover, Read, List
    <2> QED BY <2>1 DEF ReadInv, PersistentInv, Return, ReadReturned
  <1> QED BY <1>1, ReadInvariance, PTL DEF ReadSpec, PersistentProblemReported

\* Every pod-cannot-start finding was true at some time while Discover ran, or
\* its ConfigMap was deleted meanwhile: the Deployments are listed first.
THEOREM FalseExplained == ReadSpec => FalseFindingsExplained
  <1>1. ReadInv /\ [ReadNext]_readVars =>
          [ReadReturned => \A p \in result' : p \in brokenAny \/ p[2] \in deleted]_readVars
    <2> SUFFICES ASSUME ReadInv, ReadNext, ReadReturned
                 PROVE  result' \subseteq Explained
      BY DEF Explained
    <2>1. Return
      <3>1. ~(\E d \in Deployments, refs \in SUBSET ConfigMaps : Rollout(d, refs))
        BY DEF ReadReturned, Rollout, Changed
      <3>2. ~(\E m \in ConfigMaps : AddConfigMap(m) \/ DeleteConfigMap(m))
        BY DEF ReadReturned, AddConfigMap, DeleteConfigMap, Changed
      <3>3. ~ListError
        BY DEF ReadReturned, ListError
      <3> QED BY <3>1, <3>2, <3>3 DEF ReadNext, ReadReturned, Discover, Read, List
    <2> QED BY <2>1 DEF ReadInv, SeenInv, Return, ReadReturned
  <1> QED BY <1>1, ReadInvariance, PTL DEF ReadSpec, FalseFindingsExplained
=============================================================================
