--------------------------- MODULE NamespaceRead ---------------------------
(***************************************************************************)
(* Discoverer.Discover (internal/discovery/discovery.go) reads a namespace *)
(* with two lists, first the Deployments and then the ConfigMaps, and the  *)
(* namespace changes while it does: a rollout may change what a Deployment *)
(* refers to, ConfigMaps are created and deleted.  A finding is a pair     *)
(* <<d, m>>: Deployment d requires the ConfigMap m, which does not exist.  *)
(***************************************************************************)
CONSTANTS
    Deployments,
    ConfigMaps

VARIABLES
    needs,      \* the ConfigMaps that each Deployment requires, as the API server has them
    exist,      \* the ConfigMaps there are, as the API server has them
    step,       \* where Discover is
    listed,     \* deployments: what the first list returned
    found,      \* cmList: what the second list returned
    result,     \* the findings of the Result, nothing until Discover returns one
    brokenAll,  \* history: the pairs broken ever since Discover was called
    brokenAny,  \* history: the pairs broken at some time since Discover was called
    deleted     \* history: the ConfigMaps deleted since Discover was called

cluster == <<needs, exist>>
history == <<brokenAll, brokenAny, deleted>>
readVars == <<cluster, step, listed, found, result, history>>

Pairs == Deployments \X ConfigMaps

\* The references of `refs` that lead to none of the ConfigMaps `cms`.
Missing(refs, cms) == {p \in Pairs : p[2] \in refs[p[1]] /\ p[2] \notin cms}

Broken == Missing(needs, exist)

Nothing == [d \in Deployments |-> {}]

ReadInit ==
    /\ needs \in [Deployments -> SUBSET ConfigMaps]
    /\ exist \in SUBSET ConfigMaps
    /\ step = "idle"
    /\ listed = Nothing /\ found = {}
    /\ result = {}
    /\ brokenAll = {} /\ brokenAny = {} /\ deleted = {}

-----------------------------------------------------------------------------
(* The namespace. *)

Watched ==
    /\ brokenAll' = brokenAll \cap Missing(needs', exist')
    /\ brokenAny' = brokenAny \cup Missing(needs', exist')
    /\ deleted' = deleted \cup (exist \ exist')

Changed ==
    /\ IF step \in {"begun", "listed"} THEN Watched ELSE UNCHANGED history
    /\ UNCHANGED <<step, listed, found, result>>

\* kubectl apply of a Deployment, or its deletion.
Rollout(d, refs) ==
    /\ needs' = [needs EXCEPT ![d] = refs]
    /\ UNCHANGED exist
    /\ Changed

AddConfigMap(m) ==
    /\ exist' = exist \cup {m}
    /\ UNCHANGED needs
    /\ Changed

DeleteConfigMap(m) ==
    /\ exist' = exist \ {m}
    /\ UNCHANGED needs
    /\ Changed

-----------------------------------------------------------------------------
(* Discover. *)

Discover ==
    /\ step = "idle"
    /\ step' = "begun"
    /\ result' = {}
    /\ brokenAll' = Broken /\ brokenAny' = Broken /\ deleted' = {}
    /\ UNCHANGED <<cluster, listed, found>>

ListDeployments ==
    /\ listed' = needs
    /\ UNCHANGED found

ListConfigMaps ==
    /\ found' = exist
    /\ UNCHANGED listed

\* Variant of List: the two lists the other way round.
ListSwapped ==
    \/ step = "begun" /\ step' = "listed" /\ ListConfigMaps
    \/ step = "listed" /\ step' = "read" /\ ListDeployments

\* Each list is what the API server has at one instant.
List ==
    \/ step = "begun" /\ step' = "listed" /\ ListDeployments
    \/ step = "listed" /\ step' = "read" /\ ListConfigMaps

Read == List /\ UNCHANGED <<cluster, result, history>>

\* What Discover read is local to the call that read it, and so is its history.
Forget ==
    /\ step' = "idle"
    /\ listed' = Nothing /\ found' = {}
    /\ brokenAll' = {} /\ brokenAny' = {} /\ deleted' = {}
    /\ UNCHANGED cluster

\* Variant of ListError: a list that failed counts as an empty one.
ListErrorIgnored ==
    /\ step \in {"begun", "listed"}
    /\ step' = IF step = "begun" THEN "listed" ELSE "read"
    /\ UNCHANGED <<cluster, listed, found, result, history>>

\* Either list fails: no Result, whatever was read before.
ListError ==
    /\ step \in {"begun", "listed"}
    /\ Forget
    /\ UNCHANGED result

\* The components resolved from the ConfigMaps found, and the
\* pod-cannot-start findings made from their StartProblems.
Return ==
    /\ step = "read"
    /\ result' = Missing(listed, found)
    /\ Forget

-----------------------------------------------------------------------------
ReadNext ==
    \/ \E d \in Deployments, refs \in SUBSET ConfigMaps : Rollout(d, refs)
    \/ \E m \in ConfigMaps : AddConfigMap(m) \/ DeleteConfigMap(m)
    \/ Discover \/ Read \/ ListError \/ Return

ReadSpec == ReadInit /\ [][ReadNext]_readVars

-----------------------------------------------------------------------------
(* Properties. *)

\* The type invariant.
ReadTypeOK ==
    /\ needs \in [Deployments -> SUBSET ConfigMaps]
    /\ exist \in SUBSET ConfigMaps
    /\ step \in {"idle", "begun", "listed", "read"}
    /\ listed \in [Deployments -> SUBSET ConfigMaps]
    /\ found \in SUBSET ConfigMaps
    /\ result \in SUBSET Pairs
    /\ brokenAll \in SUBSET Pairs /\ brokenAny \in SUBSET Pairs
    /\ deleted \in SUBSET ConfigMaps

\* Discover returns a Result.
ReadReturned == step = "read" /\ step' = "idle"

\* What is broken all the time Discover runs is reported, whatever else
\* changes meanwhile (discovery.go:115-145).
PersistentProblemReported == [][ReadReturned => brokenAll \subseteq result']_readVars

\* discovery.go:119-126: a finding that was never true while Discover ran is
\* about a ConfigMap that was deleted after the first list, when a rollout had
\* made its Deployment do without it.
FalseFindingsExplained ==
    [][ReadReturned => \A p \in result' : p \in brokenAny \/ p[2] \in deleted]_readVars

-----------------------------------------------------------------------------
(* What the repository says and the code does not do. *)

\* README.md:34, pod-cannot-start: "a ConfigMap the pod requires ... does not
\* exist", from one snapshot (cache.go:23, "Snapshot is one view of the
\* namespace"): what is reported was so at some time while Discover ran.
FindingsTrue == [][ReadReturned => result' \subseteq brokenAny]_readVars
=============================================================================
