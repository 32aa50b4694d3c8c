------------------------------- MODULE Viewer -------------------------------
(***************************************************************************)
(* newServers (main.go) makes Discover the build of the snapshot cache: a  *)
(* rebuild's goroutine lists a namespace that changes all along, and a     *)
(* request is answered from a rebuild that another one may have started.   *)
(* This module runs SnapshotCache and NamespaceRead together, and relates  *)
(* what a request is told to what was so in the cluster when it asked.     *)
(***************************************************************************)
EXTENDS SnapshotCache, NamespaceRead

VARIABLES
    listedAt,       \* when the read under way listed the Deployments, 0 if it did not
    findings,       \* the findings of each rebuild that returned a Result
    brokenSince,    \* history: since when each pair has been broken, 0 if it is not
    presentSince    \* history: since when each ConfigMap has been there, 0 if it is not

sinceVars == <<brokenSince, presentSince>>
viewerVars == <<vars, readVars, listedAt, findings, sinceVars>>

\* Since when each x has been in `members`, given since when it was before.
Since(before, members) ==
    [x \in DOMAIN before |-> IF x \notin members THEN 0
                             ELSE IF before[x] = 0 THEN now ELSE before[x]]

ViewerInit ==
    /\ Init
    /\ ReadInit
    /\ listedAt = 0
    /\ findings = [b \in {} |-> {}]
    /\ brokenSince = [p \in Pairs |-> IF p \in Broken THEN now ELSE 0]
    /\ presentSince = [m \in ConfigMaps |-> IF m \in exist THEN now ELSE 0]

-----------------------------------------------------------------------------
\* The namespace changes, whatever the viewer does.
NamespaceChanges ==
    /\ \/ \E d \in Deployments, refs \in SUBSET ConfigMaps : Rollout(d, refs)
       \/ \E m \in ConfigMaps : AddConfigMap(m) \/ DeleteConfigMap(m)
    /\ brokenSince' = Since(brokenSince, Missing(needs', exist'))
    /\ presentSince' = Since(presentSince, exist')
    /\ UNCHANGED <<vars, listedAt, findings>>

(* The rebuild's goroutine: c.build is Discover. *)

BuildCalls ==
    /\ \E b \in CallIds : calls[b].phase = "building"
    /\ Discover
    /\ UNCHANGED <<vars, listedAt, findings, sinceVars>>

ListNamespace ==
    /\ Read
    /\ listedAt' = IF step = "begun" THEN now ELSE listedAt
    /\ UNCHANGED <<vars, findings, sinceVars>>

DiscoverReturns(b) ==
    /\ Return
    /\ BuildReturns(b)
    /\ calls'[b].err = NoErr /\ calls'[b].readAt = listedAt
    /\ good' = b
    /\ findings' = [a \in DOMAIN findings \cup {b} |->
                      IF a = b THEN result' ELSE findings[a]]
    /\ listedAt' = 0
    /\ UNCHANGED sinceVars

\* Variant of DiscoverFails: a list that fails counts as an empty one.
FailedListIsEmpty(b) ==
    /\ ListErrorIgnored
    /\ listedAt' = IF step = "begun" THEN now ELSE listedAt
    /\ UNCHANGED <<vars, findings, sinceVars>>

\* A list fails: the API server refuses, or the build's context has ended.
DiscoverFails(b) ==
    /\ ListError
    /\ BuildReturns(b)
    /\ calls'[b].err \notin {NoErr, ErrNoResult}
    /\ listedAt' = 0
    /\ UNCHANGED <<findings, sinceVars>>

\* What the cache does beside the build.
Beside == UNCHANGED <<readVars, listedAt, findings, sinceVars>>

CacheRuns ==
    \/ \E c \in Callers :
         (GetFresh(c) \/ GetStale(c) \/ DoChan(c) \/ GiveUp(c) \/ Receive(c)) /\ Beside
    \/ \E b \in CallIds : Deliver(b) /\ Beside
    \/ Tick /\ Beside

ViewerNext ==
    \/ NamespaceChanges
    \/ BuildCalls \/ ListNamespace
    \/ \E b \in CallIds : DiscoverReturns(b) \/ DiscoverFails(b)
    \/ CacheRuns

ViewerSpec == ViewerInit /\ [][ViewerNext]_viewerVars

-----------------------------------------------------------------------------
(* Properties. *)

\* How long the viewer may take to notice a change.
NoticeTime == BuildTimeout + Later(TTL, 1)

\* The request got an answer that does not say it is stale.
Current(c) == Answered(c) /\ reply[c].refresh = NoErr

Findings(c) == findings[reply[c].result]

\* docs/usage.md:3, "a snapshot of the namespace that is at most CACHE_TTL old":
\* with the time a rebuild may take added, every problem that has lasted that long
\* when a request asks is in its answer, whoever started the rebuild, however the
\* requests overlap and whatever else changes.
OldProblemsTold ==
    \A c \in Callers : Current(c) =>
        \A p \in Pairs :
            brokenSince[p] # 0 /\ brokenSince[p] + NoticeTime <= asked[c].at
            => p \in Findings(c)

\* Likewise for what was repaired: a ConfigMap that has been there that long is
\* not reported missing.
RepairsTold ==
    \A c \in Callers : Current(c) =>
        \A p \in Pairs :
            presentSince[p[2]] # 0 /\ presentSince[p[2]] + NoticeTime <= asked[c].at
            => p \notin Findings(c)
=============================================================================
