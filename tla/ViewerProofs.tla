---------------------------- MODULE ViewerProofs ----------------------------
(***************************************************************************)
(* The cache and the reading of the namespace run together as they run     *)
(* alone, so that everything proved of either holds of the viewer; and     *)
(* with that, that the answers tell of every problem and every repair that *)
(* is older than NoticeTime.                                               *)
(***************************************************************************)
EXTENDS Viewer, SnapshotCacheProofs, NamespaceReadProofs

-----------------------------------------------------------------------------
(* The viewer's steps are steps of its parts. *)

\* A step of the viewer is one of the cache, or leaves the cache alone.
LEMMA CacheSide == [ViewerNext]_viewerVars => [Next]_vars
<1>1. ASSUME NEW b \in CallIds, DiscoverReturns(b) \/ DiscoverFails(b)
      PROVE  Next
  BY <1>1 DEF DiscoverReturns, DiscoverFails, Next
<1>2. CacheRuns => Next
  BY DEF CacheRuns, Next
<1>3. NamespaceChanges \/ BuildCalls \/ ListNamespace => UNCHANGED vars
  BY DEF NamespaceChanges, BuildCalls, ListNamespace
<1> QED BY <1>1, <1>2, <1>3 DEF ViewerNext, viewerVars

\* Likewise for the reading of the namespace.
LEMMA ReadSide == [ViewerNext]_viewerVars => [ReadNext]_readVars
<1>1. ASSUME NEW b \in CallIds, DiscoverReturns(b) \/ DiscoverFails(b)
      PROVE  ReadNext
  BY <1>1 DEF DiscoverReturns, DiscoverFails, ReadNext
<1>2. CacheRuns => UNCHANGED readVars
  BY DEF CacheRuns, Beside
<1>3. NamespaceChanges \/ BuildCalls \/ ListNamespace => ReadNext
  BY DEF NamespaceChanges, BuildCalls, ListNamespace, ReadNext
<1> QED BY <1>1, <1>2, <1>3 DEF ViewerNext, viewerVars

\* Running Discover as its build (main.go:93-104), the cache is the cache: its
\* properties hold of the viewer.
THEOREM ViewerIsCache == ViewerSpec => Spec
<1>1. ViewerInit => Init
  BY DEF ViewerInit
<1> QED BY <1>1, CacheSide, PTL DEF ViewerSpec, Spec

\* Run by the cache, Discover reads the namespace as it does alone.
THEOREM ViewerReads == ViewerSpec => ReadSpec
<1>1. ViewerInit => ReadInit
  BY DEF ViewerInit
<1> QED BY <1>1, ReadSide, PTL DEF ViewerSpec, ReadSpec

-----------------------------------------------------------------------------
(* The inductive invariant. *)

\* Something has been so since before t.
Old(since, x, t) == since[x] # 0 /\ since[x] < t

\* The history variables say since when something has been so.
SinceInv ==
    /\ brokenSince \in [Pairs -> Nat] /\ presentSince \in [ConfigMaps -> Nat]
    /\ \A p \in Pairs : (brokenSince[p] # 0 <=> p \in Broken) /\ brokenSince[p] <= now
    /\ \A m \in ConfigMaps : (presentSince[m] # 0 <=> m \in exist)
                             /\ presentSince[m] <= now

\* The two lists hold everything that was so before the first one.
ListInv ==
    /\ listedAt \in Nat /\ listedAt <= now
    /\ step \in {"listed", "read"} =>
         \A p \in Pairs : Old(brokenSince, p, listedAt) => p[2] \in listed[p[1]]
    /\ step = "read" =>
         /\ \A p \in Pairs : Old(brokenSince, p, listedAt) => p[2] \notin found
         /\ \A m \in ConfigMaps : Old(presentSince, m, listedAt) => m \in found

\* So do the findings made of them.
Knows(b) ==
    /\ b \in DOMAIN findings
    /\ \A p \in Pairs : Old(brokenSince, p, calls[b].readAt) => p \in findings[b]
    /\ \A p \in Pairs : Old(presentSince, p[2], calls[b].readAt) => p \notin findings[b]

FindingsInv == \A b \in CallIds : Succeeded(b) => Knows(b)

ViewerInv == Inv /\ ReadInv /\ SinceInv /\ ListInv /\ FindingsInv

-----------------------------------------------------------------------------
(* What begins to be so begins now. *)

\* What has been so since before t has been so before this step as well.
LEMMA StillOld ==
    ASSUME NEW S, NEW before \in [S -> Nat], NEW members, NEW x \in S, NEW t,
           now \in Nat, t \in Nat, t <= now,
           Old(Since(before, members), x, t)
    PROVE  Old(before, x, t)
<1>1. Since(before, members)[x] = IF x \notin members THEN 0
                                  ELSE IF before[x] = 0 THEN now ELSE before[x]
  BY DEF Since
<1> QED BY <1>1 DEF Old

\* Since says since when the members have been there.
LEMMA SinceMembers ==
    ASSUME NEW S, NEW before \in [S -> Nat], NEW members,
           now \in Nat, now # 0, \A x \in S : before[x] <= now
    PROVE  /\ Since(before, members) \in [S -> Nat]
           /\ \A x \in S : /\ Since(before, members)[x] # 0 <=> x \in members
                           /\ Since(before, members)[x] <= now
<1>1. DOMAIN before = S
  OBVIOUS
<1>2. \A x \in S : Since(before, members)[x] =
                     IF x \notin members THEN 0
                     ELSE IF before[x] = 0 THEN now ELSE before[x]
  BY <1>1 DEF Since
<1>3. \A x \in S : Since(before, members)[x] \in Nat
  BY <1>2
<1>4. Since(before, members) \in [S -> Nat]
  BY <1>1, <1>3 DEF Since
<1> QED BY <1>2, <1>4

LEMMA ViewerInitInv == ViewerInit => ViewerInv
<1> SUFFICES ASSUME ViewerInit PROVE ViewerInv
  OBVIOUS
<1>1. Inv /\ ReadInv
  BY InitInv, ReadInitInv DEF ViewerInit
<1>2. now = 1 /\ step = "idle" /\ calls = <<>> /\ listedAt = 0
  BY DEF ViewerInit, Init, ReadInit
<1>3. SinceInv
  BY <1>2 DEF ViewerInit, SinceInv
<1>4. ListInv
  BY <1>2 DEF ListInv
<1>5. FindingsInv
  BY <1>2 DEF FindingsInv, CallIds
<1> QED BY <1>1, <1>3, <1>4, <1>5 DEF ViewerInv

-----------------------------------------------------------------------------
(* One lemma for each kind of step. *)

\* Steps that leave the namespace alone.
LEMMA SinceStays ==
    ASSUME ViewerInv, Inv', now' >= now, UNCHANGED <<cluster, sinceVars>>
    PROVE  SinceInv'
<1>1. /\ Broken' = Broken /\ exist' = exist
      /\ brokenSince' = brokenSince /\ presentSince' = presentSince
  BY DEF cluster, sinceVars, Broken, Missing
<1>2. now \in Nat /\ now' \in Nat
  BY DEF ViewerInv, Inv, TypeOK
<1>3. \A p \in Pairs : brokenSince[p] \in Nat
  BY DEF ViewerInv, SinceInv
<1>4. \A m \in ConfigMaps : presentSince[m] \in Nat
  BY DEF ViewerInv, SinceInv
<1> QED BY <1>1, <1>2, <1>3, <1>4 DEF ViewerInv, SinceInv

\* Rebuilds that have returned know what they knew, while nothing new is so.
LEMMA KnowsStays ==
    ASSUME ViewerInv, UNCHANGED <<findings, sinceVars>>,
           NEW b \in CallIds, Succeeded(b), calls'[b].readAt = calls[b].readAt
    PROVE  Knows(b)'
<1>1. /\ findings' = findings
      /\ brokenSince' = brokenSince /\ presentSince' = presentSince
  BY DEF sinceVars
<1>2. Knows(b)
  BY DEF ViewerInv, FindingsInv
<1> QED BY <1>1, <1>2 DEF Knows, Old

LEMMA NamespaceStep ==
    ASSUME ViewerInv, NamespaceChanges
    PROVE  SinceInv' /\ ListInv' /\ FindingsInv'
<1>1. /\ UNCHANGED <<step, listed, found, listedAt, findings, now, calls>>
      /\ brokenSince' = Since(brokenSince, Broken')
      /\ presentSince' = Since(presentSince, exist')
  BY DEF NamespaceChanges, Rollout, AddConfigMap, DeleteConfigMap, Changed, vars,
         flightVars, Broken, Missing
<1>2. now \in Nat /\ now # 0 /\ brokenSince \in [Pairs -> Nat]
      /\ presentSince \in [ConfigMaps -> Nat]
  BY DEF ViewerInv, Inv, TypeOK, SinceInv
<1>3. SinceInv'
  <2>1. \A p \in Pairs : brokenSince[p] <= now
    BY DEF ViewerInv, SinceInv
  <2>2. \A m \in ConfigMaps : presentSince[m] <= now
    BY DEF ViewerInv, SinceInv
  <2>3. /\ brokenSince' \in [Pairs -> Nat]
        /\ \A p \in Pairs : (brokenSince'[p] # 0 <=> p \in Broken') /\ brokenSince'[p] <= now
    BY <1>1, <1>2, <2>1, SinceMembers
  <2>4. /\ presentSince' \in [ConfigMaps -> Nat]
        /\ \A m \in ConfigMaps : (presentSince'[m] # 0 <=> m \in exist')
                                 /\ presentSince'[m] <= now
    BY <1>1, <1>2, <2>2, SinceMembers
  <2> QED BY <1>1, <2>3, <2>4 DEF SinceInv
<1>4. ASSUME NEW t \in Nat, t <= now, NEW p \in Pairs, Old(brokenSince', p, t)
      PROVE  Old(brokenSince, p, t)
  BY <1>1, <1>2, <1>4, StillOld
<1>5. ASSUME NEW t \in Nat, t <= now, NEW m \in ConfigMaps, Old(presentSince', m, t)
      PROVE  Old(presentSince, m, t)
  BY <1>1, <1>2, <1>5, StillOld
<1>6. ListInv'
  <2>1. listedAt \in Nat /\ listedAt <= now
    BY DEF ViewerInv, ListInv
  <2> QED BY <1>1, <1>4, <1>5, <2>1 DEF ViewerInv, ListInv
<1>7. FindingsInv'
  <2> SUFFICES ASSUME NEW b \in CallIds, Succeeded(b) PROVE Knows(b)'
    BY <1>1 DEF FindingsInv, CallIds, Succeeded, Ended
  <2>1. calls[b].readAt \in Nat /\ calls[b].readAt <= now
    <3>1. /\ calls[b].readAt \in Nat /\ calls[b].endedAt \in Nat
          /\ calls[b].readAt <= calls[b].endedAt /\ calls[b].endedAt <= now
      BY CallFields DEF ViewerInv, Inv, TimeInv, Succeeded
    <3> QED BY <1>2, <3>1
  <2>2. Knows(b)
    BY DEF ViewerInv, FindingsInv
  <2>3. \A p \in Pairs : p[2] \in ConfigMaps
    BY DEF Pairs
  <2> QED BY <1>1, <1>4, <1>5, <2>1, <2>2, <2>3 DEF Knows
<1> QED BY <1>3, <1>6, <1>7

LEMMA BuildCallsStep ==
    ASSUME ViewerInv, Inv', BuildCalls
    PROVE  SinceInv' /\ ListInv' /\ FindingsInv'
<1>1. /\ step' = "begun" /\ UNCHANGED <<now, calls, listedAt, cluster, findings, sinceVars>>
  BY DEF BuildCalls, Discover, vars, flightVars
<1>2. SinceInv'
  BY <1>1, SinceStays DEF ViewerInv, Inv, TypeOK
<1>3. ListInv'
  BY <1>1 DEF ViewerInv, ListInv
<1>4. FindingsInv'
  BY <1>1, KnowsStays DEF FindingsInv, CallIds, Succeeded, Ended
<1> QED BY <1>2, <1>3, <1>4

\* What has been broken since before the first list is in what it returned, and
\* what has been there since before it is in what the second one returned.
LEMMA ListStep ==
    ASSUME ViewerInv, Inv', ListNamespace
    PROVE  SinceInv' /\ ListInv' /\ FindingsInv'
<1>1. UNCHANGED <<now, calls, cluster, findings, sinceVars>>
  BY DEF ListNamespace, Read, vars, flightVars
<1>2. SinceInv'
  BY <1>1, SinceStays DEF ViewerInv, Inv, TypeOK
<1>3. FindingsInv'
  BY <1>1, KnowsStays DEF FindingsInv, CallIds, Succeeded, Ended
<1>4. now \in Nat
  BY DEF ViewerInv, Inv, TypeOK
<1>5. CASE step = "begun" /\ step' = "listed" /\ ListDeployments
  <2>1. listedAt' = now /\ listed' = needs
    BY <1>5 DEF ListNamespace, ListDeployments
  <2>2. \A p \in Pairs : brokenSince[p] # 0 => p[2] \in needs[p[1]]
    BY MissingPairs DEF ViewerInv, SinceInv, Broken
  <2> QED BY <1>1, <1>2, <1>3, <1>4, <1>5, <2>1, <2>2 DEF ListInv, Old, sinceVars
<1>6. CASE step = "listed" /\ step' = "read" /\ ListConfigMaps
  <2>1. listedAt' = listedAt /\ found' = exist /\ listed' = listed
    BY <1>6 DEF ListNamespace, ListConfigMaps
  <2>2. \A p \in Pairs : brokenSince[p] # 0 => p[2] \notin exist
    BY MissingPairs DEF ViewerInv, SinceInv, Broken
  <2>3. \A m \in ConfigMaps : presentSince[m] # 0 => m \in exist
    BY DEF ViewerInv, SinceInv
  <2> QED
    BY <1>1, <1>2, <1>3, <1>6, <2>1, <2>2, <2>3 DEF ViewerInv, ListInv, Old, sinceVars
<1> QED BY <1>5, <1>6 DEF ListNamespace, Read, List

\* The calls that have succeeded after a build returned are those that had, and
\* the one that returned a Result.
LEMMA SucceededAfter ==
    ASSUME Inv, NEW b \in CallIds, BuildReturns(b), NEW a \in CallIds', Succeeded(a)'
    PROVE  \/ a = b /\ calls'[b].err = NoErr
           \/ a # b /\ a \in CallIds /\ Succeeded(a) /\ calls'[a].readAt = calls[a].readAt
<1>1. CallIds' = CallIds /\ \A d \in CallIds : d # b => calls'[d] = calls[d]
  BY ReturnedCalls DEF Inv
<1> QED BY <1>1 DEF Succeeded, Ended

LEMMA ReturnStep ==
    ASSUME ViewerInv, Inv', NEW b \in CallIds, DiscoverReturns(b)
    PROVE  SinceInv' /\ ListInv' /\ FindingsInv'
<1>1. /\ step = "read" /\ step' = "idle" /\ result' = Missing(listed, found)
      /\ UNCHANGED cluster
  BY DEF DiscoverReturns, Return, Forget
<1>2. /\ BuildReturns(b) /\ UNCHANGED <<now, sinceVars>> /\ listedAt' = 0
      /\ calls'[b].readAt = listedAt
  BY DEF DiscoverReturns, BuildReturns
<1>3. SinceInv'
  BY <1>1, <1>2, SinceStays DEF ViewerInv, Inv, TypeOK
<1>4. ListInv'
  BY <1>1, <1>2 DEF ViewerInv, Inv, TypeOK, ListInv
<1>5. b \in DOMAIN findings' /\ findings'[b] = Missing(listed, found)
  BY <1>1 DEF DiscoverReturns
<1>6. Knows(b)'
  <2>1. \A p \in Pairs : Old(brokenSince, p, listedAt) => p \in Missing(listed, found)
    BY <1>1, MissingPairs DEF ViewerInv, ListInv
  <2>2. ASSUME NEW p \in Pairs, Old(presentSince, p[2], listedAt)
        PROVE  p \notin Missing(listed, found)
    <3>1. p[2] \in ConfigMaps
      BY DEF Pairs
    <3> QED BY <1>1, <2>2, <3>1, MissingPairs DEF ViewerInv, ListInv
  <2> QED BY <1>2, <1>5, <2>1, <2>2 DEF Knows, sinceVars
<1>7. ASSUME NEW a \in CallIds, a # b, Succeeded(a), calls'[a].readAt = calls[a].readAt
      PROVE  Knows(a)'
  <2>1. Knows(a)
    BY <1>7 DEF ViewerInv, FindingsInv
  <2>2. a \in DOMAIN findings' /\ findings'[a] = findings[a]
    BY <1>7, <2>1 DEF DiscoverReturns, Knows
  <2> QED BY <1>2, <1>7, <2>1, <2>2 DEF Knows, sinceVars
<1>8. FindingsInv'
  BY <1>2, <1>6, <1>7, SucceededAfter DEF FindingsInv, ViewerInv
<1> QED BY <1>3, <1>4, <1>8

LEMMA FailStep ==
    ASSUME ViewerInv, Inv', NEW b \in CallIds, DiscoverFails(b)
    PROVE  SinceInv' /\ ListInv' /\ FindingsInv'
<1>1. step' = "idle" /\ UNCHANGED cluster
  BY DEF DiscoverFails, ListError, Forget
<1>2. /\ BuildReturns(b) /\ UNCHANGED <<now, findings, sinceVars>> /\ listedAt' = 0
      /\ calls'[b].err # NoErr
  BY DEF DiscoverFails, BuildReturns
<1>3. SinceInv'
  BY <1>1, <1>2, SinceStays DEF ViewerInv, Inv, TypeOK
<1>4. ListInv'
  BY <1>1, <1>2 DEF ViewerInv, Inv, TypeOK, ListInv
<1>5. FindingsInv'
  BY <1>2, SucceededAfter, KnowsStays DEF FindingsInv, ViewerInv
<1> QED BY <1>3, <1>4, <1>5

LEMMA CacheRunsStep ==
    ASSUME ViewerInv, Inv', CacheRuns
    PROVE  SinceInv' /\ ListInv' /\ FindingsInv'
<1> USE DEF ViewerInv
<1>1. UNCHANGED <<cluster, step, listed, found, listedAt, findings, sinceVars>>
  BY DEF CacheRuns, Beside, readVars
<1>2. /\ now \in Nat /\ now' \in Nat /\ now' >= now
      /\ \A b \in CallIds' : Succeeded(b)' =>
           b \in CallIds /\ Succeeded(b) /\ calls'[b].readAt = calls[b].readAt
  <2>1. now \in Nat
    BY DEF Inv, TypeOK
  <2>2. CASE UNCHANGED <<now, flightVars>>
    BY <2>1, <2>2 DEF flightVars, CallIds, Succeeded, Ended
  <2>3. ASSUME NEW c \in Callers, DoChan(c), StartCall(c)
        PROVE  /\ now' = now
               /\ \A b \in CallIds' : Succeeded(b)' =>
                    b \in CallIds /\ Succeeded(b) /\ calls'[b].readAt = calls[b].readAt
    <3>1. PICK n \in Nat : n = Len(calls) + 1
      BY CallFields DEF Inv
    <3>2. /\ CallIds' = CallIds \cup {n} /\ calls'[n].phase = "building"
          /\ \A b \in CallIds : calls'[b] = calls[b]
      BY <2>3, <3>1, Started, StartedIds, StartedCall DEF Inv
    <3> QED BY <2>3, <3>2 DEF Succeeded, Ended, DoChan
  <2>4. ASSUME NEW b \in CallIds, Deliver(b)
        PROVE  /\ now' = now
               /\ \A a \in CallIds' : Succeeded(a)' =>
                    a \in CallIds /\ Succeeded(a) /\ calls'[a].readAt = calls[a].readAt
    BY <2>4, DeliveredCalls DEF Inv, Succeeded
  <2>5. CASE Tick
    BY <2>1, <2>5 DEF Tick, flightVars, CallIds, Succeeded, Ended
  <2> QED
    BY <2>1, <2>2, <2>3, <2>4, <2>5
       DEF CacheRuns, GetFresh, GetStale, DoChan, JoinCall, GiveUp, Receive
<1>3. SinceInv'
  BY <1>1, <1>2, SinceStays
<1>4. ListInv'
  BY <1>1, <1>2 DEF ListInv, Old, sinceVars
<1>5. FindingsInv'
  BY <1>1, <1>2, KnowsStays DEF FindingsInv
<1> QED BY <1>3, <1>4, <1>5

\* A step that changes nothing.
LEMMA ViewerStutter ==
    ASSUME ViewerInv, UNCHANGED viewerVars
    PROVE  SinceInv' /\ ListInv' /\ FindingsInv'
<1>1. UNCHANGED <<now, calls, cluster, step, listed, found, listedAt, findings, sinceVars>>
  BY DEF viewerVars, vars, flightVars, readVars
<1>2. Broken' = Broken /\ exist' = exist
  BY <1>1 DEF cluster, Broken, Missing
<1>3. SinceInv'
  BY <1>1, <1>2 DEF ViewerInv, SinceInv, sinceVars
<1>4. ListInv'
  BY <1>1 DEF ViewerInv, ListInv, Old, sinceVars
<1>5. FindingsInv'
  BY <1>1, KnowsStays DEF FindingsInv, CallIds, Succeeded, Ended
<1> QED BY <1>3, <1>4, <1>5

LEMMA ViewerInductive == ViewerInv /\ [ViewerNext]_viewerVars => ViewerInv'
<1> SUFFICES ASSUME ViewerInv, [ViewerNext]_viewerVars PROVE ViewerInv'
  OBVIOUS
<1>1. Inv'
  BY CacheSide, TypeStep, FlightStep, TimeStep, CacheStep, CallerStep, ReplyStep,
     OnceStep DEF ViewerInv, Inv
<1>2. ReadInv'
  BY ReadSide, ReadInductive DEF ViewerInv
<1>3. SinceInv' /\ ListInv' /\ FindingsInv'
  BY <1>1, NamespaceStep, BuildCallsStep, ListStep, ReturnStep, FailStep,
     CacheRunsStep, ViewerStutter DEF ViewerNext
<1> QED BY <1>1, <1>2, <1>3 DEF ViewerInv

-----------------------------------------------------------------------------
(* The results. *)

LEMMA ViewerInvariance == ViewerSpec => []ViewerInv
<1> QED BY ViewerInitInv, ViewerInductive, PTL DEF ViewerSpec

\* How old the findings of an answer are that does not say it is stale.
LEMMA FindingsKnow ==
    ASSUME ViewerInv, NEW c \in Callers, Current(c)
    PROVE  \E t \in Nat :
             /\ asked[c].at < t + NoticeTime
             /\ \A p \in Pairs : Old(brokenSince, p, t) => p \in Findings(c)
             /\ \A p \in Pairs : Old(presentSince, p[2], t) => p \notin Findings(c)
<1> DEFINE b == reply[c].result
<1>1. b \in CallIds /\ Succeeded(b)
  BY DEF Current, ViewerInv, Inv, ReplyInv, Accounted
<1>2. calls[b].readAt \in Nat
  BY <1>1, CallFields DEF ViewerInv, Inv
<1>3. asked[c].at < calls[b].readAt + BuildTimeout + Later(TTL, 1)
  BY DEF Current, ViewerInv, Inv, ReplyInv, Accounted
<1>4. BuildTimeout \in Nat /\ Later(TTL, 1) \in Nat
  BY CacheAssumption DEF Later
<1>5. asked[c].at < calls[b].readAt + NoticeTime
  <2>1. asked[c].at \in Nat
    BY DEF ViewerInv, Inv, TypeOK
  <2> QED BY <1>2, <1>3, <1>4, <2>1 DEF NoticeTime
<1>6. Knows(b)
  BY <1>1 DEF ViewerInv, FindingsInv
<1> QED BY <1>2, <1>5, <1>6 DEF Knows, Findings

\* Whatever the TTL, the timeout and the number of requests, a problem that has
\* lasted for a TTL and a build timeout is in the answer (docs/usage.md:3).
THEOREM ProblemsTold == ViewerSpec => []OldProblemsTold
<1>1. ViewerInv => OldProblemsTold
  <2> SUFFICES ASSUME ViewerInv, NEW c \in Callers, Current(c), NEW p \in Pairs,
                      brokenSince[p] # 0, brokenSince[p] + NoticeTime <= asked[c].at
               PROVE  p \in Findings(c)
    BY DEF OldProblemsTold
  <2>1. PICK t \in Nat : /\ asked[c].at < t + NoticeTime
                         /\ Old(brokenSince, p, t) => p \in Findings(c)
    BY FindingsKnow
  <2>2. brokenSince[p] \in Nat /\ asked[c].at \in Nat /\ NoticeTime \in Nat
    BY CacheAssumption DEF ViewerInv, SinceInv, Inv, TypeOK, NoticeTime, Later
  <2>3. brokenSince[p] < t
    BY <2>1, <2>2
  <2> QED BY <2>1, <2>3 DEF Old
<1> QED BY ViewerInvariance, <1>1, PTL

\* Likewise, a ConfigMap that has been there for that long is not reported missing.
THEOREM RepairTold == ViewerSpec => []RepairsTold
<1>1. ViewerInv => RepairsTold
  <2> SUFFICES ASSUME ViewerInv, NEW c \in Callers, Current(c), NEW p \in Pairs,
                      presentSince[p[2]] # 0,
                      presentSince[p[2]] + NoticeTime <= asked[c].at
               PROVE  p \notin Findings(c)
    BY DEF RepairsTold
  <2>1. PICK t \in Nat : /\ asked[c].at < t + NoticeTime
                         /\ Old(presentSince, p[2], t) => p \notin Findings(c)
    BY FindingsKnow
  <2>2. p[2] \in ConfigMaps
    BY DEF Pairs
  <2>3. presentSince[p[2]] \in Nat /\ asked[c].at \in Nat /\ NoticeTime \in Nat
    BY <2>2, CacheAssumption DEF ViewerInv, SinceInv, Inv, TypeOK, NoticeTime, Later
  <2>4. presentSince[p[2]] < t
    BY <2>1, <2>3
  <2> QED BY <2>1, <2>4 DEF Old
<1> QED BY ViewerInvariance, <1>1, PTL
=============================================================================
