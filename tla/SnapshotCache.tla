--------------------------- MODULE SnapshotCache ---------------------------
(***************************************************************************)
(* internal/snapshot/cache.go: requests call Get concurrently; a request   *)
(* that finds the cache stale starts or joins a rebuild through            *)
(* singleflight.Group.DoChan, which runs the rebuild in a goroutine.       *)
(*                                                                         *)
(* A rebuild is one element of calls, in the order they were started, and  *)
(* its index stands for the *discovery.Result it returned.                 *)
(***************************************************************************)
EXTENDS Integers, Sequences, FiniteSets

CONSTANTS
    Callers,            \* requests in progress at the same time
    BuildErrors,        \* errors of the Kubernetes calls
    ErrNoResult,        \* errNoResult
    DeadlineExceeded,   \* the build context's error once its timeout passed
    Canceled,           \* a request context's error
    NoErr,              \* nil
    TTL,                \* Cache.ttl
    BuildTimeout,       \* Cache.buildTimeout
    MaxGets,            \* bound: calls of Get in one behaviour
    MaxTime             \* bound: the clock's last reading

BuildErrs == BuildErrors \cup {ErrNoResult, DeadlineExceeded}

ASSUME CacheAssumption ==
    /\ TTL \in Nat
    /\ BuildTimeout \in Nat \ {0}
    /\ MaxGets \in Nat
    /\ MaxTime \in Nat
    /\ NoErr \notin BuildErrs \cup {Canceled}
    /\ Canceled \notin BuildErrs

VARIABLES
    now,        \* the clock, from 1 on: 0 is Go's zero time
    good,       \* Cache.good: the rebuild it came from, 0 for nil
    goodAt,     \* Cache.goodAt
    lastErr,    \* Cache.lastErr
    lastErrAt,  \* Cache.lastErrAt
    inflight,   \* the call singleflight's map holds for "snapshot", 0 if none
    calls,      \* every rebuild started so far
    pc,         \* where each caller is in Get
    on,         \* the call a caller in the select waits for
    asked,      \* history: the time and Cache.good when a caller called Get
    reply,      \* what Get returned to each caller, nothing while it runs
    gets        \* how often Get was called

cacheVars  == <<good, goodAt, lastErr, lastErrAt>>
flightVars == <<inflight, calls>>
callerVars == <<pc, on, asked, reply, gets>>
vars == <<now, cacheVars, flightVars, callerVars>>

CallIds == 1..Len(calls)
Ended(b) == calls[b].phase \in {"stored", "delivered"}
Succeeded(b) == Ended(b) /\ calls[b].err = NoErr

Later(s, t) == IF s > t THEN s ELSE t

\* Variants of Fresh that the properties must reject: the failed attempts do
\* not count; the snapshot is used one instant too long.
FreshIgnoresFailures == TTL > 0 /\ goodAt # 0 /\ now - goodAt < TTL
FreshOffByOne ==
    LET last == Later(goodAt, lastErrAt)
    IN  TTL > 0 /\ last # 0 /\ now - last <= TTL

Fresh == \* freshLocked
    LET last == Later(goodAt, lastErrAt)
    IN  TTL > 0 /\ last # 0 /\ now - last < TTL

SnapshotLocked ==
    [result |-> good, takenAt |-> goodAt, refresh |-> lastErr,
     refreshAt |-> lastErrAt, err |-> NoErr]

\* Snapshot{} and an error.
Failed(e) ==
    [result |-> 0, takenAt |-> 0, refresh |-> NoErr, refreshAt |-> 0, err |-> e]

Init ==
    /\ now = 1
    /\ good = 0 /\ goodAt = 0
    /\ lastErr = NoErr /\ lastErrAt = 0
    /\ inflight = 0
    /\ calls = <<>>
    /\ pc = [c \in Callers |-> "idle"]
    /\ on = [c \in Callers |-> 0]
    /\ asked = [c \in Callers |-> [at |-> 0, good |-> 0]]
    /\ reply = [c \in Callers |-> Failed(NoErr)]
    /\ gets = 0

-----------------------------------------------------------------------------
(* The caller's side of Get. *)

Call(c) ==
    /\ pc[c] = "idle"
    /\ gets < MaxGets
    /\ gets' = gets + 1
    /\ asked' = [asked EXCEPT ![c] = [at |-> now, good |-> good]]

\* Under mu, the latest attempt is fresh: its outcome is the answer.
GetFresh(c) ==
    /\ Call(c)
    /\ Fresh
    /\ reply' = [reply EXCEPT ![c] = IF good = 0 THEN Failed(lastErr)
                                                 ELSE SnapshotLocked]
    /\ UNCHANGED <<now, cacheVars, flightVars, pc, on>>

\* Under mu, the latest attempt is stale: mu is released.
GetStale(c) ==
    /\ Call(c)
    /\ ~Fresh
    /\ pc' = [pc EXCEPT ![c] = "stale"]
    /\ reply' = [reply EXCEPT ![c] = Failed(NoErr)]
    /\ UNCHANGED <<now, cacheVars, flightVars, on>>

\* singleflight runs the rebuild in a goroutine of its own.
StartCall(c) ==
    /\ calls' = Append(calls, [phase |-> "building", by |-> c,
                               startedAt |-> now, readAt |-> 0,
                               endedAt |-> 0, err |-> NoErr])
    /\ inflight' = Len(calls')
    /\ on' = [on EXCEPT ![c] = Len(calls')]

JoinCall(c) ==
    /\ on' = [on EXCEPT ![c] = inflight]
    /\ UNCHANGED flightVars

\* group.DoChan.  Whether the cache is still stale is not looked at again.
DoChan(c) ==
    /\ pc[c] = "stale"
    /\ pc' = [pc EXCEPT ![c] = "waiting"]
    /\ IF inflight = 0 THEN StartCall(c) ELSE JoinCall(c)
    /\ UNCHANGED <<now, cacheVars, asked, reply, gets>>

\* case <-ctx.Done(): the request's context may end at any time.
GiveUp(c) ==
    /\ pc[c] = "waiting"
    /\ pc' = [pc EXCEPT ![c] = "idle"]
    /\ on' = [on EXCEPT ![c] = 0]
    /\ reply' = [reply EXCEPT ![c] = Failed(Canceled)]
    /\ UNCHANGED <<now, cacheVars, flightVars, asked, gets>>

\* Variant of Ready: only the caller that started the rebuild hears of its end.
OwnCallReady(c) == calls[on[c]].phase = "delivered" /\ calls[on[c]].by = c

\* The channel that DoChan returned holds the outcome of the call.
Ready(c) == calls[on[c]].phase = "delivered"

\* case r := <-result, and the snapshot as it is then, under mu.
Receive(c) ==
    /\ pc[c] = "waiting"
    /\ Ready(c)
    /\ pc' = [pc EXCEPT ![c] = "idle"]
    /\ reply' = [reply EXCEPT ![c] = IF good = 0 THEN Failed(calls[on[c]].err)
                                                 ELSE SnapshotLocked]
    /\ on' = [on EXCEPT ![c] = 0]
    /\ UNCHANGED <<now, cacheVars, flightVars, asked, gets>>

-----------------------------------------------------------------------------
(* The rebuild's goroutine. *)

\* Variant of Deadline: the build runs without WithTimeout.
NoDeadline(b) == MaxTime + 1

Deadline(b) == calls[b].startedAt + BuildTimeout

\* Variant of ContextErrs: the build runs under the context of the request that
\* started it.
RequestErrs(b) == IF reply[calls[b].by].err = Canceled THEN {Canceled} ELSE {}

\* What the build's own context can make the build fail with: WithoutCancel
\* keeps the request's cancellation out, WithTimeout adds the deadline.
ContextErrs(b) == IF now >= Deadline(b) THEN {DeadlineExceeded} ELSE {}

\* Variant of OutcomeErr: nil, nil counts as a success.
BareErr(hasResult, err) == err

\* The err the function passed to DoChan ends with: a build that returns
\* neither a result nor an error has failed as well.
OutcomeErr(hasResult, err) ==
    IF err = NoErr /\ ~hasResult THEN ErrNoResult ELSE err

\* Variants of StoreResult: the error is kept; only its time is kept.
StoreResultKeepsErr(res) ==
    /\ good' = res /\ goodAt' = now
    /\ UNCHANGED <<lastErr, lastErrAt>>
StoreResultKeepsErrAt(res) ==
    /\ good' = res /\ goodAt' = now
    /\ lastErr' = NoErr /\ UNCHANGED lastErrAt

StoreResult(res) ==
    /\ good' = res /\ goodAt' = now
    /\ lastErr' = NoErr /\ lastErrAt' = 0

\* Variant of StoreFailure: a failed rebuild empties the cache.
StoreFailureDropsGood(e) ==
    /\ lastErr' = e /\ lastErrAt' = now
    /\ good' = 0 /\ UNCHANGED goodAt

StoreFailure(e) ==
    /\ lastErr' = e /\ lastErrAt' = now
    /\ UNCHANGED <<good, goodAt>>

\* The build returns and, under mu, its outcome is stored.  read is when the
\* API server answered it.
BuildReturns(b) ==
    \E hasResult \in BOOLEAN, err \in BuildErrors \cup ContextErrs(b) \cup {NoErr},
       read \in calls[b].startedAt..now :
        LET e == OutcomeErr(hasResult, err) IN
        /\ calls[b].phase = "building"
        /\ calls' = [calls EXCEPT ![b] =
                        [phase |-> "stored", by |-> @.by, startedAt |-> @.startedAt,
                         readAt |-> read, endedAt |-> now, err |-> e]]
        /\ IF e = NoErr THEN StoreResult(IF hasResult THEN b ELSE 0)
                        ELSE StoreFailure(e)
        /\ UNCHANGED <<now, inflight, callerVars>>

\* singleflight forgets the call and sends its outcome to everybody on it.
Deliver(b) ==
    /\ calls[b].phase = "stored"
    /\ calls' = [calls EXCEPT ![b].phase = "delivered"]
    /\ inflight' = 0
    /\ UNCHANGED <<now, cacheVars, callerVars>>

-----------------------------------------------------------------------------
\* Time passes, but no build outlives its deadline, and storing an outcome
\* and delivering it take no time.
Tick ==
    /\ now < MaxTime
    /\ \A b \in CallIds :
         /\ calls[b].phase # "stored"
         /\ calls[b].phase = "building" => now < Deadline(b)
    /\ now' = now + 1
    /\ UNCHANGED <<cacheVars, flightVars, callerVars>>

\* Both bounds are used up and nothing is left to do.
Drained ==
    /\ gets = MaxGets /\ now = MaxTime
    /\ \A c \in Callers : pc[c] = "idle"
    /\ inflight = 0
    /\ UNCHANGED vars

Next ==
    \/ \E c \in Callers :
         GetFresh(c) \/ GetStale(c) \/ DoChan(c) \/ GiveUp(c) \/ Receive(c)
    \/ \E b \in CallIds : BuildReturns(b) \/ Deliver(b)
    \/ Tick
    \/ Drained

Spec == Init /\ [][Next]_vars

\* A goroutine that can run runs, and the build's timeout makes it return.
Fairness ==
    /\ \A c \in Callers : WF_vars(DoChan(c)) /\ WF_vars(Receive(c))
    /\ WF_vars(\E b \in CallIds : BuildReturns(b))
    /\ WF_vars(\E b \in CallIds : Deliver(b))

FairSpec == Spec /\ Fairness

-----------------------------------------------------------------------------
(* Properties. *)

CallType ==
    [phase : {"building", "stored", "delivered"}, by : Callers,
     startedAt : Nat \ {0}, readAt : Nat, endedAt : Nat,
     err : BuildErrs \cup {NoErr}]

ReplyType ==
    [result : Nat, takenAt : Nat, refresh : BuildErrs \cup {NoErr},
     refreshAt : Nat, err : BuildErrs \cup {NoErr, Canceled}]

\* The type invariant.
TypeOK ==
    /\ now \in Nat \ {0}
    /\ good \in Nat /\ goodAt \in Nat
    /\ lastErr \in BuildErrs \cup {NoErr} /\ lastErrAt \in Nat
    /\ inflight \in Nat
    /\ calls \in Seq(CallType)
    /\ pc \in [Callers -> {"idle", "stale", "waiting"}]
    /\ on \in [Callers -> Nat]
    /\ asked \in [Callers -> [at : Nat, good : Nat]]
    /\ reply \in [Callers -> ReplyType]
    /\ gets \in Nat

\* cache.go:41, "share one rebuild": two rebuilds are never under way at once,
\* the time until singleflight has forgotten the first one included.
SingleBuild ==
    \A a, b \in CallIds :
        calls[a].phase # "delivered" /\ calls[b].phase # "delivered" => a = b

\* The four fields guarded by mu agree with what the rebuilds really did: good
\* is the latest success, and lastErr and lastErrAt describe the latest
\* attempt, whether it failed or not.
CacheIsLastAttempt ==
    /\ good # 0 => /\ good \in CallIds /\ Succeeded(good)
                   /\ goodAt = calls[good].endedAt
    /\ \A b \in CallIds : Succeeded(b) => b <= good
    /\ \A b \in CallIds :
         Ended(b) /\ (\A a \in CallIds : Ended(a) => a <= b) =>
            /\ lastErr = calls[b].err
            /\ lastErrAt = IF lastErr = NoErr THEN 0 ELSE calls[b].endedAt

\* What holds of "at most once per TTL" (cache.go:39-43): once attempt a has
\* ended, successfully or not, a caller starts at most one more rebuild before
\* the TTL has passed, the one it was already about to start.
OneRebuildPerCaller ==
    \A a, b1, b2 \in CallIds :
        /\ a < b1 /\ b1 < b2
        /\ calls[b2].startedAt < calls[a].endedAt + TTL
        => calls[b1].by # calls[b2].by

\* The calls of Get that have returned a snapshot.
Answered(c) == pc[c] = "idle" /\ asked[c].at > 0 /\ reply[c].err = NoErr

\* cache.go:16, "callers never receive a snapshot without" a result.
AnswersAreUsable == \A c \in Callers : Answered(c) => reply[c].result # 0

\* A caller is never shown a result older than the one the cache held when it
\* asked, although it may have waited for a rebuild that others started.
MonotonicReads == \A c \in Callers : Answered(c) => reply[c].result >= asked[c].good

\* Rebuild b is the latest of the rebuilds that have ended.
Latest(b) == Ended(b) /\ \A a \in CallIds : Ended(a) => a <= b

\* cache.go:24-33: a Get that returns a snapshot returns the latest result there is
\* and the time at which it was stored, and it carries a RefreshError exactly when
\* the latest rebuild failed: the error and the time of that rebuild, whichever
\* rebuild the caller waited for and whatever has happened since.
StaleAnswersExplained ==
    [][ \A c \in Callers : (GetFresh(c) \/ Receive(c)) /\ reply'[c].err = NoErr =>
          \E g, b \in CallIds :
            /\ Latest(b)
            /\ Succeeded(g) /\ \A a \in CallIds : Succeeded(a) => a <= g
            /\ reply'[c].result = g /\ reply'[c].takenAt = calls[g].endedAt
            /\ reply'[c].refresh = calls[b].err
            /\ reply'[c].refreshAt = IF b = g THEN 0 ELSE calls[b].endedAt ]_vars

\* How old an answer is that does not say it is stale: its result was read less
\* than a TTL and a build timeout before the question.
AnswerAge ==
    \A c \in Callers :
        Answered(c) /\ reply[c].refresh = NoErr =>
            asked[c].at < calls[reply[c].result].readAt + BuildTimeout + Later(TTL, 1)

\* cache.go:66: Get returns an error "only when no rebuild has succeeded yet, or
\* when ctx ends first".
ErrorOnlyBeforeFirstSuccess ==
    [][ \A c \in Callers :
          reply'[c] # reply[c] /\ reply'[c].err \notin {NoErr, Canceled}
            => \A b \in CallIds : ~Succeeded(b) ]_vars

\* Every Get returns, even if its request never ends: no caller waits for a
\* call whose outcome was sent before it joined.
EveryGetReturns == \A c \in Callers : pc[c] # "idle" ~> pc[c] = "idle"

\* The cache keeps the promise that its callers rely on.
Promise == INSTANCE SnapshotPromise WITH
    Errors   <- BuildErrs,
    snap     <- good,
    failing  <- lastErr,
    failures <- {calls[b].err : b \in CallIds} \ {NoErr},
    asking   <- {c \in Callers : pc[c] # "idle"},
    answer   <- [c \in Callers |-> [result  |-> reply[c].result,
                                    refresh |-> reply[c].refresh,
                                    err     |-> reply[c].err]]

\* Requests read one store that only moves forward: SnapshotPromise.
KeepsPromise == Promise!Spec

-----------------------------------------------------------------------------
(* What the repository says and the code does not do. *)

\* cache.go:39, "rebuilds them at most once per TTL".
RebuildAtMostOncePerTTL ==
    \A a, b \in CallIds : a < b => calls[b].startedAt >= calls[a].startedAt + TTL
=============================================================================
