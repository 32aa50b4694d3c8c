------------------------ MODULE SnapshotCacheProofs ------------------------
(***************************************************************************)
(* Proofs, for every set of callers, every TTL and build timeout and every *)
(* value of the bounds, that SnapshotCache is type correct, has the safety *)
(* properties its runs check, and implements SnapshotPromise.              *)
(***************************************************************************)
EXTENDS SnapshotCache, SequenceTheorems, TLAPS

-----------------------------------------------------------------------------
(* The inductive invariant, in parts. *)

\* singleflight: only the newest call can be in flight.
FlightInv ==
    /\ inflight \in {0, Len(calls)}
    /\ \A b \in CallIds : calls[b].phase # "delivered" <=> b = inflight
    /\ \A c \in Callers : pc[c] = "waiting" => on[c] \in CallIds

\* The clock readings a call carries, and those in the cache.
TimeInv ==
    /\ goodAt <= now /\ lastErrAt <= now
    /\ lastErr = NoErr <=> lastErrAt = 0
    /\ good = 0 => goodAt = 0
    /\ \A b \in CallIds :
         /\ calls[b].startedAt <= now
         /\ Ended(b) => /\ calls[b].startedAt <= calls[b].readAt
                        /\ calls[b].readAt <= calls[b].endedAt
                        /\ calls[b].endedAt <= Deadline(b)
                        /\ calls[b].endedAt <= now
                        /\ \/ calls[b].endedAt <= goodAt
                           \/ calls[b].endedAt <= lastErrAt
         /\ calls[b].phase = "building" => now <= Deadline(b) /\ calls[b].err = NoErr
         /\ calls[b].phase = "stored" => calls[b].endedAt = now
    /\ \A a, b \in CallIds : a < b => calls[a].endedAt <= calls[b].startedAt

\* What the cache holds is what the rebuilds did.
CacheInv ==
    /\ CacheIsLastAttempt
    /\ lastErr = NoErr => \A b \in CallIds : Ended(b) => b <= good
    /\ lastErr # NoErr => \E b \in CallIds : /\ b > good /\ Ended(b)
                                             /\ calls[b].err = lastErr
                                             /\ calls[b].endedAt = lastErrAt

\* What a caller in the middle of Get knows.
CallerInv ==
    \A c \in Callers :
        /\ asked[c].at <= now
        /\ asked[c].good <= good
        /\ pc[c] = "stale" =>
             \A a, b \in CallIds : a < b /\ calls[b].by = c =>
                 calls[a].endedAt + TTL <= asked[c].at
        /\ pc[c] = "waiting" /\ Ended(on[c]) => asked[c].at <= calls[on[c]].endedAt

\* A snapshot that the calls can account for: r is a reply to a question asked
\* at time t.
Accounted(r, t) ==
    /\ r.result \in CallIds /\ Succeeded(r.result)
    /\ r.refresh = NoErr => t < calls[r.result].readAt + BuildTimeout + Later(TTL, 1)

\* What the callers were told.
ReplyInv ==
    \A c \in Callers : Answered(c) => /\ Accounted(reply[c], asked[c].at)
                                      /\ reply[c].result >= asked[c].good

Inv == TypeOK /\ FlightInv /\ TimeInv /\ CacheInv /\ CallerInv /\ ReplyInv
         /\ OneRebuildPerCaller

-----------------------------------------------------------------------------
(* What the three steps that write calls do to it. *)

\* A new call: the earlier ones stay as they are.
LEMMA Started ==
    ASSUME TypeOK, NEW c \in Callers, StartCall(c)
    PROVE  /\ calls' \in Seq(CallType)
           /\ Len(calls') = Len(calls) + 1
           /\ inflight' = Len(calls) + 1
           /\ on' = [on EXCEPT ![c] = Len(calls) + 1]
           /\ \A b \in CallIds : calls'[b] = calls[b]
           /\ calls'[Len(calls) + 1] = [phase |-> "building", by |-> c,
                                        startedAt |-> now, readAt |-> 0,
                                        endedAt |-> 0, err |-> NoErr]
<1>1. [phase |-> "building", by |-> c, startedAt |-> now, readAt |-> 0,
       endedAt |-> 0, err |-> NoErr] \in CallType
  BY CacheAssumption DEF TypeOK, CallType
<1> QED
  BY <1>1, AppendProperties DEF TypeOK, StartCall, CallIds

\* A call that is replaced by another: only that element changes.
LEMMA Replaced ==
    ASSUME TypeOK, NEW b \in CallIds, NEW r \in CallType,
           calls' = [calls EXCEPT ![b] = r]
    PROVE  /\ calls' \in Seq(CallType)
           /\ Len(calls') = Len(calls)
           /\ \A a \in CallIds : calls'[a] = IF a = b THEN r ELSE calls[a]
  BY ExceptSeq DEF TypeOK, CallIds

\* The outcome of a build.
LEMMA Returned ==
    ASSUME TypeOK, NEW b \in CallIds, BuildReturns(b)
    PROVE  \E e \in BuildErrs \cup {NoErr}, read \in Nat :
             /\ calls[b].phase = "building"
             /\ calls[b].startedAt <= read /\ read <= now
             /\ IF e = NoErr THEN StoreResult(b) ELSE StoreFailure(e)
             /\ calls' \in Seq(CallType)
             /\ Len(calls') = Len(calls)
             /\ \A a \in CallIds : calls'[a] =
                  IF a = b THEN [phase |-> "stored", by |-> calls[b].by,
                                 startedAt |-> calls[b].startedAt, readAt |-> read,
                                 endedAt |-> now, err |-> e]
                           ELSE calls[a]
<1>1. PICK res \in BOOLEAN, err \in BuildErrors \cup ContextErrs(b) \cup {NoErr},
           read \in calls[b].startedAt..now :
        /\ calls[b].phase = "building"
        /\ calls' = [calls EXCEPT ![b] =
                        [phase |-> "stored", by |-> calls[b].by,
                         startedAt |-> calls[b].startedAt, readAt |-> read,
                         endedAt |-> now, err |-> OutcomeErr(res, err)]]
        /\ IF OutcomeErr(res, err) = NoErr THEN StoreResult(IF res THEN b ELSE 0)
                                           ELSE StoreFailure(OutcomeErr(res, err))
  BY DEF BuildReturns
<1>2. OutcomeErr(res, err) \in BuildErrs \cup {NoErr}
  BY DEF OutcomeErr, BuildErrs, ContextErrs
<1>3. OutcomeErr(res, err) = NoErr => res
  BY CacheAssumption DEF OutcomeErr, BuildErrs
<1>4. calls[b] \in CallType /\ now \in Nat
  BY DEF TypeOK, CallIds
<1>5. read \in Nat /\ calls[b].startedAt <= read /\ read <= now
  BY <1>4 DEF CallType
<1>6. [phase |-> "stored", by |-> calls[b].by, startedAt |-> calls[b].startedAt,
       readAt |-> read, endedAt |-> now, err |-> OutcomeErr(res, err)] \in CallType
  BY <1>2, <1>4, <1>5 DEF CallType
<1>7. IF OutcomeErr(res, err) = NoErr THEN StoreResult(b)
                                      ELSE StoreFailure(OutcomeErr(res, err))
  BY <1>1, <1>3
<1> QED
  BY <1>1, <1>2, <1>5, <1>6, <1>7, Replaced

\* The end of a call: its outcome stays.
LEMMA Delivered ==
    ASSUME TypeOK, NEW b \in CallIds, Deliver(b)
    PROVE  /\ calls' \in Seq(CallType)
           /\ Len(calls') = Len(calls)
           /\ \A a \in CallIds : calls'[a] =
                IF a = b THEN [phase |-> "delivered", by |-> calls[b].by,
                               startedAt |-> calls[b].startedAt,
                               readAt |-> calls[b].readAt,
                               endedAt |-> calls[b].endedAt, err |-> calls[b].err]
                         ELSE calls[a]
<1>1. calls[b] \in CallType
  BY DEF TypeOK, CallIds
<1>2. [calls[b] EXCEPT !.phase = "delivered"]
        = [phase |-> "delivered", by |-> calls[b].by,
           startedAt |-> calls[b].startedAt, readAt |-> calls[b].readAt,
           endedAt |-> calls[b].endedAt, err |-> calls[b].err]
  BY <1>1 DEF CallType
<1>3. [phase |-> "delivered", by |-> calls[b].by, startedAt |-> calls[b].startedAt,
       readAt |-> calls[b].readAt, endedAt |-> calls[b].endedAt,
       err |-> calls[b].err] \in CallType
  BY <1>1 DEF CallType
<1> QED BY <1>2, <1>3, Replaced, ZenonT(30) DEF Deliver, TypeOK, CallIds

-----------------------------------------------------------------------------
(* The invariant holds initially. *)

LEMMA InitInv == Init => Inv
<1> SUFFICES ASSUME Init PROVE Inv
  OBVIOUS
<1>1. CallIds = {} /\ calls \in Seq(CallType)
  BY DEF Init, CallIds
<1>2. Failed(NoErr) \in ReplyType
  BY DEF Failed, ReplyType
<1>3. TypeOK
  BY <1>1, <1>2, CacheAssumption DEF Init, TypeOK, Later
<1>4. FlightInv /\ TimeInv /\ OneRebuildPerCaller
  BY <1>1, CacheAssumption DEF Init, FlightInv, TimeInv, OneRebuildPerCaller
<1>5. CacheInv
  BY <1>1 DEF Init, CacheInv, CacheIsLastAttempt
<1>6. CallerInv
  BY <1>1 DEF Init, CallerInv
<1>7. \A c \in Callers : ~Answered(c)
  BY DEF Init, Answered
<1>8. ReplyInv
  BY <1>7 DEF ReplyInv
<1> QED BY <1>3, <1>4, <1>5, <1>6, <1>8 DEF Inv

-----------------------------------------------------------------------------
(* Every step preserves it, part by part. *)

LEMMA TypeStep == Inv /\ [Next]_vars => TypeOK'
<1> SUFFICES ASSUME Inv, [Next]_vars PROVE TypeOK'
  OBVIOUS
<1> USE DEF Inv
<1>1. SnapshotLocked \in ReplyType /\ Failed(lastErr) \in ReplyType
      /\ Failed(NoErr) \in ReplyType /\ Failed(Canceled) \in ReplyType
  BY DEF TypeOK, SnapshotLocked, Failed, ReplyType
<1>a. ASSUME NEW c \in Callers, Call(c)
      PROVE  asked' \in [Callers -> [at : Nat, good : Nat]] /\ gets' \in Nat
  <2>1. [at |-> now, good |-> good] \in [at : Nat, good : Nat]
    BY DEF TypeOK
  <2> QED BY <1>a, <2>1 DEF Call, TypeOK
<1>2. ASSUME NEW c \in Callers, GetFresh(c) PROVE TypeOK'
  <2>1. reply' \in [Callers -> ReplyType]
    BY <1>1, <1>2 DEF GetFresh, TypeOK
  <2> QED
    BY <1>2, <1>a, <2>1 DEF GetFresh, TypeOK, cacheVars, flightVars
<1>3. ASSUME NEW c \in Callers, GetStale(c) PROVE TypeOK'
  BY <1>1, <1>3, <1>a DEF GetStale, TypeOK, cacheVars, flightVars
<1>4. ASSUME NEW c \in Callers, DoChan(c) PROVE TypeOK'
  <2>1. CASE StartCall(c)
    <3>1. calls' \in Seq(CallType) /\ inflight' = Len(calls) + 1
          /\ on' = [on EXCEPT ![c] = Len(calls) + 1]
      BY <2>1, Started
    <3>2. Len(calls) \in Nat
      BY DEF TypeOK
    <3> QED BY <1>4, <3>1, <3>2 DEF DoChan, TypeOK, cacheVars
  <2>2. CASE JoinCall(c)
    BY <1>4, <2>2 DEF DoChan, JoinCall, flightVars, TypeOK, cacheVars
  <2> QED
    BY <1>4, <2>1, <2>2 DEF DoChan
<1>5. ASSUME NEW c \in Callers, GiveUp(c) PROVE TypeOK'
  BY <1>1, <1>5 DEF GiveUp, TypeOK, cacheVars, flightVars
<1>6. ASSUME NEW c \in Callers, Receive(c) PROVE TypeOK'
  <2>1. calls[on[c]] \in CallType
    BY <1>6 DEF Receive, FlightInv, TypeOK, CallIds
  <2>2. Failed(calls[on[c]].err) \in ReplyType
    BY <2>1 DEF CallType, Failed, ReplyType
  <2>3. reply' \in [Callers -> ReplyType]
    BY <1>1, <1>6, <2>2 DEF Receive, TypeOK
  <2> QED
    BY <1>6, <2>3 DEF Receive, TypeOK, cacheVars, flightVars
<1>7. ASSUME NEW b \in CallIds, BuildReturns(b) PROVE TypeOK'
  <2>1. now \in Nat /\ b \in Nat
    BY DEF TypeOK, CallIds
  <2>2. UNCHANGED <<now, inflight, callerVars>>
    BY <1>7 DEF BuildReturns
  <2>3. PICK e \in BuildErrs \cup {NoErr} :
          /\ calls' \in Seq(CallType)
          /\ IF e = NoErr THEN StoreResult(b) ELSE StoreFailure(e)
    BY <1>7, Returned
  <2> QED
    BY <2>1, <2>2, <2>3 DEF StoreResult, StoreFailure, TypeOK, callerVars
<1>8. ASSUME NEW b \in CallIds, Deliver(b) PROVE TypeOK'
  BY <1>8, Delivered DEF Deliver, TypeOK, cacheVars, callerVars
<1>9. CASE Tick
  BY <1>9, CacheAssumption DEF Tick, TypeOK, cacheVars, flightVars, callerVars
<1>10. CASE UNCHANGED vars
  BY <1>10 DEF TypeOK, vars, cacheVars, flightVars, callerVars
<1> QED
  BY <1>2, <1>3, <1>4, <1>5, <1>6, <1>7, <1>8, <1>9, <1>10 DEF Next, Drained

\* The fields of a call, and the sequence it is in, have their types.
LEMMA CallFields ==
    ASSUME TypeOK
    PROVE  /\ Len(calls) \in Nat
           /\ now \in Nat /\ goodAt \in Nat /\ lastErrAt \in Nat /\ good \in Nat
           /\ \A b \in CallIds :
                /\ b \in Nat /\ 0 < b /\ b <= Len(calls)
                /\ calls[b].phase \in {"building", "stored", "delivered"}
                /\ calls[b].startedAt \in Nat /\ 0 < calls[b].startedAt
                /\ calls[b].readAt \in Nat /\ calls[b].endedAt \in Nat
                /\ calls[b].err \in BuildErrs \cup {NoErr}
                /\ Deadline(b) \in Nat
<1>1. Len(calls) \in Nat /\ \A b \in CallIds : b \in Nat /\ calls[b] \in CallType
                            /\ 0 < b /\ b <= Len(calls)
  BY DEF TypeOK, CallIds
<1>2. \A b \in CallIds :
        /\ calls[b].phase \in {"building", "stored", "delivered"}
        /\ calls[b].startedAt \in Nat /\ 0 < calls[b].startedAt
        /\ calls[b].readAt \in Nat /\ calls[b].endedAt \in Nat
        /\ calls[b].err \in BuildErrs \cup {NoErr}
  BY <1>1 DEF CallType
<1>3. \A b \in CallIds : Deadline(b) \in Nat
  BY <1>2, CacheAssumption DEF Deadline
<1>4. now \in Nat /\ goodAt \in Nat /\ lastErrAt \in Nat /\ good \in Nat
  BY DEF TypeOK
<1> QED BY <1>1, <1>2, <1>3, <1>4

\* A new call extends the set of calls by one.
LEMMA StartedIds ==
    ASSUME TypeOK, NEW c \in Callers, StartCall(c)
    PROVE  /\ CallIds' = CallIds \cup {Len(calls) + 1}
           /\ Len(calls) + 1 \notin CallIds
           /\ \A b \in CallIds : b < Len(calls) + 1
<1>1. Len(calls') = Len(calls) + 1
  BY Started
<1>2. Len(calls) \in Nat
  BY CallFields
<1> QED BY <1>1, <1>2 DEF CallIds

\* What the new call looks like.
LEMMA StartedCall ==
    ASSUME TypeOK, NEW c \in Callers, StartCall(c)
    PROVE  LET n == Len(calls) + 1 IN
           /\ calls'[n].phase = "building" /\ calls'[n].by = c
           /\ calls'[n].startedAt = now /\ calls'[n].endedAt = 0
           /\ calls'[n].err = NoErr
<1>1. calls'[Len(calls) + 1] = [phase |-> "building", by |-> c, startedAt |-> now,
                                readAt |-> 0, endedAt |-> 0, err |-> NoErr]
  BY Started
<1> QED BY <1>1

\* A step of a caller other than starting a call.
QuietStep == UNCHANGED <<now, cacheVars, flightVars>>

LEMMA QuietSteps ==
    ASSUME NEW c \in Callers,
           \/ GetFresh(c) \/ GetStale(c) \/ GiveUp(c) \/ Receive(c)
           \/ DoChan(c) /\ JoinCall(c)
    PROVE  QuietStep
  BY DEF GetFresh, GetStale, GiveUp, Receive, DoChan, JoinCall, QuietStep

LEMMA FlightStep == Inv /\ [Next]_vars => FlightInv'
<1> SUFFICES ASSUME Inv, [Next]_vars PROVE FlightInv'
  OBVIOUS
<1> USE DEF Inv
<1>1. ASSUME NEW c \in Callers, GetFresh(c) \/ GetStale(c) \/ GiveUp(c) \/ Receive(c)
      PROVE  FlightInv'
  BY <1>1 DEF GetFresh, GetStale, GiveUp, Receive, FlightInv, TypeOK, CallIds, flightVars
<1>2. ASSUME NEW c \in Callers, DoChan(c) PROVE FlightInv'
  <2>1. CASE StartCall(c)
    <3>1. inflight = 0 /\ pc' = [pc EXCEPT ![c] = "waiting"]
      BY <1>2, <2>1, CallFields DEF DoChan, JoinCall, StartCall, flightVars
    <3> QED
      <4>1. Len(calls) \in Nat /\ pc \in [Callers -> {"idle", "stale", "waiting"}]
            /\ on \in [Callers -> Nat]
        BY DEF TypeOK
      <4>2. \A b \in CallIds : calls[b].phase = "delivered"
        BY <3>1, <4>1 DEF FlightInv, CallIds
      <4>3. \A b \in CallIds' : calls'[b].phase # "delivered" <=> b = inflight'
        <5>1. \A b \in CallIds : calls'[b] = calls[b]
          BY <2>1, Started
        <5>2. inflight' = Len(calls) + 1 /\ CallIds' = CallIds \cup {Len(calls) + 1}
          BY <2>1, Started, StartedIds
        <5>3. calls'[Len(calls) + 1].phase = "building" /\ Len(calls) + 1 \notin CallIds
          BY <2>1, StartedCall, StartedIds
        <5> QED BY <4>2, <5>1, <5>2, <5>3
      <4>4. \A d \in Callers : pc'[d] = "waiting" => on'[d] \in CallIds'
        BY <2>1, <3>1, <4>1, Started, StartedIds DEF FlightInv
      <4> QED
        BY <2>1, <4>3, <4>4, Started DEF FlightInv
  <2>2. CASE JoinCall(c) /\ inflight # 0
    <3>1. inflight \in CallIds
      BY <2>2, CallFields DEF FlightInv, CallIds
    <3> QED
      BY <1>2, <2>2, <3>1 DEF DoChan, JoinCall, FlightInv, TypeOK, CallIds, flightVars
  <2> QED
    BY <1>2, <2>1, <2>2 DEF DoChan
<1>3. ASSUME NEW b \in CallIds, BuildReturns(b) PROVE FlightInv'
  <2>1. calls[b].phase = "building" /\ Len(calls') = Len(calls)
        /\ \A a \in CallIds : a # b => calls'[a] = calls[a]
    BY <1>3, Returned
  <2>2. UNCHANGED <<inflight, callerVars>>
    BY <1>3 DEF BuildReturns
  <2>3. PICK x : calls'[b] = x /\ x.phase = "stored"
    BY <1>3, Returned
  <2> QED
    BY <2>1, <2>2, <2>3 DEF FlightInv, CallIds, callerVars
<1>4. ASSUME NEW b \in CallIds, Deliver(b) PROVE FlightInv'
  <2>1. calls[b].phase = "stored" /\ b = inflight
    BY <1>4 DEF Deliver, FlightInv
  <2>2. /\ inflight' = 0 /\ UNCHANGED callerVars /\ Len(calls') = Len(calls)
        /\ \A a \in CallIds : a # b => calls'[a] = calls[a]
    BY <1>4, Delivered DEF Deliver
  <2>a. calls'[b] = [phase |-> "delivered", by |-> calls[b].by,
                     startedAt |-> calls[b].startedAt, readAt |-> calls[b].readAt,
                     endedAt |-> calls[b].endedAt, err |-> calls[b].err]
    BY <1>4, Delivered
  <2>3. calls'[b].phase = "delivered"
    BY <2>a
  <2> QED
    BY <2>1, <2>2, <2>3, CallFields DEF FlightInv, CallIds, callerVars
<1>5. CASE Tick \/ UNCHANGED vars
  BY <1>5 DEF Tick, FlightInv, CallIds, vars, flightVars, callerVars
<1> QED
  BY <1>1, <1>2, <1>3, <1>4, <1>5 DEF Next, Drained

LEMMA TimeStep == Inv /\ [Next]_vars => TimeInv'
<1> SUFFICES ASSUME Inv, [Next]_vars PROVE TimeInv'
  OBVIOUS
<1> USE DEF Inv
<1>1. ASSUME QuietStep PROVE TimeInv'
  BY <1>1 DEF QuietStep, TimeInv, CallIds, Ended, Deadline, cacheVars, flightVars
<1>2. ASSUME NEW c \in Callers, DoChan(c), StartCall(c) PROVE TimeInv'
  <2>1. inflight = 0 /\ UNCHANGED <<now, cacheVars>>
    BY <1>2, CallFields DEF DoChan, JoinCall, StartCall, flightVars
  <2>2. \A b \in CallIds : Ended(b)
    BY <2>1, CallFields DEF FlightInv, Ended
  <2>0. PICK n \in Nat : n = Len(calls) + 1
    BY CallFields
  <2>3. /\ \A b \in CallIds : calls'[b] = calls[b]
        /\ CallIds' = CallIds \cup {n} /\ n \notin CallIds
        /\ \A b \in CallIds : b < n
    BY <1>2, <2>0, Started, StartedIds
  <2>4. /\ calls'[n].startedAt = now /\ calls'[n].endedAt = 0
        /\ calls'[n].phase = "building" /\ calls'[n].err = NoErr
    BY <1>2, <2>0, StartedCall
  <2>5. ASSUME NEW b \in CallIds
        PROVE  /\ calls'[b].startedAt <= now'
               /\ Ended(b)' => /\ calls'[b].startedAt <= calls'[b].readAt
                               /\ calls'[b].readAt <= calls'[b].endedAt
                               /\ calls'[b].endedAt <= Deadline(b)'
                               /\ calls'[b].endedAt <= now'
                               /\ \/ calls'[b].endedAt <= goodAt'
                                  \/ calls'[b].endedAt <= lastErrAt'
               /\ calls'[b].phase = "building"
                    => now' <= Deadline(b)' /\ calls'[b].err = NoErr
               /\ calls'[b].phase = "stored" => calls'[b].endedAt = now'
    BY <2>1, <2>3 DEF TimeInv, Ended, Deadline, cacheVars
  <2>6. now' <= Deadline(n)'
    BY <2>1, <2>4, CallFields, CacheAssumption DEF Deadline
  <2>7. \A a, b \in CallIds' : a < b => calls'[a].endedAt <= calls'[b].startedAt
    <3> SUFFICES ASSUME NEW a \in CallIds', NEW b \in CallIds', a < b
                 PROVE  calls'[a].endedAt <= calls'[b].startedAt
      OBVIOUS
    <3>1. a \in CallIds
      BY <2>3, CallFields
    <3>2. calls[a].endedAt <= now
      BY <2>2, <3>1 DEF TimeInv
    <3> QED BY <2>3, <2>4, <3>1, <3>2 DEF TimeInv
  <2>8. calls'[n].phase # "stored" /\ ~Ended(n)' /\ calls'[n].startedAt <= now'
    BY <2>1, <2>4, CallFields DEF Ended
  <2>9. /\ goodAt' <= now' /\ lastErrAt' <= now'
        /\ lastErr' = NoErr <=> lastErrAt' = 0
        /\ good' = 0 => goodAt' = 0
    BY <2>1 DEF TimeInv, cacheVars
  <2> QED
    BY <2>3, <2>4, <2>5, <2>6, <2>7, <2>8, <2>9 DEF TimeInv
<1>3. ASSUME NEW b \in CallIds, BuildReturns(b) PROVE TimeInv'
  <2>1. PICK e \in BuildErrs \cup {NoErr}, read \in Nat :
          /\ calls[b].phase = "building"
          /\ calls[b].startedAt <= read /\ read <= now
          /\ IF e = NoErr THEN StoreResult(b) ELSE StoreFailure(e)
          /\ Len(calls') = Len(calls)
          /\ \A a \in CallIds : calls'[a] =
               IF a = b THEN [phase |-> "stored", by |-> calls[b].by,
                              startedAt |-> calls[b].startedAt, readAt |-> read,
                              endedAt |-> now, err |-> e]
                        ELSE calls[a]
    BY <1>3, Returned
  <2>2. now' = now
    BY <1>3 DEF BuildReturns
  <2>3. b = Len(calls) /\ CallIds' = CallIds
    BY <2>1, CallFields DEF FlightInv, CallIds
  <2>4. now <= Deadline(b) /\ 0 < now /\ 0 < b
    BY <2>1, CallFields DEF TimeInv, TypeOK
  <2>5. calls'[b].startedAt = calls[b].startedAt /\ calls'[b].readAt = read
        /\ calls'[b].endedAt = now /\ calls'[b].phase = "stored"
    BY <2>1
  <2>6. /\ goodAt' <= now' /\ lastErrAt' <= now'
        /\ lastErr' = NoErr <=> lastErrAt' = 0
        /\ good' = 0 => goodAt' = 0
        /\ goodAt <= goodAt' /\ (lastErrAt <= lastErrAt' \/ lastErrAt <= goodAt')
        /\ now = goodAt' \/ now = lastErrAt'
    BY <2>1, <2>2, <2>4, CallFields DEF TimeInv, StoreResult, StoreFailure
  <2>7. goodAt' \in Nat /\ lastErrAt' \in Nat
    BY <2>1, CallFields DEF StoreResult, StoreFailure
  <2>8. ASSUME NEW a \in CallIds', a # b
        PROVE  /\ calls'[a] = calls[a]
               /\ calls[a].startedAt <= now
               /\ Ended(a)
               /\ calls[a].endedAt <= goodAt' \/ calls[a].endedAt <= lastErrAt'
               /\ calls[a].phase = "delivered"
    BY <2>1, <2>3, <2>6, <2>7, <2>8, CallFields DEF TimeInv, FlightInv, Ended
  <2>9. \A a, d \in CallIds' : a < d => calls'[a].endedAt <= calls'[d].startedAt
    BY <2>1, <2>3, <2>5, <2>8, CallFields, SMTT(30) DEF TimeInv
  <2>10. /\ calls'[b].startedAt <= now'
         /\ Deadline(b)' = Deadline(b)
         /\ calls'[b].startedAt <= calls'[b].readAt
         /\ calls'[b].readAt <= calls'[b].endedAt
         /\ calls'[b].endedAt <= now' /\ calls'[b].endedAt = now'
         /\ calls'[b].phase # "building"
         /\ calls'[b].endedAt <= goodAt' \/ calls'[b].endedAt <= lastErrAt'
    BY <2>1, <2>2, <2>5, <2>6, <2>7, CallFields DEF TimeInv, Deadline
  <2>11. ASSUME NEW a \in CallIds', a # b
         PROVE  /\ calls'[a].startedAt <= now'
                /\ calls'[a].startedAt <= calls'[a].readAt
                /\ calls'[a].readAt <= calls'[a].endedAt
                /\ calls'[a].endedAt <= Deadline(a)'
                /\ calls'[a].endedAt <= now'
                /\ calls'[a].endedAt <= goodAt' \/ calls'[a].endedAt <= lastErrAt'
                /\ calls'[a].phase = "delivered"
    BY <2>2, <2>3, <2>8, <2>11 DEF TimeInv, Deadline
  <2> QED
    BY <2>2, <2>4, <2>6, <2>9, <2>10, <2>11 DEF TimeInv
<1>4. ASSUME NEW b \in CallIds, Deliver(b) PROVE TimeInv'
  <2>1. calls[b].phase = "stored" /\ UNCHANGED <<now, cacheVars>>
    BY <1>4 DEF Deliver
  <2>2. CallIds' = CallIds
        /\ \A a \in CallIds :
             /\ calls'[a].startedAt = calls[a].startedAt
             /\ calls'[a].readAt = calls[a].readAt
             /\ calls'[a].endedAt = calls[a].endedAt
             /\ calls'[a].err = calls[a].err
             /\ calls'[a].phase = IF a = b THEN "delivered" ELSE calls[a].phase
    <3>1. CallIds' = CallIds
      BY <1>4, Delivered DEF CallIds
    <3>2. ASSUME NEW a \in CallIds
          PROVE  /\ calls'[a].startedAt = calls[a].startedAt
                 /\ calls'[a].readAt = calls[a].readAt
                 /\ calls'[a].endedAt = calls[a].endedAt
                 /\ calls'[a].err = calls[a].err
                 /\ calls'[a].phase = IF a = b THEN "delivered" ELSE calls[a].phase
      <4>1. CASE a = b
        <5>1. calls'[b] = [phase |-> "delivered", by |-> calls[b].by,
                           startedAt |-> calls[b].startedAt,
                           readAt |-> calls[b].readAt,
                           endedAt |-> calls[b].endedAt, err |-> calls[b].err]
          BY <1>4, Delivered
        <5> QED BY <4>1, <5>1
      <4>2. CASE a # b
        BY <1>4, <4>2, Delivered
      <4> QED BY <4>1, <4>2
    <3> QED BY <3>1, <3>2
  <2> QED
    BY <2>1, <2>2 DEF TimeInv, Ended, Deadline, cacheVars
<1>5. CASE Tick
  <2>1. UNCHANGED <<cacheVars, flightVars>> /\ now' = now + 1
        /\ \A b \in CallIds : /\ calls[b].phase # "stored"
                              /\ calls[b].phase = "building" => now < Deadline(b)
    BY <1>5 DEF Tick
  <2>2. CallIds' = CallIds /\ calls' = calls
    BY <2>1 DEF CallIds, flightVars
  <2>3. \A b \in CallIds : calls[b].phase = "building" => now + 1 <= Deadline(b)
    BY <2>1, CallFields
  <2> QED
    BY <2>1, <2>2, <2>3, CallFields DEF TimeInv, Ended, Deadline, cacheVars
<1>6. CASE UNCHANGED vars
  BY <1>1, <1>6 DEF vars, QuietStep
<1> QED
  BY <1>1, <1>2, <1>3, <1>4, <1>5, <1>6, QuietSteps DEF Next, Drained, DoChan

\* What the return of a build does to the calls: the call that ends is the
\* newest one, and the others had ended before.
LEMMA ReturnedCalls ==
    ASSUME TypeOK, FlightInv, NEW b \in CallIds, BuildReturns(b)
    PROVE  \E e \in BuildErrs \cup {NoErr}, read \in Nat :
             /\ IF e = NoErr THEN StoreResult(b) ELSE StoreFailure(e)
             /\ calls[b].phase = "building" /\ b = Len(calls)
             /\ CallIds' = CallIds
             /\ \A a \in CallIds : a <= b /\ (a # b => Ended(a) /\ calls'[a] = calls[a])
             /\ calls'[b].by = calls[b].by
             /\ calls'[b].startedAt = calls[b].startedAt
             /\ calls'[b].readAt = read
             /\ calls'[b].endedAt = now /\ calls'[b].err = e
             /\ calls'[b].phase = "stored"
             /\ UNCHANGED <<now, inflight, pc, on, asked, reply>>
<1>1. PICK e \in BuildErrs \cup {NoErr}, read \in Nat :
        /\ calls[b].phase = "building"
        /\ IF e = NoErr THEN StoreResult(b) ELSE StoreFailure(e)
        /\ Len(calls') = Len(calls)
        /\ \A a \in CallIds : calls'[a] =
             IF a = b THEN [phase |-> "stored", by |-> calls[b].by,
                            startedAt |-> calls[b].startedAt, readAt |-> read,
                            endedAt |-> now, err |-> e]
                      ELSE calls[a]
  BY Returned
<1>2. CallIds' = CallIds /\ b = inflight /\ b = Len(calls)
  BY <1>1, CallFields DEF CallIds, FlightInv
<1>3. \A a \in CallIds : a <= b /\ (a # b => Ended(a) /\ calls'[a] = calls[a])
  BY <1>1, <1>2, CallFields DEF FlightInv, Ended
<1>4. UNCHANGED <<now, inflight, pc, on, asked, reply>>
  BY DEF BuildReturns, callerVars
<1>5. calls'[b] = [phase |-> "stored", by |-> calls[b].by,
                   startedAt |-> calls[b].startedAt, readAt |-> read,
                   endedAt |-> now, err |-> e]
  BY <1>1
<1>6. /\ calls'[b].by = calls[b].by /\ calls'[b].startedAt = calls[b].startedAt
      /\ calls'[b].readAt = read /\ calls'[b].endedAt = now /\ calls'[b].err = e
      /\ calls'[b].phase = "stored"
  BY <1>5
<1> QED BY <1>1, <1>2, <1>3, <1>4, <1>6

\* Delivery changes nothing but the phase of an ended call.
LEMMA DeliveredCalls ==
    ASSUME TypeOK, NEW b \in CallIds, Deliver(b)
    PROVE  /\ CallIds' = CallIds
           /\ \A a \in CallIds :
                /\ calls'[a].by = calls[a].by
                /\ calls'[a].startedAt = calls[a].startedAt
                /\ calls'[a].readAt = calls[a].readAt
                /\ calls'[a].endedAt = calls[a].endedAt
                /\ calls'[a].err = calls[a].err
                /\ Ended(a)' <=> Ended(a)
           /\ UNCHANGED <<now, cacheVars, pc, on, asked, reply>>
<1>1. CallIds' = CallIds
  BY Delivered DEF CallIds
<1>2. calls[b].phase = "stored" /\ UNCHANGED <<now, cacheVars, pc, on, asked, reply>>
  BY DEF Deliver, callerVars
<1>3. \A a \in CallIds : a # b => calls'[a] = calls[a]
  BY Delivered
<1>4. calls'[b] = [phase |-> "delivered", by |-> calls[b].by,
                   startedAt |-> calls[b].startedAt, readAt |-> calls[b].readAt,
                   endedAt |-> calls[b].endedAt, err |-> calls[b].err]
  BY Delivered
<1>5. /\ calls'[b].by = calls[b].by /\ calls'[b].startedAt = calls[b].startedAt
      /\ calls'[b].readAt = calls[b].readAt
      /\ calls'[b].endedAt = calls[b].endedAt /\ calls'[b].err = calls[b].err
      /\ calls'[b].phase = "delivered"
  BY <1>4
<1> QED BY <1>1, <1>2, <1>3, <1>5 DEF Ended

LEMMA CacheStep == Inv /\ [Next]_vars => CacheInv'
<1> SUFFICES ASSUME Inv, [Next]_vars PROVE CacheInv'
  OBVIOUS
<1> USE DEF Inv
<1>1. ASSUME UNCHANGED <<cacheVars, flightVars>> PROVE CacheInv'
  BY <1>1 DEF CacheInv, CacheIsLastAttempt, CallIds, Succeeded, Ended,
              cacheVars, flightVars
<1>2. ASSUME NEW c \in Callers, DoChan(c), StartCall(c) PROVE CacheInv'
  <2>0. PICK n \in Nat : n = Len(calls) + 1
    BY CallFields
  <2>1. UNCHANGED cacheVars
    BY <1>2 DEF DoChan
  <2>2. /\ \A b \in CallIds : calls'[b] = calls[b]
        /\ CallIds' = CallIds \cup {n} /\ n \notin CallIds
    BY <1>2, <2>0, Started, StartedIds
  <2>3. calls'[n].phase = "building"
    BY <1>2, <2>0, StartedCall
  <2>4. /\ \A b \in CallIds : (Ended(b)' <=> Ended(b)) /\ (Succeeded(b)' <=> Succeeded(b))
        /\ ~Ended(n)' /\ ~Succeeded(n)'
    BY <2>2, <2>3 DEF Ended, Succeeded
  <2> QED
    BY <2>1, <2>2, <2>4 DEF CacheInv, CacheIsLastAttempt, cacheVars
<1>3. ASSUME NEW b \in CallIds, BuildReturns(b) PROVE CacheInv'
  <2>1. PICK e \in BuildErrs \cup {NoErr}, read \in Nat :
          /\ IF e = NoErr THEN StoreResult(b) ELSE StoreFailure(e)
          /\ calls[b].phase = "building" /\ b = Len(calls)
          /\ CallIds' = CallIds
          /\ \A a \in CallIds : a <= b /\ (a # b => Ended(a) /\ calls'[a] = calls[a])
          /\ calls'[b].endedAt = now /\ calls'[b].err = e
          /\ calls'[b].phase = "stored"
    BY <1>3, ReturnedCalls
  <2>2. /\ Ended(b)' /\ ~Ended(b)
        /\ \A a \in CallIds : a # b => (Ended(a)' <=> Ended(a))
                                       /\ (Succeeded(a)' <=> Succeeded(a))
    BY <2>1 DEF Ended, Succeeded
  <2>3. good # 0 => good # b /\ good < b /\ good \in CallIds
    BY <2>1, <2>2, CallFields DEF CacheInv, CacheIsLastAttempt, Succeeded
  <2>4. CASE e = NoErr
    <3>1. good' = b /\ goodAt' = now /\ lastErr' = NoErr /\ lastErrAt' = 0
      BY <2>1, <2>4 DEF StoreResult
    <3>2. Succeeded(b)'
      BY <2>1, <2>2, <2>4 DEF Succeeded
    <3>3. \A a \in CallIds : (\A d \in CallIds' : Ended(d)' => d <= a) => a = b
      BY <2>1, <2>2, CallFields
    <3> QED
      BY <2>1, <2>2, <2>4, <3>1, <3>2, <3>3, CallFields DEF CacheInv, CacheIsLastAttempt
  <2>5. CASE e # NoErr
    <3>1. good' = good /\ goodAt' = goodAt /\ lastErr' = e /\ lastErrAt' = now
      BY <2>1, <2>5 DEF StoreFailure
    <3>2. ~Succeeded(b)' /\ ~Succeeded(b)
      BY <2>1, <2>2, <2>5 DEF Succeeded
    <3>3. \A a \in CallIds : (\A d \in CallIds' : Ended(d)' => d <= a) => a = b
      BY <2>1, <2>2, CallFields
    <3>4. b > good
      BY <2>3, CallFields
    <3>5. good' # 0 => /\ good' \in CallIds' /\ Succeeded(good)'
                       /\ goodAt' = calls'[good].endedAt
      BY <2>1, <2>2, <2>3, <3>1 DEF CacheInv, CacheIsLastAttempt
    <3>6. \A a \in CallIds' : Succeeded(a)' => a <= good'
      BY <2>1, <2>2, <3>1, <3>2 DEF CacheInv, CacheIsLastAttempt
    <3> QED
      BY <2>1, <2>2, <2>5, <3>1, <3>3, <3>4, <3>5, <3>6
         DEF CacheInv, CacheIsLastAttempt
  <2> QED BY <2>4, <2>5
<1>4. ASSUME NEW b \in CallIds, Deliver(b) PROVE CacheInv'
  BY <1>4, DeliveredCalls DEF CacheInv, CacheIsLastAttempt, Succeeded, cacheVars
<1>5. CASE Tick \/ UNCHANGED vars
  BY <1>1, <1>5 DEF Tick, vars
<1> QED
  BY <1>1, <1>2, <1>3, <1>4, <1>5, QuietSteps
     DEF Next, Drained, DoChan, QuietStep

\* The cache never loses its result, nor takes an older one.
LEMMA GoodGrows == Inv /\ [Next]_vars => good <= good'
<1> SUFFICES ASSUME Inv, [Next]_vars PROVE good <= good'
  OBVIOUS
<1> USE DEF Inv
<1>1. CASE UNCHANGED cacheVars
  BY <1>1, CallFields DEF cacheVars
<1>2. ASSUME NEW b \in CallIds, BuildReturns(b) PROVE good <= good'
  <2>1. PICK e \in BuildErrs \cup {NoErr} :
          /\ IF e = NoErr THEN StoreResult(b) ELSE StoreFailure(e)
          /\ \A a \in CallIds : a <= b
    BY <1>2, ReturnedCalls
  <2>2. good <= b
    BY <2>1, CallFields DEF CacheInv, CacheIsLastAttempt
  <2> QED BY <2>1, <2>2, CallFields DEF StoreResult, StoreFailure
<1> QED
  BY <1>1, <1>2 DEF Next, Drained, vars, GetFresh, GetStale, DoChan, GiveUp, Receive,
                    Deliver, Tick

LEMMA CallerStep == Inv /\ [Next]_vars => CallerInv'
<1> SUFFICES ASSUME Inv, [Next]_vars PROVE CallerInv'
  OBVIOUS
<1> USE DEF Inv
<1>1. good <= good' /\ good' \in Nat /\ good \in Nat
  BY GoodGrows, TypeStep, CallFields DEF TypeOK
<1>2. ASSUME UNCHANGED <<flightVars, asked>>, now <= now', now' \in Nat,
             \A d \in Callers : /\ pc'[d] = "stale" => pc[d] = "stale"
                                /\ pc'[d] = "waiting" => pc[d] = "waiting" /\ on'[d] = on[d]
      PROVE  CallerInv'
  <2>1. \A d \in Callers : asked[d].at \in Nat /\ asked[d].good \in Nat
    BY DEF TypeOK
  <2> QED
    BY <1>1, <1>2, <2>1, CallFields DEF CallerInv, CallIds, Ended, flightVars
<1>3. ASSUME NEW c \in Callers, Call(c), UNCHANGED <<now, cacheVars, flightVars, on>>,
             \A d \in Callers : d # c => pc'[d] = pc[d],
             pc'[c] \in {"idle", "stale"}, pc'[c] = "stale" => ~Fresh
      PROVE  CallerInv'
  <2>1. asked'[c] = [at |-> now, good |-> good] /\ \A d \in Callers : d # c => asked'[d] = asked[d]
    BY <1>3 DEF Call, TypeOK
  <2>2. ASSUME NEW d \in Callers, d # c
        PROVE  /\ asked'[d].at <= now' /\ asked'[d].good <= good'
               /\ pc'[d] = "stale" =>
                    \A a, b \in CallIds' : a < b /\ calls'[b].by = d =>
                      calls'[a].endedAt + TTL <= asked'[d].at
               /\ pc'[d] = "waiting" /\ Ended(on[d])'
                    => asked'[d].at <= calls'[on'[d]].endedAt
    BY <1>3, <2>1, <2>2 DEF CallerInv, CallIds, Ended, cacheVars, flightVars
  <2>3. ASSUME ~Fresh, NEW a \in CallIds, NEW b \in CallIds, a < b
        PROVE  calls[a].endedAt + TTL <= now
    <3>1. Ended(a)
      BY <2>3, CallFields DEF FlightInv, Ended
    <3>2. 0 < calls[a].endedAt /\ calls[a].endedAt <= now
          /\ (calls[a].endedAt <= goodAt \/ calls[a].endedAt <= lastErrAt)
      BY <3>1, CallFields DEF TimeInv
    <3> QED
      BY <2>3, <3>2, CallFields, CacheAssumption DEF Fresh, Later
  <2>4. /\ asked'[c].at = now /\ asked'[c].good = good /\ now' = now /\ good' = good
        /\ calls' = calls /\ CallIds' = CallIds
    BY <1>3, <2>1 DEF cacheVars, flightVars, CallIds
  <2>5. pc'[c] = "stale" => \A a, b \in CallIds' : a < b /\ calls'[b].by = c =>
                              calls'[a].endedAt + TTL <= asked'[c].at
    BY <1>3, <2>3, <2>4
  <2>6. asked'[c].at <= now' /\ asked'[c].good <= good' /\ pc'[c] # "waiting"
    BY <1>3, <2>4, CallFields
  <2> QED BY <2>2, <2>5, <2>6 DEF CallerInv
<1>4. ASSUME NEW c \in Callers, GetFresh(c) PROVE CallerInv'
  <2>1. /\ pc'[c] = "idle" /\ pc'[c] # "stale"
        /\ \A d \in Callers : d # c => pc'[d] = pc[d]
        /\ Call(c) /\ UNCHANGED <<now, cacheVars, flightVars, on>>
    BY <1>4 DEF GetFresh, Call
  <2> QED BY <1>3, <2>1
<1>5. ASSUME NEW c \in Callers, GetStale(c) PROVE CallerInv'
  <2>1. /\ pc'[c] = "stale" /\ \A d \in Callers : d # c => pc'[d] = pc[d]
        /\ Call(c) /\ ~Fresh /\ UNCHANGED <<now, cacheVars, flightVars, on>>
    BY <1>5 DEF GetStale, TypeOK
  <2> QED BY <1>3, <2>1
<1>6. ASSUME NEW c \in Callers, GiveUp(c) \/ Receive(c) PROVE CallerInv'
  <2>1. /\ pc'[c] = "idle" /\ \A d \in Callers : d # c => pc'[d] = pc[d] /\ on'[d] = on[d]
        /\ UNCHANGED <<now, flightVars, asked>>
    BY <1>6 DEF GiveUp, Receive, TypeOK
  <2> QED BY <1>2, <2>1, CallFields
<1>7. ASSUME NEW c \in Callers, DoChan(c) PROVE CallerInv'
  <2>1. /\ pc[c] = "stale" /\ pc'[c] = "waiting"
        /\ \A d \in Callers : d # c => pc'[d] = pc[d]
        /\ UNCHANGED <<now, asked, cacheVars>>
    BY <1>7 DEF DoChan, TypeOK
  <2>2. ASSUME StartCall(c) PROVE CallerInv'
    <3>0. PICK n \in Nat : n = Len(calls) + 1
      BY CallFields
    <3>1. /\ \A b \in CallIds : calls'[b] = calls[b]
          /\ CallIds' = CallIds \cup {n} /\ n \notin CallIds
          /\ \A b \in CallIds : b < n
          /\ on' = [on EXCEPT ![c] = n]
      BY <2>2, <3>0, Started, StartedIds
    <3>2. calls'[n].phase = "building" /\ calls'[n].by = c
      BY <2>2, <3>0, StartedCall
    <3>3. on'[c] = n /\ \A d \in Callers : d # c => on'[d] = on[d]
      BY <3>1 DEF TypeOK
    <3>4. ~(calls'[n].phase \in {"stored", "delivered"})
      BY <3>2
    <3>5. ASSUME NEW d \in Callers, d # c
          PROVE  /\ pc'[d] = "stale" =>
                      \A a, b \in CallIds' : a < b /\ calls'[b].by = d =>
                        calls'[a].endedAt + TTL <= asked'[d].at
                 /\ pc'[d] = "waiting" /\ Ended(on[d])'
                      => asked'[d].at <= calls'[on'[d]].endedAt
      <4>1. ASSUME pc'[d] = "stale", NEW a \in CallIds', NEW b \in CallIds', a < b,
                   calls'[b].by = d
            PROVE  calls'[a].endedAt + TTL <= asked'[d].at
        <5>1. b \in CallIds
          BY <3>1, <3>2, <3>5, <4>1
        <5>2. a \in CallIds
          BY <3>1, <4>1, <5>1, CallFields
        <5> QED BY <2>1, <3>1, <3>5, <4>1, <5>1, <5>2 DEF CallerInv
      <4>2. ASSUME pc'[d] = "waiting", Ended(on[d])'
            PROVE  asked'[d].at <= calls'[on'[d]].endedAt
        <5>1. on'[d] = on[d] /\ on[d] \in CallIds /\ pc[d] = "waiting"
          BY <2>1, <3>3, <3>5, <4>2 DEF FlightInv
        <5>2. calls'[on[d]] = calls[on[d]] /\ Ended(on[d])
          <6>1. calls'[on[d]] = calls[on[d]]
            BY <3>1, <5>1
          <6> QED BY <4>2, <5>1, <6>1 DEF Ended
        <5> QED BY <2>1, <5>1, <5>2 DEF CallerInv
      <4> QED BY <4>1, <4>2
    <3>6. pc'[c] # "stale" /\ ~Ended(on[c])'
      BY <2>1, <3>3, <3>4 DEF Ended
    <3>7. \A d \in Callers : asked'[d].at <= now' /\ asked'[d].good <= good'
      BY <2>1 DEF CallerInv, cacheVars
    <3> QED BY <3>5, <3>6, <3>7 DEF CallerInv
  <2>3. ASSUME JoinCall(c), inflight # 0 PROVE CallerInv'
    <3>1. /\ on'[c] = inflight /\ \A d \in Callers : d # c => on'[d] = on[d]
          /\ calls' = calls /\ CallIds' = CallIds
          /\ inflight \in CallIds
      BY <2>3, CallFields DEF JoinCall, TypeOK, flightVars, CallIds, FlightInv
    <3>2. Ended(inflight) => asked[c].at <= calls[inflight].endedAt
      <4>1. CASE calls[inflight].phase = "stored"
        BY <3>1, <4>1 DEF TimeInv, CallerInv
      <4>2. CASE calls[inflight].phase = "delivered"
        BY <3>1, <4>2 DEF FlightInv
      <4> QED BY <4>1, <4>2 DEF Ended
    <3> QED
      BY <2>1, <3>1, <3>2 DEF CallerInv, cacheVars, Ended
  <2> QED BY <1>7, <2>2, <2>3 DEF DoChan
<1>8. ASSUME NEW b \in CallIds, BuildReturns(b) PROVE CallerInv'
  <2>1. /\ b = Len(calls) /\ CallIds' = CallIds /\ calls'[b].by = calls[b].by
        /\ calls[b].phase = "building"
        /\ calls'[b].endedAt = now
        /\ \A a \in CallIds : a <= b /\ (a # b => Ended(a) /\ calls'[a] = calls[a])
        /\ UNCHANGED <<now, pc, on, asked>>
    BY <1>8, ReturnedCalls
  <2>2. ASSUME NEW d \in Callers, pc[d] = "stale", NEW a \in CallIds, NEW e \in CallIds,
               a < e, calls'[e].by = d
        PROVE  calls'[a].endedAt + TTL <= asked[d].at
    <3>1. a # b /\ calls[e].by = d
      BY <2>1, <2>2, CallFields
    <3> QED BY <2>1, <2>2, <3>1 DEF CallerInv
  <2>3. ASSUME NEW d \in Callers, pc[d] = "waiting", Ended(on[d])'
        PROVE  asked[d].at <= calls'[on[d]].endedAt
    <3>1. CASE on[d] = b
      BY <2>1, <3>1 DEF CallerInv
    <3>2. CASE on[d] # b
      BY <2>1, <2>3, <3>2 DEF CallerInv, FlightInv
    <3> QED BY <3>1, <3>2
  <2>4. \A d \in Callers : asked'[d].at <= now' /\ asked'[d].good <= good'
    <3>1. \A d \in Callers : asked[d].good \in Nat
      BY DEF TypeOK
    <3> QED BY <1>1, <2>1, <3>1 DEF CallerInv
  <2> QED BY <2>1, <2>2, <2>3, <2>4 DEF CallerInv
<1>9. ASSUME NEW b \in CallIds, Deliver(b) PROVE CallerInv'
  BY <1>9, DeliveredCalls DEF CallerInv, FlightInv, cacheVars
<1>10. CASE Tick \/ UNCHANGED vars
  <2>1. UNCHANGED <<flightVars, asked, pc, on>> /\ now <= now' /\ now' \in Nat
    BY <1>10, CallFields DEF Tick, vars, callerVars
  <2> QED BY <1>2, <2>1
<1> QED
  BY <1>4, <1>5, <1>6, <1>7, <1>8, <1>9, <1>10 DEF Next, Drained

LEMMA OnceStep == Inv /\ [Next]_vars => OneRebuildPerCaller'
<1> SUFFICES ASSUME Inv, [Next]_vars PROVE OneRebuildPerCaller'
  OBVIOUS
<1> USE DEF Inv
<1>1. ASSUME UNCHANGED flightVars PROVE OneRebuildPerCaller'
  BY <1>1 DEF OneRebuildPerCaller, CallIds, flightVars
<1>2. ASSUME NEW c \in Callers, DoChan(c), StartCall(c) PROVE OneRebuildPerCaller'
  <2>0. PICK n \in Nat : n = Len(calls) + 1
    BY CallFields
  <2>1. /\ \A b \in CallIds : calls'[b] = calls[b] /\ b < n
        /\ CallIds' = CallIds \cup {n}
    BY <1>2, <2>0, Started, StartedIds
  <2>2. calls'[n].startedAt = now /\ calls'[n].by = c
    BY <1>2, <2>0, StartedCall
  <2> SUFFICES ASSUME NEW a \in CallIds', NEW b1 \in CallIds', NEW b2 \in CallIds',
                      a < b1, b1 < b2,
                      calls'[b2].startedAt < calls'[a].endedAt + TTL
               PROVE  calls'[b1].by # calls'[b2].by
    BY DEF OneRebuildPerCaller
  <2>3. b1 \in CallIds /\ a \in CallIds
    BY <2>1, CallFields
  <2>4. CASE b2 \in CallIds
    BY <2>1, <2>3, <2>4 DEF OneRebuildPerCaller
  <2>5. CASE b2 = n
    <3>1. pc[c] = "stale"
      BY <1>2 DEF DoChan
    <3>2. now < calls[a].endedAt + TTL
      BY <2>1, <2>2, <2>3, <2>5
    <3>3. calls[b1].by = c => calls[a].endedAt + TTL <= asked[c].at /\ asked[c].at <= now
      BY <2>3, <3>1 DEF CallerInv
    <3>4. calls[a].endedAt + TTL \in Nat /\ asked[c].at \in Nat /\ now \in Nat
      BY <2>3, CallFields, CacheAssumption DEF TypeOK
    <3>5. calls[b1].by # c
      BY <3>2, <3>3, <3>4
    <3> QED BY <2>1, <2>2, <2>3, <2>5, <3>5
  <2> QED BY <2>1, <2>4, <2>5
<1>3. ASSUME NEW b \in CallIds, BuildReturns(b) PROVE OneRebuildPerCaller'
  <2>1. /\ CallIds' = CallIds /\ calls'[b].by = calls[b].by
        /\ calls'[b].startedAt = calls[b].startedAt
        /\ \A a \in CallIds : a <= b /\ (a # b => calls'[a] = calls[a])
    BY <1>3, ReturnedCalls
  <2> SUFFICES ASSUME NEW a \in CallIds, NEW b1 \in CallIds, NEW b2 \in CallIds,
                      a < b1, b1 < b2,
                      calls'[b2].startedAt < calls'[a].endedAt + TTL
               PROVE  calls'[b1].by # calls'[b2].by
    BY <2>1 DEF OneRebuildPerCaller
  <2>2. a # b
    BY <2>1, CallFields
  <2> QED BY <2>1, <2>2 DEF OneRebuildPerCaller
<1>4. ASSUME NEW b \in CallIds, Deliver(b) PROVE OneRebuildPerCaller'
  BY <1>4, DeliveredCalls DEF OneRebuildPerCaller
<1> QED
  BY <1>1, <1>2, <1>3, <1>4, QuietSteps
     DEF Next, Drained, DoChan, QuietStep, Tick, vars

\* What an answer has to satisfy to be the one the cache gives now.
LEMMA GoodAnswer ==
    ASSUME Inv, good # 0, NEW t \in Nat, t <= now,
           lastErr = NoErr /\ ~Fresh => t <= calls[good].endedAt
    PROVE  Accounted(SnapshotLocked, t)
<1> USE DEF Inv
<1>1. /\ good \in CallIds /\ Succeeded(good) /\ Ended(good)
      /\ goodAt = calls[good].endedAt
  BY DEF CacheInv, CacheIsLastAttempt, Succeeded
<1>2. lastErr = NoErr => lastErrAt = 0
  BY DEF TimeInv
<1>3. ASSUME lastErr = NoErr
      PROVE  t < calls[good].readAt + BuildTimeout + Later(TTL, 1)
  <2>1. calls[good].endedAt <= calls[good].readAt + BuildTimeout
    <3>1. calls[good].startedAt <= calls[good].readAt
          /\ calls[good].endedAt <= calls[good].startedAt + BuildTimeout
      BY <1>1 DEF TimeInv, Deadline
    <3> QED BY <1>1, <3>1, CallFields, CacheAssumption, SMTT(30)
  <2>3. CASE Fresh
    <3>1. Later(goodAt, lastErrAt) = goodAt
      BY <1>2, <1>3, CallFields DEF Later
    <3>2. TTL > 0 /\ now - goodAt < TTL
      BY <2>3, <3>1 DEF Fresh
    <3>3. t <= now /\ Later(TTL, 1) >= TTL
      BY CacheAssumption DEF Later
    <3>4. now < calls[good].endedAt + TTL
      BY <1>1, <3>2, CallFields, CacheAssumption
    <3>5. Later(TTL, 1) \in Nat
      BY CacheAssumption DEF Later
    <3> QED
      BY <1>1, <2>1, <3>3, <3>4, <3>5, CallFields, CacheAssumption
  <2>4. CASE ~Fresh
    BY <1>1, <1>3, <2>1, <2>4, CallFields, CacheAssumption DEF Later
  <2> QED BY <2>3, <2>4
<1> QED BY <1>1, <1>2, <1>3 DEF Accounted, SnapshotLocked

\* Every step leaves the outcome of an ended call as it is.
LEMMA OutcomesStay ==
    ASSUME Inv, [Next]_vars, NEW b \in CallIds, Ended(b)
    PROVE  /\ b \in CallIds' /\ Ended(b)'
           /\ calls'[b].endedAt = calls[b].endedAt
           /\ calls'[b].readAt = calls[b].readAt
           /\ calls'[b].err = calls[b].err
<1> USE DEF Inv
<1> DEFINE Stays == /\ b \in CallIds' /\ Ended(b)'
                    /\ calls'[b].endedAt = calls[b].endedAt
                    /\ calls'[b].readAt = calls[b].readAt
                    /\ calls'[b].err = calls[b].err
<1>1. CASE UNCHANGED flightVars
  BY <1>1 DEF flightVars, CallIds, Ended
<1>2. ASSUME NEW c \in Callers, StartCall(c) PROVE Stays
  <2>1. b \in CallIds' /\ calls'[b] = calls[b]
    BY <1>2, Started, StartedIds
  <2> QED BY <2>1 DEF Ended
<1>3. ASSUME NEW a \in CallIds, BuildReturns(a) PROVE Stays
  <2>1. /\ calls[a].phase = "building" /\ CallIds' = CallIds
        /\ a # b => calls'[b] = calls[b]
    BY <1>3, ReturnedCalls
  <2> QED BY <2>1 DEF Ended
<1>4. ASSUME NEW a \in CallIds, Deliver(a) PROVE Stays
  BY <1>4, DeliveredCalls
<1> QED
  BY <1>1, <1>2, <1>3, <1>4 DEF Next, Drained, vars, GetFresh, GetStale, DoChan,
                                JoinCall, GiveUp, Receive, Tick

\* A snapshot that is accounted for stays so.
LEMMA StillAccounted ==
    ASSUME Inv, [Next]_vars, NEW r, NEW t, Accounted(r, t)
    PROVE  Accounted(r, t)'
  BY OutcomesStay DEF Accounted, Succeeded

LEMMA ReplyStep == Inv /\ [Next]_vars => ReplyInv'
<1> SUFFICES ASSUME Inv, [Next]_vars PROVE ReplyInv'
  OBVIOUS
<1> USE DEF Inv
<1>1. ASSUME NEW c \in Callers,
             Answered(c)' => Answered(c) /\ reply'[c] = reply[c] /\ asked'[c] = asked[c]
      PROVE  Answered(c)' => /\ Accounted(reply[c], asked[c].at)'
                             /\ reply'[c].result >= asked'[c].good
  <2> SUFFICES ASSUME Answered(c)'
               PROVE  /\ Accounted(reply[c], asked[c].at)'
                      /\ reply'[c].result >= asked'[c].good
    OBVIOUS
  <2>1. PICK r, t : r = reply[c] /\ t = asked[c].at /\ r = reply'[c] /\ t = asked'[c].at
    BY <1>1
  <2>2. Accounted(r, t)
    BY <1>1, <2>1 DEF ReplyInv
  <2>3. Accounted(r, t)'
    BY <2>2, StillAccounted
  <2> QED BY <1>1, <2>1, <2>3 DEF ReplyInv
<1>2. ASSUME NEW c \in Callers, GetFresh(c), Answered(c)'
      PROVE  Accounted(reply[c], asked[c].at)' /\ reply'[c].result >= asked'[c].good
  <2>1. /\ asked'[c] = [at |-> now, good |-> good] /\ Fresh
        /\ reply'[c] = IF good = 0 THEN Failed(lastErr) ELSE SnapshotLocked
        /\ reply'[c].err = NoErr
    BY <1>2 DEF GetFresh, Call, TypeOK, Answered
  <2>2. good # 0
    <3>1. CASE good = 0
      <4>1. lastErr # NoErr
        BY <2>1, <3>1, CallFields DEF Fresh, Later, TimeInv
      <4> QED BY <2>1, <3>1, <4>1 DEF Failed
    <3> QED BY <3>1
  <2>3. PICK r, t : r = SnapshotLocked /\ t = now
    OBVIOUS
  <2>4. Accounted(r, t)
    BY <2>1, <2>2, <2>3, GoodAnswer, CallFields
  <2>5. Accounted(r, t)'
    BY <2>4, StillAccounted
  <2>6. r = reply'[c] /\ t = asked'[c].at
    BY <2>1, <2>2, <2>3
  <2>7. reply'[c].result = good /\ asked'[c].good = good
    BY <2>1, <2>2 DEF SnapshotLocked
  <2> QED BY <2>5, <2>6, <2>7, CallFields
<1>3. ASSUME NEW c \in Callers, Receive(c), Answered(c)'
      PROVE  Accounted(reply[c], asked[c].at)' /\ reply'[c].result >= asked'[c].good
  <2>1. /\ asked' = asked /\ on[c] \in CallIds /\ Ended(on[c])
        /\ reply'[c] = IF good = 0 THEN Failed(calls[on[c]].err) ELSE SnapshotLocked
        /\ reply'[c].err = NoErr
        /\ pc[c] = "waiting"
    BY <1>3 DEF Receive, Ready, Ended, FlightInv, TypeOK, Answered
  <2>2. good # 0
    <3>1. CASE good = 0
      <4>1. ~Succeeded(on[c])
        BY <2>1, <3>1, CallFields DEF CacheInv, CacheIsLastAttempt
      <4> QED BY <2>1, <3>1, <4>1 DEF Failed, Succeeded
    <3> QED BY <3>1
  <2>3. lastErr = NoErr => asked[c].at <= calls[good].endedAt
    <3> SUFFICES ASSUME lastErr = NoErr PROVE asked[c].at <= calls[good].endedAt
      OBVIOUS
    <3>1. on[c] <= good /\ good \in CallIds /\ Ended(good)
      BY <2>1, <2>2 DEF CacheInv, CacheIsLastAttempt, Succeeded
    <3>2. asked[c].at <= calls[on[c]].endedAt /\ asked[c].at \in Nat
      BY <2>1 DEF CallerInv, TypeOK
    <3>3. CASE on[c] < good
      <4>1. calls[on[c]].endedAt <= calls[good].startedAt
        BY <2>1, <3>1, <3>3 DEF TimeInv
      <4>2. calls[good].startedAt <= calls[good].endedAt
        BY <3>1, CallFields DEF TimeInv
      <4>3. calls[on[c]].endedAt \in Nat /\ calls[good].startedAt \in Nat
            /\ calls[good].endedAt \in Nat /\ asked[c].at \in Nat
        BY <2>1, <3>1, <3>2, CallFields
      <4> QED BY <3>2, <4>1, <4>2, <4>3
    <3>4. CASE on[c] = good
      BY <3>2, <3>4
    <3> QED BY <2>1, <3>1, <3>3, <3>4, CallFields
  <2>4. PICK r, t : r = SnapshotLocked /\ t = asked[c].at
    OBVIOUS
  <2>5. t \in Nat /\ asked[c].good <= good
    BY <2>4 DEF TypeOK, CallerInv
  <2>6. Accounted(r, t)
    <3>1. lastErr = NoErr /\ ~Fresh => t <= calls[good].endedAt
      BY <2>3, <2>4
    <3>2. t <= now
      BY <2>4 DEF CallerInv
    <3>3. t \in Nat
      BY <2>5
    <3>4. Accounted(SnapshotLocked, t)
      BY <2>2, <3>1, <3>2, <3>3, GoodAnswer
    <3> QED BY <2>4, <3>4
  <2>7. Accounted(r, t)'
    BY <2>6, StillAccounted
  <2>8. r = reply'[c] /\ t = asked'[c].at
    BY <2>1, <2>2, <2>4
  <2>9. reply'[c].result = good
    BY <2>1, <2>2 DEF SnapshotLocked
  <2>10. asked[c].good \in Nat
    BY DEF TypeOK
  <2> QED BY <2>1, <2>5, <2>7, <2>8, <2>9, <2>10, CallFields
<1>4. ASSUME NEW c \in Callers,
             ~GetFresh(c), ~Receive(c)
      PROVE  Answered(c)' => Answered(c) /\ reply'[c] = reply[c] /\ asked'[c] = asked[c]
  <2> SUFFICES ASSUME Answered(c)'
               PROVE  Answered(c) /\ reply'[c] = reply[c] /\ asked'[c] = asked[c]
    OBVIOUS
  <2> DEFINE Same == pc'[c] = pc[c] /\ asked'[c] = asked[c] /\ reply'[c] = reply[c]
  <2>1. ASSUME NEW d \in Callers, GetFresh(d) \/ Receive(d) PROVE Same
    BY <1>4, <2>1 DEF GetFresh, Receive, Call, TypeOK
  <2>2. ASSUME NEW d \in Callers, GetStale(d) PROVE Same
    BY <2>2 DEF GetStale, Call, TypeOK, Answered
  <2>3. ASSUME NEW d \in Callers, DoChan(d) PROVE Same
    BY <2>3 DEF DoChan, TypeOK, Answered
  <2>4. ASSUME NEW d \in Callers, GiveUp(d) PROVE Same
    BY <2>4, CacheAssumption DEF GiveUp, TypeOK, Answered, Failed
  <2>5. ASSUME UNCHANGED callerVars PROVE Same
    BY <2>5 DEF callerVars
  <2>6. Same
    BY <2>1, <2>2, <2>3, <2>4, <2>5
       DEF Next, Drained, vars, BuildReturns, Deliver, Tick
  <2> QED BY <2>6 DEF Answered
<1> QED
  BY <1>1, <1>2, <1>3, <1>4 DEF ReplyInv

-----------------------------------------------------------------------------
(* The results. *)

LEMMA Invariance == Spec => []Inv
<1>1. Inv /\ [Next]_vars => Inv'
  BY TypeStep, FlightStep, TimeStep, CacheStep, CallerStep, ReplyStep, OnceStep DEF Inv
<1> QED BY InitInv, <1>1, PTL DEF Spec

\* Every field of the cache, of a call and of an answer keeps its type,
\* whatever the interleaving (cache.go:44-57).
THEOREM TypeCorrect == Spec => []TypeOK
  BY Invariance, PTL DEF Inv

\* singleflight lets at most one rebuild run (cache.go:41, 81).
THEOREM OneBuild == Spec => []SingleBuild
<1>1. Inv => SingleBuild
  BY DEF Inv, FlightInv, SingleBuild
<1> QED BY Invariance, <1>1, PTL

\* The cache's fields are those of the rebuilds that happened (cache.go:89-97).
THEOREM CacheAgrees == Spec => []CacheIsLastAttempt
  BY Invariance, PTL DEF Inv, CacheInv

\* After an attempt, a caller starts at most one rebuild before the TTL passes,
\* for every number of callers and every TTL (cache.go:39-43, 68-77).
THEOREM OncePerCaller == Spec => []OneRebuildPerCaller
  BY Invariance, PTL DEF Inv

\* The parts of the invariant about answers are the properties of answers.
LEMMA AnswersCorrect ==
    ASSUME Inv
    PROVE  AnswersAreUsable /\ MonotonicReads /\ AnswerAge
<1>1. AnswersAreUsable
  BY CallFields DEF Inv, ReplyInv, Accounted, AnswersAreUsable
<1>2. MonotonicReads
  BY DEF Inv, ReplyInv, MonotonicReads
<1>3. AnswerAge
  BY DEF Inv, ReplyInv, Accounted, AnswerAge
<1> QED BY <1>1, <1>2, <1>3

\* What Get returns without an error always has a result (cache.go:16, 85-87).
THEOREM UsableAnswers == Spec => []AnswersAreUsable
<1>1. Inv => AnswersAreUsable
  BY AnswersCorrect
<1> QED BY Invariance, <1>1, PTL

\* No answer is older than what the cache held when Get was called, however long
\* the caller waited and whoever started the rebuild (cache.go:103-110).
THEOREM NoOlderAnswers == Spec => []MonotonicReads
<1>1. Inv => MonotonicReads
  BY AnswersCorrect
<1> QED BY Invariance, <1>1, PTL

\* What the four fields of the cache say, once there is a good result.
LEMMA CacheTellsLatest ==
    ASSUME Inv, good # 0
    PROVE  \E g, b \in CallIds :
             /\ Latest(b)
             /\ Succeeded(g) /\ \A a \in CallIds : Succeeded(a) => a <= g
             /\ good = g /\ goodAt = calls[g].endedAt
             /\ lastErr = calls[b].err
             /\ lastErrAt = IF b = g THEN 0 ELSE calls[b].endedAt
<1> USE DEF Inv
<1>1. /\ good \in CallIds /\ Succeeded(good) /\ goodAt = calls[good].endedAt
      /\ \A a \in CallIds : Succeeded(a) => a <= good
  BY DEF CacheInv, CacheIsLastAttempt
<1>2. ASSUME NEW b \in CallIds, Latest(b)
      PROVE  lastErr = calls[b].err /\ lastErrAt = IF b = good THEN 0 ELSE calls[b].endedAt
  <2>1. lastErr = calls[b].err
        /\ lastErrAt = IF lastErr = NoErr THEN 0 ELSE calls[b].endedAt
    BY <1>2 DEF Latest, CacheInv, CacheIsLastAttempt
  <2>2. lastErr = NoErr <=> b = good
    <3>1. b >= good
      BY <1>1, <1>2 DEF Latest, Succeeded
    <3>2. lastErr = NoErr => b <= good
      BY <1>1, <1>2, <2>1 DEF Latest, Succeeded
    <3>3. b = good => lastErr = NoErr
      BY <1>1, <2>1 DEF Succeeded
    <3> QED BY <1>1, <3>1, <3>2, <3>3, CallFields
  <2> QED BY <2>1, <2>2
<1>3. \E b \in CallIds : Latest(b)
  <2>1. \A b \in CallIds : ~Ended(b) => b = Len(calls)
    BY CallFields DEF FlightInv, Ended
  <2>2. CASE Ended(Len(calls))
    <3>1. Len(calls) \in CallIds
      BY <1>1, CallFields DEF CallIds
    <3> QED BY <2>2, <3>1, CallFields DEF Latest
  <2>3. CASE ~Ended(Len(calls))
    <3>1. good # Len(calls)
      BY <1>1, <2>3 DEF Succeeded
    <3>2. Len(calls) - 1 \in CallIds
      BY <1>1, <3>1, CallFields DEF CallIds
    <3>3. Ended(Len(calls) - 1)
      BY <2>1, <3>2, CallFields
    <3>4. \A a \in CallIds : Ended(a) => a <= Len(calls) - 1
      BY <2>3, CallFields
    <3> QED BY <3>2, <3>3, <3>4 DEF Latest
  <2> QED BY <2>2, <2>3
<1> QED BY <1>1, <1>2, <1>3

\* A Get that answers, and not with an error, does so from a good result.
LEMMA AnswersFromGood ==
    ASSUME Inv, NEW c \in Callers, GetFresh(c) \/ Receive(c), reply'[c].err = NoErr
    PROVE  good # 0 /\ reply'[c] = SnapshotLocked
<1> USE DEF Inv
<1>1. CASE GetFresh(c)
  <2>1. Fresh /\ reply'[c] = IF good = 0 THEN Failed(lastErr) ELSE SnapshotLocked
    BY <1>1 DEF GetFresh, TypeOK
  <2>2. good = 0 => lastErr # NoErr
    BY <2>1, CallFields DEF Fresh, Later, TimeInv
  <2> QED BY <2>1, <2>2 DEF Failed
<1>2. CASE Receive(c)
  <2>1. /\ on[c] \in CallIds /\ Ended(on[c])
        /\ reply'[c] = IF good = 0 THEN Failed(calls[on[c]].err) ELSE SnapshotLocked
    BY <1>2 DEF Receive, Ready, Ended, FlightInv, TypeOK
  <2>2. good = 0 => ~Succeeded(on[c])
    BY <2>1, CallFields DEF CacheInv, CacheIsLastAttempt
  <2> QED BY <2>1, <2>2 DEF Failed, Succeeded
<1> QED BY <1>1, <1>2

\* Every answer is the latest result, and has the error and the time of the latest
\* rebuild exactly when that failed (cache.go:91-97, 126-133).
THEOREM StaleExplained == Spec => StaleAnswersExplained
<1> DEFINE Explained == \A c \in Callers : (GetFresh(c) \/ Receive(c)) /\ reply'[c].err = NoErr =>
               \E g, b \in CallIds :
                 /\ Latest(b)
                 /\ Succeeded(g) /\ \A a \in CallIds : Succeeded(a) => a <= g
                 /\ reply'[c].result = g /\ reply'[c].takenAt = calls[g].endedAt
                 /\ reply'[c].refresh = calls[b].err
                 /\ reply'[c].refreshAt = IF b = g THEN 0 ELSE calls[b].endedAt
<1>1. Inv => Explained
  <2> SUFFICES ASSUME Inv, NEW c \in Callers, GetFresh(c) \/ Receive(c), reply'[c].err = NoErr
               PROVE  \E g, b \in CallIds :
                        /\ Latest(b)
                        /\ Succeeded(g) /\ \A a \in CallIds : Succeeded(a) => a <= g
                        /\ reply'[c].result = g /\ reply'[c].takenAt = calls[g].endedAt
                        /\ reply'[c].refresh = calls[b].err
                        /\ reply'[c].refreshAt = IF b = g THEN 0 ELSE calls[b].endedAt
    OBVIOUS
  <2>1. good # 0 /\ reply'[c] = SnapshotLocked
    BY AnswersFromGood
  <2>2. /\ reply'[c].result = good /\ reply'[c].takenAt = goodAt
        /\ reply'[c].refresh = lastErr /\ reply'[c].refreshAt = lastErrAt
    BY <2>1 DEF SnapshotLocked
  <2> QED BY <2>1, <2>2, CacheTellsLatest, Zenon
<1>2. Inv /\ [Next]_vars => [Explained]_vars
  BY <1>1
<1>3. Spec => [][Explained]_vars
  BY Invariance, <1>2, PTL DEF Spec
<1> QED BY <1>3 DEF StaleAnswersExplained

\* Without a RefreshError, an answer was read less than a TTL and a build timeout
\* before the question, for every TTL and timeout (cache.go:82, 115-124).
THEOREM RecentAnswers == Spec => []AnswerAge
<1>1. Inv => AnswerAge
  BY AnswersCorrect
<1> QED BY Invariance, <1>1, PTL

\* Get fails only before the first success or for a request that ended
\* (cache.go:66-67), at every step of every behaviour.
THEOREM ErrorsOnlyEarly == Spec => ErrorOnlyBeforeFirstSuccess
<1> DEFINE Early == \A c \in Callers :
                      reply'[c] # reply[c] /\ reply'[c].err \notin {NoErr, Canceled}
                        => \A b \in CallIds : ~Succeeded(b)
<1>1. Inv /\ [Next]_vars => [Early]_vars
  <2> SUFFICES ASSUME Inv, [Next]_vars, NEW c \in Callers, reply'[c] # reply[c],
                      reply'[c].err \notin {NoErr, Canceled}
               PROVE  \A b \in CallIds : ~Succeeded(b)
    OBVIOUS
  <2> USE DEF Inv
  <2>1. ASSUME good = 0 PROVE \A b \in CallIds : ~Succeeded(b)
    BY <2>1, CallFields DEF CacheInv, CacheIsLastAttempt
  <2>2. ASSUME good # 0 PROVE FALSE
    <3>1. SnapshotLocked.err = NoErr /\ Failed(NoErr).err = NoErr
          /\ Failed(Canceled).err = Canceled
      BY DEF SnapshotLocked, Failed
    <3>2. ASSUME NEW d \in Callers, GetFresh(d) \/ Receive(d) PROVE FALSE
      BY <2>2, <3>1, <3>2 DEF GetFresh, Receive, TypeOK
    <3>3. ASSUME NEW d \in Callers, GetStale(d) \/ GiveUp(d) PROVE FALSE
      BY <3>1, <3>3 DEF GetStale, GiveUp, TypeOK
    <3>4. ASSUME UNCHANGED reply PROVE FALSE
      BY <3>4
    <3> QED
      BY <3>2, <3>3, <3>4
         DEF Next, Drained, vars, callerVars, DoChan, BuildReturns, Deliver, Tick
  <2> QED BY <2>1, <2>2
<1>2. Spec => [][Early]_vars
  BY Invariance, <1>1, PTL DEF Spec
<1> QED BY <1>2 DEF ErrorOnlyBeforeFirstSuccess

-----------------------------------------------------------------------------
(* The cache implements SnapshotPromise. *)

Failures == {calls[b].err : b \in CallIds} \ {NoErr}
Asking == {c \in Callers : pc[c] # "idle"}
Told(r) == [result |-> r.result, refresh |-> r.refresh, err |-> r.err]
Answer == [c \in Callers |-> Told(reply[c])]

LEMMA PromiseInit == Init => Promise!Init
<1> SUFFICES ASSUME Init PROVE Promise!Init
  OBVIOUS
<1>1. CallIds = {} /\ Asking = {}
  BY DEF Init, CallIds, Asking
<1>2. \A c \in Callers : Told(reply[c]) = [result |-> 0, refresh |-> NoErr, err |-> NoErr]
  BY DEF Init, Told, Failed
<1> QED
  BY <1>1, <1>2 DEF Init, Promise!Init, Promise!NoAnswer, Asking, Told

\* One caller is told r: the abstract answers change in the same place.
LEMMA AnswerChanges ==
    ASSUME TypeOK, NEW c \in Callers, NEW r, reply' = [reply EXCEPT ![c] = r]
    PROVE  Answer' = [Answer EXCEPT ![c] = Told(r)]
  BY DEF Answer, TypeOK

\* The errors seen so far grow with a failed build and with nothing else.
LEMMA FailuresGrow ==
    ASSUME Inv, [Next]_vars
    PROVE  \/ UNCHANGED <<good, lastErr, Failures>>
           \/ good' > good /\ lastErr' = NoErr /\ UNCHANGED Failures
           \/ /\ lastErr' \in BuildErrs /\ Failures' = Failures \cup {lastErr'}
              /\ UNCHANGED good
<1> USE DEF Inv
<1> DEFINE Goal == \/ UNCHANGED <<good, lastErr, Failures>>
                   \/ good' > good /\ lastErr' = NoErr /\ UNCHANGED Failures
                   \/ /\ lastErr' \in BuildErrs /\ Failures' = Failures \cup {lastErr'}
                      /\ UNCHANGED good
<1>1. ASSUME UNCHANGED <<cacheVars, flightVars>> PROVE Goal
  BY <1>1 DEF Failures, CallIds, cacheVars, flightVars
<1>2. ASSUME NEW c \in Callers, DoChan(c), StartCall(c) PROVE Goal
  <2>0. PICK n \in Nat : n = Len(calls) + 1
    BY CallFields
  <2>1. /\ CallIds' = CallIds \cup {n} /\ calls'[n].err = NoErr
        /\ \A b \in CallIds : calls'[b] = calls[b]
    BY <1>2, <2>0, Started, StartedIds, StartedCall
  <2>2. Failures' = Failures
    BY <2>1 DEF Failures
  <2> QED BY <1>2, <2>2 DEF DoChan, cacheVars
<1>3. ASSUME NEW b \in CallIds, BuildReturns(b) PROVE Goal
  <2>1. PICK e \in BuildErrs \cup {NoErr}, read \in Nat :
          /\ IF e = NoErr THEN StoreResult(b) ELSE StoreFailure(e)
          /\ calls[b].phase = "building"
          /\ CallIds' = CallIds /\ calls'[b].err = e
          /\ \A a \in CallIds : a <= b /\ (a # b => Ended(a) /\ calls'[a] = calls[a])
    BY <1>3, ReturnedCalls
  <2>2. calls[b].err = NoErr
    BY <2>1 DEF TimeInv
  <2>3. CASE e = NoErr
    <3>1. good < b
      BY <2>1, CallFields DEF CacheInv, CacheIsLastAttempt, Succeeded, Ended
    <3>2. Failures' = Failures
      BY <2>1, <2>2, <2>3 DEF Failures
    <3>3. good' = b /\ lastErr' = NoErr
      BY <2>1, <2>3 DEF StoreResult
    <3> QED BY <3>1, <3>2, <3>3
  <2>4. CASE e # NoErr
    <3>1. Failures' = Failures \cup {e}
      <4>1. Failures' \subseteq Failures \cup {e}
        BY <2>1 DEF Failures
      <4>2. e \in Failures'
        BY <2>1, <2>4 DEF Failures
      <4>3. Failures \subseteq Failures'
        BY <2>1, <2>2 DEF Failures
      <4> QED BY <4>1, <4>2, <4>3
    <3>2. lastErr' = e /\ good' = good
      BY <2>1, <2>4 DEF StoreFailure
    <3> QED BY <2>4, <3>1, <3>2
  <2> QED BY <2>3, <2>4
<1>4. ASSUME NEW b \in CallIds, Deliver(b) PROVE Goal
  <2>1. UNCHANGED Failures
    BY <1>4, DeliveredCalls DEF Failures
  <2> QED BY <1>4, <2>1 DEF Deliver, cacheVars
<1> QED
  BY <1>1, <1>2, <1>3, <1>4, QuietSteps
     DEF Next, Drained, DoChan, QuietStep, Tick, vars

\* Every step of the cache is a step of the promise, or changes nothing in it.
LEMMA PromiseStep == Inv /\ [Next]_vars => [Promise!Next]_(Promise!pvars)
<1> SUFFICES ASSUME Inv, [Next]_vars PROVE [Promise!Next]_(Promise!pvars)
  OBVIOUS
<1> USE DEF Inv
<1>a. Promise!pvars = <<good, lastErr, Failures, Asking, Answer>>
  BY DEF Promise!pvars, Failures, Asking, Answer, Told
<1>b. Promise!pvars' = <<good', lastErr', Failures', Asking', Answer'>>
  BY DEF Promise!pvars, Failures, Asking, Answer, Told
<1>c. UNCHANGED <<cacheVars, flightVars>> => UNCHANGED <<good, lastErr, Failures>>
  BY DEF cacheVars, flightVars, Failures, CallIds
<1>d. Told(SnapshotLocked) = [result |-> good, refresh |-> lastErr, err |-> NoErr]
      /\ \A e : Told(Failed(e)) = [result |-> 0, refresh |-> NoErr, err |-> e]
  BY DEF Told, SnapshotLocked, Failed
<1>1. ASSUME NEW c \in Callers, GetFresh(c) PROVE Promise!ReplyAtOnce(c)
  <2>1. c \notin Asking /\ Asking' = Asking
    BY <1>1 DEF GetFresh, Call, Asking
  <2>2. UNCHANGED <<good, lastErr, Failures>>
    BY <1>1, <1>c DEF GetFresh
  <2>3. PICK r : /\ reply' = [reply EXCEPT ![c] = r]
                 /\ r = IF good = 0 THEN Failed(lastErr) ELSE SnapshotLocked
    BY <1>1 DEF GetFresh
  <2>4. Answer' = [Answer EXCEPT ![c] = Told(r)]
    BY <2>3, AnswerChanges
  <2>5. Told(r) \in Promise!Answers
    <3>1. CASE good = 0
      <4>1. lastErr # NoErr
        BY <1>1, <3>1, CallFields DEF GetFresh, Fresh, Later, TimeInv
      <4>2. lastErr \in Failures
        BY <4>1 DEF CacheInv, Failures
      <4> QED BY <1>d, <2>3, <3>1, <4>2 DEF Promise!Answers, Failures
    <3>2. CASE good # 0
      BY <1>d, <2>3, <3>2 DEF Promise!Answers
    <3> QED BY <3>1, <3>2
  <2> QED
    BY <2>1, <2>2, <2>4, <2>5 DEF Promise!ReplyAtOnce, Asking, Answer, Told, Failures
<1>2. ASSUME NEW c \in Callers, GetStale(c) PROVE Promise!Ask(c)
  <2>1. c \notin Asking /\ Asking' = Asking \cup {c}
    BY <1>2 DEF GetStale, Call, Asking, TypeOK
  <2>2. UNCHANGED <<good, lastErr, Failures>>
    BY <1>2, <1>c DEF GetStale
  <2>3. Answer' = [Answer EXCEPT ![c] = Told(Failed(NoErr))]
    BY <1>2, AnswerChanges DEF GetStale
  <2> QED
    BY <1>d, <2>1, <2>2, <2>3
       DEF Promise!Ask, Promise!NoAnswer, Asking, Answer, Told, Failures
<1>3. ASSUME NEW c \in Callers, DoChan(c) PROVE UNCHANGED Promise!pvars
  <2>1. Asking' = Asking /\ Answer' = Answer
    BY <1>3 DEF DoChan, Asking, Answer, TypeOK
  <2>2. UNCHANGED <<good, lastErr>>
    BY <1>3 DEF DoChan, cacheVars
  <2>3. UNCHANGED Failures
    <3>1. CASE JoinCall(c)
      BY <3>1 DEF JoinCall, Failures, CallIds, flightVars
    <3>2. CASE StartCall(c)
      <4>0. PICK n \in Nat : n = Len(calls) + 1
        BY CallFields
      <4>1. /\ CallIds' = CallIds \cup {n} /\ calls'[n].err = NoErr
            /\ \A b \in CallIds : calls'[b] = calls[b]
        BY <3>2, <4>0, Started, StartedIds, StartedCall
      <4> QED BY <4>1 DEF Failures
    <3> QED BY <1>3, <3>1, <3>2 DEF DoChan
  <2> QED BY <1>a, <1>b, <2>1, <2>2, <2>3
<1>4. ASSUME NEW c \in Callers, GiveUp(c) PROVE Promise!Cancel(c)
  <2>1. c \in Asking /\ Asking' = Asking \ {c}
    BY <1>4 DEF GiveUp, Asking, TypeOK
  <2>2. UNCHANGED <<good, lastErr, Failures>>
    BY <1>4, <1>c DEF GiveUp
  <2>3. Answer' = [Answer EXCEPT ![c] = Told(Failed(Canceled))]
    BY <1>4, AnswerChanges DEF GiveUp
  <2>4. [Promise!NoAnswer EXCEPT !.err = Canceled] = Told(Failed(Canceled))
    BY <1>d DEF Promise!NoAnswer
  <2> QED
    BY <2>1, <2>2, <2>3, <2>4 DEF Promise!Cancel, Asking, Answer, Told, Failures
<1>5. ASSUME NEW c \in Callers, Receive(c) PROVE Promise!Reply(c)
  <2>1. c \in Asking /\ Asking' = Asking \ {c}
    BY <1>5 DEF Receive, Asking, TypeOK
  <2>2. UNCHANGED <<good, lastErr, Failures>>
    BY <1>5, <1>c DEF Receive
  <2>3. PICK r : /\ reply' = [reply EXCEPT ![c] = r]
                 /\ r = IF good = 0 THEN Failed(calls[on[c]].err) ELSE SnapshotLocked
    BY <1>5 DEF Receive
  <2>4. Answer' = [Answer EXCEPT ![c] = Told(r)]
    BY <2>3, AnswerChanges
  <2>5. Told(r) \in Promise!Answers
    <3>1. CASE good = 0
      <4>1. on[c] \in CallIds /\ Ended(on[c])
        BY <1>5 DEF Receive, Ready, FlightInv, Ended
      <4>2. ~Succeeded(on[c])
        BY <3>1, <4>1, CallFields DEF CacheInv, CacheIsLastAttempt
      <4>3. calls[on[c]].err \in Failures
        BY <4>1, <4>2 DEF Failures, Succeeded
      <4> QED BY <1>d, <2>3, <3>1, <4>3 DEF Promise!Answers, Failures
    <3>2. CASE good # 0
      BY <1>d, <2>3, <3>2 DEF Promise!Answers
    <3> QED BY <3>1, <3>2
  <2> QED
    BY <2>1, <2>2, <2>4, <2>5 DEF Promise!Reply, Asking, Answer, Told, Failures
<1>6. ASSUME UNCHANGED callerVars PROVE [Promise!Next]_(Promise!pvars)
  <2>1. Asking' = Asking /\ Answer' = Answer
    BY <1>6 DEF callerVars, Asking, Answer
  <2>2. CASE UNCHANGED <<good, lastErr, Failures>>
    BY <1>a, <1>b, <2>1, <2>2
  <2>3. CASE good' > good /\ lastErr' = NoErr /\ UNCHANGED Failures
    <3>1. good' \in Nat
      BY TypeStep DEF TypeOK
    <3>2. Promise!Succeed
      BY <2>1, <2>3, <3>1 DEF Promise!Succeed, Asking, Answer, Told, Failures
    <3> QED BY <3>2 DEF Promise!Next
  <2>4. CASE /\ lastErr' \in BuildErrs /\ Failures' = Failures \cup {lastErr'}
             /\ UNCHANGED good
    <3>1. Promise!Fail
      BY <2>1, <2>4 DEF Promise!Fail, Asking, Answer, Told, Failures
    <3> QED BY <3>1 DEF Promise!Next
  <2> QED BY <2>2, <2>3, <2>4, FailuresGrow
<1> QED
  BY <1>1, <1>2, <1>3, <1>4, <1>5, <1>6
     DEF Next, Drained, vars, BuildReturns, Deliver, Tick, Promise!Next

\* The detailed cache implements the abstract store (cache.go:39-133): a
\* request is answered from one store, at one moment of its own, and only its
\* own end can cancel it.
THEOREM Implements == Spec => KeepsPromise
<1>1. Spec => Promise!Init /\ [][Promise!Next]_(Promise!pvars)
  BY PromiseInit, PromiseStep, Invariance, PTL DEF Spec
<1> QED BY <1>1 DEF KeepsPromise, Promise!Spec
=============================================================================
