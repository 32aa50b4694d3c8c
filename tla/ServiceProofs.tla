---------------------------- MODULE ServiceProofs ----------------------------
(***************************************************************************)
(* Theorems about Service, for any environments, requests and connections: *)
(* it runs HttpServer and uses the cache as SnapshotPromise lets it, so    *)
(* what is proved of these two holds of the service; what its clients read *)
(* is never taken back and never silently empty; LoadFrom names every      *)
(* variable that is wrong; and with whatever base path it accepts, every   *)
(* link of the pages leads to its handler.                                 *)
(***************************************************************************)
EXTENDS Service, HttpServerProofs, SequenceTheorems, WellFoundedInduction

\* What an operation of a connection does to the server is the server's own step.
LEMMA ServerStep == [ServiceNext]_serviceVars => [Next]_vars
  <1> SUFFICES ASSUME [ServiceNext]_serviceVars PROVE [Next]_vars
    OBVIOUS
  <1>1. CASE ComesUp
    BY <1>1 DEF ComesUp, Next
  <1>2. CASE DoesNotComeUp
    BY <1>2 DEF DoesNotComeUp, Next
  <1>3. ASSUME NEW c \in Conns,
               RequestComes(c) \/ CallGet(c) \/ GetReturns(c) \/ Leave(c) \/ Handled(c)
        PROVE  [Next]_vars
    BY <1>3 DEF RequestComes, CallGet, GetReturns, Leave, Handled, Next
  <1>4. CASE RebuildEnds
    BY <1>4 DEF RebuildEnds
  <1>5. CASE Beside
    BY <1>5 DEF Beside, Next
  <1>6. CASE UNCHANGED serviceVars
    BY <1>6 DEF serviceVars
  <1> QED BY <1>1, <1>2, <1>3, <1>4, <1>5, <1>6 DEF ServiceNext

\* The service starts and stops as HttpServer says: so a clean exit and the time that
\* requests get (CleanExits, RequestsGetTime) are the service's.
THEOREM ServiceServes == ServiceSpec => Spec
  <1>1. ServiceInit => Init
    BY DEF ServiceInit
  <1> QED BY <1>1, ServerStep, PTL DEF ServiceSpec, Spec

\* The handlers call Get as SnapshotPromise lets its callers do.
LEMMA CacheStep == [ServiceNext]_serviceVars => [Cache!Next]_(Cache!pvars)
  <1> SUFFICES ASSUME [ServiceNext]_serviceVars PROVE [Cache!Next]_(Cache!pvars)
    OBVIOUS
  <1>1. ASSUME UNCHANGED cacheVars PROVE UNCHANGED Cache!pvars
    BY <1>1 DEF cacheVars, Cache!pvars
  <1>2. CASE ComesUp \/ DoesNotComeUp \/ Beside \/ UNCHANGED serviceVars
    BY <1>1, <1>2 DEF ComesUp, DoesNotComeUp, Beside, serviceVars
  <1>3. ASSUME NEW c \in Conns,
               RequestComes(c) \/ CallGet(c) \/ GetReturns(c) \/ Leave(c) \/ Handled(c)
        PROVE  [Cache!Next]_(Cache!pvars)
    BY <1>1, <1>3 DEF RequestComes, CallGet, GetReturns, Leave, Handled, Cache!Next
  <1>4. CASE RebuildEnds
    BY <1>4 DEF RebuildEnds, Cache!Next
  <1> QED BY <1>2, <1>3, <1>4 DEF ServiceNext

\* The cache of the service behaves as SnapshotPromise says, and SnapshotCache
\* implements that.
THEOREM ServiceUsesCache == ServiceSpec => Cache!Spec
  <1>1. ServiceInit => Cache!Init
    BY DEF ServiceInit
  <1> QED BY <1>1, CacheStep, PTL DEF ServiceSpec, Cache!Spec

-----------------------------------------------------------------------------
\* The connections that still wait for their answer to Get, or have it.
Got(c) == pc # "exited" /\ conns[c] = "active" /\ c \in called

AnswerSet == [result : Nat, refresh : Errors \cup {NoErr},
              err : Errors \cup {NoErr, Canceled}]

Shape ==
    /\ snap \in Nat /\ failing \in Errors \cup {NoErr} /\ failures \subseteq Errors
    /\ answer \in [Conns -> AnswerSet]
    /\ seen \in [Conns -> Nat]
    /\ request = [c \in Conns |-> request[c]]
    /\ response = [c \in Conns |-> response[c]]
    /\ conns = [c \in Conns |-> conns[c]]

\* What was answered is at least as new as what the request could see, and an answer
\* has either a result or an error.
GoodAnswer(c) ==
    /\ c \in gone \/ answer[c].result >= seen[c]
    /\ answer[c].result = 0 <=> answer[c].err # NoErr

GoodResponse(c) ==
    NeedsSnapshot(request[c]) =>
        /\ request[c].fault = "none" /\ response[c].status # 500 =>
             c \in gone \/ response[c].result >= seen[c]
        /\ response[c].result = 0 => response[c].says # NoErr
        /\ SwappedIn(request[c]) => response[c].status \in {200, 500}

ConnInv(c) ==
    /\ seen[c] <= snap
    /\ pc # "exited" /\ conns[c] \in {"none", "new"} => c \notin called
    /\ pc # "exited" /\ conns[c] \in {"none", "new", "active"} => ~Answered(c)
    /\ pc # "exited" /\ c \in asking => Got(c) /\ NeedsSnapshot(request[c])
    /\ Got(c) /\ c \notin asking => GoodAnswer(c)
    /\ Answered(c) => GoodResponse(c)

ServiceInv == Shape /\ \A c \in Conns : ConnInv(c)

\* Nobody has asked for anything at first.
LEMMA ServiceInitInv == ServiceInit => ServiceInv
  <1> SUFFICES ASSUME ServiceInit PROVE ServiceInv
    OBVIOUS
  <1>1. Shape
    BY DEF ServiceInit, Init, Cache!Init, Cache!NoAnswer, Shape, AnswerSet
  <1>2. ASSUME NEW c \in Conns PROVE ConnInv(c)
    <2>1. seen[c] = 0 /\ snap = 0 /\ conns[c] = "none" /\ asking = {} /\ called = {}
      BY DEF ServiceInit, Init, Cache!Init
    <2>2. response[c].status = 0
      BY DEF ServiceInit, NoResponse
    <2> QED BY <2>1, <2>2 DEF ConnInv, Got, Answered
  <1> QED BY <1>1, <1>2 DEF ServiceInv

\* A connection keeps its invariant while others, the cache and the server move.
LEMMA ConnKeeps ==
    ASSUME ServiceInv, NEW c \in Conns,
           pc' # "exited" => pc # "exited",
           conns'[c] = conns[c] \/ (conns[c] = "none" /\ conns'[c] = "new") \/ pc' = "exited",
           request'[c] = request[c], response'[c] = response[c], seen'[c] = seen[c],
           answer'[c] = answer[c], c \in asking' <=> c \in asking,
           c \in called' <=> c \in called, c \in gone => c \in gone',
           snap' \in Nat, snap' >= snap
    PROVE  ConnInv(c)'
  <1>1. snap \in Nat /\ seen[c] \in Nat /\ ConnInv(c)
    BY DEF ServiceInv, Shape
  <1>2. seen'[c] <= snap'
    BY <1>1 DEF ConnInv
  <1>3. pc' # "exited" /\ conns'[c] \in {"none", "new"} => c \notin called'
    BY <1>1 DEF ConnInv
  <1>4. pc' # "exited" /\ conns'[c] \in {"none", "new", "active"} => ~Answered(c)'
    BY <1>1 DEF ConnInv, Answered
  <1>5. pc' # "exited" /\ c \in asking' => Got(c)' /\ NeedsSnapshot(request'[c])
    BY <1>1 DEF ConnInv, Got
  <1>6. Got(c)' /\ c \notin asking' => GoodAnswer(c)'
    <2> SUFFICES ASSUME Got(c)', c \notin asking' PROVE GoodAnswer(c)'
      OBVIOUS
    <2>1. Got(c) /\ c \notin asking
      BY DEF Got
    <2> QED BY <1>1, <2>1 DEF ConnInv, GoodAnswer
  <1>7. Answered(c)' => GoodResponse(c)'
    BY <1>1 DEF ConnInv, Answered, GoodResponse
  <1> QED BY <1>2, <1>3, <1>4, <1>5, <1>6, <1>7 DEF ConnInv

\* What Get returns is as new as what was there when the request came.
LEMMA AnswersGood ==
    ASSUME ServiceInv, NEW c \in Conns, NEW a \in Cache!Answers
    PROVE  /\ a \in AnswerSet
           /\ a.result >= seen[c]
           /\ a.result = 0 <=> a.err # NoErr
  <1>1. snap \in Nat /\ seen[c] \in Nat /\ seen[c] <= snap
        /\ failing \in Errors \cup {NoErr} /\ failures \subseteq Errors
    BY DEF ServiceInv, Shape, ConnInv
  <1>2. CASE snap # 0
    BY <1>1, <1>2 DEF Cache!Answers, AnswerSet
  <1>3. CASE snap = 0
    <2>1. NoErr \notin Errors
      BY ErrorAssumption
    <2> QED BY <1>1, <1>3, <2>1 DEF Cache!Answers, AnswerSet
  <1> QED BY <1>2, <1>3

\* The steps that touch no connection's request keep the invariant.
LEMMA QuietStep ==
    ASSUME ServiceInv,
           pc' # "exited" => pc # "exited",
           conns' = [c \in Conns |-> conns'[c]],
           \A c \in Conns :
               conns'[c] = conns[c] \/ (conns[c] = "none" /\ conns'[c] = "new") \/ pc' = "exited",
           snap' \in Nat, snap' >= snap,
           failing' \in Errors \cup {NoErr}, failures' \subseteq Errors,
           UNCHANGED <<talkVars, asking, answer>>
    PROVE  ServiceInv'
  <1>1. Shape'
    BY DEF ServiceInv, Shape, talkVars
  <1>2. ASSUME NEW c \in Conns PROVE ConnInv(c)'
    BY ConnKeeps DEF talkVars
  <1> QED BY <1>1, <1>2 DEF ServiceInv

LEMMA RequestComesStep ==
    ASSUME ServiceInv, NEW c \in Conns, RequestComes(c)
    PROVE  ServiceInv'
  <1>1. Shape /\ \A x \in Conns : ConnInv(x)
    BY DEF ServiceInv
  <1>2. PICK to \in {"active", "closed"} : Moves(c, "new", to)
    BY DEF RequestComes, Request
  <1>3. /\ pc # "exited" /\ pc' = pc /\ conns[c] = "new" /\ conns' = [conns EXCEPT ![c] = to]
        /\ seen' = [seen EXCEPT ![c] = snap]
        /\ UNCHANGED <<called, response, gone, cacheVars>>
    BY <1>2 DEF RequestComes, Moves
  <1>5. \E r : request' = [request EXCEPT ![c] = r]
    <2>1. CASE conns'[c] = "active"
      BY <2>1 DEF RequestComes
    <2>2. CASE conns'[c] # "active"
      <3>1. request' = request
        BY <2>2 DEF RequestComes
      <3>2. request = [request EXCEPT ![c] = request[c]]
        BY <1>1 DEF Shape
      <3> QED BY <3>1, <3>2
    <2> QED BY <2>1, <2>2
  <1>6. Shape'
    BY <1>1, <1>3, <1>5 DEF Shape, cacheVars
  <1>7. \A x \in Conns \ {c} : ConnInv(x)'
    <2> SUFFICES ASSUME NEW x \in Conns \ {c} PROVE ConnInv(x)'
      OBVIOUS
    <2>1. /\ conns'[x] = conns[x] /\ request'[x] = request[x] /\ response'[x] = response[x]
          /\ seen'[x] = seen[x]
      BY <1>1, <1>3, <1>5 DEF Shape
    <2>2. answer' = answer /\ asking' = asking /\ gone' = gone /\ called' = called
          /\ snap' = snap /\ snap \in Nat
      BY <1>1, <1>3 DEF Shape, cacheVars
    <2> QED BY <1>3, <2>1, <2>2, ConnKeeps
  <1>8. ConnInv(c)'
    <2>1. /\ seen'[c] = snap /\ snap' = snap /\ snap \in Nat
          /\ called' = called /\ response' = response /\ asking' = asking
      BY <1>1, <1>3 DEF Shape, cacheVars
    <2>2. ~Answered(c) /\ c \notin asking /\ c \notin called
      BY <1>1, <1>3 DEF ConnInv, Got
    <2>3. ~Answered(c)' /\ ~Got(c)' /\ c \notin asking' /\ c \notin called'
      BY <2>1, <2>2 DEF Answered, Got
    <2>4. seen'[c] <= snap'
      BY <2>1
    <2> QED BY <2>3, <2>4 DEF ConnInv
  <1> QED BY <1>6, <1>7, <1>8 DEF ServiceInv

LEMMA CallGetStep ==
    ASSUME ServiceInv, NEW c \in Conns, CallGet(c)
    PROVE  ServiceInv'
  <1>1. Shape /\ \A x \in Conns : ConnInv(x)
    BY DEF ServiceInv
  <1>2. /\ pc # "exited" /\ conns[c] = "active" /\ c \notin called
        /\ called' = called \cup {c} /\ NeedsSnapshot(request[c])
        /\ UNCHANGED <<vars, startVars, request, response, seen, gone>>
        /\ UNCHANGED <<snap, failing, failures>>
    BY DEF CallGet, Cache!Ask, Cache!ReplyAtOnce
  <1>4. c \notin asking /\ ~Answered(c)
    BY <1>1, <1>2 DEF ConnInv, Got
  <1>5. \/ asking' = asking \cup {c} /\ answer' = [answer EXCEPT ![c] = Cache!NoAnswer]
        \/ asking' = asking /\ \E a \in Cache!Answers : answer' = [answer EXCEPT ![c] = a]
    BY DEF CallGet, Cache!Ask, Cache!ReplyAtOnce
  <1>6. Cache!NoAnswer \in AnswerSet
    BY DEF Cache!NoAnswer, AnswerSet
  <1>7. answer' \in [Conns -> AnswerSet]
    BY <1>1, <1>5, <1>6, AnswersGood DEF Shape
  <1>8. Shape'
    BY <1>1, <1>2, <1>7 DEF Shape, vars
  <1>9. \A x \in Conns \ {c} : ConnInv(x)'
    <2> SUFFICES ASSUME NEW x \in Conns \ {c} PROVE ConnInv(x)'
      OBVIOUS
    <2>1. answer'[x] = answer[x] /\ (x \in asking' <=> x \in asking)
          /\ (x \in called' <=> x \in called)
      BY <1>1, <1>2, <1>5 DEF Shape
    <2>2. pc' = pc /\ conns' = conns /\ snap' = snap /\ snap \in Nat
      BY <1>1, <1>2 DEF Shape, vars
    <2> QED BY <1>2, <2>1, <2>2, ConnKeeps
  <1>10. ConnInv(c)'
    <2>1. /\ Got(c)' /\ ~Answered(c)' /\ pc' # "exited" /\ conns'[c] = "active"
          /\ seen' = seen /\ snap' = snap
      BY <1>2, <1>4 DEF Got, Answered, vars
    <2>2. c \notin asking' => GoodAnswer(c)'
      <3> SUFFICES ASSUME c \notin asking' PROVE GoodAnswer(c)'
        OBVIOUS
      <3>1. PICK a \in Cache!Answers : answer' = [answer EXCEPT ![c] = a]
        BY <1>5
      <3>2. answer'[c] = a
        BY <1>1, <3>1 DEF Shape
      <3> QED BY <2>1, <3>2, AnswersGood DEF GoodAnswer
    <2>3. seen'[c] <= snap'
      BY <1>1, <2>1 DEF ConnInv
    <2>4. NeedsSnapshot(request'[c])
      BY <1>2
    <2> QED BY <2>1, <2>2, <2>3, <2>4 DEF ConnInv
  <1> QED BY <1>8, <1>9, <1>10 DEF ServiceInv

LEMMA GetReturnsStep ==
    ASSUME ServiceInv, NEW c \in Conns, GetReturns(c)
    PROVE  ServiceInv'
  <1>1. Shape /\ \A x \in Conns : ConnInv(x)
    BY DEF ServiceInv
  <1>2. /\ pc # "exited" /\ conns[c] = "active"
        /\ c \in asking /\ asking' = asking \ {c}
        /\ UNCHANGED <<vars, startVars, talkVars>>
        /\ UNCHANGED <<snap, failing, failures>>
    BY DEF GetReturns, Cache!Reply, Cache!Cancel
  <1>3. PICK a : /\ answer' = [answer EXCEPT ![c] = a] /\ a \in AnswerSet
                 /\ c \in gone \/ a.result >= seen[c]
                 /\ a.result = 0 <=> a.err # NoErr
    <2>1. CASE Cache!Reply(c)
      BY <2>1, AnswersGood DEF Cache!Reply
    <2>2. CASE c \in gone /\ Cache!Cancel(c)
      <3> DEFINE canceled == [Cache!NoAnswer EXCEPT !.err = Canceled]
      <3>1. canceled \in AnswerSet /\ canceled.result = 0 /\ canceled.err # NoErr
        BY ErrorAssumption DEF Cache!NoAnswer, AnswerSet
      <3>2. answer' = [answer EXCEPT ![c] = canceled]
        BY <2>2 DEF Cache!Cancel
      <3> HIDE DEF canceled
      <3> QED BY <2>2, <3>1, <3>2
    <2> QED BY <2>1, <2>2 DEF GetReturns
  <1>4. Shape'
    BY <1>1, <1>2, <1>3 DEF Shape, vars, talkVars
  <1>5. \A x \in Conns \ {c} : ConnInv(x)'
    <2> SUFFICES ASSUME NEW x \in Conns \ {c} PROVE ConnInv(x)'
      OBVIOUS
    <2>1. answer'[x] = answer[x] /\ (x \in asking' <=> x \in asking)
      BY <1>1, <1>2, <1>3 DEF Shape
    <2>2. pc' = pc /\ conns' = conns /\ snap' = snap /\ snap \in Nat
          /\ request' = request /\ response' = response /\ seen' = seen /\ gone' = gone
          /\ called' = called
      BY <1>1, <1>2 DEF Shape, vars, talkVars
    <2> QED BY <2>1, <2>2, ConnKeeps
  <1>6. ConnInv(c)'
    <2>1. pc' = pc /\ conns' = conns /\ snap' = snap
          /\ request' = request /\ response' = response /\ seen' = seen /\ gone' = gone
          /\ called' = called
      BY <1>2 DEF vars, talkVars
    <2>2. answer'[c] = a /\ c \notin asking'
      BY <1>1, <1>2, <1>3 DEF Shape
    <2>3. GoodAnswer(c)'
      BY <1>3, <2>1, <2>2 DEF GoodAnswer
    <2>4. seen[c] <= snap /\ Got(c) /\ ~Answered(c)
      BY <1>1, <1>2 DEF ConnInv
    <2> QED BY <1>2, <2>1, <2>2, <2>3, <2>4 DEF ConnInv, Got, Answered
  <1> QED BY <1>4, <1>5, <1>6 DEF ServiceInv

\* A response as the handlers make it says why it has no result.
Honest(x) ==
    /\ x = [status |-> x.status, result |-> x.result, stale |-> x.stale, says |-> x.says]
    /\ x.result = 0 => x.says # NoErr

\* What the handlers put together is honest.
LEMMA HonestParts ==
    /\ \A a : a.result # 0 =>
         /\ Honest(Shown(a)) /\ Shown(a).result = a.result
         /\ Honest(ShownBare(a)) /\ ShownBare(a).result = a.result
    /\ \A a, s : a.err # NoErr =>
         Honest(Unavailable(s, a)) /\ Unavailable(s, a).result = 0
    /\ \A r : r.fault \in Faults => Honest(Bad(r))
    /\ Honest(NotRendered) /\ NotRendered.status = 500
  <1>1. ASSUME NEW a, a.result # 0
        PROVE  /\ Honest(Shown(a)) /\ Shown(a).result = a.result
               /\ Honest(ShownBare(a)) /\ ShownBare(a).result = a.result
    BY <1>1 DEF Honest, Shown, ShownBare
  <1>2. ASSUME NEW a, NEW s, a.err # NoErr
        PROVE  Honest(Unavailable(s, a)) /\ Unavailable(s, a).result = 0
    <2>1. PICK e : e = a.err
      OBVIOUS
    <2>2. Unavailable(s, a) = [NoResponse EXCEPT !.status = s, !.says = e]
      BY <2>1, Zenon DEF Unavailable
    <2>3. Unavailable(s, a) = [status |-> s, result |-> 0, stale |-> NoErr, says |-> e]
      BY <2>2 DEF NoResponse
    <2> QED BY <1>2, <2>1, <2>3 DEF Honest
  <1>3. ASSUME NEW r, r.fault \in Faults PROVE Honest(Bad(r))
    <2>1. PICK s, e : s = (IF r.fault = "too large" THEN 413 ELSE 400) /\ e = r.fault
      OBVIOUS
    <2>2. e # NoErr
      BY <1>3, <2>1, ErrorAssumption
    <2>3. Bad(r) = [NoResponse EXCEPT !.status = s, !.says = e]
      BY <2>1, Zenon DEF Bad
    <2>4. Bad(r) = [status |-> s, result |-> 0, stale |-> NoErr, says |-> e]
      BY <2>3 DEF NoResponse
    <2> QED BY <2>2, <2>4 DEF Honest
  <1>4. Honest(NotRendered) /\ NotRendered.status = 500
    <2>1. PICK e : e = "not rendered"
      OBVIOUS
    <2>2. NoErr # e
      BY <2>1, ErrorAssumption
    <2>3. NotRendered = [NoResponse EXCEPT !.status = 500, !.says = e]
      BY <2>1, Zenon DEF NotRendered
    <2>4. NotRendered = [status |-> 500, result |-> 0, stale |-> NoErr, says |-> e]
      BY <2>3 DEF NoResponse
    <2> QED BY <2>2, <2>4 DEF Honest
  <1> QED BY <1>1, <1>2, <1>3, <1>4

\* A request that is refused has a fault.
LEMMA RefusedHasFault ==
    ASSUME NEW r, RefusedFirst(r) \/ RefusedAfter(r)
    PROVE  r.fault \in Faults
  BY DEF RefusedFirst, RefusedAfter, Faults

\* The result that a response has, if its request is not refused.
Gives(r, a, x) == r.fault = "none" => x.result = a.result

\* What the handlers make of an answer of Get, refused requests included.
LEMMA ResponseGood ==
    ASSUME NEW r, NEW a, a.result = 0 <=> a.err # NoErr, NeedsSnapshot(r)
    PROVE  /\ Honest(Response(r, a)) /\ Gives(r, a, Response(r, a))
           /\ SwappedIn(r) => Response(r, a).status = 200
  <1> DEFINE Good(x) == Honest(x) /\ Gives(r, a, x)
  <1>1. ASSUME RefusedFirst(r) \/ RefusedAfter(r) PROVE Good(Bad(r))
    <2>1. r.fault \in Faults
      BY <1>1, RefusedHasFault
    <2>2. Honest(Bad(r))
      BY <2>1, HonestParts
    <2>3. r.fault # "none"
      BY <2>1 DEF Faults
    <2> QED BY <2>2, <2>3 DEF Gives
  <1>2. ASSUME a.err # NoErr, NEW s PROVE Good(Unavailable(s, a))
    BY <1>2, HonestParts DEF Gives
  <1>3. ASSUME a.err = NoErr PROVE Good(Shown(a)) /\ Good(ShownBare(a))
    BY <1>3, HonestParts DEF Gives
  <1>4. ASSUME NEW x, Good(x)
        PROVE  Good([x EXCEPT !.status = 200]) /\ [x EXCEPT !.status = 200].status = 200
    <2>1. PICK status, result, stale, says :
            x = [status |-> status, result |-> result, stale |-> stale, says |-> says]
      BY <1>4 DEF Honest
    <2>2. x.result = result /\ x.says = says
      BY <2>1
    <2>3. [x EXCEPT !.status = 200]
            = [status |-> 200, result |-> result, stale |-> stale, says |-> says]
      BY <2>1
    <2> QED BY <1>4, <2>2, <2>3 DEF Honest, Gives
  <1> HIDE DEF Good
  <1>5. CASE Api(r)
    <2>1. Response(r, a) = ApiAnswer(r, a)
      BY <1>5 DEF Response, Page, Api
    <2>2. Good(ApiAnswer(r, a))
      BY <1>1, <1>2, <1>3 DEF ApiAnswer
    <2> QED BY <1>5, <2>1, <2>2 DEF Good, SwappedIn, Api
  <1>6. CASE Page(r)
    <2>1. Response(r, a) = PageAnswer(a)
      BY <1>6 DEF Response, Page, Api
    <2>2. Good(PageAnswer(a))
      BY <1>2, <1>3 DEF PageAnswer
    <2> QED BY <1>6, <2>1, <2>2 DEF Good, SwappedIn, Page
  <1>7. CASE r.to = "dry run"
    <2>1. Response(r, a) = DryRunAnswer(r, a)
      BY <1>7 DEF Response, Page, Api
    <2>2. Good(DryRunPage(r, a))
      BY <1>1, <1>2, <1>3 DEF DryRunPage
    <2>3. Good(DryRunAnswer(r, a))
      BY <1>4, <2>2 DEF DryRunAnswer
    <2>4. SwappedIn(r) => DryRunAnswer(r, a).status = 200
      BY <1>4, <1>7, <2>2 DEF DryRunAnswer, SwappedIn
    <2> QED BY <2>1, <2>3, <2>4 DEF Good
  <1>8. CASE r.to = "fragment"
    <2>1. Response(r, a) = FragmentAnswer(a)
      BY <1>8 DEF Response, Page, Api
    <2>2. Good(FragmentAnswer(a))
      BY <1>2, <1>3 DEF FragmentAnswer
    <2>3. FragmentAnswer(a).status = 200
      BY HonestParts DEF FragmentAnswer, Unavailable, ShownBare, Shown, NoResponse
    <2> QED BY <2>1, <2>2, <2>3 DEF Good
  <1> QED BY <1>5, <1>6, <1>7, <1>8 DEF NeedsSnapshot

LEMMA HandledStep ==
    ASSUME ServiceInv, NEW c \in Conns, Handled(c)
    PROVE  ServiceInv'
  <1>1. Shape /\ \A x \in Conns : ConnInv(x)
    BY DEF ServiceInv
  <1>2. /\ pc # "exited" /\ pc' = pc /\ conns[c] = "active"
        /\ conns' = [conns EXCEPT ![c] = "closed"]
        /\ \E x \in {Response(request[c], answer[c]), NotRendered} :
             response' = [response EXCEPT ![c] = x]
        /\ NeedsSnapshot(request[c]) => c \in called \ asking
        /\ UNCHANGED <<request, called, seen, gone, cacheVars>>
    BY DEF Handled, Respond, Moves
  <1>3. Shape'
    BY <1>1, <1>2 DEF Shape, cacheVars
  <1>4. \A x \in Conns \ {c} : ConnInv(x)'
    <2> SUFFICES ASSUME NEW x \in Conns \ {c} PROVE ConnInv(x)'
      OBVIOUS
    <2>1. conns'[x] = conns[x] /\ response'[x] = response[x]
      BY <1>1, <1>2 DEF Shape
    <2>2. /\ request' = request /\ seen' = seen /\ gone' = gone /\ called' = called
          /\ snap' = snap /\ asking' = asking /\ answer' = answer /\ snap \in Nat
      BY <1>1, <1>2 DEF Shape, cacheVars
    <2> QED BY <1>2, <2>1, <2>2, ConnKeeps
  <1>5. ConnInv(c)'
    <2>1. /\ conns'[c] = "closed"
          /\ response'[c] \in {Response(request[c], answer[c]), NotRendered}
          /\ request' = request /\ seen' = seen /\ gone' = gone /\ called' = called
          /\ snap' = snap /\ asking' = asking /\ answer' = answer
      BY <1>1, <1>2 DEF Shape, cacheVars
    <2>2. GoodResponse(c)'
      <3>1. NeedsSnapshot(request[c]) => GoodAnswer(c)
        BY <1>1, <1>2 DEF ConnInv, Got
      <3>2. ASSUME NeedsSnapshot(request[c]), response'[c] = Response(request[c], answer[c])
            PROVE  /\ request[c].fault = "none" => c \in gone \/ response'[c].result >= seen[c]
                   /\ response'[c].result = 0 => response'[c].says # NoErr
                   /\ SwappedIn(request[c]) => response'[c].status = 200
        BY <3>1, <3>2, ResponseGood DEF GoodAnswer, Honest, Gives
      <3>3. ASSUME response'[c] = NotRendered
            PROVE  /\ response'[c].status = 500
                   /\ response'[c].result = 0 => response'[c].says # NoErr
        BY <3>3, HonestParts DEF Honest
      <3> QED BY <2>1, <3>2, <3>3 DEF GoodResponse
    <2>3. c \notin asking
      <3>1. c \in asking => NeedsSnapshot(request[c])
        BY <1>1, <1>2 DEF ConnInv
      <3> QED BY <1>1, <1>2, <3>1 DEF ConnInv
    <2> QED BY <1>1, <1>2, <2>1, <2>2, <2>3 DEF ConnInv, Got
  <1> QED BY <1>3, <1>4, <1>5 DEF ServiceInv

\* The end of the process is the end of its requests.
LEMMA ExitedKeeps ==
    ASSUME ServiceInv, pc' = "exited",
           conns' = [c \in Conns |-> conns'[c]],
           UNCHANGED cacheVars,
           request' = [c \in Conns |-> request'[c]],
           response' = [c \in Conns |-> NoResponse],
           seen' = [c \in Conns |-> 0]
    PROVE  ServiceInv'
  <1>1. Shape'
    BY DEF ServiceInv, Shape, cacheVars
  <1>2. ASSUME NEW c \in Conns PROVE ConnInv(c)'
    <2>1. seen'[c] = 0 /\ snap' \in Nat /\ ~Got(c)' /\ ~Answered(c)'
      BY DEF ServiceInv, Shape, cacheVars, Got, Answered, NoResponse
    <2> QED BY <2>1 DEF ConnInv
  <1> QED BY <1>1, <1>2 DEF ServiceInv

LEMMA BesideStep == ASSUME ServiceInv, Beside PROVE ServiceInv'
  <1>1. Shape
    BY DEF ServiceInv
  <1>2. conns' = [c \in Conns |-> conns'[c]]
    BY <1>1 DEF Shape, Beside, SelectServeErr, SelectDone, ShutdownReturns, ShutdownExpires,
           ShutdownErr, Await, Exit, Signal, Tick, ServeReturns, Exited, vars, Accept, Moves
  <1>3. CASE pc' = "exited"
    <2>1. /\ request' = [c \in Conns |-> Nobody] /\ response' = [c \in Conns |-> NoResponse]
          /\ seen' = [c \in Conns |-> 0] /\ UNCHANGED cacheVars
      BY <1>3 DEF Beside
    <2>2. request' = [c \in Conns |-> request'[c]]
      BY <2>1
    <2> QED BY <1>2, <1>3, <2>1, <2>2, ExitedKeeps
  <1>4. CASE pc' # "exited"
    <2>1. pc # "exited"
      BY <1>4 DEF Beside, SelectServeErr, SelectDone, ShutdownReturns, ShutdownExpires,
           Await, Exit, Signal, Tick, ServeReturns, Exited, vars, Accept, Moves
    <2>2. \A c \in Conns : conns'[c] = conns[c] \/ (conns[c] = "none" /\ conns'[c] = "new")
      BY <1>1, <1>4 DEF Shape, Beside, SelectServeErr, SelectDone, ShutdownReturns,
           ShutdownExpires, ShutdownErr, Await, Exit, Signal, Tick, ServeReturns, Exited, vars,
           Accept, Moves
    <2>3. UNCHANGED <<talkVars, cacheVars>>
      BY <1>4 DEF Beside
    <2>4. /\ snap' \in Nat /\ snap' >= snap /\ failing' \in Errors \cup {NoErr}
          /\ failures' \subseteq Errors
      BY <1>1, <2>3 DEF Shape, cacheVars
    <2> QED BY <1>2, <2>1, <2>2, <2>3, <2>4, QuietStep DEF cacheVars
  <1> QED BY <1>3, <1>4

LEMMA RebuildEndsStep == ASSUME ServiceInv, RebuildEnds PROVE ServiceInv'
  <1>1. Shape
    BY DEF ServiceInv
  <1>2. /\ snap' \in Nat /\ snap' >= snap /\ failing' \in Errors \cup {NoErr}
        /\ failures' \subseteq Errors /\ UNCHANGED <<asking, answer>>
    BY <1>1 DEF Shape, RebuildEnds, Cache!Succeed, Cache!Fail
  <1>3. UNCHANGED <<talkVars, conns, pc>>
    BY DEF RebuildEnds, vars
  <1> QED BY <1>1, <1>2, <1>3, QuietStep DEF Shape

LEMMA LeaveStep == ASSUME ServiceInv, NEW c \in Conns, Leave(c) PROVE ServiceInv'
  <1>1. Shape /\ \A x \in Conns : ConnInv(x)
    BY DEF ServiceInv
  <1>2. /\ gone' = gone \cup {c} /\ UNCHANGED <<request, called, response, seen, cacheVars>>
        /\ pc' = pc /\ conns' = conns
    BY DEF Leave, vars
  <1>3. Shape'
    BY <1>1, <1>2 DEF Shape, cacheVars
  <1>4. ASSUME NEW x \in Conns PROVE ConnInv(x)'
    <2>1. answer' = answer /\ asking' = asking /\ snap' = snap /\ snap \in Nat
      BY <1>1, <1>2 DEF Shape, cacheVars
    <2> QED BY <1>2, <2>1, ConnKeeps
  <1> QED BY <1>3, <1>4 DEF ServiceInv

\* ServiceInv is inductive.
LEMMA ServiceInductive == ServiceInv /\ [ServiceNext]_serviceVars => ServiceInv'
  <1> SUFFICES ASSUME ServiceInv, [ServiceNext]_serviceVars PROVE ServiceInv'
    OBVIOUS
  <1>1. Shape
    BY DEF ServiceInv
  <1>2. CASE UNCHANGED <<talkVars, cacheVars, conns>> /\ (pc' # "exited" => pc # "exited")
    <2>1. /\ snap' \in Nat /\ snap' >= snap /\ failing' \in Errors \cup {NoErr}
          /\ failures' \subseteq Errors /\ conns' = [c \in Conns |-> conns'[c]]
      BY <1>1, <1>2 DEF Shape, cacheVars
    <2> QED BY <1>2, <2>1, QuietStep DEF cacheVars
  <1>3. CASE ComesUp
    BY <1>2, <1>3 DEF ComesUp, Start
  <1>4. CASE DoesNotComeUp
    <2>1. conns' = [c \in Conns |-> conns'[c]] /\ pc' = "exited" /\ pc = "start"
      BY <1>4 DEF DoesNotComeUp, StartFails, Exit
    <2>2. \A c \in Conns : conns'[c] = conns[c] \/ pc' = "exited"
      BY <2>1
    <2>3. /\ snap' \in Nat /\ snap' >= snap /\ failing' \in Errors \cup {NoErr}
          /\ failures' \subseteq Errors /\ UNCHANGED <<talkVars, asking, answer>>
      BY <1>1, <1>4 DEF Shape, DoesNotComeUp, cacheVars
    <2> QED BY <2>1, <2>2, <2>3, QuietStep
  <1>5. ASSUME NEW c \in Conns,
               RequestComes(c) \/ CallGet(c) \/ GetReturns(c) \/ Leave(c) \/ Handled(c)
        PROVE  ServiceInv'
    BY <1>5, RequestComesStep, CallGetStep, GetReturnsStep, LeaveStep, HandledStep
  <1>6. CASE RebuildEnds
    BY <1>6, RebuildEndsStep
  <1>7. CASE Beside
    BY <1>7, BesideStep
  <1>8. CASE UNCHANGED serviceVars
    BY <1>2, <1>8 DEF serviceVars, vars
  <1> QED BY <1>3, <1>4, <1>5, <1>6, <1>7, <1>8 DEF ServiceNext

\* Every state of the service has the inductive invariant.
LEMMA ServiceInvariance == ServiceSpec => []ServiceInv
  <1>1. ServiceInit => ServiceInv
    BY ServiceInitInv
  <1>2. ServiceInv /\ [ServiceNext]_serviceVars => ServiceInv'
    BY ServiceInductive
  <1> QED BY <1>1, <1>2, PTL DEF ServiceSpec

\* What a request could see is not taken away from it, whatever fails and whoever
\* leaves.
THEOREM NothingTakenBack == ServiceSpec => []NeverTakenBack
  <1>1. ServiceInv => NeverTakenBack
    BY DEF ServiceInv, ConnInv, GoodResponse, NeverTakenBack
  <1> QED BY <1>1, ServiceInvariance, PTL

\* A response that has no snapshot to show says why: in the API, the pages, the dry run
\* and the fragment, for requests that are refused and pages that fail as well.
THEOREM SaysWhy == ServiceSpec => []NoSilentEmpty
  <1>1. ServiceInv => NoSilentEmpty
    BY DEF ServiceInv, ConnInv, GoodResponse, NoSilentEmpty
  <1> QED BY <1>1, ServiceInvariance, PTL

-----------------------------------------------------------------------------
(* What LoadFrom makes of an environment, and what the mux makes of a URL. *)

\* The sources of the namespace, as a set and one by one.
LEMMA SourcesAre == ToSet(NamespaceSources) = {"NAMESPACE", "POD_NAMESPACE", "serviceAccount"}
  BY DEF ToSet, NamespaceSources

\* No namespace is given if no source says anything.
LEMMA NoNamespaceIs ==
    ASSUME NEW e
    PROVE  NoNamespace(e) <=> /\ Blank(e["NAMESPACE"]) /\ Blank(e["POD_NAMESPACE"])
                              /\ Blank(e["serviceAccount"])
  BY DEF NoNamespace, NamespaceSources

\* A variable that is right in the defaults is right wherever it is as there.
LEMMA DefaultsRight == Errs(Defaults) = {}
<1>1. ~NoNamespace(Defaults)
  BY NoNamespaceIs, ConfigAssumption DEF Defaults, Blank
<1>2. ~BadPort(DefaultPort)
  BY DEF BadPort, DefaultPort
<1>3. /\ Defaults["NAMESPACE"] = "ns"
      /\ \A v \in {"HTTP_PORT", "LABEL_SELECTOR", "CACHE_TTL", "MUST_REACT_SEVERITIES",
                   "BASE_PATH"} : Defaults[v] = Unset
  BY DEF Defaults
<1>4. Unset # Junk /\ Get(Unset, DefaultPort) = DefaultPort
  BY ConfigAssumption DEF Get
<1> QED BY <1>1, <1>2, <1>3, <1>4 DEF Errs

Own(v) == IF v = "NAMESPACE" THEN ToSet(NamespaceSources) ELSE {v}
Checked == {"HTTP_PORT", "LABEL_SELECTOR", "CACHE_TTL", "MUST_REACT_SEVERITIES", "BASE_PATH",
            "NAMESPACE"}

\* LoadFrom reports only the variables that it checks.
LEMMA ErrsChecked == ASSUME NEW e PROVE Errs(e) \subseteq Checked
  BY DEF Errs, Checked

\* Whether a variable is reported depends on its own value only.
LEMMA ErrsByVariable ==
    ASSUME NEW e, NEW f, NEW v \in Checked, \A w \in Own(v) : e[w] = f[w]
    PROVE  v \in Errs(e) <=> v \in Errs(f)
<1>1. CASE v = "NAMESPACE"
  <2>1. NoNamespace(e) <=> NoNamespace(f)
    BY <1>1, SourcesAre, NoNamespaceIs DEF Own
  <2> QED BY <1>1, <2>1 DEF Errs
<1>2. CASE v # "NAMESPACE"
  <2>1. e[v] = f[v]
    BY <1>2 DEF Own
  <2> QED BY <1>2, <2>1 DEF Errs, Checked
<1> QED BY <1>1, <1>2

\* What is wrong alone is wrong with others, and the reverse.
LEMMA ErrsAreEach ==
    ASSUME NEW e, DOMAIN e = DOMAIN Defaults
    PROVE  Errs(e) = UNION {Errs(OneOf(e, v)) : v \in DOMAIN e}
<1>1. DOMAIN Defaults = {"HTTP_PORT", "LABEL_SELECTOR", "CACHE_TTL", "MUST_REACT_SEVERITIES",
                         "BASE_PATH", "NAMESPACE", "POD_NAMESPACE", "serviceAccount"}
  BY DEF Defaults
<1>2. Checked \subseteq DOMAIN e /\ \A v \in Checked : Own(v) \subseteq DOMAIN e
  BY <1>1, SourcesAre DEF Checked, Own
<1>3. ASSUME NEW v \in Errs(e) PROVE v \in Errs(OneOf(e, v))
  <2>1. v \in Checked
    BY ErrsChecked
  <2>2. \A w \in Own(v) : e[w] = OneOf(e, v)[w]
    BY <1>2, <2>1, SourcesAre DEF OneOf, Own
  <2> QED BY <2>1, <2>2, ErrsByVariable
<1>4. ASSUME NEW v \in DOMAIN e, NEW w \in Errs(OneOf(e, v)) PROVE w \in Errs(e)
  <2>1. w \in Checked
    BY ErrsChecked
  <2>2. \/ \A x \in Own(w) : OneOf(e, v)[x] = e[x]
        \/ \A x \in Own(w) : OneOf(e, v)[x] = Defaults[x]
    BY <1>2, <2>1, SourcesAre DEF OneOf, Own, Checked
  <2>3. ~ \A x \in Own(w) : OneOf(e, v)[x] = Defaults[x]
    BY <2>1, ErrsByVariable, DefaultsRight
  <2> QED BY <2>1, <2>2, <2>3, ErrsByVariable
<1> QED BY <1>2, <1>3, <1>4, ErrsChecked

\* A set of numbers up to a bound has a least and a greatest element.
LEMMA LeastGreatest ==
    ASSUME NEW T, T # {}, NEW n \in Nat, T \subseteq 1 .. n
    PROVE  Min(T) \in T /\ Max(T) \in T
<1>1. ASSUME NEW S, S \subseteq Nat, S # {} PROVE \E k \in S : \A x \in S : k <= x
  <2>1. PICK k \in S : \A x \in S : <<x, k>> \notin OpToRel(<, Nat)
    BY <1>1, WFMin, NatLessThanWellFounded
  <2>2. \A x \in S : ~(x < k)
    BY <1>1, <2>1 DEF OpToRel
  <2> QED BY <1>1, <2>2
<1>2. \E k \in T : \A x \in T : k <= x
  <2>1. T \subseteq Nat
    OBVIOUS
  <2> QED BY <1>1, <2>1
<1>3. \E k \in T : \A x \in T : k >= x
  <2> DEFINE U == {n - x : x \in T}
  <2>1. PICK m \in U : \A y \in U : m <= y
    <3>1. \A x \in T : n - x \in Nat
      OBVIOUS
    <3>2. U \subseteq Nat /\ U # {}
      BY <3>1
    <3> HIDE DEF U
    <3> QED BY <1>1, <3>2
  <2>2. PICK k \in T : m = n - k
    OBVIOUS
  <2>3. ASSUME NEW x \in T PROVE k >= x
    <3>1. n - k <= n - x
      BY <2>1, <2>2
    <3> QED BY <3>1
  <2> QED BY <2>3
<1> QED BY <1>2, <1>3 DEF Min, Max

\* Trim leaves a part of what it trims.
LEMMA Trimmed ==
    ASSUME NEW S, NEW s \in Seq(S)
    PROVE  TrimSlashes(s) \in Seq(S)
<1> DEFINE named == {i \in DOMAIN s : s[i] # ""}
<1>1. CASE named = {}
  <2>1. TrimSlashes(s) = <<>>
    BY <1>1 DEF TrimSlashes
  <2> QED BY <2>1, EmptySeq
<1>2. CASE named # {}
  <2>1. Len(s) \in Nat /\ named \subseteq 1 .. Len(s)
    BY LenProperties
  <2>2. Min(named) \in 1 .. Len(s) /\ Max(named) \in 1 .. Len(s)
    <3> HIDE DEF named
    <3> QED BY <1>2, <2>1, LeastGreatest
  <2>3. TrimSlashes(s) = SubSeq(s, Min(named), Max(named))
    BY <1>2 DEF TrimSlashes
  <2> HIDE DEF named
  <2> QED BY <2>2, <2>3, SubSeqProperties
<1> QED BY <1>1, <1>2

\* What is accepted as a base path has plain segments only.
LEMMA AcceptedPath ==
    ASSUME NEW e \in Environments
    PROVE  LoadFrom(e).basePath \in Seq(PlainSegments)
<1> DEFINE path == Get(e.BASE_PATH, <<"">>)
           trimmed == TrimSlashes(path)
<1>1. path \in Seq(STRING)
  BY EnvironmentAssumption
<1>2. LoadFrom(e).basePath = BasePath(path)
  BY DEF LoadFrom, Loaded
<1>3. CASE BadBasePath(path)
  BY <1>2, <1>3, EmptySeq DEF BasePath
<1>4. CASE ~BadBasePath(path)
  <2>1. trimmed \in Seq(STRING)
    BY <1>1, Trimmed
  <2>2. \A i \in DOMAIN trimmed : trimmed[i] \in PlainSegments
    BY <1>4 DEF BadBasePath, ToSet
  <2> HIDE DEF trimmed
  <2>3. trimmed \in Seq(PlainSegments)
    BY <2>1, <2>2
  <2> QED BY <1>2, <1>4, <2>3 DEF BasePath, trimmed
<1> QED BY <1>3, <1>4

\* The elements of a concatenation are those of its parts.
LEMMA ElementsOfConcat ==
    ASSUME NEW S, NEW s \in Seq(S), NEW t \in Seq(S)
    PROVE  ToSet(s \o t) = ToSet(s) \cup ToSet(t)
<1>1. /\ s \o t \in Seq(S) /\ Len(s \o t) = Len(s) + Len(t)
      /\ \A i \in 1 .. Len(s) + Len(t) :
            (s \o t)[i] = IF i <= Len(s) THEN s[i] ELSE t[i - Len(s)]
  BY ConcatProperties
<1>2. Len(s) \in Nat /\ Len(t) \in Nat /\ DOMAIN s = 1 .. Len(s) /\ DOMAIN t = 1 .. Len(t)
      /\ DOMAIN (s \o t) = 1 .. Len(s) + Len(t)
  BY <1>1, LenProperties
<1>3. ASSUME NEW i \in DOMAIN s PROVE s[i] \in ToSet(s \o t)
  BY <1>1, <1>2 DEF ToSet
<1>4. ASSUME NEW i \in DOMAIN t PROVE t[i] \in ToSet(s \o t)
  <2>1. i + Len(s) \in 1 .. Len(s) + Len(t) /\ ~(i + Len(s) <= Len(s)) /\ i + Len(s) - Len(s) = i
    BY <1>2
  <2>2. (s \o t)[i + Len(s)] = t[i]
    BY <1>1, <2>1
  <2> QED BY <1>2, <2>1, <2>2 DEF ToSet
<1>5. ASSUME NEW i \in DOMAIN (s \o t) PROVE (s \o t)[i] \in ToSet(s) \cup ToSet(t)
  <2>1. CASE i <= Len(s)
    BY <1>1, <1>2, <2>1 DEF ToSet
  <2>2. CASE ~(i <= Len(s))
    <3>1. i - Len(s) \in DOMAIN t /\ (s \o t)[i] = t[i - Len(s)]
      BY <1>1, <1>2, <2>2
    <3> QED BY <3>1 DEF ToSet
  <2> QED BY <2>1, <2>2
<1> QED BY <1>3, <1>4, <1>5 DEF ToSet

\* The mux answers with the longest pattern that matches and is allowed.
LEMMA RouteIs ==
    ASSUME NEW patterns, NEW method, NEW url, NEW p \in ToSet(patterns),
           Matches(p, url), Allows(p, method), Len(p.path) \in Nat,
           \A q \in ToSet(patterns) :
               Matches(q, url) /\ Allows(q, method) =>
                   q = p \/ (Len(q.path) \in Nat /\ Len(q.path) < Len(p.path))
    PROVE  Route(patterns, method, url) = p.to
<1> DEFINE matching == {q \in ToSet(patterns) : Matches(q, url)}
           allowed == {q \in matching : Allows(q, method)}
<1>1. p \in allowed
  OBVIOUS
<1>2. \A q \in allowed : q = p \/ (Len(q.path) \in Nat /\ Len(q.path) < Len(p.path))
  OBVIOUS
<1>3. Route(patterns, method, url) =
        (CHOOSE x \in allowed : \A q \in allowed : Len(q.path) <= Len(x.path)).to
  BY <1>1 DEF Route
<1> HIDE DEF allowed
<1>4. \A q \in allowed : Len(q.path) <= Len(p.path)
  BY <1>2
<1>5. PICK x : x = CHOOSE y \in allowed : \A q \in allowed : Len(q.path) <= Len(y.path)
  OBVIOUS
<1>6. x \in allowed /\ \A q \in allowed : Len(q.path) <= Len(x.path)
  BY <1>1, <1>4, <1>5
<1>7. x = p
  BY <1>1, <1>2, <1>6
<1> QED BY <1>3, <1>5, <1>7

\* What the two kinds of patterns match.
LEMMA PatternIs ==
    ASSUME NEW method, NEW path, NEW to
    PROVE  /\ Exact(method, path, to).path = path /\ Subtree(method, path, to).path = path
           /\ Exact(method, path, to).to = to /\ Subtree(method, path, to).to = to
           /\ \A url : Matches(Exact(method, path, to), url) <=> path = url
           /\ \A url : Matches(Subtree(method, path, to), url) <=> IsStrictPrefix(path, url)
           /\ \A m : Allows(Exact(method, path, to), m) <=> method \in {"", m}
           /\ \A m : Allows(Subtree(method, path, to), m) <=> method \in {"", m}
  BY DEF Exact, Subtree, Matches, Allows

\* The same for three parts.
LEMMA ElementsOfThree ==
    ASSUME NEW S, NEW s \in Seq(S), NEW t \in Seq(S), NEW u \in Seq(S)
    PROVE  ToSet(s \o t \o u) = ToSet(s) \cup ToSet(t) \cup ToSet(u)
<1>1. s \o t \in Seq(S)
  BY ConcatProperties
<1>2. ToSet((s \o t) \o u) = ToSet(s \o t) \cup ToSet(u)
  BY <1>1, ElementsOfConcat, Zenon
<1>3. ToSet(s \o t) = ToSet(s) \cup ToSet(t)
  BY ElementsOfConcat, Zenon
<1> QED BY <1>2, <1>3, Zenon

\* Sequences that are written down: their elements, and that they are sequences.
LEMMA FiveElements ==
    ASSUME NEW a, NEW b, NEW c, NEW d, NEW e, NEW s, s = <<a, b, c, d, e>>
    PROVE  ToSet(s) = {a, b, c, d, e}
  BY DEF ToSet

LEMMA FiveSequence ==
    ASSUME NEW a, NEW b, NEW c, NEW d, NEW e, NEW s, s = <<a, b, c, d, e>>
    PROVE  s \in Seq({a, b, c, d, e})
  OBVIOUS

LEMMA SevenElements ==
    ASSUME NEW a, NEW b, NEW c, NEW d, NEW e, NEW f, NEW g, NEW s,
           s = <<a, b, c, d, e, f, g>>
    PROVE  ToSet(s) = {a, b, c, d, e, f, g}
  BY DEF ToSet

LEMMA SevenSequence ==
    ASSUME NEW a, NEW b, NEW c, NEW d, NEW e, NEW f, NEW g, NEW s,
           s = <<a, b, c, d, e, f, g>>
    PROVE  s \in Seq({a, b, c, d, e, f, g})
  OBVIOUS

\* The patterns of the app, one by one.
LEMMA AppRoutesAre ==
    ToSet(AppRoutes) =
      {Exact("", <<"healthz">>, "health"),
       Exact("GET", <<"api", "components">>, "api"),
       Exact("GET", <<"api", "findings">>, "api"),
       Exact("GET", <<"api", "streams">>, "api"),
       Exact("GET", <<"api", "matrix">>, "api matrix"),
       Exact("POST", <<"api", "dryrun">>, "api dry run"),
       Exact("GET", <<"">>, "overview"),
       Exact("GET", <<"matrix">>, "matrix"),
       Exact("GET", <<"dryrun">>, "dry run form"),
       Exact("POST", <<"dryrun">>, "dry run"),
       Exact("GET", <<"ui", "manifest.json">>, "manifest"),
       Exact("GET", <<"ui", "fragment", "findings">>, "fragment"),
       Subtree("GET", <<"static">>, "static")}
<1>1. PICK x, a, b, c, d, e, f, g, h, i, j, k, l :
        /\ x = Exact("", <<"healthz">>, "health")
        /\ a = Exact("GET", <<"api", "components">>, "api")
        /\ b = Exact("GET", <<"api", "findings">>, "api")
        /\ c = Exact("GET", <<"api", "streams">>, "api")
        /\ d = Exact("GET", <<"api", "matrix">>, "api matrix")
        /\ e = Exact("POST", <<"api", "dryrun">>, "api dry run")
        /\ f = Exact("GET", <<"">>, "overview")
        /\ g = Exact("GET", <<"matrix">>, "matrix")
        /\ h = Exact("GET", <<"dryrun">>, "dry run form")
        /\ i = Exact("POST", <<"dryrun">>, "dry run")
        /\ j = Exact("GET", <<"ui", "manifest.json">>, "manifest")
        /\ k = Exact("GET", <<"ui", "fragment", "findings">>, "fragment")
        /\ l = Subtree("GET", <<"static">>, "static")
  OBVIOUS
<1>2. /\ ApiRoutes = <<a, b, c, d, e>> /\ WebRoutes = <<f, g, h, i, j, k, l>>
      /\ AppRoutes = <<x>> \o ApiRoutes \o WebRoutes
  BY <1>1, Zenon DEF ApiRoutes, WebRoutes, AppRoutes
<1>3. PICK s : s = <<x>>
  OBVIOUS
<1>4. PICK S : S = {x} \cup {a, b, c, d, e} \cup {f, g, h, i, j, k, l}
  OBVIOUS
<1>5. /\ ToSet(ApiRoutes) = {a, b, c, d, e}
      /\ ApiRoutes \in Seq({a, b, c, d, e})
  <2>1. ToSet(ApiRoutes) = {a, b, c, d, e}
    BY <1>2, FiveElements
  <2>2. ApiRoutes \in Seq({a, b, c, d, e})
    BY <1>2, FiveSequence
  <2> QED BY <2>1, <2>2
<1>12. /\ ToSet(WebRoutes) = {f, g, h, i, j, k, l}
       /\ WebRoutes \in Seq({f, g, h, i, j, k, l})
  <2>1. ToSet(WebRoutes) = {f, g, h, i, j, k, l}
    BY <1>2, SevenElements
  <2>2. WebRoutes \in Seq({f, g, h, i, j, k, l})
    BY <1>2, SevenSequence
  <2> QED BY <2>1, <2>2
<1>6. ToSet(s) = {x} /\ s \in Seq({x})
  BY <1>3 DEF ToSet
<1>7. /\ {x} \subseteq S /\ {a, b, c, d, e} \subseteq S
      /\ {f, g, h, i, j, k, l} \subseteq S
  BY <1>4
<1>8. s \in Seq(S) /\ ApiRoutes \in Seq(S) /\ WebRoutes \in Seq(S)
  <2>1. \A T : T \subseteq S => Seq(T) \subseteq Seq(S)
    BY SeqMonotonic
  <2> QED BY <1>5, <1>6, <1>7, <1>12, <2>1, Zenon
<1>9. ToSet(s \o ApiRoutes \o WebRoutes) =
        ToSet(s) \cup ToSet(ApiRoutes) \cup ToSet(WebRoutes)
  BY <1>8, ElementsOfThree
<1>10. ToSet(AppRoutes) = {x} \cup {a, b, c, d, e} \cup {f, g, h, i, j, k, l}
  BY <1>2, <1>3, <1>5, <1>6, <1>9, <1>12, Zenon
<1>11. ToSet(AppRoutes) = {x, a, b, c, d, e, f, g, h, i, j, k, l}
  BY <1>10
<1> QED BY <1>1, <1>11, Zenon

\* A path is below another one if something comes after it, and only then.
LEMMA StrictPrefixes ==
    ASSUME NEW S, NEW b \in Seq(S), NEW p \in Seq(S)
    PROVE  /\ p # <<>> => IsStrictPrefix(b, b \o p)
           /\ IsStrictPrefix(b, p) => Len(b) < Len(p) /\ (b # <<>> => p[1] = b[1])
<1>0. Len(b) \in Nat /\ Len(p) \in Nat
  BY LenProperties
<1>1. Len(b) \in Nat /\ Len(p) \in Nat /\ SubSeq(b, 1, Len(b)) = b
  BY <1>0, SubSeqFull
<1>2. ASSUME p # <<>> PROVE IsStrictPrefix(b, b \o p)
  <2>1. Len(b \o p) = Len(b) + Len(p)
    BY ConcatProperties
  <2>5. Len(p) # 0
    BY <1>2, EmptySeq
  <2>2. SubSeq(b \o p, 1, Len(b)) = b
    BY SubSeqOfConcat1, <1>1
  <2>3. Len(b) <= Len(b \o p) /\ Len(b \o p) # Len(b)
    <3>1. Len(b) <= Len(b) + Len(p) /\ Len(b) + Len(p) # Len(b)
      BY <1>0, <2>5
    <3> QED BY <2>1, <3>1, Zenon
  <2>4. b # b \o p
    BY <2>3
  <2> QED BY <1>1, <2>2, <2>3, <2>4 DEF IsStrictPrefix, IsPrefix
<1>3. ASSUME IsStrictPrefix(b, p) PROVE Len(b) < Len(p) /\ (b # <<>> => p[1] = b[1])
  <2>1. Len(b) <= Len(p) /\ b = SubSeq(p, 1, Len(b)) /\ b # p
    BY <1>1, <1>3 DEF IsStrictPrefix, IsPrefix
  <2>2. Len(b) # Len(p)
    BY <2>1, SubSeqFull
  <2>3. ASSUME b # <<>> PROVE p[1] = b[1]
    <3>1. Len(b) >= 1
      BY <1>1, <2>3, EmptySeq
    <3>2. SubSeq(p, 1, Len(b))[1] = p[1]
      BY <1>1, <2>1, <3>1
    <3> QED BY <2>1, <3>2
  <2> QED BY <1>1, <2>1, <2>2, <2>3
<1> QED BY <1>2, <1>3
\* What matches and is allowed is one of the patterns, with its path.
LEMMA AppRouteOf ==
    ASSUME NEW url, NEW m, NEW q \in ToSet(AppRoutes), Matches(q, url), Allows(q, m)
    PROVE  \/ q = Exact("", <<"healthz">>, "health") /\ url = <<"healthz">>
           \/ url \in {<<"api", "components">>, <<"api", "findings">>, <<"api", "streams">>,
                       <<"api", "matrix">>, <<"api", "dryrun">>}
           \/ q = Exact("GET", <<"">>, "overview") /\ url = <<"">> /\ m = "GET"
           \/ q = Exact("GET", <<"matrix">>, "matrix") /\ url = <<"matrix">>
           \/ q = Exact("GET", <<"dryrun">>, "dry run form") /\ url = <<"dryrun">> /\ m = "GET"
           \/ q = Exact("POST", <<"dryrun">>, "dry run") /\ url = <<"dryrun">> /\ m = "POST"
           \/ q = Exact("GET", <<"ui", "manifest.json">>, "manifest")
              /\ url = <<"ui", "manifest.json">>
           \/ q = Exact("GET", <<"ui", "fragment", "findings">>, "fragment")
              /\ url = <<"ui", "fragment", "findings">>
           \/ q = Subtree("GET", <<"static">>, "static") /\ IsStrictPrefix(<<"static">>, url)
<1>1. ASSUME NEW method, NEW path, NEW to, q = Exact(method, path, to)
      PROVE  path = url /\ method \in {"", m}
  BY <1>1, PatternIs
<1>2. ASSUME NEW path, NEW to, q = Subtree("GET", path, to)
      PROVE  IsStrictPrefix(path, url)
  BY <1>2, PatternIs
<1>3. CASE q = Exact("", <<"healthz">>, "health")
  BY <1>1, <1>3
<1>4. CASE q = Exact("GET", <<"api", "components">>, "api")
  BY <1>1, <1>4
<1>5. CASE q = Exact("GET", <<"api", "findings">>, "api")
  BY <1>1, <1>5
<1>6. CASE q = Exact("GET", <<"api", "streams">>, "api")
  BY <1>1, <1>6
<1>7. CASE q = Exact("GET", <<"api", "matrix">>, "api matrix")
  BY <1>1, <1>7
<1>8. CASE q = Exact("POST", <<"api", "dryrun">>, "api dry run")
  BY <1>1, <1>8
<1>9. CASE q = Exact("GET", <<"">>, "overview")
  BY <1>1, <1>9
<1>10. CASE q = Exact("GET", <<"matrix">>, "matrix")
  BY <1>1, <1>10
<1>11. CASE q = Exact("GET", <<"dryrun">>, "dry run form")
  BY <1>1, <1>11
<1>12. CASE q = Exact("POST", <<"dryrun">>, "dry run")
  BY <1>1, <1>12
<1>13. CASE q = Exact("GET", <<"ui", "manifest.json">>, "manifest")
  BY <1>1, <1>13
<1>14. CASE q = Exact("GET", <<"ui", "fragment", "findings">>, "fragment")
  BY <1>1, <1>14
<1>15. CASE q = Subtree("GET", <<"static">>, "static")
  BY <1>2, <1>15
<1> QED BY <1>3, <1>4, <1>5, <1>6, <1>7, <1>8, <1>9, <1>10, <1>11, <1>12, <1>13, <1>14,
           <1>15, AppRoutesAre

\* A path that begins otherwise is not below /static.
LEMMA NotStatic ==
    ASSUME NEW a, NEW b, NEW c, a # "static", NEW url, url \in {<<a>>, <<a, b>>, <<a, b, c>>}
    PROVE  ~IsStrictPrefix(<<"static">>, url) /\ Len(url) \in Nat
<1>1. PICK s, S : s = <<"static">> /\ S = {a, b, c, "static"}
  OBVIOUS
<1>2. /\ s \in Seq(S) /\ url \in Seq(S) /\ Len(url) \in Nat
      /\ s # <<>> /\ s[1] = "static" /\ url[1] = a
  <2>1. CASE url = <<a>>
    BY <1>1, <2>1
  <2>2. CASE url = <<a, b>>
    BY <1>1, <2>2
  <2>3. CASE url = <<a, b, c>>
    BY <1>1, <2>3
  <2> QED BY <2>1, <2>2, <2>3
<1>3. ~IsStrictPrefix(s, url)
  BY <1>2, StrictPrefixes
<1> QED BY <1>1, <1>2, <1>3

\* A pattern that alone matches a URL answers it.
LEMMA OneAnswers ==
    ASSUME NEW url, NEW m, NEW to, Len(url) \in Nat, Exact(m, url, to) \in ToSet(AppRoutes),
           \A q \in ToSet(AppRoutes) :
               Matches(q, url) /\ Allows(q, m) => q = Exact(m, url, to)
    PROVE  Route(AppRoutes, m, url) = to
<1>1. PICK p : p = Exact(m, url, to)
  OBVIOUS
<1>2. p.path = url /\ p.to = to /\ Matches(p, url) /\ Allows(p, m)
  BY <1>1 DEF Exact, Matches, Allows
<1> QED BY <1>1, <1>2, RouteIs

\* The paths that the pages link to, each with its one handler.
LEMMA LinkRoutes ==
    ASSUME NEW l \in Links
    PROVE  Route(AppRoutes, l[1], l[2]) = l[3]
<1>2. CASE l = <<"GET", <<"">>, "overview">>
  <2>1. PICK url : url = <<"">>
    OBVIOUS
  <2>3. ~IsStrictPrefix(<<"static">>, url) /\ Len(url) \in Nat
    BY <2>1, NotStatic
  <2>4. url \notin {<<"healthz">>, <<"api", "components">>, <<"api", "findings">>,
                    <<"api", "streams">>, <<"api", "matrix">>, <<"api", "dryrun">>,
                    <<"matrix">>, <<"dryrun">>, <<"ui", "manifest.json">>,
                    <<"ui", "fragment", "findings">>}
    BY <2>1
  <2>5. \A q \in ToSet(AppRoutes) :
            Matches(q, url) /\ Allows(q, "GET") => q = Exact("GET", <<"">>, "overview")
    BY <2>3, <2>4, AppRouteOf
  <2>6. Exact("GET", <<"">>, "overview") \in ToSet(AppRoutes)
    BY AppRoutesAre
  <2>7. Route(AppRoutes, "GET", url) = "overview"
    BY <2>1, <2>3, <2>5, <2>6, OneAnswers
  <2> QED BY <1>2, <2>1, <2>7
<1>3. CASE l = <<"GET", <<"matrix">>, "matrix">>
  <2>1. PICK url : url = <<"matrix">>
    OBVIOUS
  <2>3. ~IsStrictPrefix(<<"static">>, url) /\ Len(url) \in Nat
    BY <2>1, NotStatic
  <2>4. url \notin {<<"healthz">>, <<"api", "components">>, <<"api", "findings">>,
                    <<"api", "streams">>, <<"api", "matrix">>, <<"api", "dryrun">>, <<"">>,
                    <<"dryrun">>, <<"ui", "manifest.json">>,
                    <<"ui", "fragment", "findings">>}
    BY <2>1
  <2>5. \A q \in ToSet(AppRoutes) :
            Matches(q, url) /\ Allows(q, "GET") => q = Exact("GET", <<"matrix">>, "matrix")
    BY <2>3, <2>4, AppRouteOf
  <2>6. Exact("GET", <<"matrix">>, "matrix") \in ToSet(AppRoutes)
    BY AppRoutesAre
  <2>7. Route(AppRoutes, "GET", url) = "matrix"
    BY <2>1, <2>3, <2>5, <2>6, OneAnswers
  <2> QED BY <1>3, <2>1, <2>7
<1>4. CASE l = <<"GET", <<"dryrun">>, "dry run form">>
  <2>1. PICK url : url = <<"dryrun">>
    OBVIOUS
  <2>3. ~IsStrictPrefix(<<"static">>, url) /\ Len(url) \in Nat
    BY <2>1, NotStatic
  <2>4. url \notin {<<"healthz">>, <<"api", "components">>, <<"api", "findings">>,
                    <<"api", "streams">>, <<"api", "matrix">>, <<"api", "dryrun">>, <<"">>,
                    <<"matrix">>, <<"ui", "manifest.json">>,
                    <<"ui", "fragment", "findings">>}
    BY <2>1
  <2>5. \A q \in ToSet(AppRoutes) :
            Matches(q, url) /\ Allows(q, "GET") =>
                q = Exact("GET", <<"dryrun">>, "dry run form")
    BY <2>3, <2>4, AppRouteOf
  <2>6. Exact("GET", <<"dryrun">>, "dry run form") \in ToSet(AppRoutes)
    BY AppRoutesAre
  <2>7. Route(AppRoutes, "GET", url) = "dry run form"
    BY <2>1, <2>3, <2>5, <2>6, OneAnswers
  <2> QED BY <1>4, <2>1, <2>7
<1>5. CASE l = <<"POST", <<"dryrun">>, "dry run">>
  <2>1. PICK url : url = <<"dryrun">>
    OBVIOUS
  <2>3. ~IsStrictPrefix(<<"static">>, url) /\ Len(url) \in Nat
    BY <2>1, NotStatic
  <2>4. url \notin {<<"healthz">>, <<"api", "components">>, <<"api", "findings">>,
                    <<"api", "streams">>, <<"api", "matrix">>, <<"api", "dryrun">>, <<"">>,
                    <<"matrix">>, <<"ui", "manifest.json">>,
                    <<"ui", "fragment", "findings">>}
    BY <2>1
  <2>5. \A q \in ToSet(AppRoutes) :
            Matches(q, url) /\ Allows(q, "POST") => q = Exact("POST", <<"dryrun">>, "dry run")
    BY <2>3, <2>4, AppRouteOf
  <2>6. Exact("POST", <<"dryrun">>, "dry run") \in ToSet(AppRoutes)
    BY AppRoutesAre
  <2>7. Route(AppRoutes, "POST", url) = "dry run"
    BY <2>1, <2>3, <2>5, <2>6, OneAnswers
  <2> QED BY <1>5, <2>1, <2>7
<1>6. CASE l = <<"GET", <<"ui", "manifest.json">>, "manifest">>
  <2>1. PICK url : url = <<"ui", "manifest.json">>
    OBVIOUS
  <2>3. ~IsStrictPrefix(<<"static">>, url) /\ Len(url) \in Nat
    BY <2>1, NotStatic
  <2>4. url \notin {<<"healthz">>, <<"api", "components">>, <<"api", "findings">>,
                    <<"api", "streams">>, <<"api", "matrix">>, <<"api", "dryrun">>, <<"">>,
                    <<"matrix">>, <<"dryrun">>, <<"ui", "fragment", "findings">>}
    BY <2>1
  <2>5. \A q \in ToSet(AppRoutes) :
            Matches(q, url) /\ Allows(q, "GET") =>
                q = Exact("GET", <<"ui", "manifest.json">>, "manifest")
    BY <2>3, <2>4, AppRouteOf
  <2>6. Exact("GET", <<"ui", "manifest.json">>, "manifest") \in ToSet(AppRoutes)
    BY AppRoutesAre
  <2>7. Route(AppRoutes, "GET", url) = "manifest"
    BY <2>1, <2>3, <2>5, <2>6, OneAnswers
  <2> QED BY <1>6, <2>1, <2>7
<1>7. CASE l = <<"GET", <<"ui", "fragment", "findings">>, "fragment">>
  <2>1. PICK url : url = <<"ui", "fragment", "findings">>
    OBVIOUS
  <2>3. ~IsStrictPrefix(<<"static">>, url) /\ Len(url) \in Nat
    BY <2>1, NotStatic
  <2>4. url \notin {<<"healthz">>, <<"api", "components">>, <<"api", "findings">>,
                    <<"api", "streams">>, <<"api", "matrix">>, <<"api", "dryrun">>, <<"">>,
                    <<"matrix">>, <<"dryrun">>, <<"ui", "manifest.json">>}
    BY <2>1
  <2>5. \A q \in ToSet(AppRoutes) :
            Matches(q, url) /\ Allows(q, "GET") =>
                q = Exact("GET", <<"ui", "fragment", "findings">>, "fragment")
    BY <2>3, <2>4, AppRouteOf
  <2>6. Exact("GET", <<"ui", "fragment", "findings">>, "fragment") \in ToSet(AppRoutes)
    BY AppRoutesAre
  <2>7. Route(AppRoutes, "GET", url) = "fragment"
    BY <2>1, <2>3, <2>5, <2>6, OneAnswers
  <2> QED BY <1>7, <2>1, <2>7
<1>8. CASE l = <<"GET", <<"static", "viewer.css">>, "static">>
  <2>1. PICK url, b, p : /\ url = <<"static", "viewer.css">> /\ b = <<"static">>
                         /\ p = Subtree("GET", b, "static")
    OBVIOUS
  <2>2. Len(b) \in Nat /\ Len(b) <= Len(url) /\ SubSeq(b, 1, Len(b)) = SubSeq(url, 1, Len(b))
        /\ b # url
    BY <2>1
  <2>3. IsStrictPrefix(b, url)
    BY <2>2 DEF IsStrictPrefix, IsPrefix
  <2>4. p \in ToSet(AppRoutes)
    BY <2>1, AppRoutesAre
  <2>5. p.path = b /\ p.to = "static" /\ Matches(p, url) /\ Allows(p, "GET")
    BY <2>1, <2>3 DEF Subtree, Matches, Allows
  <2>6. url \notin {<<"healthz">>, <<"api", "components">>, <<"api", "findings">>,
                    <<"api", "streams">>, <<"api", "matrix">>, <<"api", "dryrun">>, <<"">>,
                    <<"matrix">>, <<"dryrun">>, <<"ui", "manifest.json">>,
                    <<"ui", "fragment", "findings">>}
    BY <2>1
  <2>7. \A q \in ToSet(AppRoutes) : Matches(q, url) /\ Allows(q, "GET") => q = p
    BY <2>1, <2>6, AppRouteOf
  <2>8. Route(AppRoutes, "GET", url) = "static"
    BY <2>2, <2>4, <2>5, <2>7, RouteIs
  <2> QED BY <1>8, <2>1, <2>8
<1> QED BY <1>2, <1>3, <1>4, <1>5, <1>6, <1>7, <1>8 DEF Links

\* The same for the shorter ones that Mount makes.
LEMMA One == ASSUME NEW a, NEW s, s = <<a>> PROVE ToSet(s) = {a} /\ s \in Seq({a})
  BY DEF ToSet
LEMMA Two == ASSUME NEW a, NEW b, NEW s, s = <<a, b>> PROVE ToSet(s) = {a, b}
  BY DEF ToSet
LEMMA TwoSequence ==
    ASSUME NEW a, NEW b, NEW s, s = <<a, b>>
    PROVE  s \in Seq({a, b}) /\ Len(s) = 2 /\ s[1] = a /\ s[2] = b
  OBVIOUS
LEMMA Three == ASSUME NEW a, NEW b, NEW c, NEW s, s = <<a, b, c>> PROVE ToSet(s) = {a, b, c}
  BY DEF ToSet
LEMMA ThreeSequence ==
    ASSUME NEW a, NEW b, NEW c, NEW s, s = <<a, b, c>>
    PROVE  s \in Seq({a, b, c}) /\ Len(s) = 3 /\ s[2] = b
  OBVIOUS

\* The patterns that Mount registers, one by one.
LEMMA MountAre ==
    ASSUME NEW base
    PROVE  /\ base = <<>> =>
                ToSet(Mount(base)) = {Exact("", <<"health">>, "health"),
                                      Exact("", <<"healthz">>, "health"), Subtree("", base, "app")}
           /\ base # <<>> =>
                /\ ToSet(Mount(base)) =
                     {Exact("", <<"health">>, "health"), Exact("", <<"healthz">>, "health"),
                      Subtree("", base, "app"), Exact("", base, "to UI"),
                      Exact("", <<"">>, "to UI")}
                /\ DOMAIN Mount(base) = 1 .. 5
                /\ Mount(base)[1] = Exact("", <<"health">>, "health")
                /\ Mount(base)[2] = Exact("", <<"healthz">>, "health")
                /\ Mount(base)[4] = Exact("", base, "to UI")
<1>1. PICK a, b, c, d, e, s, t, u :
        /\ a = Exact("", <<"health">>, "health") /\ b = Exact("", <<"healthz">>, "health")
        /\ c = Subtree("", base, "app") /\ d = Exact("", base, "to UI")
        /\ e = Exact("", <<"">>, "to UI") /\ s = <<a, b>> /\ t = <<c>> /\ u = <<c, d, e>>
  OBVIOUS
<1>2. /\ base = <<>> => Mount(base) = s \o t
      /\ base # <<>> => Mount(base) = s \o u
  BY <1>1, Zenon DEF Mount
<1>3. /\ ToSet(s) = {a, b} /\ s \in Seq({a, b}) /\ Len(s) = 2 /\ s[1] = a /\ s[2] = b
      /\ ToSet(t) = {c} /\ t \in Seq({c})
      /\ ToSet(u) = {c, d, e} /\ u \in Seq({c, d, e}) /\ Len(u) = 3 /\ u[2] = d
  <2>1. s = <<a, b>> /\ t = <<c>> /\ u = <<c, d, e>>
    BY <1>1
  <2>2. ToSet(s) = {a, b}
    BY <2>1, Two
  <2>3. s \in Seq({a, b}) /\ Len(s) = 2 /\ s[1] = a /\ s[2] = b
    BY <2>1, TwoSequence
  <2>4. ToSet(t) = {c} /\ t \in Seq({c})
    BY <2>1, One
  <2>5. ToSet(u) = {c, d, e}
    BY <2>1, Three
  <2>6. u \in Seq({c, d, e}) /\ Len(u) = 3 /\ u[2] = d
    BY <2>1, ThreeSequence
  <2> QED BY <2>2, <2>3, <2>4, <2>5, <2>6
<1>4. PICK S : S = {a, b, c, d, e}
  OBVIOUS
<1>5. s \in Seq(S) /\ t \in Seq(S) /\ u \in Seq(S)
  <2>1. {a, b} \subseteq S /\ {c} \subseteq S /\ {c, d, e} \subseteq S
    BY <1>4
  <2>2. \A T : T \subseteq S => Seq(T) \subseteq Seq(S)
    BY SeqMonotonic
  <2> QED BY <1>3, <2>1, <2>2, Zenon
<1>6. ToSet(s \o t) = ToSet(s) \cup ToSet(t) /\ ToSet(s \o u) = ToSet(s) \cup ToSet(u)
  BY <1>5, ElementsOfConcat
<1>7. ToSet(s \o t) = {a, b, c} /\ ToSet(s \o u) = {a, b, c, d, e}
  BY <1>3, <1>6
<1>8. s \o u \in Seq(S) /\ Len(s \o u) = 5
  <2>1. s \o u \in Seq(S) /\ Len(s \o u) = Len(s) + Len(u)
    BY <1>5, ConcatProperties
  <2> QED BY <1>3, <2>1
<1>9. DOMAIN (s \o u) = 1 .. 5
  BY <1>8, LenProperties
<1>10. (s \o u)[1] = a /\ (s \o u)[2] = b /\ (s \o u)[4] = d
  <2>1. \A i \in 1 .. Len(s) + Len(u) :
          (s \o u)[i] = IF i <= Len(s) THEN s[i] ELSE u[i - Len(s)]
    BY <1>5, ConcatProperties
  <2>2. Len(s) = 2 /\ Len(u) = 3
    BY <1>3
  <2>3. (s \o u)[1] = s[1] /\ (s \o u)[2] = s[2] /\ (s \o u)[4] = u[4 - Len(s)]
    BY <2>1, <2>2
  <2>4. 4 - Len(s) = 2
    BY <2>2
  <2> QED BY <1>3, <2>3, <2>4, Zenon
<1> QED BY <1>1, <1>2, <1>7, <1>9, <1>10, Zenon

\* A base path that Mount takes is not the path of the health check.
LEMMA NotHealth ==
    ASSUME NEW base, Registrable(Mount(base))
    PROVE  base # <<"health">> /\ base # <<"healthz">>
<1>1. ASSUME base # <<>>, NEW n \in {1, 2}, Mount(base)[n] = Exact("", base, "health")
      PROVE  FALSE
  <2>1. Mount(base)[4] = Exact("", base, "to UI")
    BY <1>1, MountAre
  <2>2. LET p == Exact("", base, "health")  q == Exact("", base, "to UI")
        IN  <<p.method, p.path, p.subtree>> = <<q.method, q.path, q.subtree>>
    BY DEF Exact
  <2>3. n \in DOMAIN Mount(base) /\ 4 \in DOMAIN Mount(base) /\ n # 4
    <3>1. DOMAIN Mount(base) = 1 .. 5
      BY <1>1, MountAre
    <3>2. n \in 1 .. 5 /\ 4 \in 1 .. 5 /\ n # 4
      OBVIOUS
    <3> QED BY <3>1, <3>2, Zenon
  <2> QED BY <1>1, <2>1, <2>2, <2>3, Zenon DEF Registrable
<1>2. <<"health">> # <<>> /\ <<"healthz">> # <<>>
  OBVIOUS
<1>3. CASE base = <<"health">>
  <2>1. base # <<>> /\ Mount(base)[1] = Exact("", base, "health")
    BY <1>2, <1>3, MountAre, Zenon
  <2> QED BY <1>1, <2>1
<1>4. CASE base = <<"healthz">>
  <2>1. base # <<>> /\ Mount(base)[2] = Exact("", base, "health")
    BY <1>2, <1>4, MountAre, Zenon
  <2> QED BY <1>1, <2>1
<1> QED BY <1>3, <1>4

\* A path of one segment.
LEMMA Single == ASSUME NEW a, NEW s, s = <<a>> PROVE Len(s) = 1 /\ s[1] = a /\ s # <<>>
  OBVIOUS

\* What matches of the patterns that Mount registers.
LEMMA MountRouteOf ==
    ASSUME NEW base, NEW url, NEW q \in ToSet(Mount(base)), Matches(q, url)
    PROVE  \/ q = Exact("", <<"health">>, "health") /\ url = <<"health">>
           \/ q = Exact("", <<"healthz">>, "health") /\ url = <<"healthz">>
           \/ q = Subtree("", base, "app") /\ IsStrictPrefix(base, url)
           \/ q = Exact("", base, "to UI") /\ url = base /\ base # <<>>
           \/ q = Exact("", <<"">>, "to UI") /\ url = <<"">> /\ base # <<>>
<1>1. ASSUME NEW path, NEW to, q = Exact("", path, to) PROVE path = url
  BY <1>1, PatternIs
<1>2. CASE q = Exact("", <<"health">>, "health")
  BY <1>1, <1>2
<1>3. CASE q = Exact("", <<"healthz">>, "health")
  BY <1>1, <1>3
<1>4. CASE q = Subtree("", base, "app")
  BY <1>4, PatternIs
<1>5. CASE base # <<>> /\ q = Exact("", base, "to UI")
  BY <1>1, <1>5
<1>6. CASE base # <<>> /\ q = Exact("", <<"">>, "to UI")
  BY <1>1, <1>6
<1>7. CASE base = <<>>
  BY <1>2, <1>3, <1>4, <1>7, MountAre
<1>8. CASE base # <<>>
  BY <1>2, <1>3, <1>4, <1>5, <1>6, <1>8, MountAre
<1> QED BY <1>7, <1>8

\* A path below the base path reaches the app, which sees it without the base path.
LEMMA AppReached ==
    ASSUME NEW S, NEW base \in Seq(S), NEW path \in Seq(S), path # <<>>, NEW m,
           base = <<>> => path \notin {<<"health">>, <<"healthz">>}
    PROVE  Dispatch(base, m, base \o path) = Route(AppRoutes, m, path)
<1>1. Len(base) \in Nat /\ Len(path) \in Nat /\ Len(path) # 0 /\ (base # <<>> => Len(base) # 0)
  BY LenProperties, EmptySeq
<1>2. PICK url : url = base \o path
  OBVIOUS
<1>3. IsStrictPrefix(base, url) /\ Len(url) = Len(base) + Len(path) /\ (base = <<>> => url = path)
  BY <1>2, StrictPrefixes, ConcatProperties, ConcatEmptySeq
<1>4. url # base /\ (base # <<>> => Len(url) > 1)
  BY <1>1, <1>3
<1>5. url \notin {<<"health">>, <<"healthz">>} /\ (base # <<>> => url # <<"">>)
  <2>1. ASSUME NEW a, Len(url) > 1 PROVE url # <<a>>
    <3>1. ~(1 > 1)
      OBVIOUS
    <3> QED BY <2>1, <3>1, Single, Zenon
  <2> QED BY <1>3, <1>4, <2>1, Zenon
<1>6. \A q \in ToSet(Mount(base)) : Matches(q, url) => q = Subtree("", base, "app")
  BY <1>4, <1>5, MountRouteOf, Zenon
<1>7. PICK p : p = Subtree("", base, "app")
  OBVIOUS
<1>8. p.path = base /\ p.to = "app" /\ Matches(p, url) /\ Allows(p, m)
  BY <1>3, <1>7 DEF Subtree, Matches, Allows
<1>9. p \in ToSet(Mount(base))
  BY <1>7, MountAre, Zenon
<1>10. Route(Mount(base), m, url) = "app"
  <2>1. \A q \in ToSet(Mount(base)) : Matches(q, url) => q = p
    BY <1>6, <1>7, Zenon
  <2>2. Len(p.path) \in Nat
    BY <1>1, <1>8, Zenon
  <2> QED BY <1>8, <1>9, <2>1, <2>2, RouteIs
<1>11. Stripped(base, url) = path
  <2>1. SubSeq(base \o path, Len(base) + 1, Len(base) + Len(path)) = SubSeq(path, 1, Len(path))
    <3>1. /\ Len(base) + 1 \in Len(base) + 1 .. Len(base) + Len(path)
          /\ Len(base) + Len(path) \in Len(base) + 1 .. Len(base) + Len(path)
          /\ Len(base) + 1 - Len(base) = 1 /\ Len(base) + Len(path) - Len(base) = Len(path)
      BY <1>1
    <3> QED BY <3>1, SubSeqOfConcat2
  <2>2. SubSeq(path, 1, Len(path)) = path
    BY SubSeqFull
  <2> QED BY <1>2, <1>3, <2>1, <2>2, Zenon DEF Stripped
<1> QED BY <1>2, <1>10, <1>11 DEF Dispatch

\* What Mount registers at the root: the health check, and the redirect of / to the pages.
LEMMA AtRoot ==
    ASSUME NEW S, NEW base \in Seq(S), NEW m
    PROVE  "" \notin S /\ Registrable(Mount(base)) =>
             /\ Dispatch(base, m, <<"health">>) = "health"
             /\ Dispatch(base, m, <<"healthz">>) = "health"
             /\ base # <<>> => Dispatch(base, m, <<"">>) = "to UI"
<1>1. ASSUME "" \notin S, Registrable(Mount(base))
      PROVE  base # <<"health">> /\ base # <<"healthz">> /\ base # <<"">>
  <2>1. ASSUME base = <<"">> PROVE FALSE
    <3>1. Len(base) = 1 /\ base[1] = ""
      BY <2>1, Single
    <3>4. Len(base) = 1
      BY <3>1
    <3>2. 1 \in 1 .. Len(base)
      BY <3>4
    <3>3. base[1] \in S
      BY <3>2, ElementOfSeq
    <3> QED BY <1>1, <3>1, <3>3, Zenon
  <2> QED BY <1>1, <2>1, NotHealth
<1>2. Len(base) \in Nat /\ (base # <<>> => Len(base) # 0)
  BY LenProperties, EmptySeq
<1>3. ASSUME NEW a, base # <<>>, IsStrictPrefix(base, <<a>>) PROVE FALSE
  <2>1. PICK T, u : T = S \cup {a} /\ u = <<a>>
    OBVIOUS
  <2>2. u \in Seq(T) /\ Len(u) = 1
    BY <2>1
  <2>3. base \in Seq(T)
    <3>1. S \subseteq T
      BY <2>1
    <3> QED BY <3>1, SeqMonotonic
  <2>4. IsStrictPrefix(base, u)
    BY <1>3, <2>1, Zenon
  <2>5. Len(base) < Len(u)
    BY <2>2, <2>3, <2>4, StrictPrefixes
  <2>6. Len(base) # 0
    BY <1>2, <1>3
  <2> QED BY <1>2, <2>2, <2>5, <2>6
<1>4. ASSUME NEW a, NEW to, Exact("", <<a>>, to) \in ToSet(Mount(base)),
             \A q \in ToSet(Mount(base)) : Matches(q, <<a>>) =>
                 q = Exact("", <<a>>, to) \/ (base = <<>> /\ q = Subtree("", base, "app"))
      PROVE  Route(Mount(base), m, <<a>>) = to
  <2>1. PICK url, p : url = <<a>> /\ p = Exact("", url, to)
    OBVIOUS
  <2>2. Len(url) = 1
    BY <2>1, Single
  <2>3. p.path = url /\ p.to = to /\ Matches(p, url) /\ Allows(p, m)
    BY <2>1 DEF Exact, Matches, Allows
  <2>4. ASSUME NEW q, base = <<>>, q = Subtree("", base, "app")
        PROVE  Len(q.path) \in Nat /\ Len(q.path) < 1
    <3>1. q.path = base
      BY <2>4 DEF Subtree
    <3>2. Len(base) = 0
      BY <2>4
    <3> QED BY <3>1, <3>2
  <2>5. \A q \in ToSet(Mount(base)) : Matches(q, url) =>
            q = p \/ (Len(q.path) \in Nat /\ Len(q.path) < Len(p.path))
    <3> SUFFICES ASSUME NEW q \in ToSet(Mount(base)), Matches(q, url), q # p
                 PROVE  Len(q.path) \in Nat /\ Len(q.path) < Len(p.path)
      OBVIOUS
    <3>1. base = <<>> /\ q = Subtree("", base, "app")
      BY <1>4, <2>1, Zenon
    <3>2. Len(p.path) = 1
      BY <2>2, <2>3, Zenon
    <3> QED BY <2>4, <3>1, <3>2
  <2>6. p \in ToSet(Mount(base)) /\ Len(p.path) \in Nat
    <3>1. Len(p.path) = 1
      BY <2>2, <2>3, Zenon
    <3>2. p \in ToSet(Mount(base))
      BY <1>4, <2>1, Zenon
    <3> QED BY <3>1, <3>2
  <2>7. Route(Mount(base), m, url) = to
    BY <2>3, <2>5, <2>6, RouteIs
  <2> QED BY <2>1, <2>7
<1>5. ASSUME NEW a, NEW to, Exact("", <<a>>, to) \in ToSet(Mount(base)), to # "app",
             \A q \in ToSet(Mount(base)) : Matches(q, <<a>>) =>
                 q = Exact("", <<a>>, to) \/ (base = <<>> /\ q = Subtree("", base, "app"))
      PROVE  Dispatch(base, m, <<a>>) = to
  BY <1>4, <1>5 DEF Dispatch
<1>6. <<"health">> # <<"healthz">> /\ <<"health">> # <<"">> /\ <<"healthz">> # <<"">>
  OBVIOUS
<1>7. ASSUME "" \notin S, Registrable(Mount(base)), NEW a
      PROVE  \A q \in ToSet(Mount(base)) : Matches(q, <<a>>) =>
                \/ <<a>> = <<"health">> /\ q = Exact("", <<"health">>, "health")
                \/ <<a>> = <<"healthz">> /\ q = Exact("", <<"healthz">>, "health")
                \/ base = <<>> /\ q = Subtree("", base, "app")
                \/ <<a>> = <<"">> /\ q = Exact("", <<"">>, "to UI")
                \/ base = <<a>>
  BY <1>3, MountRouteOf, Zenon
<1>8. ASSUME "" \notin S, Registrable(Mount(base))
      PROVE  Dispatch(base, m, <<"health">>) = "health"
  <2>1. Exact("", <<"health">>, "health") \in ToSet(Mount(base))
    BY MountAre
  <2>2. \A q \in ToSet(Mount(base)) : Matches(q, <<"health">>) =>
          q = Exact("", <<"health">>, "health") \/ (base = <<>> /\ q = Subtree("", base, "app"))
    BY <1>1, <1>6, <1>7, <1>8, Zenon
  <2> QED BY <1>5, <2>1, <2>2
<1>9. ASSUME "" \notin S, Registrable(Mount(base))
      PROVE  Dispatch(base, m, <<"healthz">>) = "health"
  <2>1. Exact("", <<"healthz">>, "health") \in ToSet(Mount(base))
    BY MountAre
  <2>2. \A q \in ToSet(Mount(base)) : Matches(q, <<"healthz">>) =>
          q = Exact("", <<"healthz">>, "health") \/ (base = <<>> /\ q = Subtree("", base, "app"))
    BY <1>1, <1>6, <1>7, <1>9, Zenon
  <2> QED BY <1>5, <2>1, <2>2
<1>10. ASSUME "" \notin S, Registrable(Mount(base)), base # <<>>
       PROVE  Dispatch(base, m, <<"">>) = "to UI"
  <2>1. Exact("", <<"">>, "to UI") \in ToSet(Mount(base))
    BY <1>10, MountAre
  <2>2. \A q \in ToSet(Mount(base)) : Matches(q, <<"">>) =>
          q = Exact("", <<"">>, "to UI") \/ (base = <<>> /\ q = Subtree("", base, "app"))
    BY <1>1, <1>6, <1>7, <1>10, Zenon
  <2> QED BY <1>5, <2>1, <2>2
<1> QED BY <1>8, <1>9, <1>10

\* A path of up to three segments is a sequence.
LEMMA ShortPath ==
    ASSUME NEW a, NEW b, NEW c, NEW s, s = <<a>> \/ s = <<a, b>> \/ s = <<a, b, c>>
    PROVE  (\E T : s \in Seq(T)) /\ s # <<>>
<1>1. PICK T : T = {a, b, c}
  OBVIOUS
<1>2. CASE s = <<a>>
  BY <1>1, <1>2
<1>3. CASE s = <<a, b>>
  BY <1>1, <1>3
<1>4. CASE s = <<a, b, c>>
  BY <1>1, <1>4
<1> QED BY <1>2, <1>3, <1>4

\* No link of the pages is the path of the health check.
LEMMA LinkPaths ==
    ASSUME NEW l \in Links
    PROVE  /\ \E T : l[2] \in Seq(T)
           /\ l[2] # <<>> /\ l[2] \notin {<<"health">>, <<"healthz">>}
<1>1. PICK s : s = l[2]
  OBVIOUS
<1>2. CASE l = <<"GET", <<"">>, "overview">>
  <2>1. s = <<"">>
    BY <1>1, <1>2
  <2>2. s # <<"health">> /\ s # <<"healthz">>
    BY <2>1
  <2>3. (\E T : s \in Seq(T)) /\ s # <<>>
    BY <2>1, ShortPath
  <2> QED BY <1>1, <2>2, <2>3
<1>3. CASE l = <<"GET", <<"matrix">>, "matrix">>
  <2>1. s = <<"matrix">>
    BY <1>1, <1>3
  <2>2. s # <<"health">> /\ s # <<"healthz">>
    BY <2>1
  <2>3. (\E T : s \in Seq(T)) /\ s # <<>>
    BY <2>1, ShortPath
  <2> QED BY <1>1, <2>2, <2>3
<1>4. CASE l = <<"GET", <<"dryrun">>, "dry run form">>
  <2>1. s = <<"dryrun">>
    BY <1>1, <1>4
  <2>2. s # <<"health">> /\ s # <<"healthz">>
    BY <2>1
  <2>3. (\E T : s \in Seq(T)) /\ s # <<>>
    BY <2>1, ShortPath
  <2> QED BY <1>1, <2>2, <2>3
<1>5. CASE l = <<"POST", <<"dryrun">>, "dry run">>
  <2>1. s = <<"dryrun">>
    BY <1>1, <1>5
  <2>2. s # <<"health">> /\ s # <<"healthz">>
    BY <2>1
  <2>3. (\E T : s \in Seq(T)) /\ s # <<>>
    BY <2>1, ShortPath
  <2> QED BY <1>1, <2>2, <2>3
<1>6. CASE l = <<"GET", <<"static", "viewer.css">>, "static">>
  <2>1. s = <<"static", "viewer.css">>
    BY <1>1, <1>6
  <2>2. s # <<"health">> /\ s # <<"healthz">>
    BY <2>1
  <2>3. (\E T : s \in Seq(T)) /\ s # <<>>
    BY <2>1, ShortPath
  <2> QED BY <1>1, <2>2, <2>3
<1>7. CASE l = <<"GET", <<"ui", "manifest.json">>, "manifest">>
  <2>1. s = <<"ui", "manifest.json">>
    BY <1>1, <1>7
  <2>2. s # <<"health">> /\ s # <<"healthz">>
    BY <2>1
  <2>3. (\E T : s \in Seq(T)) /\ s # <<>>
    BY <2>1, ShortPath
  <2> QED BY <1>1, <2>2, <2>3
<1>8. CASE l = <<"GET", <<"ui", "fragment", "findings">>, "fragment">>
  <2>1. s = <<"ui", "fragment", "findings">>
    BY <1>1, <1>8
  <2>2. s # <<"health">> /\ s # <<"healthz">>
    BY <2>1
  <2>3. (\E T : s \in Seq(T)) /\ s # <<>>
    BY <2>1, ShortPath
  <2> QED BY <1>1, <2>2, <2>3
<1> QED BY <1>2, <1>3, <1>4, <1>5, <1>6, <1>7, <1>8 DEF Links

\* Every link leads to its handler, / to the overview, and the probes find the health
\* check, whatever base path is mounted.
LEMMA Leads ==
    ASSUME NEW S, NEW base \in Seq(S)
    PROVE  "" \notin S /\ Registrable(Mount(base)) =>
             /\ \A l \in Links : Dispatch(base, l[1], LinkTo(base, l[2])) = l[3]
             /\ Arrives(base, "GET", <<"">>) = "overview"
             /\ \A path \in {"health", "healthz"} : Dispatch(base, "GET", <<path>>) = "health"
<1>1. ASSUME NEW l \in Links PROVE Dispatch(base, l[1], base \o l[2]) = l[3]
  <2>1. PICK T : l[2] \in Seq(T)
    BY LinkPaths
  <2>2. PICK U : U = S \cup T
    OBVIOUS
  <2>3. base \in Seq(U) /\ l[2] \in Seq(U)
    <3>1. S \subseteq U /\ T \subseteq U
      BY <2>2
    <3> QED BY <2>1, <3>1, SeqMonotonic
  <2>4. PICK path : path = l[2]
    OBVIOUS
  <2>5. Dispatch(base, l[1], base \o path) = Route(AppRoutes, l[1], path)
    <3>1. path # <<>> /\ path \notin {<<"health">>, <<"healthz">>}
      BY <2>4, LinkPaths
    <3> QED BY <2>3, <2>4, <3>1, AppReached
  <2> QED BY <2>4, <2>5, LinkRoutes
<1>2. <<"GET", <<"">>, "overview">> \in Links
  BY DEF Links
<1>3. Dispatch(base, "GET", base \o <<"">>) = "overview"
  <2>1. PICK l : l = <<"GET", <<"">>, "overview">>
    OBVIOUS
  <2>2. l[1] = "GET" /\ l[2] = <<"">> /\ l[3] = "overview"
    BY <2>1
  <2>3. Dispatch(base, l[1], base \o l[2]) = l[3]
    BY <1>1, <1>2, <2>1, Zenon
  <2> QED BY <2>2, <2>3, Zenon
<1>4. ASSUME "" \notin S, Registrable(Mount(base))
      PROVE  Arrives(base, "GET", <<"">>) = "overview"
  <2>1. CASE base = <<>>
    <3>1. base \o <<"">> = <<"">>
      BY <2>1
    <3>2. Dispatch(base, "GET", <<"">>) = "overview"
      BY <1>3, <3>1, Zenon
    <3> QED BY <3>2 DEF Arrives
  <2>2. CASE base # <<>>
    <3>1. Dispatch(base, "GET", <<"">>) = "to UI"
      BY <1>4, <2>2, AtRoot, Zenon
    <3>2. Append(base, "") = base \o <<"">>
      <4>1. PICK U, x : U = S \cup {x} /\ x = ""
        OBVIOUS
      <4>2. base \in Seq(U) /\ x \in U
        <5>1. S \subseteq U
          BY <4>1
        <5> QED BY <4>1, <5>1, SeqMonotonic
      <4>3. Append(base, x) = base \o <<x>>
        BY <4>2, AppendIsConcat
      <4> QED BY <4>1, <4>3, Zenon
    <3> QED BY <1>3, <3>1, <3>2, Zenon DEF Arrives
  <2> QED BY <2>1, <2>2
<1>5. ASSUME "" \notin S, Registrable(Mount(base)), NEW path \in {"health", "healthz"}
      PROVE  Dispatch(base, "GET", <<path>>) = "health"
  BY <1>5, AtRoot, Zenon
<1> QED BY <1>1, <1>4, <1>5 DEF LinkTo

\* A process that its environment stops keeps that environment and what it read of it; one
\* that serves has a base path that Mount takes.
StartInv ==
    /\ pc = "start" => failure = "" /\ env \in Environments
    /\ failure = "config" => pc = "exited" /\ env \in Environments /\ cfg = LoadFrom(env)
    /\ pc \notin {"start", "exited"} =>
         cfg.basePath \in Seq(PlainSegments) /\ Registrable(Mount(cfg.basePath))

\* The main goroutine does not come back to the start, nor from its end.
LEMMA PcSteps ==
    ASSUME [ServiceNext]_serviceVars
    PROVE  /\ pc' = "start" => pc = "start"
           /\ pc = "exited" => pc' = "exited"
<1>1. CASE pc' = pc
  BY <1>1
<1>2. CASE Next /\ pc' # pc
  BY <1>2 DEF Next, Start, StartFails, SelectServeErr, SelectDone, ShutdownReturns,
         ShutdownExpires, ShutdownErr, Await, Exit, Signal, Tick, ServeReturns, Accept, Request,
         Respond, Moves, Exited, vars
<1> QED BY <1>1, <1>2, ServerStep DEF vars

\* StartInv is inductive.
LEMMA StartInductive == StartInv /\ [ServiceNext]_serviceVars => StartInv'
<1> SUFFICES ASSUME StartInv, [ServiceNext]_serviceVars PROVE StartInv'
  OBVIOUS
<1>1. CASE ComesUp
  <2>1. pc = "start" /\ pc' = "select" /\ failure' = failure /\ cfg' = LoadFrom(env)
        /\ Registrable(Mount(LoadFrom(env).basePath))
    BY <1>1 DEF ComesUp, Start
  <2>2. env \in Environments /\ failure' # "config"
    BY <2>1 DEF StartInv
  <2>3. LoadFrom(env).basePath \in Seq(PlainSegments)
    BY <2>2, AcceptedPath
  <2> QED BY <2>1, <2>2, <2>3 DEF StartInv
<1>2. CASE DoesNotComeUp
  <2>1. pc = "start" /\ pc' = "exited" /\ env' = env /\ cfg' = LoadFrom(env)
    BY <1>2 DEF DoesNotComeUp, StartFails, Exit
  <2> QED BY <2>1 DEF StartInv
<1>3. CASE UNCHANGED startVars /\ (pc' # pc => pc # "start")
  <2>1. failure' = failure /\ env' = env /\ cfg' = cfg
    BY <1>3 DEF startVars
  <2> QED BY <1>3, <2>1, PcSteps DEF StartInv
<1>4. ASSUME UNCHANGED vars PROVE pc' = pc
  BY <1>4 DEF vars
<1>5. ASSUME NEW c \in Conns,
             RequestComes(c) \/ CallGet(c) \/ GetReturns(c) \/ Leave(c) \/ Handled(c)
      PROVE  UNCHANGED startVars /\ pc' = pc
  BY <1>4, <1>5 DEF RequestComes, CallGet, GetReturns, Leave, Handled, Request, Respond, Moves,
                    talkVars
<1>6. CASE RebuildEnds
  BY <1>3, <1>4, <1>6 DEF RebuildEnds
<1>7. CASE Beside
  <2>1. UNCHANGED startVars
    BY <1>7 DEF Beside
  <2>2. pc' # pc => pc # "start"
    BY <1>7 DEF Beside, SelectServeErr, SelectDone, ShutdownReturns, ShutdownExpires, Await,
           Signal, Tick, ServeReturns, Exited, Accept, Moves, vars
  <2> QED BY <1>3, <2>1, <2>2
<1>8. CASE UNCHANGED serviceVars
  BY <1>3, <1>4, <1>8 DEF serviceVars
<1> QED BY <1>1, <1>2, <1>3, <1>5, <1>6, <1>7, <1>8 DEF ServiceNext

\* Every state of the service has it.
LEMMA StartInvariance == ServiceSpec => []StartInv
<1>1. ServiceInit => StartInv
  BY DEF ServiceInit, Init, StartInv
<1> QED BY <1>1, StartInductive, PTL DEF ServiceSpec

\* A process that refuses its environment names each variable that it would refuse alone,
\* whatever the others are.
THEOREM AllReported == ServiceSpec => []ReportsAll
<1>1. ASSUME StartInv, failure = "config"
      PROVE  cfg.errs = UNION {LoadFrom(OneOf(env, v)).errs : v \in DOMAIN env}
  <2>1. \A e : LoadFrom(e).errs = Errs(e)
    BY DEF LoadFrom, Loaded
  <2>2. cfg = LoadFrom(env) /\ DOMAIN env = DOMAIN Defaults
    BY <1>1, EnvironmentAssumption DEF StartInv
  <2> QED BY <2>1, <2>2, ErrsAreEach
<1>2. StartInv => ReportsAll
  BY <1>1 DEF ReportsAll
<1> QED BY <1>2, StartInvariance, PTL

\* Every link of the pages and of the manifest leads to its handler, / leads to the
\* overview and the probes find the health check, for every base path that LoadFrom
\* accepts and Mount registers, of any number of segments.
THEOREM LinksFound == ServiceSpec => []LinksLead
<1>1. ASSUME StartInv, pc \notin {"start", "exited"}
      PROVE  /\ \A l \in Links :
                    Dispatch(cfg.basePath, l[1], LinkTo(cfg.basePath, l[2])) = l[3]
             /\ Arrives(cfg.basePath, "GET", <<"">>) = "overview"
             /\ \A path \in {"health", "healthz"} :
                    Dispatch(cfg.basePath, "GET", <<path>>) = "health"
  <2>1. cfg.basePath \in Seq(PlainSegments) /\ Registrable(Mount(cfg.basePath))
    BY <1>1 DEF StartInv
  <2> QED BY <2>1, ConfigAssumption, Leads, Zenon
<1>2. StartInv => LinksLead
  BY <1>1, Zenon DEF LinksLead
<1> QED BY <1>2, StartInvariance, PTL
=============================================================================
