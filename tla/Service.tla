------------------------------- MODULE Service -------------------------------
(***************************************************************************)
(* The whole process: main loads the configuration, newServers wires one   *)
(* snapshot cache into the JSON API (internal/api) and the pages           *)
(* (internal/web), Mount puts both under the base path beside the health   *)
(* check, and serve runs them.  HttpServer says how the process and its    *)
(* connections live and end, SnapshotPromise what the handlers may rely on *)
(* when they call Cache.Get, which SnapshotCache implements.               *)
(***************************************************************************)
EXTENDS HttpServer, Config, Routes

CONSTANTS
    Environments,   \* the environments that the process may start in
    Requests,       \* what each client asks for: method, path, fault, whether htmx asks
    Errors,         \* what reading the namespace can fail with
    NoErr,          \* nil
    Canceled,       \* the error of a request's context
    MaxRebuilds     \* bound: the rebuilds that succeed

\* What may be wrong with a request: "body", a body that is not what it should be; "too
\* large"; "parameter", a parameter that is missing or is not one of its values; and
\* "pitcher", the name of one that is not there.
Faults == {"body", "too large", "parameter", "pitcher"}

\* An error is not nil, nor is what a handler says when it cannot answer.
ASSUME ErrorAssumption ==
    NoErr \notin Errors \cup {Canceled} \cup Faults \cup {"not rendered"}

\* An environment has the variables that LoadFrom reads; a path is a sequence.
ASSUME EnvironmentAssumption ==
    \A e \in Environments :
        /\ DOMAIN e = DOMAIN Defaults
        /\ Get(e.BASE_PATH, <<"">>) \in Seq(STRING)

VARIABLES
    env,        \* the environment
    cfg,        \* the configuration, once loaded
    failure,    \* why the process did not come up: "config", "listen" or "panic"
    request,    \* what each connection asks for
    called,     \* the connections whose handlers have called Cache.Get
    response,   \* and what it was answered
    seen,       \* history: the snapshot the cache held when the request began
    gone,       \* the connections whose clients have left
    snap, failing, failures, asking, answer     \* the cache: SnapshotPromise

Cache == INSTANCE SnapshotPromise WITH Callers <- Conns

startVars == <<env, cfg, failure>>
talkVars == <<request, called, response, seen, gone>>
cacheVars == <<snap, failing, failures, asking, answer>>
serviceVars == <<vars, startVars, talkVars, cacheVars>>

Nobody == [to |-> "", method |-> "GET", fault |-> "none", htmx |-> FALSE]
NoResponse == [status |-> 0, result |-> 0, stale |-> NoErr, says |-> NoErr]

ServiceInit ==
    /\ Init
    /\ Cache!Init
    /\ env \in Environments
    /\ cfg = Loaded(Defaults, {})
    /\ failure = ""
    /\ request = [c \in Conns |-> Nobody]
    /\ called = {}
    /\ response = [c \in Conns |-> NoResponse]
    /\ seen = [c \in Conns |-> 0]
    /\ gone = {}

-----------------------------------------------------------------------------
(* main and run, up to serve. *)

ComesUp ==
    /\ Start
    /\ LoadFrom(env).errs = {}
    /\ Registrable(Mount(LoadFrom(env).basePath))
    /\ cfg' = LoadFrom(env)
    /\ env' = Defaults      \* nobody reads it again
    /\ UNCHANGED <<failure, talkVars, cacheVars>>

\* The configuration is invalid; the port is taken; ServeMux panics.
Refused == LoadFrom(env).errs # {} /\ failure' = "config"
NoListener == LoadFrom(env).errs = {} /\ failure' = "listen"
Conflict ==
    /\ LoadFrom(env).errs = {}
    /\ ~Registrable(Mount(LoadFrom(env).basePath))
    /\ failure' = "panic"

DoesNotComeUp ==
    /\ StartFails
    /\ Refused \/ NoListener \/ Conflict
    /\ cfg' = LoadFrom(env)
    /\ UNCHANGED <<env, talkVars, cacheVars>>

-----------------------------------------------------------------------------
(* A connection. *)

Page(r) == r.to \in {"overview", "matrix", "dry run form"}
Api(r) == r.to \in {"api", "api matrix", "api dry run"}

\* The API looks for all faults but the last before it calls Get, the dry run's page
\* for the first two before it looks at what Get returned.
RefusedFirst(r) ==
    \/ r.to = "api matrix" /\ r.fault = "parameter"
    \/ r.to = "api dry run" /\ r.fault \in Faults \ {"pitcher"}
    \/ r.to = "dry run" /\ r.fault \in {"body", "too large"}

\* What is wrong is found with the snapshot at hand.
RefusedAfter(r) ==
    \/ r.to = "api dry run" /\ r.fault = "pitcher"
    \/ r.to = "dry run" /\ r.fault \in {"parameter", "pitcher"}

\* Variant of NeedsSnapshot: the health check reads the namespace.
HealthReads(r) ==
    \/ Api(r) /\ ~RefusedFirst(r)
    \/ Page(r) \/ r.to \in {"dry run", "fragment", "health"}

\* The handler calls Get: a page always does, in newPage.
NeedsSnapshot(r) ==
    \/ Api(r) /\ ~RefusedFirst(r)
    \/ Page(r) \/ r.to \in {"dry run", "fragment"}

\* A request comes in, or its connection ends without one.
RequestComes(c) ==
    /\ Request(c)
    /\ IF conns'[c] = "active"
         THEN \E r \in Requests[c] :
                request' = [request EXCEPT ![c] =
                    [to |-> Dispatch(cfg.basePath, r.method, r.path),
                     method |-> r.method, fault |-> r.fault, htmx |-> r.htmx]]
         ELSE UNCHANGED request
    /\ seen' = [seen EXCEPT ![c] = snap]
    /\ UNCHANGED <<startVars, called, response, gone, cacheVars>>

\* The handler calls Get, which may answer at once.
CallGet(c) ==
    /\ pc # "exited" /\ conns[c] = "active"
    /\ NeedsSnapshot(request[c]) /\ c \notin called
    /\ Cache!Ask(c) \/ Cache!ReplyAtOnce(c)
    /\ called' = called \cup {c}
    /\ UNCHANGED <<vars, startVars, request, response, seen, gone>>

\* Variant of GetReturns: any request's context is every request's.
GetReturnsToAll(c) ==
    /\ pc # "exited" /\ conns[c] = "active"
    /\ Cache!Reply(c) \/ (gone # {} /\ Cache!Cancel(c))
    /\ UNCHANGED <<vars, startVars, talkVars>>

GetReturns(c) ==
    /\ pc # "exited" /\ conns[c] = "active"
    /\ Cache!Reply(c) \/ (c \in gone /\ Cache!Cancel(c))
    /\ UNCHANGED <<vars, startVars, talkVars>>

\* The client leaves, and the request's context ends.  A handler that does not wait
\* for the snapshot does not notice.
Leave(c) ==
    /\ pc # "exited" /\ c \in asking
    /\ gone' = gone \cup {c}
    /\ UNCHANGED <<vars, startVars, request, called, response, seen, cacheVars>>

-----------------------------------------------------------------------------
(* What the handlers answer. *)

\* No snapshot is asked of it.
Plain(status) == [NoResponse EXCEPT !.status = status]

\* From a snapshot; with its RefreshError, or without a place for it.
Shown(a) == [status |-> 200, result |-> a.result, stale |-> a.refresh, says |-> a.refresh]
ShownBare(a) == [Shown(a) EXCEPT !.says = NoErr]

Unavailable(status, a) == [NoResponse EXCEPT !.status = status, !.says = a.err]

\* The request is refused, and told what is wrong with it.
Bad(r) == [NoResponse EXCEPT !.status = IF r.fault = "too large" THEN 413 ELSE 400,
                             !.says = r.fault]

\* api.go
ApiAnswer(r, a) ==
    IF RefusedFirst(r) THEN Bad(r)
    ELSE IF a.err # NoErr THEN Unavailable(503, a)
    ELSE IF RefusedAfter(r) THEN Bad(r)
    ELSE Shown(a)

PageAnswer(a) == IF a.err # NoErr THEN Unavailable(503, a) ELSE Shown(a)

\* Variant of FragmentAnswer: no snapshot is answered like an empty one.
FragmentSilent(a) == ShownBare(a)

\* fragments.go: htmx swaps 2xx responses only.
FragmentAnswer(a) == IF a.err # NoErr THEN Unavailable(200, a) ELSE ShownBare(a)

\* web.go: dryRun.  A page has the banner, the partial for htmx has not.
DryRunPage(r, a) ==
    IF RefusedFirst(r) THEN Bad(r)
    ELSE IF a.err # NoErr THEN Unavailable(503, a)
    ELSE IF RefusedAfter(r) THEN Bad(r)
    ELSE IF r.htmx THEN ShownBare(a) ELSE Shown(a)

\* renderDryRun: whatever htmx asks for, it can swap in.
DryRunAnswer(r, a) ==
    IF r.htmx THEN [DryRunPage(r, a) EXCEPT !.status = 200] ELSE DryRunPage(r, a)

\* health.go
HealthAnswer(r) == Plain(IF r.method = "GET" THEN 200 ELSE 405)

Response(r, a) ==
    CASE Api(r) -> ApiAnswer(r, a)
      [] Page(r) -> PageAnswer(a)
      [] r.to = "dry run" -> DryRunAnswer(r, a)
      [] r.to = "fragment" -> FragmentAnswer(a)
      [] r.to = "health" -> HealthAnswer(r)
      [] r.to = "to UI" -> Plain(307)
      [] r.to = "404" -> Plain(404)
      [] r.to = "405" -> Plain(405)
      [] OTHER -> Plain(200)      \* manifest, static

\* The responses that are made by a template, which may fail.
Rendered(r) == Page(r) \/ r.to \in {"dry run", "fragment"}
NotRendered == [NoResponse EXCEPT !.status = 500, !.says = "not rendered"]

\* The handler returns.
Handled(c) ==
    LET r == request[c] IN
    /\ Respond(c)
    /\ NeedsSnapshot(r) => c \in called \ asking
    /\ \E answered \in {Response(r, answer[c])} \cup {x \in {NotRendered} : Rendered(r)} :
         response' = [response EXCEPT ![c] = answered]
    /\ UNCHANGED <<startVars, request, called, seen, gone, cacheVars>>

-----------------------------------------------------------------------------
\* A rebuild ends, after its last caller has left if need be.  That newServers has no
\* Kubernetes client, and every rebuild fails, is one of the cases.
RebuildEnds ==
    /\ pc # "exited" /\ called # {}
    /\ \/ snap < MaxRebuilds /\ snap' = snap + 1 /\ Cache!Succeed
       \/ Cache!Fail
    /\ UNCHANGED <<vars, startVars, talkVars>>

\* What the main goroutine, net/http and the clock do beside the handlers.
Beside ==
    /\ \/ SelectServeErr \/ SelectDone \/ ShutdownReturns \/ ShutdownExpires \/ Await
       \/ Signal \/ Tick \/ ServeReturns \/ Exited
       \/ \E c \in Conns : Accept(c)
    \* The end of the process is the end of its requests.
    /\ IF pc' = "exited"
         THEN /\ request' = [c \in Conns |-> Nobody] /\ response' = [c \in Conns |-> NoResponse]
              /\ seen' = [c \in Conns |-> 0] /\ called' = {} /\ gone' = {}
         ELSE UNCHANGED talkVars
    /\ UNCHANGED <<startVars, cacheVars>>

ServiceNext ==
    \/ ComesUp \/ DoesNotComeUp
    \/ \E c \in Conns : \/ RequestComes(c) \/ CallGet(c) \/ GetReturns(c) \/ Leave(c)
                        \/ Handled(c)
    \/ RebuildEnds
    \/ Beside

ServiceSpec == ServiceInit /\ [][ServiceNext]_serviceVars

\* The main goroutine, net/http and the clock run, and so does a handler that waits
\* for nothing.  Nothing is assumed of rebuilds and of clients.
ServiceFairness ==
    /\ WF_serviceVars(ComesUp \/ DoesNotComeUp)
    /\ WF_serviceVars((SelectServeErr \/ SelectDone \/ ShutdownReturns \/ ShutdownExpires
                       \/ Await \/ Tick) /\ UNCHANGED <<startVars, talkVars, cacheVars>>)
    /\ WF_serviceVars(pc \in {"shutdown", "await"} /\ ServeReturns
                      /\ UNCHANGED <<startVars, talkVars, cacheVars>>)
    /\ \A c \in Conns : WF_serviceVars(Handled(c))

ServiceFairSpec == ServiceSpec /\ ServiceFairness

-----------------------------------------------------------------------------
(* Properties, beside those of HttpServer. *)

Answered(c) == response[c].status # 0

\* htmx asks, and swaps in 2xx responses only (web.go:469-471, fragments.go:77-78).
SwappedIn(r) == r.to = "fragment" \/ (r.to = "dry run" /\ r.htmx)

\* config.go:72, "every invalid value is reported, not only the first": a process
\* that refuses its environment names each variable that it would refuse alone.
ReportsAll ==
    failure = "config" =>
        cfg.errs = UNION {LoadFrom(OneOf(env, v)).errs : v \in DOMAIN env}

\* Every link of the pages and of the manifest leads to the handler it is meant for,
\* whatever the base path that was accepted; / leads to the overview; the probes and
\* the portal find the health check at the root (basepath.go:5-9).
LinksLead ==
    pc \notin {"start", "exited"} =>
        /\ \A l \in Links : Dispatch(cfg.basePath, l[1], LinkTo(cfg.basePath, l[2])) = l[3]
        /\ Arrives(cfg.basePath, "GET", <<"">>) = "overview"
        /\ \A path \in {"health", "healthz"} :
              Dispatch(cfg.basePath, "GET", <<path>>) = "health"

\* A request that has not left is answered from a snapshot that is as new as the one
\* that was there when it came: what one request could see is not taken away from a
\* later one by a failing rebuild or by a client that gives up (cache.go:62-70).  Only
\* what is wrong with the request or a template that fails may keep it away.
NeverTakenBack ==
    \A c \in Conns :
        /\ Answered(c) /\ c \notin gone
        /\ NeedsSnapshot(request[c]) /\ request[c].fault = "none" /\ response[c].status # 500
        => response[c].result >= seen[c]

\* A namespace that could not be read never looks like an empty one: a response that
\* would show a snapshot and has none says why (main.go:93-94), and says it so that its
\* reader gets to see it, unless the template itself fails.
NoSilentEmpty ==
    \A c \in Conns :
        Answered(c) /\ NeedsSnapshot(request[c]) /\ response[c].result = 0
        => /\ response[c].says # NoErr
           /\ SwappedIn(request[c]) => response[c].status \in {200, 500}

\* The health check answers although a rebuild may hang, clients may hold other
\* connections and the server shuts down (health.go:18-20).
HealthAnswers ==
    \A c \in Conns :
        conns[c] = "active" /\ request[c].to = "health" /\ request[c].method = "GET"
          ~> response[c].status = 200 \/ pc = "exited"

\* docs/usage.md:3, "if the latest refresh failed, the last good snapshot is served
\* with a warning", of "every page and response".
StaleTold == \A c \in Conns : response[c].stale # NoErr => response[c].says # NoErr

\* README.md:54 and 58: a base path that is not accepted is reported and fails the
\* start, one that is accepted is served.
NoPanic == failure # "panic"
=============================================================================
