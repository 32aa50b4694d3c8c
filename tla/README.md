# Verification of homerun2-config-viewer

TLA+ models of the viewer, the TLC runs that check them on small instances, and
theorems about them that TLAPS checks for every value of the constants.

The viewer answers HTTP requests about one Kubernetes namespace: which pitcher
publishes to which stream, which catcher reads it, and what is wrong. It keeps no
state of its own but a cache of the last namespace it read. What is hard about it
is therefore in three places: concurrent requests that share one cache and one
rebuild; a namespace that changes while it is read; and several independent
interpretations of the same configuration that must agree with each other and
with what the cluster does.

## Inventory

| Part | State it keeps | Operations | What is hard | Modelled in |
|---|---|---|---|---|
| Snapshot cache, `internal/snapshot/cache.go` | `good`, `goodAt`, `lastErr`, `lastErrAt` under `mu`; singleflight's one call | `Get`; the rebuild's goroutine | staleness is tested under `mu` and acted on without it; cancellation of the request that started a shared rebuild; the build's timeout; failures after a success | `SnapshotCache`, `SnapshotPromise` |
| Reading the namespace, `Discover` in `internal/discovery/discovery.go` | what the two lists returned, local to the call | list Deployments, list ConfigMaps, return or fail | the namespace changes between the lists | `NamespaceRead` |
| Container environment, `env.go` | `vars`, `secretEnvFrom`, `problems` while one spec is walked | `resolveEnv`, `resolveVar`, `lookup` | order of definitions, optional references, Secrets that are never read | `ContainerEnv` |
| Component resolution, `kinds.go`, `discovery.go`, `k8spitcher.go` | one `Component` per Deployment | `resolveComponent` and what it calls | modes, defaults, values that are unknown | `Components` |
| Passes of `Discover`, `profiles.go`, `routes.go`, `k8spitcher.go`, `pitchtarget.go` | `Result.Components`, each pass adding to them | `resolveProfiles`, `resolveRoutes`, `resolveK8sPitchers`, `resolvePitchTargets` | each pass reads what earlier passes wrote, of other components too | `Discovery` |
| Views, `views.go`, `dryrun.go` | none: functions of a `Result` | `Findings`, `StreamUses`, `DryRun`, `DryRunFrom` | three readings of one routing file; findings that stand in for each other | `Views` |
| HTTP server, `main.go` | the goroutine of `Serve`, connections, the signal | `run`, `serve` | signal, failure, timeout and last response at the same moment | `HttpServer` |
| Profile files, `profiles.go`, `k8spitcher.go` | none | `profileArg`, `resolveK8sPitcherArgs`, `readFile`, `readConfigMapFile`, `findMount` | Go's flag package, nested mounts, `subPath`, projected items, optional volumes | `Profile` |
| JSON API, `internal/api`; pages and fragment, `internal/web` | none | one `Get` per request, then a view | a status and a warning for every outcome, for browsers, clients and htmx | `Service`, `Pages` |
| Configuration, `internal/config` | none | `LoadFrom` once at startup | every error reported, not only the first; precedence | `Config` |
| Base path and health, `internal/handlers` | none | `Mount`, health handler | overlapping patterns; probes while everything else hangs | `Routes`, `Service` |
| Kubernetes client, banner, fixture, CI, manifests | none | | | not modelled: I/O, terminal output, tests and builds |

How they interact: `main` builds one cache whose `build` is `Discover` (or, without a
Kubernetes client, a function that always fails) and hands the cache to the API and
the pages. Every request calls `Get` once and reads the `Result` it returns, which
nobody writes any more. `Discover` calls `resolveComponent` for each Deployment,
which calls `resolveEnv`, and then runs the four passes. The views read the finished
`Result`. The `routing` package of homerun-library (`Check`, `ParseStreams`,
`StreamRoutes`, `PreparePitch`), `singleflight`, `net/http` and the kubelet are not in
this repository and are modelled from what this code relies on.

## Modules

    SnapshotCache --implements--> SnapshotPromise
         |                              |
       Viewer ---- NamespaceRead     Service ---- HttpServer, Config, Routes
                                     (Cache == INSTANCE SnapshotPromise)

    ContainerEnv --- Container --- Profile      Components <- Discovery <- Views <- Pages

`Viewer` composes the cache with the read that is its build, `Service` composes the
process, its configuration, its routes and its handlers with what the cache promises, and
`Container` composes an environment with the profile whose path comes out of it.
The remaining modules are about one `Discover` and what is made of its `Result`.
An `MC` module beside each composition holds the small instance for TLC, a `Proofs` module the
theorems. Definitions that begin with "Variant of" are what a plausible bug would make of
the definition after them; no specification uses them.

### SnapshotCache

One element of `calls` is one rebuild, in the order they were started; its index
stands for the `*discovery.Result` it returned, so results can be compared by age.
The variables `good`, `goodAt`, `lastErr`, `lastErrAt` are the fields of `Cache`. Each
caller is one request goroutine, `pc` its place in `Get`:

- `GetFresh` and `GetStale` are the two outcomes of the critical section at the top of
  `Get`. `GetStale` leaves the caller between `mu.Unlock` and `DoChan`.
- `DoChan` starts a call or joins the one singleflight holds (`StartCall`, `JoinCall`).
- `BuildReturns` is everything the rebuild does from the return of `build` to its own:
  `nil, nil` is made an error, and under `mu` the outcome is stored. `build` fails with
  any error of the API, and with `DeadlineExceeded` once its timeout has passed.
- `Deliver` is singleflight forgetting the call and sending its outcome: it happens
  after the outcome is stored, so a caller may join a call whose work is done.
- `Receive` and `GiveUp` are the two cases of the select.
- `Tick` advances the clock. It never passes a build's deadline while the build runs
  (`Discover` passes its context to every API call) and takes storing and delivering an
  outcome for instantaneous; everything a caller does may take any time.

`SnapshotPromise` is the abstract specification: one store that only moves forward, and
requests that read it at one moment between their question and their answer. It knows no
clock, no TTL and no singleflight. `SnapshotCache` implements it (`KeepsPromise`): `snap`
is `good`, `failing` is `lastErr`, `failures` are the errors of the calls, `asking` the
callers that are in `Get`.

A caller may get to read the cache some time after the rebuild it waited for.
`StaleAnswersExplained` is about that moment: the answer is the latest result there is, and
it carries an error and its time exactly when the latest rebuild has failed, and then that
rebuild's.

What holds of "at most once per TTL" is `OneRebuildPerCaller`: after an attempt has ended
each caller may still start the one rebuild it was about to start. The stronger reading is
refuted by the run `cache_once_per_ttl`.

### NamespaceRead

`needs` and `exist` are the cluster: which ConfigMaps each Deployment requires and which
there are. `Rollout`, `AddConfigMap` and `DeleteConfigMap` change them at any time.
`Discover`, the two `Read` steps, `ListError` and `Return` are the read. A list is taken to
be consistent in itself. Two history variables record what was broken all the time and at
some time since `Discover` was called, a third the ConfigMaps deleted since.

### Viewer

The variables of `SnapshotCache` and `NamespaceRead` side by side. A rebuild's `build` is
`Discover`: `BuildCalls` enters it while a call of the cache is building, `ListNamespace`
is one list, and `DiscoverReturns` and `DiscoverFails` are one step of both modules, the
return of `Discover` into the goroutine that stores its outcome. Everything else the cache
does leaves the read alone, and `NamespaceChanges` happens at any time. History variables
record since when each problem has existed and each ConfigMap has been there. The two
properties of its own answer what a user would ask: how long after a change can the viewer
still show the old state? One TTL and one build timeout, for a request whose answer does
not say it is stale.

### ContainerEnv

The spec is chosen one entry at a time, so that the model covers every spec up to
`MaxEnvEntries` entries and the proofs every spec. `envVars`, `secretEnvFrom` and `problems`
are the fields of `environment`; `real` and `blocked` are what the kubelet makes of the
same entries, Secrets included. `shadowed` records the one case in which the viewer
falls behind: an import from a Secret that redefines an imported variable.

### Profile

`profileArg` is the code's loop, `profileFrom[i]` what it returns once it has come to
argument i; `GoAfter[i]` is Go's parser after i arguments, `GoFlags` after all of them.
`readFile`, `findMount` and `readConfigMapFile` are the code's functions over a container
and its volumes; `PlaceAt` and `Projects` are the other side: where the container is once
it has gone i segments down a path, from mount to mount, and the files that the kubelet
projects. The
machine chooses arguments one at a time, then takes the path that `resolveK8sPitcherArgs`
makes of them, or that a catcher's variable holds, and adds mounts and items.
`FirstProfileFound` says what holds of `-profile` however often it is given: the viewer takes
the first value, which is Go's unless the flag is repeated. That it is Go's always, as the
comment of `profileArg` has it, is `ArgsAsGoReads`, and violated (run `repeated_profile`).
`ReadsWhatIsOpened` leaves out two items of a volume at one path (`DistinctItems`), where the
viewer takes the first and the kubelet the last; the repository says nothing about that case.

### Container

The variables of `ContainerEnv` and `Profile` side by side. `ResolveEnv` walks the spec of a
catcher; once `resolveEnv` has returned, `ResolvePath` takes the profile's path out of it with
`Lookup`, as `resolveCatcher` does, flagged or not: a default that an imported Secret may
replace is read like any path, only a variable that is set and unresolved is not.
`ResolveArgs` is k8s-pitcher, whose path its arguments hold. Every step is one of
`ContainerEnv` or of `Profile`, which `ContainerResolvesEnv` and `ContainerReadsProfile`
prove.

### Components, Discovery, Views

`Components` holds `resolveComponent` as operators over a spec and its environment (as
`lookup` returns it). `Discovery` is the state machine of one `Discover` after its lists:
`Resolve` and then the four passes in the code's order. `Views` are operators over the
finished `Result`, and the properties that relate them. The assumptions of `Discovery` say
what an input is: a variable that is set is known or flagged (`EnvIsSet`), a value that
lists streams lists finitely many (`StreamsFinite`), a routing file that parses has
numbered rules, a profile of k8s-pitcher has a Redis block or none.

Abstracted: a URL is whether it is http(s), the Deployment its host names and its path;
the file a component opens is its content or the reason why there is none (`readFile`); a
rule of a routing file is the paths and messages it matches and its stream; a profile is
valid or not; consumer groups, severities and reactions belong to the routing library.

`Pages` adds what `internal/web` makes of a `Result`: the grouping of findings, the
fragment's limit, and the pitchers that the form offers.

That something without a way or a stream says why is stated note by note, as `NoStreamNotes`
and `DryRunNotes` list them, and, for targets, with the finding beside the note.
`EmptyDryRunsExplained` and `EmptyTargetsExplained` hold but for one case, `NoStreamSet`: a
pitcher whose REDIS_STREAM is the empty string. There the code breaks what the comments on
`Component.Streams` (discovery.go:37-38) and `PitchDryRun.Paths` (dryrun.go:24-26) promise;
`StreamsAsDocumented` states the promise, and the run `streams_documented` violates it.

### HttpServer, Config, Routes, Service

In `HttpServer`, `pc` is the main goroutine in `run` and `serve`; `serve` what the
goroutine of `Serve` has sent to `serveErr`; `done` the context of `signal.NotifyContext`.
A connection is `new`, then `active`, then `closed`, or `cut` when the process exits.
`Shutdown` returns when no connection is open or when its context has ended, and never
before `Serve` has let go of the listener.

`Config` is `LoadFrom` as a function of the environment, `Routes` the tables of patterns
and `http.ServeMux`'s choice among them. `Service` starts with an environment, comes up or
does not (`Refused`, `NoListener`, `Conflict`), and then serves: `RequestComes` dispatches a
request by method and path; `CallGet`, `GetReturns` and `Leave` are its call of `Get`, of
which nothing is known but `SnapshotPromise`; `Handled` is the return of the handler, whose
answer is in `Response`: the status, the snapshot shown, whether that is stale and whether
the response says so. What is wrong with a request is one of four `Faults`, because the
handlers find them at different moments: the API before it calls `Get`, except for a pitcher
that is not there (`RefusedFirst`, `RefusedAfter`); the dry run's page looks at its body first,
then at the snapshot, then at its fields. Whatever a template makes may be `NotRendered`, a
500. The health check refuses every method but GET. `RebuildEnds` may happen, or not, and also
after the last of its callers has left.

## Runs

| Run | Expected | What it shows |
|---|---|---|
| `cache` | pass | the invariants of the cache; no caller sees an older result than the cache held when it asked; every `Get` returns; the cache implements `SnapshotPromise` |
| `cache_once_per_ttl` | violation | two rebuilds within one TTL |
| `viewer` | pass | how soon requests are told of problems and repairs; what is broken during a whole read is reported; a false finding is about a deleted ConfigMap |
| `read_false_finding` | violation | a missing ConfigMap is reported that no Deployment ever missed |
| `container` | pass | a value without a warning is what the container sees; start problems are exact; the viewer takes the first `-profile` that Go finds and reads the file that the container opens: 2 variables, 2 values, a ConfigMap, a Secret, 4 entries; 3 arguments; 2 volumes, 3 mounts and items, 2 keys |
| `env_later_wins` | violation | a Secret imported later wins in the container, not in the viewer |
| `repeated_profile` | violation | of two `-profile` flags the viewer takes the first, Go the last |
| `service` | pass | exit status, grace period, termination; complete error report; links; no snapshot is lost to another request; what has none to show says why, in a form its reader takes; health: 2 connections |
| `base_path` | violation | an accepted base path makes the process panic |
| `stale_unsaid` | violation | fragment and dry-run partial show a stale snapshot without a warning |
| `views` | pass | targets, overview, findings and dry run agree, what leads nowhere gives a reason unless REDIS_STREAM is empty, the fragment shows the worst, in some ten thousand namespaces of 3 Deployments |
| `streams_documented` | violation | a pitcher has no streams and no note says why |

The violated properties quote the repository at the line they come from; PROJECT.json
lists them as findings with what the code does instead. `StreamsAsDocumented` has two halves
and the code breaks both: TLC stops at the empty REDIS_STREAM; without that half it finds a
mode taken from a Secret, where streams are listed that depend on a value nobody could
resolve.

Why the bounds are enough. In the cache the hard cases need two callers (one that starts,
one that joins or comes too late), three attempts (a success, a failure, another) and a
clock that passes a TTL and a timeout; the theorems remove the bounds. `viewer` needs one
problem that begins and ends at any time before, between and after two rebuilds. In
`container` an import is redefined by an import and by an env entry, once more each; a third
argument follows a flag and its value, two mounts are nested, and an item goes with each
pair of mounts or two items with one mount; the bound is on their sum. The environment and
the pod follow each other, so the run's VIEW leaves the environment out once the path is
known (`KnownPath`): no step looks at it any more, and what is claimed of it has been
checked. `service` needs two connections, one that waits and one beside it, and one success,
which a failure can precede or follow; one client asks for the fragment or the health check,
the other for one of each kind of request: a matrix page, a redirect, a health check with
POST, dry runs by htmx and not, with a fault of each kind that is told apart, and the API;
the environments have each variable right and wrong in every combination, base paths of
none, one and two segments and one that begins with the path of a page. In `views` each
component appears in every configuration that the code tells apart: mode, streams, routes,
URL, file and its failures, replicas, start problems, imports from Secrets; a limit of two
findings makes the fragment leave some out. Symmetry is used in runs without liveness
properties, over callers, Deployments, ConfigMaps and volumes, which the specifications
never tell apart.

The runs on `MCContainer` and `MCViews` switch deadlock checking off: they model functions
that return, after which there is nothing to do. In the cache and the service the end is an
explicit step (`Drained`, `Exited`), so that a goroutine stuck earlier is a deadlock.

## Fairness

`SnapshotCache!FairSpec`: weak fairness of `DoChan` and `Receive` for each caller (a
goroutine that can run is scheduled), of the build's return (its context has a timeout
and `Discover` passes the context on) and of `Deliver` (singleflight does it after the
function returned). Nothing is assumed of `GiveUp`: a request need not end. Time need not
pass.

`Service!ServiceFairSpec`: weak fairness of the start, of the main goroutine's steps, of
time during the shutdown, of `Serve` returning once the listener is closed, and of each
handler that has what it needs. Nothing is assumed of clients and of rebuilds, which may
never end: the process ends and the health check answers all the same.

## Proofs

The theorems hold for every value of the constants, that is without the runs' bounds.

- `SnapshotCacheProofs`, from `CacheAssumption` (natural TTL, positive timeout, the special
  errors differ). The inductive invariant `Inv` has a part for singleflight (`FlightInv`:
  the call it holds is the last one and the only one not delivered; callers wait for calls
  that exist), for the clock (`TimeInv`: no call outlives its deadline, and an attempt's
  times are in order), for the guarded fields (`CacheInv`), for the callers (`CallerInv`:
  what a caller on its way to `DoChan` or in the select may rely on) and for the answers
  (`ReplyInv`). `CacheIsLastAttempt` is not inductive by itself: that a rebuild's outcome is
  newer than the one it replaces needs `FlightInv`. `Implements` maps each action to one of
  `SnapshotPromise` or a stutter.
- `NamespaceReadProofs`: between the two lists, what is broken is still referred to in the
  first list, and what the first list refers to without being there was broken once or was
  deleted meanwhile (`PersistentInv`, `SeenInv`).
- `ContainerEnvProofs`: for every variable without a warning, what the viewer holds and what
  the kubelet set agree unless it is shadowed, and a Secret imported so far makes every
  unset variable uncertain (`ValuesInv`). `Container` implements `ContainerEnv`
  (`ContainerResolvesEnv`) and, since what `Lookup` finds is a path (`LookupIsPath`, from
  `ContainerAssumption`), `Profile` (`ContainerReadsProfile`): the theorems of this module
  and of `ProfileProofs` hold of what the run `container` checks.
- `HttpServerProofs`: a request is cut off only by an exit, and `RunInv` ties each exit to
  what the main goroutine has seen.
- `ViewerProofs`: the composition implements both of its parts (`ViewerIsCache`,
  `ViewerReads`), so the theorems of `SnapshotCacheProofs` and `NamespaceReadProofs` hold in
  it. The invariant on top says that a problem older than the read that reported it is among
  its findings, and that the read under way has listed what has been broken since before;
  with `RecentAnswers` it gives `OldProblemsTold` and `RepairsTold`.
- `ServiceProofs`: every step of the process is one of `HttpServer` or leaves it alone
  (`ServiceServes`), likewise for `SnapshotPromise` (`ServiceUsesCache`). The invariant ties
  a request's answer to what it saw when it came, and each response to the answer.
  `StartInv` is a second one, on what the process has read of its environment: a refused
  environment is kept, and a process that serves has a base path that `LoadFrom` accepts and
  `Mount` takes. `AllReported` then compares `LoadFrom` of the environment with `LoadFrom`
  of each variable alone. `LinksFound` is about the mux: the patterns of `Mount` are few, a
  path that begins with the base path is below each of them or is not, and the most specific
  one is the handler's; an accepted base path has no empty segment, so it is not taken for
  the `/` of the mux. From `ConfigAssumption` (a variable that is not set differs from every
  value) and `EnvironmentAssumption` (an environment has the variables that `LoadFrom`
  reads).
- `DiscoveryProofs`: for every namespace, message and routing file, `PassesInv` says what
  each pass finds. A target is not followed before the fourth, so nothing it says of its
  omni-pitcher can be outdated, and the streams of an omni-pitcher hold every stream its
  rules name. With the least matching rule (a well-founded order) this gives where a dry run
  can publish (`DryRunWritten`), from which `DryRunsAgree` and `DeadEndsReported` follow.
  That nothing ends without a reason needs a second invariant: before each pass a pitcher
  without streams has one of the notes that say why, or waits for the pass that reads its
  file (`AccountInv`); its only exception is a REDIS_STREAM that is the empty string.
  `FindingsRanked` needs from `PassesInv` that a followed target's problem is one of the
  kinds that `web.go` ranks. `FragmentShowsWorst` holds for every limit: once the fragment
  cuts a group short it has shown as many as it may, so it shows nothing of the groups after
  that (`CutShort`). That a group is cut short at all means something because there are
  finitely many findings, which `PassesInv` carries from the lists of one namespace through
  every pass. From `RoutingFiles`, `K8sFiles`, `NamespaceAssumption` (a variable that is set
  is known or flagged; Deployments, streams and start problems are finite in number, as all
  of them come from lists in memory) and `LimitAssumption` (the fragment's limit is a
  natural number).
- `ProfileProofs`, from `ProfileAssumption` (paths, mounts and items are clean paths; the
  paths that items have in one volume do not lie below each other; each flag has a value, an
  empty one or none). `ProfileFoundFirst` is an induction over the arguments from the last
  to the first: what `profileArg` returns from argument i on is the first value that Go's
  parser sets if it comes to i with no `-profile` so far, and the last one too if it sets no
  other. `ProfileReadIsOpened`, `ProfileCannotStart` and `ProfileResolved` rest on an
  induction over the segments of a path: the container, i segments down, is in the deepest
  mount at or above that place, as many segments below it as the path is longer (`Walked`);
  at the end this is the mount that `findMount` chooses. `ProfileInv` gives the types and
  that no two mounts have one path. A mount at `/` and paths of any depth are among what the
  theorems cover and the run does not.

Inductions, over the arguments, segments, rules and groups, are stated over sets of
numbers: a set of natural numbers that is not empty has a least element (`Least`,
`LeastNumber`), so one that has 0 and every successor has all (`Induct`).

Every safety property that a passing run checks, the refinement and the action property
among them, is a theorem. Only model-checked: the liveness properties `EveryGetReturns`,
`Ends` and `HealthAnswers`, which rest on fairness and are beyond the prover.

## Not modelled

- Panics in a build (singleflight re-raises them and the process ends).
- Clock adjustments: Go's `time.Now` is monotonic within a process.
- The content of profiles and what catchers do with a message: the routing library's, and
  with it the findings of `routing.Check` on consumer groups and rules and the cells of the
  matrix.
- Label selectors: the viewer lists what they select.
- The mux's own redirect of `/static` to `/static/`, and its cleaning of paths.
- The parsing of single values: a number, a duration, a JSON body is right or wrong.
- A mount of a volume that the pod does not define, and a Deployment that the API server
  would refuse for another reason.
- The Kubernetes client, templates, JSON encoding, logging, the banner, the test fixture, CI
  and manifests.

A pod that is blocked by another volume than the one with its profile has no start problem;
`Profile` therefore promises nothing about such pods.

## What is left

1. The choice of the container in a Deployment (`pickContainer`), an input of `Components`.
2. A theorem that `Lookup` of `Components` is what `ContainerEnv` ends with: today the one
   module's result is an input of the other.
