----------------------------- MODULE Discovery -----------------------------
(***************************************************************************)
(* What Discover (internal/discovery/discovery.go) makes of the objects it *)
(* has listed: it resolves every Deployment and then runs four passes over *)
(* the components, each of which reads what the earlier ones left behind.  *)
(* The views of the API and the pages (views.go, dryrun.go) are operators  *)
(* over the Result.                                                        *)
(***************************************************************************)
EXTENDS Components, FiniteSets

CONSTANTS
    Names,              \* Deployments of the namespace
    Namespaces,         \* what they may be: for each its spec and the file it opens
    Messages,           \* messages a pitcher may send
    Rejected,           \* those that routing.PreparePitch refuses
    PitchPath,          \* routing.PitchPath
    Invalid             \* content that does not parse

\* A variable that is set is known or flagged; the lists of a namespace are finite.
EnvIsSet(s) ==
    \A var \in DOMAIN s.env : s.env[var] \in {Known(s.env[var].value), Flagged(s.env[var].value)}
StreamsFinite(s) ==
    \A var \in {"REDIS_STREAM", "REDIS_STREAMS"} \cap DOMAIN s.env : IsFiniteSet(s.env[var].value)

ASSUME NamespaceAssumption ==
    /\ IsFiniteSet(Names)
    /\ \A ns \in Namespaces : \A n \in Names :
         EnvIsSet(ns[n]) /\ StreamsFinite(ns[n]) /\ IsFiniteSet(ns[n].envProblems)

VARIABLES
    specs,      \* the listed Deployments, with the file each one opens
    components, \* Result.Components, by name
    pass        \* 0 until the Deployments are resolved, then the pass to come

vars == <<specs, components, pass>>

Init ==
    /\ specs \in Namespaces
    /\ components = <<>>
    /\ pass = 0

Resolve ==
    /\ pass = 0
    /\ components' = [n \in Names |-> ResolveComponent(n, specs[n])]
    /\ pass' = 1
    /\ UNCHANGED specs

-----------------------------------------------------------------------------
(* Files: the file of a spec is what readFile finds at its path, or why it *)
(* finds nothing; it first looks whether the path is known at all.  A      *)
(* routing file has rules and the stream for messages that match none.  A  *)
(* rule names a stream for messages `msgs` pitched to one of `paths`.      *)

ReadFile(c, path) ==
    IF Unknown(path) THEN [err |-> "unresolved"] ELSE specs[c.name].file

Failed(file) == "err" \in DOMAIN file

\* resolveProfiles, loadProfile: only a mounted ConfigMap that does not exist
\* keeps a catcher from starting.
LoadProfile(c) ==
    LET file == ReadFile(c, CHOOSE p \in c.profilePath : TRUE) IN
    IF c.role # "catcher" \/ c.profilePath = {} THEN c
    ELSE IF ~Failed(file)
      THEN [c EXCEPT !.profile = {IF file.profile = Invalid THEN "invalid" ELSE "ok"}]
    ELSE IF file.err = "cannot start"
      THEN [c EXCEPT !.profile = {"cannot start"}, !.startProblems = @ \cup {"profile"}]
    ELSE [c EXCEPT !.profile = {file.err}]

\* Variant of LoadRoutes: a path that cannot be resolved is skipped.
LoadRoutesSkips(c) ==
    LET file == ReadFile(c, CHOOSE p \in c.routesPath : TRUE) IN
    IF c.routesPath = {} THEN c
    ELSE IF Failed(file)
      THEN IF file.err = "unresolved" THEN c
           ELSE [c EXCEPT !.startProblems = @ \cup {"routes"}]
    ELSE IF file.routes = Invalid
      THEN [c EXCEPT !.startProblems = @ \cup {"routes"}]
    ELSE [c EXCEPT !.routes = {file.routes}, !.streams = {file.routes.default}]

\* The rules of a routing file that parses are a list.
ASSUME RoutingFiles ==
    \A ns \in Namespaces : \A n \in Names :
        Classify(ns[n]) = "omni-pitcher" =>
            \/ Failed(ns[n].file)
            \/ ns[n].file.routes = Invalid
            \/ /\ DOMAIN ns[n].file.routes.rules \subseteq Nat
               /\ IsFiniteSet(DOMAIN ns[n].file.routes.rules)

\* resolveRoutes, loadRoutes: omni-pitcher exits if its routing file does not load.
LoadRoutes(c) ==
    LET file == ReadFile(c, CHOOSE p \in c.routesPath : TRUE) IN
    IF c.routesPath = {} THEN c
    ELSE IF Failed(file)
      THEN IF file.err = "unresolved"
             THEN [c EXCEPT !.streamsUnresolved = TRUE,
                            !.notes = @ \cup {Note("streams unknown")}]
             ELSE [c EXCEPT !.startProblems = @ \cup {"routes"}]
    ELSE IF file.routes = Invalid
      THEN [c EXCEPT !.startProblems = @ \cup {"routes"}]
    ELSE [c EXCEPT !.routes = {file.routes},
                   !.streams = {file.routes.default} \cup
                       {file.routes.rules[i].stream : i \in DOMAIN file.routes.rules}]

\* A profile of k8s-pitcher that parses has a Redis block or none, and at most one stream.
ASSUME K8sFiles ==
    \A ns \in Namespaces : \A n \in Names :
        Classify(ns[n]) = "k8s-pitcher" =>
            \/ Failed(ns[n].file)
            \/ ns[n].file.k8s = Invalid
            \/ ns[n].file.k8s.redis \in BOOLEAN /\ IsFiniteSet(ns[n].file.k8s.stream)

\* k8sPitcherProfile.validate, the watches taken together.
ValidK8s(p) ==
    /\ p # Invalid
    /\ p.redis # (p.pitcher # {})
    /\ p.redis => p.stream # {}
    /\ p.watches

\* resolveK8sPitchers, loadK8sPitcherProfile.
LoadK8sPitcher(c) ==
    LET file == ReadFile(c, CHOOSE p \in c.profilePath : TRUE)
        p == file.k8s
    IN
    IF c.kind # "k8s-pitcher" \/ c.profilePath = {} THEN c
    ELSE IF Failed(file)
      THEN IF file.err = "unresolved"
             THEN [c EXCEPT !.profile = {"unresolved"}, !.streamsUnresolved = TRUE,
                            !.notes = @ \cup {Note("streams unknown")}]
             ELSE [c EXCEPT !.profile = {file.err},
                            !.startProblems = @ \cup {"profile"}]
    ELSE IF ~ValidK8s(p)
      THEN [c EXCEPT !.profile = {"invalid"}, !.startProblems = @ \cup {"profile"}]
    ELSE IF \E mode \in c.mode : mode.value = "file"
      THEN [c EXCEPT !.profile = {"ok"}, !.notes = @ \cup {Note("file")}]
    ELSE IF p.pitcher # {}
      THEN [c EXCEPT !.profile = {"ok"}, !.target = {Target(url, FALSE) : url \in p.pitcher}]
    ELSE [c EXCEPT !.profile = {"ok"}, !.streams = p.stream]

-----------------------------------------------------------------------------
(* resolvePitchTargets. *)

Fail(t, kind, problem) == [t EXCEPT !.kind = kind, !.problem = problem]

\* The omni-pitcher that the host of a URL names.
OmniPitcherAt(host) ==
    {components[n] : n \in {m \in Names : m = host /\ components[m].kind = "omni-pitcher"}}

\* Variant of ViaStreams: the default stream is left out.
ViaStreamsOfRules(omni, path) ==
    UNION {{r.rules[i].stream : i \in {j \in DOMAIN r.rules : path \in r.rules[j].paths}} :
             r \in omni.routes}

\* Variant of ViaStreams: the rules for other paths count as well.
ViaStreamsAnyPath(omni, path) == omni.streams

\* The streams that pitches arriving on path may end up on.
ViaStreams(omni, path) ==
    IF omni.routes = {} THEN omni.streams
    ELSE UNION {{r.default} \cup
                {r.rules[i].stream : i \in {j \in DOMAIN r.rules : path \in r.rules[j].paths}} :
                  r \in omni.routes}

FollowTo(t, omni) ==
    LET at == [t EXCEPT !.omni = {omni.name}] IN
    IF t.path # PitchPath THEN Fail(at, "pitch-path-unknown", "path")
    ELSE IF ~Running(omni) THEN Fail(at, "", "scaled to zero")
    ELSE IF omni.startProblems # {} THEN Fail(at, "", "cannot start")
    ELSE [at EXCEPT !.streams = ViaStreams(omni, t.path)]

ResolvePitchTarget(t) ==
    LET there == [t EXCEPT !.path = t.url.path]
        omnis == OmniPitcherAt(t.url.host)
    IN  IF t.unknown THEN Fail(t, "pitch-target-unresolved", "unknown")
        ELSE IF ~t.url.http THEN Fail(t, "pitch-target-unresolved", "no URL")
        ELSE IF omnis = {} THEN Fail(there, "pitch-target-unresolved", "no omni-pitcher")
        ELSE FollowTo(there, CHOOSE o \in omnis : TRUE)

FollowTarget(c) == [c EXCEPT !.target = {ResolvePitchTarget(t) : t \in c.target}]

-----------------------------------------------------------------------------
\* The order of the passes.
Pass(i, c) ==
    CASE i = 1 -> LoadProfile(c)
      [] i = 2 -> LoadRoutes(c)
      [] i = 3 -> LoadK8sPitcher(c)
      [] i = 4 -> FollowTarget(c)

RunPass ==
    /\ pass \in 1..4
    /\ components' = [n \in Names |-> Pass(pass, components[n])]
    /\ pass' = pass + 1
    /\ UNCHANGED specs

Next == Resolve \/ RunPass

Spec == Init /\ [][Next]_vars

\* Discover has returned its Result.
Done == pass = 5
=============================================================================
