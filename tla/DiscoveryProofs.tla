-------------------------- MODULE DiscoveryProofs --------------------------
(***************************************************************************)
(* Theorems about the passes of Discover, whatever the Deployments are.    *)
(* What a pitch target says of its omni-pitcher is so when Discover        *)
(* returns, although the target is followed in the last pass and the       *)
(* omni-pitcher is changed by two passes before it; a pitcher without      *)
(* streams has said why; and the pages rank every finding that the passes  *)
(* lead to and cut none short that is worse than one they show.            *)
(***************************************************************************)
EXTENDS Pages, FiniteSetTheorems, SequenceTheorems, WellFoundedInduction, TLAPS

Fields == {"name", "kind", "role", "replicas", "startProblems", "streams",
           "streamsUnresolved", "onDemand", "group", "profilePath", "profile", "mode",
           "routesPath", "routes", "target", "notes"}

TargetFields == {"url", "unknown", "omni", "path", "streams", "problem", "kind"}

\* A target that nobody has followed.
Unfollowed(t) ==
    /\ DOMAIN t = TargetFields
    /\ t.omni = {} /\ t.streams = {} /\ t.problem = "" /\ t.kind = ""

\* The component of Deployment n, of kind k.
Component(n, k, c) ==
    /\ DOMAIN c = Fields
    /\ c.name = n /\ c.kind = k /\ c.role = Role(k)
    /\ c.routesPath # {} => k = "omni-pitcher"
    /\ IsFiniteSet(c.streams) /\ IsFiniteSet(c.startProblems)

\* The kind that resolveComponent gives a Deployment.
KindIn(s) == IF s.hasContainer THEN Classify(s) ELSE "unknown"

\* As resolveComponent leaves it: no routes yet, nothing followed.
Fresh(n, k, c) ==
    /\ Component(n, k, c)
    /\ c.routes = {}
    /\ \A t \in c.target : Unfollowed(t)

-----------------------------------------------------------------------------
(* Numbers. *)

\* A set of numbers has a least element.
LEMMA LeastNumber ==
    ASSUME NEW T, T \subseteq Nat, T # {}
    PROVE  \E n \in T : \A k \in T : n <= k
<1>1. PICK n \in T : \A k \in T : <<k, n>> \notin OpToRel(<, Nat)
  BY WFMin, NatLessThanWellFounded
<1>2. \A k \in T : ~(k < n)
  BY <1>1 DEF OpToRel
<1> QED BY <1>2

\* Induction, over a set instead of a predicate.
LEMMA Induct ==
    ASSUME NEW S, 0 \in S, \A n \in Nat : n \in S => n + 1 \in S
    PROVE  Nat \subseteq S
<1> SUFFICES ASSUME Nat \ S # {} PROVE FALSE
  OBVIOUS
<1>1. PICK n \in Nat \ S : \A k \in Nat \ S : n <= k
  BY LeastNumber
<1>2. n # 0 /\ n - 1 \in Nat /\ n - 1 \notin Nat \ S
  BY <1>1
<1> QED BY <1>1, <1>2

-----------------------------------------------------------------------------
(* Finite sets. *)

\* A finite set with one more element is finite.
LEMMA OneMore ==
    ASSUME NEW S, IsFiniteSet(S), NEW x
    PROVE  IsFiniteSet(S \cup {x})
  BY FS_AddElement

\* The values of a function on a finite set are finitely many.
LEMMA Image ==
    ASSUME NEW S, IsFiniteSet(S), NEW f, DOMAIN f = S
    PROVE  IsFiniteSet({f[x] : x \in S})
<1> DEFINE T == {f[x] : x \in S}
           g == [x \in S |-> f[x]]
<1>1. g \in Surjection(S, T)
  BY DEF Surjection
<1> QED BY <1>1, FS_Surjection

\* DefaultStream names at most one stream.
LEMMA DefaultFinite ==
    ASSUME NEW kind
    PROVE  IsFiniteSet(DefaultStream(kind))
<1>1. DefaultStream(kind) \in {{HomerunStream}, {AlertsStream}, {MessagesStream}, {}}
  BY DEF DefaultStream
<1>2. \A x : IsFiniteSet({x})
  BY FS_Singleton
<1> QED BY <1>1, <1>2, FS_EmptySet

\* A variable that lists streams lists finitely many, as its default does.
LEMMA LookupFinite ==
    ASSUME NEW s, StreamsFinite(s), NEW var \in {"REDIS_STREAM", "REDIS_STREAMS"},
           NEW default, IsFiniteSet(default)
    PROVE  IsFiniteSet(Lookup(s, var, default).value)
  BY DEF Lookup, StreamsFinite

-----------------------------------------------------------------------------
(* resolveComponent. *)

\* setStreams touches streams, streamsUnresolved and notes only.
LEMMA SetStreamsFresh ==
    ASSUME NEW n, NEW k, NEW c, Fresh(n, k, c),
           NEW streams, IsFiniteSet(streams), NEW values
    PROVE  Fresh(n, k, SetStreams(c, streams, values))
<1> DEFINE unknown == {i \in DOMAIN values : Unknown(values[i][2])}
           read == {i \in DOMAIN values : \A j \in unknown : i < j}
           more == UNION {NoteUnresolved(values[i][1], values[i][2]) : i \in read}
           noted == [c EXCEPT !.notes = @ \cup more]
<1> HIDE DEF more, unknown
<1>1. Fresh(n, k, noted)
  BY DEF Fresh, Component, Fields
<1>2. /\ Fresh(n, k, [noted EXCEPT !.streams = streams])
      /\ Fresh(n, k, [noted EXCEPT !.streamsUnresolved = TRUE,
                                   !.notes = @ \cup {Note("streams unknown")}])
  <2> HIDE DEF noted
  <2> QED BY <1>1 DEF Fresh, Component, Fields
<1>3. SetStreams(c, streams, values) =
        IF unknown = {} THEN [noted EXCEPT !.streams = streams]
        ELSE [noted EXCEPT !.streamsUnresolved = TRUE,
                           !.notes = @ \cup {Note("streams unknown")}]
  BY DEF SetStreams, more, unknown
<1> QED BY <1>2, <1>3

\* REDIS_STREAM.
LEMMA PublishToFresh ==
    ASSUME NEW n, NEW k, NEW c, Fresh(n, k, c), NEW s, StreamsFinite(s)
    PROVE  Fresh(n, k, PublishTo(c, s))
BY SetStreamsFresh, LookupFinite, DefaultFinite DEF PublishTo

\* The presets of led-catcher.
LEMMA OnDemandFresh ==
    ASSUME NEW n, NEW k, NEW c, Fresh(n, k, c), NEW s
    PROVE  Fresh(n, k, ResolveOnDemand(c, s))
<1> DEFINE presets == Lookup(s, "UI_STREAM_PRESETS", {})
           noted == [c EXCEPT !.notes = @ \cup NoteUnresolved("UI_STREAM_PRESETS", presets)]
           extra == presets.value \ c.streams
           some == [noted EXCEPT !.onDemand = extra,
                                 !.notes = IF extra = {} THEN @ ELSE @ \cup {Note("on demand")}]
<1> HIDE DEF presets
<1>1. Fresh(n, k, noted)
  BY DEF Fresh, Component, Fields
<1>2. Fresh(n, k, some)
  <2> HIDE DEF noted, extra
  <2> QED BY <1>1 DEF Fresh, Component, Fields
<1>3. ResolveOnDemand(c, s) \in {c, noted, some}
  BY DEF ResolveOnDemand, presets
<1> QED BY <1>1, <1>2, <1>3

\* resolveCatcher.
LEMMA CatcherFresh ==
    ASSUME NEW n, NEW k, NEW c, Fresh(n, k, c), NEW s, StreamsFinite(s)
    PROVE  Fresh(n, k, ResolveCatcher(c, s))
<1> DEFINE mode == Lookup(s, "SOUND_MODE", "full")
           streams == Lookup(s, "REDIS_STREAMS", {})
           stream == Lookup(s, "REDIS_STREAM", {})
           group == Lookup(s, "CONSUMER_GROUP", c.kind)
           path == Lookup(s, "PROFILE_PATH", "default")
           known == SetStreams(c, ParseStreams(streams.value, stream.value, DefaultStream(c.kind)),
                               <<<<"REDIS_STREAMS", streams>>, <<"REDIS_STREAM", stream>>>>)
           grouped == [known EXCEPT !.group = {group},
                                    !.notes = @ \cup NoteUnresolved("CONSUMER_GROUP", group)]
           profiled == IF ~HasProfile(c.kind) THEN grouped
                       ELSE [grouped EXCEPT !.profilePath = {path},
                                            !.notes = @ \cup NoteUnresolved("PROFILE_PATH", path)]
           alone == [c EXCEPT !.mode = {mode}, !.notes = @ \cup {Note("standalone")}]
<1> HIDE DEF mode, streams, stream, group, path
<1>0. IsFiniteSet(ParseStreams(streams.value, stream.value, DefaultStream(c.kind)))
  BY LookupFinite, DefaultFinite, FS_EmptySet DEF streams, stream, ParseStreams
<1>1. Fresh(n, k, known)
  BY <1>0, SetStreamsFresh
<1>2. Fresh(n, k, grouped)
  <2> HIDE DEF known
  <2> QED BY <1>1 DEF Fresh, Component, Fields
<1>3. Fresh(n, k, profiled) /\ Fresh(n, k, [profiled EXCEPT !.mode = {mode}])
  <2>1. Fresh(n, k, profiled)
    <3> HIDE DEF grouped
    <3> QED BY <1>2 DEF Fresh, Component, Fields
  <2> HIDE DEF profiled
  <2> QED BY <2>1 DEF Fresh, Component, Fields
<1>4. Fresh(n, k, alone)
  BY DEF Fresh, Component, Fields
<1>5. ResolveCatcher(c, s) \in {alone, ResolveOnDemand(profiled, s),
                                ResolveOnDemand([profiled EXCEPT !.mode = {mode}], s)}
  BY DEF ResolveCatcher, mode, streams, stream, group, path
<1> HIDE DEF profiled, alone
<1> QED BY <1>3, <1>4, <1>5, OnDemandFresh

\* What PITCH_TARGET says: a target that nobody has followed.
LEMMA DemoPitcherFresh ==
    ASSUME NEW n, NEW k, NEW c, Fresh(n, k, c), NEW s
    PROVE  Fresh(n, k, DemoPitcherMode(c, s))
<1> DEFINE mode == Lookup(s, "PITCH_TARGET", "redis")
           noted == [c EXCEPT !.mode = {mode},
                              !.notes = @ \cup NoteUnresolved("PITCH_TARGET", mode)]
<1> HIDE DEF mode
<1>1. Fresh(n, k, noted)
  BY DEF Fresh, Component, Fields
<1>2. Unfollowed(DemoPitchTarget(s))
  BY DEF DemoPitchTarget, Target, Unfollowed, TargetFields
<1>3. /\ Fresh(n, k, [noted EXCEPT !.target = {DemoPitchTarget(s)}])
      /\ Fresh(n, k, [noted EXCEPT !.notes = @ \cup {Note("file")}])
      /\ Fresh(n, k, [noted EXCEPT !.notes = @ \cup {Note("falls back to redis")}])
  <2> HIDE DEF noted
  <2> QED BY <1>1, <1>2 DEF Fresh, Component, Fields
<1>4. DemoPitcherMode(c, s) \in
        {noted, [noted EXCEPT !.target = {DemoPitchTarget(s)}],
         [noted EXCEPT !.notes = @ \cup {Note("file")}],
         [noted EXCEPT !.notes = @ \cup {Note("falls back to redis")}]}
  <2> HIDE DEF noted
  <2>1. DemoPitcherMode(c, s) =
          CASE mode.value = "redis" -> noted
            [] mode.value \in {"both", "omni-pitcher"} ->
                 [noted EXCEPT !.target = {DemoPitchTarget(s)}]
            [] mode.value = "file" -> [noted EXCEPT !.notes = @ \cup {Note("file")}]
            [] OTHER -> [noted EXCEPT !.notes = @ \cup {Note("falls back to redis")}]
    BY DEF DemoPitcherMode, mode, noted
  <2> QED BY <2>1
<1> HIDE DEF noted
<1> QED BY <1>1, <1>3, <1>4

\* PITCHER_MODE.
LEMMA PitcherModeFresh ==
    ASSUME NEW n, NEW k, NEW c, Fresh(n, k, c), NEW s
    PROVE  Fresh(n, k, PitcherMode(c, s))
BY DEF PitcherMode, Fresh, Component, Fields

\* Only omni-pitcher has a routing file.
LEMMA OmniFresh ==
    ASSUME NEW n, NEW c, Fresh(n, "omni-pitcher", c), NEW s, StreamsFinite(s)
    PROVE  Fresh(n, "omni-pitcher", OmniStreams(c, s))
<1> DEFINE routes == Lookup(s, "ROUTES_CONFIG", "")
           noted == [c EXCEPT !.notes = @ \cup NoteUnresolved("ROUTES_CONFIG", routes)]
           routed == [c EXCEPT !.routesPath = {routes}]
<1> HIDE DEF routes
<1>1. Fresh(n, "omni-pitcher", noted) /\ Fresh(n, "omni-pitcher", routed)
  BY DEF Fresh, Component, Fields
<1>2. OmniStreams(c, s) \in {routed, PublishTo(noted, s)}
  BY DEF OmniStreams, routes
<1> HIDE DEF noted, routed
<1> QED BY <1>1, <1>2, PublishToFresh

\* The arguments of k8s-pitcher.
LEMMA K8sArgsFresh ==
    ASSUME NEW n, NEW k, NEW c, Fresh(n, k, c), NEW s
    PROVE  Fresh(n, k, ResolveK8sPitcherArgs(c, s))
<1> DEFINE mode == Lookup(s, "PITCHER_MODE", "")
           noted == [c EXCEPT !.mode = {mode},
                              !.notes = @ \cup NoteUnresolved("PITCHER_MODE", mode)]
<1> HIDE DEF mode
<1>1. Fresh(n, k, noted)
  BY DEF Fresh, Component, Fields
<1>2. /\ Fresh(n, k, [noted EXCEPT !.startProblems = @ \cup {"no -profile"}])
      /\ Fresh(n, k, [noted EXCEPT !.profilePath = s.profileArg])
  <2> HIDE DEF noted
  <2>1. IsFiniteSet(noted.startProblems \cup {"no -profile"})
    BY <1>1, OneMore DEF Fresh, Component
  <2> QED BY <1>1, <2>1 DEF Fresh, Component, Fields
<1>3. ResolveK8sPitcherArgs(c, s) \in
        {[noted EXCEPT !.startProblems = @ \cup {"no -profile"}],
         [noted EXCEPT !.profilePath = s.profileArg]}
  BY DEF ResolveK8sPitcherArgs, mode
<1> HIDE DEF noted
<1> QED BY <1>2, <1>3

\* resolvePitcher.
LEMMA PitcherFresh ==
    ASSUME NEW n, NEW k, NEW c, Fresh(n, k, c), NEW s, StreamsFinite(s)
    PROVE  Fresh(n, k, ResolvePitcher(c, s))
<1> DEFINE switched == IF c.kind = "demo-pitcher" THEN DemoPitcherMode(c, s)
                                                  ELSE PitcherMode(c, s)
           plain == [c EXCEPT !.notes = @ \cup {Note("default stream unknown")}]
           other == IF ~UsesRedis(switched) THEN switched
                    ELSE IF c.kind = "omni-pitcher" THEN OmniStreams(switched, s)
                    ELSE PublishTo(switched, s)
<1>1. c.kind = k
  BY DEF Fresh, Component
<1>2. Fresh(n, k, switched)
  BY DemoPitcherFresh, PitcherModeFresh
<1>3. Fresh(n, k, plain)
  BY DEF Fresh, Component, Fields
<1> HIDE DEF switched, plain
<1>4. Fresh(n, k, other)
  BY <1>1, <1>2, OmniFresh, PublishToFresh
<1>5. Fresh(n, k, PublishTo(plain, s)) /\ Fresh(n, k, ResolveK8sPitcherArgs(c, s))
  BY <1>3, PublishToFresh, K8sArgsFresh
<1> HIDE DEF other
<1>6. ResolvePitcher(c, s) =
        CASE c.kind = "k8s-pitcher" -> ResolveK8sPitcherArgs(c, s)
          [] c.kind = "pitcher" -> PublishTo(plain, s)
          [] OTHER -> other
  BY DEF ResolvePitcher, switched, plain, other
<1> QED BY <1>4, <1>5, <1>6

\* resolveComponent says what a component is and leaves the rest to the passes.
LEMMA ComponentFresh ==
    ASSUME NEW n, NEW s, StreamsFinite(s), IsFiniteSet(s.envProblems)
    PROVE  Fresh(n, KindIn(s), ResolveComponent(n, s))
<1> DEFINE k == KindIn(s)
           c == [name |-> n, kind |-> k, role |-> Role(k), replicas |-> s.replicas,
                 startProblems |-> IF s.hasContainer THEN s.envProblems ELSE {},
                 streams |-> {}, streamsUnresolved |-> FALSE, onDemand |-> {}, group |-> {},
                 profilePath |-> {}, profile |-> {}, mode |-> {},
                 routesPath |-> {}, routes |-> {}, target |-> {},
                 notes |-> (IF s.replicas = 0 THEN {Note("scaled to zero")} ELSE {})
                           \cup (IF ~s.hasContainer THEN {Note("no containers")}
                                 ELSE IF k = "unknown" THEN {Note("not of homerun2")}
                                 ELSE {})]
<1> HIDE DEF k
<1>1. Fresh(n, k, c)
  <2>1. IsFiniteSet(c.startProblems) /\ IsFiniteSet(c.streams)
    BY FS_EmptySet
  <2> QED BY <2>1 DEF Fresh, Component, Fields
<1>2. ResolveComponent(n, s) = CASE c.role = "catcher" -> ResolveCatcher(c, s)
                                 [] c.role = "pitcher" -> ResolvePitcher(c, s)
                                 [] OTHER -> c
  BY DEF ResolveComponent, k, KindIn
<1> HIDE DEF c
<1>3. Fresh(n, k, ResolveCatcher(c, s)) /\ Fresh(n, k, ResolvePitcher(c, s))
  BY <1>1, CatcherFresh, PitcherFresh
<1>4. Fresh(n, k, ResolveComponent(n, s))
  BY <1>1, <1>2, <1>3
<1> QED BY <1>4 DEF k

-----------------------------------------------------------------------------
(* The passes. *)

\* What the routing file chooses from are the streams of the component.
RoutesLoaded(c) ==
    /\ c.routes # {} => c.kind = "omni-pitcher"
    /\ \A r \in c.routes :
         /\ r.default \in c.streams
         /\ DOMAIN r.rules \subseteq Nat
         /\ \A i \in DOMAIN r.rules : r.rules[i].stream \in c.streams

\* A component before pass i.
Before(i, n, k, c) ==
    /\ Component(n, k, c)
    /\ RoutesLoaded(c)
    /\ i <= 2 => c.routes = {}
    /\ \A t \in c.target : Unfollowed(t)

\* resolveProfiles leaves routes and targets alone.
LEMMA LoadProfileKeeps ==
    ASSUME NEW n, NEW k, NEW c, Before(1, n, k, c)
    PROVE  Before(2, n, k, LoadProfile(c))
<1> DEFINE file == ReadFile(c, CHOOSE p \in c.profilePath : TRUE)
           read == [c EXCEPT !.profile = {IF file.profile = Invalid THEN "invalid" ELSE "ok"}]
           stops == [c EXCEPT !.profile = {"cannot start"}, !.startProblems = @ \cup {"profile"}]
           fails == [c EXCEPT !.profile = {file.err}]
<1> HIDE DEF file
<1>0. IsFiniteSet(c.startProblems \cup {"profile"})
  BY OneMore DEF Before, Component
<1>1. Before(2, n, k, c) /\ Before(2, n, k, read) /\ Before(2, n, k, stops)
      /\ Before(2, n, k, fails)
  BY <1>0 DEF Before, Component, Fields, RoutesLoaded
<1>2. LoadProfile(c) \in {c, read, stops, fails}
  BY DEF LoadProfile, file
<1> HIDE DEF read, stops, fails
<1> QED BY <1>1, <1>2

\* The streams that a routing file names.
LEMMA RuleStreamsFinite ==
    ASSUME NEW r, IsFiniteSet(DOMAIN r.rules)
    PROVE  IsFiniteSet({r.default} \cup {r.rules[i].stream : i \in DOMAIN r.rules})
<1> DEFINE f == [i \in DOMAIN r.rules |-> r.rules[i].stream]
<1>1. IsFiniteSet({f[i] : i \in DOMAIN r.rules})
  BY Image
<1>2. {f[i] : i \in DOMAIN r.rules} = {r.rules[i].stream : i \in DOMAIN r.rules}
  OBVIOUS
<1>3. IsFiniteSet({r.rules[i].stream : i \in DOMAIN r.rules} \cup {r.default})
  BY <1>1, <1>2, OneMore
<1> QED BY <1>3

\* resolveRoutes: what a routing file chooses from becomes the streams.
LEMMA LoadRoutesKeeps ==
    ASSUME specs \in Namespaces, NEW n \in Names, NEW c,
           Before(2, n, KindIn(specs[n]), c)
    PROVE  Before(3, n, KindIn(specs[n]), LoadRoutes(c))
<1> DEFINE k == KindIn(specs[n])
           file == ReadFile(c, CHOOSE p \in c.routesPath : TRUE)
           unknown == [c EXCEPT !.streamsUnresolved = TRUE,
                                !.notes = @ \cup {Note("streams unknown")}]
           stops == [c EXCEPT !.startProblems = @ \cup {"routes"}]
           streams == {file.routes.default} \cup
                      {file.routes.rules[i].stream : i \in DOMAIN file.routes.rules}
           loaded == [c EXCEPT !.routes = {file.routes}, !.streams = streams]
<1> HIDE DEF file, k
<1>0. Before(2, n, k, c) /\ c.name = n
  BY DEF k, Before, Component
<1>1. Before(3, n, k, c) /\ Before(3, n, k, unknown) /\ Before(3, n, k, stops)
  <2>1. IsFiniteSet(c.startProblems \cup {"routes"})
    BY <1>0, OneMore DEF Before, Component
  <2> QED BY <1>0, <2>1 DEF Before, Component, Fields, RoutesLoaded
<1>2. CASE c.routesPath # {}
  <2>1. ASSUME ~Failed(file), file.routes # Invalid
        PROVE  Before(3, n, k, loaded)
    <3>1. file = specs[n].file
      BY <1>0, <2>1 DEF file, ReadFile, Failed
    <3>2. Classify(specs[n]) = "omni-pitcher"
      BY <1>0, <1>2 DEF Before, Component, k, KindIn
    <3>3. DOMAIN file.routes.rules \subseteq Nat /\ IsFiniteSet(DOMAIN file.routes.rules)
      BY RoutingFiles, <2>1, <3>1, <3>2 DEF RoutingFiles
    <3>4. IsFiniteSet(streams)
      BY <3>3, RuleStreamsFinite
    <3>5. /\ loaded.routes = {file.routes} /\ loaded.streams = streams
          /\ loaded.kind = "omni-pitcher" /\ loaded.target = c.target
          /\ Component(n, k, loaded)
      <4> HIDE DEF streams
      <4> QED BY <1>0, <1>2, <3>4 DEF Before, Component, Fields
    <3> HIDE DEF loaded
    <3> QED BY <1>0, <3>3, <3>5 DEF Before, RoutesLoaded
  <2> HIDE DEF loaded
  <2>2. LoadRoutes(c) =
          IF Failed(file) THEN IF file.err = "unresolved" THEN unknown ELSE stops
          ELSE IF file.routes = Invalid THEN stops
          ELSE loaded
    BY <1>2 DEF LoadRoutes, file, loaded
  <2> HIDE DEF unknown, stops
  <2> QED BY <1>1, <2>1, <2>2 DEF k
<1>3. CASE c.routesPath = {}
  BY <1>1, <1>3 DEF LoadRoutes, k
<1> QED BY <1>2, <1>3

\* resolveK8sPitchers sets the streams of a k8s-pitcher, or targets that nobody
\* has followed.
LEMMA LoadK8sPitcherKeeps ==
    ASSUME specs \in Namespaces, NEW n \in Names, NEW c,
           Before(3, n, KindIn(specs[n]), c)
    PROVE  Before(4, n, KindIn(specs[n]), LoadK8sPitcher(c))
<1> DEFINE k == KindIn(specs[n])
           file == ReadFile(c, CHOOSE p \in c.profilePath : TRUE)
           p == file.k8s
           unknown == [c EXCEPT !.profile = {"unresolved"}, !.streamsUnresolved = TRUE,
                                !.notes = @ \cup {Note("streams unknown")}]
           fails == [c EXCEPT !.profile = {file.err}, !.startProblems = @ \cup {"profile"}]
           invalid == [c EXCEPT !.profile = {"invalid"}, !.startProblems = @ \cup {"profile"}]
           toFile == [c EXCEPT !.profile = {"ok"}, !.notes = @ \cup {Note("file")}]
           targets == {Target(url, FALSE) : url \in p.pitcher}
           pitches == [c EXCEPT !.profile = {"ok"}, !.target = targets]
           publishes == [c EXCEPT !.profile = {"ok"}, !.streams = p.stream]
<1> HIDE DEF file, k
<1>0. Before(3, n, k, c) /\ c.name = n
  BY DEF k, Before, Component
<1>1. Before(4, n, k, c)
  BY <1>0 DEF Before
<1>2. /\ Before(4, n, k, unknown) /\ Before(4, n, k, fails) /\ Before(4, n, k, invalid)
      /\ Before(4, n, k, toFile)
  <2>1. IsFiniteSet(c.startProblems \cup {"profile"})
    BY <1>0, OneMore DEF Before, Component
  <2> QED BY <1>0, <2>1 DEF Before, Component, Fields, RoutesLoaded
<1>3. \A t \in targets : Unfollowed(t)
  <2>1. \A url : Unfollowed(Target(url, FALSE))
    BY DEF Target, Unfollowed, TargetFields
  <2> HIDE DEF p
  <2> QED BY <2>1
<1>4. Before(4, n, k, pitches)
  <2> HIDE DEF targets
  <2> QED BY <1>0, <1>3 DEF Before, Component, Fields, RoutesLoaded
<1>5. CASE c.kind = "k8s-pitcher"
  <2>1. ASSUME ~Failed(file), ValidK8s(p)
        PROVE  Before(4, n, k, publishes)
    <3>1. file = specs[n].file
      BY <1>0, <2>1 DEF file, ReadFile, Failed
    <3>2. Classify(specs[n]) = "k8s-pitcher"
      BY <1>0, <1>5 DEF Before, Component, k, KindIn
    <3>3. IsFiniteSet(p.stream)
      BY K8sFiles, <2>1, <3>1, <3>2 DEF K8sFiles, ValidK8s
    <3> HIDE DEF p
    <3> QED BY <1>0, <1>5, <3>3 DEF Before, Component, Fields, RoutesLoaded
  <2>2. \/ ~Failed(file) /\ ValidK8s(p) /\ LoadK8sPitcher(c) = publishes
        \/ LoadK8sPitcher(c) \in {c, unknown, fails, invalid, toFile, pitches}
    BY DEF LoadK8sPitcher, file
  <2> HIDE DEF unknown, fails, invalid, toFile, pitches, publishes
  <2> QED BY <1>1, <1>2, <1>4, <2>1, <2>2 DEF k
<1>6. CASE c.kind # "k8s-pitcher"
  BY <1>1, <1>6 DEF LoadK8sPitcher, k
<1> QED BY <1>5, <1>6

-----------------------------------------------------------------------------
(* resolvePitchTargets. *)

\* What a target that arrives at omni-pitcher o says of it.
SaysOf(t, o) ==
    /\ o.kind = "omni-pitcher"
    /\ t.problem = "" =>
         t.streams = ViaStreams(o, t.path) /\ Running(o) /\ o.startProblems = {}
    /\ t.problem # "" /\ t.kind = "" => ~Running(o) \/ o.startProblems # {}

\* The kinds of finding that following a target may lead to.
TargetKinds == {"", "pitch-target-unresolved", "pitch-path-unknown"}

\* A target that has been followed in the namespace of omnis, by name.
Followed(t, omnis) ==
    /\ t.omni \subseteq Names
    /\ t.kind \in TargetKinds
    /\ t.omni = {} => t.problem # ""
    /\ \A n \in t.omni : t.omni = {n} /\ SaysOf(t, omnis[n])
    /\ t.problem # "" /\ t.kind = "" => t.omni # {}

\* What a target is told when it arrives at omni-pitcher o.
LEMMA FollowToSays ==
    ASSUME NEW t, DOMAIN t = TargetFields, t.kind = "", t.problem = "",
           NEW o, o.kind = "omni-pitcher"
    PROVE  /\ FollowTo(t, o).omni = {o.name} /\ SaysOf(FollowTo(t, o), o)
           /\ FollowTo(t, o).kind \in TargetKinds
<1> DEFINE at == [t EXCEPT !.omni = {o.name}]
           streams == ViaStreams(o, t.path)
           reached == [at EXCEPT !.streams = streams]
<1>1. /\ at.omni = {o.name} /\ at.kind = "" /\ at.problem = "" /\ at.path = t.path
      /\ DOMAIN at = TargetFields
  BY DEF TargetFields
<1> HIDE DEF at, streams
<1>2. /\ reached.omni = {o.name} /\ reached.streams = streams /\ reached.problem = ""
      /\ reached.path = t.path /\ reached.kind = ""
  BY <1>1 DEF TargetFields
<1>3. \A f \in {Fail(at, "pitch-path-unknown", "path")} :
        f.omni = {o.name} /\ f.kind = "pitch-path-unknown" /\ f.problem = "path"
  BY <1>1 DEF Fail, TargetFields
<1>4. \A f \in {Fail(at, "", "scaled to zero"), Fail(at, "", "cannot start")} :
        f.omni = {o.name} /\ f.problem # "" /\ f.kind = ""
  BY <1>1 DEF Fail, TargetFields
<1> HIDE DEF reached
<1>5. FollowTo(t, o) =
        IF at.path # PitchPath THEN Fail(at, "pitch-path-unknown", "path")
        ELSE IF ~Running(o) THEN Fail(at, "", "scaled to zero")
        ELSE IF o.startProblems # {} THEN Fail(at, "", "cannot start")
        ELSE reached
  BY <1>1 DEF FollowTo, at, reached, streams
<1>6. CASE at.path # PitchPath
  <2>1. FollowTo(t, o) \in {Fail(at, "pitch-path-unknown", "path")}
    BY <1>5, <1>6
  <2> QED BY <1>3, <2>1 DEF SaysOf, TargetKinds
<1>7. CASE at.path = PitchPath /\ ~(Running(o) /\ o.startProblems = {})
  <2>1. FollowTo(t, o) \in {Fail(at, "", "scaled to zero"), Fail(at, "", "cannot start")}
    BY <1>5, <1>7
  <2>2. /\ FollowTo(t, o).omni = {o.name} /\ FollowTo(t, o).problem # ""
        /\ FollowTo(t, o).kind = ""
    BY <1>4, <2>1
  <2> QED BY <1>7, <2>2 DEF SaysOf, TargetKinds
<1>8. CASE at.path = PitchPath /\ Running(o) /\ o.startProblems = {}
  BY <1>2, <1>5, <1>8 DEF SaysOf, streams, TargetKinds
<1> QED BY <1>6, <1>7, <1>8

\* An omni-pitcher is found under the name that the URL has for its host.
LEMMA ResolvePitchTargetFollows ==
    ASSUME \A n \in Names : components[n].name = n,
           NEW t, Unfollowed(t)
    PROVE  Followed(ResolvePitchTarget(t), components)
<1> DEFINE there == [t EXCEPT !.path = t.url.path]
           omnis == OmniPitcherAt(t.url.host)
           o == CHOOSE c \in omnis : TRUE
           path == t.url.path
<1>1. /\ DOMAIN there = TargetFields /\ there.kind = "" /\ there.problem = ""
      /\ there.omni = {}
  <2> HIDE DEF path
  <2>1. there = [t EXCEPT !.path = path]
    BY DEF path
  <2> QED BY <2>1 DEF Unfollowed, TargetFields
<1>2. ASSUME NEW u, DOMAIN u = TargetFields, u.omni = {}, NEW problem, problem # ""
      PROVE  Followed(Fail(u, "pitch-target-unresolved", problem), components)
  <2>1. /\ Fail(u, "pitch-target-unresolved", problem).omni = {}
        /\ Fail(u, "pitch-target-unresolved", problem).kind = "pitch-target-unresolved"
        /\ Fail(u, "pitch-target-unresolved", problem).problem = problem
    BY <1>2 DEF Fail, TargetFields
  <2> QED BY <1>2, <2>1 DEF Followed, TargetKinds
<1> HIDE DEF there
<1>3. ASSUME omnis # {}
      PROVE  Followed(FollowTo(there, o), components)
  <2>1. o.kind = "omni-pitcher" /\ o.name \in Names /\ components[o.name] = o
    BY <1>3 DEF OmniPitcherAt
  <2> HIDE DEF o
  <2>2. /\ FollowTo(there, o).omni = {o.name} /\ SaysOf(FollowTo(there, o), o)
        /\ FollowTo(there, o).kind \in TargetKinds
    BY <1>1, <2>1, FollowToSays
  <2> QED BY <2>1, <2>2 DEF Followed
<1> HIDE DEF omnis, o
<1>4. ResolvePitchTarget(t) =
        IF t.unknown THEN Fail(t, "pitch-target-unresolved", "unknown")
        ELSE IF ~t.url.http THEN Fail(t, "pitch-target-unresolved", "no URL")
        ELSE IF omnis = {} THEN Fail(there, "pitch-target-unresolved", "no omni-pitcher")
        ELSE FollowTo(there, o)
  BY DEF ResolvePitchTarget, there, omnis, o
<1>5. DOMAIN t = TargetFields /\ t.omni = {}
  BY DEF Unfollowed
<1>6. /\ Followed(Fail(t, "pitch-target-unresolved", "unknown"), components)
      /\ Followed(Fail(t, "pitch-target-unresolved", "no URL"), components)
      /\ Followed(Fail(there, "pitch-target-unresolved", "no omni-pitcher"), components)
  BY <1>1, <1>2, <1>5
<1> QED BY <1>3, <1>4, <1>6

\* The last pass changes what a component says of its targets and nothing else.
LEMMA FollowTargetSame ==
    ASSUME NEW n, NEW k, NEW c, Before(4, n, k, c)
    PROVE  /\ Component(n, k, FollowTarget(c))
           /\ RoutesLoaded(FollowTarget(c))
           /\ \A t : SaysOf(t, c) => SaysOf(t, FollowTarget(c))
<1> DEFINE d == FollowTarget(c)
           targets == {ResolvePitchTarget(t) : t \in c.target}
<1>1. d = [c EXCEPT !.target = targets]
  BY DEF FollowTarget
<1> HIDE DEF d, targets
<1>2. /\ d.kind = c.kind /\ d.replicas = c.replicas /\ d.startProblems = c.startProblems
      /\ d.streams = c.streams /\ d.routes = c.routes
      /\ Component(n, k, d)
  BY <1>1 DEF Before, Component, Fields
<1>3. RoutesLoaded(d)
  BY <1>2 DEF Before, RoutesLoaded
<1>4. \A path : ViaStreams(d, path) = ViaStreams(c, path)
  BY <1>2 DEF ViaStreams
<1>5. \A t : SaysOf(t, c) => SaysOf(t, d)
  BY <1>2, <1>4 DEF SaysOf, Running
<1> QED BY <1>2, <1>3, <1>5 DEF d

-----------------------------------------------------------------------------
(* The invariant of Discover. *)

\* The component of Deployment n once every pass is over.
Resolved(n, c, omnis) ==
    /\ Component(n, KindIn(specs[n]), c)
    /\ RoutesLoaded(c)
    /\ \A t \in c.target : Followed(t, omnis)

PassesInv ==
    /\ specs \in Namespaces
    /\ pass \in 0..5
    /\ pass \in 1..4 => \A n \in Names : Before(pass, n, KindIn(specs[n]), components[n])
    /\ pass = 5 => \A n \in Names : Resolved(n, components[n], components)

\* The first step resolves every Deployment.
LEMMA ResolveStep ==
    ASSUME PassesInv, Resolve
    PROVE  PassesInv'
<1>1. \A n \in Names : Before(1, n, KindIn(specs[n]), components'[n])
  <2> TAKE n \in Names
  <2>1. components'[n] = ResolveComponent(n, specs[n])
    BY DEF Resolve
  <2>2. Fresh(n, KindIn(specs[n]), components'[n])
    BY <2>1, ComponentFresh, NamespaceAssumption DEF PassesInv
  <2> QED BY <2>2 DEF Fresh, Before, RoutesLoaded
<1>2. pass' = 1 /\ specs' = specs
  BY DEF Resolve
<1>3. \A n \in Names : Before(pass, n, KindIn(specs[n]), components[n])'
  BY <1>1, <1>2 DEF Before, Component, RoutesLoaded, KindIn
<1> QED BY <1>2, <1>3 DEF PassesInv

\* The passes before the targets are followed.
LEMMA EarlyPass ==
    ASSUME PassesInv, RunPass, pass \in 1..3
    PROVE  PassesInv'
<1>1. /\ specs \in Namespaces /\ specs' = specs /\ pass' = pass + 1 /\ pass' \in 2..4
      /\ pass \in {1, 2, 3}
  BY DEF PassesInv, RunPass
<1>2. \A n \in Names : Before(pass + 1, n, KindIn(specs[n]), components'[n])
  <2> TAKE n \in Names
  <2>1. components'[n] = Pass(pass, components[n])
    BY DEF RunPass
  <2>2. Before(pass, n, KindIn(specs[n]), components[n])
    BY <1>1 DEF PassesInv
  <2>3. CASE pass = 1
    BY <2>1, <2>2, <2>3, LoadProfileKeeps DEF Pass
  <2>4. CASE pass = 2
    BY <1>1, <2>1, <2>2, <2>4, LoadRoutesKeeps DEF Pass
  <2>5. CASE pass = 3
    BY <1>1, <2>1, <2>2, <2>5, LoadK8sPitcherKeeps DEF Pass
  <2> QED BY <1>1, <2>3, <2>4, <2>5
<1>3. \A n \in Names : Before(pass', n, KindIn(specs'[n]), components'[n])
  BY <1>1, <1>2
<1>4. \A n \in Names : Before(pass, n, KindIn(specs[n]), components[n])'
  BY <1>3 DEF Before, Component, RoutesLoaded, KindIn
<1> QED BY <1>1, <1>4 DEF PassesInv

\* The last pass.  It follows every target among the components as they were
\* before it, which the omni-pitchers stay.
LEMMA LastPass ==
    ASSUME PassesInv, RunPass, pass = 4
    PROVE  PassesInv'
<1>1. specs \in Namespaces /\ specs' = specs /\ pass' = 5
  BY DEF PassesInv, RunPass
<1>2. \A n \in Names : Before(4, n, KindIn(specs[n]), components[n])
  BY DEF PassesInv
<1>3. \A n \in Names : components'[n] = FollowTarget(components[n])
  BY DEF RunPass, Pass
<1>4. \A n \in Names :
        /\ Component(n, KindIn(specs[n]), components'[n])
        /\ RoutesLoaded(components'[n])
        /\ \A t : SaysOf(t, components[n]) => SaysOf(t, components'[n])
  BY <1>2, <1>3, FollowTargetSame
<1>5. \A n \in Names : components[n].name = n
  BY <1>2 DEF Before, Component
<1>6. \A n \in Names : \A t \in components'[n].target : Followed(t, components')
  <2> TAKE n \in Names
  <2>1. components'[n].target = {ResolvePitchTarget(t) : t \in components[n].target}
    <3> DEFINE targets == {ResolvePitchTarget(t) : t \in components[n].target}
    <3>1. components'[n] = [components[n] EXCEPT !.target = targets]
      BY <1>3 DEF FollowTarget
    <3> HIDE DEF targets
    <3>2. components'[n].target = targets
      BY <1>2, <3>1 DEF Before, Component, Fields
    <3> QED BY <3>2 DEF targets
  <2>2. \A t \in components[n].target : Followed(ResolvePitchTarget(t), components)
    BY <1>2, <1>5, ResolvePitchTargetFollows DEF Before
  <2>3. \A t : Followed(t, components) => Followed(t, components')
    BY <1>4 DEF Followed
  <2> QED BY <2>1, <2>2, <2>3
<1>7. \A n \in Names : Resolved(n, components[n], components)'
  BY <1>1, <1>4, <1>6
     DEF Resolved, Component, RoutesLoaded, KindIn, Followed, SaysOf, ViaStreams, Running
<1> QED BY <1>1, <1>7 DEF PassesInv

\* For every namespace: in what state Discover leaves a component before each pass,
\* and when it returns.
THEOREM PassesInvariant == Spec => []PassesInv
<1>1. Init => PassesInv
  BY DEF Init, PassesInv
<1>2. PassesInv /\ [Next]_vars => PassesInv'
  <2> SUFFICES ASSUME PassesInv, [Next]_vars
               PROVE  PassesInv'
    OBVIOUS
  <2>1. CASE Resolve
    BY <2>1, ResolveStep
  <2>2. CASE RunPass
    BY <2>2, EarlyPass, LastPass DEF RunPass
  <2>3. CASE UNCHANGED vars
    <3>1. specs' = specs /\ components' = components /\ pass' = pass
      BY <2>3 DEF vars
    <3>2. \A n \in Names : Resolved(n, components[n], components)
                         => Resolved(n, components[n], components)'
      BY <3>1 DEF Resolved
    <3> QED BY <3>1, <3>2 DEF PassesInv
  <2> QED BY <2>1, <2>2, <2>3 DEF Next
<1> QED BY <1>1, <1>2, PTL DEF Spec

-----------------------------------------------------------------------------
(* What the views show of the Result. *)

\* The rule that StreamRoutes.Resolve applies is one that matches, if any does.
LEMMA FirstRuleMatches ==
    ASSUME NEW r, DOMAIN r.rules \subseteq Nat, NEW path, NEW m
    PROVE  \/ FirstRule(r, path, m) = 0
           \/ /\ FirstRule(r, path, m) \in DOMAIN r.rules
              /\ path \in r.rules[FirstRule(r, path, m)].paths
<1> DEFINE match == {i \in DOMAIN r.rules :
                       path \in r.rules[i].paths /\ m \in r.rules[i].msgs}
<1>1. ASSUME match # {}
      PROVE  \E i \in match : \A j \in match : i <= j
  <2>1. match \subseteq Nat
    OBVIOUS
  <2> HIDE DEF match
  <2> QED BY <1>1, <2>1, LeastNumber
<1>2. FirstRule(r, path, m) = IF match = {} THEN 0
                              ELSE CHOOSE i \in match : \A j \in match : i <= j
  BY DEF FirstRule
<1>3. match = {} => FirstRule(r, path, m) = 0
  BY <1>2
<1>4. match # {} => FirstRule(r, path, m) \in match
  <2> HIDE DEF match
  <2> QED BY <1>1, <1>2
<1> QED BY <1>3, <1>4

\* The default stream of a routing file is among those that pitches may end up on, by
\* rule 0.
LEMMA DefaultReached ==
    ASSUME NEW o, NEW r \in o.routes, NEW path
    PROVE  r.default \in ViaStreams(o, path) /\ 0 \in WhenOn(o, r.default, path)
<1> DEFINE streams(q) == {q.default} \cup
               {q.rules[i].stream : i \in {j \in DOMAIN q.rules : path \in q.rules[j].paths}}
           when(q) == {i \in DOMAIN q.rules : /\ path = "" \/ path \in q.rules[i].paths
                                              /\ q.rules[i].stream = r.default}
                      \cup (IF q.default = r.default THEN {0} ELSE {})
<1>1. r.default \in streams(r) /\ 0 \in when(r)
  OBVIOUS
<1>2. /\ ViaStreams(o, path) = UNION {streams(q) : q \in o.routes}
      /\ WhenOn(o, r.default, path) = UNION {when(q) : q \in o.routes}
  BY DEF ViaStreams, WhenOn
<1> HIDE DEF streams, when
<1> QED BY <1>1, <1>2

\* So is the stream of a rule that has the path.
LEMMA RuleReached ==
    ASSUME NEW o, NEW r \in o.routes, NEW i \in DOMAIN r.rules,
           NEW path \in r.rules[i].paths
    PROVE  /\ r.rules[i].stream \in ViaStreams(o, path)
           /\ i \in WhenOn(o, r.rules[i].stream, path)
<1> DEFINE s == r.rules[i].stream
           streams(q) == {q.default} \cup
               {q.rules[k].stream : k \in {j \in DOMAIN q.rules : path \in q.rules[j].paths}}
           when(q) == {k \in DOMAIN q.rules : /\ path = "" \/ path \in q.rules[k].paths
                                              /\ q.rules[k].stream = s}
                      \cup (IF q.default = s THEN {0} ELSE {})
<1>1. s \in streams(r) /\ i \in when(r)
  OBVIOUS
<1>2. /\ ViaStreams(o, path) = UNION {streams(q) : q \in o.routes}
      /\ WhenOn(o, s, path) = UNION {when(q) : q \in o.routes}
  BY DEF ViaStreams, WhenOn
<1> HIDE DEF s, streams, when
<1>3. s \in ViaStreams(o, path) /\ i \in WhenOn(o, s, path)
  BY <1>1, <1>2
<1> QED BY <1>3 DEF s

\* Where omni-pitcher o sends a message that is pitched on path, and by what rule.
LEMMA PitchThroughReaches ==
    ASSUME NEW o, RoutesLoaded(o), NEW path, NEW m,
           NEW w \in PitchThrough(o, path, m), NEW d \in w.result
    PROVE  \E s \in o.streams :
             /\ d = DryRun(s) /\ s \in ViaStreams(o, path)
             /\ w.via = {o.name} /\ w.rule \subseteq WhenOn(o, s, path)
<1>1. m \notin Rejected
  <2>1. \A via, rule, problem : Way(via, rule, problem, {}).result = {}
    BY DEF Way
  <2>2. m \in Rejected => w = Way({o.name}, {}, "rejected", {})
    BY DEF PitchThrough
  <2> QED BY <2>1, <2>2
<1>2. CASE o.routes # {}
  <2>1. PICK r \in o.routes :
          w = Way({o.name}, {FirstRule(r, path, m)}, "",
                  {DryRun(RoutedTo(r, FirstRule(r, path, m)))})
    BY <1>1, <1>2 DEF PitchThrough
  <2> DEFINE i == FirstRule(r, path, m)
             s == RoutedTo(r, i)
  <2>2. w.via = {o.name} /\ w.rule = {i} /\ d = DryRun(s)
    BY <2>1 DEF Way
  <2>3. \/ i = 0
        \/ i \in DOMAIN r.rules /\ path \in r.rules[i].paths
    BY FirstRuleMatches DEF RoutesLoaded
  <2>4. CASE i = 0
    <3>1. s = r.default
      BY <2>4 DEF RoutedTo
    <3> HIDE DEF i, s
    <3>2. s \in o.streams /\ s \in ViaStreams(o, path) /\ 0 \in WhenOn(o, s, path)
      BY <3>1, DefaultReached DEF RoutesLoaded
    <3> QED BY <2>2, <2>4, <3>2
  <2>5. CASE i # 0
    <3>1. s = r.rules[i].stream
      BY <2>5 DEF RoutedTo
    <3> HIDE DEF i, s
    <3>2. s \in o.streams /\ s \in ViaStreams(o, path) /\ i \in WhenOn(o, s, path)
      BY <2>3, <2>5, <3>1, RuleReached DEF RoutesLoaded
    <3> QED BY <2>2, <3>2
  <2> QED BY <2>4, <2>5
<1>3. CASE o.routes = {}
  <2>1. \A problem : Way({o.name}, {}, problem, {}).result = {}
    BY DEF Way
  <2>2. PICK s \in o.streams : w = Way({o.name}, {}, "", {DryRun(s)})
    BY <1>1, <1>3, <2>1 DEF PitchThrough
  <2> QED BY <1>3, <2>2 DEF Way, ViaStreams
<1> QED BY <1>2, <1>3

\* No pitch ends up on a stream that omni-pitcher o does not publish to.
LEMMA PitchThroughStreams ==
    ASSUME NEW o, RoutesLoaded(o), NEW path
    PROVE  ViaStreams(o, path) \subseteq o.streams
BY DEF ViaStreams, RoutesLoaded

\* Where omni-pitcher o routes, every stream that pitches on path may end up on is
\* chosen by a rule for path or is the default.
LEMMA ViaStreamsChosen ==
    ASSUME NEW o, NEW path, NEW s \in ViaStreams(o, path)
    PROVE  o.routes = {} \/ WhenOn(o, s, path) # {}
<1> SUFFICES ASSUME o.routes # {} PROVE WhenOn(o, s, path) # {}
  OBVIOUS
<1> DEFINE rules(r) == {j \in DOMAIN r.rules : path \in r.rules[j].paths}
<1>1. PICK r \in o.routes : s \in {r.default} \cup {r.rules[i].stream : i \in rules(r)}
  BY DEF ViaStreams
<1>2. CASE s = r.default
  BY <1>2, DefaultReached
<1>3. CASE \E i \in rules(r) : s = r.rules[i].stream
  BY <1>3, RuleReached
<1> HIDE DEF rules
<1> QED BY <1>1, <1>2, <1>3

\* pitchtarget.go:57-59, for every namespace: a target says where its omni-pitcher sends
\* what is pitched on its path - everything that a message there is published to, and
\* where the omni-pitcher routes nothing that neither a rule for this path nor the default
\* chooses - whatever the routing file is, although another pass loads the routes.
THEOREM TargetsFollowOmniTheorem == Spec => []TargetsFollowOmni
<1>1. PassesInv => TargetsFollowOmni
  <2> SUFFICES ASSUME PassesInv, Done, NEW c \in Comps, NEW t \in c.target, NEW n \in t.omni,
                      t.problem = ""
               PROVE  /\ t.streams \subseteq components[n].streams
                      /\ \A s \in t.streams :
                           components[n].routes = {} \/ WhenOn(components[n], s, t.path) # {}
                      /\ \A m \in Messages : \A w \in PitchThrough(components[n], t.path, m) :
                           \A d \in w.result : d.stream \in t.streams
    BY DEF TargetsFollowOmni
  <2>1. /\ n \in Names /\ t.streams = ViaStreams(components[n], t.path)
        /\ RoutesLoaded(components[n])
    BY DEF PassesInv, Done, Comps, Resolved, Followed, SaysOf
  <2>2. t.streams \subseteq components[n].streams
    BY <2>1, PitchThroughStreams
  <2>4. \A s \in t.streams :
          components[n].routes = {} \/ WhenOn(components[n], s, t.path) # {}
    BY <2>1, ViaStreamsChosen
  <2>3. ASSUME NEW m \in Messages, NEW w \in PitchThrough(components[n], t.path, m),
               NEW d \in w.result
        PROVE  d.stream \in t.streams
    <3> DEFINE o == components[n]
               path == t.path
    <3>0. RoutesLoaded(o) /\ w \in PitchThrough(o, path, m) /\ t.streams = ViaStreams(o, path)
      BY <2>1, <2>3
    <3> HIDE DEF o, path
    <3>1. PICK s \in o.streams : d = DryRun(s) /\ s \in ViaStreams(o, path)
      BY <2>3, <3>0, PitchThroughReaches
    <3>2. d.stream = s
      BY <3>1 DEF DryRun
    <3> QED BY <3>0, <3>1, <3>2
  <2> QED BY <2>2, <2>3, <2>4
<1> QED BY <1>1, PassesInvariant, PTL

\* pitchtarget.go:31-33, for every namespace: a pitch that cannot arrive is a finding.
THEOREM PitchFailuresCoveredTheorem == Spec => []PitchFailuresCovered
<1>1. PassesInv => PitchFailuresCovered
  <2> SUFFICES ASSUME PassesInv, Done, NEW c \in PitchersOf, NEW t \in c.target,
                      Running(c), c.startProblems = {}, t.problem # ""
               PROVE  IF t.kind # "" THEN t.kind \in ComponentFindings(c)
                      ELSE \E n \in t.omni :
                             ComponentFindings(components[n])
                               \cap {"scaled-to-zero", "pod-cannot-start"} # {}
    BY DEF PitchFailuresCovered
  <2>1. CASE t.kind # ""
    BY <2>1 DEF ComponentFindings, PitchFindings
  <2>2. CASE t.kind = ""
    <3>1. PICK n \in t.omni :
            /\ n \in Names
            /\ components[n].kind = "omni-pitcher"
            /\ ~Running(components[n]) \/ components[n].startProblems # {}
      <4>1. PICK a \in Names : c = components[a]
        BY DEF PitchersOf, Comps
      <4>2. Followed(t, components)
        BY <4>1 DEF PassesInv, Done, Resolved
      <4> QED BY <2>2, <4>2 DEF Followed, SaysOf
    <3>2. components[n].role = "pitcher"
      <4>1. Component(n, KindIn(specs[n]), components[n])
        BY <3>1 DEF PassesInv, Done, Resolved
      <4> QED BY <3>1, <4>1 DEF Component, Role, Catchers, Pitchers
    <3>3. CASE components[n].startProblems # {}
      BY <2>2, <3>3 DEF ComponentFindings
    <3>4. CASE ~Running(components[n])
      BY <2>2, <3>2, <3>4 DEF ComponentFindings, RoleFindings
    <3> QED BY <3>1, <3>3, <3>4
  <2> QED BY <2>1, <2>2
<1> QED BY <1>1, PassesInvariant, PTL

\* A stream that a dry run from pitcher c publishes to is one that a routed component
\* publishes to, and the overview has c among the writers, by the same way.
WrittenFrom(c, w, s) ==
    /\ \E p \in Comps : Routed(p) /\ p.role = "pitcher" /\ s \in p.streams
    /\ \E u \in Writers(s) :
         u.name = c.name /\ u.via = w.via \ {c.name} /\ w.rule \subseteq u.when

\* What a dry run publishes to is written by the pitcher, as the overview has it.
LEMMA DryRunWritten ==
    ASSUME PassesInv, Done, NEW c \in PitchersOf, NEW m,
           NEW w \in DryRunFrom(c, m), NEW d \in w.result
    PROVE  \E s : d = DryRun(s) /\ WrittenFrom(c, w, s)
<1>1. /\ c.name \in Names /\ c = components[c.name] /\ c.role = "pitcher"
      /\ RoutesLoaded(c) /\ Running(c) /\ c.startProblems = {}
  <2>1. PICK n \in Names : c = components[n]
    BY DEF PitchersOf, Comps
  <2>2. c.name = n /\ RoutesLoaded(c) /\ c.role = "pitcher"
    BY <2>1 DEF PassesInv, Done, Resolved, Component, PitchersOf
  <2>3. Running(c) /\ c.startProblems = {}
    BY DEF DryRunFrom
  <2> QED BY <2>1, <2>2, <2>3
<1>2. c \in Comps
  BY DEF PitchersOf
\* What c publishes to itself.
<1>3. ASSUME NEW s \in c.streams, d = DryRun(s),
             w.via \ {c.name} = {}, w.rule \subseteq WhenOn(c, s, "")
      PROVE  WrittenFrom(c, w, s)
  <2>1. Routed(c)
    BY <1>1, <1>3 DEF Routed
  <2> DEFINE u == [name |-> c.name, via |-> {}, when |-> WhenOn(c, s, "")]
  <2>2. u \in Writers(s)
    BY <1>1, <1>2, <1>3, <2>1 DEF Writers
  <2>3. u.name = c.name /\ u.via = w.via \ {c.name} /\ w.rule \subseteq u.when
    BY <1>3
  <2> QED BY <1>1, <1>2, <1>3, <2>1, <2>2, <2>3 DEF WrittenFrom
<1>4. CASE c.kind = "omni-pitcher"
  <2>1. w \in PitchThrough(c, PitchPath, m)
    BY <1>1, <1>4 DEF DryRunFrom
  <2>2. PICK s \in c.streams : /\ d = DryRun(s)
                               /\ w.via = {c.name} /\ w.rule \subseteq WhenOn(c, s, PitchPath)
    BY <1>1, <2>1, PitchThroughReaches
  <2>3. WhenOn(c, s, PitchPath) \subseteq WhenOn(c, s, "")
    <3> DEFINE when(r, path) == {i \in DOMAIN r.rules :
                                   /\ path = "" \/ path \in r.rules[i].paths
                                   /\ r.rules[i].stream = s}
                                \cup (IF r.default = s THEN {0} ELSE {})
    <3>1. \A r : when(r, PitchPath) \subseteq when(r, "")
      OBVIOUS
    <3>2. /\ WhenOn(c, s, PitchPath) = UNION {when(r, PitchPath) : r \in c.routes}
          /\ WhenOn(c, s, "") = UNION {when(r, "") : r \in c.routes}
      BY DEF WhenOn
    <3> HIDE DEF when
    <3>3. UNION {when(r, PitchPath) : r \in c.routes} \subseteq UNION {when(r, "") : r \in c.routes}
      BY <3>1
    <3> QED BY <3>2, <3>3
  <2> QED BY <1>3, <2>2, <2>3
<1>5. CASE c.kind # "omni-pitcher"
  <2>1. \/ \E s \in c.streams : w = Way({}, {}, "", {DryRun(s)})
        \/ \E t \in c.target : w \in PitchTo(t, m)
    BY <1>1, <1>5 DEF DryRunFrom
  <2>2. CASE \E s \in c.streams : w = Way({}, {}, "", {DryRun(s)})
    <3>1. PICK s \in c.streams : w = Way({}, {}, "", {DryRun(s)})
      BY <2>2
    <3>2. d = DryRun(s) /\ w.via = {} /\ w.rule = {}
      BY <3>1 DEF Way
    <3> QED BY <1>3, <3>2
  \* What its omni-pitcher does with it.
  <2>3. CASE \E t \in c.target : w \in PitchTo(t, m)
    <3>1. PICK t \in c.target : w \in PitchTo(t, m)
      BY <2>3
    <3>2. t.problem = "" /\ t.omni # {}
      <4>1. Way(t.omni, {}, t.problem, {}).result = {}
        BY DEF Way
      <4> QED BY <3>1, <4>1 DEF PitchTo
    <3>3. PICK n \in t.omni : w \in PitchThrough(components[n], t.path, m)
      BY <3>1, <3>2 DEF PitchTo
    <3> DEFINE o == components[n]
    <3>4. Followed(t, components)
      BY <1>1 DEF PassesInv, Done, Resolved
    <3>5. /\ n \in Names /\ t.omni = {n} /\ SaysOf(t, o)
      BY <3>4 DEF Followed
    <3>6. RoutesLoaded(o) /\ o.name = n /\ o.role = "pitcher" /\ o.kind = "omni-pitcher"
      <4>1. o.kind = "omni-pitcher"
        BY <3>5 DEF SaysOf
      <4>2. RoutesLoaded(o) /\ Component(n, KindIn(specs[n]), o)
        BY <3>5 DEF PassesInv, Done, Resolved
      <4> HIDE DEF o
      <4> QED BY <4>1, <4>2 DEF Component, Role, Catchers, Pitchers
    <3>7. n # c.name
      BY <1>1, <1>5, <3>6
    <3> HIDE DEF o
    <3>8. PICK s \in o.streams : /\ d = DryRun(s) /\ s \in ViaStreams(o, t.path)
                                 /\ w.via = {n} /\ w.rule \subseteq WhenOn(o, s, t.path)
      BY <3>3, <3>6, PitchThroughReaches DEF o
    <3>9. s \in t.streams /\ Routed(o) /\ o \in Comps
      BY <3>2, <3>5, <3>6, <3>8 DEF SaysOf, Routed, Comps, o
    <3> DEFINE u == [name |-> c.name, via |-> t.omni,
                     when |-> UNION {WhenOn(components[a], s, t.path) : a \in t.omni}]
    <3>10. u \in ViaWriters(s)
      <4> DEFINE writers(x) ==
                   {[name |-> x.name, via |-> y.omni,
                     when |-> UNION {WhenOn(components[a], s, y.path) : a \in y.omni}] :
                      y \in {z \in x.target : s \in z.streams}}
      <4>1. u \in writers(c)
        BY <3>9
      <4>2. ViaWriters(s) =
              UNION {writers(x) : x \in {y \in Comps : Running(y) /\ y.startProblems = {}}}
        BY DEF ViaWriters
      <4> HIDE DEF writers, u
      <4> QED BY <1>1, <1>2, <4>1, <4>2
    <3>11. u.name = c.name /\ u.via = {n} /\ u.when = WhenOn(o, s, t.path)
      BY <3>5 DEF o
    <3>12. u \in Writers(s)
      BY <3>10 DEF Writers
    <3> HIDE DEF u
    <3>13. WrittenFrom(c, w, s)
      BY <3>6, <3>7, <3>8, <3>9, <3>11, <3>12 DEF WrittenFrom
    <3> QED BY <3>8, <3>13
  <2> QED BY <2>1, <2>2, <2>3
<1> QED BY <1>4, <1>5

\* For every namespace: a dry run publishes where the overview says that the pitcher
\* does, through the omni-pitcher and by a rule that the overview names.
THEOREM DryRunsAgreeTheorem == Spec => []DryRunsAgree
<1>1. PassesInv => DryRunsAgree
  <2> SUFFICES ASSUME PassesInv, Done, NEW c \in PitchersOf, NEW m \in Messages,
                      NEW w \in DryRunFrom(c, m), NEW d \in w.result
               PROVE  /\ d.stream \in AllStreams
                      /\ \E u \in Writers(d.stream) :
                           /\ u.name = c.name
                           /\ u.via = w.via \ {c.name}
                           /\ w.rule \subseteq u.when
    BY DEF DryRunsAgree
  <2>1. PICK s : d = DryRun(s) /\ WrittenFrom(c, w, s)
    BY DryRunWritten
  <2>2. d.stream = s
    BY <2>1 DEF DryRun
  <2> QED BY <2>1, <2>2 DEF WrittenFrom, AllStreams
<1> QED BY <1>1, PassesInvariant, PTL

\* For every namespace: no dry run ends at a stream that nobody reads without the
\* overview having reported the stream, unless a catcher reads it on demand.
THEOREM DeadEndsReportedTheorem == Spec => []DeadEndsReported
<1>1. PassesInv => DeadEndsReported
  <2> SUFFICES ASSUME PassesInv, Done, NEW c \in PitchersOf, NEW m \in Messages,
                      NEW w \in DryRunFrom(c, m), NEW d \in w.result, d.reachesNobody
               PROVE  \/ d.stream \in UnreadFindings
                      \/ \E r \in Comps : Routed(r) /\ d.stream \in r.onDemand
    BY DEF DeadEndsReported
  <2>1. PICK s : d = DryRun(s) /\ WrittenFrom(c, w, s)
    BY DryRunWritten
  <2>2. d.stream = s /\ ~\E r \in Comps : Routed(r) /\ r.role = "catcher" /\ s \in r.streams
    BY <2>1 DEF DryRun
  <2>3. Unread(s) /\ s \in AllStreams
    BY <2>1, <2>2 DEF WrittenFrom, Unread, AllStreams
  <2> QED BY <2>2, <2>3 DEF UnreadFindings, OnDemandReaders
<1> QED BY <1>1, PassesInvariant, PTL
-----------------------------------------------------------------------------
(* The pages. *)

\* Every kind of finding that the passes may lead to has its place in the table.
ReportedKinds == {"unread-stream", "pod-cannot-start", "scaled-to-zero", "streams-unknown",
                  "pitch-target-unresolved", "pitch-path-unknown", "pitch-target-invalid",
                  "profile-missing", "profile-unresolved"}

\* They are all in FindingKinds.
LEMMA ReportedKnown ==
    ASSUME NEW kind \in ReportedKinds
    PROVE  IsKnown(kind)
<1>1. /\ DOMAIN FindingKinds = 1..12
      /\ FindingKinds[1][1] = "pod-cannot-start" /\ FindingKinds[2][1] = "unread-stream"
      /\ FindingKinds[3][1] = "pitch-path-unknown"
      /\ FindingKinds[4][1] = "pitch-target-unresolved"
      /\ FindingKinds[5][1] = "pitch-target-invalid"
      /\ FindingKinds[9][1] = "profile-missing"
      /\ FindingKinds[10][1] = "profile-unresolved"
      /\ FindingKinds[11][1] = "streams-unknown"
      /\ FindingKinds[12][1] = "scaled-to-zero"
  BY DEF FindingKinds
<1> QED BY <1>1 DEF IsKnown, ReportedKinds

\* What a component is reported for, once its targets are followed.
LEMMA ComponentKinds ==
    ASSUME PassesInv, Done, NEW c \in Comps
    PROVE  ComponentFindings(c) \subseteq ReportedKinds \ {"unread-stream"}
<1>1. \A t \in c.target : t.kind \in TargetKinds
  BY DEF PassesInv, Done, Comps, Resolved, Followed
<1>2. PitchFindings(c) \subseteq
        {"pitch-target-unresolved", "pitch-path-unknown", "pitch-target-invalid"}
  BY <1>1 DEF PitchFindings, TargetKinds
<1>3. RoleFindings(c) \subseteq {"scaled-to-zero", "streams-unknown"}
  BY DEF RoleFindings
<1>4. ProfileFindings(c) \subseteq {"profile-missing", "profile-unresolved"}
  BY DEF ProfileFindings
<1> QED BY <1>2, <1>3, <1>4 DEF ComponentFindings, ReportedKinds

\* web.go:183-184, for every namespace: no finding ends among the unknown kinds.
THEOREM FindingsRankedTheorem == Spec => []FindingsRanked
<1>1. PassesInv => FindingsRanked
  <2> SUFFICES ASSUME PassesInv, Done, NEW f \in Findings
               PROVE  IsKnown(f[1])
    BY DEF FindingsRanked, Group
  <2>1. f[1] \in ReportedKinds
    <3>1. CASE \E s \in UnreadFindings : f = <<"unread-stream", s>>
      BY <3>1 DEF ReportedKinds
    <3>2. CASE \E c \in Comps : \E p \in c.startProblems : f = <<"pod-cannot-start", c.name, p>>
      BY <3>2 DEF ReportedKinds
    <3>3. CASE \E c \in Comps : \E k \in ComponentFindings(c) : f = <<k, c.name>>
      BY <3>3, ComponentKinds
    <3> QED BY <3>1, <3>2, <3>3 DEF Findings
  <2> QED BY <2>1, ReportedKnown
<1> QED BY <1>1, PassesInvariant, PTL

-----------------------------------------------------------------------------
(* Why a pitcher has no streams. *)

\* Why a pitcher whose pod starts has no streams, if it has none: a note says that they
\* are unknown, or that it writes to a file, or that it has no default; or it sends what it
\* has to an omni-pitcher; or its REDIS_STREAM is the empty string.
Accounted(c, s) ==
    \/ c.streams # {} \/ c.startProblems # {}
    \/ c.streamsUnresolved = TRUE /\ Note("streams unknown") \in c.notes
    \/ Note("file") \in c.notes
    \/ c.kind # "omni-pitcher" /\ (c.target # {} \/ Note("default stream unknown") \in c.notes)
    \/ Lookup(s, "REDIS_STREAM", {}) = Known({})

\* Before pass i it may still wait for the pass that reads its file.
AccountedBefore(i, c, s) ==
    c.role = "pitcher" =>
        \/ Accounted(c, s)
        \/ i <= 2 /\ c.kind = "omni-pitcher" /\ c.routesPath # {}
        \/ i <= 3 /\ c.kind = "k8s-pitcher" /\ c.profilePath # {}

\* setStreams says that it does not know the streams, or sets them.
LEMMA SetStreamsAccounts ==
    ASSUME NEW c, DOMAIN c = Fields, NEW streams, NEW values, DOMAIN values = {1}, NEW s,
           \/ Unknown(values[1][2]) \/ streams # {}
           \/ c.kind # "omni-pitcher" /\ Note("default stream unknown") \in c.notes
           \/ Lookup(s, "REDIS_STREAM", {}) = Known({})
    PROVE  Accounted(SetStreams(c, streams, values), s)
<1> DEFINE d == SetStreams(c, streams, values)
           unknown == {i \in DOMAIN values : Unknown(values[i][2])}
           read == {i \in DOMAIN values : \A j \in unknown : i < j}
           more == UNION {NoteUnresolved(values[i][1], values[i][2]) : i \in read}
           noted == [c EXCEPT !.notes = @ \cup more]
<1>1. unknown # {} <=> Unknown(values[1][2])
  OBVIOUS
<1> HIDE DEF more, unknown
<1>2. DOMAIN noted = Fields /\ noted.kind = c.kind /\ c.notes \subseteq noted.notes
  BY DEF Fields
<1>3. d = IF unknown = {} THEN [noted EXCEPT !.streams = streams]
          ELSE [noted EXCEPT !.streamsUnresolved = TRUE,
                             !.notes = @ \cup {Note("streams unknown")}]
  BY DEF SetStreams, more, unknown
<1> HIDE DEF noted, d
<1>4. /\ d.kind = c.kind /\ c.notes \subseteq d.notes
      /\ unknown # {} => d.streamsUnresolved = TRUE /\ Note("streams unknown") \in d.notes
      /\ unknown = {} => d.streams = streams
  BY <1>2, <1>3 DEF Fields
<1>5. Accounted(d, s)
  BY <1>1, <1>4 DEF Accounted
<1> QED BY <1>5 DEF d

\* The values of a pitcher's streams are one variable with its Value.
LEMMA OneValue ==
    ASSUME NEW v
    PROVE  /\ DOMAIN <<<<"REDIS_STREAM", v>>>> = {1}
           /\ <<<<"REDIS_STREAM", v>>>>[1][2] = v
  OBVIOUS

\* A pitcher that publishes to Redis: only REDIS_STREAM="" leaves it without streams,
\* or that it has no default, which it says.
LEMMA PublishToAccounts ==
    ASSUME NEW c, DOMAIN c = Fields, NEW s, EnvIsSet(s),
           \/ DefaultStream(c.kind) # {}
           \/ c.kind # "omni-pitcher" /\ Note("default stream unknown") \in c.notes
    PROVE  Accounted(PublishTo(c, s), s)
<1> DEFINE stream == Lookup(s, "REDIS_STREAM", DefaultStream(c.kind))
           values == <<<<"REDIS_STREAM", stream>>>>
<1>1. PublishTo(c, s) = SetStreams(c, stream.value, values)
  BY DEF PublishTo
<1>2. \/ Unknown(stream) \/ stream.value # {}
      \/ c.kind # "omni-pitcher" /\ Note("default stream unknown") \in c.notes
      \/ Lookup(s, "REDIS_STREAM", {}) = Known({})
  <2>1. CASE "REDIS_STREAM" \notin DOMAIN s.env
    BY <2>1 DEF Lookup
  <2>2. CASE "REDIS_STREAM" \in DOMAIN s.env /\ ~Unknown(stream) /\ stream.value = {}
    <3>1. stream = s.env["REDIS_STREAM"] /\ Lookup(s, "REDIS_STREAM", {}) = stream
      BY <2>2 DEF Lookup
    <3>2. stream \in {Known({}), Flagged({})}
      BY <2>2, <3>1 DEF EnvIsSet
    <3>3. Unknown(Flagged({}))
      BY DEF Unknown, Flagged
    <3> QED BY <2>2, <3>1, <3>2, <3>3
  <2> QED BY <2>1, <2>2
<1> HIDE DEF stream
<1>3. DOMAIN values = {1} /\ values[1][2] = stream
  BY OneValue
<1> HIDE DEF values
<1> QED BY <1>1, <1>2, <1>3, SetStreamsAccounts

\* PITCH_TARGET: who does not use Redis has a target, or writes to a file and says so.
LEMMA DemoAccounts ==
    ASSUME NEW c, DOMAIN c = Fields, c.kind = "demo-pitcher", NEW s, NEW d,
           d = DemoPitcherMode(c, s)
    PROVE  /\ DOMAIN d = Fields /\ d.kind = c.kind
           /\ ~UsesRedis(d) => d.target # {} \/ Note("file") \in d.notes
<1> DEFINE mode == Lookup(s, "PITCH_TARGET", "redis")
           noted == [c EXCEPT !.mode = {mode},
                              !.notes = @ \cup NoteUnresolved("PITCH_TARGET", mode)]
<1> HIDE DEF mode
<1>1. DOMAIN noted = Fields /\ noted.kind = c.kind /\ noted.mode = {mode}
  BY DEF Fields
<1> DEFINE pitches == [noted EXCEPT !.target = {DemoPitchTarget(s)}]
           writes == [noted EXCEPT !.notes = @ \cup {Note("file")}]
           falls == [noted EXCEPT !.notes = @ \cup {Note("falls back to redis")}]
<1>2. d = CASE mode.value = "redis" -> noted
            [] mode.value \in {"both", "omni-pitcher"} -> pitches
            [] mode.value = "file" -> writes
            [] OTHER -> falls
  BY DEF DemoPitcherMode, mode, noted
<1> HIDE DEF noted
<1>3. /\ DOMAIN pitches = Fields /\ pitches.kind = c.kind /\ pitches.target # {}
      /\ DOMAIN writes = Fields /\ writes.kind = c.kind /\ Note("file") \in writes.notes
      /\ DOMAIN falls = Fields /\ falls.kind = c.kind /\ falls.mode = {mode}
  BY <1>1 DEF Fields
<1>4. mode.value = "redis" => UsesRedis(noted)
  BY <1>1 DEF UsesRedis
<1> HIDE DEF pitches, writes, falls
<1>5. mode.value \notin {"file", "omni-pitcher"} => UsesRedis(falls)
  BY <1>3 DEF UsesRedis
<1> QED BY <1>1, <1>2, <1>3, <1>4, <1>5

\* PITCHER_MODE: who does not use Redis writes to a file and says so.
LEMMA ModeAccounts ==
    ASSUME NEW c, DOMAIN c = Fields, c.kind # "demo-pitcher", NEW s, NEW d,
           d = PitcherMode(c, s)
    PROVE  /\ DOMAIN d = Fields /\ d.kind = c.kind
           /\ ~UsesRedis(d) => Note("file") \in d.notes
<1> DEFINE mode == Lookup(s, "PITCHER_MODE", "redis")
           more == IF mode.value = "redis" THEN {}
                   ELSE {Note(IF mode.value = "file" THEN "file" ELSE "not file")}
           noted == NoteUnresolved("PITCHER_MODE", mode)
<1>1. d = [c EXCEPT !.mode = {mode}, !.notes = @ \cup noted \cup more]
  BY DEF PitcherMode
<1>2. mode.value = "file" => Note("file") \in more
  OBVIOUS
<1> HIDE DEF mode, more, noted
<1>3. /\ DOMAIN d = Fields /\ d.kind = c.kind /\ d.mode = {mode} /\ more \subseteq d.notes
  BY <1>1 DEF Fields
<1>4. ~UsesRedis(d) => mode.value = "file"
  BY <1>3 DEF UsesRedis
<1> QED BY <1>2, <1>3, <1>4

\* An omni-pitcher that uses Redis accounts for its streams or has a routing file.
LEMMA OmniAccounts ==
    ASSUME NEW c, DOMAIN c = Fields, c.kind = "omni-pitcher", NEW s, EnvIsSet(s), NEW d,
           d = OmniStreams(c, s)
    PROVE  Accounted(d, s) \/ (d.kind = "omni-pitcher" /\ d.routesPath # {})
<1> DEFINE routes == Lookup(s, "ROUTES_CONFIG", "")
           noted == [c EXCEPT !.notes = @ \cup NoteUnresolved("ROUTES_CONFIG", routes)]
           routed == [c EXCEPT !.routesPath = {routes}]
<1> HIDE DEF routes
<1>1. /\ DOMAIN noted = Fields /\ noted.kind = "omni-pitcher"
      /\ routed.kind = "omni-pitcher" /\ routed.routesPath # {}
  BY DEF Fields
<1>2. d \in {routed, PublishTo(noted, s)}
  BY DEF OmniStreams, routes
<1>3. DefaultStream("omni-pitcher") = {MessagesStream}
  BY DEF DefaultStream, Catchers
<1> HIDE DEF noted, routed
<1>4. Accounted(PublishTo(noted, s), s)
  BY <1>1, <1>3, PublishToAccounts
<1>5. CASE d = routed
  BY <1>1, <1>5
<1>6. CASE d = PublishTo(noted, s)
  BY <1>4, <1>6
<1> QED BY <1>2, <1>5, <1>6

\* k8s-pitcher cannot start or has a profile to wait for.
LEMMA K8sArgsAccount ==
    ASSUME NEW c, DOMAIN c = Fields, c.kind = "k8s-pitcher", NEW s, NEW d,
           d = ResolveK8sPitcherArgs(c, s)
    PROVE  Accounted(d, s) \/ (d.kind = "k8s-pitcher" /\ d.profilePath # {})
<1> DEFINE mode == Lookup(s, "PITCHER_MODE", "")
           noted == [c EXCEPT !.mode = {mode},
                              !.notes = @ \cup NoteUnresolved("PITCHER_MODE", mode)]
           stops == [noted EXCEPT !.startProblems = @ \cup {"no -profile"}]
           waits == [noted EXCEPT !.profilePath = s.profileArg]
<1> HIDE DEF mode
<1>1. DOMAIN noted = Fields /\ noted.kind = "k8s-pitcher"
  BY DEF Fields
<1>2. d = IF s.profileArg = {} THEN stops ELSE waits
  BY DEF ResolveK8sPitcherArgs, mode
<1> HIDE DEF noted
<1>3. /\ stops.startProblems # {}
      /\ waits.kind = "k8s-pitcher" /\ waits.profilePath = s.profileArg
  BY <1>1 DEF Fields
<1> HIDE DEF stops, waits
<1>4. CASE d = stops
  BY <1>3, <1>4 DEF Accounted
<1>5. CASE d = waits /\ s.profileArg # {}
  BY <1>3, <1>5
<1> QED BY <1>2, <1>4, <1>5

\* resolvePitcher, kind by kind.
LEMMA PitcherAccounts ==
    ASSUME NEW c, DOMAIN c = Fields, c.kind \in Pitchers, NEW s, EnvIsSet(s)
    PROVE  AccountedBefore(1, ResolvePitcher(c, s), s)
<1> DEFINE d == ResolvePitcher(c, s)
           switched == IF c.kind = "demo-pitcher" THEN DemoPitcherMode(c, s)
                                                  ELSE PitcherMode(c, s)
           plain == [c EXCEPT !.notes = @ \cup {Note("default stream unknown")}]
           other == IF ~UsesRedis(switched) THEN switched
                    ELSE IF c.kind = "omni-pitcher" THEN OmniStreams(switched, s)
                    ELSE PublishTo(switched, s)
<1>1. /\ DOMAIN plain = Fields /\ plain.kind = c.kind
      /\ Note("default stream unknown") \in plain.notes
  BY DEF Fields
<1>2. /\ DOMAIN switched = Fields /\ switched.kind = c.kind
      /\ ~UsesRedis(switched) => Accounted(switched, s)
  BY DemoAccounts, ModeAccounts DEF Accounted
<1> HIDE DEF switched, plain
<1>3. d = CASE c.kind = "k8s-pitcher" -> ResolveK8sPitcherArgs(c, s)
            [] c.kind = "pitcher" -> PublishTo(plain, s)
            [] OTHER -> other
  BY DEF ResolvePitcher, switched, plain, other
<1> HIDE DEF d
<1>4. CASE c.kind = "k8s-pitcher"
  <2>1. d = ResolveK8sPitcherArgs(c, s)
    BY <1>3, <1>4
  <2> QED BY <1>4, <2>1, K8sArgsAccount DEF AccountedBefore, d
<1>5. CASE c.kind = "pitcher"
  <2>1. d = PublishTo(plain, s)
    BY <1>3, <1>5
  <2>2. Accounted(d, s)
    BY <1>1, <1>5, <2>1, PublishToAccounts
  <2> QED BY <2>2 DEF AccountedBefore, d
<1>6. CASE c.kind \in {"omni-pitcher", "git-pitcher", "demo-pitcher"}
  <2>1. d = other
    BY <1>3, <1>6
  <2>2. CASE ~UsesRedis(switched)
    BY <1>2, <2>1, <2>2 DEF AccountedBefore, d
  <2>3. CASE UsesRedis(switched) /\ c.kind = "omni-pitcher"
    <3>1. d = OmniStreams(switched, s)
      BY <2>1, <2>3
    <3> QED BY <1>2, <2>3, <3>1, OmniAccounts DEF AccountedBefore, d
  <2>4. CASE UsesRedis(switched) /\ c.kind # "omni-pitcher"
    <3>1. d = PublishTo(switched, s)
      BY <2>1, <2>4
    <3>2. DefaultStream(c.kind) \in {{HomerunStream}, {MessagesStream}}
      BY <1>6, <2>4 DEF DefaultStream
    <3>3. Accounted(d, s)
      BY <1>2, <3>1, <3>2, PublishToAccounts
    <3> QED BY <3>3 DEF AccountedBefore, d
  <2> QED BY <2>2, <2>3, <2>4
<1> QED BY <1>4, <1>5, <1>6 DEF Pitchers

\* resolveComponent.
LEMMA ComponentAccounts ==
    ASSUME NEW n, NEW s, EnvIsSet(s), StreamsFinite(s), IsFiniteSet(s.envProblems)
    PROVE  AccountedBefore(1, ResolveComponent(n, s), s)
<1> DEFINE k == KindIn(s)
           d == ResolveComponent(n, s)
           c == [name |-> n, kind |-> k, role |-> Role(k), replicas |-> s.replicas,
                 startProblems |-> IF s.hasContainer THEN s.envProblems ELSE {},
                 streams |-> {}, streamsUnresolved |-> FALSE, onDemand |-> {}, group |-> {},
                 profilePath |-> {}, profile |-> {}, mode |-> {},
                 routesPath |-> {}, routes |-> {}, target |-> {},
                 notes |-> (IF s.replicas = 0 THEN {Note("scaled to zero")} ELSE {})
                           \cup (IF ~s.hasContainer THEN {Note("no containers")}
                                 ELSE IF k = "unknown" THEN {Note("not of homerun2")}
                                 ELSE {})]
<1> HIDE DEF k
<1>1. DOMAIN c = Fields /\ c.kind = k /\ c.role = Role(k)
  BY DEF Fields
<1>2. d = CASE c.role = "catcher" -> ResolveCatcher(c, s)
            [] c.role = "pitcher" -> ResolvePitcher(c, s)
            [] OTHER -> c
  BY DEF ResolveComponent, k, KindIn
<1> HIDE DEF c
<1>3. CASE c.role = "pitcher"
  <2>1. d = ResolvePitcher(c, s)
    BY <1>2, <1>3
  <2>2. c.kind \in Pitchers
    BY <1>1, <1>3 DEF Role
  <2> QED BY <1>1, <2>1, <2>2, PitcherAccounts
<1>4. CASE c.role # "pitcher"
  <2>1. d.role = Role(k)
    BY ComponentFresh DEF Fresh, Component, k
  <2> QED BY <1>1, <1>4, <2>1 DEF AccountedBefore
<1> QED BY <1>3, <1>4
-----------------------------------------------------------------------------
(* The passes leave an account, and the two that read a file give the one that it *)
(* was waited for.                                                                *)

\* The profiles of catchers are of no concern to pitchers.
LEMMA LoadProfileAccounts ==
    ASSUME NEW n, NEW k, NEW c, Before(1, n, k, c), NEW s, AccountedBefore(1, c, s)
    PROVE  AccountedBefore(2, LoadProfile(c), s)
<1>1. CASE c.role = "pitcher"
  <2>1. LoadProfile(c) = c
    BY <1>1 DEF LoadProfile
  <2> QED BY <1>1, <2>1 DEF AccountedBefore
<1>2. CASE c.role # "pitcher"
  <2>1. LoadProfile(c).role = c.role
    BY LoadProfileKeeps DEF Before, Component
  <2> QED BY <1>2, <2>1 DEF AccountedBefore
<1> QED BY <1>1, <1>2

\* The routing file sets the streams, leaves them unknown or stops the omni-pitcher.
LEMMA LoadRoutesAccounts ==
    ASSUME NEW n, NEW k, NEW c, Before(2, n, k, c), NEW s, AccountedBefore(2, c, s)
    PROVE  AccountedBefore(3, LoadRoutes(c), s)
<1> DEFINE file == ReadFile(c, CHOOSE p \in c.routesPath : TRUE)
           unknown == [c EXCEPT !.streamsUnresolved = TRUE,
                                !.notes = @ \cup {Note("streams unknown")}]
           stops == [c EXCEPT !.startProblems = @ \cup {"routes"}]
           streams == {file.routes.default} \cup
                      {file.routes.rules[i].stream : i \in DOMAIN file.routes.rules}
           loaded == [c EXCEPT !.routes = {file.routes}, !.streams = streams]
<1> HIDE DEF file
<1>1. CASE c.routesPath = {}
  <2>1. LoadRoutes(c) = c
    BY <1>1 DEF LoadRoutes
  <2> QED BY <1>1, <2>1 DEF AccountedBefore
<1>2. CASE c.routesPath # {}
  <2>1. LoadRoutes(c) \in {unknown, stops, loaded}
    BY <1>2 DEF LoadRoutes, file
  <2>2. streams # {}
    OBVIOUS
  <2> HIDE DEF streams
  <2>3. /\ unknown.streamsUnresolved = TRUE /\ Note("streams unknown") \in unknown.notes
        /\ stops.startProblems # {} /\ loaded.streams # {}
    BY <2>2 DEF Before, Component, Fields
  <2> HIDE DEF unknown, stops, loaded
  <2>4. Accounted(unknown, s)
    BY <2>3 DEF Accounted
  <2>5. Accounted(stops, s)
    BY <2>3 DEF Accounted
  <2>6. Accounted(loaded, s)
    BY <2>3 DEF Accounted
  <2> QED BY <2>1, <2>4, <2>5, <2>6 DEF AccountedBefore
<1> QED BY <1>1, <1>2

\* So does the profile of k8s-pitcher, unless it has it write to a file or pitch.
LEMMA LoadK8sPitcherAccounts ==
    ASSUME specs \in Namespaces, NEW n \in Names, NEW c,
           Before(3, n, KindIn(specs[n]), c), NEW s, AccountedBefore(3, c, s)
    PROVE  AccountedBefore(4, LoadK8sPitcher(c), s)
<1> DEFINE k == KindIn(specs[n])
           file == ReadFile(c, CHOOSE p \in c.profilePath : TRUE)
           p == file.k8s
           unknown == [c EXCEPT !.profile = {"unresolved"}, !.streamsUnresolved = TRUE,
                                !.notes = @ \cup {Note("streams unknown")}]
           fails == [c EXCEPT !.profile = {file.err}, !.startProblems = @ \cup {"profile"}]
           invalid == [c EXCEPT !.profile = {"invalid"}, !.startProblems = @ \cup {"profile"}]
           toFile == [c EXCEPT !.profile = {"ok"}, !.notes = @ \cup {Note("file")}]
           targets == {Target(url, FALSE) : url \in p.pitcher}
           pitches == [c EXCEPT !.profile = {"ok"}, !.target = targets]
           publishes == [c EXCEPT !.profile = {"ok"}, !.streams = p.stream]
<1> HIDE DEF file, k
<1>0. Before(3, n, k, c) /\ c.name = n /\ DOMAIN c = Fields
  BY DEF k, Before, Component
<1>1. CASE c.kind # "k8s-pitcher" \/ c.profilePath = {}
  <2>1. LoadK8sPitcher(c) = c
    BY <1>1 DEF LoadK8sPitcher
  <2> QED BY <1>1, <2>1 DEF AccountedBefore
<1>2. CASE c.kind = "k8s-pitcher" /\ c.profilePath # {}
  <2>1. \/ LoadK8sPitcher(c) \in {unknown, fails, invalid, toFile}
        \/ LoadK8sPitcher(c) = pitches /\ p.pitcher # {}
        \/ /\ LoadK8sPitcher(c) = publishes /\ p.pitcher = {}
           /\ ~Failed(file) /\ ValidK8s(p)
    BY <1>2 DEF LoadK8sPitcher, file
  <2>2. ASSUME ~Failed(file), ValidK8s(p), p.pitcher = {}
        PROVE  p.stream # {}
    <3>1. file = specs[n].file
      BY <1>0, <2>2 DEF file, ReadFile, Failed
    <3>2. Classify(specs[n]) = "k8s-pitcher"
      BY <1>0, <1>2 DEF Before, Component, k, KindIn
    <3>3. p.redis \in BOOLEAN
      BY K8sFiles, <2>2, <3>1, <3>2 DEF K8sFiles, ValidK8s
    <3> HIDE DEF p
    <3>4. p.redis = TRUE
      BY <2>2, <3>3 DEF ValidK8s
    <3> QED BY <2>2, <3>4 DEF ValidK8s
  <2>3. p.pitcher # {} => targets # {}
    OBVIOUS
  <2> HIDE DEF p, targets
  <2>4. /\ unknown.streamsUnresolved = TRUE /\ Note("streams unknown") \in unknown.notes
        /\ fails.startProblems # {} /\ invalid.startProblems # {}
    BY <1>0 DEF Fields
  <2>5. /\ Note("file") \in toFile.notes
        /\ pitches.kind = "k8s-pitcher" /\ pitches.target = targets
        /\ publishes.streams = p.stream
    BY <1>0, <1>2 DEF Fields
  <2> HIDE DEF unknown, fails, invalid, toFile, pitches, publishes
  <2>6. Accounted(unknown, s)
    BY <2>4 DEF Accounted
  <2>7. Accounted(fails, s)
    BY <2>4 DEF Accounted
  <2>8. Accounted(invalid, s)
    BY <2>4 DEF Accounted
  <2>9. Accounted(toFile, s)
    BY <2>5 DEF Accounted
  <2>10. p.pitcher # {} => Accounted(pitches, s)
    BY <2>3, <2>5 DEF Accounted
  <2>11. p.stream # {} => Accounted(publishes, s)
    BY <2>5 DEF Accounted
  <2>12. Accounted(LoadK8sPitcher(c), s)
    BY <2>1, <2>2, <2>6, <2>7, <2>8, <2>9, <2>10, <2>11
  <2> QED BY <2>12 DEF AccountedBefore
<1> QED BY <1>1, <1>2

\* A target stays a target.
LEMMA FollowTargetAccounts ==
    ASSUME NEW n, NEW k, NEW c, Before(4, n, k, c), NEW s, AccountedBefore(4, c, s)
    PROVE  AccountedBefore(5, FollowTarget(c), s)
<1> DEFINE d == FollowTarget(c)
           targets == {ResolvePitchTarget(t) : t \in c.target}
<1>1. d = [c EXCEPT !.target = targets]
  BY DEF FollowTarget
<1>2. c.target # {} => targets # {}
  OBVIOUS
<1> HIDE DEF d, targets
<1>3. /\ d.role = c.role /\ d.kind = c.kind /\ d.streams = c.streams
      /\ d.streamsUnresolved = c.streamsUnresolved /\ d.startProblems = c.startProblems
      /\ d.notes = c.notes /\ d.target = targets
  BY <1>1 DEF Before, Component, Fields
<1>4. Accounted(c, s) => Accounted(d, s)
  BY <1>2, <1>3 DEF Accounted
<1> QED BY <1>3, <1>4 DEF AccountedBefore, d

\* Of every component: what a pitcher without streams has said before each pass.
AccountInv ==
    pass \in 1..5 => \A n \in Names : AccountedBefore(pass, components[n], specs[n])

\* For every namespace: a pitcher without streams says why before every pass, or waits
\* for its file.
THEOREM AccountInvariant == Spec => []AccountInv
<1>1. Init => AccountInv
  BY DEF Init, AccountInv
<1>2. PassesInv /\ AccountInv /\ [Next]_vars => AccountInv'
  <2> SUFFICES ASSUME PassesInv, AccountInv, [Next]_vars
               PROVE  AccountInv'
    OBVIOUS
  <2>1. CASE Resolve
    <3>1. /\ specs' = specs /\ pass' = 1
          /\ \A n \in Names : components'[n] = ResolveComponent(n, specs[n])
      BY <2>1 DEF Resolve
    <3>2. \A n \in Names :
            EnvIsSet(specs[n]) /\ StreamsFinite(specs[n]) /\ IsFiniteSet(specs[n].envProblems)
      BY NamespaceAssumption DEF PassesInv
    <3>3. \A n \in Names : AccountedBefore(1, components'[n], specs[n])
      BY <3>1, <3>2, ComponentAccounts
    <3> QED BY <3>1, <3>3 DEF AccountInv
  <2>2. CASE RunPass
    <3>1. /\ specs' = specs /\ pass' = pass + 1 /\ pass \in 1..4 /\ specs \in Namespaces
          /\ \A n \in Names : components'[n] = Pass(pass, components[n])
      BY <2>2 DEF RunPass, PassesInv
    <3>2. \A n \in Names : AccountedBefore(pass + 1, components'[n], specs[n])
      <4> TAKE n \in Names
      <4>1. /\ Before(pass, n, KindIn(specs[n]), components[n])
            /\ AccountedBefore(pass, components[n], specs[n])
            /\ components'[n] = Pass(pass, components[n])
        BY <3>1 DEF PassesInv, AccountInv
      <4>2. CASE pass = 1
        BY <4>1, <4>2, LoadProfileAccounts DEF Pass
      <4>3. CASE pass = 2
        BY <4>1, <4>3, LoadRoutesAccounts DEF Pass
      <4>4. CASE pass = 3
        BY <3>1, <4>1, <4>4, LoadK8sPitcherAccounts DEF Pass
      <4>5. CASE pass = 4
        BY <4>1, <4>5, FollowTargetAccounts DEF Pass
      <4> QED BY <3>1, <4>2, <4>3, <4>4, <4>5
    <3> QED BY <3>1, <3>2 DEF AccountInv
  <2>3. CASE UNCHANGED vars
    <3>1. specs' = specs /\ components' = components /\ pass' = pass
      BY <2>3 DEF vars
    <3> QED BY <3>1 DEF AccountInv
  <2> QED BY <2>1, <2>2, <2>3 DEF Next
<1> QED BY <1>1, <1>2, PassesInvariant, PTL DEF Spec

\* When Discover returns.
LEMMA PitcherAccounted ==
    ASSUME AccountInv, Done, NEW n \in Names, components[n].role = "pitcher"
    PROVE  Accounted(components[n], specs[n])
  BY DEF AccountInv, AccountedBefore, Done

\* pitchtarget.go:112, for every namespace: a target without a problem that leads to no
\* stream leads to an omni-pitcher that has the note, and if its streams are unknown the
\* finding, that says why, or whose REDIS_STREAM is the empty string.
THEOREM EmptyTargetsExplainedTheorem == Spec => []EmptyTargetsExplained
<1>1. PassesInv /\ AccountInv => EmptyTargetsExplained
  <2> SUFFICES ASSUME PassesInv, AccountInv, Done, NEW c \in Comps, NEW t \in c.target,
                      t.problem = "", t.streams = {}
               PROVE  \E n \in t.omni :
                        \/ Note("file") \in components[n].notes
                        \/ /\ Note("streams unknown") \in components[n].notes
                           /\ "streams-unknown" \in ComponentFindings(components[n])
                        \/ NoStreamSet(n)
    BY DEF EmptyTargetsExplained
  <2>1. Followed(t, components)
    BY DEF PassesInv, Done, Comps, Resolved
  <2>2. PICK n \in t.omni : n \in Names /\ SaysOf(t, components[n])
    BY <2>1 DEF Followed
  <2> DEFINE o == components[n]
  <2>3. /\ o.kind = "omni-pitcher" /\ Running(o) /\ o.startProblems = {}
        /\ ViaStreams(o, t.path) = {}
    BY <2>2 DEF SaysOf
  <2>4. o.role = "pitcher" /\ RoutesLoaded(o)
    BY <2>2, <2>3 DEF PassesInv, Done, Resolved, Component, Role, Catchers, Pitchers
  <2>5. Accounted(o, specs[n])
    BY <2>2, <2>4, PitcherAccounted
  <2> HIDE DEF o
  <2>6. o.streams = {}
    <3>1. o.routes = {}
      BY <2>3, DefaultReached
    <3> QED BY <2>3, <3>1 DEF ViaStreams
  <2>7. \/ o.streamsUnresolved = TRUE /\ Note("streams unknown") \in o.notes
        \/ Note("file") \in o.notes
        \/ Lookup(specs[n], "REDIS_STREAM", {}) = Known({})
    BY <2>3, <2>5, <2>6 DEF Accounted
  <2>8. o.streamsUnresolved = TRUE => "streams-unknown" \in ComponentFindings(o)
    BY <2>3, <2>4 DEF ComponentFindings, RoleFindings
  <2> QED BY <2>2, <2>7, <2>8 DEF NoStreamSet, o
<1> QED BY <1>1, PassesInvariant, AccountInvariant, PTL

\* An omni-pitcher always answers something.
LEMMA PitchThroughAnswers ==
    ASSUME NEW o, NEW path, NEW m
    PROVE  PitchThrough(o, path, m) # {}
  BY DEF PitchThrough

\* So does a target.
LEMMA PitchToAnswers ==
    ASSUME NEW t, NEW m
    PROVE  PitchTo(t, m) # {}
<1>1. CASE t.omni = {} \/ t.problem # ""
  BY <1>1 DEF PitchTo
<1>2. CASE t.omni # {} /\ t.problem = ""
  <2>1. PICK n \in t.omni : TRUE
    BY <1>2
  <2>2. PitchThrough(components[n], t.path, m) \subseteq PitchTo(t, m)
    BY <1>2 DEF PitchTo
  <2> QED BY <2>2, PitchThroughAnswers
<1> QED BY <1>1, <1>2

\* dryrun.go:24-26 and 93-96, for every namespace: a note gives the reason of every dry
\* run that is empty, unless REDIS_STREAM is the empty string.
THEOREM EmptyDryRunsExplainedTheorem == Spec => []EmptyDryRunsExplained
<1>1. PassesInv /\ AccountInv => EmptyDryRunsExplained
  <2> SUFFICES ASSUME PassesInv, AccountInv, Done, NEW c \in PitcherChoices, NEW m \in Messages,
                      DryRunFrom(c, m) = {}, Running(c), c.startProblems = {}
               PROVE  c.notes \cap NoStreamNotes # {} \/ NoStreamSet(c.name)
    <3>1. \A c \in PitcherChoices : \A m \in Messages :
            Running(c) /\ c.startProblems = {} /\ DryRunFrom(c, m) = {}
            => c.notes \subseteq DryRunNotes(c, m)
      BY DEF DryRunNotes
    <3>2. \A c \in PitcherChoices : \A m \in Messages :
            /\ ~Running(c) => Note("scaled to zero") \in DryRunNotes(c, m)
            /\ Running(c) /\ c.startProblems # {} => Note("cannot start") \in DryRunNotes(c, m)
      BY DEF DryRunNotes
    <3> QED BY <3>1, <3>2 DEF EmptyDryRunsExplained
  <2>1. PICK n \in Names : c = components[n]
    BY DEF PitcherChoices, Comps
  <2>2. c.role = "pitcher" /\ RoutesLoaded(c) /\ c.name = n
    BY <2>1 DEF PassesInv, Done, Resolved, Component, PitcherChoices
  <2>3. Accounted(c, specs[n])
    BY <2>1, <2>2, PitcherAccounted
  <2>4. c.streams = {}
    <3>1. CASE c.kind = "omni-pitcher"
      BY <3>1, PitchThroughAnswers DEF DryRunFrom
    <3>2. CASE c.kind # "omni-pitcher"
      BY <3>2 DEF DryRunFrom
    <3> QED BY <3>1, <3>2
  <2>5. c.kind # "omni-pitcher" => c.target = {}
    <3>1. c.kind # "omni-pitcher" =>
            UNION {PitchTo(t, m) : t \in c.target} \subseteq DryRunFrom(c, m)
      BY DEF DryRunFrom
    <3> QED BY <3>1, PitchToAnswers
  <2>6. \/ \E t \in {"file", "streams unknown", "default stream unknown"} : Note(t) \in c.notes
        \/ Lookup(specs[n], "REDIS_STREAM", {}) = Known({})
    BY <2>3, <2>4, <2>5 DEF Accounted
  <2> QED BY <2>2, <2>6 DEF NoStreamNotes, NoStreamSet
<1> QED BY <1>1, PassesInvariant, AccountInvariant, PTL

-----------------------------------------------------------------------------
(* The fragment, for every limit and every number of findings. *)

\* How many findings of the first i groups together the fragment shows.
Totals(sizes, total) ==
    /\ total[0] = 0
    /\ \A i \in 1 .. Len(sizes) : total[i] = Least(FragmentLimit, total[i - 1] + sizes[i])

\* The recursive function of findingsFragment exists and is what its definition says.
LEMMA ShownIs ==
    ASSUME NEW sizes \in Seq(Nat)
    PROVE  \E total : /\ Totals(sizes, total)
                      /\ \A i \in DOMAIN sizes : ShownOf(sizes)[i] = total[i] - total[i - 1]
<1> DEFINE N == Len(sizes)
           Step(g, i) == IF i = 0 THEN 0 ELSE Least(FragmentLimit, g[i - 1] + sizes[i])
           S == {n \in Nat : n <= N => \E g : g = [i \in 0 .. n |-> Step(g, i)]}
           shown == CHOOSE g : g = [i \in 0 .. N |-> Step(g, i)]
<1> N \in Nat
  OBVIOUS
<1>1. 0 \in S
  <2>1. [i \in 0 .. 0 |-> 0] = [i \in 0 .. 0 |-> Step([j \in 0 .. 0 |-> 0], i)]
    OBVIOUS
  <2> QED BY <2>1
<1>2. ASSUME NEW n \in Nat, n \in S PROVE n + 1 \in S
  <2> SUFFICES ASSUME n + 1 <= N
               PROVE  \E g : g = [i \in 0 .. n + 1 |-> Step(g, i)]
    OBVIOUS
  <2>1. PICK g : g = [i \in 0 .. n |-> Step(g, i)]
    BY <1>2
  <2> DEFINE h == [i \in 0 .. n + 1 |->
                     IF i <= n THEN g[i] ELSE Least(FragmentLimit, g[n] + sizes[n + 1])]
  <2>2. ASSUME NEW i \in 0 .. n + 1 PROVE h[i] = Step(h, i)
    <3>1. CASE i = 0
      BY <2>1, <3>1
    <3>2. CASE i # 0 /\ i <= n
      <4>1. i \in 0 .. n /\ h[i] = g[i] /\ h[i - 1] = g[i - 1]
        BY <3>2
      <4>2. g[i] = Step(g, i)
        BY <2>1, <4>1
      <4> QED BY <3>2, <4>1, <4>2
    <3>3. CASE i = n + 1
      <4>1. h[n] = g[n] /\ h[n + 1] = Least(FragmentLimit, g[n] + sizes[n + 1])
        OBVIOUS
      <4> QED BY <3>3, <4>1
    <3> QED BY <3>1, <3>2, <3>3
  <2>3. h = [i \in 0 .. n + 1 |-> Step(h, i)]
    BY <2>2
  <2> QED BY <2>3
<1>3. N \in S
  <2> HIDE DEF S
  <2> QED BY <1>1, <1>2, Induct
<1>4. \E g : g = [i \in 0 .. N |-> Step(g, i)]
  BY <1>3
<1>5. shown = [i \in 0 .. N |-> Step(shown, i)]
  <2> HIDE DEF Step
  <2> QED BY <1>4
<1>6. ShownOf(sizes) = [i \in DOMAIN sizes |-> shown[i] - shown[i - 1]]
  BY Zenon DEF ShownOf
<1> HIDE DEF shown
<1>7. Totals(sizes, shown)
  BY <1>5 DEF Totals
<1> QED BY <1>6, <1>7

\* The fragment shows no more than its limit.
LEMMA TotalsTyped ==
    ASSUME NEW sizes \in Seq(Nat), NEW total, Totals(sizes, total)
    PROVE  \A i \in 0 .. Len(sizes) : total[i] \in 0 .. FragmentLimit
<1> DEFINE S == {n \in Nat : n <= Len(sizes) => total[n] \in 0 .. FragmentLimit}
<1>1. 0 \in S
  BY LimitAssumption DEF Totals
<1>2. ASSUME NEW n \in Nat, n \in S PROVE n + 1 \in S
  <2> SUFFICES ASSUME n + 1 <= Len(sizes)
               PROVE  total[n + 1] \in 0 .. FragmentLimit
    OBVIOUS
  <2>1. total[n] \in 0 .. FragmentLimit /\ sizes[n + 1] \in Nat
    BY <1>2
  <2>2. total[n + 1] = Least(FragmentLimit, total[n] + sizes[n + 1])
    BY DEF Totals
  <2> QED BY <2>1, <2>2, LimitAssumption DEF Least
<1>3. Nat \subseteq S
  <2> HIDE DEF S
  <2> QED BY <1>1, <1>2, Induct
<1> QED BY <1>3

\* Once the fragment is full it stays full.
LEMMA FullStays ==
    ASSUME NEW sizes \in Seq(Nat), NEW total, Totals(sizes, total),
           NEW i \in 0 .. Len(sizes), total[i] = FragmentLimit
    PROVE  \A j \in i .. Len(sizes) : total[j] = FragmentLimit
<1> DEFINE S == {n \in Nat : i + n <= Len(sizes) => total[i + n] = FragmentLimit}
<1>1. 0 \in S
  OBVIOUS
<1>2. ASSUME NEW n \in Nat, n \in S PROVE n + 1 \in S
  <2> SUFFICES ASSUME i + n + 1 <= Len(sizes)
               PROVE  total[i + n + 1] = FragmentLimit
    OBVIOUS
  <2>1. total[i + n] = FragmentLimit /\ sizes[i + n + 1] \in Nat
    BY <1>2
  <2>2. total[i + n + 1] = Least(FragmentLimit, total[i + n] + sizes[i + n + 1])
    BY DEF Totals
  <2> QED BY <2>1, <2>2, LimitAssumption DEF Least
<1>3. Nat \subseteq S
  <2> HIDE DEF S
  <2> QED BY <1>1, <1>2, Induct
<1> SUFFICES ASSUME NEW j \in i .. Len(sizes) PROVE total[j] = FragmentLimit
  OBVIOUS
<1>4. j - i \in S /\ i + (j - i) = j
  <2> HIDE DEF S
  <2> QED BY <1>3
<1> QED BY <1>4

\* The fragment shows nothing of the groups after one that it cuts short.
LEMMA CutShort ==
    ASSUME NEW sizes \in Seq(Nat), NEW i \in DOMAIN sizes, NEW j \in DOMAIN sizes,
           i < j, ShownOf(sizes)[i] < sizes[i]
    PROVE  ShownOf(sizes)[j] = 0
<1>1. PICK total : /\ Totals(sizes, total)
                   /\ \A k \in DOMAIN sizes : ShownOf(sizes)[k] = total[k] - total[k - 1]
  BY ShownIs
<1>2. \A k \in 0 .. Len(sizes) : total[k] \in 0 .. FragmentLimit
  BY <1>1, TotalsTyped
<1>3. /\ i \in 1 .. Len(sizes) /\ j \in 1 .. Len(sizes) /\ sizes[i] \in Nat
      /\ total[i] - total[i - 1] < sizes[i]
  BY <1>1
<1>4. total[i] = Least(FragmentLimit, total[i - 1] + sizes[i])
  BY <1>1, <1>3 DEF Totals
<1>5. total[i] = FragmentLimit
  <2>1. total[i] \in Int /\ total[i - 1] \in Int /\ FragmentLimit \in Int
    BY <1>2, <1>3, LimitAssumption
  <2>2. CASE FragmentLimit < total[i - 1] + sizes[i]
    BY <1>4, <2>2 DEF Least
  <2>3. CASE ~(FragmentLimit < total[i - 1] + sizes[i])
    <3>1. total[i] = total[i - 1] + sizes[i]
      BY <1>4, <2>3 DEF Least
    <3>2. total[i] - total[i - 1] = sizes[i]
      BY <1>3, <2>1, <3>1
    <3>3. sizes[i] < sizes[i]
      BY <1>3, <3>2
    <3> QED BY <1>3, <3>3
  <2> QED BY <2>2, <2>3
<1>6. \A k \in i .. Len(sizes) : total[k] = FragmentLimit
  BY <1>1, <1>3, <1>5, FullStays
<1>7. total[j] = FragmentLimit /\ total[j - 1] = FragmentLimit
  BY <1>3, <1>6
<1> QED BY <1>1, <1>7, LimitAssumption

\* The groups are in the order of how bad their findings are.
LEMMA WorstFirst ==
    ASSUME NEW i \in 1 .. GroupCount, NEW j \in 1 .. GroupCount, i <= j
    PROVE  Badness(Level(i)) >= Badness(Level(j))
<1>1. GroupCount = 13
  BY DEF GroupCount, FindingKinds
<1>2. \A k \in 1 .. 3 : FindingKinds[k][2] = "error"
  BY DEF FindingKinds
<1>3. \A k \in 4 .. 9 : FindingKinds[k][2] = "warn"
  BY DEF FindingKinds
<1>4. \A k \in 10 .. 12 : FindingKinds[k][2] = "info"
  BY DEF FindingKinds
<1>5. Badness("error") = 2 /\ Badness("warn") = 1 /\ Badness("info") = 0
  BY DEF Badness
<1>6. /\ \A k \in 1 .. 3 : Badness(Level(k)) = 2
      /\ \A k \in 4 .. 9 : Badness(Level(k)) = 1
      /\ \A k \in 10 .. 13 : Badness(Level(k)) = 0
  BY <1>1, <1>2, <1>3, <1>4, <1>5 DEF Level
<1> QED BY <1>1, <1>6

\* The kinds that are reported are finitely many.
LEMMA KindsFinite == IsFiniteSet(ReportedKinds)
<1> DEFINE f == [i \in 1..12 |-> FindingKinds[i][1]]
           kinds == {f[i] : i \in 1..12}
<1>1. DOMAIN FindingKinds = 1..12
  BY DEF FindingKinds
<1>2. ReportedKinds \subseteq kinds
  BY <1>1, ReportedKnown DEF IsKnown
<1>3. IsFiniteSet(1..12)
  <2>1. 1 \in Int /\ 12 \in Int
    OBVIOUS
  <2> QED BY ONLY <2>1, FS_Interval, Zenon
<1>4. IsFiniteSet(kinds)
  <2>1. DOMAIN f = 1..12
    OBVIOUS
  <2> HIDE DEF f
  <2> QED BY <1>3, <2>1, Image
<1> HIDE DEF kinds
<1> QED BY <1>2, <1>4, FS_Subset

\* There are finitely many components.
LEMMA CompsFinite == IsFiniteSet(Comps)
<1> DEFINE f == [n \in Names |-> components[n]]
<1>1. Comps = {f[n] : n \in Names}
  BY DEF Comps
<1>2. DOMAIN f = Names
  OBVIOUS
<1> HIDE DEF f
<1> QED BY <1>1, <1>2, Image, NamespaceAssumption

\* Finitely many streams are unread.
LEMMA UnreadFinite ==
    ASSUME PassesInv, Done
    PROVE  IsFiniteSet(UnreadFindings)
<1> DEFINE R == {d \in Comps : Routed(d)}
           f == [c \in R |-> c.streams]
           S == {f[c] : c \in R}
<1>1. IsFiniteSet(R)
  BY CompsFinite, FS_Subset
<1>2. IsFiniteSet(S)
  <2>1. DOMAIN f = R
    OBVIOUS
  <2> HIDE DEF f, R
  <2> QED BY <1>1, <2>1, Image
<1>3. \A T \in S : IsFiniteSet(T)
  <2>1. \A c \in R : IsFiniteSet(c.streams)
    BY DEF PassesInv, Done, Comps, Resolved, Component
  <2> QED BY <2>1
<1>4. AllStreams = UNION S
  BY DEF AllStreams
<1>5. UnreadFindings \subseteq AllStreams
  BY DEF UnreadFindings
<1> HIDE DEF S
<1> QED BY <1>2, <1>3, <1>4, <1>5, FS_UNION, FS_Subset

\* A component is reported finitely often.
LEMMA ComponentFinite ==
    ASSUME PassesInv, Done, NEW c \in Comps
    PROVE  IsFiniteSet({<<"pod-cannot-start", c.name, p>> : p \in c.startProblems}
                       \cup {<<k, c.name>> : k \in ComponentFindings(c) \ {"pod-cannot-start"}})
<1> DEFINE K == ComponentFindings(c) \ {"pod-cannot-start"}
           f == [p \in c.startProblems |-> <<"pod-cannot-start", c.name, p>>]
           g == [k \in K |-> <<k, c.name>>]
<1>1. IsFiniteSet(c.startProblems)
  BY DEF PassesInv, Done, Comps, Resolved, Component
<1>2. IsFiniteSet(K)
  BY KindsFinite, ComponentKinds, FS_Subset
<1>3. DOMAIN f = c.startProblems /\ DOMAIN g = K
  OBVIOUS
<1>4. /\ {<<"pod-cannot-start", c.name, p>> : p \in c.startProblems}
         = {f[p] : p \in c.startProblems}
      /\ {<<k, c.name>> : k \in K} = {g[k] : k \in K}
  OBVIOUS
<1> HIDE DEF f, g, K
<1>5. IsFiniteSet({f[p] : p \in c.startProblems}) /\ IsFiniteSet({g[k] : k \in K})
  BY <1>1, <1>2, <1>3, Image
<1> QED BY <1>4, <1>5, FS_Union DEF K

\* There are finitely many findings.
LEMMA FindingsFinite ==
    ASSUME PassesInv, Done
    PROVE  IsFiniteSet(Findings)
<1> DEFINE u == [s \in UnreadFindings |-> <<"unread-stream", s>>]
           of == [c \in Comps |->
                    {<<"pod-cannot-start", c.name, p>> : p \in c.startProblems}
                    \cup {<<k, c.name>> : k \in ComponentFindings(c) \ {"pod-cannot-start"}}]
           S == {of[c] : c \in Comps}
<1>1. IsFiniteSet({u[s] : s \in UnreadFindings})
  <2>1. DOMAIN u = UnreadFindings
    OBVIOUS
  <2> HIDE DEF u
  <2> QED BY <2>1, UnreadFinite, Image
<1>2. \A T \in S : IsFiniteSet(T)
  BY ComponentFinite
<1>3. IsFiniteSet(S)
  <2>1. DOMAIN of = Comps
    OBVIOUS
  <2> HIDE DEF of
  <2> QED BY <2>1, CompsFinite, Image
<1>4. Findings = {u[s] : s \in UnreadFindings} \cup UNION S
  BY DEF Findings
<1> HIDE DEF u, S
<1>5. IsFiniteSet(UNION S)
  BY <1>2, <1>3, FS_UNION
<1> QED BY <1>1, <1>4, <1>5, FS_Union

\* fragments.go:74-75, for every namespace and every limit: what the fragment leaves out
\* is no worse than what it shows.
THEOREM FragmentShowsWorstTheorem == Spec => []FragmentShowsWorst
<1>1. PassesInv => FragmentShowsWorst
  <2> DEFINE sizes == GroupSizes(Findings)
             shown == ShownOf(sizes)
  <2> SUFFICES ASSUME PassesInv, Done, NEW i \in 1..GroupCount, NEW j \in 1..GroupCount,
                      shown[i] > 0, shown[j] < sizes[j]
               PROVE  Badness(Level(i)) >= Badness(Level(j))
    BY DEF FragmentShowsWorst
  <2>1. GroupCount = 13
    BY DEF GroupCount, FindingKinds
  <2>2. DOMAIN sizes = 1..GroupCount
    BY DEF GroupSizes
  <2>3. \A k \in 1..GroupCount : sizes[k] \in Nat
    <3> TAKE k \in 1..GroupCount
    <3>1. Group(Findings, k) \subseteq Findings
      BY DEF Group
    <3>2. sizes[k] = Cardinality(Group(Findings, k))
      BY DEF GroupSizes
    <3> QED BY <3>1, <3>2, FindingsFinite, FS_Subset, FS_CardinalityType
  <2>4. sizes \in Seq(Nat)
    <3>1. sizes \in [1..13 -> Nat]
      <4>1. sizes = [k \in 1..GroupCount |-> sizes[k]]
        BY DEF GroupSizes
      <4> HIDE DEF sizes
      <4> QED BY <2>1, <2>3, <4>1
    <3> HIDE DEF sizes
    <3> QED BY <3>1, SeqDef
  <2> HIDE DEF sizes
  <2>5. ~(j < i)
    <3> SUFFICES ASSUME j < i PROVE FALSE
      OBVIOUS
    <3>1. shown[i] = 0
      BY <2>2, <2>4, CutShort
    <3> HIDE DEF shown
    <3> QED BY <3>1
  <2>6. i <= j
    BY <2>1, <2>5
  <2> QED BY <2>6, WorstFirst
<1> QED BY <1>1, PassesInvariant, PTL

=============================================================================
