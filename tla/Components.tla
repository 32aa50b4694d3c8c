----------------------------- MODULE Components -----------------------------
(***************************************************************************)
(* resolveComponent (internal/discovery/discovery.go): what one Deployment *)
(* says of itself, from its spec and its environment alone.                *)
(*                                                                         *)
(* A pointer that may be nil is a set of at most one element; a stream     *)
(* name that may be "" likewise.  A URL is whether it is an http(s) URL,   *)
(* the Deployment of the namespace that its host names, and its path.      *)
(***************************************************************************)
EXTENDS Integers

CONSTANTS
    MessagesStream,     \* defaultStreamMessages
    HomerunStream,      \* demo-pitcher's default
    AlertsStream        \* notification-catcher's default

Catchers == {"core-catcher", "light-catcher", "led-catcher",
             "notification-catcher", "sound-catcher"}
Pitchers == {"omni-pitcher", "git-pitcher", "demo-pitcher", "pitcher", "k8s-pitcher"}

Role(kind) == IF kind \in Catchers THEN "catcher"
              ELSE IF kind \in Pitchers THEN "pitcher" ELSE ""

DefaultStream(kind) ==
    CASE kind = "demo-pitcher" -> {HomerunStream}
      [] kind = "notification-catcher" -> {AlertsStream}
      [] kind \in {"omni-pitcher", "git-pitcher"} \cup (Catchers \ {"notification-catcher"}) ->
           {MessagesStream}
      [] OTHER -> {}

HasProfile(kind) == kind \in Catchers \ {"core-catcher"}

\* The component label says what a component is, but "pitcher" is shared: then its
\* image and only after that its name tells.  analytics stands for the labels of
\* every service outside message routing.
KindOf == [api |-> "omni-pitcher", watcher |-> "k8s-pitcher", consumer |-> "core-catcher",
           light |-> "light-catcher", led |-> "led-catcher",
           notifier |-> "notification-catcher", sound |-> "sound-catcher",
           analytics |-> "scout"]

Classify(s) ==
    IF s.label # "pitcher"
      THEN IF s.label \in DOMAIN KindOf THEN KindOf[s.label] ELSE "unknown"
      ELSE IF s.image # "other" THEN s.image
           ELSE IF s.named # "other" THEN s.named ELSE "pitcher"

-----------------------------------------------------------------------------
(* The environment, as lookup returns it. *)

Known(v) == [value |-> v, unresolved |-> FALSE, set |-> TRUE]
Flagged(v) == [value |-> v, unresolved |-> TRUE, set |-> TRUE]

\* A variable that the spec does not set has the default, which an import from a
\* Secret makes uncertain.
Lookup(s, var, default) ==
    IF var \in DOMAIN s.env THEN s.env[var]
    ELSE [value |-> default, unresolved |-> s.importsSecret, set |-> FALSE]

\* v.Unresolved != "" && v.Source != SourceDefault
Unknown(v) == v.unresolved /\ v.set

Note(what) == <<what, "">>
NoteUnresolved(var, v) == IF v.unresolved THEN {<<"unresolved", var>>} ELSE {}

-----------------------------------------------------------------------------
\* setStreams: a value that is unknown makes the streams unknown.  values are
\* <<variable, Value>>, read in this order.
SetStreams(c, streams, values) ==
    LET unknown == {i \in DOMAIN values : Unknown(values[i][2])}
        read == {i \in DOMAIN values : \A j \in unknown : i < j}
        noted == [c EXCEPT !.notes = @ \cup
                    UNION {NoteUnresolved(values[i][1], values[i][2]) : i \in read}]
    IN  IF unknown = {} THEN [noted EXCEPT !.streams = streams]
        ELSE [noted EXCEPT !.streamsUnresolved = TRUE,
                           !.notes = @ \cup {Note("streams unknown")}]

\* routing.ParseStreams: REDIS_STREAMS, else REDIS_STREAM, else the default.
ParseStreams(streams, stream, default) ==
    IF streams # {} THEN streams ELSE IF stream # {} THEN stream ELSE default

\* Streams a preset of led-catcher's web simulator switches it to.
ResolveOnDemand(c, s) ==
    LET presets == Lookup(s, "UI_STREAM_PRESETS", {})
        noted == [c EXCEPT !.notes = @ \cup NoteUnresolved("UI_STREAM_PRESETS", presets)]
        extra == presets.value \ c.streams
    IN  IF c.kind # "led-catcher" THEN c
        ELSE IF c.streamsUnresolved \/ Unknown(presets) THEN noted
        ELSE [noted EXCEPT !.onDemand = extra,
                           !.notes = IF extra = {} THEN @ ELSE @ \cup {Note("on demand")}]

\* PROFILE_PATH stands for notification-catcher's CONFIG_PATH as well.
ResolveCatcher(c, s) ==
    LET mode == Lookup(s, "SOUND_MODE", "full")
        streams == Lookup(s, "REDIS_STREAMS", {})
        stream == Lookup(s, "REDIS_STREAM", {})
        group == Lookup(s, "CONSUMER_GROUP", c.kind)
        path == Lookup(s, "PROFILE_PATH", "default")
        known == SetStreams(c, ParseStreams(streams.value, stream.value, DefaultStream(c.kind)),
                            <<<<"REDIS_STREAMS", streams>>, <<"REDIS_STREAM", stream>>>>)
        grouped == [known EXCEPT !.group = {group},
                                 !.notes = @ \cup NoteUnresolved("CONSUMER_GROUP", group)]
        profiled == IF ~HasProfile(c.kind) THEN grouped
                    ELSE [grouped EXCEPT !.profilePath = {path},
                                         !.notes = @ \cup NoteUnresolved("PROFILE_PATH", path)]
    IN  IF c.kind = "sound-catcher" /\ mode.value = "standalone"
          THEN [c EXCEPT !.mode = {mode}, !.notes = @ \cup {Note("standalone")}]
          ELSE ResolveOnDemand(IF c.kind = "sound-catcher"
                                 THEN [profiled EXCEPT !.mode = {mode}] ELSE profiled, s)

-----------------------------------------------------------------------------
\* A PitchTarget that has not been followed yet; unknown: one of its From is.
Target(url, unknown) ==
    [url |-> url, unknown |-> unknown, omni |-> {}, path |-> "", streams |-> {},
     problem |-> "", kind |-> ""]

DemoPitchTarget(s) ==
    LET base == Lookup(s, "OMNI_PITCHER_URL", [http |-> TRUE, host |-> "localhost"])
        path == Lookup(s, "OMNI_PITCHER_API_PATH", "/generic")
    IN  Target([http |-> base.value.http, host |-> base.value.host, path |-> path.value],
               Unknown(base) \/ Unknown(path))

\* PITCH_TARGET: which of Redis, HTTP and a file demo-pitcher uses.
DemoPitcherMode(c, s) ==
    LET mode == Lookup(s, "PITCH_TARGET", "redis")
        noted == [c EXCEPT !.mode = {mode},
                           !.notes = @ \cup NoteUnresolved("PITCH_TARGET", mode)]
    IN  CASE mode.value = "redis" -> noted
          [] mode.value \in {"both", "omni-pitcher"} ->
               [noted EXCEPT !.target = {DemoPitchTarget(s)}]
          [] mode.value = "file" -> [noted EXCEPT !.notes = @ \cup {Note("file")}]
          [] OTHER -> [noted EXCEPT !.notes = @ \cup {Note("falls back to redis")}]

\* PITCHER_MODE of git- and omni-pitcher.
PitcherMode(c, s) ==
    LET mode == Lookup(s, "PITCHER_MODE", "redis")
    IN  [c EXCEPT !.mode = {mode},
                  !.notes = @ \cup NoteUnresolved("PITCHER_MODE", mode)
                              \cup (IF mode.value = "redis" THEN {}
                                    ELSE {Note(IF mode.value = "file" THEN "file"
                                                                      ELSE "not file")})]

UsesRedis(c) ==
    \A mode \in c.mode :
        mode.value \notin (IF c.kind = "demo-pitcher" THEN {"file", "omni-pitcher"}
                                                      ELSE {"file"})

\* REDIS_STREAM, of a pitcher that publishes to Redis.
PublishTo(c, s) ==
    LET stream == Lookup(s, "REDIS_STREAM", DefaultStream(c.kind))
    IN  SetStreams(c, stream.value, <<<<"REDIS_STREAM", stream>>>>)

\* ROUTES_CONFIG, if it is set, stands in for REDIS_STREAM.
OmniStreams(c, s) ==
    LET routes == Lookup(s, "ROUTES_CONFIG", "")
    IN  IF routes.value # "" \/ Unknown(routes)
          THEN [c EXCEPT !.routesPath = {routes}]
          ELSE PublishTo([c EXCEPT !.notes = @ \cup NoteUnresolved("ROUTES_CONFIG", routes)], s)

\* k8s-pitcher takes everything but its mode from the file of its -profile flag.
ResolveK8sPitcherArgs(c, s) ==
    LET mode == Lookup(s, "PITCHER_MODE", "")
        noted == [c EXCEPT !.mode = {mode},
                           !.notes = @ \cup NoteUnresolved("PITCHER_MODE", mode)]
    IN  IF s.profileArg = {} THEN [noted EXCEPT !.startProblems = @ \cup {"no -profile"}]
                             ELSE [noted EXCEPT !.profilePath = s.profileArg]

ResolvePitcher(c, s) ==
    LET switched == IF c.kind = "demo-pitcher" THEN DemoPitcherMode(c, s)
                                               ELSE PitcherMode(c, s)
    IN  CASE c.kind = "k8s-pitcher" -> ResolveK8sPitcherArgs(c, s)
          [] c.kind = "pitcher" ->
               PublishTo([c EXCEPT !.notes = @ \cup {Note("default stream unknown")}], s)
          [] OTHER ->
               IF ~UsesRedis(switched) THEN switched
               ELSE IF c.kind = "omni-pitcher" THEN OmniStreams(switched, s)
               ELSE PublishTo(switched, s)

\* resolveComponent.
ResolveComponent(name, s) ==
    LET kind == IF s.hasContainer THEN Classify(s) ELSE "unknown"
        c == [name |-> name, kind |-> kind, role |-> Role(kind), replicas |-> s.replicas,
              startProblems |-> IF s.hasContainer THEN s.envProblems ELSE {},
              streams |-> {}, streamsUnresolved |-> FALSE, onDemand |-> {}, group |-> {},
              profilePath |-> {}, profile |-> {}, mode |-> {},
              routesPath |-> {}, routes |-> {}, target |-> {},
              notes |-> (IF s.replicas = 0 THEN {Note("scaled to zero")} ELSE {})
                        \cup (IF ~s.hasContainer THEN {Note("no containers")}
                              ELSE IF kind = "unknown" THEN {Note("not of homerun2")}
                              ELSE {})]
    IN  CASE c.role = "catcher" -> ResolveCatcher(c, s)
          [] c.role = "pitcher" -> ResolvePitcher(c, s)
          [] OTHER -> c

Running(c) == c.replicas > 0

Routed(c) == c.role # "" /\ Running(c) /\ c.startProblems = {} /\ c.streams # {}
=============================================================================
