------------------------------ MODULE MCViews ------------------------------
(***************************************************************************)
(* Namespaces of one omni-pitcher, one other pitcher and one catcher, each *)
(* in every configuration that the code tells apart.                       *)
(***************************************************************************)
EXTENDS Pages, TLC

CONSTANTS full, untitled    \* messages: one with every field, one without a title

Deployments == {"omni", "other", "catcher"}

NoEnv == <<>>
NoFile == [err |-> "missing"]
Errs == {[err |-> e] : e \in {"unresolved", "missing", "cannot start"}}

Plain(label, image) ==
    [label |-> label, image |-> image, named |-> "other", hasContainer |-> TRUE,
     replicas |-> 1, envProblems |-> {}, importsSecret |-> FALSE,
     env |-> NoEnv, profileArg |-> {}, file |-> NoFile]

\* A Deployment as it should be, and as it should not.
Spoilt(s) == {[s EXCEPT !.replicas = 0], [s EXCEPT !.envProblems = {"env"}],
              [s EXCEPT !.importsSecret = TRUE]}

StreamEnvs == {NoEnv} \cup {"REDIS_STREAM" :> v : v \in {Known({"s"}), Known({}), Flagged({})}}

-----------------------------------------------------------------------------
AnyPath == {"/pitch", "/pitch/grafana", "/generic"}

Routings ==
    {Invalid,
     [default |-> "messages", rules |-> <<>>],
     [default |-> "messages",
      rules |-> <<[paths |-> {"/pitch/grafana"}, msgs |-> {full}, stream |-> "alerts"],
                  [paths |-> AnyPath, msgs |-> {full}, stream |-> "s"]>>],
     [default |-> "alerts",
      rules |-> <<[paths |-> AnyPath, msgs |-> {}, stream |-> "homerun"],
                  [paths |-> {"/pitch", "/pitch/grafana"}, msgs |-> {full}, stream |-> "alerts"]>>]}

RoutesEnv(v) == "ROUTES_CONFIG" :> v

SoundOmnis ==
    LET base == Plain("api", "other")
        modes == {NoEnv} \cup {"PITCHER_MODE" :> v : v \in {Known("file"), Flagged("")}}
        streams == {[base EXCEPT !.env = e @@ m] : e \in StreamEnvs, m \in modes}
        routed == {[base EXCEPT !.env = RoutesEnv(Known("/r")) @@ m, !.file = f] :
                     f \in Errs \cup {[routes |-> r] : r \in Routings}, m \in modes}
        unknown == {[base EXCEPT !.env = RoutesEnv(Flagged(""))]}
    IN  streams \cup routed \cup unknown

Omnis == SoundOmnis \cup UNION {Spoilt(s) : s \in SoundOmnis}

-----------------------------------------------------------------------------
Url(host, path) == "OMNI_PITCHER_URL" :> Known([http |-> TRUE, host |-> host])
                   @@ "OMNI_PITCHER_API_PATH" :> Known(path)

Urls == {NoEnv, Url("omni", "/pitch"), Url("omni", "/pitch/grafana"), Url("omni", "/generic"),
         Url("elsewhere", "/pitch"),
         "OMNI_PITCHER_URL" :> Known([http |-> FALSE, host |-> "omni"]),
         "OMNI_PITCHER_URL" :> Flagged([http |-> FALSE, host |-> ""])}

Demos ==
    LET base == Plain("pitcher", "demo-pitcher")
        modes == {Known("redis"), Known("file"), Known("http"), Known("omni-pitcher"),
                  Known("both"), Flagged("")}
    IN  {[base EXCEPT !.env = "PITCH_TARGET" :> m @@ "REDIS_STREAM" :> Known({"s"})] : m \in modes}
        \cup {[base EXCEPT !.env = e] : e \in StreamEnvs}
        \cup {[base EXCEPT !.env = u @@ "PITCH_TARGET" :> m] :
                u \in Urls, m \in {Known("omni-pitcher"), Known("both")}}

K8s(redis, stream, pitcher, watches) ==
    [k8s |-> [redis |-> redis, stream |-> stream, pitcher |-> pitcher, watches |-> watches]]

OmniURL == [http |-> TRUE, host |-> "omni", path |-> "/pitch"]

K8sPitchers ==
    LET base == [Plain("watcher", "other") EXCEPT !.profileArg = {Known("/p")}]
        files == Errs \cup {[k8s |-> Invalid],
                            K8s(TRUE, {"s"}, {}, TRUE), K8s(TRUE, {}, {}, TRUE),
                            K8s(TRUE, {"s"}, {OmniURL}, TRUE), K8s(FALSE, {}, {}, TRUE),
                            K8s(FALSE, {}, {OmniURL}, FALSE)}
        http == [base EXCEPT !.file = K8s(FALSE, {}, {OmniURL}, TRUE)]
    IN  {[base EXCEPT !.file = f] : f \in files}
        \cup {http, [http EXCEPT !.env = "PITCHER_MODE" :> Known("file")],
              [http EXCEPT !.profileArg = {}], [http EXCEPT !.profileArg = {Flagged("$(P)")}]}

Others ==
    LET git == [Plain("pitcher", "other") EXCEPT !.named = "git-pitcher"]
        all == Demos \cup K8sPitchers
               \cup {Plain("pitcher", "other"), git,
                     [git EXCEPT !.env = "PITCHER_MODE" :> Known("file")],
                     [git EXCEPT !.env = "PITCHER_MODE" :> Known("stream")]}
        http == [Plain("pitcher", "demo-pitcher") EXCEPT
                   !.env = Url("omni", "/pitch") @@ "PITCH_TARGET" :> Known("both")]
    IN  all \cup Spoilt(http)

-----------------------------------------------------------------------------
CatcherSpecs ==
    LET led == [Plain("led", "other") EXCEPT !.file = [profile |-> "valid"],
                   !.env = "UI_STREAM_PRESETS" :> Known({"s", "messages"})]
        light == Plain("light", "other")
    IN  {Plain("consumer", "other"), led,
         [led EXCEPT !.replicas = 0],
         [led EXCEPT !.env = "UI_STREAM_PRESETS" :> Flagged({})],
         [led EXCEPT !.env = "REDIS_STREAM" :> Flagged({}) @@ @],
         [light EXCEPT !.env = "REDIS_STREAMS" :> Known({"s", "homerun"}),
                       !.file = [profile |-> Invalid]],
         [light EXCEPT !.file = [err |-> "cannot start"]],
         [Plain("sound", "other") EXCEPT !.env = "SOUND_MODE" :> Known("standalone")],
         Plain("sound", "other"), Plain("notifier", "other"),
         Plain("analytics", "other"), Plain("something", "other"),
         [Plain("consumer", "other") EXCEPT !.hasContainer = FALSE]}

NamespacesOf(omnis, others, catchers) ==
    {[omni |-> o, other |-> p, catcher |-> c] : o \in omnis, p \in others, c \in catchers}

\* One catcher while the pitchers vary; while the catchers do, demo-pitchers only
\* and an omni-pitcher that runs.
HttpPitchers == {s \in Demos : "OMNI_PITCHER_URL" \in DOMAIN s.env}

TheNamespaces ==
    NamespacesOf(Omnis, Others, {Plain("consumer", "other")})
    \cup NamespacesOf(SoundOmnis, HttpPitchers, CatcherSpecs)
=============================================================================
