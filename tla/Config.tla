------------------------------- MODULE Config -------------------------------
(***************************************************************************)
(* internal/config/config.go: LoadFrom makes the configuration of the      *)
(* environment.  A variable's value is what its parser makes of it; paths  *)
(* and lists are sequences of what their separators separate, trimmed.     *)
(***************************************************************************)
EXTENDS Integers, SequencesExt

CONSTANTS
    Unset,              \* a variable that is not set, a file that is not there
    Junk,               \* a value that its parser refuses
    Severities,         \* routing.Severities
    PlainSegments       \* the path segments that basePathSegment matches, but . and ..

\* What is not set is no value of its own; no segment of an accepted path is empty.
ASSUME ConfigAssumption == Unset \notin {Junk, "ns"} /\ "" \notin PlainSegments

Get(v, fallback) == IF v = Unset THEN fallback ELSE v

\* An environment in which only the namespace is set.
Defaults ==
    [HTTP_PORT |-> Unset, LABEL_SELECTOR |-> Unset, CACHE_TTL |-> Unset,
     MUST_REACT_SEVERITIES |-> Unset, BASE_PATH |-> Unset,
     NAMESPACE |-> "ns", POD_NAMESPACE |-> Unset, serviceAccount |-> Unset]

DefaultPort == 8080
BadPort(v) == v \notin 1..65535

Blank(v) == v \in {Unset, ""}

\* parseSeverities
BadSeverities(list) == ToSet(list) \ ({""} \cup Severities) # {}
MustReact(list) == IF BadSeverities(list) THEN {} ELSE ToSet(list) \ {""}

\* strings.Trim(s, "/"): no empty segments at either end.
TrimSlashes(segments) ==
    LET named == {i \in DOMAIN segments : segments[i] # ""}
    IN  IF named = {} THEN <<>> ELSE SubSeq(segments, Min(named), Max(named))

\* ParseBasePath
BadBasePath(segments) == ~(ToSet(TrimSlashes(segments)) \subseteq PlainSegments)
BasePath(segments) == IF BadBasePath(segments) THEN <<>> ELSE TrimSlashes(segments)

\* resolveNamespace: the first that says anything.
NamespaceSources == <<"NAMESPACE", "POD_NAMESPACE", "serviceAccount">>
NoNamespace(env) == \A i \in DOMAIN NamespaceSources : Blank(env[NamespaceSources[i]])
Namespace(env) ==
    LET said == SelectSeq(NamespaceSources, LAMBDA source : ~Blank(env[source]))
    IN  IF said = <<>> THEN "" ELSE env[said[1]]

\* The configuration, and the variables whose values are invalid.
Loaded(env, errs) ==
    [port |-> Get(env.HTTP_PORT, DefaultPort),
     ttl |-> IF "CACHE_TTL" \in errs THEN 0 ELSE Get(env.CACHE_TTL, 10),
     mustReact |-> MustReact(Get(env.MUST_REACT_SEVERITIES, <<"error", "critical">>)),
     basePath |-> BasePath(Get(env.BASE_PATH, <<"">>)),
     namespace |-> Namespace(env),
     errs |-> errs]

Errs(env) ==
    {v \in {"HTTP_PORT"} : BadPort(Get(env[v], DefaultPort))}
    \cup {v \in {"LABEL_SELECTOR"} : env[v] = Junk}
    \cup {v \in {"CACHE_TTL"} : env[v] = Junk \/ (env[v] # Unset /\ env[v] < 0)}
    \cup {v \in {"MUST_REACT_SEVERITIES"} : env[v] # Unset /\ BadSeverities(env[v])}
    \cup {v \in {"BASE_PATH"} : env[v] # Unset /\ BadBasePath(env[v])}
    \cup {v \in {"NAMESPACE"} : NoNamespace(env)}

\* Variant of LoadFrom: it returns at the first value that is invalid.
LoadFromStops(env) ==
    LET order == <<"HTTP_PORT", "LABEL_SELECTOR", "CACHE_TTL", "MUST_REACT_SEVERITIES",
                   "BASE_PATH", "NAMESPACE">>
        found == SelectSeq(order, LAMBDA v : v \in Errs(env))
    IN  Loaded(env, IF found = <<>> THEN {} ELSE {found[1]})

LoadFrom(env) == Loaded(env, Errs(env))

\* The environment with one variable as it is in `env` and the others right.  The
\* sources of the namespace are one value.
OneOf(env, v) ==
    LET sources == ToSet(NamespaceSources)
        of == IF v \in sources THEN sources ELSE {v}
    IN  [w \in DOMAIN env |-> IF w \in of THEN env[w] ELSE Defaults[w]]
=============================================================================
