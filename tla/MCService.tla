----------------------------- MODULE MCService -----------------------------
EXTENDS Service, TLC

CONSTANTS r1, r2, apiErr

ConnSymmetry == Permutations(Conns)
ApiErrs == {apiErr}

\* The environments differ from the defaults in these values.
With(path, port, ttl, severities, ns) ==
    [Defaults EXCEPT !.BASE_PATH = path, !.HTTP_PORT = port, !.CACHE_TTL = ttl,
                     !.MUST_REACT_SEVERITIES = severities, !.NAMESPACE = ns]

\* No base path, one with slashes around it, and one of two segments that begins with
\* the path of one of the viewer's own pages.
RightPaths == {Unset, <<"", "config", "">>, <<"matrix", "config">>}

Right == {With(path, Unset, Unset, Unset, "ns") : path \in RightPaths}

\* Each variable right or wrong, in every combination.
Mixed ==
    {With(path, port, ttl, severities, ns) :
        path \in {<<"a", "", "config">>, <<"..">>, <<"config">>}, port \in {9000, 0, 65536, Junk},
        ttl \in {0, -1, Junk}, severities \in {<<"error", "">>, <<"error", "fatal">>},
        ns \in {"ns", "", Unset}}

Combinations ==
    LET errs(e) == LoadFrom(e).errs
    IN  {e \in Mixed : errs(e) # {}}
        \cup {[e EXCEPT !.POD_NAMESPACE = pod, !.serviceAccount = file] :
                 e \in {With(<<"..">>, Unset, Unset, Unset, "")},
                 pod \in {Unset, "pod"}, file \in {Unset, ""}}

\* And a base path that is the health check's own.
Environs == Right \cup Combinations \cup {With(<<"health">>, Unset, Unset, Unset, "ns")}

\* A BASE_PATH of one plain segment, the paths of Mount among them.
OneSegment == {With(<<"", s>>, Unset, Unset, Unset, "ns") : s \in PlainSegments}
               \cup {With(<<"">>, Unset, Unset, Unset, "ns")}

\* What clients ask for: one the findings and, as the kubelet does, the health check;
\* the other something of each kind.
Ask(method, path, fault, htmx) ==
    [method |-> method, path |-> path, fault |-> fault, htmx |-> htmx]

Fragment == Ask("GET", <<"config", "ui", "fragment", "findings">>, "none", FALSE)

OfEachKind ==
    {Fragment,
     Ask("POST", <<"health">>, "none", FALSE),
     Ask("GET", <<"config">>, "none", FALSE),
     Ask("GET", <<"config", "matrix">>, "none", FALSE),
     Ask("POST", <<"config", "dryrun">>, "none", TRUE),
     Ask("POST", <<"config", "dryrun">>, "parameter", TRUE),
     Ask("POST", <<"config", "dryrun">>, "too large", FALSE),
     Ask("POST", <<"config", "api", "dryrun">>, "pitcher", FALSE)}

ClientRequests ==
    (r1 :> {Fragment, Ask("GET", <<"healthz">>, "none", FALSE)}) @@ (r2 :> OfEachKind)
=============================================================================
