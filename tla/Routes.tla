------------------------------- MODULE Routes -------------------------------
(***************************************************************************)
(* Which handler answers a URL: the patterns of the API, the pages and the *)
(* health check, behind Mount (internal/handlers/basepath.go).             *)
(*                                                                         *)
(* A URL's path is the sequence of what its slashes separate: /a/b is      *)
(* <<"a", "b">>, / is <<"">> and /a/ is <<"a", "">>.                       *)
(***************************************************************************)
EXTENDS Integers, SequencesExt

\* http.ServeMux patterns: one path, or every path below it.
Exact(method, path, to) ==
    [method |-> method, path |-> path, subtree |-> FALSE, to |-> to]
Subtree(method, path, to) ==
    [method |-> method, path |-> path, subtree |-> TRUE, to |-> to]

-----------------------------------------------------------------------------
(* net/http's ServeMux. *)

Matches(p, url) == IF p.subtree THEN IsStrictPrefix(p.path, url) ELSE p.path = url

Allows(p, method) == p.method \in {"", method}

\* Register panics on a pattern that is registered already.
Registrable(patterns) ==
    \A i, j \in DOMAIN patterns :
        LET p == patterns[i]  q == patterns[j]
        IN  <<p.method, p.path, p.subtree>> = <<q.method, q.path, q.subtree>> => i = j

\* The pattern with the longest path answers.  That the mux redirects the path of
\* a subtree, /static, to the subtree is left out.
Route(patterns, method, url) ==
    LET matching == {p \in ToSet(patterns) : Matches(p, url)}
        allowed == {p \in matching : Allows(p, method)}
    IN  IF allowed # {}
          THEN (CHOOSE p \in allowed : \A q \in allowed : Len(q.path) <= Len(p.path)).to
        ELSE IF matching # {} THEN "405" ELSE "404"

-----------------------------------------------------------------------------
(* The viewer's patterns. *)

ApiRoutes ==
    <<Exact("GET", <<"api", "components">>, "api"),
      Exact("GET", <<"api", "findings">>, "api"),
      Exact("GET", <<"api", "streams">>, "api"),
      Exact("GET", <<"api", "matrix">>, "api matrix"),
      Exact("POST", <<"api", "dryrun">>, "api dry run")>>

WebRoutes ==
    <<Exact("GET", <<"">>, "overview"),
      Exact("GET", <<"matrix">>, "matrix"),
      Exact("GET", <<"dryrun">>, "dry run form"),
      Exact("POST", <<"dryrun">>, "dry run"),
      Exact("GET", <<"ui", "manifest.json">>, "manifest"),
      Exact("GET", <<"ui", "fragment", "findings">>, "fragment"),
      Subtree("GET", <<"static">>, "static")>>

\* newMux
AppRoutes == <<Exact("", <<"healthz">>, "health")>> \o ApiRoutes \o WebRoutes

\* What Mount registers: "app" is the app behind StripPrefix, and "to UI" the
\* redirect to the base path with a slash.
Mount(base) ==
    <<Exact("", <<"health">>, "health"), Exact("", <<"healthz">>, "health")>>
    \o IF base = <<>> THEN <<Subtree("", <<>>, "app")>>
       ELSE <<Subtree("", base, "app"), Exact("", base, "to UI"), Exact("", <<"">>, "to UI")>>

\* Variant of Stripped: Mount forgets StripPrefix.
NotStripped(base, url) == url

Stripped(base, url) == SubSeq(url, Len(base) + 1, Len(url))

Dispatch(base, method, url) ==
    LET to == Route(Mount(base), method, url)
    IN  IF to = "app" THEN Route(AppRoutes, method, Stripped(base, url)) ELSE to

\* Variant of LinkTo: a template writes a path without url.
LinkWithoutBase(base, path) == IF path = <<"matrix">> THEN path ELSE base \o path

\* The url function of the templates, and the manifest's fragment URL.
LinkTo(base, path) == base \o path

\* What the templates and the manifest link to, and what homerun2-portal asks for.
Links ==
    {<<"GET", <<"">>, "overview">>, <<"GET", <<"matrix">>, "matrix">>,
     <<"GET", <<"dryrun">>, "dry run form">>, <<"POST", <<"dryrun">>, "dry run">>,
     <<"GET", <<"static", "viewer.css">>, "static">>,
     <<"GET", <<"ui", "manifest.json">>, "manifest">>,
     <<"GET", <<"ui", "fragment", "findings">>, "fragment">>}

\* Where a browser ends up that follows redirects.
Arrives(base, method, url) ==
    LET to == Dispatch(base, method, url)
    IN  IF to = "to UI" THEN Dispatch(base, method, Append(base, "")) ELSE to
=============================================================================
