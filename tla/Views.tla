------------------------------- MODULE Views -------------------------------
(***************************************************************************)
(* internal/discovery/views.go and dryrun.go: what the API and the pages   *)
(* show of a Result - findings, who publishes to and reads each stream,    *)
(* and what a message would do.                                            *)
(***************************************************************************)
EXTENDS Discovery

Comps == {components[n] : n \in Names}

\* Result.Streams.
AllStreams == UNION {c.streams : c \in {d \in Comps : Routed(d)}}

(* Findings. *)

\* Variant of OnDemandReaders: catchers that do not run count.
OnDemandOfAny(s) == {c \in Comps : s \in c.onDemand}

OnDemandReaders(s) == {c \in Comps : Routed(c) /\ s \in c.onDemand}

\* routing.Check: unread streams, of the routed components.
Unread(s) ==
    /\ \E c \in Comps : Routed(c) /\ c.role = "pitcher" /\ s \in c.streams
    /\ ~\E c \in Comps : Routed(c) /\ c.role = "catcher" /\ s \in c.streams

UnreadFindings == {s \in AllStreams : Unread(s) /\ OnDemandReaders(s) = {}}

KnownPitchTargets == {"redis", "file", "omni-pitcher", "both"}

PitchFindings(c) ==
    {t.kind : t \in {u \in c.target :
                       u.kind # "" /\ Running(c) /\ c.startProblems = {}}}
    \cup {"pitch-target-invalid" : m \in {m \in c.mode :
                       c.kind = "demo-pitcher" /\ ~Unknown(m)
                       /\ m.value \notin KnownPitchTargets}}

\* Variant of RoleFindings: unknown streams before replicas.
UnknownFirst(c) ==
    IF c.role = "" THEN {}
    ELSE IF c.streamsUnresolved THEN {"streams-unknown"}
    ELSE IF Running(c) THEN {} ELSE {"scaled-to-zero"}

RoleFindings(c) ==
    IF c.role = "" THEN {}
    ELSE IF ~Running(c) THEN {"scaled-to-zero"}
    ELSE IF c.streamsUnresolved THEN {"streams-unknown"} ELSE {}

ProfileFindings(c) ==
    IF c.role # "catcher" THEN {}
    ELSE {IF p = "missing" THEN "profile-missing" ELSE "profile-unresolved" :
            p \in c.profile \cap {"missing", "unresolved"}}

\* Component.findings, by kind.
ComponentFindings(c) ==
    (IF c.startProblems # {} THEN {"pod-cannot-start"} ELSE {})
    \cup RoleFindings(c) \cup PitchFindings(c) \cup ProfileFindings(c)

-----------------------------------------------------------------------------
(* Streams. *)

\* The rules that choose s for pitches on path ("" for any), 0 for "no rule
\* matches".
WhenOn(omni, s, path) ==
    UNION {{i \in DOMAIN r.rules : /\ path = "" \/ path \in r.rules[i].paths
                                   /\ r.rules[i].stream = s}
           \cup (IF r.default = s THEN {0} ELSE {}) : r \in omni.routes}

ViaWriters(s) ==
    UNION {{[name |-> c.name, via |-> t.omni,
             when |-> UNION {WhenOn(components[n], s, t.path) : n \in t.omni}] :
              t \in {u \in c.target : s \in u.streams}} :
           c \in {d \in Comps : Running(d) /\ d.startProblems = {}}}

\* The pitchers of StreamUses.
Writers(s) ==
    {[name |-> c.name, via |-> {}, when |-> WhenOn(c, s, "")] :
       c \in {d \in Comps : Routed(d) /\ d.role = "pitcher" /\ s \in d.streams}}
    \cup ViaWriters(s)

-----------------------------------------------------------------------------
(* Dry runs. *)

DryRun(s) ==
    [stream |-> s,
     pitchers |-> {w.name : w \in Writers(s)},
     reachesNobody |->
       ~\E c \in Comps : Routed(c) /\ c.role = "catcher" /\ s \in c.streams]

\* A PitchPath: a problem, a rejection, or the dry run on the stream it leads to.
Way(via, rule, problem, result) ==
    [via |-> via, rule |-> rule, problem |-> problem, result |-> result]

\* StreamRoutes.Resolve: the first rule that matches, 0 if none does.
FirstRule(r, path, m) ==
    LET match == {i \in DOMAIN r.rules : path \in r.rules[i].paths /\ m \in r.rules[i].msgs}
    IN  IF match = {} THEN 0 ELSE CHOOSE i \in match : \A j \in match : i <= j

RoutedTo(r, rule) == IF rule = 0 THEN r.default ELSE r.rules[rule].stream

PitchThrough(omni, path, m) ==
    IF m \in Rejected THEN {Way({omni.name}, {}, "rejected", {})}
    ELSE IF omni.routes # {}
      THEN {Way({omni.name}, {FirstRule(r, path, m)}, "",
                {DryRun(RoutedTo(r, FirstRule(r, path, m)))}) : r \in omni.routes}
    ELSE IF omni.streams # {}
      THEN {Way({omni.name}, {}, "", {DryRun(s)}) : s \in omni.streams}
    ELSE {Way({omni.name}, {}, "streams unknown", {})}

PitchTo(t, m) ==
    IF t.omni = {} \/ t.problem # "" THEN {Way(t.omni, {}, t.problem, {})}
    ELSE UNION {PitchThrough(components[n], t.path, m) : n \in t.omni}

\* DryRunFrom: PitchDryRun.Paths of message m sent by pitcher c.
DryRunFrom(c, m) ==
    IF ~Running(c) \/ c.startProblems # {} THEN {}
    ELSE IF c.kind = "omni-pitcher"
      THEN IF c.streams # {} \/ c.streamsUnresolved THEN PitchThrough(c, PitchPath, m) ELSE {}
    ELSE {Way({}, {}, "", {DryRun(s)}) : s \in c.streams}
         \cup UNION {PitchTo(t, m) : t \in c.target}

\* PitchDryRun.Notes.
DryRunNotes(c, m) ==
    IF ~Running(c) THEN {Note("scaled to zero")}
    ELSE IF c.startProblems # {} THEN {Note("cannot start")}
    ELSE IF DryRunFrom(c, m) = {} THEN {Note("publishes to no stream")} \cup c.notes
    ELSE {}

-----------------------------------------------------------------------------
(* Properties of the Result and its views. *)

\* The notes that say why a component has no streams: it uses none, or they are unknown.
NoStreamNotes == {Note("file"), Note("standalone"),
                  Note("streams unknown"), Note("default stream unknown")}

PitchersOf == {c \in Comps : c.role = "pitcher"}

\* pitchtarget.go:57-59: the streams of a target are those its omni-pitcher ends up
\* with for pitches on the target's path - every stream that some message pitched
\* there is published to, and none but those that the omni-pitcher publishes to and,
\* where it routes, that a rule for this path or the default chooses.
TargetsFollowOmni ==
    Done => \A c \in Comps : \A t \in c.target : \A n \in t.omni :
        t.problem = "" =>
            /\ t.streams \subseteq components[n].streams
            /\ \A s \in t.streams :
                 components[n].routes = {} \/ WhenOn(components[n], s, t.path) # {}
            /\ \A m \in Messages : \A w \in PitchThrough(components[n], t.path, m) :
                 \A d \in w.result : d.stream \in t.streams

\* The two ways of asking where a message goes agree: if a dry run from a pitcher
\* publishes to a stream, then the overview lists the pitcher there, with the same
\* omni-pitcher and with the rule that was applied among its rules.
DryRunsAgree ==
    Done => \A c \in PitchersOf, m \in Messages : \A w \in DryRunFrom(c, m) :
        \A d \in w.result :
            /\ d.stream \in AllStreams
            /\ \E u \in Writers(d.stream) :
                 /\ u.name = c.name
                 /\ u.via = w.via \ {c.name}
                 /\ w.rule \subseteq u.when

\* Whenever a dry run says that a message reaches nobody, the overview has said so:
\* the stream is reported as unread, unless a routed catcher reads it on demand.
DeadEndsReported ==
    Done => \A c \in PitchersOf, m \in Messages : \A w \in DryRunFrom(c, m) :
        \A d \in w.result :
            d.reachesNobody =>
                \/ d.stream \in UnreadFindings
                \/ \E r \in Comps : Routed(r) /\ d.stream \in r.onDemand

\* pitchtarget.go:31-33: every pitch of a running pitcher that cannot arrive is a
\* finding, of the pitcher or of the omni-pitcher it goes to.
PitchFailuresCovered ==
    Done => \A c \in PitchersOf : \A t \in c.target :
        Running(c) /\ c.startProblems = {} /\ t.problem # "" =>
            IF t.kind # "" THEN t.kind \in ComponentFindings(c)
            ELSE \E n \in t.omni :
                   ComponentFindings(components[n])
                     \cap {"scaled-to-zero", "pod-cannot-start"} # {}

-----------------------------------------------------------------------------
(* What the repository says and the code does not do. *)

\* discovery.go:37-38, "Empty when it uses none or they could not be resolved - Notes
\* says which": of a component of message routing whose pod starts and that does not
\* pitch over HTTP, a note says why it has no streams if it has none; and if it has
\* some, the mode that decides whether it uses any is one that could be resolved.
StreamsAsDocumented ==
    Done => \A c \in Comps :
        c.role # "" /\ c.startProblems = {} /\ c.target = {} =>
            IF c.streams = {} THEN c.notes \cap NoStreamNotes # {}
                              ELSE \A mode \in c.mode : ~Unknown(mode)
=============================================================================
