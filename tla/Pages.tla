------------------------------- MODULE Pages -------------------------------
(***************************************************************************)
(* internal/web: how the pages and the portal's fragment arrange a Result, *)
(* and what the dry-run form offers.                                       *)
(***************************************************************************)
EXTENDS Views, Sequences, FiniteSets

CONSTANT FragmentLimit      \* findingsFragmentLimit

ASSUME LimitAssumption == FragmentLimit \in Nat

\* Result.Findings, those of routing.Check on consumer groups and rules left out:
\* the kind, what it is about, and the start problem.
Findings ==
    {<<"unread-stream", s>> : s \in UnreadFindings}
    \cup UNION {{<<"pod-cannot-start", c.name, p>> : p \in c.startProblems}
                \cup {<<k, c.name>> : k \in ComponentFindings(c) \ {"pod-cannot-start"}} :
              c \in Comps}

\* Variants of FindingKinds: a kind that was added at the end; one that was forgotten.
FindingKindsAppended ==
    <<<<"pod-cannot-start", "error">>, <<"unread-stream", "error">>,
      <<"pitch-target-unresolved", "warn">>, <<"pitch-target-invalid", "warn">>,
      <<"shared-consumer-group", "warn">>, <<"uncovered-severity", "warn">>,
      <<"broken-rule", "warn">>, <<"profile-missing", "warn">>,
      <<"profile-unresolved", "info">>, <<"streams-unknown", "info">>,
      <<"scaled-to-zero", "info">>, <<"pitch-path-unknown", "error">>>>

FindingKindsForgotten ==
    SelectSeq(FindingKindsAppended, LAMBDA k : k[1] # "pitch-path-unknown")

FindingKinds ==
    <<<<"pod-cannot-start", "error">>, <<"unread-stream", "error">>,
      <<"pitch-path-unknown", "error">>,
      <<"pitch-target-unresolved", "warn">>, <<"pitch-target-invalid", "warn">>,
      <<"shared-consumer-group", "warn">>, <<"uncovered-severity", "warn">>,
      <<"broken-rule", "warn">>, <<"profile-missing", "warn">>,
      <<"profile-unresolved", "info">>, <<"streams-unknown", "info">>,
      <<"scaled-to-zero", "info">>>>

\* groupFindings: a group for each kind of the table, and the others after them.
GroupCount == Len(FindingKinds) + 1
IsKnown(kind) == \E i \in DOMAIN FindingKinds : FindingKinds[i][1] = kind
Group(findings, i) ==
    {f \in findings : IF i = GroupCount THEN ~IsKnown(f[1]) ELSE f[1] = FindingKinds[i][1]}
GroupSizes(findings) == [i \in 1..GroupCount |-> Cardinality(Group(findings, i))]
Level(i) == IF i = GroupCount THEN "info" ELSE FindingKinds[i][2]

\* findingsFragment: how many findings of each group it shows.
Least(a, b) == IF a < b THEN a ELSE b
ShownOf(sizes) ==
    LET shown[i \in 0..Len(sizes)] ==      \* of the first i groups together
            IF i = 0 THEN 0 ELSE Least(FragmentLimit, shown[i - 1] + sizes[i])
    IN  [i \in DOMAIN sizes |-> shown[i] - shown[i - 1]]

-----------------------------------------------------------------------------
\* fillChoices: the pitchers that the form offers.
PitcherChoices == {c \in Comps : c.role = "pitcher"}

-----------------------------------------------------------------------------
(* Properties. *)

\* REDIS_STREAM="", of which no note and no finding says anything (discovery.go:307).
NoStreamSet(n) == Lookup(specs[n], "REDIS_STREAM", {}) = Known({})

Badness(level) == CASE level = "error" -> 2 [] level = "warn" -> 1 [] level = "info" -> 0

\* fragments.go:74-75, "the number of findings and the worst of them": what the
\* fragment leaves out is no worse than what it shows.
FragmentShowsWorst ==
    Done =>
        LET sizes == GroupSizes(Findings)
            shown == ShownOf(sizes)
        IN  \A i, j \in 1..GroupCount :
              shown[i] > 0 /\ shown[j] < sizes[j] => Badness(Level(i)) >= Badness(Level(j))

\* web.go:183-184: no finding that discovery reports ends among the unknown kinds,
\* which are shown last and as harmless.
FindingsRanked == Done => Group(Findings, GroupCount) = {}

\* dryrun.go:24-26, "Empty when it publishes nowhere the viewer can follow; Notes say
\* why": whenever a pitcher that the form offers gets an empty answer, a note beside it
\* gives the reason.  NoStreamSet is the only exception, of which StreamsAsDocumented
\* is violated.
EmptyDryRunsExplained ==
    Done => \A c \in PitcherChoices, m \in Messages :
        DryRunFrom(c, m) = {} =>
            \/ DryRunNotes(c, m) \cap ({Note("scaled to zero"), Note("cannot start")}
                                        \cup NoStreamNotes) # {}
            \/ NoStreamSet(c.name)

\* A pitch target without a problem that leads to no stream (pitchtarget.go:112) leads to
\* an omni-pitcher that has a note that it writes to a file, or a note and a finding that
\* its streams are unknown.  NoStreamSet is the only exception, of which
\* StreamsAsDocumented is violated.
EmptyTargetsExplained ==
    Done => \A c \in Comps : \A t \in c.target :
        t.problem = "" /\ t.streams = {} =>
            \E n \in t.omni :
                \/ Note("file") \in components[n].notes
                \/ /\ Note("streams unknown") \in components[n].notes
                   /\ "streams-unknown" \in ComponentFindings(components[n])
                \/ NoStreamSet(n)
=============================================================================
