SPECIFICATION Spec
CONSTANTS
    full = full
    untitled = untitled
    MessagesStream = "messages"
    HomerunStream = "homerun"
    AlertsStream = "alerts"
    Names <- Deployments
    Namespaces <- TheNamespaces
    Messages = {full, untitled}
    Rejected = {untitled}
    PitchPath = "/pitch"
    Invalid = Invalid
    FragmentLimit = 2
CHECK_DEADLOCK FALSE
INVARIANT TargetsFollowOmni
INVARIANT DryRunsAgree
INVARIANT DeadEndsReported
INVARIANT PitchFailuresCovered
INVARIANT FragmentShowsWorst
INVARIANT FindingsRanked
INVARIANT EmptyDryRunsExplained
INVARIANT EmptyTargetsExplained
