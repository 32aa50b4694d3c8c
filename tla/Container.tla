----------------------------- MODULE Container -----------------------------
(***************************************************************************)
(* From a container to its profile: resolveEnv and readFile together.  A   *)
(* catcher's profile is where its variable says, which ContainerEnv        *)
(* resolves (resolveCatcher, resolveProfiles); k8s-pitcher's is where its  *)
(* arguments say, whatever its environment.                                *)
(*                                                                         *)
(* Every step is a step of ContainerEnv or of Profile, so that what is     *)
(* true of either is true here.                                            *)
(***************************************************************************)
EXTENDS ContainerEnv, Profile

CONSTANT
    ProfilePath     \* the variable PROFILE_PATH

ASSUME ContainerAssumption ==
    /\ ProfilePath \in Names
    /\ Values \cup {Default} \subseteq Paths

ContainerInit == EnvInit /\ Init

ResolveEnv ==
    /\ argv = <<>> /\ phase = "args"
    /\ EnvNext
    /\ UNCHANGED vars

\* k8s-pitcher, in a container without an environment.
ResolveArgs ==
    /\ entries = 0 /\ inList = "envFrom"
    /\ \A m \in ConfigMaps : configMaps[m] = Missing
    /\ \A s \in Secrets : secrets[s] = Missing
    /\ (\E a \in Args : Argument(a)) \/ resolveK8sPitcherArgs
    /\ UNCHANGED envState

\* An unresolved variable's path does not matter; a default that a Secret may replace
\* does: readFile goes on with it.
ResolvePath ==
    LET v == Lookup(ProfilePath)
        mayNotRead == v.unresolved # "" /\ envVars[ProfilePath] # Unset
    IN
    /\ inList = "done"
    /\ IF mayNotRead THEN FromVariable(Default, TRUE) ELSE FromVariable(v.value, FALSE)
    /\ UNCHANGED envState

ReadPod == Mounting /\ UNCHANGED envState

ContainerNext == ResolveEnv \/ ResolveArgs \/ ResolvePath \/ ReadPod

ContainerSpec == ContainerInit /\ [][ContainerNext]_<<envState, vars>>
=============================================================================
