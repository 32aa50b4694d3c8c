-------------------------- MODULE SnapshotPromise --------------------------
(***************************************************************************)
(* What snapshot.Cache promises to the code that calls Get, with nothing   *)
(* said about when the namespace is read or who reads it: there is one     *)
(* store; rebuilds succeed or fail and change it; a request reads the      *)
(* store as it is at one moment between its question and its answer.       *)
(* SnapshotCache implements this.                                          *)
(***************************************************************************)
EXTENDS Naturals

CONSTANTS
    Callers,        \* the requests in progress at the same time
    Errors,         \* what a rebuild can fail with
    NoErr,          \* Go's nil error
    Canceled        \* the error of a request whose own context ended

VARIABLES
    snap,           \* the last good result, 0 when there is none
    failing,        \* the error of the latest rebuild, NoErr when it succeeded
    failures,       \* the errors rebuilds have failed with so far
    asking,         \* the callers that wait for an answer
    answer          \* what each caller was told last

pvars == <<snap, failing, failures, asking, answer>>

NoAnswer == [result |-> 0, refresh |-> NoErr, err |-> NoErr]

\* A request is told the good result and why it is not newer or, before the
\* first success, an error that a rebuild really failed with.
Answers ==
    IF snap # 0
      THEN {[result |-> snap, refresh |-> failing, err |-> NoErr]}
      ELSE {[result |-> 0, refresh |-> NoErr, err |-> e] : e \in failures}

Init ==
    /\ snap = 0
    /\ failing = NoErr
    /\ failures = {}
    /\ asking = {}
    /\ answer = [c \in Callers |-> NoAnswer]

\* A rebuild succeeds: the store only ever moves forward.
Succeed ==
    /\ snap' \in Nat /\ snap' > snap
    /\ failing' = NoErr
    /\ UNCHANGED <<failures, asking, answer>>

\* A rebuild fails: the last good result stays.
Fail ==
    /\ failing' \in Errors
    /\ failures' = failures \cup {failing'}
    /\ UNCHANGED <<snap, asking, answer>>

Ask(c) ==
    /\ c \notin asking
    /\ asking' = asking \cup {c}
    /\ answer' = [answer EXCEPT ![c] = NoAnswer]
    /\ UNCHANGED <<snap, failing, failures>>

Reply(c) ==
    /\ c \in asking
    /\ \E a \in Answers : answer' = [answer EXCEPT ![c] = a]
    /\ asking' = asking \ {c}
    /\ UNCHANGED <<snap, failing, failures>>

\* A request that finds a fresh store is answered in the step that asks.
ReplyAtOnce(c) ==
    /\ c \notin asking
    /\ \E a \in Answers : answer' = [answer EXCEPT ![c] = a]
    /\ UNCHANGED <<snap, failing, failures, asking>>

\* The caller's own context ends: only its own request is affected.
Cancel(c) ==
    /\ c \in asking
    /\ asking' = asking \ {c}
    /\ answer' = [answer EXCEPT ![c] = [NoAnswer EXCEPT !.err = Canceled]]
    /\ UNCHANGED <<snap, failing, failures>>

Next ==
    \/ Succeed
    \/ Fail
    \/ \E c \in Callers : Ask(c) \/ Reply(c) \/ ReplyAtOnce(c) \/ Cancel(c)

Spec == Init /\ [][Next]_pvars
=============================================================================
