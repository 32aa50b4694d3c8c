--------------------------- MODULE ProfileProofs ---------------------------
(***************************************************************************)
(* Theorems about where the viewer finds a profile: profileArg against     *)
(* Go's flag package for argument lists of every length, and readFile      *)
(* against the container for paths, mounts and items of every number and   *)
(* depth.  Both compare a recursive definition with another one; the       *)
(* induction is over a set of numbers without a least element.             *)
(***************************************************************************)
EXTENDS Profile, SequenceTheorems, WellFoundedInduction, TLAPS

\* A set of numbers has a least element, which Min chooses.
LEMMA Least ==
    ASSUME NEW T, T \subseteq Nat, T # {}
    PROVE  \E n \in T : \A k \in T : n <= k
<1>1. PICK n \in T : \A k \in T : <<k, n>> \notin OpToRel(<, Nat)
  BY WFMin, NatLessThanWellFounded
<1>2. \A k \in T : ~(k < n)
  BY <1>1 DEF OpToRel
<1> QED BY <1>2

LEMMA MinIsLeast ==
    ASSUME NEW T, T \subseteq Nat, T # {}
    PROVE  Min(T) \in T /\ \A k \in T : Min(T) <= k
  BY Least DEF Min

\* Induction, over a set instead of a predicate.
LEMMA Induct ==
    ASSUME NEW S, 0 \in S, \A n \in Nat : n \in S => n + 1 \in S
    PROVE  Nat \subseteq S
<1> SUFFICES ASSUME Nat \ S # {} PROVE FALSE
  OBVIOUS
<1>1. PICK n \in Nat \ S : \A k \in Nat \ S : n <= k
  BY Least
<1>2. n # 0 /\ n - 1 \in Nat /\ n - 1 \notin Nat \ S
  BY <1>1
<1> QED BY <1>1, <1>2

-----------------------------------------------------------------------------
(* Go's flag package, argument by argument. *)

\* GoAfter is the function that its definition describes.
LEMMA GoAfterIs ==
    ASSUME argv \in Seq(Args)
    PROVE  /\ GoAfter[0] = GoStart
           /\ \A i \in 1 .. Len(argv) : GoAfter[i] = ParseOne(GoAfter[i - 1], argv[i])
<1> DEFINE N == Len(argv)
           Step(g, i) == IF i = 0 THEN GoStart ELSE ParseOne(g[i - 1], argv[i])
           S == {n \in Nat : n <= N => \E g : g = [i \in 0 .. n |-> Step(g, i)]}
<1> N \in Nat
  OBVIOUS
<1>1. 0 \in S
  <2> [i \in 0 .. 0 |-> GoStart] = [i \in 0 .. 0 |-> Step([j \in 0 .. 0 |-> GoStart], i)]
    OBVIOUS
  <2> QED OBVIOUS
<1>2. ASSUME NEW n \in Nat, n \in S PROVE n + 1 \in S
  <2> SUFFICES ASSUME n + 1 <= N
               PROVE  \E g : g = [i \in 0 .. n + 1 |-> Step(g, i)]
    OBVIOUS
  <2>1. PICK g : g = [i \in 0 .. n |-> Step(g, i)]
    BY <1>2
  <2> DEFINE h == [i \in 0 .. n + 1 |-> IF i <= n THEN g[i] ELSE ParseOne(g[n], argv[n + 1])]
  <2>2. ASSUME NEW i \in 0 .. n + 1 PROVE h[i] = Step(h, i)
    <3>1. CASE i = 0
      BY <2>1, <3>1
    <3>2. CASE i # 0 /\ i <= n
      <4>1. i \in 0 .. n /\ h[i] = g[i] /\ h[i - 1] = g[i - 1]
        BY <3>2
      <4>2. g[i] = Step(g, i)
        BY <2>1, <4>1
      <4> QED BY <3>2, <4>1, <4>2
    <3>3. CASE i = n + 1
      <4>1. h[n] = g[n] /\ h[n + 1] = ParseOne(g[n], argv[n + 1])
        OBVIOUS
      <4> QED BY <3>3, <4>1
    <3> QED BY <3>1, <3>2, <3>3
  <2>3. h = [i \in 0 .. n + 1 |-> Step(h, i)]
    BY <2>2
  <2> QED BY <2>3
<1>3. N \in S
  <2> HIDE DEF S
  <2> QED BY <1>1, <1>2, Induct
<1>4. \E g : g = [i \in 0 .. N |-> Step(g, i)]
  BY <1>3
<1>5. GoAfter = [i \in 0 .. N |-> Step(GoAfter, i)]
  BY <1>4 DEF GoAfter
<1> QED BY <1>5

\* The states of the flag package.
Values == {a.value : a \in Args} \cup {Text(a) : a \in Args} \cup {Empty}
GoStates == [state : {"flags", "parsed", "refused"}, waits : {"", "profile", "kubeconfig"},
             value : Values, first : Values, given : Nat]

\* What no argument takes back: a refusal, the end of the flags, the number of times that
\* -profile was given, and its first value; the value changes with that number only.
Later(s, t) ==
    /\ t \in GoStates
    /\ s.state # "flags" => t = s
    /\ t.given >= s.given
    /\ t.given = s.given => t.value = s.value
    /\ s.given # 0 => t.first = s.first

LEMMA GivenTyped == \A s \in GoStates : s.given \in Nat
  BY DEF GoStates

LEMMA ParseOneLater ==
    ASSUME NEW s \in GoStates, NEW a \in Args
    PROVE  Later(s, ParseOne(s, a))
<1> DEFINE Same(t) == /\ t \in GoStates /\ t.given = s.given
                      /\ t.value = s.value /\ t.first = s.first
<1>0. \A t : Same(t) /\ s.state = "flags" => Later(s, t)
  BY GivenTyped DEF Later
<1>1. ASSUME s.state = "flags", NEW name \in {"profile", "kubeconfig"}, NEW v \in Values
      PROVE  Later(s, FlagSet(s, name, v))
  <2> DEFINE t == FlagSet(s, name, v)
  <2>1. /\ t.value = IF name = "profile" THEN v ELSE s.value
        /\ t.given = IF name = "profile" THEN s.given + 1 ELSE s.given
        /\ t.first = IF name = "profile" /\ s.given = 0 THEN v ELSE s.first
    BY DEF FlagSet
  <2>2. FlagSet(s, name, v) \in GoStates
    <3>1. /\ s.state \in {"flags", "parsed", "refused"}
          /\ s.value \in Values /\ s.first \in Values
      BY DEF GoStates
    <3>2. s.given \in Nat /\ s.given + 1 \in Nat
      BY GivenTyped
    <3> DEFINE value == IF name = "profile" THEN v ELSE s.value
               first == IF name = "profile" /\ s.given = 0 THEN v ELSE s.first
               given == IF name = "profile" THEN s.given + 1 ELSE s.given
    <3>3. value \in Values /\ first \in Values /\ given \in Nat
      BY <3>1, <3>2
    <3> DEFINE set == [state |-> s.state, waits |-> "", value |-> value, first |-> first,
                       given |-> given]
    <3>4. t = set
      BY DEF FlagSet
    <3>5. set \in GoStates
      <4> HIDE DEF value, first, given
      <4> QED BY <3>1, <3>3, Zenon DEF GoStates
    <3> HIDE DEF set
    <3> QED BY <3>4, <3>5
  <2>3. s.given \in Nat
    BY GivenTyped
  <2> HIDE DEF t
  <2>4. CASE name = "profile"
    <3>1. t.given = s.given + 1
      BY <2>1, <2>4
    <3>2. t.given >= s.given /\ t.given # s.given
      BY <2>3, <3>1
    <3>3. s.given # 0 => t.first = s.first
      BY <2>1
    <3> QED BY <1>1, <2>2, <3>2, <3>3 DEF Later, t
  <2>5. CASE name # "profile"
    <3>1. t.given = s.given /\ t.value = s.value /\ t.first = s.first
      BY <2>1, <2>5
    <3>2. t.given >= s.given
      BY <2>3, <3>1
    <3> QED BY <1>1, <2>2, <3>1, <3>2 DEF Later, t
  <2> QED BY <2>4, <2>5
<1>2. a.value \in Values /\ Text(a) \in Values
  BY DEF Values
<1>3. CASE s.state # "flags"
  <2>1. ParseOne(s, a) = s
    BY <1>3, Zenon DEF ParseOne
  <2> QED BY <1>3, <2>1, GivenTyped DEF Later
<1>4. CASE s.state = "flags" /\ s.waits # ""
  <2>1. ParseOne(s, a) = FlagSet(s, s.waits, Text(a))
    BY <1>4, Zenon DEF ParseOne
  <2>2. s.waits \in {"profile", "kubeconfig"}
    BY <1>4 DEF GoStates
  <2> QED BY <1>1, <1>2, <1>4, <2>1, <2>2
<1>5. CASE s.state = "flags" /\ s.waits = "" /\ Ends(a)
  <2>1. ParseOne(s, a) = [s EXCEPT !.state = "parsed"]
    BY <1>5, Zenon DEF ParseOne
  <2>2. Same([s EXCEPT !.state = "parsed"])
    BY DEF GoStates
  <2> QED BY <1>0, <1>5, <2>1, <2>2
<1>6. CASE s.state = "flags" /\ s.waits = "" /\ ~Ends(a)
  <2>1. CASE a.name \notin {"profile", "kubeconfig"}
    <3>1. ParseOne(s, a) = [s EXCEPT !.state = "refused"]
      BY <1>6, <2>1, Zenon DEF ParseOne
    <3>2. Same([s EXCEPT !.state = "refused"])
      BY DEF GoStates
    <3> QED BY <1>0, <1>6, <3>1, <3>2
  <2>2. CASE a.name \in {"profile", "kubeconfig"} /\ a.value = NoValue
    <3>1. ParseOne(s, a) = [s EXCEPT !.waits = a.name]
      BY <1>6, <2>2, Zenon DEF ParseOne
    <3>2. Same([s EXCEPT !.waits = a.name])
      BY <2>2 DEF GoStates
    <3> QED BY <1>0, <1>6, <3>1, <3>2
  <2>3. CASE a.name \in {"profile", "kubeconfig"} /\ a.value # NoValue
    <3>1. ParseOne(s, a) = FlagSet(s, a.name, a.value)
      BY <1>6, <2>3, Zenon DEF ParseOne
    <3> QED BY <1>1, <1>2, <1>6, <2>3, <3>1
  <2> QED BY <2>1, <2>2, <2>3
<1> QED BY <1>3, <1>4, <1>5, <1>6

\* After the arguments that follow argument i, too.
LEMMA GoAfterLater ==
    ASSUME argv \in Seq(Args), NEW i \in 0 .. Len(argv)
    PROVE  GoAfter[i] \in GoStates /\ Later(GoAfter[i], GoFlags)
<1> DEFINE N == Len(argv)
           S == {n \in Nat : n <= N => GoAfter[n] \in GoStates}
           T == {n \in Nat : i + n <= N => Later(GoAfter[i], GoAfter[i + n])}
<1> N \in Nat
  OBVIOUS
<1>1. 0 \in S
  <2>1. GoStart \in GoStates
    BY DEF GoStart, GoStates, Values
  <2> QED BY <2>1, GoAfterIs
<1>2. ASSUME NEW n \in Nat, n \in S PROVE n + 1 \in S
  <2> SUFFICES ASSUME n + 1 <= N PROVE GoAfter[n + 1] \in GoStates
    OBVIOUS
  <2>1. GoAfter[n + 1] = ParseOne(GoAfter[n], argv[n + 1])
    BY GoAfterIs
  <2> QED BY <1>2, <2>1, ParseOneLater DEF Later
<1>3. \A n \in 0 .. N : GoAfter[n] \in GoStates
  <2>1. Nat \subseteq S
    <3> HIDE DEF S
    <3> QED BY <1>1, <1>2, Induct
  <2> QED BY <2>1
<1>4. 0 \in T
  BY <1>3, GivenTyped DEF Later
<1>5. ASSUME NEW n \in Nat, n \in T PROVE n + 1 \in T
  <2> SUFFICES ASSUME i + (n + 1) <= N PROVE Later(GoAfter[i], GoAfter[i + (n + 1)])
    OBVIOUS
  <2> DEFINE s == GoAfter[i]  t == GoAfter[i + n]  u == GoAfter[i + (n + 1)]
  <2>1. u = ParseOne(t, argv[i + (n + 1)])
    BY GoAfterIs
  <2>2. Later(t, u) /\ Later(s, t) /\ s \in GoStates /\ t \in GoStates
    <3>1. i + n \in 0 .. N /\ t \in GoStates
      BY <1>3
    <3> QED BY <1>3, <1>5, <2>1, <3>1, ParseOneLater
  <2>3. Later(s, u)
    <3> HIDE DEF s, t, u
    <3>1. s.given \in Nat /\ t.given \in Nat /\ u.given \in Nat
      BY <2>2, GivenTyped DEF Later
    <3>2. u.given >= s.given /\ (u.given = s.given => u.value = s.value)
      BY <2>2, <3>1 DEF Later
    <3>3. s.state # "flags" => u = s
      BY <2>2 DEF Later
    <3>4. s.given # 0 => u.first = s.first
      <4>1. s.given # 0 => t.given # 0
        BY <2>2, <3>1 DEF Later
      <4> QED BY <2>2, <4>1 DEF Later
    <3> QED BY <2>2, <3>2, <3>3, <3>4 DEF Later
  <2> QED BY <2>3
<1>6. \A n \in Nat : i + n <= N => Later(GoAfter[i], GoAfter[i + n])
  <2>1. Nat \subseteq T
    <3> HIDE DEF T
    <3> QED BY <1>4, <1>5, Induct
  <2> QED BY <2>1
<1>7. N - i \in Nat /\ i + (N - i) = N
  OBVIOUS
<1> QED BY <1>3, <1>6, <1>7 DEF GoFlags

\* profileFrom is the function that its definition describes.
LEMMA ProfileFromIs ==
    ASSUME argv \in Seq(Args), NEW i \in 1 .. Len(argv) + 2
    PROVE  profileFrom[i] =
             IF i > Len(argv) \/ (i <= Len(argv) /\ Ends(argv[i])) THEN NotFound
             ELSE IF NameOf(argv[i]) = "profile" THEN
                    IF argv[i].value # NoValue THEN Found(argv[i].value)
                    ELSE IF i < Len(argv) THEN Found(Text(argv[i + 1])) ELSE Found(Empty)
             ELSE IF NameOf(argv[i]) = "kubeconfig" /\ argv[i].value = NoValue
                    THEN profileFrom[i + 2] ELSE profileFrom[i + 1]
<1> DEFINE N == Len(argv)
           Step(g, j) ==
             IF j > N \/ (j <= N /\ Ends(argv[j])) THEN NotFound
             ELSE IF NameOf(argv[j]) = "profile" THEN
                    IF argv[j].value # NoValue THEN Found(argv[j].value)
                    ELSE IF j < N THEN Found(Text(argv[j + 1])) ELSE Found(Empty)
             ELSE IF NameOf(argv[j]) = "kubeconfig" /\ argv[j].value = NoValue
                    THEN g[j + 2] ELSE g[j + 1]
           S == {n \in Nat : n <= N => \E g : g = [j \in N + 1 - n .. N + 2 |-> Step(g, j)]}
<1> N \in Nat
  OBVIOUS
<1>1. 0 \in S
  <2> DEFINE h == [j \in N + 1 .. N + 2 |-> NotFound]
  <2>1. h = [j \in N + 1 - 0 .. N + 2 |-> Step(h, j)]
    OBVIOUS
  <2> QED BY <2>1
<1>2. ASSUME NEW n \in Nat, n \in S PROVE n + 1 \in S
  <2> SUFFICES ASSUME n + 1 <= N
               PROVE  \E g : g = [j \in N + 1 - (n + 1) .. N + 2 |-> Step(g, j)]
    OBVIOUS
  <2>1. PICK g : g = [j \in N + 1 - n .. N + 2 |-> Step(g, j)]
    BY <1>2
  <2> DEFINE h == [j \in N + 1 - (n + 1) .. N + 2 |-> IF j = N - n THEN Step(g, j) ELSE g[j]]
  <2>2. ASSUME NEW j \in N + 1 - (n + 1) .. N + 2 PROVE h[j] = Step(h, j)
    <3>1. CASE j = N - n
      <4>1. h[j] = Step(g, j) /\ j <= N
        BY <3>1
      <4>2. h[j + 1] = g[j + 1] /\ h[j + 2] = g[j + 2]
        BY <3>1
      <4>3. Step(g, j) = Step(h, j)
        <5> HIDE DEF h
        <5> QED BY <4>2
      <4> QED BY <4>1, <4>3
    <3>2. CASE j # N - n
      <4>1. j \in N + 1 - n .. N + 2 /\ h[j] = g[j]
        BY <3>2
      <4>2. g[j] = Step(g, j)
        BY <2>1, <4>1
      <4>3. j <= N => h[j + 1] = g[j + 1] /\ h[j + 2] = g[j + 2]
        BY <4>1
      <4>4. Step(g, j) = Step(h, j)
        <5> HIDE DEF h
        <5> QED BY <4>3
      <4> QED BY <4>1, <4>2, <4>4
    <3> QED BY <3>1, <3>2
  <2>3. h = [j \in N + 1 - (n + 1) .. N + 2 |-> Step(h, j)]
    BY <2>2
  <2> QED BY <2>3
<1>3. N \in S
  <2> HIDE DEF S
  <2> QED BY <1>1, <1>2, Induct
<1>4. \E g : g = [j \in 1 .. N + 2 |-> Step(g, j)]
  BY <1>3
<1>5. profileFrom = [j \in 1 .. N + 2 |-> Step(profileFrom, j)]
  BY <1>4 DEF profileFrom
<1> QED BY <1>5

-----------------------------------------------------------------------------
(* profileArg reads the arguments as the flag package does. *)

\* What FirstProfileFound says of the loop's result.
Agrees(r) ==
    GoAccepts =>
        /\ r = [value |-> GoFlags.first, found |-> GoFlags.given > 0]
        /\ GoFlags.given <= 1 => r.value = GoFlags.value

\* Where the flag package has set -profile for the first time, to what the loop returns.
LEMMA GivenAgrees ==
    ASSUME argv \in Seq(Args), NEW i \in 0 .. Len(argv), NEW v,
           GoAfter[i].given = 1, GoAfter[i].value = v, GoAfter[i].first = v
    PROVE  Agrees(Found(v))
<1>1. Later(GoAfter[i], GoFlags)
  BY GoAfterLater
<1>2. GoFlags.given \in Nat /\ GoFlags.given >= 1
  BY <1>1, GivenTyped DEF Later
<1>3. GoFlags.first = v /\ (GoFlags.given = 1 => GoFlags.value = v)
  BY <1>1 DEF Later
<1>4. (GoFlags.given > 0) = TRUE /\ (GoFlags.given <= 1 => GoFlags.given = 1)
  BY <1>2
<1>5. Found(v).value = v /\ Found(v) = [value |-> v, found |-> TRUE]
  BY DEF Found
<1> QED BY <1>3, <1>4, <1>5, Zenon DEF Agrees

\* Where the flags end.
LEMMA EndAgrees ==
    ASSUME argv \in Seq(Args), NEW i \in 0 .. Len(argv),
           GoAfter[i].given = 0, GoAfter[i].value = Empty, GoAfter[i].first = Empty,
           i = Len(argv) \/ GoAfter[i].state = "parsed"
    PROVE  Agrees(NotFound)
<1>1. GoFlags = GoAfter[i]
  BY GoAfterLater DEF Later, GoFlags
<1>2. NotFound.value = Empty /\ NotFound = [value |-> Empty, found |-> FALSE]
  BY DEF NotFound
<1>3. (GoFlags.given > 0) = FALSE /\ GoFlags.value = Empty /\ GoFlags.first = Empty
  BY <1>1
<1> QED BY <1>2, <1>3, Zenon DEF Agrees

\* Where the flag package refuses the arguments or waits for one more.
LEMMA RefusedAgrees ==
    ASSUME argv \in Seq(Args), NEW i \in 0 .. Len(argv), NEW r,
           \/ GoAfter[i].state = "refused"
           \/ i = Len(argv) /\ GoAfter[i].waits # ""
    PROVE  Agrees(r)
<1>1. GoFlags = GoAfter[i]
  BY GoAfterLater DEF Later, GoFlags
<1> QED BY <1>1 DEF Agrees, GoAccepts

\* One argument, read from the start state: the loop of profileArg and the flag
\* package go on to the same argument, or the result is there.
LEMMA ArgumentAgrees ==
    ASSUME argv \in Seq(Args), NEW i \in 1 .. Len(argv), GoAfter[i - 1] = GoStart
    PROVE  \/ Agrees(profileFrom[i])
           \/ /\ GoAfter[i] = GoStart
              /\ profileFrom[i] = profileFrom[i + 1]
           \/ /\ i < Len(argv) /\ GoAfter[i + 1] = GoStart
              /\ profileFrom[i] = profileFrom[i + 2]
<1> PICK a : a = argv[i]
  OBVIOUS
<1>0. i \in 0 .. Len(argv)
  OBVIOUS
<1>1. GoAfter[i] = ParseOne(GoStart, a)
  BY GoAfterIs
<1>2. /\ GoStart.state = "flags" /\ GoStart.waits = ""
      /\ GoStart.value = Empty /\ GoStart.first = Empty /\ GoStart.given = 0
  BY DEF GoStart
<1>3. \A s, v : /\ FlagSet(s, "profile", v).given = s.given + 1
               /\ FlagSet(s, "profile", v).value = v
  BY DEF FlagSet
<1>first. \A s, v : s.given = 0 => FlagSet(s, "profile", v).first = v
  BY DEF FlagSet
<1>4. FlagSet(GoStart, "kubeconfig", a.value) = GoStart
  BY DEF FlagSet, GoStart
<1>5. CASE Ends(a)
  <2>1. GoAfter[i] = [GoStart EXCEPT !.state = "parsed"]
    BY <1>1, <1>2, <1>5, Zenon DEF ParseOne
  <2>2. /\ GoAfter[i].state = "parsed" /\ GoAfter[i].given = 0
        /\ GoAfter[i].value = Empty /\ GoAfter[i].first = Empty
    BY <2>1 DEF GoStart
  <2>3. profileFrom[i] = NotFound
    BY <1>5, ProfileFromIs
  <2> QED BY <2>2, <2>3, EndAgrees
<1>6. CASE ~Ends(a) /\ a.name \notin {"profile", "kubeconfig"}
  <2>1. GoAfter[i] = [GoStart EXCEPT !.state = "refused"]
    BY <1>1, <1>2, <1>6, Zenon DEF ParseOne
  <2>2. GoAfter[i].state = "refused"
    BY <2>1 DEF GoStart
  <2> QED BY <1>0, <2>2, RefusedAgrees
<1>7. CASE ~Ends(a) /\ a.name \in {"profile", "kubeconfig"} /\ a.value # NoValue
  <2>1. GoAfter[i] = FlagSet(GoStart, a.name, a.value)
    BY <1>1, <1>2, <1>7, Zenon DEF ParseOne
  <2>2. CASE a.name = "profile"
    <3>1. GoAfter[i].given = 1 /\ GoAfter[i].value = a.value /\ GoAfter[i].first = a.value
      <4>1. GoAfter[i] = FlagSet(GoStart, "profile", a.value)
        BY <2>1, <2>2
      <4>2. GoStart.given = 0
        BY <1>2
      <4>3. /\ GoAfter[i].given = GoStart.given + 1
            /\ GoAfter[i].value = a.value
        BY <1>3, <4>1
      <4>4. GoAfter[i].first = a.value
        BY <1>first, <4>1, <4>2
      <4> QED BY <4>2, <4>3, <4>4
    <3>2. profileFrom[i] = Found(a.value)
      BY <1>7, <2>2, ProfileFromIs DEF NameOf
    <3> QED BY <3>1, <3>2, GivenAgrees
  <2>3. CASE a.name = "kubeconfig"
    <3>1. profileFrom[i] = profileFrom[i + 1]
      BY <1>7, <2>3, ProfileFromIs DEF NameOf
    <3> QED BY <1>4, <2>1, <2>3, <3>1
  <2> QED BY <1>7, <2>2, <2>3
<1>8. CASE ~Ends(a) /\ a.name \in {"profile", "kubeconfig"} /\ a.value = NoValue
  <2>1. GoAfter[i] = [GoStart EXCEPT !.waits = a.name]
    BY <1>1, <1>2, <1>8, Zenon DEF ParseOne
  <2>2. GoAfter[i] = [state |-> "flags", waits |-> a.name, value |-> Empty,
                      first |-> Empty, given |-> 0]
    BY <2>1 DEF GoStart
  <2>fields. /\ GoAfter[i].state = "flags" /\ GoAfter[i].waits = a.name
             /\ GoAfter[i].given = 0
    <3>1. GoAfter[i].state = "flags"
      BY <2>2
    <3>2. GoAfter[i].waits = a.name
      BY <2>2
    <3>3. GoAfter[i].given = 0
      BY <2>2
    <3> QED BY <3>1, <3>2, <3>3
  <2>name. a.name # ""
    BY <1>8
  <2>3. CASE i = Len(argv)
    <3>1. GoAfter[i].waits # ""
      BY <2>fields, <2>name, Zenon
    <3> QED BY <1>0, <2>3, <3>1, RefusedAgrees
  <2>4. CASE i # Len(argv)
    <3> PICK b : b = argv[i + 1]
      OBVIOUS
    <3>1. i < Len(argv) /\ i + 1 \in 1 .. Len(argv)
      BY <2>4
    <3>2. GoAfter[i + 1] = ParseOne(GoAfter[i], b)
      BY <3>1, GoAfterIs
    <3>3. GoAfter[i + 1] = FlagSet(GoAfter[i], a.name, Text(b))
      BY <2>fields, <2>name, <3>2, Zenon DEF ParseOne
    <3>4. CASE a.name = "profile"
      <4>1. /\ GoAfter[i + 1].given = 1 /\ GoAfter[i + 1].value = Text(b)
            /\ GoAfter[i + 1].first = Text(b)
        <5>1. GoAfter[i + 1].given = GoAfter[i].given + 1 /\ GoAfter[i + 1].value = Text(b)
          BY <1>3, <3>3, <3>4
        <5>2. GoAfter[i + 1].first = Text(b)
          BY <1>first, <2>fields, <3>3, <3>4
        <5> QED BY <2>fields, <5>1, <5>2
      <4>2. profileFrom[i] = Found(Text(b))
        BY <1>8, <3>1, <3>4, ProfileFromIs DEF NameOf
      <4> QED BY <3>1, <4>1, <4>2, GivenAgrees
    <3>5. CASE a.name = "kubeconfig"
      <4>1. GoAfter[i + 1] = GoStart
        <5>1. /\ GoAfter[i].state = "flags" /\ GoAfter[i].value = Empty
              /\ GoAfter[i].first = Empty /\ GoAfter[i].given = 0
          BY <2>2
        <5>2. GoAfter[i + 1] = [state |-> GoAfter[i].state, waits |-> "",
                                value |-> GoAfter[i].value, first |-> GoAfter[i].first,
                                given |-> GoAfter[i].given]
          BY <3>3, <3>5, Zenon DEF FlagSet
        <5> QED BY <5>1, <5>2 DEF GoStart
      <4>2. profileFrom[i] = profileFrom[i + 2]
        BY <1>8, <3>5, ProfileFromIs DEF NameOf
      <4> QED BY <3>1, <4>1, <4>2
    <3> QED BY <1>8, <3>4, <3>5
  <2> QED BY <2>3, <2>4
<1> QED BY <1>5, <1>6, <1>7, <1>8

\* For every list of arguments, by induction from its end.
LEMMA ArgumentsAgree ==
    ASSUME argv \in Seq(Args)
    PROVE  FirstProfileFound
<1> DEFINE N == Len(argv)
           From(i) == GoAfter[i - 1] = GoStart => Agrees(profileFrom[i])
           S == {n \in Nat : \A k \in 0 .. n : k <= N => From(N + 1 - k)}
<1> N \in Nat
  OBVIOUS
<1>1. 0 \in S
  <2> SUFFICES ASSUME GoAfter[N] = GoStart PROVE Agrees(profileFrom[N + 1])
    OBVIOUS
  <2>1. profileFrom[N + 1] = NotFound
    BY ProfileFromIs
  <2>2. GoAfter[N].given = 0 /\ GoAfter[N].value = Empty /\ GoAfter[N].first = Empty
    <3> GoStart.given = 0 /\ GoStart.value = Empty /\ GoStart.first = Empty
      BY DEF GoStart
    <3> QED OBVIOUS
  <2> QED BY <2>1, <2>2, EndAgrees
<1>2. ASSUME NEW n \in Nat, n \in S PROVE n + 1 \in S
  <2> SUFFICES ASSUME n + 1 <= N PROVE From(N - n)
    BY <1>2
  <2> DEFINE i == N - n
  <2>1. i \in 1 .. N /\ i - 1 \in Nat
    OBVIOUS
  <2>2. From(i + 1)
    <3>1. n \in 0 .. n /\ N + 1 - n = i + 1 /\ n <= N
      OBVIOUS
    <3> QED BY <1>2, <3>1
  <2>3. i < N => From(i + 2)
    <3> SUFFICES ASSUME i < N PROVE From(i + 2)
      OBVIOUS
    <3>1. n - 1 \in 0 .. n /\ N + 1 - (n - 1) = i + 2 /\ n - 1 <= N
      OBVIOUS
    <3> QED BY <1>2, <3>1
  <2> HIDE DEF i
  <2>4. (i + 1) - 1 = i /\ (i + 2) - 1 = i + 1
    BY <2>1
  <2> SUFFICES ASSUME GoAfter[i - 1] = GoStart PROVE Agrees(profileFrom[i])
    BY DEF i
  <2> QED BY <2>1, <2>2, <2>3, <2>4, ArgumentAgrees
<1>3. Nat \subseteq S
  <2> HIDE DEF S
  <2> QED BY <1>1, <1>2, Induct
<1>4. From(1)
  <2>1. N \in S /\ N \in 0 .. N /\ N + 1 - N = 1
    BY <1>3
  <2> QED BY <2>1
<1>5. Agrees(profileArg)
  BY <1>4, GoAfterIs DEF profileArg
<1> QED BY <1>5 DEF Agrees, FirstProfileFound

-----------------------------------------------------------------------------
(* The types, and that each mount has a path of its own. *)

VolumeType == [type : {"configMap", "emptyDir"}, optional : BOOLEAN,
               items : Seq([key : Keys, path : ItemPaths])]
MountType == [path : MountPaths, subPath : SubPaths, expr : BOOLEAN, volume : Volumes]

ProfileInv ==
    /\ argv \in Seq(Args)
    /\ phase \in {"args", "pod"}
    /\ phase = "pod" => path.segs \in Seq(Segments)
    /\ workingDir \in Seq(Segments)
    /\ keys \in (SUBSET Keys) \cup {{NoKey}}
    /\ volumes \in [Volumes -> VolumeType]
    /\ mounts \subseteq MountType
    /\ \A m, o \in mounts : m.path = o.path => m = o

\* What profileArg returns is what an argument says, or nothing.
LEMMA ProfileArgTyped ==
    ASSUME argv \in Seq(Args), ProfileAssumption
    PROVE  \/ profileArg.value \in Paths \cup {Empty, Expansion}
           \/ profileArg.value = [abs |-> FALSE, segs |-> <<OddName>>]
<1> DEFINE N == Len(argv)
           Typed(r) == \/ r.value \in Paths \cup {Empty, Expansion}
                       \/ r.value = [abs |-> FALSE, segs |-> <<OddName>>]
           S == {n \in Nat : \A k \in 0 .. n : k <= N => Typed(profileFrom[N + 1 - k])}
<1> N \in Nat
  OBVIOUS
<1>1. Typed(NotFound) /\ Typed(Found(Empty))
  BY DEF NotFound, Found
<1>2. ASSUME NEW i \in 1 .. N
      PROVE  /\ argv[i].value # NoValue => Typed(Found(argv[i].value))
             /\ Typed(Found(Text(argv[i])))
  <2>1. argv[i] \in Args
    OBVIOUS
  <2>2. \/ argv[i].value \in Paths \cup {Empty, Expansion}
        \/ argv[i].dashes # 0 /\ argv[i].value = NoValue
    BY <2>1 DEF ProfileAssumption
  <2> QED BY <2>2 DEF Found, Text
<1> HIDE DEF Typed
<1>3. Typed(profileFrom[N + 1]) /\ Typed(profileFrom[N + 2])
  <2>1. /\ N + 1 \in 1 .. N + 2 /\ N + 1 > N
        /\ N + 2 \in 1 .. N + 2 /\ N + 2 > N
    OBVIOUS
  <2>2. profileFrom[N + 1] = NotFound
    BY <2>1, ProfileFromIs
  <2>3. profileFrom[N + 2] = NotFound
    BY <2>1, ProfileFromIs
  <2> QED BY <1>1, <2>2, <2>3
<1>4. 0 \in S
  BY <1>3
<1>5. ASSUME NEW n \in Nat, n \in S PROVE n + 1 \in S
  <2> SUFFICES ASSUME n + 1 <= N PROVE Typed(profileFrom[N - n])
    BY <1>5
  <2> PICK i : i = N - n
    OBVIOUS
  <2>1. i \in 1 .. N
    OBVIOUS
  <2>2. Typed(profileFrom[i + 1])
    <3>1. n \in 0 .. n /\ N + 1 - n = i + 1 /\ n <= N
      OBVIOUS
    <3> QED BY <1>5, <3>1
  <2>3. Typed(profileFrom[i + 2])
    <3>1. CASE n = 0
      BY <1>3, <3>1
    <3>2. CASE n # 0
      <4>1. n - 1 \in 0 .. n /\ N + 1 - (n - 1) = i + 2 /\ n - 1 <= N
        BY <3>2
      <4> QED BY <1>5, <4>1
    <3> QED BY <3>1, <3>2
  <2>4. i < N => Typed(Found(Text(argv[i + 1])))
    <3> i < N => i + 1 \in 1 .. N
      BY <2>1
    <3> QED BY <1>2
  <2> QED BY <1>1, <1>2, <2>1, <2>2, <2>3, <2>4, ProfileFromIs
<1>6. Nat \subseteq S
  <2> HIDE DEF S
  <2> QED BY <1>4, <1>5, Induct
<1>7. Typed(profileFrom[1])
  <2>1. N \in S
    <3> HIDE DEF S
    <3> QED BY <1>6
  <2>2. N \in 0 .. N /\ N <= N /\ N + 1 - N = 1
    OBVIOUS
  <2> HIDE DEF N
  <2> QED BY <2>1, <2>2
<1> QED BY <1>7 DEF profileArg, Typed

LEMMA EmptyVolumesTyped == EmptyVolumes \subseteq VolumeType
<1>1. <<>> \in Seq([key : Keys, path : ItemPaths])
  OBVIOUS
<1>2. ASSUME NEW t \in {"configMap", "emptyDir"}, NEW o \in BOOLEAN
      PROVE  VolumeOf(t, o) \in VolumeType
  BY <1>1 DEF VolumeOf, VolumeType
<1> QED BY <1>2 DEF EmptyVolumes

LEMMA PodInv ==
    ASSUME ProfileInv, NEW p, NEW u, p.segs \in Seq(Segments), Pod(p, u), ProfileAssumption
    PROVE  ProfileInv'
<1>1. /\ phase' = "pod" /\ argv' = <<>> /\ path' = p /\ mounts' = mounts
      /\ workingDir' \in WorkingDirs /\ keys' \in (SUBSET Keys) \cup {{NoKey}}
      /\ volumes' \in [Volumes -> EmptyVolumes]
  BY DEF Pod
<1>2. volumes' \in [Volumes -> VolumeType]
  BY <1>1, EmptyVolumesTyped
<1>3. workingDir' \in Seq(Segments)
  BY <1>1 DEF ProfileAssumption
<1> QED BY <1>1, <1>2, <1>3 DEF ProfileInv

LEMMA ProfileInitInv == ProfileAssumption /\ Init => ProfileInv
<1> SUFFICES ASSUME ProfileAssumption, Init PROVE ProfileInv
  OBVIOUS
<1>1. VolumeOf("configMap", FALSE) \in VolumeType
  BY EmptyVolumesTyped DEF EmptyVolumes
<1>2. volumes \in [Volumes -> VolumeType]
  BY <1>1 DEF Init
<1>3. /\ argv = <<>> /\ phase = "args" /\ workingDir = <<>>
      /\ keys = {} /\ mounts = {}
  BY DEF Init
<1> QED BY <1>2, <1>3 DEF ProfileInv

LEMMA ProfileInductive == ProfileAssumption /\ ProfileInv /\ [Next]_vars => ProfileInv'
<1> SUFFICES ASSUME ProfileAssumption, ProfileInv, [Next]_vars PROVE ProfileInv'
  OBVIOUS
<1>1. ASSUME NEW a \in Args, Argument(a) PROVE ProfileInv'
  BY <1>1 DEF Argument, ProfileInv
<1>2. CASE resolveK8sPitcherArgs
  <2> DEFINE v == profileArg.value
  <2>1. v # Empty
    BY <1>2 DEF resolveK8sPitcherArgs
  <2>2. <<OddName>> \in Seq(Segments)
    BY DEF ProfileAssumption
  <2>3. CASE v = Expansion
    <3>1. Pod([abs |-> TRUE, segs |-> <<OddName>>], TRUE)
      BY <1>2, <2>3 DEF resolveK8sPitcherArgs
    <3> QED BY <2>2, <3>1, PodInv
  <2>4. CASE v # Expansion
    <3>1. Pod(v, FALSE)
      BY <1>2, <2>4 DEF resolveK8sPitcherArgs
    <3>2. v \in Paths \/ v = [abs |-> FALSE, segs |-> <<OddName>>]
      BY <2>1, <2>4, ProfileArgTyped DEF ProfileInv
    <3>3. v.segs \in Seq(Segments)
      <4>1. v \in Paths => v.segs \in Seq(Segments)
        BY DEF ProfileAssumption
      <4>2. v = [abs |-> FALSE, segs |-> <<OddName>>] => v.segs = <<OddName>>
        OBVIOUS
      <4> QED BY <2>2, <3>2, <4>1, <4>2
    <3> HIDE DEF v
    <3> QED BY <3>1, <3>3, PodInv
  <2> QED BY <2>3, <2>4
<1>3. ASSUME NEW p \in Paths, NEW u \in BOOLEAN, FromVariable(p, u) PROVE ProfileInv'
  <2>1. p.segs \in Seq(Segments) /\ Pod(p, u)
    BY <1>3 DEF ProfileAssumption, FromVariable
  <2> QED BY <2>1, PodInv
<1>4. ASSUME NEW m \in MountType, Mount(m) PROVE ProfileInv'
  <2>1. /\ m.path \notin {o.path : o \in mounts} /\ mounts' = mounts \cup {m}
        /\ UNCHANGED <<argv, phase, path, unresolved, workingDir, keys, volumes>>
    BY <1>4 DEF Mount
  <2> QED BY <2>1 DEF ProfileInv
<1>5. ASSUME NEW v \in Volumes, NEW i \in [key : Keys, path : ItemPaths], Item(v, i)
      PROVE  ProfileInv'
  <2>1. /\ volumes' = [volumes EXCEPT ![v].items = Append(@, i)]
        /\ UNCHANGED <<argv, phase, path, unresolved, workingDir, keys, mounts>>
    BY <1>5 DEF Item
  <2> DEFINE more == Append(volumes[v].items, i)
  <2>2. volumes[v] \in VolumeType /\ more \in Seq([key : Keys, path : ItemPaths])
    <3>1. volumes[v] \in VolumeType
      BY DEF ProfileInv
    <3>2. volumes[v].items \in Seq([key : Keys, path : ItemPaths])
      BY <3>1 DEF VolumeType
    <3> QED BY <3>1, <3>2
  <2>3. [volumes[v] EXCEPT !.items = more] \in VolumeType
    <3> HIDE DEF more
    <3> QED BY <2>2, Zenon DEF VolumeType
  <2>4. volumes' \in [Volumes -> VolumeType]
    <3> DEFINE vol == [volumes[v] EXCEPT !.items = more]
    <3>1. volumes' = [volumes EXCEPT ![v] = vol]
      BY <2>1, Zenon
    <3> HIDE DEF vol
    <3> QED BY <2>3, <3>1 DEF ProfileInv, vol
  <2> QED BY <2>1, <2>4 DEF ProfileInv
<1>6. CASE UNCHANGED vars
  BY <1>6 DEF vars, ProfileInv
<1> QED BY <1>1, <1>2, <1>3, <1>4, <1>5, <1>6 DEF Next, Mounting, MountType

\* The types hold in every state, and no two volumes are mounted at one path.
LEMMA ProfileInvariant == Spec => []ProfileInv
<1>1. Init => ProfileInv
  BY ProfileInitInv, ProfileAssumption
<1>2. ProfileInv /\ [Next]_vars => ProfileInv'
  BY ProfileInductive, ProfileAssumption
<1> QED BY <1>1, <1>2, PTL DEF Spec

\* For every list of arguments that Go's flag package accepts, profileArg finds -profile
\* exactly when the flag package does and returns the first value that is set there, the
\* flag's own one if it is given once: values that look like flags, the flag that takes
\* the next argument and the end of the flags included.
THEOREM ProfileFoundFirst == Spec => []FirstProfileFound
<1>1. ProfileInv => FirstProfileFound
  BY ArgumentsAgree DEF ProfileInv
<1> QED BY <1>1, ProfileInvariant, PTL

-----------------------------------------------------------------------------
(* The container's walk down the path ends where findMount looks. *)

\* PlaceAt is the function that its definition describes.
LEMMA PlaceAtIs ==
    ASSUME Absolute \in Seq(Segments), NEW i \in 0 .. Len(Absolute)
    PROVE  PlaceAt[i] =
             LET here == {m \in mounts : m.path = SubSeq(Absolute, 1, i)} IN
             IF here # {} THEN LET m == CHOOSE m \in here : TRUE
                               IN [volume |-> m.volume, rel |-> m.subPath]
             ELSE IF i = 0 THEN [volume |-> "image", rel |-> <<>>]
             ELSE LET at == PlaceAt[i - 1]
                  IN [volume |-> at.volume, rel |-> Append(at.rel, Absolute[i])]
<1> DEFINE N == Len(Absolute)
           here(j) == {m \in mounts : m.path = SubSeq(Absolute, 1, j)}
           mounted(j) == LET m == CHOOSE m \in here(j) : TRUE
                         IN [volume |-> m.volume, rel |-> m.subPath]
           deeper(at, j) == [volume |-> at.volume, rel |-> Append(at.rel, Absolute[j])]
           Step(g, j) == IF here(j) # {} THEN mounted(j)
                         ELSE IF j = 0 THEN [volume |-> "image", rel |-> <<>>]
                         ELSE deeper(g[j - 1], j)
           S == {n \in Nat : n <= N => \E g : g = [j \in 0 .. n |-> Step(g, j)]}
<1> N \in Nat
  OBVIOUS
<1> HIDE DEF here, mounted, deeper, Step
<1>1. 0 \in S
  <2> DEFINE h == [j \in 0 .. 0 |-> Step(<<>>, 0)]
  <2>1. h = [j \in 0 .. 0 |-> Step(h, j)]
    BY DEF Step
  <2> QED BY <2>1
<1>2. ASSUME NEW n \in Nat, n \in S PROVE n + 1 \in S
  <2> SUFFICES ASSUME n + 1 <= N
               PROVE  \E g : g = [j \in 0 .. n + 1 |-> Step(g, j)]
    OBVIOUS
  <2>1. PICK g : g = [j \in 0 .. n |-> Step(g, j)]
    BY <1>2
  <2> DEFINE h == [j \in 0 .. n + 1 |-> IF j <= n THEN g[j] ELSE Step(g, j)]
  <2>2. ASSUME NEW j \in 0 .. n + 1 PROVE h[j] = Step(h, j)
    <3>1. j # 0 => h[j - 1] = g[j - 1]
      OBVIOUS
    <3>2. Step(h, j) = Step(g, j)
      <4> HIDE DEF h
      <4> QED BY <3>1 DEF Step
    <3>3. h[j] = Step(g, j)
      <4>1. CASE j <= n
        <5>1. h[j] = g[j] /\ j \in 0 .. n
          BY <4>1
        <5> HIDE DEF h
        <5> QED BY <2>1, <5>1
      <4>2. CASE j = n + 1
        BY <4>2
      <4> QED BY <4>1, <4>2
    <3> QED BY <3>2, <3>3
  <2>3. h = [j \in 0 .. n + 1 |-> Step(h, j)]
    BY <2>2
  <2> QED BY <2>3
<1>3. N \in S
  <2> HIDE DEF S
  <2> QED BY <1>1, <1>2, Induct
<1>4. \E g : g = [j \in 0 .. N |-> Step(g, j)]
  BY <1>3
<1>5. PlaceAt = [j \in 0 .. N |-> Step(PlaceAt, j)]
  BY <1>4 DEF PlaceAt, Step, here, mounted, deeper
<1>6. PlaceAt[i] = Step(PlaceAt, i)
  BY <1>5
<1> QED BY <1>6, Zenon DEF Step, here, mounted, deeper

LEMMA Associative == \A a, b, c \in Seq(Segments) : (a \o b) \o c = a \o (b \o c)
  BY ConcatAssociative

\* One segment more below a prefix.
LEMMA SegmentBelow ==
    ASSUME NEW s \in Seq(Segments), NEW t \in Seq(Segments), NEW l \in Nat, NEW n \in Nat,
           l <= n, n + 1 <= Len(s)
    PROVE  Append(t \o SubSeq(s, l + 1, n), s[n + 1]) = t \o SubSeq(s, l + 1, n + 1)
<1>1. SubSeq(s, l + 1, n) \in Seq(Segments) /\ s[n + 1] \in Segments
  <2>1. \A i \in l + 1 .. n : s[i] \in Segments
    OBVIOUS
  <2> QED BY <2>1, SubSeqProperties
<1>2. SubSeq(s, l + 1, n + 1) = SubSeq(s, l + 1, n) \o <<s[n + 1]>>
  <2>1. l + 1 \in 1 .. Len(s) /\ n + 1 \in l + 1 .. Len(s) /\ (n + 1) - 1 = n
    OBVIOUS
  <2>2. SubSeq(s, l + 1, n + 1) = SubSeq(s, l + 1, (n + 1) - 1) \o <<s[n + 1]>>
    BY <2>1, SubSeqRecursiveSecond
  <2> QED BY <2>1, <2>2
<1> PICK x : x = s[n + 1]
  OBVIOUS
<1> PICK u : u = SubSeq(s, l + 1, n)
  OBVIOUS
<1> PICK w : w = <<x>>
  OBVIOUS
<1>3. u \in Seq(Segments) /\ x \in Segments /\ t \o u \in Seq(Segments) /\ w \in Seq(Segments)
  BY <1>1, ConcatProperties
<1>4. Append(t \o u, x) = (t \o u) \o w
  BY <1>3, AppendIsConcat
<1>5. (t \o u) \o w = t \o (u \o w)
  BY <1>3, Associative
<1> QED BY <1>2, <1>4, <1>5

\* The mounts that the first i segments come to.
On(i) == {m \in mounts : Len(m.path) <= i /\ m.path = SubSeq(Absolute, 1, Len(m.path))}

LEMMA HoldingIs ==
    ASSUME ProfileAssumption, ProfileInv
    PROVE  Holding = On(Len(Absolute))
<1>1. ASSUME NEW m \in mounts PROVE SubSeq(m.path, 1, Len(m.path)) = m.path
  <2>1. m.path \in Seq(Segments)
    BY DEF ProfileInv, MountType, ProfileAssumption
  <2> QED BY <2>1, SubSeqFull
<1> QED BY <1>1 DEF Holding, On, IsPrefix

\* After i segments the walk is in the mount with the longest path, or in the image.
WalkedTo(i) ==
    /\ On(i) = {} => PlaceAt[i].volume = "image"
    /\ \A m \in On(i) : (\A o \in On(i) : Len(o.path) <= Len(m.path)) =>
         PlaceAt[i] = [volume |-> m.volume,
                       rel |-> m.subPath \o SubSeq(Absolute, Len(m.path) + 1, i)]

LEMMA Walked ==
    ASSUME ProfileAssumption, ProfileInv, Absolute \in Seq(Segments)
    PROVE  WalkedTo(Len(Absolute))
<1> DEFINE N == Len(Absolute)
           S == {n \in Nat : n <= N => WalkedTo(n)}
           here(i) == {m \in mounts : m.path = SubSeq(Absolute, 1, i)}
<1> N \in Nat
  OBVIOUS
<1>1. \A m \in mounts :
        m.path \in Seq(Segments) /\ m.subPath \in Seq(Segments) /\ Len(m.path) \in Nat
  BY DEF ProfileInv, MountType, ProfileAssumption
<1>2. ASSUME NEW i \in 0 .. N, NEW m \in here(i)
      PROVE  Len(m.path) = i /\ m \in On(i) /\ \A o \in here(i) : o = m
  <2>1. Len(SubSeq(Absolute, 1, i)) = i
    OBVIOUS
  <2> QED BY <2>1 DEF On, ProfileInv
\* A volume is mounted right there.
<1>3. ASSUME NEW i \in 0 .. N, here(i) # {} PROVE WalkedTo(i)
  <2>1. PICK h \in here(i) : TRUE
    BY <1>3
  <2>2. (CHOOSE m \in here(i) : TRUE) = h
    BY <1>2, <2>1
  <2>3. PlaceAt[i] = [volume |-> h.volume, rel |-> h.subPath]
    <3> HIDE DEF N
    <3> PlaceAt[i] = LET m == CHOOSE m \in here(i) : TRUE
                     IN [volume |-> m.volume, rel |-> m.subPath]
      BY <1>3, PlaceAtIs, Zenon DEF N
    <3> QED BY <2>2
  <2>4. ASSUME NEW m \in On(i), \A o \in On(i) : Len(o.path) <= Len(m.path) PROVE m = h
    <3>1. Len(h.path) = i /\ h \in On(i)
      BY <1>2, <2>1
    <3>2. m \in mounts /\ Len(m.path) = i
      BY <1>1, <2>4, <3>1 DEF On
    <3>3. m \in here(i)
      BY <3>2 DEF On
    <3> QED BY <1>2, <3>3, <2>1
  <2>5. h.subPath \o SubSeq(Absolute, Len(h.path) + 1, i) = h.subPath
    <3>1. SubSeq(Absolute, i + 1, i) = <<>>
      BY SubSeqEmpty
    <3>2. h.subPath \in Seq(Segments)
      BY <1>1, <2>1
    <3> QED BY <1>2, <2>1, <3>1, <3>2, ConcatEmptySeq
  <2>6. h \in On(i)
    BY <1>2, <2>1
  <2> QED BY <2>3, <2>4, <2>5, <2>6 DEF WalkedTo
<1>4. 0 \in S
  <2> SUFFICES WalkedTo(0)
    OBVIOUS
  <2>0. 0 \in 0 .. N
    OBVIOUS
  <2>1. CASE here(0) # {}
    BY <1>3, <2>0, <2>1
  <2>2. CASE here(0) = {}
    <3>1. PlaceAt[0] = [volume |-> "image", rel |-> <<>>]
      <4> HIDE DEF N
      <4> QED BY <2>0, <2>2, PlaceAtIs DEF N
    <3>2. On(0) = {}
      <4> SUFFICES ASSUME NEW m \in On(0) PROVE FALSE
        OBVIOUS
      <4>1. Len(m.path) = 0
        BY <1>1 DEF On
      <4>2. m \in here(0)
        BY <4>1 DEF On
      <4> QED BY <2>2, <4>2
    <3>3. PlaceAt[0].volume = "image"
      BY <3>1
    <3> QED BY <3>2, <3>3 DEF WalkedTo
  <2> QED BY <2>1, <2>2
<1>5. ASSUME NEW n \in Nat, n \in S PROVE n + 1 \in S
  <2> SUFFICES ASSUME n + 1 <= N PROVE WalkedTo(n + 1)
    OBVIOUS
  <2> PICK i : i = n + 1
    OBVIOUS
  <2>1. WalkedTo(n) /\ i \in 0 .. N /\ i # 0 /\ i - 1 = n
    BY <1>5
  <2>2. CASE here(i) # {}
    BY <1>3, <2>1, <2>2
  <2>3. CASE here(i) = {}
    <3>1. PlaceAt[i] = [volume |-> PlaceAt[n].volume,
                        rel |-> Append(PlaceAt[n].rel, Absolute[i])]
      BY <2>1, <2>3, PlaceAtIs
    <3>2. On(i) = On(n)
      <4>1. On(n) \subseteq On(i)
        BY <1>1, <2>1 DEF On
      <4>2. ASSUME NEW m \in On(i) PROVE m \in On(n)
        <5>1. CASE Len(m.path) = i
          <6> m \in here(i)
            BY <5>1 DEF On
          <6> QED BY <2>3
        <5>2. CASE Len(m.path) # i
          BY <1>1, <2>1, <5>2 DEF On
        <5> QED BY <5>1, <5>2
      <4> QED BY <4>1, <4>2
    <3>3. CASE On(n) = {}
      <4>1. PlaceAt[n].volume = "image"
        BY <2>1, <3>3 DEF WalkedTo
      <4>2. PlaceAt[i].volume = PlaceAt[n].volume
        BY <3>1
      <4> QED BY <3>2, <3>3, <4>1, <4>2 DEF WalkedTo
    <3>4. ASSUME NEW m \in On(n), \A o \in On(n) : Len(o.path) <= Len(m.path)
          PROVE  PlaceAt[i] = [volume |-> m.volume,
                               rel |-> m.subPath \o SubSeq(Absolute, Len(m.path) + 1, i)]
      <4> DEFINE rel == m.subPath \o SubSeq(Absolute, Len(m.path) + 1, n)
      <4>1. PlaceAt[n] = [volume |-> m.volume, rel |-> rel]
        BY <2>1, <3>4 DEF WalkedTo
      <4>2. PlaceAt[n].volume = m.volume /\ PlaceAt[n].rel = rel
        <5> HIDE DEF rel
        <5> QED BY <4>1
      <4>3. PlaceAt[i] = [volume |-> m.volume, rel |-> Append(rel, Absolute[i])]
        BY <3>1, <4>2
      <4>4. Append(rel, Absolute[i]) = m.subPath \o SubSeq(Absolute, Len(m.path) + 1, i)
        <5>1. m \in mounts /\ Len(m.path) <= n
          BY DEF On
        <5>2. m.subPath \in Seq(Segments) /\ Len(m.path) \in Nat
          BY <1>1, <5>1
        <5> QED BY <5>1, <5>2, SegmentBelow
      <4> QED BY <4>3, <4>4
    <3> QED BY <3>2, <3>3, <3>4 DEF WalkedTo
  <2> QED BY <2>2, <2>3
<1> QED
  <2> HIDE DEF S
  <2>1. N \in S
    BY <1>4, <1>5, Induct
  <2> QED BY <2>1 DEF S

\* One mount holds the path if any does, and the walk ends in its volume.
LEMMA PlaceFound ==
    ASSUME ProfileAssumption, ProfileInv, phase = "pod"
    PROVE  /\ Holding = {} => Place.volume = "image"
           /\ Holding # {} =>
                /\ findMount \in Holding
                /\ Place = [volume |-> findMount.volume, rel |-> Rel(findMount)]
                /\ Rel(findMount) \in Seq(Segments)
<1>1. Absolute \in Seq(Segments) /\ Len(Absolute) \in Nat
  <2>1. path.segs \in Seq(Segments) /\ workingDir \in Seq(Segments)
    BY DEF ProfileInv
  <2>2. workingDir \o path.segs \in Seq(Segments)
    BY <2>1, ConcatProperties
  <2> QED BY <2>1, <2>2 DEF Absolute
<1>2. WalkedTo(Len(Absolute)) /\ Holding = On(Len(Absolute))
  BY <1>1, Walked, HoldingIs
<1>3. ASSUME Holding # {}
      PROVE  findMount \in Holding /\ \A o \in Holding : Len(o.path) <= Len(findMount.path)
  <2> DEFINE left == {Len(Absolute) - Len(m.path) : m \in Holding}
  <2>1. \A m \in Holding : Len(m.path) \in Nat /\ Len(m.path) <= Len(Absolute)
    BY <1>1 DEF Holding, IsPrefix, ProfileInv, MountType, ProfileAssumption
  <2>2. left \subseteq Nat /\ left # {}
    BY <1>1, <1>3, <2>1
  <2>3. PICK least \in left : \A k \in left : least <= k
    BY <2>2, Least
  <2>4. PICK m \in Holding : least = Len(Absolute) - Len(m.path)
    OBVIOUS
  <2>5. \A o \in Holding : Len(o.path) <= Len(m.path)
    <3> TAKE o \in Holding
    <3>1. least <= Len(Absolute) - Len(o.path)
      BY <2>3
    <3> QED BY <1>1, <2>1, <2>4, <3>1
  <2> QED BY <2>4, <2>5, Zenon DEF findMount
<1>4. ASSUME Holding # {} PROVE Rel(findMount) \in Seq(Segments)
  <2> PICK m : m = findMount
    OBVIOUS
  <2>1. m \in mounts
    BY <1>3, <1>4 DEF Holding
  <2>2. m.subPath \in Seq(Segments) /\ Len(m.path) \in Nat
    BY <2>1 DEF ProfileInv, MountType, ProfileAssumption
  <2>3. SubSeq(Absolute, Len(m.path) + 1, Len(Absolute)) \in Seq(Segments)
    <3> \A i \in Len(m.path) + 1 .. Len(Absolute) : Absolute[i] \in Segments
      BY <1>1, <2>2
    <3> QED BY <1>1, <2>2, SubSeqProperties
  <2> QED BY <2>2, <2>3, ConcatProperties DEF Rel, Below
<1> QED BY <1>2, <1>3, <1>4 DEF WalkedTo, Place, Rel, Below

-----------------------------------------------------------------------------
(* readFile against the container. *)

\* What readFile has checked before it reads the ConfigMap, in terms of the place.
LEMMA ReadFileIs ==
    ASSUME ProfileAssumption, ProfileInv, phase = "pod"
    PROVE  \/ readFile.status = "unresolved"
           \/ /\ findMount \in mounts /\ findMount.volume \in Volumes
              /\ Place.volume = findMount.volume /\ Place.rel \in Seq(Segments) \ {<<>>}
              /\ volumes[Place.volume] \in VolumeType
              /\ volumes[Place.volume].type = "configMap"
              /\ readFile = readConfigMapFile(volumes[Place.volume], Place.rel)
<1> DEFINE m == findMount
           unread == \/ unresolved
                     \/ ~path.abs /\ workingDir = <<>>
                     \/ Holding = {}
                     \/ m.expr
                     \/ Rel(m) = <<>>
                     \/ volumes[m.volume].type # "configMap"
<1>1. readFile = IF unread THEN Fails("unresolved")
                 ELSE readConfigMapFile(volumes[m.volume], Rel(m))
  BY DEF readFile
<1>2. CASE unread
  <2> HIDE DEF unread, m
  <2>1. readFile = Fails("unresolved")
    BY <1>1, <1>2
  <2> QED BY <2>1 DEF Fails
<1>3. CASE ~unread
  <2>1. /\ Holding # {} /\ Rel(m) # <<>> /\ volumes[m.volume].type = "configMap"
    BY <1>3
  <2>2. /\ m \in Holding /\ Place = [volume |-> m.volume, rel |-> Rel(m)]
        /\ Rel(m) \in Seq(Segments)
    BY <2>1, PlaceFound
  <2>3. m \in mounts /\ m.volume \in Volumes
    BY <2>2 DEF Holding, ProfileInv, MountType
  <2>4. Place.volume = m.volume /\ Place.rel = Rel(m)
    <3> HIDE DEF m
    <3> QED BY <2>2
  <2>5. readFile = readConfigMapFile(volumes[m.volume], Rel(m))
    <3> HIDE DEF unread, m
    <3> QED BY <1>1, <1>3
  <2>6. volumes[m.volume] \in VolumeType
    BY <2>3 DEF ProfileInv
  <2> HIDE DEF m
  <2> QED BY <2>1, <2>2, <2>3, <2>4, <2>5, <2>6 DEF m
<1> QED BY <1>2, <1>3

LEMMA SeqElements == ASSUME NEW S, NEW s \in Seq(S) PROVE \A i \in DOMAIN s : s[i] \in S
  BY ElementOfSeq

\* The key of the first item at rel.
LEMMA KeyAtIs ==
    ASSUME NEW vol \in VolumeType, NEW rel \in Seq(Segments)
    PROVE  /\ vol.items = <<>> /\ Len(rel) = 1 => KeyAt(vol, rel) = Head(rel) /\ rel = <<Head(rel)>>
           /\ vol.items = <<>> /\ Len(rel) # 1 => KeyAt(vol, rel) = NoKey
           /\ vol.items # <<>> =>
                \/ /\ KeyAt(vol, rel) = NoKey
                   /\ \A i \in DOMAIN vol.items : vol.items[i].path # rel
                \/ \E i \in DOMAIN vol.items :
                     vol.items[i].path = rel /\ KeyAt(vol, rel) = vol.items[i].key
<1> DEFINE listed == {i \in DOMAIN vol.items : vol.items[i].path = rel}
<1>1. vol.items \in Seq([key : Keys, path : ItemPaths])
  BY DEF VolumeType
<1>2. KeyAt(vol, rel) = IF vol.items = <<>> THEN (IF Len(rel) = 1 THEN Head(rel) ELSE NoKey)
                        ELSE IF listed # {} THEN vol.items[Min(listed)].key ELSE NoKey
  BY DEF KeyAt
<1>3. Len(rel) = 1 => rel = <<Head(rel)>>
  OBVIOUS
<1>4. listed \subseteq Nat
  BY <1>1
<1>5. listed # {} => Min(listed) \in listed
  <2> HIDE DEF listed
  <2> QED BY <1>4, MinIsLeast
<1> PICK first : first = Min(listed)
  OBVIOUS
<1>6. CASE vol.items = <<>>
  BY <1>2, <1>3, <1>6
<1>7. CASE vol.items # <<>> /\ listed # {}
  <2>1. first \in DOMAIN vol.items /\ vol.items[first].path = rel
    BY <1>5, <1>7
  <2>2. KeyAt(vol, rel) = vol.items[first].key
    <3> HIDE DEF listed
    <3> QED BY <1>2, <1>7
  <2> QED BY <1>7, <2>1, <2>2
<1>8. CASE vol.items # <<>> /\ listed = {}
  <2>1. KeyAt(vol, rel) = NoKey
    <3> HIDE DEF listed
    <3> QED BY <1>2, <1>8
  <2> QED BY <1>8, <2>1
<1> QED BY <1>6, <1>7, <1>8

\* The results of readConfigMapFile and what they say of the ConfigMap.
LEMMA ReadConfigMapFileIs ==
    ASSUME NEW vol, NEW rel
    PROVE  LET r == readConfigMapFile(vol, rel)  k == KeyAt(vol, rel) IN
           \/ /\ r.status = "read" /\ r.key = k
              /\ keys # {NoKey} /\ k # NoKey /\ k \in keys
           \/ /\ r.status = "missing"
              /\ \/ keys = {NoKey}
                 \/ k = NoKey
                 \/ k \notin keys
           \/ /\ r.status = "cannot start" /\ ~vol.optional
              /\ \/ keys = {NoKey}
                 \/ k # NoKey /\ k \notin keys /\ vol.items # <<>>
<1> PICK k : k = KeyAt(vol, rel)
  OBVIOUS
<1>1. /\ Fails("missing").status = "missing"
      /\ Fails("cannot start").status = "cannot start"
      /\ Read(k).status = "read" /\ Read(k).key = k
  BY DEF Fails, Read
<1>2. \/ vol.optional /\ NotThere(vol) = Fails("missing")
      \/ ~vol.optional /\ NotThere(vol) = Fails("cannot start")
  BY DEF NotThere
<1>3. readConfigMapFile(vol, rel) =
        IF keys = {NoKey} THEN NotThere(vol)
        ELSE IF k = NoKey THEN Fails("missing")
        ELSE IF k \in keys THEN Read(k)
        ELSE IF vol.items # <<>> THEN NotThere(vol)
        ELSE Fails("missing")
  BY DEF readConfigMapFile
<1> QED BY <1>1, <1>2, <1>3

\* A file that readConfigMapFile finds is projected, one that it misses is not.
LEMMA ReadIsProjected ==
    ASSUME NoKey \notin Keys, keys = {NoKey} \/ keys \subseteq Keys,
           NEW vol \in VolumeType, NEW rel \in Seq(Segments),
           \A i, j \in DOMAIN vol.items : vol.items[i].path = vol.items[j].path => i = j
    PROVE  LET r == readConfigMapFile(vol, rel) IN
           /\ r.status = "read" => Projects(vol, rel, r.key)
           /\ r.status = "missing" => \A k \in Keys : ~Projects(vol, rel, k)
<1> DEFINE r == readConfigMapFile(vol, rel)
           key == KeyAt(vol, rel)
           items == vol.items
<1>1. items \in Seq([key : Keys, path : ItemPaths])
  BY DEF VolumeType
<1>2. \A i \in DOMAIN items : items[i] \in [key : Keys, path : ItemPaths]
  BY <1>1, SeqElements
<1>3. \/ items = <<>> /\ Len(rel) = 1 /\ key = Head(rel) /\ rel = <<Head(rel)>>
      \/ items = <<>> /\ Len(rel) # 1 /\ key = NoKey
      \/ /\ items # <<>> /\ key = NoKey
         /\ \A i \in DOMAIN items : items[i].path # rel
      \/ items # <<>> /\ \E i \in DOMAIN items : items[i].path = rel /\ key = items[i].key
  BY KeyAtIs
<1>4. \/ /\ r.status = "read" /\ r.key = key
         /\ keys # {NoKey} /\ key # NoKey /\ key \in keys
      \/ /\ r.status = "missing"
         /\ keys = {NoKey} \/ key = NoKey \/ key \notin keys
      \/ r.status = "cannot start"
  BY ReadConfigMapFileIs
<1> HIDE DEF r, key, items
<1>5. ASSUME r.status = "read" PROVE Projects(vol, rel, key)
  <2>1. key \in keys \cap Keys /\ key # NoKey
    BY <1>4, <1>5
  <2>2. CASE items = <<>>
    <3>1. rel = <<key>>
      BY <1>3, <2>1, <2>2
    <3> QED BY <2>1, <2>2, <3>1 DEF Projects, items
  <2>3. CASE items # <<>>
    <3>1. PICK i \in DOMAIN items : items[i].path = rel /\ key = items[i].key
      BY <1>3, <2>1, <2>3
    <3>2. items[i] = [key |-> key, path |-> rel]
      <4>1. items[i] = [key |-> items[i].key, path |-> items[i].path]
        BY <1>2
      <4> QED BY <3>1, <4>1
    <3>3. \A j \in i + 1 .. Len(items) : items[j].path # rel
      <4> TAKE j \in i + 1 .. Len(items)
      <4>1. j \in DOMAIN items /\ j # i
        BY <1>1
      <4> QED BY <3>1, <4>1 DEF items
    <3> QED BY <2>1, <2>3, <3>2, <3>3 DEF Projects, items
  <2> QED BY <2>2, <2>3
<1>6. ASSUME r.status = "missing", NEW k \in Keys, Projects(vol, rel, k) PROVE FALSE
  <2>1. k \in keys /\ k # NoKey /\ keys # {NoKey}
    BY <1>6 DEF Projects
  <2>2. key = k
    <3>1. CASE items = <<>>
      <4>1. rel = <<k>>
        BY <1>6, <3>1 DEF Projects, items
      <4>2. Len(rel) = 1 /\ Head(rel) = k
        BY <4>1
      <4> QED BY <1>3, <3>1, <4>2
    <3>2. CASE items # <<>>
      <4>1. PICK i \in DOMAIN items : items[i] = [key |-> k, path |-> rel]
        BY <1>6, <3>2 DEF Projects, items
      <4>2. items[i].path = rel /\ items[i].key = k
        BY <4>1
      <4>3. PICK j \in DOMAIN items : items[j].path = rel /\ key = items[j].key
        BY <1>3, <3>2, <4>2
      <4>4. i = j
        BY <4>2, <4>3 DEF items
      <4> QED BY <4>2, <4>3, <4>4
    <3> QED BY <3>1, <3>2
  <2> QED BY <1>4, <1>6, <2>1, <2>2
<1> QED BY <1>4, <1>5, <1>6 DEF r

LEMMA KeysAre ==
    ASSUME ProfileInv
    PROVE  keys = {NoKey} \/ keys \subseteq Keys
<1>1. keys \in (SUBSET Keys) \cup {{NoKey}}
  BY DEF ProfileInv
<1> QED BY <1>1

LEMMA ReadsTheOpened ==
    ASSUME ProfileAssumption, ProfileInv
    PROVE  ReadsWhatIsOpened
<1> SUFFICES ASSUME phase = "pod", DistinctItems
             PROVE  /\ readFile.status = "read" => Opens(readFile.key)
                    /\ readFile.status = "missing" => \A k \in Keys : ~Opens(k)
  BY DEF ReadsWhatIsOpened
<1>1. CASE readFile.status = "unresolved"
  BY <1>1
<1>2. CASE readFile.status # "unresolved"
  <2>1. /\ Place.volume \in Volumes /\ Place.rel \in Seq(Segments) \ {<<>>}
        /\ volumes[Place.volume].type = "configMap"
        /\ readFile = readConfigMapFile(volumes[Place.volume], Place.rel)
    BY <1>2, ReadFileIs
  <2>2. InConfigMap
    BY <2>1 DEF InConfigMap
  <2> PICK vol : vol = volumes[Place.volume]
    OBVIOUS
  <2>3. vol \in VolumeType
    BY <2>1 DEF ProfileInv
  <2>4. \A i, j \in DOMAIN vol.items : vol.items[i].path = vol.items[j].path => i = j
    BY <2>1 DEF DistinctItems
  <2>5. NoKey \notin Keys /\ (keys = {NoKey} \/ keys \subseteq Keys)
    BY KeysAre DEF ProfileAssumption
  <2> QED BY <2>1, <2>2, <2>3, <2>4, <2>5, ReadIsProjected DEF Opens
<1> QED BY <1>1, <1>2

LEMMA CannotStart ==
    ASSUME ProfileAssumption, ProfileInv
    PROVE  CannotStartIsBlocked
<1> SUFFICES ASSUME phase = "pod", readFile.status = "cannot start" PROVE ~PodStarts
  BY DEF CannotStartIsBlocked
<1> DEFINE vol == volumes[findMount.volume]
<1>1. /\ findMount \in mounts /\ vol \in VolumeType /\ vol.type = "configMap"
      /\ Place.rel \in Seq(Segments) /\ readFile = readConfigMapFile(vol, Place.rel)
  BY ReadFileIs
<1> DEFINE key == KeyAt(vol, Place.rel)
<1> HIDE DEF vol
<1>2. /\ ~vol.optional
      /\ \/ keys = {NoKey}
         \/ key # NoKey /\ key \notin keys /\ vol.items # <<>>
  BY <1>1, ReadConfigMapFileIs
<1>3. keys = {NoKey} \/ \E i \in DOMAIN vol.items : vol.items[i].key \notin keys
  <2>1. vol.items # <<>> =>
          \/ key = NoKey
          \/ \E i \in DOMAIN vol.items : key = vol.items[i].key
    BY <1>1, KeyAtIs
  <2> QED BY <1>2, <2>1
<1>4. Blocks(vol)
  BY <1>1, <1>2, <1>3 DEF Blocks
<1> QED BY <1>1, <1>4 DEF PodStarts, vol

LEMMA ReadsTheReadable ==
    ASSUME ProfileAssumption, ProfileInv
    PROVE  ReadsWhatItCan
<1> SUFFICES ASSUME phase = "pod", NEW k \in Keys, Opens(k),
                    ~unresolved, path.abs \/ workingDir # <<>>, \A m \in Holding : ~m.expr
             PROVE  readFile.status # "unresolved"
  BY DEF ReadsWhatItCan
<1>1. /\ Place.volume \in Volumes /\ volumes[Place.volume].type = "configMap"
      /\ Place.rel # <<>>
  BY DEF Opens, InConfigMap
<1>2. Holding # {}
  BY <1>1, PlaceFound DEF ProfileAssumption
<1> PICK m : m = findMount
  OBVIOUS
<1>3. m \in Holding /\ Place = [volume |-> m.volume, rel |-> Rel(m)]
  BY <1>2, PlaceFound
<1>4. Place.volume = m.volume /\ Place.rel = Rel(m)
  BY <1>3
<1>5. ~( \/ unresolved
         \/ ~path.abs /\ workingDir = <<>>
         \/ Holding = {}
         \/ m.expr
         \/ Rel(m) = <<>>
         \/ volumes[m.volume].type # "configMap")
  BY <1>1, <1>2, <1>3, <1>4
<1>6. readFile = readConfigMapFile(volumes[m.volume], Rel(m))
  BY <1>5, Zenon DEF readFile
<1> QED BY <1>6, ReadConfigMapFileIs

\* The profile that the viewer reads is the file that the container opens, and where
\* the viewer finds no file the container finds none, for paths, mounts and items of
\* every number and depth, as long as no two items of a volume have one path.
THEOREM ProfileReadIsOpened == Spec => []ReadsWhatIsOpened
<1>1. ProfileInv => ReadsWhatIsOpened
  BY ReadsTheOpened, ProfileAssumption
<1> QED BY <1>1, ProfileInvariant, PTL

\* A profile that is said to keep the pod from starting does: its ConfigMap volume, or
\* a key that the volume lists, does not exist and is not optional.
THEOREM ProfileCannotStart == Spec => []CannotStartIsBlocked
<1>1. ProfileInv => CannotStartIsBlocked
  BY CannotStart, ProfileAssumption
<1> QED BY <1>1, ProfileInvariant, PTL

\* A file that the container opens is not left unresolved, unless the path depends on
\* what the viewer does not see.
THEOREM ProfileResolved == Spec => []ReadsWhatItCan
<1>1. ProfileInv => ReadsWhatItCan
  BY ReadsTheReadable, ProfileAssumption
<1> QED BY <1>1, ProfileInvariant, PTL
=============================================================================
