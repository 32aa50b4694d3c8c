-------------------------- MODULE HttpServerProofs --------------------------
(* Theorems about HttpServer, for any number of connections and any timeout. *)
EXTENDS HttpServer, TLAPS

\* What the main goroutine knows where it is, while the process runs.
RunInv ==
    /\ pc = "start" => serve = "none" /\ \A c \in Conns : conns[c] = "none"
    /\ pc = "select" => serve # "closed"
    /\ pc # "exited" => exit = "" /\ \A c \in Conns : conns[c] # "cut"
    /\ pc \in {"shutdown", "await"} => done
    /\ pc = "await" => serve # "running" /\ \A c \in Conns : ~Open(c)

Inv == TypeOK /\ RunInv /\ CleanExit /\ GraceGiven

\* Nothing has happened at first.
LEMMA InitInv == Init => Inv
  <1> SUFFICES ASSUME Init PROVE Inv
    OBVIOUS
  <1>1. 0 \in 0..ShutdownTimeout
    BY ServerAssumption
  <1>2. TypeOK
    BY <1>1 DEF Init, TypeOK
  <1>3. RunInv /\ CleanExit /\ GraceGiven
    BY DEF Init, RunInv, CleanExit, GraceGiven
  <1> QED BY <1>2, <1>3 DEF Inv

\* The end of the process cuts off the connections that are open, and no other.
LEMMA ExitStep ==
    ASSUME Inv, pc # "exited",
           NEW how \in {"stopped", "failed"}, Exit(how),
           how = "stopped" => done /\ serve = "closed" /\ \A c \in Conns : ~Open(c),
           (\E c \in Conns : Open(c)) => serve = "failed" \/ elapsed = ShutdownTimeout
    PROVE  Inv'
  <1>1. \A c \in Conns : conns'[c] = IF Open(c) THEN "cut" ELSE conns[c]
    BY DEF Exit
  <1>2. conns' \in [Conns -> {"none", "new", "active", "closed", "cut"}]
    BY DEF Exit, Inv, TypeOK
  <1>3. TypeOK' /\ RunInv'
    BY <1>2 DEF Exit, Inv, TypeOK, RunInv
  <1>4. \A c \in Conns : conns'[c] = "cut" => Open(c)
    BY <1>1 DEF Inv, RunInv
  <1>5. CleanExit' /\ GraceGiven'
    BY <1>4 DEF Exit, CleanExit, GraceGiven
  <1> QED BY <1>3, <1>5 DEF Inv

\* A step of a connection is none of the main goroutine's.
LEMMA MovesStep ==
    ASSUME Inv, NEW c \in Conns, NEW from, NEW to,
           Moves(c, from, to),
           to \in {"new", "active", "closed"},
           from \in {"new", "active"} \/ serve = "running"
    PROVE  Inv'
  <1>1. TypeOK'
    BY DEF Inv, TypeOK, Moves
  <1>2. \A x \in Conns : conns'[x] = IF x = c THEN to ELSE conns[x]
    BY DEF Inv, TypeOK, Moves
  <1>3. pc # "await"
    BY DEF Inv, RunInv, Moves, Open
  <1>4. RunInv'
    BY <1>2, <1>3 DEF Inv, RunInv, Moves
  <1>5. CleanExit' /\ GraceGiven'
    BY <1>2 DEF Inv, CleanExit, GraceGiven, RunInv, Moves
  <1> QED BY <1>1, <1>4, <1>5 DEF Inv

\* Inv is inductive.
LEMMA Inductive == Inv /\ [Next]_vars => Inv'
  <1> SUFFICES ASSUME Inv, [Next]_vars PROVE Inv'
    OBVIOUS
  <1>1. CASE Start
    <2>1. TypeOK'
      BY <1>1 DEF Inv, TypeOK, Start
    <2>2. RunInv' /\ CleanExit' /\ GraceGiven'
      BY <1>1 DEF Inv, RunInv, CleanExit, GraceGiven, Start
    <2> QED BY <2>1, <2>2 DEF Inv
  <1>2. CASE StartFails
    <2>1. \A c \in Conns : ~Open(c)
      BY <1>2 DEF Inv, RunInv, StartFails, Open
    <2> QED BY <1>2, <2>1, ExitStep DEF StartFails
  <1>3. CASE SelectServeErr
    \* Serve returns ErrServerClosed only after Shutdown was called.
    <2>1. serve = "failed"
      BY <1>3 DEF Inv, RunInv, SelectServeErr
    <2> QED BY <1>3, <2>1, ExitStep DEF SelectServeErr
  <1>4. CASE SelectDone
    <2>1. TypeOK'
      BY <1>4 DEF Inv, TypeOK, SelectDone
    <2>2. RunInv' /\ CleanExit' /\ GraceGiven'
      BY <1>4 DEF Inv, RunInv, CleanExit, GraceGiven, SelectDone
    <2> QED BY <2>1, <2>2 DEF Inv
  <1>5. CASE ShutdownReturns
    <2>1. TypeOK'
      BY <1>5 DEF Inv, TypeOK, ShutdownReturns
    <2>2. RunInv' /\ CleanExit' /\ GraceGiven'
      BY <1>5 DEF Inv, RunInv, CleanExit, GraceGiven, ShutdownReturns, Open
    <2> QED BY <2>1, <2>2 DEF Inv
  <1>6. CASE ShutdownExpires
    <2>1. elapsed = ShutdownTimeout
      <3>1. elapsed \in 0..ShutdownTimeout /\ elapsed >= ShutdownTimeout
        BY <1>6 DEF Inv, TypeOK, ShutdownExpires, Expired
      <3> QED BY <3>1, ServerAssumption
    <2> QED BY <1>6, <2>1, ExitStep DEF ShutdownExpires, ShutdownErr
  <1>7. CASE Await
    <2>1. done /\ \A c \in Conns : ~Open(c)
      BY <1>7 DEF Inv, RunInv, Await
    <2>2. CASE serve = "closed"
      BY <1>7, <2>1, <2>2, ExitStep DEF Await
    <2>3. CASE serve # "closed"
      BY <1>7, <2>1, <2>3, ExitStep DEF Await
    <2> QED BY <2>2, <2>3
  <1>8. CASE Signal
    <2>1. TypeOK'
      BY <1>8 DEF Inv, TypeOK, Signal
    <2>2. RunInv' /\ CleanExit' /\ GraceGiven'
      BY <1>8 DEF Inv, RunInv, CleanExit, GraceGiven, Signal, Open
    <2> QED BY <2>1, <2>2 DEF Inv
  <1>9. CASE Tick
    <2>1. elapsed' \in 0..ShutdownTimeout /\ elapsed # ShutdownTimeout
      <3>1. /\ elapsed \in 0..ShutdownTimeout /\ elapsed < ShutdownTimeout
            /\ elapsed' = elapsed + 1
        BY <1>9 DEF Inv, TypeOK, Tick
      <3> QED BY <3>1, ServerAssumption
    <2>2. RunInv' /\ CleanExit' /\ GraceGiven'
      BY <1>9 DEF Inv, RunInv, CleanExit, GraceGiven, Tick, Open
    <2>3. TypeOK'
      BY <1>9, <2>1 DEF Inv, TypeOK, Tick
    <2> QED BY <2>2, <2>3 DEF Inv
  <1>10. CASE ServeReturns
    <2>1. TypeOK'
      BY <1>10 DEF Inv, TypeOK, ServeReturns
    <2>2. RunInv' /\ CleanExit' /\ GraceGiven'
      BY <1>10 DEF Inv, RunInv, CleanExit, GraceGiven, ServeReturns, Open
    <2> QED BY <2>1, <2>2 DEF Inv
  <1>11. ASSUME NEW c \in Conns, Accept(c) \/ Request(c) \/ Respond(c)
         PROVE  Inv'
    BY <1>11, MovesStep DEF Accept, Request, Respond
  <1>12. CASE UNCHANGED vars
    BY <1>12 DEF vars, Inv, TypeOK, RunInv, CleanExit, GraceGiven, Open
  <1> QED
    BY <1>1, <1>2, <1>3, <1>4, <1>5, <1>6, <1>7, <1>8, <1>9, <1>10, <1>11, <1>12
    DEF Next, Exited

\* Every state of the server's process has the inductive invariant.
LEMMA Invariance == Spec => []Inv
  <1>1. Init => Inv
    BY InitInv
  <1>2. Inv /\ [Next]_vars => Inv'
    BY Inductive
  <1> QED BY <1>1, <1>2, PTL DEF Spec

\* serve returns nil only after a signal, with Serve closed in good order and with
\* every request answered, whatever the connections do (main.go:135-162).
THEOREM CleanExits == Spec => []CleanExit
  <1>1. Inv => CleanExit
    BY DEF Inv
  <1> QED BY <1>1, Invariance, PTL

\* A request is cut off only by a failure of Serve or once shutdownTimeout has
\* passed since Shutdown was called.
THEOREM RequestsGetTime == Spec => []GraceGiven
  <1>1. Inv => GraceGiven
    BY DEF Inv
  <1> QED BY <1>1, Invariance, PTL
=============================================================================
