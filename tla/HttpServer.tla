---------------------------- MODULE HttpServer ----------------------------
(***************************************************************************)
(* main.go: run and serve.  The main goroutine waits for the goroutine     *)
(* that runs http.Server.Serve or for a signal, and shuts the server down  *)
(* with a timeout.  http.Server is net/http's, modelled by what serve      *)
(* relies on: Shutdown closes the listener, waits for Serve to let go of   *)
(* it and then until no connection is in use, or until its context ends.   *)
(***************************************************************************)
EXTENDS Integers

CONSTANTS
    Conns,              \* connections, each for one request
    ShutdownTimeout     \* shutdownTimeout

ASSUME ServerAssumption == ShutdownTimeout \in Nat \ {0}

VARIABLES
    pc,         \* where the main goroutine is
    exit,       \* how the process ended: "" while it runs
    done,       \* ctx of signal.NotifyContext is done
    serve,      \* what the goroutine running Serve has sent to serveErr
    conns,      \* the state of each connection
    elapsed     \* time since Shutdown was called

vars == <<pc, exit, done, serve, conns, elapsed>>

Open(c) == conns[c] \in {"new", "active"}

Init ==
    /\ pc = "start" /\ exit = ""
    /\ done = FALSE
    /\ serve = "none"
    /\ conns = [c \in Conns |-> "none"]
    /\ elapsed = 0

\* The process ends, and with it every connection.
Exit(how) ==
    /\ pc' = "exited" /\ exit' = how
    /\ conns' = [c \in Conns |-> IF Open(c) THEN "cut" ELSE conns[c]]
    /\ UNCHANGED <<done, serve, elapsed>>

-----------------------------------------------------------------------------
(* The main goroutine. *)

\* newServers and Listen succeed; the goroutine that runs Serve is started.
Start ==
    /\ pc = "start"
    /\ pc' = "select" /\ serve' = "running"
    /\ UNCHANGED <<exit, done, conns, elapsed>>

StartFails == pc = "start" /\ Exit("failed")

\* case err := <-serveErr
SelectServeErr ==
    /\ pc = "select"
    /\ serve \in {"failed", "closed"}
    /\ Exit("failed")

\* case <-ctx.Done(), even if Serve has failed as well: select takes either.
SelectDone ==
    /\ pc = "select"
    /\ done
    /\ pc' = "shutdown"
    /\ UNCHANGED <<exit, done, serve, conns, elapsed>>

\* Shutdown returns nil.
ShutdownReturns ==
    /\ pc = "shutdown"
    /\ serve # "running"
    /\ \A c \in Conns : ~Open(c)
    /\ pc' = "await"
    /\ UNCHANGED <<exit, done, serve, conns, elapsed>>

\* Variants of Expired: no timeout; shutdownCtx derives from the context that the
\* signal has ended.
NeverExpires == FALSE
ExpiresWithSignal == done \/ elapsed >= ShutdownTimeout

Expired == elapsed >= ShutdownTimeout

\* Variant of ShutdownErr: the error is logged only.
ShutdownErrIgnored ==
    /\ pc' = "await"
    /\ UNCHANGED <<exit, done, serve, conns, elapsed>>

ShutdownErr == Exit("failed")

\* Shutdown returns the error of shutdownCtx.
ShutdownExpires ==
    /\ pc = "shutdown"
    /\ serve # "running"
    /\ Expired
    /\ ShutdownErr

\* <-serveErr: anything but ErrServerClosed is an error of run.
Await ==
    /\ pc = "await"
    /\ serve \in {"failed", "closed"}
    /\ Exit(IF serve = "closed" THEN "stopped" ELSE "failed")

-----------------------------------------------------------------------------
(* Signals, time, and what goes on in http.Server. *)

\* SIGINT or SIGTERM.  NotifyContext keeps every later one from ending the process.
Signal ==
    /\ pc # "exited"
    /\ done' = TRUE
    /\ UNCHANGED <<pc, exit, serve, conns, elapsed>>

Tick ==
    /\ pc = "shutdown"
    /\ elapsed < ShutdownTimeout
    /\ elapsed' = elapsed + 1
    /\ UNCHANGED <<pc, exit, done, serve, conns>>

\* Serve returns ErrServerClosed once Shutdown was called, another error before.
ServeReturns ==
    /\ pc # "exited"
    /\ serve = "running"
    /\ serve' = IF pc = "select" THEN "failed" ELSE "closed"
    /\ UNCHANGED <<pc, exit, done, conns, elapsed>>

Moves(c, from, to) ==
    /\ pc # "exited"
    /\ conns[c] = from
    /\ conns' = [conns EXCEPT ![c] = to]
    /\ UNCHANGED <<pc, exit, done, serve, elapsed>>

Accept(c) == serve = "running" /\ Moves(c, "none", "new")

\* A request begins, or its header does not come in time.
Request(c) == Moves(c, "new", "active") \/ Moves(c, "new", "closed")

Respond(c) == Moves(c, "active", "closed")

Exited == pc = "exited" /\ UNCHANGED vars

Next ==
    \/ Start \/ StartFails \/ SelectServeErr \/ SelectDone
    \/ ShutdownReturns \/ ShutdownExpires \/ Await
    \/ Signal \/ Tick \/ ServeReturns
    \/ \E c \in Conns : Accept(c) \/ Request(c) \/ Respond(c)
    \/ Exited

Spec == Init /\ [][Next]_vars

-----------------------------------------------------------------------------
(* Properties. *)

\* The type invariant.
TypeOK ==
    /\ pc \in {"start", "select", "shutdown", "await", "exited"}
    /\ exit \in {"", "stopped", "failed"}
    /\ done \in BOOLEAN
    /\ serve \in {"none", "running", "closed", "failed"}
    /\ conns \in [Conns -> {"none", "new", "active", "closed", "cut"}]
    /\ elapsed \in 0..ShutdownTimeout

\* The process ends without an error (main.go:66-73) only after a signal, if
\* Serve did not fail on its own and no request was cut off.
CleanExit ==
    exit = "stopped" =>
        done /\ serve = "closed" /\ \A c \in Conns : conns[c] # "cut"

\* main.go:135, "requests in flight get up to shutdownTimeout to finish": none is
\* cut off earlier unless Serve failed.
GraceGiven ==
    (\E c \in Conns : conns[c] = "cut") => serve = "failed" \/ elapsed = ShutdownTimeout

\* After a signal or a failure of Serve the process ends, even if a handler never
\* returns.
Ends == done \/ serve = "failed" ~> exit # ""
=============================================================================
