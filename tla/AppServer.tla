----------------------------- MODULE AppServer -----------------------------
(***************************************************************************)
(* src/app.go: App.Run around the requests it serves, each of which uses   *)
(* the data accessors of AppData.  The server of net/http is external: it  *)
(* accepts requests while it listens, and Shutdown ends that and waits for *)
(* the requests in flight until its context ends.                          *)
(***************************************************************************)
EXTENDS AppData

VARIABLES
    server,         \* "new", "listening", "shut" or "failed"
    errCh,          \* what Run's goroutine left in the channel: "empty", "error" or "closed"
    signalled,      \* SIGINT or SIGTERM is in sigCh
    run,            \* Run: "idle", "select", "shutdown" or "returned"
    answer,         \* what Run returned: "none", "nil", "failed" or "timeout"
    inFlight        \* the requests that are being served

runVars == <<server, errCh, signalled, run, answer, inFlight>>
serverVars == <<dataVars, runVars>>

ServerInit ==
    /\ DataInit
    /\ server = "new" /\ errCh = "empty" /\ signalled = FALSE
    /\ run = "idle" /\ answer = "none" /\ inFlight = {}

\* The goroutine is started and the signals are subscribed to.
Run ==
    /\ run = "idle"
    /\ run' = "select"
    /\ UNCHANGED <<dataVars, server, errCh, signalled, answer, inFlight>>

\* ListenAndServe in the goroutine; after a Shutdown it returns at once.
Listen ==
    /\ run # "idle" /\ server = "new"
    /\ server' = "listening"
    /\ UNCHANGED <<dataVars, errCh, signalled, run, answer, inFlight>>

\* The port is taken, or Accept fails later: the error goes to Run.
ListenFails ==
    /\ run # "idle" /\ server \in {"new", "listening"}
    /\ server' = "failed"
    /\ errCh' = "error"
    /\ UNCHANGED <<dataVars, signalled, run, answer, inFlight>>

\* ErrServerClosed is no error: the channel is closed empty.
ListenClosed ==
    /\ server = "shut" /\ errCh = "empty"
    /\ errCh' = "closed"
    /\ UNCHANGED <<dataVars, server, signalled, run, answer, inFlight>>

Accept(c) ==
    /\ server = "listening" /\ c \notin inFlight
    /\ inFlight' = inFlight \cup {c}
    /\ UNCHANGED <<dataVars, server, errCh, signalled, run, answer>>

Finish(c) ==
    /\ c \in inFlight /\ pc[c] = "idle"
    /\ inFlight' = inFlight \ {c}
    /\ UNCHANGED <<dataVars, server, errCh, signalled, run, answer>>

Signal ==
    /\ run \in {"select", "shutdown"}
    /\ ~signalled
    /\ signalled' = TRUE
    /\ UNCHANGED <<dataVars, server, errCh, run, answer, inFlight>>

\* select takes either channel when both are ready.
SelectError ==
    /\ run = "select" /\ errCh # "empty"
    /\ run' = "returned"
    /\ answer' = IF errCh = "error" THEN "failed" ELSE "nil"
    /\ UNCHANGED <<dataVars, server, errCh, signalled, inFlight>>

\* Shutdown: the listeners are closed.
SelectSignal ==
    /\ run = "select" /\ signalled
    /\ run' = "shutdown"
    /\ signalled' = FALSE
    /\ server' = IF server = "failed" THEN "failed" ELSE "shut"
    /\ UNCHANGED <<dataVars, errCh, answer, inFlight>>

\* Fault: the server is closed instead of drained.
ShutdownAtOnce ==
    /\ run = "shutdown"
    /\ run' = "returned"
    /\ answer' = "nil"
    /\ UNCHANGED <<dataVars, server, errCh, signalled, inFlight>>

\* Shutdown returns when it finds nothing in flight, or when ShutdownTimeout is
\* over, which it may notice first.
Shutdown ==
    /\ run = "shutdown"
    /\ run' = "returned"
    /\ answer' \in {"timeout"} \cup (IF inFlight = {} THEN {"nil"} ELSE {})
    /\ UNCHANGED <<dataVars, server, errCh, signalled, inFlight>>

\* Handlers call ORM; anyone may change the configuration.
Data ==
    /\ \/ \E a \in Adapters \cup {Nil} : SetSQL(a)
       \/ \E d \in Dialects : SetORMDialect(d)
       \/ \E c \in inFlight : ORMFast(c) \/ ORMSlow(c)
    /\ UNCHANGED runVars

ServerNext ==
    \/ Run \/ Listen \/ ListenFails \/ ListenClosed
    \/ Signal \/ SelectError \/ SelectSignal \/ Shutdown \/ Data
    \/ \E c \in Callers : Accept(c) \/ Finish(c)

ServerSpec == ServerInit /\ [][ServerNext]_serverVars

----------------------------------------------------------------------------
(* Properties.                                                              *)

\* When Run answers nil no request is in flight and none is accepted later, so
\* that main may close the database: no caller of ORM is left between its
\* two sections, whenever the signal came and whatever the listener did.
NilMeansDrained ==
    answer = "nil" => inFlight = {} /\ server # "listening" /\ \A c \in Callers : pc[c] = "idle"

=============================================================================
