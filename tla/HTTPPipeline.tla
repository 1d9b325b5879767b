---------------------------- MODULE HTTPPipeline ----------------------------
(***************************************************************************)
(* App.ServeHTTP (src/router.go) with the middleware chain app.route built *)
(* (src/app.go, src/middleware, src/auth, src/observability): concurrent   *)
(* requests take a Ctx from a sync.Pool, pass down their route's chain to  *)
(* the handler and back up, and give the Ctx back.  A panic unwinds until  *)
(* Recover catches it or net/http aborts the connection.                   *)
(***************************************************************************)
EXTENDS Naturals, Sequences, FiniteSets

CONSTANTS
    Requests,
    Ctxs,           \* the *Ctx values the pool may hand out
    Chains,         \* middleware chains of the routes, outermost first
    Handlers,       \* what the handlers of the routes may do
    None            \* no ctx, no value, no status

ASSUME NoneAssumption == None \notin Ctxs \cup Requests

Middlewares == {"recover", "requestID", "log", "metrics", "cors", "auth", "role"}

ASSUME ChainsAssumption == Chains \subseteq Seq(Middlewares)

\* The bearer token a request brings, "none" if it is missing or does not parse.
Bearers == {"none", "user", "admin"}

VARIABLES
    routed, chain, bearer, handler,     \* fixed for each request
    preflight,      \* the requests whose method is OPTIONS
    pool,           \* Ctx values in a.ctxPool
    values,         \* values[x]: the principal and the request id in Ctx x
    ctx,            \* ctx[r]: the Ctx request r uses
    pc, pos,        \* in the chain, and how deep
    ret,            \* what the layers below returned
    sent,           \* sent[r]: the status that went out, None before
    code,           \* code[r]: the status of the last WriteHeader, None before
    recorded,       \* recorded[r]: the statuses Metrics counted for r
    reached         \* requests whose handler ran

request == <<routed, chain, bearer, handler, preflight>>
vars == <<request, pool, values, ctx, pc, pos, ret, sent, code, recorded, reached>>

\* An error is an *HTTPError with its status, one whose Status was left 0, a nil
\* *HTTPError, one wrapped in another error, or an error of another type; a panic
\* is on its way up like an error.
Errors == {"http401", "http403", "http409", "http500", "http0", "httpNil",
           "wrapped409", "plain"}
Results == {"nil", "panic"} \cup Errors

\* Final statuses; and 0, which WriteHeader does not accept.
Statuses == {200, 204, 401, 403, 404, 409, 500}
Codes == Statuses \cup {0}

ASSUME NoneIsNoStatus == None \notin Codes

\* A handler calls WriteHeader with some statuses, then returns or panics.
ASSUME HandlersAssumption == Handlers \subseteq [writes : Seq(Statuses), returns : Results]

Empty == [principal |-> "none", requestID |-> None]

TypeOK ==
    /\ routed \in [Requests -> BOOLEAN]
    /\ chain \in [Requests -> Chains]
    /\ bearer \in [Requests -> Bearers]
    /\ handler \in [Requests -> Handlers]
    /\ preflight \subseteq Requests
    /\ pool \subseteq Ctxs
    /\ values \in [Ctxs -> [principal : {"none", "user", "admin"},
                            requestID : Requests \cup {None}]]
    /\ ctx \in [Requests -> Ctxs \cup {None}]
    /\ pc \in [Requests -> {"new", "down", "up", "done"}]
    /\ \A r \in Requests : pos[r] \in 0..Len(chain[r]) + 1
    /\ ret \in [Requests -> Results]
    /\ sent \in [Requests -> Statuses \cup {None}]
    /\ code \in [Requests -> Codes \cup {None}]
    /\ recorded \in [Requests -> SUBSET Codes]
    /\ reached \subseteq Requests

Init ==
    /\ routed \in [Requests -> BOOLEAN]
    /\ chain \in [Requests -> Chains]
    /\ bearer \in [Requests -> Bearers]
    /\ handler \in [Requests -> Handlers]
    /\ preflight \in SUBSET Requests
    /\ pool = Ctxs
    /\ values = [x \in Ctxs |-> Empty]
    /\ ctx = [r \in Requests |-> None]
    /\ pc = [r \in Requests |-> "new"]
    /\ pos = [r \in Requests |-> 0]
    /\ ret = [r \in Requests |-> "nil"]
    /\ sent = [r \in Requests |-> None]
    /\ code = [r \in Requests |-> None]
    /\ recorded = [r \in Requests |-> {}]
    /\ reached = {}

----------------------------------------------------------------------------
(* Writing a response.                                                      *)

\* asHTTPError looks through wrapping; anything else, a panic that Recover
\* caught too, is a 500.
StatusOf(e) ==
    CASE e = "http0" -> 0
      [] e = "http401" -> 401
      [] e = "http403" -> 403
      [] e \in {"http409", "wrapped409"} -> 409
      [] OTHER -> 500

\* net/http sends the first status only; the writer of Metrics keeps the last.
Write(r, statuses) ==
    IF statuses = <<>> THEN UNCHANGED <<sent, code>>
    ELSE /\ sent' = IF sent[r] = None THEN [sent EXCEPT ![r] = statuses[1]] ELSE sent
         /\ code' = [code EXCEPT ![r] = statuses[Len(statuses)]]

\* he.Status of a nil *HTTPError panics, and so does a first WriteHeader(0).
WriteErrorPanics(r) == ret[r] = "httpNil" \/ (ret[r] = "http0" /\ sent[r] = None)

----------------------------------------------------------------------------
(* ServeHTTP                                                                *)

\* Fault: reset without clear(c.values).
ResetKeepsValues(x) == UNCHANGED values

Reset(x) == values' = [values EXCEPT ![x] = Empty]

\* Fault: the Ctx is back in the pool while the chain runs.
AcceptPutsEarly(r, x) ==
    /\ pc[r] = "new"
    /\ x \in pool
    /\ Reset(x)
    /\ ctx' = [ctx EXCEPT ![r] = x]
    /\ pool' = pool
    /\ IF routed[r]
       THEN /\ pc' = [pc EXCEPT ![r] = "down"]
            /\ pos' = [pos EXCEPT ![r] = 1]
            /\ UNCHANGED <<sent, code>>
       ELSE /\ pc' = [pc EXCEPT ![r] = "done"]
            /\ Write(r, <<404>>)
            /\ UNCHANGED pos
    /\ UNCHANGED <<request, ret, recorded, reached>>

Accept(r, x) ==
    /\ pc[r] = "new"
    /\ x \in pool
    /\ Reset(x)
    /\ ctx' = [ctx EXCEPT ![r] = x]
    /\ IF routed[r]
       THEN /\ pool' = pool \ {x}
            /\ pc' = [pc EXCEPT ![r] = "down"]
            /\ pos' = [pos EXCEPT ![r] = 1]
            /\ UNCHANGED <<sent, code>>
       ELSE \* writeError(ErrNotFound) and Put, with no middleware in between
            /\ pool' = pool
            /\ pc' = [pc EXCEPT ![r] = "done"]
            /\ Write(r, <<404>>)
            /\ UNCHANGED pos
    /\ UNCHANGED <<request, ret, recorded, reached>>

\* writeError, if the chain returned an error, and Put; net/http sends 200 for a
\* chain that returned nil and wrote nothing.
Finish(r) ==
    /\ pc[r] = "up"
    /\ pos[r] = 0
    /\ ret[r] # "panic" /\ ~WriteErrorPanics(r)
    /\ Write(r, IF ret[r] # "nil" THEN <<StatusOf(ret[r])>>
                ELSE IF sent[r] = None THEN <<200>> ELSE <<>>)
    /\ pool' = pool \cup {ctx[r]}
    /\ pc' = [pc EXCEPT ![r] = "done"]
    /\ UNCHANGED <<request, values, ctx, pos, ret, recorded, reached>>

\* A panic leaves ServeHTTP, of the chain or of writeError: the server aborts the
\* connection, and the Ctx is not given back.
Abort(r) ==
    /\ pc[r] = "up"
    /\ pos[r] = 0
    /\ ret[r] = "panic" \/ WriteErrorPanics(r)
    /\ pc' = [pc EXCEPT ![r] = "done"]
    /\ UNCHANGED <<request, pool, values, ctx, pos, ret, sent, code, recorded, reached>>

----------------------------------------------------------------------------
(* Down the chain: what each middleware does before next(c).                *)

Here(r) == chain[r][pos[r]]

In(r, m) == pc[r] = "down" /\ pos[r] <= Len(chain[r]) /\ Here(r) = m

Deeper(r) == pos' = [pos EXCEPT ![r] = @ + 1] /\ UNCHANGED <<pc, ret>>

\* A middleware that does not call next returns to the layer above.
Refuse(r, e) ==
    /\ ret' = [ret EXCEPT ![r] = e]
    /\ pc' = [pc EXCEPT ![r] = "up"]
    /\ pos' = [pos EXCEPT ![r] = @ - 1]

\* Recover, Logger and Metrics act on the way up.
PassDown(r) ==
    /\ \E m \in {"recover", "log", "metrics"} : In(r, m)
    /\ Deeper(r)
    /\ UNCHANGED <<request, pool, values, ctx, sent, code, recorded, reached>>

RequestID(r) ==
    /\ In(r, "requestID")
    /\ values' = [values EXCEPT ![ctx[r]].requestID = r]
    /\ Deeper(r)
    /\ UNCHANGED <<request, pool, ctx, sent, code, recorded, reached>>

\* CORS answers every OPTIONS request itself, whatever its origin.
CORS(r) ==
    /\ In(r, "cors")
    /\ IF r \in preflight THEN Refuse(r, "nil") /\ Write(r, <<204>>)
       ELSE Deeper(r) /\ UNCHANGED <<sent, code>>
    /\ UNCHANGED <<request, pool, values, ctx, recorded, reached>>

Auth(r) ==
    /\ In(r, "auth")
    /\ IF bearer[r] \in {"user", "admin"}
       THEN /\ values' = [values EXCEPT ![ctx[r]].principal = bearer[r]]
            /\ Deeper(r)
       ELSE /\ Refuse(r, "http401")
            /\ UNCHANGED values
    /\ UNCHANGED <<request, pool, ctx, sent, code, recorded, reached>>

\* "none" when the Ctx holds no principal.
FromCtx(x) == values[x].principal

\* RequireRole("admin"), and RequirePerm likewise.
RequireRole(r) ==
    /\ In(r, "role")
    /\ \/ FromCtx(ctx[r]) = "none"  /\ Refuse(r, "http401")
       \/ FromCtx(ctx[r]) = "user"  /\ Refuse(r, "http403")
       \/ FromCtx(ctx[r]) = "admin" /\ Deeper(r)
    /\ UNCHANGED <<request, pool, values, ctx, sent, code, recorded, reached>>

----------------------------------------------------------------------------

\* The handler of the route: what it writes comes before what it returns.
Handle(r) ==
    /\ pc[r] = "down"
    /\ pos[r] = Len(chain[r]) + 1
    /\ reached' = reached \cup {r}
    /\ Write(r, handler[r].writes)
    /\ ret' = [ret EXCEPT ![r] = handler[r].returns]
    /\ pc' = [pc EXCEPT ![r] = "up"]
    /\ pos' = [pos EXCEPT ![r] = @ - 1]
    /\ UNCHANGED <<request, pool, values, ctx, recorded>>

----------------------------------------------------------------------------
(* Back up: what each middleware does after next(c) returned or panicked.   *)

\* Fault: the panic is caught and no error returned.
RecoveredSilently(r) == IF Here(r) = "recover" /\ ret[r] = "panic" THEN "nil" ELSE ret[r]

Recovered(r) == IF Here(r) = "recover" /\ ret[r] = "panic" THEN "http500" ELSE ret[r]

\* Fault: the error returned is not looked at.
MetricsWriterStatus(r) == IF code[r] = None THEN 200 ELSE code[r]

\* Metrics looks at the error's own type, and at its status writer otherwise.
MetricsStatus(r) ==
    IF ret[r] = "nil" THEN IF code[r] = None THEN 200 ELSE code[r]
    ELSE IF ret[r] = "wrapped409" THEN 500
    ELSE StatusOf(ret[r])

\* he.Status of a nil *HTTPError again.
MetricsPanics(r) == Here(r) = "metrics" /\ ret[r] = "httpNil"

\* A panic goes past Metrics, which has no defer.
Recording(r) == Here(r) = "metrics" /\ ret[r] \notin {"panic", "httpNil"}

Up(r) ==
    /\ pc[r] = "up"
    /\ pos[r] > 0
    /\ ret' = [ret EXCEPT ![r] = IF MetricsPanics(r) THEN "panic" ELSE Recovered(r)]
    /\ recorded' = IF Recording(r)
                   THEN [recorded EXCEPT ![r] = @ \cup {MetricsStatus(r)}]
                   ELSE recorded
    /\ pos' = [pos EXCEPT ![r] = @ - 1]
    /\ UNCHANGED <<request, pool, values, ctx, pc, sent, code, reached>>

Serve(r) ==
    \/ \E x \in Ctxs : Accept(r, x)
    \/ PassDown(r) \/ RequestID(r) \/ CORS(r) \/ Auth(r) \/ RequireRole(r)
    \/ Handle(r)
    \/ Up(r)
    \/ Finish(r) \/ Abort(r)

Idle == (\A r \in Requests : pc[r] = "done") /\ UNCHANGED vars

Next == (\E r \in Requests : Serve(r)) \/ Idle

Spec == Init /\ [][Next]_vars

----------------------------------------------------------------------------
(* Properties.                                                              *)

Serving(r) == pc[r] \in {"down", "up"}

\* A Ctx is in one pair of hands: two requests never share one, and none is in
\* the pool while a request still uses it.
CtxNotShared ==
    \A r \in Requests : Serving(r) =>
        /\ ctx[r] \notin pool
        /\ \A q \in Requests : Serving(q) /\ ctx[q] = ctx[r] => q = r

\* The handler behind RequireRole runs only for a request whose own token has
\* the role, even on a route where Auth was left out of the chain.
RoleGuardsHandler ==
    \A r \in reached : (\E i \in DOMAIN chain[r] : chain[r][i] = "role")
                          => bearer[r] = "admin"

\* Where Recover is in the chain every request is answered, unless its handler
\* wrote nothing and returned an *HTTPError that writeError cannot write: nil, or
\* with Status 0.  A handler that panics is answered with 500 if it had written
\* nothing, and keeps the status it had written otherwise.
RecoverAnswers ==
    \A r \in Requests :
        /\ pc[r] = "done"
        /\ routed[r] => \E i \in DOMAIN chain[r] : chain[r][i] = "recover"
        => LET h == handler[r] IN
           /\ \/ sent[r] # None
              \/ r \in reached /\ h.writes = <<>> /\ h.returns \in {"http0", "httpNil"}
           /\ r \in reached /\ h.returns = "panic"
                 => sent[r] = IF h.writes = <<>> THEN 500 ELSE h.writes[1]

\* The statuses a handler comes to: those it writes, and that of its error or panic.
StatusesOf(h) ==
    {h.writes[i] : i \in DOMAIN h.writes}
        \cup IF h.returns = "nil" THEN {} ELSE {StatusOf(h.returns)}

\* The status a request is counted under is the status that was sent, whatever the
\* chain.  Left out are the handlers for which the code counts another: one that
\* returns a wrapped *HTTPError (counted as 500) or one with Status 0, and one that
\* comes to several statuses: it writes two (the last is counted, the first was
\* sent), or fails or panics after it wrote a response.
CountedAsSent ==
    \A r \in Requests :
        /\ pc[r] = "done"
        /\ r \in reached => /\ handler[r].returns \notin {"wrapped409", "http0"}
                            /\ \A s, t \in StatusesOf(handler[r]) : s = t
        => recorded[r] \subseteq {sent[r]}

=============================================================================
