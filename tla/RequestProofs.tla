--------------------------- MODULE RequestProofs ---------------------------
(***************************************************************************)
(* A request: the route that find gives it, whatever patterns were         *)
(* registered; and its way through any middleware chain, beside any number *)
(* of other requests that take their Ctx from the same pool.               *)
(***************************************************************************)
EXTENDS HTTPPipeline, Router, FiniteSetTheorems, WellFoundedInduction, TLAPS


\* Where in the chain a request is: before it, on a layer, or above it.
Placed ==
    /\ pos \in [Requests -> Nat]
    /\ \A r \in Requests :
          /\ pc[r] = "down" => pos[r] \in 1..Len(chain[r]) + 1
          /\ pc[r] = "up" => pos[r] \in 0..Len(chain[r])

\* A request that is being served has a Ctx of the pool's.
CtxHeld == \A r \in Requests : Serving(r) => ctx[r] \in Ctxs

\* The principal in a request's Ctx is its own.
OwnPrincipal ==
    \A r \in Requests : Serving(r) => values[ctx[r]].principal \in {"none", bearer[r]}

\* Behind a RequireRole on the way down only an admin gets on.
RolePassed ==
    \A r \in Requests : pc[r] = "down" =>
        \A i \in 1..Len(chain[r]) : i < pos[r] /\ chain[r][i] = "role" => bearer[r] = "admin"

\* On the way down nothing was sent, counted or handled.
Unanswered(r) ==
    pc[r] \in {"new", "down"} =>
        sent[r] = None /\ code[r] = None /\ recorded[r] = {} /\ r \notin reached

\* Only a request of a known route is given to a chain.
OnRoute(r) == Serving(r) => routed[r]

\* The error that writeError or Metrics panics over is the handler's own.
OwnError(r) ==
    pc[r] = "up" /\ ret[r] \in {"http0", "httpNil"} =>
        r \in reached /\ handler[r].returns = ret[r]

\* A panic that no Recover has met is on its way up, unless Metrics panicked over
\* the nil *HTTPError of the handler.
PanicUncaught(r) ==
    pc[r] = "up" /\ ret[r] = "panic" =>
        \/ r \in reached /\ handler[r].returns = "httpNil"
        \/ \A i \in 1..Len(chain[r]) : i > pos[r] => chain[r][i] # "recover"

\* What a handler wrote first is what was sent, a panic or a 500 is what it
\* has become since if it panicked.
Written(r) ==
    r \in reached /\ handler[r].writes # <<>> => sent[r] = handler[r].writes[1]

PanicPending(r) ==
    pc[r] = "up" /\ r \in reached /\ handler[r].returns = "panic" =>
        /\ handler[r].writes = <<>> => sent[r] = None
        /\ ret[r] \in {"panic", "http500"}

\* The status that will go out, if ServeHTTP does not panic.
Outcome(r) ==
    IF sent[r] # None THEN sent[r]
    ELSE IF ret[r] = "nil" THEN 200 ELSE StatusOf(ret[r])

\* The handlers that CountedAsSent is about.
Simple(h) ==
    /\ h.returns \notin {"wrapped409", "http0"}
    /\ \A s, t \in StatusesOf(h) : s = t

\* What Metrics has counted on the way up is the status that will go out.
CountedSoFar(r) ==
    pc[r] = "up" /\ (r \in reached => Simple(handler[r])) =>
        /\ ret[r] \notin {"wrapped409", "http0"}
        /\ sent[r] = code[r]
        /\ sent[r] # None /\ ret[r] # "nil" => StatusOf(ret[r]) = sent[r]
        /\ ret[r] \in {"panic", "httpNil"} => recorded[r] = {}
        /\ recorded[r] \subseteq {Outcome(r)}

\* RecoverAnswers and CountedAsSent, of one request.
Recovers(r) ==
    pc[r] = "done" /\ (routed[r] => \E i \in DOMAIN chain[r] : chain[r][i] = "recover") =>
        LET h == handler[r] IN
        /\ \/ sent[r] # None
           \/ r \in reached /\ h.writes = <<>> /\ h.returns \in {"http0", "httpNil"}
        /\ r \in reached /\ h.returns = "panic"
              => sent[r] = IF h.writes = <<>> THEN 500 ELSE h.writes[1]

CountsAsSent(r) ==
    pc[r] = "done" /\ (r \in reached => Simple(handler[r])) => recorded[r] \subseteq {sent[r]}

AnsweredFor(r) ==
    /\ Unanswered(r) /\ OnRoute(r) /\ OwnError(r) /\ PanicUncaught(r) /\ Written(r)
    /\ PanicPending(r) /\ CountedSoFar(r) /\ Recovers(r) /\ CountsAsSent(r)

Typed == TypeOK /\ Placed /\ CtxHeld

Guarded == CtxNotShared /\ OwnPrincipal /\ RolePassed /\ RoleGuardsHandler

Answered == \A r \in Requests : AnsweredFor(r)

IInv == Typed /\ Guarded /\ Answered

----------------------------------------------------------------------------
(* Types.                                                                   *)

\* No request has come and the pool is full.
LEMMA TypedInit == Init => Typed
<1> SUFFICES ASSUME Init PROVE Typed
  OBVIOUS
<1> USE DEF Init
<1>1. \A r \in Requests : Len(chain[r]) \in Nat
  BY ChainsAssumption
<1>2. pos \in [Requests -> Nat] /\ \A r \in Requests : pos[r] = 0
  OBVIOUS
<1>3. /\ values \in [Ctxs -> [principal : {"none", "user", "admin"},
                              requestID : Requests \cup {None}]]
      /\ pc \in [Requests -> {"new", "down", "up", "done"}]
      /\ ret \in [Requests -> Results]
  BY DEF Empty, Results
<1>4. TypeOK
  BY <1>1, <1>2, <1>3 DEF TypeOK
<1>5. Placed
  BY <1>2 DEF Placed
<1>6. CtxHeld
  BY DEF CtxHeld, Serving
<1> QED BY <1>4, <1>5, <1>6 DEF Typed

\* What is written to one request's response, and that alone.
LEMMA WriteType ==
  ASSUME TypeOK, NEW r \in Requests, NEW ss \in Seq(Codes), Write(r, ss),
         ss # <<>> => sent[r] # None \/ ss[1] \in Statuses
  PROVE  /\ sent' \in [Requests -> Statuses \cup {None}]
         /\ code' \in [Requests -> Codes \cup {None}]
         /\ \A q \in Requests \ {r} : sent'[q] = sent[q] /\ code'[q] = code[q]
         /\ sent'[r] = IF ss = <<>> \/ sent[r] # None THEN sent[r] ELSE ss[1]
         /\ code'[r] = IF ss = <<>> THEN code[r] ELSE ss[Len(ss)]
         /\ ss # <<>> => sent'[r] # None
<1>1. ss # <<>> => Len(ss) \in 1..Len(ss) /\ 1 \in 1..Len(ss)
  OBVIOUS
<1>2. ss # <<>> => ss[Len(ss)] \in Codes /\ ss[1] \in Codes
  BY <1>1
<1> QED BY <1>1, <1>2, NoneIsNoStatus DEF Write, TypeOK, Codes

\* A response of one status.
LEMMA WriteOne ==
  ASSUME TypeOK, NEW r \in Requests, NEW status \in Codes, Write(r, <<status>>),
         sent[r] # None \/ status \in Statuses
  PROVE  /\ sent' \in [Requests -> Statuses \cup {None}]
         /\ code' \in [Requests -> Codes \cup {None}]
         /\ \A q \in Requests \ {r} : sent'[q] = sent[q] /\ code'[q] = code[q]
         /\ sent'[r] = IF sent[r] # None THEN sent[r] ELSE status
         /\ code'[r] = status
         /\ sent'[r] # None
<1> DEFINE ss == <<status>>
<1>1. ss \in Seq(Codes) /\ ss # <<>> /\ Len(ss) = 1 /\ ss[1] = status
  OBVIOUS
<1>2. Write(r, ss)
  OBVIOUS
<1> HIDE DEF ss
<1> QED BY <1>1, <1>2, WriteType

\* What a handler writes and returns.
LEMMA HandlerType ==
  ASSUME TypeOK, NEW r \in Requests
  PROVE  /\ handler[r].returns \in Results
         /\ handler[r].writes \in Seq(Codes)
         /\ handler[r].writes # <<>> =>
              /\ 1 \in DOMAIN handler[r].writes
              /\ Len(handler[r].writes) \in DOMAIN handler[r].writes
              /\ handler[r].writes[1] \in Statuses
<1>1. handler[r].writes \in Seq(Statuses) /\ handler[r].returns \in Results
  BY HandlersAssumption DEF TypeOK
<1>2. handler[r].writes \in Seq(Codes)
  BY <1>1 DEF Codes
<1> QED BY <1>1, <1>2

\* asHTTPError finds a status for every error; only that of http0 is none of HTTP's.
LEMMA StatusType ==
  \A e : StatusOf(e) \in Codes /\ (e # "http0" => StatusOf(e) \in Statuses)
  BY DEF StatusOf, Statuses, Codes

\* Where requests are and what their layers returned.
PositionOK ==
    /\ pc \in [Requests -> {"new", "down", "up", "done"}]
    /\ ret \in [Requests -> Results]
    /\ Placed
    /\ \A r \in Requests : pos[r] \in 0..Len(chain[r]) + 1

\* A chain has a length.
LEMMA ChainLength ==
  ASSUME TypeOK, NEW r \in Requests
  PROVE  Len(chain[r]) \in Nat
  BY ChainsAssumption DEF TypeOK

\* A request that stays in its chain keeps all requests in place.
LEMMA Moved ==
  ASSUME Typed, NEW r \in Requests, chain' = chain,
         NEW c \in {"down", "up", "done"}, pc' = [pc EXCEPT ![r] = c],
         NEW p \in 0..Len(chain[r]) + 1, pos' = [pos EXCEPT ![r] = p],
         NEW e \in Results, ret' = [ret EXCEPT ![r] = e],
         c = "down" => p # 0, c = "up" => p # Len(chain[r]) + 1
  PROVE  PositionOK'
<1> USE ChainLength DEF Typed, TypeOK, Placed
<1>1. p \in Nat
  OBVIOUS
<1>2. \A q \in Requests \ {r} : pc'[q] = pc[q] /\ pos'[q] = pos[q]
  OBVIOUS
<1>3. pos'[r] = p /\ pc'[r] = c
  OBVIOUS
<1>4. Placed'
  BY <1>1, <1>2, <1>3
<1>5. \A q \in Requests : pos'[q] \in 0..Len(chain'[q]) + 1
  BY <1>2, <1>3
<1>6. /\ pc' \in [Requests -> {"new", "down", "up", "done"}]
      /\ ret' \in [Requests -> Results]
  OBVIOUS
<1> QED BY <1>4, <1>5, <1>6 DEF PositionOK

\* A middleware passes the request on or sends it back.
LEMMA LayerMoves ==
  ASSUME Typed, NEW r \in Requests, NEW m, In(r, m), chain' = chain,
         Deeper(r) \/ \E e \in Results : Refuse(r, e)
  PROVE  PositionOK'
<1> USE ChainLength DEF Typed, In
<1>1. pos[r] \in 1..Len(chain[r])
  BY DEF TypeOK, Placed
<1>2. CASE Deeper(r)
  <2>1. pos[r] + 1 \in 0..Len(chain[r]) + 1 /\ pos[r] + 1 # 0
    BY <1>1
  <2>2. /\ pc' = [pc EXCEPT ![r] = "down"]
        /\ ret' = [ret EXCEPT ![r] = ret[r]] /\ ret[r] \in Results
    BY <1>2 DEF Deeper, TypeOK
  <2>3. pos' = [pos EXCEPT ![r] = pos[r] + 1]
    BY <1>2 DEF Deeper
  <2> QED BY <2>1, <2>2, <2>3, Moved
<1>3. ASSUME NEW e \in Results, Refuse(r, e) PROVE PositionOK'
  <2>1. pos[r] - 1 \in 0..Len(chain[r]) + 1 /\ pos[r] - 1 # Len(chain[r]) + 1
    BY <1>1
  <2>2. pos' = [pos EXCEPT ![r] = pos[r] - 1] /\ pc' = [pc EXCEPT ![r] = "up"]
    BY <1>3 DEF Refuse
  <2>3. ret' = [ret EXCEPT ![r] = e]
    BY <1>3 DEF Refuse
  <2> QED BY <2>1, <2>2, <2>3, Moved
<1> QED BY <1>2, <1>3

\* The parts of Typed that the steps are looked at for.
LEMMA TypedParts ==
  ASSUME Typed, PositionOK', UNCHANGED request, CtxHeld',
         pool' \subseteq Ctxs, reached' \subseteq Requests,
         values' \in [Ctxs -> [principal : {"none", "user", "admin"},
                              requestID : Requests \cup {None}]],
         ctx' \in [Requests -> Ctxs \cup {None}],
         sent' \in [Requests -> Statuses \cup {None}],
         code' \in [Requests -> Codes \cup {None}],
         recorded' \in [Requests -> SUBSET Codes]
  PROVE  Typed'
  BY DEF Typed, PositionOK, TypeOK, request

\* What Finish leaves as sent: what was sent before, or the status of the error, or
\* net/http's 200.
LEMMA FinishWrites ==
  ASSUME TypeOK, NEW r \in Requests, Finish(r)
  PROVE  /\ sent' \in [Requests -> Statuses \cup {None}]
         /\ code' \in [Requests -> Codes \cup {None}]
         /\ \A q \in Requests \ {r} : sent'[q] = sent[q] /\ code'[q] = code[q]
         /\ sent'[r] = IF sent[r] # None THEN sent[r]
                       ELSE IF ret[r] = "nil" THEN 200 ELSE StatusOf(ret[r])
         /\ sent'[r] # None
<1>1. CASE ret[r] # "nil"
  <2>1. Write(r, <<StatusOf(ret[r])>>)
    BY <1>1 DEF Finish
  <2>2. StatusOf(ret[r]) \in Codes /\ (sent[r] # None \/ StatusOf(ret[r]) \in Statuses)
    BY StatusType DEF Finish, WriteErrorPanics
  <2> QED BY <1>1, <2>1, <2>2, WriteOne
<1>2. CASE ret[r] = "nil" /\ sent[r] = None
  <2>1. Write(r, <<200>>) /\ 200 \in Codes /\ 200 \in Statuses
    BY <1>2 DEF Finish, Codes, Statuses
  <2> QED BY <1>2, <2>1, WriteOne
<1>3. CASE ret[r] = "nil" /\ sent[r] # None
  BY <1>3 DEF Finish, Write, TypeOK
<1> QED BY <1>1, <1>2, <1>3

\* Every step of a request keeps the types and the request in its chain.
LEMMA TypedServe ==
  ASSUME Typed, NEW r \in Requests, Serve(r)
  PROVE  Typed'
<1> USE DEF Typed
<1>0. Len(chain[r]) \in Nat /\ pos[r] \in 0..Len(chain[r]) + 1
  BY ChainLength DEF TypeOK
<1>c. ASSUME ctx' = ctx,
             \/ \E m : In(r, m) /\ (Deeper(r) \/ \E e \in Results : Refuse(r, e))
             \/ Serving(r) /\ \E c : pc' = [pc EXCEPT ![r] = c]
      PROVE  CtxHeld'
  BY <1>c DEF CtxHeld, Serving, In, Deeper, Refuse, TypeOK
<1>e. "nil" \in Results /\ "http401" \in Results /\ "http403" \in Results
  BY DEF Results, Errors
<1>1. ASSUME NEW x \in Ctxs, Accept(r, x) PROVE Typed'
  <2>1. /\ sent' \in [Requests -> Statuses \cup {None}]
        /\ code' \in [Requests -> Codes \cup {None}]
    BY <1>1, WriteOne DEF Accept, TypeOK, Statuses, Codes
  <2>2. values' \in [Ctxs -> [principal : {"none", "user", "admin"},
                              requestID : Requests \cup {None}]]
    BY <1>1 DEF Accept, Reset, Empty, TypeOK
  <2>3. ret' = [ret EXCEPT ![r] = ret[r]] /\ ret[r] \in Results
    BY <1>1 DEF Accept, TypeOK
  <2>4. PositionOK'
    <3>1. CASE routed[r]
      <4>1. pc' = [pc EXCEPT ![r] = "down"] /\ pos' = [pos EXCEPT ![r] = 1] /\ chain' = chain
        BY <1>1, <3>1 DEF Accept, request
      <4>2. 1 \in 0..Len(chain[r]) + 1 /\ 1 # 0
        BY <1>0
      <4> QED BY <2>3, <4>1, <4>2, Moved
    <3>2. CASE ~routed[r]
      <4>1. /\ pc' = [pc EXCEPT ![r] = "done"] /\ chain' = chain
            /\ pos' = [pos EXCEPT ![r] = pos[r]]
        BY <1>1, <3>2 DEF Accept, request, Placed
      <4> QED BY <1>0, <2>3, <4>1, Moved
    <3> QED BY <3>1, <3>2
  <2>5. CtxHeld'
    BY <1>1 DEF Accept, CtxHeld, Serving, TypeOK
  <2> QED BY TypedParts, <1>1, <2>1, <2>2, <2>4, <2>5 DEF Accept, TypeOK
<1>2. CASE PassDown(r)
  <2>1. PositionOK' /\ CtxHeld'
    BY <1>c, <1>2, LayerMoves DEF PassDown, request
  <2> QED BY TypedParts, <1>2, <2>1 DEF PassDown, TypeOK
<1>3. CASE RequestID(r)
  <2>1. PositionOK' /\ CtxHeld'
    BY <1>c, <1>3, LayerMoves DEF RequestID, request
  <2>2. values' \in [Ctxs -> [principal : {"none", "user", "admin"},
                              requestID : Requests \cup {None}]]
    BY <1>3 DEF RequestID, TypeOK
  <2> QED BY TypedParts, <1>3, <2>1, <2>2 DEF RequestID, TypeOK
<1>4. CASE CORS(r)
  <2>1. /\ sent' \in [Requests -> Statuses \cup {None}]
        /\ code' \in [Requests -> Codes \cup {None}]
    BY <1>4, WriteOne DEF CORS, TypeOK, Statuses, Codes
  <2>2. PositionOK' /\ CtxHeld'
    BY <1>c, <1>e, <1>4, LayerMoves DEF CORS, request
  <2> QED BY TypedParts, <1>4, <2>1, <2>2 DEF CORS, TypeOK
<1>5. CASE Auth(r)
  <2>1. PositionOK' /\ CtxHeld'
    BY <1>c, <1>e, <1>5, LayerMoves DEF Auth, request
  <2>2. values' \in [Ctxs -> [principal : {"none", "user", "admin"},
                              requestID : Requests \cup {None}]]
    <3>1. CASE bearer[r] \in {"user", "admin"}
      <4>1. values' = [values EXCEPT ![ctx[r]].principal = bearer[r]]
        BY <1>5, <3>1 DEF Auth
      <4>2. values \in [Ctxs -> [principal : {"none", "user", "admin"},
                                 requestID : Requests \cup {None}]]
        BY DEF TypeOK
      <4>3. ASSUME NEW x \in Ctxs
            PROVE  [values[x] EXCEPT !.principal = bearer[r]]
                     \in [principal : {"none", "user", "admin"}, requestID : Requests \cup {None}]
        BY <3>1, <4>2
      <4> QED BY <4>1, <4>2, <4>3
    <3>2. CASE bearer[r] \notin {"user", "admin"}
      BY <1>5, <3>2 DEF Auth, TypeOK
    <3> QED BY <3>1, <3>2
  <2> QED BY TypedParts, <1>5, <2>1, <2>2 DEF Auth, TypeOK
<1>6. CASE RequireRole(r)
  <2>1. PositionOK' /\ CtxHeld'
    BY <1>c, <1>e, <1>6, LayerMoves DEF RequireRole, request
  <2> QED BY TypedParts, <1>6, <2>1 DEF RequireRole, TypeOK
<1>7. CASE Handle(r)
  <2>1. /\ sent' \in [Requests -> Statuses \cup {None}]
        /\ code' \in [Requests -> Codes \cup {None}]
    BY <1>7, HandlerType, WriteType DEF Handle
  <2>2. handler[r].returns \in Results
    BY HandlerType
  <2>3. /\ pc' = [pc EXCEPT ![r] = "up"] /\ pos' = [pos EXCEPT ![r] = pos[r] - 1]
        /\ ret' = [ret EXCEPT ![r] = handler[r].returns]
        /\ pos[r] = Len(chain[r]) + 1 /\ chain' = chain
    BY <1>7 DEF Handle, request
  <2>4. pos[r] - 1 \in 0..Len(chain[r]) + 1 /\ pos[r] - 1 # Len(chain[r]) + 1
    BY <1>0, <2>3
  <2>5. PositionOK'
    BY <2>2, <2>3, <2>4, Moved
  <2>6. CtxHeld'
    BY <1>c, <1>7, <2>3 DEF Handle, Serving
  <2> QED BY TypedParts, <1>7, <2>1, <2>5, <2>6 DEF Handle, TypeOK
<1>8. CASE Up(r)
  <2>1. MetricsStatus(r) \in Codes
    BY StatusType DEF MetricsStatus, TypeOK, Statuses, Codes
  <2> DEFINE e == IF MetricsPanics(r) THEN "panic" ELSE Recovered(r)
  <2>2. e \in Results
    BY DEF Recovered, TypeOK, Results, Errors
  <2>3. recorded' \in [Requests -> SUBSET Codes]
    BY <1>8, <2>1 DEF Up, TypeOK
  <2>4. /\ pc' = [pc EXCEPT ![r] = "up"] /\ pos' = [pos EXCEPT ![r] = pos[r] - 1]
        /\ ret' = [ret EXCEPT ![r] = e] /\ pos[r] > 0 /\ chain' = chain
    BY <1>8 DEF Up, request, TypeOK
  <2> HIDE DEF e
  <2>5. pos[r] - 1 \in 0..Len(chain[r]) + 1 /\ pos[r] - 1 # Len(chain[r]) + 1
    BY <1>0, <2>4
  <2>6. PositionOK'
    BY <2>2, <2>4, <2>5, Moved
  <2>7. CtxHeld'
    BY <1>c, <1>8, <2>4 DEF Up, Serving
  <2> QED BY TypedParts, <1>8, <2>3, <2>6, <2>7 DEF Up, TypeOK
<1>9. CASE Finish(r) \/ Abort(r)
  <2>1. /\ sent' \in [Requests -> Statuses \cup {None}]
        /\ code' \in [Requests -> Codes \cup {None}]
    BY <1>9, FinishWrites, StatusType DEF Abort, TypeOK
  <2>2. /\ pc' = [pc EXCEPT ![r] = "done"] /\ pos' = [pos EXCEPT ![r] = pos[r]]
        /\ ret' = [ret EXCEPT ![r] = ret[r]] /\ ret[r] \in Results /\ chain' = chain
    BY <1>9 DEF Finish, Abort, request, TypeOK, Placed
  <2>3. PositionOK' /\ CtxHeld'
    BY <1>0, <1>c, <1>9, <2>2, Moved DEF Finish, Abort, Serving
  <2>4. pool' \subseteq Ctxs
    BY <1>9 DEF Finish, Abort, CtxHeld, Serving, TypeOK
  <2> QED BY TypedParts, <1>9, <2>1, <2>3, <2>4 DEF Finish, Abort, TypeOK
<1> QED
  BY <1>1, <1>2, <1>3, <1>4, <1>5, <1>6, <1>7, <1>8, <1>9 DEF Serve

\* The types hold throughout.
LEMMA TypedNext == Typed /\ [Next]_vars => Typed'
<1> SUFFICES ASSUME Typed, [Next]_vars PROVE Typed'
  OBVIOUS
<1>1. CASE UNCHANGED vars
  BY <1>1 DEF vars, request, Typed, TypeOK, Placed, CtxHeld, Serving
<1> QED BY <1>1, TypedServe DEF Next, Idle

\* Every variable of the pipeline keeps its type: the fixed request, the pool and
\* its Ctx values, the place in the chain and what the layers returned.
THEOREM TypeCorrect == Spec => []TypeOK
<1>1. Typed => TypeOK
  BY DEF Typed
<1> QED BY <1>1, TypedInit, TypedNext, PTL DEF Spec

----------------------------------------------------------------------------
(* The Ctx and the guards.                                                  *)

\* Nothing is served.
LEMMA GuardedInit == Init => Guarded
  BY DEF Init, Guarded, CtxNotShared, OwnPrincipal, RolePassed, RoleGuardsHandler, Serving

\* A request that takes a Ctx from the pool is its only user and finds it empty.
LEMMA GuardedAccept ==
  ASSUME Typed, Guarded, NEW r \in Requests, NEW x \in Ctxs, Accept(r, x)
  PROVE  Guarded'
<1> USE DEF Typed, TypeOK, Accept, request, Serving
<1>1. \A q \in Requests \ {r} : pc'[q] = pc[q] /\ ctx'[q] = ctx[q] /\ pos'[q] = pos[q]
  BY DEF Placed
<1>2. \A q \in Requests \ {r} : Serving(q) => ctx[q] # x
  BY DEF Guarded, CtxNotShared
<1>3. ctx'[r] = x
  OBVIOUS
<1>4. CtxNotShared'
  BY <1>1, <1>2, <1>3 DEF Guarded, CtxNotShared
<1>5. OwnPrincipal'
  BY <1>1, <1>2, <1>3 DEF Guarded, OwnPrincipal, CtxHeld, Reset, Empty
<1>6. RolePassed'
  <2>1. pc'[r] = "down" => pos'[r] = 1
    BY DEF Placed
  <2>2. \A i \in 1..Len(chain[r]) : ~(i < 1)
    BY ChainLength
  <2> QED BY <1>1, <2>1, <2>2 DEF Guarded, RolePassed
<1>7. RoleGuardsHandler'
  BY DEF Guarded, RoleGuardsHandler
<1> QED BY <1>4, <1>5, <1>6, <1>7 DEF Guarded

\* A layer, the handler and writeError change neither the owners of the Ctx values
\* nor the principal of another's; a request that comes down lower was let through.
LEMMA GuardedStep ==
  ASSUME Typed, Guarded, NEW r \in Requests, UNCHANGED request,
         pool' = pool \/ (pool' = pool \cup {ctx[r]} /\ ~Serving(r)'), ctx' = ctx,
         Serving(r),
         \A q \in Requests \ {r} : pc'[q] = pc[q] /\ pos'[q] = pos[q],
         \A x \in Ctxs \ {ctx[r]} : values'[x] = values[x],
         values'[ctx[r]].principal \in {values[ctx[r]].principal, bearer[r]},
         pc'[r] = "down" => /\ pc[r] = "down" /\ pos'[r] = pos[r] + 1
                            /\ chain[r][pos[r]] = "role" => bearer[r] = "admin",
         reached' = reached \/ (/\ reached' = reached \cup {r}
                                /\ pc[r] = "down" /\ pos[r] = Len(chain[r]) + 1)
  PROVE  Guarded'
<1> USE DEF Typed, TypeOK, Serving, request
<1>1. CtxNotShared'
  BY DEF Guarded, CtxNotShared, CtxHeld
<1>2. OwnPrincipal'
  BY DEF Guarded, OwnPrincipal, CtxHeld, CtxNotShared
<1>3. \A q \in Requests : pos[q] \in Nat
  BY DEF Placed
<1>4. RolePassed'
  <2> SUFFICES ASSUME NEW q \in Requests, pc'[q] = "down",
                      NEW i \in 1..Len(chain[q]), i < pos'[q], chain[q][i] = "role"
               PROVE  bearer[q] = "admin"
    BY DEF RolePassed
  <2>1. CASE q # r
    BY <2>1 DEF Guarded, RolePassed
  <2>2. CASE q = r
    <3>1. i < pos[r] \/ i = pos[r]
      BY <1>3, <2>2, ChainLength
    <3> QED BY <2>2, <3>1 DEF Guarded, RolePassed
  <2> QED BY <2>1, <2>2
<1>5. RoleGuardsHandler'
  <2>1. CASE reached' = reached
    BY <2>1 DEF Guarded, RoleGuardsHandler
  <2>2. CASE reached' = reached \cup {r} /\ pc[r] = "down" /\ pos[r] = Len(chain[r]) + 1
    <3>1. DOMAIN chain[r] = 1..Len(chain[r]) /\ Len(chain[r]) \in Nat
      BY ChainsAssumption
    <3>2. (\E i \in DOMAIN chain[r] : chain[r][i] = "role") => bearer[r] = "admin"
      <4>1. \A i \in DOMAIN chain[r] : i < pos[r]
        BY <2>2, <3>1
      <4> QED BY <2>2, <3>1, <4>1 DEF Guarded, RolePassed
    <3> QED BY <2>2, <3>2 DEF Guarded, RoleGuardsHandler
  <2> QED BY <2>1, <2>2
<1> QED BY <1>1, <1>2, <1>4, <1>5 DEF Guarded

\* Every step of a request keeps the Ctx values apart and the guards closed.
LEMMA GuardedServe ==
  ASSUME Typed, Guarded, NEW r \in Requests, Serve(r)
  PROVE  Guarded'
<1> USE DEF Typed, TypeOK, Placed
<1>0. \A m : In(r, m) => Serving(r) /\ pc[r] = "down"
  BY DEF In, Serving
<1>1. CASE PassDown(r)
  BY <1>0, <1>1, GuardedStep DEF PassDown, In, Here, Deeper
<1>2. CASE RequestID(r)
  <2>1. /\ \A x \in Ctxs \ {ctx[r]} : values'[x] = values[x]
        /\ values'[ctx[r]].principal = values[ctx[r]].principal
    BY <1>0, <1>2 DEF RequestID, CtxHeld
  <2> QED BY <1>0, <1>2, <2>1, GuardedStep DEF RequestID, In, Here, Deeper
<1>3. CASE CORS(r)
  BY <1>0, <1>3, GuardedStep DEF CORS, In, Here, Deeper, Refuse
<1>4. CASE Auth(r)
  <2>1. CASE bearer[r] \in {"user", "admin"}
    <3>1. values' = [values EXCEPT ![ctx[r]].principal = bearer[r]]
      BY <1>4, <2>1 DEF Auth
    <3>2. /\ \A x \in Ctxs \ {ctx[r]} : values'[x] = values[x]
          /\ values'[ctx[r]].principal = bearer[r]
      BY <1>0, <1>4, <3>1 DEF CtxHeld, Auth
    <3> QED BY <1>0, <1>4, <2>1, <3>2, GuardedStep DEF Auth, In, Here, Deeper
  <2>2. CASE bearer[r] \notin {"user", "admin"}
    BY <1>0, <1>4, <2>2, GuardedStep DEF Auth, In, Refuse
  <2> QED BY <2>1, <2>2
<1>5. CASE RequireRole(r)
  <2>1. FromCtx(ctx[r]) = "admin" => bearer[r] = "admin"
    BY <1>0, <1>5 DEF Guarded, OwnPrincipal, FromCtx, RequireRole
  <2> QED BY <1>0, <1>5, <2>1, GuardedStep DEF RequireRole, In, Here, Deeper, Refuse
<1>6. CASE Handle(r)
  BY <1>6, GuardedStep DEF Handle, Serving
<1>7. CASE Up(r)
  BY <1>7, GuardedStep DEF Up, Serving
<1>8. CASE Finish(r)
  BY <1>8, GuardedStep DEF Finish, Serving
<1>9. CASE Abort(r)
  BY <1>9, GuardedStep DEF Abort, Serving
<1> QED
  BY <1>1, <1>2, <1>3, <1>4, <1>5, <1>6, <1>7, <1>8, <1>9, GuardedAccept DEF Serve

----------------------------------------------------------------------------
(* The answers.                                                             *)

\* Nothing was sent and no request is under way.
LEMMA AnsweredInit == Init => Answered
  BY DEF Init, Answered, AnsweredFor, Unanswered, OnRoute, Serving, OwnError, PanicUncaught, Written,
         PanicPending, CountedSoFar, Recovers, CountsAsSent

\* The step of one request leaves the answers of the others alone.
LEMMA OthersAnswered ==
  ASSUME Answered, NEW r \in Requests, UNCHANGED request, AnsweredFor(r)',
         \A q \in Requests \ {r} :
            /\ pc'[q] = pc[q] /\ pos'[q] = pos[q] /\ ret'[q] = ret[q]
            /\ sent'[q] = sent[q] /\ code'[q] = code[q] /\ recorded'[q] = recorded[q]
            /\ q \in reached' <=> q \in reached
  PROVE  Answered'
<1> SUFFICES ASSUME NEW q \in Requests, q # r PROVE AnsweredFor(q)'
  BY DEF Answered
<1>1. AnsweredFor(q)
  BY DEF Answered
<1>2. (Unanswered(q) /\ OnRoute(q) /\ OwnError(q) /\ PanicUncaught(q) /\ Written(q))'
  BY <1>1 DEF AnsweredFor, Unanswered, OnRoute, Serving, OwnError, PanicUncaught, Written,
              request
<1>3. (PanicPending(q) /\ CountedSoFar(q))'
  BY <1>1 DEF AnsweredFor, PanicPending, CountedSoFar, Simple, Outcome, request
<1>4. (Recovers(q) /\ CountsAsSent(q))'
  BY <1>1 DEF AnsweredFor, Recovers, CountsAsSent, Simple, request
<1> QED BY <1>2, <1>3, <1>4 DEF AnsweredFor

\* A layer on the way down sends nothing but CORS's 204; a refusal has a status.
LEMMA LayerAnswers ==
  ASSUME Typed, Answered, NEW r \in Requests, NEW m, In(r, m), UNCHANGED request,
         UNCHANGED <<recorded, reached>>,
         \/ Deeper(r) /\ UNCHANGED <<sent, code>>
         \/ (Refuse(r, "http401") \/ Refuse(r, "http403")) /\ UNCHANGED <<sent, code>>
         \/ Refuse(r, "nil") /\ Write(r, << 204 >>)
  PROVE  Answered'
<1> USE DEF Typed, TypeOK, Placed, request, In
<1>1. sent[r] = None /\ code[r] = None /\ recorded[r] = {} /\ r \notin reached /\ routed[r]
  BY DEF Answered, AnsweredFor, Unanswered, OnRoute, Serving
<1>2. CASE Deeper(r) /\ UNCHANGED <<sent, code>>
  <2>1. pc'[r] = "down"
    BY <1>2 DEF Deeper
  <2>2. AnsweredFor(r)'
    BY <1>1, <1>2, <2>1 DEF AnsweredFor, Unanswered, OnRoute, Serving, OwnError, Written,
       PanicUncaught, PanicPending, CountedSoFar, Recovers, CountsAsSent
  <2> QED BY <1>2, <2>2, OthersAnswered DEF Deeper
<1>3. CASE (Refuse(r, "http401") \/ Refuse(r, "http403")) /\ UNCHANGED <<sent, code>>
  <2>1. pc'[r] = "up" /\ ret'[r] \in {"http401", "http403"}
    BY <1>3 DEF Refuse
  <2>2. AnsweredFor(r)'
    BY <1>1, <1>3, <2>1 DEF AnsweredFor, Unanswered, OnRoute, Serving, OwnError, Written,
       PanicUncaught, PanicPending, CountedSoFar, Outcome, Recovers, CountsAsSent
  <2> QED BY <1>3, <2>2, OthersAnswered DEF Refuse
<1>4. CASE Refuse(r, "nil") /\ Write(r, <<204>>)
  <2>1. pc'[r] = "up" /\ ret'[r] = "nil"
    BY <1>4 DEF Refuse
  <2>2. /\ sent'[r] = 204 /\ code'[r] = 204
        /\ \A q \in Requests \ {r} : sent'[q] = sent[q] /\ code'[q] = code[q]
    BY <1>1, <1>4, WriteOne DEF Statuses, Codes
  <2>3. AnsweredFor(r)'
    BY <1>1, <1>4, <2>1, <2>2 DEF AnsweredFor, Unanswered, OnRoute, Serving, OwnError, Written,
       PanicUncaught, PanicPending, CountedSoFar, Outcome, Recovers, CountsAsSent
  <2> QED BY <1>4, <2>2, <2>3, OthersAnswered DEF Refuse
<1> QED BY <1>2, <1>3, <1>4

\* An unknown route is answered with 404 and not counted; a known one begins.
LEMMA AcceptAnswers ==
  ASSUME Typed, Answered, NEW r \in Requests, NEW x \in Ctxs, Accept(r, x)
  PROVE  Answered'
<1> USE DEF Typed, TypeOK, Placed, request, Accept
<1>1. sent[r] = None /\ code[r] = None /\ recorded[r] = {} /\ r \notin reached
  BY DEF Answered, AnsweredFor, Unanswered
<1>2. CASE routed[r]
  <2>1. pc'[r] = "down" /\ UNCHANGED <<sent, code>>
    BY <1>2
  <2>2. AnsweredFor(r)'
    BY <1>1, <1>2, <2>1 DEF AnsweredFor, Unanswered, OnRoute, Serving, OwnError, Written,
       PanicUncaught, PanicPending, CountedSoFar, Recovers, CountsAsSent
  <2> QED BY <2>1, <2>2, OthersAnswered
<1>3. CASE ~routed[r]
  <2>1. pc'[r] = "done" /\ Write(r, <<404>>)
    BY <1>3
  <2>2. /\ sent'[r] # None
        /\ \A q \in Requests \ {r} : sent'[q] = sent[q] /\ code'[q] = code[q]
    BY <2>1, WriteOne DEF Statuses, Codes
  <2>3. AnsweredFor(r)'
    BY <1>1, <2>1, <2>2 DEF AnsweredFor, Unanswered, OnRoute, Serving, OwnError, Written,
       PanicUncaught, PanicPending, CountedSoFar, Recovers, CountsAsSent
  <2> QED BY <1>3, <2>2, <2>3, OthersAnswered
<1> QED BY <1>2, <1>3

\* The handler runs once, with nothing sent or counted before it.
LEMMA HandleAnswers ==
  ASSUME Typed, Answered, NEW r \in Requests, Handle(r)
  PROVE  Answered'
<1> DEFINE h == handler[r]
<1> USE DEF Typed, Placed, request, Handle
<1>1. sent[r] = None /\ code[r] = None /\ recorded[r] = {} /\ routed[r]
  BY DEF Answered, AnsweredFor, Unanswered, OnRoute, Serving
<1>2. /\ pc'[r] = "up" /\ ret'[r] = h.returns /\ pos'[r] = Len(chain[r])
      /\ recorded'[r] = {} /\ Len(chain[r]) \in Nat /\ r \in reached'
      /\ \A q \in Requests \ {r} : pc'[q] = pc[q] /\ pos'[q] = pos[q] /\ ret'[q] = ret[q]
  BY <1>1, ChainLength DEF TypeOK
<1>3. /\ \A q \in Requests \ {r} : sent'[q] = sent[q] /\ code'[q] = code[q]
      /\ sent'[r] = IF h.writes = <<>> THEN None ELSE h.writes[1]
      /\ code'[r] = IF h.writes = <<>> THEN None ELSE h.writes[Len(h.writes)]
  BY <1>1, HandlerType, WriteType
<1>4. Unanswered(r)' /\ OnRoute(r)' /\ OwnError(r)' /\ Written(r)' /\ PanicPending(r)'
  BY <1>1, <1>2, <1>3 DEF Unanswered, OnRoute, OwnError, Written, PanicPending, Serving
<1>5. PanicUncaught(r)'
  BY <1>2 DEF PanicUncaught
<1>6. CountedSoFar(r)'
  <2> SUFFICES ASSUME Simple(h)
               PROVE  /\ h.returns \notin {"wrapped409", "http0"}
                      /\ sent'[r] = code'[r]
                      /\ sent'[r] # None /\ h.returns # "nil" => StatusOf(h.returns) = sent'[r]
    BY <1>2 DEF CountedSoFar
  <2>1. h.writes # <<>> =>
          h.writes[1] \in StatusesOf(h) /\ h.writes[Len(h.writes)] \in StatusesOf(h)
    BY HandlerType DEF StatusesOf
  <2>2. h.returns # "nil" => StatusOf(h.returns) \in StatusesOf(h)
    BY DEF StatusesOf
  <2> QED BY <1>3, <2>1, <2>2 DEF Simple
<1>7. Recovers(r)' /\ CountsAsSent(r)'
  BY <1>2 DEF Recovers, CountsAsSent
<1>8. AnsweredFor(r)'
  BY <1>4, <1>5, <1>6, <1>7 DEF AnsweredFor
<1> QED BY <1>2, <1>3, <1>8, OthersAnswered

\* Recover turns a panic into a 500; Metrics counts the status to come.
LEMMA UpAnswers ==
  ASSUME Typed, Answered, NEW r \in Requests, Up(r)
  PROVE  Answered'
<1> USE DEF Typed, TypeOK, Placed, request, Up
<1>1. AnsweredFor(r)
  BY DEF Answered
<1>2. /\ pc'[r] = "up" /\ ret'[r] = IF MetricsPanics(r) THEN "panic" ELSE Recovered(r)
      /\ UNCHANGED <<sent, code, reached>>
      /\ pos[r] \in 1..Len(chain[r]) /\ pos'[r] = pos[r] - 1 /\ Len(chain[r]) \in Nat
  BY ChainLength
<1>3. Unanswered(r)' /\ OnRoute(r)' /\ OwnError(r)' /\ Written(r)'
  BY <1>1, <1>2 DEF AnsweredFor, Unanswered, OnRoute, Serving, OwnError, Written, Recovered
<1>4. PanicPending(r)'
  BY <1>1, <1>2 DEF AnsweredFor, PanicPending, Recovered, MetricsPanics
<1>5. PanicUncaught(r)'
  <2> SUFFICES ASSUME ret'[r] = "panic",
                      ~(r \in reached /\ handler[r].returns = "httpNil"),
                      NEW i \in 1..Len(chain[r]), i > pos[r] - 1
               PROVE  chain[r][i] # "recover"
    BY <1>2 DEF PanicUncaught
  <2>1. ret[r] # "httpNil"
    BY <1>1 DEF AnsweredFor, OwnError
  <2>2. ret[r] = "panic" /\ chain[r][pos[r]] # "recover"
    BY <1>2, <2>1 DEF MetricsPanics, Recovered, Here
  <2>3. i = pos[r] \/ i > pos[r]
    BY <1>2
  <2> QED BY <1>1, <2>2, <2>3 DEF AnsweredFor, PanicUncaught
<1>6. CountedSoFar(r)'
  <2> SUFFICES ASSUME r \in reached => Simple(handler[r]) PROVE CountedSoFar(r)'
    BY <1>2 DEF CountedSoFar, Simple
  <2>1. /\ ret[r] \notin {"wrapped409", "http0"}
        /\ sent[r] = code[r]
        /\ sent[r] # None /\ ret[r] # "nil" => StatusOf(ret[r]) = sent[r]
        /\ ret[r] \in {"panic", "httpNil"} => recorded[r] = {}
        /\ recorded[r] \subseteq {Outcome(r)}
    BY <1>1 DEF AnsweredFor, CountedSoFar
  <2>2. /\ ret'[r] \notin {"wrapped409", "http0"}
        /\ ret'[r] = "nil" <=> ret[r] = "nil"
        /\ StatusOf(ret'[r]) = StatusOf(ret[r])
        /\ ret'[r] \in {"panic", "httpNil"} => ret[r] \in {"panic", "httpNil"}
    <3>1. \/ ret'[r] = ret[r]
          \/ ret[r] = "panic" /\ ret'[r] = "http500"
          \/ ret[r] = "httpNil" /\ ret'[r] = "panic"
      BY <1>2 DEF Recovered, MetricsPanics
    <3>2. /\ StatusOf("panic") = 500 /\ StatusOf("http500") = 500
          /\ StatusOf("httpNil") = 500
      BY DEF StatusOf
    <3> QED BY <2>1, <3>1, <3>2
  <2>3. Outcome(r)' = Outcome(r)
    BY <1>2, <2>2 DEF Outcome
  <2>4. Recording(r) => MetricsStatus(r) = Outcome(r) /\ ret[r] \notin {"panic", "httpNil"}
    BY <2>1 DEF MetricsStatus, Outcome, Recording
  <2>5. recorded'[r] \subseteq {Outcome(r)}
    BY <2>1, <2>4
  <2>6. ret'[r] \in {"panic", "httpNil"} => recorded'[r] = {}
    BY <2>1, <2>2, <2>4
  <2> QED BY <1>2, <2>1, <2>2, <2>3, <2>5, <2>6 DEF CountedSoFar
<1>7. Recovers(r)' /\ CountsAsSent(r)'
  BY <1>2 DEF Recovers, CountsAsSent
<1>8. AnsweredFor(r)'
  BY <1>3, <1>4, <1>5, <1>6, <1>7 DEF AnsweredFor
<1> QED BY <1>8, OthersAnswered

\* writeError sends the status of the error, unless a response went out before.
LEMMA FinishAnswers ==
  ASSUME Typed, Answered, NEW r \in Requests, Finish(r)
  PROVE  Answered'
<1> USE DEF Typed, TypeOK, Placed, request
<1>1. AnsweredFor(r)
  BY DEF Answered
<1>2. /\ \A q \in Requests \ {r} : sent'[q] = sent[q] /\ code'[q] = code[q]
      /\ sent'[r] = Outcome(r) /\ sent'[r] # None
  BY FinishWrites DEF Outcome
<1>3. /\ pc[r] = "up" /\ pc'[r] = "done" /\ ret[r] # "panic"
      /\ UNCHANGED <<request, pos, ret, recorded, reached>>
      /\ \A q \in Requests \ {r} : pc'[q] = pc[q]
  BY DEF Finish
<1>4. /\ Unanswered(r)' /\ OnRoute(r)' /\ OwnError(r)'
      /\ PanicUncaught(r)' /\ PanicPending(r)' /\ CountedSoFar(r)'
  BY <1>3 DEF Unanswered, OnRoute, Serving, OwnError, PanicUncaught, PanicPending, CountedSoFar
<1>5. Written(r)'
  <2>1. r \in reached /\ handler[r].writes # <<>> => sent[r] # None
    BY <1>1, HandlerType, NoneIsNoStatus DEF AnsweredFor, Written, Codes
  <2> QED BY <1>1, <1>2, <1>3, <2>1 DEF AnsweredFor, Written, Outcome
<1>6. Recovers(r)'
  <2> SUFFICES ASSUME r \in reached, handler[r].returns = "panic", handler[r].writes = <<>>
               PROVE  sent'[r] = 500
    BY <1>2, <1>3, <1>5 DEF Recovers, Written
  <2>1. sent[r] = None /\ ret[r] = "http500"
    BY <1>1, <1>3 DEF AnsweredFor, PanicPending
  <2> QED BY <1>2, <2>1 DEF Outcome, StatusOf
<1>7. CountsAsSent(r)'
  BY <1>1, <1>2, <1>3 DEF AnsweredFor, CountedSoFar, Simple, StatusesOf, CountsAsSent
<1>8. AnsweredFor(r)'
  BY <1>4, <1>5, <1>6, <1>7 DEF AnsweredFor
<1> QED BY <1>2, <1>3, <1>8, OthersAnswered

\* A panic leaves ServeHTTP where no Recover was in the chain, or for an error of
\* the handler's that cannot be written.
LEMMA AbortAnswers ==
  ASSUME Typed, Answered, NEW r \in Requests, Abort(r)
  PROVE  Answered'
<1> USE DEF Typed, TypeOK, Placed, request
<1>1. AnsweredFor(r)
  BY DEF Answered
<1>2. /\ pc[r] = "up" /\ pos[r] = 0 /\ pc'[r] = "done"
      /\ UNCHANGED <<request, pos, ret, sent, code, recorded, reached>>
      /\ \A q \in Requests \ {r} : pc'[q] = pc[q]
  BY DEF Abort
<1>3. /\ ret[r] \in {"panic", "http0", "httpNil"}
      /\ ret[r] = "http0" => sent[r] = None
  BY DEF Abort, WriteErrorPanics
<1>4. routed[r]
  BY <1>1, <1>2 DEF AnsweredFor, OnRoute, Serving
<1>5. ASSUME \E i \in DOMAIN chain[r] : chain[r][i] = "recover"
      PROVE  r \in reached /\ handler[r].returns \in {"http0", "httpNil"}
  <2>1. DOMAIN chain[r] = 1..Len(chain[r]) /\ Len(chain[r]) \in Nat
    BY ChainsAssumption
  <2>2. CASE ret[r] = "panic"
    <3>1. \E i \in 1..Len(chain[r]) : i > pos[r] /\ chain[r][i] = "recover"
      BY <1>2, <1>5, <2>1
    <3> QED BY <1>1, <1>2, <2>2, <3>1 DEF AnsweredFor, PanicUncaught
  <2>3. CASE ret[r] # "panic"
    BY <1>1, <1>2, <1>3, <2>3 DEF AnsweredFor, OwnError
  <2> QED BY <2>2, <2>3
<1>6. /\ Unanswered(r)' /\ OnRoute(r)' /\ OwnError(r)' /\ Written(r)'
      /\ PanicUncaught(r)' /\ PanicPending(r)' /\ CountedSoFar(r)'
  BY <1>1, <1>2 DEF AnsweredFor, Unanswered, OnRoute, Serving, OwnError, Written, PanicUncaught,
     PanicPending, CountedSoFar
<1>7. Recovers(r)'
  <2>1. r \in reached /\ handler[r].writes # <<>> => sent[r] # None
    BY <1>1, HandlerType, NoneIsNoStatus DEF AnsweredFor, Written, Codes
  <2> QED BY <1>2, <1>4, <1>5, <2>1 DEF Recovers
<1>8. CountsAsSent(r)'
  <2> SUFFICES ASSUME r \in reached => Simple(handler[r]) PROVE recorded[r] = {}
    BY <1>2 DEF CountsAsSent, Simple, StatusesOf
  <2> QED BY <1>1, <1>2, <1>3 DEF AnsweredFor, CountedSoFar
<1>9. AnsweredFor(r)'
  BY <1>6, <1>7, <1>8 DEF AnsweredFor
<1> QED BY <1>2, <1>9, OthersAnswered

\* Every step of a request keeps the answers right.
LEMMA AnsweredServe ==
  ASSUME Typed, Answered, NEW r \in Requests, Serve(r)
  PROVE  Answered'
<1>1. CASE PassDown(r)
  BY <1>1, LayerAnswers DEF PassDown
<1>2. CASE RequestID(r)
  BY <1>2, LayerAnswers DEF RequestID
<1>3. CASE CORS(r)
  BY <1>3, LayerAnswers DEF CORS
<1>4. CASE Auth(r)
  BY <1>4, LayerAnswers DEF Auth
<1>5. CASE RequireRole(r)
  BY <1>5, LayerAnswers DEF RequireRole
<1> QED
  BY <1>1, <1>2, <1>3, <1>4, <1>5, AcceptAnswers, HandleAnswers, UpAnswers,
     FinishAnswers, AbortAnswers DEF Serve

----------------------------------------------------------------------------
(* The theorems.                                                            *)

\* The invariant is inductive.
LEMMA Inductive == IInv /\ [Next]_vars => IInv'
<1> SUFFICES ASSUME IInv, [Next]_vars PROVE IInv'
  OBVIOUS
<1>1. Typed'
  BY TypedNext DEF IInv
<1>2. CASE UNCHANGED vars
  <2>1. Guarded'
    BY <1>2 DEF vars, request, IInv, Guarded, CtxNotShared, OwnPrincipal, RolePassed,
                RoleGuardsHandler, Serving
  <2>2. Answered'
    BY <1>2 DEF vars, request, IInv, Answered, AnsweredFor, Unanswered, OnRoute, Serving,
       OwnError, Written, PanicUncaught, PanicPending, CountedSoFar, Simple,
       Outcome, Recovers, CountsAsSent
  <2> QED BY <1>1, <2>1, <2>2 DEF IInv
<1> QED BY <1>1, <1>2, GuardedServe, AnsweredServe DEF IInv, Next, Idle

\* The inductive invariant of the pipeline: every Ctx has one user whose principal
\* it holds, RequireRole lets admins through alone, and what is on its way up is
\* the answer that will go out.
THEOREM Invariance == Spec => []IInv
<1>1. Init => IInv
  BY TypedInit, GuardedInit, AnsweredInit DEF IInv
<1> QED BY <1>1, Inductive, PTL DEF Spec

\* No two requests share a Ctx and none is in the pool while in use, for any
\* number of requests and any chains: reset cannot clear the values of another.
THEOREM CtxApart == Spec => []CtxNotShared
<1>1. IInv => CtxNotShared
  BY DEF IInv, Guarded
<1> QED BY <1>1, Invariance, PTL

\* The handler behind RequireRole runs only for an admin's own token, in every
\* chain that has RequireRole anywhere, with or without Auth in front of it.
THEOREM RoleGuarded == Spec => []RoleGuardsHandler
<1>1. IInv => RoleGuardsHandler
  BY DEF IInv, Guarded
<1> QED BY <1>1, Invariance, PTL

\* With Recover anywhere in the chain every request is answered, a panic with 500 or
\* with what the handler had written, unless its error is one writeError panics over.
THEOREM PanicsAnswered == Spec => []RecoverAnswers
<1>1. IInv => RecoverAnswers
  BY DEF IInv, Answered, AnsweredFor, Recovers, RecoverAnswers
<1> QED BY <1>1, Invariance, PTL

\* Metrics counts the status that is sent, wherever in the chain it sits, for
\* handlers that come to one status and return no wrapped *HTTPError and none with
\* Status 0, in every chain and for handlers of any writes.
THEOREM CountedRight == Spec => []CountedAsSent
<1>1. IInv => CountedAsSent
  BY DEF IInv, Answered, AnsweredFor, CountsAsSent, Simple, CountedAsSent
<1> QED BY <1>1, Invariance, PTL

----------------------------------------------------------------------------
(* The route of a request: what holds of the tree and of a walk in it.      *)

\* The first k edges of a node, or parts of a sequence.
Upto(n, k) == [h \in 1..k |-> n[h]]

\* At part k the walk took the text if a node had it, then the parameter, then
\* the wildcard.
Preferred(path, n, k) ==
    \/ n[k] = <<"static", path[k]>>
    \/ /\ Append(Upto(n, k - 1), <<"static", path[k]>>) \notin nodes
       /\ \/ n[k] = <<"param">>
          \/ n[k] = <<"wildcard">> /\ Append(Upto(n, k - 1), <<"param">>) \notin nodes

\* Where the walk stands after i parts, unless it is lost.
Trail(path, s, i) ==
    /\ s.node \in nodes
    /\ Len(s.node) \in 0..i
    /\ s.node = Upto(s.node, Len(s.node))
    /\ s.state = "walking" => Len(s.node) = i
    /\ s.state = "broke" => Len(s.node) > 0
    /\ \A k \in 1..Len(s.node) :
         /\ Preferred(path, s.node, k)
         /\ s.node[k] = <<"wildcard">> <=> (s.state = "broke" /\ k = Len(s.node))

\* The parts it has captured are those at the edges that are not texts.
CaughtAt(n) == {k \in 1..Len(n) : n[k][1] # "static"}

CaughtValue(path, n, k) ==
    IF n[k] = <<"wildcard">> THEN SubSeq(path, k, Len(path)) ELSE <<path[k]>>

Captured(path, s) ==
    LET caught == CaughtAt(s.node) IN
    /\ Len(s.params) = Cardinality(caught)
    /\ s.params = Upto(s.params, Len(s.params))
    /\ \A k \in caught :
         s.params[Cardinality({h \in caught : h <= k})][2] = CaughtValue(path, s.node, k)

OnItsWay(path, s, i) ==
    /\ s = [node |-> s.node, params |-> s.params, state |-> s.state]
    /\ s.state \in {"walking", "broke", "lost"}
    /\ s.state # "lost" => Trail(path, s, i) /\ Captured(path, s)

WalksOK == \A path \in Paths : \A i \in 0..Len(path) : OnItsWay(path, Steps(path)[i], i)

AddedOK ==
    /\ added \in Seq(Patterns)
    /\ panicked \in BOOLEAN
    /\ \A q \in Registered : BadWildcards(q) = {}

\* A tree: every node but the root has a parent.
Tree(ns) ==
    /\ Root \in ns
    /\ \A n \in ns : /\ Len(n) \in Nat /\ n = Upto(n, Len(n))
                     /\ n # Root => Len(n) > 0 /\ Upto(n, Len(n) - 1) \in ns

\* Its nodes are those on the way of the patterns registered, and of the one
\* that add panicked at.
NodesOK ==
    /\ Tree(nodes)
    /\ \A q \in Registered : \A i \in 0..Len(q) : NodeAt(q, i) \in nodes
    /\ ~panicked =>
         \A n \in nodes : \/ n = Root
                         \/ \E q \in Registered : \E i \in 1..Len(q) : n = NodeAt(q, i)

\* The routes are at the ends of the patterns registered.
RoutesOK ==
    /\ \A q \in Registered : NodeAt(q, Len(q)) \in DOMAIN route
    /\ \A n \in DOMAIN route : route[n] \in Registered /\ n = NodeAt(route[n], Len(route[n]))

\* The nodes with a child of a kind are those with its name.
NamesFor(ns, names, kind) ==
    /\ DOMAIN names \subseteq ns
    /\ \A n \in ns : Append(n, <<kind>>) \in ns <=> n \in DOMAIN names

NamesOK == NamesFor(nodes, paramName, "param") /\ NamesFor(nodes, wildcardName, "wildcard")

TreeOK == AddedOK /\ NodesOK /\ RoutesOK /\ NamesOK
----------------------------------------------------------------------------
(* Sequences and least numbers.                                             *)

LEMMA LeastNumber ==
  ASSUME NEW T, T \subseteq Nat, T # {}
  PROVE  \E x \in T : \A y \in T : x <= y
<1>1. PICK R : R = OpToRel(<, Nat)
  OBVIOUS
<1>2. IsWellFoundedOn(R, Nat)
  BY <1>1, NatLessThanWellFounded
<1>3. PICK x \in T : \A y \in T : ~(<<y, x>> \in R)
  BY <1>2, WFMin
<1>4. x \in Nat /\ \A y \in T : y \in Nat /\ (<<y, x>> \in R <=> y < x)
  BY <1>1 DEF OpToRel
<1>5. ASSUME NEW y \in T PROVE x <= y
  <2>1. x \in Nat /\ y \in Nat /\ ~(y < x)
    BY <1>3, <1>4
  <2> QED BY <2>1
<1> QED BY <1>5

\* What is longer than a sequence by one element.
LEMMA Appended ==
  ASSUME NEW s, NEW e, Len(s) \in Nat, s = Upto(s, Len(s))
  PROVE  /\ Len(Append(s, e)) = Len(s) + 1
         /\ Append(s, e) = Upto(Append(s, e), Len(s) + 1)
         /\ Append(s, e)[Len(s) + 1] = e
         /\ \A k \in 1..Len(s) : Append(s, e)[k] = s[k]
<1> DEFINE S == {s[k] : k \in 1..Len(s)} \cup {e}
<1>1. s \in [1..Len(s) -> S]
  BY DEF Upto
<1>2. s \in Seq(S) /\ e \in S
  BY <1>1
<1> HIDE DEF S
<1>3. Append(s, e) \in Seq(S) /\ Len(Append(s, e)) = Len(s) + 1
  BY <1>2
<1>4. \A k \in 1..Len(s) : Append(s, e)[k] = s[k]
  BY <1>2
<1>5. Append(s, e)[Len(s) + 1] = e
  BY <1>2
<1>6. \A t \in Seq(S) : t \in [1..Len(t) -> S]
  OBVIOUS
<1>7. Append(s, e) = Upto(Append(s, e), Len(s) + 1)
  BY <1>3, <1>6, Zenon DEF Upto
<1> QED BY <1>3, <1>4, <1>5, <1>7

LEMMA Segments ==
  ASSUME NEW p \in Patterns
  PROVE  /\ Len(p) \in Nat /\ DOMAIN p = 1..Len(p)
         /\ \A k \in 1..Len(p) : p[k].kind \in Kinds
<1>1. p \in Seq({Seg(kind, value) : kind \in Kinds, value \in SegmentValues})
  BY PatternsAssumption
<1>2. ASSUME NEW k \in 1..Len(p) PROVE p[k].kind \in Kinds
  <2>1. p[k] \in {Seg(kind, value) : kind \in Kinds, value \in SegmentValues}
    BY <1>1
  <2> QED BY <2>1 DEF Seg
<1> QED BY <1>1, <1>2

\* The edge of a segment tells its kind, and its text.
LEMMA EdgeKind ==
  ASSUME NEW seg, seg.kind \in Kinds
  PROVE  /\ Edge(seg)[1] = seg.kind
         /\ Edge(seg) = <<"param">> <=> seg.kind = "param"
         /\ Edge(seg) = <<"wildcard">> <=> seg.kind = "wildcard"
         /\ \A text : Edge(seg) = <<"static", text>> <=> seg.kind = "static" /\ seg.value = text
<1>1. CASE seg.kind = "static"
  BY <1>1 DEF Edge
<1>2. CASE seg.kind = "param"
  BY <1>2 DEF Edge
<1>3. CASE seg.kind = "wildcard"
  BY <1>3 DEF Edge
<1> QED BY <1>1, <1>2, <1>3 DEF Kinds

\* The nodes on the way of a pattern, one edge after the other.
LEMMA Nodes ==
  ASSUME NEW p \in Patterns, NEW i \in 0..Len(p)
  PROVE  /\ Len(NodeAt(p, i)) = i
         /\ NodeAt(p, i) = Upto(NodeAt(p, i), i)
         /\ \A k \in 1..i : NodeAt(p, i)[k] = Edge(p[k])
         /\ i > 0 => NodeAt(p, i) = Append(NodeAt(p, i - 1), Edge(p[i]))
<1>1. Len(p) \in Nat
  BY Segments
<1>2. \A j \in 0..Len(p) : /\ Len(NodeAt(p, j)) = j
                           /\ NodeAt(p, j) = Upto(NodeAt(p, j), j)
                           /\ \A k \in 1..j : NodeAt(p, j)[k] = Edge(p[k])
  BY <1>1 DEF NodeAt, Upto
<1>3. ASSUME i > 0 PROVE NodeAt(p, i) = Append(NodeAt(p, i - 1), Edge(p[i]))
  <2> DEFINE m == NodeAt(p, i - 1)
             n == Append(m, Edge(p[i]))
  <2>1. i - 1 \in 0..Len(p) /\ i - 1 \in Nat /\ (i - 1) + 1 = i
    BY <1>1, <1>3
  <2>2. Len(m) = i - 1 /\ m = Upto(m, Len(m)) /\ \A k \in 1..i - 1 : m[k] = Edge(p[k])
    BY <1>2, <2>1
  <2>3. /\ n = Upto(n, i)
        /\ n[i] = Edge(p[i])
        /\ \A k \in 1..i - 1 : n[k] = Edge(p[k])
    <3> HIDE DEF m
    <3> QED BY <2>1, <2>2, Appended
  <2> HIDE DEF n
  <2>4. \A k \in 1..i : n[k] = Edge(p[k])
    BY <2>3, <1>1
  <2>5. n = NodeAt(p, i)
    BY <2>3, <2>4 DEF NodeAt, Upto
  <2> QED BY <2>5 DEF n, m
<1> QED BY <1>2, <1>3

----------------------------------------------------------------------------
(* The walk of find.                                                        *)

LEMMA PathSeq ==
  ASSUME NEW path \in Paths
  PROVE  Len(path) \in Nat /\ DOMAIN path = 1..Len(path) /\ path \in Seq(Parts)
<1>1. PICK n \in 0..MaxPathLen : path \in [1..n -> Parts]
  BY DEF Paths
<1>2. n \in Nat
  BY MaxPathLenAssumption
<1>3. path \in Seq(Parts)
  BY <1>1, <1>2
<1> QED BY <1>3

\* There is a walk of any length: the shortest one that there is not could be
\* had from the one before it.
LEMMA StepsUnfold ==
  ASSUME NEW path \in Paths
  PROVE  Steps(path) =
           [i \in 0..Len(path) |->
              IF i = 0 THEN [node |-> Root, params |-> <<>>, state |-> "walking"]
              ELSE Step(path, Steps(path)[i - 1], i)]
<1> DEFINE Start == [node |-> Root, params |-> <<>>, state |-> "walking"]
           IsWalk(w, n) == w = [i \in 0..n |-> IF i = 0 THEN Start ELSE Step(path, w[i - 1], i)]
           Missing == {n \in 0..Len(path) : ~\E w : IsWalk(w, n)}
<1>1. Len(path) \in Nat
  BY PathSeq
<1>2. Missing = {}
  <2>1. SUFFICES ASSUME Missing # {} PROVE FALSE
    OBVIOUS
  <2>2. Missing \subseteq Nat
    BY <1>1
  <2>3. PICK m \in Missing : \A y \in Missing : m <= y
    BY <2>1, <2>2, LeastNumber
  <2>4. m \in 0..Len(path) /\ ~\E w : IsWalk(w, m)
    BY <2>3
  <2>5. CASE m = 0
    <3>1. IsWalk([i \in 0..0 |-> Start], 0)
      OBVIOUS
    <3> QED BY <2>4, <2>5, <3>1
  <2>6. CASE m > 0
    <3>1. m - 1 \in 0..Len(path) /\ m - 1 \notin Missing
      <4> HIDE DEF Missing
      <4>1. m \in Nat /\ m - 1 \in 0..Len(path) /\ ~(m <= m - 1)
        BY <1>1, <2>4, <2>6
      <4> QED BY <2>3, <4>1
    <3>2. PICK w : IsWalk(w, m - 1)
      BY <3>1
    <3> DEFINE v == [i \in 0..m |-> IF i = m THEN Step(path, w[m - 1], m) ELSE w[i]]
    <3>3. ASSUME NEW i \in 0..m PROVE v[i] = IF i = 0 THEN Start ELSE Step(path, v[i - 1], i)
      <4>1. CASE i = m
        <5>1. i - 1 \in 0..m /\ i - 1 # m /\ i # 0
          BY <1>1, <2>4, <2>6, <4>1
        <5>2. v[i - 1] = w[m - 1]
          BY <4>1, <5>1
        <5> QED BY <4>1, <5>1, <5>2
      <4>2. CASE i # m
        <5>1. i \in 0..m - 1 /\ (i # 0 => i - 1 \in 0..m /\ i - 1 # m)
          BY <1>1, <2>4, <4>2
        <5>2. v[i] = w[i] /\ (i # 0 => v[i - 1] = w[i - 1])
          BY <4>2, <5>1
        <5>3. w[i] = IF i = 0 THEN Start ELSE Step(path, w[i - 1], i)
          BY <3>2, <5>1
        <5> QED BY <5>2, <5>3
      <4> QED BY <4>1, <4>2
    <3>4. IsWalk(v, m)
      BY <3>3
    <3> QED BY <2>4, <3>4
  <2> QED BY <1>1, <2>4, <2>5, <2>6
<1>3. \E w : IsWalk(w, Len(path))
  BY <1>1, <1>2
<1>4. Steps(path) = CHOOSE w : IsWalk(w, Len(path))
  BY DEF Steps
<1>5. IsWalk(Steps(path), Len(path))
  BY <1>3, <1>4
<1> QED BY <1>5

\* The four ways a turn of the loop can end.
LEMMA StepMoves ==
  ASSUME NEW path \in Paths, NEW i \in 1..Len(path), NEW s,
         s = [node |-> s.node, params |-> s.params, state |-> s.state],
         s.state = "walking"
  PROVE  \/ /\ Append(s.node, <<"static", path[i]>>) \in nodes
            /\ Step(path, s, i) = [node |-> Append(s.node, <<"static", path[i]>>),
                                   params |-> s.params, state |-> "walking"]
         \/ /\ Append(s.node, <<"static", path[i]>>) \notin nodes
            /\ Append(s.node, <<"param">>) \in nodes
            /\ Step(path, s, i) =
                 [node |-> Append(s.node, <<"param">>),
                  params |-> Append(s.params, <<paramName[s.node], <<path[i]>>>>),
                  state |-> "walking"]
         \/ /\ Append(s.node, <<"static", path[i]>>) \notin nodes
            /\ Append(s.node, <<"param">>) \notin nodes
            /\ Append(s.node, <<"wildcard">>) \in nodes
            /\ Step(path, s, i) =
                 [node |-> Append(s.node, <<"wildcard">>),
                  params |-> Append(s.params,
                               <<wildcardName[s.node], SubSeq(path, i, Len(path))>>),
                  state |-> "broke"]
         \/ /\ Append(s.node, <<"static", path[i]>>) \notin nodes
            /\ Append(s.node, <<"param">>) \notin nodes
            /\ Append(s.node, <<"wildcard">>) \notin nodes
            /\ Step(path, s, i) = [node |-> s.node, params |-> s.params, state |-> "lost"]
<1> DEFINE static == Append(s.node, <<"static", path[i]>>)
           param  == Append(s.node, <<"param">>)
           wild   == Append(s.node, <<"wildcard">>)
<1> HIDE DEF static, param, wild
<1>1. /\ \A n : [s EXCEPT !.node = n] = [node |-> n, params |-> s.params, state |-> "walking"]
      /\ \A n, v : [s EXCEPT !.node = n, !.params = Append(@, v)] =
                     [node |-> n, params |-> Append(s.params, v), state |-> "walking"]
      /\ [s EXCEPT !.state = "lost"] = [node |-> s.node, params |-> s.params, state |-> "lost"]
  <2>1. PICK r : r = s
    OBVIOUS
  <2>2. PICK m, c : r = [node |-> m, params |-> c, state |-> "walking"]
    BY <2>1
  <2>3. \A n : [r EXCEPT !.node = n] = [node |-> n, params |-> c, state |-> "walking"]
    BY <2>2
  <2>4. \A n, d : [r EXCEPT !.node = n, !.params = d] =
                    [node |-> n, params |-> d, state |-> "walking"]
    <3> TAKE n, d
    <3>1. [r EXCEPT !.node = n, !.params = d] = [[r EXCEPT !.node = n] EXCEPT !.params = d]
      OBVIOUS
    <3>2. [[node |-> n, params |-> c, state |-> "walking"] EXCEPT !.params = d] =
            [node |-> n, params |-> d, state |-> "walking"]
      OBVIOUS
    <3> QED BY <2>3, <3>1, <3>2
  <2>5. [r EXCEPT !.state = "lost"] = [node |-> m, params |-> c, state |-> "lost"]
    BY <2>2
  <2>6. s.node = m /\ s.params = c
    BY <2>1, <2>2
  <2> QED BY <2>1, <2>3, <2>4, <2>5, <2>6
<1>2. Step(path, s, i) =
        IF static \in nodes THEN [s EXCEPT !.node = static]
        ELSE IF param \in nodes
             THEN [s EXCEPT !.node = param,
                            !.params = Append(@, <<paramName[s.node], <<path[i]>>>>)]
        ELSE IF wild \in nodes
             THEN [node |-> wild, state |-> "broke",
                   params |-> Append(s.params,
                                <<wildcardName[s.node], SubSeq(path, i, Len(path))>>)]
        ELSE [s EXCEPT !.state = "lost"]
  BY DEF Step, static, param, wild
<1>3. CASE static \in nodes
  BY <1>1, <1>2, <1>3 DEF static
<1>4. CASE static \notin nodes /\ param \in nodes
  BY <1>1, <1>2, <1>4 DEF static, param
<1>5. CASE static \notin nodes /\ param \notin nodes /\ wild \in nodes
  BY <1>2, <1>5 DEF static, param, wild
<1>6. CASE static \notin nodes /\ param \notin nodes /\ wild \notin nodes
  BY <1>1, <1>2, <1>6 DEF static, param, wild
<1> QED BY <1>3, <1>4, <1>5, <1>6

\* The trail is one edge longer.
LEMMA TrailGrows ==
  ASSUME NEW path \in Paths, NEW i \in 1..Len(path), NEW s, NEW t, NEW e,
         Trail(path, s, i - 1), s.state = "walking",
         t.node = Append(s.node, e), t.node \in nodes,
         t.state \in {"walking", "broke"}, e = <<"wildcard">> <=> t.state = "broke",
         \/ e = <<"static", path[i]>>
         \/ /\ Append(s.node, <<"static", path[i]>>) \notin nodes
            /\ e = <<"param">> \/ (e = <<"wildcard">> /\ Append(s.node, <<"param">>) \notin nodes)
  PROVE  Trail(path, t, i)
<1>1. Len(path) \in Nat
  BY PathSeq
<1>2. Len(s.node) = i - 1 /\ i - 1 \in Nat /\ s.node = Upto(s.node, i - 1)
  BY <1>1 DEF Trail
<1>3. /\ Len(t.node) = i
      /\ t.node = Upto(t.node, i)
      /\ t.node[i] = e
      /\ \A k \in 1..i - 1 : t.node[k] = s.node[k]
  BY <1>1, <1>2, Appended
<1>4. \A k \in 0..i - 1 : Upto(t.node, k) = Upto(s.node, k)
  <2> TAKE k \in 0..i - 1
  <2>1. \A h \in 1..k : t.node[h] = s.node[h]
    BY <1>1, <1>3
  <2> QED BY <2>1, Zenon DEF Upto
<1>5. ASSUME NEW k \in 1..i
      PROVE  /\ Preferred(path, t.node, k)
             /\ t.node[k] = <<"wildcard">> <=> (t.state = "broke" /\ k = i)
  <2>1. CASE k = i
    <3>1. Upto(t.node, k - 1) = s.node
      BY <1>1, <1>2, <1>4, <2>1
    <3> QED BY <1>3, <2>1, <3>1 DEF Preferred
  <2>2. CASE k # i
    <3>1. k \in 1..i - 1 /\ k - 1 \in 0..i - 1
      BY <1>1, <2>2
    <3>2. Preferred(path, s.node, k) /\ s.node[k] # <<"wildcard">>
      BY <1>2, <3>1 DEF Trail
    <3> QED BY <1>3, <1>4, <2>2, <3>1, <3>2 DEF Preferred
  <2> QED BY <2>1, <2>2
<1> QED BY <1>1, <1>3, <1>5 DEF Trail

LEMMA CaughtFinite ==
  ASSUME NEW n, Len(n) \in Nat
  PROVE  /\ IsFiniteSet(CaughtAt(n)) /\ Cardinality(CaughtAt(n)) \in Nat
         /\ \A k \in CaughtAt(n) :
              Cardinality({h \in CaughtAt(n) : h <= k}) \in 1..Cardinality(CaughtAt(n))
<1>1. IsFiniteSet(1..Len(n)) /\ CaughtAt(n) \subseteq 1..Len(n)
  <2>1. 1 \in Int /\ Len(n) \in Int
    OBVIOUS
  <2> QED BY <2>1, FS_Interval DEF CaughtAt
<1>2. IsFiniteSet(CaughtAt(n)) /\ Cardinality(CaughtAt(n)) \in Nat
  BY <1>1, FS_Subset, FS_CardinalityType
<1>3. ASSUME NEW k \in CaughtAt(n)
      PROVE  Cardinality({h \in CaughtAt(n) : h <= k}) \in 1..Cardinality(CaughtAt(n))
  <2> DEFINE upto == {h \in CaughtAt(n) : h <= k}
  <2>1. upto \subseteq CaughtAt(n) /\ k \in upto
    BY <1>1
  <2> HIDE DEF upto
  <2>2. IsFiniteSet(upto) /\ Cardinality(upto) <= Cardinality(CaughtAt(n))
    BY <1>2, <2>1, FS_Subset
  <2>3. Cardinality(upto) \in Nat /\ Cardinality(upto) # 0
    BY <2>1, <2>2, FS_CardinalityType, FS_EmptySet
  <2>4. Cardinality(upto) \in 1..Cardinality(CaughtAt(n))
    BY <1>2, <2>2, <2>3
  <2> QED BY <2>4 DEF upto
<1> QED BY <1>2, <1>3

\* An edge that is a text captures nothing.
LEMMA CapturedText ==
  ASSUME NEW path \in Paths, NEW s, NEW t, NEW e,
         Len(s.node) \in Nat, s.node = Upto(s.node, Len(s.node)),
         t.node = Append(s.node, e), e[1] = "static", t.params = s.params,
         Captured(path, s)
  PROVE  Captured(path, t)
<1>1. /\ Len(t.node) = Len(s.node) + 1
      /\ t.node[Len(s.node) + 1] = e
      /\ \A k \in 1..Len(s.node) : t.node[k] = s.node[k]
  BY Appended
<1>2. ASSUME NEW k PROVE k \in CaughtAt(t.node) <=> k \in CaughtAt(s.node)
  BY <1>1 DEF CaughtAt
<1>3. CaughtAt(t.node) = CaughtAt(s.node)
  BY <1>2, Zenon
<1>4. \A k \in CaughtAt(s.node) : CaughtValue(path, t.node, k) = CaughtValue(path, s.node, k)
  BY <1>1 DEF CaughtAt, CaughtValue
<1> QED BY <1>3, <1>4 DEF Captured

\* A parameter and a wildcard capture the part they stand at.
LEMMA CapturedPart ==
  ASSUME NEW path \in Paths, NEW s, NEW t, NEW e, NEW name,
         Len(s.node) \in Nat, s.node = Upto(s.node, Len(s.node)),
         t.node = Append(s.node, e), e[1] # "static",
         t.params = Append(s.params, <<name, CaughtValue(path, t.node, Len(s.node) + 1)>>),
         Captured(path, s)
  PROVE  Captured(path, t)
<1> DEFINE i == Len(s.node) + 1
           old == CaughtAt(s.node)
           new == CaughtAt(t.node)
           rank(C, k) == Cardinality({h \in C : h <= k})
<1>1. /\ Len(t.node) = i
      /\ t.node[i] = e
      /\ \A k \in 1..Len(s.node) : t.node[k] = s.node[k]
  BY Appended
<1>2. old \subseteq 1..Len(s.node) /\ i \notin old
  BY DEF CaughtAt
<1>3. new = old \cup {i}
  <2>1. ASSUME NEW k PROVE k \in new <=> k \in old \cup {i}
    BY <1>1 DEF CaughtAt
  <2> QED BY <2>1, Zenon
<1>4. \A k \in old : CaughtValue(path, t.node, k) = CaughtValue(path, s.node, k)
  BY <1>1 DEF CaughtAt, CaughtValue
<1> HIDE DEF old, new
<1>5. /\ IsFiniteSet(old) /\ Cardinality(old) \in Nat
      /\ \A k \in old : rank(old, k) \in 1..Cardinality(old)
  BY CaughtFinite DEF old
<1>6. Cardinality(new) = Cardinality(old) + 1
  BY <1>2, <1>3, <1>5, FS_AddElement
<1>7. /\ Len(s.params) = Cardinality(old)
      /\ s.params = Upto(s.params, Len(s.params))
      /\ \A k \in old : s.params[rank(old, k)][2] = CaughtValue(path, s.node, k)
  BY DEF Captured, old
<1>8. /\ Len(t.params) = Cardinality(new)
      /\ t.params = Upto(t.params, Len(t.params))
      /\ t.params[Cardinality(new)] = <<name, CaughtValue(path, t.node, i)>>
      /\ \A j \in 1..Cardinality(old) : t.params[j] = s.params[j]
  <2> DEFINE value == <<name, CaughtValue(path, t.node, i)>>
  <2>1. t.params = Append(s.params, value)
    OBVIOUS
  <2> HIDE DEF value
  <2>2. /\ Len(t.params) = Len(s.params) + 1
        /\ t.params = Upto(t.params, Len(s.params) + 1)
        /\ t.params[Len(s.params) + 1] = value
        /\ \A j \in 1..Len(s.params) : t.params[j] = s.params[j]
    BY <1>5, <1>7, <2>1, Appended
  <2>3. /\ Len(t.params) = Cardinality(new)
        /\ t.params = Upto(t.params, Len(t.params))
        /\ t.params[Cardinality(new)] = value
        /\ \A j \in 1..Cardinality(old) : t.params[j] = s.params[j]
    BY <1>6, <1>7, <2>2
  <2> QED BY <2>3 DEF value
<1>9. \A k \in old : {h \in new : h <= k} = {h \in old : h <= k}
  BY <1>2, <1>3
<1>10. {h \in new : h <= i} = new
  <2>1. \A h \in new : h <= i
    BY <1>2, <1>3
  <2> QED BY <2>1
<1>11. ASSUME NEW k \in new PROVE t.params[rank(new, k)][2] = CaughtValue(path, t.node, k)
  <2>1. CASE k = i
    <3>1. rank(new, k) = Cardinality(new)
      BY <1>10, <2>1
    <3> HIDE DEF rank
    <3> QED BY <1>8, <2>1, <3>1
  <2>2. CASE k # i
    <3>1. k \in old
      BY <1>3, <2>2
    <3>2. rank(new, k) = rank(old, k)
      BY <1>9, <3>1
    <3>3. t.params[rank(old, k)] = s.params[rank(old, k)]
      BY <1>5, <1>8, <3>1
    <3>4. s.params[rank(old, k)][2] = CaughtValue(path, t.node, k)
      BY <1>4, <1>7, <3>1
    <3> HIDE DEF rank
    <3> QED BY <3>2, <3>3, <3>4
  <2> QED BY <2>1, <2>2
<1> QED BY <1>8, <1>11 DEF Captured, new

\* One turn of the loop keeps the walk on its way.
LEMMA StepOnItsWay ==
  ASSUME NEW path \in Paths, NEW i \in 1..Len(path), NEW s, OnItsWay(path, s, i - 1)
  PROVE  OnItsWay(path, Step(path, s, i), i)
<1> DEFINE t == Step(path, s, i)
<1>1. Len(path) \in Nat
  BY PathSeq
<1>2. CASE s.state # "walking"
  <2>1. t = s
    BY <1>2 DEF Step
  <2>2. s.state = "broke" => Trail(path, s, i)
    BY <1>1, <1>2 DEF OnItsWay, Trail
  <2> QED BY <1>2, <2>1, <2>2 DEF OnItsWay
<1>3. CASE s.state = "walking"
  <2>1. /\ s = [node |-> s.node, params |-> s.params, state |-> s.state]
        /\ Trail(path, s, i - 1) /\ Captured(path, s)
    BY <1>3 DEF OnItsWay
  <2>2. /\ Len(s.node) = i - 1 /\ i - 1 \in Nat /\ Len(s.node) \in Nat /\ Len(s.node) + 1 = i
        /\ s.node = Upto(s.node, Len(s.node))
    BY <1>1, <1>3, <2>1 DEF Trail
  <2> DEFINE static == <<"static", path[i]>>
  <2>3. CASE /\ Append(s.node, static) \in nodes
             /\ t = [node |-> Append(s.node, static), params |-> s.params, state |-> "walking"]
    <3>1. static[1] = "static" /\ static # <<"wildcard">>
      OBVIOUS
    <3> HIDE DEF t
    <3>2. t.node = Append(s.node, static) /\ t.params = s.params /\ t.state = "walking"
      BY <2>3
    <3>3. Trail(path, t, i)
      BY <1>3, <2>1, <2>3, <3>1, <3>2, TrailGrows
    <3>4. Captured(path, t)
      BY <2>1, <2>2, <3>1, <3>2, CapturedText
    <3>5. OnItsWay(path, t, i)
      BY <2>3, <3>2, <3>3, <3>4 DEF OnItsWay
    <3> QED BY <3>5 DEF t
  <2>4. CASE /\ Append(s.node, static) \notin nodes
             /\ Append(s.node, <<"param">>) \in nodes
             /\ t = [node |-> Append(s.node, <<"param">>),
                     params |-> Append(s.params, <<paramName[s.node], <<path[i]>>>>),
                     state |-> "walking"]
    <3>1. <<"param">>[1] # "static" /\ <<"param">> # <<"wildcard">>
      OBVIOUS
    <3> HIDE DEF t
    <3>2. /\ t.node = Append(s.node, <<"param">>)
          /\ t.params = Append(s.params, <<paramName[s.node], <<path[i]>>>>)
          /\ t.state = "walking"
      BY <2>4
    <3>3. Trail(path, t, i)
      BY <1>3, <2>1, <2>4, <3>1, <3>2, TrailGrows
    <3>4. t.node[i] = <<"param">>
      BY <2>2, <3>2, Appended
    <3>5. CaughtValue(path, t.node, Len(s.node) + 1) = <<path[i]>>
      BY <2>2, <3>1, <3>4 DEF CaughtValue
    <3>6. Captured(path, t)
      BY <2>1, <2>2, <3>1, <3>2, <3>5, CapturedPart
    <3>7. OnItsWay(path, t, i)
      BY <2>4, <3>2, <3>3, <3>6 DEF OnItsWay
    <3> QED BY <3>7 DEF t
  <2>5. CASE /\ Append(s.node, static) \notin nodes
             /\ Append(s.node, <<"param">>) \notin nodes
             /\ Append(s.node, <<"wildcard">>) \in nodes
             /\ t = [node |-> Append(s.node, <<"wildcard">>),
                     params |-> Append(s.params,
                                  <<wildcardName[s.node], SubSeq(path, i, Len(path))>>),
                     state |-> "broke"]
    <3>1. <<"wildcard">>[1] # "static"
      OBVIOUS
    <3> HIDE DEF t
    <3>2. /\ t.node = Append(s.node, <<"wildcard">>)
          /\ t.params = Append(s.params, <<wildcardName[s.node], SubSeq(path, i, Len(path))>>)
          /\ t.state = "broke"
      BY <2>5
    <3>3. Trail(path, t, i)
      BY <1>3, <2>1, <2>5, <3>1, <3>2, TrailGrows
    <3>4. t.node[i] = <<"wildcard">>
      BY <2>2, <3>2, Appended
    <3>5. CaughtValue(path, t.node, Len(s.node) + 1) = SubSeq(path, i, Len(path))
      BY <2>2, <3>4 DEF CaughtValue
    <3>6. Captured(path, t)
      BY <2>1, <2>2, <3>1, <3>2, <3>5, CapturedPart
    <3>7. OnItsWay(path, t, i)
      BY <2>5, <3>2, <3>3, <3>6 DEF OnItsWay
    <3> QED BY <3>7 DEF t
  <2>6. CASE t = [node |-> s.node, params |-> s.params, state |-> "lost"]
    BY <2>6 DEF OnItsWay
  <2> HIDE DEF t
  <2>7. \/ /\ Append(s.node, static) \in nodes
           /\ t = [node |-> Append(s.node, static), params |-> s.params, state |-> "walking"]
        \/ /\ Append(s.node, static) \notin nodes
           /\ Append(s.node, <<"param">>) \in nodes
           /\ t = [node |-> Append(s.node, <<"param">>),
                   params |-> Append(s.params, <<paramName[s.node], <<path[i]>>>>),
                   state |-> "walking"]
        \/ /\ Append(s.node, static) \notin nodes
           /\ Append(s.node, <<"param">>) \notin nodes
           /\ Append(s.node, <<"wildcard">>) \in nodes
           /\ t = [node |-> Append(s.node, <<"wildcard">>),
                   params |-> Append(s.params,
                                <<wildcardName[s.node], SubSeq(path, i, Len(path))>>),
                   state |-> "broke"]
        \/ t = [node |-> s.node, params |-> s.params, state |-> "lost"]
    BY <1>3, <2>1, StepMoves, Zenon DEF t
  <2>8. OnItsWay(path, t, i)
    BY <2>3, <2>4, <2>5, <2>6, <2>7, Zenon DEF t
  <2> QED BY <2>8 DEF t
<1> QED BY <1>2, <1>3

\* The whole walk is on its way: at no part is it the first to leave it.
LEMMA WalkOnItsWay ==
  ASSUME Root \in nodes, NEW path \in Paths, NEW i \in 0..Len(path)
  PROVE  OnItsWay(path, Steps(path)[i], i)
<1> DEFINE w == Steps(path)
           Astray == {j \in 0..Len(path) : ~OnItsWay(path, w[j], j)}
<1>1. Len(path) \in Nat
  BY PathSeq
<1> HIDE DEF w
<1>2. /\ w[0] = [node |-> Root, params |-> <<>>, state |-> "walking"]
      /\ \A j \in 1..Len(path) : w[j] = Step(path, w[j - 1], j)
  BY <1>1, StepsUnfold DEF w
<1>3. OnItsWay(path, w[0], 0)
  <2>1. Len(Root) = 0 /\ CaughtAt(Root) = {} /\ Root = Upto(Root, 0) /\ <<>> = Upto(<<>>, 0)
    BY DEF Root, CaughtAt, Upto
  <2>2. /\ w[0].node = Root /\ w[0].params = <<>> /\ w[0].state = "walking"
        /\ w[0] = [node |-> w[0].node, params |-> w[0].params, state |-> w[0].state]
    BY <1>2
  <2>3. Trail(path, w[0], 0)
    BY <2>1, <2>2 DEF Trail
  <2>4. Captured(path, w[0])
    BY <2>1, <2>2, FS_EmptySet DEF Captured
  <2> QED BY <2>2, <2>3, <2>4 DEF OnItsWay
<1>4. ASSUME Astray # {} PROVE FALSE
  <2>1. Astray \subseteq Nat
    BY <1>1
  <2>2. PICK m \in Astray : \A j \in Astray : m <= j
    BY <1>4, <2>1, LeastNumber
  <2>3. m \in 0..Len(path) /\ ~OnItsWay(path, w[m], m)
    BY <2>2
  <2>4. m # 0
    BY <1>3, <2>3
  <2>5. m \in 1..Len(path) /\ m - 1 \in 0..Len(path) /\ ~(m <= m - 1)
    BY <1>1, <2>3, <2>4
  <2>6. m - 1 \notin Astray
    BY <2>2, <2>5
  <2>7. OnItsWay(path, w[m - 1], m - 1)
    BY <2>5, <2>6
  <2> HIDE DEF Astray
  <2> QED BY <1>2, <2>3, <2>5, <2>7, StepOnItsWay
<1>5. OnItsWay(path, w[i], i)
  BY <1>4
<1> QED BY <1>5 DEF w

----------------------------------------------------------------------------
(* The tree that add builds.                                                *)

LEMMA TreeInit == RouterInit => TreeOK
<1> SUFFICES ASSUME RouterInit PROVE TreeOK
  OBVIOUS
<1> USE DEF RouterInit
<1>1. Registered = {}
  BY DEF Registered
<1>2. Len(Root) = 0 /\ Root = Upto(Root, 0) /\ \A e : Append(Root, <<e>>) # Root
  BY DEF Root, Upto
<1>3. AddedOK
  <2>1. \A S : <<>> \in Seq(S)
    OBVIOUS
  <2>2. added \in Seq(Patterns) /\ panicked \in BOOLEAN
    BY <2>1, Zenon
  <2> QED BY <1>1, <2>2, Zenon DEF AddedOK
<1>4. NodesOK
  BY <1>1, <1>2 DEF NodesOK, Tree
<1>5. RoutesOK
  BY <1>1 DEF RoutesOK
<1>6. NamesOK
  BY <1>2 DEF NamesOK, NamesFor
<1> QED BY <1>3, <1>4, <1>5, <1>6 DEF TreeOK

LEMMA ReachType ==
  ASSUME NEW p \in Patterns
  PROVE  Reach(p) \in 0..Len(p) /\ (BadWildcards(p) = {} => Reach(p) = Len(p))
<1>1. Len(p) \in Nat
  BY Segments
<1>2. CASE BadWildcards(p) = {}
  BY <1>1, <1>2 DEF Reach
<1>3. CASE BadWildcards(p) # {}
  <2>1. BadWildcards(p) \subseteq 1..Len(p) /\ BadWildcards(p) \subseteq Nat
    BY <1>1 DEF BadWildcards
  <2>2. \E i \in BadWildcards(p) : \A k \in BadWildcards(p) : i <= k
    BY <1>3, <2>1, LeastNumber
  <2>3. Reach(p) \in BadWildcards(p)
    BY <1>3, <2>2 DEF Reach
  <2> QED BY <1>1, <1>3, <2>1, <2>3
<1> QED BY <1>2, <1>3

\* What add puts into the tree leaves it a tree.
LEMMA GrowTree ==
  ASSUME Tree(nodes), NEW p \in Patterns, Grow(p)
  PROVE  /\ Tree(nodes') /\ nodes \subseteq nodes'
         /\ \A i \in 0..Reach(p) : NodeAt(p, i) \in nodes'
         /\ NodeAt(p, 0) = Root
<1>1. Len(p) \in Nat /\ Reach(p) \in Nat /\ Reach(p) \in 0..Len(p)
  BY Segments, ReachType
<1>2. nodes' = nodes \cup {NodeAt(p, i) : i \in 1..Reach(p)}
  BY DEF Grow
<1>3. NodeAt(p, 0) = Root
  BY DEF NodeAt, Root
<1>4. \A i \in 0..Reach(p) : NodeAt(p, i) \in nodes'
  BY <1>1, <1>2, <1>3 DEF Tree
<1>5. ASSUME NEW i \in 1..Reach(p)
      PROVE  LET n == NodeAt(p, i) IN
             /\ Len(n) \in Nat /\ n = Upto(n, Len(n))
             /\ Len(n) > 0 /\ Upto(n, Len(n) - 1) \in nodes'
  <2> DEFINE n == NodeAt(p, i)
  <2>1. i \in 0..Len(p) /\ i - 1 \in 0..Len(p) /\ i - 1 \in 0..Reach(p)
    BY <1>1
  <2>2. Len(n) = i /\ n = Upto(n, i)
    BY <2>1, Nodes
  <2>3. Upto(n, i - 1) = NodeAt(p, i - 1)
    BY <1>1 DEF Upto, NodeAt
  <2> HIDE DEF n
  <2>4. Len(n) \in Nat /\ n = Upto(n, Len(n)) /\ Len(n) > 0 /\ Upto(n, Len(n) - 1) \in nodes'
    BY <1>4, <2>1, <2>2, <2>3
  <2> QED BY <2>4 DEF n
<1>6. Tree(nodes')
  <2>1. ASSUME NEW n \in nodes'
        PROVE  /\ Len(n) \in Nat /\ n = Upto(n, Len(n))
               /\ n # Root => Len(n) > 0 /\ Upto(n, Len(n) - 1) \in nodes'
    <3>1. CASE n \in nodes
      BY <1>2, <3>1 DEF Tree
    <3>2. CASE n \notin nodes
      <4>1. PICK i \in 1..Reach(p) : n = NodeAt(p, i)
        BY <1>2, <3>2
      <4> QED BY <1>5, <4>1
    <3> QED BY <3>1, <3>2
  <2>2. Root \in nodes'
    BY <1>2 DEF Tree
  <2> QED BY <2>1, <2>2 DEF Tree
<1> QED BY <1>2, <1>3, <1>4, <1>6

\* A child that add makes gets a name.
LEMMA GrowNames ==
  ASSUME Tree(nodes), NEW p \in Patterns, Grow(p), NEW kind \in {"param", "wildcard"},
         NEW names, NEW later, NamesFor(nodes, names, kind), later = Names(names, p, kind)
  PROVE  NamesFor(nodes', later, kind)
<1>1. Len(p) \in Nat /\ Reach(p) \in Nat /\ Reach(p) \in 0..Len(p)
  BY Segments, ReachType
<1>2. nodes' = nodes \cup {NodeAt(p, i) : i \in 1..Reach(p)}
  BY DEF Grow
<1>3. /\ Tree(nodes') /\ nodes \subseteq nodes'
      /\ \A i \in 0..Reach(p) : NodeAt(p, i) \in nodes'
      /\ NodeAt(p, 0) = Root
  BY GrowTree
<1>4. DOMAIN later = DOMAIN names \cup {NodeAt(p, i - 1) : i \in Named(p, kind)}
  BY DEF Names
<1>5. ASSUME NEW i \in 1..Reach(p)
      PROVE  /\ i - 1 \in 0..Reach(p)
             /\ NodeAt(p, i) = Append(NodeAt(p, i - 1), Edge(p[i]))
             /\ Edge(p[i]) = <<kind>> <=> p[i].kind = kind
  <2>1. i \in 0..Len(p) /\ i > 0 /\ i \in 1..Len(p) /\ i - 1 \in 0..Reach(p)
    BY <1>1
  <2>2. p[i].kind \in Kinds
    BY <2>1, Segments
  <2> QED BY <2>1, <2>2, Nodes, EdgeKind
<1>6. ASSUME NEW i \in Named(p, kind)
      PROVE  /\ NodeAt(p, i - 1) \in nodes'
             /\ Append(NodeAt(p, i - 1), <<kind>>) \in nodes'
  <2>1. i \in 1..Reach(p) /\ p[i].kind = kind
    BY DEF Named
  <2> QED BY <1>2, <1>3, <1>5, <2>1
<1>7. DOMAIN later \subseteq nodes'
  BY <1>3, <1>4, <1>6 DEF NamesFor
<1>8. ASSUME NEW n \in nodes', n \in DOMAIN later PROVE Append(n, <<kind>>) \in nodes'
  <2>1. CASE n \in DOMAIN names
    BY <1>3, <2>1 DEF NamesFor
  <2>2. CASE n \notin DOMAIN names
    <3>1. PICK i \in Named(p, kind) : n = NodeAt(p, i - 1)
      BY <1>4, <1>8, <2>2
    <3> QED BY <1>6, <3>1
  <2> QED BY <2>1, <2>2
<1>9. ASSUME NEW n \in nodes', Append(n, <<kind>>) \in nodes' PROVE n \in DOMAIN later
  <2> DEFINE m == Append(n, <<kind>>)
  <2>1. Len(n) \in Nat /\ n = Upto(n, Len(n))
    BY <1>3 DEF Tree
  <2>2. /\ Len(m) = Len(n) + 1 /\ m[Len(n) + 1] = <<kind>>
        /\ \A k \in 1..Len(n) : m[k] = n[k]
    BY <2>1, Appended
  <2>3. Upto(m, Len(n)) = n
    <3> HIDE DEF m
    <3> QED BY <2>1, <2>2, Zenon DEF Upto
  <2> HIDE DEF m
  <2>4. CASE m \in nodes
    <3>1. Len(Root) = 0 /\ m # Root
      BY <2>1, <2>2 DEF Root
    <3>2. Upto(m, Len(m) - 1) \in nodes
      BY <2>4, <3>1 DEF Tree
    <3>3. Len(m) - 1 = Len(n)
      BY <2>1, <2>2
    <3>4. n \in nodes
      BY <2>3, <3>2, <3>3
    <3>5. n \in DOMAIN names
      BY <2>4, <3>4 DEF NamesFor, m
    <3> QED BY <1>4, <3>5
  <2>5. CASE m \notin nodes
    <3>1. PICK i \in 1..Reach(p) : m = NodeAt(p, i)
      BY <1>2, <1>9, <2>5 DEF m
    <3>2. i \in 0..Len(p) /\ i \in Nat
      BY <1>1
    <3>3. Len(m) = i /\ \A k \in 1..i : m[k] = Edge(p[k])
      BY <3>1, <3>2, Nodes
    <3>4. i = Len(n) + 1 /\ i - 1 = Len(n)
      BY <2>1, <2>2, <3>2, <3>3
    <3>5. p[i].kind = kind
      <4>1. i \in 1..i /\ m[i] = <<kind>>
        BY <2>2, <3>1, <3>2, <3>4
      <4>2. Edge(p[i]) = <<kind>>
        BY <3>3, <4>1
      <4> QED BY <1>5, <3>1, <4>2
    <3>6. i \in Named(p, kind)
      BY <2>5, <3>1, <3>5 DEF Named
    <3>7. n = NodeAt(p, i - 1)
      <4>1. \A k \in 1..i - 1 : n[k] = Edge(p[k])
        BY <2>2, <3>2, <3>3, <3>4
      <4> QED BY <2>1, <3>4, <4>1, Zenon DEF NodeAt, Upto
    <3> QED BY <1>4, <3>6, <3>7
  <2> QED BY <2>4, <2>5
<1> QED BY <1>7, <1>8, <1>9 DEF NamesFor

LEMMA AddTree == ASSUME TreeOK, NEW p \in Patterns, Add(p) PROVE TreeOK'
<1> USE DEF Add
<1>1. AddedOK /\ NodesOK /\ RoutesOK /\ NamesOK
  BY DEF TreeOK
<1>2. Len(p) \in Nat /\ Reach(p) = Len(p) /\ Len(p) \in 0..Len(p)
  BY ReachType, Segments
<1>3. /\ Tree(nodes') /\ nodes \subseteq nodes'
      /\ \A i \in 0..Len(p) : NodeAt(p, i) \in nodes'
      /\ NodeAt(p, 0) = Root
  BY <1>1, <1>2, GrowTree DEF NodesOK
<1>4. Registered' = Registered \cup {p}
  <2>1. added \in Seq(Patterns) /\ added' = Append(added, p)
    BY <1>1 DEF AddedOK
  <2>2. /\ Len(added) \in Nat /\ DOMAIN added = 1..Len(added)
        /\ DOMAIN added' = 1..Len(added) + 1
        /\ added'[Len(added) + 1] = p
        /\ \A k \in 1..Len(added) : added'[k] = added[k]
    BY <2>1
  <2>3. ASSUME NEW k \in DOMAIN added' PROVE added'[k] \in Registered \cup {p}
    BY <2>2, <2>3 DEF Registered
  <2>4. p \in Registered'
    <3>1. Len(added) + 1 \in DOMAIN added'
      BY <2>2
    <3> QED BY <2>2, <3>1 DEF Registered
  <2>5. ASSUME NEW k \in DOMAIN added PROVE added[k] \in Registered'
    <3>1. k \in DOMAIN added' /\ added'[k] = added[k]
      BY <2>2
    <3> QED BY <3>1 DEF Registered
  <2>6. Registered' \subseteq Registered \cup {p}
    BY <2>3 DEF Registered
  <2>7. Registered \subseteq Registered'
    BY <2>5 DEF Registered
  <2> QED BY <2>4, <2>6, <2>7
<1>5. AddedOK'
  <2>1. added' \in Seq(Patterns)
    BY <1>1 DEF AddedOK
  <2>2. \A q \in Registered' : BadWildcards(q) = {}
    BY <1>1, <1>4 DEF AddedOK
  <2> QED BY <1>1, <2>1, <2>2 DEF AddedOK
<1>6. NodesOK'
  <2>1. \A q \in Registered' : \A i \in 0..Len(q) : NodeAt(q, i) \in nodes'
    BY <1>1, <1>3, <1>4 DEF NodesOK
  <2>2. ASSUME NEW n \in nodes'
        PROVE  n = Root \/ \E q \in Registered' : \E i \in 1..Len(q) : n = NodeAt(q, i)
    <3>1. CASE n \in nodes
      BY <1>1, <1>4, <3>1 DEF NodesOK
    <3>2. CASE n \notin nodes
      <4>1. PICK i \in 1..Len(p) : n = NodeAt(p, i)
        BY <1>2, <3>2 DEF Grow
      <4> QED BY <1>4, <4>1
    <3> QED BY <3>1, <3>2
  <2> QED BY <1>3, <2>1, <2>2 DEF NodesOK
<1>7. RoutesOK'
  <2>1. /\ DOMAIN route' = DOMAIN route \cup {NodeAt(p, Len(p))}
        /\ route'[NodeAt(p, Len(p))] = p
        /\ \A n \in DOMAIN route \ {NodeAt(p, Len(p))} : route'[n] = route[n]
    OBVIOUS
  <2>2. \A q \in Registered' : NodeAt(q, Len(q)) \in DOMAIN route'
    BY <1>1, <1>4, <2>1 DEF RoutesOK
  <2>3. ASSUME NEW n \in DOMAIN route'
        PROVE  route'[n] \in Registered' /\ n = NodeAt(route'[n], Len(route'[n]))
    <3>1. CASE n = NodeAt(p, Len(p))
      BY <1>4, <2>1, <3>1
    <3>2. CASE n # NodeAt(p, Len(p))
      <4>1. n \in DOMAIN route /\ route'[n] = route[n]
        BY <2>1, <3>2
      <4> QED BY <1>1, <1>4, <4>1 DEF RoutesOK
    <3> QED BY <3>1, <3>2
  <2> QED BY <2>2, <2>3 DEF RoutesOK
<1>8. NamesOK'
  <2>1. /\ paramName' = Names(paramName, p, "param")
        /\ wildcardName' = Names(wildcardName, p, "wildcard")
        /\ Tree(nodes)
    BY <1>1 DEF Grow, NodesOK
  <2>2. NamesFor(nodes', paramName', "param")
    BY <1>1, <2>1, GrowNames DEF NamesOK
  <2>3. NamesFor(nodes', wildcardName', "wildcard")
    BY <1>1, <2>1, GrowNames DEF NamesOK
  <2> QED BY <2>2, <2>3 DEF NamesOK
<1> QED BY <1>5, <1>6, <1>7, <1>8 DEF TreeOK

LEMMA AddPanicsTree == ASSUME TreeOK, NEW p \in Patterns, AddPanics(p) PROVE TreeOK'
<1> USE DEF AddPanics
<1>1. AddedOK /\ NodesOK /\ RoutesOK /\ NamesOK
  BY DEF TreeOK
<1>2. Tree(nodes') /\ nodes \subseteq nodes'
  BY <1>1, GrowTree DEF NodesOK
<1>3. Registered' = Registered
  BY DEF Registered
<1>4. AddedOK'
  BY <1>1, <1>3 DEF AddedOK
<1>5. NodesOK'
  BY <1>1, <1>2, <1>3 DEF NodesOK
<1>6. RoutesOK'
  BY <1>1, <1>3 DEF RoutesOK
<1>7. NamesOK'
  <2>1. /\ paramName' = Names(paramName, p, "param")
        /\ wildcardName' = Names(wildcardName, p, "wildcard")
        /\ Tree(nodes)
    BY <1>1 DEF Grow, NodesOK
  <2>2. NamesFor(nodes', paramName', "param")
    BY <1>1, <2>1, GrowNames DEF NamesOK
  <2>3. NamesFor(nodes', wildcardName', "wildcard")
    BY <1>1, <2>1, GrowNames DEF NamesOK
  <2> QED BY <2>2, <2>3 DEF NamesOK
<1> QED BY <1>4, <1>5, <1>6, <1>7 DEF TreeOK

LEMMA TreeNext == TreeOK /\ [RouterNext]_routerVars => TreeOK'
<1> SUFFICES ASSUME TreeOK, [RouterNext]_routerVars PROVE TreeOK'
  OBVIOUS
<1>1. ASSUME NEW p \in Patterns, Add(p) PROVE TreeOK'
  BY <1>1, AddTree
<1>2. ASSUME NEW p \in Patterns, AddPanics(p) PROVE TreeOK'
  BY <1>2, AddPanicsTree
<1>3. CASE UNCHANGED routerVars
  <2>1. Registered' = Registered
    BY <1>3 DEF routerVars, Registered
  <2>2. AddedOK' /\ RoutesOK'
    BY <1>3, <2>1 DEF routerVars, TreeOK, AddedOK, RoutesOK
  <2>3. NodesOK'
    BY <1>3, <2>1 DEF routerVars, TreeOK, NodesOK
  <2>4. NamesOK'
    BY <1>3 DEF routerVars, TreeOK, NamesOK
  <2> QED BY <2>2, <2>3, <2>4 DEF TreeOK
<1> QED BY <1>1, <1>2, <1>3 DEF RouterNext, RouterServes

\* Whatever patterns are registered, in whatever order, and even if one of
\* them makes add panic, the nodes form a tree that has the way of every
\* pattern registered and a name for every child that captures, and the routes
\* are where these patterns end.
THEOREM TreeBuilt == RouterSpec => []TreeOK
  BY TreeInit, TreeNext, PTL DEF RouterSpec

----------------------------------------------------------------------------
(* What find gives for a path.                                              *)

LEMMA RegisteredPattern ==
  ASSUME AddedOK, NEW q \in Registered
  PROVE  q \in Patterns /\ BadWildcards(q) = {}
<1>1. PICK k \in DOMAIN added : q = added[k]
  BY DEF Registered
<1> QED BY <1>1 DEF AddedOK

LEMMA FoundAt ==
  ASSUME TreeOK, NEW path \in Paths, Found(path)
  PROVE  LET p == Entry(path)
             s == Walk(path)
         IN  /\ p \in Registered /\ p \in Patterns /\ Len(p) \in Nat
             /\ s.state \in {"walking", "broke"}
             /\ Trail(path, s, Len(path)) /\ Captured(path, s)
             /\ Len(s.node) = Len(p)
             /\ s.node = NodeAt(p, Len(p))
             /\ \A k \in 1..Len(p) : s.node[k] = Edge(p[k]) /\ p[k].kind \in Kinds
<1> DEFINE p == Entry(path)
           s == Walk(path)
<1>1. Len(path) \in Nat /\ Len(path) \in 0..Len(path)
  BY PathSeq
<1>2. AddedOK /\ RoutesOK /\ Root \in nodes
  BY DEF TreeOK, NodesOK, Tree
<1>3. OnItsWay(path, s, Len(path))
  BY <1>1, <1>2, WalkOnItsWay DEF Walk
<1>4. s.state # "lost" /\ s.node \in DOMAIN route
  BY DEF Found
<1>5. p \in Registered /\ s.node = NodeAt(p, Len(p))
  BY <1>2, <1>4 DEF RoutesOK, Entry
<1>6. p \in Patterns /\ Len(p) \in Nat /\ Len(p) \in 0..Len(p)
  BY <1>2, <1>5, RegisteredPattern, Segments
<1>7. Len(s.node) = Len(p) /\ \A k \in 1..Len(p) : s.node[k] = Edge(p[k])
  BY <1>5, <1>6, Nodes
<1>8. \A k \in 1..Len(p) : p[k].kind \in Kinds
  BY <1>6, Segments
<1>9. s.state \in {"walking", "broke"} /\ Trail(path, s, Len(path)) /\ Captured(path, s)
  BY <1>3, <1>4 DEF OnItsWay
<1> QED BY <1>5, <1>6, <1>7, <1>8, <1>9

\* A route found matches, and the parts captured are the pattern's.
LEMMA FoundIsMatch ==
  ASSUME TreeOK, NEW path \in Paths, Found(path)
  PROVE  LET p == Entry(path)
             params == Walk(path).params
             caught == Caught(p)
         IN  /\ Matches(p, path)
             /\ Len(params) = Cardinality(caught)
             /\ \A i \in caught :
                  params[Cardinality({h \in caught : h <= i})][2] =
                      IF p[i].kind = "wildcard" THEN SubSeq(path, i, Len(path))
                      ELSE <<path[i]>>
<1> DEFINE p == Entry(path)
           s == Walk(path)
<1>1. Len(path) \in Nat
  BY PathSeq
<1>2. /\ p \in Patterns /\ Len(p) \in Nat
      /\ s.state \in {"walking", "broke"}
      /\ Trail(path, s, Len(path)) /\ Captured(path, s)
      /\ Len(s.node) = Len(p)
      /\ \A k \in 1..Len(p) : s.node[k] = Edge(p[k]) /\ p[k].kind \in Kinds
  BY FoundAt
<1>3. DOMAIN p = 1..Len(p) /\ (p # <<>> <=> Len(p) > 0)
  <2>1. p \in Seq({Seg(kind, value) : kind \in Kinds, value \in SegmentValues})
    BY <1>2, PatternsAssumption
  <2> HIDE DEF p
  <2> QED BY <2>1
<1> HIDE DEF p, s
<1>4. \A k \in 1..Len(p) :
        /\ s.node[k][1] = p[k].kind
        /\ s.node[k] = <<"wildcard">> <=> p[k].kind = "wildcard"
        /\ s.node[k] = <<"param">> <=> p[k].kind = "param"
        /\ s.node[k] = <<"static", path[k]>> <=> p[k].kind = "static" /\ p[k].value = path[k]
  <2> TAKE k \in 1..Len(p)
  <2>1. s.node[k] = Edge(p[k]) /\ p[k].kind \in Kinds
    BY <1>2
  <2> QED BY <2>1, EdgeKind
<1>5. Matches(p, path)
  <2>1. \A k \in 1..Len(p) : p[k].kind = "wildcard" <=> s.state = "broke" /\ k = Len(p)
    BY <1>2, <1>4 DEF Trail
  <2>2. ASSUME NEW k \in DOMAIN p, p[k].kind = "static" PROVE path[k] = p[k].value
    <3>1. k \in 1..Len(p) /\ Preferred(path, s.node, k)
      BY <1>2, <1>3 DEF Trail
    <3> QED BY <1>4, <2>2, <3>1 DEF Preferred
  <2>3. CASE s.state = "walking"
    <3>1. Len(path) = Len(p)
      BY <1>2, <2>3 DEF Trail
    <3>2. ~(p # <<>> /\ p[Len(p)].kind = "wildcard")
      <4>1. p # <<>> => Len(p) \in 1..Len(p)
        BY <1>2, <1>3
      <4> QED BY <2>1, <2>3, <4>1
    <3> QED BY <2>2, <3>1, <3>2 DEF Matches
  <2>4. CASE s.state = "broke"
    <3>1. Len(p) > 0 /\ Len(p) <= Len(path)
      BY <1>1, <1>2, <2>4 DEF Trail
    <3>2. p # <<>> /\ p[Len(p)].kind = "wildcard"
      <4>1. Len(p) \in 1..Len(p)
        BY <1>2, <3>1
      <4> QED BY <1>3, <2>1, <2>4, <3>1, <4>1
    <3>3. Len(path) >= Len(p)
      BY <1>1, <1>2, <3>1
    <3> QED BY <2>2, <3>2, <3>3 DEF Matches
  <2> QED BY <1>2, <2>3, <2>4
<1>6. Caught(p) = CaughtAt(s.node)
  <2>1. ASSUME NEW k PROVE k \in Caught(p) <=> k \in CaughtAt(s.node)
    BY <1>2, <1>3, <1>4 DEF Caught, CaughtAt
  <2> QED BY <2>1, Zenon
<1>7. ASSUME NEW i \in Caught(p)
      PROVE  CaughtValue(path, s.node, i) = IF p[i].kind = "wildcard" THEN SubSeq(path, i, Len(path))
                                            ELSE <<path[i]>>
  <2>1. i \in 1..Len(p)
    BY <1>3 DEF Caught
  <2> QED BY <1>4, <2>1 DEF CaughtValue
<1>8. /\ Len(s.params) = Cardinality(Caught(p))
      /\ \A i \in Caught(p) :
           s.params[Cardinality({h \in Caught(p) : h <= i})][2] = CaughtValue(path, s.node, i)
  BY <1>2, <1>6 DEF Captured
<1>9. \A i \in Caught(p) :
           s.params[Cardinality({h \in Caught(p) : h <= i})][2] =
               IF p[i].kind = "wildcard" THEN SubSeq(path, i, Len(path)) ELSE <<path[i]>>
  BY <1>7, <1>8, Zenon
<1> QED BY <1>5, <1>8, <1>9, Zenon DEF p, s

\* No pattern that goes the same way so far would have been preferred.
LEMMA FoundIsPreferred ==
  ASSUME TreeOK, NEW path \in Paths, Found(path), NEW q \in Registered, NEW k \in 1..Len(path),
         Prefers(Entry(path), q, k), q[k].kind = "static" => q[k].value = path[k]
  PROVE  FALSE
<1> DEFINE p == Entry(path)
           n == Walk(path).node
<1>1. Len(path) \in Nat
  BY PathSeq
<1>2. /\ p \in Patterns /\ Len(p) \in Nat
      /\ Trail(path, Walk(path), Len(path))
      /\ Len(n) = Len(p)
      /\ \A j \in 1..Len(p) : n[j] = Edge(p[j]) /\ p[j].kind \in Kinds
  BY FoundAt
<1>3. q \in Patterns /\ Len(q) \in Nat
  BY RegisteredPattern, Segments DEF TreeOK
<1>4. /\ k \in 1..Len(p) /\ k \in 1..Len(q) /\ k \in 0..Len(q) /\ k - 1 \in Nat
      /\ \A j \in 1..k - 1 : Edge(p[j]) = Edge(q[j])
      /\ \/ q[k].kind = "static" /\ p[k].kind # "static"
         \/ q[k].kind = "param" /\ p[k].kind = "wildcard"
  BY <1>1, <1>2, <1>3, Segments DEF Prefers
<1> HIDE DEF p, n
<1>5. NodeAt(q, k - 1) = Upto(n, k - 1)
  <2>1. \A j \in 1..k - 1 : Edge(q[j]) = n[j]
    BY <1>2, <1>4
  <2> QED BY <2>1, Zenon DEF NodeAt, Upto
<1>6. Append(Upto(n, k - 1), Edge(q[k])) \in nodes
  <2>1. NodeAt(q, k) \in nodes
    BY <1>4 DEF TreeOK, NodesOK
  <2>2. k > 0 /\ NodeAt(q, k) = Append(NodeAt(q, k - 1), Edge(q[k]))
    BY <1>3, <1>4, Nodes
  <2> QED BY <1>5, <2>1, <2>2
<1>7. Preferred(path, n, k)
  BY <1>2, <1>4 DEF Trail, n
<1>8. n[k] = Edge(p[k]) /\ p[k].kind \in Kinds /\ q[k].kind \in Kinds
  BY <1>2, <1>3, <1>4, Segments
<1>9. CASE q[k].kind = "static" /\ p[k].kind # "static"
  <2>1. Edge(q[k]) = <<"static", path[k]>>
    BY <1>9, <1>8, EdgeKind
  <2>2. n[k] # <<"static", path[k]>>
    BY <1>9, <1>8, EdgeKind
  <2> QED BY <1>6, <1>7, <2>1, <2>2 DEF Preferred
<1>10. CASE q[k].kind = "param" /\ p[k].kind = "wildcard"
  <2>1. Edge(q[k]) = <<"param">>
    BY <1>10, <1>8, EdgeKind
  <2>2. n[k] # <<"static", path[k]>> /\ n[k] # <<"param">>
    BY <1>10, <1>8, EdgeKind
  <2> QED BY <1>6, <1>7, <2>1, <2>2 DEF Preferred
<1> QED BY <1>4, <1>9, <1>10

\* The patterns that start as the path does all match it.
Guided(path) ==
    /\ \E q \in Registered : Matches(q, path)
    /\ \A q \in Registered : Matches(q, path) \/ Elsewhere(q, path)

\* A pattern that the walk follows so far, and that matches, has a next segment,
\* and the walk can follow that or one it prefers.
LEMMA NextEdge ==
  ASSUME TreeOK, NEW path \in Paths, NEW q \in Registered, Matches(q, path),
         NEW i \in 0..Len(path) - 1, i <= Len(q),
         i > 0 => q[i].kind # "wildcard"
  PROVE  LET n == NodeAt(q, i) IN
         \/ Append(n, <<"static", path[i + 1]>>) \in nodes
         \/ Append(n, <<"param">>) \in nodes
         \/ Append(n, <<"wildcard">>) \in nodes
<1>1. Len(path) \in Nat
  BY PathSeq
<1>2. q \in Patterns /\ Len(q) \in Nat /\ DOMAIN q = 1..Len(q)
  BY RegisteredPattern, Segments DEF TreeOK
<1>3. q # <<>> => Len(q) > 0
  <2>1. q \in Seq({Seg(kind, value) : kind \in Kinds, value \in SegmentValues})
    BY <1>2, PatternsAssumption
  <2> QED BY <2>1
<1>4. i < Len(q)
  <2>1. CASE q # <<>> /\ q[Len(q)].kind = "wildcard"
    BY <1>1, <1>2, <1>3, <2>1
  <2>2. CASE ~(q # <<>> /\ q[Len(q)].kind = "wildcard")
    <3>1. Len(path) = Len(q)
      BY <2>2 DEF Matches
    <3> QED BY <1>1, <3>1
  <2> QED BY <2>1, <2>2
<1>5. /\ i + 1 \in 1..Len(q) /\ i + 1 \in 0..Len(q) /\ i + 1 > 0 /\ (i + 1) - 1 = i
      /\ q[i + 1].kind \in Kinds
  BY <1>1, <1>2, <1>4, Segments
<1>6. Append(NodeAt(q, i), Edge(q[i + 1])) \in nodes
  <2>1. NodeAt(q, i + 1) \in nodes
    BY <1>5 DEF TreeOK, NodesOK
  <2>2. NodeAt(q, i + 1) = Append(NodeAt(q, i), Edge(q[i + 1]))
    BY <1>2, <1>5, Nodes
  <2> QED BY <2>1, <2>2
<1>7. CASE q[i + 1].kind = "static"
  <2>1. q[i + 1].value = path[i + 1]
    BY <1>2, <1>5, <1>7 DEF Matches
  <2>2. Edge(q[i + 1]) = <<"static", path[i + 1]>>
    BY <1>5, <1>7, <2>1, EdgeKind
  <2> QED BY <1>6, <2>2
<1>8. CASE q[i + 1].kind = "param"
  <2>1. Edge(q[i + 1]) = <<"param">>
    BY <1>5, <1>8, EdgeKind
  <2> QED BY <1>6, <2>1
<1>9. CASE q[i + 1].kind = "wildcard"
  <2>1. Edge(q[i + 1]) = <<"wildcard">>
    BY <1>5, <1>9, EdgeKind
  <2> QED BY <1>6, <2>1
<1> QED BY <1>5, <1>7, <1>8, <1>9 DEF Kinds

\* The walk follows a pattern that matches.
LEMMA Follows ==
  ASSUME TreeOK, ~panicked, NEW path \in Paths, Guided(path), NEW i \in 0..Len(path), NEW s,
         OnItsWay(path, s, i), s.state # "lost"
  PROVE  \E q \in Registered :
            /\ Matches(q, path)
            /\ Len(s.node) <= Len(q)
            /\ s.node = NodeAt(q, Len(s.node))
            /\ \A k \in 1..Len(s.node) :
                  q[k].kind = "wildcard" <=> s.state = "broke" /\ k = Len(s.node)
<1> DEFINE n == s.node
<1>1. Len(path) \in Nat /\ \A q \in Registered : q \in Patterns /\ Len(q) \in Nat
  BY PathSeq, RegisteredPattern, Segments DEF TreeOK
<1>2. Trail(path, s, i)
  BY DEF OnItsWay
<1>3. CASE n = Root
  <2>1. PICK q \in Registered : Matches(q, path)
    BY DEF Guided
  <2>2. Len(Root) = 0 /\ NodeAt(q, 0) = Root
    BY DEF Root, NodeAt
  <2>3. Len(n) = 0 /\ n = NodeAt(q, Len(n)) /\ Len(n) <= Len(q)
    BY <1>1, <1>3, <2>1, <2>2
  <2> QED BY <2>1, <2>3
<1>4. CASE n # Root
  <2>1. PICK q \in Registered : \E j \in 1..Len(q) : n = NodeAt(q, j)
    BY <1>2, <1>4 DEF Trail, TreeOK, NodesOK
  <2>2. PICK j \in 1..Len(q) : n = NodeAt(q, j)
    BY <2>1
  <2>3. q \in Patterns /\ Len(q) \in Nat /\ j \in 0..Len(q)
    BY <1>1, <2>1
  <2>4. Len(n) = j /\ \A k \in 1..j : n[k] = Edge(q[k]) /\ q[k].kind \in Kinds
    BY <2>2, <2>3, Nodes, Segments
  <2> HIDE DEF n
  <2>5. \A k \in 1..j : /\ n[k] = <<"wildcard">> <=> q[k].kind = "wildcard"
                        /\ n[k] = <<"static", path[k]>> <=> q[k].kind = "static" /\ q[k].value = path[k]
                        /\ n[k] = <<"param">> <=> q[k].kind = "param"
    <3> TAKE k \in 1..j
    <3>1. n[k] = Edge(q[k]) /\ q[k].kind \in Kinds
      BY <2>4
    <3> QED BY <3>1, EdgeKind
  <2>6. \A k \in 1..Len(n) : q[k].kind = "wildcard" <=> s.state = "broke" /\ k = Len(n)
    BY <1>2, <2>4, <2>5 DEF Trail, n
  <2>7. ~Elsewhere(q, path)
    <3>1. SUFFICES ASSUME q[1].kind = "static", path = <<>> \/ path[1] # q[1].value PROVE FALSE
      BY DEF Elsewhere
    <3>2. 1 \in 1..j /\ 1 \in 1..Len(n)
      BY <2>2, <2>3, <2>4
    <3>3. Preferred(path, n, 1)
      BY <1>2, <3>2 DEF Trail, n
    <3>4. q[1].value = path[1]
      BY <2>5, <3>1, <3>2, <3>3 DEF Preferred
    <3>5. Len(n) <= Len(path)
      BY <1>1, <1>2, <2>4 DEF Trail, n
    <3>6. path # <<>>
      <4>1. Len(path) > 0
        BY <1>1, <2>3, <2>4, <3>2, <3>5
      <4> QED BY <4>1
    <3> QED BY <3>1, <3>4, <3>6
  <2>8. Matches(q, path)
    BY <2>7 DEF Guided
  <2> QED BY <2>2, <2>3, <2>4, <2>6, <2>8 DEF n
<1> QED BY <1>3, <1>4

\* So it is never lost: at no part is it lost first.
LEMMA NeverLost ==
  ASSUME TreeOK, ~panicked, NEW path \in Paths, Guided(path), NEW i \in 0..Len(path)
  PROVE  Steps(path)[i].state # "lost"
<1> DEFINE w == Steps(path)
           Lost == {j \in 0..Len(path) : w[j].state = "lost"}
<1>1. Len(path) \in Nat
  BY PathSeq
<1>2. \A j \in 0..Len(path) : OnItsWay(path, w[j], j)
  BY WalkOnItsWay DEF TreeOK, NodesOK, Tree
<1> HIDE DEF w
<1>3. /\ w[0] = [node |-> Root, params |-> <<>>, state |-> "walking"]
      /\ \A j \in 1..Len(path) : w[j] = Step(path, w[j - 1], j)
  BY <1>1, StepsUnfold DEF w
<1>4. ASSUME Lost # {} PROVE FALSE
  <2>1. Lost \subseteq Nat
    BY <1>1
  <2>2. PICK m \in Lost : \A j \in Lost : m <= j
    BY <1>4, <2>1, LeastNumber
  <2>3. m \in 0..Len(path) /\ w[m].state = "lost"
    BY <2>2
  <2>4. m # 0
    <3>1. w[0].state = "walking"
      BY <1>3
    <3> QED BY <2>3, <3>1
  <2>5. /\ m \in 1..Len(path) /\ m - 1 \in 0..Len(path) /\ m - 1 \in 0..Len(path) - 1
        /\ (m - 1) + 1 = m /\ ~(m <= m - 1)
    BY <1>1, <2>3, <2>4
  <2> DEFINE s == w[m - 1]
  <2>6. s.state # "lost"
    BY <2>2, <2>5
  <2> HIDE DEF Lost
  <2>7. OnItsWay(path, s, m - 1) /\ w[m] = Step(path, s, m)
    BY <1>2, <1>3, <2>5
  <2> HIDE DEF s
  <2>8. s.state = "walking"
    <3>1. s.state # "walking" => w[m] = s
      BY <2>7 DEF Step
    <3> QED BY <2>3, <2>6, <3>1
  <2>9. Trail(path, s, m - 1) /\ Len(s.node) = m - 1
    BY <2>7, <2>8 DEF OnItsWay, Trail
  <2>10. PICK q \in Registered :
            /\ Matches(q, path)
            /\ Len(s.node) <= Len(q)
            /\ s.node = NodeAt(q, Len(s.node))
            /\ \A k \in 1..Len(s.node) :
                  q[k].kind = "wildcard" <=> s.state = "broke" /\ k = Len(s.node)
    BY <2>5, <2>6, <2>7, Follows
  <2>11. m - 1 > 0 => q[m - 1].kind # "wildcard"
    <3>1. m - 1 > 0 => m - 1 \in 1..Len(s.node)
      BY <1>1, <2>5, <2>9
    <3> QED BY <2>8, <2>10, <3>1
  <2>12. \/ Append(s.node, <<"static", path[m]>>) \in nodes
         \/ Append(s.node, <<"param">>) \in nodes
         \/ Append(s.node, <<"wildcard">>) \in nodes
    <3> DEFINE j == m - 1
    <3>1. j \in 0..Len(path) - 1 /\ j <= Len(q) /\ (j > 0 => q[j].kind # "wildcard")
          /\ j + 1 = m /\ s.node = NodeAt(q, j)
      BY <2>5, <2>9, <2>10, <2>11
    <3> HIDE DEF j
    <3>2. \/ Append(NodeAt(q, j), <<"static", path[j + 1]>>) \in nodes
          \/ Append(NodeAt(q, j), <<"param">>) \in nodes
          \/ Append(NodeAt(q, j), <<"wildcard">>) \in nodes
      BY <2>10, <3>1, NextEdge
    <3> QED BY <3>1, <3>2
  <2>13. s = [node |-> s.node, params |-> s.params, state |-> s.state]
    BY <2>7 DEF OnItsWay
  <2>14. Step(path, s, m).state # "lost"
    BY <2>5, <2>8, <2>12, <2>13, StepMoves
  <2> QED BY <2>3, <2>7, <2>14
<1>5. w[i].state # "lost"
  BY <1>4
<1> QED BY <1>5 DEF w

\* And it ends where the pattern ends.
LEMMA GuidedIsFound ==
  ASSUME TreeOK, ~panicked, NEW path \in Paths, Guided(path)
  PROVE  Found(path)
<1> DEFINE s == Walk(path)
<1>1. Len(path) \in Nat /\ Len(path) \in 0..Len(path)
  BY PathSeq
<1>2. OnItsWay(path, s, Len(path)) /\ s.state # "lost"
  BY <1>1, WalkOnItsWay, NeverLost DEF Walk, TreeOK, NodesOK, Tree
<1> HIDE DEF s
<1>3. Trail(path, s, Len(path)) /\ s.state \in {"walking", "broke"}
  BY <1>2 DEF OnItsWay
<1>4. PICK q \in Registered :
            /\ Matches(q, path)
            /\ Len(s.node) <= Len(q)
            /\ s.node = NodeAt(q, Len(s.node))
            /\ \A k \in 1..Len(s.node) :
                  q[k].kind = "wildcard" <=> s.state = "broke" /\ k = Len(s.node)
  BY <1>1, <1>2, Follows
<1>5. q \in Patterns /\ Len(q) \in Nat /\ BadWildcards(q) = {}
  BY RegisteredPattern, Segments DEF TreeOK
<1>6. Len(s.node) = Len(q)
  <2>1. CASE s.state = "walking"
    <3>1. Len(s.node) = Len(path)
      BY <1>3, <2>1 DEF Trail
    <3>2. CASE q # <<>> /\ q[Len(q)].kind = "wildcard"
      <4>1. Len(path) >= Len(q)
        BY <1>4, <3>2 DEF Matches
      <4> QED BY <1>1, <1>4, <1>5, <3>1, <4>1
    <3>3. CASE ~(q # <<>> /\ q[Len(q)].kind = "wildcard")
      <4>1. Len(path) = Len(q)
        BY <1>4, <3>3 DEF Matches
      <4> QED BY <3>1, <4>1
    <3> QED BY <3>2, <3>3
  <2>2. CASE s.state = "broke"
    <3>1. Len(s.node) > 0 /\ Len(s.node) \in Nat
      BY <1>1, <1>3, <2>2 DEF Trail
    <3>2. q[Len(s.node)].kind = "wildcard"
      <4>1. Len(s.node) \in 1..Len(s.node)
        BY <3>1
      <4> QED BY <1>4, <2>2, <4>1
    <3>3. Len(s.node) \notin 1..Len(q) - 1
      BY <1>5, <3>2 DEF BadWildcards
    <3> QED BY <1>4, <1>5, <3>1, <3>3
  <2> QED BY <1>3, <2>1, <2>2
<1>7. s.node \in DOMAIN route
  BY <1>4, <1>6 DEF TreeOK, RoutesOK
<1> QED BY <1>2, <1>7 DEF Found, s

----------------------------------------------------------------------------
(* The router's properties.                                                 *)

LEMMA TreeFinds == TreeOK => FoundMatches /\ MostSpecificFirst
<1> SUFFICES ASSUME TreeOK PROVE FoundMatches /\ MostSpecificFirst
  OBVIOUS
<1>1. FoundMatches
  BY FoundIsMatch, GuidedIsFound, Zenon DEF FoundMatches, Guided
<1>2. MostSpecificFirst
  <2>1. ASSUME NEW path \in Paths, Found(path) PROVE Entry(path) \in Registered
    BY <2>1, FoundAt
  <2> QED BY <2>1, FoundIsPreferred, Zenon DEF MostSpecificFirst
<1> QED BY <1>1, <1>2

\* Whatever is registered, the route a request is given matches its path, the
\* values captured are the parts at the pattern's parameters, and a path that
\* only matching patterns start like is found.
THEOREM RouteMatches == RouterSpec => []FoundMatches
  BY TreeBuilt, TreeFinds, PTL

\* Whatever is registered in whatever order, the route found is the one that is
\* most specific at each part of the path.
THEOREM SpecificFirst == RouterSpec => []MostSpecificFirst
  BY TreeBuilt, TreeFinds, PTL
=============================================================================
