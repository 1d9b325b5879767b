----------------------------- MODULE AppProofs -----------------------------
(***************************************************************************)
(* What requests share in an App.  The promises of App.SQL and App.ORM for *)
(* any number of callers, adapters, dialects and changes, alone (DataSpec) *)
(* and under App.Run (ServerSpec), and of App.Run towards whoever closes   *)
(* the database.  What holds of the OpenAPI generator's component map for  *)
(* any types, any applications and any number of concurrent Builds.  Types *)
(* that contain each other and the run-time's data races are covered: both *)
(* only end the process.                                                   *)
(***************************************************************************)
EXTENDS AppServer, OpenAPI, SequenceTheorems, TLAPS

----------------------------------------------------------------------------
(* The data accessors.                                                      *)

\* A client is built only when none is cached, and stays cached until the
\* configuration changes.
BuiltIsCached == builds = (IF ormClient = Nil THEN 0 ELSE 1)

\* No cached client without an adapter: ORM's early return hides nothing.
NoClientWithoutAdapter == sqlDB = Nil => ormClient = Nil

\* The configuration in force is one of those a call under way has lived through.
PresentCounts == \A c \in Callers : pc[c] = "slow" => Config \in during[c]

DataInv ==
    /\ TypeOK
    /\ CacheCoherent
    /\ BuiltIsCached
    /\ NoClientWithoutAdapter
    /\ PresentCounts
    /\ AnswersInForce

\* A new App has no client and no call under way.
LEMMA DataInitHolds == DataInit => DataInv
  BY DEF DataInit, DataInv, TypeOK, Configs, CacheCoherent, BuiltIsCached,
         NoClientWithoutAdapter, PresentCounts, AnswersInForce

\* SetSQL and SetORMDialect: the cache is emptied, and calls under way see the
\* new configuration as well as the old.
LEMMA ChangeHolds ==
  ASSUME DataInv, (\E a \in Adapters \cup {Nil} : SetSQL(a)) \/ (\E d \in Dialects : SetORMDialect(d))
  PROVE  DataInv'
<1> USE DEF DataInv, TypeOK, Changed, Config, Configs, SetSQL, SetORMDialect
<1>1. /\ sqlDB' \in Adapters \cup {Nil} /\ ormDialect' \in Dialects
      /\ ormClient' = Nil /\ builds' = 0 /\ pc' = pc /\ result' = result
      /\ epoch' \in Nat
  OBVIOUS
<1>2. during' \in [Callers -> SUBSET Configs]
  <2>1. Config' \in Configs
    BY <1>1
  <2> QED BY <2>1
<1>3. TypeOK'
  BY <1>1, <1>2
<1>4. CacheCoherent' /\ BuiltIsCached' /\ NoClientWithoutAdapter'
  BY <1>1 DEF CacheCoherent, BuiltIsCached, NoClientWithoutAdapter
<1>5. PresentCounts'
  BY <1>1 DEF PresentCounts
<1>6. AnswersInForce'
  BY <1>1 DEF AnswersInForce
<1> QED BY <1>3, <1>4, <1>5, <1>6

\* ORM under the read lock changes nothing of the App; what it returns at once
\* is what is in force.
LEMMA FastHolds ==
  ASSUME DataInv, NEW c \in Callers, ORMFast(c)
  PROVE  DataInv'
<1> USE DEF DataInv, ORMFast
<1>1. TypeOK'
  BY DEF TypeOK, Config, Configs
<1>2. CacheCoherent' /\ BuiltIsCached' /\ NoClientWithoutAdapter'
  BY DEF CacheCoherent, BuiltIsCached, NoClientWithoutAdapter
<1>3. PresentCounts'
  BY DEF PresentCounts, TypeOK, Config
<1>4. AnswersInForce'
  BY DEF AnswersInForce, CacheCoherent, TypeOK, Config
<1> QED BY <1>1, <1>2, <1>3, <1>4

\* ORM under the write lock builds a client only where there is none, so the
\* one it returns fits the present configuration.
LEMMA SlowHolds ==
  ASSUME DataInv, NEW c \in Callers, ORMSlow(c)
  PROVE  DataInv'
<1> USE DEF DataInv, ORMSlow
<1>1. sqlDB # Nil => NewClient \in Client
  BY DEF TypeOK, NewClient, Client
<1>2. TypeOK'
  BY <1>1 DEF TypeOK
<1>3. CacheCoherent' /\ NoClientWithoutAdapter'
  BY DEF CacheCoherent, NoClientWithoutAdapter, NewClient
<1>4. BuiltIsCached'
  BY <1>1, NilIsNoClient DEF BuiltIsCached
<1>5. PresentCounts'
  BY DEF PresentCounts, TypeOK, Config
<1>6. Config \in during[c]
  BY DEF PresentCounts
<1>7. result'[c] = Nil => Config[1] = Nil
  BY <1>1, NilIsNoClient DEF Config, TypeOK
<1>8. result'[c] # Nil => <<result'[c].adapter, result'[c].dialect>> = Config
  BY <1>1 DEF Config, TypeOK, CacheCoherent, NewClient
<1>9. AnswersInForce'
  BY <1>6, <1>7, <1>8 DEF AnswersInForce, TypeOK
<1> QED BY <1>2, <1>3, <1>4, <1>5, <1>9

\* The invariant is inductive.
LEMMA DataStepHolds == DataInv /\ [DataNext]_dataVars => DataInv'
<1>1. DataInv /\ UNCHANGED dataVars => DataInv'
  BY DEF dataVars, DataInv, TypeOK, CacheCoherent, BuiltIsCached, NoClientWithoutAdapter,
         PresentCounts, AnswersInForce, Config
<1> QED BY <1>1, ChangeHolds, FastHolds, SlowHolds DEF DataNext

\* The inductive invariant of the accessors of app_db.go: what SetSQL,
\* SetORMDialect and the two sections of ORM preserve together.
THEOREM DataInvariance == DataSpec => []DataInv
  BY DataInitHolds, DataStepHolds, PTL DEF DataSpec

\* The cached ORM client always fits the adapter and the dialect in force.
THEOREM Coherent == DataSpec => []CacheCoherent
<1>1. DataInv => CacheCoherent
  BY DEF DataInv
<1> QED BY <1>1, DataInvariance, PTL

\* Between two changes at most one client is built, by whatever number of
\* concurrent first calls of ORM.
THEOREM OneClient == DataSpec => []OneClientPerChange
<1>1. DataInv => OneClientPerChange
  BY DEF DataInv, BuiltIsCached, OneClientPerChange
<1> QED BY <1>1, DataInvariance, PTL

\* ORM answers as if it had looked at one moment of its call.
THEOREM Answers == DataSpec => []AnswersInForce
<1>1. DataInv => AnswersInForce
  BY DEF DataInv
<1> QED BY <1>1, DataInvariance, PTL

----------------------------------------------------------------------------
(* App.Run.                                                                 *)

ServerTypeOK ==
    /\ server \in {"new", "listening", "shut", "failed"}
    /\ errCh \in {"empty", "error", "closed"}
    /\ signalled \in BOOLEAN
    /\ run \in {"idle", "select", "shutdown", "returned"}
    /\ answer \in {"none", "nil", "failed", "timeout"}
    /\ inFlight \subseteq Callers

\* A call of ORM belongs to a request that is being served.
CallsServed == \A c \in Callers : pc[c] # "idle" => c \in inFlight

\* Only Run shuts the server down, and only then does its goroutine close the
\* channel; after that the server never listens again.
ShutByRun ==
    /\ server = "shut" => run \in {"shutdown", "returned"}
    /\ errCh = "closed" => server = "shut"
    /\ run = "shutdown" => server \in {"shut", "failed"}

\* Run answers once, and nil only after a Shutdown that found nothing in flight.
NilAfterDrain ==
    /\ run # "returned" => answer = "none"
    /\ answer = "nil" => server \in {"shut", "failed"} /\ inFlight = {}

ServerInv == ServerTypeOK /\ CallsServed /\ ShutByRun /\ NilAfterDrain

\* Before Run there is no server and no request.
LEMMA ServerInitHolds == ServerInit => ServerInv
<1> SUFFICES ASSUME ServerInit PROVE ServerInv
  OBVIOUS
<1>1. ServerTypeOK
  BY DEF ServerInit, ServerTypeOK
<1>2. CallsServed /\ ShutByRun /\ NilAfterDrain
  BY DEF ServerInit, DataInit, CallsServed, ShutByRun, NilAfterDrain
<1> QED BY <1>1, <1>2 DEF ServerInv

\* A handler of a request calls ORM; a change of configuration calls nothing.
LEMMA DataHolds ==
  ASSUME DataInv, ServerInv, Data
  PROVE  ServerInv'
<1> USE DEF ServerInv
<1>1. UNCHANGED runVars
  BY DEF Data
<1>2. ServerTypeOK' /\ ShutByRun' /\ NilAfterDrain'
  BY <1>1 DEF runVars, ServerTypeOK, ShutByRun, NilAfterDrain
<1>3. CallsServed'
  <2>1. ASSUME NEW c \in inFlight, ORMFast(c) \/ ORMSlow(c) PROVE CallsServed'
    BY <1>1, <2>1 DEF runVars, ORMFast, ORMSlow, CallsServed, DataInv, TypeOK
  <2>2. ASSUME pc' = pc PROVE CallsServed'
    BY <1>1, <2>2 DEF runVars, CallsServed
  <2> QED BY <2>1, <2>2 DEF Data, SetSQL, SetORMDialect
<1> QED BY <1>2, <1>3

\* The life of the server, its goroutine and Run.
LEMMA RunHolds ==
  ASSUME ServerInv,
         \/ Run \/ Listen \/ ListenFails \/ ListenClosed
         \/ Signal \/ SelectError \/ SelectSignal \/ Shutdown
  PROVE  ServerInv'
<1> USE DEF ServerInv, dataVars
<1>1. ServerTypeOK'
  BY DEF ServerTypeOK, Run, Listen, ListenFails, ListenClosed, Signal, SelectError,
         SelectSignal, Shutdown
<1>2. CallsServed'
  BY DEF CallsServed, Run, Listen, ListenFails, ListenClosed, Signal, SelectError,
         SelectSignal, Shutdown
<1>3. ShutByRun'
  BY DEF ServerTypeOK, ShutByRun, Run, Listen, ListenFails, ListenClosed, Signal,
         SelectError, SelectSignal, Shutdown
<1>4. NilAfterDrain'
  BY DEF ServerTypeOK, ShutByRun, NilAfterDrain, Run, Listen, ListenFails,
         ListenClosed, Signal, SelectError, SelectSignal, Shutdown
<1> QED BY <1>1, <1>2, <1>3, <1>4

\* A request begins while the server listens and ends outside its ORM call.
LEMMA RequestHolds ==
  ASSUME ServerInv, NEW c \in Callers, Accept(c) \/ Finish(c)
  PROVE  ServerInv'
  BY DEF ServerInv, ServerTypeOK, CallsServed, ShutByRun, NilAfterDrain, Accept,
         Finish, dataVars

\* A step of the server is a step of the accessors or does not concern them.
LEMMA ServerStepIsData ==
  ASSUME ServerInv, [ServerNext]_serverVars
  PROVE  [DataNext]_dataVars
<1>1. CASE Data
  BY <1>1 DEF Data, DataNext, ServerInv, ServerTypeOK
<1> QED
  BY <1>1 DEF ServerNext, serverVars, Run, Listen, ListenFails, ListenClosed, Signal,
              SelectError, SelectSignal, Shutdown, Accept, Finish

\* The invariant of App.Run holds beside the one of the accessors.
LEMMA ServerInductive ==
  DataInv /\ ServerInv /\ [ServerNext]_serverVars => ServerInv'
<1> SUFFICES ASSUME DataInv, ServerInv, [ServerNext]_serverVars PROVE ServerInv'
  OBVIOUS
<1>1. CASE UNCHANGED serverVars
  BY <1>1 DEF serverVars, runVars, dataVars, ServerInv, ServerTypeOK, CallsServed,
              ShutByRun, NilAfterDrain
<1> QED BY <1>1, DataHolds, RunHolds, RequestHolds DEF ServerNext

\* What App.Run, its goroutine, the signals and the requests preserve together.
THEOREM ServerInvariance == ServerSpec => [](DataInv /\ ServerInv)
<1>1. ServerInit => DataInv /\ ServerInv
  BY DataInitHolds, ServerInitHolds DEF ServerInit
<1>2. DataInv /\ ServerInv /\ [ServerNext]_serverVars => DataInv' /\ ServerInv'
  BY DataStepHolds, ServerStepIsData, ServerInductive
<1> QED BY <1>1, <1>2, PTL DEF ServerSpec

\* The accessors keep their specification while a server runs: handlers call ORM
\* and the configuration changes through signals, failures and shutdown alike.
THEOREM ServerUsesData == ServerSpec => DataSpec
<1>1. ServerInit => DataInit
  BY DEF ServerInit
<1>2. ServerInv /\ [ServerNext]_serverVars => [DataNext]_dataVars
  BY ServerStepIsData
<1> QED BY <1>1, <1>2, ServerInvariance, PTL DEF ServerSpec, DataSpec

\* When Run answers nil, no request is in flight, none will be accepted, and no
\* caller of ORM is between its two sections: main may close the database.
THEOREM NilDrained == ServerSpec => []NilMeansDrained
<1>1. ServerInv => NilMeansDrained
  BY DEF ServerInv, CallsServed, NilAfterDrain, NilMeansDrained
<1> QED BY <1>1, ServerInvariance, PTL

----------------------------------------------------------------------------
(* The component map of the OpenAPI generator.                              *)

\* A record that is a call of buildSchema, and one that is a Build.
IsFrame(f) == f = [name |-> f.name, type |-> f.type, next |-> f.next, refs |-> f.refs]

IsJob(j) == j = [pc |-> j.pc, route |-> j.route, models |-> j.models, stack |-> j.stack,
                 refs |-> j.refs, late |-> j.late]

\* A stack is a sequence of calls of buildSchema.
IsStack(s) == s \in Seq(Range(s)) /\ \A k \in 1..Len(s) : IsFrame(s[k])

Typed ==
    /\ app \in Apps
    /\ job = [b \in Jobs |-> job[b]]
    /\ \A b \in Jobs : /\ IsJob(job[b])
                       /\ job[b].route \in Nat \ {0}
                       /\ job[b].models \in Seq(Models)
                       /\ IsStack(job[b].stack)

\* What a Build, or a call of buildSchema under way, refers to is in the map.
RefsKnown(b) ==
    /\ job[b].refs \subseteq DOMAIN schemas
    /\ \A k \in 1..Len(job[b].stack) : job[b].stack[k].refs \subseteq DOMAIN schemas

\* The models of the operation at route i.
ModelsOf(i) == IF app.routes[i] \in DOMAIN app.opts THEN app.opts[app.routes[i]] ELSE <<>>

\* ensureSchema has nothing to build for m.
Known(m) == m.name = "" \/ m.name \in DOMAIN schemas

\* A Build has m behind it, still to see, or under way.
Sees(b, m) ==
    \/ Known(m)
    \/ \E l \in 1..Len(job[b].models) : job[b].models[l] = m
    \/ job[b].stack # <<>> /\ job[b].stack[1].name = m.name

\* That is so of each model of the routes that a Build has passed.
Passed(b) ==
    \A i \in 1..Len(app.routes) : i < job[b].route =>
        \A k \in 1..Len(ModelsOf(i)) : Sees(b, ModelsOf(i)[k])

\* Once a Build has returned the models of all routes are in the map.
AllKnown ==
    built => \A i \in 1..Len(app.routes) : \A k \in 1..Len(ModelsOf(i)) : Known(ModelsOf(i)[k])

\* A request that has not come has nothing under way.
IdleEmpty(b) == job[b].pc = "idle" => job[b].models = <<>> /\ job[b].stack = <<>>

\* A late Build meets known models only and calls buildSchema for none.
LateKnows(b) ==
    job[b].late => /\ built
                   /\ job[b].stack = <<>>
                   /\ \A l \in 1..Len(job[b].models) : Known(job[b].models[l])

JobOK(b) == RefsKnown(b) /\ Passed(b) /\ IdleEmpty(b) /\ LateKnows(b)

\* Each component refers to components.
SchemasResolve == \A n \in DOMAIN schemas : schemas[n] \subseteq DOMAIN schemas

IInv == Typed /\ SchemasResolve /\ AllKnown /\ \A b \in Jobs : JobOK(b)

----------------------------------------------------------------------------
(* Stacks.                                                                  *)

\* A call of buildSchema on top of a stack makes a stack.
LEMMA AppendStack ==
  ASSUME NEW s, IsStack(s), NEW f, IsFrame(f)
  PROVE  /\ IsStack(Append(s, f))
         /\ Len(Append(s, f)) = Len(s) + 1 /\ Len(s) \in Nat
         /\ Append(s, f)[Len(s) + 1] = f
         /\ \A k \in 1..Len(s) : Append(s, f)[k] = s[k]
<1> DEFINE t == Append(s, f)
<1>1. s \in Seq(Range(s) \cup {f})
  BY DEF IsStack
<1>2. /\ t \in Seq(Range(s) \cup {f}) /\ Len(t) = Len(s) + 1 /\ Len(s) \in Nat
      /\ t[Len(s) + 1] = f /\ \A k \in 1..Len(s) : t[k] = s[k]
  BY <1>1
<1>3. t \in Seq(Range(t))
  BY <1>2, SeqOfRange DEF Range
<1>4. \A k \in 1..Len(t) : k \in 1..Len(s) \/ k = Len(s) + 1
  BY <1>2
<1>5. IsStack(t)
  BY <1>2, <1>3, <1>4 DEF IsStack
<1> QED BY <1>2, <1>5

\* What is below the top of a stack is a stack.
LEMMA FrontStack ==
  ASSUME NEW s, IsStack(s), s # <<>>
  PROVE  /\ IsStack(Front(s))
         /\ Len(s) \in Nat \ {0} /\ Len(Front(s)) = Len(s) - 1
         /\ \A k \in 1..Len(Front(s)) : k \in 1..Len(s) /\ Front(s)[k] = s[k]
<1>1. Len(s) \in Nat \ {0} /\ \A k \in 1..Len(s) : s[k] \in Range(s)
  BY EmptySeq, ElementOfSeq DEF IsStack
<1>2. /\ Front(s) \in Seq(Range(s)) /\ Len(Front(s)) = Len(s) - 1
      /\ \A k \in 1..(Len(s) - 1) : Front(s)[k] = s[k]
  <2>1. Len(s) - 1 \in Int /\ \A k \in 1..(Len(s) - 1) : s[k] \in Range(s)
    BY <1>1
  <2>2. /\ SubSeq(s, 1, Len(s) - 1) \in Seq(Range(s))
        /\ Len(SubSeq(s, 1, Len(s) - 1)) = IF 1 <= Len(s) - 1 THEN Len(s) - 1 - 1 + 1 ELSE 0
        /\ \A k \in 1..(Len(s) - 1 - 1 + 1) : SubSeq(s, 1, Len(s) - 1)[k] = s[1 + k - 1]
    BY <2>1, SubSeqProperties
  <2>3. Len(s) - 1 - 1 + 1 = Len(s) - 1 /\ \A k \in 1..(Len(s) - 1) : 1 + k - 1 = k
    BY <1>1
  <2>4. (IF 1 <= Len(s) - 1 THEN Len(s) - 1 - 1 + 1 ELSE 0) = Len(s) - 1
    <3>1. CASE Len(s) = 1
      BY <3>1
    <3>2. CASE Len(s) # 1
      <4>1. 1 <= Len(s) - 1
        <5>1. \A n \in Nat \ {0} : n # 1 => 1 <= n - 1
          OBVIOUS
        <5> QED BY <1>1, <3>2, <5>1
      <4> QED BY <2>3, <4>1
    <3> QED BY <3>1, <3>2
  <2>5. Front(s) = SubSeq(s, 1, Len(s) - 1)
    BY DEF Front
  <2> QED BY <2>2, <2>3, <2>4, <2>5
<1>3. \A k \in 1..Len(Front(s)) : k \in 1..Len(s) /\ Front(s)[k] = s[k]
  BY <1>1, <1>2
<1>4. Front(s) \in Seq(Range(Front(s)))
  BY <1>2, SeqOfRange
<1> QED BY <1>1, <1>2, <1>3, <1>4 DEF IsStack

\* A note on the top call changes its next field and its references.
LEMMA NotedStack ==
  ASSUME NEW s, IsStack(s), s # <<>>, NEW more
  PROVE  /\ IsStack(Noted(s, more)) /\ Noted(s, more) # <<>>
         /\ Len(s) \in Nat \ {0} /\ Len(Noted(s, more)) = Len(s)
         /\ \A k \in 1..Len(s) : /\ Noted(s, more)[k].name = s[k].name
                                /\ Noted(s, more)[k].refs \subseteq s[k].refs \cup more
<1> DEFINE f == s[Len(s)]
           g == [name |-> f.name, type |-> f.type, next |-> f.next + 1, refs |-> f.refs \cup more]
           t == [s EXCEPT ![Len(s)] = g]
<1> DEFINE S == Range(s) \cup {g}
<1>1. Len(s) \in Nat \ {0} /\ Len(s) \in 1..Len(s) /\ IsFrame(f) /\ s \in Seq(S) /\ g \in S
  <2>1. Len(s) \in Nat \ {0}
    BY EmptySeq DEF IsStack
  <2> QED BY <2>1, SeqMonotonic DEF IsStack
<1>2. Noted(s, more) = t
  <2>1. DOMAIN s = 1..Len(s) /\ s = [k \in 1..Len(s) |-> s[k]]
    BY <1>1, LenProperties
  <2>2. [f EXCEPT !.next = @ + 1] = [name |-> f.name, type |-> f.type, next |-> f.next + 1, refs |-> f.refs]
    BY <1>1 DEF IsFrame
  <2> DEFINE h == [name |-> f.name, type |-> f.type, next |-> f.next + 1, refs |-> f.refs]
             u == [s EXCEPT ![Len(s)] = h]
  <2>3. u = [s EXCEPT ![Len(s)].next = @ + 1]
    BY <2>2
  <2>4. u[Len(s)] = h
    BY <1>1, <2>1
  <2>5. [h EXCEPT !.refs = @ \cup more] = g
    <3>1. ASSUME NEW v PROVE [h EXCEPT !.refs = v] = [name |-> h.name, type |-> h.type, next |-> h.next, refs |-> v]
      OBVIOUS
    <3> HIDE DEF h, g
    <3>2. [h EXCEPT !.refs = @ \cup more] = [name |-> h.name, type |-> h.type, next |-> h.next, refs |-> h.refs \cup more]
      BY <3>1
    <3> USE DEF h, g
    <3> QED BY <3>2
  <2>6. Noted(s, more) = [u EXCEPT ![Len(s)] = g]
    BY <2>3, <2>4, <2>5 DEF Noted
  <2>7. [u EXCEPT ![Len(s)] = g] = t
    BY <1>1, <2>1
  <2> QED BY <2>6, <2>7
<1>3. /\ t \in Seq(S) /\ Len(t) = Len(s)
      /\ \A k \in 1..Len(s) : t[k] = IF k = Len(s) THEN g ELSE s[k]
  BY <1>1, ExceptSeq
<1>4. t \in Seq(Range(t))
  BY <1>3, SeqOfRange
<1>5. /\ t[Len(s)] = g /\ \A k \in 1..Len(s) : k # Len(s) => t[k] = s[k]
  BY <1>1, <1>3
<1>6. IsFrame(g)
  BY DEF IsFrame
<1>7. IsStack(t)
  BY <1>1, <1>3, <1>4, <1>5, <1>6 DEF IsStack
<1>8. \A k \in 1..Len(s) : t[k].name = s[k].name /\ t[k].refs \subseteq s[k].refs \cup more
  BY <1>5
<1>9. t # <<>>
  BY <1>1, <1>3, EmptySeq
<1> QED BY <1>1, <1>2, <1>3, <1>7, <1>8, <1>9

----------------------------------------------------------------------------
(* What a step of one job leaves to the others.                             *)

\* A job is replaced by r; the others stay as they are.
LEMMA OneJob ==
  ASSUME Typed, NEW b \in Jobs, NEW r, job' = [job EXCEPT ![b] = r], UNCHANGED app,
         IsJob(r), r.route \in Nat \ {0}, r.models \in Seq(Models), IsStack(r.stack)
  PROVE  Typed' /\ job'[b] = r /\ \A c \in Jobs : c # b => job'[c] = job[c]
<1>1. job = [c \in Jobs |-> job[c]]
  BY DEF Typed
<1>2. job' = [c \in Jobs |-> job'[c]] /\ job'[b] = r /\ \A c \in Jobs : c # b => job'[c] = job[c]
  BY <1>1
<1>3. ASSUME NEW c \in Jobs
      PROVE  /\ IsJob(job'[c]) /\ job'[c].route \in Nat \ {0} /\ job'[c].models \in Seq(Models)
             /\ IsStack(job'[c].stack)
  BY <1>2 DEF Typed
<1>4. app' \in Apps
  BY DEF Typed
<1> QED BY <1>2, <1>3, <1>4 DEF Typed, IsJob, IsStack, IsFrame

\* The operations are those of the set-up.
LEMMA SameModels ==
  ASSUME UNCHANGED app PROVE \A i : ModelsOf(i)' = ModelsOf(i)
BY DEF ModelsOf

\* A Build that stays at its route and loses sight of no model.
LEMMA PassedOn ==
  ASSUME NEW b \in Jobs, Passed(b), UNCHANGED app, job'[b].route = job[b].route,
         \A m : Sees(b, m) => Sees(b, m)'
  PROVE  Passed(b)'
<1> SUFFICES ASSUME NEW i \in 1..Len(app.routes), i < job[b].route,
                    NEW k \in 1..Len(ModelsOf(i))
             PROVE  Sees(b, ModelsOf(i)[k])'
  BY SameModels DEF Passed
<1>1. PICK m : m = ModelsOf(i)[k]
  OBVIOUS
<1>2. Sees(b, m)'
  BY <1>1 DEF Passed
<1>3. ModelsOf(i)[k]' = m
  BY <1>1, SameModels
<1> QED BY <1>2, <1>3 DEF Sees, Known

\* Components are never removed, so what holds of a job that does not move still
\* holds when others add some, and what is known of the routes' models as well.
LEMMA OthersOK ==
  ASSUME NEW c \in Jobs, JobOK(c), job'[c] = job[c], UNCHANGED app,
         DOMAIN schemas \subseteq DOMAIN schemas', built => built'
  PROVE  JobOK(c)'
<1>1. RefsKnown(c)'
  BY DEF JobOK, RefsKnown
<1>2. \A m : Sees(c, m) => Sees(c, m)'
  BY DEF Sees, Known
<1>3. Passed(c)'
  BY <1>2, PassedOn DEF JobOK
<1>4. IdleEmpty(c)'
  BY DEF JobOK, IdleEmpty
<1>5. LateKnows(c)'
  BY DEF JobOK, LateKnows, Known
<1> QED BY <1>1, <1>3, <1>4, <1>5 DEF JobOK

\* As long as the registered routes and their models stay and no definition goes,
\* every model of an earlier build keeps its definition.
LEMMA AllStillKnown ==
  ASSUME AllKnown, UNCHANGED <<app, built>>, DOMAIN schemas \subseteq DOMAIN schemas'
  PROVE  AllKnown'
BY DEF AllKnown, Known, ModelsOf

\* buildSchema goes on: the stack of b changes but not its first call's name.
LEMMA StackStep ==
  ASSUME IInv, NEW b \in Jobs, job[b].stack # <<>>,
         NEW s, IsStack(s), s # <<>>, s[1].name = job[b].stack[1].name,
         \A k \in 1..Len(s) : s[k].refs \subseteq DOMAIN schemas',
         job' = [job EXCEPT ![b].stack = s], UNCHANGED <<app, built>>,
         DOMAIN schemas \subseteq DOMAIN schemas', SchemasResolve'
  PROVE  IInv'
<1> DEFINE j == job[b]
           r == [pc |-> j.pc, route |-> j.route, models |-> j.models, stack |-> s,
                 refs |-> j.refs, late |-> j.late]
<1>1. Typed /\ \A c \in Jobs : JobOK(c)
  BY DEF IInv
<1>2. job' = [job EXCEPT ![b] = r]
  <2>1. [j EXCEPT !.stack = s] = r
    BY <1>1 DEF Typed, IsJob
  <2> QED BY <2>1
<1>3. IsJob(r) /\ r.route \in Nat \ {0} /\ r.models \in Seq(Models)
  BY <1>1 DEF Typed, IsJob
<1>4. Typed' /\ job'[b] = r /\ \A c \in Jobs : c # b => job'[c] = job[c]
  BY <1>1, <1>2, <1>3, OneJob
<1>5. JobOK(b)'
  <2>1. RefsKnown(b)'
    BY <1>1, <1>4 DEF JobOK, RefsKnown
  <2>2. Passed(b)'
    <3>1. job'[b].models = job[b].models /\ job'[b].stack = s /\ job'[b].route = job[b].route
      BY <1>4
    <3> HIDE DEF r
    <3>2. \A m : Sees(b, m) => Sees(b, m)'
      BY <3>1 DEF Sees, Known
    <3> QED BY <1>1, <3>1, <3>2, PassedOn DEF JobOK
  <2>3. IdleEmpty(b)' /\ LateKnows(b)'
    BY <1>1, <1>4 DEF JobOK, IdleEmpty, LateKnows
  <2> QED BY <2>1, <2>2, <2>3 DEF JobOK
<1>6. \A c \in Jobs : JobOK(c)'
  BY <1>1, <1>4, <1>5, OthersOK
<1>7. AllKnown'
  BY AllStillKnown DEF IInv
<1> QED BY <1>4, <1>6, <1>7 DEF IInv

----------------------------------------------------------------------------
(* The steps of buildSchema.                                                *)

\* What holds of the stack of a job that has one.
LEMMA StackFacts ==
  ASSUME IInv, NEW b \in Jobs, job[b].stack # <<>>
  PROVE  /\ IsStack(job[b].stack) /\ Len(job[b].stack) \in Nat \ {0}
         /\ Top(b) = job[b].stack[Len(job[b].stack)]
         /\ \A k \in 1..Len(job[b].stack) : job[b].stack[k].refs \subseteq DOMAIN schemas
<1>1. IsStack(job[b].stack)
  BY DEF IInv, Typed
<1> QED BY <1>1, FrontStack DEF Top, Last, IInv, JobOK, RefsKnown

\* A field: the top call notes what its schema refers to, or calls buildSchema.
LEMMA FieldStep ==
  ASSUME IInv, NEW b \in Jobs, Field(b) PROVE IInv'
<1> DEFINE st == job[b].stack
<1>1. /\ st # <<>> /\ IsStack(st) /\ Len(st) \in Nat \ {0} /\ UNCHANGED <<app, schemas, built>>
      /\ \A k \in 1..Len(st) : st[k].refs \subseteq DOMAIN schemas
      /\ SchemasResolve'
  BY StackFacts DEF Field, AtField, IInv, SchemasResolve
<1>2. ASSUME NEW more, more \subseteq DOMAIN schemas, job' = [job EXCEPT ![b].stack = Noted(@, more)]
      PROVE  IInv'
  <2>1. PICK s : s = Noted(st, more)
    OBVIOUS
  <2>2. /\ IsStack(s) /\ s # <<>> /\ Len(s) = Len(st)
        /\ \A k \in 1..Len(st) : s[k].name = st[k].name /\ s[k].refs \subseteq st[k].refs \cup more
    BY <1>1, <2>1, NotedStack
  <2>3. s[1].name = st[1].name /\ \A k \in 1..Len(s) : s[k].refs \subseteq DOMAIN schemas'
    BY <1>1, <1>2, <2>2
  <2>4. job' = [job EXCEPT ![b].stack = s]
    BY <1>2, <2>1
  <2> QED BY <1>1, <2>2, <2>3, <2>4, StackStep
<1>3. ASSUME NEW name, NEW t, Push(b, name, t)
      PROVE  IInv'
  <2>1. PICK s : s = Append(st, Frame(name, t))
    OBVIOUS
  <2>2. IsFrame(Frame(name, t)) /\ Frame(name, t).refs = {}
    BY DEF IsFrame, Frame
  <2>3. /\ IsStack(s) /\ Len(s) = Len(st) + 1 /\ s[Len(st) + 1].refs = {}
        /\ \A k \in 1..Len(st) : s[k] = st[k]
    BY <1>1, <2>1, <2>2, AppendStack
  <2>4. s # <<>> /\ s[1].name = st[1].name
    BY <1>1, <2>3
  <2>5. \A k \in 1..Len(s) : s[k].refs \subseteq DOMAIN schemas'
    <3>1. \A k \in 1..Len(s) : k \in 1..Len(st) \/ k = Len(st) + 1
      BY <1>1, <2>3
    <3> QED BY <1>1, <2>3, <3>1
  <2>6. job' = [job EXCEPT ![b].stack = s]
    BY <1>3, <2>1 DEF Push
  <2> QED BY <1>1, <2>3, <2>4, <2>5, <2>6, StackStep
<1>4. ASSUME InPlace(b) PROVE IInv'
  <2>1. CASE Types[Child(b)].fields = <<>>
    <3>1. PICK none : none = {}
      OBVIOUS
    <3>2. job' = [job EXCEPT ![b].stack = Noted(@, none)]
      BY <1>4, <2>1, <3>1 DEF InPlace
    <3>3. none \subseteq DOMAIN schemas
      BY <3>1
    <3> QED BY <3>2, <3>3, <1>2
  <2>2. CASE Types[Child(b)].fields # <<>>
    <3>1. Push(b, "", Child(b))
      BY <1>4, <2>2 DEF InPlace
    <3> QED BY <3>1, <1>3
  <2> QED BY <2>1, <2>2
<1>5. CASE AsComponent(b)
  <2> DEFINE name == Types[Child(b)].name
  <2>1. CASE name \in DOMAIN schemas
    <3>1. job' = [job EXCEPT ![b].stack = Noted(@, {name})]
      BY <1>5, <2>1 DEF Field
    <3>2. {name} \subseteq DOMAIN schemas
      BY <2>1
    <3> HIDE DEF name
    <3> QED BY <3>1, <3>2, <1>2
  <2>2. CASE name \notin DOMAIN schemas
    <3>1. Push(b, name, Child(b))
      BY <1>5, <2>2 DEF Field
    <3> QED BY <3>1, <1>3
  <2> QED BY <2>1, <2>2
<1>6. CASE ~AsComponent(b)
  BY <1>4, <1>6 DEF Field
<1> QED BY <1>5, <1>6

\* A Build with another stack and other references.
LEMMA JobRecord ==
  ASSUME NEW j, IsJob(j), NEW x, NEW y
  PROVE  [[j EXCEPT !.stack = x] EXCEPT !.refs = y]
         = [pc |-> j.pc, route |-> j.route, models |-> j.models, stack |-> x, refs |-> y,
            late |-> j.late]
<1>1. PICK e : e = [j EXCEPT !.stack = x]
  OBVIOUS
<1>2. e = [pc |-> j.pc, route |-> j.route, models |-> j.models, stack |-> x, refs |-> j.refs,
           late |-> j.late]
  BY <1>1 DEF IsJob
<1>3. [e EXCEPT !.refs = y] = [pc |-> e.pc, route |-> e.route, models |-> e.models,
                               stack |-> e.stack, refs |-> y, late |-> e.late]
  BY <1>2
<1>4. /\ e.pc = j.pc /\ e.route = j.route /\ e.models = j.models /\ e.stack = x
      /\ e.late = j.late
  BY <1>2
<1> QED BY <1>1, <1>3, <1>4

\* A return: what the call refers to is there, its own name included when it has
\* one, and becomes known to the call below it or to the document.
LEMMA ReturnStep ==
  ASSUME IInv, NEW b \in Jobs, Return(b) PROVE IInv'
<1>1. PICK j, st, below, top, own :
        /\ j = job[b] /\ st = j.stack /\ below = Front(st) /\ top = Top(b)
        /\ own = IF top.name = "" THEN top.refs ELSE {top.name}
  OBVIOUS
<1>2. /\ schemas' = IF top.name = "" THEN schemas
                   ELSE [n \in DOMAIN schemas \cup {top.name} |->
                         IF n = top.name THEN top.refs ELSE schemas[n]]
      /\ job' = IF below # <<>> THEN [job EXCEPT ![b].stack = Noted(below, own)]
                ELSE [job EXCEPT ![b].stack = <<>>, ![b].refs = @ \cup own]
      /\ UNCHANGED <<app, built>>
  BY <1>1 DEF Return
<1>3. /\ st # <<>> /\ IsStack(st) /\ Len(st) \in Nat \ {0} /\ top = st[Len(st)]
      /\ \A k \in 1..Len(st) : st[k].refs \subseteq DOMAIN schemas
  BY <1>1, StackFacts DEF Return, AtReturn
<1>4. top.refs \subseteq DOMAIN schemas
  BY <1>3
<1>5. /\ DOMAIN schemas \subseteq DOMAIN schemas' /\ own \subseteq DOMAIN schemas'
      /\ top.name = "" \/ top.name \in DOMAIN schemas'
      /\ SchemasResolve'
  <2>1. CASE top.name = ""
    BY <1>1, <1>2, <1>4, <2>1 DEF IInv, SchemasResolve
  <2>2. CASE top.name # ""
    <3>1. /\ DOMAIN schemas' = {top.name} \cup DOMAIN schemas
          /\ \A n \in DOMAIN schemas' : schemas'[n] = IF n = top.name THEN top.refs ELSE schemas[n]
      BY <1>2, <2>2
    <3> QED BY <1>1, <1>4, <2>2, <3>1 DEF IInv, SchemasResolve
  <2> QED BY <2>1, <2>2
<1>6. /\ IsStack(below) /\ Len(below) = Len(st) - 1
      /\ \A k \in 1..Len(below) : k \in 1..Len(st) /\ below[k] = st[k]
  BY <1>1, <1>3, FrontStack
<1>7. CASE below # <<>>
  <2>1. PICK s : s = Noted(below, own)
    OBVIOUS
  <2>2. /\ IsStack(s) /\ s # <<>> /\ Len(s) = Len(below) /\ Len(below) \in Nat \ {0}
        /\ \A k \in 1..Len(below) : s[k].name = below[k].name /\ s[k].refs \subseteq below[k].refs \cup own
    BY <1>6, <1>7, <2>1, NotedStack
  <2>3. s[1].name = st[1].name
    <3>1. 1 \in 1..Len(below)
      BY <2>2
    <3> QED BY <1>6, <2>2, <3>1
  <2>4. \A k \in 1..Len(s) : s[k].refs \subseteq DOMAIN schemas'
    BY <1>3, <1>5, <1>6, <2>2
  <2>5. job' = [job EXCEPT ![b].stack = s]
    BY <1>2, <1>7, <2>1
  <2> QED BY <1>1, <1>2, <1>3, <1>5, <2>2, <2>3, <2>4, <2>5, StackStep
<1>8. CASE below = <<>>
  <2>1. PICK r : r = [pc |-> j.pc, route |-> j.route, models |-> j.models, stack |-> <<>>,
                      refs |-> j.refs \cup own, late |-> j.late]
    OBVIOUS
  <2>2. Typed /\ IsJob(j) /\ \A c \in Jobs : JobOK(c)
    BY <1>1 DEF IInv, Typed
  <2>3. job' = [job EXCEPT ![b] = r]
    <3>1. job' = [job EXCEPT ![b] = [[j EXCEPT !.stack = <<>>] EXCEPT !.refs = j.refs \cup own]]
      BY <1>1, <1>2, <1>8, <2>2 DEF Typed, IsJob
    <3> QED BY <2>1, <2>2, <3>1, JobRecord
  <2>4. IsJob(r) /\ r.route \in Nat \ {0} /\ r.models \in Seq(Models) /\ IsStack(r.stack)
    BY <1>1, <1>6, <1>8, <2>1, <2>2 DEF Typed, IsJob
  <2>5. Typed' /\ job'[b] = r /\ \A c \in Jobs : c # b => job'[c] = job[c]
    BY <1>2, <2>2, <2>3, <2>4, OneJob
  <2>6. /\ job'[b].models = j.models /\ job'[b].stack = <<>> /\ job'[b].route = j.route
        /\ job'[b].refs = j.refs \cup own /\ job'[b].pc = j.pc /\ job'[b].late = j.late
    BY <2>1, <2>5
  <2>7. top = st[1]
    <3>1. Len(below) = 0
      BY <1>8
    <3>2. Len(st) = 1
      BY <1>3, <1>6, <3>1
    <3> QED BY <1>3, <3>2
  <2>8. JobOK(b)'
    <3>1. RefsKnown(b)'
      <4>1. job'[b].refs \subseteq DOMAIN schemas'
        BY <1>1, <1>5, <2>2, <2>6 DEF JobOK, RefsKnown
      <4>2. 1..Len(job'[b].stack) = {}
        BY <2>6
      <4> QED BY <4>1, <4>2 DEF RefsKnown
    <3>2. \A m : Sees(b, m) => Sees(b, m)'
      BY <1>1, <1>5, <2>6, <2>7 DEF Sees, Known
    <3>3. Passed(b)'
      BY <1>1, <1>2, <2>2, <2>6, <3>2, PassedOn DEF JobOK
    <3>4. IdleEmpty(b)' /\ LateKnows(b)'
      BY <1>1, <1>2, <1>3, <2>2, <2>6 DEF JobOK, IdleEmpty, LateKnows
    <3> QED BY <3>1, <3>3, <3>4 DEF JobOK
  <2>9. \A c \in Jobs : JobOK(c)'
    BY <1>2, <1>5, <2>2, <2>5, <2>8, OthersOK
  <2>10. AllKnown'
    BY <1>2, <1>5, AllStillKnown DEF IInv
  <2> QED BY <1>5, <2>5, <2>9, <2>10 DEF IInv
<1> QED BY <1>7, <1>8

----------------------------------------------------------------------------
(* The steps of RegisterSchema and Build.                                   *)

\* A step between the calls of buildSchema: job b becomes r and the map stays.
\* What has to be shown of r is that it has passed the routes before its own.
LEMMA BuildStep ==
  ASSUME IInv, NEW b \in Jobs, NEW r, job' = [job EXCEPT ![b] = r], UNCHANGED <<app, schemas>>,
         IsJob(r), r.route \in Nat \ {0}, r.models \in Seq(Models), IsStack(r.stack),
         job[b].stack = <<>>, built => built', AllKnown',
         r.refs \subseteq DOMAIN schemas,
         \A k \in 1..Len(r.stack) : r.stack[k].refs = {},
         job'[b] = r => Passed(b)' /\ IdleEmpty(b)' /\ LateKnows(b)'
  PROVE  IInv'
<1>1. Typed /\ SchemasResolve /\ \A c \in Jobs : JobOK(c)
  BY DEF IInv
<1>2. Typed' /\ job'[b] = r /\ \A c \in Jobs : c # b => job'[c] = job[c]
  BY <1>1, OneJob
<1>3. RefsKnown(b)'
  BY <1>2 DEF RefsKnown
<1>4. JobOK(b)'
  BY <1>2, <1>3 DEF JobOK
<1>5. \A c \in Jobs : JobOK(c)'
  BY <1>1, <1>2, <1>4, OthersOK
<1>6. SchemasResolve'
  BY <1>1 DEF SchemasResolve
<1> QED BY <1>2, <1>5, <1>6 DEF IInv

\* Nothing is under way and nothing known before the set-up.
LEMMA InitIInv == Init => IInv
<1> SUFFICES ASSUME Init PROVE IInv
  OBVIOUS
<1>1. Typed
  <2>1. app \in Apps /\ app.registered \in Seq(Models) /\ job = [b \in Jobs |-> job[b]]
    BY AppsAssumption DEF Init
  <2>2. IsStack(<<>>) /\ <<>> \in Seq(Models)
    BY EmptySeq DEF IsStack
  <2>3. ASSUME NEW b \in Jobs
        PROVE  /\ IsJob(job[b]) /\ job[b].route \in Nat \ {0} /\ job[b].models \in Seq(Models)
               /\ IsStack(job[b].stack)
    <3>1. CASE b = "setup"
      <4>1. job[b] = [pc |-> "run", route |-> 1, models |-> app.registered, stack |-> <<>>,
                      refs |-> {}, late |-> FALSE]
        BY <3>1 DEF Init, Idle
      <4> QED BY <2>1, <2>2, <4>1 DEF IsJob
    <3>2. CASE b # "setup"
      <4>1. job[b] = Idle
        BY <3>2 DEF Init
      <4> QED BY <2>2, <4>1 DEF IsJob, Idle
    <3> QED BY <3>1, <3>2
  <2> QED BY <2>1, <2>3 DEF Typed
<1>2. ASSUME NEW b \in Jobs PROVE JobOK(b)
  <2>1. /\ job[b].route = 1 /\ job[b].stack = <<>> /\ job[b].refs = {} /\ job[b].late = FALSE
        /\ job[b].pc = "idle" => job[b].models = <<>>
    BY DEF Init, Idle
  <2>2. RefsKnown(b)
    BY <2>1 DEF RefsKnown
  <2>3. Passed(b)
    BY <2>1 DEF Passed
  <2> QED BY <2>1, <2>2, <2>3 DEF JobOK, IdleEmpty, LateKnows
<1>3. SchemasResolve /\ AllKnown
  <2>1. DOMAIN schemas = {}
    <3>1. <<>> \in Seq({}) /\ Len(<<>>) = 0
      BY EmptySeq
    <3>2. DOMAIN <<>> = 1..0
      BY <3>1, LenProperties
    <3>3. schemas = <<>>
      BY DEF Init
    <3>4. 1..0 = {}
      OBVIOUS
    <3> QED BY <3>2, <3>3, <3>4
  <2> QED BY <2>1 DEF SchemasResolve, AllKnown, Init
<1> QED BY <1>1, <1>2, <1>3 DEF IInv

\* A request that comes after a Build has returned has all models before it.
LEMMA RequestStep ==
  ASSUME IInv, NEW b \in Jobs, Request(b) PROVE IInv'
<1>1. PICK j, r :
        /\ j = job[b]
        /\ r = [pc |-> "run", route |-> j.route, models |-> j.models, stack |-> j.stack,
                refs |-> j.refs, late |-> built]
  OBVIOUS
<1>2. Typed /\ AllKnown /\ JobOK(b) /\ IsJob(j)
  BY <1>1 DEF IInv, Typed
<1>3. j.pc = "idle" /\ j.models = <<>> /\ j.stack = <<>>
  BY <1>1, <1>2 DEF Request, JobOK, IdleEmpty
<1>4. UNCHANGED <<app, schemas, built>>
  BY DEF Request
<1>5. job' = [job EXCEPT ![b] = r]
  <2>1. job' = [job EXCEPT ![b] = [[j EXCEPT !.pc = "run"] EXCEPT !.late = built]]
    BY <1>1, <1>2 DEF Request, Typed
  <2>2. PICK e : e = [j EXCEPT !.pc = "run"]
    OBVIOUS
  <2>3. e = [pc |-> "run", route |-> j.route, models |-> j.models, stack |-> j.stack,
             refs |-> j.refs, late |-> j.late]
    BY <1>2, <2>2 DEF IsJob
  <2>4. [e EXCEPT !.late = built] = r
    BY <1>1, <2>3
  <2> QED BY <2>1, <2>2, <2>4
<1>6. /\ IsJob(r) /\ r.route \in Nat \ {0} /\ r.models \in Seq(Models) /\ IsStack(r.stack)
      /\ r.refs \subseteq DOMAIN schemas /\ 1..Len(r.stack) = {}
  BY <1>1, <1>2, <1>3 DEF IsJob, Typed, JobOK, RefsKnown
<1>7. ASSUME job'[b] = r PROVE Passed(b)' /\ IdleEmpty(b)' /\ LateKnows(b)'
  <2>1. /\ job'[b].models = job[b].models /\ job'[b].stack = job[b].stack
        /\ job'[b].route = job[b].route /\ job'[b].pc = "run" /\ job'[b].late = built
    BY <1>1, <1>7
  <2>2. \A m : Sees(b, m) => Sees(b, m)'
    BY <1>4, <2>1 DEF Sees, Known
  <2>3. Passed(b)'
    BY <1>2, <1>4, <2>1, <2>2, PassedOn DEF JobOK
  <2> QED BY <1>1, <1>3, <1>4, <2>1, <2>3 DEF IdleEmpty, LateKnows
<1>8. AllKnown'
  BY <1>2, <1>4, AllStillKnown
<1> QED BY <1>1, <1>3, <1>4, <1>5, <1>6, <1>7, <1>8, BuildStep

\* The next route: a late Build knows its models because a Build has returned.
LEMMA RouteStep ==
  ASSUME IInv, NEW b \in Jobs, Route(b) PROVE IInv'
<1>1. PICK j, now, r :
        /\ j = job[b] /\ now = ModelsOf(j.route)
        /\ r = [pc |-> j.pc, route |-> j.route + 1, models |-> now, stack |-> j.stack,
                refs |-> j.refs, late |-> j.late]
  OBVIOUS
<1>2. Typed /\ AllKnown /\ JobOK(b) /\ IsJob(j) /\ j.route \in Nat \ {0}
  BY <1>1 DEF IInv, Typed
<1>3. /\ j.pc = "run" /\ j.models = <<>> /\ j.stack = <<>> /\ j.route <= Len(app.routes)
      /\ UNCHANGED <<app, schemas, built>>
  BY <1>1 DEF Route, Between
<1>4. now \in Seq(Models)
  <2>1. \A q \in DOMAIN app.opts : app.opts[q] \in Seq(Models)
    BY <1>2, AppsAssumption DEF Typed
  <2>2. <<>> \in Seq(Models)
    BY EmptySeq
  <2> QED BY <1>1, <2>1, <2>2 DEF ModelsOf
<1>5. job' = [job EXCEPT ![b] = r]
  <2>1. job' = [job EXCEPT ![b] = [[j EXCEPT !.route = j.route + 1] EXCEPT !.models = now]]
    BY <1>1, <1>2 DEF Route, Typed, ModelsOf
  <2>2. PICK e : e = [j EXCEPT !.route = j.route + 1]
    OBVIOUS
  <2>3. e = [pc |-> j.pc, route |-> j.route + 1, models |-> j.models, stack |-> j.stack,
             refs |-> j.refs, late |-> j.late]
    BY <1>2, <2>2 DEF IsJob
  <2>4. [e EXCEPT !.models = now] = r
    BY <1>1, <2>3
  <2> QED BY <2>1, <2>2, <2>4
<1>6. /\ IsJob(r) /\ r.route \in Nat \ {0} /\ r.models \in Seq(Models) /\ IsStack(r.stack)
      /\ r.refs \subseteq DOMAIN schemas /\ 1..Len(r.stack) = {}
  BY <1>1, <1>2, <1>3, <1>4 DEF IsJob, Typed, JobOK, RefsKnown
<1>7. ASSUME job'[b] = r PROVE Passed(b)' /\ IdleEmpty(b)' /\ LateKnows(b)'
  <2>1. /\ job'[b].models = now /\ job'[b].stack = <<>> /\ job'[b].route = j.route + 1
        /\ job'[b].pc = "run" /\ job'[b].late = j.late
    BY <1>1, <1>3, <1>7
  <2>2. \A i : ModelsOf(i)' = ModelsOf(i)
    BY <1>3, SameModels
  <2>3. \A m : Sees(b, m) => Known(m)
    BY <1>1, <1>3 DEF Sees
  <2>4. ASSUME NEW i \in 1..Len(app.routes), i < j.route + 1, NEW k \in 1..Len(ModelsOf(i)),
               NEW m, m = ModelsOf(i)[k]
        PROVE  Sees(b, m)'
    <3>1. CASE i < j.route
      <4>1. Known(m)
        BY <1>1, <1>2, <2>3, <2>4, <3>1 DEF JobOK, Passed
      <4> QED BY <1>3, <4>1 DEF Sees, Known
    <3>2. CASE i = j.route
      BY <1>1, <2>1, <2>4, <3>2 DEF Sees
    <3> QED BY <1>2, <2>4, <3>1, <3>2
  <2>5. Passed(b)'
    <3> SUFFICES ASSUME NEW i \in 1..Len(app.routes), i < j.route + 1,
                        NEW k \in 1..Len(ModelsOf(i))
                 PROVE  Sees(b, ModelsOf(i)[k])'
      BY <1>3, <2>1, <2>2 DEF Passed
    <3>1. PICK m : m = ModelsOf(i)[k]
      OBVIOUS
    <3>2. Sees(b, m)' /\ ModelsOf(i)[k]' = m
      BY <2>2, <2>4, <3>1
    <3> QED BY <3>2 DEF Sees, Known
  <2>6. LateKnows(b)'
    <3>1. ASSUME j.late, NEW l \in 1..Len(now) PROVE Known(now[l])
      <4>1. built
        BY <1>1, <1>2, <3>1 DEF JobOK, LateKnows
      <4>2. j.route \in 1..Len(app.routes)
        BY <1>2, <1>3
      <4> QED BY <1>1, <1>2, <4>1, <4>2, <3>1 DEF AllKnown
    <3>2. j.late => built
      BY <1>1, <1>2 DEF JobOK, LateKnows
    <3> QED BY <1>3, <2>1, <3>1, <3>2 DEF LateKnows, Known
  <2> QED BY <2>1, <2>5, <2>6 DEF IdleEmpty
<1>8. AllKnown'
  BY <1>2, <1>3, AllStillKnown
<1> QED BY <1>1, <1>3, <1>5, <1>6, <1>7, <1>8, BuildStep

\* The next model: it is in the map already, or buildSchema is called for it.
LEMMA ModelStep ==
  ASSUME IInv, NEW b \in Jobs, Model(b) PROVE IInv'
<1>1. PICK j, m, refs, stack :
        /\ j = job[b] /\ m = Head(j.models)
        /\ refs = IF m.name \in DOMAIN schemas THEN j.refs \cup {m.name} ELSE j.refs
        /\ stack = IF m.name = "" \/ m.name \in DOMAIN schemas THEN <<>>
                   ELSE <<Frame(m.name, m.type)>>
  OBVIOUS
<1> DEFINE r == [pc |-> j.pc, route |-> j.route, models |-> Tail(j.models), stack |-> stack,
                 refs |-> refs, late |-> j.late]
<1>0. j = job[b] /\ m = Head(j.models)
  BY <1>1
<1>2. Typed /\ AllKnown /\ JobOK(b) /\ IsJob(j)
  BY <1>1 DEF IInv, Typed
<1>3. /\ j.pc = "run" /\ j.models # <<>> /\ j.stack = <<>> /\ j.models \in Seq(Models)
      /\ UNCHANGED <<app, schemas, built>>
  BY <1>1, <1>2 DEF Model, AtModel, Between, Typed
<1>4. /\ Tail(j.models) \in Seq(Models) /\ Len(Tail(j.models)) = Len(j.models) - 1
      /\ Len(j.models) \in Nat \ {0} /\ m = j.models[1]
      /\ \A l \in 1..Len(Tail(j.models)) : Tail(j.models)[l] = j.models[l + 1]
  <2>1. PICK s : s = j.models
    OBVIOUS
  <2>2. s \in Seq(Models) /\ s # <<>>
    BY <1>3, <2>1
  <2>3. /\ Tail(s) \in Seq(Models) /\ Len(Tail(s)) = Len(s) - 1
        /\ \A l \in 1..Len(Tail(s)) : Tail(s)[l] = s[l + 1]
    BY <2>2, HeadTailProperties
  <2>4. Len(s) \in Nat \ {0}
    BY <2>2, EmptySeq
  <2>5. Head(s) = s[1]
    BY <2>2
  <2> QED BY <1>0, <2>1, <2>3, <2>4, <2>5
<1>5. job' = [job EXCEPT ![b] = r]
  <2>1. PICK e : e = [j EXCEPT !.models = Tail(j.models)]
    OBVIOUS
  <2>2. PICK f : f = [e EXCEPT !.refs = refs]
    OBVIOUS
  <2>3. e = [pc |-> j.pc, route |-> j.route, models |-> Tail(j.models), stack |-> j.stack,
             refs |-> j.refs, late |-> j.late]
    BY <1>2, <2>1 DEF IsJob
  <2>4. f = [pc |-> j.pc, route |-> j.route, models |-> Tail(j.models), stack |-> j.stack,
             refs |-> refs, late |-> j.late]
    BY <2>2, <2>3
  <2>5. [f EXCEPT !.stack = stack] = r
    <3>1. f = [pc |-> f.pc, route |-> f.route, models |-> f.models, stack |-> f.stack,
               refs |-> f.refs, late |-> f.late]
      BY <2>4
    <3>2. [f EXCEPT !.stack = stack] = [pc |-> f.pc, route |-> f.route, models |-> f.models,
                                        stack |-> stack, refs |-> f.refs, late |-> f.late]
      BY <3>1
    <3>3. /\ f.pc = j.pc /\ f.route = j.route /\ f.models = Tail(j.models) /\ f.refs = refs
          /\ f.late = j.late
      BY <2>4
    <3> QED BY <3>2, <3>3
  <2>6. job' = [job EXCEPT ![b] = [[[j EXCEPT !.models = Tail(j.models)]
                                       EXCEPT !.refs = refs] EXCEPT !.stack = stack]]
    BY <1>1, <1>2 DEF Model, Typed
  <2> QED BY <2>1, <2>2, <2>5, <2>6
<1>6. IsStack(stack) /\ \A k \in 1..Len(stack) : stack[k].refs = {}
  <2>1. CASE stack = <<>>
    BY <2>1, EmptySeq DEF IsStack
  <2>2. CASE stack # <<>>
    <3>1. PICK f : f = Frame(m.name, m.type)
      OBVIOUS
    <3>2. stack = <<f>> /\ IsFrame(f) /\ f.refs = {}
      BY <1>1, <2>2, <3>1 DEF Frame, IsFrame
    <3>3. stack \in Seq({f}) /\ Len(stack) = 1 /\ stack[1] = f
      BY <3>2
    <3>4. 1..Len(stack) = {1}
      BY <3>3
    <3>5. stack \in Seq(Range(stack))
      BY <3>3, SeqOfRange
    <3> QED BY <3>2, <3>3, <3>4, <3>5 DEF IsStack
  <2> QED BY <2>1, <2>2
<1>7. r.refs \subseteq DOMAIN schemas
  BY <1>1, <1>2 DEF JobOK, RefsKnown
<1>8. IsJob(r) /\ r.route \in Nat \ {0} /\ r.models \in Seq(Models) /\ IsStack(r.stack)
  BY <1>1, <1>2, <1>4, <1>6 DEF IsJob, Typed
<1>9. ASSUME job'[b] = r PROVE Passed(b)' /\ IdleEmpty(b)' /\ LateKnows(b)'
  <2>1. /\ job'[b].models = Tail(j.models) /\ job'[b].stack = stack
        /\ job'[b].route = j.route /\ job'[b].pc = "run" /\ job'[b].late = j.late
    BY <1>3, <1>9
  <2> HIDE DEF r
  <2>2. Known(m) \/ (stack # <<>> /\ stack[1].name = m.name)
    BY <1>1 DEF Known, Frame
  <2>3. ASSUME NEW n, Sees(b, n) PROVE Sees(b, n)'
    <3>1. CASE Known(n)
      BY <1>3, <3>1 DEF Sees, Known
    <3>2. CASE n = m
      BY <1>3, <2>1, <2>2, <3>2 DEF Sees, Known
    <3>3. CASE ~Known(n) /\ n # m
      <4>1. PICK l \in 1..Len(j.models) : j.models[l] = n
        BY <1>1, <1>3, <2>3, <3>3 DEF Sees
      <4>2. l - 1 \in 1..Len(Tail(j.models)) /\ l - 1 + 1 = l
        BY <1>4, <3>3, <4>1
      <4> QED BY <1>4, <2>1, <4>1, <4>2 DEF Sees
    <3> QED BY <3>1, <3>2, <3>3
  <2>4. Passed(b)'
    BY <1>1, <1>2, <1>3, <2>1, <2>3, PassedOn DEF JobOK
  <2>5. LateKnows(b)'
    <3>1. ASSUME j.late PROVE built /\ \A l \in 1..Len(j.models) : Known(j.models[l])
      BY <1>1, <1>2, <3>1 DEF JobOK, LateKnows
    <3>2. ASSUME j.late PROVE stack = <<>>
      <4>1. Known(m)
        BY <1>4, <3>1, <3>2
      <4> QED BY <1>1, <4>1 DEF Known
    <3>3. ASSUME j.late, NEW l \in 1..Len(Tail(j.models)) PROVE Known(Tail(j.models)[l])
      <4>1. l + 1 \in 1..Len(j.models)
        BY <1>4
      <4> QED BY <1>4, <3>1, <3>3, <4>1
    <3> QED BY <1>3, <2>1, <3>1, <3>2, <3>3 DEF LateKnows, Known
  <2> QED BY <2>1, <2>4, <2>5 DEF IdleEmpty
<1>10. AllKnown'
  BY <1>2, <1>3, AllStillKnown
<1> QED BY <1>1, <1>3, <1>5, <1>6, <1>7, <1>8, <1>9, <1>10, BuildStep

\* A Build returns: it has passed all routes, so all models are in the map.
LEMMA EncodeStep ==
  ASSUME IInv, NEW b \in Jobs, Encode(b) PROVE IInv'
<1>1. PICK j, r :
        /\ j = job[b]
        /\ r = [pc |-> "done", route |-> j.route, models |-> j.models, stack |-> j.stack,
                refs |-> j.refs, late |-> j.late]
  OBVIOUS
<1>2. Typed /\ JobOK(b) /\ IsJob(j) /\ j.route \in Nat \ {0}
  BY <1>1 DEF IInv, Typed
<1>3. /\ j.models = <<>> /\ j.stack = <<>> /\ j.route > Len(app.routes)
      /\ UNCHANGED <<app, schemas>> /\ built'
  BY <1>1 DEF Encode, AtEncode, Between
<1>4. job' = [job EXCEPT ![b] = r]
  <2>1. [j EXCEPT !.pc = "done"] = r
    BY <1>1, <1>2 DEF IsJob
  <2> QED BY <1>1, <2>1 DEF Encode
<1>5. /\ IsJob(r) /\ r.route \in Nat \ {0} /\ r.models \in Seq(Models) /\ IsStack(r.stack)
      /\ r.refs \subseteq DOMAIN schemas /\ 1..Len(r.stack) = {}
  BY <1>1, <1>2, <1>3 DEF IsJob, Typed, JobOK, RefsKnown
<1>6. \A m : Sees(b, m) => Known(m)
  BY <1>1, <1>3 DEF Sees
<1>7. ASSUME NEW i \in 1..Len(app.routes), NEW k \in 1..Len(ModelsOf(i))
      PROVE  Known(ModelsOf(i)[k])
  <2>1. app.routes \in Seq(STRING)
    BY <1>2, AppsAssumption DEF Typed
  <2>2. i < j.route
    BY <1>2, <1>3, <2>1
  <2> QED BY <1>1, <1>2, <1>6, <2>2 DEF JobOK, Passed
<1>8. AllKnown'
  BY <1>3, <1>7 DEF AllKnown, ModelsOf, Known
<1>9. ASSUME job'[b] = r PROVE Passed(b)' /\ IdleEmpty(b)' /\ LateKnows(b)'
  <2>1. /\ job'[b].models = <<>> /\ job'[b].stack = <<>> /\ job[b].models = <<>>
        /\ job'[b].route = job[b].route /\ job'[b].pc = "done" /\ job'[b].late = j.late
    BY <1>1, <1>3, <1>9
  <2>2. \A m : Sees(b, m) => Sees(b, m)'
    BY <1>3, <1>6 DEF Sees, Known
  <2>3. Passed(b)'
    BY <1>2, <1>3, <2>1, <2>2, PassedOn DEF JobOK
  <2>4. 1..Len(job'[b].models) = {}
    BY <2>1
  <2> QED BY <1>3, <2>1, <2>3, <2>4 DEF IdleEmpty, LateKnows
<1> QED BY <1>1, <1>3, <1>4, <1>5, <1>8, <1>9, BuildStep

\* The set-up is over, with or without Builds to come.
LEMMA SetupStep ==
  ASSUME IInv, SetupDone PROVE IInv'
<1>1. PICK b \in Jobs : b = "setup"
  BY DEF Jobs
<1>2. PICK j, r :
        /\ j = job[b]
        /\ r = [pc |-> "done", route |-> j.route, models |-> j.models, stack |-> j.stack,
                refs |-> j.refs, late |-> j.late]
  OBVIOUS
<1>3. Typed /\ AllKnown /\ JobOK(b) /\ IsJob(j)
  BY <1>2 DEF IInv, Typed
<1>4. j.models = <<>> /\ j.stack = <<>> /\ UNCHANGED <<app, schemas, built>>
  BY <1>1, <1>2 DEF SetupDone, Between
<1>5. job' = [job EXCEPT ![b] = r]
  <2>1. [j EXCEPT !.pc = "done"] = r
    BY <1>2, <1>3 DEF IsJob
  <2> QED BY <1>1, <1>2, <2>1 DEF SetupDone
<1>6. /\ IsJob(r) /\ r.route \in Nat \ {0} /\ r.models \in Seq(Models) /\ IsStack(r.stack)
      /\ r.refs \subseteq DOMAIN schemas /\ 1..Len(r.stack) = {}
  BY <1>2, <1>3, <1>4 DEF IsJob, Typed, JobOK, RefsKnown
<1>7. ASSUME job'[b] = r PROVE Passed(b)' /\ IdleEmpty(b)' /\ LateKnows(b)'
  <2>1. /\ job'[b].models = job[b].models /\ job'[b].stack = job[b].stack
        /\ job'[b].route = job[b].route /\ job'[b].pc = "done" /\ job'[b].late = job[b].late
    BY <1>2, <1>7
  <2>2. \A m : Sees(b, m) => Sees(b, m)'
    BY <1>4, <2>1 DEF Sees, Known
  <2>3. Passed(b)'
    BY <1>3, <1>4, <2>1, <2>2, PassedOn DEF JobOK
  <2> QED BY <1>3, <1>4, <2>1, <2>3 DEF IdleEmpty, LateKnows, JobOK, Known
<1>8. AllKnown'
  BY <1>3, <1>4, AllStillKnown
<1> QED BY <1>2, <1>4, <1>5, <1>6, <1>7, <1>8, BuildStep

\* A step that leaves the jobs and the map alone: the process ends, or nothing happens.
LEMMA SameStep ==
  ASSUME IInv, UNCHANGED <<app, schemas, job, built>> PROVE IInv'
<1>1. Typed'
  BY DEF IInv, Typed, IsJob, IsStack, IsFrame
<1>2. \A c \in Jobs : JobOK(c)'
  BY OthersOK DEF IInv
<1>3. AllKnown'
  BY AllStillKnown DEF IInv
<1>4. SchemasResolve'
  BY DEF IInv, SchemasResolve
<1> QED BY <1>1, <1>2, <1>3, <1>4 DEF IInv

----------------------------------------------------------------------------
(* The theorems.                                                            *)

\* Every step of the generator keeps the invariant.
LEMMA NextIInv == IInv /\ [Next]_vars => IInv'
<1> SUFFICES ASSUME IInv, [Next]_vars PROVE IInv'
  OBVIOUS
<1>1. ASSUME NEW b \in Jobs, Field(b) PROVE IInv'
  BY <1>1, FieldStep
<1>2. ASSUME NEW b \in Jobs, Return(b) PROVE IInv'
  BY <1>2, ReturnStep
<1>3. ASSUME NEW b \in Jobs, Overflow(b) PROVE IInv'
  BY <1>3, SameStep DEF Overflow
<1>4. ASSUME NEW b \in Jobs, Route(b) PROVE IInv'
  BY <1>4, RouteStep
<1>5. ASSUME NEW b \in Jobs, Model(b) PROVE IInv'
  BY <1>5, ModelStep
<1>6. ASSUME NEW b \in Jobs, Encode(b) PROVE IInv'
  BY <1>6, EncodeStep
<1>7. ASSUME NEW b \in Requests, Request(b) PROVE IInv'
  BY <1>7, RequestStep DEF Jobs
<1>8. ASSUME SetupDone PROVE IInv'
  BY <1>8, SetupStep
<1>9. ASSUME Race PROVE IInv'
  BY <1>9, SameStep DEF Race
<1>10. ASSUME UNCHANGED vars PROVE IInv'
  BY <1>10, SameStep DEF vars
<1> QED BY <1>1, <1>2, <1>3, <1>4, <1>5, <1>6, <1>7, <1>8, <1>9, <1>10 DEF Next

\* The invariant, for any types, set-ups and number of concurrent Builds.
THEOREM Invariance == Spec => []IInv
<1> QED BY InitIInv, NextIInv, PTL DEF Spec

\* Every reference of a component or of a document leads to a component.
THEOREM Resolved == Spec => []RefsResolve
<1>1. IInv => RefsResolve
  BY DEF IInv, SchemasResolve, JobOK, RefsKnown, RefsResolve
<1> QED BY <1>1, Invariance, PTL

\* A Build that begins after another has returned writes nothing into the map.
THEOREM LateReads == Spec => []LateBuildsOnlyRead
<1>1. IInv => LateBuildsOnlyRead
  <2> SUFFICES ASSUME IInv, NEW b \in Requests, job[b].late PROVE ~AtWrite(b)
    BY DEF LateBuildsOnlyRead
  <2>1. job[b].stack = <<>>
    BY DEF IInv, JobOK, LateKnows, Jobs
  <2> QED BY <2>1 DEF AtWrite, AtReturn
<1> QED BY <1>1, Invariance, PTL

=============================================================================
