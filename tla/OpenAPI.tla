------------------------------ MODULE OpenAPI ------------------------------
(***************************************************************************)
(* src/openapi: the generator, whose map of component schemas is filled by *)
(* RegisterSchema while the application is set up and by every Build, that *)
(* is by every request for the specification, without a lock.  What a      *)
(* schema says of a type is reduced to the components it refers to; a map  *)
(* operation is one step.  Two goroutines that are at the map together,    *)
(* one of them to write, are a data race: the run-time may end the process *)
(* or let them pass in either order.  A stack that never ends does end the *)
(* process.                                                                *)
(***************************************************************************)
EXTENDS Naturals, Sequences, SequencesExt

CONSTANTS
    Types,          \* type -> [kind, name, fields]; see Children
    Apps,           \* what an application may set up: routes, models of their
                    \* operations, registered schemas
    Requests,       \* requests for the specification
    MaxDepth        \* bound: nested calls of buildSchema the stack holds

ASSUME TypesAssumption ==
    \A t \in DOMAIN Types : \A i \in DOMAIN Types[t].fields : Types[t].fields[i].type \in DOMAIN Types

\* A model of an operation or of RegisterSchema: a type and the name for it.
Models == [name : STRING, type : DOMAIN Types]

ASSUME AppsAssumption ==
    \A a \in Apps :
        /\ a.routes \in Seq(STRING)
        /\ a.registered \in Seq(Models)
        /\ \A r \in DOMAIN a.opts : a.opts[r] \in Seq(Models)

VARIABLES
    app,            \* the routes and the operations AddOperation attached to them
    schemas,        \* Generator.schemas: component -> the components it refers to
    job,            \* job[b]: the call "setup" or the Build of request b
    built,          \* a Build has returned
    crashed         \* "", "race" or "overflow"

vars == <<app, schemas, job, built, crashed>>

Jobs == Requests \cup {"setup"}

Idle == [pc |-> "idle", route |-> 1, models |-> <<>>, stack |-> <<>>, refs |-> {}, late |-> FALSE]

\* The set-up calls RegisterSchema for some models, each under a name.
Init ==
    /\ app \in Apps
    /\ schemas = <<>>
    /\ job = [b \in Jobs |-> IF b = "setup" THEN [Idle EXCEPT !.pc = "run", !.models = app.registered]
                             ELSE Idle]
    /\ built = FALSE
    /\ crashed = ""

----------------------------------------------------------------------------
(* buildSchema                                                              *)

\* A call of buildSchema: the name its result is stored under, "" if it becomes
\* part of the caller's; the field to look at; the components seen so far.
Frame(name, t) == [name |-> name, type |-> t, next |-> 1, refs |-> {}]

\* jsonFieldName and PkgPath: fields that are not exported or tagged "-" have no
\* property.  A slice, array or map has its element as the only field; time.Time
\* and the basic types have none.
Children(t) == SelectSeq(Types[t].fields, LAMBDA f : f.property)

Top(b) == Last(job[b].stack)
AtField(b) == job[b].stack # <<>> /\ Top(b).next <= Len(Children(Top(b).type))
Child(b) == Children(Top(b).type)[Top(b).next].type

\* A struct with a name other than the enclosing one's becomes a component;
\* time.Time is such a struct.
AsComponent(b) ==
    /\ AtField(b)
    /\ Types[Top(b).type].kind = "struct"
    /\ Types[Child(b)].kind \in {"struct", "time"}
    /\ Types[Child(b)].name \notin {"", Types[Top(b).type].name}

Alive == crashed = ""

Push(b, name, t) == job' = [job EXCEPT ![b].stack = Append(@, Frame(name, t))]

\* The field's schema is there: the top call notes it and goes on to the next.
Noted(stack, refs) ==
    [stack EXCEPT ![Len(stack)].next = @ + 1, ![Len(stack)].refs = @ \cup refs]

\* Built in place: a call of its own, unless the type has nothing to look into.
InPlace(b) ==
    IF Types[Child(b)].fields = <<>> THEN job' = [job EXCEPT ![b].stack = Noted(@, {})]
    ELSE Push(b, "", Child(b))

\* Fault: a component is referred to but not built.
FieldRefOnly(b) ==
    /\ Alive /\ AtField(b) /\ Len(job[b].stack) <= MaxDepth
    /\ IF AsComponent(b)
       THEN job' = [job EXCEPT ![b].stack = Noted(@, {Types[Child(b)].name})]
       ELSE InPlace(b)
    /\ UNCHANGED <<app, schemas, built, crashed>>

\* A component that is missing is built first; anything else is built in place.
Field(b) ==
    /\ Alive /\ AtField(b) /\ Len(job[b].stack) <= MaxDepth
    /\ IF AsComponent(b)
       THEN LET name == Types[Child(b)].name
            IN  IF name \in DOMAIN schemas
                THEN job' = [job EXCEPT ![b].stack = Noted(@, {name})]
                ELSE Push(b, name, Child(b))
       ELSE InPlace(b)
    /\ UNCHANGED <<app, schemas, built, crashed>>

AtReturn(b) == job[b].stack # <<>> /\ ~AtField(b)
AtWrite(b) == AtReturn(b) /\ Top(b).name # ""

\* buildSchema returns: its result goes into the map or into the caller's.
Return(b) ==
    /\ Alive /\ AtReturn(b)
    /\ LET own == IF Top(b).name = "" THEN Top(b).refs ELSE {Top(b).name}
           below == Front(job[b].stack)
       IN  /\ schemas' = IF Top(b).name = "" THEN schemas
                         ELSE [n \in DOMAIN schemas \cup {Top(b).name} |->
                                 IF n = Top(b).name THEN Top(b).refs ELSE schemas[n]]
           /\ job' = IF below # <<>> THEN [job EXCEPT ![b].stack = Noted(below, own)]
                     ELSE [job EXCEPT ![b].stack = <<>>, ![b].refs = @ \cup own]
    /\ UNCHANGED <<app, built, crashed>>

Overflow(b) ==
    /\ Alive /\ Len(job[b].stack) > MaxDepth
    /\ crashed' = "overflow"
    /\ UNCHANGED <<app, schemas, job, built>>

----------------------------------------------------------------------------
(* RegisterSchema and Build                                                 *)

\* A request after the set-up.
Request(b) ==
    /\ Alive /\ job[b].pc = "idle" /\ job["setup"].pc = "done"
    /\ job' = [job EXCEPT ![b].pc = "run", ![b].late = built]
    /\ UNCHANGED <<app, schemas, built, crashed>>

Between(b) == job[b].pc = "run" /\ job[b].stack = <<>>

\* The next route: the request and the response model of its operation.
Route(b) ==
    /\ Alive /\ b \in Requests /\ Between(b) /\ job[b].models = <<>>
    /\ job[b].route <= Len(app.routes)
    /\ LET key == app.routes[job[b].route]
       IN  job' = [job EXCEPT ![b].route = @ + 1,
                              ![b].models = IF key \in DOMAIN app.opts THEN app.opts[key] ELSE <<>>]
    /\ UNCHANGED <<app, schemas, built, crashed>>

AtModel(b) == Between(b) /\ job[b].models # <<>>

\* Fault: whatever is there is built again.
ModelAgain(b) ==
    /\ Alive /\ AtModel(b)
    /\ LET m == Head(job[b].models)
       IN  job' = [job EXCEPT ![b].models = Tail(@),
                              ![b].stack = IF m.name = "" THEN <<>> ELSE <<Frame(m.name, m.type)>>]
    /\ UNCHANGED <<app, schemas, built, crashed>>

\* ensureSchema, and RegisterSchema with a name of its own: nothing without a
\* name, the reference if the name is taken, or else the type's schema.
Model(b) ==
    /\ Alive /\ AtModel(b)
    /\ LET m == Head(job[b].models)
       IN  job' = [job EXCEPT
                     ![b].models = Tail(@),
                     ![b].refs = IF m.name \in DOMAIN schemas THEN @ \cup {m.name} ELSE @,
                     ![b].stack = IF m.name = "" \/ m.name \in DOMAIN schemas THEN <<>>
                                  ELSE <<Frame(m.name, m.type)>>]
    /\ UNCHANGED <<app, schemas, built, crashed>>

AtEncode(b) == /\ b \in Requests /\ Between(b) /\ job[b].models = <<>>
               /\ job[b].route > Len(app.routes)

\* Build has returned and the handler encodes the document with the shared map.
Encode(b) ==
    /\ Alive /\ AtEncode(b)
    /\ job' = [job EXCEPT ![b].pc = "done"]
    /\ built' = TRUE
    /\ UNCHANGED <<app, schemas, crashed>>

SetupDone ==
    /\ Alive /\ Between("setup") /\ job["setup"].models = <<>>
    /\ job' = [job EXCEPT !["setup"].pc = "done"]
    /\ UNCHANGED <<app, schemas, built, crashed>>

\* One is about to write, the other to look up, to write or to encode.
AtMap(b) == AtWrite(b) \/ AsComponent(b) \/ AtEncode(b)
            \/ (AtModel(b) /\ Head(job[b].models).name # "")

Race ==
    /\ Alive
    /\ \E b \in Jobs : AtWrite(b) /\ \E c \in Jobs \ {b} : AtMap(c)
    /\ crashed' = "race"
    /\ UNCHANGED <<app, schemas, job, built>>

Next ==
    \/ \E b \in Jobs : Field(b) \/ Return(b) \/ Overflow(b) \/ Route(b) \/ Model(b) \/ Encode(b)
    \/ \E b \in Requests : Request(b)
    \/ SetupDone \/ Race

Spec == Init /\ [][Next]_vars

----------------------------------------------------------------------------
(* Properties.                                                              *)

\* Every "$ref" resolves: those of each component at any time, even between the
\* steps of several Builds, and those of a document that is being encoded.
RefsResolve ==
    /\ \A n \in DOMAIN schemas : schemas[n] \subseteq DOMAIN schemas
    /\ \A b \in Jobs : job[b].refs \subseteq DOMAIN schemas

\* One Build before the requests is enough to make them safe: a Build that
\* begins after another has returned finds every component and writes none, so
\* such Builds never race each other, whatever models share or contain.
LateBuildsOnlyRead == \A b \in Requests : job[b].late => ~AtWrite(b)

=============================================================================
