------------------------------ MODULE AppData ------------------------------
(***************************************************************************)
(* src/app_db.go: the SQL adapter, the ORM dialect and the ORM client an   *)
(* App hands out, shared by request handlers (SQL, ORM) and by whoever     *)
(* configures the application (SetSQL, SetORMDialect).  Each section under *)
(* dataMu is one step; ORM has two, a shared one and an exclusive one, and *)
(* the configuration may change between them.                              *)
(***************************************************************************)
EXTENDS Naturals

CONSTANTS
    Adapters,       \* db.Adapter values
    Nil,            \* no adapter, no client
    Dialects,
    Callers,        \* goroutines that call ORM
    MaxChanges      \* bound: calls of SetSQL and SetORMDialect

ASSUME NilAssumption == Nil \notin Adapters
ASSUME BoundAssumption == MaxChanges \in Nat

VARIABLES
    sqlDB, ormDialect, ormClient,   \* the fields of App
    pc, result,                     \* the callers of ORM, and what they got last
    \* history
    epoch,      \* configuration changes so far
    builds,     \* clients built since the last change
    during      \* during[c]: the configurations in force since c's call began

dataVars == <<sqlDB, ormDialect, ormClient, pc, result, epoch, builds, during>>

\* A client is known by what it was built from and when.
Client == [adapter : Adapters, dialect : Dialects, epoch : Nat]

ASSUME NilIsNoClient == Nil \notin Client

Configs == (Adapters \cup {Nil}) \X Dialects

TypeOK ==
    /\ sqlDB \in Adapters \cup {Nil}
    /\ ormDialect \in Dialects
    /\ ormClient \in Client \cup {Nil}
    /\ pc \in [Callers -> {"idle", "slow"}]
    /\ result \in [Callers -> Client \cup {Nil}]
    /\ epoch \in Nat
    /\ builds \in Nat
    /\ during \in [Callers -> SUBSET Configs]

DataInit ==
    /\ sqlDB = Nil
    /\ ormDialect \in Dialects
    /\ ormClient = Nil
    /\ pc = [c \in Callers |-> "idle"]
    /\ result = [c \in Callers |-> Nil]
    /\ epoch = 0
    /\ builds = 0
    /\ during = [c \in Callers |-> {<<Nil, ormDialect>>}]

Config == <<sqlDB, ormDialect>>

\* A change is seen by every call that is under way.
Changed == during' = [c \in Callers |->
              IF pc[c] = "slow" THEN during[c] \cup {Config'} ELSE during[c]]

\* Fault: the cached client survives a new adapter.
SetSQLKeepsClient(a) ==
    /\ epoch < MaxChanges
    /\ sqlDB' = a
    /\ epoch' = epoch + 1
    /\ builds' = 0
    /\ UNCHANGED <<ormDialect, ormClient, pc, result>>
    /\ Changed

SetSQL(a) ==
    /\ epoch < MaxChanges
    /\ sqlDB' = a
    /\ ormClient' = Nil
    /\ epoch' = epoch + 1
    /\ builds' = 0
    /\ UNCHANGED <<ormDialect, pc, result>>
    /\ Changed

\* Fault: the cached client survives a new dialect.
SetORMDialectKeepsClient(d) ==
    /\ epoch < MaxChanges
    /\ ormDialect' = d
    /\ epoch' = epoch + 1
    /\ builds' = 0
    /\ UNCHANGED <<sqlDB, ormClient, pc, result>>
    /\ Changed

SetORMDialect(d) ==
    /\ epoch < MaxChanges
    /\ ormDialect' = d
    /\ ormClient' = Nil
    /\ epoch' = epoch + 1
    /\ builds' = 0
    /\ UNCHANGED <<sqlDB, pc, result>>
    /\ Changed

\* ORM under the read lock: no adapter, a cached client, or on to the write lock.
ORMFast(c) ==
    /\ pc[c] = "idle"
    /\ during' = [during EXCEPT ![c] = {Config}]
    /\ IF sqlDB = Nil \/ ormClient # Nil
       THEN /\ result' = [result EXCEPT ![c] = IF sqlDB = Nil THEN Nil ELSE ormClient]
            /\ UNCHANGED pc
       ELSE /\ pc' = [pc EXCEPT ![c] = "slow"]
            /\ UNCHANGED result
    /\ UNCHANGED <<sqlDB, ormDialect, ormClient, epoch, builds>>

\* orm.NewWithConfig
NewClient == [adapter |-> sqlDB, dialect |-> ormDialect, epoch |-> epoch]

\* Fault: what the read lock showed is not looked at again.
ORMSlowUnchecked(c) ==
    /\ pc[c] = "slow"
    /\ pc' = [pc EXCEPT ![c] = "idle"]
    /\ ormClient' = NewClient
    /\ builds' = builds + 1
    /\ result' = [result EXCEPT ![c] = NewClient]
    /\ UNCHANGED <<sqlDB, ormDialect, epoch, during>>

\* ORM under the write lock: everything is looked at again.
ORMSlow(c) ==
    /\ pc[c] = "slow"
    /\ pc' = [pc EXCEPT ![c] = "idle"]
    /\ \/ /\ sqlDB = Nil
          /\ result' = [result EXCEPT ![c] = Nil]
          /\ UNCHANGED <<ormClient, builds>>
       \/ /\ sqlDB # Nil
          /\ ormClient # Nil
          /\ result' = [result EXCEPT ![c] = ormClient]
          /\ UNCHANGED <<ormClient, builds>>
       \/ /\ sqlDB # Nil
          /\ ormClient = Nil
          /\ ormClient' = NewClient
          /\ builds' = builds + 1
          /\ result' = [result EXCEPT ![c] = NewClient]
    /\ UNCHANGED <<sqlDB, ormDialect, epoch, during>>

DataNext ==
    \/ \E a \in Adapters \cup {Nil} : SetSQL(a)
    \/ \E d \in Dialects : SetORMDialect(d)
    \/ \E c \in Callers : ORMFast(c) \/ ORMSlow(c)

DataSpec == DataInit /\ [][DataNext]_dataVars

----------------------------------------------------------------------------
(* Properties.                                                              *)

\* The cached client is the one for the present adapter and dialect: neither
\* setter leaves an old one behind, and a slow ORM that began before a change
\* does not put one back.
CacheCoherent ==
    ormClient # Nil => /\ ormClient.adapter = sqlDB
                       /\ ormClient.dialect = ormDialect
                       /\ ormClient.epoch = epoch

\* Between two changes all callers share one client ("cached ORM client
\* instance" in app_db_test.go), even those that found no client together.
OneClientPerChange == builds <= 1

\* ORM answers for a configuration that was in force at some time during the
\* call, and returns nil only if there was then no adapter.
AnswersInForce ==
    \A c \in Callers : pc[c] = "idle" =>
        IF result[c] = Nil THEN \E g \in during[c] : g[1] = Nil
        ELSE <<result[c].adapter, result[c].dialect>> \in during[c]

=============================================================================
