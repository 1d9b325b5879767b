---------------------------- MODULE AutoMigrate ----------------------------
(***************************************************************************)
(* src/orm/schema.go: Client.AutoMigrate, called by several processes that *)
(* start together.  A call creates the tables of its entities one by one,  *)
(* in a transaction if the database gives it one.  The database is         *)
(* external: a transaction that created a table keeps its name from the    *)
(* others until it ends, and a transaction of a circle that waits is       *)
(* aborted; mysql commits every CREATE TABLE at once.                      *)
(***************************************************************************)
EXTENDS OrmSchema

CONSTANTS
    Processes,
    Configured,     \* the processes whose client has a database
    MaxMigFaults    \* bound: failed or unanswered requests to the database

VARIABLES
    cfgDialect,     \* the dialect of the clients
    stmts,          \* stmts[c]: what BuildCreateTableSQL gives for the entities of c's call
    tables,         \* committed tables: name -> [stmt, by]
    mig,            \* mig[c]: the state of call c
    migFaults

autoVars == <<cfgDialect, stmts, tables, mig, migFaults>>

\* Some processes call AutoMigrate, each with its list of entities.
AutoInit(lists, sqlDialects) ==
    /\ cfgDialect \in sqlDialects
    /\ stmts = [c \in DOMAIN lists |-> [i \in DOMAIN lists[c] |->
                   BuildCreateTableSQL(lists[c][i], cfgDialect)]]
    /\ tables = <<>>
    /\ mig = [c \in DOMAIN lists |->
                [pc |-> "idle", useTx |-> FALSE, i |-> 1, pending |-> <<>>, lost |-> FALSE]]
    /\ migFaults = 0

MigFault == migFaults < MaxMigFaults /\ migFaults' = migFaults + 1

\* The checks at the top and BeginTx; without a transaction the call goes on.
AutoBegin(c) ==
    /\ mig[c].pc = "idle"
    /\ \/ /\ c \notin Configured
          /\ mig' = [mig EXCEPT ![c].pc = "error"]
          /\ UNCHANGED migFaults
       \/ /\ c \in Configured /\ stmts[c] = <<>>
          /\ mig' = [mig EXCEPT ![c].pc = "ok"]
          /\ UNCHANGED migFaults
       \/ /\ c \in Configured /\ stmts[c] # <<>>
          /\ mig' = [mig EXCEPT ![c].pc = "loop", ![c].useTx = TRUE]
          /\ UNCHANGED migFaults
       \/ /\ c \in Configured /\ stmts[c] # <<>> /\ MigFault
          /\ mig' = [mig EXCEPT ![c].pc = "loop"]
    /\ UNCHANGED <<stmts, cfgDialect, tables>>

----------------------------------------------------------------------------
(* One turn of the loop                                                     *)

Stmt(c) == stmts[c][mig[c].i]

AtEntity(c) == mig[c].pc = "loop" /\ mig[c].i <= Len(stmts[c])

\* What the database accepts: columns of different names, one primary key.
Executable(stmt) ==
    \A i, j \in DOMAIN stmt.cols : i # j =>
        /\ stmt.cols[i].column # stmt.cols[j].column
        /\ ~(stmt.cols[i].pk /\ stmt.cols[j].pk)

InTx(c) == mig[c].useTx /\ cfgDialect # "mysql"

Holder(c) == {o \in DOMAIN mig \ {c} : /\ AtEntity(c) /\ Stmt(c) # <<>>
                                       /\ Stmt(c)[1].table \in DOMAIN mig[o].pending}

\* The tables in db and the one that call c creates by stmt.
With(db, stmt, c) ==
    [t \in DOMAIN db \cup {stmt.table} |->
        IF t = stmt.table THEN [stmt |-> stmt, by |-> c] ELSE db[t]]

\* The tables after call c commits.
Merged(c) ==
    [t \in DOMAIN tables \cup DOMAIN mig[c].pending |->
        IF t \in DOMAIN mig[c].pending THEN mig[c].pending[t] ELSE tables[t]]

\* Rollback, if there is a transaction, and the error is returned.
Fails(c) == mig' = [mig EXCEPT ![c].pc = "error", ![c].pending = <<>>]

\* Fault: an entity that has no statement returns without a rollback.
AutoRefusedOpen(c) ==
    /\ AtEntity(c)
    /\ Stmt(c) = <<>>
    /\ mig' = [mig EXCEPT ![c].pc = "error"]
    /\ UNCHANGED <<stmts, cfgDialect, tables, migFaults>>

AutoRefused(c) ==
    /\ AtEntity(c)
    /\ Stmt(c) = <<>>
    /\ Fails(c)
    /\ UNCHANGED <<stmts, cfgDialect, tables, migFaults>>

\* ExecContext of CREATE TABLE IF NOT EXISTS.
AutoCreate(c) ==
    /\ AtEntity(c)
    /\ Stmt(c) # <<>>
    /\ Holder(c) = {}
    /\ LET stmt == Stmt(c)[1]
           exists == stmt.table \in DOMAIN tables \cup DOMAIN mig[c].pending
       IN  \/ /\ exists
              /\ mig' = [mig EXCEPT ![c].i = @ + 1]
              /\ UNCHANGED tables
           \/ /\ ~exists /\ ~Executable(stmt)
              /\ Fails(c)
              /\ UNCHANGED tables
           \/ /\ ~exists /\ Executable(stmt) /\ InTx(c)
              /\ mig' = [mig EXCEPT ![c].i = @ + 1, ![c].pending = With(mig[c].pending, stmt, c)]
              /\ UNCHANGED tables
           \/ /\ ~exists /\ Executable(stmt) /\ ~InTx(c)
              /\ mig' = [mig EXCEPT ![c].i = @ + 1]
              /\ tables' = With(tables, stmt, c)
    /\ UNCHANGED <<stmts, cfgDialect, migFaults>>

\* Two transactions wait for each other's table: the database aborts one.
AutoAborted(c) ==
    /\ \E o \in Holder(c) : c \in Holder(o)
    /\ Fails(c)
    /\ UNCHANGED <<stmts, cfgDialect, tables, migFaults>>

\* The statement fails, or its answer is lost after it was executed.
AutoExecFails(c) ==
    /\ AtEntity(c)
    /\ Stmt(c) # <<>>
    /\ MigFault
    /\ Fails(c)
    /\ LET stmt == Stmt(c)[1]
       IN  \/ UNCHANGED tables
           \/ /\ ~InTx(c) /\ Holder(c) = {} /\ Executable(stmt)
              /\ stmt.table \notin DOMAIN tables
              /\ tables' = With(tables, stmt, c)
    /\ UNCHANGED <<stmts, cfgDialect>>

----------------------------------------------------------------------------

\* Fault: the transaction is never committed.
AutoReturnUncommitted(c) ==
    /\ mig[c].pc = "loop" /\ mig[c].i > Len(stmts[c])
    /\ mig' = [mig EXCEPT ![c].pc = "ok", ![c].pending = <<>>]
    /\ UNCHANGED <<stmts, cfgDialect, tables, migFaults>>

\* Commit, whose answer may be lost with or without effect.
AutoReturn(c) ==
    /\ mig[c].pc = "loop" /\ mig[c].i > Len(stmts[c])
    /\ \/ /\ tables' = Merged(c)
          /\ mig' = [mig EXCEPT ![c].pc = "ok", ![c].pending = <<>>]
          /\ UNCHANGED migFaults
       \/ /\ mig[c].useTx /\ MigFault
          /\ mig' = [mig EXCEPT ![c].pc = "error", ![c].pending = <<>>, ![c].lost = TRUE]
          /\ tables' \in {tables, Merged(c)}
    /\ UNCHANGED <<stmts, cfgDialect>>

AutoStep(c) == AutoBegin(c) \/ AutoRefused(c) \/ AutoCreate(c) \/ AutoAborted(c) \/ AutoReturn(c)

AutoNext == \E c \in DOMAIN mig : AutoStep(c) \/ AutoExecFails(c)

----------------------------------------------------------------------------
(* Properties.                                                              *)

\* "AutoMigrate creates missing tables for the provided entities" and does so
\* whole: a call that answers nil leaves every table of its entities in the
\* database, and one that answers with an error leaves none that it created,
\* as long as it had a transaction that covers CREATE TABLE and the answer to
\* its commit arrived, whoever else is migrating.
MigrateAccounts ==
    \A c \in DOMAIN mig :
        /\ mig[c].pc = "ok" =>
               \A i \in DOMAIN stmts[c] :
                   stmts[c][i] # <<>> /\ stmts[c][i][1].table \in DOMAIN tables
        /\ mig[c].pc = "error" /\ InTx(c) /\ ~mig[c].lost =>
               \A t \in DOMAIN tables : tables[t].by # c

\* No call waits for ever on the tables another one holds: each returns, as
\* long as the database answers.
MigrationsReturn ==
    \A c \in Processes : <>(c \notin DOMAIN mig \/ mig[c].pc \in {"ok", "error"})

=============================================================================
