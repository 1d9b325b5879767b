--------------------------- MODULE MigrateEngine ---------------------------
(***************************************************************************)
(* src/migrate/migrate.go: Engine.Up, Engine.Down and Engine.Status, run   *)
(* by several processes against one database (`elgon migrate`, or an       *)
(* application that migrates when it starts, on every replica).  An engine *)
(* reads the applied versions once and then works through its own list,    *)
(* one transaction per migration; nothing locks the migration table        *)
(* between the two.                                                        *)
(***************************************************************************)
EXTENDS Naturals, FiniteSets, FiniteSetsExt

CONSTANTS
    Versions,           \* the versions Load found
    BlankChoices,       \* sets of versions whose up or down SQL may be blank
    Engines,            \* concurrent calls of Up, Down or Status
    StepChoices,        \* the steps they are given, 0 for no limit
    MaxFaults           \* bound: failed statements and crashes

ASSUME VersionsAssumption == Versions \subseteq Nat /\ IsFiniteSet(Versions)
ASSUME ScriptsAssumption == BlankChoices \subseteq SUBSET Versions
ASSUME BoundsAssumption == StepChoices \subseteq Nat /\ MaxFaults \in Nat

VARIABLES
    \* what the engines meet, fixed for a behaviour
    transactionalDDL,   \* the database rolls DDL back (not so MySQL)
    idempotent,         \* the scripts say IF [NOT] EXISTS
    noUp, noDown,       \* versions whose up / down SQL is blank
    \* the database, as other transactions see it
    tableExists,    \* schema_migrations exists
    recorded,       \* the versions in schema_migrations
    objects,        \* the versions whose tables, columns... exist
    locks,          \* engines whose transaction has the locks of its version
    \* the engines
    pc, mode, steps,
    todo,           \* versions the loop has still to visit
    cur,            \* the version of the current transaction
    count,          \* what Up or Down will return
    failed,         \* it returned an error
    faults,
    \* history
    work            \* versions the engine's own commits added or removed

given  == <<transactionalDDL, idempotent, noUp, noDown>>
db     == <<tableExists, recorded, objects, locks>>
engine == <<pc, mode, steps, todo, cur, count, failed, work>>
vars   == <<given, db, engine, faults>>

\* The versions below v.
Below(v) == {u \in Versions : u < v}

\* No version is applied above one that is not.
Contiguous(S) == \A v \in S : Below(v) \subseteq S

\* An earlier history of complete migrations, and engines not yet called.
Init ==
    /\ transactionalDDL \in BOOLEAN
    /\ idempotent \in BOOLEAN
    /\ noUp \in BlankChoices
    /\ noDown \in BlankChoices
    /\ recorded \in {S \in SUBSET Versions : Contiguous(S)}
    /\ objects = recorded
    /\ locks = {}
    /\ tableExists \in {b \in BOOLEAN : recorded # {} => b}
    /\ pc = [e \in Engines |-> "idle"]
    /\ mode \in [Engines -> {"up", "down", "status"}]
    /\ steps \in [Engines -> StepChoices]
    /\ todo = [e \in Engines |-> {}]
    /\ cur = [e \in Engines |-> 0]
    /\ count = [e \in Engines |-> 0]
    /\ failed = [e \in Engines |-> FALSE]
    /\ faults = 0
    /\ work = [e \in Engines |-> {}]

----------------------------------------------------------------------------

\* The statement returns an error for a reason of its own.
Fault == faults < MaxFaults /\ faults' = faults + 1

\* Up, Down or Status returns.
Return(e, err) ==
    /\ pc' = [pc EXCEPT ![e] = "done"]
    /\ failed' = [failed EXCEPT ![e] = err]

GoTo(e, label) ==
    /\ pc' = [pc EXCEPT ![e] = label]
    /\ UNCHANGED failed

Start(e) ==
    /\ pc[e] = "idle"
    /\ GoTo(e, "ensure")
    /\ UNCHANGED <<given, db, mode, steps, todo, cur, count, work, faults>>

EnsureTable(e) ==
    /\ pc[e] = "ensure"
    /\ \/ GoTo(e, "read") /\ tableExists' = TRUE /\ UNCHANGED faults
       \/ Return(e, TRUE) /\ tableExists' \in {tableExists, TRUE} /\ Fault
    /\ UNCHANGED <<given, recorded, objects, locks, mode, steps, todo, cur, count, work>>

\* appliedVersions: the loop skips what this one SELECT did, or did not, see.
\* Status only reports it.
ReadApplied(e) ==
    /\ pc[e] = "read"
    /\ \/ /\ todo' = [todo EXCEPT ![e] = IF mode[e] = "up" THEN Versions \ recorded
                                         ELSE IF mode[e] = "down" THEN recorded
                                         ELSE {}]
          /\ GoTo(e, "next")
          /\ UNCHANGED faults
       \/ Return(e, TRUE) /\ Fault /\ UNCHANGED todo
    /\ UNCHANGED <<given, db, mode, steps, cur, count, work>>

\* Fault: the two orders exchanged.
NextVersionReversed(e) == IF mode[e] = "up" THEN Max(todo[e]) ELSE Min(todo[e])

\* Ascending versions on the way up, descending on the way down.
NextVersion(e) == IF mode[e] = "up" THEN Min(todo[e]) ELSE Max(todo[e])

StepsLeft(e) == steps[e] > 0 => count[e] < steps[e]

Blank(e, v) == IF mode[e] = "up" THEN v \in noUp ELSE v \in noDown

\* The head of the loop.
LoopEnds(e) ==
    /\ pc[e] = "next"
    /\ todo[e] = {} \/ ~StepsLeft(e)
    /\ Return(e, FALSE)
    /\ UNCHANGED <<given, db, mode, steps, todo, cur, count, work, faults>>

\* Fault: blank SQL ends the loop without an error.
LoopMissingSQLQuietly(e) ==
    /\ pc[e] = "next"
    /\ todo[e] # {} /\ StepsLeft(e)
    /\ Blank(e, NextVersion(e))
    /\ Return(e, FALSE)
    /\ UNCHANGED <<given, db, mode, steps, todo, cur, count, work, faults>>

LoopMissingSQL(e) ==
    /\ pc[e] = "next"
    /\ todo[e] # {} /\ StepsLeft(e)
    /\ Blank(e, NextVersion(e))
    /\ Return(e, TRUE)
    /\ UNCHANGED <<given, db, mode, steps, todo, cur, count, work, faults>>

LoopBegin(e) ==
    /\ pc[e] = "next"
    /\ todo[e] # {} /\ StepsLeft(e)
    /\ ~Blank(e, NextVersion(e))
    /\ \/ /\ GoTo(e, "exec")
          /\ cur' = [cur EXCEPT ![e] = NextVersion(e)]
          /\ UNCHANGED faults
       \/ Return(e, TRUE) /\ Fault /\ UNCHANGED cur
    /\ UNCHANGED <<given, db, mode, steps, todo, count, work>>

----------------------------------------------------------------------------
(* applyOne and rollbackOne.  Transactions on the objects of one version    *)
(* run one after the other: the second waits until the first is committed   *)
(* or rolled back, whatever the call does.  Where DDL commits at once, the  *)
(* statements after it do too, and nothing waits.                           *)

Locked(e) ==
    /\ transactionalDDL
    /\ \E f \in locks \ {e} : cur[f] = cur[e]

Release(e) == locks' = locks \ {e}

After(S, e) == IF mode[e] = "up" THEN S \cup {cur[e]} ELSE S \ {cur[e]}

\* CREATE fails when the object exists and DROP when it does not, unless the
\* script provides for that.
ScriptFails(e) == ~idempotent /\ After(objects, e) = objects

\* Fault: the script is sent to e.DB, outside the transaction.
ExecOutsideTx(e) ==
    /\ pc[e] = "exec"
    /\ ~Locked(e)
    /\ ~ScriptFails(e)
    /\ GoTo(e, "record")
    /\ objects' = After(objects, e)
    /\ locks' = locks \cup {e}
    /\ UNCHANGED <<given, faults, tableExists, recorded, mode, steps, todo, cur, count, work>>

Exec(e) ==
    /\ pc[e] = "exec"
    /\ ~Locked(e)
    /\ \/ /\ ~ScriptFails(e)
          /\ GoTo(e, "record")
          /\ objects' = IF transactionalDDL THEN objects ELSE After(objects, e)
          /\ locks' = locks \cup {e}
          /\ UNCHANGED faults
       \/ ScriptFails(e) /\ Return(e, TRUE) /\ Release(e) /\ UNCHANGED <<objects, faults>>
       \/ Return(e, TRUE) /\ Release(e) /\ Fault /\ UNCHANGED objects
    /\ UNCHANGED <<given, tableExists, recorded, mode, steps, todo, cur, count, work>>

\* version is the primary key: INSERT of a recorded version fails.  DELETE of
\* one that is not there succeeds.
Duplicate(e) == mode[e] = "up" /\ cur[e] \in recorded

Write(e) ==
    /\ recorded' = After(recorded, e)
    /\ work' = [work EXCEPT ![e] =
                   IF recorded' = recorded THEN @ ELSE @ \cup {cur[e]}]

\* Fault: the error of the INSERT or DELETE is returned without a Rollback.
RecordLeavesOpen(e) ==
    /\ pc[e] = "record"
    /\ \/ /\ ~Duplicate(e)
          /\ GoTo(e, "commit")
          /\ IF transactionalDDL THEN UNCHANGED <<recorded, work>> ELSE Write(e)
          /\ UNCHANGED faults
       \/ Duplicate(e) /\ Return(e, TRUE) /\ UNCHANGED <<recorded, work, faults>>
       \/ Return(e, TRUE) /\ Fault /\ UNCHANGED <<recorded, work>>
    /\ UNCHANGED <<given, tableExists, objects, locks, mode, steps, todo, cur, count>>

Record(e) ==
    /\ pc[e] = "record"
    /\ \/ /\ ~Duplicate(e)
          /\ GoTo(e, "commit")
          /\ IF transactionalDDL THEN UNCHANGED <<recorded, work>> ELSE Write(e)
          /\ UNCHANGED <<locks, faults>>
       \/ Duplicate(e) /\ Return(e, TRUE) /\ Release(e) /\ UNCHANGED <<recorded, work, faults>>
       \/ Return(e, TRUE) /\ Release(e) /\ Fault /\ UNCHANGED <<recorded, work>>
    /\ UNCHANGED <<given, tableExists, objects, mode, steps, todo, cur, count>>

CommitEffect(e) ==
    IF transactionalDDL
    THEN Write(e) /\ objects' = After(objects, e)
    ELSE UNCHANGED <<recorded, objects, work>>

\* Fault: a migration is counted before its commit is known.
CommitCountsFirst(e) ==
    /\ pc[e] = "commit"
    /\ Release(e)
    /\ count' = [count EXCEPT ![e] = @ + 1]
    /\ \/ /\ CommitEffect(e)
          /\ GoTo(e, "next")
          /\ todo' = [todo EXCEPT ![e] = @ \ {cur[e]}]
          /\ UNCHANGED faults
       \/ /\ Return(e, TRUE)
          /\ Fault
          /\ CommitEffect(e) \/ UNCHANGED <<recorded, objects, work>>
          /\ UNCHANGED todo
    /\ UNCHANGED <<given, tableExists, mode, steps, cur>>

\* Commit succeeds, or fails, or takes effect and its answer is lost.
Commit(e) ==
    /\ pc[e] = "commit"
    /\ Release(e)
    /\ \/ /\ CommitEffect(e)
          /\ GoTo(e, "next")
          /\ todo' = [todo EXCEPT ![e] = @ \ {cur[e]}]
          /\ count' = [count EXCEPT ![e] = @ + 1]
          /\ UNCHANGED faults
       \/ /\ Return(e, TRUE)
          /\ Fault
          /\ CommitEffect(e) \/ UNCHANGED <<recorded, objects, work>>
          /\ UNCHANGED <<todo, count>>
    /\ UNCHANGED <<given, tableExists, mode, steps, cur>>

\* The process ends; the database rolls its transaction back.
Crash(e) ==
    /\ pc[e] \notin {"idle", "done"}
    /\ Return(e, TRUE)
    /\ Release(e)
    /\ Fault
    /\ UNCHANGED <<given, tableExists, recorded, objects, mode, steps, todo, cur, count, work>>

Quiet == (\A e \in Engines : pc[e] = "done") /\ UNCHANGED vars

Step(e) ==
    \/ EnsureTable(e) \/ ReadApplied(e)
    \/ LoopEnds(e) \/ LoopMissingSQL(e) \/ LoopBegin(e)
    \/ Exec(e) \/ Record(e) \/ Commit(e)

Next == (\E e \in Engines : Start(e) \/ Step(e) \/ Crash(e)) \/ Quiet

Spec == Init /\ [][Next]_vars

\* A call that was made goes on as long as the database lets it.
FairSpec == Spec /\ \A e \in Engines : WF_vars(Step(e))

----------------------------------------------------------------------------
(* Properties.                                                              *)

\* No call rolls back, or none applies: what the calls of one deployment do.
OnlyUp   == \A e \in Engines : mode[e] # "down"
OnlyDown == \A e \in Engines : mode[e] # "up"

\* With transactional DDL the migration table describes the schema at every
\* moment, over crashes, lost commits and engines that work on the same version
\* from stale lists: applyOne and rollbackOne change both or neither.
SchemaMatchesTable == transactionalDDL => objects = recorded

\* Engines that all go up, or all go down, leave no hole in the history,
\* although each follows the list it read at its start.
NoHole == OnlyUp \/ OnlyDown => Contiguous(recorded)

\* What Up returns is the number of versions this call changed; a lost commit is
\* the only change that goes uncounted.  So is what Down returns, unless its
\* scripts say IF EXISTS, or an Up without transactional DDL restores the objects
\* a second Down then drops again.
CountIsWork ==
    \A e \in Engines :
        mode[e] = "up" \/ (~idempotent /\ (transactionalDDL \/ OnlyDown)) =>
            /\ count[e] <= Cardinality(work[e])
            /\ faults = 0 /\ pc[e] = "done" => count[e] = Cardinality(work[e])

\* An Up without a limit that returns no error leaves every migration applied,
\* whoever applied it, and an Up with one has applied what it was asked for.
UpIsComplete ==
    \A e \in Engines :
        OnlyUp /\ pc[e] = "done" /\ mode[e] = "up" /\ ~failed[e]
            => \/ Versions \subseteq recorded
               \/ steps[e] > 0 /\ Cardinality(work[e]) = steps[e]

\* Every call returns: on each way out of applyOne and rollbackOne, a failed script,
\* a version that another engine has recorded, a lost commit, the transaction has
\* ended, so that the calls that wait for its version go on.
CallsReturn == \A e \in Engines : pc[e] = "ensure" ~> pc[e] = "done"

=============================================================================
