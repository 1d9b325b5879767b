------------------------- MODULE MigrateEngineProofs -------------------------
(***************************************************************************)
(* What holds of concurrent calls of Up, Down and Status for any set of    *)
(* versions, any number of calls and any number of faults and crashes.     *)
(***************************************************************************)
EXTENDS MigrateEngine, FiniteSetTheorems, WellFoundedInduction, TLAPS

Points == {"idle", "ensure", "read", "next", "exec", "record", "commit", "done"}

Typed ==
    /\ transactionalDDL \in BOOLEAN /\ idempotent \in BOOLEAN
    /\ recorded \subseteq Versions /\ objects \subseteq Versions
    /\ pc \in [Engines -> Points]
    /\ mode \in [Engines -> {"up", "down", "status"}]
    /\ steps \in [Engines -> Nat]
    /\ todo \in [Engines -> SUBSET Versions]
    /\ cur \in [Engines -> Nat]
    /\ count \in [Engines -> Nat]
    /\ failed \in [Engines -> BOOLEAN]
    /\ work \in [Engines -> SUBSET Versions]
    /\ faults \in Nat

Called(e)  == pc[e] \in {"next", "exec", "record", "commit"}
InTx(e)    == pc[e] \in {"exec", "record", "commit"}
Holding(e) == pc[e] \in {"record", "commit"}

\* The row is written although the loop has not counted it: DDL has committed.
Landed(e) == pc[e] = "commit" /\ ~transactionalDDL

\* The version of a transaction is the one the loop is at; Status has no loop.
AtNext(e) ==
    /\ Called(e) /\ mode[e] = "status" => todo[e] = {}
    /\ InTx(e) =>
        /\ cur[e] \in todo[e]
        /\ mode[e] = "up" => \A v \in todo[e] : cur[e] <= v
        /\ mode[e] = "down" => \A v \in todo[e] : v <= cur[e]

\* A limit is never exceeded.
InLimit(e) == steps[e] > 0 => /\ count[e] <= steps[e]
                              /\ InTx(e) => count[e] < steps[e]

\* A call changes no version that it has still to visit.
Fresh(e) == /\ pc[e] \in {"idle", "ensure", "read"} => work[e] = {}
            /\ Called(e) => \A v \in work[e] \cap todo[e] : Landed(e) /\ v = cur[e]

\* While all go up, what a list leaves out is applied, and stays so.
UpKept == OnlyUp => \A e \in Engines : Called(e) /\ mode[e] = "up" =>
                        /\ Versions \ todo[e] \subseteq recorded
                        /\ Landed(e) => cur[e] \in recorded

\* While all go down, what a list leaves out is gone, and stays so.
DownKept == OnlyDown => \A e \in Engines : Called(e) /\ mode[e] = "down" =>
                            /\ recorded \subseteq todo[e]
                            /\ Landed(e) => cur[e] \notin recorded

\* Transactions on one version exclude each other, so what the script has found
\* of the version holds until the commit.
Apart == transactionalDDL => \A e, f \in Engines : Holding(e) /\ Holding(f) /\ e # f => cur[e] # cur[f]
Held == transactionalDDL => \A e \in Engines : Holding(e) =>
            /\ mode[e] = "down" /\ ~idempotent => cur[e] \in recorded
            /\ mode[e] = "up" /\ pc[e] = "commit" => cur[e] \notin recorded

\* Without, only one Down drops the objects of a version and it deletes the row.
Dropped == ~transactionalDDL /\ ~idempotent /\ OnlyDown =>
            /\ objects \subseteq recorded
            /\ \A e \in Engines : pc[e] = "record" => cur[e] \in recorded \ objects
            /\ \A e, f \in Engines : pc[e] = "record" /\ pc[f] = "record" /\ e # f => cur[e] # cur[f]

\* The calls whose result is what they changed.
Exact(e) == mode[e] = "up" \/ (~idempotent /\ (transactionalDDL \/ OnlyDown))

Counted(e) ==
    Exact(e) =>
        IF Landed(e) THEN cur[e] \in work[e] /\ count[e] + 1 = Cardinality(work[e])
        ELSE IF pc[e] # "done" \/ ~failed[e] \/ faults = 0 THEN count[e] = Cardinality(work[e])
        ELSE count[e] <= Cardinality(work[e])

\* An Up that returned without an error has done what it was asked for.
Complete(e) ==
    OnlyUp /\ pc[e] = "done" /\ mode[e] = "up" /\ ~failed[e]
        => Versions \subseteq recorded \/ (steps[e] > 0 /\ count[e] = steps[e])

CallOK(e) == AtNext(e) /\ InLimit(e) /\ Fresh(e) /\ Counted(e) /\ Complete(e)

Shared == SchemaMatchesTable /\ NoHole /\ UpKept /\ DownKept /\ Apart /\ Held /\ Dropped

IInv == Typed /\ Shared /\ \A e \in Engines : CallOK(e)

\* A call has locks exactly between its script and the end of its transaction; one
\* that has returned has none.
Locks == locks = {e \in Engines : Holding(e)}

----------------------------------------------------------------------------
(* The order of the versions.                                               *)

\* A set of numbers has a least one.
LEMMA LeastNumber ==
  ASSUME NEW T, T \subseteq Nat, T # {}
  PROVE  \E x \in T : \A y \in T : x <= y
<1>1. PICK R : R = OpToRel(<, Nat)
  OBVIOUS
<1>2. IsWellFoundedOn(R, Nat)
  BY <1>1, NatLessThanWellFounded
<1>3. PICK x \in T : \A y \in T : ~(<<y, x>> \in R)
  BY <1>2, WFMin
<1>4. x \in Nat /\ \A y \in T : y \in Nat /\ (<<y, x>> \in R <=> y < x)
  BY <1>1 DEF OpToRel
<1>5. ASSUME NEW y \in T PROVE x <= y
  <2>1. x \in Nat /\ y \in Nat /\ ~(y < x)
    BY <1>3, <1>4
  <2> QED BY <2>1
<1> QED BY <1>5

\* A finite one has a greatest number: the one with the fewest above it.
LEMMA GreatestNumber ==
  ASSUME NEW T, T \subseteq Nat, T # {}, IsFiniteSet(T)
  PROVE  \E x \in T : \A y \in T : x >= y
<1> DEFINE Above(x) == {y \in T : y > x}
           Numbers == {Cardinality(Above(x)) : x \in T}
<1>1. \A x \in T : IsFiniteSet(Above(x)) /\ Cardinality(Above(x)) \in Nat
  BY FS_Subset, FS_CardinalityType
<1>2. PICK x \in T : \A y \in T : Cardinality(Above(x)) <= Cardinality(Above(y))
  <2>1. Numbers \subseteq Nat /\ Numbers # {}
    BY <1>1
  <2>2. PICK n \in Numbers : \A m \in Numbers : n <= m
    BY <2>1, LeastNumber
  <2> QED BY <2>2
<1>3. ASSUME NEW y \in T, y > x PROVE FALSE
  <2>1. Above(y) \subseteq Above(x) /\ y \in Above(x) /\ y \notin Above(y)
    <3>1. x \in Nat /\ y \in Nat /\ \A z \in T : z \in Nat
      OBVIOUS
    <3>2. \A z \in Nat : z > y => z > x
      BY <1>3, <3>1
    <3>3. Above(y) \subseteq Above(x)
      BY <3>1, <3>2
    <3>4. y \in Above(x)
      BY <1>3
    <3>5. y \notin Above(y)
      BY <3>1
    <3> QED BY <3>3, <3>4, <3>5
  <2>2. Cardinality(Above(y)) <= Cardinality(Above(x)) /\ Cardinality(Above(y)) # Cardinality(Above(x))
    BY <1>1, <2>1, FS_Subset
  <2> QED BY <1>1, <1>2, <2>2
<1>4. ASSUME NEW y \in T PROVE x >= y
  <2>1. x \in Nat /\ y \in Nat /\ ~(y > x)
    BY <1>3
  <2> QED BY <2>1
<1> QED BY <1>4

\* Min and Max choose the two ends of a list of versions.
LEMMA MinMax ==
  ASSUME NEW T, T \subseteq Versions, T # {}
  PROVE  /\ Min(T) \in T /\ \A y \in T : Min(T) <= y
         /\ Max(T) \in T /\ \A y \in T : y <= Max(T)
<1>1. T \subseteq Nat /\ IsFiniteSet(T)
  BY VersionsAssumption, FS_Subset
<1>2. \E x \in T : \A y \in T : x <= y
  BY <1>1, LeastNumber
<1>3. \E x \in T : \A y \in T : x >= y
  BY <1>1, GreatestNumber
<1>4. Min(T) \in T /\ \A y \in T : Min(T) <= y
  BY <1>2 DEF Min
<1>5. Max(T) \in T /\ \A y \in T : Max(T) >= y
  BY <1>3 DEF Max
<1> QED BY <1>1, <1>4, <1>5

----------------------------------------------------------------------------
(* What a step of one call leaves alone.                                    *)

\* The other calls, and what e was given.
Stays(e) ==
    /\ UNCHANGED <<given, mode, steps>>
    /\ \A f \in Engines : f # e =>
           /\ pc'[f] = pc[f] /\ todo'[f] = todo[f] /\ cur'[f] = cur[f]
           /\ count'[f] = count[f] /\ failed'[f] = failed[f] /\ work'[f] = work[f]

\* The call stays at its version, or the loop picks one of its list.
LEMMA CurIsVersion ==
  ASSUME IInv, NEW e \in Engines
  PROVE  /\ InTx(e) => cur[e] \in Versions
         /\ todo[e] # {} => NextVersion(e) \in Nat
         /\ InTx(e) => \A S \in SUBSET Versions : After(S, e) \in SUBSET Versions
<1>1. InTx(e) => cur[e] \in Versions
  BY DEF IInv, CallOK, AtNext, Typed
<1>2. ASSUME todo[e] # {} PROVE NextVersion(e) \in Nat
  <2>1. todo[e] \subseteq Versions
    BY DEF IInv, Typed
  <2> QED BY <1>2, <2>1, MinMax, VersionsAssumption DEF NextVersion
<1> QED BY <1>1, <1>2 DEF After

\* A call goes to another point or returns, with at most one fault.
LEMMA Moves ==
  ASSUME Typed, NEW e \in Engines, NEW l \in Points,
         GoTo(e, l) \/ Return(e, TRUE) \/ Return(e, FALSE),
         faults' = faults \/ Fault
  PROVE  /\ pc' \in [Engines -> Points] /\ failed' \in [Engines -> BOOLEAN] /\ faults' \in Nat
         /\ \A f \in Engines : f # e => pc'[f] = pc[f] /\ failed'[f] = failed[f]
         /\ faults' = faults \/ faults' = faults + 1
<1>1. CASE GoTo(e, l)
  BY <1>1 DEF GoTo, Fault, Typed
<1>2. CASE Return(e, TRUE)
  BY <1>2 DEF Return, Fault, Typed, Points
<1>3. CASE Return(e, FALSE)
  BY <1>3 DEF Return, Fault, Typed, Points
<1> QED BY <1>1, <1>2, <1>3

\* A step of e keeps the types and stays away from the other calls.
LEMMA Frame ==
  ASSUME IInv, NEW e \in Engines, Start(e) \/ Step(e) \/ Crash(e)
  PROVE  Typed' /\ Stays(e) /\ (faults' = faults \/ faults' = faults + 1)
<1> DEFINE Moved == /\ pc' \in [Engines -> Points] /\ failed' \in [Engines -> BOOLEAN] /\ faults' \in Nat
                    /\ \A f \in Engines : f # e => pc'[f] = pc[f] /\ failed'[f] = failed[f]
                    /\ faults' = faults \/ faults' = faults + 1
           Same(g, h) == \A f \in Engines : f # e => g[f] = h[f]
<1>0. Typed
  BY DEF IInv
<1>p. /\ "ensure" \in Points /\ "read" \in Points /\ "next" \in Points /\ "exec" \in Points
      /\ "record" \in Points /\ "commit" \in Points
  BY DEF Points
<1>1. CASE Start(e)
  <2>1. Moved
    BY <1>0, <1>p, <1>1, Moves DEF Start
  <2>2. UNCHANGED <<given, mode, steps, recorded, objects, todo, cur, count, work>>
    BY <1>1 DEF Start, db
  <2> QED BY <1>0, <2>1, <2>2 DEF Typed, Stays, given
<1>2. CASE EnsureTable(e)
  <2>1. Moved
    BY <1>0, <1>p, <1>2, Moves DEF EnsureTable
  <2>2. UNCHANGED <<given, mode, steps, recorded, objects, todo, cur, count, work>>
    BY <1>2 DEF EnsureTable, db
  <2> QED BY <1>0, <2>1, <2>2 DEF Typed, Stays, given
<1>3. CASE ReadApplied(e)
  <2>1. Moved
    BY <1>0, <1>p, <1>3, Moves DEF ReadApplied
  <2>2. UNCHANGED <<given, mode, steps, recorded, objects, cur, count, work>>
    BY <1>3 DEF ReadApplied, db
  <2>3. todo' \in [Engines -> SUBSET Versions] /\ Same(todo', todo)
    BY <1>0, <1>3 DEF ReadApplied, Typed
  <2> QED BY <1>0, <2>1, <2>2, <2>3 DEF Typed, Stays, given
<1>4. CASE LoopEnds(e)
  <2>1. Moved
    BY <1>0, <1>p, <1>4, Moves DEF LoopEnds
  <2>2. UNCHANGED <<given, mode, steps, recorded, objects, todo, cur, count, work>>
    BY <1>4 DEF LoopEnds, db
  <2> QED BY <1>0, <2>1, <2>2 DEF Typed, Stays, given
<1>5. CASE LoopMissingSQL(e)
  <2>1. Moved
    BY <1>0, <1>p, <1>5, Moves DEF LoopMissingSQL
  <2>2. UNCHANGED <<given, mode, steps, recorded, objects, todo, cur, count, work>>
    BY <1>5 DEF LoopMissingSQL, db
  <2> QED BY <1>0, <2>1, <2>2 DEF Typed, Stays, given
<1>6. CASE LoopBegin(e)
  <2>1. Moved
    BY <1>0, <1>p, <1>6, Moves DEF LoopBegin
  <2>2. UNCHANGED <<given, mode, steps, recorded, objects, todo, count, work>>
    BY <1>6 DEF LoopBegin, db
  <2>3. cur' \in [Engines -> Nat] /\ Same(cur', cur)
    <3>1. NextVersion(e) \in Nat
      BY <1>6, CurIsVersion DEF LoopBegin
    <3> QED BY <1>0, <1>6, <3>1 DEF LoopBegin, Typed
  <2> QED BY <1>0, <2>1, <2>2, <2>3 DEF Typed, Stays, given
<1>7. CASE Exec(e)
  <2>1. Moved
    BY <1>0, <1>p, <1>7, Moves DEF Exec
  <2>2. UNCHANGED <<given, mode, steps, recorded, todo, cur, count, work>>
    BY <1>7 DEF Exec, db
  <2>3. objects' \subseteq Versions
    <3>1. After(objects, e) \subseteq Versions
      BY <1>0, <1>7, CurIsVersion DEF Exec, InTx, Typed
    <3> QED BY <1>0, <1>7, <3>1 DEF Exec, Typed
  <2> QED BY <1>0, <2>1, <2>2, <2>3 DEF Typed, Stays, given
<1>8. CASE Record(e)
  <2>1. Moved
    BY <1>0, <1>p, <1>8, Moves DEF Record
  <2>2. UNCHANGED <<given, mode, steps, objects, todo, cur, count>>
    BY <1>8 DEF Record, db
  <2>3. /\ recorded' \subseteq Versions
        /\ work' \in [Engines -> SUBSET Versions] /\ Same(work', work)
    <3>1. After(recorded, e) \subseteq Versions /\ cur[e] \in Versions
      BY <1>0, <1>8, CurIsVersion DEF Record, InTx, Typed
    <3>2. Write(e) \/ UNCHANGED <<recorded, work>>
      BY <1>8 DEF Record
    <3> QED BY <1>0, <3>1, <3>2 DEF Write, Typed
  <2> QED BY <1>0, <2>1, <2>2, <2>3 DEF Typed, Stays, given
<1>9. CASE Commit(e)
  <2>1. Moved
    BY <1>0, <1>p, <1>9, Moves DEF Commit
  <2>2. UNCHANGED <<given, mode, steps, cur>>
    BY <1>9 DEF Commit, db
  <2>3. /\ recorded' \subseteq Versions /\ objects' \subseteq Versions
        /\ work' \in [Engines -> SUBSET Versions] /\ Same(work', work)
    <3>1. /\ After(recorded, e) \subseteq Versions /\ After(objects, e) \subseteq Versions
          /\ cur[e] \in Versions
      BY <1>0, <1>9, CurIsVersion DEF Commit, InTx, Typed
    <3>2. CommitEffect(e) \/ UNCHANGED <<recorded, objects, work>>
      BY <1>9 DEF Commit
    <3> QED BY <1>0, <3>1, <3>2 DEF CommitEffect, Write, Typed
  <2>4. /\ todo' \in [Engines -> SUBSET Versions] /\ Same(todo', todo)
        /\ count' \in [Engines -> Nat] /\ Same(count', count)
    <3>1. \/ todo' = [todo EXCEPT ![e] = @ \ {cur[e]}] /\ count' = [count EXCEPT ![e] = @ + 1]
          \/ UNCHANGED <<todo, count>>
      BY <1>9 DEF Commit
    <3>2. todo' \in [Engines -> SUBSET Versions] /\ Same(todo', todo)
      BY <1>0, <3>1 DEF Typed
    <3>3. count' \in [Engines -> Nat] /\ Same(count', count)
      BY <1>0, <3>1 DEF Typed
    <3> QED BY <3>2, <3>3
  <2> QED BY <1>0, <2>1, <2>2, <2>3, <2>4 DEF Typed, Stays, given
<1>10. CASE Crash(e)
  <2>1. Moved
    BY <1>0, <1>p, <1>10, Moves DEF Crash
  <2>2. UNCHANGED <<given, mode, steps, recorded, objects, todo, cur, count, work>>
    BY <1>10 DEF Crash, db
  <2> QED BY <1>0, <2>1, <2>2 DEF Typed, Stays, given
<1> QED BY <1>1, <1>2, <1>3, <1>4, <1>5, <1>6, <1>7, <1>8, <1>9, <1>10 DEF Step

\* The other calls are as well as before, as long as no Up takes a row away.
LEMMA OthersOK ==
  ASSUME Typed, NEW e \in Engines, Stays(e), faults' = faults \/ faults' = faults + 1,
         OnlyUp => recorded \subseteq recorded',
         NEW f \in Engines, f # e, CallOK(f)
  PROVE  CallOK(f)'
<1> USE DEF CallOK, Stays, given
<1>1. AtNext(f)'
  BY DEF AtNext, Called, InTx
<1>2. InLimit(f)'
  BY DEF InLimit, InTx
<1>3. Fresh(f)'
  BY DEF Fresh, Called, Landed
<1>4. Counted(f)'
  <2>1. count[f] \in Nat /\ (faults' = 0 => faults = 0)
    BY DEF Typed
  <2> QED BY <2>1 DEF Counted, Exact, Landed, OnlyDown
<1>5. Complete(f)'
  BY DEF Complete, OnlyUp
<1> QED BY <1>1, <1>2, <1>3, <1>4, <1>5

\* A step that leaves the tables alone and begins nothing in them.
LEMMA SharedKept ==
  ASSUME Shared, NEW e \in Engines, Stays(e), UNCHANGED <<recorded, objects>>,
         Called(e)' => Called(e) /\ todo'[e] = todo[e],
         Holding(e)' => pc'[e] = pc[e] /\ cur'[e] = cur[e]
  PROVE  Shared'
<1> USE DEF Shared, Stays, given
<1>1. SchemaMatchesTable' /\ NoHole'
  BY DEF SchemaMatchesTable, NoHole, OnlyUp, OnlyDown, Contiguous
<1>2. UpKept'
  BY DEF UpKept, OnlyUp, Called, Landed, Holding
<1>3. DownKept'
  BY DEF DownKept, OnlyDown, Called, Landed, Holding
<1>4. Apart'
  BY DEF Apart, Holding
<1>5. Held'
  BY DEF Held, Holding
<1>6. Dropped'
  BY DEF Dropped, OnlyDown, Holding
<1> QED BY <1>1, <1>2, <1>3, <1>4, <1>5, <1>6

----------------------------------------------------------------------------
(* Steps that leave the tables alone.                                       *)

\* What is to be shown of a step of e.
LEMMA StepOK ==
  ASSUME IInv, NEW e \in Engines, Typed', Stays(e), faults' = faults \/ faults' = faults + 1,
         OnlyUp => recorded \subseteq recorded', Shared', CallOK(e)'
  PROVE  IInv'
<1>1. \A f \in Engines : CallOK(f)'
  BY OthersOK DEF IInv
<1> QED BY <1>1 DEF IInv

\* The call returns an error, or its process ends, before it changed anything
\* that it has not counted: or else there was a fault.
LEMMA ErrorStep ==
  ASSUME IInv, NEW e \in Engines, Typed', Stays(e), faults' = faults \/ faults' = faults + 1,
         UNCHANGED <<recorded, objects>>, pc[e] # "done", pc'[e] = "done", failed'[e],
         count'[e] = count[e], work'[e] = work[e],
         Landed(e) => faults' = faults + 1
  PROVE  IInv'
<1>1. Shared'
  BY SharedKept DEF IInv, Called, Holding
<1>2. CallOK(e)'
  <2>0. Typed /\ CallOK(e) /\ UNCHANGED <<given, mode, steps>>
    BY DEF IInv, Stays
  <2>1. AtNext(e)' /\ Fresh(e)' /\ Complete(e)'
    BY DEF AtNext, Fresh, Complete, InTx, Called
  <2>2. InLimit(e)'
    BY <2>0 DEF CallOK, InLimit, InTx
  <2>3. Counted(e)'
    <3>1. CASE Landed(e)
      <4>1. faults' # 0
        BY <2>0, <3>1 DEF Typed
      <4>2. Exact(e) => count[e] + 1 = Cardinality(work[e])
        BY <2>0, <3>1 DEF CallOK, Counted
      <4>3. count[e] + 1 = Cardinality(work[e]) => count[e] <= Cardinality(work[e])
        BY <2>0 DEF Typed
      <4> QED BY <2>0, <4>1, <4>2, <4>3 DEF Counted, Exact, Landed, OnlyDown, given
    <3>2. CASE ~Landed(e)
      <4>1. Exact(e) => count[e] = Cardinality(work[e])
        BY <2>0, <3>2 DEF CallOK, Counted
      <4>2. count[e] <= count[e]
        BY <2>0 DEF Typed
      <4> QED BY <2>0, <4>1, <4>2 DEF Counted, Exact, Landed, OnlyDown, given
    <3> QED BY <3>1, <3>2
  <2> QED BY <2>1, <2>2, <2>3 DEF CallOK
<1> QED BY <1>1, <1>2, StepOK

\* A step within a call that leaves the tables, the count and the work alone.
LEMMA QuietStep ==
  ASSUME IInv, NEW e \in Engines, Typed', Stays(e), faults' = faults \/ faults' = faults + 1,
         UNCHANGED <<recorded, objects>>, pc[e] # "done", pc'[e] # "done", ~Landed(e), ~Landed(e)',
         count'[e] = count[e], work'[e] = work[e], Shared', AtNext(e)',
         InTx(e)' => InTx(e) \/ StepsLeft(e),
         pc'[e] \in {"idle", "ensure", "read"} => pc[e] \in {"idle", "ensure", "read"},
         Called(e)' => work[e] \cap todo'[e] = {}
  PROVE  IInv'
<1>0. Typed /\ CallOK(e) /\ UNCHANGED <<given, mode, steps>>
  BY DEF IInv, Stays
<1>1. InLimit(e)'
  BY <1>0 DEF CallOK, InLimit, InTx, StepsLeft
<1>2. Fresh(e)'
  BY <1>0 DEF CallOK, Fresh
<1>3. Counted(e)'
  BY <1>0 DEF CallOK, Counted, Exact, OnlyDown, given
<1>4. CallOK(e)'
  BY <1>1, <1>2, <1>3 DEF CallOK, Complete
<1> QED BY <1>4, StepOK

\* The call begins, or the migration table is created.
LEMMA BeforeRead ==
  ASSUME IInv, NEW e \in Engines, Start(e) \/ EnsureTable(e) PROVE IInv'
<1>1. Typed /\ CallOK(e) /\ Typed' /\ Stays(e) /\ (faults' = faults \/ faults' = faults + 1)
  BY Frame DEF IInv, Step
<1>2. /\ UNCHANGED <<recorded, objects, count, work, todo>>
      /\ pc[e] \in {"idle", "ensure"}
      /\ pc'[e] \in {"ensure", "read"} \/ (pc'[e] = "done" /\ failed'[e])
  BY <1>1 DEF Start, EnsureTable, GoTo, Return, db, Typed
<1>3. CASE pc'[e] = "done"
  BY <1>1, <1>2, <1>3, ErrorStep DEF Landed
<1>4. CASE pc'[e] # "done"
  <2>1. Shared'
    BY <1>1, <1>2, <1>4, SharedKept DEF IInv, Called, Holding
  <2>2. AtNext(e)'
    BY <1>2, <1>4 DEF AtNext, Called, InTx
  <2>3. ~Landed(e) /\ ~Landed(e)' /\ ~Called(e)' /\ ~InTx(e)'
    BY <1>2, <1>4 DEF Landed, Called, InTx
  <2> QED BY <1>1, <1>2, <1>4, <2>1, <2>2, <2>3, QuietStep
<1> QED BY <1>3, <1>4

\* The list is what the table holds, or does not hold, at this moment.
LEMMA ReadStep ==
  ASSUME IInv, NEW e \in Engines, ReadApplied(e) PROVE IInv'
<1>1. Typed /\ CallOK(e) /\ Typed' /\ Stays(e) /\ (faults' = faults \/ faults' = faults + 1)
  BY Frame DEF IInv, Step
<1>2. /\ UNCHANGED <<given, mode, recorded, objects, count, work>> /\ pc[e] = "read"
      /\ \/ pc'[e] = "next" /\ todo'[e] = IF mode[e] = "up" THEN Versions \ recorded
                                          ELSE IF mode[e] = "down" THEN recorded ELSE {}
         \/ pc'[e] = "done" /\ failed'[e]
  BY <1>1 DEF ReadApplied, GoTo, Return, db, Typed
<1>3. CASE pc'[e] = "done"
  BY <1>1, <1>2, <1>3, ErrorStep DEF Landed
<1>4. CASE pc'[e] = "next"
  <2>1. todo'[e] = IF mode[e] = "up" THEN Versions \ recorded
                   ELSE IF mode[e] = "down" THEN recorded ELSE {}
    BY <1>2, <1>4
  <2>2. SchemaMatchesTable' /\ NoHole'
    BY <1>2 DEF IInv, Shared, SchemaMatchesTable, NoHole, OnlyUp, OnlyDown, Contiguous, given
  <2>3. UpKept'
    BY <1>1, <1>2, <1>4, <2>1 DEF IInv, Shared, UpKept, Stays, OnlyUp, Called, Landed, given
  <2>4. DownKept'
    BY <1>1, <1>2, <1>4, <2>1 DEF IInv, Shared, DownKept, Stays, OnlyDown, Called, Landed, given
  <2>5. Apart' /\ Held'
    BY <1>1, <1>2, <1>4 DEF IInv, Shared, Apart, Held, Stays, Holding, given
  <2>6. Dropped'
    BY <1>1, <1>2, <1>4 DEF IInv, Shared, Dropped, Stays, OnlyDown, given
  <2>7. AtNext(e)'
    BY <1>2, <1>4, <2>1 DEF AtNext, Called, InTx
  <2>8. work[e] = {} /\ ~Landed(e) /\ ~Landed(e)' /\ ~InTx(e)'
    BY <1>1, <1>2, <1>4 DEF CallOK, Fresh, Landed, InTx
  <2> QED BY <1>1, <1>2, <1>4, <2>2, <2>3, <2>4, <2>5, <2>6, <2>7, <2>8, QuietStep DEF Shared
<1> QED BY <1>2, <1>3, <1>4

\* The loop ends: its list is empty, or the limit is reached.
LEMMA EndStep ==
  ASSUME IInv, NEW e \in Engines, LoopEnds(e) PROVE IInv'
<1>1. Typed /\ CallOK(e) /\ Typed' /\ Stays(e) /\ (faults' = faults \/ faults' = faults + 1)
  BY Frame DEF IInv, Step
<1>2. /\ UNCHANGED <<given, mode, steps, recorded, objects, todo, count, work, faults>>
      /\ pc[e] = "next" /\ pc'[e] = "done" /\ failed'[e] = FALSE
      /\ todo[e] = {} \/ ~StepsLeft(e)
  BY <1>1 DEF LoopEnds, Return, db, Typed
<1>3. Shared'
  BY <1>1, <1>2, SharedKept DEF IInv, Called, Holding
<1>4. CallOK(e)'
  <2>1. AtNext(e)' /\ Fresh(e)'
    BY <1>2 DEF AtNext, Fresh, InTx, Called
  <2>2. InLimit(e)'
    BY <1>1, <1>2 DEF CallOK, InLimit, InTx
  <2>3. Counted(e)'
    BY <1>1, <1>2 DEF CallOK, Counted, Exact, OnlyDown, Landed, given
  <2>4. Complete(e)'
    <3>1. CASE todo[e] = {}
      BY <1>2, <3>1 DEF IInv, Shared, UpKept, Called, Complete, OnlyUp
    <3>2. CASE ~StepsLeft(e)
      <4>1. steps[e] > 0 /\ ~(count[e] < steps[e]) /\ count[e] \in Nat /\ steps[e] \in Nat
        BY <1>1, <3>2 DEF StepsLeft, Typed
      <4>2. count[e] <= steps[e]
        BY <1>1, <4>1 DEF CallOK, InLimit
      <4>3. count[e] = steps[e]
        BY <4>1, <4>2
      <4> QED BY <1>2, <4>1, <4>3 DEF Complete
    <3> QED BY <1>2, <3>1, <3>2
  <2> QED BY <2>1, <2>2, <2>3, <2>4 DEF CallOK
<1> QED BY <1>1, <1>2, <1>3, <1>4, StepOK

\* A migration without SQL, or the end of the process.
LEMMA StopStep ==
  ASSUME IInv, NEW e \in Engines, LoopMissingSQL(e) \/ Crash(e) PROVE IInv'
<1>1. Typed /\ CallOK(e) /\ Typed' /\ Stays(e) /\ (faults' = faults \/ faults' = faults + 1)
  BY Frame DEF IInv, Step
<1>2. /\ UNCHANGED <<recorded, objects, count, work>>
      /\ pc[e] # "done" /\ pc'[e] = "done" /\ failed'[e]
      /\ pc[e] = "next" \/ faults' = faults + 1
  BY <1>1 DEF LoopMissingSQL, Crash, Return, Fault, db, Typed
<1> QED BY <1>1, <1>2, ErrorStep DEF Landed

\* A transaction begins, at the end of the list.
LEMMA BeginStep ==
  ASSUME IInv, NEW e \in Engines, LoopBegin(e) PROVE IInv'
<1>1. Typed /\ CallOK(e) /\ Typed' /\ Stays(e) /\ (faults' = faults \/ faults' = faults + 1)
  BY Frame DEF IInv, Step
<1>2. /\ UNCHANGED <<given, mode, recorded, objects, todo, count, work>>
      /\ pc[e] = "next" /\ todo[e] # {} /\ StepsLeft(e)
      /\ (pc'[e] = "exec" /\ cur'[e] = NextVersion(e)) \/ (pc'[e] = "done" /\ failed'[e])
  BY <1>1 DEF LoopBegin, GoTo, Return, db, Typed
<1>3. CASE pc'[e] = "done"
  BY <1>1, <1>2, <1>3, ErrorStep DEF Landed
<1>4. CASE pc'[e] = "exec"
  <2>1. todo[e] \subseteq Versions /\ cur'[e] = NextVersion(e)
    BY <1>1, <1>2, <1>4 DEF Typed
  <2>2. AtNext(e)'
    <3>1. /\ cur'[e] \in todo[e]
          /\ mode[e] = "up" => \A v \in todo[e] : cur'[e] <= v
          /\ mode[e] = "down" => \A v \in todo[e] : v <= cur'[e]
      BY <1>2, <2>1, MinMax DEF NextVersion
    <3>2. mode[e] # "status"
      BY <1>1, <1>2 DEF CallOK, AtNext, Called
    <3> QED BY <1>2, <3>1, <3>2 DEF AtNext
  <2>3. Shared'
    BY <1>1, <1>2, <1>4, SharedKept DEF IInv, Called, Holding
  <2>4. work[e] \cap todo'[e] = {} /\ ~Landed(e) /\ ~Landed(e)'
    BY <1>1, <1>2, <1>4 DEF CallOK, Fresh, Landed, Called
  <2> QED BY <1>1, <1>2, <1>4, <2>2, <2>3, <2>4, QuietStep
<1> QED BY <1>2, <1>3, <1>4

----------------------------------------------------------------------------
(* Transactions.                                                            *)

\* The row of e's version is written or deleted: the history keeps its shape
\* because the loop works from one end and the others go the same way.
LEMMA RowWritten ==
  ASSUME IInv, NEW e \in Engines, InTx(e), UNCHANGED mode, recorded' = After(recorded, e)
  PROVE  /\ NoHole'
         /\ OnlyUp => recorded \subseteq recorded' /\ cur[e] \in recorded'
         /\ OnlyDown => recorded' \subseteq recorded /\ cur[e] \notin recorded'
         /\ mode[e] \in {"up", "down"}
<1>1. Typed /\ AtNext(e) /\ Called(e) /\ NoHole /\ UpKept /\ DownKept
  BY DEF IInv, Shared, CallOK, InTx, Called
<1>2. cur[e] \in todo[e] /\ mode[e] \in {"up", "down"} /\ todo[e] \subseteq Versions
  BY <1>1 DEF AtNext, Typed
<1>3. ASSUME OnlyUp
      PROVE  /\ recorded \subseteq recorded' /\ cur[e] \in recorded' /\ Contiguous(recorded')
  <2>1. mode[e] = "up"
    BY <1>2, <1>3 DEF OnlyUp
  <2>2. recorded' = recorded \cup {cur[e]}
    BY <2>1 DEF After
  <2>3. ASSUME NEW v \in recorded', NEW u \in Versions, u < v PROVE u \in recorded'
    <3>1. CASE v \in recorded
      BY <1>1, <1>3, <2>2, <2>3, <3>1 DEF NoHole, Contiguous, Below
    <3>2. CASE v = cur[e]
      <4>1. u \notin todo[e]
        <5>1. u \in Nat /\ v \in Nat /\ (u \in todo[e] => v <= u)
          BY <1>1, <1>2, <2>1, <3>2, VersionsAssumption DEF AtNext, InTx
        <5> QED BY <2>3, <5>1
      <4> QED BY <1>1, <1>3, <2>1, <2>2, <4>1 DEF UpKept
    <3> QED BY <2>2, <3>1, <3>2
  <2> QED BY <2>2, <2>3 DEF Contiguous, Below
<1>4. ASSUME OnlyDown
      PROVE  /\ recorded' \subseteq recorded /\ cur[e] \notin recorded' /\ Contiguous(recorded')
  <2>1. mode[e] = "down"
    BY <1>2, <1>4 DEF OnlyDown
  <2>2. recorded' = recorded \ {cur[e]}
    BY <2>1 DEF After
  <2>3. ASSUME NEW v \in recorded', NEW u \in Versions, u < v PROVE u \in recorded'
    <3>1. u \in recorded
      BY <1>1, <1>4, <2>2, <2>3 DEF NoHole, Contiguous, Below
    <3>2. v \in todo[e]
      BY <1>1, <1>4, <2>1, <2>2 DEF DownKept
    <3>3. u # cur[e]
      <4>1. u \in Nat /\ v \in Nat /\ v <= cur[e] /\ cur[e] \in Nat
        BY <1>1, <1>2, <2>1, <3>2, VersionsAssumption DEF AtNext, InTx
      <4> QED BY <2>3, <4>1
    <3> QED BY <2>2, <3>1, <3>3
  <2> QED BY <2>2, <2>3 DEF Contiguous, Below
<1>5. NoHole'
  BY <1>3, <1>4 DEF NoHole, OnlyUp, OnlyDown, Contiguous, Below
<1> QED BY <1>2, <1>3, <1>4, <1>5

\* The work of e grows by a version that is new to it.
LEMMA WorkGrows ==
  ASSUME IInv, NEW e \in Engines, InTx(e), ~Landed(e), recorded' = After(recorded, e),
         work'[e] = IF recorded' = recorded THEN work[e] ELSE work[e] \cup {cur[e]}
  PROVE  /\ recorded' # recorded => /\ cur[e] \in work'[e]
                                    /\ Cardinality(work'[e]) = Cardinality(work[e]) + 1
         /\ Cardinality(work[e]) <= Cardinality(work'[e])
         /\ Cardinality(work[e]) \in Nat /\ Cardinality(work'[e]) \in Nat
<1>1. Typed /\ CallOK(e) /\ Called(e)
  BY DEF IInv, InTx, Called
<1>2. cur[e] \notin work[e] /\ IsFiniteSet(work[e])
  <2>1. cur[e] \notin work[e]
    BY <1>1 DEF CallOK, AtNext, Fresh
  <2>2. work[e] \subseteq Versions /\ IsFiniteSet(Versions)
    BY <1>1, VersionsAssumption DEF Typed
  <2> QED BY <2>1, <2>2, FS_Subset
<1>3. Cardinality(work[e]) \in Nat
  BY <1>2, FS_CardinalityType
<1>4. CASE recorded' = recorded
  BY <1>3, <1>4
<1>5. CASE recorded' # recorded
  <2>1. work'[e] = work[e] \cup {cur[e]}
    BY <1>5
  <2>2. Cardinality(work'[e]) = Cardinality(work[e]) + 1
    BY <1>2, <2>1, FS_AddElement
  <2> QED BY <1>3, <2>1, <2>2
<1> QED BY <1>4, <1>5

\* The script runs: it has the version to itself, and has found it as it should be.
LEMMA ExecStep ==
  ASSUME IInv, Locks, NEW e \in Engines, Exec(e) PROVE IInv'
<1>1. Typed /\ Shared /\ CallOK(e) /\ Typed' /\ Stays(e) /\ (faults' = faults \/ faults' = faults + 1)
  BY Frame DEF IInv, Step
<1>2. /\ UNCHANGED <<given, mode, steps, recorded, todo, cur, count, work>>
      /\ pc[e] = "exec" /\ ~Locked(e)
      /\ \/ /\ pc'[e] = "record" /\ ~ScriptFails(e)
            /\ objects' = IF transactionalDDL THEN objects ELSE After(objects, e)
         \/ pc'[e] = "done" /\ failed'[e] /\ objects' = objects
  BY <1>1 DEF Exec, GoTo, Return, Typed
<1>3. CASE pc'[e] = "done"
  BY <1>1, <1>2, <1>3, ErrorStep DEF Landed
<1>4. CASE pc'[e] = "record"
  <2>1. /\ ~ScriptFails(e)
        /\ objects' = IF transactionalDDL THEN objects ELSE After(objects, e)
    BY <1>2, <1>4
  <2>2. ~idempotent /\ mode[e] = "down" => cur[e] \in objects
    BY <2>1 DEF ScriptFails, After
  <2>3. SchemaMatchesTable' /\ NoHole'
    BY <1>1, <1>2, <2>1
    DEF Shared, SchemaMatchesTable, NoHole, OnlyUp, OnlyDown, Contiguous, given
  <2>4. UpKept' /\ DownKept'
    BY <1>1, <1>2, <1>4
    DEF Shared, UpKept, DownKept, Stays, OnlyUp, OnlyDown, Called, Landed, given
  <2>5. Apart'
    BY <1>1, <1>2, <1>4 DEF Shared, Apart, Stays, Holding, Locked, Locks, given
  <2>6. Held'
    BY <1>1, <1>2, <1>4, <2>2 DEF Shared, SchemaMatchesTable, Held, Stays, Holding, given
  <2>7. Dropped'
    <3> SUFFICES ASSUME ~transactionalDDL, ~idempotent, OnlyDown PROVE Dropped'
      BY <1>2 DEF Dropped, OnlyDown, given
    <3>1. mode[e] = "down"
      BY <1>1, <1>2 DEF CallOK, AtNext, OnlyDown, InTx, Called, Typed
    <3>2. objects' = objects \ {cur[e]} /\ cur[e] \in objects
      BY <2>1, <2>2, <3>1 DEF After
    <3>3. /\ objects \subseteq recorded
          /\ \A f \in Engines : pc[f] = "record" => cur[f] \in recorded \ objects
          /\ \A f, g \in Engines : pc[f] = "record" /\ pc[g] = "record" /\ f # g => cur[f] # cur[g]
      BY <1>1 DEF Shared, Dropped
    <3>4. \A f \in Engines : pc'[f] = "record" => f = e \/ pc[f] = "record"
      BY <1>1 DEF Stays
    <3>5. \A f \in Engines : pc[f] = "record" => cur[f] # cur[e]
      BY <3>2, <3>3
    <3>6. /\ objects' \subseteq recorded'
          /\ \A f \in Engines : pc'[f] = "record" => cur'[f] \in recorded' \ objects'
      BY <1>2, <3>2, <3>3, <3>4
    <3>7. \A f, g \in Engines : pc'[f] = "record" /\ pc'[g] = "record" /\ f # g => cur'[f] # cur'[g]
      BY <1>2, <3>3, <3>4, <3>5
    <3> QED BY <3>6, <3>7 DEF Dropped
  <2>8. AtNext(e)'
    BY <1>1, <1>2, <1>4 DEF CallOK, AtNext, Called, InTx
  <2>9. /\ work[e] \cap todo'[e] = {} /\ ~Landed(e) /\ ~Landed(e)' /\ InTx(e)
        /\ count'[e] = count[e] /\ work'[e] = work[e]
    BY <1>1, <1>2, <1>4 DEF CallOK, Fresh, Landed, Called, InTx
  <2>10. CallOK(e)'
    <3>1. InLimit(e)' /\ Fresh(e)'
      BY <1>1, <1>2, <1>4, <2>9 DEF CallOK, InLimit, InTx, Fresh
    <3>2. Counted(e)'
      BY <1>1, <1>2, <1>4, <2>9 DEF CallOK, Counted, Exact, OnlyDown, given
    <3> QED BY <1>4, <2>8, <3>1, <3>2 DEF CallOK, Complete
  <2> QED BY <1>1, <1>2, <2>3, <2>4, <2>5, <2>6, <2>7, <2>10, StepOK DEF Shared
<1> QED BY <1>2, <1>3, <1>4

\* The row is written: at once when DDL has committed, or with the commit.
LEMMA RecordStep ==
  ASSUME IInv, NEW e \in Engines, Record(e) PROVE IInv'
<1>1. Typed /\ Shared /\ CallOK(e) /\ Typed' /\ Stays(e) /\ (faults' = faults \/ faults' = faults + 1)
  BY Frame DEF IInv, Step
<1>2. /\ UNCHANGED <<given, mode, steps, objects, todo, cur, count>> /\ pc[e] = "record"
      /\ \/ /\ pc'[e] = "commit" /\ ~Duplicate(e)
            /\ IF transactionalDDL THEN UNCHANGED <<recorded, work>>
               ELSE /\ recorded' = After(recorded, e)
                    /\ work'[e] = IF recorded' = recorded THEN work[e] ELSE work[e] \cup {cur[e]}
         \/ pc'[e] = "done" /\ failed'[e] /\ UNCHANGED <<recorded, work>>
  BY <1>1 DEF Record, Write, GoTo, Return, Typed
<1>3. CASE pc'[e] = "done"
  BY <1>1, <1>2, <1>3, ErrorStep DEF Landed
<1>4. CASE pc'[e] = "commit" /\ transactionalDDL
  <2>1. ~Duplicate(e) /\ UNCHANGED <<recorded, work>>
    BY <1>2, <1>4
  <2>2. SchemaMatchesTable' /\ NoHole'
    BY <1>1, <1>2, <2>1
    DEF Shared, SchemaMatchesTable, NoHole, OnlyUp, OnlyDown, Contiguous, given
  <2>3. UpKept' /\ DownKept'
    BY <1>1, <1>2, <1>4, <2>1
    DEF Shared, UpKept, DownKept, Stays, OnlyUp, OnlyDown, Called, Landed, given
  <2>4. Apart' /\ Dropped'
    BY <1>1, <1>2, <1>4 DEF Shared, Apart, Dropped, Stays, Holding, given
  <2>5. Held'
    BY <1>1, <1>2, <1>4, <2>1 DEF Shared, Held, Stays, Holding, Duplicate, given
  <2>6. AtNext(e)'
    BY <1>1, <1>2, <1>4 DEF CallOK, AtNext, Called, InTx
  <2>7. /\ work[e] \cap todo'[e] = {} /\ ~Landed(e) /\ ~Landed(e)' /\ InTx(e)
        /\ count'[e] = count[e] /\ work'[e] = work[e]
    BY <1>1, <1>2, <1>4, <2>1 DEF CallOK, Fresh, Landed, Called, InTx, given
  <2>8. UNCHANGED <<recorded, objects>> /\ pc[e] # "done" /\ pc'[e] # "done"
        /\ pc'[e] \notin {"idle", "ensure", "read"}
    BY <1>2, <1>4, <2>1
  <2> QED BY <1>1, <2>2, <2>3, <2>4, <2>5, <2>6, <2>7, <2>8, QuietStep DEF Shared
<1>5. CASE pc'[e] = "commit" /\ ~transactionalDDL
  <2>1. /\ ~Duplicate(e) /\ recorded' = After(recorded, e)
        /\ work'[e] = IF recorded' = recorded THEN work[e] ELSE work[e] \cup {cur[e]}
    BY <1>2, <1>5
  <2>2. InTx(e) /\ Called(e) /\ ~Landed(e) /\ Landed(e)'
    BY <1>2, <1>5 DEF InTx, Called, Landed, given
  <2>3. /\ NoHole' /\ mode[e] \in {"up", "down"}
        /\ OnlyUp => recorded \subseteq recorded' /\ cur[e] \in recorded'
        /\ OnlyDown => recorded' \subseteq recorded /\ cur[e] \notin recorded'
    BY <1>2, <2>1, <2>2, RowWritten
  <2>4. /\ recorded' # recorded => /\ cur[e] \in work'[e]
                                   /\ Cardinality(work'[e]) = Cardinality(work[e]) + 1
        /\ Cardinality(work[e]) \in Nat
    BY <2>1, <2>2, WorkGrows
  <2>5. SchemaMatchesTable' /\ Apart' /\ Held'
    BY <1>2, <1>5 DEF SchemaMatchesTable, Apart, Held, given
  <2>6. UpKept'
    <3> SUFFICES ASSUME OnlyUp, NEW f \in Engines, Called(f)', mode[f] = "up"
                 PROVE  Versions \ todo'[f] \subseteq recorded' /\ (Landed(f)' => cur'[f] \in recorded')
      BY <1>2 DEF UpKept, OnlyUp
    <3>1. CASE f = e
      BY <1>1, <1>2, <2>2, <2>3, <3>1 DEF Shared, UpKept
    <3>2. CASE f # e
      BY <1>1, <1>2, <2>3, <3>2 DEF Shared, UpKept, Stays, Called, Landed, given
    <3> QED BY <3>1, <3>2
  <2>7. DownKept'
    <3> SUFFICES ASSUME OnlyDown, NEW f \in Engines, Called(f)', mode[f] = "down"
                 PROVE  recorded' \subseteq todo'[f] /\ (Landed(f)' => cur'[f] \notin recorded')
      BY <1>2 DEF DownKept, OnlyDown
    <3>1. CASE f = e
      BY <1>1, <1>2, <2>2, <2>3, <3>1 DEF Shared, DownKept
    <3>2. CASE f # e
      BY <1>1, <1>2, <2>3, <3>2 DEF Shared, DownKept, Stays, Called, Landed, given
    <3> QED BY <3>1, <3>2
  <2>8. ASSUME ~idempotent, OnlyDown PROVE Dropped' /\ cur[e] \in recorded
    <3>1. mode[e] = "down" /\ recorded' = recorded \ {cur[e]}
      BY <2>1, <2>3, <2>8 DEF After, OnlyDown
    <3>2. /\ objects \subseteq recorded
          /\ \A f \in Engines : pc[f] = "record" => cur[f] \in recorded \ objects
          /\ \A f, g \in Engines : pc[f] = "record" /\ pc[g] = "record" /\ f # g => cur[f] # cur[g]
      BY <1>1, <1>5, <2>8 DEF Shared, Dropped
    <3>3. \A f \in Engines : pc'[f] = "record" => f # e /\ pc[f] = "record"
      BY <1>1, <1>5 DEF Stays
    <3>4. cur[e] \in recorded \ objects
      BY <1>2, <3>2
    <3>5. /\ objects' \subseteq recorded'
          /\ \A f \in Engines : pc'[f] = "record" => cur'[f] \in recorded' \ objects'
      BY <1>2, <3>1, <3>2, <3>3, <3>4
    <3>6. \A f, g \in Engines : pc'[f] = "record" /\ pc'[g] = "record" /\ f # g => cur'[f] # cur'[g]
      BY <1>2, <3>2, <3>3
    <3> QED BY <3>4, <3>5, <3>6 DEF Dropped
  <2>9. Dropped'
    BY <1>2, <2>8 DEF Dropped, OnlyDown, given
  <2>10. CallOK(e)'
    <3>1. AtNext(e)'
      BY <1>1, <1>2, <1>5, <2>2 DEF CallOK, AtNext, Called, InTx
    <3>2. InLimit(e)'
      BY <1>1, <1>2, <2>2 DEF CallOK, InLimit
    <3>3. Fresh(e)'
      BY <1>1, <1>2, <1>5, <2>1, <2>2 DEF CallOK, Fresh, Called
    <3>4. Counted(e)'
      <4>1. ASSUME Exact(e) PROVE recorded' # recorded
        <5>1. CASE mode[e] = "up"
          BY <2>1, <5>1 DEF Duplicate, After
        <5>2. CASE mode[e] # "up"
          <6>1. cur[e] \in recorded /\ mode[e] = "down"
            BY <1>5, <2>3, <2>8, <4>1, <5>2 DEF Exact
          <6> QED BY <2>1, <6>1 DEF After
        <5> QED BY <5>1, <5>2
      <4>2. Exact(e) => count[e] = Cardinality(work[e])
        BY <1>1, <1>2, <2>2 DEF CallOK, Counted
      <4> QED BY <1>2, <2>2, <2>4, <4>1, <4>2 DEF Counted, Exact, OnlyDown, given
    <3> QED BY <1>5, <3>1, <3>2, <3>3, <3>4 DEF CallOK, Complete
  <2> QED BY <1>1, <2>3, <2>5, <2>6, <2>7, <2>9, <2>10, StepOK DEF Shared
<1> QED BY <1>2, <1>3, <1>4, <1>5

\* A transaction with its DDL ends well for the tables, whether e learns of it or not.
LEMMA CommitShared ==
  ASSUME IInv, NEW e \in Engines, Stays(e), pc[e] = "commit", transactionalDDL, UNCHANGED cur,
         recorded' = After(recorded, e), objects' = After(objects, e),
         \/ pc'[e] = "next" /\ todo'[e] = todo[e] \ {cur[e]}
         \/ pc'[e] = "done"
  PROVE  Shared' /\ (OnlyUp => recorded \subseteq recorded')
<1>1. Typed /\ Shared /\ InTx(e) /\ Called(e) /\ Holding(e) /\ UNCHANGED <<given, mode, steps>>
  BY DEF IInv, InTx, Called, Holding, Stays
<1>2. /\ NoHole' /\ mode[e] \in {"up", "down"}
      /\ OnlyUp => recorded \subseteq recorded' /\ cur[e] \in recorded'
      /\ OnlyDown => recorded' \subseteq recorded /\ cur[e] \notin recorded'
  BY <1>1, RowWritten
<1>3. SchemaMatchesTable'
  BY <1>1 DEF Shared, SchemaMatchesTable, After, given
<1>4. UpKept'
  <2> SUFFICES ASSUME OnlyUp, NEW f \in Engines, Called(f)', mode[f] = "up"
               PROVE  Versions \ todo'[f] \subseteq recorded' /\ ~Landed(f)'
    BY <1>1 DEF UpKept, OnlyUp
  <2>1. CASE f = e
    BY <1>1, <1>2, <2>1 DEF Shared, UpKept, Called, Landed, given
  <2>2. CASE f # e
    BY <1>1, <1>2, <2>2 DEF Shared, UpKept, Stays, Called, Landed, given
  <2> QED BY <2>1, <2>2
<1>5. DownKept'
  <2> SUFFICES ASSUME OnlyDown, NEW f \in Engines, Called(f)', mode[f] = "down"
               PROVE  recorded' \subseteq todo'[f] /\ ~Landed(f)'
    BY <1>1 DEF DownKept, OnlyDown
  <2>1. CASE f = e
    BY <1>1, <1>2, <2>1 DEF Shared, DownKept, Called, Landed, given
  <2>2. CASE f # e
    BY <1>1, <1>2, <2>2 DEF Shared, DownKept, Stays, Called, Landed, given
  <2> QED BY <2>1, <2>2
<1>6. \A f \in Engines : Holding(f)' => f # e /\ Holding(f) /\ cur[f] # cur[e] /\ pc'[f] = pc[f]
  BY <1>1 DEF Shared, Apart, Holding, Stays
<1>7. Apart'
  BY <1>1, <1>6 DEF Shared, Apart, given
<1>8. Held'
  BY <1>1, <1>6 DEF Shared, Held, After, given
<1>9. Dropped'
  BY <1>1 DEF Dropped, given
<1> QED BY <1>2, <1>3, <1>4, <1>5, <1>7, <1>8, <1>9 DEF Shared

\* The commit: e goes on to its next version, or does not know how it ended.
LEMMA CommitStep ==
  ASSUME IInv, NEW e \in Engines, Commit(e) PROVE IInv'
<1> DEFINE Effect == /\ recorded' = After(recorded, e) /\ objects' = After(objects, e)
                     /\ work'[e] = IF recorded' = recorded THEN work[e] ELSE work[e] \cup {cur[e]}
           Nothing == UNCHANGED <<recorded, objects, work>>
<1>1. Typed /\ Shared /\ CallOK(e) /\ Typed' /\ Stays(e) /\ (faults' = faults \/ faults' = faults + 1)
  BY Frame DEF IInv, Step
<1>2. UNCHANGED <<given, mode, steps, cur>> /\ pc[e] = "commit"
  BY DEF Commit
<1>3. CommitEffect(e) => IF transactionalDDL THEN Effect ELSE Nothing
  BY <1>1 DEF CommitEffect, Write, Typed
<1>4. \/ /\ IF transactionalDDL THEN Effect ELSE Nothing
         /\ pc'[e] = "next" /\ todo'[e] = todo[e] \ {cur[e]} /\ count'[e] = count[e] + 1
      \/ /\ (transactionalDDL /\ Effect) \/ Nothing
         /\ pc'[e] = "done" /\ failed'[e] /\ todo'[e] = todo[e] /\ count'[e] = count[e]
         /\ faults' = faults + 1
  <2>1. CASE GoTo(e, "next")
    BY <1>1, <1>3, <2>1 DEF Commit, GoTo, Return, Fault, Typed
  <2>2. CASE ~GoTo(e, "next")
    <3>1. /\ CommitEffect(e) \/ Nothing
          /\ Return(e, TRUE) /\ Fault /\ UNCHANGED <<todo, count>>
      BY <2>2 DEF Commit
    <3> QED BY <1>1, <1>3, <3>1 DEF Return, Fault, Typed
  <2> QED BY <2>1, <2>2
<1>5. InTx(e) /\ Called(e) /\ (Landed(e) <=> ~transactionalDDL)
  BY <1>2 DEF InTx, Called, Landed
<1>6. CASE Nothing /\ pc'[e] = "done"
  <2>1. failed'[e] /\ count'[e] = count[e] /\ faults' = faults + 1 /\ work'[e] = work[e]
    BY <1>4, <1>6
  <2> QED BY <1>1, <1>2, <1>6, <2>1, ErrorStep
<1>7. CASE transactionalDDL /\ Effect
  <2> HIDE DEF Nothing
  <2>1. Shared' /\ (OnlyUp => recorded \subseteq recorded')
    BY <1>1, <1>2, <1>4, <1>7, CommitShared
  <2>2. /\ recorded' # recorded => Cardinality(work'[e]) = Cardinality(work[e]) + 1
        /\ Cardinality(work[e]) <= Cardinality(work'[e])
        /\ Cardinality(work[e]) \in Nat /\ Cardinality(work'[e]) \in Nat
    BY <1>5, <1>7, WorkGrows
  <2>3. Exact(e) => count[e] = Cardinality(work[e])
    BY <1>1, <1>2, <1>5, <1>7 DEF CallOK, Counted
  <2>4. CASE pc'[e] = "next"
    <3>1. todo'[e] = todo[e] \ {cur[e]} /\ count'[e] = count[e] + 1
      BY <1>4, <2>4
    <3>2. Exact(e) => recorded' # recorded
      <4>1. CASE mode[e] = "up"
        BY <1>1, <1>2, <1>7, <4>1 DEF Shared, Held, Holding, After
      <4>2. CASE mode[e] = "down"
        BY <1>1, <1>2, <1>7, <4>2 DEF Shared, Held, Holding, After, Exact
      <4>3. mode[e] # "status"
        BY <1>1, <1>5 DEF CallOK, AtNext
      <4> QED BY <1>1, <4>1, <4>2, <4>3 DEF Typed
    <3>3. AtNext(e)'
      BY <1>1, <1>2, <1>5, <2>4, <3>1 DEF CallOK, AtNext, InTx, Called
    <3>4. InLimit(e)'
      BY <1>1, <1>2, <1>5, <2>4, <3>1 DEF CallOK, InLimit, InTx, Typed
    <3>5. Fresh(e)'
      BY <1>1, <1>5, <1>7, <2>4, <3>1 DEF CallOK, Fresh
    <3>6. Counted(e)'
      BY <1>2, <2>2, <2>3, <2>4, <3>1, <3>2 DEF Counted, Exact, OnlyDown, Landed, given
    <3>7. CallOK(e)'
      BY <2>4, <3>3, <3>4, <3>5, <3>6 DEF CallOK, Complete
    <3> QED BY <1>1, <2>1, <3>7, StepOK
  <2>5. CASE pc'[e] = "done"
    <3>1. failed'[e] /\ count'[e] = count[e] /\ faults' = faults + 1
      BY <1>4, <2>5
    <3>2. AtNext(e)' /\ Fresh(e)' /\ Complete(e)'
      BY <2>5, <3>1 DEF AtNext, Fresh, Complete, InTx, Called
    <3>3. InLimit(e)'
      BY <1>1, <1>2, <2>5, <3>1 DEF CallOK, InLimit, InTx
    <3>4. faults' # 0
      BY <1>1, <3>1 DEF Typed
    <3>5. Counted(e)'
      BY <1>2, <2>2, <2>3, <2>5, <3>1, <3>4 DEF Counted, Exact, OnlyDown, Landed, given
    <3>6. CallOK(e)'
      BY <3>2, <3>3, <3>5 DEF CallOK
    <3> QED BY <1>1, <2>1, <3>6, StepOK
  <2> QED BY <1>4, <2>4, <2>5
<1>8. CASE ~transactionalDDL /\ Nothing /\ pc'[e] = "next"
  <2>1. todo'[e] = todo[e] \ {cur[e]} /\ count'[e] = count[e] + 1 /\ UNCHANGED <<recorded, objects, work>>
    BY <1>4, <1>8
  <2> HIDE DEF Effect, Nothing
  <2>2. SchemaMatchesTable' /\ NoHole' /\ Apart' /\ Held'
    BY <1>1, <1>2, <1>8, <2>1
    DEF Shared, SchemaMatchesTable, NoHole, Apart, Held, OnlyUp, OnlyDown, Contiguous, given
  <2>3. UpKept'
    <3> SUFFICES ASSUME OnlyUp, NEW f \in Engines, Called(f)', mode[f] = "up"
                 PROVE  Versions \ todo'[f] \subseteq recorded' /\ (Landed(f)' => cur'[f] \in recorded')
      BY <1>2 DEF UpKept, OnlyUp
    <3>1. CASE f = e
      BY <1>1, <1>2, <1>5, <1>8, <2>1, <3>1 DEF Shared, UpKept, Landed
    <3>2. CASE f # e
      BY <1>1, <1>2, <2>1, <3>2 DEF Shared, UpKept, Stays, Called, Landed, given
    <3> QED BY <3>1, <3>2
  <2>4. DownKept'
    <3> SUFFICES ASSUME OnlyDown, NEW f \in Engines, Called(f)', mode[f] = "down"
                 PROVE  recorded' \subseteq todo'[f] /\ (Landed(f)' => cur'[f] \notin recorded')
      BY <1>2 DEF DownKept, OnlyDown
    <3>1. CASE f = e
      BY <1>1, <1>2, <1>5, <1>8, <2>1, <3>1 DEF Shared, DownKept, Landed
    <3>2. CASE f # e
      BY <1>1, <1>2, <2>1, <3>2 DEF Shared, DownKept, Stays, Called, Landed, given
    <3> QED BY <3>1, <3>2
  <2>5. Dropped'
    BY <1>1, <1>2, <1>8, <2>1 DEF Shared, Dropped, Stays, OnlyDown, given
  <2>6. AtNext(e)'
    BY <1>1, <1>2, <1>5, <1>8, <2>1 DEF CallOK, AtNext, InTx, Called
  <2>7. InLimit(e)'
    BY <1>1, <1>2, <1>5, <1>8, <2>1 DEF CallOK, InLimit, InTx, Typed
  <2>8. Fresh(e)'
    BY <1>1, <1>5, <1>8, <2>1 DEF CallOK, Fresh
  <2>9. Counted(e)'
    BY <1>1, <1>2, <1>5, <1>8, <2>1 DEF CallOK, Counted, Exact, OnlyDown, Landed, given
  <2>10. CallOK(e)'
    BY <1>8, <2>6, <2>7, <2>8, <2>9 DEF CallOK, Complete
  <2> QED BY <1>1, <2>1, <2>2, <2>3, <2>4, <2>5, <2>10, StepOK DEF Shared
<1> QED BY <1>4, <1>6, <1>7, <1>8

----------------------------------------------------------------------------
(* The theorems.                                                            *)

\* An earlier history of complete migrations satisfies the invariant.
LEMMA InitIInv == Init => IInv
<1> SUFFICES ASSUME Init PROVE IInv
  OBVIOUS
<1>1. Typed
  BY BoundsAssumption DEF Init, Typed, Points
<1>2. Shared
  BY DEF Init, Shared, SchemaMatchesTable, NoHole, UpKept, DownKept, Apart, Held, Dropped,
         Called, Holding
<1>3. ASSUME NEW e \in Engines PROVE CallOK(e)
  <2>1. pc[e] = "idle" /\ count[e] = 0 /\ work[e] = {}
    BY DEF Init
  <2>2. steps[e] \in Nat /\ Cardinality(work[e]) = 0
    BY <1>1, <2>1, FS_EmptySet DEF Typed
  <2>3. AtNext(e) /\ Fresh(e) /\ Complete(e)
    BY <2>1 DEF AtNext, Fresh, Complete, Called, InTx
  <2>4. InLimit(e)
    BY <2>1, <2>2 DEF InLimit, InTx
  <2>5. Counted(e)
    BY <2>1, <2>2 DEF Counted, Landed
  <2> QED BY <2>3, <2>4, <2>5 DEF CallOK
<1> QED BY <1>1, <1>2, <1>3 DEF IInv

\* Every way out of a transaction lets go of its locks.
LEMMA LocksKept ==
  ASSUME Typed, Locks, NEW e \in Engines, Start(e) \/ Step(e) \/ Crash(e)
  PROVE  Locks'
<1> USE DEF GoTo, Return, Holding
<1> DEFINE Taken == /\ pc' = [pc EXCEPT ![e] = pc'[e]]
                    /\ locks' = IF Holding(e)' THEN locks \cup {e} ELSE locks \ {e}
<1>1. ASSUME \/ Start(e) \/ EnsureTable(e) \/ ReadApplied(e)
             \/ LoopEnds(e) \/ LoopMissingSQL(e) \/ LoopBegin(e)
      PROVE  Taken
  <2>1. UNCHANGED locks /\ e \notin locks
    BY <1>1 DEF Start, EnsureTable, ReadApplied, LoopEnds, LoopMissingSQL, LoopBegin, db, Locks
  <2>2. pc' = [pc EXCEPT ![e] = pc'[e]] /\ ~Holding(e)'
    BY <1>1 DEF Start, EnsureTable, ReadApplied, LoopEnds, LoopMissingSQL, LoopBegin, Typed
  <2> QED BY <2>1, <2>2
<1>2. ASSUME Exec(e) PROVE Taken
  BY <1>2 DEF Exec, Release, Typed
<1>3. ASSUME Record(e) PROVE Taken
  BY <1>3 DEF Record, Release, Typed, Locks
<1>4. ASSUME Commit(e) PROVE Taken
  BY <1>4 DEF Commit, Release, Typed
<1>5. ASSUME Crash(e) PROVE Taken
  BY <1>5 DEF Crash, Release, Typed
<1>6. Taken
  BY <1>1, <1>2, <1>3, <1>4, <1>5 DEF Step
<1>7. \A f \in Engines : f # e => pc'[f] = pc[f]
  BY <1>6 DEF Typed
<1>8. \A f \in Engines : f # e => (f \in locks' <=> Holding(f)')
  BY <1>6, <1>7 DEF Locks
<1>9. (e \in locks' <=> Holding(e)') /\ locks' \subseteq Engines
  BY <1>6 DEF Locks
<1> HIDE DEF Taken
<1> QED BY <1>8, <1>9 DEF Locks

\* Every step of every call keeps the invariant.
LEMMA NextIInv == IInv /\ Locks /\ [Next]_vars => (IInv /\ Locks)'
<1> SUFFICES ASSUME IInv, Locks, [Next]_vars PROVE IInv' /\ Locks'
  OBVIOUS
<1>0. Typed
  BY DEF IInv
<1>1. ASSUME NEW e \in Engines, Start(e) PROVE IInv' /\ Locks'
  BY <1>0, <1>1, BeforeRead, LocksKept
<1>2. ASSUME NEW e \in Engines, Step(e) PROVE IInv' /\ Locks'
  <2>1. IInv'
    BY <1>2, BeforeRead, ReadStep, EndStep, StopStep, BeginStep, ExecStep, RecordStep, CommitStep
    DEF Step
  <2> QED BY <1>0, <1>2, <2>1, LocksKept
<1>3. ASSUME NEW e \in Engines, Crash(e) PROVE IInv' /\ Locks'
  BY <1>0, <1>3, StopStep, LocksKept
<1>4. ASSUME UNCHANGED vars PROVE IInv' /\ Locks'
  <2>1. UNCHANGED <<given, recorded, objects, locks, pc, mode, steps, todo, cur, count, failed, faults, work>>
    BY <1>4 DEF vars, db, engine
  <2>2. Typed'
    BY <2>1 DEF IInv, Typed, given
  <2>3. Shared'
    BY <2>1 DEF IInv, Shared, SchemaMatchesTable, NoHole, UpKept, DownKept, Apart, Held, Dropped,
                OnlyUp, OnlyDown, Contiguous, Called, Holding, Landed, given
  <2>4. ASSUME NEW e \in Engines PROVE CallOK(e)'
    BY <2>1 DEF IInv, CallOK, AtNext, InLimit, Fresh, Counted, Complete, Exact,
                OnlyUp, OnlyDown, Called, InTx, Landed, given
  <2>5. Locks'
    BY <2>1 DEF Locks, Holding
  <2> QED BY <2>2, <2>3, <2>4, <2>5 DEF IInv
<1> QED BY <1>1, <1>2, <1>3, <1>4 DEF Next, Quiet

\* The invariant, for any versions, calls, limits, faults and crashes; and a call that
\* has returned, in whatever way, has left no transaction open for others to wait on.
THEOREM Invariance == Spec => [](IInv /\ Locks)
<1>1. Init => Locks
  BY DEF Init, Locks, Holding
<1> QED BY <1>1, InitIInv, NextIInv, PTL DEF Spec

\* With transactional DDL the table describes the schema at every moment.
THEOREM SchemaMatches == Spec => []SchemaMatchesTable
<1>1. IInv => SchemaMatchesTable
  BY DEF IInv, Shared
<1> QED BY <1>1, Invariance, PTL

\* Calls that all go the same way leave no hole in the history.
THEOREM HistoryWhole == Spec => []NoHole
<1>1. IInv => NoHole
  BY DEF IInv, Shared
<1> QED BY <1>1, Invariance, PTL

\* The number that Up or Down returns is the number of versions it changed.
THEOREM CountsWork == Spec => []CountIsWork
<1>1. ASSUME IInv, NEW e \in Engines, Exact(e)
      PROVE  /\ count[e] <= Cardinality(work[e])
             /\ faults = 0 /\ pc[e] = "done" => count[e] = Cardinality(work[e])
  <2>1. count[e] \in Nat /\ Counted(e)
    BY <1>1 DEF IInv, Typed, CallOK
  <2>2. CASE Landed(e)
    <3>1. count[e] + 1 = Cardinality(work[e]) /\ pc[e] # "done"
      BY <1>1, <2>1, <2>2 DEF Counted, Landed
    <3>2. \A n : n = count[e] + 1 => count[e] <= n
      BY <2>1
    <3> QED BY <3>1, <3>2
  <2>3. CASE ~Landed(e)
    <3>1. count[e] <= count[e]
      BY <2>1
    <3> QED BY <1>1, <2>1, <2>3, <3>1 DEF Counted
  <2> QED BY <2>2, <2>3
<1>2. IInv => CountIsWork
  BY <1>1 DEF CountIsWork, Exact
<1> QED BY <1>2, Invariance, PTL

\* An Up that returns without an error has done what it was asked for.
THEOREM UpCompletes == Spec => []UpIsComplete
<1>1. ASSUME IInv, NEW e \in Engines, OnlyUp, pc[e] = "done", mode[e] = "up", ~failed[e]
      PROVE  Versions \subseteq recorded \/ (steps[e] > 0 /\ Cardinality(work[e]) = steps[e])
  <2>1. Complete(e) /\ Counted(e)
    BY <1>1 DEF IInv, CallOK
  <2>2. count[e] = Cardinality(work[e])
    BY <1>1, <2>1 DEF Counted, Exact, Landed
  <2> QED BY <1>1, <2>1, <2>2 DEF Complete
<1>2. IInv => UpIsComplete
  BY <1>1 DEF UpIsComplete
<1> QED BY <1>2, Invariance, PTL

=============================================================================
