----------------------- MODULE ModelMigrationsProofs -----------------------
(***************************************************************************)
(* Proofs about ModelMigrations, for any structs, directories and calls:   *)
(* AutoMigrate creates all tables of a call or none of them, and calls of  *)
(* the generator keep to their own files.  Neither part disturbs the       *)
(* other's variables, so each has an invariant of its own.                 *)
(***************************************************************************)
EXTENDS ModelMigrations, SequenceTheorems, FiniteSetTheorems, WellFoundedInduction, TLAPS

----------------------------------------------------------------------------
(* AutoMigrate                                                              *)

Shape(m) ==
    m = [pc |-> m.pc, useTx |-> m.useTx, i |-> m.i, pending |-> m.pending, lost |-> m.lost]

IsCall(m) ==
    /\ Shape(m)
    /\ m.pc \in {"idle", "loop", "ok", "error"}
    /\ m.useTx \in BOOLEAN /\ m.lost \in BOOLEAN
    /\ m.i \in Nat

\* The calls, and for each one the statements of its entities in their order.
AutoTyped ==
    /\ mig = [c \in DOMAIN mig |-> mig[c]]
    /\ DOMAIN stmts = DOMAIN mig
    /\ \A c \in DOMAIN mig : /\ IsCall(mig[c])
                             /\ Len(stmts[c]) \in Nat
                             /\ DOMAIN stmts[c] = 1..Len(stmts[c])

\* Entity k of call c has a table, which others may not see yet.
Created(c, k) ==
    /\ stmts[c][k] # <<>>
    /\ stmts[c][k][1].table \in DOMAIN tables \cup DOMAIN mig[c].pending

\* A call in its loop has the tables of the entities behind it; one that has
\* answered nil has them all and keeps none to itself.
Progress(c) ==
    /\ mig[c].pc = "idle" => mig[c].i = 1
    /\ mig[c].pc = "loop" => /\ mig[c].i \in 1..(Len(stmts[c]) + 1)
                             /\ \A k \in 1..(mig[c].i - 1) : Created(c, k)
    /\ mig[c].pc = "ok" => \A k \in DOMAIN stmts[c] :
                               stmts[c][k] # <<>> /\ stmts[c][k][1].table \in DOMAIN tables

\* What waits for a commit is the call's own.
OwnPending(c) == \A t \in DOMAIN mig[c].pending : mig[c].pending[t].by = c

\* Before the commit of its transaction a call has no table in the database.
NothingShown(c) ==
    \/ mig[c].pc = "loop" /\ ~InTx(c)
    \/ mig[c].pc = "ok"
    \/ mig[c].pc = "error" /\ (~InTx(c) \/ mig[c].lost)
    \/ \A t \in DOMAIN tables : tables[t].by # c

CallOK(c) == Progress(c) /\ OwnPending(c) /\ NothingShown(c)

AutoInv == AutoTyped /\ \A c \in DOMAIN mig : CallOK(c)

\* A step of call c: the others stay, and what is new in the database is c's.
StepOf(c) ==
    /\ UNCHANGED <<stmts, cfgDialect>>
    /\ DOMAIN mig' = DOMAIN mig
    /\ \A o \in DOMAIN mig \ {c} : mig'[o] = mig[o]
    /\ DOMAIN tables \subseteq DOMAIN tables'
    /\ \A t \in DOMAIN tables' : \/ t \in DOMAIN tables /\ tables'[t] = tables[t]
                                 \/ tables'[t].by = c

\* A step of one call keeps the invariant if it keeps it for that call.
LEMMA CallStep ==
  ASSUME AutoInv, NEW c \in DOMAIN mig, StepOf(c), AutoTyped', CallOK(c)'
  PROVE  AutoInv'
<1> SUFFICES ASSUME NEW o \in DOMAIN mig, o # c PROVE CallOK(o)'
  BY DEF AutoInv, StepOf
<1>1. CallOK(o) /\ mig'[o] = mig[o] /\ stmts' = stmts /\ cfgDialect' = cfgDialect
  BY DEF AutoInv, StepOf
<1>2. Progress(o)'
  BY <1>1 DEF CallOK, Progress, Created, StepOf
<1>3. OwnPending(o)'
  BY <1>1 DEF CallOK, OwnPending
<1>4. NothingShown(o)'
  BY <1>1 DEF CallOK, NothingShown, InTx, StepOf
<1> QED BY <1>2, <1>3, <1>4 DEF CallOK

\* What the actions of call c do to its record.
Becomes(c, where, tx, at, kept, unsure) ==
    mig' = [mig EXCEPT ![c] = [pc |-> where, useTx |-> tx, i |-> at,
                               pending |-> kept, lost |-> unsure]]

\* A call's record with one field replaced.
LEMMA OneField ==
  ASSUME NEW m, Shape(m), NEW x
  PROVE  /\ [m EXCEPT !.pc = x] = [pc |-> x, useTx |-> m.useTx, i |-> m.i, pending |-> m.pending, lost |-> m.lost]
         /\ [m EXCEPT !.useTx = x] = [pc |-> m.pc, useTx |-> x, i |-> m.i, pending |-> m.pending, lost |-> m.lost]
         /\ [m EXCEPT !.i = x] = [pc |-> m.pc, useTx |-> m.useTx, i |-> x, pending |-> m.pending, lost |-> m.lost]
         /\ [m EXCEPT !.pending = x] = [pc |-> m.pc, useTx |-> m.useTx, i |-> m.i, pending |-> x, lost |-> m.lost]
         /\ [m EXCEPT !.lost = x] = [pc |-> m.pc, useTx |-> m.useTx, i |-> m.i, pending |-> m.pending, lost |-> x]
<1>1. [m EXCEPT !.pc = x] = [pc |-> x, useTx |-> m.useTx, i |-> m.i, pending |-> m.pending, lost |-> m.lost]
  BY DEF Shape
<1>2. [m EXCEPT !.useTx = x] = [pc |-> m.pc, useTx |-> x, i |-> m.i, pending |-> m.pending, lost |-> m.lost]
  BY DEF Shape
<1>3. [m EXCEPT !.i = x] = [pc |-> m.pc, useTx |-> m.useTx, i |-> x, pending |-> m.pending, lost |-> m.lost]
  BY DEF Shape
<1>4. [m EXCEPT !.pending = x] = [pc |-> m.pc, useTx |-> m.useTx, i |-> m.i, pending |-> x, lost |-> m.lost]
  BY DEF Shape
<1>5. [m EXCEPT !.lost = x] = [pc |-> m.pc, useTx |-> m.useTx, i |-> m.i, pending |-> m.pending, lost |-> x]
  BY DEF Shape
<1> QED BY <1>1, <1>2, <1>3, <1>4, <1>5

\* The assignments of the actions, written as a whole record.
LEMMA Assignments ==
  ASSUME AutoTyped, NEW c \in DOMAIN mig, NEW x, NEW y, NEW z
  PROVE  LET m == mig[c]
         IN  /\ mig' = [mig EXCEPT ![c].pc = x] => Becomes(c, x, m.useTx, m.i, m.pending, m.lost)
             /\ mig' = [mig EXCEPT ![c].pc = x, ![c].useTx = y] => Becomes(c, x, y, m.i, m.pending, m.lost)
             /\ mig' = [mig EXCEPT ![c].pc = x, ![c].pending = y] => Becomes(c, x, m.useTx, m.i, y, m.lost)
             /\ mig' = [mig EXCEPT ![c].pc = x, ![c].pending = y, ![c].lost = z]
                    => Becomes(c, x, m.useTx, m.i, y, z)
             /\ mig' = [mig EXCEPT ![c].i = x] => Becomes(c, m.pc, m.useTx, x, m.pending, m.lost)
             /\ mig' = [mig EXCEPT ![c].i = x, ![c].pending = y] => Becomes(c, m.pc, m.useTx, x, y, m.lost)
<1> DEFINE m == mig[c]
<1>1. Shape(m) /\ mig = [o \in DOMAIN mig |-> mig[o]]
  BY DEF AutoTyped, IsCall
<1>2. PICK e : e = [m EXCEPT !.pc = x]
  OBVIOUS
<1>3. PICK f : f = [e EXCEPT !.pending = y]
  OBVIOUS
<1>4. PICK g : g = [m EXCEPT !.i = x]
  OBVIOUS
<1>5. e = [pc |-> x, useTx |-> m.useTx, i |-> m.i, pending |-> m.pending, lost |-> m.lost]
  BY <1>1, <1>2, OneField
<1>6. g = [pc |-> m.pc, useTx |-> m.useTx, i |-> x, pending |-> m.pending, lost |-> m.lost]
  BY <1>1, <1>4, OneField
<1>7. Shape(e) /\ Shape(g)
  BY <1>5, <1>6 DEF Shape
<1>8. f = [pc |-> x, useTx |-> m.useTx, i |-> m.i, pending |-> y, lost |-> m.lost]
  BY <1>3, <1>5, <1>7, OneField
<1>9. Shape(f)
  BY <1>8 DEF Shape
<1>10. /\ [e EXCEPT !.useTx = y] = [pc |-> x, useTx |-> y, i |-> m.i, pending |-> m.pending, lost |-> m.lost]
       /\ [f EXCEPT !.lost = z] = [pc |-> x, useTx |-> m.useTx, i |-> m.i, pending |-> y, lost |-> z]
       /\ [g EXCEPT !.pending = y] = [pc |-> m.pc, useTx |-> m.useTx, i |-> x, pending |-> y, lost |-> m.lost]
  <2>1. /\ [e EXCEPT !.useTx = y] = [pc |-> e.pc, useTx |-> y, i |-> e.i, pending |-> e.pending, lost |-> e.lost]
        /\ [f EXCEPT !.lost = z] = [pc |-> f.pc, useTx |-> f.useTx, i |-> f.i, pending |-> f.pending, lost |-> z]
        /\ [g EXCEPT !.pending = y] = [pc |-> g.pc, useTx |-> g.useTx, i |-> g.i, pending |-> y, lost |-> g.lost]
    BY <1>7, <1>9, OneField
  <2> QED BY <2>1, <1>5, <1>6, <1>8
<1>11. mig' = [mig EXCEPT ![c].pc = x] => mig' = [mig EXCEPT ![c] = e]
  BY <1>1, <1>2
<1>12. mig' = [mig EXCEPT ![c].pc = x, ![c].useTx = y] => mig' = [mig EXCEPT ![c] = [e EXCEPT !.useTx = y]]
  <2>1. mig' = [mig EXCEPT ![c].pc = x, ![c].useTx = y]
            => mig' = [mig EXCEPT ![c] = [[m EXCEPT !.pc = x] EXCEPT !.useTx = y]]
    BY <1>1
  <2> QED BY <1>2, <2>1
<1>13. mig' = [mig EXCEPT ![c].pc = x, ![c].pending = y] => mig' = [mig EXCEPT ![c] = f]
  BY <1>1, <1>2, <1>3
<1>14. mig' = [mig EXCEPT ![c].pc = x, ![c].pending = y, ![c].lost = z]
           => mig' = [mig EXCEPT ![c] = [f EXCEPT !.lost = z]]
  BY <1>1, <1>2, <1>3
<1>15. mig' = [mig EXCEPT ![c].i = x] => mig' = [mig EXCEPT ![c] = g]
  BY <1>1, <1>4
<1>16. mig' = [mig EXCEPT ![c].i = x, ![c].pending = y] => mig' = [mig EXCEPT ![c] = [g EXCEPT !.pending = y]]
  BY <1>1, <1>4
<1> QED BY <1>5, <1>6, <1>8, <1>10, <1>11, <1>12, <1>13, <1>14, <1>15, <1>16 DEF Becomes

\* After such an assignment the types hold and the other calls stay.
LEMMA BecomesType ==
  ASSUME AutoTyped, NEW c \in DOMAIN mig, UNCHANGED <<stmts, cfgDialect>>,
         NEW where \in {"idle", "loop", "ok", "error"}, NEW tx \in BOOLEAN, NEW at \in Nat,
         NEW kept, NEW unsure \in BOOLEAN, Becomes(c, where, tx, at, kept, unsure)
  PROVE  /\ AutoTyped'
         /\ DOMAIN mig' = DOMAIN mig
         /\ \A o \in DOMAIN mig \ {c} : mig'[o] = mig[o]
         /\ mig'[c] = [pc |-> where, useTx |-> tx, i |-> at, pending |-> kept, lost |-> unsure]
<1>1. DOMAIN mig' = DOMAIN mig /\ mig' = [o \in DOMAIN mig' |-> mig'[o]]
  BY DEF AutoTyped, Becomes
<1>2. mig'[c] = [pc |-> where, useTx |-> tx, i |-> at, pending |-> kept, lost |-> unsure]
  BY DEF AutoTyped, Becomes
<1>3. \A o \in DOMAIN mig \ {c} : mig'[o] = mig[o]
  BY DEF AutoTyped, Becomes
<1>4. \A o \in DOMAIN mig : IsCall(mig'[o])
  BY <1>2, <1>3 DEF AutoTyped, IsCall, Shape
<1> QED BY <1>1, <1>2, <1>3, <1>4 DEF AutoTyped

\* The call begins, with or without a transaction, or has nothing to do.
LEMMA BeginStep ==
  ASSUME AutoInv, NEW c \in DOMAIN mig, AutoBegin(c)
  PROVE  AutoInv'
<1> DEFINE m == mig[c]
<1>1. AutoTyped /\ IsCall(m) /\ CallOK(c) /\ m.pc = "idle"
  BY DEF AutoInv, AutoTyped, AutoBegin
<1>2. PICK where \in {"ok", "error", "loop"}, tx \in BOOLEAN :
        /\ Becomes(c, where, tx, m.i, m.pending, m.lost)
        /\ where = "ok" => stmts[c] = <<>>
  <2>1. CASE c \notin Configured /\ mig' = [mig EXCEPT ![c].pc = "error"]
    <3>1. Becomes(c, "error", m.useTx, m.i, m.pending, m.lost)
      BY <1>1, <2>1, Assignments
    <3> QED BY <3>1, <1>1 DEF IsCall
  <2>2. CASE stmts[c] = <<>> /\ mig' = [mig EXCEPT ![c].pc = "ok"]
    <3>1. Becomes(c, "ok", m.useTx, m.i, m.pending, m.lost)
      BY <1>1, <2>2, Assignments
    <3> QED BY <3>1, <1>1, <2>2 DEF IsCall
  <2>3. CASE mig' = [mig EXCEPT ![c].pc = "loop", ![c].useTx = TRUE]
    <3>1. Becomes(c, "loop", TRUE, m.i, m.pending, m.lost)
      BY <1>1, <2>3, Assignments
    <3> QED BY <3>1, <1>1 DEF IsCall
  <2>4. CASE mig' = [mig EXCEPT ![c].pc = "loop"]
    <3>1. Becomes(c, "loop", m.useTx, m.i, m.pending, m.lost)
      BY <1>1, <2>4, Assignments
    <3> QED BY <3>1, <1>1 DEF IsCall
  <2> QED BY <2>1, <2>2, <2>3, <2>4 DEF AutoBegin
<1>3. UNCHANGED <<stmts, cfgDialect, tables>>
  BY DEF AutoBegin
<1>4. /\ AutoTyped' /\ DOMAIN mig' = DOMAIN mig
      /\ \A o \in DOMAIN mig \ {c} : mig'[o] = mig[o]
      /\ mig'[c] = [pc |-> where, useTx |-> tx, i |-> m.i, pending |-> m.pending, lost |-> m.lost]
  BY <1>1, <1>2, <1>3, BecomesType DEF IsCall
<1>5. StepOf(c)
  BY <1>3, <1>4 DEF StepOf
<1>6. Progress(c)'
  BY <1>1, <1>2, <1>3, <1>4 DEF CallOK, Progress, AutoTyped
<1>7. OwnPending(c)' /\ NothingShown(c)'
  BY <1>1, <1>2, <1>3, <1>4 DEF CallOK, OwnPending, NothingShown
<1> QED BY <1>4, <1>5, <1>6, <1>7, CallStep DEF CallOK

\* Fails: with a transaction the call leaves nothing, and what it had committed
\* without one stays.
LEMMA FailStep ==
  ASSUME AutoInv, NEW c \in DOMAIN mig, AtEntity(c), Fails(c), UNCHANGED <<stmts, cfgDialect>>,
         UNCHANGED tables \/ (~InTx(c) /\ tables' = With(tables, Stmt(c)[1], c))
  PROVE  AutoInv'
<1> DEFINE m == mig[c]
<1>1. AutoTyped /\ IsCall(m) /\ CallOK(c) /\ m.pc = "loop" /\ Fails(c)
  BY DEF AutoInv, AutoTyped, AtEntity
<1>2. Becomes(c, "error", m.useTx, m.i, <<>>, m.lost)
  BY <1>1, Assignments DEF Fails
<1>5. /\ AutoTyped' /\ DOMAIN mig' = DOMAIN mig
      /\ \A o \in DOMAIN mig \ {c} : mig'[o] = mig[o]
      /\ mig'[c] = [pc |-> "error", useTx |-> m.useTx, i |-> m.i, pending |-> <<>>, lost |-> m.lost]
  BY <1>1, <1>2, BecomesType DEF IsCall
<1>6. StepOf(c)
  BY <1>5 DEF StepOf, With
<1>7. Progress(c)' /\ OwnPending(c)'
  BY <1>5 DEF Progress, OwnPending
<1>8. NothingShown(c)'
  BY <1>1, <1>5 DEF CallOK, NothingShown, InTx
<1> QED BY <1>5, <1>6, <1>7, <1>8, CallStep DEF CallOK

\* CREATE TABLE: the table is there, or now is, for all or for the call itself.
LEMMA CreateStep ==
  ASSUME AutoInv, NEW c \in DOMAIN mig, AutoCreate(c)
  PROVE  AutoInv'
<1> DEFINE m == mig[c]
           stmt == Stmt(c)[1]
           Plain == mig' = [mig EXCEPT ![c].i = @ + 1]
           There == Plain /\ UNCHANGED tables /\ stmt.table \in DOMAIN tables \cup DOMAIN m.pending
           Hidden == /\ mig' = [mig EXCEPT ![c].i = @ + 1, ![c].pending = With(m.pending, stmt, c)]
                     /\ UNCHANGED tables /\ InTx(c)
           Shown == Plain /\ tables' = With(tables, stmt, c) /\ ~InTx(c)
<1>0. /\ AtEntity(c) /\ Stmt(c) # <<>> /\ UNCHANGED <<stmts, cfgDialect>>
      /\ There \/ (Fails(c) /\ UNCHANGED tables) \/ Hidden \/ Shown
  BY DEF AutoCreate
<1>a. ASSUME Fails(c), UNCHANGED tables PROVE AutoInv'
  <2>1. AtEntity(c) /\ UNCHANGED <<stmts, cfgDialect>>
    BY <1>0
  <2>2. UNCHANGED tables \/ (~InTx(c) /\ tables' = With(tables, Stmt(c)[1], c))
    BY <1>a
  <2>3. Fails(c)
    BY <1>a
  <2> QED BY <2>1, <2>2, <2>3, FailStep
<1> SUFFICES ASSUME There \/ Hidden \/ Shown PROVE AutoInv'
  <2> HIDE DEF There, Hidden, Shown
  <2> QED BY <1>0, <1>a
<1>1. /\ AutoTyped /\ IsCall(m) /\ CallOK(c) /\ m.pc = "loop"
      /\ m.i \in 1..Len(stmts[c]) /\ Stmt(c) # <<>>
  BY <1>0 DEF AutoInv, AutoTyped, AtEntity, CallOK, Progress, IsCall
<1>2. UNCHANGED <<stmts, cfgDialect>>
  BY <1>0
<1>3. PICK kept : /\ Becomes(c, "loop", m.useTx, m.i + 1, kept, m.lost)
                  /\ \/ kept = m.pending /\ UNCHANGED tables
                        /\ stmt.table \in DOMAIN tables \cup DOMAIN m.pending
                     \/ kept = With(m.pending, stmt, c) /\ UNCHANGED tables /\ InTx(c)
                     \/ kept = m.pending /\ tables' = With(tables, stmt, c) /\ ~InTx(c)
  <2>1. CASE There \/ Shown
    <3>1. Becomes(c, "loop", m.useTx, m.i + 1, m.pending, m.lost)
      BY <1>1, <2>1, Assignments
    <3> QED BY <3>1, <2>1
  <2>2. CASE Hidden
    <3>1. PICK i, kept : i = m.i + 1 /\ kept = With(m.pending, stmt, c)
      OBVIOUS
    <3>2. mig' = [mig EXCEPT ![c].i = i, ![c].pending = kept]
      BY <2>2, <3>1
    <3>3. Becomes(c, m.pc, m.useTx, i, kept, m.lost)
      BY <1>1, <3>2, Assignments
    <3>4. Becomes(c, "loop", m.useTx, m.i + 1, With(m.pending, stmt, c), m.lost)
      BY <1>1, <3>1, <3>3
    <3> QED BY <3>4, <2>2
  <2> QED BY <2>1, <2>2
<1>4. /\ AutoTyped' /\ DOMAIN mig' = DOMAIN mig
      /\ \A o \in DOMAIN mig \ {c} : mig'[o] = mig[o]
      /\ mig'[c] = [pc |-> "loop", useTx |-> m.useTx, i |-> m.i + 1, pending |-> kept, lost |-> m.lost]
  BY <1>1, <1>2, <1>3, BecomesType DEF IsCall
<1>5. StepOf(c)
  BY <1>2, <1>3, <1>4 DEF StepOf, With
<1>6. /\ DOMAIN tables \subseteq DOMAIN tables' /\ DOMAIN m.pending \subseteq DOMAIN kept
      /\ stmt.table \in DOMAIN tables' \cup DOMAIN kept
  BY <1>3 DEF With
<1>7. Progress(c)'
  <2>1. \A k \in 1..(m.i - 1) : Created(c, k)
    BY <1>1 DEF CallOK, Progress
  <2>2. \A k \in 1..m.i : Created(c, k)'
    <3>1. \A k \in 1..(m.i - 1) : Created(c, k)'
      BY <1>2, <1>4, <1>6, <2>1 DEF Created
    <3>2. ASSUME NEW k, k = m.i PROVE Created(c, k)'
      BY <3>2, <1>1, <1>2, <1>4, <1>6 DEF Created, Stmt
    <3> QED BY <1>1, <3>1, <3>2
  <2> QED BY <1>1, <1>2, <1>4, <2>2 DEF Progress, AutoTyped
<1>8. OwnPending(c)'
  BY <1>1, <1>3, <1>4 DEF CallOK, OwnPending, With
<1>9. NothingShown(c)'
  BY <1>1, <1>2, <1>3, <1>4 DEF CallOK, NothingShown, InTx
<1> QED BY <1>4, <1>5, <1>7, <1>8, <1>9, CallStep DEF CallOK

\* Commit: what waited for it is in the database, or the call answers an error.
LEMMA ReturnStep ==
  ASSUME AutoInv, NEW c \in DOMAIN mig, AutoReturn(c)
  PROVE  AutoInv'
<1> DEFINE m == mig[c]
<1>1. /\ AutoTyped /\ IsCall(m) /\ CallOK(c) /\ m.pc = "loop"
      /\ m.i = Len(stmts[c]) + 1
  BY DEF AutoInv, AutoTyped, AutoReturn, CallOK, Progress, IsCall
<1>2. UNCHANGED <<stmts, cfgDialect>>
  BY DEF AutoReturn
<1>3. PICK where \in {"ok", "error"}, unsure \in BOOLEAN :
        /\ Becomes(c, where, m.useTx, m.i, <<>>, unsure)
        /\ tables' = tables \/ tables' = Merged(c)
        /\ where = "ok" => tables' = Merged(c)
        /\ where = "error" => unsure
  <2>1. CASE mig' = [mig EXCEPT ![c].pc = "ok", ![c].pending = <<>>] /\ tables' = Merged(c)
    <3>1. Becomes(c, "ok", m.useTx, m.i, <<>>, m.lost)
      BY <1>1, <2>1, Assignments
    <3> QED BY <3>1, <2>1, <1>1 DEF IsCall
  <2>2. CASE /\ mig' = [mig EXCEPT ![c].pc = "error", ![c].pending = <<>>, ![c].lost = TRUE]
             /\ tables' \in {tables, Merged(c)}
    <3>1. Becomes(c, "error", m.useTx, m.i, <<>>, TRUE)
      BY <1>1, <2>2, Assignments
    <3> QED BY <3>1, <2>2
  <2> QED BY <2>1, <2>2 DEF AutoReturn
<1>4. /\ AutoTyped' /\ DOMAIN mig' = DOMAIN mig
      /\ \A o \in DOMAIN mig \ {c} : mig'[o] = mig[o]
      /\ mig'[c] = [pc |-> where, useTx |-> m.useTx, i |-> m.i, pending |-> <<>>, lost |-> unsure]
  BY <1>1, <1>2, <1>3, BecomesType DEF IsCall
<1>5. StepOf(c)
  <2>1. \A t \in DOMAIN m.pending : m.pending[t].by = c
    BY <1>1 DEF CallOK, OwnPending
  <2> QED BY <1>2, <1>3, <1>4, <2>1 DEF StepOf, Merged
<1>6. Progress(c)'
  <2>1. \A k \in DOMAIN stmts[c] : Created(c, k)
    BY <1>1 DEF CallOK, Progress, AutoTyped
  <2>2. where = "ok" => DOMAIN tables' = DOMAIN tables \cup DOMAIN m.pending
    BY <1>3 DEF Merged
  <2> QED BY <1>2, <1>3, <1>4, <2>1, <2>2 DEF Progress, Created
<1>7. OwnPending(c)' /\ NothingShown(c)'
  BY <1>3, <1>4 DEF OwnPending, NothingShown
<1> QED BY <1>4, <1>5, <1>6, <1>7, CallStep DEF CallOK

\* No call has begun.
LEMMA AutoStart == ModelInit => AutoInv
<1> SUFFICES ASSUME NEW s \in Setups, AutoInit(s.lists, s.sqls) PROVE AutoInv
  BY DEF ModelInit
<1>1. \A c \in DOMAIN s.lists : Len(stmts[c]) \in Nat /\ DOMAIN stmts[c] = 1..Len(stmts[c])
  <2> SUFFICES ASSUME NEW c \in DOMAIN s.lists
               PROVE  Len(stmts[c]) \in Nat /\ DOMAIN stmts[c] = 1..Len(stmts[c])
    OBVIOUS
  <2> DEFINE n == Len(s.lists[c])
             Stm(i) == BuildCreateTableSQL(s.lists[c][i], cfgDialect)
  <2>1. n \in Nat /\ stmts[c] = [i \in 1..n |-> Stm(i)]
    BY SetupsAssumption DEF AutoInit
  <2> HIDE DEF n, Stm
  <2>2. stmts[c] \in [1..n -> {Stm(i) : i \in 1..n}]
    BY <2>1
  <2> QED BY <2>1, <2>2, SeqDef, LenProperties
<1>2. AutoTyped
  BY <1>1 DEF AutoInit, AutoTyped, IsCall, Shape
<1>3. \A c \in DOMAIN mig : CallOK(c)
  BY DEF AutoInit, CallOK, Progress, OwnPending, NothingShown
<1> QED BY <1>2, <1>3 DEF AutoInv

\* Steps of AutoMigrate, of the generator and of Load.
LEMMA AutoNextKeeps == AutoInv /\ [ModelNext]_ModelVars => AutoInv'
<1> SUFFICES ASSUME AutoInv, [ModelNext]_ModelVars PROVE AutoInv'
  OBVIOUS
<1>1. CASE UNCHANGED autoVars
  BY <1>1 DEF autoVars, AutoInv, AutoTyped, CallOK, Progress, Created, OwnPending, NothingShown, InTx
<1>2. CASE AutoNext
  <2>1. PICK c \in DOMAIN mig : AutoStep(c) \/ AutoExecFails(c)
    BY <1>2 DEF AutoNext
  <2>2. CASE AutoRefused(c) \/ AutoAborted(c) \/ AutoExecFails(c)
    <3>1. AtEntity(c) /\ Fails(c) /\ UNCHANGED <<stmts, cfgDialect>>
      BY <2>2 DEF AutoRefused, AutoAborted, AutoExecFails, Holder
    <3>2. UNCHANGED tables \/ (~InTx(c) /\ tables' = With(tables, Stmt(c)[1], c))
      BY <2>2 DEF AutoRefused, AutoAborted, AutoExecFails
    <3> QED BY <3>1, <3>2, FailStep
  <2> QED BY <2>1, <2>2, BeginStep, CreateStep, ReturnStep DEF AutoStep
<1> QED BY <1>1, <1>2 DEF ModelNext, ModelVars

\* AutoMigrate keeps its promise to each caller, for any entities, any number of
\* processes and any failures of the database.
THEOREM MigratesWhole == ModelSpec => []MigrateAccounts
<1>1. AutoInv => MigrateAccounts
  BY DEF AutoInv, CallOK, Progress, NothingShown, MigrateAccounts
<1> QED BY <1>1, AutoStart, AutoNextKeeps, PTL DEF ModelSpec

----------------------------------------------------------------------------
(* The generator                                                            *)

GenFields == {"pc", "ver", "token", "tries", "up", "after", "kept"}

\* The states of a call that has found a name.
Working == {"writeUp", "fillUp", "writeDown", "fillDown", "remove", "done"}

Named(g) == gen[g].token # ""

\* A call has a version once it looks for a name, and a token when it has one.
GenCallTyped(g) ==
    /\ DOMAIN gen[g] = GenFields
    /\ gen[g].pc \in Working \cup {"idle", "stat", "error", "crashed"}
    /\ gen[g].pc = "idle" => ~Named(g)
    /\ gen[g].pc \in Working => Named(g)
    /\ Named(g) => gen[g].token \in Tokens
    /\ gen[g].pc = "stat" \/ Named(g) => gen[g].ver \in Seconds

GenTyped ==
    /\ \E s \in Setups : calls = s.calls
    /\ now \in Seconds
    /\ gen = [g \in DOMAIN calls |-> gen[g]]
    /\ \A g \in DOMAIN calls : GenCallTyped(g)

\* No other call has settled on the name of g.
Sole(g) == \A h \in DOMAIN calls \ {g} : Settled(h) => UpFile(h) # UpFile(g)

Whole(f) == f \in disk /\ f \notin unfilled

\* What call g has left in the directory so far.
Leaves(g) ==
    /\ gen[g].pc = "writeUp" => UpFile(g) \notin disk
    /\ gen[g].pc \in {"writeUp", "fillUp", "writeDown"} => DownFile(g) \notin disk
    /\ gen[g].pc = "fillUp" => UpFile(g) \in disk /\ UpFile(g) \in unfilled
    /\ gen[g].pc \in {"writeDown", "fillDown", "remove", "done"} => Whole(UpFile(g))
    /\ gen[g].pc = "fillDown" => DownFile(g) \in disk /\ DownFile(g) \in unfilled
    /\ gen[g].pc = "done" => Whole(DownFile(g))
    /\ gen[g].pc = "remove" => ~Whole(DownFile(g))
    /\ gen[g].pc = "error" => ~Whole(DownFile(g)) /\ (Whole(UpFile(g)) => gen[g].kept)
    /\ gen[g].pc = "crashed" /\ DownFile(g) \in disk => Whole(UpFile(g))

\* The calls that returned before g began keep their names to themselves.
Apart(g) ==
    \A h \in gen[g].after :
        /\ h \in DOMAIN calls /\ h # g /\ gen[h].pc = "done"
        /\ gen[g].pc \in Working => UpFile(g) # UpFile(h)

\* Nobody removes a down file.
DownStays(g) == gen[g].pc \in {"fillDown", "done"} => DownFile(g) \in disk

GenOK(g) == (Settled(g) /\ Sole(g) => Leaves(g)) /\ Apart(g) /\ DownStays(g)

GenInv == GenTyped /\ \A g \in DOMAIN calls : GenOK(g)

\* Where a call that has a version finds its file.
LEMMA FileThere ==
  ASSUME GenTyped, NEW g \in DOMAIN calls, gen[g].ver \in Seconds,
         NEW t \in Tokens, NEW d \in {"up", "down"}
  PROVE  /\ FileOf(g, t, d) \in DOMAIN Files
         /\ Files[FileOf(g, t, d)] = FileName(gen[g].ver, calls[g].name, t, d)
<1>1. PICK s \in Setups : calls = s.calls
  BY DEF GenTyped
<1>2. \E i \in DOMAIN Files : Files[i] = FileName(gen[g].ver, calls[g].name, t, d)
  BY <1>1, NamesAssumption
<1> QED BY <1>2 DEF FileOf

\* An up file is no down file, and two calls share both files or none.
LEMMA FilesOfTwo ==
  ASSUME GenTyped, NEW g \in DOMAIN calls, NEW h \in DOMAIN calls,
         gen[g].ver \in Seconds, gen[h].ver \in Seconds, NEW t \in Tokens, NEW u \in Tokens
  PROVE  /\ FileOf(g, t, "up") # FileOf(h, u, "down")
         /\ FileOf(g, t, "up") = FileOf(h, u, "up") <=> FileOf(g, t, "down") = FileOf(h, u, "down")
<1> DEFINE F(d) == FileName(gen[g].ver, calls[g].name, t, d)
           H(d) == FileName(gen[h].ver, calls[h].name, u, d)
<1>1. \A d \in {"up", "down"} : Files[FileOf(g, t, d)] = F(d) /\ Files[FileOf(h, u, d)] = H(d)
  BY FileThere
<1>2. F("up") # H("down")
  <2>1. F("up").rest = <<"up">> /\ H("down").rest = <<"down">>
    BY DEF FileName
  <2> QED BY <2>1
<1>3. \A d, e \in {"up", "down"} : F(d) = H(d) => F(e) = H(e)
  <2>1. \A d : /\ F(d).version = gen[g].ver
               /\ F(d).name = Append(normalizeName(calls[g].name), t)
               /\ H(d).version = gen[h].ver
               /\ H(d).name = Append(normalizeName(calls[h].name), u)
    BY DEF FileName
  <2> QED BY <2>1 DEF FileName
<1>4. \A d \in {"up", "down"} : F(d) = H(d) => FileOf(g, t, d) = FileOf(h, u, d)
  BY DEF FileOf
<1> QED BY <1>1, <1>2, <1>3, <1>4

\* The same of calls that have a name.
LEMMA NamesOfTwo ==
  ASSUME GenTyped, NEW g \in DOMAIN calls, NEW h \in DOMAIN calls, Named(g), Named(h)
  PROVE  /\ UpFile(g) # DownFile(h)
         /\ UpFile(g) = UpFile(h) <=> DownFile(g) = DownFile(h)
BY FilesOfTwo DEF GenTyped, GenCallTyped, UpFile, DownFile

\* Whose name is another's too.
LEMMA Clashes ==
  ASSUME GenTyped, NEW g \in DOMAIN calls, Settled(g)
  PROVE  Clash(g) <=> ~Sole(g)
<1>1. PICK s \in Setups : calls = s.calls
  BY DEF GenTyped
<1>2. \A h \in DOMAIN calls : LET name == normalizeName(calls[h].name) IN name \in Seq(Range(name))
  <2>1. \A x : <<x>> \in Seq(Range(<<x>>))
    BY DEF Range
  <2> QED BY <1>1, <2>1, StructsAssumption DEF IsList, normalizeName
<1>3. ASSUME NEW h \in DOMAIN calls, Settled(h)
      PROVE  SameName(g, h) <=> UpFile(h) = UpFile(g)
  <2> DEFINE N(k) == FileName(gen[k].ver, calls[k].name, gen[k].token, "up")
  <2>1. SameName(g, h) => UpFile(h) = UpFile(g)
    BY DEF SameName, UpFile, FileOf, FileName
  <2>2. UpFile(h) = UpFile(g) => N(h) = N(g)
    <3>1. \A k \in {g, h} : gen[k].ver \in Seconds /\ gen[k].token \in Tokens
      BY <1>3 DEF GenTyped, GenCallTyped, Settled, Named
    <3>2. \A k \in {g, h} : Files[UpFile(k)] = N(k)
      BY <3>1, FileThere DEF UpFile
    <3> QED BY <3>2
  <2>3. \A k : /\ N(k).version = gen[k].ver
               /\ N(k).name = Append(normalizeName(calls[k].name), gen[k].token)
    BY DEF FileName
  <2>4. N(h) = N(g) => SameName(g, h)
    <3> SUFFICES ASSUME N(h) = N(g) PROVE SameName(g, h)
      OBVIOUS
    <3>1. PICK a, b : a = normalizeName(calls[g].name) /\ b = normalizeName(calls[h].name)
      OBVIOUS
    <3>2. a \in Seq(Range(a) \cup Range(b)) /\ b \in Seq(Range(a) \cup Range(b))
      BY <1>2, <3>1
    <3>3. Append(a, gen[g].token) = Append(b, gen[h].token)
      BY <2>3, <3>1
    <3>4. a = b /\ gen[g].token = gen[h].token
      <4> DEFINE T == Range(a) \cup Range(b) \cup {gen[g].token, gen[h].token}
      <4>1. a \in Seq(T) /\ b \in Seq(T)
        BY <3>2
      <4> HIDE DEF T
      <4>2. gen[g].token \in T /\ gen[h].token \in T
        BY DEF T
      <4> QED BY <3>3, <4>1, <4>2, AppendInjective
    <3> QED BY <2>3, <3>1, <3>4 DEF SameName
  <2> QED BY <2>1, <2>2, <2>4
<1> QED BY <1>3 DEF Clash, Sole

\* The other files are as they were.
OnlyFile(f) ==
    \A i : i # f => (i \in disk' <=> i \in disk) /\ (i \in unfilled' <=> i \in unfilled)

\* A step of a call that has settled may change one of its files, and removes no
\* down file.
FileStep(h) ==
    \/ UNCHANGED <<disk, unfilled>>
    \/ OnlyFile(UpFile(h))
    \/ OnlyFile(DownFile(h)) /\ disk \subseteq disk'

\* A step of call h: the others stay, and only the files of h change.
GenStepOf(h) ==
    /\ calls' = calls
    /\ \A g \in DOMAIN calls \ {h} : gen'[g] = gen[g]
    /\ gen[h].pc # "done"
    /\ Settled(h) => /\ Settled(h)' /\ gen'[h].ver = gen[h].ver
                     /\ gen'[h].token = gen[h].token
    /\ IF Settled(h) THEN FileStep(h) ELSE UNCHANGED <<disk, unfilled>>

\* A step of call h leaves alone what another call has left.
LEMMA OtherCall ==
  ASSUME GenInv, NEW h \in DOMAIN calls, GenStepOf(h), NEW g \in DOMAIN calls, g # h
  PROVE  GenOK(g)'
<1>1. GenTyped /\ GenOK(g) /\ gen'[g] = gen[g] /\ calls' = calls
  BY DEF GenInv, GenStepOf
<1>2. /\ UpFile(g)' = UpFile(g) /\ DownFile(g)' = DownFile(g)
      /\ Named(g)' = Named(g) /\ Settled(g)' = Settled(g)
  BY <1>1 DEF UpFile, DownFile, FileOf, Named, Settled
<1>3. Settled(h) => UpFile(h)' = UpFile(h)
  BY DEF GenStepOf, UpFile, FileOf
<1>4. Settled(g)' /\ Sole(g)' => Leaves(g)'
  <2> SUFFICES ASSUME Settled(g), Sole(g)' PROVE Leaves(g)'
    BY <1>2
  <2>1. Sole(g)
    <3> SUFFICES ASSUME NEW k \in DOMAIN calls \ {g}, Settled(k) PROVE UpFile(k) # UpFile(g)
      BY DEF Sole
    <3>1. Settled(k)' /\ UpFile(k)' = UpFile(k)
      BY <1>3 DEF GenStepOf, UpFile, FileOf, Settled, Named
    <3> QED BY <3>1, <1>1, <1>2 DEF Sole
  <2>2. Leaves(g)
    BY <1>1, <2>1 DEF GenOK
  <2>3. \A f \in {UpFile(g), DownFile(g)} :
            (f \in disk' <=> f \in disk) /\ (f \in unfilled' <=> f \in unfilled)
    <3>1. CASE Settled(h)
      <4>1. UpFile(h) # UpFile(g)
        BY <2>1, <3>1 DEF Sole
      <4>2. \A f \in {UpFile(g), DownFile(g)} : f # UpFile(h) /\ f # DownFile(h)
        BY <1>1, <3>1, <4>1, NamesOfTwo DEF Settled, Named
      <4> QED BY <3>1, <4>2 DEF GenStepOf, FileStep, OnlyFile
    <3>2. CASE ~Settled(h)
      BY <3>2 DEF GenStepOf
    <3> QED BY <3>1, <3>2
  <2> QED BY <1>1, <1>2, <2>2, <2>3 DEF Leaves, Whole
<1>5. Apart(g)'
  <2> SUFFICES ASSUME NEW k \in gen[g].after
               PROVE  /\ k \in DOMAIN calls /\ k # g /\ gen'[k].pc = "done"
                      /\ gen[g].pc \in Working => UpFile(g) # UpFile(k)'
    BY <1>1, <1>2 DEF Apart
  <2>1. /\ k \in DOMAIN calls /\ k # g /\ gen[k].pc = "done"
        /\ gen[g].pc \in Working => UpFile(g) # UpFile(k)
    BY <1>1 DEF GenOK, Apart
  <2>2. gen'[k] = gen[k]
    BY <2>1 DEF GenStepOf
  <2>3. UpFile(k)' = UpFile(k)
    BY <1>1, <2>2 DEF UpFile, FileOf
  <2> QED BY <2>1, <2>2, <2>3
<1>6. DownStays(g)'
  <2> SUFFICES ASSUME gen[g].pc \in {"fillDown", "done"} PROVE DownFile(g) \in disk'
    BY <1>1, <1>2 DEF DownStays
  <2>1. DownFile(g) \in disk /\ Named(g)
    BY <1>1 DEF GenOK, DownStays, GenTyped, GenCallTyped, Working
  <2>2. Settled(h) => DownFile(g) # UpFile(h)
    BY <1>1, <2>1, NamesOfTwo DEF Settled, Named
  <2> QED BY <1>1, <2>1, <2>2 DEF GenStepOf, FileStep, OnlyFile
<1> QED BY <1>4, <1>5, <1>6 DEF GenOK

\* A step of one call keeps the invariant if it keeps it for that call.
LEMMA GenStep ==
  ASSUME GenInv, NEW h \in DOMAIN calls, GenStepOf(h), now' = now,
         gen' = [g \in DOMAIN calls |-> gen'[g]], GenCallTyped(h)', GenOK(h)'
  PROVE  GenInv'
<1>1. \A g \in DOMAIN calls : GenCallTyped(g)'
  BY DEF GenInv, GenTyped, GenStepOf, GenCallTyped, Named
<1>2. GenTyped'
  BY <1>1 DEF GenInv, GenTyped, GenStepOf
<1>3. \A g \in DOMAIN calls' : GenOK(g)'
  BY OtherCall DEF GenStepOf
<1> QED BY <1>2, <1>3 DEF GenInv

\* A call that has not settled on a name has left nothing.
LEMMA UnsettledOK ==
  ASSUME NEW h, ~Settled(h)', Apart(h)', gen'[h].pc \notin {"fillDown", "done"}
  PROVE  GenOK(h)'
BY DEF GenOK, DownStays

\* The structs are parsed: the calls that have returned are behind this one.
LEMMA BuildStep ==
  ASSUME GenInv, NEW h \in DOMAIN calls, GenBuild(h)
  PROVE  GenInv'
<1>1. /\ gen = [g \in DOMAIN calls |-> gen[g]] /\ GenCallTyped(h) /\ now \in Seconds
      /\ gen[h].pc = "idle" /\ calls' = calls /\ now' = now /\ UNCHANGED <<disk, unfilled>>
  BY DEF GenInv, GenTyped, GenBuild
<1>2. /\ gen' = [g \in DOMAIN calls |-> gen'[g]]
      /\ \A g \in DOMAIN calls \ {h} : gen'[g] = gen[g]
      /\ DOMAIN gen'[h] = GenFields
      /\ gen'[h].pc \in {"stat", "error"} /\ gen'[h].ver = now /\ gen'[h].token = gen[h].token
      /\ gen'[h].after = {g \in DOMAIN calls : gen[g].pc = "done"}
  BY <1>1 DEF GenBuild, GenCallTyped, GenFields
<1>3. ~Named(h) /\ ~Named(h)'
  BY <1>1, <1>2 DEF GenCallTyped, Named
<1>4. GenStepOf(h)
  BY <1>1, <1>2, <1>3 DEF GenStepOf, Settled, Named
<1>5. GenCallTyped(h)'
  BY <1>1, <1>2, <1>3 DEF GenCallTyped, Working
<1>6. Apart(h)'
  <2>1. \A k \in gen'[h].after : k \in DOMAIN calls' /\ k # h /\ gen'[k].pc = "done"
    BY <1>1, <1>2
  <2> QED BY <1>2, <2>1 DEF Apart, Working
<1>7. ~Settled(h)'
  BY <1>3 DEF Settled, Named
<1> QED BY <1>1, <1>2, <1>4, <1>5, <1>6, <1>7, GenStep, UnsettledOK

\* A token is drawn: neither name is taken, or the call goes on or gives up.
LEMMA StatStep ==
  ASSUME GenInv, NEW h \in DOMAIN calls, NEW t \in Tokens, GenStat(h, t)
  PROVE  GenInv'
<1> DEFINE taken == {FileOf(h, t, "up"), FileOf(h, t, "down")} \cap disk # {}
           last == gen[h].tries + 1 = Attempts
<1>1. /\ GenTyped /\ gen = [g \in DOMAIN calls |-> gen[g]] /\ GenCallTyped(h) /\ GenOK(h)
      /\ gen[h].pc = "stat" /\ calls' = calls /\ now' = now /\ UNCHANGED <<disk, unfilled>>
  BY DEF GenInv, GenTyped, GenStat
<1>2. /\ gen' = [g \in DOMAIN calls |-> gen'[g]]
      /\ \A g \in DOMAIN calls \ {h} : gen'[g] = gen[g]
      /\ DOMAIN gen'[h] = GenFields
      /\ gen'[h].ver = gen[h].ver /\ gen'[h].after = gen[h].after
      /\ gen'[h].token = (IF taken /\ last THEN "" ELSE t)
      /\ gen'[h].pc = (IF ~taken THEN "writeUp" ELSE IF last THEN "error" ELSE "stat")
  BY <1>1 DEF GenStat, GenCallTyped, GenFields
<1>3. ~Settled(h) /\ t # ""
  BY <1>1, GenAssumption DEF Settled
<1>4. GenStepOf(h)
  BY <1>1, <1>2, <1>3 DEF GenStepOf
<1>5. GenCallTyped(h)'
  BY <1>1, <1>2, <1>3 DEF GenCallTyped, Named, Working
<1>6. ~taken => UpFile(h)' = FileOf(h, t, "up") /\ DownFile(h)' = FileOf(h, t, "down")
  BY <1>1, <1>2 DEF UpFile, DownFile, FileOf
<1>7. Apart(h)'
  <2> SUFFICES ASSUME NEW k \in gen[h].after
               PROVE  /\ k \in DOMAIN calls /\ k # h /\ gen'[k].pc = "done"
                      /\ ~taken => FileOf(h, t, "up") # UpFile(k)'
    BY <1>1, <1>2, <1>6 DEF Apart, Working
  <2>1. k \in DOMAIN calls /\ k # h /\ gen[k].pc = "done" /\ gen'[k] = gen[k]
    BY <1>1, <1>2 DEF GenOK, Apart
  <2>2. UpFile(k)' = UpFile(k)
    BY <1>1, <2>1 DEF UpFile, FileOf
  <2>3. Named(k) /\ GenCallTyped(k) /\ DownFile(k) \in disk
    BY <2>1 DEF GenInv, GenOK, DownStays, GenTyped, GenCallTyped, Working
  <2>4. FileOf(h, t, "up") = UpFile(k) => FileOf(h, t, "down") = DownFile(k)
    BY <1>1, <2>1, <2>3, FilesOfTwo DEF GenCallTyped, UpFile, DownFile
  <2> QED BY <2>1, <2>2, <2>3, <2>4
<1>8. CASE taken
  <2>1. ~Settled(h)' /\ gen'[h].pc \notin {"fillDown", "done"}
    BY <1>2, <1>8 DEF Settled
  <2> QED BY <1>1, <1>2, <1>4, <1>5, <1>7, <2>1, GenStep, UnsettledOK
<1>9. CASE ~taken
  <2>1. Leaves(h)' /\ DownStays(h)'
    BY <1>1, <1>2, <1>6, <1>9 DEF Leaves, DownStays
  <2> QED BY <1>1, <1>2, <1>4, <1>5, <1>7, <2>1, GenStep DEF GenOK
<1> QED BY <1>8, <1>9

\* A call in its writes moves on and keeps its name.
Goes(h, where, left) ==
    /\ gen' = [g \in DOMAIN calls |-> gen'[g]]
    /\ \A g \in DOMAIN calls \ {h} : gen'[g] = gen[g]
    /\ DOMAIN gen'[h] = GenFields
    /\ gen'[h].pc = where /\ gen'[h].kept = left
    /\ gen'[h].ver = gen[h].ver /\ gen'[h].token = gen[h].token /\ gen'[h].after = gen[h].after

LEMMA Going ==
  ASSUME GenInv, NEW h \in DOMAIN calls, NEW where
  PROVE  /\ gen' = [gen EXCEPT ![h].pc = where] => Goes(h, where, gen[h].kept)
         /\ gen' = [gen EXCEPT ![h].pc = where, ![h].kept = TRUE] => Goes(h, where, TRUE)
<1>1. gen = [g \in DOMAIN calls |-> gen[g]] /\ DOMAIN gen[h] = GenFields
  BY DEF GenInv, GenTyped, GenCallTyped
<1>2. ASSUME gen' = [gen EXCEPT ![h].pc = where]
      PROVE  Goes(h, where, gen[h].kept)
  BY <1>1, <1>2 DEF Goes, GenFields
<1>3. ASSUME gen' = [gen EXCEPT ![h].pc = where, ![h].kept = TRUE]
      PROVE  Goes(h, where, TRUE)
  BY <1>1, <1>3 DEF Goes, GenFields
<1> QED BY <1>2, <1>3

\* A step of a call that has settled on a name: the name stays, and so do the
\* calls before it.
LEMMA SettledStep ==
  ASSUME GenInv, NEW h \in DOMAIN calls, gen[h].pc \in Working \ {"done"},
         UNCHANGED <<calls, now>>,
         NEW where \in (Working \ {"writeUp"}) \cup {"error", "crashed"}, NEW left, Goes(h, where, left),
         FileStep(h),
         Sole(h) /\ Leaves(h) /\ UpFile(h) # DownFile(h) => Leaves(h)',
         where \in {"fillDown", "done"} => DownFile(h) \in disk'
  PROVE  GenInv'
<1>1. GenTyped /\ GenCallTyped(h) /\ GenOK(h) /\ Named(h) /\ Settled(h)
  BY DEF GenInv, GenTyped, GenCallTyped, Settled, Named, Working
<1>2. Settled(h)' /\ UpFile(h)' = UpFile(h) /\ DownFile(h)' = DownFile(h)
  BY <1>1 DEF Goes, Settled, Working, UpFile, DownFile, FileOf
<1>3. GenStepOf(h)
  BY <1>1, <1>2 DEF GenStepOf, Goes, Working
<1>4. GenCallTyped(h)'
  BY <1>1, <1>2 DEF GenCallTyped, Goes, Working, Named
<1>5. Apart(h)'
  <2> SUFFICES ASSUME NEW k \in gen[h].after
               PROVE  k \in DOMAIN calls /\ k # h /\ gen'[k].pc = "done" /\ UpFile(h) # UpFile(k)'
    BY <1>2 DEF Apart, Goes
  <2>1. k \in DOMAIN calls /\ k # h /\ gen[k].pc = "done" /\ gen'[k] = gen[k] /\ UpFile(h) # UpFile(k)
    BY <1>1 DEF GenOK, Apart, Goes
  <2>2. UpFile(k)' = UpFile(k)
    BY <2>1 DEF UpFile, FileOf
  <2> QED BY <2>1, <2>2
<1>6. Sole(h)' => Leaves(h)'
  <2>1. Sole(h)' => Sole(h)
    <3> SUFFICES ASSUME Sole(h)', NEW k \in DOMAIN calls \ {h}, Settled(k)
                 PROVE  UpFile(k) # UpFile(h)
      BY DEF Sole
    <3>1. Settled(k)' /\ UpFile(k)' = UpFile(k)
      BY DEF Settled, UpFile, FileOf, Goes
    <3> QED BY <1>2, <3>1 DEF Sole
  <2>2. UpFile(h) # DownFile(h)
    BY <1>1, NamesOfTwo
  <2> QED BY <1>1, <2>1, <2>2 DEF GenOK
<1>7. DownStays(h)'
  BY <1>2 DEF DownStays, Goes
<1> QED BY <1>2, <1>3, <1>4, <1>5, <1>6, <1>7, GenStep DEF GenOK, Goes

\* What a write leaves of its file.
LEMMA Writes ==
  ASSUME GenTyped, NEW h \in DOMAIN calls, Settled(h), NEW f
  PROVE  /\ Create(f) => OnlyFile(f) /\ disk \subseteq disk' /\ f \in disk' /\ f \in unfilled'
         /\ Fill(h, f) => OnlyFile(f) /\ disk' = disk
         /\ Fill(h, f) /\ Sole(h) => f \notin unfilled'
<1>1. Sole(h) => ~Clash(h)
  BY Clashes
<1> QED BY <1>1 DEF Create, Fill, OnlyFile

\* The steps of a call in its writes, all of which keep its name.
LEMMA NamesStay ==
  ASSUME GenInv, NEW h \in DOMAIN calls, gen[h].pc \in Working, UNCHANGED calls,
         NEW where, NEW left, Goes(h, where, left)
  PROVE  /\ GenTyped /\ Settled(h)
         /\ UpFile(h)' = UpFile(h) /\ DownFile(h)' = DownFile(h)
BY DEF GenInv, GenTyped, GenCallTyped, Settled, Named, Working, Goes, UpFile, DownFile, FileOf

\* The up file is created, or not.
LEMMA WriteUpStep ==
  ASSUME GenInv, NEW h \in DOMAIN calls, GenWriteUp(h)
  PROVE  GenInv'
<1>1. gen[h].pc = "writeUp" /\ UNCHANGED <<calls, now>>
  BY DEF GenWriteUp
<1>2. CASE Create(UpFile(h)) /\ gen' = [gen EXCEPT ![h].pc = "fillUp"]
  <2>1. Goes(h, "fillUp", gen[h].kept)
    BY <1>2, Going
  <2>2. /\ GenTyped /\ Settled(h)
        /\ UpFile(h)' = UpFile(h) /\ DownFile(h)' = DownFile(h)
    BY <1>1, <2>1, NamesStay DEF Working
  <2>3. OnlyFile(UpFile(h)) /\ UpFile(h) \in disk' /\ UpFile(h) \in unfilled'
    BY <1>2, <2>2, Writes
  <2>4. Leaves(h) /\ UpFile(h) # DownFile(h) => Leaves(h)'
    BY <1>1, <2>1, <2>2, <2>3 DEF Leaves, Goes, OnlyFile
  <2> QED BY <1>1, <2>1, <2>3, <2>4, SettledStep DEF Working, FileStep
<1>3. CASE UNCHANGED <<disk, unfilled>> /\ gen' = [gen EXCEPT ![h].pc = "error"]
  <2>1. Goes(h, "error", gen[h].kept)
    BY <1>3, Going
  <2>2. /\ GenTyped /\ Settled(h)
        /\ UpFile(h)' = UpFile(h) /\ DownFile(h)' = DownFile(h)
    BY <1>1, <2>1, NamesStay DEF Working
  <2>4. Leaves(h) => Leaves(h)'
    BY <1>1, <1>3, <2>1, <2>2 DEF Leaves, Goes, Whole
  <2> QED BY <1>1, <1>3, <2>1, <2>4, SettledStep DEF Working, FileStep
<1> QED BY <1>2, <1>3 DEF GenWriteUp, WriteFails

\* It is filled, or not.
LEMMA FillUpStep ==
  ASSUME GenInv, NEW h \in DOMAIN calls, GenFillUp(h)
  PROVE  GenInv'
<1>1. gen[h].pc = "fillUp" /\ UNCHANGED <<calls, now>>
  BY DEF GenFillUp
<1>2. CASE Fill(h, UpFile(h)) /\ gen' = [gen EXCEPT ![h].pc = "writeDown"]
  <2>1. Goes(h, "writeDown", gen[h].kept)
    BY <1>2, Going
  <2>2. /\ GenTyped /\ Settled(h)
        /\ UpFile(h)' = UpFile(h) /\ DownFile(h)' = DownFile(h)
    BY <1>1, <2>1, NamesStay DEF Working
  <2>3. OnlyFile(UpFile(h)) /\ disk' = disk /\ (Sole(h) => UpFile(h) \notin unfilled')
    BY <1>2, <2>2, Writes
  <2>4. Sole(h) /\ Leaves(h) /\ UpFile(h) # DownFile(h) => Leaves(h)'
    BY <1>1, <2>1, <2>2, <2>3 DEF Leaves, Goes, OnlyFile, Whole
  <2> QED BY <1>1, <2>1, <2>3, <2>4, SettledStep DEF Working, FileStep
<1>3. CASE UNCHANGED <<disk, unfilled>> /\ gen' = [gen EXCEPT ![h].pc = "error"]
  <2>1. Goes(h, "error", gen[h].kept)
    BY <1>3, Going
  <2>2. /\ GenTyped /\ Settled(h)
        /\ UpFile(h)' = UpFile(h) /\ DownFile(h)' = DownFile(h)
    BY <1>1, <2>1, NamesStay DEF Working
  <2>4. Leaves(h) => Leaves(h)'
    BY <1>1, <1>3, <2>1, <2>2 DEF Leaves, Goes, Whole
  <2> QED BY <1>1, <1>3, <2>1, <2>4, SettledStep DEF Working, FileStep
<1> QED BY <1>2, <1>3 DEF GenFillUp, WriteFails

\* The down file is created, or not.
LEMMA WriteDownStep ==
  ASSUME GenInv, NEW h \in DOMAIN calls, GenWriteDown(h)
  PROVE  GenInv'
<1>1. gen[h].pc = "writeDown" /\ UNCHANGED <<calls, now>>
  BY DEF GenWriteDown
<1>2. CASE Create(DownFile(h)) /\ gen' = [gen EXCEPT ![h].pc = "fillDown"]
  <2>1. Goes(h, "fillDown", gen[h].kept)
    BY <1>2, Going
  <2>2. /\ GenTyped /\ Settled(h)
        /\ UpFile(h)' = UpFile(h) /\ DownFile(h)' = DownFile(h)
    BY <1>1, <2>1, NamesStay DEF Working
  <2>3. /\ OnlyFile(DownFile(h)) /\ disk \subseteq disk'
        /\ DownFile(h) \in disk' /\ DownFile(h) \in unfilled'
    BY <1>2, <2>2, Writes
  <2>4. Leaves(h) /\ UpFile(h) # DownFile(h) => Leaves(h)'
    BY <1>1, <2>1, <2>2, <2>3 DEF Leaves, Goes, OnlyFile, Whole
  <2> QED BY <1>1, <2>1, <2>3, <2>4, SettledStep DEF Working, FileStep
<1>3. CASE UNCHANGED <<disk, unfilled>> /\ gen' = [gen EXCEPT ![h].pc = "remove"]
  <2>1. Goes(h, "remove", gen[h].kept)
    BY <1>3, Going
  <2>2. /\ GenTyped /\ Settled(h)
        /\ UpFile(h)' = UpFile(h) /\ DownFile(h)' = DownFile(h)
    BY <1>1, <2>1, NamesStay DEF Working
  <2>4. Leaves(h) => Leaves(h)'
    BY <1>1, <1>3, <2>1, <2>2 DEF Leaves, Goes, Whole
  <2> QED BY <1>1, <1>3, <2>1, <2>4, SettledStep DEF Working, FileStep
<1> QED BY <1>2, <1>3 DEF GenWriteDown, WriteFails

\* It is filled, or not.
LEMMA FillDownStep ==
  ASSUME GenInv, NEW h \in DOMAIN calls, GenFillDown(h)
  PROVE  GenInv'
<1>1. gen[h].pc = "fillDown" /\ UNCHANGED <<calls, now>>
  BY DEF GenFillDown
<1>2. CASE Fill(h, DownFile(h)) /\ gen' = [gen EXCEPT ![h].pc = "done"]
  <2>1. Goes(h, "done", gen[h].kept)
    BY <1>2, Going
  <2>2. /\ GenTyped /\ Settled(h) /\ GenOK(h)
        /\ UpFile(h)' = UpFile(h) /\ DownFile(h)' = DownFile(h)
    BY <1>1, <2>1, NamesStay DEF Working, GenInv
  <2>3. OnlyFile(DownFile(h)) /\ disk' = disk /\ (Sole(h) => DownFile(h) \notin unfilled')
    BY <1>2, <2>2, Writes
  <2>4. Sole(h) /\ Leaves(h) /\ UpFile(h) # DownFile(h) => Leaves(h)'
    BY <1>1, <2>1, <2>2, <2>3 DEF Leaves, Goes, OnlyFile, Whole
  <2>5. DownFile(h) \in disk'
    BY <1>1, <2>2, <2>3 DEF GenOK, DownStays
  <2> QED BY <1>1, <2>1, <2>3, <2>4, <2>5, SettledStep DEF Working, FileStep
<1>3. CASE UNCHANGED <<disk, unfilled>> /\ gen' = [gen EXCEPT ![h].pc = "remove"]
  <2>1. Goes(h, "remove", gen[h].kept)
    BY <1>3, Going
  <2>2. /\ GenTyped /\ Settled(h)
        /\ UpFile(h)' = UpFile(h) /\ DownFile(h)' = DownFile(h)
    BY <1>1, <2>1, NamesStay DEF Working
  <2>4. Leaves(h) => Leaves(h)'
    BY <1>1, <1>3, <2>1, <2>2 DEF Leaves, Goes, Whole
  <2> QED BY <1>1, <1>3, <2>1, <2>4, SettledStep DEF Working, FileStep
<1> QED BY <1>2, <1>3 DEF GenFillDown, WriteFails

\* The up file is taken away again, or stays.
LEMMA RemoveStep ==
  ASSUME GenInv, NEW h \in DOMAIN calls, GenRemove(h)
  PROVE  GenInv'
<1>1. gen[h].pc = "remove" /\ UNCHANGED <<calls, now>>
  BY DEF GenRemove
<1>2. CASE /\ disk' = disk \ {UpFile(h)}
           /\ unfilled' = unfilled \ {UpFile(h)}
           /\ gen' = [gen EXCEPT ![h].pc = "error"]
  <2>1. Goes(h, "error", gen[h].kept)
    BY <1>2, Going
  <2>2. UpFile(h)' = UpFile(h) /\ DownFile(h)' = DownFile(h)
    BY <1>1, <2>1, NamesStay DEF Working
  <2>3. OnlyFile(UpFile(h)) /\ UpFile(h) \notin disk'
    BY <1>2 DEF OnlyFile
  <2>4. Leaves(h) /\ UpFile(h) # DownFile(h) => Leaves(h)'
    BY <1>1, <2>1, <2>2, <2>3 DEF Leaves, Goes, OnlyFile, Whole
  <2> QED BY <1>1, <2>1, <2>3, <2>4, SettledStep DEF Working, FileStep
<1>3. CASE /\ UNCHANGED <<disk, unfilled>>
           /\ gen' = [gen EXCEPT ![h].pc = "error", ![h].kept = TRUE]
  <2>1. Goes(h, "error", TRUE)
    BY <1>3, Going
  <2>2. UpFile(h)' = UpFile(h) /\ DownFile(h)' = DownFile(h)
    BY <1>1, <2>1, NamesStay DEF Working
  <2>4. Leaves(h) => Leaves(h)'
    BY <1>1, <1>3, <2>1, <2>2 DEF Leaves, Goes, Whole
  <2> QED BY <1>1, <1>3, <2>1, <2>4, SettledStep DEF Working, FileStep
<1> QED BY <1>2, <1>3 DEF GenRemove

\* The call gives up before it has a name, or ends in the middle of its writes.
LEMMA FailsStep ==
  ASSUME GenInv, NEW h \in DOMAIN calls, GenFails(h)
  PROVE  GenInv'
<1>1. /\ gen = [g \in DOMAIN calls |-> gen[g]] /\ GenCallTyped(h) /\ GenOK(h)
      /\ UNCHANGED <<calls, now, disk, unfilled>>
  BY DEF GenInv, GenTyped, GenFails
<1>2. CASE /\ gen[h].pc \in {"idle", "stat"}
           /\ gen' = [gen EXCEPT ![h].pc = "error", ![h].token = ""]
  <2>1. /\ gen' = [g \in DOMAIN calls |-> gen'[g]]
        /\ \A g \in DOMAIN calls \ {h} : gen'[g] = gen[g]
        /\ DOMAIN gen'[h] = GenFields /\ gen'[h].pc = "error" /\ gen'[h].token = ""
        /\ gen'[h].after = gen[h].after
    BY <1>1, <1>2 DEF GenCallTyped, GenFields
  <2>2. ~Settled(h) /\ ~Settled(h)'
    BY <1>2, <2>1 DEF Settled
  <2>3. GenStepOf(h)
    BY <1>1, <1>2, <2>1, <2>2 DEF GenStepOf
  <2>4. GenCallTyped(h)'
    BY <2>1 DEF GenCallTyped, Named, Working
  <2>5. Apart(h)'
    <3>1. \A k \in gen[h].after : k \in DOMAIN calls /\ k # h /\ gen[k].pc = "done"
      BY <1>1 DEF GenOK, Apart
    <3>2. \A k \in gen'[h].after : k \in DOMAIN calls' /\ k # h /\ gen'[k].pc = "done"
      BY <1>1, <2>1, <3>1
    <3> QED BY <2>1, <3>2 DEF Apart, Working
  <2> QED BY <1>1, <2>1, <2>2, <2>3, <2>4, <2>5, GenStep, UnsettledOK
<1>3. CASE /\ gen[h].pc \in {"writeUp", "fillUp", "writeDown", "fillDown", "remove"}
           /\ gen' = [gen EXCEPT ![h].pc = "crashed"]
  <2>1. Goes(h, "crashed", gen[h].kept)
    BY <1>3, Going
  <2>2. UpFile(h)' = UpFile(h) /\ DownFile(h)' = DownFile(h)
    BY <1>1, <1>3, <2>1, NamesStay DEF Working
  <2>4. Leaves(h) => Leaves(h)'
    BY <1>1, <1>3, <2>1, <2>2 DEF Leaves, Goes, Whole
  <2> QED BY <1>1, <1>3, <2>1, <2>4, SettledStep DEF Working, FileStep
<1> QED BY <1>2, <1>3 DEF GenFails

\* No call has been made.
LEMMA GenStart == ModelInit => GenInv
<1> SUFFICES ASSUME NEW s \in Setups, GenInit(s.calls) PROVE GenInv
  BY DEF ModelInit
<1>1. now \in Seconds
  <2>1. PICK lo, hi : lo = Min(Seconds) /\ hi = Max(Seconds)
    OBVIOUS
  <2>2. lo \in Nat /\ hi \in Nat /\ lo <= hi /\ Seconds = lo..hi
    BY <2>1, GenAssumption
  <2>3. now = lo
    BY <2>1 DEF GenInit
  <2> QED BY <2>2, <2>3
<1>2. \A g \in DOMAIN calls : /\ DOMAIN gen[g] = GenFields
                              /\ gen[g].pc = "idle" /\ gen[g].token = "" /\ gen[g].after = {}
  BY DEF GenInit, GenFields
<1>3. GenTyped
  BY <1>1, <1>2 DEF GenInit, GenTyped, GenCallTyped, Named, Working
<1>4. \A g \in DOMAIN calls : GenOK(g)
  BY <1>2 DEF GenOK, Settled, Apart, DownStays
<1> QED BY <1>3, <1>4 DEF GenInv

\* Load reads the directory and writes nothing.
LEMMA LoadReads == Next => UNCHANGED <<disk, unfilled>>
BY DEF Next, Load, LoadFails, Finish, Skip, Read, ReadFails

\* Steps of the generator, of the clock, of Load and of AutoMigrate.
LEMMA GenNextKeeps == GenInv /\ [ModelNext]_ModelVars => GenInv'
<1> SUFFICES ASSUME GenInv, [ModelNext]_ModelVars PROVE GenInv'
  OBVIOUS
<1>1. ASSUME UNCHANGED <<disk, unfilled>>, calls' = calls, gen' = gen, now' \in Seconds PROVE GenInv'
  <2>1. /\ \A g : UpFile(g)' = UpFile(g) /\ DownFile(g)' = DownFile(g) /\ Named(g)' = Named(g)
        /\ \A g : Settled(g)' = Settled(g)
    BY <1>1 DEF UpFile, DownFile, FileOf, Named, Settled
  <2>2. GenTyped'
    BY <1>1, <2>1 DEF GenInv, GenTyped, GenCallTyped
  <2>3. ASSUME NEW g \in DOMAIN calls PROVE GenOK(g)'
    <3>1. GenOK(g)
      BY DEF GenInv
    <3>2. Sole(g)' => Sole(g)
      BY <1>1, <2>1 DEF Sole
    <3> QED BY <1>1, <2>1, <3>1, <3>2 DEF GenOK, Leaves, Whole, Apart, DownStays
  <2> QED BY <1>1, <2>2, <2>3 DEF GenInv
<1>2. now \in Seconds
  BY DEF GenInv, GenTyped
<1>3. CASE GenNext
  <2>1. CASE Second
    BY <1>1, <2>1 DEF Second
  <2>2. CASE ~Second
    <3>1. PICK g \in DOMAIN calls : \/ GenBuild(g) \/ \E t \in Tokens : GenStat(g, t)
                                   \/ GenWriteUp(g) \/ GenFillUp(g) \/ GenWriteDown(g) \/ GenFillDown(g)
                                   \/ GenRemove(g) \/ GenFails(g)
      BY <1>3, <2>2 DEF GenNext
    <3> QED BY <3>1, BuildStep, StatStep, WriteUpStep, FillUpStep, WriteDownStep, FillDownStep,
                RemoveStep, FailsStep
  <2> QED BY <2>1, <2>2
<1>4. CASE ~GenNext
  <2>1. UNCHANGED <<disk, unfilled, calls, gen, now>>
    BY <1>4, LoadReads DEF ModelNext, ModelVars, genVars, vars
  <2> QED BY <1>1, <1>2, <2>1
<1> QED BY <1>3, <1>4

\* Of a call with a name of its own the generator leaves both files, whole, when it
\* has returned nil, and nothing but what it could not fill or remove after an
\* error; no call takes a name of an earlier one.  For any clock and tokens, any
\* number of concurrent calls and any fault between two steps.
THEOREM KeepsFiles == ModelSpec => []GeneratorKeepsFiles
<1>1. ASSUME GenInv, NEW g \in DOMAIN calls, Settled(g), ~Clash(g)
      PROVE  /\ gen[g].pc = "done" => {UpFile(g), DownFile(g)} \subseteq disk \ unfilled
             /\ gen[g].pc = "error" =>
                    {UpFile(g), DownFile(g)} \cap (disk \ unfilled)
                        \subseteq IF gen[g].kept THEN {UpFile(g)} ELSE {}
             /\ gen[g].pc = "crashed" /\ DownFile(g) \in disk => UpFile(g) \in disk \ unfilled
  <2>1. Sole(g) /\ GenOK(g)
    BY <1>1, Clashes DEF GenInv
  <2>2. Leaves(g)
    BY <1>1, <2>1 DEF GenOK
  <2> QED BY <2>2 DEF Leaves, Whole
<1>2. ASSUME GenInv, NEW g \in DOMAIN calls, gen[g].pc = "done", NEW h \in gen[g].after
      PROVE  UpFile(g) # UpFile(h)
  BY <1>2 DEF GenInv, GenOK, Apart, Working
<1>3. GenInv => GeneratorKeepsFiles
  BY <1>1, <1>2 DEF GeneratorKeepsFiles
<1> QED BY <1>3, GenStart, GenNextKeeps, PTL DEF ModelSpec

----------------------------------------------------------------------------
(* Load                                                                     *)

\* A set of numbers has a least one.
LEMMA LeastNumber ==
  ASSUME NEW T, T \subseteq Nat, T # {}
  PROVE  Min(T) \in T /\ \A y \in T : Min(T) <= y
<1>1. PICK R : R = OpToRel(<, Nat)
  OBVIOUS
<1>2. IsWellFoundedOn(R, Nat)
  BY <1>1, NatLessThanWellFounded
<1>3. PICK x \in T : \A y \in T : ~(<<y, x>> \in R)
  BY <1>2, WFMin
<1>4. x \in Nat /\ \A y \in T : y \in Nat /\ (<<y, x>> \in R <=> y < x)
  BY <1>1 DEF OpToRel
<1>5. ASSUME NEW y \in T PROVE x <= y
  <2>1. x \in Nat /\ y \in Nat /\ ~(y < x)
    BY <1>3, <1>4
  <2> QED BY <2>1
<1> QED BY <1>5 DEF Min

\* How many numbers of a set are smaller than v orders them, and no two agree.
LEMMA Below ==
  ASSUME NEW S, S \subseteq Nat, IsFiniteSet(S), NEW v \in S
  PROVE  /\ Cardinality({u \in S : u < v}) \in Nat
         /\ Cardinality({u \in S : u < v}) < Cardinality(S)
         /\ \A w \in S : v < w => Cardinality({u \in S : u < v}) < Cardinality({u \in S : u < w})
<1>1. ASSUME NEW T, T \subseteq S, {u \in S : u < v} \subseteq T, v \in T
      PROVE  /\ Cardinality({u \in S : u < v}) \in Nat /\ Cardinality(T) \in Nat
             /\ Cardinality({u \in S : u < v}) < Cardinality(T)
  <2> DEFINE L == {u \in S : u < v}
  <2>1. IsFiniteSet(T)
    BY <1>1, FS_Subset
  <2>2. IsFiniteSet(L) /\ Cardinality(L) <= Cardinality(T) /\ (Cardinality(T) = Cardinality(L) => T = L)
    BY <1>1, <2>1, FS_Subset
  <2>3. T # L
    BY <1>1
  <2>4. Cardinality(L) \in Nat /\ Cardinality(T) \in Nat
    BY <2>1, <2>2, FS_CardinalityType
  <2> QED BY <2>2, <2>3, <2>4
<1>2. ASSUME NEW w \in S, v < w
      PROVE  Cardinality({u \in S : u < v}) < Cardinality({u \in S : u < w})
  <2>1. \A u \in S : u \in Nat /\ (u < v => u < w)
    BY <1>2
  <2>2. /\ {u \in S : u < w} \subseteq S /\ {u \in S : u < v} \subseteq {u \in S : u < w}
        /\ v \in {u \in S : u < w}
    BY <1>2, <2>1
  <2> QED BY <1>1, <2>2
<1>3. {u \in S : u < v} \subseteq S
  OBVIOUS
<1> QED BY <1>1, <1>2, <1>3

\* Ascending lists the numbers of a finite set, each once, in order.
LEMMA AscendingLists ==
  ASSUME NEW S, S \subseteq Nat, IsFiniteSet(S)
  PROVE  /\ Cardinality(S) \in Nat
         /\ \A k \in 1..Cardinality(S) : Ascending(S)[k] \in S
         /\ \A v \in S : \E k \in 1..Cardinality(S) : Ascending(S)[k] = v
         /\ \A k \in 2..Cardinality(S) : Ascending(S)[k-1] < Ascending(S)[k]
<1> DEFINE n == Cardinality(S)
           rank == [v \in S |-> Cardinality({u \in S : u < v})]
<1>1. n \in Nat /\ IsFiniteSet(0..(n-1)) /\ Cardinality(0..(n-1)) = n
  <2>1. n \in Nat
    BY FS_CardinalityType
  <2> HIDE DEF n
  <2> QED BY <2>1, FS_Interval
<1>2. ASSUME NEW v \in S PROVE rank[v] \in 0..(n-1)
  <2>1. rank[v] \in Nat /\ rank[v] < n
    BY Below
  <2> HIDE DEF n, rank
  <2> QED BY <1>1, <2>1
<1>3. \A v, w \in S : v < w => rank[v] < rank[w]
  BY Below
<1>4. \A v, w \in S : rank[v] = rank[w] => v = w
  <2> SUFFICES ASSUME NEW v \in S, NEW w \in S, rank[v] = rank[w], v # w PROVE FALSE
    OBVIOUS
  <2>1. v < w \/ w < v
    OBVIOUS
  <2> HIDE DEF rank
  <2> QED BY <1>1, <1>2, <1>3, <2>1
<1>5. rank \in Injection(S, 0..(n-1))
  BY <1>2, <1>4 DEF Injection, IsInjective
<1>6. \A k \in 0..(n-1) : \E v \in S : rank[v] = k
  <2> HIDE DEF n, rank
  <2>1. rank \in Surjection(S, 0..(n-1))
    BY <1>1, <1>5, FS_Injection DEF n
  <2> QED BY <2>1 DEF Surjection
<1>7. \A k \in 1..n : Ascending(S)[k] \in S /\ rank[Ascending(S)[k]] = k - 1
  <2> SUFFICES ASSUME NEW k \in 1..n
               PROVE  Ascending(S)[k] \in S /\ rank[Ascending(S)[k]] = k - 1
    OBVIOUS
  <2>1. k - 1 \in 0..(n-1)
    BY <1>1
  <2>2. PICK v \in S : rank[v] = k - 1
    BY <1>6, <2>1
  <2>3. Ascending(S)[k] = CHOOSE u \in S : Cardinality({t \in S : t < u}) = k - 1
    BY DEF Ascending
  <2> QED BY <2>2, <2>3
<1>8. ASSUME NEW v \in S PROVE \E k \in 1..n : Ascending(S)[k] = v
  <2>1. rank[v] + 1 \in 1..n
    BY <1>1, <1>2
  <2> HIDE DEF n, rank
  <2>2. rank[Ascending(S)[rank[v] + 1]] = rank[v]
    BY <1>1, <1>2, <1>7, <2>1
  <2> QED BY <1>4, <1>7, <2>1, <2>2
<1>9. ASSUME NEW k \in 2..n PROVE Ascending(S)[k-1] < Ascending(S)[k]
  <2>1. k - 1 \in 1..n /\ k \in 1..n
    BY <1>1
  <2> DEFINE a == Ascending(S)[k-1]
             b == Ascending(S)[k]
  <2>2. a \in S /\ b \in S /\ rank[a] = k - 1 - 1 /\ rank[b] = k - 1
    BY <1>7, <2>1
  <2> HIDE DEF a, b, rank, n
  <2>3. ~(b < a) /\ a # b
    BY <1>3, <2>1, <2>2
  <2>4. a < b
    BY <2>2, <2>3
  <2> QED BY <2>4 DEF a, b
<1> QED BY <1>1, <1>7, <1>8, <1>9

\* The files the loop has read of version v and direction d.
Seen(v, d) == {i \in present \ todo : /\ ~Ignored(i) /\ Files[i].version = v
                                      /\ Direction(Files[i]) = d}

\* f is what the loop got of the last of them.
FromLast(v, d, f) ==
    \/ Seen(v, d) = {} /\ f = 0
    \/ \E j \in Seen(v, d) : /\ f = j \/ (f = 0 /\ j \in EmptyFiles \cup cut)
                             /\ \A i \in Seen(v, d) : i <= j

LoadTyped ==
    /\ disk \subseteq DOMAIN Files
    /\ todo \subseteq present /\ present \subseteq DOMAIN Files
    /\ result = "idle" => present = {}
    /\ \A i \in present \ todo, j \in todo : i < j

\* byVersion has the versions read so far, each with the last file of either direction.
Collected ==
    /\ DOMAIN byVersion = {Files[i].version : i \in {j \in present \ todo : ~Ignored(j)}}
    /\ \A v \in DOMAIN byVersion : /\ DOMAIN byVersion[v] = {"name", "up", "down"}
                                   /\ FromLast(v, "up", byVersion[v].up)
                                   /\ FromLast(v, "down", byVersion[v].down)

LoadInv == LoadTyped /\ Collected /\ LoadIsComplete

\* The directory may change while the loop runs; the files of the setups and of
\* the generator are all it can hold.
LEMMA BesideLoad ==
  ASSUME LoadInv, UNCHANGED loadVars, disk' \subseteq DOMAIN Files
  PROVE  LoadInv'
<1>1. /\ dialect' = dialect /\ present' = present /\ todo' = todo /\ byVersion' = byVersion
      /\ result' = result /\ out' = out /\ cut' = cut /\ unreadable' = unreadable
  BY DEF loadVars
<1>2. LoadTyped'
  BY <1>1 DEF LoadInv, LoadTyped
<1>3. /\ \A k : Ignored(k)' = Ignored(k)
      /\ \A v, d : Usable(v, d)' = Usable(v, d)
  BY <1>1 DEF Ignored, Usable
<1>4. \A v, d : Seen(v, d)' = Seen(v, d)
  BY <1>1, <1>3 DEF Seen
<1>5. \A v, d, f : FromLast(v, d, f)' = FromLast(v, d, f)
  BY <1>1, <1>4 DEF FromLast
<1>6. Collected'
  <2>1. {j \in present' \ todo' : ~Ignored(j)'} = {j \in present \ todo : ~Ignored(j)}
    BY <1>1, <1>3
  <2> QED BY <1>1, <1>5, <2>1 DEF LoadInv, Collected
<1>7. LoadIsComplete'
  <2> DEFINE found == {v \in {Files[i].version : i \in present} :
                          Usable(v, "up") \cup Usable(v, "down") # {}}
  <2>1. found' = found
    BY <1>1, <1>3
  <2>2. \A v, d : /\ Contended(v, d)' = Contended(v, d)
                  /\ ReadsBlank(v, d)' = ReadsBlank(v, d)
    <3> SUFFICES ASSUME NEW v, NEW d
                 PROVE  /\ Contended(v, d)' = Contended(v, d)
                        /\ ReadsBlank(v, d)' = ReadsBlank(v, d)
      OBVIOUS
    <3>1. Usable(v, d)' = Usable(v, d)
      BY <1>3
    <3> QED BY <1>1, <3>1 DEF Contended, ReadsBlank
  <2> QED BY <1>1, <1>3, <2>1, <2>2 DEF LoadInv, LoadIsComplete
<1> QED BY <1>2, <1>6, <1>7 DEF LoadInv

\* A load has not begun.
LEMMA LoadStart == ModelInit => LoadInv
<1> SUFFICES ASSUME NEW s \in Setups, Init(s.disk, s.dialects) PROVE LoadInv
  BY DEF ModelInit
<1>1. LoadTyped
  BY SetupsAssumption DEF Init, LoadTyped
<1>2. DOMAIN byVersion = {} /\ present = {} /\ result = "idle"
  BY DEF Init
<1>3. Collected
  BY <1>2 DEF Collected
<1>4. LoadIsComplete
  BY <1>2 DEF LoadIsComplete
<1> QED BY <1>1, <1>3, <1>4 DEF LoadInv

\* ReadDir: the loop has everything before it.
LEMMA LoadStep ==
  ASSUME LoadInv, Load
  PROVE  LoadInv'
<1>1. present' \ todo' = {} /\ present = {}
  BY DEF Load, LoadInv, LoadTyped
<1>2. LoadTyped'
  BY <1>1 DEF Load, LoadInv, LoadTyped
<1>3. DOMAIN byVersion' = {}
  BY <1>1 DEF Load, LoadInv, Collected
<1>4. Collected'
  BY <1>1, <1>3 DEF Collected
<1>5. LoadIsComplete'
  BY DEF Load, LoadIsComplete
<1> QED BY <1>2, <1>4, <1>5 DEF LoadInv

\* The loop takes the entries by their number.
LEMMA EntryStep ==
  ASSUME LoadInv, NEW i, AtEntry(i), todo' = todo \ {i},
         UNCHANGED <<disk, dialect, present, result>>
  PROVE  /\ i \in present /\ i \in DOMAIN Files
         /\ present' \ todo' = (present \ todo) \cup {i} /\ LoadTyped'
         /\ \A v, d : /\ \A j \in Seen(v, d) : j < i
                      /\ Seen(v, d)' = Seen(v, d) \cup
                            {k \in {i} : /\ ~Ignored(k) /\ Files[k].version = v
                                         /\ Direction(Files[k]) = d}
<1>1. DOMAIN Files \subseteq Nat
  BY FilesAssumption
<1>2. todo \subseteq DOMAIN Files /\ present \subseteq DOMAIN Files
  BY DEF LoadInv, LoadTyped
<1>3. i \in todo /\ \A y \in todo : i <= y
  BY <1>1, <1>2, LeastNumber DEF AtEntry
<1>4. i \in present /\ i \in DOMAIN Files
  BY <1>3 DEF LoadInv, LoadTyped
<1>5. present' \ todo' = (present \ todo) \cup {i}
  BY <1>4
<1>6. \A y \in todo' : i < y
  <2> SUFFICES ASSUME NEW y \in todo' PROVE i < y
    OBVIOUS
  <2>1. y \in Nat /\ i \in Nat /\ i <= y /\ y # i
    BY <1>1, <1>2, <1>3
  <2> QED BY <2>1
<1>7. LoadTyped'
  BY <1>5, <1>6 DEF LoadInv, LoadTyped, AtEntry
<1>8. ASSUME NEW v, NEW d
      PROVE  /\ \A j \in Seen(v, d) : j < i
             /\ Seen(v, d)' = Seen(v, d) \cup
                   {k \in {i} : /\ ~Ignored(k) /\ Files[k].version = v
                                /\ Direction(Files[k]) = d}
  <2>1. \A j \in Seen(v, d) : j < i
    BY <1>3 DEF Seen, LoadInv, LoadTyped
  <2>2. \A k : Ignored(k)' = Ignored(k)
    BY DEF Ignored
  <2> QED BY <1>5, <2>1, <2>2 DEF Seen
<1> QED BY <1>4, <1>5, <1>7, <1>8

\* A directory or a name of another shape.
LEMMA SkipStep ==
  ASSUME LoadInv, NEW i, Skip(i)
  PROVE  LoadInv'
<1>1. /\ AtEntry(i) /\ todo' = todo \ {i} /\ Ignored(i) /\ byVersion' = byVersion
      /\ UNCHANGED <<disk, dialect, present, result, cut>>
  BY DEF Skip
<1>2. present' \ todo' = (present \ todo) \cup {i} /\ LoadTyped'
  BY <1>1, EntryStep
<1>3. \A v, d : Seen(v, d)' = Seen(v, d)
  BY <1>1, EntryStep
<1>4. \A k : Ignored(k)' = Ignored(k)
  BY <1>1 DEF Ignored
<1>5. Collected'
  <2>1. {j \in present' \ todo' : ~Ignored(j)'} = {j \in present \ todo : ~Ignored(j)}
    BY <1>1, <1>2, <1>4
  <2>2. \A v, d, f : FromLast(v, d, f)' = FromLast(v, d, f)
    BY <1>1, <1>3 DEF FromLast
  <2> QED BY <1>1, <2>1, <2>2 DEF LoadInv, Collected
<1>6. LoadIsComplete'
  BY <1>1 DEF AtEntry, LoadIsComplete
<1> QED BY <1>2, <1>5, <1>6 DEF LoadInv

\* What the version of a file has before the loop reads it.
LEMMA EntryType ==
  ASSUME LoadInv, NEW i \in present \cap todo
  PROVE  /\ DOMAIN Entry(Files[i]) = {"name", "up", "down"}
         /\ FromLast(Files[i].version, "up", Entry(Files[i]).up)
         /\ FromLast(Files[i].version, "down", Entry(Files[i]).down)
<1> DEFINE v == Files[i].version
<1>1. CASE v \in DOMAIN byVersion
  BY <1>1 DEF Entry, LoadInv, Collected
<1>2. CASE v \notin DOMAIN byVersion
  <2>1. Entry(Files[i]) = [name |-> Files[i].name, up |-> 0, down |-> 0]
    BY <1>2 DEF Entry
  <2>2. \A d : Seen(v, d) = {}
    BY <1>2 DEF LoadInv, Collected, Seen
  <2> QED BY <2>1, <2>2 DEF FromLast
<1> QED BY <1>1, <1>2

\* A file gives its version one script and leaves the other.
LEMMA ReadStep ==
  ASSUME LoadInv, NEW i, Read(i)
  PROVE  LoadInv'
<1>0. PICK content \in Content(i) :
         byVersion' = [v \in DOMAIN byVersion \cup {Files[i].version} |->
                          IF v = Files[i].version THEN Filled(Files[i], content)
                          ELSE byVersion[v]]
  BY DEF Read
<1> DEFINE f == Files[i]
           v0 == Files[i].version
           m == Filled(Files[i], content)
<1>1. /\ AtEntry(i) /\ todo' = todo \ {i} /\ ~Ignored(i)
      /\ UNCHANGED <<disk, dialect, present, result>> /\ cut \subseteq cut'
      /\ byVersion' = [v \in DOMAIN byVersion \cup {v0} |-> IF v = v0 THEN m ELSE byVersion[v]]
      /\ content = i \/ (content = 0 /\ i \in EmptyFiles \cup cut')
  BY <1>0 DEF Read, Content
<1>2. /\ i \in present /\ i \in DOMAIN Files
      /\ present' \ todo' = (present \ todo) \cup {i} /\ LoadTyped'
  BY <1>1, EntryStep
<1>3. \A k : Ignored(k)' = Ignored(k)
  BY <1>1 DEF Ignored
<1>4. /\ DOMAIN Entry(f) = {"name", "up", "down"}
      /\ FromLast(v0, "up", Entry(f).up) /\ FromLast(v0, "down", Entry(f).down)
  <2>1. i \in todo
    <3>1. todo \subseteq Nat
      BY FilesAssumption DEF LoadInv, LoadTyped
    <3> QED BY <1>1, <3>1, LeastNumber DEF AtEntry
  <2> QED BY <1>2, <2>1, EntryType
<1>5. \A v, d : v # v0 \/ d # Direction(f) => Seen(v, d)' = Seen(v, d)
  <2>1. \A v, d : Seen(v, d)' = Seen(v, d) \cup
                     {k \in {i} : ~Ignored(k) /\ Files[k].version = v /\ Direction(Files[k]) = d}
    BY <1>1, EntryStep
  <2> QED BY <2>1
<1>6. \A d : d = Direction(f) => \A x : x = content => FromLast(v0, d, x)'
  <2> SUFFICES ASSUME NEW d, d = Direction(f), NEW x, x = content PROVE FromLast(v0, d, x)'
    OBVIOUS
  <2>1. Seen(v0, d)' = Seen(v0, d) \cup {i} /\ \A j \in Seen(v0, d) : j < i
    BY <1>1, EntryStep
  <2>2. Seen(v0, d) \subseteq Nat /\ i \in Nat
    BY <1>2, FilesAssumption DEF Seen, LoadInv, LoadTyped
  <2>3. \A j \in Seen(v0, d)' : j <= i
    BY <2>1, <2>2
  <2>4. i \in Seen(v0, d)'
    BY <2>1
  <2> QED BY <1>1, <2>3, <2>4 DEF FromLast
<1>7. \A v, d, e : (v # v0 \/ d # Direction(f)) /\ FromLast(v, d, e) => FromLast(v, d, e)'
  BY <1>1, <1>5 DEF FromLast
<1>8. \A n : n = m => /\ DOMAIN n = {"name", "up", "down"}
                      /\ FromLast(v0, "up", n.up)' /\ FromLast(v0, "down", n.down)'
  <2>1. Direction(f) \in {"up", "down"}
    BY <1>1 DEF Ignored, Parses
  <2>2. CASE Direction(f) = "up"
    <3>1. DOMAIN m = {"name", "up", "down"} /\ m.up = content /\ m.down = Entry(f).down
      BY <1>4, <2>2 DEF Filled
    <3> HIDE DEF m
    <3> QED BY <1>4, <1>6, <1>7, <2>2, <3>1
  <2>3. CASE Direction(f) = "down"
    <3>1. DOMAIN m = {"name", "up", "down"} /\ m.down = content /\ m.up = Entry(f).up
      BY <1>4, <2>3 DEF Filled
    <3> HIDE DEF m
    <3> QED BY <1>4, <1>6, <1>7, <2>3, <3>1
  <2> QED BY <2>1, <2>2, <2>3
<1>9. Collected'
  <2> HIDE DEF m
  <2>1. {j \in present' \ todo' : ~Ignored(j)'} = {j \in present \ todo : ~Ignored(j)} \cup {i}
    BY <1>1, <1>2, <1>3
  <2>2. DOMAIN byVersion' = {Files[j].version : j \in {k \in present' \ todo' : ~Ignored(k)'}}
    BY <1>1, <2>1 DEF LoadInv, Collected
  <2>3. ASSUME NEW v \in DOMAIN byVersion'
        PROVE  /\ DOMAIN byVersion'[v] = {"name", "up", "down"}
               /\ FromLast(v, "up", byVersion[v].up)'
               /\ FromLast(v, "down", byVersion[v].down)'
    <3>1. CASE v = v0
      <4>1. byVersion'[v] = m
        BY <1>1, <3>1
      <4> QED BY <1>8, <3>1, <4>1
    <3>2. CASE v # v0
      <4>1. v \in DOMAIN byVersion /\ byVersion'[v] = byVersion[v]
        BY <1>1, <2>3, <3>2
      <4> QED BY <1>7, <3>2, <4>1 DEF LoadInv, Collected
    <3> QED BY <3>1, <3>2
  <2> QED BY <2>2, <2>3 DEF Collected
<1>10. LoadIsComplete'
  BY <1>1 DEF AtEntry, LoadIsComplete
<1> QED BY <1>2, <1>9, <1>10 DEF LoadInv

\* The versions found are finitely many numbers, and at the end of the loop they
\* are those of the files that can be used.
LEMMA VersionsFound ==
  ASSUME LoadInv
  PROVE  /\ DOMAIN byVersion \subseteq Nat /\ IsFiniteSet(DOMAIN byVersion)
         /\ todo = {} => /\ \A v, d : Usable(v, d) = Seen(v, d)
                         /\ DOMAIN byVersion = {v \in {Files[i].version : i \in present} :
                                                   Usable(v, "up") \cup Usable(v, "down") # {}}
<1> DEFINE n == Len(Files)
           f == [i \in 1..n |-> Files[i].version]
           all == {f[i] : i \in 1..n}
<1>1. n \in Nat /\ DOMAIN Files = 1..n /\ \A i \in 1..n : f[i] \in Nat
  BY FilesAssumption
<1>2. IsFiniteSet(all)
  <2>1. f \in Surjection(1..n, all)
    BY DEF Surjection
  <2>2. IsFiniteSet(1..n)
    <3> HIDE DEF n
    <3> QED BY <1>1, FS_Interval
  <2> HIDE DEF n, f, all
  <2> QED BY <2>1, <2>2, FS_Surjection
<1>3. DOMAIN byVersion \subseteq all /\ all \subseteq Nat
  BY <1>1 DEF LoadInv, LoadTyped, Collected
<1>4. IsFiniteSet(DOMAIN byVersion)
  BY <1>2, <1>3, FS_Subset
<1>5. ASSUME todo = {} PROVE \A v, d : Usable(v, d) = Seen(v, d)
  <2>1. \A k : Parses(Files[k], dialect)
                  => (dialect # "" => Len(Files[k].rest) = 1 \/ Files[k].rest[1] = dialect)
    BY DEF Parses, DialectMatches
  <2> QED BY <1>5, <2>1 DEF Usable, Seen, Ignored
<1>6. ASSUME todo = {}
      PROVE  DOMAIN byVersion = {v \in {Files[i].version : i \in present} :
                                    Usable(v, "up") \cup Usable(v, "down") # {}}
  <2>1. \A k : ~Ignored(k) => Direction(Files[k]) \in {"up", "down"}
    BY DEF Ignored, Parses
  <2>2. DOMAIN byVersion = {Files[i].version : i \in {j \in present : ~Ignored(j)}}
    BY <1>6 DEF LoadInv, Collected
  <2>3. \A v : Usable(v, "up") \cup Usable(v, "down")
                  = {i \in present : ~Ignored(i) /\ Files[i].version = v}
    BY <1>5, <1>6, <2>1 DEF Seen
  <2> QED BY <2>2, <2>3
<1> QED BY <1>3, <1>4, <1>5, <1>6

\* The migrations of some versions: each once, in order, with what was collected.
LEMMA SortedLists ==
  ASSUME NEW S, S \subseteq Nat, IsFiniteSet(S)
  PROVE  /\ {Sorted(S)[k].version : k \in DOMAIN Sorted(S)} = S
         /\ \A k \in 2..Len(Sorted(S)) : Sorted(S)[k-1].version < Sorted(S)[k].version
         /\ \A k \in DOMAIN Sorted(S) : /\ Sorted(S)[k].version \in S
                                        /\ Sorted(S)[k].up = byVersion[Sorted(S)[k].version].up
                                        /\ Sorted(S)[k].down = byVersion[Sorted(S)[k].version].down
<1>1. PICK n : n = Cardinality(S)
  OBVIOUS
<1>2. /\ n \in Nat
      /\ \A k \in 1..n : Ascending(S)[k] \in S
      /\ \A v \in S : \E k \in 1..n : Ascending(S)[k] = v
      /\ \A k \in 2..n : Ascending(S)[k-1] < Ascending(S)[k]
  BY <1>1, AscendingLists
<1>3. /\ DOMAIN Sorted(S) = 1..n
      /\ \A k \in 1..n : /\ Sorted(S)[k].version = Ascending(S)[k]
                         /\ Sorted(S)[k].up = byVersion[Ascending(S)[k]].up
                         /\ Sorted(S)[k].down = byVersion[Ascending(S)[k]].down
  BY <1>1 DEF Sorted
<1>4. Len(Sorted(S)) = n
  BY <1>1, <1>2 DEF Sorted
<1>5. {Sorted(S)[k].version : k \in DOMAIN Sorted(S)} = S
  <2>1. {Sorted(S)[k].version : k \in DOMAIN Sorted(S)} = {Ascending(S)[k] : k \in 1..n}
    BY <1>3
  <2> QED BY <1>2, <2>1
<1>6. ASSUME NEW k \in 2..n PROVE Sorted(S)[k-1].version < Sorted(S)[k].version
  <2>1. k \in 1..n /\ k - 1 \in 1..n
    BY <1>2
  <2> QED BY <1>2, <1>3, <2>1
<1> QED BY <1>2, <1>3, <1>4, <1>5, <1>6

\* The loop is done: what it has collected is returned, or refused.
LEMMA FinishStep ==
  ASSUME LoadInv, Finish
  PROVE  LoadInv'
<1> DEFINE S == DOMAIN byVersion
           found == {v \in {Files[i].version : i \in present} :
                        Usable(v, "up") \cup Usable(v, "down") # {}}
<1>1. /\ todo = {} /\ todo' = todo /\ present' = present /\ disk' = disk
      /\ dialect' = dialect /\ byVersion' = byVersion
      /\ cut' = cut /\ unreadable' = unreadable
      /\ result = "loading" /\ result' \in {"ok", "error"}
  BY DEF Finish
<1>2. LoadTyped'
  BY <1>1 DEF LoadInv, LoadTyped
<1>3. /\ \A k : Ignored(k)' = Ignored(k)
      /\ \A v, d : Usable(v, d)' = Usable(v, d)
  BY <1>1 DEF Ignored, Usable
<1>4. \A v, d, f : FromLast(v, d, f)' = FromLast(v, d, f)
  <2>1. \A v, d : Seen(v, d)' = Seen(v, d)
    BY <1>1, <1>3 DEF Seen
  <2> QED BY <1>1, <2>1 DEF FromLast
<1>5. Collected'
  <2>1. {j \in present' \ todo' : ~Ignored(j)'} = {j \in present \ todo : ~Ignored(j)}
    BY <1>1, <1>3
  <2> QED BY <1>1, <1>4, <2>1 DEF LoadInv, Collected
<1>6. S \subseteq Nat /\ IsFiniteSet(S) /\ S = found /\ \A v, d : Usable(v, d) = Seen(v, d)
  BY <1>1, VersionsFound
<1>7. found' = found
  BY <1>1, <1>3
<1>8. \A v \in S : FromLast(v, "up", byVersion[v].up) /\ FromLast(v, "down", byVersion[v].down)
  BY DEF LoadInv, Collected
<1>9. \A v, d : \A i \in Usable(v, d) : i \in Nat /\ i # 0
  <2>1. \A i \in DOMAIN Files : i \in Nat /\ i # 0
    BY FilesAssumption
  <2> QED BY <2>1 DEF Usable, LoadInv, LoadTyped
<1>12. ASSUME NEW v \in S, NEW d, NEW x, x = 0, FromLast(v, d, x)
       PROVE  ReadsBlank(v, d)'
  <2> SUFFICES ASSUME Usable(v, d) # {} PROVE Max(Usable(v, d)) \in EmptyFiles \cup cut
    BY <1>1, <1>3 DEF ReadsBlank
  <2>1. PICK j \in Usable(v, d) : /\ x = j \/ j \in EmptyFiles \cup cut
                                  /\ \A i \in Usable(v, d) : i <= j
    BY <1>6, <1>12 DEF FromLast
  <2>2. \A i \in Usable(v, d) : j >= i
    BY <1>9, <2>1
  <2>3. \A y \in Usable(v, d) : (\A i \in Usable(v, d) : y >= i) => y = j
    BY <1>9, <2>2
  <2>4. Max(Usable(v, d)) = j
    BY <2>2, <2>3 DEF Max
  <2> QED BY <1>9, <1>12, <2>1, <2>4
<1>10. ASSUME \E v \in S : byVersion[v].up = 0 PROVE LoadIsComplete'
  <2>1. PICK v \in S : byVersion[v].up = 0
    BY <1>10
  <2>2. ReadsBlank(v, "up")'
    BY <1>8, <1>12, <2>1
  <2>3. result' = "error"
    BY <1>10 DEF Finish
  <2>4. v \in found'
    BY <1>6, <1>7, <2>1
  <2> QED BY <2>2, <2>3, <2>4 DEF LoadIsComplete
<1>11. ASSUME \A v \in S : byVersion[v].up # 0 PROVE LoadIsComplete'
  <2>1. result' = "ok" /\ out' = Sorted(S)
    BY <1>11 DEF Finish
  <2>2. \A v \in S : /\ byVersion[v].up \in Usable(v, "up")
                     /\ byVersion[v].down \in Usable(v, "down") \cup {0}
    BY <1>6, <1>8, <1>11 DEF FromLast
  <2>3. PICK m : m = out' /\ m = Sorted(S)
    BY <2>1
  <2>4. /\ {m[k].version : k \in DOMAIN m} = S
        /\ \A k \in 2..Len(m) : m[k-1].version < m[k].version
        /\ \A k \in DOMAIN m : /\ m[k].version \in S
                               /\ m[k].up = byVersion[m[k].version].up
                               /\ m[k].down = byVersion[m[k].version].down
    <3>1. S \subseteq Nat /\ IsFiniteSet(S) /\ m = Sorted(S)
      BY <1>6, <2>3
    <3> HIDE DEF S
    <3>2. /\ {Sorted(S)[k].version : k \in DOMAIN Sorted(S)} = S
          /\ \A k \in 2..Len(Sorted(S)) : Sorted(S)[k-1].version < Sorted(S)[k].version
          /\ \A k \in DOMAIN Sorted(S) : /\ Sorted(S)[k].version \in S
                                         /\ Sorted(S)[k].up = byVersion[Sorted(S)[k].version].up
                                         /\ Sorted(S)[k].down = byVersion[Sorted(S)[k].version].down
      BY <3>1, SortedLists
    <3> QED BY <3>1, <3>2
  <2>5. \A k \in DOMAIN m : /\ m[k].up \in Usable(m[k].version, "up")
                            /\ m[k].down \in Usable(m[k].version, "down") \cup {0}
    BY <2>2, <2>4
  <2>6. {m[k].version : k \in DOMAIN m} = found'
    BY <1>6, <1>7, <2>4
  <2>7. \A k \in DOMAIN m : /\ m[k].up \in Usable(m[k].version, "up")'
                            /\ m[k].down \in Usable(m[k].version, "down")' \cup {0}
    BY <1>3, <2>5
  <2>8. \A k \in DOMAIN m : m[k].up # 0
    BY <1>11, <2>4
  <2>9. \A k \in DOMAIN m : m[k].down = 0 => ReadsBlank(m[k].version, "down")'
    BY <1>8, <1>12, <2>4
  <2> QED BY <2>1, <2>3, <2>4, <2>6, <2>7, <2>8, <2>9 DEF LoadIsComplete
<1> QED BY <1>2, <1>5, <1>10, <1>11 DEF LoadInv

\* A load that cannot go on says so.
LEMMA GivesUp ==
  ASSUME LoadInv, LoadFails \/ \E i : ReadFails(i)
  PROVE  LoadInv'
<1>1. /\ result' = "error" /\ unreadable' = TRUE
      /\ disk' = disk /\ dialect' = dialect /\ present' = present /\ todo' = todo
      /\ byVersion' = byVersion /\ cut' = cut
  BY DEF LoadFails, ReadFails
<1>2. LoadTyped'
  BY <1>1 DEF LoadInv, LoadTyped
<1>3. \A k : Ignored(k)' = Ignored(k)
  BY <1>1 DEF Ignored
<1>4. \A v, d, f : FromLast(v, d, f)' = FromLast(v, d, f)
  <2>1. \A v, d : Seen(v, d)' = Seen(v, d)
    BY <1>1, <1>3 DEF Seen
  <2> QED BY <1>1, <2>1 DEF FromLast
<1>5. Collected'
  <2>1. {j \in present' \ todo' : ~Ignored(j)'} = {j \in present \ todo : ~Ignored(j)}
    BY <1>1, <1>3
  <2> QED BY <1>1, <1>4, <2>1 DEF LoadInv, Collected
<1>6. LoadIsComplete'
  BY <1>1 DEF LoadIsComplete
<1> QED BY <1>2, <1>5, <1>6 DEF LoadInv

\* The generator writes files it has a name for, and nothing of the loader's.
LEMMA GeneratorPlaces ==
  ASSUME GenInv, GenNext, disk \subseteq DOMAIN Files
  PROVE  UNCHANGED loadVars /\ disk' \subseteq DOMAIN Files
<1>1. CASE Second
  BY <1>1 DEF Second, loadVars
<1>2. CASE ~Second
  <2>1. PICK g \in DOMAIN calls : \/ GenBuild(g) \/ \E t \in Tokens : GenStat(g, t)
                                 \/ GenWriteUp(g) \/ GenFillUp(g) \/ GenWriteDown(g) \/ GenFillDown(g)
                                 \/ GenRemove(g) \/ GenFails(g)
    BY <1>2 DEF GenNext
  <2>2. UNCHANGED loadVars
    BY <2>1 DEF GenBuild, GenStat, GenWriteUp, GenFillUp, GenWriteDown, GenFillDown, GenRemove, GenFails
  <2>3. ASSUME gen[g].pc \in Working
        PROVE  UpFile(g) \in DOMAIN Files /\ DownFile(g) \in DOMAIN Files
    BY <2>3, FileThere DEF GenInv, GenTyped, GenCallTyped, UpFile, DownFile
  <2>4. \/ disk' \subseteq disk
        \/ gen[g].pc = "writeUp" /\ disk' = disk \cup {UpFile(g)}
        \/ gen[g].pc = "writeDown" /\ disk' = disk \cup {DownFile(g)}
    BY <2>1 DEF GenBuild, GenStat, GenWriteUp, GenFillUp, GenWriteDown, GenFillDown, GenRemove, GenFails,
                Create, Fill, WriteFails
  <2>5. disk' \subseteq DOMAIN Files
    BY <2>3, <2>4 DEF Working
  <2> QED BY <2>2, <2>5
<1> QED BY <1>1, <1>2

\* Steps of Load, beside the generator and AutoMigrate.
LEMMA LoadNextKeeps == GenInv /\ LoadInv /\ [ModelNext]_ModelVars => LoadInv'
<1> SUFFICES ASSUME GenInv, LoadInv, [ModelNext]_ModelVars PROVE LoadInv'
  OBVIOUS
<1>1. disk \subseteq DOMAIN Files
  BY DEF LoadInv, LoadTyped
<1>2. CASE Next
  <2>1. CASE \E i : Skip(i) \/ Read(i) \/ ReadFails(i)
    BY <2>1, SkipStep, ReadStep, GivesUp
  <2>2. CASE Load \/ LoadFails \/ Finish
    BY <2>2, LoadStep, GivesUp, FinishStep
  <2> QED BY <1>2, <2>1, <2>2 DEF Next
<1>3. CASE GenNext
  BY <1>1, <1>3, GeneratorPlaces, BesideLoad
<1>4. CASE (AutoNext /\ UNCHANGED <<vars, genVars>>) \/ UNCHANGED ModelVars
  BY <1>1, <1>4, BesideLoad DEF vars, ModelVars, loadVars
<1> QED BY <1>2, <1>3, <1>4 DEF ModelNext

\* Whatever the directory holds and whoever writes to it meanwhile, Load returns
\* the usable files of the entries it was given, in order, or a reasoned error.
THEOREM LoadsAll == ModelSpec => []LoadIsComplete
<1>1. LoadInv => LoadIsComplete
  BY DEF LoadInv
<1> QED BY <1>1, GenStart, GenNextKeeps, LoadStart, LoadNextKeeps, PTL DEF ModelSpec

----------------------------------------------------------------------------
(* What is generated                                                        *)

\* FlattenSeq keeps every element of the sequences it joins.
LEMMA Joined ==
  ASSUME NEW n \in Nat, n > 0, NEW seqs, Len(seqs) = n, NEW S,
         \A i \in 1..n : seqs[i] \in Seq(S)
  PROVE  /\ FlattenSeq(seqs) \in Seq(S)
         /\ \A i \in 1..n : \A j \in 1..Len(seqs[i]) :
               \E k \in 1..Len(FlattenSeq(seqs)) : FlattenSeq(seqs)[k] = seqs[i][j]
<1> DEFINE IsFlat(w, m) == w = [i \in 1..m |-> IF i = 1 THEN seqs[i] ELSE w[i-1] \o seqs[i]]
           Bad == {m \in 1..n : ~\E w : IsFlat(w, m)}
<1>1. Bad = {}
  <2>1. SUFFICES ASSUME Bad # {} PROVE FALSE
    OBVIOUS
  <2>2. Bad \subseteq Nat
    <3> HIDE DEF IsFlat
    <3> QED OBVIOUS
  <2>3. PICK m \in Bad : \A y \in Bad : m <= y
    <3> HIDE DEF Bad
    <3> QED BY <2>1, <2>2, LeastNumber
  <2>4. m \in 1..n /\ ~\E w : IsFlat(w, m)
    BY <2>3
  <2>5. CASE m = 1
    <3>1. IsFlat([i \in 1..1 |-> seqs[1]], 1)
      OBVIOUS
    <3> QED BY <2>4, <2>5, <3>1
  <2>6. CASE m # 1
    <3>1. m - 1 \in 1..n /\ m - 1 \notin Bad
      <4> HIDE DEF Bad
      <4>1. m \in Nat /\ m - 1 \in 1..n /\ ~(m <= m - 1)
        BY <2>4, <2>6
      <4> QED BY <2>3, <4>1
    <3>2. PICK w : IsFlat(w, m - 1)
      BY <3>1
    <3> DEFINE v == [i \in 1..m |-> IF i = m THEN w[m - 1] \o seqs[m] ELSE w[i]]
    <3>3. ASSUME NEW i \in 1..m PROVE v[i] = IF i = 1 THEN seqs[i] ELSE v[i-1] \o seqs[i]
      <4>1. CASE i = m
        <5>1. i - 1 \in 1..m /\ i - 1 # m /\ i # 1
          BY <2>4, <2>6, <4>1
        <5>2. v[i - 1] = w[m - 1]
          BY <4>1, <5>1
        <5> QED BY <4>1, <5>1, <5>2
      <4>2. CASE i # m
        <5>1. i \in 1..m - 1 /\ (i # 1 => i - 1 \in 1..m /\ i - 1 # m)
          BY <2>4, <4>2
        <5>2. v[i] = w[i] /\ (i # 1 => v[i - 1] = w[i - 1])
          BY <4>2, <5>1
        <5>3. w[i] = IF i = 1 THEN seqs[i] ELSE w[i - 1] \o seqs[i]
          BY <3>2, <5>1
        <5> QED BY <5>2, <5>3
      <4> QED BY <4>1, <4>2
    <3>4. IsFlat(v, m)
      BY <3>3
    <3> QED BY <2>4, <3>4
  <2> QED BY <2>5, <2>6
<1>2. \E w : IsFlat(w, n)
  <2> HIDE DEF IsFlat
  <2>1. n \in 1..n
    OBVIOUS
  <2> QED BY <1>1, <2>1
<1>3. PICK w : IsFlat(w, n) /\ FlattenSeq(seqs) = w[n]
  <2>1. FlattenSeq(seqs) = (CHOOSE w : IsFlat(w, n))[n]
    BY DEF FlattenSeq
  <2> QED BY <1>2, <2>1
<1> DEFINE Keeps(m) == /\ w[m] \in Seq(S)
                       /\ \A i \in 1..m : \A j \in 1..Len(seqs[i]) :
                             \E k \in 1..Len(w[m]) : w[m][k] = seqs[i][j]
           Worse == {m \in 1..n : ~Keeps(m)}
<1>4. Worse = {}
  <2>1. SUFFICES ASSUME Worse # {} PROVE FALSE
    OBVIOUS
  <2>2. Worse \subseteq Nat
    <3> HIDE DEF Keeps
    <3> QED OBVIOUS
  <2>3. PICK m \in Worse : \A y \in Worse : m <= y
    <3> HIDE DEF Worse
    <3> QED BY <2>1, <2>2, LeastNumber
  <2>4. m \in 1..n /\ ~Keeps(m)
    BY <2>3
  <2>5. CASE m = 1
    <3>1. w[1] = seqs[1]
      BY <1>3, <2>4
    <3> QED BY <2>4, <2>5, <3>1
  <2>6. CASE m # 1
    <3>1. m - 1 \in 1..n /\ Keeps(m - 1)
      <4> HIDE DEF Keeps
      <4>1. m \in Nat /\ m - 1 \in 1..n /\ ~(m <= m - 1)
        BY <2>4, <2>6
      <4> QED BY <2>3, <4>1
    <3>2. w[m] = w[m - 1] \o seqs[m]
      BY <1>3, <2>4, <2>6
    <3> DEFINE a == w[m - 1]
               b == seqs[m]
    <3>3. a \in Seq(S) /\ b \in Seq(S)
      BY <2>4, <3>1
    <3> HIDE DEF a, b
    <3>4. /\ a \o b \in Seq(S)
          /\ \A k \in 1..Len(a) : k \in 1..Len(a \o b) /\ (a \o b)[k] = a[k]
          /\ \A k \in 1..Len(b) : Len(a) + k \in 1..Len(a \o b) /\ (a \o b)[Len(a) + k] = b[k]
      BY <3>3
    <3>5. ASSUME NEW i \in 1..m, NEW j \in 1..Len(seqs[i])
          PROVE  \E k \in 1..Len(w[m]) : w[m][k] = seqs[i][j]
      <4>1. CASE i = m
        BY <3>2, <3>4, <4>1 DEF a, b
      <4>2. CASE i # m
        <5>1. i \in 1..m - 1
          BY <2>4, <4>2
        <5>2. PICK k \in 1..Len(a) : a[k] = seqs[i][j]
          BY <3>1, <5>1 DEF a
        <5> QED BY <3>2, <3>4, <5>2 DEF a, b
      <4> QED BY <4>1, <4>2
    <3>6. w[m] \in Seq(S)
      BY <3>2, <3>4 DEF a, b
    <3> QED BY <2>4, <3>5, <3>6
  <2> QED BY <2>5, <2>6
<1>5. Keeps(n)
  <2> HIDE DEF Keeps
  <2>1. n \in 1..n
    OBVIOUS
  <2> QED BY <1>4, <2>1
<1>6. FlattenSeq(seqs) = w[n]
  BY <1>3
<1> HIDE DEF IsFlat
<1> QED BY <1>5, <1>6

Chars == Letters \cup Ascii

\* The generator takes only ASCII letters for letters, the ORM takes all; a name
\* that comes out as an identifier has no others.
LEMMA SnakeNames ==
  ASSUME NEW s \in Seq(Chars), validIdentifier(toSnakeCase(s, Ascii))
  PROVE  /\ toSnakeCase(s, Letters) = toSnakeCase(s, Ascii)
         /\ toSnakeCase(s, Ascii) \in Seq(Ascii)
<1> DEFINE Upper(i, letters) == s[i] \in letters \cap DOMAIN LowerOf
           Small(i, letters) == i \in DOMAIN s /\ s[i] \in letters \cap (Letters \ DOMAIN LowerOf)
           Piece(i, letters) ==
             IF ~Upper(i, letters) THEN <<s[i]>>
             ELSE IF i > 1 /\ (Small(i-1, letters) \/ Small(i+1, letters))
                  THEN <<"_", LowerOf[s[i]]>>
             ELSE <<LowerOf[s[i]]>>
           Pieces(letters) == [i \in DOMAIN s |-> Piece(i, letters)]
           All == Chars \cup {"_"}
<1>1. /\ Len(s) \in Nat /\ DOMAIN s = 1..Len(s)
      /\ \A i \in 1..Len(s) : s[i] \in Chars
  OBVIOUS
<1>2. /\ toSnakeCase(s, Ascii) = FlattenSeq(Pieces(Ascii))
      /\ toSnakeCase(s, Letters) = FlattenSeq(Pieces(Letters))
  BY DEF toSnakeCase
<1>3. Len(s) > 0
  <2>1. SUFFICES ASSUME Len(s) = 0 PROVE FALSE
    BY <1>1
  <2>2. s = <<>>
    BY <1>1, <2>1
  <2>3. Pieces(Ascii) = <<>>
    BY <2>2
  <2>4. FlattenSeq(<<>>) = <<>>
    BY DEF FlattenSeq
  <2> QED BY <1>2, <2>3, <2>4 DEF validIdentifier
<1>4. ASSUME NEW i \in 1..Len(s) PROVE Piece(i, Ascii) \in Seq(All)
  <2>1. s[i] \in All /\ (s[i] \in DOMAIN LowerOf => LowerOf[s[i]] \in All) /\ "_" \in All
    BY <1>1 DEF Chars, Letters
  <2> HIDE DEF All
  <2>2. \A x, y : x \in All /\ y \in All => <<x>> \in Seq(All) /\ <<y, x>> \in Seq(All)
    OBVIOUS
  <2> QED BY <2>1, <2>2
<1>5. /\ Len(Pieces(Ascii)) = Len(s)
      /\ \A i \in 1..Len(s) : Pieces(Ascii)[i] = Piece(i, Ascii)
  BY <1>1
<1> DEFINE snake == FlattenSeq(Pieces(Ascii))
<1>6. /\ snake \in Seq(All)
      /\ \A i \in 1..Len(s) : \A j \in 1..Len(Piece(i, Ascii)) :
            \E k \in 1..Len(snake) : snake[k] = Piece(i, Ascii)[j]
  <2> DEFINE ps == Pieces(Ascii)
  <2>1. /\ Len(s) \in Nat /\ Len(s) > 0 /\ Len(ps) = Len(s)
        /\ \A i \in 1..Len(s) : ps[i] = Piece(i, Ascii) /\ ps[i] \in Seq(All)
    BY <1>1, <1>3, <1>4, <1>5
  <2> HIDE DEF ps, All, Piece
  <2>2. /\ FlattenSeq(ps) \in Seq(All)
        /\ \A i \in 1..Len(s) : \A j \in 1..Len(ps[i]) :
              \E k \in 1..Len(FlattenSeq(ps)) : FlattenSeq(ps)[k] = ps[i][j]
    <3> DEFINE n == Len(s)
    <3>1. n \in Nat /\ n > 0 /\ Len(ps) = n /\ \A i \in 1..n : ps[i] \in Seq(All)
      BY <2>1
    <3>2. /\ FlattenSeq(ps) \in Seq(All)
          /\ \A i \in 1..n : \A j \in 1..Len(ps[i]) :
                \E k \in 1..Len(FlattenSeq(ps)) : FlattenSeq(ps)[k] = ps[i][j]
      <4> HIDE DEF n, snake, Pieces
      <4> QED BY <3>1, Joined
    <3> QED BY <3>2
  <2>3. snake = FlattenSeq(ps)
    BY DEF ps
  <2> HIDE DEF snake
  <2> QED BY <2>1, <2>2, <2>3
<1>7. snake # <<>> /\ \A k \in DOMAIN snake : snake[k] \in Ascii
  BY <1>2 DEF validIdentifier
<1>8. ASSUME NEW i \in 1..Len(s) PROVE s[i] \in Ascii
  <2>1. SUFFICES ASSUME s[i] \notin Ascii PROVE FALSE
    OBVIOUS
  <2>2. Piece(i, Ascii) = <<s[i]>>
    BY <2>1
  <2> HIDE DEF snake, Piece
  <2>3. PICK k \in 1..Len(snake) : snake[k] = s[i]
    <3>1. Len(Piece(i, Ascii)) = 1 /\ Piece(i, Ascii)[1] = s[i]
      BY <2>2
    <3>2. 1 \in 1..Len(Piece(i, Ascii))
      BY <3>1
    <3> QED BY <1>6, <3>1, <3>2, Zenon
  <2>4. k \in DOMAIN snake
    <3> HIDE DEF All
    <3>1. DOMAIN snake = 1..Len(snake)
      BY <1>6
    <3> QED BY <2>3, <3>1
  <2> QED BY <1>7, <2>1, <2>3, <2>4
<1>9. ASSUME NEW i \in DOMAIN s PROVE Piece(i, Ascii) = Piece(i, Letters)
  <2>1. ASSUME NEW k \in DOMAIN s PROVE Upper(k, Ascii) = Upper(k, Letters)
    BY <1>1, <1>8 DEF Letters
  <2>2. ASSUME NEW k PROVE Small(k, Ascii) = Small(k, Letters)
    BY <1>1, <1>8
  <2> HIDE DEF Upper, Small
  <2> QED BY <2>1, <2>2
<1>10. Pieces(Ascii) = Pieces(Letters)
  <2> HIDE DEF Piece
  <2> QED BY <1>9
<1>11. snake \in Seq(Ascii)
  <2> HIDE DEF snake, All
  <2>1. snake \in Seq(All)
    BY <1>6
  <2>2. DOMAIN snake = 1..Len(snake)
    BY <2>1
  <2>3. \A k \in 1..Len(snake) : snake[k] \in Ascii
    BY <1>7, <2>2
  <2> QED BY <2>1, <2>3
<1> QED BY <1>2, <1>10, <1>11

\* Both read the same table from a tag, or refuse it.
LEMMA OneTable ==
  ASSUME NEW tag, IsTag(tag)
  PROVE  /\ parseSchemaTableTag(tag) = parseTableNameFromTag(tag)
         /\ badTableTag(tag) = badTableName(tag)
         /\ parseTableNameFromTag(tag) \subseteq Seq(Chars)
<1> DEFINE Tables == {i \in DOMAIN tag : tag[i].key = "table"}
           m == Min(Tables)
<1>1. tag \in Seq(Range(tag)) /\ Len(tag) \in Nat /\ DOMAIN tag = 1..Len(tag)
  BY DEF IsTag, IsList
<1>2. \A i \in 1..Len(tag) : tag[i].key = "table" /\ tag[i].value # <<>> =>
          tag[i].value = <<tag[i].value[1]>> /\ tag[i].value[1] \in Seq(Chars)
  BY <1>1 DEF IsTag, Range, Chars
<1>3. CASE Tables = {}
  <2>1. Range(UpToTable(tag)) = {tag[i] : i \in 1..Len(tag)}
    BY <1>1, <1>3 DEF UpToTable, Range
  <2>2. \A i \in 1..Len(tag) : tag[i].key # "table"
    BY <1>1, <1>3
  <2>3. parseTableNameFromTag(tag) = {}
    BY <1>3 DEF parseTableNameFromTag
  <2>4. parseSchemaTableTag(tag) = {}
    BY <2>1, <2>2 DEF parseSchemaTableTag
  <2>5. badTableTag(tag) = badTableName(tag)
    BY <1>1, <2>1, <2>2 DEF badTableTag, badTableName
  <2> QED BY <2>3, <2>4, <2>5
<1>4. CASE Tables # {}
  <2>1. m \in 1..Len(tag) /\ tag[m].key = "table"
        /\ \A i \in 1..Len(tag) : tag[i].key = "table" => m <= i
    <3>1. Tables \subseteq Nat
      BY <1>1
    <3>2. m \in Tables /\ \A i \in Tables : m <= i
      <4> HIDE DEF Tables
      <4> QED BY <1>4, <3>1, LeastNumber
    <3> QED BY <1>1, <3>2
  <2>2. UpToTable(tag) = SubSeq(tag, 1, m)
    BY <1>4 DEF UpToTable
  <2>3. parseTableNameFromTag(tag) = Range(tag[m].value)
    BY <1>4 DEF parseTableNameFromTag
  <2> HIDE DEF m, Tables
  <2>4. Range(UpToTable(tag)) = {tag[i] : i \in 1..m}
    <3>1. SubSeq(tag, 1, m) = [i \in 1..m |-> tag[i]]
      BY <1>1, <2>1
    <3> QED BY <2>2, <3>1 DEF Range
  <2>5. \A i \in 1..m : tag[i].key = "table" <=> i = m
    BY <2>1
  <2>6. parseSchemaTableTag(tag) = {t.value[1] : t \in {u \in {tag[m]} : u.value # <<>>}}
    <3>1. {u \in Range(UpToTable(tag)) : u.key = "table" /\ u.value # <<>>}
             = {u \in {tag[m]} : u.value # <<>>}
      BY <2>1, <2>4, <2>5
    <3> QED BY <3>1 DEF parseSchemaTableTag
  <2>7. badTableTag(tag) = badTableName(tag)
    <3>1. \A i \in 1..Len(tag) : i <= m <=> \A j \in 1..i-1 : tag[j].key # "table"
      BY <2>1
    <3> QED BY <1>1, <2>1, <2>4, <3>1 DEF badTableTag, badTableName
  <2>8. CASE tag[m].value = <<>>
    <3>1. Range(tag[m].value) = {} /\ parseSchemaTableTag(tag) = {}
      BY <2>6, <2>8 DEF Range
    <3> QED BY <2>3, <2>7, <3>1
  <2>9. CASE tag[m].value # <<>>
    <3> DEFINE v == tag[m].value[1]
    <3>1. tag[m].value = <<v>> /\ v \in Seq(Chars)
      BY <1>2, <2>1, <2>9
    <3>2. parseSchemaTableTag(tag) = {v}
      BY <2>6, <2>9
    <3> HIDE DEF v
    <3>3. Range(tag[m].value) = {v}
      BY <3>1 DEF Range
    <3> QED BY <2>3, <2>7, <3>1, <3>2, <3>3
  <2> QED BY <2>8, <2>9
<1> QED BY <1>3, <1>4

\* A struct without a TableName method gets the same table from both, if it is
\* an identifier.
LEMMA TableNames ==
  ASSUME NEW e, IsStruct(e), parseStructTableName(e) # <<>>,
         validIdentifier(parseStructTableName(e)[1])
  PROVE  /\ e.namer = <<>> => entityTableName(e) = parseStructTableName(e)
         /\ parseStructTableName(e) = <<parseStructTableName(e)[1]>>
         /\ parseStructTableName(e)[1] \in Seq(Ascii)
<1> DEFINE raws == UNION {{f.orm, f.elgon} : f \in Range(e.fields)}
           tags == UNION {parseTableNameFromTag(tag) : tag \in raws}
           ormRaws == UNION {schemaTagRaws(e.fields[i]) : i \in DOMAIN e.fields}
           ormTags == UNION {parseSchemaTableTag(raw) : raw \in ormRaws}
           snake == toSnakeCase(e.name, Ascii)
<1>1. ormRaws = raws
  BY DEF schemaTagRaws, Range
<1>2. \A tag \in raws : IsTag(tag)
  BY DEF IsStruct
<1> HIDE DEF raws, ormRaws
<1>3. ormTags = tags /\ tags \subseteq Seq(Chars)
  BY <1>1, <1>2, OneTable
<1>4. (\E tag \in raws : badTableTag(tag)) = (\E tag \in raws : badTableName(tag))
  BY <1>2, OneTable
<1>5. /\ parseStructTableName(e) =
            IF Cardinality(tags) > 1 \/ \E tag \in raws : badTableName(tag) THEN <<>>
            ELSE IF tags # {} THEN <<CHOOSE n \in tags : TRUE>>
            ELSE <<snake>>
      /\ entityTableName(e) =
            LET name == IF ormTags # {} THEN CHOOSE n \in ormTags : TRUE
                        ELSE IF e.namer # <<>> THEN e.namer[1]
                        ELSE toSnakeCase(e.name, Letters)
            IN  IF \/ \E raw \in ormRaws : badTableTag(raw)
                   \/ Cardinality(ormTags) > 1
                   \/ ~validIdentifier(name)
                THEN <<>> ELSE <<name>>
  BY DEF parseStructTableName, entityTableName, raws, ormRaws
<1>6. e.name \in Seq(Chars)
  BY DEF IsStruct, Chars
<1> HIDE DEF tags, ormTags, snake
<1>7. /\ ~(Cardinality(tags) > 1) /\ ~\E tag \in raws : badTableName(tag)
  BY <1>5
<1>8. CASE tags # {}
  <2> DEFINE n == CHOOSE x \in tags : TRUE
  <2>1. n \in tags
    BY <1>8
  <2>2. parseStructTableName(e) = <<n>>
    BY <1>5, <1>7, <1>8
  <2>3. n \in Seq(Ascii)
    <3> HIDE DEF n
    <3>1. n \in Seq(Chars) /\ validIdentifier(n)
      BY <1>3, <2>1, <2>2
    <3> QED BY <3>1 DEF validIdentifier
  <2>4. entityTableName(e) = <<n>>
    <3>1. validIdentifier(n)
      BY <2>2
    <3> HIDE DEF n
    <3>2. /\ ~\E raw \in ormRaws : badTableTag(raw)
          /\ ~(Cardinality(ormTags) > 1)
          /\ ormTags # {} /\ (CHOOSE x \in ormTags : TRUE) = n
      BY <1>1, <1>3, <1>4, <1>7, <1>8 DEF n
    <3> QED BY <1>5, <3>1, <3>2
  <2> HIDE DEF n
  <2> QED BY <2>2, <2>3, <2>4
<1>9. CASE tags = {}
  <2>1. parseStructTableName(e) = <<snake>>
    BY <1>5, <1>7, <1>9
  <2>2. validIdentifier(snake)
    BY <2>1
  <2>3. toSnakeCase(e.name, Letters) = snake /\ snake \in Seq(Ascii)
    BY <1>6, <2>2, SnakeNames DEF snake
  <2>4. e.namer = <<>> => entityTableName(e) = <<snake>>
    BY <1>1, <1>3, <1>4, <1>5, <1>7, <1>9, <2>2, <2>3
  <2> QED BY <2>1, <2>3, <2>4
<1> QED BY <1>8, <1>9

\* Picked has the elements at the positions, each in a place of its own.
LEMMA PickedAre ==
  ASSUME NEW s, IsList(s), NEW I, I \subseteq DOMAIN s
  PROVE  /\ Cardinality(I) \in Nat
         /\ DOMAIN Picked(s, I) = 1..Cardinality(I) /\ Len(Picked(s, I)) = Cardinality(I)
         /\ \A k \in 1..Cardinality(I) : \E i \in I : Picked(s, I)[k] = s[i]
         /\ \A i \in I : \E k \in 1..Cardinality(I) : Picked(s, I)[k] = s[i]
         /\ IsList(Picked(s, I))
<1>1. I \subseteq Nat /\ IsFiniteSet(I)
  <2>1. Len(s) \in Nat /\ DOMAIN s = 1..Len(s)
    BY DEF IsList
  <2>2. IsFiniteSet(1..Len(s))
    BY <2>1, FS_Interval
  <2> QED BY <2>1, <2>2, FS_Subset
<1> DEFINE n == Cardinality(I)
           at == Ascending(I)
<1>2. n \in Nat /\ \A k \in 1..n : at[k] \in I
  BY <1>1, AscendingLists
<1>3. \A i \in I : \E k \in 1..n : at[k] = i
  BY <1>1, AscendingLists
<1>4. Picked(s, I) = [k \in 1..n |-> s[at[k]]]
  BY DEF Picked, Ascending
<1> HIDE DEF n, at
<1>5. DOMAIN Picked(s, I) = 1..n /\ Len(Picked(s, I)) = n
  BY <1>2, <1>4
<1>6. \A k \in 1..n : Picked(s, I)[k] = s[at[k]]
  BY <1>4
<1>7. IsList(Picked(s, I))
  <2> DEFINE p == Picked(s, I)
  <2>1. p = [k \in 1..n |-> p[k]] /\ \A k \in 1..n : p[k] \in Range(p)
    BY <1>4, <1>5 DEF Range
  <2> HIDE DEF p
  <2>2. p \in Seq(Range(p))
    BY <1>2, <2>1
  <2> QED BY <2>2 DEF IsList, p
<1> QED BY <1>2, <1>3, <1>5, <1>6, <1>7 DEF n

\* All elements in their order are the list itself.
LEMMA PickedAll ==
  ASSUME NEW s, IsList(s)
  PROVE  Picked(s, DOMAIN s) = s
<1> DEFINE n == Len(s)
<1>1. n \in Nat /\ DOMAIN s = 1..n /\ s = [k \in 1..n |-> s[k]]
  BY DEF IsList
<1> HIDE DEF n
<1>2. ASSUME NEW i \in 1..n PROVE Cardinality({j \in 1..n : j < i}) = i - 1
  <2>1. {j \in 1..n : j < i} = 1..(i - 1)
    BY <1>1
  <2>2. 1 \in Int /\ i - 1 \in Int
    OBVIOUS
  <2>3. Cardinality(1..(i - 1)) = IF 1 > i - 1 THEN 0 ELSE (i - 1) - 1 + 1
    BY <2>2, FS_Interval
  <2>4. (IF 1 > i - 1 THEN 0 ELSE (i - 1) - 1 + 1) = i - 1
    BY <1>1
  <2> QED BY <2>1, <2>3, <2>4, Zenon
<1>3. Cardinality(1..n) = n
  <2>1. Cardinality(1..n) = IF 1 > n THEN 0 ELSE n - 1 + 1
    BY <1>1, FS_Interval
  <2> QED BY <1>1, <2>1
<1> DEFINE at(k) == CHOOSE i \in 1..n : Cardinality({j \in 1..n : j < i}) = k - 1
<1>4. ASSUME NEW k \in 1..n PROVE at(k) = k
  <2>1. \A i \in 1..n : Cardinality({j \in 1..n : j < i}) = k - 1 <=> i = k
    <3>1. \A i \in 1..n : i - 1 = k - 1 <=> i = k
      BY <1>1
    <3> QED BY <1>2, <3>1
  <2> QED BY <2>1
<1>5. Picked(s, 1..n) = [k \in 1..n |-> s[k]]
  <2>1. Picked(s, 1..n) = [k \in 1..n |-> s[at(k)]]
    BY <1>3 DEF Picked
  <2> HIDE DEF at
  <2> QED BY <1>4, <2>1
<1> QED BY <1>1, <1>5

\* The structs the generator makes are to the ORM what the ones it read would be.
LEMMA SameFields ==
  ASSUME NEW e, IsStruct(e), NEW fs, buildReflectFields(e) = <<fs>>
  PROVE  schemaFields([e EXCEPT !.fields = fs]) = schemaFields(e)
<1> DEFINE named == {i \in DOMAIN e.fields : ~e.fields[i].embedded}
           I == {i \in named : e.fields[i].exported}
<1>1. fs = Picked(e.fields, I)
  BY DEF buildReflectFields
<1>2. schemaFields(e) = fs
  <2>1. I = {i \in DOMAIN e.fields : e.fields[i].exported /\ ~e.fields[i].embedded}
    OBVIOUS
  <2> QED BY <1>1, <2>1 DEF schemaFields
<1>3. IsList(e.fields) /\ I \subseteq DOMAIN e.fields
  BY DEF IsStruct
<1>4. IsList(fs) /\ \A k \in DOMAIN fs : \E i \in I : fs[k] = e.fields[i]
  <2> HIDE DEF I
  <2> QED BY <1>1, <1>3, PickedAre
<1>5. {k \in DOMAIN fs : fs[k].exported /\ ~fs[k].embedded} = DOMAIN fs
  BY <1>4
<1>6. [e EXCEPT !.fields = fs].fields = fs
  BY DEF IsStruct
<1>7. schemaFields([e EXCEPT !.fields = fs]) = Picked(fs, DOMAIN fs)
  BY <1>5, <1>6 DEF schemaFields
<1> QED BY <1>2, <1>4, <1>7, PickedAll

\* A statement the generator makes is for the struct's table, and is the ORM's
\* own unless the struct has a TableName method.
LEMMA SameStatement ==
  ASSUME NEW e, IsStruct(e), NEW d, Statement(e, d) # <<>>
  PROVE  /\ Statement(e, d)[1].table \in Seq(Ascii)
         /\ e.isStruct /\ e.namer = <<>> => BuildCreateTableSQL(e, d) = Statement(e, d)
<1> DEFINE table == parseStructTableName(e)
           fields == buildReflectFields(e)
<1>1. /\ table # <<>> /\ fields # <<>>
      /\ Statement(e, d) = BuildCreateTableSQLForTable(table[1], [e EXCEPT !.fields = fields[1]], d)
  BY DEF Statement
<1>2. fields = <<fields[1]>>
  BY <1>1 DEF buildReflectFields
<1>3. Statement(e, d) = createTable(schemaFields(e), d, <<table[1]>>)
  <2> DEFINE fs == fields[1]
  <2>1. fields = <<fs>>
    BY <1>2
  <2> HIDE DEF fs
  <2>2. schemaFields([e EXCEPT !.fields = fs]) = schemaFields(e)
    BY <2>1, SameFields
  <2> QED BY <1>1, <2>2 DEF BuildCreateTableSQLForTable, buildCreateTableSQL, fs
<1> HIDE DEF table, fields
<1>4. validIdentifier(table[1]) /\ Statement(e, d)[1].table = table[1]
  <2>1. ASSUME NEW F, NEW t, createTable(F, d, t) # <<>>
        PROVE  validIdentifier(t[1]) /\ createTable(F, d, t)[1].table = t[1]
    BY <2>1 DEF createTable
  <2>2. createTable(schemaFields(e), d, <<table[1]>>) # <<>>
    BY <1>3
  <2> QED BY <1>3, <2>1, <2>2
<1>5. /\ e.namer = <<>> => entityTableName(e) = table
      /\ table = <<table[1]>> /\ table[1] \in Seq(Ascii)
  BY <1>1, <1>4, TableNames DEF table
<1> QED BY <1>3, <1>4, <1>5 DEF BuildCreateTableSQL, buildCreateTableSQL

\* The byte order of names is a strict total order.
LEMMA BeforeOrders ==
  ASSUME NEW s \in Seq(Ascii), NEW t \in Seq(Ascii), NEW u \in Seq(Ascii)
  PROVE  /\ ~Before(s, s)
         /\ Before(s, t) /\ Before(t, u) => Before(s, u)
         /\ s # t => Before(s, t) \/ Before(t, s)
<1>1. /\ \A x \in Seq(Ascii) : Len(x) \in Nat /\ DOMAIN x = 1..Len(x) /\ \A i \in 1..Len(x) : x[i] \in Ascii
      /\ \A a \in Ascii : Rank[a] \in Nat
      /\ \A a, b \in Ascii : Rank[a] = Rank[b] => a = b
  BY RankAssumption
<1>2. ~Before(s, s)
  BY <1>1 DEF Before
<1>3. ASSUME Before(s, t), Before(t, u) PROVE Before(s, u)
  <2>1. PICK i \in 1..Len(t) : /\ i <= Len(s) + 1 /\ \A h \in 1..i-1 : s[h] = t[h]
                               /\ i <= Len(s) => Rank[s[i]] < Rank[t[i]]
    BY <1>1, <1>3 DEF Before
  <2>2. PICK j \in 1..Len(u) : /\ j <= Len(t) + 1 /\ \A h \in 1..j-1 : t[h] = u[h]
                               /\ j <= Len(t) => Rank[t[j]] < Rank[u[j]]
    BY <1>1, <1>3 DEF Before
  <2>3. CASE i < j
    <3>1. /\ i \in 1..Len(u) /\ u[i] = t[i]
          /\ \A h \in 1..i-1 : h \in 1..j-1 /\ s[h] = u[h]
      BY <1>1, <2>1, <2>2, <2>3
    <3> QED BY <1>1, <2>1, <3>1 DEF Before
  <2>4. CASE j < i
    <3>1. /\ j <= Len(s) + 1 /\ \A h \in 1..j-1 : h \in 1..i-1 /\ s[h] = u[h]
          /\ j \in 1..i-1 /\ j <= Len(t)
      BY <1>1, <2>1, <2>2, <2>4
    <3>2. s[j] = t[j] /\ Rank[s[j]] < Rank[u[j]]
      BY <2>1, <2>2, <3>1
    <3> QED BY <1>1, <3>1, <3>2 DEF Before
  <2>5. CASE i = j
    <3>1. /\ i <= Len(s) + 1 /\ \A h \in 1..i-1 : s[h] = u[h]
          /\ Rank[t[i]] < Rank[u[i]]
      BY <1>1, <2>1, <2>2, <2>5
    <3>2. i <= Len(s) => Rank[s[i]] < Rank[u[i]]
      <4>1. ASSUME i <= Len(s)
            PROVE  Rank[s[i]] \in Nat /\ Rank[t[i]] \in Nat /\ Rank[u[i]] \in Nat
        BY <1>1, <2>1, <2>2, <2>5, <4>1
      <4> QED BY <2>1, <3>1, <4>1
    <3> QED BY <1>1, <2>2, <2>5, <3>1, <3>2 DEF Before
  <2> QED BY <2>1, <2>2, <2>3, <2>4, <2>5
<1>4. ASSUME s # t PROVE Before(s, t) \/ Before(t, s)
  <2> DEFINE Same(i) == i \in 1..Len(s) /\ i \in 1..Len(t) /\ s[i] = t[i]
             Differ == {i \in Nat : (i \in 1..Len(s) \/ i \in 1..Len(t)) /\ ~Same(i)}
  <2>1. Differ # {}
    <3>1. SUFFICES ASSUME Differ = {} PROVE FALSE
      OBVIOUS
    <3>2. \A i \in Nat : i \in 1..Len(s) \/ i \in 1..Len(t) => Same(i)
      BY <3>1
    <3>3. Len(s) = Len(t)
      <4>1. Len(s) \in Nat /\ Len(t) \in Nat
        BY <1>1
      <4>2. Len(s) <= Len(t)
        <5>1. CASE Len(s) = 0
          BY <4>1, <5>1
        <5>2. CASE Len(s) # 0
          BY <3>2, <4>1, <5>2
        <5> QED BY <5>1, <5>2
      <4>3. Len(t) <= Len(s)
        <5>1. CASE Len(t) = 0
          BY <4>1, <5>1
        <5>2. CASE Len(t) # 0
          BY <3>2, <4>1, <5>2
        <5> QED BY <5>1, <5>2
      <4> QED BY <4>1, <4>2, <4>3
    <3>4. \A i \in 1..Len(s) : s[i] = t[i]
      BY <1>1, <3>2
    <3>5. s = [i \in 1..Len(s) |-> s[i]] /\ t = [i \in 1..Len(t) |-> t[i]]
      OBVIOUS
    <3>6. [i \in 1..Len(s) |-> s[i]] = [i \in 1..Len(t) |-> t[i]]
      BY <3>3, <3>4
    <3> QED BY <1>4, <3>5, <3>6, Zenon
  <2>2. PICK m \in Differ : \A i \in Differ : m <= i
    <3>1. Differ \subseteq Nat
      OBVIOUS
    <3> HIDE DEF Differ
    <3> QED BY <2>1, <3>1, LeastNumber
  <2>3. m \in Nat /\ (m \in 1..Len(s) \/ m \in 1..Len(t)) /\ ~Same(m)
    BY <2>2
  <2>4. \A h \in 1..m-1 : Same(h)
    <3>1. SUFFICES ASSUME NEW h \in 1..m-1, ~Same(h) PROVE FALSE
      OBVIOUS
    <3>2. h \in Nat /\ h < m /\ (h \in 1..Len(s) \/ h \in 1..Len(t))
      <4>1. h \in Nat /\ 1 <= h /\ h < m
        BY <2>3
      <4> QED BY <1>1, <2>3, <4>1
    <3>3. h \in Differ
      BY <3>1, <3>2
    <3> HIDE DEF Differ
    <3> QED BY <2>2, <2>3, <3>2, <3>3
  <2>5. m <= Len(s) + 1 /\ m <= Len(t) + 1
    <3>1. CASE m = 1
      BY <1>1, <3>1
    <3>2. CASE m # 1
      <4>1. m - 1 \in 1..m-1
        BY <1>1, <2>3, <3>2
      <4>2. m - 1 \in 1..Len(s) /\ m - 1 \in 1..Len(t)
        BY <2>4, <4>1
      <4> QED BY <1>1, <2>3, <4>2
    <3> QED BY <3>1, <3>2
  <2>6. \A h \in 1..m-1 : s[h] = t[h]
    BY <2>4
  <2>7. CASE m \notin 1..Len(s)
    <3>1. m \in 1..Len(t) /\ ~(m <= Len(s))
      BY <1>1, <2>3, <2>7
    <3> QED BY <1>1, <2>5, <2>6, <3>1 DEF Before
  <2>8. CASE m \notin 1..Len(t)
    <3>1. m \in 1..Len(s) /\ ~(m <= Len(t))
      BY <1>1, <2>3, <2>8
    <3> QED BY <1>1, <2>5, <2>6, <3>1 DEF Before
  <2>9. CASE m \in 1..Len(s) /\ m \in 1..Len(t)
    <3>1. s[m] \in Ascii /\ t[m] \in Ascii /\ s[m] # t[m]
      BY <1>1, <2>3, <2>9
    <3>2. Rank[s[m]] < Rank[t[m]] \/ Rank[t[m]] < Rank[s[m]]
      BY <1>1, <3>1
    <3> QED BY <1>1, <2>5, <2>6, <2>9, <3>2 DEF Before
  <2> QED BY <2>7, <2>8, <2>9
<1> QED BY <1>2, <1>3, <1>4

\* No two statements have the same place in the script.
LEMMA Places ==
  ASSUME NEW n \in Nat, NEW ss, DOMAIN ss = 1..n, \A i \in 1..n : ss[i][1].table \in Seq(Ascii)
  PROVE  /\ \A i \in 1..n : Place(ss, i) \in 0..n-1
         /\ \A i, j \in 1..n : Place(ss, i) = Place(ss, j) => i = j
<1> DEFINE Earlier(i) == {j \in 1..n : Precedes(ss, j, i)}
<1>1. /\ \A i \in 1..n : ~Precedes(ss, i, i)
      /\ \A i, j, k \in 1..n : Precedes(ss, i, j) /\ Precedes(ss, j, k) => Precedes(ss, i, k)
      /\ \A i, j \in 1..n : i # j => Precedes(ss, i, j) \/ Precedes(ss, j, i)
  <2>1. ASSUME NEW i \in 1..n, NEW j \in 1..n, NEW k \in 1..n
        PROVE  /\ ~Precedes(ss, i, i)
               /\ Precedes(ss, i, j) /\ Precedes(ss, j, k) => Precedes(ss, i, k)
               /\ i # j => Precedes(ss, i, j) \/ Precedes(ss, j, i)
    <3> DEFINE a == ss[i][1].table
               b == ss[j][1].table
               c == ss[k][1].table
    <3>1. a \in Seq(Ascii) /\ b \in Seq(Ascii) /\ c \in Seq(Ascii)
      OBVIOUS
    <3>2. /\ Precedes(ss, i, i) <=> Before(a, a) \/ i < i
          /\ Precedes(ss, i, j) <=> Before(a, b) \/ (a = b /\ i < j)
          /\ Precedes(ss, j, i) <=> Before(b, a) \/ (b = a /\ j < i)
          /\ Precedes(ss, j, k) <=> Before(b, c) \/ (b = c /\ j < k)
          /\ Precedes(ss, i, k) <=> Before(a, c) \/ (a = c /\ i < k)
      BY DEF Precedes
    <3> HIDE DEF a, b, c
    <3>3. /\ ~Before(a, a)
          /\ Before(a, b) /\ Before(b, c) => Before(a, c)
          /\ a # b => Before(a, b) \/ Before(b, a)
      BY <3>1, BeforeOrders
    <3> QED BY <3>2, <3>3
  <2> QED BY <2>1
<1>2. IsFiniteSet(1..n) /\ Cardinality(1..n) = n
  <2>1. 1 \in Int /\ n \in Int
    OBVIOUS
  <2>2. IsFiniteSet(1..n) /\ Cardinality(1..n) = IF 1 > n THEN 0 ELSE n - 1 + 1
    BY <2>1, FS_Interval
  <2> QED BY <2>2
<1>3. ASSUME NEW i \in 1..n, NEW T, T \subseteq 1..n, Earlier(i) \subseteq T, i \in T
      PROVE  /\ Place(ss, i) \in Nat /\ Cardinality(T) \in Nat
             /\ Place(ss, i) < Cardinality(T)
  <2> DEFINE E == Earlier(i)
  <2>1. Place(ss, i) = Cardinality(E)
    BY DEF Place
  <2>2. T # E
    BY <1>1, <1>3
  <2>3. IsFiniteSet(T)
    BY <1>2, <1>3, FS_Subset
  <2> HIDE DEF E
  <2>4. IsFiniteSet(E) /\ Cardinality(E) <= Cardinality(T) /\ (Cardinality(T) = Cardinality(E) => T = E)
    BY <1>3, <2>3, FS_Subset DEF E
  <2>5. Cardinality(E) \in Nat /\ Cardinality(T) \in Nat
    BY <2>3, <2>4, FS_CardinalityType
  <2> QED BY <2>1, <2>2, <2>4, <2>5
<1>4. ASSUME NEW i \in 1..n PROVE Place(ss, i) \in 0..n-1
  <2>1. Earlier(i) \subseteq 1..n
    OBVIOUS
  <2>2. Place(ss, i) \in Nat /\ Place(ss, i) < n
    BY <1>2, <1>3, <2>1
  <2> QED BY <2>2
<1>5. ASSUME NEW i \in 1..n, NEW j \in 1..n, Precedes(ss, i, j)
      PROVE  Place(ss, i) < Place(ss, j)
  <2>1. Earlier(j) \subseteq 1..n /\ Earlier(i) \subseteq Earlier(j) /\ i \in Earlier(j)
    BY <1>1, <1>5
  <2>2. Place(ss, j) = Cardinality(Earlier(j))
    BY DEF Place
  <2> HIDE DEF Earlier
  <2> QED BY <1>3, <2>1, <2>2
<1>6. ASSUME NEW i \in 1..n, NEW j \in 1..n, Place(ss, i) = Place(ss, j) PROVE i = j
  <2>1. ~Precedes(ss, i, j) /\ ~Precedes(ss, j, i)
    BY <1>4, <1>5, <1>6
  <2> QED BY <1>1, <2>1
<1> QED BY <1>4, <1>6

\* A script has the statement of every struct that is not passed over.
LEMMA ScriptHas ==
  ASSUME NEW call, IsList(call.decls), \A e \in Range(call.decls) : IsStruct(e),
         UpScript(call) # <<>>
  PROVE  LET es == parseModelEntities(call)
         IN  /\ Len(UpScript(call)) = Len(es)
             /\ \A e \in Range(es) :
                   /\ IsStruct(e) /\ e.isStruct
                   /\ Statement(e, call.dialect) # <<>>
                   /\ Statement(e, call.dialect)[1] \in Range(UpScript(call))
<1> DEFINE I == {i \in Declared(call) : buildReflectFields(call.decls[i]) # <<<<>>>>}
           n == Cardinality(I)
           es == parseModelEntities(call)
           ss == [i \in DOMAIN es |-> Statement(es[i], call.dialect)]
           Of(k) == CHOOSE i \in DOMAIN ss : Place(ss, i) = k - 1
<1>1. es = Picked(call.decls, I) /\ I \subseteq DOMAIN call.decls
  BY DEF parseModelEntities, Declared
<1>2. /\ n \in Nat /\ DOMAIN es = 1..n /\ Len(es) = n
      /\ \A k \in 1..n : \E i \in I : es[k] = call.decls[i]
  <2> HIDE DEF I, n, es
  <2> QED BY <1>1, PickedAre DEF n
<1>3. \A i \in I : call.decls[i].isStruct /\ IsStruct(call.decls[i])
  BY DEF Declared, Range
<1> HIDE DEF I, n
<1>4. \A k \in 1..n : IsStruct(es[k]) /\ es[k].isStruct
  <2> HIDE DEF es
  <2> QED BY <1>2, <1>3
<1>5. /\ \A i \in DOMAIN ss : ss[i] # <<>>
      /\ UpScript(call) = [k \in DOMAIN ss |-> ss[Of(k)][1]]
  BY DEF UpScript
<1>6. DOMAIN ss = 1..n /\ \A k \in 1..n : ss[k] = Statement(es[k], call.dialect)
  BY <1>2
<1>7. \A k \in 1..n : ss[k][1].table \in Seq(Ascii)
  <2> HIDE DEF ss, es
  <2> QED BY <1>4, <1>5, <1>6, SameStatement
<1> HIDE DEF ss, es
<1>8. /\ \A i \in 1..n : Place(ss, i) \in 0..n-1
      /\ \A i, j \in 1..n : Place(ss, i) = Place(ss, j) => i = j
  BY <1>2, <1>6, <1>7, Places
<1>9. ASSUME NEW i \in 1..n PROVE ss[i][1] \in Range(UpScript(call))
  <2> DEFINE k == Place(ss, i) + 1
  <2>1. k \in 1..n /\ k - 1 = Place(ss, i)
    BY <1>2, <1>8
  <2>2. \A j \in 1..n : Place(ss, j) = k - 1 <=> j = i
    BY <1>8, <2>1
  <2> HIDE DEF k
  <2>3. Of(k) = i
    BY <1>6, <2>2
  <2> HIDE DEF Of
  <2>4. k \in DOMAIN UpScript(call) /\ UpScript(call)[k] = ss[i][1]
    BY <1>5, <1>6, <2>1, <2>3
  <2> QED BY <2>4 DEF Range
<1> HIDE DEF Of
<1>10. Len(UpScript(call)) = n
  BY <1>2, <1>5, <1>6
<1>11. ASSUME NEW e \in Range(es)
       PROVE  /\ IsStruct(e) /\ e.isStruct /\ Statement(e, call.dialect) # <<>>
              /\ Statement(e, call.dialect)[1] \in Range(UpScript(call))
  <2>1. PICK k \in 1..n : e = es[k]
    BY <1>2 DEF Range
  <2> QED BY <1>4, <1>5, <1>6, <1>9, <2>1
<1> QED BY <1>2, <1>10, <1>11 DEF es

\* A call that looks for a name has the script of its structs.
Scripted ==
    \A g \in DOMAIN calls :
        gen[g].pc = "stat" => gen[g].up = UpScript(calls[g]) /\ UpScript(calls[g]) # <<>>

LEMMA ScriptedNext == GenTyped /\ Scripted /\ [ModelNext]_ModelVars => Scripted'
<1> SUFFICES ASSUME GenTyped, Scripted, [ModelNext]_ModelVars PROVE Scripted'
  OBVIOUS
<1>1. gen = [g \in DOMAIN calls |-> gen[g]] /\ \A g \in DOMAIN calls : DOMAIN gen[g] = GenFields
  BY DEF GenTyped, GenCallTyped
<1>2. calls' = calls => \A g : UpScript(calls[g])' = UpScript(calls[g])
  OBVIOUS
<1>3. ASSUME calls' = calls, NEW h \in DOMAIN calls, NEW r,
             gen' = [gen EXCEPT ![h] = r],
             r.pc = "stat" => \/ gen[h].pc = "stat" /\ r.up = gen[h].up
                              \/ r.up = UpScript(calls[h]) /\ UpScript(calls[h]) # <<>>
      PROVE  Scripted'
  <2>1. \A g \in DOMAIN calls : gen'[g] = IF g = h THEN r ELSE gen[g]
    BY <1>1, <1>3
  <2> QED BY <1>2, <1>3, <2>1 DEF Scripted
<1>4. ASSUME NEW g \in DOMAIN calls, GenBuild(g) PROVE Scripted'
  <2> DEFINE script == UpScript(calls[g])
             r == [gen[g] EXCEPT !.pc = IF script = <<>> THEN "error" ELSE "stat", !.ver = now,
                                 !.up = script,
                                 !.after = {h \in DOMAIN calls : gen[h].pc = "done"}]
  <2>1. calls' = calls /\ gen' = [gen EXCEPT ![g] = r]
    BY <1>1, <1>4 DEF GenBuild
  <2>2. r.pc = (IF script = <<>> THEN "error" ELSE "stat") /\ r.up = script
    BY <1>1 DEF GenFields
  <2> HIDE DEF r
  <2> QED BY <1>3, <2>1, <2>2
<1>5. ASSUME NEW g \in DOMAIN calls, NEW t \in Tokens, GenStat(g, t) PROVE Scripted'
  <2>1. gen[g].pc = "stat" /\ calls' = calls
    BY <1>5 DEF GenStat
  <2>2. PICK pc, k : gen' = [gen EXCEPT ![g].tries = @ + 1, ![g].token = k, ![g].pc = pc]
    BY <1>5 DEF GenStat
  <2> DEFINE r == [gen[g] EXCEPT !.tries = @ + 1, !.token = k, !.pc = pc]
  <2>3. gen' = [gen EXCEPT ![g] = r] /\ r.up = gen[g].up
    BY <1>1, <2>2 DEF GenFields
  <2> HIDE DEF r
  <2> QED BY <1>3, <2>1, <2>3
<1>6. ASSUME NEW g \in DOMAIN calls, calls' = calls, gen' = [gen EXCEPT ![g] = gen'[g]],
             gen'[g].pc # "stat"
      PROVE  Scripted'
  BY <1>3, <1>6
<1>7. ASSUME NEW g \in DOMAIN calls, GenWriteUp(g) \/ GenFillUp(g) \/ GenWriteDown(g) \/ GenFillDown(g)
                                      \/ GenRemove(g) \/ GenFails(g)
      PROVE  Scripted'
  <2>1. /\ calls' = calls /\ gen' = [gen EXCEPT ![g] = gen'[g]]
        /\ gen'[g].pc # "stat"
    <3>1. ASSUME NEW pc, pc # "stat",
                 \/ gen' = [gen EXCEPT ![g].pc = pc]
                 \/ \E x : gen' = [gen EXCEPT ![g].pc = pc, ![g].kept = x]
                 \/ \E x : gen' = [gen EXCEPT ![g].pc = pc, ![g].token = x]
          PROVE  gen' = [gen EXCEPT ![g] = gen'[g]] /\ gen'[g].pc # "stat"
      <4>1. CASE gen' = [gen EXCEPT ![g].pc = pc]
        BY <1>1, <3>1, <4>1 DEF GenFields
      <4>2. ASSUME NEW x, gen' = [gen EXCEPT ![g].pc = pc, ![g].kept = x]
            PROVE  gen' = [gen EXCEPT ![g] = gen'[g]] /\ gen'[g].pc # "stat"
        BY <1>1, <3>1, <4>2 DEF GenFields
      <4>3. ASSUME NEW x, gen' = [gen EXCEPT ![g].pc = pc, ![g].token = x]
            PROVE  gen' = [gen EXCEPT ![g] = gen'[g]] /\ gen'[g].pc # "stat"
        BY <1>1, <3>1, <4>3 DEF GenFields
      <4> QED BY <3>1, <4>1, <4>2, <4>3
    <3>2. CASE GenWriteUp(g)
      BY <3>1, <3>2 DEF GenWriteUp
    <3>3. CASE GenFillUp(g)
      BY <3>1, <3>3 DEF GenFillUp
    <3>4. CASE GenWriteDown(g)
      BY <3>1, <3>4 DEF GenWriteDown
    <3>5. CASE GenFillDown(g)
      BY <3>1, <3>5 DEF GenFillDown
    <3>6. CASE GenRemove(g)
      BY <3>1, <3>6 DEF GenRemove
    <3>7. CASE GenFails(g)
      BY <3>1, <3>7 DEF GenFails
    <3> QED BY <1>7, <3>2, <3>3, <3>4, <3>5, <3>6, <3>7
  <2> QED BY <1>6, <2>1
<1>8. ASSUME calls' = calls, gen' = gen PROVE Scripted'
  BY <1>2, <1>8 DEF Scripted
<1>9. CASE GenNext
  BY <1>4, <1>5, <1>7, <1>8, <1>9 DEF GenNext, Second
<1>10. CASE ~GenNext
  BY <1>8, <1>10 DEF ModelNext, ModelVars, genVars
<1> QED BY <1>9, <1>10

\* Whatever structs are read, in whatever order and under whatever dialect, each
\* statement of a script is the one AutoMigrate would execute for its struct.
THEOREM GeneratesSame == ModelSpec => []GeneratedAgrees
<1>1. ModelInit => Scripted
  <2> SUFFICES ASSUME NEW st \in Setups, GenInit(st.calls) PROVE Scripted
    BY DEF ModelInit
  <2>1. \A g \in DOMAIN calls : gen[g].pc = "idle"
    BY DEF GenInit
  <2> QED BY <2>1 DEF Scripted
<1>2. ASSUME GenTyped, Scripted PROVE GeneratedAgrees
  <2>1. PICK st \in Setups : calls = st.calls
    BY <1>2 DEF GenTyped
  <2>2. ASSUME NEW g \in DOMAIN calls, gen[g].pc = "stat"
        PROVE  LET es == parseModelEntities(calls[g])
               IN  /\ Len(gen[g].up) = Len(es)
                   /\ \A e \in {e \in Range(es) : e.namer = <<>>} :
                         LET stmt == BuildCreateTableSQL(e, calls[g].dialect)
                         IN  stmt # <<>> /\ stmt[1] \in Range(gen[g].up)
    <3> DEFINE call == calls[g]
    <3>1. IsList(call.decls) /\ \A e \in Range(call.decls) : IsStruct(e)
      BY <2>1, StructsAssumption
    <3>2. gen[g].up = UpScript(call) /\ UpScript(call) # <<>>
      BY <1>2, <2>2 DEF Scripted
    <3> HIDE DEF call
    <3>3. /\ Len(UpScript(call)) = Len(parseModelEntities(call))
          /\ \A e \in Range(parseModelEntities(call)) :
                   /\ IsStruct(e) /\ e.isStruct
                   /\ Statement(e, call.dialect) # <<>>
                   /\ Statement(e, call.dialect)[1] \in Range(UpScript(call))
      BY <3>1, <3>2, ScriptHas
    <3>4. ASSUME NEW e \in Range(parseModelEntities(call)), e.namer = <<>>
          PROVE  BuildCreateTableSQL(e, call.dialect) = Statement(e, call.dialect)
      BY <3>3, <3>4, SameStatement
    <3> QED BY <3>2, <3>3, <3>4 DEF call
  <2> QED BY <2>2 DEF GeneratedAgrees
<1>3. GenInv => GenTyped
  BY DEF GenInv
<1> QED BY <1>1, <1>2, <1>3, GenStart, GenNextKeeps, ScriptedNext, PTL DEF ModelSpec

=============================================================================
