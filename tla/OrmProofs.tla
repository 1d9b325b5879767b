----------------------------- MODULE OrmProofs -----------------------------
(***************************************************************************)
(* What a bulk insert, an Upsert and an UpdateManyAndReturn answer, for    *)
(* every number of calls, every request, table and number of faults; and   *)
(* that every statement of the query builder binds its own values, for     *)
(* every Where, Values, LIMIT and OFFSET.                                  *)
(***************************************************************************)
EXTENDS OrmTable, OrmQuery, SequenceTheorems, FiniteSetTheorems, WellFoundedInduction, TLAPS

Labels == {"idle", "begin", "insert", "commit", "rollback", "find", "create", "update",
           "delete", "reread", "done"}

\* ErrInvalidInput, ErrNotFound, ErrNonUnique, the errors of the database and none.
Errors == {"nil", "invalid", "notfound", "nonunique", "constraint", "deadlock", "failed", "lost"}

\* A record that was read: some of the columns of a row.
Read == UNION {[S -> Values \cup {Null}] : S \in SUBSET Columns}

Rows == UNION {[S -> Row] : S \in SUBSET Nat}

\* The records of an answer, by id.
Answered == UNION {[S -> Read] : S \in SUBSET Nat}

\* What another call can do to the rows of a Where.
Meetings == {"gone", "joined", "changed"}

TableTyped ==
    /\ nextId \in Nat \ {0}
    /\ DOMAIN table \subseteq 1..(nextId - 1)
    /\ table \in [DOMAIN table -> [rec : Row, tx : Calls \cup {None}]]

Typed ==
    /\ unique \in BOOLEAN /\ returning \in BOOLEAN
    /\ TableTyped
    /\ faults \in Nat
    /\ pc \in [Calls -> Labels]
    /\ req \in [Calls -> RequestType \cup {NoRequest}]
    /\ mode \in [Calls -> {"tx", "direct"}]
    /\ found \in [Calls -> Rows]
    /\ ret \in [Calls -> [err : Errors, count : Nat, recs : Answered]]
    /\ made \in [Calls -> Nat]
    /\ wrote \in [Calls -> Rows]
    /\ met \in [Calls -> SUBSET Meetings]
    /\ hit \in [Calls -> BOOLEAN]

BulkOps == {"createMany", "createManyAndReturn"}

\* Only a bulk insert in a transaction has rows that the others do not see.
Owners ==
    \A i \in DOMAIN table : table[i].tx # None =>
        mode[table[i].tx] = "tx" /\ pc[table[i].tx] \in {"insert", "commit", "rollback"}

\* Which operations get to which statement.
Controlled(c) ==
    /\ pc[c] = "idle" => /\ ret[c] = NoAnswer /\ mode[c] = "direct" /\ made[c] = 0
                         /\ found[c] = Empty /\ wrote[c] = Empty
    /\ pc[c] # "idle" => req[c] \in RequestType
    /\ pc[c] \in {"begin", "insert", "commit", "rollback"} => req[c].op \in BulkOps
    /\ pc[c] = "find" =>
         \/ req[c].op \in {"findFirst", "findUnique", "upsert"}
         \/ req[c].op = "updateManyAndReturn" /\ ~returning
    /\ pc[c] = "create" => req[c].op \in {"create", "upsert"}
    /\ pc[c] = "update" => req[c].op \in {"updateMany", "updateManyAndReturn", "upsert"}
    /\ pc[c] = "delete" => req[c].op = "delete"
    /\ pc[c] = "reread" => req[c].op = "upsert"

\* What a bulk insert has stored and counted before each statement.
Counted(c) ==
    /\ pc[c] = "begin" => made[c] = 0 /\ ret[c] = NoAnswer /\ req[c].list # <<>>
    /\ pc[c] = "insert" =>
         /\ ret[c].count < Len(req[c].list) /\ ret[c].err = "nil"
         /\ made[c] = IF mode[c] = "tx" THEN 0 ELSE ret[c].count
    /\ pc[c] = "commit" =>
         mode[c] = "tx" /\ made[c] = 0 /\ ret[c].count = Len(req[c].list)
    /\ pc[c] = "rollback" => mode[c] = "tx" /\ made[c] = 0 /\ ret[c].err # "nil"

\* The rows that stand in for those RETURNING would give are the ones the UPDATE
\* will find.
Foreseen(c) ==
    (/\ pc[c] = "update" /\ req[c].op = "updateManyAndReturn"
     /\ ~returning /\ met[c] \cap {"gone", "joined"} = {}) =>
        /\ DOMAIN found[c] = Matching(c)
        /\ \A i \in Matching(c) : Matches(found[c][i], req[c].where)

\* Row i is the one that a Plain Upsert has written or found, and unless another call
\* has changed it since it has the values of the Upsert.
Result(c, i) ==
    \/ /\ made[c] = 1 /\ found[c] = Empty /\ DOMAIN wrote[c] = {i}
       /\ "changed" \notin met[c] =>
            Agree(table[i].rec, req[c].create) /\ Agree(table[i].rec, req[c].where)
    \/ /\ made[c] = 0 /\ DOMAIN found[c] = {i}
       /\ req[c].patch # Empty => i \in DOMAIN wrote[c] /\ DOMAIN wrote[c] \subseteq Matching(c)
       /\ "changed" \notin met[c] =>
            /\ Agree(table[i].rec, req[c].patch)
            /\ \A col \in Columns \ DOMAIN req[c].patch : table[i].rec[col] = found[c][i][col]

\* What a Plain Upsert has seen and done before each statement, while no call has taken
\* its row away: only rows that others have put into its Where are beside its own.
Upserting(c) ==
    Plain(c) /\ "gone" \notin met[c] =>
        /\ pc[c] \in {"find", "create", "update"} => made[c] = 0 /\ wrote[c] = Empty
        /\ pc[c] = "create" => found[c] = Empty /\ ("joined" \notin met[c] => Matching(c) = {})
        /\ pc[c] = "update" =>
             /\ req[c].patch # Empty
             /\ \E i \in Matching(c) :
                  /\ DOMAIN found[c] = {i}
                  /\ "joined" \notin met[c] => Matching(c) = {i}
                  /\ "changed" \notin met[c] => found[c][i] = table[i].rec
        /\ pc[c] = "reread" =>
             \E i \in Matching(c) : Result(c, i) /\ ("joined" \notin met[c] => Matching(c) = {i})

\* All of this, of one call.
Own(c) ==
    /\ Controlled(c) /\ Counted(c) /\ Foreseen(c) /\ Upserting(c)
    /\ Accounts(c) /\ Returned(c) /\ Answers(c)

IInv == Typed /\ Owners /\ \A c \in Calls : Own(c)

----------------------------------------------------------------------------
(* Values and rows.                                                         *)

\* Values given to a column win over the others, and a row stays a row.
LEMMA OverRow ==
  ASSUME NEW f \in Given, NEW g \in Row
  PROVE  /\ Over(f, g) \in Row
         /\ \A col \in DOMAIN f : Over(f, g)[col] = f[col]
         /\ \A col \in Columns \ DOMAIN f : Over(f, g)[col] = g[col]
<1>1. PICK S \in SUBSET Columns : f \in [S -> Values]
  BY DEF Given
<1>2. DOMAIN g = Columns /\ DOMAIN f = S /\ DOMAIN f \cup DOMAIN g = Columns
  BY <1>1 DEF Row
<1>3. Over(f, g) = [col \in Columns |-> IF col \in S THEN f[col] ELSE g[col]]
  BY <1>2 DEF Over
<1> QED BY <1>1, <1>2, <1>3 DEF Row

\* The values for some columns, from two sources.
LEMMA OverGiven ==
  ASSUME NEW f \in Given, NEW g \in Given
  PROVE  /\ Over(f, g) \in Given
         /\ DOMAIN Over(f, g) = DOMAIN f \cup DOMAIN g
         /\ \A col \in DOMAIN f : Over(f, g)[col] = f[col]
         /\ Agree(f, g) => Agree(Over(f, g), g)
<1>1. PICK S \in SUBSET Columns : f \in [S -> Values]
  BY DEF Given
<1>2. PICK T \in SUBSET Columns : g \in [T -> Values]
  BY DEF Given
<1>3. Over(f, g) = [col \in S \cup T |-> IF col \in S THEN f[col] ELSE g[col]]
  BY <1>1, <1>2 DEF Over
<1>4. Over(f, g) \in [S \cup T -> Values]
  BY <1>1, <1>2, <1>3
<1>5. Agree(f, g) => Agree(Over(f, g), g)
  BY <1>1, <1>2, <1>3 DEF Agree
<1> QED BY <1>1, <1>2, <1>3, <1>4, <1>5 DEF Given

\* An INSERT stores a row, with the values it was given.
LEMMA StoredRow ==
  ASSUME NEW f \in Given
  PROVE  Stored(f) \in Row /\ \A col \in DOMAIN f : Stored(f)[col] = f[col]
<1>1. [col \in Columns |-> Null] \in Row
  BY DEF Row
<1> QED BY <1>1, OverRow DEF Stored

\* Set of records of a table: a set of rows by id.
LEMMA RecordsRows ==
  ASSUME Typed, NEW S \in SUBSET DOMAIN table
  PROVE  /\ Records(S) \in Rows /\ DOMAIN Records(S) = S
         /\ \A i \in S : Records(S)[i] = table[i].rec
<1>1. S \in SUBSET Nat
  BY DEF Typed, TableTyped
<1>2. Records(S) \in [S -> Row]
  BY DEF Typed, TableTyped, Records
<1> QED BY <1>1, <1>2 DEF Rows, Records

\* Rows as an answer.
LEMMA RowsAreRead ==
  ASSUME NEW f \in Rows
  PROVE  f \in Answered
<1>1. Row \subseteq Read
  BY DEF Row, Read
<1>2. PICK S \in SUBSET Nat : f \in [S -> Row]
  BY DEF Rows
<1>3. f \in [S -> Read]
  BY <1>1, <1>2
<1> QED BY <1>3 DEF Answered

----------------------------------------------------------------------------
(* The rows that a statement finds.                                         *)

\* They are finitely many.
LEMMA MatchingFinite ==
  ASSUME Typed, NEW c \in Calls
  PROVE  /\ Matching(c) \subseteq DOMAIN table
         /\ IsFiniteSet(Matching(c)) /\ Cardinality(Matching(c)) \in Nat
<1>1. IsFiniteSet(1..(nextId - 1))
  <2>1. nextId - 1 \in Int
    BY DEF Typed, TableTyped
  <2> QED BY <2>1, FS_Interval
<1>2. Matching(c) \subseteq 1..(nextId - 1) /\ Matching(c) \subseteq DOMAIN table
  BY DEF Matching, Seen, Typed, TableTyped
<1>3. IsFiniteSet(Matching(c))
  BY <1>1, <1>2, FS_Subset
<1> QED BY <1>2, <1>3, FS_CardinalityType

\* One row is one row.
LEMMA OneRow ==
  ASSUME NEW S, IsFiniteSet(S)
  PROVE  (Cardinality(S) = 1) <=> (\E i \in S : S = {i})
<1>1. ASSUME NEW i \in S, S = {i} PROVE Cardinality(S) = 1
  BY <1>1, FS_Singleton
<1>2. ASSUME Cardinality(S) = 1 PROVE \E i \in S : S = {i}
  BY <1>2, FS_Singleton
<1> QED BY <1>1, <1>2

----------------------------------------------------------------------------
(* What a call does to the others.                                          *)

\* Nothing but a disturbance, which stays.
LEMMA Frame ==
  ASSUME Typed, NEW c \in Calls, NEW d \in Calls, c # d, Start(d) \/ Step(d)
  PROVE  /\ unique' = unique /\ returning' = returning
         /\ pc'[c] = pc[c] /\ req'[c] = req[c] /\ mode'[c] = mode[c]
         /\ found'[c] = found[c] /\ ret'[c] = ret[c] /\ made'[c] = made[c]
         /\ wrote'[c] = wrote[c] /\ hit'[c] = hit[c]
         /\ met[c] \subseteq met'[c]
<1> DEFINE Others == pc'[c] = pc[c] /\ ret'[c] = ret[c]
<1>1. ASSUME NEW e, NEW n, NEW r, Answer(d, e, n, r) PROVE Others
  BY <1>1 DEF Answer, Typed, TableTyped
<1>2. ASSUME NEW l, Goto(d, l) PROVE Others
  BY <1>2 DEF Goto, Typed, TableTyped
<1>3. ASSUME Disturb(d) PROVE met[c] \subseteq met'[c]
  BY <1>3 DEF Disturb
<1>4. ASSUME NEW o, Faulted(d, o) PROVE hit'[c] = hit[c]
  BY <1>4 DEF Faulted, Typed, TableTyped
<1>5. CASE Start(d)
  <2>1. PICK r \in Requests : req' = [req EXCEPT ![d] = r]
    BY <1>5 DEF Start
  <2>2. Others
    BY <1>5, <1>1, <1>2 DEF Start
  <2> QED BY <1>5, <2>1, <2>2 DEF Start, Typed, TableTyped, ghost
<1>6. CASE Begin(d)
  BY <1>6, <1>2 DEF Begin, Typed, TableTyped, Fixed, ghost
<1>7. CASE Insert(d)
  <2>1. PICK o : /\ Faulted(d, o) /\ Disturb(d)
                 /\ \E n : made' = [made EXCEPT ![d] = n]
    BY <1>7 DEF Insert
  <2>2. Others
    BY <1>7, <1>1 DEF Insert, Typed, TableTyped
  <2> QED BY <1>7, <1>3, <1>4, <2>1, <2>2 DEF Insert, Typed, TableTyped, Fixed
<1>8. CASE Rollback(d)
  BY <1>3, <1>8 DEF Rollback, Typed, TableTyped, Fixed
<1>9. CASE Commit(d)
  BY <1>9, <1>1, <1>3, <1>4 DEF Commit, Typed, TableTyped, Fixed
<1>10. CASE Find(d)
  <2>1. PICK o : Query(d, o) /\ \E R : found' = [found EXCEPT ![d] = R]
    BY <1>10 DEF Find
  <2>2. Others
    BY <1>10, <1>1, <1>2 DEF Find
  <2> QED BY <2>1, <2>2, <1>4 DEF Query, Typed, TableTyped, Fixed
<1>11. CASE Create(d)
  <2>1. PICK o : /\ Faulted(d, o) /\ Disturb(d)
                 /\ \E n : made' = [made EXCEPT ![d] = n]
                 /\ \E n : wrote' = [wrote EXCEPT ![d] = n]
    BY <1>11 DEF Create
  <2>2. Others
    BY <1>11, <1>1, <1>2 DEF Create
  <2> QED BY <1>11, <1>3, <1>4, <2>1, <2>2 DEF Create, Typed, TableTyped, Fixed
<1>12. CASE Update(d)
  <2>1. Others
    BY <1>12, <1>1, <1>2 DEF Update
  <2>2. CASE UNCHANGED ghost
    BY <1>12, <2>1, <2>2 DEF Update, Fixed, ghost
  <2>3. CASE ~UNCHANGED ghost
    <3>1. PICK o : /\ Faulted(d, o) /\ Disturb(d)
                   /\ \E n : wrote' = [wrote EXCEPT ![d] = n]
                   /\ made' = made
      BY <1>12, <2>3 DEF Update
    <3> QED BY <1>12, <1>3, <1>4, <2>1, <3>1 DEF Update, Typed, TableTyped, Fixed
  <2> QED BY <2>2, <2>3
<1>13. CASE Delete(d)
  BY <1>13, <1>1, <1>3, <1>4 DEF Delete, Typed, TableTyped, Fixed
<1>14. CASE Reread(d)
  BY <1>14, <1>1, <1>4 DEF Reread, Query, Typed, TableTyped, Fixed
<1> QED BY <1>5, <1>6, <1>7, <1>8, <1>9, <1>10, <1>11, <1>12, <1>13, <1>14 DEF Step

\* A call finds the same rows, with the same records, but for what it has met.
LEMMA Sight ==
  ASSUME Typed, NEW c \in Calls, NEW d \in Calls, c # d, Start(d) \/ Step(d), Running(c)
  PROVE  /\ "gone" \notin met'[c] => Matching(c) \subseteq Matching(c)'
         /\ "joined" \notin met'[c] => Matching(c)' \subseteq Matching(c)
         /\ "changed" \notin met'[c] =>
              \A i \in Matching(c) \cap Matching(c)' : table'[i].rec = table[i].rec
<1>1. Matching(c)' = Seen(table', c)
  <2>1. req'[c] = req[c]
    BY Frame
  <2> QED BY <2>1 DEF Matching, Seen
<1>2. CASE Disturb(d)
  <2>1. Meets(c) \subseteq met'[c]
    BY <1>2 DEF Disturb
  <2> QED BY <1>1, <2>1 DEF Meets
<1>3. CASE table' = table
  BY <1>1, <1>3 DEF Matching
<1>4. Disturb(d) \/ table' = table
  BY DEF Start, Step, Begin, Insert, Rollback, Commit, Find, Create, Update, Delete, Reread, Query, data
<1> QED BY <1>2, <1>3, <1>4

----------------------------------------------------------------------------
(* Types.                                                                   *)

\* The types of what an answer writes.
LEMMA AnswerTyped ==
  ASSUME Typed, NEW c \in Calls, NEW e \in Errors, NEW n \in Nat, NEW r \in Answered,
         Answer(c, e, n, r)
  PROVE  pc' \in [Calls -> Labels] /\ ret' \in [Calls -> [err : Errors, count : Nat, recs : Answered]]
  BY DEF Answer, Typed, Labels

\* The type of what a jump writes.
LEMMA GotoTyped ==
  ASSUME Typed, NEW c \in Calls, NEW l \in Labels, Goto(c, l)
  PROVE  pc' \in [Calls -> Labels] /\ ret' \in [Calls -> [err : Errors, count : Nat, recs : Answered]]
  BY DEF Goto, Typed

\* No records are records.
LEMMA EmptyTyped == Empty \in Answered /\ Empty \in Rows /\ Empty \in Given /\ DOMAIN Empty = {}
<1>1. Empty \in [{} -> Read] /\ Empty \in [{} -> Row] /\ Empty \in [{} -> Values]
  BY DEF Empty
<1> QED BY <1>1 DEF Answered, Rows, Given

\* The types of what a fault writes.
LEMMA FaultTyped ==
  ASSUME Typed, NEW c \in Calls, NEW o, Faulted(c, o)
  PROVE  faults' \in Nat /\ hit' \in [Calls -> BOOLEAN]
  BY DEF Faulted, Typed

\* The type of what a disturbance writes.
LEMMA DisturbTyped ==
  ASSUME Typed, NEW c \in Calls, Disturb(c)
  PROVE  met' \in [Calls -> SUBSET Meetings]
<1>1. \A d \in Calls : Meets(d) \subseteq Meetings
  BY DEF Meets, Meetings
<1> QED BY <1>1 DEF Disturb, Typed

\* How a statement may end.
LEMMA OutcomeTyped ==
  ASSUME NEW c \in Calls, NEW o \in Outcomes(c)
  PROVE  /\ o \in {"deadlock", "constraint", "ok", "failed", "lost"}
         /\ ErrOf(o) \in Errors /\ Effective(o) \in BOOLEAN
         /\ ErrOf(o) = "nil" <=> o = "ok"
<1>1. o \in {"deadlock", "constraint", "ok", "failed", "lost"}
  BY DEF Outcomes
<1>2. ErrOf(o) \in Errors
  BY <1>1 DEF ErrOf, Errors
<1>3. ErrOf(o) = "nil" <=> o = "ok"
  BY <1>1 DEF ErrOf
<1>4. Effective(o) \in BOOLEAN
  BY DEF Effective
<1> QED BY <1>1, <1>2, <1>3, <1>4

\* A row more, with an id of its own.
LEMMA AddedTyped ==
  ASSUME TableTyped, NEW values \in Given, NEW tx \in Calls \cup {None},
         table' = Added(values, tx), nextId' = nextId + 1
  PROVE  TableTyped'
<1>1. Stored(values) \in Row
  BY StoredRow
<1>2. DOMAIN table' = DOMAIN table \cup {nextId}
  BY DEF Added
<1>3. DOMAIN table' \subseteq 1..(nextId' - 1) /\ nextId' \in Nat \ {0}
  BY <1>2 DEF TableTyped
<1>4. \A i \in DOMAIN table' : table'[i] \in [rec : Row, tx : Calls \cup {None}]
  BY <1>1, <1>2 DEF TableTyped, Added
<1>5. table' = [i \in DOMAIN table' |-> table'[i]]
  BY <1>2 DEF Added
<1> QED BY <1>3, <1>4, <1>5 DEF TableTyped

\* What is left of the rows when a transaction ends.
LEMMA EndedTyped ==
  ASSUME TableTyped, NEW c \in Calls, NEW b \in BOOLEAN, table' = Ended(c, b), nextId' = nextId
  PROVE  TableTyped'
<1> DEFINE kept == {i \in DOMAIN table : table[i].tx # c \/ b}
<1>1. DOMAIN table' = kept
  BY DEF Ended
<1>2. \A i \in kept : table'[i] \in [rec : Row, tx : Calls \cup {None}]
  BY DEF Ended, TableTyped
<1>3. table' = [i \in kept |-> table'[i]]
  BY <1>1 DEF Ended
<1> QED BY <1>1, <1>2, <1>3 DEF TableTyped

\* What an UPDATE makes of the rows.
LEMMA UpdatedTyped ==
  ASSUME Typed, NEW S \in SUBSET DOMAIN table, NEW patch \in Given
  PROVE  /\ Updated(S, patch) \in Rows /\ DOMAIN Updated(S, patch) = S
         /\ \A i \in S : Updated(S, patch)[i] = Over(patch, table[i].rec)
         /\ \A i \in S : Updated(S, patch)[i] \in Row
<1>1. \A i \in S : Over(patch, table[i].rec) \in Row
  BY OverRow DEF Typed, TableTyped
<1>2. Updated(S, patch) \in [S -> Row]
  BY <1>1 DEF Updated
<1>3. S \in SUBSET Nat
  BY DEF Typed, TableTyped
<1> QED BY <1>1, <1>2, <1>3 DEF Updated, Rows

\* The columns that an UpdateManyAndReturn without RETURNING answers with.
LEMMA PatchedTyped ==
  ASSUME NEW recs \in Rows, NEW where \in Given, NEW patch \in Given
  PROVE  LET a == applyPatch(Project(recs, columnHints(where, patch)), patch) IN
         /\ a \in Answered /\ DOMAIN a = DOMAIN recs
         /\ \A i \in DOMAIN a : \A col \in DOMAIN a[i] :
              /\ col \in DOMAIN patch \cup DOMAIN where
              /\ a[i][col] = IF col \in DOMAIN patch THEN patch[col] ELSE recs[i][col]
<1> DEFINE hints == columnHints(where, patch)
           p == Project(recs, hints)
           a == applyPatch(p, patch)
<1>1. PICK S \in SUBSET Nat : recs \in [S -> Row]
  BY DEF Rows
<1>2. PICK P \in SUBSET Columns : patch \in [P -> Values]
  BY DEF Given
<1>3. hints \in SUBSET Columns /\ P \subseteq hints
  BY <1>2 DEF columnHints, Given
<1>4. \A i \in S : p[i] = [col \in hints |-> recs[i][col]]
  BY <1>1 DEF Project
<1>5. DOMAIN p = S /\ DOMAIN a = S
  BY <1>1 DEF Project, applyPatch
<1>6. \A i \in S : a[i] = Over(patch, p[i])
  BY <1>5 DEF applyPatch
<1> HIDE DEF a, p, hints
<1>7. ASSUME NEW i \in S
      PROVE  a[i] = [col \in hints |-> IF col \in P THEN patch[col] ELSE recs[i][col]]
  <2>1. DOMAIN p[i] = hints /\ \A col \in hints : p[i][col] = recs[i][col]
    BY <1>4
  <2>2. DOMAIN patch \cup DOMAIN p[i] = hints
    BY <1>2, <1>3, <2>1
  <2> QED BY <1>2, <1>6, <2>1, <2>2 DEF Over
<1>8. \A i \in S : \A col \in hints :
        (IF col \in P THEN patch[col] ELSE recs[i][col]) \in Values \cup {Null}
  BY <1>1, <1>2, <1>3 DEF Row
<1>9. ASSUME NEW i \in S PROVE a[i] \in [hints -> Values \cup {Null}]
  <2> DEFINE value(col) == IF col \in P THEN patch[col] ELSE recs[i][col]
  <2>1. a[i] = [col \in hints |-> value(col)]
    BY <1>7
  <2>2. \A col \in hints : value(col) \in Values \cup {Null}
    BY <1>8
  <2> HIDE DEF value
  <2> QED BY <2>1, <2>2
<1>10. \A i \in S : a[i] \in Read
  BY <1>3, <1>9 DEF Read
<1>11. a \in [S -> Read]
  BY <1>5, <1>10 DEF a, applyPatch
<1>12. ASSUME NEW i \in DOMAIN a, NEW col \in DOMAIN a[i]
       PROVE  /\ col \in DOMAIN patch \cup DOMAIN where
              /\ a[i][col] = IF col \in DOMAIN patch THEN patch[col] ELSE recs[i][col]
  <2>1. a[i] = [x \in hints |-> IF x \in P THEN patch[x] ELSE recs[i][x]]
    BY <1>5, <1>7
  <2>2. hints = DOMAIN patch \cup DOMAIN where
    BY DEF hints, columnHints
  <2> QED BY <1>2, <2>1, <2>2
<1> QED BY <1>1, <1>5, <1>11, <1>12 DEF Answered, a, p, hints

\* What a bulk insert answers with.
LEMMA CreatedTyped ==
  ASSUME NEW c \in Calls, req[c] \in RequestType
  PROVE  Created(c) \in Answered
<1>1. CASE req[c].op = "createMany"
  BY <1>1, EmptyTyped DEF Created
<1>2. CASE req[c].op # "createMany"
  <2> DEFINE l == req[c].list
  <2>1. l \in Seq(Given)
    BY DEF RequestType
  <2>2. Given \subseteq Read /\ Row \subseteq Read
    BY DEF Given, Read, Row
  <2>3. \A i \in DOMAIN l : l[i] \in Given /\ Stored(l[i]) \in Row
    BY <2>1, StoredRow
  <2>4. Created(c) = [i \in DOMAIN l |-> IF returning THEN Stored(l[i]) ELSE l[i]]
    BY <1>2 DEF Created
  <2>5. Created(c) \in [DOMAIN l -> Read]
    BY <2>2, <2>3, <2>4
  <2>6. DOMAIN l \in SUBSET Nat
    BY <2>1
  <2> QED BY <2>5, <2>6 DEF Answered
<1> QED BY <1>1, <1>2

\* Every step keeps the types.
LEMMA TypedKept ==
  ASSUME Typed, NEW c \in Calls, Controlled(c), Counted(c), Start(c) \/ Step(c)
  PROVE  Typed'
<1> DEFINE Calling == /\ pc' \in [Calls -> Labels]
                      /\ ret' \in [Calls -> [err : Errors, count : Nat, recs : Answered]]
<1> USE EmptyTyped
<1>1. ASSUME pc[c] # "idle" PROVE req[c] \in RequestType
  BY <1>1 DEF Controlled
<1>2. CASE Start(c)
  <2>1. PICK r \in Requests : req' = [req EXCEPT ![c] = r]
    BY <1>2 DEF Start
  <2>2. req' \in [Calls -> RequestType \cup {NoRequest}]
    BY <2>1, OrmTableAssumption DEF Typed
  <2>3. Calling
    BY <1>2, AnswerTyped, GotoTyped DEF Start, Labels, Errors
  <2> QED BY <1>2, <2>2, <2>3 DEF Start, Typed, TableTyped, data, ghost
<1>3. CASE Begin(c)
  <2>1. Calling
    BY <1>3, GotoTyped DEF Begin, Labels
  <2>2. mode' \in [Calls -> {"tx", "direct"}]
    BY <1>3 DEF Begin, Typed
  <2> QED BY <1>3, <2>1, <2>2 DEF Begin, Typed, TableTyped, Fixed, data, ghost
<1>4. CASE Insert(c)
  <2> DEFINE row == req[c].list[ret[c].count + 1]
             tx == IF mode[c] = "tx" THEN c ELSE None
  <2>1. pc[c] = "insert" /\ req[c] \in RequestType
    BY <1>4, <1>1 DEF Insert
  <2>2. row \in Given
    <3>1. ret[c].count \in Nat /\ ret[c].count < Len(req[c].list)
      BY <2>1 DEF Counted, Typed
    <3>2. req[c].list \in Seq(Given)
      BY <2>1 DEF RequestType
    <3> QED BY <3>1, <3>2
  <2>3. PICK o \in Outcomes(c) :
          /\ IF Effective(o) THEN table' = Added(row, tx) /\ nextId' = nextId + 1
             ELSE UNCHANGED data
          /\ made' = [made EXCEPT ![c] = IF Effective(o) /\ tx = None THEN @ + 1 ELSE @]
          /\ Disturb(c)
          /\ Faulted(c, o)
          /\ CASE o = "ok" /\ ret[c].count + 1 = Len(req[c].list) /\ tx = None ->
                    Answer(c, "nil", ret[c].count + 1, Created(c))
               [] o = "ok" /\ ~(ret[c].count + 1 = Len(req[c].list) /\ tx = None) ->
                    /\ pc' = [pc EXCEPT ![c] = IF ret[c].count + 1 = Len(req[c].list)
                                               THEN "commit" ELSE "insert"]
                    /\ ret' = [ret EXCEPT ![c].count = @ + 1]
               [] o # "ok" ->
                    /\ pc' = [pc EXCEPT ![c] = IF tx = None THEN "done" ELSE "rollback"]
                    /\ ret' = [ret EXCEPT ![c].err = o]
    BY <1>4 DEF Insert
  <2>4. TableTyped'
    <3>1. tx \in Calls \cup {None}
      OBVIOUS
    <3>2. CASE Effective(o)
      BY <2>2, <2>3, <3>1, <3>2, AddedTyped DEF Typed
    <3>3. CASE ~Effective(o)
      BY <2>3, <3>3 DEF Typed, TableTyped, data
    <3> QED BY <3>2, <3>3
  <2>5. Calling
    <3>1. CASE o = "ok" /\ ret[c].count + 1 = Len(req[c].list) /\ tx = None
      <4>1. Answer(c, "nil", ret[c].count + 1, Created(c))
        BY <2>3, <3>1
      <4>2. Created(c) \in Answered /\ ret[c].count + 1 \in Nat /\ "nil" \in Errors
        <5>1. Created(c) \in Answered
          BY <2>1, CreatedTyped
        <5>2. ret[c].count + 1 \in Nat
          BY DEF Typed
        <5> QED BY <5>1, <5>2 DEF Errors
      <4> QED BY <4>1, <4>2, AnswerTyped
    <3>2. CASE o = "ok" /\ ~(ret[c].count + 1 = Len(req[c].list) /\ tx = None)
      <4>1. PICK l \in {"commit", "insert"} : pc' = [pc EXCEPT ![c] = l]
        BY <2>3, <3>2
      <4>2. ret' = [ret EXCEPT ![c].count = @ + 1]
        BY <2>3, <3>2
      <4>3. ret[c] \in [err : Errors, count : Nat, recs : Answered]
        BY DEF Typed
      <4>4. [ret[c] EXCEPT !.count = @ + 1] \in [err : Errors, count : Nat, recs : Answered]
        BY <4>3
      <4>5. ret' = [ret EXCEPT ![c] = [ret[c] EXCEPT !.count = @ + 1]]
        BY <4>2
      <4>6. ret' \in [Calls -> [err : Errors, count : Nat, recs : Answered]]
        BY <4>4, <4>5 DEF Typed
      <4> QED BY <4>1, <4>6 DEF Typed, Labels
    <3>3. CASE o # "ok"
      <4>1. o \in Errors
        BY <3>3, OutcomeTyped DEF Errors
      <4>2. /\ pc' = [pc EXCEPT ![c] = IF tx = None THEN "done" ELSE "rollback"]
            /\ ret' = [ret EXCEPT ![c].err = o]
        BY <2>3, <3>3
      <4> HIDE DEF tx
      <4> QED BY <4>1, <4>2 DEF Typed, Labels
    <3> QED BY <3>1, <3>2, <3>3
  <2>6. made' \in [Calls -> Nat]
    <3>1. made[c] \in Nat /\ made[c] + 1 \in Nat
      BY DEF Typed
    <3>2. made' = [made EXCEPT ![c] = made[c]] \/ made' = [made EXCEPT ![c] = made[c] + 1]
      BY <2>3
    <3> QED BY <3>1, <3>2 DEF Typed
  <2>7. faults' \in Nat /\ hit' \in [Calls -> BOOLEAN] /\ met' \in [Calls -> SUBSET Meetings]
    BY <2>3, FaultTyped, DisturbTyped
  <2> QED BY <1>4, <2>4, <2>5, <2>6, <2>7 DEF Insert, Typed, Fixed
<1>5. CASE Rollback(c)
  <2>1. TableTyped'
    BY <1>5, EndedTyped DEF Rollback, Typed
  <2>2. pc' \in [Calls -> Labels]
    BY <1>5 DEF Rollback, Typed, Labels
  <2>3. met' \in [Calls -> SUBSET Meetings]
    BY <1>5, DisturbTyped DEF Rollback
  <2> QED BY <1>5, <2>1, <2>2, <2>3 DEF Rollback, Typed, Fixed
<1>6. CASE Commit(c)
  <2>1. req[c] \in RequestType
    BY <1>1, <1>6 DEF Commit
  <2>2. PICK o \in Outcomes(c) :
          /\ table' = Ended(c, Effective(o))
          /\ made' = [made EXCEPT ![c] = IF Effective(o) THEN Len(req[c].list) ELSE @]
          /\ Disturb(c)
          /\ Faulted(c, o)
          /\ Answer(c, ErrOf(o), ret[c].count, IF o = "ok" THEN Created(c) ELSE Empty)
    BY <1>6 DEF Commit
  <2>3. TableTyped'
    BY <1>6, <2>2, EndedTyped, OutcomeTyped DEF Commit, Typed
  <2>4. Calling
    <3>1. (IF o = "ok" THEN Created(c) ELSE Empty) \in Answered
      BY <2>1, CreatedTyped
    <3>2. ret[c].count \in Nat /\ ErrOf(o) \in Errors
      BY OutcomeTyped DEF Typed
    <3> QED BY <2>2, <3>1, <3>2, AnswerTyped
  <2>5. made' \in [Calls -> Nat]
    BY <2>1, <2>2 DEF Typed, RequestType
  <2>6. faults' \in Nat /\ hit' \in [Calls -> BOOLEAN] /\ met' \in [Calls -> SUBSET Meetings]
    BY <2>2, FaultTyped, DisturbTyped
  <2> QED BY <1>6, <2>3, <2>4, <2>5, <2>6 DEF Commit, Typed, Fixed
<1>7. CASE Find(c)
  <2>1. PICK o \in Outcomes(c), some \in SUBSET Matching(c) :
          /\ Query(c, o)
          /\ found' = [found EXCEPT ![c] = IF o = "ok" THEN Records(some) ELSE Empty]
          /\ IF o # "ok" THEN Answer(c, o, 0, Empty)
             ELSE IF req[c].op = "updateManyAndReturn" THEN Goto(c, "update")
             ELSE IF Cardinality(some) > 1 THEN Answer(c, "nonunique", 0, Empty)
             ELSE IF req[c].op # "upsert" THEN Answer(c, "nil", 0, Records(some))
             ELSE IF some = {} THEN Goto(c, "create")
             ELSE Goto(c, IF req[c].patch # Empty THEN "update" ELSE "reread")
    BY <1>7 DEF Find
  <2>2. Records(some) \in Rows /\ Records(some) \in Answered
    BY MatchingFinite, RecordsRows, RowsAreRead
  <2>3. found' \in [Calls -> Rows]
    BY <2>1, <2>2 DEF Typed
  <2>4. o # "ok" => o \in Errors
    BY OutcomeTyped DEF Errors
  <2>5. Calling
    BY <2>1, <2>2, <2>4, AnswerTyped, GotoTyped DEF Labels, Errors
  <2>6. faults' \in Nat /\ hit' \in [Calls -> BOOLEAN]
    BY <2>1, FaultTyped DEF Query
  <2> QED BY <2>1, <2>3, <2>5, <2>6 DEF Query, Typed, TableTyped, Fixed, data
<1>8. CASE Create(c)
  <2> DEFINE values == mergeCreateAndWhere(req[c].create, req[c].where)
  <2>1. req[c] \in RequestType
    BY <1>1, <1>8 DEF Create
  <2>2. values \in Given
    BY <2>1, OverGiven DEF mergeCreateAndWhere, RequestType
  <2>3. PICK o \in Outcomes(c) :
          /\ IF Effective(o) THEN table' = Added(values, None) /\ nextId' = nextId + 1
             ELSE UNCHANGED data
          /\ made' = [made EXCEPT ![c] = IF Effective(o) THEN 1 ELSE @]
          /\ wrote' = [wrote EXCEPT ![c] =
                           IF Effective(o) THEN [i \in {nextId} |-> Stored(values)] ELSE @]
          /\ Disturb(c)
          /\ Faulted(c, o)
          /\ IF o = "ok" /\ req[c].op = "upsert" THEN Goto(c, "reread")
             ELSE Answer(c, ErrOf(o), 0, Empty)
    BY <1>8 DEF Create
  <2>4. TableTyped'
    <3>1. CASE Effective(o)
      BY <2>2, <2>3, <3>1, AddedTyped DEF Typed
    <3>2. CASE ~Effective(o)
      BY <2>3, <3>2 DEF Typed, TableTyped, data
    <3> QED BY <3>1, <3>2
  <2>5. Calling
    BY <2>3, AnswerTyped, GotoTyped, OutcomeTyped DEF Labels
  <2>6. made' \in [Calls -> Nat]
    BY <2>3 DEF Typed
  <2>7. wrote' \in [Calls -> Rows]
    <3>1. Stored(values) \in Row /\ {nextId} \in SUBSET Nat
      BY <2>2, StoredRow DEF Typed, TableTyped
    <3>2. [i \in {nextId} |-> Stored(values)] \in Rows
      <4> HIDE DEF values
      <4>1. [i \in {nextId} |-> Stored(values)] \in [{nextId} -> Row]
        BY <3>1
      <4> QED BY <3>1, <4>1 DEF Rows
    <3> HIDE DEF values
    <3> QED BY <2>3, <3>2 DEF Typed
  <2>8. faults' \in Nat /\ hit' \in [Calls -> BOOLEAN] /\ met' \in [Calls -> SUBSET Meetings]
    BY <2>3, FaultTyped, DisturbTyped
  <2> QED BY <1>8, <2>4, <2>5, <2>6, <2>7, <2>8 DEF Create, Typed, Fixed
<1>9. CASE Reread(c)
  <2>1. PICK o \in Outcomes(c) :
          /\ Query(c, o)
          /\ IF o # "ok" THEN Answer(c, o, 0, Empty)
             ELSE IF Cardinality(Matching(c)) = 0 THEN Answer(c, "notfound", 0, Empty)
             ELSE IF Cardinality(Matching(c)) > 1 THEN Answer(c, "nonunique", 0, Empty)
             ELSE Answer(c, "nil", 0, Records(Matching(c)))
    BY <1>9 DEF Reread
  <2>2. Records(Matching(c)) \in Answered
    BY MatchingFinite, RecordsRows, RowsAreRead
  <2>3. o # "ok" => o \in Errors
    BY OutcomeTyped DEF Errors
  <2>4. Calling
    BY <2>1, <2>2, <2>3, AnswerTyped DEF Errors
  <2>5. faults' \in Nat /\ hit' \in [Calls -> BOOLEAN]
    BY <2>1, FaultTyped DEF Query
  <2> QED BY <1>9, <2>1, <2>4, <2>5 DEF Reread, Query, Typed, TableTyped, Fixed, data
<1>10. CASE Delete(c)
  <2>1. PICK o \in Outcomes(c) :
          /\ table' = IF ~Effective(o) THEN table
                      ELSE [i \in DOMAIN table \ Matching(c) |-> table[i]]
          /\ Disturb(c)
          /\ Faulted(c, o)
          /\ Answer(c, ErrOf(o), IF o = "ok" THEN Cardinality(Matching(c)) ELSE 0, Empty)
    BY <1>10 DEF Delete
  <2>2. Calling
    BY <2>1, MatchingFinite, OutcomeTyped, AnswerTyped
  <2>3. TableTyped'
    BY <1>10, <2>1 DEF Delete, Typed, TableTyped
  <2>4. faults' \in Nat /\ hit' \in [Calls -> BOOLEAN] /\ met' \in [Calls -> SUBSET Meetings]
    BY <2>1, FaultTyped, DisturbTyped
  <2> QED BY <1>10, <2>2, <2>3, <2>4 DEF Delete, Typed, Fixed
<1>11. CASE Update(c)
  <2>1. req[c] \in RequestType
    BY <1>1, <1>11 DEF Update
  <2> DEFINE new == Updated(Matching(c), req[c].patch)
             recs == CASE req[c].op # "updateManyAndReturn" -> Empty
                       [] req[c].op = "updateManyAndReturn" /\ returning -> new
                       [] OTHER -> applyPatch(Project(found[c],
                                     columnHints(req[c].where, req[c].patch)), req[c].patch)
  <2>2. CASE req[c].patch = Empty
    <3>1. Answer(c, "invalid", 0, Empty) /\ UNCHANGED <<data, faults, ghost>>
      BY <1>11, <2>2 DEF Update
    <3>2. Calling
      BY <3>1, AnswerTyped DEF Errors
    <3> QED BY <1>11, <3>1, <3>2 DEF Update, Typed, TableTyped, Fixed, data, ghost
  <2>3. CASE req[c].patch # Empty
    <3>1. PICK o \in Outcomes(c) :
            /\ table' = IF ~Effective(o) THEN table
                        ELSE [i \in DOMAIN table |->
                                IF i \in Matching(c) THEN [table[i] EXCEPT !.rec = new[i]]
                                ELSE table[i]]
            /\ wrote' = [wrote EXCEPT ![c] = IF Effective(o) THEN new ELSE @]
            /\ Disturb(c)
            /\ Faulted(c, o)
            /\ IF o # "ok" THEN Answer(c, o, 0, Empty)
               ELSE IF req[c].op = "upsert" THEN Goto(c, "reread")
               ELSE Answer(c, "nil", Cardinality(Matching(c)), recs)
            /\ UNCHANGED <<nextId, made>>
      BY <1>11, <2>3 DEF Update
    <3>2. /\ new \in Rows /\ new \in Answered
          /\ \A i \in Matching(c) : new[i] \in Row
      BY <2>1, MatchingFinite, UpdatedTyped, RowsAreRead DEF RequestType
    <3>3. recs \in Answered
      <4>1. applyPatch(Project(found[c], columnHints(req[c].where, req[c].patch)), req[c].patch)
              \in Answered
        BY <2>1, PatchedTyped DEF Typed, RequestType
      <4> QED BY <3>2, <4>1
    <3> HIDE DEF recs, new
    <3>4. Calling
      <4>1. o # "ok" => o \in Errors
        BY OutcomeTyped DEF Errors
      <4>2. Cardinality(Matching(c)) \in Nat
        BY MatchingFinite
      <4>3. CASE o # "ok"
        BY <3>1, <4>1, <4>3, AnswerTyped
      <4>4. CASE o = "ok" /\ req[c].op = "upsert"
        BY <3>1, <4>4, GotoTyped DEF Labels
      <4>5. CASE o = "ok" /\ req[c].op # "upsert"
        BY <3>1, <3>3, <4>2, <4>5, AnswerTyped DEF Errors
      <4> QED BY <4>3, <4>4, <4>5
    <3>5. TableTyped'
      <4>1. CASE ~Effective(o)
        BY <3>1, <4>1 DEF Typed, TableTyped
      <4>2. CASE Effective(o)
        <5>1. DOMAIN table' = DOMAIN table /\ nextId' = nextId
          BY <3>1, <4>2
        <5>2. \A i \in DOMAIN table : table'[i] \in [rec : Row, tx : Calls \cup {None}]
          <6>1. ASSUME NEW i \in Matching(c)
                PROVE  [table[i] EXCEPT !.rec = new[i]] \in [rec : Row, tx : Calls \cup {None}]
            <7>1. i \in DOMAIN table /\ new[i] \in Row
              BY <3>2, MatchingFinite
            <7>2. table[i] \in [rec : Row, tx : Calls \cup {None}]
              BY <7>1 DEF Typed, TableTyped
            <7> QED BY <7>1, <7>2
          <6>2. \A i \in DOMAIN table : table[i] \in [rec : Row, tx : Calls \cup {None}]
            BY DEF Typed, TableTyped
          <6> QED BY <3>1, <4>2, <6>1, <6>2
        <5>3. table' = [i \in DOMAIN table |-> table'[i]]
          BY <3>1, <4>2
        <5> QED BY <5>1, <5>2, <5>3 DEF Typed, TableTyped
      <4> QED BY <4>1, <4>2
    <3>6. wrote' \in [Calls -> Rows]
      BY <3>1, <3>2 DEF Typed
    <3>7. faults' \in Nat /\ hit' \in [Calls -> BOOLEAN] /\ met' \in [Calls -> SUBSET Meetings]
      BY <3>1, FaultTyped, DisturbTyped
    <3> QED BY <1>11, <3>1, <3>4, <3>5, <3>6, <3>7 DEF Update, Typed, Fixed
  <2> QED BY <2>2, <2>3
<1> QED BY <1>2, <1>3, <1>4, <1>5, <1>6, <1>7, <1>8, <1>9, <1>10, <1>11 DEF Step

----------------------------------------------------------------------------
(* What a call leaves alone of the others.                                  *)

\* A row belongs to no transaction, or to one that is still open.
LEMMA OwnersKept ==
  ASSUME Typed, Owners, NEW c \in Calls, Start(c) \/ Step(c)
  PROVE  Owners'
<1> DEFINE Open == mode[c] = "tx" /\ pc[c] \in {"insert", "commit", "rollback"}
<1>1. ASSUME \A i \in DOMAIN table' : \/ table'[i].tx \in {None, c}
                                      \/ i \in DOMAIN table /\ table'[i].tx = table[i].tx,
             (\E i \in DOMAIN table' : table'[i].tx = c) => Open'
      PROVE  Owners'
  <2>1. SUFFICES ASSUME NEW i \in DOMAIN table', table'[i].tx # None, table'[i].tx # c
                 PROVE  (mode[table[i].tx] = "tx" /\ pc[table[i].tx] \in {"insert", "commit", "rollback"})'
                        /\ table'[i].tx = table[i].tx
    BY <1>1 DEF Owners
  <2>2. i \in DOMAIN table /\ table'[i].tx = table[i].tx
    BY <1>1, <2>1
  <2>3. table[i].tx \in Calls \ {c}
    BY <2>1, <2>2 DEF Typed, TableTyped
  <2>4. mode'[table[i].tx] = mode[table[i].tx] /\ pc'[table[i].tx] = pc[table[i].tx]
    BY <2>3, Frame
  <2> QED BY <2>1, <2>2, <2>4 DEF Owners
<1>2. ASSUME ~Open PROVE \A i \in DOMAIN table : table[i].tx # c
  BY <1>2, OrmTableAssumption DEF Owners
<1>3. ASSUME table' = table, ~Open PROVE Owners'
  BY <1>1, <1>2, <1>3
<1>4. CASE Start(c)
  BY <1>3, <1>4 DEF Start, data
<1>5. CASE Begin(c)
  BY <1>3, <1>5 DEF Begin, data
<1>6. CASE Insert(c)
  <2> DEFINE row == req[c].list[ret[c].count + 1]
             tx == IF mode[c] = "tx" THEN c ELSE None
             last == ret[c].count + 1 = Len(req[c].list)
  <2>1. PICK o \in Outcomes(c) :
          /\ IF Effective(o) THEN table' = Added(row, tx) ELSE UNCHANGED data
          /\ CASE o = "ok" /\ last /\ tx = None -> TRUE
               [] o = "ok" /\ ~(last /\ tx = None) ->
                    pc' = [pc EXCEPT ![c] = IF last THEN "commit" ELSE "insert"]
               [] o # "ok" -> pc' = [pc EXCEPT ![c] = IF tx = None THEN "done" ELSE "rollback"]
    BY <1>6 DEF Insert
  <2>2. mode' = mode /\ pc[c] = "insert"
    BY <1>6 DEF Insert
  <2>3. \A i \in DOMAIN table' :
          \/ table'[i].tx = tx
          \/ i \in DOMAIN table /\ table'[i].tx = table[i].tx
    BY <2>1 DEF Added, data
  <2>4. CASE mode[c] = "tx"
    <3>1. tx = c /\ tx # None
      BY <2>4, OrmTableAssumption
    <3>2. pc'[c] \in {"insert", "commit", "rollback"}
      BY <2>1, <3>1 DEF Typed
    <3> QED BY <1>1, <2>2, <2>3, <2>4, <3>1, <3>2
  <2>5. CASE mode[c] # "tx"
    BY <1>1, <1>2, <2>3, <2>5, OrmTableAssumption
  <2> QED BY <2>4, <2>5
<1>7. CASE Rollback(c) \/ Commit(c)
  <2>1. PICK b : table' = Ended(c, b)
    BY <1>7 DEF Rollback, Commit
  <2>2. \A i \in DOMAIN table' : i \in DOMAIN table /\ table'[i].tx # c
                                 /\ (table'[i].tx = None \/ table'[i].tx = table[i].tx)
    BY <2>1, OrmTableAssumption DEF Ended, Typed, TableTyped
  <2> QED BY <1>1, <2>2
<1>8. CASE Find(c)
  BY <1>3, <1>8 DEF Find, Query, data
<1>9. CASE Create(c)
  <2> DEFINE row == mergeCreateAndWhere(req[c].create, req[c].where)
  <2>1. PICK o \in Outcomes(c) : IF Effective(o) THEN table' = Added(row, None) ELSE UNCHANGED data
    BY <1>9 DEF Create
  <2>2. \A i \in DOMAIN table' :
          \/ table'[i].tx = None
          \/ i \in DOMAIN table /\ table'[i].tx = table[i].tx
    BY <2>1 DEF Added, data
  <2>3. ~Open
    BY <1>9 DEF Create
  <2> QED BY <1>1, <1>2, <2>2, <2>3, OrmTableAssumption
<1>10. CASE Update(c)
  <2>1. \A i \in DOMAIN table' : i \in DOMAIN table /\ table'[i].tx = table[i].tx
    <3>1. CASE req[c].patch = Empty
      BY <1>10, <3>1 DEF Update, data
    <3>2. CASE req[c].patch # Empty
      <4>1. PICK o \in Outcomes(c) :
              table' = IF ~Effective(o) THEN table
                       ELSE [i \in DOMAIN table |->
                               IF i \in Matching(c)
                               THEN [table[i] EXCEPT !.rec = Updated(Matching(c), req[c].patch)[i]]
                               ELSE table[i]]
        BY <1>10, <3>2 DEF Update
      <4>2. \A i \in DOMAIN table : table[i] \in [rec : Row, tx : Calls \cup {None}]
        BY DEF Typed, TableTyped
      <4> QED BY <4>1, <4>2
    <3> QED BY <3>1, <3>2
  <2>2. ~Open
    BY <1>10 DEF Update
  <2> QED BY <1>1, <1>2, <2>1, <2>2
<1>11. CASE Delete(c)
  <2>1. \A i \in DOMAIN table' : i \in DOMAIN table /\ table'[i].tx = table[i].tx
    BY <1>11 DEF Delete
  <2>2. ~Open
    BY <1>11 DEF Delete
  <2> QED BY <1>1, <1>2, <2>1, <2>2
<1>12. CASE Reread(c)
  BY <1>3, <1>12 DEF Reread, Query, data
<1> QED BY <1>4, <1>5, <1>6, <1>7, <1>8, <1>9, <1>10, <1>11, <1>12 DEF Step

\* What is known of a call stays known when another takes a step.
LEMMA BesideKept ==
  ASSUME Typed, NEW c \in Calls, NEW d \in Calls, c # d, Start(d) \/ Step(d), Own(c)
  PROVE  Own(c)'
<1>1. /\ unique' = unique /\ returning' = returning
      /\ pc'[c] = pc[c] /\ req'[c] = req[c] /\ mode'[c] = mode[c]
      /\ found'[c] = found[c] /\ ret'[c] = ret[c] /\ made'[c] = made[c]
      /\ wrote'[c] = wrote[c] /\ hit'[c] = hit[c]
      /\ met[c] \subseteq met'[c]
  BY Frame
<1>2. Controlled(c)'
  BY <1>1 DEF Own, Controlled
<1>3. Counted(c)'
  BY <1>1 DEF Own, Counted
<1>4. Accounts(c)'
  BY <1>1 DEF Own, Accounts, Done
<1>5. Returned(c)'
  BY <1>1 DEF Own, Returned, Done
<1>6. Plain(c)' <=> Plain(c)
  BY <1>1 DEF Plain
<1>7. Answers(c)'
  BY <1>1, <1>6 DEF Own, Answers
<1>8. ASSUME Running(c)
      PROVE  /\ "gone" \notin met'[c] => Matching(c) \subseteq Matching(c)'
             /\ "joined" \notin met'[c] => Matching(c)' \subseteq Matching(c)
             /\ "changed" \notin met'[c] =>
                  \A i \in Matching(c) \cap Matching(c)' : table'[i].rec = table[i].rec
  BY <1>8, Sight
<1>9. Foreseen(c)'
  BY <1>1, <1>8 DEF Own, Foreseen, Running, Matches
<1>10. Upserting(c)'
  <2> SUFFICES ASSUME Plain(c), "gone" \notin met'[c] PROVE Upserting(c)'
    BY <1>6 DEF Upserting
  <2>1. "gone" \notin met[c] /\ Upserting(c)
    BY <1>1 DEF Own
  <2>2. CASE pc[c] \notin {"create", "update", "reread"}
    BY <1>1, <2>1, <2>2 DEF Upserting
  <2>3. CASE pc[c] = "create"
    BY <1>1, <1>8, <2>1, <2>3 DEF Upserting, Running
  <2>4. CASE pc[c] = "update"
    <3>1. PICK i \in Matching(c) : /\ DOMAIN found[c] = {i}
                                   /\ "joined" \notin met[c] => Matching(c) = {i}
                                   /\ "changed" \notin met[c] => found[c][i] = table[i].rec
      BY <2>1, <2>4 DEF Upserting
    <3>2. /\ i \in Matching(c)'
          /\ "joined" \notin met'[c] => Matching(c)' = {i}
          /\ "changed" \notin met'[c] => found[c][i] = table'[i].rec
      BY <1>1, <1>8, <2>4, <3>1 DEF Running
    <3> QED BY <1>1, <2>1, <2>4, <3>1, <3>2 DEF Upserting
  <2>5. CASE pc[c] = "reread"
    <3>1. PICK i \in Matching(c) : Result(c, i) /\ ("joined" \notin met[c] => Matching(c) = {i})
      BY <2>1, <2>5 DEF Upserting
    <3>2. /\ i \in Matching(c)' /\ Matching(c) \subseteq Matching(c)'
          /\ "joined" \notin met'[c] => Matching(c)' = {i}
          /\ "changed" \notin met'[c] => table'[i].rec = table[i].rec
      BY <1>1, <1>8, <2>5, <3>1 DEF Running
    <3>3. Result(c, i)'
      BY <1>1, <3>1, <3>2 DEF Result
    <3> QED BY <1>1, <2>5, <3>2, <3>3 DEF Upserting
  <2> QED BY <2>2, <2>3, <2>4, <2>5
<1> QED BY <1>2, <1>3, <1>4, <1>5, <1>7, <1>9, <1>10 DEF Own

----------------------------------------------------------------------------
(* What a call does by its own steps.                                       *)

\* What an answer leaves behind.
LEMMA AnswerIs ==
  ASSUME Typed, NEW c \in Calls, NEW e, NEW n, NEW r, Answer(c, e, n, r)
  PROVE  pc'[c] = "done" /\ ret'[c].err = e /\ ret'[c].count = n /\ ret'[c].recs = r
  BY DEF Answer, Typed

\* A jump leaves the answer as it is.
LEMMA GotoIs ==
  ASSUME Typed, NEW c \in Calls, NEW l, Goto(c, l)
  PROVE  pc'[c] = l /\ ret' = ret
  BY DEF Goto, Typed

\* The checks of Start decide where a call goes.
LEMMA StartOwn ==
  ASSUME Typed, NEW c \in Calls, Start(c), Own(c)
  PROVE  Own(c)'
<1>1. PICK r \in Requests :
         /\ req' = [req EXCEPT ![c] = r]
         /\ CASE r.op \in {"createMany", "createManyAndReturn"} ->
                   IF r.list = <<>> THEN Answer(c, "nil", 0, Empty) ELSE Goto(c, "begin")
              [] r.op = "create" -> Goto(c, "create")
              [] r.op = "findFirst" -> Goto(c, "find")
              [] OTHER ->
                   IF r.where = Empty THEN Answer(c, "invalid", 0, Empty)
                   ELSE IF \/ r.op \in {"findUnique", "upsert"}
                           \/ r.op = "updateManyAndReturn" /\ ~returning THEN Goto(c, "find")
                   ELSE IF r.op = "delete" THEN Goto(c, "delete")
                   ELSE Goto(c, "update")
  BY DEF Start
<1>2. /\ req'[c] = r /\ r \in RequestType /\ r.op \in Ops
      /\ ret[c] = NoAnswer /\ mode'[c] = "direct" /\ made'[c] = 0
      /\ found'[c] = Empty /\ wrote'[c] = Empty /\ returning' = returning
  BY <1>1, OrmTableAssumption DEF Start, Own, Controlled, Typed, RequestType, ghost
<1>3. CASE r.op \in BulkOps
  <2>1. CASE r.list = <<>>
    <3>1. pc'[c] = "done" /\ ret'[c].err = "nil" /\ ret'[c].count = 0
      <4>1. Answer(c, "nil", 0, Empty)
        BY <1>1, <1>3, <2>1 DEF BulkOps
      <4> QED BY <4>1, AnswerIs
    <3>2. Len(r.list) = 0
      BY <2>1
    <3>3. Accounts(c)'
      BY <1>2, <3>1, <3>2 DEF Accounts
    <3> QED BY <1>2, <1>3, <2>1, <3>1, <3>3
         DEF Own, Controlled, Counted, Foreseen, Upserting, Returned, Answers,
             Plain, Done, BulkOps
  <2>2. CASE r.list # <<>>
    <3>1. pc'[c] = "begin" /\ ret'[c] = NoAnswer
      BY <1>1, <1>2, <1>3, <2>2, GotoIs DEF BulkOps
    <3> QED BY <1>2, <1>3, <2>2, <3>1
         DEF Own, Controlled, Counted, Foreseen, Upserting, Accounts, Returned, Answers,
             Plain, Done, BulkOps
  <2> QED BY <2>1, <2>2
<1>4. CASE r.op \in {"create", "findFirst"}
  <2>1. pc'[c] = IF r.op = "create" THEN "create" ELSE "find"
    BY <1>1, <1>4, GotoIs
  <2> QED BY <1>2, <1>4, <2>1
       DEF Own, Controlled, Counted, Foreseen, Upserting, Accounts, Returned, Answers,
           Plain, Done, BulkOps
<1>5. CASE r.op \notin BulkOps \cup {"create", "findFirst"}
  <2>1. CASE r.where = Empty
    <3>1. pc'[c] = "done" /\ ret'[c].err = "invalid"
      BY <1>1, <1>5, <2>1, AnswerIs DEF BulkOps
    <3> QED BY <1>2, <1>5, <2>1, <3>1
         DEF Own, Controlled, Counted, Foreseen, Upserting, Accounts, Returned, Answers,
             Plain, Done, BulkOps
  <2>2. CASE r.where # Empty
    <3>1. pc'[c] = IF \/ r.op \in {"findUnique", "upsert"}
                      \/ r.op = "updateManyAndReturn" /\ ~returning THEN "find"
                   ELSE IF r.op = "delete" THEN "delete" ELSE "update"
      BY <1>1, <1>5, <2>2, GotoIs DEF BulkOps
    <3> QED BY <1>2, <1>5, <2>2, <3>1
         DEF Own, Controlled, Counted, Foreseen, Upserting, Accounts, Returned, Answers,
             Plain, Done, BulkOps, Ops
  <2> QED BY <2>1, <2>2
<1> QED BY <1>3, <1>4, <1>5

\* Its transaction begins before anything is stored.
LEMMA BeginOwn ==
  ASSUME Typed, NEW c \in Calls, Begin(c), Own(c)
  PROVE  Own(c)'
<1>1. /\ pc[c] = "begin" /\ pc'[c] = "insert" /\ ret'[c] = ret[c] /\ req'[c] = req[c]
      /\ made'[c] = made[c]
  BY GotoIs DEF Begin, Fixed, ghost
<1>2. /\ req[c].op \in BulkOps /\ req[c] \in RequestType /\ made[c] = 0
      /\ ret[c] = NoAnswer /\ req[c].list # <<>>
  BY <1>1 DEF Own, Controlled, Counted
<1>3. Len(req[c].list) > 0
  BY <1>2 DEF RequestType
<1>4. Controlled(c)'
  BY <1>1, <1>2 DEF Controlled
<1>5. Counted(c)'
  <2>1. ret'[c].count = 0 /\ ret'[c].err = "nil"
    BY <1>1, <1>2 DEF NoAnswer
  <2> QED BY <1>1, <1>2, <1>3, <2>1 DEF Counted
<1>6. Accounts(c)'
  BY <1>1 DEF Accounts, Done
<1> QED BY <1>1, <1>2, <1>4, <1>5, <1>6
     DEF Own, Foreseen, Upserting, Returned, Answers, Plain, Done, BulkOps

\* One row more, stored for good without a transaction.
LEMMA InsertOwn ==
  ASSUME Typed, NEW c \in Calls, Insert(c), Own(c)
  PROVE  Own(c)'
<1> DEFINE n == ret[c].count
           len == Len(req[c].list)
           direct == mode[c] = "direct"
<1>1. /\ pc[c] = "insert" /\ req'[c] = req[c] /\ mode'[c] = mode[c]
  BY DEF Insert, Fixed
<1>2. /\ req[c].op \in BulkOps /\ req[c] \in RequestType
      /\ n < len /\ ret[c].err = "nil" /\ made[c] = IF mode[c] = "tx" THEN 0 ELSE n
      /\ n \in Nat /\ len \in Nat /\ mode[c] \in {"tx", "direct"}
  <2>1. req[c].op \in BulkOps /\ req[c] \in RequestType
    BY <1>1 DEF Own, Controlled
  <2>2. n < len /\ ret[c].err = "nil" /\ made[c] = IF mode[c] = "tx" THEN 0 ELSE n
    BY <1>1 DEF Own, Counted
  <2>3. n \in Nat /\ mode[c] \in {"tx", "direct"}
    BY DEF Typed
  <2>4. len \in Nat
    BY <2>1 DEF RequestType
  <2> QED BY <2>1, <2>2, <2>3, <2>4
<1>3. (IF mode[c] = "tx" THEN c ELSE None) = None <=> direct
  BY <1>2, OrmTableAssumption
<1>4. PICK o \in Outcomes(c) :
        /\ made' = [made EXCEPT ![c] = IF Effective(o) /\ direct THEN @ + 1 ELSE @]
        /\ CASE o = "ok" /\ n + 1 = len /\ direct -> Answer(c, "nil", n + 1, Created(c))
             [] o = "ok" /\ ~(n + 1 = len /\ direct) ->
                  /\ pc' = [pc EXCEPT ![c] = IF n + 1 = len THEN "commit" ELSE "insert"]
                  /\ ret' = [ret EXCEPT ![c].count = @ + 1]
             [] o # "ok" ->
                  /\ pc' = [pc EXCEPT ![c] = IF direct THEN "done" ELSE "rollback"]
                  /\ ret' = [ret EXCEPT ![c].err = o]
  BY <1>3 DEF Insert
<1>5. o \in {"deadlock", "constraint", "ok", "failed", "lost"}
  BY OutcomeTyped
<1>6. made'[c] = IF o \in {"ok", "lost"} /\ direct THEN made[c] + 1 ELSE made[c]
  BY <1>4 DEF Effective, Typed
<1> HIDE DEF n, len, direct
<1>7. Controlled(c)' /\ Counted(c)' /\ Accounts(c)'
  <2>1. CASE o = "ok" /\ n + 1 = len /\ direct
    <3>1. pc'[c] = "done" /\ ret'[c].err = "nil" /\ ret'[c].count = n + 1
      BY <1>4, <2>1, AnswerIs
    <3>2. made'[c] = n + 1
      BY <1>2, <1>6, <2>1 DEF direct
    <3>3. Accounts(c)'
      BY <1>1, <2>1, <3>1, <3>2 DEF Accounts, len, direct
    <3> QED BY <1>1, <1>2, <3>1, <3>3 DEF Controlled, Counted
  <2>2. CASE o = "ok" /\ ~(n + 1 = len /\ direct)
    <3>1. pc'[c] = (IF n + 1 = len THEN "commit" ELSE "insert")
      BY <1>4, <2>2 DEF Typed
    <3>2. ret'[c].count = n + 1 /\ ret'[c].err = ret[c].err
      <4>1. ret[c] \in [err : Errors, count : Nat, recs : Answered]
        BY DEF Typed
      <4>2. ret'[c] = [ret[c] EXCEPT !.count = ret[c].count + 1]
        BY <1>4, <2>2 DEF Typed
      <4> QED BY <4>1, <4>2 DEF n
    <3>3. Controlled(c)' /\ Accounts(c)'
      BY <1>1, <1>2, <3>1 DEF Controlled, Accounts, Done
    <3>4. n + 1 = len => mode[c] = "tx"
      BY <1>2, <2>2 DEF direct
    <3>5. made'[c] = IF mode[c] = "tx" THEN 0 ELSE n + 1
      BY <1>2, <1>6, <2>2 DEF direct
    <3>6. Counted(c)'
      BY <1>1, <1>2, <3>1, <3>2, <3>4, <3>5 DEF Counted, len
    <3> QED BY <3>3, <3>6
  <2>3. CASE o # "ok"
    <3>1. pc'[c] = (IF direct THEN "done" ELSE "rollback")
      BY <1>4, <2>3 DEF Typed
    <3>2. ret'[c].count = n /\ ret'[c].err = o
      <4>1. ret[c] \in [err : Errors, count : Nat, recs : Answered]
        BY DEF Typed
      <4>2. ret'[c] = [ret[c] EXCEPT !.err = o]
        BY <1>4, <2>3 DEF Typed
      <4> QED BY <4>1, <4>2 DEF n
    <3>3. o # "nil"
      BY <1>5
    <3>4. Controlled(c)'
      BY <1>1, <1>2, <3>1 DEF Controlled
    <3>5. Counted(c)'
      BY <1>1, <1>2, <1>6, <3>1, <3>2, <3>3 DEF Counted, direct
    <3>6. direct => made'[c] = n + IF o = "lost" THEN 1 ELSE 0
      BY <1>2, <1>5, <1>6, <2>3 DEF direct
    <3>7. Accounts(c)'
      BY <1>1, <1>2, <3>1, <3>2, <3>3, <3>6 DEF Accounts, Done, direct
    <3> QED BY <3>4, <3>5, <3>7
  <2> QED BY <2>1, <2>2, <2>3
<1> QED BY <1>1, <1>2, <1>7
     DEF Own, Foreseen, Upserting, Returned, Answers, Plain, Done, BulkOps

\* A rollback leaves none.
LEMMA RollbackOwn ==
  ASSUME Typed, NEW c \in Calls, Rollback(c), Own(c)
  PROVE  Own(c)'
<1>1. /\ pc[c] = "rollback" /\ pc'[c] = "done" /\ req'[c] = req[c] /\ mode'[c] = mode[c]
      /\ ret'[c] = ret[c] /\ made'[c] = made[c]
  BY DEF Rollback, Fixed, Typed
<1>2. /\ req[c].op \in BulkOps /\ req[c] \in RequestType
      /\ mode[c] = "tx" /\ made[c] = 0 /\ ret[c].err # "nil"
  BY <1>1 DEF Own, Controlled, Counted
<1>3. Controlled(c)' /\ Counted(c)' /\ Accounts(c)'
  BY <1>1, <1>2 DEF Controlled, Counted, Accounts, Done
<1> QED BY <1>1, <1>2, <1>3
     DEF Own, Foreseen, Upserting, Returned, Answers, Plain, Done, BulkOps

\* A commit without an error has stored all; one with an error, all or none.
LEMMA CommitOwn ==
  ASSUME Typed, NEW c \in Calls, Commit(c), Own(c)
  PROVE  Own(c)'
<1>1. pc[c] = "commit" /\ req'[c] = req[c] /\ mode'[c] = mode[c]
  BY DEF Commit, Fixed
<1>2. /\ req[c].op \in BulkOps /\ req[c] \in RequestType
      /\ mode[c] = "tx" /\ made[c] = 0 /\ ret[c].count = Len(req[c].list)
  BY <1>1 DEF Own, Controlled, Counted
<1>3. PICK o \in Outcomes(c) :
        /\ made' = [made EXCEPT ![c] = IF Effective(o) THEN Len(req[c].list) ELSE @]
        /\ Answer(c, ErrOf(o), ret[c].count, IF o = "ok" THEN Created(c) ELSE Empty)
  BY DEF Commit
<1>4. pc'[c] = "done" /\ ret'[c].err = ErrOf(o) /\ ret'[c].count = ret[c].count
  BY <1>3, AnswerIs
<1>5. /\ made'[c] \in {0, Len(req[c].list)}
      /\ o = "ok" => made'[c] = Len(req[c].list)
  BY <1>2, <1>3 DEF Effective, Typed
<1>6. ErrOf(o) = "nil" <=> o = "ok"
  BY OutcomeTyped
<1>7. Controlled(c)' /\ Counted(c)' /\ Accounts(c)'
  BY <1>1, <1>2, <1>4, <1>5, <1>6 DEF Controlled, Counted, Accounts, Done
<1> QED BY <1>1, <1>2, <1>7
     DEF Own, Foreseen, Upserting, Returned, Answers, Plain, Done, BulkOps

\* Nobody waits for a call without a transaction, so it is in no deadlock.
LEMMA NoRowsNoDeadlock ==
  ASSUME Typed, Owners, NEW c \in Calls, pc[c] \notin {"insert", "commit", "rollback"}
  PROVE  ~InCycle(c)
<1>1. \A i \in DOMAIN table : table[i].tx # c
  BY OrmTableAssumption DEF Owners
<1>2. \A d \in Calls : WaitsFor(d) \subseteq Calls \ {c}
  BY <1>1 DEF WaitsFor, Typed, TableTyped
<1> QED BY <1>2 DEF InCycle

\* Then only a fault or the unique constraint gives its statement an error.
LEMMA Unhindered ==
  ASSUME Typed, Owners, NEW c \in Calls, pc[c] \notin {"insert", "commit", "rollback"},
         NEW o \in Outcomes(c), Faulted(c, o), o # "ok"
  PROVE  hit'[c] \/ (o = "constraint" /\ Violates(c))
<1>1. o \in {"failed", "lost"} \/ (o = "constraint" /\ Violates(c))
  BY NoRowsNoDeadlock DEF Outcomes
<1> QED BY <1>1 DEF Faulted, Typed

\* A query writes no key.
LEMMA QueryViolatesNothing ==
  ASSUME NEW c \in Calls, pc[c] \notin {"insert", "create", "update"}
  PROVE  ~Violates(c)
  BY DEF Violates, NextKeys

\* No records of no rows.
LEMMA NoRecords == Records({}) = Empty
  BY DEF Records, Empty

\* Two of the rows, or all.
LEMMA FoundRows ==
  ASSUME Typed, NEW c \in Calls, NEW some \in SUBSET Matching(c), NEW limit \in Nat,
         Cardinality(some) = LET n == Cardinality(Matching(c)) IN IF n < limit THEN n ELSE limit
  PROVE  /\ IsFiniteSet(some) /\ Cardinality(some) \in Nat
         /\ Cardinality(some) < limit \/ limit = Cardinality(Matching(c)) => some = Matching(c)
<1>1. IsFiniteSet(Matching(c)) /\ Cardinality(Matching(c)) \in Nat
  BY MatchingFinite
<1>2. IsFiniteSet(some) /\ Cardinality(some) \in Nat
  BY <1>1, FS_Subset, FS_CardinalityType
<1>3. ASSUME Cardinality(some) < limit \/ limit = Cardinality(Matching(c))
      PROVE  Cardinality(some) = Cardinality(Matching(c))
  BY <1>1, <1>2, <1>3
<1>4. ASSUME Cardinality(some) < limit \/ limit = Cardinality(Matching(c))
      PROVE  some = Matching(c)
  BY <1>1, <1>3, <1>4, FS_Subset
<1> QED BY <1>2, <1>4

\* The first query finds all the rows, or shows that there are several.
LEMMA FindOwn ==
  ASSUME Typed, Owners, NEW c \in Calls, Find(c), Own(c)
  PROVE  Own(c)'
<1> DEFINE limit == CASE req[c].op = "findFirst" -> 1
                      [] req[c].op = "updateManyAndReturn" -> Cardinality(Matching(c))
                      [] OTHER -> 2
<1>1. PICK o \in Outcomes(c), some \in SUBSET Matching(c) :
        /\ Cardinality(some) =
             LET n == Cardinality(Matching(c)) IN IF n < limit THEN n ELSE limit
        /\ Query(c, o)
        /\ found' = [found EXCEPT ![c] = IF o = "ok" THEN Records(some) ELSE Empty]
        /\ IF o # "ok" THEN Answer(c, o, 0, Empty)
           ELSE IF req[c].op = "updateManyAndReturn" THEN Goto(c, "update")
           ELSE IF Cardinality(some) > 1 THEN Answer(c, "nonunique", 0, Empty)
           ELSE IF req[c].op # "upsert" THEN Answer(c, "nil", 0, Records(some))
           ELSE IF some = {} THEN Goto(c, "create")
           ELSE Goto(c, IF req[c].patch # Empty THEN "update" ELSE "reread")
  BY DEF Find
<1>2. /\ pc[c] = "find" /\ UNCHANGED <<unique, returning, req, table, mode, made, wrote, met>>
      /\ Faulted(c, o)
  BY <1>1 DEF Find, Query, Fixed, data
<1>3. /\ req[c] \in RequestType
      /\ \/ req[c].op \in {"findFirst", "findUnique", "upsert"}
         \/ req[c].op = "updateManyAndReturn" /\ ~returning
  BY <1>2 DEF Own, Controlled
<1>4. Matching(c)' = Matching(c) /\ \A S : Records(S)' = Records(S)
  BY <1>2 DEF Matching, Seen, Records
<1>5. Plain(c)' <=> Plain(c)
  BY <1>2 DEF Plain
<1>6. found'[c] = IF o = "ok" THEN Records(some) ELSE Empty
  BY <1>1 DEF Typed
<1>7. limit \in Nat
  BY MatchingFinite
<1>8. /\ IsFiniteSet(some) /\ Cardinality(some) \in Nat
      /\ Cardinality(some) < limit \/ limit = Cardinality(Matching(c)) => some = Matching(c)
  BY <1>1, <1>7, FoundRows
<1>9. CASE o # "ok"
  <2>1. pc'[c] = "done" /\ ret'[c].err = o
    BY <1>1, <1>9, AnswerIs
  <2>2. hit'[c]
    BY <1>2, <1>9, QueryViolatesNothing, Unhindered
  <2>3. o # "nil"
    BY OutcomeTyped
  <2> QED BY <1>2, <1>3, <2>1, <2>2, <2>3
       DEF Own, Controlled, Counted, Foreseen, Upserting, Accounts, Returned, Answers, Done, BulkOps
<1>10. CASE o = "ok" /\ req[c].op = "updateManyAndReturn"
  <2>1. pc'[c] = "update"
    BY <1>1, <1>10, GotoIs
  <2>2. some = Matching(c)
    BY <1>8, <1>10
  <2>3. \A i \in some : Matches(table[i].rec, req[c].where)
    BY DEF Matching, Seen
  <2>4. Foreseen(c)'
    BY <1>2, <1>4, <1>6, <1>10, <2>2, <2>3 DEF Foreseen, Records, Matches
  <2> QED BY <1>2, <1>3, <1>10, <2>1, <2>4
       DEF Own, Controlled, Counted, Upserting, Accounts, Returned, Answers, Plain, Done, BulkOps
<1>11. CASE o = "ok" /\ req[c].op \in {"findFirst", "findUnique"}
  <2>1. pc'[c] = "done"
    BY <1>1, <1>11, AnswerIs
  <2> QED BY <1>2, <1>3, <1>11, <2>1
       DEF Own, Controlled, Counted, Foreseen, Upserting, Accounts, Returned, Answers, Plain, Done, BulkOps
<1>12. CASE o = "ok" /\ req[c].op = "upsert"
  <2>1. limit = 2
    BY <1>12
  <2> HIDE DEF limit
  <2>2. DOMAIN found'[c] = some
    BY <1>6, <1>12 DEF Records
  <2>3. Plain(c) /\ "gone" \notin met[c] => made[c] = 0 /\ wrote[c] = Empty
    BY <1>2 DEF Own, Upserting
  <2>4. CASE Cardinality(some) > 1
    <3>1. pc'[c] = "done" /\ ret'[c].err = "nonunique"
      BY <1>1, <1>12, <2>4, AnswerIs
    <3>2. ~(Cardinality(some) < 2)
      BY <1>8, <2>4
    <3>3. Answers(c)'
      BY <2>2, <3>2 DEF Answers
    <3> QED BY <1>2, <1>3, <1>12, <3>1, <3>3
         DEF Own, Controlled, Counted, Foreseen, Upserting, Accounts, Returned, Done, BulkOps
  <2>5. CASE ~(Cardinality(some) > 1)
    <3>1. some = Matching(c)
      BY <1>8, <2>1, <2>5
    <3>2. CASE some = {}
      <4>1. pc'[c] = "create"
        BY <1>1, <1>12, <2>5, <3>2, GotoIs
      <4>2. found'[c] = Empty
        BY <1>6, <1>12, <3>2, NoRecords
      <4>3. Upserting(c)'
        BY <1>2, <1>4, <1>5, <2>3, <3>1, <3>2, <4>1, <4>2 DEF Upserting
      <4> QED BY <1>2, <1>3, <1>12, <4>1, <4>3
           DEF Own, Controlled, Counted, Foreseen, Accounts, Returned, Answers, Done, BulkOps
    <3>3. CASE some # {}
      <4>1. PICK i \in some : some = {i}
        <5>1. Cardinality(some) = 1
          BY <1>8, <2>5, <3>3, FS_EmptySet
        <5> QED BY <1>8, <5>1, OneRow
      <4>2. i \in DOMAIN table' /\ Matching(c)' = {i}
        BY <1>2, <1>4, <3>1, <4>1, MatchingFinite
      <4>3. found'[c][i] = table'[i].rec /\ DOMAIN found'[c] = {i}
        BY <1>2, <1>4, <1>6, <1>12, <4>1 DEF Records
      <4>4. pc'[c] = IF req[c].patch # Empty THEN "update" ELSE "reread"
        BY <1>1, <1>12, <2>5, <3>3, GotoIs
      <4>5. ASSUME Plain(c), "gone" \notin met[c], req[c].patch = Empty PROVE Result(c, i)'
        BY <1>2, <2>3, <4>3, <4>5, EmptyTyped DEF Result, Agree
      <4>6. Upserting(c)'
        BY <1>2, <1>5, <2>3, <4>2, <4>3, <4>4, <4>5 DEF Upserting
      <4> QED BY <1>2, <1>3, <1>12, <4>4, <4>6
           DEF Own, Controlled, Counted, Foreseen, Accounts, Returned, Answers, Done, BulkOps
    <3> QED BY <3>2, <3>3
  <2> QED BY <2>4, <2>5
<1> QED BY <1>3, <1>9, <1>10, <1>11, <1>12

\* The new row is the one of the Where.
LEMMA CreateOwn ==
  ASSUME Typed, Owners, NEW c \in Calls, Create(c), Own(c)
  PROVE  Own(c)'
<1> DEFINE values == mergeCreateAndWhere(req[c].create, req[c].where)
<1>1. PICK o \in Outcomes(c) :
        /\ IF Effective(o) THEN table' = Added(values, None) ELSE UNCHANGED data
        /\ made' = [made EXCEPT ![c] = IF Effective(o) THEN 1 ELSE @]
        /\ wrote' = [wrote EXCEPT ![c] =
                         IF Effective(o) THEN [i \in {nextId} |-> Stored(values)] ELSE @]
        /\ Disturb(c)
        /\ Faulted(c, o)
        /\ IF o = "ok" /\ req[c].op = "upsert" THEN Goto(c, "reread")
           ELSE Answer(c, ErrOf(o), 0, Empty)
  BY DEF Create
<1>2. pc[c] = "create" /\ UNCHANGED <<unique, returning, req, mode, found>>
  BY DEF Create, Fixed
<1>3. met'[c] = met[c]
  BY <1>1 DEF Disturb
<1>4. req[c] \in RequestType /\ req[c].op \in {"create", "upsert"}
  BY <1>2 DEF Own, Controlled
<1>5. Plain(c)' <=> Plain(c)
  BY <1>2, <1>3 DEF Plain
<1>6. Plain(c) /\ "gone" \notin met[c] =>
        /\ made[c] = 0 /\ wrote[c] = Empty /\ found[c] = Empty
        /\ "joined" \notin met[c] => Matching(c) = {}
  BY <1>2 DEF Own, Upserting
<1>7. /\ values \in Given /\ Stored(values) \in Row
      /\ \A col \in DOMAIN req[c].create : col \in DOMAIN values /\ values[col] = req[c].create[col]
      /\ \A col \in DOMAIN req[c].where : col \in DOMAIN values
      /\ Agree(req[c].create, req[c].where) => Agree(values, req[c].where)
      /\ \A col \in DOMAIN values : Stored(values)[col] = values[col]
  <2>1. req[c].create \in Given /\ req[c].where \in Given
    BY <1>4 DEF RequestType
  <2>2. values = Over(req[c].create, req[c].where)
    BY DEF mergeCreateAndWhere
  <2> HIDE DEF values
  <2>3. /\ values \in Given
        /\ DOMAIN values = DOMAIN req[c].create \cup DOMAIN req[c].where
        /\ \A col \in DOMAIN req[c].create : values[col] = req[c].create[col]
        /\ Agree(req[c].create, req[c].where) => Agree(values, req[c].where)
    BY <2>1, <2>2, OverGiven
  <2> QED BY <2>3, StoredRow
<1> HIDE DEF values
<1>8. CASE ~(o = "ok" /\ req[c].op = "upsert")
  <2>1. pc'[c] = "done" /\ ret'[c].err = ErrOf(o)
    BY <1>1, <1>8, AnswerIs
  <2>2. ASSUME Plain(c), Violates(c) PROVE Matching(c) # {}
    <3>1. PICK i \in DOMAIN table : unique /\ table[i].tx \in {None, c} /\ table[i].rec["k"] \in NextKeys(c)
      BY <1>2, <2>2 DEF Violates
    <3>2. table[i].rec["k"] = Stored(values)["k"]
      BY <1>2, <3>1 DEF NextKeys, values
    <3>3. DOMAIN req[c].where = {"k"} /\ Agree(values, req[c].where)
      BY <1>7, <2>2, <3>1 DEF Plain
    <3>4. Stored(values)["k"] = req[c].where["k"]
      BY <1>7, <3>3 DEF Agree
    <3>5. i \in Matching(c)
      BY <3>1, <3>2, <3>3, <3>4 DEF Matching, Seen, Matches
    <3> QED BY <3>5
  <2>3. ASSUME Plain(c), "gone" \notin met[c], ~hit'[c]
        PROVE  /\ ret'[c].err = "constraint" /\ "joined" \in met[c]
               /\ made'[c] = 0 /\ wrote'[c] = Empty
    <3>1. o # "ok"
      BY <1>8, <2>3 DEF Plain
    <3>2. o = "constraint" /\ Violates(c)
      BY <1>1, <1>2, <2>3, <3>1, Unhindered
    <3>3. made'[c] = made[c] /\ wrote'[c] = wrote[c]
      BY <1>1, <3>2 DEF Effective, Typed
    <3> QED BY <1>6, <2>1, <2>2, <2>3, <3>2, <3>3 DEF ErrOf
  <2>4. Answers(c)'
    <3>1. Plain(c) => ErrOf(o) # "nil"
      BY <1>8, OutcomeTyped DEF Plain
    <3> QED BY <1>3, <1>5, <2>1, <2>3, <3>1 DEF Answers
  <2> QED BY <1>2, <1>4, <2>1, <2>4
       DEF Own, Controlled, Counted, Foreseen, Upserting, Accounts, Returned, Done, BulkOps
<1>9. CASE o = "ok" /\ req[c].op = "upsert"
  <2>1. pc'[c] = "reread"
    BY <1>1, <1>9, GotoIs
  <2>2. table' = Added(values, None) /\ made'[c] = 1 /\ DOMAIN wrote'[c] = {nextId}
    BY <1>1, <1>9 DEF Effective, Typed
  <2>3. PICK id : id = nextId
    OBVIOUS
  <2>4. /\ DOMAIN table' = DOMAIN table \cup {id}
        /\ table'[id] = [rec |-> Stored(values), tx |-> None]
        /\ \A i \in DOMAIN table : table'[i] = table[i]
    BY <2>2, <2>3 DEF Added, Typed, TableTyped
  <2>5. ASSUME Plain(c), "gone" \notin met[c]
        PROVE  /\ id \in Matching(c)' /\ Result(c, id)'
               /\ "joined" \notin met[c] => Matching(c)' = {id}
    <3>1. Agree(values, req[c].where)
      BY <1>7, <2>5 DEF Plain
    <3>2. \A col \in DOMAIN req[c].where : Stored(values)[col] = req[c].where[col]
      BY <1>7, <3>1 DEF Agree
    <3>3. id \in Matching(c)'
      BY <1>2, <2>4, <3>2 DEF Matching, Seen, Matches
    <3>4. \A i \in DOMAIN table : i \in Matching(c)' => i \in Matching(c)
      BY <1>2, <2>4 DEF Matching, Seen, Matches
    <3>5. "joined" \notin met[c] => Matching(c)' = {id}
      <4>1. Matching(c)' \subseteq DOMAIN table'
        BY DEF Matching, Seen
      <4> QED BY <1>6, <2>4, <2>5, <3>3, <3>4, <4>1
    <3>6. Agree(Stored(values), req[c].create) /\ Agree(Stored(values), req[c].where)
      BY <1>7, <3>2 DEF Agree
    <3>7. Result(c, id)'
      BY <1>2, <1>6, <2>2, <2>3, <2>4, <2>5, <3>6 DEF Result
    <3> QED BY <3>3, <3>5, <3>7
  <2>6. Upserting(c)'
    BY <1>3, <1>5, <2>1, <2>5 DEF Upserting
  <2> QED BY <1>2, <1>4, <1>9, <2>1, <2>6
       DEF Own, Controlled, Counted, Foreseen, Accounts, Returned, Answers, Done, BulkOps
<1> QED BY <1>8, <1>9

\* The rows answered are the rows changed; the row of the Where is still its row.
LEMMA UpdateOwn ==
  ASSUME Typed, Owners, NEW c \in Calls, Update(c), Own(c)
  PROVE  Own(c)'
<1> DEFINE patch == req[c].patch
           new == Updated(Matching(c), patch)
           patched == applyPatch(Project(found[c], columnHints(req[c].where, patch)), patch)
<1>1. /\ pc[c] = "update" /\ UNCHANGED <<unique, returning, req, mode, found, made>>
  BY DEF Update, Fixed, ghost
<1>2. /\ req[c] \in RequestType /\ patch \in Given
      /\ req[c].op \in {"updateMany", "updateManyAndReturn", "upsert"}
  BY <1>1 DEF Own, Controlled, RequestType
<1>3. CASE patch = Empty
  <2>1. pc'[c] = "done" /\ ret'[c].err = "invalid" /\ UNCHANGED met
    BY <1>3, AnswerIs DEF Update, ghost
  <2>2. Plain(c)' => "gone" \in met'[c]
    BY <1>1, <1>3, <2>1 DEF Own, Upserting, Plain
  <2> QED BY <1>1, <1>2, <2>1, <2>2
       DEF Own, Controlled, Counted, Foreseen, Upserting, Accounts, Returned, Answers, Done, BulkOps
<1>4. CASE patch # Empty
  <2>1. PICK o \in Outcomes(c) :
          /\ table' = IF ~Effective(o) THEN table
                      ELSE [i \in DOMAIN table |->
                              IF i \in Matching(c) THEN [table[i] EXCEPT !.rec = new[i]]
                              ELSE table[i]]
          /\ wrote' = [wrote EXCEPT ![c] = IF Effective(o) THEN new ELSE @]
          /\ Disturb(c)
          /\ Faulted(c, o)
          /\ IF o # "ok" THEN Answer(c, o, 0, Empty)
             ELSE IF req[c].op = "upsert" THEN Goto(c, "reread")
             ELSE Answer(c, "nil", Cardinality(Matching(c)),
                         CASE req[c].op # "updateManyAndReturn" -> Empty
                           [] req[c].op = "updateManyAndReturn" /\ returning -> new
                           [] OTHER -> patched)
    BY <1>4 DEF Update
  <2>2. met'[c] = met[c]
    BY <2>1 DEF Disturb
  <2>3. Plain(c)' <=> Plain(c)
    BY <1>1, <2>2 DEF Plain
  <2>4. /\ DOMAIN new = Matching(c)
        /\ \A i \in Matching(c) : new[i] = Over(patch, table[i].rec) /\ new[i] \in Row
    BY <1>2, MatchingFinite, UpdatedTyped
  <2> HIDE DEF new, patched
  <2>5. CASE o # "ok"
    <3>1. pc'[c] = "done" /\ ret'[c].err = o
      BY <2>1, <2>5, AnswerIs
    <3>2. o # "nil"
      BY OutcomeTyped
    <3>3. ASSUME Plain(c), "gone" \notin met[c], Violates(c) PROVE "joined" \in met[c]
      <4> SUFFICES ASSUME "joined" \notin met[c] PROVE FALSE
        OBVIOUS
      <4>1. PICK i \in Matching(c) : Matching(c) = {i}
        BY <1>1, <3>3 DEF Own, Upserting
      <4>2. ~(Cardinality(Matching(c)) > 1)
        <5>1. Cardinality(Matching(c)) = 1
          BY <4>1, FS_Singleton
        <5> QED BY <5>1
      <4>3. PICK j \in DOMAIN table : /\ unique /\ table[j].tx \in {None, c}
                                      /\ table[j].rec["k"] \in NextKeys(c) /\ j \notin Matching(c)
        BY <1>1, <3>3, <4>2 DEF Violates
      <4>4. "k" \in DOMAIN patch /\ table[j].rec["k"] = patch["k"]
        BY <1>1, <4>3 DEF NextKeys
      <4>5. DOMAIN req[c].where = {"k"} /\ Agree(patch, req[c].where)
        BY <3>3, <4>3 DEF Plain
      <4>6. table[j].rec["k"] = req[c].where["k"]
        BY <4>4, <4>5 DEF Agree
      <4> QED BY <4>3, <4>5, <4>6 DEF Matching, Seen, Matches
    <3>4. ASSUME Plain(c), "gone" \notin met[c], ~hit'[c]
          PROVE  "joined" \in met[c] /\ made'[c] = 0 /\ wrote'[c] = Empty
      <4>1. o = "constraint" /\ Violates(c)
        BY <1>1, <2>1, <2>5, <3>4, Unhindered
      <4>2. made[c] = 0 /\ wrote[c] = Empty
        BY <1>1, <3>4 DEF Own, Upserting
      <4>3. wrote'[c] = wrote[c]
        BY <2>1, <4>1 DEF Effective, Typed
      <4> QED BY <1>1, <3>3, <3>4, <4>1, <4>2, <4>3
    <3>5. Answers(c)'
      BY <2>2, <2>3, <3>1, <3>2, <3>4 DEF Answers
    <3> QED BY <1>1, <1>2, <3>1, <3>2, <3>5
         DEF Own, Controlled, Counted, Foreseen, Upserting, Accounts, Returned, Done, BulkOps
  <2>6. CASE o = "ok" /\ req[c].op = "updateMany"
    <3>1. pc'[c] = "done"
      BY <2>1, <2>6, AnswerIs
    <3> QED BY <1>1, <1>2, <2>6, <3>1
         DEF Own, Controlled, Counted, Foreseen, Upserting, Accounts, Returned, Answers, Plain, Done, BulkOps
  <2>7. CASE o = "ok" /\ req[c].op = "updateManyAndReturn"
    <3>1. pc'[c] = "done" /\ ret'[c].recs = IF returning THEN new ELSE patched
      BY <2>1, <2>7, AnswerIs
    <3>2. wrote'[c] = new
      BY <2>1, <2>7 DEF Effective, Typed
    <3>3. ASSUME ~returning, met[c] \cap {"gone", "joined"} = {}
          PROVE  /\ DOMAIN patched = DOMAIN new
                 /\ \A i \in DOMAIN new : \A col \in DOMAIN patched[i] : patched[i][col] = new[i][col]
      <4>1. /\ DOMAIN found[c] = Matching(c)
            /\ \A i \in Matching(c) : Matches(found[c][i], req[c].where)
        BY <1>1, <2>7, <3>3 DEF Own, Foreseen
      <4>2. \A i \in Matching(c), col \in DOMAIN req[c].where : found[c][i][col] = table[i].rec[col]
        BY <4>1 DEF Matching, Seen, Matches
      <4>3. /\ patched \in Answered /\ DOMAIN patched = DOMAIN found[c]
            /\ \A i \in DOMAIN patched : \A col \in DOMAIN patched[i] :
                 /\ col \in DOMAIN patch \cup DOMAIN req[c].where
                 /\ patched[i][col] = IF col \in DOMAIN patch THEN patch[col] ELSE found[c][i][col]
        BY <1>2, PatchedTyped DEF patched, Typed, RequestType
      <4>4. \A i \in DOMAIN patched : DOMAIN patched[i] \subseteq Columns
        <5>1. PICK S \in SUBSET Nat : patched \in [S -> Read]
          BY <4>3 DEF Answered
        <5>2. \A r \in Read : DOMAIN r \subseteq Columns
          BY DEF Read
        <5> QED BY <5>1, <5>2
      <4>5. ASSUME NEW i \in Matching(c), NEW col \in Columns
            PROVE  new[i][col] = IF col \in DOMAIN patch THEN patch[col] ELSE table[i].rec[col]
        <5>1. table[i].rec \in Row
          BY MatchingFinite DEF Typed, TableTyped
        <5> QED BY <1>2, <2>4, <5>1, OverRow
      <4> QED BY <2>4, <4>1, <4>2, <4>3, <4>4, <4>5
    <3>4. Returned(c)'
      BY <1>1, <2>2, <3>1, <3>2, <3>3 DEF Returned
    <3> QED BY <1>1, <1>2, <2>7, <3>1, <3>4
         DEF Own, Controlled, Counted, Foreseen, Upserting, Accounts, Answers, Plain, Done, BulkOps
  <2>8. CASE o = "ok" /\ req[c].op = "upsert"
    <3>1. pc'[c] = "reread"
      BY <2>1, <2>8, GotoIs
    <3>2. ASSUME Plain(c), "gone" \notin met[c]
          PROVE  \E i \in Matching(c)' : Result(c, i)' /\ ("joined" \notin met[c] => Matching(c)' = {i})
      <4>1. PICK i \in Matching(c) : /\ DOMAIN found[c] = {i} /\ made[c] = 0
                                     /\ "joined" \notin met[c] => Matching(c) = {i}
                                     /\ "changed" \notin met[c] => found[c][i] = table[i].rec
        BY <1>1, <3>2 DEF Own, Upserting
      <4>2. /\ table' = [j \in DOMAIN table |->
                          IF j \in Matching(c) THEN [table[j] EXCEPT !.rec = new[j]] ELSE table[j]]
            /\ wrote'[c] = new
        BY <2>1, <2>8 DEF Effective, Typed
      <4>3. \A j \in Matching(c) : /\ j \in DOMAIN table /\ table[j] \in [rec : Row, tx : Calls \cup {None}]
                                    /\ table[j].tx \in {None, c}
        BY DEF Typed, TableTyped, Matching, Seen
      <4>4. /\ DOMAIN table' = DOMAIN table
            /\ \A j \in Matching(c) : table'[j].rec = new[j] /\ table'[j].tx = table[j].tx
            /\ \A j \in DOMAIN table \ Matching(c) : table'[j] = table[j]
        BY <4>2, <4>3
      <4>5. ASSUME NEW j \in Matching(c)
            PROVE  /\ \A col \in DOMAIN patch : new[j][col] = patch[col]
                   /\ \A col \in Columns \ DOMAIN patch : new[j][col] = table[j].rec[col]
        BY <1>2, <2>4, <4>3, <4>5, OverRow
      <4>6. ASSUME NEW j \in Matching(c), NEW col \in DOMAIN req[c].where
            PROVE  new[j][col] = req[c].where[col]
        <5>1. Agree(patch, req[c].where)
          BY <3>2 DEF Plain
        <5>2. DOMAIN req[c].where \subseteq Columns
          BY <1>2 DEF RequestType, Given
        <5>3. table[j].rec[col] = req[c].where[col]
          BY <4>6 DEF Matching, Seen, Matches
        <5> QED BY <4>5, <4>6, <5>1, <5>2, <5>3 DEF Agree
      <4>7. Matching(c)' = Matching(c)
        <5>1. \A j \in Matching(c) : j \in Matching(c)'
          BY <1>1, <4>3, <4>4, <4>6 DEF Matching, Seen, Matches
        <5>2. \A j \in DOMAIN table \ Matching(c) : j \notin Matching(c)'
          BY <1>1, <4>4 DEF Matching, Seen, Matches
        <5>3. Matching(c)' \subseteq DOMAIN table
          BY <4>4 DEF Matching, Seen
        <5> QED BY <5>1, <5>2, <5>3
      <4>8. Agree(new[i], patch)
        BY <4>1, <4>5 DEF Agree
      <4>9. Result(c, i)'
        BY <1>1, <2>2, <2>4, <4>1, <4>2, <4>4, <4>5, <4>7, <4>8 DEF Result
      <4> QED BY <4>1, <4>7, <4>9
    <3>3. Upserting(c)'
      BY <2>2, <2>3, <3>1, <3>2 DEF Upserting
    <3> QED BY <1>1, <1>2, <2>8, <3>1, <3>3
         DEF Own, Controlled, Counted, Foreseen, Accounts, Returned, Answers, Done, BulkOps
  <2> QED BY <1>2, <2>5, <2>6, <2>7, <2>8
<1> QED BY <1>3, <1>4

\* A delete answers by itself.
LEMMA DeleteOwn ==
  ASSUME Typed, NEW c \in Calls, Delete(c), Own(c)
  PROVE  Own(c)'
<1>1. PICK o \in Outcomes(c) :
        Answer(c, ErrOf(o), IF o = "ok" THEN Cardinality(Matching(c)) ELSE 0, Empty)
  BY DEF Delete
<1>2. pc[c] = "delete" /\ req' = req
  BY DEF Delete, Fixed
<1>3. pc'[c] = "done"
  BY <1>1, AnswerIs
<1>4. req[c] \in RequestType /\ req[c].op = "delete"
  BY <1>2 DEF Own, Controlled
<1> QED BY <1>2, <1>3, <1>4
     DEF Own, Controlled, Counted, Foreseen, Upserting, Accounts, Returned, Answers, Plain, Done, BulkOps

\* The only record is the record of its id.
LEMMA OnlyOne ==
  ASSUME NEW recs, NEW i, DOMAIN recs = {i}
  PROVE  Only(recs) = recs[i]
<1>1. (CHOOSE j \in DOMAIN recs : TRUE) = i
  OBVIOUS
<1> QED BY <1>1 DEF Only

\* The last query answers with the row of the Where.
LEMMA RereadOwn ==
  ASSUME Typed, Owners, NEW c \in Calls, Reread(c), Own(c)
  PROVE  Own(c)'
<1>1. PICK o \in Outcomes(c) :
        /\ Faulted(c, o)
        /\ IF o # "ok" THEN Answer(c, o, 0, Empty)
           ELSE IF Cardinality(Matching(c)) = 0 THEN Answer(c, "notfound", 0, Empty)
           ELSE IF Cardinality(Matching(c)) > 1 THEN Answer(c, "nonunique", 0, Empty)
           ELSE Answer(c, "nil", 0, Records(Matching(c)))
  BY DEF Reread, Query
<1>2. /\ pc[c] = "reread"
      /\ UNCHANGED <<unique, returning, req, mode, found, made, wrote, met>>
  BY DEF Reread, Query, Fixed
<1>3. req[c] \in RequestType /\ req[c].op = "upsert"
  BY <1>2 DEF Own, Controlled
<1>4. pc'[c] = "done"
  BY <1>1, AnswerIs
<1>5. Plain(c)' <=> Plain(c)
  BY <1>2 DEF Plain
<1>6. CASE o # "ok"
  <2>1. hit'[c] /\ ret'[c].err = o /\ o # "nil"
    BY <1>1, <1>2, <1>6, QueryViolatesNothing, Unhindered, AnswerIs, OutcomeTyped
  <2> QED BY <1>2, <1>3, <1>4, <2>1
       DEF Own, Controlled, Counted, Foreseen, Upserting, Accounts, Returned, Answers, Done, BulkOps
<1>7. CASE o = "ok"
  <2>1. ASSUME Plain(c), "gone" \notin met[c] PROVE Answers(c)'
    <3>1. PICK i \in Matching(c) : Result(c, i) /\ ("joined" \notin met[c] => Matching(c) = {i})
      BY <1>2, <2>1 DEF Own, Upserting
    <3>2. IsFiniteSet(Matching(c)) /\ Cardinality(Matching(c)) \in Nat /\ Cardinality(Matching(c)) # 0
      BY <3>1, MatchingFinite, FS_EmptySet
    <3>3. CASE Cardinality(Matching(c)) > 1
      <4>1. ret'[c].err = "nonunique"
        BY <1>1, <1>7, <3>2, <3>3, AnswerIs
      <4>2. "joined" \in met[c]
        <5>1. Cardinality({i}) = 1
          BY FS_Singleton
        <5>2. Matching(c) # {i}
          BY <3>3, <5>1
        <5> QED BY <3>1, <5>2
      <4> QED BY <1>2, <4>1, <4>2 DEF Answers
    <3>4. CASE ~(Cardinality(Matching(c)) > 1)
      <4>1. Matching(c) = {i}
        <5>1. Cardinality(Matching(c)) = 1
          BY <3>2, <3>4
        <5> QED BY <3>1, <3>2, <5>1, OneRow
      <4>2. ret'[c].err = "nil" /\ ret'[c].recs = Records({i})
        BY <1>1, <1>7, <3>2, <3>4, <4>1, AnswerIs
      <4>3. DOMAIN ret'[c].recs = {i} /\ ret'[c].recs[i] = table[i].rec
        BY <4>2 DEF Records
      <4>4. Only(ret'[c].recs) = table[i].rec
        BY <4>3, OnlyOne
      <4>5. CASE found[c] = Empty
        <5>1. DOMAIN found[c] = {}
          BY <4>5, EmptyTyped
        <5>2. /\ made[c] = 1 /\ DOMAIN wrote[c] = {i}
              /\ "changed" \notin met[c] =>
                   Agree(table[i].rec, req[c].create) /\ Agree(table[i].rec, req[c].where)
          BY <3>1, <5>1 DEF Result
        <5> QED BY <1>2, <4>2, <4>3, <4>4, <4>5, <5>2 DEF Answers
      <4>6. CASE found[c] # Empty
        <5>1. /\ made[c] = 0 /\ DOMAIN found[c] = {i}
              /\ req[c].patch # Empty => DOMAIN wrote[c] = {i}
              /\ "changed" \notin met[c] =>
                   /\ Agree(table[i].rec, req[c].patch)
                   /\ \A col \in Columns \ DOMAIN req[c].patch : table[i].rec[col] = found[c][i][col]
          BY <3>1, <4>1, <4>6 DEF Result
        <5>2. DOMAIN found[c][i] = Columns
          <6>1. PICK S \in SUBSET Nat : found[c] \in [S -> Row]
            BY DEF Typed, Rows
          <6> QED BY <5>1, <6>1 DEF Row
        <5>3. Only(found'[c]) = found[c][i]
          BY <1>2, <5>1, OnlyOne
        <5> QED BY <1>2, <4>2, <4>3, <4>4, <4>6, <5>1, <5>2, <5>3 DEF Answers
      <4> QED BY <4>5, <4>6
    <3> QED BY <3>3, <3>4
  <2>2. Answers(c)'
    BY <1>2, <1>5, <2>1 DEF Answers
  <2> QED BY <1>2, <1>3, <1>4, <2>2
       DEF Own, Controlled, Counted, Foreseen, Upserting, Accounts, Returned, Done, BulkOps
<1> QED BY <1>6, <1>7

----------------------------------------------------------------------------
(* Theorems.                                                                *)

\* No call has begun, and all rows are there for good.
LEMMA InitIInv == Init => IInv
<1> SUFFICES ASSUME Init PROVE IInv
  OBVIOUS
<1>1. PICK t \in Tables : /\ table = [i \in 1..Len(t) |-> [rec |-> t[i], tx |-> None]]
                          /\ nextId = Len(t) + 1
  BY DEF Init
<1>2. t \in Seq(Row)
  BY OrmTableAssumption
<1>3. TableTyped
  <2>1. Len(t) \in Nat /\ \A i \in 1..Len(t) : t[i] \in Row
    BY <1>2
  <2> QED BY <1>1, <2>1 DEF TableTyped
<1>4. NoAnswer \in [err : Errors, count : Nat, recs : Answered]
  BY EmptyTyped DEF NoAnswer, Errors
<1>5. Typed
  BY <1>3, <1>4, EmptyTyped DEF Init, Typed, Labels
<1>6. Owners
  BY <1>1 DEF Owners
<1>7. ASSUME NEW c \in Calls PROVE Own(c)
  <2>1. /\ pc[c] = "idle" /\ req[c] = NoRequest /\ mode[c] = "direct" /\ made[c] = 0
        /\ found[c] = Empty /\ ret[c] = NoAnswer /\ wrote[c] = Empty
    BY DEF Init
  <2> QED BY <2>1 DEF Own, Controlled, Counted, Foreseen, Upserting, Accounts, Returned, Answers,
                  Plain, Done, NoRequest
<1> QED BY <1>5, <1>6, <1>7 DEF IInv

\* Every step of every call keeps it.
LEMMA NextIInv == IInv /\ [Next]_vars => IInv'
<1> SUFFICES ASSUME IInv, [Next]_vars PROVE IInv'
  OBVIOUS
<1>1. CASE UNCHANGED vars
  <2>1. /\ UNCHANGED <<unique, returning, table, nextId, faults, pc, req, mode, found, ret>>
        /\ UNCHANGED <<made, wrote, met, hit>>
    BY <1>1 DEF vars, data, ghost
  <2>2. Typed' /\ Owners'
    BY <2>1 DEF IInv, Typed, TableTyped, Owners
  <2>3. ASSUME NEW c \in Calls PROVE Own(c)'
    <3>1. Own(c) /\ (Plain(c)' <=> Plain(c))
      BY <2>1 DEF IInv, Plain
    <3>2. Matching(c)' = Matching(c) /\ \A S : Records(S)' = Records(S)
      BY <2>1 DEF Matching, Seen, Records
    <3>3. Controlled(c)' /\ Counted(c)'
      BY <2>1, <3>1 DEF Own, Controlled, Counted
    <3>4. Foreseen(c)' /\ Upserting(c)'
      BY <2>1, <3>1, <3>2 DEF Own, Foreseen, Upserting, Result, Matches
    <3>5. Accounts(c)' /\ Returned(c)'
      BY <2>1, <3>1 DEF Own, Accounts, Returned, Done
    <3>6. Answers(c)'
      BY <2>1, <3>1 DEF Own, Answers
    <3> QED BY <3>3, <3>4, <3>5, <3>6 DEF Own
  <2> QED BY <2>2, <2>3 DEF IInv
<1>2. ASSUME NEW c \in Calls, Start(c) \/ Step(c) PROVE IInv'
  <2>1. Typed /\ Owners /\ \A d \in Calls : Own(d)
    BY DEF IInv
  <2>2. Typed'
    BY <1>2, <2>1, TypedKept DEF Own
  <2>3. Owners'
    BY <1>2, <2>1, OwnersKept
  <2>4. Own(c)'
    BY <1>2, <2>1, StartOwn, BeginOwn, InsertOwn, RollbackOwn, CommitOwn, FindOwn, CreateOwn,
       UpdateOwn, DeleteOwn, RereadOwn DEF Step
  <2>5. ASSUME NEW d \in Calls, d # c PROVE Own(d)'
    BY <1>2, <2>1, <2>5, BesideKept
  <2> QED BY <2>2, <2>3, <2>4, <2>5 DEF IInv
<1> QED BY <1>1, <1>2 DEF Next

\* IInv is an invariant of the operations.
THEOREM Invariance == Spec => []IInv
BY InitIInv, NextIInv, PTL DEF Spec

\* CreateMany and CreateManyAndReturn, with a transaction and without, account
\* for the rows they have stored.
THEOREM BulkInsertsAccount == Spec => []CreateManyAccounts
<1>1. IInv => CreateManyAccounts
  BY DEF IInv, Own, CreateManyAccounts
<1> QED BY <1>1, Invariance, PTL

\* UpdateManyAndReturn answers with what it has changed: with RETURNING always, without
\* it as long as no other call adds rows to its Where or takes some away.
THEOREM UpdatesAreReturned == Spec => []ReturnedAreUpdated
<1>1. IInv => ReturnedAreUpdated
  BY DEF IInv, Own, ReturnedAreUpdated
<1> QED BY <1>1, Invariance, PTL

\* Upsert answers with the row it has inserted or found and updated, whatever other
\* calls write meanwhile, unless one takes the row away or puts another beside it.
THEOREM UpsertFindsItsRow == Spec => []UpsertAnswers
<1>1. IInv => UpsertAnswers
  BY DEF IInv, Own, UpsertAnswers
<1> QED BY <1>1, Invariance, PTL

----------------------------------------------------------------------------
(* The query builder                                                        *)

\* A set of numbers has a least one.
LEMMA LeastNumber ==
  ASSUME NEW T, T \subseteq Nat, T # {}
  PROVE  \E x \in T : \A y \in T : x <= y
<1>1. PICK R : R = OpToRel(<, Nat)
  OBVIOUS
<1>2. IsWellFoundedOn(R, Nat)
  BY <1>1, NatLessThanWellFounded
<1>3. PICK x \in T : \A y \in T : ~(<<y, x>> \in R)
  BY <1>2, WFMin
<1>4. x \in Nat /\ \A y \in T : y \in Nat /\ (<<y, x>> \in R <=> y < x)
  BY <1>1 DEF OpToRel
<1>5. ASSUME NEW y \in T PROVE x <= y
  <2>1. x \in Nat /\ y \in Nat /\ ~(y < x)
    BY <1>3, <1>4
  <2> QED BY <2>1
<1> QED BY <1>5

\* The k-th of a finite set of numbers, of which k-1 are smaller, exists.
LEMMA Ranks ==
  ASSUME NEW I, I \subseteq Nat, IsFiniteSet(I)
  PROVE  /\ Cardinality(I) \in Nat
         /\ \A k \in 1..Cardinality(I) : \E i \in I : Cardinality({j \in I : j < i}) = k - 1
         /\ \A i \in I : Cardinality({j \in I : j < i}) + 1 \in 1..Cardinality(I)
         /\ \A i, h \in I : Cardinality({j \in I : j < i}) = Cardinality({j \in I : j < h}) => i = h
<1> DEFINE n == Cardinality(I)
           Below(i) == {j \in I : j < i}
           rank == [i \in I |-> Cardinality(Below(i))]
<1>1. n \in Nat /\ IsFiniteSet(0..(n-1)) /\ Cardinality(0..(n-1)) = n
  <2>1. n \in Nat
    BY FS_CardinalityType
  <2> HIDE DEF n
  <2> QED BY <2>1, FS_Interval
<1>2. ASSUME NEW i \in I, NEW T, T \subseteq I, Below(i) \subseteq T, i \in T
      PROVE  rank[i] \in Nat /\ Cardinality(T) \in Nat /\ rank[i] < Cardinality(T)
  <2> DEFINE B == Below(i)
  <2>1. rank[i] = Cardinality(B) /\ B # T
    BY <1>2
  <2>2. IsFiniteSet(T)
    BY <1>2, FS_Subset
  <2> HIDE DEF B, rank
  <2>3. IsFiniteSet(B) /\ Cardinality(B) <= Cardinality(T) /\ (Cardinality(T) = Cardinality(B) => T = B)
    BY <1>2, <2>2, FS_Subset DEF B
  <2>4. Cardinality(B) \in Nat /\ Cardinality(T) \in Nat
    BY <2>2, <2>3, FS_CardinalityType
  <2> QED BY <2>1, <2>3, <2>4
<1>3. ASSUME NEW i \in I PROVE rank[i] \in 0..(n-1)
  <2>1. rank[i] \in Nat /\ rank[i] < n
    BY <1>2
  <2> HIDE DEF n, rank
  <2> QED BY <1>1, <2>1
<1>4. ASSUME NEW i \in I, NEW h \in I, i < h PROVE rank[i] < rank[h]
  <2>1. Below(h) \subseteq I /\ Below(i) \subseteq Below(h) /\ i \in Below(h)
    <3>1. \A j \in I : j < i => j < h
      BY <1>4
    <3> QED BY <1>4, <3>1
  <2>2. rank[h] = Cardinality(Below(h))
    OBVIOUS
  <2> HIDE DEF rank, Below
  <2> QED BY <1>2, <2>1, <2>2
<1>5. \A i, h \in I : rank[i] = rank[h] => i = h
  <2> SUFFICES ASSUME NEW i \in I, NEW h \in I, rank[i] = rank[h], i # h PROVE FALSE
    OBVIOUS
  <2>1. i < h \/ h < i
    OBVIOUS
  <2> HIDE DEF rank
  <2> QED BY <1>1, <1>3, <1>4, <2>1
<1>6. rank \in Injection(I, 0..(n-1))
  BY <1>3, <1>5 DEF Injection, IsInjective
<1>7. \A k \in 0..(n-1) : \E i \in I : rank[i] = k
  <2> HIDE DEF n, rank
  <2>1. rank \in Surjection(I, 0..(n-1))
    BY <1>1, <1>6, FS_Injection DEF n
  <2> QED BY <2>1 DEF Surjection
<1>8. \A i \in I : rank[i] = Cardinality({j \in I : j < i})
  OBVIOUS
<1> HIDE DEF n, rank
<1>9. \A k \in 1..n : k - 1 \in 0..(n-1)
  BY <1>1
<1>10. \A r \in 0..(n-1) : r + 1 \in 1..n
  BY <1>1
<1>11. \A k \in 1..n : \E i \in I : Cardinality({j \in I : j < i}) = k - 1
  <2> TAKE k \in 1..n
  <2>1. PICK i \in I : rank[i] = k - 1
    BY <1>7, <1>9
  <2> QED BY <1>8, <2>1
<1>12. \A i \in I : Cardinality({j \in I : j < i}) + 1 \in 1..n
  <2> TAKE i \in I
  <2>1. rank[i] + 1 \in 1..n
    BY <1>3, <1>10
  <2> QED BY <1>8, <2>1
<1>13. \A i, h \in I : Cardinality({j \in I : j < i}) = Cardinality({j \in I : j < h}) => i = h
  BY <1>5, <1>8, Zenon
<1> QED BY <1>1, <1>11, <1>12, <1>13 DEF n

\* A list is a sequence of its elements.
IsList(s) == s \in Seq(Range(s))

\* SortedKeys lists the keys of a map, each once.
LEMMA KeysSorted ==
  ASSUME NEW f, DOMAIN f \subseteq Range(KeyOrder)
  PROVE  /\ Len(SortedKeys(f)) \in Nat /\ Len(SortedKeys(f)) = Cardinality(DOMAIN f)
         /\ DOMAIN SortedKeys(f) = 1..Len(SortedKeys(f))
         /\ Range(SortedKeys(f)) = DOMAIN f
<1> DEFINE I == {i \in DOMAIN KeyOrder : KeyOrder[i] \in DOMAIN f}
           n == Cardinality(I)
           at(k) == CHOOSE i \in I : Cardinality({j \in I : j < i}) = k - 1
<1>1. /\ Len(KeyOrder) \in Nat /\ DOMAIN KeyOrder = 1..Len(KeyOrder)
      /\ \A i, j \in DOMAIN KeyOrder : KeyOrder[i] = KeyOrder[j] => i = j
  BY KeysAssumption
<1>2. I \subseteq Nat /\ IsFiniteSet(I)
  <2>1. IsFiniteSet(1..Len(KeyOrder))
    BY <1>1, FS_Interval
  <2>2. I \subseteq 1..Len(KeyOrder)
    BY <1>1
  <2> QED BY <1>1, <2>1, <2>2, FS_Subset
<1>3. SortedKeys(f) = [k \in 1..n |-> KeyOrder[at(k)]]
  BY DEF SortedKeys
<1>4. /\ n \in Nat
      /\ \A k \in 1..n : at(k) \in I
      /\ \A i \in I : \E k \in 1..n : at(k) = i
  <2> HIDE DEF I
  <2> DEFINE rank(i) == Cardinality({j \in I : j < i})
  <2>1. /\ n \in Nat
        /\ \A k \in 1..n : \E i \in I : rank(i) = k - 1
        /\ \A i \in I : rank(i) + 1 \in 1..n
        /\ \A i, h \in I : rank(i) = rank(h) => i = h
    BY <1>2, Ranks
  <2>2. \A k \in 1..n : at(k) \in I /\ rank(at(k)) = k - 1
    BY <2>1
  <2>3. ASSUME NEW i \in I PROVE \E k \in 1..n : at(k) = i
    <3> DEFINE k == rank(i) + 1
    <3> HIDE DEF at, n, rank
    <3>1. k \in 1..n /\ rank(at(k)) = k - 1 /\ at(k) \in I
      BY <2>1, <2>2
    <3>2. k - 1 = rank(i)
      <4>1. rank(i) \in Nat
        BY <1>2, FS_Subset, FS_CardinalityType DEF rank
      <4> QED BY <4>1
    <3>3. at(k) = i
      BY <2>1, <3>1, <3>2
    <3> QED BY <3>1, <3>3
  <2> QED BY <2>1, <2>2, <2>3
<1> HIDE DEF n, at
<1>5. DOMAIN SortedKeys(f) = 1..n /\ Len(SortedKeys(f)) = n
  BY <1>3, <1>4
<1>6. Range(SortedKeys(f)) = DOMAIN f
  <2>1. Range(SortedKeys(f)) = {KeyOrder[at(k)] : k \in 1..n}
    BY <1>3 DEF Range
  <2>2. {KeyOrder[at(k)] : k \in 1..n} = {KeyOrder[i] : i \in I}
    <3> HIDE DEF I
    <3> QED BY <1>4
  <2>3. {KeyOrder[i] : i \in I} = DOMAIN f
    BY DEF Range
  <2> QED BY <2>1, <2>2, <2>3
<1>7. n = Cardinality(DOMAIN f)
  <2> DEFINE g == [i \in I |-> KeyOrder[i]]
  <2>1. g \in Bijection(I, DOMAIN f)
    <3>1. \A i \in I : g[i] \in DOMAIN f
      OBVIOUS
    <3>2. \A i, j \in I : g[i] = g[j] => i = j
      BY <1>1
    <3>3. \A k \in DOMAIN f : \E i \in I : g[i] = k
      BY DEF Range
    <3> QED BY <3>1, <3>2, <3>3 DEF Bijection, Injection, Surjection, IsInjective
  <2> HIDE DEF I, g
  <2>2. \E h : h \in Bijection(I, DOMAIN f)
    BY <2>1
  <2> QED BY <1>2, <2>1, FS_Bijection DEF ExistsBijection, n
<1> QED BY <1>4, <1>5, <1>6, <1>7

----------------------------------------------------------------------------
(* Texts and their placeholders.                                            *)

\* The comparisons a text is made of.
Words == {"IS NULL", "IS NOT NULL", "=", "<>", "IN", "NOT IN", "<", "<=", ">", ">=", "LIKE",
          "= ''", "<> ''"}

Token == [t : {"compare"}, col : Identifiers, op : Words, phs : Seq(Nat)]
         \cup [t : {"AND", "OR", "NOT", "(", ")"}]

Numbers(tok) == IF tok.t = "compare" THEN tok.phs ELSE <<>>

\* f[i]: the placeholders of the first i tokens.
IsHolders(f, s) == f = [i \in 0..Len(s) |-> IF i = 0 THEN <<>> ELSE f[i - 1] \o Numbers(s[i])]

LEMMA OwnType ==
  ASSUME NEW tok \in Token
  PROVE  Numbers(tok) \in Seq(Nat)
<1>1. CASE tok \in [t : {"compare"}, col : Identifiers, op : Words, phs : Seq(Nat)]
  BY <1>1 DEF Numbers
<1>2. CASE tok \in [t : {"AND", "OR", "NOT", "(", ")"}]
  <2>1. tok.t # "compare"
    BY <1>2
  <2> QED BY <2>1 DEF Numbers
<1> QED BY <1>1, <1>2 DEF Token

\* The recursive function in Placeholders exists.
LEMMA HoldersExist ==
  ASSUME NEW s \in Seq(Token)
  PROVE  \E f : /\ IsHolders(f, s)
                /\ Placeholders(s) = f[Len(s)]
                /\ f \in [0..Len(s) -> Seq(Nat)]
<1> DEFINE n == Len(s)
           Is(f, m) == f = [i \in 0..m |-> IF i = 0 THEN <<>> ELSE f[i - 1] \o Numbers(s[i])]
           Bad == {m \in 0..n : ~\E f : Is(f, m)}
<1>n. n \in Nat
  OBVIOUS
<1>o. \A i \in 1..n : s[i] \in Token /\ Numbers(s[i]) \in Seq(Nat)
  <2>1. \A i \in 1..n : s[i] \in Token
    OBVIOUS
  <2> QED BY <2>1, OwnType
<1> HIDE DEF n
<1>1. Bad = {}
  <2>1. SUFFICES ASSUME Bad # {} PROVE FALSE
    OBVIOUS
  <2>2. Bad \subseteq Nat
    <3> HIDE DEF Is
    <3> QED BY <1>n
  <2>3. PICK m \in Bad : \A y \in Bad : m <= y
    <3> HIDE DEF Bad
    <3> QED BY <2>1, <2>2, LeastNumber
  <2>4. m \in 0..n /\ ~\E f : Is(f, m)
    BY <2>3
  <2>5. CASE m = 0
    <3>1. Is([i \in 0..0 |-> <<>>], 0)
      OBVIOUS
    <3> QED BY <2>4, <2>5, <3>1
  <2>6. CASE m # 0
    <3>1. m - 1 \in 0..n /\ m - 1 \notin Bad
      <4> HIDE DEF Bad
      <4>1. m \in Nat /\ m - 1 \in 0..n /\ ~(m <= m - 1)
        BY <1>n, <2>4, <2>6
      <4> QED BY <2>3, <4>1
    <3>2. PICK f : Is(f, m - 1)
      BY <3>1
    <3> DEFINE g == [i \in 0..m |-> IF i = m THEN f[m - 1] \o Numbers(s[m]) ELSE f[i]]
    <3>3. ASSUME NEW i \in 0..m PROVE g[i] = IF i = 0 THEN <<>> ELSE g[i - 1] \o Numbers(s[i])
      <4>1. CASE i = m
        <5>1. i - 1 \in 0..m /\ i - 1 # m /\ i # 0
          BY <1>n, <2>4, <2>6, <4>1
        <5>2. g[i - 1] = f[m - 1]
          BY <4>1, <5>1
        <5> QED BY <4>1, <5>1, <5>2
      <4>2. CASE i # m
        <5>1. i \in 0..m - 1 /\ (i # 0 => i - 1 \in 0..m /\ i - 1 # m)
          BY <1>n, <2>4, <4>2
        <5>2. g[i] = f[i] /\ (i # 0 => g[i - 1] = f[i - 1])
          BY <4>2, <5>1
        <5>3. f[i] = IF i = 0 THEN <<>> ELSE f[i - 1] \o Numbers(s[i])
          BY <3>2, <5>1
        <5> QED BY <5>2, <5>3
      <4> QED BY <4>1, <4>2
    <3>4. Is(g, m)
      BY <3>3
    <3> QED BY <2>4, <3>4
  <2> QED BY <2>5, <2>6
<1>2. \E f : Is(f, n)
  <2> HIDE DEF Is
  <2>1. n \in 0..n
    BY <1>n
  <2> QED BY <1>1, <2>1
<1>3. PICK f : Is(f, n) /\ Placeholders(s) = f[n]
  <2>1. Placeholders(s) = (CHOOSE f : Is(f, n))[n]
    BY DEF Placeholders, Numbers, n
  <2> QED BY <1>2, <2>1
<1>4. \A i \in 0..n : f[i] = IF i = 0 THEN <<>> ELSE f[i - 1] \o Numbers(s[i])
  BY <1>3
<1>5. \A i \in 0..n : f[i] \in Seq(Nat)
  <2> DEFINE T == {i \in 0..n : f[i] \notin Seq(Nat)}
  <2>1. SUFFICES ASSUME T # {} PROVE FALSE
    OBVIOUS
  <2>2. PICK i \in T : \A y \in T : i <= y
    <3>1. T \subseteq Nat
      BY <1>n
    <3> HIDE DEF T
    <3> QED BY <2>1, <3>1, LeastNumber
  <2>3. i # 0
    <3>1. i \in 0..n /\ f[i] \notin Seq(Nat) /\ <<>> \in Seq(Nat)
      BY <2>2
    <3> QED BY <1>4, <3>1
  <2>4. i - 1 \in 0..n /\ i \in 1..n /\ ~(i <= i - 1)
    BY <1>n, <2>2, <2>3
  <2>5. f[i - 1] \in Seq(Nat)
    BY <2>2, <2>4
  <2>6. f[i] = f[i - 1] \o Numbers(s[i])
    BY <1>4, <2>2, <2>3
  <2>7. f[i] \in Seq(Nat)
    BY <1>o, <2>4, <2>5, <2>6
  <2> QED BY <2>2, <2>7
<1>6. f \in [0..n -> Seq(Nat)]
  BY <1>3, <1>5
<1> QED BY <1>3, <1>6 DEF IsHolders, n

LEMMA HoldersType ==
  ASSUME NEW s \in Seq(Token)
  PROVE  Placeholders(s) \in Seq(Nat)
<1>1. PICK f : Placeholders(s) = f[Len(s)] /\ f \in [0..Len(s) -> Seq(Nat)]
  BY HoldersExist
<1>2. Len(s) \in 0..Len(s)
  OBVIOUS
<1> QED BY <1>1, <1>2

LEMMA Associative ==
  ASSUME NEW p \in Seq(Nat), NEW q \in Seq(Nat), NEW r \in Seq(Nat)
  PROVE  (p \o q) \o r = p \o (q \o r)
<1>1. /\ (p \o q) \o r \in Seq(Nat) /\ p \o (q \o r) \in Seq(Nat)
      /\ Len((p \o q) \o r) = Len(p) + Len(q) + Len(r)
      /\ Len(p \o (q \o r)) = Len(p) + Len(q) + Len(r)
  OBVIOUS
<1>2. ASSUME NEW i \in 1..Len(p) + Len(q) + Len(r)
      PROVE  ((p \o q) \o r)[i] = (p \o (q \o r))[i]
  OBVIOUS
<1> DEFINE a == (p \o q) \o r
           b == p \o (q \o r)
<1>3. a \in Seq(Nat) /\ b \in Seq(Nat) /\ Len(a) = Len(b) /\ \A i \in 1..Len(a) : a[i] = b[i]
  BY <1>1, <1>2
<1> HIDE DEF a, b
<1>4. a = b
  BY <1>3, SeqEqual
<1> QED BY <1>4 DEF a, b

\* The placeholders of two texts, one after the other.
LEMMA HoldersConcat ==
  ASSUME NEW a \in Seq(Token), NEW b \in Seq(Token)
  PROVE  Placeholders(a \o b) = Placeholders(a) \o Placeholders(b)
<1> DEFINE m == Len(a)
           n == Len(b)
           c == a \o b
<1>0. /\ m \in Nat /\ n \in Nat /\ c \in Seq(Token) /\ Len(c) = m + n
      /\ \A i \in 1..m : c[i] = a[i]
      /\ \A j \in 1..n : c[m + j] = b[j]
  OBVIOUS
<1>1. PICK f : IsHolders(f, a) /\ Placeholders(a) = f[m] /\ f \in [0..m -> Seq(Nat)]
  BY HoldersExist
<1>2. PICK g : IsHolders(g, b) /\ Placeholders(b) = g[n] /\ g \in [0..n -> Seq(Nat)]
  BY HoldersExist
<1>3. PICK h : /\ IsHolders(h, c) /\ Placeholders(c) = h[m + n] /\ h \in [0..(m + n) -> Seq(Nat)]
  <2> HIDE DEF c
  <2> QED BY <1>0, HoldersExist
<1>4. \A i \in 0..m : f[i] = IF i = 0 THEN <<>> ELSE f[i - 1] \o Numbers(a[i])
  BY <1>1 DEF IsHolders
<1>5. \A i \in 0..n : g[i] = IF i = 0 THEN <<>> ELSE g[i - 1] \o Numbers(b[i])
  BY <1>2 DEF IsHolders
<1>6. \A i \in 0..(m + n) : h[i] = IF i = 0 THEN <<>> ELSE h[i - 1] \o Numbers(c[i])
  <2> HIDE DEF c
  <2> QED BY <1>0, <1>3 DEF IsHolders
<1>o. \A j \in 1..n : Numbers(b[j]) \in Seq(Nat)
  <2>1. \A j \in 1..n : b[j] \in Token
    OBVIOUS
  <2> QED BY <2>1, OwnType
<1> HIDE DEF m, n, c
<1>7. \A i \in 0..m : h[i] = f[i]
  <2> DEFINE T == {i \in 0..m : h[i] # f[i]}
  <2>1. SUFFICES ASSUME T # {} PROVE FALSE
    OBVIOUS
  <2>2. PICK i \in T : \A y \in T : i <= y
    <3>1. T \subseteq Nat
      BY <1>0
    <3> HIDE DEF T
    <3> QED BY <2>1, <3>1, LeastNumber
  <2>3. i \in 0..m /\ i \in 0..(m + n)
    BY <1>0, <2>2
  <2>4. i # 0
    BY <1>4, <1>6, <2>2, <2>3
  <2>5. i - 1 \in 0..m /\ i \in 1..m /\ ~(i <= i - 1)
    BY <1>0, <2>3, <2>4
  <2>6. h[i - 1] = f[i - 1] /\ c[i] = a[i]
    BY <1>0, <2>2, <2>5
  <2> QED BY <1>4, <1>6, <2>2, <2>3, <2>4, <2>6
<1>8. \A j \in 0..n : h[m + j] = f[m] \o g[j]
  <2> DEFINE differs(j) == h[m + j] # f[m] \o g[j]
             T == {j \in 0..n : differs(j)}
  <2>1. SUFFICES ASSUME T # {} PROVE FALSE
    OBVIOUS
  <2>2. PICK j \in T : \A y \in T : j <= y
    <3>1. T \subseteq Nat
      <4> HIDE DEF differs
      <4> QED BY <1>0
    <3> HIDE DEF T
    <3> QED BY <2>1, <3>1, LeastNumber
  <2>3. j \in 0..n /\ m \in 0..m /\ f[m] \in Seq(Nat)
    BY <1>0, <1>1, <2>2
  <2>4. CASE j = 0
    <3>1. g[0] = <<>> /\ m + 0 = m /\ h[m] = f[m] /\ f[m] \o <<>> = f[m]
      BY <1>0, <1>5, <1>7, <2>3, <2>4
    <3> QED BY <2>2, <2>4, <3>1
  <2>5. CASE j # 0
    <3>1. j - 1 \in 0..n /\ j \in 1..n /\ ~(j <= j - 1) /\ m + j \in 0..(m + n) /\ m + j # 0
          /\ (m + j) - 1 = m + (j - 1)
      BY <1>0, <2>3, <2>5
    <3>2. h[m + (j - 1)] = f[m] \o g[j - 1]
      BY <2>2, <3>1
    <3>3. h[m + j] = h[(m + j) - 1] \o Numbers(c[m + j]) /\ c[m + j] = b[j]
      BY <1>0, <1>6, <3>1
    <3>4. g[j] = g[j - 1] \o Numbers(b[j])
      BY <1>5, <2>3, <2>5
    <3>5. g[j - 1] \in Seq(Nat) /\ Numbers(b[j]) \in Seq(Nat)
      BY <1>2, <1>o, <3>1
    <3>6. (f[m] \o g[j - 1]) \o Numbers(b[j]) = f[m] \o (g[j - 1] \o Numbers(b[j]))
      BY <2>3, <3>5, Associative, Zenon
    <3> QED BY <2>2, <3>1, <3>2, <3>3, <3>4, <3>6
  <2> QED BY <2>4, <2>5
<1>9. n \in 0..n
  BY <1>0
<1> QED BY <1>1, <1>2, <1>3, <1>8, <1>9 DEF c

LEMMA HoldersEmpty == Placeholders(<<>>) = <<>>
<1>1. <<>> \in Seq(Token) /\ Len(<<>>) = 0
  OBVIOUS
<1>2. PICK f : IsHolders(f, <<>>) /\ Placeholders(<<>>) = f[0]
  BY <1>1, HoldersExist
<1> QED BY <1>1, <1>2 DEF IsHolders

LEMMA HoldersOne ==
  ASSUME NEW tok \in Token
  PROVE  <<tok>> \in Seq(Token) /\ Placeholders(<<tok>>) = Numbers(tok)
<1>1. <<tok>> \in Seq(Token) /\ Len(<<tok>>) = 1 /\ <<tok>>[1] = tok
  OBVIOUS
<1>2. PICK f : IsHolders(f, <<tok>>) /\ Placeholders(<<tok>>) = f[1]
  BY <1>1, HoldersExist
<1>3. f[0] = <<>> /\ f[1] = f[0] \o Numbers(tok)
  BY <1>1, <1>2 DEF IsHolders
<1> QED BY <1>1, <1>2, <1>3, OwnType

----------------------------------------------------------------------------
(* Pieces.                                                                  *)

IsPiece(p) == p = [sql |-> p.sql, args |-> p.args, next |-> p.next, err |-> p.err]

\* The numbers of the placeholders of a piece that starts after start.
From(start, n) == [i \in 1..n |-> ph(start + i)]

\* A piece that was built has one placeholder for every argument, in order.
Sound(p, start) ==
    /\ p.sql \in Seq(Token)
    /\ IsList(p.args)
    /\ p.next = start + Len(p.args)
    /\ Placeholders(p.sql) = From(start, Len(p.args))

Good(p, start) == IsPiece(p) /\ (p.err = "" => Sound(p, start))

LEMMA ListParts ==
  ASSUME NEW s, IsList(s)
  PROVE  Len(s) \in Nat /\ DOMAIN s = 1..Len(s) /\ s = [i \in 1..Len(s) |-> s[i]]
BY DEF IsList

LEMMA SeqIsList ==
  ASSUME NEW S, NEW s \in Seq(S)
  PROVE  IsList(s)
<1>1. DOMAIN s = 1..Len(s) /\ Len(s) \in Nat /\ s = [i \in 1..Len(s) |-> s[i]]
  OBVIOUS
<1>2. \A i \in 1..Len(s) : s[i] \in Range(s)
  BY <1>1 DEF Range
<1>3. s \in Seq(Range(s))
  <2> DEFINE R == Range(s)
  <2> HIDE DEF R
  <2>1. \A i \in 1..Len(s) : s[i] \in R
    BY <1>2 DEF R
  <2>2. s \in Seq(R)
    BY <1>1, <2>1
  <2> QED BY <2>2 DEF R
<1> QED BY <1>3 DEF IsList

LEMMA ListConcat ==
  ASSUME NEW a, NEW b, IsList(a), IsList(b)
  PROVE  /\ IsList(a \o b)
         /\ Len(a \o b) = Len(a) + Len(b)
         /\ \A i \in 1..Len(a) : (a \o b)[i] = a[i]
         /\ \A j \in 1..Len(b) : (a \o b)[Len(a) + j] = b[j]
<1> DEFINE S == Range(a) \cup Range(b)
<1>1. a \in Seq(S) /\ b \in Seq(S)
  <2>1. a \in Seq(Range(a)) /\ b \in Seq(Range(b))
    BY DEF IsList
  <2>2. Range(a) \subseteq S /\ Range(b) \subseteq S
    OBVIOUS
  <2> HIDE DEF S
  <2> QED BY <2>1, <2>2, SeqMonotonic
<1> HIDE DEF S
<1>2. a \o b \in Seq(S) /\ Len(a \o b) = Len(a) + Len(b)
      /\ \A i \in 1..Len(a) : (a \o b)[i] = a[i]
      /\ \A j \in 1..Len(b) : (a \o b)[Len(a) + j] = b[j]
  BY <1>1
<1>3. IsList(a \o b)
  <2> DEFINE c == a \o b
  <2>1. c \in Seq(S)
    BY <1>2
  <2> HIDE DEF c
  <2>2. c \in Seq(Range(c))
    BY <2>1 DEF Range
  <2> QED BY <2>2 DEF IsList, c
<1> QED BY <1>2, <1>3

LEMMA PhType ==
  ASSUME NEW n \in Nat
  PROVE  ph(n) \in Nat
BY DEF ph

LEMMA FromType ==
  ASSUME NEW start \in Nat, NEW n \in Nat
  PROVE  From(start, n) \in Seq(Nat) /\ Len(From(start, n)) = n
<1>1. \A i \in 1..n : ph(start + i) \in Nat
  BY PhType
<1> QED BY <1>1 DEF From

LEMMA FromConcat ==
  ASSUME NEW start \in Nat, NEW m \in Nat, NEW n \in Nat
  PROVE  From(start, m) \o From(start + m, n) = From(start, m + n)
<1> DEFINE a == From(start, m)
           b == From(start + m, n)
           c == From(start, m + n)
<1>0. start + m \in Nat /\ m + n \in Nat
  OBVIOUS
<1>1. a \in Seq(Nat) /\ b \in Seq(Nat) /\ c \in Seq(Nat) /\ Len(a) = m /\ Len(b) = n /\ Len(c) = m + n
  BY <1>0, FromType, Zenon
<1>2. /\ \A i \in 1..m : a[i] = ph(start + i)
      /\ \A i \in 1..n : b[i] = ph(start + m + i)
      /\ \A i \in 1..m + n : c[i] = ph(start + i)
  BY DEF From
<1> HIDE DEF a, b, c
<1>t. /\ a \o b \in Seq(Nat) /\ Len(a \o b) = Len(a) + Len(b)
      /\ \A i \in 1..Len(a) : (a \o b)[i] = a[i]
      /\ \A j \in 1..Len(b) : (a \o b)[Len(a) + j] = b[j]
  <2>1. a \in Seq(Nat) /\ b \in Seq(Nat)
    BY <1>1
  <2> QED BY <2>1
<1>3. a \o b \in Seq(Nat) /\ Len(a \o b) = m + n
  BY <1>1, <1>t, Zenon
<1>4. ASSUME NEW i \in 1..m + n PROVE (a \o b)[i] = c[i]
  <2>1. CASE i <= m
    <3>1. i \in 1..m /\ (a \o b)[i] = a[i]
      BY <1>1, <2>1
    <3> QED BY <1>2, <3>1
  <2>2. CASE ~(i <= m)
    <3> DEFINE j == i - m
    <3>1. j \in 1..n /\ i = m + j /\ start + m + j = start + i
      BY <2>2
    <3> HIDE DEF j
    <3>2. (a \o b)[i] = b[j]
      BY <1>1, <1>t, <3>1, Zenon
    <3> QED BY <1>2, <3>1, <3>2
  <2> QED BY <2>1, <2>2
<1>5. a \o b = c
  <2> DEFINE d == a \o b
  <2>1. d \in Seq(Nat) /\ Len(d) = Len(c) /\ \A i \in 1..Len(c) : d[i] = c[i]
    BY <1>1, <1>3, <1>4
  <2> HIDE DEF d
  <2> QED BY <1>1, <2>1, SeqEqual DEF d
<1> QED BY <1>5 DEF a, b, c

LEMMA FromNone ==
  ASSUME NEW start
  PROVE  From(start, 0) = <<>>
BY DEF From

\* A piece without text has no arguments.
LEMMA NoText ==
  ASSUME NEW p, NEW start \in Nat, Sound(p, start), p.sql = <<>>
  PROVE  Len(p.args) = 0 /\ p.next = start
<1>1. Placeholders(<<>>) = From(start, Len(p.args)) /\ Len(p.args) \in Nat /\ p.next = start + Len(p.args)
  BY ListParts DEF Sound
<1>2. Len(From(start, Len(p.args))) = Len(p.args)
  BY <1>1, FromType
<1>3. Len(<<>>) = 0
  OBVIOUS
<1>4. Len(p.args) = 0
  BY <1>1, <1>2, <1>3, HoldersEmpty
<1> QED BY <1>1, <1>4

LEMMA FailGood ==
  ASSUME NEW e, e # "", NEW start
  PROVE  Good(Fail(e), start)
BY DEF Good, IsPiece, Fail

\* A text, its arguments and the number of the last one make a good piece.
LEMMA PieceGood ==
  ASSUME NEW sql \in Seq(Token), NEW args, IsList(args), NEW start,
         Placeholders(sql) = From(start, Len(args))
  PROVE  Good(Piece(sql, args, start + Len(args)), start)
BY DEF Good, IsPiece, Sound, Piece

LEMMA CompareGood ==
  ASSUME NEW col \in Identifiers, NEW op \in Words, NEW args, IsList(args), NEW start \in Nat
  PROVE  Good(Piece(Compare(col, op, From(start, Len(args))), args, start + Len(args)), start)
<1> DEFINE tok == [t |-> "compare", col |-> col, op |-> op, phs |-> From(start, Len(args))]
<1>1. From(start, Len(args)) \in Seq(Nat)
  BY ListParts, FromType
<1>2. tok \in Token /\ Numbers(tok) = From(start, Len(args))
  BY <1>1 DEF Token, Numbers
<1>3. Compare(col, op, From(start, Len(args))) = <<tok>>
  BY DEF Compare
<1> HIDE DEF tok
<1>4. <<tok>> \in Seq(Token) /\ Placeholders(<<tok>>) = From(start, Len(args))
  BY <1>2, HoldersOne
<1> QED BY <1>3, <1>4, PieceGood

LEMMA OneGood ==
  ASSUME NEW col \in Identifiers, NEW op \in Words, NEW value, NEW start \in Nat
  PROVE  Good(One(col, op, value, start), start)
<1>1. IsList(<<value>>) /\ Len(<<value>>) = 1
  BY DEF IsList, Range
<1>2. From(start, 1) = <<ph(start + 1)>>
  <2>1. From(start, 1) = [i \in 1..1 |-> ph(start + i)]
    BY DEF From
  <2> QED BY <2>1
<1>3. Good(Piece(Compare(col, op, From(start, 1)), <<value>>, start + 1), start)
  BY <1>1, CompareGood, Zenon
<1> QED BY <1>2, <1>3 DEF One

\* A comparison without arguments.
LEMMA PlainGood ==
  ASSUME NEW col \in Identifiers, NEW op \in Words, NEW start \in Nat
  PROVE  Good(Piece(Compare(col, op, <<>>), <<>>, start), start)
<1>1. IsList(<<>>) /\ Len(<<>>) = 0 /\ start + 0 = start
  BY DEF IsList, Range
<1>2. From(start, 0) = <<>>
  BY FromNone
<1>3. Good(Piece(Compare(col, op, From(start, 0)), <<>>, start + 0), start)
  BY <1>1, CompareGood, Zenon
<1> QED BY <1>1, <1>2, <1>3

\* Text without placeholders in front of or behind a text.
LEMMA MarkGood ==
  ASSUME NEW t \in {"AND", "OR", "NOT", "(", ")"}
  PROVE  Tok(t) \in Seq(Token) /\ Placeholders(Tok(t)) = <<>>
<1>1. [t |-> t] \in Token /\ Numbers([t |-> t]) = <<>>
  BY DEF Token, Numbers
<1> QED BY <1>1, HoldersOne DEF Tok

LEMMA MarkedText ==
  ASSUME NEW a \in Seq(Token), NEW t \in {"AND", "OR", "NOT", "(", ")"}
  PROVE  /\ a \o Tok(t) \in Seq(Token) /\ Placeholders(a \o Tok(t)) = Placeholders(a)
         /\ Tok(t) \o a \in Seq(Token) /\ Placeholders(Tok(t) \o a) = Placeholders(a)
<1> DEFINE b == Tok(t)
<1>1. b \in Seq(Token) /\ Placeholders(b) = <<>>
  BY MarkGood
<1> HIDE DEF b
<1>2. a \o b \in Seq(Token) /\ b \o a \in Seq(Token)
  BY <1>1
<1>3. /\ Placeholders(a \o b) = Placeholders(a) \o <<>>
      /\ Placeholders(b \o a) = <<>> \o Placeholders(a)
  BY <1>1, HoldersConcat
<1>4. \A q \in Seq(Nat) : q \o <<>> = q /\ <<>> \o q = q
  OBVIOUS
<1> QED BY <1>2, <1>3, <1>4, HoldersType DEF b

LEMMA BracketedGood ==
  ASSUME NEW prefix, prefix = <<>> \/ prefix = Tok("NOT"),
         NEW start \in Nat, NEW p, Good(p, start)
  PROVE  Good(Bracketed(prefix, p), start)
<1>1. CASE p.err # "" \/ p.sql = <<>>
  BY <1>1 DEF Bracketed
<1>2. CASE p.err = "" /\ p.sql # <<>>
  <2> DEFINE a == prefix \o Tok("(")
             b == a \o p.sql
             c == b \o Tok(")")
  <2>1. Sound(p, start)
    BY <1>2 DEF Good
  <2>2. p.sql \in Seq(Token)
    BY <2>1 DEF Sound
  <2>3. a \in Seq(Token) /\ Placeholders(a) = <<>>
    <3>1. CASE prefix = <<>>
      <4>1. Tok("(") \in Seq(Token) /\ Placeholders(Tok("(")) = <<>>
        BY MarkGood
      <4>2. a = Tok("(")
        BY <3>1, <4>1
      <4> HIDE DEF a
      <4> QED BY <4>1, <4>2
    <3>2. CASE prefix = Tok("NOT")
      <4>1. prefix \in Seq(Token) /\ Placeholders(prefix) = <<>>
        BY <3>2, MarkGood, Zenon
      <4> QED BY <4>1, MarkedText, Zenon
    <3> QED BY <3>1, <3>2
  <2> HIDE DEF a
  <2>4. b \in Seq(Token) /\ Placeholders(b) = Placeholders(p.sql)
    <3>1. b \in Seq(Token)
      BY <2>2, <2>3
    <3>2. Placeholders(b) = <<>> \o Placeholders(p.sql)
      BY <2>2, <2>3, HoldersConcat, Zenon
    <3>3. \A q \in Seq(Nat) : <<>> \o q = q
      OBVIOUS
    <3> QED BY <2>2, <3>1, <3>2, <3>3, HoldersType, Zenon
  <2> HIDE DEF b
  <2>5. c \in Seq(Token) /\ Placeholders(c) = Placeholders(p.sql)
    BY <2>4, MarkedText, Zenon
  <2> HIDE DEF c
  <2>6. Bracketed(prefix, p) = [p EXCEPT !.sql = c]
    BY <1>2 DEF Bracketed, a, b, c
  <2>7. [p EXCEPT !.sql = c] = Piece(c, p.args, start + Len(p.args))
    <3>1. \E s, x, y, z : p = [sql |-> s, args |-> x, next |-> y, err |-> z]
      BY DEF Good, IsPiece
    <3>2. PICK s, x, y, z : p = [sql |-> s, args |-> x, next |-> y, err |-> z]
      BY <3>1
    <3>3. p.args = x /\ p.next = y /\ p.err = z
      BY <3>2
    <3>4. [p EXCEPT !.sql = c] = [sql |-> c, args |-> x, next |-> y, err |-> z]
      BY <3>2
    <3>5. y = start + Len(x) /\ z = ""
      BY <1>2, <2>1, <3>3 DEF Sound
    <3> QED BY <3>3, <3>4, <3>5 DEF Piece
  <2> QED BY <2>1, <2>5, <2>6, <2>7, PieceGood DEF Sound
<1> QED BY <1>1, <1>2

LEMMA ExtendGood ==
  ASSUME NEW start \in Nat, NEW p, Good(p, start),
         NEW part, \A n \in Nat : Good(part[n], n),
         NEW sep \in {"AND", "OR"}
  PROVE  Good(Extend(p, part, sep), start)
<1> DEFINE q == part[p.next]
<1>1. CASE p.err # ""
  BY <1>1 DEF Extend
<1>2. CASE p.err = ""
  <2>1. Sound(p, start)
    BY <1>2 DEF Good
  <2>2. p.next = start + Len(p.args) /\ Len(p.args) \in Nat /\ p.next \in Nat
    BY <2>1, ListParts DEF Sound
  <2>3. Good(q, p.next)
    BY <2>2
  <2> HIDE DEF q
  <2>4. CASE q.err # ""
    <3>1. Extend(p, part, sep) = q
      BY <1>2, <2>4 DEF Extend, q
    <3> QED BY <2>3, <2>4, <3>1 DEF Good
  <2>5. CASE q.err = "" /\ q.sql = <<>>
    <3>1. q.next = p.next
      BY <2>2, <2>3, <2>5, NoText DEF Good
    <3>2. Extend(p, part, sep) = [p EXCEPT !.next = q.next]
      BY <1>2, <2>5 DEF Extend, q
    <3>3. [p EXCEPT !.next = p.next] = p
      BY DEF Good, IsPiece
    <3> QED BY <3>1, <3>2, <3>3
  <2>6. CASE q.err = "" /\ q.sql # <<>>
    <3> DEFINE text == IF p.sql = <<>> THEN q.sql ELSE p.sql \o Tok(sep) \o q.sql
               args == p.args \o q.args
    <3>1. Sound(q, p.next)
      BY <2>3, <2>6 DEF Good
    <3>2. IsList(args) /\ Len(args) = Len(p.args) + Len(q.args) /\ Len(q.args) \in Nat
      BY <2>1, <3>1, ListConcat, ListParts DEF Sound
    <3>3. text \in Seq(Token) /\ Placeholders(text) = Placeholders(p.sql) \o Placeholders(q.sql)
      <4>1. p.sql \in Seq(Token) /\ q.sql \in Seq(Token)
        BY <2>1, <3>1 DEF Sound
      <4>2. CASE p.sql = <<>>
        <5>1. <<>> \o Placeholders(q.sql) = Placeholders(q.sql)
          BY <4>1, HoldersType
        <5> QED BY <4>1, <4>2, <5>1, HoldersEmpty
      <4>3. CASE p.sql # <<>>
        <5> DEFINE a == p.sql \o Tok(sep)
        <5>1. a \in Seq(Token) /\ Placeholders(a) = Placeholders(p.sql)
          BY <4>1, MarkedText, Zenon
        <5>2. text = a \o q.sql
          BY <4>3
        <5> HIDE DEF a, text
        <5>3. a \o q.sql \in Seq(Token)
          BY <4>1, <5>1
        <5> QED BY <4>1, <5>1, <5>2, <5>3, HoldersConcat
      <4> QED BY <4>2, <4>3
    <3>4. Placeholders(text) = From(start, Len(args))
      <4>1. Placeholders(p.sql) = From(start, Len(p.args))
        BY <2>1 DEF Sound
      <4>2. Placeholders(q.sql) = From(start + Len(p.args), Len(q.args))
        BY <2>2, <3>1 DEF Sound
      <4> HIDE DEF text, args
      <4> DEFINE k == Len(p.args)
                 l == Len(q.args)
      <4>3. k \in Nat /\ l \in Nat /\ Len(args) = k + l
        BY <2>2, <3>2
      <4> HIDE DEF k, l
      <4>4. From(start, k) \o From(start + k, l) = From(start, k + l)
        BY <4>3, FromConcat
      <4> QED BY <3>3, <4>1, <4>2, <4>3, <4>4, Zenon DEF k, l
    <3>5. Extend(p, part, sep) = Piece(text, args, q.next)
      BY <1>2, <2>6 DEF Extend, q
    <3>6. q.next = start + Len(args)
      <4>1. q.next = p.next + Len(q.args)
        BY <3>1 DEF Sound
      <4> DEFINE k == Len(p.args)
                 l == Len(q.args)
                 m == p.next
      <4>2. k \in Nat /\ l \in Nat /\ Len(args) = k + l /\ m = start + k /\ q.next = m + l
        BY <2>2, <3>2, <4>1
      <4> HIDE DEF args, k, l, m
      <4> QED BY <4>2
    <3> HIDE DEF text, args
    <3> QED BY <3>2, <3>3, <3>4, <3>5, <3>6, PieceGood
  <2> QED BY <2>4, <2>5, <2>6
<1> QED BY <1>1, <1>2

\* Parts, each good from any number on, are good together.
LEMMA JoinedGood ==
  ASSUME NEW n \in Nat, NEW parts, Len(parts) = n,
         \A i \in 1..n, m \in Nat : Good(parts[i][m], m),
         NEW sep \in {"AND", "OR"}, NEW start \in Nat
  PROVE  Good(Joined(parts, sep, start), start)
<1> DEFINE p0 == Piece(<<>>, <<>>, start)
           Is(f, m) == f = [i \in 0..m |-> IF i = 0 THEN p0 ELSE Extend(f[i - 1], parts[i], sep)]
           Bad == {m \in 0..n : ~\E f : Is(f, m)}
<1>p. Good(p0, start)
  <2>1. IsList(<<>>) /\ Len(<<>>) = 0 /\ start + 0 = start /\ <<>> \in Seq(Token)
    BY DEF IsList, Range
  <2>2. Placeholders(<<>>) = From(start, 0)
    BY FromNone, HoldersEmpty
  <2> QED BY <2>1, <2>2, PieceGood
<1> HIDE DEF p0
<1>1. Bad = {}
  <2>1. SUFFICES ASSUME Bad # {} PROVE FALSE
    OBVIOUS
  <2>2. Bad \subseteq Nat
    <3> HIDE DEF Is
    <3> QED OBVIOUS
  <2>3. PICK m \in Bad : \A y \in Bad : m <= y
    <3> HIDE DEF Bad
    <3> QED BY <2>1, <2>2, LeastNumber
  <2>4. m \in 0..n /\ ~\E f : Is(f, m)
    BY <2>3
  <2>5. CASE m = 0
    <3>1. Is([i \in 0..0 |-> p0], 0)
      OBVIOUS
    <3> QED BY <2>4, <2>5, <3>1
  <2>6. CASE m # 0
    <3>1. m - 1 \in 0..n /\ m - 1 \notin Bad
      <4> HIDE DEF Bad
      <4>1. m \in Nat /\ m - 1 \in 0..n /\ ~(m <= m - 1)
        BY <2>4, <2>6
      <4> QED BY <2>3, <4>1
    <3>2. PICK f : Is(f, m - 1)
      BY <3>1
    <3> DEFINE g == [i \in 0..m |-> IF i = m THEN Extend(f[m - 1], parts[m], sep) ELSE f[i]]
    <3>3. ASSUME NEW i \in 0..m PROVE g[i] = IF i = 0 THEN p0 ELSE Extend(g[i - 1], parts[i], sep)
      <4>1. CASE i = m
        <5>1. i - 1 \in 0..m /\ i - 1 # m /\ i # 0
          BY <2>4, <2>6, <4>1
        <5>2. g[i - 1] = f[m - 1]
          BY <4>1, <5>1
        <5> QED BY <4>1, <5>1, <5>2
      <4>2. CASE i # m
        <5>1. i \in 0..m - 1 /\ (i # 0 => i - 1 \in 0..m /\ i - 1 # m)
          BY <2>4, <4>2
        <5>2. g[i] = f[i] /\ (i # 0 => g[i - 1] = f[i - 1])
          BY <4>2, <5>1
        <5>3. f[i] = IF i = 0 THEN p0 ELSE Extend(f[i - 1], parts[i], sep)
          BY <3>2, <5>1
        <5> QED BY <5>2, <5>3
      <4> QED BY <4>1, <4>2
    <3>4. Is(g, m)
      BY <3>3
    <3> QED BY <2>4, <3>4
  <2> QED BY <2>5, <2>6
<1>2. \E f : Is(f, n)
  <2> HIDE DEF Is
  <2>1. n \in 0..n
    OBVIOUS
  <2> QED BY <1>1, <2>1
<1>3. PICK f : Is(f, n) /\ Joined(parts, sep, start) = f[n]
  <2>1. Joined(parts, sep, start) = (CHOOSE f : Is(f, n))[n]
    BY DEF Joined, p0
  <2> QED BY <1>2, <2>1
<1>4. \A i \in 0..n : f[i] = IF i = 0 THEN p0 ELSE Extend(f[i - 1], parts[i], sep)
  BY <1>3
<1>5. \A i \in 0..n : Good(f[i], start)
  <2> DEFINE T == {i \in 0..n : ~Good(f[i], start)}
  <2>1. SUFFICES ASSUME T # {} PROVE FALSE
    OBVIOUS
  <2>2. PICK i \in T : \A y \in T : i <= y
    <3>1. T \subseteq Nat
      OBVIOUS
    <3> HIDE DEF T
    <3> QED BY <2>1, <3>1, LeastNumber
  <2>3. i # 0
    <3>1. i \in 0..n /\ ~Good(f[i], start)
      BY <2>2
    <3> QED BY <1>4, <1>p, <3>1
  <2>4. i - 1 \in 0..n /\ i \in 1..n /\ ~(i <= i - 1)
    BY <2>2, <2>3
  <2>5. Good(f[i - 1], start)
    BY <2>2, <2>4
  <2>6. f[i] = Extend(f[i - 1], parts[i], sep)
    BY <1>4, <2>2, <2>3
  <2>7. Good(f[i], start)
    BY <2>4, <2>5, <2>6, ExtendGood
  <2> QED BY <2>2, <2>7
<1>6. n \in 0..n
  OBVIOUS
<1> QED BY <1>3, <1>5, <1>6

----------------------------------------------------------------------------
(* Builders that call themselves for the maps inside a map.                 *)

OperatorLevel(b, ops) ==
    [col \in Identifiers |->
        [start \in Nat |-> Joined(OperatorParts(b, col, ops), "AND", start)]]

WhereLevel(b, where) == [start \in Nat |-> Joined(WhereParts(b, where), "AND", start)]

Level(which, b, v) == IF which = "operators" THEN OperatorLevel(b, v) ELSE WhereLevel(b, v)

\* The keys of a map and their values.
LEMMA MapParts ==
  ASSUME NEW m \in Maps
  PROVE  /\ Nesting[m] \in Nat
         /\ Len(SortedKeys(m.f)) \in Nat
         /\ DOMAIN SortedKeys(m.f) = 1..Len(SortedKeys(m.f))
         /\ \A i \in DOMAIN SortedKeys(m.f) :
               LET v == m.f[SortedKeys(m.f)[i]]
               IN  v \in GoValues /\ Nesting[v] \in Nat /\ Nesting[v] < Nesting[m]
<1>1. m \in GoValues /\ m.kind = "map"
  BY DEF Maps
<1>2. /\ DOMAIN m.f \subseteq Range(KeyOrder)
      /\ \A k \in DOMAIN m.f : m.f[k] \in GoValues /\ Nesting[m.f[k]] < Nesting[m]
  BY <1>1, ValuesAssumption
<1>3. \A v \in GoValues : Nesting[v] \in Nat
  BY ValuesAssumption
<1> DEFINE keys == SortedKeys(m.f)
<1>4. Len(keys) \in Nat /\ DOMAIN keys = 1..Len(keys) /\ Range(keys) = DOMAIN m.f
  BY <1>2, KeysSorted
<1> HIDE DEF keys
<1>5. \A i \in DOMAIN keys : keys[i] \in DOMAIN m.f
  BY <1>4 DEF Range
<1> QED BY <1>1, <1>2, <1>3, <1>4, <1>5 DEF keys

\* The conditions under AND or OR nest no deeper than what is there.
LEMMA ConditionParts ==
  ASSUME NEW v \in GoValues
  PROVE  /\ Len(asConditionList(v)) \in Nat
         /\ DOMAIN asConditionList(v) = 1..Len(asConditionList(v))
         /\ \A i \in DOMAIN asConditionList(v) :
               /\ asConditionList(v)[i] \in GoValues
               /\ Nesting[asConditionList(v)[i]] \in Nat
               /\ Nesting[asConditionList(v)[i]] <= Nesting[v]
<1> DEFINE list == asConditionList(v)
<1>1. \A u \in GoValues : Nesting[u] \in Nat
  BY ValuesAssumption
<1>2. CASE v.kind = "list"
  <2>1. v # Nil
    BY <1>2 DEF Nil
  <2>2. list = v.items
    BY <1>2, <2>1 DEF asConditionList
  <2>3. v.items \in Seq(GoValues) /\ \A i \in DOMAIN v.items : Nesting[v.items[i]] < Nesting[v]
    BY <1>2, ValuesAssumption
  <2> HIDE DEF list
  <2>4. Len(list) \in Nat /\ DOMAIN list = 1..Len(list) /\ \A i \in DOMAIN list : list[i] \in GoValues
    BY <2>2, <2>3
  <2>5. \A i \in DOMAIN list : Nesting[list[i]] <= Nesting[v]
    BY <1>1, <2>2, <2>3, <2>4
  <2> QED BY <1>1, <2>4, <2>5 DEF list
<1>3. CASE v.kind # "list"
  <2>1. list = <<>> \/ list = <<v>>
    BY <1>3 DEF asConditionList
  <2> HIDE DEF list
  <2>2. Len(list) \in Nat /\ DOMAIN list = 1..Len(list) /\ \A i \in DOMAIN list : list[i] = v
    BY <2>1
  <2> QED BY <1>1, <2>2 DEF list
<1> QED BY <1>2, <1>3

\* A level uses the builder for deeper maps only.
LEMMA LevelsAgree ==
  ASSUME NEW which, NEW b, NEW c, NEW m \in Maps,
         \A v \in Maps : Nesting[v] < Nesting[m] => b[v] = c[v]
  PROVE  Level(which, b, m) = Level(which, c, m)
<1> DEFINE keys == SortedKeys(m.f)
<1>1. ASSUME NEW col \in Identifiers PROVE OperatorParts(b, col, m) = OperatorParts(c, col, m)
  <2>1. ASSUME NEW i \in DOMAIN keys, NEW n \in Nat
        PROVE  buildOneOperator(b, col, keys[i], m.f[keys[i]], n)
                 = buildOneOperator(c, col, keys[i], m.f[keys[i]], n)
    <3> DEFINE value == m.f[keys[i]]
    <3>1. value \in GoValues /\ Nesting[value] < Nesting[m]
      BY MapParts
    <3>2. value.kind = "map" => b[value] = c[value]
      BY <3>1 DEF Maps
    <3> HIDE DEF value
    <3>3. buildNotFieldExpr(b, col, value, n) = buildNotFieldExpr(c, col, value, n)
      BY <3>2 DEF buildNotFieldExpr
    <3>4. buildOneOperator(b, col, keys[i], value, n) = buildOneOperator(c, col, keys[i], value, n)
      BY <3>3 DEF buildOneOperator
    <3> QED BY <3>4 DEF value
  <2> HIDE DEF keys
  <2>2. [i \in DOMAIN keys |-> [n \in Nat |-> buildOneOperator(b, col, keys[i], m.f[keys[i]], n)]]
          = [i \in DOMAIN keys |-> [n \in Nat |-> buildOneOperator(c, col, keys[i], m.f[keys[i]], n)]]
    BY <2>1
  <2> QED BY <2>2 DEF OperatorParts, keys
<1>2. WhereParts(b, m) = WhereParts(c, m)
  <2>1. ASSUME NEW i \in DOMAIN keys, NEW n \in Nat
        PROVE  buildKeyExpr(b, keys[i], m.f[keys[i]], n) = buildKeyExpr(c, keys[i], m.f[keys[i]], n)
    <3> DEFINE value == m.f[keys[i]]
               list == asConditionList(value)
    <3>1. value \in GoValues /\ Nesting[value] \in Nat /\ Nesting[value] < Nesting[m] /\ Nesting[m] \in Nat
      BY MapParts
    <3>2. ASSUME NEW u \in GoValues, Nesting[u] \in Nat, Nesting[u] <= Nesting[value], NEW k \in Nat
          PROVE  buildConditionValue(b, u, k) = buildConditionValue(c, u, k)
      <4>1. Nesting[u] < Nesting[m]
        BY <3>1, <3>2
      <4>2. u.kind = "map" => b[u] = c[u]
        BY <4>1 DEF Maps
      <4> QED BY <4>2 DEF buildConditionValue
    <3> HIDE DEF value
    <3>3. buildNotExpr(b, value, n) = buildNotExpr(c, value, n)
      <4>1. buildConditionValue(b, value, n) = buildConditionValue(c, value, n)
        BY <3>1, <3>2
      <4> QED BY <4>1 DEF buildNotExpr
    <3>4. Conditions(b, value) = Conditions(c, value)
      <4>1. \A j \in DOMAIN list : /\ list[j] \in GoValues /\ Nesting[list[j]] \in Nat
                                   /\ Nesting[list[j]] <= Nesting[value]
        BY <3>1, ConditionParts
      <4> HIDE DEF list
      <4>2. \A j \in DOMAIN list, k \in Nat :
               buildConditionValue(b, list[j], k) = buildConditionValue(c, list[j], k)
        BY <3>2, <4>1
      <4>3. [j \in DOMAIN list |-> [k \in Nat |-> buildConditionValue(b, list[j], k)]]
              = [j \in DOMAIN list |-> [k \in Nat |-> buildConditionValue(c, list[j], k)]]
        BY <4>2
      <4> QED BY <4>3 DEF Conditions, list
    <3>5. buildKeyExpr(b, keys[i], value, n) = buildKeyExpr(c, keys[i], value, n)
      BY <3>3, <3>4 DEF buildKeyExpr, buildLogicalListExpr
    <3> QED BY <3>5 DEF value
  <2> HIDE DEF keys
  <2>2. [i \in DOMAIN keys |-> [n \in Nat |-> buildKeyExpr(b, keys[i], m.f[keys[i]], n)]]
          = [i \in DOMAIN keys |-> [n \in Nat |-> buildKeyExpr(c, keys[i], m.f[keys[i]], n)]]
    BY <2>1
  <2> QED BY <2>2 DEF WhereParts, keys
<1>3. OperatorLevel(b, m) = OperatorLevel(c, m)
  BY <1>1 DEF OperatorLevel
<1>4. WhereLevel(b, m) = WhereLevel(c, m)
  BY <1>2 DEF WhereLevel
<1> QED BY <1>3, <1>4 DEF Level

\* There is a builder that calls itself.
LEMMA BuilderExists ==
  ASSUME NEW which
  PROVE  \E g : g = [v \in Maps |-> Level(which, g, v)]
<1> DEFINE Within(n) == {v \in Maps : Nesting[v] < n}
           Is(b, n) == b = [v \in Within(n) |-> Level(which, b, v)]
<1>0. \A v \in Maps : Nesting[v] \in Nat
  BY MapParts
<1>1. ASSUME NEW n \in Nat PROVE \E b : Is(b, n)
  <2> DEFINE Bad == {k \in Nat : ~\E b : Is(b, k)}
  <2>1. SUFFICES ASSUME Bad # {} PROVE FALSE
    OBVIOUS
  <2>2. PICK k \in Bad : \A y \in Bad : k <= y
    <3>1. Bad \subseteq Nat
      <4> HIDE DEF Is
      <4> QED OBVIOUS
    <3> HIDE DEF Bad
    <3> QED BY <2>1, <3>1, LeastNumber
  <2>3. k \in Nat /\ ~\E b : Is(b, k)
    BY <2>2
  <2>4. CASE k = 0
    <3>1. Within(0) = {}
      BY <1>0
    <3>2. Is([v \in {} |-> 0], 0)
      BY <3>1
    <3> QED BY <2>3, <2>4, <3>2
  <2>5. CASE k # 0
    <3>1. k - 1 \in Nat /\ ~(k <= k - 1)
      BY <2>3, <2>5
    <3>2. PICK b : Is(b, k - 1)
      BY <2>2, <3>1
    <3> DEFINE c == [v \in Within(k) |-> Level(which, b, v)]
    <3>3. ASSUME NEW v \in Within(k) PROVE Level(which, b, v) = Level(which, c, v)
      <4>1. ASSUME NEW u \in Maps, Nesting[u] < Nesting[v] PROVE b[u] = c[u]
        <5>1. u \in Within(k - 1) /\ u \in Within(k)
          BY <1>0, <2>3, <4>1
        <5>2. b[u] = Level(which, b, u) /\ c[u] = Level(which, b, u)
          BY <3>2, <5>1
        <5> QED BY <5>2
      <4> HIDE DEF c
      <4> QED BY <4>1, LevelsAgree
    <3>4. Is(c, k)
      BY <3>3
    <3> QED BY <2>3, <3>4
  <2> QED BY <2>4, <2>5
<1>2. ASSUME NEW n \in Nat, NEW k \in Nat, NEW b, NEW c, Is(b, n), Is(c, k),
             NEW v \in Maps, Nesting[v] < n, Nesting[v] < k
      PROVE  b[v] = c[v]
  <2> DEFINE T == {Nesting[u] : u \in {u \in Maps : Nesting[u] < n /\ Nesting[u] < k /\ b[u] # c[u]}}
  <2>1. SUFFICES ASSUME T # {} PROVE FALSE
    BY <1>2
  <2>2. PICK d \in T : \A y \in T : d <= y
    <3>1. T \subseteq Nat
      BY <1>0
    <3> HIDE DEF T
    <3> QED BY <2>1, <3>1, LeastNumber
  <2>3. PICK u \in Maps : d = Nesting[u] /\ Nesting[u] < n /\ Nesting[u] < k /\ b[u] # c[u]
    BY <2>2
  <2>4. ASSUME NEW w \in Maps, Nesting[w] < Nesting[u] PROVE b[w] = c[w]
    <3>1. Nesting[w] \in Nat /\ Nesting[u] \in Nat /\ Nesting[w] < n /\ Nesting[w] < k /\ ~(d <= Nesting[w])
      BY <1>0, <2>3, <2>4
    <3>2. CASE b[w] # c[w]
      <4>1. Nesting[w] \in T
        BY <3>1, <3>2
      <4> HIDE DEF T
      <4> QED BY <2>2, <3>1, <4>1
    <3> QED BY <3>2
  <2>5. Level(which, b, u) = Level(which, c, u)
    BY <2>4, LevelsAgree
  <2>6. b[u] = Level(which, b, u) /\ c[u] = Level(which, c, u)
    BY <1>2, <2>3
  <2> QED BY <2>3, <2>5, <2>6
<1> DEFINE at(n) == CHOOSE b : Is(b, n)
           g == [v \in Maps |-> at(Nesting[v] + 1)[v]]
<1>3. \A n \in Nat : Is(at(n), n)
  <2> HIDE DEF Is
  <2> QED BY <1>1
<1>4. ASSUME NEW v \in Maps PROVE g[v] = Level(which, g, v)
  <2> DEFINE n == Nesting[v] + 1
  <2>1. n \in Nat /\ Nesting[v] < n /\ Nesting[v] \in Nat
    BY <1>0
  <2>2. Is(at(n), n)
    BY <1>3, <2>1
  <2> HIDE DEF at
  <2>3. g[v] = at(n)[v] /\ at(n)[v] = Level(which, at(n), v)
    BY <2>1, <2>2
  <2>4. ASSUME NEW u \in Maps, Nesting[u] < Nesting[v] PROVE at(n)[u] = g[u]
    <3> DEFINE k == Nesting[u] + 1
    <3>1. k \in Nat /\ Nesting[u] < k /\ Nesting[u] < n /\ g[u] = at(k)[u]
      BY <1>0, <2>1, <2>4
    <3>2. Is(at(k), k)
      BY <1>3, <3>1
    <3> HIDE DEF n, k, Is, g
    <3> QED BY <1>2, <2>1, <2>2, <3>1, <3>2
  <2> HIDE DEF n, g
  <2>5. Level(which, at(n), v) = Level(which, g, v)
    BY <2>4, LevelsAgree
  <2> QED BY <2>3, <2>5
<1>5. g = [v \in Maps |-> Level(which, g, v)]
  <2> HIDE DEF at
  <2>1. g = [v \in Maps |-> g[v]]
    OBVIOUS
  <2> HIDE DEF g
  <2> QED BY <1>4, <2>1
<1> HIDE DEF g
<1> QED BY <1>5

LEMMA BuildersUnfold ==
  /\ \A v \in Maps : buildOperatorExpr[v] = OperatorLevel(buildOperatorExpr, v)
  /\ \A v \in Maps : buildWhereMap[v] = WhereLevel(buildWhereMap, v)
<1>1. \E g : g = [v \in Maps |-> OperatorLevel(g, v)]
  <2>1. PICK g : g = [v \in Maps |-> Level("operators", g, v)]
    BY BuilderExists
  <2>2. \A v \in Maps : Level("operators", g, v) = OperatorLevel(g, v)
    BY DEF Level
  <2> QED BY <2>1, <2>2
<1>2. buildOperatorExpr = CHOOSE g : g = [v \in Maps |-> OperatorLevel(g, v)]
  BY DEF buildOperatorExpr, OperatorLevel
<1>3. buildOperatorExpr = [v \in Maps |-> OperatorLevel(buildOperatorExpr, v)]
  BY <1>1, <1>2
<1>4. \E g : g = [v \in Maps |-> WhereLevel(g, v)]
  <2>1. PICK g : g = [v \in Maps |-> Level("where", g, v)]
    BY BuilderExists
  <2>2. \A v \in Maps : Level("where", g, v) = WhereLevel(g, v)
    BY DEF Level
  <2> QED BY <2>1, <2>2
<1>5. buildWhereMap = CHOOSE g : g = [v \in Maps |-> WhereLevel(g, v)]
  BY DEF buildWhereMap, WhereLevel
<1>6. buildWhereMap = [v \in Maps |-> WhereLevel(buildWhereMap, v)]
  BY <1>4, <1>5
<1> QED BY <1>3, <1>6

----------------------------------------------------------------------------
(* What the builders make.                                                  *)

LEMMA EqualsGood ==
  ASSUME NEW col \in Identifiers, NEW value, NEW start \in Nat
  PROVE  Good(buildEqualsExpr(col, value, start), start)
<1>1. CASE value = Nil
  <2>1. buildEqualsExpr(col, value, start) = Piece(Compare(col, "IS NULL", <<>>), <<>>, start)
    BY <1>1 DEF buildEqualsExpr
  <2>2. Good(Piece(Compare(col, "IS NULL", <<>>), <<>>, start), start)
    BY PlainGood DEF Words
  <2> QED BY <2>1, <2>2
<1>2. CASE value # Nil
  <2>1. buildEqualsExpr(col, value, start) = One(col, "=", value, start)
    BY <1>2 DEF buildEqualsExpr
  <2>2. Good(One(col, "=", value, start), start)
    BY OneGood DEF Words
  <2> QED BY <2>1, <2>2
<1> QED BY <1>1, <1>2

\* Conditions on one column, where the builder for the operators of a map
\* makes good pieces.
LEMMA OneOperatorGood ==
  ASSUME NEW build, NEW col \in Identifiers, NEW op, NEW value \in GoValues, NEW start \in Nat,
         value \in Maps => Good(build[value][col][start], start)
  PROVE  Good(buildOneOperator(build, col, op, value, start), start)
<1> DEFINE one(word) == One(col, word, value, start)
           plain(word) == Piece(Compare(col, word, <<>>), <<>>, start)
<1>w. \A word \in Words : Good(one(word), start) /\ Good(plain(word), start)
  <2> TAKE word \in Words
  <2>1. Good(One(col, word, value, start), start)
    BY OneGood
  <2>2. Good(Piece(Compare(col, word, <<>>), <<>>, start), start)
    BY PlainGood
  <2> QED BY <2>1, <2>2
<1>1. Good(buildEqualsExpr(col, value, start), start)
  BY EqualsGood
<1>2. Good(buildNotFieldExpr(build, col, value, start), start)
  <2>1. CASE value.kind = "map" /\ DOMAIN value.f # {}
    <3> DEFINE p == build[value][col][start]
    <3>1. Good(p, start)
      BY <2>1 DEF Maps
    <3>2. buildNotFieldExpr(build, col, value, start) = Bracketed(Tok("NOT"), p)
      BY <2>1 DEF buildNotFieldExpr
    <3> HIDE DEF p
    <3> QED BY <3>1, <3>2, BracketedGood
  <2>2. CASE ~(value.kind = "map" /\ DOMAIN value.f # {})
    <3>1. buildNotFieldExpr(build, col, value, start)
            = IF value = Nil THEN plain("IS NOT NULL") ELSE one("<>")
      BY <2>2 DEF buildNotFieldExpr
    <3> HIDE DEF one, plain
    <3> QED BY <1>w, <3>1 DEF Words
  <2> QED BY <2>1, <2>2
<1>6. Good(Fail("unsupported"), start) /\ Good(Fail("invalid"), start)
  BY FailGood
<1>3. ASSUME NEW word \in {"IN", "NOT IN"} PROVE Good(buildInExpr(col, value, word, start), start)
  <2>1. CASE value.kind # "list" \/ value.items = <<>>
    <3>1. buildInExpr(col, value, word, start) = Fail("invalid")
      BY <2>1 DEF buildInExpr
    <3> QED BY <1>6, <3>1
  <2>2. CASE value.kind = "list" /\ value.items # <<>>
    <3> DEFINE items == value.items
               n == Len(items)
    <3>1. items \in Seq(GoValues)
      BY <2>2, ValuesAssumption
    <3>2. buildInExpr(col, value, word, start)
            = Piece(Compare(col, word, From(start, n)), items, start + n)
      BY <2>2 DEF buildInExpr, From
    <3> HIDE DEF items
    <3>3. IsList(items)
      BY <3>1, SeqIsList
    <3>4. word \in Words
      BY DEF Words
    <3>5. Good(Piece(Compare(col, word, From(start, n)), items, start + n), start)
      BY <3>3, <3>4, CompareGood
    <3> HIDE DEF n
    <3> QED BY <3>2, <3>5
  <2> QED BY <2>1, <2>2
<1>4. Good(buildStringExpr(col, op, value, start), start)
  <2>1. CASE value.kind # "str"
    <3>1. buildStringExpr(col, op, value, start) = Fail("invalid")
      BY <2>1 DEF buildStringExpr
    <3> QED BY <1>6, <3>1
  <2>2. CASE value.kind = "str"
    <3>1. \E arg : buildStringExpr(col, op, value, start) = One(col, "LIKE", arg, start)
      BY <2>2 DEF buildStringExpr
    <3>2. PICK arg : buildStringExpr(col, op, value, start) = One(col, "LIKE", arg, start)
      BY <3>1
    <3>3. Good(One(col, "LIKE", arg, start), start)
      BY OneGood DEF Words
    <3> QED BY <3>2, <3>3
  <2> QED BY <2>1, <2>2
<1>5. ASSUME NEW yes \in Words, NEW no \in Words
      PROVE  Good(buildFlagExpr(col, value, yes, no, start), start)
  <2>1. buildFlagExpr(col, value, yes, no, start)
          = IF value.kind # "bool" THEN Fail("invalid") ELSE plain(IF value.b THEN yes ELSE no)
    BY DEF buildFlagExpr
  <2>2. (IF value.b THEN yes ELSE no) \in Words
    OBVIOUS
  <2> HIDE DEF plain, one
  <2> QED BY <1>6, <1>w, <2>1, <2>2
<1>7. ASSUME op \in {"lt", "lte", "gt", "gte"}
      PROVE  Good(One(col, Symbol[op], value, start), start)
  <2>1. /\ Symbol["lt"] = "<" /\ Symbol["lte"] = "<=" /\ Symbol["gt"] = ">" /\ Symbol["gte"] = ">="
    BY DEF Symbol
  <2>2. Symbol[op] \in Words
    BY <1>7, <2>1 DEF Words
  <2> HIDE DEF plain
  <2> QED BY <1>w, <2>2
<1> HIDE DEF one, plain
<1>s. DOMAIN Symbol = {"lt", "lte", "gt", "gte"}
  BY DEF Symbol
<1>8. CASE op \in {"equals", "is"}
  <2>1. buildOneOperator(build, col, op, value, start) = buildEqualsExpr(col, value, start)
    BY <1>s, <1>8 DEF buildOneOperator
  <2> QED BY <1>1, <2>1
<1>9. CASE op \in {"not", "isnot"}
  <2>1. buildOneOperator(build, col, op, value, start) = buildNotFieldExpr(build, col, value, start)
    BY <1>s, <1>9 DEF buildOneOperator
  <2> QED BY <1>2, <2>1
<1>10. CASE op \in {"in", "notin"}
  <2>1. \/ buildOneOperator(build, col, op, value, start) = buildInExpr(col, value, "IN", start)
        \/ buildOneOperator(build, col, op, value, start) = buildInExpr(col, value, "NOT IN", start)
    BY <1>s, <1>10 DEF buildOneOperator
  <2> QED BY <1>3, <2>1
<1>11. CASE op \in {"lt", "lte", "gt", "gte"}
  <2>1. buildOneOperator(build, col, op, value, start) = One(col, Symbol[op], value, start)
    BY <1>s, <1>11 DEF buildOneOperator
  <2> QED BY <1>7, <1>11, <2>1
<1>12. CASE op \in {"contains", "startswith", "endswith"}
  <2>1. buildOneOperator(build, col, op, value, start) = buildStringExpr(col, op, value, start)
    BY <1>s, <1>12 DEF buildOneOperator
  <2> QED BY <1>4, <2>1
<1>13. CASE op \in {"isset", "isempty"}
  <2>1. \/ buildOneOperator(build, col, op, value, start)
             = buildFlagExpr(col, value, "IS NOT NULL", "IS NULL", start)
        \/ buildOneOperator(build, col, op, value, start)
             = buildFlagExpr(col, value, "= ''", "<> ''", start)
    BY <1>s, <1>13 DEF buildOneOperator
  <2> QED BY <1>5, <2>1 DEF Words
<1>14. CASE op \notin {"equals", "is", "not", "isnot", "in", "notin", "contains", "startswith",
                       "endswith", "isset", "isempty", "lt", "lte", "gt", "gte"}
  <2>1. buildOneOperator(build, col, op, value, start) \in {Fail("unsupported"), Fail("invalid")}
    BY <1>s, <1>14 DEF buildOneOperator
  <2> QED BY <1>6, <2>1
<1> QED BY <1>8, <1>9, <1>10, <1>11, <1>12, <1>13, <1>14

\* A map of operators.
LEMMA OperatorsGood ==
  ASSUME NEW m \in Maps, NEW col \in Identifiers, NEW start \in Nat
  PROVE  Good(buildOperatorExpr[m][col][start], start)
<1> DEFINE fine(v) == \A c \in Identifiers, n \in Nat : Good(buildOperatorExpr[v][c][n], n)
           T == {Nesting[v] : v \in {v \in Maps : ~fine(v)}}
<1>1. SUFFICES ASSUME T # {} PROVE FALSE
  <2> HIDE DEF fine
  <2>1. SUFFICES ASSUME ~fine(m) PROVE T # {}
    BY DEF fine
  <2> QED BY <2>1
<1>2. PICK d \in T : \A y \in T : d <= y
  <2>1. T \subseteq Nat
    <3> HIDE DEF fine
    <3> QED BY MapParts
  <2> HIDE DEF T
  <2> QED BY <1>1, <2>1, LeastNumber
<1>3. PICK v \in Maps : d = Nesting[v] /\ ~fine(v)
  <2> HIDE DEF fine
  <2> QED BY <1>2
<1>4. ASSUME NEW u \in Maps, Nesting[u] < Nesting[v] PROVE fine(u)
  <2>1. Nesting[u] \in Nat /\ Nesting[v] \in Nat /\ ~(d <= Nesting[u])
    BY <1>3, <1>4, MapParts
  <2>2. CASE ~fine(u)
    <3> HIDE DEF fine
    <3>1. Nesting[u] \in T
      BY <2>2
    <3> HIDE DEF T
    <3> QED BY <1>2, <2>1, <3>1
  <2> HIDE DEF fine
  <2> QED BY <2>2
<1>5. ASSUME NEW c \in Identifiers, NEW n \in Nat PROVE Good(buildOperatorExpr[v][c][n], n)
  <2> DEFINE keys == SortedKeys(v.f)
             parts == OperatorParts(buildOperatorExpr, c, v)
             k == Len(keys)
  <2>1. k \in Nat /\ DOMAIN keys = 1..k
    BY MapParts
  <2>2. parts = [i \in DOMAIN keys |->
                   [j \in Nat |-> buildOneOperator(buildOperatorExpr, c, keys[i], v.f[keys[i]], j)]]
    BY DEF OperatorParts
  <2>3. ASSUME NEW i \in DOMAIN keys, NEW j \in Nat
        PROVE  Good(buildOneOperator(buildOperatorExpr, c, keys[i], v.f[keys[i]], j), j)
    <3> DEFINE value == v.f[keys[i]]
    <3>1. value \in GoValues /\ Nesting[value] < Nesting[v]
      BY MapParts
    <3> HIDE DEF value
    <3>2. value \in Maps => Good(buildOperatorExpr[value][c][j], j)
      BY <1>4, <3>1
    <3>3. Good(buildOneOperator(buildOperatorExpr, c, keys[i], value, j), j)
      BY <3>1, <3>2, OneOperatorGood
    <3> QED BY <3>3 DEF value
  <2> HIDE DEF keys, parts, k
  <2>4. \A i \in 1..k, j \in Nat : Good(parts[i][j], j)
    BY <2>1, <2>2, <2>3
  <2>5. Len(parts) = k
    <3>1. DOMAIN parts = 1..k
      BY <2>1, <2>2
    <3>2. parts = [i \in 1..k |-> parts[i]]
      BY <2>1, <2>2
    <3> QED BY <2>1, <3>2
  <2>6. Good(Joined(parts, "AND", n), n)
    BY <2>1, <2>4, <2>5, JoinedGood
  <2>7. buildOperatorExpr[v][c][n] = Joined(parts, "AND", n)
    <3>1. buildOperatorExpr[v] = OperatorLevel(buildOperatorExpr, v)
      BY BuildersUnfold
    <3>2. OperatorLevel(buildOperatorExpr, v)[c][n] = Joined(parts, "AND", n)
      BY DEF OperatorLevel, parts
    <3> QED BY <3>1, <3>2
  <2> QED BY <2>6, <2>7
<1> QED BY <1>3, <1>5

LEMMA FieldGood ==
  ASSUME NEW col, NEW value \in GoValues, NEW start \in Nat
  PROVE  Good(buildFieldExpr(col, value, start), start)
<1>1. CASE col \notin Identifiers
  <2>1. buildFieldExpr(col, value, start) = Fail("invalid")
    BY <1>1 DEF buildFieldExpr
  <2> QED BY <2>1, FailGood
<1>2. CASE col \in Identifiers /\ value.kind = "map" /\ DOMAIN value.f \cap Operators # {}
  <2>1. buildFieldExpr(col, value, start) = buildOperatorExpr[value][col][start]
    BY <1>2 DEF buildFieldExpr
  <2>2. value \in Maps
    BY <1>2 DEF Maps
  <2> QED BY <1>2, <2>1, <2>2, OperatorsGood
<1>3. CASE col \in Identifiers /\ ~(value.kind = "map" /\ DOMAIN value.f \cap Operators # {})
  <2>1. buildFieldExpr(col, value, start) = buildEqualsExpr(col, value, start)
    BY <1>3 DEF buildFieldExpr
  <2> QED BY <1>3, <2>1, EqualsGood
<1> QED BY <1>1, <1>2, <1>3

\* One key of a Where, where the builder for the conditions inside makes good
\* pieces.
LEMMA KeyGood ==
  ASSUME NEW build, NEW key, NEW value \in GoValues, NEW start \in Nat,
         \A u \in Maps, n \in Nat : Nesting[u] <= Nesting[value] => Good(build[u][n], n)
  PROVE  Good(buildKeyExpr(build, key, value, start), start)
<1>1. ASSUME NEW u \in GoValues, Nesting[u] <= Nesting[value], NEW n \in Nat
      PROVE  Good(buildConditionValue(build, u, n), n)
  <2>1. CASE u.kind = "map"
    <3>1. u \in Maps /\ buildConditionValue(build, u, n) = build[u][n]
      BY <2>1 DEF Maps, buildConditionValue
    <3> QED BY <1>1, <3>1
  <2>2. CASE u.kind # "map"
    <3>1. buildConditionValue(build, u, n) = Fail("invalid")
      BY <2>2 DEF buildConditionValue
    <3> QED BY <3>1, FailGood
  <2> QED BY <2>1, <2>2
<1>2. CASE key \in {"AND", "OR"}
  <2> DEFINE list == asConditionList(value)
             parts == Conditions(build, value)
             k == Len(list)
  <2>1. /\ k \in Nat /\ DOMAIN list = 1..k
        /\ \A i \in DOMAIN list : list[i] \in GoValues /\ Nesting[list[i]] <= Nesting[value]
    BY ConditionParts
  <2>2. parts = [i \in DOMAIN list |-> [n \in Nat |-> buildConditionValue(build, list[i], n)]]
    BY DEF Conditions
  <2> HIDE DEF list, parts, k
  <2>3. \A i \in 1..k, n \in Nat : Good(parts[i][n], n)
    BY <1>1, <2>1, <2>2
  <2>4. Len(parts) = k
    <3>1. parts = [i \in 1..k |-> parts[i]]
      BY <2>1, <2>2
    <3> QED BY <2>1, <3>1
  <2>5. Good(Joined(parts, key, start), start)
    BY <1>2, <2>1, <2>3, <2>4, JoinedGood
  <2>6. Good(Bracketed(<<>>, Joined(parts, key, start)), start)
    <3> DEFINE p == Joined(parts, key, start)
    <3> HIDE DEF p
    <3>1. Good(Bracketed(<<>>, p), start)
      BY <2>5, BracketedGood DEF p
    <3> QED BY <3>1 DEF p
  <2>7. buildKeyExpr(build, key, value, start) = Bracketed(<<>>, Joined(parts, key, start))
    BY <1>2 DEF buildKeyExpr, buildLogicalListExpr, parts
  <2> QED BY <2>6, <2>7
<1>3. CASE key = "NOT"
  <2> DEFINE p == buildConditionValue(build, value, start)
  <2>1. Nesting[value] \in Nat /\ Nesting[value] <= Nesting[value]
    BY ValuesAssumption
  <2>2. Good(p, start)
    BY <1>1, <2>1
  <2>3. buildKeyExpr(build, key, value, start) = Bracketed(Tok("NOT"), p)
    BY <1>3 DEF buildKeyExpr, buildNotExpr
  <2> HIDE DEF p
  <2> QED BY <2>2, <2>3, BracketedGood
<1>4. CASE key \notin {"AND", "OR", "NOT"}
  <2>1. buildKeyExpr(build, key, value, start) = buildFieldExpr(key, value, start)
    BY <1>4 DEF buildKeyExpr
  <2> QED BY <2>1, FieldGood
<1> QED BY <1>2, <1>3, <1>4

LEMMA WheresGood ==
  ASSUME NEW m \in Maps, NEW start \in Nat
  PROVE  Good(buildWhereMap[m][start], start)
<1> DEFINE fine(v) == \A n \in Nat : Good(buildWhereMap[v][n], n)
           T == {Nesting[v] : v \in {v \in Maps : ~fine(v)}}
<1>1. SUFFICES ASSUME T # {} PROVE FALSE
  <2> HIDE DEF fine
  <2>1. SUFFICES ASSUME ~fine(m) PROVE T # {}
    BY DEF fine
  <2> QED BY <2>1
<1>2. PICK d \in T : \A y \in T : d <= y
  <2>1. T \subseteq Nat
    <3> HIDE DEF fine
    <3> QED BY MapParts
  <2> HIDE DEF T
  <2> QED BY <1>1, <2>1, LeastNumber
<1>3. PICK v \in Maps : d = Nesting[v] /\ ~fine(v)
  <2> HIDE DEF fine
  <2> QED BY <1>2
<1>4. ASSUME NEW u \in Maps, Nesting[u] < Nesting[v] PROVE fine(u)
  <2>1. Nesting[u] \in Nat /\ Nesting[v] \in Nat /\ ~(d <= Nesting[u])
    BY <1>3, <1>4, MapParts
  <2>2. CASE ~fine(u)
    <3> HIDE DEF fine
    <3>1. Nesting[u] \in T
      BY <2>2
    <3> HIDE DEF T
    <3> QED BY <1>2, <2>1, <3>1
  <2> HIDE DEF fine
  <2> QED BY <2>2
<1>5. ASSUME NEW n \in Nat PROVE Good(buildWhereMap[v][n], n)
  <2> DEFINE keys == SortedKeys(v.f)
             parts == WhereParts(buildWhereMap, v)
             k == Len(keys)
  <2>1. k \in Nat /\ DOMAIN keys = 1..k
    BY MapParts
  <2>2. parts = [i \in DOMAIN keys |->
                   [j \in Nat |-> buildKeyExpr(buildWhereMap, keys[i], v.f[keys[i]], j)]]
    BY DEF WhereParts
  <2>3. ASSUME NEW i \in DOMAIN keys, NEW j \in Nat
        PROVE  Good(buildKeyExpr(buildWhereMap, keys[i], v.f[keys[i]], j), j)
    <3> DEFINE value == v.f[keys[i]]
    <3>1. value \in GoValues /\ Nesting[value] \in Nat /\ Nesting[value] < Nesting[v] /\ Nesting[v] \in Nat
      BY MapParts
    <3> HIDE DEF value
    <3>2. ASSUME NEW u \in Maps, NEW h \in Nat, Nesting[u] <= Nesting[value]
          PROVE  Good(buildWhereMap[u][h], h)
      <4>1. Nesting[u] < Nesting[v]
        BY <3>1, <3>2, MapParts
      <4> QED BY <1>4, <4>1
    <3>3. Good(buildKeyExpr(buildWhereMap, keys[i], value, j), j)
      BY <3>1, <3>2, KeyGood
    <3> QED BY <3>3 DEF value
  <2> HIDE DEF keys, parts, k
  <2>4. \A i \in 1..k, j \in Nat : Good(parts[i][j], j)
    BY <2>1, <2>2, <2>3
  <2>5. Len(parts) = k
    <3>1. parts = [i \in 1..k |-> parts[i]]
      BY <2>1, <2>2
    <3> QED BY <2>1, <3>1
  <2>6. Good(Joined(parts, "AND", n), n)
    BY <2>1, <2>4, <2>5, JoinedGood
  <2>7. buildWhereMap[v][n] = Joined(parts, "AND", n)
    <3>1. buildWhereMap[v] = WhereLevel(buildWhereMap, v)
      BY BuildersUnfold
    <3>2. WhereLevel(buildWhereMap, v)[n] = Joined(parts, "AND", n)
      BY DEF WhereLevel, parts
    <3> QED BY <3>1, <3>2
  <2> QED BY <2>6, <2>7
<1> QED BY <1>3, <1>5

LEMMA ClauseGood ==
  ASSUME NEW where \in Wheres, NEW start \in Nat
  PROVE  Good(whereClause(where, start), start)
<1>1. Map(where) \in GoValues
  BY ValuesAssumption
<1>2. Map(where) \in Maps
  BY <1>1 DEF Maps, Map
<1> QED BY <1>2, WheresGood DEF whereClause

----------------------------------------------------------------------------
(* Statements.                                                              *)

Built(st) == st.err = ""

\* What BindsOwnValues says of a call and its statement.
Binds(st, c) ==
    LET set == [i \in DOMAIN st.set |-> st.set[i].ph]
        where == Placeholders(st.where)
        n == Len(set) + Len(where)
    IN  /\ set \o where \o st.limit \o st.offset = [i \in DOMAIN st.args |-> ph(i)]
        /\ c.op \in {"insert", "update"} =>
             /\ {st.set[i].col : i \in DOMAIN set} = DOMAIN c.values
             /\ Len(set) = Cardinality(DOMAIN c.values)
             /\ \A i \in DOMAIN set : st.args[i] = c.values[st.set[i].col]
        /\ c.op = "select" =>
             /\ c.limit > 0 => st.limit # <<>> /\ st.args[n + 1] = Scalar(c.limit)
             /\ c.offset > 0 =>
                  st.offset # <<>> /\ st.args[n + Len(st.limit) + 1] = Scalar(c.offset)

\* Numbers from 1 on, in four runs.
Runs(k, l, a, b) == From(0, k) \o From(k, l) \o From(k + l, a) \o From(k + l + a, b)

LEMMA FourRuns ==
  ASSUME NEW k \in Nat, NEW l \in Nat, NEW a \in Nat, NEW b \in Nat
  PROVE  Runs(k, l, a, b) = From(0, k + l + a + b)
<1>1. From(0, k) \o From(k, l) = From(0, k + l)
  <2>1. From(0, k) \o From(0 + k, l) = From(0, k + l)
    BY FromConcat
  <2> QED BY <2>1
<1>2. From(0, k + l) \o From(k + l, a) = From(0, k + l + a)
  <2> DEFINE m == k + l
  <2>1. m \in Nat /\ 0 + m = m
    OBVIOUS
  <2> HIDE DEF m
  <2>2. From(0, m) \o From(0 + m, a) = From(0, m + a)
    BY <2>1, FromConcat
  <2>3. From(0, m) \o From(m, a) = From(0, m + a)
    BY <2>1, <2>2
  <2> QED BY <2>3 DEF m
<1>3. From(0, k + l + a) \o From(k + l + a, b) = From(0, k + l + a + b)
  <2> DEFINE m == k + l + a
  <2>1. m \in Nat /\ 0 + m = m
    OBVIOUS
  <2> HIDE DEF m
  <2>2. From(0, m) \o From(0 + m, b) = From(0, m + b)
    BY <2>1, FromConcat
  <2>3. From(0, m) \o From(m, b) = From(0, m + b)
    BY <2>1, <2>2
  <2> QED BY <2>3 DEF m
<1> QED BY <1>1, <1>2, <1>3, Zenon DEF Runs

LEMMA FromZero ==
  ASSUME NEW n \in Nat
  PROVE  From(0, n) = [i \in 1..n |-> ph(i)]
<1>1. \A i \in 1..n : 0 + i = i
  OBVIOUS
<1>2. [i \in 1..n |-> ph(0 + i)] = [i \in 1..n |-> ph(i)]
  BY <1>1
<1> QED BY <1>2 DEF From

\* The columns of a Values, their placeholders and their arguments.
LEMMA Assigned ==
  ASSUME NEW values \in Patches
  PROVE  LET cols == normalizedValues(values)
             k == Len(cols)
             set == Assign(cols)
             args == [i \in DOMAIN cols |-> values[cols[i]]]
         IN  /\ k \in Nat /\ k = Cardinality(DOMAIN values)
             /\ DOMAIN set = 1..k
             /\ {set[i].col : i \in 1..k} = DOMAIN values
             /\ [i \in DOMAIN set |-> set[i].ph] = From(0, k)
             /\ IsList(args) /\ Len(args) = k
             /\ \A i \in 1..k : args[i] = values[set[i].col]
<1> DEFINE cols == normalizedValues(values)
           k == Len(cols)
           set == Assign(cols)
           args == [i \in DOMAIN cols |-> values[cols[i]]]
<1>1. DOMAIN values \subseteq Range(KeyOrder)
  BY KeysAssumption
<1>2. k \in Nat /\ k = Cardinality(DOMAIN values) /\ DOMAIN cols = 1..k /\ Range(cols) = DOMAIN values
  BY <1>1, KeysSorted DEF normalizedValues
<1>3. set = [i \in DOMAIN cols |-> [col |-> cols[i], ph |-> ph(i)]]
  BY DEF Assign
<1> HIDE DEF cols, set, k
<1>4. DOMAIN set = 1..k /\ \A i \in 1..k : set[i].col = cols[i] /\ set[i].ph = ph(i)
  BY <1>2, <1>3
<1>5. {set[i].col : i \in 1..k} = DOMAIN values
  <2>1. {set[i].col : i \in 1..k} = {cols[i] : i \in 1..k}
    BY <1>4
  <2> QED BY <1>2, <2>1 DEF Range
<1>6. [i \in DOMAIN set |-> set[i].ph] = From(0, k)
  <2>1. \A i \in 1..k : 0 + i = i
    BY <1>2
  <2>2. [i \in DOMAIN set |-> set[i].ph] = [i \in 1..k |-> ph(0 + i)]
    BY <1>4, <2>1
  <2> QED BY <2>2 DEF From
<1>7. args = [i \in 1..k |-> args[i]] /\ \A i \in 1..k : args[i] = values[cols[i]]
  BY <1>2
<1> HIDE DEF args
<1>8. IsList(args) /\ Len(args) = k
  <2> DEFINE R == Range(args)
  <2>1. \A i \in 1..k : args[i] \in R
    BY <1>7 DEF Range
  <2> HIDE DEF R
  <2>2. args \in Seq(R) /\ Len(args) = k
    BY <1>2, <1>7, <2>1
  <2> QED BY <2>2, SeqIsList
<1> QED BY <1>2, <1>4, <1>5, <1>6, <1>7, <1>8 DEF cols, k, set, args

LEMMA NoneList == IsList(<<>>) /\ Len(<<>>) = 0
BY DEF IsList, Range

LEMMA OneList ==
  ASSUME NEW x
  PROVE  IsList(<<x>>) /\ Len(<<x>>) = 1 /\ <<x>>[1] = x
<1>1. <<x>> \in Seq({x}) /\ Len(<<x>>) = 1 /\ <<x>>[1] = x
  OBVIOUS
<1> QED BY <1>1, SeqIsList

LEMMA FromOne ==
  ASSUME NEW n \in Nat
  PROVE  From(n, 1) = <<ph(n + 1)>>
<1>1. From(n, 1) = [i \in 1..1 |-> ph(n + i)]
  BY DEF From
<1> QED BY <1>1

\* k columns, l arguments of the condition, a for LIMIT and b for OFFSET.
Parts(k, l, a, b, set, sql, lim, off, args, c) ==
    /\ DOMAIN set = 1..k /\ [i \in DOMAIN set |-> set[i].ph] = From(0, k)
    /\ Placeholders(sql) = From(k, l) /\ lim = From(k + l, a) /\ off = From(k + l + a, b)
    /\ IsList(args) /\ Len(args) = k + l + a + b
    /\ c.op \in {"insert", "update"} =>
          /\ {set[i].col : i \in 1..k} = DOMAIN c.values
          /\ k = Cardinality(DOMAIN c.values)
          /\ \A i \in 1..k : args[i] = c.values[set[i].col]
    /\ c.op = "select" =>
          /\ c.limit > 0 => a # 0 /\ args[k + l + 1] = Scalar(c.limit)
          /\ c.offset > 0 => b # 0 /\ args[k + l + a + 1] = Scalar(c.offset)

LEMMA StatementBinds ==
  ASSUME NEW k \in Nat, NEW l \in Nat, NEW a \in Nat, NEW b \in Nat,
         NEW set, NEW sql, NEW lim, NEW off, NEW args, NEW c,
         Parts(k, l, a, b, set, sql, lim, off, args, c)
  PROVE  Binds(Statement(set, sql, lim, off, args), c)
<1> DEFINE st == Statement(set, sql, lim, off, args)
           phs == [i \in DOMAIN set |-> set[i].ph]
           where == Placeholders(sql)
<1>1. st.set = set /\ st.where = sql /\ st.limit = lim /\ st.offset = off /\ st.args = args
  BY DEF Statement
<1>2. phs = From(0, k) /\ where = From(k, l) /\ DOMAIN phs = 1..k
  BY DEF Parts
<1>l. lim = From(k + l, a) /\ off = From(k + l + a, b) /\ IsList(args) /\ Len(args) = k + l + a + b
  BY DEF Parts
<1> HIDE DEF st, phs, where
<1>3. Len(phs) = k
  BY <1>2, FromType
<1>4. Len(where) = l
  BY <1>2, FromType
<1>5. Len(lim) = a
  <2>1. k + l \in Nat
    OBVIOUS
  <2> QED BY <1>l, <2>1, FromType
<1>6. b # 0 => off # <<>>
  <2>1. k + l + a \in Nat
    OBVIOUS
  <2>2. Len(off) = b
    BY <1>l, <2>1, FromType
  <2> QED BY <2>2
<1>7. a # 0 => lim # <<>>
  BY <1>5
<1>8. phs \o where \o lim \o off = [i \in DOMAIN args |-> ph(i)]
  <2>1. DOMAIN args = 1..k + l + a + b
    BY <1>l, ListParts
  <2>2. Runs(k, l, a, b) = From(0, k + l + a + b)
    BY FourRuns
  <2>3. From(0, k + l + a + b) = [i \in 1..k + l + a + b |-> ph(i)]
    <3> DEFINE m == k + l + a + b
    <3>1. m \in Nat
      OBVIOUS
    <3> HIDE DEF m
    <3>2. From(0, m) = [i \in 1..m |-> ph(i)]
      BY <3>1, FromZero
    <3> QED BY <3>2 DEF m
  <2> QED BY <1>2, <1>l, <2>1, <2>2, <2>3, Zenon DEF Runs
<1>9. ASSUME c.op \in {"insert", "update"}
      PROVE  /\ {st.set[i].col : i \in DOMAIN phs} = DOMAIN c.values
             /\ Len(phs) = Cardinality(DOMAIN c.values)
             /\ \A i \in DOMAIN phs : st.args[i] = c.values[st.set[i].col]
  BY <1>1, <1>2, <1>3, <1>9, Zenon DEF Parts
<1>10. ASSUME c.op = "select"
       PROVE  /\ c.limit > 0 => st.limit # <<>> /\ st.args[Len(phs) + Len(where) + 1] = Scalar(c.limit)
              /\ c.offset > 0 =>
                   st.offset # <<>>
                   /\ st.args[Len(phs) + Len(where) + Len(st.limit) + 1] = Scalar(c.offset)
  BY <1>1, <1>3, <1>4, <1>5, <1>6, <1>7, <1>10, Zenon DEF Parts
<1> QED BY <1>1, <1>8, <1>9, <1>10 DEF Binds, phs, where, st

LEMMA InsertBinds ==
  ASSUME NEW values \in Patches, Built(insertQuery(values))
  PROVE  Binds(insertQuery(values), [op |-> "insert", values |-> values])
<1> DEFINE cols == normalizedValues(values)
           k == Len(cols)
           set == Assign(cols)
           args == [i \in DOMAIN cols |-> values[cols[i]]]
           c == [op |-> "insert", values |-> values]
<1>1. insertQuery(values) = Statement(set, <<>>, <<>>, <<>>, args)
  BY DEF insertQuery, Built, Refused, NoStmt
<1>2. /\ k \in Nat /\ k = Cardinality(DOMAIN values)
      /\ DOMAIN set = 1..k
      /\ {set[i].col : i \in 1..k} = DOMAIN values
      /\ [i \in DOMAIN set |-> set[i].ph] = From(0, k)
      /\ IsList(args) /\ Len(args) = k
      /\ \A i \in 1..k : args[i] = values[set[i].col]
  BY Assigned
<1>3. c.op = "insert" /\ c.values = values
  OBVIOUS
<1> HIDE DEF args, cols, k, set, c
<1>4. k + 0 = k /\ k + 0 + 0 = k /\ k + 0 + 0 + 0 = k
  BY <1>2
<1>5. Placeholders(<<>>) = From(k, 0) /\ <<>> = From(k + 0, 0) /\ <<>> = From(k + 0 + 0, 0)
  BY HoldersEmpty, FromNone
<1>6. Parts(k, 0, 0, 0, set, <<>>, <<>>, <<>>, args, c)
  BY <1>2, <1>3, <1>4, <1>5, Zenon DEF Parts
<1>7. Binds(Statement(set, <<>>, <<>>, <<>>, args), c)
  BY <1>2, <1>6, StatementBinds
<1> QED BY <1>1, <1>7 DEF c

LEMMA UpdateBinds ==
  ASSUME NEW where \in Wheres, NEW patch \in Patches, Built(updateQuery(where, patch))
  PROVE  Binds(updateQuery(where, patch), [op |-> "update", where |-> where, values |-> patch])
<1> DEFINE cols == normalizedValues(patch)
           k == Len(cols)
           w == whereClause(where, k)
           l == Len(w.args)
           set == Assign(cols)
           vals == [i \in DOMAIN cols |-> patch[cols[i]]]
           args == vals \o w.args
           c == [op |-> "update", where |-> where, values |-> patch]
<1>1. w.err = "" /\ updateQuery(where, patch) = Statement(set, w.sql, <<>>, <<>>, args)
  BY DEF updateQuery, Built, Refused, NoStmt
<1>2. /\ k \in Nat /\ k = Cardinality(DOMAIN patch)
      /\ DOMAIN set = 1..k
      /\ {set[i].col : i \in 1..k} = DOMAIN patch
      /\ [i \in DOMAIN set |-> set[i].ph] = From(0, k)
      /\ IsList(vals) /\ Len(vals) = k
      /\ \A i \in 1..k : vals[i] = patch[set[i].col]
  BY Assigned
<1>3. c.op = "update" /\ c.values = patch
  OBVIOUS
<1> HIDE DEF k
<1>4. Good(w, k)
  BY <1>2, ClauseGood
<1> HIDE DEF w
<1>5. w.sql \in Seq(Token) /\ IsList(w.args) /\ Placeholders(w.sql) = From(k, l) /\ l \in Nat
  BY <1>1, <1>4, ListParts DEF Good, Sound
<1> HIDE DEF vals, cols, set, c
<1>6. IsList(args) /\ Len(args) = Len(vals) + Len(w.args) /\ \A i \in 1..Len(vals) : args[i] = vals[i]
  <2>1. IsList(vals) /\ IsList(w.args)
    BY <1>2, <1>5, Zenon
  <2> QED BY <2>1, ListConcat, Zenon
<1> HIDE DEF args, l
<1>7. k + l + 0 = k + l /\ k + l + 0 + 0 = k + l
  BY <1>2, <1>5
<1>8. Len(args) = k + l + 0 + 0 /\ \A i \in 1..k : args[i] = patch[set[i].col]
  BY <1>2, <1>6, <1>7 DEF l
<1>9. <<>> = From(k + l, 0) /\ <<>> = From(k + l + 0, 0)
  BY FromNone
<1>10. Parts(k, l, 0, 0, set, w.sql, <<>>, <<>>, args, c)
  BY <1>2, <1>3, <1>5, <1>6, <1>8, <1>9, Zenon DEF Parts
<1>11. Binds(Statement(set, w.sql, <<>>, <<>>, args), c)
  BY <1>2, <1>5, <1>10, StatementBinds
<1> QED BY <1>1, <1>11 DEF c

LEMMA DeleteBinds ==
  ASSUME NEW where \in Wheres, Built(deleteQuery(where))
  PROVE  Binds(deleteQuery(where), [op |-> "delete", where |-> where])
<1> DEFINE w == whereClause(where, 0)
           l == Len(w.args)
           c == [op |-> "delete", where |-> where]
<1>1. w.err = "" /\ deleteQuery(where) = Statement(<<>>, w.sql, <<>>, <<>>, w.args)
  BY DEF deleteQuery, Built, Refused, NoStmt
<1>2. Good(w, 0)
  BY ClauseGood
<1>3. c.op = "delete"
  OBVIOUS
<1> HIDE DEF w, c
<1>4. Placeholders(w.sql) = From(0, l) /\ IsList(w.args) /\ l \in Nat
  BY <1>1, <1>2, ListParts DEF Good, Sound
<1>5. DOMAIN <<>> = 1..0 /\ [i \in DOMAIN <<>> |-> <<>>[i].ph] = From(0, 0)
  <2>1. DOMAIN <<>> = 1..0 /\ [i \in DOMAIN <<>> |-> <<>>[i].ph] = <<>>
    OBVIOUS
  <2> QED BY <2>1, FromNone
<1>6. <<>> = From(0 + l, 0) /\ <<>> = From(0 + l + 0, 0)
  BY FromNone
<1>7. Len(w.args) = 0 + l + 0 + 0
  <2> HIDE DEF l
  <2>1. 0 + l + 0 + 0 = l
    BY <1>4
  <2> QED BY <2>1 DEF l
<1> HIDE DEF l
<1>8. Parts(0, l, 0, 0, <<>>, w.sql, <<>>, <<>>, w.args, c)
  <2>1. c.op \notin {"insert", "update"} /\ c.op # "select"
    BY <1>3
  <2> QED BY <1>4, <1>5, <1>6, <1>7, <2>1, Zenon DEF Parts
<1>9. Binds(Statement(<<>>, w.sql, <<>>, <<>>, w.args), c)
  BY <1>4, <1>8, StatementBinds
<1> QED BY <1>1, <1>9 DEF c

\* LIMIT, or OFFSET: at most one argument more.
LEMMA AtMostOne ==
  ASSUME NEW n \in Nat, NEW value \in Int
  PROVE  LET A == IF value > 0 THEN <<Scalar(value)>> ELSE <<>>
             text == IF value > 0 THEN <<ph(n + 1)>> ELSE <<>>
         IN  /\ IsList(A) /\ Len(A) \in Nat /\ Len(text) = Len(A) /\ text = From(n, Len(A))
             /\ value > 0 => Len(A) = 1 /\ A[1] = Scalar(value)
<1>1. CASE value > 0
  <2> DEFINE x == Scalar(value)
             y == ph(n + 1)
  <2>1. IsList(<<x>>) /\ Len(<<x>>) = 1 /\ <<x>>[1] = x /\ Len(<<y>>) = 1
    BY OneList
  <2>2. From(n, 1) = <<y>>
    BY FromOne
  <2> HIDE DEF x, y
  <2> QED BY <1>1, <2>1, <2>2 DEF x, y
<1>2. CASE ~(value > 0)
  BY <1>2, NoneList, FromNone
<1> QED BY <1>1, <1>2

LEMMA SelectBinds ==
  ASSUME NEW where \in Wheres, NEW limit \in Int, NEW offset \in Int,
         Built(selectQuery(where, limit, offset))
  PROVE  Binds(selectQuery(where, limit, offset),
               [op |-> "select", where |-> where, limit |-> limit, offset |-> offset])
<1> DEFINE w == whereClause(where, 0)
           l == Len(w.args)
           n == l + 1
           lim == IF limit > 0 THEN <<ph(l + 1)>> ELSE <<>>
           off == IF offset > 0 THEN <<ph(l + 1 + Len(lim))>> ELSE <<>>
           A == IF limit > 0 THEN <<Scalar(limit)>> ELSE <<>>
           B == IF offset > 0 THEN <<Scalar(offset)>> ELSE <<>>
           a == Len(A)
           b == Len(B)
           args == w.args \o A \o B
           c == [op |-> "select", where |-> where, limit |-> limit, offset |-> offset]
<1>1. w.err = "" /\ selectQuery(where, limit, offset) = Statement(<<>>, w.sql, lim, off, args)
  BY DEF selectQuery, Built, Refused, NoStmt
<1>2. Good(w, 0)
  BY ClauseGood
<1>3. c.op = "select" /\ c.limit = limit /\ c.offset = offset
  OBVIOUS
<1> HIDE DEF w, c
<1>4. Placeholders(w.sql) = From(0, l) /\ IsList(w.args) /\ l \in Nat
  BY <1>1, <1>2, ListParts DEF Good, Sound
<1>l. l = Len(w.args)
  OBVIOUS
<1> HIDE DEF l
<1>5. /\ IsList(A) /\ a \in Nat /\ Len(lim) = a /\ lim = From(l, a)
      /\ limit > 0 => a = 1 /\ A[1] = Scalar(limit)
  BY <1>4, AtMostOne
<1>6. /\ IsList(B) /\ b \in Nat /\ off = From(l + a, b)
      /\ offset > 0 => b = 1 /\ B[1] = Scalar(offset)
  <2> DEFINE m == l + a
             text == IF offset > 0 THEN <<ph(m + 1)>> ELSE <<>>
  <2> HIDE DEF A, a, lim
  <2>1. m \in Nat /\ l + 1 + Len(lim) = m + 1
    BY <1>4, <1>5
  <2> HIDE DEF m
  <2>2. off = text
    BY <2>1
  <2>3. /\ IsList(B) /\ b \in Nat /\ text = From(m, b)
        /\ offset > 0 => b = 1 /\ B[1] = Scalar(offset)
    BY <2>1, AtMostOne
  <2> HIDE DEF text, off, B, b
  <2> QED BY <2>2, <2>3 DEF m
<1>b. a = Len(A) /\ b = Len(B)
  OBVIOUS
<1> HIDE DEF lim, off, A, B, a, b
<1>7. /\ IsList(w.args \o A) /\ Len(w.args \o A) = l + a
      /\ \A j \in 1..a : (w.args \o A)[l + j] = A[j]
  BY <1>4, <1>5, <1>b, <1>l, ListConcat
<1> DEFINE d == w.args \o A
<1>d. args = d \o B
  OBVIOUS
<1> HIDE DEF d, args
<1>8. /\ IsList(args) /\ Len(args) = l + a + b
      /\ \A i \in 1..l + a : args[i] = d[i]
      /\ \A j \in 1..b : args[l + a + j] = B[j]
  <2>1. IsList(d) /\ Len(d) = l + a
    BY <1>7 DEF d
  <2>2. /\ IsList(d \o B) /\ Len(d \o B) = Len(d) + Len(B)
        /\ \A i \in 1..Len(d) : (d \o B)[i] = d[i]
        /\ \A j \in 1..Len(B) : (d \o B)[Len(d) + j] = B[j]
    BY <1>6, <2>1, ListConcat
  <2> QED BY <1>b, <1>d, <2>1, <2>2, Zenon
<1>9. limit > 0 => a # 0 /\ args[l + 1] = Scalar(limit)
  <2> SUFFICES ASSUME limit > 0 PROVE a # 0 /\ args[l + 1] = Scalar(limit)
    OBVIOUS
  <2>1. a = 1 /\ A[1] = Scalar(limit)
    BY <1>5
  <2>2. 1 \in 1..a /\ l + 1 \in 1..l + a /\ a # 0
    BY <1>4, <2>1
  <2>3. d[l + 1] = A[1]
    BY <1>7, <2>2 DEF d
  <2> QED BY <1>8, <2>1, <2>2, <2>3
<1>10. offset > 0 => b # 0 /\ args[l + a + 1] = Scalar(offset)
  <2> SUFFICES ASSUME offset > 0 PROVE b # 0 /\ args[l + a + 1] = Scalar(offset)
    OBVIOUS
  <2>1. b = 1 /\ B[1] = Scalar(offset)
    BY <1>6
  <2>2. 1 \in 1..b /\ b # 0
    BY <2>1
  <2> QED BY <1>8, <2>1, <2>2
<1>11. 0 + l = l
  BY <1>4
<1>12. DOMAIN <<>> = 1..0 /\ [i \in DOMAIN <<>> |-> <<>>[i].ph] = From(0, 0)
  <2>1. DOMAIN <<>> = 1..0 /\ [i \in DOMAIN <<>> |-> <<>>[i].ph] = <<>>
    OBVIOUS
  <2> QED BY <2>1, FromNone
<1>13. /\ lim = From(0 + l, a) /\ off = From(0 + l + a, b) /\ Len(args) = 0 + l + a + b
       /\ c.limit > 0 => a # 0 /\ args[0 + l + 1] = Scalar(c.limit)
       /\ c.offset > 0 => b # 0 /\ args[0 + l + a + 1] = Scalar(c.offset)
  BY <1>3, <1>5, <1>6, <1>8, <1>9, <1>10, <1>11
<1>14. Parts(0, l, a, b, <<>>, w.sql, lim, off, args, c)
  <2>1. c.op \notin {"insert", "update"}
    BY <1>3
  <2> QED BY <1>4, <1>8, <1>12, <1>13, <2>1, Zenon DEF Parts
<1>15. Binds(Statement(<<>>, w.sql, lim, off, args), c)
  BY <1>4, <1>5, <1>6, <1>14, StatementBinds
<1> QED BY <1>1, <1>15 DEF c

\* Whatever is asked for, from left to right a statement has one placeholder
\* for every argument, with its own number, and each value goes where it
\* belongs: the columns of SET and VALUES, LIMIT and OFFSET.
THEOREM OwnValues == QuerySpec => []BindsOwnValues
<1>0. BindsOwnValues <=> (stmt.err = "" => Binds(stmt, call))
  BY DEF BindsOwnValues, Binds
<1>1. QueryInit => BindsOwnValues
  BY DEF QueryInit, NoStmt, BindsOwnValues
<1>2. BindsOwnValues /\ [QueryNext]_queryVars => BindsOwnValues'
  <2> SUFFICES ASSUME BindsOwnValues, [QueryNext]_queryVars PROVE BindsOwnValues'
    OBVIOUS
  <2> DEFINE P(st, c) == Built(st) => Binds(st, c)
  <2>0. ASSUME numbered' = numbered, P(stmt', call') PROVE BindsOwnValues'
    BY <2>0 DEF BindsOwnValues, Binds, Built, ph
  <2>1. ASSUME NEW v \in Patches, BuildInsert(v) PROVE BindsOwnValues'
    <3>1. P(insertQuery(v), [op |-> "insert", values |-> v])
      BY InsertBinds
    <3> HIDE DEF P
    <3> QED BY <2>0, <2>1, <3>1 DEF BuildInsert, Idle
  <2>2. ASSUME NEW w \in Wheres, NEW v \in Patches, BuildUpdate(w, v) PROVE BindsOwnValues'
    <3>1. P(updateQuery(w, v), [op |-> "update", where |-> w, values |-> v])
      BY UpdateBinds
    <3> HIDE DEF P
    <3> QED BY <2>0, <2>2, <3>1 DEF BuildUpdate, Idle
  <2>3. ASSUME NEW w \in Wheres, BuildDelete(w) PROVE BindsOwnValues'
    <3>1. P(deleteQuery(w), [op |-> "delete", where |-> w])
      BY DeleteBinds
    <3> HIDE DEF P
    <3> QED BY <2>0, <2>3, <3>1 DEF BuildDelete, Idle
  <2>4. ASSUME NEW w \in Wheres, NEW l \in Limits, NEW o \in Offsets, BuildSelect(w, l, o)
        PROVE  BindsOwnValues'
    <3>1. l \in Int /\ o \in Int
      BY LimitsAssumption
    <3>2. P(selectQuery(w, l, o), [op |-> "select", where |-> w, limit |-> l, offset |-> o])
      BY <3>1, SelectBinds
    <3> HIDE DEF P
    <3> QED BY <2>0, <2>4, <3>2 DEF BuildSelect, Idle
  <2>5. CASE Return
    <3>1. P(NoStmt, NoCall)
      BY DEF NoStmt, Built
    <3> HIDE DEF P
    <3> QED BY <2>0, <2>5, <3>1 DEF Return
  <2>6. CASE UNCHANGED queryVars
    <3>1. P(stmt, call)
      BY <1>0 DEF Built
    <3> HIDE DEF P
    <3> QED BY <2>0, <2>6, <3>1 DEF queryVars
  <2> QED BY <2>1, <2>2, <2>3, <2>4, <2>5, <2>6 DEF QueryNext
<1> QED BY <1>1, <1>2, PTL DEF QuerySpec

=============================================================================
