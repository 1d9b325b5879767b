------------------------------ MODULE OrmTable ------------------------------
(* The operations of orm/table.go on one table, as concurrent calls: which   *)
(* statements each sends, in which order, in a transaction or not, and what  *)
(* it answers. A statement is atomic at the database; between the            *)
(* statements of one call those of the others run.                           *)
(*                                                                          *)
(* The database is external: READ COMMITTED, with or without a unique        *)
(* constraint on column k. A statement that would write a key that an open   *)
(* transaction has inserted waits for that transaction; of transactions that *)
(* wait for each other the database ends one. A statement may fail, and may  *)
(* take effect although its answer is an error.                              *)
EXTENDS Naturals, FiniteSets, Sequences

CONSTANTS
    Calls,       \* concurrent calls
    Requests,    \* [op, where, create, patch, list]: what a call may ask for
    Tables,      \* initial contents: sequences of records
    Values,      \* what a column can be given
    Null,        \* SQL NULL, for a column that was not given a value
    None,        \* no transaction
    MaxFaults    \* statements that fail or whose answer is lost

VARIABLES
    unique,      \* column k has a unique constraint
    returning,   \* supportsReturning: the dialect is postgres, pg, sqlite or sqlite3
    table,       \* id -> [rec, tx]: the rows and the transaction that inserted them
    nextId,
    faults,
    pc, req,     \* of each call
    mode,        \* "tx", or "direct" when BeginTx gave no transaction
    found,       \* rows of the call's first query: id -> record
    ret,         \* answer: [err, count, recs]
    made,        \* rows the call has inserted for good
    wrote,       \* rows its UPDATE, or the INSERT of its Create, wrote: id -> record
    met,         \* what other calls have done to the rows of its Where since it began
    hit          \* a fault has hit this call

\* The columns of the table; an Upsert, an update or a condition names some.
Columns == {"k", "v"}
Given == UNION {[S -> Values] : S \in SUBSET Columns}
Row == [Columns -> Values \cup {Null}]

Ops == {"create", "createMany", "createManyAndReturn", "findFirst", "findUnique",
        "updateMany", "updateManyAndReturn", "delete", "upsert"}

RequestType == [op : Ops, where : Given, create : Given, patch : Given,
                list : Seq(Given \ {[col \in {} |-> col]})]

ASSUME OrmTableAssumption ==
    /\ None \notin Calls
    /\ Null \notin Values
    /\ Requests \subseteq RequestType
    /\ Tables \subseteq Seq(Row)
    /\ MaxFaults \in Nat

data == <<table, nextId>>
ghost == <<made, wrote, met, hit>>
vars == <<unique, returning, data, faults, pc, req, mode, found, ret, ghost>>

Empty == [col \in {} |-> col]
NoAnswer == [err |-> "nil", count |-> 0, recs |-> Empty]
NoRequest == [op |-> "none", where |-> Empty, create |-> Empty, patch |-> Empty, list |-> <<>>]

Init ==
    /\ unique \in BOOLEAN /\ returning \in BOOLEAN
    /\ \E t \in Tables :
         /\ table = [i \in 1..Len(t) |-> [rec |-> t[i], tx |-> None]]
         /\ nextId = Len(t) + 1
         /\ unique => \A i, j \in 1..Len(t) : t[i]["k"] = t[j]["k"] => i = j \/ t[i]["k"] = Null
    /\ faults = 0
    /\ pc = [c \in Calls |-> "idle"]
    /\ req = [c \in Calls |-> NoRequest]
    /\ mode = [c \in Calls |-> "direct"]
    /\ found = [c \in Calls |-> Empty]
    /\ ret = [c \in Calls |-> NoAnswer]
    /\ made = [c \in Calls |-> 0]
    /\ wrote = [c \in Calls |-> Empty]
    /\ met = [c \in Calls |-> {}]
    /\ hit = [c \in Calls |-> FALSE]

----------------------------------------------------------------------------
(* Conditions, records and values.                                          *)

\* A Where of equalities; OrmQuery has the others.
Matches(rec, where) == \A col \in DOMAIN where : rec[col] = where[col]

\* Rows a statement of c finds in t.
Seen(t, c) == {i \in DOMAIN t : t[i].tx \in {None, c} /\ Matches(t[i].rec, req[c].where)}

Matching(c) == Seen(table, c)

Records(S) == [i \in S |-> table[i].rec]

\* f, and what g has for other columns.
Over(f, g) == [col \in DOMAIN f \cup DOMAIN g |-> IF col \in DOMAIN f THEN f[col] ELSE g[col]]

\* The row an INSERT of these values stores.
Stored(values) == Over(values, [col \in Columns |-> Null])

\* Fault: the old values of a row win over the patch.
applyPatchKeepsOld(recs, patch) == [i \in DOMAIN recs |-> Over(recs[i], patch)]

applyPatch(recs, patch) == [i \in DOMAIN recs |-> Over(patch, recs[i])]

mergeCreateAndWhere(create, where) == Over(create, where)

\* The columns of the SELECT that stands in for RETURNING.
columnHints(where, patch) == DOMAIN where \cup DOMAIN patch

Project(recs, cols) == [i \in DOMAIN recs |-> [col \in cols |-> recs[i][col]]]

----------------------------------------------------------------------------
(* The database.                                                            *)

Running(c) == pc[c] \notin {"idle", "done"}

\* What c's next statement inserts, or the key it gives the rows it updates.
NextKeys(c) ==
    (CASE pc[c] = "insert" -> {Stored(req[c].list[ret[c].count + 1])["k"]}
       [] pc[c] = "create" -> {Stored(mergeCreateAndWhere(req[c].create, req[c].where))["k"]}
       [] pc[c] = "update" /\ "k" \in DOMAIN req[c].patch /\ Matching(c) # {} ->
            {req[c].patch["k"]}
       [] OTHER -> {}) \ {Null}

\* Transactions c's next statement has to wait for.
WaitsFor(c) ==
    IF ~unique THEN {}
    ELSE {table[i].tx : i \in {i \in DOMAIN table : /\ table[i].tx \notin {None, c}
                                                    /\ table[i].rec["k"] \in NextKeys(c)}}

\* The unique constraint refuses the statement.
Violates(c) ==
    /\ unique
    /\ \/ \E i \in DOMAIN table : /\ table[i].tx \in {None, c}
                                  /\ table[i].rec["k"] \in NextKeys(c)
                                  /\ pc[c] = "update" => i \notin Matching(c)
       \/ pc[c] = "update" /\ NextKeys(c) # {} /\ Cardinality(Matching(c)) > 1

\* c is among those that it waits for, directly or through others.
InCycle(c) ==
    \A S \in SUBSET Calls :
        WaitsFor(c) \subseteq S /\ (\A d \in S : WaitsFor(d) \subseteq S) => c \in S

\* How c's next statement ends.
Outcomes(c) ==
    IF WaitsFor(c) # {} THEN IF InCycle(c) THEN {"deadlock"} ELSE {}
    ELSE IF Violates(c) THEN {"constraint"}
    ELSE {"ok"} \cup IF faults < MaxFaults THEN {"failed", "lost"} ELSE {}

Effective(o) == o \in {"ok", "lost"}

ErrOf(o) == IF o = "ok" THEN "nil" ELSE o

Faulted(c, o) ==
    /\ faults' = IF o \in {"failed", "lost"} THEN faults + 1 ELSE faults
    /\ hit' = [hit EXCEPT ![c] = @ \/ o \in {"failed", "lost"}]

\* What c's change of the table does to the rows that d's Where is about.
Meets(d) ==
    LET before == Matching(d)
        after  == Seen(table', d)
    IN  (IF before \subseteq after THEN {} ELSE {"gone"}) \cup
        (IF after \subseteq before THEN {} ELSE {"joined"}) \cup
        (IF \A i \in before \cap after : table'[i].rec = table[i].rec THEN {} ELSE {"changed"})

Disturb(c) ==
    met' = [d \in Calls |-> IF d # c /\ Running(d) THEN met[d] \cup Meets(d) ELSE met[d]]

\* What an UPDATE makes of the rows it matches.
Updated(S, patch) == [i \in S |-> Over(patch, table[i].rec)]

Added(values, tx) ==
    [i \in DOMAIN table \cup {nextId} |->
        IF i = nextId THEN [rec |-> Stored(values), tx |-> tx] ELSE table[i]]

\* The rows of a transaction that ended.
Ended(c, committed) ==
    LET kept == {i \in DOMAIN table : table[i].tx # c \/ committed} IN
    [i \in kept |-> IF table[i].tx = c THEN [table[i] EXCEPT !.tx = None] ELSE table[i]]

----------------------------------------------------------------------------
(* Steps that several operations share.                                     *)

Answer(c, err, count, recs) ==
    /\ pc' = [pc EXCEPT ![c] = "done"]
    /\ ret' = [ret EXCEPT ![c] = [err |-> err, count |-> count, recs |-> recs]]

Goto(c, label) == pc' = [pc EXCEPT ![c] = label] /\ UNCHANGED ret

Fixed == UNCHANGED <<unique, returning, req>>

\* What a bulk insert answers with: the rows the database returned, or the
\* values it was given.
Created(c) ==
    IF req[c].op = "createMany" THEN Empty
    ELSE [i \in DOMAIN req[c].list |->
            IF returning THEN Stored(req[c].list[i]) ELSE req[c].list[i]]

\* A query that changes nothing.
Query(c, o) ==
    /\ Faulted(c, o)
    /\ Fixed /\ UNCHANGED <<data, mode, made, wrote, met>>

----------------------------------------------------------------------------
(* Operations.                                                              *)

\* The checks before the first statement.
Start(c) ==
    /\ pc[c] = "idle"
    /\ \E r \in Requests :
         /\ req' = [req EXCEPT ![c] = r]
         /\ CASE r.op \in {"createMany", "createManyAndReturn"} ->
                   IF r.list = <<>> THEN Answer(c, "nil", 0, Empty) ELSE Goto(c, "begin")
              [] r.op = "create" -> Goto(c, "create")
              [] r.op = "findFirst" -> Goto(c, "find")
              [] OTHER ->
                   IF r.where = Empty THEN Answer(c, "invalid", 0, Empty)
                   ELSE IF \/ r.op \in {"findUnique", "upsert"}
                           \/ r.op = "updateManyAndReturn" /\ ~returning THEN Goto(c, "find")
                   ELSE IF r.op = "delete" THEN Goto(c, "delete")
                   ELSE Goto(c, "update")
    /\ UNCHANGED <<unique, returning, data, faults, mode, found, ghost>>

\* BeginTx; without a transaction the rows are inserted one by one.
Begin(c) ==
    /\ pc[c] = "begin"
    /\ \E m \in {"tx", "direct"} : mode' = [mode EXCEPT ![c] = m]
    /\ Goto(c, "insert")
    /\ Fixed /\ UNCHANGED <<data, faults, found, ghost>>

Insert(c) ==
    LET row  == req[c].list[ret[c].count + 1]
        tx   == IF mode[c] = "tx" THEN c ELSE None
        last == ret[c].count + 1 = Len(req[c].list)
    IN
    /\ pc[c] = "insert"
    /\ \E o \in Outcomes(c) :
         /\ IF Effective(o) THEN table' = Added(row, tx) /\ nextId' = nextId + 1
            ELSE UNCHANGED data
         /\ made' = [made EXCEPT ![c] = IF Effective(o) /\ tx = None THEN @ + 1 ELSE @]
         /\ Disturb(c)
         /\ Faulted(c, o)
         /\ CASE o = "ok" /\ last /\ tx = None ->
                   Answer(c, "nil", ret[c].count + 1, Created(c))
              [] o = "ok" /\ ~(last /\ tx = None) ->
                   /\ pc' = [pc EXCEPT ![c] = IF last THEN "commit" ELSE "insert"]
                   /\ ret' = [ret EXCEPT ![c].count = @ + 1]
              [] o # "ok" ->
                   /\ pc' = [pc EXCEPT ![c] = IF tx = None THEN "done" ELSE "rollback"]
                   /\ ret' = [ret EXCEPT ![c].err = o]
    /\ Fixed /\ UNCHANGED <<mode, found, wrote>>

\* Fault: the transaction is left open after an error.
RollbackForgotten(c) ==
    /\ pc[c] = "rollback"
    /\ pc' = [pc EXCEPT ![c] = "done"]
    /\ Fixed /\ UNCHANGED <<data, faults, mode, found, ret, ghost>>

\* The count of rows inserted so far is answered with the error.
Rollback(c) ==
    /\ pc[c] = "rollback"
    /\ table' = Ended(c, FALSE)
    /\ Disturb(c)
    /\ pc' = [pc EXCEPT ![c] = "done"]
    /\ Fixed /\ UNCHANGED <<nextId, faults, mode, found, ret, made, wrote, hit>>

\* Fault: the error of Commit is dropped.
CommitUnchecked(c) ==
    /\ pc[c] = "commit"
    /\ \E o \in Outcomes(c) :
         /\ table' = Ended(c, Effective(o))
         /\ made' = [made EXCEPT ![c] = IF Effective(o) THEN Len(req[c].list) ELSE @]
         /\ Disturb(c)
         /\ Faulted(c, o)
         /\ Answer(c, "nil", ret[c].count, Created(c))
    /\ Fixed /\ UNCHANGED <<nextId, mode, found, wrote>>

Commit(c) ==
    /\ pc[c] = "commit"
    /\ \E o \in Outcomes(c) :
         /\ table' = Ended(c, Effective(o))
         /\ made' = [made EXCEPT ![c] = IF Effective(o) THEN Len(req[c].list) ELSE @]
         /\ Disturb(c)
         /\ Faulted(c, o)
         /\ Answer(c, ErrOf(o), ret[c].count, IF o = "ok" THEN Created(c) ELSE Empty)
    /\ Fixed /\ UNCHANGED <<nextId, mode, found, wrote>>

\* The first query of FindFirst (LIMIT 1), FindUnique and Upsert (LIMIT 2) and
\* of UpdateManyAndReturn without RETURNING.
Find(c) ==
    LET all == Matching(c) IN
    /\ pc[c] = "find"
    /\ \E o \in Outcomes(c), some \in SUBSET all :
         /\ Cardinality(some) =
              LET n == Cardinality(all)
                  limit == CASE req[c].op = "findFirst" -> 1
                             [] req[c].op = "updateManyAndReturn" -> n
                             [] OTHER -> 2
              IN  IF n < limit THEN n ELSE limit
         /\ Query(c, o)
         /\ found' = [found EXCEPT ![c] = IF o = "ok" THEN Records(some) ELSE Empty]
         /\ IF o # "ok" THEN Answer(c, o, 0, Empty)
            ELSE IF req[c].op = "updateManyAndReturn" THEN Goto(c, "update")
            ELSE IF Cardinality(some) > 1 THEN Answer(c, "nonunique", 0, Empty)
            ELSE IF req[c].op # "upsert" THEN Answer(c, "nil", 0, Records(some))
            ELSE IF some = {} THEN Goto(c, "create")
            ELSE Goto(c, IF req[c].patch # Empty THEN "update" ELSE "reread")

\* Fault: an Upsert takes the constraint's error to mean that its row is there.
CreateTakenForDone(c) ==
    LET values == mergeCreateAndWhere(req[c].create, req[c].where) IN
    /\ pc[c] = "create"
    /\ \E o \in Outcomes(c) :
         /\ IF Effective(o) THEN table' = Added(values, None) /\ nextId' = nextId + 1
            ELSE UNCHANGED data
         /\ made' = [made EXCEPT ![c] = IF Effective(o) THEN 1 ELSE @]
         /\ wrote' = [wrote EXCEPT ![c] =
                        IF Effective(o) THEN [i \in {nextId} |-> Stored(values)] ELSE @]
         /\ Disturb(c)
         /\ Faulted(c, o)
         /\ IF o \in {"ok", "constraint"} /\ req[c].op = "upsert" THEN Goto(c, "reread")
            ELSE Answer(c, ErrOf(o), 0, Empty)
    /\ Fixed /\ UNCHANGED <<mode, found>>

\* Create, alone or in Upsert.
Create(c) ==
    LET values == mergeCreateAndWhere(req[c].create, req[c].where) IN
    /\ pc[c] = "create"
    /\ \E o \in Outcomes(c) :
         /\ IF Effective(o) THEN table' = Added(values, None) /\ nextId' = nextId + 1
            ELSE UNCHANGED data
         /\ made' = [made EXCEPT ![c] = IF Effective(o) THEN 1 ELSE @]
         /\ wrote' = [wrote EXCEPT ![c] =
                        IF Effective(o) THEN [i \in {nextId} |-> Stored(values)] ELSE @]
         /\ Disturb(c)
         /\ Faulted(c, o)
         /\ IF o = "ok" /\ req[c].op = "upsert" THEN Goto(c, "reread")
            ELSE Answer(c, ErrOf(o), 0, Empty)
    /\ Fixed /\ UNCHANGED <<mode, found>>

\* Update, alone, with RETURNING, after the query that replaces RETURNING, or
\* in Upsert.
Update(c) ==
    LET set   == Matching(c)
        patch == req[c].patch
        new   == Updated(set, patch)
        hints == columnHints(req[c].where, patch)
        recs  == CASE req[c].op # "updateManyAndReturn" -> Empty
                   [] req[c].op = "updateManyAndReturn" /\ returning -> new
                   [] OTHER -> applyPatch(Project(found[c], hints), patch)
    IN
    /\ pc[c] = "update"
    /\ \/ /\ patch = Empty
          /\ Answer(c, "invalid", 0, Empty)
          /\ UNCHANGED <<data, faults, ghost>>
       \/ /\ patch # Empty
          /\ \E o \in Outcomes(c) :
               /\ table' = IF ~Effective(o) THEN table
                           ELSE [i \in DOMAIN table |->
                                   IF i \in set THEN [table[i] EXCEPT !.rec = new[i]]
                                   ELSE table[i]]
               /\ wrote' = [wrote EXCEPT ![c] = IF Effective(o) THEN new ELSE @]
               /\ Disturb(c)
               /\ Faulted(c, o)
               /\ IF o # "ok" THEN Answer(c, o, 0, Empty)
                  ELSE IF req[c].op = "upsert" THEN Goto(c, "reread")
                  ELSE Answer(c, "nil", Cardinality(set), recs)
          /\ UNCHANGED <<nextId, made>>
    /\ Fixed /\ UNCHANGED <<mode, found>>

Delete(c) ==
    /\ pc[c] = "delete"
    /\ \E o \in Outcomes(c) :
         /\ table' = IF ~Effective(o) THEN table
                     ELSE [i \in DOMAIN table \ Matching(c) |-> table[i]]
         /\ Disturb(c)
         /\ Faulted(c, o)
         /\ Answer(c, ErrOf(o), IF o = "ok" THEN Cardinality(Matching(c)) ELSE 0, Empty)
    /\ Fixed /\ UNCHANGED <<nextId, mode, found, made, wrote>>

\* FindUniqueOrThrow, the last step of Upsert.
Reread(c) ==
    LET n == Cardinality(Matching(c)) IN
    /\ pc[c] = "reread"
    /\ \E o \in Outcomes(c) :
         /\ Query(c, o)
         /\ IF o # "ok" THEN Answer(c, o, 0, Empty)
            ELSE IF n = 0 THEN Answer(c, "notfound", 0, Empty)
            ELSE IF n > 1 THEN Answer(c, "nonunique", 0, Empty)
            ELSE Answer(c, "nil", 0, Records(Matching(c)))
    /\ UNCHANGED found

Step(c) ==
    \/ Begin(c) \/ Insert(c) \/ Rollback(c) \/ Commit(c)
    \/ Find(c) \/ Create(c) \/ Update(c) \/ Delete(c) \/ Reread(c)

\* The system stops when every call has answered.
Next == \E c \in Calls : Start(c) \/ Step(c)

Spec == Init /\ [][Next]_vars

\* A call that has begun runs on: database/sql returns from every statement,
\* and the database lets one that waits go on or ends it.
FairSpec == Spec /\ \A c \in Calls : WF_vars(Step(c))

----------------------------------------------------------------------------
(* Properties.                                                              *)

Done(c, ops) == pc[c] = "done" /\ req[c].op \in ops

\* A bulk insert without an error has stored every row. In a transaction it
\* has stored all or none; without one it has stored as many as it counts, or
\* one more when the answer to that row's statement was lost.
Accounts(c) ==
    LET n == Len(req[c].list) IN
    Done(c, {"createMany", "createManyAndReturn"}) =>
        /\ ret[c].err = "nil" => made[c] = n /\ ret[c].count = n
        /\ mode[c] = "tx" => made[c] \in {0, n}
        /\ mode[c] = "direct" =>
             made[c] = ret[c].count + IF ret[c].err = "lost" THEN 1 ELSE 0

CreateManyAccounts == \A c \in Calls : Accounts(c)

\* Two sets of values do not give a column two values.
Agree(f, g) == \A col \in DOMAIN f \cap DOMAIN g : f[col] = g[col]

\* An Upsert with a Where, by the unique column if there is one, whose values do
\* not lead away from it.
Plain(c) ==
    /\ req[c].op = "upsert" /\ req[c].where # Empty
    /\ unique => DOMAIN req[c].where = {"k"}
    /\ Agree(req[c].create, req[c].where) /\ Agree(req[c].patch, req[c].where)

\* The record of an answer that has one.
Only(recs) == recs[CHOOSE i \in DOMAIN recs : TRUE]

\* Such an Upsert that found at most one row, whatever other calls insert and update
\* meanwhile, as long as none takes the row away. Without an error it answers with the
\* row that it inserted because there was none, or with the one it found and updated,
\* and with its values in it unless another call has changed the row since. An error
\* that is no statement's failure means that another call has put a row into its Where,
\* and the constraint's error that it has written nothing.
Answers(c) ==
    LET r == req[c]
        answer == Only(ret[c].recs)
        old == Only(found[c])
    IN  /\ pc[c] = "done" /\ Plain(c) /\ "gone" \notin met[c]
        /\ Cardinality(DOMAIN found[c]) < 2
        =>
        /\ ret[c].err = "nil" =>
             IF found[c] = Empty
             THEN /\ made[c] = 1 /\ DOMAIN ret[c].recs = DOMAIN wrote[c]
                  /\ "changed" \notin met[c] => Agree(answer, r.create) /\ Agree(answer, r.where)
             ELSE /\ made[c] = 0 /\ DOMAIN ret[c].recs = DOMAIN found[c]
                  /\ r.patch # Empty => DOMAIN wrote[c] = DOMAIN found[c]
                  /\ "changed" \notin met[c] =>
                       /\ Agree(answer, r.patch)
                       /\ \A col \in DOMAIN old \ DOMAIN r.patch : answer[col] = old[col]
        /\ ret[c].err # "nil" /\ ~hit[c] =>
             /\ "joined" \in met[c]
             /\ ret[c].err = "constraint" => made[c] = 0 /\ wrote[c] = Empty

UpsertAnswers == \A c \in Calls : Answers(c)

\* UpdateManyAndReturn answers with the rows its UPDATE changed, each with the
\* values it has now, as long as no other call has added rows to its Where or taken
\* some away in between; with RETURNING always.
Returned(c) ==
    /\ Done(c, {"updateManyAndReturn"}) /\ ret[c].err = "nil"
    /\ returning \/ met[c] \cap {"gone", "joined"} = {}
    =>
    /\ DOMAIN ret[c].recs = DOMAIN wrote[c]
    /\ \A i \in DOMAIN wrote[c] : \A col \in DOMAIN ret[c].recs[i] :
         ret[c].recs[i][col] = wrote[c][i][col]

ReturnedAreUpdated == \A c \in Calls : Returned(c)

\* Every call that has begun answers, whatever transactions wait for.
CallsReturn == \A c \in Calls : Running(c) ~> pc[c] = "done"

=============================================================================
