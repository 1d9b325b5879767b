------------------------------ MODULE OrmQuery ------------------------------
(* The SQL builder of orm/table.go: Where, Values and FindOptions become a   *)
(* statement, a flat text with placeholders, and the list of its arguments.  *)
(*                                                                          *)
(* A Go value of type any is a record with its kind: nil, scalar, str (a    *)
(* sequence of letters), bool, list or map. A key is taken as the code sees *)
(* it after TrimSpace and ToUpper or ToLower. SQL text is a sequence of     *)
(* tokens: a comparison of a column is one token, which keeps its           *)
(* placeholders; AND, OR, NOT and the brackets are tokens of their own, as  *)
(* the precedence the database gives them is what matters.                  *)
EXTENDS Integers, FiniteSets, SequencesExt

CONSTANTS
    Identifiers,  \* the names that are valid identifiers
    KeyOrder,     \* every key of a map, in sort.Strings order
    GoValues,     \* the values a Where has and is made of
    Nesting,      \* Nesting[v]: how deep maps and lists are nested in v
    Wheres,       \* values of Where that are tried
    Patches,      \* values of Values that are tried
    Limits,       \* values of FindOptions.Limit that are tried
    Offsets       \* values of FindOptions.Offset that are tried

VARIABLES
    numbered,     \* the dialect is postgres or pg: placeholders are $1, $2, ...
    call,         \* the call whose statement was built last
    stmt          \* the statement

queryVars == <<numbered, call, stmt>>

Nil       == [kind |-> "nil"]
Scalar(n) == [kind |-> "scalar", v |-> n]
Str(s)    == [kind |-> "str", s |-> s]
Bool(b)   == [kind |-> "bool", b |-> b]
List(s)   == [kind |-> "list", items |-> s]
Map(f)    == [kind |-> "map", f |-> f]

Operators == {"equals", "is", "not", "isnot", "in", "notin", "lt", "lte", "gt", "gte",
              "contains", "startswith", "endswith", "isset", "isempty",
              "some", "every", "none", "has", "hasevery", "hassome"}

\* KeyOrder has every key once.
ASSUME KeysAssumption ==
    /\ KeyOrder \in Seq(Range(KeyOrder))
    /\ \A i, j \in DOMAIN KeyOrder : KeyOrder[i] = KeyOrder[j] => i = j
    /\ \A p \in Patches : DOMAIN p \subseteq Range(KeyOrder)

\* Values nest to some depth; the parts of one are values again.
ASSUME ValuesAssumption ==
    /\ Nesting \in [GoValues -> Nat]
    /\ \A v \in GoValues :
          /\ v.kind = "map" =>
                /\ DOMAIN v.f \subseteq Range(KeyOrder)
                /\ \A k \in DOMAIN v.f : v.f[k] \in GoValues /\ Nesting[v.f[k]] < Nesting[v]
          /\ v.kind = "list" =>
                /\ v.items \in Seq(GoValues)
                /\ \A i \in DOMAIN v.items : Nesting[v.items[i]] < Nesting[v]
    /\ \A w \in Wheres : Map(w) \in GoValues

ASSUME LimitsAssumption == Limits \subseteq Int /\ Offsets \subseteq Int

Maps == {v \in GoValues : v.kind = "map"}

\* sort.Strings over the keys of a map: the k-th has k-1 before it.
SortedKeys(f) ==
    LET I == {i \in DOMAIN KeyOrder : KeyOrder[i] \in DOMAIN f}
    IN  [k \in 1..Cardinality(I) |->
            KeyOrder[CHOOSE i \in I : Cardinality({j \in I : j < i}) = k - 1]]

----------------------------------------------------------------------------
(* Pieces of a condition: text, arguments, number of the last placeholder.  *)

Tok(t) == <<[t |-> t]>>

Piece(sql, args, next) == [sql |-> sql, args |-> args, next |-> next, err |-> ""]

Fail(e) == [sql |-> <<>>, args |-> <<>>, next |-> 0, err |-> e]

ph(n) == IF numbered THEN n ELSE 0

Compare(col, op, phs) == <<[t |-> "compare", col |-> col, op |-> op, phs |-> phs]>>

One(col, op, value, start) == Piece(Compare(col, op, <<ph(start + 1)>>), <<value>>, start + 1)

\* A turn of the loop of every builder: a part, which is a function of the
\* number it starts from, follows what is there; an empty one is skipped.
Extend(p, part, sep) ==
    LET q == part[p.next]
    IN  IF p.err # "" THEN p
        ELSE IF q.err # "" THEN q
        ELSE IF q.sql = <<>> THEN [p EXCEPT !.next = q.next]
        ELSE Piece(IF p.sql = <<>> THEN q.sql ELSE p.sql \o Tok(sep) \o q.sql,
                   p.args \o q.args, q.next)

Joined(parts, sep, start) ==
    LET f[i \in 0..Len(parts)] ==
            IF i = 0 THEN Piece(<<>>, <<>>, start) ELSE Extend(f[i - 1], parts[i], sep)
    IN  f[Len(parts)]

Bracketed(prefix, p) ==
    IF p.err # "" \/ p.sql = <<>> THEN p
    ELSE [p EXCEPT !.sql = prefix \o Tok("(") \o @ \o Tok(")")]

----------------------------------------------------------------------------
(* Conditions on one column.                                                *)

buildEqualsExpr(col, value, start) ==
    IF value = Nil THEN Piece(Compare(col, "IS NULL", <<>>), <<>>, start)
    ELSE One(col, "=", value, start)

buildInExpr(col, value, op, start) ==
    IF value.kind # "list" THEN Fail("invalid")
    ELSE IF value.items = <<>> THEN Fail("invalid")
    ELSE LET n == Len(value.items) IN
         Piece(Compare(col, op, [i \in 1..n |-> ph(start + i)]), value.items, start + n)

buildStringExpr(col, op, value, start) ==
    IF value.kind # "str" THEN Fail("invalid")
    ELSE LET any == <<"%">> IN
         One(col, "LIKE",
             Str(CASE op = "contains"   -> any \o value.s \o any
                   [] op = "startswith" -> value.s \o any
                   [] op = "endswith"   -> any \o value.s),
             start)

\* isSet and isEmpty, which have no argument in the SQL.
buildFlagExpr(col, value, yes, no, start) ==
    IF value.kind # "bool" THEN Fail("invalid")
    ELSE Piece(Compare(col, IF value.b THEN yes ELSE no, <<>>), <<>>, start)

Symbol == [lt |-> "<", lte |-> "<=", gt |-> ">", gte |-> ">="]

\* The builders of one column call each other for a map under "not": build is
\* buildOperatorExpr.
buildNotFieldExpr(build, col, value, start) ==
    IF value.kind = "map" /\ DOMAIN value.f # {}
    THEN Bracketed(Tok("NOT"), build[value][col][start])
    ELSE IF value = Nil THEN Piece(Compare(col, "IS NOT NULL", <<>>), <<>>, start)
    ELSE One(col, "<>", value, start)

buildOneOperator(build, col, op, value, start) ==
    CASE op \in {"equals", "is"} -> buildEqualsExpr(col, value, start)
      [] op \in {"not", "isnot"} -> buildNotFieldExpr(build, col, value, start)
      [] op = "in"               -> buildInExpr(col, value, "IN", start)
      [] op = "notin"            -> buildInExpr(col, value, "NOT IN", start)
      [] op \in DOMAIN Symbol    -> One(col, Symbol[op], value, start)
      [] op \in {"contains", "startswith", "endswith"} -> buildStringExpr(col, op, value, start)
      [] op = "isset"   -> buildFlagExpr(col, value, "IS NOT NULL", "IS NULL", start)
      [] op = "isempty" -> buildFlagExpr(col, value, "= ''", "<> ''", start)
      [] op \in {"some", "every", "none", "has", "hasevery", "hassome"} -> Fail("unsupported")
      [] OTHER -> Fail("invalid")

OperatorParts(build, col, ops) ==
    LET keys == SortedKeys(ops.f)
    IN  [i \in DOMAIN keys |->
            [n \in Nat |-> buildOneOperator(build, col, keys[i], ops.f[keys[i]], n)]]

buildOperatorExpr[ops \in Maps] ==
    [col \in Identifiers |->
        [start \in Nat |-> Joined(OperatorParts(buildOperatorExpr, col, ops), "AND", start)]]

\* A map without any operator key is a value like another.
buildFieldExpr(col, value, start) ==
    IF col \notin Identifiers THEN Fail("invalid")
    ELSE IF value.kind = "map" /\ DOMAIN value.f \cap Operators # {}
    THEN buildOperatorExpr[value][col][start]
    ELSE buildEqualsExpr(col, value, start)

----------------------------------------------------------------------------
(* Where.                                                                   *)

\* A condition has conditions in it: build is buildWhereMap.
buildConditionValue(build, value, start) ==
    IF value.kind = "map" THEN build[value][start] ELSE Fail("invalid")

asConditionList(value) ==
    CASE value = Nil          -> <<>>
      [] value.kind = "map"   -> <<value>>
      [] value.kind = "list"  -> value.items
      [] OTHER                -> <<value>>     \* neither: the item is refused in turn

Conditions(build, value) ==
    LET list == asConditionList(value)
    IN  [i \in DOMAIN list |-> [n \in Nat |-> buildConditionValue(build, list[i], n)]]

\* Fault: a list of conditions without its brackets.
buildLogicalListExprBare(build, op, value, start) ==
    Joined(Conditions(build, value), op, start)

buildLogicalListExpr(build, op, value, start) ==
    Bracketed(<<>>, Joined(Conditions(build, value), op, start))

buildNotExpr(build, value, start) ==
    Bracketed(Tok("NOT"), buildConditionValue(build, value, start))

buildKeyExpr(build, key, value, start) ==
    CASE key \in {"AND", "OR"} -> buildLogicalListExpr(build, key, value, start)
      [] key = "NOT"           -> buildNotExpr(build, value, start)
      [] OTHER                 -> buildFieldExpr(key, value, start)

WhereParts(build, where) ==
    LET keys == SortedKeys(where.f)
    IN  [i \in DOMAIN keys |->
            [n \in Nat |-> buildKeyExpr(build, keys[i], where.f[keys[i]], n)]]

buildWhereMap[where \in Maps] ==
    [start \in Nat |-> Joined(WhereParts(buildWhereMap, where), "AND", start)]

\* whereClause: no text at all, not even WHERE, when nothing was built.
whereClause(where, start) == buildWhereMap[Map(where)][start]

----------------------------------------------------------------------------
(* Statements.                                                              *)

NoCall == [op |-> "none"]
NoStmt == [set |-> <<>>, where |-> <<>>, limit |-> <<>>, offset |-> <<>>,
           args |-> <<>>, err |-> "none"]

Statement(set, where, limit, offset, args) ==
    [set |-> set, where |-> where, limit |-> limit, offset |-> offset,
     args |-> args, err |-> ""]

Refused(e) == [NoStmt EXCEPT !.err = e]

\* Columns of a Values in sorted order; refused when empty or not identifiers.
normalizedValues(values) == SortedKeys(values)

BadValues(values) == DOMAIN values = {} \/ ~(DOMAIN values \subseteq Identifiers)

\* "col = ph" or "col" with "ph" in the list of VALUES, numbered from 1.
Assign(cols) == [i \in DOMAIN cols |-> [col |-> cols[i], ph |-> ph(i)]]

insertQuery(values) ==
    LET cols == normalizedValues(values) IN
    IF BadValues(values) THEN Refused("invalid")
    ELSE Statement(Assign(cols), <<>>, <<>>, <<>>, [i \in DOMAIN cols |-> values[cols[i]]])

updateQuery(where, patch) ==
    LET cols == normalizedValues(patch)
        w    == whereClause(where, Len(cols))
    IN  IF DOMAIN where = {} \/ BadValues(patch) THEN Refused("invalid")
        ELSE IF w.err # "" THEN Refused(w.err)
        ELSE Statement(Assign(cols), w.sql, <<>>, <<>>,
                       [i \in DOMAIN cols |-> patch[cols[i]]] \o w.args)

deleteQuery(where) ==
    LET w == whereClause(where, 0) IN
    IF DOMAIN where = {} THEN Refused("invalid")
    ELSE IF w.err # "" THEN Refused(w.err)
    ELSE Statement(<<>>, w.sql, <<>>, <<>>, w.args)

\* Fault: OFFSET takes the number LIMIT has.
selectQuerySameNumber(where, limit, offset) ==
    LET w    == whereClause(where, 0)
        n    == Len(w.args) + 1
        lim  == IF limit > 0 THEN <<ph(n)>> ELSE <<>>
        off  == IF offset > 0 THEN <<ph(n)>> ELSE <<>>
        args == w.args \o (IF limit > 0 THEN <<Scalar(limit)>> ELSE <<>>)
                       \o (IF offset > 0 THEN <<Scalar(offset)>> ELSE <<>>)
    IN  IF w.err # "" THEN Refused(w.err)
        ELSE Statement(<<>>, w.sql, lim, off, args)

\* ORDER BY and the list of columns hold identifiers only, no arguments.
selectQuery(where, limit, offset) ==
    LET w    == whereClause(where, 0)
        n    == Len(w.args) + 1
        lim  == IF limit > 0 THEN <<ph(n)>> ELSE <<>>
        off  == IF offset > 0 THEN <<ph(n + Len(lim))>> ELSE <<>>
        args == w.args \o (IF limit > 0 THEN <<Scalar(limit)>> ELSE <<>>)
                       \o (IF offset > 0 THEN <<Scalar(offset)>> ELSE <<>>)
    IN  IF w.err # "" THEN Refused(w.err)
        ELSE Statement(<<>>, w.sql, lim, off, args)

----------------------------------------------------------------------------
(* One call after another, each on a table of either dialect.               *)

QueryInit == numbered \in BOOLEAN /\ call = NoCall /\ stmt = NoStmt

Idle == call = NoCall /\ UNCHANGED numbered

BuildInsert(values) ==
    /\ Idle
    /\ call' = [op |-> "insert", values |-> values]
    /\ stmt' = insertQuery(values)

BuildUpdate(where, patch) ==
    /\ Idle
    /\ call' = [op |-> "update", where |-> where, values |-> patch]
    /\ stmt' = updateQuery(where, patch)

BuildDelete(where) ==
    /\ Idle
    /\ call' = [op |-> "delete", where |-> where]
    /\ stmt' = deleteQuery(where)

BuildSelect(where, limit, offset) ==
    /\ Idle
    /\ call' = [op |-> "select", where |-> where, limit |-> limit, offset |-> offset]
    /\ stmt' = selectQuery(where, limit, offset)

Return ==
    /\ call # NoCall
    /\ call' = NoCall /\ stmt' = NoStmt /\ UNCHANGED numbered

QueryNext ==
    \/ \E v \in Patches : BuildInsert(v)
    \/ \E w \in Wheres, v \in Patches : BuildUpdate(w, v)
    \/ \E w \in Wheres : BuildDelete(w)
    \/ \E w \in Wheres, l \in Limits, o \in Offsets : BuildSelect(w, l, o)
    \/ Return

QuerySpec == QueryInit /\ [][QueryNext]_queryVars

----------------------------------------------------------------------------
(* Properties.                                                              *)

\* The placeholders of a text from left to right.
Placeholders(toks) ==
    LET f[i \in 0..Len(toks)] ==
            IF i = 0 THEN <<>>
            ELSE f[i - 1] \o (IF toks[i].t = "compare" THEN toks[i].phs ELSE <<>>)
    IN  f[Len(toks)]

\* From left to right the text has one placeholder for every argument, with its
\* number; SET and VALUES have each column of the call with its own value, and
\* LIMIT and OFFSET have theirs, whatever the condition in between takes.
BindsOwnValues ==
    stmt.err = "" =>
        LET set == [i \in DOMAIN stmt.set |-> stmt.set[i].ph]
            where == Placeholders(stmt.where)
            n == Len(set) + Len(where)
        IN  /\ set \o where \o stmt.limit \o stmt.offset = [i \in DOMAIN stmt.args |-> ph(i)]
            /\ call.op \in {"insert", "update"} =>
                 /\ {stmt.set[i].col : i \in DOMAIN set} = DOMAIN call.values
                 /\ Len(set) = Cardinality(DOMAIN call.values)
                 /\ \A i \in DOMAIN set : stmt.args[i] = call.values[stmt.set[i].col]
            /\ call.op = "select" =>
                 /\ call.limit > 0 => stmt.limit # <<>> /\ stmt.args[n + 1] = Scalar(call.limit)
                 /\ call.offset > 0 =>
                      stmt.offset # <<>> /\ stmt.args[n + Len(stmt.limit) + 1] = Scalar(call.offset)

=============================================================================
