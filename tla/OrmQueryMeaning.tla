--------------------------- MODULE OrmQueryMeaning ---------------------------
(***************************************************************************)
(* What the conditions of OrmQuery mean: the database, which evaluates the *)
(* flat text with its arguments, and the reference, which knows neither    *)
(* text nor placeholders.                                                  *)
(***************************************************************************)
EXTENDS OrmQuery

CONSTANT Rows       \* rows against which conditions are evaluated

----------------------------------------------------------------------------
(* The database: how it binds arguments and what a condition means to it.   *)
(* A truth value is 0 (false), 1 (unknown) or 2 (true).                     *)

\* The argument of the placeholder written n that is the i-th of the text.
Arg(n, i) ==
    LET k == IF numbered THEN n ELSE i
    IN  IF k \in DOMAIN stmt.args THEN stmt.args[k] ELSE Nil

\* The condition with its arguments in place.
BoundWhere ==
    [j \in DOMAIN stmt.where |->
        LET tok == stmt.where[j]
            before == Len(stmt.set) + Len(Placeholders(SubSeq(stmt.where, 1, j - 1)))
        IN  IF tok.t # "compare" THEN tok
            ELSE [t |-> "compare", col |-> tok.col, op |-> tok.op,
                  vals |-> [k \in DOMAIN tok.phs |-> Arg(tok.phs[k], before + k)]]]

RECURSIVE Like(_, _)
Like(s, pat) ==
    IF pat = <<>> THEN s = <<>>
    ELSE IF Head(pat) = "%" THEN \E i \in 1..Len(s) + 1 : Like(SubSeq(s, i, Len(s)), Tail(pat))
    ELSE s # <<>> /\ Head(s) = Head(pat) /\ Like(Tail(s), Tail(pat))

Truth(b) == IF b THEN 2 ELSE 0
Least(S) == CHOOSE x \in S : \A y \in S : x <= y
Most(S)  == CHOOSE x \in S : \A y \in S : x >= y

\* One comparison, x being the row's value and vs the values compared with.
SqlCompare(x, op, vs) ==
    CASE op = "IS NULL"     -> Truth(x = Nil)
      [] op = "IS NOT NULL" -> Truth(x # Nil)
      [] op \notin {"IS NULL", "IS NOT NULL"} /\ x = Nil -> 1
      [] OTHER ->
           LET eq(y) == IF y = Nil THEN 1 ELSE Truth(x = y)
               num(Cmp(_, _)) == IF vs[1] = Nil THEN 1 ELSE Truth(Cmp(x.v, vs[1].v))
           IN  CASE op = "= ''"   -> Truth(x = Str(<<>>))
                 [] op = "<> ''"  -> Truth(x # Str(<<>>))
                 [] op = "="      -> eq(vs[1])
                 [] op = "<>"     -> 2 - eq(vs[1])
                 [] op = "IN"     -> Most({eq(vs[k]) : k \in DOMAIN vs})
                 [] op = "NOT IN" -> 2 - Most({eq(vs[k]) : k \in DOMAIN vs})
                 [] op = "<"      -> num(<)
                 [] op = "<="     -> num(<=)
                 [] op = ">"      -> num(>)
                 [] op = ">="     -> num(>=)
                 [] op = "LIKE"   -> Truth(Like(x.s, vs[1].s))

\* Places of a token outside all brackets.
TopLevel(toks, t) ==
    LET depth(i) == Len(SelectSeq(SubSeq(toks, 1, i), LAMBDA k : k.t = "("))
                    - Len(SelectSeq(SubSeq(toks, 1, i), LAMBDA k : k.t = ")"))
    IN  {i \in DOMAIN toks : toks[i].t = t /\ depth(i) = 0}

\* Precedence: OR binds least, then AND, then NOT.
RECURSIVE SqlEval(_, _)
SqlEval(toks, row) ==
    LET split(t, Join(_)) ==
            LET cuts == TopLevel(toks, t) \cup {0, Len(toks) + 1}
                next(i) == Least({j \in cuts : j > i})
            IN  Join({SqlEval(SubSeq(toks, i + 1, next(i) - 1), row) : i \in cuts \ {Len(toks) + 1}})
    IN  CASE toks = <<>> -> 2
          [] TopLevel(toks, "OR") # {} -> split("OR", Most)
          [] TopLevel(toks, "OR") = {} /\ TopLevel(toks, "AND") # {} -> split("AND", Least)
          [] OTHER ->
               CASE Head(toks).t = "NOT" -> 2 - SqlEval(Tail(toks), row)
                 [] Head(toks).t = "("   -> SqlEval(SubSeq(toks, 2, Len(toks) - 1), row)
                 [] OTHER -> SqlCompare(row[Head(toks).col], Head(toks).op, Head(toks).vals)

----------------------------------------------------------------------------
(* Properties.                                                              *)

\* What the documents say an operator means for a row's value x.
RECURSIVE OpMeaning(_, _, _)
OpMeaning(x, op, v) ==
    LET eq(y) == IF x = Nil \/ y = Nil THEN 1 ELSE Truth(x = y)
        is(y) == IF y = Nil THEN Truth(x = Nil) ELSE eq(y)
        ordered(b) == IF x = Nil \/ v = Nil THEN 1 ELSE Truth(b)
        text(b) == IF x = Nil THEN 1 ELSE Truth(b)
    IN  CASE op \in {"equals", "is"} -> is(v)
          [] op \in {"not", "isnot"} ->
               IF v.kind = "map"
               THEN 2 - Least({OpMeaning(x, k, v.f[k]) : k \in DOMAIN v.f})
               ELSE 2 - is(v)
          [] op = "in"    -> Most({eq(v.items[k]) : k \in DOMAIN v.items})
          [] op = "notin" -> 2 - Most({eq(v.items[k]) : k \in DOMAIN v.items})
          [] op = "lt"  -> ordered(x.v < v.v)
          [] op = "lte" -> ordered(x.v <= v.v)
          [] op = "gt"  -> ordered(x.v > v.v)
          [] op = "gte" -> ordered(x.v >= v.v)
          [] op = "contains"   -> text(\E i \in 1..Len(x.s) + 1 : IsPrefix(v.s, SubSeq(x.s, i, Len(x.s))))
          [] op = "startswith" -> text(IsPrefix(v.s, x.s))
          [] op = "endswith"   -> text(IsSuffix(v.s, x.s))
          [] op = "isset"   -> Truth((x # Nil) = v.b)
          [] op = "isempty" -> text((x = Str(<<>>)) = v.b)

\* Conditions that say nothing: an empty object, and lists of such.
RECURSIVE Vacuous(_)
Vacuous(v) ==
    CASE v = Nil -> TRUE
      [] v.kind = "map" -> \A k \in DOMAIN v.f : k \in {"AND", "OR", "NOT"} /\ Vacuous(v.f[k])
      [] v.kind = "list" -> \A i \in DOMAIN v.items : Vacuous(v.items[i])
      [] OTHER -> FALSE

\* What a Where means for a row: all its keys together, a list under AND or OR
\* all or one of its items; what says nothing is left out.
RECURSIVE Meaning(_, _)
Meaning(where, row) ==
    LET items(v) == {i \in DOMAIN asConditionList(v) : ~Vacuous(asConditionList(v)[i])}
        each(v) == {Meaning(asConditionList(v)[i].f, row) : i \in items(v)}
        key(k) == LET v == where[k] IN
            CASE k = "AND" -> Least(each(v))
              [] k = "OR"  -> Most(each(v))
              [] k = "NOT" -> 2 - Meaning(v.f, row)
              [] OTHER -> IF v.kind = "map" /\ DOMAIN v.f \cap Operators # {}
                          THEN Least({OpMeaning(row[k], op, v.f[op]) : op \in DOMAIN v.f})
                          ELSE OpMeaning(row[k], "equals", v)
    IN  Least({2} \cup {key(k) : k \in {k \in DOMAIN where :
                                          k \notin {"AND", "OR", "NOT"} \/ ~Vacuous(where[k])}})

\* The statement built from a Where selects, updates or deletes exactly the
\* rows the Where means, for either kind of placeholder: no condition is lost,
\* regrouped by the precedence of AND, OR and NOT, or given another's value.
MeansWhere ==
    ("where" \in DOMAIN call /\ stmt.err = "") =>
        \A row \in Rows : SqlEval(BoundWhere, row) = 2 <=> Meaning(call.where, row) = 2

=============================================================================
