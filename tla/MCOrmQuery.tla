----------------------------- MODULE MCOrmQuery -----------------------------
(* Instances of OrmQuery for TLC: an integer column a and a text column s. *)
EXTENDS OrmQueryMeaning

SomeColumns == {"a", "s"}

\* sort.Strings: capitals before small letters.
Keys == <<"AND", "NOT", "OR", "a", "a b", "s",
          "bogus", "contains", "endswith", "equals", "gt", "gte", "in", "isempty", "isset",
          "lt", "lte", "not", "notin", "some", "startswith">>

one == Scalar(1)
two == Scalar(2)
x   == Str(<<"x">>)
xy  == Str(<<"x", "y">>)
yx  == Str(<<"y", "x">>)

Op(op, v) == Map(op :> v)

\* Values of column a: plain ones, every operator, several together, wrong ones.
OnA == {Nil, one, Op("equals", two), Op("equals", Nil), Op("not", one), Op("not", Nil),
        Op("not", Op("lt", two)), Map("not" :> Op("gt", one) @@ "lte" :> two),
        Op("in", List(<<two, one>>)), Op("notin", List(<<one, Nil>>)), Op("in", List(<<>>)),
        Op("lt", two), Map("gte" :> one @@ "lt" :> two), Op("gt", Nil),
        Op("isset", Bool(TRUE)), Op("isset", Bool(FALSE)), Op("isset", one),
        Op("some", one), Map("gt" :> one @@ "bogus" :> one)}

OnS == {Op("contains", x), Op("startswith", x), Op("endswith", x), Op("contains", one),
        Op("isempty", Bool(TRUE)), Op("isempty", Bool(FALSE)), xy}

Leaves == {"a" :> v : v \in OnA} \cup {"s" :> v : v \in OnS} \cup {<<>>, "a b" :> one}
          \cup {"a" :> v @@ "s" :> w : v \in OnA, w \in OnS}

\* Conditions to put together: none, one, two on two columns, two on one.
Small == {Map(<<>>), Map("a" :> one), Map("a" :> two @@ "s" :> Op("endswith", x)),
          Map("a" :> Map("in" :> List(<<one, two>>) @@ "gt" :> one))}

Lists(S) == {List(<<>>)} \cup {List(<<v>>) : v \in S} \cup {List(<<v, w>>) : v, w \in S}

Logic(S) == {l :> v : l \in {"AND", "OR"}, v \in Lists(S)} \cup {"NOT" :> v : v \in S}

\* Two levels, and logic beside a field and beside logic.
Nested == Small \cup {Map(w) : w \in Logic({Map("a" :> one), Map("a" :> two @@ "s" :> x)})}

SomeWheres ==
    Leaves \cup Logic(Small) \cup Logic(Nested)
    \cup {"AND" :> Nil, "OR" :> Map("a" :> one), "NOT" :> List(<<>>), "AND" :> one}
    \cup {w @@ "s" :> x : w \in Logic(Small)}
    \cup {"NOT" :> m @@ "OR" :> l : m \in Small, l \in Lists(Small)}

\* Every value that some Where has in it, and how deep it nests.
PartsOf(v) ==
    CASE v.kind = "map" -> {v.f[k] : k \in DOMAIN v.f}
      [] v.kind = "list" -> Range(v.items)
      [] OTHER -> {}

RECURSIVE Within(_)
Within(S) == IF S = {} THEN {} ELSE S \cup Within(UNION {PartsOf(v) : v \in S})

RECURSIVE Depth(_)
Depth(v) == IF PartsOf(v) = {} THEN 0 ELSE 1 + Max({Depth(u) : u \in PartsOf(v)})

SomeValues == Within({Map(w) : w \in SomeWheres})
SomeNesting == [v \in SomeValues |-> Depth(v)]

SomePatches == {<<>>, "s" :> x, "a" :> Nil @@ "s" :> yx, "a b" :> one}

SomeRows == {"a" :> a @@ "s" :> s : a \in {Nil, one, two}, s \in {Nil, Str(<<>>), x, xy, yx}}

=============================================================================
