----------------------------- MODULE MCOrmTable -----------------------------
(* Instances of OrmTable for TLC: keys 1 and 2, values 1 and 2. *)
EXTENDS OrmTable, TLC

CONSTANTS c1, c2

Rec(k, v) == [k |-> k, v |-> v]
Where(k) == "k" :> k

Request(op, where, create, patch, list) ==
    [op |-> op, where |-> where, create |-> create, patch |-> patch, list |-> list]

Bulk(op, lists) == {Request(op, Empty, Empty, Empty, l) : l \in lists}

\* Plain, one that merges a key of its own, ones that move the row away, and one
\* without a Where.
Upserts == {Request("upsert", Where(1), "v" :> 2, p, <<>>) : p \in {Empty, "v" :> 2, "k" :> 2}}
           \cup {Request("upsert", Where(1), Rec(2, 2), "v" :> 2, <<>>),
                  Request("upsert", Empty, Rec(2, 2), "v" :> 2, <<>>)}

Updates == {Request("updateManyAndReturn", Where(1), Empty, p, <<>>) :
                p \in {Empty, "v" :> 2, "k" :> 2}}
           \cup {Request("updateMany", w, Empty, "k" :> 2, <<>>) : w \in {Where(1), "v" :> 1}}

SomeRequests ==
    Bulk("createMany", {<<>>, <<Rec(1, 1), Rec(2, 1)>>, <<Rec(1, 2), Rec(1, 1)>>}) \cup
    Bulk("createManyAndReturn", {<<>>, <<Rec(2, 2), "k" :> 1>>}) \cup Upserts \cup Updates \cup
    {Request("create", Empty, Rec(1, 2), Empty, <<>>),
     Request("delete", Where(1), Empty, Empty, <<>>),
     Request("delete", Empty, Empty, Empty, <<>>),
     Request("findFirst", Where(1), Empty, Empty, <<>>),
     Request("findUnique", Where(1), Empty, Empty, <<>>)}

SomeTables == {<<>>, <<Rec(1, 1)>>, <<Rec(1, 1), Rec(2, 1)>>, <<Rec(1, 1), Rec(1, 2)>>}

=============================================================================
