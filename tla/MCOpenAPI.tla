----------------------------- MODULE MCOpenAPI -----------------------------
(* Types and applications for TLC.                                           *)
EXTENDS OpenAPI

CONSTANTS r1, r2, r3

Symmetry == Permutations({r1, r2, r3})

F(t) == [type |-> t, property |-> TRUE]
Struct(name, fields) == [kind |-> "struct", name |-> name, fields |-> fields]
List(t) == [kind |-> "slice", name |-> "", fields |-> <<F(t)>>]

SomeTypes ==
    [int     |-> [kind |-> "basic", name |-> "int", fields |-> <<>>],
     time    |-> [kind |-> "time", name |-> "Time", fields |-> <<>>],
     profile |-> Struct("Profile", <<F("int"), F("time"), [F("node") EXCEPT !.property = FALSE]>>),
     users   |-> List("profile"),
     user    |-> Struct("User", <<F("profile"), F("int")>>),
     \* A type of another package with the name of user, which it contains.
     user2   |-> Struct("User", <<F("user"), F("time")>>),
     anon    |-> Struct("", <<F("time")>>),
     page    |-> Struct("Page", <<F("users"), F("anon"), F("user2")>>),
     \* Types that contain themselves, directly and in a list.
     node    |-> Struct("Node", <<F("node")>>),
     nodes   |-> List("tree"),
     tree    |-> Struct("Tree", <<F("nodes")>>)]

M(t) == [name |-> SomeTypes[t].name, type |-> t]

\* A route with models, one without an operation, one with models again.
Application(first, last, registered) ==
    [routes |-> <<"GET /a", "GET /openapi.json", "POST /a">>, registered |-> registered,
     opts |-> [r \in {"GET /a", "POST /a"} |-> IF r = "GET /a" THEN first ELSE last]]

SomeApps ==
    {Application(first, last, registered) :
        first \in {<<M("user2"), M("user")>>, <<M("anon"), M("page")>>, <<M("users"), M("user")>>},
        last \in {<<M("page")>>, <<M("profile"), M("user2")>>},
        registered \in {<<>>, <<[name |-> "Profile", type |-> "users"], [name |-> "Item", type |-> "anon"]>>}}
    \cup {Application(<<M(t)>>, <<>>, <<>>) : t \in {"node", "tree"}}

=============================================================================
