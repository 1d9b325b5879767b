------------------------------ MODULE MCRouter ------------------------------
(* Instances of Router for TLC. *)
EXTENDS Router

Static(v) == Seg("static", v)
Param(v)  == Seg("param", v)
Wild(v)   == Seg("wildcard", v)

SomePatterns == {
    <<>>,                                       \* /
    << Static("users") >>,                      \* /users
    << Static("users"), Param("id") >>,         \* /users/:id
    << Static("users"), Static("me"), Param("x") >>,
    << Static("users"), Param("uid"), Static("me") >>,
    << Param("any") >>,
    << Static("users"), Wild("rest") >>,        \* /users/*rest
    << Wild("all") >>,
    << Static("me"), Wild("w"), Static("users") >> }   \* add panics

=============================================================================
