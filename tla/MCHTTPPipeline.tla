--------------------------- MODULE MCHTTPPipeline ---------------------------
(* Instances of HTTPPipeline for TLC. *)
EXTENDS HTTPPipeline, TLC

CONSTANTS r1, r2, x1, x2

\* The chain of the README with an admin route, an admin route that forgot
\* Auth and has Metrics outside of Recover, and a route without any middleware.
SomeChains == {
    <<"recover", "requestID", "log", "metrics", "cors", "auth", "role">>,
    <<"metrics", "recover", "role">>,
    <<>> }

\* Handlers that end well or with an error of each kind, those that write a second
\* status, fail or panic after a response, and those writeError cannot answer for.
SomeHandlers == {
    [writes |-> <<200>>,      returns |-> "nil"],
    [writes |-> <<>>,         returns |-> "nil"],
    [writes |-> <<200, 409>>, returns |-> "nil"],
    [writes |-> <<>>,         returns |-> "http409"],
    [writes |-> <<>>,         returns |-> "wrapped409"],
    [writes |-> <<200>>,      returns |-> "plain"],
    [writes |-> <<>>,         returns |-> "panic"],
    [writes |-> <<200>>,      returns |-> "panic"],
    [writes |-> <<>>,         returns |-> "httpNil"],
    [writes |-> <<>>,         returns |-> "http0"] }

Symmetry == Permutations(Requests) \cup Permutations(Ctxs)

=============================================================================
