------------------------------- MODULE Router -------------------------------
(***************************************************************************)
(* src/router.go and src/route.go: the tree of one HTTP method.  A pattern *)
(* is the sequence of segments parseSegments makes of it, a request path   *)
(* the sequence of parts splitPath makes of it.  A node of the tree is the *)
(* sequence of edges that leads to it from the root.                       *)
(***************************************************************************)
EXTENDS Naturals, Sequences, FiniteSets

CONSTANTS
    Patterns,       \* patterns that may be registered: sequences of segments
    Parts,          \* the parts request paths are made of
    MaxPathLen,     \* bound: the longest request path
    MaxRoutes       \* bound: registrations

\* A segment: its kind, and its text or name.
Seg(kind, value) == [kind |-> kind, value |-> value]

Kinds == {"static", "param", "wildcard"}

SegmentValues == UNION {{p[k].value : k \in DOMAIN p} : p \in Patterns}

ASSUME PatternsAssumption ==
    Patterns \subseteq Seq({Seg(kind, value) : kind \in Kinds, value \in SegmentValues})

ASSUME MaxPathLenAssumption == MaxPathLen \in Nat

\* The edge a segment follows: the text of a static one, the single param or
\* wildcard child otherwise.
Edge(seg) == IF seg.kind = "static" THEN <<"static", seg.value>> ELSE <<seg.kind>>

VARIABLES
    nodes,          \* the nodes that exist
    paramName,      \* paramName[n], wildcardName[n]: set with the child of n
    wildcardName,
    route,          \* route[n]: the pattern registered at node n
    added,          \* the patterns registered, in order
    panicked        \* add has panicked

routerVars == <<nodes, paramName, wildcardName, route, added, panicked>>

Root == <<>>

RouterInit ==
    /\ nodes = {Root}
    /\ paramName = <<>>
    /\ wildcardName = <<>>
    /\ route = <<>>
    /\ added = <<>>
    /\ panicked = FALSE

----------------------------------------------------------------------------
(* add                                                                      *)

\* The node reached after the first i segments of p.
NodeAt(p, i) == [k \in 1..i |-> Edge(p[k])]

\* How far add gets: to the end, or to a wildcard segment that is not the last,
\* where it panics.
BadWildcards(p) == {i \in 1..Len(p) - 1 : p[i].kind = "wildcard"}

Reach(p) == IF BadWildcards(p) = {} THEN Len(p)
            ELSE CHOOSE i \in BadWildcards(p) : \A k \in BadWildcards(p) : i <= k

\* The nodes of p whose child of the given kind is new: they get its name.
Named(p, kind) == {i \in 1..Reach(p) : p[i].kind = kind /\ NodeAt(p, i) \notin nodes}

\* A child keeps the name it was created with.
Names(old, p, kind) ==
    [n \in DOMAIN old \cup {NodeAt(p, i - 1) : i \in Named(p, kind)} |->
        IF n \in DOMAIN old THEN old[n] ELSE p[Len(n) + 1].value]

Grow(p) ==
    /\ nodes' = nodes \cup {NodeAt(p, i) : i \in 1..Reach(p)}
    /\ paramName' = Names(paramName, p, "param")
    /\ wildcardName' = Names(wildcardName, p, "wildcard")

Add(p) ==
    /\ ~panicked
    /\ Len(added) < MaxRoutes
    /\ BadWildcards(p) = {}
    /\ Grow(p)
    /\ route' = [n \in DOMAIN route \cup {NodeAt(p, Len(p))} |->
                    IF n = NodeAt(p, Len(p)) THEN p ELSE route[n]]
    /\ added' = Append(added, p)
    /\ UNCHANGED panicked

\* The nodes up to the misplaced wildcard stay in the tree.
AddPanics(p) ==
    /\ ~panicked
    /\ Len(added) < MaxRoutes
    /\ BadWildcards(p) # {}
    /\ Grow(p)
    /\ panicked' = TRUE
    /\ UNCHANGED <<route, added>>

\* Registration is over and the application serves.
RouterServes == (panicked \/ Len(added) = MaxRoutes) /\ UNCHANGED routerVars

RouterNext == (\E p \in Patterns : Add(p) \/ AddPanics(p)) \/ RouterServes

RouterSpec == RouterInit /\ [][RouterNext]_routerVars

----------------------------------------------------------------------------
(* find                                                                     *)

\* Fault: the value captured is that of the first part.
StepCapturesFirst(path, s, i) ==
    LET child(e) == Append(s.node, e)
        static == child(<<"static", path[i]>>)
    IN  IF s.state # "walking" THEN s
        ELSE IF static \in nodes THEN [s EXCEPT !.node = static]
        ELSE IF child(<<"param">>) \in nodes
             THEN [s EXCEPT !.node = child(<<"param">>),
                            !.params = Append(@, <<paramName[s.node], <<path[1]>>>>)]
        ELSE IF child(<<"wildcard">>) \in nodes
             THEN [node |-> child(<<"wildcard">>), state |-> "broke",
                   params |-> Append(s.params,
                                <<wildcardName[s.node], SubSeq(path, i, Len(path))>>)]
        ELSE [s EXCEPT !.state = "lost"]

\* Fault: a parameter is preferred to a static text.
StepParamFirst(path, s, i) ==
    LET child(e) == Append(s.node, e)
        static == child(<<"static", path[i]>>)
    IN  IF s.state # "walking" THEN s
        ELSE IF child(<<"param">>) \in nodes
             THEN [s EXCEPT !.node = child(<<"param">>),
                            !.params = Append(@, <<paramName[s.node], <<path[i]>>>>)]
        ELSE IF static \in nodes THEN [s EXCEPT !.node = static]
        ELSE IF child(<<"wildcard">>) \in nodes
             THEN [node |-> child(<<"wildcard">>), state |-> "broke",
                   params |-> Append(s.params,
                                <<wildcardName[s.node], SubSeq(path, i, Len(path))>>)]
        ELSE [s EXCEPT !.state = "lost"]

\* One turn of the loop at part i: static child, then param, then wildcard.
\* The walk never goes back.
Step(path, s, i) ==
    LET child(e) == Append(s.node, e)
        static == child(<<"static", path[i]>>)
    IN  IF s.state # "walking" THEN s
        ELSE IF static \in nodes THEN [s EXCEPT !.node = static]
        ELSE IF child(<<"param">>) \in nodes
             THEN [s EXCEPT !.node = child(<<"param">>),
                            !.params = Append(@, <<paramName[s.node], <<path[i]>>>>)]
        ELSE IF child(<<"wildcard">>) \in nodes
             THEN [node |-> child(<<"wildcard">>), state |-> "broke",
                   params |-> Append(s.params,
                                <<wildcardName[s.node], SubSeq(path, i, Len(path))>>)]
        ELSE [s EXCEPT !.state = "lost"]

\* Where the walk is after each part.
Steps(path) ==
    LET w[i \in 0..Len(path)] ==
            IF i = 0 THEN [node |-> Root, params |-> <<>>, state |-> "walking"]
            ELSE Step(path, w[i - 1], i)
    IN  w

Walk(path) == Steps(path)[Len(path)]

Found(path) == Walk(path).state # "lost" /\ Walk(path).node \in DOMAIN route

Entry(path) == route[Walk(path).node]

----------------------------------------------------------------------------
(* Properties.                                                              *)

Paths == UNION {[1..n -> Parts] : n \in 0..MaxPathLen}

\* Segment k of the pattern accepts part k of the path; a wildcard takes at
\* least one part and all that follow.
Matches(p, path) ==
    LET wild == p # <<>> /\ p[Len(p)].kind = "wildcard" IN
    /\ IF wild THEN Len(path) >= Len(p) ELSE Len(path) = Len(p)
    /\ \A k \in DOMAIN p : p[k].kind = "static" => path[k] = p[k].value

Registered == {added[k] : k \in DOMAIN added}

\* Pattern q follows the path as far as segment k, going at each segment where
\* find goes: along the text if any registered pattern has that text there.
Prefers(p, q, k) ==
    /\ k \in DOMAIN p \cap DOMAIN q
    /\ \A i \in 1..k - 1 : Edge(p[i]) = Edge(q[i])
    /\ \/ q[k].kind = "static" /\ p[k].kind # "static"
       \/ q[k].kind = "param" /\ p[k].kind = "wildcard"

\* No registered pattern agrees with the route found up to some segment and is
\* more specific there for this path: the order of registration does not
\* matter, only the patterns do.
MostSpecificFirst ==
    ~panicked => \A path \in Paths : Found(path) =>
        LET p == Entry(path) IN
        /\ p \in Registered
        /\ ~\E q \in Registered, k \in 1..Len(path) :
              Prefers(p, q, k) /\ (q[k].kind = "static" => q[k].value = path[k])

\* The walk along the path leaves q aside at the first part.
Elsewhere(q, path) ==
    /\ q # <<>> /\ q[1].kind = "static"
    /\ path = <<>> \/ path[1] # q[1].value

\* Where a pattern captures: at its parameters and its wildcard.
Caught(p) == {i \in DOMAIN p : p[i].kind # "static"}

\* The route a request is given matches its path, and the values captured are
\* the parts of the path at the pattern's parameters, in their order; and a path
\* that a registered pattern matches is found, when no other pattern leads the
\* walk astray: the patterns that start as the path does all match it.
FoundMatches ==
    \A path \in Paths :
        /\ Found(path) =>
              LET p == Entry(path)
                  params == Walk(path).params
                  caught == Caught(p)
              IN  /\ Matches(p, path)
                  /\ Len(params) = Cardinality(caught)
                  /\ \A i \in caught :
                       params[Cardinality({h \in caught : h <= i})][2] =
                           IF p[i].kind = "wildcard" THEN SubSeq(path, i, Len(path))
                           ELSE <<path[i]>>
        /\ (/\ ~panicked
            /\ \E p \in Registered : Matches(p, path)
            /\ \A q \in Registered : Matches(q, path) \/ Elsewhere(q, path))
           => Found(path)

=============================================================================
