------------------------------- MODULE Routes -------------------------------
(* sg_routes.c: a list of routes, each with the pattern it was added with, *)
(* as it is stored, and the parts it owns.                                 *)
EXTENDS UtList, SequencesExt

CONSTANTS Patterns,     \* what is added: sequences of characters
          MaxRoutes     \* bound on the routes ever added

ASSUME RoutesAssumption ==
  MaxRoutes \in Nat \ {0} /\ \A p \in Patterns : p \in Seq(ToSet(p))

RouteIds == 1..MaxRoutes

VARIABLES routes,   \* the list
          stored,   \* the stored pattern of every route
          added,    \* how many routes were added: the next has the number added + 1
          heap      \* the parts that are allocated

routesVars == <<routes, stored, added, heap>>

RouteParts == {"route", "pattern", "code", "match"}

Listed == ToSet(LL_Nodes(routes))

-----------------------------------------------------------------------------
(* A pattern is enclosed unless it begins with a parenthesis.              *)
Enclosed(p) == IF p # << >> /\ p[1] = "(" THEN p ELSE <<"^">> \o p \o <<"$">>

(* strncmp(pattern, stored + 1, strlen(pattern)) = 0.                      *)
(* Fault: the first character is not skipped.                              *)
Same_unshifted(p, s) == IsPrefix(p, s)
Same(p, s) == IsPrefix(p, Tail(s))

(* A pattern that pcre2_compile refuses, or that has \K.                   *)
Refused(p) ==
  \E i \in DOMAIN p : p[i] = "K" \/ (p[i] = ")" /\ \A j \in 1..i : p[j] # "(")

(* sg_route_rawpattern: the pattern as it is stored.                       *)
sg_route_rawpattern(r) == stored[r]

(* sg_route_pattern: the stored pattern without its first and last.        *)
sg_route_pattern(r) ==
  SubSeq(sg_route_rawpattern(r), 2, Len(sg_route_rawpattern(r)) - 1)

RoutesInit ==
  /\ routes = [head |-> Null, next |-> [r \in RouteIds |-> Null]]
  /\ stored = [r \in RouteIds |-> << >>] /\ added = 0 /\ heap = {}

(* sg__route_new: the route is created with all its parts, or what was     *)
(* allocated of them is freed.                                             *)
RouteNewFails(r) == heap' = heap

(* sg_routes_add2 answers EALREADY and sg_routes_rm takes the first.       *)
Already(p) == \E q \in Listed : Same(p, stored[q])

(* sg_routes_add2, which changes nothing when p is there already.          *)
RoutesAdd(p) ==
  LET r == added + 1 IN
  /\ added < MaxRoutes /\ ~Already(p)
  /\ \/ /\ ~Refused(p)
        /\ routes' = LL_APPEND(routes, r)
        /\ stored' = [stored EXCEPT ![r] = Enclosed(p)]
        /\ heap' = heap \cup {<<r, part>> : part \in RouteParts}
        /\ added' = r
     \/ RouteNewFails(r) /\ UNCHANGED <<routes, stored, added>>

(* sg__route_free.                                                         *)
RouteFree(h, r) == h \ {<<r, part>> : part \in RouteParts}

(* What a freed route held is forgotten.                                   *)
Forget(l, rs) == [l EXCEPT !.next = [r \in RouteIds |-> IF r \in rs THEN Null ELSE @[r]]]
Forgotten(rs) == [r \in RouteIds |-> IF r \in rs THEN << >> ELSE stored[r]]

(* sg_routes_rm: the first route whose pattern begins with p.              *)
RoutesRemove(p) ==
  LET s == LL_Nodes(routes) IN
  /\ \E i \in DOMAIN s :
       /\ Same(p, stored[s[i]]) /\ \A j \in 1..i - 1 : ~Same(p, stored[s[j]])
       /\ routes' = Forget(LL_DELETE(routes, s[i]), {s[i]})
       /\ heap' = RouteFree(heap, s[i]) /\ stored' = Forgotten({s[i]})
  /\ UNCHANGED added

(* sg_routes_cleanup: every route is taken out and freed, one by one.      *)
RoutesCleanup ==
  LET s == LL_Nodes(routes)
      left[i \in 0..Len(s)] == IF i = 0 THEN routes ELSE LL_DELETE(left[i - 1], s[i])
      kept[i \in 0..Len(s)] == IF i = 0 THEN heap ELSE RouteFree(kept[i - 1], s[i])
  IN  /\ heap' = kept[Len(s)]
      /\ routes' = Forget(left[Len(s)], Listed)
      /\ stored' = Forgotten(Listed) /\ UNCHANGED added

RoutesNext ==
  \/ \E p \in Patterns : RoutesAdd(p) \/ RoutesRemove(p)
  \/ RoutesCleanup

RoutesSpec == RoutesInit /\ [][RoutesNext]_routesVars

-----------------------------------------------------------------------------
(* The routes are tried in the order in which they were added              *)
(* (sg_routes.c:232, 259).                                                 *)
TriedInOrder ==
  LET s == LL_Nodes(routes) IN \A i, j \in DOMAIN s : i < j => s[i] < s[j]

(* What is allocated is what the routes in the list own, whichever part of *)
(* a new route could not be created (sg_routes.c:97, 101, 260, 301).       *)
PartsOwned == heap = Listed \X RouteParts

(* Two routes have one pattern only if it begins with a parenthesis, which *)
(* is never found again (sg_routes.c:64, 226).                             *)
PatternsOnce ==
  \A q, r \in Listed : q # r /\ stored[q] = stored[r] => stored[q][1] = "("

(* A route tells the pattern it was added with, by which it is found again *)
(* to be removed, unless that begins with a parenthesis (sg_routes.c:138). *)
PatternTold ==
  \A r \in Listed : sg_route_rawpattern(r)[1] # "(" =>
    sg_route_pattern(r) \in Patterns /\ Same(sg_route_pattern(r), sg_route_rawpattern(r))
=============================================================================
