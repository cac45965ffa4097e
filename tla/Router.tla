------------------------------- MODULE Router -------------------------------
(* sg_router.c: threads dispatch paths over one list of routes, which the  *)
(* application may change meanwhile.  What a dispatch leaves in a route    *)
(* (rc with the match data, the path and the user data) is shared by all.  *)
(* The pattern that a path matches is PCRE2's: MatchedBy.                  *)
EXTENDS Routes

CONSTANTS Threads, ReqPaths, MatchedBy,
          MaxWork  \* bound on the routes added and the dispatches begun, together

NoPath == "no path"

ASSUME RouterAssumption ==
  /\ MatchedBy \in [ReqPaths -> SUBSET Patterns]
  /\ NoPath \notin ReqPaths

VARIABLES router,   \* the head that sg_router_new kept, or Null
          field,    \* what the last dispatch left in every route
          pc,       \* where every thread is
          path, at, \* the path that it dispatches, and its route
          found,    \* what pcre2_match answered it: the path, or NoPath
          raced,    \* another thread matched or served the route meanwhile
          touched,  \* the thread touched a freed route
          changed,  \* routes were removed or added since the dispatch began
          begun     \* how many dispatches began

routerVars == <<router, field, pc, path, at, found, raced, touched, changed, begun>>

Matches(r, p) == stored[r] \in {Enclosed(q) : q \in MatchedBy[p]}
Live(r) == <<r, "route">> \in heap

NoMatch == [rc |-> NoPath, match |-> NoPath, path |-> NoPath, user_data |-> Null]

(* From pcre2_match to the last callback a dispatch works on its route.     *)
Holding == {"match", "store", "test", "user", "served"}
Active == Holding \cup {"look"}

RouterInit ==
  /\ RoutesInit
  /\ router = Null /\ field = [r \in RouteIds |-> NoMatch]
  /\ pc = [t \in Threads |-> "idle"] /\ path = [t \in Threads |-> NoPath]
  /\ at = [t \in Threads |-> Null] /\ found = [t \in Threads |-> NoPath] /\ begun = 0
  /\ raced = [t \in Threads |-> FALSE] /\ touched = [t \in Threads |-> FALSE]
  /\ changed = [t \in Threads |-> FALSE]

(* sg_router_new keeps the first route.                                    *)
RouterNew ==
  /\ router = Null /\ routes.head # Null
  /\ router' = routes.head
  /\ UNCHANGED <<routesVars, field, pc, path, at, found, raced, touched, changed, begun>>

(* sg_router_free, which a program calls when no thread dispatches.         *)
RouterFree ==
  /\ router # Null /\ \A t \in Threads : pc[t] = "idle"
  /\ router' = Null
  /\ UNCHANGED <<routesVars, field, pc, path, at, found, raced, touched, changed, begun>>

Maintain ==
  /\ RoutesNext /\ added' + begun <= MaxWork
  /\ changed' = [t \in Threads |-> changed[t] \/ (pc[t] # "idle" /\ routes' # routes)]
  /\ field' = [r \in RouteIds |-> IF <<r, "route">> \in heap' THEN field[r] ELSE NoMatch]
  /\ UNCHANGED <<router, pc, path, at, found, raced, touched, begun>>

Dispatch(t, p) ==
  /\ pc[t] = "idle" /\ router # Null /\ added + begun < MaxWork
  /\ pc' = [pc EXCEPT ![t] = "look"] /\ path' = [path EXCEPT ![t] = p]
  /\ at' = [at EXCEPT ![t] = router] /\ begun' = begun + 1
  /\ UNCHANGED <<routesVars, router, field, found, raced, touched, changed>>

(* A dispatch returns.                                                     *)
Return(t) ==
  /\ pc' = [pc EXCEPT ![t] = "idle"] /\ path' = [path EXCEPT ![t] = NoPath]
  /\ at' = [at EXCEPT ![t] = Null] /\ found' = [found EXCEPT ![t] = NoPath]
  /\ raced' = [raced EXCEPT ![t] = FALSE] /\ changed' = [changed EXCEPT ![t] = FALSE]
  /\ UNCHANGED <<routesVars, router, field, touched, begun>>

(* The thread touches a route that was freed: anything may happen.         *)
Touch(t) ==
  /\ pc[t] \in Active /\ ~Live(at[t])
  /\ touched' = [touched EXCEPT ![t] = TRUE] /\ pc' = [pc EXCEPT ![t] = "lost"]
  /\ UNCHANGED <<routesVars, router, field, path, at, found, raced, changed, begun>>

(* The threads inside pcre2_match with the match data of a route.           *)
Inside(r) == {u \in Threads : pc[u] = "match" /\ at[u] = r}

(* A thread that writes to its route races every other that works on it,   *)
(* and is raced itself by one that is inside pcre2_match.                   *)
Racing(t) ==
  [u \in Threads |-> raced[u] \/ (at[u] = at[t]
                       /\ IF u = t THEN Inside(at[t]) \ {t} # {} ELSE pc[u] \in Holding)]

(* dispatch_cb ends the dispatch, or lets it go on into pcre2_match, which *)
(* from then on writes the match data of the route.                        *)
Look(t) ==
  /\ pc[t] = "look" /\ Live(at[t])
  /\ \/ /\ field' = [field EXCEPT ![at[t]].match = t]
        /\ pc' = [pc EXCEPT ![t] = "match"] /\ raced' = Racing(t)
        /\ UNCHANGED <<routesVars, router, path, at, found, touched, changed, begun>>
     \/ Return(t)

(* No other thread was or is inside pcre2_match with the same match data.  *)
Alone(t) == field[at[t]].match = t /\ Inside(at[t]) = {t}

MatchOf(t) == IF Matches(at[t], path[t]) THEN path[t] ELSE NoPath

(* pcre2_match answers and leaves its match in the route: a data race, of  *)
(* two threads in it at once, may leave and answer anything.               *)
Matched(t) ==
  /\ pc[t] = "match" /\ Live(at[t])
  /\ \E f, m \in IF Alone(t) THEN {MatchOf(t)} ELSE ReqPaths \cup {NoPath} :
       found' = [found EXCEPT ![t] = f] /\ field' = [field EXCEPT ![at[t]].match = m]
  /\ pc' = [pc EXCEPT ![t] = "store"] /\ raced' = Racing(t)
  /\ UNCHANGED <<routesVars, router, path, at, touched, changed, begun>>

(* Its answer is stored in the route.                                      *)
KeepAnswer(t) ==
  /\ pc[t] = "store" /\ Live(at[t])
  /\ field' = [field EXCEPT ![at[t]].rc = found[t]] /\ found' = [found EXCEPT ![t] = NoPath]
  /\ pc' = [pc EXCEPT ![t] = "test"] /\ raced' = Racing(t)
  /\ UNCHANGED <<routesVars, router, path, at, touched, changed, begun>>

Passes(t, r) == field[r].rc = NoPath

AfterPass(r) == IF r = Null THEN "not found" ELSE "look"

(* A path that does not match goes on to the next route, if there is one.  *)
Pass(t) ==
  /\ pc[t] = "test" /\ Live(at[t]) /\ Passes(t, at[t])
  /\ at' = [at EXCEPT ![t] = routes.next[at[t]]]
  /\ pc' = [pc EXCEPT ![t] = AfterPass(at'[t])]
  /\ UNCHANGED <<routesVars, router, field, path, found, raced, touched, changed, begun>>

(* Fault: the path is not stored.                                          *)
PathOf_stale(t, r) == field[r].path
PathOf(t, r) == path[t]

(* A path that matches is stored in the route.                             *)
Serve(t) ==
  /\ pc[t] = "test" /\ Live(at[t]) /\ ~Passes(t, at[t])
  /\ field' = [field EXCEPT ![at[t]].path = PathOf(t, at[t])]
  /\ pc' = [pc EXCEPT ![t] = "user"] /\ raced' = Racing(t)
  /\ UNCHANGED <<routesVars, router, path, at, found, touched, changed, begun>>

(* So is the user data, which the thread stands for; then match_cb and the *)
(* callback of the route are called with the route.                        *)
SetUser(t) ==
  /\ pc[t] = "user" /\ Live(at[t])
  /\ field' = [field EXCEPT ![at[t]].user_data = t]
  /\ pc' = [pc EXCEPT ![t] = "served"] /\ raced' = Racing(t)
  /\ UNCHANGED <<routesVars, router, path, at, found, touched, changed, begun>>

(* The last of the callbacks returns, or the answer ENOENT is given.       *)
Done(t) == ((pc[t] = "served" /\ Live(at[t])) \/ pc[t] = "not found") /\ Return(t)

(* What a callback asks of its route: the match data, and how many of its  *)
(* groups were set, which segments and variables are read with.            *)
sg_route_match(r) == field[r].match
GroupsSet(r) == field[r].rc
sg_route_path(r) == field[r].path
sg_route_user_data(r) == field[r].user_data

RouterNext ==
  \/ RouterNew \/ RouterFree \/ Maintain
  \/ \E t \in Threads :
       \/ \E p \in ReqPaths : Dispatch(t, p)
       \/ Touch(t) \/ Look(t) \/ Matched(t) \/ KeepAnswer(t) \/ Pass(t)
       \/ Serve(t) \/ SetUser(t) \/ Done(t)

allRouterVars == <<routesVars, routerVars>>
RouterSpec == RouterInit /\ [][RouterNext]_allRouterVars

-----------------------------------------------------------------------------
RouterTypeOK ==
  /\ routes \in [head : RouteIds \cup {Null}, next : [RouteIds -> RouteIds \cup {Null}]]
  /\ router \in RouteIds \cup {Null} /\ at \in [Threads -> RouteIds \cup {Null}]
  /\ pc \in [Threads -> Active \cup {"idle", "not found", "lost"}]
  /\ \A r \in RouteIds : field[r].rc \in ReqPaths \cup {NoPath}
  /\ \A t \in Threads : found[t] \in ReqPaths \cup {NoPath} /\ (pc[t] \in Active => at[t] # Null)

(* The callback that is called is the one of the first route that matches, *)
(* and a path is not found only if none does, unless another thread        *)
(* dispatched over the same route or the routes changed                    *)
(* (sg_router.c:58, 72, 84).                                               *)
FirstMatchServed ==
  \A t \in Threads : ~raced[t] /\ ~changed[t] =>
    /\ pc[t] \in {"user", "served"} =>
         Matches(at[t], path[t]) /\ \A r \in Listed : r < at[t] => r < router \/ ~Matches(r, path[t])
    /\ pc[t] = "not found" => \A r \in Listed : r < router \/ ~Matches(r, path[t])

(* The callback of a route sees its own match, path and user data, unless  *)
(* another thread dispatched over the same route meanwhile, or the route   *)
(* was removed and freed (sg_router.c:69, 73).                             *)
OwnMatch ==
  \A t \in Threads : pc[t] = "served" /\ ~raced[t] /\ Live(at[t]) =>
    /\ sg_route_match(at[t]) = path[t] /\ GroupsSet(at[t]) = path[t]
    /\ sg_route_path(at[t]) = path[t] /\ sg_route_user_data(at[t]) = t

(* A freed route is touched only if routes were removed during a dispatch, *)
(* or if the route the router holds was removed: the router is not told    *)
(* (sg_router.c:43, 58).                                                   *)
TouchesLiveRoutes ==
  \A t \in Threads : touched[t] => changed[t] \/ ~Live(router)
=============================================================================
