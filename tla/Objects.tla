------------------------------ MODULE Objects ------------------------------
(* The parts of the library that share no state with each other, side by   *)
(* side: in a behaviour a program uses one of them, and the others stay as *)
(* they begin.  What the parts promise together is what each promises.     *)
EXTENDS Entrypoints, StrMap, Str, Utils, Router, RouteMatch, ZCompress, Memory, HttpMsg, HttpSrvLife

VARIABLE part   \* the part that is used

objectVars == <<entryVars, strmapVars, strVars, args, allRouterVars, match, zVars, memVars, msgVars, lifeVars>>
vars == <<part, objectVars>>

ObjectParts == {"entrypoints", "strmap", "str", "utils", "router", "match", "deflate", "memory", "request", "server"}

Init ==
  /\ part \in ObjectParts
  /\ EntryInit /\ StrMapInit /\ StrInit /\ RouterInit /\ MemInit /\ MsgInit /\ LifeInit
  /\ args \in IF part = "utils" THEN Strings(MaxPath) \X Strings(MaxName)
                                ELSE {<< << >>, << >> >>}
  /\ match \in IF part = "match" THEN MatchResults ELSE {Unmatched}
  /\ ZInit(IF part = "deflate" THEN Jobs ELSE {NoJob})

UseEntrypoints ==
  part = "entrypoints" /\ EntryNext
    /\ UNCHANGED <<part, strmapVars, strVars, args, allRouterVars, match, zVars, memVars, msgVars, lifeVars>>
UseStrMap ==
  part = "strmap" /\ StrMapNext
    /\ UNCHANGED <<part, entryVars, strVars, args, allRouterVars, match, zVars, memVars, msgVars, lifeVars>>
UseStr ==
  part = "str" /\ StrNext
    /\ UNCHANGED <<part, entryVars, strmapVars, args, allRouterVars, match, zVars, memVars, msgVars, lifeVars>>
UseRouter ==
  part = "router" /\ RouterNext
    /\ UNCHANGED <<part, entryVars, strmapVars, strVars, args, match, zVars, memVars, msgVars, lifeVars>>
UseDeflate ==
  part = "deflate" /\ sg__zcompress
    /\ UNCHANGED <<part, entryVars, strmapVars, strVars, args, allRouterVars, match, memVars, msgVars, lifeVars>>
UseMemory ==
  part = "memory" /\ MemNext
    /\ UNCHANGED <<part, entryVars, strmapVars, strVars, args, allRouterVars, match, zVars, msgVars, lifeVars>>
UseRequest ==
  part = "request" /\ MsgNext
    /\ UNCHANGED <<part, entryVars, strmapVars, strVars, args, allRouterVars, match, zVars, memVars, lifeVars>>
UseServer ==
  part = "server" /\ LifeNext
    /\ UNCHANGED <<part, entryVars, strmapVars, strVars, args, allRouterVars, match, zVars, memVars, msgVars>>

Next ==
  \/ UseEntrypoints \/ UseStrMap \/ UseStr \/ UseRouter
  \/ UseDeflate \/ UseMemory \/ UseRequest \/ UseServer

Spec == Init /\ [][Next]_vars

-----------------------------------------------------------------------------
(* A request is served by the first route that matches it, whose callback  *)
(* sees its own match, as long as no other thread dispatches over the same *)
(* route (sg_router.c:58, 69, 73).                                         *)
Dispatched == FirstMatchServed /\ OwnMatch

(* Routes are tried in the order they were added, each owns its parts, two *)
(* have one pattern only if it begins with a parenthesis, a freed route is *)
(* not touched unless routes are removed during a dispatch or the router   *)
(* was not told, and the variables of a match are its segments             *)
(* (sg_routes.c:97, 167, 226; sg_router.c:43).                             *)
RoutesKept ==
  /\ RouterTypeOK /\ TriedInOrder /\ PartsOwned
  /\ PatternsOnce /\ PatternTold /\ TouchesLiveRoutes /\ VarsAreSegments

(* A string holds all that was written to it, and the functions on paths,  *)
(* names, cookies, messages and addresses lose nothing and end inside      *)
(* their buffers (utstring.h:115, 145; sg_utils.c:158, 301, 336, 420).     *)
TextsKept ==
  StrHolds /\ JoinedWhole /\ EntrypointCut /\ KeysFold /\ CookieParts /\ ErrorText /\ IpTold

(* An object is there with all its parts or with none, and no part is      *)
(* freed by another allocator than made it, but for those the code frees   *)
(* so when the program has a memory manager of its own                     *)
(* (sg_strmap.c:33, 56; sg_httpauth.c:50; sg_httpres.c:450).               *)
BlocksKept == FreedAsMade /\ BlocksWhole
=============================================================================
