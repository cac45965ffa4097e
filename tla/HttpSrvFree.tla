----------------------------- MODULE HttpSrvFree -----------------------------
(***************************************************************************)
(* sg_httpsrv_shutdown and sg_httpsrv_free (sg_httpsrv.c) called by the    *)
(* application's main thread while the event loops and the isolated        *)
(* threads of HttpIsolate run.  The first stops the daemon; the second     *)
(* joins the threads it finds on isolated_list, sweeps what is left on the *)
(* list, stops the daemon if nobody did, and frees the server.             *)
(***************************************************************************)
EXTENDS HttpIsolate

CONSTANT Nil   \* the NULL pointer

ASSUME NilAssumption == Nil \notin Reqs

VARIABLES
  fpc,   \* where sg_httpsrv_shutdown or sg_httpsrv_free is
  up,    \* srv->handle # NULL
  el,    \* its loop variable "isolated"
  tmp,   \* its loop variable "tmp"
  orderly, \* the application calls them only once none of its callbacks is running
  stale  \* the next pointer an unlinked node still holds

freeVars == <<fpc, up, el, tmp, orderly, stale>>
allVars == <<vars, freeVars>>

(* "shut" is in sg_httpsrv_shutdown; a stop that aborts the process ends in *)
(* "abort" there, and in "panic" when sg_httpsrv_free made it.             *)
Aborted == {"abort", "panic"}
FreePc == {"run", "shut", "first", "join", "next", "sweep", "stop", "free", "done"} \cup Aborted
Node == Reqs \cup {Nil}

FreeTypeOK ==
  /\ TypeOK
  /\ fpc \in FreePc /\ up \in BOOLEAN
  /\ el \in Node /\ tmp \in Node /\ orderly \in BOOLEAN
  /\ stale \in [Reqs -> Node]

FreeInit ==
  /\ Init
  /\ fpc = "run" /\ up = TRUE /\ el = Nil /\ tmp = Nil /\ orderly \in BOOLEAN
  /\ stale = [r \in Reqs |-> Nil]

(* isolated->next: the successor on the list, or what is left in a node    *)
(* that was taken off it (undefined once the node is freed; the value it   *)
(* had is one of the outcomes).                                            *)
NextOf(n) ==
  IF n \notin ToSet(list) THEN stale[n]
  ELSE LET i == CHOOSE j \in 1..Len(list) : list[j] = n
       IN  IF i = Len(list) THEN Nil ELSE list[i + 1]

Head0 == IF list = << >> THEN Nil ELSE list[1]

DaemonUp == up /\ fpc \notin Aborted

-----------------------------------------------------------------------------
(* The event loops and threads go on while the server is being freed, up   *)
(* to MHD_stop_daemon.                                                     *)
Serve(r) ==
  /\ DaemonUp
  /\ AhcStep(r) \/ MhdStep(r)
  /\ st[r] = "idle" /\ orderly => fpc = "run"
  /\ UNCHANGED freeVars

(* The isolated threads; LL_DELETE leaves the next pointer of the node.    *)
Isolated(r) ==
  /\ fpc \notin Aborted
  /\ ThreadStep(r)
  /\ stale' = [stale EXCEPT ![r] = IF tpc[r] = "unlink" THEN NextOf(r) ELSE @]
  /\ UNCHANGED <<fpc, up, el, tmp, orderly>>

(* No callback runs or will run: what is isolated has been handed back.    *)
Drained ==
  \A r \in Reqs :
    /\ tpc[r] \in {"none", "free", "exited"}
    /\ \/ st[r] \in {"idle", "queued", "refused", "closed"}
       \/ st[r] = "wait" /\ isolated[r]

(* The application calls sg_httpsrv_shutdown, and then or at once          *)
(* sg_httpsrv_free.                                                        *)
ShutdownCall ==
  /\ fpc = "run" /\ up /\ (orderly => Drained)
  /\ fpc' = "shut"
  /\ UNCHANGED <<vars, up, el, tmp, orderly, stale>>

FreeCall ==
  /\ fpc = "run" /\ (orderly => Drained)
  /\ fpc' = "first"
  /\ UNCHANGED <<vars, up, el, tmp, orderly, stale>>

Enter(n) == /\ el' = n
            /\ tmp' = IF n = Nil THEN tmp ELSE NextOf(n)
            /\ fpc' = IF n = Nil THEN "sweep" ELSE "join"

(* Fault: the mutex is kept while the thread is joined.                    *)
FreeFirst_held ==
  /\ fpc = "first" /\ ~mutex
  /\ Enter(Head0)
  /\ mutex' = (list # << >>)
  /\ UNCHANGED <<st, tpc, list, walk, twalk, mhdVars, reqVars, node, up, orderly, stale>>

(* LL_FOREACH_SAFE under the mutex, which is released for each join.       *)
FreeFirst ==
  /\ fpc = "first" /\ ~mutex
  /\ Enter(Head0)
  /\ UNCHANGED <<vars, up, orderly, stale>>

(* pthread_join(isolated->thread) returns when the thread has ended, or    *)
(* with an error when the thread id was read from a freed node.            *)
FreeJoin ==
  /\ fpc = "join"
  /\ tpc[el] = "exited" \/ node[el] = "freed"
  /\ fpc' = "next"
  /\ UNCHANGED <<vars, up, el, tmp, orderly, stale>>

FreeNext ==
  /\ fpc = "next" /\ ~mutex
  /\ Enter(tmp)
  /\ UNCHANGED <<vars, up, orderly, stale>>

(* The second loop, under the mutex: what is on the list now is resumed,   *)
(* unlinked and freed.                                                     *)
FreeSweep ==
  /\ fpc = "sweep" /\ ~mutex
  /\ resuming' = [r \in Reqs |-> resuming[r] \/ (r \in ToSet(list) /\ suspended[r])]
  /\ node' = [r \in Reqs |-> IF r \in ToSet(list) THEN "freed" ELSE node[r]]
  /\ list' = << >>
  /\ fpc' = "stop"
  /\ UNCHANGED <<st, tpc, mutex, walk, twalk, suspended, reqVars, up, el, tmp, orderly,
                 stale>>

(* MHD_stop_daemon joins the event loops, closes the connections           *)
(* (sg__httpsrv_rcc for each request) and aborts the process when a        *)
(* connection is still suspended.                                          *)
MHD_stop_daemon(done, aborted) ==
  /\ \A r \in Reqs : st[r] \notin InAhc
  /\ IF \E r \in Reqs : suspended[r] /\ ~resuming[r]
     THEN fpc' = aborted /\ UNCHANGED <<st, req, mhdVars, up>>
     ELSE /\ fpc' = done /\ up' = FALSE
          /\ st' = [r \in Reqs |-> IF st[r] = "idle" THEN "idle" ELSE "closed"]
          /\ req' = [r \in Reqs |-> IF req[r] = "none" THEN "none" ELSE "freed"]
          /\ suspended' = [r \in Reqs |-> FALSE]
          /\ resuming' = [r \in Reqs |-> FALSE]
  /\ UNCHANGED <<tpc, srvVars, node, isolated, res, calls, tries, el, tmp, orderly, stale>>

(* Fault: the daemon is not stopped.                                       *)
sg_httpsrv_shutdown_skipped(done, aborted) ==
  /\ fpc' = done
  /\ UNCHANGED <<vars, up, el, tmp, orderly, stale>>

(* EALREADY when there is no daemon.                                       *)
sg_httpsrv_shutdown(done, aborted) ==
  IF up THEN MHD_stop_daemon(done, aborted)
  ELSE fpc' = done /\ UNCHANGED <<vars, up, el, tmp, orderly, stale>>

Shutdown == fpc = "shut" /\ sg_httpsrv_shutdown("run", "abort")
FreeStop == fpc = "stop" /\ sg_httpsrv_shutdown("free", "panic")

(* The directory name, the mutex and the server itself are freed.          *)
FreeSrv ==
  /\ fpc = "free"
  /\ fpc' = "done"
  /\ UNCHANGED <<vars, up, el, tmp, orderly, stale>>

FreeStep == \/ FreeFirst \/ FreeJoin \/ FreeNext \/ FreeSweep \/ FreeStop \/ FreeSrv

FreeNextState ==
  \/ \E r \in Reqs : Serve(r) \/ Isolated(r)
  \/ ShutdownCall \/ Shutdown \/ FreeCall \/ FreeStep

FreeSpec == FreeInit /\ [][FreeNextState]_allVars

(* As in HttpIsolate, and the freeing thread runs.                         *)
FreeFairness ==
  /\ \A r \in Reqs :
       /\ WF_allVars(Serve(r) /\ (AhcCall(r) \/ AhcReply(r)))
       /\ WF_allVars(Serve(r) /\ CallbackReturn(r))
       /\ WF_allVars(Serve(r) /\ (IsolateLock(r) \/ IsolateBody(r) \/ IsolateUnlock(r)))
       /\ WF_allVars(Isolated(r) /\ ThreadReturn(r))
       /\ WF_allVars(Isolated(r) /\ ThreadExit(r))
  /\ WF_allVars(Shutdown) /\ WF_allVars(FreeStep)

FairFreeSpec == FreeSpec /\ FreeFairness

-----------------------------------------------------------------------------
(* Safety: the daemon is stopped and never aborts the process because a    *)
(* connection is still suspended (sagui.h: a running server is stopped     *)
(* before it is freed).                                                    *)
NeverPanics == fpc # "panic"

(* Safety: neither that nor a shutdown does when the application waited    *)
(* for its callbacks, even if threads have still to leave the list or      *)
(* event loops to resume.                                                  *)
OrderlyNeverPanics == orderly => fpc \notin Aborted

(* Safety: when such a server is gone no request and no connection is left *)
(* over, and no node but those whose threads are about to free them.       *)
NothingLeft ==
  orderly /\ fpc = "done" =>
    \A r \in Reqs :
      /\ st[r] \in {"idle", "closed"} /\ req[r] # "live" /\ ~suspended[r]
      /\ node[r] = "live" => tpc[r] = "free"
      /\ tpc[r] \in {"none", "free", "exited"}

(* Safety: an isolated request is brought back only when its callback has  *)
(* finished (sagui.h, sg_httpreq_isolate).                                 *)
BackWhenFinished ==
  \A r \in Reqs : tpc[r] = "cb" => suspended[r] /\ ~resuming[r]

(* Liveness, no deadlock: sg_httpsrv_free does not hold the mutex while it *)
(* joins a thread that needs it, so it ends whatever is isolated when it   *)
(* is called (with an abort in the case of NeverPanics); and a shutdown    *)
(* ends.                                                                   *)
FreeReturns == fpc \in {"shut", "first"} ~> fpc \in {"run", "done"} \cup Aborted
=============================================================================
