----------------------------- MODULE HttpIsolate -----------------------------
(***************************************************************************)
(* Isolated requests (sg_httpreq.c) inside the access handler              *)
(* (sg_httpsrv.c).  An event loop of libmicrohttpd calls sg__httpsrv_ahc   *)
(* for a request; the application's request callback may call              *)
(* sg_httpreq_isolate, which suspends the connection and runs a second     *)
(* callback in a thread of its own; when that callback returns the thread  *)
(* takes its node off the server's list and resumes the connection, and    *)
(* the event loop calls the handler once more to send the response.        *)
(*                                                                         *)
(* One element of Reqs is one request on one connection, together with the *)
(* sg_httpreq, the sg__httpreq_isolated node and the thread it may get.    *)
(* Authentication and the request's body are in HttpAccess.                *)
(***************************************************************************)
EXTENDS Naturals, SequencesExt

CONSTANTS
  Reqs,      \* the requests
  LoopOf,    \* the event loop (daemon thread) that serves each request
  Threaded,  \* MHD_USE_THREAD_PER_CONNECTION: resumed by the listen thread
  Slow,      \* requests whose isolated callback need not return
  MaxTries   \* bound on the calls of sg_httpreq_isolate of one callback

ASSUME ThreadedAssumption == Threaded \in BOOLEAN
ASSUME SlowAssumption == Slow \subseteq Reqs
ASSUME MaxTriesAssumption == MaxTries \in Nat

VARIABLES
  st,         \* where the access handler is with each request
  tpc,        \* where the isolated thread of each request is
  mutex,      \* srv->mutex is held
  list,       \* srv->isolated_list, the requests of its nodes from the head
  walk,       \* the list as sg_httpreq_isolate saw it when it took the mutex
  twalk,      \* the list as the isolated thread saw it when it took the mutex
  suspended,  \* MHD: the connection is suspended
  resuming,   \* MHD: MHD_resume_connection was called, not yet processed
  req,        \* the memory of the sg_httpreq
  node,       \* the memory of the sg__httpreq_isolated
  isolated,   \* req->isolated
  res,        \* req->res->handle # NULL
  calls,      \* how often req_cb was called for the request
  tries       \* calls of sg_httpreq_isolate so far

reqVars == <<req, res, isolated, calls, tries>>
mhdVars == <<suspended, resuming>>
srvVars == <<mutex, list, walk, twalk>>
vars == <<st, tpc, mutex, list, walk, twalk, suspended, resuming, req, node,
          isolated, res, calls, tries>>

Memory == {"none", "live", "freed"}

(* Locations of the handler: "idle" no request yet; "wait" between two     *)
(* calls of sg__httpsrv_ahc; then the steps of one call; "queued" and      *)
(* "refused" the handler returned for good; "closed" after sg__httpsrv_rcc *)
InCallback == {"req_cb", "lock", "crit", "unlock"}
InAhc == InCallback \cup {"reply"}
Handler == {"idle", "wait", "queued", "refused", "closed"} \cup InAhc

Thread == {"none", "cb", "lock", "unlink", "unlock", "resume", "free", "exited"}

TypeOK ==
  /\ st \in [Reqs -> Handler]
  /\ tpc \in [Reqs -> Thread]
  /\ mutex \in BOOLEAN
  /\ list \in Seq(Reqs)
  /\ walk \in [Reqs -> Seq(Reqs)]
  /\ twalk \in [Reqs -> Seq(Reqs)]
  /\ suspended \in [Reqs -> BOOLEAN]
  /\ resuming \in [Reqs -> BOOLEAN]
  /\ req \in [Reqs -> Memory]
  /\ node \in [Reqs -> Memory]
  /\ isolated \in [Reqs -> BOOLEAN]
  /\ res \in [Reqs -> BOOLEAN]
  /\ calls \in [Reqs -> Nat]
  /\ tries \in [Reqs -> Nat]

Init ==
  /\ st = [r \in Reqs |-> "idle"]
  /\ tpc = [r \in Reqs |-> "none"]
  /\ mutex = FALSE
  /\ list = << >>
  /\ walk = [r \in Reqs |-> << >>]
  /\ twalk = [r \in Reqs |-> << >>]
  /\ suspended = [r \in Reqs |-> FALSE]
  /\ resuming = [r \in Reqs |-> FALSE]
  /\ req = [r \in Reqs |-> "none"]
  /\ node = [r \in Reqs |-> "none"]
  /\ isolated = [r \in Reqs |-> FALSE]
  /\ res = [r \in Reqs |-> FALSE]
  /\ calls = [r \in Reqs |-> 0]
  /\ tries = [r \in Reqs |-> 0]

(* utlist.h: the list with x at its end; the list without its first x.     *)
LL_APPEND(s, x) == Append(s, x)

(* Fault: only the head is ever removed.                                   *)
LL_DELETE_headOnly(s, x) == IF s # << >> /\ s[1] = x THEN Tail(s) ELSE s

LL_DELETE(s, x) ==
  IF x \in ToSet(s)
  THEN LET k == CHOOSE i \in 1..Len(s) :
                  s[i] = x /\ \A j \in 1..(i - 1) : s[j] # x
       IN  [i \in 1..(Len(s) - 1) |-> IF i < k THEN s[i] ELSE s[i + 1]]
  ELSE s

(* The daemon thread that serves r is not inside the handler.              *)
LoopFree(r) == \A q \in Reqs : LoopOf[q] = LoopOf[r] => st[q] \notin InAhc

Goto(r, loc) == st' = [st EXCEPT ![r] = loc]
TGoto(r, loc) == tpc' = [tpc EXCEPT ![r] = loc]

-----------------------------------------------------------------------------
(* The access handler, called by the event loop of the connection.         *)

(* sg__httpsrv_ahc, first call: *con_cls is NULL and a request is made.    *)
AhcFirst(r) ==
  /\ st[r] = "idle" /\ LoopFree(r)
  /\ req' = [req EXCEPT ![r] = "live"]
  /\ Goto(r, "wait")
  /\ UNCHANGED <<tpc, srvVars, mhdVars, node, res, isolated, calls, tries>>

(* sg__httpreq_new returned NULL: MHD_NO, and *con_cls stays NULL.         *)
AhcNoMem(r) ==
  /\ st[r] = "idle" /\ LoopFree(r)
  /\ Goto(r, "refused")
  /\ UNCHANGED <<tpc, srvVars, mhdVars, reqVars, node>>

(* Fault: req_cb runs for an isolated request too.                         *)
AhcCall_always(r) ==
  /\ st[r] = "wait" /\ ~suspended[r] /\ LoopFree(r)
  /\ Goto(r, "req_cb") /\ calls' = [calls EXCEPT ![r] = @ + 1]
  /\ UNCHANGED <<tpc, srvVars, mhdVars, req, node, res, isolated, tries>>

(* sg__httpsrv_ahc with a request: req_cb unless it is isolated already.   *)
AhcCall(r) ==
  /\ st[r] = "wait" /\ ~suspended[r] /\ LoopFree(r)
  /\ IF isolated[r]
     THEN Goto(r, "reply") /\ UNCHANGED calls
     ELSE Goto(r, "req_cb") /\ calls' = [calls EXCEPT ![r] = @ + 1]
  /\ UNCHANGED <<tpc, srvVars, mhdVars, req, node, res, isolated, tries>>

(* The request callback sends a response itself (it leaves the response to *)
(* the isolated callback once there is one).                               *)
CallbackSend(r) ==
  /\ st[r] = "req_cb" /\ tpc[r] = "none" /\ ~res[r]
  /\ res' = [res EXCEPT ![r] = TRUE]
  /\ UNCHANGED <<st, tpc, srvVars, mhdVars, req, node, isolated, calls, tries>>

CallbackReturn(r) ==
  /\ st[r] = "req_cb"
  /\ Goto(r, "reply")
  /\ UNCHANGED <<tpc, srvVars, mhdVars, reqVars, node>>

(* Fault: the response is dispatched without a look at suspended.          *)
AhcReply_unchecked(r) ==
  /\ st[r] = "reply"
  /\ Goto(r, IF res[r] THEN "queued" ELSE "refused")
  /\ UNCHANGED <<tpc, srvVars, mhdVars, reqVars, node>>

(* The end of sg__httpsrv_ahc: MHD_YES while the connection is suspended,  *)
(* else sg__httpres_dispatch, whose MHD_queue_response fails on a NULL     *)
(* response.                                                               *)
AhcReply(r) ==
  /\ st[r] = "reply"
  /\ Goto(r, IF suspended[r] THEN "wait" ELSE IF res[r] THEN "queued" ELSE "refused")
  /\ UNCHANGED <<tpc, srvVars, mhdVars, reqVars, node>>

(* sg__httpsrv_rcc: the request is freed and *con_cls set to NULL.         *)
Rcc(r) ==
  /\ req' = [req EXCEPT ![r] = IF @ = "none" THEN @ ELSE "freed"]
  /\ Goto(r, "closed")
  /\ UNCHANGED <<tpc, srvVars, mhdVars, node, res, isolated, calls, tries>>

(* The response was sent, or the connection is closed after MHD_NO.        *)
Completed(r) == st[r] \in {"queued", "refused"} /\ LoopFree(r) /\ Rcc(r)

(* The event loop finds a connection that is not suspended closed, broken  *)
(* or timed out.                                                           *)
ClientGone(r) == st[r] = "wait" /\ ~suspended[r] /\ LoopFree(r) /\ Rcc(r)

(* resume_suspended_connections of libmicrohttpd, run by the event loop    *)
(* between handler calls or, with a thread per connection, by the listen   *)
(* thread at any time.                                                     *)
ProcessResume(r) ==
  /\ suspended[r] /\ resuming[r] /\ (Threaded \/ LoopFree(r))
  /\ suspended' = [suspended EXCEPT ![r] = FALSE]
  /\ resuming' = [resuming EXCEPT ![r] = FALSE]
  /\ UNCHANGED <<st, tpc, srvVars, reqVars, node>>

-----------------------------------------------------------------------------
(* sg_httpreq_isolate, called in the request callback.                     *)

IsolateCall(r) ==
  /\ st[r] = "req_cb" /\ tries[r] < MaxTries
  /\ tries' = [tries EXCEPT ![r] = @ + 1]
  /\ Goto(r, "lock")
  /\ UNCHANGED <<tpc, srvVars, mhdVars, req, node, res, isolated, calls>>

(* sg__httpsrv_lock; what LL_APPEND and LL_DELETE do to the list starts    *)
(* from the nodes found now.                                               *)
IsolateLock(r) ==
  /\ st[r] = "lock" /\ ~mutex
  /\ mutex' = TRUE
  /\ walk' = [walk EXCEPT ![r] = list]
  /\ Goto(r, "crit")
  /\ UNCHANGED <<tpc, list, twalk, mhdVars, reqVars, node>>

(* Fault: the early return skips the unlock.                               *)
IsolateAlready_locked(r) ==
  /\ st[r] = "crit" /\ isolated[r]
  /\ Goto(r, "req_cb")
  /\ UNCHANGED <<tpc, srvVars, mhdVars, reqVars, node>>

(* EALREADY: the request was isolated before.                              *)
IsolateAlready(r) ==
  /\ st[r] = "crit" /\ isolated[r]
  /\ Goto(r, "unlock")
  /\ UNCHANGED <<tpc, srvVars, mhdVars, reqVars, node>>

(* ENOMEM: sg_malloc returned NULL.                                        *)
IsolateNoMem(r) ==
  /\ st[r] = "crit" /\ ~isolated[r]
  /\ Goto(r, "unlock")
  /\ UNCHANGED <<tpc, srvVars, mhdVars, reqVars, node>>

IsolateSpawn(r) ==
  /\ st[r] = "crit" /\ ~isolated[r]
  /\ node' = [node EXCEPT ![r] = "live"]
  /\ suspended' = [suspended EXCEPT ![r] = TRUE]
  /\ list' = LL_APPEND(walk[r], r)
  /\ isolated' = [isolated EXCEPT ![r] = TRUE]
  /\ TGoto(r, "cb")
  /\ Goto(r, "unlock")
  /\ UNCHANGED <<mutex, walk, twalk, resuming, req, res, calls, tries>>

(* Fault: the failed pthread_create leaves the connection suspended.       *)
IsolateSpawnFail_parked(r) ==
  /\ st[r] = "crit" /\ ~isolated[r]
  /\ node' = [node EXCEPT ![r] = "freed"]
  /\ suspended' = [suspended EXCEPT ![r] = TRUE]
  /\ list' = LL_DELETE(LL_APPEND(walk[r], r), r)
  /\ isolated' = [isolated EXCEPT ![r] = TRUE]
  /\ Goto(r, "unlock")
  /\ UNCHANGED <<tpc, mutex, walk, twalk, resuming, req, res, calls, tries>>

(* pthread_create failed: everything is undone but req->isolated.          *)
IsolateSpawnFail(r) ==
  /\ st[r] = "crit" /\ ~isolated[r]
  /\ node' = [node EXCEPT ![r] = "freed"]
  /\ suspended' = [suspended EXCEPT ![r] = TRUE]
  /\ resuming' = [resuming EXCEPT ![r] = TRUE]
  /\ list' = LL_DELETE(LL_APPEND(walk[r], r), r)
  /\ isolated' = [isolated EXCEPT ![r] = TRUE]
  /\ Goto(r, "unlock")
  /\ UNCHANGED <<tpc, mutex, walk, twalk, req, res, calls, tries>>

(* sg__httpsrv_unlock; back in the request callback.                       *)
IsolateUnlock(r) ==
  /\ st[r] = "unlock"
  /\ mutex' = FALSE
  /\ walk' = [walk EXCEPT ![r] = << >>]
  /\ Goto(r, "req_cb")
  /\ UNCHANGED <<tpc, list, twalk, mhdVars, reqVars, node>>

-----------------------------------------------------------------------------
(* sg__httpreq_isolate_cb, the isolated thread.                            *)

ThreadSend(r) ==
  /\ tpc[r] = "cb" /\ ~res[r]
  /\ res' = [res EXCEPT ![r] = TRUE]
  /\ UNCHANGED <<st, tpc, srvVars, mhdVars, req, node, isolated, calls, tries>>

(* Fault: the connection is resumed before the node is unlinked.           *)
ThreadReturn_resumeFirst(r) ==
  /\ tpc[r] = "cb"
  /\ resuming' = [resuming EXCEPT ![r] = TRUE]
  /\ TGoto(r, "lock")
  /\ UNCHANGED <<st, srvVars, suspended, reqVars, node>>

ThreadReturn(r) ==
  /\ tpc[r] = "cb"
  /\ TGoto(r, "lock")
  /\ UNCHANGED <<st, srvVars, mhdVars, reqVars, node>>

(* Fault: the list is changed without the mutex.                           *)
ThreadLock_unlocked(r) ==
  /\ tpc[r] = "lock"
  /\ twalk' = [twalk EXCEPT ![r] = list]
  /\ TGoto(r, "unlink")
  /\ UNCHANGED <<st, mutex, list, walk, mhdVars, reqVars, node>>

ThreadLock(r) ==
  /\ tpc[r] = "lock" /\ ~mutex
  /\ mutex' = TRUE
  /\ twalk' = [twalk EXCEPT ![r] = list]
  /\ TGoto(r, "unlink")
  /\ UNCHANGED <<st, list, walk, mhdVars, reqVars, node>>

ThreadUnlink(r) ==
  /\ tpc[r] = "unlink"
  /\ list' = LL_DELETE(twalk[r], r)
  /\ TGoto(r, "unlock")
  /\ UNCHANGED <<st, mutex, walk, twalk, mhdVars, reqVars, node>>

ThreadUnlock(r) ==
  /\ tpc[r] = "unlock"
  /\ mutex' = FALSE
  /\ twalk' = [twalk EXCEPT ![r] = << >>]
  /\ TGoto(r, "resume")
  /\ UNCHANGED <<st, list, walk, mhdVars, reqVars, node>>

ThreadResume(r) ==
  /\ tpc[r] = "resume"
  /\ resuming' = [resuming EXCEPT ![r] = TRUE]
  /\ TGoto(r, "free")
  /\ UNCHANGED <<st, srvVars, suspended, reqVars, node>>

ThreadFree(r) ==
  /\ tpc[r] = "free"
  /\ node' = [node EXCEPT ![r] = "freed"]
  /\ TGoto(r, "exited")
  /\ UNCHANGED <<st, srvVars, mhdVars, reqVars>>

-----------------------------------------------------------------------------
IsolateBody(r) ==
  \/ IsolateAlready(r) \/ IsolateNoMem(r)
  \/ IsolateSpawn(r) \/ IsolateSpawnFail(r)

AhcStep(r) ==
  \/ AhcFirst(r) \/ AhcNoMem(r) \/ AhcCall(r)
  \/ CallbackSend(r) \/ CallbackReturn(r) \/ AhcReply(r)
  \/ IsolateCall(r) \/ IsolateLock(r) \/ IsolateBody(r) \/ IsolateUnlock(r)

MhdStep(r) == Completed(r) \/ ClientGone(r) \/ ProcessResume(r)

ThreadExit(r) ==
  \/ ThreadLock(r) \/ ThreadUnlink(r) \/ ThreadUnlock(r)
  \/ ThreadResume(r) \/ ThreadFree(r)

ThreadStep(r) == ThreadSend(r) \/ ThreadReturn(r) \/ ThreadExit(r)

Next == \E r \in Reqs : AhcStep(r) \/ MhdStep(r) \/ ThreadStep(r)

Spec == Init /\ [][Next]_vars

(* What the scheduler owes: every thread that can run runs, the event loop *)
(* keeps polling, and callbacks return except the isolated ones in Slow.   *)
(* A client need not send a request, nor leave.                            *)
Fairness ==
  \A r \in Reqs :
    /\ WF_vars(AhcCall(r)) /\ WF_vars(CallbackReturn(r)) /\ WF_vars(AhcReply(r))
    /\ WF_vars(IsolateLock(r)) /\ WF_vars(IsolateBody(r)) /\ WF_vars(IsolateUnlock(r))
    /\ WF_vars(ProcessResume(r)) /\ WF_vars(Completed(r))
    /\ WF_vars(ThreadExit(r))
    /\ r \notin Slow => WF_vars(ThreadReturn(r))

FairSpec == Spec /\ Fairness

-----------------------------------------------------------------------------
(* The thread's body up to the call of MHD_resume_connection.              *)
Running == {"cb", "lock", "unlink", "unlock", "resume"}

(* Safety, memory: whatever the interleaving with the event loop, the      *)
(* isolated thread finds its node and its request alive at every step that *)
(* reads them (sg_httpreq.c, sg__httpreq_isolate_cb), and frees its node   *)
(* once.                                                                   *)
ThreadTouchesLive ==
  \A r \in Reqs :
    /\ tpc[r] \in Running => req[r] = "live" /\ node[r] = "live"
    /\ tpc[r] = "free" => node[r] = "live"

(* Safety, order: no response is queued, refused or freed while the        *)
(* isolated callback may still be writing it; the thread has at least      *)
(* asked for the connection back (sg_httpsrv.c, the suspended check that   *)
(* ends sg__httpsrv_ahc).                                                  *)
ResponseAfterThread ==
  \A r \in Reqs :
    st[r] \in {"queued", "refused", "closed"} => tpc[r] \in {"none", "free", "exited"}

(* Safety: the request callback runs at most once for a request, although  *)
(* the handler is called again for an isolated one, and for one whose      *)
(* isolation failed after its connection was suspended.                    *)
ReqCbOnce == \A r \in Reqs : calls[r] <= 1

(* Safety, shared list: isolated_list holds each thread that was started   *)
(* and has not unlinked itself, once, and nothing else, so a walk over it  *)
(* under the mutex meets live nodes only.                                  *)
ListExact ==
  /\ IsInjective(list)
  /\ \A r \in Reqs : r \in ToSet(list) <=> tpc[r] \in {"cb", "lock", "unlink"}

(* Safety, no lost wake-up: a suspended connection always has somebody     *)
(* left who will resume it, the failed pthread_create included.            *)
SuspendedHasResumer ==
  \A r \in Reqs : suspended[r] => resuming[r] \/ tpc[r] \in Running

(* Refinement: isolation is invisible from outside.  Seen through this     *)
(* mapping every behaviour is one of HttpExchange.                         *)
Phase(r) ==
  CASE st[r] = "idle" -> "none"
    [] st[r] = "queued" -> "answered"
    [] st[r] = "refused" -> "dropped"
    [] st[r] = "closed" -> "over"
    [] OTHER -> IF calls[r] = 0 THEN "open"
                ELSE IF st[r] \in InCallback \/ tpc[r] = "cb" THEN "handling"
                ELSE "handled"

Exchange == INSTANCE HttpExchange WITH phase <- [r \in Reqs |-> Phase(r)], sent <- res

(* The promise of HttpExchange is kept (stated as a property for TLC).     *)
ImplementsExchange == Exchange!Spec

(* Liveness: a request the server took is over in the end, even while the  *)
(* isolated callback of another one (in Slow) never returns: an isolated   *)
(* request does not hold up the event loop, and no wake-up is lost.        *)
EventuallyOver == \A r \in Reqs \ Slow : st[r] = "wait" ~> st[r] = "closed"

(* Liveness, resources: the node of an isolated request leaves the list    *)
(* and is freed in the end.                                                *)
NodeReclaimed ==
  \A r \in Reqs \ Slow :
    node[r] = "live" ~> (node[r] = "freed" /\ r \notin ToSet(list))
=============================================================================
