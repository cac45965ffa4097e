---------------------------- MODULE HttpSrvLife ----------------------------
(* A server as the application drives it (sg_httpsrv.c): it is made,       *)
(* configured, listens, is shut down and freed, while libmicrohttpd tells  *)
(* it of connections, which cli_cb may refuse.  Requests are in HttpAccess *)
(* and HttpIsolate.                                                        *)
EXTENDS Naturals, FiniteSets

CONSTANTS
  Daemons,  \* the daemons that may be started, numbers from 1
  Conns     \* connections

ASSUME LifeAssumption == Daemons \subseteq Nat \ {0} /\ IsFiniteSet(Daemons)

VARIABLES
  srv,      \* "none", "live" or "freed"
  dir,      \* srv->uplds_dir: "set", or "null" when it could not be copied
  cli,      \* srv->cli_cb is set
  handle,   \* srv->handle, 0 for NULL
  running,  \* the daemons that run
  used,     \* the daemons started so far
  again,    \* the application listened on a server that was listening
  conn,     \* the daemon of each open connection, 0 for none
  over,     \* connections that were closed
  refused,  \* connections whose socket_context cli_cb set
  told,     \* calls of cli_cb for each connection
  served    \* requests handled for each connection, up to 1

lifeVars == <<srv, dir, cli, handle, running, used, again, conn, over, refused, told,
              served>>
connVars == <<conn, over, refused, told, served>>
daemonVars == <<handle, running, used, again>>

LifeInit ==
  /\ srv = "none" /\ dir = "null" /\ cli = FALSE /\ handle = 0 /\ running = {}
  /\ used = {} /\ again = FALSE
  /\ conn = [c \in Conns |-> 0] /\ over = {} /\ refused = {} /\ told = [c \in Conns |-> 0]
  /\ served = {}

-----------------------------------------------------------------------------
sg_httpsrv_new2 ==
  /\ srv = "none"
  /\ srv' = "live" /\ dir' = "set"
  /\ UNCHANGED <<cli, daemonVars, connVars>>

sg_httpsrv_set_cli_cb ==
  /\ srv = "live"
  /\ cli' = TRUE
  /\ UNCHANGED <<srv, dir, daemonVars, connVars>>

(* The old name is freed; strdup may fail, which is not reported.          *)
sg_httpsrv_set_upld_dir(copied) ==
  /\ srv = "live"
  /\ dir' = IF copied THEN "set" ELSE "null"
  /\ UNCHANGED <<srv, cli, daemonVars, connVars>>

Ready == srv = "live" /\ dir = "set"

(* sg__httpsrv_listen2: the handle of the daemon replaces the one that is  *)
(* there; it is NULL when the daemon does not start.                       *)
Listen(started) ==
  /\ Ready
  /\ IF started
     THEN \E d \in Daemons :
            /\ d \notin used /\ \A e \in Daemons \ used : d <= e
            /\ handle' = d /\ running' = running \cup {d} /\ used' = used \cup {d}
     ELSE handle' = 0 /\ UNCHANGED <<running, used>>
  /\ again' = (again \/ handle # 0)
  /\ UNCHANGED <<srv, dir, cli, connVars>>

(* Connections cs end; cli_cb is told of each.                             *)
Close(cs) ==
  /\ conn' = [c \in Conns |-> IF c \in cs THEN 0 ELSE conn[c]] /\ over' = over \cup cs
  /\ told' = [c \in Conns |-> IF c \in cs /\ cli THEN told[c] + 1 ELSE told[c]]

(* Fault: the handle stays.                                                *)
Stop_kept == handle
Stop == 0

(* MHD_stop_daemon closes the connections of the daemon.                   *)
Shutdown ==
  /\ handle # 0
  /\ running' = running \ {handle} /\ handle' = Stop
  /\ Close({c \in Conns : conn[c] = handle})
  /\ UNCHANGED <<used, again, refused, served>>
sg_httpsrv_shutdown == srv = "live" /\ Shutdown /\ UNCHANGED <<srv, dir, cli>>

FreeStops == IF handle = 0 THEN UNCHANGED <<daemonVars, connVars>> ELSE Shutdown
sg_httpsrv_free ==
  /\ srv = "live"
  /\ FreeStops
  /\ srv' = "freed" /\ dir' = "null"
  /\ UNCHANGED <<cli>>

-----------------------------------------------------------------------------
(* sg__httpsrv_ncc: cli_cb may refuse a connection that starts.            *)
Started(c, closed) ==
  /\ conn[c] = 0 /\ c \notin over
  /\ \E d \in running : conn' = [conn EXCEPT ![c] = d]
  /\ told' = IF cli THEN [told EXCEPT ![c] = 1] ELSE told
  /\ refused' = IF cli /\ closed THEN refused \cup {c} ELSE refused
  /\ UNCHANGED <<srv, dir, cli, daemonVars, over, served>>

Ended(c) ==
  /\ conn[c] # 0 /\ Close({c})
  /\ UNCHANGED <<srv, dir, cli, daemonVars, refused, served>>

(* sg__httpsrv_ahc of a request: MHD_NO closes a refused connection.       *)
(* Fault: the handler does not look at socket_context.                     *)
Admitted_all(c) == TRUE
Admitted(c) == c \notin refused
Request(c) ==
  /\ conn[c] # 0
  /\ IF Admitted(c) THEN served' = served \cup {c} /\ UNCHANGED <<conn, over, told>>
                    ELSE Close({c}) /\ UNCHANGED served
  /\ UNCHANGED <<srv, dir, cli, daemonVars, refused>>

(* sg_httpsrv_port asks the daemon; it must not have been stopped.         *)
Stopped == Cardinality(Daemons) + 1
MHD_get_daemon_info(d) == IF d \in running THEN d ELSE Stopped
sg_httpsrv_port == IF handle = 0 THEN 0 ELSE MHD_get_daemon_info(handle)

LifeNext ==
  \/ sg_httpsrv_new2 \/ sg_httpsrv_set_cli_cb \/ sg_httpsrv_shutdown \/ sg_httpsrv_free
  \/ \E b \in BOOLEAN : sg_httpsrv_set_upld_dir(b)
  \/ \E b \in BOOLEAN : Listen(b)
  \/ \E c \in Conns : Started(c, TRUE) \/ Started(c, FALSE) \/ Ended(c) \/ Request(c)

LifeSpec == LifeInit /\ [][LifeNext]_lifeVars

-----------------------------------------------------------------------------
LifeTypeOK ==
  /\ srv \in {"none", "live", "freed"} /\ dir \in {"null", "set"} /\ cli \in BOOLEAN
  /\ handle \in Daemons \cup {0} /\ running \subseteq used
  /\ used \subseteq Daemons /\ conn \in [Conns -> Daemons \cup {0}] /\ refused \subseteq Conns
  /\ over \subseteq Conns
  /\ told \in [Conns -> 0..2] /\ served \subseteq Conns

(* The handle is that of the daemon that runs, which is asked for its port *)
(* only while it does, and no daemon outlives its server, unless the       *)
(* application listened twice (sg_httpsrv.c:225, 412, 419).                *)
DaemonStopped ==
  /\ ~again => running = IF sg_httpsrv_port = 0 THEN {} ELSE {sg_httpsrv_port}
  /\ srv = "freed" /\ ~again => running = {}

(* A client that cli_cb refused is not served (sg_httpsrv.c:69, 122).      *)
RefusedNotServed == refused \cap served = {}
=============================================================================
