---------------------------- MODULE MCHttpIsolate ----------------------------
(* HttpIsolate on small instances: one event loop, a thread for each       *)
(* connection.                                                             *)
EXTENDS HttpIsolate

CONSTANTS r1, r2

MCOneLoop == [r \in Reqs |-> 1]
MCPerConnection == [r \in Reqs |-> IF r = r1 THEN 1 ELSE 2]
=============================================================================
