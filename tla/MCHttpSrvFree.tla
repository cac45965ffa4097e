---------------------------- MODULE MCHttpSrvFree ----------------------------
(* HttpSrvFree with two requests on one event loop.                        *)
EXTENDS HttpSrvFree

MCOneLoop == [r \in Reqs |-> 1]
=============================================================================
