----------------------------- MODULE HttpExchange -----------------------------
(***************************************************************************)
(* What the server promises the application and the client for each        *)
(* request, however it is run: the application handles a request once, the *)
(* handling ends before the outcome is decided, and the outcome is an      *)
(* answer exactly when the handling left a response.  A client may leave   *)
(* between the steps, never under the hands of the application.            *)
(***************************************************************************)
CONSTANT Reqs

VARIABLES
  phase,  \* how far the exchange of each request is
  sent    \* the application has set the response

vars == <<phase, sent>>

Phase == {"none", "open", "handling", "handled", "answered", "dropped", "over"}

Init ==
  /\ phase = [r \in Reqs |-> "none"]
  /\ sent = [r \in Reqs |-> FALSE]

Move(r, from, to) ==
  /\ phase[r] \in from
  /\ phase' = [phase EXCEPT ![r] = to]

(* The server takes the request, or turns it down without handling it.     *)
Accept(r) == Move(r, {"none"}, "open") /\ UNCHANGED sent
Reject(r) == Move(r, {"none"}, "dropped") /\ UNCHANGED sent

(* The application handles it and may respond meanwhile.                   *)
Handle(r) == Move(r, {"open"}, "handling") /\ UNCHANGED sent
Respond(r) ==
  /\ phase[r] = "handling" /\ ~sent[r]
  /\ sent' = [sent EXCEPT ![r] = TRUE]
  /\ UNCHANGED phase
Finish(r) == Move(r, {"handling"}, "handled") /\ UNCHANGED sent

(* The outcome.                                                            *)
Answer(r) == sent[r] /\ Move(r, {"handled"}, "answered") /\ UNCHANGED sent
Drop(r) == ~sent[r] /\ Move(r, {"handled"}, "dropped") /\ UNCHANGED sent

Leave(r) ==
  Move(r, {"open", "handled", "answered", "dropped"}, "over") /\ UNCHANGED sent

Next ==
  \E r \in Reqs :
    \/ Accept(r) \/ Reject(r) \/ Handle(r) \/ Respond(r)
    \/ Finish(r) \/ Answer(r) \/ Drop(r) \/ Leave(r)

Spec == Init /\ [][Next]_vars
=============================================================================
