------------------------------ MODULE HttpAccess ------------------------------
(***************************************************************************)
(* One request from its headers to its end: sg__httpsrv_ahc as            *)
(* libmicrohttpd calls it (once for the headers, once for each piece of    *)
(* the body, once at the end), with authentication (sg_httpauth.c), the    *)
(* fields, uploads and payload of the body and their limits                *)
(* (sg_httpuplds.c), and sg__httpsrv_rcc.  Isolation is in HttpIsolate.    *)
(*                                                                         *)
(* A piece of the body is one call of the post-processor's iterator, or    *)
(* one run of raw bytes; contents are abstracted to their sizes.           *)
(***************************************************************************)
EXTENDS Naturals, SequencesExt

CONSTANTS
  PayldLimit,   \* srv->payld_limit, 0 for none
  UpldsLimit,   \* srv->uplds_limit, 0 for none
  MaxPiece,     \* bound on the bytes of one piece of the body
  MaxPieces     \* bound on the pieces of one body

ASSUME AccessAssumption ==
  /\ PayldLimit \in Nat /\ UpldsLimit \in Nat
  /\ MaxPiece \in Nat \ {0} /\ MaxPieces \in Nat

VARIABLES
  st,         \* where the request is between two calls of the handler
  env,        \* what the handler finds: auth_cb is set (auth), the body is a form
              \* (form), allocations may fail (noMem), write(2) may be short (short)
  ended,      \* the body has been read to its end
  pieces,     \* pieces of the body so far
  granted,    \* what auth_cb returned (TRUE without one)
  canceled,   \* req->auth->canceled
  handle,     \* req->res->handle # NULL
  pp,         \* req->pp # NULL
  item,       \* the part of the form being read: curr_field or curr_upld
  payload,    \* bytes in req->payload
  fields,     \* bytes in req->fields
  totalFields,\* req->total_fields_size
  uplds,      \* req->uplds, the last one is req->curr_upld
  totalUplds, \* req->total_uplds_size
  streams,    \* upload streams opened by upld_cb and not yet freed
  served,     \* calls of req_cb
  corrupted   \* an upload was used after it had been freed

authVars == <<granted, canceled>>
bodyVars == <<env, ended, pieces, pp, item, payload, fields, totalFields, uplds,
              totalUplds, streams>>
vars == <<st, env, ended, pieces, granted, canceled, handle, pp, item, payload, fields,
          totalFields, uplds, totalUplds, streams, served, corrupted>>

Environment == [auth : BOOLEAN, form : BOOLEAN, noMem : BOOLEAN, short : BOOLEAN]
Upload == [live : BOOLEAN, open : BOOLEAN, size : Nat, stored : Nat]

TypeOK ==
  /\ st \in {"idle", "open", "queued", "refused", "closed"}
  /\ item \in {"none", "field", "upload"}
  /\ env \in Environment /\ ended \in BOOLEAN /\ granted \in BOOLEAN /\ canceled \in BOOLEAN
  /\ handle \in BOOLEAN /\ pp \in BOOLEAN /\ corrupted \in BOOLEAN
  /\ pieces \in Nat /\ payload \in Nat /\ fields \in Nat /\ totalFields \in Nat
  /\ totalUplds \in Nat /\ streams \in Nat /\ served \in Nat
  /\ uplds \in Seq(Upload)

Init ==
  /\ st = "idle" /\ env \in Environment /\ ended = FALSE /\ pieces = 0
  /\ granted = ~env.auth /\ canceled = FALSE /\ handle = FALSE
  /\ pp = FALSE /\ item = "none"
  /\ payload = 0 /\ fields = 0 /\ totalFields = 0
  /\ uplds = << >> /\ totalUplds = 0 /\ streams = 0
  /\ served = 0 /\ corrupted = FALSE

Sizes == 1..MaxPiece

-----------------------------------------------------------------------------
(* The first call: the request is made, and authenticated.                 *)

(* sg__httpreq_new returned NULL.                                          *)
FirstNoMem ==
  /\ st = "idle"
  /\ st' = "refused"
  /\ UNCHANGED <<bodyVars, authVars, handle, served, corrupted>>

First ==
  /\ st = "idle" /\ ~env.auth
  /\ st' = "open"
  /\ UNCHANGED <<bodyVars, authVars, handle, served, corrupted>>

(* Fault: a denial is queued and the request goes on.                      *)
AuthDispatch_goesOn(ok, cancel, respond) ==
  IF ok THEN "open"
  ELSE IF cancel THEN (IF respond THEN "open" ELSE "refused")
  ELSE IF respond THEN "open" ELSE "refused"

(* sg__httpauth_dispatch: where the request goes when auth_cb returned ok  *)
(* after it canceled and set a response, or did not.                       *)
AuthDispatch(ok, cancel, respond) ==
  IF ok THEN "open"
  ELSE IF cancel THEN (IF respond THEN "open" ELSE "refused")
  ELSE IF respond THEN "queued" ELSE "refused"

(* auth_cb may call sg_httpauth_deny or send a response, sg_httpauth_cancel,*)
(* both or neither, and grants or denies.                                  *)
FirstAuth ==
  /\ st = "idle" /\ env.auth
  /\ \E ok, cancel, respond \in BOOLEAN :
       /\ granted' = ok /\ canceled' = cancel /\ handle' = respond
       /\ st' = AuthDispatch(ok, cancel, respond)
  /\ UNCHANGED <<bodyVars, served, corrupted>>

-----------------------------------------------------------------------------
(* A call with a piece of the body: sg__httpuplds_process.                 *)

(* The total of what was taken, this piece included, is over the limit.    *)
Exceeds(limit, total, n) == limit > 0 /\ total + n > limit

(* A piece arrives; MHD_NO from the handler closes the connection.         *)
Piece(ok) ==
  /\ st = "open" /\ ~canceled /\ ~ended /\ pieces < MaxPieces
  /\ pieces' = pieces + 1
  /\ st' = IF ok THEN "open" ELSE "refused"
  /\ UNCHANGED <<env, ended, authVars, handle, served>>

(* The post-processor is made once for a form; while it cannot be made the *)
(* body is taken for raw bytes.                                            *)
ParsedAs(parsed) ==
  /\ pp' = parsed
  /\ parsed => env.form
  /\ pp => parsed
  /\ env.form /\ ~parsed => env.noMem

(* The payload, emptied when it is over the limit.                         *)
Raw(n) ==
  LET tooLarge == Exceeds(PayldLimit, payload, n) IN
  /\ Piece(~tooLarge) /\ ParsedAs(FALSE)
  /\ payload' = IF tooLarge THEN 0 ELSE payload + n
  /\ UNCHANGED <<item, fields, totalFields, uplds, totalUplds, streams, corrupted>>

(* The iterator with a field, which it starts (off = 0) or continues.      *)
Field(n) ==
  /\ ParsedAs(TRUE)
  /\ Piece(~Exceeds(PayldLimit, totalFields, n))
  /\ item' = "field"
  /\ fields' = fields + n
  /\ totalFields' = IF PayldLimit > 0 THEN totalFields + n ELSE totalFields
  /\ UNCHANGED <<payload, uplds, totalUplds, streams, corrupted>>

(* sg__strmap_new or sg_realloc returned NULL.                             *)
FieldNoMem ==
  /\ env.noMem /\ ParsedAs(TRUE) /\ Piece(FALSE)
  /\ UNCHANGED <<item, payload, fields, totalFields, uplds, totalUplds, streams, corrupted>>

(* upld_write_cb stores the piece, or part of it; its size and the total   *)
(* count all of it.                                                        *)
Grown(u, n, k) ==
  [live |-> u.live, open |-> u.open, size |-> u.size + n, stored |-> u.stored + k]

Write(list, n) ==
  \E k \in IF env.short THEN 0..n ELSE {n} :
    uplds' = [list EXCEPT ![Len(list)] = Grown(@, n, k)]

Taken(n) == totalUplds' = IF UpldsLimit > 0 THEN totalUplds + n ELSE totalUplds

NewUpload == [live |-> TRUE, open |-> TRUE, size |-> 0, stored |-> 0]

(* The iterator with the start of an upload: sg__httpuplds_add and upld_cb. *)
UploadStart(n) ==
  /\ ParsedAs(TRUE)
  /\ Piece(~Exceeds(UpldsLimit, totalUplds, n))
  /\ item' = "upload"
  /\ streams' = streams + 1
  /\ Write(Append(uplds, NewUpload), n) /\ Taken(n)
  /\ UNCHANGED <<payload, fields, totalFields, corrupted>>

(* Fault: the piece is not added to the total.                             *)
UploadMore_uncounted(n) ==
  /\ ParsedAs(TRUE) /\ item = "upload"
  /\ Piece(~Exceeds(UpldsLimit, totalUplds, n))
  /\ Write(uplds, n)
  /\ UNCHANGED <<item, payload, fields, totalFields, totalUplds, streams, corrupted>>

UploadMore(n) ==
  /\ ParsedAs(TRUE) /\ item = "upload"
  /\ Piece(~Exceeds(UpldsLimit, totalUplds, n))
  /\ Write(uplds, n) /\ Taken(n)
  /\ UNCHANGED <<item, payload, fields, totalFields, streams, corrupted>>

(* Fault: the error of upld_write_cb is ignored.                           *)
UploadWriteError_ignored ==
  /\ ParsedAs(TRUE) /\ item = "upload" /\ Piece(TRUE)
  /\ uplds' = [uplds EXCEPT ![Len(uplds)].size = @ + 1] /\ Taken(1)
  /\ UNCHANGED <<item, payload, fields, totalFields, streams, corrupted>>

(* upld_write_cb returned -1, for the first piece of an upload             *)
UploadStartWriteError ==
  /\ ParsedAs(TRUE) /\ Piece(FALSE)
  /\ item' = "upload"
  /\ streams' = streams + 1
  /\ uplds' = Append(uplds, NewUpload)
  /\ UNCHANGED <<payload, fields, totalFields, totalUplds, corrupted>>

(* or for a later one.                                                     *)
UploadWriteError ==
  /\ ParsedAs(TRUE) /\ item = "upload" /\ Piece(FALSE)
  /\ UNCHANGED <<item, payload, fields, totalFields, uplds, totalUplds, streams, corrupted>>

(* Fault: a refused upload is freed at once but stays on the list.         *)
UploadRefused_freed ==
  /\ ParsedAs(TRUE) /\ Piece(FALSE)
  /\ item' = "upload"
  /\ uplds' = Append(uplds, [NewUpload EXCEPT !.open = FALSE, !.live = FALSE])
  /\ UNCHANGED <<payload, fields, totalFields, totalUplds, streams, corrupted>>

(* upld_cb returned an error: the upload is listed, without a stream.      *)
UploadRefused ==
  /\ ParsedAs(TRUE) /\ Piece(FALSE)
  /\ item' = "upload"
  /\ uplds' = Append(uplds, [NewUpload EXCEPT !.open = FALSE])
  /\ UNCHANGED <<payload, fields, totalFields, totalUplds, streams, corrupted>>

(* sg__httpuplds_add: the upload itself cannot be allocated; or a copy of  *)
(* a name cannot, and the upload is freed while it is on the list.         *)
UploadNoMem ==
  /\ env.noMem /\ ParsedAs(TRUE) /\ Piece(FALSE)
  /\ item' = "upload"
  /\ \/ UNCHANGED uplds
     \/ uplds' = Append(uplds, [NewUpload EXCEPT !.open = FALSE, !.live = FALSE])
  /\ UNCHANGED <<payload, fields, totalFields, totalUplds, streams, corrupted>>

BodyEnd ==
  /\ st = "open" /\ ~ended
  /\ ended' = TRUE
  /\ UNCHANGED <<st, env, pieces, pp, item, payload, fields, totalFields, uplds, totalUplds,
                 streams, authVars, handle, served, corrupted>>

-----------------------------------------------------------------------------
(* The last call: req_cb, which may send a response, and                   *)
(* sg__httpres_dispatch, which fails without one.                          *)
Serve ==
  /\ st = "open" /\ ended /\ ~canceled
  /\ served' = served + 1
  /\ \E respond \in BOOLEAN :
       /\ handle' = (handle \/ respond)
       /\ st' = IF handle' THEN "queued" ELSE "refused"
  /\ UNCHANGED <<bodyVars, authVars, corrupted>>

(* Any later call for a canceled request: the body is not processed, req_cb *)
(* is not called.  libmicrohttpd takes no response in the middle of a body. *)
Canceled ==
  /\ st = "open" /\ canceled
  /\ st' = IF handle /\ ended THEN "queued" ELSE "refused"
  /\ UNCHANGED <<bodyVars, authVars, handle, served, corrupted>>

-----------------------------------------------------------------------------
OpenUploads == {i \in 1..Len(uplds) : uplds[i].open}

(* Fault: the uploads are freed without upld_free_cb.                      *)
Cleanup_keepsStreams ==
  /\ uplds' = << >>
  /\ corrupted' = (corrupted \/ \E i \in 1..Len(uplds) : ~uplds[i].live)
  /\ UNCHANGED streams

(* sg__httpuplds_cleanup: every upload on the list is taken off, its       *)
(* stream is freed by upld_free_cb, then its names and itself.             *)
Cleanup ==
  /\ uplds' = << >>
  /\ streams' = streams - Cardinality(OpenUploads)
  /\ corrupted' = (corrupted \/ \E i \in 1..Len(uplds) : ~uplds[i].live)

(* sg__httpsrv_rcc: after the response, after MHD_NO, or when the client   *)
(* has gone.                                                               *)
Rcc ==
  /\ st \in {"open", "queued", "refused"}
  /\ st' = "closed"
  /\ Cleanup
  /\ UNCHANGED <<env, ended, pieces, authVars, handle, pp, item, payload, fields,
                 totalFields, totalUplds, served>>

-----------------------------------------------------------------------------
BodyPiece ==
  \/ \E n \in Sizes :
       Raw(n) \/ Field(n) \/ UploadStart(n) \/ UploadMore(n)
  \/ FieldNoMem \/ UploadStartWriteError \/ UploadWriteError \/ UploadRefused \/ UploadNoMem

Next ==
  \/ FirstNoMem \/ First \/ FirstAuth
  \/ BodyPiece \/ BodyEnd
  \/ Serve \/ Canceled \/ Rcc

Spec == Init /\ [][Next]_vars

-----------------------------------------------------------------------------
Total(s) ==
  LET sum[i \in 0..Len(s)] == IF i = 0 THEN 0 ELSE sum[i - 1] + s[i].size
  IN  sum[Len(s)]

(* Safety: a request that was denied or canceled is never served, and      *)
(* nothing of its body reaches the application or the disk                 *)
(* (sg__httpauth_dispatch and the canceled check of sg__httpsrv_ahc).      *)
OnlyGrantedIsServed ==
  ~granted \/ canceled =>
    served = 0 /\ payload + fields = 0 /\ uplds = << >> /\ streams = 0

(* Safety: what req_cb gets is within the limits, however the body was cut *)
(* into pieces and mixed from fields and uploads.                          *)
ServedWithinLimits ==
  served > 0 =>
    /\ PayldLimit > 0 => payload <= PayldLimit /\ fields <= PayldLimit
    /\ UpldsLimit > 0 => Total(uplds) <= UpldsLimit

(* Safety: before a body is refused it has used no more than one piece     *)
(* over the limit.                                                         *)
OverrunByOnePiece ==
  /\ PayldLimit > 0 => fields <= PayldLimit + MaxPiece
  /\ UpldsLimit > 0 => Total(uplds) <= UpldsLimit + MaxPiece

(* Safety: when a request is over every upload stream it opened has been   *)
(* freed, once, whichever step failed.                                     *)
StreamsFreed == st = "closed" => streams = 0 /\ uplds = << >>

(* Safety: while allocations succeed the list of uploads is freed without  *)
(* touching an upload that was freed before (sagui.h, sg_httpreq_uploads). *)
(* A failed copy of a name breaks this: see UploadNoMem.                   *)
UploadsFreedOnce == ~env.noMem => ~corrupted

(* What req_cb asks of the uploads of its request.                         *)
sg_httpreq_uploads == uplds
sg_httpuplds_count == Len(sg_httpreq_uploads)
sg_httpupld_size(i) == sg_httpreq_uploads[i].size

(* Safety: while write(2) stores what it is given, req_cb finds in each    *)
(* upload all that its size says (sagui.h, sg_httpupld_size).  A short     *)
(* write breaks this: see Write.                                           *)
UploadsComplete ==
  served > 0 /\ ~env.short =>
    \A i \in 1..sg_httpuplds_count : uplds[i].open /\ uplds[i].stored = sg_httpupld_size(i)
=============================================================================
