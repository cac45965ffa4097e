------------------------------ MODULE HttpMsg ------------------------------
(* What one request owns, from sg__httpreq_new to sg__httpreq_free: its    *)
(* parts (sg_httpreq.c, sg_httpauth.c) and its response (sg_httpres.c).    *)
(* A response is a handle of libmicrohttpd, which counts its references    *)
(* and releases what a send call gave to it: a file, a buffer, the         *)
(* program's stream, a holder with its zlib state.                         *)
EXTENDS Naturals, FiniteSets

CONSTANT MaxSends   \* bound: send calls of one request

ASSUME MsgAssumption == MaxSends \in Nat

VARIABLES
  phase,  \* "new", "auth" and "req" while handlers run, how it was answered, "over"
  parts,  \* the parts of the request that are allocated
  values, \* how often each map holds the values of the connection
  res,    \* res: the response in res->handle, its Content-Encoding header, canceled
  mhd,    \* responses libmicrohttpd holds, with the header they were queued with
  open,   \* resources taken by send calls and not released
  lost,   \* those a send call dropped when no response could be made
  twice,  \* resources released when they were not open
  sends,  \* send calls so far
  queued  \* responses queued so far

msgVars == <<phase, parts, values, res, mhd, open, lost, twice, sends, queued>>
ownVars == <<open, lost, twice, sends>>

Maps == {"headers", "cookies", "params"}
Credentials == {"usr", "pwd"}
Parts == {"req", "res", "auth", "payload", "realm", "fields"} \cup Credentials
Encodings == {"none", "deflate", "gzip"}
Kinds == {"fd", "buffer", "user", "holder"}
Resources == Kinds \X (1..MaxSends)

NoResponse == [id |-> 0, enc |-> "none", own |-> {}]
Response == [id : 0..MaxSends, enc : Encodings, own : SUBSET Resources]
NewRes == [handle |-> NoResponse, enc |-> "none", canceled |-> FALSE]

Has == res.handle # NoResponse
Handlers == phase = "auth" \/ (phase = "req" /\ ~res.canceled)
Own(kinds) == {<<k, sends + 1>> : k \in kinds}

(* What libmicrohttpd has a response release: the descriptor of a file,    *)
(* the stream of a program, or by a callback the state of zlib with what   *)
(* it reads from.                                                          *)
ZHolder == {"holder", "user"}
GzHolder == {"holder", "fd"}

-----------------------------------------------------------------------------
MsgInit ==
  /\ phase = "new" /\ parts = {} /\ values = [m \in Maps |-> 0] /\ res = NewRes
  /\ mhd = {} /\ open = {} /\ lost = {} /\ twice = {} /\ sends = 0 /\ queued = 0

(* sg__httpauth_new takes the name and the password the client gave.       *)
AuthNew(given) == {"auth"} \cup IF given THEN Credentials ELSE {}
AuthFree(ps) == ps \ ({"auth", "realm"} \cup Credentials)
ResFree(ps) == ps \ {"res"}

(* The parts in the order they are made; when one cannot be made, those    *)
(* before it are freed.                                                    *)
NewParts(failed, given) ==
  CASE failed = "none" -> {"req", "res", "payload"} \cup AuthNew(given)
    [] failed = "payload" -> AuthFree(ResFree({"req", "res"} \cup AuthNew(given)))
    [] failed = "auth" -> ResFree({"req", "res"})
    [] failed = "res" -> {"req"}
    [] failed = "req" -> {}

(* sg__httpreq_new, where an allocation may fail; req itself is kept then. *)
New(failed) ==
  /\ phase = "new"
  /\ \E given \in BOOLEAN : parts' = NewParts(failed, given)
  /\ phase' = IF failed = "none" THEN "auth" ELSE "failed"
  /\ UNCHANGED <<values, res, mhd, ownVars, queued>>

(* The values of the connection are added to map m.                        *)
sg__convals_iter(m) == values[m] + 1

(* sg_httpreq_headers, _cookies and _params fill an empty map.             *)
Fill(m) == IF values[m] = 0 THEN sg__convals_iter(m) ELSE values[m]
GetMap(m) ==
  /\ Handlers
  /\ values' = [values EXCEPT ![m] = Fill(m)]
  /\ UNCHANGED <<phase, parts, res, mhd, ownVars, queued>>

AddPart(p) ==
  /\ Handlers
  /\ parts' = parts \cup {p}
  /\ UNCHANGED <<phase, values, res, mhd, ownVars, queued>>
sg_httpauth_set_realm == phase = "auth" /\ "realm" \notin parts /\ AddPart("realm")
sg_httpreq_fields == "fields" \notin parts /\ AddPart("fields")

-----------------------------------------------------------------------------
(* One reference to response r is dropped; the last releases its own.      *)
Releases(r, left) == IF r = NoResponse \/ left THEN {} ELSE r.own
Release(rs) == open' = open \ rs /\ twice' = twice \cup (rs \ open)

(* Fault: a header that is there is kept.                                  *)
SetEncoding_kept(old, enc) == IF old = "none" THEN enc ELSE old
SetEncoding(old, enc) == IF enc = "none" THEN old ELSE enc

(* A send call that was given what it owns made a response, or failed and  *)
(* released it; enc is the header it had set by then.                      *)
Made(enc, kinds) ==
  /\ res' = [res EXCEPT !.handle = [id |-> sends + 1, enc |-> enc, own |-> Own(kinds)],
                        !.enc = SetEncoding(@, enc)]
  /\ open' = open \cup Own(kinds)
  /\ UNCHANGED <<lost, twice>>

Failed(enc, kinds) ==
  /\ res' = [res EXCEPT !.enc = SetEncoding(@, enc)]
  /\ UNCHANGED <<open, lost, twice>>

(* No response could be made, and what the call was given is forgotten.    *)
Dropped(enc, kinds) ==
  /\ res' = [res EXCEPT !.enc = SetEncoding(@, enc)]
  /\ open' = open \cup Own(kinds) /\ lost' = lost \cup Own(kinds)
  /\ UNCHANGED twice

(* Fault: a send call does not look whether there is a response.           *)
Free4Send_unchecked == TRUE
Free4Send == ~Has

SendCall == /\ Handlers /\ sends < MaxSends /\ sends' = sends + 1
            /\ UNCHANGED <<phase, parts, values, mhd, queued>>

(* sg_httpauth_deny2 and sg_httpres_sendbinary copy the bytes.             *)
Deny == phase = "auth" /\ SendCall /\ Free4Send /\ Made("none", {})
SendBinary == SendCall /\ Free4Send /\ Made("none", {})

(* sg_httpres_sendfile2: what sg__httpres_openfile opened is closed when   *)
(* it refuses the file or no response can be made.                         *)
SendFile == SendCall /\ Free4Send /\ (Made("none", {"fd"}) \/ Failed("none", {"fd"}))

(* sg_httpres_sendstream frees the stream of the program when it is        *)
(* refused; not so when no response can be made.                           *)
SendStream ==
  /\ SendCall
  /\ \/ Free4Send /\ (Made("none", {"user"}) \/ Dropped("none", {"user"}))
     \/ ~Free4Send /\ Failed("none", {"user"})

(* sg_httpres_zsendbinary2: deflate if that makes it smaller.              *)
ZSendBinary ==
  /\ SendCall /\ Free4Send
  /\ \E enc \in {"none", "deflate"} :
       Made(enc, {"buffer"}) \/ Failed(enc, {"buffer"}) \/ Dropped(enc, {"buffer"})

(* sg_httpres_zsendstream2 and sg_httpres_zsendfile2, which may fail       *)
(* before or after the header is set.                                      *)
ZSendStream ==
  /\ SendCall
  /\ \/ Free4Send /\ Made("deflate", ZHolder)
     \/ Free4Send /\ \E enc \in {"none", "deflate"} : Failed(enc, ZHolder)
     \/ ~Free4Send /\ Failed("none", {"user"})

ZSendFile ==
  /\ SendCall /\ Free4Send
  /\ \/ Made("gzip", GzHolder)
     \/ \E enc \in {"none", "gzip"} : Failed(enc, GzHolder)

Send == \/ Deny \/ SendBinary \/ SendFile \/ SendStream \/ ZSendBinary \/ ZSendStream \/ ZSendFile

(* sg_httpres_reset, and sg_httpres_clear, which clears the headers too.   *)
Reset(clear) ==
  /\ Handlers
  /\ Release(Releases(res.handle, FALSE))
  /\ res' = [res EXCEPT !.handle = NoResponse, !.enc = IF clear THEN "none" ELSE @]
  /\ UNCHANGED <<phase, parts, values, mhd, lost, sends, queued>>

sg_httpauth_cancel ==
  /\ phase = "auth"
  /\ res' = [res EXCEPT !.canceled = TRUE]
  /\ UNCHANGED <<phase, parts, values, mhd, ownVars, queued>>

-----------------------------------------------------------------------------
(* The headers of the response are added to its handle.                    *)
sg__strmap_iter(r) == [handle |-> r.handle, header |-> r.enc]

(* MHD_queue_response, which takes no NULL and may fail.                   *)
Queue(next) ==
  IF Has
  THEN \/ /\ mhd' = {sg__strmap_iter(res)} /\ queued' = queued + 1
          /\ phase' = next
       \/ phase' = "refused" /\ UNCHANGED <<mhd, queued>>
  ELSE phase' = "refused" /\ UNCHANGED <<mhd, queued>>

(* auth_cb returns and sg__httpauth_dispatch looks at what it left.        *)
AuthDispatch(granted) ==
  /\ phase = "auth"
  /\ IF granted \/ (res.canceled /\ Has) THEN phase' = "req" /\ UNCHANGED <<mhd, queued>>
     ELSE IF res.canceled THEN phase' = "refused" /\ UNCHANGED <<mhd, queued>>
     ELSE Queue("queued")
  /\ UNCHANGED <<parts, values, res, ownVars>>

(* The handler returns: sg__httpres_dispatch.                              *)
ResDispatch ==
  /\ phase = "req" /\ Queue("queued")
  /\ UNCHANGED <<parts, values, res, ownVars>>

(* libmicrohttpd has sent the response, or given it up, and drops it.      *)
MhdDrop ==
  /\ mhd # {}
  /\ \E q \in mhd : Release(Releases(q.handle, res.handle = q.handle))
  /\ mhd' = {}
  /\ UNCHANGED <<phase, parts, values, res, lost, sends, queued>>

FreeParts == AuthFree(ResFree(parts)) \ {"req", "payload", "fields"}

(* sg__httpreq_free when the connection has ended (sg__httpsrv_rcc).       *)
Free ==
  /\ phase \in {"auth", "req", "queued", "refused"}
  /\ phase' = "over" /\ parts' = FreeParts /\ values' = [m \in Maps |-> 0]
  /\ Release(Releases(res.handle, \E q \in mhd : q.handle = res.handle))
  /\ res' = [res EXCEPT !.handle = NoResponse]
  /\ UNCHANGED <<mhd, lost, sends, queued>>

MsgNext ==
  \/ \E f \in {"none", "req", "res", "auth", "payload"} : New(f)
  \/ \E m \in Maps : GetMap(m)
  \/ sg_httpauth_set_realm \/ sg_httpreq_fields \/ sg_httpauth_cancel
  \/ Send
  \/ \E b \in BOOLEAN : Reset(b) \/ AuthDispatch(b)
  \/ ResDispatch \/ MhdDrop \/ Free

MsgSpec == MsgInit /\ [][MsgNext]_msgVars

-----------------------------------------------------------------------------
MsgTypeOK ==
  /\ phase \in {"new", "auth", "req", "queued", "refused", "failed", "over"}
  /\ parts \subseteq Parts /\ values \in [Maps -> 0..1]
  /\ res.handle \in Response /\ res.enc \in Encodings
  /\ open \subseteq Resources /\ lost \subseteq Resources

(* What a request took is held by its response, in the request or in       *)
(* libmicrohttpd, and nothing is open when both are done with it; only a   *)
(* stream or a buffer that no response could be made for stays             *)
(* (sg_httpres.c:370, 400, 405, 451, 516, 596).                            *)
ResourcesOwned ==
  open = lost \cup res.handle.own \cup UNION {q.handle.own : q \in mhd}

(* No file, buffer or stream is released twice: not by the end of the      *)
(* request and the end of the transfer in either order, nor by a reset     *)
(* (sg_httpres.c:290, 624).                                                *)
ReleasedOnce == twice = {}

(* A request that is over leaves nothing of itself, and one that could not *)
(* be made only the struct it was to be in (sg_httpreq.c:72).              *)
PartsFreed ==
  /\ phase = "over" => parts = {}
  /\ phase = "failed" => parts \subseteq {"req"}

(* A client is told how the body it gets is encoded, whatever was sent and *)
(* reset before (sg_httpres.c:433, 496, 578).                              *)
EncodingNamed == \A q \in mhd : q.handle.enc # "none" => q.header = q.handle.enc

(* No request gets two responses: the one auth_cb denied it with ends it   *)
(* (sg_httpauth.c:75).                                                     *)
AnsweredOnce == queued <= 1
=============================================================================
