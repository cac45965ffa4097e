--------------------------- MODULE Objects_proofs ---------------------------
(* Proofs about the parts that Objects puts side by side, each from its    *)
(* own specification, and about Objects itself at the end.  Entry-points   *)
(* and the router have modules of their own.                               *)
EXTENDS Objects, Router_proofs, FiniteSetTheorems, WellFoundedInduction, TLAPS

-----------------------------------------------------------------------------
(* HttpMsg, for any number of send calls: the inductive invariant.         *)

Phases == {"new", "auth", "req", "queued", "refused", "failed", "over"}

MsgTypes ==
  /\ phase \in Phases /\ parts \subseteq Parts /\ values \in [Maps -> 0..1]
  /\ res \in [handle : Response, enc : Encodings, canceled : BOOLEAN]
  /\ mhd \subseteq [handle : Response, header : Encodings]
  /\ open \subseteq Resources /\ lost \subseteq Resources
  /\ sends \in 0..MaxSends /\ queued \in Nat

(* Before its answer a request has queued nothing; after it there is one   *)
(* response in libmicrohttpd at most, that of the request, which drops its *)
(* own reference at its end.                                               *)
QueueInv ==
  /\ queued <= 1
  /\ phase \in {"new", "auth", "req"} => queued = 0 /\ mhd = {}
  /\ phase \in {"new", "failed", "over"} => res.handle = NoResponse
  /\ \A q \in mhd : phase # "over" => q.handle = res.handle
  /\ \A q, r \in mhd : q = r

(* The resources of a send call are numbered by it, so that those a        *)
(* response owns are not those another call forgot.                        *)
Numbered ==
  /\ \A x \in open \cup res.handle.own : x[2] <= sends
  /\ lost \cap res.handle.own = {}
  /\ \A q \in mhd : lost \cap q.handle.own = {}

HeaderSet ==
  /\ res.handle.enc # "none" => res.enc = res.handle.enc
  /\ EncodingNamed

MsgInv == MsgTypes /\ QueueInv /\ Numbered /\ HeaderSet /\ ResourcesOwned /\ ReleasedOnce /\ PartsFreed

-----------------------------------------------------------------------------
(* What a send call does.                                                  *)
SendEffect ==
  \E kinds \in SUBSET Kinds, enc \in Encodings :
    \/ Free4Send /\ (Made(enc, kinds) \/ Failed(enc, kinds) \/ Dropped(enc, kinds))
    \/ ~Free4Send /\ Failed("none", kinds)

LEMMA SendCases == Send => SendCall /\ SendEffect
<1> USE DEF SendEffect, Kinds, Encodings, ZHolder, GzHolder
<1>1. Deny \/ SendBinary => SendCall /\ SendEffect
  BY DEF Deny, SendBinary
<1>2. SendFile => SendCall /\ SendEffect
  BY DEF SendFile
<1>3. SendStream => SendCall /\ SendEffect
  BY DEF SendStream
<1>4. ZSendBinary => SendCall /\ SendEffect
  BY DEF ZSendBinary
<1>5. ZSendStream => SendCall /\ SendEffect
  BY DEF ZSendStream
<1>6. ZSendFile => SendCall /\ SendEffect
  BY DEF ZSendFile
<1> QED
  BY <1>1, <1>2, <1>3, <1>4, <1>5, <1>6 DEF Send

LEMMA OwnFacts ==
  ASSUME MsgTypes, sends < MaxSends, NEW kinds \in SUBSET Kinds
  PROVE  /\ Own(kinds) \subseteq Resources
         /\ \A x \in Own(kinds) : x[2] = sends + 1
BY MsgAssumption DEF MsgTypes, Own, Resources, Kinds

(* What a response owns is released when its last reference is dropped.    *)
LEMMA ReleaseFacts ==
  ASSUME NEW r \in Response, NEW left \in BOOLEAN
  PROVE  /\ Releases(r, left) = IF left THEN {} ELSE r.own
         /\ NoResponse.own = {} /\ NoResponse.enc = "none"
BY DEF Releases, NoResponse

LEMMA NoResponseType == NoResponse \in Response
BY MsgAssumption DEF NoResponse, Response, Encodings

-----------------------------------------------------------------------------
LEMMA MsgInitInv == MsgInit => MsgInv
<1> SUFFICES ASSUME MsgInit PROVE MsgInv
  OBVIOUS
<1>1. MsgTypes
  BY NoResponseType, MsgAssumption DEF MsgInit, MsgTypes, Phases, NewRes, Encodings
<1>2. res.handle = NoResponse /\ NoResponse.own = {} /\ NoResponse.enc = "none"
  BY DEF MsgInit, NewRes, NoResponse
<1>3. QueueInv /\ Numbered /\ HeaderSet /\ ResourcesOwned /\ ReleasedOnce /\ PartsFreed
  BY <1>2 DEF MsgInit, QueueInv, Numbered, HeaderSet, EncodingNamed, ResourcesOwned, ReleasedOnce,
     PartsFreed
<1> QED
  BY <1>1, <1>3 DEF MsgInv

(* A step of the request that touches no resource.                         *)
LEMMA QuietInv ==
  ASSUME MsgInv, MsgTypes', phase' = phase,
         UNCHANGED <<mhd, open, lost, twice, sends, queued>>,
         res'.handle = res.handle, res'.enc = res.enc, PartsFreed'
  PROVE  MsgInv'
BY DEF MsgInv, QueueInv, Numbered, HeaderSet, EncodingNamed, ResourcesOwned, ReleasedOnce

LEMMA NewPartsFacts ==
  ASSUME NEW have \in BOOLEAN, NEW f \in {"none", "req", "res", "auth", "payload"}
  PROVE  NewParts(f, have) \subseteq Parts /\ (f # "none" => NewParts(f, have) \subseteq {"req"})
BY DEF NewParts, AuthNew, AuthFree, ResFree, Parts, Credentials

LEMMA NewInv ==
  ASSUME MsgInv, NEW f \in {"none", "req", "res", "auth", "payload"}, New(f)
  PROVE  MsgInv'
<1>1. PICK have \in BOOLEAN : parts' = NewParts(f, have)
  BY DEF New
<1>2. /\ phase = "new" /\ phase' = IF f = "none" THEN "auth" ELSE "failed"
      /\ UNCHANGED <<values, res, mhd, open, lost, twice, sends, queued>>
  BY DEF New, ownVars
<1>3. MsgTypes' /\ PartsFreed'
  BY <1>1, <1>2, NewPartsFacts DEF MsgInv, MsgTypes, Phases, PartsFreed
<1>4. QueueInv'
  BY <1>2 DEF MsgInv, QueueInv
<1> QED
  BY <1>2, <1>3, <1>4 DEF MsgInv, Numbered, HeaderSet, EncodingNamed, ResourcesOwned, ReleasedOnce

LEMMA GetMapInv ==
  ASSUME MsgInv, NEW m \in Maps, GetMap(m)
  PROVE  MsgInv'
<1>1. MsgTypes' /\ PartsFreed'
  BY DEF GetMap, Fill, sg__convals_iter, ownVars, MsgInv, MsgTypes, PartsFreed
<1> QED
  BY <1>1, QuietInv DEF GetMap, ownVars

LEMMA AddPartInv ==
  ASSUME MsgInv, NEW p \in Parts, AddPart(p)
  PROVE  MsgInv'
<1>1. MsgTypes' /\ PartsFreed'
  BY DEF AddPart, Handlers, ownVars, MsgInv, MsgTypes, PartsFreed
<1> QED
  BY <1>1, QuietInv DEF AddPart, ownVars

LEMMA CancelInv ==
  ASSUME MsgInv, sg_httpauth_cancel
  PROVE  MsgInv'
<1>1. /\ res' = [res EXCEPT !.canceled = TRUE]
      /\ UNCHANGED <<phase, parts, values, mhd, open, lost, twice, sends, queued>>
  BY DEF sg_httpauth_cancel, ownVars
<1>2. MsgTypes' /\ res'.handle = res.handle /\ res'.enc = res.enc /\ PartsFreed'
  BY <1>1 DEF MsgInv, MsgTypes, PartsFreed
<1> QED
  BY <1>1, <1>2, QuietInv

-----------------------------------------------------------------------------
LEMMA SendInv ==
  ASSUME MsgInv, SendCall, SendEffect
  PROVE  MsgInv'
<1>1. /\ sends' = sends + 1 /\ sends < MaxSends /\ sends' \in 0..MaxSends
      /\ phase \in {"auth", "req"}
      /\ UNCHANGED <<phase, parts, values, mhd, queued>>
  BY MsgAssumption DEF SendCall, Handlers, MsgInv, MsgTypes
<1>2. mhd = {}
  BY <1>1 DEF MsgInv, QueueInv
<1>p. PartsFreed'
  BY <1>1 DEF MsgInv, PartsFreed
<1>t. res \in [handle : Response, enc : Encodings, canceled : BOOLEAN]
  BY DEF MsgInv, MsgTypes
<1>h. HeaderSet => (res.handle.enc # "none" => res.enc = res.handle.enc)
  BY DEF HeaderSet
<1>3. ASSUME NEW kinds \in SUBSET Kinds, NEW enc \in Encodings, Free4Send, Made(enc, kinds)
      PROVE  MsgInv'
  <2> DEFINE h == [id |-> sends + 1, enc |-> enc, own |-> Own(kinds)]
  <2>1. h \in Response
    BY <1>1, OwnFacts DEF Response, MsgInv, MsgTypes
  <2>2. /\ res' = [res EXCEPT !.handle = h, !.enc = SetEncoding(@, enc)]
        /\ open' = open \cup Own(kinds) /\ lost' = lost /\ twice' = twice
    BY <1>3 DEF Made
  <2>3. res.handle.own = {}
    BY <1>3 DEF Free4Send, Has, NoResponse
  <2>4. /\ res'.handle = h /\ res'.enc = SetEncoding(res.enc, enc) /\ res'.canceled = res.canceled
        /\ res' \in [handle : Response, enc : Encodings, canceled : BOOLEAN]
    BY <1>t, <2>1, <2>2 DEF SetEncoding
  <2>5. MsgTypes'
    BY <1>1, <2>2, <2>4, OwnFacts DEF MsgInv, MsgTypes
  <2>6. h.own = Own(kinds) /\ h.enc = enc
    OBVIOUS
  <2>7. QueueInv'
    BY <1>1, <1>2 DEF MsgInv, QueueInv
  <2>8. \A x \in lost : x[2] <= sends
    BY DEF MsgInv, Numbered, ResourcesOwned
  <2>9. Numbered'
    <3>1. \A x \in open : x[2] <= sends /\ x[2] \in Nat
      BY DEF MsgInv, Numbered, MsgTypes, Resources
    <3>2. sends \in Nat
      BY DEF MsgInv, MsgTypes
    <3>3. \A x \in Own(kinds) : x[2] = sends + 1
      BY <1>1, OwnFacts DEF MsgInv
    <3>4. lost \cap Own(kinds) = {}
      BY <2>8, <3>2, <3>3
    <3> QED
      BY <1>1, <1>2, <2>2, <2>4, <2>6, <3>1, <3>2, <3>3, <3>4 DEF Numbered
  <2>10. HeaderSet'
    BY <1>1, <1>2, <2>4, <2>6 DEF HeaderSet, EncodingNamed, SetEncoding
  <2>11. ResourcesOwned'
    BY <1>1, <1>2, <2>2, <2>3, <2>4, <2>6 DEF MsgInv, ResourcesOwned
  <2> QED
    BY <1>p, <2>2, <2>5, <2>7, <2>9, <2>10, <2>11 DEF MsgInv, ReleasedOnce
<1>4. ASSUME NEW kinds \in SUBSET Kinds, NEW enc \in Encodings,
             Free4Send \/ enc = "none", Failed(enc, kinds)
      PROVE  MsgInv'
  <2>1. /\ res' = [res EXCEPT !.enc = SetEncoding(@, enc)]
        /\ open' = open /\ lost' = lost /\ twice' = twice
    BY <1>4 DEF Failed
  <2>2. /\ res'.handle = res.handle /\ res'.enc = SetEncoding(res.enc, enc)
        /\ res' \in [handle : Response, enc : Encodings, canceled : BOOLEAN]
    BY <1>t, <2>1 DEF SetEncoding
  <2>3. MsgTypes'
    BY <1>1, <2>1, <2>2 DEF MsgInv, MsgTypes
  <2>4. QueueInv'
    BY <1>1, <1>2, <2>2 DEF MsgInv, QueueInv
  <2>5. Numbered'
    <3>1. \A x \in open \cup res.handle.own : x[2] <= sends /\ x[2] \in Nat
      BY DEF MsgInv, Numbered, MsgTypes, Resources, ResourcesOwned
    <3>2. sends \in Nat
      BY DEF MsgInv, MsgTypes
    <3> QED
      BY <1>1, <2>1, <2>2, <3>1, <3>2 DEF MsgInv, Numbered
  <2>6. HeaderSet'
    <3>1. enc # "none" => res.handle.enc = "none"
      BY <1>4 DEF Free4Send, Has, NoResponse
    <3> QED
      BY <1>1, <1>2, <2>2, <3>1 DEF MsgInv, HeaderSet, EncodingNamed, SetEncoding
  <2>7. ResourcesOwned'
    BY <1>1, <2>1, <2>2 DEF MsgInv, ResourcesOwned
  <2> QED
    BY <1>p, <2>1, <2>3, <2>4, <2>5, <2>6, <2>7 DEF MsgInv, ReleasedOnce
<1>5. ASSUME NEW kinds \in SUBSET Kinds, NEW enc \in Encodings, Free4Send, Dropped(enc, kinds)
      PROVE  MsgInv'
  <2>1. /\ res' = [res EXCEPT !.enc = SetEncoding(@, enc)]
        /\ open' = open \cup Own(kinds) /\ lost' = lost \cup Own(kinds) /\ twice' = twice
    BY <1>5 DEF Dropped
  <2>2. /\ res'.handle = res.handle /\ res'.enc = SetEncoding(res.enc, enc)
        /\ res' \in [handle : Response, enc : Encodings, canceled : BOOLEAN]
    BY <1>t, <2>1 DEF SetEncoding
  <2>3. res.handle.own = {} /\ res.handle.enc = "none"
    BY <1>5 DEF Free4Send, Has, NoResponse
  <2>4. MsgTypes'
    BY <1>1, <2>1, <2>2, OwnFacts DEF MsgInv, MsgTypes
  <2>5. QueueInv'
    BY <1>1, <1>2, <2>2 DEF MsgInv, QueueInv
  <2>6. Numbered'
    <3>1. \A x \in open : x[2] <= sends /\ x[2] \in Nat
      BY DEF MsgInv, Numbered, MsgTypes, Resources
    <3>2. sends \in Nat
      BY DEF MsgInv, MsgTypes
    <3>3. \A x \in Own(kinds) : x[2] = sends + 1
      BY <1>1, OwnFacts DEF MsgInv
    <3> QED
      BY <1>1, <1>2, <2>1, <2>2, <2>3, <3>1, <3>2, <3>3 DEF Numbered
  <2>7. HeaderSet'
    BY <1>1, <1>2, <2>2, <2>3 DEF HeaderSet, EncodingNamed
  <2>8. ResourcesOwned'
    BY <1>1, <1>2, <2>1, <2>2, <2>3 DEF MsgInv, ResourcesOwned
  <2> QED
    BY <1>p, <2>1, <2>4, <2>5, <2>6, <2>7, <2>8 DEF MsgInv, ReleasedOnce
<1> QED
  BY <1>3, <1>4, <1>5 DEF SendEffect, Encodings

-----------------------------------------------------------------------------
LEMMA ResetInv ==
  ASSUME MsgInv, NEW clear \in BOOLEAN, Reset(clear)
  PROVE  MsgInv'
<1>1. /\ phase \in {"auth", "req"} /\ Release(Releases(res.handle, FALSE))
      /\ res' = [res EXCEPT !.handle = NoResponse, !.enc = IF clear THEN "none" ELSE @]
      /\ UNCHANGED <<phase, parts, values, mhd, lost, sends, queued>>
  BY DEF Reset, Handlers
<1>2. mhd = {}
  BY <1>1 DEF MsgInv, QueueInv
<1>3. res \in [handle : Response, enc : Encodings, canceled : BOOLEAN]
  BY DEF MsgInv, MsgTypes
<1>4. Releases(res.handle, FALSE) = res.handle.own /\ NoResponse.own = {} /\ NoResponse.enc = "none"
  BY <1>3, ReleaseFacts
<1>5. open' = open \ res.handle.own /\ twice' = twice \cup (res.handle.own \ open)
  BY <1>1, <1>4 DEF Release
<1>6. /\ res'.handle = NoResponse
      /\ res' \in [handle : Response, enc : Encodings, canceled : BOOLEAN]
  BY <1>1, <1>3, NoResponseType DEF Encodings
<1>7. open = lost \cup res.handle.own /\ lost \cap res.handle.own = {}
  BY <1>2 DEF MsgInv, ResourcesOwned, Numbered
<1>8. MsgTypes'
  BY <1>1, <1>5, <1>6 DEF MsgInv, MsgTypes
<1>9. ReleasedOnce' /\ ResourcesOwned'
  BY <1>1, <1>2, <1>4, <1>5, <1>6, <1>7 DEF MsgInv, ReleasedOnce, ResourcesOwned
<1>10. QueueInv'
  BY <1>1, <1>2, <1>6 DEF MsgInv, QueueInv
<1>11. Numbered'
  BY <1>1, <1>2, <1>4, <1>5, <1>6 DEF MsgInv, Numbered
<1>12. HeaderSet' /\ PartsFreed'
  BY <1>1, <1>2, <1>4, <1>6 DEF MsgInv, HeaderSet, EncodingNamed, PartsFreed
<1> QED
  BY <1>8, <1>9, <1>10, <1>11, <1>12 DEF MsgInv

(* A request is answered: by its dispatch or by that of the authentication. *)
LEMMA QueueStep ==
  ASSUME MsgInv, phase \in {"auth", "req"}, Queue("queued"),
         UNCHANGED <<parts, values, res, open, lost, twice, sends>>
  PROVE  MsgInv'
<1>0. mhd = {} /\ queued = 0
  BY DEF MsgInv, QueueInv
<1>1. \/ /\ Has /\ mhd' = {[handle |-> res.handle, header |-> res.enc]} /\ queued' = 1
         /\ phase' = "queued"
      \/ phase' = "refused" /\ mhd' = {} /\ queued' = 0
  BY <1>0 DEF Queue, sg__strmap_iter
<1> DEFINE q == [handle |-> res.handle, header |-> res.enc]
<1>2. q \in [handle : Response, header : Encodings] /\ q.handle = res.handle /\ q.header = res.enc
  BY DEF MsgInv, MsgTypes
<1>3. MsgTypes' /\ PartsFreed'
  BY <1>1, <1>2 DEF MsgInv, MsgTypes, Phases, PartsFreed
<1>4. QueueInv'
  BY <1>1, <1>2 DEF QueueInv
<1>5. Numbered'
  BY <1>1, <1>2 DEF MsgInv, Numbered
<1>6. HeaderSet'
  BY <1>1, <1>2 DEF MsgInv, HeaderSet, EncodingNamed
<1>7. ResourcesOwned'
  BY <1>0, <1>1, <1>2 DEF MsgInv, ResourcesOwned
<1> QED
  BY <1>3, <1>4, <1>5, <1>6, <1>7 DEF MsgInv, ReleasedOnce

LEMMA AuthDispatchInv ==
  ASSUME MsgInv, NEW granted \in BOOLEAN, AuthDispatch(granted)
  PROVE  MsgInv'
<1>1. phase = "auth" /\ UNCHANGED <<parts, values, res, open, lost, twice, sends>>
  BY DEF AuthDispatch, ownVars
<1>2. CASE phase' \in {"req", "refused"} /\ UNCHANGED <<mhd, queued>>
  <2>1. MsgTypes' /\ PartsFreed'
    BY <1>1, <1>2 DEF MsgInv, MsgTypes, Phases, PartsFreed
  <2>2. QueueInv'
    BY <1>1, <1>2 DEF MsgInv, QueueInv
  <2> QED
    BY <1>1, <1>2, <2>1, <2>2 DEF MsgInv, Numbered, HeaderSet, EncodingNamed, ResourcesOwned, ReleasedOnce
<1>3. CASE Queue("queued")
  BY <1>1, <1>3, QueueStep
<1> QED
  BY <1>2, <1>3 DEF AuthDispatch

LEMMA MhdDropInv ==
  ASSUME MsgInv, MhdDrop
  PROVE  MsgInv'
<1>1. PICK q \in mhd : Release(Releases(q.handle, res.handle = q.handle))
  BY DEF MhdDrop
<1>2. mhd = {q} /\ q.handle \in Response /\ (phase # "over" => q.handle = res.handle)
  BY DEF MsgInv, QueueInv, MsgTypes
<1>3. mhd' = {} /\ UNCHANGED <<phase, parts, values, res, lost, sends, queued>>
  BY DEF MhdDrop
<1> DEFINE rs == IF res.handle = q.handle THEN {} ELSE q.handle.own
<1>4. open' = open \ rs /\ twice' = twice \cup (rs \ open)
  BY <1>1, <1>2, ReleaseFacts DEF Release
<1>5. open = lost \cup res.handle.own \cup q.handle.own /\ lost \cap q.handle.own = {}
  BY <1>2 DEF MsgInv, ResourcesOwned, Numbered
<1>6. res.handle # q.handle => res.handle.own = {}
  BY <1>2, ReleaseFacts, NoResponseType DEF MsgInv, QueueInv, NoResponse
<1>7. ReleasedOnce' /\ ResourcesOwned'
  BY <1>3, <1>4, <1>5, <1>6 DEF MsgInv, ReleasedOnce, ResourcesOwned
<1>8. MsgTypes' /\ PartsFreed'
  BY <1>3, <1>4 DEF MsgInv, MsgTypes, PartsFreed
<1>9. QueueInv'
  BY <1>3 DEF MsgInv, QueueInv
<1>10. Numbered' /\ HeaderSet'
  BY <1>3, <1>4 DEF MsgInv, Numbered, HeaderSet, EncodingNamed
<1> QED
  BY <1>7, <1>8, <1>9, <1>10 DEF MsgInv

LEMMA FreeInv ==
  ASSUME MsgInv, Free
  PROVE  MsgInv'
<1> DEFINE left == \E q \in mhd : q.handle = res.handle
           rs == IF left THEN {} ELSE res.handle.own
<1>1. /\ phase # "over" /\ phase' = "over" /\ parts' = FreeParts /\ values' = [m \in Maps |-> 0]
      /\ Release(Releases(res.handle, left))
      /\ res' = [res EXCEPT !.handle = NoResponse]
      /\ UNCHANGED <<mhd, lost, sends, queued>>
  BY DEF Free
<1>2. res \in [handle : Response, enc : Encodings, canceled : BOOLEAN]
  BY DEF MsgInv, MsgTypes
<1>3. open' = open \ rs /\ twice' = twice \cup (rs \ open)
  <2>1. left \in BOOLEAN /\ res.handle \in Response
    BY <1>2
  <2> HIDE DEF left
  <2>2. Releases(res.handle, left) = rs
    BY <2>1, ReleaseFacts
  <2> QED
    BY <1>1, <2>2 DEF Release
<1>4. /\ res'.handle = NoResponse /\ NoResponse.own = {} /\ NoResponse.enc = "none"
      /\ res' \in [handle : Response, enc : Encodings, canceled : BOOLEAN]
  BY <1>1, <1>2, NoResponseType DEF NoResponse
<1>5. \A q \in mhd : q.handle = res.handle
  BY <1>1 DEF MsgInv, QueueInv
<1>6. ReleasedOnce' /\ ResourcesOwned'
  <2>1. CASE mhd = {}
    <3>1. open = lost \cup res.handle.own /\ lost \cap res.handle.own = {} /\ rs = res.handle.own
      BY <2>1 DEF MsgInv, ResourcesOwned, Numbered
    <3> QED
      BY <1>1, <1>3, <1>4, <2>1, <3>1 DEF MsgInv, ReleasedOnce, ResourcesOwned
  <2>2. ASSUME NEW q \in mhd PROVE ReleasedOnce' /\ ResourcesOwned'
    <3>1. mhd = {q} /\ q.handle = res.handle /\ rs = {}
      BY <1>5 DEF MsgInv, QueueInv
    <3>2. open = lost \cup q.handle.own
      BY <3>1 DEF MsgInv, ResourcesOwned
    <3> QED
      BY <1>1, <1>3, <1>4, <3>1, <3>2 DEF MsgInv, ReleasedOnce, ResourcesOwned
  <2> QED
    BY <2>1, <2>2
<1>7. parts' = {}
  BY <1>1 DEF FreeParts, AuthFree, ResFree, Credentials, Parts, MsgInv, MsgTypes
<1>8. MsgTypes'
  BY <1>1, <1>3, <1>4, <1>7 DEF MsgInv, MsgTypes, Phases
<1>9. QueueInv' /\ PartsFreed'
  BY <1>1, <1>4, <1>7 DEF MsgInv, QueueInv, PartsFreed
<1>10. Numbered' /\ HeaderSet'
  BY <1>1, <1>3, <1>4 DEF MsgInv, Numbered, HeaderSet, EncodingNamed
<1> QED
  BY <1>6, <1>8, <1>9, <1>10 DEF MsgInv

LEMMA MsgStepInv == MsgInv /\ [MsgNext]_msgVars => MsgInv'
<1> SUFFICES ASSUME MsgInv, [MsgNext]_msgVars PROVE MsgInv'
  OBVIOUS
<1>1. ASSUME NEW f \in {"none", "req", "res", "auth", "payload"}, New(f) PROVE MsgInv'
  BY <1>1, NewInv
<1>2. ASSUME NEW m \in Maps, GetMap(m) PROVE MsgInv'
  BY <1>2, GetMapInv
<1>3. CASE sg_httpauth_set_realm
  BY <1>3, AddPartInv DEF sg_httpauth_set_realm, Parts
<1>4. CASE sg_httpreq_fields
  BY <1>4, AddPartInv DEF sg_httpreq_fields, Parts
<1>5. CASE sg_httpauth_cancel
  BY <1>5, CancelInv
<1>6. CASE Send
  BY <1>6, SendCases, SendInv
<1>7. ASSUME NEW b \in BOOLEAN, Reset(b) PROVE MsgInv'
  BY <1>7, ResetInv
<1>8. ASSUME NEW b \in BOOLEAN, AuthDispatch(b) PROVE MsgInv'
  BY <1>8, AuthDispatchInv
<1>9. CASE ResDispatch
  BY <1>9, QueueStep DEF ResDispatch, ownVars
<1>10. CASE MhdDrop
  BY <1>10, MhdDropInv
<1>11. CASE Free
  BY <1>11, FreeInv
<1>12. CASE UNCHANGED msgVars
  BY <1>12 DEF msgVars, MsgInv, MsgTypes, QueueInv, Numbered, HeaderSet, EncodingNamed, ResourcesOwned,
     ReleasedOnce, PartsFreed
<1> QED
  BY <1>1, <1>2, <1>3, <1>4, <1>5, <1>6, <1>7, <1>8, <1>9, <1>10, <1>11, <1>12 DEF MsgNext

LEMMA MsgInvAlways == MsgSpec => []MsgInv
BY MsgInitInv, MsgStepInv, PTL DEF MsgSpec

-----------------------------------------------------------------------------
(* The variables of a request keep their types.                            *)
THEOREM MsgTypeCorrect == MsgSpec => []MsgTypeOK
<1>1. MsgInv => MsgTypeOK
  BY DEF MsgInv, MsgTypes, Phases, MsgTypeOK
<1> QED
  BY <1>1, MsgInvAlways, PTL

(* What send calls took is owned by a response until it is released        *)
(* (sg_httpres.c), whatever the order of the end of the request and the    *)
(* end of the transfer.                                                    *)
THEOREM NothingLeaks == MsgSpec => []ResourcesOwned
<1>1. MsgInv => ResourcesOwned
  BY DEF MsgInv
<1> QED
  BY <1>1, MsgInvAlways, PTL

(* Nothing is released twice.                                              *)
THEOREM NeverTwice == MsgSpec => []ReleasedOnce
<1>1. MsgInv => ReleasedOnce
  BY DEF MsgInv
<1> QED
  BY <1>1, MsgInvAlways, PTL

(* sg__httpreq_free frees every part, and so does sg__httpreq_new when it  *)
(* fails, except the struct.                                               *)
THEOREM NoPartLeft == MsgSpec => []PartsFreed
<1>1. MsgInv => PartsFreed
  BY DEF MsgInv
<1> QED
  BY <1>1, MsgInvAlways, PTL

(* A response that is queued names the encoding of its body.               *)
THEOREM HeaderTold == MsgSpec => []EncodingNamed
<1>1. MsgInv => EncodingNamed
  BY DEF MsgInv, HeaderSet
<1> QED
  BY <1>1, MsgInvAlways, PTL

(* No request gets two responses.                                          *)
THEOREM OneAnswer == MsgSpec => []AnsweredOnce
<1>1. MsgInv => AnsweredOnce
  BY DEF MsgInv, QueueInv, AnsweredOnce
<1> QED
  BY <1>1, MsgInvAlways, PTL

-----------------------------------------------------------------------------
(* HttpSrvLife, for any daemons and connections: the inductive invariant.  *)

LifeTypes ==
  /\ srv \in {"none", "live", "freed"} /\ dir \in {"null", "set"} /\ cli \in BOOLEAN
  /\ handle \in Daemons \cup {0} /\ running \subseteq used
  /\ used \subseteq Daemons /\ again \in BOOLEAN
  /\ conn \in [Conns -> Daemons \cup {0}] /\ refused \subseteq Conns
  /\ over \subseteq Conns /\ told \in [Conns -> 0..2] /\ served \subseteq Conns

(* A server that listened once at a time has a daemon in its handle or     *)
(* none that runs.                                                         *)
OneDaemon ==
  /\ ~again => running = IF handle = 0 THEN {} ELSE {handle}
  /\ srv # "live" => handle = 0

(* cli_cb is told of a connection when it starts, and once more when it    *)
(* has ended; only one that has started was refused or served.             *)
ClientCalls ==
  \A c \in Conns :
    /\ c \in over => conn[c] = 0
    /\ conn[c] # 0 => told[c] <= 1
    /\ conn[c] = 0 /\ c \notin over => told[c] = 0 /\ c \notin refused \cup served

LifeInv == LifeTypes /\ OneDaemon /\ ClientCalls /\ RefusedNotServed

LEMMA NoZero == 0 \notin Daemons
BY LifeAssumption

-----------------------------------------------------------------------------
LEMMA LifeInitInv == LifeInit => LifeInv
<1> SUFFICES ASSUME LifeInit PROVE LifeInv
  OBVIOUS
<1>1. LifeTypes
  <2>1. conn \in [Conns -> Daemons \cup {0}] /\ told \in [Conns -> 0..2]
    BY DEF LifeInit
  <2>2. cli \in BOOLEAN /\ again \in BOOLEAN
    BY DEF LifeInit
  <2>3. /\ srv = "none" /\ dir = "null" /\ handle = 0 /\ running = {} /\ used = {}
        /\ refused = {} /\ over = {} /\ served = {}
    BY DEF LifeInit
  <2> QED
    BY <2>1, <2>2, <2>3 DEF LifeTypes
<1>2. OneDaemon
  BY DEF LifeInit, OneDaemon
<1>3. ClientCalls /\ RefusedNotServed
  BY DEF LifeInit, ClientCalls, RefusedNotServed
<1> QED
  BY <1>1, <1>2, <1>3 DEF LifeInv

(* Connections end: none of them ended before.                             *)
LEMMA CloseFacts ==
  ASSUME LifeTypes, ClientCalls, NEW cs \in SUBSET {c \in Conns : conn[c] # 0}, Close(cs), cli' = cli,
         UNCHANGED refused, served' = served
  PROVE  /\ conn' \in [Conns -> Daemons \cup {0}] /\ over' \subseteq Conns
         /\ told' \in [Conns -> 0..2] /\ ClientCalls'
<1>1. /\ \A c \in Conns : /\ conn'[c] = IF c \in cs THEN 0 ELSE conn[c]
                          /\ told'[c] = IF c \in cs /\ cli THEN told[c] + 1 ELSE told[c]
      /\ over' = over \cup cs /\ cs \subseteq Conns
      /\ conn' = [c \in Conns |-> IF c \in cs THEN 0 ELSE conn[c]]
      /\ told' = [c \in Conns |-> IF c \in cs /\ cli THEN told[c] + 1 ELSE told[c]]
  BY DEF Close
<1>2. \A c \in Conns : told[c] \in 0..2 /\ conn[c] \in Daemons \cup {0}
  BY DEF LifeTypes
<1>3. \A c \in cs : told[c] <= 1
  BY <1>1 DEF ClientCalls
<1>4. \A c \in Conns : told'[c] \in 0..2 /\ conn'[c] \in Daemons \cup {0}
  BY <1>1, <1>2, <1>3
<1>5. conn' \in [Conns -> Daemons \cup {0}] /\ over' \subseteq Conns /\ told' \in [Conns -> 0..2]
  BY <1>1, <1>4 DEF LifeTypes
<1>6. ClientCalls'
  BY <1>1 DEF ClientCalls
<1> QED
  BY <1>5, <1>6

LEMMA ShutdownFacts ==
  ASSUME LifeInv, Shutdown, cli' = cli
  PROVE  /\ handle' = 0 /\ (~again' => running' = {})
         /\ running' \subseteq used' /\ UNCHANGED <<used, again, refused, served>>
         /\ conn' \in [Conns -> Daemons \cup {0}] /\ over' \subseteq Conns
         /\ told' \in [Conns -> 0..2] /\ ClientCalls'
<1>1. /\ handle # 0 /\ running' = running \ {handle} /\ handle' = 0
      /\ UNCHANGED <<used, again, refused, served>>
      /\ Close({c \in Conns : conn[c] = handle})
  BY DEF Shutdown, Stop
<1>2. {c \in Conns : conn[c] = handle} \in SUBSET {c \in Conns : conn[c] # 0}
  BY <1>1
<1>3. /\ conn' \in [Conns -> Daemons \cup {0}] /\ over' \subseteq Conns
      /\ told' \in [Conns -> 0..2] /\ ClientCalls'
  BY <1>1, <1>2, CloseFacts DEF LifeInv
<1>4. running' \subseteq used' /\ (~again' => running' = {})
  BY <1>1 DEF LifeInv, LifeTypes, OneDaemon
<1> QED
  BY <1>1, <1>3, <1>4

LEMMA LifeStepInv == LifeInv /\ [LifeNext]_lifeVars => LifeInv'
<1> SUFFICES ASSUME LifeInv, [LifeNext]_lifeVars PROVE LifeInv'
  OBVIOUS
<1>1. ASSUME UNCHANGED <<daemonVars, connVars>>, cli' \in BOOLEAN, dir' \in {"null", "set"},
             srv' \in {"none", "live", "freed"}, srv' # "live" => srv = srv'
      PROVE  LifeInv'
  BY <1>1 DEF daemonVars, connVars, LifeInv, LifeTypes, OneDaemon, ClientCalls, RefusedNotServed
<1>2. CASE sg_httpsrv_new2
  BY <1>1, <1>2 DEF sg_httpsrv_new2, daemonVars, connVars, LifeInv, LifeTypes
<1>3. CASE sg_httpsrv_set_cli_cb
  BY <1>1, <1>3 DEF sg_httpsrv_set_cli_cb, daemonVars, connVars, LifeInv, LifeTypes
<1>5. ASSUME NEW b \in BOOLEAN, sg_httpsrv_set_upld_dir(b) PROVE LifeInv'
  BY <1>1, <1>5 DEF sg_httpsrv_set_upld_dir, daemonVars, connVars, LifeInv, LifeTypes
<1>6. CASE sg_httpsrv_shutdown
  <2>1. srv = "live" /\ Shutdown /\ UNCHANGED <<srv, dir, cli>>
    BY <1>6 DEF sg_httpsrv_shutdown
  <2> QED
    BY <2>1, ShutdownFacts DEF LifeInv, LifeTypes, OneDaemon, RefusedNotServed
<1>7. CASE sg_httpsrv_free
  <2>1. srv = "live" /\ FreeStops /\ srv' = "freed" /\ dir' = "null" /\ UNCHANGED <<cli>>
    BY <1>7 DEF sg_httpsrv_free
  <2>2. CASE handle = 0
    BY <2>1, <2>2 DEF FreeStops, daemonVars, connVars, LifeInv, LifeTypes, OneDaemon, ClientCalls, RefusedNotServed
  <2>3. CASE handle # 0
    <3>1. Shutdown
      BY <2>1, <2>3 DEF FreeStops
    <3> QED
      BY <2>1, <3>1, ShutdownFacts DEF LifeInv, LifeTypes, OneDaemon, RefusedNotServed
  <2> QED
    BY <2>2, <2>3
<1>8. ASSUME NEW b \in BOOLEAN, Listen(b) PROVE LifeInv'
  <2>1. /\ srv = "live" /\ again' = (again \/ handle # 0)
        /\ UNCHANGED <<srv, dir, cli, connVars>>
    BY <1>8 DEF Listen, Ready
  <2>2. CASE handle' = 0 /\ UNCHANGED <<running, used>>
    BY <2>1, <2>2 DEF connVars, LifeInv, LifeTypes, OneDaemon, ClientCalls, RefusedNotServed
  <2>3. ASSUME NEW d \in Daemons, handle' = d, running' = running \cup {d}, used' = used \cup {d}
        PROVE  LifeInv'
    BY <2>1, <2>3, NoZero DEF connVars, LifeInv, LifeTypes, OneDaemon, ClientCalls, RefusedNotServed
  <2> QED
    BY <1>8, <2>2, <2>3 DEF Listen
<1>9. ASSUME NEW c \in Conns, NEW b \in BOOLEAN, Started(c, b) PROVE LifeInv'
  <2>1. PICK d \in running : conn' = [conn EXCEPT ![c] = d]
    BY <1>9 DEF Started
  <2>2. /\ conn[c] = 0 /\ c \notin over
        /\ told' = IF cli THEN [told EXCEPT ![c] = 1] ELSE told
        /\ refused' = IF cli /\ b THEN refused \cup {c} ELSE refused
        /\ UNCHANGED <<srv, dir, cli, handle, running, used, again, over, served>>
    BY <1>9 DEF Started, daemonVars
  <2>3. d \in Daemons /\ d # 0 /\ c \notin served /\ told[c] = 0
    BY <2>1, <2>2, NoZero DEF LifeInv, LifeTypes, ClientCalls
  <2>4. LifeTypes'
    BY <2>1, <2>2, <2>3 DEF LifeInv, LifeTypes
  <2>5. ClientCalls'
    BY <2>1, <2>2, <2>3 DEF LifeInv, LifeTypes, ClientCalls
  <2> QED
    BY <2>2, <2>3, <2>4, <2>5 DEF LifeInv, OneDaemon, RefusedNotServed
<1>10. ASSUME NEW c \in Conns, conn[c] # 0, Close({c}),
              UNCHANGED <<srv, dir, cli, daemonVars, refused, served>>
       PROVE  LifeInv'
  <2>1. {c} \in SUBSET {e \in Conns : conn[e] # 0}
    BY <1>10
  <2> QED
    BY <1>10, <2>1, CloseFacts DEF daemonVars, LifeInv, LifeTypes, OneDaemon, RefusedNotServed
<1>11. ASSUME NEW c \in Conns, Ended(c) PROVE LifeInv'
  BY <1>10, <1>11 DEF Ended
<1>12. ASSUME NEW c \in Conns, Request(c) PROVE LifeInv'
  <2>1. CASE c \in refused
    BY <1>10, <1>12, <2>1 DEF Request, Admitted
  <2>2. CASE c \notin refused
    <3>1. conn[c] # 0 /\ served' = served \cup {c} /\ UNCHANGED <<conn, over, told>>
          /\ UNCHANGED <<srv, dir, cli, daemonVars, refused>>
      BY <1>12, <2>2 DEF Request, Admitted
    <3> QED
      BY <2>2, <3>1 DEF daemonVars, LifeInv, LifeTypes, OneDaemon, ClientCalls, RefusedNotServed
  <2> QED
    BY <2>1, <2>2
<1>13. CASE UNCHANGED lifeVars
  BY <1>13 DEF lifeVars, LifeInv, LifeTypes, OneDaemon, ClientCalls, RefusedNotServed
<1> QED
  BY <1>2, <1>3, <1>5, <1>6, <1>7, <1>8, <1>9, <1>11, <1>12, <1>13 DEF LifeNext

LEMMA LifeInvAlways == LifeSpec => []LifeInv
BY LifeInitInv, LifeStepInv, PTL DEF LifeSpec

-----------------------------------------------------------------------------
(* The variables of a server keep their types; in particular cli_cb is     *)
(* told of a connection twice at most.                                     *)
THEOREM LifeTypeCorrect == LifeSpec => []LifeTypeOK
<1>1. LifeInv => LifeTypeOK
  BY DEF LifeInv, LifeTypes, LifeTypeOK
<1> QED
  BY <1>1, LifeInvAlways, PTL

(* No daemon outlives its server, and its handle is never that of one that *)
(* was stopped (sg_httpsrv_shutdown, sg_httpsrv_free).                     *)
THEOREM NoDaemonLeft == LifeSpec => []DaemonStopped
<1>1. LifeInv => DaemonStopped
  <2> SUFFICES ASSUME LifeInv, ~again PROVE DaemonStopped
    BY DEF DaemonStopped
  <2>1. running = (IF handle = 0 THEN {} ELSE {handle}) /\ (srv = "freed" => handle = 0)
    BY DEF LifeInv, OneDaemon
  <2>2. sg_httpsrv_port = handle
    BY <2>1 DEF sg_httpsrv_port, MHD_get_daemon_info
  <2> QED
    BY <2>1, <2>2 DEF DaemonStopped
<1> QED
  BY <1>1, LifeInvAlways, PTL

(* A client that cli_cb refused is never served, on any connection and     *)
(* whatever the server goes through meanwhile.                             *)
THEOREM NeverServed == LifeSpec => []RefusedNotServed
<1>1. LifeInv => RefusedNotServed
  BY DEF LifeInv
<1> QED
  BY <1>1, LifeInvAlways, PTL

-----------------------------------------------------------------------------
(* ZCompress, for any sizes and any uInt: what was given to zlib, what it  *)
(* took and what is left are the buffers.                                  *)
ZTypes ==
  /\ job \in [size : Nat, dest : Nat, deflated : Nat] /\ given \in [src : Nat, dest : Nat]
  /\ zin \in Nat /\ zout \in Nat /\ total \in [in : Nat, out : Nat]
  /\ zret \in {"Z_OK", "Z_STREAM_END", "Z_BUF_ERROR"}
ZInv == ZTypes /\ CompressedWhole /\ total.out <= job.deflated

LEMMA ZInitInv == ZInit(Jobs) => ZInv
<1> SUFFICES ASSUME ZInit(Jobs) PROVE ZInv
  OBVIOUS
<1>1. job.size \in Nat /\ job.dest \in Nat /\ job.deflated \in Nat /\ job \in [size : Nat, dest : Nat, deflated : Nat]
  BY ZAssumption DEF ZInit, Jobs
<1> QED
  BY <1>1 DEF ZInit, ZInv, ZTypes, CompressedWhole

(* A refill gives zlib no more than there is, and something if there is.   *)
LEMMA RefillFacts ==
  ASSUME NEW avail \in Nat, NEW left \in Nat
  PROVE  /\ Refill(avail, left).avail \in Nat /\ Refill(avail, left).left \in Nat
         /\ Refill(avail, left).avail + Refill(avail, left).left = avail + left
         /\ Refill(avail, left).avail = 0 => Refill(avail, left).left = 0
  BY ZAssumption DEF Refill, Least

LEMMA ZStepInv == ZInv /\ [sg__zcompress]_zVars => ZInv'
<1> SUFFICES ASSUME ZInv, [sg__zcompress]_zVars PROVE ZInv'
  OBVIOUS
<1>1. CASE UNCHANGED zVars
  BY <1>1 DEF zVars, ZInv, ZTypes, CompressedWhole
<1>2. CASE sg__zcompress
  <2> DEFINE o == Refill(zout, given.dest)
             i == Refill(zin, given.src)
             in == i.avail
             out == o.avail
             flush == ZFlush(i.left)
  <2>1. /\ job.size \in Nat /\ job.dest \in Nat /\ job.deflated \in Nat
        /\ given.src \in Nat /\ given.dest \in Nat /\ zin \in Nat /\ zout \in Nat
        /\ total.in \in Nat /\ total.out \in Nat /\ total.out <= job.deflated
        /\ total.in + zin + given.src = job.size /\ total.out + zout + given.dest = job.dest
    BY DEF ZInv, ZTypes, CompressedWhole
  <2>2. /\ in \in Nat /\ i.left \in Nat /\ in + i.left = zin + given.src /\ (in = 0 => i.left = 0)
        /\ out \in Nat /\ o.left \in Nat /\ out + o.left = zout + given.dest /\ (out = 0 => o.left = 0)
    BY <2>1, RefillFacts
  <2>3. given' = [src |-> i.left, dest |-> o.left] /\ job' = job /\ Deflate(in, out, flush)
    BY <1>2 DEF sg__zcompress
  <2>4. flush = IF i.left > 0 THEN "Z_NO_FLUSH" ELSE "Z_FINISH"
    BY DEF ZFlush
  <2> HIDE DEF o, i, in, out, flush
  <2>5. CASE out = 0 \/ (in = 0 /\ flush = "Z_NO_FLUSH")
    <3>1. zret' = "Z_BUF_ERROR" /\ zin' = in /\ zout' = out /\ total' = total
      BY <2>3, <2>5 DEF Deflate
    <3>2. out = 0 /\ o.left = 0
      BY <2>2, <2>4, <2>5
    <3> QED
      BY <2>1, <2>2, <2>3, <3>1, <3>2 DEF ZInv, ZTypes, CompressedWhole
  <2>6. CASE ~(out = 0 \/ (in = 0 /\ flush = "Z_NO_FLUSH"))
    <3>1. PICK c \in 0..in, k \in 0..out :
            /\ total.out + k <= job.deflated
            /\ total' = [in |-> total.in + c, out |-> total.out + k]
            /\ zin' = in - c /\ zout' = out - k
            /\ LET ended == (flush = "Z_FINISH" /\ c = in) /\ k < out
               IN  /\ ended => total'.out = job.deflated
                   /\ zret' = IF ended THEN "Z_STREAM_END" ELSE "Z_OK"
      BY <2>3, <2>6 DEF Deflate
    <3>2. zin' \in Nat /\ zout' \in Nat /\ total' \in [in : Nat, out : Nat]
      BY <2>1, <2>2, <3>1
    <3>3. /\ total'.in + zin' + given'.src = job'.size
          /\ total'.out + zout' + given'.dest = job'.dest /\ total'.out <= job'.deflated
      BY <2>1, <2>2, <2>3, <3>1
    <3>4. zret' = "Z_STREAM_END" => total' = [in |-> job.size, out |-> job.deflated]
      <4> SUFFICES ASSUME zret' = "Z_STREAM_END" PROVE total' = [in |-> job.size, out |-> job.deflated]
        OBVIOUS
      <4>1. flush = "Z_FINISH" /\ c = in /\ total'.out = job.deflated
        BY <3>1
      <4>2. i.left = 0
        BY <2>2, <2>4, <4>1
      <4>3. total.in + c = job.size /\ total.out + k = job.deflated
        BY <2>1, <2>2, <3>1, <4>1, <4>2
      <4> QED
        BY <3>1, <4>3
    <3>5. zret' \in {"Z_OK", "Z_STREAM_END"} /\ given' \in [src : Nat, dest : Nat]
      BY <2>2, <2>3, <3>1
    <3> QED
      BY <2>3, <3>2, <3>3, <3>4, <3>5 DEF ZInv, ZTypes, CompressedWhole
  <2> QED
    BY <2>5, <2>6
<1> QED
  BY <1>1, <1>2

(* A stream that ended is the whole source, and one that did not had no    *)
(* room (sg__zcompress).                                                   *)
THEOREM WholeOrNoRoom == ZSpec => []CompressedWhole
<1>1. ZInv => CompressedWhole
  BY DEF ZInv
<1> QED
  BY <1>1, ZInitInv, ZStepInv, PTL DEF ZSpec

-----------------------------------------------------------------------------
(* Memory: which allocator made a block can be told from what it holds,    *)
(* but for the blocks that the code frees by another one.                  *)
Strays == PairCopies \cup AuthStrings \cup {"zbuf"}
OfLibrary == {"buffer", "cells"}
OfManager == {"str", "pair", "auth"} \cup StreamParts
MadeBy(b) ==
  /\ b.what \in Strays \cup OfLibrary \cup OfManager /\ b.by \in {"C", mm}
  /\ b.what \in OfLibrary => b.by = "C"
  /\ b.what \in OfManager => b.by = mm
MadeAll(bs) == \A b \in bs : MadeBy(b)
MemInv == MadeAll(blocks) /\ BlocksWhole /\ crossed \subseteq Strays

(* A free that suits all the blocks it finds.                              *)
Suits(f) ==
  /\ f[1] \in OfLibrary => f[2] = "C"
  /\ f[1] \in OfManager => f[2] = mm
Holds(bs, w) == \E b \in bs : b.what = w
Frees(fs, w) == \E f \in fs : f[1] = w

LEMMA AllocateKeeps ==
  ASSUME MemInv, NEW new, MadeAll(new), Allocate(new)
  PROVE  /\ MadeAll(blocks)' /\ crossed' \subseteq Strays
         /\ \A w : There(w)' <=> There(w) \/ Holds(new, w)
<1>1. blocks' = blocks \cup new /\ mm' = mm /\ crossed' = crossed
  BY DEF Allocate
<1>2. MadeAll(blocks)'
  BY <1>1 DEF MemInv, MadeAll, MadeBy
<1> QED
  BY <1>1, <1>2 DEF MemInv, There, Holds

LEMMA FreeKeeps ==
  ASSUME MemInv, NEW bs, MadeAll(bs), NEW frees, \A f \in frees : Suits(f), FreeBlocks(frees, bs)
  PROVE  /\ MadeAll(blocks)' /\ crossed' \subseteq Strays
         /\ \A w : There(w)' <=> Holds(bs, w) /\ ~Frees(frees, w)
<1>1. blocks' = Left(frees, bs) /\ crossed' = crossed \cup Crossing(frees, bs) /\ mm' = mm
  BY DEF FreeBlocks
<1>2. MadeAll(blocks)'
  BY <1>1 DEF MadeAll, MadeBy, Left
<1>3. Crossing(frees, bs) \subseteq Strays
  BY DEF Crossing, MadeAll, MadeBy, Suits
<1>4. \A w : There(w)' <=> Holds(bs, w) /\ ~Frees(frees, w)
  BY <1>1 DEF There, Holds, Frees, Left
<1> QED
  BY <1>1, <1>2, <1>3, <1>4 DEF MemInv

(* A free of several parts suits them if it is that of their allocator.    *)
LEMMA ManagerFrees ==
  ASSUME NEW whats, \A w \in whats : w \notin OfLibrary
  PROVE  /\ \A f \in sg_free(whats) : Suits(f)
         /\ \A w : Frees(sg_free(whats), w) <=> w \in whats
<1>1. \A f \in sg_free(whats) : f[1] \in whats /\ f[2] = mm
  BY DEF sg_free
<1>2. \A w \in whats : <<w, mm>> \in sg_free(whats)
  BY DEF sg_free
<1>3. \A w \in whats : Frees(sg_free(whats), w)
  BY <1>2 DEF Frees
<1> QED
  BY <1>1, <1>3 DEF Suits, Frees

LEMMA LibraryFrees ==
  ASSUME NEW whats, \A w \in whats : w \notin OfManager
  PROVE  /\ \A f \in free(whats) : Suits(f)
         /\ \A w : Frees(free(whats), w) <=> w \in whats
<1>1. \A f \in free(whats) : f[1] \in whats /\ f[2] = "C"
  BY DEF free
<1>2. \A w \in whats : <<w, "C">> \in free(whats)
  BY DEF free
<1>3. \A w \in whats : Frees(free(whats), w)
  BY <1>2 DEF Frees
<1> QED
  BY <1>1, <1>3 DEF Suits, Frees

LEMMA FreesTogether ==
  \A a, b, w : Frees(a \cup b, w) <=> Frees(a, w) \/ Frees(b, w)
  BY DEF Frees

(* New blocks, one by one.                                                 *)
LEMMA BlocksMade ==
  /\ \A w \in Strays \cup OfManager : MadeBy(sg_malloc(w)) /\ MadeBy(sg_alloc(w))
  /\ \A w \in Strays \cup OfLibrary : MadeBy(malloc(w)) /\ MadeBy(strdup(w))
  /\ \A w : /\ sg_malloc(w).what = w /\ sg_alloc(w).what = w
            /\ malloc(w).what = w /\ strdup(w).what = w
  BY DEF MadeBy, sg_alloc, sg_malloc, malloc, strdup, Block, Strays, OfLibrary, OfManager,
    PairCopies, AuthStrings, StreamParts

LEMMA BlocksTogether ==
  /\ \A a, b : MadeAll(a \cup b) <=> MadeAll(a) /\ MadeAll(b)
  /\ \A b : MadeAll({b}) <=> MadeBy(b)
  /\ \A a, b, w : Holds(a \cup b, w) <=> Holds(a, w) \/ Holds(b, w)
  /\ \A b, w : Holds({b}, w) <=> b.what = w
  BY DEF MadeAll, Holds

LEMMA SomeBlocksMade ==
  /\ MadeAll({}) /\ \A w : ~Holds({}, w)
  /\ \A x, y : MadeBy(x) /\ MadeBy(y) =>
       MadeAll({x, y}) /\ \A w : Holds({x, y}, w) <=> w = x.what \/ w = y.what
  /\ \A x, y, z : MadeBy(x) /\ MadeBy(y) /\ MadeBy(z) =>
       MadeAll({x, y, z}) /\ \A w : Holds({x, y, z}, w) <=> w = x.what \/ w = y.what \/ w = z.what
  BY DEF MadeAll, Holds

USE DEF StrParts, PairCopies, PairParts, AuthStrings, AuthParts, StreamParts

LEMMA StrInv ==
  ASSUME MemInv, sg_str_new \/ sg_str_free
  PROVE  MemInv'
<1>1. CASE sg_str_new
  <2> DEFINE new == {sg_alloc("str")} \cup utstring_new
  <2>1. MadeAll(new) /\ \A w : Holds(new, w) <=> w \in StrParts
    BY DEF MadeAll, MadeBy, Holds, sg_alloc, sg_malloc, utstring_new, malloc, Block, OfLibrary, OfManager, Strays
  <2>2. Allocate(new)
    BY <1>1 DEF sg_str_new
  <2> HIDE DEF new
  <2>3. /\ MadeAll(blocks)' /\ crossed' \subseteq Strays
        /\ \A w : There(w)' <=> There(w) \/ w \in StrParts
    BY <2>1, <2>2, AllocateKeeps
  <2>4. BlocksWhole'
    BY <2>3 DEF MemInv, BlocksWhole
  <2> QED
    BY <2>3, <2>4 DEF MemInv
<1>2. CASE sg_str_free
  <2> DEFINE frees == utstring_free \cup sg_free({"str"})
  <2>1. /\ \A f \in frees : Suits(f)
        /\ \A w : Frees(frees, w) <=> w \in StrParts
    <3>1. /\ \A f \in sg_free({"str"}) : Suits(f)
          /\ \A w : Frees(sg_free({"str"}), w) <=> w = "str"
      BY ManagerFrees DEF OfLibrary
    <3>2. /\ \A f \in free({"cells"}) : Suits(f)
          /\ \A w : Frees(free({"cells"}), w) <=> w = "cells"
      BY LibraryFrees DEF OfManager
    <3>3. /\ \A f \in free({"buffer"}) : Suits(f)
          /\ \A w : Frees(free({"buffer"}), w) <=> w = "buffer"
      BY LibraryFrees DEF OfManager
    <3>4. frees = (free({"cells"}) \cup free({"buffer"})) \cup sg_free({"str"})
      BY DEF utstring_free, utstring_done
    <3> HIDE DEF frees
    <3> QED
      BY <3>1, <3>2, <3>3, <3>4, FreesTogether
  <2>2. FreeBlocks(frees, blocks)
    BY <1>2 DEF sg_str_free
  <2> HIDE DEF frees
  <2>3. /\ MadeAll(blocks)' /\ crossed' \subseteq Strays
        /\ \A w : There(w)' <=> There(w) /\ w \notin StrParts
    BY <2>1, <2>2, FreeKeeps DEF MemInv, There, Holds
  <2>4. BlocksWhole'
    BY <2>3 DEF MemInv, BlocksWhole
  <2> QED
    BY <2>3, <2>4 DEF MemInv
<1> QED
  BY <1>1, <1>2

LEMMA PairInv ==
  ASSUME MemInv, PairFree \/ \E f \in {"none"} \cup PairCopies : sg__strmap_new(f)
  PROVE  MemInv'
<1>0. /\ \A f \in sg__strmap_free : Suits(f)
      /\ \A w : Frees(sg__strmap_free, w) <=> w \in PairParts
  BY ManagerFrees DEF sg__strmap_free, OfLibrary
<1>1. CASE PairFree
  <2>1. /\ MadeAll(blocks)' /\ crossed' \subseteq Strays
        /\ \A w : There(w)' <=> There(w) /\ w \notin PairParts
    BY <1>0, <1>1, FreeKeeps DEF PairFree, MemInv, There, Holds
  <2>2. BlocksWhole'
    BY <2>1 DEF MemInv, BlocksWhole
  <2> QED
    BY <2>1, <2>2 DEF MemInv
<1>2. ASSUME NEW failed \in {"none"} \cup PairCopies, sg__strmap_new(failed) PROVE MemInv'
  <2> DEFINE new == {sg_alloc("pair")} \cup {strdup(w) : w \in Before(failed)}
  <2>1. Before(failed) \subseteq PairCopies /\ (failed = "none" => Before(failed) = PairCopies)
    BY DEF Before
  <2>2. MadeAll(new) /\ \A w : Holds(new, w) <=> w \in {"pair"} \cup Before(failed)
    <3> DEFINE dups == {strdup(w) : w \in Before(failed)}
    <3>1. "pair" \in OfManager /\ PairCopies \subseteq Strays
      BY DEF OfManager, Strays
    <3>2. MadeAll(dups) /\ \A w : Holds(dups, w) <=> w \in Before(failed)
      BY <2>1, <3>1, BlocksMade DEF MadeAll, Holds
    <3>3. MadeAll({sg_alloc("pair")}) /\ \A w : Holds({sg_alloc("pair")}, w) <=> w = "pair"
      BY <3>1, BlocksMade, BlocksTogether
    <3> HIDE DEF dups
    <3> QED
      BY <3>2, <3>3, BlocksTogether DEF dups
  <2>3. ~There("pair") /\ IF failed = "none" THEN Allocate(new)
                          ELSE FreeBlocks(sg__strmap_free, blocks \cup new)
    BY <1>2 DEF sg__strmap_new
  <2> HIDE DEF new
  <2>4. CASE failed = "none"
    <3>1. /\ MadeAll(blocks)' /\ crossed' \subseteq Strays
          /\ \A w : There(w)' <=> There(w) \/ w \in PairParts
      BY <2>1, <2>2, <2>3, <2>4, AllocateKeeps
    <3>2. BlocksWhole'
      BY <3>1 DEF MemInv, BlocksWhole
    <3> QED
      BY <3>1, <3>2 DEF MemInv
  <2>5. CASE failed # "none"
    <3>1. MadeAll(blocks \cup new)
      BY <2>2 DEF MemInv, MadeAll
    <3>2. /\ MadeAll(blocks)' /\ crossed' \subseteq Strays
          /\ \A w : There(w)' <=> Holds(blocks \cup new, w) /\ w \notin PairParts
      BY <1>0, <2>3, <2>5, <3>1, FreeKeeps
    <3>3. \A w : w \notin PairParts => (Holds(blocks \cup new, w) <=> There(w))
      <4>1. \A w : Holds(blocks \cup new, w) <=> There(w) \/ Holds(new, w)
        BY DEF Holds, There
      <4> QED
        BY <4>1, <2>1, <2>2
    <3>4. BlocksWhole'
      BY <3>2, <3>3 DEF MemInv, BlocksWhole
    <3> QED
      BY <3>2, <3>4 DEF MemInv
  <2> QED
    BY <2>4, <2>5
<1> QED
  BY <1>1, <1>2

LEMMA AuthInvKept ==
  ASSUME MemInv, SetRealm \/ sg__httpauth_free \/ \E sent \in BOOLEAN : sg__httpauth_new(sent)
  PROVE  MemInv'
<1>1. ASSUME NEW sent \in BOOLEAN, sg__httpauth_new(sent) PROVE MemInv'
  <2> DEFINE new == {sg_alloc("auth")} \cup IF sent THEN {malloc("usr"), malloc("pwd")} ELSE {}
  <2>1. MadeAll(new) /\ Holds(new, "auth") /\ \A w : Holds(new, w) => w \in AuthParts
    <3>1. "auth" \in OfManager /\ "usr" \in Strays /\ "pwd" \in Strays
      BY DEF OfManager, Strays
    <3>2. /\ MadeBy(sg_alloc("auth")) /\ sg_alloc("auth").what = "auth"
          /\ MadeBy(malloc("usr")) /\ malloc("usr").what = "usr"
          /\ MadeBy(malloc("pwd")) /\ malloc("pwd").what = "pwd"
      BY <3>1, BlocksMade
    <3>3. CASE sent
      <4>1. new = {sg_alloc("auth"), malloc("usr"), malloc("pwd")}
        BY <3>3
      <4> HIDE DEF new
      <4> QED
        BY <4>1, <3>2, SomeBlocksMade
    <3>4. CASE ~sent
      <4>1. new = {sg_alloc("auth")}
        BY <3>4
      <4> HIDE DEF new
      <4> QED
        BY <4>1, <3>2, BlocksTogether
    <3> QED
      BY <3>3, <3>4
  <2>2. Allocate(new)
    BY <1>1 DEF sg__httpauth_new
  <2> HIDE DEF new
  <2>3. /\ MadeAll(blocks)' /\ crossed' \subseteq Strays
        /\ \A w : There(w)' <=> There(w) \/ Holds(new, w)
    BY <2>1, <2>2, AllocateKeeps
  <2>4. BlocksWhole'
    BY <2>1, <2>3 DEF MemInv, BlocksWhole
  <2> QED
    BY <2>3, <2>4 DEF MemInv
<1>2. CASE SetRealm
  <2> DEFINE new == {strdup("realm")}
  <2>1. MadeAll(new) /\ \A w : Holds(new, w) <=> w = "realm"
    BY DEF MadeAll, MadeBy, Holds, strdup, Block, OfLibrary, OfManager, Strays
  <2>2. Allocate(new) /\ There("auth")
    BY <1>2 DEF SetRealm
  <2> HIDE DEF new
  <2>3. /\ MadeAll(blocks)' /\ crossed' \subseteq Strays
        /\ \A w : There(w)' <=> There(w) \/ w = "realm"
    BY <2>1, <2>2, AllocateKeeps
  <2>4. BlocksWhole'
    BY <2>2, <2>3 DEF MemInv, BlocksWhole
  <2> QED
    BY <2>3, <2>4 DEF MemInv
<1>3. CASE sg__httpauth_free
  <2>1. FreeBlocks(sg_free(AuthParts), blocks)
    BY <1>3 DEF sg__httpauth_free
  <2>2. /\ \A f \in sg_free(AuthParts) : Suits(f)
        /\ \A w : Frees(sg_free(AuthParts), w) <=> w \in AuthParts
    BY ManagerFrees DEF OfLibrary
  <2>3. /\ MadeAll(blocks)' /\ crossed' \subseteq Strays
        /\ \A w : There(w)' <=> There(w) /\ w \notin AuthParts
    BY SMTT(20), <2>1, <2>2, FreeKeeps DEF MemInv, There, Holds
  <2>4. BlocksWhole'
    BY <2>3 DEF MemInv, BlocksWhole
  <2> QED
    BY <2>3, <2>4 DEF MemInv
<1> QED
  BY <1>1, <1>2, <1>3

LEMMA StreamInvKept ==
  ASSUME MemInv, ZStreamFree \/ \E failed \in {"none", "stream", "buf_in", "response"} : ZStream(failed)
  PROVE  MemInv'
<1>0. /\ \A f \in StreamFrees : Suits(f)
      /\ \A w : Frees(StreamFrees, w) <=> w \in StreamParts
  <2>1. /\ \A f \in sg_free({"stream"}) : Suits(f)
        /\ \A w : Frees(sg_free({"stream"}), w) <=> w = "stream"
    BY ManagerFrees DEF OfLibrary
  <2>2. /\ \A f \in sg_free({"buf_in", "holder"}) : Suits(f)
        /\ \A w : Frees(sg_free({"buf_in", "holder"}), w) <=> w \in {"buf_in", "holder"}
    BY ManagerFrees DEF OfLibrary
  <2>3. StreamFrees = sg_free({"stream"}) \cup sg_free({"buf_in", "holder"})
    BY DEF StreamFrees, sg__zfree
  <2> QED
    BY <2>1, <2>2, <2>3, FreesTogether
<1>1. CASE ZStreamFree
  <2>1. /\ MadeAll(blocks)' /\ crossed' \subseteq Strays
        /\ \A w : There(w)' <=> There(w) /\ w \notin StreamParts
    BY <1>0, <1>1, FreeKeeps DEF ZStreamFree, MemInv, There, Holds
  <2>2. BlocksWhole'
    BY <2>1 DEF MemInv, BlocksWhole
  <2> QED
    BY <2>1, <2>2 DEF MemInv
<1>2. ASSUME NEW failed \in {"none", "stream", "buf_in", "response"}, ZStream(failed) PROVE MemInv'
  <2> DEFINE new == ZStreamMade(failed)
  <2>1. /\ MadeAll(new) /\ \A w : Holds(new, w) => w \in StreamParts
        /\ failed = "none" => \A w \in StreamParts : Holds(new, w)
    <3>1. StreamParts \subseteq OfManager
      BY DEF OfManager
    <3>2. /\ MadeBy(sg_alloc("holder")) /\ sg_alloc("holder").what = "holder"
          /\ MadeBy(sg_alloc("stream")) /\ sg_alloc("stream").what = "stream"
          /\ MadeBy(sg_malloc("buf_in")) /\ sg_malloc("buf_in").what = "buf_in"
      BY <3>1, BlocksMade
    <3>3. /\ failed = "stream" => new = {sg_alloc("holder")}
          /\ failed = "buf_in" => new = {sg_alloc("holder"), sg_alloc("stream")}
          /\ failed \notin {"stream", "buf_in"} =>
               new = {sg_alloc("holder"), sg_alloc("stream"), sg_malloc("buf_in")}
      BY DEF ZStreamMade, sg__zalloc
    <3> HIDE DEF new
    <3>5. CASE failed = "stream"
      BY <3>2, <3>3, <3>5, BlocksTogether
    <3>6. CASE failed = "buf_in"
      BY <3>2, <3>3, <3>6, SomeBlocksMade
    <3>7. CASE failed \notin {"stream", "buf_in"}
      BY <3>2, <3>3, <3>7, SomeBlocksMade
    <3> QED
      BY <3>5, <3>6, <3>7
  <2>2. ~There("holder") /\ IF failed = "none" THEN Allocate(new)
                            ELSE FreeBlocks(StreamFrees, blocks \cup new)
    BY <1>2 DEF ZStream
  <2> HIDE DEF new
  <2>3. CASE failed = "none"
    <3>1. /\ MadeAll(blocks)' /\ crossed' \subseteq Strays
          /\ \A w : There(w)' <=> There(w) \/ w \in StreamParts
      BY <2>1, <2>2, <2>3, AllocateKeeps
    <3>2. BlocksWhole'
      BY <3>1 DEF MemInv, BlocksWhole
    <3> QED
      BY <3>1, <3>2 DEF MemInv
  <2>4. CASE failed # "none"
    <3>1. MadeAll(blocks \cup new)
      BY <2>1 DEF MemInv, MadeAll
    <3>2. /\ MadeAll(blocks)' /\ crossed' \subseteq Strays
          /\ \A w : There(w)' <=> Holds(blocks \cup new, w) /\ w \notin StreamParts
      BY <1>0, <2>2, <2>4, <3>1, FreeKeeps
    <3>3. \A w : w \notin StreamParts => (Holds(blocks \cup new, w) <=> There(w))
      <4>1. \A w : Holds(blocks \cup new, w) <=> There(w) \/ Holds(new, w)
        BY DEF Holds, There
      <4> QED
        BY <4>1, <2>1
    <3>4. BlocksWhole'
      BY <3>2, <3>3 DEF MemInv, BlocksWhole
    <3> QED
      BY <3>2, <3>4 DEF MemInv
  <2> QED
    BY <2>3, <2>4
<1> QED
  BY <1>1, <1>2

LEMMA BodyInvKept ==
  ASSUME MemInv, FieldGrow \/ ZBodySent \/ ZBodyRefused \/ \E empty \in BOOLEAN : ZBody(empty)
  PROVE  MemInv'
<1>1. CASE FieldGrow
  <2> DEFINE frees == sg_realloc("val")
             kept == Left(frees, blocks)
  <2>1. There("val") /\ blocks' = kept \cup {sg_malloc("val")} /\ mm' = mm
        /\ crossed' = crossed \cup Crossing(frees, blocks)
    BY <1>1 DEF FieldGrow
  <2>2. \A w : Frees(frees, w) <=> w = "val"
    BY ManagerFrees DEF sg_realloc, OfLibrary
  <2>3. Crossing(frees, blocks) \subseteq Strays
    BY <2>2 DEF Crossing, Frees, Strays
  <2>4. MadeAll(kept) /\ MadeBy(sg_malloc("val")) /\ sg_malloc("val").what = "val"
    BY DEF MemInv, MadeAll, Left, MadeBy, sg_malloc, Block, Strays, OfLibrary, OfManager
  <2>5. \A w : Holds(kept, w) <=> There(w) /\ w # "val"
    BY <2>2 DEF Holds, There, Left, Frees
  <2> HIDE DEF frees, kept
  <2>6. MadeAll(blocks)'
    BY <2>1, <2>4 DEF MadeAll, MadeBy
  <2>7. \A w : There(w)' <=> There(w)
    BY <2>1, <2>4, <2>5 DEF There, Holds
  <2>8. BlocksWhole'
    BY <2>7 DEF MemInv, BlocksWhole
  <2> QED
    BY <2>1, <2>3, <2>6, <2>8 DEF MemInv
<1>2. ASSUME NEW frees, \A f \in frees : Suits(f), \A w : Frees(frees, w) <=> w = "zbuf",
             FreeBlocks(frees, blocks)
      PROVE  MemInv'
  <2>1. /\ MadeAll(blocks)' /\ crossed' \subseteq Strays
        /\ \A w : There(w)' <=> There(w) /\ w # "zbuf"
    BY <1>2, FreeKeeps DEF MemInv, There, Holds
  <2>2. BlocksWhole'
    BY <2>1 DEF MemInv, BlocksWhole
  <2> QED
    BY <2>1, <2>2 DEF MemInv
<1>3. CASE ZBodySent
  <2>1. /\ \A f \in free({"zbuf"}) : Suits(f)
        /\ \A w : Frees(free({"zbuf"}), w) <=> w = "zbuf"
    BY LibraryFrees DEF OfManager
  <2> QED
    BY <1>2, <1>3, <2>1 DEF ZBodySent
<1>4. CASE ZBodyRefused
  <2>1. /\ \A f \in sg_free({"zbuf"}) : Suits(f)
        /\ \A w : Frees(sg_free({"zbuf"}), w) <=> w = "zbuf"
    BY ManagerFrees DEF OfLibrary
  <2> QED
    BY <1>2, <1>4, <2>1 DEF ZBodyRefused
<1>5. ASSUME NEW empty \in BOOLEAN, ZBody(empty) PROVE MemInv'
  <2> DEFINE new == {IF empty THEN strdup("zbuf") ELSE sg_malloc("zbuf")}
  <2>1. MadeAll(new) /\ \A w : Holds(new, w) <=> w = "zbuf"
    BY DEF MadeAll, MadeBy, Holds, strdup, sg_malloc, Block, OfLibrary, OfManager, Strays
  <2>2. Allocate(new)
    BY <1>5 DEF ZBody
  <2> HIDE DEF new
  <2>3. /\ MadeAll(blocks)' /\ crossed' \subseteq Strays
        /\ \A w : There(w)' <=> There(w) \/ w = "zbuf"
    BY <2>1, <2>2, AllocateKeeps
  <2>4. BlocksWhole'
    BY <2>3 DEF MemInv, BlocksWhole
  <2> QED
    BY <2>3, <2>4 DEF MemInv
<1> QED
  BY <1>1, <1>3, <1>4, <1>5

LEMMA MemStepInv == MemInv /\ [MemNext]_memVars => MemInv'
<1> SUFFICES ASSUME MemInv, [MemNext]_memVars PROVE MemInv'
  OBVIOUS
<1>1. ASSUME NEW a, sg_mm_set(a) PROVE MemInv'
  <2>1. blocks = {} /\ blocks' = {} /\ crossed' = crossed
    BY <1>1 DEF sg_mm_set
  <2> QED
    BY <2>1 DEF MemInv, MadeAll, BlocksWhole, There
<1>2. CASE UNCHANGED memVars
  BY <1>2 DEF memVars, MemInv, MadeAll, MadeBy, BlocksWhole, There
<1> QED
  BY <1>1, <1>2, StrInv, PairInv, AuthInvKept, StreamInvKept, BodyInvKept DEF MemNext

(* What one allocator made, another does not free, with the manager of the *)
(* C library; an object is there with all its parts or with none.          *)
THEOREM BlocksAlwaysKept == MemSpec => []BlocksKept
<1>1. MemInit => MemInv
  BY DEF MemInit, MemInv, MadeAll, BlocksWhole, There
<1>2. MemInv => BlocksKept
  BY DEF MemInv, MadeAll, MadeBy, BlocksKept, FreedAsMade, Strays
<1> QED
  BY <1>1, <1>2, MemStepInv, PTL DEF MemSpec

-----------------------------------------------------------------------------
(* Str, for any texts and any capacity of a new string.                    *)
Buffer == [d : Seq(Int), i : Nat]
Bytes == Nat \ {0}

(* A buffer that has room for the 0 after a text, and one that has it.     *)
Begins(s, t) ==
  /\ s \in Buffer /\ t \in Seq(Bytes) /\ s.i = Len(t) /\ s.i < Len(s.d)
  /\ \A k \in 1..Len(t) : s.d[k] = t[k]
HasText(s, t) == Begins(s, t) /\ s.d[Len(t) + 1] = 0

LEMMA Places ==
  ASSUME NEW i \in Nat, NEW m \in Nat, NEW n \in Nat, i + m <= n
  PROVE  /\ \A k \in 1..m : i + k \in i + 1..i + m /\ (i + k) - i = k /\ i + k \in 1..n
         /\ \A k \in 1..i + m : k \notin 1..i => k - i \in 1..m /\ k - i \in 1..m + 1 /\ i + (k - i) = k
  OBVIOUS

LEMMA Within ==
  ASSUME NEW i \in Nat, NEW m \in Nat, NEW k \in i + 1..i + m
  PROVE  k - i \in 1..m /\ ~(k <= i)
  OBVIOUS

LEMMA StoreFacts ==
  ASSUME NEW s \in Buffer, NEW b \in Seq(Int), s.i + Len(b) <= Len(s.d)
  PROVE  /\ Store(s, b) \in Buffer /\ Store(s, b).i = s.i /\ Len(Store(s, b).d) = Len(s.d)
         /\ \A k \in 1..Len(s.d) : k <= s.i => Store(s, b).d[k] = s.d[k]
         /\ \A k \in 1..Len(b) : Store(s, b).d[s.i + k] = b[k]
<1> DEFINE cell(k) == IF k \in s.i + 1..s.i + Len(b) THEN b[k - s.i] ELSE s.d[k]
           c == [k \in 1..Len(s.d) |-> cell(k)]
<1>1. s.d \in Seq(Int) /\ s.i \in Nat /\ Len(s.d) \in Nat /\ DOMAIN s.d = 1..Len(s.d)
      /\ Len(b) \in Nat /\ \A k \in 1..Len(b) : b[k] \in Int
  BY DEF Buffer
<1>2. Store(s, b) = [s EXCEPT !.d = c]
  BY <1>1 DEF Store
<1>3. \A k \in 1..Len(s.d) : cell(k) \in Int /\ (k <= s.i => cell(k) = s.d[k])
  <2> SUFFICES ASSUME NEW k \in 1..Len(s.d) PROVE cell(k) \in Int /\ (k <= s.i => cell(k) = s.d[k])
    OBVIOUS
  <2>1. CASE k \in s.i + 1..s.i + Len(b)
    <3>1. k - s.i \in 1..Len(b) /\ ~(k <= s.i)
      BY <1>1, <2>1, Within
    <3> QED
      BY <1>1, <2>1, <3>1
  <2>2. CASE k \notin s.i + 1..s.i + Len(b)
    BY <1>1, <2>2
  <2> QED
    BY <2>1, <2>2
<1>4. \A k \in 1..Len(b) : s.i + k \in 1..Len(s.d) /\ cell(s.i + k) = b[k]
  <2> SUFFICES ASSUME NEW k \in 1..Len(b) PROVE s.i + k \in 1..Len(s.d) /\ cell(s.i + k) = b[k]
    OBVIOUS
  <2>1. s.i + k \in s.i + 1..s.i + Len(b) /\ (s.i + k) - s.i = k /\ s.i + k \in 1..Len(s.d)
    BY <1>1, Places
  <2> QED
    BY <2>1
<1> HIDE DEF cell
<1>5. c \in Seq(Int) /\ Len(c) = Len(s.d) /\ \A k \in 1..Len(s.d) : c[k] = cell(k)
  BY <1>1, <1>3
<1> HIDE DEF c
<1>6. Store(s, b).d = c /\ Store(s, b).i = s.i /\ Store(s, b) \in Buffer
  BY <1>1, <1>2, <1>5 DEF Buffer
<1> QED
  BY <1>3, <1>4, <1>5, <1>6

LEMMA ReserveFacts ==
  ASSUME NEW s, NEW t, Begins(s, t), NEW amt \in Nat
  PROVE  /\ Begins(utstring_reserve(s, amt), t)
         /\ Len(utstring_reserve(s, amt).d) = IF Len(s.d) - s.i < amt THEN Len(s.d) + amt ELSE Len(s.d)
<1> DEFINE r == utstring_reserve(s, amt)
           more == Cells(amt)
<1>1. s.d \in Seq(Int) /\ s.i \in Nat /\ s \in Buffer /\ s.i < Len(s.d)
  BY DEF Begins, Buffer
<1>2. CASE Len(s.d) - s.i < amt
  <2>1. r = [s EXCEPT !.d = @ \o more]
    BY <1>2 DEF utstring_reserve, Room
  <2>2. more \in Seq(Int) /\ Len(more) = amt
    BY DEF Cells, Junk
  <2> HIDE DEF more
  <2>3. /\ s.d \o more \in Seq(Int) /\ Len(s.d \o more) = Len(s.d) + amt
        /\ \A k \in 1..Len(s.d) : (s.d \o more)[k] = s.d[k]
    <3> DEFINE c == s.d
    <3>1. c \in Seq(Int)
      BY <1>1
    <3> HIDE DEF c
    <3>2. /\ c \o more \in Seq(Int) /\ Len(c \o more) = Len(c) + amt
          /\ \A k \in 1..Len(c) : (c \o more)[k] = c[k]
      BY SMTT(20), <2>2, <3>1
    <3> QED
      BY <3>2 DEF c
  <2> DEFINE d == s.d \o more
  <2> HIDE DEF d, r
  <2>4. r.d = d /\ r.i = s.i /\ r \in Buffer
    BY <1>1, <2>1, <2>3 DEF Buffer, d
  <2>5. \A k \in 1..Len(t) : k \in 1..Len(s.d)
    BY <1>1 DEF Begins
  <2>6. \A k \in 1..Len(t) : r.d[k] = t[k]
    BY <2>3, <2>4, <2>5 DEF Begins, d
  <2>7. r.i < Len(r.d) /\ Len(r.d) = Len(s.d) + amt
    BY <1>1, <2>3, <2>4 DEF d
  <2> QED
    BY <1>2, <2>4, <2>6, <2>7 DEF Begins, r
<1>3. CASE ~(Len(s.d) - s.i < amt)
  BY <1>3 DEF utstring_reserve, Room
<1> QED
  BY <1>2, <1>3

(* Bytes for which there is room are put after the text.                   *)
LEMMA PutFacts ==
  ASSUME NEW s, NEW t, Begins(s, t), NEW b \in Seq(Bytes), Len(b) < Len(s.d) - s.i
  PROVE  HasText([Store(s, Append(b, 0)) EXCEPT !.i = @ + Len(b)], t \o b)
<1> DEFINE a == Append(b, 0)
           p == Store(s, a)
           q == [p EXCEPT !.i = @ + Len(b)]
           u == t \o b
<1>1. /\ s.d \in Seq(Int) /\ s.i \in Nat /\ s \in Buffer /\ Len(s.d) \in Nat /\ s.i = Len(t)
      /\ t \in Seq(Bytes) /\ Len(t) \in Nat /\ Len(b) \in Nat
  BY DEF Begins, Buffer
<1>2. /\ a \in Seq(Int) /\ Len(a) = Len(b) + 1 /\ a[Len(b) + 1] = 0
      /\ \A k \in 1..Len(b) : a[k] = b[k]
  <2>1. b \in Seq(Int)
    BY DEF Bytes
  <2> QED
    BY <1>1, <2>1
<1>3. /\ u \in Seq(Bytes) /\ Len(u) = Len(t) + Len(b)
      /\ \A k \in 1..Len(t) : u[k] = t[k]
      /\ \A k \in 1..Len(b) : u[Len(t) + k] = b[k]
  BY <1>1
<1> HIDE DEF a, u
<1>4. /\ p \in Buffer /\ p.i = s.i /\ Len(p.d) = Len(s.d)
      /\ \A k \in 1..Len(s.d) : k <= s.i => p.d[k] = s.d[k]
      /\ \A k \in 1..Len(b) + 1 : p.d[s.i + k] = a[k]
  <2>1. s.i + Len(a) <= Len(s.d)
    BY <1>1, <1>2
  <2>2. a \in Seq(Int) /\ s \in Buffer
    BY <1>1, <1>2
  <2>3. /\ p \in Buffer /\ p.i = s.i /\ Len(p.d) = Len(s.d)
        /\ \A k \in 1..Len(s.d) : k <= s.i => p.d[k] = s.d[k]
        /\ \A k \in 1..Len(a) : p.d[s.i + k] = a[k]
    BY <2>1, <2>2, StoreFacts
  <2> QED
    BY <1>2, <2>3
<1> HIDE DEF p
<1>5. q \in Buffer /\ q.i = Len(u) /\ q.d = p.d
  <2>1. p \in Buffer /\ p.i = Len(t)
    BY <1>1, <1>4
  <2>2. p.i + Len(b) = Len(u) /\ Len(u) \in Nat
    BY <1>1, <1>3, <2>1
  <2>3. q = [p EXCEPT !.i = Len(u)]
    BY <2>2
  <2> HIDE DEF q
  <2> QED
    BY <2>1, <2>2, <2>3 DEF Buffer
<1> HIDE DEF q
<1>6. ASSUME NEW k \in 1..Len(u) PROVE q.d[k] = u[k]
  <2>1. CASE k \in 1..Len(t)
    <3>1. k \in 1..Len(s.d) /\ k <= s.i
      BY <1>1, <2>1
    <3>2. p.d[k] = s.d[k] /\ s.d[k] = t[k] /\ u[k] = t[k]
      BY <1>3, <1>4, <2>1, <3>1 DEF Begins
    <3> QED
      BY <1>5, <3>2
  <2>2. CASE k \notin 1..Len(t)
    <3>0. Len(t) \in Nat /\ Len(b) \in Nat /\ k \in 1..Len(t) + Len(b)
      BY <1>1, <1>3
    <3>1. k - Len(t) \in 1..Len(b) /\ k - Len(t) \in 1..Len(b) + 1 /\ Len(t) + (k - Len(t)) = k
      BY <2>2, <3>0, Places
    <3>2. p.d[s.i + (k - Len(t))] = a[k - Len(t)] /\ a[k - Len(t)] = b[k - Len(t)]
      BY <1>2, <1>4, <3>1
    <3>3. u[Len(t) + (k - Len(t))] = b[k - Len(t)]
      BY <1>3, <3>1
    <3> QED
      BY <1>1, <1>5, <3>1, <3>2, <3>3
  <2> QED
    BY <2>1, <2>2
<1>7. q.d[Len(u) + 1] = 0
  <2>1. Len(b) + 1 \in 1..Len(b) + 1 /\ s.i + (Len(b) + 1) = Len(u) + 1
    BY <1>1, <1>3
  <2>2. p.d[s.i + (Len(b) + 1)] = 0
    BY <1>2, <1>4, <2>1
  <2> QED
    BY <1>5, <2>1, <2>2
<1>8. q.i < Len(q.d)
  BY <1>1, <1>3, <1>4, <1>5
<1> QED
  BY <1>3, <1>5, <1>6, <1>7, <1>8 DEF HasText, Begins, a, p, q, u

(* A buffer that grew when there was no room for a text has room for it.   *)
LEMMA RoomMade ==
  ASSUME NEW n \in Nat, NEW l \in Nat, NEW i \in Nat, i < l,
         NEW g, g = IF l - i < n + 1 THEN l + (n + 1) ELSE l
  PROVE  n < g - i
OBVIOUS

(* The bytes are put whether they fit or the buffer has to grow.           *)
LEMMA WriteKeeps ==
  ASSUME NEW s, NEW t, HasText(s, t), NEW b \in Seq(Bytes)
  PROVE  HasText(utstring_bincpy(s, b), t \o b)
<1> DEFINE r == utstring_reserve(s, Len(b) + 1)
<1>1. /\ Len(b) \in Nat /\ Len(b) + 1 \in Nat /\ Begins(s, t)
      /\ Len(s.d) \in Nat /\ s.i \in Nat /\ s.i < Len(s.d)
  BY DEF HasText, Begins, Buffer
<1>2. /\ Begins(r, t)
      /\ Len(r.d) = IF Len(s.d) - s.i < Len(b) + 1 THEN Len(s.d) + (Len(b) + 1) ELSE Len(s.d)
  BY <1>1, ReserveFacts
<1>3. utstring_bincpy(s, b) = [Store(r, Append(b, 0)) EXCEPT !.i = @ + Len(b)]
  BY DEF utstring_bincpy
<1> HIDE DEF r
<1>4. r.i = s.i
  BY <1>1, <1>2 DEF Begins
<1>5. Len(b) < Len(r.d) - r.i
  <2>1. Len(b) < Len(r.d) - s.i
    BY <1>1, <1>2, RoomMade
  <2> QED
    BY <1>4, <2>1
<1>6. Begins(r, t)
  BY <1>2
<1>7. HasText([Store(r, Append(b, 0)) EXCEPT !.i = @ + Len(b)], t \o b)
  BY <1>5, <1>6, PutFacts
<1> QED
  BY <1>3, <1>7

LEMMA PrintKeeps ==
  ASSUME NEW s, NEW t, HasText(s, t), NEW b \in Seq(Bytes)
  PROVE  HasText(utstring_printf_va(s, b), t \o b)
<1>1. /\ Len(b) \in Nat /\ Begins(s, t) /\ Len(s.d) \in Nat /\ s.i \in Nat /\ s \in Buffer
      /\ Len(s.d) - s.i >= 1
  BY DEF HasText, Begins, Buffer
<1>2. CASE Len(b) < Len(s.d) - s.i
  <2>1. utstring_printf_va(s, b) = [Store(s, Append(b, 0)) EXCEPT !.i = @ + Len(b)]
    BY <1>2 DEF utstring_printf_va, vsnprintf, Room
  <2> QED
    BY <1>1, <1>2, <2>1, PutFacts
<1>3. CASE ~(Len(b) < Len(s.d) - s.i)
  <2> DEFINE room == Len(s.d) - s.i
             cut == SubSeq(b, 1, room - 1)
             a == Append(cut, 0)
             r == Store(s, a)
             e == utstring_reserve(r, Len(b) + 1)
  <2>1. vsnprintf(s, b) = r
    BY <1>1, <1>3 DEF vsnprintf, Room
  <2>2. a \in Seq(Int) /\ Len(a) = room
    <3>1. b \in Seq(Int) /\ room - 1 \in Nat /\ room - 1 <= Len(b) /\ (room - 1) + 1 = room
      BY <1>1, <1>3 DEF Bytes
    <3> DEFINE n == room - 1
    <3>2. n \in Nat /\ n <= Len(b)
      BY <3>1
    <3> HIDE DEF n, room
    <3>3. SubSeq(b, 1, n) \in Seq(Int) /\ Len(SubSeq(b, 1, n)) = n
      BY <1>1, <3>1, <3>2
    <3> QED
      BY <3>1, <3>3 DEF n
  <2> HIDE DEF a
  <2>3. /\ r \in Buffer /\ r.i = s.i /\ Len(r.d) = Len(s.d)
        /\ \A k \in 1..Len(s.d) : k <= s.i => r.d[k] = s.d[k]
    <3>1. s.i + Len(a) <= Len(s.d)
      BY <1>1, <2>2
    <3> QED
      BY <1>1, <2>2, <3>1, StoreFacts
  <2> HIDE DEF r
  <2>4. Begins(r, t)
    <3>1. \A k \in 1..Len(t) : k \in 1..Len(s.d) /\ k <= s.i
      BY <1>1 DEF Begins
    <3>2. \A k \in 1..Len(t) : r.d[k] = t[k]
      BY <1>1, <2>3, <3>1 DEF Begins
    <3> QED
      BY <1>1, <2>3, <3>2 DEF Begins
  <2>5. Begins(e, t) /\ Len(e.d) = IF Len(r.d) - r.i < Len(b) + 1 THEN Len(r.d) + (Len(b) + 1) ELSE Len(r.d)
    <3>1. Len(b) + 1 \in Nat
      BY <1>1
    <3> QED
      BY <2>4, <3>1, ReserveFacts
  <2> HIDE DEF e
  <2>6. Len(b) < Len(e.d) - e.i
    <3>1. e.i = s.i
      BY <1>1, <2>5 DEF Begins
    <3>2. s.i < Len(s.d)
      BY <1>1
    <3>3. Len(e.d) = IF Len(s.d) - s.i < Len(b) + 1 THEN Len(s.d) + (Len(b) + 1) ELSE Len(s.d)
      BY <2>3, <2>5
    <3>4. Len(b) < Len(e.d) - s.i
      BY <1>1, <3>2, <3>3, RoomMade
    <3> QED
      BY <3>1, <3>4
  <2>7. utstring_printf_va(s, b) = [vsnprintf(e, b) EXCEPT !.i = @ + Len(b)]
    BY <1>3, <2>1 DEF utstring_printf_va, Room, e
  <2>8. vsnprintf(e, b) = Store(e, Append(b, 0))
    BY <2>6 DEF vsnprintf, Room
  <2>9. Begins(e, t)
    BY <2>5
  <2>10. HasText([Store(e, Append(b, 0)) EXCEPT !.i = @ + Len(b)], t \o b)
    BY <2>6, <2>9, PutFacts
  <2> QED
    BY <2>7, <2>8, <2>10
<1> QED
  BY <1>2, <1>3

(* A buffer that is cleared holds no text.                                 *)
LEMMA ClearHolds ==
  ASSUME NEW s \in Buffer, Len(s.d) > 0
  PROVE  HasText(utstring_clear(s), << >>)
<1> DEFINE z == [s EXCEPT !.i = 0]
           b == <<0>>
<1>1. z \in Buffer /\ z.d = s.d /\ z.i = 0 /\ Len(s.d) \in Nat
  BY DEF Buffer
<1>2. b \in Seq(Int) /\ Len(b) = 1 /\ b[1] = 0 /\ 1 \in 1..1
  OBVIOUS
<1>3. utstring_clear(s) = Store(z, b)
  BY DEF utstring_clear
<1> HIDE DEF z, b
<1>4. /\ Store(z, b) \in Buffer /\ Store(z, b).i = 0 /\ Len(Store(z, b).d) = Len(s.d)
      /\ Store(z, b).d[0 + 1] = 0
  <2>1. z.i + Len(b) <= Len(z.d)
    BY <1>1, <1>2
  <2>2. /\ Store(z, b) \in Buffer /\ Store(z, b).i = z.i /\ Len(Store(z, b).d) = Len(z.d)
        /\ \A k \in 1..Len(b) : Store(z, b).d[z.i + k] = b[k]
    BY <1>1, <1>2, <2>1, StoreFacts
  <2>3. Store(z, b).d[z.i + 1] = b[1]
    BY <1>2, <2>2
  <2> QED
    BY <1>1, <1>2, <2>2, <2>3
<1> QED
  BY <1>1, <1>3, <1>4 DEF HasText, Begins

TextInv == HasText(buf, text)

LEMMA StrInitInv == StrInit => TextInv
<1> SUFFICES ASSUME StrInit PROVE TextInv
  OBVIOUS
<1> DEFINE s == [d |-> << >>, i |-> 0]
           r == utstring_reserve(s, Initial)
           more == Cells(Initial)
<1>1. Initial \in Nat /\ Initial > 0
  BY StrAssumption
<1>2. more \in Seq(Int) /\ Len(more) = Initial
  BY <1>1 DEF Cells, Junk
<1>3. r = [s EXCEPT !.d = << >> \o more]
  BY <1>1 DEF utstring_reserve, Room
<1> HIDE DEF more
<1>4. << >> \o more \in Seq(Int) /\ Len(<< >> \o more) = Initial
  BY <1>1, <1>2
<1> HIDE DEF r
<1>5. r \in Buffer /\ Len(r.d) > 0
  BY <1>1, <1>3, <1>4 DEF Buffer
<1>6. buf = utstring_clear(r) /\ text = << >>
  BY DEF StrInit, utstring_init, r
<1> QED
  BY <1>5, <1>6, ClearHolds DEF TextInv

LEMMA StrStepInv == TextInv /\ [StrNext]_strVars => TextInv'
<1> SUFFICES ASSUME TextInv, [StrNext]_strVars PROVE TextInv'
  OBVIOUS
<1>1. ASSUME NEW b \in Texts, sg_str_write(b) \/ sg_str_printf(b) PROVE TextInv'
  <2>1. b \in Seq(Bytes)
    BY StrAssumption DEF Bytes
  <2> QED
    BY <1>1, <2>1, WriteKeeps, PrintKeeps DEF TextInv, sg_str_write, sg_str_printf
<1>2. CASE sg_str_clear
  <2>1. buf \in Buffer /\ Len(buf.d) > 0
    BY DEF TextInv, HasText, Begins, Buffer
  <2> QED
    BY <1>2, <2>1, ClearHolds DEF TextInv, sg_str_clear
<1>3. CASE UNCHANGED strVars
  BY <1>3 DEF TextInv, strVars
<1> QED
  BY <1>1, <1>2, <1>3 DEF StrNext

(* What was written is what is got back (sg_str_content).                  *)
LEMMA TextGotBack == TextInv => StrHolds
<1> SUFFICES ASSUME TextInv PROVE StrHolds
  OBVIOUS
<1> DEFINE d == buf.d
           n == Len(text)
           ends(k) == d[k] = 0 /\ \A j \in 1..k - 1 : d[j] # 0
           end == CHOOSE k \in DOMAIN d : ends(k)
<1>1. /\ d \in Seq(Int) /\ Len(d) \in Nat /\ n \in Nat /\ n < Len(d) /\ DOMAIN d = 1..Len(d)
      /\ buf.i = n /\ text \in Seq(Bytes) /\ d[n + 1] = 0
      /\ \A k \in 1..n : d[k] = text[k] /\ d[k] # 0
  BY DEF TextInv, HasText, Begins, Buffer, Bytes
<1> HIDE DEF d
<1>2. n + 1 \in DOMAIN d /\ ends(n + 1)
  BY <1>1
<1>3. ASSUME NEW k \in DOMAIN d, ends(k) PROVE k = n + 1
  <2>1. k \in 1..Len(d)
    BY <1>1
  <2>2. k \notin 1..n
    BY <1>1, <1>3
  <2>3. ~(n + 1 < k)
    <3> SUFFICES ASSUME n + 1 < k PROVE FALSE
      OBVIOUS
    <3>1. n + 1 \in 1..k - 1
      BY <1>1, <2>1
    <3> QED
      BY <1>1, <1>3, <3>1
  <2> QED
    BY <1>1, <2>1, <2>2, <2>3
<1> HIDE DEF ends
<1>4. end = n + 1
  BY <1>2, <1>3
<1>5. sg_str_content = SubSeq(d, 1, end - 1)
  BY DEF sg_str_content, ends, d
<1> HIDE DEF end
<1>6. end - 1 = n
  <2>1. n \in Nat
    BY <1>1
  <2> HIDE DEF n
  <2> QED
    BY <1>4, <2>1
<1>7. SubSeq(d, 1, n) = text
  <2>1. SubSeq(d, 1, n) \in Seq(Int) /\ Len(SubSeq(d, 1, n)) = n
    BY <1>1
  <2>2. \A k \in 1..n : SubSeq(d, 1, n)[k] = text[k]
    BY <1>1
  <2> QED
    BY <1>1, <2>1, <2>2
<1> QED
  BY <1>1, <1>5, <1>6, <1>7 DEF StrHolds, sg_str_length, d

(* A string holds all that was written to it since it was cleared, however *)
(* often its buffer grew (sg_str_write, sg_str_printf_va).                 *)
THEOREM StringHoldsText == StrSpec => []StrHolds
  BY StrInitInv, StrStepInv, TextGotBack, PTL DEF StrSpec

-----------------------------------------------------------------------------
(* Utils, for paths and names of any length: lemmas about pieces of texts. *)

LEMMA StringFacts ==
  ASSUME NEW n \in Nat, NEW s \in Strings(n)
  PROVE  s \in Seq(Chars) /\ Len(s) \in 0..n /\ DOMAIN s = 1..Len(s) /\ s \in [1..Len(s) -> Chars]
<1>1. PICK k \in 0..n : s \in [1..k -> Chars]
  BY DEF Strings
<1> HIDE DEF Chars
<1>2. s \in Seq(Chars) /\ Len(s) = k
  BY <1>1
<1> QED
  BY <1>1, <1>2

LEMMA EmptyString == \A n \in Nat : << >> \in Strings(n)
<1> SUFFICES ASSUME NEW n \in Nat PROVE << >> \in Strings(n)
  OBVIOUS
<1>1. 0 \in 0..n /\ << >> \in [1..0 -> Chars]
  OBVIOUS
<1> QED
  BY <1>1 DEF Strings

LEMMA SameText ==
  ASSUME NEW S, NEW s \in Seq(S), NEW t \in Seq(S), Len(s) = Len(t), \A i \in 1..Len(s) : s[i] = t[i]
  PROVE  s = t
OBVIOUS

LEMMA CatFacts ==
  ASSUME NEW S, NEW a \in Seq(S), NEW b \in Seq(S)
  PROVE  /\ a \o b \in Seq(S) /\ Len(a \o b) = Len(a) + Len(b)
         /\ Len(a) \in Nat /\ Len(b) \in Nat
         /\ \A i \in 1..Len(a) : (a \o b)[i] = a[i]
         /\ \A i \in 1..Len(b) : (a \o b)[Len(a) + i] = b[i]
OBVIOUS

(* A slash before a text, and one after it.                                *)
LEMMA SlashFacts ==
  ASSUME NEW a \in Seq(Chars)
  PROVE  /\ <<"/">> \o a \in Seq(Chars) /\ Len(<<"/">> \o a) = 1 + Len(a)
         /\ (<<"/">> \o a)[1] = "/" /\ \A i \in 1..Len(a) : (<<"/">> \o a)[1 + i] = a[i]
         /\ a \o <<"/">> \in Seq(Chars) /\ Len(a \o <<"/">>) = Len(a) + 1
         /\ (a \o <<"/">>)[Len(a) + 1] = "/" /\ \A i \in 1..Len(a) : (a \o <<"/">>)[i] = a[i]
<1>1. \E m \in Seq(Chars) : m = <<"/">> /\ Len(m) = 1 /\ m[1] = "/"
  <2>1. <<"/">> \in Seq(Chars)
    BY DEF Chars
  <2>2. Len(<<"/">>) = 1 /\ <<"/">>[1] = "/"
    OBVIOUS
  <2> QED
    BY <2>1, <2>2
<1>2. PICK m \in Seq(Chars) : m = <<"/">> /\ Len(m) = 1 /\ m[1] = "/"
  BY <1>1
<1>3. /\ m \o a \in Seq(Chars) /\ Len(m \o a) = 1 + Len(a)
      /\ (m \o a)[1] = "/" /\ \A i \in 1..Len(a) : (m \o a)[1 + i] = a[i]
  <2>1. /\ m \o a \in Seq(Chars) /\ Len(m \o a) = Len(m) + Len(a)
        /\ \A i \in 1..Len(m) : (m \o a)[i] = m[i]
        /\ \A i \in 1..Len(a) : (m \o a)[Len(m) + i] = a[i]
    BY CatFacts
  <2> QED
    BY <1>2, <2>1
<1>4. /\ a \o m \in Seq(Chars) /\ Len(a \o m) = Len(a) + 1
      /\ (a \o m)[Len(a) + 1] = "/" /\ \A i \in 1..Len(a) : (a \o m)[i] = a[i]
  <2>1. /\ a \o m \in Seq(Chars) /\ Len(a \o m) = Len(a) + Len(m)
        /\ \A i \in 1..Len(a) : (a \o m)[i] = a[i]
        /\ \A i \in 1..Len(m) : (a \o m)[Len(a) + i] = m[i]
    BY CatFacts
  <2> QED
    BY <1>2, <2>1
<1> QED
  BY <1>2, <1>3, <1>4

LEMMA CutFacts ==
  ASSUME NEW S, NEW s \in Seq(S), NEW n \in 0..Len(s)
  PROVE  /\ Cut(s, n) \in Seq(S) /\ Len(Cut(s, n)) = n
         /\ Cut(s, n) = SubSeq(s, 1, n) /\ \A i \in 1..n : Cut(s, n)[i] = s[i]
<1>1. Len(s) \in Nat /\ Cut(s, n) = SubSeq(s, 1, n)
  BY DEF Cut
<1>2. /\ SubSeq(s, 1, n) \in Seq(S) /\ Len(SubSeq(s, 1, n)) = n
      /\ \A i \in 1..n : SubSeq(s, 1, n)[i] = s[i]
  BY <1>1
<1> QED
  BY <1>1, <1>2

LEMMA DropFacts ==
  ASSUME NEW S, NEW s \in Seq(S), NEW n \in 0..Len(s)
  PROVE  /\ Drop(s, n) \in Seq(S) /\ Len(Drop(s, n)) = Len(s) - n /\ Len(s) - n \in Nat
         /\ \A i \in 1..Len(s) - n : Drop(s, n)[i] = s[n + i]
<1> DEFINE l == Len(s)
           t == SubSeq(s, n + 1, l)
<1>1. l \in Nat /\ n \in Nat /\ n <= l /\ \A i \in 1..l : s[i] \in S
  OBVIOUS
<1>2. t = [i \in 1..(l - (n + 1)) + 1 |-> s[(n + 1) + i - 1]]
  BY <1>1
<1>3. (l - (n + 1)) + 1 = l - n /\ l - n \in Nat /\ \A i \in 1..l - n : (n + 1) + i - 1 = n + i /\ n + i \in 1..l
  <2> HIDE DEF l
  <2> QED
    BY <1>1
<1> DEFINE m == l - n
<1>4. m \in Nat /\ (l - (n + 1)) + 1 = m /\ \A i \in 1..m : (n + 1) + i - 1 = n + i /\ n + i \in 1..l
  BY <1>3
<1> HIDE DEF m, l, t
<1>5. t = [i \in 1..m |-> s[n + i]] /\ \A i \in 1..m : s[n + i] \in S
  BY <1>1, <1>2, <1>4
<1>6. t \in Seq(S) /\ Len(t) = m /\ \A i \in 1..m : t[i] = s[n + i]
  BY <1>4, <1>5
<1> QED
  BY <1>4, <1>6 DEF Drop, m, t, l

(* A text that is put together of two can be taken apart again.            *)
LEMMA TakenApart ==
  ASSUME NEW S, NEW a \in Seq(S), NEW b \in Seq(S)
  PROVE  /\ Drop(a \o b, Len(a)) = b
         /\ \A n \in 0..Len(a) : Cut(a \o b, n) = Cut(a, n)
         /\ Cut(a, Len(a)) = a
<1> DEFINE s == a \o b
<1>1. /\ s \in Seq(S) /\ Len(s) = Len(a) + Len(b) /\ Len(a) \in Nat /\ Len(b) \in Nat
      /\ \A i \in 1..Len(a) : s[i] = a[i]
      /\ \A i \in 1..Len(b) : s[Len(a) + i] = b[i]
  BY CatFacts
<1> HIDE DEF s
<1>2. Drop(s, Len(a)) = b
  <2>1. Len(a) \in 0..Len(s) /\ Len(s) - Len(a) = Len(b)
    BY <1>1
  <2>2. /\ Drop(s, Len(a)) \in Seq(S) /\ Len(Drop(s, Len(a))) = Len(b)
        /\ \A i \in 1..Len(b) : Drop(s, Len(a))[i] = s[Len(a) + i]
    BY ZenonT(30), <1>1, <2>1, DropFacts
  <2> QED
    BY <1>1, <2>2, SameText
<1>3. ASSUME NEW n \in 0..Len(a) PROVE Cut(s, n) = Cut(a, n)
  <2>1. n \in 0..Len(s) /\ \A i \in 1..n : i \in 1..Len(a)
    BY <1>1
  <2>2. Cut(s, n) \in Seq(S) /\ Len(Cut(s, n)) = n /\ \A i \in 1..n : Cut(s, n)[i] = s[i]
    BY <1>1, <2>1, CutFacts
  <2>3. Cut(a, n) \in Seq(S) /\ Len(Cut(a, n)) = n /\ \A i \in 1..n : Cut(a, n)[i] = a[i]
    BY CutFacts
  <2> QED
    BY <1>1, <2>1, <2>2, <2>3, SameText
<1>4. Cut(a, Len(a)) = a
  <2>1. Len(a) \in 0..Len(a)
    BY <1>1
  <2>2. /\ Cut(a, Len(a)) \in Seq(S) /\ Len(Cut(a, Len(a))) = Len(a)
        /\ \A i \in 1..Len(a) : Cut(a, Len(a))[i] = a[i]
    BY <2>1, CutFacts
  <2> QED
    BY <2>2, SameText
<1> QED
  BY <1>2, <1>3, <1>4 DEF s

-----------------------------------------------------------------------------
(* sg__strjoin and sg__basename.                                           *)

(* What a name is joined to: the path, and a separator if it needs one.    *)
Base(a, x) ==
  /\ x \in Seq(Chars) /\ Len(x) \in Len(a)..Len(a) + 1 /\ Cut(x, Len(a)) = a

LEMMA JoinIs ==
  ASSUME NEW a \in Seq(Chars), NEW b \in Seq(Chars)
  PROVE  \E x : /\ Base(a, x) /\ sg__strjoin("/", a, b) = x \o b
                /\ a # << >> /\ b # << >> => x # << >> /\ LastChar(x) = "/"
<1>1. Len(a) \in Nat /\ Len(b) \in Nat /\ a \o b \in Seq(Chars) /\ Len(a \o b) = Len(a) + Len(b)
  BY CatFacts
<1>2. Base(a, a)
  BY <1>1, TakenApart DEF Base
<1>3. CASE a = << >> \/ LastChar(a) = "/"
  <2>1. JoinSize(a, b, FALSE) - 1 = Len(a \o b)
    BY <1>1 DEF JoinSize
  <2>2. sg__strjoin("/", a, b) = Cut(a \o b, Len(a \o b))
    BY <1>3, <2>1 DEF sg__strjoin
  <2>3. Cut(a \o b, Len(a \o b)) = a \o b
    BY <1>1, TakenApart
  <2> QED
    BY <1>2, <1>3, <2>2, <2>3
<1>4. CASE ~(a = << >> \/ LastChar(a) = "/") /\ b = << >>
  <2>1. sg__strjoin("/", a, b) = a /\ a \o b = a
    BY <1>4 DEF sg__strjoin
  <2> QED
    BY <1>2, <1>4, <2>1
<1>5. CASE ~(a = << >> \/ LastChar(a) = "/") /\ b # << >>
  <2> DEFINE m == <<"/">>
             x == a \o m
  <2>1. m \in Seq(Chars) /\ Len(m) = 1 /\ m[1] = "/" /\ 1 \in 1..1
    BY DEF Chars
  <2> HIDE DEF m
  <2>2. x \in Seq(Chars) /\ Len(x) = Len(a) + 1 /\ x[Len(a) + 1] = "/"
    BY SlashFacts DEF m
  <2>3. Len(a) \in 0..Len(a) /\ Cut(x, Len(a)) = a
    BY <1>1, <2>1, TakenApart
  <2> HIDE DEF x
  <2>4. x # << >> /\ LastChar(x) = "/"
    BY <1>1, <2>2 DEF LastChar
  <2>5. x \o b \in Seq(Chars) /\ Len(x \o b) = Len(a) + 1 + Len(b)
    <3>1. x \o b \in Seq(Chars) /\ Len(x \o b) = Len(x) + Len(b)
      BY <2>2, CatFacts
    <3> QED
      BY <2>2, <3>1
  <2>6. JoinSize(a, b, TRUE) - 1 = Len(x \o b)
    BY <1>1, <2>5 DEF JoinSize
  <2>7. sg__strjoin("/", a, b) = Cut(x \o b, Len(x \o b))
    BY <1>5, <2>6 DEF sg__strjoin, x, m
  <2>8. Cut(x \o b, Len(x \o b)) = x \o b
    BY <2>5, TakenApart
  <2>9. Base(a, x)
    BY <1>1, <2>2, <2>3 DEF Base
  <2> QED
    BY <2>4, <2>7, <2>8, <2>9
<1> QED
  BY <1>3, <1>4, <1>5

LEMMA BaseName ==
  ASSUME NEW x \in Seq(Chars), NEW b \in Seq(Chars), x # << >>, LastChar(x) = "/",
         \A i \in DOMAIN b : b[i] \notin {"/", "\\"}
  PROVE  sg__basename(x \o b) = b
<1> DEFINE s == x \o b
           seps == {i \in DOMAIN s : IsSep(s[i])}
           n == Len(x)
<1>1. /\ s \in Seq(Chars) /\ Len(s) = n + Len(b) /\ n \in Nat /\ Len(b) \in Nat
      /\ \A i \in 1..n : s[i] = x[i]
      /\ \A i \in 1..Len(b) : s[n + i] = b[i]
      /\ DOMAIN s = 1..Len(s) /\ DOMAIN b = 1..Len(b) /\ n # 0
  BY CatFacts
<1>2. x[n] = "/"
  BY DEF LastChar
<1>3. Drop(s, n) = b
  BY TakenApart
<1> HIDE DEF s, n
<1>4. n \in seps
  BY <1>1, <1>2 DEF IsSep
<1>5. ASSUME NEW i \in seps PROVE i <= n
  <2> SUFFICES ASSUME ~(i <= n) PROVE FALSE
    OBVIOUS
  <2>1. i - n \in 1..Len(b) /\ n + (i - n) = i
    BY <1>1
  <2>2. s[i] = b[i - n]
    BY <1>1, <2>1
  <2> QED
    BY <1>1, <2>1, <2>2 DEF IsSep
<1>6. \A i \in seps : (\A j \in seps : j <= i) => i = n
  BY <1>1, <1>4, <1>5
<1>7. sg__basename(s) = Drop(s, CHOOSE i \in seps : \A j \in seps : j <= i)
  BY <1>4 DEF sg__basename
<1> HIDE DEF seps
<1>8. (CHOOSE i \in seps : \A j \in seps : j <= i) = n
  BY <1>4, <1>5, <1>6
<1> QED
  BY <1>3, <1>7, <1>8 DEF s

LEMMA JoinedAlways == Path \in Seq(Chars) /\ Name \in Seq(Chars) => JoinedWhole
<1> DEFINE a == Path
           b == Name
           s == sg__strjoin("/", a, b)
           plain == \A i \in DOMAIN b : b[i] \notin {"/", "\\"}
<1> SUFFICES ASSUME a \in Seq(Chars), b \in Seq(Chars) PROVE JoinedWhole
  OBVIOUS
<1> HIDE DEF a, b
<1>1. PICK x : /\ Base(a, x) /\ s = x \o b
               /\ a # << >> /\ b # << >> => x # << >> /\ LastChar(x) = "/"
  BY JoinIs
<1>2. /\ x \in Seq(Chars) /\ Len(s) = Len(x) + Len(b) /\ Len(x) \in Nat /\ Len(b) \in Nat /\ Len(a) \in Nat
      /\ Len(x) \in Len(a)..Len(a) + 1
  BY <1>1, CatFacts DEF Base
<1>3. Len(s) - Len(a) - Len(b) \in 0..1 /\ Len(s) - Len(b) = Len(x) /\ Len(a) <= Len(s) /\ Len(a) \in 0..Len(x)
  <2> DEFINE l == Len(s)
             m == Len(a)
             n == Len(b)
             k == Len(x)
  <2>1. l = k + n /\ k \in Nat /\ n \in Nat /\ m \in Nat /\ k \in m..m + 1
    BY <1>2
  <2> HIDE DEF l, m, n, k
  <2>2. l - m - n \in 0..1 /\ l - n = k /\ m <= l /\ m \in 0..k
    BY <2>1
  <2> QED
    BY <2>2 DEF l, m, n, k
<1>4. Cut(s, Len(a)) = a /\ Drop(s, Len(x)) = b
  <2>1. Drop(x \o b, Len(x)) = b /\ \A n \in 0..Len(x) : Cut(x \o b, n) = Cut(x, n)
    BY <1>2, TakenApart
  <2>2. Cut(x \o b, Len(a)) = Cut(x, Len(a)) /\ Cut(x, Len(a)) = a
    BY <1>1, <1>3, <2>1 DEF Base
  <2> QED
    BY <1>1, <2>1, <2>2
<1>5. plain /\ b # << >> /\ a # << >> => sg__basename(s) = b
  BY <1>1, <1>2, BaseName
<1>6. ASSUME plain, b # << >>, a # << >> PROVE sg__basename(sg__strjoin("/", sg_tmpdir(a), b)) = b
  <2>1. sg_tmpdir(a) \in Seq(Chars) /\ sg_tmpdir(a) # << >>
    <3>1. CASE Len(a) > 1 /\ LastChar(a) = "/"
      <4> DEFINE l == Len(a)
                 n == l - 1
      <4>1. n \in 0..Len(a) /\ n # 0
        <5>1. l \in Nat /\ l > 1
          BY <1>2, <3>1
        <5> HIDE DEF l
        <5>2. n \in 0..l /\ n # 0
          BY <5>1
        <5> QED
          BY <5>2 DEF l
      <4> HIDE DEF n
      <4>2. Cut(a, n) \in Seq(Chars) /\ Len(Cut(a, n)) = n
        BY <4>1, CutFacts
      <4>3. sg_tmpdir(a) = Cut(a, n)
        BY <3>1 DEF sg_tmpdir, n
      <4> QED
        BY <4>1, <4>2, <4>3
    <3>2. CASE ~(Len(a) > 1 /\ LastChar(a) = "/")
      BY <1>6, <3>2 DEF sg_tmpdir
    <3> QED
      BY <3>1, <3>2
  <2> DEFINE c == sg_tmpdir(a)
  <2> HIDE DEF c
  <2>2. PICK y : Base(c, y) /\ sg__strjoin("/", c, b) = y \o b /\ y # << >> /\ LastChar(y) = "/"
    BY <1>6, <2>1, JoinIs DEF c
  <2>3. sg__basename(y \o b) = b
    BY <1>6, <2>2, BaseName DEF Base
  <2> QED
    BY <2>2, <2>3 DEF c
<1> QED
  BY <1>3, <1>4, <1>5, <1>6 DEF JoinedWhole, Prefix, a, b

-----------------------------------------------------------------------------
(* sg_extract_entrypoint: the slashes a path begins with end at k, and its *)
(* first part at l.                                                        *)
IsPart(q, k, l) ==
  /\ k \in 0..Len(q) /\ l \in k..Len(q) /\ (l = k => k = Len(q))
  /\ \A j \in 1..k : q[j] = "/"
  /\ \A j \in k + 1..l : q[j] # "/"
  /\ l < Len(q) => q[l + 1] = "/"
PartOf(q, k, l) == [i \in 1..(l - k) + 1 |-> IF i = 1 THEN "/" ELSE q[k + (i - 1)]]

LEMMA LeastIn ==
  ASSUME NEW T, T \subseteq Nat, T # {}
  PROVE  /\ (CHOOSE i \in T : \A j \in T : i <= j) \in T
         /\ \A j \in T : (CHOOSE i \in T : \A j2 \in T : i <= j2) <= j
<1>1. \E i \in T : \A j \in T : i <= j
  BY LeastNumber
<1> QED
  BY <1>1

LEMMA PartExists ==
  ASSUME NEW q \in Seq(Chars)
  PROVE  \E k, l \in Nat : IsPart(q, k, l)
<1> DEFINE n == Len(q)
           Over == {i \in 0..n : i < n => q[i + 1] # "/"}
<1>1. n \in Nat /\ n \in Over
  OBVIOUS
<1> HIDE DEF n
<1>2. PICK k \in Over : \A i \in Over : k <= i
  <2>1. Over \subseteq Nat /\ Over # {}
    <3>1. \A i \in 0..n : i \in Nat
      BY <1>1
    <3> QED
      BY <1>1, <3>1
  <2> HIDE DEF Over
  <2> QED
    BY <2>1, LeastNumber
<1>3. \A j \in 1..k : q[j] = "/"
  <2> SUFFICES ASSUME NEW j \in 1..k PROVE q[j] = "/"
    OBVIOUS
  <2>1. j - 1 \in 0..n /\ j - 1 < n /\ (j - 1) + 1 = j /\ ~(k <= j - 1)
    BY <1>1, <1>2
  <2> QED
    BY <1>2, <2>1
<1> DEFINE Ends == {i \in k..n : i < n => q[i + 1] = "/"}
<1>4. k \in 0..n /\ (k < n => q[k + 1] # "/") /\ n \in Ends
  BY <1>1, <1>2
<1> HIDE DEF Over
<1>5. PICK l \in Ends : \A i \in Ends : l <= i
  <2>1. Ends \subseteq Nat /\ Ends # {}
    <3>1. \A i \in k..n : i \in Nat
      BY <1>1, <1>4
    <3> QED
      BY <1>4, <3>1
  <2> HIDE DEF Ends
  <2> QED
    BY <2>1, LeastNumber
<1>6. \A j \in k + 1..l : q[j] # "/"
  <2> SUFFICES ASSUME NEW j \in k + 1..l PROVE q[j] # "/"
    OBVIOUS
  <2>1. j - 1 \in k..n /\ (j - 1) + 1 = j /\ ~(l <= j - 1)
    BY <1>1, <1>4, <1>5
  <2> QED
    BY <1>5, <2>1
<1>7. l = k => k = n
  BY <1>1, <1>4, <1>5
<1>8. k \in Nat /\ l \in Nat /\ l \in k..n /\ (l < n => q[l + 1] = "/")
  BY <1>1, <1>4, <1>5
<1> QED
  BY <1>3, <1>4, <1>6, <1>7, <1>8 DEF IsPart, n

LEMMA PartFacts ==
  ASSUME NEW q \in Seq(Chars), NEW k \in Nat, NEW l \in Nat, IsPart(q, k, l)
  PROVE  /\ PartOf(q, k, l) \in Seq(Chars) /\ Len(PartOf(q, k, l)) = (l - k) + 1 /\ l - k \in Nat
         /\ PartOf(q, k, l)[1] = "/"
         /\ \A i \in 2..(l - k) + 1 : PartOf(q, k, l)[i] = q[k + (i - 1)] /\ q[k + (i - 1)] # "/"
<1> DEFINE m == (l - k) + 1
           e == PartOf(q, k, l)
<1>1. /\ Len(q) \in Nat /\ l <= Len(q) /\ k <= l /\ \A i \in 1..Len(q) : q[i] \in Chars
      /\ \A j \in k + 1..l : q[j] # "/"
  BY DEF IsPart
<1>2. /\ m \in Nat /\ l - k \in Nat /\ 1 \in 1..m
      /\ \A i \in 1..m : i # 1 => k + (i - 1) \in 1..Len(q)
      /\ \A i \in 2..m : i \in 1..m /\ i # 1 /\ k + (i - 1) \in k + 1..l
  BY <1>1
<1>3. e = [i \in 1..m |-> IF i = 1 THEN "/" ELSE q[k + (i - 1)]]
  BY DEF PartOf
<1>4. "/" \in Chars
  BY DEF Chars
<1> HIDE DEF m, e
<1>5. e \in Seq(Chars) /\ Len(e) = m
  <2>1. \A i \in 1..m : (IF i = 1 THEN "/" ELSE q[k + (i - 1)]) \in Chars
    BY <1>1, <1>2, <1>4
  <2>2. e \in [1..m -> Chars]
    BY <1>3, <2>1
  <2> HIDE DEF Chars
  <2> QED
    BY <1>2, <2>2
<1>6. e[1] = "/" /\ \A i \in 2..m : e[i] = q[k + (i - 1)] /\ q[k + (i - 1)] # "/"
  BY <1>1, <1>2, <1>3
<1> QED
  BY <1>2, <1>5, <1>6 DEF m, e

LEMMA EntrypointIs ==
  ASSUME NEW q \in Seq(Chars), NEW k \in Nat, NEW l \in Nat, IsPart(q, k, l)
  PROVE  sg_extract_entrypoint(q) = PartOf(q, k, l)
<1> DEFINE n == Len(q)
           begins(i) == /\ i < n => q[i + 1] # "/"
                        /\ \A j \in 1..i : q[j] = "/"
           start == CHOOSE i \in 0..n : begins(i)
           ends == {i \in k..n - 1 : q[i + 1] = "/"}
           e == PartOf(q, k, l)
           w == <<"/">> \o Drop(q, k)
           m == (l - k) + 1
<1>1. /\ n \in Nat /\ k \in 0..n /\ l \in k..n /\ (l = k => k = n)
      /\ \A j \in 1..k : q[j] = "/"
      /\ \A j \in k + 1..l : q[j] # "/"
      /\ l < n => q[l + 1] = "/"
  BY DEF IsPart
<1>2. start = k
  <2>1. begins(k)
    <3>1. k < n => k + 1 \in k + 1..l
      BY <1>1
    <3> QED
      BY <1>1, <3>1
  <2>2. ASSUME NEW i \in 0..n, begins(i) PROVE i = k
    <3>1. ~(i < k)
      <4>1. i < k => i + 1 \in 1..k /\ i < n
        BY <1>1
      <4> QED
        BY <1>1, <2>2, <4>1
    <3>2. ~(k < i)
      <4>1. k < i => k + 1 \in 1..i /\ k < n
        BY <1>1
      <4> QED
        BY <2>1, <2>2, <4>1
    <3> QED
      BY <1>1, <3>1, <3>2
  <2> HIDE DEF begins
  <2> QED
    BY <1>1, <2>1, <2>2
<1>3. EntryEnd(q, k) = l
  <2>1. CASE l = n
    <3>1. ends = {}
      <4> SUFFICES ASSUME NEW i \in ends PROVE FALSE
        OBVIOUS
      <4>1. i + 1 \in k + 1..l /\ q[i + 1] = "/"
        BY <1>1, <2>1
      <4> QED
        BY <1>1, <4>1
    <3> QED
      BY <2>1, <3>1 DEF EntryEnd
  <2>2. CASE l # n
    <3>1. l \in ends
      BY <1>1, <2>2
    <3>2. \A i \in ends : l <= i
      <4> SUFFICES ASSUME NEW i \in ends, ~(l <= i) PROVE FALSE
        OBVIOUS
      <4>1. i + 1 \in k + 1..l /\ q[i + 1] = "/"
        BY <1>1
      <4> QED
        BY <1>1, <4>1
    <3>3. \A i \in ends : (\A j \in ends : i <= j) => i = l
      <4> SUFFICES ASSUME NEW i \in ends, \A j \in ends : i <= j PROVE i = l
        OBVIOUS
      <4>1. i \in Int /\ l \in Int /\ i <= l /\ l <= i
        BY <1>1, <3>1, <3>2
      <4> QED
        BY <4>1
    <3>4. EntryEnd(q, k) = CHOOSE i \in ends : \A j \in ends : i <= j
      BY <3>1 DEF EntryEnd
    <3> HIDE DEF ends
    <3> QED
      BY <3>1, <3>2, <3>3, <3>4
  <2> QED
    BY <2>1, <2>2
<1>4. sg_extract_entrypoint(q) = Cut(w, m)
  <2>1. ~(l < k)
    BY <1>1
  <2> HIDE DEF start
  <2>2. sg_extract_entrypoint(q) = Cut(<<"/">> \o Drop(q, start), (IF EntryEnd(q, start) < start THEN start ELSE EntryEnd(q, start)) - start + 1)
    BY DEF sg_extract_entrypoint, start
  <2> QED
    BY <1>2, <1>3, <2>1, <2>2
<1>5. /\ Drop(q, k) \in Seq(Chars) /\ Len(Drop(q, k)) = n - k
      /\ \A i \in 1..n - k : Drop(q, k)[i] = q[k + i]
  BY <1>1, DropFacts
<1> DEFINE d == Drop(q, k)
<1>7. /\ w \in Seq(Chars) /\ Len(w) = 1 + (n - k)
      /\ w[1] = "/" /\ \A i \in 1..n - k : w[1 + i] = q[k + i]
  <2>1. d \in Seq(Chars)
    BY <1>5
  <2> HIDE DEF d
  <2>2. /\ <<"/">> \o d \in Seq(Chars) /\ Len(<<"/">> \o d) = 1 + Len(d)
        /\ (<<"/">> \o d)[1] = "/" /\ \A i \in 1..Len(d) : (<<"/">> \o d)[1 + i] = d[i]
    BY <2>1, SlashFacts
  <2> QED
    BY <1>5, <2>2 DEF d
<1> HIDE DEF w, e
<1>9. m \in 0..Len(w) /\ m \in Nat
  BY <1>1, <1>7
<1>10. Cut(w, m) \in Seq(Chars) /\ Len(Cut(w, m)) = m /\ \A i \in 1..m : Cut(w, m)[i] = w[i]
  BY <1>7, <1>9, CutFacts
<1>11. /\ e \in Seq(Chars) /\ Len(e) = m /\ e[1] = "/"
       /\ \A i \in 2..m : e[i] = q[k + (i - 1)]
  BY PartFacts DEF e
<1>12. ASSUME NEW i \in 1..m PROVE Cut(w, m)[i] = e[i]
  <2>1. CASE i = 1
    BY <1>7, <1>10, <1>11, <2>1
  <2>2. CASE i # 1
    <3>1. i \in 2..m /\ i - 1 \in 1..n - k /\ 1 + (i - 1) = i
      BY <1>1, <2>2
    <3>2. w[1 + (i - 1)] = q[k + (i - 1)]
      BY <1>7, <3>1
    <3> QED
      BY <1>10, <1>11, <3>1, <3>2
  <2> QED
    BY <2>1, <2>2
<1>13. Cut(w, m) = e
  BY <1>10, <1>11, <1>12, SameText
<1> QED
  BY <1>4, <1>13 DEF e

LEMMA EntrypointAlways == Path \in Seq(Chars) /\ Name \in Seq(Chars) => EntrypointCut
<1> DEFINE q == Path
           b == Name
           e == sg_extract_entrypoint(q)
           s == <<"/">>
<1> SUFFICES ASSUME q \in Seq(Chars), b \in Seq(Chars) PROVE EntrypointCut
  OBVIOUS
<1> HIDE DEF q, b
<1>1. PICK k, l \in Nat : IsPart(q, k, l)
  BY PartExists
<1>2. e = PartOf(q, k, l)
  BY <1>1, EntrypointIs
<1>3. /\ e \in Seq(Chars) /\ Len(e) = (l - k) + 1 /\ l - k \in Nat /\ e[1] = "/"
      /\ \A i \in 2..(l - k) + 1 : e[i] # "/"
  <2> DEFINE f == PartOf(q, k, l)
  <2>1. /\ f \in Seq(Chars) /\ Len(f) = (l - k) + 1 /\ l - k \in Nat /\ f[1] = "/"
        /\ \A i \in 2..(l - k) + 1 : f[i] = q[k + (i - 1)] /\ q[k + (i - 1)] # "/"
    BY <1>1, PartFacts
  <2> HIDE DEF e, f
  <2>2. \A i \in 2..(l - k) + 1 : f[i] # "/"
    BY <2>1
  <2>3. e = f
    BY <1>2 DEF f
  <2> QED
    BY <2>1, <2>2, <2>3
<1>5. /\ Len(q) \in Nat /\ Len(b) \in Nat /\ k \in 0..Len(q) /\ l \in k..Len(q) /\ (l = k => k = Len(q))
      /\ \A j \in 1..k : q[j] = "/"
      /\ \A j \in k + 1..l : q[j] # "/"
      /\ l < Len(q) => q[l + 1] = "/"
  BY <1>1 DEF IsPart
<1> HIDE DEF e, s
<1>6. \A i \in 2..Len(e) : e[i] # "/"
  BY <1>3
<1>7. sg_extract_entrypoint(e) = e
  <2> DEFINE n == Len(e)
  <2>1. n \in Nat /\ n >= 1 /\ 1 \in Nat
    BY <1>3
  <2> HIDE DEF n
  <2>2. IsPart(e, 1, n)
    <3>1. /\ 1 \in 0..n /\ n \in 1..n /\ ~(n < n)
          /\ \A j \in 1..1 : j = 1
          /\ \A j \in 1 + 1..n : j \in 2..n
      BY <2>1
    <3> QED
      BY <1>3, <1>6, <3>1 DEF IsPart, n
  <2>3. /\ sg_extract_entrypoint(e) = PartOf(e, 1, n)
        /\ PartOf(e, 1, n) \in Seq(Chars) /\ Len(PartOf(e, 1, n)) = (n - 1) + 1
        /\ PartOf(e, 1, n)[1] = "/"
        /\ \A i \in 2..(n - 1) + 1 : PartOf(e, 1, n)[i] = e[1 + (i - 1)]
    BY <1>3, <2>1, <2>2, EntrypointIs, PartFacts
  <2>4. (n - 1) + 1 = n /\ \A i \in 2..n : 1 + (i - 1) = i
    BY <2>1
  <2>5. \A i \in 1..n : PartOf(e, 1, n)[i] = e[i]
    <3>1. \A i \in 1..n : i = 1 \/ i \in 2..n
      BY <2>1
    <3> QED
      BY <1>3, <2>3, <2>4, <3>1
  <2> QED
    BY <1>3, <2>3, <2>4, <2>5, SameText DEF n
<1>8. sg_extract_entrypoint(s \o q) = e
  <2> DEFINE w == s \o q
  <2>1. w \in Seq(Chars)
    BY SlashFacts DEF s
  <2>2. Len(w) = 1 + Len(q) /\ w[1] = "/" /\ \A i \in 1..Len(q) : w[1 + i] = q[i]
    BY SlashFacts DEF s
  <2> HIDE DEF w
  <2>3. IsPart(w, k + 1, l + 1)
    <3>1. /\ k + 1 \in 0..Len(w) /\ l + 1 \in k + 1..Len(w) /\ (l + 1 = k + 1 => k + 1 = Len(w))
          /\ l + 1 < Len(w) => l < Len(q) /\ l + 1 \in 1..Len(q) /\ (l + 1) + 1 = 1 + (l + 1)
      BY <1>5, <2>2
    <3>2. ASSUME NEW j \in 1..k + 1 PROVE w[j] = "/"
      <4>1. j = 1 \/ (j - 1 \in 1..k /\ j - 1 \in 1..Len(q) /\ 1 + (j - 1) = j)
        BY <1>5
      <4> QED
        BY <1>5, <2>2, <4>1
    <3>3. ASSUME NEW j \in (k + 1) + 1..l + 1 PROVE w[j] # "/"
      <4>1. j - 1 \in k + 1..l /\ j - 1 \in 1..Len(q) /\ 1 + (j - 1) = j
        BY <1>5
      <4>2. w[1 + (j - 1)] = q[j - 1] /\ q[j - 1] # "/"
        BY <1>5, <2>2, <4>1
      <4> QED
        BY <4>1, <4>2
    <3>4. l + 1 < Len(w) => w[(l + 1) + 1] = "/"
      BY <1>5, <2>2, <3>1
    <3> QED
      BY <3>1, <3>2, <3>3, <3>4 DEF IsPart
  <2>4. sg_extract_entrypoint(w) = PartOf(w, k + 1, l + 1)
    <3>1. k + 1 \in Nat /\ l + 1 \in Nat /\ w \in Seq(Chars)
      BY <2>1 DEF w
    <3> QED
      BY <2>3, <3>1, EntrypointIs
  <2>5. PartOf(w, k + 1, l + 1) = PartOf(q, k, l)
    <3>1. ((l + 1) - (k + 1)) + 1 = (l - k) + 1
      OBVIOUS
    <3>2. ASSUME NEW i \in 1..(l - k) + 1, i # 1 PROVE w[(k + 1) + (i - 1)] = q[k + (i - 1)]
      <4>1. k + (i - 1) \in 1..Len(q) /\ (k + 1) + (i - 1) = 1 + (k + (i - 1))
        BY <1>5, <3>2
      <4> QED
        BY <2>2, <4>1
    <3> QED
      BY <3>1, <3>2 DEF PartOf
  <2> QED
    BY <1>2, <2>4, <2>5 DEF w
<1>9. ASSUME Len(e) > 1 PROVE sg_extract_entrypoint(q \o s \o b) = e
  <2> DEFINE v == q \o s
             w == v \o b
  <2>1. v \in Seq(Chars) /\ \A i \in 1..Len(q) : v[i] = q[i]
    BY SlashFacts DEF s
  <2>2. Len(v) = Len(q) + 1 /\ v[Len(q) + 1] = "/"
    BY SlashFacts DEF s
  <2> HIDE DEF v
  <2>3. /\ w \in Seq(Chars) /\ Len(w) = Len(v) + Len(b)
        /\ \A i \in 1..Len(v) : w[i] = v[i]
    <3>1. PICK x \in Seq(Chars) : x = v
      BY <2>1
    <3>2. /\ x \o b \in Seq(Chars) /\ Len(x \o b) = Len(x) + Len(b)
          /\ \A i \in 1..Len(x) : (x \o b)[i] = x[i]
      BY CatFacts
    <3> QED
      BY <3>1, <3>2
  <2> HIDE DEF w
  <2>4. /\ Len(w) >= Len(q) + 1 /\ Len(w) \in Nat /\ w[Len(q) + 1] = "/"
        /\ \A i \in 1..Len(q) : w[i] = q[i]
    <3>1. /\ Len(q) + 1 \in 1..Len(v) /\ Len(w) >= Len(q) + 1 /\ Len(w) \in Nat
          /\ \A i \in 1..Len(q) : i \in 1..Len(v)
      BY <1>5, <2>2, <2>3
    <3> QED
      BY <2>1, <2>2, <2>3, <3>1
  <2>5. k # l
    BY <1>3, <1>9
  <2>6. IsPart(w, k, l)
    <3>1. /\ k \in 0..Len(w) /\ l \in k..Len(w)
          /\ \A j \in 1..k : j \in 1..Len(q)
          /\ \A j \in k + 1..l : j \in 1..Len(q)
          /\ l = Len(q) \/ (l < Len(q) /\ l + 1 \in 1..Len(q))
      BY <1>5, <2>4
    <3> QED
      BY <1>5, <2>4, <2>5, <3>1 DEF IsPart
  <2>7. sg_extract_entrypoint(w) = PartOf(w, k, l)
    BY <2>3, <2>6, EntrypointIs
  <2>8. PartOf(w, k, l) = PartOf(q, k, l)
    <3>1. \A i \in 1..(l - k) + 1 : i # 1 => k + (i - 1) \in 1..Len(q)
      BY <1>5
    <3> QED
      BY <2>4, <3>1 DEF PartOf
  <2> QED
    BY <1>2, <2>7, <2>8 DEF v, w
<1> QED
  BY <1>6, <1>7, <1>8, <1>9 DEF EntrypointCut, q, b, e, s

-----------------------------------------------------------------------------
(* The keys of a map, and cookies.                                         *)

LEMMA KeysAlways ==
  Path \in [1..Len(Path) -> Chars] /\ Name \in [1..Len(Name) -> Chars] => KeysFold
<1> DEFINE a == Path
           b == Name
<1> SUFFICES ASSUME a \in [1..Len(a) -> Chars], b \in [1..Len(b) -> Chars], Len(a) = Len(b)
             PROVE  sg__toasciilower(a) = sg__toasciilower(b) <=>
                      \A i \in DOMAIN a : a[i] = b[i] \/ {a[i], b[i]} = {"a", "A"}
  BY DEF KeysFold
<1> HIDE DEF a, b
<1>1. \A x, y \in Chars : tolower(x) = tolower(y) <=> x = y \/ {x, y} = {"a", "A"}
  BY DEF tolower
<1>2. /\ sg__toasciilower(a) = [i \in 1..Len(a) |-> tolower(a[i])]
      /\ sg__toasciilower(b) = [i \in 1..Len(a) |-> tolower(b[i])]
      /\ DOMAIN a = 1..Len(a) /\ \A i \in 1..Len(a) : a[i] \in Chars /\ b[i] \in Chars
  BY DEF sg__toasciilower
<1>3. sg__toasciilower(a) = sg__toasciilower(b) <=> \A i \in 1..Len(a) : tolower(a[i]) = tolower(b[i])
  BY <1>2
<1> QED
  BY <1>1, <1>2, <1>3

LEMMA CookiesAlways == Path \in Seq(Chars) /\ Name \in Seq(Chars) => CookieParts
<1> DEFINE a == Path
           b == Name
           h == CookieHeader(a, b)
<1> SUFFICES ASSUME a \in Seq(Chars), b \in Seq(Chars), sg__is_cookie_name(a), sg__is_cookie_val(b)
             PROVE  /\ \A i \in DOMAIN h : h[i] # "nl"
                    /\ \A i \in DOMAIN h : h[i] = "=" /\ (\A j \in 1..i - 1 : h[j] # "=") => Cut(h, i - 1) = a
  BY DEF CookieParts
<1> HIDE DEF a, b
<1> DEFINE n == Len(a)
           v == a \o <<"=">>
<1>1. PICK m \in Seq(Chars) : m = <<"=">> /\ Len(m) = 1 /\ m[1] = "="
  <2>1. <<"=">> \in Seq(Chars)
    BY DEF Chars
  <2>2. Len(<<"=">>) = 1 /\ <<"=">>[1] = "="
    OBVIOUS
  <2> QED
    BY <2>1, <2>2
<1>2. /\ a \o m \in Seq(Chars) /\ Len(a \o m) = Len(a) + Len(m) /\ Len(a) \in Nat
      /\ \A i \in 1..Len(a) : (a \o m)[i] = a[i]
      /\ \A i \in 1..Len(m) : (a \o m)[Len(a) + i] = m[i]
  BY CatFacts
<1>3. /\ v \in Seq(Chars) /\ Len(v) = n + 1 /\ n \in Nat /\ v[n + 1] = "="
      /\ \A i \in 1..n : v[i] = a[i]
  BY <1>1, <1>2
<1>4. Cut(v, n) = a
  <2>1. (\A k \in 0..Len(a) : Cut(a \o m, k) = Cut(a, k)) /\ Cut(a, Len(a)) = a
    BY TakenApart
  <2>2. Len(a) \in 0..Len(a) /\ a \o m = v
    BY <1>1, <1>2
  <2> QED
    BY <2>1, <2>2
<1>5. PICK x \in Seq(Chars) : x = v
  BY <1>3
<1>6. /\ x \o b \in Seq(Chars) /\ Len(x \o b) = Len(x) + Len(b) /\ Len(b) \in Nat
      /\ \A i \in 1..Len(x) : (x \o b)[i] = x[i]
      /\ \A i \in 1..Len(b) : (x \o b)[Len(x) + i] = b[i]
  BY CatFacts
<1>7. Cut(x \o b, n) = a
  <2>1. n \in 0..Len(x)
    BY <1>3, <1>5
  <2>2. \A k \in 0..Len(x) : Cut(x \o b, k) = Cut(x, k)
    BY TakenApart
  <2> QED
    BY <1>4, <1>5, <2>1, <2>2
<1>8. h = x \o b
  BY <1>5 DEF CookieHeader
<1> HIDE DEF n, v, h
<1>9. /\ h \in Seq(Chars) /\ Len(h) = (n + 1) + Len(b) /\ h[n + 1] = "=" /\ Len(b) \in Nat /\ n \in Nat
      /\ \A i \in 1..n : h[i] = a[i]
      /\ \A i \in 1..Len(b) : h[(n + 1) + i] = b[i]
      /\ DOMAIN h = 1..Len(h)
  <2>1. n + 1 \in 1..Len(x) /\ \A i \in 1..n : i \in 1..Len(x)
    BY <1>3, <1>5
  <2>2. h \in Seq(Chars) /\ Len(h) = (n + 1) + Len(b)
    BY <1>3, <1>5, <1>6, <1>8
  <2>3. h[n + 1] = "=" /\ \A i \in 1..n : h[i] = a[i]
    BY <1>3, <1>5, <1>6, <1>8, <2>1
  <2>4. \A i \in 1..Len(b) : h[(n + 1) + i] = b[i]
    BY <1>3, <1>5, <1>6, <1>8
  <2> QED
    BY <1>3, <1>6, <2>2, <2>3, <2>4
<1>10. \A i \in 1..n : a[i] \in {"a", "A"}
  BY DEF sg__is_cookie_name, CookieNameChars, n
<1>11. \A i \in 1..Len(b) : b[i] # "nl"
  BY DEF sg__is_cookie_val
<1>12. ASSUME NEW i \in DOMAIN h PROVE h[i] # "nl"
  <2>1. i \in 1..n \/ i = n + 1 \/ (i - (n + 1) \in 1..Len(b) /\ (n + 1) + (i - (n + 1)) = i)
    BY <1>9
  <2> QED
    BY ZenonT(30), <1>9, <1>10, <1>11, <2>1
<1>13. ASSUME NEW i \in DOMAIN h, h[i] = "=", \A j \in 1..i - 1 : h[j] # "=" PROVE Cut(h, i - 1) = a
  <2>1. i \in 1..n \/ i = n + 1 \/ n + 1 \in 1..i - 1
    <3>1. n \in Nat /\ i \in Nat /\ i >= 1
      BY <1>9
    <3> QED
      BY <3>1
  <2>2. i \notin 1..n
    BY <1>9, <1>10, <1>13
  <2>3. i = n + 1
    BY <1>9, <1>13, <2>1, <2>2
  <2>4. i - 1 = n
    BY <1>9, <2>3
  <2> QED
    BY <1>7, <1>8, <2>4
<1> QED
  BY <1>12, <1>13

-----------------------------------------------------------------------------
(* The texts in buffers: a text ends at its first nul.                     *)
BufferChars == Chars \cup {Nul, "?", ":", "f"}

LEMMA TextEnds ==
  ASSUME NEW c \in Seq(BufferChars), NEW t \in Seq(Chars), Len(t) < Len(c), c[Len(t) + 1] = Nul,
         \A i \in 1..Len(t) : c[i] = t[i]
  PROVE  TextIn(c) = t
<1> DEFINE n == Len(t)
           ends(k) == c[k] = Nul /\ \A j \in 1..k - 1 : c[j] # Nul
           end == CHOOSE k \in DOMAIN c : ends(k)
<1>1. /\ n \in Nat /\ Len(c) \in Nat /\ n + 1 \in 1..Len(c) /\ DOMAIN c = 1..Len(c) /\ (n + 1) - 1 = n
      /\ n \in 0..Len(c)
  OBVIOUS
<1>2. \A i \in 1..n : c[i] # Nul
  <2>1. \A x \in Chars : x # Nul
    BY DEF Chars, Nul
  <2>2. \A i \in 1..n : t[i] \in Chars
    OBVIOUS
  <2> QED
    BY <2>1, <2>2
<1> HIDE DEF n
<1>3. n + 1 \in DOMAIN c /\ ends(n + 1)
  BY <1>1, <1>2 DEF n
<1>4. ASSUME NEW k \in DOMAIN c, ends(k) PROVE k = n + 1
  <2>1. k \in 1..n \/ k = n + 1 \/ n + 1 \in 1..k - 1
    BY <1>1
  <2>2. k \notin 1..n
    BY <1>2, <1>4
  <2>3. n + 1 \notin 1..k - 1
    BY <1>3, <1>4
  <2> QED
    BY <2>1, <2>2, <2>3
<1>5. TextIn(c) = SubSeq(c, 1, end - 1)
  BY DEF TextIn
<1> HIDE DEF ends
<1>6. end = n + 1
  BY <1>3, <1>4
<1> HIDE DEF end
<1>7. TextIn(c) = SubSeq(c, 1, n)
  BY <1>1, <1>5, <1>6
<1>8. Cut(c, n) = SubSeq(c, 1, n) /\ Cut(c, n) \in Seq(BufferChars) /\ Len(Cut(c, n)) = n /\ \A i \in 1..n : Cut(c, n)[i] = c[i]
  BY <1>1, CutFacts
<1>9. t \in Seq(BufferChars) /\ Len(t) = n /\ \A i \in 1..n : c[i] = t[i]
  BY DEF BufferChars, n
<1>10. Cut(c, n) = t
  BY <1>8, <1>9, SameText
<1> QED
  BY <1>7, <1>8, <1>10

LEMMA ErrorsAlways == Path \in Seq(Chars) /\ Len(Path) \in 0..MaxPath => ErrorText
<1> DEFINE a == Path
<1> SUFFICES ASSUME a \in Seq(Chars), NEW errlen \in 1..MaxPath + 2, NEW got \in strerror_r(a, errlen - 1)
             PROVE  LET cells == sg_strerror(got, errlen)
                        t == TextIn(cells)
                    IN  /\ \E k \in DOMAIN cells : cells[k] = Nul
                        /\ Prefix(t, a) /\ (Len(t) = Len(a) \/ Len(t) + 2 >= errlen)
  BY DEF ErrorText
<1> HIDE DEF a
<1> DEFINE cell(k) == IF k = errlen THEN Nul
                      ELSE IF k <= Len(got) THEN got[k] ELSE IF k = Len(got) + 1 THEN Nul ELSE "?"
           cells == sg_strerror(got, errlen)
<1>1. errlen \in Nat /\ errlen >= 1 /\ Len(a) \in Nat
  BY UtilsAssumption
<1>2. /\ got \in Seq(Chars) /\ Len(got) \in 0..Len(a) /\ \A i \in 1..Len(got) : got[i] = a[i]
      /\ Len(got) = Len(a) \/ Len(got) = errlen - 2
  <2>1. CASE got = a
    BY <1>1, <2>1
  <2>2. CASE got # a
    <3>1. errlen - 1 > 0 /\ got = Cut(a, (errlen - 1) - 1)
      BY <2>2 DEF strerror_r
    <3> DEFINE n == errlen - 2
    <3>2. n \in Nat /\ (errlen - 1) - 1 = n
      BY <1>1, <3>1
    <3> HIDE DEF n
    <3>3. CASE n <= Len(a)
      <4>1. n \in 0..Len(a)
        BY <1>1, <3>2, <3>3
      <4>2. Cut(a, n) \in Seq(Chars) /\ Len(Cut(a, n)) = n /\ \A i \in 1..n : Cut(a, n)[i] = a[i]
        BY <4>1, CutFacts
      <4> QED
        BY <3>1, <3>2, <4>1, <4>2 DEF n
    <3>4. CASE ~(n <= Len(a))
      <4>1. Cut(a, n) = Cut(a, Len(a))
        BY <1>1, <3>2, <3>4 DEF Cut
      <4>2. Cut(a, n) = a
        BY <4>1, TakenApart
      <4> QED
        BY <2>2, <3>1, <3>2, <4>2
    <3> QED
      BY <3>3, <3>4
  <2> QED
    BY <2>1, <2>2
<1>3. cells = [k \in 1..errlen |-> cell(k)]
  BY DEF sg_strerror
<1>4. \A k \in 1..errlen : cell(k) \in BufferChars
  <2> SUFFICES ASSUME NEW k \in 1..errlen PROVE cell(k) \in BufferChars
    OBVIOUS
  <2>1. k <= Len(got) => got[k] \in Chars
    BY <1>1, <1>2
  <2> QED
    BY <2>1 DEF BufferChars
<1> HIDE DEF cell, cells
<1>5. cells \in Seq(BufferChars) /\ Len(cells) = errlen /\ DOMAIN cells = 1..errlen /\ \A k \in 1..errlen : cells[k] = cell(k)
  BY <1>1, <1>3, <1>4
<1>6. cells[errlen] = Nul /\ errlen \in DOMAIN cells
  BY <1>1, <1>5 DEF cell
<1> DEFINE m == IF Len(got) < errlen THEN Len(got) ELSE errlen - 1
           t == Cut(a, m)
<1>7. /\ m \in 0..Len(a) /\ m < errlen /\ m + 1 \in 1..errlen /\ m \in Nat
      /\ \A i \in 1..m : i \in 1..errlen /\ i # errlen /\ i <= Len(got) /\ i \in 1..Len(got)
      /\ m + 1 = errlen \/ m + 1 = Len(got) + 1
      /\ m = Len(a) \/ m + 2 >= errlen
  <2> DEFINE l == Len(got)
             n == Len(a)
  <2>1. l \in Nat /\ n \in Nat /\ l <= n /\ (l = n \/ l = errlen - 2)
    BY <1>1, <1>2
  <2>2. m = IF l < errlen THEN l ELSE errlen - 1
    OBVIOUS
  <2> HIDE DEF l, n, m
  <2>3. /\ m \in 0..n /\ m < errlen /\ m + 1 \in 1..errlen /\ m \in Nat
        /\ \A i \in 1..m : i \in 1..errlen /\ i # errlen /\ i <= l /\ i \in 1..l
        /\ m + 1 = errlen \/ m + 1 = l + 1
        /\ m = n \/ m + 2 >= errlen
    BY <1>1, <2>1, <2>2
  <2> QED
    BY <2>3 DEF l, n
<1> HIDE DEF m
<1>8. t \in Seq(Chars) /\ Len(t) = m /\ \A i \in 1..m : t[i] = a[i]
  BY <1>7, CutFacts
<1> HIDE DEF t
<1>9. cells[Len(t) + 1] = Nul
  <2>1. Nul = cell(m + 1)
    BY <1>1, <1>2, <1>7 DEF cell
  <2> QED
    BY <1>5, <1>7, <1>8, <2>1
<1>10. \A i \in 1..Len(t) : cells[i] = t[i]
  <2>1. \A i \in 1..m : cell(i) = got[i]
    BY <1>7 DEF cell
  <2> QED
    BY <1>2, <1>5, <1>7, <1>8, <2>1
<1>11. TextIn(cells) = t
  <2>1. Len(t) < Len(cells)
    BY <1>5, <1>7, <1>8
  <2> QED
    BY <1>5, <1>8, <1>9, <1>10, <2>1, TextEnds
<1>12. Prefix(t, a) /\ (Len(t) = Len(a) \/ Len(t) + 2 >= errlen)
  <2>1. m <= Len(a)
    BY <1>1, <1>7
  <2> QED
    BY <1>7, <1>8, <2>1 DEF Prefix, t
<1> QED
  BY <1>6, <1>11, <1>12 DEF cells

LEMMA IpAlways == Path \in Seq(Chars) => IpTold
<1> DEFINE a == Path
<1> SUFFICES ASSUME a \in Seq(Chars), NEW mapped \in BOOLEAN, NEW size \in 0..MaxPath + 4,
                    sg_ip(a, mapped, size) # << >>
             PROVE  TextIn(sg_ip(a, mapped, size)) = a
  BY DEF IpTold
<1> HIDE DEF a
<1> DEFINE full == IF mapped THEN V4Mapped \o a ELSE a
           b == inet_ntop(full, size)
<1>1. b # << >> /\ size \in Nat
  BY UtilsAssumption DEF sg_ip
<1>2. b = Append(full, Nul) /\ Len(full) < size
  BY <1>1 DEF inet_ntop
<1>3. a \in Seq(BufferChars) /\ Len(a) \in Nat /\ Nul \in BufferChars
  BY DEF BufferChars
<1>4. CASE ~mapped
  <2>1. sg_ip(a, mapped, size) = Append(a, Nul)
    BY <1>2, <1>4 DEF sg_ip
  <2>2. /\ Append(a, Nul) \in Seq(BufferChars) /\ Len(Append(a, Nul)) = Len(a) + 1
        /\ Append(a, Nul)[Len(a) + 1] = Nul /\ \A i \in 1..Len(a) : Append(a, Nul)[i] = a[i]
    BY <1>3
  <2>3. TextIn(Append(a, Nul)) = a
    <3>1. Len(a) < Len(Append(a, Nul))
      BY <1>3, <2>2
    <3> QED
      BY <2>2, <3>1, TextEnds
  <2> QED
    BY <2>1, <2>3
<1>5. CASE mapped
  <2>1. PICK p \in Seq(BufferChars) : p = V4Mapped /\ Len(p) = 3
    <3>1. V4Mapped \in Seq(BufferChars)
      BY DEF V4Mapped, BufferChars
    <3>2. Len(V4Mapped) = 3
      BY DEF V4Mapped
    <3> QED
      BY <3>1, <3>2
  <2>2. PICK w \in Seq(BufferChars) : w = a
    BY <1>3
  <2>3. /\ p \o w \in Seq(BufferChars) /\ Len(p \o w) = Len(p) + Len(w)
        /\ \A i \in 1..Len(w) : (p \o w)[Len(p) + i] = w[i]
    BY CatFacts
  <2>4. PICK f \in Seq(BufferChars) : f = full
    BY <1>5, <2>1, <2>2, <2>3
  <2>5. Len(f) = 3 + Len(a) /\ \A i \in 1..Len(a) : f[3 + i] = a[i]
    BY <1>5, <2>1, <2>2, <2>3, <2>4
  <2>6. /\ b \in Seq(BufferChars) /\ Len(b) = 4 + Len(a) /\ b[4 + Len(a)] = Nul
        /\ \A i \in 1..Len(a) : b[3 + i] = a[i]
    <3> DEFINE c == Append(f, Nul)
    <3>1. /\ c \in Seq(BufferChars) /\ Len(c) = Len(f) + 1 /\ c[Len(f) + 1] = Nul
          /\ \A i \in 1..Len(f) : c[i] = f[i]
      BY <1>3
    <3> HIDE DEF c
    <3>2. Len(f) + 1 = 4 + Len(a) /\ \A i \in 1..Len(a) : 3 + i \in 1..Len(f)
      BY <1>3, <2>5
    <3>3. b = c
      BY <1>2, <2>4 DEF c
    <3> HIDE DEF b
    <3> QED
      BY <2>5, <3>1, <3>2, <3>3
  <2> DEFINE cell(k) == IF k <= Len(a) + 1 THEN b[k + 3] ELSE b[k]
             c == [k \in DOMAIN b |-> cell(k)]
  <2>7. sg_ip(a, mapped, size) = c
    <3>1. ~(size <= 3)
      BY <1>1, <1>2, <1>3, <2>4, <2>5
    <3>2. Len(V4Mapped) = 3
      BY <2>1
    <3> HIDE DEF full
    <3>3. sg_ip(a, mapped, size) = [k \in DOMAIN b |-> IF k <= MovedBytes(a) THEN b[k + 3] ELSE b[k]]
      BY <1>1, <1>5, <3>1, <3>2 DEF sg_ip, full
    <3> QED
      BY <3>3 DEF MovedBytes
  <2> HIDE DEF b
  <2>8. \A k \in 1..4 + Len(a) : cell(k) \in BufferChars
    <3> SUFFICES ASSUME NEW k \in 1..4 + Len(a) PROVE cell(k) \in BufferChars
      OBVIOUS
    <3>1. k <= Len(a) + 1 => k + 3 \in 1..4 + Len(a)
      BY <1>3
    <3>2. \A i \in 1..4 + Len(a) : b[i] \in BufferChars
      BY <2>6
    <3> QED
      BY <3>1, <3>2
  <2>9. DOMAIN b = 1..4 + Len(a)
    BY <2>6
  <2>10. cell(Len(a) + 1) = Nul /\ \A i \in 1..Len(a) : cell(i) = a[i]
    <3>1. (Len(a) + 1) + 3 = 4 + Len(a) /\ \A i \in 1..Len(a) : i <= Len(a) + 1 /\ i + 3 = 3 + i
      BY <1>3
    <3> QED
      BY <1>3, <2>6, <3>1
  <2> HIDE DEF cell
  <2>11. /\ c \in Seq(BufferChars) /\ Len(c) = 4 + Len(a)
         /\ \A k \in 1..4 + Len(a) : c[k] = cell(k)
    <3> DEFINE n == 4 + Len(a)
    <3>1. n \in Nat /\ c = [k \in 1..n |-> cell(k)] /\ \A k \in 1..n : cell(k) \in BufferChars
      BY <1>3, <2>8, <2>9
    <3> HIDE DEF n, c
    <3>2. c \in Seq(BufferChars) /\ Len(c) = n /\ \A k \in 1..n : c[k] = cell(k)
      BY <3>1
    <3> QED
      BY <3>2 DEF n
  <2> HIDE DEF c
  <2>12. /\ Len(a) < Len(c) /\ c[Len(a) + 1] = Nul /\ \A i \in 1..Len(a) : c[i] = a[i]
    <3>1. Len(a) + 1 \in 1..4 + Len(a) /\ \A i \in 1..Len(a) : i \in 1..4 + Len(a)
      BY <1>3
    <3> QED
      BY <1>3, <2>10, <2>11, <3>1
  <2>13. TextIn(c) = a
    BY <2>11, <2>12, TextEnds
  <2> QED
    BY <2>7, <2>13
<1> QED
  BY <1>4, <1>5

UtilsTold == JoinedWhole /\ EntrypointCut /\ KeysFold /\ CookieParts /\ ErrorText /\ IpTold

(* The functions on texts do what they should, whatever the path, the name *)
(* and their lengths (sg_utils.c).                                         *)
LEMMA UtilsAlways == args \in Strings(MaxPath) \X Strings(MaxName) => UtilsTold
<1> SUFFICES ASSUME args \in Strings(MaxPath) \X Strings(MaxName) PROVE UtilsTold
  OBVIOUS
<1>1. Path \in Strings(MaxPath) /\ Name \in Strings(MaxName)
  BY DEF Path, Name
<1>2. /\ Path \in Seq(Chars) /\ Len(Path) \in 0..MaxPath /\ Path \in [1..Len(Path) -> Chars]
      /\ Name \in Seq(Chars) /\ Name \in [1..Len(Name) -> Chars]
  BY <1>1, UtilsAssumption, StringFacts
<1> QED
  BY <1>2, JoinedAlways, EntrypointAlways, KeysAlways, CookiesAlways, ErrorsAlways, IpAlways DEF UtilsTold

-----------------------------------------------------------------------------
(* Objects: a behaviour of the parts side by side is a behaviour of each.  *)

MatchMade == match \in MatchResults
ArgsGiven == args \in Strings(MaxPath) \X Strings(MaxName)

LEMMA EachBegins ==
  ASSUME Init
  PROVE  /\ EntryInit /\ StrMapInit /\ StrInit /\ RouterInit /\ MemInit /\ MsgInit /\ LifeInit
         /\ ZInit(Jobs) /\ MatchMade /\ ArgsGiven
<1>1. NoJob \in Jobs
  BY ZAssumption DEF NoJob, Jobs
<1>2. ZInit(Jobs)
  BY <1>1 DEF Init, ZInit
<1>3. MatchMade
  BY DEF Init, MatchMade, MatchResults
<1>4. ArgsGiven
  <2>1. << >> \in Strings(MaxPath) /\ << >> \in Strings(MaxName)
    BY EmptyString, UtilsAssumption
  <2> QED
    BY <2>1 DEF Init, ArgsGiven
<1> QED
  BY <1>2, <1>3, <1>4 DEF Init

LEMMA EachSteps ==
  ASSUME [Next]_vars
  PROVE  /\ [EntryNext]_entryVars /\ [StrMapNext]_strmapVars /\ [StrNext]_strVars
         /\ [RouterNext]_allRouterVars /\ [sg__zcompress]_zVars /\ [MemNext]_memVars
         /\ [MsgNext]_msgVars /\ [LifeNext]_lifeVars /\ UNCHANGED <<args, match>>
<1>1. CASE UNCHANGED vars
  BY <1>1 DEF vars, objectVars
<1>2. CASE Next
  BY <1>2 DEF Next, UseEntrypoints, UseStrMap, UseStr, UseRouter, UseDeflate, UseMemory, UseRequest, UseServer
<1> QED
  BY <1>1, <1>2

LEMMA EachIsUsed ==
  Spec => /\ EntrySpec /\ StrMapSpec /\ StrSpec /\ RouterSpec /\ ZSpec /\ MemSpec /\ MsgSpec /\ LifeSpec
          /\ []MatchMade /\ []ArgsGiven
<1>1. [Next]_vars => [EntryNext]_entryVars
  BY EachSteps
<1>2. [Next]_vars => [StrMapNext]_strmapVars
  BY EachSteps
<1>3. [Next]_vars => [StrNext]_strVars
  BY EachSteps
<1>4. [Next]_vars => [RouterNext]_allRouterVars
  BY EachSteps
<1>5. [Next]_vars => [sg__zcompress]_zVars
  BY EachSteps
<1>6. [Next]_vars => [MemNext]_memVars
  BY EachSteps
<1>7. [Next]_vars => [MsgNext]_msgVars
  BY EachSteps
<1>8. [Next]_vars => [LifeNext]_lifeVars
  BY EachSteps
<1>9. MatchMade /\ ArgsGiven /\ [Next]_vars => MatchMade' /\ ArgsGiven'
  BY EachSteps DEF MatchMade, ArgsGiven
<1>10. Init => /\ EntryInit /\ StrMapInit /\ StrInit /\ RouterInit /\ MemInit /\ MsgInit /\ LifeInit
               /\ ZInit(Jobs) /\ MatchMade /\ ArgsGiven
  BY EachBegins
<1>11. Spec => EntrySpec /\ StrMapSpec /\ StrSpec /\ RouterSpec
  BY <1>1, <1>2, <1>3, <1>4, <1>10, PTL DEF Spec, EntrySpec, StrMapSpec, StrSpec, RouterSpec
<1>12. Spec => ZSpec /\ MemSpec /\ MsgSpec /\ LifeSpec
  BY <1>5, <1>6, <1>7, <1>8, <1>10, PTL DEF Spec, ZSpec, MemSpec, MsgSpec, LifeSpec
<1>13. Spec => []MatchMade /\ []ArgsGiven
  BY <1>9, <1>10, PTL DEF Spec
<1> QED
  BY <1>11, <1>12, <1>13, PTL

(* Whatever routes there are and however many threads dispatch, the first  *)
(* route that matches serves a request, and its callback sees the match    *)
(* made for it unless a dispatch over the same route came between          *)
(* (sg_router_dispatch2).                                                  *)
THEOREM DispatchedAlways == Spec => []Dispatched
<1>1. FirstMatchServed /\ OwnMatch => Dispatched
  BY DEF Dispatched
<1> QED
  BY <1>1, EachIsUsed, FirstRouteServed, PTL

(* The routes stay in the order they were added, own their parts, and what *)
(* a match tells of its variables is told by its segments (sg_routes.c).   *)
THEOREM RoutesAlwaysKept == Spec => []RoutesKept
<1>1. /\ RouterTypeOK /\ TriedInOrder /\ PartsOwned /\ PatternsOnce /\ PatternTold /\ TouchesLiveRoutes
      /\ VarsAreSegments
      => RoutesKept
  BY DEF RoutesKept
<1>2. MatchMade => VarsAreSegments
  BY VariablesAreSegments DEF MatchMade
<1> QED
  BY <1>1, <1>2, EachIsUsed, RoutesInOrder, PTL

(* The parts side by side keep what each keeps: blocks go back to the      *)
(* allocator they came from but for those the code frees by another, and a *)
(* stream that ended is the whole source.                                  *)
THEOREM PartsKept == Spec => [](BlocksKept /\ CompressedWhole)
  BY EachIsUsed, BlocksAlwaysKept, WholeOrNoRoom, PTL

(* A string holds all that was written to it, and the functions on texts   *)
(* lose nothing and end inside their buffers, whatever the texts are       *)
(* (sg_str.c, sg_utils.c).                                                 *)
THEOREM TextsAlwaysKept == Spec => []TextsKept
<1>1. StrHolds /\ UtilsTold => TextsKept
  BY DEF TextsKept, UtilsTold
<1>2. ArgsGiven => UtilsTold
  BY UtilsAlways DEF ArgsGiven
<1> QED
  BY <1>1, <1>2, EachIsUsed, StringHoldsText, PTL
=============================================================================
