------------------------------- MODULE Memory -------------------------------
(* Who allocates and who frees: the memory manager of sg_utils.c, which a  *)
(* program may replace, next to the C library, which strdup, utstring.h    *)
(* and libmicrohttpd use whatever the manager is.  A block is what it      *)
(* holds and the allocator that made it.  Each kind of object is there     *)
(* once: a string, a pair of a map, the authentication of a request, a     *)
(* compressed body and a stream that is compressed.                        *)
EXTENDS FiniteSets

VARIABLES
  mm,       \* the allocator of the manager
  blocks,   \* the blocks that are allocated
  crossed   \* what was freed or grown by another allocator than made it

memVars == <<mm, blocks, crossed>>

StrParts == {"str", "buffer", "cells"}
PairCopies == {"key", "name", "val"}
PairParts == {"pair"} \cup PairCopies
AuthStrings == {"usr", "pwd", "realm"}
AuthParts == {"auth"} \cup AuthStrings
StreamParts == {"holder", "buf_in", "stream"}
Allocators == {"C", "program"}

There(what) == \E b \in blocks : b.what = what
Block(what, by) == [what |-> what, by |-> by]

sg_malloc(what) == Block(what, mm)
sg_alloc(what) == sg_malloc(what)
malloc(what) == Block(what, "C")
strdup(what) == Block(what, "C")

(* A free is what is freed and the allocator that does it.                 *)
sg_free(whats) == {<<w, mm>> : w \in whats}
free(whats) == {<<w, "C">> : w \in whats}
Left(frees, bs) == {b \in bs : \A f \in frees : f[1] # b.what}
Crossing(frees, bs) == {b.what : b \in {b \in bs : \E f \in frees : f[1] = b.what /\ f[2] # b.by}}

-----------------------------------------------------------------------------
MemInit == mm = "C" /\ blocks = {} /\ crossed = {}

(* As sagui.h asks, when nothing is allocated.                             *)
sg_mm_set(a) ==
  /\ blocks = {}
  /\ mm' = a /\ UNCHANGED <<blocks, crossed>>

Allocate(new) == blocks' = blocks \cup new /\ UNCHANGED <<mm, crossed>>
FreeBlocks(frees, bs) ==
  /\ blocks' = Left(frees, bs) /\ crossed' = crossed \cup Crossing(frees, bs)
  /\ UNCHANGED mm

utstring_new == {malloc("buffer"), malloc("cells")}
(* Fault: the manager frees the cells.                                     *)
utstring_done_mm == sg_free({"cells"})
utstring_done == free({"cells"})
utstring_free == utstring_done \cup free({"buffer"})

sg_str_new == ~There("str") /\ Allocate({sg_alloc("str")} \cup utstring_new)
sg_str_free == There("str") /\ FreeBlocks(utstring_free \cup sg_free({"str"}), blocks)

sg__strmap_free == sg_free(PairParts)

(* The parts of a pair in the order they are made, until one cannot be;    *)
(* those before it are freed.                                              *)
Before(failed) ==
  CASE failed = "key" -> {} [] failed = "name" -> {"key"} [] failed = "val" -> {"key", "name"}
    [] failed = "none" -> PairCopies
sg__strmap_new(failed) ==
  /\ ~There("pair")
  /\ LET new == {sg_alloc("pair")} \cup {strdup(w) : w \in Before(failed)}
     IN  IF failed = "none" THEN Allocate(new) ELSE FreeBlocks(sg__strmap_free, blocks \cup new)
PairFree == There("pair") /\ FreeBlocks(sg__strmap_free, blocks)

(* sg__post_iter_cb grows the value of a field that comes in pieces.       *)
sg_realloc(what) == sg_free({what})
FieldGrow ==
  /\ There("val")
  /\ crossed' = crossed \cup Crossing(sg_realloc("val"), blocks)
  /\ blocks' = Left(sg_realloc("val"), blocks) \cup {sg_malloc("val")}
  /\ UNCHANGED mm

(* sg_httpres_zsendbinary2: libmicrohttpd frees the body it is given; an   *)
(* empty body is a copy.                                                   *)
ZBody(empty) == ~There("zbuf") /\ Allocate({IF empty THEN strdup("zbuf") ELSE sg_malloc("zbuf")})
ZBodySent == There("zbuf") /\ FreeBlocks(free({"zbuf"}), blocks)
ZBodyRefused == There("zbuf") /\ FreeBlocks(sg_free({"zbuf"}), blocks)

(* sg__httpauth_new: libmicrohttpd makes the name and the password, if the *)
(* client sent them; the realm is a copy, made once.                       *)
sg__httpauth_new(sent) ==
  /\ ~There("auth")
  /\ Allocate({sg_alloc("auth")} \cup IF sent THEN {malloc("usr"), malloc("pwd")} ELSE {})
SetRealm == There("auth") /\ ~There("realm") /\ Allocate({strdup("realm")})
sg__httpauth_free == There("auth") /\ FreeBlocks(sg_free(AuthParts), blocks)

(* sg_httpres_zsendstream2 and sg__httpres_zfree_cb: the state of deflate  *)
(* is allocated by the manager as well.                                    *)
sg__zalloc(what) == sg_alloc(what)
sg__zfree(whats) == sg_free(whats)
StreamFrees == sg__zfree({"stream"}) \cup sg_free({"buf_in", "holder"})
ZStreamMade(failed) ==
  {sg_alloc("holder")} \cup (IF failed = "stream" THEN {} ELSE {sg__zalloc("stream")})
    \cup (IF failed \in {"stream", "buf_in"} THEN {} ELSE {sg_malloc("buf_in")})
ZStream(failed) ==
  /\ ~There("holder")
  /\ IF failed = "none" THEN Allocate(ZStreamMade(failed))
     ELSE FreeBlocks(StreamFrees, blocks \cup ZStreamMade(failed))
ZStreamFree == There("holder") /\ FreeBlocks(StreamFrees, blocks)

MemNext ==
  \/ \E a \in Allocators : sg_mm_set(a)
  \/ sg_str_new \/ sg_str_free \/ PairFree \/ FieldGrow \/ ZBodySent \/ ZBodyRefused
  \/ \E f \in {"none"} \cup PairCopies : sg__strmap_new(f)
  \/ SetRealm \/ sg__httpauth_free \/ ZStreamFree
  \/ \E f \in {"none", "stream", "buf_in", "response"} : ZStream(f)
  \/ \E b \in BOOLEAN : ZBody(b) \/ sg__httpauth_new(b)

MemSpec == MemInit /\ [][MemNext]_memVars

-----------------------------------------------------------------------------
(* What one allocator made, another does not free, as long as the manager  *)
(* is that of the C library; with one of the program this is not true of   *)
(* the copies strdup makes, of the name and the password libmicrohttpd     *)
(* makes, nor of a compressed body, which libmicrohttpd frees              *)
(* (sg_strmap.c:37, 56; sg_httpauth.c:42, 50, 85; sg_httpres.c:425, 450;   *)
(* sg_httpuplds.c:118).                                                    *)
FreedAsMade ==
  /\ crossed \subseteq PairCopies \cup AuthStrings \cup {"zbuf"}
  /\ mm = "C" => \A b \in blocks : b.by = "C"

(* An object is there with all its parts or with none, also when one of    *)
(* them could not be made (sg_str.c:31, 42; sg_strmap.c:33, 53).           *)
BlocksWhole ==
  /\ \A w \in StrParts : There(w) <=> There("str")
  /\ \A w \in PairParts : There(w) <=> There("pair")
  /\ \A w \in StreamParts : There(w) <=> There("holder")
  /\ \A w \in AuthStrings : There(w) => There("auth")
=============================================================================
