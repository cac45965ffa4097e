---------------------------- MODULE HttpResStream ----------------------------
(***************************************************************************)
(* The body of a compressed response: the readers sg__httpres_zread_cb (a  *)
(* stream of the application) and sg__httpres_gzread_cb (a file) of        *)
(* sg_httpres.c, which libmicrohttpd calls with a buffer until they say    *)
(* that the stream has ended.  Each call either fills the buffer from the  *)
(* source through deflate, or, when deflate gave more than fits, writes    *)
(* the next part of what it gave.                                          *)
(*                                                                         *)
(* Bytes are their positions in the source; deflate passes them on late    *)
(* and in any portions, and ends its output with a final block.            *)
(***************************************************************************)
EXTENDS Integers, SequencesExt

CONSTANTS
  SrcLen,   \* bound on the bytes of the source
  Limits,   \* the values of "size" given to sg_httpres_zsend..., 0 for none
  Block     \* bound on the buffer of one call (SG__BLOCK_SIZE)

ASSUME StreamAssumption == SrcLen \in Nat /\ Block \in Nat \ {0} /\ Limits \subseteq Nat

VARIABLES
  kind,      \* "z" for a deflated stream, "gz" for a gzipped file
  sizeIn,    \* holder->size_in
  status,    \* holder->status
  read,      \* bytes taken from the source
  offsetIn,  \* holder->offset_in
  crc,       \* the bytes that are in holder->crc
  held,      \* what deflate has taken and not given yet
  final,     \* deflate has ended its output
  bufOut,    \* holder->buf_out, when it outlives a call; size_out is its length
  offsetOut, \* holder->offset_out
  sent,      \* what libmicrohttpd has been given
  trailer,   \* the checksum and length at the end of a gzipped file
  ended      \* how the reader ended the stream: "eos", "error" (of its own use of
             \* deflate) or "failed" (an error of the source, or no memory)

holder == <<status, offsetIn, crc, held, final, bufOut, offsetOut>>
vars == <<kind, sizeIn, read, holder, sent, trailer, ended>>

Header == 0
FinalBlock == SrcLen + 1
Trailer == SrcLen + 2
Unit == 0..SrcLen + 2
Sizes == 1..Block

Least(i, j) == IF i < j THEN i ELSE j

TypeOK ==
  /\ kind \in {"z", "gz"} /\ sizeIn \in Limits
  /\ status \in {"none", "processing", "writing", "finishing", "finished"}
  /\ read \in 0..SrcLen /\ offsetIn \in 0..SrcLen /\ crc \in 0..SrcLen
  /\ held \in Seq(Unit) /\ bufOut \in Seq(Unit) /\ sent \in Seq(Unit)
  /\ final \in BOOLEAN
  /\ offsetOut \in Nat /\ (status = "writing" => offsetOut < Len(bufOut))
  /\ trailer \in [crc : Nat, length : Nat]
  /\ ended \in {"no", "eos", "error", "failed"}

Init ==
  /\ kind \in {"z", "gz"} /\ sizeIn \in Limits
  /\ status = IF kind = "gz" THEN "none" ELSE "processing"
  /\ read = 0 /\ offsetIn = 0 /\ crc = 0
  /\ held = << >> /\ final = FALSE
  /\ bufOut = << >> /\ offsetOut = 0
  /\ sent = << >> /\ trailer = [crc |-> 0, length |-> 0] /\ ended = "no"

-----------------------------------------------------------------------------
Open == ended = "no"

(* The header of a gzipped file.                                           *)
ReadHeader ==
  /\ Open /\ status = "none"
  /\ status' = "processing" /\ sent' = Append(sent, Header)
  /\ UNCHANGED <<kind, sizeIn, read, offsetIn, crc, held, final, bufOut, offsetOut, trailer, ended>>

(* Its checksum and length, once deflate has ended.                        *)
ReadTrailer ==
  /\ Open /\ status = "finishing"
  /\ status' = "finished" /\ sent' = Append(sent, Trailer)
  /\ trailer' = [crc |-> crc, length |-> offsetIn]
  /\ UNCHANGED <<kind, sizeIn, read, offsetIn, crc, held, final, bufOut, offsetOut, ended>>

ReadEnd ==
  /\ Open /\ status = "finished"
  /\ ended' = "eos"
  /\ UNCHANGED <<kind, sizeIn, read, holder, sent, trailer>>

(* The source has an error, or there is no memory for what deflate gives.  *)
ReadFails ==
  /\ Open /\ status = "processing"
  /\ ended' = "failed"
  /\ UNCHANGED <<kind, sizeIn, read, holder, sent, trailer>>

(* What sg__zdeflate gave is copied to a buffer of n bytes and freed, or   *)
(* kept when it does not fit, and the state "next" is forgotten.           *)
Emit(n, out, next) ==
  IF Len(out) > n
  THEN /\ status' = "writing" /\ bufOut' = out /\ offsetOut' = 0
       /\ UNCHANGED sent
  ELSE /\ status' = next /\ sent' = sent \o out
       /\ UNCHANGED <<bufOut, offsetOut>>

(* sg__zdeflate with Z_FINISH and no input.                                *)
Finish(n) ==
  /\ Emit(n, IF final THEN held ELSE held \o <<FinalBlock>>,
          IF kind = "gz" THEN "finishing" ELSE "finished")
  /\ held' = << >> /\ final' = TRUE
  /\ UNCHANGED <<offsetIn, crc, trailer, ended>>

(* Fault: a block that is shorter than the buffer is taken for the last.   *)
Deflate_shortIsLast(n, k) ==
  LET all == held \o [i \in 1..k |-> read + i] IN
  /\ offsetIn' = offsetIn + k
  /\ crc' = IF kind = "gz" THEN crc + k ELSE crc
  /\ IF final
     THEN ended' = "error" /\ UNCHANGED <<status, sent, held, final, bufOut, offsetOut>>
     ELSE /\ UNCHANGED ended
          /\ Emit(n, IF k < n THEN Append(all, FinalBlock) ELSE all, "processing")
          /\ held' = << >> /\ final' = (k < n)
  /\ UNCHANGED trailer

(* sg__zdeflate with Z_NO_FLUSH and the next k bytes; an error after the   *)
(* final block.                                                            *)
Deflate(n, k) ==
  LET input == [i \in 1..k |-> read + i]
      all == held \o input IN
  /\ offsetIn' = offsetIn + k
  /\ crc' = IF kind = "gz" THEN crc + k ELSE crc
  /\ IF final
     THEN ended' = "error" /\ UNCHANGED <<status, sent, held, bufOut, offsetOut>>
     ELSE /\ UNCHANGED ended
          /\ \E g \in 0..Len(all) :
               /\ Emit(n, SubSeq(all, 1, g), "processing")
               /\ held' = SubSeq(all, g + 1, Len(all))
  /\ UNCHANGED <<final, trailer>>

(* The source gives up to n bytes; a block that crosses the limit ends the *)
(* stream and is dropped.                                                  *)
ReadData(n) ==
  /\ Open /\ status = "processing"
  /\ \E k \in 1..n :
       /\ read + k <= SrcLen
       /\ read' = read + k
       /\ IF sizeIn > 0 /\ offsetIn + k > sizeIn THEN Finish(n) ELSE Deflate(n, k)
  /\ UNCHANGED <<kind, sizeIn>>

(* Fault: at the end of the source nothing is flushed.                     *)
ReadEof_unflushed(n) ==
  /\ Open /\ status = "processing" /\ read = SrcLen
  /\ status' = IF kind = "gz" THEN "finishing" ELSE "finished"
  /\ UNCHANGED <<kind, sizeIn, read, offsetIn, crc, held, final, bufOut, offsetOut, sent,
                 trailer, ended>>

(* Fault: the state is not changed at the end of the source.               *)
ReadEof_unended(n) ==
  /\ Open /\ status = "processing" /\ read = SrcLen
  /\ Emit(n, IF final THEN held ELSE held \o <<FinalBlock>>, "processing")
  /\ held' = << >> /\ final' = TRUE
  /\ UNCHANGED <<kind, sizeIn, read, offsetIn, crc, trailer, ended>>

(* The source has ended; asked again it says so again.                     *)
ReadEof(n) ==
  /\ Open /\ status = "processing" /\ read = SrcLen
  /\ Finish(n)
  /\ UNCHANGED <<kind, sizeIn, read>>

(* Fault: the offset is not taken back before the rest is copied.          *)
WriteMore_noRewind(n) ==
  LET upto == offsetOut + n IN
  /\ Open /\ status = "writing"
  /\ offsetOut' = upto
  /\ sent' = sent \o SubSeq(bufOut, upto + 1, Len(bufOut))
  /\ status' = IF upto >= Len(bufOut) THEN "processing" ELSE "writing"
  /\ bufOut' = IF upto >= Len(bufOut) THEN << >> ELSE bufOut
  /\ UNCHANGED <<kind, sizeIn, read, offsetIn, crc, held, final, trailer, ended>>

(* The next n bytes of what did not fit, or what is left of it, which is   *)
(* then freed.                                                             *)
WriteMore(n) ==
  LET upto == offsetOut + n IN
  /\ Open /\ status = "writing"
  /\ offsetOut' = IF upto > Len(bufOut) THEN offsetOut ELSE upto
  /\ sent' = sent \o SubSeq(bufOut, offsetOut + 1, Least(upto, Len(bufOut)))
  /\ status' = IF upto >= Len(bufOut) THEN "processing" ELSE "writing"
  /\ bufOut' = IF upto >= Len(bufOut) THEN << >> ELSE bufOut
  /\ UNCHANGED <<kind, sizeIn, read, offsetIn, crc, held, final, trailer, ended>>

Reader(n) == ReadData(n) \/ ReadEof(n) \/ WriteMore(n)

Next == ReadHeader \/ ReadTrailer \/ ReadEnd \/ ReadFails \/ \E n \in Sizes : Reader(n)

Spec == Init /\ [][Next]_vars

(* libmicrohttpd calls the reader as long as the client takes the body, and *)
(* a call returns (an error of the source is possible but not certain).    *)
FairSpec ==
  Spec /\ WF_vars(ReadHeader \/ ReadTrailer \/ ReadEnd \/ \E n \in Sizes : Reader(n))

-----------------------------------------------------------------------------
(* The gzip or zlib stream of the first offset_in bytes of the source.     *)
Stream ==
  (IF kind = "gz" /\ status # "none" THEN <<Header>> ELSE << >>)
  \o [i \in 1..offsetIn |-> i]
  \o (IF final THEN <<FinalBlock>> ELSE << >>)
  \o (IF kind = "gz" /\ status = "finished" THEN <<Trailer>> ELSE << >>)

Unsent == IF status = "writing" THEN SubSeq(bufOut, offsetOut + 1, Len(bufOut)) ELSE << >>

(* Safety: what was sent, what waits in buf_out and what deflate holds are *)
(* together one stream, in order and without a gap, however blocks and     *)
(* buffers are cut.                                                        *)
InOrder == ended # "error" => sent \o Unsent \o held = Stream

(* Safety: the trailer is that of the bytes sent before it.                *)
TrailerFits ==
  kind = "gz" /\ status = "finished" =>
    LET bytes == Cardinality({i \in 1..Len(sent) : sent[i] \in 1..SrcLen})
    IN  trailer = [crc |-> bytes, length |-> bytes]

(* At least n bytes of the source went out, and deflate's end.              *)
Complete(n) == final /\ offsetIn >= n /\ held = << >> /\ Unsent = << >>

(* Safety: a stream without a size that ended well holds all of the source. *)
SentAll == ended = "eos" /\ sizeIn = 0 => Complete(SrcLen)

(* Safety: one with a size holds as much of it as "size" asks for          *)
(* (sagui.h, sg_httpres_zsendfile2).                                       *)
SentWhole == ended = "eos" /\ sizeIn > 0 => Complete(Least(sizeIn, SrcLen))

(* Safety: no more is sent than "size" asks for.                           *)
SentWithinSize == ended = "eos" /\ sizeIn > 0 => offsetIn <= sizeIn

(* Safety: without a size the only errors are those of the source: deflate *)
(* is never used again after its final block, although the reader goes     *)
(* back to the source when the final block did not fit the buffer.         *)
NoError == sizeIn = 0 => ended # "error"

(* Liveness: the stream ends.                                              *)
EventuallyEnds == <>(ended # "no")
=============================================================================
