----------------------------- MODULE ZCompress -----------------------------
(* sg__zcompress (sg_extra.c): a whole buffer is deflated into another, in *)
(* pieces no larger than what a counter of zlib holds.  Sizes are numbers, *)
(* the bytes themselves are left out.                                      *)
EXTENDS Naturals

CONSTANTS UIntMax,   \* the largest uInt
          MaxSource  \* bound on the size of the buffer

ASSUME ZAssumption == UIntMax \in Nat \ {0} /\ MaxSource \in Nat

VARIABLES
  job,    \* the sizes of the source and of the destination, and of the deflated source
  given,  \* srcLeft and destLeft: what zlib was not given yet
  zin,    \* stream.avail_in
  zout,   \* stream.avail_out
  total,  \* stream.total_in and stream.total_out
  zret    \* the last result of deflate

zVars == <<job, given, zin, zout, total, zret>>

Jobs == [size : 0..MaxSource, dest : 0..MaxSource + 2, deflated : 1..MaxSource + 2]
NoJob == [size |-> 0, dest |-> 0, deflated |-> 1]

ZInit(jobs) ==
  /\ job \in jobs
  /\ given = [src |-> job.size, dest |-> job.dest]
  /\ zin = 0 /\ zout = 0 /\ total = [in |-> 0, out |-> 0] /\ zret = "Z_OK"

Least(a, b) == IF a < b THEN a ELSE b

(* A piece is given when the one before is used up.                        *)
Refill(avail, left) ==
  LET n == IF avail = 0 THEN Least(left, UIntMax) ELSE 0
  IN  [avail |-> avail + n, left |-> left - n]

(* Fault: the stream is finished from the first piece on.                  *)
ZFlush_always(left) == "Z_FINISH"
ZFlush(left) == IF left > 0 THEN "Z_NO_FLUSH" ELSE "Z_FINISH"

(* deflate: it takes input and makes output until one of the buffers is    *)
(* used up; what it holds back comes at the end.  A stream that is         *)
(* finished takes no more input, and ends only if there is room left.      *)
Deflate(in, out, flush) ==
  IF out = 0 \/ (in = 0 /\ flush = "Z_NO_FLUSH")
  THEN zret' = "Z_BUF_ERROR" /\ zin' = in /\ zout' = out /\ UNCHANGED total
  ELSE \E c \in 0..in, o \in 0..out :
         /\ c = in \/ o = out
         /\ c > 0 \/ o > 0 \/ flush = "Z_FINISH"
         /\ total.out + o <= job.deflated
         /\ total' = [in |-> total.in + c, out |-> total.out + o]
         /\ zin' = in - c /\ zout' = out - o
         /\ LET whole == flush = "Z_FINISH" /\ c = in
                ended == whole /\ o < out
            IN  /\ ended => total'.out = job.deflated
                /\ ~whole => total'.out < job.deflated
                /\ zret' = IF ended THEN "Z_STREAM_END" ELSE "Z_OK"

(* One round of the loop.                                                  *)
sg__zcompress ==
  /\ zret = "Z_OK"
  /\ LET o == Refill(zout, given.dest)
         i == Refill(zin, given.src)
     IN  /\ Deflate(i.avail, o.avail, ZFlush(i.left))
         /\ given' = [src |-> i.left, dest |-> o.left]
  /\ UNCHANGED job

ZSpec == ZInit(Jobs) /\ [][sg__zcompress]_zVars

-----------------------------------------------------------------------------
(* A stream that ended is the whole source, inside the destination, and    *)
(* one that did not end had no room, whatever the sizes and the pieces     *)
(* (sg_extra.c:86-98); the plain bytes are sent then.                      *)
CompressedWhole ==
  /\ total.in + zin + given.src = job.size /\ total.out + zout + given.dest = job.dest
  /\ zret = "Z_STREAM_END" => total = [in |-> job.size, out |-> job.deflated]
  /\ zret = "Z_BUF_ERROR" => job.dest <= job.deflated
=============================================================================
