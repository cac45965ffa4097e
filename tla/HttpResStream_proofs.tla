------------------------ MODULE HttpResStream_proofs ------------------------
(* Proofs about HttpResStream, for any length of the source, any limits    *)
(* and any block.                                                          *)
EXTENDS HttpResStream, SequenceTheorems, FiniteSetTheorems, TLAPS

-----------------------------------------------------------------------------
(* The stream by what it begins with, holds and ends with.                 *)
StreamOf(head, n, end, tail) ==
  (IF head THEN <<Header>> ELSE << >>)
  \o [i \in 1..n |-> i]
  \o (IF end THEN <<FinalBlock>> ELSE << >>)
  \o (IF tail THEN <<Trailer>> ELSE << >>)

LEMMA Units ==
  /\ SrcLen \in Nat /\ Header \in Unit /\ FinalBlock \in Unit /\ Trailer \in Unit
  /\ \A i \in 1..SrcLen : i \in Unit
BY StreamAssumption DEF Header, FinalBlock, Trailer, Unit

LEMMA Assoc ==
  ASSUME NEW s \in Seq(Unit), NEW t \in Seq(Unit), NEW u \in Seq(Unit)
  PROVE  (s \o t) \o u = s \o (t \o u)
<1> DEFINE a == (s \o t) \o u
           b == s \o (t \o u)
<1>1. /\ Len(s) \in Nat /\ Len(t) \in Nat /\ Len(u) \in Nat
      /\ s \o t \in Seq(Unit) /\ Len(s \o t) = Len(s) + Len(t)
      /\ t \o u \in Seq(Unit) /\ Len(t \o u) = Len(t) + Len(u)
  BY LenProperties, ConcatProperties
<1>2. a \in Seq(Unit) /\ Len(a) = Len(s) + Len(t) + Len(u)
  BY <1>1, ConcatProperties
<1>3. b \in Seq(Unit) /\ Len(b) = Len(s) + Len(t) + Len(u)
  BY <1>1, ConcatProperties
<1>4. ASSUME NEW i \in 1..Len(s) + Len(t) + Len(u) PROVE a[i] = b[i]
  <2>1. a[i] = IF i <= Len(s) + Len(t) THEN (s \o t)[i] ELSE u[i - (Len(s) + Len(t))]
    BY <1>1, ConcatProperties
  <2>2. b[i] = IF i <= Len(s) THEN s[i] ELSE (t \o u)[i - Len(s)]
    BY <1>1, ConcatProperties
  <2>3. CASE i <= Len(s)
    BY <1>1, <2>1, <2>2, <2>3, ConcatProperties
  <2>4. CASE i > Len(s) /\ i <= Len(s) + Len(t)
    BY <1>1, <2>1, <2>2, <2>4, ConcatProperties
  <2>5. CASE i > Len(s) + Len(t)
    BY <1>1, <2>1, <2>2, <2>5, ConcatProperties
  <2> QED
    BY <1>1, <2>3, <2>4, <2>5
<1> HIDE DEF a, b
<1>5. a = b
  BY <1>2, <1>3, <1>4, SeqEqual
<1> QED
  BY <1>5 DEF a, b

LEMMA Bytes ==
  ASSUME NEW n \in 0..SrcLen
  PROVE  [i \in 1..n |-> i] \in Seq(Unit) /\ Len([i \in 1..n |-> i]) = n
<1>1. \A i \in 1..n : i \in Unit
  BY Units
<1>2. n \in Nat /\ [i \in 1..n |-> i] \in [1..n -> Unit]
  BY <1>1, Units
<1> QED
  BY <1>2

LEMMA Input ==
  ASSUME NEW n \in 0..SrcLen, NEW k \in Nat, n + k <= SrcLen
  PROVE  /\ [i \in 1..k |-> n + i] \in Seq(Unit)
         /\ [i \in 1..n |-> i] \o [i \in 1..k |-> n + i] = [i \in 1..n + k |-> i]
<1> DEFINE a == [i \in 1..n |-> i]
           b == [i \in 1..k |-> n + i]
           c == [i \in 1..n + k |-> i]
<1>1. \A i \in 1..k : n + i \in Unit
  BY Units
<1>2. b \in [1..k -> Unit] /\ b \in Seq(Unit) /\ Len(b) = k
  BY <1>1
<1>3. a \in Seq(Unit) /\ Len(a) = n
  BY Bytes
<1>4. n + k \in 0..SrcLen
  BY Units
<1>5. c \in Seq(Unit) /\ Len(c) = n + k
  BY <1>4, Bytes
<1>6. /\ a \o b \in Seq(Unit) /\ Len(a \o b) = n + k
      /\ \A i \in 1..n + k : (a \o b)[i] = IF i <= n THEN a[i] ELSE b[i - n]
  BY <1>2, <1>3, ConcatProperties
<1>7. ASSUME NEW i \in 1..n + k PROVE (a \o b)[i] = c[i]
  <2>1. CASE i <= n
    BY <1>6, <2>1
  <2>2. CASE i > n
    <3>1. i - n \in 1..k
      BY <2>2
    <3>2. b[i - n] = n + (i - n)
      BY <3>1
    <3>3. n + (i - n) = i
      OBVIOUS
    <3> QED
      BY <1>6, <2>2, <3>2, <3>3
  <2> QED
    BY <2>1, <2>2
<1> HIDE DEF a, b, c
<1>8. a \o b = c
  BY <1>5, <1>6, <1>7, SeqEqual
<1> QED
  BY <1>2, <1>8 DEF a, b, c

LEMMA StreamSeq ==
  ASSUME NEW head \in BOOLEAN, NEW n \in 0..SrcLen, NEW end \in BOOLEAN, NEW tail \in BOOLEAN
  PROVE  StreamOf(head, n, end, tail) \in Seq(Unit)
<1> DEFINE h == IF head THEN <<Header>> ELSE << >>
           b == [i \in 1..n |-> i]
           f == IF end THEN <<FinalBlock>> ELSE << >>
           t == IF tail THEN <<Trailer>> ELSE << >>
<1>1. h \in Seq(Unit) /\ f \in Seq(Unit) /\ t \in Seq(Unit)
  BY Units
<1>2. b \in Seq(Unit)
  BY Bytes
<1> HIDE DEF h, b, f, t
<1>3. h \o b \in Seq(Unit)
  BY <1>1, <1>2
<1>4. (h \o b) \o f \in Seq(Unit)
  BY <1>1, <1>3
<1>5. ((h \o b) \o f) \o t \in Seq(Unit)
  BY <1>1, <1>4
<1> QED
  BY <1>5 DEF StreamOf, h, b, f, t

(* The stream grows at its end.                                            *)
LEMMA StreamGrows ==
  ASSUME NEW head \in BOOLEAN, NEW n \in 0..SrcLen
  PROVE  /\ StreamOf(head, n, FALSE, FALSE) \o <<FinalBlock>> = StreamOf(head, n, TRUE, FALSE)
         /\ StreamOf(head, n, TRUE, FALSE) \o <<Trailer>> = StreamOf(head, n, TRUE, TRUE)
         /\ \A k \in Nat : n + k <= SrcLen =>
              StreamOf(head, n, FALSE, FALSE) \o [i \in 1..k |-> n + i]
                = StreamOf(head, n + k, FALSE, FALSE)
<1> DEFINE h == IF head THEN <<Header>> ELSE << >>
           b == [i \in 1..n |-> i]
<1>1. h \in Seq(Unit) /\ b \in Seq(Unit) /\ <<FinalBlock>> \in Seq(Unit) /\ <<Trailer>> \in Seq(Unit)
  BY Units, Bytes
<1>2. /\ StreamOf(head, n, FALSE, FALSE) = ((h \o b) \o << >>) \o << >>
      /\ StreamOf(head, n, TRUE, FALSE) = ((h \o b) \o <<FinalBlock>>) \o << >>
      /\ StreamOf(head, n, TRUE, TRUE) = ((h \o b) \o <<FinalBlock>>) \o <<Trailer>>
  BY DEF StreamOf
<1>3. h \o b \in Seq(Unit) /\ (h \o b) \o <<FinalBlock>> \in Seq(Unit)
  <2> HIDE DEF h, b
  <2>1. h \o b \in Seq(Unit)
    BY <1>1
  <2> QED
    BY <1>1, <2>1
<1>4. /\ StreamOf(head, n, FALSE, FALSE) = h \o b
      /\ StreamOf(head, n, TRUE, FALSE) = (h \o b) \o <<FinalBlock>>
  <2> HIDE DEF h, b
  <2>1. (h \o b) \o << >> = h \o b
    BY <1>3, ConcatEmptySeq
  <2>2. ((h \o b) \o <<FinalBlock>>) \o << >> = (h \o b) \o <<FinalBlock>>
    BY <1>3, ConcatEmptySeq
  <2> QED
    BY <1>2, <2>1, <2>2
<1>5. ASSUME NEW k \in Nat, n + k <= SrcLen
      PROVE  StreamOf(head, n, FALSE, FALSE) \o [i \in 1..k |-> n + i]
               = StreamOf(head, n + k, FALSE, FALSE)
  <2> DEFINE c == [i \in 1..k |-> n + i]
             d == [i \in 1..n + k |-> i]
  <2>1. c \in Seq(Unit) /\ b \o c = d
    BY <1>5, Input
  <2>2. n + k \in 0..SrcLen
    BY <1>5, Units
  <2>3. d \in Seq(Unit)
    BY <2>2, Bytes
  <2>4. StreamOf(head, n + k, FALSE, FALSE) = ((h \o d) \o << >>) \o << >>
    BY DEF StreamOf
  <2> HIDE DEF h, b, c, d
  <2>5. h \o d \in Seq(Unit)
    BY <1>1, <2>3
  <2>6. (h \o d) \o << >> = h \o d
    BY <2>5, ConcatEmptySeq
  <2>7. (h \o b) \o c = h \o (b \o c)
    BY <1>1, <2>1, Assoc
  <2>8. StreamOf(head, n, FALSE, FALSE) \o c = StreamOf(head, n + k, FALSE, FALSE)
    BY <1>4, <2>1, <2>4, <2>6, <2>7
  <2> QED
    BY <2>8 DEF c
<1>6. /\ StreamOf(head, n, FALSE, FALSE) \o <<FinalBlock>> = StreamOf(head, n, TRUE, FALSE)
      /\ StreamOf(head, n, TRUE, FALSE) \o <<Trailer>> = StreamOf(head, n, TRUE, TRUE)
  BY <1>2, <1>4
<1> QED
  BY <1>5, <1>6

LEMMA StreamStarts ==
  StreamOf(TRUE, 0, FALSE, FALSE) = <<Header>> /\ StreamOf(FALSE, 0, FALSE, FALSE) = << >>
<1> DEFINE b == [i \in 1..0 |-> i]
<1>1. b = << >>
  OBVIOUS
<1>2. <<Header>> \in Seq(Unit) /\ << >> \in Seq(Unit)
  BY Units
<1>3. <<Header>> \o << >> = <<Header>> /\ << >> \o << >> = << >>
  BY <1>2, ConcatEmptySeq
<1>4. /\ StreamOf(TRUE, 0, FALSE, FALSE) = ((<<Header>> \o b) \o << >>) \o << >>
      /\ StreamOf(FALSE, 0, FALSE, FALSE) = ((<< >> \o b) \o << >>) \o << >>
  BY DEF StreamOf
<1> QED
  BY <1>1, <1>3, <1>4

(* The bytes of the source in a whole gzip stream.                         *)
LEMMA StreamBytes ==
  ASSUME NEW n \in 0..SrcLen
  PROVE  LET s == StreamOf(TRUE, n, TRUE, TRUE) IN
         Cardinality({i \in 1..Len(s) : s[i] \in 1..SrcLen}) = n
<1> DEFINE b == [i \in 1..n |-> i]
           s1 == <<Header>> \o b
           s2 == s1 \o <<FinalBlock>>
           s == s2 \o <<Trailer>>
<1>0. n \in Nat /\ SrcLen \in Nat
  BY Units
<1>1. b \in Seq(Unit) /\ Len(b) = n /\ \A i \in 1..n : b[i] = i
  BY Bytes
<1>2. <<Header>> \in Seq(Unit) /\ <<FinalBlock>> \in Seq(Unit) /\ <<Trailer>> \in Seq(Unit)
  BY Units
<1> HIDE DEF b
<1>3. /\ s1 \in Seq(Unit) /\ Len(s1) = 1 + n
      /\ \A i \in 1..1 + n : s1[i] = IF i <= 1 THEN Header ELSE b[i - 1]
  BY <1>0, <1>1, <1>2, ConcatProperties
<1> HIDE DEF s1
<1>4. /\ s2 \in Seq(Unit) /\ Len(s2) = n + 2
      /\ \A i \in 1..n + 2 : s2[i] = IF i <= n + 1 THEN s1[i] ELSE FinalBlock
  BY <1>0, <1>2, <1>3, ConcatProperties
<1> HIDE DEF s2
<1>5. /\ Len(s) = n + 3
      /\ \A i \in 1..n + 3 : s[i] = IF i <= n + 2 THEN s2[i] ELSE Trailer
  BY <1>0, <1>2, <1>4, ConcatProperties
<1>6. StreamOf(TRUE, n, TRUE, TRUE) = s
  BY DEF StreamOf, b, s1, s2
<1> HIDE DEF s
<1>7. {i \in 1..Len(s) : s[i] \in 1..SrcLen} = 2..n + 1
  <2>1. ASSUME NEW i \in 1..n + 3 PROVE s[i] \in 1..SrcLen <=> i \in 2..n + 1
    <3>1. CASE i = 1
      BY <1>0, <1>3, <1>4, <1>5, <3>1 DEF Header
    <3>2. CASE i \in 2..n + 1
      <4>1. s[i] = b[i - 1] /\ i - 1 \in 1..n
        BY <1>0, <1>3, <1>4, <1>5, <3>2
      <4>2. s[i] = i - 1
        BY <1>1, <4>1
      <4> QED
        BY <1>0, <3>2, <4>1, <4>2
    <3>3. CASE i = n + 2
      BY <1>0, <1>4, <1>5, <3>3 DEF FinalBlock
    <3>4. CASE i = n + 3
      BY <1>0, <1>5, <3>4 DEF Trailer
    <3> QED
      BY <1>0, <3>1, <3>2, <3>3, <3>4
  <2> QED
    BY <1>0, <1>5, <2>1
<1>8. Cardinality(2..n + 1) = n
  BY <1>0, FS_Interval
<1> QED
  BY <1>6, <1>7, <1>8

LEMMA Cat ==
  ASSUME NEW s \in Seq(Unit), NEW t \in Seq(Unit)
  PROVE  s \o t \in Seq(Unit) /\ s \o << >> = s /\ << >> \o s = s
BY ConcatProperties, ConcatEmptySeq

LEMMA SubSeqUnit ==
  ASSUME NEW s \in Seq(Unit), NEW m \in 1..Len(s) + 1, NEW n \in 0..Len(s)
  PROVE  SubSeq(s, m, n) \in Seq(Unit)
BY LenProperties, ElementOfSeq, SubSeqProperties

LEMMA Split ==
  ASSUME NEW s \in Seq(Unit), NEW m \in 1..Len(s) + 1, NEW k \in m - 1..Len(s)
  PROVE  /\ SubSeq(s, m, k) \in Seq(Unit) /\ SubSeq(s, k + 1, Len(s)) \in Seq(Unit)
         /\ SubSeq(s, m, k) \o SubSeq(s, k + 1, Len(s)) = SubSeq(s, m, Len(s))
<1>1. Len(s) \in Nat /\ Len(s) \in k..Len(s)
  BY LenProperties
<1>2. SubSeq(s, m, k) \in Seq(Unit) /\ SubSeq(s, k + 1, Len(s)) \in Seq(Unit)
  BY <1>1, SubSeqUnit
<1> QED
  BY <1>1, <1>2, ConcatAdjacentSubSeq

-----------------------------------------------------------------------------
(* The inductive invariant.                                                *)

Types ==
  /\ kind \in {"z", "gz"} /\ sizeIn \in Limits /\ sizeIn \in Nat
  /\ status \in {"none", "processing", "writing", "finishing", "finished"}
  /\ read \in 0..SrcLen /\ offsetIn \in 0..SrcLen /\ crc \in 0..SrcLen
  /\ held \in Seq(Unit) /\ bufOut \in Seq(Unit) /\ sent \in Seq(Unit)
  /\ final \in BOOLEAN
  /\ offsetOut \in Nat /\ (status = "writing" => offsetOut < Len(bufOut))
  /\ trailer \in [crc : Nat, length : Nat]
  /\ ended \in {"no", "eos", "error", "failed"}

(* Until deflate ends, all that was read went to it; without a size it     *)
(* ends when the source does.                                              *)
Flow ==
  /\ offsetIn <= read /\ (~final => offsetIn = read)
  /\ final => held = << >> /\ (sizeIn = 0 => read = SrcLen /\ offsetIn = read)
  /\ sizeIn > 0 => offsetIn <= sizeIn
  /\ kind = "gz" => crc = offsetIn

Stages ==
  /\ status = "none" => /\ kind = "gz" /\ offsetIn = 0 /\ ~final
                        /\ held = << >> /\ sent = << >>
  /\ status = "finishing" => kind = "gz"
  /\ status \in {"finishing", "finished"} => final
  /\ kind = "gz" /\ status = "finished" => trailer = [crc |-> offsetIn, length |-> offsetIn]
  /\ ended = "eos" => status = "finished"
  /\ ended = "error" => status = "processing" /\ sizeIn > 0

IInv == Types /\ Flow /\ Stages /\ InOrder

HasHead == kind = "gz" /\ status # "none"
HasTail == kind = "gz" /\ status = "finished"

LEMMA StreamIs == Stream = StreamOf(HasHead, offsetIn, final, HasTail)
BY DEF Stream, StreamOf, HasHead, HasTail

LEMMA StreamIsNext == Stream' = StreamOf(HasHead', offsetIn', final', HasTail')
BY DEF Stream, StreamOf, HasHead, HasTail

LEMMA UnsentSeq == Types => Unsent \in Seq(Unit)
<1> SUFFICES ASSUME Types, status = "writing" PROVE SubSeq(bufOut, offsetOut + 1, Len(bufOut)) \in Seq(Unit)
  BY Cat DEF Unsent
<1>1. bufOut \in Seq(Unit) /\ offsetOut \in Nat /\ offsetOut < Len(bufOut) /\ Len(bufOut) \in Nat
  BY LenProperties DEF Types
<1> QED
  BY <1>1, SubSeqUnit

-----------------------------------------------------------------------------
LEMMA InitInv == Init => IInv
<1> SUFFICES ASSUME Init PROVE IInv
  OBVIOUS
<1>1. << >> \in Seq(Unit) /\ 0 \in 0..SrcLen
  BY Units
<1>2. Types
  BY <1>1, StreamAssumption DEF Init, Types
<1>3. Flow /\ Stages
  BY StreamAssumption DEF Init, Flow, Stages
<1>4. InOrder
  <2>1. Stream = << >>
    <3>1. HasHead = FALSE /\ HasTail = FALSE /\ offsetIn = 0 /\ final = FALSE
      BY DEF Init, HasHead, HasTail
    <3> QED
      BY <3>1, StreamIs, StreamStarts
  <2>2. sent = << >> /\ Unsent = << >> /\ held = << >>
    BY DEF Init, Unsent
  <2>3. (<< >> \o << >>) \o << >> = << >>
    BY <1>1, Cat
  <2> QED
    BY <2>1, <2>2, <2>3 DEF InOrder
<1> QED
  BY <1>2, <1>3, <1>4 DEF IInv

(* What a call copies or keeps is the end of what was sent.                *)
LEMMA EmitSent ==
  ASSUME Types, status = "processing", NEW n \in Sizes, NEW out \in Seq(Unit),
         NEW next, next \in {"processing", "finishing", "finished"}, Emit(n, out, next)
  PROVE  /\ sent' \o Unsent' = sent \o out
         /\ sent' \in Seq(Unit) /\ bufOut' \in Seq(Unit) /\ offsetOut' \in Nat
         /\ status' \in {next, "writing"} /\ (status' = "writing" => offsetOut' < Len(bufOut'))
<1>1. sent \in Seq(Unit) /\ bufOut \in Seq(Unit) /\ offsetOut \in Nat /\ n \in Nat /\ Len(out) \in Nat
  BY LenProperties, StreamAssumption DEF Types, Sizes
<1>2. CASE Len(out) > n
  <2>1. status' = "writing" /\ bufOut' = out /\ offsetOut' = 0 /\ sent' = sent
    BY <1>2 DEF Emit
  <2>2. Unsent' = SubSeq(out, 1, Len(out))
    BY <2>1 DEF Unsent
  <2>3. Unsent' = out
    BY <2>2, SubSeqFull
  <2> QED
    BY <1>1, <1>2, <2>1, <2>3
<1>3. CASE ~(Len(out) > n)
  <2>1. status' = next /\ sent' = sent \o out /\ bufOut' = bufOut /\ offsetOut' = offsetOut
    BY <1>3 DEF Emit
  <2>2. Unsent' = << >>
    BY <2>1 DEF Unsent
  <2>3. sent \o out \in Seq(Unit)
    BY <1>1, Cat
  <2>4. (sent \o out) \o << >> = sent \o out
    BY <2>3, Cat
  <2> QED
    BY <1>1, <2>1, <2>2, <2>3, <2>4
<1> QED
  BY <1>2, <1>3

(* While the reader takes from the source nothing is kept back.            *)
LEMMA Processing ==
  ASSUME IInv, status = "processing", ended = "no"
  PROVE  /\ sent \o held = StreamOf(kind = "gz", offsetIn, final, FALSE)
         /\ sent \in Seq(Unit) /\ held \in Seq(Unit)
<1>1. sent \in Seq(Unit) /\ held \in Seq(Unit)
  BY DEF IInv, Types
<1>2. (sent \o << >>) \o held = Stream
  BY DEF IInv, InOrder, Unsent
<1>3. sent \o << >> = sent
  BY <1>1, Cat
<1>4. HasHead = (kind = "gz") /\ HasTail = FALSE
  BY DEF HasHead, HasTail
<1> QED
  BY <1>1, <1>2, <1>3, <1>4, StreamIs

(* Finish, at the end of the source or past the limit.                     *)
LEMMA FinishInv ==
  ASSUME IInv, Open, status = "processing", NEW n \in Sizes, Finish(n),
         kind' = kind, sizeIn' = sizeIn, read' \in read..SrcLen,
         sizeIn = 0 => read = SrcLen /\ read' = read
  PROVE  IInv'
<1> DEFINE out == IF final THEN held ELSE held \o <<FinalBlock>>
           next == IF kind = "gz" THEN "finishing" ELSE "finished"
<1>0. ended = "no" /\ Types /\ Flow /\ Stages
  BY DEF Open, IInv
<1>1. /\ Emit(n, out, next) /\ held' = << >> /\ final' = TRUE
      /\ UNCHANGED <<offsetIn, crc, trailer, ended>>
  BY DEF Finish
<1>2. /\ sent \o held = StreamOf(kind = "gz", offsetIn, final, FALSE)
      /\ sent \in Seq(Unit) /\ held \in Seq(Unit) /\ <<FinalBlock>> \in Seq(Unit)
  <2>1. <<FinalBlock>> \in Seq(Unit)
    BY Units
  <2> QED
    BY <1>0, <2>1, Processing
<1>3. out \in Seq(Unit)
  BY <1>2, Cat
<1>4. next \in {"processing", "finishing", "finished"}
  OBVIOUS
<1>5. offsetIn \in 0..SrcLen /\ (kind = "gz") \in BOOLEAN
  BY <1>0 DEF Types
<1>6. sent \o out = StreamOf(kind = "gz", offsetIn, TRUE, FALSE)
  <2>1. CASE final
    BY <1>0, <1>2, <2>1 DEF Types
  <2>2. CASE ~final
    <3>1. (sent \o held) \o <<FinalBlock>> = sent \o (held \o <<FinalBlock>>)
      BY <1>2, Assoc
    <3>2. final = FALSE
      BY <1>0, <2>2 DEF Types
    <3>3. StreamOf(kind = "gz", offsetIn, FALSE, FALSE) \o <<FinalBlock>>
            = StreamOf(kind = "gz", offsetIn, TRUE, FALSE)
      BY <1>5, StreamGrows
    <3> QED
      BY <1>2, <2>2, <3>1, <3>2, <3>3
  <2> QED
    BY <2>1, <2>2
<1> HIDE DEF out
<1>7. /\ sent' \o Unsent' = sent \o out
      /\ sent' \in Seq(Unit) /\ bufOut' \in Seq(Unit) /\ offsetOut' \in Nat
      /\ status' \in {next, "writing"} /\ (status' = "writing" => offsetOut' < Len(bufOut'))
  BY <1>0, <1>1, <1>3, <1>4, EmitSent
<1>8. Types'
  <2>1. read' \in 0..SrcLen
    BY <1>0 DEF Types
  <2>2. << >> \in Seq(Unit)
    BY Cat
  <2> QED
    BY <1>0, <1>1, <1>7, <2>1, <2>2 DEF Types
<1>9. Flow'
  <2>1. read' \in Nat /\ read \in Nat /\ offsetIn \in Nat /\ read <= read' /\ offsetIn <= read
    BY <1>0 DEF Types, Flow
  <2>2. sizeIn = 0 => offsetIn = read
    BY <1>0 DEF Flow
  <2> QED
    BY <1>0, <1>1, <2>1, <2>2 DEF Flow
<1>10. Stages'
  BY <1>0, <1>1, <1>7 DEF Stages
<1>11. InOrder'
  <2>1. HasHead' = (kind = "gz") /\ HasTail' = FALSE
    BY <1>7 DEF HasHead, HasTail
  <2>2. Stream' = StreamOf(kind = "gz", offsetIn, TRUE, FALSE)
    BY <1>1, <2>1, StreamIsNext
  <2>3. sent \o out \in Seq(Unit)
    BY <1>2, <1>3, Cat
  <2>4. (sent \o out) \o << >> = sent \o out
    BY <2>3, Cat
  <2> QED
    BY <1>1, <1>6, <1>7, <2>2, <2>4 DEF InOrder
<1> QED
  BY <1>8, <1>9, <1>10, <1>11 DEF IInv

(* Deflate with a block of k bytes.                                        *)
LEMMA DeflateInv ==
  ASSUME IInv, Open, status = "processing", NEW n \in Sizes, NEW k \in 1..n, read + k <= SrcLen,
         ~(sizeIn > 0 /\ offsetIn + k > sizeIn), Deflate(n, k), read' = read + k,
         kind' = kind, sizeIn' = sizeIn
  PROVE  IInv'
<1> DEFINE input == [i \in 1..k |-> read + i]
           all == held \o input
<1>0. ended = "no" /\ Types /\ Flow /\ Stages
  BY DEF Open, IInv
<1>1. /\ offsetIn' = offsetIn + k /\ crc' = IF kind = "gz" THEN crc + k ELSE crc
      /\ UNCHANGED <<final, trailer>>
  BY DEF Deflate
<1>2. /\ k \in Nat \ {0} /\ read \in 0..SrcLen /\ read' \in 0..SrcLen /\ offsetIn \in 0..SrcLen
      /\ offsetIn' \in 0..SrcLen /\ crc' \in 0..SrcLen /\ sizeIn \in Nat /\ SrcLen \in Nat
  BY <1>0, <1>1, Units, StreamAssumption DEF Types, Flow, Sizes
<1>3. CASE final
  <2>1. ended' = "error" /\ UNCHANGED <<status, sent, held, bufOut, offsetOut>>
    BY <1>3 DEF Deflate
  <2>2. sizeIn > 0
    BY <1>0, <1>2, <1>3 DEF Flow
  <2>3. Types'
    BY <1>0, <1>1, <1>2, <2>1 DEF Types
  <2>4. Flow'
    BY <1>0, <1>1, <1>2, <1>3, <2>1, <2>2 DEF Flow
  <2>5. Stages'
    BY <1>0, <1>1, <1>3, <2>1, <2>2 DEF Stages
  <2>6. InOrder'
    BY <2>1 DEF InOrder
  <2> QED
    BY <2>3, <2>4, <2>5, <2>6 DEF IInv
<1>4. CASE ~final
  <2>1. PICK g \in 0..Len(all) :
          Emit(n, SubSeq(all, 1, g), "processing") /\ held' = SubSeq(all, g + 1, Len(all))
    BY <1>4 DEF Deflate
  <2>2. ended' = ended
    BY <1>4 DEF Deflate
  <2>3. offsetIn = read /\ final = FALSE
    BY <1>0, <1>4 DEF Flow, Types
  <2>4. sent \o held = StreamOf(kind = "gz", read, FALSE, FALSE) /\ sent \in Seq(Unit) /\ held \in Seq(Unit)
    BY <1>0, <2>3, Processing
  <2>5. input \in Seq(Unit)
    BY <1>2, Input
  <2>6. all \in Seq(Unit)
    BY <2>4, <2>5, Cat
  <2> DEFINE out == SubSeq(all, 1, g)
             rest == SubSeq(all, g + 1, Len(all))
  <2>7. out \in Seq(Unit) /\ rest \in Seq(Unit) /\ out \o rest = all
    <3>1. Len(all) \in Nat
      BY <2>6, LenProperties
    <3> HIDE DEF all
    <3>2. 1 \in 1..Len(all) + 1 /\ g \in 1 - 1..Len(all)
      BY <3>1
    <3>3. SubSeq(all, 1, Len(all)) = all
      BY <2>6, SubSeqFull
    <3> QED
      BY <2>6, <3>2, <3>3, Split
  <2>8. sent \o all = StreamOf(kind = "gz", read + k, FALSE, FALSE)
    <3>1. (sent \o held) \o input = sent \o all
      <4> HIDE DEF input
      <4> QED
        BY <2>4, <2>5, Assoc
    <3>2. (kind = "gz") \in BOOLEAN /\ k \in Nat
      BY <1>2
    <3>3. StreamOf(kind = "gz", read, FALSE, FALSE) \o [i \in 1..k |-> read + i]
            = StreamOf(kind = "gz", read + k, FALSE, FALSE)
      BY <1>2, <3>2, StreamGrows
    <3> QED
      BY <2>4, <3>1, <3>3
  <2> HIDE DEF out, rest, all
  <2>9. /\ sent' \o Unsent' = sent \o out
        /\ sent' \in Seq(Unit) /\ bufOut' \in Seq(Unit) /\ offsetOut' \in Nat
        /\ status' \in {"processing", "writing"} /\ (status' = "writing" => offsetOut' < Len(bufOut'))
    <3>1. Emit(n, out, "processing")
      BY <2>1 DEF out
    <3> QED
      BY <1>0, <2>7, <3>1, EmitSent
  <2>10. held' = rest
    BY <2>1 DEF rest
  <2>11. Types'
    BY <1>0, <1>1, <1>2, <2>2, <2>7, <2>9, <2>10 DEF Types
  <2>12. Flow'
    BY <1>0, <1>1, <1>2, <2>3 DEF Flow
  <2>13. Stages'
    BY <1>0, <1>1, <2>2, <2>9 DEF Stages
  <2>14. InOrder'
    <3>1. HasHead' = (kind = "gz") /\ HasTail' = FALSE
      BY <2>9 DEF HasHead, HasTail
    <3>2. Stream' = StreamOf(kind = "gz", read + k, FALSE, FALSE)
      BY <1>1, <2>3, <3>1, StreamIsNext
    <3>3. (sent \o out) \o rest = sent \o (out \o rest)
      BY <2>4, <2>7, Assoc
    <3>4. (sent' \o Unsent') \o held' = Stream'
      BY <2>7, <2>8, <2>9, <2>10, <3>2, <3>3
    <3> QED
      BY <3>4 DEF InOrder
  <2> QED
    BY <2>11, <2>12, <2>13, <2>14 DEF IInv
<1> QED
  BY <1>3, <1>4

-----------------------------------------------------------------------------
LEMMA WriteMoreInv ==
  ASSUME IInv, NEW n \in Sizes, WriteMore(n)
  PROVE  IInv'
<1> DEFINE upto == offsetOut + n
           last == Least(upto, Len(bufOut))
           part == SubSeq(bufOut, offsetOut + 1, last)
<1>0. ended = "no" /\ status = "writing" /\ Types /\ Flow /\ Stages
  BY DEF WriteMore, Open, IInv
<1>1. /\ offsetOut' = IF upto > Len(bufOut) THEN offsetOut ELSE upto
      /\ sent' = sent \o part
      /\ status' = IF upto >= Len(bufOut) THEN "processing" ELSE "writing"
      /\ bufOut' = IF upto >= Len(bufOut) THEN << >> ELSE bufOut
      /\ UNCHANGED <<kind, sizeIn, read, offsetIn, crc, held, final, trailer, ended>>
  BY DEF WriteMore
<1>2. /\ bufOut \in Seq(Unit) /\ Len(bufOut) \in Nat /\ offsetOut \in Nat /\ offsetOut < Len(bufOut)
      /\ n \in Nat \ {0} /\ upto \in Nat /\ sent \in Seq(Unit) /\ held \in Seq(Unit)
  BY <1>0, LenProperties, StreamAssumption DEF Types, Sizes
<1>3. offsetOut + 1 \in 1..Len(bufOut) + 1 /\ last \in (offsetOut + 1) - 1..Len(bufOut)
  BY <1>2 DEF Least
<1> DEFINE rest == SubSeq(bufOut, last + 1, Len(bufOut))
<1>4. part \in Seq(Unit) /\ rest \in Seq(Unit) /\ part \o rest = SubSeq(bufOut, offsetOut + 1, Len(bufOut))
  <2> HIDE DEF last
  <2> QED
    BY <1>2, <1>3, Split
<1>5. Unsent' = rest
  <2>1. CASE upto >= Len(bufOut)
    <3>1. last = Len(bufOut) /\ Unsent' = << >>
      BY <1>1, <1>2, <2>1 DEF Least, Unsent
    <3>2. SubSeq(bufOut, Len(bufOut) + 1, Len(bufOut)) = << >>
      BY <1>2, SubSeqEmpty
    <3> QED
      BY <3>1, <3>2
  <2>2. CASE upto < Len(bufOut)
    <3>1. last = upto /\ offsetOut' = upto /\ status' = "writing" /\ bufOut' = bufOut
      BY <1>1, <1>2, <2>2 DEF Least
    <3>2. Unsent' = SubSeq(bufOut', offsetOut' + 1, Len(bufOut'))
      BY <3>1 DEF Unsent
    <3> QED
      BY <3>1, <3>2
  <2> QED
    BY <1>2, <2>1, <2>2
<1>6. sent' \o Unsent' = sent \o Unsent
  <2>1. Unsent = part \o rest
    BY <1>0, <1>4 DEF Unsent
  <2> HIDE DEF part, rest
  <2>2. (sent \o part) \o rest = sent \o (part \o rest)
    BY <1>2, <1>4, Assoc
  <2>3. sent' = sent \o part
    BY <1>1
  <2> QED
    BY <1>5, <2>1, <2>2, <2>3
<1>7. sent' \in Seq(Unit)
  <2> HIDE DEF part
  <2> QED
    BY <1>1, <1>2, <1>4, Cat
<1>8. Types'
  BY <1>0, <1>1, <1>2, <1>7, Cat DEF Types
<1>9. Flow' /\ Stages'
  BY <1>0, <1>1 DEF Flow, Stages
<1>10. InOrder'
  <2>1. Stream' = Stream
    BY <1>0, <1>1 DEF Stream
  <2>2. (sent \o Unsent) \o held = Stream
    BY <1>0 DEF IInv, InOrder
  <2> QED
    BY <1>1, <1>6, <2>1, <2>2 DEF InOrder
<1> QED
  BY <1>8, <1>9, <1>10 DEF IInv

LEMMA HeaderInv ==
  ASSUME IInv, ReadHeader
  PROVE  IInv'
<1>0. ended = "no" /\ status = "none" /\ Types /\ Flow /\ Stages
  BY DEF ReadHeader, Open, IInv
<1>1. /\ status' = "processing" /\ sent' = Append(sent, Header)
      /\ UNCHANGED <<kind, sizeIn, read, offsetIn, crc, held, final, bufOut, offsetOut, trailer, ended>>
  BY DEF ReadHeader
<1>2. sent' = <<Header>> /\ <<Header>> \in Seq(Unit)
  BY <1>0, <1>1, Units DEF Stages
<1>3. Types' /\ Flow' /\ Stages'
  BY <1>0, <1>1, <1>2 DEF Types, Flow, Stages
<1>4. InOrder'
  <2>1. HasHead' = TRUE /\ HasTail' = FALSE /\ offsetIn' = 0 /\ final' = FALSE
    BY <1>0, <1>1 DEF HasHead, HasTail, Stages, Types
  <2>2. Stream' = <<Header>>
    BY <2>1, StreamIsNext, StreamStarts
  <2>3. Unsent' = << >> /\ held' = << >>
    BY <1>0, <1>1 DEF Unsent, Stages
  <2>4. (<<Header>> \o << >>) \o << >> = <<Header>>
    BY <1>2, Cat
  <2> QED
    BY <1>2, <2>2, <2>3, <2>4 DEF InOrder
<1> QED
  BY <1>3, <1>4 DEF IInv

LEMMA TrailerInv ==
  ASSUME IInv, ReadTrailer
  PROVE  IInv'
<1>0. ended = "no" /\ status = "finishing" /\ Types /\ Flow /\ Stages
  BY DEF ReadTrailer, Open, IInv
<1>1. /\ status' = "finished" /\ sent' = Append(sent, Trailer)
      /\ trailer' = [crc |-> crc, length |-> offsetIn]
      /\ UNCHANGED <<kind, sizeIn, read, offsetIn, crc, held, final, bufOut, offsetOut, ended>>
  BY DEF ReadTrailer
<1>2. /\ kind = "gz" /\ final = TRUE /\ held = << >> /\ crc = offsetIn /\ sent \in Seq(Unit)
      /\ offsetIn \in 0..SrcLen
  BY <1>0 DEF Stages, Flow, Types
<1>3. sent' = sent \o <<Trailer>> /\ <<Trailer>> \in Seq(Unit)
  BY <1>1, <1>2, Units, AppendIsConcat
<1>4. sent' \in Seq(Unit)
  BY <1>2, <1>3, Cat
<1>5. trailer' \in [crc : Nat, length : Nat]
  BY <1>0, <1>1, Units DEF Types
<1>6. Types' /\ Flow' /\ Stages'
  BY <1>0, <1>1, <1>2, <1>4, <1>5 DEF Types, Flow, Stages
<1>7. InOrder'
  <2>1. HasHead /\ ~HasTail /\ HasHead' /\ HasTail'
    BY <1>0, <1>1, <1>2 DEF HasHead, HasTail
  <2>2. Stream = StreamOf(TRUE, offsetIn, TRUE, FALSE) /\ Stream' = StreamOf(TRUE, offsetIn, TRUE, TRUE)
    <3>1. HasHead = TRUE /\ HasTail = FALSE /\ HasHead' = TRUE /\ HasTail' = TRUE
      BY <2>1 DEF HasHead, HasTail
    <3> QED
      BY <1>1, <1>2, <3>1, StreamIs, StreamIsNext
  <2>3. Unsent = << >> /\ Unsent' = << >> /\ held' = << >>
    BY <1>0, <1>1, <1>2 DEF Unsent
  <2>4. sent = Stream
    <3>1. (sent \o << >>) \o << >> = sent
      BY <1>2, Cat
    <3> QED
      BY <1>0, <1>2, <2>3, <3>1 DEF IInv, InOrder
  <2>5. sent' = Stream'
    BY <1>2, <1>3, <2>2, <2>4, StreamGrows
  <2>6. (sent' \o << >>) \o << >> = sent'
    BY <1>4, Cat
  <2> QED
    BY <2>3, <2>5, <2>6 DEF InOrder
<1> QED
  BY <1>6, <1>7 DEF IInv

LEMMA StepInv == IInv /\ [Next]_vars => IInv'
<1> SUFFICES ASSUME IInv, [Next]_vars PROVE IInv'
  OBVIOUS
<1>1. CASE ReadHeader
  BY <1>1, HeaderInv
<1>2. CASE ReadTrailer
  BY <1>2, TrailerInv
<1>3. ASSUME ended' \in {ended, "eos", "failed"}, ended = "no" \/ ended' = ended,
             ended' = "eos" => status = "finished" \/ ended = "eos",
             UNCHANGED <<kind, sizeIn, read, holder, sent, trailer>>
      PROVE  IInv'
  <2>1. Types' /\ Flow' /\ Stages'
    BY <1>3 DEF holder, IInv, Types, Flow, Stages
  <2>2. Stream' = Stream /\ Unsent' = Unsent
    BY <1>3 DEF holder, Stream, Unsent
  <2>3. InOrder'
    BY <1>3, <2>2 DEF holder, IInv, InOrder
  <2> QED
    BY <2>1, <2>3 DEF IInv
<1>4. CASE ReadEnd
  BY <1>3, <1>4 DEF ReadEnd, Open
<1>5. CASE ReadFails
  BY <1>3, <1>5 DEF ReadFails, Open
<1>6. ASSUME NEW n \in Sizes, ReadData(n) PROVE IInv'
  <2>1. PICK k \in 1..n :
          /\ Open /\ status = "processing" /\ read + k <= SrcLen /\ read' = read + k
          /\ IF sizeIn > 0 /\ offsetIn + k > sizeIn THEN Finish(n) ELSE Deflate(n, k)
          /\ kind' = kind /\ sizeIn' = sizeIn
    BY <1>6 DEF ReadData
  <2>2. CASE sizeIn > 0 /\ offsetIn + k > sizeIn
    <3>1. read' \in read..SrcLen /\ Finish(n) /\ sizeIn # 0
      BY <2>1, <2>2, StreamAssumption DEF IInv, Types, Sizes
    <3> QED
      BY <2>1, <3>1, FinishInv
  <2>3. CASE ~(sizeIn > 0 /\ offsetIn + k > sizeIn)
    BY <2>1, <2>3, DeflateInv
  <2> QED
    BY <2>2, <2>3
<1>7. ASSUME NEW n \in Sizes, ReadEof(n) PROVE IInv'
  <2>1. /\ Open /\ status = "processing" /\ read = SrcLen /\ Finish(n)
        /\ kind' = kind /\ sizeIn' = sizeIn /\ read' = read
    BY <1>7 DEF ReadEof
  <2>2. read' \in read..SrcLen
    BY <2>1, Units
  <2> QED
    BY <2>1, <2>2, FinishInv
<1>8. ASSUME NEW n \in Sizes, WriteMore(n) PROVE IInv'
  BY <1>8, WriteMoreInv
<1>9. CASE UNCHANGED vars
  BY <1>3, <1>9 DEF vars
<1> QED
  BY <1>1, <1>2, <1>4, <1>5, <1>6, <1>7, <1>8, <1>9 DEF Next, Reader

LEMMA InvAlways == Spec => []IInv
BY InitInv, StepInv, PTL DEF Spec

-----------------------------------------------------------------------------
(* The variables of a compressed body keep their types.                    *)
THEOREM TypeCorrect == Spec => []TypeOK
<1>1. IInv => TypeOK
  BY DEF IInv, Types, TypeOK
<1> QED
  BY <1>1, InvAlways, PTL

(* What is sent, kept and held back is one stream, whatever portions the   *)
(* source, deflate and the client take (sg__httpres_zread_cb,              *)
(* sg__httpres_gzread_cb).                                                 *)
THEOREM OneStream == Spec => []InOrder
<1>1. IInv => InOrder
  BY DEF IInv
<1> QED
  BY <1>1, InvAlways, PTL

(* The trailer of a gzipped file counts and sums what was sent.            *)
THEOREM TrailerRight == Spec => []TrailerFits
<1>1. IInv => TrailerFits
  <2> SUFFICES ASSUME IInv, kind = "gz", status = "finished"
               PROVE  LET bytes == Cardinality({i \in 1..Len(sent) : sent[i] \in 1..SrcLen})
                      IN  trailer = [crc |-> bytes, length |-> bytes]
    BY DEF TrailerFits
  <2>1. /\ sent \in Seq(Unit) /\ held = << >> /\ Unsent = << >> /\ ended # "error"
        /\ final = TRUE /\ offsetIn \in 0..SrcLen
        /\ trailer = [crc |-> offsetIn, length |-> offsetIn]
    BY DEF IInv, Types, Flow, Stages, Unsent
  <2>2. sent = Stream
    <3>1. (sent \o << >>) \o << >> = sent
      BY <2>1, Cat
    <3> QED
      BY <2>1, <3>1 DEF IInv, InOrder
  <2>3. Stream = StreamOf(TRUE, offsetIn, TRUE, TRUE)
    <3>1. HasHead = TRUE /\ HasTail = TRUE
      BY DEF HasHead, HasTail
    <3> QED
      BY <2>1, <3>1, StreamIs
  <2>4. Cardinality({i \in 1..Len(sent) : sent[i] \in 1..SrcLen}) = offsetIn
    BY <2>1, <2>2, <2>3, StreamBytes
  <2> QED
    BY <2>1, <2>4
<1> QED
  BY <1>1, InvAlways, PTL

(* A body without a size holds all of the source when it ends well.        *)
THEOREM AllSent == Spec => []SentAll
<1>1. IInv => SentAll
  <2> SUFFICES ASSUME IInv, ended = "eos", sizeIn = 0 PROVE Complete(SrcLen)
    BY DEF SentAll
  <2>1. status = "finished" /\ final /\ held = << >> /\ offsetIn = SrcLen
    BY DEF IInv, Stages, Flow
  <2> QED
    BY <2>1, Units DEF Complete, Unsent
<1> QED
  BY <1>1, InvAlways, PTL

(* A body with a size holds no more than it.                               *)
THEOREM WithinSize == Spec => []SentWithinSize
<1>1. IInv => SentWithinSize
  BY DEF IInv, Flow, SentWithinSize
<1> QED
  BY <1>1, InvAlways, PTL

(* Without a size deflate is not used again after its final block.         *)
THEOREM NeverAfterFinal == Spec => []NoError
<1>1. IInv => NoError
  BY DEF IInv, Stages, NoError
<1> QED
  BY <1>1, InvAlways, PTL
=============================================================================
