-------------------------------- MODULE Str --------------------------------
(* sg_str.c over utstring.h: a buffer that grows as text is put in.  What  *)
(* malloc leaves in new cells is Junk; a byte is a number, 0 ends a text.  *)
EXTENDS Integers, Sequences

CONSTANTS
  Texts,     \* what a program writes or prints: sequences of bytes
  Initial,   \* the capacity of a new string: 100 in the code
  MaxText    \* bound on the length of the text

ASSUME StrAssumption ==
  Initial \in Nat \ {0} /\ MaxText \in Nat /\ Texts \subseteq Seq(Nat \ {0})

VARIABLES
  buf,   \* the cells and the index of the first that is not used
  text   \* what was written since the string was made or cleared

strVars == <<buf, text>>
Junk == -1

Cells(n) == [k \in 1..n |-> Junk]
Room(s) == Len(s.d) - s.i

(* Bytes b are stored from the first unused cell on, inside the buffer.    *)
Store(s, b) ==
  [s EXCEPT !.d = [k \in DOMAIN @ |-> IF k \in s.i + 1..s.i + Len(b) THEN b[k - s.i] ELSE @[k]]]

(* Fault: the buffer grows by one byte less.                               *)
utstring_reserve_less(s, amt) ==
  IF Room(s) < amt THEN [s EXCEPT !.d = @ \o Cells(amt - Room(s) - 1)] ELSE s
utstring_reserve(s, amt) ==
  IF Room(s) < amt THEN [s EXCEPT !.d = @ \o Cells(amt)] ELSE s

utstring_clear(s) == Store([s EXCEPT !.i = 0], <<0>>)
utstring_init == utstring_clear(utstring_reserve([d |-> << >>, i |-> 0], Initial))

utstring_bincpy(s, b) ==
  LET r == Store(utstring_reserve(s, Len(b) + 1), Append(b, 0))
  IN  [r EXCEPT !.i = @ + Len(b)]

vsnprintf(s, b) ==
  IF Len(b) < Room(s) THEN Store(s, Append(b, 0))
  ELSE IF Room(s) = 0 THEN s ELSE Store(s, Append(SubSeq(b, 1, Room(s) - 1), 0))

(* A text that does not fit is printed again when the buffer has grown.    *)
utstring_printf_va(s, b) ==
  LET r == vsnprintf(s, b) IN
  IF Len(b) < Room(s) THEN [r EXCEPT !.i = @ + Len(b)]
  ELSE LET g == vsnprintf(utstring_reserve(r, Len(b) + 1), b)
       IN  [g EXCEPT !.i = @ + Len(b)]

-----------------------------------------------------------------------------
StrInit == buf = utstring_init /\ text = << >>

sg_str_write(b) ==
  /\ b # << >> /\ Len(text) + Len(b) <= MaxText
  /\ buf' = utstring_bincpy(buf, b) /\ text' = text \o b
sg_str_printf(b) ==
  /\ Len(text) + Len(b) <= MaxText
  /\ buf' = utstring_printf_va(buf, b) /\ text' = text \o b
sg_str_clear == buf' = utstring_clear(buf) /\ text' = << >>

StrNext == sg_str_clear \/ \E b \in Texts : sg_str_write(b) \/ sg_str_printf(b)
StrSpec == StrInit /\ [][StrNext]_strVars

-----------------------------------------------------------------------------
sg_str_length == buf.i
sg_str_content ==
  SubSeq(buf.d, 1, (CHOOSE k \in DOMAIN buf.d : buf.d[k] = 0 /\ \A j \in 1..k - 1 : buf.d[j] # 0) - 1)

(* The text a program gets back is all it wrote, ended inside the buffer,  *)
(* however often the buffer had to grow (utstring.h:115, 145).             *)
StrHolds ==
  /\ sg_str_length = Len(text) /\ buf.i < Len(buf.d)
  /\ sg_str_content = text /\ buf.d[buf.i + 1] = 0
=============================================================================
