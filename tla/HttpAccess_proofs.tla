-------------------------- MODULE HttpAccess_proofs --------------------------
(***************************************************************************)
(* Proofs about HttpAccess, for any limits and any body.                   *)
(***************************************************************************)
EXTENDS HttpAccess, FiniteSetTheorems, Induction_proofs, TLAPS

(* Nothing of the request has reached the application or the disk.         *)
Untouched == served = 0 /\ payload = 0 /\ fields = 0 /\ uplds = << >> /\ streams = 0

AuthInv ==
  /\ st = "idle" => Untouched /\ ~canceled /\ (granted <=> ~env.auth)
  /\ ~granted \/ canceled => Untouched
  /\ st = "open" /\ ~granted => canceled

(* Every stream that upld_cb opened belongs to one upload on the list.     *)
StreamInv ==
  /\ streams = Cardinality(OpenUploads) /\ IsFiniteSet(OpenUploads)
  /\ st = "closed" => uplds = << >>

(* A form part is continued only where it was started.                     *)
ItemInv ==
  /\ st = "idle" => item = "none"
  /\ st = "open" /\ item = "upload" => uplds # << >>

IInv == TypeOK /\ AuthInv /\ StreamInv /\ ItemInv

-----------------------------------------------------------------------------
LEMMA EmptyList == ASSUME uplds = << >> PROVE IsFiniteSet(OpenUploads) /\ Cardinality(OpenUploads) = 0
<1>1. OpenUploads = {}
  BY DEF OpenUploads
<1> QED
  BY <1>1, FS_EmptySet

(* The invariant holds initially.                                          *)
LEMMA InitInv == Init => IInv
<1> SUFFICES ASSUME Init PROVE IInv
  OBVIOUS
<1>1. TypeOK
  <2>1. << >> \in Seq(Upload)
    OBVIOUS
  <2>2. granted \in BOOLEAN
    BY AccessAssumption DEF Init
  <2> QED
    BY <2>1, <2>2 DEF Init, TypeOK
<1>2. AuthInv
  BY AccessAssumption DEF Init, AuthInv, Untouched
<1>3. StreamInv
  BY EmptyList DEF Init, StreamInv
<1> QED
  BY <1>1, <1>2, <1>3 DEF IInv, ItemInv, Init

(* A piece written to the last upload leaves the streams alone.            *)
LEMMA WriteMore ==
  ASSUME NEW list \in Seq(Upload), list # << >>, NEW n \in Nat, Write(list, n)
  PROVE  /\ uplds' \in Seq(Upload) /\ Len(uplds') = Len(list)
         /\ \A i \in 1..Len(list) : uplds'[i].open = list[i].open
<1>1. PICK k \in Nat : uplds' = [list EXCEPT ![Len(list)] = Grown(@, n, k)]
  <2>1. (IF env.short THEN 0..n ELSE {n}) \subseteq Nat
    OBVIOUS
  <2> QED
    BY <2>1 DEF Write
<1>2. Len(list) \in 1..Len(list) /\ list \in [1..Len(list) -> Upload]
  OBVIOUS
<1>3. \A u \in Upload : Grown(u, n, k) \in Upload /\ Grown(u, n, k).open = u.open
  <2> SUFFICES ASSUME NEW u \in Upload
               PROVE  Grown(u, n, k) \in Upload /\ Grown(u, n, k).open = u.open
    OBVIOUS
  <2>1. u.size + n \in Nat /\ u.stored + k \in Nat
    BY DEF Upload
  <2> QED
    BY <2>1 DEF Upload, Grown
<1>4. uplds' \in [1..Len(list) -> Upload]
  BY <1>1, <1>2, <1>3
<1>5. \A i \in 1..Len(list) : uplds'[i].open = list[i].open
  BY <1>1, <1>2, <1>3
<1> QED
  BY <1>4, <1>5

(* A new upload is the last of the list.                                   *)
LEMMA AppendUpload ==
  ASSUME NEW s \in Seq(Upload), NEW u \in Upload
  PROVE  /\ Append(s, u) \in Seq(Upload) /\ Append(s, u) # << >>
         /\ Len(Append(s, u)) = Len(s) + 1 /\ Len(s) \in Nat
         /\ \A i \in 1..Len(s) : Append(s, u)[i] = s[i]
         /\ Append(s, u)[Len(s) + 1] = u
  OBVIOUS

-----------------------------------------------------------------------------
(* A piece of the body: it comes for a granted request only.               *)
LEMMA PieceType ==
  ASSUME IInv, NEW ok \in BOOLEAN, Piece(ok), NEW parsed \in BOOLEAN, ParsedAs(parsed),
         item' \in {"none", "field", "upload"}, uplds' \in Seq(Upload),
         payload' \in Nat, fields' \in Nat, totalFields' \in Nat, totalUplds' \in Nat,
         streams' \in Nat, corrupted' = corrupted
  PROVE  TypeOK'
<1>1. st' \in {"open", "refused"} /\ pieces' \in Nat /\ pp' \in BOOLEAN
  BY DEF Piece, ParsedAs, IInv, TypeOK
<1>2. UNCHANGED <<env, ended, granted, canceled, handle, served>>
  BY DEF Piece, authVars
<1> QED
  BY <1>1, <1>2 DEF IInv, TypeOK

LEMMA PieceAuth ==
  ASSUME IInv, NEW ok \in BOOLEAN, Piece(ok)
  PROVE  AuthInv'
  BY DEF IInv, TypeOK, AuthInv, Piece, authVars

(* A piece that opens no stream and leaves the uploads' streams alone.     *)
LEMMA StreamsSame ==
  ASSUME IInv, streams' = streams, st' # "closed",
         OpenUploads' = OpenUploads
  PROVE  StreamInv'
  BY DEF IInv, StreamInv

(* A piece that opens the stream of a new last upload.                     *)
LEMMA OpenedOne ==
  ASSUME IInv, streams' = streams + 1, st' # "closed",
         Len(uplds) \in Nat, Len(uplds') = Len(uplds) + 1,
         \A i \in 1..Len(uplds) : uplds'[i].open = uplds[i].open,
         uplds'[Len(uplds) + 1].open
  PROVE  StreamInv'
<1>1. OpenUploads' = OpenUploads \cup {Len(uplds) + 1}
  BY DEF OpenUploads
<1>2. Len(uplds) + 1 \notin OpenUploads
  BY DEF OpenUploads
<1>3. IsFiniteSet(OpenUploads') /\ Cardinality(OpenUploads') = Cardinality(OpenUploads) + 1
  BY <1>1, <1>2, FS_AddElement DEF IInv, StreamInv
<1> QED
  BY <1>3 DEF IInv, StreamInv

LEMMA PieceInv == IInv /\ BodyPiece => IInv'
<1> SUFFICES ASSUME IInv, BodyPiece PROVE IInv'
  OBVIOUS
<1> USE DEF Piece, authVars, ParsedAs
<1>0. uplds \in Seq(Upload) /\ Sizes \subseteq Nat
  BY AccessAssumption DEF IInv, TypeOK, Sizes
<1>1. ASSUME NEW n \in Sizes, Raw(n) PROVE IInv'
  <2>1. TypeOK'
    <3>1. payload' \in Nat
      BY <1>0, <1>1 DEF IInv, TypeOK, Raw
    <3> QED
      BY <1>1, <3>1, PieceType DEF Raw, Exceeds, IInv, TypeOK
  <2>2. AuthInv'
    BY <1>1, PieceAuth DEF Raw, Exceeds
  <2>3. StreamInv'
    BY <1>1, StreamsSame DEF Raw, OpenUploads
  <2> QED
    BY <1>1, <2>1, <2>2, <2>3 DEF IInv, ItemInv, Raw
<1>2. ASSUME NEW n \in Sizes, Field(n) PROVE IInv'
  <2>1. TypeOK'
    <3>1. fields' \in Nat /\ totalFields' \in Nat
      BY <1>0, <1>2 DEF IInv, TypeOK, Field
    <3> QED
      BY <1>2, <3>1, PieceType DEF Field, Exceeds, IInv, TypeOK
  <2>2. AuthInv'
    BY <1>2, PieceAuth DEF Field, Exceeds
  <2>3. StreamInv'
    BY <1>2, StreamsSame DEF Field, OpenUploads
  <2> QED
    BY <1>2, <2>1, <2>2, <2>3 DEF IInv, ItemInv, Field
<1>3. ASSUME NEW n \in Sizes, UploadStart(n) PROVE IInv'
  <2> DEFINE list == Append(uplds, NewUpload)
  <2>1. /\ list \in Seq(Upload) /\ list # << >>
        /\ Len(list) = Len(uplds) + 1 /\ Len(uplds) \in Nat
        /\ \A i \in 1..Len(uplds) : list[i] = uplds[i]
        /\ list[Len(uplds) + 1] = NewUpload
    <3>1. NewUpload \in Upload
      BY DEF NewUpload, Upload
    <3> QED
      BY <1>0, <3>1, AppendUpload
  <2>2. Write(list, n) /\ streams' = streams + 1 /\ st' # "closed"
    BY <1>3 DEF UploadStart
  <2> HIDE DEF list
  <2>3. /\ uplds' \in Seq(Upload) /\ Len(uplds') = Len(list)
        /\ \A i \in 1..Len(list) : uplds'[i].open = list[i].open
    BY <1>0, <2>1, <2>2, WriteMore
  <2>4. TypeOK'
    <3>1. totalUplds' \in Nat
      BY <1>0, <1>3 DEF IInv, TypeOK, UploadStart, Taken
    <3> QED
      BY <3>1, <2>3, <1>3, PieceType DEF IInv, TypeOK, UploadStart, Exceeds
  <2>5. AuthInv'
    BY <1>3, PieceAuth DEF UploadStart, Exceeds
  <2>6. StreamInv'
    <3>1. NewUpload.open
      BY DEF NewUpload
    <3> QED
      BY <3>1, <2>1, <2>2, <2>3, OpenedOne
  <2>7. uplds' # << >> /\ st' # "idle"
    BY <1>3, <2>1, <2>3 DEF UploadStart
  <2> QED
    BY <2>4, <2>5, <2>6, <2>7 DEF IInv, ItemInv
<1>4. ASSUME NEW n \in Sizes, UploadMore(n) PROVE IInv'
  <2>1. uplds # << >> /\ Write(uplds, n) /\ streams' = streams /\ st' # "closed"
    BY <1>4 DEF UploadMore, IInv, ItemInv
  <2>2. /\ uplds' \in Seq(Upload) /\ Len(uplds') = Len(uplds)
        /\ \A i \in 1..Len(uplds) : uplds'[i].open = uplds[i].open
    BY <1>0, <2>1, WriteMore
  <2>3. TypeOK'
    <3>1. totalUplds' \in Nat
      BY <1>0, <1>4 DEF IInv, TypeOK, UploadMore, Taken
    <3> QED
      BY <3>1, <2>2, <1>4, PieceType DEF IInv, TypeOK, UploadMore, Exceeds
  <2>4. AuthInv'
    BY <1>4, PieceAuth DEF UploadMore, Exceeds
  <2>5. StreamInv'
    <3>1. OpenUploads' = OpenUploads
      BY <2>2 DEF OpenUploads
    <3> QED
      BY <3>1, <2>1, StreamsSame
  <2>6. uplds' # << >> /\ st' # "idle"
    BY <1>0, <1>4, <2>1, <2>2 DEF UploadMore
  <2> QED
    BY <2>3, <2>4, <2>5, <2>6 DEF IInv, ItemInv
<1>5. ASSUME FieldNoMem \/ UploadWriteError PROVE IInv'
  <2>1. TypeOK'
    BY <1>5, PieceType DEF IInv, TypeOK, FieldNoMem, UploadWriteError
  <2>2. AuthInv'
    BY <1>5, PieceAuth DEF FieldNoMem, UploadWriteError
  <2>3. StreamInv'
    BY <1>5, StreamsSame DEF FieldNoMem, UploadWriteError, OpenUploads
  <2> QED
    BY <1>5, <2>1, <2>2, <2>3 DEF IInv, ItemInv, FieldNoMem, UploadWriteError
<1>6. ASSUME UploadRefused \/ UploadNoMem PROVE IInv'
  <2>1. PICK u \in Upload : ~u.open /\ (uplds' = uplds \/ uplds' = Append(uplds, u))
    <3>1. /\ [NewUpload EXCEPT !.open = FALSE] \in Upload
          /\ [NewUpload EXCEPT !.open = FALSE, !.live = FALSE] \in Upload
          /\ ~[NewUpload EXCEPT !.open = FALSE].open
          /\ ~[NewUpload EXCEPT !.open = FALSE, !.live = FALSE].open
      BY DEF NewUpload, Upload
    <3> QED
      BY <1>6, <3>1 DEF UploadRefused, UploadNoMem
  <2>2. streams' = streams /\ st' = "refused" /\ item' = "upload"
    BY <1>6 DEF UploadRefused, UploadNoMem
  <2>3. uplds' \in Seq(Upload) /\ OpenUploads' = OpenUploads
    <3>1. CASE uplds' = uplds
      BY <3>1, <1>0 DEF OpenUploads
    <3>2. CASE uplds' = Append(uplds, u)
      <4>1. /\ uplds' \in Seq(Upload) /\ Len(uplds') = Len(uplds) + 1 /\ Len(uplds) \in Nat
            /\ \A i \in 1..Len(uplds) : uplds'[i] = uplds[i]
            /\ uplds'[Len(uplds) + 1] = u
        BY <3>2, <1>0, AppendUpload
      <4> QED
        BY <4>1, <2>1 DEF OpenUploads
    <3> QED
      BY <2>1, <3>1, <3>2
  <2>4. TypeOK'
    BY <1>6, <2>2, <2>3, PieceType DEF IInv, TypeOK, UploadRefused, UploadNoMem
  <2>5. AuthInv'
    BY <1>6, PieceAuth DEF UploadRefused, UploadNoMem
  <2>6. StreamInv'
    BY <2>2, <2>3, StreamsSame
  <2> QED
    BY <2>2, <2>4, <2>5, <2>6 DEF IInv, ItemInv
<1>7. ASSUME UploadStartWriteError PROVE IInv'
  <2> DEFINE list == Append(uplds, NewUpload)
  <2>1. /\ list \in Seq(Upload) /\ list # << >>
        /\ Len(list) = Len(uplds) + 1 /\ Len(uplds) \in Nat
        /\ \A i \in 1..Len(uplds) : list[i] = uplds[i]
        /\ list[Len(uplds) + 1].open
    <3>1. NewUpload \in Upload /\ NewUpload.open
      BY DEF NewUpload, Upload
    <3> QED
      BY <1>0, <3>1, AppendUpload
  <2>2. uplds' = list /\ streams' = streams + 1 /\ st' = "refused" /\ item' = "upload"
    BY <1>7 DEF UploadStartWriteError
  <2> HIDE DEF list
  <2>3. StreamInv'
    BY <2>1, <2>2, OpenedOne DEF IInv, TypeOK
  <2>4. TypeOK'
    BY <1>7, <2>1, <2>2, PieceType DEF IInv, TypeOK, UploadStartWriteError
  <2>5. AuthInv'
    BY <1>7, PieceAuth DEF UploadStartWriteError
  <2> QED
    BY <2>2, <2>3, <2>4, <2>5 DEF IInv, ItemInv
<1> QED
  BY <1>1, <1>2, <1>3, <1>4, <1>5, <1>6, <1>7 DEF BodyPiece

(* The steps that are no piece of the body.                                *)
LEMMA CallInv ==
  ASSUME IInv, FirstNoMem \/ First \/ FirstAuth \/ BodyEnd \/ Serve \/ Canceled
  PROVE  IInv'
<1> USE DEF bodyVars, authVars
<1>2. TypeOK'
  <2>1. CASE FirstNoMem \/ First \/ BodyEnd \/ Canceled
    BY <2>1 DEF FirstNoMem, First, BodyEnd, Canceled, IInv, TypeOK
  <2>2. CASE FirstAuth
    BY <2>2 DEF FirstAuth, AuthDispatch, IInv, TypeOK
  <2>3. CASE Serve
    BY <2>3 DEF Serve, IInv, TypeOK
  <2> QED
    BY <2>1, <2>2, <2>3
<1>3. AuthInv'
  <2>1. CASE FirstNoMem \/ First \/ BodyEnd \/ Canceled
    BY <2>1 DEF FirstNoMem, First, BodyEnd, Canceled, IInv, TypeOK, AuthInv, Untouched
  <2>2. CASE FirstAuth
    BY <2>2 DEF FirstAuth, AuthDispatch, IInv, TypeOK, AuthInv, Untouched
  <2>3. CASE Serve
    BY <2>3 DEF Serve, IInv, TypeOK, AuthInv, Untouched
  <2> QED
    BY <2>1, <2>2, <2>3
<1>4. UNCHANGED <<uplds, streams>> /\ st' # "closed"
  BY DEF FirstNoMem, First, FirstAuth, AuthDispatch, BodyEnd, Serve, Canceled, IInv, TypeOK
<1>5. StreamInv'
  BY <1>4, StreamsSame DEF OpenUploads
<1>6. ItemInv'
  <2>1. CASE st = "idle"
    BY <2>1 DEF FirstNoMem, First, FirstAuth, BodyEnd, Serve, Canceled, IInv, ItemInv
  <2>2. CASE st = "open"
    BY <2>2, <1>4 DEF FirstNoMem, First, FirstAuth, BodyEnd, Serve, Canceled, IInv, ItemInv
  <2> QED
    BY <2>1, <2>2 DEF FirstNoMem, First, FirstAuth, BodyEnd, Serve, Canceled
<1> QED
  BY <1>2, <1>3, <1>5, <1>6 DEF IInv

(* The end of the request.                                                 *)
LEMMA RccInv == ASSUME IInv, Rcc PROVE IInv'
<1>1. uplds' = << >> /\ st' = "closed" /\ streams' = 0
  <2>1. streams - Cardinality(OpenUploads) = 0
    BY DEF IInv, TypeOK, StreamInv
  <2> QED
    BY <2>1 DEF Rcc, Cleanup
<1>2. TypeOK'
  BY <1>1 DEF Rcc, Cleanup, authVars, IInv, TypeOK
<1>3. AuthInv'
  BY <1>1 DEF Rcc, authVars, IInv, AuthInv, Untouched
<1>4. StreamInv'
  <2>1. OpenUploads' = {}
    BY <1>1 DEF OpenUploads
  <2> QED
    BY <1>1, <2>1, FS_EmptySet DEF StreamInv
<1> QED
  BY <1>1, <1>2, <1>3, <1>4 DEF IInv, ItemInv

LEMMA NextInv == IInv /\ [Next]_vars => IInv'
<1>1. IInv /\ Next => IInv'
  BY PieceInv, CallInv, RccInv DEF Next
<1>2. IInv /\ UNCHANGED vars => IInv'
  BY DEF vars, IInv, TypeOK, AuthInv, Untouched, StreamInv, OpenUploads, ItemInv
<1> QED
  BY <1>1, <1>2

LEMMA InvAlways == Spec => []IInv
  BY InitInv, NextInv, PTL DEF Spec

-----------------------------------------------------------------------------
(* Nothing on the list was freed; every upload on it is all there.         *)
Live(s) == \A i \in 1..Len(s) : s[i].live
Whole(s) == \A i \in 1..Len(s) : s[i].open /\ s[i].stored = s[i].size

UploadInv ==
  /\ st \in {"idle", "open"} => served = 0
  /\ ~env.noMem => ~corrupted /\ Live(uplds)
  /\ ~env.short /\ (st = "open" \/ served > 0) => Whole(uplds)

(* A piece is added to the size and to the bytes of the last upload.       *)
LEMMA WriteKeeps ==
  ASSUME NEW list \in Seq(Upload), list # << >>, NEW n \in Nat, Write(list, n)
  PROVE  /\ Live(list) => Live(uplds')
         /\ ~env.short /\ Whole(list) => Whole(uplds')
<1>1. PICK k \in IF env.short THEN 0..n ELSE {n} : uplds' = [list EXCEPT ![Len(list)] = Grown(@, n, k)]
  BY DEF Write
<1>2. Len(list) \in 1..Len(list) /\ list \in [1..Len(list) -> Upload] /\ Len(list) \in Nat
  OBVIOUS
<1>3. /\ DOMAIN uplds' = 1..Len(list)
      /\ \A i \in 1..Len(list) : uplds'[i] = IF i = Len(list) THEN Grown(list[i], n, k) ELSE list[i]
  BY <1>1, <1>2
<1>4. Len(uplds') = Len(list)
  <2>1. uplds' \in Seq(Upload)
    BY WriteMore
  <2> QED
    BY <2>1, <1>2, WriteMore
<1>5. ASSUME Live(list) PROVE Live(uplds')
  <2>1. ASSUME NEW i \in 1..Len(list) PROVE uplds'[i].live
    <3>1. list[i].live
      BY <1>5 DEF Live
    <3> QED
      BY <3>1, <1>3 DEF Grown
  <2> QED
    BY <2>1, <1>4 DEF Live
<1>6. ASSUME ~env.short, Whole(list) PROVE Whole(uplds')
  <2>1. k = n
    BY <1>6
  <2>2. ASSUME NEW i \in 1..Len(list)
        PROVE  uplds'[i].open /\ uplds'[i].stored = uplds'[i].size
    <3>1. list[i] \in Upload /\ list[i].open /\ list[i].stored = list[i].size
      BY <1>2, <1>6 DEF Whole
    <3> QED
      BY <3>1, <2>1, <1>3 DEF Grown
  <2> QED
    BY <2>2, <1>4 DEF Whole
<1> QED
  BY <1>5, <1>6

LEMMA AppendKeeps ==
  ASSUME NEW s \in Seq(Upload), NEW u \in Upload
  PROVE  /\ Live(s) /\ u.live => Live(Append(s, u))
         /\ Whole(s) /\ u.open /\ u.stored = u.size => Whole(Append(s, u))
  BY AppendUpload DEF Live, Whole

(* A piece that leaves the uploads alone, or ends the body with a refusal. *)
LEMMA PieceUploads ==
  ASSUME IInv, UploadInv, NEW ok \in BOOLEAN, Piece(ok), corrupted' = corrupted,
         ~env.noMem /\ Live(uplds) => Live(uplds'),
         ok /\ ~env.short /\ Whole(uplds) => Whole(uplds')
  PROVE  UploadInv'
<1>1. st = "open" /\ served' = served /\ env' = env /\ st' = IF ok THEN "open" ELSE "refused"
  BY DEF Piece
<1>2. served = 0
  BY <1>1 DEF UploadInv
<1> QED
  BY <1>1, <1>2 DEF UploadInv

LEMMA BodyUploads == ASSUME IInv, UploadInv, BodyPiece PROVE UploadInv'
<1>0. uplds \in Seq(Upload) /\ Sizes \subseteq Nat
  BY AccessAssumption DEF IInv, TypeOK, Sizes
<1>1. ASSUME NEW n \in Sizes, Raw(n) \/ Field(n) PROVE UploadInv'
  BY <1>1, PieceUploads DEF Raw, Field, Exceeds
<1>2. ASSUME NEW n \in Sizes, UploadStart(n) PROVE UploadInv'
  <2> DEFINE list == Append(uplds, NewUpload)
  <2>1. NewUpload \in Upload /\ NewUpload.live /\ NewUpload.open /\ NewUpload.stored = NewUpload.size
    BY DEF NewUpload, Upload
  <2>2. /\ list \in Seq(Upload) /\ list # << >>
        /\ (Live(uplds) => Live(list)) /\ (Whole(uplds) => Whole(list))
    BY <1>0, <2>1, AppendUpload, AppendKeeps
  <2>3. Write(list, n)
    BY <1>2 DEF UploadStart
  <2> HIDE DEF list
  <2>4. (Live(list) => Live(uplds')) /\ (~env.short /\ Whole(list) => Whole(uplds'))
    BY <1>0, <2>2, <2>3, WriteKeeps
  <2> QED
    BY <1>2, <2>2, <2>4, PieceUploads DEF UploadStart, Exceeds
<1>3. ASSUME NEW n \in Sizes, UploadMore(n) PROVE UploadInv'
  <2>1. uplds # << >> /\ Write(uplds, n)
    BY <1>3 DEF UploadMore, Piece, IInv, ItemInv
  <2>2. (Live(uplds) => Live(uplds')) /\ (~env.short /\ Whole(uplds) => Whole(uplds'))
    BY <1>0, <2>1, WriteKeeps
  <2> QED
    BY <1>3, <2>2, PieceUploads DEF UploadMore, Exceeds
<1>4. ASSUME FieldNoMem \/ UploadWriteError PROVE UploadInv'
  BY <1>4, PieceUploads DEF FieldNoMem, UploadWriteError
<1>5. ASSUME UploadStartWriteError \/ UploadRefused PROVE UploadInv'
  <2>1. PICK u \in Upload : u.live /\ uplds' = Append(uplds, u)
    <3>1. /\ NewUpload \in Upload /\ NewUpload.live
          /\ [NewUpload EXCEPT !.open = FALSE] \in Upload /\ [NewUpload EXCEPT !.open = FALSE].live
      BY DEF NewUpload, Upload
    <3> QED
      BY <1>5, <3>1 DEF UploadStartWriteError, UploadRefused
  <2>2. Live(uplds) => Live(uplds')
    BY <1>0, <2>1, AppendKeeps
  <2> QED
    BY <1>5, <2>2, PieceUploads DEF UploadStartWriteError, UploadRefused
<1>6. ASSUME UploadNoMem PROVE UploadInv'
  BY <1>6, PieceUploads DEF UploadNoMem
<1> QED
  BY <1>1, <1>2, <1>3, <1>4, <1>5, <1>6 DEF BodyPiece

(* The calls of the handler and the end of the request.                    *)
LEMMA CallUploads ==
  ASSUME IInv, UploadInv, FirstNoMem \/ First \/ FirstAuth \/ BodyEnd \/ Serve \/ Canceled
  PROVE  UploadInv'
<1> USE DEF bodyVars, authVars
<1>1. CASE FirstNoMem \/ First \/ FirstAuth
  <2>1. st = "idle" /\ UNCHANGED <<env, uplds, served, corrupted>>
    BY <1>1 DEF FirstNoMem, First, FirstAuth
  <2>2. served = 0 /\ uplds = << >>
    BY <2>1 DEF IInv, AuthInv, Untouched
  <2> QED
    BY <2>1, <2>2 DEF UploadInv, Whole
<1>2. CASE BodyEnd \/ Canceled
  BY <1>2 DEF BodyEnd, Canceled, UploadInv
<1>3. CASE Serve
  <2>1. st = "open" /\ st' \in {"queued", "refused"} /\ UNCHANGED <<env, uplds, corrupted>>
    BY <1>3 DEF Serve
  <2> QED
    BY <2>1 DEF UploadInv
<1> QED
  BY <1>1, <1>2, <1>3

LEMMA RccUploads == ASSUME IInv, UploadInv, Rcc PROVE UploadInv'
<1>1. uplds' = << >> /\ st' = "closed" /\ env' = env
  BY DEF Rcc, Cleanup
<1>2. ~env.noMem => ~corrupted'
  BY DEF Rcc, Cleanup, UploadInv, Live
<1> QED
  BY <1>1, <1>2 DEF UploadInv, Live, Whole

LEMMA UploadsAlways == Spec => [](IInv /\ UploadInv)
<1>1. Init => IInv /\ UploadInv
  <2>1. Init => UploadInv
    BY DEF Init, UploadInv, Live, Whole
  <2> QED
    BY <2>1, InitInv
<1>2. IInv /\ UploadInv /\ [Next]_vars => (IInv /\ UploadInv)'
  <2> SUFFICES ASSUME IInv, UploadInv, [Next]_vars PROVE (IInv /\ UploadInv)'
    OBVIOUS
  <2>1. CASE Next
    BY <2>1, NextInv, BodyUploads, CallUploads, RccUploads DEF Next
  <2>2. CASE UNCHANGED vars
    BY <2>2, NextInv DEF vars, UploadInv, Live, Whole
  <2> QED
    BY <2>1, <2>2
<1> QED
  BY <1>1, <1>2, PTL DEF Spec

-----------------------------------------------------------------------------
(* The running sums of the sizes of a list.                                *)
Sums(s, f) ==
  /\ f \in [0..Len(s) -> Nat] /\ f[0] = 0
  /\ \A i \in 1..Len(s) : f[i] = f[i - 1] + s[i].size

(* The function that Total defines by recursion exists, and its last value *)
(* is that of any running sums.                                            *)
LEMMA TotalIs ==
  ASSUME NEW s \in Seq(Upload), NEW f, Sums(s, f)
  PROVE  Total(s) = f[Len(s)] /\ Total(s) \in Nat
<1> DEFINE Sum(g) == [i \in 0..Len(s) |-> IF i = 0 THEN 0 ELSE g[i - 1] + s[i].size]
           sum == CHOOSE g : g = Sum(g)
<1>1. Len(s) \in Nat /\ \A i \in 1..Len(s) : s[i].size \in Nat
  <2>1. Len(s) \in Nat /\ \A i \in 1..Len(s) : s[i] \in Upload
    OBVIOUS
  <2> QED
    BY <2>1 DEF Upload
<1>2. f = Sum(f)
  <2>1. \A i \in 0..Len(s) : f[i] = Sum(f)[i]
    BY <1>1 DEF Sums
  <2> QED
    BY <2>1 DEF Sums
<1>3. sum = Sum(sum)
  BY <1>2
<1>4. sum[0] = 0 /\ \A i \in 1..Len(s) : sum[i] = sum[i - 1] + s[i].size
  <2> HIDE DEF sum
  <2>1. \A i \in 0..Len(s) : Sum(sum)[i] = IF i = 0 THEN 0 ELSE sum[i - 1] + s[i].size
    OBVIOUS
  <2> HIDE DEF Sum
  <2> QED
    BY <1>1, <1>3, <2>1
<1> DEFINE S == {n \in Nat : n <= Len(s) => sum[n] = f[n]}
<1>5. Nat \subseteq S
  <2> HIDE DEF sum
  <2>1. 0 \in S
    BY <1>4 DEF Sums
  <2>2. ASSUME NEW n \in Nat, n \in S PROVE n + 1 \in S
    <3> SUFFICES ASSUME n + 1 <= Len(s) PROVE sum[n + 1] = f[n + 1]
      OBVIOUS
    <3>1. n + 1 \in 1..Len(s) /\ (n + 1) - 1 = n /\ n <= Len(s)
      BY <1>1
    <3>2. sum[n + 1] = sum[n] + s[n + 1].size
      BY <1>4, <3>1
    <3>3. f[n + 1] = f[n] + s[n + 1].size
      BY <3>1 DEF Sums
    <3> QED
      BY <2>2, <3>1, <3>2, <3>3
  <2> HIDE DEF S
  <2> QED
    BY <2>1, <2>2, InductionOnNat
<1>6. Total(s) = sum[Len(s)]
  BY DEF Total
<1>7. Len(s) \in S
  BY <1>1, <1>5
<1> QED
  BY <1>1, <1>6, <1>7 DEF Sums

(* Every list has running sums, which the next lemmas change with it.      *)
LEMMA SumsExist == ASSUME NEW s \in Seq(Upload) PROVE \E f : Sums(s, f)
<1>1. Len(s) \in Nat /\ \A i \in 1..Len(s) : s[i] \in Upload
  OBVIOUS
<1>2. \A i \in 1..Len(s) : s[i].size \in Nat
  BY <1>1 DEF Upload
<1> DEFINE Upto(n, f) == /\ f \in [0..n -> Nat] /\ f[0] = 0
                         /\ \A i \in 1..n : f[i] = f[i - 1] + s[i].size
           S == {n \in Nat : n <= Len(s) => \E f : Upto(n, f)}
<1>3. 0 \in S
  <2>1. Upto(0, [i \in 0..0 |-> 0])
    OBVIOUS
  <2> QED
    BY <2>1
<1>4. ASSUME NEW n \in Nat, n \in S PROVE n + 1 \in S
  <2> HIDE DEF Upto
  <2> SUFFICES ASSUME n + 1 <= Len(s) PROVE \E f : Upto(n + 1, f)
    OBVIOUS
  <2>1. PICK f : Upto(n, f)
    BY <1>1, <1>4
  <2> DEFINE g == [i \in 0..n + 1 |-> IF i = n + 1 THEN f[n] + s[n + 1].size ELSE f[i]]
  <2> USE DEF Upto
  <2>2. n + 1 \in 1..Len(s) /\ n \in 0..n
    BY <1>1
  <2>3. f[n] + s[n + 1].size \in Nat
    BY <1>2, <2>1, <2>2
  <2>4. \A i \in 0..n : g[i] = f[i] /\ f[i] \in Nat
    BY <2>1
  <2>5. g[n + 1] = f[n] + s[n + 1].size
    OBVIOUS
  <2>6. g \in [0..n + 1 -> Nat]
    BY <2>1, <2>3
  <2> HIDE DEF g
  <2>7. ASSUME NEW i \in 1..n + 1 PROVE g[i] = g[i - 1] + s[i].size
    <3>1. CASE i = n + 1
      BY <3>1, <2>4, <2>5
    <3>2. CASE i \in 1..n
      <4>1. i \in 0..n /\ i - 1 \in 0..n
        BY <3>2
      <4> QED
        BY <3>2, <4>1, <2>1, <2>4
    <3> QED
      BY <3>1, <3>2
  <2>8. g[0] = 0
    BY <2>1, <2>4
  <2>9. Upto(n + 1, g)
    BY <2>6, <2>7, <2>8
  <2> QED
    BY <2>9
<1>5. Len(s) \in S
  <2> HIDE DEF S
  <2> QED
    BY <1>1, <1>3, <1>4, InductionOnNat
<1> QED
  BY <1>5, <1>1 DEF Sums

LEMMA TotalEmpty == Total(<< >>) = 0
<1>1. Sums(<< >>, [i \in 0..0 |-> 0])
  BY DEF Sums
<1>2. << >> \in Seq(Upload) /\ Len(<< >>) = 0
  OBVIOUS
<1>3. Total(<< >>) = [i \in 0..0 |-> 0][Len(<< >>)]
  BY <1>1, <1>2, TotalIs
<1> QED
  BY <1>2, <1>3

LEMMA TotalAppend ==
  ASSUME NEW s \in Seq(Upload), NEW u \in Upload
  PROVE  Total(Append(s, u)) = Total(s) + u.size /\ Total(s) \in Nat
<1>1. PICK f : Sums(s, f)
  BY SumsExist
<1> DEFINE t == Append(s, u)
           g == [i \in 0..Len(s) + 1 |-> IF i = Len(s) + 1 THEN f[Len(s)] + u.size ELSE f[i]]
<1>2. /\ t \in Seq(Upload) /\ Len(t) = Len(s) + 1 /\ Len(s) \in Nat
      /\ \A i \in 1..Len(s) : t[i] = s[i]
      /\ t[Len(s) + 1] = u
  BY AppendUpload
<1>3. u.size \in Nat
  BY DEF Upload
<1>4. f[Len(s)] + u.size \in Nat /\ \A i \in 0..Len(s) : g[i] = f[i] /\ f[i] \in Nat
  BY <1>1, <1>2, <1>3 DEF Sums
<1>5. g[Len(s) + 1] = f[Len(s)] + u.size
  BY <1>2
<1>6. g \in [0..Len(s) + 1 -> Nat]
  BY <1>1, <1>4 DEF Sums
<1> HIDE DEF g, t
<1>7. ASSUME NEW i \in 1..Len(t) PROVE g[i] = g[i - 1] + t[i].size
  <2>1. CASE i = Len(s) + 1
    BY <2>1, <1>2, <1>4, <1>5
  <2>2. CASE i \in 1..Len(s)
    <3>1. i \in 0..Len(s) /\ i - 1 \in 0..Len(s)
      BY <2>2, <1>2
    <3> QED
      BY <2>2, <3>1, <1>1, <1>2, <1>4 DEF Sums
  <2> QED
    BY <2>1, <2>2, <1>2
<1>8. Sums(t, g)
  BY <1>1, <1>2, <1>4, <1>6, <1>7 DEF Sums
<1>9. Total(t) = g[Len(t)] /\ Total(s) = f[Len(s)] /\ Total(s) \in Nat
  BY <1>1, <1>2, <1>8, TotalIs
<1> QED
  BY <1>2, <1>5, <1>9 DEF t

LEMMA TotalLast ==
  ASSUME NEW s \in Seq(Upload), s # << >>, NEW u \in Upload
  PROVE  /\ Total([s EXCEPT ![Len(s)] = u]) = Total(s) - s[Len(s)].size + u.size
         /\ Total(s) \in Nat
<1>1. PICK f : Sums(s, f)
  BY SumsExist
<1> DEFINE t == [s EXCEPT ![Len(s)] = u]
           n == Len(s)
           g == [i \in 0..n |-> IF i = n THEN f[n - 1] + u.size ELSE f[i]]
<1>2. /\ t \in Seq(Upload) /\ Len(t) = n /\ n \in Nat /\ n >= 1 /\ s[n] \in Upload
      /\ \A i \in 1..n : t[i] = IF i = n THEN u ELSE s[i]
  OBVIOUS
<1>3. u.size \in Nat /\ s[n].size \in Nat
  BY <1>2 DEF Upload
<1>4. f[n - 1] \in Nat /\ f[n] = f[n - 1] + s[n].size
  BY <1>1, <1>2 DEF Sums
<1>5. g \in [0..n -> Nat]
  BY <1>1, <1>3, <1>4 DEF Sums
<1>6. g[n] = f[n - 1] + u.size /\ \A i \in 0..n - 1 : g[i] = f[i]
  <2> HIDE DEF g, t, n
  <2>1. n \in 0..n /\ \A i \in 0..n - 1 : i \in 0..n /\ i # n
    BY <1>2
  <2> USE DEF g
  <2> QED
    BY <2>1
<1> HIDE DEF g, t
<1>7. ASSUME NEW i \in 1..n PROVE g[i] = g[i - 1] + t[i].size
  <2>1. CASE i = n
    BY <2>1, <1>2, <1>6
  <2>2. CASE i \in 1..n - 1
    <3>1. i \in 0..n - 1 /\ i - 1 \in 0..n - 1 /\ i # n
      BY <2>2, <1>2
    <3> QED
      BY <2>2, <3>1, <1>1, <1>2, <1>6 DEF Sums
  <2> QED
    BY <2>1, <2>2, <1>2
<1>8. Sums(t, g)
  BY <1>1, <1>2, <1>5, <1>6, <1>7 DEF Sums
<1>9. Total(t) = g[n] /\ Total(s) = f[n] /\ Total(s) \in Nat
  BY <1>1, <1>2, <1>8, TotalIs
<1> QED
  BY <1>3, <1>4, <1>6, <1>9 DEF t

-----------------------------------------------------------------------------
(* What is counted: the totals are the sizes, and within the limits while  *)
(* the body is read; the last piece of a refused body may be over them.    *)
FieldLimits ==
  PayldLimit > 0 =>
    /\ totalFields = fields /\ fields <= PayldLimit + MaxPiece
    /\ st \in {"idle", "open"} \/ served > 0 => fields <= PayldLimit /\ payload <= PayldLimit
UploadLimits ==
  UpldsLimit > 0 =>
    /\ Total(uplds) <= UpldsLimit + MaxPiece
    /\ st # "closed" => totalUplds = Total(uplds)
    /\ st \in {"idle", "open"} \/ served > 0 => Total(uplds) <= UpldsLimit
LimitInv == (st \in {"idle", "open"} => served = 0) /\ FieldLimits /\ UploadLimits

(* A piece of a field, or of raw bytes, that is within its limit.          *)
LEMMA PieceFields ==
  ASSUME IInv, LimitInv, BodyPiece
  PROVE  FieldLimits'
<1>0. Sizes \subseteq Nat /\ (\A n \in Sizes : n <= MaxPiece) /\ payload \in Nat /\ fields \in Nat
      /\ totalFields \in Nat
  BY AccessAssumption DEF Sizes, IInv, TypeOK
<1>1. ASSUME NEW n \in Sizes, Raw(n) PROVE FieldLimits'
  BY <1>0, <1>1, AccessAssumption DEF Raw, Piece, Exceeds, LimitInv, FieldLimits
<1>2. ASSUME NEW n \in Sizes, Field(n) PROVE FieldLimits'
  BY <1>0, <1>2, AccessAssumption DEF Field, Piece, Exceeds, LimitInv, FieldLimits
<1>3. ASSUME UNCHANGED <<payload, fields, totalFields>>, NEW ok \in BOOLEAN, Piece(ok)
      PROVE  FieldLimits'
  BY <1>3 DEF Piece, LimitInv, FieldLimits
<1> QED
  BY <1>1, <1>2, <1>3 DEF BodyPiece, UploadStart, UploadMore, FieldNoMem, UploadStartWriteError,
    UploadWriteError, UploadRefused, UploadNoMem, Exceeds

(* What a piece does to the list and to its total.                         *)
LEMMA WriteTotal ==
  ASSUME NEW list \in Seq(Upload), list # << >>, NEW n \in Nat, Write(list, n)
  PROVE  Total(uplds') = Total(list) + n /\ Total(list) \in Nat
<1>1. PICK k \in Nat : uplds' = [list EXCEPT ![Len(list)] = Grown(@, n, k)]
  <2>1. (IF env.short THEN 0..n ELSE {n}) \subseteq Nat
    OBVIOUS
  <2> QED
    BY <2>1 DEF Write
<1> DEFINE u == Grown(list[Len(list)], n, k)
<1>2. list[Len(list)] \in Upload
  OBVIOUS
<1>3. list[Len(list)].size \in Nat /\ list[Len(list)].stored \in Nat
  BY <1>2 DEF Upload
<1>4. u \in Upload /\ u.size = list[Len(list)].size + n
  BY <1>2, <1>3 DEF Upload, Grown
<1>5. uplds' = [list EXCEPT ![Len(list)] = u]
  BY <1>1
<1> HIDE DEF u
<1>6. Total(uplds') = Total(list) - list[Len(list)].size + u.size /\ Total(list) \in Nat
  BY <1>4, <1>5, TotalLast
<1> QED
  BY <1>3, <1>4, <1>6

LEMMA PieceUploadLimits ==
  ASSUME IInv, LimitInv, BodyPiece
  PROVE  UploadLimits'
<1>0. /\ Sizes \subseteq Nat /\ \A n \in Sizes : n <= MaxPiece
      /\ uplds \in Seq(Upload) /\ totalUplds \in Nat
  BY AccessAssumption DEF Sizes, IInv, TypeOK
<1>1. Total(uplds) \in Nat
  BY <1>0, SumsExist, TotalIs
<1>2. ASSUME NEW n \in Nat, n <= MaxPiece, Total(uplds') = Total(uplds) + n,
             Piece(~Exceeds(UpldsLimit, totalUplds, n)), Taken(n)
      PROVE  UploadLimits'
  BY <1>0, <1>1, <1>2, AccessAssumption DEF Piece, Exceeds, Taken, LimitInv, UploadLimits
<1>3. ASSUME Total(uplds') = Total(uplds), totalUplds' = totalUplds, NEW ok \in BOOLEAN, Piece(ok)
      PROVE  UploadLimits'
  BY <1>1, <1>3, AccessAssumption DEF Piece, LimitInv, UploadLimits
<1>4. ASSUME NEW u \in Upload, u.size = 0
      PROVE  Total(Append(uplds, u)) = Total(uplds)
  BY <1>0, <1>1, <1>4, TotalAppend
<1>5. ASSUME NEW n \in Sizes, UploadStart(n) PROVE UploadLimits'
  <2> DEFINE list == Append(uplds, NewUpload)
  <2>1. NewUpload \in Upload /\ NewUpload.size = 0
    BY DEF NewUpload, Upload
  <2>2. list \in Seq(Upload) /\ list # << >> /\ Total(list) = Total(uplds)
    BY <1>0, <1>4, <2>1, AppendUpload
  <2>3. Write(list, n)
    BY <1>5 DEF UploadStart
  <2> HIDE DEF list
  <2>4. Total(uplds') = Total(uplds) + n
    BY <1>0, <2>2, <2>3, WriteTotal
  <2> QED
    BY <1>0, <1>2, <1>5, <2>4 DEF UploadStart
<1>6. ASSUME NEW n \in Sizes, UploadMore(n) PROVE UploadLimits'
  <2>1. uplds # << >> /\ Write(uplds, n)
    BY <1>6 DEF UploadMore, Piece, IInv, ItemInv
  <2>2. Total(uplds') = Total(uplds) + n
    BY <1>0, <2>1, WriteTotal
  <2> QED
    BY <1>0, <1>2, <1>6, <2>2 DEF UploadMore
<1>7. ASSUME UploadStartWriteError \/ UploadRefused \/ UploadNoMem PROVE UploadLimits'
  <2>1. /\ NewUpload \in Upload /\ NewUpload.size = 0
        /\ [NewUpload EXCEPT !.open = FALSE] \in Upload
        /\ [NewUpload EXCEPT !.open = FALSE].size = 0
        /\ [NewUpload EXCEPT !.open = FALSE, !.live = FALSE] \in Upload
        /\ [NewUpload EXCEPT !.open = FALSE, !.live = FALSE].size = 0
    BY DEF NewUpload, Upload
  <2>2. uplds' = uplds \/ \E u \in Upload : u.size = 0 /\ uplds' = Append(uplds, u)
    BY <1>7, <2>1 DEF UploadStartWriteError, UploadRefused, UploadNoMem
  <2>3. Total(uplds') = Total(uplds)
    <3>1. CASE uplds' = uplds
      BY <3>1
    <3>2. ASSUME NEW u \in Upload, u.size = 0, uplds' = Append(uplds, u)
          PROVE  Total(uplds') = Total(uplds)
      BY <3>2, <1>4
    <3> QED
      BY <2>2, <3>1, <3>2
  <2> QED
    BY <1>3, <1>7, <2>3 DEF UploadStartWriteError, UploadRefused, UploadNoMem
<1>8. ASSUME NEW n \in Sizes, Raw(n) \/ Field(n) PROVE UploadLimits'
  BY <1>3, <1>8 DEF Raw, Field, Exceeds
<1>9. ASSUME FieldNoMem \/ UploadWriteError PROVE UploadLimits'
  BY <1>3, <1>9 DEF FieldNoMem, UploadWriteError
<1> QED
  BY <1>5, <1>6, <1>7, <1>8, <1>9 DEF BodyPiece

(* The calls of the handler take no piece.                                 *)
LEMMA CallLimits ==
  ASSUME IInv, LimitInv, FirstNoMem \/ First \/ FirstAuth \/ BodyEnd \/ Serve \/ Canceled
  PROVE  LimitInv'
<1> USE DEF bodyVars
<1>1. UNCHANGED <<payload, fields, totalFields, uplds, totalUplds>>
  BY DEF FirstNoMem, First, FirstAuth, BodyEnd, Serve, Canceled
<1>2. st \in {"idle", "open"} /\ st' # "closed" /\ served \in Nat
  BY DEF FirstNoMem, First, FirstAuth, AuthDispatch, BodyEnd, Serve, Canceled, IInv, TypeOK
<1>3. st' \in {"idle", "open"} => served' = served
  BY DEF FirstNoMem, First, FirstAuth, BodyEnd, Serve, Canceled
<1>4. FieldLimits' /\ UploadLimits'
  BY <1>1, <1>2 DEF LimitInv, FieldLimits, UploadLimits
<1> QED
  BY <1>2, <1>3, <1>4 DEF LimitInv

LEMMA RccLimits == ASSUME IInv, LimitInv, Rcc PROVE LimitInv'
<1>1. UNCHANGED <<payload, fields, totalFields, served>> /\ uplds' = << >> /\ st' = "closed"
  BY DEF Rcc, Cleanup
<1>2. Total(uplds') = 0
  BY <1>1, TotalEmpty
<1>3. UploadLimits'
  BY <1>1, <1>2, AccessAssumption DEF UploadLimits
<1>4. FieldLimits'
  BY <1>1 DEF LimitInv, FieldLimits
<1> QED
  BY <1>1, <1>3, <1>4 DEF LimitInv

LEMMA LimitsAlways == Spec => [](IInv /\ LimitInv)
<1>1. Init => LimitInv
  BY TotalEmpty, AccessAssumption DEF Init, LimitInv, FieldLimits, UploadLimits
<1>2. IInv /\ LimitInv /\ [Next]_vars => (IInv /\ LimitInv)'
  <2> SUFFICES ASSUME IInv, LimitInv, [Next]_vars PROVE (IInv /\ LimitInv)'
    OBVIOUS
  <2>1. CASE BodyPiece
    <3>1. st = "open" /\ served' = served
      BY <2>1 DEF BodyPiece, Raw, Field, UploadStart, UploadMore, FieldNoMem, UploadStartWriteError,
        UploadWriteError, UploadRefused, UploadNoMem, Piece
    <3> QED
      BY <2>1, <3>1, NextInv, PieceFields, PieceUploadLimits DEF LimitInv, Next
  <2>2. CASE FirstNoMem \/ First \/ FirstAuth \/ BodyEnd \/ Serve \/ Canceled \/ Rcc
    BY <2>2, NextInv, CallLimits, RccLimits DEF Next
  <2>3. CASE UNCHANGED vars
    BY <2>3, NextInv DEF vars, LimitInv, FieldLimits, UploadLimits
  <2> QED
    BY <2>1, <2>2, <2>3 DEF Next
<1> QED
  BY <1>1, <1>2, InitInv, PTL DEF Spec

(* The variables keep their types.                                         *)
THEOREM TypeCorrect == Spec => []TypeOK
<1>1. IInv => TypeOK
  BY DEF IInv
<1> QED
  BY <1>1, InvAlways, PTL

(* A request that was denied or canceled is never served, and nothing of   *)
(* its body is kept, whatever the callback and the client do.              *)
THEOREM AccessControlled == Spec => []OnlyGrantedIsServed
<1>1. IInv => OnlyGrantedIsServed
  BY DEF IInv, TypeOK, AuthInv, Untouched, OnlyGrantedIsServed
<1> QED
  BY <1>1, InvAlways, PTL

(* Every upload stream is freed by the end of the request.                 *)
THEOREM NoStreamLeft == Spec => []StreamsFreed
<1>1. IInv => StreamsFreed
  BY EmptyList DEF IInv, StreamInv, StreamsFreed
<1> QED
  BY <1>1, InvAlways, PTL

(* While allocations succeed, the cleanup never meets an upload that was   *)
(* freed already (sg__httpuplds_cleanup).                                  *)
THEOREM FreedOnce == Spec => []UploadsFreedOnce
<1>1. UploadInv => UploadsFreedOnce
  BY DEF UploadInv, UploadsFreedOnce
<1> QED
  BY <1>1, UploadsAlways, PTL

(* While writes are not short, req_cb finds in every upload all that its   *)
(* size says (sg__httpuplds_iter).                                         *)
THEOREM CompleteWhenServed == Spec => []UploadsComplete
<1>1. UploadInv => UploadsComplete
  BY DEF UploadInv, UploadsComplete, Whole, sg_httpuplds_count, sg_httpreq_uploads, sg_httpupld_size
<1> QED
  BY <1>1, UploadsAlways, PTL

(* What req_cb gets is within the limits, for any limits and however the   *)
(* body is cut into pieces and mixed from fields and uploads.              *)
THEOREM LimitsKept == Spec => []ServedWithinLimits
<1>1. LimitInv => ServedWithinLimits
  BY DEF LimitInv, FieldLimits, UploadLimits, ServedWithinLimits
<1> QED
  BY <1>1, LimitsAlways, PTL

(* A body that is refused has used no more than one piece over the limit.  *)
THEOREM OverrunBounded == Spec => []OverrunByOnePiece
<1>1. LimitInv => OverrunByOnePiece
  BY DEF LimitInv, FieldLimits, UploadLimits, OverrunByOnePiece
<1> QED
  BY <1>1, LimitsAlways, PTL
=============================================================================
