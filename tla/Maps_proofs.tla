----------------------------- MODULE Maps_proofs -----------------------------
(* Proofs about the two maps of the library, each from its own             *)
(* specification: the sorted array of entry-points, for any paths, names,  *)
(* data and copies, and the string maps with the hash table they are kept  *)
(* in, for any names, hash function and sizes of the table.                *)
EXTENDS Entrypoints, StrMap, FiniteSetTheorems, Induction_proofs

-----------------------------------------------------------------------------
(* Entry-points: the inductive invariant.                                  *)
IInv == EntryTypeOK /\ EntriesSorted /\ NamesOwned

-----------------------------------------------------------------------------
(* Lemmas about the operators on the array.                                *)

LEMMA SeqFacts ==
  ASSUME NEW l \in Seq(Entry)
  PROVE  Len(l) \in Nat /\ DOMAIN l = 1..Len(l) /\ \A i \in DOMAIN l : l[i] \in Entry
OBVIOUS

LEMMA EntryFacts ==
  ASSUME NEW e \in Entry
  PROVE  e.name \in EntryNames /\ e.name \in Int /\ e.data \in Datas /\ e.copy \in Copies
BY EntryAssumption DEF Entry, EntryNames

LEMMA InsertedSeq ==
  ASSUME NEW l \in Seq(Entry), NEW k \in 1..Len(l) + 1, NEW e \in Entry
  PROVE  /\ Inserted(l, k, e) \in Seq(Entry) /\ Len(Inserted(l, k, e)) = Len(l) + 1
         /\ DOMAIN Inserted(l, k, e) = 1..Len(l) + 1
         /\ \A i \in 1..Len(l) + 1 :
              Inserted(l, k, e)[i] = IF i < k THEN l[i] ELSE IF i = k THEN e ELSE l[i - 1]
<1> DEFINE m == Inserted(l, k, e)
<1>1. Len(l) \in Nat /\ \A i \in 1..Len(l) : l[i] \in Entry
  BY SeqFacts
<1>2. m \in [1..Len(l) + 1 -> Entry]
  BY <1>1 DEF Inserted
<1> QED
  BY <1>1, <1>2 DEF Inserted

LEMMA RemovedSeq ==
  ASSUME NEW l \in Seq(Entry), NEW k \in 1..Len(l)
  PROVE  /\ Removed(l, k) \in Seq(Entry) /\ Len(Removed(l, k)) = Len(l) - 1
         /\ DOMAIN Removed(l, k) = 1..Len(l) - 1
         /\ \A i \in 1..Len(l) - 1 : Removed(l, k)[i] = IF i < k THEN l[i] ELSE l[i + 1]
<1> DEFINE m == Removed(l, k)
<1>1. Len(l) - 1 \in Nat /\ \A i \in 1..Len(l) : l[i] \in Entry
  BY SeqFacts
<1>2. m \in [1..Len(l) - 1 -> Entry]
  BY <1>1 DEF Removed
<1> QED
  BY <1>1, <1>2 DEF Removed

(* An entry that qsort put in its place, and whose name is not there,      *)
(* leaves the array in order.                                              *)
LEMMA InsertedSorted ==
  ASSUME NEW l \in Seq(Entry), NEW k \in 1..Len(l) + 1, NEW e \in Entry,
         Sorted(l), Place(l, e, k), ~HasName(l, e.name)
  PROVE  Sorted(Inserted(l, k, e))
<1> DEFINE m == Inserted(l, k, e)
<1>1. Len(l) \in Nat /\ DOMAIN l = 1..Len(l) /\ e.name \in Int
  BY SeqFacts, EntryFacts
<1>2. \A i \in 1..Len(l) : l[i].name \in Int
  BY SeqFacts, EntryFacts
<1>0. DOMAIN m = 1..Len(l) + 1
  BY InsertedSeq
<1> SUFFICES ASSUME NEW i \in 1..Len(l) + 1, NEW j \in 1..Len(l) + 1, i < j
             PROVE  m[i].name < m[j].name
  BY <1>0 DEF Sorted
<1>3. \A a \in 1..Len(l) : (a < k => l[a].name < e.name) /\ (a >= k => e.name < l[a].name)
  <2> SUFFICES ASSUME NEW a \in 1..Len(l)
               PROVE  (a < k => l[a].name < e.name) /\ (a >= k => e.name < l[a].name)
    OBVIOUS
  <2>1. l[a].name # e.name
    BY <1>1 DEF HasName
  <2>2. (a < k => l[a].name <= e.name) /\ (a >= k => e.name < l[a].name)
    BY <1>1 DEF Place
  <2>3. l[a].name \in Int /\ e.name \in Int
    BY <1>1, <1>2
  <2> QED
    BY <2>1, <2>2, <2>3
<1>4. \A a, b \in 1..Len(l) : a < b => l[a].name < l[b].name
  BY <1>1 DEF Sorted
<1>5. /\ m[i] = IF i < k THEN l[i] ELSE IF i = k THEN e ELSE l[i - 1]
      /\ m[j] = IF j < k THEN l[j] ELSE IF j = k THEN e ELSE l[j - 1]
  BY InsertedSeq
<1>a. CASE j < k
  BY <1>1, <1>4, <1>5, <1>a
<1>b. CASE j = k
  BY <1>1, <1>3, <1>5, <1>b
<1>c. CASE j > k /\ i < k
  <2>1. m[j] = l[j - 1] /\ m[i] = l[i] /\ i \in 1..Len(l) /\ j - 1 \in 1..Len(l) /\ i < j - 1
    BY <1>1, <1>5, <1>c
  <2> QED
    BY <2>1, <1>4
<1>d. CASE j > k /\ i = k
  <2>1. m[j] = l[j - 1] /\ m[i] = e /\ j - 1 \in 1..Len(l) /\ j - 1 >= k
    BY <1>1, <1>5, <1>d
  <2> QED
    BY <2>1, <1>3
<1>e. CASE j > k /\ i > k
  <2>1. m[j] = l[j - 1] /\ m[i] = l[i - 1] /\ i - 1 \in 1..Len(l) /\ j - 1 \in 1..Len(l) /\ i - 1 < j - 1
    BY <1>1, <1>5, <1>e
  <2> QED
    BY <2>1, <1>4
<1> QED
  BY <1>1, <1>a, <1>b, <1>c, <1>d, <1>e

LEMMA RemovedSorted ==
  ASSUME NEW l \in Seq(Entry), NEW k \in 1..Len(l), Sorted(l)
  PROVE  Sorted(Removed(l, k))
<1> DEFINE m == Removed(l, k)
<1>1. Len(l) \in Nat /\ DOMAIN l = 1..Len(l)
  BY SeqFacts
<1>0. DOMAIN m = 1..Len(l) - 1
  BY RemovedSeq
<1> SUFFICES ASSUME NEW i \in 1..Len(l) - 1, NEW j \in 1..Len(l) - 1, i < j
             PROVE  m[i].name < m[j].name
  BY <1>0 DEF Sorted
<1>2. PICK a, b \in 1..Len(l) : a < b /\ m[i] = l[a] /\ m[j] = l[b]
  <2>1. /\ m[i] = IF i < k THEN l[i] ELSE l[i + 1]
        /\ m[j] = IF j < k THEN l[j] ELSE l[j + 1]
    BY RemovedSeq
  <2> QED
    BY <2>1, <1>1
<1> QED
  BY <1>1, <1>2 DEF Sorted

-----------------------------------------------------------------------------
(* What the entries own, before and after an addition and a removal.       *)

Owned(l) == {l[i].copy : i \in DOMAIN l}
Distinct(l) == \A i, j \in DOMAIN l : l[i].copy = l[j].copy => i = j

LEMMA InsertedOwned ==
  ASSUME NEW l \in Seq(Entry), NEW k \in 1..Len(l) + 1, NEW e \in Entry,
         Distinct(l), e.copy \notin Owned(l)
  PROVE  Owned(Inserted(l, k, e)) = Owned(l) \cup {e.copy} /\ Distinct(Inserted(l, k, e))
<1> DEFINE m == Inserted(l, k, e)
<1>1. Len(l) \in Nat /\ DOMAIN l = 1..Len(l) /\ DOMAIN m = 1..Len(l) + 1
  BY SeqFacts, InsertedSeq
<1>2. \A i \in 1..Len(l) + 1 : m[i] = IF i < k THEN l[i] ELSE IF i = k THEN e ELSE l[i - 1]
  BY InsertedSeq
<1>3. \A i \in 1..Len(l) : l[i] = IF i < k THEN m[i] ELSE m[i + 1]
  BY <1>1, <1>2
<1>4. m[k] = e
  BY <1>1, <1>2
<1>5. ASSUME NEW c \in Owned(m) PROVE c \in Owned(l) \cup {e.copy}
  <2>1. PICK i \in 1..Len(l) + 1 : c = m[i].copy
    BY <1>1 DEF Owned
  <2>2. i = k \/ \E a \in 1..Len(l) : m[i] = l[a]
    BY <1>1, <1>2
  <2> QED
    BY <1>1, <1>4, <2>1, <2>2 DEF Owned
<1>6. ASSUME NEW c \in Owned(l) PROVE c \in Owned(m)
  <2>1. PICK i \in 1..Len(l) : c = l[i].copy
    BY <1>1 DEF Owned
  <2>2. \E a \in 1..Len(l) + 1 : m[a] = l[i]
    BY <1>1, <1>3
  <2> QED
    BY <1>1, <2>1, <2>2 DEF Owned
<1>7. e.copy \in Owned(m)
  BY <1>1, <1>4 DEF Owned
<1>8. ASSUME NEW i \in DOMAIN m, NEW j \in DOMAIN m, m[i].copy = m[j].copy PROVE i = j
  <2>1. \A a \in 1..Len(l) : l[a].copy # e.copy
    BY <1>1 DEF Owned
  <2>2. \A a, b \in 1..Len(l) : l[a].copy = l[b].copy => a = b
    BY <1>1 DEF Distinct
  <2>3. i = k <=> j = k
    BY <1>1, <1>2, <1>8, <2>1
  <2> QED
    BY <1>1, <1>2, <1>8, <2>2, <2>3
<1> QED
  BY <1>5, <1>6, <1>7, <1>8 DEF Distinct

LEMMA RemovedOwned ==
  ASSUME NEW l \in Seq(Entry), NEW k \in 1..Len(l), Distinct(l)
  PROVE  Owned(Removed(l, k)) = Owned(l) \ {l[k].copy} /\ Distinct(Removed(l, k))
<1> DEFINE m == Removed(l, k)
<1>1. Len(l) \in Nat /\ DOMAIN l = 1..Len(l) /\ DOMAIN m = 1..Len(l) - 1
  BY SeqFacts, RemovedSeq
<1>2. \A i \in 1..Len(l) - 1 : m[i] = IF i < k THEN l[i] ELSE l[i + 1]
  BY RemovedSeq
<1>3. \A a, b \in 1..Len(l) : l[a].copy = l[b].copy => a = b
  BY <1>1 DEF Distinct
<1>4. ASSUME NEW c \in Owned(m) PROVE c \in Owned(l) \ {l[k].copy}
  <2>1. PICK i \in 1..Len(l) - 1 : c = m[i].copy
    BY <1>1 DEF Owned
  <2>2. PICK a \in 1..Len(l) : a # k /\ m[i] = l[a]
    BY <1>1, <1>2
  <2> QED
    BY <1>1, <1>3, <2>1, <2>2 DEF Owned
<1>5. ASSUME NEW c \in Owned(l) \ {l[k].copy} PROVE c \in Owned(m)
  <2>1. PICK i \in 1..Len(l) : c = l[i].copy
    BY <1>1 DEF Owned
  <2>2. \E a \in 1..Len(l) - 1 : m[a] = l[i]
    <3>1. i # k
      BY <2>1
    <3>2. CASE i < k
      BY <1>1, <1>2, <3>2
    <3>3. CASE i > k
      <4>1. i - 1 \in 1..Len(l) - 1 /\ m[i - 1] = l[i]
        BY <1>1, <1>2, <3>3
      <4> QED
        BY <4>1
    <3> QED
      BY <1>1, <3>1, <3>2, <3>3
  <2> QED
    BY <1>1, <2>1, <2>2 DEF Owned
<1>6. ASSUME NEW i \in DOMAIN m, NEW j \in DOMAIN m, m[i].copy = m[j].copy PROVE i = j
  <2>1. m[i] = IF i < k THEN l[i] ELSE l[i + 1]
    BY <1>1, <1>2
  <2>2. m[j] = IF j < k THEN l[j] ELSE l[j + 1]
    BY <1>1, <1>2
  <2> QED
    BY <1>1, <1>3, <1>6, <2>1, <2>2
<1> QED
  BY <1>4, <1>5, <1>6 DEF Distinct

-----------------------------------------------------------------------------
(* The invariant.                                                          *)

LEMMA EmptyEntries ==
  << >> \in Seq(Entry) /\ Sorted(<< >>) /\ Distinct(<< >>) /\ Owned(<< >>) = {} /\ Len(<< >>) = 0
BY DEF Sorted, Distinct, Owned

LEMMA InitInv == EntryInit => IInv
BY EmptyEntries DEF EntryInit, IInv, EntryTypeOK, EntriesSorted, NamesOwned, Owned, Distinct

(* What an addition does to an array in order.                             *)
LEMMA AddStep ==
  ASSUME IInv, NEW p \in Paths, NEW d \in Datas, EntryAdd(p, d)
  PROVE  \E c \in Copies \ copies, k \in 1..Len(list) + 1 :
           LET e == [name |-> NameOf[p], data |-> d, copy |-> c] IN
           /\ e \in Entry /\ Place(list, e, k) /\ ~HasName(list, e.name)
           /\ list' = Inserted(list, k, e) /\ copies' = copies \cup {c} /\ mem = "ok" /\ mem' = mem
<1>1. PICK c \in Copies \ copies, k \in 1..Len(list) + 1 :
        /\ Place(list, [name |-> NameOf[p], data |-> d, copy |-> c], k)
        /\ list' = Inserted(list, k, [name |-> NameOf[p], data |-> d, copy |-> c])
        /\ copies' = copies \cup {c}
  BY DEF EntryAdd
<1> DEFINE e == [name |-> NameOf[p], data |-> d, copy |-> c]
<1>2. e \in Entry
  BY DEF Entry, EntryNames
<1>3. ~HasName(list, NameOf[p]) /\ mem = "ok" /\ mem' = mem
  BY DEF EntryAdd, MayMiss, IInv, EntriesSorted
<1> QED
  BY <1>1, <1>2, <1>3

LEMMA RemoveStep ==
  ASSUME IInv, NEW p \in Paths, EntryRemove(p)
  PROVE  \E k \in 1..Len(list) :
           /\ list[k].name = NameOf[p] /\ copies' = copies \ {list[k].copy} /\ mem = "ok"
           /\ (list' = Removed(list, k) /\ mem' = mem) \/ (list' = << >> /\ mem' = "lost")
BY SeqFacts DEF EntryRemove, FreeCopy, IInv, EntryTypeOK

LEMMA SetStep ==
  ASSUME IInv, NEW p \in Paths, NEW d \in Datas, EntrySet(p, d)
  PROVE  \E k \in 1..Len(list) :
           /\ list[k].name = NameOf[p] /\ list' = [list EXCEPT ![k].data = d]
           /\ mem = "ok" /\ copies' = copies /\ mem' = mem
BY SeqFacts DEF EntrySet, sg_entrypoints_find, Hits, IInv, EntryTypeOK

LEMMA SetEntries ==
  ASSUME NEW l \in Seq(Entry), NEW k \in 1..Len(l), NEW d \in Datas
  PROVE  LET m == [l EXCEPT ![k].data = d] IN
         /\ m \in Seq(Entry) /\ DOMAIN m = DOMAIN l
         /\ \A i \in DOMAIN l : /\ m[i].name = l[i].name /\ m[i].copy = l[i].copy
                                /\ m[i].data = IF i = k THEN d ELSE l[i].data
<1> DEFINE m == [l EXCEPT ![k].data = d]
<1>1. Len(l) \in Nat /\ DOMAIN l = 1..Len(l) /\ \A i \in 1..Len(l) : l[i] \in Entry
  BY SeqFacts
<1>2. [l[k] EXCEPT !.data = d] \in Entry
  BY <1>1 DEF Entry
<1>3. m = [l EXCEPT ![k] = [l[k] EXCEPT !.data = d]]
  OBVIOUS
<1>4. m \in Seq(Entry) /\ DOMAIN m = DOMAIN l
  BY <1>1, <1>2, <1>3
<1>5. \A i \in DOMAIN l : m[i] = IF i = k THEN [l[k] EXCEPT !.data = d] ELSE l[i]
  BY <1>1, <1>3
<1>6. /\ [l[k] EXCEPT !.data = d].name = l[k].name /\ [l[k] EXCEPT !.data = d].copy = l[k].copy
      /\ [l[k] EXCEPT !.data = d].data = d
  BY <1>1 DEF Entry
<1> QED
  BY <1>4, <1>5, <1>6

(* Nothing is left after the handle, or its entries, are gone.             *)
LEMMA EmptiedInv ==
  ASSUME IInv, list' = << >>, copies' = copies \ Owned(list), mem = "ok", mem' \in {"ok", "freed"}
  PROVE  IInv'
BY EmptyEntries
   DEF IInv, EntryTypeOK, EntriesSorted, NamesOwned, Owned, Distinct

LEMMA StepInv == IInv /\ [EntryNext]_entryVars => IInv'
<1> SUFFICES ASSUME IInv, [EntryNext]_entryVars PROVE IInv'
  OBVIOUS
<1>0. list \in Seq(Entry) /\ Sorted(list) /\ Distinct(list) /\ (mem # "lost" => copies = Owned(list))
  BY DEF IInv, EntryTypeOK, EntriesSorted, NamesOwned, Owned, Distinct
<1>i. ASSUME list' \in Seq(Entry), Sorted(list'), Distinct(list'), copies' \subseteq Copies,
             mem' \in {"ok", "freed", "lost"}, mem' # "lost" => copies' = Owned(list')
      PROVE  IInv'
  BY <1>i DEF IInv, EntryTypeOK, EntriesSorted, NamesOwned, Owned, Distinct
<1>1. ASSUME NEW p \in Paths, NEW d \in Datas, EntryAdd(p, d) PROVE IInv'
  <2>1. PICK c \in Copies \ copies, k \in 1..Len(list) + 1, e \in Entry :
          /\ e.copy = c /\ Place(list, e, k) /\ ~HasName(list, e.name)
          /\ list' = Inserted(list, k, e) /\ copies' = copies \cup {c} /\ mem = "ok" /\ mem' = mem
    BY <1>1, AddStep
  <2>2. list' \in Seq(Entry) /\ Sorted(list')
    BY <1>0, <2>1, InsertedSeq, InsertedSorted
  <2>3. Owned(list') = Owned(list) \cup {c} /\ Distinct(list')
    BY <1>0, <2>1, InsertedOwned
  <2>4. copies' \subseteq Copies
    BY <2>1 DEF IInv, EntryTypeOK
  <2> QED
    BY <1>0, <1>i, <2>1, <2>2, <2>3, <2>4
<1>2. ASSUME NEW p \in Paths, NEW d \in Datas, EntrySet(p, d) PROVE IInv'
  <2>1. PICK k \in 1..Len(list) :
          list' = [list EXCEPT ![k].data = d] /\ mem = "ok" /\ copies' = copies /\ mem' = mem
    BY <1>2, SetStep
  <2>2. /\ list' \in Seq(Entry) /\ DOMAIN list' = DOMAIN list
        /\ \A i \in DOMAIN list : list'[i].name = list[i].name /\ list'[i].copy = list[i].copy
    BY <1>0, <2>1, SetEntries
  <2>3. Sorted(list') /\ Distinct(list') /\ Owned(list') = Owned(list)
    BY <1>0, <2>2 DEF Sorted, Distinct, Owned
  <2>4. copies' \subseteq Copies
    BY <2>1 DEF IInv, EntryTypeOK
  <2> QED
    BY <1>0, <1>i, <2>1, <2>2, <2>3, <2>4
<1>3. ASSUME NEW p \in Paths, EntryAddNoMem(p) PROVE IInv'
  BY <1>3, EmptiedInv DEF EntryAddNoMem, Owned
<1>4. ASSUME NEW p \in Paths, EntryRemove(p) PROVE IInv'
  <2>1. PICK k \in 1..Len(list) :
          /\ copies' = copies \ {list[k].copy} /\ mem = "ok"
          /\ (list' = Removed(list, k) /\ mem' = mem) \/ (list' = << >> /\ mem' = "lost")
    BY <1>4, RemoveStep
  <2>2. copies' \subseteq Copies
    BY <2>1 DEF IInv, EntryTypeOK
  <2>3. CASE list' = Removed(list, k) /\ mem' = mem
    <3>1. list' \in Seq(Entry) /\ Sorted(list')
      BY <1>0, <2>3, RemovedSeq, RemovedSorted
    <3>2. Owned(list') = Owned(list) \ {list[k].copy} /\ Distinct(list')
      BY <1>0, <2>3, RemovedOwned
    <3> QED
      BY <1>0, <1>i, <2>1, <2>2, <2>3, <3>1, <3>2
  <2>4. CASE list' = << >> /\ mem' = "lost"
    BY <1>i, <2>2, <2>4, EmptyEntries
  <2> QED
    BY <2>1, <2>3, <2>4
<1>5. CASE EntryClear
  BY <1>5, EmptiedInv DEF EntryClear, Owned
<1>6. CASE EntryFree
  BY <1>6, EmptiedInv DEF EntryFree, EntryDrop, Owned
<1>7. CASE UNCHANGED entryVars
  BY <1>7 DEF entryVars, IInv, EntryTypeOK, EntriesSorted, NamesOwned
<1> QED
  BY <1>1, <1>2, <1>3, <1>4, <1>5, <1>6, <1>7 DEF EntryNext

LEMMA InvAlways == EntrySpec => []IInv
BY InitInv, StepInv, PTL DEF EntrySpec

(* The array and the memory of the entry-points have the types they        *)
(* should, for any names.                                                  *)
THEOREM EntryTypeCorrect == EntrySpec => []EntryTypeOK
<1>1. IInv => EntryTypeOK
  BY DEF IInv
<1> QED
  BY <1>1, InvAlways, PTL

(* The array that bsearch looks in is always in order, without duplicates. *)
THEOREM ArraySorted == EntrySpec => []EntriesSorted
<1>1. IInv => EntriesSorted
  BY DEF IInv
<1> QED
  BY <1>1, InvAlways, PTL

(* Every copy of a name has one owner, and none is left behind unless a    *)
(* removal could not allocate the smaller array.                           *)
THEOREM NamesAccounted == EntrySpec => []NamesOwned
<1>1. IInv => NamesOwned
  BY DEF IInv
<1> QED
  BY <1>1, InvAlways, PTL

-----------------------------------------------------------------------------
(* The refinement of EntryMap.                                             *)

NamesIn(l) == {l[i].name : i \in DOMAIN l}

(* A function that has the names of the array as its domain and their data *)
(* as its values is the map of the array.                                  *)
LEMMA MapIs ==
  ASSUME NEW l \in Seq(Entry), Sorted(l), NEW f, f = [n \in NamesIn(l) |-> f[n]],
         \A i \in DOMAIN l : f[l[i].name] = l[i].data
  PROVE  MapOf(l) = f
<1>1. \A i \in DOMAIN l : i \in Int /\ l[i].name \in Int
  BY SeqFacts, EntryFacts
<1>2. ASSUME NEW n \in NamesIn(l)
      PROVE  l[CHOOSE i \in DOMAIN l : l[i].name = n].data = f[n]
  <2> DEFINE c == CHOOSE i \in DOMAIN l : l[i].name = n
  <2>1. c \in DOMAIN l /\ l[c].name = n
    BY DEF NamesIn
  <2> QED
    BY <2>1
<1> QED
  BY <1>2 DEF MapOf, NamesIn, sg_entrypoint_name, sg_entrypoint_user_data

LEMMA MapFacts ==
  ASSUME NEW l \in Seq(Entry), Sorted(l)
  PROVE  /\ DOMAIN MapOf(l) = NamesIn(l)
         /\ \A i \in DOMAIN l : MapOf(l)[l[i].name] = l[i].data
<1>1. \A i \in DOMAIN l : i \in Int /\ l[i].name \in Int
  BY SeqFacts, EntryFacts
<1>2. DOMAIN MapOf(l) = NamesIn(l)
  BY DEF MapOf, NamesIn, sg_entrypoint_name
<1>3. ASSUME NEW i \in DOMAIN l PROVE MapOf(l)[l[i].name] = l[i].data
  <2> DEFINE c == CHOOSE j \in DOMAIN l : l[j].name = l[i].name
  <2>1. c \in DOMAIN l /\ l[c].name = l[i].name
    OBVIOUS
  <2>2. c = i
    BY <1>1, <2>1 DEF Sorted
  <2>3. MapOf(l)[l[i].name] = l[c].data
    BY DEF MapOf, sg_entrypoint_name, sg_entrypoint_user_data
  <2> QED
    BY <2>2, <2>3
<1> QED
  BY <1>2, <1>3

LEMMA EmptyMap == MapOf(<< >>) = [n \in {} |-> n]
<1>1. NamesIn(<< >>) = {} /\ DOMAIN << >> = {}
  BY DEF NamesIn
<1> DEFINE f == [n \in {} |-> n]
<1>2. f = [n \in {} |-> f[n]]
  OBVIOUS
<1> QED
  BY <1>1, <1>2, EmptyEntries, MapIs

LEMMA IterAll == IInv => sg_entrypoints_iter(0) = list
BY SeqFacts DEF IInv, EntryTypeOK, sg_entrypoints_iter

(* The map of an array in which m has the entries of l and one more, has   *)
(* all of them but one, or has other data in one.                          *)
With(l, m, e) ==
  /\ \A i \in DOMAIN m : m[i] = e \/ \E j \in DOMAIN l : m[i] = l[j]
  /\ \A j \in DOMAIN l : \E i \in DOMAIN m : m[i] = l[j]
  /\ \E i \in DOMAIN m : m[i] = e
PutEntry(f, g, e) ==
  /\ e.name \in EntryNames \ DOMAIN f
  /\ g = [x \in DOMAIN f \cup {e.name} |-> IF x = e.name THEN e.data ELSE f[x]]

LEMMA AddMaps ==
  ASSUME NEW l \in Seq(Entry), NEW m \in Seq(Entry), Sorted(m), Sorted(l), NEW e \in Entry,
         ~HasName(l, e.name), With(l, m, e)
  PROVE  PutEntry(MapOf(l), MapOf(m), e)
<1> USE DEF With
<1> DEFINE f == MapOf(l)
           g == [x \in DOMAIN f \cup {e.name} |-> IF x = e.name THEN e.data ELSE f[x]]
<1>1. DOMAIN f = NamesIn(l) /\ \A i \in DOMAIN l : f[l[i].name] = l[i].data
  BY MapFacts
<1>2. e.name \in EntryNames \ NamesIn(l)
  BY EntryFacts DEF HasName, NamesIn
<1>3. NamesIn(m) \subseteq NamesIn(l) \cup {e.name}
  BY DEF NamesIn
<1>4. NamesIn(l) \cup {e.name} \subseteq NamesIn(m)
  <2>1. e.name \in NamesIn(m)
    BY DEF NamesIn
  <2>2. ASSUME NEW j \in DOMAIN l PROVE l[j].name \in NamesIn(m)
    BY DEF NamesIn
  <2> QED
    BY <2>1, <2>2 DEF NamesIn
<1>5. NamesIn(m) = NamesIn(l) \cup {e.name}
  BY <1>3, <1>4
<1>6. ASSUME NEW i \in DOMAIN m PROVE g[m[i].name] = m[i].data
  <2>1. CASE m[i] = e
    BY <2>1
  <2>2. ASSUME NEW j \in DOMAIN l, m[i] = l[j] PROVE g[m[i].name] = m[i].data
    <3>1. l[j].name \in NamesIn(l)
      BY DEF NamesIn
    <3> QED
      BY <1>1, <1>2, <2>2, <3>1
  <2> QED
    BY <2>1, <2>2
<1>7. g = [n \in NamesIn(m) |-> g[n]]
  BY <1>1, <1>5
<1>8. MapOf(m) = g
  <2> HIDE DEF g
  <2> QED
    BY <1>6, <1>7, MapIs
<1> QED
  BY <1>1, <1>2, <1>8 DEF PutEntry

Without(l, m, k) ==
  /\ \A i \in DOMAIN m : \E j \in DOMAIN l : j # k /\ m[i] = l[j]
  /\ \A j \in DOMAIN l : j # k => \E i \in DOMAIN m : m[i] = l[j]
DropName(f, n) == [x \in DOMAIN f \ {n} |-> f[x]]

LEMMA RemoveMaps ==
  ASSUME NEW l \in Seq(Entry), NEW m \in Seq(Entry), Sorted(m), Sorted(l), NEW k \in DOMAIN l,
         Without(l, m, k)
  PROVE  /\ l[k].name \in DOMAIN MapOf(l)
         /\ MapOf(m) = DropName(MapOf(l), l[k].name)
<1> DEFINE f == MapOf(l)
           g == [x \in DOMAIN f \ {l[k].name} |-> f[x]]
<1>1. DOMAIN f = NamesIn(l) /\ \A i \in DOMAIN l : f[l[i].name] = l[i].data
  BY MapFacts
<1>2. ASSUME NEW i \in DOMAIN l, NEW j \in DOMAIN l, i # j PROVE l[i].name # l[j].name
  <2>1. i \in Int /\ j \in Int /\ l[i].name \in Int /\ l[j].name \in Int
    BY SeqFacts, EntryFacts
  <2>2. (i < j => l[i].name < l[j].name) /\ (j < i => l[j].name < l[i].name)
    BY DEF Sorted
  <2> QED
    BY <1>2, <2>1, <2>2
<1>3. NamesIn(m) \subseteq NamesIn(l) \ {l[k].name}
  BY <1>2 DEF NamesIn, Without
<1>4. NamesIn(l) \ {l[k].name} \subseteq NamesIn(m)
  <2>1. ASSUME NEW j \in DOMAIN l, j # k PROVE l[j].name \in NamesIn(m)
    BY <2>1 DEF NamesIn, Without
  <2> QED
    BY <2>1 DEF NamesIn
<1>5. NamesIn(m) = NamesIn(l) \ {l[k].name}
  BY <1>3, <1>4
<1>6. ASSUME NEW i \in DOMAIN m PROVE g[m[i].name] = m[i].data
  <2>1. PICK j \in DOMAIN l : m[i] = l[j]
    BY DEF Without
  <2>2. m[i].name \in NamesIn(l) \ {l[k].name}
    BY <1>5 DEF NamesIn
  <2> QED
    BY <1>1, <2>1, <2>2
<1>7. g = [n \in NamesIn(m) |-> g[n]]
  BY <1>1, <1>5
<1>8. MapOf(m) = g
  <2> HIDE DEF g
  <2> QED
    BY <1>6, <1>7, MapIs
<1>9. l[k].name \in DOMAIN f
  BY <1>1 DEF NamesIn
<1> QED
  BY <1>8, <1>9 DEF DropName

WithData(l, m, k, d) ==
  /\ DOMAIN m = DOMAIN l
  /\ \A i \in DOMAIN l : /\ m[i].name = l[i].name
                         /\ m[i].data = IF i = k THEN d ELSE l[i].data
PutName(f, n, d) == [f EXCEPT ![n] = d]

LEMMA SetMaps ==
  ASSUME NEW l \in Seq(Entry), NEW m \in Seq(Entry), Sorted(l), NEW k \in DOMAIN l,
         NEW d \in Datas, WithData(l, m, k, d)
  PROVE  /\ l[k].name \in DOMAIN MapOf(l)
         /\ MapOf(m) = PutName(MapOf(l), l[k].name, d)
<1> DEFINE f == MapOf(l)
           g == [f EXCEPT ![l[k].name] = d]
<1>0. /\ DOMAIN m = DOMAIN l
      /\ \A i \in DOMAIN l : /\ m[i].name = l[i].name
                             /\ m[i].data = IF i = k THEN d ELSE l[i].data
  BY DEF WithData
<1>1. Sorted(m)
  BY <1>0 DEF Sorted
<1>2. DOMAIN f = NamesIn(l) /\ \A i \in DOMAIN l : f[l[i].name] = l[i].data
  BY MapFacts
<1>3. \A i \in DOMAIN l : l[i].name = l[k].name => i = k
  <2>1. \A i \in DOMAIN l : i \in Int /\ l[i].name \in Int
    BY SeqFacts, EntryFacts
  <2> QED
    BY <2>1 DEF Sorted
<1>4. NamesIn(m) = NamesIn(l)
  BY <1>0 DEF NamesIn
<1>5. ASSUME NEW i \in DOMAIN m PROVE g[m[i].name] = m[i].data
  <2>1. l[i].name \in DOMAIN f /\ m[i].name = l[i].name /\ i \in DOMAIN l
    BY <1>0, <1>2 DEF NamesIn
  <2>0. f = [n \in DOMAIN f |-> f[n]]
    BY DEF MapOf
  <2>2. CASE i = k
    BY <1>0, <2>0, <2>1, <2>2
  <2>3. CASE i # k
    BY <1>0, <1>2, <1>3, <2>0, <2>1, <2>3
  <2> QED
    BY <2>2, <2>3
<1>6. g = [n \in NamesIn(m) |-> g[n]]
  BY <1>2, <1>4
<1>7. MapOf(m) = g
  <2> HIDE DEF g
  <2> QED
    BY <1>1, <1>5, <1>6, MapIs
<1>8. l[k].name \in DOMAIN f
  BY <1>2 DEF NamesIn
<1> QED
  BY <1>7, <1>8 DEF PutName

(* What an insertion and a removal at an index keep of the entries.        *)
LEMMA InsertedEntries ==
  ASSUME NEW l \in Seq(Entry), NEW k \in 1..Len(l) + 1, NEW e \in Entry
  PROVE  With(l, Inserted(l, k, e), e)
<1> DEFINE m == Inserted(l, k, e)
<1>1. Len(l) \in Nat /\ DOMAIN l = 1..Len(l)
  BY SeqFacts
<1>2. /\ DOMAIN m = 1..Len(l) + 1
      /\ \A i \in 1..Len(l) + 1 : m[i] = IF i < k THEN l[i] ELSE IF i = k THEN e ELSE l[i - 1]
  <2>1. DOMAIN Inserted(l, k, e) = 1..Len(l) + 1
    BY InsertedSeq
  <2>2. ASSUME NEW i \in 1..Len(l) + 1
        PROVE  Inserted(l, k, e)[i] = IF i < k THEN l[i] ELSE IF i = k THEN e ELSE l[i - 1]
    BY InsertedSeq
  <2> QED
    BY <2>1, <2>2
<1> HIDE DEF m
<1>3. \A i \in DOMAIN m : m[i] = e \/ \E j \in DOMAIN l : m[i] = l[j]
  <2> SUFFICES ASSUME NEW i \in DOMAIN m, m[i] # e PROVE \E j \in DOMAIN l : m[i] = l[j]
    OBVIOUS
  <2>1. CASE i < k
    <3>1. i \in DOMAIN l /\ m[i] = l[i]
      BY <1>1, <1>2, <2>1
    <3> QED
      BY <3>1
  <2>2. CASE i > k
    <3>1. i - 1 \in DOMAIN l /\ m[i] = l[i - 1]
      BY <1>1, <1>2, <2>2
    <3> QED
      BY <3>1
  <2> QED
    BY <1>1, <1>2, <2>1, <2>2
<1>4. ASSUME NEW j \in DOMAIN l PROVE \E i \in DOMAIN m : m[i] = l[j]
  <2>1. CASE j < k
    <3>1. j \in DOMAIN m /\ m[j] = l[j]
      BY <1>1, <1>2, <2>1
    <3> QED
      BY <3>1
  <2>2. CASE j >= k
    <3>1. j + 1 \in DOMAIN m /\ m[j + 1] = l[j]
      BY <1>1, <1>2, <2>2
    <3> QED
      BY <3>1
  <2> QED
    BY <1>1, <2>1, <2>2
<1>5. k \in DOMAIN m /\ m[k] = e
  BY <1>1, <1>2
<1>6. With(l, m, e)
  BY <1>3, <1>4, <1>5 DEF With
<1> QED
  BY <1>6 DEF m

LEMMA RemovedEntries ==
  ASSUME NEW l \in Seq(Entry), NEW k \in 1..Len(l)
  PROVE  /\ \A i \in DOMAIN Removed(l, k) : \E j \in DOMAIN l : j # k /\ Removed(l, k)[i] = l[j]
         /\ \A j \in DOMAIN l : j # k => \E i \in DOMAIN Removed(l, k) : Removed(l, k)[i] = l[j]
<1> DEFINE m == Removed(l, k)
<1>1. Len(l) \in Nat /\ DOMAIN l = 1..Len(l)
  BY SeqFacts
<1>2. /\ DOMAIN m = 1..Len(l) - 1
      /\ \A i \in 1..Len(l) - 1 : m[i] = IF i < k THEN l[i] ELSE l[i + 1]
  BY RemovedSeq
<1> HIDE DEF m
<1>3. ASSUME NEW i \in DOMAIN m PROVE \E j \in DOMAIN l : j # k /\ m[i] = l[j]
  <2>1. CASE i < k
    <3>1. i \in DOMAIN l /\ i # k /\ m[i] = l[i]
      BY <1>1, <1>2, <2>1
    <3> QED
      BY <3>1
  <2>2. CASE i >= k
    <3>1. i + 1 \in DOMAIN l /\ i + 1 # k /\ m[i] = l[i + 1]
      BY <1>1, <1>2, <2>2
    <3> QED
      BY <3>1
  <2> QED
    BY <1>1, <1>2, <2>1, <2>2
<1>4. ASSUME NEW j \in DOMAIN l, j # k PROVE \E i \in DOMAIN m : m[i] = l[j]
  <2>1. CASE j < k
    <3>1. j \in DOMAIN m /\ m[j] = l[j]
      BY <1>1, <1>2, <2>1
    <3> QED
      BY <3>1
  <2>2. CASE j > k
    <3>1. j - 1 \in DOMAIN m /\ m[j - 1] = l[j]
      BY <1>1, <1>2, <2>2
    <3> QED
      BY <3>1
  <2> QED
    BY <1>1, <1>4, <2>1, <2>2
<1> QED
  BY <1>3, <1>4 DEF m

MapStep ==
  LET f == MapOf(list)  g == MapOf(list')  up == (mem = "ok")  upNext == (mem' = "ok") IN
  \/ f = g /\ up = upNext
  \/ up /\ upNext /\ g = [n \in {} |-> n]
  \/ ~upNext /\ g = [n \in {} |-> n]
  \/ up /\ upNext /\ \E n \in EntryNames, d \in Datas :
       \/ n \notin DOMAIN f /\ g = [k \in DOMAIN f \cup {n} |-> IF k = n THEN d ELSE f[k]]
       \/ n \in DOMAIN f /\ g = [f EXCEPT ![n] = d]
  \/ up /\ upNext /\ \E n \in EntryNames : n \in DOMAIN f /\ g = [k \in DOMAIN f \ {n} |-> f[k]]

LEMMA StepMaps == IInv /\ [EntryNext]_entryVars => MapStep
<1> SUFFICES ASSUME IInv, [EntryNext]_entryVars PROVE MapStep
  OBVIOUS
<1>0. list \in Seq(Entry) /\ Sorted(list) /\ DOMAIN list = 1..Len(list) /\ Len(list) \in Nat
  BY SeqFacts DEF IInv, EntryTypeOK, EntriesSorted
<1>1. ASSUME NEW p \in Paths, NEW d \in Datas, EntryAdd(p, d) PROVE MapStep
  <2>1. mem = "ok" /\ mem' = "ok"
    BY <1>1 DEF EntryAdd
  <2>2. PICK c \in Copies \ copies, k \in 1..Len(list) + 1, e \in Entry :
          /\ e = [name |-> NameOf[p], data |-> d, copy |-> c]
          /\ Place(list, e, k) /\ ~HasName(list, e.name) /\ list' = Inserted(list, k, e)
    BY <1>1, AddStep
  <2>3. Inserted(list, k, e) \in Seq(Entry) /\ Sorted(Inserted(list, k, e))
    BY <1>0, <2>2, InsertedSeq, InsertedSorted
  <2> DEFINE m == Inserted(list, k, e)
  <2>a. With(list, m, e)
    BY <1>0, InsertedEntries
  <2>b. m \in Seq(Entry) /\ Sorted(m) /\ ~HasName(list, e.name)
    BY <2>2, <2>3
  <2> HIDE DEF m
  <2>c. /\ e.name \in EntryNames \ DOMAIN MapOf(list)
        /\ MapOf(m) = [x \in DOMAIN MapOf(list) \cup {e.name} |->
                         IF x = e.name THEN e.data ELSE MapOf(list)[x]]
    <3>1. PutEntry(MapOf(list), MapOf(m), e)
      BY <1>0, <2>a, <2>b, AddMaps
    <3> QED
      BY <3>1 DEF PutEntry
  <2>4. /\ e.name \in EntryNames \ DOMAIN MapOf(list)
        /\ MapOf(Inserted(list, k, e)) = [x \in DOMAIN MapOf(list) \cup {e.name} |->
                                           IF x = e.name THEN e.data ELSE MapOf(list)[x]]
    BY <2>c DEF m
  <2>5. MapOf(list') = MapOf(Inserted(list, k, e)) /\ e.data = d
    BY <2>2
  <2> QED
    BY <2>1, <2>4, <2>5 DEF MapStep
<1>2. ASSUME NEW p \in Paths, NEW d \in Datas, EntrySet(p, d) PROVE MapStep
  <2>1. PICK k \in 1..Len(list) :
          /\ list[k].name = NameOf[p] /\ list' = [list EXCEPT ![k].data = d]
          /\ mem = "ok" /\ mem' = mem
    BY <1>2, SetStep
  <2> DEFINE m == [list EXCEPT ![k].data = d]
  <2>2. /\ m \in Seq(Entry) /\ DOMAIN m = DOMAIN list
        /\ \A i \in DOMAIN list : /\ m[i].name = list[i].name
                                  /\ m[i].data = IF i = k THEN d ELSE list[i].data
    BY <1>0, SetEntries
  <2>3. list' = m
    BY <2>1
  <2> HIDE DEF m
  <2>4. /\ list[k].name \in DOMAIN MapOf(list)
        /\ MapOf(m) = [MapOf(list) EXCEPT ![list[k].name] = d]
    <3>1. WithData(list, m, k, d)
      BY <2>2 DEF WithData
    <3>2. k \in DOMAIN list /\ m \in Seq(Entry)
      BY <1>0, <2>2
    <3>3. list[k].name \in DOMAIN MapOf(list) /\ MapOf(m) = PutName(MapOf(list), list[k].name, d)
      BY <1>0, <3>1, <3>2, SetMaps
    <3> QED
      BY <3>3 DEF PutName
  <2>5. list[k].name \in EntryNames
    BY <1>0, SeqFacts, EntryFacts
  <2>6. MapOf(list') = MapOf(m)
    BY <2>3
  <2> QED
    BY <2>1, <2>4, <2>5, <2>6 DEF MapStep
<1>3. ASSUME NEW p \in Paths, EntryRemove(p) PROVE MapStep
  <2>1. PICK k \in 1..Len(list) :
          /\ list[k].name = NameOf[p] /\ mem = "ok"
          /\ (list' = Removed(list, k) /\ mem' = mem) \/ (list' = << >> /\ mem' = "lost")
    BY <1>3, RemoveStep
  <2>2. CASE list' = Removed(list, k) /\ mem' = mem
    <3>1. Removed(list, k) \in Seq(Entry) /\ Sorted(Removed(list, k))
      BY <1>0, RemovedSeq, RemovedSorted
    <3>2. /\ list[k].name \in DOMAIN MapOf(list)
          /\ MapOf(Removed(list, k))
               = [x \in DOMAIN MapOf(list) \ {list[k].name} |-> MapOf(list)[x]]
      <4> DEFINE m == Removed(list, k)
      <4>1. Without(list, m, k)
        BY <1>0, RemovedEntries DEF Without
      <4>2. m \in Seq(Entry) /\ Sorted(m) /\ k \in DOMAIN list
        BY <1>0, <3>1
      <4> HIDE DEF m
      <4>3. list[k].name \in DOMAIN MapOf(list) /\ MapOf(m) = DropName(MapOf(list), list[k].name)
        BY <1>0, <4>1, <4>2, RemoveMaps
      <4> QED
        BY <4>3 DEF m, DropName
    <3>3. list[k].name \in EntryNames
      BY <1>0, SeqFacts, EntryFacts
    <3>4. MapOf(list') = MapOf(Removed(list, k))
      BY <2>2
    <3> QED
      BY <2>1, <2>2, <3>2, <3>3, <3>4 DEF MapStep
  <2>3. CASE list' = << >> /\ mem' = "lost"
    BY <2>3, EmptyMap DEF MapStep
  <2> QED
    BY <2>1, <2>2, <2>3
<1>4. ASSUME NEW p \in Paths, EntryAddNoMem(p) PROVE MapStep
  BY <1>4, EmptyMap DEF EntryAddNoMem, MapStep
<1>5. CASE EntryClear
  BY <1>5, EmptyMap DEF EntryClear, MapStep
<1>6. CASE EntryFree
  BY <1>6, EmptyMap DEF EntryFree, MapStep
<1>7. CASE UNCHANGED entryVars
  BY <1>7 DEF entryVars, MapStep
<1> QED
  BY <1>1, <1>2, <1>3, <1>4, <1>5, <1>6, <1>7 DEF EntryNext

(* The sorted array, with its copies and its failures, is a map: an entry  *)
(* that was added is found with its data until it is removed               *)
(* (sg_entrypoints_add, sg_entrypoints_rm, sg_entrypoints_find).           *)
THEOREM EntriesAreMap == EntrySpec => ImplementsMap
<1>1. EntryInit => Map!MapInit
  <2> SUFFICES ASSUME EntryInit PROVE Map!MapInit
    OBVIOUS
  <2>1. IInv
    BY InitInv
  <2> QED
    BY <2>1, IterAll, EmptyMap DEF EntryInit, Map!MapInit
<1>2. IInv /\ IInv' /\ [EntryNext]_entryVars
        => [Map!MapNext]_<<MapOf(sg_entrypoints_iter(0)), mem = "ok">>
  <2> SUFFICES ASSUME IInv, IInv', [EntryNext]_entryVars
               PROVE  [Map!MapNext]_<<MapOf(sg_entrypoints_iter(0)), mem = "ok">>
    OBVIOUS
  <2>1. sg_entrypoints_iter(0) = list
    BY IterAll
  <2>3. 0 \notin DOMAIN list'
    <3>1. list' \in Seq(Entry)
      BY DEF IInv, EntryTypeOK
    <3> QED
      BY <3>1, SeqFacts
  <2>4. sg_entrypoints_iter(0)' = list'
    BY <2>3 DEF sg_entrypoints_iter
  <2>5. MapStep
    BY StepMaps
  <2> QED
    BY <2>1, <2>4, <2>5 DEF MapStep, Map!MapNext, Map!MapClear, Map!MapLost, Map!MapAdd, Map!MapRemove, Map!MapSet
<1> QED
  BY <1>1, <1>2, InvAlways, PTL DEF EntrySpec, ImplementsMap, Map!MapSpec

-----------------------------------------------------------------------------
(* String maps: the lists that links make.                                 *)
Addr == Pairs \cup {Null}

LEMMA Addresses ==
  /\ Pairs \subseteq Nat /\ Null \notin Pairs /\ Null \in Addr /\ Pairs \subseteq Addr
  /\ IsFiniteSet(Pairs) /\ Cardinality(Pairs) \in Nat
<1>1. Pairs \subseteq Nat \ {0} /\ IsFiniteSet(Pairs)
  BY StrMapAssumption
<1>2. Cardinality(Pairs) \in Nat
  BY <1>1, FS_CardinalityType
<1> QED
  BY <1>1, <1>2 DEF Null, Addr

-----------------------------------------------------------------------------
(* Doubly linked lists: s are the items that a head and its links stand    *)
(* for, each of them once.                                                 *)
Once(s) == \A i, j \in 1..Len(s) : s[i] = s[j] => i = j
Items(s) == s \in Seq(Pairs) /\ Once(s)
In(s) == {s[i] : i \in 1..Len(s)}
Node(s, k) == IF k < Len(s) THEN s[k + 1] ELSE Null
Back(s, i) == IF i = 1 THEN Null ELSE s[i - 1]
LinksOf == [Pairs -> Addr]
Linked(head, next, prev, s) ==
  /\ Items(s) /\ head = Node(s, 0)
  /\ \A i \in 1..Len(s) : next[s[i]] = Node(s, i) /\ prev[s[i]] = Back(s, i)

LEMMA ItemsFacts ==
  ASSUME NEW s, Items(s)
  PROVE  /\ Len(s) \in Nat /\ s = [i \in 1..Len(s) |-> s[i]]
         /\ \A i \in 1..Len(s) : s[i] \in Pairs /\ s[i] # Null /\ s[i] \in Nat
         /\ In(s) \subseteq Pairs /\ DOMAIN s = 1..Len(s) /\ In(s) = {s[i] : i \in DOMAIN s}
<1>1. s \in Seq(Pairs)
  BY DEF Items
<1>2. Len(s) \in Nat /\ DOMAIN s = 1..Len(s) /\ \A i \in 1..Len(s) : s[i] \in Pairs
  BY <1>1
<1>3. s = [i \in 1..Len(s) |-> s[i]]
  BY <1>1
<1> QED
  BY <1>2, <1>3, Addresses DEF In

(* No list is longer than there are pairs, and those of it are as many.    *)
LEMMA HowMany ==
  ASSUME NEW s, Items(s)
  PROVE  /\ Len(s) <= Cardinality(Pairs)
         /\ IsFiniteSet(In(s)) /\ Cardinality(In(s)) = Len(s)
<1>1. Len(s) \in Nat /\ IsFiniteSet(1..Len(s)) /\ Cardinality(1..Len(s)) = Len(s)
  <2>1. Len(s) \in Nat
    BY ItemsFacts
  <2>2. PICK L \in Nat : L = Len(s)
    BY <2>1
  <2>3. IsFiniteSet(1..L) /\ Cardinality(1..L) = IF 1 > L THEN 0 ELSE L - 1 + 1
    BY FS_Interval
  <2>4. Cardinality(1..L) = L
    BY <2>3
  <2> QED
    BY <2>2, <2>3, <2>4
<1>2. s \in Injection(1..Len(s), Pairs)
  BY DEF Injection, IsInjective, Items, Once
<1>3. Len(s) <= Cardinality(Pairs)
  BY <1>1, <1>2, Addresses, FS_Injection
<1>4. s \in Surjection(1..Len(s), In(s)) /\ s \in Injection(1..Len(s), In(s))
  BY <1>2 DEF Injection, IsInjective, Surjection, In, Items
<1>5. IsFiniteSet(In(s)) /\ Cardinality(In(s)) = Cardinality(1..Len(s))
  BY <1>1, <1>4, FS_Surjection
<1> QED
  BY <1>1, <1>3, <1>5

(* LL_FOREACH goes over them in the order of the links.                    *)
LEMMA NodesOfLinked ==
  ASSUME NEW head, NEW next \in LinksOf, NEW prev, NEW s, Linked(head, next, prev, s)
  PROVE  LL_Nodes([head |-> head, next |-> next]) = s
<1> DEFINE l == [head |-> head, next |-> next]
           size == Cardinality(DOMAIN l.next)
           Walk(f) == [k \in 0..size |-> IF k = 0 THEN l.head ELSE After(l, f[k - 1])]
           el == CHOOSE f : f = Walk(f)
           count == Cardinality({k \in 0..size - 1 : el[k] # Null})
           chain == [k \in 0..size |-> Node(s, k)]
<1>0. Items(s)
  BY DEF Linked
<1>1. /\ Len(s) \in 0..size /\ size \in Nat
      /\ \A i \in 1..Len(s) : s[i] \in Pairs /\ s[i] # Null
  <2>1. DOMAIN l.next = Pairs
    BY DEF LinksOf
  <2> QED
    BY <1>0, <2>1, ItemsFacts, HowMany, Addresses
<1>2. l.head = Node(s, 0) /\ \A k \in 1..size : After(l, Node(s, k - 1)) = Node(s, k)
  <2>1. l.head = head /\ l.next = next
    OBVIOUS
  <2> HIDE DEF l, size
  <2> SUFFICES ASSUME NEW k \in 1..size PROVE After(l, Node(s, k - 1)) = Node(s, k)
    BY <2>1 DEF Linked
  <2>2. CASE k \in 1..Len(s)
    <3>1. Node(s, k - 1) = s[k] /\ s[k] # Null
      BY <1>1, <2>2 DEF Node
    <3> QED
      BY <2>1, <2>2, <3>1 DEF After, Linked
  <2>3. CASE k \notin 1..Len(s)
    <3>1. Node(s, k - 1) = Null /\ Node(s, k) = Null
      BY <1>1, <2>3 DEF Node
    <3> QED
      BY <3>1 DEF After
  <2> QED
    BY <2>2, <2>3
<1>3. LL_Nodes(l) = [k \in 1..count |-> el[k - 1]]
  BY DEF LL_Nodes, el, size
<1> HIDE DEF l, size
<1>4. chain = Walk(chain)
  <2>1. \A k \in 0..size : chain[k] = Walk(chain)[k]
    <3> SUFFICES ASSUME NEW k \in 0..size PROVE chain[k] = Walk(chain)[k]
      OBVIOUS
    <3>1. CASE k = 0
      BY <1>2, <3>1
    <3>2. CASE k # 0
      <4>1. k \in 1..size /\ k - 1 \in 0..size
        BY <1>1, <3>2
      <4> QED
        BY <1>2, <3>2, <4>1
    <3> QED
      BY <3>1, <3>2
  <2> QED
    BY <2>1
<1>5. el = Walk(el)
  BY <1>4
<1>6. el[0] = l.head /\ \A k \in 1..size : el[k] = After(l, el[k - 1])
  <2> HIDE DEF el
  <2>1. \A k \in 0..size : Walk(el)[k] = IF k = 0 THEN l.head ELSE After(l, el[k - 1])
    OBVIOUS
  <2> HIDE DEF Walk
  <2> QED
    BY <1>1, <1>5, <2>1
<1> HIDE DEF el
<1>7. \A k \in 0..size : el[k] = Node(s, k)
  <2> DEFINE S == {n \in Nat : n \in 0..size => el[n] = Node(s, n)}
  <2>1. 0 \in S
    BY <1>2, <1>6
  <2>2. ASSUME NEW n \in Nat, n \in S PROVE n + 1 \in S
    <3> SUFFICES ASSUME n + 1 \in 0..size PROVE el[n + 1] = Node(s, n + 1)
      OBVIOUS
    <3>1. n \in 0..size /\ n + 1 \in 1..size /\ (n + 1) - 1 = n
      BY <1>1
    <3>2. el[n] = Node(s, n) /\ el[n + 1] = After(l, el[n])
      BY <1>6, <2>2, <3>1
    <3>3. After(l, Node(s, n)) = Node(s, n + 1)
      BY <1>2, <3>1
    <3> QED
      BY <3>2, <3>3
  <2> HIDE DEF S
  <2>3. Nat \subseteq S
    BY <2>1, <2>2, InductionOnNat
  <2> QED
    BY <2>3 DEF S
<1>8. count = Len(s)
  <2>1. {k \in 0..size - 1 : el[k] # Null} = 0..Len(s) - 1
    <3>1. \A k \in 0..size - 1 : el[k] # Null <=> k < Len(s)
      <4> SUFFICES ASSUME NEW k \in 0..size - 1 PROVE Node(s, k) # Null <=> k < Len(s)
        BY <1>1, <1>7
      <4> QED
        BY <1>1 DEF Node
    <3> QED
      BY <1>1, <3>1
  <2>2. Cardinality(0..Len(s) - 1) = Len(s)
    <3> DEFINE b == Len(s) - 1
    <3>1. b \in Int /\ b + 1 = Len(s) /\ b + 1 >= 0
      BY <1>1
    <3> HIDE DEF b
    <3>2. Cardinality(0..b) = IF 0 > b THEN 0 ELSE b - 0 + 1
      BY <3>1, FS_Interval
    <3>3. Cardinality(0..b) = b + 1
      BY <3>1, <3>2
    <3> QED
      BY <3>1, <3>3 DEF b
  <2> QED
    BY <2>1, <2>2
<1>9. \A k \in 1..Len(s) : el[k - 1] = s[k]
  <2> SUFFICES ASSUME NEW k \in 1..Len(s) PROVE el[k - 1] = s[k]
    OBVIOUS
  <2>1. k - 1 \in 0..size /\ k - 1 < Len(s) /\ (k - 1) + 1 = k
    BY <1>1
  <2> QED
    BY <1>7, <2>1 DEF Node
<1> HIDE DEF count
<1>10. s = [k \in 1..Len(s) |-> s[k]]
  BY <1>0, ItemsFacts
<1>11. LL_Nodes(l) = s
  BY <1>3, <1>8, <1>9, <1>10
<1> QED
  BY <1>11 DEF l
-----------------------------------------------------------------------------
(* What the operations make of a list: x in front of it, x behind it, and  *)
(* the list without its i-th.                                              *)
Ahead(x, s) == [i \in 1..Len(s) + 1 |-> IF i = 1 THEN x ELSE s[i - 1]]
Behind(s, x) == [i \in 1..Len(s) + 1 |-> IF i <= Len(s) THEN s[i] ELSE x]
Omit(s, i) == [j \in 1..Len(s) - 1 |-> IF j < i THEN s[j] ELSE s[j + 1]]

LEMMA SeqFrom ==
  ASSUME NEW n \in Nat, NEW f \in [1..n -> Pairs]
  PROVE  f \in Seq(Pairs) /\ Len(f) = n
OBVIOUS

LEMMA NoItems == Items(<< >>) /\ Len(<< >>) = 0 /\ In(<< >>) = {}
BY DEF Items, Once, In

LEMMA AheadFacts ==
  ASSUME NEW s, Items(s), NEW x \in Pairs \ In(s)
  PROVE  /\ Items(Ahead(x, s)) /\ Len(Ahead(x, s)) = Len(s) + 1 /\ Ahead(x, s)[1] = x
         /\ \A i \in 1..Len(s) : Ahead(x, s)[i + 1] = s[i]
         /\ In(Ahead(x, s)) = In(s) \cup {x}
<1> DEFINE t == Ahead(x, s)
<1>1. Len(s) \in Nat /\ \A i \in 1..Len(s) : s[i] \in Pairs /\ s[i] # x
  BY ItemsFacts DEF In
<1>2. \A i \in 1..Len(s) + 1 : t[i] = IF i = 1 THEN x ELSE s[i - 1]
  BY DEF Ahead
<1>3. t \in Seq(Pairs) /\ Len(t) = Len(s) + 1
  <2>1. \A i \in 1..Len(s) + 1 : t[i] \in Pairs
    BY <1>1, <1>2
  <2>2. t \in [1..Len(s) + 1 -> Pairs]
    BY <2>1 DEF Ahead
  <2> QED
    BY <1>1, <2>2, SeqFrom
<1> HIDE DEF t
<1>4. t[1] = x /\ \A i \in 1..Len(s) : t[i + 1] = s[i]
  BY <1>1, <1>2
<1>5. Once(t)
  <2> SUFFICES ASSUME NEW i \in 1..Len(s) + 1, NEW j \in 1..Len(s) + 1, t[i] = t[j] PROVE i = j
    BY <1>3 DEF Once
  <2>1. CASE i = 1
    <3>1. j # 1 => j - 1 \in 1..Len(s)
      BY <1>1
    <3> QED
      BY <1>1, <1>2, <2>1, <3>1
  <2>2. CASE j = 1
    <3>1. i # 1 => i - 1 \in 1..Len(s)
      BY <1>1
    <3> QED
      BY <1>1, <1>2, <2>2, <3>1
  <2>3. CASE i # 1 /\ j # 1
    <3>1. i - 1 \in 1..Len(s) /\ j - 1 \in 1..Len(s) /\ s[i - 1] = s[j - 1]
      BY <1>1, <1>2, <2>3
    <3>2. i - 1 = j - 1
      BY <3>1 DEF Items, Once
    <3> QED
      BY <1>1, <3>2
  <2> QED
    BY <2>1, <2>2, <2>3
<1>6. In(t) = In(s) \cup {x}
  <2>1. ASSUME NEW i \in 1..Len(t) PROVE t[i] \in In(s) \cup {x}
    <3>1. i # 1 => i - 1 \in 1..Len(s)
      BY <1>1, <1>3
    <3> QED
      BY <1>2, <1>3, <3>1 DEF In
  <2>2. ASSUME NEW i \in 1..Len(s) PROVE s[i] \in In(t)
    <3>1. i + 1 \in 1..Len(t)
      BY <1>1, <1>3
    <3> QED
      BY <1>4, <3>1 DEF In
  <2>3. x \in In(t)
    <3>1. 1 \in 1..Len(t)
      BY <1>1, <1>3
    <3> QED
      BY <1>4, <3>1 DEF In
  <2> QED
    BY <2>1, <2>2, <2>3 DEF In
<1> QED
  BY <1>3, <1>4, <1>5, <1>6 DEF t, Items

LEMMA BehindFacts ==
  ASSUME NEW s, Items(s), NEW x \in Pairs \ In(s)
  PROVE  /\ Items(Behind(s, x)) /\ Len(Behind(s, x)) = Len(s) + 1 /\ Behind(s, x)[Len(s) + 1] = x
         /\ \A i \in 1..Len(s) : Behind(s, x)[i] = s[i]
         /\ In(Behind(s, x)) = In(s) \cup {x}
<1> DEFINE t == Behind(s, x)
<1>1. Len(s) \in Nat /\ \A i \in 1..Len(s) : s[i] \in Pairs /\ s[i] # x
  BY ItemsFacts DEF In
<1>2. \A i \in 1..Len(s) + 1 : t[i] = IF i <= Len(s) THEN s[i] ELSE x
  BY DEF Behind
<1>3. t \in Seq(Pairs) /\ Len(t) = Len(s) + 1
  <2>1. \A i \in 1..Len(s) + 1 : t[i] \in Pairs
    BY <1>1, <1>2
  <2>2. t \in [1..Len(s) + 1 -> Pairs]
    BY <2>1 DEF Behind
  <2> QED
    BY <1>1, <2>2, SeqFrom
<1> HIDE DEF t
<1>4. t[Len(s) + 1] = x /\ \A i \in 1..Len(s) : t[i] = s[i]
  BY <1>1, <1>2
<1>5. Once(t)
  <2> SUFFICES ASSUME NEW i \in 1..Len(s) + 1, NEW j \in 1..Len(s) + 1, t[i] = t[j] PROVE i = j
    BY <1>3 DEF Once
  <2>1. i \in 1..Len(s) \/ i = Len(s) + 1
    BY <1>1
  <2>2. j \in 1..Len(s) \/ j = Len(s) + 1
    BY <1>1
  <2>3. CASE i \in 1..Len(s) /\ j \in 1..Len(s)
    BY <1>4, <2>3 DEF Items, Once
  <2> QED
    BY <1>1, <1>4, <2>1, <2>2, <2>3
<1>6. In(t) = In(s) \cup {x}
  <2>1. \A i \in 1..Len(t) : i \in 1..Len(s) \/ i = Len(s) + 1
    BY <1>1, <1>3
  <2>2. \A i \in 1..Len(s) : i \in 1..Len(t)
    BY <1>1, <1>3
  <2>3. Len(s) + 1 \in 1..Len(t)
    BY <1>1, <1>3
  <2> QED
    BY <1>4, <2>1, <2>2, <2>3 DEF In
<1> QED
  BY <1>3, <1>4, <1>5, <1>6 DEF t, Items

LEMMA OmitFacts ==
  ASSUME NEW s, Items(s), NEW i \in 1..Len(s)
  PROVE  /\ Items(Omit(s, i)) /\ Len(Omit(s, i)) = Len(s) - 1
         /\ \A j \in 1..Len(s) - 1 : Omit(s, i)[j] = IF j < i THEN s[j] ELSE s[j + 1]
         /\ In(Omit(s, i)) = In(s) \ {s[i]}
<1> DEFINE t == Omit(s, i)
<1>1. /\ Len(s) \in Nat \ {0} /\ \A j \in 1..Len(s) : s[j] \in Pairs
      /\ \A j \in 1..Len(s) - 1 : j \in 1..Len(s) /\ j + 1 \in 1..Len(s)
  BY ItemsFacts
<1>2. \A j \in 1..Len(s) - 1 : t[j] = (IF j < i THEN s[j] ELSE s[j + 1]) /\ t[j] \in Pairs
  BY <1>1 DEF Omit
<1>3. t \in Seq(Pairs) /\ Len(t) = Len(s) - 1
  <2>1. t \in [1..Len(s) - 1 -> Pairs]
    BY <1>2 DEF Omit
  <2>2. Len(s) - 1 \in Nat
    BY <1>1
  <2> HIDE DEF t
  <2> QED
    BY <2>1, <2>2, SeqFrom
<1> HIDE DEF t
<1>4. Once(t)
  <2> SUFFICES ASSUME NEW j \in 1..Len(s) - 1, NEW k \in 1..Len(s) - 1, t[j] = t[k] PROVE j = k
    BY <1>3 DEF Once
  <2> DEFINE a == IF j < i THEN j ELSE j + 1
             b == IF k < i THEN k ELSE k + 1
  <2>1. a \in 1..Len(s) /\ b \in 1..Len(s) /\ t[j] = s[a] /\ t[k] = s[b]
    BY <1>1, <1>2
  <2>2. a = b
    BY <2>1 DEF Items, Once
  <2> QED
    BY <1>1, <2>2
<1>5. In(t) = In(s) \ {s[i]}
  <2>1. ASSUME NEW j \in 1..Len(t) PROVE t[j] \in In(s) \ {s[i]}
    <3> DEFINE a == IF j < i THEN j ELSE j + 1
    <3>1. a \in 1..Len(s) /\ t[j] = s[a] /\ a # i
      BY <1>1, <1>2, <1>3
    <3> QED
      BY <3>1 DEF Items, Once, In
  <2>2. ASSUME NEW j \in 1..Len(s), s[j] # s[i] PROVE s[j] \in In(t)
    <3>1. CASE j < i
      <4>1. j \in 1..Len(s) - 1 /\ t[j] = s[j]
        BY <1>1, <1>2, <3>1
      <4> QED
        BY <1>3, <4>1 DEF In
    <3>2. CASE i < j
      <4>1. j - 1 \in 1..Len(s) - 1 /\ ~(j - 1 < i) /\ (j - 1) + 1 = j
        BY <1>1, <3>2
      <4>2. t[j - 1] = s[j]
        BY <1>2, <4>1
      <4> QED
        BY <1>3, <4>1, <4>2 DEF In
    <3> QED
      BY <1>1, <2>2, <3>1, <3>2
  <2> QED
    BY <2>1, <2>2 DEF In
<1> QED
  BY <1>2, <1>3, <1>4, <1>5 DEF t, Items

-----------------------------------------------------------------------------
(* What the operations do to the links.                                    *)
LEMMA Writing ==
  ASSUME NEW f \in LinksOf, NEW x \in Addr, NEW v \in Addr
  PROVE  /\ Write(f, x, v) \in LinksOf
         /\ \A y \in Pairs : Write(f, x, v)[y] = IF y = x THEN v ELSE f[y]
BY Addresses DEF LinksOf, Addr, Write

LEMMA Linking ==
  ASSUME NEW next, NEW prev, NEW s, NEW head, Linked(head, next, prev, s)
  PROVE  /\ head \in Addr
         /\ \A i \in 1..Len(s) : next[s[i]] \in Addr /\ prev[s[i]] \in Addr
<1>1. Items(s) /\ Len(s) \in Nat /\ \A i \in 1..Len(s) : s[i] \in Addr
  BY ItemsFacts, Addresses DEF Linked
<1>2. \A i \in 0..Len(s) : Node(s, i) \in Addr
  <2> SUFFICES ASSUME NEW i \in 0..Len(s) PROVE Node(s, i) \in Addr
    OBVIOUS
  <2>1. i < Len(s) => i + 1 \in 1..Len(s)
    BY <1>1
  <2> QED
    BY <1>1, <2>1, Addresses DEF Node
<1>3. \A i \in 1..Len(s) : Back(s, i) \in Addr
  <2> SUFFICES ASSUME NEW i \in 1..Len(s) PROVE Back(s, i) \in Addr
    OBVIOUS
  <2>1. i # 1 => i - 1 \in 1..Len(s)
    BY <1>1
  <2> QED
    BY <1>1, <2>1, Addresses DEF Back
<1>4. 0 \in 0..Len(s) /\ \A i \in 1..Len(s) : i \in 0..Len(s)
  BY <1>1
<1> QED
  BY <1>2, <1>3, <1>4 DEF Linked

(* Links of other items do not matter.                                     *)
LEMMA LinkedSame ==
  ASSUME NEW head, NEW next, NEW prev, NEW s, Linked(head, next, prev, s),
         NEW next2, NEW prev2, \A x \in In(s) : next2[x] = next[x] /\ prev2[x] = prev[x]
  PROVE  Linked(head, next2, prev2, s)
BY DEF Linked, In

LEMMA LinkedAhead ==
  ASSUME NEW head, NEW next \in LinksOf, NEW prev \in LinksOf, NEW s,
         Linked(head, next, prev, s), NEW x \in Pairs \ In(s)
  PROVE  Linked(x, [next EXCEPT ![x] = head],
                Write([prev EXCEPT ![x] = Null], head, x), Ahead(x, s))
<1> DEFINE t == Ahead(x, s)
           n == [next EXCEPT ![x] = head]
           p == Write([prev EXCEPT ![x] = Null], head, x)
<1>1. /\ Items(s) /\ Len(s) \in Nat /\ head \in Addr /\ x # Null /\ x \in Addr
      /\ \A i \in 1..Len(s) : s[i] \in Pairs /\ s[i] # Null /\ s[i] # x
  <2>1. Items(s)
    BY DEF Linked
  <2> QED
    BY <2>1, ItemsFacts, Linking, Addresses DEF In
<1>2. Items(t) /\ Len(t) = Len(s) + 1 /\ t[1] = x /\ \A i \in 1..Len(s) : t[i + 1] = s[i]
  BY <1>1, AheadFacts
<1>3. n[x] = head /\ \A y \in Pairs : y # x => n[y] = next[y]
  BY DEF LinksOf
<1>4. \A y \in Pairs : p[y] = IF y = head THEN x ELSE IF y = x THEN Null ELSE prev[y]
  <2>1. [prev EXCEPT ![x] = Null] \in LinksOf
    BY Addresses DEF LinksOf
  <2>2. \A y \in Pairs : [prev EXCEPT ![x] = Null][y] = IF y = x THEN Null ELSE prev[y]
    BY DEF LinksOf
  <2> DEFINE z == [prev EXCEPT ![x] = Null]
  <2>3. z \in LinksOf /\ \A y \in Pairs : z[y] = IF y = x THEN Null ELSE prev[y]
    BY <2>1, <2>2
  <2> HIDE DEF z
  <2>4. \A y \in Pairs : Write(z, head, x)[y] = IF y = head THEN x ELSE z[y]
    BY <1>1, <2>3, Writing
  <2> QED
    BY <2>3, <2>4 DEF z
<1>5. head = Node(s, 0) /\ \A i \in 1..Len(s) : next[s[i]] = Node(s, i) /\ prev[s[i]] = Back(s, i)
  BY DEF Linked
<1> HIDE DEF t, n, p
<1>6. x = Node(t, 0)
  BY <1>1, <1>2 DEF Node
<1>7. \A i \in 0..Len(s) : Node(t, i + 1) = Node(s, i)
  <2> SUFFICES ASSUME NEW i \in 0..Len(s) PROVE Node(t, i + 1) = Node(s, i)
    OBVIOUS
  <2>1. CASE i < Len(s)
    <3>1. i + 1 \in 1..Len(s) /\ i + 1 < Len(t)
      BY <1>1, <1>2, <2>1
    <3> QED
      BY <1>2, <2>1, <3>1 DEF Node
  <2>2. CASE ~(i < Len(s))
    <3>1. ~(i + 1 < Len(t))
      BY <1>1, <1>2, <2>2
    <3> QED
      BY <2>2, <3>1 DEF Node
  <2> QED
    BY <2>1, <2>2
<1>8. ASSUME NEW i \in 1..Len(t) PROVE n[t[i]] = Node(t, i) /\ p[t[i]] = Back(t, i)
  <2>1. CASE i = 1
    <3>1. Node(t, 1) = Node(s, 0)
      <4>1. 0 \in 0..Len(s) /\ 0 + 1 = 1
        BY <1>1
      <4> QED
        BY <1>7, <4>1
    <3>2. n[x] = Node(t, 1)
      BY <1>3, <1>5, <3>1
    <3>3. x # head
      <4>1. CASE Len(s) = 0
        <5>1. head = Null
          BY <1>5, <4>1 DEF Node
        <5> QED
          BY <1>1, <5>1
      <4>2. CASE Len(s) # 0
        <5>1. 0 < Len(s) /\ 1 \in 1..Len(s)
          BY <1>1, <4>2
        <5>2. head = s[1]
          BY <1>5, <5>1 DEF Node
        <5> QED
          BY <1>1, <5>1, <5>2
      <4> QED
        BY <4>1, <4>2
    <3>4. p[x] = Null
      BY <1>4, <3>3
    <3> QED
      BY <1>2, <2>1, <3>2, <3>4 DEF Back
  <2>2. CASE i # 1
    <3>1. PICK k \in 1..Len(s) : i = k + 1
      <4>1. i - 1 \in 1..Len(s) /\ i = (i - 1) + 1
        BY <1>1, <1>2, <2>2
      <4> QED
        BY <4>1
    <3>2. t[i] = s[k] /\ s[k] \in Pairs /\ s[k] # x
      BY <1>1, <1>2, <3>1
    <3>3. n[t[i]] = Node(t, i)
      <4>1. k \in 0..Len(s)
        BY <1>1
      <4> QED
        BY <1>3, <1>5, <1>7, <3>1, <3>2, <4>1
    <3>4. p[t[i]] = Back(t, i)
      <4>1. CASE k = 1
        <5>1. head = s[1]
          <6>1. 0 < Len(s)
            BY <1>1, <4>1
          <6> QED
            BY <1>5, <6>1 DEF Node
        <5>2. Back(t, i) = x
          BY <1>2, <3>1, <4>1 DEF Back
        <5> QED
          BY <1>4, <3>2, <4>1, <5>1, <5>2
      <4>2. CASE k # 1
        <5>1. k - 1 \in 1..Len(s) /\ i - 1 = (k - 1) + 1 /\ i # 1 /\ 1 \in 1..Len(s) /\ 0 < Len(s)
          BY <1>1, <3>1, <4>2
        <5>2. Back(t, i) = s[k - 1]
          BY <1>2, <5>1 DEF Back
        <5>3. head = s[1]
          BY <1>5, <5>1 DEF Node
        <5>4. s[k] # head
          BY <1>1, <4>2, <5>1, <5>3 DEF Items, Once
        <5>5. prev[s[k]] = s[k - 1]
          BY <1>5, <4>2 DEF Back
        <5> QED
          BY <1>4, <3>2, <5>2, <5>4, <5>5
      <4> QED
        BY <4>1, <4>2
    <3> QED
      BY <3>3, <3>4
  <2> QED
    BY <2>1, <2>2
<1> QED
  BY <1>2, <1>6, <1>8 DEF Linked, t, n, p

LEMMA LinkedBehind ==
  ASSUME NEW head, NEW next \in LinksOf, NEW prev \in LinksOf, NEW s,
         Linked(head, next, prev, s), Len(s) # 0, NEW x \in Pairs \ In(s)
  PROVE  Linked(head, [next EXCEPT ![x] = Null, ![s[Len(s)]] = x],
                [prev EXCEPT ![x] = s[Len(s)]], Behind(s, x))
<1> DEFINE t == Behind(s, x)
           y == s[Len(s)]
           n == [next EXCEPT ![x] = Null, ![y] = x]
           p == [prev EXCEPT ![x] = y]
<1>1. /\ Items(s) /\ Len(s) \in Nat \ {0} /\ Len(s) \in 1..Len(s)
      /\ \A i \in 1..Len(s) : s[i] \in Pairs /\ s[i] # Null /\ s[i] # x
  <2>1. Items(s)
    BY DEF Linked
  <2>2. Len(s) \in Nat /\ \A i \in 1..Len(s) : s[i] \in Pairs /\ s[i] # Null /\ s[i] # x
    BY <2>1, ItemsFacts DEF In
  <2> QED
    BY <2>1, <2>2
<1>2. Items(t) /\ Len(t) = Len(s) + 1 /\ t[Len(s) + 1] = x /\ \A i \in 1..Len(s) : t[i] = s[i]
  BY <1>1, BehindFacts
<1>3. y \in Pairs /\ y # x
  BY <1>1
<1> HIDE DEF y
<1>4. \A z \in Pairs : n[z] = IF z = y THEN x ELSE IF z = x THEN Null ELSE next[z]
  BY <1>3 DEF LinksOf
<1>5. \A z \in Pairs : p[z] = IF z = x THEN y ELSE prev[z]
  BY DEF LinksOf
<1>6. head = Node(s, 0) /\ \A i \in 1..Len(s) : next[s[i]] = Node(s, i) /\ prev[s[i]] = Back(s, i)
  BY DEF Linked
<1> HIDE DEF t, n, p
<1>7. head = Node(t, 0)
  <2>1. 0 < Len(s) /\ 0 < Len(t) /\ 1 \in 1..Len(s)
    BY <1>1, <1>2
  <2> QED
    BY <1>2, <1>6, <2>1 DEF Node
<1>8. ASSUME NEW i \in 1..Len(t) PROVE n[t[i]] = Node(t, i) /\ p[t[i]] = Back(t, i)
  <2>1. CASE i = Len(s) + 1
    <3>1. i # 1 /\ i - 1 = Len(s) /\ ~(i < Len(t))
      BY <1>1, <1>2, <2>1
    <3>2. t[i] = x /\ Node(t, i) = Null /\ Back(t, i) = y
      BY <1>1, <1>2, <2>1, <3>1 DEF Node, Back, y
    <3> QED
      BY <1>3, <1>4, <1>5, <3>2
  <2>2. CASE i \in 1..Len(s)
    <3>1. i < Len(t) /\ t[i] = s[i] /\ s[i] # x /\ s[i] \in Pairs
      BY <1>1, <1>2, <2>2
    <3>2. n[t[i]] = Node(t, i)
      <4>1. CASE i = Len(s)
        BY <1>2, <1>4, <3>1, <4>1 DEF Node, y
      <4>2. CASE i # Len(s)
        <5>1. i + 1 \in 1..Len(s) /\ i < Len(s)
          BY <1>1, <2>2, <4>2
        <5>2. Node(t, i) = Node(s, i)
          BY <1>2, <3>1, <5>1 DEF Node
        <5>3. s[i] # y
          BY <1>1, <2>2, <4>2 DEF y, Items, Once
        <5> QED
          BY <1>4, <1>6, <2>2, <3>1, <5>2, <5>3
      <4> QED
        BY <4>1, <4>2
    <3>3. p[t[i]] = Back(t, i)
      <4>1. i # 1 => i - 1 \in 1..Len(s)
        BY <1>1, <2>2
      <4>2. Back(t, i) = Back(s, i)
        BY <1>2, <4>1 DEF Back
      <4> QED
        BY <1>5, <1>6, <2>2, <3>1, <4>2
    <3> QED
      BY <3>2, <3>3
  <2> QED
    BY <1>1, <1>2, <2>1, <2>2
<1>9. Linked(head, n, p, t)
  BY <1>2, <1>7, <1>8 DEF Linked
<1> QED
  BY <1>9 DEF t, n, p, y

(* Before and behind the item that is taken out.                           *)
LEMMA LinkedOmit ==
  ASSUME NEW head, NEW next \in LinksOf, NEW prev \in LinksOf, NEW s,
         Linked(head, next, prev, s), NEW i \in 1..Len(s), NEW x, x = s[i]
  PROVE  /\ Linked(IF head = x THEN next[x] ELSE head, Write(next, prev[x], next[x]),
                   Write(prev, next[x], prev[x]), Omit(s, i))
         /\ prev[x] = Null <=> head = x
         /\ prev[x] = Null <=> i = 1
         /\ next[x] = Null <=> i = Len(s)
         /\ prev[x] \in In(s) \cup {Null} /\ next[x] \in In(s) \cup {Null}
<1> DEFINE t == Omit(s, i)
           n == Write(next, prev[x], next[x])
           p == Write(prev, next[x], prev[x])
<1>1. /\ Items(s) /\ Len(s) \in Nat \ {0}
      /\ \A j \in 1..Len(s) : s[j] \in Pairs /\ s[j] # Null
  <2>1. Items(s)
    BY DEF Linked
  <2>2. Len(s) \in Nat /\ \A j \in 1..Len(s) : s[j] \in Pairs /\ s[j] # Null
    BY <2>1, ItemsFacts
  <2> QED
    BY <2>1, <2>2
<1>2. \A j, k \in 1..Len(s) : s[j] = s[k] => j = k
  BY <1>1 DEF Items, Once
<1>3. /\ Items(t) /\ Len(t) = Len(s) - 1
      /\ \A j \in 1..Len(s) - 1 : t[j] = IF j < i THEN s[j] ELSE s[j + 1]
  BY <1>1, OmitFacts
<1>4. /\ head = s[1] /\ 1 \in 1..Len(s)
      /\ \A j \in 1..Len(s) : /\ next[s[j]] = IF j < Len(s) THEN s[j + 1] ELSE Null
                              /\ prev[s[j]] = IF j = 1 THEN Null ELSE s[j - 1]
  <2>1. 0 < Len(s) /\ 1 \in 1..Len(s)
    BY <1>1
  <2> QED
    BY <2>1 DEF Linked, Node, Back
<1>5. next[x] \in Addr /\ prev[x] \in Addr
  BY Linking
<1>6. /\ \A y \in Pairs : n[y] = IF y = prev[x] THEN next[x] ELSE next[y]
      /\ \A y \in Pairs : p[y] = IF y = next[x] THEN prev[x] ELSE prev[y]
  <2> DEFINE b == prev[x]
             c == next[x]
  <2>1. b \in Addr /\ c \in Addr
    BY <1>5
  <2> HIDE DEF b, c
  <2>2. \A y \in Pairs : Write(next, b, c)[y] = IF y = b THEN c ELSE next[y]
    BY <2>1, Writing
  <2>3. \A y \in Pairs : Write(prev, c, b)[y] = IF y = c THEN b ELSE prev[y]
    BY <2>1, Writing
  <2> QED
    BY <2>2, <2>3 DEF b, c
<1>7. next[x] = (IF i < Len(s) THEN s[i + 1] ELSE Null) /\ prev[x] = IF i = 1 THEN Null ELSE s[i - 1]
  BY <1>4
<1>8. \A j \in 1..Len(s) : /\ j # 1 => j - 1 \in 1..Len(s)
                           /\ j < Len(s) => j + 1 \in 1..Len(s)
  BY <1>1
<1>9. (prev[x] = Null <=> i = 1) /\ (next[x] = Null <=> i = Len(s)) /\ (head = x <=> i = 1)
      /\ prev[x] \in In(s) \cup {Null} /\ next[x] \in In(s) \cup {Null}
  <2>1. (i < Len(s)) <=> i # Len(s)
    BY <1>1
  <2> QED
    BY <1>1, <1>2, <1>4, <1>7, <1>8, <2>1 DEF In
<1> HIDE DEF t, n, p
<1>10. (IF head = x THEN next[x] ELSE head) = Node(t, 0)
  <2>1. CASE i = 1
    <3>1. CASE Len(s) = 1
      <4>1. ~(0 < Len(t)) /\ ~(i < Len(s))
        BY <1>3, <2>1, <3>1
      <4> QED
        BY <1>7, <1>9, <2>1, <4>1 DEF Node
    <3>2. CASE Len(s) # 1
      <4>1. 0 < Len(t) /\ i < Len(s) /\ 1 \in 1..Len(s) - 1 /\ ~(1 < i)
        BY <1>1, <1>3, <2>1, <3>2
      <4> QED
        BY <1>3, <1>7, <1>9, <2>1, <4>1 DEF Node
    <3> QED
      BY <3>1, <3>2
  <2>2. CASE i # 1
    <3>1. 0 < Len(t) /\ 1 \in 1..Len(s) - 1 /\ 1 < i
      BY <1>1, <1>3, <2>2
    <3> QED
      BY <1>3, <1>4, <1>9, <2>2, <3>1 DEF Node
  <2> QED
    BY <2>1, <2>2
<1>11. ASSUME NEW j \in 1..Len(t) PROVE n[t[j]] = Node(t, j) /\ p[t[j]] = Back(t, j)
  <2> DEFINE a == IF j < i THEN j ELSE j + 1
  <2>1. j \in 1..Len(s) - 1 /\ a \in 1..Len(s) /\ a # i /\ t[j] = s[a]
    BY <1>1, <1>3
  <2>2. s[a] \in Pairs /\ (a = i - 1 <=> s[a] = prev[x]) /\ (a = i + 1 <=> s[a] = next[x])
    <3>1. i # 1 => i - 1 \in 1..Len(s)
      BY <1>8
    <3>2. i < Len(s) => i + 1 \in 1..Len(s)
      BY <1>8
    <3>3. (i = 1 => a # i - 1) /\ (~(i < Len(s)) => a # i + 1)
      BY <1>1, <2>1
    <3> QED
      BY <1>1, <1>2, <1>7, <2>1, <3>1, <3>2, <3>3
  <2>3. n[t[j]] = Node(t, j)
    <3>1. CASE a = i - 1
      <4>1. j = i - 1 /\ n[t[j]] = next[x]
        BY <1>1, <1>6, <2>1, <2>2, <3>1
      <4>2. j < Len(t) <=> i < Len(s)
        BY <1>1, <1>3, <4>1
      <4>3. CASE i < Len(s)
        <5>1. PICK k \in 1..Len(s) - 1 : k = j + 1 /\ ~(k < i) /\ k + 1 = i + 1
          BY <1>1, <4>1, <4>3
        <5>2. t[k] = s[i + 1]
          BY <1>3, <5>1
        <5>3. Node(t, j) = s[i + 1]
          BY <4>2, <4>3, <5>1, <5>2 DEF Node
        <5> QED
          BY <1>7, <4>1, <4>3, <5>3
      <4>4. CASE ~(i < Len(s))
        BY <1>7, <4>1, <4>2, <4>4 DEF Node
      <4> QED
        BY <4>3, <4>4
    <3>2. CASE a # i - 1
      <4>1. n[t[j]] = IF a < Len(s) THEN s[a + 1] ELSE Null
        <5>1. n[s[a]] = next[s[a]]
          BY <1>6, <2>2, <3>2
        <5> QED
          BY <1>4, <2>1, <5>1
      <4>2. j < Len(t) <=> a < Len(s)
        BY <1>1, <1>3, <2>1, <3>2
      <4>3. j < Len(t) => j + 1 \in 1..Len(s) - 1 /\ (IF j + 1 < i THEN j + 1 ELSE (j + 1) + 1) = a + 1
        BY <1>1, <1>3, <2>1, <3>2
      <4>4. j < Len(t) => t[j + 1] = s[a + 1]
        BY <1>3, <4>3
      <4> QED
        BY <4>1, <4>2, <4>4 DEF Node
    <3> QED
      BY <3>1, <3>2
  <2>4. p[t[j]] = Back(t, j)
    <3>1. CASE a = i + 1
      <4>1. j = i /\ p[t[j]] = prev[x]
        BY <1>1, <1>6, <2>1, <2>2, <3>1
      <4>2. j # 1 => j - 1 \in 1..Len(s) - 1 /\ j - 1 < i
        BY <1>1, <2>1, <4>1
      <4> QED
        BY <1>3, <1>7, <4>1, <4>2 DEF Back
    <3>2. CASE a # i + 1
      <4>1. p[t[j]] = IF a = 1 THEN Null ELSE s[a - 1]
        <5>1. p[s[a]] = prev[s[a]]
          BY <1>6, <2>2, <3>2
        <5>2. prev[s[a]] = IF a = 1 THEN Null ELSE s[a - 1]
          BY <1>4, <2>1
        <5> QED
          BY <2>1, <5>1, <5>2
      <4>2. j = 1 <=> a = 1
        BY <1>1, <2>1, <3>2
      <4>3. j # 1 => j - 1 \in 1..Len(s) - 1 /\ (IF j - 1 < i THEN j - 1 ELSE (j - 1) + 1) = a - 1
        BY <1>1, <1>3, <2>1, <3>2
      <4>4. j # 1 => t[j - 1] = s[a - 1]
        BY <1>3, <4>3
      <4> QED
        BY <4>1, <4>2, <4>4 DEF Back
    <3> QED
      BY <3>1, <3>2
  <2> QED
    BY <2>3, <2>4
<1>12. Linked(IF head = x THEN next[x] ELSE head, n, p, t)
  BY <1>3, <1>10, <1>11 DEF Linked
<1> QED
  BY <1>9, <1>12 DEF t, n, p

-----------------------------------------------------------------------------
(* Tables with n buckets.  c has the items of every bucket in their order, *)
(* X the items of all of them.                                             *)
Buckets == [hh_head : Addr, count : Nat, expand_mult : Nat]
Tables(n) ==
  [buckets : [0..n - 1 -> Buckets], num_items : Nat, tail : Pairs,
   ideal : Nat, nonideal : Nat, ineff : Nat, noexpand : BOOLEAN]
Hashes(n) ==
  [head : Addr, tbl : Tables(n), next : LinksOf, prev : LinksOf, hh_next : LinksOf, hh_prev : LinksOf]

KeyMaps == [Pairs -> DOMAIN Hash]
BucketOf(x, key, n) == HASH_TO_BKT(Hash[key[x]], n)

Chained(h, n, c, X, key) ==
  /\ X \subseteq Pairs /\ DOMAIN c = 0..n - 1
  /\ \A b \in 0..n - 1 :
       /\ Linked(h.tbl.buckets[b].hh_head, h.hh_next, h.hh_prev, c[b])
       /\ h.tbl.buckets[b].count = Len(c[b])
       /\ In(c[b]) = {x \in X : BucketOf(x, key, n) = b}

LEMMA BucketNumbers ==
  ASSUME NEW n \in Nat \ {0}, NEW key \in KeyMaps, NEW x \in Pairs
  PROVE  BucketOf(x, key, n) \in 0..n - 1
<1>1. Hash[key[x]] \in Nat
  BY HashAssumption DEF KeyMaps
<1>2. \A v \in Nat : v % n \in 0..n - 1
  OBVIOUS
<1> QED
  BY <1>1, <1>2 DEF BucketOf, HASH_TO_BKT

LEMMA HowManyBuckets ==
  ASSUME NEW n \in Nat \ {0}, NEW h \in Hashes(n)
  PROVE  NumBuckets(h) = n
<1>1. DOMAIN h.tbl.buckets = 0..n - 1
  BY DEF Hashes, Tables
<1>2. Cardinality(0..n - 1) = IF 0 > n - 1 THEN 0 ELSE (n - 1) - 0 + 1
  BY FS_Interval
<1>3. Cardinality(0..n - 1) = n
  BY <1>2
<1> QED
  BY <1>1, <1>3 DEF NumBuckets

(* What no operation on the buckets changes.                               *)
SameOrder(h, g) ==
  /\ g.head = h.head /\ g.next = h.next /\ g.prev = h.prev
  /\ g.tbl.num_items = h.tbl.num_items /\ g.tbl.tail = h.tbl.tail

Pushed(n, h, b, x, g) ==
  /\ g \in Hashes(n) /\ SameOrder(h, g)
  /\ g.tbl.ideal = h.tbl.ideal /\ g.tbl.noexpand = h.tbl.noexpand
  /\ g.hh_next = [h.hh_next EXCEPT ![x] = h.tbl.buckets[b].hh_head]
  /\ g.hh_prev = Write([h.hh_prev EXCEPT ![x] = Null], h.tbl.buckets[b].hh_head, x)
  /\ g.tbl.buckets[b].hh_head = x
  /\ g.tbl.buckets[b].count = h.tbl.buckets[b].count + 1
  /\ \A a \in 0..n - 1 : a # b => g.tbl.buckets[a] = h.tbl.buckets[a]



LEMMA PushFields ==
  ASSUME NEW n \in Nat \ {0}, NEW h \in Hashes(n), NEW b \in 0..n - 1, NEW x \in Pairs,
         NEW g, g = PushBucket(h, b, x)
  PROVE  Pushed(n, h, b, x, g)
<1> DEFINE y == h.tbl.buckets[b].hh_head
           k == h.tbl.buckets[b]
           nx == [h.hh_next EXCEPT ![x] = y]
           pv == Write([h.hh_prev EXCEPT ![x] = Null], y, x)
<1>1. h.tbl \in Tables(n) /\ h.hh_next \in LinksOf /\ h.hh_prev \in LinksOf
  BY DEF Hashes
<1>2. k \in Buckets /\ y \in Addr /\ k.count + 1 \in Nat
  <2>1. k \in Buckets
    BY <1>1 DEF Tables
  <2> HIDE DEF k
  <2>2. k.hh_head \in Addr /\ k.count + 1 \in Nat
    BY <2>1 DEF Buckets
  <2> QED
    BY <2>1, <2>2 DEF k
<1>3. nx \in LinksOf /\ pv \in LinksOf
  <2>1. [h.hh_prev EXCEPT ![x] = Null] \in LinksOf
    BY <1>1, Addresses DEF LinksOf
  <2>2. nx \in LinksOf
    BY <1>1, <1>2 DEF LinksOf
  <2> QED
    BY <1>2, <2>1, <2>2, Writing, Addresses
<1>4. g.hh_next = nx /\ g.hh_prev = pv
  BY DEF PushBucket, Hashes
<1>5. SameOrder(h, g) /\ g.tbl.ideal = h.tbl.ideal /\ g.tbl.noexpand = h.tbl.noexpand
  BY <1>1 DEF PushBucket, Hashes, Tables, SameOrder
<1>6. g.tbl.buckets[b].hh_head = x /\ g.tbl.buckets[b].count = k.count + 1
  BY <1>1, <1>2 DEF PushBucket, Hashes, Tables, Buckets
<1>7. \A a \in 0..n - 1 : a # b => g.tbl.buckets[a] = h.tbl.buckets[a]
  BY <1>1, <1>2 DEF PushBucket, Hashes, Tables, Buckets
<1>8. g \in Hashes(n)
  <2>1. g.tbl.buckets[b] \in Buckets
    BY <1>1, <1>2, Addresses DEF PushBucket, Hashes, Tables, Buckets
  <2>2. g.tbl.buckets = [a \in 0..n - 1 |-> g.tbl.buckets[a]]
    BY <1>1 DEF PushBucket, Hashes, Tables
  <2>3. \A a \in 0..n - 1 : g.tbl.buckets[a] \in Buckets
    <3>1. \A a \in 0..n - 1 : h.tbl.buckets[a] \in Buckets
      BY <1>1 DEF Tables
    <3> QED
      BY <1>7, <2>1, <3>1
  <2>4. PICK bs \in [0..n - 1 -> Buckets] : bs = g.tbl.buckets
    BY <2>2, <2>3
  <2>5. g.tbl = [h.tbl EXCEPT !.buckets = g.tbl.buckets]
    BY <1>1 DEF PushBucket, Hashes, Tables
  <2>6. g.tbl \in Tables(n)
    BY <1>1, <2>4, <2>5 DEF Tables
  <2> QED
    BY <1>3, <2>6 DEF PushBucket, Hashes
<1> QED
  BY <1>4, <1>5, <1>6, <1>7, <1>8 DEF Pushed

(* An item in front of its bucket.                                         *)
LEMMA PushChained ==
  ASSUME NEW n \in Nat \ {0}, NEW h \in Hashes(n), NEW key \in KeyMaps, NEW c, NEW X,
         Chained(h, n, c, X, key), NEW x \in Pairs \ X, NEW b, b = BucketOf(x, key, n),
         NEW g, g = PushBucket(h, b, x)
  PROVE  Chained(g, n, [c EXCEPT ![b] = Ahead(x, c[b])], X \cup {x}, key)
<1> DEFINE d == [c EXCEPT ![b] = Ahead(x, c[b])]
           y == h.tbl.buckets[b].hh_head
<1>1. b \in 0..n - 1
  BY BucketNumbers
<1>2. /\ h.hh_next \in LinksOf /\ h.hh_prev \in LinksOf
      /\ g.hh_next = [h.hh_next EXCEPT ![x] = y]
      /\ g.hh_prev = Write([h.hh_prev EXCEPT ![x] = Null], y, x)
      /\ g.tbl.buckets[b].hh_head = x
      /\ g.tbl.buckets[b].count = h.tbl.buckets[b].count + 1
      /\ \A a \in 0..n - 1 : a # b => g.tbl.buckets[a] = h.tbl.buckets[a]
  <2>1. h.hh_next \in LinksOf /\ h.hh_prev \in LinksOf
    BY DEF Hashes
  <2>2. Pushed(n, h, b, x, g)
    BY <1>1, PushFields
  <2> QED
    BY <2>1, <2>2 DEF Pushed
<1>3. /\ X \subseteq Pairs /\ DOMAIN c = 0..n - 1
      /\ \A a \in 0..n - 1 : Linked(h.tbl.buckets[a].hh_head, h.hh_next, h.hh_prev, c[a])
      /\ \A a \in 0..n - 1 : h.tbl.buckets[a].count = Len(c[a])
      /\ \A a \in 0..n - 1 : In(c[a]) = {z \in X : BucketOf(z, key, n) = a}
  BY DEF Chained
<1>4. DOMAIN d = 0..n - 1 /\ d[b] = Ahead(x, c[b]) /\ \A a \in 0..n - 1 : a # b => d[a] = c[a]
  BY <1>1, <1>3
<1>5. x \notin In(c[b]) /\ Items(c[b]) /\ y \in Addr
  <2>1. Linked(y, h.hh_next, h.hh_prev, c[b])
    BY <1>1, <1>3
  <2>2. x \notin In(c[b])
    BY <1>1, <1>3
  <2> HIDE DEF y
  <2>3. y \in Addr
    BY <2>1, Linking
  <2> QED
    BY <2>1, <2>2, <2>3 DEF Linked
<1> HIDE DEF d
<1>6. Linked(x, g.hh_next, g.hh_prev, d[b]) /\ Len(d[b]) = Len(c[b]) + 1 /\ In(d[b]) = In(c[b]) \cup {x}
  <2>1. Linked(y, h.hh_next, h.hh_prev, c[b])
    BY <1>1, <1>3
  <2> HIDE DEF y
  <2>2. PICK u : u = c[b] /\ Items(u) /\ x \in Pairs \ In(u)
    BY <1>5
  <2>3. PICK nx \in LinksOf, pv \in LinksOf : nx = h.hh_next /\ pv = h.hh_prev
    BY <1>2
  <2>4. Linked(y, nx, pv, u)
    BY <2>1, <2>2, <2>3
  <2>5. Linked(x, [nx EXCEPT ![x] = y], Write([pv EXCEPT ![x] = Null], y, x), Ahead(x, u))
    BY <2>2, <2>4, LinkedAhead
  <2>6. Len(Ahead(x, u)) = Len(u) + 1 /\ In(Ahead(x, u)) = In(u) \cup {x}
    BY <2>2, AheadFacts
  <2>7. d[b] = Ahead(x, u)
    BY <1>1, <1>4, <2>2
  <2> QED
    BY <1>2, <2>2, <2>3, <2>5, <2>6, <2>7
<1>7. ASSUME NEW a \in 0..n - 1, a # b
      PROVE  Linked(h.tbl.buckets[a].hh_head, g.hh_next, g.hh_prev, c[a])
  <2>1. y \in In(c[b]) \cup {Null}
    <3>1. y = Node(c[b], 0) /\ Len(c[b]) \in Nat
      BY <1>1, <1>3, <1>5, ItemsFacts DEF Linked
    <3>2. 0 < Len(c[b]) => 1 \in 1..Len(c[b])
      BY <3>1
    <3> HIDE DEF y
    <3> QED
      BY <3>1, <3>2 DEF Node, In
  <2>2. Items(c[a]) /\ In(c[a]) \subseteq Pairs
    <3>1. Items(c[a])
      BY <1>3 DEF Linked
    <3> QED
      BY <3>1, ItemsFacts
  <2>3. \A z \in In(c[a]) : z \in Pairs /\ z # x /\ z # y
    <3>1. \A z \in In(c[a]) : z \in X /\ BucketOf(z, key, n) = a
      BY <1>3
    <3>2. \A z \in In(c[b]) : BucketOf(z, key, n) = b
      BY <1>1, <1>3
    <3> HIDE DEF y
    <3> QED
      BY <1>7, <2>1, <2>2, <3>1, <3>2, Addresses
  <2>4. \A z \in In(c[a]) : g.hh_next[z] = h.hh_next[z] /\ g.hh_prev[z] = h.hh_prev[z]
    <3> DEFINE p == [h.hh_prev EXCEPT ![x] = Null]
    <3>1. p \in LinksOf /\ \A z \in Pairs : z # x => p[z] = h.hh_prev[z]
      BY <1>2, Addresses DEF LinksOf
    <3>2. \A z \in Pairs : z # x => [h.hh_next EXCEPT ![x] = y][z] = h.hh_next[z]
      BY <1>2 DEF LinksOf
    <3> HIDE DEF p, y
    <3>3. \A z \in Pairs : z # y => Write(p, y, x)[z] = p[z]
      <4>1. x \in Addr /\ y \in Addr
        BY <1>5, Addresses
      <4>2. \A z \in Pairs : Write(p, y, x)[z] = IF z = y THEN x ELSE p[z]
        BY <3>1, <4>1, Writing
      <4> QED
        BY <4>2
    <3> QED
      BY <1>2, <2>3, <3>1, <3>2, <3>3 DEF p
  <2> QED
    BY <1>3, <2>4, LinkedSame
<1>8. ASSUME NEW a \in 0..n - 1
      PROVE  /\ Linked(g.tbl.buckets[a].hh_head, g.hh_next, g.hh_prev, d[a])
             /\ g.tbl.buckets[a].count = Len(d[a])
             /\ In(d[a]) = {z \in X \cup {x} : BucketOf(z, key, n) = a}
  <2>1. CASE a = b
    BY <1>2, <1>3, <1>6, <2>1
  <2>2. CASE a # b
    <3>1. g.tbl.buckets[a] = h.tbl.buckets[a] /\ d[a] = c[a]
      BY <1>2, <1>4, <2>2
    <3>2. Linked(h.tbl.buckets[a].hh_head, g.hh_next, g.hh_prev, c[a])
      BY <1>7, <2>2
    <3>3. h.tbl.buckets[a].count = Len(c[a])
      BY <1>3
    <3>4. BucketOf(x, key, n) # a /\ In(c[a]) = {z \in X : BucketOf(z, key, n) = a}
      BY <1>3, <2>2
    <3> QED
      BY <3>1, <3>2, <3>3, <3>4
  <2> QED
    BY <2>1, <2>2
<1>9. Chained(g, n, d, X \cup {x}, key)
  BY <1>3, <1>4, <1>8 DEF Chained
<1> QED
  BY <1>9 DEF d

(* An item out of its bucket.                                              *)
Deleted(n, h, b, x, g) ==
  /\ g \in Hashes(n) /\ SameOrder(h, g)
  /\ g.tbl.ideal = h.tbl.ideal /\ g.tbl.noexpand = h.tbl.noexpand
  /\ g.hh_next = Write(h.hh_next, h.hh_prev[x], h.hh_next[x])
  /\ g.hh_prev = Write(h.hh_prev, h.hh_next[x], h.hh_prev[x])
  /\ g.tbl.buckets[b].hh_head = IF h.tbl.buckets[b].hh_head = x THEN h.hh_next[x]
                                ELSE h.tbl.buckets[b].hh_head
  /\ g.tbl.buckets[b].count = h.tbl.buckets[b].count - 1
  /\ \A a \in 0..n - 1 : a # b => g.tbl.buckets[a] = h.tbl.buckets[a]

LEMMA DeleteFields ==
  ASSUME NEW n \in Nat \ {0}, NEW h \in Hashes(n), NEW b \in 0..n - 1, NEW x \in Pairs,
         h.tbl.buckets[b].count # 0, NEW g, g = HASH_DEL_IN_BKT(h, b, x)
  PROVE  Deleted(n, h, b, x, g)
<1> DEFINE k == h.tbl.buckets[b]
           nx == Write(h.hh_next, h.hh_prev[x], h.hh_next[x])
           pv == Write(h.hh_prev, h.hh_next[x], h.hh_prev[x])
<1>1. h.tbl \in Tables(n) /\ h.hh_next \in LinksOf /\ h.hh_prev \in LinksOf
  BY DEF Hashes
<1>2. k \in Buckets /\ k.count - 1 \in Nat
  <2>1. k \in Buckets
    BY <1>1 DEF Tables
  <2>2. k.count # 0
    OBVIOUS
  <2> HIDE DEF k
  <2>3. k.count - 1 \in Nat
    BY <2>1, <2>2 DEF Buckets
  <2> QED
    BY <2>1, <2>3 DEF k
<1>3. nx \in LinksOf /\ pv \in LinksOf /\ h.hh_next[x] \in Addr
  <2>1. h.hh_next[x] \in Addr /\ h.hh_prev[x] \in Addr
    BY <1>1 DEF LinksOf
  <2> QED
    BY <1>1, <2>1, Writing
<1>4. g.hh_next = nx /\ g.hh_prev = pv
  BY DEF HASH_DEL_IN_BKT, Hashes
<1>5. SameOrder(h, g) /\ g.tbl.ideal = h.tbl.ideal /\ g.tbl.noexpand = h.tbl.noexpand
  BY <1>1 DEF HASH_DEL_IN_BKT, Hashes, Tables, SameOrder
<1>6. /\ g.tbl.buckets[b].hh_head = IF k.hh_head = x THEN h.hh_next[x] ELSE k.hh_head
      /\ g.tbl.buckets[b].count = k.count - 1
  BY <1>1, <1>2 DEF HASH_DEL_IN_BKT, Hashes, Tables, Buckets
<1>7. \A a \in 0..n - 1 : a # b => g.tbl.buckets[a] = h.tbl.buckets[a]
  BY <1>1, <1>2 DEF HASH_DEL_IN_BKT, Hashes, Tables, Buckets
<1>8. g \in Hashes(n)
  <2>1. g.tbl.buckets[b] \in Buckets
    BY <1>1, <1>2, <1>3 DEF HASH_DEL_IN_BKT, Hashes, Tables, Buckets
  <2>2. g.tbl.buckets = [a \in 0..n - 1 |-> g.tbl.buckets[a]]
    BY <1>1 DEF HASH_DEL_IN_BKT, Hashes, Tables
  <2>3. \A a \in 0..n - 1 : g.tbl.buckets[a] \in Buckets
    <3>1. \A a \in 0..n - 1 : h.tbl.buckets[a] \in Buckets
      BY <1>1 DEF Tables
    <3> QED
      BY <1>7, <2>1, <3>1
  <2>4. PICK bs \in [0..n - 1 -> Buckets] : bs = g.tbl.buckets
    BY <2>2, <2>3
  <2>5. g.tbl = [h.tbl EXCEPT !.buckets = g.tbl.buckets]
    BY <1>1 DEF HASH_DEL_IN_BKT, Hashes, Tables
  <2>6. g.tbl \in Tables(n)
    BY <1>1, <2>4, <2>5 DEF Tables
  <2> QED
    BY <1>3, <2>6 DEF HASH_DEL_IN_BKT, Hashes
<1> QED
  BY <1>4, <1>5, <1>6, <1>7, <1>8 DEF Deleted

LEMMA DeleteChained ==
  ASSUME NEW n \in Nat \ {0}, NEW h \in Hashes(n), NEW key \in KeyMaps, NEW c, NEW X,
         Chained(h, n, c, X, key), NEW x \in X, NEW b, b = BucketOf(x, key, n),
         NEW i \in 1..Len(c[b]), c[b][i] = x, NEW g, g = HASH_DEL_IN_BKT(h, b, x)
  PROVE  /\ Deleted(n, h, b, x, g)
         /\ Chained(g, n, [c EXCEPT ![b] = Omit(c[b], i)], X \ {x}, key)
<1> DEFINE d == [c EXCEPT ![b] = Omit(c[b], i)]
           y == h.tbl.buckets[b].hh_head
           u == h.hh_prev[x]
           v == h.hh_next[x]
<1>1. /\ X \subseteq Pairs /\ DOMAIN c = 0..n - 1
      /\ \A a \in 0..n - 1 : Linked(h.tbl.buckets[a].hh_head, h.hh_next, h.hh_prev, c[a])
      /\ \A a \in 0..n - 1 : h.tbl.buckets[a].count = Len(c[a])
      /\ \A a \in 0..n - 1 : In(c[a]) = {z \in X : BucketOf(z, key, n) = a}
  BY DEF Chained
<1>2. x \in Pairs /\ b \in 0..n - 1
  BY <1>1, BucketNumbers
<1>3. h.hh_next \in LinksOf /\ h.hh_prev \in LinksOf
  BY DEF Hashes
<1>4. Linked(y, h.hh_next, h.hh_prev, c[b]) /\ Items(c[b])
  BY <1>1, <1>2 DEF Linked
<1>5. h.tbl.buckets[b].count = Len(c[b]) /\ Len(c[b]) \in Nat /\ Len(c[b]) # 0
  <2>1. Len(c[b]) \in Nat
    BY <1>4, ItemsFacts
  <2> QED
    BY <1>1, <1>2, <2>1
<1>6. Deleted(n, h, b, x, g)
  BY <1>2, <1>5, DeleteFields
<1> HIDE DEF y
<1>7. /\ Linked(IF y = x THEN v ELSE y, g.hh_next, g.hh_prev, Omit(c[b], i))
      /\ u \in In(c[b]) \cup {Null} /\ v \in In(c[b]) \cup {Null}
  BY <1>3, <1>4, <1>6, LinkedOmit DEF Deleted
<1>8. /\ Len(Omit(c[b], i)) = Len(c[b]) - 1 /\ In(Omit(c[b], i)) = In(c[b]) \ {x}
  <2> DEFINE s == c[b]
  <2>1. Items(s) /\ i \in 1..Len(s) /\ s[i] = x
    BY <1>4
  <2> HIDE DEF s
  <2>2. Len(Omit(s, i)) = Len(s) - 1 /\ In(Omit(s, i)) = In(s) \ {x}
    BY <2>1, OmitFacts
  <2> QED
    BY <2>2 DEF s
<1>9. DOMAIN d = 0..n - 1 /\ d[b] = Omit(c[b], i) /\ \A a \in 0..n - 1 : a # b => d[a] = c[a]
  BY <1>1, <1>2
<1> HIDE DEF d
<1>10. ASSUME NEW a \in 0..n - 1, a # b
       PROVE  Linked(h.tbl.buckets[a].hh_head, g.hh_next, g.hh_prev, c[a])
  <2>1. In(c[a]) \subseteq Pairs
    BY <1>1
  <2>2. \A z \in In(c[a]) : z # u /\ z # v
    <3>1. \A z \in In(c[a]) : BucketOf(z, key, n) = a
      BY <1>1
    <3>2. \A z \in In(c[b]) : BucketOf(z, key, n) = b
      BY <1>1, <1>2
    <3> HIDE DEF u, v
    <3> QED
      BY <1>7, <1>10, <2>1, <3>1, <3>2, Addresses
  <2>3. u \in Addr /\ v \in Addr
    BY <1>2, <1>3 DEF LinksOf
  <2> HIDE DEF u, v
  <2>4. /\ \A z \in Pairs : z # u => Write(h.hh_next, u, v)[z] = h.hh_next[z]
        /\ \A z \in Pairs : z # v => Write(h.hh_prev, v, u)[z] = h.hh_prev[z]
    <3>1. PICK nx \in LinksOf, pv \in LinksOf : nx = h.hh_next /\ pv = h.hh_prev
      BY <1>3
    <3>2. \A z \in Pairs : Write(nx, u, v)[z] = IF z = u THEN v ELSE nx[z]
      BY <2>3, Writing
    <3>3. \A z \in Pairs : Write(pv, v, u)[z] = IF z = v THEN u ELSE pv[z]
      BY <2>3, Writing
    <3> QED
      BY <3>1, <3>2, <3>3
  <2>5. g.hh_next = Write(h.hh_next, u, v) /\ g.hh_prev = Write(h.hh_prev, v, u)
    BY <1>6 DEF Deleted, u, v
  <2>6. \A z \in In(c[a]) : g.hh_next[z] = h.hh_next[z] /\ g.hh_prev[z] = h.hh_prev[z]
    BY <2>1, <2>2, <2>4, <2>5
  <2> QED
    BY <1>1, <2>6, LinkedSame
<1>11. ASSUME NEW a \in 0..n - 1
       PROVE  /\ Linked(g.tbl.buckets[a].hh_head, g.hh_next, g.hh_prev, d[a])
              /\ g.tbl.buckets[a].count = Len(d[a])
              /\ In(d[a]) = {z \in X \ {x} : BucketOf(z, key, n) = a}
  <2>1. CASE a = b
    <3>1. g.tbl.buckets[b].hh_head = (IF y = x THEN v ELSE y) /\ g.tbl.buckets[b].count = Len(c[b]) - 1
      BY <1>5, <1>6 DEF Deleted, y
    <3> QED
      BY <1>1, <1>7, <1>8, <1>9, <2>1, <3>1
  <2>2. CASE a # b
    <3>1. g.tbl.buckets[a] = h.tbl.buckets[a]
      BY <1>6, <2>2 DEF Deleted
    <3> QED
      BY <1>1, <1>9, <1>10, <2>2, <3>1
  <2> QED
    BY <2>1, <2>2
<1>12. Chained(g, n, d, X \ {x}, key)
  BY <1>1, <1>9, <1>11 DEF Chained
<1> QED
  BY <1>6, <1>12 DEF d

(* Taken out once more, an item that is in no bucket changes the count.    *)
LEMMA DeleteTwice ==
  ASSUME NEW n \in Nat \ {0}, NEW h \in Hashes(n), NEW b \in 0..n - 1, NEW x \in Pairs,
         h.hh_next[x] = Null, h.hh_prev[x] = Null, h.tbl.buckets[b].hh_head # x,
         h.tbl.buckets[b].count # 0, NEW g, g = HASH_DEL_IN_BKT(h, b, x)
  PROVE  /\ g \in Hashes(n) /\ SameOrder(h, g)
         /\ g.hh_next = h.hh_next /\ g.hh_prev = h.hh_prev
         /\ \A a \in 0..n - 1 : g.tbl.buckets[a].hh_head = h.tbl.buckets[a].hh_head
         /\ \A a \in 0..n - 1 : g.tbl.buckets[a].count = IF a = b THEN h.tbl.buckets[b].count - 1
                                                         ELSE h.tbl.buckets[a].count
<1>1. Deleted(n, h, b, x, g)
  BY DeleteFields
<1> QED
  BY <1>1 DEF Deleted, Write

-----------------------------------------------------------------------------
(* The expansion of the buckets.  Moved item by item, all are in a bucket. *)
SameChains(n, g, r) ==
  /\ r \in Hashes(n) /\ SameOrder(g, r) /\ r.hh_next = g.hh_next /\ r.hh_prev = g.hh_prev
  /\ \A a \in 0..n - 1 : /\ r.tbl.buckets[a].hh_head = g.tbl.buckets[a].hh_head
                         /\ r.tbl.buckets[a].count = g.tbl.buckets[a].count

LEMMA ChainedSame ==
  ASSUME NEW n, NEW g, NEW r, SameChains(n, g, r), NEW c, NEW X, NEW key, Chained(g, n, c, X, key)
  PROVE  Chained(r, n, c, X, key)
BY DEF SameChains, Chained

LEMMA AmendFields ==
  ASSUME NEW n \in Nat \ {0}, NEW g \in Hashes(n), NEW b \in 0..n - 1, NEW u \in Nat, NEW w \in Nat,
         NEW r, r = [g EXCEPT !.tbl.nonideal = u, !.tbl.buckets[b].expand_mult = w]
  PROVE  SameChains(n, g, r)
<1>1. g.tbl \in Tables(n)
  BY DEF Hashes
<1>2. g.tbl.buckets[b] \in Buckets
  BY <1>1 DEF Tables
<1>3. r.tbl \in Tables(n)
  BY <1>1, <1>2 DEF Hashes, Tables, Buckets
<1>4. r \in Hashes(n)
  BY <1>3 DEF Hashes
<1>5. SameOrder(g, r) /\ r.hh_next = g.hh_next /\ r.hh_prev = g.hh_prev
  BY <1>1 DEF Hashes, Tables, SameOrder
<1>6. \A a \in 0..n - 1 : /\ r.tbl.buckets[a].hh_head = g.tbl.buckets[a].hh_head
                         /\ r.tbl.buckets[a].count = g.tbl.buckets[a].count
  BY <1>1, <1>2 DEF Hashes, Tables, Buckets
<1> QED
  BY <1>4, <1>5, <1>6 DEF SameChains

LEMMA RehashFields ==
  ASSUME NEW n \in Nat \ {0}, NEW h \in Hashes(n), NEW x \in Pairs, NEW v \in Nat
  PROVE  LET g == PushBucket(h, HASH_TO_BKT(v, n), x)
         IN  g \in Hashes(n) /\ SameOrder(h, g) /\ SameChains(n, g, Rehash(h, x, v))
<1> DEFINE b == HASH_TO_BKT(v, n)
           g == PushBucket(h, b, x)
           long == g.tbl.buckets[b].count > h.tbl.ideal
           u == IF long THEN g.tbl.nonideal + 1 ELSE g.tbl.nonideal
           w == IF long /\ g.tbl.buckets[b].count > g.tbl.buckets[b].expand_mult * h.tbl.ideal
                THEN g.tbl.buckets[b].expand_mult + 1 ELSE g.tbl.buckets[b].expand_mult
<1>1. b \in 0..n - 1
  BY DEF HASH_TO_BKT
<1>2. NumBuckets(h) = n
  BY HowManyBuckets
<1> HIDE DEF b
<1>3. Pushed(n, h, b, x, g)
  BY <1>1, PushFields
<1>4. g \in Hashes(n) /\ SameOrder(h, g)
  BY <1>3 DEF Pushed
<1>5. g.tbl \in Tables(n)
  BY <1>4 DEF Hashes
<1>6. g.tbl.buckets[b] \in Buckets /\ g.tbl.nonideal \in Nat
  BY <1>1, <1>5 DEF Tables
<1>7. u \in Nat /\ w \in Nat
  <2>1. g.tbl.buckets[b].expand_mult \in Nat
    BY <1>6 DEF Buckets
  <2> QED
    BY <1>6, <2>1
<1>8. Rehash(h, x, v) = [g EXCEPT !.tbl.nonideal = u, !.tbl.buckets[b].expand_mult = w]
  BY <1>2, <1>4, <1>5 DEF Rehash, b, Hashes, Tables
<1> HIDE DEF u, w, g
<1>9. SameChains(n, g, Rehash(h, x, v))
  BY <1>1, <1>4, <1>7, <1>8, AmendFields
<1> QED
  BY <1>4, <1>9 DEF g, b

(* X are the items in the buckets of the table h.                          *)
Whole(n, h, X, key) == h \in Hashes(n) /\ \E c : Chained(h, n, c, X, key)

LEMMA RehashWhole ==
  ASSUME NEW n \in Nat \ {0}, NEW key \in KeyMaps, NEW X, NEW h, Whole(n, h, X, key),
         NEW x \in Pairs \ X, NEW r, r = Rehash(h, x, Hash[key[x]])
  PROVE  Whole(n, r, X \cup {x}, key) /\ SameOrder(h, r)
<1>1. h \in Hashes(n)
  BY DEF Whole
<1>2. PICK c : Chained(h, n, c, X, key)
  BY DEF Whole
<1>3. PICK v \in Nat : v = Hash[key[x]]
  BY HashAssumption DEF KeyMaps
<1>4. PICK b : b = BucketOf(x, key, n) /\ b = HASH_TO_BKT(v, n)
  BY <1>3 DEF BucketOf
<1>5. PICK g : g = PushBucket(h, b, x)
  OBVIOUS
<1>6. LET e == PushBucket(h, HASH_TO_BKT(v, n), x)
      IN  e \in Hashes(n) /\ SameOrder(h, e) /\ SameChains(n, e, Rehash(h, x, v))
  BY <1>1, RehashFields
<1>7. g \in Hashes(n) /\ SameOrder(h, g) /\ SameChains(n, g, r)
  BY <1>3, <1>4, <1>5, <1>6
<1>8. Chained(g, n, [c EXCEPT ![b] = Ahead(x, c[b])], X \cup {x}, key)
  BY <1>1, <1>2, <1>4, <1>5, PushChained
<1>9. PICK d : Chained(g, n, d, X \cup {x}, key)
  BY <1>8
<1>10. Chained(r, n, d, X \cup {x}, key)
  BY <1>7, <1>9, ChainedSame
<1> QED
  BY <1>7, <1>10 DEF Whole, SameChains, SameOrder

LEMMA MovedLoop ==
  ASSUME NEW n \in Nat \ {0}, NEW key \in KeyMaps, NEW h \in Hashes(n), NEW s, Items(s)
  PROVE  \E f \in [0..Len(s) -> Hashes(n)] :
           /\ f[0] = h /\ \A k \in 1..Len(s) : f[k] = Rehash(f[k - 1], s[k], Hash[key[s[k]]])
           /\ Moved(h, s, key) = f[Len(s)]
<1>1. Len(s) \in Nat /\ \A k \in 1..Len(s) : s[k] \in Pairs
  BY ItemsFacts
<1> DEFINE m == Len(s)
           Go(k, g) == Rehash(g, s[k], Hash[key[s[k]]])
           step == [p \in (1..m) \X Hashes(n) |-> Go(p[1], p[2])]
<1>2. \A k \in 1..m : \A g \in Hashes(n) : Go(k, g) \in Hashes(n)
  <2> SUFFICES ASSUME NEW k \in 1..m, NEW g \in Hashes(n) PROVE Go(k, g) \in Hashes(n)
    OBVIOUS
  <2>1. PICK x \in Pairs : x = s[k]
    BY <1>1
  <2>2. PICK v \in Nat : v = Hash[key[x]]
    BY HashAssumption DEF KeyMaps
  <2>3. LET e == PushBucket(g, HASH_TO_BKT(v, n), x)
        IN  e \in Hashes(n) /\ SameOrder(g, e) /\ SameChains(n, e, Rehash(g, x, v))
    BY RehashFields
  <2> QED
    BY <2>1, <2>2, <2>3 DEF SameChains
<1> HIDE DEF Go
<1>4. \A k \in 1..m : \A g \in Hashes(n) : step[<<k, g>>] = Go(k, g)
  OBVIOUS
<1> HIDE DEF step
<1>5. m \in Nat
  BY <1>1
<1>6. PICK f \in [0..m -> Hashes(n)] : f[0] = h /\ \A k \in 1..m : f[k] = step[<<k, f[k - 1]>>]
  <2>1. \A k \in 1..m : \A g \in Hashes(n) : step[<<k, g>>] \in Hashes(n)
    BY <1>2, <1>4
  <2> HIDE DEF m
  <2>2. Steps(m, Hashes(n), h, step)
    BY <1>5, <2>1 DEF Steps
  <2>3. PICK f : Recurses(f, m, Hashes(n), h, step)
    BY <2>2, Recursion
  <2> QED
    BY <2>3 DEF Recurses
<1>7. \A k \in 1..m : k - 1 \in 0..m /\ f[k - 1] \in Hashes(n) /\ f[k] = Go(k, f[k - 1])
  <2>1. \A k \in 1..m : k - 1 \in 0..m
    BY <1>5
  <2>2. \A k \in 1..m : f[k - 1] \in Hashes(n)
    BY <1>6, <2>1
  <2> QED
    BY <1>4, <1>6, <2>1, <2>2
<1> DEFINE Walk(a) == [k \in 0..m |-> IF k = 0 THEN h ELSE Go(k, a[k - 1])]
           after == CHOOSE a : a = Walk(a)
<1>8. f = Walk(f)
  <2>1. \A k \in 0..m : f[k] = IF k = 0 THEN h ELSE Go(k, f[k - 1])
    BY <1>5, <1>6, <1>7
  <2> QED
    BY <2>1
<1>9. after = Walk(after)
  BY <1>8
<1>10. after[0] = h /\ \A k \in 1..m : after[k] = Go(k, after[k - 1])
  <2> HIDE DEF after
  <2>1. \A k \in 0..m : Walk(after)[k] = IF k = 0 THEN h ELSE Go(k, after[k - 1])
    OBVIOUS
  <2> HIDE DEF Walk
  <2> QED
    BY <1>5, <1>9, <2>1
<1>11. Moved(h, s, key) = after[m]
  BY DEF Moved, Go
<1> HIDE DEF after
<1>12. \A k \in 0..m : after[k] = f[k]
  <2> DEFINE S == {k \in Nat : k \in 0..m => after[k] = f[k]}
  <2>1. 0 \in S
    BY <1>6, <1>10
  <2>2. ASSUME NEW k \in Nat, k \in S PROVE k + 1 \in S
    <3> SUFFICES ASSUME k + 1 \in 0..m PROVE after[k + 1] = f[k + 1]
      OBVIOUS
    <3>1. k \in 0..m /\ k + 1 \in 1..m /\ (k + 1) - 1 = k
      BY <1>5
    <3>2. after[k] = f[k]
      BY <2>2, <3>1
    <3> QED
      BY <1>7, <1>10, <3>1, <3>2
  <2> HIDE DEF S
  <2>3. Nat \subseteq S
    BY <2>1, <2>2, InductionOnNat
  <2> QED
    BY <2>3 DEF S
<1>13. Moved(h, s, key) = f[m]
  BY <1>5, <1>11, <1>12
<1> QED
  BY <1>6, <1>7, <1>13 DEF Go

LEMMA MovedWhole ==
  ASSUME NEW n \in Nat \ {0}, NEW key \in KeyMaps, NEW X, NEW h, Whole(n, h, X, key),
         NEW s, Items(s), In(s) \cap X = {}, NEW r, r = Moved(h, s, key)
  PROVE  Whole(n, r, X \cup In(s), key) /\ SameOrder(h, r)
<1>1. Len(s) \in Nat /\ (\A k \in 1..Len(s) : s[k] \in Pairs) /\ h \in Hashes(n)
  BY ItemsFacts DEF Whole
<1>2. PICK f \in [0..Len(s) -> Hashes(n)] :
           /\ f[0] = h /\ \A k \in 1..Len(s) : f[k] = Rehash(f[k - 1], s[k], Hash[key[s[k]]])
           /\ Moved(h, s, key) = f[Len(s)]
  BY <1>1, MovedLoop
<1> DEFINE Y(k) == X \cup {s[i] : i \in 1..k}
           S == {k \in Nat : k \in 0..Len(s) => Whole(n, f[k], Y(k), key) /\ SameOrder(h, f[k])}
<1>3. 0 \in S
  <2>1. Y(0) = X
    OBVIOUS
  <2> QED
    BY <1>2, <2>1 DEF SameOrder
<1>4. ASSUME NEW k \in Nat, k \in S PROVE k + 1 \in S
  <2> SUFFICES ASSUME k + 1 \in 0..Len(s)
               PROVE  Whole(n, f[k + 1], Y(k + 1), key) /\ SameOrder(h, f[k + 1])
    OBVIOUS
  <2>1. k \in 0..Len(s) /\ k + 1 \in 1..Len(s) /\ (k + 1) - 1 = k
    BY <1>1
  <2>2. Whole(n, f[k], Y(k), key) /\ SameOrder(h, f[k])
    BY <1>4, <2>1
  <2>3. f[k + 1] = Rehash(f[k], s[k + 1], Hash[key[s[k + 1]]])
    BY <1>2, <2>1
  <2>4. s[k + 1] \in Pairs \ Y(k)
    <3>1. \A i \in 1..k : i \in 1..Len(s) /\ i # k + 1
      BY <1>1, <2>1
    <3>2. \A i \in 1..k : s[i] # s[k + 1]
      BY <2>1, <3>1 DEF Items, Once
    <3>3. s[k + 1] \notin X
      BY <2>1 DEF In
    <3> QED
      BY <1>1, <2>1, <3>2, <3>3
  <2>5. Y(k + 1) = Y(k) \cup {s[k + 1]}
    <3>1. 1..k + 1 = (1..k) \cup {k + 1}
      BY <2>1
    <3> QED
      BY <3>1
  <2> HIDE DEF Y
  <2>6. Whole(n, f[k + 1], Y(k) \cup {s[k + 1]}, key) /\ SameOrder(f[k], f[k + 1])
    BY <2>2, <2>3, <2>4, RehashWhole
  <2> QED
    BY <2>2, <2>5, <2>6 DEF SameOrder
<1>5. Len(s) \in S
  <2> HIDE DEF S
  <2> QED
    BY <1>1, <1>3, <1>4, InductionOnNat
<1>6. Y(Len(s)) = X \cup In(s)
  BY DEF In
<1>7. Len(s) \in 0..Len(s)
  BY <1>1
<1>8. Whole(n, f[Len(s)], Y(Len(s)), key) /\ SameOrder(h, f[Len(s)])
  BY <1>5, <1>7
<1> HIDE DEF Y
<1> QED
  BY <1>2, <1>6, <1>8

(* A chain is what a loop over the bucket meets.                           *)
LEMMA ChainRead ==
  ASSUME NEW n, NEW h \in Hashes(n), NEW key, NEW c, NEW X, Chained(h, n, c, X, key),
         NEW b \in 0..n - 1
  PROVE  InBucket(h, b) = c[b] /\ Items(c[b]) /\ In(c[b]) = {x \in X : BucketOf(x, key, n) = b}
<1>1. Linked(h.tbl.buckets[b].hh_head, h.hh_next, h.hh_prev, c[b])
  BY DEF Chained
<1>2. h.hh_next \in LinksOf
  BY DEF Hashes
<1>3. PICK head : head = h.tbl.buckets[b].hh_head
  OBVIOUS
<1>4. PICK s : s = c[b]
  OBVIOUS
<1>5. LL_Nodes([head |-> head, next |-> h.hh_next]) = s
  BY <1>1, <1>2, <1>3, <1>4, NodesOfLinked
<1> QED
  BY <1>1, <1>3, <1>4, <1>5 DEF Chained, InBucket, Linked

LEMMA BareFields ==
  ASSUME NEW n \in Nat \ {0}, NEW h \in Hashes(n), NEW m \in Nat \ {0}, NEW u \in Nat,
         NEW key, NEW r,
         r = [h EXCEPT !.tbl.buckets = [b \in 0..m - 1 |-> UT_hash_bucket],
                       !.tbl.ideal = u, !.tbl.nonideal = 0]
  PROVE  Whole(m, r, {}, key) /\ SameOrder(h, r)
<1>1. h.tbl \in Tables(n)
  BY DEF Hashes
<1>2. UT_hash_bucket \in Buckets /\ UT_hash_bucket.hh_head = Null /\ UT_hash_bucket.count = 0
  BY Addresses DEF UT_hash_bucket, Buckets
<1>3. r.tbl \in Tables(m) /\ \A b \in 0..m - 1 : r.tbl.buckets[b] = UT_hash_bucket
  BY <1>1, <1>2 DEF Hashes, Tables
<1>4. r \in Hashes(m)
  BY <1>3 DEF Hashes
<1>5. SameOrder(h, r)
  BY <1>1 DEF Hashes, Tables, SameOrder
<1> DEFINE c == [b \in 0..m - 1 |-> << >>]
<1>6. ASSUME NEW b \in 0..m - 1
      PROVE  /\ Linked(r.tbl.buckets[b].hh_head, r.hh_next, r.hh_prev, << >>)
             /\ r.tbl.buckets[b].count = Len(<< >>)
             /\ In(<< >>) = {x \in {} : BucketOf(x, key, m) = b}
  <2>1. \A i \in 1..Len(<< >>) : FALSE
    BY NoItems
  <2> QED
    BY <1>2, <1>3, <2>1, NoItems DEF Linked, Node
<1>7. DOMAIN c = 0..m - 1 /\ \A b \in 0..m - 1 : c[b] = << >>
  OBVIOUS
<1> HIDE DEF c
<1>8. Chained(r, m, c, {}, key)
  BY <1>6, <1>7 DEF Chained
<1> QED
  BY <1>4, <1>5, <1>8 DEF Whole

LEMMA FlagFields ==
  ASSUME NEW n \in Nat \ {0}, NEW g \in Hashes(n), NEW u \in Nat, NEW w \in BOOLEAN,
         NEW r, r = [g EXCEPT !.tbl.ineff = u, !.tbl.noexpand = w]
  PROVE  SameChains(n, g, r)
<1>1. g.tbl \in Tables(n)
  BY DEF Hashes
<1>2. r.tbl \in Tables(n)
  BY <1>1 DEF Hashes, Tables
<1>3. r \in Hashes(n)
  BY <1>2 DEF Hashes
<1>4. SameOrder(g, r) /\ r.hh_next = g.hh_next /\ r.hh_prev = g.hh_prev
  BY <1>1 DEF Hashes, Tables, SameOrder
<1>5. r.tbl.buckets = g.tbl.buckets
  BY <1>1 DEF Hashes, Tables
<1> QED
  BY <1>3, <1>4, <1>5 DEF SameChains

(* The buckets moved one by one.                                           *)
MovedBuckets(n, init, h, key) ==
  LET moved[i \in 0..n] == IF i = 0 THEN init ELSE Moved(moved[i - 1], InBucket(h, i - 1), key)
  IN  moved[n]

MovesBuckets(f, n, m, init, h, key) ==
  /\ f \in [0..n -> Hashes(m)]
  /\ f[0] = init /\ \A i \in 1..n : f[i] = Moved(f[i - 1], InBucket(h, i - 1), key)
  /\ f[n] = MovedBuckets(n, init, h, key)

LEMMA BucketsLoop ==
  ASSUME NEW n \in Nat, NEW m \in Nat \ {0}, NEW key \in KeyMaps, NEW init \in Hashes(m),
         NEW h, \A i \in 1..n : Items(InBucket(h, i - 1))
  PROVE  \E f : MovesBuckets(f, n, m, init, h, key)
<1> DEFINE Go(i, g) == Moved(g, InBucket(h, i - 1), key)
           step == [p \in (1..n) \X Hashes(m) |-> Go(p[1], p[2])]
<1>1. \A i \in 1..n : \A g \in Hashes(m) : Go(i, g) \in Hashes(m)
  <2> SUFFICES ASSUME NEW i \in 1..n, NEW g \in Hashes(m) PROVE Go(i, g) \in Hashes(m)
    OBVIOUS
  <2>1. PICK s : s = InBucket(h, i - 1)
    OBVIOUS
  <2>2. Items(s) /\ Len(s) \in Nat
    BY <2>1, ItemsFacts
  <2>3. PICK f \in [0..Len(s) -> Hashes(m)] : Moved(g, s, key) = f[Len(s)]
    BY <2>2, MovedLoop
  <2> QED
    BY <2>1, <2>2, <2>3
<1> HIDE DEF Go
<1>3. \A i \in 1..n : \A g \in Hashes(m) : step[<<i, g>>] = Go(i, g)
  OBVIOUS
<1> HIDE DEF step
<1>4. PICK f \in [0..n -> Hashes(m)] : f[0] = init /\ \A i \in 1..n : f[i] = step[<<i, f[i - 1]>>]
  <2>1. \A i \in 1..n : \A g \in Hashes(m) : step[<<i, g>>] \in Hashes(m)
    BY <1>1, <1>3
  <2>2. Steps(n, Hashes(m), init, step)
    BY <2>1 DEF Steps
  <2>3. PICK f : Recurses(f, n, Hashes(m), init, step)
    BY <2>2, Recursion
  <2> QED
    BY <2>3 DEF Recurses
<1>5. \A i \in 1..n : i - 1 \in 0..n /\ f[i - 1] \in Hashes(m) /\ f[i] = Go(i, f[i - 1])
  <2>1. \A i \in 1..n : i - 1 \in 0..n
    OBVIOUS
  <2>2. \A i \in 1..n : f[i - 1] \in Hashes(m)
    BY <1>4, <2>1
  <2> QED
    BY <1>3, <1>4, <2>1, <2>2
<1> DEFINE Walk(a) == [i \in 0..n |-> IF i = 0 THEN init ELSE Go(i, a[i - 1])]
           moved == CHOOSE a : a = Walk(a)
<1>6. f = Walk(f)
  <2>1. \A i \in 0..n : f[i] = IF i = 0 THEN init ELSE Go(i, f[i - 1])
    BY <1>4, <1>5
  <2> QED
    BY <2>1
<1>7. moved = Walk(moved)
  BY <1>6
<1>8. moved[0] = init /\ \A i \in 1..n : moved[i] = Go(i, moved[i - 1])
  <2> HIDE DEF moved
  <2>1. \A i \in 0..n : Walk(moved)[i] = IF i = 0 THEN init ELSE Go(i, moved[i - 1])
    OBVIOUS
  <2> HIDE DEF Walk
  <2> QED
    BY <1>7, <2>1
<1> HIDE DEF moved
<1>9. \A i \in 0..n : moved[i] = f[i]
  <2> DEFINE S == {i \in Nat : i \in 0..n => moved[i] = f[i]}
  <2>1. 0 \in S
    BY <1>4, <1>8
  <2>2. ASSUME NEW i \in Nat, i \in S PROVE i + 1 \in S
    <3> SUFFICES ASSUME i + 1 \in 0..n PROVE moved[i + 1] = f[i + 1]
      OBVIOUS
    <3>1. i \in 0..n /\ i + 1 \in 1..n /\ (i + 1) - 1 = i
      OBVIOUS
    <3>2. moved[i] = f[i]
      BY <2>2, <3>1
    <3> QED
      BY <1>5, <1>8, <3>1, <3>2
  <2> HIDE DEF S
  <2>3. Nat \subseteq S
    BY <2>1, <2>2, InductionOnNat
  <2> QED
    BY <2>3 DEF S
<1>10. f[n] = moved[n]
  BY <1>9
<1>11. f[n] = MovedBuckets(n, init, h, key)
  BY <1>10 DEF moved, Go, MovedBuckets
<1> QED
  BY <1>4, <1>5, <1>11 DEF Go, MovesBuckets

Ideal(t, m) == t.num_items \div m + IF t.num_items % m # 0 THEN 1 ELSE 0
Bare(h, m) ==
  [h EXCEPT !.tbl.buckets = [b \in 0..m - 1 |-> UT_hash_bucket],
            !.tbl.ideal = Ideal(h.tbl, m), !.tbl.nonideal = 0]
Ineffective(t, g) == IF g.tbl.nonideal > t.num_items \div 2 THEN t.ineff + 1 ELSE 0
Flagged(t, g) == [g EXCEPT !.tbl.ineff = Ineffective(t, g), !.tbl.noexpand = @ \/ Ineffective(t, g) > 1]

LEMMA ExpandIs ==
  ASSUME NEW h, NEW key
  PROVE  HASH_EXPAND_BUCKETS(h, key)
           = Flagged(h.tbl, MovedBuckets(NumBuckets(h), Bare(h, 2 * NumBuckets(h)), h, key))
BY DEF HASH_EXPAND_BUCKETS, Flagged, MovedBuckets, Bare, Ideal, Ineffective

LEMMA ExpandWhole ==
  ASSUME NEW n \in Nat \ {0}, NEW key \in KeyMaps, NEW X, NEW h, Whole(n, h, X, key),
         NEW e, e = HASH_EXPAND_BUCKETS(h, key)
  PROVE  Whole(2 * n, e, X, key) /\ SameOrder(h, e)
<1>1. h \in Hashes(n) /\ NumBuckets(h) = n /\ h.tbl \in Tables(n)
  BY HowManyBuckets DEF Whole, Hashes
<1>2. PICK c : Chained(h, n, c, X, key)
  BY DEF Whole
<1>3. PICK m \in Nat \ {0} : m = 2 * n
  OBVIOUS
<1> DEFINE t == h.tbl
           ideal == Ideal(t, m)
           bare == Bare(h, m)
           last == MovedBuckets(n, bare, h, key)
           ineff == Ineffective(t, last)
<1>4. e = Flagged(t, last)
  BY <1>1, <1>3, ExpandIs
<1>5. t.num_items \in Nat /\ t.ineff \in Nat
  BY <1>1 DEF Tables
<1>6. ideal \in Nat /\ ineff \in Nat
  <2> DEFINE k == t.num_items
  <2>1. k \in Nat
    BY <1>5
  <2> HIDE DEF k
  <2>2. k \div m \in Nat
    BY <2>1
  <2> QED
    BY <1>5, <2>2 DEF k, Ideal, Ineffective
<1> HIDE DEF t
<1>7. Whole(m, bare, {}, key) /\ SameOrder(h, bare) /\ bare \in Hashes(m)
  <2> HIDE DEF ideal
  <2>1. Whole(m, bare, {}, key) /\ SameOrder(h, bare)
    BY <1>1, <1>6, BareFields DEF Bare, ideal, t
  <2> QED
    BY <2>1 DEF Whole
<1> HIDE DEF bare, ideal
<1>8. \A i \in 1..n : /\ i - 1 \in 0..n - 1 /\ Items(InBucket(h, i - 1))
                      /\ In(InBucket(h, i - 1)) = {x \in X : BucketOf(x, key, n) = i - 1}
  <2> SUFFICES ASSUME NEW i \in 1..n
               PROVE  /\ i - 1 \in 0..n - 1 /\ Items(InBucket(h, i - 1))
                      /\ In(InBucket(h, i - 1)) = {x \in X : BucketOf(x, key, n) = i - 1}
    OBVIOUS
  <2>1. PICK b \in 0..n - 1 : b = i - 1
    OBVIOUS
  <2> QED
    BY <1>1, <1>2, <2>1, ChainRead
<1>9. PICK f \in [0..n -> Hashes(m)] :
           /\ f[0] = bare /\ \A i \in 1..n : f[i] = Moved(f[i - 1], InBucket(h, i - 1), key)
           /\ f[n] = last
  <2>1. \A i \in 1..n : Items(InBucket(h, i - 1))
    BY <1>8
  <2>2. PICK f : MovesBuckets(f, n, m, bare, h, key)
    BY <1>7, <2>1, BucketsLoop
  <2> QED
    BY <2>2 DEF MovesBuckets
<1> HIDE DEF last
<1>10. \A x \in X : x \in Pairs /\ BucketOf(x, key, n) \in 0..n - 1
  BY <1>2, BucketNumbers DEF Chained
<1> DEFINE Y(i) == {x \in X : BucketOf(x, key, n) < i}
           S == {i \in Nat : i \in 0..n => Whole(m, f[i], Y(i), key) /\ SameOrder(h, f[i])}
<1>11. 0 \in S
  <2>1. Y(0) = {}
    BY <1>10
  <2> QED
    BY <1>7, <1>9, <2>1
<1>12. ASSUME NEW i \in Nat, i \in S PROVE i + 1 \in S
  <2> SUFFICES ASSUME i + 1 \in 0..n PROVE Whole(m, f[i + 1], Y(i + 1), key) /\ SameOrder(h, f[i + 1])
    OBVIOUS
  <2>1. i \in 0..n /\ i + 1 \in 1..n /\ (i + 1) - 1 = i
    OBVIOUS
  <2>2. Whole(m, f[i], Y(i), key) /\ SameOrder(h, f[i])
    BY <1>12, <2>1
  <2>3. PICK s : s = InBucket(h, i)
    OBVIOUS
  <2>4. Items(s) /\ In(s) = {x \in X : BucketOf(x, key, n) = i} /\ f[i + 1] = Moved(f[i], s, key)
    BY <1>8, <1>9, <2>1, <2>3
  <2>5. In(s) \cap Y(i) = {} /\ Y(i) \cup In(s) = Y(i + 1)
    BY <1>10, <2>4
  <2> HIDE DEF Y
  <2>6. Whole(m, f[i + 1], Y(i) \cup In(s), key) /\ SameOrder(f[i], f[i + 1])
    BY <2>2, <2>4, <2>5, MovedWhole
  <2> QED
    BY <2>2, <2>5, <2>6 DEF SameOrder
<1>13. n \in S
  <2> HIDE DEF S
  <2> QED
    BY <1>11, <1>12, InductionOnNat
<1>14. Y(n) = X
  BY <1>10
<1>15. Whole(m, last, X, key) /\ SameOrder(h, last)
  <2>1. Whole(m, f[n], Y(n), key) /\ SameOrder(h, f[n])
    BY <1>13
  <2> HIDE DEF Y
  <2> QED
    BY <1>9, <1>14, <2>1
<1>16. SameChains(m, last, e)
  <2>1. last \in Hashes(m) /\ last.tbl \in Tables(m) /\ last.tbl.noexpand \in BOOLEAN
    BY <1>15 DEF Whole, Hashes, Tables
  <2>2. PICK u \in Nat : u = ineff
    BY <1>6
  <2>3. PICK w \in BOOLEAN : w = (last.tbl.noexpand \/ u > 1)
    OBVIOUS
  <2> HIDE DEF ineff
  <2>4. e = [last EXCEPT !.tbl.ineff = u, !.tbl.noexpand = w]
    BY <1>4, <2>1, <2>2, <2>3 DEF Hashes, Tables, Flagged, ineff
  <2> QED
    BY <2>1, <2>4, FlagFields
<1>17. PICK d : Chained(last, m, d, X, key)
  BY <1>15 DEF Whole
<1>18. Chained(e, m, d, X, key)
  BY <1>16, <1>17, ChainedSame
<1> QED
  BY <1>3, <1>15, <1>16, <1>18 DEF Whole, SameChains, SameOrder

-----------------------------------------------------------------------------
(* A table as a whole: h stands for the list s of its items.               *)
Ordered(h, s) ==
  /\ Linked(h.head, h.next, h.prev, s) /\ Len(s) # 0
  /\ h.tbl.num_items = Len(s) /\ h.tbl.tail = s[Len(s)]
Listed(n, h, s, key) == n \in Nat \ {0} /\ Whole(n, h, In(s), key) /\ Ordered(h, s)

EmptyHashes ==
  [head : {Null}, tbl : {NoTable}, next : LinksOf, prev : LinksOf, hh_next : LinksOf, hh_prev : LinksOf]
Stands(h, s, key) ==
  \/ s = << >> /\ h \in EmptyHashes
  \/ \E n : Listed(n, h, s, key)

(* What no operation on the order changes.                                 *)
SameTable(n, h, g) ==
  /\ g \in Hashes(n) /\ g.hh_next = h.hh_next /\ g.hh_prev = h.hh_prev
  /\ g.tbl.buckets = h.tbl.buckets

LEMMA OrderedSame ==
  ASSUME NEW h, NEW g, SameOrder(h, g), NEW s, Ordered(h, s)
  PROVE  Ordered(g, s)
BY DEF SameOrder, Ordered

LEMMA WholeSame ==
  ASSUME NEW n, NEW h, NEW g, SameTable(n, h, g), NEW X, NEW key, Whole(n, h, X, key)
  PROVE  Whole(n, g, X, key)
<1>1. PICK c : Chained(h, n, c, X, key)
  BY DEF Whole
<1>2. Chained(g, n, c, X, key)
  BY <1>1 DEF Chained, SameTable
<1> QED
  BY <1>2 DEF Whole, SameTable

(* HASH_DELETE before it turns to the bucket.                              *)
Unlink(h, x) ==
  [h EXCEPT !.tbl.tail = IF @ = x THEN h.prev[x] ELSE @,
            !.head = IF h.prev[x] = Null THEN h.next[x] ELSE @,
            !.next = Write(@, h.prev[x], h.next[x]),
            !.prev = Write(@, h.next[x], h.prev[x]),
            !.tbl.num_items = @ - 1]

Unlinked(n, h, x, g) ==
  /\ SameTable(n, h, g)
  /\ g.head = (IF h.prev[x] = Null THEN h.next[x] ELSE h.head)
  /\ g.next = Write(h.next, h.prev[x], h.next[x]) /\ g.prev = Write(h.prev, h.next[x], h.prev[x])
  /\ g.tbl.num_items = h.tbl.num_items - 1
  /\ g.tbl.tail = IF h.tbl.tail = x THEN h.prev[x] ELSE h.tbl.tail

LEMMA UnlinkFields ==
  ASSUME NEW n \in Nat \ {0}, NEW h \in Hashes(n), NEW x \in Pairs, h.tbl.num_items # 0,
         h.tbl.tail = x => h.prev[x] # Null, NEW g, g = Unlink(h, x)
  PROVE  Unlinked(n, h, x, g)
<1>1. /\ h.tbl \in Tables(n) /\ h.next \in LinksOf /\ h.prev \in LinksOf /\ h.head \in Addr
      /\ h.prev[x] \in Addr /\ h.next[x] \in Addr
  BY DEF Hashes, LinksOf
<1>2. /\ Write(h.next, h.prev[x], h.next[x]) \in LinksOf
      /\ Write(h.prev, h.next[x], h.prev[x]) \in LinksOf
  BY <1>1, Writing
<1>3. h.tbl.num_items - 1 \in Nat /\ (h.tbl.tail = x => h.prev[x] \in Pairs)
  <2>1. h.tbl.num_items \in Nat
    BY <1>1 DEF Tables
  <2> QED
    BY <1>1, <2>1 DEF Addr
<1>4. g.tbl \in Tables(n)
  BY <1>1, <1>3 DEF Unlink, Hashes, Tables
<1>5. g \in Hashes(n)
  BY <1>1, <1>2, <1>4 DEF Unlink, Hashes
<1>6. g.hh_next = h.hh_next /\ g.hh_prev = h.hh_prev /\ g.tbl.buckets = h.tbl.buckets
  BY <1>1 DEF Unlink, Hashes, Tables
<1>7. /\ g.head = (IF h.prev[x] = Null THEN h.next[x] ELSE h.head)
      /\ g.next = Write(h.next, h.prev[x], h.next[x]) /\ g.prev = Write(h.prev, h.next[x], h.prev[x])
  BY DEF Unlink, Hashes
<1>8. /\ g.tbl.num_items = h.tbl.num_items - 1
      /\ g.tbl.tail = IF h.tbl.tail = x THEN h.prev[x] ELSE h.tbl.tail
  BY <1>1 DEF Unlink, Hashes, Tables
<1> QED
  BY <1>5, <1>6, <1>7, <1>8 DEF Unlinked, SameTable

LEMMA UnlinkOrdered ==
  ASSUME NEW n \in Nat \ {0}, NEW h \in Hashes(n), NEW s, Ordered(h, s),
         NEW i \in 1..Len(s), NEW x, x = s[i], Len(s) # 1, NEW g, g = Unlink(h, x)
  PROVE  SameTable(n, h, g) /\ Ordered(g, Omit(s, i))
<1>1. Linked(h.head, h.next, h.prev, s) /\ h.tbl.num_items = Len(s) /\ h.tbl.tail = s[Len(s)]
  BY DEF Ordered
<1>2. /\ Items(s) /\ Len(s) \in Nat \ {0} /\ x \in Pairs /\ Len(s) \in 1..Len(s)
      /\ h.next \in LinksOf /\ h.prev \in LinksOf
  <2>1. Items(s)
    BY <1>1 DEF Linked
  <2>2. Len(s) \in Nat /\ x \in Pairs
    BY <2>1, ItemsFacts
  <2> QED
    BY <2>1, <2>2 DEF Hashes
<1> DEFINE head == IF h.head = x THEN h.next[x] ELSE h.head
           next == Write(h.next, h.prev[x], h.next[x])
           prev == Write(h.prev, h.next[x], h.prev[x])
<1>3. /\ Linked(head, next, prev, Omit(s, i))
      /\ h.prev[x] = Null <=> h.head = x
      /\ h.prev[x] = Null <=> i = 1
  BY <1>1, <1>2, LinkedOmit
<1>4. h.tbl.tail = x <=> i = Len(s)
  BY <1>1, <1>2 DEF Items, Once
<1>5. Unlinked(n, h, x, g)
  BY <1>1, <1>2, <1>3, <1>4, UnlinkFields
<1>6. Linked(g.head, g.next, g.prev, Omit(s, i))
  BY <1>3, <1>5 DEF Unlinked
<1>7. /\ Len(Omit(s, i)) = Len(s) - 1
      /\ \A j \in 1..Len(s) - 1 : Omit(s, i)[j] = IF j < i THEN s[j] ELSE s[j + 1]
  BY <1>2, OmitFacts
<1>8. Len(s) - 1 \in 1..Len(s) - 1 /\ Len(s) - 1 # 0
  <2>1. PICK l \in Nat \ {0, 1} : l = Len(s)
    BY <1>2
  <2>2. l - 1 \in 1..l - 1 /\ l - 1 # 0
    OBVIOUS
  <2> QED
    BY <2>1, <2>2
<1>9. g.tbl.tail = Omit(s, i)[Len(s) - 1]
  <2>1. CASE i = Len(s)
    <3>1. g.tbl.tail = h.prev[x] /\ i # 1
      BY <1>4, <1>5, <2>1 DEF Unlinked
    <3>2. h.prev[x] = s[i - 1]
      BY <1>1, <3>1 DEF Linked, Back
    <3>3. Len(s) - 1 < i
      BY <1>2, <2>1
    <3> QED
      BY <1>7, <1>8, <2>1, <3>1, <3>2, <3>3
  <2>2. CASE i # Len(s)
    <3>1. g.tbl.tail = s[Len(s)]
      BY <1>1, <1>4, <1>5, <2>2 DEF Unlinked
    <3>2. ~(Len(s) - 1 < i) /\ (Len(s) - 1) + 1 = Len(s)
      BY <1>2, <2>2
    <3> QED
      BY <1>7, <1>8, <3>1, <3>2
  <2> QED
    BY <2>1, <2>2
<1>10. g.tbl.num_items = Len(s) - 1
  BY <1>1, <1>5 DEF Unlinked
<1> QED
  BY <1>5, <1>6, <1>7, <1>8, <1>9, <1>10 DEF Ordered, Unlinked

(* HASH_DELETE takes an item out of the list.                              *)
LEMMA DeleteIs ==
  ASSUME NEW h, NEW x, NEW key, ~(h.prev[x] = Null /\ h.next[x] = Null)
  PROVE  HASH_DELETE(h, x, key)
           = HASH_DEL_IN_BKT(Unlink(h, x), HASH_TO_BKT(Hash[key[x]], NumBuckets(h)), x)
BY DEF HASH_DELETE, Unlink

LEMMA OnlyItem ==
  ASSUME NEW n, NEW h \in Hashes(n), NEW s, Ordered(h, s), NEW i \in 1..Len(s), NEW x, x = s[i]
  PROVE  (h.prev[x] = Null /\ h.next[x] = Null) <=> Len(s) = 1
<1>1. Linked(h.head, h.next, h.prev, s) /\ h.next \in LinksOf /\ h.prev \in LinksOf
  BY DEF Ordered, Hashes
<1>2. (h.prev[x] = Null <=> i = 1) /\ (h.next[x] = Null <=> i = Len(s))
  BY <1>1, LinkedOmit
<1>3. PICK l \in Nat : l = Len(s)
  BY <1>1, ItemsFacts DEF Linked
<1>4. (i = 1 /\ i = l) <=> l = 1
  BY <1>3
<1> QED
  BY <1>2, <1>3, <1>4

LEMMA EmptiedFields ==
  ASSUME NEW n, NEW h \in Hashes(n)
  PROVE  [h EXCEPT !.head = Null, !.tbl = NoTable] \in EmptyHashes
BY DEF Hashes, EmptyHashes

LEMMA DeleteStands ==
  ASSUME NEW key \in KeyMaps, NEW h, NEW s, Stands(h, s, key), NEW i \in 1..Len(s),
         NEW r, r = HASH_DELETE(h, s[i], key)
  PROVE  /\ Stands(r, Omit(s, i), key)
         /\ Len(s) # 1 => NumBuckets(r) = NumBuckets(h) /\ h.head # Null
<1>1. PICK n : Listed(n, h, s, key)
  BY NoItems DEF Stands
<1>2. n \in Nat \ {0} /\ Whole(n, h, In(s), key) /\ h \in Hashes(n) /\ Ordered(h, s)
  BY <1>1 DEF Listed, Whole
<1>3. PICK x : x = s[i]
  OBVIOUS
<1>4. Items(s) /\ Len(s) \in Nat /\ x \in Pairs /\ x \in In(s)
  <2>1. Items(s)
    BY <1>2 DEF Ordered, Linked
  <2> QED
    BY <1>3, <2>1, ItemsFacts DEF In
<1>5. (h.prev[x] = Null /\ h.next[x] = Null) <=> Len(s) = 1
  BY <1>2, <1>3, OnlyItem
<1>6. Len(Omit(s, i)) = Len(s) - 1 /\ In(Omit(s, i)) = In(s) \ {x} /\ Items(Omit(s, i))
  BY <1>3, <1>4, OmitFacts
<1>7. CASE Len(s) = 1
  <2>1. r = [h EXCEPT !.head = Null, !.tbl = NoTable]
    BY <1>3, <1>5, <1>7 DEF HASH_DELETE
  <2>2. Omit(s, i) = << >>
    <3>1. Len(Omit(s, i)) = 0 /\ Omit(s, i) \in Seq(Pairs)
      BY <1>6, <1>7 DEF Items
    <3> QED
      BY <3>1
  <2> QED
    BY <1>2, <1>7, <2>1, <2>2, EmptiedFields DEF Stands
<1>8. CASE Len(s) # 1
  <2>1. PICK g : g = Unlink(h, x)
    OBVIOUS
  <2>2. SameTable(n, h, g) /\ Ordered(g, Omit(s, i))
    BY <1>2, <1>3, <1>8, <2>1, UnlinkOrdered
  <2>3. Whole(n, g, In(s), key) /\ g \in Hashes(n)
    BY <1>2, <2>2, WholeSame DEF Whole
  <2>4. PICK b : b = BucketOf(x, key, n)
    OBVIOUS
  <2>5. r = HASH_DEL_IN_BKT(g, b, x)
    BY <1>2, <1>3, <1>5, <1>8, <2>1, <2>4, DeleteIs, HowManyBuckets DEF BucketOf
  <2>6. PICK c : Chained(g, n, c, In(s), key)
    BY <2>3 DEF Whole
  <2>7. PICK k \in 1..Len(c[b]) : c[b][k] = x
    <3>1. b \in 0..n - 1
      BY <1>2, <1>4, <2>4, BucketNumbers
    <3>2. x \in In(c[b])
      BY <1>4, <2>4, <2>6, <3>1 DEF Chained
    <3> QED
      BY <3>2 DEF In
  <2>8. /\ Deleted(n, g, b, x, r)
        /\ Chained(r, n, [c EXCEPT ![b] = Omit(c[b], k)], In(s) \ {x}, key)
    BY <1>2, <1>4, <2>3, <2>4, <2>5, <2>6, <2>7, DeleteChained
  <2>9. Ordered(r, Omit(s, i)) /\ r \in Hashes(n)
    BY <2>2, <2>8, OrderedSame DEF Deleted
  <2>10. Whole(n, r, In(Omit(s, i)), key)
    BY <1>6, <2>8, <2>9 DEF Whole
  <2>11. NumBuckets(r) = NumBuckets(h)
    BY <1>2, <2>9, HowManyBuckets
  <2>12. h.head # Null
    <3>1. h.head = s[1] /\ 1 \in 1..Len(s)
      <4>1. 0 < Len(s) /\ 1 \in 1..Len(s) /\ h.head = Node(s, 0)
        BY <1>2, <1>4 DEF Ordered, Linked
      <4> QED
        BY <4>1 DEF Node
    <3> QED
      BY <1>4, <3>1, ItemsFacts
  <2> QED
    BY <1>2, <2>9, <2>10, <2>11, <2>12 DEF Stands, Listed
<1> QED
  BY <1>7, <1>8

(* An item pushed and taken out again leaves the buckets as they were.     *)
LEMMA PushOut ==
  ASSUME NEW n \in Nat \ {0}, NEW key \in KeyMaps, NEW X, NEW h, Whole(n, h, X, key),
         NEW x \in Pairs \ X, NEW b, b = BucketOf(x, key, n),
         NEW r, r = HASH_DEL_IN_BKT(PushBucket(h, b, x), b, x)
  PROVE  Whole(n, r, X, key) /\ SameOrder(h, r)
<1>1. h \in Hashes(n) /\ b \in 0..n - 1
  BY BucketNumbers DEF Whole
<1>2. PICK c : Chained(h, n, c, X, key)
  BY DEF Whole
<1>3. PICK g : g = PushBucket(h, b, x)
  OBVIOUS
<1>4. PICK d : d = [c EXCEPT ![b] = Ahead(x, c[b])]
  OBVIOUS
<1>5. Chained(g, n, d, X \cup {x}, key)
  BY <1>1, <1>2, <1>3, <1>4, PushChained
<1>6. g \in Hashes(n) /\ SameOrder(h, g)
  <2>1. Pushed(n, h, b, x, g)
    BY <1>1, <1>3, PushFields
  <2> QED
    BY <2>1 DEF Pushed
<1>7. 1 \in 1..Len(d[b]) /\ d[b][1] = x
  <2>1. PICK s : s = c[b]
    OBVIOUS
  <2>2. Items(s) /\ x \notin In(s) /\ d[b] = Ahead(x, s)
    BY <1>1, <1>2, <1>4, <2>1 DEF Chained, Linked
  <2>3. Len(Ahead(x, s)) = Len(s) + 1 /\ Ahead(x, s)[1] = x /\ Len(s) \in Nat
    BY <2>2, AheadFacts, ItemsFacts
  <2> QED
    BY <2>2, <2>3
<1>8. /\ Deleted(n, g, b, x, r)
      /\ Chained(r, n, [d EXCEPT ![b] = Omit(d[b], 1)], (X \cup {x}) \ {x}, key)
  <2>1. PICK Y : Y = X \cup {x}
    OBVIOUS
  <2>2. x \in Y /\ Chained(g, n, d, Y, key) /\ r = HASH_DEL_IN_BKT(g, b, x)
    BY <1>3, <1>5, <2>1
  <2>3. /\ Deleted(n, g, b, x, r)
        /\ Chained(r, n, [d EXCEPT ![b] = Omit(d[b], 1)], Y \ {x}, key)
    BY <1>6, <1>7, <2>2, DeleteChained
  <2> QED
    BY <2>1, <2>3
<1>9. (X \cup {x}) \ {x} = X
  OBVIOUS
<1> QED
  BY <1>6, <1>8, <1>9 DEF Deleted, SameOrder, Whole

(* The rollback: the count is one too high until HASH_DELETE.              *)
RolledBack(n, h, b, x, g) ==
  /\ g \in Hashes(n) /\ SameOrder(h, g)
  /\ g.hh_next = [h.hh_next EXCEPT ![x] = Null] /\ g.hh_prev = [h.hh_prev EXCEPT ![x] = Null]
  /\ \A a \in 0..n - 1 : g.tbl.buckets[a].hh_head = h.tbl.buckets[a].hh_head
  /\ \A a \in 0..n - 1 : g.tbl.buckets[a].count = IF a = b THEN h.tbl.buckets[b].count + 1
                                                   ELSE h.tbl.buckets[a].count

LEMMA RollbackFields ==
  ASSUME NEW n \in Nat \ {0}, NEW h \in Hashes(n), NEW key \in KeyMaps, NEW x \in Pairs,
         NEW b, b = BucketOf(x, key, n), NEW g, g = HASH_ROLLBACK_BKT(h, x, key)
  PROVE  RolledBack(n, h, b, x, g)
<1>1. /\ h.tbl \in Tables(n) /\ h.hh_next \in LinksOf /\ h.hh_prev \in LinksOf
      /\ b \in 0..n - 1
  BY BucketNumbers DEF Hashes
<1>2. h.tbl.buckets[b] \in Buckets /\ h.tbl.buckets[b].count + 1 \in Nat
  <2>1. h.tbl.buckets[b] \in Buckets
    BY <1>1 DEF Tables
  <2> QED
    BY <2>1 DEF Buckets
<1>3. PICK w \in Nat : w = h.tbl.buckets[b].count + 1
  BY <1>2
<1>31. g = [h EXCEPT !.hh_next[x] = Null, !.hh_prev[x] = Null, !.tbl.buckets[b].count = w]
  BY <1>3, HowManyBuckets DEF HASH_ROLLBACK_BKT, BucketOf
<1>4. g.hh_next = [h.hh_next EXCEPT ![x] = Null] /\ g.hh_prev = [h.hh_prev EXCEPT ![x] = Null]
  BY <1>31 DEF Hashes
<1>32. PICK t \in Tables(n) : t = h.tbl
  BY <1>1
<1>33. g.tbl = [t EXCEPT !.buckets[b].count = w]
  BY <1>31, <1>32 DEF Hashes
<1>5. g.tbl \in Tables(n)
  <2>1. PICK k \in Buckets : k = [t.buckets[b] EXCEPT !.count = w]
    BY <1>2, <1>32 DEF Buckets
  <2>2. PICK bs : bs = [t.buckets EXCEPT ![b] = k]
    OBVIOUS
  <2>3. bs \in [0..n - 1 -> Buckets]
    BY <1>32, <2>1, <2>2 DEF Tables
  <2>4. g.tbl = [t EXCEPT !.buckets = bs]
    BY <1>32, <1>33, <2>1, <2>2 DEF Tables
  <2> QED
    BY <1>32, <2>3, <2>4 DEF Tables
<1>6. g.hh_next \in LinksOf /\ g.hh_prev \in LinksOf
  BY <1>1, <1>4, Addresses DEF LinksOf
<1>7. g \in Hashes(n)
  BY <1>31, <1>5, <1>6 DEF Hashes
<1>8. SameOrder(h, g)
  BY <1>1, <1>31 DEF Hashes, Tables, SameOrder
<1>9. /\ \A a \in 0..n - 1 : g.tbl.buckets[a].hh_head = h.tbl.buckets[a].hh_head
      /\ \A a \in 0..n - 1 : g.tbl.buckets[a].count = IF a = b THEN h.tbl.buckets[b].count + 1
                                                      ELSE h.tbl.buckets[a].count
  <2>1. PICK bs \in [0..n - 1 -> Buckets] : bs = t.buckets
    BY DEF Tables
  <2>2. g.tbl.buckets = [bs EXCEPT ![b].count = w]
    BY <1>33, <2>1 DEF Tables
  <2>3. \A a \in 0..n - 1 : a # b => g.tbl.buckets[a] = bs[a]
    BY <1>1, <2>1, <2>2
  <2>4. g.tbl.buckets[b] = [bs[b] EXCEPT !.count = w]
    BY <1>1, <2>1, <2>2
  <2>5. g.tbl.buckets[b].hh_head = bs[b].hh_head /\ g.tbl.buckets[b].count = w
    BY <1>1, <2>1, <2>4 DEF Buckets
  <2> QED
    BY <1>3, <1>32, <2>1, <2>3, <2>5
<1> QED
  BY <1>4, <1>7, <1>8, <1>9 DEF RolledBack

(* The head of a chain is in it.                                           *)
LEMMA HeadIn ==
  ASSUME NEW n, NEW h, NEW key, NEW c, NEW X, Chained(h, n, c, X, key), NEW b \in 0..n - 1,
         NEW x \in Pairs \ X
  PROVE  h.tbl.buckets[b].hh_head # x
<1>1. PICK s : s = c[b]
  OBVIOUS
<1>2. Items(s) /\ In(s) \subseteq X /\ h.tbl.buckets[b].hh_head = Node(s, 0)
  BY <1>1 DEF Chained, Linked
<1>3. Len(s) \in Nat
  BY <1>2, ItemsFacts
<1>4. Node(s, 0) \in In(s) \cup {Null}
  <2>1. 0 < Len(s) => 1 \in 1..Len(s)
    BY <1>3
  <2> QED
    BY <2>1 DEF Node, In
<1> QED
  BY <1>2, <1>4, Addresses

(* The same table with the links of other items and one count too many.    *)
LEMMA RollbackWhole ==
  ASSUME NEW n \in Nat \ {0}, NEW key \in KeyMaps, NEW X, NEW h, Whole(n, h, X, key),
         NEW x \in Pairs \ X, NEW b, b = BucketOf(x, key, n),
         NEW g, RolledBack(n, h, b, x, g), NEW u, SameTable(n, g, u),
         NEW r, r = HASH_DEL_IN_BKT(u, b, x)
  PROVE  Whole(n, r, X, key) /\ SameOrder(u, r)
<1>1. h \in Hashes(n) /\ b \in 0..n - 1
  BY BucketNumbers DEF Whole
<1>2. PICK c : Chained(h, n, c, X, key)
  BY DEF Whole
<1>3. h.hh_next \in LinksOf /\ h.hh_prev \in LinksOf /\ X \subseteq Pairs
  BY <1>1, <1>2 DEF Hashes, Chained
<1>4. /\ u \in Hashes(n) /\ u.hh_next[x] = Null /\ u.hh_prev[x] = Null
      /\ \A z \in X : u.hh_next[z] = h.hh_next[z] /\ u.hh_prev[z] = h.hh_prev[z]
      /\ \A a \in 0..n - 1 : u.tbl.buckets[a].hh_head = h.tbl.buckets[a].hh_head
      /\ \A a \in 0..n - 1 : u.tbl.buckets[a].count = IF a = b THEN h.tbl.buckets[b].count + 1
                                                      ELSE h.tbl.buckets[a].count
  BY <1>3 DEF SameTable, RolledBack, LinksOf
<1>5. \A a \in 0..n - 1 : h.tbl.buckets[a].count \in Nat
  BY <1>1 DEF Hashes, Tables, Buckets
<1>6. u.tbl.buckets[b].hh_head # x
  BY <1>1, <1>2, <1>4, HeadIn
<1>7. u.tbl.buckets[b].count # 0
  BY <1>1, <1>4, <1>5
<1>8. /\ r \in Hashes(n) /\ SameOrder(u, r)
      /\ r.hh_next = u.hh_next /\ r.hh_prev = u.hh_prev
      /\ \A a \in 0..n - 1 : r.tbl.buckets[a].hh_head = u.tbl.buckets[a].hh_head
      /\ \A a \in 0..n - 1 : r.tbl.buckets[a].count = IF a = b THEN u.tbl.buckets[b].count - 1
                                                      ELSE u.tbl.buckets[a].count
  BY <1>1, <1>4, <1>6, <1>7, DeleteTwice
<1>9. \A a \in 0..n - 1 : r.tbl.buckets[a].hh_head = h.tbl.buckets[a].hh_head
                          /\ r.tbl.buckets[a].count = h.tbl.buckets[a].count
  BY <1>1, <1>4, <1>5, <1>8
<1>10. ASSUME NEW a \in 0..n - 1
       PROVE  /\ Linked(r.tbl.buckets[a].hh_head, r.hh_next, r.hh_prev, c[a])
              /\ r.tbl.buckets[a].count = Len(c[a])
              /\ In(c[a]) = {z \in X : BucketOf(z, key, n) = a}
  <2>1. /\ Linked(h.tbl.buckets[a].hh_head, h.hh_next, h.hh_prev, c[a])
        /\ h.tbl.buckets[a].count = Len(c[a])
        /\ In(c[a]) = {z \in X : BucketOf(z, key, n) = a}
    BY <1>2 DEF Chained
  <2>2. \A z \in In(c[a]) : r.hh_next[z] = h.hh_next[z] /\ r.hh_prev[z] = h.hh_prev[z]
    BY <1>4, <1>8, <2>1
  <2>3. Linked(h.tbl.buckets[a].hh_head, r.hh_next, r.hh_prev, c[a])
    BY <2>1, <2>2, LinkedSame
  <2> QED
    BY <1>9, <2>1, <2>3
<1>11. Chained(r, n, c, X, key)
  BY <1>2, <1>10 DEF Chained
<1> QED
  BY <1>8, <1>11 DEF Whole

(* What HASH_ADD has done before it turns to the bucket.                   *)
OneMore(h) == [h EXCEPT !.tbl.num_items = @ + 1]

LEMMA AppendOrdered ==
  ASSUME NEW n \in Nat \ {0}, NEW h \in Hashes(n), NEW s, Ordered(h, s), NEW x \in Pairs \ In(s),
         NEW g, g = OneMore(HASH_APPEND_LIST(h, x))
  PROVE  SameTable(n, h, g) /\ Ordered(g, Behind(s, x))
<1>1. Linked(h.head, h.next, h.prev, s) /\ h.tbl.num_items = Len(s) /\ h.tbl.tail = s[Len(s)]
  BY DEF Ordered
<1>2. /\ h.next \in LinksOf /\ h.prev \in LinksOf /\ h.tbl \in Tables(n) /\ Items(s)
      /\ Len(s) \in Nat /\ h.tbl.tail \in Pairs /\ x \in Addr
  BY <1>1, ItemsFacts, Addresses DEF Hashes, Tables, Linked
<1>3. PICK y \in Pairs : y = h.tbl.tail
  BY <1>2
<1>4. /\ g.head = h.head /\ g.hh_next = h.hh_next /\ g.hh_prev = h.hh_prev
      /\ g.next = [h.next EXCEPT ![x] = Null, ![y] = x] /\ g.prev = [h.prev EXCEPT ![x] = y]
  BY <1>3 DEF OneMore, HASH_APPEND_LIST, Hashes
<1>5. g.tbl.buckets = h.tbl.buckets /\ g.tbl.num_items = Len(s) + 1 /\ g.tbl.tail = x
  BY <1>1, <1>2 DEF OneMore, HASH_APPEND_LIST, Hashes, Tables
<1>6. g.tbl \in Tables(n)
  <2>1. h.tbl.num_items \in Nat /\ h.tbl.num_items + 1 \in Nat
    BY <1>2 DEF Tables
  <2>2. PICK w \in Nat : w = h.tbl.num_items + 1
    BY <2>1
  <2>3. g.tbl = [[h.tbl EXCEPT !.tail = x] EXCEPT !.num_items = w]
    BY <1>2, <2>2 DEF OneMore, HASH_APPEND_LIST, Hashes, Tables
  <2> QED
    BY <1>2, <2>2, <2>3 DEF Tables
<1>7. g.next \in LinksOf /\ g.prev \in LinksOf
  BY <1>2, <1>3, <1>4, Addresses DEF LinksOf
<1>8. g \in Hashes(n)
  BY <1>6, <1>7 DEF OneMore, HASH_APPEND_LIST, Hashes
<1>9. Linked(g.head, g.next, g.prev, Behind(s, x))
  <2>1. Linked(h.head, [h.next EXCEPT ![x] = Null, ![s[Len(s)]] = x], [h.prev EXCEPT ![x] = s[Len(s)]],
               Behind(s, x))
    BY <1>1, <1>2, LinkedBehind DEF Ordered
  <2> QED
    BY <1>1, <1>3, <1>4, <2>1
<1>10. Len(Behind(s, x)) = Len(s) + 1 /\ Behind(s, x)[Len(s) + 1] = x
  BY <1>2, BehindFacts
<1> QED
  BY <1>2, <1>4, <1>5, <1>8, <1>9, <1>10 DEF SameTable, Ordered

Made(h, x) ==
  [h EXCEPT !.next[x] = Null, !.prev[x] = Null, !.tbl = HASH_MAKE_TABLE(x), !.head = x]

LEMMA MadeOrdered ==
  ASSUME NEW h \in EmptyHashes, NEW x \in Pairs, NEW key, NEW g, g = OneMore(Made(h, x))
  PROVE  /\ Whole(HASH_INITIAL_NUM_BUCKETS, g, {}, key)
         /\ Ordered(g, Behind(<< >>, x))
<1> DEFINE n == HASH_INITIAL_NUM_BUCKETS
<1>1. n \in Nat \ {0} /\ x \in Addr /\ Null \in Addr
  BY HashAssumption, Addresses
<1>2. UT_hash_bucket \in Buckets /\ UT_hash_bucket.hh_head = Null /\ UT_hash_bucket.count = 0
  BY Addresses DEF UT_hash_bucket, Buckets
<1>3. /\ g.tbl = [HASH_MAKE_TABLE(x) EXCEPT !.num_items = @ + 1] /\ g.head = x
      /\ g.next = [h.next EXCEPT ![x] = Null] /\ g.prev = [h.prev EXCEPT ![x] = Null]
      /\ g.hh_next = h.hh_next /\ g.hh_prev = h.hh_prev
  BY DEF OneMore, Made, EmptyHashes
<1>4. /\ g.tbl \in Tables(n) /\ g.tbl.num_items = 1 /\ g.tbl.tail = x
      /\ \A b \in 0..n - 1 : g.tbl.buckets[b] = UT_hash_bucket
  <2>1. PICK t : t = HASH_MAKE_TABLE(x)
    OBVIOUS
  <2>2. /\ t \in Tables(n) /\ t.num_items = 0 /\ t.tail = x
        /\ \A b \in 0..n - 1 : t.buckets[b] = UT_hash_bucket
    BY <1>2, <2>1 DEF HASH_MAKE_TABLE, Tables
  <2>3. g.tbl = [t EXCEPT !.num_items = 1]
    BY <1>3, <2>1, <2>2
  <2> QED
    BY <2>2, <2>3 DEF Tables
<1>5. g.next \in LinksOf /\ g.prev \in LinksOf /\ g.next[x] = Null /\ g.prev[x] = Null
  BY <1>1, <1>3 DEF EmptyHashes, LinksOf
<1>6. g \in Hashes(n)
  BY <1>1, <1>4, <1>5 DEF OneMore, Made, EmptyHashes, Hashes
<1> DEFINE c == [b \in 0..n - 1 |-> << >>]
<1>7. ASSUME NEW b \in 0..n - 1
      PROVE  /\ Linked(g.tbl.buckets[b].hh_head, g.hh_next, g.hh_prev, << >>)
             /\ g.tbl.buckets[b].count = Len(<< >>)
             /\ In(<< >>) = {z \in {} : BucketOf(z, key, n) = b}
  <2>1. \A i \in 1..Len(<< >>) : FALSE
    BY NoItems
  <2> QED
    BY <1>2, <1>4, <2>1, NoItems DEF Linked, Node
<1>8. DOMAIN c = 0..n - 1 /\ \A b \in 0..n - 1 : c[b] = << >>
  OBVIOUS
<1> HIDE DEF c
<1>9. Chained(g, n, c, {}, key)
  BY <1>7, <1>8 DEF Chained
<1>10. PICK t : t = Behind(<< >>, x)
  OBVIOUS
<1>11. Items(t) /\ Len(t) = 1 /\ t[1] = x
  <2>1. Items(<< >>) /\ Len(<< >>) = 0 /\ x \in Pairs \ In(<< >>)
    BY NoItems
  <2>2. /\ Items(Behind(<< >>, x)) /\ Len(Behind(<< >>, x)) = Len(<< >>) + 1
        /\ Behind(<< >>, x)[Len(<< >>) + 1] = x
    BY <2>1, BehindFacts
  <2> QED
    BY <1>10, <2>1, <2>2
<1>12. Linked(g.head, g.next, g.prev, t)
  <2>1. \A i \in 1..Len(t) : i = 1
    BY <1>11
  <2>2. 0 < Len(t) /\ ~(1 < Len(t))
    BY <1>11
  <2> QED
    BY <1>3, <1>5, <1>11, <2>1, <2>2 DEF Linked, Node, Back
<1> QED
  BY <1>4, <1>6, <1>9, <1>10, <1>11, <1>12 DEF Ordered, Whole

LEMMA PushWhole ==
  ASSUME NEW n \in Nat \ {0}, NEW key \in KeyMaps, NEW X, NEW h, Whole(n, h, X, key),
         NEW x \in Pairs \ X, NEW b, b = BucketOf(x, key, n), NEW g, g = PushBucket(h, b, x)
  PROVE  Whole(n, g, X \cup {x}, key) /\ SameOrder(h, g) /\ g.tbl.buckets[b].hh_head = x
<1>1. h \in Hashes(n) /\ b \in 0..n - 1
  BY BucketNumbers DEF Whole
<1>2. PICK c : Chained(h, n, c, X, key)
  BY DEF Whole
<1>3. Pushed(n, h, b, x, g)
  BY <1>1, PushFields
<1>4. Chained(g, n, [c EXCEPT ![b] = Ahead(x, c[b])], X \cup {x}, key)
  BY <1>1, <1>2, PushChained
<1> QED
  BY <1>3, <1>4 DEF Pushed, Whole

(* The item is in its bucket, in front of it unless that was expanded.     *)
Placed(n, h, X, key, x, g) ==
  /\ SameOrder(h, g)
  /\ \/ Whole(n, g, X \cup {x}, key) /\ g.tbl.buckets[BucketOf(x, key, n)].hh_head = x
     \/ Whole(2 * n, g, X \cup {x}, key)

LEMMA AddToBucket ==
  ASSUME NEW n \in Nat \ {0}, NEW key \in KeyMaps, NEW X, NEW h, Whole(n, h, X, key),
         NEW x \in Pairs \ X, NEW ok \in BOOLEAN, NEW b, b = BucketOf(x, key, n),
         NEW r, r = HASH_ADD_TO_BKT(h, x, key, ok)
  PROVE  /\ r.oomed \in BOOLEAN
         /\ r.oomed => ~ok /\ r.hash = HASH_DEL_IN_BKT(PushBucket(h, b, x), b, x)
         /\ ~r.oomed => Placed(n, h, X, key, x, r.hash)
<1>1. NumBuckets(h) = n
  BY HowManyBuckets DEF Whole
<1> DEFINE g == PushBucket(h, b, x)
           full == g.tbl.buckets[b].count
                     >= (g.tbl.buckets[b].expand_mult + 1) * HASH_BKT_CAPACITY_THRESH
           expand == full /\ ~g.tbl.noexpand
           hash2 == IF ~expand THEN g
                    ELSE IF ok THEN HASH_EXPAND_BUCKETS(g, key) ELSE HASH_DEL_IN_BKT(g, b, x)
<1>2. r = [hash |-> hash2, oomed |-> expand /\ ~ok]
  BY <1>1 DEF HASH_ADD_TO_BKT, BucketOf
<1>3. r.hash = hash2
  BY <1>2
<1>4. r.oomed = (expand /\ ~ok)
  BY <1>2
<1>5. Whole(n, g, X \cup {x}, key) /\ SameOrder(h, g) /\ g.tbl.buckets[b].hh_head = x
  BY PushWhole
<1> HIDE DEF g, expand
<1>6. CASE ~expand
  BY <1>3, <1>4, <1>5, <1>6 DEF Placed
<1>7. CASE expand /\ ok
  <2>1. PICK e : e = HASH_EXPAND_BUCKETS(g, key)
    OBVIOUS
  <2>2. Whole(2 * n, e, X \cup {x}, key) /\ SameOrder(g, e)
    BY <1>5, <2>1, ExpandWhole
  <2>3. r.hash = e /\ ~r.oomed /\ r.oomed \in BOOLEAN
    BY <1>3, <1>4, <1>7, <2>1
  <2>4. SameOrder(h, e)
    BY <1>5, <2>2 DEF SameOrder
  <2> QED
    BY <2>2, <2>3, <2>4 DEF Placed
<1>8. CASE expand /\ ~ok
  BY <1>3, <1>4, <1>8 DEF g
<1> QED
  BY <1>6, <1>7, <1>8

(* What becomes of a table when x is added: t with it, the list before     *)
(* without memory.                                                         *)
Added(n, t, key, x, ok, r) ==
  \/ Listed(n, r, t, key) /\ r.tbl.buckets[BucketOf(x, key, n)].hh_head = x
  \/ Listed(2 * n, r, t, key)
  \/ ~ok /\ Listed(n, r, Omit(t, Len(t)), key)

LEMMA AddToTable ==
  ASSUME NEW n \in Nat \ {0}, NEW key \in KeyMaps, NEW X, NEW h, Whole(n, OneMore(h), X, key),
         NEW t, Ordered(OneMore(h), t), NEW x \in Pairs \ X, In(t) = X \cup {x}, t[Len(t)] = x,
         NEW ok \in BOOLEAN, ok \/ Len(t) # 1, NEW r, r = HASH_ADD_TO_TABLE(h, x, key, ok)
  PROVE  Added(n, t, key, x, ok, r)
<1>1. PICK h1 : h1 = OneMore(h)
  OBVIOUS
<1>2. PICK b : b = BucketOf(x, key, n)
  OBVIOUS
<1>3. PICK a : a = HASH_ADD_TO_BKT(h1, x, key, ok)
  OBVIOUS
<1>4. r = IF a.oomed THEN HASH_DELETE(HASH_ROLLBACK_BKT(a.hash, x, key), x, key) ELSE a.hash
  BY <1>1, <1>3 DEF HASH_ADD_TO_TABLE, OneMore
<1>5. Whole(n, h1, X, key) /\ Ordered(h1, t)
  BY <1>1
<1>6. /\ a.oomed \in BOOLEAN
      /\ a.oomed => ~ok /\ a.hash = HASH_DEL_IN_BKT(PushBucket(h1, b, x), b, x)
      /\ ~a.oomed => Placed(n, h1, X, key, x, a.hash)
  BY <1>2, <1>3, <1>5, AddToBucket
<1>7. CASE ~a.oomed
  <2>1. Placed(n, h1, X, key, x, r)
    BY <1>4, <1>6, <1>7
  <2>2. Ordered(r, t)
    BY <1>5, <2>1, OrderedSame DEF Placed
  <2>3. 2 * n \in Nat \ {0}
    OBVIOUS
  <2> QED
    BY <2>1, <2>2, <2>3 DEF Placed, Added, Listed
<1>8. CASE a.oomed
  <2>1. PICK h2 : h2 = HASH_DEL_IN_BKT(PushBucket(h1, b, x), b, x)
    OBVIOUS
  <2>2. Whole(n, h2, X, key) /\ SameOrder(h1, h2)
    BY <1>2, <1>5, <2>1, PushOut
  <2>3. PICK h3 : h3 = HASH_ROLLBACK_BKT(h2, x, key)
    OBVIOUS
  <2>4. RolledBack(n, h2, b, x, h3)
    BY <1>2, <2>2, <2>3, RollbackFields DEF Whole
  <2>5. Ordered(h2, t)
    BY <1>5, <2>2, OrderedSame
  <2>6. Ordered(h3, t) /\ h3 \in Hashes(n)
    BY <2>4, <2>5, OrderedSame DEF RolledBack
  <2>7. Items(t) /\ Len(t) \in Nat /\ Len(t) # 0
    BY <2>5, ItemsFacts DEF Ordered, Linked
  <2>8. Len(t) \in 1..Len(t) /\ ~ok /\ Len(t) # 1
    BY <1>6, <1>8, <2>7
  <2>9. ~(h3.prev[x] = Null /\ h3.next[x] = Null)
    BY <2>6, <2>8, OnlyItem
  <2>10. PICK u : u = Unlink(h3, x)
    OBVIOUS
  <2>11. SameTable(n, h3, u) /\ Ordered(u, Omit(t, Len(t)))
    BY <2>6, <2>8, <2>10, UnlinkOrdered
  <2>12. r = HASH_DEL_IN_BKT(u, b, x)
    <3>1. r = HASH_DELETE(h3, x, key)
      BY <1>4, <1>6, <1>8, <2>1, <2>3
    <3>2. NumBuckets(h3) = n
      BY <2>6, HowManyBuckets
    <3> QED
      BY <1>2, <2>9, <2>10, <3>1, <3>2, DeleteIs DEF BucketOf
  <2>13. Whole(n, r, X, key) /\ SameOrder(u, r)
    BY <1>2, <2>2, <2>4, <2>11, <2>12, RollbackWhole
  <2>14. Ordered(r, Omit(t, Len(t)))
    BY <2>11, <2>13, OrderedSame
  <2>15. In(Omit(t, Len(t))) = X
    <3>1. In(Omit(t, Len(t))) = In(t) \ {t[Len(t)]}
      BY <2>7, <2>8, OmitFacts
    <3> QED
      BY <3>1
  <2> QED
    BY <2>8, <2>13, <2>14, <2>15 DEF Added, Listed
<1> QED
  BY <1>6, <1>7, <1>8

LEMMA OmitBehind ==
  ASSUME NEW s, Items(s), NEW x \in Pairs \ In(s), NEW t, t = Behind(s, x)
  PROVE  Omit(t, Len(t)) = s
<1>1. /\ Items(t) /\ Len(t) = Len(s) + 1 /\ Len(s) \in Nat
      /\ \A i \in 1..Len(s) : t[i] = s[i]
  BY BehindFacts, ItemsFacts
<1>2. Len(t) - 1 = Len(s) /\ \A j \in 1..Len(s) : j < Len(t)
  BY <1>1
<1>3. Omit(t, Len(t)) = [j \in 1..Len(s) |-> s[j]]
  BY <1>1, <1>2 DEF Omit
<1> QED
  BY <1>3, ItemsFacts

LEMMA StandsItems ==
  ASSUME NEW h, NEW s, NEW key, Stands(h, s, key)
  PROVE  /\ Items(s) /\ Len(s) \in Nat /\ IsFiniteSet(In(s)) /\ In(s) \subseteq Pairs
         /\ s = << >> <=> Len(s) = 0
         /\ h.head = Null <=> s = << >>
         /\ InOrder(h) = s
<1>1. CASE s = << >> /\ h \in EmptyHashes
  <2>1. Items(s) /\ Len(s) = 0 /\ In(s) = {}
    BY <1>1, NoItems
  <2>2. h.head = Null /\ h.next \in LinksOf
    BY <1>1 DEF EmptyHashes
  <2>3. Linked(h.head, h.next, h.prev, s)
    BY <2>1, <2>2 DEF Linked, Node
  <2>4. InOrder(h) = s
    BY <2>2, <2>3, NodesOfLinked DEF InOrder
  <2> QED
    BY <1>1, <2>1, <2>2, <2>4, FS_EmptySet
<1>2. CASE \E n : Listed(n, h, s, key)
  <2>1. PICK n : Listed(n, h, s, key)
    BY <1>2
  <2>2. Linked(h.head, h.next, h.prev, s) /\ Len(s) # 0 /\ h.next \in LinksOf
    BY <2>1 DEF Listed, Ordered, Whole, Hashes
  <2>3. Items(s) /\ Len(s) \in Nat /\ IsFiniteSet(In(s)) /\ In(s) \subseteq Pairs
    BY <2>2, ItemsFacts, HowMany DEF Linked
  <2>4. h.head = s[1] /\ s[1] # Null
    <3>1. 0 < Len(s) /\ 1 \in 1..Len(s)
      BY <2>2, <2>3
    <3>2. s[1] # Null
      BY <2>3, <3>1, ItemsFacts
    <3> QED
      BY <2>2, <3>1, <3>2 DEF Linked, Node
  <2>5. InOrder(h) = s
    BY <2>2, NodesOfLinked DEF InOrder
  <2>6. s # << >>
    BY <2>2
  <2> QED
    BY <2>2, <2>3, <2>4, <2>5, <2>6
<1> QED
  BY <1>1, <1>2 DEF Stands

LEMMA AddStands ==
  ASSUME NEW key \in KeyMaps, NEW h, NEW s, Stands(h, s, key), NEW x \in Pairs \ In(s),
         NEW ok \in BOOLEAN, NEW r, r = HASH_ADD(h, x, key, ok)
  PROVE  \/ /\ Stands(r, Behind(s, x), key)
            /\ \/ s = << >> \/ NumBuckets(r) # NumBuckets(h)
               \/ r.tbl.buckets[BucketOf(x, key, NumBuckets(r))].hh_head = x
         \/ ~ok /\ Stands(r, s, key)
<1>1. Items(s) /\ Len(s) \in Nat /\ (s = << >> <=> Len(s) = 0) /\ (h.head = Null <=> s = << >>)
  BY StandsItems
<1>2. PICK t : t = Behind(s, x)
  OBVIOUS
<1>3. Len(t) = Len(s) + 1 /\ In(t) = In(s) \cup {x} /\ t[Len(t)] = x /\ Omit(t, Len(t)) = s
  BY <1>1, <1>2, BehindFacts, OmitBehind
<1>4. CASE s = << >>
  <2>1. h \in EmptyHashes
    BY <1>1, <1>4 DEF Stands, Listed, Ordered
  <2>2. CASE ~ok
    BY <1>1, <1>4, <2>2 DEF HASH_ADD
  <2>3. CASE ok
    <3>1. PICK g : g = Made(h, x)
      OBVIOUS
    <3>2. r = HASH_ADD_TO_TABLE(g, x, key, ok)
      BY <1>1, <1>4, <2>3, <3>1 DEF HASH_ADD, Made
    <3>3. PICK n \in Nat \ {0} : n = HASH_INITIAL_NUM_BUCKETS
      BY HashAssumption
    <3>4. Whole(n, OneMore(g), {}, key) /\ Ordered(OneMore(g), t)
      BY <1>2, <1>4, <2>1, <3>1, <3>3, MadeOrdered
    <3>5. In(t) = {} \cup {x} /\ x \in Pairs \ {}
      BY <1>3, <1>4, NoItems
    <3>6. Added(n, t, key, x, ok, r)
      BY <1>3, <2>3, <3>2, <3>4, <3>5, AddToTable
    <3>7. Stands(r, t, key)
      BY <2>3, <3>6 DEF Added, Stands
    <3> QED
      BY <1>2, <1>4, <3>7
  <2> QED
    BY <2>2, <2>3
<1>5. CASE s # << >>
  <2>1. PICK n : Listed(n, h, s, key)
    BY <1>5 DEF Stands
  <2>2. n \in Nat \ {0} /\ Whole(n, h, In(s), key) /\ Ordered(h, s) /\ h \in Hashes(n)
    BY <2>1 DEF Listed, Whole
  <2>3. PICK g : g = HASH_APPEND_LIST(h, x)
    OBVIOUS
  <2>4. r = HASH_ADD_TO_TABLE(g, x, key, ok)
    BY <1>1, <1>5, <2>3 DEF HASH_ADD
  <2>5. SameTable(n, h, OneMore(g)) /\ Ordered(OneMore(g), t)
    BY <1>2, <2>2, <2>3, AppendOrdered
  <2>6. Whole(n, OneMore(g), In(s), key)
    BY <2>2, <2>5, WholeSame
  <2>7. Len(t) # 1
    BY <1>1, <1>3, <1>5
  <2>8. Added(n, t, key, x, ok, r)
    BY <1>3, <2>2, <2>4, <2>5, <2>6, <2>7, AddToTable
  <2>9. NumBuckets(h) = n
    BY <2>2, HowManyBuckets
  <2>10. CASE Listed(n, r, t, key) /\ r.tbl.buckets[BucketOf(x, key, n)].hh_head = x
    <3>1. NumBuckets(r) = n
      BY <2>10, HowManyBuckets DEF Listed, Whole
    <3> QED
      BY <1>2, <2>10, <3>1 DEF Stands
  <2>11. CASE Listed(2 * n, r, t, key)
    <3>1. PICK m \in Nat \ {0} : m = 2 * n /\ m # n
      BY <2>2
    <3>2. NumBuckets(r) = m
      BY <2>11, <3>1, HowManyBuckets DEF Listed, Whole
    <3> QED
      BY <1>2, <2>9, <2>11, <3>1, <3>2 DEF Stands
  <2>12. CASE ~ok /\ Listed(n, r, s, key)
    BY <2>12 DEF Stands
  <2> QED
    BY <1>3, <2>8, <2>10, <2>11, <2>12 DEF Added
<1> QED
  BY <1>4, <1>5

-----------------------------------------------------------------------------
(* The first item of a bucket with a key.                                  *)
FirstWith(t, key, k) ==
  LET hits == {i \in DOMAIN t : key[t[i]] = k}
  IN  IF hits = {} THEN Null ELSE t[CHOOSE i \in hits : \A j \in hits : i <= j]

LEMMA FindIs ==
  ASSUME NEW h, NEW b, NEW k, NEW key
  PROVE  HASH_FIND_IN_BKT(h, b, k, key) = FirstWith(InBucket(h, b), key, k)
BY DEF HASH_FIND_IN_BKT, FirstWith

LEMMA FirstFacts ==
  ASSUME NEW t, Items(t), NEW key, NEW k, NEW x, x = FirstWith(t, key, k)
  PROVE  /\ \/ x = Null /\ \A y \in In(t) : key[y] # k
            \/ x \in In(t) /\ key[x] = k
         /\ Len(t) # 0 /\ key[t[1]] = k => x = t[1]
<1> DEFINE hits == {i \in DOMAIN t : key[t[i]] = k}
           least == CHOOSE i \in hits : \A j \in hits : i <= j
<1>1. x = IF hits = {} THEN Null ELSE t[least]
  BY DEF FirstWith
<1>2. DOMAIN t = 1..Len(t) /\ Len(t) \in Nat
  BY ItemsFacts
<1>3. hits \subseteq Nat /\ \A i \in hits : i \in 1..Len(t) /\ key[t[i]] = k
  BY <1>2
<1>4. ASSUME hits = {} PROVE \A y \in In(t) : key[y] # k
  BY <1>2, <1>4 DEF In
<1>5. Len(t) # 0 /\ key[t[1]] = k => 1 \in hits
  BY <1>2
<1> HIDE DEF hits
<1>6. ASSUME hits # {} PROVE least \in hits /\ \A j \in hits : least <= j
  <2>1. \E l \in hits : \A j \in hits : l <= j
    BY <1>3, <1>6, LeastNumber
  <2> QED
    BY <2>1
<1> HIDE DEF least
<1>7. ASSUME hits # {} PROVE x \in In(t) /\ key[x] = k
  BY <1>1, <1>3, <1>6, <1>7 DEF In
<1>8. ASSUME 1 \in hits PROVE x = t[1]
  <2>1. least = 1
    BY <1>3, <1>6, <1>8
  <2> QED
    BY <1>1, <1>8, <2>1
<1> QED
  BY <1>1, <1>4, <1>5, <1>7, <1>8

(* What is found under a key.                                              *)
LEMMA FindStands ==
  ASSUME NEW key \in KeyMaps, NEW h, NEW s, Stands(h, s, key), NEW k \in DOMAIN Hash,
         NEW x, x = HASH_FIND(h, k, key)
  PROVE  \/ x = Null /\ \A y \in In(s) : key[y] # k
         \/ x \in In(s) /\ key[x] = k
<1>1. Items(s) /\ (h.head = Null <=> s = << >>)
  BY StandsItems
<1>2. CASE s = << >>
  BY <1>1, <1>2, NoItems DEF HASH_FIND
<1>3. CASE s # << >>
  <2>1. PICK n : Listed(n, h, s, key)
    BY <1>3 DEF Stands
  <2>2. n \in Nat \ {0} /\ h \in Hashes(n)
    BY <2>1 DEF Listed, Whole
  <2>3. PICK c : Chained(h, n, c, In(s), key)
    BY <2>1 DEF Listed, Whole
  <2>4. PICK b \in 0..n - 1 : b = HASH_TO_BKT(Hash[k], n)
    <3>1. PICK v \in Nat : v = Hash[k]
      BY HashAssumption
    <3>2. v % n \in 0..n - 1
      BY <2>2
    <3> QED
      BY <3>1, <3>2 DEF HASH_TO_BKT
  <2>5. PICK t : t = c[b]
    OBVIOUS
  <2>6. InBucket(h, b) = t /\ Items(t) /\ In(t) = {y \in In(s) : BucketOf(y, key, n) = b}
    BY <2>2, <2>3, <2>5, ChainRead
  <2>7. x = FirstWith(t, key, k)
    <3>1. x = HASH_FIND_IN_BKT(h, b, k, key)
      BY <1>1, <1>3, <2>2, <2>4, HowManyBuckets DEF HASH_FIND
    <3> QED
      BY <2>6, <3>1, FindIs
  <2>8. \/ x = Null /\ \A y \in In(t) : key[y] # k
        \/ x \in In(t) /\ key[x] = k
    BY <2>6, <2>7, FirstFacts
  <2>9. \A y \in In(s) : key[y] = k => y \in In(t)
    BY <2>4, <2>6 DEF BucketOf
  <2> QED
    BY <2>6, <2>8, <2>9
<1> QED
  BY <1>2, <1>3

(* The first of its bucket is found.                                       *)
LEMMA HeadFound ==
  ASSUME NEW key \in KeyMaps, NEW h, NEW s, Stands(h, s, key), NEW x \in In(s),
         h.tbl.buckets[BucketOf(x, key, NumBuckets(h))].hh_head = x
  PROVE  HASH_FIND(h, key[x], key) = x
<1>1. Items(s) /\ (h.head = Null <=> s = << >>) /\ s # << >> /\ x \in Pairs
  BY StandsItems, NoItems
<1>2. PICK n : Listed(n, h, s, key)
  BY <1>1 DEF Stands
<1>3. n \in Nat \ {0} /\ h \in Hashes(n) /\ NumBuckets(h) = n
  BY <1>2, HowManyBuckets DEF Listed, Whole
<1>4. PICK c : Chained(h, n, c, In(s), key)
  BY <1>2 DEF Listed, Whole
<1>5. PICK b \in 0..n - 1 : b = BucketOf(x, key, n)
  BY <1>1, <1>3, BucketNumbers
<1>6. PICK t : t = c[b]
  OBVIOUS
<1>7. InBucket(h, b) = t /\ Items(t)
  BY <1>3, <1>4, <1>6, ChainRead
<1>8. x = Node(t, 0)
  BY <1>3, <1>4, <1>5, <1>6 DEF Chained, Linked
<1>9. Len(t) # 0 /\ t[1] = x
  <2>1. Len(t) \in Nat /\ x # Null
    BY <1>1, <1>7, ItemsFacts, Addresses
  <2> QED
    BY <1>8, <2>1 DEF Node
<1>10. HASH_FIND(h, key[x], key) = FirstWith(t, key, key[x])
  <2>1. HASH_FIND(h, key[x], key) = HASH_FIND_IN_BKT(h, b, key[x], key)
    BY <1>1, <1>3, <1>5 DEF HASH_FIND, BucketOf
  <2> QED
    BY <1>7, <2>1, FindIs
<1> QED
  BY <1>7, <1>9, <1>10, FirstFacts

-----------------------------------------------------------------------------
(* Items that are not in the table may be freed, and have other keys.      *)
LEMMA FreedFields ==
  ASSUME NEW h, NEW xs, NEW g, g = FreedLinks(h, xs), NEW n,
         h \in EmptyHashes \/ h \in Hashes(n)
  PROVE  /\ g.head = h.head /\ g.tbl = h.tbl
         /\ h \in EmptyHashes => g \in EmptyHashes
         /\ h \in Hashes(n) => g \in Hashes(n)
         /\ \A x \in Pairs \ xs : /\ g.next[x] = h.next[x] /\ g.prev[x] = h.prev[x]
                                  /\ g.hh_next[x] = h.hh_next[x] /\ g.hh_prev[x] = h.hh_prev[x]
<1> DEFINE clean(f) == [x \in Pairs |-> IF x \in xs THEN Null ELSE f[x]]
<1>1. \A f \in LinksOf : clean(f) \in LinksOf
  BY Addresses DEF LinksOf
<1>2. h.next \in LinksOf /\ h.prev \in LinksOf /\ h.hh_next \in LinksOf /\ h.hh_prev \in LinksOf
  BY DEF EmptyHashes, Hashes
<1>3. \A f : \A x \in Pairs \ xs : clean(f)[x] = f[x]
  OBVIOUS
<1>4. g = [h EXCEPT !.next = clean(@), !.prev = clean(@), !.hh_next = clean(@), !.hh_prev = clean(@)]
  BY DEF FreedLinks
<1> HIDE DEF clean
<1>5. /\ clean(h.next) \in LinksOf /\ clean(h.prev) \in LinksOf
      /\ clean(h.hh_next) \in LinksOf /\ clean(h.hh_prev) \in LinksOf
  BY <1>1, <1>2
<1>6. /\ g.head = h.head /\ g.tbl = h.tbl /\ g.next = clean(h.next) /\ g.prev = clean(h.prev)
      /\ g.hh_next = clean(h.hh_next) /\ g.hh_prev = clean(h.hh_prev)
  BY <1>4 DEF EmptyHashes, Hashes
<1>7. h \in EmptyHashes => g \in EmptyHashes
  BY <1>4, <1>5 DEF EmptyHashes
<1>8. h \in Hashes(n) => g \in Hashes(n)
  BY <1>4, <1>5 DEF Hashes
<1> QED
  BY <1>3, <1>6, <1>7, <1>8

LEMMA FreedStands ==
  ASSUME NEW key, NEW h, NEW s, Stands(h, s, key), NEW xs, xs \cap In(s) = {},
         NEW g, g = FreedLinks(h, xs)
  PROVE  Stands(g, s, key) /\ g.tbl = h.tbl /\ g.head = h.head
<1>1. CASE s = << >> /\ h \in EmptyHashes
  BY <1>1, FreedFields DEF Stands
<1>2. CASE \E n : Listed(n, h, s, key)
  <2>1. PICK n : Listed(n, h, s, key)
    BY <1>2
  <2>2. PICK c : Chained(h, n, c, In(s), key)
    BY <2>1 DEF Listed, Whole
  <2>3. h \in Hashes(n) /\ In(s) \subseteq Pairs
    BY <2>1, <2>2 DEF Listed, Whole, Chained
  <2>4. /\ g.head = h.head /\ g.tbl = h.tbl /\ g \in Hashes(n)
        /\ \A x \in Pairs \ xs : /\ g.next[x] = h.next[x] /\ g.prev[x] = h.prev[x]
                                 /\ g.hh_next[x] = h.hh_next[x] /\ g.hh_prev[x] = h.hh_prev[x]
    BY <2>3, FreedFields
  <2>5. \A x \in In(s) : /\ g.next[x] = h.next[x] /\ g.prev[x] = h.prev[x]
                         /\ g.hh_next[x] = h.hh_next[x] /\ g.hh_prev[x] = h.hh_prev[x]
    BY <2>3, <2>4
  <2>6. Ordered(g, s)
    <3>1. Linked(h.head, h.next, h.prev, s)
      BY <2>1 DEF Listed, Ordered
    <3>2. Linked(h.head, g.next, g.prev, s)
      BY <2>5, <3>1, LinkedSame
    <3> QED
      BY <2>1, <2>4, <3>2 DEF Listed, Ordered
  <2>7. ASSUME NEW b \in 0..n - 1
        PROVE  Linked(h.tbl.buckets[b].hh_head, g.hh_next, g.hh_prev, c[b])
    <3>1. Linked(h.tbl.buckets[b].hh_head, h.hh_next, h.hh_prev, c[b]) /\ In(c[b]) \subseteq In(s)
      BY <2>2 DEF Chained
    <3>2. \A z \in In(c[b]) : g.hh_next[z] = h.hh_next[z] /\ g.hh_prev[z] = h.hh_prev[z]
      BY <2>5, <3>1
    <3> QED
      BY <3>1, <3>2, LinkedSame
  <2>8. Chained(g, n, c, In(s), key)
    BY <2>2, <2>4, <2>7 DEF Chained
  <2> QED
    BY <2>1, <2>4, <2>6, <2>8 DEF Stands, Listed, Whole
<1> QED
  BY <1>1, <1>2 DEF Stands

LEMMA KeysStand ==
  ASSUME NEW key, NEW key2, NEW h, NEW s, Stands(h, s, key), \A x \in In(s) : key2[x] = key[x]
  PROVE  Stands(h, s, key2)
<1>1. CASE s = << >> /\ h \in EmptyHashes
  BY <1>1 DEF Stands
<1>2. CASE \E n : Listed(n, h, s, key)
  <2>1. PICK n : Listed(n, h, s, key)
    BY <1>2
  <2>2. PICK c : Chained(h, n, c, In(s), key)
    BY <2>1 DEF Listed, Whole
  <2>3. \A x \in In(s) : BucketOf(x, key2, n) = BucketOf(x, key, n)
    BY DEF BucketOf
  <2>4. \A b : {x \in In(s) : BucketOf(x, key2, n) = b} = {x \in In(s) : BucketOf(x, key, n) = b}
    BY <2>3
  <2>5. Chained(h, n, c, In(s), key2)
    BY <2>2, <2>4 DEF Chained
  <2> QED
    BY <2>1, <2>5 DEF Stands, Listed, Whole
<1> QED
  BY <1>1, <1>2 DEF Stands

-----------------------------------------------------------------------------
(* All items deleted one by one.                                           *)
AnyHashes == EmptyHashes \cup UNION {Hashes(n) : n \in Nat}
Rest(s, k) == [i \in 1..Len(s) - k |-> s[i + k]]

LEMMA StandsAny ==
  ASSUME NEW key, NEW h, NEW s, Stands(h, s, key)
  PROVE  h \in AnyHashes
BY DEF Stands, Listed, Whole, AnyHashes

LEMMA OmitFirst ==
  ASSUME NEW s, Items(s), NEW k \in 0..Len(s) - 1, Items(Rest(s, k))
  PROVE  /\ 1 \in 1..Len(Rest(s, k)) /\ Rest(s, k)[1] = s[k + 1]
         /\ Omit(Rest(s, k), 1) = Rest(s, k + 1)
<1>1. PICK l \in Nat : l = Len(s)
  BY ItemsFacts
<1>2. PICK t : t = Rest(s, k)
  OBVIOUS
<1>3. t = [i \in 1..l - k |-> s[i + k]] /\ k \in Nat /\ l - k \in Nat /\ l - k # 0
  BY <1>1, <1>2 DEF Rest
<1>4. Len(t) = l - k
  <2>1. DOMAIN t = 1..Len(t) /\ Len(t) \in Nat
    BY <1>2, ItemsFacts
  <2> QED
    BY <1>3, <2>1
<1>5. 1 \in 1..Len(t) /\ t[1] = s[k + 1]
  <2>1. 1 \in 1..l - k /\ 1 + k = k + 1
    BY <1>3
  <2> QED
    BY <1>3, <1>4, <2>1
<1>6. Omit(t, 1) = Rest(s, k + 1)
  <2>1. Len(t) - 1 = l - (k + 1)
    BY <1>3, <1>4
  <2>2. \A j \in 1..Len(t) - 1 : /\ ~(j < 1) /\ j + 1 \in 1..l - k
                                 /\ (j + 1) + k = j + (k + 1)
    BY <1>3, <1>4
  <2>3. \A j \in 1..Len(t) - 1 : t[j + 1] = s[j + (k + 1)]
    BY <1>3, <2>2
  <2>4. Omit(t, 1) = [j \in 1..Len(t) - 1 |-> s[j + (k + 1)]]
    BY <2>2, <2>3 DEF Omit
  <2> QED
    BY <1>1, <2>1, <2>4 DEF Rest
<1> QED
  BY <1>2, <1>5, <1>6

LEMMA EmptiedStands ==
  ASSUME Key \in KeyMaps, NEW h, NEW s, Stands(h, s, Key)
  PROVE  Emptied(h, s) \in EmptyHashes
<1>1. Items(s) /\ (h.head = Null <=> s = << >>)
  BY StandsItems
<1>2. PICK m \in Nat : m = Len(s)
  BY <1>1, ItemsFacts
<1> DEFINE Go(k, g) == HASH_DELETE(g, s[k], Key)
           step == [p \in (1..m) \X AnyHashes |->
                      IF Go(p[1], p[2]) \in AnyHashes THEN Go(p[1], p[2]) ELSE h]
           Walk(a) == [k \in 0..m |-> IF k = 0 THEN h ELSE Go(k, a[k - 1])]
           after == CHOOSE a : a = Walk(a)
<1>3. Emptied(h, s) = after[m]
  BY <1>2 DEF Emptied
<1> HIDE DEF after
<1>4. \A k \in 1..m : \A g \in AnyHashes :
        step[<<k, g>>] = IF Go(k, g) \in AnyHashes THEN Go(k, g) ELSE h
  <2> HIDE DEF Go
  <2> QED
    OBVIOUS
<1> HIDE DEF step
<1>5. h \in AnyHashes
  BY StandsAny
<1>6. PICK f : Recurses(f, m, AnyHashes, h, step)
  <2>1. Steps(m, AnyHashes, h, step)
    BY <1>4, <1>5 DEF Steps
  <2> QED
    BY <2>1, Recursion
<1> DEFINE S == {k \in Nat : k \in 0..m => Stands(f[k], Rest(s, k), Key)}
<1>7. 0 \in S
  <2>1. Rest(s, 0) = s
    <3>1. Len(s) - 0 = Len(s) /\ \A i \in 1..Len(s) : i + 0 = i
      BY <1>2
    <3>2. Rest(s, 0) = [i \in 1..Len(s) |-> s[i]]
      BY <3>1 DEF Rest
    <3> QED
      BY <1>1, <3>2, ItemsFacts
  <2> QED
    BY <1>6, <2>1 DEF Recurses
<1>8. ASSUME NEW k \in Nat, k \in S, k + 1 \in 0..m
      PROVE  f[k + 1] = Go(k + 1, f[k]) /\ Stands(f[k + 1], Rest(s, k + 1), Key)
  <2>1. k \in 0..m /\ k + 1 \in 1..m /\ (k + 1) - 1 = k /\ k \in 0..Len(s) - 1
    BY <1>2, <1>8
  <2>2. Stands(f[k], Rest(s, k), Key)
    BY <1>8, <2>1
  <2>3. PICK t : t = Rest(s, k)
    OBVIOUS
  <2>4. Items(t) /\ f[k] \in AnyHashes
    BY <2>2, <2>3, StandsItems, StandsAny
  <2>5. 1 \in 1..Len(t) /\ t[1] = s[k + 1] /\ Omit(t, 1) = Rest(s, k + 1)
    BY <1>1, <2>1, <2>3, <2>4, OmitFirst
  <2>6. PICK g : g = HASH_DELETE(f[k], t[1], Key)
    OBVIOUS
  <2>7. Stands(g, Rest(s, k + 1), Key)
    BY <2>2, <2>3, <2>5, <2>6, DeleteStands
  <2>8. g = Go(k + 1, f[k]) /\ g \in AnyHashes
    BY <2>5, <2>6, <2>7, StandsAny
  <2> HIDE DEF Go
  <2>9. f[k + 1] = step[<<k + 1, f[k]>>]
    BY <1>6, <2>1 DEF Recurses
  <2> QED
    BY <1>4, <2>1, <2>4, <2>7, <2>8, <2>9
<1>9. Nat \subseteq S
  <2>1. \A k \in Nat : k \in S => k + 1 \in S
    BY <1>8
  <2> HIDE DEF S
  <2> QED
    BY <1>7, <2>1, InductionOnNat
<1>10. \A k \in 1..m : k - 1 \in 0..m /\ f[k] = Go(k, f[k - 1])
  <2> SUFFICES ASSUME NEW k \in 1..m PROVE k - 1 \in 0..m /\ f[k] = Go(k, f[k - 1])
    OBVIOUS
  <2>1. PICK j \in Nat : j = k - 1
    OBVIOUS
  <2>2. j + 1 = k /\ j \in S /\ j + 1 \in 0..m /\ j \in 0..m
    BY <1>9, <2>1
  <2>3. f[j + 1] = Go(j + 1, f[j])
    BY <1>8, <2>2
  <2> QED
    BY <2>1, <2>2, <2>3
<1> HIDE DEF Go
<1>11. f = Walk(f)
  <2>1. \A k \in 0..m : f[k] = IF k = 0 THEN h ELSE Go(k, f[k - 1])
    BY <1>6, <1>10 DEF Recurses
  <2>2. f = [k \in 0..m |-> f[k]]
    BY <1>6 DEF Recurses
  <2> QED
    BY <2>1, <2>2
<1>12. after = Walk(after)
  BY <1>11 DEF after
<1>13. after[0] = h /\ \A k \in 1..m : after[k] = Go(k, after[k - 1])
  <2>1. \A k \in 0..m : Walk(after)[k] = IF k = 0 THEN h ELSE Go(k, after[k - 1])
    OBVIOUS
  <2> HIDE DEF Walk
  <2> QED
    BY <1>12, <2>1
<1>14. \A k \in 0..m : after[k] = f[k]
  <2> DEFINE T == {k \in Nat : k \in 0..m => after[k] = f[k]}
  <2>1. 0 \in T
    BY <1>6, <1>13 DEF Recurses
  <2>2. ASSUME NEW k \in Nat, k \in T PROVE k + 1 \in T
    <3> SUFFICES ASSUME k + 1 \in 0..m PROVE after[k + 1] = f[k + 1]
      OBVIOUS
    <3>1. k \in 0..m /\ k + 1 \in 1..m /\ (k + 1) - 1 = k
      OBVIOUS
    <3>2. after[k] = f[k]
      BY <2>2, <3>1
    <3> QED
      BY <1>10, <1>13, <3>1, <3>2
  <2> HIDE DEF T
  <2>3. Nat \subseteq T
    BY <2>1, <2>2, InductionOnNat
  <2> QED
    BY <2>3 DEF T
<1>15. Stands(after[m], Rest(s, m), Key)
  BY <1>9, <1>14
<1>16. Rest(s, m) = << >>
  <2>1. Len(s) - m = 0
    BY <1>2
  <2>2. Rest(s, m) = [i \in 1..0 |-> s[i + m]]
    BY <2>1 DEF Rest
  <2> QED
    BY <2>2
<1> QED
  BY <1>3, <1>15, <1>16, NoItems DEF Stands, Listed, Ordered

-----------------------------------------------------------------------------
(* The merge sort.  Items have values and, of equal ones, the one that was *)
(* first precedes.                                                         *)
Precedes(val, pos, x, y) == val[x] < val[y] \/ (val[x] = val[y] /\ pos[x] < pos[y])
SortedBy(val, pos, p, n) == \A i, j \in 1..n : i < j => Precedes(val, pos, p[i], p[j])
Compares(leq, val, D) == \A x, y \in D : <<x, y>> \in leq <=> val[x] <= val[y]

LEMMA PrecedesFacts ==
  ASSUME NEW D, NEW val \in [D -> Int], NEW pos \in [D -> Int]
  PROVE  /\ \A x, y, z \in D : Precedes(val, pos, x, y) /\ Precedes(val, pos, y, z)
                                 => Precedes(val, pos, x, z)
         /\ \A x \in D : ~Precedes(val, pos, x, x)
<1>1. \A x \in D : val[x] \in Int /\ pos[x] \in Int
  OBVIOUS
<1> QED
  BY <1>1 DEF Precedes

LEMMA FunctionLen ==
  ASSUME NEW D, NEW n \in Nat, NEW f \in [1..n -> D]
  PROVE  Len(f) = n
OBVIOUS

(* Two loops that go alike give the same.                                  *)
Alike(T, U, n) == T[0] = U[0] /\ \A k \in 1..n : T[k - 1] = U[k - 1] => T[k] = U[k]

LEMMA FunctionLoop ==
  ASSUME NEW n \in Nat, NEW T, NEW U, Alike(T, U, n)
  PROVE  \A k \in 0..n : T[k] = U[k]
<1> DEFINE S == {k \in Nat : k \in 0..n => T[k] = U[k]}
<1>1. 0 \in S
  BY DEF Alike
<1>2. ASSUME NEW k \in Nat, k \in S PROVE k + 1 \in S
  <2>1. k + 1 \in 0..n => k \in 0..n /\ k + 1 \in 1..n /\ (k + 1) - 1 = k
    OBVIOUS
  <2> QED
    BY <1>2, <2>1 DEF Alike
<1> HIDE DEF S
<1>3. Nat \subseteq S
  BY <1>1, <1>2, InductionOnNat
<1> QED
  BY <1>3 DEF S

(* How many of the first k items of the merge are from the first run.      *)
TakeNext(p, q, a, b, leq, k, v) ==
  IF v < a /\ (k - 1 - v < b => <<p[v + 1], q[k - 1 - v + 1]>> \in leq) THEN v + 1 ELSE v
Taken(T, p, q, a, b, leq) ==
  /\ T \in [0..a + b -> Nat] /\ T[0] = 0
  /\ \A k \in 1..a + b : T[k] = TakeNext(p, q, a, b, leq, k, T[k - 1])

RunOf(p, n, D) == p \in [1..n -> D]
MergeResult(T, p, q, n) == [k \in 1..n |-> IF T[k] > T[k - 1] THEN p[T[k]] ELSE q[k - T[k]]]

LEMMA MergeLoop ==
  ASSUME NEW D, NEW a \in Nat, NEW b \in Nat, NEW p, NEW q, RunOf(p, a, D), RunOf(q, b, D), NEW leq
  PROVE  \E T : Taken(T, p, q, a, b, leq) /\ Merge(p, q, leq) = MergeResult(T, p, q, a + b)
<1>1. Len(p) = a /\ Len(q) = b
  BY FunctionLen DEF RunOf
<1>2. PICK n \in Nat : n = a + b
  OBVIOUS
<1> DEFINE Go(k, v) == TakeNext(p, q, Len(p), Len(q), leq, k, v)
           step == [e \in (1..n) \X Nat |-> TakeNext(p, q, a, b, leq, e[1], e[2])]
           Walk(f) == [k \in 0..Len(p) + Len(q) |-> IF k = 0 THEN 0 ELSE Go(k, f[k - 1])]
           took == CHOOSE f : f = Walk(f)
<1>3. Merge(p, q, leq) = [k \in 1..Len(p) + Len(q) |->
                            IF took[k] > took[k - 1] THEN p[took[k]] ELSE q[k - took[k]]]
  BY DEF Merge, TakeLeft, TakeNext
<1> HIDE DEF took
<1>4. \A k \in 1..n : \A v \in Nat : step[<<k, v>>] = TakeNext(p, q, a, b, leq, k, v)
  OBVIOUS
<1>5. \A k \in 1..n : \A v \in Nat : TakeNext(p, q, a, b, leq, k, v) \in Nat
  BY DEF TakeNext
<1> HIDE DEF step
<1>6. PICK T : Recurses(T, n, Nat, 0, step)
  <2>1. Steps(n, Nat, 0, step)
    BY <1>4, <1>5 DEF Steps
  <2> QED
    BY <2>1, Recursion
<1>7. Taken(T, p, q, a, b, leq)
  <2>1. \A k \in 1..n : k - 1 \in 0..n
    OBVIOUS
  <2>2. \A k \in 1..n : T[k - 1] \in Nat
    BY <1>6, <2>1 DEF Recurses
  <2> QED
    BY <1>2, <1>4, <1>6, <2>2 DEF Recurses, Taken
<1>8. T = Walk(T)
  <2>1. \A k \in 0..n : T[k] = IF k = 0 THEN 0 ELSE Go(k, T[k - 1])
    <3>1. \A k \in 0..n : k # 0 => k \in 1..n
      OBVIOUS
    <3> QED
      BY <1>1, <1>2, <1>7, <3>1 DEF Taken
  <2>2. T = [k \in 0..n |-> T[k]]
    BY <1>6 DEF Recurses
  <2> HIDE DEF Go
  <2> QED
    BY <1>1, <1>2, <2>1, <2>2
<1>9. took = Walk(took)
  BY <1>8 DEF took
<1>10. took[0] = 0 /\ \A k \in 1..n : took[k] = Go(k, took[k - 1])
  <2> HIDE DEF Go
  <2>1. \A k \in 0..n : Walk(took)[k] = IF k = 0 THEN 0 ELSE Go(k, took[k - 1])
    BY <1>1, <1>2
  <2> HIDE DEF Walk
  <2> QED
    BY <1>9, <2>1
<1>11. \A k \in 0..n : T[k] = took[k]
  <2>1. T[0] = took[0]
    BY <1>7, <1>10 DEF Taken
  <2>2. \A k \in 1..n : T[k] = Go(k, T[k - 1])
    BY <1>1, <1>2, <1>7 DEF Taken
  <2> HIDE DEF Go
  <2>3. \A k \in 1..n : T[k - 1] = took[k - 1] => T[k] = took[k]
    BY <1>10, <2>2
  <2>4. Alike(T, took, n)
    BY <2>1, <2>3 DEF Alike
  <2> QED
    BY <2>4, FunctionLoop
<1>12. \A k \in 1..n : T[k] = took[k] /\ T[k - 1] = took[k - 1]
  <2>1. \A k \in 1..n : k \in 0..n /\ k - 1 \in 0..n
    OBVIOUS
  <2> QED
    BY <1>11, <2>1
<1>13. Merge(p, q, leq) = [k \in 1..n |-> IF T[k] > T[k - 1] THEN p[T[k]] ELSE q[k - T[k]]]
  BY <1>1, <1>2, <1>3, <1>12
<1> QED
  BY <1>2, <1>7, <1>13 DEF MergeResult

(* After k items: not more are taken than there are, and those that are    *)
(* taken precede those that are left.                                      *)
TakenWell(T, p, q, a, b, r, val, pos, k) ==
  /\ T[k] \in 0..a /\ k - T[k] \in 0..b
  /\ \A m \in 1..k : /\ \A i \in T[k] + 1..a : Precedes(val, pos, r[m], p[i])
                     /\ \A j \in k - T[k] + 1..b : Precedes(val, pos, r[m], q[j])

NextOf(r, p, q, a, b, val, pos, k) ==
  /\ \A m \in 1..k : Precedes(val, pos, r[m], r[k + 1])
  /\ (\E i \in 1..a : r[k + 1] = p[i]) \/ (\E j \in 1..b : r[k + 1] = q[j])
Ranked(val, pos, D) == val \in [D -> Int] /\ pos \in [D -> Int]

Merged(r, T, p, q, n) == \A k \in 1..n : r[k] = IF T[k] > T[k - 1] THEN p[T[k]] ELSE q[k - T[k]]
Apart(pos, p, q, a, b) == \A i \in 1..a, j \in 1..b : pos[p[i]] < pos[q[j]]

LEMMA MergeStep ==
  ASSUME NEW D, NEW val, NEW pos, Ranked(val, pos, D), NEW leq, Compares(leq, val, D),
         NEW a \in Nat, NEW b \in Nat, NEW p, NEW q, RunOf(p, a, D), RunOf(q, b, D),
         SortedBy(val, pos, p, a), SortedBy(val, pos, q, b), Apart(pos, p, q, a, b),
         NEW T, Taken(T, p, q, a, b, leq), NEW r, RunOf(r, a + b, D), Merged(r, T, p, q, a + b),
         NEW k \in Nat, k + 1 \in 1..a + b, TakenWell(T, p, q, a, b, r, val, pos, k)
  PROVE  TakenWell(T, p, q, a, b, r, val, pos, k + 1) /\ NextOf(r, p, q, a, b, val, pos, k)
<1>1. PICK v \in 0..a : v = T[k]
  BY DEF TakenWell
<1>2. PICK w \in 0..b : w = k - v
  BY <1>1 DEF TakenWell
<1>3. PICK x \in D : x = r[k + 1]
  BY DEF RunOf
<1>4. T[k + 1] = TakeNext(p, q, a, b, leq, k + 1, v)
  <2>1. (k + 1) - 1 = k
    OBVIOUS
  <2> QED
    BY <1>1, <2>1 DEF Taken
<1>5. x = IF T[k + 1] > v THEN p[T[k + 1]] ELSE q[k + 1 - T[k + 1]]
  <2>1. (k + 1) - 1 = k
    OBVIOUS
  <2>2. PICK l \in 1..a + b : l = k + 1
    OBVIOUS
  <2>3. r[l] = IF T[l] > T[l - 1] THEN p[T[l]] ELSE q[l - T[l]]
    BY DEF Merged
  <2>4. T[l - 1] = v /\ x = r[l]
    BY <1>1, <1>3, <2>1, <2>2
  <2>5. x = IF T[l] > v THEN p[T[l]] ELSE q[l - T[l]]
    BY <2>3, <2>4
  <2>6. T[l] \in Nat
    BY DEF Taken
  <2>7. l - T[l] = k + 1 - T[k + 1] /\ T[l] = T[k + 1]
    BY <2>2, <2>6
  <2> QED
    BY <2>5, <2>7
<1>6. \A m \in 1..k : /\ r[m] \in D
                      /\ \A i \in v + 1..a : Precedes(val, pos, r[m], p[i])
                      /\ \A j \in w + 1..b : Precedes(val, pos, r[m], q[j])
  <2>1. \A m \in 1..k : m \in 1..a + b
    OBVIOUS
  <2> QED
    BY <1>1, <1>2, <2>1 DEF TakenWell, RunOf
<1>7. /\ \A y, z, u \in D : Precedes(val, pos, y, z) /\ Precedes(val, pos, z, u)
                              => Precedes(val, pos, y, u)
      /\ \A y \in D : ~Precedes(val, pos, y, y)
  BY PrecedesFacts DEF Ranked
<1>8. (\A i \in 1..a : p[i] \in D) /\ (\A j \in 1..b : q[j] \in D)
      /\ \A y \in D : val[y] \in Int /\ pos[y] \in Int
  BY DEF Ranked, RunOf
<1> DEFINE left == v < a /\ (w < b => <<p[v + 1], q[w + 1]>> \in leq)
<1>9. T[k + 1] = IF left THEN v + 1 ELSE v
  <2>1. (k + 1) - 1 - v = w
    BY <1>1, <1>2
  <2> QED
    BY <1>4, <2>1 DEF TakeNext
<1>10. CASE left
  <2>1. v + 1 \in 1..a /\ T[k + 1] = v + 1 /\ x = p[v + 1] /\ (k + 1) - (v + 1) = w
    BY <1>1, <1>2, <1>5, <1>9, <1>10
  <2>2. \A i \in v + 2..a : i \in v + 1..a /\ i \in 1..a /\ v + 1 < i
    BY <1>1
  <2>3. \A i \in v + 2..a : Precedes(val, pos, x, p[i])
    BY <2>1, <2>2 DEF SortedBy
  <2>4. \A j \in w + 1..b : Precedes(val, pos, x, q[j])
    <3> SUFFICES ASSUME NEW j \in w + 1..b PROVE Precedes(val, pos, x, q[j])
      OBVIOUS
    <3>1. w < b /\ w + 1 \in 1..b /\ j \in 1..b /\ (j = w + 1 \/ w + 1 < j)
      BY <1>2
    <3>2. val[p[v + 1]] <= val[q[w + 1]]
      BY <1>8, <1>10, <2>1, <3>1 DEF Compares
    <3>3. Precedes(val, pos, x, q[w + 1])
      BY <1>8, <2>1, <3>1, <3>2 DEF Precedes, Apart
    <3>4. w + 1 < j => Precedes(val, pos, q[w + 1], q[j])
      BY <3>1 DEF SortedBy
    <3> QED
      BY <1>7, <1>8, <3>1, <3>3, <3>4
  <2>5. \A m \in 1..k : Precedes(val, pos, r[m], x)
    <3>1. v + 1 \in v + 1..a
      BY <2>1
    <3> QED
      BY <1>6, <2>1, <3>1
  <2>6. ASSUME NEW m \in 1..k + 1
        PROVE  /\ \A i \in v + 2..a : Precedes(val, pos, r[m], p[i])
               /\ \A j \in w + 1..b : Precedes(val, pos, r[m], q[j])
    <3>1. m = k + 1 \/ m \in 1..k
      OBVIOUS
    <3> QED
      BY <1>3, <1>6, <2>2, <2>3, <2>4, <3>1
  <2>7. (v + 1) + 1 = v + 2 /\ v + 1 \in 0..a
    BY <2>1
  <2> QED
    BY <1>3, <2>1, <2>5, <2>6, <2>7 DEF TakenWell, NextOf
<1>11. CASE ~left
  <2>1. w < b
    <3>1. v < a => w < b
      BY <1>11
    <3>2. v = a => w < b
      BY <1>1, <1>2
    <3> QED
      BY <1>1, <3>1, <3>2
  <2>2. w + 1 \in 1..b /\ T[k + 1] = v /\ (k + 1) - v = w + 1 /\ x = q[w + 1]
    <3>1. (k + 1) - v = w + 1
      BY <1>1, <1>2
    <3> QED
      BY <1>1, <1>2, <1>5, <1>9, <1>11, <2>1, <3>1
  <2>3. \A j \in w + 2..b : j \in w + 1..b /\ j \in 1..b /\ w + 1 < j
    BY <1>2
  <2>4. \A j \in w + 2..b : Precedes(val, pos, x, q[j])
    BY <2>2, <2>3 DEF SortedBy
  <2>5. \A i \in v + 1..a : Precedes(val, pos, x, p[i])
    <3> SUFFICES ASSUME NEW i \in v + 1..a PROVE Precedes(val, pos, x, p[i])
      OBVIOUS
    <3>1. v < a /\ v + 1 \in 1..a /\ i \in 1..a /\ (i = v + 1 \/ v + 1 < i)
      BY <1>1
    <3>2. ~(val[p[v + 1]] <= val[q[w + 1]])
      BY <1>8, <1>11, <2>2, <3>1 DEF Compares
    <3>3. Precedes(val, pos, x, p[v + 1])
      BY <1>8, <2>2, <3>1, <3>2 DEF Precedes
    <3>4. v + 1 < i => Precedes(val, pos, p[v + 1], p[i])
      BY <3>1 DEF SortedBy
    <3> QED
      BY <1>7, <1>8, <3>1, <3>3, <3>4
  <2>6. \A m \in 1..k : Precedes(val, pos, r[m], x)
    <3>1. w + 1 \in w + 1..b
      BY <2>2
    <3> QED
      BY <1>6, <2>2, <3>1
  <2>7. ASSUME NEW m \in 1..k + 1
        PROVE  /\ \A i \in v + 1..a : Precedes(val, pos, r[m], p[i])
               /\ \A j \in w + 2..b : Precedes(val, pos, r[m], q[j])
    <3>1. m = k + 1 \/ m \in 1..k
      OBVIOUS
    <3> QED
      BY <1>3, <1>6, <2>3, <2>4, <2>5, <3>1
  <2>8. (w + 1) + 1 = w + 2 /\ w + 1 \in 0..b
    BY <2>2
  <2> QED
    BY <1>1, <1>3, <2>2, <2>6, <2>7, <2>8 DEF TakenWell, NextOf
<1> QED
  BY <1>10, <1>11

(* A merge of two sorted runs is sorted.                                   *)
MergeOf(r, p, q, a, b, val, pos, D) ==
  /\ RunOf(r, a + b, D) /\ SortedBy(val, pos, r, a + b)
  /\ \A k \in 1..a + b : (\E i \in 1..a : r[k] = p[i]) \/ (\E j \in 1..b : r[k] = q[j])

LEMMA MergeFacts ==
  ASSUME NEW D, NEW val, NEW pos, Ranked(val, pos, D), NEW leq, Compares(leq, val, D),
         NEW a \in Nat, NEW b \in Nat, NEW p, NEW q, RunOf(p, a, D), RunOf(q, b, D),
         SortedBy(val, pos, p, a), SortedBy(val, pos, q, b), Apart(pos, p, q, a, b),
         NEW r, r = Merge(p, q, leq)
  PROVE  MergeOf(r, p, q, a, b, val, pos, D)
<1>1. PICK T : Taken(T, p, q, a, b, leq) /\ r = MergeResult(T, p, q, a + b)
  BY MergeLoop
<1>2. PICK n \in Nat : n = a + b
  OBVIOUS
<1>3. Merged(r, T, p, q, n)
  BY <1>1, <1>2 DEF Merged, MergeResult
<1>4. DOMAIN r = 1..n /\ r = [k \in 1..n |-> r[k]]
  BY <1>1, <1>2 DEF MergeResult
<1> DEFINE From(k) == (\E i \in 1..a : r[k] = p[i]) \/ (\E j \in 1..b : r[k] = q[j])
           Next(k) == NextOf(r, p, q, a, b, val, pos, k)
           Bounds(k) == T[k] \in 0..a /\ k - T[k] \in 0..b
           S == {k \in Nat : k \in 0..n => Bounds(k)}
           U == {k \in Nat : k \in 0..n => TakenWell(T, p, q, a, b, r, val, pos, k)}
<1>5. Nat \subseteq S
  <2>1. 0 \in S
    BY <1>1 DEF Taken
  <2>2. ASSUME NEW k \in Nat, k \in S PROVE k + 1 \in S
    <3> SUFFICES ASSUME k + 1 \in 0..n PROVE Bounds(k + 1)
      OBVIOUS
    <3>1. k \in 0..n /\ k + 1 \in 1..a + b /\ (k + 1) - 1 = k
      BY <1>2
    <3>2. PICK v \in 0..a : v = T[k] /\ k - v \in 0..b
      BY <2>2, <3>1
    <3>3. T[k + 1] = TakeNext(p, q, a, b, leq, k + 1, v)
      BY <1>1, <3>1, <3>2 DEF Taken
    <3> DEFINE left == v < a /\ (k - v < b => <<p[v + 1], q[k - v + 1]>> \in leq)
    <3>4. T[k + 1] = IF left THEN v + 1 ELSE v
      BY <3>1, <3>3 DEF TakeNext
    <3>5. left => v < a
      OBVIOUS
    <3>6. ~left => k - v < b \/ v = a
      BY <3>2
    <3> HIDE DEF left
    <3>7. CASE left
      BY <3>2, <3>4, <3>5, <3>7
    <3>8. CASE ~left
      BY <3>1, <3>2, <3>4, <3>6, <3>8
    <3> QED
      BY <3>7, <3>8
  <2> HIDE DEF S
  <2> QED
    BY <2>1, <2>2, InductionOnNat
<1>6. \A k \in 0..n : Bounds(k)
  <2>1. \A k \in 0..n : k \in S
    BY <1>5
  <2> QED
    BY <2>1
<1>7. RunOf(r, n, D)
  <2>1. ASSUME NEW k \in 1..n PROVE r[k] \in D
    <3>1. k - 1 \in 0..n /\ k \in 0..n /\ k \in Nat
      OBVIOUS
    <3>2. PICK v \in 0..a : v = T[k - 1] /\ (k - 1) - v \in 0..b
      BY <1>6, <3>1
    <3>3. PICK u \in 0..a : u = T[k] /\ k - u \in 0..b
      BY <1>6, <3>1
    <3>4. r[k] = IF u > v THEN p[u] ELSE q[k - u]
      BY <1>3, <3>2, <3>3 DEF Merged
    <3>5. u > v => u \in 1..a
      BY <3>2, <3>3
    <3>6. ~(u > v) => k - u \in 1..b
      BY <3>1, <3>2, <3>3
    <3> QED
      BY <3>4, <3>5, <3>6 DEF RunOf
  <2> QED
    BY <1>4, <2>1 DEF RunOf
<1>8. ASSUME NEW k \in Nat, k + 1 \in 1..n, TakenWell(T, p, q, a, b, r, val, pos, k)
      PROVE  TakenWell(T, p, q, a, b, r, val, pos, k + 1) /\ Next(k)
  <2>1. RunOf(r, a + b, D) /\ Merged(r, T, p, q, a + b) /\ k + 1 \in 1..a + b
    BY <1>2, <1>3, <1>7, <1>8
  <2> HIDE DEF S, U
  <2> QED
    BY <1>1, <1>8, <2>1, MergeStep
<1>9. Nat \subseteq U
  <2>1. 0 \in U
    <3>1. T[0] = 0
      BY <1>1 DEF Taken
    <3> QED
      BY <3>1 DEF TakenWell
  <2>2. ASSUME NEW k \in Nat, k \in U PROVE k + 1 \in U
    <3>1. k + 1 \in 0..n => k \in 0..n /\ k + 1 \in 1..n
      OBVIOUS
    <3> QED
      BY <1>8, <2>2, <3>1
  <2> HIDE DEF U
  <2> QED
    BY <2>1, <2>2, InductionOnNat
<1>10. ASSUME NEW k \in 1..n
       PROVE  From(k) /\ \A m \in 1..n : m < k => Precedes(val, pos, r[m], r[k])
  <2>1. PICK l \in Nat : l + 1 = k /\ l \in 0..n /\ l + 1 \in 1..n
    <3>1. (k - 1) + 1 = k /\ k - 1 \in Nat /\ k - 1 \in 0..n
      OBVIOUS
    <3> QED
      BY <3>1
  <2>2. TakenWell(T, p, q, a, b, r, val, pos, l)
    BY <1>9, <2>1
  <2>3. Next(l)
    BY <1>8, <2>1, <2>2
  <2>4. \A m \in 1..n : m < k => m \in 1..l
    BY <2>1
  <2> QED
    BY <2>1, <2>3, <2>4 DEF NextOf
<1> QED
  BY <1>2, <1>7, <1>10 DEF MergeOf, SortedBy

-----------------------------------------------------------------------------
(* A pass of the merge sort.  The list is cut at the multiples of n: items *)
(* that a cut parts are in the order they had, others are sorted.          *)
Cut(n, i, j) == \E k \in Nat : i <= n * k /\ n * k < j
Base(m, i) == m * ((i - 1) \div m)

LEMMA Multiples ==
  ASSUME NEW n \in Nat \ {0}, NEW k \in Nat, NEW l \in Nat
  PROVE  n * k \in Nat /\ (n * k < n * l => n * k + n <= n * l)
<1>1. n * k \in Nat /\ n * l \in Nat
  OBVIOUS
<1>2. l <= k => n * l <= n * k
  <2> SUFFICES ASSUME l <= k PROVE n * l <= n * k
    OBVIOUS
  <2>1. PICK d \in Nat : d = k - l
    OBVIOUS
  <2>2. n * d \in Nat /\ n * (l + d) = n * l + n * d /\ k = l + d
    BY <2>1
  <2> QED
    BY <1>1, <2>2
<1>3. k + 1 <= l => n * (k + 1) <= n * l
  <2> SUFFICES ASSUME k + 1 <= l PROVE n * (k + 1) <= n * l
    OBVIOUS
  <2>1. PICK d \in Nat : d = l - (k + 1)
    OBVIOUS
  <2>2. n * d \in Nat /\ n * ((k + 1) + d) = n * (k + 1) + n * d /\ l = (k + 1) + d
    BY <2>1
  <2> QED
    BY <1>1, <2>2
<1>4. n * (k + 1) = n * k + n
  OBVIOUS
<1> QED
  BY <1>1, <1>2, <1>3, <1>4

LEMMA BaseFacts ==
  ASSUME NEW m \in Nat \ {0}, NEW i \in Nat \ {0}
  PROVE  \E k \in Nat : Base(m, i) = m * k /\ m * k \in Nat /\ m * k < i /\ i <= m * k + m
<1>1. PICK x \in Nat : x = i - 1
  OBVIOUS
<1>2. PICK k \in Nat : k = x \div m
  OBVIOUS
<1>3. m * k <= x /\ x < m * k + m
  BY <1>2
<1>4. m * k \in Nat
  OBVIOUS
<1>5. Base(m, i) = m * k
  BY <1>1, <1>2 DEF Base
<1> QED
  BY <1>1, <1>3, <1>4, <1>5

(* Where the cuts are in the two runs after the first o items.             *)
CutsAt(n, o) ==
  /\ \A i, j \in Nat : o < i /\ j <= o + n => ~Cut(n, i, j)
  /\ \A i, j \in Nat : o + n < i /\ j <= o + n + n => ~Cut(n, i, j)
  /\ \A i, j \in Nat : i <= o + n /\ o + n < j => Cut(n, i, j)

LEMMA CutFacts ==
  ASSUME NEW n \in Nat \ {0}, NEW k \in Nat, NEW o, o = (2 * n) * k
  PROVE  o \in Nat /\ CutsAt(n, o)
<1>1. o = n * (2 * k) /\ 2 * k \in Nat /\ o \in Nat
  OBVIOUS
<1>2. o + n = n * (2 * k + 1) /\ 2 * k + 1 \in Nat /\ o + n \in Nat
  BY <1>1
<1>3. ASSUME NEW i \in Nat, NEW j \in Nat, o < i, j <= o + n PROVE ~Cut(n, i, j)
  <2> SUFFICES ASSUME NEW l \in Nat, i <= n * l, n * l < j PROVE FALSE
    BY DEF Cut
  <2>1. PICK c \in Nat : c = n * l
    OBVIOUS
  <2>2. o < c /\ c < o + n
    BY <1>1, <1>3, <2>1
  <2>3. o < c => o + n <= c
    BY <1>1, <2>1, Multiples
  <2> QED
    BY <1>1, <2>2, <2>3
<1>4. ASSUME NEW i \in Nat, NEW j \in Nat, o + n < i, j <= o + n + n PROVE ~Cut(n, i, j)
  <2> SUFFICES ASSUME NEW l \in Nat, i <= n * l, n * l < j PROVE FALSE
    BY DEF Cut
  <2>1. PICK c \in Nat : c = n * l
    OBVIOUS
  <2>2. o + n < c /\ c < o + n + n
    BY <1>1, <1>4, <2>1
  <2>3. PICK u \in Nat : u = o + n
    BY <1>2
  <2>4. u < c => u + n <= c
    BY <1>2, <2>1, <2>3, Multiples
  <2> QED
    BY <2>2, <2>3, <2>4
<1>5. ASSUME NEW i \in Nat, NEW j \in Nat, i <= o + n, o + n < j PROVE Cut(n, i, j)
  BY <1>2, <1>5 DEF Cut
<1> QED
  BY <1>1, <1>3, <1>4, <1>5 DEF CutsAt

(* Two items of different pairs of runs, and two of the same.              *)
OfRuns(n, i, j, o, u) ==
  /\ Cut(2 * n, i, j) => o + 2 * n <= u
  /\ ~Cut(2 * n, i, j) => o = u
  /\ o + 2 * n <= u => \A x, y \in Nat : x <= o + 2 * n /\ u < y => x < y /\ Cut(n, x, y)

LEMMA PairsOfRuns ==
  ASSUME NEW n \in Nat \ {0}, NEW k \in Nat, NEW l \in Nat, NEW o, o = (2 * n) * k,
         NEW u, u = (2 * n) * l, NEW i \in Nat, NEW j \in Nat, i < j,
         o < i, i <= o + 2 * n, u < j, j <= u + 2 * n
  PROVE  OfRuns(n, i, j, o, u)
<1>1. PICK m \in Nat \ {0} : m = 2 * n
  OBVIOUS
<1>2. o = m * k /\ u = m * l /\ o \in Nat /\ u \in Nat
  BY <1>1
<1>3. (o < u => o + m <= u) /\ (u < o => u + m <= o)
  BY <1>1, <1>2, Multiples
<1>4. ASSUME Cut(m, i, j) PROVE o + m <= u
  <2>1. PICK d \in Nat : i <= m * d /\ m * d < j
    BY <1>4 DEF Cut
  <2>2. PICK c \in Nat : c = m * d
    OBVIOUS
  <2>3. (o < c => o + m <= c) /\ (u < c => u + m <= c)
    BY <1>1, <1>2, <2>2, Multiples
  <2>4. i <= c /\ c < j
    BY <2>1, <2>2
  <2> QED
    BY <1>1, <1>2, <2>3, <2>4
<1>5. ASSUME ~Cut(m, i, j) PROVE o = u
  <2>1. ~(i <= u /\ u < j)
    BY <1>2, <1>5 DEF Cut
  <2> QED
    BY <1>1, <1>2, <1>3, <2>1
<1>6. ASSUME o + m <= u, NEW x \in Nat, NEW y \in Nat, x <= o + m, u < y
      PROVE  x < y /\ Cut(n, x, y)
  <2>1. u = n * (2 * l) /\ 2 * l \in Nat
    OBVIOUS
  <2>2. x <= u
    BY <1>1, <1>2, <1>6
  <2>3. PICK e \in Nat : e = 2 * l
    OBVIOUS
  <2>4. u = n * e
    BY <2>1, <2>3
  <2>5. x <= n * e /\ n * e < y
    BY <1>6, <2>2, <2>4
  <2>6. Cut(n, x, y)
    BY <2>5 DEF Cut
  <2>7. x < y
    BY <1>2, <1>6, <2>2
  <2> QED
    BY <2>6, <2>7
<1> QED
  BY <1>1, <1>4, <1>5, <1>6 DEF OfRuns

Runs(t, L, n, val, pos, D) ==
  /\ RunOf(t, L, D)
  /\ \A i, j \in 1..L :
       i < j => IF Cut(n, i, j) THEN pos[t[i]] < pos[t[j]] ELSE Precedes(val, pos, t[i], t[j])

RunIs(p, t, o, a, D) == RunOf(p, a, D) /\ \A i \in 1..a : p[i] = t[o + i]
HowLong(o, n, L) == IF o + n <= L THEN n ELSE IF o <= L THEN L - o ELSE 0

LEMMA RunFacts ==
  ASSUME NEW D, NEW L \in Nat, NEW t, RunOf(t, L, D), NEW o \in Nat, NEW n \in Nat \ {0},
         NEW a, a = HowLong(o, n, L)
  PROVE  /\ a \in Nat /\ \A i \in 1..a : o + i \in 1..L
         /\ RunIs(Run(t, o, n), t, o, a, D)
<1>1. a \in Nat /\ \A i \in 1..a : o + i \in 1..L
  BY DEF HowLong
<1>2. Len(t) = L
  BY FunctionLen DEF RunOf
<1>3. 1..(IF o + n < L THEN n ELSE L - o) = 1..a
  BY DEF HowLong
<1>4. Run(t, o, n) = [i \in 1..a |-> t[o + i]]
  BY <1>2, <1>3 DEF Run
<1>5. \A i \in 1..a : t[o + i] \in D
  BY <1>1 DEF RunOf
<1> QED
  BY <1>1, <1>4, <1>5 DEF RunIs, RunOf

(* What a merge makes of the two runs after the first o items.             *)
BlockOf(r, t, o, n, L, c, val, pos) ==
  /\ \A x \in Nat : x # 0 /\ x <= n + n /\ o + x <= L => x \in 1..c
  /\ SortedBy(val, pos, r, c)
  /\ \A x \in 1..c : \E l \in 1..L : o < l /\ l <= o + n + n /\ r[x] = t[l]

LEMMA PassBlock ==
  ASSUME NEW D, NEW val, NEW pos, Ranked(val, pos, D), NEW leq, Compares(leq, val, D),
         NEW L \in Nat, NEW n \in Nat \ {0}, NEW t, Runs(t, L, n, val, pos, D),
         NEW k \in Nat, NEW o, o = (2 * n) * k,
         NEW r, r = Merge(Run(t, o, n), Run(t, o + n, n), leq)
  PROVE  \E c \in Nat : BlockOf(r, t, o, n, L, c, val, pos)
<1>1. RunOf(t, L, D)
  BY DEF Runs
<1>0. o \in Nat /\ CutsAt(n, o)
  BY CutFacts
<1>2. /\ o \in Nat
      /\ \A i, j \in Nat : o < i /\ j <= o + n => ~Cut(n, i, j)
      /\ \A i, j \in Nat : o + n < i /\ j <= o + n + n => ~Cut(n, i, j)
      /\ \A i, j \in Nat : i <= o + n /\ o + n < j => Cut(n, i, j)
  BY <1>0 DEF CutsAt
<1>3. PICK u \in Nat : u = o + n
  BY <1>2
<1>4. PICK a \in Nat : a = HowLong(o, n, L)
  BY <1>2 DEF HowLong
<1>5. PICK b \in Nat : b = HowLong(u, n, L)
  <2>1. HowLong(u, n, L) \in Nat
    BY DEF HowLong
  <2> QED
    BY <2>1
<1>6. PICK p : p = Run(t, o, n)
  OBVIOUS
<1>7. PICK q : q = Run(t, u, n)
  OBVIOUS
<1>8. RunIs(p, t, o, a, D) /\ \A i \in 1..a : o + i \in 1..L /\ o < o + i /\ o + i <= o + n
  <2>1. a <= n
    BY <1>2, <1>4 DEF HowLong
  <2>2. RunIs(p, t, o, a, D) /\ \A i \in 1..a : o + i \in 1..L
    BY <1>1, <1>2, <1>4, <1>6, RunFacts
  <2> QED
    BY <1>2, <2>1, <2>2
<1>9. RunIs(q, t, u, b, D) /\ \A i \in 1..b : u + i \in 1..L /\ u < u + i /\ u + i <= u + n
  <2>1. b <= n
    BY <1>5 DEF HowLong
  <2>2. RunIs(q, t, u, b, D) /\ \A i \in 1..b : u + i \in 1..L
    BY <1>1, <1>5, <1>7, RunFacts
  <2> QED
    BY <2>1, <2>2
<1>10. SortedBy(val, pos, p, a)
  <2> SUFFICES ASSUME NEW i \in 1..a, NEW j \in 1..a, i < j PROVE Precedes(val, pos, p[i], p[j])
    BY DEF SortedBy
  <2>1. ~Cut(n, o + i, o + j) /\ o + i < o + j
    BY <1>2, <1>8
  <2> QED
    BY <1>8, <2>1 DEF Runs, RunIs
<1>11. SortedBy(val, pos, q, b)
  <2> SUFFICES ASSUME NEW i \in 1..b, NEW j \in 1..b, i < j PROVE Precedes(val, pos, q[i], q[j])
    BY DEF SortedBy
  <2>1. ~Cut(n, u + i, u + j) /\ u + i < u + j
    BY <1>2, <1>3, <1>9
  <2> QED
    BY <1>9, <2>1 DEF Runs, RunIs
<1>12. Apart(pos, p, q, a, b)
  <2> SUFFICES ASSUME NEW i \in 1..a, NEW j \in 1..b PROVE pos[p[i]] < pos[q[j]]
    BY DEF Apart
  <2>1. Cut(n, o + i, u + j) /\ o + i < u + j
    BY <1>2, <1>3, <1>8, <1>9
  <2> QED
    BY <1>8, <1>9, <2>1 DEF Runs, RunIs
<1>13. MergeOf(r, p, q, a, b, val, pos, D)
  <2>1. r = Merge(p, q, leq)
    BY <1>3, <1>6, <1>7
  <2> QED
    BY <1>8, <1>9, <1>10, <1>11, <1>12, <2>1, MergeFacts DEF RunIs
<1>14. PICK c \in Nat : c = a + b
  OBVIOUS
<1>15. ASSUME NEW x \in Nat, x # 0, x <= n + n, o + x <= L PROVE x \in 1..c
  BY <1>2, <1>3, <1>4, <1>5, <1>14, <1>15 DEF HowLong
<1>16. ASSUME NEW x \in 1..c PROVE \E l \in 1..L : o < l /\ l <= o + n + n /\ r[x] = t[l]
  <2>1. CASE \E i \in 1..a : r[x] = p[i]
    <3>1. PICK i \in 1..a : r[x] = p[i]
      BY <2>1
    <3>2. o + i \in 1..L /\ o < o + i /\ o + i <= o + n + n /\ p[i] = t[o + i]
      BY <1>2, <1>8 DEF RunIs
    <3> QED
      BY <3>1, <3>2
  <2>2. CASE \E j \in 1..b : r[x] = q[j]
    <3>1. PICK j \in 1..b : r[x] = q[j]
      BY <2>2
    <3>2. u + j \in 1..L /\ o < u + j /\ u + j <= o + n + n /\ q[j] = t[u + j]
      BY <1>2, <1>3, <1>9 DEF RunIs
    <3> QED
      BY <3>1, <3>2
  <2> QED
    BY <1>13, <1>14, <2>1, <2>2 DEF MergeOf
<1>17. SortedBy(val, pos, r, c)
  BY <1>13, <1>14 DEF MergeOf
<1> QED
  BY <1>15, <1>16, <1>17 DEF BlockOf

(* Where an item of the pass comes from: block k, which starts after o.    *)
InBlock(r, t, n, L, i, leq, k, o, c, val, pos) ==
  LET w == Merge(Run(t, o, n), Run(t, o + n, n), leq)
  IN  /\ o = (2 * n) * k /\ o \in Nat /\ o < i /\ i <= o + 2 * n
      /\ r[i] = w[i - o] /\ BlockOf(w, t, o, n, L, c, val, pos)

LEMMA PassRuns ==
  ASSUME NEW D, NEW val, NEW pos, Ranked(val, pos, D), NEW leq, Compares(leq, val, D),
         NEW L \in Nat, NEW n \in Nat \ {0}, NEW t, Runs(t, L, n, val, pos, D),
         NEW r, r = MergeRuns(t, n, leq)
  PROVE  Runs(r, L, 2 * n, val, pos, D)
<1>1. PICK m \in Nat \ {0} : m = 2 * n
  OBVIOUS
<1>2. RunOf(t, L, D)
  BY DEF Runs
<1>3. Len(t) = L
  BY <1>2, FunctionLen DEF RunOf
<1> DEFINE W(o) == Merge(Run(t, o, n), Run(t, o + n, n), leq)
<1>4. r = [i \in 1..L |-> W(Base(2 * n, i))[i - Base(2 * n, i)]]
  BY <1>3 DEF MergeRuns, Base
<1> HIDE DEF W
<1>5. ASSUME NEW i \in 1..L
      PROVE  \E k, c, o \in Nat : InBlock(r, t, n, L, i, leq, k, o, c, val, pos)
  <2>1. i \in Nat \ {0}
    OBVIOUS
  <2>2. PICK k \in Nat : Base(m, i) = m * k /\ m * k \in Nat /\ m * k < i /\ i <= m * k + m
    BY <2>1, BaseFacts
  <2>3. PICK o \in Nat : o = m * k
    BY <2>2
  <2>4. r[i] = W(o)[i - o]
    BY <1>1, <1>4, <2>2, <2>3
  <2>5. o = (2 * n) * k
    BY <1>1, <2>3
  <2>6. PICK c \in Nat : BlockOf(W(o), t, o, n, L, c, val, pos)
    <3>1. PICK w : w = Merge(Run(t, o, n), Run(t, o + n, n), leq)
      OBVIOUS
    <3>2. \E c \in Nat : BlockOf(w, t, o, n, L, c, val, pos)
      BY <2>5, <3>1, PassBlock
    <3> QED
      BY <3>1, <3>2 DEF W
  <2>7. o < i /\ i <= o + 2 * n
    BY <1>1, <2>2, <2>3
  <2>8. InBlock(r, t, n, L, i, leq, k, o, c, val, pos)
    BY <2>4, <2>5, <2>6, <2>7 DEF InBlock, W
  <2> QED
    BY <2>8
<1>6. ASSUME NEW i \in 1..L, NEW k \in Nat, NEW c \in Nat, NEW o,
             InBlock(r, t, n, L, i, leq, k, o, c, val, pos)
      PROVE  i - o \in 1..c /\ \E x \in 1..L : o < x /\ x <= o + n + n /\ r[i] = t[x]
  <2>1. BlockOf(W(o), t, o, n, L, c, val, pos) /\ r[i] = W(o)[i - o] /\ o \in Nat
    BY <1>6 DEF InBlock, W
  <2>2. PICK z \in Nat : z = i - o /\ z # 0 /\ z <= n + n /\ o + z <= L
    <3>1. i - o \in Nat /\ i - o # 0 /\ i - o <= n + n /\ o + (i - o) <= L
      BY <1>6 DEF InBlock
    <3> QED
      BY <3>1
  <2>3. z \in 1..c
    BY <2>1, <2>2 DEF BlockOf
  <2>4. \E x \in 1..L : o < x /\ x <= o + n + n /\ W(o)[z] = t[x]
    BY <2>1, <2>3 DEF BlockOf
  <2> QED
    BY <2>1, <2>2, <2>3, <2>4
<1>7. RunOf(r, L, D)
  <2>1. ASSUME NEW i \in 1..L PROVE r[i] \in D
    <3>1. \E x \in 1..L : r[i] = t[x]
      BY <1>5, <1>6
    <3> QED
      BY <1>2, <3>1 DEF RunOf
  <2>2. r = [i \in 1..L |-> r[i]]
    BY <1>4
  <2> QED
    BY <2>1, <2>2 DEF RunOf
<1>8. ASSUME NEW i \in 1..L, NEW j \in 1..L, i < j
      PROVE  IF Cut(2 * n, i, j) THEN pos[r[i]] < pos[r[j]] ELSE Precedes(val, pos, r[i], r[j])
  <2>1. PICK k \in Nat, c \in Nat, o \in Nat : InBlock(r, t, n, L, i, leq, k, o, c, val, pos)
    BY <1>5
  <2>2. PICK l \in Nat, d \in Nat, u \in Nat : InBlock(r, t, n, L, j, leq, l, u, d, val, pos)
    BY <1>5
  <2>3. /\ o = (2 * n) * k /\ o \in Nat /\ o < i /\ i <= o + 2 * n
        /\ u = (2 * n) * l /\ u \in Nat /\ u < j /\ j <= u + 2 * n
    BY <2>1, <2>2 DEF InBlock
  <2>4. OfRuns(n, i, j, o, u)
    <3>1. i \in Nat /\ j \in Nat
      OBVIOUS
    <3> QED
      BY <1>8, <2>3, <3>1, PairsOfRuns
  <2>5. CASE Cut(2 * n, i, j)
    <3>1. PICK x \in 1..L : x <= o + n + n /\ r[i] = t[x]
      BY <1>6, <2>1
    <3>2. PICK y \in 1..L : u < y /\ r[j] = t[y]
      BY <1>6, <2>2
    <3>3. x \in Nat /\ y \in Nat /\ x <= o + 2 * n
      BY <2>3, <3>1
    <3>4. x < y /\ Cut(n, x, y)
      BY <2>4, <2>5, <3>2, <3>3 DEF OfRuns
    <3> QED
      BY <2>5, <3>1, <3>2, <3>4 DEF Runs
  <2>6. CASE ~Cut(2 * n, i, j)
    <3>1. o = u
      BY <2>4, <2>6 DEF OfRuns
    <3>2. /\ BlockOf(W(o), t, o, n, L, c, val, pos) /\ r[i] = W(o)[i - o] /\ r[j] = W(o)[j - o]
          /\ BlockOf(W(o), t, o, n, L, d, val, pos)
      BY <2>1, <2>2, <3>1 DEF InBlock, W
    <3>3. i - o \in 1..c /\ j - o \in 1..d
      BY <1>6, <2>1, <2>2, <3>1
    <3>4. j - o \in Nat /\ j - o # 0 /\ j - o <= n + n /\ o + (j - o) <= L /\ i - o < j - o
      BY <1>8, <2>3, <3>1
    <3>5. j - o \in 1..c
      BY <3>2, <3>4 DEF BlockOf
    <3>6. Precedes(val, pos, W(o)[i - o], W(o)[j - o])
      <4>1. SortedBy(val, pos, W(o), c)
        BY <3>2 DEF BlockOf
      <4> QED
        BY <3>3, <3>4, <3>5, <4>1 DEF SortedBy
    <3> QED
      BY <2>6, <3>2, <3>6
  <2> QED
    BY <2>5, <2>6
<1> QED
  BY <1>7, <1>8 DEF Runs

(* The passes: their runs are sorted, and grow until one is the list.      *)
Passes(L, val, pos, D) ==
  {r \in [list : [1..L -> D], insize : Nat, looping : BOOLEAN] :
     r.insize # 0 /\ Runs(r.list, L, r.insize, val, pos, D)}
Grown(r, L, e) == IF r.looping THEN r.insize > e ELSE r.insize >= L

LEMMA PassFacts ==
  ASSUME NEW D, NEW val, NEW pos, Ranked(val, pos, D), NEW leq, Compares(leq, val, D),
         NEW L \in Nat, NEW r, r \in Passes(L, val, pos, D), NEW t, t = SortPass(r, leq)
  PROVE  t \in Passes(L, val, pos, D) /\ \A e \in Nat : Grown(r, L, e) => Grown(t, L, e + 1)
<1>1. PICK n \in Nat \ {0} : n = r.insize
  BY DEF Passes
<1>2. Runs(r.list, L, n, val, pos, D)
  BY <1>1 DEF Passes
<1>3. Len(r.list) = L
  BY <1>2, FunctionLen DEF Runs, RunOf
<1>4. CASE r.looping
  <2>1. PICK q : q = MergeRuns(r.list, n, leq)
    OBVIOUS
  <2>2. Runs(q, L, 2 * n, val, pos, D)
    BY <1>2, <2>1, PassRuns
  <2>3. PICK m \in Nat : m = 2 * n
    OBVIOUS
  <2>4. t = [list |-> q, insize |-> m, looping |-> L > m]
    BY <1>1, <1>3, <1>4, <2>1, <2>3 DEF SortPass
  <2>5. q \in [1..L -> D]
    BY <2>2 DEF Runs, RunOf
  <2>6. m # 0 /\ Runs(q, L, m, val, pos, D)
    BY <2>2, <2>3
  <2>7. t \in Passes(L, val, pos, D)
    <3>1. t \in [list : [1..L -> D], insize : Nat, looping : BOOLEAN]
      BY <2>4, <2>5
    <3>2. t.insize = m /\ t.list = q
      BY <2>4
    <3> QED
      BY <2>6, <3>1, <3>2 DEF Passes
  <2>8. ASSUME NEW e \in Nat, Grown(r, L, e) PROVE Grown(t, L, e + 1)
    <3>1. n > e
      BY <1>1, <1>4, <2>8 DEF Grown
    <3>2. m > e + 1
      BY <2>3, <3>1
    <3>3. t.insize = m /\ t.looping = (L > m)
      BY <2>4
    <3>4. CASE L > m
      BY <3>2, <3>3, <3>4 DEF Grown
    <3>5. CASE ~(L > m)
      <4>1. m >= L
        BY <3>5
      <4>2. ~t.looping
        BY <3>3, <3>5
      <4> QED
        BY <3>3, <4>1, <4>2 DEF Grown
    <3> QED
      BY <3>4, <3>5
  <2> QED
    BY <2>7, <2>8
<1>5. CASE ~r.looping
  BY <1>5 DEF SortPass, Grown
<1> QED
  BY <1>4, <1>5

(* What a sort gives: the items are those of the list, and sorted.         *)
First(pos, s, L) == \A i, j \in 1..L : i < j => pos[s[i]] < pos[s[j]]

LEMMA SortFacts ==
  ASSUME NEW D, NEW val, NEW pos, Ranked(val, pos, D), NEW leq, Compares(leq, val, D),
         NEW L \in Nat, NEW s, RunOf(s, L, D), First(pos, s, L), NEW t, t = SortedSeq(s, leq)
  PROVE  RunOf(t, L, D) /\ SortedBy(val, pos, t, L)
<1>1. Len(s) = L
  BY FunctionLen DEF RunOf
<1> DEFINE init == [list |-> s, insize |-> 1, looping |-> TRUE]
           X == Passes(L, val, pos, D)
           step == [e \in (1..L) \X X |-> SortPass(e[2], leq)]
           Go(v) == SortPass(v, leq)
           Walk(f) == [e \in 0..Len(s) |-> IF e = 0 THEN init ELSE Go(f[e - 1])]
           after == CHOOSE f : f = Walk(f)
<1>2. t = after[L].list
  BY <1>1 DEF SortedSeq
<1> HIDE DEF after
<1>3. init \in X /\ Grown(init, L, 0)
  <2>1. ASSUME NEW i \in 1..L, NEW j \in 1..L, i < j PROVE Cut(1, i, j)
    <3>1. i \in Nat /\ i <= 1 * i /\ 1 * i < j
      BY <2>1
    <3> QED
      BY <3>1 DEF Cut
  <2>2. Runs(s, L, 1, val, pos, D)
    BY <2>1 DEF Runs, First
  <2>3. init \in [list : [1..L -> D], insize : Nat, looping : BOOLEAN]
    BY DEF RunOf
  <2> QED
    BY <2>2, <2>3 DEF Passes, Grown
<1> HIDE DEF init, X
<1>4. \A k \in 1..L : \A v \in X : step[<<k, v>>] = Go(v)
  OBVIOUS
<1>5. \A v \in X : Go(v) \in X /\ \A e \in Nat : Grown(v, L, e) => Grown(Go(v), L, e + 1)
  BY PassFacts DEF X
<1> HIDE DEF step, Go
<1>6. PICK f : Recurses(f, L, X, init, step)
  <2>1. Steps(L, X, init, step)
    BY <1>3, <1>4, <1>5 DEF Steps
  <2> QED
    BY <2>1, Recursion
<1>7. f \in [0..L -> X] /\ f[0] = init /\ \A e \in 1..L : f[e] = Go(f[e - 1])
  <2>1. \A e \in 1..L : e - 1 \in 0..L
    OBVIOUS
  <2>2. f \in [0..L -> X] /\ f[0] = init /\ \A e \in 1..L : f[e] = step[<<e, f[e - 1]>>]
    BY <1>6 DEF Recurses
  <2>3. \A e \in 1..L : f[e - 1] \in X
    BY <2>1, <2>2
  <2> QED
    BY <1>4, <2>2, <2>3
<1>8. f = Walk(f)
  <2>1. \A e \in 0..L : f[e] = IF e = 0 THEN init ELSE Go(f[e - 1])
    <3>1. \A e \in 0..L : e # 0 => e \in 1..L
      OBVIOUS
    <3> QED
      BY <1>7, <3>1
  <2>2. f = [e \in 0..L |-> f[e]]
    BY <1>7
  <2> QED
    BY <1>1, <2>1, <2>2
<1>9. after = Walk(after)
  BY <1>8 DEF after
<1>10. after[0] = init /\ \A e \in 1..L : after[e] = Go(after[e - 1])
  <2>1. \A e \in 0..L : Walk(after)[e] = IF e = 0 THEN init ELSE Go(after[e - 1])
    BY <1>1
  <2> HIDE DEF Walk
  <2> QED
    BY <1>9, <2>1
<1>11. \A e \in 0..L : f[e] = after[e]
  <2>1. Alike(f, after, L)
    BY <1>7, <1>10 DEF Alike
  <2> QED
    BY <2>1, FunctionLoop
<1>12. \A e \in 0..L : Grown(f[e], L, e)
  <2> DEFINE S == {e \in Nat : e \in 0..L => Grown(f[e], L, e)}
  <2>1. 0 \in S
    BY <1>3, <1>7
  <2>2. ASSUME NEW e \in Nat, e \in S PROVE e + 1 \in S
    <3>1. e + 1 \in 0..L => e \in 0..L /\ e + 1 \in 1..L /\ (e + 1) - 1 = e
      OBVIOUS
    <3> QED
      BY <1>5, <1>7, <2>2, <3>1
  <2> HIDE DEF S
  <2>3. Nat \subseteq S
    BY <2>1, <2>2, InductionOnNat
  <2> QED
    BY <2>3 DEF S
<1>13. PICK r : r = after[L] /\ r \in X /\ Grown(r, L, L)
  <2>1. L \in 0..L
    OBVIOUS
  <2> QED
    BY <1>7, <1>11, <1>12, <2>1
<1>14. PICK n \in Nat \ {0} : n = r.insize /\ Runs(t, L, n, val, pos, D) /\ n >= L
  <2>1. r.insize \in Nat \ {0} /\ Runs(r.list, L, r.insize, val, pos, D)
    BY <1>13 DEF X, Passes
  <2>2. r.insize >= L
    BY <1>13, <2>1 DEF Grown
  <2> QED
    BY <1>2, <1>13, <2>1, <2>2
<1>15. ASSUME NEW i \in 1..L, NEW j \in 1..L PROVE ~Cut(n, i, j)
  <2> SUFFICES ASSUME NEW k \in Nat, i <= n * k, n * k < j PROVE FALSE
    BY DEF Cut
  <2>1. k # 0
    OBVIOUS
  <2>2. PICK d \in Nat : k = d + 1
    <3>1. k - 1 \in Nat /\ k = (k - 1) + 1
      BY <2>1
    <3> QED
      BY <3>1
  <2>3. n * (d + 1) = n * d + n /\ n * d \in Nat
    OBVIOUS
  <2> QED
    BY <1>14, <2>2, <2>3
<1> QED
  BY <1>14, <1>15 DEF Runs, SortedBy

(* A sort moves the items of s: those of t, each from where f says.        *)
Resorted(s, t, val) ==
  /\ Items(t) /\ Len(t) = Len(s) /\ In(t) = In(s)
  /\ \E f \in [1..Len(s) -> 1..Len(s)] : \A i, j \in 1..Len(s) :
       t[i] = s[f[i]] /\ (i < j => val[t[i]] < val[t[j]] \/ (val[t[i]] = val[t[j]] /\ f[i] < f[j]))

LEMMA SortedItems ==
  ASSUME NEW s, Items(s), NEW val \in [Pairs -> Int], NEW leq,
         leq = {e \in Pairs \X Pairs : val[e[1]] <= val[e[2]]}, NEW t, t = SortedSeq(s, leq)
  PROVE  Resorted(s, t, val)
<1>1. PICK L \in Nat : L = Len(s)
  BY ItemsFacts
<1>2. PICK D : D = In(s)
  OBVIOUS
<1>3. D \subseteq Pairs /\ IsFiniteSet(D) /\ Cardinality(D) = L
  BY <1>1, <1>2, ItemsFacts, HowMany
<1>4. \A x \in D : \E i \in 1..L : s[i] = x
  BY <1>1, <1>2 DEF In
<1> DEFINE place == [x \in D |-> CHOOSE i \in 1..L : s[i] = x]
           value == [x \in D |-> val[x]]
<1>5. \A x \in D : place[x] \in 1..L /\ s[place[x]] = x
  BY <1>4
<1>6. \A i \in 1..L : s[i] \in D /\ place[s[i]] = i
  <2>1. \A i \in 1..L : s[i] \in D
    BY <1>1, <1>2 DEF In
  <2>2. \A i, j \in 1..L : s[i] = s[j] => i = j
    BY <1>1 DEF Items, Once
  <2> HIDE DEF place
  <2> QED
    BY <1>5, <2>1, <2>2
<1>7. Ranked(value, place, D)
  <2>1. \A x \in D : place[x] \in Int /\ value[x] \in Int
    BY <1>3, <1>5
  <2> QED
    BY <2>1 DEF Ranked
<1>8. Compares(leq, value, D)
  BY <1>3 DEF Compares
<1>9. \A x \in D : value[x] = val[x] /\ value[x] \in Int
  BY <1>3
<1>10. RunOf(s, L, D)
  <2>1. s = [i \in 1..L |-> s[i]]
    BY <1>1, ItemsFacts
  <2> QED
    BY <1>6, <2>1 DEF RunOf
<1>11. First(place, s, L)
  <2> HIDE DEF place
  <2> QED
    BY <1>6 DEF First
<1> HIDE DEF place, value
<1>12. RunOf(t, L, D) /\ SortedBy(value, place, t, L)
  BY <1>7, <1>8, <1>10, <1>11, SortFacts
<1>13. \A i \in 1..L : t[i] \in D
  BY <1>12 DEF RunOf
<1>14. Items(t) /\ Len(t) = L
  <2>1. t \in Seq(Pairs) /\ Len(t) = L
    <3>1. t \in [1..L -> Pairs]
      BY <1>3, <1>12 DEF RunOf
    <3> QED
      BY <3>1, SeqFrom
  <2>2. ASSUME NEW i \in 1..L, NEW j \in 1..L, i < j PROVE t[i] # t[j]
    <3>1. Precedes(value, place, t[i], t[j])
      BY <1>12, <2>2 DEF SortedBy
    <3>2. PICK x \in D : x = t[i]
      BY <1>13
    <3>3. ~Precedes(value, place, x, x)
      <4>1. value[x] \in Int
        BY <1>9
      <4>2. place[x] \in Int
        BY <1>5
      <4> QED
        BY <4>1, <4>2 DEF Precedes
    <3> QED
      BY <3>1, <3>2, <3>3
  <2>3. \A i, j \in 1..L : i # j => i < j \/ j < i
    OBVIOUS
  <2>4. \A i, j \in 1..L : t[i] = t[j] => i = j
    BY <2>2, <2>3
  <2>5. 1..Len(t) = 1..L
    BY <2>1
  <2>6. Once(t)
    BY <2>4, <2>5 DEF Once
  <2> QED
    BY <2>1, <2>6 DEF Items
<1>15. In(t) = D
  <2>1. In(t) \subseteq D
    BY <1>13, <1>14 DEF In
  <2>2. Cardinality(In(t)) = L
    BY <1>14, HowMany
  <2> QED
    BY <1>3, <2>1, <2>2, FS_Subset
<1> DEFINE from == [i \in 1..L |-> place[t[i]]]
<1>16. from \in [1..L -> 1..L]
  BY <1>5, <1>13
<1>17. ASSUME NEW i \in 1..L, NEW j \in 1..L
       PROVE  /\ t[i] = s[from[i]]
              /\ i < j => val[t[i]] < val[t[j]] \/ (val[t[i]] = val[t[j]] /\ from[i] < from[j])
  <2>1. t[i] = s[from[i]]
    BY <1>5, <1>13
  <2>2. ASSUME i < j
        PROVE  val[t[i]] < val[t[j]] \/ (val[t[i]] = val[t[j]] /\ from[i] < from[j])
    <3>1. Precedes(value, place, t[i], t[j])
      BY <1>12, <2>2 DEF SortedBy
    <3> QED
      BY <1>9, <1>13, <3>1 DEF Precedes
  <2> QED
    BY <2>1, <2>2
<1> HIDE DEF from
<1> QED
  BY <1>1, <1>2, <1>14, <1>15, <1>16, <1>17 DEF Resorted

Positions(t) == [x \in {t[i] : i \in DOMAIN t} |-> CHOOSE i \in DOMAIN t : t[i] = x]
NextBy(next, t, at) ==
  [x \in DOMAIN next |-> IF x \notin DOMAIN at THEN next[x]
                         ELSE IF at[x] = Len(t) THEN Null ELSE t[at[x] + 1]]
PrevBy(prev, t, at) ==
  [x \in DOMAIN prev |-> IF x \notin DOMAIN at THEN prev[x]
                         ELSE IF at[x] = 1 THEN Null ELSE t[at[x] - 1]]
Relinked(h, t, at) ==
  [h EXCEPT !.head = t[1], !.tbl.tail = t[Len(t)],
            !.next = NextBy(h.next, t, at), !.prev = PrevBy(h.prev, t, at)]

LEMMA SortIs ==
  ASSUME NEW h, NEW leq, h.head # Null, NEW t, t = SortedSeq(InOrder(h), leq)
  PROVE  HASH_SORT(h, leq) = Relinked(h, t, Positions(t))
BY DEF HASH_SORT, Relinked, NextBy, PrevBy, Positions

LEMMA RelinkedItems ==
  ASSUME NEW next \in LinksOf, NEW prev \in LinksOf, NEW t, Items(t), Len(t) # 0,
         NEW at, at = Positions(t)
  PROVE  /\ NextBy(next, t, at) \in LinksOf /\ PrevBy(prev, t, at) \in LinksOf
         /\ Linked(t[1], NextBy(next, t, at), PrevBy(prev, t, at), t)
<1>1. PICK L \in Nat \ {0} : L = Len(t)
  BY ItemsFacts
<1>2. DOMAIN t = 1..L /\ \A i \in 1..L : t[i] \in Pairs
  BY <1>1, ItemsFacts
<1>3. DOMAIN at = {t[i] : i \in 1..L}
  BY <1>2 DEF Positions
<1>4. \A x \in DOMAIN at : at[x] \in 1..L /\ t[at[x]] = x
  <2>1. \A x \in DOMAIN at : \E i \in 1..L : t[i] = x
    BY <1>3
  <2>2. \A x \in DOMAIN at : at[x] = CHOOSE i \in 1..L : t[i] = x
    BY <1>2, <1>3 DEF Positions
  <2> QED
    BY <2>1, <2>2
<1>5. \A i \in 1..L : t[i] \in DOMAIN at /\ at[t[i]] = i
  <2>1. \A i, j \in 1..L : t[i] = t[j] => i = j
    BY <1>1 DEF Items, Once
  <2> QED
    BY <1>3, <1>4, <2>1
<1>6. DOMAIN next = Pairs /\ DOMAIN prev = Pairs
  BY DEF LinksOf
<1> DEFINE nx == NextBy(next, t, at)
           pv == PrevBy(prev, t, at)
<1>7. \A x \in Pairs : nx[x] = IF x \notin DOMAIN at THEN next[x]
                               ELSE IF at[x] = L THEN Null ELSE t[at[x] + 1]
  BY <1>1, <1>6 DEF NextBy
<1>8. \A x \in Pairs : pv[x] = IF x \notin DOMAIN at THEN prev[x]
                               ELSE IF at[x] = 1 THEN Null ELSE t[at[x] - 1]
  BY <1>6 DEF PrevBy
<1>9. nx = [x \in Pairs |-> nx[x]] /\ pv = [x \in Pairs |-> pv[x]]
  BY <1>6 DEF NextBy, PrevBy
<1> HIDE DEF nx, pv
<1>10. \A i \in 1..L : nx[t[i]] = IF i = L THEN Null ELSE t[i + 1]
  BY <1>2, <1>5, <1>7
<1>11. \A i \in 1..L : pv[t[i]] = IF i = 1 THEN Null ELSE t[i - 1]
  BY <1>2, <1>5, <1>8
<1>12. nx \in LinksOf /\ pv \in LinksOf
  <2> SUFFICES ASSUME NEW x \in Pairs PROVE nx[x] \in Addr /\ pv[x] \in Addr
    BY <1>9 DEF LinksOf
  <2>1. CASE x \notin DOMAIN at
    BY <1>7, <1>8, <2>1 DEF LinksOf
  <2>2. CASE x \in DOMAIN at
    <3>1. PICK i \in 1..L : t[i] = x
      BY <1>3, <2>2
    <3>2. i # L => i + 1 \in 1..L
      OBVIOUS
    <3>3. i # 1 => i - 1 \in 1..L
      OBVIOUS
    <3> QED
      BY <1>2, <1>10, <1>11, <3>1, <3>2, <3>3, Addresses
  <2> QED
    BY <2>1, <2>2
<1>13. Linked(t[1], nx, pv, t)
  <2>1. t[1] = Node(t, 0)
    BY <1>1 DEF Node
  <2>2. \A i \in 1..L : nx[t[i]] = Node(t, i) /\ pv[t[i]] = Back(t, i)
    BY <1>1, <1>10, <1>11 DEF Node, Back
  <2> QED
    BY <1>1, <2>1, <2>2 DEF Linked
<1> QED
  BY <1>12, <1>13 DEF nx, pv

RelinkedAs(n, h, r, head, tail, nx, pv) ==
  /\ SameTable(n, h, r) /\ r.head = head /\ r.next = nx /\ r.prev = pv
  /\ r.tbl.num_items = h.tbl.num_items /\ r.tbl.tail = tail

LEMMA RelinkedFields ==
  ASSUME NEW n, NEW h \in Hashes(n), NEW head \in Addr, NEW tail \in Pairs,
         NEW nx \in LinksOf, NEW pv \in LinksOf,
         NEW r, r = [h EXCEPT !.head = head, !.tbl.tail = tail, !.next = nx, !.prev = pv]
  PROVE  RelinkedAs(n, h, r, head, tail, nx, pv)
<1>1. PICK u \in Tables(n) : u = h.tbl
  BY DEF Hashes
<1>2. PICK v \in Tables(n) : v = [u EXCEPT !.tail = tail]
  BY DEF Tables
<1>3. v.buckets = u.buckets /\ v.num_items = u.num_items /\ v.tail = tail
  BY <1>2 DEF Tables
<1>4. r = [h EXCEPT !.head = head, !.tbl = v, !.next = nx, !.prev = pv]
  BY <1>1, <1>2
<1>5. /\ r \in Hashes(n) /\ r.tbl = v /\ r.head = head /\ r.next = nx /\ r.prev = pv
      /\ r.hh_next = h.hh_next /\ r.hh_prev = h.hh_prev
  BY <1>4 DEF Hashes
<1> QED
  BY <1>1, <1>3, <1>5 DEF SameTable, RelinkedAs

(* A sort moves the items and leaves the buckets.                          *)
LEMMA SortStands ==
  ASSUME NEW key, NEW h, NEW s, Stands(h, s, key), NEW val \in [Pairs -> Int], NEW leq,
         leq = {e \in Pairs \X Pairs : val[e[1]] <= val[e[2]]}, NEW r, r = HASH_SORT(h, leq)
  PROVE  \E t : Stands(r, t, key) /\ Resorted(s, t, val)
<1>1. /\ Items(s) /\ Len(s) \in Nat
      /\ s = << >> <=> Len(s) = 0
      /\ h.head = Null <=> s = << >>
      /\ InOrder(h) = s
  BY StandsItems
<1>2. PICK t : t = SortedSeq(s, leq)
  OBVIOUS
<1>3. Resorted(s, t, val)
  BY <1>1, <1>2, SortedItems
<1>4. CASE s = << >>
  <2>1. r = h
    BY <1>1, <1>4 DEF HASH_SORT
  <2>2. Items(t) /\ Len(t) = 0
    BY <1>1, <1>3, <1>4 DEF Resorted
  <2>3. t = << >>
    BY <2>2 DEF Items
  <2> QED
    BY <1>3, <1>4, <2>1, <2>3
<1>5. CASE s # << >>
  <2>1. PICK n : Listed(n, h, s, key)
    BY <1>5 DEF Stands
  <2>2. /\ n \in Nat \ {0} /\ Whole(n, h, In(s), key) /\ h \in Hashes(n)
        /\ h.tbl.num_items = Len(s)
    BY <2>1 DEF Listed, Whole, Ordered
  <2>3. Items(t) /\ Len(t) = Len(s) /\ In(t) = In(s) /\ Len(t) \in Nat \ {0}
    BY <1>1, <1>3, <1>5 DEF Resorted
  <2>4. PICK at : at = Positions(t)
    OBVIOUS
  <2>5. h.next \in LinksOf /\ h.prev \in LinksOf
    BY <2>2 DEF Hashes
  <2>6. PICK nx : nx = NextBy(h.next, t, at)
    OBVIOUS
  <2>7. PICK pv : pv = PrevBy(h.prev, t, at)
    OBVIOUS
  <2>8. nx \in LinksOf /\ pv \in LinksOf /\ Linked(t[1], nx, pv, t)
    BY <2>3, <2>4, <2>5, <2>6, <2>7, RelinkedItems
  <2>9. t[1] \in Addr /\ t[Len(t)] \in Pairs
    BY <2>3, ItemsFacts, Addresses
  <2>10. r = [h EXCEPT !.head = t[1], !.tbl.tail = t[Len(t)], !.next = nx, !.prev = pv]
    <3>1. r = Relinked(h, t, at)
      BY <1>1, <1>2, <1>5, <2>4, SortIs
    <3> QED
      BY <2>6, <2>7, <3>1 DEF Relinked
  <2>11. /\ SameTable(n, h, r) /\ r.head = t[1] /\ r.next = nx /\ r.prev = pv
         /\ r.tbl.num_items = h.tbl.num_items /\ r.tbl.tail = t[Len(t)]
    <3>1. PICK x \in Addr : x = t[1]
      BY <2>9
    <3>2. PICK y \in Pairs : y = t[Len(t)]
      BY <2>9
    <3>3. r = [h EXCEPT !.head = x, !.tbl.tail = y, !.next = nx, !.prev = pv]
      BY <2>10, <3>1, <3>2
    <3>4. RelinkedAs(n, h, r, x, y, nx, pv)
      BY <2>2, <2>8, <3>3, RelinkedFields
    <3> QED
      BY <3>1, <3>2, <3>4 DEF RelinkedAs
  <2>12. Whole(n, r, In(t), key)
    BY <2>2, <2>3, <2>11, WholeSame
  <2>13. Ordered(r, t)
    BY <2>2, <2>3, <2>8, <2>11 DEF Ordered
  <2> QED
    BY <1>3, <2>2, <2>12, <2>13 DEF Stands, Listed
<1> QED
  BY <1>4, <1>5

-----------------------------------------------------------------------------
(* The invariant: the table stands for a list of the pairs that are        *)
(* allocated and were added.                                               *)
MapAt(h, s, p, lv, un) ==
  /\ Stands(h, s, KeyOf(p)) /\ p \in [Pairs -> NewPairs]
  /\ lv \subseteq Pairs /\ un \subseteq lv /\ In(s) = lv \ un
MapInv == \E s : MapAt(hash, s, pair, live, unadded)

LEMMA KeysOf ==
  ASSUME NEW p \in [Pairs -> NewPairs]
  PROVE  KeyOf(p) \in KeyMaps /\ \A x \in Pairs : KeyOf(p)[x] = Lower[p[x].name]
<1>1. \A x \in Pairs : p[x].name \in Names
  BY StrMapAssumption
<1> QED
  BY <1>1, StrMapAssumption DEF KeyMaps, KeyOf

LEMMA NoPairIsPair == NoPair \in NewPairs
BY StrMapAssumption DEF NoPair

LEMMA FreshIsFree ==
  ASSUME live \subseteq Pairs, live # Pairs
  PROVE  Fresh \in Pairs \ live
<1>1. Pairs \ live # {} /\ Pairs \ live \subseteq Nat
  BY Addresses
<1>2. \E x \in Pairs \ live : \A y \in Pairs \ live : x <= y
  BY <1>1, LeastNumber
<1> QED
  BY <1>2 DEF Fresh

LEMMA FreedPairs ==
  ASSUME NEW p \in [Pairs -> NewPairs], NEW xs
  PROVE  Freed(p, xs) \in [Pairs -> NewPairs] /\ \A x \in Pairs \ xs : Freed(p, xs)[x] = p[x]
BY NoPairIsPair DEF Freed

LEMMA SetOfItems ==
  ASSUME NEW s, Items(s)
  PROVE  ToSet(s) = In(s)
BY ItemsFacts DEF ToSet

(* An added pair goes behind the others, or is lost for want of memory.    *)
AddedTo(h, r, t, u, x, key, ok) ==
  \/ /\ t = Behind(u, x)
     /\ u = << >> \/ NumBuckets(r) # NumBuckets(h)
          \/ r.tbl.buckets[BucketOf(x, key, NumBuckets(r))].hh_head = x
  \/ ~ok /\ t = u

LEMMA AddGives ==
  ASSUME NEW key \in KeyMaps, NEW h, NEW u, Stands(h, u, key), NEW x \in Pairs \ In(u),
         NEW ok \in BOOLEAN, NEW r, r = HASH_ADD(h, x, key, ok)
  PROVE  \E t : /\ Stands(r, t, key) /\ AddedTo(h, r, t, u, x, key, ok)
                /\ In(t) = In(u) \cup ({x} \cap In(t))
<1>1. Items(u)
  BY StandsItems
<1>2. In(Behind(u, x)) = In(u) \cup {x}
  BY <1>1, BehindFacts
<1>3. \/ /\ Stands(r, Behind(u, x), key)
         /\ \/ u = << >> \/ NumBuckets(r) # NumBuckets(h)
            \/ r.tbl.buckets[BucketOf(x, key, NumBuckets(r))].hh_head = x
      \/ ~ok /\ Stands(r, u, key)
  BY AddStands
<1>4. CASE /\ Stands(r, Behind(u, x), key)
           /\ \/ u = << >> \/ NumBuckets(r) # NumBuckets(h)
              \/ r.tbl.buckets[BucketOf(x, key, NumBuckets(r))].hh_head = x
  BY <1>2, <1>4 DEF AddedTo
<1>5. CASE ~ok /\ Stands(r, u, key)
  BY <1>5 DEF AddedTo
<1> QED
  BY <1>3, <1>4, <1>5

(* What an add makes of the list s.                                        *)
AddsTo(s, t, p, ok) ==
  /\ MapAt(hash', t, pair', live', unadded')
  /\ Fresh \in Pairs \ live /\ pair' = [pair EXCEPT ![Fresh] = p]
  /\ AddedTo(hash, hash', t, s, Fresh, Key', ok)

LEMMA AddMap ==
  ASSUME NEW s, MapAt(hash, s, pair, live, unadded), NEW p \in NewPairs, NEW ok \in BOOLEAN,
         StrMapAdd(p, ok)
  PROVE  \E t : AddsTo(s, t, p, ok)
<1>1. PICK x \in Pairs \ live : x = Fresh
  BY FreshIsFree DEF MapAt, StrMapAdd, Memory
<1>2. /\ pair' = [pair EXCEPT ![x] = p] /\ live' = live \cup {x}
      /\ hash' = HASH_ADD(hash, x, Key', ok) /\ unadded' = unadded \cup ({x} \ ToSet(InOrder(hash')))
  BY <1>1 DEF StrMapAdd, Unadded
<1>3. pair' \in [Pairs -> NewPairs] /\ Key' = KeyOf(pair')
  BY <1>2 DEF MapAt, Key
<1>4. PICK k \in KeyMaps : k = KeyOf(pair')
  BY <1>3, KeysOf
<1>5. x \notin In(s) /\ In(s) \subseteq Pairs
  BY DEF MapAt
<1>6. Stands(hash, s, k)
  <2>1. \A y \in In(s) : k[y] = KeyOf(pair)[y]
    BY <1>2, <1>4, <1>5 DEF MapAt, KeyOf
  <2> QED
    BY <2>1, KeysStand DEF MapAt
<1>7. PICK g : g = hash'
  OBVIOUS
<1>8. PICK t : /\ Stands(g, t, k) /\ AddedTo(hash, g, t, s, x, k, ok)
               /\ In(t) = In(s) \cup ({x} \cap In(t))
  <2>1. g = HASH_ADD(hash, x, k, ok)
    BY <1>2, <1>3, <1>4, <1>7
  <2> QED
    BY <1>5, <1>6, <2>1, AddGives
<1>9. ToSet(InOrder(g)) = In(t)
  BY <1>8, StandsItems, SetOfItems
<1>10. unadded' = unadded \cup ({x} \ In(t))
  BY <1>2, <1>7, <1>9
<1>11. In(t) = live' \ unadded' /\ unadded' \subseteq live' /\ live' \subseteq Pairs
  BY <1>2, <1>8, <1>10 DEF MapAt
<1>12. MapAt(hash', t, pair', live', unadded')
  BY <1>3, <1>4, <1>7, <1>8, <1>11 DEF MapAt
<1> QED
  BY <1>1, <1>2, <1>3, <1>4, <1>7, <1>8, <1>12 DEF AddsTo

(* What is left of s without the pair y that was found under the key k.    *)
Spared(h, g, s, u, y, k, key) ==
  \/ y = Null /\ u = s /\ g = h /\ \A z \in In(s) : key[z] # k
  \/ \E i \in 1..Len(s) : /\ y = s[i] /\ u = Omit(s, i) /\ key[y] = k
                          /\ Len(s) # 1 => NumBuckets(g) = NumBuckets(h) /\ h.head # Null

LEMMA SpareGives ==
  ASSUME NEW key \in KeyMaps, NEW h, NEW s, Stands(h, s, key), NEW k \in DOMAIN Hash,
         NEW y, y = HASH_FIND(h, k, key),
         NEW g, g = IF y = Null THEN h ELSE HASH_DELETE(h, y, key)
  PROVE  \E u : /\ Stands(g, u, key) /\ Spared(h, g, s, u, y, k, key)
                /\ In(u) = In(s) \ {y} /\ y \in In(s) \cup {Null}
<1>1. Items(s) /\ Null \notin In(s)
  BY StandsItems, Addresses
<1>2. \/ y = Null /\ \A z \in In(s) : key[z] # k
      \/ y \in In(s) /\ key[y] = k
  BY FindStands
<1>3. CASE y = Null /\ \A z \in In(s) : key[z] # k
  BY <1>1, <1>3 DEF Spared
<1>4. CASE y \in In(s) /\ key[y] = k
  <2>1. PICK i \in 1..Len(s) : y = s[i]
    BY <1>4 DEF In
  <2>2. g = HASH_DELETE(h, s[i], key)
    BY <1>1, <1>4, <2>1
  <2>3. /\ Stands(g, Omit(s, i), key)
        /\ Len(s) # 1 => NumBuckets(g) = NumBuckets(h) /\ h.head # Null
    BY <2>2, DeleteStands
  <2>4. In(Omit(s, i)) = In(s) \ {y}
    BY <1>1, <2>1, OmitFacts
  <2>5. Spared(h, g, s, Omit(s, i), y, k, key)
    BY <1>4, <2>1, <2>3 DEF Spared
  <2> QED
    BY <1>4, <2>3, <2>4, <2>5
<1> QED
  BY <1>2, <1>3, <1>4

(* What the removal of a name makes of the list s.                         *)
RemovesFrom(s, t, n) ==
  /\ MapAt(hash', t, pair', live', unadded')
  /\ \E i \in 1..Len(s) : t = Omit(s, i) /\ Lower[pair[s[i]].name] = Lower[n]
  /\ \A x \in In(t) : pair'[x] = pair[x]

LEMMA RemoveMap ==
  ASSUME NEW s, MapAt(hash, s, pair, live, unadded), NEW n \in Names, StrMapRm(n)
  PROVE  \E t : RemovesFrom(s, t, n)
<1>1. PICK k \in DOMAIN Hash : k = Lower[n]
  BY StrMapAssumption
<1>2. PICK key \in KeyMaps : key = Key
  BY KeysOf DEF MapAt, Key
<1>3. \A x \in Pairs : key[x] = Lower[pair[x].name]
  BY <1>2, KeysOf DEF MapAt, Key
<1>4. PICK y : y = HASH_FIND(hash, k, key)
  OBVIOUS
<1>5. /\ y # Null /\ hash' = FreedLinks(HASH_DELETE(hash, y, key), {y})
      /\ pair' = Freed(pair, {y}) /\ live' = live \ {y} /\ unadded' = unadded
  BY <1>1, <1>2, <1>4 DEF StrMapRm, sg_strmap_find
<1>6. Stands(hash, s, key)
  BY <1>2 DEF MapAt, Key
<1>7. PICK g : g = IF y = Null THEN hash ELSE HASH_DELETE(hash, y, key)
  OBVIOUS
<1>8. PICK t : /\ Stands(g, t, key) /\ Spared(hash, g, s, t, y, k, key)
               /\ In(t) = In(s) \ {y} /\ y \in In(s) \cup {Null}
  BY <1>4, <1>6, <1>7, SpareGives
<1>9. Stands(hash', t, key)
  <2>1. hash' = FreedLinks(g, {y})
    BY <1>5, <1>7
  <2>2. {y} \cap In(t) = {}
    BY <1>8
  <2>3. PICK r : r = FreedLinks(g, {y})
    OBVIOUS
  <2>4. Stands(r, t, key)
    BY <1>8, <2>2, <2>3, FreedStands
  <2> QED
    BY <2>1, <2>3, <2>4
<1>10. pair' \in [Pairs -> NewPairs] /\ \A x \in Pairs \ {y} : pair'[x] = pair[x]
  BY <1>5, FreedPairs DEF MapAt
<1>11. In(t) \subseteq Pairs \ {y}
  BY <1>8 DEF MapAt
<1>12. Stands(hash', t, KeyOf(pair'))
  <2>1. \A x \in In(t) : KeyOf(pair')[x] = key[x]
    BY <1>3, <1>10, <1>11, KeysOf
  <2>2. PICK g2 : g2 = hash'
    OBVIOUS
  <2>3. PICK k2 : k2 = KeyOf(pair')
    OBVIOUS
  <2>4. Stands(g2, t, k2)
    BY <1>9, <2>1, <2>2, <2>3, KeysStand
  <2> QED
    BY <2>2, <2>3, <2>4
<1>13. MapAt(hash', t, pair', live', unadded')
  BY <1>5, <1>8, <1>10, <1>12 DEF MapAt
<1>14. \E i \in 1..Len(s) : t = Omit(s, i) /\ Lower[pair[s[i]].name] = Lower[n]
  <2>1. \A i \in 1..Len(s) : s[i] \in Pairs
    BY <1>6, StandsItems, ItemsFacts
  <2> QED
    BY <1>1, <1>3, <1>5, <1>8, <2>1 DEF Spared
<1> QED
  BY <1>10, <1>11, <1>13, <1>14 DEF RemovesFrom

(* What a sort makes of the list s.                                        *)
SortsTo(s, t) ==
  /\ MapAt(hash', t, pair', live', unadded') /\ pair' = pair
  /\ Resorted(s, t, [x \in Pairs |-> pair[x].val])

LEMMA SortMap ==
  ASSUME NEW s, MapAt(hash, s, pair, live, unadded), StrMapSort
  PROVE  \E t : SortsTo(s, t)
<1> DEFINE val == [x \in Pairs |-> pair[x].val]
           leq == {e \in Pairs \X Pairs : pair[e[1]].val <= pair[e[2]].val}
<1>1. \A x \in Pairs : pair[x].val \in Int
  BY StrMapAssumption DEF MapAt
<1>2. val \in [Pairs -> Int]
  BY <1>1
<1>3. leq = {e \in Pairs \X Pairs : val[e[1]] <= val[e[2]]}
  OBVIOUS
<1>4. hash' = HASH_SORT(hash, leq) /\ pair' = pair /\ live' = live /\ unadded' = unadded
  BY DEF StrMapSort
<1> HIDE DEF val, leq
<1>5. PICK v \in [Pairs -> Int] : v = val
  BY <1>2
<1>6. PICK l : l = {e \in Pairs \X Pairs : v[e[1]] <= v[e[2]]}
  OBVIOUS
<1>7. PICK r : r = HASH_SORT(hash, l)
  OBVIOUS
<1>8. PICK k : k = KeyOf(pair)
  OBVIOUS
<1>9. PICK t : Stands(r, t, k) /\ Resorted(s, t, v)
  <2>1. Stands(hash, s, k)
    BY <1>8 DEF MapAt
  <2> QED
    BY <1>6, <1>7, <2>1, SortStands
<1>10. hash' = r
  BY <1>3, <1>4, <1>5, <1>6, <1>7
<1>11. In(t) = In(s)
  BY <1>9 DEF Resorted
<1>12. MapAt(hash', t, pair', live', unadded')
  BY <1>4, <1>8, <1>9, <1>10, <1>11 DEF MapAt
<1> QED
  BY <1>4, <1>5, <1>9, <1>12 DEF SortsTo, val

LEMMA CleanupMap ==
  ASSUME NEW s, MapAt(hash, s, pair, live, unadded), StrMapCleanup
  PROVE  MapAt(hash', << >>, pair', live', unadded')
<1>1. PICK key \in KeyMaps : key = Key
  BY KeysOf DEF MapAt, Key
<1>2. Stands(hash, s, Key)
  BY DEF MapAt, Key
<1>3. Items(s) /\ InOrder(hash) = s
  BY <1>2, StandsItems
<1>4. ToSet(s) = In(s)
  BY <1>3, SetOfItems
<1>5. /\ hash' = FreedLinks(Emptied(hash, s), In(s)) /\ pair' = Freed(pair, In(s))
      /\ live' = live \ In(s) /\ unadded' = unadded
  BY <1>3, <1>4 DEF StrMapCleanup
<1>6. PICK e \in EmptyHashes : e = Emptied(hash, s)
  BY <1>1, <1>2, EmptiedStands
<1>7. PICK xs : xs = In(s)
  OBVIOUS
<1>8. PICK g : g = FreedLinks(e, xs)
  OBVIOUS
<1>9. g \in EmptyHashes
  BY <1>8, FreedFields
<1>10. Stands(hash', << >>, KeyOf(pair'))
  BY <1>5, <1>6, <1>7, <1>8, <1>9 DEF Stands
<1>11. pair' \in [Pairs -> NewPairs]
  BY <1>5, FreedPairs DEF MapAt
<1> QED
  BY <1>5, <1>10, <1>11, NoItems DEF MapAt

(* What a set makes of the list s: u is what it takes out leaves of it.    *)
SetsIn(s, t, p, ok) ==
  /\ MapAt(hash', t, pair', live', unadded')
  /\ Fresh \in Pairs \ live
  /\ \A x \in In(t) : pair'[x] = IF x = Fresh THEN p ELSE pair[x]
  /\ \E h, u, y : /\ Spared(hash, h, s, u, y, Lower[p.name], Key)
                  /\ AddedTo(h, hash', t, u, Fresh, Key', ok)
                  /\ In(u) = In(s) \ {y} /\ In(u) \subseteq In(t)

LEMMA SpareSame ==
  ASSUME NEW key, NEW key2, NEW h, NEW g, NEW s, NEW u, NEW y, NEW k,
         Spared(h, g, s, u, y, k, key), \A z \in In(s) : key2[z] = key[z]
  PROVE  Spared(h, g, s, u, y, k, key2)
<1>1. \A i \in 1..Len(s) : s[i] \in In(s)
  BY DEF In
<1> QED
  BY <1>1 DEF Spared

LEMMA SetMap ==
  ASSUME NEW s, MapAt(hash, s, pair, live, unadded), NEW p \in NewPairs, NEW ok \in BOOLEAN,
         StrMapSet(p, ok)
  PROVE  \E t : SetsIn(s, t, p, ok)
<1>1. PICK x \in Pairs \ live : x = Fresh
  BY FreshIsFree DEF MapAt, StrMapSet, Memory
<1>2. PICK new \in [Pairs -> NewPairs] : new = [pair EXCEPT ![x] = p]
  BY DEF MapAt
<1>3. PICK key \in KeyMaps : key = KeyOf(new)
  BY <1>2, KeysOf
<1>4. \A z \in Pairs : key[z] = Lower[new[z].name]
  BY <1>2, <1>3, KeysOf
<1>5. x \notin In(s) /\ In(s) \subseteq Pairs
  BY DEF MapAt
<1>6. \A z \in In(s) : key[z] = Key[z]
  BY <1>2, <1>3, <1>5 DEF MapAt, KeyOf, Key
<1>7. Stands(hash, s, key)
  <2>1. PICK k2 : k2 = Key
    OBVIOUS
  <2>2. Stands(hash, s, k2)
    BY <2>1 DEF MapAt, Key
  <2> QED
    BY <1>6, <2>1, <2>2, KeysStand
<1>8. PICK k \in DOMAIN Hash : k = Lower[p.name] /\ k = key[x]
  <2>1. Lower[p.name] \in DOMAIN Hash
    BY StrMapAssumption
  <2>2. key[x] = Lower[p.name]
    BY <1>2, <1>4 DEF MapAt
  <2> QED
    BY <2>1, <2>2
<1>9. PICK y : y = HASH_FIND(hash, k, key)
  OBVIOUS
<1>10. PICK h : h = IF y = Null THEN hash ELSE HASH_DELETE(hash, y, key)
  OBVIOUS
<1>11. PICK g : g = HASH_ADD(h, x, key, ok)
  OBVIOUS
<1>12. /\ hash' = FreedLinks(g, {y}) /\ pair' = Freed(new, {y})
       /\ live' = (live \cup {x}) \ {y} /\ unadded' = unadded \cup ({x} \ ToSet(InOrder(g)))
  <2>1. HASH_REPLACE(hash, x, key, ok) = [hash |-> g, replaced |-> y]
    BY <1>8, <1>9, <1>10, <1>11 DEF HASH_REPLACE
  <2>2. PICK r : r = HASH_REPLACE(hash, Fresh, KeyOf([pair EXCEPT ![Fresh] = p]), ok)
    OBVIOUS
  <2>3. r.hash = g /\ r.replaced = y
    BY <1>1, <1>2, <1>3, <2>1, <2>2
  <2>4. /\ hash' = FreedLinks(r.hash, {r.replaced})
        /\ pair' = Freed([pair EXCEPT ![Fresh] = p], {r.replaced})
        /\ live' = (live \cup {Fresh}) \ {r.replaced}
        /\ unadded' = unadded \cup ({Fresh} \ ToSet(InOrder(r.hash)))
    BY <2>2 DEF StrMapSet, FreeReplaced, Unadded
  <2> QED
    BY <1>1, <1>2, <2>3, <2>4
<1>13. PICK u : /\ Stands(h, u, key) /\ Spared(hash, h, s, u, y, k, key)
                /\ In(u) = In(s) \ {y} /\ y \in In(s) \cup {Null}
  BY <1>7, <1>9, <1>10, SpareGives
<1>14. x \notin In(u) /\ x # y
  BY <1>5, <1>13, Addresses
<1>15. PICK t : /\ Stands(g, t, key) /\ AddedTo(h, g, t, u, x, key, ok)
                /\ In(t) = In(u) \cup ({x} \cap In(t))
  BY <1>11, <1>13, <1>14, AddGives
<1>16. ToSet(InOrder(g)) = In(t)
  BY <1>15, StandsItems, SetOfItems
<1>17. y \notin In(t) /\ In(t) \subseteq Pairs
  BY <1>5, <1>13, <1>14, <1>15
<1>18. PICK f : f = FreedLinks(g, {y})
  OBVIOUS
<1>19. Stands(f, t, key) /\ f.tbl = g.tbl
  <2>1. {y} \cap In(t) = {}
    BY <1>17
  <2> QED
    BY <1>15, <1>18, <2>1, FreedStands
<1>20. pair' \in [Pairs -> NewPairs] /\ \A z \in Pairs \ {y} : pair'[z] = new[z]
  BY <1>2, <1>12, FreedPairs
<1>21. PICK k2 \in KeyMaps : k2 = KeyOf(pair')
  BY <1>20, KeysOf
<1>22. \A z \in Pairs \ {y} : k2[z] = key[z]
  BY <1>4, <1>20, <1>21, KeysOf
<1>23. Stands(f, t, k2)
  <2>1. \A z \in In(t) : k2[z] = key[z]
    BY <1>17, <1>22
  <2> QED
    BY <1>19, <2>1, KeysStand
<1>24. AddedTo(h, f, t, u, x, k2, ok)
  <2>1. NumBuckets(f) = NumBuckets(g)
    BY <1>19 DEF NumBuckets
  <2>2. BucketOf(x, k2, NumBuckets(f)) = BucketOf(x, key, NumBuckets(g))
    BY <1>14, <1>22, <2>1 DEF BucketOf
  <2> QED
    BY <1>15, <1>19, <2>1, <2>2 DEF AddedTo
<1>25. In(t) = live' \ unadded' /\ unadded' \subseteq live' /\ live' \subseteq Pairs
  <2>1. unadded' = unadded \cup ({x} \ In(t))
    BY <1>12, <1>16
  <2>2. In(s) = live \ unadded /\ unadded \subseteq live /\ live \subseteq Pairs
    BY DEF MapAt
  <2>3. y \notin unadded /\ live' = (live \cup {x}) \ {y} /\ x # y /\ x \notin unadded
    BY <1>12, <1>13, <1>14, <2>2, Addresses
  <2>4. CASE x \in In(t)
    <3>1. In(t) = (In(s) \ {y}) \cup {x} /\ unadded' = unadded
      BY <1>13, <1>15, <2>1, <2>4
    <3> QED
      BY <2>2, <2>3, <3>1
  <2>5. CASE x \notin In(t)
    <3>1. In(t) = In(s) \ {y} /\ unadded' = unadded \cup {x}
      BY <1>13, <1>15, <2>1, <2>5
    <3> QED
      BY <2>2, <2>3, <3>1
  <2> QED
    BY <2>4, <2>5
<1>26. MapAt(hash', t, pair', live', unadded')
  BY <1>12, <1>18, <1>20, <1>21, <1>23, <1>25 DEF MapAt
<1>27. \A z \in In(t) : pair'[z] = IF z = x THEN p ELSE pair[z]
  <2>1. \A z \in Pairs : new[z] = IF z = x THEN p ELSE pair[z]
    BY <1>2 DEF MapAt
  <2> QED
    BY <1>17, <1>20, <2>1
<1>28. Spared(hash, h, s, u, y, Lower[p.name], Key)
  <2>1. PICK key2 : key2 = Key
    OBVIOUS
  <2>2. Spared(hash, h, s, u, y, k, key2)
    BY <1>6, <1>13, <2>1, SpareSame
  <2> QED
    BY <1>8, <2>1, <2>2
<1>29. AddedTo(h, hash', t, u, Fresh, Key', ok)
  BY <1>1, <1>12, <1>18, <1>21, <1>24 DEF Key
<1>30. In(u) \subseteq In(t)
  BY <1>15
<1> QED
  BY <1>1, <1>13, <1>26, <1>27, <1>28, <1>29, <1>30 DEF SetsIn

-----------------------------------------------------------------------------
LEMMA InitMap == StrMapInit => MapAt(hash, << >>, pair, live, unadded)
<1> SUFFICES ASSUME StrMapInit PROVE MapAt(hash, << >>, pair, live, unadded)
  OBVIOUS
<1>1. hash \in EmptyHashes
  BY Addresses DEF StrMapInit, EmptyHash, EmptyHashes, Links, LinksOf
<1>2. pair \in [Pairs -> NewPairs]
  BY NoPairIsPair DEF StrMapInit
<1> QED
  BY <1>1, <1>2, NoItems DEF MapAt, Stands, StrMapInit

LEMMA StepMap == MapInv /\ [StrMapNext]_strmapVars => MapInv'
<1> SUFFICES ASSUME MapInv, [StrMapNext]_strmapVars
             PROVE  \E t : MapAt(hash', t, pair', live', unadded')
  BY DEF MapInv
<1>1. PICK s : MapAt(hash, s, pair, live, unadded)
  BY DEF MapInv
<1>2. ASSUME NEW p \in NewPairs, NEW ok \in BOOLEAN, StrMapAdd(p, ok)
      PROVE  \E t : MapAt(hash', t, pair', live', unadded')
  BY <1>1, <1>2, AddMap DEF AddsTo
<1>3. ASSUME NEW p \in NewPairs, NEW ok \in BOOLEAN, StrMapSet(p, ok)
      PROVE  \E t : MapAt(hash', t, pair', live', unadded')
  BY <1>1, <1>3, SetMap DEF SetsIn
<1>4. ASSUME NEW n \in Names, StrMapRm(n)
      PROVE  \E t : MapAt(hash', t, pair', live', unadded')
  BY <1>1, <1>4, RemoveMap DEF RemovesFrom
<1>5. CASE StrMapSort
  BY <1>1, <1>5, SortMap DEF SortsTo
<1>6. CASE StrMapCleanup
  BY <1>1, <1>6, CleanupMap
<1>7. CASE UNCHANGED strmapVars
  BY <1>1, <1>7 DEF strmapVars
<1> QED
  BY <1>2, <1>3, <1>4, <1>5, <1>6, <1>7 DEF StrMapNext

(* In every behaviour the table stands for a list of the pairs that were   *)
(* added: both orders, the counts and the tail of uthash.h belong to it,   *)
(* and every pair is in the bucket of its key.                             *)
THEOREM MapStands == StrMapSpec => []MapInv
<1>1. StrMapInit => MapInv
  BY InitMap DEF MapInv
<1> QED
  BY <1>1, StepMap, PTL DEF StrMapSpec

(* What HASH_FSCK wants of the list s and of bucket b.                     *)
ListChecked(h, s) ==
  LinkedBack(s, h.prev) /\ Len(s) = h.tbl.num_items /\ h.tbl.tail = s[Len(s)]
BucketChecked(h, s, c, key, b) ==
  /\ LinkedBack(c, h.hh_prev) /\ h.tbl.buckets[b].count = Len(c)
  /\ {c[i] : i \in DOMAIN c} = {s[i] : i \in {i \in DOMAIN s : HASH_TO_BKT(Hash[key[s[i]]], NumBuckets(h)) = b}}

LEMMA FsckIs ==
  ASSUME NEW h, NEW key, NEW s, InOrder(h) = s, ListChecked(h, s),
         \A b \in DOMAIN h.tbl.buckets : BucketChecked(h, s, InBucket(h, b), key, b)
  PROVE  HASH_FSCK(h, key)
BY DEF HASH_FSCK, ListChecked, BucketChecked

LEMMA FsckStands ==
  ASSUME NEW key \in KeyMaps, NEW h, NEW s, Stands(h, s, key)
  PROVE  HASH_FSCK(h, key)
<1>1. CASE s = << >>
  BY <1>1, StandsItems DEF HASH_FSCK
<1>2. CASE s # << >>
  <2>1. PICK n : Listed(n, h, s, key)
    BY <1>2 DEF Stands
  <2>2. PICK c : Chained(h, n, c, In(s), key)
    BY <2>1 DEF Listed, Whole
  <2>3. h \in Hashes(n) /\ n \in Nat \ {0} /\ Ordered(h, s) /\ Items(s)
    BY <2>1 DEF Listed, Whole, Ordered, Linked
  <2>4. DOMAIN h.tbl.buckets = 0..n - 1 /\ NumBuckets(h) = n
    BY <2>3, HowManyBuckets DEF Hashes, Tables
  <2>5. InOrder(h) = s
    BY StandsItems
  <2>6. ListChecked(h, s)
    <3>1. DOMAIN s = 1..Len(s)
      BY <2>3, ItemsFacts
    <3>2. \A i \in 1..Len(s) : h.prev[s[i]] = Back(s, i)
      BY <2>3 DEF Ordered, Linked
    <3>3. LinkedBack(s, h.prev)
      BY <3>1, <3>2 DEF LinkedBack, Back
    <3> QED
      BY <2>3, <3>3 DEF Ordered, ListChecked
  <2>7. ASSUME NEW b \in 0..n - 1
        PROVE  BucketChecked(h, s, InBucket(h, b), key, b)
    <3>1. PICK d : d = c[b]
      OBVIOUS
    <3>2. InBucket(h, b) = d /\ Items(d) /\ In(d) = {x \in In(s) : BucketOf(x, key, n) = b}
      BY <2>2, <2>3, <3>1, ChainRead
    <3>3. /\ \A i \in 1..Len(d) : h.hh_prev[d[i]] = Back(d, i)
          /\ h.tbl.buckets[b].count = Len(d)
      BY <2>2, <3>1 DEF Chained, Linked
    <3>4. DOMAIN d = 1..Len(d) /\ In(d) = {d[i] : i \in DOMAIN d}
      BY <3>2, ItemsFacts
    <3>5. LinkedBack(d, h.hh_prev)
      BY <3>3, <3>4 DEF LinkedBack, Back
    <3>6. In(s) = {s[i] : i \in DOMAIN s}
      BY <2>3, ItemsFacts
    <3>7. {x \in In(s) : BucketOf(x, key, n) = b}
            = {s[i] : i \in {i \in DOMAIN s : HASH_TO_BKT(Hash[key[s[i]]], n) = b}}
      BY <3>6 DEF BucketOf
    <3>8. BucketChecked(h, s, d, key, b)
      BY <2>4, <3>2, <3>3, <3>4, <3>5, <3>7 DEF BucketChecked
    <3> QED
      BY <3>2, <3>8
  <2>8. \A b \in DOMAIN h.tbl.buckets : BucketChecked(h, s, InBucket(h, b), key, b)
    BY <2>4, <2>7
  <2> QED
    BY <2>5, <2>6, <2>8, FsckIs
<1> QED
  BY <1>1, <1>2

LEMMA LiveStands ==
  ASSUME NEW s, MapAt(hash, s, pair, live, unadded)
  PROVE  PairsLive
<1>1. Stands(hash, s, Key)
  BY DEF MapAt, Key
<1>2. Items(s) /\ InOrder(hash) = s /\ (hash.head = Null <=> s = << >>) /\ (s = << >> <=> Len(s) = 0)
  BY <1>1, StandsItems
<1>3. ToSet(sg_strmap_iter) = In(s)
  BY <1>2, SetOfItems DEF sg_strmap_iter
<1>4. sg_strmap_count = Len(s) /\ \A x \in In(s) : sg_strmap_next(x) \in In(s) \cup {Null}
  <2>1. CASE s = << >>
    BY <1>2, <2>1, NoItems DEF sg_strmap_count, HASH_COUNT
  <2>2. CASE s # << >>
    <3>1. PICK n : Listed(n, hash, s, Key)
      BY <1>1, <2>2 DEF Stands
    <3>2. Ordered(hash, s)
      BY <3>1 DEF Listed
    <3>3. sg_strmap_count = Len(s)
      BY <1>2, <2>2, <3>2 DEF Ordered, sg_strmap_count, HASH_COUNT
    <3>4. ASSUME NEW x \in In(s) PROVE sg_strmap_next(x) \in In(s) \cup {Null}
      <4>1. PICK i \in 1..Len(s) : s[i] = x
        BY DEF In
      <4>2. sg_strmap_next(x) = Null \/ sg_strmap_next(x) = Node(s, i)
        BY <3>2, <4>1 DEF sg_strmap_next, Ordered, Linked
      <4>3. Node(s, i) \in In(s) \cup {Null}
        <5>1. Len(s) \in Nat
          BY <1>2, ItemsFacts
        <5>2. i < Len(s) => i + 1 \in 1..Len(s)
          BY <5>1
        <5> QED
          BY <5>2 DEF Node, In
      <4> QED
        BY <4>2, <4>3
    <3> QED
      BY <3>3, <3>4
  <2> QED
    BY <2>1, <2>2
<1>5. Cardinality(In(s)) = Len(s)
  BY <1>2, HowMany
<1> QED
  BY <1>3, <1>4, <1>5 DEF PairsLive, MapAt

LEMMA FoundStands ==
  ASSUME NEW s, MapAt(hash, s, pair, live, unadded)
  PROVE  FoundIfThere
<1>1. PICK key \in KeyMaps : key = Key
  BY KeysOf DEF MapAt, Key
<1>2. Stands(hash, s, key) /\ In(s) = live \ unadded /\ Null \notin In(s)
  <2>1. Stands(hash, s, key) /\ In(s) = live \ unadded
    BY <1>1 DEF MapAt, Key
  <2> QED
    BY <2>1, StandsItems, Addresses
<1> SUFFICES ASSUME NEW n \in Names
             PROVE  LET with == {x \in In(s) : key[x] = Lower[n]}
                    IN  IF with = {} THEN sg_strmap_find(n) = Null
                        ELSE /\ sg_strmap_find(n) \in with
                             /\ sg_strmap_get(n) \in {sg_strmap_val(x) : x \in with}
  BY <1>1, <1>2 DEF FoundIfThere
<1>3. PICK k \in DOMAIN Hash : k = Lower[n]
  BY StrMapAssumption
<1>4. PICK y : y = HASH_FIND(hash, k, key)
  OBVIOUS
<1>5. sg_strmap_find(n) = y /\ sg_strmap_get(n) = sg_strmap_val(y)
  BY <1>1, <1>3, <1>4 DEF sg_strmap_find, sg_strmap_get
<1>6. \/ y = Null /\ \A z \in In(s) : key[z] # k
      \/ y \in In(s) /\ key[y] = k
  BY <1>2, <1>4, FindStands
<1> QED
  BY <1>2, <1>3, <1>5, <1>6

(* A map finds what is in it: the table, its buckets and its order are     *)
(* whole through expansions, their rollback, deletions and sorts, and hold *)
(* live pairs only, in every behaviour, for any hash function, any number  *)
(* of buckets and any threshold.                                           *)
THEOREM TablesStayIntact == StrMapSpec => []TableIntact
<1>1. MapInv => TableIntact
  <2> SUFFICES ASSUME MapInv PROVE TableIntact
    OBVIOUS
  <2>1. PICK s : MapAt(hash, s, pair, live, unadded)
    BY DEF MapInv
  <2>2. PICK key \in KeyMaps : key = Key
    BY <2>1, KeysOf DEF MapAt, Key
  <2>3. HASH_FSCK(hash, key)
    <3>1. Stands(hash, s, key)
      BY <2>1, <2>2 DEF MapAt, Key
    <3> QED
      BY <3>1, FsckStands
  <2>4. HashIntact
    BY <2>2, <2>3 DEF HashIntact
  <2> QED
    BY <2>1, <2>4, LiveStands, FoundStands DEF TableIntact
<1> QED
  BY <1>1, MapStands, PTL

(* A set is found: whatever duplicates of the name were there, unless it   *)
(* expanded the table.                                                     *)
SetFinds ==
  live' \ live # {} =>
    \A p \in {pair'[Fresh]} : StrMapSet(p, TRUE) /\ ~SetExpands =>
        HASH_FIND(hash', Lower[p.name], Key') = Fresh

LEMMA SetFindsIt == MapInv /\ MapInv' => SetFinds
<1> SUFFICES ASSUME MapInv, MapInv', NEW p, p = pair'[Fresh], StrMapSet(p, TRUE), ~SetExpands
             PROVE  HASH_FIND(hash', Lower[p.name], Key') = Fresh
  BY DEF SetFinds
<1>1. PICK s : MapAt(hash, s, pair, live, unadded)
  BY DEF MapInv
<1>2. PICK x \in Pairs \ live : x = Fresh
  BY <1>1, FreshIsFree DEF MapAt, StrMapSet, Memory
<1>3. pair' \in [Pairs -> NewPairs]
  BY DEF MapInv, MapAt
<1>4. p \in NewPairs
  BY <1>2, <1>3
<1>5. PICK t : SetsIn(s, t, p, TRUE)
  BY <1>1, <1>4, SetMap
<1>6. PICK g : g = hash'
  OBVIOUS
<1>7. PICK key \in KeyMaps : key = KeyOf(pair') /\ key = Key'
  BY <1>3, KeysOf DEF Key
<1>8. Stands(g, t, key)
  BY <1>5, <1>6, <1>7 DEF SetsIn, MapAt
<1>9. PICK h, u, y : /\ Spared(hash, h, s, u, y, Lower[p.name], Key)
                     /\ AddedTo(h, g, t, u, x, key, TRUE)
                     /\ In(u) = In(s) \ {y} /\ In(u) \subseteq In(t)
  BY <1>2, <1>5, <1>6, <1>7 DEF SetsIn
<1>10. PICK k \in DOMAIN Hash : k = Lower[p.name] /\ k = key[x]
  <2>1. Lower[p.name] \in DOMAIN Hash
    BY <1>4, StrMapAssumption
  <2>2. key[x] = Lower[p.name]
    BY <1>2, <1>3, <1>7, KeysOf
  <2> QED
    BY <2>1, <2>2
<1>11. Stands(hash, s, Key) /\ In(s) = live \ unadded /\ In(s) \subseteq Pairs /\ Items(s)
  <2>1. Stands(hash, s, Key) /\ In(s) = live \ unadded
    BY <1>1 DEF MapAt, Key
  <2> QED
    BY <2>1, StandsItems
<1>12. Items(u) /\ x \notin In(u)
  <2>1. Items(u)
    BY <1>9, <1>11, OmitFacts DEF Spared
  <2> QED
    BY <1>2, <1>9, <1>11, <2>1
<1>13. t = Behind(u, x) /\ (u = << >> \/ NumBuckets(g) # NumBuckets(h)
                              \/ g.tbl.buckets[BucketOf(x, key, NumBuckets(g))].hh_head = x)
  BY <1>9 DEF AddedTo
<1>14. In(t) = In(u) \cup {x}
  BY <1>12, <1>13, BehindFacts
<1>15. ASSUME \A z \in In(u) : key[z] # k PROVE HASH_FIND(g, k, key) = x
  <2>1. PICK z : z = HASH_FIND(g, k, key)
    OBVIOUS
  <2>2. (z = Null /\ \A v \in In(t) : key[v] # k) \/ (z \in In(t) /\ key[z] = k)
    BY <1>8, <2>1, FindStands
  <2> QED
    BY <1>10, <1>14, <1>15, <2>1, <2>2
<1>16. CASE g.tbl.buckets[BucketOf(x, key, NumBuckets(g))].hh_head = x
  <2>1. x \in In(t)
    BY <1>14
  <2>2. HASH_FIND(g, key[x], key) = x
    BY <1>8, <1>16, <2>1, HeadFound
  <2> QED
    BY <1>2, <1>6, <1>7, <1>10, <2>2
<1>17. CASE u = << >>
  <2>1. \A z \in In(u) : key[z] # k
    BY <1>17, NoItems
  <2> QED
    BY <1>2, <1>6, <1>7, <1>10, <1>15, <2>1
<1>18. CASE u # << >> /\ NumBuckets(g) # NumBuckets(h)
  <2>1. \A z \in In(u) : key[z] = Key[z]
    <3>1. \A z \in In(u) : pair'[z] = pair[z]
      BY <1>2, <1>5, <1>9, <1>12 DEF SetsIn
    <3> QED
      BY <1>1, <1>3, <1>7, <1>9, <1>11, <3>1, KeysOf DEF MapAt, Key
  <2>2. hash.head # Null /\ NumBuckets(h) = NumBuckets(hash)
    <3>1. CASE u = s /\ h = hash
      BY <1>11, <1>18, <3>1, StandsItems
    <3>2. CASE \E i \in 1..Len(s) : /\ u = Omit(s, i)
                                    /\ Len(s) # 1 => NumBuckets(h) = NumBuckets(hash) /\ hash.head # Null
      <4>1. Len(s) # 1
        <5>1. PICK i \in 1..Len(s) : u = Omit(s, i)
          BY <3>2
        <5>2. Len(u) = Len(s) - 1
          BY <1>11, <5>1, OmitFacts
        <5>3. Len(u) = 0 => u = << >>
          BY <1>12 DEF Items
        <5> QED
          BY <1>18, <5>2, <5>3
      <4> QED
        BY <3>2, <4>1
    <3> QED
      BY <1>9, <3>1, <3>2 DEF Spared
  <2>3. Cardinality({z \in live \ unadded : Key[z] = k}) <= 1
    <3>1. ~(Cardinality({z \in live \ unadded : Key[z] = Key'[Fresh]}) > 1)
      BY <1>6, <1>18, <2>2 DEF SetExpands
    <3>2. Key'[Fresh] = k
      BY <1>2, <1>7, <1>10
    <3>3. IsFiniteSet({z \in live \ unadded : Key[z] = k})
      BY <1>11, Addresses, FS_Subset
    <3>4. Cardinality({z \in live \ unadded : Key[z] = k}) \in Nat
      BY <3>3, FS_CardinalityType
    <3> QED
      BY <3>1, <3>2, <3>4
  <2>4. \A z \in In(u) : Key[z] # k
    <3> SUFFICES ASSUME NEW z \in In(u), Key[z] = k PROVE FALSE
      OBVIOUS
    <3>1. z \in In(s) /\ z # y
      BY <1>9
    <3>2. y \in In(s) /\ Key[y] = k
      BY <1>9, <1>10, <3>1 DEF Spared, In
    <3>3. z \in {v \in live \ unadded : Key[v] = k} /\ y \in {v \in live \ unadded : Key[v] = k}
      BY <1>11, <3>1, <3>2
    <3>4. IsFiniteSet({v \in live \ unadded : Key[v] = k})
      BY <1>11, Addresses, FS_Subset
    <3> HIDE DEF Key
    <3>5. PICK V : V = {v \in live \ unadded : Key[v] = k}
      OBVIOUS
    <3>6. IsFiniteSet(V) /\ Cardinality(V) <= 1 /\ z \in V /\ y \in V
      BY <2>3, <3>3, <3>4, <3>5
    <3>7. {z, y} \subseteq V /\ IsFiniteSet({z, y}) /\ Cardinality({z, y}) = 2
      <4>1. IsFiniteSet({z}) /\ Cardinality({z}) = 1
        BY FS_Singleton
      <4>2. Cardinality({z} \cup {y}) = 2
        <5>1. y \notin {z}
          BY <3>1
        <5>2. Cardinality({z} \cup {y}) = Cardinality({z}) + 1
          BY <4>1, <5>1, FS_AddElement
        <5> QED
          BY <4>1, <5>2
      <4>3. {z, y} = {z} \cup {y}
        OBVIOUS
      <4>4. {z, y} \subseteq V
        BY <3>6
      <4> QED
        BY <3>6, <4>2, <4>3, <4>4, FS_Subset
    <3>8. Cardinality({z, y}) <= Cardinality(V) /\ Cardinality(V) \in Nat
      BY <3>6, <3>7, FS_Subset, FS_CardinalityType
    <3> QED
      BY <3>6, <3>7, <3>8
  <2> QED
    BY <1>2, <1>6, <1>7, <1>10, <1>15, <2>1, <2>4
<1> QED
  BY <1>13, <1>16, <1>17, <1>18

(* After a set the name has the value that was set, also when the table    *)
(* held the name more than once.                                           *)
THEOREM SetsAreFound == StrMapSpec => SetIsFound
<1>1. MapInv /\ MapInv' /\ [StrMapNext]_strmapVars => [SetFinds]_strmapVars
  BY SetFindsIt
<1> QED
  BY <1>1, MapStands, PTL DEF StrMapSpec, SetIsFound, SetFinds

-----------------------------------------------------------------------------
(* The list of pairs that the list of items s stands for.                  *)
View(p, s) == [i \in 1..Len(s) |-> p[s[i]]]
PairsIn(h, p) ==
  LET s == InOrder(h)
  IN  << >> \o [i \in DOMAIN s |-> [name |-> p[s[i]].name, val |-> p[s[i]].val]]

LEMMA ViewSeq ==
  ASSUME NEW s, Items(s), NEW p \in [Pairs -> NewPairs]
  PROVE  /\ View(p, s) \in [1..Len(s) -> NewPairs] /\ View(p, s) \in Seq(NewPairs)
         /\ Len(View(p, s)) = Len(s) /\ \A i \in 1..Len(s) : View(p, s)[i] = p[s[i]]
<1>1. PICK L \in Nat : L = Len(s)
  BY ItemsFacts
<1>2. View(p, s) \in [1..L -> NewPairs]
  BY <1>1, ItemsFacts DEF View
<1>3. PICK v \in [1..L -> NewPairs] : v = View(p, s)
  BY <1>2
<1>4. v \in Seq(NewPairs) /\ Len(v) = L
  OBVIOUS
<1> QED
  BY <1>1, <1>3, <1>4 DEF View

LEMMA PairsInIs ==
  ASSUME NEW h, NEW p \in [Pairs -> NewPairs], NEW s, Stands(h, s, KeyOf(p))
  PROVE  PairsIn(h, p) = View(p, s)
<1>1. Items(s) /\ InOrder(h) = s
  BY StandsItems
<1>2. DOMAIN s = 1..Len(s) /\ \A i \in 1..Len(s) : s[i] \in Pairs
  BY <1>1, ItemsFacts
<1>3. \A x \in Pairs : [name |-> p[x].name, val |-> p[x].val] = p[x]
  BY StrMapAssumption
<1>4. [i \in DOMAIN s |-> [name |-> p[s[i]].name, val |-> p[s[i]].val]] = View(p, s)
  BY <1>2, <1>3 DEF View
<1>5. << >> \o View(p, s) = View(p, s)
  <2>1. PICK v \in Seq(NewPairs) : v = View(p, s)
    BY <1>1, ViewSeq
  <2>2. << >> \o v = v
    OBVIOUS
  <2> QED
    BY <2>1, <2>2
<1> QED
  BY <1>1, <1>4, <1>5 DEF PairsIn

LEMMA ViewSame ==
  ASSUME NEW s, Items(s), NEW p, NEW p2, \A x \in In(s) : p2[x] = p[x]
  PROVE  View(p2, s) = View(p, s)
<1>1. \A i \in 1..Len(s) : s[i] \in In(s)
  BY DEF In
<1> QED
  BY <1>1 DEF View

LEMMA ViewBehind ==
  ASSUME NEW s, Items(s), NEW x \in Pairs \ In(s), NEW p \in [Pairs -> NewPairs],
         NEW p2 \in [Pairs -> NewPairs], \A y \in In(s) : p2[y] = p[y]
  PROVE  Abstract!ListAdd(View(p, s), View(p2, Behind(s, x)), p2[x])
<1>1. PICK L \in Nat : L = Len(s)
  BY ItemsFacts
<1>2. PICK t : t = Behind(s, x)
  OBVIOUS
<1>3. Items(t) /\ Len(t) = L + 1 /\ t[L + 1] = x /\ \A i \in 1..L : t[i] = s[i]
  BY <1>1, <1>2, BehindFacts
<1>4. PICK v \in Seq(NewPairs) : v = View(p, s)
  BY ViewSeq
<1>5. PICK w \in Seq(NewPairs) : w = View(p2, t)
  BY <1>3, ViewSeq
<1>6. Len(v) = L /\ \A i \in 1..L : v[i] = p[s[i]]
  BY <1>1, <1>4, ViewSeq
<1>7. Len(w) = L + 1 /\ \A i \in 1..L + 1 : w[i] = p2[t[i]]
  BY <1>3, <1>5, ViewSeq
<1>8. \A i \in 1..L : w[i] = v[i]
  <2>1. \A i \in 1..L : i \in 1..L + 1 /\ s[i] \in In(s)
    BY <1>1 DEF In
  <2> QED
    BY <1>3, <1>6, <1>7, <2>1
<1>9. w[L + 1] = p2[x]
  <2>1. L + 1 \in 1..L + 1
    OBVIOUS
  <2> QED
    BY <1>3, <1>7, <2>1
<1>10. w = Append(v, p2[x])
  <2>1. p2[x] \in NewPairs
    OBVIOUS
  <2> QED
    BY <1>6, <1>7, <1>8, <1>9, <2>1
<1> QED
  BY <1>2, <1>4, <1>5, <1>10 DEF Abstract!ListAdd

LEMMA ViewOmit ==
  ASSUME NEW s, Items(s), NEW i \in 1..Len(s), NEW p \in [Pairs -> NewPairs]
  PROVE  /\ View(p, Omit(s, i)) = Abstract!Without(View(p, s), i)
         /\ \A n : Lower[p[s[i]].name] = Lower[n] => i \in Abstract!At(View(p, s), n)
<1>1. PICK L \in Nat : L = Len(s)
  BY ItemsFacts
<1>2. PICK t : t = Omit(s, i)
  OBVIOUS
<1>3. Items(t) /\ Len(t) = L - 1 /\ \A j \in 1..L - 1 : t[j] = IF j < i THEN s[j] ELSE s[j + 1]
  BY <1>1, <1>2, OmitFacts
<1>4. PICK v : v = View(p, s)
  OBVIOUS
<1>5. Len(v) = L /\ DOMAIN v = 1..L /\ \A j \in 1..L : v[j] = p[s[j]]
  BY <1>1, <1>4, ViewSeq
<1>6. View(p, t) = [j \in 1..L - 1 |-> p[t[j]]]
  BY <1>3 DEF View
<1>7. \A j \in 1..L - 1 : p[t[j]] = IF j < i THEN v[j] ELSE v[j + 1]
  <2>1. \A j \in 1..L - 1 : j \in 1..L /\ j + 1 \in 1..L
    OBVIOUS
  <2> QED
    BY <1>3, <1>5, <2>1
<1>8. View(p, t) = Abstract!Without(v, i)
  BY <1>5, <1>6, <1>7 DEF Abstract!Without
<1>9. \A n : Lower[p[s[i]].name] = Lower[n] => i \in Abstract!At(v, n)
  BY <1>1, <1>5 DEF Abstract!At
<1> QED
  BY <1>2, <1>4, <1>8, <1>9

(* The steps of the list that an add to u makes.                           *)
LEMMA ViewAdded ==
  ASSUME NEW h, NEW r, NEW t, NEW u, NEW x \in Pairs, NEW key, NEW ok, AddedTo(h, r, t, u, x, key, ok),
         Items(u), x \notin In(u), NEW p \in [Pairs -> NewPairs], NEW p2 \in [Pairs -> NewPairs],
         \A y \in In(u) : p2[y] = p[y]
  PROVE  \/ Abstract!ListAdd(View(p, u), View(p2, t), p2[x]) /\ x \in In(t)
         \/ View(p2, t) = View(p, u)
<1>1. CASE t = Behind(u, x)
  <2>1. Abstract!ListAdd(View(p, u), View(p2, Behind(u, x)), p2[x])
    BY ViewBehind
  <2>2. x \in In(t)
    BY <1>1, BehindFacts
  <2> QED
    BY <1>1, <2>1, <2>2
<1>2. CASE t = u
  BY <1>2, ViewSame
<1> QED
  BY <1>1, <1>2 DEF AddedTo

ListStepOrNot(v, w) == Abstract!ListStep(v, w) \/ w = v

LEMMA AddImplements ==
  ASSUME NEW s, MapAt(hash, s, pair, live, unadded), NEW p \in NewPairs, NEW ok \in BOOLEAN,
         NEW t, AddsTo(s, t, p, ok)
  PROVE  ListStepOrNot(View(pair, s), View(pair', t))
<1>1. PICK x \in Pairs \ live : x = Fresh
  BY DEF AddsTo
<1>2. pair \in [Pairs -> NewPairs] /\ pair' \in [Pairs -> NewPairs] /\ pair' = [pair EXCEPT ![x] = p]
  BY <1>1 DEF AddsTo, MapAt
<1>3. Items(s) /\ x \notin In(s) /\ In(s) \subseteq Pairs
  <2>1. Items(s)
    BY StandsItems DEF MapAt
  <2> QED
    BY <2>1 DEF MapAt
<1>4. (\A y \in In(s) : pair'[y] = pair[y]) /\ pair'[x] = p
  BY <1>2, <1>3
<1>5. PICK p2 \in [Pairs -> NewPairs] : p2 = pair'
  BY <1>2
<1>6. PICK p1 \in [Pairs -> NewPairs] : p1 = pair
  BY <1>2
<1>7. PICK g, r, k : AddedTo(g, r, t, s, x, k, ok)
  BY <1>1 DEF AddsTo
<1>8. \/ Abstract!ListAdd(View(p1, s), View(p2, t), p2[x])
      \/ View(p2, t) = View(p1, s)
  <2>1. \A y \in In(s) : p2[y] = p1[y]
    BY <1>4, <1>5, <1>6
  <2> QED
    BY <1>3, <1>7, <2>1, ViewAdded
<1> QED
  BY <1>4, <1>5, <1>6, <1>8 DEF ListStepOrNot, Abstract!ListStep

LEMMA SetImplements ==
  ASSUME NEW s, MapAt(hash, s, pair, live, unadded), NEW p \in NewPairs, NEW ok \in BOOLEAN,
         NEW t, SetsIn(s, t, p, ok)
  PROVE  ListStepOrNot(View(pair, s), View(pair', t))
<1>1. PICK x \in Pairs \ live : x = Fresh
  BY DEF SetsIn
<1>2. PICK p1 \in [Pairs -> NewPairs] : p1 = pair
  BY DEF MapAt
<1>3. PICK p2 \in [Pairs -> NewPairs] : p2 = pair'
  BY DEF MapAt, SetsIn
<1>4. Items(s) /\ In(s) = live \ unadded /\ In(s) \subseteq Pairs
  <2>1. Items(s)
    BY StandsItems DEF MapAt
  <2> QED
    BY <2>1 DEF MapAt
<1>5. \A z \in In(t) : p2[z] = IF z = x THEN p ELSE p1[z]
  BY <1>1, <1>2, <1>3 DEF SetsIn
<1>6. PICK g, u, y, r, k : /\ Spared(hash, g, s, u, y, Lower[p.name], Key)
                           /\ AddedTo(g, r, t, u, x, k, ok)
                           /\ In(u) = In(s) \ {y} /\ In(u) \subseteq In(t)
  BY <1>1 DEF SetsIn
<1>7. Items(u) /\ x \notin In(u)
  <2>1. Items(u)
    BY <1>4, <1>6, OmitFacts DEF Spared
  <2> QED
    BY <1>4, <1>6, <2>1
<1>8. \A z \in In(u) : p2[z] = p1[z]
  BY <1>5, <1>6, <1>7
<1>9. \/ Abstract!ListAdd(View(p1, u), View(p2, t), p2[x]) /\ x \in In(t)
      \/ View(p2, t) = View(p1, u)
  BY <1>6, <1>7, <1>8, ViewAdded
<1>10. x \in In(t) => p2[x] = p
  BY <1>5
<1>11. PICK v : v = View(p1, s)
  OBVIOUS
<1>12. PICK w : w = View(p2, t)
  OBVIOUS
<1>13. Abstract!ListAdd(View(p1, u), w, p) \/ w = View(p1, u)
  BY <1>9, <1>10, <1>12
<1>14. p.name \in Names
  BY StrMapAssumption
<1>15. \A z \in Pairs : Key[z] = Lower[p1[z].name]
  BY <1>2, KeysOf DEF Key
<1>16. CASE u = s /\ \A z \in In(s) : Key[z] # Lower[p.name]
  <2>1. Abstract!At(v, p.name) = {}
    <3>1. DOMAIN v = 1..Len(s) /\ \A i \in 1..Len(s) : v[i] = p1[s[i]]
      BY <1>4, <1>11, ViewSeq
    <3>2. \A i \in 1..Len(s) : s[i] \in In(s)
      BY DEF In
    <3>3. \A i \in 1..Len(s) : Lower[p1[s[i]].name] # Lower[p.name]
      BY <1>4, <1>15, <1>16, <3>2
    <3> QED
      BY <3>1, <3>3 DEF Abstract!At
  <2>2. Abstract!ListAdd(v, w, p) => Abstract!ListSet(v, w, p)
    BY <2>1 DEF Abstract!ListSet
  <2> QED
    BY <1>2, <1>3, <1>11, <1>12, <1>13, <1>16, <2>2 DEF ListStepOrNot, Abstract!ListStep
<1>17. CASE \E i \in 1..Len(s) : y = s[i] /\ u = Omit(s, i) /\ Key[y] = Lower[p.name]
  <2>1. PICK i \in 1..Len(s) : y = s[i] /\ u = Omit(s, i) /\ Key[y] = Lower[p.name]
    BY <1>17
  <2>2. Lower[p1[s[i]].name] = Lower[p.name]
    BY <1>4, <1>15, <2>1, ItemsFacts
  <2>3. View(p1, u) = Abstract!Without(v, i) /\ i \in Abstract!At(v, p.name)
    BY <1>4, <1>11, <2>1, <2>2, ViewOmit
  <2>4. CASE Abstract!ListAdd(View(p1, u), w, p)
    <3>1. Abstract!ListSet(v, w, p)
      BY <2>3, <2>4 DEF Abstract!ListSet
    <3> QED
      BY <1>2, <1>3, <1>11, <1>12, <3>1 DEF ListStepOrNot, Abstract!ListStep
  <2>5. CASE w = View(p1, u)
    <3>1. Abstract!ListRemove(v, w, p.name)
      BY <2>3, <2>5 DEF Abstract!ListRemove
    <3> QED
      BY <1>2, <1>3, <1>11, <1>12, <1>14, <3>1 DEF ListStepOrNot, Abstract!ListStep
  <2> QED
    BY <1>13, <2>4, <2>5
<1> QED
  BY <1>6, <1>16, <1>17 DEF Spared

LEMMA RemoveImplements ==
  ASSUME NEW s, MapAt(hash, s, pair, live, unadded), NEW n \in Names, NEW t, RemovesFrom(s, t, n)
  PROVE  ListStepOrNot(View(pair, s), View(pair', t))
<1>1. PICK p1 \in [Pairs -> NewPairs] : p1 = pair
  BY DEF MapAt
<1>2. PICK p2 \in [Pairs -> NewPairs] : p2 = pair'
  BY DEF MapAt, RemovesFrom
<1>3. Items(s)
  BY StandsItems DEF MapAt
<1>4. PICK i \in 1..Len(s) : t = Omit(s, i) /\ Lower[p1[s[i]].name] = Lower[n]
  BY <1>1 DEF RemovesFrom
<1>5. Items(t)
  BY <1>3, <1>4, OmitFacts
<1>6. \A x \in In(t) : p2[x] = p1[x]
  BY <1>1, <1>2 DEF RemovesFrom
<1>7. View(p2, t) = View(p1, t)
  BY <1>5, <1>6, ViewSame
<1>8. View(p1, t) = Abstract!Without(View(p1, s), i) /\ i \in Abstract!At(View(p1, s), n)
  BY <1>3, <1>4, ViewOmit
<1>9. Abstract!ListRemove(View(p1, s), View(p2, t), n)
  BY <1>7, <1>8 DEF Abstract!ListRemove
<1> QED
  BY <1>1, <1>2, <1>9 DEF ListStepOrNot, Abstract!ListStep

LEMMA SortImplements ==
  ASSUME NEW s, MapAt(hash, s, pair, live, unadded), NEW t, SortsTo(s, t)
  PROVE  ListStepOrNot(View(pair, s), View(pair', t))
<1>1. PICK p1 \in [Pairs -> NewPairs] : p1 = pair /\ p1 = pair'
  BY DEF MapAt, SortsTo
<1>2. Items(s)
  BY StandsItems DEF MapAt
<1>3. PICK val : val = [x \in Pairs |-> p1[x].val]
  OBVIOUS
<1>4. Resorted(s, t, val)
  BY <1>1, <1>3 DEF SortsTo
<1>5. Items(t) /\ Len(t) = Len(s)
  BY <1>4 DEF Resorted
<1>6. PICK L \in Nat : L = Len(s)
  BY <1>2, ItemsFacts
<1>7. PICK f \in [1..L -> 1..L] : \A i, j \in 1..L :
        t[i] = s[f[i]] /\ (i < j => val[t[i]] < val[t[j]] \/ (val[t[i]] = val[t[j]] /\ f[i] < f[j]))
  BY <1>4, <1>6 DEF Resorted
<1>8. PICK v : v = View(p1, s) /\ Len(v) = L /\ \A i \in 1..L : v[i] = p1[s[i]]
  BY <1>2, <1>6, ViewSeq
<1>9. PICK w : w = View(p1, t) /\ Len(w) = L /\ DOMAIN w = 1..L /\ \A i \in 1..L : w[i] = p1[t[i]]
  <2>1. Len(View(p1, t)) = L /\ \A i \in 1..L : View(p1, t)[i] = p1[t[i]]
    BY <1>5, <1>6, ViewSeq
  <2>2. DOMAIN View(p1, t) = 1..L
    BY <1>5, <1>6, ViewSeq
  <2> QED
    BY <2>1, <2>2
<1>10. \A i \in 1..L : t[i] \in Pairs
  BY <1>5, <1>6, ItemsFacts
<1>11. \A i \in 1..L : w[i] = v[f[i]] /\ w[i].val = val[t[i]]
  BY <1>3, <1>7, <1>8, <1>9, <1>10
<1>12. \A i, j \in DOMAIN w :
         /\ w[i] = v[f[i]]
         /\ i < j => w[i].val < w[j].val \/ (w[i].val = w[j].val /\ f[i] < f[j])
  <2> SUFFICES ASSUME NEW i \in 1..L, NEW j \in 1..L
               PROVE  /\ w[i] = v[f[i]]
                      /\ i < j => w[i].val < w[j].val \/ (w[i].val = w[j].val /\ f[i] < f[j])
    BY <1>9
  <2>1. w[i] = v[f[i]] /\ w[i].val = val[t[i]] /\ w[j].val = val[t[j]]
    BY <1>11
  <2>2. i < j => val[t[i]] < val[t[j]] \/ (val[t[i]] = val[t[j]] /\ f[i] < f[j])
    BY <1>7
  <2> QED
    BY <2>1, <2>2
<1>13. Abstract!ListSort(v, w)
  BY <1>8, <1>9, <1>12 DEF Abstract!ListSort
<1> QED
  BY <1>1, <1>8, <1>9, <1>13 DEF ListStepOrNot, Abstract!ListStep

LEMMA StepImplements ==
  MapInv /\ [StrMapNext]_strmapVars => [Abstract!ListNext]_PairSeq
<1> SUFFICES ASSUME MapInv, [StrMapNext]_strmapVars PROVE [Abstract!ListNext]_PairSeq
  OBVIOUS
<1>1. PICK s : MapAt(hash, s, pair, live, unadded)
  BY DEF MapInv
<1>2. PairSeq = PairsIn(hash, pair) /\ PairSeq' = PairsIn(hash', pair')
  BY DEF PairSeq, PairsIn, sg_strmap_iter, sg_strmap_name, sg_strmap_val
<1>3. PairSeq = View(pair, s)
  BY <1>1, <1>2, PairsInIs DEF MapAt
<1>4. \A t : MapAt(hash', t, pair', live', unadded') => PairSeq' = View(pair', t)
  BY <1>2, PairsInIs DEF MapAt
<1>5. ASSUME NEW t, MapAt(hash', t, pair', live', unadded'), ListStepOrNot(View(pair, s), View(pair', t))
      PROVE  [Abstract!ListNext]_PairSeq
  <2>1. ListStepOrNot(PairSeq, PairSeq')
    BY <1>3, <1>4, <1>5
  <2> QED
    BY <2>1 DEF ListStepOrNot, Abstract!ListNext
<1>6. ASSUME NEW p \in NewPairs, NEW ok \in BOOLEAN, StrMapAdd(p, ok)
      PROVE  [Abstract!ListNext]_PairSeq
  <2>1. PICK t : AddsTo(s, t, p, ok)
    BY <1>1, <1>6, AddMap
  <2>2. ListStepOrNot(View(pair, s), View(pair', t))
    BY <1>1, <2>1, AddImplements
  <2> QED
    BY <1>5, <2>1, <2>2 DEF AddsTo
<1>7. ASSUME NEW p \in NewPairs, NEW ok \in BOOLEAN, StrMapSet(p, ok)
      PROVE  [Abstract!ListNext]_PairSeq
  <2>1. PICK t : SetsIn(s, t, p, ok)
    BY <1>1, <1>7, SetMap
  <2>2. ListStepOrNot(View(pair, s), View(pair', t))
    BY <1>1, <2>1, SetImplements
  <2> QED
    BY <1>5, <2>1, <2>2 DEF SetsIn
<1>8. ASSUME NEW n \in Names, StrMapRm(n) PROVE [Abstract!ListNext]_PairSeq
  <2>1. PICK t : RemovesFrom(s, t, n)
    BY <1>1, <1>8, RemoveMap
  <2>2. ListStepOrNot(View(pair, s), View(pair', t))
    BY <1>1, <2>1, RemoveImplements
  <2> QED
    BY <1>5, <2>1, <2>2 DEF RemovesFrom
<1>9. CASE StrMapSort
  <2>1. PICK t : SortsTo(s, t)
    BY <1>1, <1>9, SortMap
  <2>2. ListStepOrNot(View(pair, s), View(pair', t))
    BY <1>1, <2>1, SortImplements
  <2> QED
    BY <1>5, <2>1, <2>2 DEF SortsTo
<1>10. CASE StrMapCleanup
  <2>1. MapAt(hash', << >>, pair', live', unadded')
    BY <1>1, <1>10, CleanupMap
  <2>2. View(pair', << >>) = << >>
    BY DEF View
  <2>3. ListStepOrNot(View(pair, s), View(pair', << >>))
    BY <2>2 DEF ListStepOrNot, Abstract!ListStep, Abstract!ListCleanup
  <2> QED
    BY <1>5, <2>1, <2>3
<1>11. CASE UNCHANGED strmapVars
  <2>1. PairSeq' = PairSeq
    BY <1>2, <1>11 DEF strmapVars
  <2> QED
    BY <2>1
<1> QED
  BY <1>6, <1>7, <1>8, <1>9, <1>10, <1>11 DEF StrMapNext

(* A string map implements a list of pairs: adds go to its end, a set or a *)
(* removal takes one pair of the name, a sort keeps the order of equal     *)
(* values, also when the table has no memory for a pair.                   *)
THEOREM MapsImplementLists == StrMapSpec => ImplementsPairs
<1>1. StrMapInit => Abstract!ListInit
  <2> SUFFICES ASSUME StrMapInit PROVE PairSeq = << >>
    BY DEF Abstract!ListInit
  <2>1. PairSeq = PairsIn(hash, pair)
    BY DEF PairSeq, PairsIn, sg_strmap_iter, sg_strmap_name, sg_strmap_val
  <2>2. MapAt(hash, << >>, pair, live, unadded)
    BY InitMap
  <2>3. PairSeq = View(pair, << >>)
    BY <2>1, <2>2, PairsInIs DEF MapAt
  <2> QED
    BY <2>3 DEF View
<1> QED
  BY <1>1, StepImplements, MapStands, PTL DEF StrMapSpec, ImplementsPairs, Abstract!ListSpec
=============================================================================
