---------------------------- MODULE Entrypoints ----------------------------
(* sg_entrypoints.c: an array of entry-points in the order of their names, *)
(* kept by qsort and searched by bsearch.  A name is a number: its rank    *)
(* among all names by strcmp.  NameOf is sg_extract_entrypoint, which      *)
(* Utils models.  Every entry owns a copy of its name.                     *)
EXTENDS Integers, Sequences

CONSTANTS Paths, NameOf, Datas, Copies

EntryNames == {NameOf[p] : p \in Paths}
ASSUME EntryAssumption == NameOf \in [Paths -> Int]

VARIABLES list,   \* the entries
          copies, \* the copies of names that are allocated
          mem     \* "ok", "freed" with the handle, "lost": list is NULL and count is not 0

entryVars == <<list, copies, mem>>

Entry == [name : EntryNames, data : Datas, copy : Copies]

-----------------------------------------------------------------------------
Sorted(l) == \A i, j \in DOMAIN l : i < j => l[i].name < l[j].name
HasName(l, n) == \E i \in DOMAIN l : l[i].name = n

(* The C library: bsearch on an array in order; on another it may miss.    *)
Hits(l, n) == {k \in DOMAIN l : l[k].name = n}
MayMiss(l, n) == HasName(l, n) => ~Sorted(l)

(* The entry sg_entrypoints_find gives for a path, if any.                 *)
sg_entrypoints_find(p, k) == k \in Hits(list, NameOf[p])

Inserted(l, k, e) ==
  [i \in 1..Len(l) + 1 |-> IF i < k THEN l[i] ELSE IF i = k THEN e ELSE l[i - 1]]
(* Fault: one entry is moved instead of all that follow.                   *)
Removed_one(l, k) == [i \in 1..Len(l) - 1 |-> IF i = k THEN l[i + 1] ELSE l[i]]
Removed(l, k) == [i \in 1..Len(l) - 1 |-> IF i < k THEN l[i] ELSE l[i + 1]]

(* The C library: qsort puts the entry that was appended to its place.     *)
Place(l, e, k) ==
  /\ \A i \in DOMAIN l : i < k => l[i].name <= e.name
  /\ \A i \in DOMAIN l : i >= k => e.name < l[i].name

-----------------------------------------------------------------------------
EntryInit == list = << >> /\ copies = {} /\ mem = "ok"

(* sg_entrypoints_add of a name that is not found.                         *)
EntryAdd(p, d) ==
  /\ mem = "ok" /\ MayMiss(list, NameOf[p])
  /\ \E c \in Copies \ copies, k \in 1..Len(list) + 1 :
       LET e == [name |-> NameOf[p], data |-> d, copy |-> c] IN
       /\ Place(list, e, k)
       /\ list' = Inserted(list, k, e)
       /\ copies' = copies \cup {c}
  /\ UNCHANGED mem

(* The array cannot grow: the whole handle is freed, which the caller      *)
(* still holds.                                                            *)
EntryAddNoMem(p) ==
  /\ mem = "ok" /\ MayMiss(list, NameOf[p])
  /\ mem' = "freed" /\ list' = << >>
  /\ copies' = copies \ {list[i].copy : i \in DOMAIN list}

(* Fault: the copy of the name stays.                                      *)
FreeCopy_none(k) == copies
FreeCopy(k) == copies \ {list[k].copy}

(* sg_entrypoints_rm, which looks at one entry after the other.  When the  *)
(* smaller array cannot be allocated the list is dropped.                  *)
EntryRemove(p) ==
  /\ mem = "ok"
  /\ \E k \in DOMAIN list :
       /\ list[k].name = NameOf[p]
       /\ \A i \in 1..k - 1 : list[i].name # NameOf[p]
       /\ copies' = FreeCopy(k)
       /\ \/ list' = Removed(list, k) /\ UNCHANGED mem
          \/ list' = << >> /\ mem' = "lost" /\ Len(list) > 1

(* sg_entrypoint_set_user_data of an entry found by sg_entrypoints_find.   *)
EntrySet(p, d) ==
  /\ mem = "ok"
  /\ \E k \in DOMAIN list : sg_entrypoints_find(p, k) /\ list' = [list EXCEPT ![k].data = d]
  /\ UNCHANGED <<copies, mem>>

EntryClear ==
  /\ mem = "ok"
  /\ list' = << >> /\ copies' = copies \ {list[i].copy : i \in DOMAIN list}
  /\ UNCHANGED mem

EntryDrop == copies \ {list[i].copy : i \in DOMAIN list}

EntryFree ==
  /\ mem = "ok"
  /\ mem' = "freed" /\ list' = << >> /\ copies' = EntryDrop

(* The entries cb is called with: up to the one for which it returns an    *)
(* error, or all of them.                                                  *)
sg_entrypoints_iter(stop) == IF stop \in DOMAIN list THEN SubSeq(list, 1, stop) ELSE list

sg_entrypoint_name(e) == e.name
sg_entrypoint_user_data(e) == e.data

EntryNext ==
  \/ \E p \in Paths, d \in Datas : EntryAdd(p, d) \/ EntrySet(p, d)
  \/ \E p \in Paths : EntryAddNoMem(p) \/ EntryRemove(p)
  \/ EntryClear \/ EntryFree

EntrySpec == EntryInit /\ [][EntryNext]_entryVars

-----------------------------------------------------------------------------
EntryTypeOK ==
  /\ list \in Seq(Entry) /\ copies \subseteq Copies /\ mem \in {"ok", "freed", "lost"}

(* The array stays in the order of the names, without duplicates, which    *)
(* bsearch depends on (sg_entrypoints.c:38, 50, 78).                       *)
EntriesSorted == Sorted(list)

(* Every copy of a name is owned by one entry, and all are freed with the  *)
(* handle; only a failed realloc in sg_entrypoints_rm loses them           *)
(* (sg_entrypoints.c:62, 67, 107, 141).                                    *)
NamesOwned ==
  /\ mem # "lost" => copies = {list[i].copy : i \in DOMAIN list}
  /\ \A i, j \in DOMAIN list : list[i].copy = list[j].copy => i = j

(* The entries, as sg_entrypoints_iter tells them, are a map.              *)
MapOf(l) ==
  [n \in {sg_entrypoint_name(l[i]) : i \in DOMAIN l} |->
     sg_entrypoint_user_data(l[CHOOSE i \in DOMAIN l : sg_entrypoint_name(l[i]) = n])]
Map == INSTANCE EntryMap WITH map <- MapOf(sg_entrypoints_iter(0)), up <- mem = "ok"

(* The entry-points implement a map: an entry that was added is found with *)
(* its data until it is removed, and never added twice.                    *)
ImplementsMap == Map!MapSpec
=============================================================================
