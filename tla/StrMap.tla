------------------------------- MODULE StrMap -------------------------------
(* sg_strmap.c: string maps over uthash.h, which headers, cookies, the     *)
(* query, form fields and path variables are given in.  A pair keeps its   *)
(* name, its value and a key: the name in lower case, which Utils models   *)
(* (sg__toasciilower).  Add admits a name that is there already.           *)
EXTENDS Integers, UtHash

CONSTANTS
  Pairs,      \* the addresses of pairs: numbers from 1
  Names,      \* the names of pairs
  NewPairs,   \* the pairs of a name and a value a program may add
  Lower,      \* the key of every name
  MaxBuckets  \* bound: a larger table takes no more pairs

ASSUME StrMapAssumption ==
  /\ Pairs \subseteq Nat \ {0} /\ IsFiniteSet(Pairs) /\ MaxBuckets \in Nat
  /\ NewPairs # {} /\ NewPairs \subseteq [name : Names, val : Int]
  /\ Lower \in [Names -> DOMAIN Hash]

VARIABLES hash,  \* the table
          pair,  \* the name and value at every address
          live,  \* the pairs that are allocated
          unadded \* those of them that could not be put in the table

strmapVars == <<hash, pair, live, unadded>>

KeyOf(p) == [x \in Pairs |-> Lower[p[x].name]]
Key == KeyOf(pair)
NoPair == CHOOSE p \in NewPairs : TRUE

(* The smallest address that is free.                                      *)
Fresh == CHOOSE x \in Pairs \ live : \A y \in Pairs \ live : x <= y

Small == hash.head # Null => NumBuckets(hash) <= MaxBuckets

sg_strmap_find(n) == HASH_FIND(hash, Lower[n], Key)
sg_strmap_name(x) == pair[x].name
sg_strmap_val(x) == pair[x].val
sg_strmap_get(n) == sg_strmap_val(sg_strmap_find(n))
sg_strmap_iter == InOrder(hash)
sg_strmap_next(x) == IF x = Null THEN Null ELSE hash.next[x]
sg_strmap_count == HASH_COUNT(hash)

-----------------------------------------------------------------------------
StrMapInit == hash = EmptyHash(Pairs) /\ pair = [x \in Pairs |-> NoPair] /\ live = {} /\ unadded = {}

(* The table may have no memory for the new pair, which the calls do not   *)
(* notice: the pair is lost.  That happens once in a behaviour.             *)
Memory(mem) == live # Pairs /\ Small /\ (mem \/ unadded = {})
Unadded(x, h) == unadded \cup ({x} \ ToSet(InOrder(h)))

StrMapAdd(p, mem) ==
  /\ Memory(mem)
  /\ pair' = [pair EXCEPT ![Fresh] = p]
  /\ live' = live \cup {Fresh}
  /\ hash' = HASH_ADD(hash, Fresh, Key', mem)
  /\ unadded' = Unadded(Fresh, hash')

(* What a freed pair held is forgotten.                                    *)
Freed(p, xs) == [x \in Pairs |-> IF x \in xs THEN NoPair ELSE p[x]]
FreedLinks(h, xs) ==
  LET clean(f) == [x \in Pairs |-> IF x \in xs THEN Null ELSE f[x]]
  IN  [h EXCEPT !.next = clean(@), !.prev = clean(@), !.hh_next = clean(@), !.hh_prev = clean(@)]

FreeReplaced(s, y) == s \ {y}

StrMapSet(p, mem) ==
  /\ Memory(mem)
  /\ LET new == [pair EXCEPT ![Fresh] = p]
         r == HASH_REPLACE(hash, Fresh, KeyOf(new), mem)
     IN  /\ hash' = FreedLinks(r.hash, {r.replaced})
         /\ pair' = Freed(new, {r.replaced})
         /\ live' = FreeReplaced(live \cup {Fresh}, r.replaced)
         /\ unadded' = Unadded(Fresh, r.hash)

StrMapRm(n) ==
  LET x == sg_strmap_find(n) IN
  /\ x # Null
  /\ hash' = FreedLinks(HASH_DELETE(hash, x, Key), {x})
  /\ pair' = Freed(pair, {x}) /\ live' = live \ {x} /\ UNCHANGED unadded

(* sg_strmap_sort with a callback that compares the values.                *)
StrMapSort ==
  /\ hash' = HASH_SORT(hash, {e \in Pairs \X Pairs : pair[e[1]].val <= pair[e[2]].val})
  /\ UNCHANGED <<pair, live, unadded>>

(* HASH_ITER has read the next pair when it deletes one.                   *)
Emptied(h, s) ==
  LET after[k \in 0..Len(s)] == IF k = 0 THEN h ELSE HASH_DELETE(after[k - 1], s[k], Key)
  IN  after[Len(s)]

StrMapCleanup ==
  LET s == InOrder(hash) IN
  /\ hash' = FreedLinks(Emptied(hash, s), ToSet(s))
  /\ pair' = Freed(pair, ToSet(s)) /\ live' = live \ ToSet(s) /\ UNCHANGED unadded

StrMapNext ==
  \/ \E p \in NewPairs, mem \in BOOLEAN : StrMapAdd(p, mem) \/ StrMapSet(p, mem)
  \/ \E n \in Names : StrMapRm(n)
  \/ StrMapSort \/ StrMapCleanup

StrMapSpec == StrMapInit /\ [][StrMapNext]_strmapVars

-----------------------------------------------------------------------------
(* The table stays as HASH_FSCK of a debugging build wants it: the links   *)
(* of both orders, the counts and the tail agree, and every pair is in the *)
(* bucket of its key, also after buckets were expanded (uthash.h:519).     *)
HashIntact == HASH_FSCK(hash, Key)

(* The pairs of the table are those that are allocated, except the one     *)
(* there was no memory for: none is freed while it is there, none is lost, *)
(* and each is followed by one that is there (sg_strmap.c:97, 142, 169).   *)
PairsLive ==
  LET s == ToSet(sg_strmap_iter) IN
  /\ s = live \ unadded /\ sg_strmap_count = Cardinality(s)
  /\ \A x \in s : sg_strmap_next(x) \in s \cup {Null}

(* A name is found, whatever its case, exactly when a pair has it; the     *)
(* value is one of those it was given (sg_strmap.c:110).                   *)
FoundIfThere ==
  \A n \in Names :
    LET with == {x \in live \ unadded : Key[x] = Lower[n]}
    IN  IF with = {} THEN sg_strmap_find(n) = Null ELSE sg_strmap_find(n) \in with
              /\ sg_strmap_get(n) \in {sg_strmap_val(x) : x \in with}

(* A map finds what is in it: the table, its buckets and its order are     *)
(* whole through expansions, their rollback, deletions and sorts, and hold *)
(* live pairs only (uthash.h:325, 450, 836, 892).                          *)
TableIntact == HashIntact /\ PairsLive /\ FoundIfThere

(* After a set the name has the value that was set, whatever duplicates of *)
(* the name add had left in its bucket (sg_strmap.c:97, uthash.h:325).     *)
(* Left out are a set without memory for the table, which succeeds and may *)
(* lose the name, and one that expands the table: the order of a bucket is *)
(* then reversed, and a duplicate that was left is found (uthash.h:836).   *)
SetExpands ==
  /\ hash.head # Null /\ NumBuckets(hash') # NumBuckets(hash)
  /\ Cardinality({x \in live \ unadded : Key[x] = Key'[Fresh]}) > 1
SetIsFound ==
  [][live' \ live # {} =>
       \A p \in {pair'[Fresh]} : StrMapSet(p, TRUE) /\ ~SetExpands =>
           HASH_FIND(hash', Lower[p.name], Key') = Fresh]_strmapVars

-----------------------------------------------------------------------------
(* What a map promises: the pairs in the order they were added.            *)
PairSeq ==
  LET s == sg_strmap_iter
  IN  << >> \o [i \in DOMAIN s |-> [name |-> sg_strmap_name(s[i]), val |-> sg_strmap_val(s[i])]]
Abstract == INSTANCE PairList WITH pairs <- PairSeq

(* A map implements a list of pairs.                                       *)
ImplementsPairs == Abstract!ListSpec
=============================================================================
