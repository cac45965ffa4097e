------------------------------- MODULE UtHash -------------------------------
(* The hash table of uthash.h: items in two doubly linked orders, the one  *)
(* of insertion and the one of each bucket.  A table is a record of the    *)
(* head, the table proper and the four links of every item; an item is a   *)
(* number, 0 is NULL.  key[x] is the key of item x, Hash[k] the value      *)
(* HASH_JEN gives a key: any function.                                     *)
EXTENDS Naturals, SequencesExt, UtList

CONSTANTS
  Hash,                      \* the hash value of every key
  HASH_INITIAL_NUM_BUCKETS,  \* 32 in the code
  HASH_BKT_CAPACITY_THRESH   \* 10 in the code

ASSUME HashAssumption ==
  /\ \A k \in DOMAIN Hash : Hash[k] \in Nat
  /\ HASH_INITIAL_NUM_BUCKETS \in Nat \ {0} /\ HASH_BKT_CAPACITY_THRESH \in Nat

Write(f, x, v) == IF x = Null THEN f ELSE [f EXCEPT ![x] = v]
Links(items) == [x \in items |-> Null]
UT_hash_bucket == [hh_head |-> Null, count |-> 0, expand_mult |-> 0]

NoTable == << >>
EmptyHash(items) ==
  [head |-> Null, tbl |-> NoTable, next |-> Links(items), prev |-> Links(items),
   hh_next |-> Links(items), hh_prev |-> Links(items)]

HASH_MAKE_TABLE(x) ==
  [buckets |-> [b \in 0..HASH_INITIAL_NUM_BUCKETS - 1 |-> UT_hash_bucket],
   num_items |-> 0, tail |-> x, ideal |-> 0, nonideal |-> 0, ineff |-> 0, noexpand |-> FALSE]

NumBuckets(h) == Cardinality(DOMAIN h.tbl.buckets)
HASH_TO_BKT(hashv, n) == hashv % n

InOrder(h) == LL_Nodes([head |-> h.head, next |-> h.next])
InBucket(h, b) == LL_Nodes([head |-> h.tbl.buckets[b].hh_head, next |-> h.hh_next])
HASH_COUNT(h) == IF h.head = Null THEN 0 ELSE h.tbl.num_items

-----------------------------------------------------------------------------
(* Item x becomes the first of bucket b.                                   *)
PushBucket(h, b, x) ==
  LET y == h.tbl.buckets[b].hh_head
  IN  [h EXCEPT !.tbl.buckets[b].hh_head = x, !.tbl.buckets[b].count = @ + 1,
                !.hh_next[x] = y, !.hh_prev = Write([@ EXCEPT ![x] = Null], y, x)]

(* HASH_EXPAND_BUCKETS moves one item; a bucket longer than ideal counts   *)
(* its excess and will be expanded later.                                  *)
Rehash(h, x, hashv) ==
  LET b == HASH_TO_BKT(hashv, NumBuckets(h))
      g == PushBucket(h, b, x)
      n == g.tbl.buckets[b].count
      long == n > h.tbl.ideal
  IN  [g EXCEPT
        !.tbl.nonideal = IF long THEN @ + 1 ELSE @,
        !.tbl.buckets[b].expand_mult = IF long /\ n > @ * h.tbl.ideal THEN @ + 1 ELSE @]

(* The chain s of an old bucket is moved from its first item to its last.  *)
Moved(h, s, key) ==
  LET after[k \in 0..Len(s)] ==
        IF k = 0 THEN h ELSE Rehash(after[k - 1], s[k], Hash[key[s[k]]])
  IN  after[Len(s)]

HASH_EXPAND_BUCKETS(h, key) ==
  LET n == NumBuckets(h)
      t == h.tbl
      ideal == t.num_items \div (2 * n) + IF t.num_items % (2 * n) # 0 THEN 1 ELSE 0
      bare == [h EXCEPT !.tbl.buckets = [b \in 0..2 * n - 1 |-> UT_hash_bucket],
                        !.tbl.ideal = ideal, !.tbl.nonideal = 0]
      moved[i \in 0..n] == IF i = 0 THEN bare ELSE Moved(moved[i - 1], InBucket(h, i - 1), key)
      g == moved[n]
      ineff == IF g.tbl.nonideal > t.num_items \div 2 THEN t.ineff + 1 ELSE 0
  IN  [g EXCEPT !.tbl.ineff = ineff, !.tbl.noexpand = @ \/ ineff > 1]

-----------------------------------------------------------------------------
HASH_DEL_IN_BKT(h, b, x) ==
  [h EXCEPT !.tbl.buckets[b].count = @ - 1,
            !.tbl.buckets[b].hh_head = IF @ = x THEN h.hh_next[x] ELSE @,
            !.hh_next = Write(@, h.hh_prev[x], h.hh_next[x]),
            !.hh_prev = Write(@, h.hh_next[x], h.hh_prev[x])]

(* HASH_DELETE_HH: the table goes with its last item.                      *)
HASH_DELETE(h, x, key) ==
  IF h.prev[x] = Null /\ h.next[x] = Null
  THEN [h EXCEPT !.head = Null, !.tbl = NoTable]
  ELSE LET g == [h EXCEPT !.tbl.tail = IF @ = x THEN h.prev[x] ELSE @,
                          !.head = IF h.prev[x] = Null THEN h.next[x] ELSE @,
                          !.next = Write(@, h.prev[x], h.next[x]),
                          !.prev = Write(@, h.next[x], h.prev[x]),
                          !.tbl.num_items = @ - 1]
       IN  HASH_DEL_IN_BKT(g, HASH_TO_BKT(Hash[key[x]], NumBuckets(h)), x)

-----------------------------------------------------------------------------
(* Item x is put in its bucket, which is expanded when it is full; without *)
(* memory for that x is taken out again.                                   *)
HASH_ADD_TO_BKT(h, x, key, mem) ==
  LET b == HASH_TO_BKT(Hash[key[x]], NumBuckets(h))
      g == PushBucket(h, b, x)
      full == g.tbl.buckets[b].count
                >= (g.tbl.buckets[b].expand_mult + 1) * HASH_BKT_CAPACITY_THRESH
      expand == full /\ ~g.tbl.noexpand
  IN  [hash |-> IF ~expand THEN g
                ELSE IF mem THEN HASH_EXPAND_BUCKETS(g, key) ELSE HASH_DEL_IN_BKT(g, b, x),
       oomed |-> expand /\ ~mem]

(* The bucket counts x once more, for HASH_DELETE to take it off.          *)
(* Fault: it does not.                                                     *)
HASH_ROLLBACK_BKT_not(h, x, key) == [h EXCEPT !.hh_next[x] = Null, !.hh_prev[x] = Null]
HASH_ROLLBACK_BKT(h, x, key) ==
  [h EXCEPT !.hh_next[x] = Null, !.hh_prev[x] = Null,
            !.tbl.buckets[HASH_TO_BKT(Hash[key[x]], NumBuckets(h))].count = @ + 1]

HASH_APPEND_LIST(h, x) ==
  [h EXCEPT !.next = [@ EXCEPT ![x] = Null, ![h.tbl.tail] = x],
            !.prev[x] = h.tbl.tail, !.tbl.tail = x]

HASH_ADD_TO_TABLE(h, x, key, mem) ==
  LET r == HASH_ADD_TO_BKT([h EXCEPT !.tbl.num_items = @ + 1], x, key, mem)
  IN  IF r.oomed THEN HASH_DELETE(HASH_ROLLBACK_BKT(r.hash, x, key), x, key) ELSE r.hash

(* mem says whether the table gets the memory it needs: without it x is    *)
(* not added.                                                              *)
HASH_ADD(h, x, key, mem) ==
  LET g == IF h.head = Null
           THEN [h EXCEPT !.next[x] = Null, !.prev[x] = Null,
                          !.tbl = HASH_MAKE_TABLE(x), !.head = x]
           ELSE HASH_APPEND_LIST(h, x)
  IN  IF h.head = Null /\ ~mem THEN h ELSE HASH_ADD_TO_TABLE(g, x, key, mem)

-----------------------------------------------------------------------------
(* HASH_FIND_IN_BKT: the first of the bucket with this key.                *)
HASH_FIND_IN_BKT(h, b, k, key) ==
  LET s == InBucket(h, b)
      hits == {i \in DOMAIN s : key[s[i]] = k}
  IN  IF hits = {} THEN Null ELSE s[CHOOSE i \in hits : \A j \in hits : i <= j]

HASH_FIND(h, k, key) ==
  IF h.head = Null THEN Null
  ELSE HASH_FIND_IN_BKT(h, HASH_TO_BKT(Hash[k], NumBuckets(h)), k, key)

(* Fault: the item that is there stays.                                    *)
HASH_REPLACE_keeps(h, x, key, mem) == [hash |-> HASH_ADD(h, x, key, mem), replaced |-> Null]
(* HASH_REPLACE takes out the item found under the key of x and adds x.    *)
HASH_REPLACE(h, x, key, mem) ==
  LET y == HASH_FIND(h, key[x], key)
  IN  [hash |-> HASH_ADD(IF y = Null THEN h ELSE HASH_DELETE(h, y, key), x, key, mem),
       replaced |-> y]

-----------------------------------------------------------------------------
(* HASH_SORT: leq has the pairs for which the comparison gives 0 or less.  *)
(* Fault: of two equal items the later one is taken first.                 *)
TakeLeft_strict(le, ge) == ~ge
TakeLeft(le, ge) == le

(* Two sorted runs are merged: took[k] of the first k items are from p.    *)
Merge(p, q, leq) ==
  LET Left(x, y) == TakeLeft(<<x, y>> \in leq, <<y, x>> \in leq)
      took[k \in 0..Len(p) + Len(q)] ==
        IF k = 0 THEN 0
        ELSE LET a == took[k - 1]
                 b == k - 1 - a
             IN  IF a < Len(p) /\ (b < Len(q) => Left(p[a + 1], q[b + 1])) THEN a + 1 ELSE a
  IN  [k \in 1..Len(p) + Len(q) |-> IF took[k] > took[k - 1] THEN p[took[k]] ELSE q[k - took[k]]]

(* The n items after the first o, or what there is of them.                *)
Run(s, o, n) == [k \in 1..(IF o + n < Len(s) THEN n ELSE Len(s) - o) |-> s[o + k]]

(* One pass over the list merges runs of n items two by two.               *)
MergeRuns(s, n, leq) ==
  [i \in 1..Len(s) |->
     LET o == (2 * n) * ((i - 1) \div (2 * n)) IN Merge(Run(s, o, n), Run(s, o + n, n), leq)[i - o]]

(* Runs of one item, of two, of four, until one merge was all.             *)
SortPass(r, leq) ==
  IF r.looping THEN [list |-> MergeRuns(r.list, r.insize, leq), insize |-> 2 * r.insize,
                     looping |-> Len(r.list) > 2 * r.insize]
               ELSE r
SortedSeq(s, leq) ==
  LET after[e \in 0..Len(s)] ==
        IF e = 0 THEN [list |-> s, insize |-> 1, looping |-> TRUE] ELSE SortPass(after[e - 1], leq)
  IN  after[Len(s)].list

HASH_SORT(h, leq) ==
  IF h.head = Null THEN h
  ELSE LET s == SortedSeq(InOrder(h), leq)
           at == [x \in {s[i] : i \in DOMAIN s} |-> CHOOSE i \in DOMAIN s : s[i] = x]
       IN  [h EXCEPT !.head = s[1], !.tbl.tail = s[Len(s)],
              !.next = [x \in DOMAIN @ |-> IF x \notin DOMAIN at THEN @[x]
                                           ELSE IF at[x] = Len(s) THEN Null ELSE s[at[x] + 1]],
              !.prev = [x \in DOMAIN @ |-> IF x \notin DOMAIN at THEN @[x]
                                           ELSE IF at[x] = 1 THEN Null ELSE s[at[x] - 1]]]

-----------------------------------------------------------------------------
LinkedBack(s, back) ==
  \A i \in DOMAIN s : back[s[i]] = IF i = 1 THEN Null ELSE s[i - 1]

(* HASH_FSCK, the check of a debugging build, and two things it leaves     *)
(* out: the tail is the last item, and every item is in its bucket.        *)
HASH_FSCK(h, key) ==
  h.head # Null =>
    LET s == InOrder(h) IN
    /\ LinkedBack(s, h.prev) /\ Len(s) = h.tbl.num_items /\ h.tbl.tail = s[Len(s)]
    /\ \A b \in DOMAIN h.tbl.buckets :
         LET c == InBucket(h, b) IN
         /\ LinkedBack(c, h.hh_prev) /\ h.tbl.buckets[b].count = Len(c)
         /\ {c[i] : i \in DOMAIN c} = {s[i] : i \in {i \in DOMAIN s : HASH_TO_BKT(Hash[key[s[i]]], NumBuckets(h)) = b}}
=============================================================================
