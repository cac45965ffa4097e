------------------------------ MODULE PairList ------------------------------
(* What a string map promises: a list of pairs in the order in which they  *)
(* were added, where a name may be there more than once and names that     *)
(* differ in case are the same.  Setting or removing a name takes one of   *)
(* its pairs, sorting keeps the order of equal values.                     *)
EXTENDS Naturals, Sequences

CONSTANTS Names, NewPairs, Lower

VARIABLE pairs

(* The steps are relations between the list p before and the list q after. *)
At(p, n) == {k \in DOMAIN p : Lower[p[k].name] = Lower[n]}
Without(p, k) == [i \in 1..Len(p) - 1 |-> IF i < k THEN p[i] ELSE p[i + 1]]

ListAdd(p, q, e) == q = Append(p, e)
ListSet(p, q, e) ==
  IF At(p, e.name) = {} THEN ListAdd(p, q, e)
  ELSE \E k \in At(p, e.name) : ListAdd(Without(p, k), q, e)
ListRemove(p, q, n) == \E k \in At(p, n) : q = Without(p, k)

(* f says where in p a pair of q was: pairs of one value stay in order.    *)
ListSort(p, q) ==
  /\ Len(q) = Len(p)
  /\ \E f \in [1..Len(q) -> 1..Len(q)] :
       \A i, j \in DOMAIN q :
         /\ q[i] = p[f[i]]
         /\ i < j => q[i].val < q[j].val \/ (q[i].val = q[j].val /\ f[i] < f[j])
ListCleanup(q) == q = << >>

ListStep(p, q) ==
  \/ ListCleanup(q) \/ ListSort(p, q)
  \/ \E e \in NewPairs : ListAdd(p, q, e) \/ ListSet(p, q, e)
  \/ \E n \in Names : ListRemove(p, q, n)

ListInit == pairs = << >>
ListNext == \E p \in {pairs}, q \in {pairs'} : ListStep(p, q)
ListSpec == ListInit /\ [][ListNext]_pairs
=============================================================================
