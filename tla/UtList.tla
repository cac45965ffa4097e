------------------------------- MODULE UtList -------------------------------
(* Singly linked lists of utlist.h: a head and the next pointer of every   *)
(* node.                                                                   *)
EXTENDS Naturals, Sequences, FiniteSets

Null == 0

(* LL_FOREACH: el is the node that the loop has got to after k steps.      *)
After(l, x) == IF x = Null THEN Null ELSE l.next[x]

LL_Nodes(l) ==
  LET size  == Cardinality(DOMAIN l.next)
      el[k \in 0..size] == IF k = 0 THEN l.head ELSE After(l, el[k - 1])
      count == Cardinality({k \in 0..size - 1 : el[k] # Null})
  IN  [k \in 1..count |-> el[k - 1]]

LL_COUNT(l) == Len(LL_Nodes(l))

LL_APPEND(l, x) ==
  LET s == LL_Nodes(l)
      n == [l.next EXCEPT ![x] = Null]
  IN  IF s = << >> THEN [head |-> x, next |-> n]
                   ELSE [head |-> l.head, next |-> [n EXCEPT ![s[Len(s)]] = x]]

LL_DELETE(l, x) ==
  IF l.head = x THEN [l EXCEPT !.head = l.next[x]]
  ELSE LET s == LL_Nodes(l)
           before == {i \in 1..Len(s) - 1 : s[i + 1] = x}
       IN  IF before = {} THEN l
           ELSE [l EXCEPT !.next[s[CHOOSE i \in before : TRUE]] = l.next[x]]
=============================================================================
