---------------------------- MODULE Router_proofs ----------------------------
(***************************************************************************)
(* Proofs about the routes and the router, for any patterns, any number of *)
(* routes and any threads, and about the match of a route.                 *)
(***************************************************************************)
EXTENDS Router, RouteMatch, FiniteSetTheorems, Induction_proofs, TLAPS

-----------------------------------------------------------------------------
(* The lists: a list is linked as a sequence of routes in which a later    *)
(* one has a greater number.                                               *)
Lists == [head : RouteIds \cup {Null}, next : [RouteIds -> RouteIds \cup {Null}]]
Node(s, k) == IF k < Len(s) THEN s[k + 1] ELSE Null
Ascending(s) == \A i, j \in 1..Len(s) : i < j => s[i] < s[j]
Chain(l, s) ==
  /\ l \in Lists /\ s \in Seq(RouteIds) /\ Ascending(s)
  /\ l.head = Node(s, 0) /\ \A i \in 1..Len(s) : l.next[s[i]] = Node(s, i)

LEMMA RouteNumbers ==
  /\ MaxRoutes \in Nat /\ RouteIds \subseteq Nat
  /\ Null \notin RouteIds /\ Null \in Nat /\ \A r \in RouteIds : r # 0
  BY RoutesAssumption DEF RouteIds, Null

(* There are no more routes in a list than numbers.                        *)
LEMMA ChainLength ==
  ASSUME NEW s \in Seq(RouteIds), Ascending(s)
  PROVE  Len(s) \in 0..MaxRoutes
<1>1. MaxRoutes \in Nat /\ Len(s) \in Nat /\ \A i \in 1..Len(s) : s[i] \in 1..MaxRoutes
  BY RoutesAssumption DEF RouteIds
<1> DEFINE S == {n \in Nat : n \in 1..Len(s) => n <= s[n]}
<1>2. Nat \subseteq S
  <2>1. 0 \in S
    OBVIOUS
  <2>2. ASSUME NEW n \in Nat, n \in S PROVE n + 1 \in S
    <3> SUFFICES ASSUME n + 1 \in 1..Len(s) PROVE n + 1 <= s[n + 1]
      OBVIOUS
    <3>1. CASE n = 0
      BY <1>1, <3>1
    <3>2. CASE n # 0
      <4>1. n \in 1..Len(s) /\ n < n + 1
        BY <1>1, <3>2
      <4>2. n <= s[n] /\ s[n] < s[n + 1] /\ s[n] \in Nat /\ s[n + 1] \in Nat
        BY <1>1, <2>2, <4>1 DEF Ascending
      <4> QED
        BY <4>2
    <3> QED
      BY <3>1, <3>2
  <2> HIDE DEF S
  <2> QED
    BY <2>1, <2>2, InductionOnNat
<1>3. CASE Len(s) = 0
  BY <1>1, <1>3
<1>4. CASE Len(s) # 0
  <2>1. Len(s) \in 1..Len(s) /\ Len(s) \in S
    BY <1>1, <1>2, <1>4
  <2> QED
    BY <1>1, <2>1
<1> QED
  BY <1>3, <1>4

(* LL_FOREACH goes over the routes in the order of the links.              *)
LEMMA NodesOfChain ==
  ASSUME NEW l, NEW s, Chain(l, s)
  PROVE  LL_Nodes(l) = s
<1> DEFINE size == Cardinality(DOMAIN l.next)
           Walk(f) == [k \in 0..size |-> IF k = 0 THEN l.head ELSE After(l, f[k - 1])]
           el == CHOOSE f : f = Walk(f)
           count == Cardinality({k \in 0..size - 1 : el[k] # Null})
           chain == [k \in 0..size |-> Node(s, k)]
<1>1. /\ Len(s) \in 0..MaxRoutes /\ MaxRoutes \in Nat
      /\ \A i \in 1..Len(s) : s[i] \in RouteIds /\ s[i] # Null
  BY RoutesAssumption, ChainLength DEF Chain, RouteIds, Null
<1>2. size = MaxRoutes
  <2>1. DOMAIN l.next = 1..MaxRoutes
    BY DEF Chain, Lists, RouteIds
  <2>2. Cardinality(1..MaxRoutes) = IF 1 > MaxRoutes THEN 0 ELSE (MaxRoutes - 1) + 1
    BY RoutesAssumption, FS_Interval
  <2>3. Cardinality(1..MaxRoutes) = MaxRoutes
    BY RoutesAssumption, <2>2
  <2> QED
    BY <2>1, <2>3
<1>3. \A k \in 1..size : After(l, Node(s, k - 1)) = Node(s, k)
  <2> SUFFICES ASSUME NEW k \in 1..size PROVE After(l, Node(s, k - 1)) = Node(s, k)
    OBVIOUS
  <2>1. CASE k \in 1..Len(s)
    <3>1. Node(s, k - 1) = s[k] /\ s[k] # Null
      BY <1>1, <2>1 DEF Node
    <3> QED
      BY <2>1, <3>1 DEF After, Chain
  <2>2. CASE k \notin 1..Len(s)
    <3>1. Node(s, k - 1) = Null /\ Node(s, k) = Null
      BY <1>1, <1>2, <2>2 DEF Node
    <3> QED
      BY <3>1 DEF After
  <2> QED
    BY <2>1, <2>2
<1> HIDE DEF size
<1>4. chain = Walk(chain)
  <2>1. \A k \in 0..size : chain[k] = Walk(chain)[k]
    <3> SUFFICES ASSUME NEW k \in 0..size PROVE chain[k] = Walk(chain)[k]
      OBVIOUS
    <3>1. CASE k = 0
      BY <3>1 DEF Chain
    <3>2. CASE k # 0
      <4>1. k \in 1..size /\ k - 1 \in 0..size
        BY <1>1, <1>2, <3>2
      <4> QED
        BY <1>3, <3>2, <4>1
    <3> QED
      BY <3>1, <3>2
  <2> QED
    BY <2>1
<1>5. el = Walk(el)
  BY <1>4
<1>6. el[0] = l.head /\ \A k \in 1..size : el[k] = After(l, el[k - 1])
  <2> HIDE DEF el
  <2>1. \A k \in 0..size : Walk(el)[k] = IF k = 0 THEN l.head ELSE After(l, el[k - 1])
    OBVIOUS
  <2> HIDE DEF Walk
  <2> QED
    BY <1>1, <1>2, <1>5, <2>1
<1> HIDE DEF el
<1>7. \A k \in 0..size : el[k] = Node(s, k)
  <2> DEFINE S == {n \in Nat : n \in 0..size => el[n] = Node(s, n)}
  <2>1. 0 \in S
    BY <1>6 DEF Chain
  <2>2. ASSUME NEW n \in Nat, n \in S PROVE n + 1 \in S
    <3> SUFFICES ASSUME n + 1 \in 0..size PROVE el[n + 1] = Node(s, n + 1)
      OBVIOUS
    <3>1. n \in 0..size /\ n + 1 \in 1..size /\ (n + 1) - 1 = n
      BY <1>1, <1>2
    <3>2. el[n] = Node(s, n) /\ el[n + 1] = After(l, el[n])
      BY <1>6, <2>2, <3>1
    <3>3. After(l, Node(s, n)) = Node(s, n + 1)
      BY <1>3, <3>1
    <3> QED
      BY <3>2, <3>3
  <2> HIDE DEF S
  <2>3. Nat \subseteq S
    BY <2>1, <2>2, InductionOnNat
  <2> QED
    BY <2>3 DEF S
<1>8. count = Len(s)
  <2>1. {k \in 0..size - 1 : el[k] # Null} = 0..Len(s) - 1
    <3>1. \A k \in 0..size - 1 : el[k] # Null <=> k < Len(s)
      <4> SUFFICES ASSUME NEW k \in 0..size - 1 PROVE Node(s, k) # Null <=> k < Len(s)
        BY <1>1, <1>2, <1>7
      <4> QED
        BY <1>1, <1>2 DEF Node
    <3> QED
      BY <1>1, <1>2, <3>1
  <2>2. Cardinality(0..Len(s) - 1) = Len(s)
    <3> DEFINE b == Len(s) - 1
    <3>1. b \in Int /\ b + 1 = Len(s) /\ b + 1 >= 0
      BY <1>1
    <3> HIDE DEF b
    <3>2. Cardinality(0..b) = IF 0 > b THEN 0 ELSE b - 0 + 1
      BY <3>1, FS_Interval
    <3>3. Cardinality(0..b) = b + 1
      BY <3>1, <3>2
    <3> QED
      BY <3>1, <3>3 DEF b
  <2> QED
    BY <1>1, <2>1, <2>2
<1>9. LL_Nodes(l) = [k \in 1..count |-> el[k - 1]]
  BY DEF LL_Nodes, el, size
<1>10. \A k \in 1..Len(s) : el[k - 1] = s[k]
  <2> SUFFICES ASSUME NEW k \in 1..Len(s) PROVE el[k - 1] = s[k]
    OBVIOUS
  <2>1. k - 1 \in 0..size /\ k - 1 < Len(s) /\ (k - 1) + 1 = k
    BY <1>1, <1>2
  <2> QED
    BY <1>7, <2>1 DEF Node
<1> HIDE DEF count
<1>11. s = [k \in 1..Len(s) |-> s[k]]
  BY DEF Chain
<1> QED
  BY <1>8, <1>9, <1>10, <1>11

(* The routes of a list are those of its sequence.                         *)
InSeq(s) == {s[i] : i \in 1..Len(s)}

LEMMA NodesAre ==
  ASSUME NEW l, NEW s, Chain(l, s)
  PROVE  ToSet(LL_Nodes(l)) = InSeq(s) /\ InSeq(s) \subseteq RouteIds
<1>1. LL_Nodes(l) = s
  BY NodesOfChain
<1>2. s \in Seq(RouteIds) /\ DOMAIN s = 1..Len(s)
  BY DEF Chain
<1> QED
  BY <1>1, <1>2 DEF ToSet, InSeq

(* LL_APPEND of a route with a greater number than those of the list.      *)
LEMMA AppendChain ==
  ASSUME NEW l, NEW s, Chain(l, s), NEW x \in RouteIds, \A i \in 1..Len(s) : s[i] < x
  PROVE  Chain(LL_APPEND(l, x), Append(s, x))
<1> DEFINE t == Append(s, x)
           m == LL_APPEND(l, x)
           n == [l.next EXCEPT ![x] = Null]
<1>1. /\ s \in Seq(RouteIds) /\ Len(s) \in Nat /\ RouteIds \subseteq Nat
      /\ \A i \in 1..Len(s) : s[i] \in RouteIds /\ s[i] # x
  BY RouteNumbers DEF Chain
<1>2. /\ t \in Seq(RouteIds) /\ Len(t) = Len(s) + 1 /\ t[Len(s) + 1] = x
      /\ \A i \in 1..Len(s) : t[i] = s[i]
  BY <1>1
<1>3. l.next \in [RouteIds -> RouteIds \cup {Null}] /\ l.head \in RouteIds \cup {Null}
  BY DEF Chain, Lists
<1>4. n \in [RouteIds -> RouteIds \cup {Null}] /\ n[x] = Null
      /\ \A r \in RouteIds : r # x => n[r] = l.next[r]
  BY <1>3
<1>5. m = IF s = << >> THEN [head |-> x, next |-> n]
          ELSE [head |-> l.head, next |-> [n EXCEPT ![s[Len(s)]] = x]]
  BY NodesOfChain DEF LL_APPEND
<1>6. Ascending(t)
  <2> SUFFICES ASSUME NEW i \in 1..Len(t), NEW j \in 1..Len(t), i < j PROVE t[i] < t[j]
    BY DEF Ascending
  <2>1. CASE j \in 1..Len(s)
    <3>1. i \in 1..Len(s)
      BY <1>1, <2>1
    <3> QED
      BY <1>2, <2>1, <3>1 DEF Chain, Ascending
  <2>2. CASE j = Len(s) + 1
    <3>1. i \in 1..Len(s)
      BY <1>1, <2>2
    <3> QED
      BY <1>2, <2>2, <3>1
  <2> QED
    BY <1>1, <1>2, <2>1, <2>2
<1>7. CASE s = << >>
  <2>1. Len(s) = 0 /\ m = [head |-> x, next |-> n]
    BY <1>5, <1>7
  <2> HIDE DEF n, t, m
  <2>2. m \in Lists /\ m.head = x /\ m.next = n
    BY <2>1, <1>4 DEF Lists
  <2>3. Len(t) = 1 /\ t[1] = x
    BY <1>2, <2>1
  <2>4. m.head = Node(t, 0) /\ \A i \in 1..Len(t) : m.next[t[i]] = Node(t, i)
    BY <2>2, <2>3, <1>4 DEF Node
  <2> QED
    BY <1>2, <1>6, <2>2, <2>4 DEF Chain, t, m
<1>8. CASE s # << >>
  <2>1. Len(s) \in 1..Len(s)
    BY <1>1, <1>8
  <2>2. s[Len(s)] \in RouteIds /\ s[Len(s)] # x
    BY <1>1, <2>1
  <2> DEFINE n2 == [n EXCEPT ![s[Len(s)]] = x]
  <2>3. m = [head |-> l.head, next |-> n2]
    BY <1>5, <1>8
  <2> HIDE DEF n, t, m
  <2>4. /\ n2 \in [RouteIds -> RouteIds \cup {Null}] /\ n2[s[Len(s)]] = x
        /\ \A r \in RouteIds : r # s[Len(s)] => n2[r] = n[r]
    BY <1>4, <2>2
  <2> HIDE DEF n2
  <2>5. m \in Lists /\ m.head = l.head /\ m.next = n2
    BY <1>3, <2>3, <2>4 DEF Lists
  <2>6. m.head = Node(t, 0)
    BY <1>2, <2>1, <2>5 DEF Chain, Node
  <2>7. ASSUME NEW i \in 1..Len(t) PROVE n2[t[i]] = Node(t, i)
    <3>1. CASE i = Len(s) + 1
      <4>1. t[i] = x /\ Node(t, i) = Null
        BY <1>1, <1>2, <3>1 DEF Node
      <4> QED
        BY <4>1, <1>4, <2>2, <2>4
    <3>2. CASE i = Len(s)
      <4>1. t[i] = s[Len(s)] /\ Node(t, i) = x
        BY <1>1, <1>2, <2>1, <3>2 DEF Node
      <4> QED
        BY <4>1, <2>4
    <3>3. CASE i \in 1..Len(s) - 1
      <4>1. i \in 1..Len(s) /\ i + 1 \in 1..Len(s) /\ i < Len(s)
        BY <1>1, <3>3
      <4>2. t[i] = s[i] /\ s[i] < s[Len(s)] /\ s[i] \in RouteIds
        BY <1>1, <1>2, <2>1, <4>1 DEF Chain, Ascending
      <4>3. s[i] # s[Len(s)]
        <5>1. s[i] \in Nat /\ s[Len(s)] \in Nat
          BY <1>1, <4>2, <2>2
        <5> QED
          BY <5>1, <4>2
      <4>4. n2[t[i]] = l.next[s[i]]
        BY <1>1, <1>4, <2>4, <4>1, <4>2, <4>3
      <4>5. Node(t, i) = Node(s, i)
        BY <1>1, <1>2, <4>1 DEF Node
      <4> QED
        BY <4>1, <4>4, <4>5 DEF Chain
    <3> QED
      BY <1>1, <1>2, <3>1, <3>2, <3>3
  <2> QED
    BY <1>2, <1>6, <2>5, <2>6, <2>7 DEF Chain, t, m
<1> QED
  BY <1>7, <1>8

(* A sequence without its i-th.                                            *)
Without(s, i) == [j \in 1..Len(s) - 1 |-> IF j < i THEN s[j] ELSE s[j + 1]]

LEMMA WithoutFacts ==
  ASSUME NEW s \in Seq(RouteIds), Ascending(s), NEW i \in 1..Len(s)
  PROVE  /\ Without(s, i) \in Seq(RouteIds) /\ Len(Without(s, i)) = Len(s) - 1
         /\ Ascending(Without(s, i)) /\ InSeq(Without(s, i)) = InSeq(s) \ {s[i]}
<1> DEFINE t == Without(s, i)
<1>1. /\ Len(s) \in Nat \ {0} /\ RouteIds \subseteq Nat
      /\ \A j \in 1..Len(s) : s[j] \in RouteIds
      /\ \A j \in 1..Len(s) - 1 : j \in 1..Len(s) /\ j + 1 \in 1..Len(s)
  BY RouteNumbers
<1>2. \A j \in 1..Len(s) - 1 : t[j] = (IF j < i THEN s[j] ELSE s[j + 1]) /\ t[j] \in RouteIds
  BY <1>1 DEF Without
<1>3. t \in Seq(RouteIds) /\ Len(t) = Len(s) - 1
  <2>1. t \in [1..Len(s) - 1 -> RouteIds]
    BY <1>2 DEF Without
  <2> HIDE DEF t
  <2>2. Len(s) - 1 \in Nat
    BY <1>1
  <2> QED
    BY <2>1, <2>2
<1> HIDE DEF t
<1>4. Ascending(t)
  <2> SUFFICES ASSUME NEW j \in 1..Len(s) - 1, NEW k \in 1..Len(s) - 1, j < k PROVE t[j] < t[k]
    BY <1>3 DEF Ascending
  <2>1. /\ j \in 1..Len(s) /\ j + 1 \in 1..Len(s) /\ k \in 1..Len(s) /\ k + 1 \in 1..Len(s)
        /\ j < k + 1 /\ j + 1 < k + 1
    BY <1>1
  <2>2. s[j] < s[k] /\ s[j] < s[k + 1] /\ s[j + 1] < s[k + 1]
    BY <2>1 DEF Ascending
  <2>3. ~(k < i /\ ~(j < i))
    BY <1>1
  <2> QED
    BY <1>2, <2>2, <2>3
<1>5. InSeq(t) = InSeq(s) \ {s[i]}
  <2>0. \A j \in 1..Len(s) : s[j] \in InSeq(s) /\ s[j] \in Nat
    BY <1>1 DEF InSeq
  <2>1. ASSUME NEW j \in 1..Len(t) PROVE t[j] \in InSeq(s) /\ t[j] # s[i]
    <3>1. j \in 1..Len(s) - 1 /\ j \in 1..Len(s) /\ j + 1 \in 1..Len(s)
      BY <1>1, <1>3
    <3>2. CASE j < i
      <4>1. t[j] = s[j] /\ s[j] < s[i]
        BY <1>2, <3>1, <3>2 DEF Ascending
      <4> QED
        BY <2>0, <3>1, <4>1
    <3>3. CASE ~(j < i)
      <4>1. t[j] = s[j + 1] /\ i < j + 1
        BY <1>1, <1>2, <3>1, <3>3
      <4>2. s[i] < s[j + 1]
        BY <3>1, <4>1 DEF Ascending
      <4> QED
        BY <2>0, <3>1, <4>1, <4>2
    <3> QED
      BY <3>2, <3>3
  <2>2. ASSUME NEW j \in 1..Len(s), s[j] # s[i] PROVE s[j] \in InSeq(t)
    <3>1. CASE j < i
      <4>1. j \in 1..Len(s) - 1 /\ t[j] = s[j]
        BY <1>1, <1>2, <3>1
      <4> QED
        BY <1>3, <4>1 DEF InSeq
    <3>2. CASE i < j
      <4>1. j - 1 \in 1..Len(s) - 1 /\ ~(j - 1 < i) /\ (j - 1) + 1 = j
        BY <1>1, <3>2
      <4>2. t[j - 1] = s[j]
        BY <1>2, <4>1
      <4> QED
        BY <1>3, <4>1, <4>2 DEF InSeq
    <3> QED
      BY <1>1, <2>2, <3>1, <3>2
  <2> QED
    BY <2>1, <2>2 DEF InSeq
<1> QED
  BY <1>3, <1>4, <1>5 DEF t

(* LL_DELETE of a route takes it out of the sequence.                      *)
LEMMA DeleteChain ==
  ASSUME NEW l, NEW s, Chain(l, s), NEW i \in 1..Len(s)
  PROVE  Chain(LL_DELETE(l, s[i]), Without(s, i))
<1> DEFINE t == Without(s, i)
           m == LL_DELETE(l, s[i])
           before == {k \in 1..Len(s) - 1 : s[k + 1] = s[i]}
<1>1. /\ s \in Seq(RouteIds) /\ Ascending(s) /\ Len(s) \in Nat \ {0}
      /\ \A j \in 1..Len(s) : s[j] \in RouteIds /\ s[j] \in Nat /\ s[j] # Null
  <2>1. s \in Seq(RouteIds) /\ Ascending(s)
    BY DEF Chain
  <2>2. Len(s) \in Nat /\ Len(s) # 0 /\ \A j \in 1..Len(s) : s[j] \in RouteIds
    BY <2>1
  <2> QED
    BY <2>1, <2>2, RouteNumbers
<1>2. \A j, k \in 1..Len(s) : s[j] = s[k] => j = k
  <2> SUFFICES ASSUME NEW j \in 1..Len(s), NEW k \in 1..Len(s), j # k PROVE s[j] # s[k]
    OBVIOUS
  <2>1. j < k \/ k < j
    BY <1>1
  <2>2. s[j] < s[k] \/ s[k] < s[j]
    BY <1>1, <2>1 DEF Ascending
  <2> QED
    BY <1>1, <2>2
<1>3. t \in Seq(RouteIds) /\ Len(t) = Len(s) - 1 /\ Ascending(t)
  BY <1>1, WithoutFacts
<1>4. \A j \in 1..Len(s) - 1 : t[j] = IF j < i THEN s[j] ELSE s[j + 1]
  BY DEF Without
<1>5. /\ l.next \in [RouteIds -> RouteIds \cup {Null}] /\ l.head \in RouteIds \cup {Null}
      /\ l = [head |-> l.head, next |-> l.next]
      /\ l.head = s[1] /\ \A j \in 1..Len(s) : l.next[s[j]] = IF j < Len(s) THEN s[j + 1] ELSE Null
  BY <1>1 DEF Chain, Lists, Node
<1>6. LL_Nodes(l) = s
  BY NodesOfChain
<1> HIDE DEF t
<1>7. CASE i = 1
  <2>1. m = [l EXCEPT !.head = l.next[s[i]]]
    BY <1>5, <1>7 DEF LL_DELETE
  <2> HIDE DEF m
  <2>2. m \in Lists /\ m.head = l.next[s[1]] /\ m.next = l.next
    BY <1>1, <1>5, <1>7, <2>1 DEF Lists
  <2>3. \A j \in 1..Len(s) - 1 : t[j] = s[j + 1] /\ j + 1 \in 1..Len(s)
    BY <1>1, <1>4, <1>7
  <2>4. m.head = Node(t, 0)
    <3>1. CASE Len(s) = 1
      BY <1>3, <1>5, <2>2, <3>1 DEF Node
    <3>2. CASE Len(s) > 1
      <4>1. m.head = s[2] /\ t[1] = s[2] /\ 0 < Len(t)
        BY <1>1, <1>3, <1>5, <2>2, <2>3, <3>2
      <4> QED
        BY <4>1 DEF Node
    <3>3. Len(s) = 1 \/ Len(s) > 1
      <4> DEFINE k == Len(s)
      <4>1. k \in Nat /\ k # 0
        BY <1>1
      <4> HIDE DEF k
      <4>2. k = 1 \/ k > 1
        BY <4>1
      <4> QED
        BY <4>2 DEF k
    <3> QED
      BY <3>1, <3>2, <3>3
  <2>5. ASSUME NEW j \in 1..Len(t) PROVE m.next[t[j]] = Node(t, j)
    <3>1. j + 1 \in 1..Len(s) /\ t[j] = s[j + 1] /\ j \in 1..Len(s) - 1
      BY <1>3, <2>3
    <3>2. m.next[t[j]] = IF j + 1 < Len(s) THEN s[(j + 1) + 1] ELSE Null
      BY <1>5, <2>2, <3>1
    <3>3. j + 1 < Len(s) => j + 1 \in 1..Len(s) - 1
      BY <1>1, <3>1
    <3>4. (j < Len(t)) <=> (j + 1 < Len(s))
      BY <1>1, <1>3, <3>1
    <3>5. j + 1 < Len(s) => t[j + 1] = s[(j + 1) + 1]
      BY <2>3, <3>3
    <3> QED
      BY <3>2, <3>4, <3>5 DEF Node
  <2> QED
    BY <1>3, <2>2, <2>4, <2>5 DEF Chain, t, m
<1>8. CASE i # 1
  <2>1. l.head # s[i]
    <3>1. 1 \in 1..Len(s) /\ l.head = s[1]
      BY <1>1, <1>5
    <3> QED
      BY <3>1, <1>2, <1>8
  <2>2. i - 1 \in 1..Len(s) - 1 /\ i - 1 \in 1..Len(s) /\ (i - 1) + 1 = i /\ i - 1 < i
    BY <1>1, <1>8
  <2>3. before = {i - 1}
    <3>1. \A k \in 1..Len(s) - 1 : s[k + 1] = s[i] => k = i - 1
      <4> SUFFICES ASSUME NEW k \in 1..Len(s) - 1, s[k + 1] = s[i] PROVE k = i - 1
        OBVIOUS
      <4>1. k + 1 \in 1..Len(s)
        BY <1>1
      <4>2. k + 1 = i
        BY <1>2, <4>1
      <4> QED
        BY <1>1, <4>2
    <3> QED
      BY <2>2, <3>1
  <2>4. m = [l EXCEPT !.next[s[CHOOSE k \in before : TRUE]] = l.next[s[i]]]
    BY <1>6, <2>1, <2>3 DEF LL_DELETE
  <2> DEFINE n == [l.next EXCEPT ![s[i - 1]] = l.next[s[i]]]
  <2>5. (CHOOSE k \in before : TRUE) = i - 1
    BY <2>3
  <2>6. m = [l EXCEPT !.next = n]
    BY <2>4, <2>5, <1>5
  <2>7. /\ n \in [RouteIds -> RouteIds \cup {Null}] /\ n[s[i - 1]] = l.next[s[i]]
        /\ \A r \in RouteIds : r # s[i - 1] => n[r] = l.next[r]
    BY <1>1, <1>5, <2>2
  <2> HIDE DEF m, n, before
  <2>8. m \in Lists /\ m.head = s[1] /\ m.next = n
    BY <1>5, <2>6, <2>7 DEF Lists
  <2>9. m.head = Node(t, 0)
    <3>1. 1 \in 1..Len(s) - 1 /\ 1 < i /\ 0 < Len(t)
      BY <1>1, <1>3, <1>8, <2>2
    <3>2. t[1] = s[1]
      BY <1>4, <3>1
    <3> QED
      BY <2>8, <3>1, <3>2 DEF Node
  <2>10. ASSUME NEW j \in 1..Len(t) PROVE n[t[j]] = Node(t, j)
    <3>1. /\ j \in 1..Len(s) - 1 /\ j \in 1..Len(s) /\ j + 1 \in 1..Len(s)
          /\ (j < Len(t) <=> j + 1 < Len(s))
          /\ j + 1 < Len(s) => j + 1 \in 1..Len(s) - 1
      BY <1>1, <1>3
    <3>2. CASE j < i - 1
      <4>1. j < i /\ j + 1 < i /\ j + 1 < Len(s) /\ j # i - 1 /\ j < Len(s)
        BY <1>1, <2>2, <3>1, <3>2
      <4>2. t[j] = s[j] /\ t[j + 1] = s[j + 1]
        BY <1>4, <3>1, <4>1
      <4>3. s[j] # s[i - 1]
        BY <1>2, <2>2, <3>1, <4>1
      <4>4. n[s[j]] = s[j + 1]
        BY <1>1, <1>5, <2>7, <3>1, <4>1, <4>3
      <4> QED
        BY <3>1, <4>1, <4>2, <4>4 DEF Node
    <3>3. CASE j = i - 1
      <4>1. t[j] = s[i - 1] /\ n[t[j]] = l.next[s[i]] /\ j + 1 = i
        BY <1>4, <2>2, <2>7, <3>1, <3>3
      <4>2. i < Len(s) => t[i] = s[i + 1]
        BY <1>4, <3>1, <4>1
      <4>3. l.next[s[i]] = IF i < Len(s) THEN s[i + 1] ELSE Null
        BY <1>5
      <4> QED
        BY <3>1, <4>1, <4>2, <4>3 DEF Node
    <3>4. CASE j > i - 1
      <4>1. ~(j < i) /\ ~(j + 1 < i) /\ j + 1 # i - 1
        BY <1>1, <3>1, <3>4
      <4>2. t[j] = s[j + 1] /\ (j + 1 < Len(s) => t[j + 1] = s[(j + 1) + 1])
        BY <1>4, <3>1, <4>1
      <4>3. s[j + 1] # s[i - 1]
        BY <1>2, <2>2, <3>1, <4>1
      <4>4. n[s[j + 1]] = IF j + 1 < Len(s) THEN s[(j + 1) + 1] ELSE Null
        BY <1>1, <1>5, <2>7, <3>1, <4>3
      <4> QED
        BY <3>1, <4>2, <4>4 DEF Node
    <3> QED
      BY <1>1, <3>1, <3>2, <3>3, <3>4
  <2> QED
    BY <1>3, <2>8, <2>9, <2>10 DEF Chain, t, m
<1> QED
  BY <1>7, <1>8

(* What is forgotten of other routes leaves a list as it is.               *)
LEMMA ForgetChain ==
  ASSUME NEW l, NEW s, Chain(l, s), NEW rs, \A i \in 1..Len(s) : s[i] \notin rs
  PROVE  Chain(Forget(l, rs), s)
<1> DEFINE m == Forget(l, rs)
           n == [r \in RouteIds |-> IF r \in rs THEN Null ELSE l.next[r]]
<1>1. l.next \in [RouteIds -> RouteIds \cup {Null}] /\ l \in Lists
  BY DEF Chain, Lists
<1>2. m = [l EXCEPT !.next = n]
  BY <1>1 DEF Forget, Lists
<1>3. n \in [RouteIds -> RouteIds \cup {Null}] /\ \A r \in RouteIds : r \notin rs => n[r] = l.next[r]
  BY <1>1
<1> HIDE DEF m, n
<1>4. m \in Lists /\ m.head = l.head /\ m.next = n
  BY <1>1, <1>2, <1>3 DEF Lists
<1>5. \A i \in 1..Len(s) : s[i] \in RouteIds
  BY DEF Chain
<1> QED
  BY <1>3, <1>4, <1>5 DEF Chain, m

LEMMA InAppended ==
  ASSUME NEW s \in Seq(RouteIds), NEW x
  PROVE  InSeq(Append(s, x)) = InSeq(s) \cup {x}
<1> DEFINE t == Append(s, x)
<1>1. /\ Len(s) \in Nat /\ Len(t) = Len(s) + 1 /\ t[Len(s) + 1] = x
      /\ \A i \in 1..Len(s) : t[i] = s[i]
  OBVIOUS
<1> HIDE DEF t
<1>2. \A y \in InSeq(t) : y \in InSeq(s) \cup {x}
  BY <1>1 DEF InSeq
<1>3. \A y \in InSeq(s) \cup {x} : y \in InSeq(t)
  <2>1. x \in InSeq(t)
    BY <1>1 DEF InSeq
  <2>2. ASSUME NEW i \in 1..Len(s) PROVE s[i] \in InSeq(t)
    <3>1. i \in 1..Len(t) /\ t[i] = s[i]
      BY <1>1
    <3> QED
      BY <3>1 DEF InSeq
  <2> QED
    BY <2>1, <2>2 DEF InSeq
<1> QED
  BY <1>2, <1>3 DEF t

-----------------------------------------------------------------------------
(* A pattern that is enclosed is found by what is between, and gives it    *)
(* back.                                                                   *)
PatternChars == (UNION {ToSet(q) : q \in Patterns}) \cup {"^", "$"}

LEMMA Marks == "^" \in PatternChars /\ "$" \in PatternChars
<1> DEFINE C == UNION {ToSet(q) : q \in Patterns}
<1>1. PatternChars = C \cup {"^", "$"}
  BY DEF PatternChars
<1> HIDE DEF C
<1> QED
  BY <1>1

LEMMA EnclosedFacts ==
  ASSUME NEW p \in Patterns
  PROVE  /\ Enclosed(p) \in Seq(PatternChars)
         /\ Enclosed(p)[1] # "(" =>
              /\ SubSeq(Enclosed(p), 2, Len(Enclosed(p)) - 1) = p
              /\ Same(p, Enclosed(p))
<1>1. p \in Seq(PatternChars) /\ Len(p) \in Nat
  <2>1. p \in Seq(ToSet(p)) /\ ToSet(p) \subseteq PatternChars
    BY RoutesAssumption DEF PatternChars
  <2> QED
    BY <2>1
<1> DEFINE e == <<"^">> \o p \o <<"$">>
<1>2. CASE p # << >> /\ p[1] = "("
  BY <1>1, <1>2 DEF Enclosed
<1>3. CASE ~(p # << >> /\ p[1] = "(")
  <2>1. Enclosed(p) = e
    BY <1>3 DEF Enclosed
  <2>2. e \in Seq(PatternChars) /\ Len(e) = Len(p) + 2 /\ \A i \in 1..Len(p) : e[i + 1] = p[i]
    <3> DEFINE d == <<"^">> \o p
    <3>1. d \in Seq(PatternChars) /\ Len(d) = Len(p) + 1 /\ \A i \in 1..Len(p) : d[i + 1] = p[i]
      <4>1. <<"^">> \in Seq(PatternChars) /\ Len(<<"^">>) = 1 /\ <<"^">>[1] = "^"
        BY Marks
      <4> DEFINE c == <<"^">>
      <4> HIDE DEF c
      <4> QED
        BY <1>1, <4>1 DEF c
    <3>2. e = d \o <<"$">>
      OBVIOUS
    <3>3. <<"$">> \in Seq(PatternChars) /\ Len(<<"$">>) = 1 /\ <<"$">>[1] = "$"
      BY Marks
    <3> DEFINE c == <<"$">>
    <3> HIDE DEF c, d, e
    <3> QED
      BY <1>1, <3>1, <3>2, <3>3 DEF c
  <2> HIDE DEF e
  <2>3. SubSeq(e, 2, Len(e) - 1) = p
    <3>1. Len(e) - 1 = Len(p) + 1 /\ SubSeq(e, 2, Len(p) + 1) \in Seq(PatternChars)
          /\ Len(SubSeq(e, 2, Len(p) + 1)) = Len(p)
      BY <1>1, <2>2
    <3>2. \A i \in 1..Len(p) : SubSeq(e, 2, Len(p) + 1)[i] = p[i]
      BY <1>1, <2>2, <3>1
    <3> QED
      BY <1>1, <3>1, <3>2
  <2>4. IsPrefix(p, Tail(e))
    <3>1. /\ Tail(e) \in Seq(PatternChars) /\ Len(Tail(e)) = Len(p) + 1
          /\ \A i \in 1..Len(p) : Tail(e)[i] = p[i]
      BY <1>1, <2>2
    <3> DEFINE u == Tail(e)
    <3> HIDE DEF u
    <3>2. SubSeq(u, 1, Len(p)) = SubSeq(p, 1, Len(p))
      <4>1. Len(SubSeq(u, 1, Len(p))) = Len(p) /\ Len(SubSeq(p, 1, Len(p))) = Len(p)
            /\ SubSeq(u, 1, Len(p)) \in Seq(PatternChars) /\ SubSeq(p, 1, Len(p)) \in Seq(PatternChars)
        BY <1>1, <3>1 DEF u
      <4>2. \A i \in 1..Len(p) : SubSeq(u, 1, Len(p))[i] = SubSeq(p, 1, Len(p))[i]
        BY <1>1, <3>1 DEF u
      <4> QED
        BY <1>1, <4>1, <4>2
    <3> QED
      BY <1>1, <3>1, <3>2 DEF IsPrefix, u
  <2> QED
    BY <2>1, <2>2, <2>3, <2>4 DEF Same
<1> QED
  BY <1>2, <1>3

-----------------------------------------------------------------------------
(* sg_routes_cleanup takes the first route out again and again.            *)
LEMMA AllTakenOut ==
  ASSUME NEW l, NEW s, Chain(l, s),
         NEW left, left = [i \in 0..Len(s) |-> IF i = 0 THEN l ELSE LL_DELETE(left[i - 1], s[i])]
  PROVE  left[Len(s)] = [l EXCEPT !.head = Null]
<1>1. /\ Len(s) \in Nat /\ l \in Lists /\ l.head = Node(s, 0)
      /\ \A i \in 1..Len(s) : l.next[s[i]] = Node(s, i)
  BY DEF Chain
<1>2. left[0] = l /\ \A i \in 1..Len(s) : left[i] = LL_DELETE(left[i - 1], s[i])
  BY <1>1
<1> DEFINE S == {n \in Nat : n \in 0..Len(s) => left[n] = [l EXCEPT !.head = Node(s, n)]}
<1>3. 0 \in S
  BY <1>1, <1>2 DEF Lists
<1>4. ASSUME NEW n \in Nat, n \in S PROVE n + 1 \in S
  <2> SUFFICES ASSUME n + 1 \in 0..Len(s) PROVE left[n + 1] = [l EXCEPT !.head = Node(s, n + 1)]
    OBVIOUS
  <2>1. n \in 0..Len(s) /\ n + 1 \in 1..Len(s) /\ (n + 1) - 1 = n /\ n < Len(s)
    BY <1>1
  <2> DEFINE m == left[n]
  <2>2. m = [l EXCEPT !.head = Node(s, n)] /\ left[n + 1] = LL_DELETE(m, s[n + 1])
    BY <1>2, <1>4, <2>1
  <2>3. Node(s, n) = s[n + 1]
    BY <2>1 DEF Node
  <2> HIDE DEF m
  <2>4. m.head = s[n + 1] /\ m.next = l.next
    BY <1>1, <2>2, <2>3 DEF Lists
  <2>5. LL_DELETE(m, s[n + 1]) = [m EXCEPT !.head = Node(s, n + 1)]
    BY <1>1, <2>1, <2>4 DEF LL_DELETE
  <2> QED
    BY <1>1, <2>2, <2>5 DEF Lists
<1>5. Len(s) \in S
  <2> HIDE DEF S
  <2> QED
    BY <1>1, <1>3, <1>4, InductionOnNat
<1>6. Node(s, Len(s)) = Null
  BY <1>1 DEF Node
<1> QED
  BY <1>1, <1>5, <1>6

LEMMA AllFreed ==
  ASSUME NEW h, NEW s \in Seq(RouteIds),
         NEW kept, kept = [i \in 0..Len(s) |-> IF i = 0 THEN h ELSE RouteFree(kept[i - 1], s[i])]
  PROVE  kept[Len(s)] = h \ (InSeq(s) \X RouteParts)
<1>1. Len(s) \in Nat
  OBVIOUS
<1>2. kept[0] = h /\ \A i \in 1..Len(s) : kept[i] = RouteFree(kept[i - 1], s[i])
  BY <1>1
<1> DEFINE Upto(n) == {s[i] : i \in 1..n}
           Kept(n) == n \in 0..Len(s) => kept[n] = h \ (Upto(n) \X RouteParts)
           S == {n \in Nat : Kept(n)}
<1>3. 0 \in S
  <2>1. Upto(0) = {}
    OBVIOUS
  <2> QED
    BY <1>2, <2>1
<1>4. ASSUME NEW n \in Nat, n \in S PROVE n + 1 \in S
  <2> SUFFICES Kept(n + 1)
    <3> HIDE DEF Kept
    <3> QED
      OBVIOUS
  <2> SUFFICES ASSUME n + 1 \in 0..Len(s) PROVE kept[n + 1] = h \ (Upto(n + 1) \X RouteParts)
    OBVIOUS
  <2>1. n \in 0..Len(s) /\ n + 1 \in 1..Len(s) /\ (n + 1) - 1 = n
    BY <1>1
  <2>2. Upto(n + 1) = Upto(n) \cup {s[n + 1]}
    <3>1. \A i \in 1..n + 1 : i \in 1..n \/ i = n + 1
      OBVIOUS
    <3>2. \A i \in 1..n : i \in 1..n + 1
      OBVIOUS
    <3>3. n + 1 \in 1..n + 1
      OBVIOUS
    <3> QED
      BY <3>1, <3>2, <3>3
  <2>3. kept[n] = h \ (Upto(n) \X RouteParts) /\ kept[n + 1] = RouteFree(kept[n], s[n + 1])
    BY <1>2, <1>4, <2>1
  <2> HIDE DEF Upto
  <2>4. RouteFree(kept[n], s[n + 1]) = kept[n] \ ({s[n + 1]} \X RouteParts)
    BY DEF RouteFree
  <2>5. \A A, B, C : (A \ (B \X RouteParts)) \ (C \X RouteParts) = A \ ((B \cup C) \X RouteParts)
    OBVIOUS
  <2> QED
    BY <2>2, <2>3, <2>4, <2>5
<1>5. Len(s) \in S
  <2> HIDE DEF S
  <2> QED
    BY <1>1, <1>3, <1>4, InductionOnNat
<1> QED
  BY <1>1, <1>5 DEF InSeq

-----------------------------------------------------------------------------
(* The routes: numbers are given once, and what is stored is what was      *)
(* added.                                                                  *)
RoutesInv ==
  /\ \E s : Chain(routes, s)
  /\ added \in 0..MaxRoutes /\ \A r \in Listed : r <= added
  /\ stored = [r \in RouteIds |-> stored[r]]
  /\ \A r \in Listed : \E p \in Patterns : stored[r] = Enclosed(p)
  /\ PartsOwned /\ PatternsOnce

(* What a change of the routes keeps, for the dispatches that go on.       *)
RoutesStep ==
  /\ routes' = routes => stored' = stored /\ heap' = heap
  /\ \A r \in Listed' : r \in Listed \/ (r > added /\ r \in RouteIds)
  /\ \A r \in Listed' : r \in Listed => stored'[r] = stored[r]
  /\ added' >= added

LEMMA RoutesInitInv == RoutesInit => RoutesInv
<1> SUFFICES ASSUME RoutesInit PROVE RoutesInv
  OBVIOUS
<1>1. Chain(routes, << >>)
  BY DEF RoutesInit, Chain, Lists, Ascending, Node
<1>2. Listed = {}
  BY <1>1, NodesAre DEF Listed, InSeq
<1>3. heap = {} /\ added = 0 /\ stored = [r \in RouteIds |-> << >>]
  BY DEF RoutesInit
<1>4. stored = [r \in RouteIds |-> stored[r]]
  BY <1>3
<1> QED
  BY <1>1, <1>2, <1>3, <1>4, RouteNumbers DEF RoutesInv, PartsOwned, PatternsOnce

LEMMA AddStep ==
  ASSUME RoutesInv, NEW p \in Patterns, RoutesAdd(p)
  PROVE  RoutesInv' /\ RoutesStep
<1> DEFINE x == added + 1
<1>1. PICK s : Chain(routes, s)
  BY DEF RoutesInv
<1>2. added < MaxRoutes /\ ~Already(p) /\ added \in Nat
  BY RouteNumbers DEF RoutesAdd, RoutesInv
<1>3. x \in RouteIds /\ x \in 1..MaxRoutes /\ x > added
  BY <1>2, RouteNumbers DEF RouteIds
<1>4. Listed = InSeq(s) /\ Listed \subseteq RouteIds
  BY <1>1, NodesAre DEF Listed
<1>5. CASE RouteNewFails(x) /\ UNCHANGED <<routes, stored, added>>
  <2>1. UNCHANGED <<routes, stored, added, heap>>
    BY <1>5 DEF RouteNewFails
  <2>2. RoutesInv'
    BY <2>1 DEF RoutesInv, Listed, PartsOwned, PatternsOnce
  <2>3. RoutesStep
    BY <1>2, <2>1 DEF RoutesStep, Listed
  <2> QED
    BY <2>2, <2>3
<1>6. CASE /\ routes' = LL_APPEND(routes, x) /\ stored' = [stored EXCEPT ![x] = Enclosed(p)]
           /\ heap' = heap \cup {<<x, part>> : part \in RouteParts} /\ added' = x
  <2> DEFINE t == Append(s, x)
  <2>1. \A i \in 1..Len(s) : s[i] \in Listed /\ s[i] \in Nat /\ s[i] < x
    <3> SUFFICES ASSUME NEW i \in 1..Len(s) PROVE s[i] \in Listed /\ s[i] \in Nat /\ s[i] < x
      OBVIOUS
    <3>1. s[i] \in Listed
      BY <1>4 DEF InSeq
    <3>2. s[i] \in Nat /\ s[i] <= added
      BY <1>4, <3>1, RouteNumbers DEF RoutesInv
    <3> QED
      BY <1>2, <3>1, <3>2
  <2>2. Chain(routes', t)
    BY <1>1, <1>3, <1>6, <2>1, AppendChain
  <2>3. Listed' = Listed \cup {x}
    <3>1. s \in Seq(RouteIds)
      BY <1>1 DEF Chain
    <3>2. Listed' = InSeq(t)
      BY <2>2, NodesAre DEF Listed
    <3> QED
      BY <1>4, <3>1, <3>2, InAppended
  <2> HIDE DEF t, x
  <2>4. x \notin Listed /\ \A r \in Listed : r \in RouteIds /\ r # x
    <3>1. \A r \in Listed : r \in RouteIds /\ r \in Nat /\ r <= added
      BY <1>4, RouteNumbers DEF RoutesInv
    <3> QED
      BY <1>2, <1>3, <3>1 DEF x
  <2>5. stored'[x] = Enclosed(p) /\ \A r \in Listed : stored'[r] = stored[r]
    BY <1>3, <1>6, <2>4 DEF RoutesInv
  <2>6. RoutesStep
    <3>1. Listed' # Listed
      BY <2>3, <2>4
    <3>2. routes' # routes
      BY <3>1 DEF Listed
    <3>3. added' >= added
      BY <1>2, <1>6 DEF x
    <3> QED
      BY <1>3, <2>3, <2>5, <3>2, <3>3 DEF RoutesStep
  <2>7. PartsOwned'
    BY <1>6, <2>3 DEF RoutesInv, PartsOwned
  <2>8. PatternsOnce'
    <3>1. ASSUME NEW q \in Listed, stored[q] = Enclosed(p) PROVE Enclosed(p)[1] = "("
      <4>1. ~Same(p, stored[q])
        BY <1>2 DEF Already
      <4> QED
        BY <3>1, <4>1, EnclosedFacts
    <3> SUFFICES ASSUME NEW q \in Listed', NEW r \in Listed', q # r, stored'[q] = stored'[r]
                 PROVE  stored'[q][1] = "("
      BY DEF PatternsOnce
    <3>2. CASE q \in Listed /\ r \in Listed
      BY <3>2, <2>5 DEF RoutesInv, PatternsOnce
    <3>3. CASE q = x
      BY <3>1, <3>3, <2>3, <2>5
    <3>4. CASE r = x
      BY <3>1, <3>4, <2>3, <2>5
    <3> QED
      BY <2>3, <3>2, <3>3, <3>4
  <2>9. added' \in 0..MaxRoutes /\ \A r \in Listed' : r <= added'
    <3>1. \A r \in Listed : r \in Nat /\ r <= added
      BY <1>4, RouteNumbers DEF RoutesInv
    <3> QED
      BY <1>2, <1>3, <1>6, <2>3, <3>1, RouteNumbers DEF x
  <2>10. stored' = [r \in RouteIds |-> stored'[r]]
    BY <1>6 DEF RoutesInv
  <2>11. \A r \in Listed' : \E q \in Patterns : stored'[r] = Enclosed(q)
    BY <2>3, <2>5 DEF RoutesInv
  <2> QED
    BY <2>2, <2>6, <2>7, <2>8, <2>9, <2>10, <2>11 DEF RoutesInv
<1> QED
  BY <1>5, <1>6 DEF RoutesAdd

(* Routes rs are taken out, freed and forgotten.                           *)
LEMMA OutStep ==
  ASSUME RoutesInv, NEW rs, rs \subseteq Listed, NEW t, Chain(routes', t), InSeq(t) = Listed \ rs,
         stored' = Forgotten(rs), heap' = heap \ (rs \X RouteParts), added' = added
  PROVE  RoutesInv' /\ RoutesStep
<1>1. Listed' = Listed \ rs
  BY NodesAre DEF Listed
<1>2. PICK s : Chain(routes, s)
  BY DEF RoutesInv
<1>3. Listed \subseteq RouteIds /\ added \in Nat
  BY <1>2, NodesAre, RouteNumbers DEF Listed, RoutesInv
<1>4. \A r \in Listed' : r \in Listed /\ stored'[r] = stored[r]
  BY <1>1, <1>3 DEF Forgotten
<1>5. RoutesStep
  <2>1. ASSUME routes' = routes PROVE stored' = stored /\ heap' = heap
    <3>1. rs = {}
      BY <1>1, <2>1 DEF Listed
    <3>2. stored' = stored
      BY <3>1 DEF Forgotten, RoutesInv
    <3> QED
      BY <3>1, <3>2
  <2> QED
    BY <1>3, <1>4, <2>1 DEF RoutesStep
<1>6. PartsOwned'
  BY <1>1 DEF RoutesInv, PartsOwned
<1>7. PatternsOnce'
  BY <1>4 DEF RoutesInv, PatternsOnce
<1>8. stored' = [r \in RouteIds |-> stored'[r]]
  BY DEF Forgotten
<1>9. \A r \in Listed' : r <= added' /\ \E p \in Patterns : stored'[r] = Enclosed(p)
  BY <1>4 DEF RoutesInv
<1> QED
  BY <1>5, <1>6, <1>7, <1>8, <1>9 DEF RoutesInv

LEMMA RemoveStep ==
  ASSUME RoutesInv, NEW p \in Patterns, RoutesRemove(p)
  PROVE  RoutesInv' /\ RoutesStep
<1>1. PICK s : Chain(routes, s)
  BY DEF RoutesInv
<1>2. LL_Nodes(routes) = s /\ Listed = InSeq(s) /\ s \in Seq(RouteIds) /\ Ascending(s)
  BY <1>1, NodesOfChain, NodesAre DEF Listed, Chain
<1>3. PICK i \in 1..Len(s) :
        /\ routes' = Forget(LL_DELETE(routes, s[i]), {s[i]})
        /\ heap' = RouteFree(heap, s[i]) /\ stored' = Forgotten({s[i]})
  <2>1. DOMAIN s = 1..Len(s)
    BY <1>2
  <2> QED
    BY <1>2, <2>1 DEF RoutesRemove
<1> DEFINE t == Without(s, i)
<1>4. t \in Seq(RouteIds) /\ InSeq(t) = Listed \ {s[i]}
  BY <1>2, WithoutFacts
<1>5. Chain(LL_DELETE(routes, s[i]), t)
  BY <1>1, DeleteChain
<1> HIDE DEF t
<1>6. \A j \in 1..Len(t) : t[j] \notin {s[i]}
  BY <1>4 DEF InSeq
<1>7. Chain(routes', t)
  BY <1>3, <1>5, <1>6, ForgetChain
<1>8. {s[i]} \subseteq Listed /\ heap' = heap \ ({s[i]} \X RouteParts) /\ added' = added
  BY <1>2, <1>3 DEF InSeq, RouteFree, RoutesRemove
<1> QED
  BY <1>3, <1>4, <1>7, <1>8, OutStep

LEMMA CleanupStep ==
  ASSUME RoutesInv, RoutesCleanup
  PROVE  RoutesInv' /\ RoutesStep
<1>1. PICK s : Chain(routes, s)
  BY DEF RoutesInv
<1>2. LL_Nodes(routes) = s /\ Listed = InSeq(s) /\ s \in Seq(RouteIds) /\ Len(s) \in Nat
  BY <1>1, NodesOfChain, NodesAre DEF Listed, Chain
<1> DEFINE Left(f) == [i \in 0..Len(s) |-> IF i = 0 THEN routes ELSE LL_DELETE(f[i - 1], s[i])]
           left == CHOOSE f : f = Left(f)
           Kept(f) == [i \in 0..Len(s) |-> IF i = 0 THEN heap ELSE RouteFree(f[i - 1], s[i])]
           kept == CHOOSE f : f = Kept(f)
<1>3. /\ heap' = kept[Len(s)] /\ routes' = Forget(left[Len(s)], Listed)
      /\ stored' = Forgotten(Listed) /\ added' = added
  BY <1>2 DEF RoutesCleanup
<1>4. left = Left(left)
  <2>1. \E f : f = Left(f)
    <3> DEFINE g == [i \in 0..Len(s) |-> [routes EXCEPT !.head = Node(s, i)]]
    <3>0. /\ routes \in Lists /\ routes.head = Node(s, 0)
          /\ \A i \in 1..Len(s) : routes.next[s[i]] = Node(s, i)
      BY <1>1 DEF Chain
    <3>1. \A i \in 0..Len(s) : g[i] = Left(g)[i]
      <4> SUFFICES ASSUME NEW i \in 0..Len(s) PROVE g[i] = Left(g)[i]
        OBVIOUS
      <4>1. CASE i = 0
        <5>1. g[i] = routes
          BY <3>0, <4>1 DEF Lists
        <5>2. Left(g)[i] = routes
          BY <4>1
        <5> QED
          BY <5>1, <5>2
      <4>2. CASE i # 0
        <5>1. i \in 1..Len(s) /\ i - 1 \in 0..Len(s) /\ (i - 1) + 1 = i /\ i - 1 < Len(s)
          BY <1>2, <4>2
        <5> DEFINE m == [routes EXCEPT !.head = Node(s, i - 1)]
        <5>2. Left(g)[i] = LL_DELETE(m, s[i])
          BY <4>2, <5>1
        <5>3. m.head = s[i] /\ m.next = routes.next
          BY <3>0, <5>1 DEF Node, Lists
        <5>4. m = [routes EXCEPT !.head = m.head]
          BY <3>0 DEF Lists
        <5> HIDE DEF m
        <5>5. LL_DELETE(m, s[i]) = [m EXCEPT !.head = Node(s, i)]
          BY <3>0, <5>1, <5>3 DEF LL_DELETE
        <5>6. [m EXCEPT !.head = Node(s, i)] = [routes EXCEPT !.head = Node(s, i)]
          BY <3>0, <5>4 DEF Lists
        <5>7. g[i] = [routes EXCEPT !.head = Node(s, i)]
          OBVIOUS
        <5> HIDE DEF g, Left
        <5> QED
          BY <5>2, <5>5, <5>6, <5>7
      <4> QED
        BY <4>1, <4>2
    <3>2. g = Left(g)
      BY <3>1
    <3> QED
      BY <3>2
  <2> QED
    BY <2>1
<1>5. kept = Kept(kept)
  <2>1. \E f : f = Kept(f)
    <3> DEFINE Gone(n) == {s[i] : i \in 1..n}
               g == [i \in 0..Len(s) |-> heap \ (Gone(i) \X RouteParts)]
    <3>1. \A i \in 0..Len(s) : g[i] = Kept(g)[i]
      <4> SUFFICES ASSUME NEW i \in 0..Len(s) PROVE g[i] = Kept(g)[i]
        OBVIOUS
      <4>1. CASE i = 0
        <5>1. Gone(0) = {}
          OBVIOUS
        <5> QED
          BY <4>1, <5>1
      <4>2. CASE i # 0
        <5>1. i - 1 \in 0..Len(s) /\ i \in 1..Len(s)
          BY <1>2, <4>2
        <5>2. Gone(i) = Gone(i - 1) \cup {s[i]}
          <6>1. \A j \in 1..i : j \in 1..i - 1 \/ j = i
            BY <5>1
          <6>2. \A j \in 1..i - 1 : j \in 1..i
            BY <5>1
          <6>3. i \in 1..i
            BY <5>1
          <6> QED
            BY <6>1, <6>2, <6>3
        <5>3. Kept(g)[i] = RouteFree(heap \ (Gone(i - 1) \X RouteParts), s[i])
          BY <4>2, <5>1
        <5>4. g[i] = heap \ (Gone(i) \X RouteParts)
          OBVIOUS
        <5>5. \A A, B, C : (A \ (B \X RouteParts)) \ (C \X RouteParts) = A \ ((B \cup C) \X RouteParts)
          OBVIOUS
        <5> HIDE DEF g, Gone
        <5>6. \A h : RouteFree(h, s[i]) = h \ ({s[i]} \X RouteParts)
          BY DEF RouteFree
        <5> QED
          BY <5>2, <5>3, <5>4, <5>5, <5>6
      <4> QED
        BY <4>1, <4>2
    <3>2. g = Kept(g)
      BY <3>1
    <3> QED
      BY <3>2
  <2> QED
    BY <2>1
<1> HIDE DEF left, kept
<1>6. left[Len(s)] = [routes EXCEPT !.head = Null]
  BY <1>1, <1>4, AllTakenOut
<1>7. heap' = heap \ (Listed \X RouteParts)
  <2>1. kept = [i \in 0..Len(s) |-> IF i = 0 THEN heap ELSE RouteFree(kept[i - 1], s[i])]
    BY <1>5
  <2>2. s \in Seq(RouteIds)
    BY <1>2
  <2>3. kept[Len(s)] = heap \ (InSeq(s) \X RouteParts)
    BY ONLY <2>1, <2>2, AllFreed, Zenon
  <2> QED
    BY <1>2, <1>3, <2>3
<1>8. Chain(routes', << >>)
  <2> DEFINE l == [routes EXCEPT !.head = Null]
  <2>1. l \in Lists /\ l.head = Null
    BY <1>1 DEF Chain, Lists
  <2>2. Chain(l, << >>)
    BY <2>1 DEF Chain, Ascending, Node
  <2> HIDE DEF l
  <2>3. Chain(Forget(l, Listed), << >>)
    BY <2>2, ForgetChain
  <2> QED
    BY <1>3, <1>6, <2>3 DEF l
<1>9. InSeq(<< >>) = Listed \ Listed
  BY DEF InSeq
<1> QED
  BY <1>3, <1>7, <1>8, <1>9, OutStep

LEMMA RoutesNextStep ==
  ASSUME RoutesInv, RoutesNext
  PROVE  RoutesInv' /\ RoutesStep
<1>1. ASSUME NEW p \in Patterns, RoutesAdd(p) \/ RoutesRemove(p) PROVE RoutesInv' /\ RoutesStep
  BY <1>1, AddStep, RemoveStep
<1> QED
  BY <1>1, CleanupStep DEF RoutesNext

(* The route after one of the list is the next of the list, if there is    *)
(* one, and the head is one of it.                                         *)
LEMMA NextRoute ==
  ASSUME RoutesInv
  PROVE  /\ Listed \subseteq RouteIds /\ routes \in Lists /\ added \in Nat
         /\ routes.head # Null => routes.head \in Listed
         /\ \A x \in Listed :
              /\ routes.next[x] # Null => routes.next[x] \in Listed
              /\ \A r \in Listed : x < r => routes.next[x] # Null /\ routes.next[x] <= r
<1>1. PICK s : Chain(routes, s)
  BY DEF RoutesInv
<1>2. /\ s \in Seq(RouteIds) /\ Len(s) \in Nat /\ routes \in Lists /\ routes.head = Node(s, 0)
      /\ \A i \in 1..Len(s) : s[i] \in RouteIds /\ s[i] \in Nat /\ s[i] # Null
  <2>1. s \in Seq(RouteIds) /\ routes \in Lists /\ routes.head = Node(s, 0)
    BY <1>1 DEF Chain
  <2>2. Len(s) \in Nat /\ \A i \in 1..Len(s) : s[i] \in RouteIds
    BY <2>1
  <2> QED
    BY <2>1, <2>2, RouteNumbers
<1>3. Listed = InSeq(s) /\ Listed \subseteq RouteIds /\ \A i \in 1..Len(s) : s[i] \in Listed
  <2>1. Listed = InSeq(s) /\ Listed \subseteq RouteIds
    BY <1>1, NodesAre DEF Listed
  <2> QED
    BY <2>1 DEF InSeq
<1>4. routes.head # Null => routes.head \in Listed
  <2> SUFFICES ASSUME routes.head # Null PROVE routes.head \in Listed
    OBVIOUS
  <2>1. 0 < Len(s) /\ routes.head = s[0 + 1]
    BY <1>2 DEF Node
  <2>2. 0 + 1 \in 1..Len(s)
    BY <1>2, <2>1
  <2> QED
    BY <1>3, <2>1, <2>2
<1>5. ASSUME NEW x \in Listed
      PROVE  /\ routes.next[x] # Null => routes.next[x] \in Listed
             /\ \A r \in Listed : x < r => routes.next[x] # Null /\ routes.next[x] <= r
  <2>1. PICK i \in 1..Len(s) : x = s[i]
    BY <1>3 DEF InSeq
  <2>2. routes.next[x] = IF i < Len(s) THEN s[i + 1] ELSE Null
    BY <1>1, <2>1 DEF Chain, Node
  <2>3. i < Len(s) => i + 1 \in 1..Len(s)
    BY <1>2
  <2>4. ASSUME NEW r \in Listed, x < r PROVE routes.next[x] # Null /\ routes.next[x] <= r
    <3>1. PICK j \in 1..Len(s) : r = s[j]
      BY <1>3 DEF InSeq
    <3>2. i < j
      <4> SUFFICES ASSUME ~(i < j) PROVE FALSE
        OBVIOUS
      <4>1. j = i \/ j < i
        BY <1>2
      <4>2. j < i => s[j] < s[i]
        BY <1>1 DEF Chain, Ascending
      <4> QED
        BY <1>2, <2>1, <2>4, <3>1, <4>1, <4>2
    <3>3. i < Len(s) /\ (i + 1 = j \/ i + 1 < j)
      BY <1>2, <3>2
    <3>4. i + 1 < j => s[i + 1] < s[j]
      BY <1>1, <2>3, <3>3 DEF Chain, Ascending
    <3> QED
      BY <1>2, <2>2, <2>3, <3>1, <3>3, <3>4
  <2> QED
    BY <1>3, <2>2, <2>3, <2>4
<1> QED
  BY <1>2, <1>3, <1>4, <1>5, RouteNumbers DEF RoutesInv

LEMMA LiveAreListed == ASSUME RoutesInv PROVE \A r : Live(r) <=> r \in Listed
  BY DEF RoutesInv, PartsOwned, Live, RouteParts

-----------------------------------------------------------------------------
(* The dispatches: what each thread may rely on, and what it may not when  *)
(* it was raced or the routes were changed.                                *)
States == Active \cup {"idle", "not found", "lost"}
Answers == ReqPaths \cup {NoPath}
Told == [rc : Answers, match : Answers \cup Threads, path : Answers, user_data : Threads \cup {Null}]

RouterTypes ==
  /\ router \in RouteIds \cup {Null} /\ router <= added
  /\ field \in [RouteIds -> Told]
  /\ pc \in [Threads -> States] /\ path \in [Threads -> Answers] /\ found \in [Threads -> Answers]
  /\ at \in [Threads -> RouteIds \cup {Null}] /\ \A t \in Threads : at[t] <= added
  /\ raced \in [Threads -> BOOLEAN] /\ touched \in [Threads -> BOOLEAN]
  /\ changed \in [Threads -> BOOLEAN]

(* No route before n that the dispatch began with matches.                 *)
NoneBefore(t, n) == \A r \in Listed : r < n => r < router \/ ~Matches(r, path[t])

(* What a thread that was not raced wrote when it gets to n: r is what its *)
(* route holds and f the answer of pcre2_match that is not stored yet.     *)
Wrote(t, n, r, f) ==
  /\ n = "match" => r.match = t
  /\ n = "store" => f = MatchOf(t) /\ r.match = MatchOf(t)
  /\ n = "test" => r.rc = MatchOf(t) /\ r.match = MatchOf(t)
  /\ n \in {"user", "served"} =>
       Matches(at[t], path[t]) /\ r.rc = path[t] /\ r.match = path[t] /\ r.path = path[t]
  /\ n = "served" => r.user_data = t

ThreadInv(t) ==
  /\ pc[t] # "idle" => router # Null
  /\ pc[t] \in Active => at[t] \in RouteIds /\ path[t] \in ReqPaths
  /\ touched[t] => pc[t] = "lost" /\ (changed[t] \/ ~Live(router))
  /\ pc[t] \in Active /\ ~changed[t] => Live(at[t]) \/ (pc[t] = "look" /\ ~Live(router))
  /\ pc[t] \in Holding /\ ~raced[t] /\ Live(at[t]) => Wrote(t, pc[t], field[at[t]], found[t])
  /\ ~raced[t] /\ ~changed[t] /\ pc[t] \in Active => NoneBefore(t, at[t])
  /\ ~raced[t] /\ ~changed[t] /\ pc[t] = "not found" => NoneBefore(t, MaxRoutes + 1)

(* Two threads inside pcre2_match with the same match data are both raced. *)
Apart ==
  \A t, u \in Threads :
    t # u /\ pc[t] = "match" /\ pc[u] = "match" /\ at[t] = at[u] => raced[t]

RouterInv == RoutesInv /\ RouterTypes /\ Apart /\ \A t \in Threads : ThreadInv(t)

(* A step that lets no thread into pcre2_match and unmarks none there.     *)
LEMMA ApartStays ==
  ASSUME Apart,
         \A t \in Threads : pc'[t] = "match" => pc[t] = "match" /\ at'[t] = at[t] /\ (raced[t] => raced'[t])
  PROVE  Apart'
  BY DEF Apart

LEMMA RouterInitInv == RouterInit => RouterInv
<1> SUFFICES ASSUME RouterInit PROVE RouterInv
  OBVIOUS
<1>1. RoutesInv /\ added = 0
  BY RoutesInitInv DEF RouterInit, RoutesInit
<1>2. NoMatch \in Told /\ NoPath \in Answers
  BY DEF NoMatch, Told, Answers
<1>3. RouterTypes
  BY <1>1, <1>2, RouteNumbers DEF RouterInit, RouterTypes, States, Null
<1>4. \A t \in Threads : ThreadInv(t)
  BY DEF RouterInit, ThreadInv, Active, Holding
<1>5. Apart
  BY DEF RouterInit, Apart
<1> QED
  BY <1>1, <1>3, <1>4, <1>5 DEF RouterInv

(* The application changes the routes.                                     *)
LEMMA MaintainInv ==
  ASSUME RouterInv, Maintain
  PROVE  RouterInv'
<1>1. RoutesInv /\ RouterTypes /\ RoutesInv' /\ RoutesStep
  BY RoutesNextStep DEF RouterInv, Maintain
<1>2. /\ \A r : Live(r) <=> r \in Listed
      /\ \A r : Live(r)' <=> r \in Listed'
      /\ Listed \subseteq RouteIds /\ Listed' \subseteq RouteIds /\ added \in Nat /\ added' \in Nat
  <2>1. \A r : Live(r)' <=> r \in Listed'
    BY <1>1 DEF RoutesInv, PartsOwned, Live, RouteParts
  <2>2. Listed' \subseteq RouteIds /\ added' \in Nat
    <3>1. PICK s : Chain(routes', s)
      BY <1>1 DEF RoutesInv
    <3> QED
      BY <1>1, <3>1, NodesAre, RouteNumbers DEF Listed, RoutesInv
  <2> QED
    BY <1>1, <2>1, <2>2, LiveAreListed, NextRoute
<1>3. /\ UNCHANGED <<router, pc, path, at, found, raced, touched>>
      /\ changed' = [t \in Threads |-> changed[t] \/ (pc[t] # "idle" /\ routes' # routes)]
      /\ field' = [r \in RouteIds |-> IF Live(r)' THEN field[r] ELSE NoMatch]
  BY DEF Maintain, Live
<1>4. RouterTypes'
  <2>1. NoMatch \in Told
    BY DEF NoMatch, Told, Answers
  <2>2. changed' \in [Threads -> BOOLEAN] /\ field' \in [RouteIds -> Told]
    BY <1>1, <1>3, <2>1 DEF RouterTypes
  <2>3. router <= added' /\ \A t \in Threads : at[t] <= added'
    <3>1. router \in Nat /\ \A t \in Threads : at[t] \in Nat
      BY <1>1, RouteNumbers DEF RouterTypes
    <3> QED
      BY <1>1, <1>2, <3>1 DEF RouterTypes, RoutesStep
  <2> QED
    BY <1>1, <1>3, <2>2, <2>3 DEF RouterTypes
<1>5. ASSUME NEW r, r \in Nat, r <= added, Live(r)'
      PROVE  Live(r) /\ stored'[r] = stored[r] /\ field'[r] = field[r]
  <2>1. r \in Listed' /\ r \in Listed
    <3>1. ~(r > added)
      BY <1>2, <1>5
    <3> QED
      BY <1>1, <1>2, <1>5, <3>1 DEF RoutesStep
  <2> QED
    BY <1>1, <1>2, <1>3, <1>5, <2>1 DEF RoutesStep
<1>6. ASSUME routes' = routes
      PROVE  /\ Listed' = Listed /\ stored' = stored /\ \A r : Live(r)' <=> Live(r)
             /\ \A t \in Threads : changed'[t] <=> changed[t]
  BY <1>1, <1>3, <1>6 DEF RoutesStep, Listed, Live, RouterTypes
<1>7. ASSUME NEW t \in Threads PROVE ThreadInv(t)'
  <2>1. ThreadInv(t) /\ at[t] \in Nat /\ at[t] <= added /\ router \in Nat /\ router <= added
    BY <1>1, RouteNumbers DEF RouterInv, RouterTypes
  <2>2. changed'[t] <=> changed[t] \/ (pc[t] # "idle" /\ routes' # routes)
    BY <1>3
  <2>3. /\ Live(at[t])' => Live(at[t]) /\ stored'[at[t]] = stored[at[t]] /\ field'[at[t]] = field[at[t]]
        /\ Live(router)' => Live(router)
    BY <1>3, <1>5, <2>1
  <2>4. pc[t] # "idle" => router # Null
    BY <2>1 DEF ThreadInv
  <2>5. touched[t] => pc[t] = "lost" /\ (changed'[t] \/ ~Live(router)')
    BY <2>1, <2>2, <2>3 DEF ThreadInv
  <2>6. ASSUME pc[t] \in Active, ~changed'[t]
        PROVE  Live(at[t])' \/ (pc[t] = "look" /\ ~Live(router)')
    <3>1. pc[t] # "idle"
      BY <2>6 DEF Active, Holding
    <3>2. routes' = routes /\ ~changed[t]
      BY <2>2, <2>6, <3>1
    <3> QED
      BY <1>3, <1>6, <2>1, <2>6, <3>2 DEF ThreadInv
  <2>7. ASSUME Live(at[t])', Wrote(t, pc[t], field[at[t]], found[t])
        PROVE  Wrote(t, pc[t], field[at[t]], found[t])'
    BY <1>3, <2>3, <2>7 DEF Wrote, Matches, MatchOf
  <2>8. ASSUME ~raced[t], ~changed'[t], NEW n, pc[t] # "idle"
        PROVE  NoneBefore(t, n)' <=> NoneBefore(t, n)
    <3>1. routes' = routes
      BY <2>2, <2>8
    <3> QED
      BY <1>3, <1>6, <3>1 DEF NoneBefore, Matches
  <2> QED
    BY <1>3, <2>1, <2>2, <2>3, <2>4, <2>5, <2>6, <2>7, <2>8 DEF ThreadInv, Active, Holding
<1>8. Apart'
  BY <1>3, ApartStays DEF RouterInv
<1> QED
  BY <1>1, <1>4, <1>7, <1>8 DEF RouterInv

(* A step that leaves a thread alone, and its route unless it is raced.    *)
LEMMA OtherThread ==
  ASSUME NEW u, ThreadInv(u), UNCHANGED <<routesVars, router>>,
         pc'[u] = pc[u], path'[u] = path[u], at'[u] = at[u],
         found'[u] = found[u],
         touched'[u] = touched[u], changed'[u] = changed[u], raced[u] => raced'[u],
         pc[u] \in Holding /\ ~raced'[u] => field'[at[u]] = field[at[u]]
  PROVE  ThreadInv(u)'
<1>1. Listed' = Listed /\ stored' = stored /\ router' = router /\ \A r : Live(r)' <=> Live(r)
  BY DEF routesVars, Listed, Live
<1>2. \A n, r, f : Wrote(u, n, r, f)' <=> Wrote(u, n, r, f)
  BY <1>1 DEF Wrote, Matches, MatchOf
<1>3. \A n : NoneBefore(u, n)' <=> NoneBefore(u, n)
  BY <1>1 DEF NoneBefore, Matches
<1> QED
  BY <1>1, <1>2, <1>3 DEF ThreadInv, Active

LEMMA IdleThread == ASSUME NEW t, (pc[t] = "idle" /\ ~touched[t])' PROVE ThreadInv(t)'
  BY DEF ThreadInv, Active, Holding

LEMMA RoutesStay == RoutesInv /\ UNCHANGED routesVars => RoutesInv'
  BY DEF RoutesInv, routesVars, Listed, PartsOwned, PatternsOnce

(* The router is made before the threads dispatch and freed after.         *)
LEMMA RouterNewInv ==
  ASSUME RouterInv, RouterNew \/ RouterFree
  PROVE  RouterInv'
<1>1. RoutesInv /\ RouterTypes /\ Apart /\ \A t \in Threads : ThreadInv(t)
  BY DEF RouterInv
<1>2. RoutesInv'
  BY <1>1, RoutesStay DEF RouterNew, RouterFree
<1>3. \A t \in Threads : pc[t] = "idle" /\ ~touched[t]
  BY <1>1 DEF RouterNew, RouterFree, ThreadInv
<1>4. UNCHANGED <<routesVars, field, pc, path, at, found, raced, touched, changed>>
  BY DEF RouterNew, RouterFree
<1>5. \A t \in Threads : ThreadInv(t)'
  BY <1>3, <1>4, IdleThread
<1>6. router' \in RouteIds \cup {Null} /\ router' <= added
  <2>1. CASE RouterNew
    <3>1. router' = routes.head /\ routes.head \in Listed
      BY <1>1, <2>1, NextRoute DEF RouterNew
    <3> QED
      BY <1>1, <3>1, NextRoute DEF RoutesInv
  <2>2. CASE RouterFree
    BY <1>1, <2>2, RouteNumbers DEF RouterFree, RoutesInv, Null
  <2> QED
    BY <2>1, <2>2
<1>7. RouterTypes'
  BY <1>1, <1>4, <1>6 DEF RouterTypes, routesVars
<1>8. Apart'
  BY <1>1, <1>4, ApartStays
<1> QED
  BY <1>2, <1>5, <1>7, <1>8 DEF RouterInv

LEMMA DispatchInv ==
  ASSUME RouterInv, NEW t \in Threads, NEW p \in ReqPaths, Dispatch(t, p)
  PROVE  RouterInv'
<1>1. RoutesInv /\ RouterTypes /\ Apart /\ \A u \in Threads : ThreadInv(u)
  BY DEF RouterInv
<1>2. /\ pc[t] = "idle" /\ router # Null /\ pc' = [pc EXCEPT ![t] = "look"]
      /\ path' = [path EXCEPT ![t] = p] /\ at' = [at EXCEPT ![t] = router]
      /\ UNCHANGED <<routesVars, router, field, found, raced, touched, changed>>
  BY DEF Dispatch
<1>3. RoutesInv'
  BY <1>1, <1>2, RoutesStay
<1>4. RouterTypes'
  BY <1>1, <1>2 DEF RouterTypes, States, Active, Answers, routesVars
<1>5. ASSUME NEW u \in Threads, u # t PROVE ThreadInv(u)'
  BY <1>1, <1>2, <1>5, OtherThread DEF RouterTypes
<1>6. ThreadInv(t)'
  <2>1. /\ pc'[t] = "look" /\ path'[t] = p /\ at'[t] = router /\ ~touched'[t]
    BY ZenonT(30), <1>1, <1>2 DEF RouterTypes, ThreadInv
  <2>2. NoneBefore(t, router)'
    BY <1>2 DEF NoneBefore, routesVars, Listed
  <2>3. router \in RouteIds /\ router' = router /\ router # Null
    BY <1>1, <1>2 DEF RouterTypes
  <2>4. Live(at[t])' <=> Live(router)'
    BY <2>1, <2>3 DEF Live
  <2>5. NoneBefore(t, at[t])'
    BY <2>1, <2>2, <2>3 DEF NoneBefore
  <2> QED
    BY <2>1, <2>3, <2>4, <2>5 DEF ThreadInv, Active, Holding
<1>7. Apart'
  BY <1>1, <1>2, ApartStays DEF RouterTypes
<1> QED
  BY <1>3, <1>4, <1>5, <1>6, <1>7 DEF RouterInv

LEMMA ReturnInv ==
  ASSUME RouterInv, NEW t \in Threads, pc[t] # "lost", Return(t)
  PROVE  RouterInv'
<1>1. RoutesInv /\ RouterTypes /\ Apart /\ \A u \in Threads : ThreadInv(u)
  BY DEF RouterInv
<1>2. /\ pc' = [pc EXCEPT ![t] = "idle"] /\ path' = [path EXCEPT ![t] = NoPath]
      /\ at' = [at EXCEPT ![t] = Null] /\ found' = [found EXCEPT ![t] = NoPath]
      /\ raced' = [raced EXCEPT ![t] = FALSE] /\ changed' = [changed EXCEPT ![t] = FALSE]
      /\ UNCHANGED <<routesVars, router, field, touched>>
  BY DEF Return
<1>3. RoutesInv'
  BY <1>1, <1>2, RoutesStay
<1>4. RouterTypes'
  <2>1. Null <= added
    BY <1>1, NextRoute DEF Null
  <2> QED
    BY <1>1, <1>2, <2>1 DEF RouterTypes, States, Answers, routesVars
<1>5. ASSUME NEW u \in Threads, u # t PROVE ThreadInv(u)'
  BY <1>1, <1>2, <1>5, OtherThread DEF RouterTypes
<1>6. ThreadInv(t)'
  BY ZenonT(30), <1>1, <1>2, IdleThread DEF RouterTypes, ThreadInv
<1>7. Apart'
  BY <1>1, <1>2, ApartStays DEF RouterTypes
<1> QED
  BY <1>3, <1>4, <1>5, <1>6, <1>7 DEF RouterInv

LEMMA TouchInv ==
  ASSUME RouterInv, NEW t \in Threads, Touch(t)
  PROVE  RouterInv'
<1>1. RoutesInv /\ RouterTypes /\ Apart /\ \A u \in Threads : ThreadInv(u)
  BY DEF RouterInv
<1>2. /\ pc[t] \in Active /\ ~Live(at[t])
      /\ touched' = [touched EXCEPT ![t] = TRUE] /\ pc' = [pc EXCEPT ![t] = "lost"]
      /\ UNCHANGED <<routesVars, router, field, path, at, found, raced, changed>>
  BY DEF Touch
<1>3. RoutesInv'
  BY <1>1, <1>2, RoutesStay
<1>4. RouterTypes'
  BY <1>1, <1>2 DEF RouterTypes, States, routesVars
<1>5. ASSUME NEW u \in Threads, u # t PROVE ThreadInv(u)'
  BY <1>1, <1>2, <1>5, OtherThread DEF RouterTypes
<1>6. ThreadInv(t)'
  <2>1. pc'[t] = "lost" /\ router # Null
    BY <1>1, <1>2 DEF RouterTypes, ThreadInv, Active, Holding
  <2>2. changed[t] \/ ~Live(router)
    BY <1>1, <1>2 DEF ThreadInv
  <2>3. (changed[t] \/ ~Live(router))'
    BY <1>2, <2>2 DEF Live, routesVars
  <2> QED
    BY <1>2, <2>1, <2>3 DEF ThreadInv, Active, Holding
<1>7. Apart'
  BY <1>1, <1>2, ApartStays DEF RouterTypes
<1> QED
  BY <1>3, <1>4, <1>5, <1>6, <1>7 DEF RouterInv

(* A step of a dispatch that writes r to its route and goes on at n: it    *)
(* races the others there, and keeps f of the answer of pcre2_match.       *)
WriteStep(t, n, r, f) ==
  /\ pc[t] \in Active /\ Live(at[t]) /\ (n = "match" => pc[t] = "look")
  /\ field' = [field EXCEPT ![at[t]] = r] /\ found' = [found EXCEPT ![t] = f]
  /\ pc' = [pc EXCEPT ![t] = n] /\ raced' = Racing(t)
  /\ UNCHANGED <<routesVars, router, path, at, touched, changed>>

LEMMA RacedThread ==
  ASSUME RouterInv, NEW t \in Threads, NEW n \in Holding, NEW r \in Told, NEW f \in Answers,
         WriteStep(t, n, r, f), NEW u \in Threads, u # t
  PROVE  ThreadInv(u)'
<1>1. ThreadInv(u) /\ ThreadInv(t) /\ RouterTypes
  BY DEF RouterInv
<1>2. raced'[u] <=> raced[u] \/ (at[u] = at[t] /\ pc[u] \in Holding)
  BY DEF WriteStep, Racing
<1>3. pc[u] \in Holding => at[u] \in RouteIds
  BY <1>1 DEF ThreadInv, Active
<1>4. at[t] \in RouteIds
  BY <1>1 DEF WriteStep, ThreadInv
<1>5. pc[u] \in Holding /\ ~raced'[u] => field'[at[u]] = field[at[u]]
  BY <1>1, <1>2, <1>3, <1>4 DEF WriteStep, RouterTypes
<1>6. UNCHANGED <<routesVars, router, path, at, touched, changed>> /\ pc'[u] = pc[u] /\ found'[u] = found[u]
  BY <1>1 DEF WriteStep, RouterTypes
<1> QED
  BY <1>1, <1>2, <1>5, <1>6, OtherThread

(* It keeps the invariant if it writes what a thread that is not raced     *)
(* writes.                                                                 *)
LEMMA WriteInv ==
  ASSUME RouterInv, NEW t \in Threads, NEW n \in Holding, NEW r \in Told, NEW f \in Answers,
         WriteStep(t, n, r, f), raced[t] \/ Wrote(t, n, r, f)
  PROVE  RouterInv'
<1>1. RoutesInv /\ RouterTypes /\ Apart /\ \A u \in Threads : ThreadInv(u)
  BY DEF RouterInv
<1>2. /\ pc[t] \in Active /\ Live(at[t]) /\ (n = "match" => pc[t] = "look")
      /\ field' = [field EXCEPT ![at[t]] = r] /\ found' = [found EXCEPT ![t] = f]
      /\ pc' = [pc EXCEPT ![t] = n] /\ raced' = Racing(t)
      /\ UNCHANGED <<routesVars, router, path, at, touched, changed>>
  BY DEF WriteStep
<1>3. at[t] \in RouteIds /\ path[t] \in ReqPaths /\ router # Null /\ ~touched[t]
  BY <1>1, <1>2 DEF ThreadInv, Active, Holding
<1>4. RoutesInv'
  BY <1>1, <1>2, RoutesStay
<1>5. raced' \in [Threads -> BOOLEAN] /\ \A u \in Threads : raced[u] => raced'[u]
  BY ZenonT(30), <1>1, <1>2 DEF RouterTypes, Racing
<1>6. RouterTypes'
  BY <1>1, <1>2, <1>3, <1>5 DEF RouterTypes, States, Active, routesVars
<1>7. ASSUME NEW u \in Threads, u # t PROVE ThreadInv(u)'
  BY <1>7, RacedThread
<1>8. ThreadInv(t)'
  <2>1. /\ pc'[t] = n /\ path'[t] = path[t] /\ at'[t] = at[t] /\ router' = router
        /\ touched'[t] = touched[t] /\ changed'[t] = changed[t]
        /\ field'[at[t]] = r /\ found'[t] = f
    BY <1>1, <1>2, <1>3 DEF RouterTypes
  <2>2. /\ Live(at[t])' /\ (NoneBefore(t, at[t])' <=> NoneBefore(t, at[t]))
        /\ Wrote(t, n, r, f)' <=> Wrote(t, n, r, f)
    BY <1>2, <2>1 DEF routesVars, Live, Matches, MatchOf, NoneBefore, Listed, Wrote
  <2>3. ~raced[t] /\ ~changed[t] => NoneBefore(t, at[t])
    BY <1>1, <1>2 DEF ThreadInv
  <2>4. Wrote(t, pc[t], field[at[t]], found[t])' <=> Wrote(t, n, r, f)'
    BY <2>1 DEF Wrote
  <2>5. n # "idle" /\ n # "not found" /\ n # "look" /\ n \in Active
    BY DEF Holding, Active
  <2>6. raced[t] => raced'[t]
    BY <1>5
  <2> QED
    BY <1>3, <2>1, <2>2, <2>3, <2>4, <2>5, <2>6 DEF ThreadInv
<1>9. Apart'
  <2> SUFFICES ASSUME NEW u \in Threads, NEW v \in Threads, u # v,
                      pc'[u] = "match", pc'[v] = "match", at'[u] = at'[v]
               PROVE  raced'[u]
    BY DEF Apart
  <2>1. at[u] = at[v] /\ (u # t => pc[u] = "match") /\ (v # t => pc[v] = "match")
    BY <1>1, <1>2 DEF RouterTypes
  <2>2. CASE u = t
    <3>1. v \in Inside(at[t]) \ {t}
      BY <2>1, <2>2 DEF Inside
    <3> QED
      BY <1>2, <2>2, <3>1 DEF Racing
  <2>3. CASE v = t
    <3>1. pc[u] \in Holding /\ u # t /\ at[u] = at[t]
      BY <2>1, <2>3 DEF Holding
    <3> QED
      BY <1>2, <3>1 DEF Racing
  <2>4. CASE u # t /\ v # t
    BY <1>1, <1>5, <2>1, <2>4 DEF Apart
  <2> QED
    BY <2>2, <2>3, <2>4
<1> QED
  BY <1>4, <1>6, <1>7, <1>8, <1>9 DEF RouterInv

(* What its route holds, and of which type, when a thread writes to it.    *)
LEMMA AtRoute ==
  ASSUME RouterInv, NEW t \in Threads, pc[t] \in Active
  PROVE  /\ at[t] \in RouteIds /\ path[t] \in ReqPaths /\ path[t] # NoPath
         /\ field[at[t]] \in Told /\ found[t] \in Answers /\ MatchOf(t) \in Answers
         /\ field \in [RouteIds -> Told] /\ found \in [Threads -> Answers]
         /\ found = [found EXCEPT ![t] = found[t]]
         /\ pc[t] \in Holding /\ Live(at[t]) => raced[t] \/ Wrote(t, pc[t], field[at[t]], found[t])
<1>1. RouterTypes /\ ThreadInv(t)
  BY DEF RouterInv
<1>2. at[t] \in RouteIds /\ path[t] \in ReqPaths
  BY <1>1 DEF ThreadInv
<1> QED
  BY <1>1, <1>2, RouterAssumption DEF RouterTypes, ThreadInv, MatchOf, Answers

LEMMA LookInv ==
  ASSUME RouterInv, NEW t \in Threads, Look(t)
  PROVE  RouterInv'
<1>1. pc[t] = "look" /\ pc[t] \in Active /\ Live(at[t])
  BY DEF Look, Active
<1>2. CASE /\ field' = [field EXCEPT ![at[t]].match = t] /\ pc' = [pc EXCEPT ![t] = "match"]
           /\ raced' = Racing(t) /\ UNCHANGED <<routesVars, router, path, at, found, touched, changed>>
  <2>1. PICK r : r = [field[at[t]] EXCEPT !.match = t]
    OBVIOUS
  <2>2. r \in Told /\ field' = [field EXCEPT ![at[t]] = r]
    BY <1>1, <1>2, <2>1, AtRoute DEF Told
  <2>3. Wrote(t, "match", r, found[t])
    BY <1>1, <2>1, AtRoute DEF Wrote, Told
  <2>4. WriteStep(t, "match", r, found[t]) /\ found[t] \in Answers
    BY <1>1, <1>2, <2>2, AtRoute DEF WriteStep
  <2> QED
    BY <2>2, <2>3, <2>4, WriteInv DEF Holding
<1>3. CASE Return(t)
  BY <1>1, <1>3, ReturnInv
<1> QED
  BY <1>2, <1>3 DEF Look

(* A thread that is not raced is alone in pcre2_match with its match data. *)
LEMMA MatchedInv ==
  ASSUME RouterInv, NEW t \in Threads, Matched(t)
  PROVE  RouterInv'
<1>1. pc[t] = "match" /\ pc[t] \in Active /\ pc[t] \in Holding /\ Live(at[t])
  BY DEF Matched, Active, Holding
<1>2. PICK f, m \in IF Alone(t) THEN {MatchOf(t)} ELSE Answers :
        /\ found' = [found EXCEPT ![t] = f] /\ field' = [field EXCEPT ![at[t]].match = m]
        /\ pc' = [pc EXCEPT ![t] = "store"] /\ raced' = Racing(t)
        /\ UNCHANGED <<routesVars, router, path, at, touched, changed>>
  BY DEF Matched, Answers
<1>3. f \in Answers /\ m \in Answers
  BY <1>1, <1>2, AtRoute
<1>4. ~raced[t] => Alone(t)
  <2> SUFFICES ASSUME ~raced[t] PROVE Alone(t)
    OBVIOUS
  <2>1. field[at[t]].match = t
    BY <1>1, AtRoute DEF Wrote
  <2>2. \A u \in Threads : u # t => ~(pc[u] = "match" /\ at[u] = at[t])
    BY <1>1 DEF RouterInv, Apart
  <2>3. Inside(at[t]) = {t}
    BY <1>1, <2>2 DEF Inside
  <2> QED
    BY <2>1, <2>3 DEF Alone
<1>5. PICK r : r = [field[at[t]] EXCEPT !.match = m]
  OBVIOUS
<1>6. r \in Told /\ field' = [field EXCEPT ![at[t]] = r] /\ r.match = m
  BY <1>1, <1>2, <1>3, <1>5, AtRoute DEF Told
<1>7. raced[t] \/ Wrote(t, "store", r, f)
  BY <1>2, <1>4, <1>6 DEF Wrote
<1>8. WriteStep(t, "store", r, f)
  BY <1>1, <1>2, <1>6 DEF WriteStep
<1> QED
  BY <1>3, <1>6, <1>7, <1>8, WriteInv DEF Holding

LEMMA KeepAnswerInv ==
  ASSUME RouterInv, NEW t \in Threads, KeepAnswer(t)
  PROVE  RouterInv'
<1>1. pc[t] = "store" /\ pc[t] \in Active /\ pc[t] \in Holding /\ Live(at[t])
  BY DEF KeepAnswer, Active, Holding
<1>2. PICK r : r = [field[at[t]] EXCEPT !.rc = found[t]]
  OBVIOUS
<1>3. /\ r \in Told /\ field' = [field EXCEPT ![at[t]] = r]
      /\ r.rc = found[t] /\ r.match = field[at[t]].match
  BY <1>1, <1>2, AtRoute DEF Told, KeepAnswer
<1>4. raced[t] \/ Wrote(t, "test", r, NoPath)
  BY <1>1, <1>3, AtRoute DEF Wrote
<1>5. WriteStep(t, "test", r, NoPath) /\ NoPath \in Answers
  BY <1>1, <1>3 DEF WriteStep, KeepAnswer, Answers
<1> QED
  BY <1>3, <1>4, <1>5, WriteInv DEF Holding

LEMMA PassInv ==
  ASSUME RouterInv, NEW t \in Threads, Pass(t)
  PROVE  RouterInv'
<1>1. RoutesInv /\ RouterTypes /\ Apart /\ \A u \in Threads : ThreadInv(u)
  BY DEF RouterInv
<1> DEFINE x == routes.next[at[t]]
<1>2. /\ pc[t] = "test" /\ Live(at[t]) /\ field[at[t]].rc = NoPath
      /\ at' = [at EXCEPT ![t] = x] /\ pc' = [pc EXCEPT ![t] = AfterPass(at'[t])]
      /\ UNCHANGED <<routesVars, router, field, path, found, raced, touched, changed>>
  BY DEF Pass, Passes
<1>3. /\ at[t] \in RouteIds /\ path[t] \in ReqPaths /\ path[t] # NoPath
      /\ router # Null /\ ~touched[t]
  BY <1>1, <1>2, RouterAssumption DEF ThreadInv, Active, Holding
<1>4. /\ at[t] \in Listed /\ Listed \subseteq RouteIds /\ added \in Nat
      /\ x # Null => x \in Listed
      /\ \A r \in Listed : at[t] < r => x # Null /\ x <= r
  BY <1>1, <1>2, LiveAreListed, NextRoute
<1> HIDE DEF x
<1>5. x \in RouteIds \cup {Null} /\ x <= added
  BY <1>1, <1>4 DEF RoutesInv, Null
<1>6. RoutesInv'
  BY <1>1, <1>2, RoutesStay
<1>7. at'[t] = x /\ pc'[t] = AfterPass(x) /\ path'[t] = path[t] /\ AfterPass(x) \in {"look", "not found"}
  BY <1>1, <1>2 DEF RouterTypes, AfterPass
<1>8. RouterTypes'
  BY <1>1, <1>2, <1>5, <1>7 DEF RouterTypes, States, Active, routesVars
<1>9. ASSUME NEW u \in Threads, u # t PROVE ThreadInv(u)'
  BY <1>1, <1>2, <1>9, OtherThread DEF RouterTypes
<1>10. ThreadInv(t)'
  <2>1. /\ Listed' = Listed /\ \A r : Live(r)' <=> Live(r)
        /\ \A n : NoneBefore(t, n)' <=> NoneBefore(t, n)
        /\ router' = router /\ touched'[t] = touched[t] /\ changed'[t] = changed[t] /\ raced'[t] = raced[t]
    BY <1>2 DEF routesVars, Live, Matches, NoneBefore, Listed
  <2>2. ASSUME ~raced[t], ~changed[t] PROVE \A r \in Listed : r <= at[t] => r < router \/ ~Matches(r, path[t])
    <3>1. NoneBefore(t, at[t])
      BY <1>1, <1>2, <2>2 DEF ThreadInv, Active, Holding
    <3>2. ~Matches(at[t], path[t])
      <4>1. Wrote(t, pc[t], field[at[t]], found[t])
        BY <1>1, <1>2, <2>2 DEF ThreadInv, Holding
      <4> QED
        BY <1>2, <1>3, <4>1 DEF Wrote, MatchOf
    <3>3. \A r \in Listed : r <= at[t] => r < at[t] \/ r = at[t]
      <4>1. at[t] \in Nat /\ \A r \in Listed : r \in Nat
        BY <1>3, <1>4, RouteNumbers
      <4> QED
        BY <4>1
    <3> QED
      BY <3>1, <3>2, <3>3 DEF NoneBefore
  <2>3. \A r \in Listed : x # Null /\ r < x => r <= at[t]
    <3> SUFFICES ASSUME NEW r \in Listed, x # Null, r < x, ~(r <= at[t]) PROVE FALSE
      OBVIOUS
    <3>1. r \in Nat /\ at[t] \in Nat /\ x \in Nat
      BY <1>3, <1>4, <1>5, RouteNumbers
    <3>2. at[t] < r
      BY <3>1
    <3>3. x <= r
      BY <1>4, <3>2
    <3> QED
      BY <3>1, <3>3
  <2>4. \A r \in Listed : x = Null => r <= at[t]
    <3> SUFFICES ASSUME NEW r \in Listed, x = Null, ~(r <= at[t]) PROVE FALSE
      OBVIOUS
    <3>1. r \in Nat /\ at[t] \in Nat
      BY <1>3, <1>4, RouteNumbers
    <3> QED
      BY <1>4, <3>1
  <2>5. ASSUME ~raced[t], ~changed[t], x # Null PROVE NoneBefore(t, x)
    BY <2>2, <2>3, <2>5 DEF NoneBefore
  <2>6. ASSUME ~raced[t], ~changed[t], x = Null PROVE NoneBefore(t, MaxRoutes + 1)
    BY <2>2, <2>4, <2>6 DEF NoneBefore
  <2>7. CASE x = Null
    <3>1. pc'[t] = "not found"
      BY <1>7, <2>7 DEF AfterPass
    <3> QED
      BY <1>3, <2>1, <2>6, <2>7, <3>1 DEF ThreadInv, Active, Holding
  <2>8. CASE x # Null
    <3>1. pc'[t] = "look" /\ x \in RouteIds /\ Live(x)
      BY <1>1, <1>4, <1>5, <1>7, <2>8, LiveAreListed DEF AfterPass
    <3>2. Live(at[t])' /\ (NoneBefore(t, at[t])' <=> NoneBefore(t, x))
      BY <1>7, <2>1, <3>1 DEF Live, NoneBefore
    <3> QED
      BY <1>3, <1>7, <2>1, <2>5, <2>8, <3>1, <3>2 DEF ThreadInv, Active, Holding
  <2> QED
    BY <2>7, <2>8
<1>11. Apart'
  BY <1>1, <1>2, <1>7, ApartStays DEF RouterTypes
<1> QED
  BY <1>6, <1>8, <1>9, <1>10, <1>11 DEF RouterInv

LEMMA ServeInv ==
  ASSUME RouterInv, NEW t \in Threads, Serve(t)
  PROVE  RouterInv'
<1>1. pc[t] = "test" /\ pc[t] \in Active /\ pc[t] \in Holding /\ Live(at[t]) /\ field[at[t]].rc # NoPath
  BY DEF Serve, Passes, Active, Holding
<1>2. PICK r : r = [field[at[t]] EXCEPT !.path = path[t]]
  OBVIOUS
<1>3. /\ r \in Told /\ field' = [field EXCEPT ![at[t]] = r]
      /\ r.path = path[t] /\ r.match = field[at[t]].match /\ r.rc = field[at[t]].rc
  BY <1>1, <1>2, AtRoute DEF Told, Serve, PathOf, Answers
<1>4. raced[t] \/ (field[at[t]].rc = MatchOf(t) /\ field[at[t]].match = MatchOf(t))
  BY <1>1, AtRoute DEF Wrote
<1>5. raced[t] \/ Wrote(t, "user", r, found[t])
  BY <1>1, <1>3, <1>4 DEF Wrote, MatchOf
<1>6. WriteStep(t, "user", r, found[t]) /\ found[t] \in Answers
  BY <1>1, <1>3, AtRoute DEF WriteStep, Serve
<1> QED
  BY <1>3, <1>5, <1>6, WriteInv DEF Holding

LEMMA SetUserInv ==
  ASSUME RouterInv, NEW t \in Threads, SetUser(t)
  PROVE  RouterInv'
<1>1. pc[t] = "user" /\ pc[t] \in Active /\ pc[t] \in Holding /\ Live(at[t])
  BY DEF SetUser, Active, Holding
<1>2. PICK r : r = [field[at[t]] EXCEPT !.user_data = t]
  OBVIOUS
<1>3. /\ r \in Told /\ field' = [field EXCEPT ![at[t]] = r] /\ r.user_data = t
      /\ r.path = field[at[t]].path /\ r.match = field[at[t]].match /\ r.rc = field[at[t]].rc
  BY <1>1, <1>2, AtRoute DEF Told, SetUser
<1>4. raced[t] \/ Wrote(t, "served", r, found[t])
  BY <1>1, <1>3, AtRoute DEF Wrote
<1>5. WriteStep(t, "served", r, found[t]) /\ found[t] \in Answers
  BY <1>1, <1>3, AtRoute DEF WriteStep, SetUser
<1> QED
  BY <1>3, <1>4, <1>5, WriteInv DEF Holding

LEMMA RouterStepInv == RouterInv /\ [RouterNext]_allRouterVars => RouterInv'
<1> SUFFICES ASSUME RouterInv, [RouterNext]_allRouterVars PROVE RouterInv'
  OBVIOUS
<1>1. ASSUME NEW t \in Threads, NEW p \in ReqPaths, Dispatch(t, p) PROVE RouterInv'
  BY <1>1, DispatchInv
<1>2. ASSUME NEW t \in Threads,
             Touch(t) \/ Look(t) \/ Matched(t) \/ KeepAnswer(t) \/ Pass(t) \/ Serve(t) \/ SetUser(t)
      PROVE  RouterInv'
  BY <1>2, TouchInv, LookInv, MatchedInv, KeepAnswerInv, PassInv, ServeInv, SetUserInv
<1>3. ASSUME NEW t \in Threads, Done(t) PROVE RouterInv'
  BY <1>3, ReturnInv DEF Done
<1>4. CASE RouterNew \/ RouterFree
  BY <1>4, RouterNewInv
<1>5. CASE Maintain
  BY <1>5, MaintainInv
<1>6. CASE UNCHANGED allRouterVars
  <2>1. UNCHANGED routesVars /\ UNCHANGED routerVars
    BY <1>6 DEF allRouterVars
  <2>2. RoutesInv'
    BY <2>1, RoutesStay DEF RouterInv
  <2>3. RouterTypes'
    BY <2>1 DEF RouterInv, RouterTypes, routerVars, routesVars
  <2>4. \A t \in Threads : ThreadInv(t)'
    BY <2>1, OtherThread DEF RouterInv, routerVars
  <2>5. Apart'
    BY <2>1, ApartStays DEF RouterInv, routerVars
  <2> QED
    BY <2>2, <2>3, <2>4, <2>5 DEF RouterInv
<1> QED
  BY <1>1, <1>2, <1>3, <1>4, <1>5, <1>6 DEF RouterNext

-----------------------------------------------------------------------------
LEMMA RouterInvAlways == RouterSpec => []RouterInv
  BY RouterInitInv, RouterStepInv, PTL DEF RouterSpec

LEMMA ServedFirst == RouterInv => FirstMatchServed
<1> SUFFICES ASSUME RouterInv, NEW t \in Threads, ~raced[t], ~changed[t]
             PROVE  /\ pc[t] \in {"user", "served"} => Matches(at[t], path[t]) /\
                         \A r \in Listed : r < at[t] => r < router \/ ~Matches(r, path[t])
                    /\ pc[t] = "not found" => \A r \in Listed : r < router \/ ~Matches(r, path[t])
  BY DEF FirstMatchServed
<1>1. ThreadInv(t) /\ RoutesInv
  BY DEF RouterInv
<1>2. \A r \in Listed : r < MaxRoutes + 1
  <2>1. Listed \subseteq 1..MaxRoutes /\ MaxRoutes \in Nat
    BY <1>1, NextRoute, RouteNumbers DEF RouteIds
  <2> QED
    BY <2>1
<1>3. pc[t] \in {"user", "served"} => Live(at[t])
  BY <1>1 DEF ThreadInv, Active, Holding
<1> QED
  BY <1>1, <1>2, <1>3 DEF ThreadInv, Active, Holding, Wrote, NoneBefore

LEMMA SeesOwnMatch == RouterInv => OwnMatch
<1> SUFFICES ASSUME RouterInv, NEW t \in Threads, pc[t] = "served", ~raced[t], Live(at[t])
             PROVE  /\ sg_route_match(at[t]) = path[t] /\ GroupsSet(at[t]) = path[t]
                    /\ sg_route_path(at[t]) = path[t] /\ sg_route_user_data(at[t]) = t
  BY DEF OwnMatch
<1>1. Wrote(t, "served", field[at[t]], found[t])
  BY DEF RouterInv, ThreadInv, Holding
<1> QED
  BY <1>1 DEF Wrote, sg_route_match, GroupsSet, sg_route_path, sg_route_user_data

LEMMA TouchedIfRemoved == RouterInv => TouchesLiveRoutes
  BY DEF RouterInv, ThreadInv, TouchesLiveRoutes

LEMMA TriedSoAlways == RouterInv => TriedInOrder
<1> SUFFICES ASSUME RouterInv PROVE TriedInOrder
  OBVIOUS
<1>1. PICK s : Chain(routes, s)
  BY DEF RouterInv, RoutesInv
<1>2. LL_Nodes(routes) = s /\ DOMAIN s = 1..Len(s) /\ Ascending(s)
  BY <1>1, NodesOfChain DEF Chain
<1> QED
  BY <1>2 DEF TriedInOrder, Ascending

LEMMA TellsPattern == RouterInv => PatternTold
<1> SUFFICES ASSUME RouterInv, NEW r \in Listed, stored[r][1] # "("
             PROVE  /\ SubSeq(stored[r], 2, Len(stored[r]) - 1) \in Patterns
                    /\ Same(SubSeq(stored[r], 2, Len(stored[r]) - 1), stored[r])
  BY DEF PatternTold, sg_route_pattern, sg_route_rawpattern
<1>1. PICK p \in Patterns : stored[r] = Enclosed(p)
  BY DEF RouterInv, RoutesInv
<1> QED
  BY <1>1, EnclosedFacts

LEMMA TypesOfRouter == RouterInv => RouterTypeOK
<1> SUFFICES ASSUME RouterInv PROVE RouterTypeOK
  OBVIOUS
<1>1. routes \in Lists
  BY NextRoute DEF RouterInv
<1>2. RouterTypes /\ \A t \in Threads : pc[t] \in Active => at[t] # Null
  BY RouteNumbers DEF RouterInv, ThreadInv
<1> QED
  BY <1>1, <1>2 DEF RouterTypeOK, RouterTypes, Lists, Told, Answers, States

(* The callback that is called is that of the first route that matches,    *)
(* and it sees its own match, unless another thread or a change of the     *)
(* routes came between (sg_router_dispatch2).                              *)
THEOREM FirstRouteServed == RouterSpec => [](FirstMatchServed /\ OwnMatch)
  BY RouterInvAlways, ServedFirst, SeesOwnMatch, PTL

(* The routes are tried in the order in which they were added, own their   *)
(* parts, have patterns that are found again, and a dispatch touches one   *)
(* that was freed only if it was removed meanwhile or the router was not   *)
(* told (sg_routes.c, sg_router_dispatch2).                                *)
THEOREM RoutesInOrder ==
  RouterSpec => [](RouterTypeOK /\ TriedInOrder /\ PartsOwned /\ PatternsOnce /\ PatternTold
                     /\ TouchesLiveRoutes)
<1>1. RouterInv => PartsOwned /\ PatternsOnce
  BY DEF RouterInv, RoutesInv
<1> QED
  BY <1>1, RouterInvAlways, TypesOfRouter, TriedSoAlways, TellsPattern, TouchedIfRemoved, PTL

-----------------------------------------------------------------------------
(* The match of a route.                                                   *)
LEMMA GreatestNumber ==
  ASSUME NEW n \in Nat, NEW T, T \subseteq 1..n, T # {}
  PROVE  \E m \in T : \A k \in T : k <= m
<1> DEFINE U == {n - k : k \in T}
<1>1. U \subseteq Nat /\ U # {}
  <2>1. \A k \in T : n - k \in Nat
    OBVIOUS
  <2> QED
    BY <2>1
<1>2. PICK u \in U : \A v \in U : u <= v
  BY <1>1, LeastNumber
<1>3. PICK m \in T : u = n - m
  BY <1>2
<1>4. ASSUME NEW k \in T PROVE k <= m
  <2>1. n - k \in U /\ n - m <= n - k
    BY <1>2, <1>3
  <2>2. k \in Nat /\ m \in Nat
    OBVIOUS
  <2> QED
    BY <2>1, <2>2
<1> QED
  BY <1>4

(* The groups past the last that is set are unset.                         *)
LEMMA MatchFacts ==
  ASSUME NEW spans \in [1..Groups -> Spans]
  PROVE  /\ Match(spans).rc \in 1..Groups + 1
         /\ \A g \in 1..Groups :
              /\ Match(spans).ovector[2 * g] = spans[g][1] /\ Match(spans).ovector[2 * g + 1] = spans[g][2]
              /\ g >= Match(spans).rc => spans[g][1] = Unset
              /\ spans[g][1] = Unset => spans[g][2] = Unset
<1> DEFINE set == {i \in 1..Groups : spans[i][1] # Unset}
           last == IF set = {} THEN 0 ELSE CHOOSE i \in set : \A j \in set : j <= i
<1>1. Groups \in Nat
  BY MatchAssumption
<1>2. last \in 0..Groups /\ \A g \in 1..Groups : g > last => g \notin set
  <2>1. CASE set = {}
    BY <1>1, <2>1
  <2>2. CASE set # {}
    <3>1. \E m \in set : \A k \in set : k <= m
      <4>1. set \subseteq 1..Groups
        OBVIOUS
      <4> HIDE DEF set
      <4> QED
        BY <1>1, <2>2, <4>1, GreatestNumber
    <3>2. last \in set /\ \A k \in set : k <= last
      <4> HIDE DEF set
      <4> QED
        BY <2>2, <3>1
    <3> HIDE DEF last
    <3>3. last \in 1..Groups
      BY <3>2
    <3>4. \A g \in 1..Groups : g > last => ~(g <= last)
      BY <1>1, <3>3
    <3> QED
      BY <1>1, <3>2, <3>3, <3>4
  <2> QED
    BY <2>1, <2>2
<1>3. /\ Match(spans).rc = 1 + last
      /\ Match(spans).ovector = [k \in 0..2 * Groups + 1 |->
            IF k \div 2 = 0 THEN Len(Subject) * k ELSE spans[k \div 2][(k % 2) + 1]]
  BY DEF Match
<1> HIDE DEF last
<1>4. ASSUME NEW g \in 1..Groups
      PROVE  Match(spans).ovector[2 * g] = spans[g][1] /\ Match(spans).ovector[2 * g + 1] = spans[g][2]
  <2>1. /\ 2 * g \in 0..2 * Groups + 1 /\ (2 * g) \div 2 = g /\ (2 * g) % 2 = 0
        /\ 2 * g + 1 \in 0..2 * Groups + 1 /\ (2 * g + 1) \div 2 = g /\ (2 * g + 1) % 2 = 1
        /\ g # 0
    BY <1>1
  <2> DEFINE o == Match(spans).ovector
             zeroth(k) == Len(Subject) * k
  <2>2. \A k \in 0..2 * Groups + 1 :
          o[k] = IF k \div 2 = 0 THEN zeroth(k) ELSE spans[k \div 2][(k % 2) + 1]
    BY <1>3
  <2> HIDE DEF o, zeroth
  <2>3. o[2 * g] = spans[g][0 + 1] /\ o[2 * g + 1] = spans[g][1 + 1]
    <3> DEFINE even == 2 * g
               odd == 2 * g + 1
    <3> HIDE DEF even, odd
    <3>1. even \in 0..2 * Groups + 1 /\ even \div 2 = g /\ even % 2 = 0
      BY <2>1 DEF even
    <3>2. odd \in 0..2 * Groups + 1 /\ odd \div 2 = g /\ odd % 2 = 1
      BY <2>1 DEF odd
    <3>3. o[even] = spans[g][0 + 1]
      BY <2>1, <2>2, <3>1
    <3>4. o[odd] = spans[g][1 + 1]
      BY <2>1, <2>2, <3>2
    <3> QED
      BY <3>3, <3>4 DEF even, odd
  <2> QED
    BY <2>3 DEF o
<1>5. ASSUME NEW g \in 1..Groups PROVE spans[g][1] = Unset => spans[g][2] = Unset
  <2>1. spans[g] \in Spans
    OBVIOUS
  <2>2. Len(Subject) \in Nat
    BY MatchAssumption
  <2> QED
    BY <2>1, <2>2 DEF Spans, Unset
<1>6. \A g \in 1..Groups : g >= 1 + last => spans[g][1] = Unset
  <2>1. \A g \in 1..Groups : g >= 1 + last => g > last
    BY <1>1, <1>2
  <2> QED
    BY <1>2, <2>1
<1>7. Match(spans).rc \in 1..Groups + 1
  BY <1>1, <1>2, <1>3
<1>8. \A g \in 1..Groups : g >= Match(spans).rc => spans[g][1] = Unset
  BY <1>3, <1>6
<1> QED
  BY <1>4, <1>5, <1>7, <1>8

(* A variable and the segment of the same group have one value, and a      *)
(* group that took no part is empty (sg_route_segments_iter,               *)
(* sg_route_vars_iter).                                                    *)
THEOREM VariablesAreSegments == match \in MatchResults => VarsAreSegments
<1> SUFFICES ASSUME match \in MatchResults PROVE VarsAreSegments
  OBVIOUS
<1> DEFINE segments == sg_route_segments_iter(Groups)
           given == sg_route_vars_iter(Groups)
           text(g) == SubSeq(From(match.ovector[2 * g]), 1, match.ovector[2 * g + 1] - match.ovector[2 * g])
<1>1. CASE match = Unmatched
  <2>1. match.rc < 0
    BY <1>1 DEF Unmatched
  <2>2. segments = << >> /\ given = << >>
    BY <2>1 DEF sg_route_segments_iter, sg_route_vars_iter
  <2> HIDE DEF segments, given
  <2>3. DOMAIN segments = {} /\ DOMAIN given = {}
    BY <2>2
  <2> QED
    BY <2>2, <2>3 DEF VarsAreSegments, segments, given
<1>2. ASSUME NEW spans \in [1..Groups -> Spans], match = Match(spans) PROVE VarsAreSegments
  <2>1. /\ match.rc \in 1..Groups + 1 /\ Groups \in Nat
        /\ \A g \in 1..Groups :
             /\ g >= match.rc => match.ovector[2 * g] = Unset
             /\ match.ovector[2 * g] = Unset => match.ovector[2 * g + 1] = Unset
    BY <1>2, MatchFacts, MatchAssumption
  <2>2. ~(match.rc < 0) /\ Calls(match.rc - 1, Groups) = match.rc - 1
    BY <2>1 DEF Calls
  <2>3. segments = [i \in 1..match.rc - 1 |-> [index |-> i - 1, text |-> text(i)]]
    BY <2>2 DEF sg_route_segments_iter, SegmentGroup
  <2>4. /\ DOMAIN NameTable = 1..Len(NameTable) /\ Len(NameTable) \in Nat
        /\ \A k \in DOMAIN NameTable : NameTable[k].group \in 1..Groups
    BY MatchAssumption
  <2>5. given = [k \in 1..Calls(Len(NameTable), Groups) |->
                   [name |-> NameTable[k].name, text |-> text(NameTable[k].group)]]
    BY <2>2 DEF sg_route_vars_iter
  <2>6. 1..Calls(Len(NameTable), Groups) \subseteq DOMAIN NameTable
    BY <2>1, <2>4 DEF Calls
  <2>7. \A g \in 1..Groups : match.ovector[2 * g] = Unset => text(g) = << >>
    <3> SUFFICES ASSUME NEW g \in 1..Groups, match.ovector[2 * g] = Unset PROVE text(g) = << >>
      OBVIOUS
    <3>1. match.ovector[2 * g + 1] - match.ovector[2 * g] = 0
      <4>1. match.ovector[2 * g + 1] = Unset
        BY <2>1
      <4> QED
        BY <4>1 DEF Unset
    <3>2. text(g) = SubSeq(From(Unset), 1, 0)
      BY <3>1
    <3>3. From(Unset) \in Seq({"?"} \cup ToSet(Subject))
      <4>1. Subject \in Seq({"?"} \cup ToSet(Subject)) /\ Len(Subject) \in Nat
        BY MatchAssumption
      <4> DEFINE C == {"?"} \cup ToSet(Subject)
                 q == <<"?">>
      <4>2. q \in Seq(C)
        OBVIOUS
      <4> HIDE DEF C, q
      <4>3. q \o Subject \in Seq(C) /\ Len(q \o Subject) = Len(q) + Len(Subject)
        BY <4>1, <4>2 DEF C
      <4> DEFINE w == q \o Subject
      <4>4. From(Unset) = SubSeq(w, 1, Len(Subject) + 1) /\ Len(w) = Len(Subject) + 1
        BY <4>3 DEF From, Unset, q
      <4> HIDE DEF w
      <4> QED
        BY <4>1, <4>3, <4>4 DEF C, w
    <3> DEFINE f == From(Unset)
    <3> HIDE DEF f, text
    <3> QED
      BY <3>2, <3>3 DEF f
  <2> HIDE DEF text, segments, given
  <2>8. \A i \in DOMAIN segments : segments[i].index = i - 1
    BY <2>3
  <2>9. ASSUME NEW k \in DOMAIN given
        PROVE  LET g == NameTable[k].group IN
               /\ given[k].text = IF g < match.rc THEN segments[g].text ELSE << >>
               /\ match.ovector[2 * g] = Unset => given[k].text = << >>
    <3> DEFINE g == NameTable[k].group
    <3>1. k \in 1..Calls(Len(NameTable), Groups) /\ g \in 1..Groups /\ given[k].text = text(g)
      BY <2>4, <2>5, <2>6
    <3> HIDE DEF g
    <3>2. CASE g < match.rc
      <4>1. g \in 1..match.rc - 1
        BY <2>1, <3>1, <3>2
      <4> QED
        BY <2>3, <2>7, <3>1, <3>2, <4>1 DEF g
    <3>3. CASE ~(g < match.rc)
      <4>1. g >= match.rc
        BY <2>1, <3>1, <3>3
      <4> QED
        BY <2>1, <2>7, <3>1, <3>3, <4>1 DEF g
    <3> QED
      BY <3>2, <3>3
  <2> QED
    BY <2>2, <2>8, <2>9 DEF VarsAreSegments, segments, given
<1> QED
  BY <1>1, <1>2 DEF MatchResults
=============================================================================
