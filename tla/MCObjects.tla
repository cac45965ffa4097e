----------------------------- MODULE MCObjects -----------------------------
(* Small instances of the parts of Objects.  Two paths have the same       *)
(* entry-point; two names of pairs differ in case only, and the hash puts  *)
(* the two keys in one bucket until the table has eight.  Of four patterns *)
(* one begins like another, one is in parentheses, one PCRE2 refuses.      *)
EXTENDS Objects

MCNameOf ==
  [p \in Paths |-> CASE p = "/" -> 1 [] p = "/a/b" -> 2 [] p \in {"/b", "b"} -> 3 [] p = "c" -> 4]

MCPairs == 1..4
MCNewPairs == {[name |-> "a", val |-> 1], [name |-> "A", val |-> 2], [name |-> "b", val |-> 1]}
MCLower == [n \in Names |-> IF n = "b" THEN "b" ELSE "a"]
MCHash == [k \in {"a", "b"} |-> IF k = "a" THEN 1 ELSE 5]

MCPatterns == {<<"a">>, <<"a", "b">>, <<"(", "a", ")">>, <<"a", ")">>}
MCMatchedBy == [p \in ReqPaths |-> IF p = "a" THEN {<<"a">>, <<"(", "a", ")">>}
                                   ELSE {<<"a", "b">>, <<"(", "a", ")">>}]

MCSubject == <<"/", "a", "b">>
MCNameTable == <<[name |-> "last", group |-> 3], [name |-> "name", group |-> 1]>>

MCTexts == {<< >>, <<1>>, <<2, 1>>, <<1, 2, 3, 4>>}

(* No definition tells the threads, or the connections, apart.             *)
MCSymmetry == Permutations(Threads) \cup Permutations(Conns)
=============================================================================
