----------------------------- MODULE RouteMatch -----------------------------
(* What the callback of a route may ask for once its path has matched      *)
(* (sg_routes.c): the segments, which are the groups of the pattern, and   *)
(* the variables, which are the groups that have a name.  PCRE2 leaves the *)
(* offsets of the groups in the ovector, Unset for a group that took no    *)
(* part.                                                                   *)
EXTENDS Integers, SequencesExt

CONSTANTS Subject,    \* the path, a sequence of characters
          Groups,     \* the number of groups
          NameTable   \* the names and their groups, as PCRE2 lists them

ASSUME MatchAssumption ==
  /\ Subject \in Seq(ToSet(Subject)) /\ NameTable \in Seq(ToSet(NameTable))
  /\ Groups \in Nat /\ \A k \in DOMAIN NameTable : NameTable[k].group \in 1..Groups

VARIABLE match   \* rc and the ovector

Unset == -1   \* PCRE2_UNSET
Unmatched == [rc |-> -1, ovector |-> [i \in 0..2 * Groups + 1 |-> Unset]]

(* PCRE2: a group is a piece of the path or unset, rc is one more than the *)
(* last group that is set.                                                 *)
Spans == {s \in (0..Len(Subject)) \X (0..Len(Subject)) : s[1] <= s[2]} \cup {<<Unset, Unset>>}
Match(spans) ==
  LET set == {i \in 1..Groups : spans[i][1] # Unset}
  IN  [rc |-> 1 + (IF set = {} THEN 0 ELSE CHOOSE i \in set : \A j \in set : j <= i),
       ovector |-> [k \in 0..2 * Groups + 1 |->
                      IF k \div 2 = 0 THEN Len(Subject) * k ELSE spans[k \div 2][(k % 2) + 1]]]
MatchResults == {Unmatched} \cup {Match(spans) : spans \in [1..Groups -> Spans]}

(* Memory from an offset of the path on: Unset is the byte before it.      *)
From(off) == SubSeq(<<"?">> \o Subject, off + 2, Len(Subject) + 1)
Calls(told, last) == IF last < told THEN last ELSE told

(* sg_route_segments_iter: group i is copied to the end of the path and    *)
(* then cut.  The callback is called up to last times.                     *)
SegmentGroup(i) == i
sg_route_segments_iter(last) ==
  LET text(g) == SubSeq(From(match.ovector[2 * g]), 1, match.ovector[2 * g + 1] - match.ovector[2 * g])
  IN  IF match.rc < 0 THEN << >>
      ELSE [i \in 1..Calls(match.rc - 1, last) |->
              [index |-> i - 1, text |-> text(SegmentGroup(i))]]

(* sg_route_vars_iter: the groups of the table are copied.                 *)
sg_route_vars_iter(last) ==
  LET text(g) == LET n == match.ovector[2 * g + 1] - match.ovector[2 * g]
                 IN  SubSeq(From(match.ovector[2 * g]), 1, n)
  IN  IF match.rc < 0 THEN << >>
      ELSE [k \in 1..Calls(Len(NameTable), last) |->
              [name |-> NameTable[k].name, text |-> text(NameTable[k].group)]]

-----------------------------------------------------------------------------
(* A variable and the segment of the same group have one value, one that   *)
(* has no segment is empty, and so is every group that took no part,       *)
(* although its copy begins before the path; a path that did not match has *)
(* neither (sg_routes.c:167, 198).                                         *)
VarsAreSegments ==
  LET segments == sg_route_segments_iter(Groups)
      given    == sg_route_vars_iter(Groups)
  IN  /\ match.rc < 0 => segments = << >> /\ given = << >>
      /\ \A i \in DOMAIN segments : segments[i].index = i - 1
      /\ \A k \in DOMAIN given :
           LET g == NameTable[k].group IN
           /\ given[k].text = IF g < match.rc THEN segments[g].text ELSE << >>
           /\ match.ovector[2 * g] = Unset => given[k].text = << >>
=============================================================================
