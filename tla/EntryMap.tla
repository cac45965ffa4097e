------------------------------ MODULE EntryMap ------------------------------
(* What the entry-points promise: a finite map from names to user data,    *)
(* where a name that is there is not added again, until memory runs out.   *)
CONSTANTS EntryNames, Datas

VARIABLES map,  \* a function from some names to data
          up      \* whether the map is there

MapInit == map = [n \in {} |-> n] /\ up = TRUE

MapAdd(n, d) ==
  /\ up /\ n \in EntryNames \ DOMAIN map /\ d \in Datas
  /\ map' = [k \in DOMAIN map \cup {n} |-> IF k = n THEN d ELSE map[k]]
  /\ up' = up
MapRemove(n) ==
  /\ up /\ n \in DOMAIN map
  /\ map' = [k \in DOMAIN map \ {n} |-> map[k]]
  /\ up' = up
MapSet(n, d) ==
  /\ up /\ n \in DOMAIN map /\ d \in Datas
  /\ map' = [map EXCEPT ![n] = d]
  /\ up' = up
MapClear == up /\ map' = [n \in {} |-> n] /\ up' = up
MapLost == up' = FALSE /\ map' = [n \in {} |-> n]

MapNext ==
  \/ MapClear \/ MapLost
  \/ \E n \in EntryNames, d \in Datas : MapAdd(n, d) \/ MapSet(n, d)
  \/ \E n \in EntryNames : MapRemove(n)

MapSpec == MapInit /\ [][MapNext]_<<map, up>>
=============================================================================
