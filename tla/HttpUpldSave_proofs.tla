------------------------ MODULE HttpUpldSave_proofs ------------------------
(* Proofs about HttpUpldSave, for any uploads, destinations and calls.     *)
EXTENDS HttpUpldSave, FiniteSetTheorems, TLAPS

-----------------------------------------------------------------------------
(* The inductive invariant.                                                *)

Saved(u) == \E w \in saves : w[1] = u

(* An upload whose request lives is in its temporary file or was saved.    *)
TempOrSaved ==
  \A u \in Uplds : /\ pc[u] \notin {"new", "freed"} => (u \in temps <=> ~Saved(u))
                   /\ pc[u] = "new" => ~Saved(u)

(* What was not saved is at no destination, what was is at one.            *)
OnePlace ==
  \A u \in Uplds :
    /\ ~Saved(u) => \A p \in Paths : file[p] # u
    /\ \A p, q \in Paths : file[p] = u /\ file[q] = u => p = q

(* Between two system calls of a save its path is known, it removes a file *)
(* only if it was told to overwrite, and has found the destination free of *)
(* the file of the application before it renames.                          *)
InCall ==
  \A u \in Uplds :
    /\ pc[u] \in {"stat", "access", "unlink", "rename"} => path[u] \in Paths
    /\ pc[u] = "unlink" => over[u]
    /\ pc[u] = "rename" => file[path[u]] # Old

IInv == TypeOK /\ TempOrSaved /\ OnePlace /\ InCall /\ LossReported

-----------------------------------------------------------------------------
LEMMA InitInv == Init => IInv
<1> SUFFICES ASSUME Init PROVE IInv
  OBVIOUS
<1>1. TypeOK
  BY SaveAssumption DEF Init, TypeOK
<1>2. TempOrSaved /\ LossReported
  BY SaveAssumption DEF Init, TempOrSaved, LossReported, HadFile, Saved
<1>3. OnePlace
  BY SaveAssumption DEF Init, OnePlace, Saved
<1>4. InCall
  BY DEF Init, InCall
<1> QED
  BY <1>1, <1>2, <1>3, <1>4 DEF IInv

(* A step that changes neither a destination nor the temporary files keeps *)
(* what is said of them, if no upload changes between before, during and   *)
(* after its request.                                                      *)
LEMMA CallInv ==
  ASSUME IInv, TypeOK', NEW u \in Uplds, NEW label,
         label \in {"idle", "stat", "access", "unlink", "rename"},
         pc[u] \notin {"new", "freed"}, pc' = [pc EXCEPT ![u] = label],
         file' = file, temps' = temps, saves' = saves, opened' \subseteq opened,
         failed' = failed \cup (IF pc[u] = "rename" THEN {<<u, path[u], over[u]>>} ELSE {}),
         \A v \in Uplds : v # u => path'[v] = path[v] /\ over'[v] = over[v],
         label # "idle" => path'[u] \in Paths,
         label = "unlink" => over'[u],
         label = "rename" => file[path'[u]] # Old
  PROVE  IInv'
<1>1. \A v \in Uplds : pc'[v] = IF v = u THEN label ELSE pc[v]
  BY DEF IInv, TypeOK
<1>2. TempOrSaved'
  BY <1>1 DEF IInv, TempOrSaved, Saved
<1>3. OnePlace'
  BY DEF IInv, OnePlace, Saved
<1>4. InCall'
  BY <1>1 DEF IInv, InCall
<1>5. LossReported'
  <2> SUFFICES ASSUME NEW p \in Paths, HadFile(p), file[p] = None
               PROVE  \/ \E v \in Uplds : path'[v] = p /\ over'[v] /\ pc'[v] = "rename"
                      \/ \E w \in failed' : w[2] = p /\ w[3]
    BY DEF LossReported, HadFile
  <2>1. CASE \E w \in failed : w[2] = p /\ w[3]
    BY <2>1
  <2>2. ASSUME NEW v \in Uplds, path[v] = p, over[v], pc[v] = "rename", v # u
        PROVE  path'[v] = p /\ over'[v] /\ pc'[v] = "rename"
    BY <1>1, <2>2
  <2>3. CASE path[u] = p /\ over[u] /\ pc[u] = "rename"
    <3>1. <<u, path[u], over[u]>> \in failed'
      BY <2>3
    <3> QED
      BY <2>3, <3>1
  <2> QED
    BY <2>1, <2>2, <2>3 DEF IInv, LossReported
<1> QED
  BY <1>2, <1>3, <1>4, <1>5 DEF IInv

LEMMA TypeStep == TypeOK /\ InCall /\ [Next]_vars => TypeOK'
<1> SUFFICES ASSUME TypeOK, InCall, [Next]_vars PROVE TypeOK'
  OBVIOUS
<1> USE SaveAssumption DEF TypeOK, Results
<1>1. ASSUME NEW u \in Uplds, Open(u) PROVE TypeOK'
  BY <1>1 DEF Open, callVars
<1>2. ASSUME NEW u \in Uplds, SaveClosed(u) PROVE TypeOK'
  BY <1>2 DEF SaveClosed, Call, Return, Goto
<1>3. ASSUME NEW u \in Uplds, SaveClose(u) PROVE TypeOK'
  BY <1>3 DEF SaveClose, Call, Goto
<1>4. ASSUME NEW u \in Uplds, SaveCloseFails(u) PROVE TypeOK'
  BY <1>4 DEF SaveCloseFails, Call, Return, Goto
<1>5. ASSUME NEW u \in Uplds, Stat(u) PROVE TypeOK'
  BY <1>5 DEF Stat, Return, Goto, callVars
<1>6. ASSUME NEW u \in Uplds, Access(u) PROVE TypeOK'
  BY <1>6 DEF Access, Return, Goto, callVars
<1>7. ASSUME NEW u \in Uplds, Unlink(u) PROVE TypeOK'
  BY <1>7 DEF Unlink, Goto, callVars
<1>8. ASSUME NEW u \in Uplds, Rename(u) PROVE TypeOK'
  BY <1>8 DEF Rename, Return, Goto, callVars, InCall
<1>9. ASSUME NEW u \in Uplds, RenameFails(u) PROVE TypeOK'
  BY <1>9 DEF RenameFails, Return, Goto, callVars, InCall
<1>10. ASSUME NEW u \in Uplds, Free(u) PROVE TypeOK'
  BY <1>10 DEF Free, Goto, callVars
<1>11. CASE UNCHANGED vars
  BY <1>11 DEF vars
<1> QED
  BY <1>1, <1>2, <1>3, <1>4, <1>5, <1>6, <1>7, <1>8, <1>9, <1>10, <1>11 DEF Next

LEMMA StepInv == IInv /\ [Next]_vars => IInv'
<1> SUFFICES ASSUME IInv, [Next]_vars PROVE IInv'
  OBVIOUS
<1>0. TypeOK'
  BY TypeStep DEF IInv
<1>t. TypeOK
  BY DEF IInv
<1>1. ASSUME NEW u \in Uplds, Open(u) PROVE IInv'
  <2>1. /\ \A v \in Uplds : pc'[v] = IF v = u THEN "idle" ELSE pc[v]
        /\ temps' = temps \cup {u} /\ opened' = opened \cup {u} /\ pc[u] = "new"
        /\ file' = file /\ path' = path /\ over' = over /\ saves' = saves /\ failed' = failed
    BY <1>1, <1>t DEF Open, callVars, TypeOK
  <2>2. TempOrSaved' /\ OnePlace' /\ InCall' /\ LossReported'
    BY <2>1 DEF IInv, TempOrSaved, OnePlace, InCall, LossReported, HadFile, Saved
  <2> QED
    BY <1>0, <2>2 DEF IInv
<1>2. ASSUME NEW u \in Uplds, SaveClosed(u) PROVE IInv'
  <2>1. /\ pc[u] = "idle" /\ pc' = [pc EXCEPT ![u] = "idle"]
        /\ UNCHANGED <<file, temps, opened, saves, failed>>
        /\ \A v \in Uplds : v # u => path'[v] = path[v] /\ over'[v] = over[v]
    BY <1>t, <1>2 DEF SaveClosed, Call, Return, Goto, TypeOK
  <2>2. failed' = failed \cup (IF pc[u] = "rename" THEN {<<u, path[u], over[u]>>} ELSE {})
    BY <2>1
  <2> QED
    BY <1>0, <2>1, <2>2, CallInv
<1>3. ASSUME NEW u \in Uplds, SaveClose(u) PROVE IInv'
  <2>1. PICK p \in Paths, o \in Overwrites :
          /\ path' = [path EXCEPT ![u] = p] /\ over' = [over EXCEPT ![u] = o]
          /\ pc[u] = "idle" /\ pc' = [pc EXCEPT ![u] = "stat"]
          /\ opened' = opened \ {u} /\ UNCHANGED <<file, temps, saves, failed>>
    BY <1>3 DEF SaveClose, Call, Goto
  <2>2. path'[u] \in Paths /\ \A v \in Uplds : v # u => path'[v] = path[v] /\ over'[v] = over[v]
    BY <1>t, <2>1 DEF TypeOK
  <2> QED
    BY <1>0, <2>1, <2>2, CallInv
<1>4. ASSUME NEW u \in Uplds, SaveCloseFails(u) PROVE IInv'
  <2>1. /\ pc[u] = "idle" /\ pc' = [pc EXCEPT ![u] = "idle"]
        /\ UNCHANGED <<file, temps, opened, saves, failed>>
        /\ \A v \in Uplds : v # u => path'[v] = path[v] /\ over'[v] = over[v]
    BY <1>t, <1>4 DEF SaveCloseFails, Call, Return, Goto, TypeOK
  <2>2. failed' = failed \cup (IF pc[u] = "rename" THEN {<<u, path[u], over[u]>>} ELSE {})
    BY <2>1
  <2> QED
    BY <1>0, <2>1, <2>2, CallInv
<1>5. ASSUME NEW u \in Uplds, Stat(u) PROVE IInv'
  <2>1. PICK label \in {"idle", "access"} :
          /\ pc[u] = "stat" /\ pc' = [pc EXCEPT ![u] = label]
          /\ UNCHANGED <<file, temps, opened, path, over, saves, failed>>
    BY <1>5 DEF Stat, Return, Goto, callVars
  <2>2. path[u] \in Paths
    BY <2>1 DEF IInv, InCall
  <2> QED
    BY <1>0, <2>1, <2>2, CallInv
<1>6. ASSUME NEW u \in Uplds, Access(u) PROVE IInv'
  <2>1. pc[u] = "access" /\ path[u] \in Paths /\ UNCHANGED <<file, temps, opened, path, over, saves, failed>>
    BY <1>6 DEF Access, callVars, IInv, InCall
  <2>2. PICK label \in {"idle", "unlink", "rename"} :
          /\ pc' = [pc EXCEPT ![u] = label]
          /\ label = "unlink" => over[u]
          /\ label = "rename" => file[path[u]] = None
    BY <1>6 DEF Access, Return, Goto
  <2> QED
    BY <1>0, <2>1, <2>2, CallInv, SaveAssumption
<1>7. ASSUME NEW u \in Uplds, Unlink(u) PROVE IInv'
  <2>1. /\ pc[u] = "unlink" /\ path[u] \in Paths
        /\ \A v \in Uplds : pc'[v] = IF v = u THEN "rename" ELSE pc[v]
        /\ \A p \in Paths : file'[p] = IF p = path[u] THEN None ELSE file[p]
        /\ UNCHANGED <<temps, opened, path, over, saves, failed>>
    BY <1>t, <1>7 DEF Unlink, Goto, callVars, TypeOK, IInv, InCall
  <2>2. TempOrSaved'
    BY <2>1 DEF IInv, TempOrSaved, Saved
  <2>5. over[u]
    BY <2>1 DEF IInv, InCall
  <2>6. LossReported'
    <3> SUFFICES ASSUME NEW p \in Paths, HadFile(p), file'[p] = None
                 PROVE  \/ \E v \in Uplds : path[v] = p /\ over[v] /\ pc'[v] = "rename"
                        \/ \E w \in failed : w[2] = p /\ w[3]
      BY <2>1 DEF LossReported, HadFile
    <3>1. CASE p = path[u]
      BY <2>1, <2>5, <3>1
    <3>2. CASE p # path[u]
      BY <2>1, <3>2 DEF IInv, LossReported
    <3> QED
      BY <3>1, <3>2
  <2>3. OnePlace'
    BY <2>1, SaveAssumption DEF IInv, OnePlace, Saved
  <2>4. InCall'
    BY <2>1, SaveAssumption DEF IInv, InCall
  <2> QED
    BY <1>0, <2>2, <2>3, <2>4, <2>6 DEF IInv
<1>8. ASSUME NEW u \in Uplds, Rename(u) PROVE IInv'
  <2>1. /\ pc[u] = "rename" /\ path[u] \in Paths /\ u \in temps
        /\ \A v \in Uplds : pc'[v] = IF v = u THEN "idle" ELSE pc[v]
        /\ \A p \in Paths : file'[p] = IF p = path[u] THEN u ELSE file[p]
        /\ temps' = temps \ {u} /\ saves' = saves \cup {<<u, path[u], over[u]>>}
        /\ UNCHANGED <<opened, path, over, failed>>
    BY <1>t, <1>8 DEF Rename, Return, Goto, callVars, TypeOK, IInv, InCall
  <2>2. \A v \in Uplds : Saved(v)' <=> v = u \/ Saved(v)
    <3>1. ASSUME NEW v \in Uplds, Saved(v)' PROVE v = u \/ Saved(v)
      <4>1. PICK w \in saves' : w[1] = v
        BY <3>1 DEF Saved
      <4>2. CASE w \in saves
        BY <4>1, <4>2 DEF Saved
      <4>3. CASE w = <<u, path[u], over[u]>>
        BY <4>1, <4>3
      <4> QED
        BY <2>1, <4>1, <4>2, <4>3
    <3>2. ASSUME NEW v \in Uplds, Saved(v) PROVE Saved(v)'
      BY <2>1, <3>2 DEF Saved
    <3>3. Saved(u)'
      <4>1. <<u, path[u], over[u]>> \in saves' /\ <<u, path[u], over[u]>>[1] = u
        BY <2>1
      <4> QED
        BY <4>1 DEF Saved
    <3> QED
      BY <3>1, <3>2, <3>3
  <2>3. ~Saved(u) /\ \A p \in Paths : file[p] # u
    BY <2>1 DEF IInv, TempOrSaved, OnePlace
  <2>4. TempOrSaved'
    BY <2>1, <2>2 DEF IInv, TempOrSaved
  <2>7. LossReported'
    <3> SUFFICES ASSUME NEW p \in Paths, HadFile(p)', file'[p] = None
                 PROVE  \/ \E v \in Uplds : path[v] = p /\ over[v] /\ pc'[v] = "rename"
                        \/ \E w \in failed : w[2] = p /\ w[3]
      BY <2>1 DEF LossReported
    <3>1. p # path[u] /\ file[p] = None
      BY <2>1, SaveAssumption
    <3>2. HadFile(p)
      BY <2>1, <3>1 DEF HadFile
    <3>3. CASE \E w \in failed : w[2] = p /\ w[3]
      BY <3>3
    <3>4. ASSUME NEW v \in Uplds, path[v] = p, over[v], pc[v] = "rename" PROVE pc'[v] = "rename"
      BY <2>1, <3>1, <3>4
    <3> QED
      BY <3>1, <3>2, <3>3, <3>4 DEF IInv, LossReported
  <2>5. OnePlace'
    BY <2>1, <2>2, <2>3 DEF IInv, OnePlace
  <2>6. InCall'
    BY <2>1, SaveAssumption DEF IInv, InCall
  <2> QED
    BY <1>0, <2>4, <2>5, <2>6, <2>7 DEF IInv
<1>9. ASSUME NEW u \in Uplds, RenameFails(u) PROVE IInv'
  BY <1>0, <1>9, CallInv DEF RenameFails, Return, Goto, callVars
<1>10. ASSUME NEW u \in Uplds, Free(u) PROVE IInv'
  <2>1. /\ \A v \in Uplds : pc'[v] = IF v = u THEN "freed" ELSE pc[v]
        /\ temps' = temps \ {u} /\ opened' = opened \ {u} /\ pc[u] = "idle"
        /\ UNCHANGED <<file, path, over, saves, failed>>
    BY <1>t, <1>10 DEF Free, Goto, callVars, TypeOK
  <2>2. TempOrSaved' /\ OnePlace' /\ InCall'
    BY <2>1 DEF IInv, TempOrSaved, OnePlace, InCall, Saved
  <2>3. LossReported'
    BY <2>1 DEF IInv, LossReported, HadFile
  <2> QED
    BY <1>0, <2>2, <2>3 DEF IInv
<1>11. CASE UNCHANGED vars
  BY <1>11 DEF vars, IInv, TypeOK, TempOrSaved, OnePlace, InCall, LossReported, HadFile, Saved
<1> QED
  BY <1>1, <1>2, <1>3, <1>4, <1>5, <1>6, <1>7, <1>8, <1>9, <1>10, <1>11 DEF Next

LEMMA InvAlways == Spec => []IInv
BY InitInv, StepInv, PTL DEF Spec

-----------------------------------------------------------------------------
(* The variables of the uploads directory keep their types.                *)
THEOREM TypeCorrect == Spec => []TypeOK
<1>1. IInv => TypeOK
  BY DEF IInv
<1> QED
  BY <1>1, InvAlways, PTL

(* The contents of an upload are in one place as long as its request       *)
(* lives, however the saves of all requests interleave and whichever       *)
(* system call fails (sg__httpupld_save_as_cb).                            *)
THEOREM OnePlaceAlways == Spec => []UploadInOnePlace
<1>1. IInv => UploadInOnePlace
  <2> SUFFICES ASSUME IInv, NEW u \in Uplds
               PROVE  /\ pc[u] \notin {"new", "freed"} => (u \in temps <=> ~Saved(u))
                      /\ ~Saved(u) => {p \in Paths : file[p] = u} = {}
                      /\ Cardinality({p \in Paths : file[p] = u}) <= 1
    BY DEF UploadInOnePlace, Saved
  <2>1. /\ pc[u] \notin {"new", "freed"} => (u \in temps <=> ~Saved(u))
        /\ ~Saved(u) => {p \in Paths : file[p] = u} = {}
    BY DEF IInv, TempOrSaved, OnePlace
  <2> DEFINE places == {p \in Paths : file[p] = u}
  <2>2. ASSUME places = {} PROVE Cardinality(places) <= 1
    <3>1. Cardinality({}) = 0
      BY FS_EmptySet
    <3> QED
      BY <2>2, <3>1
  <2>3. ASSUME NEW q \in Paths, file[q] = u PROVE Cardinality(places) <= 1
    <3>1. places = {q}
      BY <2>3 DEF IInv, OnePlace
    <3>2. Cardinality(places) = 1
      BY <3>1, FS_Singleton
    <3> QED
      BY <3>2
  <2>4. Cardinality(places) <= 1
    BY <2>2, <2>3
  <2> QED
    BY <2>1, <2>4
<1> QED
  BY <1>1, InvAlways, PTL

(* No file is lost in silence: one that is gone from its path was          *)
(* overwritten by a save that still runs, or that told of its failure,     *)
(* however the saves interleave (sg__httpupld_save_as_cb).                 *)
THEOREM LossAlwaysReported == Spec => []LossReported
<1>1. IInv => LossReported
  BY DEF IInv
<1> QED
  BY <1>1, InvAlways, PTL

(* A file of the application is touched only by a save that was told to    *)
(* overwrite its path.                                                     *)
THEOREM OldFilesKept == Spec => OldFileKept
<1> DEFINE Kept ==
      \A p \in Existing :
        file[p] = Old /\ file'[p] # Old =>
          \E u \in Uplds : over[u] /\ path[u] = p /\ pc[u] = "unlink"
<1>1. IInv /\ [Next]_vars => [Kept]_vars
  <2> SUFFICES ASSUME IInv, Next PROVE Kept
    BY DEF vars
  <2>1. ASSUME file' = file PROVE Kept
    BY <2>1
  <2>2. ASSUME NEW u \in Uplds, Unlink(u) PROVE Kept
    <3>1. pc[u] = "unlink" /\ over[u]
      BY <2>2 DEF Unlink, IInv, InCall
    <3>2. \A p \in Paths : file'[p] = IF p = path[u] THEN None ELSE file[p]
      BY <2>2 DEF Unlink, IInv, TypeOK
    <3> QED
      BY <3>1, <3>2, SaveAssumption
  <2>3. ASSUME NEW u \in Uplds, Rename(u) PROVE Kept
    <3>1. file[path[u]] # Old
      BY <2>3 DEF Rename, IInv, InCall
    <3>2. \A p \in Paths : file'[p] = IF p = path[u] THEN u ELSE file[p]
      BY <2>3 DEF Rename, IInv, TypeOK
    <3> QED
      BY <3>1, <3>2, SaveAssumption
  <2>4. ASSUME NEW u \in Uplds,
               Open(u) \/ SaveClosed(u) \/ SaveClose(u) \/ SaveCloseFails(u) \/ Stat(u) \/ Access(u)
                 \/ RenameFails(u) \/ Free(u)
        PROVE  file' = file
    BY <2>4 DEF Open, SaveClosed, SaveClose, SaveCloseFails, Stat, Access, RenameFails, Free
  <2> QED
    BY <2>1, <2>2, <2>3, <2>4 DEF Next
<1> QED
  BY <1>1, InvAlways, PTL DEF Spec, OldFileKept
=============================================================================
