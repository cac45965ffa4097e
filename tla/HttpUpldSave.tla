---------------------------- MODULE HttpUpldSave ----------------------------
(***************************************************************************)
(* The uploads directory: the default upload callbacks of sg_httpuplds.c   *)
(* called by several requests, each on a thread of its own.  An upload is  *)
(* written to a temporary file, which sg_httpupld_save(_as) closes and     *)
(* moves to its destination and the end of the request removes.            *)
(*                                                                         *)
(* One action per system call, since other threads run between two of      *)
(* them.  A file is abstracted to whose contents it holds.  mkstemp does   *)
(* not give out a name twice.                                              *)
(***************************************************************************)
EXTENDS Naturals, FiniteSets

CONSTANTS
  Uplds,       \* the uploads, one for each request
  Paths,       \* destinations
  Dirs,        \* destinations that are directories
  Existing,    \* destinations where the application already has a file
  Old, None,   \* contents of such a file; no file
  Overwrites,  \* the values of "overwritten" the application passes
  MaxCalls,    \* bound on the saves of one upload
  IoErrors     \* close(2) and rename(2) may fail

ASSUME SaveAssumption ==
  /\ Dirs \subseteq Paths /\ Existing \subseteq Paths \ Dirs
  /\ Old \notin Uplds /\ None \notin Uplds /\ Old # None
  /\ Overwrites \subseteq BOOLEAN /\ MaxCalls \in Nat /\ IoErrors \in BOOLEAN

VARIABLES
  file,    \* file[p]: whose contents path p holds
  temps,   \* uploads whose temporary file exists
  opened,  \* uploads with upld->fd >= 0
  pc,      \* the next system call of each upload's thread
  path,    \* the arguments of its last save
  over,
  ret,     \* what its last save returned, None while it runs
  calls,   \* saves so far
  saves,   \* the saves that succeeded: upload, path, overwritten
  failed   \* those that rename(2) failed

vars == <<file, temps, opened, pc, path, over, ret, calls, saves, failed>>
callVars == <<path, over, calls>>

Results == {"OK", "EINVAL", "EISDIR", "EEXIST", "EIO"}

TypeOK ==
  /\ file \in [Paths -> Uplds \cup {Old, None}]
  /\ temps \in SUBSET Uplds /\ opened \in SUBSET Uplds
  /\ pc \in [Uplds -> {"new", "idle", "stat", "access", "unlink", "rename", "freed"}]
  /\ path \in [Uplds -> Paths \cup {None}]
  /\ over \in [Uplds -> BOOLEAN]
  /\ ret \in [Uplds -> Results \cup {None}]
  /\ calls \in [Uplds -> 0..MaxCalls]
  /\ saves \in SUBSET (Uplds \X Paths \X BOOLEAN)
  /\ failed \in SUBSET (Uplds \X Paths \X BOOLEAN)

Init ==
  /\ file = [p \in Paths |-> IF p \in Existing THEN Old ELSE None]
  /\ temps = {} /\ opened = {}
  /\ pc = [u \in Uplds |-> "new"]
  /\ path = [u \in Uplds |-> None]
  /\ over = [u \in Uplds |-> FALSE]
  /\ ret = [u \in Uplds |-> None]
  /\ calls = [u \in Uplds |-> 0]
  /\ saves = {} /\ failed = {}

-----------------------------------------------------------------------------
(* sg__httpupld_cb: mkstemp.  Its failures are UploadRefused of HttpAccess. *)
Open(u) ==
  /\ pc[u] = "new"
  /\ pc' = [pc EXCEPT ![u] = "idle"]
  /\ temps' = temps \cup {u} /\ opened' = opened \cup {u}
  /\ UNCHANGED <<file, callVars, ret, saves, failed>>

Call(u) ==
  /\ pc[u] = "idle" /\ calls[u] < MaxCalls
  /\ calls' = [calls EXCEPT ![u] = @ + 1]
  /\ \E p \in Paths : path' = [path EXCEPT ![u] = p]
  /\ \E o \in Overwrites : over' = [over EXCEPT ![u] = o]

Goto(u, label) == pc' = [pc EXCEPT ![u] = label]

Return(u, result) == ret' = [ret EXCEPT ![u] = result] /\ Goto(u, "idle")

(* A save whose descriptor was closed before.                              *)
SaveClosed(u) ==
  /\ Call(u) /\ u \notin opened
  /\ Return(u, "EINVAL")
  /\ UNCHANGED <<file, temps, opened, saves, failed>>

SaveClose(u) ==
  /\ Call(u) /\ u \in opened
  /\ opened' = opened \ {u}
  /\ ret' = [ret EXCEPT ![u] = None] /\ Goto(u, "stat")
  /\ UNCHANGED <<file, temps, saves, failed>>

(* close(2) fails: upld->fd keeps its value.                               *)
SaveCloseFails(u) ==
  /\ IoErrors /\ Call(u) /\ u \in opened
  /\ Return(u, "EIO")
  /\ UNCHANGED <<file, temps, opened, saves, failed>>

Stat(u) ==
  /\ pc[u] = "stat"
  /\ IF path[u] \in Dirs THEN Return(u, "EISDIR") ELSE Goto(u, "access") /\ UNCHANGED ret
  /\ UNCHANGED <<file, temps, opened, callVars, saves, failed>>

(* Fault: the destination is removed whatever "overwritten" says.          *)
Access_unasked(u) ==
  /\ pc[u] = "access"
  /\ Goto(u, IF file[path[u]] = None THEN "rename" ELSE "unlink")
  /\ UNCHANGED <<file, temps, opened, callVars, ret, saves, failed>>

Access(u) ==
  /\ pc[u] = "access"
  /\ \/ file[path[u]] = None /\ Goto(u, "rename") /\ UNCHANGED ret
     \/ file[path[u]] # None /\ over[u] /\ Goto(u, "unlink") /\ UNCHANGED ret
     \/ file[path[u]] # None /\ ~over[u] /\ Return(u, "EEXIST")
  /\ UNCHANGED <<file, temps, opened, callVars, saves, failed>>

(* Fault: upld->path is removed instead of path.                           *)
Unlink_temp(u) ==
  /\ pc[u] = "unlink"
  /\ temps' = temps \ {u}
  /\ Goto(u, "rename")
  /\ UNCHANGED <<file, opened, callVars, ret, saves, failed>>

Unlink(u) ==
  /\ pc[u] = "unlink"
  /\ file' = [file EXCEPT ![path[u]] = None]
  /\ Goto(u, "rename")
  /\ UNCHANGED <<temps, opened, callVars, ret, saves, failed>>

(* rename(2) replaces what is at the destination by then.                  *)
Rename(u) ==
  /\ pc[u] = "rename" /\ u \in temps
  /\ file' = [file EXCEPT ![path[u]] = u]
  /\ temps' = temps \ {u}
  /\ saves' = saves \cup {<<u, path[u], over[u]>>}
  /\ Return(u, "OK")
  /\ UNCHANGED <<opened, callVars, failed>>

(* Fault: the result of rename(2) is not looked at.                        *)
RenameFails_silent(u) ==
  /\ IoErrors /\ pc[u] = "rename"
  /\ saves' = saves \cup {<<u, path[u], over[u]>>}
  /\ Return(u, "OK")
  /\ UNCHANGED <<file, temps, opened, callVars, failed>>

RenameFails(u) ==
  /\ IoErrors /\ pc[u] = "rename"
  /\ failed' = failed \cup {<<u, path[u], over[u]>>}
  /\ Return(u, "EIO")
  /\ UNCHANGED <<file, temps, opened, callVars, saves>>

(* sg__httpupld_free_cb at the end of the request: close and unlink.       *)
Free(u) ==
  /\ pc[u] = "idle"
  /\ Goto(u, "freed")
  /\ opened' = opened \ {u} /\ temps' = temps \ {u}
  /\ UNCHANGED <<file, callVars, ret, saves, failed>>

Next ==
  \E u \in Uplds :
    \/ Open(u) \/ SaveClosed(u) \/ SaveClose(u) \/ SaveCloseFails(u)
    \/ Stat(u) \/ Access(u) \/ Unlink(u) \/ Rename(u) \/ RenameFails(u)
    \/ Free(u)

Spec == Init /\ [][Next]_vars

-----------------------------------------------------------------------------
(* Safety: the contents of an upload are in one place as long as its       *)
(* request lives: in its temporary file until it is saved, whichever saves *)
(* failed, and in one destination at most afterwards.                      *)
UploadInOnePlace ==
  \A u \in Uplds :
    LET places == {p \in Paths : file[p] = u}
        saved == \E w \in saves : w[1] = u IN
    /\ pc[u] \notin {"new", "freed"} => (u \in temps <=> ~saved)
    /\ ~saved => places = {}
    /\ Cardinality(places) <= 1

(* Safety: a file of the application is touched only by a save that was    *)
(* told to overwrite its path (access(2) in sg__httpupld_save_as_cb).      *)
OldFileKept ==
  [][\A p \in Existing :
       file[p] = Old /\ file'[p] # Old =>
         \E u \in Uplds : over[u] /\ path[u] = p /\ pc[u] = "unlink"]_vars

(* The application had a file at path p, or an upload was saved to it.     *)
HadFile(p) == p \in Existing \/ \E w \in saves : w[2] = p

(* Safety: a file, of the application or saved before, is gone from its    *)
(* path only while a save that was told to overwrite it is between         *)
(* unlink(2) and rename(2), or after the application was told that such a  *)
(* save failed (sg_httpuplds.c:263, 267).                                  *)
LossReported ==
  \A p \in Paths : HadFile(p) /\ file[p] = None =>
    \/ \E u \in Uplds : path[u] = p /\ over[u] /\ pc[u] = "rename"
    \/ \E w \in failed : w[2] = p /\ w[3]

(* Safety: of two saves to one path with overwritten = false, one finds    *)
(* the file of the other (sagui.h, sg_httpupld_save: EEXIST).              *)
SaveExclusive ==
  \A w1, w2 \in saves : w1[2] = w2[2] /\ ~w1[3] /\ ~w2[3] => w1 = w2
=============================================================================
