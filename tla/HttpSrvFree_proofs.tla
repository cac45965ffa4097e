------------------------- MODULE HttpSrvFree_proofs -------------------------
(***************************************************************************)
(* Proofs about HttpIsolate and about HttpSrvFree, which extends it by a   *)
(* server that is shut down and freed once the application's callbacks     *)
(* have ended: for any number of requests, event loops and threads.        *)
(***************************************************************************)
EXTENDS HttpSrvFree, SequenceTheorems, TLAPS

-----------------------------------------------------------------------------
(* The list operations of utlist.h.                                        *)

(* LL_APPEND of a new element keeps a list without duplicates and adds     *)
(* that element to it.                                                     *)
LEMMA AppendLemma ==
  ASSUME NEW S, NEW s \in Seq(S), NEW x \in S, IsInjective(s), x \notin ToSet(s)
  PROVE  /\ LL_APPEND(s, x) \in Seq(S)
         /\ IsInjective(LL_APPEND(s, x))
         /\ ToSet(LL_APPEND(s, x)) = ToSet(s) \cup {x}
<1> DEFINE t == Append(s, x)
<1>1. /\ t \in Seq(S) /\ Len(s) \in Nat /\ DOMAIN s = 1..Len(s)
      /\ DOMAIN t = 1..(Len(s) + 1)
      /\ t[Len(s) + 1] = x
      /\ \A i \in 1..Len(s) : t[i] = s[i]
  OBVIOUS
<1> HIDE DEF t
<1>2. IsInjective(t)
  BY <1>1 DEF IsInjective, ToSet
<1>3. ToSet(t) = ToSet(s) \cup {x}
  <2>1. \A y \in ToSet(t) : y \in ToSet(s) \cup {x}
    BY <1>1 DEF ToSet
  <2>2. \A y \in ToSet(s) \cup {x} : y \in ToSet(t)
    <3>1. \A y \in ToSet(s) : \E i \in 1..Len(s) : s[i] = y
      BY <1>1 DEF ToSet
    <3> QED
      BY <1>1, <3>1 DEF ToSet
  <2> QED
    BY <2>1, <2>2
<1> QED
  BY <1>1, <1>2, <1>3 DEF LL_APPEND, t

(* LL_DELETE keeps a list without duplicates and takes just that element   *)
(* out of it.                                                              *)
LEMMA DeleteLemma ==
  ASSUME NEW S, NEW s \in Seq(S), NEW x, IsInjective(s)
  PROVE  /\ LL_DELETE(s, x) \in Seq(S)
         /\ IsInjective(LL_DELETE(s, x))
         /\ ToSet(LL_DELETE(s, x)) = ToSet(s) \ {x}
<1>1. CASE x \notin ToSet(s)
  BY <1>1 DEF LL_DELETE
<1>2. CASE x \in ToSet(s)
  <2> DEFINE First(i) == s[i] = x /\ \A j \in 1..(i - 1) : s[j] # x
             k == CHOOSE i \in 1..Len(s) : First(i)
             t == [i \in 1..(Len(s) - 1) |-> IF i < k THEN s[i] ELSE s[i + 1]]
  <2>1. PICK p \in 1..Len(s) : s[p] = x
    BY <1>2 DEF ToSet
  <2>2. First(p)
    BY <2>1 DEF IsInjective
  <2>3. k \in 1..Len(s) /\ s[k] = x
    <3> HIDE DEF First
    <3>1. k \in 1..Len(s) /\ First(k)
      BY <2>2
    <3> QED
      BY <3>1 DEF First
  <2>4. LL_DELETE(s, x) = t
    BY <1>2 DEF LL_DELETE
  <2> HIDE DEF k
  <2>5. Len(s) \in Nat \ {0} /\ DOMAIN s = 1..Len(s) /\ \A i \in 1..Len(s) : s[i] \in S
    BY <2>3
  <2>6. t \in Seq(S) /\ Len(t) = Len(s) - 1 /\ DOMAIN t = 1..(Len(s) - 1)
    <3>1. t \in [1..(Len(s) - 1) -> S]
      BY <2>3, <2>5
    <3> QED
      BY <3>1, <2>5
  <2>7. \A i \in 1..(Len(s) - 1) : t[i] = IF i < k THEN s[i] ELSE s[i + 1]
    OBVIOUS
  <2> HIDE DEF t
  <2>8. IsInjective(t)
    <3> SUFFICES ASSUME NEW a \in 1..(Len(s) - 1), NEW b \in 1..(Len(s) - 1), t[a] = t[b]
                 PROVE  a = b
      BY <2>6 DEF IsInjective
    <3> DEFINE from(i) == IF i < k THEN i ELSE i + 1
    <3>1. from(a) \in 1..Len(s) /\ from(b) \in 1..Len(s)
      BY <2>3, <2>5
    <3>2. s[from(a)] = s[from(b)]
      BY <2>7
    <3>3. from(a) = from(b)
      <4> HIDE DEF from
      <4> QED
        BY <3>1, <3>2, <2>5 DEF IsInjective
    <3> QED
      BY <3>3, <2>3, <2>5
  <2>9. ToSet(t) = ToSet(s) \ {x}
    <3>1. ASSUME NEW y \in ToSet(t) PROVE y \in ToSet(s) \ {x}
      <4>1. PICK i \in 1..(Len(s) - 1) : t[i] = y
        BY <2>6 DEF ToSet
      <4>2. PICK j \in 1..Len(s) : s[j] = y /\ j # k
        BY <4>1, <2>3, <2>5, <2>7
      <4> QED
        BY <4>2, <2>3, <2>5 DEF ToSet, IsInjective
    <3>2. ASSUME NEW y \in ToSet(s) \ {x} PROVE y \in ToSet(t)
      <4>1. PICK i \in 1..Len(s) : s[i] = y
        BY <2>5 DEF ToSet
      <4>2. i # k
        BY <4>1, <2>3
      <4>3. PICK j \in 1..(Len(s) - 1) : t[j] = y
        <5>1. CASE i < k
          BY <5>1, <4>1, <2>3, <2>5, <2>7
        <5>2. CASE i > k
          <6>1. i - 1 \in 1..(Len(s) - 1) /\ ~(i - 1 < k) /\ (i - 1) + 1 = i
            BY <5>2, <2>3, <2>5
          <6> QED
            BY <6>1, <4>1, <2>7
        <5> QED
          BY <5>1, <5>2, <4>2, <2>3, <2>5
      <4> QED
        BY <4>3, <2>6 DEF ToSet
    <3> QED
      BY <3>1, <3>2
  <2> QED
    BY <2>4, <2>6, <2>8, <2>9
<1> QED
  BY <1>1, <1>2

-----------------------------------------------------------------------------
(* The inductive invariant.                                                *)

AhcCrit == {"crit", "unlock"}
ThreadCrit == {"unlink", "unlock"}

(* srv->mutex is held by whoever is in a critical section, one at a time.  *)
MutexInv ==
  /\ \A r \in Reqs : st[r] \in AhcCrit \/ tpc[r] \in ThreadCrit => mutex
  /\ \A r, q \in Reqs : st[r] \in AhcCrit /\ st[q] \in AhcCrit => r = q
  /\ \A r, q \in Reqs : tpc[r] \in ThreadCrit /\ tpc[q] \in ThreadCrit => r = q
  /\ \A r, q \in Reqs : ~(st[r] \in AhcCrit /\ tpc[q] \in ThreadCrit)

(* What a critical section saw of the list is still the list when it       *)
(* changes it.                                                             *)
WalkInv ==
  \A r \in Reqs :
    /\ st[r] = "crit" => walk[r] = list
    /\ tpc[r] = "unlink" => twalk[r] = list

(* How a request, its connection, its node and its thread hang together.   *)
ReqInv(r) ==
  /\ tpc[r] \in Running =>
       /\ st[r] \in InAhc \cup {"wait"}
       /\ node[r] = "live" /\ suspended[r] /\ ~resuming[r]
  /\ tpc[r] = "free" => node[r] = "live"
  /\ tpc[r] # "none" => isolated[r]
  /\ st[r] \in InAhc \cup {"wait"} => req[r] = "live"
  /\ suspended[r] => isolated[r] /\ (resuming[r] \/ tpc[r] \in Running)
  /\ resuming[r] => isolated[r]
  /\ isolated[r] => calls[r] = 1 /\ st[r] # "idle"
  /\ st[r] \in InAhc => calls[r] = 1
  /\ st[r] = "wait" /\ ~isolated[r] => calls[r] = 0
  /\ st[r] = "idle" => calls[r] = 0
  /\ calls[r] <= 1

IInv == TypeOK /\ MutexInv /\ WalkInv /\ ListExact /\ \A r \in Reqs : ReqInv(r)

-----------------------------------------------------------------------------
(* The proofs.                                                             *)

(* The invariant holds initially.                                          *)
LEMMA InitInv == Init => IInv
<1> SUFFICES ASSUME Init PROVE IInv
  OBVIOUS
<1>1. TypeOK
  <2>1. << >> \in Seq(Reqs)
    OBVIOUS
  <2> QED
    BY <2>1 DEF Init, TypeOK, Handler, Thread, Memory, InAhc
<1>2. MutexInv /\ WalkInv
  BY DEF Init, MutexInv, WalkInv, AhcCrit, ThreadCrit
<1>3. ListExact
  BY DEF Init, ListExact, IsInjective, ToSet
<1>4. \A r \in Reqs : ReqInv(r)
  BY DEF Init, ReqInv, Running, InAhc, InCallback
<1> QED
  BY <1>1, <1>2, <1>3, <1>4 DEF IInv

(* A counter of one request goes up.                                       *)
LEMMA CountUp ==
  ASSUME NEW f \in [Reqs -> Nat], NEW r \in Reqs
  PROVE  [f EXCEPT ![r] = @ + 1] \in [Reqs -> Nat]
  OBVIOUS

(* What critical sections do to the list: a new node is not in it yet, and *)
(* the one that is unlinked is.                                            *)
LEMMA ListSteps ==
  ASSUME IInv, NEW r \in Reqs
  PROVE  /\ IsolateSpawn(r) \/ IsolateSpawnFail(r) =>
              /\ LL_APPEND(walk[r], r) \in Seq(Reqs)
              /\ IsInjective(LL_APPEND(walk[r], r))
              /\ ToSet(LL_APPEND(walk[r], r)) = ToSet(list) \cup {r}
              /\ r \notin ToSet(list) /\ tpc[r] = "none"
         /\ ThreadUnlink(r) =>
              /\ list' \in Seq(Reqs)
              /\ IsInjective(list')
              /\ ToSet(list') = ToSet(list) \ {r}
         /\ IsolateSpawnFail(r) =>
              /\ list' \in Seq(Reqs)
              /\ IsInjective(list')
              /\ ToSet(list') = ToSet(list)
<1>1. list \in Seq(Reqs) /\ IsInjective(list)
  BY DEF IInv, TypeOK, ListExact
<1>2. ASSUME IsolateSpawn(r) \/ IsolateSpawnFail(r)
      PROVE  /\ LL_APPEND(walk[r], r) \in Seq(Reqs)
             /\ IsInjective(LL_APPEND(walk[r], r))
             /\ ToSet(LL_APPEND(walk[r], r)) = ToSet(list) \cup {r}
             /\ r \notin ToSet(list) /\ tpc[r] = "none"
  <2>1. st[r] = "crit" /\ ~isolated[r]
    BY <1>2 DEF IsolateSpawn, IsolateSpawnFail
  <2>2. walk[r] = list /\ tpc[r] = "none"
    BY <2>1 DEF IInv, WalkInv, ReqInv
  <2>3. r \notin ToSet(list)
    BY <2>2 DEF IInv, ListExact
  <2> QED
    BY <2>2, <2>3, <1>1, AppendLemma
<1>3. ASSUME ThreadUnlink(r)
      PROVE  /\ list' \in Seq(Reqs)
             /\ IsInjective(list')
             /\ ToSet(list') = ToSet(list) \ {r}
  <2>1. twalk[r] = list /\ list' = LL_DELETE(twalk[r], r)
    BY <1>3 DEF IInv, WalkInv, ThreadUnlink
  <2> QED
    BY <2>1, <1>1, DeleteLemma
<1>4. ASSUME IsolateSpawnFail(r)
      PROVE  /\ list' \in Seq(Reqs)
             /\ IsInjective(list')
             /\ ToSet(list') = ToSet(list)
  <2>1. list' = LL_DELETE(LL_APPEND(walk[r], r), r)
    BY <1>4 DEF IsolateSpawnFail
  <2>2. /\ list' \in Seq(Reqs)
        /\ IsInjective(list')
        /\ ToSet(list') = (ToSet(list) \cup {r}) \ {r}
    BY <2>1, <1>2, <1>4, DeleteLemma
  <2> QED
    BY <2>2, <1>2, <1>4
<1> QED
  BY <1>2, <1>3, <1>4

(* Every step keeps the types.                                             *)
LEMMA StepType ==
  ASSUME IInv, NEW r \in Reqs, AhcStep(r) \/ MhdStep(r) \/ ThreadStep(r)
  PROVE  TypeOK'
<1> USE DEF srvVars, mhdVars, reqVars, Goto, TGoto
<1>1. CASE AhcFirst(r)
  BY <1>1 DEF AhcFirst, IInv, TypeOK, Handler, Thread, Memory, InAhc, InCallback
<1>2. CASE AhcNoMem(r)
  BY <1>2 DEF AhcNoMem, IInv, TypeOK, Handler, Thread, Memory, InAhc, InCallback
<1>3. CASE AhcCall(r)
  <2>1. calls' \in [Reqs -> Nat]
    <3>1. calls \in [Reqs -> Nat] /\ (calls' = calls \/ calls' = [calls EXCEPT ![r] = @ + 1])
      BY <1>3 DEF AhcCall, IInv, TypeOK
    <3> QED
      BY <3>1, CountUp
  <2>2. st' \in [Reqs -> Handler]
    <3>1. st \in [Reqs -> Handler] /\ \E loc \in {"reply", "req_cb"} : st' = [st EXCEPT ![r] = loc]
      BY <1>3 DEF AhcCall, IInv, TypeOK
    <3> QED
      BY <3>1 DEF Handler, InAhc, InCallback
  <2> QED
    BY <1>3, <2>1, <2>2 DEF AhcCall, IInv, TypeOK
<1>4. CASE CallbackSend(r)
  BY <1>4 DEF CallbackSend, IInv, TypeOK, Handler, Thread, Memory, InAhc, InCallback
<1>5. CASE CallbackReturn(r)
  BY <1>5 DEF CallbackReturn, IInv, TypeOK, Handler, Thread, Memory, InAhc, InCallback
<1>6. CASE AhcReply(r)
  BY <1>6 DEF AhcReply, IInv, TypeOK, Handler, Thread, Memory, InAhc, InCallback
<1>7. CASE IsolateCall(r)
  <2>1. tries' \in [Reqs -> Nat]
    <3>1. tries \in [Reqs -> Nat] /\ tries' = [tries EXCEPT ![r] = @ + 1]
      BY <1>7 DEF IsolateCall, IInv, TypeOK
    <3> QED
      BY <3>1, CountUp
  <2>2. st' \in [Reqs -> Handler]
    BY <1>7 DEF IsolateCall, IInv, TypeOK, Handler, InAhc, InCallback
  <2> QED
    BY <1>7, <2>1, <2>2 DEF IsolateCall, IInv, TypeOK
<1>8. CASE IsolateLock(r)
  BY <1>8 DEF IsolateLock, IInv, TypeOK, Handler, Thread, Memory, InAhc, InCallback
<1>9. CASE IsolateAlready(r)
  BY <1>9 DEF IsolateAlready, IInv, TypeOK, Handler, Thread, Memory, InAhc, InCallback
<1>10. CASE IsolateNoMem(r)
  BY <1>10 DEF IsolateNoMem, IInv, TypeOK, Handler, Thread, Memory, InAhc, InCallback
<1>11. CASE IsolateSpawn(r)
  BY <1>11, ListSteps DEF IsolateSpawn, IInv, TypeOK, Handler, Thread, Memory, InAhc, InCallback
<1>12. CASE IsolateSpawnFail(r)
  BY <1>12, ListSteps DEF IsolateSpawnFail, IInv, TypeOK, Handler, Thread, Memory, InAhc, InCallback
<1>13. CASE IsolateUnlock(r)
  <2>1. walk' \in [Reqs -> Seq(Reqs)]
    <3>1. << >> \in Seq(Reqs)
      OBVIOUS
    <3> QED
      BY <1>13, <3>1 DEF IsolateUnlock, IInv, TypeOK
  <2>2. st' \in [Reqs -> Handler]
    BY <1>13 DEF IsolateUnlock, IInv, TypeOK, Handler, InAhc, InCallback
  <2> QED
    BY <1>13, <2>1, <2>2 DEF IsolateUnlock, IInv, TypeOK
<1>14. CASE Completed(r)
  BY <1>14 DEF Completed, Rcc, IInv, TypeOK, Handler, Thread, Memory, InAhc, InCallback
<1>15. CASE ClientGone(r)
  BY <1>15 DEF ClientGone, Rcc, IInv, TypeOK, Handler, Thread, Memory, InAhc, InCallback
<1>16. CASE ProcessResume(r)
  BY <1>16 DEF ProcessResume, IInv, TypeOK, Handler, Thread, Memory, InAhc, InCallback
<1>17. CASE ThreadSend(r)
  BY <1>17 DEF ThreadSend, IInv, TypeOK, Handler, Thread, Memory, InAhc, InCallback
<1>18. CASE ThreadReturn(r)
  BY <1>18 DEF ThreadReturn, IInv, TypeOK, Handler, Thread, Memory, InAhc, InCallback
<1>19. CASE ThreadLock(r)
  BY <1>19 DEF ThreadLock, IInv, TypeOK, Handler, Thread, Memory, InAhc, InCallback
<1>20. CASE ThreadUnlink(r)
  BY <1>20, ListSteps DEF ThreadUnlink, IInv, TypeOK, Handler, Thread, Memory, InAhc, InCallback
<1>21. CASE ThreadUnlock(r)
  <2>1. twalk' \in [Reqs -> Seq(Reqs)]
    <3>1. << >> \in Seq(Reqs)
      OBVIOUS
    <3> QED
      BY <1>21, <3>1 DEF ThreadUnlock, IInv, TypeOK
  <2>2. tpc' \in [Reqs -> Thread]
    BY <1>21 DEF ThreadUnlock, IInv, TypeOK, Thread
  <2> QED
    BY <1>21, <2>1, <2>2 DEF ThreadUnlock, IInv, TypeOK
<1>22. CASE ThreadResume(r)
  BY <1>22 DEF ThreadResume, IInv, TypeOK, Handler, Thread, Memory, InAhc, InCallback
<1>23. CASE ThreadFree(r)
  BY <1>23 DEF ThreadFree, IInv, TypeOK, Handler, Thread, Memory, InAhc, InCallback
<1> QED
  BY <1>1, <1>2, <1>3, <1>4, <1>5, <1>6, <1>7, <1>8, <1>9, <1>10, <1>11, <1>12, <1>13, <1>14, <1>15, <1>16, <1>17, <1>18, <1>19, <1>20, <1>21, <1>22, <1>23
     DEF AhcStep, IsolateBody, MhdStep, ThreadStep, ThreadExit

(* Every step keeps critical sections apart.                               *)
LEMMA StepMutex ==
  ASSUME IInv, NEW r \in Reqs, AhcStep(r) \/ MhdStep(r) \/ ThreadStep(r)
  PROVE  MutexInv'
<1> USE DEF srvVars, mhdVars, reqVars, Goto, TGoto
<1>1. CASE AhcFirst(r)
  BY <1>1 DEF AhcFirst, IInv, TypeOK, MutexInv, AhcCrit, ThreadCrit
<1>2. CASE AhcNoMem(r)
  BY <1>2 DEF AhcNoMem, IInv, TypeOK, MutexInv, AhcCrit, ThreadCrit
<1>3. CASE AhcCall(r)
  <2>1. st' \in [Reqs -> Handler] /\ UNCHANGED <<tpc, mutex>>
        /\ \A q \in Reqs : st'[q] \in AhcCrit => st[q] \in AhcCrit
    BY <1>3, StepType DEF AhcCall, IInv, TypeOK, AhcCrit
  <2> QED
    BY <2>1 DEF IInv, MutexInv
<1>4. CASE CallbackSend(r)
  BY <1>4 DEF CallbackSend, IInv, TypeOK, MutexInv, AhcCrit, ThreadCrit
<1>5. CASE CallbackReturn(r)
  BY <1>5 DEF CallbackReturn, IInv, TypeOK, MutexInv, AhcCrit, ThreadCrit
<1>6. CASE AhcReply(r)
  BY <1>6 DEF AhcReply, IInv, TypeOK, MutexInv, AhcCrit, ThreadCrit
<1>7. CASE IsolateCall(r)
  BY <1>7 DEF IsolateCall, IInv, TypeOK, MutexInv, AhcCrit, ThreadCrit
<1>8. CASE IsolateLock(r)
  BY <1>8 DEF IsolateLock, IInv, TypeOK, MutexInv, AhcCrit, ThreadCrit
<1>9. CASE IsolateAlready(r)
  BY <1>9 DEF IsolateAlready, IInv, TypeOK, MutexInv, AhcCrit, ThreadCrit
<1>10. CASE IsolateNoMem(r)
  BY <1>10 DEF IsolateNoMem, IInv, TypeOK, MutexInv, AhcCrit, ThreadCrit
<1>11. CASE IsolateSpawn(r)
  BY <1>11 DEF IsolateSpawn, IInv, TypeOK, MutexInv, AhcCrit, ThreadCrit
<1>12. CASE IsolateSpawnFail(r)
  BY <1>12 DEF IsolateSpawnFail, IInv, TypeOK, MutexInv, AhcCrit, ThreadCrit
<1>13. CASE IsolateUnlock(r)
  BY <1>13 DEF IsolateUnlock, IInv, TypeOK, MutexInv, AhcCrit, ThreadCrit
<1>14. CASE Completed(r)
  BY <1>14 DEF Completed, Rcc, IInv, TypeOK, MutexInv, AhcCrit, ThreadCrit
<1>15. CASE ClientGone(r)
  BY <1>15 DEF ClientGone, Rcc, IInv, TypeOK, MutexInv, AhcCrit, ThreadCrit
<1>16. CASE ProcessResume(r)
  BY <1>16 DEF ProcessResume, IInv, TypeOK, MutexInv, AhcCrit, ThreadCrit
<1>17. CASE ThreadSend(r)
  BY <1>17 DEF ThreadSend, IInv, TypeOK, MutexInv, AhcCrit, ThreadCrit
<1>18. CASE ThreadReturn(r)
  BY <1>18 DEF ThreadReturn, IInv, TypeOK, MutexInv, AhcCrit, ThreadCrit
<1>19. CASE ThreadLock(r)
  BY <1>19 DEF ThreadLock, IInv, TypeOK, MutexInv, AhcCrit, ThreadCrit
<1>20. CASE ThreadUnlink(r)
  BY <1>20 DEF ThreadUnlink, IInv, TypeOK, MutexInv, AhcCrit, ThreadCrit
<1>21. CASE ThreadUnlock(r)
  BY <1>21 DEF ThreadUnlock, IInv, TypeOK, MutexInv, AhcCrit, ThreadCrit
<1>22. CASE ThreadResume(r)
  BY <1>22 DEF ThreadResume, IInv, TypeOK, MutexInv, AhcCrit, ThreadCrit
<1>23. CASE ThreadFree(r)
  BY <1>23 DEF ThreadFree, IInv, TypeOK, MutexInv, AhcCrit, ThreadCrit
<1> QED
  BY <1>1, <1>2, <1>3, <1>4, <1>5, <1>6, <1>7, <1>8, <1>9, <1>10, <1>11, <1>12, <1>13, <1>14, <1>15, <1>16, <1>17, <1>18, <1>19, <1>20, <1>21, <1>22, <1>23
     DEF AhcStep, IsolateBody, MhdStep, ThreadStep, ThreadExit

(* No step of another actor changes the list a critical section works on.  *)
LEMMA StepWalk ==
  ASSUME IInv, NEW r \in Reqs, AhcStep(r) \/ MhdStep(r) \/ ThreadStep(r)
  PROVE  WalkInv'
<1> USE DEF srvVars, mhdVars, reqVars, Goto, TGoto
<1>1. CASE AhcFirst(r)
  BY <1>1 DEF AhcFirst, IInv, TypeOK, MutexInv, WalkInv, AhcCrit, ThreadCrit
<1>2. CASE AhcNoMem(r)
  BY <1>2 DEF AhcNoMem, IInv, TypeOK, MutexInv, WalkInv, AhcCrit, ThreadCrit
<1>3. CASE AhcCall(r)
  BY <1>3 DEF AhcCall, IInv, TypeOK, MutexInv, WalkInv, AhcCrit, ThreadCrit
<1>4. CASE CallbackSend(r)
  BY <1>4 DEF CallbackSend, IInv, TypeOK, MutexInv, WalkInv, AhcCrit, ThreadCrit
<1>5. CASE CallbackReturn(r)
  BY <1>5 DEF CallbackReturn, IInv, TypeOK, MutexInv, WalkInv, AhcCrit, ThreadCrit
<1>6. CASE AhcReply(r)
  BY <1>6 DEF AhcReply, IInv, TypeOK, MutexInv, WalkInv, AhcCrit, ThreadCrit
<1>7. CASE IsolateCall(r)
  BY <1>7 DEF IsolateCall, IInv, TypeOK, MutexInv, WalkInv, AhcCrit, ThreadCrit
<1>8. CASE IsolateLock(r)
  BY <1>8 DEF IsolateLock, IInv, TypeOK, MutexInv, WalkInv, AhcCrit, ThreadCrit
<1>9. CASE IsolateAlready(r)
  BY <1>9 DEF IsolateAlready, IInv, TypeOK, MutexInv, WalkInv, AhcCrit, ThreadCrit
<1>10. CASE IsolateNoMem(r)
  BY <1>10 DEF IsolateNoMem, IInv, TypeOK, MutexInv, WalkInv, AhcCrit, ThreadCrit
<1>11. CASE IsolateSpawn(r)
  BY <1>11 DEF IsolateSpawn, IInv, TypeOK, MutexInv, WalkInv, AhcCrit, ThreadCrit
<1>12. CASE IsolateSpawnFail(r)
  BY <1>12 DEF IsolateSpawnFail, IInv, TypeOK, MutexInv, WalkInv, AhcCrit, ThreadCrit
<1>13. CASE IsolateUnlock(r)
  BY <1>13 DEF IsolateUnlock, IInv, TypeOK, MutexInv, WalkInv, AhcCrit, ThreadCrit
<1>14. CASE Completed(r)
  BY <1>14 DEF Completed, Rcc, IInv, TypeOK, MutexInv, WalkInv, AhcCrit, ThreadCrit
<1>15. CASE ClientGone(r)
  BY <1>15 DEF ClientGone, Rcc, IInv, TypeOK, MutexInv, WalkInv, AhcCrit, ThreadCrit
<1>16. CASE ProcessResume(r)
  BY <1>16 DEF ProcessResume, IInv, TypeOK, MutexInv, WalkInv, AhcCrit, ThreadCrit
<1>17. CASE ThreadSend(r)
  BY <1>17 DEF ThreadSend, IInv, TypeOK, MutexInv, WalkInv, AhcCrit, ThreadCrit
<1>18. CASE ThreadReturn(r)
  BY <1>18 DEF ThreadReturn, IInv, TypeOK, MutexInv, WalkInv, AhcCrit, ThreadCrit
<1>19. CASE ThreadLock(r)
  BY <1>19 DEF ThreadLock, IInv, TypeOK, MutexInv, WalkInv, AhcCrit, ThreadCrit
<1>20. CASE ThreadUnlink(r)
  BY <1>20 DEF ThreadUnlink, IInv, TypeOK, MutexInv, WalkInv, AhcCrit, ThreadCrit
<1>21. CASE ThreadUnlock(r)
  BY <1>21 DEF ThreadUnlock, IInv, TypeOK, MutexInv, WalkInv, AhcCrit, ThreadCrit
<1>22. CASE ThreadResume(r)
  BY <1>22 DEF ThreadResume, IInv, TypeOK, MutexInv, WalkInv, AhcCrit, ThreadCrit
<1>23. CASE ThreadFree(r)
  BY <1>23 DEF ThreadFree, IInv, TypeOK, MutexInv, WalkInv, AhcCrit, ThreadCrit
<1> QED
  BY <1>1, <1>2, <1>3, <1>4, <1>5, <1>6, <1>7, <1>8, <1>9, <1>10, <1>11, <1>12, <1>13, <1>14, <1>15, <1>16, <1>17, <1>18, <1>19, <1>20, <1>21, <1>22, <1>23
     DEF AhcStep, IsolateBody, MhdStep, ThreadStep, ThreadExit

(* Every step keeps the list exact.                                        *)
LEMMA StepList ==
  ASSUME IInv, NEW r \in Reqs, AhcStep(r) \/ MhdStep(r) \/ ThreadStep(r)
  PROVE  ListExact'
<1> USE DEF srvVars, mhdVars, reqVars, Goto, TGoto
<1>1. CASE AhcFirst(r)
  BY <1>1 DEF AhcFirst, IInv, TypeOK, ListExact
<1>2. CASE AhcNoMem(r)
  BY <1>2 DEF AhcNoMem, IInv, TypeOK, ListExact
<1>3. CASE AhcCall(r)
  BY <1>3 DEF AhcCall, IInv, TypeOK, ListExact
<1>4. CASE CallbackSend(r)
  BY <1>4 DEF CallbackSend, IInv, TypeOK, ListExact
<1>5. CASE CallbackReturn(r)
  BY <1>5 DEF CallbackReturn, IInv, TypeOK, ListExact
<1>6. CASE AhcReply(r)
  BY <1>6 DEF AhcReply, IInv, TypeOK, ListExact
<1>7. CASE IsolateCall(r)
  BY <1>7 DEF IsolateCall, IInv, TypeOK, ListExact
<1>8. CASE IsolateLock(r)
  BY <1>8 DEF IsolateLock, IInv, TypeOK, ListExact
<1>9. CASE IsolateAlready(r)
  BY <1>9 DEF IsolateAlready, IInv, TypeOK, ListExact
<1>10. CASE IsolateNoMem(r)
  BY <1>10 DEF IsolateNoMem, IInv, TypeOK, ListExact
<1>11. CASE IsolateSpawn(r)
  BY <1>11, ListSteps DEF IsolateSpawn, IInv, TypeOK, ListExact
<1>12. CASE IsolateSpawnFail(r)
  BY <1>12, ListSteps DEF IsolateSpawnFail, IInv, TypeOK, ListExact
<1>13. CASE IsolateUnlock(r)
  BY <1>13 DEF IsolateUnlock, IInv, TypeOK, ListExact
<1>14. CASE Completed(r)
  BY <1>14 DEF Completed, Rcc, IInv, TypeOK, ListExact
<1>15. CASE ClientGone(r)
  BY <1>15 DEF ClientGone, Rcc, IInv, TypeOK, ListExact
<1>16. CASE ProcessResume(r)
  BY <1>16 DEF ProcessResume, IInv, TypeOK, ListExact
<1>17. CASE ThreadSend(r)
  BY <1>17 DEF ThreadSend, IInv, TypeOK, ListExact
<1>18. CASE ThreadReturn(r)
  BY <1>18 DEF ThreadReturn, IInv, TypeOK, ListExact
<1>19. CASE ThreadLock(r)
  BY <1>19 DEF ThreadLock, IInv, TypeOK, ListExact
<1>20. CASE ThreadUnlink(r)
  BY <1>20, ListSteps DEF ThreadUnlink, IInv, TypeOK, ListExact
<1>21. CASE ThreadUnlock(r)
  BY <1>21 DEF ThreadUnlock, IInv, TypeOK, ListExact
<1>22. CASE ThreadResume(r)
  BY <1>22 DEF ThreadResume, IInv, TypeOK, ListExact
<1>23. CASE ThreadFree(r)
  BY <1>23 DEF ThreadFree, IInv, TypeOK, ListExact
<1> QED
  BY <1>1, <1>2, <1>3, <1>4, <1>5, <1>6, <1>7, <1>8, <1>9, <1>10, <1>11, <1>12, <1>13, <1>14, <1>15, <1>16, <1>17, <1>18, <1>19, <1>20, <1>21, <1>22, <1>23
     DEF AhcStep, IsolateBody, MhdStep, ThreadStep, ThreadExit

(* Every step keeps the invariant of every request.                        *)
LEMMA StepReq ==
  ASSUME IInv, NEW r \in Reqs, AhcStep(r) \/ MhdStep(r) \/ ThreadStep(r)
  PROVE  \A q \in Reqs : ReqInv(q)'
<1> USE DEF srvVars, mhdVars, reqVars, Goto, TGoto
<1>1. CASE AhcFirst(r)
  BY <1>1 DEF AhcFirst, IInv, TypeOK, ReqInv, Running, InAhc, InCallback
<1>2. CASE AhcNoMem(r)
  BY <1>2 DEF AhcNoMem, IInv, TypeOK, ReqInv, Running, InAhc, InCallback
<1>3. CASE AhcCall(r)
  BY <1>3 DEF AhcCall, IInv, TypeOK, ReqInv, Running, InAhc, InCallback
<1>4. CASE CallbackSend(r)
  BY <1>4 DEF CallbackSend, IInv, TypeOK, ReqInv, Running, InAhc, InCallback
<1>5. CASE CallbackReturn(r)
  BY <1>5 DEF CallbackReturn, IInv, TypeOK, ReqInv, Running, InAhc, InCallback
<1>6. CASE AhcReply(r)
  BY <1>6 DEF AhcReply, IInv, TypeOK, ReqInv, Running, InAhc, InCallback
<1>7. CASE IsolateCall(r)
  BY <1>7 DEF IsolateCall, IInv, TypeOK, ReqInv, Running, InAhc, InCallback
<1>8. CASE IsolateLock(r)
  BY <1>8 DEF IsolateLock, IInv, TypeOK, ReqInv, Running, InAhc, InCallback
<1>9. CASE IsolateAlready(r)
  BY <1>9 DEF IsolateAlready, IInv, TypeOK, ReqInv, Running, InAhc, InCallback
<1>10. CASE IsolateNoMem(r)
  BY <1>10 DEF IsolateNoMem, IInv, TypeOK, ReqInv, Running, InAhc, InCallback
<1>11. CASE IsolateSpawn(r)
  <2>1. tpc[r] = "none" /\ ~resuming[r] /\ calls[r] = 1 /\ req[r] = "live"
    BY <1>11 DEF IsolateSpawn, IInv, TypeOK, ReqInv, InAhc, InCallback
  <2>2. ReqInv(r)'
    BY <1>11, <2>1 DEF IsolateSpawn, IInv, TypeOK, ReqInv, Running, InAhc, InCallback
  <2>3. ASSUME NEW q \in Reqs, q # r PROVE ReqInv(q)'
    BY <1>11, <2>3 DEF IsolateSpawn, IInv, TypeOK, ReqInv, Running, InAhc, InCallback
  <2> QED
    BY <2>2, <2>3
<1>12. CASE IsolateSpawnFail(r)
  BY <1>12 DEF IsolateSpawnFail, IInv, TypeOK, ReqInv, Running, InAhc, InCallback
<1>13. CASE IsolateUnlock(r)
  BY <1>13 DEF IsolateUnlock, IInv, TypeOK, ReqInv, Running, InAhc, InCallback
<1>14. CASE Completed(r)
  BY <1>14 DEF Completed, Rcc, IInv, TypeOK, ReqInv, Running, InAhc, InCallback
<1>15. CASE ClientGone(r)
  BY <1>15 DEF ClientGone, Rcc, IInv, TypeOK, ReqInv, Running, InAhc, InCallback
<1>16. CASE ProcessResume(r)
  BY <1>16 DEF ProcessResume, IInv, TypeOK, ReqInv, Running, InAhc, InCallback
<1>17. CASE ThreadSend(r)
  BY <1>17 DEF ThreadSend, IInv, TypeOK, ReqInv, Running, InAhc, InCallback
<1>18. CASE ThreadReturn(r)
  BY <1>18 DEF ThreadReturn, IInv, TypeOK, ReqInv, Running, InAhc, InCallback
<1>19. CASE ThreadLock(r)
  BY <1>19 DEF ThreadLock, IInv, TypeOK, ReqInv, Running, InAhc, InCallback
<1>20. CASE ThreadUnlink(r)
  BY <1>20 DEF ThreadUnlink, IInv, TypeOK, ReqInv, Running, InAhc, InCallback
<1>21. CASE ThreadUnlock(r)
  BY <1>21 DEF ThreadUnlock, IInv, TypeOK, ReqInv, Running, InAhc, InCallback
<1>22. CASE ThreadResume(r)
  BY <1>22 DEF ThreadResume, IInv, TypeOK, ReqInv, Running, InAhc, InCallback
<1>23. CASE ThreadFree(r)
  BY <1>23 DEF ThreadFree, IInv, TypeOK, ReqInv, Running, InAhc, InCallback
<1> QED
  BY <1>1, <1>2, <1>3, <1>4, <1>5, <1>6, <1>7, <1>8, <1>9, <1>10, <1>11, <1>12, <1>13, <1>14, <1>15, <1>16, <1>17, <1>18, <1>19, <1>20, <1>21, <1>22, <1>23
     DEF AhcStep, IsolateBody, MhdStep, ThreadStep, ThreadExit

(* The invariant is inductive.                                             *)
LEMMA NextInv == IInv /\ [Next]_vars => IInv'
<1> SUFFICES ASSUME IInv, [Next]_vars PROVE IInv'
  OBVIOUS
<1>1. CASE Next
  <2> PICK r \in Reqs : AhcStep(r) \/ MhdStep(r) \/ ThreadStep(r)
    BY <1>1 DEF Next
  <2> QED
    BY StepType, StepMutex, StepWalk, StepList, StepReq DEF IInv
<1>2. CASE UNCHANGED vars
  BY <1>2 DEF IInv, vars, TypeOK, MutexInv, WalkInv, ListExact, ReqInv
<1> QED
  BY <1>1, <1>2

LEMMA InvAlways == Spec => []IInv
  BY InitInv, NextInv, PTL DEF Spec

(* The variables keep their types.                                         *)
THEOREM TypeCorrect == Spec => []TypeOK
<1>1. IInv => TypeOK
  BY DEF IInv
<1> QED
  BY <1>1, InvAlways, PTL

(* The isolated thread never reads a freed node or a freed request.        *)
THEOREM MemorySafe == Spec => []ThreadTouchesLive
<1>1. IInv => ThreadTouchesLive
  BY DEF IInv, ReqInv, ThreadTouchesLive, InAhc, InCallback
<1> QED
  BY <1>1, InvAlways, PTL

(* No outcome is decided while the isolated callback may still run.        *)
THEOREM ResponseOrdered == Spec => []ResponseAfterThread
<1>1. IInv => ResponseAfterThread
  BY DEF IInv, TypeOK, Thread, ReqInv, ResponseAfterThread, Running, InAhc, InCallback
<1> QED
  BY <1>1, InvAlways, PTL

(* The request callback runs at most once per request.                     *)
THEOREM CallbackOnce == Spec => []ReqCbOnce
<1>1. IInv => ReqCbOnce
  BY DEF IInv, ReqInv, ReqCbOnce
<1> QED
  BY <1>1, InvAlways, PTL

(* The list of isolated requests is exact.                                 *)
THEOREM ListCorrect == Spec => []ListExact
<1>1. IInv => ListExact
  BY DEF IInv
<1> QED
  BY <1>1, InvAlways, PTL

(* No connection stays suspended with nobody left to resume it.            *)
THEOREM NoLostWakeup == Spec => []SuspendedHasResumer
<1>1. IInv => SuspendedHasResumer
  BY DEF IInv, ReqInv, SuspendedHasResumer
<1> QED
  BY <1>1, InvAlways, PTL

-----------------------------------------------------------------------------
(* Refinement of HttpExchange.                                             *)

PhaseOf == [r \in Reqs |-> Phase(r)]

(* A step for one request leaves the locations of all others alone.        *)
LEMMA StepFrame ==
  ASSUME IInv, NEW r \in Reqs, AhcStep(r) \/ MhdStep(r) \/ ThreadStep(r)
  PROVE  \A q \in Reqs \ {r} : st'[q] = st[q] /\ tpc'[q] = tpc[q] /\ calls'[q] = calls[q]
<1> USE DEF srvVars, mhdVars, reqVars, Goto, TGoto
<1>1. CASE AhcFirst(r)
  BY <1>1 DEF AhcFirst, IInv, TypeOK
<1>2. CASE AhcNoMem(r)
  BY <1>2 DEF AhcNoMem, IInv, TypeOK
<1>3. CASE AhcCall(r)
  BY <1>3 DEF AhcCall, IInv, TypeOK
<1>4. CASE CallbackSend(r)
  BY <1>4 DEF CallbackSend, IInv, TypeOK
<1>5. CASE CallbackReturn(r)
  BY <1>5 DEF CallbackReturn, IInv, TypeOK
<1>6. CASE AhcReply(r)
  BY <1>6 DEF AhcReply, IInv, TypeOK
<1>7. CASE IsolateCall(r)
  BY <1>7 DEF IsolateCall, IInv, TypeOK
<1>8. CASE IsolateLock(r)
  BY <1>8 DEF IsolateLock, IInv, TypeOK
<1>9. CASE IsolateAlready(r)
  BY <1>9 DEF IsolateAlready, IInv, TypeOK
<1>10. CASE IsolateNoMem(r)
  BY <1>10 DEF IsolateNoMem, IInv, TypeOK
<1>11. CASE IsolateSpawn(r)
  BY <1>11 DEF IsolateSpawn, IInv, TypeOK
<1>12. CASE IsolateSpawnFail(r)
  BY <1>12 DEF IsolateSpawnFail, IInv, TypeOK
<1>13. CASE IsolateUnlock(r)
  BY <1>13 DEF IsolateUnlock, IInv, TypeOK
<1>14. CASE Completed(r)
  BY <1>14 DEF Completed, Rcc, IInv, TypeOK
<1>15. CASE ClientGone(r)
  BY <1>15 DEF ClientGone, Rcc, IInv, TypeOK
<1>16. CASE ProcessResume(r)
  BY <1>16 DEF ProcessResume, IInv, TypeOK
<1>17. CASE ThreadSend(r)
  BY <1>17 DEF ThreadSend, IInv, TypeOK
<1>18. CASE ThreadReturn(r)
  BY <1>18 DEF ThreadReturn, IInv, TypeOK
<1>19. CASE ThreadLock(r)
  BY <1>19 DEF ThreadLock, IInv, TypeOK
<1>20. CASE ThreadUnlink(r)
  BY <1>20 DEF ThreadUnlink, IInv, TypeOK
<1>21. CASE ThreadUnlock(r)
  BY <1>21 DEF ThreadUnlock, IInv, TypeOK
<1>22. CASE ThreadResume(r)
  BY <1>22 DEF ThreadResume, IInv, TypeOK
<1>23. CASE ThreadFree(r)
  BY <1>23 DEF ThreadFree, IInv, TypeOK
<1> QED
  BY <1>1, <1>2, <1>3, <1>4, <1>5, <1>6, <1>7, <1>8, <1>9, <1>10, <1>11, <1>12, <1>13, <1>14, <1>15, <1>16, <1>17, <1>18, <1>19, <1>20, <1>21, <1>22, <1>23
     DEF AhcStep, IsolateBody, MhdStep, ThreadStep, ThreadExit

(* So the mapping moves the phase of that request only.                    *)
LEMMA StepPhase ==
  ASSUME IInv, NEW r \in Reqs, AhcStep(r) \/ MhdStep(r) \/ ThreadStep(r),
         NEW to, Phase(r)' = to
  PROVE  PhaseOf' = [PhaseOf EXCEPT ![r] = to]
<1>1. \A q \in Reqs \ {r} : Phase(q)' = Phase(q)
  BY StepFrame DEF Phase
<1> QED
  BY <1>1 DEF PhaseOf

(* Every step is a step of HttpExchange or invisible in it.                *)
LEMMA StepRefines ==
  ASSUME IInv, NEW r \in Reqs, AhcStep(r) \/ MhdStep(r) \/ ThreadStep(r)
  PROVE  Exchange!Next \/ UNCHANGED <<PhaseOf, res>>
<1> DEFINE Moves(from, to) == Phase(r) = from /\ Phase(r)' = to
<1>a. ASSUME NEW from, NEW to, Moves(from, to)
      PROVE  PhaseOf[r] = from /\ PhaseOf' = [PhaseOf EXCEPT ![r] = to]
  BY <1>a, StepPhase DEF PhaseOf
<1>b. ASSUME Phase(r)' = Phase(r) PROVE PhaseOf' = PhaseOf
  BY <1>b, StepPhase DEF PhaseOf
<1> USE DEF srvVars, mhdVars, reqVars, Goto, TGoto
<1>1. CASE AhcFirst(r)
  <2>1. Moves("none", "open") /\ res' = res
    BY <1>1 DEF AhcFirst, Phase, IInv, TypeOK, ReqInv, Running, InAhc, InCallback
  <2> QED
    BY <2>1, <1>a DEF Exchange!Accept, Exchange!Next, Exchange!Move, PhaseOf
<1>2. CASE AhcNoMem(r)
  <2>1. Moves("none", "dropped") /\ res' = res
    BY <1>2 DEF AhcNoMem, Phase, IInv, TypeOK, ReqInv, Running, InAhc, InCallback
  <2> QED
    BY <2>1, <1>a DEF Exchange!Reject, Exchange!Next, Exchange!Move, PhaseOf
<1>3. CASE AhcCall(r)
  <2>1. CASE isolated[r]
    <3>1. Phase(r)' = Phase(r) /\ res' = res
      BY <1>3, <2>1 DEF AhcCall, Phase, IInv, TypeOK, ReqInv, Running, InAhc, InCallback
    <3> QED
      BY <3>1, <1>b
  <2>2. CASE ~isolated[r]
    <3>1. Moves("open", "handling") /\ res' = res
      <4>1. calls[r] = 0 /\ calls'[r] = 1 /\ st[r] = "wait" /\ st'[r] = "req_cb" /\ res' = res
        BY <1>3, <2>2 DEF AhcCall, IInv, TypeOK, ReqInv
      <4> QED
        BY <4>1 DEF Phase, InCallback
    <3> QED
      BY <3>1, <1>a DEF Exchange!Handle, Exchange!Next, Exchange!Move, PhaseOf
  <2> QED
    BY <2>1, <2>2 DEF IInv, TypeOK
<1>4. CASE CallbackSend(r)
  <2>1. Moves("handling", "handling") /\ ~res[r] /\ res' = [res EXCEPT ![r] = TRUE]
    BY <1>4 DEF CallbackSend, Phase, IInv, TypeOK, ReqInv, Running, InAhc, InCallback
  <2> QED
    BY <2>1, <1>a, <1>b DEF Exchange!Respond, Exchange!Next, Exchange!Move, PhaseOf
<1>5. CASE CallbackReturn(r)
  <2>1. CASE tpc[r] = "cb"
    <3>1. Phase(r)' = Phase(r) /\ res' = res
      BY <1>5, <2>1 DEF CallbackReturn, Phase, IInv, TypeOK, ReqInv, Running, InAhc, InCallback
    <3> QED
      BY <3>1, <1>b
  <2>2. CASE ~(tpc[r] = "cb")
    <3>1. /\ st[r] \in InAhc \cup {"wait"} /\ calls[r] = 1 /\ calls' = calls /\ res' = res
          /\ Phase(r) = "handling"
      BY <1>5, <2>2 DEF CallbackReturn, Phase, IInv, TypeOK, ReqInv, Running, InAhc, InCallback
    <3>2. st'[r] \in (InAhc \cup {"wait"}) \ InCallback /\ tpc'[r] # "cb"
      BY <1>5, <2>2, <3>1 DEF CallbackReturn, IInv, TypeOK, InAhc, InCallback
    <3>3. Moves("handling", "handled")
      BY <3>1, <3>2 DEF Phase, InAhc
    <3> QED
      BY <3>1, <3>3, <1>a DEF Exchange!Finish, Exchange!Next, Exchange!Move, PhaseOf
  <2> QED
    BY <2>1, <2>2
<1>6. CASE AhcReply(r)
  <2>1. CASE suspended[r]
    <3>1. Phase(r)' = Phase(r) /\ res' = res
      BY <1>6, <2>1 DEF AhcReply, Phase, IInv, TypeOK, ReqInv, Running, InAhc, InCallback
    <3> QED
      BY <3>1, <1>b
  <2>2. CASE ~suspended[r] /\ res[r]
    <3>1. Moves("handled", "answered") /\ res' = res
      BY <1>6, <2>2 DEF AhcReply, Phase, IInv, TypeOK, ReqInv, Running, InAhc, InCallback
    <3> QED
      BY <3>1, <2>2, <1>a DEF Exchange!Answer, Exchange!Next, Exchange!Move, PhaseOf
  <2>3. CASE ~suspended[r] /\ ~res[r]
    <3>1. Moves("handled", "dropped") /\ res' = res
      BY <1>6, <2>3 DEF AhcReply, Phase, IInv, TypeOK, ReqInv, Running, InAhc, InCallback
    <3> QED
      BY <3>1, <2>3, <1>a DEF Exchange!Drop, Exchange!Next, Exchange!Move, PhaseOf
  <2> QED
    BY <2>1, <2>2, <2>3
<1>7. CASE IsolateCall(r)
  <2>1. Phase(r)' = Phase(r) /\ res' = res
    BY <1>7 DEF IsolateCall, Phase, IInv, TypeOK, ReqInv, Running, InAhc, InCallback
  <2> QED
    BY <2>1, <1>b
<1>8. CASE IsolateLock(r)
  <2>1. Phase(r)' = Phase(r) /\ res' = res
    BY <1>8 DEF IsolateLock, Phase, IInv, TypeOK, ReqInv, Running, InAhc, InCallback
  <2> QED
    BY <2>1, <1>b
<1>9. CASE IsolateAlready(r)
  <2>1. Phase(r)' = Phase(r) /\ res' = res
    BY <1>9 DEF IsolateAlready, Phase, IInv, TypeOK, ReqInv, Running, InAhc, InCallback
  <2> QED
    BY <2>1, <1>b
<1>10. CASE IsolateNoMem(r)
  <2>1. Phase(r)' = Phase(r) /\ res' = res
    BY <1>10 DEF IsolateNoMem, Phase, IInv, TypeOK, ReqInv, Running, InAhc, InCallback
  <2> QED
    BY <2>1, <1>b
<1>11. CASE IsolateSpawn(r)
  <2>1. Phase(r)' = Phase(r) /\ res' = res
    BY <1>11 DEF IsolateSpawn, Phase, IInv, TypeOK, ReqInv, Running, InAhc, InCallback
  <2> QED
    BY <2>1, <1>b
<1>12. CASE IsolateSpawnFail(r)
  <2>1. Phase(r)' = Phase(r) /\ res' = res
    BY <1>12 DEF IsolateSpawnFail, Phase, IInv, TypeOK, ReqInv, Running, InAhc, InCallback
  <2> QED
    BY <2>1, <1>b
<1>13. CASE IsolateUnlock(r)
  <2>1. Phase(r)' = Phase(r) /\ res' = res
    BY <1>13 DEF IsolateUnlock, Phase, IInv, TypeOK, ReqInv, Running, InAhc, InCallback
  <2> QED
    BY <2>1, <1>b
<1>14. CASE Completed(r)
  <2>1. Phase(r) \in {"open", "handled", "answered", "dropped"} /\ Phase(r)' = "over" /\ res' = res
    BY <1>14 DEF Completed, Rcc, Phase, IInv, TypeOK, ReqInv, Running, InAhc, InCallback
  <2> QED
    BY <2>1, <1>a DEF Exchange!Leave, Exchange!Next, Exchange!Move, PhaseOf
<1>15. CASE ClientGone(r)
  <2>1. Phase(r) \in {"open", "handled", "answered", "dropped"} /\ Phase(r)' = "over" /\ res' = res
    BY <1>15 DEF ClientGone, Rcc, Phase, IInv, TypeOK, ReqInv, Running, InAhc, InCallback
  <2> QED
    BY <2>1, <1>a DEF Exchange!Leave, Exchange!Next, Exchange!Move, PhaseOf
<1>16. CASE ProcessResume(r)
  <2>1. Phase(r)' = Phase(r) /\ res' = res
    BY <1>16 DEF ProcessResume, Phase, IInv, TypeOK, ReqInv, Running, InAhc, InCallback
  <2> QED
    BY <2>1, <1>b
<1>17. CASE ThreadSend(r)
  <2>1. /\ tpc[r] = "cb" /\ st[r] \in InAhc \cup {"wait"} /\ calls[r] = 1
        /\ UNCHANGED <<st, tpc, calls>>
        /\ ~res[r] /\ res' = [res EXCEPT ![r] = TRUE]
    BY <1>17 DEF ThreadSend, IInv, ReqInv, Running
  <2>2. Moves("handling", "handling")
    BY <2>1 DEF Phase, InAhc, InCallback
  <2> QED
    BY <2>1, <2>2, <1>a, <1>b DEF Exchange!Respond, Exchange!Next, Exchange!Move, PhaseOf
<1>18. CASE ThreadReturn(r)
  <2>1. CASE st[r] \in InCallback
    <3>1. Phase(r)' = Phase(r) /\ res' = res
      BY <1>18, <2>1 DEF ThreadReturn, Phase, IInv, TypeOK, ReqInv, Running, InAhc, InCallback
    <3> QED
      BY <3>1, <1>b
  <2>2. CASE ~(st[r] \in InCallback)
    <3>1. /\ st[r] \in InAhc \cup {"wait"} /\ calls[r] = 1 /\ calls' = calls /\ res' = res
          /\ Phase(r) = "handling"
      BY <1>18, <2>2 DEF ThreadReturn, Phase, IInv, TypeOK, ReqInv, Running, InAhc, InCallback
    <3>2. st'[r] \in (InAhc \cup {"wait"}) \ InCallback /\ tpc'[r] # "cb"
      BY <1>18, <2>2, <3>1 DEF ThreadReturn, IInv, TypeOK, InAhc, InCallback
    <3>3. Moves("handling", "handled")
      BY <3>1, <3>2 DEF Phase, InAhc
    <3> QED
      BY <3>1, <3>3, <1>a DEF Exchange!Finish, Exchange!Next, Exchange!Move, PhaseOf
  <2> QED
    BY <2>1, <2>2
<1>19. CASE ThreadLock(r)
  <2>1. Phase(r)' = Phase(r) /\ res' = res
    BY <1>19 DEF ThreadLock, Phase, IInv, TypeOK, ReqInv, Running, InAhc, InCallback
  <2> QED
    BY <2>1, <1>b
<1>20. CASE ThreadUnlink(r)
  <2>1. Phase(r)' = Phase(r) /\ res' = res
    BY <1>20 DEF ThreadUnlink, Phase, IInv, TypeOK, ReqInv, Running, InAhc, InCallback
  <2> QED
    BY <2>1, <1>b
<1>21. CASE ThreadUnlock(r)
  <2>1. Phase(r)' = Phase(r) /\ res' = res
    BY <1>21 DEF ThreadUnlock, Phase, IInv, TypeOK, ReqInv, Running, InAhc, InCallback
  <2> QED
    BY <2>1, <1>b
<1>22. CASE ThreadResume(r)
  <2>1. Phase(r)' = Phase(r) /\ res' = res
    BY <1>22 DEF ThreadResume, Phase, IInv, TypeOK, ReqInv, Running, InAhc, InCallback
  <2> QED
    BY <2>1, <1>b
<1>23. CASE ThreadFree(r)
  <2>1. Phase(r)' = Phase(r) /\ res' = res
    BY <1>23 DEF ThreadFree, Phase, IInv, TypeOK, ReqInv, Running, InAhc, InCallback
  <2> QED
    BY <2>1, <1>b
<1> QED
  BY <1>1, <1>2, <1>3, <1>4, <1>5, <1>6, <1>7, <1>8, <1>9, <1>10, <1>11, <1>12, <1>13, <1>14, <1>15, <1>16, <1>17, <1>18, <1>19, <1>20, <1>21, <1>22, <1>23
     DEF AhcStep, IsolateBody, MhdStep, ThreadStep, ThreadExit

(* Isolation is invisible from outside: every behaviour of the server, with *)
(* any number of requests and loops, is one of HttpExchange.                *)
THEOREM Refinement == Spec => ImplementsExchange
<1>1. Init => Exchange!Init
  BY DEF Init, Exchange!Init, Phase
<1>2. IInv /\ [Next]_vars => [Exchange!Next]_(Exchange!vars)
  <2> SUFFICES ASSUME IInv, [Next]_vars PROVE Exchange!Next \/ UNCHANGED <<PhaseOf, res>>
    BY DEF Exchange!vars, PhaseOf
  <2>1. CASE Next
    BY <2>1, StepRefines DEF Next
  <2>2. CASE UNCHANGED vars
    BY <2>2 DEF vars, PhaseOf, Phase
  <2> QED
    BY <2>1, <2>2
<1> QED
  BY <1>1, <1>2, InvAlways, PTL DEF Spec, ImplementsExchange, Exchange!Spec

-----------------------------------------------------------------------------
(* The inductive invariant: that of HttpIsolate until the daemon stops,    *)
(* and what an orderly application brings about.                           *)

Ended == {"none", "free", "exited"}

(* A request that has no callback to come, and whose connection, if it is  *)
(* suspended, was handed back already.                                     *)
Quiet(r) ==
  /\ tpc[r] \in Ended
  /\ \/ st[r] \in {"idle", "queued", "refused", "closed"}
     \/ st[r] \in {"wait", "reply"} /\ isolated[r]
  /\ suspended[r] => resuming[r]

Gone(r) ==
  /\ tpc[r] \in Ended /\ st[r] \in {"idle", "closed"} /\ req[r] # "live" /\ ~suspended[r]

Owner == \A r \in Reqs : node[r] = "live" => tpc[r] \in Running \cup {"free"}

Shape ==
  /\ tpc \in [Reqs -> Thread] /\ node \in [Reqs -> Memory]
  /\ fpc \in FreePc \ Aborted /\ up \in BOOLEAN

OrderlyInv ==
  /\ Shape /\ Owner
  /\ up => IInv /\ fpc \notin {"free", "done"}
  /\ up /\ fpc # "run" => \A r \in Reqs : Quiet(r)
  /\ ~up => \A r \in Reqs : Gone(r)

FreeInv == orderly => OrderlyInv

-----------------------------------------------------------------------------
LEMMA FreeInitInv == FreeInit => FreeInv
<1> SUFFICES ASSUME FreeInit PROVE OrderlyInv
  BY DEF FreeInv
<1>1. Init /\ fpc = "run" /\ up = TRUE
  BY DEF FreeInit
<1>2. IInv
  BY <1>1, InitInv
<1>3. Shape /\ Owner
  BY <1>1 DEF Init, Shape, Owner, FreePc, Aborted, Thread, Memory
<1> QED
  BY <1>1, <1>2, <1>3 DEF OrderlyInv

(* The threads and the event loops: who owns a node.                       *)
LEMMA OwnerStep ==
  ASSUME Owner, tpc \in [Reqs -> Thread], node \in [Reqs -> Memory], NEW r \in Reqs,
         AhcStep(r) \/ MhdStep(r) \/ ThreadStep(r)
  PROVE  Owner' /\ tpc' \in [Reqs -> Thread] /\ node' \in [Reqs -> Memory]
<1> USE DEF Owner, Running, Thread, Memory
<1>1. ASSUME UNCHANGED <<tpc, node>>
      PROVE  Owner' /\ tpc' \in [Reqs -> Thread] /\ node' \in [Reqs -> Memory]
  BY <1>1
<1>2. CASE \/ AhcFirst(r) \/ AhcNoMem(r) \/ AhcCall(r) \/ CallbackSend(r) \/ CallbackReturn(r)
           \/ AhcReply(r) \/ IsolateCall(r) \/ IsolateLock(r) \/ IsolateUnlock(r)
           \/ IsolateAlready(r) \/ IsolateNoMem(r) \/ MhdStep(r) \/ ThreadSend(r)
  <2>1. UNCHANGED <<tpc, node>>
    BY <1>2 DEF AhcFirst, AhcNoMem, AhcCall, CallbackSend, CallbackReturn, AhcReply, IsolateCall,
       IsolateLock, IsolateUnlock, IsolateAlready, IsolateNoMem, MhdStep, Completed, ClientGone, Rcc,
       ProcessResume, ThreadSend
  <2> QED
    BY <1>1, <2>1
<1>3. CASE IsolateSpawn(r)
  BY <1>3 DEF IsolateSpawn, TGoto
<1>4. CASE IsolateSpawnFail(r)
  BY <1>4 DEF IsolateSpawnFail
<1>5. CASE ThreadReturn(r)
  BY <1>5 DEF ThreadReturn, TGoto
<1>6. CASE ThreadLock(r)
  BY <1>6 DEF ThreadLock, TGoto
<1>7. CASE ThreadUnlink(r)
  BY <1>7 DEF ThreadUnlink, TGoto
<1>8. CASE ThreadUnlock(r)
  BY <1>8 DEF ThreadUnlock, TGoto
<1>9. CASE ThreadResume(r)
  BY <1>9 DEF ThreadResume, TGoto
<1>10. CASE ThreadFree(r)
  BY <1>10 DEF ThreadFree, TGoto
<1> QED
  BY <1>2, <1>3, <1>4, <1>5, <1>6, <1>7, <1>8, <1>9, <1>10
     DEF AhcStep, IsolateBody, ThreadStep, ThreadExit

(* A quiet request stays so: the handler runs for it only to answer.       *)
LEMMA QuietServe ==
  ASSUME TypeOK, \A q \in Reqs : Quiet(q), NEW r \in Reqs, st[r] # "idle",
         AhcStep(r) \/ MhdStep(r)
  PROVE  \A q \in Reqs : Quiet(q)'
<1>0. st[r] \notin InCallback
  BY DEF Quiet, InCallback
<1>1. AhcCall(r) \/ AhcReply(r) \/ MhdStep(r)
  BY <1>0 DEF AhcStep, AhcFirst, AhcNoMem, CallbackSend, CallbackReturn, IsolateCall, IsolateLock,
     IsolateBody, IsolateAlready, IsolateNoMem, IsolateSpawn, IsolateSpawnFail, IsolateUnlock, InCallback
<1>2. CASE AhcCall(r)
  BY <1>2 DEF AhcCall, Goto, Quiet, TypeOK, srvVars, mhdVars
<1>3. CASE AhcReply(r)
  BY <1>3 DEF AhcReply, Goto, Quiet, TypeOK, srvVars, mhdVars, reqVars
<1>4. CASE Completed(r) \/ ClientGone(r)
  <2>1. st' = [st EXCEPT ![r] = "closed"] /\ UNCHANGED <<tpc, suspended, resuming, isolated>>
    BY <1>4 DEF Completed, ClientGone, Rcc, Goto, srvVars, mhdVars
  <2> QED
    BY <2>1 DEF Quiet, TypeOK
<1>5. CASE ProcessResume(r)
  BY <1>5 DEF ProcessResume, Quiet, TypeOK, srvVars, reqVars
<1> QED
  BY <1>1, <1>2, <1>3, <1>4, <1>5 DEF MhdStep

(* A thread that has ended but for freeing its node frees it.              *)
LEMMA EndedStep ==
  ASSUME NEW r \in Reqs, tpc[r] \in Ended, ThreadStep(r)
  PROVE  ThreadFree(r)
BY DEF Ended, ThreadStep, ThreadExit, ThreadSend, ThreadReturn, ThreadLock, ThreadUnlink, ThreadUnlock,
   ThreadResume

(* A step of sg_httpsrv_free that leaves requests and threads alone.       *)
LEMMA WalkStep ==
  ASSUME OrderlyInv, UNCHANGED <<vars, up>>,
         up => fpc # "run" /\ fpc' \notin {"free", "done"},
         fpc' \in FreePc \ Aborted
  PROVE  OrderlyInv'
<1>1. Shape' /\ Owner'
  BY DEF OrderlyInv, Shape, Owner, vars
<1>2. up => IInv'
  BY NextInv DEF OrderlyInv
<1>3. (up => \A r \in Reqs : Quiet(r)') /\ (~up => \A r \in Reqs : Gone(r)')
  BY DEF OrderlyInv, Quiet, Gone, vars
<1> QED
  BY <1>1, <1>2, <1>3 DEF OrderlyInv

(* The list of a quiet server is empty, so the second loop finds nothing.  *)
LEMMA SweepNothing ==
  ASSUME IInv, node \in [Reqs -> Memory], \A r \in Reqs : Quiet(r), FreeSweep
  PROVE  UNCHANGED vars
<1>1. \A r \in Reqs : r \notin ToSet(list)
  BY DEF IInv, ListExact, Quiet, Ended
<1>2. list = << >>
  <2>1. list \in Seq(Reqs)
    BY DEF IInv, TypeOK
  <2>2. ASSUME Len(list) # 0 PROVE FALSE
    <3>1. list[1] \in Reqs /\ list[1] \in ToSet(list)
      BY <2>1, <2>2 DEF ToSet
    <3> QED
      BY <1>1, <3>1
  <2> QED
    BY <2>1, <2>2
<1>3. resuming' = resuming
  <2>1. resuming = [r \in Reqs |-> resuming[r]] /\ \A r \in Reqs : resuming[r] \in BOOLEAN
    BY DEF IInv, TypeOK
  <2>2. resuming' = [r \in Reqs |-> resuming[r] \/ (r \in ToSet(list) /\ suspended[r])]
    BY DEF FreeSweep
  <2> QED
    BY <1>1, <2>1, <2>2
<1>4. node' = node
  <2>1. node = [r \in Reqs |-> node[r]]
    OBVIOUS
  <2>2. node' = [r \in Reqs |-> IF r \in ToSet(list) THEN "freed" ELSE node[r]]
    BY DEF FreeSweep
  <2> QED
    BY <1>1, <2>1, <2>2
<1> QED
  BY <1>2, <1>3, <1>4 DEF FreeSweep, vars, reqVars

(* The daemon of a quiet server stops, and closes what is left.            *)
LEMMA StopInv ==
  ASSUME OrderlyInv, fpc # "run", NEW done \in FreePc \ Aborted, NEW aborted \in Aborted,
         ~up => done # "run" \/ fpc = "shut",
         sg_httpsrv_shutdown(done, aborted)
  PROVE  OrderlyInv'
<1>1. CASE up
  <2>1. IInv /\ \A r \in Reqs : Quiet(r)
    BY <1>1 DEF OrderlyInv
  <2>2. ~\E r \in Reqs : suspended[r] /\ ~resuming[r]
    BY <2>1 DEF Quiet
  <2>3. /\ fpc' = done /\ up' = FALSE
        /\ st' = [r \in Reqs |-> IF st[r] = "idle" THEN "idle" ELSE "closed"]
        /\ req' = [r \in Reqs |-> IF req[r] = "none" THEN "none" ELSE "freed"]
        /\ suspended' = [r \in Reqs |-> FALSE]
        /\ tpc' = tpc /\ node' = node
    BY <1>1, <2>2 DEF sg_httpsrv_shutdown, MHD_stop_daemon
  <2>4. \A r \in Reqs : Gone(r)'
    BY <2>1, <2>3 DEF Quiet, Gone
  <2>5. Shape' /\ Owner'
    BY <2>3 DEF OrderlyInv, Shape, Owner
  <2> QED
    BY <2>3, <2>4, <2>5 DEF OrderlyInv
<1>2. CASE ~up
  <2>1. UNCHANGED <<vars, up>> /\ fpc' = done
    BY <1>2 DEF sg_httpsrv_shutdown
  <2> QED
    BY <1>2, <2>1, WalkStep
<1> QED
  BY <1>1, <1>2 DEF OrderlyInv, Shape

LEMMA FreeStepInv == FreeInv /\ [FreeNextState]_allVars => FreeInv'
<1> SUFFICES ASSUME FreeInv, [FreeNextState]_allVars, orderly' PROVE OrderlyInv'
  BY DEF FreeInv
<1>0. orderly' = orderly
  BY DEF FreeNextState, allVars, freeVars, Serve, Isolated, ShutdownCall, Shutdown, FreeCall, FreeStep,
     FreeFirst, FreeJoin, FreeNext, FreeSweep, FreeStop, FreeSrv, sg_httpsrv_shutdown, MHD_stop_daemon
<1>i. OrderlyInv /\ orderly
  BY <1>0 DEF FreeInv
<1>s. Shape /\ Owner
  BY <1>i DEF OrderlyInv
<1>1. ASSUME NEW r \in Reqs, Serve(r) PROVE OrderlyInv'
  <2>1. /\ up /\ up' = up /\ fpc' = fpc /\ (AhcStep(r) \/ MhdStep(r))
        /\ (st[r] = "idle" => fpc = "run")
    BY <1>i, <1>1 DEF Serve, DaemonUp, freeVars
  <2>2. IInv /\ Next
    BY <1>i, <2>1 DEF OrderlyInv, Next
  <2>3. IInv'
    BY <2>2, NextInv
  <2>4. Owner' /\ Shape'
    BY <1>s, <2>1, OwnerStep DEF Shape
  <2>5. fpc # "run" => \A q \in Reqs : Quiet(q)'
    BY <1>i, <2>1, <2>2, QuietServe DEF OrderlyInv, IInv
  <2> QED
    BY <1>i, <2>1, <2>3, <2>4, <2>5 DEF OrderlyInv
<1>2. ASSUME NEW r \in Reqs, Isolated(r) PROVE OrderlyInv'
  <2>1. ThreadStep(r) /\ fpc' = fpc /\ up' = up
    BY <1>2 DEF Isolated
  <2>2. Owner' /\ Shape'
    BY <1>s, <2>1, OwnerStep DEF Shape
  <2>3. up => IInv'
    BY <1>i, <2>1, NextInv DEF OrderlyInv, Next
  <2>4. up /\ fpc # "run" => \A q \in Reqs : Quiet(q)'
    <3> SUFFICES ASSUME \A q \in Reqs : Quiet(q), TypeOK
                 PROVE  \A q \in Reqs : Quiet(q)'
      BY <1>i DEF OrderlyInv, IInv
    <3>1. ThreadFree(r)
      BY <2>1, EndedStep DEF Quiet
    <3> QED
      BY <3>1 DEF ThreadFree, TGoto, Quiet, Ended, TypeOK, mhdVars, reqVars
  <2>5. ~up => \A q \in Reqs : Gone(q)'
    <3> SUFFICES ASSUME \A q \in Reqs : Gone(q) PROVE \A q \in Reqs : Gone(q)'
      BY <1>i DEF OrderlyInv
    <3>1. ThreadFree(r)
      BY <2>1, EndedStep DEF Gone
    <3> QED
      BY <1>s, <3>1 DEF ThreadFree, TGoto, Gone, Ended, Shape, mhdVars, reqVars
  <2> QED
    BY <1>i, <2>1, <2>2, <2>3, <2>4, <2>5 DEF OrderlyInv
<1>3. CASE ShutdownCall \/ FreeCall
  <2>1. fpc = "run" /\ fpc' \in {"shut", "first"} /\ Drained /\ UNCHANGED <<vars, up>>
    BY <1>i, <1>3 DEF ShutdownCall, FreeCall
  <2>2. Shape' /\ Owner'
    BY <1>s, <2>1 DEF Shape, Owner, vars, FreePc, Aborted
  <2>3. ASSUME up PROVE OrderlyInv'
    <3>1. IInv
      BY <1>i, <2>3 DEF OrderlyInv
    <3>2. ASSUME NEW r \in Reqs PROVE Quiet(r)
      BY <2>1, <3>1 DEF Drained, Quiet, Ended, IInv, ReqInv, Running
    <3>3. IInv' /\ \A r \in Reqs : Quiet(r)'
      BY <2>1, <3>1, <3>2, NextInv DEF vars, Quiet
    <3> QED
      BY <2>1, <2>2, <2>3, <3>3 DEF OrderlyInv
  <2>4. ASSUME ~up PROVE OrderlyInv'
    BY <1>i, <2>1, <2>2, <2>4 DEF OrderlyInv, Gone, vars
  <2> QED
    BY <1>s, <2>3, <2>4 DEF Shape
<1>4. CASE FreeFirst \/ FreeJoin \/ FreeNext
  <2>1. /\ UNCHANGED <<vars, up>> /\ fpc # "run"
        /\ fpc' \in {"join", "next", "sweep"}
    BY <1>4 DEF FreeFirst, FreeJoin, FreeNext, Enter
  <2> QED
    BY <1>i, <2>1, WalkStep DEF FreePc, Aborted
<1>5. CASE FreeSweep
  <2>1. fpc = "sweep" /\ fpc' = "stop" /\ up' = up
    BY <1>5 DEF FreeSweep
  <2>2. CASE up
    <3>1. UNCHANGED vars
      BY <1>i, <1>s, <1>5, <2>1, <2>2, SweepNothing DEF OrderlyInv, Shape
    <3> QED
      BY <1>i, <2>1, <3>1, WalkStep DEF FreePc, Aborted
  <2>3. CASE ~up
    <3>1. /\ UNCHANGED <<st, tpc, req, suspended>>
          /\ node' = [r \in Reqs |-> IF r \in ToSet(list) THEN "freed" ELSE node[r]]
      BY <1>5 DEF FreeSweep, reqVars
    <3>2. Shape' /\ Owner'
      BY <1>s, <2>1, <3>1 DEF Shape, Owner, FreePc, Aborted, Memory
    <3> QED
      BY <1>i, <2>1, <2>3, <3>1, <3>2 DEF OrderlyInv, Gone
  <2> QED
    BY <1>s, <2>2, <2>3 DEF Shape
<1>6. CASE Shutdown
  BY <1>i, <1>6, StopInv DEF Shutdown, FreePc, Aborted
<1>7. CASE FreeStop
  BY <1>i, <1>7, StopInv DEF FreeStop, FreePc, Aborted
<1>8. CASE FreeSrv
  <2>1. fpc = "free" /\ fpc' = "done" /\ UNCHANGED <<vars, up>>
    BY <1>8 DEF FreeSrv
  <2> QED
    BY <1>i, <2>1, WalkStep DEF OrderlyInv, FreePc, Aborted
<1>9. CASE UNCHANGED allVars
  <2>1. UNCHANGED vars /\ fpc' = fpc /\ up' = up
    BY <1>9 DEF allVars, freeVars
  <2>2. up => IInv'
    BY <1>i, <2>1, NextInv DEF OrderlyInv
  <2>3. Shape' /\ Owner'
    BY <1>s, <2>1 DEF Shape, Owner, vars
  <2> QED
    BY <1>i, <2>1, <2>2, <2>3 DEF OrderlyInv, Quiet, Gone, vars
<1> QED
  BY <1>1, <1>2, <1>3, <1>4, <1>5, <1>6, <1>7, <1>8, <1>9 DEF FreeNextState, FreeStep

LEMMA FreeInvAlways == FreeSpec => []FreeInv
BY FreeInitInv, FreeStepInv, PTL DEF FreeSpec

-----------------------------------------------------------------------------
(* A server that is shut down or freed when the application's callbacks    *)
(* have ended is stopped without an abort, although threads may still be   *)
(* leaving the list and connections waiting to be resumed                  *)
(* (sg_httpsrv_shutdown, sg_httpsrv_free).                                 *)
THEOREM OrderlyStops == FreeSpec => []OrderlyNeverPanics
<1>1. FreeInv => OrderlyNeverPanics
  BY DEF FreeInv, OrderlyInv, Shape, OrderlyNeverPanics
<1> QED
  BY <1>1, FreeInvAlways, PTL

(* Nothing of it is left but nodes whose threads are about to free them.   *)
THEOREM AllGone == FreeSpec => []NothingLeft
<1>1. FreeInv => NothingLeft
  <2> SUFFICES ASSUME FreeInv, orderly, fpc = "done", NEW r \in Reqs
               PROVE  /\ st[r] \in {"idle", "closed"} /\ req[r] # "live" /\ ~suspended[r]
                      /\ node[r] = "live" => tpc[r] = "free"
                      /\ tpc[r] \in {"none", "free", "exited"}
    BY DEF NothingLeft
  <2>1. Owner /\ Gone(r)
    BY DEF FreeInv, OrderlyInv
  <2> QED
    BY <2>1 DEF Owner, Gone, Ended, Running
<1> QED
  BY <1>1, FreeInvAlways, PTL
=============================================================================
