------------------------- MODULE LispThreadsProofs -------------------------
(***************************************************************************)
(* Proofs about LispThreads, for any number of threads, mutexes, condition *)
(* variables and signals, and any bounds: its types; that mutexes exclude  *)
(* and keep their recursion levels; and, in the second part, who waits:    *)
(* the task vector, the waiter lists, the blockers, and that a wait ends   *)
(* only for its cause.                                                     *)
(***************************************************************************)
EXTENDS LispThreads, SequenceTheorems, WellFoundedInduction, TLAPS

\* A condition primitive in progress is about a condition variable, a lock
\* about a mutex.
ObjOK == \A t \in Threads : /\ pc[t] \in Apart => obj[t] \in CondVars
                            /\ pc[t] = "lock" => obj[t] \in Mutexes

\* The inductive invariant: a level can only be taken from a mutex whose
\* count is that of its owner, so the types rest on LevelsKept.
IInv == TypeOK /\ ObjOK /\ LevelsKept

LEMMA RemoveAtType ==
    ASSUME NEW S, NEW s \in Seq(S), NEW i \in DOMAIN s
    PROVE  RemoveAt(s, i) \in Seq(S)
<1>1. Len(s) \in Nat /\ DOMAIN s = 1 .. Len(s) /\ s \in [1 .. Len(s) -> S]
  BY LenProperties
<1>2. SubSeq(s, 1, i - 1) \in Seq(S)
  <2>1. 1 \in Int /\ i - 1 \in Int /\ \A j \in 1 .. (i - 1) : s[j] \in S
    BY <1>1
  <2> QED BY <2>1, SubSeqProperties
<1>3. SubSeq(s, i + 1, Len(s)) \in Seq(S)
  <2>1. i + 1 \in Int /\ Len(s) \in Int /\ \A j \in (i + 1) .. Len(s) : s[j] \in S
    BY <1>1
  <2> QED BY <2>1, SubSeqProperties
<1> QED BY <1>2, <1>3, ConcatProperties DEF RemoveAt

LEMMA InitIInv == Init => IInv
<1> SUFFICES ASSUME Init PROVE IInv
  OBVIOUS
<1> USE DEF Init
<1>1. TypeOK
  <2>1. << >> \in Seq(Workers) /\ << >> \in Seq(Threads)
        /\ << >> \in Seq(Threads \X (Signals \cup {NilSignal}))
    BY EmptySeq
  <2>2. pc \in [Threads -> PCs]
    BY DEF PCs
  <2> QED BY <2>1, <2>2 DEF TypeOK, Threads
<1>2. ObjOK
  BY DEF ObjOK, Threads, Apart, Relocking
<1>3. LevelsKept
  BY NoneAssumption DEF LevelsKept, LevelsOf, Released, Threads, Apart, Relocking
<1> QED BY <1>1, <1>2, <1>3 DEF IInv

\* What every step needs of the constants.
LEMMA Constants ==
    /\ Main \in Threads /\ Workers \subseteq Threads
    /\ None \notin Threads /\ None \notin Flows /\ NilSignal # None
    /\ Signals \subseteq Flows /\ "error" \in Flows /\ "exit" \in Flows
    /\ \A c \in CondVars : MutexOf[c] \in Mutexes
BY ThreadAssumption, ObjectAssumption, NoneAssumption DEF Threads, Flows

-----------------------------------------------------------------------------
(* The building blocks of the actions.                                     *)

LEMMA SuspendType ==
    ASSUME TypeOK, NEW t \in Threads, Suspend(t)
    PROVE  /\ current' \in Threads /\ tasks' \in Seq(Workers)
           /\ parked' \subseteq Threads /\ pump' \in BOOLEAN
<1> USE Constants DEF TypeOK, Suspend
<1>1. tasks' \in Seq(Workers)
  <2>1. CASE t = Main
    BY <2>1
  <2>2. CASE t # Main
    <3>1. t \in Workers
      BY <2>2 DEF Threads
    <3> QED BY <2>2, <3>1, AppendProperties
  <2> QED BY <2>1, <2>2
<1> QED BY <1>1

LEMMA ReturnType ==
    ASSUME TypeOK, NEW t \in Threads, NEW f \in Flows \cup {None}, Return(t, f)
    PROVE  /\ pc' \in [Threads -> PCs]
           /\ obj' \in [Threads -> Threads \cup Mutexes \cup CondVars \cup {None}]
           /\ flow' \in [Threads -> Flows \cup {None}]
           /\ owed' \in [Threads -> Flows \cup {None}]
           /\ saved' \in [Threads -> Nat]
           /\ pc'[t] \notin Apart \cup {"lock"}
           /\ \A u \in Threads \ {t} : /\ pc'[u] = pc[u] /\ obj'[u] = obj[u]
                                       /\ saved'[u] = saved[u]
BY DEF TypeOK, Return, PCs, Apart, Relocking

\* A step that leaves the mutexes alone and is inside no condition primitive.
LEMMA LevelsFrame ==
    ASSUME IInv, NEW t \in Threads, UNCHANGED <<owner, count, depth, lost>>,
           pc[t] \notin Apart, pc'[t] \notin Apart,
           pc'[t] = "lock" => obj'[t] \in Mutexes,
           \A u \in Threads \ {t} : /\ pc'[u] = pc[u] /\ obj'[u] = obj[u]
                                    /\ saved'[u] = saved[u]
    PROVE  ObjOK' /\ LevelsKept'
<1>1. ObjOK'
  BY DEF IInv, ObjOK
<1>2. \A u \in Threads, m \in Mutexes :
         /\ Released(u, m)' <=> Released(u, m)
         /\ Released(u, m) => saved'[u] = saved[u]
  BY DEF Released
<1> QED BY <1>1, <1>2 DEF IInv, LevelsKept, LevelsOf

\* One round of mutex-lock.
LEMMA LockLoopStep ==
    ASSUME IInv, NEW t \in Threads, NEW m \in Mutexes, pc[t] \in {"run", "lock"},
           LockLoop(t, m), ops' \in Nat,
           UNCHANGED <<waiters, notified, lost, mainEvents, pendingSignal, asleep>>
    PROVE  IInv'
<1> USE Constants
<1>0. TypeOK /\ ObjOK /\ LevelsKept /\ pc[t] \notin Apart
  BY DEF IInv, Apart, Relocking
<1>1. CASE /\ Free(t, m) /\ Acquire(t, m)
           /\ Return(t, None) /\ UNCHANGED <<sched, blocker>>
  <2>1. TypeOK'
    <3>1. /\ owner' \in [Mutexes -> Threads \cup {None}]
          /\ count' \in [Mutexes -> Nat]
          /\ depth' \in [Threads -> [Mutexes -> Nat]]
      BY <1>0, <1>1 DEF TypeOK, Acquire
    <3> QED BY <1>0, <1>1, <3>1, ReturnType DEF TypeOK, sched
  <2>2. ObjOK'
    BY <1>0, <1>1, ReturnType DEF ObjOK
  <2>3. LevelsKept'
    <3>1. \A u \in Threads, n \in Mutexes :
             /\ Released(u, n)' <=> Released(u, n)
             /\ Released(u, n) => saved'[u] = saved[u]
             /\ ~Released(t, n)
      BY <1>0, <1>1, ReturnType DEF Released
    <3>2. /\ owner' = [owner EXCEPT ![m] = t]
          /\ count' = [count EXCEPT ![m] = @ + 1]
          /\ depth' = [depth EXCEPT ![t][m] = @ + 1]
          /\ owner[m] \in {None, t}
      BY <1>1 DEF Acquire, Free
    <3>3. \A u \in Threads, n \in Mutexes :
             depth'[u][n] = IF u = t /\ n = m THEN depth[u][n] + 1 ELSE depth[u][n]
      BY <1>0, <3>2 DEF TypeOK
    <3>4. /\ owner'[m] = t /\ count'[m] = count[m] + 1
          /\ \A n \in Mutexes \ {m} : owner'[n] = owner[n] /\ count'[n] = count[n]
          /\ \A n \in Mutexes : count[n] \in Nat
      BY <1>0, <3>2 DEF TypeOK
    <3>5. ASSUME NEW n \in Mutexes
          PROVE  /\ owner'[n] = None <=> count'[n] = 0
                 /\ \A u \in Threads :
                      /\ Released(u, n)' => owner'[n] # u /\ saved'[u] > 0
                      /\ depth'[u][n] = lost'[u][n] + LevelsOf(u, n)'
      <4>1. CASE n = m
        <5>1. \A u \in Threads :
                LevelsOf(u, n)' = IF u = t THEN LevelsOf(u, n) + 1 ELSE LevelsOf(u, n)
          BY <1>0, <3>1, <3>2, <3>4, <4>1 DEF LevelsKept, LevelsOf
        <5>2. \A u \in Threads : /\ depth[u][n] = lost[u][n] + LevelsOf(u, n)
                                  /\ lost[u][n] \in Nat /\ LevelsOf(u, n) \in Nat
          BY <1>0 DEF LevelsKept, LevelsOf, TypeOK
        <5>3. \A u \in Threads : depth'[u][n] = lost'[u][n] + LevelsOf(u, n)'
          BY <3>3, <4>1, <5>1, <5>2
        <5> QED BY <1>0, <3>1, <3>2, <3>4, <4>1, <5>3 DEF LevelsKept
      <4>2. CASE n # m
        BY <1>0, <3>1, <3>3, <3>4, <4>2 DEF LevelsKept, LevelsOf
      <4> QED BY <4>1, <4>2
    <3> QED BY <3>5 DEF LevelsKept
  <2> QED BY <2>1, <2>2, <2>3 DEF IInv
<1>2. CASE /\ Block(t, "lock", m)
           /\ obj' = [obj EXCEPT ![t] = m]
           /\ UNCHANGED <<flow, owed, saved, owner, count, depth>>
  <2>1. TypeOK'
    BY <1>0, <1>2, SuspendType DEF TypeOK, Block, PCs, Polling
  <2>2. ObjOK' /\ LevelsKept'
    <3>1. /\ pc'[t] = "lock" /\ obj'[t] = m /\ pc'[t] \notin Apart
          /\ \A u \in Threads \ {t} : /\ pc'[u] = pc[u] /\ obj'[u] = obj[u]
                                      /\ saved'[u] = saved[u]
      BY <1>0, <1>2 DEF TypeOK, Block, Apart, Relocking
    <3> QED BY <1>0, <1>2, <3>1, LevelsFrame
  <2> QED BY <2>1, <2>2 DEF IInv
<1> QED BY <1>1, <1>2 DEF LockLoop

\* condition-wait and condition-notify let go of the mutex.
LEMMA LetGoStep ==
    ASSUME IInv, NEW t \in Threads, NEW c \in CondVars, NEW p \in {"cwait", "notify"},
           pc[t] = "run", owner[MutexOf[c]] = t,
           ReleaseAll(t, c), Suspend(t), ops' \in Nat,
           pc' = [pc EXCEPT ![t] = p], obj' = [obj EXCEPT ![t] = c],
           blocker' \in [Threads -> Threads \cup Mutexes \cup CondVars \cup {None}],
           waiters' \in [CondVars -> Seq(Threads)], notified' \subseteq Threads,
           UNCHANGED <<flow, owed, depth, lost, mainEvents, pendingSignal, asleep>>
    PROVE  IInv'
<1> USE Constants
<1>0. TypeOK /\ ObjOK /\ LevelsKept /\ p \in Apart /\ MutexOf[c] \in Mutexes
  BY DEF IInv, Apart
<1>1. TypeOK'
  BY <1>0, SuspendType DEF TypeOK, ReleaseAll, PCs, OneTurn, Polling
<1>2. ObjOK'
  BY <1>0 DEF ObjOK, TypeOK
<1>3. LevelsKept'
  <2>1. \A u \in Threads \ {t}, n \in Mutexes :
           /\ Released(u, n)' <=> Released(u, n)
           /\ saved'[u] = saved[u]
    BY <1>0 DEF Released, TypeOK, ReleaseAll
  <2>2. \A n \in Mutexes : /\ Released(t, n)' <=> (n = MutexOf[c])
                           /\ ~Released(t, n)
    BY <1>0 DEF Released, TypeOK, Apart, Relocking
  <2>3. /\ saved'[t] = count[MutexOf[c]]
        /\ owner' = [owner EXCEPT ![MutexOf[c]] = None]
        /\ count' = [count EXCEPT ![MutexOf[c]] = 0]
    BY <1>0 DEF ReleaseAll, TypeOK
  <2>4. count[MutexOf[c]] \in Nat \ {0}
    BY <1>0 DEF LevelsKept, TypeOK
  <2>5. ASSUME NEW n \in Mutexes
        PROVE  /\ owner'[n] = None <=> count'[n] = 0
               /\ \A u \in Threads :
                    /\ Released(u, n)' => owner'[n] # u /\ saved'[u] > 0
                    /\ depth'[u][n] = lost'[u][n] + LevelsOf(u, n)'
    <3>1. CASE n = MutexOf[c]
      <4>1. owner'[n] = None /\ count'[n] = 0
        BY <1>0, <2>3, <3>1 DEF TypeOK
      <4>2. LevelsOf(t, n) = count[n] /\ Released(t, n)' /\ saved'[t] = count[n]
        BY <1>0, <2>2, <2>3, <3>1 DEF LevelsOf
      <4>3. owner'[n] \notin Threads
        BY <4>1
      <4>4. \A u \in Threads : LevelsOf(u, n)' = LevelsOf(u, n)
        BY <1>0, <2>1, <3>1, <4>2, <4>3 DEF LevelsOf
      <4>5. \A u \in Threads : Released(u, n)' => saved'[u] > 0
        BY <1>0, <2>1, <2>4, <3>1, <4>2 DEF LevelsKept
      <4> QED BY <1>0, <4>1, <4>3, <4>4, <4>5 DEF LevelsKept
    <3>2. CASE n # MutexOf[c]
      <4>1. owner'[n] = owner[n] /\ count'[n] = count[n]
        BY <1>0, <2>3, <3>2 DEF TypeOK
      <4> QED BY <1>0, <2>1, <2>2, <3>2, <4>1 DEF LevelsKept, LevelsOf
    <3> QED BY <3>1, <3>2
  <2> QED BY <2>5 DEF LevelsKept
<1> QED BY <1>1, <1>2, <1>3 DEF IInv

\* ... and try to take it back.
LEMMA RelockStep ==
    ASSUME IInv, NEW t \in Threads, pc[t] \in Apart,
           NEW p \in Relocking, NEW f \in Flows \cup {None},
           TryRelock(t, obj[t], p, f),
           waiters' \in [CondVars -> Seq(Threads)], notified' \subseteq Threads,
           UNCHANGED <<depth, lost, mainEvents, pendingSignal, asleep, ops>>
    PROVE  IInv'
<1> USE Constants
<1> DEFINE m == MutexOf[obj[t]]
<1>0. /\ TypeOK /\ ObjOK /\ LevelsKept
      /\ m \in Mutexes /\ Released(t, m) /\ p \in Apart /\ p # "lock"
  BY DEF IInv, ObjOK, Released, Apart, Relocking
<1>1. CASE /\ Free(t, m)
           /\ owner' = [owner EXCEPT ![m] = t]
           /\ count' = [count EXCEPT ![m] = saved[t]]
           /\ Return(t, f) /\ UNCHANGED <<sched, blocker>>
  <2>1. TypeOK'
    BY <1>0, <1>1, ReturnType DEF TypeOK, sched
  <2>2. ObjOK'
    BY <1>0, <1>1, ReturnType DEF ObjOK
  <2>3. LevelsKept'
    <3>1. /\ \A u \in Threads \ {t}, n \in Mutexes :
               /\ Released(u, n)' <=> Released(u, n)
               /\ saved'[u] = saved[u]
          /\ \A n \in Mutexes : ~Released(t, n)' /\ (Released(t, n) <=> n = m)
      BY <1>0, <1>1, ReturnType DEF Released
    <3>2. owner[m] = None
      BY <1>0, <1>1 DEF Free, LevelsKept
    <3>3. saved[t] \in Nat /\ saved[t] > 0 /\ None \notin Threads
      BY <1>0 DEF LevelsKept, TypeOK
    <3> HIDE DEF m
    <3>4. /\ owner'[m] = t /\ count'[m] = saved[t]
          /\ \A n \in Mutexes \ {m} : owner'[n] = owner[n] /\ count'[n] = count[n]
      BY <1>0, <1>1 DEF TypeOK
    <3>5. \A u \in Threads, n \in Mutexes : LevelsOf(u, n)' = LevelsOf(u, n)
      BY <1>0, <3>1, <3>2, <3>3, <3>4 DEF LevelsOf
    <3> QED BY <1>0, <1>1, <3>1, <3>2, <3>3, <3>4, <3>5 DEF LevelsKept
  <2> QED BY <2>1, <2>2, <2>3 DEF IInv
<1>2. CASE /\ Block(t, p, m)
           /\ flow' = [flow EXCEPT ![t] = None]
           /\ owed' = [owed EXCEPT ![t] = f]
           /\ UNCHANGED <<obj, saved, owner, count>>
  <2>1. TypeOK'
    BY <1>0, <1>2, SuspendType DEF TypeOK, Block, PCs, Polling
  <2>2. ObjOK'
    BY <1>0, <1>2 DEF ObjOK, TypeOK, Block
  <2>3. LevelsKept'
    <3>1. \A u \in Threads, n \in Mutexes : Released(u, n)' <=> Released(u, n)
      BY <1>0, <1>2 DEF Released, TypeOK, Block
    <3> QED BY <1>0, <1>2, <3>1 DEF LevelsKept, LevelsOf
  <2> QED BY <2>1, <2>2, <2>3 DEF IInv
<1> QED BY <1>1, <1>2 DEF TryRelock

-----------------------------------------------------------------------------
(* One lemma per action.                                                   *)

LEMMA MakeThreadStep ==
    ASSUME IInv, NEW t \in Threads, NEW u \in Workers, MakeThread(t, u)
    PROVE  IInv'
<1> USE Constants DEF MakeThread, InLisp, Spend, sched, frame, monitor
<1>1. TypeOK'
  BY DEF IInv, TypeOK, LevelsKept, PCs
<1>2. ObjOK'
  BY DEF IInv, TypeOK, ObjOK, Apart, Relocking
<1>3. LevelsKept'
  <2>1. \A x \in Threads, n \in Mutexes : Released(x, n)' <=> Released(x, n)
    BY DEF IInv, TypeOK, Released, Apart, Relocking
  <2> QED BY <2>1 DEF IInv, LevelsKept, LevelsOf
<1> QED BY <1>1, <1>2, <1>3 DEF IInv

LEMMA ThreadYieldStep ==
    ASSUME IInv, NEW t \in Threads, ThreadYield(t)
    PROVE  IInv'
<1> USE Constants DEF ThreadYield, InLisp
<1>0. TypeOK /\ Suspend(t)
  BY DEF IInv
<1>1. TypeOK'
  BY <1>0, SuspendType DEF TypeOK, monitor, PCs, OneTurn
<1>2. /\ pc[t] \notin Apart /\ pc'[t] \notin Apart \cup {"lock"}
      /\ \A x \in Threads \ {t} : pc'[x] = pc[x]
  BY <1>0 DEF TypeOK, Apart, Relocking
<1>3. ObjOK' /\ LevelsKept'
  BY <1>0, <1>2, LevelsFrame DEF monitor
<1> QED BY <1>1, <1>3 DEF IInv

LEMMA CommandLoopStep ==
    ASSUME IInv, CommandLoop
    PROVE  IInv'
<1> USE Constants DEF CommandLoop, InLisp
<1>0. TypeOK /\ Suspend(Main)
  BY DEF IInv
<1>1. TypeOK'
  BY <1>0, SuspendType DEF TypeOK, monitor, PCs, OneTurn
<1>2. /\ pc[Main] \notin Apart /\ pc'[Main] \notin Apart \cup {"lock"}
      /\ \A x \in Threads \ {Main} : pc'[x] = pc[x]
  BY <1>0 DEF TypeOK, Apart, Relocking
<1>3. ObjOK' /\ LevelsKept'
  BY <1>0, <1>2, LevelsFrame DEF monitor
<1> QED BY <1>1, <1>3 DEF IInv

LEMMA SleepWorkerStep ==
    ASSUME IInv, NEW t \in Threads, SleepWorker(t)
    PROVE  IInv'
<1> USE Constants DEF SleepWorker, InLisp
<1>0. TypeOK /\ Suspend(t)
  BY DEF IInv
<1>1. TypeOK'
  <2>1. t \in Workers
    BY DEF Threads
  <2> QED BY <1>0, <2>1, SuspendType DEF TypeOK, monitor, PCs, OneTurn
<1>2. /\ pc[t] \notin Apart /\ pc'[t] \notin Apart \cup {"lock"}
      /\ \A x \in Threads \ {t} : pc'[x] = pc[x]
  BY <1>0 DEF TypeOK, Apart, Relocking
<1>3. ObjOK' /\ LevelsKept'
  BY <1>0, <1>2, LevelsFrame DEF monitor
<1> QED BY <1>1, <1>3 DEF IInv

LEMMA ThreadJoinStep ==
    ASSUME IInv, NEW t \in Threads, NEW u \in Threads, ThreadJoin(t, u)
    PROVE  IInv'
<1> USE Constants DEF ThreadJoin, InLisp, Spend
<1> DEFINE captured == IF Signaled(u) THEN pendingSignal[u] ELSE None
<1>0. TypeOK /\ pc[t] \notin Apart /\ captured \in Flows \cup {None}
  BY DEF IInv, TypeOK, Signaled, Apart, Relocking
<1>1. CASE Return(t, captured) /\ UNCHANGED <<sched, blocker>>
  <2>1. TypeOK'
    BY <1>0, <1>1, ReturnType DEF TypeOK, sched, monitor
  <2>2. ObjOK' /\ LevelsKept'
    BY <1>0, <1>1, ReturnType, LevelsFrame DEF monitor
  <2> QED BY <2>1, <2>2 DEF IInv
<1>2. CASE /\ Block(t, "join", u) /\ obj' = [obj EXCEPT ![t] = u]
           /\ owed' = [owed EXCEPT ![t] = captured] /\ UNCHANGED <<flow, saved>>
  <2>1. TypeOK'
    BY <1>0, <1>2, SuspendType DEF TypeOK, Block, monitor, PCs, Polling
  <2>2. /\ pc'[t] \notin Apart \cup {"lock"}
        /\ \A x \in Threads \ {t} : /\ pc'[x] = pc[x] /\ obj'[x] = obj[x]
                                    /\ saved'[x] = saved[x]
    BY <1>0, <1>2 DEF TypeOK, Block, Apart, Relocking
  <2>3. ObjOK' /\ LevelsKept'
    BY <1>0, <2>2, LevelsFrame DEF monitor
  <2> QED BY <2>1, <2>3 DEF IInv
<1> QED BY <1>1, <1>2

LEMMA MutexLockStep ==
    ASSUME IInv, NEW t \in Threads, NEW m \in Mutexes, MutexLock(t, m)
    PROVE  IInv'
<1>1. /\ ops' \in Nat /\ pc[t] \in {"run", "lock"}
      /\ UNCHANGED <<waiters, notified, lost, mainEvents, pendingSignal, asleep>>
  BY DEF MutexLock, InLisp, Spend, IInv, TypeOK
<1>2. LockLoop(t, m)
  BY DEF MutexLock
<1> QED BY <1>1, <1>2, LockLoopStep

LEMMA MutexUnlockStep ==
    ASSUME IInv, NEW t \in Threads, NEW m \in Mutexes, MutexUnlock(t, m)
    PROVE  IInv'
<1> USE Constants DEF MutexUnlock, InLisp, Spend, sched, frame, monitor
<1>0. /\ TypeOK /\ ObjOK /\ LevelsKept /\ owner[m] = t /\ pc[t] \notin Apart
      /\ count[m] \in Nat \ {0} /\ lost[t][m] \in Nat
      /\ depth[t][m] = lost[t][m] + count[m]
  <2>1. TypeOK /\ ObjOK /\ LevelsKept /\ owner[m] = t /\ pc[t] = "run"
    BY DEF IInv
  <2>2. count[m] \in Nat /\ lost[t][m] \in Nat /\ LevelsOf(t, m) = count[m]
    BY <2>1 DEF TypeOK, LevelsOf
  <2>3. count[m] # 0 /\ depth[t][m] = lost[t][m] + LevelsOf(t, m)
    BY <2>1 DEF LevelsKept
  <2>4. pc[t] \notin Apart
    BY <2>1 DEF Apart, Relocking
  <2> HIDE DEF MutexUnlock, InLisp, Spend, sched, frame, monitor
  <2> QED BY <2>1, <2>2, <2>3, <2>4
<1>1. depth[t][m] - 1 \in Nat /\ count[m] - 1 \in Nat
  BY <1>0
<1>2. TypeOK'
  BY <1>0, <1>1 DEF TypeOK
<1>3. ObjOK'
  BY DEF IInv, TypeOK, ObjOK, Apart, Relocking
<1>4. LevelsKept'
  <2>1. \A u \in Threads, n \in Mutexes :
           /\ Released(u, n)' <=> Released(u, n)
           /\ ~Released(t, n)
    BY <1>0 DEF Released
  <2>2. /\ owner'[m] = IF count[m] = 1 THEN None ELSE t
        /\ count'[m] = count[m] - 1
        /\ \A n \in Mutexes \ {m} : owner'[n] = owner[n] /\ count'[n] = count[n]
        /\ \A u \in Threads, n \in Mutexes :
              depth'[u][n] = IF u = t /\ n = m THEN depth[t][m] - 1 ELSE depth[u][n]
    BY <1>0 DEF TypeOK
  <2>3. \A u \in Threads, n \in Mutexes :
           LevelsOf(u, n)' = IF u = t /\ n = m THEN count[m] - 1 ELSE LevelsOf(u, n)
    BY <1>0, <2>1, <2>2 DEF LevelsOf
  <2>4. \A u \in Threads, n \in Mutexes :
           depth'[u][n] = lost'[u][n] + LevelsOf(u, n)'
    BY <1>0, <2>2, <2>3 DEF LevelsKept
  <2> QED BY <1>0, <2>1, <2>2, <2>4 DEF LevelsKept
<1> QED BY <1>2, <1>3, <1>4 DEF IInv

LEMMA ConditionWaitStep ==
    ASSUME IInv, NEW t \in Threads, NEW c \in CondVars, ConditionWait(t, c)
    PROVE  IInv'
<1> USE DEF ConditionWait, InLisp, Spend, Block
<1>1. /\ ops' \in Nat /\ waiters' \in [CondVars -> Seq(Threads)]
      /\ blocker' \in [Threads -> Threads \cup Mutexes \cup CondVars \cup {None}]
      /\ notified' \subseteq Threads
  BY AppendProperties DEF IInv, TypeOK
<1> QED BY <1>1, LetGoStep

LEMMA ConditionNotifyStep ==
    ASSUME IInv, NEW t \in Threads, NEW c \in CondVars, NEW all \in BOOLEAN, ConditionNotify(t, c, all)
    PROVE  IInv'
<1> USE DEF ConditionNotify, InLisp, Spend
<1>1. Cells(c, all) \subseteq Threads
  BY LenProperties, ElementOfSeq DEF IInv, TypeOK, Cells
<1>2. /\ ops' \in Nat /\ waiters' \in [CondVars -> Seq(Threads)]
      /\ blocker' \in [Threads -> Threads \cup Mutexes \cup CondVars \cup {None}]
      /\ notified' \subseteq Threads
  BY <1>1 DEF IInv, TypeOK
<1> QED BY <1>2, LetGoStep

LEMMA ThreadSignalStep ==
    ASSUME IInv, NEW t \in Threads, NEW u \in Threads, NEW s \in Signals \cup {NilSignal}, ThreadSignal(t, u, s)
    PROVE  IInv'
<1> USE Constants DEF ThreadSignal, InLisp, Spend
<1>0. TypeOK /\ pc[t] \notin Apart
  BY DEF IInv, Apart, Relocking
<1>1. CASE /\ Return(t, IF s = NilSignal THEN "error" ELSE s)
           /\ UNCHANGED <<mainEvents, pendingSignal>>
  <2>1. TypeOK'
    <3>1. PICK f \in Flows \cup {None} : Return(t, f)
      BY <1>1
    <3>2. /\ UNCHANGED <<sched, monitor, blocker, asleep, mainEvents, pendingSignal>>
          /\ ops' \in Nat
      BY <1>0, <1>1 DEF TypeOK
    <3> HIDE DEF ThreadSignal
    <3> QED BY <1>0, <3>1, <3>2, ReturnType DEF TypeOK, sched, monitor
  <2>2. ObjOK' /\ LevelsKept'
    BY <1>0, <1>1, ReturnType, LevelsFrame DEF monitor
  <2> QED BY <2>1, <2>2 DEF IInv
<1>2. CASE /\ mainEvents' = Append(mainEvents, <<t, s>>)
           /\ UNCHANGED <<frame, pendingSignal>>
  <2>1. TypeOK'
    BY <1>0, <1>2, AppendProperties DEF TypeOK, sched, frame, monitor
  <2>2. ObjOK' /\ LevelsKept'
    BY <1>2 DEF IInv, ObjOK, LevelsKept, LevelsOf, Released, frame, monitor
  <2> QED BY <2>1, <2>2 DEF IInv
<1>3. CASE /\ pendingSignal' = [pendingSignal EXCEPT ![u] = s]
           /\ UNCHANGED <<frame, mainEvents>>
  <2>1. TypeOK'
    BY <1>0, <1>3 DEF TypeOK, sched, frame, monitor
  <2>2. ObjOK' /\ LevelsKept'
    BY <1>3 DEF IInv, ObjOK, LevelsKept, LevelsOf, Released, frame, monitor
  <2> QED BY <2>1, <2>2 DEF IInv
<1> QED BY <1>1, <1>2, <1>3

LEMMA LispErrorStep ==
    ASSUME IInv, NEW t \in Threads, LispError(t)
    PROVE  IInv'
<1> USE Constants DEF LispError, InLisp
<1>0. TypeOK /\ pc[t] \notin Apart
  BY DEF IInv, Apart, Relocking
<1>1. PICK f \in Flows \cup {None} : Return(t, f)
  BY <1>0 DEF TypeOK
<1>2. ops' \in Nat
  BY <1>0 DEF TypeOK, Spend
<1>3. TypeOK'
  BY <1>0, <1>1, <1>2, ReturnType DEF TypeOK, sched, monitor
<1>4. ObjOK' /\ LevelsKept'
  BY <1>0, <1>1, ReturnType, LevelsFrame DEF monitor
<1> QED BY <1>3, <1>4 DEF IInv

LEMMA CatchStep ==
    ASSUME IInv, NEW t \in Threads, Catch(t)
    PROVE  IInv'
<1> USE Constants DEF Catch, Resumed
<1>0. TypeOK /\ pc[t] \notin Apart
  BY DEF IInv, Apart, Relocking
<1>1. PICK f \in Flows \cup {None} : Return(t, f)
  BY <1>0 DEF TypeOK
<1>2. TypeOK'
  BY <1>0, <1>1, ReturnType DEF TypeOK, sched, monitor
<1>3. ObjOK' /\ LevelsKept'
  BY <1>0, <1>1, ReturnType, LevelsFrame DEF monitor
<1> QED BY <1>2, <1>3 DEF IInv

LEMMA FinishStep ==
    ASSUME IInv, NEW t \in Threads, Finish(t)
    PROVE  IInv'
<1> USE Constants DEF Finish, InLisp, Resumed, Die, sched, frame, monitor
<1>1. TypeOK'
  BY DEF IInv, TypeOK, LevelsKept, PCs
<1>2. ObjOK'
  BY DEF IInv, TypeOK, ObjOK, Apart, Relocking
<1>3. LevelsKept'
  BY DEF IInv, TypeOK, LevelsKept, LevelsOf, Released, Apart, Relocking
<1> QED BY <1>1, <1>2, <1>3 DEF IInv

LEMMA ExitPacketStep ==
    ASSUME IInv, NEW t \in Threads, ExitPacket(t)
    PROVE  IInv'
<1> USE Constants DEF ExitPacket, InLisp, Die, sched, frame, monitor
<1>1. TypeOK'
  BY DEF IInv, TypeOK, LevelsKept, PCs
<1>2. ObjOK'
  BY DEF IInv, TypeOK, ObjOK, Apart, Relocking
<1>3. LevelsKept'
  BY DEF IInv, TypeOK, LevelsKept, LevelsOf, Released, Apart, Relocking
<1> QED BY <1>1, <1>2, <1>3 DEF IInv

LEMMA StartedStep ==
    ASSUME IInv, NEW t \in Threads, Started(t)
    PROVE  IInv'
<1> USE Constants DEF Started, Resumed
<1>0. TypeOK /\ pc[t] \notin Apart
  BY DEF IInv, Apart, Relocking
<1>1. CASE Return(t, None) /\ UNCHANGED <<sched, pendingSignal, asleep>>
  <2>1. TypeOK'
    BY <1>0, <1>1, ReturnType DEF TypeOK, sched, monitor
  <2>2. ObjOK' /\ LevelsKept'
    BY <1>0, <1>1, ReturnType, LevelsFrame DEF monitor
  <2> QED BY <2>1, <2>2 DEF IInv
<1>2. CASE /\ Die(t) /\ flow' = [flow EXCEPT ![t] = None]
           /\ UNCHANGED <<parked, pump>>
  <2>1. TypeOK'
    BY <1>0, <1>2 DEF TypeOK, Die, monitor, PCs
  <2>2. /\ pc'[t] \notin Apart \cup {"lock"}
        /\ \A x \in Threads \ {t} : pc'[x] = pc[x]
    BY <1>0, <1>2 DEF TypeOK, Die, Apart, Relocking
  <2>3. ObjOK' /\ LevelsKept'
    BY <1>0, <1>2, <2>2, LevelsFrame DEF Die, monitor
  <2> QED BY <2>1, <2>3 DEF IInv
<1> QED BY <1>1, <1>2

LEMMA TurnOverStep ==
    ASSUME IInv, NEW t \in Threads, TurnOver(t)
    PROVE  IInv'
<1> USE Constants DEF TurnOver, Resumed
<1>0. TypeOK /\ pc[t] \notin Apart
  BY DEF IInv, Apart, Relocking
<1>1. PICK f \in Flows \cup {None} : Return(t, f)
  BY <1>0 DEF TypeOK
<1>2. TypeOK'
  BY <1>0, <1>1, ReturnType DEF TypeOK, sched, monitor
<1>3. ObjOK' /\ LevelsKept'
  BY <1>0, <1>1, ReturnType, LevelsFrame DEF monitor
<1> QED BY <1>2, <1>3 DEF IInv

LEMMA JoinOverStep ==
    ASSUME IInv, NEW t \in Threads, JoinOver(t)
    PROVE  IInv'
<1> USE Constants DEF JoinOver, Resumed
<1>0. TypeOK /\ pc[t] \notin Apart
  BY DEF IInv, Apart, Relocking
<1>1. PICK f \in Flows \cup {None} : Return(t, f)
  BY <1>0 DEF TypeOK
<1>2. TypeOK'
  BY <1>0, <1>1, ReturnType DEF TypeOK, sched, monitor
<1>3. ObjOK' /\ LevelsKept'
  BY <1>0, <1>1, ReturnType, LevelsFrame DEF monitor
<1> QED BY <1>2, <1>3 DEF IInv

LEMMA LockRetryStep ==
    ASSUME IInv, NEW t \in Threads, LockRetry(t)
    PROVE  IInv'
<1> USE Constants DEF LockRetry, Resumed
<1>0. TypeOK /\ pc[t] \notin Apart /\ obj[t] \in Mutexes
  BY DEF IInv, ObjOK, Apart, Relocking
<1>1. CASE Return(t, flow[t]) /\ UNCHANGED <<sched, owner, count, depth, blocker>>
  <2>1. flow[t] \in Flows \cup {None}
    BY <1>0 DEF TypeOK
  <2>2. TypeOK'
    BY <1>0, <1>1, <2>1, ReturnType DEF TypeOK, sched
  <2>3. ObjOK' /\ LevelsKept'
    BY <1>0, <1>1, <2>1, ReturnType, LevelsFrame
  <2> QED BY <2>2, <2>3 DEF IInv
<1>2. CASE LockLoop(t, obj[t])
  BY <1>0, <1>2, LockLoopStep DEF TypeOK
<1> QED BY <1>1, <1>2

LEMMA ConditionWokenStep ==
    ASSUME IInv, NEW t \in Threads, ConditionWoken(t)
    PROVE  IInv'
<1> USE Constants DEF ConditionWoken, Resumed
<1>0. /\ TypeOK /\ pc[t] \in Apart /\ obj[t] \in CondVars
      /\ flow[t] \in Flows \cup {None} /\ "rewait" \in Relocking
  BY DEF IInv, TypeOK, ObjOK, Apart, Relocking
<1>1. waiters' \in [CondVars -> Seq(Threads)]
  BY <1>0, RemoveAtType DEF TypeOK
<1>2. notified' \subseteq Threads
  BY <1>0 DEF TypeOK
<1> QED BY <1>0, <1>1, <1>2, RelockStep

LEMMA NotifyTurnOverStep ==
    ASSUME IInv, NEW t \in Threads, NotifyTurnOver(t)
    PROVE  IInv'
<1> USE Constants DEF NotifyTurnOver, Resumed
<1>0. /\ TypeOK /\ pc[t] \in Apart
      /\ flow[t] \in Flows \cup {None} /\ "renotify" \in Relocking
  BY DEF IInv, TypeOK, Apart, Relocking
<1>1. waiters' \in [CondVars -> Seq(Threads)] /\ notified' \subseteq Threads
  BY <1>0 DEF TypeOK
<1> QED BY <1>0, <1>1, RelockStep

LEMMA RelockRetryStep ==
    ASSUME IInv, NEW t \in Threads, RelockRetry(t)
    PROVE  IInv'
<1> USE Constants DEF RelockRetry, Resumed
<1> DEFINE m == MutexOf[obj[t]]
<1>0. /\ TypeOK /\ ObjOK /\ LevelsKept
      /\ pc[t] \in Apart /\ pc[t] \in Relocking /\ m \in Mutexes
      /\ flow[t] \in Flows \cup {None} /\ owed[t] \in Flows \cup {None}
  BY DEF IInv, TypeOK, ObjOK, Apart
<1>1. CASE /\ Return(t, flow[t])
           /\ lost' = [lost EXCEPT ![t][m] = @ + saved[t]]
           /\ UNCHANGED <<sched, owner, count, blocker>>
  <2>1. TypeOK'
    <3>1. lost' \in [Threads -> [Mutexes -> Nat]]
      BY <1>0, <1>1 DEF TypeOK
    <3> QED BY <1>0, <1>1, <3>1, ReturnType DEF TypeOK, sched
  <2>2. ObjOK'
    BY <1>0, <1>1, ReturnType DEF ObjOK
  <2>3. LevelsKept'
    <3>1. \A u \in Threads, n \in Mutexes :
             /\ Released(u, n)' <=> (u # t /\ Released(u, n))
             /\ u # t => saved'[u] = saved[u]
             /\ Released(t, n) <=> n = m
      BY <1>0, <1>1, ReturnType DEF Released
    <3>2. \A u \in Threads, n \in Mutexes :
             lost'[u][n] = IF u = t /\ n = m THEN lost[u][n] + saved[t] ELSE lost[u][n]
      BY <1>0, <1>1 DEF TypeOK
    <3>3. owner[m] # t
      BY <1>0, <3>1 DEF LevelsKept
    <3> HIDE DEF m
    <3>4. \A u \in Threads, n \in Mutexes :
             /\ u = t /\ n = m => LevelsOf(u, n) = saved[t] /\ LevelsOf(u, n)' = 0
             /\ u # t \/ n # m => LevelsOf(u, n)' = LevelsOf(u, n)
      BY <1>0, <1>1, <3>1, <3>3 DEF LevelsOf
    <3>5. \A u \in Threads, n \in Mutexes :
             depth'[u][n] = lost'[u][n] + LevelsOf(u, n)'
      <4>1. \A u \in Threads, n \in Mutexes :
               /\ depth[u][n] = lost[u][n] + LevelsOf(u, n)
               /\ lost[u][n] \in Nat /\ LevelsOf(u, n) \in Nat
        BY <1>0 DEF LevelsKept, LevelsOf, TypeOK
      <4>2. depth' = depth
        OBVIOUS
      <4> QED BY <3>2, <3>4, <4>1, <4>2
    <3> QED BY <1>0, <1>1, <3>1, <3>5 DEF LevelsKept
  <2> QED BY <2>1, <2>2, <2>3 DEF IInv
<1>2. CASE TryRelock(t, obj[t], pc[t], owed[t]) /\ UNCHANGED lost
  BY <1>0, <1>2, RelockStep DEF TypeOK
<1> QED BY <1>1, <1>2

LEMMA RunOneStep ==
    ASSUME IInv, NEW i \in 1 .. Cardinality(Workers), RunOne(i)
    PROVE  IInv'
<1> USE Constants DEF RunOne
<1>1. TypeOK'
  <2>1. /\ tasks \in Seq(Workers) /\ i \in DOMAIN tasks
        /\ tasks[i] \in Workers /\ tasks[i] \in Threads
    BY LenProperties, ElementOfSeq DEF IInv, TypeOK, FirstEligible
  <2>2. tasks' \in Seq(Workers)
    BY <2>1, RemoveAtType
  <2>3. flow' \in [Threads -> Flows \cup {None}]
    BY <2>1 DEF IInv, TypeOK, Wake, Signaled
  <2> QED BY <2>1, <2>2, <2>3 DEF IInv, TypeOK, Wake, monitor
<1>2. ObjOK' /\ LevelsKept'
  BY DEF IInv, ObjOK, LevelsKept, LevelsOf, Released, monitor
<1> QED BY <1>1, <1>2 DEF IInv

LEMMA IdleTurnStep ==
    ASSUME IInv, IdleTurn
    PROVE  IInv'
<1> USE Constants DEF IdleTurn
<1>1. TypeOK'
  BY Constants DEF IInv, TypeOK, frame, monitor
<1>2. ObjOK' /\ LevelsKept'
  BY DEF IInv, ObjOK, LevelsKept, LevelsOf, Released, frame, monitor
<1> QED BY <1>1, <1>2 DEF IInv

LEMMA PumpEventsStep ==
    ASSUME IInv, PumpEvents
    PROVE  IInv'
<1> USE Constants DEF PumpEvents
<1>1. TypeOK'
  <2>1. << >> \in Seq(Threads \X (Signals \cup {NilSignal}))
    BY EmptySeq
  <2>2. ops' \in Nat
    BY DEF IInv, TypeOK, Spend
  <2>3. parked' \subseteq Threads
    BY DEF IInv, TypeOK
  <2>4. flow' \in [Threads -> Flows \cup {None}]
    <3>1. flow \in [Threads -> Flows \cup {None}]
      BY DEF IInv, TypeOK
    <3>2. "error" \in Flows
      BY DEF Flows
    <3>3. flow' = flow \/ flow' = [flow EXCEPT ![Main] = "error"]
      OBVIOUS
    <3> HIDE DEF PumpEvents
    <3> QED BY <3>1, <3>2, <3>3
  <2>5. blocker' \in [Threads -> Threads \cup Mutexes \cup CondVars \cup {None}]
    BY DEF IInv, TypeOK
  <2> QED BY <2>1, <2>2, <2>3, <2>4, <2>5 DEF IInv, TypeOK, monitor
<1>2. ObjOK' /\ LevelsKept'
  BY DEF IInv, ObjOK, LevelsKept, LevelsOf, Released, monitor
<1> QED BY <1>1, <1>2 DEF IInv

LEMMA WakeMainStep ==
    ASSUME IInv, WakeMain
    PROVE  IInv'
<1> USE Constants DEF WakeMain
<1>1. TypeOK'
  BY Constants DEF IInv, TypeOK, Wake, Signaled, frame, monitor
<1>2. ObjOK' /\ LevelsKept'
  BY DEF IInv, ObjOK, LevelsKept, LevelsOf, Released, frame, monitor
<1> QED BY <1>1, <1>2 DEF IInv

LEMMA MainExitStep ==
    ASSUME IInv, MainExit
    PROVE  IInv'
<1> USE Constants DEF MainExit, Resumed, sched, frame, monitor
<1>1. TypeOK'
  BY DEF IInv, TypeOK, LevelsKept, PCs
<1>2. ObjOK'
  BY DEF IInv, TypeOK, ObjOK, Apart, Relocking
<1>3. LevelsKept'
  BY DEF IInv, TypeOK, LevelsKept, LevelsOf, Released, Apart, Relocking
<1> QED BY <1>1, <1>2, <1>3 DEF IInv

LEMMA DeadlinePassesStep ==
    ASSUME IInv, NEW t \in Workers, DeadlinePasses(t)
    PROVE  IInv'
<1> USE Constants DEF DeadlinePasses
<1>1. TypeOK'
  BY Constants DEF IInv, TypeOK, sched, frame, monitor
<1>2. ObjOK' /\ LevelsKept'
  BY DEF IInv, ObjOK, LevelsKept, LevelsOf, Released, frame, monitor
<1> QED BY <1>1, <1>2 DEF IInv

-----------------------------------------------------------------------------
LEMMA NextIInv == IInv /\ [Next]_vars => IInv'
<1> SUFFICES ASSUME IInv, [Next]_vars PROVE IInv'
  OBVIOUS
<1>1. ASSUME NEW t \in Threads, LispCall(t) PROVE IInv'
  <2> USE <1>1
  <2>1. CASE \E u \in Workers : MakeThread(t, u)
    BY <2>1, MakeThreadStep
  <2>2. CASE ThreadYield(t) \/ SleepWorker(t)
    BY <2>2, ThreadYieldStep, SleepWorkerStep
  <2>3. CASE \E u \in Threads : ThreadJoin(t, u)
    BY <2>3, ThreadJoinStep
  <2>4. CASE \E m \in Mutexes : MutexLock(t, m) \/ MutexUnlock(t, m)
    BY <2>4, MutexLockStep, MutexUnlockStep
  <2>5. CASE \E c \in CondVars : ConditionWait(t, c)
    BY <2>5, ConditionWaitStep
  <2>6. CASE \E c \in CondVars, all \in BOOLEAN : ConditionNotify(t, c, all)
    BY <2>6, ConditionNotifyStep
  <2>7. CASE \E u \in Threads, s \in Signals \cup {NilSignal} : ThreadSignal(t, u, s)
    BY <2>7, ThreadSignalStep
  <2>8. CASE LispError(t) \/ Catch(t)
    BY <2>8, LispErrorStep, CatchStep
  <2>9. CASE Finish(t) \/ ExitPacket(t)
    BY <2>9, FinishStep, ExitPacketStep
  <2> QED BY <2>1, <2>2, <2>3, <2>4, <2>5, <2>6, <2>7, <2>8, <2>9 DEF LispCall
<1>2. ASSUME NEW t \in Threads, Resumption(t) PROVE IInv'
  BY <1>2, StartedStep, TurnOverStep, JoinOverStep, LockRetryStep,
     ConditionWokenStep, NotifyTurnOverStep, RelockRetryStep DEF Resumption
<1>3. CASE Scheduling
  BY <1>3, RunOneStep, IdleTurnStep, PumpEventsStep, WakeMainStep,
     CommandLoopStep, MainExitStep DEF Scheduling
<1>4. CASE \E t \in Workers : DeadlinePasses(t)
  BY <1>4, DeadlinePassesStep
<1>5. CASE UNCHANGED vars
  BY <1>5 DEF IInv, TypeOK, ObjOK, LevelsKept, LevelsOf, Released, vars, sched, frame, monitor
<1> QED BY <1>1, <1>2, <1>3, <1>4, <1>5 DEF Next, Running

LEMMA Invariance == Spec => []IInv
<1> QED BY InitIInv, NextIInv, PTL DEF Spec

\* Every variable of the scheduler and of the primitives keeps its type.
THEOREM TypesKept == Spec => []TypeOK
<1>1. IInv => TypeOK
  BY DEF IInv
<1> QED BY <1>1, Invariance, PTL

\* The levels a program locked and did not unlock are, at any time, in the mutex,
\* put aside for it, or among those lost by an error that ended the wait to
\* relock (RelockRetry, the one action that changes `lost').  No interleaving of
\* locks, waits, notifications, signals and exits loses or invents another.
THEOREM LevelsAreKept == Spec => []LevelsKept
<1>1. IInv => LevelsKept
  BY DEF IInv
<1> QED BY <1>1, Invariance, PTL

\* Two threads never hold one mutex: see Holds for the levels that do not count.
THEOREM MutexesExclude == Spec => []MutualExclusion
<1>1. IInv => MutualExclusion
  <2> SUFFICES ASSUME IInv, NEW m \in Mutexes, NEW t \in Threads, NEW u \in Threads,
                      Holds(t, m), Holds(u, m)
               PROVE  t = u
    BY DEF MutualExclusion
  <2>1. \A x \in Threads : Holds(x, m) => owner[m] = x
    <3> SUFFICES ASSUME NEW x \in Threads, Holds(x, m), owner[m] # x PROVE FALSE
      OBVIOUS
    <3>1. LevelsOf(x, m) = 0 /\ lost[x][m] \in Nat
      BY DEF Holds, LevelsOf, IInv, TypeOK
    <3>2. depth[x][m] = lost[x][m] + LevelsOf(x, m)
      BY DEF IInv, LevelsKept
    <3> QED BY <3>1, <3>2 DEF Holds
  <2> QED BY <2>1
<1> QED BY <1>1, Invariance, PTL
-----------------------------------------------------------------------------
(***************************************************************************)
(* Who waits.                                                              *)
(***************************************************************************)

\* The elements of a sequence, and that none occurs twice.
Elems(s) == {s[i] : i \in DOMAIN s}
Once(s)  == \A i, j \in DOMAIN s : s[i] = s[j] => i = j

\* A thread runs on after a wait without an error only when what it waited
\* for has come.
Woken == \A t \in Threads :
            /\ pc[t] = "join" => obj[t] \in Threads
            /\ t \notin parked /\ flow[t] = None =>
                  /\ pc[t] = "join" => pc[obj[t]] = "finished"
                  /\ pc[t] = "cwait" => t \in notified

\* Levels are put aside only inside a condition primitive.
PutAside == \A t \in Threads : pc[t] \notin Apart => saved[t] = 0

\* What is true of waiting threads, inductive together with the types.
Waits == WaiterListExact /\ BlockerTruth /\ Woken /\ PutAside

LEMMA AppendOnce ==
    ASSUME NEW S, NEW s \in Seq(S), NEW e \in S
    PROVE  /\ Elems(Append(s, e)) = Elems(s) \cup {e}
           /\ Once(s) /\ e \notin Elems(s) => Once(Append(s, e))
<1> DEFINE a == Append(s, e)
<1>1. /\ Len(s) \in Nat /\ DOMAIN s = 1 .. Len(s) /\ DOMAIN a = 1 .. (Len(s) + 1)
      /\ \A i \in 1 .. Len(s) : a[i] = s[i]
      /\ a[Len(s) + 1] = e
  BY AppendProperties, LenProperties
<1> HIDE DEF a
<1>2. Elems(a) = Elems(s) \cup {e}
  <2>1. ASSUME NEW x \in Elems(a) PROVE x \in Elems(s) \cup {e}
    BY <1>1 DEF Elems
  <2>2. Elems(s) \subseteq Elems(a)
    BY <1>1 DEF Elems
  <2>3. e \in Elems(a)
    BY <1>1 DEF Elems
  <2> QED BY <2>1, <2>2, <2>3
<1>3. ASSUME Once(s), e \notin Elems(s) PROVE Once(a)
  BY <1>1, <1>3 DEF Once, Elems
<1> QED BY <1>2, <1>3 DEF a

LEMMA RemoveAtItems ==
    ASSUME NEW S, NEW s \in Seq(S), NEW k \in DOMAIN s
    PROVE  /\ DOMAIN RemoveAt(s, k) = 1 .. (Len(s) - 1)
           /\ \A i \in 1 .. (Len(s) - 1) :
                 RemoveAt(s, k)[i] = IF i < k THEN s[i] ELSE s[i + 1]
<1> DEFINE l == SubSeq(s, 1, k - 1)
           r == SubSeq(s, k + 1, Len(s))
<1>1. Len(s) \in Nat /\ k \in 1 .. Len(s) /\ \A i \in 1 .. Len(s) : s[i] \in S
  BY LenProperties
<1>2. /\ l \in Seq(S) /\ Len(l) = k - 1
      /\ \A i \in 1 .. (k - 1) : l[i] = s[i]
  <2>1. 1 \in Int /\ k - 1 \in Int /\ \A i \in 1 .. (k - 1) : s[i] \in S
    BY <1>1
  <2> QED BY <1>1, <2>1, SubSeqProperties
<1>3. /\ r \in Seq(S) /\ Len(r) = Len(s) - k
      /\ \A i \in 1 .. (Len(s) - k) : r[i] = s[k + i]
  <2>1. /\ k + 1 \in Int /\ Len(s) \in Int
        /\ \A i \in (k + 1) .. Len(s) : s[i] \in S
    BY <1>1
  <2>2. /\ r \in Seq(S)
        /\ Len(r) = IF k + 1 <= Len(s) THEN Len(s) - (k + 1) + 1 ELSE 0
        /\ \A i \in 1 .. (Len(s) - (k + 1) + 1) : r[i] = s[k + 1 + i - 1]
    BY <2>1, SubSeqProperties
  <2>3. \A i \in 1 .. (Len(s) - k) : r[i] = s[k + i]
    <3> SUFFICES ASSUME NEW i \in 1 .. (Len(s) - k) PROVE r[i] = s[k + i]
      OBVIOUS
    <3>1. i \in 1 .. (Len(s) - (k + 1) + 1) /\ k + 1 + i - 1 = k + i
      BY <1>1
    <3> QED BY <2>2, <3>1
  <2> QED BY <1>1, <2>2, <2>3
<1>4. /\ RemoveAt(s, k) = l \o r
      /\ DOMAIN (l \o r) = 1 .. (Len(s) - 1)
      /\ \A i \in 1 .. Len(l) : (l \o r)[i] = l[i]
      /\ \A i \in (Len(l) + 1) .. (Len(l) + Len(r)) : (l \o r)[i] = r[i - Len(l)]
  <2> HIDE DEF l, r
  <2>1. /\ Len(l \o r) = Len(l) + Len(r) /\ l \o r \in Seq(S)
        /\ \A i \in 1 .. (Len(l) + Len(r)) :
              (l \o r)[i] = IF i <= Len(l) THEN l[i] ELSE r[i - Len(l)]
    BY <1>2, <1>3, ConcatProperties
  <2>2. DOMAIN (l \o r) = 1 .. (Len(s) - 1)
    BY <1>1, <1>2, <1>3, <2>1, LenProperties
  <2>3. RemoveAt(s, k) = l \o r
    BY DEF RemoveAt, l, r
  <2>4. Len(l) \in Nat /\ Len(r) \in Nat
    BY <1>1, <1>2, <1>3
  <2>5. \A i \in 1 .. Len(l) : (l \o r)[i] = l[i]
    BY <2>1, <2>4
  <2>6. \A i \in (Len(l) + 1) .. (Len(l) + Len(r)) : (l \o r)[i] = r[i - Len(l)]
    BY <2>1, <2>4
  <2> QED BY <2>2, <2>3, <2>5, <2>6
<1> HIDE DEF l, r
<1>5. ASSUME NEW i \in 1 .. (Len(s) - 1)
      PROVE  (l \o r)[i] = IF i < k THEN s[i] ELSE s[i + 1]
  <2>1. CASE i < k
    BY <1>1, <1>2, <1>3, <1>4, <2>1
  <2>2. CASE ~(i < k)
    <3>1. /\ i \in (Len(l) + 1) .. (Len(l) + Len(r))
          /\ i - Len(l) \in 1 .. (Len(s) - k) /\ k + (i - Len(l)) = i + 1
      BY <1>1, <1>2, <1>3, <2>2
    <3> QED BY <1>3, <1>4, <2>2, <3>1
  <2> QED BY <2>1, <2>2
<1> QED BY <1>4, <1>5

LEMMA RemoveAtOnce ==
    ASSUME NEW S, NEW s \in Seq(S), NEW k \in DOMAIN s, Once(s)
    PROVE  /\ Elems(RemoveAt(s, k)) = Elems(s) \ {s[k]}
           /\ Once(RemoveAt(s, k))
<1> DEFINE a == RemoveAt(s, k)
<1>1. /\ Len(s) \in Nat /\ DOMAIN s = 1 .. Len(s) /\ k \in 1 .. Len(s)
      /\ DOMAIN a = 1 .. (Len(s) - 1)
      /\ \A i \in 1 .. (Len(s) - 1) : a[i] = IF i < k THEN s[i] ELSE s[i + 1]
  BY LenProperties, RemoveAtItems
<1> HIDE DEF a
<1>2. \A i \in DOMAIN a : \E j \in DOMAIN s : j # k /\ a[i] = s[j]
  <2> SUFFICES ASSUME NEW i \in DOMAIN a
               PROVE  \E j \in DOMAIN s : j # k /\ a[i] = s[j]
    OBVIOUS
  <2>1. CASE i < k
    <3>1. i \in DOMAIN s /\ i # k /\ a[i] = s[i]
      BY <1>1, <2>1
    <3> QED BY <3>1
  <2>2. CASE ~(i < k)
    <3>1. i + 1 \in DOMAIN s /\ i + 1 # k /\ a[i] = s[i + 1]
      BY <1>1, <2>2
    <3> QED BY <3>1
  <2> QED BY <2>1, <2>2
<1>3. \A j \in DOMAIN s \ {k} : \E i \in DOMAIN a : a[i] = s[j]
  <2> SUFFICES ASSUME NEW j \in DOMAIN s \ {k}
               PROVE  \E i \in DOMAIN a : a[i] = s[j]
    OBVIOUS
  <2>1. CASE j < k
    <3>1. j \in DOMAIN a /\ a[j] = s[j]
      BY <1>1, <2>1
    <3> QED BY <3>1
  <2>2. CASE ~(j < k)
    <3>1. j - 1 \in DOMAIN a /\ ~(j - 1 < k) /\ (j - 1) + 1 = j
      BY <1>1, <2>2
    <3>2. a[j - 1] = s[j]
      BY <1>1, <3>1
    <3> QED BY <3>1, <3>2
  <2> QED BY <2>1, <2>2
<1>4. Elems(a) = Elems(s) \ {s[k]}
  BY <1>2, <1>3 DEF Elems, Once
<1>5. ASSUME NEW i \in DOMAIN a, NEW j \in DOMAIN a, a[i] = a[j] PROVE i = j
  <2>1. \A x \in 1 .. (Len(s) - 1) : x \in DOMAIN s /\ x + 1 \in DOMAIN s
    BY <1>1
  <2>2. i \in 1 .. (Len(s) - 1) /\ j \in 1 .. (Len(s) - 1)
    BY <1>1
  <2>3. (IF i < k THEN i ELSE i + 1) = (IF j < k THEN j ELSE j + 1)
    BY <1>1, <1>5, <2>1, <2>2 DEF Once
  <2> QED BY <1>1, <2>2, <2>3
<1> QED BY <1>4, <1>5 DEF a, Once

-----------------------------------------------------------------------------
(* The task vector.                                                        *)

LEMMA TasksForm ==
    NoTaskLost <=>
        /\ Once(tasks) /\ current \notin Elems(tasks)
        /\ parked \ {Main} = Elems(tasks)
        /\ \A t \in Workers : Live(t) <=> (t = current \/ t \in Elems(tasks))
BY DEF NoTaskLost, Once, Elems

\* A step that does not schedule, nor starts or ends a thread.
LEMMA TasksKept ==
    ASSUME NoTaskLost, UNCHANGED <<current, tasks>>,
           parked' \ {Main} = parked \ {Main},
           \A u \in Workers : Live(u)' <=> Live(u)
    PROVE  NoTaskLost'
BY TasksForm DEF NoTaskLost

\* The running thread suspends.
LEMMA TasksSuspended ==
    ASSUME TypeOK, NoTaskLost, NEW t \in Threads, t = current, t \notin parked,
           Live(t), Live(t)', Suspend(t),
           \A u \in Workers \ {t} : Live(u)' <=> Live(u)
    PROVE  NoTaskLost'
<1> USE Constants, ThreadAssumption
<1>0. /\ Once(tasks) /\ current \notin Elems(tasks)
      /\ parked \ {Main} = Elems(tasks)
      /\ \A u \in Workers : Live(u) <=> (u = current \/ u \in Elems(tasks))
  BY TasksForm
<1>1. CASE t = Main
  <2>1. UNCHANGED <<current, tasks>> /\ parked' \ {Main} = parked \ {Main}
    BY <1>1 DEF Suspend
  <2> QED BY <1>1, <2>1, TasksKept
<1>2. CASE t # Main
  <2>1. t \in Workers
    BY <1>2 DEF Threads
  <2>2. Elems(tasks') = Elems(tasks) \cup {t} /\ Once(tasks')
    BY <1>0, <1>2, <2>1, AppendOnce DEF TypeOK, Suspend
  <2>3. current' = Main /\ parked' = parked \cup {t}
    BY DEF Suspend
  <2>4. Main \notin Elems(tasks)
    BY <1>0
  <2>5. \A u \in Workers : Live(u)' <=> (u = current' \/ u \in Elems(tasks'))
    BY <1>0, <1>2, <2>2, <2>3
  <2>6. parked' \ {Main} = Elems(tasks') /\ current' \notin Elems(tasks')
    BY <1>0, <1>2, <2>1, <2>2, <2>3, <2>4
  <2> QED BY <2>2, <2>5, <2>6 DEF NoTaskLost, Once, Elems
<1> QED BY <1>1, <1>2

\* The running worker ends.
LEMMA TasksDied ==
    ASSUME TypeOK, NoTaskLost, NEW t \in Workers, t = current, t \notin parked,
           Die(t), parked' \ {Main} = parked \ {Main}
    PROVE  NoTaskLost'
<1> USE Constants, ThreadAssumption
<1>1. /\ \A u \in Workers \ {t} : Live(u)' <=> Live(u)
      /\ ~Live(t)'
  BY DEF Live, Die, TypeOK
<1>2. current' = Main /\ tasks' = tasks
  BY DEF Die
<1>3. Main \notin Elems(tasks) /\ t \notin Elems(tasks)
  BY TasksForm
<1> QED BY <1>1, <1>2, <1>3 DEF NoTaskLost, Elems

\* The running thread's primitive ends.
LEMMA TasksReturned ==
    ASSUME TypeOK, NoTaskLost, NEW t \in Threads, Live(t), NEW f,
           Return(t, f), UNCHANGED sched
    PROVE  NoTaskLost'
<1>1. \A u \in Workers : Live(u)' <=> Live(u)
  BY Constants DEF Live, Return, TypeOK
<1> QED BY <1>1, TasksKept DEF sched

\* The running thread suspends inside a primitive.
LEMMA TasksBlocked ==
    ASSUME TypeOK, NoTaskLost, NEW t \in Threads, t = current, t \notin parked,
           Live(t), NEW p \in PCs \ {"unborn", "finished", "exited"},
           pc' = [pc EXCEPT ![t] = p], Suspend(t)
    PROVE  NoTaskLost'
<1>1. Live(t)' /\ \A u \in Workers \ {t} : Live(u)' <=> Live(u)
  BY Constants DEF Live, TypeOK
<1> QED BY <1>1, TasksSuspended

LEMMA MakeThreadTasks ==
    ASSUME TypeOK, NoTaskLost, NEW t \in Threads, NEW u \in Workers, MakeThread(t, u)
    PROVE  NoTaskLost'
<1> USE Constants, ThreadAssumption DEF MakeThread
<1>1. /\ Once(tasks) /\ current \notin Elems(tasks)
      /\ parked \ {Main} = Elems(tasks)
      /\ \A x \in Workers : Live(x) <=> (x = current \/ x \in Elems(tasks))
  BY TasksForm
<1>2. pc[u] = "unborn" /\ pc[t] = "run" /\ t = current /\ ~Live(u)
  BY DEF InLisp, Live
<1>3. Live(u)' /\ \A x \in Workers \ {u} : Live(x)' <=> Live(x)
  BY DEF Live, TypeOK
<1>4. Elems(tasks') = Elems(tasks) \cup {u} /\ Once(tasks')
  BY <1>1, <1>2, AppendOnce DEF TypeOK
<1>5. u # Main /\ u # current /\ current' = current
  BY <1>2
<1>6. \A x \in Workers : Live(x)' <=> (x = current' \/ x \in Elems(tasks'))
  BY <1>1, <1>3, <1>4, <1>5
<1>7. parked' \ {Main} = Elems(tasks') /\ current' \notin Elems(tasks')
  BY <1>1, <1>4, <1>5
<1> QED BY <1>4, <1>6, <1>7 DEF NoTaskLost, Once, Elems

LEMMA LispCallTasks ==
    ASSUME TypeOK, NoTaskLost, NEW t \in Threads, LispCall(t)
    PROVE  NoTaskLost'
<1> USE Constants DEF Live, PCs, OneTurn, Polling, Relocking
<1>1. CASE \E u \in Workers : MakeThread(t, u)
  BY <1>1, MakeThreadTasks
<1>2. CASE ThreadYield(t) \/ SleepWorker(t)
  BY <1>2, TasksBlocked DEF ThreadYield, SleepWorker, InLisp
<1>3. ASSUME NEW u \in Threads, ThreadJoin(t, u) PROVE NoTaskLost'
  BY <1>3, TasksBlocked, TasksReturned DEF ThreadJoin, InLisp, Block
<1>4. ASSUME NEW m \in Mutexes, MutexLock(t, m) PROVE NoTaskLost'
  BY <1>4, TasksBlocked, TasksReturned DEF MutexLock, LockLoop, InLisp, Block
<1>5. ASSUME NEW m \in Mutexes, MutexUnlock(t, m) PROVE NoTaskLost'
  BY <1>5, TasksKept DEF MutexUnlock, sched, frame
<1>6. ASSUME NEW c \in CondVars, ConditionWait(t, c) PROVE NoTaskLost'
  BY <1>6, TasksBlocked DEF ConditionWait, InLisp, Block
<1>7. ASSUME NEW c \in CondVars, NEW all \in BOOLEAN, ConditionNotify(t, c, all)
      PROVE  NoTaskLost'
  BY <1>7, TasksBlocked DEF ConditionNotify, InLisp
<1>8. ASSUME NEW u \in Threads, NEW s \in Signals \cup {NilSignal}, ThreadSignal(t, u, s)
      PROVE  NoTaskLost'
  <2>1. CASE Return(t, IF s = NilSignal THEN "error" ELSE s)
    BY <1>8, <2>1, TasksReturned DEF ThreadSignal, InLisp
  <2>2. CASE UNCHANGED frame
    BY <1>8, <2>2, TasksKept DEF ThreadSignal, sched, frame
  <2> QED BY <1>8, <2>1, <2>2 DEF ThreadSignal
<1>9. CASE LispError(t) \/ Catch(t)
  BY <1>9, TasksReturned DEF LispError, Catch, InLisp, Resumed
<1>10. CASE Finish(t) \/ ExitPacket(t)
  BY <1>10, TasksDied DEF Finish, ExitPacket, InLisp, Resumed, Threads
<1> QED BY <1>1, <1>2, <1>3, <1>4, <1>5, <1>6, <1>7, <1>8, <1>9, <1>10 DEF LispCall

LEMMA ResumptionTasks ==
    ASSUME TypeOK, NoTaskLost, NEW t \in Threads, Resumption(t)
    PROVE  NoTaskLost'
<1> USE Constants DEF Live, PCs, OneTurn, Polling, Relocking, Resumed
<1>1. CASE Started(t)
  <2>1. CASE t = Main /\ Die(t) /\ UNCHANGED <<parked, pump>>
    <3>1. \A u \in Workers : Live(u)' <=> Live(u)
      BY <2>1, ThreadAssumption DEF Die, TypeOK
    <3> QED BY <1>1, <2>1, <3>1, TasksKept DEF Die, Started
  <2>2. CASE t # Main
    BY <1>1, <2>2, TasksDied, TasksReturned DEF Started, Threads
  <2>3. CASE Return(t, None) /\ UNCHANGED sched
    BY <1>1, <2>3, TasksReturned DEF Started
  <2> QED BY <1>1, <2>1, <2>2, <2>3 DEF Started
<1>2. CASE TurnOver(t) \/ JoinOver(t)
  BY <1>2, TasksReturned DEF TurnOver, JoinOver
<1>3. CASE LockRetry(t)
  BY <1>3, TasksBlocked, TasksReturned DEF LockRetry, LockLoop, Block
<1>4. CASE ConditionWoken(t) \/ NotifyTurnOver(t)
  BY <1>4, TasksBlocked, TasksReturned DEF ConditionWoken, NotifyTurnOver, TryRelock, Block
<1>5. CASE RelockRetry(t)
  BY <1>5, TasksBlocked, TasksReturned DEF RelockRetry, TryRelock, Block
<1> QED BY <1>1, <1>2, <1>3, <1>4, <1>5 DEF Resumption

LEMMA RunOneTasks ==
    ASSUME TypeOK, NoTaskLost, NEW i, RunOne(i)
    PROVE  NoTaskLost'
<1> USE Constants, ThreadAssumption DEF RunOne
<1>1. /\ Once(tasks) /\ current \notin Elems(tasks)
      /\ parked \ {Main} = Elems(tasks)
      /\ \A u \in Workers : Live(u) <=> (u = current \/ u \in Elems(tasks))
  BY TasksForm
<1>2. i \in DOMAIN tasks /\ current = Main /\ tasks[i] \in Workers
  BY LenProperties, ElementOfSeq DEF FirstEligible, Polls, TypeOK
<1>3. Elems(tasks') = Elems(tasks) \ {tasks[i]} /\ Once(tasks')
  BY <1>1, <1>2, RemoveAtOnce DEF TypeOK
<1>4. tasks[i] \in Elems(tasks) /\ tasks[i] # Main
  BY <1>2 DEF Elems
<1>5. \A u \in Workers : Live(u)' <=> Live(u)
  BY DEF Live
<1>6. \A u \in Workers : Live(u)' <=> (u = current' \/ u \in Elems(tasks'))
  BY <1>1, <1>2, <1>3, <1>4, <1>5
<1>7. parked' \ {Main} = Elems(tasks') /\ current' \notin Elems(tasks')
  BY <1>1, <1>2, <1>3, <1>4
<1> QED BY <1>3, <1>6, <1>7 DEF NoTaskLost, Once, Elems

LEMMA NextTasks == TypeOK /\ NoTaskLost /\ [Next]_vars => NoTaskLost'
<1> SUFFICES ASSUME TypeOK, NoTaskLost, [Next]_vars PROVE NoTaskLost'
  OBVIOUS
<1>1. CASE \E i \in 1 .. Cardinality(Workers) : RunOne(i)
  BY <1>1, RunOneTasks
<1>2. CASE IdleTurn \/ PumpEvents \/ WakeMain
  BY <1>2, TasksKept DEF IdleTurn, PumpEvents, WakeMain, frame, Live
<1>3. CASE CommandLoop
  BY <1>3, Constants, TasksBlocked DEF CommandLoop, InLisp, Live, PCs
<1>4. CASE MainExit
  <2>1. \A u \in Workers : Live(u)' <=> Live(u)
    BY <1>4, ThreadAssumption, Constants DEF MainExit, Live, TypeOK
  <2> QED BY <1>4, <2>1, TasksKept DEF MainExit, sched
<1>5. CASE \E t \in Workers : DeadlinePasses(t)
  BY <1>5, TasksKept DEF DeadlinePasses, sched, frame, Live
<1>6. CASE UNCHANGED vars
  BY <1>6, TasksKept DEF vars, sched, frame, Live
<1> QED BY <1>1, <1>2, <1>3, <1>4, <1>5, <1>6, LispCallTasks, ResumptionTasks
        DEF Next, Running, Scheduling

-----------------------------------------------------------------------------
(* Waiter lists, blockers and the ends of waits.                           *)

\* The waiter list of c and the threads inside its wait.
WaitersOf(c) == {t \in Threads : pc[t] = "cwait" /\ obj[t] = c}

LEMMA WaitersForm ==
    WaiterListExact <=>
        /\ \A c \in CondVars : Elems(waiters[c]) = WaitersOf(c) /\ Once(waiters[c])
        /\ \A t \in notified : pc[t] = "cwait"
BY DEF WaiterListExact, Elems, Once, WaitersOf

LEMMA WaitersKept ==
    ASSUME TypeOK, WaiterListExact, UNCHANGED <<waiters, notified>>,
           \A u \in Threads : /\ pc'[u] = "cwait" <=> pc[u] = "cwait"
                              /\ pc[u] = "cwait" => obj'[u] = obj[u]
    PROVE  WaiterListExact'
BY DEF WaiterListExact, TypeOK

\* What the threads other than t wait for is not touched by a step of t.
LEMMA OwnStep ==
    ASSUME TypeOK, Waits, WaiterListExact', NEW t \in Threads,
           t \notin parked, pc[t] # "finished",
           parked' = parked \/ parked' = parked \cup {t},
           \A u \in Threads \ {t} :
              /\ pc'[u] = pc[u] /\ obj'[u] = obj[u] /\ flow'[u] = flow[u]
              /\ saved'[u] = saved[u] /\ blocker'[u] = blocker[u]
              /\ u \in notified => u \in notified',
           blocker'[t] = IF t \notin parked' \/ pc'[t] \notin Polling THEN None
                         ELSE IF pc'[t] \in Relocking THEN MutexOf[obj'[t]]
                         ELSE obj'[t],
           pc'[t] \in {"join", "cwait"} => t \in parked',
           pc'[t] = "join" => obj'[t] \in Threads,
           pc'[t] \notin Apart => saved'[t] = 0
    PROVE  Waits'
<1>1. BlockerTruth'
  <2> SUFFICES ASSUME NEW u \in Threads, pc'[u] # "exited"
               PROVE  blocker'[u] = IF u \notin parked' \/ pc'[u] \notin Polling THEN None
                                    ELSE IF pc'[u] \in Relocking THEN MutexOf[obj'[u]]
                                    ELSE obj'[u]
    BY DEF BlockerTruth
  <2>1. CASE u = t
    BY <2>1
  <2>2. CASE u # t
    BY <2>2 DEF Waits, BlockerTruth
  <2> QED BY <2>1, <2>2
<1>2. Woken'
  <2> SUFFICES ASSUME NEW u \in Threads
               PROVE  /\ pc'[u] = "join" => obj'[u] \in Threads
                      /\ u \notin parked' /\ flow'[u] = None =>
                            /\ pc'[u] = "join" => pc'[obj'[u]] = "finished"
                            /\ pc'[u] = "cwait" => u \in notified'
    BY DEF Woken
  <2>1. CASE u = t
    BY <2>1
  <2>2. CASE u # t
    <3>1. /\ pc'[u] = pc[u] /\ obj'[u] = obj[u] /\ flow'[u] = flow[u]
          /\ u \in parked' <=> u \in parked
          /\ u \in notified => u \in notified'
      BY <2>2
    <3>2. \A x \in Threads : pc[x] = "finished" => pc'[x] = "finished"
      OBVIOUS
    <3> QED BY <3>1, <3>2 DEF Waits, Woken
  <2> QED BY <2>1, <2>2
<1>3. PutAside'
  BY DEF Waits, PutAside
<1> QED BY <1>1, <1>2, <1>3 DEF Waits

\* The running thread's primitive ends.
LEMMA WaitsReturned ==
    ASSUME TypeOK, Waits, WaiterListExact', NEW t \in Threads,
           t \notin parked, pc[t] \notin {"finished", "exited"}, NEW f, Return(t, f),
           \A u \in notified : u # t => u \in notified',
           UNCHANGED <<sched, blocker>>
    PROVE  Waits'
<1>1. /\ pc'[t] \in {"run", "raise"} /\ saved'[t] = 0
      /\ \A u \in Threads \ {t} :
           /\ pc'[u] = pc[u] /\ obj'[u] = obj[u] /\ flow'[u] = flow[u]
           /\ saved'[u] = saved[u] /\ blocker'[u] = blocker[u]
  BY DEF TypeOK, Return
<1>2. blocker'[t] = None
  BY DEF Waits, BlockerTruth
<1>3. parked' = parked /\ pc'[t] \notin Polling
  BY <1>1 DEF sched, Polling, Relocking
<1> QED BY <1>1, <1>2, <1>3, OwnStep

\* ... or it suspends in p, about the object it then names as its blocker.
LEMMA WaitsBlocked ==
    ASSUME TypeOK, Waits, WaiterListExact', NEW t \in Threads,
           t \notin parked, pc[t] # "finished", NEW p \in Polling, NEW b, Block(t, p, b),
           \A u \in notified : u # t => u \in notified',
           \A u \in Threads \ {t} : /\ obj'[u] = obj[u] /\ flow'[u] = flow[u]
                                    /\ saved'[u] = saved[u],
           b = IF p \in Relocking THEN MutexOf[obj'[t]] ELSE obj'[t],
           p = "join" => obj'[t] \in Threads,
           p \notin Apart => saved'[t] = 0
    PROVE  Waits'
<1>1. /\ pc'[t] = p /\ blocker'[t] = b /\ parked' = parked \cup {t}
      /\ \A u \in Threads \ {t} : pc'[u] = pc[u] /\ blocker'[u] = blocker[u]
  BY DEF Block, Suspend, TypeOK
<1> QED BY <1>1, OwnStep

\* A step of t that ends or begins no condition wait leaves the lists exact.
LEMMA WaitersKeptBy ==
    ASSUME TypeOK, WaiterListExact, NEW t \in Threads, pc[t] # "cwait", pc'[t] # "cwait",
           UNCHANGED <<waiters, notified>>,
           \A u \in Threads \ {t} : pc'[u] = pc[u] /\ obj'[u] = obj[u]
    PROVE  WaiterListExact'
BY WaitersKept

LEMMA ReturnElsewhere ==
    ASSUME TypeOK, NEW t \in Threads, NEW f, Return(t, f)
    PROVE  /\ pc'[t] \in {"run", "raise"} /\ (pc'[t] = "run" => f = None)
           /\ flow'[t] = f /\ owed'[t] = None /\ saved'[t] = 0
           /\ \A u \in Threads \ {t} : /\ pc'[u] = pc[u] /\ obj'[u] = obj[u]
                                       /\ flow'[u] = flow[u] /\ saved'[u] = saved[u]
BY DEF Return, TypeOK

\* One round of mutex-lock.
LEMMA LockLoopWaits ==
    ASSUME TypeOK, Waits, NEW t \in Threads, t \notin parked, pc[t] \in {"run", "lock"},
           NEW m \in Mutexes, LockLoop(t, m), UNCHANGED <<waiters, notified>>
    PROVE  Waits'
<1>0. WaiterListExact
  BY DEF Waits
<1>1. CASE Return(t, None) /\ UNCHANGED <<sched, blocker>>
  <2>1. WaiterListExact'
    BY <1>0, <1>1, ReturnElsewhere, WaitersKeptBy
  <2> QED BY <1>1, <2>1, WaitsReturned
<1>2. CASE /\ Block(t, "lock", m) /\ obj' = [obj EXCEPT ![t] = m]
           /\ UNCHANGED <<flow, owed, saved, owner, count, depth>>
  <2>1. /\ \A u \in Threads \ {t} : pc'[u] = pc[u] /\ obj'[u] = obj[u]
        /\ pc'[t] = "lock" /\ obj'[t] = m
    BY <1>2 DEF Block, TypeOK
  <2>2. WaiterListExact'
    BY <1>0, <2>1, WaitersKeptBy
  <2>3. saved'[t] = 0
    BY <1>2 DEF Waits, PutAside, Apart, Relocking
  <2> QED BY <1>2, <2>1, <2>2, <2>3, WaitsBlocked DEF Polling, Relocking
<1> QED BY <1>1, <1>2 DEF LockLoop

\* condition-wait and condition-notify try to take their mutex back.
LEMMA RelockWaits ==
    ASSUME TypeOK, Waits, WaiterListExact', NEW t \in Threads, t \notin parked,
           pc[t] \in Apart, NEW p \in Relocking, NEW f, TryRelock(t, obj[t], p, f),
           \A u \in notified : u # t => u \in notified'
    PROVE  Waits'
<1>1. pc[t] \notin {"finished", "exited"} /\ p \in Polling /\ p \in Apart /\ p # "join"
  BY DEF Apart, Relocking, Polling
<1>2. CASE Return(t, f) /\ UNCHANGED <<sched, blocker>>
  BY <1>1, <1>2, WaitsReturned
<1>3. CASE /\ Block(t, p, MutexOf[obj[t]]) /\ flow' = [flow EXCEPT ![t] = None]
           /\ UNCHANGED <<obj, saved>>
  <2>1. \A u \in Threads \ {t} : flow'[u] = flow[u]
    BY <1>3 DEF TypeOK
  <2> QED BY <1>1, <1>3, <2>1, WaitsBlocked
<1> QED BY <1>2, <1>3 DEF TryRelock

\* ... and leave every other thread alone.
LEMMA RelockElsewhere ==
    ASSUME TypeOK, NEW t \in Threads, NEW p \in Relocking, NEW f, TryRelock(t, obj[t], p, f)
    PROVE  /\ \A u \in Threads \ {t} : pc'[u] = pc[u] /\ obj'[u] = obj[u]
           /\ pc'[t] \in {"run", "raise", p}
           /\ pc'[t] = p => obj'[t] = obj[t] /\ owed'[t] = f
           /\ pc'[t] # p => flow'[t] = f
           /\ pc'[t] = "run" => /\ f = None
                                /\ owner' = [owner EXCEPT ![MutexOf[obj[t]]] = t]
                                /\ count' = [count EXCEPT ![MutexOf[obj[t]]] = saved[t]]
<1>0. p \notin {"run", "raise"}
  BY DEF Relocking
<1>1. CASE /\ Return(t, f) /\ owner' = [owner EXCEPT ![MutexOf[obj[t]]] = t]
           /\ count' = [count EXCEPT ![MutexOf[obj[t]]] = saved[t]]
  BY <1>0, <1>1, ReturnElsewhere
<1>2. CASE /\ Block(t, p, MutexOf[obj[t]]) /\ obj' = obj
           /\ owed' = [owed EXCEPT ![t] = f]
  BY <1>0, <1>2 DEF Block, TypeOK
<1> QED BY <1>1, <1>2 DEF TryRelock

LEMMA MakeThreadWaits ==
    ASSUME TypeOK, Waits, NEW t \in Threads, NEW u \in Workers, MakeThread(t, u)
    PROVE  Waits'
<1> USE Constants DEF MakeThread, monitor
<1>1. /\ pc[u] = "unborn" /\ pc'[u] = "start" /\ parked' = parked \cup {u}
      /\ \A x \in Threads \ {u} : pc'[x] = pc[x]
      /\ UNCHANGED <<obj, flow, saved, blocker, waiters, notified>>
  BY DEF TypeOK
<1>2. WaiterListExact'
  BY <1>1, WaitersKeptBy DEF Waits
<1>3. BlockerTruth'
  <2>1. "start" \notin Polling /\ "unborn" \notin Polling
    BY DEF Polling, Relocking
  <2> QED BY <1>1, <2>1 DEF Waits, BlockerTruth
<1>4. Woken'
  <2> SUFFICES ASSUME NEW x \in Threads
               PROVE  /\ pc'[x] = "join" => obj'[x] \in Threads
                      /\ x \notin parked' /\ flow'[x] = None =>
                            /\ pc'[x] = "join" => pc'[obj'[x]] = "finished"
                            /\ pc'[x] = "cwait" => x \in notified'
    BY DEF Woken
  <2>1. CASE x = u
    BY <1>1, <2>1
  <2>2. CASE x # u
    BY <1>1, <2>2 DEF Waits, Woken
  <2> QED BY <2>1, <2>2
<1>5. PutAside'
  BY <1>1 DEF Waits, PutAside, Apart, Relocking
<1> QED BY <1>2, <1>3, <1>4, <1>5 DEF Waits

\* yield, the command loop and sleep.
LEMMA PauseWaits ==
    ASSUME TypeOK, Waits, NEW t \in Threads, NEW p \in {"yield", "loop", "sleep"},
           InLisp(t), pc' = [pc EXCEPT ![t] = p], Suspend(t),
           UNCHANGED <<obj, flow, saved, blocker, waiters, notified>>
    PROVE  Waits'
<1>1. /\ pc[t] = "run" /\ pc'[t] = p /\ t \notin parked /\ parked' = parked \cup {t}
      /\ \A u \in Threads \ {t} : pc'[u] = pc[u]
  BY DEF InLisp, Suspend, TypeOK
<1>2. WaiterListExact'
  BY <1>1, WaitersKeptBy DEF Waits
<1>3. blocker'[t] = None /\ p \notin Polling /\ saved'[t] = 0
  BY <1>1 DEF Waits, BlockerTruth, PutAside, Polling, Apart, Relocking
<1> QED BY <1>1, <1>2, <1>3, OwnStep

LEMMA ThreadJoinWaits ==
    ASSUME TypeOK, Waits, NEW t \in Threads, NEW u \in Threads, ThreadJoin(t, u)
    PROVE  Waits'
<1> USE DEF ThreadJoin, InLisp, monitor
<1> DEFINE captured == IF Signaled(u) THEN pendingSignal[u] ELSE None
<1>1. CASE Return(t, captured) /\ UNCHANGED <<sched, blocker>>
  <2>1. WaiterListExact'
    BY <1>1, ReturnElsewhere, WaitersKeptBy DEF Waits
  <2> QED BY <1>1, <2>1, WaitsReturned
<1>2. CASE Block(t, "join", u) /\ obj' = [obj EXCEPT ![t] = u] /\ UNCHANGED <<flow, saved>>
  <2>1. /\ \A x \in Threads \ {t} : pc'[x] = pc[x] /\ obj'[x] = obj[x]
        /\ pc'[t] = "join" /\ obj'[t] = u
    BY <1>2 DEF Block, TypeOK
  <2>2. WaiterListExact'
    BY <2>1, WaitersKeptBy DEF Waits
  <2>3. saved'[t] = 0
    BY <1>2 DEF Waits, PutAside, Apart, Relocking
  <2> QED BY <1>2, <2>1, <2>2, <2>3, WaitsBlocked DEF Polling, Relocking
<1> QED BY <1>1, <1>2

LEMMA ConditionWaitWaits ==
    ASSUME TypeOK, Waits, NEW t \in Threads, NEW c \in CondVars, ConditionWait(t, c)
    PROVE  Waits'
<1> USE DEF ConditionWait, InLisp
<1>1. /\ pc[t] = "run" /\ pc'[t] = "cwait" /\ obj'[t] = c /\ t \notin parked
      /\ \A u \in Threads \ {t} : pc'[u] = pc[u] /\ obj'[u] = obj[u]
      /\ \A u \in Threads \ {t} : saved'[u] = saved[u]
      /\ flow' = flow /\ notified' = notified
  BY DEF Block, ReleaseAll, TypeOK
<1>2. WaiterListExact'
  <2>1. ASSUME NEW d \in CondVars
        PROVE  Elems(waiters'[d]) = WaitersOf(d)' /\ Once(waiters'[d])
    <3>1. /\ Elems(waiters[d]) = WaitersOf(d) /\ Once(waiters[d])
          /\ waiters[d] \in Seq(Threads)
      BY WaitersForm DEF Waits, TypeOK
    <3>2. t \notin WaitersOf(d)
      BY <1>1 DEF WaitersOf
    <3>3. CASE d = c
      <4>1. waiters'[d] = Append(waiters[d], t)
        BY <3>3 DEF TypeOK
      <4>2. WaitersOf(d)' = WaitersOf(d) \cup {t}
        BY <1>1, <3>3 DEF WaitersOf
      <4> QED BY <3>1, <3>2, <4>1, <4>2, AppendOnce
    <3>4. CASE d # c
      <4>1. waiters'[d] = waiters[d]
        BY <3>4 DEF TypeOK
      <4>2. WaitersOf(d)' = WaitersOf(d)
        BY <1>1, <3>4 DEF WaitersOf
      <4> QED BY <3>1, <4>1, <4>2
    <3> QED BY <3>3, <3>4
  <2>2. \A u \in notified' : pc'[u] = "cwait"
    BY <1>1 DEF Waits, WaiterListExact, TypeOK
  <2> QED BY <2>1, <2>2 DEF WaiterListExact, Elems, Once, WaitersOf
<1> QED BY <1>1, <1>2, WaitsBlocked DEF Polling, Relocking, Apart

LEMMA ConditionNotifyWaits ==
    ASSUME TypeOK, Waits, NEW t \in Threads, NEW c \in CondVars, NEW all \in BOOLEAN,
           ConditionNotify(t, c, all)
    PROVE  Waits'
<1> USE DEF ConditionNotify, InLisp
<1>1. /\ pc[t] = "run" /\ pc'[t] = "notify" /\ obj'[t] = c /\ t \notin parked
      /\ \A u \in Threads \ {t} : pc'[u] = pc[u] /\ obj'[u] = obj[u]
      /\ \A u \in Threads \ {t} : saved'[u] = saved[u]
      /\ flow' = flow /\ waiters' = waiters /\ blocker' = blocker
      /\ parked' = parked \cup {t}
  BY DEF Suspend, ReleaseAll, TypeOK
<1>2. Cells(c, all) \subseteq WaitersOf(c)
  <2>1. Elems(waiters[c]) = WaitersOf(c)
    BY WaitersForm DEF Waits
  <2> QED BY <2>1 DEF Cells, Elems
<1>3. WaiterListExact'
  <2>1. ASSUME NEW d \in CondVars
        PROVE  Elems(waiters'[d]) = WaitersOf(d)' /\ Once(waiters'[d])
    <3>1. Elems(waiters[d]) = WaitersOf(d) /\ Once(waiters[d])
      BY WaitersForm DEF Waits
    <3>2. WaitersOf(d)' = WaitersOf(d)
      BY <1>1 DEF WaitersOf
    <3> QED BY <1>1, <3>1, <3>2
  <2>2. \A u \in notified' : pc'[u] = "cwait"
    BY <1>1, <1>2 DEF Waits, WaiterListExact, TypeOK, WaitersOf
  <2> QED BY <2>1, <2>2 DEF WaiterListExact, Elems, Once, WaitersOf
<1>4. blocker'[t] = None /\ pc'[t] \notin Polling /\ pc'[t] \in Apart
  BY <1>1 DEF Waits, BlockerTruth, Polling, Relocking, Apart
<1> QED BY <1>1, <1>3, <1>4, OwnStep

LEMMA ThreadSignalWaits ==
    ASSUME TypeOK, Waits, NEW t \in Threads, NEW u \in Threads, NEW s,
           ThreadSignal(t, u, s)
    PROVE  Waits'
<1> USE DEF ThreadSignal, InLisp, monitor
<1>1. CASE Return(t, IF s = NilSignal THEN "error" ELSE s)
  <2>1. WaiterListExact'
    BY <1>1, ReturnElsewhere, WaitersKeptBy DEF Waits
  <2> QED BY <1>1, <2>1, WaitsReturned
<1>2. CASE UNCHANGED frame
  BY <1>2 DEF Waits, WaiterListExact, BlockerTruth, Woken, PutAside, frame, sched
<1> QED BY <1>1, <1>2

\* The running thread's program raises or catches an error, or the rest of a
\* pause or of thread-join is done.
LEMMA PlainReturnWaits ==
    ASSUME TypeOK, Waits, NEW t \in Threads, t \notin parked,
           pc[t] \notin {"cwait", "finished", "exited"}, NEW f, Return(t, f),
           UNCHANGED <<sched, blocker, monitor>>
    PROVE  Waits'
<1>1. WaiterListExact'
  BY ReturnElsewhere, WaitersKeptBy DEF Waits, monitor
<1> QED BY <1>1, WaitsReturned DEF monitor

LEMMA DieWaits ==
    ASSUME TypeOK, Waits, NEW t \in Threads, t \notin parked,
           pc[t] \in {"run", "raise", "start"}, Die(t), flow' = [flow EXCEPT ![t] = None],
           UNCHANGED <<parked, blocker, monitor>>
    PROVE  Waits'
<1>1. /\ pc'[t] = "finished" /\ saved' = saved /\ obj' = obj
      /\ \A u \in Threads \ {t} : pc'[u] = pc[u] /\ flow'[u] = flow[u]
      /\ pc[t] # "cwait" /\ pc[t] # "finished"
  BY DEF Die, TypeOK
<1>2. WaiterListExact'
  BY <1>1, WaitersKeptBy DEF Waits, monitor
<1>3. blocker'[t] = None /\ saved'[t] = 0
  BY <1>1 DEF Waits, BlockerTruth, PutAside, Apart, Relocking
<1> QED BY <1>1, <1>2, <1>3, OwnStep DEF monitor

\* kill-emacs in a worker: main's wait is over, with the exit as its error.
LEMMA ExitPacketWaits ==
    ASSUME TypeOK, Waits, NEW t \in Threads, ExitPacket(t)
    PROVE  Waits'
<1> USE Constants DEF ExitPacket, InLisp
<1>1. /\ pc[t] = "run" /\ pc'[t] = "finished" /\ UNCHANGED <<saved, obj, waiters, notified>>
      /\ t # Main /\ t \notin parked /\ parked' = parked \ {Main}
      /\ \A u \in Threads \ {t} : pc'[u] = pc[u]
      /\ \A u \in Threads \ {Main} : flow'[u] = flow[u] /\ blocker'[u] = blocker[u]
      /\ flow'[Main] # None /\ blocker'[Main] = None
  BY DEF Die, TypeOK, monitor
<1>2. WaiterListExact'
  BY <1>1, WaitersKeptBy DEF Waits
<1>3. BlockerTruth'
  BY <1>1 DEF Waits, BlockerTruth
<1>4. Woken'
  <2> SUFFICES ASSUME NEW u \in Threads
               PROVE  /\ pc'[u] = "join" => obj'[u] \in Threads
                      /\ u \notin parked' /\ flow'[u] = None =>
                            /\ pc'[u] = "join" => pc'[obj'[u]] = "finished"
                            /\ pc'[u] = "cwait" => u \in notified'
    BY DEF Woken
  <2>1. \A x \in Threads : pc[x] = "finished" => pc'[x] = "finished"
    BY <1>1
  <2>2. pc'[u] = "join" => pc[u] = "join" /\ obj'[u] = obj[u] /\ obj[u] \in Threads
    BY <1>1 DEF Waits, Woken
  <2>3. pc'[u] = "cwait" => pc[u] = "cwait"
    BY <1>1
  <2>4. CASE u = Main
    BY <1>1, <2>2, <2>4
  <2>5. CASE u # Main
    <3>1. flow'[u] = flow[u] /\ (u \in parked' <=> u \in parked)
      BY <1>1, <2>5
    <3> QED BY <1>1, <2>1, <2>2, <2>3, <3>1 DEF Waits, Woken
  <2> QED BY <2>4, <2>5
<1>5. PutAside'
  BY <1>1 DEF Waits, PutAside, Apart, Relocking
<1> QED BY <1>2, <1>3, <1>4, <1>5 DEF Waits

LEMMA ConditionWokenWaits ==
    ASSUME IInv, Waits, NEW t \in Threads, ConditionWoken(t)
    PROVE  Waits'
<1> USE DEF ConditionWoken, Resumed
<1>0. /\ TypeOK /\ t \notin parked /\ pc[t] = "cwait" /\ "rewait" \in Relocking
      /\ pc[t] \in Apart /\ obj[t] \in CondVars
  BY DEF IInv, ObjOK, Apart, Relocking
<1>1. /\ \A u \in Threads \ {t} : pc'[u] = pc[u] /\ obj'[u] = obj[u]
      /\ pc'[t] # "cwait"
  BY <1>0, RelockElsewhere
<1>2. PICK i \in DOMAIN waiters[obj[t]] :
         /\ waiters[obj[t]][i] = t
         /\ waiters' = [waiters EXCEPT ![obj[t]] = RemoveAt(@, i)]
  OBVIOUS
<1>3. WaiterListExact'
  <2>1. ASSUME NEW d \in CondVars
        PROVE  Elems(waiters'[d]) = WaitersOf(d)' /\ Once(waiters'[d])
    <3>1. /\ Elems(waiters[d]) = WaitersOf(d) /\ Once(waiters[d])
          /\ waiters[d] \in Seq(Threads)
      BY <1>0, WaitersForm DEF Waits, TypeOK
    <3>2. CASE d = obj[t]
      <4>1. waiters'[d] = RemoveAt(waiters[d], i)
        BY <1>0, <1>2, <3>2 DEF TypeOK
      <4>2. WaitersOf(d)' = WaitersOf(d) \ {t}
        BY <1>0, <1>1 DEF WaitersOf
      <4> QED BY <1>2, <3>1, <3>2, <4>1, <4>2, RemoveAtOnce
    <3>3. CASE d # obj[t]
      <4>1. waiters'[d] = waiters[d]
        BY <1>0, <1>2, <3>3 DEF TypeOK
      <4>2. WaitersOf(d)' = WaitersOf(d)
        BY <1>0, <1>1, <3>3 DEF WaitersOf
      <4> QED BY <3>1, <4>1, <4>2
    <3> QED BY <3>2, <3>3
  <2>2. \A u \in notified' : pc'[u] = "cwait"
    BY <1>0, <1>1 DEF Waits, WaiterListExact, TypeOK
  <2> QED BY <2>1, <2>2 DEF WaiterListExact, Elems, Once, WaitersOf
<1> QED BY <1>0, <1>3, RelockWaits

LEMMA NotifyTurnOverWaits ==
    ASSUME TypeOK, Waits, NEW t \in Threads, NotifyTurnOver(t)
    PROVE  Waits'
<1> USE DEF NotifyTurnOver, Resumed
<1>1. /\ t \notin parked /\ pc[t] \in Apart /\ pc[t] # "cwait"
      /\ "renotify" \in Relocking /\ "renotify" # "cwait"
  BY DEF Apart, Relocking
<1>2. WaiterListExact'
  BY <1>1, RelockElsewhere, WaitersKeptBy DEF Waits
<1> QED BY <1>1, <1>2, RelockWaits

LEMMA RelockRetryWaits ==
    ASSUME TypeOK, Waits, NEW t \in Threads, RelockRetry(t)
    PROVE  Waits'
<1> USE DEF RelockRetry, Resumed
<1>1. /\ t \notin parked /\ pc[t] \in Relocking /\ pc[t] \in Apart
      /\ pc[t] \notin {"cwait", "finished", "exited"}
  BY DEF Apart, Relocking
<1>2. CASE Return(t, flow[t]) /\ UNCHANGED <<sched, blocker>>
  <2>1. WaiterListExact'
    BY <1>1, <1>2, ReturnElsewhere, WaitersKeptBy DEF Waits
  <2> QED BY <1>1, <1>2, <2>1, WaitsReturned
<1>3. CASE TryRelock(t, obj[t], pc[t], owed[t])
  <2>1. WaiterListExact'
    BY <1>1, <1>3, RelockElsewhere, WaitersKeptBy DEF Waits
  <2> QED BY <1>1, <1>3, <2>1, RelockWaits
<1> QED BY <1>2, <1>3

\* The scheduler unparks threads: with an error, or because what they wait
\* for has come.
LEMMA Unparked ==
    ASSUME TypeOK, Waits, UNCHANGED <<pc, obj, saved, waiters, notified>>,
           \A u \in Threads :
              \/ /\ u \in parked' <=> u \in parked
                 /\ flow'[u] = flow[u] /\ blocker'[u] = blocker[u]
              \/ /\ u \notin parked' /\ blocker'[u] = None
                 /\ flow'[u] = None =>
                       /\ pc[u] = "join" => pc[obj[u]] = "finished"
                       /\ pc[u] = "cwait" => u \in notified
    PROVE  Waits'
<1>1. WaiterListExact' /\ PutAside'
  BY DEF Waits, WaiterListExact, PutAside
<1>2. BlockerTruth'
  BY DEF Waits, BlockerTruth
<1>3. Woken'
  BY DEF Waits, Woken
<1> QED BY <1>1, <1>2, <1>3 DEF Waits

LEMMA WakeCause ==
    ASSUME TypeOK, NEW t \in Threads, Wake(t), Eligible(t)
    PROVE  /\ blocker'[t] = None
           /\ flow'[t] = None => /\ pc[t] = "join" => pc[obj[t]] = "finished"
                                 /\ pc[t] = "cwait" => t \in notified
           /\ \A u \in Threads \ {t} : flow'[u] = flow[u] /\ blocker'[u] = blocker[u]
<1>1. flow'[t] = None => Ready(t)
  BY Constants DEF Wake, Eligible, Signaled, TypeOK
<1> QED BY <1>1 DEF Wake, TypeOK, Ready, Relocking

LEMMA RunOneWaits ==
    ASSUME TypeOK, Waits, NEW i, RunOne(i)
    PROVE  Waits'
<1> USE Constants DEF RunOne, monitor
<1> DEFINE t == tasks[i]
<1>1. t \in Workers /\ t \in Threads /\ Eligible(t)
  BY LenProperties, ElementOfSeq DEF FirstEligible, TypeOK
<1>2. /\ blocker'[t] = None
      /\ flow'[t] = None => /\ pc[t] = "join" => pc[obj[t]] = "finished"
                            /\ pc[t] = "cwait" => t \in notified
      /\ \A u \in Threads \ {t} : flow'[u] = flow[u] /\ blocker'[u] = blocker[u]
  BY <1>1, WakeCause
<1>3. t \notin parked' /\ \A u \in Threads \ {t, Main} : u \in parked' <=> u \in parked
  OBVIOUS
<1>4. CASE pc[Main] \in OneTurn
  <2>1. t # Main
    BY <1>1, ThreadAssumption
  <2>2. Main \notin parked' /\ pc[Main] \notin Polling \cup {"exited", "join", "cwait"}
    BY <1>4 DEF OneTurn, Polling, Relocking
  <2>3. blocker'[Main] = None
    BY <1>2, <2>1, <2>2 DEF Waits, BlockerTruth
  <2> QED BY <1>2, <1>3, <2>2, <2>3, Unparked
<1>5. CASE pc[Main] \notin OneTurn
  <2>1. \A u \in Threads \ {t} : u \in parked' <=> u \in parked
    BY <1>5
  <2> QED BY <1>2, <1>3, <2>1, Unparked
<1> QED BY <1>4, <1>5

LEMMA IdleTurnWaits ==
    ASSUME TypeOK, Waits, IdleTurn
    PROVE  Waits'
<1> USE Constants DEF IdleTurn, frame, monitor
<1>1. pc[Main] \in OneTurn => /\ blocker[Main] = None
                              /\ pc[Main] \notin {"join", "cwait"}
  BY DEF Waits, BlockerTruth, OneTurn, Polling, Relocking
<1> QED BY <1>1, Unparked

LEMMA PumpEventsWaits ==
    ASSUME TypeOK, Waits, PumpEvents
    PROVE  Waits'
<1> USE Constants DEF PumpEvents, monitor
<1>1. CASE /\ parked' = IF pc[Main] = "loop" THEN parked \ {Main} ELSE parked
           /\ UNCHANGED <<flow, blocker>>
  <2>1. pc[Main] = "loop" => blocker[Main] = None /\ pc[Main] \notin {"join", "cwait"}
    BY DEF Waits, BlockerTruth, Polling, Relocking
  <2> QED BY <1>1, <2>1, Unparked
<1>2. CASE /\ parked' = parked \ {Main} /\ flow' = [flow EXCEPT ![Main] = "error"]
           /\ blocker' = [blocker EXCEPT ![Main] = None]
  <2>1. flow'[Main] # None /\ blocker'[Main] = None /\ Main \notin parked'
    BY <1>2 DEF TypeOK
  <2>2. \A u \in Threads \ {Main} : /\ flow'[u] = flow[u] /\ blocker'[u] = blocker[u]
                                    /\ u \in parked' <=> u \in parked
    BY <1>2 DEF TypeOK
  <2> QED BY <2>1, <2>2, Unparked
<1> QED BY <1>1, <1>2

LEMMA WakeMainWaits ==
    ASSUME TypeOK, Waits, WakeMain
    PROVE  Waits'
<1> USE Constants DEF WakeMain, monitor
<1>1. Main \notin parked' /\ \A u \in Threads \ {Main} : u \in parked' <=> u \in parked
  OBVIOUS
<1> QED BY <1>1, WakeCause, Unparked

LEMMA MainExitWaits ==
    ASSUME TypeOK, Waits, MainExit
    PROVE  Waits'
<1> USE Constants DEF MainExit, Resumed, sched, monitor
<1>1. /\ pc[Main] = "raise" /\ pc'[Main] = "exited"
      /\ \A u \in Threads \ {Main} : pc'[u] = pc[u]
  BY DEF TypeOK
<1>2. WaiterListExact'
  BY <1>1, WaitersKeptBy DEF Waits
<1>3. /\ blocker'[Main] = None /\ saved'[Main] = 0
      /\ pc'[Main] \notin Polling \cup Apart \cup {"join", "cwait"}
  BY <1>1 DEF Waits, BlockerTruth, PutAside, Apart, Polling, Relocking
<1> QED BY <1>1, <1>2, <1>3, OwnStep

LEMMA LispCallWaits ==
    ASSUME IInv, Waits, NEW t \in Threads, LispCall(t)
    PROVE  Waits'
<1> USE Constants
<1>0. TypeOK
  BY DEF IInv
<1>1. CASE \E u \in Workers : MakeThread(t, u)
  BY <1>0, <1>1, MakeThreadWaits
<1>2. CASE ThreadYield(t) \/ SleepWorker(t)
  BY <1>0, <1>2, PauseWaits DEF ThreadYield, SleepWorker, monitor
<1>3. CASE \E u \in Threads : ThreadJoin(t, u)
  BY <1>0, <1>3, ThreadJoinWaits
<1>4. CASE \E m \in Mutexes : MutexLock(t, m)
  BY <1>0, <1>4, LockLoopWaits DEF MutexLock, InLisp
<1>5. CASE \E m \in Mutexes : MutexUnlock(t, m)
  BY <1>5 DEF Waits, WaiterListExact, BlockerTruth, Woken, PutAside,
              MutexUnlock, frame, sched
<1>6. CASE \E c \in CondVars : ConditionWait(t, c)
  BY <1>0, <1>6, ConditionWaitWaits
<1>7. CASE \E c \in CondVars, all \in BOOLEAN : ConditionNotify(t, c, all)
  BY <1>0, <1>7, ConditionNotifyWaits
<1>8. CASE \E u \in Threads, s \in Signals \cup {NilSignal} : ThreadSignal(t, u, s)
  BY <1>0, <1>8, ThreadSignalWaits
<1>9. CASE LispError(t) \/ Catch(t)
  BY <1>0, <1>9, PlainReturnWaits DEF LispError, Catch, InLisp, Resumed
<1>10. CASE Finish(t)
  BY <1>0, <1>10, DieWaits DEF Finish, InLisp, Resumed
<1>11. CASE ExitPacket(t)
  BY <1>0, <1>11, ExitPacketWaits
<1> QED BY <1>1, <1>2, <1>3, <1>4, <1>5, <1>6, <1>7, <1>8, <1>9, <1>10, <1>11
        DEF LispCall

LEMMA ResumptionWaits ==
    ASSUME IInv, Waits, NEW t \in Threads, Resumption(t)
    PROVE  Waits'
<1>0. TypeOK
  BY DEF IInv
<1>1. CASE Started(t)
  <2>1. CASE Return(t, None) /\ UNCHANGED sched
    BY <1>0, <1>1, <2>1, PlainReturnWaits DEF Started, Resumed
  <2>2. CASE Die(t) /\ flow' = [flow EXCEPT ![t] = None] /\ UNCHANGED parked
    BY <1>0, <1>1, <2>2, DieWaits DEF Started, Resumed
  <2> QED BY <1>1, <2>1, <2>2 DEF Started
<1>2. CASE TurnOver(t) \/ JoinOver(t)
  BY <1>0, <1>2, PlainReturnWaits DEF TurnOver, JoinOver, Resumed
<1>3. CASE LockRetry(t)
  <2>1. CASE Return(t, flow[t]) /\ UNCHANGED <<sched, owner, count, depth, blocker>>
    BY <1>0, <1>3, <2>1, PlainReturnWaits DEF LockRetry, Resumed, monitor
  <2>2. CASE LockLoop(t, obj[t])
    BY <1>0, <1>3, <2>2, LockLoopWaits DEF LockRetry, Resumed, IInv, ObjOK
  <2> QED BY <1>3, <2>1, <2>2 DEF LockRetry
<1>4. CASE ConditionWoken(t)
  BY <1>4, ConditionWokenWaits
<1>5. CASE NotifyTurnOver(t) \/ RelockRetry(t)
  BY <1>0, <1>5, NotifyTurnOverWaits, RelockRetryWaits
<1> QED BY <1>1, <1>2, <1>3, <1>4, <1>5 DEF Resumption

LEMMA NextWaits == IInv /\ Waits /\ [Next]_vars => Waits'
<1> SUFFICES ASSUME IInv, Waits, [Next]_vars PROVE Waits'
  OBVIOUS
<1>0. TypeOK
  BY DEF IInv
<1>1. CASE Scheduling
  <2>1. CASE CommandLoop
    BY <1>0, <2>1, Constants, PauseWaits DEF CommandLoop, monitor
  <2> QED BY <1>0, <1>1, <2>1, RunOneWaits, IdleTurnWaits, PumpEventsWaits,
             WakeMainWaits, MainExitWaits DEF Scheduling
<1>2. CASE \E t \in Workers : DeadlinePasses(t)
  BY <1>2 DEF Waits, WaiterListExact, BlockerTruth, Woken, PutAside,
              DeadlinePasses, frame, sched, monitor
<1>3. CASE UNCHANGED vars
  BY <1>3 DEF Waits, WaiterListExact, BlockerTruth, Woken, PutAside,
              vars, frame, sched, monitor
<1> QED BY <1>1, <1>2, <1>3, LispCallWaits, ResumptionWaits DEF Next, Running

LEMMA InitWaits == Init => NoTaskLost /\ Waits
<1> SUFFICES ASSUME Init PROVE NoTaskLost /\ Waits
  OBVIOUS
<1> USE Constants, ThreadAssumption DEF Init
<1>1. \A t \in Threads : /\ pc[t] \notin Polling \cup Apart \cup {"join", "cwait"}
                         /\ saved[t] = 0 /\ blocker[t] = None
  BY DEF Polling, Apart, Relocking
<1>2. DOMAIN << >> = {}
  OBVIOUS
<1>3. NoTaskLost
  BY <1>2 DEF NoTaskLost, Live, Threads
<1>4. WaiterListExact
  BY <1>1, <1>2 DEF WaiterListExact
<1>5. BlockerTruth /\ Woken /\ PutAside
  BY <1>1 DEF BlockerTruth, Woken, PutAside
<1> QED BY <1>3, <1>4, <1>5 DEF Waits

\* The inductive invariant of this module.
WInv == IInv /\ NoTaskLost /\ Waits

LEMMA WaitsInvariance == Spec => []WInv
<1>1. Init => WInv
  BY InitIInv, InitWaits DEF WInv
<1>2. WInv /\ [Next]_vars => WInv'
  BY NextIInv, NextTasks, NextWaits DEF WInv, IInv
<1> QED BY <1>1, <1>2, PTL DEF Spec

\* The task vector and the current thread hold every live worker exactly once,
\* whatever is spawned, resumed, signalled or ended.
THEOREM NoTaskIsLost == Spec => []NoTaskLost
<1>1. WInv => NoTaskLost
  BY DEF WInv
<1> QED BY <1>1, WaitsInvariance, PTL

\* The waiter list of a condition variable is the set of threads in its wait.
THEOREM WaiterListsExact == Spec => []WaiterListExact
<1>1. WInv => WaiterListExact
  BY DEF WInv, Waits
<1> QED BY <1>1, WaitsInvariance, PTL

\* thread-blocker is what a suspended thread waits for, and nil otherwise.
THEOREM BlockersTrue == Spec => []BlockerTruth
<1>1. WInv => BlockerTruth
  BY DEF WInv, Waits
<1> QED BY <1>1, WaitsInvariance, PTL

-----------------------------------------------------------------------------
(* Waits end for their cause.                                              *)

\* What WaitsEndForCause says of one thread and one step.
Caused(t) ==
    /\ (pc[t] = "join" /\ pc'[t] = "run") => pc[obj[t]] = "finished"
    /\ (pc[t] = "cwait" /\ pc'[t] # "cwait")
         => t \in notified \/ flow'[t] # None \/ owed'[t] # None
    /\ (pc[t] \in Apart /\ pc'[t] = "run") =>
         /\ owner'[MutexOf[obj[t]]] = t
         /\ count'[MutexOf[obj[t]]] = saved[t]

\* A step of t in which t was in no wait of the three kinds.
LEMMA NoWaitEnds ==
    ASSUME NEW t \in Threads, pc[t] \notin Apart \cup {"join"},
           \A u \in Threads \ {t} : pc'[u] = pc[u]
    PROVE  \A u \in Threads : Caused(u)
BY DEF Caused, Apart, Relocking

\* A thread gets its mutex back, or asks for it again.
LEMMA RelockCaused ==
    ASSUME IInv, Waits, NEW t \in Threads, pc[t] \in Apart,
           NEW p \in Relocking, NEW f, TryRelock(t, obj[t], p, f),
           pc[t] = "cwait" => t \in notified \/ f # None
    PROVE  \A u \in Threads : Caused(u)
<1>1. TypeOK /\ MutexOf[obj[t]] \in Mutexes /\ pc[t] # "join"
  BY Constants DEF IInv, ObjOK, Apart, Relocking
<1>2. /\ \A u \in Threads \ {t} : pc'[u] = pc[u] /\ obj'[u] = obj[u]
      /\ pc'[t] = p => owed'[t] = f
      /\ pc'[t] # p => flow'[t] = f
      /\ pc'[t] = "run" => /\ owner' = [owner EXCEPT ![MutexOf[obj[t]]] = t]
                           /\ count' = [count EXCEPT ![MutexOf[obj[t]]] = saved[t]]
  BY <1>1, RelockElsewhere
<1>3. pc'[t] = "run" => /\ owner'[MutexOf[obj[t]]] = t
                        /\ count'[MutexOf[obj[t]]] = saved[t]
  BY <1>1, <1>2 DEF TypeOK
<1>4. Caused(t)
  BY <1>1, <1>2, <1>3 DEF Caused
<1>5. \A u \in Threads \ {t} : Caused(u)
  BY <1>2 DEF Caused, Apart, Relocking
<1> QED BY <1>4, <1>5

LEMMA ResumptionCaused ==
    ASSUME IInv, Waits, NEW t \in Threads, Resumption(t)
    PROVE  \A u \in Threads : Caused(u)
<1> USE DEF Resumed
<1>0. TypeOK
  BY DEF IInv
<1>1. CASE Started(t) \/ TurnOver(t)
  <2>1. pc[t] \notin Apart \cup {"join"}
    BY <1>1 DEF Started, TurnOver, Apart, Relocking
  <2>2. \A u \in Threads \ {t} : pc'[u] = pc[u]
    BY <1>0, <1>1 DEF Started, TurnOver, Return, Die, TypeOK
  <2> QED BY <2>1, <2>2, NoWaitEnds
<1>2. CASE JoinOver(t)
  <2> DEFINE f == IF flow[t] = None THEN owed[t] ELSE flow[t]
  <2>1. /\ t \notin parked /\ pc[t] = "join" /\ Return(t, f)
        /\ flow[t] = None => pc[obj[t]] = "finished"
    BY <1>2 DEF JoinOver, Waits, Woken
  <2>2. \A u \in Threads \ {t} : Caused(u)
    BY <1>0, <2>1, ReturnElsewhere DEF Caused, Apart, Relocking
  <2>3. pc'[t] = "run" => flow[t] = None
    BY <1>0, <2>1, ReturnElsewhere
  <2>4. Caused(t)
    BY <2>1, <2>3 DEF Caused, Apart, Relocking
  <2> QED BY <2>2, <2>4
<1>3. CASE LockRetry(t)
  <2>1. pc[t] \notin Apart \cup {"join"}
    BY <1>3 DEF LockRetry, Apart, Relocking
  <2>2. \A u \in Threads \ {t} : pc'[u] = pc[u]
    BY <1>0, <1>3 DEF LockRetry, LockLoop, Return, Block, TypeOK
  <2> QED BY <2>1, <2>2, NoWaitEnds
<1>4. CASE ConditionWoken(t)
  <2>1. /\ pc[t] = "cwait" /\ pc[t] \in Apart /\ "rewait" \in Relocking
        /\ TryRelock(t, obj[t], "rewait", flow[t])
        /\ flow[t] = None => t \in notified
    BY <1>4 DEF ConditionWoken, Waits, Woken, Apart, Relocking
  <2> QED BY <2>1, RelockCaused
<1>5. CASE NotifyTurnOver(t)
  <2>1. /\ pc[t] = "notify" /\ pc[t] \in Apart /\ "renotify" \in Relocking
        /\ TryRelock(t, obj[t], "renotify", flow[t])
    BY <1>5 DEF NotifyTurnOver, Apart, Relocking
  <2> QED BY <2>1, RelockCaused
<1>6. CASE RelockRetry(t)
  <2>1. pc[t] \in Relocking /\ pc[t] \in Apart /\ pc[t] \notin {"cwait", "join"}
    BY <1>6 DEF RelockRetry, Apart, Relocking
  <2>2. CASE Return(t, flow[t]) /\ flow[t] # None
    <3>1. \A u \in Threads \ {t} : Caused(u)
      BY <1>0, <2>2, ReturnElsewhere DEF Caused, Apart, Relocking
    <3>2. pc'[t] # "run"
      BY <1>0, <2>2, ReturnElsewhere
    <3> QED BY <2>1, <3>1, <3>2 DEF Caused
  <2>3. CASE TryRelock(t, obj[t], pc[t], owed[t])
    BY <2>1, <2>3, RelockCaused
  <2> QED BY <1>6, <2>2, <2>3 DEF RelockRetry
<1> QED BY <1>1, <1>2, <1>3, <1>4, <1>5, <1>6 DEF Resumption

LEMMA LispCallCaused ==
    ASSUME TypeOK, NEW t \in Threads, LispCall(t)
    PROVE  \A u \in Threads : Caused(u)
<1> USE DEF InLisp, Resumed
<1>0. pc[t] \in {"run", "raise"}
  BY DEF LispCall, MakeThread, ThreadYield, SleepWorker, ThreadJoin, MutexLock,
         MutexUnlock, ConditionWait, ConditionNotify, ThreadSignal, LispError,
         Catch, Finish, ExitPacket
<1>1. ASSUME NEW u \in Workers, MakeThread(t, u) PROVE \A x \in Threads : Caused(x)
  <2>1. pc[u] \notin Apart \cup {"join"} /\ \A x \in Threads \ {u} : pc'[x] = pc[x]
    BY <1>1 DEF MakeThread, TypeOK, Apart, Relocking
  <2> QED BY <2>1, Constants, NoWaitEnds
<1>2. CASE ~\E u \in Workers : MakeThread(t, u)
  <2>1. \A u \in Threads \ {t} : pc'[u] = pc[u]
    <3>1. CASE \/ ThreadYield(t) \/ SleepWorker(t)
               \/ \E u \in Threads : ThreadJoin(t, u)
      BY <3>1 DEF ThreadYield, SleepWorker, ThreadJoin, Return, Block, TypeOK
    <3>2. CASE \E m \in Mutexes : MutexLock(t, m) \/ MutexUnlock(t, m)
      BY <3>2 DEF MutexLock, LockLoop, MutexUnlock, Return, Block, frame, TypeOK
    <3>3. CASE \E c \in CondVars : \/ ConditionWait(t, c)
                                   \/ \E all \in BOOLEAN : ConditionNotify(t, c, all)
      BY <3>3 DEF ConditionWait, ConditionNotify, Block, TypeOK
    <3>4. CASE \/ \E u \in Threads, s \in Signals \cup {NilSignal} : ThreadSignal(t, u, s)
               \/ LispError(t) \/ Catch(t)
      BY <3>4 DEF ThreadSignal, LispError, Catch, Return, frame, TypeOK
    <3>5. CASE Finish(t) \/ ExitPacket(t)
      BY <3>5 DEF Finish, ExitPacket, Die, TypeOK
    <3> QED BY <1>2, <3>1, <3>2, <3>3, <3>4, <3>5 DEF LispCall
  <2>2. pc[t] \notin Apart \cup {"join"}
    BY <1>0 DEF Apart, Relocking
  <2> QED BY <2>1, <2>2, NoWaitEnds
<1> QED BY <1>1, <1>2

LEMMA NextCaused == WInv /\ [Next]_vars => \A t \in Threads : Caused(t)
<1> SUFFICES ASSUME WInv, [Next]_vars PROVE \A t \in Threads : Caused(t)
  OBVIOUS
<1>0. IInv /\ Waits /\ TypeOK
  BY DEF WInv, IInv
<1>1. CASE pc' = pc
  BY <1>1 DEF Caused, Apart, Relocking
<1>2. CASE CommandLoop \/ MainExit
  <2>1. pc[Main] \notin Apart \cup {"join"} /\ \A u \in Threads \ {Main} : pc'[u] = pc[u]
    BY <1>0, <1>2 DEF CommandLoop, MainExit, InLisp, Resumed, TypeOK, Apart, Relocking
  <2> QED BY <2>1, Constants, NoWaitEnds
<1>3. CASE \/ \E i \in 1 .. Cardinality(Workers) : RunOne(i)
           \/ IdleTurn \/ PumpEvents \/ WakeMain
           \/ \E t \in Workers : DeadlinePasses(t)
           \/ UNCHANGED vars
  BY <1>1, <1>3 DEF RunOne, IdleTurn, PumpEvents, WakeMain, DeadlinePasses, vars, frame
<1> QED BY <1>0, <1>2, <1>3, LispCallCaused, ResumptionCaused
        DEF Next, Running, Scheduling

\* thread-join returns only when its target has ended, condition-wait only
\* when its own cell was set or with an error, and both condition primitives
\* only with the mutex at the very level it had before.
THEOREM WaitsEndOnlyForCause == Spec => WaitsEndForCause
<1>1. WInv /\ [Next]_vars => [\A t \in Threads : Caused(t)]_vars
  BY NextCaused
<1>2. WaitsEndForCause <=> [][\A t \in Threads : Caused(t)]_vars
  BY DEF WaitsEndForCause, Caused
<1> QED BY <1>1, <1>2, WaitsInvariance, PTL DEF Spec

-----------------------------------------------------------------------------
(* The primitives implement the abstract monitor.                          *)

\* Every nonempty set of naturals has a least element.
LEMMA LeastNat ==
    ASSUME NEW T \in SUBSET Nat, T # {}
    PROVE  \E x \in T : \A y \in T : x <= y
<1> DEFINE R == {ss \in Nat \X Nat : ss[1] < ss[2]}
<1>1. IsWellFoundedOn(R, Nat)
  BY NatLessThanWellFounded DEF OpToRel
<1>2. PICK x \in T : \A y \in T : ~(<<y, x>> \in R)
  BY <1>1, WFMin
<1>3. ASSUME NEW y \in T, y < x PROVE FALSE
  <2>1. <<y, x>> \in Nat \X Nat
    OBVIOUS
  <2>2. <<y, x>>[1] < <<y, x>>[2]
    BY <1>3
  <2> QED BY <1>2, <2>1, <2>2
<1> QED BY <1>3

\* A step that moves no thread in or out of a condition primitive, and
\* touches no mutex, changes nothing of the monitor.
LEMMA MonQuiet ==
    ASSUME UNCHANGED <<owner, count, saved, notified>>,
           \A u \in Threads : /\ pc'[u] = "cwait" <=> pc[u] = "cwait"
                              /\ pc'[u] \in Apart <=> pc[u] \in Apart
                              /\ pc[u] \in Apart => obj'[u] = obj[u]
    PROVE  UNCHANGED Mon!vars
<1>1. Stage' = Stage
  BY DEF Stage
<1>2. \A u \in Threads : Stage[u] # "out" => pc[u] \in Apart
  BY DEF Stage, Apart, Relocking
<1>3. About' = About
  BY <1>1, <1>2 DEF About
<1> QED BY <1>1, <1>3 DEF Mon!vars

\* The monitor after a step of t.
LEMMA MonMove ==
    ASSUME NEW t \in Threads,
           \A u \in Threads \ {t} : pc'[u] = pc[u] /\ obj'[u] = obj[u]
    PROVE  /\ Stage' = [Stage EXCEPT ![t] = Stage'[t]]
           /\ About' = [About EXCEPT ![t] = About'[t]]
<1>1. /\ Stage \in [Threads -> {"waiting", "entering", "out"}]
      /\ Stage' \in [Threads -> {"waiting", "entering", "out"}]
      /\ \A u \in Threads \ {t} : Stage'[u] = Stage[u]
  BY DEF Stage
<1>2. \A u \in Threads \ {t} : About'[u] = About[u]
  BY <1>1 DEF About
<1>3. Stage' = [Stage EXCEPT ![t] = Stage'[t]]
  BY <1>1
<1>4. About = [u \in Threads |-> About[u]] /\ About' = [u \in Threads |-> About'[u]]
  BY DEF About
<1>5. About' = [About EXCEPT ![t] = About'[t]]
  BY <1>2, <1>4
<1> QED BY <1>3, <1>5

\* The stage of a thread, from where it is in its program, before and after.
LEMMA StageOf ==
    ASSUME NEW t \in Threads
    PROVE  /\ Stage[t] = IF pc[t] = "cwait" THEN "waiting"
                         ELSE IF pc[t] \in Apart THEN "entering" ELSE "out"
           /\ Stage'[t] = IF pc'[t] = "cwait" THEN "waiting"
                          ELSE IF pc'[t] \in Apart THEN "entering" ELSE "out"
           /\ About[t] = IF pc[t] \in Apart THEN obj[t] ELSE None
           /\ About'[t] = IF pc'[t] \in Apart THEN obj'[t] ELSE None
BY DEF Stage, About, Apart, Relocking

\* A running thread outside the condition primitives returns, with no mutex
\* touched.
LEMMA MonReturned ==
    ASSUME TypeOK, Waits, NEW t \in Threads, pc[t] \notin Apart, NEW f, Return(t, f),
           UNCHANGED <<owner, count, notified>>
    PROVE  UNCHANGED Mon!vars
<1>1. saved' = saved
  BY DEF Waits, PutAside, Return, TypeOK
<1>2. \A u \in Threads : /\ pc'[u] = "cwait" <=> pc[u] = "cwait"
                         /\ pc'[u] \in Apart <=> pc[u] \in Apart
                         /\ pc[u] \in Apart => obj'[u] = obj[u]
  BY ReturnElsewhere DEF Apart, Relocking
<1> QED BY <1>1, <1>2, MonQuiet

\* ... or moves on to p, likewise.
LEMMA MonMoved ==
    ASSUME TypeOK, NEW t \in Threads, pc[t] \notin Apart, NEW p, p \notin Apart,
           pc' = [pc EXCEPT ![t] = p],
           \A u \in Threads \ {t} : obj'[u] = obj[u],
           UNCHANGED <<owner, count, saved, notified>>
    PROVE  UNCHANGED Mon!vars
<1>1. \A u \in Threads : /\ pc'[u] = "cwait" <=> pc[u] = "cwait"
                         /\ pc'[u] \in Apart <=> pc[u] \in Apart
                         /\ pc[u] \in Apart => obj'[u] = obj[u]
  BY DEF Apart, TypeOK
<1> QED BY <1>1, MonQuiet

LEMMA LockLoopMon ==
    ASSUME TypeOK, Waits, NEW t \in Threads, pc[t] \in {"run", "lock"},
           NEW m \in Mutexes, LockLoop(t, m), UNCHANGED <<waiters, notified>>
    PROVE  [Mon!Next]_(Mon!vars)
<1>0. pc[t] \notin Apart /\ "lock" \notin Apart
  BY DEF Apart, Relocking
<1>1. CASE Free(t, m) /\ Acquire(t, m) /\ Return(t, None)
  <2>1. saved' = saved
    BY <1>0, <1>1 DEF Waits, PutAside, Return, TypeOK
  <2>2. \A u \in Threads : /\ pc'[u] = "cwait" <=> pc[u] = "cwait"
                           /\ pc'[u] \in Apart <=> pc[u] \in Apart
                           /\ pc[u] \in Apart => obj'[u] = obj[u]
    BY <1>0, <1>1, ReturnElsewhere DEF Apart, Relocking
  <2>3. Stage' = Stage /\ About' = About
    <3>1. Stage' = Stage
      BY <2>2 DEF Stage
    <3>2. \A u \in Threads : Stage[u] # "out" => pc[u] \in Apart
      BY DEF Stage, Apart, Relocking
    <3> QED BY <2>2, <3>1, <3>2 DEF About
  <2>4. Stage[t] = "out"
    BY <1>0, StageOf DEF Apart
  <2>5. Mon!Enter(t, m)
    BY <1>1, <2>1, <2>3, <2>4 DEF Mon!Enter, Free, Acquire
  <2> QED BY <2>5 DEF Mon!Next
<1>2. CASE /\ Block(t, "lock", m) /\ obj' = [obj EXCEPT ![t] = m]
           /\ UNCHANGED <<flow, owed, saved, owner, count, depth>>
  BY <1>0, <1>2, MonMoved DEF Block, TypeOK
<1> QED BY <1>1, <1>2 DEF LockLoop

LEMMA UnlockMon ==
    ASSUME TypeOK, NEW t \in Threads, NEW m \in Mutexes, MutexUnlock(t, m)
    PROVE  [Mon!Next]_(Mon!vars)
<1>1. pc[t] = "run" /\ pc[t] \notin Apart
  BY DEF MutexUnlock, InLisp, Apart, Relocking
<1>2. Stage[t] = "out" /\ Stage' = Stage /\ About' = About
  BY <1>1, StageOf DEF MutexUnlock, frame, Stage, About
<1>3. owner[m] = t /\ owner' = [owner EXCEPT ![m] = IF count[m] = 1 THEN None ELSE t]
  BY DEF MutexUnlock, TypeOK
<1>4. Mon!Leave(t, m)
  BY <1>2, <1>3 DEF Mon!Leave, MutexUnlock, frame
<1> QED BY <1>4 DEF Mon!Next

\* condition-wait and condition-notify let go of their mutex.
LEMMA LetGoMon ==
    ASSUME TypeOK, NEW t \in Threads, NEW c \in CondVars, NEW p \in {"cwait", "notify"},
           pc[t] = "run", owner[MutexOf[c]] = t, ReleaseAll(t, c),
           pc' = [pc EXCEPT ![t] = p], obj' = [obj EXCEPT ![t] = c]
    PROVE  Mon!LetGo(t, c, IF p = "cwait" THEN "waiting" ELSE "entering")
<1>1. /\ pc[t] \notin Apart /\ p \in Apart /\ pc'[t] = p /\ obj'[t] = c
      /\ \A u \in Threads \ {t} : pc'[u] = pc[u] /\ obj'[u] = obj[u]
  BY DEF Apart, Relocking, TypeOK
<1>2. Stage[t] = "out"
  BY <1>1, StageOf DEF Apart
<1>3. Stage'[t] = IF p = "cwait" THEN "waiting" ELSE "entering"
  BY <1>1, StageOf
<1>4. About'[t] = c
  BY <1>1, StageOf
<1>5. /\ Stage' = [Stage EXCEPT ![t] = Stage'[t]]
      /\ About' = [About EXCEPT ![t] = About'[t]]
  BY <1>1, MonMove
<1> QED BY <1>2, <1>3, <1>4, <1>5 DEF Mon!LetGo, ReleaseAll

LEMMA ConditionWaitMon ==
    ASSUME TypeOK, NEW t \in Threads, NEW c \in CondVars, ConditionWait(t, c)
    PROVE  [Mon!Next]_(Mon!vars)
<1>1. Mon!LetGo(t, c, "waiting")
  BY LetGoMon DEF ConditionWait, InLisp, Block
<1>2. Mon!Wait(t, c)
  BY <1>1 DEF Mon!Wait, ConditionWait
<1> QED BY <1>2 DEF Mon!Next

\* The threads the monitor may wake are those whose cells are not yet set.
LEMMA UnwokenForm ==
    ASSUME Waits, NEW c \in CondVars
    PROVE  Mon!Unwoken(c) = Elems(waiters[c]) \ notified
<1>1. Elems(waiters[c]) = WaitersOf(c)
  BY WaitersForm DEF Waits
<1>2. \A u \in Threads : Stage[u] = "waiting" <=> pc[u] = "cwait"
  BY StageOf
<1>3. \A u \in Threads : pc[u] = "cwait" => About[u] = obj[u]
  BY StageOf DEF Apart
<1> QED BY <1>1, <1>2, <1>3 DEF Mon!Unwoken, WaitersOf

LEMMA ConditionNotifyMon ==
    ASSUME TypeOK, Waits, NEW t \in Threads, NEW c \in CondVars, NEW all \in BOOLEAN,
           ConditionNotify(t, c, all)
    PROVE  [Mon!Next]_(Mon!vars)
<1>1. Mon!LetGo(t, c, "entering")
  BY LetGoMon DEF ConditionNotify, InLisp
<1>2. notified' = notified \cup Cells(c, all)
  BY DEF ConditionNotify
<1>3. CASE all
  <2>1. Cells(c, all) = Mon!Unwoken(c)
    BY <1>3, UnwokenForm DEF Cells, Elems
  <2>2. Mon!NotifyAll(t, c)
    BY <1>1, <1>2, <2>1 DEF Mon!NotifyAll
  <2> QED BY <2>2 DEF Mon!Next
<1>4. CASE ~all
  <2> DEFINE unset == {j \in DOMAIN waiters[c] : waiters[c][j] \notin notified}
  <2>1. Mon!Unwoken(c) = {waiters[c][j] : j \in unset}
    BY UnwokenForm DEF Elems
  <2>2. Cells(c, all) = {waiters[c][i] : i \in {j \in unset :
                            \A k \in 1 .. (j - 1) : waiters[c][k] \in notified}}
    BY <1>4 DEF Cells
  <2>3. CASE unset = {}
    <3>1. Mon!Unwoken(c) = {} /\ notified' = notified
      BY <1>2, <2>1, <2>2, <2>3
    <3>2. Mon!NotifyOne(t, c)
      BY <1>1, <3>1 DEF Mon!NotifyOne
    <3> QED BY <3>2 DEF Mon!Next
  <2>4. CASE unset # {}
    <3>1. DOMAIN waiters[c] = 1 .. Len(waiters[c]) /\ Len(waiters[c]) \in Nat
      BY LenProperties DEF TypeOK
    <3>2. PICK i \in unset : \A j \in unset : i <= j
      <4>1. unset \in SUBSET Nat
        BY <3>1
      <4> HIDE DEF unset
      <4> QED BY <2>4, <4>1, LeastNat
    <3>3. {j \in unset : \A k \in 1 .. (j - 1) : waiters[c][k] \in notified} = {i}
      <4>1. \A k \in 1 .. (i - 1) : waiters[c][k] \in notified
        BY <3>1, <3>2
      <4>2. ASSUME NEW j \in unset, j # i PROVE i \in 1 .. (j - 1)
        BY <3>1, <3>2, <4>2
      <4> QED BY <4>1, <4>2
    <3>4. Cells(c, all) = {waiters[c][i]} /\ waiters[c][i] \in Mon!Unwoken(c)
      BY <2>1, <2>2, <3>3
    <3>5. Mon!NotifyOne(t, c)
      BY <1>1, <1>2, <3>4 DEF Mon!NotifyOne
    <3> QED BY <3>5 DEF Mon!Next
  <2> QED BY <2>3, <2>4
<1> QED BY <1>3, <1>4

\* A thread takes its mutex back.
LEMMA ReenterMon ==
    ASSUME IInv, Waits, NEW t \in Threads, pc[t] \in Apart, NEW f, Return(t, f),
           Free(t, MutexOf[obj[t]]),
           owner' = [owner EXCEPT ![MutexOf[obj[t]]] = t],
           count' = [count EXCEPT ![MutexOf[obj[t]]] = saved[t]],
           notified' = notified \ {t}
    PROVE  Mon!Reenter(t)
<1>1. TypeOK /\ MutexOf[obj[t]] \in Mutexes /\ Released(t, MutexOf[obj[t]])
  BY Constants DEF IInv, ObjOK, Released
<1>2. owner[MutexOf[obj[t]]] = None
  BY <1>1 DEF Free, IInv, LevelsKept
<1>3. /\ pc'[t] \in {"run", "raise"}
      /\ \A u \in Threads \ {t} : pc'[u] = pc[u] /\ obj'[u] = obj[u]
  BY <1>1, ReturnElsewhere
<1>4. Stage[t] # "out" /\ About[t] = obj[t]
  BY StageOf
<1>5. Stage'[t] = "out" /\ About'[t] = None
  BY <1>3, StageOf DEF Apart, Relocking
<1>6. /\ Stage' = [Stage EXCEPT ![t] = "out"]
      /\ About' = [About EXCEPT ![t] = None]
  BY <1>3, <1>5, MonMove
<1>7. saved' = [saved EXCEPT ![t] = 0]
  BY DEF Return
<1> QED BY <1>2, <1>4, <1>6, <1>7 DEF Mon!Reenter, Mon!Out

\* ... or leaves the wait and asks for it.
LEMMA EndWaitMon ==
    ASSUME TypeOK, NEW t \in Threads, pc[t] = "cwait", NEW p \in Relocking,
           pc' = [pc EXCEPT ![t] = p], notified' = notified \ {t},
           UNCHANGED <<obj, saved, owner, count>>
    PROVE  Mon!EndWait(t)
<1>1. /\ pc'[t] = p /\ p \in Apart /\ p # "cwait" /\ pc[t] \in Apart
      /\ \A u \in Threads \ {t} : pc'[u] = pc[u] /\ obj'[u] = obj[u]
  BY DEF Apart, Relocking, TypeOK
<1>2. Stage[t] = "waiting" /\ Stage'[t] = "entering" /\ About'[t] = About[t]
  BY <1>1, StageOf
<1>3. Stage' = [Stage EXCEPT ![t] = "entering"]
  BY <1>1, <1>2, MonMove
<1>4. About' = About
  <2>1. \A u \in Threads : pc'[u] \in Apart <=> pc[u] \in Apart
    BY <1>1
  <2>2. \A u \in Threads : /\ Stage[u] = "out" <=> pc[u] \notin Apart
                           /\ Stage'[u] = "out" <=> pc'[u] \notin Apart
    BY DEF Stage, Apart, Relocking
  <2> QED BY <2>1, <2>2 DEF About
<1> QED BY <1>2, <1>3, <1>4 DEF Mon!EndWait

\* ... or goes on waiting for it.
LEMMA StillEntering ==
    ASSUME TypeOK, NEW t \in Threads, pc[t] \in Apart \ {"cwait"}, NEW p \in Relocking,
           pc' = [pc EXCEPT ![t] = p], UNCHANGED <<obj, saved, owner, count, notified>>
    PROVE  UNCHANGED Mon!vars
<1>1. \A u \in Threads : /\ pc'[u] = "cwait" <=> pc[u] = "cwait"
                         /\ pc'[u] \in Apart <=> pc[u] \in Apart
  BY DEF Apart, Relocking, TypeOK
<1> QED BY <1>1, MonQuiet

\* A thread that was not notified leaves the notified ones as they are.
LEMMA NotNotified ==
    ASSUME Waits, NEW t \in Threads, pc[t] # "cwait"
    PROVE  notified = notified \ {t}
BY DEF Waits, WaiterListExact

LEMMA ConditionWokenMon ==
    ASSUME IInv, Waits, NEW t \in Threads, ConditionWoken(t)
    PROVE  [Mon!Next]_(Mon!vars)
<1> USE DEF ConditionWoken, Resumed
<1>1. TypeOK /\ pc[t] = "cwait" /\ pc[t] \in Apart /\ "rewait" \in Relocking
  BY DEF IInv, Apart, Relocking
<1>2. CASE /\ Free(t, MutexOf[obj[t]])
           /\ owner' = [owner EXCEPT ![MutexOf[obj[t]]] = t]
           /\ count' = [count EXCEPT ![MutexOf[obj[t]]] = saved[t]]
           /\ Return(t, flow[t])
  <2>1. Mon!Reenter(t)
    BY <1>1, <1>2, ReenterMon
  <2> QED BY <2>1 DEF Mon!Next
<1>3. CASE /\ Block(t, "rewait", MutexOf[obj[t]])
           /\ UNCHANGED <<obj, saved, owner, count>>
  <2>1. Mon!EndWait(t)
    BY <1>1, <1>3, EndWaitMon DEF Block
  <2> QED BY <2>1 DEF Mon!Next
<1> QED BY <1>2, <1>3 DEF TryRelock

\* The relocking of a thread that is not in the waiter list.
LEMMA RelockMon ==
    ASSUME IInv, Waits, NEW t \in Threads, pc[t] \in Apart \ {"cwait"},
           NEW p \in Relocking, NEW f, TryRelock(t, obj[t], p, f), UNCHANGED notified
    PROVE  [Mon!Next]_(Mon!vars)
<1>1. TypeOK /\ notified' = notified \ {t}
  BY NotNotified DEF IInv
<1>2. CASE /\ Free(t, MutexOf[obj[t]])
           /\ owner' = [owner EXCEPT ![MutexOf[obj[t]]] = t]
           /\ count' = [count EXCEPT ![MutexOf[obj[t]]] = saved[t]]
           /\ Return(t, f)
  <2>1. Mon!Reenter(t)
    BY <1>1, <1>2, ReenterMon
  <2> QED BY <2>1 DEF Mon!Next
<1>3. CASE Block(t, p, MutexOf[obj[t]]) /\ UNCHANGED <<obj, saved, owner, count>>
  BY <1>1, <1>3, StillEntering DEF Block
<1> QED BY <1>2, <1>3 DEF TryRelock

LEMMA RelockRetryMon ==
    ASSUME IInv, Waits, NEW t \in Threads, RelockRetry(t)
    PROVE  [Mon!Next]_(Mon!vars)
<1> USE DEF RelockRetry, Resumed
<1>1. TypeOK /\ pc[t] \in Relocking /\ pc[t] \in Apart \ {"cwait"}
  BY DEF IInv, Apart, Relocking
<1>2. CASE Return(t, flow[t]) /\ UNCHANGED <<owner, count>>
  <2>1. /\ pc'[t] \in {"run", "raise"}
        /\ \A u \in Threads \ {t} : pc'[u] = pc[u] /\ obj'[u] = obj[u]
    BY <1>1, <1>2, ReturnElsewhere
  <2>2. Stage[t] = "entering" /\ Stage'[t] = "out" /\ About'[t] = None
    BY <1>1, <2>1, StageOf DEF Apart, Relocking
  <2>3. /\ Stage' = [Stage EXCEPT ![t] = "out"]
        /\ About' = [About EXCEPT ![t] = None]
    BY <2>1, <2>2, MonMove
  <2>4. notified' = notified \ {t} /\ saved' = [saved EXCEPT ![t] = 0]
    BY <1>1, <1>2, NotNotified DEF Return
  <2>5. Mon!GiveUp(t)
    BY <1>2, <2>2, <2>3, <2>4 DEF Mon!GiveUp, Mon!Out
  <2> QED BY <2>5 DEF Mon!Next
<1>3. CASE TryRelock(t, obj[t], pc[t], owed[t])
  BY <1>1, <1>3, RelockMon
<1> QED BY <1>2, <1>3

LEMMA LispCallMon ==
    ASSUME IInv, Waits, NEW t \in Threads, LispCall(t)
    PROVE  [Mon!Next]_(Mon!vars)
<1> USE DEF InLisp, Resumed
<1>0. /\ TypeOK
      /\ {"run", "raise", "unborn", "start", "yield", "sleep", "join", "finished"}
            \cap Apart = {}
  BY DEF IInv, Apart, Relocking
<1>1. ASSUME NEW u \in Workers, MakeThread(t, u) PROVE UNCHANGED Mon!vars
  BY <1>0, <1>1, Constants, MonMoved DEF MakeThread, monitor
<1>2. CASE ThreadYield(t) \/ SleepWorker(t)
  BY <1>0, <1>2, MonMoved DEF ThreadYield, SleepWorker, monitor
<1>3. ASSUME NEW u \in Threads, ThreadJoin(t, u) PROVE UNCHANGED Mon!vars
  <2>1. CASE Block(t, "join", u) /\ obj' = [obj EXCEPT ![t] = u] /\ UNCHANGED saved
    BY <1>0, <1>3, <2>1, MonMoved DEF ThreadJoin, Block, monitor, TypeOK
  <2>2. CASE Return(t, IF Signaled(u) THEN pendingSignal[u] ELSE None)
    BY <1>0, <1>3, <2>2, MonReturned DEF ThreadJoin, monitor
  <2> QED BY <1>3, <2>1, <2>2 DEF ThreadJoin
<1>4. CASE \E m \in Mutexes : MutexLock(t, m)
  BY <1>0, <1>4, LockLoopMon DEF MutexLock
<1>5. CASE \E m \in Mutexes : MutexUnlock(t, m)
  BY <1>0, <1>5, UnlockMon
<1>6. CASE \E c \in CondVars : ConditionWait(t, c)
  BY <1>0, <1>6, ConditionWaitMon
<1>7. CASE \E c \in CondVars, all \in BOOLEAN : ConditionNotify(t, c, all)
  BY <1>0, <1>7, ConditionNotifyMon
<1>8. ASSUME NEW u \in Threads, NEW s \in Signals \cup {NilSignal}, ThreadSignal(t, u, s)
      PROVE  UNCHANGED Mon!vars
  <2>1. CASE Return(t, IF s = NilSignal THEN "error" ELSE s)
    BY <1>0, <1>8, <2>1, MonReturned DEF ThreadSignal, monitor
  <2>2. CASE UNCHANGED frame
    BY <1>8, <2>2, MonQuiet DEF ThreadSignal, monitor, frame
  <2> QED BY <1>8, <2>1, <2>2 DEF ThreadSignal
<1>9. CASE LispError(t) \/ Catch(t)
  BY <1>0, <1>9, MonReturned DEF LispError, Catch, monitor
<1>10. CASE Finish(t) \/ ExitPacket(t)
  BY <1>0, <1>10, MonMoved DEF Finish, ExitPacket, Die, monitor
<1> QED BY <1>1, <1>2, <1>3, <1>4, <1>5, <1>6, <1>7, <1>8, <1>9, <1>10 DEF LispCall

LEMMA ResumptionMon ==
    ASSUME IInv, Waits, NEW t \in Threads, Resumption(t)
    PROVE  [Mon!Next]_(Mon!vars)
<1> USE DEF Resumed
<1>0. /\ TypeOK
      /\ {"start", "yield", "loop", "sleep", "join", "lock", "finished"} \cap Apart = {}
  BY DEF IInv, Apart, Relocking
<1>1. CASE Started(t)
  <2>1. CASE Return(t, None)
    BY <1>0, <1>1, <2>1, MonReturned DEF Started, monitor
  <2>2. CASE Die(t)
    BY <1>0, <1>1, <2>2, MonMoved DEF Started, Die, monitor
  <2> QED BY <1>1, <2>1, <2>2 DEF Started
<1>2. CASE TurnOver(t) \/ JoinOver(t)
  BY <1>0, <1>2, MonReturned DEF TurnOver, JoinOver, monitor
<1>3. CASE LockRetry(t)
  <2>1. CASE Return(t, flow[t]) /\ UNCHANGED <<owner, count>>
    BY <1>0, <1>3, <2>1, MonReturned DEF LockRetry
  <2>2. CASE LockLoop(t, obj[t])
    BY <1>0, <1>3, <2>2, LockLoopMon DEF LockRetry, IInv, ObjOK
  <2> QED BY <1>3, <2>1, <2>2 DEF LockRetry
<1>4. CASE ConditionWoken(t)
  BY <1>4, ConditionWokenMon
<1>5. CASE NotifyTurnOver(t)
  <2>1. /\ pc[t] \in Apart \ {"cwait"} /\ "renotify" \in Relocking
        /\ TryRelock(t, obj[t], "renotify", flow[t]) /\ UNCHANGED notified
    BY <1>5 DEF NotifyTurnOver, Apart, Relocking
  <2> QED BY <2>1, RelockMon
<1>6. CASE RelockRetry(t)
  BY <1>6, RelockRetryMon
<1> QED BY <1>1, <1>2, <1>3, <1>4, <1>5, <1>6 DEF Resumption

LEMMA NextMon == WInv /\ [Next]_vars => [Mon!Next]_(Mon!vars)
<1> SUFFICES ASSUME WInv, [Next]_vars PROVE [Mon!Next]_(Mon!vars)
  OBVIOUS
<1>0. IInv /\ Waits /\ TypeOK /\ {"run", "raise", "loop", "exited"} \cap Apart = {}
  BY DEF WInv, IInv, Apart, Relocking
<1>1. CASE UNCHANGED <<pc, obj, saved, monitor>>
  BY <1>1, MonQuiet DEF monitor
<1>2. CASE CommandLoop \/ MainExit
  BY <1>0, <1>2, Constants, MonMoved DEF CommandLoop, MainExit, InLisp, Resumed, monitor
<1>3. CASE \/ \E i \in 1 .. Cardinality(Workers) : RunOne(i)
           \/ IdleTurn \/ PumpEvents \/ WakeMain
           \/ \E t \in Workers : DeadlinePasses(t)
           \/ UNCHANGED vars
  BY <1>1, <1>3 DEF RunOne, IdleTurn, PumpEvents, WakeMain, DeadlinePasses, vars, frame
<1> QED BY <1>0, <1>2, <1>3, LispCallMon, ResumptionMon DEF Next, Running, Scheduling

\* Mutexes and condition variables behave like the abstract monitor, under
\* every schedule, signal and exit.
THEOREM ImplementsMonitor == Spec => MonitorSpec
<1>1. Init => Mon!Init
  <2> SUFFICES ASSUME Init PROVE Mon!Init
    OBVIOUS
  <2>1. \A t \in Threads : pc[t] \notin Apart
    BY DEF Init, Apart, Relocking
  <2>2. Stage = [t \in Threads |-> "out"]
    BY <2>1 DEF Stage, Apart
  <2>3. About = [t \in Threads |-> None]
    BY <2>2 DEF About
  <2> QED BY <2>2, <2>3 DEF Init, Mon!Init
<1>2. WInv /\ [Next]_vars => [Mon!Next]_(Mon!vars)
  BY NextMon
<1> QED BY <1>1, <1>2, WaitsInvariance, PTL DEF Spec, MonitorSpec, Mon!Spec
=============================================================================
