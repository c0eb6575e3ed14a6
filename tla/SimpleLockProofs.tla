-------------------------- MODULE SimpleLockProofs --------------------------
(***************************************************************************)
(* libsimple's lock implements the abstract mutex, for every set of         *)
(* threads, with its condition variable, notifications given with or        *)
(* without the lock, and sleepers that return without having been woken.    *)
(***************************************************************************)
EXTENDS SimpleLock, FiniteSetTheorems, TLAPS

Wants(t) == pc[t] \in Locking \cup Relocking

\* The word tells whether the lock is held, and one thread at most holds it.
IInv ==
  /\ pc \in [Threads -> Places]
  /\ state \in {unlocked, locked_uncontended, locked_contended}
  /\ state = unlocked <=> \A t \in Threads : ~Holding(t)
  /\ \A t, u \in Threads : Holding(t) /\ Holding(u) => t = u

-----------------------------------------------------------------------------
(* The refinement mapping. *)

\* The owner that the mutex has, before and after a step.
LEMMA OwnerNone ==
  /\ (\A t \in Threads : ~Holding(t)) => Owner = NoOwner
  /\ (\A t \in Threads : ~Holding(t)') => Owner' = NoOwner
BY DEF Owner, Holders

\* The owner that the mutex has when a thread holds the lock alone.
LEMMA OwnerSome ==
  ASSUME NEW t \in Threads
  PROVE  /\ Holders = {t} => Owner = t
         /\ Holders' = {t} => Owner' = t
<1>1. Cardinality({t}) = 1 /\ {t} # {} /\ (CHOOSE u \in {t} : TRUE) = t
  BY FS_Singleton
<1>2. ASSUME Holders = {t} PROVE Owner = t
  BY <1>1, <1>2 DEF Owner
<1>3. ASSUME Holders' = {t} PROVE Owner' = t
  BY <1>1, <1>3 DEF Owner
<1> QED BY <1>2, <1>3

\* Nobody wants the lock and holds it.
LEMMA Disjoint ==
  ASSUME NEW t \in Threads
  PROVE  ~(Wants(t) /\ Holding(t)) /\ ~(Wants(t)' /\ Holding(t)')
BY DEF Wants, Holding, Locking, Relocking, Notifying

-----------------------------------------------------------------------------
(* The three things a step can be to the callers. *)

\* Holders stay, and who wants the lock still wants it: others may come to want it.
LEMMA Requests ==
  ASSUME IInv, pc' \in [Threads -> Places],
         state' \in {unlocked, locked_uncontended, locked_contended},
         state' = unlocked <=> state = unlocked,
         \A u \in Threads : Holding(u)' <=> Holding(u),
         \A u \in Threads : Wants(u) => Wants(u)'
  PROVE  IInv' /\ L!Next
<1>1. IInv'
  BY DEF IInv
<1> DEFINE S == {u \in Threads : Wants(u)' /\ ~Wants(u)}
<1>2. Holders' = Holders
  BY DEF Holders
<1>3. Owner' = Owner
  BY <1>2 DEF Owner
<1>4. Wanting' = Wanting \cup S
  BY DEF Wanting, Wants
<1>5. S \cap Wanting = {}
  BY DEF Wanting, Wants
<1>6. Owner \notin S
  <2>1. CASE \A t \in Threads : ~Holding(t)
    BY <2>1, OwnerNone, SimpleLockAssumption
  <2>2. ASSUME NEW t \in Threads, Holding(t) PROVE Owner \notin S
    <3>1. Holders = {t}
      BY <2>2 DEF Holders, IInv
    <3> QED BY <2>2, <3>1, OwnerSome, Disjoint
  <2> QED BY <2>1, <2>2
<1>7. L!Request(S)
  BY <1>3, <1>4, <1>5, <1>6 DEF L!Request
<1> QED BY <1>1, <1>7 DEF L!Next

\* A thread takes the free lock.
LEMMA Takes ==
  ASSUME IInv, NEW t \in Threads, pc' \in [Threads -> Places],
         state = unlocked, state' \in {locked_uncontended, locked_contended},
         Holding(t)',
         \A u \in Threads \ {t} : pc'[u] = pc[u]
  PROVE  IInv' /\ L!Next
<1>1. \A u \in Threads : ~Holding(u)
  BY DEF IInv
<1>2. \A u \in Threads : Holding(u)' <=> u = t
  BY <1>1 DEF Holding
<1>3. IInv'
  BY <1>2 DEF IInv, unlocked, locked_uncontended, locked_contended
<1>4. Owner = NoOwner
  BY <1>1, OwnerNone
<1>5. Holders' = {t}
  BY <1>2 DEF Holders
<1>6. Owner' = t
  BY <1>5, OwnerSome
<1>7. Wanting' = Wanting \ {t}
  BY <1>2, Disjoint DEF Wanting, Wants
<1>8. L!Acquire(t) \/ L!AcquireAtOnce(t)
  BY <1>4, <1>6, <1>7 DEF L!Acquire, L!AcquireAtOnce
<1> QED BY <1>3, <1>8 DEF L!Next

\* The holder frees the lock.
LEMMA Gives ==
  ASSUME IInv, NEW t \in Threads, pc' \in [Threads -> Places],
         Holding(t), state' = unlocked, ~Holding(t)', ~Wants(t)',
         \A u \in Threads \ {t} : pc'[u] = pc[u]
  PROVE  IInv' /\ L!Next
<1>1. \A u \in Threads : Holding(u) <=> u = t
  BY DEF IInv
<1>2. \A u \in Threads : ~Holding(u)'
  BY <1>1 DEF Holding
<1>3. IInv'
  BY <1>2 DEF IInv
<1>4. Holders = {t}
  BY <1>1 DEF Holders
<1>5. Owner = t /\ Owner' = NoOwner
  BY <1>2, <1>4, OwnerSome, OwnerNone
<1>6. Wanting' = Wanting
  BY Disjoint DEF Wanting, Wants
<1>7. L!Release(t)
  BY <1>5, <1>6 DEF L!Release
<1> QED BY <1>3, <1>7 DEF L!Next

-----------------------------------------------------------------------------
(* The steps. *)

\* A cmpxchg on the word, by a thread that does not hold the lock.
LEMMA CmpxchgStep ==
  ASSUME IInv, NEW t \in Threads, ~Holding(t),
         NEW locked \in {locked_uncontended, locked_contended}, Cmpxchg(t, locked)
  PROVE  IInv' /\ L!Next
<1>1. CASE state = unlocked
  <2>1. state' = locked /\ pc' = [pc EXCEPT ![t] = "hold"]
    BY <1>1 DEF Cmpxchg, Go
  <2>2. pc' \in [Threads -> Places] /\ Holding(t)' /\ \A u \in Threads \ {t} : pc'[u] = pc[u]
    BY <2>1 DEF IInv, Places, Holding
  <2> QED BY <1>1, <2>1, <2>2, Takes
<1>2. CASE state # unlocked
  <2> DEFINE p == IF state = locked_contended THEN "wait" ELSE "mark"
  <2>1. state' = state /\ pc' = [pc EXCEPT ![t] = p]
    BY <1>2 DEF Cmpxchg, Go
  <2>2. p \in {"wait", "mark"}
    OBVIOUS
  <2> HIDE DEF p
  <2>3. /\ pc' \in [Threads -> Places]
        /\ \A u \in Threads : Holding(u)' <=> Holding(u)
        /\ \A u \in Threads : Wants(u) => Wants(u)'
    BY <2>1, <2>2 DEF IInv, Places, Holding, Wants, Locking, Relocking, Notifying
  <2> QED BY <2>1, <2>3, Requests DEF IInv
<1> QED BY <1>1, <1>2

\* A move between places that mean the same to the callers, of any threads.
LEMMA MoveStep ==
  ASSUME IInv, pc' \in [Threads -> Places], state' = state,
         \A u \in Threads : \/ pc'[u] = pc[u]
                            \/ Holding(u) /\ Holding(u)'
                            \/ ~Holding(u) /\ ~Holding(u)' /\ (Wants(u) => Wants(u)')
  PROVE  IInv' /\ L!Next
<1>1. \A u \in Threads : (Holding(u)' <=> Holding(u)) /\ (Wants(u) => Wants(u)')
  <2> TAKE u \in Threads
  <2> QED BY Disjoint DEF Holding, Wants
<1> QED BY <1>1, Requests DEF IInv

\* A step of libsimple_lock_lock is a step of the mutex.
LEMMA LockStep ==
  ASSUME IInv, NEW t \in Threads, Mark(t) \/ FutexWait(t) \/ Retry(t) \/ LockSlow(t)
  PROVE  IInv' /\ L!Next
<1> USE DEF Go
<1>1. CASE Mark(t)
  <2>1. /\ pc' \in [Threads -> Places]
        /\ \A u \in Threads : Holding(u)' <=> Holding(u)
        /\ \A u \in Threads : Wants(u) => Wants(u)'
    BY <1>1 DEF Mark, IInv, Places, Holding, Wants, Locking, Relocking, Notifying
  <2>2. /\ state' \in {unlocked, locked_uncontended, locked_contended}
        /\ state' = unlocked <=> state = unlocked
    BY <1>1 DEF Mark, IInv, unlocked, locked_uncontended, locked_contended
  <2> QED BY <2>1, <2>2, Requests
<1>2. CASE FutexWait(t)
  <2>1. \E p \in {"asleep", "slowasleep", "retry", "slow"} : pc' = [pc EXCEPT ![t] = p]
    BY <1>2 DEF FutexWait
  <2>2. PICK p \in {"asleep", "slowasleep", "retry", "slow"} : pc' = [pc EXCEPT ![t] = p]
    BY <2>1
  <2>3. pc[t] \in {"wait", "slowwait"} /\ state' = state
    BY <1>2 DEF FutexWait
  <2> QED BY <2>2, <2>3, MoveStep DEF IInv, Places, Holding, Wants, Locking, Relocking, Notifying
<1>3. CASE Retry(t)
  <2>1. ~Holding(t) /\ Cmpxchg(t, locked_contended)
    BY <1>3 DEF Retry, Holding, Notifying
  <2> QED BY <2>1, CmpxchgStep
<1>4. CASE LockSlow(t)
  <2>1. CASE state = unlocked
    <3>1. /\ state' = locked_contended /\ pc' = [pc EXCEPT ![t] = "hold"]
      BY <1>4, <2>1 DEF LockSlow
    <3>2. pc' \in [Threads -> Places] /\ Holding(t)' /\ \A u \in Threads \ {t} : pc'[u] = pc[u]
      BY <3>1 DEF IInv, Places, Holding
    <3> QED BY <2>1, <3>1, <3>2, Takes
  <2>2. CASE state # unlocked
    <3>1. /\ state' = locked_contended /\ pc' = [pc EXCEPT ![t] = "slowwait"] /\ pc[t] = "slow"
      BY <1>4, <2>2 DEF LockSlow
    <3>2. /\ pc' \in [Threads -> Places]
          /\ \A u \in Threads : Holding(u)' <=> Holding(u)
          /\ \A u \in Threads : Wants(u) => Wants(u)'
      BY <3>1 DEF IInv, Places, Holding, Wants, Locking, Relocking, Notifying
    <3>3. state' = unlocked <=> state = unlocked
      BY <2>2, <3>1 DEF unlocked, locked_contended
    <3> QED BY <3>1, <3>2, <3>3, Requests
  <2> QED BY <2>1, <2>2
<1> QED BY <1>1, <1>2, <1>3, <1>4

\* The atomic exchange of libsimple_lock_unlock frees the mutex.
LEMMA UnlockStep ==
  ASSUME IInv, NEW t \in Threads, Unlock(t)
  PROVE  IInv' /\ L!Next
<1> DEFINE Next1 == {"wake", "cvwake", "cvwait"} \cup AfterUnlock(t)
<1>1. PICK p \in Next1 : pc' = [pc EXCEPT ![t] = p]
  BY DEF Unlock, Go
<1>2. p \in {"wake", "cvwake", "cvwait", "out"} \/ (~NotifyLocked /\ p \in {"one1", "all1"})
  BY DEF AfterUnlock
<1>3. pc' \in [Threads -> Places] /\ pc'[t] = p /\ \A u \in Threads \ {t} : pc'[u] = pc[u]
  BY <1>1, <1>2 DEF IInv, Places, Waiting, Notifying
<1>4. Holding(t) /\ state' = unlocked
  BY DEF Unlock, Holding
<1>5. ~Holding(t)' /\ ~Wants(t)'
  BY <1>2, <1>3, SimpleLockAssumption DEF Holding, Wants, Locking, Relocking, Notifying
<1> QED BY <1>3, <1>4, <1>5, Gives

\* A wake sends its caller on, and at most one sleeper back into the lock.
LEMMA WakeStep ==
  ASSUME IInv, NEW t \in Threads, FutexWake(t)
  PROVE  IInv' /\ L!Next
<1>1. pc[t] \in {"wake", "cvwake"} /\ state' = state
  BY DEF FutexWake
<1>2. PICK p \in AfterUnlock(t) \cup {"cvwait"} :
         \/ pc' = [pc EXCEPT ![t] = p]
         \/ \E u \in LockSleepers : pc' = [pc EXCEPT ![t] = p, ![u] = Woken(u)]
  BY DEF FutexWake, Go
<1>3. p \in {"out", "cvwait"} \/ (~NotifyLocked /\ p \in {"one1", "all1"})
  BY DEF AfterUnlock
<1>4. CASE pc' = [pc EXCEPT ![t] = p]
  BY <1>1, <1>3, <1>4, MoveStep
     DEF IInv, Places, Holding, Wants, Locking, Relocking, Waiting, Notifying
<1>5. ASSUME NEW u \in LockSleepers, pc' = [pc EXCEPT ![t] = p, ![u] = Woken(u)]
      PROVE  IInv' /\ L!Next
  <2>1. u \in Threads /\ pc[u] \in {"asleep", "slowasleep"} /\ Woken(u) \in {"retry", "slow"}
    BY DEF LockSleepers, Woken
  <2> QED BY <1>1, <1>3, <1>5, <2>1, MoveStep
      DEF IInv, Places, Holding, Wants, Locking, Relocking, Waiting, Notifying
<1> QED BY <1>2, <1>4, <1>5

\* The condition variable and its clients leave the lock alone, but for the sleepers
\* they send back to it.
LEMMA CondvarStep ==
  ASSUME IInv, NEW t \in Threads,
         \/ CondvarWait(t) \/ CondvarSleep(t) \/ Interrupted(t)
         \/ NotifyOneStarts(t) \/ NotifyOneClears(t) \/ NotifyOneWakes(t) \/ NotifyOneEnds(t)
         \/ NotifyAllStarts(t) \/ NotifyAllClears(t) \/ Requeue(t) \/ Take(t) \/ Put(t)
  PROVE  IInv' /\ L!Next
<1> USE DEF Go, IInv, Places, Holding, Wants, Locking, Relocking, Waiting, Notifying
<1> DEFINE Ok == /\ pc' \in [Threads -> Places] /\ state' = state
                 /\ \A u \in Threads : \/ pc'[u] = pc[u]
                                       \/ Holding(u) /\ Holding(u)'
                                       \/ ~Holding(u) /\ ~Holding(u)' /\ (Wants(u) => Wants(u)')
<1> SUFFICES Ok
  BY MoveStep
<1>1. Notified(t) = IF NotifyLocked THEN "leave" ELSE "out"
  BY DEF Notified
<1>2. CASE CondvarWait(t)
  BY <1>2 DEF CondvarWait
<1>3. CASE CondvarSleep(t)
  BY <1>3 DEF CondvarSleep
<1>4. CASE Interrupted(t)
  <2>1. Woken(t) \in {"retry", "slow"} /\ pc[t] \in {"asleep", "slowasleep", "cvasleep"}
    BY <1>4 DEF Interrupted, Woken, LockSleepers, CvSleepers
  <2> QED BY <1>4, <2>1 DEF Interrupted
<1>5. CASE NotifyOneStarts(t)
  BY <1>1, <1>5 DEF NotifyOneStarts
<1>6. CASE NotifyOneClears(t)
  BY <1>1, <1>6 DEF NotifyOneClears
<1>7. CASE NotifyOneWakes(t)
  BY <1>1, <1>7 DEF NotifyOneWakes, CvSleepers
<1>8. CASE NotifyOneEnds(t)
  BY <1>1, <1>8 DEF NotifyOneEnds
<1>9. CASE NotifyAllStarts(t)
  BY <1>1, <1>9 DEF NotifyAllStarts
<1>10. CASE NotifyAllClears(t)
  BY <1>10 DEF NotifyAllClears
<1>11. CASE Requeue(t)
  BY <1>1, <1>11 DEF Requeue, CvSleepers
<1>12. CASE Take(t)
  BY <1>12 DEF Take
<1>13. CASE Put(t)
  BY <1>13 DEF Put
<1> QED BY <1>2, <1>3, <1>4, <1>5, <1>6, <1>7, <1>8, <1>9, <1>10, <1>11, <1>12, <1>13

-----------------------------------------------------------------------------
\* The initial states are initial states of the mutex.
LEMMA IInvInit == ASSUME Init PROVE IInv /\ L!Init
<1>1. pc \in [Threads -> Places] /\ \A t \in Threads : pc[t] = "out"
  BY DEF Init, Places
<1>2. \A t \in Threads : ~Holding(t) /\ ~Wants(t)
  BY <1>1 DEF Holding, Wants, Locking, Relocking, Notifying
<1>3. IInv
  BY <1>1, <1>2 DEF Init, IInv
<1>4. Owner = NoOwner /\ Wanting = {}
  BY <1>2, OwnerNone DEF Wanting, Wants
<1> QED BY <1>3, <1>4 DEF L!Init

\* Every step keeps the invariant and is a step of the mutex or a stutter.
LEMMA IInvStep ==
  ASSUME IInv, [Next]_vars
  PROVE  IInv' /\ [L!Next]_(L!vars)
<1>1. CASE UNCHANGED vars
  <2>1. IInv'
    BY <1>1 DEF IInv, vars, Holding
  <2>2. Owner' = Owner /\ Wanting' = Wanting
    BY <1>1 DEF vars, Owner, Holders, Holding, Wanting
  <2> QED BY <2>1, <2>2 DEF L!vars
<1>2. ASSUME NEW t \in Threads, FastPath(t) \/ TryLock(t) PROVE IInv' /\ L!Next
  <2>1. ~Holding(t)
    BY <1>2 DEF FastPath, TryLock, Begin, Holding, Notifying
  <2>2. Cmpxchg(t, locked_uncontended)
    BY <1>2 DEF FastPath, TryLock, Cmpxchg
  <2> QED BY <2>1, <2>2, CmpxchgStep
<1>3. ASSUME NEW t \in Threads, Interrupted(t) \/ Step(t) PROVE IInv' /\ L!Next
  BY <1>3, LockStep, UnlockStep, WakeStep, CondvarStep DEF Step
<1> QED BY <1>1, <1>2, <1>3 DEF Next

\* libsimple's lock implements the mutex: whatever the threads do with the lock and
\* the condition variable, each step is a request, an acquisition of a free lock, a
\* release by the owner, or nothing to its callers.
THEOREM SimpleLockIsMutex == Spec => LockIsMutex
<1>1. Init => IInv /\ L!Init
  BY IInvInit
<1>2. IInv /\ [Next]_vars => IInv' /\ [L!Next]_(L!vars)
  BY IInvStep
<1> QED BY <1>1, <1>2, PTL DEF Spec, LockIsMutex, L!Spec

-----------------------------------------------------------------------------
(* Why nobody is left asleep. *)

\* A thread in one of these places will wake a sleeper of the lock, mark the word
\* contended, or take the lock as contended.
Awake == {"wake", "cvwake", "mark", "wait", "retry", "slow", "slowwait"}

\* A thread sleeps on the lock only while the word promises that its unlock wakes
\* somebody, or while another thread is on its way to restore that promise: the
\* requeue of notify_all and the spurious return of a sleeper included.
SleeperPromised ==
  LockSleepers # {} => state = locked_contended \/ \E t \in Threads : pc[t] \in Awake

\* Every step keeps the promise.
LEMMA PromiseStep ==
  ASSUME IInv, SleeperPromised, [Next]_vars
  PROVE  SleeperPromised'
<1> USE DEF Go, Awake
<1> SUFFICES ASSUME NEW s \in Threads, pc'[s] \in {"asleep", "slowasleep"},
                    state' # locked_contended
             PROVE  \E t \in Threads : pc'[t] \in Awake
  BY DEF SleeperPromised, LockSleepers
<1>0. pc \in [Threads -> Places]
  BY DEF IInv
<1>1. CASE UNCHANGED vars
  BY <1>1 DEF vars, SleeperPromised, LockSleepers
\* A thread that was in Awake already keeps the promise unless it moves.
<1>2. ASSUME NEW t \in Threads, \A u \in Threads \ {t} : pc'[u] = pc[u],
             pc[t] \notin Awake, pc'[t] \notin {"asleep", "slowasleep"},
             state # locked_contended
      PROVE  \E u \in Threads : pc'[u] \in Awake
  <2>1. s # t /\ pc[s] \in {"asleep", "slowasleep"}
    BY <1>2
  <2>2. PICK u \in Threads : pc[u] \in Awake
    BY <1>2, <2>1 DEF SleeperPromised, LockSleepers
  <2> QED BY <1>2, <2>2
<1>3. ASSUME NEW t \in Threads, FastPath(t) \/ TryLock(t)
      PROVE  \E u \in Threads : pc'[u] \in Awake
  <2>1. pc[t] = "out" /\ Cmpxchg(t, locked_uncontended)
    BY <1>3 DEF FastPath, TryLock, Begin, Cmpxchg
  <2>2. CASE state = unlocked
    BY <1>0, <1>2, <2>1, <2>2 DEF Cmpxchg, unlocked, locked_contended
  <2>3. CASE state # unlocked
    BY <1>0, <2>1, <2>3 DEF Cmpxchg
  <2> QED BY <2>2, <2>3
<1>4. ASSUME NEW t \in Threads, Interrupted(t)
      PROVE  \E u \in Threads : pc'[u] \in Awake
  BY <1>0, <1>4 DEF Interrupted, Woken
<1>5. ASSUME NEW t \in Threads, Mark(t) \/ FutexWait(t) \/ Retry(t) \/ LockSlow(t)
      PROVE  \E u \in Threads : pc'[u] \in Awake
  <2>1. CASE Mark(t)
    BY <1>0, <2>1 DEF Mark
  <2>2. CASE FutexWait(t)
    BY <1>0, <2>2 DEF FutexWait
  <2>3. CASE Retry(t)
    BY <1>0, <2>3 DEF Retry, Cmpxchg
  <2>4. CASE LockSlow(t)
    BY <1>0, <2>4 DEF LockSlow
  <2> QED BY <1>5, <2>1, <2>2, <2>3, <2>4
<1>6. ASSUME NEW t \in Threads, Unlock(t)
      PROVE  \E u \in Threads : pc'[u] \in Awake
  <2>1. CASE state = locked_contended
    BY <1>0, <1>6, <2>1 DEF Unlock
  <2>2. CASE state # locked_contended
    <3>1. PICK p \in {"cvwait", "out", "one1", "all1"} : pc' = [pc EXCEPT ![t] = p]
      BY <1>6, <2>2 DEF Unlock, AfterUnlock
    <3>2. pc[t] \notin Awake
      BY <1>6 DEF Unlock
    <3> QED BY <1>0, <1>2, <2>2, <3>1, <3>2
  <2> QED BY <2>1, <2>2
<1>7. ASSUME NEW t \in Threads, FutexWake(t)
      PROVE  \E u \in Threads : pc'[u] \in Awake
  <2>1. s \in LockSleepers
    <3>1. PICK p \in {"cvwait", "out", "one1", "all1"} :
            \/ pc' = [pc EXCEPT ![t] = p]
            \/ \E u \in LockSleepers : pc' = [pc EXCEPT ![t] = p, ![u] = Woken(u)]
      BY <1>7 DEF FutexWake, AfterUnlock
    <3> QED BY <1>0, <3>1 DEF LockSleepers, Woken
  <2>2. PICK p \in {"cvwait", "out", "one1", "all1"}, u \in LockSleepers :
          pc' = [pc EXCEPT ![t] = p, ![u] = Woken(u)]
    BY <1>7, <2>1 DEF FutexWake, AfterUnlock
  <2>3. u \in Threads /\ pc'[u] \in {"retry", "slow"}
    BY <1>0, <2>2 DEF LockSleepers, Woken
  <2> QED BY <2>3
<1>8. ASSUME NEW t \in Threads, Requeue(t)
      PROVE  \E u \in Threads : pc'[u] \in Awake
  <2>1. CASE CvSleepers = {}
    BY <1>0, <1>2, <1>8, <2>1 DEF Requeue, Notified
  <2>2. CASE CvSleepers # {}
    <3>1. PICK w \in CvSleepers :
            pc' = [u \in Threads |-> IF u = t THEN Notified(t)
                                     ELSE IF u = w THEN "slow"
                                     ELSE IF u \in CvSleepers THEN "slowasleep" ELSE pc[u]]
      BY <1>8, <2>2 DEF Requeue
    <3>2. w \in Threads /\ w # t
      BY <1>8 DEF Requeue, CvSleepers
    <3> QED BY <3>1, <3>2
  <2> QED BY <2>1, <2>2
<1>9. ASSUME NEW t \in Threads,
             \/ CondvarWait(t) \/ CondvarSleep(t)
             \/ NotifyOneStarts(t) \/ NotifyOneClears(t) \/ NotifyOneEnds(t)
             \/ NotifyAllStarts(t) \/ NotifyAllClears(t) \/ Take(t) \/ Put(t)
      PROVE  \E u \in Threads : pc'[u] \in Awake
  <2>1. pc[t] \notin Awake /\ state' = state
    BY <1>9 DEF CondvarWait, CondvarSleep, NotifyOneStarts, NotifyOneClears,
       NotifyOneEnds, NotifyAllStarts, NotifyAllClears, Take, Put
  <2>2. \E p \in {"cvunlock", "cvasleep", "slow", "leave", "out", "one1", "one2", "one3",
                  "all1", "all2", "all3"} : pc' = [pc EXCEPT ![t] = p]
    BY <1>9 DEF CondvarWait, CondvarSleep, NotifyOneStarts, NotifyOneClears,
       NotifyOneEnds, NotifyAllStarts, NotifyAllClears, Take, Put, Notified
  <2> QED BY <1>0, <1>2, <2>1, <2>2
<1>10. ASSUME NEW t \in Threads, NotifyOneWakes(t)
       PROVE  \E u \in Threads : pc'[u] \in Awake
  <2>1. CASE CvSleepers = {}
    BY <1>0, <1>2, <1>10, <2>1 DEF NotifyOneWakes, Notified
  <2>2. CASE CvSleepers # {}
    BY <1>0, <1>10, <2>2 DEF NotifyOneWakes, CvSleepers
  <2> QED BY <2>1, <2>2
<1> QED BY <1>1, <1>3, <1>4, <1>5, <1>6, <1>7, <1>8, <1>9, <1>10 DEF Next, Step

\* No thread is forgotten on the lock's word: this is what LockProgress rests on.
THEOREM SimpleLockSleepers == Spec => []SleeperPromised
<1>1. Init => IInv /\ SleeperPromised
  BY IInvInit DEF Init, SleeperPromised, LockSleepers
<1>2. IInv /\ SleeperPromised /\ [Next]_vars => IInv' /\ SleeperPromised'
  BY IInvStep, PromiseStep
<1> QED BY <1>1, <1>2, PTL DEF Spec

-----------------------------------------------------------------------------
(* Why no notification under the lock is lost. *)

CvWords == [seq : Nat, one : BOOLEAN, all : BOOLEAN]

\* A waiter that is about to sleep has set both bits, and saw no later word than
\* the present one; while anybody sleeps on the condition variable its bits are
\* set, or a notifier that cleared one is about to wake or to set it again.
CvInv ==
  /\ cv \in CvWords /\ seen \in [Threads -> CvWords]
  /\ \A t \in Threads : pc[t] \in {"cvunlock", "cvwake", "cvwait"} =>
       seen[t].one /\ seen[t].all /\ seen[t].seq <= cv.seq
  /\ CvSleepers # {} =>
       /\ cv.one \/ \E t \in Threads : pc[t] \in {"one3", "one4", "all3"}
       /\ cv.all \/ \E t \in Threads : pc[t] = "all3"

\* A notification reaches whoever waits: it finds its bit set if somebody sleeps,
\* so that it goes on to wake, and changes the word that those between their unlock
\* and their sleep have seen, so that they do not sleep.
NotifyHeard ==
  [][\A t \in Threads : NotifyOneStarts(t) \/ NotifyAllStarts(t) =>
       /\ CvSleepers # {} => pc'[t] \in {"one2", "all2"}
       /\ \A u \in Threads : pc[u] \in {"cvwake", "cvwait"} => seen[u] # cv']_vars

\* A step that leaves the words alone, sends nobody to sleep on the condition
\* variable, and takes nobody out of its last two notifying steps.
LEMMA CvKept ==
  ASSUME IInv, CvInv, cv' = cv, seen' = seen, pc' \in [Threads -> Places],
         \A u \in Threads : \/ pc'[u] = pc[u]
                            \/ /\ pc[u] \notin {"one3", "one4", "all3"}
                               /\ pc'[u] \notin {"cvunlock", "cvasleep"}
                               /\ pc'[u] \in {"cvwake", "cvwait"} =>
                                    pc[u] \in {"cvunlock", "cvwake"}
  PROVE  CvInv'
<1>1. ASSUME NEW u \in CvSleepers' PROVE u \in CvSleepers
  BY DEF CvSleepers
<1>2. \A t \in Threads : pc'[t] \in {"cvunlock", "cvwake", "cvwait"} =>
        pc[t] \in {"cvunlock", "cvwake", "cvwait"}
  OBVIOUS
<1>3. \A t \in Threads : pc[t] \in {"one3", "one4", "all3"} => pc'[t] = pc[t]
  OBVIOUS
<1>4. CvSleepers' # {} => CvSleepers # {}
  BY <1>1
<1>5. CvSleepers' # {} =>
        /\ cv.one \/ \E t \in Threads : pc'[t] \in {"one3", "one4", "all3"}
        /\ cv.all \/ \E t \in Threads : pc'[t] = "all3"
  BY <1>3, <1>4 DEF CvInv
<1> QED BY <1>2, <1>5 DEF CvInv

\* Every step keeps what is known of the words of lock and condition variable.
LEMMA CvStep ==
  ASSUME IInv, CvInv, [Next]_vars
  PROVE  CvInv'
<1> USE DEF Go
<1>0. pc \in [Threads -> Places] /\ pc' \in [Threads -> Places]
  BY IInvStep DEF IInv
<1>1. CASE UNCHANGED vars
  BY <1>1 DEF vars, CvInv, CvSleepers
<1>2. ASSUME NEW t \in Threads, FastPath(t) \/ TryLock(t) PROVE CvInv'
  BY <1>0, <1>2, CvKept DEF FastPath, TryLock, Begin, Cmpxchg
<1>3. ASSUME NEW t \in Threads, Mark(t) \/ FutexWait(t) \/ Retry(t) \/ LockSlow(t) PROVE CvInv'
  BY <1>0, <1>3, CvKept DEF Mark, FutexWait, Retry, LockSlow, Cmpxchg
<1>4. ASSUME NEW t \in Threads, Unlock(t) PROVE CvInv'
  BY <1>0, <1>4, CvKept DEF Unlock, AfterUnlock
<1>5. ASSUME NEW t \in Threads, FutexWake(t) PROVE CvInv'
  <2>1. PICK p \in {"out", "cvwait", "one1", "all1"} :
          \/ pc' = [pc EXCEPT ![t] = p]
          \/ \E u \in LockSleepers : pc' = [pc EXCEPT ![t] = p, ![u] = Woken(u)]
    BY <1>5 DEF FutexWake, AfterUnlock
  <2>2. pc[t] \in {"wake", "cvwake"} /\ (p = "cvwait" => pc[t] = "cvwake")
        /\ cv' = cv /\ seen' = seen
    <3>1. pc[t] = "wake" => pc'[t] \in {"out", "one1", "all1"} \/ t \in LockSleepers
      BY <1>0, <1>5 DEF FutexWake, AfterUnlock, LockSleepers
    <3> QED BY <1>0, <1>5, <2>1, <3>1 DEF FutexWake, LockSleepers
  <2>3. \A u \in LockSleepers : u \in Threads /\ Woken(u) \in {"retry", "slow"}
                                /\ pc[u] \in {"asleep", "slowasleep"}
    BY DEF LockSleepers, Woken
  <2>4. CASE pc' = [pc EXCEPT ![t] = p]
    BY <1>0, <2>1, <2>2, <2>4, CvKept
  <2>5. ASSUME NEW u \in LockSleepers, pc' = [pc EXCEPT ![t] = p, ![u] = Woken(u)]
        PROVE  CvInv'
    BY <1>0, <2>1, <2>2, <2>3, <2>5, CvKept
  <2> QED BY <2>1, <2>4, <2>5
<1>6. ASSUME NEW t \in Threads, Interrupted(t) PROVE CvInv'
  BY <1>0, <1>6, CvKept DEF Interrupted, Woken, LockSleepers, CvSleepers
<1>7. ASSUME NEW t \in Threads, Take(t) \/ Put(t) PROVE CvInv'
  BY <1>0, <1>7, CvKept DEF Take, Put
<1>8. ASSUME NEW t \in Threads, CondvarWait(t) PROVE CvInv'
  <2>1. /\ cv' = [cv EXCEPT !.one = TRUE, !.all = TRUE] /\ seen' = [seen EXCEPT ![t] = cv']
        /\ pc' = [pc EXCEPT ![t] = "cvunlock"]
    BY <1>8 DEF CondvarWait
  <2>2. cv' \in CvWords /\ cv'.one /\ cv'.all /\ cv'.seq = cv.seq
    BY <2>1 DEF CvInv, CvWords
  <2>3. seen' \in [Threads -> CvWords]
    BY <2>1, <2>2 DEF CvInv
  <2>4. ASSUME NEW u \in Threads, pc'[u] \in {"cvunlock", "cvwake", "cvwait"}
        PROVE  seen'[u].one /\ seen'[u].all /\ seen'[u].seq <= cv'.seq
    <3>1. CASE u = t
      BY <2>1, <2>2, <3>1 DEF CvInv, CvWords
    <3>2. CASE u # t
      BY <1>0, <2>1, <2>2, <2>4, <3>2 DEF CvInv
    <3> QED BY <3>1, <3>2
  <2> QED BY <2>2, <2>3, <2>4 DEF CvInv
<1>9. ASSUME NEW t \in Threads, CondvarSleep(t) PROVE CvInv'
  <2>1. CASE cv = seen[t]
    <3>1. cv.one /\ cv.all /\ cv' = cv /\ seen' = seen /\ pc' = [pc EXCEPT ![t] = "cvasleep"]
      BY <1>9, <2>1 DEF CondvarSleep, CvInv
    <3> QED BY <1>0, <3>1 DEF CvInv
  <2>2. CASE cv # seen[t]
    BY <1>0, <1>9, <2>2, CvKept DEF CondvarSleep
  <2> QED BY <2>1, <2>2
<1>10. ASSUME NEW t \in Threads, NotifyOneStarts(t) \/ NotifyAllStarts(t) PROVE CvInv'
  <2>1. /\ cv' = [cv EXCEPT !.seq = @ + 1] /\ seen' = seen
        /\ pc[t] \in {"one1", "all1"}
        /\ \E p \in {"one2", "all2", "leave", "out"} : pc' = [pc EXCEPT ![t] = p]
    BY <1>10 DEF NotifyOneStarts, NotifyAllStarts, Increment, Notified
  <2>2. cv' \in CvWords /\ cv'.one = cv.one /\ cv'.all = cv.all /\ cv'.seq = cv.seq + 1
    BY <2>1 DEF CvInv, CvWords
  <2>3. \A u \in Threads : \/ pc'[u] = pc[u]
                           \/ /\ pc[u] \notin {"one3", "one4", "all3"}
                              /\ pc'[u] \notin {"cvunlock", "cvwake", "cvwait", "cvasleep"}
    BY <1>0, <2>1
  <2>4. CvSleepers' # {} => CvSleepers # {}
    BY <2>3 DEF CvSleepers
  <2>5. \A u \in Threads : seen[u].seq \in Nat /\ cv.seq \in Nat
    BY DEF CvInv, CvWords
  <2>6. \A u \in Threads : pc'[u] \in {"cvunlock", "cvwake", "cvwait"} =>
          seen'[u].one /\ seen'[u].all /\ seen'[u].seq <= cv'.seq
    BY <2>1, <2>2, <2>3, <2>5 DEF CvInv
  <2>7. CvSleepers' # {} =>
       /\ cv'.one \/ \E u \in Threads : pc'[u] \in {"one3", "one4", "all3"}
       /\ cv'.all \/ \E u \in Threads : pc'[u] = "all3"
    BY <2>2, <2>3, <2>4 DEF CvInv
  <2> QED BY <2>1, <2>2, <2>6, <2>7 DEF CvInv
<1>11. ASSUME NEW t \in Threads, NotifyOneClears(t) \/ NotifyOneEnds(t) \/ NotifyAllClears(t)
       PROVE  CvInv'
  <2>1. seen' = seen /\ \E p \in {"one3", "all3", "leave", "out"} : pc' = [pc EXCEPT ![t] = p]
    BY <1>11 DEF NotifyOneClears, NotifyOneEnds, NotifyAllClears, Notified
  <2>2. cv' \in CvWords /\ cv'.seq = cv.seq
    BY <1>11 DEF NotifyOneClears, NotifyOneEnds, NotifyAllClears, CvInv, CvWords
  <2>3. \A u \in Threads : \/ pc'[u] = pc[u]
                           \/ u = t /\ pc'[u] \notin {"cvunlock", "cvwake", "cvwait", "cvasleep"}
    BY <1>0, <2>1
  <2>4. CvSleepers' # {} => CvSleepers # {}
    BY <2>3 DEF CvSleepers
  <2>5. \A u \in Threads : pc'[u] \in {"cvunlock", "cvwake", "cvwait"} =>
          seen'[u].one /\ seen'[u].all /\ seen'[u].seq <= cv'.seq
    BY <2>1, <2>2, <2>3 DEF CvInv
  <2>6. CvSleepers' # {} =>
       /\ cv'.one \/ \E u \in Threads : pc'[u] \in {"one3", "one4", "all3"}
       /\ cv'.all \/ \E u \in Threads : pc'[u] = "all3"
    <3>1. CASE NotifyOneClears(t)
      <4>1. cv'.all = cv.all /\ (cv.one => pc'[t] = "one3") /\ (~cv.one => ~cv'.one)
            /\ pc[t] = "one2"
        BY <1>0, <3>1 DEF NotifyOneClears, CvInv, CvWords
      <4> QED BY <2>3, <2>4, <4>1 DEF CvInv
    <3>2. CASE NotifyOneEnds(t)
      <4>1. cv'.all = cv.all /\ cv'.one /\ pc[t] = "one4"
        BY <3>2 DEF NotifyOneEnds, CvInv, CvWords
      <4> QED BY <2>3, <2>4, <4>1 DEF CvInv
    <3>3. CASE NotifyAllClears(t)
      BY <1>0, <3>3 DEF NotifyAllClears
    <3> QED BY <1>11, <3>1, <3>2, <3>3
  <2> QED BY <2>1, <2>2, <2>5, <2>6 DEF CvInv
<1>12. ASSUME NEW t \in Threads, NotifyOneWakes(t) PROVE CvInv'
  <2>1. CASE CvSleepers = {}
    <3>1. cv' = cv /\ seen' = seen /\ \E p \in {"leave", "out"} : pc' = [pc EXCEPT ![t] = p]
      BY <1>12, <2>1 DEF NotifyOneWakes, Notified
    <3>2. CvSleepers' = {}
      BY <1>0, <2>1, <3>1 DEF CvSleepers
    <3> QED BY <1>0, <3>1, <3>2 DEF CvInv
  <2>2. CASE CvSleepers # {}
    <3>1. PICK u \in CvSleepers : pc' = [pc EXCEPT ![t] = "one4", ![u] = "slow"]
      BY <1>12, <2>2 DEF NotifyOneWakes
    <3>2. u \in Threads /\ u # t /\ pc[t] = "one3" /\ cv' = cv /\ seen' = seen
      BY <1>12 DEF NotifyOneWakes, CvSleepers
    <3>3. pc'[t] = "one4" /\ \A x \in Threads : pc'[x] \in {"one4", "slow", pc[x]}
          /\ (pc[x] = "all3" => pc'[x] = "all3")
      BY <1>0, <3>1, <3>2 DEF CvSleepers
    <3> QED BY <2>2, <3>2, <3>3 DEF CvInv
  <2> QED BY <2>1, <2>2
<1>13. ASSUME NEW t \in Threads, Requeue(t) PROVE CvInv'
  <2>1. cv' = cv /\ seen' = seen
    BY <1>13 DEF Requeue
  <2>2. \A u \in Threads : pc'[u] \in {"leave", "out", "slow", "slowasleep"} \/
                           (pc'[u] = pc[u] /\ pc[u] # "cvasleep")
    BY <1>0, <1>13 DEF Requeue, CvSleepers, Notified
  <2>3. CvSleepers' = {}
    BY <2>2 DEF CvSleepers
  <2> QED BY <2>1, <2>2, <2>3 DEF CvInv
<1> QED BY <1>1, <1>2, <1>3, <1>4, <1>5, <1>6, <1>7, <1>8, <1>9, <1>10, <1>11, <1>12, <1>13
    DEF Next, Step

\* When producers notify with the lock held, every notification is heard: this is
\* what NoNotifyLost rests on, and what two notifications at once without the lock
\* would break.
THEOREM SimpleLockNotifies == ASSUME NotifyLocked PROVE Spec => NotifyHeard
<1> DEFINE Heard(t) ==
      NotifyOneStarts(t) \/ NotifyAllStarts(t) =>
       /\ CvSleepers # {} => pc'[t] \in {"one2", "all2"}
       /\ \A u \in Threads : pc[u] \in {"cvwake", "cvwait"} => seen[u] # cv'
<1>1. Init => IInv /\ CvInv
  BY IInvInit DEF Init, CvInv, CvWords, NoBits, CvSleepers
<1>2. IInv /\ CvInv /\ [Next]_vars => IInv' /\ CvInv'
  BY IInvStep, CvStep
<1>3. ASSUME IInv, CvInv, NEW t \in Threads PROVE Heard(t)
  <2> SUFFICES ASSUME NotifyOneStarts(t) \/ NotifyAllStarts(t)
               PROVE  /\ CvSleepers # {} => pc'[t] \in {"one2", "all2"}
                      /\ \A u \in Threads : pc[u] \in {"cvwake", "cvwait"} => seen[u] # cv'
    OBVIOUS
  <2>1. pc[t] \in {"one1", "all1"} /\ cv' = [cv EXCEPT !.seq = @ + 1]
    BY DEF NotifyOneStarts, NotifyAllStarts, Increment
  <2>2. \A u \in Threads : pc[u] \notin {"one3", "one4", "all3"}
    BY <1>3, <2>1 DEF IInv, Holding, Notifying
  <2>3. CvSleepers # {} => cv.one /\ cv.all
    BY <1>3, <2>2 DEF CvInv
  <2>4. CvSleepers # {} => pc'[t] \in {"one2", "all2"}
    BY <1>3, <2>3 DEF NotifyOneStarts, NotifyAllStarts, Go, IInv
  <2>5. cv'.seq = cv.seq + 1 /\ cv.seq \in Nat
    BY <1>3, <2>1 DEF CvInv, CvWords
  <2>6. ASSUME NEW u \in Threads, pc[u] \in {"cvwake", "cvwait"} PROVE seen[u] # cv'
    <3>1. seen[u].seq <= cv.seq /\ seen[u].seq \in Nat
      BY <1>3, <2>6 DEF CvInv, CvWords
    <3> QED BY <2>5, <3>1
  <2> QED BY <2>4, <2>6
<1>4. IInv /\ CvInv /\ [Next]_vars => [\A t \in Threads : Heard(t)]_vars
  BY <1>3
<1> QED BY <1>1, <1>2, <1>4, PTL DEF Spec, NotifyHeard
=============================================================================
