---------------------------- MODULE LocksProofs ----------------------------
(***************************************************************************)
(* Proofs about the mutex, the condition variable and the run queue.        *)
(*                                                                          *)
(* MutualExclusion needs no hypothesis on who resumes a suspended           *)
(* microthread: the lock loop looks at the owner again whenever it runs.    *)
(* The queues need one: with no one-shot kernel microthread, no signal and  *)
(* no process death (Kernel and Dying empty, MaxSignals 0) a microthread is *)
(* resumed by its wakers only, and then links are never doubled and wakeups *)
(* never lost.                                                              *)
(***************************************************************************)
EXTENDS Locks, Integers, TLAPS

-----------------------------------------------------------------------------
\* Mutual exclusion among microthreads.

\* What holding means: a microthread past mutex_lock is the owner, and the serve
\* loop has not taken the mutex.
Exclusion == TypeOK /\ MutualExclusion /\ ~bare

\* TypeOK of the parts that Acquire and Release change.
LEMMA AgainType ==
  ASSUME TypeOK, NEW m \in Mts
  PROVE  Again(m) \in Seq(Mts)
BY DEF TypeOK, Again

\* The head of a queue and what follows it are queues of microthreads.
LEMMA FirstRestType ==
  ASSUME NEW q \in Seq(Mts)
  PROVE  First(q) \in Seq(Mts) /\ Rest(q) \in Seq(Mts)
BY DEF First, Rest

\* Acquire keeps the types and the exclusion, whoever calls it.
LEMMA AcquireExclusion ==
  ASSUME TypeOK, MutualExclusion, NEW m \in Mts, NEW rq \in Seq(Mts), Acquire(m, rq)
  PROVE  /\ st' \in [Mts -> Places] /\ owner' \in Mts \cup {NoOne}
         /\ waiters' \in Seq(Mts) /\ runq' \in Seq(Mts) /\ fresh' \in SUBSET Kernel
         /\ \A k \in Mts : st'[k] = "hold" => owner' = k
<1>1. Again(m) \in Seq(Mts)
  BY AgainType
<1>2. CASE owner \in {NoOne, m}
  <2>1. owner' = m /\ st' = [st EXCEPT ![m] = "hold"] /\ runq' = rq
        /\ UNCHANGED <<waiters, fresh>>
    BY <1>2 DEF Acquire
  <2>2. \A k \in Mts : st'[k] = "hold" => owner' = k
    BY <1>2, <2>1, LocksAssumption DEF TypeOK, MutualExclusion
  <2> QED BY <2>1, <2>2 DEF TypeOK, Places
<1>3. CASE owner \notin {NoOne, m}
  <2>1. waiters' = Append(waiters, m) /\ st' = [st EXCEPT ![m] = "lock"]
        /\ runq' = rq \o Again(m) /\ fresh' = fresh \ {m} /\ owner' = owner
    BY <1>3 DEF Acquire
  <2>2. \A k \in Mts : st'[k] = "hold" => owner' = k
    BY <2>1 DEF TypeOK, MutualExclusion
  <2> QED BY <1>1, <2>1, <2>2 DEF TypeOK, Places
<1> QED BY <1>2, <1>3

\* Release by a holder that goes to place p keeps them too.
LEMMA ReleaseExclusion ==
  ASSUME TypeOK, MutualExclusion, NEW m \in Mts, st[m] = "hold",
         NEW after \in Seq(Mts), Release(after),
         NEW p \in Places \ {"hold"}, st' = [st EXCEPT ![m] = p]
  PROVE  /\ st' \in [Mts -> Places] /\ owner' \in Mts \cup {NoOne}
         /\ waiters' \in Seq(Mts) /\ runq' \in Seq(Mts)
         /\ \A k \in Mts : st'[k] # "hold"
<1>1. First(waiters) \in Seq(Mts) /\ Rest(waiters) \in Seq(Mts)
  BY FirstRestType DEF TypeOK
<1>2. owner' = NoOne /\ waiters' = Rest(waiters) /\ runq' = runq \o First(waiters) \o after
  BY DEF Release
<1>3. runq' \in Seq(Mts)
  BY <1>1, <1>2 DEF TypeOK
<1>4. \A k \in Mts : st'[k] # "hold"
  BY DEF TypeOK, MutualExclusion
<1> QED BY <1>1, <1>2, <1>3, <1>4 DEF TypeOK

\* Resuming a suspended microthread, by the run queue or by anybody else.
LEMMA ResumeExclusion ==
  ASSUME TypeOK, MutualExclusion, NEW m \in Mts, NEW rq \in Seq(Mts), Resume(m, rq)
  PROVE  /\ st' \in [Mts -> Places] /\ owner' \in Mts \cup {NoOne}
         /\ waiters' \in Seq(Mts) /\ runq' \in Seq(Mts) /\ fresh' \in SUBSET Kernel
         /\ \A k \in Mts : st'[k] = "hold" => owner' = k
<1>1. CASE Acquire(m, rq)
  BY <1>1, AcquireExclusion
<1>2. CASE ~Acquire(m, rq)
  BY <1>2 DEF Resume, TypeOK, MutualExclusion, Places
<1> QED BY <1>1, <1>2

\* At first nobody is past mutex_lock.
LEMMA ExclusionInit == ASSUME BareLoop = FALSE, Init PROVE Exclusion
<1>1. signals \in 0..MaxSignals
  BY LocksAssumption DEF Init
<1>2. bare \in BOOLEAN /\ fresh \in SUBSET Kernel /\ ~bare
  BY Zenon DEF Init
<1>3. \A m \in Mts : st[m] # "hold"
  BY DEF Init
<1> QED BY <1>1, <1>2, <1>3 DEF Init, Exclusion, TypeOK, MutualExclusion, Places

\* Every step keeps the exclusion, with one-shot microthreads, signals and
\* process deaths.
LEMMA ExclusionStep ==
  ASSUME BareLoop = FALSE, Exclusion, [Next]_vars
  PROVE  Exclusion'
<1> USE DEF Exclusion
<1>1. ASSUME NEW m \in Mts, Op(m) PROVE Exclusion'
  <2>1. Again(m) \in Seq(Mts) /\ <<>> \in Seq(Mts)
    BY AgainType
  <2>2. CASE xnu_sys_mutex_lock(m)
    <3>1. Acquire(m, runq) /\ UNCHANGED <<cv, asleep, signals, intr, bare>>
      BY <2>2 DEF xnu_sys_mutex_lock
    <3> QED BY <3>1, AcquireExclusion DEF TypeOK, MutualExclusion
  <2>3. CASE xnu_sys_mutex_try_lock(m)
    BY <2>3, LocksAssumption DEF xnu_sys_mutex_try_lock, TypeOK, MutualExclusion, Places
  <2>4. CASE xnu_sys_mutex_unlock(m)
    <3>1. Release(<<>>) /\ st[m] = "hold" /\ st' = [st EXCEPT ![m] = "out"]
          /\ UNCHANGED <<cv, asleep, fresh, signals, intr, bare>>
      BY <2>4 DEF xnu_sys_mutex_unlock
    <3>2. "out" \in Places \ {"hold"}
      BY DEF Places
    <3> QED BY <2>1, <3>1, <3>2, ReleaseExclusion DEF TypeOK, MutualExclusion
  <2>5. CASE xnu_sys_condvar_wait(m)
    <3>1. Release(Again(m)) /\ st[m] = "hold" /\ st' = [st EXCEPT ![m] = "cond"]
          /\ cv' = Append(cv, m) /\ fresh' = fresh \ {m}
          /\ UNCHANGED <<asleep, signals, intr, bare>>
      BY <2>5 DEF xnu_sys_condvar_wait
    <3>2. "cond" \in Places \ {"hold"}
      BY DEF Places
    <3>3. /\ st' \in [Mts -> Places] /\ owner' \in Mts \cup {NoOne}
          /\ waiters' \in Seq(Mts) /\ runq' \in Seq(Mts)
          /\ \A k \in Mts : st'[k] # "hold"
      BY <2>1, <3>1, <3>2, ReleaseExclusion
    <3>4. cv' \in Seq(Mts)
      BY <3>1 DEF TypeOK
    <3> QED BY <3>1, <3>3, <3>4 DEF TypeOK, MutualExclusion
  <2>6. ASSUME NEW unlock \in BOOLEAN, lck_mtx_sleep(m, unlock) PROVE Exclusion'
    <3> DEFINE p == IF unlock THEN "nap" ELSE "sleep"
    <3>1. Release(Again(m)) /\ st[m] = "hold" /\ st' = [st EXCEPT ![m] = p]
          /\ asleep' = asleep \cup {m} /\ fresh' = fresh \ {m}
          /\ UNCHANGED <<cv, signals, intr, bare>>
      BY <2>6 DEF lck_mtx_sleep
    <3>2. p \in Places \ {"hold"}
      BY DEF Places
    <3> HIDE DEF p
    <3> QED BY <2>1, <3>1, <3>2, ReleaseExclusion DEF TypeOK, MutualExclusion
  <2>7. CASE thread_unblock(m)
    BY <2>7 DEF thread_unblock, TypeOK, MutualExclusion
  <2> QED BY <1>1, <2>2, <2>3, <2>4, <2>5, <2>6, <2>7 DEF Op
<1>2. ASSUME NEW m \in Mts, Event(m) PROVE Exclusion'
  <2>1. CASE interrupt_enter(m)
    BY <2>1, LocksAssumption DEF interrupt_enter, TypeOK, MutualExclusion
  <2>2. CASE interrupt_exit(m)
    <3>1. Resume(m, runq) /\ intr' = intr \ {m} /\ UNCHANGED <<cv, asleep, signals, bare>>
      BY <2>2 DEF interrupt_exit
    <3> QED BY <3>1, ResumeExclusion DEF TypeOK, MutualExclusion
  <2>3. CASE discard_parked(m)
    BY <2>3 DEF discard_parked, TypeOK, MutualExclusion, Places
  <2> QED BY <1>2, <2>1, <2>2, <2>3 DEF Event
<1>3. ASSUME NEW n \in 1..Len(cv), xnu_sys_condvar_signal(n) PROVE Exclusion'
  <2>1. SubSeq(cv, n + 1, Len(cv)) \in Seq(Mts) /\ SubSeq(cv, 1, n) \in Seq(Mts)
    BY DEF TypeOK
  <2> QED BY <1>3, <2>1 DEF xnu_sys_condvar_signal, TypeOK, MutualExclusion
<1>4. CASE drain
  <2>1. Head(runq) \in Mts /\ Tail(runq) \in Seq(Mts)
    BY <1>4 DEF drain, TypeOK
  <2>2. CASE Resume(Head(runq), Tail(runq))
    BY <1>4, <2>1, <2>2, ResumeExclusion DEF drain, TypeOK, MutualExclusion
  <2>3. CASE ~Resume(Head(runq), Tail(runq))
    BY <1>4, <2>1, <2>3 DEF drain, TypeOK, MutualExclusion
  <2> QED BY <2>2, <2>3
<1>5. CASE UNCHANGED vars
  BY <1>5 DEF vars, TypeOK, MutualExclusion
<1> QED BY <1>1, <1>2, <1>3, <1>4, <1>5 DEF Next, BareLock

\* Mutual exclusion of the microthreads, for every set of microthreads and
\* whatever else resumes them, provided the serve loop takes no contended mutex.
THEOREM LocksExclusion ==
  ASSUME BareLoop = FALSE
  PROVE  Spec => []MutualExclusion
<1>1. Init => Exclusion
  BY ExclusionInit
<1>2. Exclusion /\ [Next]_vars => Exclusion'
  BY ExclusionStep
<1>3. Exclusion => MutualExclusion
  BY DEF Exclusion
<1> QED BY <1>1, <1>2, <1>3, PTL DEF Spec

-----------------------------------------------------------------------------
\* Queues: what joining, leaving and waking do to the elements of a queue.

\* Whoever joins the end of a queue is added to it, once.
LEMMA JoinTail ==
  ASSUME NEW S, NEW q \in Seq(S), NEW e \in S
  PROVE  /\ Elems(Append(q, e)) = Elems(q) \cup {e}
         /\ Distinct(q) /\ e \notin Elems(q) => Distinct(Append(q, e))
<1>1. /\ DOMAIN q = 1..Len(q) /\ Len(q) \in Nat
      /\ DOMAIN Append(q, e) = 1..(Len(q) + 1)
      /\ Append(q, e)[Len(q) + 1] = e
      /\ \A i \in 1..Len(q) : Append(q, e)[i] = q[i]
  OBVIOUS
<1>2. 1..(Len(q) + 1) = (1..Len(q)) \cup {Len(q) + 1}
  BY <1>1
<1>3. Elems(Append(q, e)) = Elems(q) \cup {e}
  BY <1>1, <1>2 DEF Elems
<1>4. ASSUME Distinct(q), e \notin Elems(q) PROVE Distinct(Append(q, e))
  BY <1>1, <1>2, <1>4 DEF Elems, Distinct
<1> QED BY <1>3, <1>4

\* The head that leaves a queue is not left in it.
LEMMA LeaveHead ==
  ASSUME NEW S, NEW q \in Seq(S), q # <<>>
  PROVE  /\ Elems(q) = {Head(q)} \cup Elems(Tail(q))
         /\ Distinct(q) => Distinct(Tail(q)) /\ Head(q) \notin Elems(Tail(q))
<1>1. /\ DOMAIN q = 1..Len(q) /\ Len(q) \in Nat \ {0}
      /\ Head(q) = q[1]
      /\ DOMAIN Tail(q) = 1..(Len(q) - 1)
      /\ \A i \in 1..(Len(q) - 1) : Tail(q)[i] = q[i + 1]
  OBVIOUS
<1>2. \A i \in 2..Len(q) : i - 1 \in 1..(Len(q) - 1) /\ q[i] = Tail(q)[i - 1]
  BY <1>1
<1>3. Elems(q) = {Head(q)} \cup Elems(Tail(q))
  <2>1. ASSUME NEW i \in 1..Len(q) PROVE q[i] \in {Head(q)} \cup Elems(Tail(q))
    <3>1. CASE i = 1
      BY <1>1, <3>1
    <3>2. CASE i # 1
      <4>1. i \in 2..Len(q)
        BY <1>1, <3>2
      <4> QED BY <1>1, <1>2, <4>1 DEF Elems
    <3> QED BY <3>1, <3>2
  <2>2. \A x \in {Head(q)} \cup Elems(Tail(q)) : x \in Elems(q)
    BY <1>1 DEF Elems
  <2> QED BY <1>1, <2>1, <2>2 DEF Elems
<1>4. ASSUME Distinct(q) PROVE Distinct(Tail(q)) /\ Head(q) \notin Elems(Tail(q))
  BY <1>1, <1>4 DEF Elems, Distinct
<1> QED BY <1>3, <1>4

\* Two queues put together hold what both held.
LEMMA JoinAll ==
  ASSUME NEW S, NEW p \in Seq(S), NEW q \in Seq(S)
  PROVE  /\ Elems(p \o q) = Elems(p) \cup Elems(q)
         /\ Distinct(p) /\ Distinct(q) /\ Elems(p) \cap Elems(q) = {} => Distinct(p \o q)
<1>1. /\ DOMAIN p = 1..Len(p) /\ DOMAIN q = 1..Len(q) /\ Len(p) \in Nat /\ Len(q) \in Nat
      /\ DOMAIN (p \o q) = 1..(Len(p) + Len(q))
      /\ \A i \in 1..Len(p) : (p \o q)[i] = p[i]
      /\ \A i \in (Len(p) + 1)..(Len(p) + Len(q)) : (p \o q)[i] = q[i - Len(p)]
  OBVIOUS
<1>2. \A j \in 1..Len(q) : j + Len(p) \in (Len(p) + 1)..(Len(p) + Len(q))
                           /\ q[j] = (p \o q)[j + Len(p)]
  <2> SUFFICES ASSUME NEW j \in 1..Len(q)
               PROVE  /\ j + Len(p) \in (Len(p) + 1)..(Len(p) + Len(q))
                      /\ q[j] = (p \o q)[j + Len(p)]
    OBVIOUS
  <2>1. /\ j + Len(p) \in (Len(p) + 1)..(Len(p) + Len(q))
        /\ (j + Len(p)) - Len(p) = j
    BY <1>1
  <2> QED BY <1>1, <2>1
<1>3. ASSUME NEW i \in 1..(Len(p) + Len(q)), i \notin 1..Len(p)
      PROVE  i \in (Len(p) + 1)..(Len(p) + Len(q)) /\ i - Len(p) \in 1..Len(q)
  <2>1. i \in Int /\ 1 <= i /\ i <= Len(p) + Len(q) /\ ~(i <= Len(p))
    BY <1>1, <1>3
  <2>2. i \in (Len(p) + 1)..(Len(p) + Len(q))
    BY <1>1, <2>1
  <2>3. i - Len(p) \in 1..Len(q)
    BY <1>1, <2>1
  <2> QED BY <2>2, <2>3
<1>4. Elems(p \o q) = Elems(p) \cup Elems(q)
  <2>1. \A i \in 1..(Len(p) + Len(q)) : (p \o q)[i] \in Elems(p) \cup Elems(q)
    BY <1>1, <1>3 DEF Elems
  <2>2. \A i \in 1..Len(p) : p[i] \in Elems(p \o q)
    BY <1>1 DEF Elems
  <2>3. \A j \in 1..Len(q) : q[j] \in Elems(p \o q)
    <3> SUFFICES ASSUME NEW j \in 1..Len(q) PROVE q[j] \in Elems(p \o q)
      OBVIOUS
    <3>1. j + Len(p) \in 1..(Len(p) + Len(q))
      BY <1>1
    <3> QED BY <1>1, <1>2, <3>1 DEF Elems
  <2> QED BY <1>1, <2>1, <2>2, <2>3 DEF Elems
<1>5. ASSUME Distinct(p), Distinct(q), Elems(p) \cap Elems(q) = {}
      PROVE  Distinct(p \o q)
  <2> SUFFICES ASSUME NEW i \in 1..(Len(p) + Len(q)), NEW j \in 1..(Len(p) + Len(q)),
                      (p \o q)[i] = (p \o q)[j]
               PROVE  i = j
    BY <1>1 DEF Distinct
  <2>1. CASE i \in 1..Len(p) /\ j \in 1..Len(p)
    BY <1>1, <1>5, <2>1 DEF Distinct
  <2>2. CASE i \notin 1..Len(p) /\ j \notin 1..Len(p)
    <3>1. i - Len(p) \in 1..Len(q) /\ j - Len(p) \in 1..Len(q)
      BY <1>3, <2>2
    <3>2. q[i - Len(p)] = q[j - Len(p)]
      BY <1>1, <1>3, <2>2
    <3>3. i - Len(p) = j - Len(p)
      BY <1>1, <1>5, <3>1, <3>2 DEF Distinct
    <3> QED BY <1>1, <3>3
  <2>3. ASSUME NEW k \in 1..Len(p), NEW l \in 1..(Len(p) + Len(q)), l \notin 1..Len(p)
        PROVE  (p \o q)[k] # (p \o q)[l]
    <3>1. (p \o q)[k] \in Elems(p)
      BY <1>1 DEF Elems
    <3>2. l - Len(p) \in 1..Len(q) /\ (p \o q)[l] = q[l - Len(p)]
      BY <1>1, <1>3, <2>3
    <3>3. (p \o q)[l] \in Elems(q)
      BY <1>1, <3>2 DEF Elems
    <3> QED BY <1>5, <3>1, <3>3
  <2> QED BY <2>1, <2>2, <2>3
<1> QED BY <1>4, <1>5

\* A queue cut in two, as a wakeup of the first n does.
LEMMA Cut ==
  ASSUME NEW S, NEW q \in Seq(S), NEW n \in 1..Len(q)
  PROVE  LET p == SubSeq(q, 1, n)
             r == SubSeq(q, n + 1, Len(q))
         IN /\ p \in Seq(S) /\ r \in Seq(S)
            /\ Elems(q) = Elems(p) \cup Elems(r)
            /\ Distinct(q) => Distinct(p) /\ Distinct(r) /\ Elems(p) \cap Elems(r) = {}
<1> DEFINE p == SubSeq(q, 1, n)
           r == SubSeq(q, n + 1, Len(q))
<1>1. /\ DOMAIN q = 1..Len(q) /\ Len(q) \in Nat /\ n \in Nat
      /\ p \in Seq(S) /\ r \in Seq(S)
      /\ DOMAIN p = 1..n /\ DOMAIN r = 1..(Len(q) - n)
      /\ \A i \in 1..n : p[i] = q[i]
      /\ \A i \in 1..(Len(q) - n) : r[i] = q[i + n]
  OBVIOUS
<1> HIDE DEF p, r
<1>2. ASSUME NEW i \in 1..Len(q) PROVE q[i] \in Elems(p) \cup Elems(r)
  <2>1. CASE i <= n
    <3>1. i \in 1..n /\ p[i] = q[i]
      BY <1>1, <2>1
    <3> QED BY <1>1, <3>1 DEF Elems
  <2>2. CASE ~(i <= n)
    <3>1. i - n \in 1..(Len(q) - n) /\ (i - n) + n = i
      BY <1>1, <2>2
    <3>2. r[i - n] = q[i]
      BY <1>1, <3>1
    <3> QED BY <1>1, <3>1, <3>2 DEF Elems
  <2> QED BY <2>1, <2>2
<1>3. Elems(q) = Elems(p) \cup Elems(r)
  <2>1. ASSUME NEW i \in 1..n PROVE p[i] \in Elems(q)
    <3>1. i \in 1..Len(q) /\ p[i] = q[i]
      BY <1>1
    <3> QED BY <1>1, <3>1 DEF Elems
  <2>2. ASSUME NEW i \in 1..(Len(q) - n) PROVE r[i] \in Elems(q)
    <3>1. i + n \in 1..Len(q) /\ r[i] = q[i + n]
      BY <1>1
    <3> QED BY <1>1, <3>1 DEF Elems
  <2> QED BY <1>1, <1>2, <2>1, <2>2 DEF Elems
<1>4. ASSUME Distinct(q) PROVE Distinct(p) /\ Distinct(r) /\ Elems(p) \cap Elems(r) = {}
  <2>1. \A i \in 1..n : i \in 1..Len(q)
    BY <1>1
  <2>2. \A i \in 1..(Len(q) - n) : i + n \in 1..Len(q) /\ i + n \notin 1..n
    BY <1>1
  <2>3. Distinct(p)
    BY <1>1, <1>4, <2>1 DEF Distinct
  <2>4. Distinct(r)
    <3> SUFFICES ASSUME NEW i \in 1..(Len(q) - n), NEW j \in 1..(Len(q) - n), r[i] = r[j]
                 PROVE  i = j
      BY <1>1 DEF Distinct
    <3>1. i + n = j + n
      BY <1>1, <1>4, <2>2 DEF Distinct
    <3> QED BY <1>1, <3>1
  <2>5. \A i \in 1..n, j \in 1..(Len(q) - n) : p[i] # r[j]
    BY <1>1, <1>4, <2>1, <2>2 DEF Distinct
  <2> QED BY <1>1, <2>3, <2>4, <2>5 DEF Elems
<1> QED BY <1>1, <1>3, <1>4 DEF p, r

-----------------------------------------------------------------------------
\* The queues, when only wakers resume a microthread.

IInv ==
  /\ TypeOK /\ MutualExclusion /\ LinkedOnce /\ NoLostWakeup /\ FreeMeansWoken
  /\ QueuedSuspended /\ ScheduledOnce /\ OwnerHolds /\ Undisturbed

Quiet == BareLoop = FALSE /\ Kernel = {} /\ Dying = {} /\ MaxSignals = 0

\* Undisturbed, nobody is resumed but by its waker.
LEMMA AgainEmpty == ASSUME Undisturbed, NEW m PROVE Again(m) = <<>>
BY DEF Undisturbed, Again

\* The waiter an unlock wakes moves from the queue to the run queue.
Woken == IF waiters = <<>> THEN {} ELSE {Head(waiters)}

\* An unlock moves the waiter it wakes to the run queue and frees the mutex.
LEMMA ReleaseMoves ==
  ASSUME IInv, Release(<<>>)
  PROVE  /\ owner' = NoOne
         /\ Woken \subseteq Elems(waiters)
         /\ Elems(waiters) # {} => Woken # {}
         /\ Elems(waiters') = Elems(waiters) \ Woken
         /\ Elems(runq') = Elems(runq) \cup Woken
         /\ Distinct(waiters') /\ Distinct(runq')
<1>1. waiters \in Seq(Mts) /\ runq \in Seq(Mts) /\ Distinct(waiters) /\ Distinct(runq)
      /\ Elems(runq) \cap Elems(waiters) = {}
  BY DEF IInv, TypeOK, LinkedOnce, ScheduledOnce
<1>2. CASE waiters = <<>>
  <2>1. waiters' = waiters /\ runq' = runq /\ owner' = NoOne
    BY <1>1, <1>2 DEF Release, First, Rest
  <2>2. Elems(waiters) = {} /\ Woken = {}
    BY <1>2 DEF Elems, Woken
  <2> QED BY <1>1, <2>1, <2>2
<1>3. CASE waiters # <<>>
  <2>1. Head(waiters) \in Mts /\ Tail(waiters) \in Seq(Mts)
    BY <1>1, <1>3
  <2>2. waiters' = Tail(waiters) /\ runq' = Append(runq, Head(waiters)) /\ owner' = NoOne
    BY <1>1, <1>3, <2>1 DEF Release, First, Rest
  <2>3. /\ Elems(waiters) = {Head(waiters)} \cup Elems(Tail(waiters))
        /\ Distinct(Tail(waiters)) /\ Head(waiters) \notin Elems(Tail(waiters))
    BY <1>1, <1>3, LeaveHead
  <2>4. /\ Elems(runq') = Elems(runq) \cup {Head(waiters)}
        /\ Distinct(runq')
    BY <1>1, <2>1, <2>2, <2>3, JoinTail
  <2>5. Woken = {Head(waiters)}
    BY <1>3 DEF Woken
  <2> QED BY <2>2, <2>3, <2>4, <2>5
<1> QED BY <1>2, <1>3

\* The invariant holds at first.
LEMMA IInvInit == ASSUME Quiet, Init PROVE IInv
<1>1. Exclusion
  BY ExclusionInit DEF Quiet
<1>2. Elems(waiters) = {} /\ Elems(cv) = {} /\ Elems(runq) = {}
      /\ Distinct(waiters) /\ Distinct(cv) /\ Distinct(runq)
  BY DEF Init, Elems, Distinct
<1>3. \A m \in Mts : st[m] = "out"
  BY DEF Init
<1>4. fresh = {} /\ intr = {} /\ ~bare /\ asleep = {} /\ owner = NoOne
  BY DEF Init, Quiet
<1>5. TypeOK /\ MutualExclusion
  BY <1>1 DEF Exclusion
<1> QED
  BY <1>2, <1>3, <1>4, <1>5 DEF IInv, LinkedOnce, NoLostWakeup, FreeMeansWoken,
     QueuedSuspended, ScheduledOnce, OwnerHolds, Undisturbed

\* m leaves the mutex for place p: unlock, or the first half of a wait.
LEMMA ReleaseStep ==
  ASSUME IInv, Exclusion', Undisturbed', NEW m \in Mts, st[m] = "hold", Release(<<>>),
         NEW p \in {"out", "cond", "sleep", "nap"}, st' = [st EXCEPT ![m] = p],
         Distinct(cv'), Elems(cv') = IF p = "cond" THEN Elems(cv) \cup {m} ELSE Elems(cv),
         asleep' = IF p \in {"sleep", "nap"} THEN asleep \cup {m} ELSE asleep
  PROVE  IInv'
<1>1. /\ owner' = NoOne
      /\ Woken \subseteq Elems(waiters)
      /\ Elems(waiters) # {} => Woken # {}
      /\ Elems(waiters') = Elems(waiters) \ Woken
      /\ Elems(runq') = Elems(runq) \cup Woken
      /\ Distinct(waiters') /\ Distinct(runq')
  BY ReleaseMoves
<1>2. /\ st'[m] = p
      /\ \A k \in Mts \ {m} : st'[k] = st[k]
  BY DEF IInv, TypeOK
<1>3. m \notin Elems(waiters) \cup Elems(cv) \cup Elems(runq) \cup asleep
  BY DEF IInv, QueuedSuspended, Suspended
<1>4. Elems(waiters) \subseteq Mts /\ Elems(cv) \subseteq Mts /\ Elems(runq) \subseteq Mts
      /\ asleep \subseteq Mts
  BY DEF IInv, TypeOK, Elems
<1>5. LinkedOnce'
  BY <1>1, <1>3 DEF IInv, LinkedOnce
<1>6. QueuedSuspended'
  BY <1>1, <1>2, <1>3, <1>4 DEF IInv, QueuedSuspended, Suspended
<1>7. ScheduledOnce'
  BY <1>1, <1>3, <1>4 DEF IInv, ScheduledOnce, LinkedOnce, QueuedSuspended
<1>8. NoLostWakeup'
  BY <1>1, <1>2, <1>4 DEF IInv, NoLostWakeup, Undisturbed
<1>9. FreeMeansWoken'
  BY <1>1, <1>2, <1>3, <1>4 DEF IInv, NoLostWakeup, QueuedSuspended, Relocking, FreeMeansWoken
<1>10. OwnerHolds'
  BY <1>1 DEF OwnerHolds
<1> QED BY <1>5, <1>6, <1>7, <1>8, <1>9, <1>10 DEF IInv, Exclusion

\* m, on no queue, tries to take the mutex: mutex_lock, or a resumed waiter.
LEMMA AcquireStep ==
  ASSUME IInv, Exclusion', Undisturbed', NEW m \in Mts, NEW rq \in Seq(Mts), Acquire(m, rq),
         Elems(rq) = Elems(runq) \ {m}, Distinct(rq), UNCHANGED <<cv, asleep>>,
         st[m] \in {"out"} \cup Relocking,
         m \notin Elems(waiters) \cup Elems(cv) \cup asleep
  PROVE  IInv'
<1>1. runq' = rq /\ \A k \in Mts \ {m} : st'[k] = st[k]
  <2>1. Again(m) = <<>> /\ rq \o <<>> = rq
    BY AgainEmpty DEF IInv
  <2>2. runq' = rq
    BY <2>1 DEF Acquire
  <2>3. \A k \in Mts \ {m} : st'[k] = st[k]
    BY DEF Acquire, IInv, TypeOK
  <2> QED BY <2>2, <2>3
<1>2. Elems(waiters) \subseteq Mts /\ Elems(cv) \subseteq Mts /\ Elems(runq) \subseteq Mts
      /\ asleep \subseteq Mts
  BY DEF IInv, TypeOK, Elems
<1>3. CASE owner \in {NoOne, m}
  <2>1. owner' = m /\ st'[m] = "hold" /\ waiters' = waiters
    BY <1>3 DEF Acquire, IInv, TypeOK
  <2>2. LinkedOnce'
    BY <2>1 DEF IInv, LinkedOnce
  <2>3. QueuedSuspended'
    BY <1>1, <1>2, <2>1 DEF IInv, QueuedSuspended
  <2>4. ScheduledOnce'
    BY <1>1, <2>1 DEF IInv, ScheduledOnce
  <2>5. NoLostWakeup'
    BY <1>1, <1>2, <2>1 DEF IInv, NoLostWakeup, Undisturbed
  <2>6. FreeMeansWoken' /\ OwnerHolds'
    BY <2>1, LocksAssumption DEF FreeMeansWoken, OwnerHolds
  <2> QED BY <2>2, <2>3, <2>4, <2>5, <2>6 DEF IInv, Exclusion
<1>4. CASE owner \notin {NoOne, m}
  <2>1. owner' = owner /\ st'[m] = "lock" /\ waiters' = Append(waiters, m)
    BY <1>4 DEF Acquire, IInv, TypeOK
  <2>2. Elems(waiters') = Elems(waiters) \cup {m} /\ Distinct(waiters')
    BY <2>1, JoinTail DEF IInv, TypeOK, LinkedOnce
  <2>3. LinkedOnce'
    BY <2>2 DEF IInv, LinkedOnce
  <2>4. QueuedSuspended'
    BY <1>1, <1>2, <2>1, <2>2 DEF IInv, QueuedSuspended
  <2>5. ScheduledOnce'
    BY <1>1, <2>2 DEF IInv, ScheduledOnce
  <2>6. NoLostWakeup'
    BY <1>1, <1>2, <2>1, <2>2 DEF IInv, NoLostWakeup, Undisturbed
  <2>7. FreeMeansWoken'
    BY <1>4, <2>1 DEF FreeMeansWoken
  <2>8. OwnerHolds'
    BY <1>1, <1>4, <2>1 DEF IInv, TypeOK, OwnerHolds
  <2> QED BY <2>3, <2>4, <2>5, <2>6, <2>7, <2>8 DEF IInv, Exclusion
<1> QED BY <1>3, <1>4

\* Every step of microthreads and loop keeps the invariant.
LEMMA IInvStep ==
  ASSUME Quiet, IInv, [Next]_vars
  PROVE  IInv'
<1>1. Exclusion'
  BY ExclusionStep DEF Quiet, IInv, Exclusion, Undisturbed
<1>2. Undisturbed'
  <2>1. fresh' = {} /\ ~bare'
    BY <1>1 DEF Quiet, Exclusion, TypeOK
  <2>2. \A m \in Mts : ~interrupt_enter(m)
    BY DEF Quiet, interrupt_enter, IInv, TypeOK
  <2>3. intr' = {}
    BY <2>2 DEF IInv, Undisturbed, Next, Op, Event, vars, xnu_sys_mutex_lock,
       xnu_sys_mutex_try_lock, xnu_sys_mutex_unlock, xnu_sys_condvar_wait,
       xnu_sys_condvar_signal, lck_mtx_sleep, thread_unblock, drain, interrupt_exit,
       discard_parked, BareLock, BareUnlock
  <2> QED BY <2>1, <2>3 DEF Undisturbed
<1>3. ASSUME NEW m \in Mts PROVE Again(m) = <<>>
  BY AgainEmpty DEF IInv
<1>4. Elems(waiters) \subseteq Mts /\ Elems(cv) \subseteq Mts /\ Elems(runq) \subseteq Mts
      /\ asleep \subseteq Mts
  BY DEF IInv, TypeOK, Elems
<1>5. ASSUME NEW m \in Mts, xnu_sys_mutex_lock(m) PROVE IInv'
  <2>1. m \notin Elems(waiters) \cup Elems(cv) \cup asleep \cup Elems(runq)
    BY <1>5 DEF xnu_sys_mutex_lock, IInv, QueuedSuspended, Suspended
  <2>2. runq \in Seq(Mts) /\ Elems(runq) = Elems(runq) \ {m} /\ Distinct(runq)
    BY <2>1 DEF IInv, TypeOK, ScheduledOnce
  <2> QED BY <1>1, <1>2, <1>5, <2>1, <2>2, AcquireStep DEF xnu_sys_mutex_lock
<1>6. ASSUME NEW m \in Mts, xnu_sys_mutex_try_lock(m) PROVE IInv'
  <2>1. m \notin Elems(waiters) \cup Elems(cv) \cup asleep \cup Elems(runq)
    BY <1>6 DEF xnu_sys_mutex_try_lock, IInv, QueuedSuspended, Suspended
  <2>2. runq \in Seq(Mts) /\ Elems(runq) = Elems(runq) \ {m} /\ Distinct(runq)
    BY <2>1 DEF IInv, TypeOK, ScheduledOnce
  <2>3. Acquire(m, runq)
    BY <1>6 DEF xnu_sys_mutex_try_lock, Acquire
  <2> QED BY <1>1, <1>2, <1>6, <2>1, <2>2, <2>3, AcquireStep DEF xnu_sys_mutex_try_lock
<1>7. ASSUME NEW m \in Mts, xnu_sys_mutex_unlock(m) PROVE IInv'
  <2>1. Distinct(cv)
    BY DEF IInv, LinkedOnce
  <2>2. st[m] = "hold" /\ Release(<<>>) /\ st' = [st EXCEPT ![m] = "out"]
        /\ cv' = cv /\ asleep' = asleep
    BY <1>7 DEF xnu_sys_mutex_unlock
  <2> QED BY <1>1, <1>2, <2>1, <2>2, ReleaseStep
<1>8. ASSUME NEW m \in Mts, xnu_sys_condvar_wait(m) PROVE IInv'
  <2>1. st[m] = "hold" /\ Release(<<>>) /\ st' = [st EXCEPT ![m] = "cond"]
        /\ cv' = Append(cv, m) /\ asleep' = asleep
    BY <1>3, <1>8 DEF xnu_sys_condvar_wait
  <2>2. m \notin Elems(cv)
    BY <2>1 DEF IInv, QueuedSuspended
  <2>3. Elems(cv') = Elems(cv) \cup {m} /\ Distinct(cv')
    BY <2>1, <2>2, JoinTail DEF IInv, TypeOK, LinkedOnce
  <2> QED BY <1>1, <1>2, <2>1, <2>3, ReleaseStep
<1>9. ASSUME NEW m \in Mts, NEW unlock \in BOOLEAN, lck_mtx_sleep(m, unlock) PROVE IInv'
  <2> DEFINE p == IF unlock THEN "nap" ELSE "sleep"
  <2>1. st[m] = "hold" /\ Release(<<>>) /\ st' = [st EXCEPT ![m] = p]
        /\ cv' = cv /\ asleep' = asleep \cup {m}
    BY <1>3, <1>9 DEF lck_mtx_sleep
  <2>2. p \in {"sleep", "nap"} /\ Distinct(cv)
    BY DEF IInv, LinkedOnce
  <2> HIDE DEF p
  <2>3. p # "cond" /\ p \in {"out", "cond", "sleep", "nap"}
    BY <2>2
  <2> QED BY <1>1, <1>2, <2>1, <2>2, <2>3, ReleaseStep
<1>10. ASSUME NEW m \in Mts, thread_unblock(m) PROVE IInv'
  <2>1. m \in asleep /\ asleep' = asleep \ {m} /\ runq' = Append(runq, m)
        /\ UNCHANGED <<st, owner, waiters, cv>>
    BY <1>10 DEF thread_unblock
  <2>2. Elems(runq') = Elems(runq) \cup {m} /\ Distinct(runq')
    BY <2>1, JoinTail DEF IInv, TypeOK, ScheduledOnce
  <2>3. LinkedOnce' /\ OwnerHolds'
    BY <2>1 DEF IInv, LinkedOnce, OwnerHolds
  <2>4. QueuedSuspended'
    BY <2>1, <2>2 DEF IInv, QueuedSuspended, Suspended
  <2>5. ScheduledOnce'
    BY <2>1, <2>2 DEF IInv, ScheduledOnce, QueuedSuspended
  <2>6. NoLostWakeup'
    BY <1>2, <2>1, <2>2 DEF IInv, NoLostWakeup, Undisturbed
  <2>7. FreeMeansWoken'
    BY <2>1, <2>2 DEF IInv, FreeMeansWoken
  <2> QED BY <1>1, <1>2, <2>3, <2>4, <2>5, <2>6, <2>7 DEF IInv, Exclusion
<1>11. ASSUME NEW n \in 1..Len(cv), xnu_sys_condvar_signal(n) PROVE IInv'
  <2> DEFINE p == SubSeq(cv, 1, n)
             r == SubSeq(cv, n + 1, Len(cv))
  <2>1. cv \in Seq(Mts) /\ runq \in Seq(Mts) /\ Distinct(cv) /\ Distinct(runq)
        /\ Elems(runq) \cap Elems(cv) = {}
    BY DEF IInv, TypeOK, LinkedOnce, ScheduledOnce
  <2>2. /\ p \in Seq(Mts) /\ r \in Seq(Mts) /\ Elems(cv) = Elems(p) \cup Elems(r)
        /\ Distinct(p) /\ Distinct(r) /\ Elems(p) \cap Elems(r) = {}
    BY <2>1, Cut
  <2>3. cv' = r /\ runq' = runq \o p /\ UNCHANGED <<st, owner, waiters, asleep>>
    BY <1>11 DEF xnu_sys_condvar_signal
  <2> HIDE DEF p, r
  <2>4. Elems(runq') = Elems(runq) \cup Elems(p) /\ Distinct(runq')
    BY <2>1, <2>2, <2>3, JoinAll
  <2>5. LinkedOnce' /\ OwnerHolds'
    BY <2>2, <2>3 DEF IInv, LinkedOnce, OwnerHolds
  <2>6. QueuedSuspended'
    BY <2>2, <2>3, <2>4 DEF IInv, QueuedSuspended, Suspended
  <2>7. ScheduledOnce'
    BY <2>2, <2>3, <2>4 DEF IInv, ScheduledOnce, LinkedOnce, QueuedSuspended
  <2>8. NoLostWakeup'
    BY <1>2, <2>2, <2>3, <2>4 DEF IInv, NoLostWakeup, Undisturbed
  <2>9. FreeMeansWoken'
    BY <2>3, <2>4 DEF IInv, FreeMeansWoken
  <2> QED BY <1>1, <1>2, <2>5, <2>6, <2>7, <2>8, <2>9 DEF IInv, Exclusion
<1>12. CASE drain
  <2> DEFINE m == Head(runq)
  <2>1. /\ runq # <<>> /\ runq \in Seq(Mts) /\ m \in Mts /\ Tail(runq) \in Seq(Mts)
        /\ Resume(m, Tail(runq)) /\ UNCHANGED <<cv, asleep>>
    BY <1>12 DEF drain, IInv, TypeOK, Undisturbed
  <2>2. /\ Elems(runq) = {m} \cup Elems(Tail(runq)) /\ Distinct(Tail(runq))
        /\ m \notin Elems(Tail(runq))
    BY <2>1, LeaveHead DEF IInv, ScheduledOnce
  <2> HIDE DEF m
  <2>3. m \notin Elems(waiters) \cup Elems(cv) \cup asleep /\ st[m] \in Suspended
    BY <2>2 DEF IInv, ScheduledOnce, QueuedSuspended
  <2>4. CASE st[m] \in Relocking
    <3>1. Acquire(m, Tail(runq))
      BY <2>1, <2>4 DEF Resume, Relocking, Suspended
    <3>2. Elems(Tail(runq)) = Elems(runq) \ {m}
      BY <2>2
    <3> QED BY <1>1, <1>2, <2>1, <2>2, <2>3, <2>4, <3>1, <3>2, AcquireStep
  <2>5. CASE st[m] = "nap"
    <3>1. /\ runq' = Tail(runq) /\ owner' = owner /\ waiters' = waiters
          /\ st' = [st EXCEPT ![m] = "out"]
      BY <2>1, <2>5 DEF Resume, Relocking, Suspended
    <3>2. st'[m] = "out" /\ \A k \in Mts \ {m} : st'[k] = st[k]
      BY <2>1, <3>1 DEF IInv, TypeOK
    <3>3. LinkedOnce'
      BY <2>1, <3>1 DEF IInv, LinkedOnce
    <3>4. OwnerHolds'
      BY <2>5, <3>1, <3>2 DEF IInv, TypeOK, OwnerHolds
    <3>5. QueuedSuspended'
      BY <1>4, <2>1, <2>2, <2>3, <3>1, <3>2 DEF IInv, QueuedSuspended
    <3>6. ScheduledOnce'
      BY <2>1, <2>2, <3>1 DEF IInv, ScheduledOnce
    <3>7. NoLostWakeup'
      BY <1>2, <2>1, <2>2, <3>1, <3>2 DEF IInv, NoLostWakeup, Undisturbed
    <3>8. FreeMeansWoken'
      BY <1>4, <2>2, <2>5, <3>1, <3>2 DEF IInv, FreeMeansWoken, Relocking
    <3> QED BY <1>1, <1>2, <3>3, <3>4, <3>5, <3>6, <3>7, <3>8 DEF IInv, Exclusion
  <2> QED BY <2>3, <2>4, <2>5 DEF Suspended, Relocking
<1>13. CASE UNCHANGED vars
  BY <1>13 DEF vars, IInv, TypeOK, MutualExclusion, LinkedOnce, NoLostWakeup, FreeMeansWoken,
     QueuedSuspended, ScheduledOnce, OwnerHolds, Undisturbed
<1>14. ASSUME NEW m \in Mts PROVE ~Event(m)
  BY DEF Quiet, IInv, TypeOK, Undisturbed, Event, interrupt_enter, interrupt_exit,
     discard_parked
<1>15. ~BareLock /\ ~bare
  BY DEF Quiet, IInv, Undisturbed, BareLock
<1> QED
  BY <1>5, <1>6, <1>7, <1>8, <1>9, <1>10, <1>11, <1>12, <1>13, <1>14, <1>15 DEF Next, Op

\* With no stray resumption, for every set of microthreads: a mutex_link is on at
\* most one queue and once, no suspended microthread is lost, and a free mutex
\* with waiters has been handed to a scheduled one.
THEOREM LocksQueues ==
  ASSUME BareLoop = FALSE, Kernel = {}, Dying = {}, MaxSignals = 0
  PROVE  Spec => [](LinkedOnce /\ NoLostWakeup /\ FreeMeansWoken)
<1> USE DEF Quiet
<1>1. Init => IInv
  BY IInvInit
<1>2. IInv /\ [Next]_vars => IInv'
  BY IInvStep
<1>3. IInv => LinkedOnce /\ NoLostWakeup /\ FreeMeansWoken
  BY DEF IInv
<1> QED BY <1>1, <1>2, <1>3, PTL DEF Spec

\* FreeMeansWoken under the same conditions: lck_mtx_unlock leaves no mutex free
\* with waiters unless one of them is scheduled and will look at it.
THEOREM LocksFreeMeansWoken ==
  ASSUME BareLoop = FALSE, Kernel = {}, Dying = {}, MaxSignals = 0
  PROVE  Spec => []FreeMeansWoken
BY LocksQueues, PTL
=============================================================================
