------------------------------- MODULE Locks -------------------------------
(***************************************************************************)
(* The mutex and condition variable that XNU's locks are built on, and the  *)
(* run queue that wakes their waiters.  A waiter puts its mutex_link on an  *)
(* intrusive queue and suspends its microthread; a waker takes the link off *)
(* and schedules the microthread, which runs when the queue is drained.     *)
(*                                                                          *)
(* One mutex, one condition variable used with it, and one event to sleep   *)
(* on.  A microthread gives up the OS thread only where it suspends, so     *)
(* each operation is one step up to its next suspension.  A queue is the    *)
(* sequence its links form; what a corrupted list does is not modelled, the *)
(* properties say that none gets corrupted.                                 *)
(***************************************************************************)
EXTENDS Naturals, Sequences, FiniteSets

CONSTANTS
  Mts,        \* microthreads
  NoOne,      \* xnu_sys_owner of a free mutex
  Kernel,     \* the ones started by run_on_task or timer_fired
  Dying,      \* the ones whose guest process may die
  MaxSignals, \* bound: signals that interrupt a suspended microthread
  BareLoop    \* whether the serve loop itself takes the mutex

ASSUME LocksAssumption ==
  /\ NoOne \notin Mts
  /\ Kernel \subseteq Mts /\ Dying \subseteq Mts /\ MaxSignals \in Nat
  /\ BareLoop \in BOOLEAN

VARIABLES
  st,       \* where each microthread is
  owner,    \* xnu_sys_owner
  waiters,  \* the mutex's queue_head
  cv,       \* the condition variable's queue_head
  asleep,   \* microthreads on the wait queue of the event
  runq,     \* RUN_QUEUE
  fresh,    \* Kernel microthreads that have not suspended yet
  signals,  \* signals so far
  intr,     \* suspended microthreads with a signal handler's activation on top
  bare      \* the serve loop holds the mutex

vars == <<st, owner, waiters, cv, asleep, runq, fresh, signals, intr, bare>>

\* Not in an operation, holding the mutex, suspended in mutex_lock, in
\* condvar_wait, in lck_mtx_sleep (to lock again or not), or freed.
Places == {"out", "hold", "lock", "cond", "sleep", "nap", "gone"}
Suspended == {"lock", "cond", "sleep", "nap"}
Relocking == {"lock", "cond", "sleep"}

Elems(q) == {q[i] : i \in DOMAIN q}

-----------------------------------------------------------------------------
\* run_on_task and timer_fired schedule a microthread whose first run ended in
\* a suspension.
Again(m) == IF m \in fresh THEN <<m>> ELSE <<>>

\* Mutant: a woken waiter takes the mutex without looking at its owner.
AcquireUnchecked(m, rq) ==
  /\ owner' = m
  /\ st' = [st EXCEPT ![m] = "hold"]
  /\ runq' = rq
  /\ UNCHANGED <<waiters, fresh>>

\* One round of the loop of xnu_sys_mutex_lock by m, rq being the run queue:
\* take a free mutex, or join the queue and suspend.
Acquire(m, rq) ==
  \/ /\ owner \in {NoOne, m}
     /\ owner' = m
     /\ st' = [st EXCEPT ![m] = "hold"]
     /\ runq' = rq
     /\ UNCHANGED <<waiters, fresh>>
  \/ /\ owner \notin {NoOne, m}
     /\ waiters' = Append(waiters, m)
     /\ st' = [st EXCEPT ![m] = "lock"]
     /\ runq' = rq \o Again(m)
     /\ fresh' = fresh \ {m}
     /\ UNCHANGED owner

First(q) == IF q = <<>> THEN <<>> ELSE <<Head(q)>>
Rest(q) == IF q = <<>> THEN <<>> ELSE Tail(q)

\* Mutants: the link of the woken waiter stays on the queue; nobody is woken.
ReleaseKeepsLink(after) ==
  owner' = NoOne /\ waiters' = waiters /\ runq' = runq \o First(waiters) \o after
ReleaseNoWake(after) ==
  owner' = NoOne /\ waiters' = waiters /\ runq' = runq \o after

\* xnu_sys_mutex_unlock: free the mutex, take the oldest waiter off the queue
\* and schedule it; "after" is scheduled next, when the caller suspends.
Release(after) ==
  /\ owner' = NoOne
  /\ waiters' = Rest(waiters)
  /\ runq' = runq \o First(waiters) \o after

-----------------------------------------------------------------------------
\* Operations of a running microthread.

xnu_sys_mutex_lock(m) ==
  /\ st[m] = "out"
  /\ Acquire(m, runq)
  /\ UNCHANGED <<cv, asleep, signals, intr, bare>>

\* On success it also unlocks the queue lock, which it never took; that lock is
\* free whenever a microthread runs, and unlocking it then changes nothing.
xnu_sys_mutex_try_lock(m) ==
  /\ st[m] = "out"
  /\ owner \in {NoOne, m}
  /\ owner' = m
  /\ st' = [st EXCEPT ![m] = "hold"]
  /\ UNCHANGED <<waiters, cv, asleep, runq, fresh, signals, intr, bare>>

xnu_sys_mutex_unlock(m) ==
  /\ st[m] = "hold"
  /\ Release(<<>>)
  /\ st' = [st EXCEPT ![m] = "out"]
  /\ UNCHANGED <<cv, asleep, fresh, signals, intr, bare>>

\* Drop the mutex, join the condition variable's queue and suspend; the mutex
\* is taken again when the microthread next runs.
xnu_sys_condvar_wait(m) ==
  /\ st[m] = "hold"
  /\ Release(Again(m))
  /\ cv' = Append(cv, m)
  /\ st' = [st EXCEPT ![m] = "cond"]
  /\ fresh' = fresh \ {m}
  /\ UNCHANGED <<asleep, signals, intr, bare>>

\* Wake the first n waiters (callers pass usize::MAX: all of them).
xnu_sys_condvar_signal(n) ==
  /\ n \in 1..Len(cv)
  /\ cv' = SubSeq(cv, n + 1, Len(cv))
  /\ runq' = runq \o SubSeq(cv, 1, n)
  /\ UNCHANGED <<st, owner, waiters, asleep, fresh, signals, intr, bare>>

\* lck_mtx_sleep and lck_mtx_sleep_deadline, when assert_wait says THREAD_WAITING:
\* drop the mutex and block; LCK_SLEEP_UNLOCK leaves it dropped.  (Otherwise they
\* return at once, having unlocked or not.)
lck_mtx_sleep(m, unlock) ==
  /\ st[m] = "hold"
  /\ Release(Again(m))
  /\ asleep' = asleep \cup {m}
  /\ st' = [st EXCEPT ![m] = IF unlock THEN "nap" ELSE "sleep"]
  /\ fresh' = fresh \ {m}
  /\ UNCHANGED <<cv, signals, intr, bare>>

\* XNU wakes m, or its deadline passes: thread_unblock schedules it.
thread_unblock(m) ==
  /\ m \in asleep
  /\ asleep' = asleep \ {m}
  /\ runq' = Append(runq, m)
  /\ UNCHANGED <<st, owner, waiters, cv, fresh, signals, intr, bare>>

-----------------------------------------------------------------------------
\* Running a suspended microthread.  rq is the run queue it leaves behind.

\* A mutex waiter looks at the owner again, a condvar waiter and a sleeper take
\* the mutex back.
Resume(m, rq) ==
  \/ st[m] \in Relocking /\ Acquire(m, rq)
  \/ /\ st[m] = "nap"
     /\ st' = [st EXCEPT ![m] = "out"]
     /\ runq' = rq
     /\ UNCHANGED <<owner, waiters, fresh>>
  \/ /\ st[m] \notin Suspended
     /\ runq' = rq
     /\ UNCHANGED <<st, owner, waiters, fresh>>

\* drain runs the oldest scheduled microthread; under a signal handler that is
\* the handler's activation, which finds nothing to do.
drain ==
  /\ runq # <<>>
  /\ LET m == Head(runq) IN
     \/ m \notin intr /\ Resume(m, Tail(runq))
     \/ /\ m \in intr
        /\ runq' = Tail(runq)
        /\ UNCHANGED <<st, owner, waiters, fresh>>
  /\ UNCHANGED <<cv, asleep, signals, intr, bare>>

-----------------------------------------------------------------------------
\* Events of the serve loop, which come when the run queue is drained.

\* A signal on a thread that is mid-call pushes the handler's activation and
\* clears the XNU wait.
interrupt_enter(m) ==
  /\ runq = <<>>
  /\ signals < MaxSignals
  /\ signals' = signals + 1
  /\ m \notin intr
  /\ st[m] \in Suspended
  /\ intr' = intr \cup {m}
  /\ asleep' = asleep \ {m}
  /\ UNCHANGED <<st, owner, waiters, cv, runq, fresh, bare>>

\* Its interrupt_exit pops the activation and runs the blocked call.
interrupt_exit(m) ==
  /\ runq = <<>>
  /\ m \in intr
  /\ intr' = intr \ {m}
  /\ Resume(m, runq)
  /\ UNCHANGED <<cv, asleep, signals, bare>>

\* The process of m died: its parked microthread is freed, not resumed.  The
\* XNU wait is cleared; the mutex_link stays where it is.  (A waker that finds
\* it runs freed memory; here that does nothing.)
discard_parked(m) ==
  /\ runq = <<>>
  /\ m \in Dying
  /\ st[m] \in Suspended \cup {"hold"}
  /\ st' = [st EXCEPT ![m] = "gone"]
  /\ asleep' = asleep \ {m}
  /\ intr' = intr \ {m}
  /\ UNCHANGED <<owner, waiters, cv, runq, fresh, signals, bare>>

\* xnu_sys_mutex_lock and unlock without an active thread.  A free mutex is taken
\* at once; for an owned one the loop spins two seconds, in which the owner cannot
\* run on this one OS thread, and takes it all the same.  Time is not modelled, so
\* both exits are this step, whoever owns the mutex.
BareLock ==
  /\ BareLoop
  /\ runq = <<>>
  /\ bare' = TRUE
  /\ UNCHANGED <<st, owner, waiters, cv, asleep, runq, fresh, signals, intr>>

BareUnlock ==
  /\ bare' = FALSE
  /\ UNCHANGED <<st, owner, waiters, cv, asleep, runq, fresh, signals, intr>>

-----------------------------------------------------------------------------
Init ==
  /\ st = [m \in Mts |-> "out"]
  /\ owner = NoOne
  /\ waiters = <<>> /\ cv = <<>> /\ runq = <<>>
  /\ asleep = {} /\ intr = {}
  /\ fresh = Kernel /\ signals = 0
  /\ bare = FALSE

Op(m) ==
  \/ xnu_sys_mutex_lock(m) \/ xnu_sys_mutex_try_lock(m) \/ xnu_sys_mutex_unlock(m)
  \/ xnu_sys_condvar_wait(m) \/ thread_unblock(m)
  \/ \E unlock \in BOOLEAN : lck_mtx_sleep(m, unlock)

Event(m) == interrupt_enter(m) \/ interrupt_exit(m) \/ discard_parked(m)

Next ==
  \/ ~bare /\ \E m \in Mts : Op(m) \/ Event(m)
  \/ ~bare /\ \E n \in 1..Len(cv) : xnu_sys_condvar_signal(n)
  \/ ~bare /\ drain
  \/ ~bare /\ BareLock
  \/ bare /\ BareUnlock

Spec == Init /\ [][Next]_vars

\* The serve loop drains the run queue before it waits for events again.
FairSpec == Spec /\ WF_vars(~bare /\ drain)

-----------------------------------------------------------------------------
\* Every variable has its type.
TypeOK ==
  /\ st \in [Mts -> Places]
  /\ owner \in Mts \cup {NoOne}
  /\ waiters \in Seq(Mts) /\ cv \in Seq(Mts) /\ runq \in Seq(Mts)
  /\ asleep \in SUBSET Mts /\ intr \in SUBSET Mts /\ fresh \in SUBSET Kernel
  /\ signals \in 0..MaxSignals
  /\ bare \in BOOLEAN

\* No element occurs twice in q.
Distinct(q) == \A i, j \in DOMAIN q : q[i] = q[j] => i = j

\* A thread has one mutex_link: it is on one queue at most, and once.  Inserting
\* it again would corrupt the lists.
LinkedOnce ==
  Distinct(waiters) /\ Distinct(cv) /\ Elems(waiters) \cap Elems(cv) = {}

\* A suspended microthread can be found by whoever is to wake it, or has been
\* woken: no wakeup is lost between joining a queue and suspending, or between
\* leaving it and running.
NoLostWakeup ==
  \A m \in Mts :
    /\ st[m] = "lock" => m \in Elems(waiters) \cup Elems(runq)
    /\ st[m] = "cond" => m \in Elems(cv) \cup Elems(runq)
    /\ st[m] \in {"sleep", "nap"} => m \in asleep \cup Elems(runq) \cup intr

\* A mutex that is free while somebody waits for it is on its way to a
\* microthread that will take it: unlock's wakeup reached a live waiter.
FreeMeansWoken ==
  owner = NoOne /\ (\E m \in Mts : st[m] = "lock")
    => \E k \in Elems(runq) : st[k] \in Relocking

\* Whoever is past mutex_lock is the owner, and the serve loop is not inside
\* too.
MutualExclusion ==
  \A m \in Mts : st[m] = "hold" => owner = m /\ ~bare

\* The rest of the inductive invariant, for microthreads that only their wakers
\* resume: a link is on the queue its owner waits in, and a microthread that is
\* scheduled is suspended and on no queue.
QueuedSuspended ==
  /\ \A m \in Elems(waiters) : st[m] = "lock"
  /\ \A m \in Elems(cv) : st[m] = "cond"
  /\ \A m \in asleep : st[m] \in {"sleep", "nap"}
  /\ \A m \in Elems(runq) : st[m] \in Suspended
ScheduledOnce ==
  /\ Distinct(runq)
  /\ Elems(runq) \cap (Elems(waiters) \cup Elems(cv) \cup asleep) = {}
OwnerHolds == owner # NoOne => st[owner] = "hold"
Undisturbed == fresh = {} /\ intr = {} /\ ~bare

\* A mutex with waiters does not stay free.
HandedOn ==
  (owner = NoOne /\ \E m \in Mts : st[m] = "lock") ~> owner # NoOne
=============================================================================
