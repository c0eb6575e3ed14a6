----------------------------- MODULE SimpleLock -----------------------------
(***************************************************************************)
(* libsimple's lock and condition variable: words of memory that threads    *)
(* change with atomic operations, and futexes to sleep on.  They guard the  *)
(* lists of the daemon's own locks, and run in every guest process.         *)
(*                                                                          *)
(* Each atomic operation and each futex call is a step.  The kernel's part  *)
(* is external: FUTEX_WAIT sleeps if the word has the expected value,       *)
(* FUTEX_WAKE wakes sleepers in an order the caller cannot rely on, and a   *)
(* sleeper may return without having been woken.  Who sleeps where is       *)
(* written in the program counters.                                         *)
(*                                                                          *)
(* The clients are the pattern the condition variable is for: consumers     *)
(* wait, in a loop, for items that producers put and announce.              *)
(***************************************************************************)
EXTENDS Naturals, FiniteSets

CONSTANTS
  Producers, Consumers,
  NoOwner,
  MaxItems,     \* bound: calls of producers
  NotifyLocked  \* producers notify before they unlock, not after

Threads == Producers \cup Consumers

ASSUME SimpleLockAssumption ==
  /\ Producers \cap Consumers = {} /\ NoOwner \notin Threads
  /\ MaxItems \in Nat /\ NotifyLocked \in BOOLEAN

VARIABLES
  pc,     \* where each thread is
  state,  \* the lock's word
  cv,     \* the condition variable's word: a counter and two bits
  seen,   \* state2 of libsimple_condvar_wait
  items,  \* what the lock guards
  puts    \* calls of producers so far

vars == <<pc, state, cv, seen, items, puts>>

unlocked           == 0
locked_uncontended == 1
locked_contended   == 2

\* In libsimple_lock_lock.
Locking == {"mark", "wait", "asleep", "retry"}

\* In libsimple_lock_lock_slow.
Relocking == {"slow", "slowwait", "slowasleep"}

\* In libsimple_condvar_wait before that.  The lock is still held at "cvunlock".
Waiting == {"cvunlock", "cvwake", "cvwait", "cvasleep"}

Notifying == {"one1", "one2", "one3", "one4", "all1", "all2", "all3"}

Holding(t) ==
  \/ pc[t] \in {"hold", "leave", "cvunlock"}
  \/ NotifyLocked /\ pc[t] \in Notifying

Places == {"out", "hold", "leave", "wake"} \cup Locking \cup Relocking \cup Waiting \cup Notifying

Go(t, p) == pc' = [pc EXCEPT ![t] = p]

-----------------------------------------------------------------------------
(* libsimple_lock_lock *)

\* A cmpxchg from unlocked to the value of a new owner, and what to do after one
\* that failed.
Cmpxchg(t, locked) ==
  IF state = unlocked
  THEN state' = locked /\ Go(t, "hold")
  ELSE /\ Go(t, IF state = locked_contended THEN "wait" ELSE "mark")
       /\ UNCHANGED state

\* A client calls.
Begin(t) ==
  /\ pc[t] = "out" /\ (t \in Producers => puts < MaxItems)
  /\ puts' = IF t \in Producers THEN puts + 1 ELSE puts

\* Mutant: the lock is taken whatever the word says.
FastPathUnchecked(t) ==
  /\ Begin(t)
  /\ state' = locked_uncontended /\ Go(t, "hold")
  /\ UNCHANGED <<cv, seen, items>>

FastPath(t) ==
  /\ Begin(t)
  /\ Cmpxchg(t, locked_uncontended)
  /\ UNCHANGED <<cv, seen, items>>

\* libsimple_lock_try_lock; a failure changes nothing.
TryLock(t) ==
  /\ Begin(t)
  /\ state = unlocked
  /\ state' = locked_uncontended /\ Go(t, "hold")
  /\ UNCHANGED <<cv, seen, items>>

\* The word is marked contended, if it is still locked.
Mark(t) ==
  /\ pc[t] = "mark"
  /\ state' = IF state = locked_uncontended THEN locked_contended ELSE state
  /\ Go(t, IF state = unlocked THEN "retry" ELSE "wait")
  /\ UNCHANGED <<cv, seen, items, puts>>

\* FUTEX_WAIT on the lock's word, from libsimple_lock_lock or _lock_slow.
FutexWait(t) ==
  /\ pc[t] \in {"wait", "slowwait"}
  /\ LET asleep == IF pc[t] = "wait" THEN "asleep" ELSE "slowasleep"
         again  == IF pc[t] = "wait" THEN "retry" ELSE "slow"
     IN Go(t, IF state = locked_contended THEN asleep ELSE again)
  /\ UNCHANGED <<state, cv, seen, items, puts>>

\* After the sleep the word is locked as contended: others may still sleep.
Retry(t) ==
  /\ pc[t] = "retry"
  /\ Cmpxchg(t, locked_contended)
  /\ UNCHANGED <<cv, seen, items, puts>>

\* libsimple_lock_lock_slow
LockSlow(t) ==
  /\ pc[t] = "slow"
  /\ state' = locked_contended
  /\ Go(t, IF state = unlocked THEN "hold" ELSE "slowwait")
  /\ UNCHANGED <<cv, seen, items, puts>>

-----------------------------------------------------------------------------
(* libsimple_lock_unlock *)

\* What a producer does after unlocking: it returns, or notifies.
AfterUnlock(t) == IF NotifyLocked \/ t \in Consumers THEN {"out"} ELSE {"one1", "all1"}

\* The exchange.  A thread that leaves goes on to a wake if the word was contended.
Unlock(t) ==
  /\ pc[t] \in {"leave", "cvunlock"}
  /\ state' = unlocked
  /\ IF state = locked_contended
     THEN Go(t, IF pc[t] = "leave" THEN "wake" ELSE "cvwake")
     ELSE IF pc[t] = "leave" THEN \E p \in AfterUnlock(t) : Go(t, p) ELSE Go(t, "cvwait")
  /\ UNCHANGED <<cv, seen, items, puts>>

LockSleepers == {t \in Threads : pc[t] \in {"asleep", "slowasleep"}}

\* Where a thread goes on when its futex call returns.
Woken(t) == IF pc[t] = "asleep" THEN "retry" ELSE "slow"

\* FUTEX_WAKE, one sleeper.
FutexWake(t) ==
  /\ pc[t] \in {"wake", "cvwake"}
  /\ \E p \in (IF pc[t] = "wake" THEN AfterUnlock(t) ELSE {"cvwait"}) :
       IF LockSleepers = {}
       THEN Go(t, p)
       ELSE \E u \in LockSleepers : pc' = [pc EXCEPT ![t] = p, ![u] = Woken(u)]
  /\ UNCHANGED <<state, cv, seen, items, puts>>

-----------------------------------------------------------------------------
(* libsimple_condvar_wait *)

\* A consumer that finds nothing waits: it sets both bits and remembers the word.
CondvarWait(t) ==
  /\ pc[t] = "hold" /\ t \in Consumers /\ items = 0
  /\ cv' = [cv EXCEPT !.one = TRUE, !.all = TRUE]
  /\ seen' = [seen EXCEPT ![t] = cv']
  /\ Go(t, "cvunlock")
  /\ UNCHANGED <<state, items, puts>>

\* Mutant: the thread sleeps whatever has happened since.
CondvarSleepUnchecked(t) ==
  /\ pc[t] = "cvwait"
  /\ Go(t, "cvasleep")
  /\ UNCHANGED <<state, cv, seen, items, puts>>

\* FUTEX_WAIT on the condition variable's word.
CondvarSleep(t) ==
  /\ pc[t] = "cvwait"
  /\ Go(t, IF cv = seen[t] THEN "cvasleep" ELSE "slow")
  /\ UNCHANGED <<state, cv, seen, items, puts>>

CvSleepers == {t \in Threads : pc[t] = "cvasleep"}

\* A sleeper returns without having been woken.
Interrupted(t) ==
  /\ t \in LockSleepers \cup CvSleepers
  /\ Go(t, Woken(t))
  /\ UNCHANGED <<state, cv, seen, items, puts>>

-----------------------------------------------------------------------------
(* libsimple_condvar_notify_one and _notify_all *)

Notified(t) == IF NotifyLocked THEN "leave" ELSE "out"

Increment == cv' = [cv EXCEPT !.seq = @ + 1]

NotifyOneStarts(t) ==
  /\ pc[t] = "one1"
  /\ Increment
  /\ Go(t, IF cv.one THEN "one2" ELSE Notified(t))
  /\ UNCHANGED <<state, seen, items, puts>>

NotifyOneClears(t) ==
  /\ pc[t] = "one2"
  /\ cv' = [cv EXCEPT !.one = FALSE]
  /\ Go(t, IF cv.one THEN "one3" ELSE Notified(t))
  /\ UNCHANGED <<state, seen, items, puts>>

NotifyOneWakes(t) ==
  /\ pc[t] = "one3"
  /\ IF CvSleepers = {}
     THEN Go(t, Notified(t))
     ELSE \E u \in CvSleepers : pc' = [pc EXCEPT ![t] = "one4", ![u] = "slow"]
  /\ UNCHANGED <<state, cv, seen, items, puts>>

\* Others may sleep still: the bit is set again.
NotifyOneEnds(t) ==
  /\ pc[t] = "one4"
  /\ cv' = [cv EXCEPT !.one = TRUE]
  /\ Go(t, Notified(t))
  /\ UNCHANGED <<state, seen, items, puts>>

NotifyAllStarts(t) ==
  /\ pc[t] = "all1"
  /\ Increment
  /\ Go(t, IF cv.all THEN "all2" ELSE Notified(t))
  /\ UNCHANGED <<state, seen, items, puts>>

NotifyAllClears(t) ==
  /\ pc[t] = "all2"
  /\ cv' = [cv EXCEPT !.one = FALSE, !.all = FALSE]
  /\ Go(t, "all3")
  /\ UNCHANGED <<state, seen, items, puts>>

\* Mutant: everybody is moved to the lock, and nobody woken.
RequeueAll(t) ==
  /\ pc[t] = "all3"
  /\ pc' = [u \in Threads |-> IF u = t THEN Notified(t)
                              ELSE IF u \in CvSleepers THEN "slowasleep" ELSE pc[u]]
  /\ UNCHANGED <<state, cv, seen, items, puts>>

\* FUTEX_REQUEUE: one sleeper is woken, the others sleep on the lock from now on.
Requeue(t) ==
  /\ pc[t] = "all3"
  /\ IF CvSleepers = {}
     THEN Go(t, Notified(t))
     ELSE \E w \in CvSleepers :
            pc' = [u \in Threads |-> IF u = t THEN Notified(t)
                                     ELSE IF u = w THEN "slow"
                                     ELSE IF u \in CvSleepers THEN "slowasleep" ELSE pc[u]]
  /\ UNCHANGED <<state, cv, seen, items, puts>>

-----------------------------------------------------------------------------
(* The clients. *)

Take(t) ==
  /\ pc[t] = "hold" /\ t \in Consumers /\ items > 0
  /\ items' = items - 1
  /\ Go(t, "leave")
  /\ UNCHANGED <<state, cv, seen, puts>>

Put(t) ==
  /\ pc[t] = "hold" /\ t \in Producers
  /\ items' = items + 1
  /\ \E p \in (IF NotifyLocked THEN {"one1", "all1"} ELSE {"leave"}) : Go(t, p)
  /\ UNCHANGED <<state, cv, seen, puts>>

NoBits == [seq |-> 0, one |-> FALSE, all |-> FALSE]

Init ==
  /\ pc = [t \in Threads |-> "out"]
  /\ state = unlocked
  /\ cv = NoBits /\ seen = [t \in Threads |-> NoBits]
  /\ items = 0 /\ puts = 0

\* The steps of an operation that t has begun.
Step(t) ==
  \/ Mark(t) \/ FutexWait(t) \/ Retry(t) \/ LockSlow(t)
  \/ Unlock(t) \/ FutexWake(t)
  \/ CondvarWait(t) \/ CondvarSleep(t)
  \/ NotifyOneStarts(t) \/ NotifyOneClears(t) \/ NotifyOneWakes(t) \/ NotifyOneEnds(t)
  \/ NotifyAllStarts(t) \/ NotifyAllClears(t) \/ Requeue(t)
  \/ Take(t) \/ Put(t)

Next == \E t \in Threads : FastPath(t) \/ TryLock(t) \/ Interrupted(t) \/ Step(t)

Spec == Init /\ [][Next]_vars

\* A thread that is awake in an operation goes on with it.
FairSpec == Spec /\ \A t \in Threads : WF_vars(Step(t))

-----------------------------------------------------------------------------
(* Properties. *)

\* Every variable has its type: the lock's word is one of the three states.
TypeOK ==
  /\ pc \in [Threads -> Places]
  /\ state \in {unlocked, locked_uncontended, locked_contended}
  /\ cv \in [seq : 0..MaxItems, one : BOOLEAN, all : BOOLEAN]
  /\ seen \in [Threads -> [seq : 0..MaxItems, one : BOOLEAN, all : BOOLEAN]]
  /\ items \in 0..MaxItems /\ puts \in 0..MaxItems

\* The abstract owner.  Two holders at once are no owner the mutex can have.
Holders == {t \in Threads : Holding(t)}
Owner == CASE Holders = {}             -> NoOwner
           [] Cardinality(Holders) = 1 -> CHOOSE t \in Holders : TRUE
           [] OTHER                    -> Holders
Wanting == {t \in Threads : pc[t] \in Locking \cup Relocking}

L == INSTANCE Mutex WITH owner <- Owner, wants <- Wanting

\* The lock is a mutex: seen from its callers, each step of its atomic operations
\* and futex calls is a request, an acquisition, a release or nothing.
LockIsMutex == L!Spec

\* A free lock that threads wait for is taken: no thread sleeps on a word that
\* nobody will wake.
LockProgress == L!Progress

\* No notification is lost: while there is an item, not everybody who waits for one
\* stays asleep on the condition variable.
NoNotifyLost ==
  (items > 0 /\ \E t \in Consumers : pc[t] \in Waiting) ~>
    (items = 0 \/ \A t \in Consumers : pc[t] \notin Waiting)
=============================================================================
