---------------------------- MODULE TimerProofs ----------------------------
(***************************************************************************)
(* For any timer calls, deadlines and bounds: no queued timer call is       *)
(* missed, provided XNU never enters a call with the deadline UINT64_MAX    *)
(* (timer_arm takes that for a request to disarm).                          *)
(***************************************************************************)
EXTENDS Timer, TLAPS

\* Deadlines and settings are numbers.
LEMMA DeadlineNat == /\ \A d \in Deadlines \cup {0} : d \in Nat
                     /\ \A d \in Settings : d \in Nat
PROOF BY TimerAssumption DEF Settings

\* Arming without override, when the copy is exact, leaves the timerfd set at
\* the nearer of its setting and the deadline.
LEMMA ArmKeepsNearest ==
  ASSUME TypeOK, TIMER_DEADLINE = fd, NEW d \in Deadlines, Forever \notin Deadlines,
         timer_arm(d, FALSE)
  PROVE  /\ TIMER_DEADLINE' = fd' /\ fd' \in Nat
         /\ fd' # 0 /\ fd' <= d
         /\ fd # 0 => fd' <= fd
<1>1. d \in Nat /\ fd \in Nat /\ d # 0 /\ d # Forever
  BY TimerAssumption, DeadlineNat DEF TypeOK
<1>2. QED
  BY <1>1 DEF timer_arm

\* Arming with override for the head of the queue leaves the timerfd set no
\* later than any queued call.
LEMMA ArmHead ==
  ASSUME NEW n \in Deadlines \cup {Forever}, Forever \notin Deadlines,
         NEW q \in [Calls -> Deadlines \cup {0}],
         IsHead(n, q), timer_arm(n, TRUE)
  PROVE  /\ TIMER_DEADLINE' = fd' /\ fd' \in Settings
         /\ \A c \in Calls : q[c] # 0 => fd' # 0 /\ fd' <= q[c]
<1>1. /\ TIMER_DEADLINE' = fd'
      /\ fd' = IF n = Forever THEN 0 ELSE n
  BY DEF timer_arm
<1>2. fd' \in Settings
  BY <1>1 DEF Settings
<1>3. ASSUME NEW c \in Calls, q[c] # 0
      PROVE  fd' # 0 /\ fd' <= q[c]
  <2>1. n # 0 /\ n <= q[c] /\ n # Forever
    BY <1>3, TimerAssumption DEF IsHead
  <2>2. QED
    BY <1>1, <2>1
<1>4. QED
  BY <1>1, <1>2, <1>3

\* The initial state satisfies the invariant: nothing is queued.
LEMMA InitInv == Init => IInv
<1> SUFFICES ASSUME Init PROVE IInv
  OBVIOUS
<1>1. TypeOK
  BY DEF Init, TypeOK, Settings
<1>2. CopyExact /\ NothingMissed
  BY DEF Init, CopyExact, NothingMissed, Queued
<1>3. QED
  BY <1>1, <1>2 DEF IInv

\* Every step of the timer queue, the loop and the clock keeps the invariant.
LEMMA StepInv ==
  ASSUME Forever \notin Deadlines
  PROVE  IInv /\ [Next]_vars => IInv'
<1> SUFFICES ASSUME IInv, [Next]_vars PROVE IInv'
  OBVIOUS
<1> USE TimerAssumption
<1>1. ASSUME NEW c \in Calls, NEW d \in Deadlines, timer_queue_assign(c, d)
      PROVE  IInv'
  <2>1. queue' \in [Calls -> Deadlines \cup {0}]
    BY <1>1 DEF timer_queue_assign, IInv, TypeOK
  <2>2. TIMER_DEADLINE' \in Settings /\ fd' \in Settings
    BY <1>1 DEF timer_queue_assign, timer_arm, IInv, TypeOK, Settings
  <2>3. TypeOK'
    BY <1>1, <2>1, <2>2 DEF timer_queue_assign, IInv, TypeOK
  <2>4. ASSUME firing = 0
        PROVE  /\ TIMER_DEADLINE' = fd' /\ fd' # 0 /\ fd' <= d
               /\ fd # 0 => fd' <= fd
    BY <1>1, <2>4, ArmKeepsNearest DEF timer_queue_assign, IInv, CopyExact
  <2>5. CopyExact'
    BY <1>1, <2>4 DEF timer_queue_assign, CopyExact
  <2>6. ASSUME firing' = 0, NEW k \in Calls, queue'[k] # 0
        PROVE  fd' # 0 /\ fd' <= queue'[k]
    <3>1. firing = 0
      BY <1>1, <2>6 DEF timer_queue_assign
    <3>2. CASE k = c
      BY <1>1, <2>4, <3>1, <3>2 DEF timer_queue_assign, IInv, TypeOK
    <3>3. CASE k # c
      <4>1. queue'[k] = queue[k] /\ queue[k] # 0
        BY <1>1, <2>6, <3>3 DEF timer_queue_assign, IInv, TypeOK
      <4>2. fd # 0 /\ fd <= queue[k]
        BY <3>1, <4>1 DEF IInv, NothingMissed, Queued
      <4>3. queue[k] \in Nat /\ fd \in Nat /\ fd' \in Nat
        BY <2>2, DeadlineNat DEF IInv, TypeOK
      <4>4. QED
        BY <2>2, <2>4, <3>1, <4>1, <4>2, <4>3
    <3>4. QED
      BY <3>2, <3>3
  <2>7. NothingMissed'
    BY <2>6 DEF NothingMissed, Queued
  <2>8. QED
    BY <2>3, <2>5, <2>7 DEF IInv
<1>2. ASSUME NEW c \in Calls, timer_queue_cancel(c)
      PROVE  IInv'
  <2>1. queue' \in [Calls -> Deadlines \cup {0}]
    BY <1>2 DEF timer_queue_cancel, IInv, TypeOK
  <2>2. PICK n \in Deadlines \cup {Forever} : IsHead(n, queue') /\ timer_arm(n, TRUE)
    BY <1>2 DEF timer_queue_cancel
  <2>3. /\ TIMER_DEADLINE' = fd' /\ fd' \in Settings
        /\ \A k \in Calls : queue'[k] # 0 => fd' # 0 /\ fd' <= queue'[k]
    BY <2>1, <2>2, ArmHead
  <2>4. QED
    BY <1>2, <2>1, <2>3
       DEF timer_queue_cancel, IInv, TypeOK, CopyExact, NothingMissed, Queued
<1>3. ASSUME EpollReports PROVE IInv'
  BY <1>3 DEF EpollReports, IInv, TypeOK, CopyExact, NothingMissed, Queued
<1>4. ASSUME timer_fired PROVE IInv'
  <2>1. firing' # 0
    BY <1>4 DEF timer_fired, IInv, TypeOK
  <2>2. fd' \in Settings /\ TIMER_DEADLINE' \in Settings /\ firing' \in Nat
    BY <1>4 DEF timer_fired, IInv, TypeOK, Settings
  <2>3. now' \in Nat /\ queue' \in [Calls -> Deadlines \cup {0}] /\ reported' \in BOOLEAN
    BY <1>4, Zenon DEF timer_fired, IInv, TypeOK
  <2>4. TypeOK'
    BY <2>2, <2>3 DEF TypeOK
  <2>5. QED
    BY <2>1, <2>4 DEF IInv, CopyExact, NothingMissed
<1>5. ASSUME xnu_sys_timer_fired PROVE IInv'
  <2>1. queue' \in [Calls -> Deadlines \cup {0}]
    BY <1>5 DEF xnu_sys_timer_fired, IInv, TypeOK
  <2>2. PICK n \in Deadlines \cup {Forever} : IsHead(n, queue') /\ timer_arm(n, TRUE)
    BY <1>5 DEF xnu_sys_timer_fired
  <2>3. /\ TIMER_DEADLINE' = fd' /\ fd' \in Settings
        /\ \A k \in Calls : queue'[k] # 0 => fd' # 0 /\ fd' <= queue'[k]
    BY <2>1, <2>2, ArmHead
  <2>4. now' \in Nat /\ reported' \in BOOLEAN /\ firing' \in Nat
    BY <1>5 DEF xnu_sys_timer_fired, IInv, TypeOK
  <2>5. QED
    BY <2>1, <2>3, <2>4 DEF IInv, TypeOK, CopyExact, NothingMissed, Queued
<1>6. ASSUME Tick PROVE IInv'
  BY <1>6 DEF Tick, IInv, TypeOK, CopyExact, NothingMissed, Queued
<1>7. ASSUME UNCHANGED vars PROVE IInv'
  BY <1>7 DEF vars, IInv, TypeOK, CopyExact, NothingMissed, Queued
<1>8. QED
  BY <1>1, <1>2, <1>3, <1>4, <1>5, <1>6, <1>7 DEF Next, Guest

\* No timer call XNU has queued is missed by the daemon: the timerfd is set no
\* later than its deadline, or a firing is about to expire the queue.
THEOREM TimerNothingMissed ==
  ASSUME Forever \notin Deadlines
  PROVE  Spec => []NothingMissed
<1>1. Init => IInv
  BY InitInv
<1>2. IInv /\ [Next]_vars => IInv'
  BY StepInv
<1>3. IInv => NothingMissed
  BY DEF IInv
<1>4. QED
  BY <1>1, <1>2, <1>3, PTL DEF Spec

\* timer_arm keeps the nearest deadline, whatever XNU enters.
THEOREM TimerNearestKept ==
  ASSUME Forever \notin Deadlines
  PROVE  Spec => NearestKept
<1>1. Init => IInv
  BY InitInv
<1>2. IInv /\ [Next]_vars => IInv'
  BY StepInv
<1>3. IInv /\ [Next]_vars =>
        [\A c \in Calls, d \in Deadlines :
           timer_queue_assign(c, d) /\ firing = 0 /\ fd # 0 => fd' # 0 /\ fd' <= fd]_vars
  <2>1. SUFFICES ASSUME IInv, NEW c \in Calls, NEW d \in Deadlines,
                        timer_queue_assign(c, d), firing = 0, fd # 0
                 PROVE  fd' # 0 /\ fd' <= fd
    OBVIOUS
  <2>2. QED
    BY <2>1, ArmKeepsNearest DEF timer_queue_assign, IInv, CopyExact
<1>4. QED
  BY <1>1, <1>2, <1>3, PTL DEF Spec, NearestKept
=============================================================================
