------------------------------- MODULE Timer -------------------------------
(***************************************************************************)
(* The XNU timer queue and the daemon's single timerfd.  XNU enters and     *)
(* cancels timer calls while a guest's call runs; timer_arm keeps the       *)
(* timerfd at the nearest deadline; its expiry reaches the epoll loop,      *)
(* which runs xnu_sys_timer_fired on a fresh microthread.                   *)
(*                                                                          *)
(* An epoll batch may hold the timerfd and RPC events: the expiry is        *)
(* handled some events after it was reported, and an event before it may    *)
(* re-arm the timerfd.  The microthread may park before it expires the      *)
(* queue, so other events may run while a firing is unfinished.             *)
(***************************************************************************)
EXTENDS Naturals

CONSTANTS
  Calls,      \* XNU timer calls
  Deadlines,  \* absolute deadlines XNU passes to the hooks
  Forever,    \* UINT64_MAX
  MaxTime,    \* bound: the clock stops there
  MaxFirings  \* bound: firings parked at a time

\* XNU moves a deadline that is in the past to the current time: it never asks
\* for 0.
ASSUME TimerAssumption ==
  /\ Forever \in Nat \ {0}
  /\ Deadlines \subseteq 1..Forever
  /\ MaxTime \in Nat /\ MaxTime < Forever
  /\ MaxFirings \in Nat

VARIABLES
  now,             \* mach_absolute_time
  queue,           \* TIMER_QUEUE: the deadline of each call, 0 when not queued
  TIMER_DEADLINE,  \* the daemon's copy of the deadline it armed, 0 when none
  fd,              \* the timerfd's setting, 0 when disarmed or read
  reported,        \* the current epoll batch holds the timerfd
  firing           \* xnu_sys_timer_fired microthreads that have not expired the queue

vars == <<now, queue, TIMER_DEADLINE, fd, reported, firing>>

\* What the timerfd can be set to.
Settings == (Deadlines \ {Forever}) \cup {0}

Queued == {c \in Calls : queue[c] # 0}
Due(c) == queue[c] # 0 /\ queue[c] <= now

\* The timerfd is one-shot and absolute: readable from its deadline until it is
\* read or set again.
Readable == fd # 0 /\ fd <= now

-----------------------------------------------------------------------------
\* Mutant: a later deadline replaces a nearer one.
TimerArmLast(deadline, override) ==
  LET d == IF deadline = Forever THEN 0 ELSE deadline
  IN TIMER_DEADLINE' = d /\ fd' = d

\* The timer_arm hook: Forever means disarm; unless overridden, a deadline that
\* is not before the current one is ignored.
timer_arm(deadline, override) ==
  LET d == IF deadline = Forever THEN 0 ELSE deadline
  IN IF ~override /\ TIMER_DEADLINE # 0 /\ d >= TIMER_DEADLINE
     THEN UNCHANGED <<TIMER_DEADLINE, fd>>
     ELSE TIMER_DEADLINE' = d /\ fd' = d

\* The deadline at the head of queue q, Forever when q is empty.
IsHead(n, q) ==
  \/ \E c \in Calls : /\ n = q[c] /\ n # 0
                      /\ \A k \in Calls : q[k] = 0 \/ n <= q[k]
  \/ n = Forever /\ \A c \in Calls : q[c] = 0

-----------------------------------------------------------------------------
\* timer_call_enter: asks for the queue of the deadline, then queues the call
\* (moving it if it is already queued).
timer_queue_assign(c, deadline) ==
  /\ queue' = [queue EXCEPT ![c] = deadline]
  /\ timer_arm(deadline, FALSE)
  /\ UNCHANGED <<now, reported, firing>>

\* timer_call_cancel: dequeues the call and passes the new head deadline.
timer_queue_cancel(c) ==
  /\ queue[c] # 0
  /\ queue' = [queue EXCEPT ![c] = 0]
  /\ \E n \in Deadlines \cup {Forever} : IsHead(n, queue') /\ timer_arm(n, TRUE)
  /\ UNCHANGED <<now, reported, firing>>

\* epoll_wait returns with the timerfd among its events.
EpollReports ==
  /\ Readable
  /\ ~reported
  /\ reported' = TRUE
  /\ UNCHANGED <<now, queue, TIMER_DEADLINE, fd, firing>>

\* The loop reaches the event: timer_fired reads the timerfd (nothing to read
\* if it was set again meanwhile), clears the deadline and starts the
\* microthread.
timer_fired ==
  /\ reported
  /\ firing < MaxFirings
  /\ reported' = FALSE
  /\ fd' = IF Readable THEN 0 ELSE fd
  /\ TIMER_DEADLINE' = 0
  /\ firing' = firing + 1
  /\ UNCHANGED <<now, queue>>

\* Mutant: the expiry does not arm the timer for what is left.
FiredNoRearm ==
  /\ firing > 0
  /\ firing' = firing - 1
  /\ queue' = [c \in Calls |-> IF Due(c) THEN 0 ELSE queue[c]]
  /\ UNCHANGED <<now, TIMER_DEADLINE, fd, reported>>

\* The microthread expires the queue: every due call leaves it and its function
\* runs, which may enter calls again (with later deadlines: due ones expire in
\* the same loop); then arms the timer for the next deadline.
xnu_sys_timer_fired ==
  /\ firing > 0
  /\ firing' = firing - 1
  /\ \E again \in [Calls -> Deadlines \cup {0}] :
       /\ \A c \in Calls : again[c] # 0 => again[c] > now
       /\ queue' = [c \in Calls |-> IF again[c] # 0 THEN again[c]
                                    ELSE IF Due(c) THEN 0 ELSE queue[c]]
  /\ \E n \in Deadlines \cup {Forever} : IsHead(n, queue') /\ timer_arm(n, TRUE)
  /\ UNCHANGED <<now, reported>>

Tick ==
  /\ now < MaxTime
  /\ now' = now + 1
  /\ UNCHANGED <<queue, TIMER_DEADLINE, fd, reported, firing>>

-----------------------------------------------------------------------------
Init ==
  /\ now = 1
  /\ queue = [c \in Calls |-> 0]
  /\ TIMER_DEADLINE = 0
  /\ fd = 0
  /\ reported = FALSE
  /\ firing = 0

Guest == \E c \in Calls : timer_queue_cancel(c)
                          \/ \E d \in Deadlines : timer_queue_assign(c, d)

Next == Guest \/ EpollReports \/ timer_fired \/ xnu_sys_timer_fired \/ Tick

Spec == Init /\ [][Next]_vars

\* The kernel reports an expired timerfd, the loop handles what was reported,
\* and a firing finishes (it only parks on short waits).
FairSpec ==
  /\ Spec
  /\ WF_vars(EpollReports) /\ WF_vars(timer_fired) /\ WF_vars(xnu_sys_timer_fired)

-----------------------------------------------------------------------------
\* Every variable has its type; the timerfd is never set to Forever.
TypeOK ==
  /\ now \in Nat
  /\ queue \in [Calls -> Deadlines \cup {0}]
  /\ TIMER_DEADLINE \in Settings /\ fd \in Settings
  /\ reported \in BOOLEAN
  /\ firing \in Nat

\* No queued timer call is missed: unless a firing is about to look at the
\* queue, the timerfd is set, no later than the call's deadline.
NothingMissed ==
  firing = 0 => \A c \in Queued : fd # 0 /\ fd <= queue[c]

\* timer_arm's "we keep the nearest": while no firing is unfinished, arming
\* without override never makes the timerfd fire later.
NearestKept ==
  [][\A c \in Calls, d \in Deadlines :
       timer_queue_assign(c, d) /\ firing = 0 /\ fd # 0 => fd' # 0 /\ fd' <= fd]_vars

\* The inductive strengthening: while no firing is unfinished the daemon's copy
\* of the deadline is the timerfd's setting, so comparing with it keeps the
\* nearest.
CopyExact == firing = 0 => TIMER_DEADLINE = fd

IInv == TypeOK /\ CopyExact /\ NothingMissed

\* A due timer call does not stay due: it runs, is cancelled or entered again.
DueRuns == \A c \in Calls : Due(c) ~> ~Due(c)
=============================================================================
