# cider: a TLA+ model

cider runs macOS programs on Linux. Its guest processes are Darwin programs; the
kernel they expect is XNU code linked into a user-space daemon, `ciderd`
(`src/src/linux/server`, Rust around C), which guests reach by datagrams. Inside the
guest, `launchd` starts and watches the system's jobs, `shellspawn` starts programs
for the `cider` command, and `libsimple` gives both sides their locks
(`src/src/darwin`). This directory models the concurrency of these parts: how the
daemon serves calls, blocks and wakes microthreads and keeps time; how the locks use
futexes; how a program is started from outside the container, and how launchd keeps
a job running.

## 1. Inventory

### How the daemon works

`ciderd` has one OS thread. `bin/ciderd.rs:run` waits in `epoll_wait` and handles
one event after another: RPC datagrams, the timerfd, the pidfd of every guest
process (its death watch), and kqueue channels. Guest code that must block inside
XNU cannot block this thread: each guest thread has a **microthread**, a stack of
its own, and blocking suspends the microthread back to the loop. A waker puts a
suspended microthread on the run queue (`sched.rs:schedule`) and the loop runs it
when it drains that queue (`drain`). There is no preemption: the interleavings are
those of suspension points, of datagrams, and of epoll events.

### Components

| component | state | operations | what makes it correct |
|---|---|---|---|
| serve loop, `bin/ciderd.rs` | `slots` (per guest thread: a mailbox, an interrupt mailbox), `proc_watches` | RPC datagram, timer expiry, process death, channel events | a call is answered once, with its own answer, in the event that unblocks it; nothing of a dead process stays |
| microthread scheduler, `sched.rs` | run queue, current microthread, each microthread's saved context and activations, `TIMER_DEADLINE` | `run`, `suspend`, `schedule`, `drain`, `run_on_task`, `timer_fired`, `timer_arm`, push/pop activation | a scheduled microthread runs once, from where it suspended |
| registry, `registry.rs` | tasks, threads, parked microthreads, nsid to host pid | spawn, `run_thread`, `wake_thread`, `discard_parked`, `despawn_task` | a parked microthread belongs to a live thread; teardown forgets everything once |
| S2C calls, `s2c.rs` | `REPLIES`, one entry per guest thread | `perform_raw`, `deliver_reply` | the suspended microthread reads the answer to its own call |
| client wrappers, generated by `generate-rpc-wrappers.py` | the guest thread's socket, its pending call | send, receive loop, service of S2C calls, pushed replies | the client is in step with the server although a reply carries only a call number |
| RPC handlers, `handler.rs` | none of their own, besides a process's fork semaphore | about 80 calls | out of the RPC path: the effect of each call on XNU |
| timer glue, `xnu/timer.rs` | XNU's timer queue | assign, cancel, expiry | the timerfd is never later than the nearest deadline |
| locks and condition variables, `xnu/locks.rs`, `xnu/condvar.rs` | owner, queue of waiters (an intrusive TAILQ of the threads' single `mutex_link`) | lock, try, unlock, wait, signal, `lck_mtx_sleep` | exclusion; no lost wakeup; a link is on one queue, once |
| thread glue, `xnu/thread.rs` | wait result, continuation, suspend count, reference count | block, unblock, hold, release, wait, state copy | a wakeup between the check and the block is seen |
| task glue, `xnu/task.rs` | reference count, dyld-info wait, name and port | create, suspend, resume, destroy | freed once, after the last user |
| kqueue channels, `kqchan.rs`, `xnu/kqchan.rs` | channel state, waiter microthread, two semaphores, link on a port set's wait queue | open, read, notify, close | a channel is notified when it has an event and freed once |
| psynch, `xnu/psynch.rs` | hooks of the pthread kernel extension | mutex, condition, rwlock waits | as the locks, over XNU wait queues |
| semaphores, `xnu/semaphore.rs` | count, wait queue | up, down, down-or-interrupted | |
| memory, host, processor, misc, debug, stub glue | C structures | constants, copies, address arithmetic | not concurrent |
| wire format, `rpc_wire.rs` | none | generated encoders and `dispatch` | |
| socket I/O, `rpc_io.rs`, `server.rs` | file descriptors | receive and send with SCM_RIGHTS | |
| libsimple locks, `libsimple/src/lock.c` | one futex word each: lock, condition variable, once, read-write lock | lock, try, unlock; wait, notify one and all; once; read and write lock | exclusion; a sleeper sleeps only on a word that promises a wake |
| shellspawn daemon, `shellspawn.c` | slots, kevents on control sockets and targets | accept, read commands, fork and exec, forward signals, report the exit | a target is attended from its start to its end, and ends with its launcher |
| launcher session, `launcher/src/main.rs` | its socket, the self-pipe of its signals, a startup deadline | connect, commands, GO, proxy loop, watchdog | its exit code is its program's |
| launchd jobs, `launchd/src/core.c`, `runtime.c`, `ipc.c` | per job: process, Mach service and its receive right, demand port set, timers, flags of stop, kill and removal | dispatch, start, reap, check-in, port destruction, timers, stop, remove, shutdown | a wanted job runs, one instance at a time, and launchd loses sight of none |
| Combine subjects, `CombineSubject.c` | a list of subscribers, the current value | sink, send, cancel | every subscriber sees the values in order, none after cancel |
| container, frameworks, xtrace, build rules | | start-up, stubs and tooling | |

### Interactions and what is hard about them

* A **guest call** is a datagram; its handler runs on the guest thread's
  microthread and answers through the mailbox, or blocks and answers when another
  event (a call of another thread, a timer, a death, a channel) wakes it.
* The daemon **calls back** into the guest in the middle of a call (S2C: mmap,
  munmap and the like run in the guest); the answer is a datagram like a call.
* A **signal** interrupts a guest thread that waits for a reply. Its handler calls
  the daemon too, bracketed by `interrupt_enter` and `interrupt_exit`; the daemon
  pushes a second activation on the same microthread, with a mailbox of its own.
  A reply already under way when the bracket opens is pushed back by the client.
* A **guest dies** with calls queued, microthreads parked and locks held.
* **One-shot microthreads** (`run_on_task`, `timer_fired`) run kernel work for the
  loop; one that parks is scheduled again by its starter and not by its waker.
* The **bare loop** also takes XNU locks, without a microthread to suspend.
* The **timerfd** is one-shot, read some events after it expired, and re-armed by
  XNU hooks that run in between.

* **Descriptors** in an epoll batch are looked up by number when their turn comes,
  after earlier events of the batch may have closed and reopened that number.
* **Futexes**: between the test of a word and the sleep on it another thread may
  unlock, notify or complete; a sleeper may return without having been woken.
* A **launcher** may be killed at any point of its session, the **spawn daemon** may
  crash and is restarted, and a target may exit before anybody watches it.
* **launchd** sees the exit of a process and the return of its receive rights in
  either order; a child may be dead before launchd attaches to it; a job may be
  stopped, removed or the system shut down while any of that is under way.

`PROJECT.json` lists these as hazards, each at the line where it bites.

## 2. Plan

In the order of importance.

Done:

1. `GuestRpc`: the RPC path, guest and daemon. Model, runs, proof of safety without
   signals.
2. `Timer`: the timer queue and the timerfd. Model, run, proof of safety.
3. `Locks`: mutex, condition variable, run queue. Model, runs, proof of safety.
4. `Kqchan`: a mach-port channel with its waiter microthread, its two semaphores,
   the guest's read and the teardown. Model, run, proof of safety.
5. `Watches`: the descriptors of an epoll batch, process channels and death watches.
   Model, run.
6. `Mutex`, an abstract lock, and `SimpleLock`, which implements it; `SimpleOnce` and
   `SimpleRwlock`, composed in `SimpleLazy`. Models, runs, proofs of safety and of
   the refinement.
7. `Shellspawn`: launchers, spawn daemon and targets. Model, run, proof of safety.
8. `LaunchdJob`: the life of launchd's jobs. Model, runs, proof of safety.

Left:

9. Theorems with signals: `GuestRpc`'s `InStep`, `NoUnsentReply` and
   `InterruptedCallUntouched`, whose invariant must follow one call per level of a
   guest thread and the pushed replies between them.
10. `RpcPromise`: what a caller may rely on (a call is outstanding, then answered
    once), which `GuestRpc` without signals implements.
11. `Lifecycle`: registry, host pids over exec, reference counts of tasks.
12. `Combine`: a subject's list of subscribers. `sink` hands over the current value
    before it records the subscriber (`CombineSubject.c:342`), and a delivery on the
    main queue may run after `cancel` returned (line 270).
13. `Tailq`: the intrusive list of `condvar.rs` at the level of its pointers, shown
    to implement the sequences of `Locks` as long as `LinkedOnce` holds.
14. `ForkWait` (the fork semaphore of `fork_wait_for_child` and checkin),
    `Suspension` (`thread_hold`, `thread_release`, `thread_wait`), `Psynch`.

## 3. The modules

### GuestRpc

One step of the daemon is one event of the epoll loop from start to end, because
the loop is the only OS thread and drains the run queue before it waits again. One
step of a guest is one send or one receive of a client wrapper.

| model | code |
|---|---|
| `stack[t]`, `nextId`, `dead` | a guest thread's levels: program, signal handler, nested handler, each running or waiting for a reply; bound counter; killed processes |
| `sock`, `inbox` | the thread's socket and the daemon's: reliable, ordered, one datagram each |
| `watched` | `proc_watches` |
| `srv[t].slot, mbox, imbox, intr` | the entry in `slots`, its `Mailbox` and interrupt mailbox |
| `srv[t].acts` | the parked microthread: one activation per level, at the top of the doWork loop, blocked in XNU, or suspended in an S2C call |
| `srv[t].waiting`, `.s2c` | on an XNU wait queue; an answer is in `REPLIES` |
| `Run`, `Resume`, `Dispatch` | `sched::run`, `run_dowork_loop`, `process_one_call` |
| `Complete`, `Park`, `PerformS2C` | the ways a call goes on: answers (by return or by `thread_syscall_return`), blocks (with a continuation or with its stack), calls back |
| `StartInterrupt`, `RunInterruptCall`, `EndInterrupt` | `start_interrupt`, `run_interrupt_call` |
| `HandleCall`, `Reap`, `Flush` | `handle_call`, `reap_thread`, `flush_replies` |
| `HandleMessage`, `TimerFired`, `MachKqchanRead`, `ProcDied` | the arms of the loop |
| `GuestCall`, `Signal`, `HandlerReturns`, `Receive` | the generated wrapper and the handler bracket |

A call is its class (can it block, may a signal interrupt it) and an id that is
not on the wire: the id lets properties say *which* call a reply is for, while the
client, as in the code, compares call numbers only. Which of the possible outcomes
a dispatched call takes depends on XNU and is a choice. An event may wake any of the
waiting threads (`Woken`), each of them once: a thread that blocks again in the same
event stays blocked until the next.

### Timer

`queue` is XNU's timer queue, `fd` the timerfd, `TIMER_DEADLINE` the daemon's copy.
`timer_queue_assign` and `timer_queue_cancel` are the hooks with the XNU operation
around them, `EpollReports` and `timer_fired` separate the report of an expiry from
its handling, `xnu_sys_timer_fired` is the expiry on its microthread, which may park
before it starts.

### Locks

One mutex, one condition variable, one wait event, `st` saying where each
microthread is. `Acquire` is one round of the lock loop, `Release` the unlock.
`Kernel` microthreads are the one-shot ones, `Dying` ones belong to a process that
may die, `MaxSignals` bounds the signals whose `interrupt_exit` resumes a suspended
call, `BareLoop` lets the serve loop take the mutex. A queue is the sequence its
links form. What a corrupted list does is not modelled (the property is that none
is corrupted), nor are the lock operations of a signal handler's own calls; a freed
microthread that is scheduled does nothing, which is the kindest outcome.

### Kqchan

One channel, on a port or on a port set. Guest and daemon share a socketpair: the
daemon notifies, the guest asks, the daemon replies. A step is a stretch of code
between two points where another microthread or another event may come in.

| model | code |
|---|---|
| `mode`, `shared`, `msgs`, `vanished` | what is watched, and XNU's queue behind it |
| `can_send_notification`, `callback` | the channel's throttle; the callback it registered |
| `wire`, `request`, `guest` | the socketpair, and libkqueue's `evfilt_machport_copyout` at its other end |
| `loop` | which part of an event the loop is in: draining after a call, filling a read's reply, the drain after it, destroying, the drain after that |
| `waiter`, `waitq`, `readSem`, `deathSem` | `kqchan_waitq_waiter_entry`, the link to the set's wait queue, the two semaphores |
| `destroyer`, `runq`, `running` | the microthread in `xnu_sys_kqchan_mach_port_destroy`, and the run queue |
| `kqchan_mach_port_open`, `ReadStarts`, `ReadReplies`, `Ack`, `Drop`, `knote_unlink_waitq` | `MachPortKqchan::open`, `on_readable`, its read, and the teardown |
| `RunNext`, `DrainEnds`, `Waiter...` | `drain`, and the waiter's loop |

XNU is external: its filter runs a port's knotes when the queue was empty and may
run them otherwise; `waitq_assert_wait` on a set that holds a message does not
block; a message that a receiver takes directly still wakes the waiter. A
microthread that has finished and is run again does nothing, and a destroyer that is
run before anybody signalled it is `"panic"`. A port may die wherever other code runs
(`knote_vanish`); `LateDeath` says whether that may be in the drain of a read too,
after the reply and before the acknowledgement. The `modify` request is left out: no
client in the repository sends it.

### Watches

`batch` is what is left of the events of the last `epoll_wait`; `open` are the
daemon's descriptors, given out lowest number first, as Linux does. `MainReadable`
handles the datagrams (`checkin` arms the death watch, `proc_open` opens a channel:
a socket pair, of which the guest's end is closed again, and a pidfd);
`SocketReadable`, `TargetDied` and `WatchFired` are the other arms of the loop, found
by the descriptor's number as in the code. `told` and `torn` record whom the daemon
reported and tore down. The re-arming of a channel and consoles are left out.

### Mutex, SimpleLock, SimpleOnce, SimpleRwlock, SimpleLazy

A step is one atomic operation or one futex call of `lock.c`. `pc` says where each
thread is, sleeping included (the kernel's queue of a futex is the set of threads
that sleep on it). The words keep their bits: `state` is unlocked, locked or
contended; `cv` a counter with its two bits; `word` the readers, the writer's bit and
need-to-wake. FUTEX_WAIT sleeps only if the word is as expected, FUTEX_WAKE wakes in
any order, FUTEX_REQUEUE moves sleepers, and `Interrupted` is a wait that returns
without a wake.

| model | code |
|---|---|
| `FastPath`, `Mark`, `FutexWait`, `Retry`, `LockSlow`, `TryLock` | `libsimple_lock_lock` with its loop, `_lock_slow`, `_try_lock` |
| `Unlock`, `FutexWake` | `libsimple_lock_unlock` |
| `CondvarWait`, `CondvarSleep`, `NotifyOne...`, `NotifyAll...`, `Requeue` | the condition variable, whose waiter reads the counter, unlocks and sleeps |
| `Trigger`, `Callback`, `Complete`, `WakeAll`, `BecomeWaiter`, `Reload` | `libsimple_once` |
| `ReadLoop`, `WriteLoop`, `ReadWaits`, `WriteWaits`, `ClearNeed`, `WakeReaders`, `WakeWriter` | the read-write lock |

`Mutex` is what any lock promises: requests, one owner, acquisition only of a free
lock, and (as `Progress`) that a free lock that is wanted is taken. `SimpleLock`
instantiates it with the holder read off the program counters; two holders would map
to an owner the mutex cannot have. `SimpleLazy` composes `SimpleOnce` and
`SimpleRwlock`: threads make the lock with once and use it then. The clients
(producers and consumers) are external and follow the usage the functions require.

### Shellspawn

| model | code |
|---|---|
| `lst`, `result`, `signals`, `got` | a launcher: where it is, its exit status, its self-pipe, what it has read |
| `up`, `down`, `open`, `backlog` | the control sockets and the listening socket |
| `dpc` | where the daemon is: its event loop, or one of the three waits of `start_spawn`, or dead |
| `g_spawns`, `reads`, `exits` | slots, the two kevents of a spawn |
| `tgt`, `wstatus`, `orphans` | the targets, and those a dead daemon left behind |
| `connect_shellspawn`, `push_cmd`, `spawn_go`, `drain_signals`, `shell_loop`, `kill_container` | the launcher's functions |
| `Accept`, `read_commands`, `CommandsEnd`, `CommandsFail`, `Started`, `Register`, `handle_control`, `TargetExited`, `finish_spawn` | the daemon's event loop |
| `Crash`, `Restart`, `Die`, `TargetExits`, `execv` | the faults, the restart by launchd, and the child |

`kill_container` is the startup watchdog: it kills the container's init and with it
the daemon and every target, or finds no pid in `.init.pid` and ends its launcher
only. `CommandsFail` closes the connection under a launcher that lives: a command read
short, a GO without descriptors, no pipe, no child. An exit status is one of 0, 2 or killed by a signal; the
launcher gets `WEXITSTATUS` of it, as the code writes it. The launcher's pumping of
a terminal, the contents of commands and the stdio descriptors passed with GO are left
out.

### LaunchdJob

A handler of launchd is one action on the record `job[j]`; what it calls
(`job_reap`, `job_dispatch`, `job_start`, ...) is an operator from a record to the
set of records it may leave. The fields keep the source's names; `right` is where
the receive right of the job's service is, `inset` whether its port is in the demand
set, `respawn` and `exitTimer` the two timers. Times are abstract: `young` is "less
than `min_run_time` since the start", and a timer that is set may fire.

| model | code |
|---|---|
| `job_new`, `job_dispatch`, `job_keepalive`, `job_start` with `Throttled`, `ForkFails`, `Forked`, `KilledBeforeAttach` | from a job's import to its process |
| `job_watch`, `job_ignore`, `machservice_*` | in and out of the demand set, the reset and the drain of a port |
| `job_callback_proc`, `job_reap`, `job_active`, `job_useless` | an exit is seen |
| `job_ack_port_destruction` with `Returned`, `AfterHack` | a receive right comes back, before or after the exit |
| `mportset_callback`, `RespawnTimer`, `ExitTimer`, `job_mig_check_in2` | the other events |
| `StartJob`, `StopJob`, `RemoveJob`, `launchd_shutdown`, `job_stop`, `job_kill`, `job_remove`, `job_delete`, `jobmgr_do_garbage_collection`, `ClientExits` | requests, removal and the end |

`kind` gives each job its traits: KeepAlive, a service, `ResetAtClose`,
drain-on-crash, an infinite exit timeout (`exit_timeout` 0, "patient"); and, of its
process, that it may be clean, hang in the kernel, or
die before launchd attaches to it. `SlowKill` says whether outside a shutdown a killed
process may outlive the exit timer.

`MCGuestRpc`, `MCTimer`, `MCLocks` and `MCLaunchdJob` hold model values and traits.
`GuestRpcProofs`, `TimerProofs`, `LocksProofs`, `KqchanProofs`, `SimpleLockProofs`,
`SimpleLazyProofs`, `ShellspawnProofs` and `LaunchdJobProofs` hold the proofs.

## 4. Runs

| run | instance | shows |
|---|---|---|
| `rpc_calls` | 2 processes of one thread, one may die, 3 calls each, 2 S2C per call, channel reads, no signals | calls conserved, not duplicated, in step, S2C calls answered; checkout and death leave no parked microthread, and lose no call of another process |
| `rpc_interrupt` | 1 thread, 6 calls, one handler level, fairness | calls of a handler stay apart from the call it interrupted; replies are sent in the event that completes them; a call that cannot block is answered |
| `timer` | 2 timer calls, deadlines 1..4, 2 firings at a time, fairness | the timerfd is never later than a queued deadline; arming keeps the nearest; no timer call stays due |
| `locks` | 4 microthreads woken only by their wakers, and the bare loop, fairness | links on one queue and once, a free mutex is on its way to a waiter and does not stay free |
| `locks_stray` | 3 microthreads, one of them one-shot and of a dying process, one signal | exclusion survives microthreads that are resumed by others than their wakers |
| `kq_mach` | a port or a set, with and without other receivers, 3 messages, fairness | notifications and replies stay in step; nothing pending goes unannounced (for a set: if nobody else receives from it); a closed channel is freed, after its waiter |
| `simple_lock` | 2 producers, 2 consumers, 2 items, notified under the lock, fairness; 100 000 states | the lock is a `Mutex` and makes progress; no notification is lost |
| `simple_rwlock` | 3 threads, 4 calls, fairness; 113 000 states | made once and before use; the word counts the holders; every caller of once returns and every reader and writer comes in |
| `shellspawn` | 2 launchers, 1 slot, 1 signal each, fairness; 122 000 states | targets attended, exit codes true; every GO is answered, a target ends with its launcher, a launcher with its target |
| `launchd_job` | one job, of each of the kinds in which the traits can be combined but `ResetAtClose` with an early death; one message, one fault, one request, fairness; 300 000 states | launchd is never deaf to the job, its port is in the demand set only while it is idle, crash drains and rights are in order, one instance at a time; demand is served, removals and a shutdown end |
| `launchd_deaf`, `watch_reuse` | | disagreements, below |

The bounds are the smallest in which the cases meet. Two guest threads are one that
blocks and one that wakes; all interaction between threads is a wake, so a third
adds only more of the same. Three calls let a blocked call, a handler's enter and a
further call of the handler be outstanding on one thread, and six let two handlers
follow each other; one nesting level is a handler over an interrupted call. Two S2C
calls let the second find
what the first left. Two timer calls are a nearest and another; four clock values
let a deadline be past, present, next and later; two firings let one be parked while
another is reported. Four microthreads are an owner, a waiter in the mutex's queue,
one in the condition variable's and one that is scheduled. Three messages let one be
read, one be queued and one arrive during the read; a read semaphore of up to three
lets the waiter fall behind the guest by more than one read.

Two producers and two consumers are a holder, a waker and two sleepers, on the lock
or on the condition variable, which is what `FUTEX_REQUEUE` needs to move one and
wake one; with three threads a read-write lock has two readers and a writer, or a
holder and a waiter of each sort. One slot and two launchers let the daemon be full,
and let one launcher's fate interfere with the other's. For launchd, faults,
messages and requests are one each because each starts a chain of events whose
orders are free. Its handlers concern one job at a time, so `launchd_job` has one, of
every kind: also KeepAlive with an early death, and clean with hanging. The one kind it
leaves out is `launchd_deaf`'s. Only a shutdown looks at all jobs: `ShutdownCompletes`
was also checked with two (`Jobs = {a, b}`, `KindsOf <- MCTwoKindsOf`, `MaxFaults = 0`;
115 000 states), one with a service whose stop is followed by the exit timer, by SIGKILL
at once or by neither, and one without. `watch_reuse` has four processes
(the one that died, two whose death watches fill the gaps in the numbers, and the one
that is torn down), one channel, and four descriptors, as many as they use.

`CHECK_DEADLOCK FALSE` stands where the guest may have no more calls to make
(`MaxCalls`, `MaxItems`, `MaxChans`), the clock may have stopped (`MaxTime`), a mutex
owner may have been freed (`locks_stray`), the channel is gone (`kq_mach`), every
launcher has exited (`shellspawn`), or launchd has (`launchd_*`).

### Fairness

* `rpc_interrupt`: the loop handles queued datagrams, because `epoll_wait` is level
  triggered and an event ends (a blocking call suspends to the loop); a guest thread
  in a receive loop reads what arrives. Nothing is assumed of wakeups, signals or
  deaths.
* `timer`: an expired timerfd is reported, a reported event is handled, and a
  firing microthread that parked finishes.
* `locks`: the run queue is drained, which the loop does before every wait.
* `kq_mach`: an event the loop has begun goes on to its end (weak fairness of
  `Daemon`). `ReadStarts` and `Drop` are strongly fair: they need an idle loop, which
  alternates with the loop's other events, and a level-triggered epoll reports the
  channel again until its turn comes. Nothing is assumed of the guest.
* `simple_lock`, `simple_rwlock`: a thread that is awake in an operation goes on with
  it, which the host's scheduler gives. Nobody has to begin an operation, and a
  sleeper returns only when woken (`Interrupted` is not fair).
* `shellspawn`: programs that can run do, a child execs or fails to, launchd restarts
  the daemon. `Accept`, `handle_control` and `TargetExited` are strongly fair: they
  need the daemon in its loop, and kqueue hands over every ready event in turn.
  Nothing makes a target exit or a launcher send.
* `launchd_*`: whatever is due for a job (an exit, a timer, a returned right, the
  effect of SIGKILL, the passing of `min_run_time`) happens in the end; some port
  with mail is served, or the operator's own process ends. No assumption picks the
  port, since `mportset_callback` takes the first. Nobody has to send, exec, check
  in, exit or shut down.

### Disagreements with what the repository says

Each is a run with one property, the statement quoted under `findings`.

| run | the code | instead of |
|---|---|---|
| `launchd_deaf` | a child is dead before its kevent is attached: `job_reap` gives a service with `ResetAtClose` a new port, and the `job_watch` after it does nothing because the job was never ignored; the new port is in no demand set | watching the job so that it can be respawned (`core.c:4624`) |
| `watch_reuse` | the hang-up of a dead process's channel closes the channel's pidfd, whose event is in the same batch; a checkin gets its number for the death watch of a live process, which the old event tears down | tearing down a process that died (`ciderd.rs:474`) |

Other instances of the same models show where the passing runs' conditions come
from; each is a constant to change in a cfg.

| change | breaks | because |
|---|---|---|
| `rpc_calls` with `MaxNest = 1` | `CallConserved` | a reply the client pushed back is dropped (`rpc_wire.rs:2570`), so the interrupted call waits for ever |
| the same | `S2CAnswered` | an S2C call of a handler removes the stored answer of the interrupted one (`s2c.rs:179`) |
| the same | `ParkedHasSlot` | a thread that checks out inside a handler leaves its microthread parked |
| `rpc_calls` with `NoUnsentReply` as its invariant | `NoUnsentReply` | the death arm drains and does not flush (`ciderd.rs:473`), nor does the channel's arm: a woken thread's reply waits for an unrelated event |
| `rpc_calls` with `TornDown` as its invariant | `TornDown` | a datagram read after its sender's teardown creates its state again (`ciderd.rs:584`) |
| `rpc_interrupt` with `MaxNest = 2` | `DeferredReplies`, `InStep` | the `interrupt_exit` of a nested handler ends the outer interrupt |
| `timer` with `9` (`Forever`) in `Deadlines` | `NearestKept`, `NothingMissed` | a deadline of `UINT64_MAX` disarms the timerfd |
| `locks` with a one-shot microthread in `Kernel` | `LinkedOnce` | parked on a mutex, it runs before its waker and queues its link twice |
| `locks` with `MaxSignals = 1` | `LinkedOnce` | `interrupt_exit` runs a call suspended in a lock, which queues its link twice |
| `locks` with a microthread in `Dying`, `BareLoop = FALSE` | `FreeMeansWoken` | the link of a freed microthread stays queued and takes a wakeup (`registry.rs:203`) |
| `locks_stray` with `BareLoop = TRUE` | `MutualExclusion` | the loop takes a mutex whose owner is alive and parked |
| `kq_mach` with `Notified` as its invariant | `Notified` | the waiter of a shared set, woken for a message that another receiver takes, waits for a read that no notification asked for (`xnu/kqchan.rs:415`) |
| `kq_mach` with `LateDeath = TRUE` | `NotifiedWhilePending` | a port that dies between a read's reply and its acknowledgement posts its knote while notifications are off, and the check after the read looks for messages only (`kqchan.rs:593`) |
| `watch_reuse` with `Procs = {p1, p2}`, `MaxChans = 2`, `Fds = 1..6`, and `told` for `torn` in `OnlyTheDead` | `OnlyTheDead` | the number goes to the pidfd of a channel of a live process instead, which is reported dead with NOTE_EXIT (`ciderd.rs:460`) |
| `simple_lock` with `NotifyLocked = FALSE` | `NoNotifyLost` | two `notify_one` at once: the second finds the bit that the first has cleared and not yet set again (`lock.c:426` to `436`), and wakes nobody although a sleeper is left |
| `launchd_job` with `KindsOf <- MCKeptKindsOf` and `KeptAlive` | `KeptAlive` | the child of a KeepAlive job is dead before its kevent is attached: `job_start` reaps and watches, but nothing dispatches the job and no timer is set (`core.c:4615` to `4630`), so it has no process until mail comes |
| `launchd_job` with `KindsOf <- MCHangKindsOf` and `HungShutdownEnds` | `HungShutdownEnds` | a clean process is sent SIGKILL by a stop before the shutdown, without an exit timer, and hangs; the shutdown's `job_stop` returns because the job is stopped already (`core.c:989`), so no exit is simulated and the shutdown never ends, although hung processes are to be worked around (`core.c:3724`) |
| `launchd_job` with `SlowKill = TRUE` | `OneInstance`, `DemandSetIdle` | `job_callback_timer` simulates the exit of a process that may still hold the right, in normal operation too, which the comment at `core.c:1033` says cannot be done safely |

Some behaviours are part of the models without contradicting a statement of the
repository. `shellspawn`: with no slot free, the target is killed after its launcher
was told it started; the exit code of a target that a signal ended is 0; a signal
forwarded after the daemon closed the socket makes the launcher exit with 1; a
launcher that stops in the middle of its commands holds up the daemon, and the
watchdog of another launcher then kills the container; a write to a launcher that
was killed raises SIGPIPE. `launchd`: a clean process that is killed outside a
shutdown gets no exit timer; a job whose exit timeout is infinite holds up its removal
and a shutdown for as long as it ignores SIGTERM, which is what the setting asks for
(`core.c:1050`); and the stop of a job that has just crashed does not count as a crash.

## 5. Proofs

The theorems hold for every value of the constants that meets the assumptions.

**`GuestRpcConserves`, `GuestRpcNoDuplicates`, `GuestRpcInStep`, `GuestRpcS2CAnswered`,
`GuestRpcParkedHasSlot`, `GuestRpcEventsSend`, `GuestRpcNoUnsentReply`**
(`GuestRpcProofs`), for any number of guest threads and processes, calls, S2C calls and
deaths, with or without mach-port channels, and without signals (`MaxNest = 0`, as in
`rpc_calls`): a guest thread then has one call outstanding at most. With a
handler `CallConserved`, `S2CAnswered` and `ParkedHasSlot` fail (section 4), so the
hypothesis is needed. The last theorem also
assumes what `rpc_interrupt` assumes, no deaths and no channels: their events wake a
thread and do not flush, so a reply waits for the next event.
None of the properties is inductive. The invariant `Followed` says for each thread where
its call is, and what goes with that: queued while the daemon serves nothing for the
thread (`Queued`), waiting in XNU or answered and unsent (`Held`), suspended with its
S2C call on the way out (`Asked`) or with the answer on the way in (`Told`), on its way
back (`Sent`). That an answer in `REPLIES` is never a stale one is part of it
(`Suspended` has none). A thread of a dead process needs a weaker predicate (`Gone`): its
datagrams are still handled, before or after its teardown. The proof goes bottom up: what
one run of a microthread leaves (`DispatchRan`, `WakeRan`, `AnswerRan`), what flush, reap
and send make of that, and then one lemma for the thread whose datagram is handled
(`HandledFollowed`) and one for every other (`PassedFollowed`), from which each event of
the loop follows.

**`TimerNothingMissed`, `TimerNearestKept`** (`TimerProofs`), for any set of timer
calls and deadlines with `Forever \notin Deadlines` (without it both
fail, see above). `NothingMissed` alone is not inductive: `timer_arm` decides by
`TIMER_DEADLINE`, not by the timerfd, so a state where the copy is smaller than the
setting would lose a deadline. `CopyExact` (the two are equal while no firing is
unfinished) closes it: `IInv == TypeOK /\ CopyExact /\ NothingMissed`. The one step
that breaks the equality, a read of a timerfd that was re-armed in the same batch,
also starts a firing, and the firing's overriding `timer_arm` restores it.

**`LocksExclusion`** (`LocksProofs`): mutual exclusion among microthreads, with any
number of one-shot microthreads, signals and deaths, if the bare loop stays out
(`BareLoop = FALSE`, see above). The invariant is `TypeOK` with
`MutualExclusion`: only a microthread that sees a free mutex, or itself as its
owner, becomes owner, and that test and the assignment are one step.

**`LocksQueues`**, and **`LocksFreeMeansWoken`** as its corollary: `LinkedOnce`,
`NoLostWakeup` and `FreeMeansWoken` for any number of microthreads that only their wakers resume (no one-shot microthreads, signals,
deaths or bare loop). The run `locks` checks the same with the bare loop.
The inductive invariant adds `QueuedSuspended` (a queued link belongs to a
microthread suspended in that queue's operation), `ScheduledOnce` (the run queue
repeats nobody and holds nobody who is still queued), `OwnerHolds` and
`Undisturbed`. Without them a `drain` could append a link that is still in the
queue. The proof reduces every queue step to facts on `Elems` and `Distinct` of
`Append`, `Tail`, `\o` and `SubSeq`, which are lemmas of the module.

**`KqchanExchange`, `KqchanFreedAfterWaiter`, `KqchanNotified`** (`KqchanProofs`), for
every number of messages and reads. None of the three is inductive: each speaks of
idle moments, and says nothing of the steps between. `IInv` has three parts.
`Exchange` says what is on the socket in each phase of a read (`IdleWire`,
`ReadingWire`) and that the throttle is closed from the request to the
acknowledgement. `Life` names the five phases of a kqchan's life (no waiter, a
living one, a dying one, the destroyer signalled, freed), each with the exact run
queue: this is where the destroyer, which `run_on_task` queues although it parked, is
seen to come behind the waiter that signals it. `Announced` says why the waiter may
sleep: in its wait queue only without messages, on its semaphore only behind a
notification. It needs `~LateDeath` (section 4), the other two do not; in `IInv` it is
guarded by that.

**`SimpleLockIsMutex`** (`SimpleLockProofs`): the refinement of `Mutex`, for any set of
threads, with notifications in or out of the lock and waits that return unwoken. The
invariant is that the word is `unlocked` just when nobody holds the lock, and one
thread at most does; each step then is a request, an acquisition of a free lock, a
release or a stutter. **`SimpleLockSleepers`** adds what `LockProgress` rests on: nobody
sleeps on the lock's word unless the word is `locked_contended` or some thread is
about to wake a sleeper or to mark it so. **`SimpleLockNotifies`** is what
`NoNotifyLost` rests on, for `NotifyLocked` clients (without it, see above): a
notification finds its bit whenever somebody sleeps, and changes the word that those
who have not gone to sleep yet compare with.

**`OnceMadeBeforeUse`, `RwlockWordCounts`** (`SimpleLazyProofs`), for every finite set
of threads: the count is a cardinality, so the set must be finite. Once needs that
one caller at most is between its claim of the word and its completion. The
read-write lock needs, besides `WordCountsHolders`, only types; the lemmas
`ReaderIn`, `WriterIn` and `InsideSame` carry the cardinalities.

**`ShellspawnAttended`, `ShellspawnCode`** (`ShellspawnProofs`), for any number of
launchers, slots and signals, with crashes and restarts of the daemon, launchers that
die and the watchdog. Both follow a launcher through the daemon, so the invariant is
one predicate per launcher, `Followed`: `Place` (it is queued once, then served, then
has a target), `Slotted` (before the registration and after the reaping it has neither
slot nor filter, in between one slot that nobody shares), `Written` (what the daemon
wrote so far, by where the target is) and `Read`. `Slotted` is needed for the codes
too: `TargetExited` writes to whomever the slot names. `UntouchedKeeps` reduces every
step to the launcher it is about, and that `spawn_slot` finds a free slot rests on
the least element of a set of numbers.

**`LaunchdRights`, `LaunchdOneInstance`, `LaunchdDemandSet`, `LaunchdCrashDrained`,
`LaunchdNeverDeaf`** (`LaunchdJobProofs`), for any number of jobs, kinds, messages,
faults and requests. The first has no hypothesis; the others assume `~SlowKill`, and
the last that no kind both resets its port and may die early: other instances and
`launchd_deaf` show that they fail without. Kinds are assumed to give `ResetAtClose`
and drain-on-crash only to jobs with a service, whose attributes they are. The
invariant is again one predicate, on a job's record: `Core` (which fields go together
and where the right may be), `Timely` (a job whose right is out is ignored, so that
it is neither watched nor started; poisoned mail waits for the reaping or for the
right), `Watched` and `Heard`. `Sound` records may enter `job_dispatch`, `Settled` ones
are what every event leaves; each operator of `core.c` has a lemma that takes the one
to the other, and each event composes them.

Only model-checked: `GuestRpc` with signals, `InterruptedCallUntouched`, which is about
them, `Watches`, and every liveness property: `Answered`,
`DueRuns`, `HandedOn`, `Destroyed`, `LockProgress`, `NoNotifyLost`, `OnceReturns`,
`EverybodyComesIn`, `Served`, `TargetEnds`, `ExitReported`, `DemandServed`,
`RemovalCompletes`, `ShutdownCompletes` (the prover has no fairness reasoning).

## 6. Not modelled

* The XNU C code: wait queues, ports and the timer queue appear by what the Rust
  glue asks of them.
* The contents of calls, replies and S2C operations.
* Loss or duplication of datagrams: the sockets are Unix datagram sockets, reliable
  and ordered between two ends.
* The daemon's own crash: nothing is persisted.
* launchd's `waiting4ok` (`core.c:3788`, `4035`): with a support system's event stream
  attached, a job whose program was not found is not dispatched again until an event
  arrives, and `DemandServed` and `RemovalCompletes` wait with it.
* The timer of an infinite exit timeout that SIGKILL set and that outlives its job: it
  fires for a record that was freed.
* Failures of the primitives: an S2C datagram that cannot be sent (`s2c.rs:180`; the
  socket of a thread refuses one only once its process is dead), `waitpid` of a reaped
  child, a failing `proc_terminate`.
* `xnu_sys_mutex_try_lock` unlocks a queue lock that it never took
  (`locks.rs:211`), without effect on one OS thread; of the bare loop's two seconds
  (`locks.rs:155`) `Locks` has that they may pass, whoever owns the mutex.
* launchd's socket groups, semaphores and `OtherJob`, `StartInterval` and
  `StartCalendarInterval`, sub-managers and per-user launchds, anonymous jobs but for
  their exit, XPC domains, legacy Mach jobs, the shutdown monitor and the checkpointing
  of state; `launchctl` and `liblaunch`, which only send the requests.
* `job_ack_port_destruction` reads its machservice after a removal freed it, and the
  uncorking of a fork pipe whose child is gone: effects outside the model's state.
* Memory order weaker than sequential consistency in `lock.c`.
* Most of the Darwin userland (`src/src/darwin/frameworks` and the libraries): stubs
  that log their name and return, headers, and imported code; it is by far the
  largest part of the repository and has no concurrency or state of its own. LAPACK,
  BLAS and the Core frameworks are of this sort. Combine's subjects are an exception
  and are planned.
* The components of the plan's items 10 to 14, the container and the build rules;
  `PROJECT.json` gives the reason for each.
