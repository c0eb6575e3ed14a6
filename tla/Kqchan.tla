------------------------------- MODULE Kqchan -------------------------------
(***************************************************************************)
(* A mach-port kqueue channel: how a guest's kevent() on a Mach port or a   *)
(* port set hears of a message.  Guest and daemon share a socketpair and    *)
(* keep a strict exchange: the daemon sends a notification, the guest       *)
(* answers it with a read request, the daemon replies.                      *)
(*                                                                          *)
(* XNU tells the channel of a message in one of two ways.  On a port the    *)
(* sender's call runs the knote callback.  On a port set a waiter           *)
(* microthread blocks on the set's wait queue; woken, it runs the callback, *)
(* then waits on a semaphore until the guest has read.  Closing the channel *)
(* ends the waiter and frees the structure it runs in.                      *)
(*                                                                          *)
(* The daemon is one OS thread.  A step is a stretch of code between points *)
(* where another microthread, or another event, may come in.                *)
(***************************************************************************)
EXTENDS Integers, Sequences

CONSTANTS
  MaxMsgs,  \* bound: messages queued at a time
  MaxSem,   \* bound: the guest reads while the read semaphore is below
  LateDeath \* whether the port may die after a read's reply and before its end

ASSUME KqchanAssumption ==
  /\ MaxMsgs \in Nat \ {0}
  /\ MaxSem \in Nat \ {0}
  /\ LateDeath \in BOOLEAN

VARIABLES
  mode,       \* what is watched: a "port", or a port "set"
  shared,     \* other threads receive from it too
  msgs,       \* messages queued there
  vanished,   \* the port died: "no", "yes", or "told" once the guest has read so
  chan,       \* the channel: "none", "open", or "freed"
  can_send_notification,
  callback,   \* the kqchan's callback is set
  wire,       \* datagrams to the guest: "note" or a read's reply
  guest,      \* "idle", "reading" (sent a read, waits for the reply), "closed"
  request,    \* a read request is in the daemon's socket
  loop,       \* what the serve loop is doing
  running,    \* who runs: the loop and what it calls, or the waiter
  runq,       \* RUN_QUEUE, of what it holds: the waiter and the destroyer
  waiter,     \* where the waiter is, or from where it goes on
  waitq,      \* the kqchan is linked to the set's wait queue
  readSem,    \* waiter_read_semaphore
  deathSem,   \* waiter_death_semaphore
  destroyer   \* the microthread that destroys the kqchan

portVars   == <<mode, shared, msgs, vanished>>
noteVars   == <<can_send_notification, wire>>
guestVars  == <<guest, request>>
waiterVars == <<waiter, waitq, readSem, deathSem>>
schedVars  == <<loop, running, runq, destroyer>>
vars == <<portVars, chan, noteVars, callback, guestVars, waiterVars, schedVars>>

Replies == {"event", "none", "gone"}

-----------------------------------------------------------------------------
\* The socket: what is sent to a closed end is lost.
Sent(m) == IF guest = "closed" THEN wire ELSE Append(wire, m)

\* One notification at a time, until the guest has read.
send_notification ==
  IF can_send_notification
  THEN wire' = Sent("note") /\ can_send_notification' = FALSE
  ELSE UNCHANGED noteVars

\* The callback the channel registers.
mach_port_notify_cb == send_notification

\* knote_post, and the waiter's use of the callback.
knote_post == IF callback THEN mach_port_notify_cb ELSE UNCHANGED noteVars

xnu_sys_kqchan_mach_port_has_events == msgs > 0

\* The waiter is made ready, to go on from w.
Ready(w) == waiter' = w /\ runq' = Append(runq, "waiter")

\* Wakes the waiter if it is blocked on the set's wait queue.
WakeWaitq ==
  IF waiter = "waitq" THEN Ready("peek") ELSE UNCHANGED <<waiter, runq>>

\* xnu_sys_semaphore_up on the read semaphore.
UpRead ==
  IF waiter = "readsem"
  THEN Ready("top") /\ UNCHANGED readSem
  ELSE readSem' = readSem + 1 /\ UNCHANGED <<waiter, runq>>

\* Code other than the channel's runs now: a guest's call, or a microthread the
\* loop drains.  A call that comes to an idle loop ends with a drain.
OthersRun ==
  /\ running = "loop"
  /\ loop \in {"idle", "drain", "fill", "read", "close"}
  /\ loop' = IF loop = "idle" THEN "drain" ELSE loop
  /\ UNCHANGED <<running, destroyer>>

-----------------------------------------------------------------------------
(* What happens to the watched port. *)

\* A message is queued.  On a port XNU runs the knotes when the queue was empty,
\* and may do so again for a more urgent message; on a set it wakes the wait
\* queue.
MessageQueued ==
  /\ OthersRun
  /\ vanished = "no" /\ msgs < MaxMsgs
  /\ msgs' = msgs + 1
  /\ \/ mode = "port" /\ chan = "open" /\ knote_post
     \/ (mode = "set" \/ chan # "open" \/ msgs > 0) /\ UNCHANGED noteVars
  /\ WakeWaitq
  /\ UNCHANGED <<mode, shared, vanished, chan, callback, guestVars, waitq, readSem, deathSem>>

\* A message goes straight to a thread blocked in a receive.  XNU wakes the
\* waiter on its way to that thread, because a waiter takes no message.
MessageHandedOver ==
  /\ OthersRun
  /\ shared /\ vanished = "no" /\ waiter = "waitq"
  /\ WakeWaitq
  /\ UNCHANGED <<portVars, chan, callback, noteVars, guestVars, waitq, readSem, deathSem>>

\* A thread receives a queued message.
MessageReceived ==
  /\ OthersRun
  /\ shared /\ msgs > 0
  /\ msgs' = msgs - 1
  /\ UNCHANGED <<mode, shared, vanished, chan, callback, noteVars, guestVars, waiterVars, runq>>

\* The port or set is destroyed with its messages, by a guest's call, by the
\* teardown of its task, or by a microthread the loop resumes: its knotes are
\* marked, their owners told, and its waiters woken.
knote_vanish ==
  /\ OthersRun /\ (loop = "read" => LateDeath)
  /\ chan = "open" /\ vanished = "no"
  /\ vanished' = "yes" /\ msgs' = 0
  /\ knote_post
  /\ WakeWaitq
  /\ UNCHANGED <<mode, shared, chan, callback, guestVars, waitq, readSem, deathSem>>

-----------------------------------------------------------------------------
(* The guest: libkqueue's evfilt_machport_copyout. *)

\* Reads the notification and asks for the event.  Anything else in its place
\* makes it discard what the socket holds.
GuestNotified ==
  /\ guest = "idle" /\ wire # <<>>
  /\ readSem < MaxSem
  /\ IF Head(wire) = "note"
     THEN guest' = "reading" /\ request' = TRUE /\ wire' = Tail(wire)
     ELSE wire' = <<>> /\ UNCHANGED guestVars
  /\ UNCHANGED <<portVars, chan, can_send_notification, callback, waiterVars, schedVars>>

\* Reads the reply; a notification in its place fails the exchange.
GuestReply ==
  /\ guest = "reading" /\ wire # <<>>
  /\ guest' = "idle" /\ wire' = Tail(wire)
  /\ UNCHANGED <<portVars, chan, can_send_notification, callback, request, waiterVars, schedVars>>

\* The guest closes its end, or dies.
GuestCloses ==
  /\ chan = "open" /\ guest # "closed"
  /\ guest' = "closed" /\ wire' = <<>>
  /\ UNCHANGED <<portVars, chan, can_send_notification, callback, request, waiterVars, schedVars>>

-----------------------------------------------------------------------------
(* The daemon's end of the channel. *)

\* The filter attaches to the port, or links to the set and starts the waiter.
knote_link_waitq ==
  IF mode = "set"
  THEN waitq' = TRUE /\ Ready("top")
  ELSE UNCHANGED <<waitq, waiter, runq>>

xnu_sys_kqchan_mach_port_create == chan' = "open" /\ callback' = TRUE /\ knote_link_waitq

\* MachPortKqchan::open: a message already queued is announced.
Open ==
  /\ xnu_sys_kqchan_mach_port_create
  /\ IF xnu_sys_kqchan_mach_port_has_events THEN send_notification ELSE UNCHANGED noteVars

\* The guest's call that opens the channel.
kqchan_mach_port_open ==
  /\ chan = "none" /\ running = "loop" /\ loop = "idle" /\ vanished = "no"
  /\ Open
  /\ loop' = "drain"
  /\ UNCHANGED <<portVars, guestVars, readSem, deathSem, running, destroyer>>

\* Mutant: notifications are enabled before the reply is sent.
ReadStartsEnabled ==
  /\ chan = "open" /\ running = "loop" /\ loop = "idle" /\ request
  /\ request' = FALSE /\ loop' = "fill" /\ can_send_notification' = TRUE
  /\ UNCHANGED <<portVars, chan, wire, callback, guest, waiterVars, running, runq, destroyer>>

\* on_readable takes the read request and runs the microthread that fills the
\* reply.
ReadStarts ==
  /\ chan = "open" /\ running = "loop" /\ loop = "idle" /\ request
  /\ request' = FALSE /\ loop' = "fill"
  /\ UNCHANGED <<portVars, chan, noteVars, callback, guest, waiterVars, running, runq, destroyer>>

\* Fills the reply: with the filter's message (taken, or reported by name and left
\* for the guest to receive), with the sentinel when there is none, or with the
\* vanish event.  The waiter is told, unless the port vanished.
xnu_sys_kqchan_mach_port_fill(reply) ==
  IF vanished # "no"
  THEN reply = "gone" /\ vanished' = "told" /\ UNCHANGED <<msgs, waiter, readSem, runq>>
  ELSE /\ \/ reply = "event" /\ msgs > 0 /\ msgs' \in {msgs, msgs - 1}
          \/ reply = "none" /\ msgs = 0 /\ UNCHANGED msgs
       /\ UNCHANGED vanished
       /\ IF mode = "set" THEN UpRead ELSE UNCHANGED <<waiter, readSem, runq>>

\* The body of the read's microthread: fill the reply and send it.
ReadReplies ==
  /\ running = "loop" /\ loop = "fill"
  /\ \E reply \in Replies : xnu_sys_kqchan_mach_port_fill(reply) /\ wire' = Sent(reply)
  /\ loop' = "read"
  /\ UNCHANGED <<mode, shared, chan, can_send_notification, callback, guestVars, waitq, deathSem,
                 running, destroyer>>

\* Mutant: what came in during the read is not announced.
AckSilently ==
  /\ running = "loop" /\ loop = "read" /\ runq = <<>>
  /\ can_send_notification' = TRUE
  /\ loop' = "idle"
  /\ UNCHANGED <<portVars, chan, wire, callback, guestVars, waiterVars, running, runq, destroyer>>

\* The read's drain is over: notifications are enabled again, and what is still
\* queued is announced.
Ack ==
  /\ running = "loop" /\ loop = "read" /\ runq = <<>>
  /\ can_send_notification' = ~xnu_sys_kqchan_mach_port_has_events
  /\ wire' = IF xnu_sys_kqchan_mach_port_has_events THEN Sent("note") ELSE wire
  /\ loop' = "idle"
  /\ UNCHANGED <<portVars, chan, callback, guestVars, waiterVars, running, runq, destroyer>>

\* on_readable finds the guest's end closed: the channel is dropped, its callback
\* disabled, and a microthread run to destroy the kqchan.
Drop ==
  /\ chan = "open" /\ running = "loop" /\ loop = "idle" /\ guest = "closed" /\ ~request
  /\ callback' = FALSE /\ loop' = "destroy"
  /\ UNCHANGED <<portVars, chan, noteVars, guestVars, waiterVars, running, runq, destroyer>>

\* Mutant: the waiter is not interrupted.
DestroyNoClearWait ==
  /\ running = "loop" /\ loop = "destroy"
  /\ IF mode = "set"
     THEN /\ waitq' = FALSE
          /\ runq' = Append(runq, "destroyer") /\ destroyer' = "waits"
          /\ UNCHANGED chan
     ELSE chan' = "freed" /\ UNCHANGED <<waitq, runq, destroyer>>
  /\ loop' = "close"
  /\ UNCHANGED <<portVars, noteVars, callback, guestVars, waiter, readSem, deathSem, running>>

\* Mutant: the kqchan is freed without waiting for the waiter's death.
DestroyAtOnce ==
  /\ running = "loop" /\ loop = "destroy"
  /\ IF waiter \in {"waitq", "readsem"} THEN Ready("die") ELSE UNCHANGED <<waiter, runq>>
  /\ waitq' = FALSE /\ chan' = "freed"
  /\ loop' = "close"
  /\ UNCHANGED <<portVars, noteVars, callback, guestVars, readSem, deathSem, running, destroyer>>

\* xnu_sys_kqchan_mach_port_destroy.  A port's kqchan is freed.  A set's is
\* unlinked: the waiter is told to stop and, if blocked, interrupted, and the
\* destroyer waits for its death; it parks, and run_on_task puts it on the run
\* queue all the same.
knote_unlink_waitq ==
  /\ running = "loop" /\ loop = "destroy"
  /\ IF mode = "set"
     THEN /\ waitq' = FALSE
          /\ LET blocked == waiter \in {"waitq", "readsem"}
                 q == IF blocked THEN Append(runq, "waiter") ELSE runq
             IN /\ waiter' = IF blocked THEN "die" ELSE waiter
                /\ IF deathSem > 0
                   THEN /\ runq' = q /\ deathSem' = deathSem - 1
                        /\ chan' = "freed" /\ UNCHANGED destroyer
                   ELSE /\ runq' = Append(q, "destroyer") /\ destroyer' = "waits"
                        /\ UNCHANGED <<deathSem, chan>>
     ELSE chan' = "freed" /\ UNCHANGED <<waitq, waiter, runq, deathSem, destroyer>>
  /\ loop' = "close"
  /\ UNCHANGED <<portVars, noteVars, callback, guestVars, readSem, running>>

-----------------------------------------------------------------------------
(* The scheduler. *)

\* drain pops a microthread.  The destroyer goes on from its semaphore: signalled,
\* it frees the kqchan; a finished microthread does nothing; one that nobody has
\* signalled reads a wait result that XNU does not expect.
RunNext ==
  /\ running = "loop" /\ loop \in {"drain", "read", "close"} /\ runq # <<>>
  /\ runq' = Tail(runq)
  /\ \/ /\ Head(runq) = "waiter"
        /\ running' = "waiter" /\ UNCHANGED <<destroyer, chan>>
     \/ /\ Head(runq) = "destroyer"
        /\ destroyer' = IF destroyer = "waits" THEN "panic" ELSE "done"
        /\ chan' = IF destroyer = "signalled" THEN "freed" ELSE chan
        /\ UNCHANGED running
  /\ UNCHANGED <<portVars, noteVars, callback, guestVars, waiterVars, loop>>

\* The run queue is empty and the event is over.
DrainEnds ==
  /\ running = "loop" /\ loop \in {"drain", "close"} /\ runq = <<>>
  /\ loop' = "idle"
  /\ UNCHANGED <<portVars, chan, noteVars, callback, guestVars, waiterVars, running, runq, destroyer>>

-----------------------------------------------------------------------------
(* The waiter: kqchan_waitq_waiter_entry. *)

WaiterRuns(w) == running = "waiter" /\ waiter = w

\* The top of its loop: stop if the kqchan is unlinked, else wait on the set's
\* wait queue; XNU returns at once when the set holds a message.
WaiterTop ==
  /\ WaiterRuns("top")
  /\ IF waitq /\ msgs = 0
     THEN waiter' = "waitq" /\ running' = "loop"
     ELSE waiter' = (IF waitq THEN "peek" ELSE "die") /\ UNCHANGED running
  /\ UNCHANGED <<portVars, chan, noteVars, callback, guestVars, waitq, readSem, deathSem,
                 loop, runq, destroyer>>

\* Woken: run the callback if the filter finds a message.
WaiterPeeks ==
  /\ WaiterRuns("peek")
  /\ IF msgs > 0 THEN knote_post ELSE UNCHANGED noteVars
  /\ waiter' = "down"
  /\ UNCHANGED <<portVars, chan, callback, guestVars, waitq, readSem, deathSem, schedVars>>

\* Wait until the guest has read.
WaiterDowns ==
  /\ WaiterRuns("down")
  /\ \/ readSem > 0 /\ readSem' = readSem - 1 /\ waiter' = "top" /\ UNCHANGED running
     \/ readSem = 0 /\ waiter' = "readsem" /\ running' = "loop" /\ UNCHANGED readSem
  /\ UNCHANGED <<portVars, chan, noteVars, callback, guestVars, waitq, deathSem,
                 loop, runq, destroyer>>

\* Interrupted or told to stop: the death semaphore is raised, and the waiter is
\* finished.
WaiterDies ==
  /\ WaiterRuns("die")
  /\ waiter' = "dead" /\ running' = "loop"
  /\ IF destroyer = "waits"
     THEN destroyer' = "signalled" /\ runq' = Append(runq, "destroyer") /\ UNCHANGED deathSem
     ELSE deathSem' = deathSem + 1 /\ UNCHANGED <<destroyer, runq>>
  /\ UNCHANGED <<portVars, chan, noteVars, callback, guestVars, waitq, readSem, loop>>

-----------------------------------------------------------------------------
Init ==
  /\ mode \in {"port", "set"} /\ shared \in BOOLEAN /\ msgs = 0 /\ vanished = "no"
  /\ chan = "none" /\ can_send_notification = TRUE /\ callback = FALSE
  /\ wire = <<>> /\ guest = "idle" /\ request = FALSE
  /\ loop = "idle" /\ running = "loop" /\ runq = <<>>
  /\ waiter = "none" /\ waitq = FALSE /\ readSem = 0 /\ deathSem = 0
  /\ destroyer = "none"

\* The serve loop and the microthreads it runs.
Daemon ==
  \/ ReadStarts \/ ReadReplies \/ Ack
  \/ Drop \/ knote_unlink_waitq
  \/ RunNext \/ DrainEnds
  \/ WaiterTop \/ WaiterPeeks \/ WaiterDowns \/ WaiterDies

Next ==
  \/ MessageQueued \/ MessageHandedOver \/ MessageReceived \/ knote_vanish
  \/ GuestNotified \/ GuestReply \/ GuestCloses
  \/ kqchan_mach_port_open \/ Daemon

Spec == Init /\ [][Next]_vars

\* What the loop has begun goes on: other microthreads run a bounded time before
\* a drain comes to the channel's.  An idle loop has other events to handle, but
\* epoll reports a readable channel again until its turn comes.
FairSpec ==
  /\ Spec
  /\ WF_vars(Daemon)
  /\ SF_vars(ReadStarts) /\ SF_vars(Drop)

-----------------------------------------------------------------------------
(* Properties. *)

\* Every variable has its type and the counters keep within their bounds.
TypeOK ==
  /\ mode \in {"port", "set"} /\ shared \in BOOLEAN
  /\ msgs \in 0..MaxMsgs /\ vanished \in {"no", "yes", "told"}
  /\ chan \in {"none", "open", "freed"}
  /\ can_send_notification \in BOOLEAN /\ callback \in BOOLEAN
  /\ wire \in Seq({"note"} \cup Replies)
  /\ guest \in {"idle", "reading", "closed"} /\ request \in BOOLEAN
  /\ loop \in {"idle", "drain", "fill", "read", "destroy", "close"}
  /\ running \in {"loop", "waiter"}
  /\ runq \in Seq({"waiter", "destroyer"})
  /\ waiter \in {"none", "top", "peek", "down", "die", "waitq", "readsem", "dead"}
  /\ waitq \in BOOLEAN /\ readSem \in 0..MaxSem /\ deathSem \in 0..1
  /\ destroyer \in {"none", "waits", "signalled", "done", "panic"}

\* The exchange stays in step: the datagram the guest takes for a reply is one,
\* and so is the one it takes for a notification, although messages arrive and
\* callbacks run while a read is being answered.
ExchangeInStep ==
  wire # <<>> => CASE guest = "idle"    -> Head(wire) = "note"
                   [] guest = "reading" -> Head(wire) # "note"
                   [] OTHER             -> FALSE

\* There is something the guest has not been told of.
Pending == msgs > 0 \/ vanished = "yes"

\* Between events, an open channel with a pending message (or a vanished port) has
\* a notification out: the waiter turns a message that arrives on the watched port
\* into a callback.
Notified ==
  chan = "open" /\ loop = "idle" /\ Pending => ~can_send_notification

\* The same, but for a set from which other threads receive: no callback was
\* swallowed by the throttle, lost during a read, or not run because the waiter
\* was not listening.  (With LateDeath one is lost during a read: the check that
\* ends a read looks for messages only.)
NotifiedWhilePending == mode = "port" \/ ~shared => Notified

\* A freed kqchan is not in use: its waiter has died, and the destroyer was woken
\* by that death and by nothing else.
FreedAfterWaiter ==
  /\ chan = "freed" => waiter \in {"none", "dead"}
  /\ destroyer # "panic"

\* A channel whose guest end is closed is freed: the teardown's semaphores do not
\* leave the waiter and the destroyer waiting for each other.
Destroyed == (chan = "open" /\ guest = "closed") ~> (chan = "freed")
=============================================================================
