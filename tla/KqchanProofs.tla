----------------------------- MODULE KqchanProofs -----------------------------
(***************************************************************************)
(* The safety invariants of Kqchan, for every bound on messages and reads.  *)
(* None of them is inductive by itself.  Three inductive invariants carry   *)
(* them: what is on the wire in each phase of the exchange, where waiter    *)
(* and destroyer are in each phase of the kqchan's life, and why nothing    *)
(* that is pending stays unannounced.                                       *)
(***************************************************************************)
EXTENDS Kqchan, SequenceTheorems, TLAPS

\* The variables the invariants are about have their types.
Types ==
  /\ mode \in {"port", "set"} /\ shared \in BOOLEAN
  /\ msgs \in Nat /\ vanished \in {"no", "yes", "told"}
  /\ chan \in {"none", "open", "freed"}
  /\ can_send_notification \in BOOLEAN /\ callback \in BOOLEAN
  /\ guest \in {"idle", "reading", "closed"} /\ request \in BOOLEAN
  /\ loop \in {"idle", "drain", "fill", "read", "destroy", "close"}
  /\ readSem \in Nat

-----------------------------------------------------------------------------
(* The exchange. *)

\* The daemon has taken a read request and not yet acknowledged it.
Answering == loop \in {"fill", "read"}

\* From the guest's request to the acknowledgement no notification is sent.
Throttle ==
  /\ request => ~Answering
  /\ request \/ Answering => ~can_send_notification

\* What the socket holds while the guest waits for a notification: the one that
\* the throttle accounts for, and nothing while its last read is acknowledged.
IdleWire ==
  /\ ~request /\ loop # "fill"
  /\ wire = IF can_send_notification \/ loop = "read" THEN <<>> ELSE <<"note">>

\* What it holds while the guest waits for a reply: nothing until the reply is
\* sent; then the reply, and behind it what the acknowledgement announced.
ReadingWire ==
  IF request \/ loop = "fill" THEN wire = <<>>
  ELSE \E r \in Replies :
         wire = IF can_send_notification \/ loop = "read" THEN <<r>> ELSE <<r, "note">>

Exchange ==
  /\ Throttle
  /\ guest = "idle" => IdleWire
  /\ guest = "reading" => ReadingWire
  /\ guest = "closed" => wire = <<>>

-----------------------------------------------------------------------------
(* The life of the kqchan. *)

\* No waiter was ever made: the channel is not open yet, or it watches a port.
NoWaiter ==
  /\ waiter = "none" /\ runq = <<>> /\ running = "loop"
  /\ destroyer = "none" /\ ~waitq /\ deathSem = 0
  /\ mode = "set" => chan = "none"
  /\ chan = "none" => loop \in {"idle", "drain"} /\ vanished = "no"
  /\ chan = "open" => loop # "close" /\ (callback <=> loop # "destroy")
  /\ chan = "freed" => loop \in {"idle", "drain", "close"}

\* The waiter is at work: blocked, or running, or queued to go on from the top of
\* its loop or from its wait.
WaiterLives ==
  /\ mode = "set" /\ chan = "open" /\ destroyer = "none" /\ waitq /\ deathSem = 0
  /\ loop # "close" /\ (callback <=> loop # "destroy")
  /\ \/ waiter \in {"top", "peek"} /\ running = "loop" /\ runq = <<"waiter">>
        /\ loop \notin {"idle", "destroy"}
     \/ waiter \in {"top", "peek", "down"} /\ running = "waiter" /\ runq = <<>>
        /\ loop \in {"drain", "read"}
     \/ waiter \in {"waitq", "readsem"} /\ running = "loop" /\ runq = <<>>

\* The waiter was interrupted, and is before the destroyer in the run queue.
WaiterDying ==
  /\ mode = "set" /\ chan = "open" /\ destroyer = "waits" /\ ~waitq /\ deathSem = 0
  /\ loop = "close" /\ ~callback /\ waiter = "die"
  /\ \/ running = "loop" /\ runq = <<"waiter", "destroyer">>
     \/ running = "waiter" /\ runq = <<"destroyer">>

\* The waiter's death has signalled the destroyer, which is queued twice.
DestroyerSignalled ==
  /\ mode = "set" /\ chan = "open" /\ destroyer = "signalled" /\ ~waitq /\ deathSem = 0
  /\ loop = "close" /\ ~callback /\ waiter = "dead"
  /\ running = "loop" /\ runq = <<"destroyer", "destroyer">>

\* The kqchan is freed; the destroyer's other entry is popped to no effect.
KqchanFreed ==
  /\ mode = "set" /\ chan = "freed" /\ destroyer = "done" /\ ~waitq /\ deathSem = 0
  /\ waiter = "dead" /\ running = "loop"
  /\ \/ loop = "close" /\ runq = <<"destroyer">>
     \/ loop \in {"idle", "drain", "close"} /\ runq = <<>>

Life == NoWaiter \/ WaiterLives \/ WaiterDying \/ DestroyerSignalled \/ KqchanFreed

-----------------------------------------------------------------------------
(* The announcements. *)

\* A port that vanished has no messages; its vanishing is announced at once, and
\* told by the next read (if it did not vanish at the end of one).
VanishAnnounced ==
  /\ vanished # "no" => msgs = 0
  /\ vanished = "yes" => loop # "read"
  /\ vanished = "yes" /\ chan = "open" /\ callback => ~can_send_notification

\* On a port each message is announced when it is queued or when a read ends.
PortAnnounced ==
  mode = "port" /\ chan = "open" /\ callback /\ msgs > 0 => ~can_send_notification

\* On a set the waiter sleeps in its wait queue only when there is no message, and
\* on its semaphore only when a notification is out: a peek that found nothing
\* finds the semaphore raised by the read that took the message.
SetAnnounced ==
  mode = "set" /\ chan = "open" /\ callback /\ ~shared /\ vanished = "no" =>
    /\ waiter = "waitq" => msgs = 0
    /\ waiter = "peek" /\ msgs = 0 => readSem > 0
    /\ waiter = "down" /\ readSem = 0 => ~can_send_notification /\ (loop = "read" => msgs > 0)
    /\ waiter = "readsem" => ~can_send_notification /\ (loop = "read" => msgs > 0)

Announced == VanishAnnounced /\ PortAnnounced /\ SetAnnounced

IInv == Types /\ Exchange /\ Life /\ (~LateDeath => Announced)

-----------------------------------------------------------------------------
(* Sequences of at most two elements, as the socket and the run queue hold. *)

\* What Append, Head and Tail make of them.
LEMMA ShortSeqs ==
  ASSUME NEW a, NEW b
  PROVE  /\ Append(<<>>, a) = <<a>> /\ Append(<<a>>, b) = <<a, b>>
         /\ Head(<<a>>) = a /\ Tail(<<a>>) = <<>>
         /\ Head(<<a, b>>) = a /\ Tail(<<a, b>>) = <<b>>
         /\ <<a>> # <<>> /\ <<a, b>> # <<>>
<1>1. Append(<<>>, a) = <<a>> /\ Append(<<a>>, b) = <<a, b>>
  <2> DEFINE S == {a, b}
  <2>1. <<a>> \in Seq(S) /\ <<a, b>> \in Seq(S) /\ a \in S /\ b \in S
    OBVIOUS
  <2>2. Append(<<a>>, b) \in Seq(S) /\ Len(Append(<<a>>, b)) = Len(<<a, b>>)
    BY <2>1
  <2>3. \A i \in 1 .. Len(Append(<<a>>, b)) : Append(<<a>>, b)[i] = <<a, b>>[i]
    BY <2>1
  <2> HIDE DEF S
  <2>4. Append(<<a>>, b) = <<a, b>>
    BY <2>1, <2>2, <2>3, SeqEqual
  <2>5. QED
    BY <2>4
<1>2. Head(<<a>>) = a /\ Head(<<a, b>>) = a
  OBVIOUS
<1>3. Tail(<<a>>) = <<>> /\ Tail(<<a, b>>) = <<b>>
  OBVIOUS
<1>4. Len(<<>>) = 0 /\ Len(<<a>>) = 1 /\ Len(<<a, b>>) = 2
  OBVIOUS
<1>5. QED
  BY <1>1, <1>2, <1>3, <1>4

\* The datagrams on the wire.
LEMMA WireFacts ==
  /\ Append(<<>>, "note") = <<"note">>
  /\ Head(<<"note">>) = "note" /\ Tail(<<"note">>) = <<>> /\ <<"note">> # <<>>
  /\ \A r \in Replies :
       /\ Append(<<>>, r) = <<r>> /\ Append(<<r>>, "note") = <<r, "note">>
       /\ Head(<<r>>) = r /\ Tail(<<r>>) = <<>> /\ <<r>> # <<>>
       /\ Head(<<r, "note">>) = r /\ Tail(<<r, "note">>) = <<"note">>
       /\ <<r, "note">> # <<>>
  BY ShortSeqs

\* The microthreads in the run queue.
LEMMA RunqFacts ==
  /\ \A t \in {"waiter", "destroyer"} :
       /\ Append(<<>>, t) = <<t>>
       /\ Head(<<t>>) = t /\ Tail(<<t>>) = <<>> /\ <<t>> # <<>>
       /\ Append(<<t>>, "destroyer") = <<t, "destroyer">>
       /\ Head(<<t, "destroyer">>) = t /\ Tail(<<t, "destroyer">>) = <<"destroyer">>
       /\ <<t, "destroyer">> # <<>>
  BY ShortSeqs

-----------------------------------------------------------------------------
\* Every step keeps the types.
LEMMA TypesStep ==
  ASSUME Types, [Next]_vars
  PROVE  Types'
<1> USE DEF Types, vars, portVars, noteVars, guestVars, waiterVars, schedVars
<1>1. CASE MessageQueued
  <2>1. loop' = IF loop = "idle" THEN "drain" ELSE loop
    BY <1>1 DEF MessageQueued, OthersRun
  <2>2. can_send_notification' \in BOOLEAN
    BY <1>1 DEF MessageQueued, knote_post, mach_port_notify_cb, send_notification
  <2>3. QED
    BY <1>1, <2>1, <2>2, KqchanAssumption DEF MessageQueued
<1>2. CASE MessageHandedOver
  BY <1>2 DEF MessageHandedOver, OthersRun, WakeWaitq, Ready
<1>3. CASE MessageReceived
  BY <1>3 DEF MessageReceived, OthersRun
<1>4. CASE knote_vanish
  BY <1>4 DEF knote_vanish, OthersRun, knote_post, mach_port_notify_cb,
     send_notification, Sent, WakeWaitq, Ready
<1>5. CASE GuestNotified
  BY <1>5 DEF GuestNotified
<1>6. CASE GuestReply
  BY <1>6 DEF GuestReply
<1>7. CASE GuestCloses
  BY <1>7 DEF GuestCloses
<1>8. CASE kqchan_mach_port_open
  BY <1>8 DEF kqchan_mach_port_open, Open, xnu_sys_kqchan_mach_port_create,
     knote_link_waitq, xnu_sys_kqchan_mach_port_has_events, send_notification,
     Sent, Ready
<1>9. CASE ReadStarts
  BY <1>9 DEF ReadStarts
<1>10. CASE ReadReplies
  BY <1>10 DEF ReadReplies, xnu_sys_kqchan_mach_port_fill, UpRead, Ready,
     Sent, Replies
<1>11. CASE Ack
  BY <1>11 DEF Ack, xnu_sys_kqchan_mach_port_has_events, Sent
<1>12. CASE Drop
  BY <1>12 DEF Drop
<1>13. CASE knote_unlink_waitq
  BY <1>13 DEF knote_unlink_waitq
<1>14. CASE RunNext
  BY <1>14 DEF RunNext
<1>15. CASE DrainEnds
  BY <1>15 DEF DrainEnds
<1>16. CASE WaiterTop
  BY <1>16 DEF WaiterTop, WaiterRuns
<1>17. CASE WaiterPeeks
  BY <1>17 DEF WaiterPeeks, WaiterRuns, knote_post, mach_port_notify_cb,
     send_notification, Sent
<1>18. CASE WaiterDowns
  BY <1>18 DEF WaiterDowns, WaiterRuns
<1>19. CASE WaiterDies
  BY <1>19 DEF WaiterDies, WaiterRuns
<1>20. CASE UNCHANGED vars
  BY <1>20
<1>q. QED
  BY <1>1, <1>2, <1>3, <1>4, <1>5, <1>6, <1>7, <1>8, <1>9, <1>10, <1>11,
     <1>12, <1>13, <1>14, <1>15, <1>16, <1>17, <1>18, <1>19, <1>20 DEF Next,
     Daemon

\* Every step keeps the exchange in its phases.
LEMMA ExchangeStep ==
  ASSUME Types, Exchange, [Next]_vars
  PROVE  Exchange'
<1> USE DEF Types, Exchange, Throttle, Answering, IdleWire, ReadingWire,
   Replies, vars, portVars, noteVars, guestVars, waiterVars, schedVars
<1>1. CASE MessageQueued
  <2>1. loop' = (IF loop = "idle" THEN "drain" ELSE loop)
    BY <1>1 DEF MessageQueued, OthersRun
  <2>2. UNCHANGED <<mode, shared, vanished, chan, callback, guest, request>> /\ msgs' = msgs + 1
    BY <1>1 DEF MessageQueued, guestVars
  <2>3. readSem' = readSem
    BY <1>1 DEF MessageQueued
  <2>4. CASE UNCHANGED noteVars
    BY <1>1, <2>1, <2>2, <2>3, <2>4, WireFacts
  <2>5. CASE knote_post /\ ~UNCHANGED noteVars
    <3>1. can_send_notification /\ wire' = Sent("note") /\ can_send_notification' = FALSE
      BY <2>5 DEF knote_post, mach_port_notify_cb, send_notification
    <3>2. QED
      BY <2>1, <2>2, <3>1, WireFacts DEF Sent
  <2>6. QED
    BY <1>1, <2>4, <2>5 DEF MessageQueued
<1>2. CASE MessageHandedOver
  BY <1>2 DEF MessageHandedOver, OthersRun, WakeWaitq, Ready
<1>3. CASE MessageReceived
  BY <1>3 DEF MessageReceived, OthersRun
<1>4. CASE knote_vanish
  BY <1>4, WireFacts DEF knote_vanish, OthersRun, knote_post,
     mach_port_notify_cb, send_notification, Sent, WakeWaitq, Ready
<1>5. CASE GuestNotified
  BY <1>5, WireFacts DEF GuestNotified
<1>6. CASE GuestReply
  BY <1>6, WireFacts DEF GuestReply
<1>7. CASE GuestCloses
  BY <1>7 DEF GuestCloses
<1>8. CASE kqchan_mach_port_open
  BY <1>8, WireFacts DEF kqchan_mach_port_open, Open,
     xnu_sys_kqchan_mach_port_create, knote_link_waitq,
     xnu_sys_kqchan_mach_port_has_events, send_notification, Sent, Ready
<1>9. CASE ReadStarts
  BY <1>9 DEF ReadStarts
<1>10. CASE ReadReplies
  BY <1>10, WireFacts DEF ReadReplies, xnu_sys_kqchan_mach_port_fill, UpRead,
     Ready, Sent, Replies
<1>11. CASE Ack
  BY <1>11, WireFacts DEF Ack, xnu_sys_kqchan_mach_port_has_events, Sent
<1>12. CASE Drop
  BY <1>12 DEF Drop
<1>13. CASE knote_unlink_waitq
  BY <1>13 DEF knote_unlink_waitq
<1>14. CASE RunNext
  BY <1>14 DEF RunNext
<1>15. CASE DrainEnds
  BY <1>15 DEF DrainEnds
<1>16. CASE WaiterTop
  BY <1>16 DEF WaiterTop, WaiterRuns
<1>17. CASE WaiterPeeks
  BY <1>17, WireFacts DEF WaiterPeeks, WaiterRuns, knote_post,
     mach_port_notify_cb, send_notification, Sent
<1>18. CASE WaiterDowns
  BY <1>18 DEF WaiterDowns, WaiterRuns
<1>19. CASE WaiterDies
  BY <1>19 DEF WaiterDies, WaiterRuns
<1>20. CASE UNCHANGED vars
  BY <1>20
<1>q. QED
  BY <1>1, <1>2, <1>3, <1>4, <1>5, <1>6, <1>7, <1>8, <1>9, <1>10, <1>11,
     <1>12, <1>13, <1>14, <1>15, <1>16, <1>17, <1>18, <1>19, <1>20 DEF Next,
     Daemon

\* Every step keeps waiter and destroyer in one of the phases of the kqchan's
\* life.
LEMMA LifeStep ==
  ASSUME Types, Life, [Next]_vars
  PROVE  Life'
<1> USE DEF Types, Life, NoWaiter, WaiterLives, WaiterDying,
   DestroyerSignalled, KqchanFreed, vars, portVars, noteVars, guestVars,
   waiterVars, schedVars
<1>1. CASE MessageQueued
  BY <1>1, RunqFacts DEF MessageQueued, OthersRun, knote_post,
     mach_port_notify_cb, send_notification, Sent, WakeWaitq, Ready
<1>2. CASE MessageHandedOver
  BY <1>2, RunqFacts DEF MessageHandedOver, OthersRun, WakeWaitq, Ready
<1>3. CASE MessageReceived
  BY <1>3 DEF MessageReceived, OthersRun
<1>4. CASE knote_vanish
  BY <1>4, RunqFacts DEF knote_vanish, OthersRun, knote_post,
     mach_port_notify_cb, send_notification, Sent, WakeWaitq, Ready
<1>5. CASE GuestNotified
  BY <1>5 DEF GuestNotified
<1>6. CASE GuestReply
  BY <1>6 DEF GuestReply
<1>7. CASE GuestCloses
  BY <1>7 DEF GuestCloses
<1>8. CASE kqchan_mach_port_open
  BY <1>8, RunqFacts DEF kqchan_mach_port_open, Open,
     xnu_sys_kqchan_mach_port_create, knote_link_waitq,
     xnu_sys_kqchan_mach_port_has_events, send_notification, Sent, Ready
<1>9. CASE ReadStarts
  BY <1>9 DEF ReadStarts
<1>10. CASE ReadReplies
  BY <1>10, RunqFacts DEF ReadReplies, xnu_sys_kqchan_mach_port_fill, UpRead,
     Ready, Sent, Replies
<1>11. CASE Ack
  BY <1>11 DEF Ack, xnu_sys_kqchan_mach_port_has_events, Sent
<1>12. CASE Drop
  BY <1>12 DEF Drop
<1>13. CASE knote_unlink_waitq
  <2>1. CASE NoWaiter
    BY <1>13, <2>1, RunqFacts DEF knote_unlink_waitq
  <2>2. CASE WaiterLives
    <3>1. waiter' = "die" /\ waitq' = FALSE /\ destroyer' = "waits"
      BY <1>13, <2>2 DEF knote_unlink_waitq
    <3>2. runq' = Append(Append(runq, "waiter"), "destroyer")
      BY <1>13, <2>2 DEF knote_unlink_waitq
    <3>3. QED
      BY <1>13, <2>2, <3>1, <3>2, RunqFacts DEF knote_unlink_waitq
  <2>3. QED
    BY <1>13, <2>1, <2>2 DEF knote_unlink_waitq
<1>14. CASE RunNext
  BY <1>14, RunqFacts DEF RunNext
<1>15. CASE DrainEnds
  BY <1>15 DEF DrainEnds
<1>16. CASE WaiterTop
  BY <1>16 DEF WaiterTop, WaiterRuns
<1>17. CASE WaiterPeeks
  BY <1>17 DEF WaiterPeeks, WaiterRuns, knote_post, mach_port_notify_cb,
     send_notification, Sent
<1>18. CASE WaiterDowns
  BY <1>18 DEF WaiterDowns, WaiterRuns
<1>19. CASE WaiterDies
  BY <1>19, RunqFacts DEF WaiterDies, WaiterRuns
<1>20. CASE UNCHANGED vars
  BY <1>20
<1>q. QED
  BY <1>1, <1>2, <1>3, <1>4, <1>5, <1>6, <1>7, <1>8, <1>9, <1>10, <1>11,
     <1>12, <1>13, <1>14, <1>15, <1>16, <1>17, <1>18, <1>19, <1>20 DEF Next,
     Daemon

\* Every step keeps what is pending announced.
LEMMA AnnouncedStep ==
  ASSUME IInv, [Next]_vars, ~LateDeath
  PROVE  Announced'
<1> USE DEF IInv, Types, Exchange, Throttle, Answering, Life, NoWaiter,
   WaiterLives, WaiterDying, DestroyerSignalled, KqchanFreed, Announced,
   VanishAnnounced, PortAnnounced, SetAnnounced, vars, portVars, noteVars,
   guestVars, waiterVars, schedVars
<1>1. CASE MessageQueued
  BY <1>1 DEF MessageQueued, OthersRun, knote_post, mach_port_notify_cb,
     send_notification, Sent, WakeWaitq, Ready
<1>2. CASE MessageHandedOver
  BY <1>2 DEF MessageHandedOver, OthersRun, WakeWaitq, Ready
<1>3. CASE MessageReceived
  BY <1>3 DEF MessageReceived, OthersRun
<1>4. CASE knote_vanish
  BY <1>4 DEF knote_vanish, OthersRun, knote_post, mach_port_notify_cb,
     send_notification, Sent, WakeWaitq, Ready
<1>5. CASE GuestNotified
  BY <1>5 DEF GuestNotified
<1>6. CASE GuestReply
  BY <1>6 DEF GuestReply
<1>7. CASE GuestCloses
  BY <1>7 DEF GuestCloses
<1>8. CASE kqchan_mach_port_open
  BY <1>8 DEF kqchan_mach_port_open, Open, xnu_sys_kqchan_mach_port_create,
     knote_link_waitq, xnu_sys_kqchan_mach_port_has_events, send_notification,
     Sent, Ready
<1>9. CASE ReadStarts
  BY <1>9 DEF ReadStarts
<1>10. CASE ReadReplies
  BY <1>10 DEF ReadReplies, xnu_sys_kqchan_mach_port_fill, UpRead, Ready,
     Sent, Replies
<1>11. CASE Ack
  BY <1>11 DEF Ack, xnu_sys_kqchan_mach_port_has_events, Sent
<1>12. CASE Drop
  BY <1>12 DEF Drop
<1>13. CASE knote_unlink_waitq
  BY <1>13 DEF knote_unlink_waitq
<1>14. CASE RunNext
  BY <1>14 DEF RunNext
<1>15. CASE DrainEnds
  BY <1>15 DEF DrainEnds
<1>16. CASE WaiterTop
  BY <1>16 DEF WaiterTop, WaiterRuns
<1>17. CASE WaiterPeeks
  BY <1>17 DEF WaiterPeeks, WaiterRuns, knote_post, mach_port_notify_cb,
     send_notification, Sent
<1>18. CASE WaiterDowns
  BY <1>18 DEF WaiterDowns, WaiterRuns
<1>19. CASE WaiterDies
  BY <1>19 DEF WaiterDies, WaiterRuns
<1>20. CASE UNCHANGED vars
  BY <1>20
<1>q. QED
  BY <1>1, <1>2, <1>3, <1>4, <1>5, <1>6, <1>7, <1>8, <1>9, <1>10, <1>11,
     <1>12, <1>13, <1>14, <1>15, <1>16, <1>17, <1>18, <1>19, <1>20 DEF Next,
     Daemon

\* The three invariants hold of every state the channel reaches.
LEMMA KqchanInductive == Spec => []IInv
<1>1. Init => IInv
  <2>1. Init => Types
    <3>1. Init => msgs \in Nat /\ readSem \in Nat
      BY DEF Init
    <3>2. QED
      BY <3>1, Zenon DEF Init, Types
  <2>2. Init => Exchange
    BY DEF Init, Exchange, Throttle, Answering, IdleWire
  <2>3. Init => Life
    BY DEF Init, Life, NoWaiter
  <2>4. Init => Announced
    BY DEF Init, Announced, VanishAnnounced, PortAnnounced, SetAnnounced
  <2>5. QED
    BY <2>1, <2>2, <2>3, <2>4 DEF IInv
<1>2. IInv /\ [Next]_vars => IInv'
  BY TypesStep, ExchangeStep, LifeStep, AnnouncedStep DEF IInv
<1>3. QED
  BY <1>1, <1>2, PTL DEF Spec

\* The datagram the guest takes for a reply is one, and the one it takes for a
\* notification is one: the strict exchange that MachPortKqchan keeps with
\* can_send_notification never falls out of step, however many messages arrive
\* and callbacks run between a request and its acknowledgement.
THEOREM KqchanExchange == Spec => []ExchangeInStep
<1>1. IInv => ExchangeInStep
  BY DEF IInv, Types, Exchange, IdleWire, ReadingWire, Replies, ExchangeInStep
<1>2. QED
  BY <1>1, KqchanInductive, PTL

\* The waiter of a port set's kqchan is dead when the kqchan is freed, and the
\* destroyer, which run_on_task queues although it parked, is never resumed before
\* the waiter's death has signalled it (knote_unlink_waitq).
THEOREM KqchanFreedAfterWaiter == Spec => []FreedAfterWaiter
<1>1. IInv => FreedAfterWaiter
  BY DEF IInv, Types, Life, NoWaiter, WaiterLives, WaiterDying, DestroyerSignalled, KqchanFreed,
         FreedAfterWaiter
<1>2. QED
  BY <1>1, KqchanInductive, PTL

\* Between events nothing pending on an open channel is unannounced, unless the
\* channel watches a set from which other threads receive: a message that arrives
\* while the waiter is not listening is found by its next look, or announced by
\* the acknowledgement of a read.  The port may die at any time but between the
\* reply to a read and its acknowledgement.
THEOREM KqchanNotified ==
  ASSUME ~LateDeath
  PROVE  Spec => []NotifiedWhilePending
<1>1. IInv => NotifiedWhilePending
  BY DEF IInv, Types, Life, NoWaiter, WaiterLives, WaiterDying, DestroyerSignalled, KqchanFreed,
         Announced, VanishAnnounced, PortAnnounced, SetAnnounced, Notified, Pending,
         NotifiedWhilePending
<1>2. QED
  BY <1>1, KqchanInductive, PTL
=============================================================================
