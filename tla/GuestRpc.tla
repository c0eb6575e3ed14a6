------------------------------ MODULE GuestRpc ------------------------------
(***************************************************************************)
(* The RPC path of ciderd: guest threads call the daemon over datagrams,    *)
(* the single-threaded serve loop dispatches each call on the microthread   *)
(* of the calling guest thread, a call may block there, may call back into  *)
(* the guest (S2C), and may be interrupted by a signal whose handler itself *)
(* calls the daemon, bracketed by interrupt_enter and interrupt_exit.       *)
(*                                                                          *)
(* A step of the daemon is one event of the epoll loop, run to the end: the *)
(* loop is the only OS thread, and it drains the run queue before it waits  *)
(* again.  Calls are named by a class and an id; the id is not on the wire  *)
(* (the client compares call numbers only), it says which call a reply is   *)
(* for.                                                                     *)
(***************************************************************************)
EXTENDS Naturals, Sequences, FiniteSets, SequencesExt

CONSTANTS
  Threads,    \* guest threads, the (nsid, tid) pairs
  Procs,      \* guest processes, the nsids
  ProcOf,     \* the process of each thread
  MaxCalls,   \* bound: calls and signals one guest thread starts
  MaxNest,    \* bound: signal handlers nested on one guest thread
  MaxS2C,     \* bound: S2C calls the daemon makes while serving one call
  MaxKills,   \* bound: processes that die
  MachChans   \* whether a guest has a mach-port kqueue channel open

ASSUME RpcAssumption ==
  /\ ProcOf \in [Threads -> Procs]
  /\ MaxCalls \in Nat /\ MaxNest \in Nat /\ MaxS2C \in Nat /\ MaxKills \in Nat
  /\ MachChans \in BOOLEAN

VARIABLES
  stack,   \* guest: one entry per level (program, handler, nested handler)
  nextId,  \* guest: id of the thread's next call
  dead,    \* guest: processes that were killed
  sock,    \* datagrams on their way to each guest thread
  inbox,   \* datagrams queued on the daemon's socket
  watched, \* daemon: processes with an armed death watch (proc_watches)
  srv      \* daemon: what it keeps for each guest thread

guestVars == <<stack, nextId, dead>>
vars == <<stack, nextId, dead, sock, inbox, watched, srv>>

-----------------------------------------------------------------------------
\* Messages.  "block" is a call that may wait (ALLOW_INTERRUPTIONS), "quick"
\* one performed with signals masked.

CallNums == {"block", "quick", "enter", "exit", "checkout"}
Nums == CallNums \cup {"push", "s2c", "none"}
Msg == [num: Nums, id: Nat, ok: BOOLEAN]
NoMsg == [num |-> "none", id |-> 0, ok |-> TRUE]
MsgOf(n, i) == [num |-> n, id |-> i, ok |-> TRUE]

-----------------------------------------------------------------------------
\* The daemon's state for one guest thread: its Slot (mailbox, interrupt
\* mailbox), its parked Microthread (the activations, top last), whether the
\* XNU thread is on a wait queue, and whether REPLIES holds an S2C answer.

Box == [pending: Msg, reply: Msg, code: Msg, callnum: Nums]
EmptyBox == [pending |-> NoMsg, reply |-> NoMsg, code |-> NoMsg,
             callnum |-> "none"]

\* An activation is at the doWork top, blocked in a wait, or suspended in an
\* S2C call; cont says that its call will end in thread_syscall_return, s2cs
\* counts the S2C calls it made.
Activation == [st: {"top", "blocked", "s2c"}, call: Msg, cont: BOOLEAN,
               s2cs: 0..MaxS2C]
TopAct == [st |-> "top", call |-> NoMsg, cont |-> FALSE, s2cs |-> 0]

Srv == [slot: BOOLEAN, acts: Seq(Activation), mbox: Box, imbox: Box,
        intr: BOOLEAN, waiting: BOOLEAN, s2c: BOOLEAN, out: Seq(Msg)]
NewSrv == [slot |-> FALSE, acts |-> <<>>, mbox |-> EmptyBox,
           imbox |-> EmptyBox, intr |-> FALSE, waiting |-> FALSE,
           s2c |-> FALSE, out |-> <<>>]

Cur(d) == d.acts[Len(d.acts)]
SetCur(d, a) == [d EXCEPT !.acts[Len(d.acts)] = a]

\* The mailbox that the doWork loop of the current activation reads.
CurBox(d) == IF Len(d.acts) > 1 THEN d.imbox ELSE d.mbox
SetBox(d, b) == IF Len(d.acts) > 1 THEN [d EXCEPT !.imbox = b]
                                   ELSE [d EXCEPT !.mbox = b]

-----------------------------------------------------------------------------
\* One run() of a microthread.  The result is a set: what a call does once
\* dispatched (answer, wait, call back into the guest) depends on its
\* arguments and on XNU.

\* A call ends: dispatch returns its reply, or its continuation ends in
\* thread_syscall_return and the loop top stores the code.
Complete(d, c, cont, ok) ==
  LET r == [c EXCEPT !.ok = ok]
      b == IF cont THEN [CurBox(d) EXCEPT !.code = r]
                   ELSE [CurBox(d) EXCEPT !.reply = r]
  IN SetCur(SetBox(d, b), TopAct)

\* The dispatched call a waits on an XNU wait queue, with a continuation or
\* with its stack; a call already running as a continuation stays one.
Park(d, a) ==
  {[SetCur(d, [a EXCEPT !.st = "blocked", !.cont = k]) EXCEPT !.waiting = TRUE]
     : k \in {k \in BOOLEAN : a.call.num = "block" /\ (a.cont => k)}}

\* perform_raw: drop a stored answer, send the call, suspend.  The send fails,
\* and the S2C call with it, only when the guest's socket is gone: a thread of
\* a dead process, which is left suspended here until its teardown.
PerformS2C(d, a) ==
  IF a.s2cs = MaxS2C THEN {}
  ELSE {[SetCur(d, [a EXCEPT !.st = "s2c", !.s2cs = @ + 1])
           EXCEPT !.s2c = FALSE, !.out = Append(@, MsgOf("s2c", a.call.id))]}

Proceed(d, a) ==
  {Complete(d, a.call, a.cont, TRUE)} \cup PerformS2C(d, a) \cup Park(d, a)

\* interrupt_enter takes the thread off its wait queue (sigexc_enter).
InterruptEnter(d, c) == Complete([d EXCEPT !.waiting = FALSE], c, FALSE, TRUE)

Dispatch(d) ==
  LET c == CurBox(d).pending
      e == SetBox(d, [CurBox(d) EXCEPT !.pending = NoMsg, !.callnum = c.num])
  IN CASE c.num = "enter"  -> {InterruptEnter(e, c)}
       [] c.num \in {"exit", "checkout"} -> {Complete(e, c, FALSE, TRUE)}
       [] c.num = "push"   -> {Complete(e, NoMsg, FALSE, TRUE)}
       [] c.num \in {"block", "quick"} -> Proceed(e, [TopAct EXCEPT !.call = c])

Resume(d) ==
  LET a == Cur(d) IN
  CASE a.st = "top"     -> {d}
    [] a.st = "blocked" -> Proceed([d EXCEPT !.waiting = FALSE], a)
    [] a.st = "s2c"     -> IF d.s2c
                           THEN Proceed([d EXCEPT !.s2c = FALSE], a)
                           ELSE {Complete(d, a.call, a.cont, FALSE)}

Run(d) ==
  UNION {IF Cur(e).st = "top" /\ CurBox(e).pending # NoMsg
         THEN Dispatch(e) ELSE {e} : e \in Resume(d)}

-----------------------------------------------------------------------------
\* Sending replies.  A stored continuation code goes first, under the number
\* of the call dispatched last.

BoxReplies(b) ==
  IF b.code # NoMsg THEN <<[b.code EXCEPT !.num = b.callnum]>>
  ELSE IF b.reply # NoMsg THEN <<b.reply>> ELSE <<>>

\* Mutant: the reply is copied out of the mailbox and not taken.
TakeReplyKeeps(b) == IF b.code # NoMsg THEN [b EXCEPT !.code = NoMsg] ELSE b

TakeReply(b) ==
  IF b.code # NoMsg THEN [b EXCEPT !.code = NoMsg]
                    ELSE [b EXCEPT !.reply = NoMsg]

FlushMailbox(d) ==
  [d EXCEPT !.mbox = TakeReply(@), !.out = @ \o BoxReplies(d.mbox)]
FlushInterrupt(d) ==
  [d EXCEPT !.imbox = TakeReply(@), !.out = @ \o BoxReplies(d.imbox)]

\* Mutant: flush_replies forgets the interrupt mailbox.
FlushMailboxOnly(d) == IF d.slot THEN FlushMailbox(d) ELSE d

\* flush_replies, for one slot.
Flush(d) ==
  IF ~d.slot THEN d
  ELSE IF d.intr THEN FlushInterrupt(FlushMailbox(d)) ELSE FlushMailbox(d)

-----------------------------------------------------------------------------
\* handle_call: the outcomes of one datagram for the thread that sent it.

StartInterrupt(d, c) ==
  LET pushed == [d EXCEPT !.acts = Append(@, TopAct), !.intr = d.slot,
                          !.imbox = [EmptyBox EXCEPT !.pending = c]]
  IN {FlushInterrupt(e) : e \in Run(pushed)}

PopActivation(d) == [d EXCEPT !.acts = Front(@)]

\* Mutant: every call of the handler ends the interrupt.
EndInterruptAlways(d, c) ==
  UNION {UNION {{[e EXCEPT !.intr = FALSE, !.imbox = EmptyBox] : e \in Run(PopActivation(f))}
                  : f \in {FlushInterrupt(g) : g \in Run([d EXCEPT !.imbox.pending = c])}}}

\* interrupt_exit stops the interrupt loop, pops its activation and runs the
\* microthread so that the blocked call resumes.
EndInterrupt(d) ==
  {[e EXCEPT !.intr = FALSE, !.imbox = EmptyBox] :
     e \in UNION {Run(PopActivation(f)) : f \in Resume(d)}}

RunInterruptCall(d, c) ==
  LET ran == {FlushInterrupt(e) : e \in Run([d EXCEPT !.imbox.pending = c])}
  IN IF d.acts = <<>> THEN {d}
     ELSE IF c.num = "exit" THEN UNION {EndInterrupt(e) : e \in ran} ELSE ran

\* A thread seen for the first time gets a slot, a mailbox and a microthread
\* parked at the doWork top.
Ensured(d) ==
  IF d.slot THEN d
  ELSE [d EXCEPT !.slot = TRUE, !.acts = <<TopAct>>, !.mbox = EmptyBox,
                 !.intr = FALSE]

RunCall(d, c) == Run([Ensured(d) EXCEPT !.mbox.pending = c])

\* Mutants: the answer is not stored; the waiting microthread is not woken.
DeliverS2CUnstored(d) == IF d.acts = <<>> THEN {d} ELSE Run(d)
DeliverS2CNoWake(d) == {[d EXCEPT !.s2c = TRUE]}

DeliverS2C(d) ==
  LET e == [d EXCEPT !.s2c = TRUE] IN IF e.acts = <<>> THEN {e} ELSE Run(e)

MidCall(d) == d.acts # <<>> /\ Cur(d).st # "top"

\* Mutant: interrupt_enter takes the ordinary path on a thread that is mid-call.
HandleCallNotNested(d, c) == IF c.num = "s2c" THEN DeliverS2C(d) ELSE RunCall(d, c)

HandleCall(d, c) ==
  CASE c.num = "s2c"                     -> DeliverS2C(d)
    [] c.num # "s2c" /\ d.intr           -> RunInterruptCall(d, c)
    [] c.num = "enter" /\ ~d.intr /\ MidCall(d) -> StartInterrupt(d, c)
    [] OTHER                             -> RunCall(d, c)

\* Mutant: the slot is dropped and the microthread left parked.
ReapSlotOnly(d) ==
  {[d EXCEPT !.slot = FALSE, !.intr = FALSE, !.mbox = EmptyBox, !.imbox = EmptyBox]}

\* After a checkout: stop the thread's mailbox, run its microthread once, drop
\* the slot.  Only a loop reading that mailbox sees the stop.
Reap(d) ==
  {[e EXCEPT !.slot = FALSE, !.intr = FALSE, !.mbox = EmptyBox, !.imbox = EmptyBox,
             !.acts = IF Len(@) = 1 /\ Cur(e).st = "top" THEN <<>> ELSE @]
     : e \in IF Len(d.acts) = 1 THEN Resume(d) ELSE Run(d)}

-----------------------------------------------------------------------------
\* The epoll loop.

\* XNU may wake any of the waiting threads, the caller too, and drain() runs
\* them before the event ends (each once per event: bound).
Wakings(d) == {d} \cup (IF d.waiting THEN Run([d EXCEPT !.waiting = FALSE]) ELSE {})

Woken(s) ==
  {w \in [Threads -> UNION {Wakings(s[t]) : t \in Threads}] :
     \A t \in Threads : w[t] \in Wakings(s[t])}

\* Datagrams leave; the ones to a process that died go nowhere.
Send(s) ==
  /\ sock' = [t \in Threads |->
                IF ProcOf[t] \in dead THEN <<>> ELSE sock[t] \o s[t].out]
  /\ srv' = [t \in Threads |-> [s[t] EXCEPT !.out = <<>>]]

FlushReplies(s) == [t \in Threads |-> Flush(s[t])]

HandleMessage ==
  /\ inbox # <<>>
  /\ LET t == Head(inbox).from
         c == Head(inbox).msg
     IN \E e \in HandleCall(srv[t], c) :
          LET s == [srv EXCEPT ![t] = e] IN
          \E w \in (IF c.num \in {"enter", "push"} THEN {s} ELSE Woken(s)) :
            LET f == FlushReplies(w) IN
            \E r \in (IF c.num = "checkout" THEN Reap(f[t]) ELSE {f[t]}) :
              Send([f EXCEPT ![t] = r])
  /\ inbox' = Tail(inbox)
  /\ UNCHANGED <<watched, guestVars>>

\* The timerfd: may wake threads whose deadline passed; then flushes.
TimerFired ==
  /\ \E w \in Woken(srv) : Send(FlushReplies(w))
  /\ UNCHANGED <<inbox, watched, guestVars>>

\* A guest reads a mach-port kqueue channel: on_readable runs the receive on a
\* microthread and drains, which may wake senders waiting for queue space.
MachKqchanRead ==
  /\ MachChans
  /\ \E w \in Woken(srv) : Send(w)
  /\ UNCHANGED <<inbox, watched, guestVars>>

\* Mutant: the teardown drops the slots and microthreads of every process.
ProcDiedDropsAll(p) ==
  /\ p \in dead \cap watched
  /\ watched' = watched \ {p}
  /\ Send([t \in Threads |-> NewSrv])
  /\ UNCHANGED <<inbox, guestVars>>

\* The death watch of a process fires, once: drop its slots and parked
\* microthreads, free its task; freeing its ports may wake threads of other
\* processes.  REPLIES is not cleared.
ProcDied(p) ==
  /\ p \in dead \cap watched
  /\ watched' = watched \ {p}
  /\ LET s == [t \in Threads |->
                IF ProcOf[t] = p THEN [NewSrv EXCEPT !.s2c = srv[t].s2c] ELSE srv[t]]
     IN \E w \in Woken(s) : Send(w)
  /\ UNCHANGED <<inbox, guestVars>>

-----------------------------------------------------------------------------
\* The guest side (the generated client wrappers and the handler bracket).

Running(t) == stack[t] # <<>> /\ Last(stack[t]) = NoMsg
Alive(t) == ProcOf[t] \notin dead /\ stack[t] # <<>>
SetTop(t, m) == [stack EXCEPT ![t][Len(stack[t])] = m]

\* Send a call and wait for its reply.
Call(t, n, stk) ==
  /\ Alive(t)
  /\ stack' = stk
  /\ nextId' = [nextId EXCEPT ![t] = @ + 1]
  /\ inbox' = Append(inbox, [from |-> t, msg |-> MsgOf(n, nextId[t])])
  /\ UNCHANGED <<dead, sock, watched, srv>>

GuestCall(t) ==
  /\ Running(t)
  /\ nextId[t] <= MaxCalls
  /\ \E n \in {"block", "quick", "checkout"} :
       Call(t, n, SetTop(t, MsgOf(n, nextId[t])))

\* A signal is delivered while the thread runs or waits in an interruptible
\* call; its handler begins with interrupt_enter.
Signal(t) ==
  /\ stack[t] # <<>>
  /\ Running(t) \/ Last(stack[t]).num = "block"
  /\ Len(stack[t]) <= MaxNest
  /\ nextId[t] <= MaxCalls
  /\ Call(t, "enter", [stack EXCEPT ![t] = Append(@, MsgOf("enter", nextId[t]))])

HandlerReturns(t) ==
  /\ Running(t)
  /\ Len(stack[t]) > 1
  /\ Call(t, "exit", SetTop(t, MsgOf("exit", nextId[t])))

\* The wrapper's receive loop: serve an S2C call, push an unexpected reply back
\* to the server when waiting for interrupt_enter, and otherwise return, with
\* the expected reply or with a communication error.
Returned(t, n) ==
  CASE n = "exit"     -> [stack EXCEPT ![t] = Front(@)]
    [] n = "checkout" -> [stack EXCEPT ![t] = <<>>]
    [] OTHER          -> SetTop(t, NoMsg)

Receive(t) ==
  /\ Alive(t) /\ ~Running(t) /\ sock[t] # <<>>
  /\ sock' = [sock EXCEPT ![t] = Tail(@)]
  /\ LET r == Head(sock[t])
         n == Last(stack[t]).num
     IN \/ /\ r.num = "s2c"
           /\ inbox' = Append(inbox, [from |-> t, msg |-> r])
           /\ UNCHANGED stack
        \/ /\ r.num \notin {"s2c", n}
           /\ n = "enter"
           /\ inbox' = Append(inbox, [from |-> t, msg |-> MsgOf("push", r.id)])
           /\ UNCHANGED stack
        \/ /\ r.num # "s2c"
           /\ r.num = n \/ n # "enter"
           /\ stack' = Returned(t, n)
           /\ UNCHANGED inbox
  /\ UNCHANGED <<nextId, dead, watched, srv>>

Kill(p) ==
  /\ p \in Procs \ dead
  /\ Cardinality(dead) < MaxKills
  /\ dead' = dead \cup {p}
  /\ sock' = [t \in Threads |-> IF ProcOf[t] = p THEN <<>> ELSE sock[t]]
  /\ UNCHANGED <<stack, nextId, inbox, watched, srv>>

-----------------------------------------------------------------------------
Init ==
  /\ stack = [t \in Threads |-> <<NoMsg>>]
  /\ nextId = [t \in Threads |-> 1]
  /\ dead = {}
  /\ sock = [t \in Threads |-> <<>>]
  /\ inbox = <<>>
  /\ watched = Procs
  /\ srv = [t \in Threads |-> NewSrv]

Guest(t) == GuestCall(t) \/ Signal(t) \/ HandlerReturns(t) \/ Receive(t)

Daemon == HandleMessage \/ TimerFired \/ MachKqchanRead
            \/ \E p \in Procs : ProcDied(p)

Next == Daemon \/ (\E t \in Threads : Guest(t)) \/ (\E p \in Procs : Kill(p))

Spec == Init /\ [][Next]_vars

\* The serve loop keeps serving; a guest thread keeps reading its socket.
Fairness ==
  /\ WF_vars(HandleMessage)
  /\ \A t \in Threads : WF_vars(Receive(t))

FairSpec == Spec /\ Fairness

-----------------------------------------------------------------------------
\* What the RPC path promises.

\* Every variable has its type, and each queue and table entry belongs to a known thread.
TypeOK ==
  /\ stack \in [Threads -> Seq(Msg)]
  /\ nextId \in [Threads -> Nat]
  /\ dead \in SUBSET Procs
  /\ sock \in [Threads -> Seq([num: CallNums \cup {"s2c"}, id: Nat \ {0}, ok: BOOLEAN])]
  /\ inbox \in Seq([from: Threads,
                    msg: [num: Nums \ {"none"}, id: Nat \ {0}, ok: BOOLEAN]])
  /\ watched \in SUBSET Procs
  /\ srv \in [Threads -> Srv]

\* Where a call can be: queued, being served, answered but not sent, on its
\* way back, or pushed back to the daemon.
InQueue(q, c) == Cardinality({k \in DOMAIN q : q[k].num # "s2c" /\ q[k].id = c.id})
InBox(b, c) == Cardinality({f \in {"pending", "reply", "code"} : b[f].id = c.id})

Places(t, c) ==
  LET d == srv[t] IN
  InQueue([k \in DOMAIN inbox |->
             IF inbox[k].from = t THEN inbox[k].msg ELSE NoMsg], c)
    + InQueue(sock[t], c) + InBox(d.mbox, c) + InBox(d.imbox, c)
    + Cardinality({k \in DOMAIN d.acts : d.acts[k].call.id = c.id})

Outstanding(t) == {stack[t][k] : k \in DOMAIN stack[t]} \ {NoMsg}

\* The call of every level of a live guest thread is somewhere: an answered
\* call keeps its answer until the guest has taken it (the client pushes back
\* a reply it cannot take yet, and the server must keep it).
CallConserved ==
  \A t \in Threads : Alive(t) =>
    \A c \in Outstanding(t) : Places(t, c) >= 1

\* No call is served or answered twice.
NoCallDuplicated ==
  \A t \in Threads : \A c \in Outstanding(t) : Places(t, c) <= 1

\* The client only compares call numbers, so whatever it accepts must be for
\* the call it is waiting for: the next datagram is that call's reply, unless
\* it waits for interrupt_enter, and then one with its number is its own.
InStep ==
  \A t \in Threads : Alive(t) /\ sock[t] # <<>> =>
    LET r == Head(sock[t])
        w == Last(stack[t])
    IN \/ r.num = "s2c"
       \/ r.num = w.num /\ r.id = w.id
       \/ r.num # w.num /\ w.num = "enter"

\* While a signal handler runs (its interrupt_enter is answered, it has not
\* sent interrupt_exit), no reply to a call it interrupted is sent.
DeferredReplies ==
  \A t \in Threads : \A k \in DOMAIN stack[t] :
    k < Len(stack[t]) /\ stack[t][k + 1].num \notin {"enter", "exit"} =>
      InQueue(sock[t], stack[t][k]) = 0

\* Only the interrupt_exit of the handler that interrupted a call makes the
\* daemon touch that call again.
InterruptedCallUntouched ==
  [][\A t \in Threads : \A k \in DOMAIN stack[t] :
       /\ k < Len(stack[t])
       /\ stack[t][k] # NoMsg
       /\ stack[t][k + 1].num \notin {"enter", "exit"}
       /\ ProcOf[t] \notin dead
       => \A j \in DOMAIN srv[t].acts :
            srv[t].acts[j].call = stack[t][k] =>
              j \in DOMAIN srv'[t].acts /\ srv'[t].acts[j] = srv[t].acts[j]]_vars

\* Between two events of the loop no mailbox holds a reply: a call is answered
\* when the event that unblocks it has been handled.
NoUnsentReply ==
  \A t \in Threads : srv[t].slot =>
    \A b \in {srv[t].mbox, srv[t].imbox} : b.reply = NoMsg /\ b.code = NoMsg

\* A call the daemon served with the help of the guest (S2C) gets the guest's
\* answer: no reply reports a failed S2C call of a live guest.
S2CAnswered ==
  \A t \in Threads : Alive(t) => \A k \in DOMAIN sock[t] : sock[t][k].ok

\* checkout frees the thread's microthread with its slot.
ParkedHasSlot == \A t \in Threads : srv[t].acts # <<>> => srv[t].slot

\* The death watch is the sole teardown path of a process: once it has fired
\* no slot and no microthread of the process is left.
TornDown ==
  \A t \in Threads : ProcOf[t] \notin watched => ~srv[t].slot /\ srv[t].acts = <<>>

\* A guest thread waiting in a call that cannot block gets past it.
Answered ==
  \A t \in Threads, i \in 1..(2 * MaxCalls) :
    LET Stuck == /\ Alive(t)
                 /\ Last(stack[t]).num \in {"quick", "enter", "exit"}
                 /\ Last(stack[t]).id = i
    IN Stuck ~> ~Stuck
=============================================================================
