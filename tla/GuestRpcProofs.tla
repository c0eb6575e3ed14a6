---------------------------- MODULE GuestRpcProofs ----------------------------
(***************************************************************************)
(* The safety invariants of GuestRpc without signals, for any number of     *)
(* guest threads and processes, of calls and of S2C calls, with channels    *)
(* and deaths.  A guest thread has one call outstanding at most.  The       *)
(* invariant follows that call: it is in one place, from the guest's send   *)
(* to the reply, and the daemon's state for the thread tells which.         *)
(***************************************************************************)
EXTENDS GuestRpc, SequenceTheorems, FiniteSetTheorems, TLAPS

\* The calls of a guest that gets no signals, and the S2C call made for one.
Ids == Nat \ {0}
Calls == {MsgOf(n, i) : n \in {"block", "quick", "checkout"}, i \in Ids}
S2C(c) == MsgOf("s2c", c.id)

-----------------------------------------------------------------------------
(* The daemon's state for one thread. *)

\* No interrupt is open, and the call that was pending has been dispatched.
Record(d) ==
  /\ DOMAIN d = {"slot", "acts", "mbox", "imbox", "intr", "waiting", "s2c", "out"}
  /\ DOMAIN d.mbox = {"pending", "reply", "code", "callnum"}
  /\ d.mbox.pending = NoMsg /\ d.imbox = EmptyBox /\ d.intr = FALSE

NoReply(d) == d.mbox.reply = NoMsg /\ d.mbox.code = NoMsg

\* It serves no call: it has not seen the thread, or its microthread is at the top
\* of the doWork loop.
Free(d) ==
  /\ Record(d) /\ NoReply(d) /\ d.waiting = FALSE
  /\ d.slot \in BOOLEAN /\ d.acts = IF d.slot THEN <<TopAct>> ELSE <<>>

\* It serves c: the microthread waits in XNU, or for the guest's answer.
Serving(d, c, st) ==
  /\ Record(d) /\ NoReply(d) /\ d.slot = TRUE /\ d.mbox.callnum = c.num
  /\ Len(d.acts) = 1 /\ d.acts = <<d.acts[1]>>
  /\ DOMAIN d.acts[1] = {"st", "call", "cont", "s2cs"}
  /\ d.acts[1].st = st /\ d.acts[1].call = c /\ d.acts[1].cont \in BOOLEAN

Blocked(d, c) == Serving(d, c, "blocked") /\ d.waiting = TRUE
Suspended(d, c) == Serving(d, c, "s2c") /\ d.waiting = FALSE /\ d.s2c = FALSE

\* It has served c, and the answer is in the mailbox.
Replied(d, c) ==
  /\ Record(d) /\ d.slot = TRUE /\ d.waiting = FALSE /\ d.acts = <<TopAct>>
  /\ d.mbox.callnum = c.num
  /\ \/ d.mbox.reply = c /\ d.mbox.code = NoMsg
     \/ d.mbox.reply = NoMsg /\ d.mbox.code = c

-----------------------------------------------------------------------------
(* Where the call of a thread is. *)

NoMail(t) == \A k \in 1..Len(inbox) : inbox[k].from # t

OneMail(t, m) ==
  \E k \in 1..Len(inbox) :
    /\ inbox[k].from = t /\ inbox[k].msg = m
    /\ \A i \in 1..Len(inbox) : inbox[i].from = t => i = k

Resting(t) ==
  /\ stack[t] = <<>> \/ stack[t] = <<NoMsg>>
  /\ NoMail(t) /\ sock[t] = <<>> /\ Free(srv[t])

Queued(t, c) == OneMail(t, c) /\ sock[t] = <<>> /\ Free(srv[t])
Held(t, c) == NoMail(t) /\ sock[t] = <<>> /\ (Blocked(srv[t], c) \/ Replied(srv[t], c))
Asked(t, c) == NoMail(t) /\ sock[t] = <<S2C(c)>> /\ Suspended(srv[t], c)
Told(t, c) == OneMail(t, S2C(c)) /\ sock[t] = <<>> /\ Suspended(srv[t], c)
Sent(t, c) == NoMail(t) /\ sock[t] = <<c>> /\ Free(srv[t])

Outside(t, c) ==
  stack[t] = <<c>> /\ (Queued(t, c) \/ Held(t, c) \/ Asked(t, c) \/ Told(t, c) \/ Sent(t, c))

\* Of a thread of a dead process: at most one call is queued or served.
LastMail(t) == \A k \in 1..Len(inbox) : inbox[k].from = t => inbox[k].msg.num = "s2c"

Gone(t) ==
  /\ sock[t] = <<>>
  /\ stack[t] = <<>> \/ stack[t] = <<NoMsg>> \/ \E c \in Calls : stack[t] = <<c>>
  /\ \/ \E c \in Calls : Queued(t, c)
     \/ /\ LastMail(t)
        /\ \/ Free(srv[t])
           \/ \E c \in Calls : Blocked(srv[t], c) \/ Replied(srv[t], c) \/ Suspended(srv[t], c)

Followed(t) ==
  IF ProcOf[t] \in dead THEN Gone(t) ELSE Resting(t) \/ \E c \in Calls : Outside(t, c)

Mail == [from : Threads, msg : Msg]

Types ==
  /\ DOMAIN stack = Threads /\ DOMAIN sock = Threads /\ DOMAIN srv = Threads
  /\ nextId \in [Threads -> Ids]
  /\ inbox \in Seq(Mail)

\* Between two events nothing is left to send.
IInv == Types /\ \A t \in Threads : Followed(t) /\ srv[t].out = <<>>

-----------------------------------------------------------------------------
(* Sequences of one element, and messages. *)

\* A thread's stack, activations and socket hold one element at most.
LEMMA One ==
  ASSUME NEW a, NEW b
  PROVE  /\ [<<a>> EXCEPT ![1] = b] = <<b>> /\ Len(<<a>>) = 1 /\ <<a>>[1] = a /\ <<a>> # <<>>
         /\ Append(<<>>, a) = <<a>> /\ Head(<<a>>) = a /\ Tail(<<a>>) = <<>>
         /\ Front(<<a>>) = <<>> /\ Last(<<a>>) = a
         /\ <<>> \o <<>> = <<>> /\ <<>> \o <<a>> = <<a>> /\ <<a>> \o <<>> = <<a>>
<1>1. [<<a>> EXCEPT ![1] = b] = <<b>> /\ Len(<<a>>) = 1 /\ <<a>>[1] = a /\ <<a>> # <<>>
  OBVIOUS
<1>2. Append(<<>>, a) = <<a>> /\ Head(<<a>>) = a
  OBVIOUS
<1>3. Tail(<<a>>) = <<>>
  OBVIOUS
<1>4. Front(<<a>>) = <<>>
  BY SubSeqEmpty DEF Front
<1>5. Last(<<a>>) = a
  BY DEF Last
<1>6. <<>> \o <<>> = <<>> /\ <<>> \o <<a>> = <<a>> /\ <<a>> \o <<>> = <<a>>
  OBVIOUS
<1>7. QED
  BY <1>1, <1>2, <1>3, <1>4, <1>5, <1>6

\* A call, its reply and its S2C call.
LEMMA CallFields ==
  ASSUME NEW c \in Calls
  PROVE  /\ c.num \in {"block", "quick", "checkout"} /\ c.id \in Nat /\ c.id # 0 /\ c.ok = TRUE
         /\ [c EXCEPT !.ok = TRUE] = c /\ [c EXCEPT !.num = c.num] = c /\ c \in Msg
         /\ c # NoMsg
         /\ S2C(c).num = "s2c" /\ S2C(c).id = c.id /\ S2C(c).ok = TRUE /\ S2C(c) \in Msg
<1>1. PICK n \in {"block", "quick", "checkout"}, i \in Ids : c = MsgOf(n, i)
  BY DEF Calls
<1>2. c = [num |-> n, id |-> i, ok |-> TRUE]
  BY <1>1 DEF MsgOf
<1>3. /\ c.num \in {"block", "quick", "checkout"} /\ c.id \in Nat /\ c.id # 0 /\ c.ok = TRUE
      /\ DOMAIN c = {"num", "id", "ok"}
  BY <1>2 DEF Ids
<1>4. c \in Msg /\ c # NoMsg
  BY <1>2, <1>3 DEF Msg, Nums, CallNums, NoMsg, Ids
<1>5. [c EXCEPT !.ok = TRUE] = c /\ [c EXCEPT !.num = c.num] = c
  BY <1>3, <1>4 DEF Msg
<1>6. S2C(c).num = "s2c" /\ S2C(c).id = c.id /\ S2C(c).ok = TRUE
  BY DEF S2C, MsgOf
<1>7. S2C(c) \in Msg
  BY <1>3 DEF S2C, MsgOf, Msg, Nums, CallNums
<1>8. QED
  BY <1>3, <1>4, <1>5, <1>6, <1>7

-----------------------------------------------------------------------------
(* One run of a microthread. *)

\* The microthread runs for c.
Working(d, c) ==
  /\ Record(d) /\ NoReply(d) /\ d.slot = TRUE /\ d.mbox.callnum = c.num
  /\ d.waiting = FALSE /\ d.out = <<>>
  /\ Len(d.acts) = 1 /\ d.acts = <<d.acts[1]>>

\* What a run leaves.
Ran(e, c) ==
  \/ Blocked(e, c) /\ e.out = <<>>
  \/ Suspended(e, c) /\ e.out = <<S2C(c)>>
  \/ Replied(e, c) /\ e.out = <<>>

ActOf(a, c) ==
  DOMAIN a = {"st", "call", "cont", "s2cs"} /\ a.call = c /\ a.cont \in BOOLEAN

\* The call ends.
LEMMA CompleteReplies ==
  ASSUME NEW d, NEW c \in Calls, Working(d, c), NEW cont \in BOOLEAN, NEW e,
         e = Complete(d, c, cont, TRUE)
  PROVE  Replied(e, c) /\ e.out = <<>>
<1>1. PICK b : b = IF cont THEN [d.mbox EXCEPT !.code = c] ELSE [d.mbox EXCEPT !.reply = c]
  OBVIOUS
<1>2. PICK f : f = [d EXCEPT !.mbox = b]
  OBVIOUS
<1>3. /\ DOMAIN b = {"pending", "reply", "code", "callnum"} /\ b.pending = NoMsg
      /\ b.callnum = c.num
      /\ (b.reply = c /\ b.code = NoMsg) \/ (b.reply = NoMsg /\ b.code = c)
  BY <1>1 DEF Working, Record, NoReply
<1>4. f.acts = d.acts /\ Len(f.acts) = 1 /\ f.acts = <<d.acts[1]>>
  BY <1>2 DEF Working, Record
<1>5. e = [f EXCEPT !.acts = [@ EXCEPT ![1] = TopAct]]
  <2>1. ~(Len(d.acts) > 1)
    BY DEF Working
  <2>2. CurBox(d) = d.mbox /\ SetBox(d, b) = f
    BY <1>2, <2>1 DEF CurBox, SetBox
  <2>3. e = SetCur(f, TopAct)
    BY <1>1, <2>2, CallFields DEF Complete
  <2>4. QED
    BY <1>4, <2>3 DEF SetCur
<1>6. e.acts = <<TopAct>>
  <2>1. PICK x : x = [f.acts EXCEPT ![1] = TopAct]
    OBVIOUS
  <2>2. x = <<TopAct>>
    BY <1>4, <2>1, One
  <2>3. DOMAIN f = DOMAIN d /\ "acts" \in DOMAIN d
    BY <1>2 DEF Working, Record
  <2>4. e.acts = x
    BY <1>5, <2>1, <2>3
  <2>5. QED
    BY <2>2, <2>4
<1>7. Record(e) /\ e.slot = TRUE /\ e.waiting = FALSE /\ e.out = <<>> /\ e.mbox = b
  BY <1>2, <1>3, <1>5 DEF Working, Record
<1>8. QED
  BY <1>3, <1>6, <1>7 DEF Replied

\* The call goes on: it ends, calls back or waits.
LEMMA ProceedRan ==
  ASSUME NEW d, NEW c \in Calls, Working(d, c), NEW a, ActOf(a, c), NEW e \in Proceed(d, a)
  PROVE  Ran(e, c)
<1>1. CASE e = Complete(d, a.call, a.cont, TRUE)
  BY <1>1, CompleteReplies DEF ActOf, Ran
<1>2. CASE e \in PerformS2C(d, a)
  <2>1. PICK b : b = [a EXCEPT !.st = "s2c", !.s2cs = @ + 1]
    OBVIOUS
  <2>2. PICK f : f = [d EXCEPT !.acts = [@ EXCEPT ![1] = b]]
    OBVIOUS
  <2>3. f.acts = <<b>>
    BY <2>2, One DEF Working, Record
  <2>4. e = [f EXCEPT !.s2c = FALSE, !.out = Append(@, S2C(c))]
    BY <1>2, <2>1, <2>2 DEF PerformS2C, SetCur, S2C, ActOf, Working
  <2>5. /\ ActOf(b, c) /\ b.st = "s2c"
    BY <2>1 DEF ActOf
  <2>6. /\ Record(e) /\ NoReply(e) /\ e.slot = TRUE /\ e.mbox.callnum = c.num /\ e.acts = <<b>>
        /\ e.waiting = FALSE /\ e.s2c = FALSE /\ e.out = Append(<<>>, S2C(c))
    BY <2>2, <2>3, <2>4 DEF Working, Record, NoReply
  <2>7. Len(e.acts) = 1 /\ e.acts[1] = b /\ e.out = <<S2C(c)>>
    BY <2>6, One
  <2>8. QED
    BY <2>5, <2>6, <2>7 DEF Ran, Suspended, Serving, ActOf
<1>3. CASE e \in Park(d, a)
  <2>1. PICK k \in BOOLEAN : e = [SetCur(d, [a EXCEPT !.st = "blocked", !.cont = k]) EXCEPT !.waiting = TRUE]
    BY <1>3 DEF Park
  <2>2. PICK b : b = [a EXCEPT !.st = "blocked", !.cont = k]
    OBVIOUS
  <2>3. PICK f : f = [d EXCEPT !.acts = [@ EXCEPT ![1] = b]]
    OBVIOUS
  <2>4. f.acts = <<b>>
    BY <2>3, One DEF Working, Record
  <2>5. e = [f EXCEPT !.waiting = TRUE]
    BY <2>1, <2>2, <2>3 DEF SetCur, Working
  <2>6. ActOf(b, c) /\ b.st = "blocked"
    BY <2>2 DEF ActOf
  <2>7. /\ Record(e) /\ NoReply(e) /\ e.slot = TRUE /\ e.mbox.callnum = c.num /\ e.acts = <<b>>
        /\ e.waiting = TRUE /\ e.out = <<>>
    BY <2>3, <2>4, <2>5 DEF Working, Record, NoReply
  <2>8. Len(e.acts) = 1 /\ e.acts[1] = b
    BY <2>7, One
  <2>9. QED
    BY <2>6, <2>7, <2>8 DEF Ran, Blocked, Serving, ActOf
<1>4. QED
  BY <1>1, <1>2, <1>3 DEF Proceed

\* The loop dispatches the call that handle_call put into the mailbox.
LEMMA DispatchRan ==
  ASSUME NEW d, NEW c \in Calls, Free(d), d.out = <<>>, NEW e \in RunCall(d, c)
  PROVE  Ran(e, c) /\ (c.num = "checkout" => Replied(e, c) /\ e.out = <<>>)
<1>1. PICK f : f = Ensured(d)
  OBVIOUS
<1>2. /\ Record(f) /\ NoReply(f) /\ f.slot = TRUE /\ f.waiting = FALSE /\ f.out = <<>>
      /\ f.acts = <<TopAct>>
  <2>1. CASE d.slot
    BY <1>1, <2>1 DEF Ensured, Free
  <2>2. CASE ~d.slot
    <3>1. f = [d EXCEPT !.slot = TRUE, !.acts = <<TopAct>>, !.mbox = EmptyBox, !.intr = FALSE]
      BY <1>1, <2>2 DEF Ensured
    <3>2. QED
      BY <3>1 DEF Free, Record, NoReply, EmptyBox, NoMsg
  <2>3. QED
    BY <2>1, <2>2 DEF Free
<1>3. PICK g : g = [f EXCEPT !.mbox.pending = c]
  OBVIOUS
<1>4. /\ DOMAIN g = DOMAIN f /\ g.slot = TRUE /\ g.waiting = FALSE /\ g.out = <<>>
      /\ g.acts = <<TopAct>> /\ g.imbox = EmptyBox /\ g.intr = FALSE
      /\ g.mbox = [f.mbox EXCEPT !.pending = c]
  BY <1>2, <1>3 DEF Record
<1>5. Len(g.acts) = 1 /\ Cur(g) = TopAct /\ CurBox(g) = g.mbox /\ g.mbox.pending = c
  <2>1. Len(g.acts) = 1 /\ g.acts[1] = TopAct
    BY <1>4, One
  <2>2. QED
    BY <1>2, <1>4, <2>1 DEF Cur, CurBox, Record
<1>6. PICK m : m = [g.mbox EXCEPT !.pending = NoMsg, !.callnum = c.num]
  OBVIOUS
<1>7. PICK h : h = [g EXCEPT !.mbox = m]
  OBVIOUS
<1>8. Working(h, c) /\ h.acts[1] = TopAct
  <2>1. /\ DOMAIN m = {"pending", "reply", "code", "callnum"} /\ m.pending = NoMsg
        /\ m.reply = NoMsg /\ m.code = NoMsg /\ m.callnum = c.num
    BY <1>2, <1>4, <1>6 DEF Record, NoReply
  <2>2. /\ DOMAIN h = {"slot", "acts", "mbox", "imbox", "intr", "waiting", "s2c", "out"}
        /\ h.slot = TRUE /\ h.waiting = FALSE /\ h.out = <<>> /\ h.acts = <<TopAct>>
        /\ h.imbox = EmptyBox /\ h.intr = FALSE /\ h.mbox = m
    BY <1>2, <1>4, <1>7 DEF Record
  <2>3. Len(h.acts) = 1 /\ h.acts[1] = TopAct
    BY <2>2, One
  <2>4. QED
    BY <2>1, <2>2, <2>3 DEF Working, Record, NoReply
<1>9. Resume(g) = {g}
  BY <1>5 DEF Resume, TopAct
<1>10. e \in Dispatch(g)
  <2>1. e \in Run(g)
    BY <1>1, <1>3 DEF RunCall
  <2>2. Cur(g).st = "top" /\ CurBox(g).pending # NoMsg
    <3>1. c # NoMsg
      BY CallFields
    <3>2. TopAct.st = "top"
      BY DEF TopAct
    <3>3. QED
      BY <1>5, <3>1, <3>2
  <2>3. PICK r \in Resume(g) :
          e \in IF Cur(r).st = "top" /\ CurBox(r).pending # NoMsg THEN Dispatch(r) ELSE {r}
    BY <2>1 DEF Run
  <2>4. QED
    BY <1>9, <2>2, <2>3
<1>11. h = SetBox(g, [CurBox(g) EXCEPT !.pending = NoMsg, !.callnum = c.num])
  BY <1>5, <1>6, <1>7 DEF SetBox
<1>12. CASE c.num = "checkout"
  <2>1. e = Complete(h, c, FALSE, TRUE)
    BY <1>5, <1>10, <1>11, <1>12 DEF Dispatch
  <2>2. QED
    BY <1>8, <2>1, CompleteReplies DEF Ran
<1>13. CASE c.num # "checkout"
  <2>1. PICK a : a = [TopAct EXCEPT !.call = c]
    OBVIOUS
  <2>2. ActOf(a, c)
    BY <2>1 DEF TopAct, ActOf
  <2>3. e \in Proceed(h, a)
    BY <1>5, <1>10, <1>11, <1>13, <2>1, CallFields DEF Dispatch
  <2>4. QED
    BY <1>8, <1>13, <2>2, <2>3, ProceedRan
<1>14. QED
  BY <1>12, <1>13

\* A microthread that is not at the top, and ran, is not given another call.
LEMMA RunOnce ==
  ASSUME NEW d, NEW c \in Calls, NEW f, Working(f, c), NEW a, ActOf(a, c),
         Resume(d) \subseteq Proceed(f, a), NEW e \in Run(d)
  PROVE  Ran(e, c)
<1>1. PICK r \in Resume(d) :
        e \in IF Cur(r).st = "top" /\ CurBox(r).pending # NoMsg THEN Dispatch(r) ELSE {r}
  BY DEF Run
<1>2. Ran(r, c)
  BY <1>1, ProceedRan
<1>3. Record(r) /\ Len(r.acts) = 1
  BY <1>2, One DEF Ran, Blocked, Suspended, Serving, Replied
<1>4. CurBox(r) = r.mbox /\ r.mbox.pending = NoMsg
  BY <1>3 DEF CurBox, Record
<1>5. QED
  BY <1>1, <1>2, <1>4

\* XNU wakes a microthread that waits.
LEMMA WakeRan ==
  ASSUME NEW d, NEW c \in Calls, Blocked(d, c), d.out = <<>>,
         NEW e \in Run([d EXCEPT !.waiting = FALSE])
  PROVE  Ran(e, c)
<1>1. PICK g : g = [d EXCEPT !.waiting = FALSE]
  OBVIOUS
<1>2. /\ DOMAIN g = DOMAIN d /\ g.waiting = FALSE /\ g.acts = d.acts /\ g.mbox = d.mbox
      /\ g.imbox = d.imbox /\ g.intr = d.intr /\ g.slot = d.slot /\ g.out = d.out
  BY <1>1 DEF Blocked, Serving, Record
<1>3. PICK f : f = [g EXCEPT !.waiting = FALSE]
  OBVIOUS
<1>4. /\ DOMAIN f = DOMAIN d /\ f.waiting = FALSE /\ f.acts = d.acts /\ f.mbox = d.mbox
      /\ f.imbox = d.imbox /\ f.intr = d.intr /\ f.slot = d.slot /\ f.out = d.out
  BY <1>2, <1>3 DEF Blocked, Serving, Record
<1>5. Working(f, c)
  BY <1>4 DEF Blocked, Serving, Working, Record, NoReply
<1>6. PICK a : a = d.acts[1]
  OBVIOUS
<1>7. ActOf(a, c) /\ Cur(g) = a /\ a.st = "blocked"
  BY <1>2, <1>6 DEF Blocked, Serving, ActOf, Cur
<1>8. Resume(g) \subseteq Proceed(f, a)
  BY <1>3, <1>7 DEF Resume
<1>9. QED
  BY <1>1, <1>5, <1>7, <1>8, RunOnce

\* The guest's answer resumes the call that asked for it.
LEMMA AnswerRan ==
  ASSUME NEW d, NEW c \in Calls, Suspended(d, c), d.out = <<>>, NEW e \in DeliverS2C(d)
  PROVE  Ran(e, c)
<1>1. PICK g : g = [d EXCEPT !.s2c = TRUE]
  OBVIOUS
<1>2. /\ DOMAIN g = DOMAIN d /\ g.waiting = d.waiting /\ g.acts = d.acts /\ g.mbox = d.mbox
      /\ g.imbox = d.imbox /\ g.intr = d.intr /\ g.slot = d.slot /\ g.out = d.out /\ g.s2c = TRUE
  BY <1>1 DEF Suspended, Serving, Record
<1>3. PICK f : f = [g EXCEPT !.s2c = FALSE]
  OBVIOUS
<1>4. /\ DOMAIN f = DOMAIN d /\ f.waiting = FALSE /\ f.acts = d.acts /\ f.mbox = d.mbox
      /\ f.imbox = d.imbox /\ f.intr = d.intr /\ f.slot = d.slot /\ f.out = d.out
  BY <1>2, <1>3 DEF Suspended, Serving, Record
<1>5. Working(f, c)
  BY <1>4 DEF Suspended, Serving, Working, Record, NoReply
<1>6. PICK a : a = d.acts[1]
  OBVIOUS
<1>7. ActOf(a, c) /\ Cur(g) = a /\ a.st = "s2c"
  BY <1>2, <1>6 DEF Suspended, Serving, ActOf, Cur
<1>8. Resume(g) \subseteq Proceed(f, a)
  BY <1>2, <1>3, <1>7 DEF Resume
<1>9. g.acts # <<>>
  BY <1>2, One DEF Suspended, Serving
<1>10. e \in Run(g)
  BY <1>1, <1>9 DEF DeliverS2C
<1>11. QED
  BY <1>5, <1>7, <1>8, <1>10, RunOnce

\* An answer that nobody waits for changes nothing but REPLIES.
LEMMA AnswerIdle ==
  ASSUME NEW d, Record(d), d.acts = <<>> \/ d.acts = <<TopAct>>, NEW e \in DeliverS2C(d)
  PROVE  /\ DOMAIN e = DOMAIN d /\ e.waiting = d.waiting /\ e.acts = d.acts /\ e.mbox = d.mbox
         /\ e.imbox = d.imbox /\ e.intr = d.intr /\ e.slot = d.slot /\ e.out = d.out
<1>1. PICK g : g = [d EXCEPT !.s2c = TRUE]
  OBVIOUS
<1>2. /\ DOMAIN g = DOMAIN d /\ g.waiting = d.waiting /\ g.acts = d.acts /\ g.mbox = d.mbox
      /\ g.imbox = d.imbox /\ g.intr = d.intr /\ g.slot = d.slot /\ g.out = d.out
  BY <1>1 DEF Record
<1>3. CASE d.acts = <<>>
  BY <1>1, <1>2, <1>3 DEF DeliverS2C
<1>4. CASE d.acts = <<TopAct>>
  <2>1. g.acts # <<>> /\ Cur(g).st = "top" /\ CurBox(g) = g.mbox
    BY <1>2, <1>4, One DEF Cur, CurBox, TopAct
  <2>2. e \in Run(g)
    BY <1>1, <2>1 DEF DeliverS2C
  <2>3. Resume(g) = {g}
    BY <2>1 DEF Resume
  <2>4. PICK r \in Resume(g) :
          e \in IF Cur(r).st = "top" /\ CurBox(r).pending # NoMsg THEN Dispatch(r) ELSE {r}
    BY <2>2 DEF Run
  <2>5. CurBox(g).pending = NoMsg
    BY <1>2, <2>1 DEF Record
  <2>6. e = g
    BY <2>3, <2>4, <2>5
  <2>7. QED
    BY <1>2, <2>6
<1>5. QED
  BY <1>3, <1>4

\* Nor would it harm a call that waits in XNU.
LEMMA AnswerBlocked ==
  ASSUME NEW d, NEW c \in Calls, Blocked(d, c), d.out = <<>>, NEW e \in DeliverS2C(d)
  PROVE  Ran(e, c)
<1>1. PICK g : g = [d EXCEPT !.s2c = TRUE]
  OBVIOUS
<1>2. /\ DOMAIN g = DOMAIN d /\ g.acts = d.acts /\ g.mbox = d.mbox
      /\ g.imbox = d.imbox /\ g.intr = d.intr /\ g.slot = d.slot /\ g.out = d.out
  BY <1>1 DEF Blocked, Serving, Record
<1>3. PICK f : f = [g EXCEPT !.waiting = FALSE]
  OBVIOUS
<1>4. /\ DOMAIN f = DOMAIN d /\ f.waiting = FALSE /\ f.acts = d.acts /\ f.mbox = d.mbox
      /\ f.imbox = d.imbox /\ f.intr = d.intr /\ f.slot = d.slot /\ f.out = d.out
  BY <1>2, <1>3 DEF Blocked, Serving, Record
<1>5. Working(f, c)
  BY <1>4 DEF Blocked, Serving, Working, Record, NoReply
<1>6. PICK a : a = d.acts[1]
  OBVIOUS
<1>7. ActOf(a, c) /\ Cur(g) = a /\ a.st = "blocked"
  BY <1>2, <1>6 DEF Blocked, Serving, ActOf, Cur
<1>8. Resume(g) \subseteq Proceed(f, a)
  BY <1>3, <1>7 DEF Resume
<1>9. g.acts # <<>>
  BY <1>2, One DEF Blocked, Serving
<1>10. e \in Run(g)
  BY <1>1, <1>9 DEF DeliverS2C
<1>11. QED
  BY <1>5, <1>7, <1>8, <1>10, RunOnce

-----------------------------------------------------------------------------
(* An event, seen by one thread. *)

\* What an event leaves of a thread whose call c it worked on: as a run left it, or
\* with the reply on its way.
After(e, c) == Ran(e, c) \/ (Free(e) /\ e.out = <<c>>)

\* The same with no reply left in the mailbox.
Flushed(e, c) == After(e, c) /\ Record(e) /\ NoReply(e)

\* flush_replies sends what is in the mailbox, and leaves the rest alone.
LEMMA FlushMoves ==
  ASSUME NEW d, NEW e, e = Flush(d)
  PROVE  /\ Free(d) /\ d.out = <<>> => Free(e) /\ e.out = <<>>
         /\ \A c \in Calls : Suspended(d, c) /\ d.out = <<>> => Suspended(e, c) /\ e.out = <<>>
         /\ \A c \in Calls : Ran(d, c) => Flushed(e, c)
         /\ \A c \in Calls : Replied(d, c) /\ d.out = <<>> => Free(e) /\ e.out = <<c>> /\ e.slot = TRUE
<1>1. ASSUME Record(d), NoReply(d), d.slot = TRUE, d.out \in Seq(Msg)
      PROVE  /\ Record(e) /\ NoReply(e) /\ e.slot = TRUE /\ e.waiting = d.waiting
             /\ e.acts = d.acts /\ e.s2c = d.s2c /\ e.out = d.out /\ e.mbox.callnum = d.mbox.callnum
  <2>1. PICK b : b = [d.mbox EXCEPT !.reply = NoMsg]
    OBVIOUS
  <2>2. d.out \o <<>> = d.out
    BY <1>1
  <2>3. e = [d EXCEPT !.mbox = b, !.out = d.out]
    BY <1>1, <2>1, <2>2 DEF Flush, FlushMailbox, TakeReply, BoxReplies, Record, NoReply
  <2>4. QED
    BY <1>1, <2>1, <2>3 DEF Record, NoReply
<1>2. <<>> \in Seq(Msg)
  OBVIOUS
<1>3. ASSUME Free(d), d.out = <<>> PROVE Free(e) /\ e.out = <<>>
  <2>1. CASE d.slot
    BY <1>1, <1>2, <1>3, <2>1 DEF Free
  <2>2. CASE ~d.slot
    BY <1>3, <2>2 DEF Free, Flush
  <2>3. QED
    BY <2>1, <2>2
<1>4. ASSUME NEW c \in Calls, NEW st, Serving(d, c, st), d.out \in Seq(Msg)
      PROVE  Serving(e, c, st) /\ e.out = d.out /\ e.waiting = d.waiting /\ e.s2c = d.s2c
  BY <1>1, <1>4 DEF Serving
<1>5. ASSUME NEW c \in Calls, Suspended(d, c), d.out = <<>> PROVE Suspended(e, c) /\ e.out = <<>>
  BY <1>2, <1>4, <1>5 DEF Suspended
<1>6. ASSUME NEW c \in Calls, Replied(d, c), d.out = <<>>
      PROVE  Free(e) /\ e.out = <<c>> /\ e.slot = TRUE
  <2>1. PICK b : b = TakeReply(d.mbox)
    OBVIOUS
  <2>2. c # NoMsg /\ [c EXCEPT !.num = c.num] = c
    BY CallFields
  <2>3. BoxReplies(d.mbox) = <<c>>
    BY <1>6, <2>2 DEF BoxReplies, Replied
  <2>4. /\ DOMAIN b = {"pending", "reply", "code", "callnum"} /\ b.pending = NoMsg
        /\ b.reply = NoMsg /\ b.code = NoMsg
    BY <1>6, <2>1, <2>2 DEF TakeReply, Replied, Record
  <2>5. <<>> \o <<c>> = <<c>>
    BY One
  <2>6. e = [d EXCEPT !.mbox = b, !.out = <<c>>]
    BY <1>6, <2>1, <2>3, <2>5 DEF Flush, FlushMailbox, Replied, Record
  <2>7. QED
    BY <1>6, <2>4, <2>6 DEF Free, Replied, Record, NoReply
<1>7. ASSUME NEW c \in Calls, Ran(d, c) PROVE Flushed(e, c)
  <2>1. CASE Blocked(d, c) /\ d.out = <<>>
    BY <1>2, <1>4, <2>1 DEF Blocked, Serving, Flushed, After, Ran
  <2>2. CASE Suspended(d, c) /\ d.out = <<S2C(c)>>
    <3>0. S2C(c) \in Msg
      BY CallFields
    <3>1. <<S2C(c)>> \in Seq(Msg)
      BY <3>0
    <3>2. QED
      BY <1>4, <2>2, <3>1 DEF Suspended, Serving, Flushed, After, Ran
  <2>3. CASE Replied(d, c) /\ d.out = <<>>
    BY <1>6, <2>3 DEF Flushed, After, Free
  <2>4. QED
    BY <1>7, <2>1, <2>2, <2>3 DEF Ran
<1>8. QED
  BY <1>3, <1>5, <1>6, <1>7

\* The microthread is woken or not, and the replies are flushed or not.
Woke(d, x) == x = d \/ (d.waiting /\ x \in Run([d EXCEPT !.waiting = FALSE]))
Passed(d, e) == \E x : Woke(d, x) /\ (e = x \/ e = Flush(x))

\* A wake lets a call go on.
LEMMA WokeRan ==
  ASSUME NEW d, NEW x, Woke(d, x), NEW c \in Calls, Ran(d, c)
  PROVE  Ran(x, c)
<1>1. CASE x # d
  <2>1. d.waiting /\ x \in Run([d EXCEPT !.waiting = FALSE])
    BY <1>1 DEF Woke
  <2>2. Blocked(d, c) /\ d.out = <<>>
    BY <2>1 DEF Ran, Suspended, Replied
  <2>3. QED
    BY <2>1, <2>2, WakeRan
<1>2. QED
  BY <1>1

\* What that makes of a thread whose mail the event is not about.
LEMMA PassedMoves ==
  ASSUME NEW d, NEW e, Passed(d, e)
  PROVE  /\ Free(d) /\ d.out = <<>> => Free(e) /\ e.out = <<>>
         /\ \A c \in Calls : Suspended(d, c) /\ d.out = <<>> => Suspended(e, c) /\ e.out = <<>>
         /\ \A c \in Calls : Ran(d, c) => After(e, c)
<1>1. PICK x : Woke(d, x) /\ (e = x \/ e = Flush(x))
  BY DEF Passed
<1>2. ASSUME Free(d), d.out = <<>> PROVE Free(e) /\ e.out = <<>>
  <2>1. x = d
    BY <1>1, <1>2 DEF Free, Woke
  <2>2. QED
    BY <1>1, <1>2, <2>1, FlushMoves
<1>3. ASSUME NEW c \in Calls, Suspended(d, c), d.out = <<>> PROVE Suspended(e, c) /\ e.out = <<>>
  <2>1. x = d
    BY <1>1, <1>3 DEF Suspended, Woke
  <2>2. QED
    BY <1>1, <1>3, <2>1, FlushMoves
<1>4. ASSUME NEW c \in Calls, Ran(d, c) PROVE After(e, c)
  <2>1. Ran(x, c)
    BY <1>1, <1>4, WokeRan
  <2>2. QED
    BY <1>1, <2>1, FlushMoves DEF Flushed, After
<1>5. QED
  BY <1>2, <1>3, <1>4

\* The datagrams leave.
LEMMA ClearedKeeps ==
  ASSUME NEW e, NEW g, g = [e EXCEPT !.out = <<>>]
  PROVE  /\ Free(e) => Free(g) /\ g.out = <<>>
         /\ \A c \in Calls : Blocked(e, c) => Blocked(g, c) /\ g.out = <<>>
         /\ \A c \in Calls : Suspended(e, c) => Suspended(g, c) /\ g.out = <<>>
         /\ \A c \in Calls : Replied(e, c) => Replied(g, c) /\ g.out = <<>>
<1>1. ASSUME Record(e)
      PROVE  /\ DOMAIN g = DOMAIN e /\ g.waiting = e.waiting /\ g.acts = e.acts /\ g.mbox = e.mbox
             /\ g.imbox = e.imbox /\ g.intr = e.intr /\ g.slot = e.slot /\ g.s2c = e.s2c
             /\ g.out = <<>>
  BY <1>1 DEF Record
<1>2. Free(e) => Free(g) /\ g.out = <<>>
  BY <1>1 DEF Free, Record, NoReply
<1>3. ASSUME NEW c \in Calls, NEW st, Serving(e, c, st)
      PROVE  Serving(g, c, st) /\ g.out = <<>> /\ g.waiting = e.waiting /\ g.s2c = e.s2c
  BY <1>1, <1>3 DEF Serving, Record, NoReply
<1>4. ASSUME NEW c \in Calls, Replied(e, c) PROVE Replied(g, c) /\ g.out = <<>>
  BY <1>1, <1>4 DEF Replied, Record
<1>5. QED
  BY <1>2, <1>3, <1>4 DEF Blocked, Suspended

\* The checkout of a thread that serves no other call frees its microthread and its
\* slot; the reply is out already.
LEMMA ReapFrees ==
  ASSUME NEW d, NEW c, Free(d), d.slot = TRUE, d.out = <<c>>, NEW r \in Reap(d)
  PROVE  Free(r) /\ r.out = <<c>>
<1>1. d.acts = <<TopAct>>
  BY DEF Free
<1>2. Len(d.acts) = 1 /\ d.acts[1] = TopAct
  BY <1>1, One
<1>3. Cur(d).st = "top"
  BY <1>2 DEF Cur, TopAct
<1>4. Resume(d) = {d}
  BY <1>3 DEF Resume
<1>5. r = [d EXCEPT !.slot = FALSE, !.intr = FALSE, !.mbox = EmptyBox, !.imbox = EmptyBox,
                    !.acts = IF Len(@) = 1 /\ Cur(d).st = "top" THEN <<>> ELSE @]
  BY <1>2, <1>4 DEF Reap
<1>6. r = [d EXCEPT !.slot = FALSE, !.intr = FALSE, !.mbox = EmptyBox, !.imbox = EmptyBox,
                    !.acts = <<>>]
  BY <1>2, <1>3, <1>5 DEF Free, Record
<1>7. QED
  BY <1>6 DEF Free, Record, NoReply, EmptyBox, NoMsg

\* What the event of a datagram makes of the thread that sent it: a call that finds
\* the daemon free is taken up, and so is the guest's answer to an S2C call.
LEMMA HandledMoves ==
  ASSUME NEW d, d.out = <<>>, NEW m, NEW e \in HandleCall(d, m),
         NEW x, Woke(e, x), NEW f, f = Flush(x),
         NEW r \in (IF m.num = "checkout" THEN Reap(f) ELSE {f})
  PROVE  /\ m \in Calls /\ Free(d) => Flushed(r, m)
         /\ m.num = "s2c" /\ Free(d) => Free(r) /\ r.out = <<>>
         /\ \A c \in Calls :
              m.num = "s2c" /\ (Blocked(d, c) \/ Suspended(d, c) \/ Replied(d, c)) => Flushed(r, c)
<1>0. Passed(e, f)
  BY DEF Passed
<1>1. ASSUME m \in Calls, Free(d) PROVE Flushed(r, m)
  <2>1. d.intr = FALSE /\ m.num \in {"block", "quick", "checkout"}
    BY <1>1, CallFields DEF Free, Record
  <2>2. e \in RunCall(d, m)
    BY <2>1 DEF HandleCall
  <2>3. Ran(e, m) /\ (m.num = "checkout" => Replied(e, m) /\ e.out = <<>>)
    BY <1>1, <2>2, DispatchRan
  <2>4. CASE m.num = "checkout"
    <3>1. Replied(e, m) /\ e.out = <<>> /\ x = e
      BY <2>3, <2>4 DEF Woke, Replied
    <3>2. Free(f) /\ f.out = <<m>> /\ f.slot = TRUE
      BY <1>1, <3>1, FlushMoves
    <3>3. r \in Reap(f)
      BY <2>4
    <3>4. QED
      BY <3>2, <3>3, ReapFrees DEF Flushed, After, Free
  <2>5. CASE m.num # "checkout"
    BY <1>1, <2>3, <2>5, WokeRan, FlushMoves
  <2>6. QED
    BY <2>4, <2>5
<1>2. ASSUME m.num = "s2c" PROVE e \in DeliverS2C(d) /\ r = f
  BY <1>2 DEF HandleCall
<1>3. ASSUME m.num = "s2c", Free(d) PROVE Free(r) /\ r.out = <<>>
  <2>0. Record(d) /\ (d.acts = <<>> \/ d.acts = <<TopAct>>)
    BY <1>3 DEF Free
  <2>1. /\ DOMAIN e = DOMAIN d /\ e.waiting = d.waiting /\ e.acts = d.acts /\ e.mbox = d.mbox
        /\ e.imbox = d.imbox /\ e.intr = d.intr /\ e.slot = d.slot /\ e.out = d.out
    BY <1>2, <1>3, <2>0, AnswerIdle
  <2>2. Free(e) /\ e.out = <<>>
    BY <1>3, <2>1 DEF Free, Record, NoReply
  <2>3. QED
    BY <1>0, <1>2, <1>3, <2>2, PassedMoves
<1>4. ASSUME NEW c \in Calls, m.num = "s2c", Blocked(d, c) \/ Suspended(d, c) \/ Replied(d, c)
      PROVE  Flushed(r, c)
  <2>1. Ran(e, c)
    <3>1. CASE Blocked(d, c)
      BY <1>2, <1>4, <3>1, AnswerBlocked
    <3>2. CASE Suspended(d, c)
      BY <1>2, <1>4, <3>2, AnswerRan
    <3>3. CASE Replied(d, c)
      <4>1. Replied(e, c) /\ e.out = <<>>
        BY <1>2, <1>4, <3>3, AnswerIdle DEF Replied, Record
      <4>2. QED
        BY <4>1 DEF Ran
    <3>4. QED
      BY <1>4, <3>1, <3>2, <3>3
  <2>2. QED
    BY <1>2, <1>4, <2>1, WokeRan, FlushMoves
<1>5. QED
  BY <1>1, <1>3, <1>4

-----------------------------------------------------------------------------
(* The daemon's socket. *)

\* What becomes of the mail of a thread that nobody sends or handles.
MailKept(t) ==
  /\ NoMail(t) => NoMail(t)'
  /\ \A m : OneMail(t, m) => OneMail(t, m)'
  /\ LastMail(t) => LastMail(t)'

\* The daemon takes the first datagram.
LEMMA MailTaken ==
  ASSUME inbox \in Seq(Mail), inbox # <<>>, inbox' = Tail(inbox), NEW t
  PROVE  /\ Head(inbox).from # t => MailKept(t)
         /\ LastMail(t) => LastMail(t)'
         /\ LastMail(t) /\ Head(inbox).from = t => Head(inbox).msg.num = "s2c"
         /\ NoMail(t) => Head(inbox).from # t
         /\ \A m : OneMail(t, m) /\ Head(inbox).from = t => Head(inbox).msg = m /\ NoMail(t)'
<1>1. PICK n \in Nat : n = Len(inbox) /\ n >= 1
  BY EmptySeq
<1>2. /\ inbox' \in Seq(Mail) /\ Len(inbox') = n - 1 /\ Head(inbox) = inbox[1]
      /\ \A k \in 1..(n - 1) : inbox'[k] = inbox[k + 1]
  BY <1>1, HeadTailProperties
<1>3. NoMail(t) => Head(inbox).from # t
  BY <1>1, <1>2 DEF NoMail
<1>4. LastMail(t) => LastMail(t)'
  BY <1>1, <1>2 DEF LastMail
<1>5. LastMail(t) /\ Head(inbox).from = t => Head(inbox).msg.num = "s2c"
  BY <1>1, <1>2 DEF LastMail
<1>6. NoMail(t) => NoMail(t)'
  BY <1>1, <1>2 DEF NoMail
<1>7. ASSUME NEW m, OneMail(t, m)
      PROVE  IF Head(inbox).from = t THEN Head(inbox).msg = m /\ NoMail(t)' ELSE OneMail(t, m)'
  <2>1. PICK k \in 1..n : /\ inbox[k].from = t /\ inbox[k].msg = m
                          /\ \A i \in 1..n : inbox[i].from = t => i = k
    BY <1>1, <1>7 DEF OneMail
  <2>2. CASE Head(inbox).from = t
    <3>1. k = 1
      BY <1>1, <1>2, <2>1, <2>2
    <3>2. \A i \in 1..(n - 1) : inbox'[i].from # t
      BY <1>1, <1>2, <2>1, <3>1
    <3>3. QED
      BY <1>2, <2>1, <2>2, <3>1, <3>2 DEF NoMail
  <2>3. CASE Head(inbox).from # t
    <3>1. PICK j \in 1..(n - 1) : j + 1 = k
      BY <1>1, <1>2, <2>1, <2>3
    <3>2. inbox'[j].from = t /\ inbox'[j].msg = m
      BY <1>2, <2>1, <3>1
    <3>3. \A i \in 1..(n - 1) : inbox'[i].from = t => i = j
      BY <1>1, <1>2, <2>1, <3>1
    <3>4. OneMail(t, m)'
      BY <1>2, <3>2, <3>3 DEF OneMail
    <3>5. QED
      BY <2>3, <3>4
  <2>4. QED
    BY <2>2, <2>3
<1>8. QED
  BY <1>3, <1>4, <1>5, <1>6, <1>7 DEF MailKept

\* A guest thread sends one.
LEMMA MailSent ==
  ASSUME inbox \in Seq(Mail), NEW t \in Threads, NEW m \in Msg,
         inbox' = Append(inbox, [from |-> t, msg |-> m])
  PROVE  /\ inbox' \in Seq(Mail)
         /\ NoMail(t) => OneMail(t, m)'
         /\ \A k \in Threads : k # t => MailKept(k)
<1>1. PICK e : e = [from |-> t, msg |-> m]
  OBVIOUS
<1>2. e \in Mail /\ e.from = t /\ e.msg = m
  BY <1>1 DEF Mail
<1>3. PICK n \in Nat : n = Len(inbox)
  OBVIOUS
<1>4. /\ inbox' \in Seq(Mail) /\ Len(inbox') = n + 1 /\ inbox'[n + 1] = e
      /\ \A i \in 1..n : inbox'[i] = inbox[i]
  BY <1>1, <1>2, <1>3, AppendProperties
<1>5. ASSUME NoMail(t) PROVE OneMail(t, m)'
  <2>1. \A i \in 1..(n + 1) : inbox'[i].from = t => i = n + 1
    BY <1>3, <1>4, <1>5 DEF NoMail
  <2>2. QED
    BY <1>2, <1>4, <2>1 DEF OneMail
<1>6. ASSUME NEW k \in Threads, k # t PROVE MailKept(k)
  <2>1. NoMail(k) => NoMail(k)'
    BY <1>2, <1>3, <1>4, <1>6 DEF NoMail
  <2>2. LastMail(k) => LastMail(k)'
    BY <1>2, <1>3, <1>4, <1>6 DEF LastMail
  <2>3. ASSUME NEW x, OneMail(k, x) PROVE OneMail(k, x)'
    <3>1. PICK j \in 1..n : /\ inbox[j].from = k /\ inbox[j].msg = x
                            /\ \A i \in 1..n : inbox[i].from = k => i = j
      BY <1>3, <2>3 DEF OneMail
    <3>2. \A i \in 1..(n + 1) : inbox'[i].from = k => i = j
      BY <1>2, <1>4, <1>6, <3>1
    <3>3. j \in 1..(n + 1) /\ inbox'[j] = inbox[j]
      BY <1>3, <1>4, <3>1
    <3>4. QED
      BY <1>4, <3>1, <3>2, <3>3 DEF OneMail
  <2>4. QED
    BY <2>1, <2>2, <2>3 DEF MailKept
<1>7. QED
  BY <1>4, <1>5, <1>6

-----------------------------------------------------------------------------
(* One thread in a step of the daemon. *)

Good(t) == Followed(t) /\ srv[t].out = <<>>

\* An event left e for thread t, and its datagrams leave.
Leaves(t, e) ==
  /\ stack'[t] = stack[t] /\ dead' = dead
  /\ sock'[t] = IF ProcOf[t] \in dead THEN <<>> ELSE sock[t] \o e.out
  /\ srv'[t] = [e EXCEPT !.out = <<>>]

\* The mailboxes hold no reply.
Empty(t) == Record(srv[t]) /\ NoReply(srv[t])

\* A thread flushed is left without a reply.
LEMMA LeavesEmpty ==
  ASSUME NEW t, NEW e, Leaves(t, e), Record(e), NoReply(e)
  PROVE  Empty(t)'
<1>1. srv'[t] = [e EXCEPT !.out = <<>>]
  BY DEF Leaves
<1>2. PICK g : g = [e EXCEPT !.out = <<>>]
  OBVIOUS
<1>3. Record(g) /\ NoReply(g)
  BY <1>2 DEF Record, NoReply
<1>4. QED
  BY <1>1, <1>2, <1>3 DEF Empty

\* After an event that worked on the call of a live thread, the daemon has the call
\* or its answer is out.
LEMMA LeavesCall ==
  ASSUME NEW t \in Threads, NEW c \in Calls, NEW e, Leaves(t, e), After(e, c),
         ProcOf[t] \notin dead, stack[t] = <<c>>, sock[t] = <<>>, NoMail(t)'
  PROVE  Good(t)'
<1>1. stack'[t] = <<c>> /\ ProcOf[t] \notin dead' /\ sock'[t] = <<>> \o e.out
  BY DEF Leaves
<1>2. srv'[t] = [e EXCEPT !.out = <<>>]
  BY DEF Leaves
<1>3. CASE Blocked(e, c) /\ e.out = <<>>
  <2>1. Blocked(srv'[t], c) /\ srv'[t].out = <<>>
    BY <1>2, <1>3, ClearedKeeps
  <2>2. sock'[t] = <<>>
    BY <1>1, <1>3, One
  <2>3. Held(t, c)'
    BY <2>1, <2>2 DEF Held
  <2>4. QED
    BY <1>1, <2>1, <2>3 DEF Good, Followed, Outside
<1>4. CASE Suspended(e, c) /\ e.out = <<S2C(c)>>
  <2>1. Suspended(srv'[t], c) /\ srv'[t].out = <<>>
    BY <1>2, <1>4, ClearedKeeps
  <2>2. sock'[t] = <<S2C(c)>>
    BY <1>1, <1>4, One
  <2>3. Asked(t, c)'
    BY <2>1, <2>2 DEF Asked, S2C
  <2>4. QED
    BY <1>1, <2>1, <2>3 DEF Good, Followed, Outside
<1>5. CASE Replied(e, c) /\ e.out = <<>>
  <2>1. Replied(srv'[t], c) /\ srv'[t].out = <<>>
    BY <1>2, <1>5, ClearedKeeps
  <2>2. sock'[t] = <<>>
    BY <1>1, <1>5, One
  <2>3. Held(t, c)'
    BY <2>1, <2>2 DEF Held
  <2>4. QED
    BY <1>1, <2>1, <2>3 DEF Good, Followed, Outside
<1>6. CASE Free(e) /\ e.out = <<c>>
  <2>1. Free(srv'[t]) /\ srv'[t].out = <<>>
    BY <1>2, <1>6, ClearedKeeps
  <2>2. sock'[t] = <<c>>
    BY <1>1, <1>6, One
  <2>3. Sent(t, c)'
    BY <2>1, <2>2 DEF Sent
  <2>4. QED
    BY <1>1, <2>1, <2>3 DEF Good, Followed, Outside
<1>7. QED
  BY <1>3, <1>4, <1>5, <1>6 DEF After, Ran

\* The stack of a thread of a dead process no longer changes.
LastStack(t) ==
  stack[t] = <<>> \/ stack[t] = <<NoMsg>> \/ \E c \in Calls : stack[t] = <<c>>

\* The same for a thread of a dead process, whose datagrams go nowhere.
LEMMA LeavesGone ==
  ASSUME NEW t \in Threads, NEW e, Leaves(t, e), ProcOf[t] \in dead, LastStack(t), LastMail(t)',
         \/ Free(e)
         \/ \E c \in Calls : After(e, c) \/ Suspended(e, c)
  PROVE  Good(t)'
<1>1. /\ stack'[t] = stack[t] /\ ProcOf[t] \in dead' /\ sock'[t] = <<>>
      /\ srv'[t] = [e EXCEPT !.out = <<>>]
  BY DEF Leaves
<1>2. CASE Free(e)
  <2>1. Free(srv'[t]) /\ srv'[t].out = <<>>
    BY <1>1, <1>2, ClearedKeeps
  <2>2. QED
    BY <1>1, <2>1 DEF Good, Followed, Gone, LastStack
<1>3. ASSUME NEW c \in Calls, Blocked(e, c) \/ Replied(e, c) \/ Suspended(e, c)
      PROVE  Good(t)'
  <2>1. /\ Blocked(srv'[t], c) \/ Replied(srv'[t], c) \/ Suspended(srv'[t], c)
        /\ srv'[t].out = <<>>
    BY <1>1, <1>3, ClearedKeeps
  <2>2. QED
    BY <1>1, <2>1 DEF Good, Followed, Gone, LastStack
<1>4. QED
  BY <1>2, <1>3 DEF After, Ran

\* A thread whose mail the event is not about.
LEMMA PassedFollowed ==
  ASSUME NEW t \in Threads, Good(t), NEW e, Passed(srv[t], e), Leaves(t, e), MailKept(t)
  PROVE  Good(t)'
<1>1. srv[t].out = <<>>
  BY DEF Good
<1>2. CASE ProcOf[t] \in dead
  <2>1. Gone(t)
    BY <1>2 DEF Good, Followed
  <2>2. LastStack(t)
    BY <2>1 DEF Gone, LastStack
  <2>3. ASSUME NEW c \in Calls, Queued(t, c) PROVE Good(t)'
    <3>1. OneMail(t, c)' /\ Free(e)
      BY <1>1, <2>3, PassedMoves DEF Queued, MailKept
    <3>2. /\ stack'[t] = stack[t] /\ ProcOf[t] \in dead' /\ sock'[t] = <<>>
          /\ srv'[t] = [e EXCEPT !.out = <<>>]
      BY <1>2 DEF Leaves
    <3>3. Free(srv'[t]) /\ srv'[t].out = <<>>
      BY <3>1, <3>2, ClearedKeeps
    <3>4. Queued(t, c)'
      BY <3>1, <3>2, <3>3 DEF Queued
    <3>5. QED
      BY <2>2, <3>2, <3>3, <3>4 DEF Good, Followed, Gone, LastStack
  <2>4. CASE LastMail(t)
    <3>1. LastMail(t)'
      BY <2>4 DEF MailKept
    <3>2. CASE Free(srv[t])
      BY <1>1, <1>2, <2>2, <3>1, <3>2, PassedMoves, LeavesGone
    <3>3. ASSUME NEW c \in Calls, Suspended(srv[t], c) PROVE Good(t)'
      BY <1>1, <1>2, <2>2, <3>1, <3>3, PassedMoves, LeavesGone
    <3>4. ASSUME NEW c \in Calls, Blocked(srv[t], c) \/ Replied(srv[t], c) PROVE Good(t)'
      <4>1. After(e, c)
        BY <1>1, <3>4, PassedMoves DEF Ran
      <4>2. QED
        BY <1>2, <2>2, <3>1, <3>4, <4>1, LeavesGone
    <3>5. \/ Free(srv[t])
          \/ \E c \in Calls : Suspended(srv[t], c)
          \/ \E c \in Calls : Blocked(srv[t], c) \/ Replied(srv[t], c)
      BY <2>1 DEF Gone, Queued
    <3>6. QED
      BY <3>2, <3>3, <3>4, <3>5
  <2>5. QED
    BY <2>1, <2>3, <2>4 DEF Gone
<1>3. CASE ProcOf[t] \notin dead
  <2>1. /\ stack'[t] = stack[t] /\ ProcOf[t] \notin dead' /\ sock'[t] = sock[t] \o e.out
        /\ srv'[t] = [e EXCEPT !.out = <<>>]
    BY <1>3 DEF Leaves
  <2>2. CASE Resting(t)
    <3>1. Free(e) /\ e.out = <<>>
      BY <1>1, <2>2, PassedMoves DEF Resting
    <3>2. Free(srv'[t]) /\ srv'[t].out = <<>> /\ sock'[t] = <<>>
      BY <2>1, <2>2, <3>1, ClearedKeeps, One DEF Resting
    <3>3. Resting(t)'
      BY <2>1, <2>2, <3>2 DEF Resting, MailKept
    <3>4. QED
      BY <2>1, <3>2, <3>3 DEF Good, Followed
  <2>3. ASSUME NEW c \in Calls, stack[t] = <<c>>, Queued(t, c) \/ Sent(t, c) PROVE Good(t)'
    <3>1. Free(e) /\ e.out = <<>>
      BY <1>1, <2>3, PassedMoves DEF Queued, Sent
    <3>2. Free(srv'[t]) /\ srv'[t].out = <<>>
      BY <2>1, <3>1, ClearedKeeps
    <3>3. sock'[t] = sock[t]
      BY <2>1, <2>3, <3>1, One DEF Queued, Sent
    <3>4. Queued(t, c)' \/ Sent(t, c)'
      BY <2>3, <3>2, <3>3 DEF Queued, Sent, MailKept
    <3>5. QED
      BY <2>1, <2>3, <3>2, <3>4 DEF Good, Followed, Outside
  <2>4. ASSUME NEW c \in Calls, stack[t] = <<c>>, Asked(t, c) \/ Told(t, c) PROVE Good(t)'
    <3>1. Suspended(e, c) /\ e.out = <<>>
      BY <1>1, <2>4, PassedMoves DEF Asked, Told
    <3>2. Suspended(srv'[t], c) /\ srv'[t].out = <<>>
      BY <2>1, <2>4, <3>1, ClearedKeeps
    <3>3. sock'[t] = sock[t]
      BY <2>1, <2>4, <3>1, One DEF Asked, Told
    <3>4. Asked(t, c)' \/ Told(t, c)'
      BY <2>4, <3>2, <3>3 DEF Asked, Told, MailKept, S2C
    <3>5. QED
      BY <2>1, <2>4, <3>2, <3>4 DEF Good, Followed, Outside
  <2>5. ASSUME NEW c \in Calls, stack[t] = <<c>>, Held(t, c) PROVE Good(t)'
    <3>1. After(e, c)
      BY <1>1, <2>5, PassedMoves DEF Held, Ran
    <3>2. QED
      BY <1>3, <2>5, <3>1, LeavesCall DEF Held, MailKept
  <2>6. QED
    BY <1>3, <2>2, <2>3, <2>4, <2>5 DEF Good, Followed, Outside
<1>4. QED
  BY <1>2, <1>3

\* What the daemon keeps for a thread, by itself.
LEMMA KeptForThread ==
  ASSUME NEW t \in Threads, Good(t)
  PROVE  \/ Free(srv[t]) \/ \E c \in Calls : Suspended(srv[t], c) \/ Ran(srv[t], c)
BY DEF Good, Followed, Gone, Resting, Outside, Queued, Held, Asked, Told, Sent, Ran

\* A thread that the event flushes.
LEMMA PassedEmpty ==
  ASSUME NEW t \in Threads, Good(t), NEW x, Woke(srv[t], x), NEW e, e = Flush(x), Leaves(t, e)
  PROVE  Empty(t)'
<1>1. srv[t].out = <<>> /\ Passed(srv[t], e)
  BY DEF Good, Passed
<1>2. CASE Free(srv[t])
  BY <1>1, <1>2, PassedMoves, LeavesEmpty DEF Free
<1>3. ASSUME NEW c \in Calls, Suspended(srv[t], c) PROVE Empty(t)'
  <2>1. Suspended(e, c)
    BY <1>1, <1>3, PassedMoves
  <2>2. Record(e) /\ NoReply(e)
    BY <2>1 DEF Suspended, Serving
  <2>3. QED
    BY <2>2, LeavesEmpty
<1>4. ASSUME NEW c \in Calls, Ran(srv[t], c) PROVE Empty(t)'
  BY <1>4, WokeRan, FlushMoves, LeavesEmpty DEF Flushed
<1>5. QED
  BY <1>2, <1>3, <1>4, KeptForThread

\* The thread whose datagram m is handled.
LEMMA HandledFollowed ==
  ASSUME inbox \in Seq(Mail), inbox # <<>>, inbox' = Tail(inbox),
         NEW t \in Threads, Good(t), Head(inbox).from = t, NEW m, m = Head(inbox).msg,
         NEW e \in HandleCall(srv[t], m), NEW x, Woke(e, x), NEW f, f = Flush(x),
         NEW r \in (IF m.num = "checkout" THEN Reap(f) ELSE {f}), Leaves(t, r)
  PROVE  Good(t)' /\ Empty(t)'
<1>1. srv[t].out = <<>>
  BY DEF Good
<1>2. /\ m \in Calls /\ Free(srv[t]) => Flushed(r, m)
      /\ m.num = "s2c" /\ Free(srv[t]) => Free(r)
      /\ \A c \in Calls :
           m.num = "s2c" /\ (Blocked(srv[t], c) \/ Suspended(srv[t], c) \/ Replied(srv[t], c))
             => Flushed(r, c)
  BY <1>1, HandledMoves
<1>3. /\ LastMail(t) => LastMail(t)' /\ m.num = "s2c"
      /\ ~NoMail(t)
      /\ \A y : OneMail(t, y) => m = y /\ NoMail(t)'
  BY MailTaken
<1>4. NoMail(t)' => LastMail(t)'
  BY DEF NoMail, LastMail
<1>5. CASE ProcOf[t] \in dead
  <2>1. Gone(t)
    BY <1>5 DEF Good, Followed
  <2>2. LastStack(t)
    BY <2>1 DEF Gone, LastStack
  <2>3. ASSUME NEW c \in Calls, Queued(t, c) PROVE Good(t)' /\ Empty(t)'
    BY <1>2, <1>3, <1>4, <1>5, <2>2, <2>3, LeavesGone, LeavesEmpty DEF Queued, Flushed
  <2>4. CASE LastMail(t)
    BY <1>2, <1>3, <1>5, <2>1, <2>2, <2>3, <2>4, LeavesGone, LeavesEmpty DEF Gone, Flushed, Free
  <2>5. QED
    BY <2>1, <2>3, <2>4 DEF Gone
<1>6. CASE ProcOf[t] \notin dead
  <2>1. PICK c \in Calls : stack[t] = <<c>> /\ (Queued(t, c) \/ Told(t, c))
    BY <1>3, <1>6 DEF Good, Followed, Resting, Outside, Held, Asked, Sent
  <2>2. CASE Queued(t, c)
    BY <1>2, <1>3, <1>6, <2>1, <2>2, LeavesCall, LeavesEmpty DEF Queued, Flushed
  <2>3. CASE Told(t, c)
    <3>1. m = S2C(c) /\ m.num = "s2c" /\ NoMail(t)'
      BY <1>3, <2>3, CallFields DEF Told
    <3>2. QED
      BY <1>2, <1>6, <2>1, <2>3, <3>1, LeavesCall, LeavesEmpty DEF Told, Flushed
  <2>4. QED
    BY <2>1, <2>2, <2>3
<1>7. QED
  BY <1>5, <1>6

-----------------------------------------------------------------------------
(* The steps of the daemon. *)

\* XNU wakes some of the waiting threads, and leaves the others alone.
LEMMA WokenWakes ==
  ASSUME NEW s, DOMAIN s = Threads, NEW w \in {s} \cup Woken(s), NEW t \in Threads
  PROVE  Woke(s[t], w[t])
<1>1. CASE w = s
  BY <1>1 DEF Woke
<1>2. CASE w \in Woken(s)
  <2>1. w[t] \in Wakings(s[t])
    BY <1>2 DEF Woken
  <2>2. QED
    BY <2>1 DEF Wakings, Woke
<1>3. QED
  BY <1>1, <1>2

\* Sending, for one thread.
LEMMA SendLeaves ==
  ASSUME NEW s, Send(s), UNCHANGED guestVars, NEW t \in Threads
  PROVE  Leaves(t, s[t])
BY DEF Send, Leaves, guestVars

\* The invariant follows from what the daemon leaves of each thread.
LEMMA DaemonKeeps ==
  ASSUME IInv, NEW s, Send(s), UNCHANGED guestVars, inbox' \in Seq(Mail),
         \A t \in Threads : Good(t)'
  PROVE  IInv'
BY DEF IInv, Types, Send, guestVars, Good

\* An event that handles no datagram keeps all mail.
LEMMA MailUnchanged ==
  ASSUME UNCHANGED inbox, NEW t
  PROVE  MailKept(t)
BY DEF MailKept, NoMail, OneMail, LastMail

\* The serve loop handles a datagram.
LEMMA HandleMessageKeeps ==
  ASSUME IInv, HandleMessage
  PROVE  IInv' /\ \A t \in Threads : Empty(t)'
<1>1. PICK t : t = Head(inbox).from
  OBVIOUS
<1>2. PICK m : m = Head(inbox).msg
  OBVIOUS
<1>3. /\ inbox \in Seq(Mail) /\ inbox # <<>> /\ inbox' = Tail(inbox) /\ UNCHANGED guestVars
      /\ DOMAIN srv = Threads
  BY DEF IInv, Types, HandleMessage
<1>4. t \in Threads /\ inbox' \in Seq(Mail)
  <2>1. Head(inbox) \in Mail /\ Tail(inbox) \in Seq(Mail)
    BY <1>3, HeadTailProperties
  <2>2. QED
    BY <1>1, <1>3, <2>1 DEF Mail
<1>5. PICK e \in HandleCall(srv[t], m) :
        LET s == [srv EXCEPT ![t] = e] IN
        \E w \in (IF m.num \in {"enter", "push"} THEN {s} ELSE Woken(s)) :
          LET f == FlushReplies(w) IN
          \E r \in (IF m.num = "checkout" THEN Reap(f[t]) ELSE {f[t]}) :
            Send([f EXCEPT ![t] = r])
  BY <1>1, <1>2 DEF HandleMessage
<1>6. PICK s : s = [srv EXCEPT ![t] = e]
  OBVIOUS
<1>7. PICK w \in {s} \cup Woken(s) :
        \E r \in (IF m.num = "checkout" THEN Reap(FlushReplies(w)[t]) ELSE {FlushReplies(w)[t]}) :
          Send([FlushReplies(w) EXCEPT ![t] = r])
  BY <1>5, <1>6
<1>8. PICK f : f = FlushReplies(w)
  OBVIOUS
<1>9. PICK r \in (IF m.num = "checkout" THEN Reap(f[t]) ELSE {f[t]}) : Send([f EXCEPT ![t] = r])
  BY <1>7, <1>8
<1>10. PICK g : g = [f EXCEPT ![t] = r]
  OBVIOUS
<1>11. DOMAIN s = Threads /\ s[t] = e /\ \A k \in Threads : k # t => s[k] = srv[k]
  BY <1>3, <1>4, <1>6
<1>12. \A k \in Threads : Woke(s[k], w[k])
  BY <1>7, <1>11, WokenWakes
<1>13. DOMAIN f = Threads /\ \A k \in Threads : f[k] = Flush(w[k])
  BY <1>8 DEF FlushReplies
<1>14. g[t] = r /\ \A k \in Threads : k # t => g[k] = f[k]
  BY <1>4, <1>10, <1>13
<1>15. Send(g)
  BY <1>9, <1>10
<1>16. ASSUME NEW k \in Threads PROVE Good(k)' /\ Empty(k)'
  <2>1. Good(k) /\ Leaves(k, g[k])
    BY <1>3, <1>15, SendLeaves DEF IInv, Good
  <2>2. CASE k = t
    BY <1>1, <1>2, <1>3, <1>5, <1>9, <1>11, <1>12, <1>13, <1>14, <2>1, <2>2, HandledFollowed
  <2>3. CASE k # t
    <3>1. Passed(srv[k], g[k])
      BY <1>11, <1>12, <1>13, <1>14, <2>3 DEF Passed
    <3>2. MailKept(k)
      BY <1>1, <1>3, <2>3, MailTaken
    <3>3. QED
      BY <1>11, <1>12, <1>13, <1>14, <2>1, <2>3, <3>1, <3>2, PassedFollowed, PassedEmpty
  <2>4. QED
    BY <2>2, <2>3
<1>17. QED
  BY <1>3, <1>4, <1>15, <1>16, DaemonKeeps

\* An event that is about no datagram: s is srv or srv without a dead process's threads.
LEMMA EventKeeps ==
  ASSUME IInv, UNCHANGED <<inbox, guestVars>>,
         NEW s, DOMAIN s = Threads, NEW w \in {s} \cup Woken(s),
         NEW g, Send(g),
         \A t \in Threads : g[t] = w[t] \/ g[t] = Flush(w[t]),
         \A t \in Threads :
           s[t] = srv[t] \/ (Free(s[t]) /\ s[t].out = <<>> /\ ProcOf[t] \in dead)
  PROVE  IInv'
<1>0. UNCHANGED guestVars /\ UNCHANGED inbox
  OBVIOUS
<1>1. ASSUME NEW t \in Threads PROVE Good(t)'
  <2>1. Good(t) /\ Leaves(t, g[t]) /\ Passed(s[t], g[t]) /\ MailKept(t)
    <3>1. Good(t)
      BY DEF IInv, Good
    <3>2. Leaves(t, g[t])
      BY <1>0, SendLeaves
    <3>3. Woke(s[t], w[t])
      BY WokenWakes
    <3>4. MailKept(t)
      BY <1>0, MailUnchanged
    <3>5. QED
      BY <3>1, <3>2, <3>3, <3>4 DEF Passed
  <2>2. CASE s[t] = srv[t]
    BY <2>1, <2>2, PassedFollowed
  <2>3. CASE Free(s[t]) /\ s[t].out = <<>> /\ ProcOf[t] \in dead
    <3>2. Free(g[t])
      BY <2>1, <2>3, PassedMoves
    <3>3. Gone(t)
      BY <2>1, <2>3 DEF Good, Followed
    <3>4. LastStack(t)
      BY <3>3 DEF Gone, LastStack
    <3>5. CASE LastMail(t)
      BY <2>1, <2>3, <3>2, <3>4, <3>5, LeavesGone DEF MailKept
    <3>6. ASSUME NEW c \in Calls, Queued(t, c) PROVE Good(t)'
      <4>1. /\ stack'[t] = stack[t] /\ ProcOf[t] \in dead' /\ sock'[t] = <<>>
            /\ srv'[t] = [g[t] EXCEPT !.out = <<>>]
        BY <2>1, <2>3 DEF Leaves
      <4>2. Free(srv'[t]) /\ srv'[t].out = <<>>
        BY <3>2, <4>1, ClearedKeeps
      <4>3. Queued(t, c)'
        BY <2>1, <3>6, <4>1, <4>2 DEF Queued, MailKept
      <4>4. QED
        BY <3>4, <4>1, <4>2, <4>3 DEF Good, Followed, Gone, LastStack
    <3>7. QED
      BY <3>3, <3>5, <3>6 DEF Gone
  <2>4. QED
    BY <2>2, <2>3
<1>2. inbox' \in Seq(Mail)
  BY <1>0 DEF IInv, Types
<1>3. QED
  BY <1>0, <1>1, <1>2, DaemonKeeps

\* The timer fires: a wake, and a flush.
LEMMA TimerFiredKeeps ==
  ASSUME IInv, TimerFired
  PROVE  IInv' /\ \A t \in Threads : Empty(t)'
<1>1. PICK w \in Woken(srv) : Send(FlushReplies(w))
  BY DEF TimerFired
<1>2. \A t \in Threads : FlushReplies(w)[t] = Flush(w[t])
  BY DEF FlushReplies
<1>3. DOMAIN srv = Threads /\ UNCHANGED <<inbox, guestVars>>
  BY DEF IInv, Types, TimerFired
<1>4. IInv'
  BY <1>1, <1>2, <1>3, EventKeeps
<1>5. ASSUME NEW t \in Threads PROVE Empty(t)'
  <2>1. Good(t) /\ Leaves(t, FlushReplies(w)[t]) /\ Woke(srv[t], w[t])
    BY <1>1, <1>3, SendLeaves, WokenWakes DEF IInv, Good
  <2>2. QED
    BY <1>2, <2>1, PassedEmpty
<1>6. QED
  BY <1>4, <1>5

\* A kqueue channel is read: a wake without a flush.
LEMMA MachKqchanReadKeeps == ASSUME IInv, MachKqchanRead PROVE IInv'
<1>1. PICK w \in Woken(srv) : Send(w)
  BY DEF MachKqchanRead
<1>2. DOMAIN srv = Threads /\ UNCHANGED <<inbox, guestVars>>
  BY DEF IInv, Types, MachKqchanRead
<1>3. QED
  BY <1>1, <1>2, EventKeeps

\* A process is torn down: its threads start anew, another's may be woken.
LEMMA ProcDiedKeeps == ASSUME IInv, NEW p \in Procs, ProcDied(p) PROVE IInv'
<1>1. PICK s : s = [t \in Threads |->
        IF ProcOf[t] = p THEN [NewSrv EXCEPT !.s2c = srv[t].s2c] ELSE srv[t]]
  OBVIOUS
<1>2. PICK w \in Woken(s) : Send(w)
  BY <1>1 DEF ProcDied
<1>3. p \in dead /\ UNCHANGED <<inbox, guestVars>>
  BY DEF ProcDied
<1>4. DOMAIN s = Threads
  BY <1>1
<1>5. ASSUME NEW t \in Threads, ProcOf[t] = p PROVE Free(s[t]) /\ s[t].out = <<>>
  <2>1. PICK d : d = [NewSrv EXCEPT !.s2c = srv[t].s2c]
    OBVIOUS
  <2>2. Free(d) /\ d.out = <<>>
    BY <2>1 DEF NewSrv, Free, Record, NoReply, EmptyBox, NoMsg
  <2>3. QED
    BY <1>1, <1>5, <2>1, <2>2
<1>6. \A t \in Threads :
        s[t] = srv[t] \/ (Free(s[t]) /\ s[t].out = <<>> /\ ProcOf[t] \in dead)
  BY <1>1, <1>3, <1>5
<1>7. QED
  BY <1>2, <1>3, <1>4, <1>6, EventKeeps

-----------------------------------------------------------------------------
(* The steps of the guest. *)

\* A thread that a step is not about.
LEMMA AsideFollowed ==
  ASSUME NEW t \in Threads, Good(t), MailKept(t),
         stack'[t] = stack[t], sock'[t] = sock[t], srv'[t] = srv[t],
         ProcOf[t] \in dead' <=> ProcOf[t] \in dead
  PROVE  Good(t)'
<1>1. Resting(t) => Resting(t)'
  BY DEF Resting, MailKept
<1>2. ASSUME NEW c \in Calls, Outside(t, c) PROVE Outside(t, c)'
  BY <1>2 DEF Outside, Queued, Held, Asked, Told, Sent, MailKept, S2C
<1>3. ASSUME Gone(t) PROVE Gone(t)'
  <2>1. ASSUME NEW c \in Calls, Queued(t, c) PROVE Queued(t, c)'
    BY <2>1 DEF Queued, MailKept
  <2>2. QED
    BY <1>3, <2>1 DEF Gone, MailKept
<1>4. QED
  BY <1>1, <1>2, <1>3 DEF Good, Followed

\* A live thread: which calls it can be in.
LEMMA AliveFollowed ==
  ASSUME NEW t \in Threads, Good(t), Alive(t)
  PROVE  \/ Resting(t) /\ stack[t] = <<NoMsg>>
         \/ \E c \in Calls : Outside(t, c) /\ ~Running(t)
<1>1. Resting(t) \/ \E c \in Calls : Outside(t, c)
  BY DEF Good, Followed, Alive
<1>2. ASSUME NEW c \in Calls, Outside(t, c) PROVE ~Running(t)
  <2>1. stack[t] = <<c>> /\ c # NoMsg
    BY <1>2, CallFields DEF Outside
  <2>2. Last(stack[t]) = c
    BY <2>1, One
  <2>3. QED
    BY <2>1, <2>2 DEF Running
<1>3. QED
  BY <1>1, <1>2 DEF Resting, Alive

\* A guest thread makes a call.
LEMMA GuestCallKeeps == ASSUME IInv, NEW t \in Threads, GuestCall(t) PROVE IInv'
<1>1. PICK n \in {"block", "quick", "checkout"} : Call(t, n, SetTop(t, MsgOf(n, nextId[t])))
  BY DEF GuestCall
<1>2. PICK c : c = MsgOf(n, nextId[t])
  OBVIOUS
<1>3. /\ DOMAIN stack = Threads /\ DOMAIN sock = Threads /\ DOMAIN srv = Threads
      /\ nextId \in [Threads -> Ids] /\ inbox \in Seq(Mail) /\ \A k \in Threads : Good(k)
  BY DEF IInv, Types, Good
<1>4. c \in Calls
  BY <1>2, <1>3 DEF Calls
<1>5. Alive(t) /\ Running(t)
  BY <1>1 DEF GuestCall, Call
<1>6. Resting(t) /\ stack[t] = <<NoMsg>>
  BY <1>3, <1>5, AliveFollowed
<1>7. /\ inbox' = Append(inbox, [from |-> t, msg |-> c])
      /\ nextId' = [nextId EXCEPT ![t] = @ + 1]
      /\ UNCHANGED <<dead, sock, watched, srv>>
      /\ stack' = SetTop(t, c)
  BY <1>1, <1>2 DEF Call
<1>8. stack' = [stack EXCEPT ![t] = [@ EXCEPT ![1] = c]]
  BY <1>6, <1>7, One DEF SetTop
<1>9. DOMAIN stack' = Threads /\ stack'[t] = <<c>> /\ \A k \in Threads : k # t => stack'[k] = stack[k]
  <2>1. PICK x : x = [stack[t] EXCEPT ![1] = c]
    OBVIOUS
  <2>2. x = <<c>>
    BY <1>6, <2>1, One
  <2>3. stack' = [stack EXCEPT ![t] = x]
    BY <1>8, <2>1
  <2>4. QED
    BY <1>3, <2>2, <2>3
<1>10. /\ inbox' \in Seq(Mail) /\ OneMail(t, c)'
       /\ \A k \in Threads : k # t => MailKept(k)
  <2>1. c \in Msg
    BY <1>4, CallFields
  <2>2. QED
    BY <1>3, <1>6, <1>7, <2>1, MailSent DEF Resting
<1>11. nextId' \in [Threads -> Ids]
  BY <1>3, <1>7 DEF Ids
<1>12. Good(t)'
  <2>1. Queued(t, c)' /\ srv'[t].out = <<>>
    BY <1>3, <1>6, <1>7, <1>10 DEF Queued, Resting, Good
  <2>2. ProcOf[t] \notin dead'
    BY <1>5, <1>7 DEF Alive
  <2>3. QED
    BY <1>4, <1>9, <2>1, <2>2 DEF Good, Followed, Outside
<1>13. \A k \in Threads : k # t => Good(k)'
  BY <1>3, <1>7, <1>9, <1>10, AsideFollowed
<1>14. QED
  BY <1>3, <1>7, <1>9, <1>10, <1>11, <1>12, <1>13 DEF IInv, Types, Good

\* It takes a datagram from its socket: an S2C call, or the reply it waits for.
LEMMA ReceiveKeeps == ASSUME IInv, NEW t \in Threads, Receive(t) PROVE IInv'
<1>1. /\ DOMAIN stack = Threads /\ DOMAIN sock = Threads /\ DOMAIN srv = Threads
      /\ nextId \in [Threads -> Ids] /\ inbox \in Seq(Mail) /\ \A k \in Threads : Good(k)
  BY DEF IInv, Types, Good
<1>2. /\ Alive(t) /\ ~Running(t) /\ sock[t] # <<>>
      /\ sock' = [sock EXCEPT ![t] = Tail(@)] /\ UNCHANGED <<nextId, dead, watched, srv>>
  BY DEF Receive
<1>3. PICK c \in Calls : stack[t] = <<c>> /\ (Asked(t, c) \/ Sent(t, c))
  <2>1. ~(stack[t] = <<NoMsg>>)
    BY <1>2, One DEF Running
  <2>2. PICK c \in Calls : Outside(t, c)
    BY <1>1, <1>2, <2>1, AliveFollowed
  <2>3. QED
    BY <1>2, <2>2 DEF Outside, Queued, Held, Told
<1>4. Last(stack[t]) = c /\ NoMail(t) /\ ProcOf[t] \notin dead'
  BY <1>2, <1>3, One DEF Asked, Sent, Alive
<1>5. DOMAIN sock' = Threads /\ sock'[t] = <<>> /\ \A k \in Threads : k # t => sock'[k] = sock[k]
  <2>1. Tail(sock[t]) = <<>>
    BY <1>3, One DEF Asked, Sent
  <2>2. QED
    BY <1>1, <1>2, <2>1
<1>6. CASE Asked(t, c)
  <2>1. Head(sock[t]) = S2C(c) /\ S2C(c).num = "s2c" /\ S2C(c) \in Msg
    BY <1>6, One, CallFields DEF Asked
  <2>2. inbox' = Append(inbox, [from |-> t, msg |-> S2C(c)]) /\ UNCHANGED stack
    BY <2>1 DEF Receive
  <2>3. inbox' \in Seq(Mail) /\ OneMail(t, S2C(c))' /\ \A k \in Threads : k # t => MailKept(k)
    BY <1>1, <1>4, <2>1, <2>2, MailSent
  <2>4. Told(t, c)' /\ srv'[t].out = <<>>
    BY <1>1, <1>2, <1>5, <1>6, <2>3 DEF Told, Asked, Good, S2C
  <2>5. Good(t)'
    BY <1>3, <1>4, <2>2, <2>4 DEF Good, Followed, Outside
  <2>6. \A k \in Threads : k # t => Good(k)'
    BY <1>1, <1>2, <1>5, <2>2, <2>3, AsideFollowed
  <2>7. QED
    BY <1>1, <1>2, <1>5, <2>2, <2>3, <2>5, <2>6 DEF IInv, Types, Good
<1>7. CASE Sent(t, c)
  <2>1. Head(sock[t]) = c /\ c.num \in {"block", "quick", "checkout"}
    BY <1>7, One, CallFields DEF Sent
  <2>2. stack' = Returned(t, c.num) /\ UNCHANGED inbox
    BY <1>4, <2>1 DEF Receive
  <2>3. /\ DOMAIN stack' = Threads /\ (stack'[t] = <<>> \/ stack'[t] = <<NoMsg>>)
        /\ \A k \in Threads : k # t => stack'[k] = stack[k]
    <3>1. CASE c.num = "checkout"
      BY <1>1, <2>2, <3>1 DEF Returned
    <3>2. CASE c.num # "checkout"
      <4>1. PICK x : x = [stack[t] EXCEPT ![1] = NoMsg]
        OBVIOUS
      <4>2. x = <<NoMsg>>
        BY <1>3, <4>1, One
      <4>3. stack' = [stack EXCEPT ![t] = x]
        <5>1. Len(stack[t]) = 1
          BY <1>3, One
        <5>2. stack' = SetTop(t, NoMsg)
          BY <2>1, <2>2, <3>2 DEF Returned
        <5>3. QED
          BY <4>1, <5>1, <5>2 DEF SetTop
      <4>4. QED
        BY <1>1, <4>2, <4>3
    <3>3. QED
      BY <3>1, <3>2
  <2>4. \A k \in Threads : MailKept(k)
    BY <2>2, MailUnchanged
  <2>5. Resting(t)' /\ srv'[t].out = <<>>
    BY <1>1, <1>2, <1>4, <1>5, <1>7, <2>3, <2>4 DEF Resting, Sent, Good, MailKept
  <2>6. Good(t)'
    BY <1>4, <2>5 DEF Good, Followed
  <2>7. \A k \in Threads : k # t => Good(k)'
    BY <1>1, <1>2, <1>5, <2>3, <2>4, AsideFollowed
  <2>8. QED
    BY <1>1, <1>2, <1>5, <2>2, <2>3, <2>6, <2>7 DEF IInv, Types, Good
<1>8. QED
  BY <1>3, <1>6, <1>7

\* Without signals no handler runs.
LEMMA NoHandlers ==
  ASSUME IInv, MaxNest = 0, NEW t \in Threads
  PROVE  ~Signal(t) /\ ~HandlerReturns(t)
<1>1. ASSUME Alive(t) PROVE Len(stack[t]) = 1
  <2>1. Good(t)
    BY DEF IInv, Good
  <2>2. PICK m : stack[t] = <<m>>
    BY <1>1, <2>1, AliveFollowed DEF Outside
  <2>3. QED
    BY <2>2, One
<1>2. ASSUME Signal(t) PROVE FALSE
  <2>1. Alive(t) /\ Len(stack[t]) <= 0
    BY <1>2 DEF Signal, Call
  <2>2. Len(stack[t]) = 1
    BY <1>1, <2>1
  <2>3. QED
    BY <2>1, <2>2
<1>3. ASSUME HandlerReturns(t) PROVE FALSE
  <2>1. Alive(t) /\ Len(stack[t]) > 1
    BY <1>3 DEF HandlerReturns, Call
  <2>2. Len(stack[t]) = 1
    BY <1>1, <2>1
  <2>3. QED
    BY <2>1, <2>2
<1>4. QED
  BY <1>2, <1>3

\* A process dies: what its threads have queued stays queued.
LEMMA KillKeeps == ASSUME IInv, NEW p \in Procs, Kill(p) PROVE IInv'
<1>1. /\ dead' = dead \cup {p} /\ p \notin dead
      /\ sock' = [t \in Threads |-> IF ProcOf[t] = p THEN <<>> ELSE sock[t]]
      /\ UNCHANGED <<stack, nextId, inbox, watched, srv>>
  BY DEF Kill
<1>2. ASSUME NEW t \in Threads PROVE Good(t)'
  <2>1. Good(t) /\ MailKept(t)
    BY <1>1, MailUnchanged DEF IInv, Good
  <2>2. CASE ProcOf[t] # p
    BY <1>1, <2>1, <2>2, AsideFollowed
  <2>3. CASE ProcOf[t] = p
    <3>1. /\ ProcOf[t] \in dead' /\ sock'[t] = <<>> /\ stack'[t] = stack[t] /\ srv'[t] = srv[t]
          /\ srv'[t].out = <<>>
      BY <1>1, <2>1, <2>3 DEF Good
    <3>2. NoMail(t) => LastMail(t)'
      BY <1>1 DEF NoMail, LastMail
    <3>3. CASE Resting(t)
      BY <3>1, <3>2, <3>3 DEF Resting, Good, Followed, Gone
    <3>4. ASSUME NEW c \in Calls, Outside(t, c) PROVE Good(t)'
      <4>1. LastStack(t)'
        BY <3>1, <3>4 DEF Outside, LastStack
      <4>2. CASE Queued(t, c)
        <5>1. Queued(t, c)'
          BY <2>1, <3>1, <4>2 DEF Queued, MailKept
        <5>2. QED
          BY <3>1, <4>1, <5>1 DEF Good, Followed, Gone, LastStack
      <4>3. CASE Held(t, c) \/ Asked(t, c) \/ Sent(t, c)
        BY <3>1, <3>2, <4>1, <4>3 DEF Held, Asked, Sent, Good, Followed, Gone, LastStack
      <4>4. CASE Told(t, c)
        <5>0. OneMail(t, S2C(c)) /\ S2C(c).num = "s2c"
          BY <4>4, CallFields DEF Told
        <5>1. LastMail(t)
          BY <5>0 DEF OneMail, LastMail
        <5>2. QED
          BY <2>1, <3>1, <4>1, <4>4, <5>1 DEF Told, MailKept, Good, Followed, Gone, LastStack
      <4>5. QED
        BY <3>4, <4>2, <4>3, <4>4 DEF Outside
    <3>5. QED
      BY <1>1, <2>1, <2>3, <3>3, <3>4 DEF Good, Followed
  <2>4. QED
    BY <2>2, <2>3
<1>3. Types'
  BY <1>1 DEF IInv, Types
<1>4. QED
  BY <1>2, <1>3 DEF IInv, Good

-----------------------------------------------------------------------------
(* The invariant. *)

\* It holds at the start.
LEMMA InitIInv == ASSUME Init PROVE IInv
<1>1. Free(NewSrv) /\ NewSrv.out = <<>>
  BY DEF NewSrv, Free, Record, NoReply, EmptyBox, NoMsg
<1>2. Types
  BY DEF Init, Types, Ids
<1>3. ASSUME NEW t \in Threads PROVE Followed(t) /\ srv[t].out = <<>>
  <2>1. /\ stack[t] = <<NoMsg>> /\ sock[t] = <<>> /\ srv[t] = NewSrv /\ ProcOf[t] \notin dead
        /\ NoMail(t)
    BY DEF Init, NoMail
  <2>2. QED
    BY <1>1, <2>1 DEF Followed, Resting
<1>4. QED
  BY <1>2, <1>3 DEF IInv

\* Every step of the daemon, of a guest thread and of a dying process keeps it.
LEMMA NextIInv == ASSUME IInv, MaxNest = 0, [Next]_vars PROVE IInv'
<1>1. CASE UNCHANGED vars
  <2>1. UNCHANGED <<stack, nextId, dead, sock, inbox, srv>>
    BY <1>1 DEF vars
  <2>2. ASSUME NEW t \in Threads PROVE Good(t)'
    BY <2>1, MailUnchanged, AsideFollowed DEF IInv, Good
  <2>3. Types'
    BY <2>1 DEF IInv, Types
  <2>4. QED
    BY <2>2, <2>3 DEF IInv, Good
<1>2. CASE Daemon
  BY <1>2, HandleMessageKeeps, TimerFiredKeeps, MachKqchanReadKeeps, ProcDiedKeeps DEF Daemon
<1>3. ASSUME NEW t \in Threads, Guest(t) PROVE IInv'
  BY <1>3, GuestCallKeeps, ReceiveKeeps, NoHandlers DEF Guest
<1>4. ASSUME NEW p \in Procs, Kill(p) PROVE IInv'
  BY <1>4, KillKeeps
<1>5. QED
  BY <1>1, <1>2, <1>3, <1>4 DEF Next

\* The call of every thread is followed through the daemon, in every behaviour
\* without signals.
THEOREM CallsFollowed == ASSUME MaxNest = 0 PROVE Spec => []IInv
<1>1. Init => IInv
  BY InitIInv
<1>2. IInv /\ [Next]_vars => IInv'
  BY NextIInv
<1>3. QED
  BY <1>1, <1>2, PTL DEF Spec

-----------------------------------------------------------------------------
(* Counting the places of a call. *)

\* Cardinalities of sets with one element at most.
LEMMA CountOne ==
  ASSUME NEW S, NEW k, S \subseteq {k}
  PROVE  /\ Cardinality(S) = 0 \/ Cardinality(S) = 1
         /\ k \in S => Cardinality(S) = 1
<1>1. S = {} \/ S = {k}
  OBVIOUS
<1>2. Cardinality({}) = 0 /\ Cardinality({k}) = 1
  BY FS_EmptySet, FS_Singleton
<1>3. QED
  BY <1>1, <1>2

\* The terms of Places.
MailOf(t) == [k \in DOMAIN inbox |-> IF inbox[k].from = t THEN inbox[k].msg ELSE NoMsg]
ActsOf(d, c) == Cardinality({k \in DOMAIN d.acts : d.acts[k].call.id = c.id})

\* The call among the datagrams queued on the daemon's socket.
LEMMA MailCount ==
  ASSUME inbox \in Seq(Mail), NEW t, NEW c \in Calls
  PROVE  /\ NoMail(t) \/ LastMail(t) => InQueue(MailOf(t), c) = 0
         /\ \A m : OneMail(t, m) => InQueue(MailOf(t), c) = 0 \/ InQueue(MailOf(t), c) = 1
         /\ OneMail(t, c) => InQueue(MailOf(t), c) = 1
         /\ OneMail(t, S2C(c)) => InQueue(MailOf(t), c) = 0
<1>1. PICK S : S = {k \in 1..Len(inbox) : inbox[k].from = t /\ inbox[k].msg.num # "s2c"
                                          /\ inbox[k].msg.id = c.id}
  OBVIOUS
<1>2. c.id # 0 /\ c.num # "s2c" /\ S2C(c).num = "s2c"
  BY CallFields
<1>3. InQueue(MailOf(t), c) = Cardinality(S)
  <2>1. DOMAIN inbox = 1..Len(inbox)
    OBVIOUS
  <2>2. {k \in DOMAIN MailOf(t) : MailOf(t)[k].num # "s2c" /\ MailOf(t)[k].id = c.id} = S
    BY <1>1, <1>2, <2>1 DEF MailOf, NoMsg
  <2>3. QED
    BY <2>2 DEF InQueue
<1>4. ASSUME NoMail(t) \/ LastMail(t) PROVE Cardinality(S) = 0
  <2>1. S = {}
    BY <1>1, <1>4 DEF NoMail, LastMail
  <2>2. QED
    BY <2>1, FS_EmptySet
<1>5. ASSUME NEW m, OneMail(t, m)
      PROVE  /\ Cardinality(S) = 0 \/ Cardinality(S) = 1
             /\ m = c => Cardinality(S) = 1
             /\ m = S2C(c) => Cardinality(S) = 0
  <2>1. PICK k \in 1..Len(inbox) : /\ inbox[k].from = t /\ inbox[k].msg = m
                                   /\ \A i \in 1..Len(inbox) : inbox[i].from = t => i = k
    BY <1>5 DEF OneMail
  <2>2. S \subseteq {k} /\ (m = c => k \in S) /\ (m = S2C(c) => k \notin S)
    BY <1>1, <1>2, <2>1
  <2>3. m = S2C(c) => S = {}
    BY <2>2
  <2>4. QED
    BY <2>2, <2>3, CountOne, FS_EmptySet
<1>6. QED
  BY <1>3, <1>4, <1>5

\* The call among the datagrams on their way to the thread.
LEMMA SockCount ==
  ASSUME NEW c \in Calls
  PROVE  InQueue(<<>>, c) = 0 /\ InQueue(<<S2C(c)>>, c) = 0 /\ InQueue(<<c>>, c) = 1
<1>1. S2C(c).num = "s2c" /\ c.num # "s2c"
  BY CallFields
<1>2. ASSUME NEW m
      PROVE  /\ m.num = "s2c" => InQueue(<<m>>, c) = 0
             /\ m = c => InQueue(<<m>>, c) = 1
  <2>1. PICK q : q = <<m>>
    OBVIOUS
  <2>2. DOMAIN q = {1} /\ q[1] = m
    BY <2>1
  <2>3. PICK S : S = {k \in DOMAIN q : q[k].num # "s2c" /\ q[k].id = c.id}
    OBVIOUS
  <2>4. S \subseteq {1} /\ (m.num = "s2c" => S = {}) /\ (m = c => 1 \in S)
    BY <1>1, <2>2, <2>3
  <2>5. InQueue(<<m>>, c) = Cardinality(S)
    BY <2>1, <2>3 DEF InQueue
  <2>6. QED
    BY <2>4, <2>5, CountOne, FS_EmptySet
<1>3. InQueue(<<>>, c) = 0
  <2>1. {k \in DOMAIN <<>> : <<>>[k].num # "s2c" /\ <<>>[k].id = c.id} = {}
    OBVIOUS
  <2>2. QED
    BY <2>1, FS_EmptySet DEF InQueue
<1>4. QED
  BY <1>1, <1>2, <1>3

\* The call is n times in the mailboxes and on the microthread.
Within(d, c, n) ==
  /\ InBox(d.mbox, c) \in Nat /\ InBox(d.imbox, c) \in Nat /\ ActsOf(d, c) \in Nat
  /\ InBox(d.mbox, c) + InBox(d.imbox, c) + ActsOf(d, c) = n

\* Nowhere while the daemon serves no call, once while it serves it or has its answer.
LEMMA WithinCount ==
  ASSUME NEW d, NEW c \in Calls
  PROVE  /\ Free(d) => Within(d, c, 0)
         /\ \A x \in Calls : Blocked(d, x) \/ Suspended(d, x) \/ Replied(d, x) =>
              (Within(d, c, 0) \/ Within(d, c, 1)) /\ (x = c => Within(d, c, 1))
<1>1. PICK B : B = {f \in {"pending", "reply", "code"} : d.mbox[f].id = c.id}
  OBVIOUS
<1>2. PICK A : A = {k \in DOMAIN d.acts : d.acts[k].call.id = c.id}
  OBVIOUS
<1>3. c.id # 0 /\ NoMsg.id = 0 /\ Cardinality({}) = 0
  BY CallFields, FS_EmptySet DEF NoMsg
<1>4. ASSUME Record(d)
      PROVE  InBox(d.mbox, c) = Cardinality(B) /\ InBox(d.imbox, c) = 0 /\ ActsOf(d, c) = Cardinality(A)
  <2>1. InBox(d.imbox, c) = 0
    <3>1. {f \in {"pending", "reply", "code"} : d.imbox[f].id = c.id} = {}
      BY <1>3, <1>4 DEF Record, EmptyBox
    <3>2. QED
      BY <1>3, <3>1 DEF InBox
  <2>2. InBox(d.mbox, c) = Cardinality(B) /\ ActsOf(d, c) = Cardinality(A)
    BY <1>1, <1>2 DEF InBox, ActsOf
  <2>3. QED
    BY <2>1, <2>2
<1>5. ASSUME Record(d), NoReply(d) PROVE Cardinality(B) = 0
  <2>1. B = {}
    BY <1>1, <1>3, <1>5 DEF Record, NoReply
  <2>2. QED
    BY <1>3, <2>1
<1>6. ASSUME d.acts = <<>> \/ d.acts = <<TopAct>> PROVE Cardinality(A) = 0
  <2>1. A = {}
    BY <1>2, <1>3, <1>6 DEF TopAct
  <2>2. QED
    BY <1>3, <2>1
<1>7. ASSUME Free(d) PROVE Within(d, c, 0)
  <2>1. Record(d) /\ NoReply(d) /\ (d.acts = <<>> \/ d.acts = <<TopAct>>)
    BY <1>7 DEF Free
  <2>2. QED
    BY <1>4, <1>5, <1>6, <2>1 DEF Within
<1>8. ASSUME NEW x \in Calls, NEW st, Serving(d, x, st)
      PROVE  (Within(d, c, 0) \/ Within(d, c, 1)) /\ (x = c => Within(d, c, 1))
  <2>1. DOMAIN d.acts = {1} /\ d.acts[1].call = x
    BY <1>8 DEF Serving
  <2>2. A \subseteq {1} /\ (x = c => 1 \in A)
    BY <1>2, <2>1
  <2>3. (Cardinality(A) = 0 \/ Cardinality(A) = 1) /\ (x = c => Cardinality(A) = 1)
    BY <2>2, CountOne
  <2>4. Record(d) /\ Cardinality(B) = 0
    BY <1>5, <1>8 DEF Serving
  <2>5. QED
    BY <1>4, <2>3, <2>4 DEF Within
<1>9. ASSUME NEW x \in Calls, Replied(d, x)
      PROVE  (Within(d, c, 0) \/ Within(d, c, 1)) /\ (x = c => Within(d, c, 1))
  <2>1. PICK f \in {"reply", "code"} : d.mbox[f] = x /\ B \subseteq {f}
    <3>1. CASE d.mbox.reply = x /\ d.mbox.code = NoMsg
      BY <1>1, <1>3, <1>9, <3>1 DEF Replied, Record
    <3>2. CASE d.mbox.reply = NoMsg /\ d.mbox.code = x
      BY <1>1, <1>3, <1>9, <3>2 DEF Replied, Record
    <3>3. QED
      BY <1>9, <3>1, <3>2 DEF Replied
  <2>2. x = c => f \in B
    BY <1>1, <2>1
  <2>3. (Cardinality(B) = 0 \/ Cardinality(B) = 1) /\ (x = c => Cardinality(B) = 1)
    BY <2>1, <2>2, CountOne
  <2>4. Record(d) /\ Cardinality(A) = 0
    BY <1>6, <1>9 DEF Replied
  <2>5. QED
    BY <1>4, <2>3, <2>4 DEF Within
<1>10. QED
  BY <1>7, <1>8, <1>9 DEF Blocked, Suspended

\* The sum, from its terms.
LEMMA PlacesSum ==
  ASSUME NEW t, NEW c, NEW m \in Nat, InQueue(MailOf(t), c) = m,
         NEW s \in Nat, InQueue(sock[t], c) = s, NEW n \in Nat, Within(srv[t], c, n)
  PROVE  Places(t, c) = m + s + n
<1>1. Places(t, c) = InQueue(MailOf(t), c) + InQueue(sock[t], c) + InBox(srv[t].mbox, c)
                       + InBox(srv[t].imbox, c) + ActsOf(srv[t], c)
  BY DEF Places, MailOf, ActsOf
<1>2. QED
  BY <1>1 DEF Within

\* The call of a live thread is in one place.
LEMMA OutsidePlaces ==
  ASSUME inbox \in Seq(Mail), NEW t \in Threads, NEW c \in Calls, Outside(t, c)
  PROVE  Places(t, c) = 1
<1>1. InQueue(<<>>, c) = 0 /\ InQueue(<<S2C(c)>>, c) = 0 /\ InQueue(<<c>>, c) = 1
  BY SockCount
<1>2. /\ NoMail(t) => InQueue(MailOf(t), c) = 0
      /\ OneMail(t, c) => InQueue(MailOf(t), c) = 1
      /\ OneMail(t, S2C(c)) => InQueue(MailOf(t), c) = 0
  BY MailCount
<1>3. /\ Free(srv[t]) => Within(srv[t], c, 0)
      /\ Blocked(srv[t], c) \/ Suspended(srv[t], c) \/ Replied(srv[t], c) => Within(srv[t], c, 1)
  BY WithinCount
<1>4. CASE Queued(t, c)
  BY <1>1, <1>2, <1>3, <1>4, PlacesSum DEF Queued
<1>5. CASE Held(t, c)
  BY <1>1, <1>2, <1>3, <1>5, PlacesSum DEF Held
<1>6. CASE Asked(t, c)
  BY <1>1, <1>2, <1>3, <1>6, PlacesSum DEF Asked
<1>7. CASE Told(t, c)
  BY <1>1, <1>2, <1>3, <1>7, PlacesSum DEF Told
<1>8. CASE Sent(t, c)
  BY <1>1, <1>2, <1>3, <1>8, PlacesSum DEF Sent
<1>9. QED
  BY <1>4, <1>5, <1>6, <1>7, <1>8 DEF Outside

\* The last call of a thread of a dead process is in one place or in none.
LEMMA GonePlaces ==
  ASSUME inbox \in Seq(Mail), NEW t \in Threads, NEW c \in Calls, Gone(t)
  PROVE  Places(t, c) <= 1
<1>1. InQueue(sock[t], c) = 0
  BY SockCount DEF Gone
<1>2. ASSUME NEW x \in Calls, Queued(t, x) PROVE Places(t, c) <= 1
  <2>1. Within(srv[t], c, 0)
    BY <1>2, WithinCount DEF Queued
  <2>2. InQueue(MailOf(t), c) = 0 \/ InQueue(MailOf(t), c) = 1
    BY <1>2, MailCount DEF Queued
  <2>3. Places(t, c) = 0 \/ Places(t, c) = 1
    BY <1>1, <2>1, <2>2, PlacesSum
  <2>4. QED
    BY <2>3
<1>3. CASE LastMail(t)
  <2>1. InQueue(MailOf(t), c) = 0
    BY <1>3, MailCount
  <2>2. Within(srv[t], c, 0) \/ Within(srv[t], c, 1)
    BY <1>2, WithinCount DEF Gone, Queued
  <2>3. Places(t, c) = 0 + 0 + 0 \/ Places(t, c) = 0 + 0 + 1
    <3>1. CASE Within(srv[t], c, 0)
      BY <1>1, <2>1, <3>1, PlacesSum
    <3>2. CASE Within(srv[t], c, 1)
      BY <1>1, <2>1, <3>2, PlacesSum
    <3>3. QED
      BY <2>2, <3>1, <3>2
  <2>4. QED
    BY <2>3
<1>4. QED
  BY <1>2, <1>3 DEF Gone

\* What a thread has outstanding.
LEMMA OutstandingCalls ==
  ASSUME NEW t
  PROVE  /\ stack[t] = <<>> \/ stack[t] = <<NoMsg>> => Outstanding(t) = {}
         /\ \A c : stack[t] = <<c>> => Outstanding(t) \subseteq {c}
BY DEF Outstanding

-----------------------------------------------------------------------------
(* What the invariant says. *)

\* The call a live guest thread waits for is never lost: it is queued, served,
\* answered or on its way back (handle_call, flush_replies and the mailboxes).
THEOREM GuestRpcConserves == ASSUME MaxNest = 0 PROVE Spec => []CallConserved
<1>1. ASSUME IInv PROVE CallConserved
  <2>1. SUFFICES ASSUME NEW t \in Threads, Alive(t), NEW c \in Outstanding(t)
                 PROVE  Places(t, c) >= 1
    BY DEF CallConserved
  <2>2. Good(t) /\ inbox \in Seq(Mail)
    BY <1>1 DEF IInv, Types, Good
  <2>3. PICK x \in Calls : Outside(t, x)
    BY <2>1, <2>2, AliveFollowed, OutstandingCalls
  <2>4. c = x
    BY <2>3, OutstandingCalls DEF Outside
  <2>5. Places(t, x) = 1
    BY <2>2, <2>3, OutsidePlaces
  <2>6. QED
    BY <2>4, <2>5
<1>2. QED
  BY <1>1, CallsFollowed, PTL

\* No call is served or answered twice, whatever wakes, timers and deaths come
\* between its dispatch and its reply.
THEOREM GuestRpcNoDuplicates == ASSUME MaxNest = 0 PROVE Spec => []NoCallDuplicated
<1>1. ASSUME IInv PROVE NoCallDuplicated
  <2>1. SUFFICES ASSUME NEW t \in Threads, NEW c \in Outstanding(t)
                 PROVE  Places(t, c) <= 1
    BY DEF NoCallDuplicated
  <2>2. Followed(t) /\ inbox \in Seq(Mail)
    BY <1>1 DEF IInv, Types
  <2>3. CASE Gone(t)
    <3>1. PICK x \in Calls : stack[t] = <<x>>
      BY <2>3, OutstandingCalls DEF Gone
    <3>2. c = x
      BY <3>1, OutstandingCalls
    <3>3. QED
      BY <2>2, <2>3, <3>2, GonePlaces
  <2>4. ASSUME NEW x \in Calls, Outside(t, x) PROVE Places(t, c) <= 1
    <3>1. c = x
      BY <2>4, OutstandingCalls DEF Outside
    <3>2. Places(t, x) = 1
      BY <2>2, <2>4, OutsidePlaces
    <3>3. QED
      BY <3>1, <3>2
  <2>5. ~Resting(t)
    BY OutstandingCalls DEF Resting
  <2>6. QED
    BY <2>2, <2>3, <2>4, <2>5 DEF Followed
<1>2. QED
  BY <1>1, CallsFollowed, PTL

\* The client compares call numbers only, and yet what it takes is the reply of the
\* call it waits for, or an S2C call made for that call.
THEOREM GuestRpcInStep == ASSUME MaxNest = 0 PROVE Spec => []InStep
<1>1. ASSUME IInv PROVE InStep
  <2>1. SUFFICES ASSUME NEW t \in Threads, Alive(t), sock[t] # <<>>
                 PROVE  \/ Head(sock[t]).num = "s2c"
                        \/ /\ Head(sock[t]).num = Last(stack[t]).num
                           /\ Head(sock[t]).id = Last(stack[t]).id
    BY DEF InStep
  <2>2. PICK c \in Calls : stack[t] = <<c>> /\ (Asked(t, c) \/ Sent(t, c))
    <3>1. Good(t)
      BY <1>1 DEF IInv, Good
    <3>2. QED
      BY <2>1, <3>1, AliveFollowed DEF Resting, Outside, Queued, Held, Told
  <2>3. Last(stack[t]) = c /\ (Head(sock[t]) = S2C(c) \/ Head(sock[t]) = c)
    BY <2>2, One DEF Asked, Sent
  <2>4. S2C(c).num = "s2c"
    BY CallFields
  <2>5. QED
    BY <2>3, <2>4
<1>2. QED
  BY <1>1, CallsFollowed, PTL

\* perform_raw drops a stored answer before it asks: no reply reports a failed S2C
\* call of a live guest.
THEOREM GuestRpcS2CAnswered == ASSUME MaxNest = 0 PROVE Spec => []S2CAnswered
<1>1. ASSUME IInv PROVE S2CAnswered
  <2>1. SUFFICES ASSUME NEW t \in Threads, Alive(t), NEW k \in DOMAIN sock[t]
                 PROVE  sock[t][k].ok
    BY DEF S2CAnswered
  <2>2. Good(t)
    BY <1>1 DEF IInv, Good
  <2>3. \/ sock[t] = <<>>
        \/ \E c \in Calls : sock[t] = <<S2C(c)>> \/ sock[t] = <<c>>
    BY <2>1, <2>2, AliveFollowed DEF Resting, Outside, Queued, Held, Asked, Told, Sent
  <2>4. PICK c \in Calls : sock[t] = <<S2C(c)>> \/ sock[t] = <<c>>
    BY <2>3
  <2>5. k = 1 /\ (sock[t][1] = S2C(c) \/ sock[t][1] = c)
    BY <2>4
  <2>6. S2C(c).ok = TRUE /\ c.ok = TRUE
    BY CallFields
  <2>7. QED
    BY <2>5, <2>6
<1>2. QED
  BY <1>1, CallsFollowed, PTL

\* No microthread stays parked without its slot: a checkout finds the microthread at
\* the doWork top, so the reap ends its loop, and a teardown drops both.
THEOREM GuestRpcParkedHasSlot == ASSUME MaxNest = 0 PROVE Spec => []ParkedHasSlot
<1>1. ASSUME IInv PROVE ParkedHasSlot
  <2>1. SUFFICES ASSUME NEW t \in Threads, srv[t].acts # <<>> PROVE srv[t].slot
    BY DEF ParkedHasSlot
  <2>2. \/ Free(srv[t])
        \/ \E c \in Calls : Blocked(srv[t], c) \/ Suspended(srv[t], c) \/ Replied(srv[t], c)
    BY <1>1 DEF IInv, Followed, Gone, Resting, Outside, Queued, Held, Asked, Told, Sent
  <2>3. Free(srv[t]) => srv[t].slot
    BY <2>1 DEF Free
  <2>4. QED
    BY <2>2, <2>3 DEF Blocked, Suspended, Serving, Replied
<1>2. QED
  BY <1>1, CallsFollowed, PTL

\* The events that end in flush_replies leave no reply unsent, of any thread.
THEOREM GuestRpcEventsSend ==
  ASSUME MaxNest = 0
  PROVE  Spec => [][HandleMessage \/ TimerFired => NoUnsentReply']_vars
<1>1. ASSUME IInv, HandleMessage \/ TimerFired PROVE NoUnsentReply'
  <2>1. \A t \in Threads : Empty(t)'
    BY <1>1, HandleMessageKeeps, TimerFiredKeeps
  <2>2. QED
    BY <2>1 DEF Empty, NoUnsentReply, Record, NoReply, EmptyBox
<1>2. IInv /\ [Next]_vars => [HandleMessage \/ TimerFired => NoUnsentReply']_vars
  BY <1>1
<1>3. QED
  BY <1>2, CallsFollowed, PTL DEF Spec

\* So without deaths and mach-port channels, whose events wake a thread and do not
\* flush, no reply is ever left in a mailbox between two events of the loop.
THEOREM GuestRpcNoUnsentReply ==
  ASSUME MaxNest = 0, MaxKills = 0, MachChans = FALSE
  PROVE  Spec => []NoUnsentReply
<1> DEFINE Inv == IInv /\ dead = {} /\ \A t \in Threads : Empty(t)
<1>1. Init => Inv
  <2>1. Record(NewSrv) /\ NoReply(NewSrv)
    BY DEF NewSrv, Record, NoReply, EmptyBox, NoMsg
  <2>2. QED
    BY <2>1, InitIInv DEF Init, Empty
<1>2. ASSUME Inv, [Next]_vars PROVE Inv'
  <2>1. IInv'
    BY <1>2, NextIInv
  <2>2. Cardinality(dead) = 0
    BY <1>2, FS_EmptySet
  <2>3. ASSUME UNCHANGED <<dead, srv>> PROVE Inv'
    BY <1>2, <2>1, <2>3 DEF Empty
  <2>4. CASE UNCHANGED vars
    BY <2>3, <2>4 DEF vars
  <2>5. CASE HandleMessage \/ TimerFired
    <3>1. dead' = dead
      BY <2>5 DEF HandleMessage, TimerFired, guestVars
    <3>2. QED
      BY <1>2, <2>1, <2>5, <3>1, HandleMessageKeeps, TimerFiredKeeps
  <2>6. ~MachKqchanRead /\ \A p \in Procs : ~ProcDied(p) /\ ~Kill(p)
    BY <1>2, <2>2 DEF MachKqchanRead, ProcDied, Kill
  <2>7. ASSUME NEW t \in Threads, Guest(t) PROVE Inv'
    <3>1. GuestCall(t) \/ Receive(t)
      BY <1>2, <2>7, NoHandlers DEF Guest
    <3>2. UNCHANGED <<dead, srv>>
      BY <3>1 DEF GuestCall, Call, Receive
    <3>3. QED
      BY <2>3, <3>2
  <2>8. QED
    BY <1>2, <2>4, <2>5, <2>6, <2>7 DEF Next, Daemon
<1>3. Inv => NoUnsentReply
  BY DEF Empty, NoUnsentReply, Record, NoReply, EmptyBox
<1>4. QED
  BY <1>1, <1>2, <1>3, PTL DEF Spec
===============================================================================
