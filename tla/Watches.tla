-------------------------------- MODULE Watches --------------------------------
(***************************************************************************)
(* How ciderd learns that a guest process died: the epoll loop of main     *)
(* (src/linux/server/src/bin/ciderd.rs), the pidfd of the death watch of   *)
(* every process that checked in, and the socket and the pidfd of every    *)
(* process channel (kqchan.rs).                                            *)
(*                                                                         *)
(* epoll_wait hands over a batch of descriptors; the loop then handles     *)
(* them one by one, and looks a descriptor up by its number only when its  *)
(* turn comes.  Handling one event may close descriptors and open new      *)
(* ones, and the kernel gives a new one the lowest number that is free.    *)
(*                                                                         *)
(* External: the kernel's descriptors and epoll, and the guest.            *)
(***************************************************************************)
EXTENDS Integers, Sequences, FiniteSets, FiniteSetsExt, SequencesExt

CONSTANTS
    Procs,          \* guest processes
    Fds,            \* the numbers free for descriptors: 0 is the RPC socket
    MaxChans        \* bound on the process channels opened

VARIABLES
    ps,             \* of each process: "new", "alive" or "dead"
    open,           \* the descriptors in use, each a socket or the pidfd of a process
    hungup,         \* the sockets whose guest end is closed
    inbox,          \* datagrams on the RPC socket
    batch,          \* what is left of the events of the last epoll_wait
    kqchans,        \* the channels: their descriptors and their target
    proc_watches,   \* the death watches: descriptor and process
    opened,         \* channels asked for so far
    told,           \* processes reported dead with NOTE_EXIT
    torn            \* processes whose task and threads were freed

vars == <<ps, open, hungup, inbox, batch, kqchans, proc_watches, opened, told, torn>>

RPC == 0
NoFd == -1

(* The descriptors the daemon can use are few, and each stands for one thing. *)
TypeOK ==
    /\ ps \in [Procs -> {"new", "alive", "dead"}]
    /\ open \in SUBSET [fd: Fds, proc: Procs \cup {"socket"}]
    /\ hungup \subseteq Fds
    /\ inbox \in Seq({"checkin", "proc_open"} \X Procs)
    /\ batch \in Seq(Fds \cup {RPC})
    /\ kqchans \in SUBSET [daemon_fd: Fds, pidfd: Fds \cup {NoFd}, target: Procs]
    /\ proc_watches \in SUBSET (Fds \X Procs)
    /\ opened \in 0..MaxChans /\ told \subseteq Procs /\ torn \subseteq Procs

Free == Fds \ {o.fd : o \in open}

(* The guest. *)
Guest == UNCHANGED <<open, batch, kqchans, proc_watches, told, torn>>

Checkin(p) ==
    /\ ps[p] = "new" /\ ps' = [ps EXCEPT ![p] = "alive"]
    /\ inbox' = Append(inbox, <<"checkin", p>>)
    /\ Guest /\ UNCHANGED <<hungup, opened>>

OpenChannel(p) ==
    /\ ps[p] = "alive" /\ opened < MaxChans /\ opened' = opened + 1
    /\ inbox' = Append(inbox, <<"proc_open", p>>)
    /\ Guest /\ UNCHANGED <<ps, hungup>>

HangUp(k) ==
    /\ k.daemon_fd \notin hungup /\ hungup' = hungup \cup {k.daemon_fd}
    /\ Guest /\ UNCHANGED <<ps, inbox, opened>>

Dies(p) ==
    /\ ps[p] = "alive" /\ ps' = [ps EXCEPT ![p] = "dead"]
    /\ Guest /\ UNCHANGED <<hungup, inbox, opened>>

-------------------------------------------------------------------------------
(* What epoll reports: the RPC socket, sockets hung up, pidfds of the dead. *)
Ready ==
    {o.fd : o \in {x \in open : IF x.proc = "socket" THEN x.fd \in hungup
                                                    ELSE ps[x.proc] = "dead"}}
    \cup {RPC : x \in {inbox} \ {<<>>}}

epoll_wait ==
    /\ batch = <<>> /\ Ready # {}
    /\ batch' \in SetToSeqs(Ready)
    /\ UNCHANGED <<ps, open, hungup, inbox, kqchans, proc_watches, opened, told, torn>>

Close(fds) ==
    /\ open' = {o \in open : o.fd \notin fds}
    /\ hungup' = hungup \ fds

(* The death watch of a process that checked in, deduplicated. *)
ArmWatch(p) ==
    IF \E w \in proc_watches : w[2] = p THEN UNCHANGED <<open, proc_watches>>
    ELSE /\ Free # {}
         /\ open' = open \cup {[fd |-> Min(Free), proc |-> p]}
         /\ proc_watches' = proc_watches \cup {<<Min(Free), p>>}

(* kqchan_proc_open: a socket pair and a pidfd of the target; the guest's end of *)
(* the pair, the second descriptor, is sent with the reply and closed.           *)
OpenKqchan(p) ==
    LET s == Min(Free)
        g == Min(Free \ {s})
        d == Min(Free \ {s, g})
    IN  /\ Cardinality(Free) > 2
        /\ open' = open \cup {[fd |-> s, proc |-> "socket"], [fd |-> d, proc |-> p]}
        /\ kqchans' = kqchans \cup {[daemon_fd |-> s, pidfd |-> d, target |-> p]}

(* The turn of the RPC socket: datagrams are handled until there are none. *)
MainReadable ==
    /\ batch # <<>> /\ Head(batch) = RPC
    /\ \/ /\ inbox = <<>> /\ batch' = Tail(batch)
          /\ UNCHANGED <<inbox, open, proc_watches, kqchans>>
       \/ /\ inbox # <<>> /\ inbox' = Tail(inbox) /\ UNCHANGED batch
          /\ \/ Head(inbox)[1] = "checkin" /\ ArmWatch(Head(inbox)[2]) /\ UNCHANGED kqchans
             \/ /\ Head(inbox)[1] = "proc_open" /\ OpenKqchan(Head(inbox)[2])
                /\ UNCHANGED proc_watches
    /\ UNCHANGED <<ps, hungup, opened, told, torn>>

(***************************************************************************)
(* The turn of another descriptor: the socket of a channel (on_readable    *)
(* finds it hung up or has nothing to do), the pidfd of a channel          *)
(* (NOTE_EXIT), a death watch (the process is torn down), or nothing any   *)
(* more.                                                                   *)
(***************************************************************************)
SocketReadable(fd) ==
    \E k \in kqchans :
        /\ k.daemon_fd = fd
        /\ IF fd \in hungup
           THEN Close({fd, k.pidfd}) /\ kqchans' = kqchans \ {k}
           ELSE UNCHANGED <<open, hungup, kqchans>>
        /\ UNCHANGED <<proc_watches, told, torn>>

TargetDied(fd) ==
    \E k \in kqchans :
        /\ k.pidfd = fd /\ Close({fd})
        /\ kqchans' = (kqchans \ {k}) \cup {[k EXCEPT !.pidfd = NoFd]}
        /\ told' = told \cup {k.target}
        /\ UNCHANGED <<proc_watches, torn>>

WatchFired(fd) ==
    \E w \in proc_watches :
        /\ w[1] = fd /\ Close({fd})
        /\ proc_watches' = proc_watches \ {w}
        /\ torn' = torn \cup {w[2]}
        /\ UNCHANGED <<kqchans, told>>

Unknown(fd) ==
    /\ ~\E k \in kqchans : fd \in {k.daemon_fd, k.pidfd}
    /\ ~\E w \in proc_watches : w[1] = fd
    /\ UNCHANGED <<open, hungup, kqchans, proc_watches, told, torn>>

FdReadable ==
    /\ batch # <<>> /\ Head(batch) # RPC /\ batch' = Tail(batch)
    /\ \/ SocketReadable(Head(batch)) \/ TargetDied(Head(batch))
       \/ WatchFired(Head(batch)) \/ Unknown(Head(batch))
    /\ UNCHANGED <<ps, inbox, opened>>

-------------------------------------------------------------------------------
Init ==
    /\ ps = [p \in Procs |-> "new"] /\ open = {} /\ hungup = {} /\ inbox = <<>>
    /\ batch = <<>> /\ kqchans = {} /\ proc_watches = {} /\ opened = 0
    /\ told = {} /\ torn = {}

Next ==
    \/ \E p \in Procs : Checkin(p) \/ OpenChannel(p) \/ Dies(p)
    \/ \E k \in kqchans : HangUp(k)
    \/ epoll_wait \/ MainReadable \/ FdReadable

Spec == Init /\ [][Next]_vars

(* Only a process that died is torn down: the event that frees a task and  *)
(* its threads is one of the pidfd of that very process.                   *)
OnlyTheDead == \A p \in torn : ps[p] = "dead"
===============================================================================
