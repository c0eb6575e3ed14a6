----------------------------- MODULE Shellspawn -----------------------------
(***************************************************************************)
(* shellspawn, the guest daemon that starts programs for the launcher       *)
(* (cider shell, cider exec), with the launcher's side of the protocol.  A  *)
(* launcher connects, sends commands and GO, waits for the byte "started"   *)
(* and then for the exit code; meanwhile it forwards signals.  The daemon   *)
(* serves one event at a time from a kqueue: a connection, a control socket *)
(* that is readable, a target's exit.                                       *)
(*                                                                          *)
(* Each event is a step, but for start_spawn, which waits: for commands, for *)
(* the child's exec, and between the byte "started" and the registration.   *)
(*                                                                          *)
(* Two things may end the daemon: a write to a launcher that has gone raises *)
(* SIGPIPE, which it does not ignore (as pid 1 it is immune), and free_cfg,  *)
(* after commands that end without GO, walks an argv that has no NULL.      *)
(* launchd then starts it again; targets of the old one run on as orphans.  *)
(***************************************************************************)
EXTENDS Naturals, Sequences, FiniteSets

CONSTANTS
  Launchers,
  NoLauncher,
  MAX_SPAWNS,
  MaxSignals  \* bound: signals that one launcher forwards

ASSUME ShellspawnAssumption ==
  NoLauncher \notin Launchers /\ MAX_SPAWNS \in Nat /\ MaxSignals \in Nat

VARIABLES
  \* the launchers
  lst,       \* where each is
  result,    \* its exit status, once it has exited
  signals,   \* signals caught so far, and those in the self-pipe
  \* the sockets
  up,        \* to the daemon
  down,      \* all that the daemon wrote
  got,       \* how much of it the launcher has read
  open,      \* connections that the daemon has open, or in its backlog
  \* the daemon
  dpc,       \* where it is, and for whom
  backlog,
  g_spawns,  \* slots
  reads,     \* the slot of each EVFILT_READ on a control socket, 0 for none
  exits,     \* the slot of each EVFILT_PROC, 0 for none
  \* the targets
  tgt,       \* none, forked, running, a zombie, reaped
  wstatus,   \* how each ended
  orphans    \* targets of a daemon that is gone

lvars == <<lst, result, signals, got>>
dvars == <<dpc, backlog, g_spawns, reads, exits>>
tvars == <<tgt, wstatus, orphans>>
vars == <<lvars, up, down, open, dvars, tvars>>

NoStatus == "none"
Statuses == {"exit0", "exit2", "signalled"}

\* A target that a signal ended has exit code 0.
WEXITSTATUS(w) == IF w = "exit2" THEN "2" ELSE "0"

Gone(l) == lst[l] \in {"exited", "dead"}
Loop == [at |-> "loop", l |-> NoLauncher]
At(p) == dpc.at = p
Unread(l) == SubSeq(down[l], got[l] + 1, Len(down[l]))

Slots == 1..MAX_SPAWNS

-----------------------------------------------------------------------------
(* The launcher. *)

Exit(l, code) ==
  /\ lst' = [lst EXCEPT ![l] = "exited"]
  /\ result' = [result EXCEPT ![l] = code]

connect_shellspawn(l) ==
  /\ lst[l] = "idle"
  /\ IF dpc.at \in {"crashed", "killed"}
     THEN Exit(l, "1") /\ UNCHANGED <<backlog, open>>
     ELSE /\ lst' = [lst EXCEPT ![l] = "sending"] /\ UNCHANGED result
          /\ backlog' = Append(backlog, l) /\ open' = open \cup {l}
  /\ UNCHANGED <<signals, got, up, down, dpc, g_spawns, reads, exits, tvars>>

\* A write: into the socket, or the launcher dies of it.
Push(l, msg, then) ==
  IF l \in open
  THEN up' = [up EXCEPT ![l] = Append(@, msg)] /\ lst' = [lst EXCEPT ![l] = then] /\ UNCHANGED result
  ELSE Exit(l, "1") /\ UNCHANGED up

push_cmd(l) ==
  /\ lst[l] = "sending" /\ up[l] = <<>>
  /\ Push(l, "cmd", "sending")
  /\ UNCHANGED <<signals, got, down, open, dvars, tvars>>

spawn_go(l) ==
  /\ lst[l] = "sending"
  /\ Push(l, "go", "waiting")
  /\ UNCHANGED <<signals, got, down, open, dvars, tvars>>

handle_signal(l) ==
  /\ lst[l] \in {"waiting", "started"} /\ signals[l].caught < MaxSignals
  /\ signals' = [signals EXCEPT ![l] = [caught |-> @.caught + 1, piped |-> @.piped + 1]]
  /\ UNCHANGED <<lst, result, got, up, down, open, dvars, tvars>>

\* One round of shell_loop.  Signals come first; a launcher whose write fails
\* does not look at the socket any more.
drain_signals(l) ==
  /\ lst[l] \in {"waiting", "started"} /\ signals[l].piped > 0
  /\ signals' = [signals EXCEPT ![l].piped = @ - 1]
  /\ Push(l, "signal", lst[l])
  /\ UNCHANGED <<got, down, open, dvars, tvars>>

shell_loop(l) ==
  /\ lst[l] \in {"waiting", "started"} /\ signals[l].piped = 0
  /\ \/ /\ Unread(l) # <<>>
        /\ got' = [got EXCEPT ![l] = @ + 1]
        /\ IF lst[l] = "waiting"
           THEN lst' = [lst EXCEPT ![l] = "started"] /\ UNCHANGED result
           ELSE Exit(l, Head(Unread(l)))
     \/ /\ Unread(l) = <<>> /\ l \notin open
        /\ Exit(l, "1") /\ UNCHANGED got
  /\ UNCHANGED <<signals, up, down, open, dvars, tvars>>

\* The startup watchdog: no byte came in time, and the container goes with the
\* launcher, whoever else uses it (its init is killed, and init's end is the end of
\* all in its pid namespace); or .init.pid tells no pid, and only the launcher goes.
kill_container(l) ==
  /\ lst[l] = "waiting" /\ signals[l].piped = 0 /\ Unread(l) = <<>> /\ l \in open
  /\ Exit(l, "120")
  /\ \/ UNCHANGED <<open, dvars, tgt>>
     \/ /\ dpc' = [at |-> "killed", l |-> NoLauncher]
        /\ backlog' = <<>> /\ open' = {}
        /\ g_spawns' = [s \in Slots |-> NoLauncher]
        /\ reads' = [k \in Launchers |-> 0] /\ exits' = [k \in Launchers |-> 0]
        /\ tgt' = [k \in Launchers |-> IF tgt[k] = "none" THEN "none" ELSE "reaped"]
  /\ UNCHANGED <<signals, got, up, down, wstatus, orphans>>

\* The launcher is killed.
Die(l) ==
  /\ lst[l] \in {"sending", "waiting", "started"}
  /\ lst' = [lst EXCEPT ![l] = "dead"]
  /\ UNCHANGED <<result, signals, got, up, down, open, dvars, tvars>>

-----------------------------------------------------------------------------
(* The target. *)

\* The child execs, or writes its byte and is gone.
execv(l) ==
  /\ tgt[l] = "forked"
  /\ \/ tgt' = [tgt EXCEPT ![l] = "running"] /\ UNCHANGED wstatus
     \/ tgt' = [tgt EXCEPT ![l] = "failed"] /\ UNCHANGED wstatus
  /\ UNCHANGED <<lvars, up, down, open, dvars, orphans>>

TargetExits(l) ==
  /\ tgt[l] = "running"
  /\ tgt' = [tgt EXCEPT ![l] = "zombie"]
  /\ \E w \in {"exit0", "exit2"} : wstatus' = [wstatus EXCEPT ![l] = w]
  /\ UNCHANGED <<lvars, up, down, open, dvars, orphans>>

\* kill and waitpid, of a child that is not reaped.
Reap(l) ==
  /\ tgt' = [tgt EXCEPT ![l] = "reaped"]
  /\ UNCHANGED <<wstatus, orphans>>

-----------------------------------------------------------------------------
(* The daemon. *)

\* The daemon is gone, with all it had; launchd starts another.
Crash ==
  /\ dpc' = [at |-> "crashed", l |-> NoLauncher]
  /\ backlog' = <<>> /\ open' = {}
  /\ g_spawns' = [s \in Slots |-> NoLauncher]
  /\ reads' = [l \in Launchers |-> 0] /\ exits' = [l \in Launchers |-> 0]
  /\ orphans' = orphans \cup {l \in Launchers : tgt[l] \notin {"none", "reaped"}}
  /\ UNCHANGED <<down, tgt, wstatus>>

Restart ==
  /\ At("crashed")
  /\ dpc' = Loop
  /\ UNCHANGED <<lvars, up, down, open, backlog, g_spawns, reads, exits, tvars>>

Accept ==
  /\ At("loop") /\ backlog # <<>>
  /\ dpc' = [at |-> "commands", l |-> Head(backlog)]
  /\ backlog' = Tail(backlog)
  /\ UNCHANGED <<lvars, up, down, open, g_spawns, reads, exits, tvars>>

\* read_commands, one command; after GO the fork.
read_commands(l) ==
  /\ At("commands") /\ dpc.l = l /\ up[l] # <<>>
  /\ up' = [up EXCEPT ![l] = Tail(@)]
  /\ IF Head(up[l]) = "cmd"
     THEN UNCHANGED <<dpc, tgt>>
     ELSE /\ dpc' = [at |-> "exec", l |-> l]
          /\ tgt' = [tgt EXCEPT ![l] = "forked"]
  /\ UNCHANGED <<lvars, down, open, backlog, g_spawns, reads, exits, wstatus, orphans>>

\* Mutant: the end of the stream is not an error.
CommandsNeverEnd(l) ==
  /\ At("commands") /\ dpc.l = l /\ up[l] = <<>> /\ Gone(l)
  /\ UNCHANGED vars

\* The commands end without GO: free_cfg goes well, or not.
CommandsEnd(l) ==
  /\ At("commands") /\ dpc.l = l /\ up[l] = <<>> /\ Gone(l)
  /\ \/ /\ dpc' = Loop /\ open' = open \ {l}
        /\ UNCHANGED <<down, backlog, g_spawns, reads, exits, tvars>>
     \/ Crash
  /\ UNCHANGED <<lvars, up>>

\* A command cannot be read whole, GO comes without its descriptors, or there is no
\* pipe or no child for it: the connection is closed under a launcher that lives.
\* What it wrote goes unread; before GO was read whole free_cfg may go wrong.
CommandsFail(l) ==
  /\ At("commands") /\ dpc.l = l /\ up[l] # <<>>
  /\ up' = [up EXCEPT ![l] = <<>>]
  /\ \/ /\ dpc' = Loop /\ open' = open \ {l}
        /\ UNCHANGED <<down, backlog, g_spawns, reads, exits, tvars>>
     \/ Crash
  /\ UNCHANGED lvars

\* The error paths after the fork.
Abandon(l) ==
  /\ Reap(l)
  /\ open' = open \ {l}
  /\ dpc' = Loop
  /\ UNCHANGED <<down, backlog, g_spawns, reads, exits>>

\* Mutant: the launcher is not told.
StartedUnsaid(l) ==
  /\ At("exec") /\ dpc.l = l /\ tgt[l] # "forked"
  /\ \/ tgt[l] = "failed" /\ Abandon(l)
     \/ /\ tgt[l] # "failed"
        /\ dpc' = [at |-> "register", l |-> l]
        /\ UNCHANGED <<down, open, backlog, g_spawns, reads, exits, tvars>>
  /\ UNCHANGED <<lvars, up>>

\* The exec check, and the byte "started".
Started(l) ==
  /\ At("exec") /\ dpc.l = l /\ tgt[l] # "forked"
  /\ \/ /\ tgt[l] = "failed" \/ Gone(l)
        /\ Abandon(l)
     \/ /\ tgt[l] # "failed" /\ Gone(l)
        /\ Crash
     \/ /\ tgt[l] # "failed" /\ ~Gone(l)
        /\ down' = [down EXCEPT ![l] = Append(@, "started")]
        /\ dpc' = [at |-> "register", l |-> l]
        /\ UNCHANGED <<open, backlog, g_spawns, reads, exits, tvars>>
  /\ UNCHANGED <<lvars, up>>

\* Mutant: the slot stays taken.
FinishKeepsSlot(l, s) ==
  /\ \/ /\ down' = [down EXCEPT ![l] = IF Gone(l) THEN @ ELSE Append(@, WEXITSTATUS(wstatus[l]))]
        /\ Reap(l)
        /\ open' = open \ {l}
        /\ reads' = [reads EXCEPT ![l] = 0] /\ exits' = [exits EXCEPT ![l] = 0]
        /\ dpc' = Loop
        /\ UNCHANGED <<backlog, g_spawns>>
     \/ Gone(l) /\ Crash
  /\ UNCHANGED <<lvars, up>>

\* finish_spawn of what is in slot s: the exit code is written, all is closed.
finish_spawn(l, s) ==
  /\ \/ /\ down' = [down EXCEPT ![l] = IF Gone(l) THEN @ ELSE Append(@, WEXITSTATUS(wstatus[l]))]
        /\ Reap(l)
        /\ open' = open \ {l}
        /\ g_spawns' = [g_spawns EXCEPT ![s] = NoLauncher]
        /\ reads' = [reads EXCEPT ![l] = 0] /\ exits' = [exits EXCEPT ![l] = 0]
        /\ dpc' = Loop
        /\ UNCHANGED backlog
     \/ Gone(l) /\ Crash
  /\ UNCHANGED <<lvars, up>>

\* spawn_slot: the first free one.
Free == {s \in Slots : g_spawns[s] = NoLauncher}
spawn_slot == CHOOSE s \in Free : \A r \in Free : s <= r

\* Mutant: a target that is gone already is registered like any other.
RegisterUnchecked(l) ==
  /\ At("register") /\ dpc.l = l
  /\ Free # {}
  /\ g_spawns' = [g_spawns EXCEPT ![spawn_slot] = l]
  /\ reads' = [reads EXCEPT ![l] = spawn_slot]
  /\ exits' = [exits EXCEPT ![l] = IF tgt[l] = "running" THEN spawn_slot ELSE 0]
  /\ dpc' = Loop
  /\ UNCHANGED <<lvars, up, down, open, backlog, tvars>>

\* A slot, EVFILT_READ, EVFILT_PROC; a target that is gone already is finished at
\* once.  Without a slot the target is killed.
Register(l) ==
  /\ At("register") /\ dpc.l = l
  /\ \/ /\ Free = {}
        /\ Reap(l)
        /\ open' = open \ {l} /\ dpc' = Loop
        /\ UNCHANGED <<lvars, up, down, backlog, g_spawns, reads, exits>>
     \/ /\ Free # {} /\ tgt[l] = "running"
        /\ g_spawns' = [g_spawns EXCEPT ![spawn_slot] = l]
        /\ reads' = [reads EXCEPT ![l] = spawn_slot]
        /\ exits' = [exits EXCEPT ![l] = spawn_slot]
        /\ dpc' = Loop
        /\ UNCHANGED <<lvars, up, down, open, backlog, tvars>>
     \/ /\ Free # {} /\ tgt[l] = "zombie"
        /\ finish_spawn(l, spawn_slot)

SIGKILLed(l) ==
  /\ tgt' = [tgt EXCEPT ![l] = IF @ = "running" THEN "zombie" ELSE @]
  /\ wstatus' = [wstatus EXCEPT ![l] = IF tgt[l] = "running" THEN "signalled" ELSE @]
  /\ UNCHANGED orphans

\* Mutant: the end of the stream is taken for a signal that does nothing.
ControlNoKill(l) ==
  /\ At("loop") /\ reads[l] # 0
  /\ up[l] # <<>>
  /\ up' = [up EXCEPT ![l] = Tail(@)]
  /\ SIGKILLed(g_spawns[reads[l]]) \/ UNCHANGED tvars
  /\ UNCHANGED <<lvars, down, open, dvars>>

\* A control socket is readable: a signal, which the target survives or not, or the
\* end of the stream.
handle_control(l) ==
  /\ At("loop") /\ reads[l] # 0
  /\ \/ /\ up[l] # <<>>
        /\ up' = [up EXCEPT ![l] = Tail(@)]
        /\ SIGKILLed(g_spawns[reads[l]]) \/ UNCHANGED tvars
     \/ /\ up[l] = <<>> /\ Gone(l)
        /\ SIGKILLed(g_spawns[reads[l]])
        /\ UNCHANGED up
  /\ UNCHANGED <<lvars, down, open, dvars>>

\* NOTE_EXIT.
TargetExited(l) ==
  /\ At("loop") /\ exits[l] # 0 /\ tgt[l] = "zombie"
  /\ finish_spawn(g_spawns[exits[l]], exits[l])

-----------------------------------------------------------------------------
Init ==
  /\ lst = [l \in Launchers |-> "idle"]
  /\ result = [l \in Launchers |-> NoStatus]
  /\ signals = [l \in Launchers |-> [caught |-> 0, piped |-> 0]]
  /\ up = [l \in Launchers |-> <<>>] /\ down = [l \in Launchers |-> <<>>]
  /\ got = [l \in Launchers |-> 0]
  /\ open = {} /\ dpc = Loop /\ backlog = <<>>
  /\ g_spawns = [s \in Slots |-> NoLauncher]
  /\ reads = [l \in Launchers |-> 0] /\ exits = [l \in Launchers |-> 0]
  /\ tgt = [l \in Launchers |-> "none"]
  /\ wstatus = [l \in Launchers |-> NoStatus]
  /\ orphans = {}

LauncherStep(l) == spawn_go(l) \/ drain_signals(l) \/ shell_loop(l)
Environment(l) ==
  \/ connect_shellspawn(l) \/ push_cmd(l) \/ handle_signal(l) \/ kill_container(l)
  \/ Die(l) \/ TargetExits(l)
SpawnStep(l) ==
  \/ read_commands(l) \/ CommandsEnd(l) \/ CommandsFail(l) \/ Started(l) \/ Register(l)

Next ==
  \/ \E l \in Launchers :
       \/ LauncherStep(l) \/ Environment(l) \/ execv(l)
       \/ SpawnStep(l) \/ handle_control(l) \/ TargetExited(l)
  \/ Accept \/ Restart

Spec == Init /\ [][Next]_vars

\* Programs that can run do, a child execs or fails to, launchd restarts its job,
\* and the kqueue gives every ready event its turn.  Nothing makes a target exit.
FairSpec ==
  /\ Spec
  /\ WF_vars(Restart) /\ SF_vars(Accept)
  /\ \A l \in Launchers :
       /\ WF_vars(LauncherStep(l)) /\ WF_vars(execv(l)) /\ WF_vars(SpawnStep(l))
       /\ SF_vars(handle_control(l)) /\ SF_vars(TargetExited(l))

-----------------------------------------------------------------------------
(* Properties. *)

\* Every variable has its type.
TypeOK ==
  /\ lst \in [Launchers -> {"idle", "sending", "waiting", "started", "exited", "dead"}]
  /\ signals \in [Launchers -> [caught : 0..MaxSignals, piped : 0..MaxSignals]]
  /\ result \in [Launchers -> {NoStatus, "0", "1", "2", "120"}]
  /\ \A l \in Launchers : up[l] \in Seq({"cmd", "go", "signal"}) /\ got[l] <= Len(down[l])
  /\ open \subseteq Launchers /\ orphans \subseteq Launchers
  /\ dpc \in [at : {"loop", "commands", "exec", "register", "crashed", "killed"}, l : Launchers \cup {NoLauncher}]
  /\ g_spawns \in [Slots -> Launchers \cup {NoLauncher}]
  /\ reads \in [Launchers -> 0..MAX_SPAWNS] /\ exits \in [Launchers -> 0..MAX_SPAWNS]
  /\ tgt \in [Launchers -> {"none", "forked", "running", "failed", "zombie", "reaped"}]
  /\ wstatus \in [Launchers -> Statuses \cup {NoStatus}]

Attended(l) == reads[l] # 0 /\ exits[l] = reads[l] /\ g_spawns[reads[l]] = l

\* Between events, every target that is not reaped has a slot of its own and both
\* its filters, so that its exit and its launcher's end will be noticed; and no slot
\* or filter is left of one that is.
TargetsAttended ==
  At("loop") => \A l \in Launchers :
    IF tgt[l] \in {"none", "reaped"} \/ l \in orphans
    THEN reads[l] = 0 /\ exits[l] = 0 /\ \A s \in Slots : g_spawns[s] # l
    ELSE Attended(l)

\* The code a launcher exits with, if it read one, is that of its own target, which
\* has ended; and "started" came before it.
CodeTrue ==
  \A l \in Launchers :
    /\ got[l] = 2 => tgt[l] = "reaped" /\ result[l] = WEXITSTATUS(wstatus[l])
    /\ down[l] # <<>> => down[l][1] = "started" /\ Len(down[l]) <= 2

\* A launcher that sent GO hears of it: that its program started, or the end of the
\* connection, also when the daemon crashes under it or is busy with others.
Served == \A l \in Launchers : lst[l] = "waiting" ~> lst[l] \in {"started", "exited", "dead"}

\* A launcher that ends, by whatever death, takes its target with it, unless the
\* daemon crashed and left the target an orphan.
TargetEnds ==
  \A l \in Launchers : Gone(l) ~> (tgt[l] \in {"none", "reaped"} \/ l \in orphans)

\* A target's end ends its launcher.
ExitReported ==
  \A l \in Launchers : tgt[l] \in {"zombie", "reaped"} ~> Gone(l)
=============================================================================
