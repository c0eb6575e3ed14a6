------------------------------- MODULE LaunchdJob -------------------------------
(***************************************************************************)
(* The life of launchd's jobs (src/darwin/launchd/src/core.c): a job with  *)
(* one Mach service is started by a message on the service's port, by its  *)
(* KeepAlive or by an operator, runs as a child that takes the receive     *)
(* right with bootstrap_check_in, exits, crashes, hangs or is stopped, is  *)
(* reaped, and is started again, watched again or removed; and launchd     *)
(* itself shuts down, which has to end every job first.                    *)
(*                                                                         *)
(* launchd is one thread that handles one event at a time: a kevent (exit  *)
(* of a child, a timer, mail in the demand port set), a notification that  *)
(* a receive right came back, a request.  The order in which pending       *)
(* events are handled is free; the comment in job_ack_port_destruction     *)
(* says as much of the two that matter most.  A handler is one action, and *)
(* what it calls is an operator from the record of a job to the set of the *)
(* records it may leave behind.                                            *)
(*                                                                         *)
(* Not modelled: waiting4ok.  Once a support system has attached its event *)
(* stream, a job whose exec failed with ENOENT, ENOTDIR or ESRCH is not    *)
(* dispatched again, not even to be removed, until an event arrives.       *)
(*                                                                         *)
(* External: the kernel's processes, ports, port sets and timers, and what *)
(* the children and the operators do.                                      *)
(***************************************************************************)
EXTENDS Naturals, FiniteSets

CONSTANTS
    Jobs,               \* the jobs of the root job manager
    KindsOf(_),         \* the kinds a job may be of, each a set of traits
    SlowKill,           \* whether outside a shutdown too an exit may be seen later
                        \* than LAUNCHD_SIGKILL_TIMER after SIGKILL, or never
    MaxMail,            \* bound on the messages queued on a service's port
    MaxFaults,          \* bound on failed forks and children killed early
    MaxOps              \* bound on the requests of operators about a job

(***************************************************************************)
(* Traits.  From the property list: "keepalive" (ondemand is false),       *)
(* "service" (a Mach service), "reset" (ms->reset), "drain"                *)
(* (ms->drain_all_on_crash), "patient" (exit_timeout is 0).  Of the        *)
(* process: "clean" (proc_terminate may find it clean, and SIGKILL it at   *)
(* once), "stuck" (it may hang in the kernel), "early" (it may be killed   *)
(* before launchd attaches to it).                                         *)
(***************************************************************************)
Traits ==
    {"keepalive", "service", "reset", "drain", "patient", "clean", "stuck", "early"}

ASSUME LaunchdJobAssumption ==
    /\ IsFiniteSet(Jobs)
    /\ \A j \in Jobs : \A k \in KindsOf(j) :
          k \subseteq Traits /\ ("reset" \in k \/ "drain" \in k => "service" \in k)
    /\ SlowKill \in BOOLEAN
    /\ MaxMail \in Nat \ {0} /\ MaxFaults \in Nat /\ MaxOps \in Nat

VARIABLES
    kind,       \* the traits of each job, which do not change
    job,        \* of each job: struct job_s, its machservice, its port and its process
    jm,         \* the root job manager: "up", "shutting", or "gone" (launchd exits)
    faults,     \* faults so far
    ops,        \* requests about each job so far
    client      \* whether an operator's process, an anonymous job, still runs

vars == <<kind, job, jm, faults, ops, client>>

Is(j, trait) == trait \in kind[j]

(***************************************************************************)
(* Of one job.  launchd's own memory: loaded (it is in jm->jobs), p (j->p  *)
(* is set), ignored, stopped, sentkill, pending (removal_pending),         *)
(* crashed, didexec, workaround (workaround9359725), badarch (what is read *)
(* later of last_exit_status), isActive and hack (recv_race_hack) of the   *)
(* service; the timers respawn (on j) and exitTimer (on &j->exit_timeout). *)
(* The kernel's: young (less than min_run_time since start_time), proc and *)
(* death (the process and how it ended), asked (it has sent a check-in),   *)
(* right (where the receive right is), inset (the port is in the demand    *)
(* set), mail.  poison is history: mail that was queued when the process   *)
(* crashed is still queued.                                                *)
(*                                                                         *)
(* j->reaped is true whenever j->crashed is, and clean_kill implies        *)
(* stopped: neither is kept.  NOTE_EXEC is delivered with NOTE_EXIT at the *)
(* latest, so job_callback_proc has set did_exec when job_reap reads it:   *)
(* didexec is set by the exec itself.                                      *)
(***************************************************************************)
JobState ==
    [loaded: BOOLEAN, p: BOOLEAN, ignored: BOOLEAN, stopped: BOOLEAN,
     sentkill: BOOLEAN, pending: BOOLEAN, crashed: BOOLEAN, didexec: BOOLEAN,
     workaround: BOOLEAN, badarch: BOOLEAN, isActive: BOOLEAN, hack: BOOLEAN,
     respawn: {"off", "armed", "due"}, exitTimer: BOOLEAN, young: BOOLEAN,
     proc: {"none", "forked", "running", "stuck", "zombie"},
     death: {"none", "exit", "crash", "badarch"}, asked: BOOLEAN,
     right: {"launchd", "server", "ghost", "returning", "closed"},
     inset: BOOLEAN, mail: 0..MaxMail, poison: BOOLEAN]

(* Each field has its type, and the counters are within their bounds. *)
TypeOK ==
    /\ kind \in [Jobs -> SUBSET Traits] /\ job \in [Jobs -> JobState]
    /\ jm \in {"up", "shutting", "gone"}
    /\ faults \in 0..MaxFaults /\ ops \in [Jobs -> 0..MaxOps] /\ client \in BOOLEAN

(* job_new: a job as jobmgr_import2 leaves it, before its first dispatch. *)
job_new(j) ==
    [loaded |-> TRUE, p |-> FALSE, ignored |-> TRUE, stopped |-> FALSE,
     sentkill |-> FALSE, pending |-> FALSE, crashed |-> FALSE,
     didexec |-> FALSE, workaround |-> FALSE, badarch |-> FALSE,
     isActive |-> FALSE, hack |-> FALSE, respawn |-> "off",
     exitTimer |-> FALSE, young |-> FALSE, proc |-> "none", death |-> "none",
     asked |-> FALSE, right |-> IF Is(j, "service") THEN "launchd" ELSE "closed",
     inset |-> FALSE, mail |-> 0, poison |-> FALSE]

-------------------------------------------------------------------------------
(* Watching a service: mach_port_move_member fails without the right. *)
machservice_watch(r) ==
    CASE r.right = "launchd" -> [r EXCEPT !.inset = TRUE]
      [] r.right = "closed"  -> r
      [] OTHER               -> [r EXCEPT !.hack = TRUE]

job_watch(r) ==
    IF r.ignored THEN machservice_watch([r EXCEPT !.ignored = FALSE]) ELSE r

IgnoreKeepsPort(r) == [r EXCEPT !.ignored = TRUE]

job_ignore(r) ==
    IF r.ignored THEN r ELSE [r EXCEPT !.ignored = TRUE, !.inset = FALSE]

(* A new port, in no port set; what was queued on the old one is gone. *)
machservice_resetport(r) ==
    [r EXCEPT !.right = "launchd", !.inset = FALSE, !.mail = 0, !.poison = FALSE]

machservice_drain_port(r) == [r EXCEPT !.mail = 0, !.poison = FALSE]

ActivePidOnly(r) == r.p

ActiveWhileOut(r) == r.p \/ r.isActive

(* job_active: a pid, or a service whose right is out, unless its exit was simulated. *)
job_active(r) == r.p \/ (r.isActive /\ ~r.workaround)

job_useless(r, mgr) ==
    \/ r.pending
    \/ mgr = "shutting"
    \/ ~r.didexec /\ r.badarch

(* job_keepalive: the attributes of a port are read only with its right. *)
job_keepalive(j, r, mgr) ==
    /\ mgr # "shutting"
    /\ Is(j, "keepalive") \/ (r.right = "launchd" /\ r.mail > 0)

ReapUndrained(j, r) ==
    [r EXCEPT !.p = FALSE, !.exitTimer = FALSE, !.sentkill = FALSE,
        !.crashed = (r.death = "crash" /\ ~r.stopped), !.proc = "none",
        !.death = "none", !.asked = FALSE]

(***************************************************************************)
(* job_reap.  The exit timer goes, unless exit_timeout is 0; a signal that *)
(* means a crash counts as one unless the job was being stopped.  A        *)
(* crashed service launchd already has back is drained here, one it has    *)
(* not is drained when the right comes; a service that resets gets a new   *)
(* port when exec failed.  A process whose exit is only simulated keeps    *)
(* what it holds: its right is a ghost's from now on.                      *)
(***************************************************************************)
job_reap(j, r) ==
    LET crashed == r.death = "crash" /\ ~r.stopped /\ ~r.workaround
        dead == [r EXCEPT !.p = FALSE, !.exitTimer = @ /\ Is(j, "patient"),
                    !.crashed = crashed,
                    !.badarch = (r.death = "badarch"), !.sentkill = FALSE,
                    !.proc = "none", !.death = "none", !.asked = FALSE,
                    !.right = IF @ = "server" THEN "ghost" ELSE @]
        drained == IF crashed /\ ~r.isActive /\ Is(j, "drain")
                   THEN machservice_drain_port(dead) ELSE dead
    IN  IF ~r.didexec /\ Is(j, "reset") /\ ~r.isActive
        THEN machservice_resetport(drained) ELSE drained

DeleteKeepsRight(j, r) ==
    [job_new(j) EXCEPT !.loaded = FALSE, !.right = r.right]

(***************************************************************************)
(* job_remove, with no process left: the timers, the service and the job   *)
(* are deleted.  machservice_delete closes the receive right if it is home *)
(* and leaves one that is out to whoever has it.  An exit timer that is    *)
(* set though exit_timeout is 0 is not deleted; it would fire for a job    *)
(* that was freed, and what comes of that is not modelled.                 *)
(***************************************************************************)
job_delete(j, r) ==
    [job_new(j) EXCEPT !.loaded = FALSE, !.proc = r.proc, !.death = r.death,
        !.right = IF r.isActive THEN r.right ELSE "closed"]

StopUntimed(j, r, mgr) == {[r EXCEPT !.stopped = TRUE]}

(***************************************************************************)
(* job_stop: proc_terminate sends SIGKILL to a clean process and SIGTERM   *)
(* to another.  SIGTERM starts the exit timer unless exit_timeout is 0;    *)
(* SIGKILL starts it only in a shutdown.  The signal to a zombie may fail, *)
(* and no timer is started.                                                *)
(***************************************************************************)
job_stop(j, r, mgr) ==
    LET term == [r EXCEPT !.stopped = TRUE, !.exitTimer = ~Is(j, "patient"),
                    !.poison = FALSE]
        kill == [r EXCEPT !.stopped = TRUE, !.sentkill = TRUE, !.poison = FALSE,
                    !.exitTimer = (mgr = "shutting")]
        gone == [r EXCEPT !.stopped = TRUE, !.poison = FALSE]
    IN  IF ~r.p \/ r.stopped THEN {r}
        ELSE {term} \cup (IF Is(j, "clean") THEN {kill} ELSE {})
                    \cup (IF r.proc = "zombie" THEN {gone} ELSE {})

(* job_remove: the removal of a running job waits for its end. *)
job_remove(j, r, mgr) ==
    IF ~r.p THEN {job_delete(j, r)}
    ELSE IF r.pending THEN {r}
    ELSE job_stop(j, [r EXCEPT !.pending = TRUE], mgr)

(* job_kill: SIGKILL, and the timer once more. *)
job_kill(r) == [r EXCEPT !.sentkill = TRUE, !.exitTimer = TRUE]

ThrottledUntimed(r) == job_ignore(r)

(***************************************************************************)
(* job_start.  A job started less than min_run_time ago is throttled: its  *)
(* port is ignored until the timer dispatches it.  A failed fork is tried  *)
(* again after a second.  A child that dies before the kevent is attached  *)
(* is reaped at once, and the job is watched; if wait4 fails, or it died   *)
(* of a signal that means one, that counts as a crash.                     *)
(***************************************************************************)
Throttled(r) == job_ignore([r EXCEPT !.respawn = "armed"])

ForkFails(r) == job_ignore([r EXCEPT !.respawn = "due"])

Forked(r) ==
    [r EXCEPT !.p = TRUE, !.proc = "forked", !.young = TRUE, !.didexec = FALSE,
        !.crashed = FALSE, !.stopped = FALSE, !.workaround = FALSE]

(* How a process may end; only a service that drains tells the two apart. *)
Deaths(j) == IF Is(j, "drain") THEN {"exit", "crash"} ELSE {"exit"}

ForkedAndDead(r, how) ==
    [Forked(r) EXCEPT !.death = how, !.poison = @ \/ (how = "crash" /\ r.mail > 0)]

KilledUnwatched(j, r) == {job_reap(j, ForkedAndDead(r, how)) : how \in Deaths(j)}

KilledBeforeAttach(j, r) ==
    {job_watch(job_reap(j, ForkedAndDead(r, how))) : how \in Deaths(j)}

job_start(j, r, faulty) ==
    IF job_active(r) THEN {r}
    ELSE IF r.young THEN {Throttled(r)}
    ELSE IF ~faulty THEN {job_ignore(Forked(r))}
    ELSE {ForkFails(r)} \cup (IF Is(j, "early") THEN KilledBeforeAttach(j, r) ELSE {})

(* job_dispatch: what to do with a job, decided anew at every event of it. *)
job_dispatch(j, r, kickstart, mgr, faulty) ==
    IF job_active(r) THEN {r}
    ELSE IF job_useless(r, mgr) THEN job_remove(j, r, mgr)
    ELSE IF kickstart \/ job_keepalive(j, r, mgr) THEN job_start(j, r, faulty)
    ELSE {job_watch(r)}

-------------------------------------------------------------------------------
(* Choices, one for each job, out of the sets S[j]. *)
Each(S) == {f \in [Jobs -> UNION {S[j] : j \in Jobs}] : \A j \in Jobs : f[j] \in S[j]}

(***************************************************************************)
(* jobmgr_do_garbage_collection, after the handler of an event left the    *)
(* jobs as f: in a shutdown the inactive jobs are removed and the active   *)
(* ones stopped; when none is active jobmgr_remove ends launchd.           *)
(***************************************************************************)
Collected(j, r) ==
    IF ~r.loaded THEN {r}
    ELSE IF job_active(r) THEN job_stop(j, r, "shutting")
    ELSE job_remove(j, r, "shutting")

jobmgr_do_garbage_collection(f, mgr) ==
    IF mgr # "shutting" THEN job' = f /\ jm' = mgr
    ELSE /\ job' \in Each([j \in Jobs |-> Collected(j, f[j])])
         /\ jm' = IF \E j \in Jobs : f[j].loaded /\ job_active(f[j])
                  THEN "shutting" ELSE "gone"

(* One job goes from r to what job_dispatch makes of it, as g; a fault is charged. *)
Dispatched(j, r, kickstart, g) ==
    \/ g \in job_dispatch(j, r, kickstart, jm, FALSE) /\ UNCHANGED faults
    \/ /\ faults < MaxFaults
       /\ g \in job_dispatch(j, r, kickstart, jm, TRUE)
                 \ job_dispatch(j, r, kickstart, jm, FALSE)
       /\ faults' = faults + 1

(* The records job_dispatch may leave, with a fault or without. *)
JobOutcomes(j, r, kickstart) ==
    UNION {job_dispatch(j, r, kickstart, jm, faulty) : faulty \in BOOLEAN}

(* Dispatched, by a handler that collects no garbage afterwards. *)
Dispatch(j, r, kickstart) ==
    \E g \in JobOutcomes(j, r, kickstart) :
        /\ Dispatched(j, r, kickstart, g)
        /\ job' = [job EXCEPT ![j] = g]
        /\ UNCHANGED jm

-------------------------------------------------------------------------------
(* job_callback_proc, NOTE_EXIT: reap, dispatch; jobmgr_callback then collects. *)
job_callback_proc(j) ==
    LET r == job[j] IN
    /\ r.p /\ r.proc = "zombie"
    /\ \E g \in JobOutcomes(j, job_reap(j, r), FALSE) :
          /\ Dispatched(j, job_reap(j, r), FALSE, g)
          /\ jobmgr_do_garbage_collection([job EXCEPT ![j] = g], jm)
    /\ UNCHANGED <<ops, client>>

(* mportset_callback: a port of the demand set has mail; its job is kickstarted. *)
mportset_callback(j) ==
    /\ job[j].inset /\ job[j].mail > 0
    /\ Dispatch(j, job[j], TRUE)
    /\ UNCHANGED <<ops, client>>

(* job_callback_timer, the timer on j: the throttled job is kickstarted. *)
RespawnTimer(j) ==
    /\ job[j].respawn = "due"
    /\ Dispatch(j, [job[j] EXCEPT !.respawn = "off"], TRUE)
    /\ UNCHANGED <<ops, client>>

(***************************************************************************)
(* job_callback_timer, the exit timer: the first time SIGKILL; the second  *)
(* time launchd pretends that the process exited, and handles that as it   *)
(* handles NOTE_EXIT.  A timer job_reap has left finds no process.         *)
(***************************************************************************)
ExitTimer(j) ==
    LET r == [job[j] EXCEPT !.exitTimer = FALSE]
        simulated == job_reap(j, [r EXCEPT !.workaround = TRUE])
    IN  /\ job[j].exitTimer /\ (r.sentkill => SlowKill \/ jm = "shutting")
        /\ \/ /\ r.p /\ ~r.sentkill
              /\ job' = [job EXCEPT ![j] = job_kill(r)]
              /\ UNCHANGED <<jm, faults>>
           \/ ~r.p /\ job' = [job EXCEPT ![j] = r] /\ UNCHANGED <<jm, faults>>
           \/ /\ r.p /\ r.sentkill
              /\ \E g \in JobOutcomes(j, simulated, FALSE) :
                    /\ Dispatched(j, simulated, FALSE, g)
                    /\ jobmgr_do_garbage_collection([job EXCEPT ![j] = g], jm)
        /\ UNCHANGED <<ops, client>>

(***************************************************************************)
(* job_ack_port_destruction: the receive right comes back.  The right of a *)
(* service that was deleted meanwhile is closed, and nothing is collected. *)
(* ms is read once more after job_dispatch, which may have freed it; the   *)
(* port of a freed service is no longer in launchd's name space, so        *)
(* watching it has no effect whatever is read.                             *)
(***************************************************************************)
Returned(j, r) ==
    LET drained == IF Is(j, "drain") /\ r.crashed THEN machservice_drain_port(r) ELSE r
        home == [drained EXCEPT !.isActive = FALSE, !.right = "launchd"]
    IN  IF Is(j, "reset") THEN machservice_resetport(home) ELSE home

AfterHack(r) ==
    IF r.loaded /\ r.hack THEN machservice_watch([r EXCEPT !.hack = FALSE]) ELSE r

job_ack_port_destruction(j) ==
    LET r == job[j] IN
    /\ r.right = "returning"
    /\ \/ /\ ~r.loaded
          /\ job' = [job EXCEPT ![j].right = "closed"]
          /\ UNCHANGED <<jm, faults>>
       \/ /\ r.loaded
          /\ \E g \in JobOutcomes(j, Returned(j, r), FALSE) :
                /\ Dispatched(j, Returned(j, r), FALSE, g)
                /\ jobmgr_do_garbage_collection([job EXCEPT ![j] = AfterHack(g)], jm)
    /\ UNCHANGED <<ops, client>>

(***************************************************************************)
(* job_mig_check_in2: the job's process gets the receive right.  When it   *)
(* died after it asked, the reply goes nowhere and the right comes back.   *)
(***************************************************************************)
job_mig_check_in2(j) ==
    LET r == job[j] IN
    /\ r.asked
    /\ job' = [job EXCEPT ![j] =
          IF r.isActive THEN [r EXCEPT !.asked = FALSE]
          ELSE [r EXCEPT !.asked = FALSE, !.isActive = TRUE, !.inset = FALSE,
                   !.right = IF r.proc = "zombie" THEN "returning" ELSE "server"]]
    /\ UNCHANGED <<jm, faults, ops, client>>

-------------------------------------------------------------------------------
(* The requests of operators: StartJob and kickstart, StopJob, RemoveJob and unload. *)
Request(j) ==
    /\ jm # "gone" /\ ops[j] < MaxOps /\ job[j].loaded
    /\ ops' = [ops EXCEPT ![j] = @ + 1] /\ client' = TRUE

StartJob(j) == Request(j) /\ Dispatch(j, job[j], TRUE)

StopJob(j) ==
    /\ Request(j)
    /\ \E g \in job_stop(j, job[j], jm) : job' = [job EXCEPT ![j] = g]
    /\ UNCHANGED <<jm, faults>>

RemoveJob(j) ==
    /\ Request(j)
    /\ \E g \in job_remove(j, job[j], jm) : job' = [job EXCEPT ![j] = g]
    /\ UNCHANGED <<jm, faults>>

(* The operator's process exits: an EVFILT_PROC event of an anonymous job. *)
ClientExits ==
    /\ client /\ client' = FALSE
    /\ jobmgr_do_garbage_collection(job, jm)
    /\ UNCHANGED <<faults, ops>>

(* launchd_shutdown, jobmgr_shutdown. *)
launchd_shutdown ==
    /\ jm = "up"
    /\ jobmgr_do_garbage_collection(job, "shutting")
    /\ UNCHANGED <<faults, ops, client>>

-------------------------------------------------------------------------------
(* The kernel and the children. *)
Becomes(j, r) == job' = [job EXCEPT ![j] = r] /\ UNCHANGED <<jm, faults, ops, client>>

Send(j) ==
    LET r == job[j] IN
    /\ r.right # "closed" /\ r.loaded /\ r.mail < MaxMail
    /\ Becomes(j, [r EXCEPT !.mail = @ + 1])

Exec(j) ==
    /\ job[j].proc = "forked"
    /\ Becomes(j, [job[j] EXCEPT !.proc = "running", !.didexec = TRUE])

(* The server asks for its service, as a rule at its start. *)
Ask(j) ==
    LET r == job[j] IN
    /\ Is(j, "service") /\ r.proc = "running" /\ ~r.asked /\ ~r.isActive
    /\ Becomes(j, [r EXCEPT !.asked = TRUE])

Receive(j) ==
    LET r == job[j] IN
    /\ r.proc = "running" /\ r.right = "server" /\ r.mail > 0
    /\ Becomes(j, [r EXCEPT !.mail = @ - 1, !.poison = FALSE])

(* A dead process returns what it holds. *)
Dead(r, how) ==
    [r EXCEPT !.proc = "zombie", !.death = how,
        !.right = IF @ = "server" THEN "returning" ELSE @,
        !.poison = (how = "crash" /\ ~r.stopped /\ r.mail > 0)]

(* It exits or crashes by itself, or obeys SIGTERM. *)
Exits(j) ==
    /\ job[j].proc = "running"
    /\ \E how \in Deaths(j) : Becomes(j, Dead(job[j], how))

ExecFails(j) ==
    /\ job[j].proc = "forked"
    /\ \E how \in Deaths(j) \cup {"badarch"} : Becomes(j, Dead(job[j], how))

Killed(j) ==
    /\ job[j].sentkill /\ job[j].proc \in {"forked", "running"}
    /\ Becomes(j, Dead(job[j], "exit"))

(* It hangs in the kernel, where no signal reaches it; it may come back or not. *)
Sticks(j) ==
    /\ Is(j, "stuck") /\ job[j].proc = "running" /\ (SlowKill \/ jm = "shutting")
    /\ Becomes(j, [job[j] EXCEPT !.proc = "stuck"])

Unsticks(j) ==
    /\ job[j].proc = "stuck"
    /\ Becomes(j, Dead(job[j], "exit"))

GhostDies(j) ==
    /\ job[j].right = "ghost"
    /\ Becomes(j, [job[j] EXCEPT !.right = "returning"])

(* min_run_time has passed since the start; the throttle timer is due by then. *)
Mature(j) ==
    LET r == job[j] IN
    /\ r.young
    /\ Becomes(j, [r EXCEPT !.young = FALSE,
                      !.respawn = IF @ = "armed" THEN "due" ELSE @])

-------------------------------------------------------------------------------
(* job_import: every job is dispatched once. *)
Init ==
    /\ kind \in Each([j \in Jobs |-> KindsOf(j)])
    /\ job \in Each([j \in Jobs |-> job_dispatch(j, job_new(j), FALSE, "up", FALSE)])
    /\ jm = "up" /\ faults = 0 /\ ops = [j \in Jobs |-> 0] /\ client = FALSE

Event(j) ==
    \/ job_callback_proc(j) \/ mportset_callback(j) \/ RespawnTimer(j)
    \/ ExitTimer(j) \/ job_ack_port_destruction(j) \/ job_mig_check_in2(j)

Operator(j) == StartJob(j) \/ StopJob(j) \/ RemoveJob(j)

Child(j) ==
    \/ Send(j) \/ Exec(j) \/ Ask(j) \/ Receive(j) \/ Exits(j)
    \/ ExecFails(j) \/ Killed(j) \/ Sticks(j) \/ Unsticks(j) \/ GhostDies(j)
    \/ Mature(j)

Next ==
    /\ jm # "gone"
    /\ \/ \E j \in Jobs : Event(j) \/ Operator(j) \/ Child(j)
       \/ ClientExits
       \/ launchd_shutdown
    /\ UNCHANGED kind

Spec == Init /\ [][Next]_vars

(***************************************************************************)
(* Fairness.  As long as something is due for a job (an exit, a timer, a   *)
(* right that came back, a SIGKILL, the passing of min_run_time) something *)
(* of it happens in the end; and as long as a port of the demand set has   *)
(* mail some such port is served, of which mportset_callback picks the     *)
(* first, or the operator's command ends.  Nobody has to send, exec, check *)
(* in, exit or shut down.                                                  *)
(***************************************************************************)
Handled(j) ==
    /\ jm # "gone" /\ UNCHANGED kind
    /\ \/ job_callback_proc(j) \/ RespawnTimer(j) \/ ExitTimer(j)
       \/ job_ack_port_destruction(j) \/ Killed(j) \/ Mature(j)

Fairness ==
    /\ \A j \in Jobs : WF_vars(Handled(j))
    /\ WF_vars(jm # "gone" /\ UNCHANGED kind
                /\ (ClientExits \/ \E j \in Jobs : mportset_callback(j)))

FairSpec == Spec /\ Fairness

-------------------------------------------------------------------------------
(* A job launchd may start is never out of its sight: when it is loaded,   *)
(* inactive and its right is home, its port is in the demand set or the    *)
(* timer that dispatches it is set.                                        *)
NeverDeaf ==
    \A j \in Jobs : LET r == job[j] IN
        r.loaded /\ ~job_active(r) /\ r.right = "launchd"
            => r.inset \/ r.respawn # "off"

(* A port is in the demand set only while its job is inactive: dispatching *)
(* an active job does nothing, so its mail would wake launchd for ever,    *)
(* and keep mportset_callback from every other port with mail.             *)
DemandSetIdle == \A j \in Jobs : job[j].inset => ~job_active(job[j])

(* The mail that was queued when a server that drains on a crash crashed   *)
(* is gone before its successor is started, in whichever order the exit    *)
(* and the receive right are seen.                                         *)
CrashDrained == \A j \in Jobs : job[j].poison /\ job[j].p => job[j].proc = "zombie"

(* A service is active just while its right is out; of a job that was      *)
(* removed launchd keeps no right, so that its clients find out.           *)
RightsAccounted ==
    \A j \in Jobs : LET r == job[j] IN
        IF r.loaded /\ Is(j, "service")
        THEN r.isActive <=> r.right \in {"server", "ghost", "returning"}
        ELSE r.right \in {"closed", "ghost", "returning"}

(* A process is started only when launchd has the receive right again: no  *)
(* former instance of the job still serves, and check-in can succeed.      *)
OneInstance ==
    \A j \in Jobs : job[j].proc = "forked" => job[j].right \in {"launchd", "closed"}

(* A job with mail is to be started.  One with KeepAlive is to run always, *)
(* but when its child died before launchd could attach, job_start only     *)
(* watches it, and it waits for mail like any other.                       *)
Wanted(j) ==
    job[j].loaded /\ ((Is(j, "keepalive") /\ ~Is(j, "early")) \/ job[j].mail > 0)

(* Every job with mail gets a process sooner or later, unless it is        *)
(* removed: throttled, after a failed fork, and when its child died before *)
(* launchd could attach to it.  So does every job with KeepAlive whose     *)
(* child never dies that early.                                            *)
DemandServed ==
    []<>(\A j \in Jobs : Wanted(j) => job[j].p \/ jm = "gone")

(* The jobs a stop is sure to end.  exit_timeout = 0 is infinite: SIGKILL  *)
(* never follows SIGTERM.  A clean process may get SIGKILL before the      *)
(* shutdown, and then no timer is ever set for it: if it hangs launchd     *)
(* does not pretend that it exited.                                        *)
Ending(j) == ~Is(j, "patient") /\ ~(Is(j, "clean") /\ Is(j, "stuck"))

(* The removal of a running job is carried out, unless its exit timeout is *)
(* infinite or its hanging process was killed as a clean one.              *)
RemovalCompletes ==
    []<>(\A j \in Jobs : Ending(j) /\ job[j].loaded => ~job[j].pending)

(* A shutdown ends, with processes that ignore SIGTERM or hang in the      *)
(* kernel; only a job of the two kinds that a stop may not end keeps       *)
(* launchd from exiting, and it does not keep any other job alive.         *)
ShutdownCompletes ==
    []<>(jm = "shutting" => /\ \E j \in Jobs : job[j].loaded
                            /\ \A j \in Jobs : job[j].loaded => ~Ending(j))

(* What launchd's comments promise without these exceptions: a shutdown    *)
(* ends though processes hang in the kernel, launchd working around that   *)
(* by simulating their exits (job_reap).                                   *)
HungShutdownEnds == []<>(jm # "shutting")

(* And a job whose child was killed before launchd could attach a kevent   *)
(* is watched so that it is respawned (job_start): a KeepAlive job always  *)
(* gets a process again.                                                   *)
KeptAlive ==
    []<>(\A j \in Jobs : Is(j, "keepalive") /\ job[j].loaded => job[j].p \/ jm = "gone")
===============================================================================
