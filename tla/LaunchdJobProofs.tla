--------------------------- MODULE LaunchdJobProofs ---------------------------
(***************************************************************************)
(* The safety invariants of LaunchdJob, for any number of jobs of any      *)
(* kinds and for all bounds.  Every invariant is about one job at a time,  *)
(* so it is carried by a predicate on the record of a job: first it is     *)
(* shown of each operator of core.c that it takes records that satisfy the *)
(* predicate to such records, then of each event.                          *)
(***************************************************************************)
EXTENDS LaunchdJob, TLAPS

(* The fields of a record, and the places a receive right may be in. *)
Fields ==
    {"loaded", "p", "ignored", "stopped", "sentkill", "pending", "crashed", "didexec",
     "workaround", "badarch", "isActive", "hack", "respawn", "exitTimer", "young",
     "proc", "death", "asked", "right", "inset", "mail", "poison"}

Record(r) ==
    DOMAIN r = Fields /\ r.right \in {"launchd", "server", "ghost", "returning", "closed"}

(* What is so however long a killed process takes to go: which fields of a *)
(* record go together, and where the receive right may be.                 *)
Core(j, r) ==
    /\ Record(r)
    /\ r.p <=> r.proc # "none"
    /\ r.p \/ r.death = "none"
    /\ r.p \/ r.inset \/ r.respawn # "off" => r.loaded
    /\ r.asked => r.proc \in {"running", "stuck", "zombie"} /\ Is(j, "service")
    /\ r.isActive => r.loaded /\ Is(j, "service")
    /\ r.right = "server" => r.proc \in {"running", "stuck"}
    /\ IF r.loaded /\ Is(j, "service")
       THEN r.isActive <=> r.right \in {"server", "ghost", "returning"}
       ELSE r.right # "launchd"
    /\ r.loaded => (Is(j, "service") <=> r.right # "closed")

(* What is so as long as launchd never gives up on a process outside a     *)
(* shutdown: a job whose right is out is active, so it is neither watched  *)
(* nor started; poisoned mail waits for the reaping or for the right.      *)
Timely(j, r) ==
    /\ ~r.workaround /\ ~r.hack
    /\ r.p \/ r.isActive => r.ignored
    /\ r.proc = "forked" => r.right \in {"launchd", "closed"}
    /\ r.inset => ~r.ignored /\ r.right = "launchd"
    /\ r.proc # "zombie" => r.death = "none"
    /\ r.poison =>
         /\ Is(j, "drain")
         /\ IF r.p THEN r.proc = "zombie" /\ r.death = "crash" /\ ~r.stopped
                   ELSE r.isActive /\ r.crashed

(* A job that is not ignored is watched, unless its port was reset without *)
(* that: that happens to a process killed before launchd attached to it.   *)
ResetsEarly(j) == Is(j, "reset") /\ Is(j, "early")

Watched(j, r) ==
    ~ResetsEarly(j) /\ r.loaded /\ ~r.ignored /\ r.right = "launchd" => r.inset

(* What every event leaves behind. *)
Heard(j, r) ==
    ~ResetsEarly(j) /\ r.loaded /\ ~job_active(r) /\ r.right = "launchd"
        => r.inset \/ r.respawn # "off"

(* A record that job_dispatch takes, and a record between events. *)
Sound(j, r) == Core(j, r) /\ (~SlowKill => Timely(j, r) /\ Watched(j, r))

Settled(j, r) == Sound(j, r) /\ (~SlowKill => Heard(j, r))

IInv ==
    /\ kind \in [Jobs -> SUBSET Traits] /\ \A j \in Jobs : kind[j] \in KindsOf(j)
    /\ jm \in {"up", "shutting", "gone"}
    /\ DOMAIN job = Jobs
    /\ \A j \in Jobs : Settled(j, job[j])

-------------------------------------------------------------------------------
(* The attributes of a service belong to a job that has one. *)
Attributes(j) == (Is(j, "reset") \/ Is(j, "drain")) => Is(j, "service")

(* job_ignore. *)
LEMMA IgnoreSound ==
    ASSUME NEW j, NEW r, NEW g, Sound(j, r), g = job_ignore(r)
    PROVE  Sound(j, g) /\ g.loaded = r.loaded /\ g.p = r.p /\ g.respawn = r.respawn
<1>1. CASE r.ignored
  BY <1>1 DEF job_ignore
<1>2. CASE ~r.ignored
  <2>1. g = [r EXCEPT !.ignored = TRUE, !.inset = FALSE]
    BY <1>2 DEF job_ignore
  <2>2. QED
    BY <2>1 DEF Sound, Core, Timely, Watched, Record, Fields
<1>3. QED
  BY <1>1, <1>2

(* Watching a port changes nothing else. *)
LEMMA WatchService ==
    ASSUME NEW j, NEW r, NEW g, Core(j, r), r.loaded, g = machservice_watch(r)
    PROVE  /\ Core(j, g) /\ g.loaded /\ g.right = r.right /\ g.ignored = r.ignored
           /\ g.p = r.p /\ g.isActive = r.isActive /\ g.respawn = r.respawn
           /\ g.workaround = r.workaround /\ g.poison = r.poison
           /\ r.right = "launchd" => g.inset
<1>1. CASE r.right = "launchd"
  <2>1. g = [r EXCEPT !.inset = TRUE]
    BY <1>1 DEF machservice_watch
  <2>2. QED
    BY <1>1, <2>1 DEF Core, Record, Fields
<1>2. CASE r.right = "closed"
  BY <1>2 DEF machservice_watch
<1>3. CASE r.right \notin {"launchd", "closed"}
  <2>1. g = [r EXCEPT !.hack = TRUE]
    BY <1>3 DEF machservice_watch
  <2>2. QED
    BY <1>3, <2>1 DEF Core, Record, Fields
<1>4. QED
  BY <1>1, <1>2, <1>3

(* job_watch of an inactive job. *)
LEMMA WatchSettled ==
    ASSUME NEW j, NEW r, NEW g, Sound(j, r), r.loaded, ~job_active(r), g = job_watch(r)
    PROVE  Settled(j, g)
<1>1. CASE ~r.ignored
  BY <1>1 DEF job_watch, Settled, Sound, Watched, Heard
<1>2. CASE r.ignored
  <2>1. PICK u : u = [r EXCEPT !.ignored = FALSE]
    OBVIOUS
  <2>2. g = machservice_watch(u)
    BY <1>2, <2>1 DEF job_watch
  <2>3. Core(j, u) /\ u.loaded /\ u.right = r.right /\ ~u.ignored
    BY <2>1 DEF Sound, Core, Record, Fields
  <2>4. Core(j, g)
    BY <2>2, <2>3, WatchService
  <2>5. ASSUME ~SlowKill PROVE Timely(j, g)
    <3>1. Timely(j, r) /\ ~r.p /\ ~r.isActive /\ r.right \in {"launchd", "closed"}
      BY <2>5 DEF Sound, Core, Timely, job_active, Record
    <3>2. CASE r.right = "launchd"
      <4>1. g = [u EXCEPT !.inset = TRUE]
        BY <2>2, <2>3, <3>2 DEF machservice_watch
      <4>2. QED
        BY <2>1, <3>1, <3>2, <4>1 DEF Sound, Core, Timely, Record, Fields
    <3>3. CASE r.right = "closed"
      <4>1. g = u
        BY <2>2, <2>3, <3>3 DEF machservice_watch
      <4>2. QED
        BY <2>1, <3>1, <3>3, <4>1 DEF Sound, Core, Timely, Record, Fields
    <3>4. QED
      BY <3>1, <3>2, <3>3
  <2>6. Watched(j, g) /\ Heard(j, g)
    BY <2>2, <2>3, WatchService DEF Watched, Heard
  <2>7. QED
    BY <2>4, <2>5, <2>6 DEF Settled, Sound
<1>3. QED
  BY <1>1, <1>2

(* What job_reap leaves of a record: nothing of the process, and poisoned  *)
(* mail only of a service whose right is out.                              *)
Crashed(r) == r.death = "crash" /\ ~r.stopped /\ ~r.workaround

Reaped(j, r, g) ==
    /\ Record(g) /\ ~g.p /\ g.proc = "none" /\ g.death = "none" /\ ~g.asked
    /\ g.loaded = r.loaded /\ g.isActive = r.isActive /\ g.ignored = r.ignored
    /\ g.respawn = r.respawn /\ g.workaround = r.workaround /\ g.hack = r.hack
    /\ \/ g.inset = r.inset /\ g.right = IF r.right = "server" THEN "ghost" ELSE r.right
       \/ /\ ~r.didexec /\ Is(j, "reset") /\ ~r.isActive
          /\ g.inset = FALSE /\ g.right = "launchd"
    /\ g.poison => r.poison /\ (Is(j, "drain") /\ Crashed(r) => r.isActive /\ g.crashed)

\* job_reap leaves just that.
LEMMA ReapLeaves ==
    ASSUME NEW j, NEW r, NEW g, Record(r), g = job_reap(j, r)
    PROVE  Reaped(j, r, g)
<1> USE DEF Reaped, Crashed
<1> DEFINE crashed == r.death = "crash" /\ ~r.stopped /\ ~r.workaround
<1>1. PICK d : d = [r EXCEPT !.p = FALSE, !.exitTimer = @ /\ Is(j, "patient"),
                      !.crashed = crashed,
                      !.badarch = (r.death = "badarch"), !.sentkill = FALSE,
                      !.proc = "none", !.death = "none", !.asked = FALSE,
                      !.right = IF @ = "server" THEN "ghost" ELSE @]
  OBVIOUS
<1>2. /\ Record(d) /\ ~d.p /\ d.proc = "none" /\ d.death = "none" /\ ~d.asked
      /\ d.loaded = r.loaded /\ d.isActive = r.isActive /\ d.ignored = r.ignored
      /\ d.respawn = r.respawn /\ d.workaround = r.workaround /\ d.hack = r.hack
      /\ d.inset = r.inset /\ d.right = IF r.right = "server" THEN "ghost" ELSE r.right
      /\ d.poison = r.poison /\ (d.crashed <=> crashed)
  BY <1>1 DEF Record, Fields
<1>3. PICK e : e = IF crashed /\ ~r.isActive /\ Is(j, "drain")
                   THEN machservice_drain_port(d) ELSE d
  OBVIOUS
<1>4. /\ Record(e) /\ ~e.p /\ e.proc = "none" /\ e.death = "none" /\ ~e.asked
      /\ e.loaded = r.loaded /\ e.isActive = r.isActive /\ e.ignored = r.ignored
      /\ e.respawn = r.respawn /\ e.workaround = r.workaround /\ e.hack = r.hack
      /\ e.inset = r.inset /\ e.right = IF r.right = "server" THEN "ghost" ELSE r.right
      /\ e.poison => r.poison /\ ~(crashed /\ ~r.isActive /\ Is(j, "drain"))
      /\ e.crashed <=> crashed
  <2>1. CASE e = d /\ ~(crashed /\ ~r.isActive /\ Is(j, "drain"))
    BY <1>2, <2>1
  <2>2. CASE e = [d EXCEPT !.mail = 0, !.poison = FALSE]
    BY <1>2, <2>2 DEF Record, Fields
  <2>3. QED
    BY <1>3, <2>1, <2>2 DEF machservice_drain_port
<1>5. CASE g = e
  BY <1>4, <1>5
<1>6. CASE g = machservice_resetport(e) /\ ~r.didexec /\ Is(j, "reset") /\ ~r.isActive
  <2>1. g = [e EXCEPT !.right = "launchd", !.inset = FALSE, !.mail = 0, !.poison = FALSE]
    BY <1>6 DEF machservice_resetport
  <2>2. QED
    BY <1>4, <1>6, <2>1 DEF Record, Fields
<1>7. QED
  BY <1>1, <1>3, <1>5, <1>6 DEF job_reap

(* job_reap of a job that has a process. *)
LEMMA ReapSound ==
    ASSUME NEW j, NEW r, NEW g, Sound(j, r), r.p, Attributes(j), g = job_reap(j, r)
    PROVE  Sound(j, g) /\ g.loaded
<1>1. Reaped(j, r, g)
  BY ReapLeaves DEF Sound, Core
<1>2. Core(j, g) /\ g.loaded
  BY <1>1 DEF Reaped, Sound, Core, Attributes
<1>3. ASSUME ~SlowKill PROVE Timely(j, g) /\ Watched(j, g)
  <2>1. Core(j, r) /\ Timely(j, r)
    BY <1>3 DEF Sound
  <2>2. Watched(j, g)
    BY <1>1, <2>1 DEF Reaped, Timely, Watched
  <2>3. QED
    BY <1>1, <2>1, <2>2 DEF Reaped, Core, Timely, Crashed
<1>4. QED
  BY <1>2, <1>3 DEF Sound

(* job_delete of a job without a process. *)
LEMMA DeleteSettled ==
    ASSUME NEW j, NEW r, NEW g, Core(j, r), ~r.p, g = job_delete(j, r)
    PROVE  Settled(j, g)
<1>1. /\ Record(g) /\ ~g.loaded /\ ~g.p /\ g.proc = "none" /\ g.death = "none"
      /\ g.right = (IF r.isActive THEN r.right ELSE "closed")
      /\ ~g.inset /\ g.respawn = "off" /\ ~g.asked /\ ~g.isActive /\ ~g.workaround
      /\ ~g.hack /\ ~g.poison
  BY DEF job_delete, job_new, Core, Record, Fields
<1>2. Core(j, g)
  BY <1>1 DEF Core
<1>3. Timely(j, g) /\ Watched(j, g) /\ Heard(j, g)
  BY <1>1 DEF Timely, Watched, Heard
<1>4. QED
  BY <1>2, <1>3 DEF Settled, Sound

(* job_stop. *)
LEMMA StopSound ==
    ASSUME NEW j, NEW r, NEW mgr, NEW g \in job_stop(j, r, mgr), Sound(j, r)
    PROVE  /\ Sound(j, g) /\ g.p = r.p /\ g.loaded = r.loaded /\ g.isActive = r.isActive
           /\ g.right = r.right /\ g.inset = r.inset /\ g.respawn = r.respawn
           /\ g.workaround = r.workaround
<1> DEFINE Like == /\ Record(g) /\ g.p = r.p /\ g.loaded = r.loaded
                   /\ g.isActive = r.isActive /\ g.right = r.right /\ g.inset = r.inset
                   /\ g.respawn = r.respawn /\ g.workaround = r.workaround
                   /\ g.hack = r.hack /\ g.proc = r.proc /\ g.asked = r.asked
                   /\ g.ignored = r.ignored /\ g.death = r.death /\ ~g.poison
<1>1. CASE g = r
  BY <1>1
<1>2. CASE g = [r EXCEPT !.stopped = TRUE, !.exitTimer = ~Is(j, "patient"),
                  !.poison = FALSE]
  <2>1. Like
    BY <1>2 DEF Sound, Core, Record, Fields
  <2>2. QED
    BY <2>1 DEF Sound, Core, Timely, Watched
<1>3. CASE g = [r EXCEPT !.stopped = TRUE, !.sentkill = TRUE, !.poison = FALSE,
                  !.exitTimer = (mgr = "shutting")]
  <2>1. Like
    BY <1>3 DEF Sound, Core, Record, Fields
  <2>2. QED
    BY <2>1 DEF Sound, Core, Timely, Watched
<1>4. CASE g = [r EXCEPT !.stopped = TRUE, !.poison = FALSE]
  <2>1. Like
    BY <1>4 DEF Sound, Core, Record, Fields
  <2>2. QED
    BY <2>1 DEF Sound, Core, Timely, Watched
<1>5. QED
  BY <1>1, <1>2, <1>3, <1>4 DEF job_stop

\* job_stop leaves a settled job settled: it starts and watches nothing.
LEMMA StopSettled ==
    ASSUME NEW j, NEW r, NEW mgr, NEW g \in job_stop(j, r, mgr), Settled(j, r)
    PROVE  Settled(j, g)
  BY StopSound DEF Settled, Heard, job_active

(* job_remove. *)
LEMMA RemoveSettled ==
    ASSUME NEW j, NEW r, NEW mgr, NEW g \in job_remove(j, r, mgr), Sound(j, r)
    PROVE  Settled(j, g)
<1>1. CASE ~r.p
  BY <1>1, DeleteSettled DEF job_remove, Sound
<1>2. CASE r.p /\ g = r
  BY <1>2 DEF Settled, Heard, job_active
<1>3. CASE r.p /\ g \in job_stop(j, [r EXCEPT !.pending = TRUE], mgr)
  <2>1. PICK u : u = [r EXCEPT !.pending = TRUE]
    OBVIOUS
  <2>2. Sound(j, u) /\ u.p
    BY <1>3, <2>1 DEF Sound, Core, Timely, Watched, Record, Fields
  <2>3. g \in job_stop(j, u, mgr)
    BY <1>3, <2>1
  <2>4. Sound(j, g) /\ g.p
    BY <2>2, <2>3, StopSound
  <2>5. QED
    BY <2>4 DEF Settled, Heard, job_active
<1>4. QED
  BY <1>1, <1>2, <1>3 DEF job_remove

(* A child that is forked, of a job that is not active. *)
LEMMA ForkedFields ==
    ASSUME NEW j, NEW r, NEW g, Record(r), g = Forked(r)
    PROVE  /\ Record(g) /\ g.p /\ g.proc = "forked" /\ ~g.stopped /\ ~g.workaround
           /\ ~g.didexec /\ ~g.crashed /\ g.loaded = r.loaded /\ g.ignored = r.ignored
           /\ g.isActive = r.isActive /\ g.hack = r.hack /\ g.respawn = r.respawn
           /\ g.death = r.death /\ g.asked = r.asked /\ g.right = r.right
           /\ g.inset = r.inset /\ g.poison = r.poison
  BY DEF Forked, Record, Fields

\* A child that is forked and dies before launchd attaches to it.
LEMMA ForkedAndDeadFields ==
    ASSUME NEW j, NEW r, NEW how, NEW g, Record(r), g = ForkedAndDead(r, how)
    PROVE  /\ Record(g) /\ g.p /\ g.proc = "forked" /\ ~g.stopped /\ ~g.workaround
           /\ ~g.didexec /\ g.loaded = r.loaded /\ g.ignored = r.ignored
           /\ g.isActive = r.isActive /\ g.hack = r.hack /\ g.respawn = r.respawn
           /\ g.death = how /\ g.asked = r.asked /\ g.right = r.right
           /\ g.inset = r.inset /\ (g.poison => r.poison \/ how = "crash")
<1>1. PICK u : u = Forked(r)
  OBVIOUS
<1>2. /\ Record(u) /\ u.p /\ u.proc = "forked" /\ ~u.stopped /\ ~u.workaround
      /\ ~u.didexec /\ u.loaded = r.loaded /\ u.ignored = r.ignored
      /\ u.isActive = r.isActive /\ u.hack = r.hack /\ u.respawn = r.respawn
      /\ u.asked = r.asked /\ u.right = r.right /\ u.inset = r.inset
      /\ u.poison = r.poison
  BY <1>1, ForkedFields
<1>3. g = [u EXCEPT !.death = how, !.poison = @ \/ (how = "crash" /\ r.mail > 0)]
  BY <1>1 DEF ForkedAndDead
<1>4. QED
  BY <1>2, <1>3 DEF Record, Fields

(* job_start. *)
LEMMA StartSettled ==
    ASSUME NEW j, NEW r, NEW faulty, NEW g \in job_start(j, r, faulty), Sound(j, r),
           r.loaded, Attributes(j)
    PROVE  Settled(j, g)
<1>1. CASE job_active(r) /\ g = r
  BY <1>1 DEF Settled, Heard
<1> DEFINE Idle == ~job_active(r)
<1>2. CASE Idle /\ (g = Throttled(r) \/ g = ForkFails(r))
  <2>1. PICK u : /\ u = [r EXCEPT !.respawn = "armed"] \/ u = [r EXCEPT !.respawn = "due"]
                 /\ g = job_ignore(u)
    BY <1>2 DEF Throttled, ForkFails
  <2>2. Sound(j, u) /\ u.respawn # "off"
    BY <2>1 DEF Sound, Core, Timely, Watched, Record, Fields
  <2>3. QED
    BY <2>1, <2>2, IgnoreSound DEF Settled, Heard
<1>3. CASE Idle /\ g = job_ignore(Forked(r))
  <2>1. PICK u : u = Forked(r)
    OBVIOUS
  <2>2. Core(j, r) /\ ~r.p
    BY <1>3 DEF Sound, job_active
  <2>3. Core(j, u) /\ u.p /\ ~u.workaround
    BY <2>1, <2>2, ForkedFields DEF Core
  <2>4. g = u \/ g = [u EXCEPT !.ignored = TRUE, !.inset = FALSE]
    BY <1>3, <2>1 DEF job_ignore
  <2>5. Core(j, g) /\ g.p
    BY <2>3, <2>4 DEF Core, Record, Fields
  <2>6. ASSUME ~SlowKill PROVE Timely(j, g) /\ Watched(j, g)
    <3>1. Timely(j, r) /\ ~r.isActive /\ ~r.poison /\ r.right \in {"launchd", "closed"}
      BY <1>3, <2>2, <2>6 DEF Sound, Core, Timely, job_active, Record
    <3>2. /\ ~u.isActive /\ ~u.poison /\ u.right = r.right /\ u.proc = "forked"
          /\ u.death = "none" /\ ~u.hack /\ u.inset = r.inset /\ u.ignored = r.ignored
      BY <2>1, <2>2, <3>1, ForkedFields DEF Core, Timely
    <3>3. g.ignored /\ ~g.inset
      BY <1>3, <2>1, <2>3, <3>1, <3>2 DEF job_ignore, Core, Timely, Record, Fields
    <3>4. QED
      BY <2>3, <2>4, <3>1, <3>2, <3>3 DEF Core, Timely, Watched, Record, Fields
  <2>7. QED
    BY <2>5, <2>6 DEF Settled, Sound, Heard, job_active
<1>4. CASE Idle /\ g \in KilledBeforeAttach(j, r) /\ Is(j, "early")
  <2> PICK how \in Deaths(j) : g = job_watch(job_reap(j, ForkedAndDead(r, how)))
    BY <1>4 DEF KilledBeforeAttach
  <2> how = "crash" => Is(j, "drain")
    BY DEF Deaths
  <2>1. PICK u : u = ForkedAndDead(r, how)
    OBVIOUS
  <2>2. PICK w : w = job_reap(j, u)
    OBVIOUS
  <2>3. Core(j, r) /\ ~r.p
    BY <1>4 DEF Sound, job_active
  <2>4. Record(u) /\ Reaped(j, u, w)
    BY <2>1, <2>2, <2>3, ForkedAndDeadFields, ReapLeaves DEF Core
  <2>5. /\ Core(j, w) /\ w.loaded /\ ~w.p /\ ~w.workaround /\ w.isActive = r.isActive
        /\ w.ignored = r.ignored
    BY <2>1, <2>3, <2>4, ForkedAndDeadFields DEF Reaped, Core, Attributes
  <2>6. CASE ~r.isActive
    <3>1. Sound(j, w)
      <4>1. ASSUME ~SlowKill PROVE Timely(j, w) /\ Watched(j, w)
        <5>1. Timely(j, r) /\ Watched(j, r) /\ ~r.poison
          BY <2>3, <2>6, <4>1 DEF Sound, Timely
        <5>2. QED
          BY <1>4, <2>1, <2>3, <2>4, <2>6, <5>1, ForkedAndDeadFields
             DEF Reaped, Core, Timely, Watched, ResetsEarly, Crashed
      <4>2. QED
        BY <2>5, <4>1 DEF Sound
    <3>2. QED
      BY <1>4, <2>1, <2>2, <2>5, <2>6, <3>1, WatchSettled DEF job_active
  <2>7. CASE SlowKill
    <3>1. PICK x : x = [w EXCEPT !.ignored = FALSE]
      OBVIOUS
    <3>2. Core(j, x) /\ x.loaded
      BY <2>5, <3>1 DEF Core, Record, Fields
    <3>3. g = w \/ g = machservice_watch(x)
      BY <1>4, <2>1, <2>2, <3>1 DEF job_watch
    <3>4. QED
      BY <2>5, <2>7, <3>2, <3>3, WatchService DEF Settled, Sound
  <2>8. ~SlowKill => ~r.isActive
    BY <1>4 DEF Sound, Timely, job_active
  <2>9. QED
    BY <2>6, <2>7, <2>8
<1>5. QED
  BY <1>1, <1>2, <1>3, <1>4 DEF job_start

(* job_dispatch: whatever it does, it leaves the job settled. *)
LEMMA DispatchSettled ==
    ASSUME NEW j, NEW r, NEW k, NEW mgr, NEW faulty,
           NEW g \in job_dispatch(j, r, k, mgr, faulty), Sound(j, r), r.loaded,
           Attributes(j)
    PROVE  Settled(j, g)
<1>1. CASE job_active(r) /\ g = r
  BY <1>1 DEF Settled, Heard
<1>2. CASE g \in job_remove(j, r, mgr)
  BY <1>2, RemoveSettled
<1>3. CASE g \in job_start(j, r, faulty)
  BY <1>3, StartSettled
<1>4. CASE ~job_active(r) /\ g = job_watch(r)
  BY <1>4, WatchSettled
<1>5. QED
  BY <1>1, <1>2, <1>3, <1>4 DEF job_dispatch

\* Whatever job_dispatch makes of a sound record is settled.
LEMMA OutcomeSettled ==
    ASSUME NEW j, NEW r, NEW k, NEW g \in JobOutcomes(j, r, k), Sound(j, r), r.loaded,
           Attributes(j)
    PROVE  Settled(j, g)
  BY DispatchSettled DEF JobOutcomes

-------------------------------------------------------------------------------
(* The events.  Traits do not change, and a step is sound when it leaves   *)
(* every record settled.                                                   *)
LEMMA AttributesKept ==
    ASSUME IInv, NEW j \in Jobs
    PROVE  Attributes(j)
  BY LaunchdJobAssumption DEF IInv, Attributes, Is

\* A step that settles every record keeps the invariant.
LEMMA AllSettled ==
    ASSUME IInv, UNCHANGED kind, DOMAIN job' = Jobs, jm' \in {"up", "shutting", "gone"},
           \A j \in Jobs : Settled(j, job'[j])
    PROVE  IInv'
<1>1. ASSUME NEW j \in Jobs PROVE Settled(j, job[j])'
  BY DEF Settled, Sound, Core, Timely, Watched, Heard, ResetsEarly, Is
<1>2. QED
  BY <1>1 DEF IInv

\* A step that changes one record and settles it keeps the invariant.
LEMMA OneSettled ==
    ASSUME IInv, UNCHANGED <<kind, jm>>, NEW j \in Jobs, NEW g, Settled(j, g),
           job' = [job EXCEPT ![j] = g]
    PROVE  IInv'
<1>1. DOMAIN job' = Jobs /\ \A i \in Jobs : Settled(i, job'[i])
  BY DEF IInv
<1>2. QED
  BY <1>1, AllSettled DEF IInv

(* What a garbage collection makes of settled records. *)
LEMMA CollectSettled ==
    ASSUME IInv, UNCHANGED kind, NEW f, NEW mgr \in {"up", "shutting", "gone"},
           DOMAIN f = Jobs, \A j \in Jobs : Settled(j, f[j]),
           jobmgr_do_garbage_collection(f, mgr)
    PROVE  IInv'
<1>1. CASE mgr # "shutting"
  BY <1>1, AllSettled DEF jobmgr_do_garbage_collection
<1>2. CASE mgr = "shutting"
  <2>1. DOMAIN job' = Jobs /\ \A j \in Jobs : job'[j] \in Collected(j, f[j])
    BY <1>2 DEF jobmgr_do_garbage_collection, Each
  <2>2. ASSUME NEW j \in Jobs, NEW g \in Collected(j, f[j]) PROVE Settled(j, g)
    BY <2>2, StopSettled, RemoveSettled DEF Collected, Settled
  <2>3. jm' \in {"up", "shutting", "gone"}
    BY <1>2 DEF jobmgr_do_garbage_collection
  <2>4. QED
    BY <2>1, <2>2, <2>3, AllSettled
<1>3. QED
  BY <1>1, <1>2

(* An event that dispatches one job and collects garbage. *)
LEMMA CollectOne ==
    ASSUME IInv, UNCHANGED kind, NEW j \in Jobs, NEW g, Settled(j, g),
           jobmgr_do_garbage_collection([job EXCEPT ![j] = g], jm)
    PROVE  IInv'
<1>1. PICK f : f = [job EXCEPT ![j] = g]
  OBVIOUS
<1>2. DOMAIN f = Jobs /\ \A i \in Jobs : Settled(i, f[i])
  BY <1>1 DEF IInv
<1>3. QED
  BY <1>1, <1>2, CollectSettled DEF IInv

(* The right comes back to a job that is loaded. *)
LEMMA ReturnSound ==
    ASSUME NEW j, NEW r, NEW g, Sound(j, r), r.loaded, r.right = "returning",
           g = Returned(j, r)
    PROVE  Sound(j, g) /\ g.loaded
<1>1. Core(j, r) /\ Record(r) /\ r.isActive /\ Is(j, "service")
  BY DEF Sound, Core
<1>2. PICK d : d = IF Is(j, "drain") /\ r.crashed THEN machservice_drain_port(r) ELSE r
  OBVIOUS
<1>3. /\ Record(d) /\ d.loaded = r.loaded /\ d.p = r.p /\ d.proc = r.proc
      /\ d.asked = r.asked /\ d.respawn = r.respawn /\ d.death = r.death
      /\ d.ignored = r.ignored /\ d.inset = r.inset /\ d.workaround = r.workaround
      /\ d.hack = r.hack /\ d.stopped = r.stopped
      /\ d.poison => r.poison /\ ~(Is(j, "drain") /\ r.crashed)
  <2>1. CASE Is(j, "drain") /\ r.crashed
    <3>1. d = [r EXCEPT !.mail = 0, !.poison = FALSE]
      BY <1>2, <2>1 DEF machservice_drain_port
    <3>2. QED
      BY <1>1, <3>1 DEF Record, Fields
  <2>2. CASE ~(Is(j, "drain") /\ r.crashed)
    BY <1>1, <1>2, <2>2
  <2>3. QED
    BY <2>1, <2>2
<1>4. PICK h : h = [d EXCEPT !.isActive = FALSE, !.right = "launchd"]
  OBVIOUS
<1>5. /\ Record(h) /\ h.loaded = r.loaded /\ h.p = r.p /\ h.proc = r.proc
      /\ h.asked = r.asked /\ h.respawn = r.respawn /\ h.death = r.death
      /\ h.ignored = r.ignored /\ h.inset = r.inset /\ h.workaround = r.workaround
      /\ h.hack = r.hack /\ h.stopped = r.stopped
      /\ h.poison => r.poison /\ ~(Is(j, "drain") /\ r.crashed)
      /\ ~h.isActive /\ h.right = "launchd"
  BY <1>3, <1>4 DEF Record, Fields
<1>6. g = h \/ g = [h EXCEPT !.right = "launchd", !.inset = FALSE, !.mail = 0, !.poison = FALSE]
  BY <1>2, <1>4 DEF Returned, machservice_resetport
<1>7. /\ Record(g) /\ g.loaded = r.loaded /\ g.p = r.p /\ g.proc = r.proc
      /\ g.asked = r.asked /\ g.respawn = r.respawn /\ g.death = r.death
      /\ g.ignored = r.ignored /\ (g.inset => r.inset) /\ g.workaround = r.workaround
      /\ g.hack = r.hack /\ g.stopped = r.stopped
      /\ g.poison => r.poison /\ ~(Is(j, "drain") /\ r.crashed)
      /\ ~g.isActive /\ g.right = "launchd"
  <2>1. CASE g = h
    BY <1>5, <2>1
  <2>2. CASE g = [h EXCEPT !.right = "launchd", !.inset = FALSE, !.mail = 0, !.poison = FALSE]
    <3>1. DOMAIN h = Fields
      BY <1>5 DEF Record
    <3>2. /\ DOMAIN g = Fields /\ g.right = "launchd" /\ ~g.inset /\ ~g.poison
          /\ g.loaded = h.loaded /\ g.p = h.p /\ g.proc = h.proc /\ g.asked = h.asked
          /\ g.respawn = h.respawn /\ g.death = h.death /\ g.ignored = h.ignored
          /\ g.workaround = h.workaround /\ g.hack = h.hack /\ g.stopped = h.stopped
          /\ g.isActive = h.isActive
      BY <2>2, <3>1 DEF Fields
    <3>3. QED
      BY <1>5, <3>2 DEF Record
  <2>3. QED
    BY <1>6, <2>1, <2>2
<1>8. Core(j, g)
  BY <1>1, <1>7 DEF Core
<1>9. ASSUME ~SlowKill PROVE Timely(j, g) /\ Watched(j, g)
  BY <1>1, <1>7, <1>9 DEF Sound, Timely, Watched
<1>10. QED
  BY <1>7, <1>8, <1>9 DEF Sound

(* The race hack watches a port; it is needed only after a simulated exit. *)
LEMMA HackSettled ==
    ASSUME NEW j, NEW g, Settled(j, g)
    PROVE  Settled(j, AfterHack(g))
<1>1. CASE g.loaded /\ g.hack
  <2>1. SlowKill
    BY <1>1 DEF Settled, Sound, Timely
  <2>2. PICK u : u = [g EXCEPT !.hack = FALSE]
    OBVIOUS
  <2>3. Core(j, u) /\ u.loaded
    BY <1>1, <2>2 DEF Settled, Sound, Core, Record, Fields
  <2>4. QED
    BY <1>1, <2>1, <2>2, <2>3, WatchService DEF AfterHack, Settled, Sound
<1>2. CASE ~(g.loaded /\ g.hack)
  BY <1>2 DEF AfterHack
<1>3. QED
  BY <1>1, <1>2

(* The events of launchd. *)
LEMMA EventStep ==
    ASSUME IInv, UNCHANGED kind, NEW j \in Jobs, Event(j)
    PROVE  IInv'
<1> DEFINE r == job[j]
<1>1. Settled(j, r) /\ Sound(j, r) /\ Core(j, r) /\ Attributes(j)
  BY AttributesKept DEF IInv, Settled, Sound
<1> HIDE DEF r
<1>2. CASE job_callback_proc(j)
  <2>1. r.p
    BY <1>2 DEF job_callback_proc, r
  <2>2. PICK g \in JobOutcomes(j, job_reap(j, r), FALSE) :
          jobmgr_do_garbage_collection([job EXCEPT ![j] = g], jm)
    BY <1>2 DEF job_callback_proc, r
  <2>3. Settled(j, g)
    BY <1>1, <2>1, <2>2, ReapSound, OutcomeSettled
  <2>4. QED
    BY <2>2, <2>3, CollectOne
<1>3. CASE mportset_callback(j)
  <2>1. r.loaded
    BY <1>1, <1>3 DEF mportset_callback, Core, r
  <2>2. PICK g \in JobOutcomes(j, r, TRUE) :
          job' = [job EXCEPT ![j] = g] /\ UNCHANGED jm
    BY <1>3 DEF mportset_callback, Dispatch, r
  <2>3. QED
    BY <1>1, <2>1, <2>2, OutcomeSettled, OneSettled
<1>4. CASE RespawnTimer(j)
  <2>1. r.respawn = "due" /\ r.loaded
    BY <1>1, <1>4 DEF RespawnTimer, Core, r
  <2>2. PICK u : u = [r EXCEPT !.respawn = "off"]
    OBVIOUS
  <2>3. Sound(j, u) /\ u.loaded
    BY <1>1, <2>1, <2>2 DEF Sound, Core, Timely, Watched, Record, Fields
  <2>4. PICK g \in JobOutcomes(j, u, TRUE) :
          job' = [job EXCEPT ![j] = g] /\ UNCHANGED jm
    BY <1>4, <2>2 DEF RespawnTimer, Dispatch, r
  <2>5. QED
    BY <1>1, <2>3, <2>4, OutcomeSettled, OneSettled
<1>5. CASE ExitTimer(j)
  <2> DEFINE u == [r EXCEPT !.exitTimer = FALSE]
             v == [u EXCEPT !.workaround = TRUE]
  <2>1. \/ /\ u.p /\ ~u.sentkill /\ job' = [job EXCEPT ![j] = job_kill(u)]
           /\ UNCHANGED jm
        \/ ~u.p /\ job' = [job EXCEPT ![j] = u] /\ UNCHANGED jm
        \/ /\ u.p /\ u.sentkill /\ (SlowKill \/ jm = "shutting")
           /\ \E g \in JobOutcomes(j, job_reap(j, v), FALSE) :
                jobmgr_do_garbage_collection([job EXCEPT ![j] = g], jm)
    BY <1>5 DEF ExitTimer, r
  <2>2. r.p = u.p
    BY <1>1 DEF Core, Record, Fields
  <2>3. CASE /\ u.p /\ job' = [job EXCEPT ![j] = job_kill(u)]
             /\ UNCHANGED jm
    <3>1. PICK g : g = [r EXCEPT !.exitTimer = FALSE, !.sentkill = TRUE, !.exitTimer = TRUE]
      OBVIOUS
    <3>2. g = job_kill(u)
      BY <3>1 DEF job_kill
    <3>3. Settled(j, g)
      BY <1>1, <2>2, <2>3, <3>1
         DEF Settled, Sound, Core, Timely, Watched, Heard, job_active, Record, Fields
    <3>4. QED
      BY <2>3, <3>2, <3>3, OneSettled
  <2>4. CASE /\ u.p /\ (SlowKill \/ jm = "shutting")
             /\ \E g \in JobOutcomes(j, job_reap(j, v), FALSE) :
                  jobmgr_do_garbage_collection([job EXCEPT ![j] = g], jm)
    <3>1. PICK g \in JobOutcomes(j, job_reap(j, v), FALSE) :
            jobmgr_do_garbage_collection([job EXCEPT ![j] = g], jm)
      BY <2>4
    <3>2. PICK x : x = v
      OBVIOUS
    <3>3. Core(j, x) /\ x.workaround /\ x.p /\ x.loaded
      BY <1>1, <2>2, <2>4, <3>2 DEF Core, Record, Fields
    <3>4. PICK w : w = job_reap(j, x)
      OBVIOUS
    <3>5. Reaped(j, x, w)
      BY <3>3, <3>4, ReapLeaves DEF Core
    <3>6. Core(j, w) /\ w.loaded /\ ~w.p /\ w.workaround
      BY <1>1, <3>3, <3>5 DEF Reaped, Core, Attributes
    <3>7. g \in JobOutcomes(j, w, FALSE)
      BY <3>1, <3>2, <3>4
    <3>8. CASE SlowKill
      BY <1>1, <3>1, <3>6, <3>7, <3>8, OutcomeSettled, CollectOne DEF Sound
    <3>9. CASE jm = "shutting"
      <4>1. g = job_delete(j, w)
        BY <3>6, <3>7, <3>9
           DEF JobOutcomes, job_dispatch, job_active, job_useless, job_remove
      <4>2. QED
        BY <3>1, <3>6, <4>1, DeleteSettled, CollectOne
    <3>10. QED
      BY <2>4, <3>8, <3>9
  <2>5. CASE ~u.p /\ job' = [job EXCEPT ![j] = u] /\ UNCHANGED jm
    <3>1. PICK g : g = u
      OBVIOUS
    <3>2. Settled(j, g)
      BY <1>1, <3>1
         DEF Settled, Sound, Core, Timely, Watched, Heard, job_active, Record, Fields
    <3>3. QED
      BY <2>5, <3>1, <3>2, OneSettled
  <2>6. QED
    BY <2>1, <2>3, <2>4, <2>5
<1>6. CASE job_ack_port_destruction(j)
  <2>1. CASE /\ ~r.loaded /\ r.right = "returning"
             /\ job' = [job EXCEPT ![j].right = "closed"] /\ UNCHANGED jm
    <3>1. PICK g : g = [r EXCEPT !.right = "closed"]
      OBVIOUS
    <3>2. Settled(j, g)
      BY <1>1, <2>1, <3>1
         DEF Settled, Sound, Core, Timely, Watched, Heard, job_active, Record, Fields
    <3>3. job' = [job EXCEPT ![j] = g]
      BY <2>1, <3>1 DEF r
    <3>4. QED
      BY <2>1, <3>2, <3>3, OneSettled
  <2>2. CASE /\ r.loaded /\ r.right = "returning"
             /\ \E g \in JobOutcomes(j, Returned(j, r), FALSE) :
                  jobmgr_do_garbage_collection([job EXCEPT ![j] = AfterHack(g)], jm)
    <3>1. PICK g \in JobOutcomes(j, Returned(j, r), FALSE) :
            jobmgr_do_garbage_collection([job EXCEPT ![j] = AfterHack(g)], jm)
      BY <2>2
    <3>2. PICK w : w = Returned(j, r)
      OBVIOUS
    <3>3. Sound(j, w) /\ w.loaded
      BY <1>1, <2>2, <3>2, ReturnSound
    <3>4. Settled(j, g)
      BY <1>1, <3>1, <3>2, <3>3, OutcomeSettled
    <3>5. Settled(j, AfterHack(g))
      BY <3>4, HackSettled
    <3>6. QED
      BY <3>1, <3>5, CollectOne
  <2>3. QED
    BY <1>6, <2>1, <2>2 DEF job_ack_port_destruction, r
<1>7. CASE job_mig_check_in2(j)
  <2>1. r.asked /\ UNCHANGED jm
    BY <1>7 DEF job_mig_check_in2, r
  <2>2. PICK g : /\ g = (IF r.isActive THEN [r EXCEPT !.asked = FALSE]
                         ELSE [r EXCEPT !.asked = FALSE, !.isActive = TRUE, !.inset = FALSE,
                                 !.right = IF r.proc = "zombie" THEN "returning" ELSE "server"])
                 /\ job' = [job EXCEPT ![j] = g]
    BY <1>7 DEF job_mig_check_in2, r
  <2>3. Settled(j, g)
    <3>1. CASE r.isActive
      BY <1>1, <2>1, <2>2, <3>1
         DEF Settled, Sound, Core, Timely, Watched, Heard, job_active, Record, Fields
    <3>2. CASE ~r.isActive
      BY <1>1, <2>1, <2>2, <3>2
         DEF Settled, Sound, Core, Timely, Watched, Heard, job_active, Record, Fields
    <3>3. QED
      BY <3>1, <3>2
  <2>4. QED
    BY <2>1, <2>2, <2>3, OneSettled
<1>8. QED
  BY <1>2, <1>3, <1>4, <1>5, <1>6, <1>7 DEF Event

(* The requests of operators. *)
LEMMA OperatorStep ==
    ASSUME IInv, UNCHANGED kind, NEW j \in Jobs, Operator(j)
    PROVE  IInv'
<1>1. Settled(j, job[j]) /\ Sound(j, job[j]) /\ Attributes(j) /\ job[j].loaded
  BY AttributesKept DEF IInv, Settled, Operator, StartJob, StopJob, RemoveJob, Request
<1>2. CASE StartJob(j)
  BY <1>1, <1>2, OutcomeSettled, OneSettled DEF StartJob, Dispatch
<1>3. CASE StopJob(j)
  BY <1>1, <1>3, StopSettled, OneSettled DEF StopJob
<1>4. CASE RemoveJob(j)
  BY <1>1, <1>4, RemoveSettled, OneSettled DEF RemoveJob
<1>5. QED
  BY <1>2, <1>3, <1>4 DEF Operator

(* What a process does, and what becomes of it. *)
LEMMA DeadSettled ==
    ASSUME NEW j, NEW r, NEW how, NEW g, Settled(j, r), r.p,
           how = "crash" => Is(j, "drain"), g = Dead(r, how)
    PROVE  Settled(j, g)
<1>1. /\ Record(g) /\ g.p = r.p /\ g.loaded = r.loaded /\ g.isActive = r.isActive
      /\ g.right = (IF r.right = "server" THEN "returning" ELSE r.right)
      /\ g.inset = r.inset /\ g.respawn = r.respawn /\ g.workaround = r.workaround
      /\ g.hack = r.hack /\ g.proc = "zombie" /\ g.asked = r.asked /\ g.death = how
      /\ g.ignored = r.ignored /\ g.stopped = r.stopped
      /\ g.poison => how = "crash" /\ ~r.stopped
  BY DEF Dead, Settled, Sound, Core, Record, Fields
<1>2. Core(j, g)
  BY <1>1 DEF Settled, Sound, Core
<1>3. ASSUME ~SlowKill PROVE Timely(j, g) /\ Watched(j, g)
  BY <1>1, <1>3 DEF Settled, Sound, Core, Timely, Watched
<1>4. QED
  BY <1>1, <1>2, <1>3 DEF Settled, Sound, Heard, job_active

\* The steps of the process: exec, crash, exit, the passing of time.
LEMMA ChildStep ==
    ASSUME IInv, UNCHANGED kind, NEW j \in Jobs, Child(j)
    PROVE  IInv'
<1> DEFINE r == job[j]
<1>1. Settled(j, r) /\ Core(j, r)
  BY DEF IInv, Settled, Sound
<1> HIDE DEF r
<1> USE DEF Becomes
<1>2. CASE Send(j)
  <2>1. PICK g : g = [r EXCEPT !.mail = @ + 1] /\ job' = [job EXCEPT ![j] = g]
    BY <1>2 DEF Send, r
  <2>2. Settled(j, g)
    BY <1>1, <2>1 DEF Settled, Sound, Core, Timely, Watched, Heard, job_active, Record, Fields
  <2>3. QED
    BY <1>2, <2>1, <2>2, OneSettled DEF Send
<1>3. CASE Exec(j)
  <2>1. PICK g : /\ g = [r EXCEPT !.proc = "running", !.didexec = TRUE]
                 /\ job' = [job EXCEPT ![j] = g] /\ r.proc = "forked"
    BY <1>3 DEF Exec, r
  <2>2. Settled(j, g)
    BY <1>1, <2>1 DEF Settled, Sound, Core, Timely, Watched, Heard, job_active, Record, Fields
  <2>3. QED
    BY <1>3, <2>1, <2>2, OneSettled DEF Exec
<1>4. CASE Ask(j)
  <2>1. PICK g : /\ g = [r EXCEPT !.asked = TRUE]
                 /\ job' = [job EXCEPT ![j] = g]
                 /\ Is(j, "service") /\ r.proc = "running"
    BY <1>4 DEF Ask, r
  <2>2. Settled(j, g)
    BY <1>1, <2>1 DEF Settled, Sound, Core, Timely, Watched, Heard, job_active, Record, Fields
  <2>3. QED
    BY <1>4, <2>1, <2>2, OneSettled DEF Ask
<1>5. CASE Receive(j)
  <2>1. PICK g : /\ g = [r EXCEPT !.mail = @ - 1, !.poison = FALSE]
                 /\ job' = [job EXCEPT ![j] = g]
    BY <1>5 DEF Receive, r
  <2>2. Settled(j, g)
    BY <1>1, <2>1 DEF Settled, Sound, Core, Timely, Watched, Heard, job_active, Record, Fields
  <2>3. QED
    BY <1>5, <2>1, <2>2, OneSettled DEF Receive
<1>6. CASE Exits(j) \/ ExecFails(j) \/ Killed(j) \/ Unsticks(j)
  <2>1. PICK how : /\ r.proc # "none" /\ (how = "crash" => Is(j, "drain"))
                   /\ job' = [job EXCEPT ![j] = Dead(r, how)] /\ UNCHANGED jm
    BY <1>6 DEF Exits, ExecFails, Killed, Unsticks, Deaths, r
  <2>2. Settled(j, Dead(r, how))
    BY <1>1, <2>1, DeadSettled DEF Core
  <2>3. QED
    BY <2>1, <2>2, OneSettled
<1>7. CASE Sticks(j)
  <2>1. PICK g : /\ g = [r EXCEPT !.proc = "stuck"]
                 /\ job' = [job EXCEPT ![j] = g] /\ r.proc = "running"
    BY <1>7 DEF Sticks, r
  <2>2. Settled(j, g)
    BY <1>1, <2>1 DEF Settled, Sound, Core, Timely, Watched, Heard, job_active, Record, Fields
  <2>3. QED
    BY <1>7, <2>1, <2>2, OneSettled DEF Sticks
<1>8. CASE GhostDies(j)
  <2>1. PICK g : /\ g = [r EXCEPT !.right = "returning"]
                 /\ job' = [job EXCEPT ![j] = g] /\ r.right = "ghost"
    BY <1>8 DEF GhostDies, r
  <2>2. Settled(j, g)
    BY <1>1, <2>1 DEF Settled, Sound, Core, Timely, Watched, Heard, job_active, Record, Fields
  <2>3. QED
    BY <1>8, <2>1, <2>2, OneSettled DEF GhostDies
<1>9. CASE Mature(j)
  <2>1. PICK g : /\ g = [r EXCEPT !.young = FALSE,
                           !.respawn = IF @ = "armed" THEN "due" ELSE @]
                 /\ job' = [job EXCEPT ![j] = g]
    BY <1>9 DEF Mature, r
  <2>2. Settled(j, g)
    BY <1>1, <2>1 DEF Settled, Sound, Core, Timely, Watched, Heard, job_active, Record, Fields
  <2>3. QED
    BY <1>9, <2>1, <2>2, OneSettled DEF Mature
<1>10. QED
  BY <1>2, <1>3, <1>4, <1>5, <1>6, <1>7, <1>8, <1>9 DEF Child

-------------------------------------------------------------------------------
(* The invariant holds of every state launchd reaches. *)
LEMMA LaunchdInductive == Spec => []IInv
<1>1. Init => IInv
  <2> SUFFICES ASSUME Init PROVE IInv
    OBVIOUS
  <2>1. /\ DOMAIN kind = Jobs /\ \A j \in Jobs : kind[j] \in KindsOf(j)
        /\ DOMAIN job = Jobs
        /\ \A j \in Jobs : job[j] \in job_dispatch(j, job_new(j), FALSE, "up", FALSE)
    BY DEF Init, Each
  <2>2. kind \in [Jobs -> SUBSET Traits]
    BY LaunchdJobAssumption DEF Init, Each
  <2>3. ASSUME NEW j \in Jobs PROVE Settled(j, job[j])
    <3>1. Attributes(j)
      BY <2>1, LaunchdJobAssumption DEF Attributes, Is
    <3>2. PICK r : r = job_new(j)
      OBVIOUS
    <3>3. Core(j, r) /\ Timely(j, r) /\ Watched(j, r) /\ r.loaded
      BY <3>2 DEF job_new, Core, Timely, Watched, Record, Fields
    <3>4. QED
      BY <2>1, <3>1, <3>2, <3>3, DispatchSettled DEF Sound
  <2>4. QED
    BY <2>1, <2>2, <2>3 DEF IInv, Init
<1>2. IInv /\ [Next]_vars => IInv'
  <2> SUFFICES ASSUME IInv, [Next]_vars PROVE IInv'
    OBVIOUS
  <2>1. ASSUME NEW j \in Jobs, UNCHANGED kind, Event(j) \/ Operator(j) \/ Child(j)
        PROVE  IInv'
    BY <2>1, EventStep, OperatorStep, ChildStep
  <2>2. CASE ClientExits /\ UNCHANGED kind
    BY <2>2, CollectSettled DEF ClientExits, IInv
  <2>3. CASE launchd_shutdown /\ UNCHANGED kind
    BY <2>3, CollectSettled DEF launchd_shutdown, IInv
  <2>4. CASE UNCHANGED vars
    BY <2>4, AllSettled DEF vars, IInv
  <2>5. QED
    BY <2>1, <2>2, <2>3, <2>4 DEF Next
<1>3. QED
  BY <1>1, <1>2, PTL DEF Spec

(* Whatever launchd does with a job, and however late it learns that a     *)
(* process is gone, a service is active just while its receive right is    *)
(* out, and of a removed job launchd keeps no right (machservice_delete).  *)
THEOREM LaunchdRights == Spec => []RightsAccounted
<1>1. IInv => RightsAccounted
  BY DEF IInv, Settled, Sound, Core, Record, RightsAccounted
<1>2. QED
  BY <1>1, LaunchdInductive, PTL

(* Unless launchd gives up on a process outside a shutdown, a process is   *)
(* forked only when launchd has the receive right again (job_active).      *)
THEOREM LaunchdOneInstance ==
    ASSUME ~SlowKill
    PROVE  Spec => []OneInstance
<1>1. IInv => OneInstance
  BY DEF IInv, Settled, Sound, Timely, OneInstance
<1>2. QED
  BY <1>1, LaunchdInductive, PTL

(* Unless launchd gives up on a process outside a shutdown, a port is in   *)
(* the demand set only while its job is inactive (job_watch, job_ignore).  *)
THEOREM LaunchdDemandSet ==
    ASSUME ~SlowKill
    PROVE  Spec => []DemandSetIdle
<1>1. IInv => DemandSetIdle
  BY DEF IInv, Settled, Sound, Timely, DemandSetIdle, job_active
<1>2. QED
  BY <1>1, LaunchdInductive, PTL

(* Unless launchd gives up on a process outside a shutdown, the mail that  *)
(* was queued at a crash is drained before the successor is started, by    *)
(* job_reap or by job_ack_port_destruction, whichever comes second.        *)
THEOREM LaunchdCrashDrained ==
    ASSUME ~SlowKill
    PROVE  Spec => []CrashDrained
<1>1. IInv => CrashDrained
  BY DEF IInv, Settled, Sound, Timely, CrashDrained
<1>2. QED
  BY <1>1, LaunchdInductive, PTL

(* When moreover no service that resets its port has a process that may be *)
(* killed before launchd attaches to it, launchd never loses sight of a    *)
(* job it may start: the port is watched or a timer is set.                *)
THEOREM LaunchdNeverDeaf ==
    ASSUME ~SlowKill,
           \A j \in Jobs : \A k \in KindsOf(j) : ~("reset" \in k /\ "early" \in k)
    PROVE  Spec => []NeverDeaf
<1>1. IInv => NeverDeaf
  BY DEF IInv, Settled, Heard, ResetsEarly, Is, NeverDeaf
<1>2. QED
  BY <1>1, LaunchdInductive, PTL
===============================================================================
