--------------------------- MODULE ShellspawnProofs ---------------------------
(***************************************************************************)
(* The safety invariants of Shellspawn, for any number of launchers, slots  *)
(* and signals.  A launcher is followed through the daemon: it waits in the *)
(* backlog, is served by start_spawn, has a slot, is reaped; what the       *)
(* daemon has written to it goes with where it is.                          *)
(***************************************************************************)
EXTENDS Shellspawn, Integers, SequenceTheorems, WellFoundedInduction, TLAPS

\* The functions have their domains and ranges.
Types ==
  /\ lst \in [Launchers -> {"idle", "sending", "waiting", "started", "exited", "dead"}]
  /\ DOMAIN result = Launchers /\ DOMAIN wstatus = Launchers
  /\ got \in [Launchers -> Nat]
  /\ down \in [Launchers -> Seq({"started", "0", "2"})]
  /\ tgt \in [Launchers -> {"none", "forked", "running", "failed", "zombie", "reaped"}]
  /\ g_spawns \in [Slots -> Launchers \cup {NoLauncher}]
  /\ reads \in [Launchers -> Nat] /\ exits \in [Launchers -> Nat]
  /\ backlog \in Seq(Launchers)

-----------------------------------------------------------------------------
(* Where a launcher is. *)

Queued(l) == \E i \in 1..Len(backlog) : backlog[i] = l

\* start_spawn works for l: before the fork, from the fork to the exec, and from
\* the fork to the registration.
Serving(l) == dpc.at = "commands" /\ dpc.l = l
Execing(l) == dpc.at = "exec" /\ dpc.l = l
Forked(l) == dpc.at \in {"exec", "register"} /\ dpc.l = l

\* Nobody is in the backlog twice.
Backlog == \A i, k \in 1..Len(backlog) : backlog[i] = backlog[k] => i = k

\* A launcher connects once and is served once, in this order.
Place(l) ==
  /\ Queued(l) => ~Serving(l) /\ ~Forked(l)
  /\ Queued(l) \/ Serving(l) => tgt[l] = "none" /\ lst[l] # "idle"
  /\ lst[l] = "idle" => tgt[l] = "none"
  /\ tgt[l] = "none" => l \notin orphans
  /\ Forked(l) => l \notin orphans /\ tgt[l] \notin {"none", "reaped"}

\* It has neither slot nor filters, or it has one slot and both filters on it.
Unattended(l) == reads[l] = 0 /\ exits[l] = 0 /\ \A s \in Slots : g_spawns[s] # l

OwnSlot(l) ==
  /\ reads[l] \in Slots /\ exits[l] = reads[l]
  /\ \A s \in Slots : g_spawns[s] = l <=> s = reads[l]

Away(l) == tgt[l] \in {"none", "reaped"} \/ l \in orphans

Slotted(l) == IF Away(l) \/ Forked(l) THEN Unattended(l) ELSE OwnSlot(l)

-----------------------------------------------------------------------------
(* What the daemon wrote to it, and what it made of that. *)

\* Nothing before the exec is known, then "started", then the code of its target.
Written(l) ==
  /\ Len(down[l]) <= 2
  /\ Len(down[l]) > 0 => down[l][1] = "started"
  /\ Len(down[l]) = 2 => tgt[l] = "reaped" /\ down[l][2] = WEXITSTATUS(wstatus[l])
  /\ tgt[l] = "none" \/ Execing(l) => Len(down[l]) = 0
  /\ ~Away(l) /\ ~Execing(l) => Len(down[l]) = 1

Read(l) ==
  /\ got[l] <= Len(down[l])
  /\ lst[l] \in {"idle", "sending", "waiting"} => got[l] = 0
  /\ lst[l] = "started" => got[l] = 1
  /\ got[l] = 2 => lst[l] = "exited" /\ result[l] = down[l][2]

Followed(l) == Place(l) /\ Slotted(l) /\ Written(l) /\ Read(l)

IInv == Types /\ Backlog /\ \A l \in Launchers : Followed(l)

-----------------------------------------------------------------------------
\* A non-empty set of numbers has a least one.
LEMMA Least ==
  ASSUME NEW T, T \subseteq Nat, T # {}
  PROVE  \E x \in T : \A y \in T : x <= y
<1> DEFINE R == {ss \in Nat \X Nat : ss[1] < ss[2]}
<1>1. IsWellFoundedOn(R, Nat)
  BY NatLessThanWellFounded DEF OpToRel
<1>2. \A x, y \in Nat : y < x => <<y, x>> \in R
  OBVIOUS
<1> HIDE DEF R
<1>3. PICK x \in T : \A y \in T : ~ (<<y, x>> \in R)
  BY <1>1, WFMin
<1>4. ASSUME NEW y \in T PROVE x <= y
  <2>1. ~(y < x)
    BY <1>2, <1>3
  <2>2. QED
    BY <2>1
<1>5. QED
  BY <1>4

\* spawn_slot finds a free slot when there is one.
LEMMA SlotFound ==
  ASSUME Free # {}
  PROVE  spawn_slot \in Free
<1>1. Free \subseteq Nat
  BY ShellspawnAssumption DEF Free, Slots
<1>2. QED
  BY <1>1, Least DEF spawn_slot

-----------------------------------------------------------------------------
(* Frames: what a step leaves alone. *)

\* The step is not about k: nothing of k changes, nor is it moved.
Untouched(k) ==
  /\ lst'[k] = lst[k] /\ result'[k] = result[k] /\ got'[k] = got[k] /\ down'[k] = down[k]
  /\ tgt'[k] = tgt[k] /\ wstatus'[k] = wstatus[k] /\ (k \in orphans' <=> k \in orphans)
  /\ reads'[k] = reads[k] /\ exits'[k] = exits[k]
  /\ \A s \in Slots : g_spawns'[s] = k <=> g_spawns[s] = k
  /\ Queued(k)' => Queued(k)
  /\ (Serving(k)' => Serving(k)) /\ (Execing(k)' <=> Execing(k)) /\ (Forked(k)' <=> Forked(k))

\* What a step leaves untouched is followed as before.
LEMMA UntouchedKeeps ==
  ASSUME NEW k \in Launchers, Followed(k), Untouched(k)
  PROVE  Followed(k)'
<1>1. Place(k)'
  BY DEF Untouched, Followed, Place
<1>2. Away(k)' <=> Away(k)
  BY DEF Untouched, Away
<1>3. Slotted(k)'
  BY <1>2 DEF Untouched, Followed, Slotted, Unattended, OwnSlot
<1>4. Written(k)'
  BY <1>2 DEF Untouched, Followed, Written
<1>5. Read(k)'
  BY DEF Untouched, Followed, Read
<1>6. QED
  BY <1>1, <1>3, <1>4, <1>5 DEF Followed

\* The daemon crashes: nobody is attended any more, and the targets that live are
\* orphans.
LEMMA CrashKeeps ==
  ASSUME IInv, Crash, UNCHANGED lvars
  PROVE  IInv'
<1>1. /\ dpc'.at = "crashed" /\ backlog' = <<>> /\ Len(backlog') = 0
      /\ UNCHANGED <<lst, result, got, down, tgt, wstatus>>
      /\ g_spawns' = [s \in Slots |-> NoLauncher]
      /\ reads' = [k \in Launchers |-> 0] /\ exits' = [k \in Launchers |-> 0]
      /\ \A k \in Launchers : k \in orphans' <=> k \in orphans \/ tgt[k] \notin {"none", "reaped"}
  BY DEF Crash, lvars
<1>2. Types'
  BY <1>1 DEF IInv, Types
<1>3. Backlog'
  BY <1>1 DEF Backlog
<1>4. ASSUME NEW k \in Launchers PROVE Followed(k)'
  <2>1. ~Queued(k)' /\ ~Serving(k)' /\ ~Forked(k)' /\ ~Execing(k)' /\ Away(k)'
    BY <1>1 DEF Queued, Serving, Forked, Execing, Away
  <2>2. Followed(k)
    BY DEF IInv
  <2>3. Place(k)'
    BY <1>1, <2>1, <2>2 DEF Followed, Place
  <2>4. Slotted(k)'
    BY <1>1, <2>1, ShellspawnAssumption DEF Slotted, Unattended
  <2>5. Written(k)' /\ Read(k)'
    BY <1>1, <2>1, <2>2 DEF Followed, Written, Read
  <2>6. QED
    BY <2>3, <2>4, <2>5 DEF Followed
<1>5. QED
  BY <1>2, <1>3, <1>4 DEF IInv

\* A target is reaped that has no slot yet.
LEMMA ReapKeeps ==
  ASSUME IInv, NEW l \in Launchers, Forked(l), Reap(l), dpc' = Loop,
         UNCHANGED <<lvars, down, backlog, g_spawns, reads, exits>>
  PROVE  IInv'
<1>1. /\ dpc'.at = "loop" /\ tgt' = [tgt EXCEPT ![l] = "reaped"]
      /\ UNCHANGED <<lst, result, got, down, backlog, g_spawns, reads, exits, wstatus, orphans>>
      /\ Types /\ Backlog /\ \A k \in Launchers : Followed(k)
  BY DEF Loop, Reap, lvars, IInv
<1>2. Types'
  BY <1>1 DEF Types
<1>3. Backlog'
  BY <1>1 DEF Backlog
<1>4. ASSUME NEW k \in Launchers, k # l PROVE Followed(k)'
  <2>1. Untouched(k)
    BY <1>1, <1>4 DEF Types, Untouched, Queued, Serving, Execing, Forked
  <2>2. QED
    BY <1>1, <2>1, UntouchedKeeps
<1>5. Followed(l)'
  <2>1. /\ (Queued(l)' <=> Queued(l)) /\ ~Serving(l)' /\ ~Forked(l)' /\ ~Execing(l)'
        /\ tgt'[l] = "reaped" /\ Away(l)'
    BY <1>1 DEF Types, Queued, Serving, Forked, Execing, Away
  <2>2. Place(l)'
    BY <1>1, <2>1 DEF Followed, Place
  <2>3. Slotted(l)'
    BY <1>1, <2>1 DEF Followed, Slotted, Unattended
  <2>4. Written(l)' /\ Read(l)'
    BY <1>1, <2>1 DEF Followed, Place, Written, Read
  <2>5. QED
    BY <2>2, <2>3, <2>4 DEF Followed
<1>6. QED
  BY <1>2, <1>3, <1>4, <1>5 DEF IInv

\* finish_spawn of the target that has slot s, or was about to have it.
LEMMA FinishKeeps ==
  ASSUME IInv, NEW l \in Launchers, NEW s \in Slots, finish_spawn(l, s),
         \/ dpc.at = "register" /\ dpc.l = l /\ g_spawns[s] = NoLauncher
         \/ dpc.at = "loop" /\ ~Away(l) /\ s = reads[l]
  PROVE  IInv'
<1>1. CASE Crash /\ UNCHANGED lvars
  BY <1>1, CrashKeeps
<1>2. CASE /\ down' = [down EXCEPT ![l] = IF Gone(l) THEN @ ELSE Append(@, WEXITSTATUS(wstatus[l]))]
           /\ tgt' = [tgt EXCEPT ![l] = "reaped"]
           /\ g_spawns' = [g_spawns EXCEPT ![s] = NoLauncher]
           /\ reads' = [reads EXCEPT ![l] = 0] /\ exits' = [exits EXCEPT ![l] = 0]
           /\ dpc' = Loop /\ UNCHANGED <<lvars, backlog, wstatus, orphans>>
  <2>1. /\ dpc'.at = "loop" /\ UNCHANGED <<lst, result, got, backlog, wstatus, orphans>>
        /\ Types /\ Backlog /\ \A k \in Launchers : Followed(k)
    BY <1>2 DEF Loop, lvars, IInv
  <2>2. /\ ~Away(l) /\ Len(down[l]) = 1 /\ down[l][1] = "started"
        /\ down[l] \in Seq({"started", "0", "2"})
    <3>1. ~Away(l) /\ ~Execing(l) /\ Written(l) /\ down[l] \in Seq({"started", "0", "2"})
      BY <2>1 DEF Types, Followed, Place, Forked, Away, Execing
    <3>2. QED
      BY <3>1 DEF Written
  <2>3. /\ down' \in [Launchers -> Seq({"started", "0", "2"})]
        /\ \A k \in Launchers : k # l => down'[k] = down[k]
        /\ \/ down'[l] = down[l]
           \/ /\ Len(down'[l]) = 2 /\ down'[l][1] = "started"
              /\ down'[l][2] = WEXITSTATUS(wstatus[l])
    <3>1. WEXITSTATUS(wstatus[l]) \in {"started", "0", "2"}
      BY DEF WEXITSTATUS
    <3>2. PICK a : a = Append(down[l], WEXITSTATUS(wstatus[l]))
      OBVIOUS
    <3>3. /\ a \in Seq({"started", "0", "2"}) /\ Len(a) = 2
          /\ a[1] = "started" /\ a[2] = WEXITSTATUS(wstatus[l])
      BY <2>2, <3>1, <3>2, AppendProperties
    <3>4. down' = [down EXCEPT ![l] = down[l]] \/ down' = [down EXCEPT ![l] = a]
      BY <1>2, <3>2
    <3>5. QED
      BY <2>1, <3>3, <3>4 DEF Types
  <2>4. Types'
    BY <1>2, <2>1, <2>3 DEF Types
  <2>5. Backlog'
    BY <2>1 DEF Backlog
  <2>6. ASSUME NEW t \in Slots PROVE g_spawns'[t] = IF t = s THEN NoLauncher ELSE g_spawns[t]
    BY <1>2, <2>1 DEF Types
  <2>7. g_spawns[s] = l \/ g_spawns[s] = NoLauncher
    BY <2>1 DEF Followed, Slotted, OwnSlot, Forked
  <2>8. ASSUME NEW k \in Launchers, k # l PROVE Followed(k)'
    <3>1. \A t \in Slots : g_spawns'[t] = k <=> g_spawns[t] = k
      BY <2>6, <2>7, <2>8, ShellspawnAssumption
    <3>2. reads'[k] = reads[k] /\ exits'[k] = exits[k] /\ tgt'[k] = tgt[k]
      BY <1>2, <2>1, <2>8 DEF Types
    <3>3. Untouched(k)
      BY <2>1, <2>3, <2>8, <3>1, <3>2 DEF Untouched, Queued, Serving, Execing, Forked
    <3>4. QED
      BY <2>1, <3>3, UntouchedKeeps
  <2>9. Followed(l)'
    <3>1. /\ (Queued(l)' <=> Queued(l)) /\ ~Serving(l)' /\ ~Forked(l)' /\ ~Execing(l)'
          /\ tgt'[l] = "reaped" /\ Away(l)' /\ reads'[l] = 0 /\ exits'[l] = 0
      BY <1>2, <2>1 DEF Types, Queued, Serving, Forked, Execing, Away
    <3>2. Place(l)'
      BY <2>1, <2>2, <3>1 DEF Followed, Place, Away
    <3>3. Slotted(l)'
      <4>1. ASSUME NEW t \in Slots, t # s PROVE g_spawns[t] # l
        BY <2>1, <2>2, <4>1 DEF Followed, Slotted, Forked, Unattended, OwnSlot
      <4>2. QED
        BY <2>6, <3>1, <4>1, ShellspawnAssumption DEF Slotted, Unattended
    <3>4. CASE down'[l] = down[l]
      <4>1. Len(down'[l]) = 1 /\ down'[l][1] = "started"
        BY <2>2, <3>4
      <4>2. Written(l)'
        BY <3>1, <4>1 DEF Written
      <4>3. Read(l)'
        BY <2>1, <3>4 DEF Followed, Read
      <4>4. QED
        BY <3>2, <3>3, <4>2, <4>3 DEF Followed
    <3>5. CASE /\ Len(down'[l]) = 2 /\ down'[l][1] = "started"
               /\ down'[l][2] = WEXITSTATUS(wstatus[l])
      <4>1. down'[l][2] = WEXITSTATUS(wstatus'[l])
        BY <2>1, <3>5
      <4>2. Written(l)'
        BY <3>1, <3>5, <4>1 DEF Written
      <4>3. Read(l) /\ got[l] <= 1 /\ got[l] \in Nat
        BY <2>1, <2>2 DEF Followed, Read, Types
      <4>4. Read(l)'
        BY <2>1, <3>5, <4>3 DEF Read
      <4>5. QED
        BY <3>2, <3>3, <4>2, <4>4 DEF Followed
    <3>6. QED
      BY <2>3, <3>4, <3>5
  <2>10. QED
    BY <2>4, <2>5, <2>8, <2>9 DEF IInv
<1>3. QED
  BY <1>1, <1>2 DEF finish_spawn, Reap

-----------------------------------------------------------------------------
(* The launcher's steps. *)

\* A step of the launcher is about its own state, and its Read part is all it can
\* disturb.
LEMMA LauncherKeeps ==
  ASSUME IInv, NEW l \in Launchers,
         NEW x \in {"sending", "waiting", "started", "exited", "dead"},
         lst' = [lst EXCEPT ![l] = x],
         result' = result \/ \E c : result' = [result EXCEPT ![l] = c],
         got' \in [Launchers -> Nat], \A k \in Launchers : k # l => got'[k] = got[k],
         UNCHANGED <<down, dpc, backlog, g_spawns, reads, exits, tvars>>,
         Read(l)'
  PROVE  IInv'
<1>1. /\ UNCHANGED <<tgt, wstatus, orphans>>
      /\ Types /\ Backlog /\ \A k \in Launchers : Followed(k)
  BY DEF tvars, IInv
<1>2. lst'[l] = x /\ \A k \in Launchers : k # l => lst'[k] = lst[k] /\ result'[k] = result[k]
  BY <1>1 DEF Types
<1>3. Types'
  <2>1. DOMAIN result' = Launchers
    BY <1>1 DEF Types
  <2>2. lst' \in [Launchers -> {"idle", "sending", "waiting", "started", "exited", "dead"}]
    BY <1>1 DEF Types
  <2>3. QED
    BY <1>1, <2>1, <2>2 DEF Types
<1>4. Backlog'
  BY <1>1 DEF Backlog
<1>5. ASSUME NEW k \in Launchers, k # l PROVE Followed(k)'
  <2>1. Untouched(k)
    BY <1>1, <1>2, <1>5 DEF Untouched, Queued, Serving, Execing, Forked
  <2>2. QED
    BY <1>1, <2>1, UntouchedKeeps
<1>6. Followed(l)'
  <2>1. /\ (Queued(l)' <=> Queued(l)) /\ (Serving(l)' <=> Serving(l))
        /\ (Forked(l)' <=> Forked(l)) /\ (Execing(l)' <=> Execing(l)) /\ (Away(l)' <=> Away(l))
    BY <1>1 DEF Queued, Serving, Forked, Execing, Away
  <2>2. Place(l)'
    BY <1>1, <1>2, <2>1 DEF Followed, Place
  <2>3. Slotted(l)'
    BY <1>1, <2>1 DEF Followed, Slotted, Unattended, OwnSlot
  <2>4. Written(l)'
    BY <1>1, <2>1 DEF Followed, Written
  <2>5. QED
    BY <2>2, <2>3, <2>4 DEF Followed
<1>7. QED
  BY <1>3, <1>4, <1>5, <1>6 DEF IInv

\* A launcher that gives up, having read no code.
LEMMA ExitKeeps ==
  ASSUME IInv, NEW l \in Launchers, NEW c, Exit(l, c),
         lst[l] \in {"idle", "sending", "waiting", "started"},
         UNCHANGED <<got, down, dpc, backlog, g_spawns, reads, exits, tvars>>
  PROVE  IInv'
<1>1. /\ lst' = [lst EXCEPT ![l] = "exited"] /\ result' = [result EXCEPT ![l] = c]
      /\ Types /\ Followed(l) /\ got' \in [Launchers -> Nat]
  BY DEF Exit, IInv, Types
<1>2. lst'[l] = "exited" /\ (got[l] = 0 \/ got[l] = 1)
  BY <1>1 DEF Types, Followed, Read
<1>3. Read(l)'
  BY <1>1, <1>2 DEF Followed, Read
<1>4. QED
  BY <1>1, <1>3, LauncherKeeps

\* A launcher that goes on, having read nothing.
LEMMA GoOnKeeps ==
  ASSUME IInv, NEW l \in Launchers, NEW x \in {"sending", "waiting", "started", "dead"},
         lst' = [lst EXCEPT ![l] = x],
         x = "started" => lst[l] = "started",
         x = "dead" => lst[l] \in {"sending", "waiting", "started"},
         x \in {"sending", "waiting"} => lst[l] \in {"idle", "sending", "waiting"},
         UNCHANGED <<result, got, down, dpc, backlog, g_spawns, reads, exits, tvars>>
  PROVE  IInv'
<1>1. Types /\ Followed(l) /\ got' \in [Launchers -> Nat]
  BY DEF IInv, Types
<1>2. lst'[l] = x
  BY <1>1 DEF Types
<1>3. Read(l)'
  BY <1>1, <1>2 DEF Followed, Read
<1>4. QED
  BY <1>1, <1>3, LauncherKeeps

\* A write to the daemon.
LEMMA PushKeeps ==
  ASSUME IInv, NEW l \in Launchers, NEW m, NEW x, Push(l, m, x),
         \/ x \in {"sending", "waiting"} /\ lst[l] \in {"sending", "waiting"}
         \/ x = "started" /\ lst[l] = "started",
         UNCHANGED <<got, down, dpc, backlog, g_spawns, reads, exits, tvars>>
  PROVE  IInv'
<1>1. CASE lst' = [lst EXCEPT ![l] = x] /\ UNCHANGED result
  BY <1>1, GoOnKeeps
<1>2. CASE Exit(l, "1")
  BY <1>2, ExitKeeps
<1>3. QED
  BY <1>1, <1>2 DEF Push

\* shell_loop reads a byte, or the end of the stream.
LEMMA ShellLoopKeeps ==
  ASSUME IInv, NEW l \in Launchers, shell_loop(l)
  PROVE  IInv'
<1>1. UNCHANGED <<down, dpc, backlog, g_spawns, reads, exits, tvars>>
  BY DEF shell_loop, dvars
<1>2. CASE Unread(l) = <<>> /\ Exit(l, "1") /\ UNCHANGED got
  BY <1>1, <1>2, ExitKeeps DEF shell_loop
<1>3. CASE Unread(l) # <<>> /\ got' = [got EXCEPT ![l] = @ + 1]
  <2>1. /\ Types /\ Written(l) /\ Read(l) /\ got[l] \in Nat /\ down[l] \in Seq({"started", "0", "2"})
        /\ Len(down[l]) \in Nat
    BY DEF IInv, Followed, Types
  <2>2. /\ got' \in [Launchers -> Nat] /\ got'[l] = got[l] + 1
        /\ \A k \in Launchers : k # l => got'[k] = got[k]
    BY <1>3, <2>1 DEF Types
  <2>3. got[l] + 1 <= Len(down[l]) /\ Head(Unread(l)) = down[l][got[l] + 1]
    <3>1. CASE got[l] + 1 <= Len(down[l])
      BY <2>1, <3>1, HeadTailOfSubSeq DEF Unread
    <3>2. CASE ~(got[l] + 1 <= Len(down[l]))
      <4>1. Unread(l) = <<>>
        BY <2>1, <3>2, SubSeqEmpty DEF Unread
      <4>2. QED
        BY <1>3, <4>1
    <3>3. QED
      BY <3>1, <3>2
  <2>4. CASE lst[l] = "waiting"
    <3>1. lst' = [lst EXCEPT ![l] = "started"] /\ UNCHANGED result
      BY <1>3, <2>4 DEF shell_loop
    <3>2. got[l] = 0 /\ lst'[l] = "started"
      BY <2>1, <2>4, <3>1 DEF Read, Types
    <3>3. Read(l)'
      <4>1. got'[l] = 1 /\ got'[l] <= Len(down'[l])
        BY <1>1, <2>2, <2>3, <3>2
      <4>2. QED
        BY <3>2, <4>1 DEF Read
    <3>4. QED
      BY <1>1, <2>2, <3>1, <3>3, LauncherKeeps
  <2>5. CASE lst[l] = "started"
    <3>1. Exit(l, Head(Unread(l)))
      BY <1>3, <2>5 DEF shell_loop
    <3>2. got[l] = 1
      BY <2>1, <2>5 DEF Read
    <3>3. PICK c : c = Head(Unread(l))
      OBVIOUS
    <3>4. lst' = [lst EXCEPT ![l] = "exited"] /\ result' = [result EXCEPT ![l] = c]
      BY <3>1, <3>3 DEF Exit
    <3>5. lst'[l] = "exited" /\ result'[l] = c
      BY <2>1, <3>4 DEF Types
    <3>6. Read(l)'
      <4>1. got'[l] = 2 /\ got'[l] <= Len(down'[l])
        BY <1>1, <2>2, <2>3, <3>2
      <4>2. c = down[l][2]
        BY <2>3, <3>2, <3>3
      <4>3. QED
        BY <1>1, <3>5, <4>1, <4>2 DEF Read
    <3>7. QED
      BY <1>1, <2>2, <3>4, <3>6, LauncherKeeps
  <2>6. QED
    BY <2>4, <2>5 DEF shell_loop
<1>4. QED
  BY <1>2, <1>3 DEF shell_loop

-----------------------------------------------------------------------------
(* The target's steps. *)

\* A target that has not ended execs, fails to, exits, or is killed.
LEMMA TargetKeeps ==
  ASSUME IInv, NEW l \in Launchers, NEW x \in {"running", "failed", "zombie"},
         tgt[l] \in {"forked", "running"}, tgt' = [tgt EXCEPT ![l] = x],
         wstatus' = wstatus \/ \E w : wstatus' = [wstatus EXCEPT ![l] = w],
         UNCHANGED <<lst, result, got, down, dpc, backlog, g_spawns, reads, exits, orphans>>
  PROVE  IInv'
<1>1. Types /\ Backlog /\ \A k \in Launchers : Followed(k)
  BY DEF IInv
<1>2. /\ tgt'[l] = x /\ DOMAIN wstatus' = Launchers
      /\ \A k \in Launchers : k # l => tgt'[k] = tgt[k] /\ wstatus'[k] = wstatus[k]
  BY <1>1 DEF Types
<1>3. Types'
  <2>1. tgt' \in [Launchers -> {"none", "forked", "running", "failed", "zombie", "reaped"}]
    BY <1>1 DEF Types
  <2>2. QED
    BY <1>1, <1>2, <2>1 DEF Types
<1>4. Backlog'
  BY <1>1 DEF Backlog
<1>5. ASSUME NEW k \in Launchers, k # l PROVE Followed(k)'
  <2>1. Untouched(k)
    BY <1>1, <1>2, <1>5 DEF Untouched, Queued, Serving, Execing, Forked
  <2>2. QED
    BY <1>1, <2>1, UntouchedKeeps
<1>6. Followed(l)'
  <2>1. /\ (Queued(l)' <=> Queued(l)) /\ (Serving(l)' <=> Serving(l))
        /\ (Forked(l)' <=> Forked(l)) /\ (Execing(l)' <=> Execing(l)) /\ (Away(l)' <=> Away(l))
    BY <1>2 DEF Queued, Serving, Forked, Execing, Away
  <2>2. Place(l)'
    BY <1>1, <1>2, <2>1 DEF Followed, Place
  <2>3. Slotted(l)'
    BY <1>1, <2>1 DEF Followed, Slotted, Unattended, OwnSlot
  <2>4. Written(l)' /\ Read(l)'
    BY <1>1, <1>2, <2>1 DEF Followed, Written, Read
  <2>5. QED
    BY <2>2, <2>3, <2>4 DEF Followed
<1>7. QED
  BY <1>3, <1>4, <1>5, <1>6 DEF IInv

\* A signal that ends the target, if it still runs.
LEMMA KillKeeps ==
  ASSUME IInv, NEW l \in Launchers, SIGKILLed(l),
         UNCHANGED <<lst, result, got, down, dpc, backlog, g_spawns, reads, exits>>
  PROVE  IInv'
<1>1. Types
  BY DEF IInv
<1>2. CASE tgt[l] = "running"
  <2>1. /\ tgt' = [tgt EXCEPT ![l] = "zombie"] /\ wstatus' = [wstatus EXCEPT ![l] = "signalled"]
        /\ UNCHANGED orphans
    BY <1>2 DEF SIGKILLed
  <2>2. QED
    BY <1>2, <2>1, TargetKeeps
<1>3. CASE tgt[l] # "running"
  <2>1. tgt' = tgt /\ UNCHANGED orphans
    BY <1>1, <1>3 DEF SIGKILLed, Types
  <2>2. DOMAIN wstatus' = Launchers /\ \A k \in Launchers : wstatus'[k] = wstatus[k]
    BY <1>1, <1>3 DEF SIGKILLed, Types
  <2>3. Types' /\ Backlog'
    BY <2>1, <2>2 DEF IInv, Types, Backlog
  <2>4. ASSUME NEW k \in Launchers PROVE Followed(k)'
    <3>1. Untouched(k)
      BY <2>1, <2>2 DEF Untouched, Queued, Serving, Execing, Forked
    <3>2. QED
      BY <3>1, UntouchedKeeps DEF IInv
  <2>5. QED
    BY <2>3, <2>4 DEF IInv
<1>4. QED
  BY <1>2, <1>3

\* The end of the stream or a signal on a control socket goes to the target whose
\* slot the socket's filter names, which is that launcher's own.
LEMMA ControlKeeps ==
  ASSUME IInv, NEW l \in Launchers, reads[l] # 0,
         SIGKILLed(g_spawns[reads[l]]),
         UNCHANGED <<lst, result, got, down, dpc, backlog, g_spawns, reads, exits>>
  PROVE  IInv'
<1>1. g_spawns[reads[l]] = l
  BY DEF IInv, Followed, Slotted, Unattended, OwnSlot
<1>2. QED
  BY <1>1, KillKeeps

-----------------------------------------------------------------------------
(* The daemon's steps. *)

\* A launcher connects and waits in the backlog.
LEMMA ConnectKeeps ==
  ASSUME IInv, NEW l \in Launchers, connect_shellspawn(l)
  PROVE  IInv'
<1>1. /\ lst[l] = "idle" /\ UNCHANGED <<got, down, dpc, g_spawns, reads, exits, tvars>>
      /\ Types /\ Backlog /\ \A k \in Launchers : Followed(k)
  BY DEF connect_shellspawn, IInv
<1>2. CASE Exit(l, "1") /\ UNCHANGED backlog
  BY <1>1, <1>2, ExitKeeps
<1>3. CASE lst' = [lst EXCEPT ![l] = "sending"] /\ UNCHANGED result /\ backlog' = Append(backlog, l)
  <2>1. /\ backlog' \in Seq(Launchers) /\ Len(backlog) \in Nat /\ Len(backlog') = Len(backlog) + 1
        /\ \A i \in 1..Len(backlog) : backlog'[i] = backlog[i]
        /\ backlog'[Len(backlog) + 1] = l
    BY <1>1, <1>3, AppendProperties DEF Types
  <2>2. Place(l) /\ tgt[l] = "none" /\ ~Queued(l) /\ ~Serving(l) /\ ~Forked(l) /\ ~Execing(l)
    BY <1>1 DEF Followed, Place, Forked, Execing
  <2>3. \A i \in 1..Len(backlog') : i \in 1..Len(backlog) \/ (i = Len(backlog) + 1 /\ backlog'[i] = l)
    BY <2>1
  <2>4. Types'
    BY <1>1, <1>3, <2>1 DEF Types, tvars
  <2>5. Backlog'
    <3>1. \A i \in 1..Len(backlog) : backlog'[i] # l
      BY <2>1, <2>2 DEF Queued
    <3>2. QED
      BY <1>1, <2>1, <2>3, <3>1 DEF Backlog
  <2>6. ASSUME NEW k \in Launchers, k # l PROVE Followed(k)'
    <3>1. Queued(k)' => Queued(k)
      BY <2>1, <2>3, <2>6 DEF Queued
    <3>2. lst'[k] = lst[k]
      BY <1>1, <1>3, <2>6 DEF Types
    <3>3. Untouched(k)
      BY <1>1, <1>3, <3>1, <3>2 DEF Untouched, Serving, Execing, Forked, tvars
    <3>4. QED
      BY <1>1, <3>3, UntouchedKeeps
  <2>7. Followed(l)'
    <3>1. /\ lst'[l] = "sending" /\ tgt'[l] = "none" /\ ~Serving(l)' /\ ~Forked(l)' /\ ~Execing(l)'
          /\ UNCHANGED <<wstatus, orphans>> /\ (Away(l)' <=> Away(l))
      BY <1>1, <1>3, <2>2 DEF Types, Serving, Forked, Execing, Away, tvars
    <3>2. Place(l)'
      BY <1>1, <2>2, <3>1 DEF Place
    <3>3. Slotted(l)'
      BY <1>1, <2>2, <3>1 DEF Followed, Slotted, Unattended, OwnSlot
    <3>4. Written(l)'
      BY <1>1, <2>2, <3>1 DEF Followed, Written, tvars
    <3>5. Read(l)'
      BY <1>1, <1>3, <3>1 DEF Followed, Read
    <3>6. QED
      BY <3>2, <3>3, <3>4, <3>5 DEF Followed
  <2>8. QED
    BY <2>4, <2>5, <2>6, <2>7 DEF IInv
<1>4. QED
  BY <1>2, <1>3 DEF connect_shellspawn

\* The daemon takes the first of the backlog.
LEMMA AcceptKeeps ==
  ASSUME IInv, Accept
  PROVE  IInv'
<1>1. /\ dpc.at = "loop" /\ backlog # <<>>
      /\ UNCHANGED <<lst, result, got, down, g_spawns, reads, exits, tgt, wstatus, orphans>>
      /\ Types /\ Backlog /\ \A k \in Launchers : Followed(k)
  BY DEF Accept, At, lvars, tvars, IInv
<1>2. PICK h : h = Head(backlog)
  OBVIOUS
<1>3. dpc'.at = "commands" /\ dpc'.l = h /\ backlog' = Tail(backlog)
  BY <1>2 DEF Accept
<1>4. /\ h \in Launchers /\ h = backlog[1] /\ backlog' \in Seq(Launchers)
      /\ Len(backlog) \in Nat \ {0} /\ Len(backlog') = Len(backlog) - 1
      /\ \A i \in 1..Len(backlog') : backlog'[i] = backlog[i + 1]
  <2>1. backlog \in Seq(Launchers)
    BY <1>1 DEF Types
  <2>2. h \in Launchers /\ backlog' \in Seq(Launchers)
    BY <1>1, <1>2, <1>3, <2>1, HeadTailProperties
  <2>3. Len(backlog) \in Nat \ {0}
    BY <1>1, <2>1, EmptySeq, LenProperties
  <2>4. h = backlog[1]
    BY <1>2
  <2>5. Len(backlog') = Len(backlog) - 1 /\ \A i \in 1..Len(backlog') : backlog'[i] = backlog[i + 1]
    BY <1>1, <1>3, <2>1, <2>3, HeadTailProperties
  <2>6. QED
    BY <2>2, <2>3, <2>4, <2>5
<1>5. Types'
  BY <1>1, <1>4 DEF Types
<1>6. \A i \in 1..Len(backlog') : i + 1 \in 1..Len(backlog) /\ i + 1 # 1
  BY <1>4
<1>7. Backlog'
  <2>1. ASSUME NEW i \in 1..Len(backlog'), NEW k \in 1..Len(backlog'), backlog'[i] = backlog'[k]
        PROVE  i = k
    <3>1. i + 1 = k + 1
      BY <1>1, <1>4, <1>6, <2>1 DEF Backlog
    <3>2. QED
      BY <3>1, <1>4
  <2>2. QED
    BY <2>1 DEF Backlog
<1>8. Queued(h) /\ ~Queued(h)'
  <2>1. 1 \in 1..Len(backlog)
    BY <1>4
  <2>2. Queued(h)
    BY <1>4, <2>1 DEF Queued
  <2>3. ASSUME NEW i \in 1..Len(backlog'), backlog'[i] = h PROVE FALSE
    BY <1>1, <1>4, <1>6, <2>1, <2>3 DEF Backlog
  <2>4. QED
    BY <2>2, <2>3 DEF Queued
<1>9. ASSUME NEW k \in Launchers, k # h PROVE Followed(k)'
  <2>1. Queued(k)' => Queued(k)
    BY <1>4, <1>6 DEF Queued
  <2>2. Untouched(k)
    BY <1>1, <1>3, <1>9, <2>1 DEF Untouched, Serving, Execing, Forked
  <2>3. QED
    BY <1>1, <2>2, UntouchedKeeps
<1>10. Followed(h)'
  <2>1. /\ Followed(h) /\ ~Forked(h) /\ ~Execing(h) /\ ~Forked(h)' /\ ~Execing(h)'
        /\ (Away(h)' <=> Away(h))
    BY <1>1, <1>3, <1>4 DEF Forked, Execing, Away
  <2>2. Place(h)'
    BY <1>1, <1>8, <2>1 DEF Followed, Place
  <2>3. Slotted(h)'
    BY <1>1, <2>1 DEF Followed, Slotted, Unattended, OwnSlot
  <2>4. Written(h)' /\ Read(h)'
    BY <1>1, <2>1 DEF Followed, Written, Read
  <2>5. QED
    BY <2>2, <2>3, <2>4 DEF Followed
<1>11. QED
  BY <1>5, <1>7, <1>9, <1>10 DEF IInv

\* A step that touches nothing but the daemon's place.
LEMMA FrameKeeps ==
  ASSUME IInv,
         UNCHANGED <<lst, result, got, down, backlog, g_spawns, reads, exits, tgt, wstatus, orphans>>,
         \/ dpc' = dpc
         \/ dpc.at \notin {"exec", "register"} /\ dpc'.at = "loop"
  PROVE  IInv'
<1>1. Types' /\ Backlog'
  BY DEF IInv, Types, Backlog
<1>2. ASSUME NEW k \in Launchers PROVE Followed(k)'
  <2>1. Untouched(k)
    BY DEF Untouched, Queued, Serving, Execing, Forked
  <2>2. QED
    BY <2>1, UntouchedKeeps DEF IInv
<1>3. QED
  BY <1>1, <1>2 DEF IInv

\* A command is read; after GO the target is forked.
LEMMA ReadCommandsKeeps ==
  ASSUME IInv, NEW l \in Launchers, read_commands(l)
  PROVE  IInv'
<1>1. /\ dpc.at = "commands" /\ dpc.l = l
      /\ UNCHANGED <<lst, result, got, down, backlog, g_spawns, reads, exits, wstatus, orphans>>
      /\ Types /\ Backlog /\ \A k \in Launchers : Followed(k)
  BY DEF read_commands, At, lvars, IInv
<1>2. CASE UNCHANGED <<dpc, tgt>>
  BY <1>1, <1>2, FrameKeeps
<1>3. CASE dpc' = [at |-> "exec", l |-> l] /\ tgt' = [tgt EXCEPT ![l] = "forked"]
  <2>1. dpc'.at = "exec" /\ dpc'.l = l
    BY <1>3
  <2>2. Types' /\ Backlog'
    BY <1>1, <1>3 DEF Types, Backlog
  <2>3. ASSUME NEW k \in Launchers, k # l PROVE Followed(k)'
    <3>1. tgt'[k] = tgt[k]
      BY <1>1, <1>3, <2>3 DEF Types
    <3>2. Untouched(k)
      BY <1>1, <2>1, <2>3, <3>1 DEF Untouched, Queued, Serving, Execing, Forked
    <3>3. QED
      BY <1>1, <3>2, UntouchedKeeps
  <2>4. Followed(l)'
    <3>1. Followed(l) /\ Serving(l) /\ ~Forked(l) /\ ~Execing(l) /\ tgt[l] = "none" /\ Away(l)
      BY <1>1 DEF Followed, Place, Serving, Forked, Execing, Away
    <3>2. ~Queued(l)' /\ ~Serving(l)' /\ Forked(l)' /\ Execing(l)' /\ tgt'[l] = "forked"
      BY <1>1, <1>3, <2>1, <3>1 DEF Types, Followed, Place, Queued, Serving, Forked, Execing
    <3>3. Place(l)'
      BY <1>1, <3>1, <3>2 DEF Followed, Place
    <3>4. Slotted(l)'
      BY <1>1, <3>1, <3>2 DEF Followed, Slotted, Unattended
    <3>5. Written(l)' /\ Read(l)'
      BY <1>1, <3>1, <3>2 DEF Followed, Written, Read
    <3>6. QED
      BY <3>3, <3>4, <3>5 DEF Followed
  <2>5. QED
    BY <2>2, <2>3, <2>4 DEF IInv
<1>4. QED
  BY <1>2, <1>3 DEF read_commands

\* The exec check fails, the launcher is gone, or the byte "started" is written.
LEMMA StartedKeeps ==
  ASSUME IInv, NEW l \in Launchers, Started(l)
  PROVE  IInv'
<1>1. /\ dpc.at = "exec" /\ dpc.l = l /\ Forked(l) /\ Execing(l) /\ UNCHANGED lvars
      /\ UNCHANGED <<lst, result, got>>
      /\ Types /\ Backlog /\ \A k \in Launchers : Followed(k)
  BY DEF Started, At, Forked, Execing, lvars, IInv
<1>2. CASE Abandon(l)
  BY <1>1, <1>2, ReapKeeps DEF Abandon
<1>3. CASE Crash
  BY <1>1, <1>3, CrashKeeps
<1>4. CASE /\ down' = [down EXCEPT ![l] = Append(@, "started")]
           /\ dpc' = [at |-> "register", l |-> l]
           /\ UNCHANGED <<backlog, g_spawns, reads, exits, tvars>>
  <2>1. dpc'.at = "register" /\ dpc'.l = l /\ UNCHANGED <<tgt, wstatus, orphans>>
    BY <1>4 DEF tvars
  <2>2. PICK a : a = Append(down[l], "started")
    OBVIOUS
  <2>3. down[l] \in Seq({"started", "0", "2"}) /\ Len(down[l]) = 0
    BY <1>1 DEF Types, Followed, Written
  <2>4. a \in Seq({"started", "0", "2"}) /\ Len(a) = 1 /\ a[1] = "started"
    BY <2>2, <2>3, AppendProperties
  <2>5. down' = [down EXCEPT ![l] = a]
    BY <1>4, <2>2
  <2>6. /\ down'[l] = a /\ down' \in [Launchers -> Seq({"started", "0", "2"})]
        /\ \A k \in Launchers : k # l => down'[k] = down[k]
    BY <1>1, <2>4, <2>5 DEF Types
  <2>7. Types' /\ Backlog'
    BY <1>1, <1>4, <2>1, <2>6 DEF Types, Backlog
  <2>8. ASSUME NEW k \in Launchers, k # l PROVE Followed(k)'
    <3>1. Untouched(k)
      BY <1>1, <1>4, <2>1, <2>6, <2>8 DEF Untouched, Queued, Serving, Execing, Forked
    <3>2. QED
      BY <1>1, <3>1, UntouchedKeeps
  <2>9. Followed(l)'
    <3>1. Forked(l)' /\ ~Execing(l)' /\ ~Serving(l)' /\ (Queued(l)' <=> Queued(l))
      BY <1>4, <2>1 DEF Forked, Execing, Serving, Queued
    <3>2. Place(l)'
      BY <1>1, <2>1, <3>1 DEF Followed, Place
    <3>3. Slotted(l)'
      BY <1>1, <1>4, <3>1 DEF Followed, Slotted, Unattended
    <3>4. Written(l)'
      <4>1. tgt'[l] # "none"
        BY <1>1, <2>1 DEF Followed, Place
      <4>2. Len(down'[l]) = 1 /\ down'[l][1] = "started"
        BY <2>4, <2>6
      <4>3. QED
        BY <3>1, <4>1, <4>2 DEF Written
    <3>5. Read(l)'
      <4>1. Read(l) /\ got[l] = 0
        BY <1>1, <2>3 DEF Followed, Read, Types
      <4>2. Len(down'[l]) = 1
        BY <2>4, <2>6
      <4>3. lst[l] # "started"
        BY <4>1 DEF Read
      <4>4. QED
        BY <1>1, <4>1, <4>2, <4>3 DEF Read
    <3>6. QED
      BY <3>2, <3>3, <3>4, <3>5 DEF Followed
  <2>10. QED
    BY <2>7, <2>8, <2>9 DEF IInv
<1>5. QED
  BY <1>2, <1>3, <1>4 DEF Started

\* The target gets a slot, or is finished or killed.
LEMMA RegisterKeeps ==
  ASSUME IInv, NEW l \in Launchers, Register(l)
  PROVE  IInv'
<1>1. /\ dpc.at = "register" /\ dpc.l = l /\ Forked(l) /\ ~Execing(l)
      /\ Types /\ Backlog /\ \A k \in Launchers : Followed(k)
  BY DEF Register, At, Forked, Execing, IInv
<1>2. CASE /\ Reap(l) /\ dpc' = Loop
           /\ UNCHANGED <<lvars, down, backlog, g_spawns, reads, exits>>
  BY <1>1, <1>2, ReapKeeps
<1>3. CASE Free # {} /\ finish_spawn(l, spawn_slot)
  <2>1. spawn_slot \in Slots /\ g_spawns[spawn_slot] = NoLauncher
    BY <1>3, SlotFound DEF Free
  <2>2. QED
    BY <1>1, <1>3, <2>1, FinishKeeps
<1>4. CASE /\ Free # {} /\ dpc' = Loop
           /\ g_spawns' = [g_spawns EXCEPT ![spawn_slot] = l]
           /\ reads' = [reads EXCEPT ![l] = spawn_slot] /\ exits' = [exits EXCEPT ![l] = spawn_slot]
           /\ UNCHANGED <<lvars, down, backlog, tvars>>
  <2>1. PICK s : s = spawn_slot
    OBVIOUS
  <2>2. s \in Slots /\ s \in Nat /\ g_spawns[s] = NoLauncher
    BY <1>4, <2>1, SlotFound, ShellspawnAssumption DEF Free, Slots
  <2>3. /\ g_spawns' = [g_spawns EXCEPT ![s] = l]
        /\ reads' = [reads EXCEPT ![l] = s] /\ exits' = [exits EXCEPT ![l] = s]
        /\ dpc'.at = "loop" /\ UNCHANGED <<lst, result, got, down, backlog, tgt, wstatus, orphans>>
    BY <1>4, <2>1 DEF Loop, lvars, tvars
  <2>4. Types' /\ Backlog'
    BY <1>1, <2>2, <2>3 DEF Types, Backlog
  <2>5. \A t \in Slots : g_spawns'[t] = IF t = s THEN l ELSE g_spawns[t]
    BY <1>1, <2>2, <2>3 DEF Types
  <2>6. ASSUME NEW k \in Launchers, k # l PROVE Followed(k)'
    <3>1. \A t \in Slots : g_spawns'[t] = k <=> g_spawns[t] = k
      BY <2>2, <2>5, <2>6, ShellspawnAssumption
    <3>2. reads'[k] = reads[k] /\ exits'[k] = exits[k]
      BY <1>1, <2>3, <2>6 DEF Types
    <3>3. Untouched(k)
      BY <1>1, <2>3, <2>6, <3>1, <3>2 DEF Untouched, Queued, Serving, Execing, Forked
    <3>4. QED
      BY <1>1, <3>3, UntouchedKeeps
  <2>7. Followed(l)'
    <3>1. /\ ~Forked(l)' /\ ~Execing(l)' /\ ~Serving(l)' /\ (Queued(l)' <=> Queued(l))
          /\ (Away(l)' <=> Away(l)) /\ ~Away(l) /\ reads'[l] = s /\ exits'[l] = s
      BY <1>1, <2>3 DEF Types, Followed, Place, Forked, Execing, Serving, Queued, Away
    <3>2. Place(l)'
      BY <1>1, <2>3, <3>1 DEF Followed, Place
    <3>3. Slotted(l)'
      <4>1. \A t \in Slots : g_spawns[t] # l
        BY <1>1 DEF Followed, Slotted, Unattended
      <4>2. QED
        BY <2>2, <2>5, <3>1, <4>1 DEF Slotted, OwnSlot
    <3>4. Written(l)' /\ Read(l)'
      BY <1>1, <2>3, <3>1 DEF Followed, Written, Read
    <3>5. QED
      BY <3>2, <3>3, <3>4 DEF Followed
  <2>8. QED
    BY <2>4, <2>6, <2>7 DEF IInv
<1>5. QED
  BY <1>2, <1>3, <1>4 DEF Register

\* NOTE_EXIT finishes the target that is in the slot the filter names: its own.
LEMMA TargetExitedKeeps ==
  ASSUME IInv, NEW l \in Launchers, TargetExited(l)
  PROVE  IInv'
<1>1. /\ dpc.at = "loop" /\ exits[l] # 0 /\ Followed(l)
      /\ finish_spawn(g_spawns[exits[l]], exits[l])
  BY DEF TargetExited, At, IInv
<1>2. ~Away(l) /\ reads[l] \in Slots /\ exits[l] = reads[l] /\ g_spawns[reads[l]] = l
  BY <1>1 DEF Followed, Slotted, Unattended, OwnSlot, Forked
<1>3. finish_spawn(l, reads[l])
  BY <1>1, <1>2
<1>4. QED
  BY <1>1, <1>2, <1>3, FinishKeeps

\* The watchdog of one launcher takes everybody's targets with it.
LEMMA ContainerGoneKeeps ==
  ASSUME IInv, NEW l \in Launchers, lst[l] = "waiting",
         lst' = [lst EXCEPT ![l] = "exited"], result' = [result EXCEPT ![l] = "120"],
         dpc'.at = "killed", backlog' = <<>>,
         g_spawns' = [s \in Slots |-> NoLauncher],
         reads' = [k \in Launchers |-> 0], exits' = [k \in Launchers |-> 0],
         tgt' = [k \in Launchers |-> IF tgt[k] = "none" THEN "none" ELSE "reaped"],
         UNCHANGED <<got, down, wstatus, orphans>>
  PROVE  IInv'
<1>1. /\ lst[l] = "waiting" /\ dpc'.at = "killed" /\ backlog' = <<>> /\ Len(backlog') = 0
      /\ lst' = [lst EXCEPT ![l] = "exited"] /\ result' = [result EXCEPT ![l] = "120"]
      /\ g_spawns' = [s \in Slots |-> NoLauncher]
      /\ reads' = [k \in Launchers |-> 0] /\ exits' = [k \in Launchers |-> 0]
      /\ tgt' = [k \in Launchers |-> IF tgt[k] = "none" THEN "none" ELSE "reaped"]
      /\ UNCHANGED <<got, down, wstatus, orphans>>
      /\ Types /\ \A k \in Launchers : Followed(k)
  BY DEF IInv
<1>2. Types' /\ Backlog'
  BY <1>1 DEF Types, Backlog
<1>3. ASSUME NEW k \in Launchers PROVE Followed(k)'
  <2>1. /\ ~Queued(k)' /\ ~Serving(k)' /\ ~Forked(k)' /\ ~Execing(k)' /\ Away(k)'
        /\ tgt'[k] = (IF tgt[k] = "none" THEN "none" ELSE "reaped")
        /\ (k = l /\ lst'[k] = "exited") \/ (k # l /\ lst'[k] = lst[k] /\ result'[k] = result[k])
    BY <1>1 DEF Types, Queued, Serving, Forked, Execing, Away
  <2>2. Place(k)'
    BY <1>1, <2>1 DEF Followed, Place
  <2>3. Slotted(k)'
    BY <1>1, <2>1, ShellspawnAssumption DEF Slotted, Unattended
  <2>4. Written(k)'
    BY <1>1, <2>1 DEF Followed, Written
  <2>5. Read(k)'
    BY <1>1, <2>1 DEF Followed, Read
  <2>6. QED
    BY <2>2, <2>3, <2>4, <2>5 DEF Followed
<1>4. QED
  BY <1>2, <1>3 DEF IInv

\* The watchdog, whether or not it finds the container to kill.
LEMMA KillContainerKeeps ==
  ASSUME IInv, NEW l \in Launchers, kill_container(l)
  PROVE  IInv'
<1>1. /\ lst[l] = "waiting" /\ Exit(l, "120")
      /\ UNCHANGED <<got, down, wstatus, orphans>>
  BY DEF kill_container
<1>2. CASE UNCHANGED <<open, dvars, tgt>>
  BY <1>1, <1>2, ExitKeeps DEF dvars, tvars
<1>3. CASE /\ dpc' = [at |-> "killed", l |-> NoLauncher] /\ backlog' = <<>>
           /\ g_spawns' = [s \in Slots |-> NoLauncher]
           /\ reads' = [k \in Launchers |-> 0] /\ exits' = [k \in Launchers |-> 0]
           /\ tgt' = [k \in Launchers |-> IF tgt[k] = "none" THEN "none" ELSE "reaped"]
  BY <1>1, <1>3, ContainerGoneKeeps DEF Exit
<1>4. QED
  BY <1>2, <1>3 DEF kill_container

-----------------------------------------------------------------------------
\* Every step keeps the invariant.
LEMMA StepKeeps ==
  ASSUME IInv, [Next]_vars
  PROVE  IInv'
<1>1. CASE UNCHANGED vars
  BY <1>1, FrameKeeps DEF vars, lvars, dvars, tvars
<1>2. CASE Accept
  BY <1>2, AcceptKeeps
<1>3. CASE Restart
  <2>1. dpc.at = "crashed" /\ dpc'.at = "loop"
    BY <1>3 DEF Restart, At, Loop
  <2>2. QED
    BY <1>3, <2>1, FrameKeeps DEF Restart, lvars, tvars
<1>4. ASSUME NEW l \in Launchers, LauncherStep(l) PROVE IInv'
  <2>1. CASE spawn_go(l)
    BY <2>1, PushKeeps DEF spawn_go, dvars
  <2>2. CASE drain_signals(l)
    BY <2>2, PushKeeps DEF drain_signals, dvars
  <2>3. CASE shell_loop(l)
    BY <2>3, ShellLoopKeeps
  <2>4. QED
    BY <1>4, <2>1, <2>2, <2>3 DEF LauncherStep
<1>5. ASSUME NEW l \in Launchers, Environment(l) PROVE IInv'
  <2>1. CASE connect_shellspawn(l)
    BY <2>1, ConnectKeeps
  <2>2. CASE push_cmd(l)
    BY <2>2, PushKeeps DEF push_cmd, dvars
  <2>3. CASE handle_signal(l)
    BY <2>3, FrameKeeps DEF handle_signal, dvars, tvars
  <2>4. CASE kill_container(l)
    BY <2>4, KillContainerKeeps
  <2>5. CASE Die(l)
    BY <2>5, GoOnKeeps DEF Die, dvars
  <2>6. CASE TargetExits(l)
    BY <2>6, TargetKeeps DEF TargetExits, lvars, dvars
  <2>7. QED
    BY <1>5, <2>1, <2>2, <2>3, <2>4, <2>5, <2>6 DEF Environment
<1>6. ASSUME NEW l \in Launchers, execv(l) PROVE IInv'
  BY <1>6, TargetKeeps DEF execv, lvars, dvars
<1>7. ASSUME NEW l \in Launchers, SpawnStep(l) PROVE IInv'
  <2>1. CASE read_commands(l)
    BY <2>1, ReadCommandsKeeps
  <2>2. CASE CommandsEnd(l)
    <3>1. CASE dpc' = Loop /\ UNCHANGED <<down, backlog, g_spawns, reads, exits, tvars>>
      <4>1. dpc.at = "commands" /\ dpc'.at = "loop"
        BY <2>2, <3>1 DEF CommandsEnd, At, Loop
      <4>2. QED
        BY <2>2, <3>1, <4>1, FrameKeeps DEF CommandsEnd, lvars, tvars
    <3>2. CASE Crash
      BY <2>2, <3>2, CrashKeeps DEF CommandsEnd
    <3>3. QED
      BY <2>2, <3>1, <3>2 DEF CommandsEnd
  <2>3. CASE CommandsFail(l)
    <3>1. CASE dpc' = Loop /\ UNCHANGED <<down, backlog, g_spawns, reads, exits, tvars>>
      <4>1. dpc.at = "commands" /\ dpc'.at = "loop"
        BY <2>3, <3>1 DEF CommandsFail, At, Loop
      <4>2. QED
        BY <2>3, <3>1, <4>1, FrameKeeps DEF CommandsFail, lvars, tvars
    <3>2. CASE Crash
      BY <2>3, <3>2, CrashKeeps DEF CommandsFail
    <3>3. QED
      BY <2>3, <3>1, <3>2 DEF CommandsFail
  <2>4. CASE Started(l)
    BY <2>4, StartedKeeps
  <2>5. CASE Register(l)
    BY <2>5, RegisterKeeps
  <2>6. QED
    BY <1>7, <2>1, <2>2, <2>3, <2>4, <2>5 DEF SpawnStep
<1>8. ASSUME NEW l \in Launchers, handle_control(l) PROVE IInv'
  <2>1. reads[l] # 0 /\ UNCHANGED <<lst, result, got, down, dpc, backlog, g_spawns, reads, exits>>
    BY <1>8 DEF handle_control, lvars, dvars
  <2>2. CASE SIGKILLed(g_spawns[reads[l]])
    BY <2>1, <2>2, ControlKeeps
  <2>3. CASE UNCHANGED tvars
    BY <2>1, <2>3, FrameKeeps DEF tvars
  <2>4. QED
    BY <1>8, <2>2, <2>3 DEF handle_control
<1>9. ASSUME NEW l \in Launchers, TargetExited(l) PROVE IInv'
  BY <1>9, TargetExitedKeeps
<1>10. QED
  BY <1>1, <1>2, <1>3, <1>4, <1>5, <1>6, <1>7, <1>8, <1>9 DEF Next

\* The invariant holds at first.
LEMMA InitHolds ==
  ASSUME Init
  PROVE  IInv
<1>1. dpc.at = "loop" /\ backlog \in Seq(Launchers) /\ Len(backlog) = 0
  BY DEF Init, Loop
<1>2. Types
  <2>1. <<>> \in Seq({"started", "0", "2"})
    OBVIOUS
  <2>2. QED
    BY <1>1, <2>1 DEF Init, Types
<1>3. Backlog
  BY <1>1 DEF Backlog
<1>4. ASSUME NEW l \in Launchers PROVE Followed(l)
  <2>1. ~Queued(l) /\ ~Serving(l) /\ ~Forked(l) /\ ~Execing(l) /\ Away(l)
    BY <1>1 DEF Init, Queued, Serving, Forked, Execing, Away
  <2>2. Place(l)
    BY <2>1 DEF Init, Place
  <2>3. Slotted(l)
    BY <2>1, ShellspawnAssumption DEF Init, Slotted, Unattended
  <2>4. down[l] = <<>> /\ Len(down[l]) = 0 /\ got[l] = 0 /\ lst[l] = "idle"
    BY DEF Init
  <2>5. Written(l) /\ Read(l)
    BY <2>1, <2>4 DEF Written, Read
  <2>6. QED
    BY <2>2, <2>3, <2>5 DEF Followed
<1>5. QED
  BY <1>2, <1>3, <1>4 DEF IInv

\* Wherever a launcher is, the daemon and it agree on it.
THEOREM ShellspawnFollowed == Spec => []IInv
<1>1. Init => IInv
  BY InitHolds
<1>2. IInv /\ [Next]_vars => IInv'
  BY StepKeeps
<1>3. QED
  BY <1>1, <1>2, PTL DEF Spec

\* TargetsAttended: between two events of the daemon's kqueue, each target that is
\* neither reaped nor an orphan has a slot of its own and both its filters, and
\* finish_spawn left none of the others.
THEOREM ShellspawnAttended == Spec => []TargetsAttended
<1>1. IInv => TargetsAttended
  <2>1. SUFFICES ASSUME IInv, At("loop"), NEW l \in Launchers
                 PROVE  IF tgt[l] \in {"none", "reaped"} \/ l \in orphans
                        THEN reads[l] = 0 /\ exits[l] = 0 /\ \A s \in Slots : g_spawns[s] # l
                        ELSE Attended(l)
    BY DEF TargetsAttended
  <2>2. Slotted(l) /\ ~Forked(l)
    BY <2>1 DEF IInv, Followed, At, Forked
  <2>3. CASE Away(l)
    BY <2>2, <2>3 DEF Slotted, Unattended, Away
  <2>4. CASE ~Away(l)
    <3>1. OwnSlot(l)
      BY <2>2, <2>4 DEF Slotted
    <3>2. Attended(l)
      BY <3>1, ShellspawnAssumption DEF OwnSlot, Attended, Slots
    <3>3. QED
      BY <2>4, <3>2 DEF Away
  <2>5. QED
    BY <2>3, <2>4
<1>2. QED
  BY <1>1, ShellspawnFollowed, PTL

\* CodeTrue: the code that shell_loop exits with is the one finish_spawn wrote for
\* that launcher's own target, after "started".
THEOREM ShellspawnCode == Spec => []CodeTrue
<1>1. IInv => CodeTrue
  <2>1. SUFFICES ASSUME IInv, NEW l \in Launchers
                 PROVE  /\ got[l] = 2 => tgt[l] = "reaped" /\ result[l] = WEXITSTATUS(wstatus[l])
                        /\ down[l] # <<>> => down[l][1] = "started" /\ Len(down[l]) <= 2
    BY DEF CodeTrue
  <2>2. Written(l) /\ Read(l) /\ down[l] \in Seq({"started", "0", "2"}) /\ Len(down[l]) \in Nat
    BY <2>1 DEF IInv, Followed, Types
  <2>3. ASSUME got[l] = 2 PROVE tgt[l] = "reaped" /\ result[l] = WEXITSTATUS(wstatus[l])
    <3>1. Len(down[l]) = 2
      <4>1. PICK n \in Nat : n = Len(down[l])
        BY <2>2
      <4>2. n <= 2
        BY <2>2, <4>1 DEF Written
      <4>3. 2 <= n
        BY <2>2, <2>3, <4>1 DEF Read
      <4>4. n = 2
        BY <4>2, <4>3
      <4>5. QED
        BY <4>1, <4>4
    <3>2. QED
      BY <2>2, <2>3, <3>1 DEF Written, Read
  <2>4. ASSUME down[l] # <<>> PROVE down[l][1] = "started" /\ Len(down[l]) <= 2
    <3>1. Len(down[l]) > 0
      BY <2>2, <2>4, EmptySeq
    <3>2. QED
      BY <2>2, <3>1 DEF Written
  <2>5. QED
    BY <2>3, <2>4
<1>2. QED
  BY <1>1, ShellspawnFollowed, PTL
=============================================================================
