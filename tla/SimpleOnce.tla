----------------------------- MODULE SimpleOnce -----------------------------
(***************************************************************************)
(* libsimple_once: the first caller runs the callback, the others wait on a *)
(* futex until it has returned.  Steps and futexes as in SimpleLock; xtrace *)
(* has a copy of the same code.                                             *)
(***************************************************************************)
EXTENDS Naturals

CONSTANT Threads

VARIABLES
  once,  \* the word
  opc,   \* where each thread is in libsimple_once
  ran    \* how often the callback has returned

untriggered           == 0
triggered_uncontended == 1
triggered_contended   == 2
completed             == 3

Go(t, p) == opc' = [opc EXCEPT ![t] = p]

\* The switch on the word that a caller read, when it is not the first.
Evaluate(w) == CASE w = completed             -> "returned"
                 [] w = triggered_uncontended -> "mark"
                 [] w = triggered_contended   -> "wait"

\* Mutant: the first caller's test and its claim are not one operation.
TriggerUnclaimed(t) ==
  /\ opc[t] = "start"
  /\ Go(t, IF once = untriggered THEN "callback" ELSE Evaluate(once))
  /\ UNCHANGED <<once, ran>>

Trigger(t) ==
  /\ opc[t] = "start"
  /\ IF once = untriggered
     THEN once' = triggered_uncontended /\ Go(t, "callback")
     ELSE Go(t, Evaluate(once)) /\ UNCHANGED once
  /\ UNCHANGED ran

Callback(t) ==
  /\ opc[t] = "callback"
  /\ ran' = ran + 1 /\ Go(t, "complete")
  /\ UNCHANGED once

Complete(t) ==
  /\ opc[t] = "complete"
  /\ once' = completed
  /\ Go(t, IF once = triggered_contended THEN "wakeall" ELSE "returned")
  /\ UNCHANGED ran

\* FUTEX_WAKE, all sleepers.
WakeAll(t) ==
  /\ opc[t] = "wakeall"
  /\ opc' = [u \in Threads |-> IF u = t THEN "returned"
                               ELSE IF opc[u] = "asleep" THEN "load" ELSE opc[u]]
  /\ UNCHANGED <<once, ran>>

\* Mutant: a caller sleeps without having marked the word.
BecomeWaiterUnmarked(t) ==
  /\ opc[t] = "mark"
  /\ Go(t, IF once = triggered_uncontended THEN "asleep" ELSE Evaluate(once))
  /\ UNCHANGED <<once, ran>>

\* Become the first waiter, if the callback is still running without one.
BecomeWaiter(t) ==
  /\ opc[t] = "mark"
  /\ IF once = triggered_uncontended
     THEN once' = triggered_contended /\ Go(t, "wait")
     ELSE Go(t, Evaluate(once)) /\ UNCHANGED once
  /\ UNCHANGED ran

FutexWait(t) ==
  /\ opc[t] = "wait"
  /\ Go(t, IF once = triggered_contended THEN "asleep" ELSE "load")
  /\ UNCHANGED <<once, ran>>

Reload(t) ==
  /\ opc[t] = "load"
  /\ Go(t, Evaluate(once))
  /\ UNCHANGED <<once, ran>>

\* A sleeper returns without having been woken.
Interrupted(t) ==
  /\ opc[t] = "asleep"
  /\ Go(t, "load")
  /\ UNCHANGED <<once, ran>>

Init ==
  /\ once = untriggered
  /\ opc = [t \in Threads |-> "start"]
  /\ ran = 0

Step(t) ==
  \/ Callback(t) \/ Complete(t) \/ WakeAll(t)
  \/ BecomeWaiter(t) \/ FutexWait(t) \/ Reload(t)

=============================================================================
