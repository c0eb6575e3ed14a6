----------------------------- MODULE SimpleLazy -----------------------------
(***************************************************************************)
(* The program that libsimple's once and reader-writer lock are made for:   *)
(* something that its first user makes, with libsimple_once, and that all   *)
(* use under a libsimple_rwlock afterwards.  The two share their threads    *)
(* and nothing else.                                                        *)
(***************************************************************************)
EXTENDS SimpleRwlock

VARIABLES once, opc, ran

O == INSTANCE SimpleOnce

onceVars == <<once, opc, ran>>
lazyVars == <<vars, onceVars>>

LazyInit == Init /\ O!Init

\* A thread in libsimple_once.
OnceStep(t) ==
  /\ O!Trigger(t) \/ O!Interrupted(t) \/ O!Step(t)
  /\ UNCHANGED vars

\* A thread that has returned from it.
RwlockStep(t) ==
  /\ opc[t] = "returned"
  /\ Call(t) \/ Interrupted(t) \/ Step(t)
  /\ UNCHANGED onceVars

LazyNext == \E t \in Threads : OnceStep(t) \/ RwlockStep(t)

\* A thread that is awake in an operation goes on with it.
LazySpec ==
  /\ LazyInit /\ [][LazyNext]_lazyVars
  /\ \A t \in Threads :
       /\ WF_lazyVars(O!Step(t) /\ UNCHANGED vars)
       /\ WF_lazyVars(Step(t) /\ UNCHANGED onceVars)

-----------------------------------------------------------------------------
\* The callback runs once, and nobody gets as far as the lock before it has
\* returned: not the caller that ran it, not one that waited, not a late one.
MadeBeforeUse ==
  /\ ran <= 1
  /\ \A t \in Threads : opc[t] = "returned" => ran = 1

\* Whoever called libsimple_once returns from it: no caller stays asleep on a word
\* that has become completed.
OnceReturns == \A t \in Threads : opc[t] # "start" ~> opc[t] = "returned"
=============================================================================
