------------------------------- MODULE Mutex -------------------------------
(***************************************************************************)
(* What a lock promises its callers, whatever it is built on: one owner at  *)
(* a time, ownership is given only to a thread that asked for it, and a     *)
(* free lock that somebody wants is given to somebody.                      *)
(***************************************************************************)
CONSTANTS Threads, NoOwner

VARIABLES
  owner,  \* the thread that holds the lock
  wants   \* the threads that have asked for it

vars == <<owner, wants>>

Init == owner = NoOwner /\ wants = {}

\* Threads ask for the lock, several at once when a wakeup makes them.
Request(S) ==
  /\ S \cap (wants \cup {owner}) = {}
  /\ wants' = wants \cup S
  /\ UNCHANGED owner

Acquire(t) ==
  /\ owner = NoOwner /\ t \in wants
  /\ owner' = t /\ wants' = wants \ {t}

\* A thread that finds the lock free has it at once.
AcquireAtOnce(t) ==
  /\ owner = NoOwner /\ t \notin wants
  /\ owner' = t /\ UNCHANGED wants

Release(t) ==
  /\ owner = t
  /\ owner' = NoOwner /\ UNCHANGED wants

Next ==
  \/ \E S \in SUBSET Threads : Request(S)
  \/ \E t \in Threads : Acquire(t) \/ AcquireAtOnce(t) \/ Release(t)

Spec == Init /\ [][Next]_vars

\* Somebody gets a free lock that is wanted.
Progress == (owner = NoOwner /\ wants # {}) ~> (owner # NoOwner)
=============================================================================
