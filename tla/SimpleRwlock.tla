---------------------------- MODULE SimpleRwlock ----------------------------
(***************************************************************************)
(* libsimple's reader-writer lock: one word that holds the number of        *)
(* readers, a bit for a writer and a bit for "somebody has to be woken",    *)
(* and a futex on which readers and writers sleep under different bits of   *)
(* a bitset.  Each atomic operation and each futex call is a step; a caller *)
(* carries the word it last read (state2).                                  *)
(*                                                                          *)
(* A weak compare-and-exchange may fail without a reason, and a sleeper may *)
(* return without having been woken.                                        *)
(***************************************************************************)
EXTENDS Naturals, FiniteSets

CONSTANTS
  Threads,
  MaxCalls  \* bound: calls of all threads

ASSUME SimpleRwlockAssumption == IsFiniteSet(Threads) /\ MaxCalls \in Nat

VARIABLES
  pc,      \* where each thread is
  word,    \* the lock's word
  state2,  \* the word a thread last read
  calls    \* calls begun so far

vars == <<pc, word, state2, calls>>

Word(readers, writer, need) ==
  [readers |-> readers, locked_write |-> writer, need_to_wake |-> need]
Zero == Word(0, FALSE, FALSE)

ReadPlaces  == {"r", "rwait", "rasleep"}
WritePlaces == {"w", "wwait", "wasleep"}
Places == {"out", "reading", "writing", "ru2", "ru3", "wu2", "wu3"} \cup ReadPlaces \cup WritePlaces

Go(t, p) == pc' = [pc EXCEPT ![t] = p]
Read(t, v) == state2' = [state2 EXCEPT ![t] = v]

\* A caller begins.
Begin(t) ==
  /\ pc[t] = "out" /\ calls < MaxCalls
  /\ calls' = calls + 1

\* A compare-and-exchange of state2 for v by t: on to p, or the word is read again.
Exchange(t, v, p) ==
  IF word = state2[t]
  THEN word' = v /\ Read(t, v) /\ Go(t, p)
  ELSE Read(t, word) /\ UNCHANGED <<word, pc>>

-----------------------------------------------------------------------------
(* Readers. *)

lock_read(t) ==
  /\ Begin(t)
  /\ Read(t, word) /\ Go(t, "r")
  /\ UNCHANGED word

\* Mutant: readers come in while a writer waits or writes.
ReadLoopUnchecked(t) ==
  /\ pc[t] = "r"
  /\ Exchange(t, [state2[t] EXCEPT !.readers = @ + 1], "reading")
  /\ UNCHANGED calls

\* One round of the loop: come in, or see to it that the word asks for a wakeup
\* and wait.
ReadLoop(t) ==
  /\ pc[t] = "r"
  /\ LET s == state2[t]
     IN \/ /\ ~s.locked_write /\ ~s.need_to_wake
           /\ Exchange(t, [s EXCEPT !.readers = @ + 1], "reading")
        \/ /\ s.locked_write /\ ~s.need_to_wake
           /\ \/ Exchange(t, Word(0, TRUE, TRUE), "rwait")
              \/ Read(t, word) /\ UNCHANGED <<word, pc>>
        \/ /\ s.need_to_wake
           /\ Go(t, "rwait") /\ UNCHANGED <<word, state2>>
  /\ UNCHANGED calls

\* FUTEX_WAIT_BITSET.  Awake again, a caller expects to find nothing.
FutexWait(t, from, asleep, again) ==
  /\ pc[t] = from
  /\ IF word = state2[t]
     THEN Go(t, asleep) /\ UNCHANGED state2
     ELSE Go(t, again) /\ Read(t, Zero)
  /\ UNCHANGED <<word, calls>>

ReadWaits(t) == FutexWait(t, "rwait", "rasleep", "r")

\* A failure changes nothing.
try_lock_read(t) ==
  /\ Begin(t)
  /\ ~word.locked_write /\ ~word.need_to_wake
  /\ word' = [word EXCEPT !.readers = @ + 1]
  /\ Go(t, "reading")
  /\ UNCHANGED state2

unlock_read(t) ==
  /\ pc[t] = "reading"
  /\ word' = [word EXCEPT !.readers = @ - 1]
  /\ Go(t, IF word.readers = 1 /\ word.need_to_wake THEN "ru2" ELSE "out")
  /\ UNCHANGED <<state2, calls>>

\* The last reader clears the bit, if it is all there is.
ClearNeed(t) ==
  /\ pc[t] = "ru2"
  /\ word' \in (IF word = Word(0, FALSE, TRUE) THEN {Zero, word} ELSE {word})
  /\ Go(t, "ru3")
  /\ UNCHANGED <<state2, calls>>

-----------------------------------------------------------------------------
(* Writers. *)

lock_write(t) ==
  /\ Begin(t)
  /\ IF word = Zero
     THEN word' = Word(0, TRUE, FALSE) /\ Go(t, "writing") /\ UNCHANGED state2
     ELSE Read(t, word) /\ Go(t, "w") /\ UNCHANGED word

\* Mutant: the writer forgets that others may be asleep.
WriteLoopNoNeed(t) ==
  /\ pc[t] = "w"
  /\ LET s == state2[t]
         free == s.readers = 0 /\ ~s.locked_write
     IN \/ free /\ Exchange(t, Word(0, TRUE, FALSE), "writing")
        \/ ~free /\ ~s.need_to_wake /\ Exchange(t, [s EXCEPT !.need_to_wake = TRUE], "wwait")
        \/ ~free /\ s.need_to_wake /\ Go(t, "wwait") /\ UNCHANGED <<word, state2>>
  /\ UNCHANGED calls

\* One round of the loop.  A writer that did not come in at once takes the lock
\* with the bit set, because it cannot know who else sleeps.
WriteLoop(t) ==
  /\ pc[t] = "w"
  /\ LET s == state2[t]
         free == s.readers = 0 /\ ~s.locked_write
     IN \/ free /\ Exchange(t, Word(0, TRUE, TRUE), "writing")
        \/ ~free /\ ~s.need_to_wake /\ Exchange(t, [s EXCEPT !.need_to_wake = TRUE], "wwait")
        \/ ~free /\ s.need_to_wake /\ Go(t, "wwait") /\ UNCHANGED <<word, state2>>
  /\ UNCHANGED calls

WriteWaits(t) == FutexWait(t, "wwait", "wasleep", "w")

try_lock_write(t) ==
  /\ Begin(t)
  /\ word = Zero
  /\ word' = Word(0, TRUE, FALSE) /\ Go(t, "writing")
  /\ UNCHANGED state2

unlock_write(t) ==
  /\ pc[t] = "writing"
  /\ word' = Zero
  /\ Go(t, IF word.need_to_wake THEN "wu2" ELSE "out")
  /\ UNCHANGED <<state2, calls>>

-----------------------------------------------------------------------------
(* Wakeups. *)

Asleep(p) == {u \in Threads : pc[u] = p}

\* FUTEX_WAKE_BITSET, all readers.
WakeReaders(t) ==
  /\ pc[t] = "wu2"
  /\ pc' = [u \in Threads |-> IF u = t THEN "wu3"
                              ELSE IF u \in Asleep("rasleep") THEN "r" ELSE pc[u]]
  /\ state2' = [u \in Threads |-> IF u \in Asleep("rasleep") THEN Zero ELSE state2[u]]
  /\ UNCHANGED <<word, calls>>

\* FUTEX_WAKE_BITSET, one writer.
WakeWriter(t) ==
  /\ pc[t] \in {"ru3", "wu3"}
  /\ \/ Asleep("wasleep") = {} /\ Go(t, "out") /\ UNCHANGED state2
     \/ \E u \in Asleep("wasleep") :
          pc' = [pc EXCEPT ![t] = "out", ![u] = "w"] /\ Read(u, Zero)
  /\ UNCHANGED <<word, calls>>

\* A sleeper returns without having been woken.
Interrupted(t) ==
  /\ pc[t] \in {"rasleep", "wasleep"}
  /\ Go(t, IF pc[t] = "rasleep" THEN "r" ELSE "w") /\ Read(t, Zero)
  /\ UNCHANGED <<word, calls>>

-----------------------------------------------------------------------------
Init ==
  /\ pc = [t \in Threads |-> "out"]
  /\ word = Zero
  /\ state2 = [t \in Threads |-> Zero]
  /\ calls = 0

\* The steps of an operation that t has begun, and the unlock that follows it.
Step(t) ==
  \/ ReadLoop(t) \/ ReadWaits(t) \/ unlock_read(t) \/ ClearNeed(t)
  \/ WriteLoop(t) \/ WriteWaits(t) \/ unlock_write(t)
  \/ WakeReaders(t) \/ WakeWriter(t)

Call(t) == lock_read(t) \/ try_lock_read(t) \/ lock_write(t) \/ try_lock_write(t)

Next == \E t \in Threads : Call(t) \/ Interrupted(t) \/ Step(t)

Spec == Init /\ [][Next]_vars

\* A thread that is awake in an operation goes on with it.
FairSpec == Spec /\ \A t \in Threads : WF_vars(Step(t))

-----------------------------------------------------------------------------
(* Properties. *)

Words == [readers : 0..Cardinality(Threads), locked_write : BOOLEAN, need_to_wake : BOOLEAN]

\* Every variable has its type: the word never counts more readers than threads.
TypeOK ==
  /\ pc \in [Threads -> Places]
  /\ word \in Words /\ state2 \in [Threads -> Words]
  /\ calls \in 0..MaxCalls

\* A writer is alone, and the word counts who is inside: no reader is forgotten
\* when a waiting reader or writer rewrites the word.
WordCountsHolders ==
  /\ word.readers = Cardinality(Asleep("reading"))
  /\ Cardinality(Asleep("writing")) = IF word.locked_write THEN 1 ELSE 0
  /\ word.locked_write => word.readers = 0

\* Whoever waits comes in once the calls of the others are over: no reader or
\* writer stays asleep on a word that nobody will change.
EverybodyComesIn ==
  \A t \in Threads : pc[t] \in ReadPlaces \cup WritePlaces ~> pc[t] \in {"reading", "writing"}
=============================================================================
