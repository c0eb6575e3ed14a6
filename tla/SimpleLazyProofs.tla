-------------------------- MODULE SimpleLazyProofs --------------------------
(***************************************************************************)
(* libsimple's once and reader-writer lock, for every finite set of threads *)
(* and any number of calls: what is made with once is made once and before  *)
(* its first use, and the lock's word counts who is inside.                 *)
(***************************************************************************)
EXTENDS SimpleLazy, Integers, FiniteSetTheorems, TLAPS

-----------------------------------------------------------------------------
(* libsimple_once *)

OncePlaces == {"start", "callback", "complete", "wakeall", "returned", "mark", "wait",
               "asleep", "load"}

\* One caller at most is between its claim of the word and its completion of it; the
\* callback has returned just when that caller is past it; and nobody returns
\* before the word is completed.
OnceInv ==
  /\ opc \in [Threads -> OncePlaces]
  /\ once \in {O!untriggered, O!triggered_uncontended, O!triggered_contended, O!completed}
  /\ ran \in {0, 1}
  /\ once = O!untriggered => ran = 0
  /\ once = O!completed => ran = 1
  /\ \A t \in Threads :
       /\ opc[t] # "start" => once # O!untriggered
       /\ opc[t] = "callback" => ran = 0
       /\ opc[t] = "complete" => ran = 1 /\ once # O!completed
       /\ opc[t] \in {"wakeall", "returned"} => once = O!completed
  /\ \A t, u \in Threads : opc[t] \in {"callback", "complete"} /\ opc[u] \in {"callback", "complete"} =>
       t = u

\* Where the switch of libsimple_once sends a caller, and that it returns only on completed.
LEMMA EvaluateType ==
  ASSUME NEW w \in {O!triggered_uncontended, O!triggered_contended, O!completed}
  PROVE  /\ O!Evaluate(w) \in {"returned", "mark", "wait"}
         /\ O!Evaluate(w) = "returned" => w = O!completed
BY DEF O!Evaluate, O!triggered_uncontended, O!triggered_contended, O!completed

\* Every step of libsimple_once keeps its invariant.
LEMMA OnceInvStep ==
  ASSUME OnceInv, NEW t \in Threads, O!Trigger(t) \/ O!Interrupted(t) \/ O!Step(t)
  PROVE  OnceInv'
<1> USE DEF OnceInv, OncePlaces, O!Go,
        O!untriggered, O!triggered_uncontended, O!triggered_contended, O!completed
\* A caller that read the word w goes where the switch sends it.
<1>1. ASSUME once # O!untriggered, opc[t] \in {"start", "mark", "load"},
             O!Go(t, O!Evaluate(once)), once' = once, ran' = ran
      PROVE  OnceInv'
  <2>1. /\ O!Evaluate(once) \in {"returned", "mark", "wait"}
        /\ O!Evaluate(once) = "returned" => once = O!completed
    BY <1>1, EvaluateType
  <2> QED BY <1>1, <2>1
<1>2. CASE O!Trigger(t)
  <2>1. CASE once = O!untriggered
    BY <1>2, <2>1 DEF O!Trigger
  <2>2. CASE once # O!untriggered
    BY <1>1, <1>2, <2>2 DEF O!Trigger
  <2> QED BY <2>1, <2>2
<1>3. CASE O!Interrupted(t)
  BY <1>3 DEF O!Interrupted
<1>4. CASE O!Callback(t)
  BY <1>4 DEF O!Callback
<1>5. CASE O!Complete(t)
  BY <1>5 DEF O!Complete
<1>6. CASE O!WakeAll(t)
  BY <1>6 DEF O!WakeAll
<1>7. CASE O!BecomeWaiter(t)
  <2>1. CASE once = O!triggered_uncontended
    BY <1>7, <2>1 DEF O!BecomeWaiter
  <2>2. CASE once # O!triggered_uncontended
    BY <1>1, <1>7, <2>2 DEF O!BecomeWaiter
  <2> QED BY <2>1, <2>2
<1>8. CASE O!FutexWait(t)
  BY <1>8 DEF O!FutexWait
<1>9. CASE O!Reload(t)
  BY <1>1, <1>9 DEF O!Reload
<1> QED BY <1>2, <1>3, <1>4, <1>5, <1>6, <1>7, <1>8, <1>9 DEF O!Step

\* The callback runs once, and every return from libsimple_once comes after it.
THEOREM OnceMadeBeforeUse == LazySpec => []MadeBeforeUse
<1>1. LazyInit => OnceInv
  BY DEF LazyInit, O!Init, OnceInv, OncePlaces,
     O!untriggered, O!triggered_uncontended, O!triggered_contended, O!completed
<1>2. OnceInv /\ [LazyNext]_lazyVars => OnceInv'
  <2> SUFFICES ASSUME OnceInv, [LazyNext]_lazyVars PROVE OnceInv'
    OBVIOUS
  <2>1. CASE UNCHANGED onceVars
    BY <2>1 DEF OnceInv, onceVars
  <2>2. ASSUME NEW t \in Threads, OnceStep(t) PROVE OnceInv'
    BY <2>2, OnceInvStep DEF OnceStep
  <2> QED BY <2>1, <2>2 DEF LazyNext, RwlockStep, lazyVars
<1>3. OnceInv => MadeBeforeUse
  BY DEF OnceInv, MadeBeforeUse
<1> QED BY <1>1, <1>2, <1>3, PTL DEF LazySpec

-----------------------------------------------------------------------------
(* libsimple_rwlock *)

RwWords == [readers : Nat, locked_write : BOOLEAN, need_to_wake : BOOLEAN]

RwInv ==
  /\ pc \in [Threads -> Places]
  /\ word \in RwWords /\ state2 \in [Threads -> RwWords]
  /\ WordCountsHolders

\* The fields of a word that is put together.
LEMMA WordType ==
  ASSUME NEW n \in Nat, NEW w \in BOOLEAN, NEW need \in BOOLEAN
  PROVE  /\ Word(n, w, need) \in RwWords
         /\ Word(n, w, need).readers = n /\ Word(n, w, need).locked_write = w
BY DEF Word, RwWords

\* The sleepers of a futex are finitely many.
LEMMA AsleepFinite ==
  ASSUME NEW p PROVE IsFiniteSet(Asleep(p)) /\ Cardinality(Asleep(p)) \in Nat
BY SimpleRwlockAssumption, FS_Subset, FS_CardinalityType DEF Asleep

\* A step that nobody comes in or goes out by, and that keeps the count.
LEMMA InsideSame ==
  ASSUME RwInv, pc' \in [Threads -> Places], state2' \in [Threads -> RwWords],
         word' \in RwWords, word'.readers = word.readers,
         word'.locked_write = word.locked_write,
         \A u \in Threads : \/ pc'[u] = pc[u]
                            \/ {pc[u], pc'[u]} \cap {"reading", "writing"} = {}
  PROVE  RwInv'
<1>1. Asleep("reading")' = Asleep("reading") /\ Asleep("writing")' = Asleep("writing")
  BY DEF Asleep
<1> QED BY <1>1 DEF RwInv, WordCountsHolders

\* t comes in to read.
LEMMA ReaderIn ==
  ASSUME RwInv, NEW t \in Threads, pc[t] \notin {"reading", "writing"},
         ~word.locked_write, state2' \in [Threads -> RwWords],
         word' = [word EXCEPT !.readers = @ + 1], pc' = [pc EXCEPT ![t] = "reading"]
  PROVE  RwInv'
<1>1. pc' \in [Threads -> Places] /\ word' \in RwWords /\ word'.readers = word.readers + 1
      /\ ~word'.locked_write /\ word.readers \in Nat
  BY DEF RwInv, Places, RwWords
<1>2. Asleep("reading")' = Asleep("reading") \cup {t} /\ Asleep("writing")' = Asleep("writing")
      /\ t \notin Asleep("reading")
  BY DEF Asleep, RwInv
<1>3. Cardinality(Asleep("reading") \cup {t}) = Cardinality(Asleep("reading")) + 1
  BY <1>2, FS_AddElement, AsleepFinite
<1> QED BY <1>1, <1>2, <1>3 DEF RwInv, WordCountsHolders

\* t comes in to write.
LEMMA WriterIn ==
  ASSUME RwInv, NEW t \in Threads, pc[t] \notin {"reading", "writing"},
         ~word.locked_write, word.readers = 0, state2' \in [Threads -> RwWords],
         word' \in RwWords, word'.locked_write, word'.readers = 0,
         pc' = [pc EXCEPT ![t] = "writing"]
  PROVE  RwInv'
<1>1. pc' \in [Threads -> Places]
  BY DEF RwInv, Places
<1>2. Asleep("writing") = {}
  BY AsleepFinite, FS_EmptySet DEF RwInv, WordCountsHolders
<1>3. Asleep("reading")' = Asleep("reading") /\ Asleep("writing")' = {t}
  BY <1>2 DEF Asleep, RwInv
<1>4. Cardinality({t}) = 1
  BY FS_Singleton
<1> QED BY <1>1, <1>3, <1>4 DEF RwInv, WordCountsHolders

\* Every step of the read-write lock keeps its invariant.
LEMMA RwInvStep ==
  ASSUME RwInv, NEW t \in Threads, Call(t) \/ Interrupted(t) \/ Step(t)
  PROVE  RwInv'
<1> USE DEF Go, Read
<1>0. Zero \in RwWords /\ Zero.readers = 0 /\ ~Zero.locked_write
  BY WordType DEF Zero
<1>1. CASE lock_read(t)
  BY <1>1, InsideSame DEF lock_read, Begin, RwInv, Places, ReadPlaces
<1>2. CASE ReadLoop(t)
  <2> DEFINE s == state2[t]
  <2>1. s \in RwWords /\ pc[t] = "r"
    BY <1>2 DEF ReadLoop, RwInv
  <2>2. CASE Read(t, word) /\ UNCHANGED <<word, pc>>
    BY <2>2, InsideSame DEF RwInv
  <2>3. CASE word = s /\ ~s.locked_write /\ Exchange(t, [s EXCEPT !.readers = @ + 1], "reading")
    <3>1. [s EXCEPT !.readers = @ + 1] \in RwWords
      BY <2>1 DEF RwWords
    <3>2. state2' \in [Threads -> RwWords]
      BY <2>3, <3>1 DEF Exchange, RwInv
    <3> QED BY <2>1, <2>3, <3>2, ReaderIn DEF Exchange
  <2>4. CASE word = s /\ s.locked_write /\ Exchange(t, Word(0, TRUE, TRUE), "rwait")
    <3>1. Word(0, TRUE, TRUE) \in RwWords /\ Word(0, TRUE, TRUE).readers = 0
          /\ Word(0, TRUE, TRUE).locked_write
      BY WordType
    <3>2. word.readers = 0 /\ word.locked_write /\ word.locked_write \in BOOLEAN
      BY <2>1, <2>4 DEF RwInv, WordCountsHolders, RwWords
    <3> QED BY <2>1, <2>4, <3>1, <3>2, InsideSame DEF Exchange, RwInv, Places, ReadPlaces, RwWords
  <2>5. CASE pc' = [pc EXCEPT ![t] = "rwait"] /\ UNCHANGED <<word, state2>>
    BY <2>1, <2>5, InsideSame DEF RwInv, Places, ReadPlaces
  <2> QED BY <1>2, <2>2, <2>3, <2>4, <2>5 DEF ReadLoop, Exchange
<1>3. ASSUME ReadWaits(t) \/ WriteWaits(t) PROVE RwInv'
  BY <1>0, <1>3, InsideSame DEF ReadWaits, WriteWaits, FutexWait, RwInv, Places, ReadPlaces,
     WritePlaces
<1>4. CASE try_lock_read(t)
  BY <1>4, ReaderIn DEF try_lock_read, Begin, RwInv
<1>5. CASE unlock_read(t)
  <2>1. t \in Asleep("reading") /\ Asleep("reading")' = Asleep("reading") \ {t}
        /\ Asleep("writing")' = Asleep("writing") /\ pc' \in [Threads -> Places]
    BY <1>5 DEF unlock_read, Asleep, RwInv, Places
  <2>2. Cardinality(Asleep("reading") \ {t}) = Cardinality(Asleep("reading")) - 1
        /\ Cardinality(Asleep("reading") \ {t}) \in Nat
    BY <2>1, FS_RemoveElement, FS_CardinalityType, AsleepFinite
  <2>3. word.readers = Cardinality(Asleep("reading")) /\ word.readers \in Nat
    BY DEF RwInv, WordCountsHolders, RwWords
  <2>4. word.readers # 0
    BY <2>2, <2>3
  <2>5. word' \in RwWords /\ word'.readers = word.readers - 1 /\ ~word'.locked_write
        /\ word'.locked_write = word.locked_write
    BY <1>5, <2>2, <2>3, <2>4 DEF unlock_read, RwInv, WordCountsHolders, RwWords
  <2> QED BY <1>5, <2>1, <2>2, <2>3, <2>5 DEF unlock_read, RwInv, WordCountsHolders
<1>6. CASE ClearNeed(t)
  <2>1. Word(0, FALSE, TRUE).readers = 0 /\ Word(0, FALSE, TRUE).locked_write = FALSE
        /\ Zero.locked_write = FALSE
    BY WordType DEF Zero
  <2>2. word' \in RwWords /\ word'.readers = word.readers /\ word'.locked_write = word.locked_write
    BY <1>0, <1>6, <2>1 DEF ClearNeed, RwInv
  <2> QED BY <1>6, <2>2, InsideSame DEF ClearNeed, RwInv, Places
<1>7. ASSUME lock_write(t) \/ try_lock_write(t) PROVE RwInv'
  <2>1. CASE word = Zero /\ word' = Word(0, TRUE, FALSE)
    <3>1. /\ Word(0, TRUE, FALSE) \in RwWords /\ Word(0, TRUE, FALSE).readers = 0
          /\ Word(0, TRUE, FALSE).locked_write
      BY WordType
    <3>2. word # word'
      BY <1>0, <2>1, <3>1
    <3> QED BY <1>0, <1>7, <2>1, <3>1, <3>2, WriterIn DEF lock_write, try_lock_write, Begin, RwInv
  <2>2. CASE word # Zero /\ lock_write(t)
    BY <2>2, InsideSame DEF lock_write, Begin, RwInv, Places, WritePlaces
  <2> QED BY <1>7, <2>1, <2>2 DEF lock_write, try_lock_write
<1>8. CASE WriteLoop(t)
  <2> DEFINE s == state2[t]
  <2>1. s \in RwWords /\ pc[t] = "w"
    BY <1>8 DEF WriteLoop, RwInv
  <2>2. CASE Read(t, word) /\ UNCHANGED <<word, pc>>
    BY <2>2, InsideSame DEF RwInv
  <2>3. CASE /\ word = s /\ s.readers = 0 /\ ~s.locked_write
             /\ Exchange(t, Word(0, TRUE, TRUE), "writing")
    <3>1. Word(0, TRUE, TRUE) \in RwWords /\ Word(0, TRUE, TRUE).readers = 0
          /\ Word(0, TRUE, TRUE).locked_write
      BY WordType
    <3> QED BY <2>1, <2>3, <3>1, WriterIn DEF Exchange, RwInv
  <2>4. CASE word = s /\ Exchange(t, [s EXCEPT !.need_to_wake = TRUE], "wwait")
    <3>1. /\ [s EXCEPT !.need_to_wake = TRUE] \in RwWords
          /\ [s EXCEPT !.need_to_wake = TRUE].readers = s.readers
          /\ [s EXCEPT !.need_to_wake = TRUE].locked_write = s.locked_write
      BY <2>1 DEF RwWords
    <3> QED BY <2>1, <2>4, <3>1, InsideSame DEF Exchange, RwInv, Places, WritePlaces
  <2>5. CASE pc' = [pc EXCEPT ![t] = "wwait"] /\ UNCHANGED <<word, state2>>
    BY <2>1, <2>5, InsideSame DEF RwInv, Places, WritePlaces
  <2> QED BY <1>8, <2>2, <2>3, <2>4, <2>5 DEF WriteLoop, Exchange
<1>9. CASE unlock_write(t)
  <2>1. t \in Asleep("writing")
    BY <1>9 DEF unlock_write, Asleep
  <2>2. Cardinality(Asleep("writing")) # 0
    BY <2>1, AsleepFinite, FS_EmptySet
  <2>3. word.locked_write /\ word.readers = 0 /\ Cardinality(Asleep("writing")) = 1
    BY <2>2 DEF RwInv, WordCountsHolders
  <2>4. Asleep("writing") = {t}
    BY <2>1, <2>3, AsleepFinite, FS_Singleton
  <2>5. pc' \in [Threads -> Places] /\ Asleep("writing")' = {} /\ Asleep("reading")' = Asleep("reading")
    BY <1>9, <2>4 DEF unlock_write, Asleep, RwInv, Places
  <2>6. Cardinality({}) = 0
    BY FS_EmptySet
  <2> QED BY <1>0, <1>9, <2>3, <2>5, <2>6 DEF unlock_write, RwInv, WordCountsHolders
<1>10. CASE WakeReaders(t)
  BY <1>0, <1>10, InsideSame DEF WakeReaders, Asleep, RwInv, Places, ReadPlaces
<1>11. CASE WakeWriter(t)
  BY <1>0, <1>11, InsideSame DEF WakeWriter, Asleep, RwInv, Places, WritePlaces
<1>12. CASE Interrupted(t)
  BY <1>0, <1>12, InsideSame DEF Interrupted, RwInv, Places, ReadPlaces, WritePlaces
<1> QED BY <1>1, <1>2, <1>3, <1>4, <1>5, <1>6, <1>7, <1>8, <1>9, <1>10, <1>11, <1>12
    DEF Call, Step

\* A writer is alone, and the word of the read-write lock counts its holders, however
\* readers and writers come, wait, are woken and go.
THEOREM RwlockWordCounts == LazySpec => []WordCountsHolders
<1>1. LazyInit => RwInv
  <2> SUFFICES ASSUME Init PROVE RwInv
    BY DEF LazyInit
  <2>1. Zero \in RwWords /\ Zero.readers = 0 /\ Zero.locked_write = FALSE
    BY WordType DEF Zero
  <2>2. Asleep("reading") = {} /\ Asleep("writing") = {}
    BY DEF Init, Asleep
  <2>3. Cardinality({}) = 0
    BY FS_EmptySet
  <2> QED BY <2>1, <2>2, <2>3 DEF Init, RwInv, WordCountsHolders, Places
<1>2. RwInv /\ [LazyNext]_lazyVars => RwInv'
  <2> SUFFICES ASSUME RwInv, [LazyNext]_lazyVars PROVE RwInv'
    OBVIOUS
  <2>1. CASE UNCHANGED vars
    BY <2>1 DEF vars, RwInv, WordCountsHolders, Asleep
  <2>2. ASSUME NEW t \in Threads, RwlockStep(t) PROVE RwInv'
    BY <2>2, RwInvStep DEF RwlockStep
  <2> QED BY <2>1, <2>2 DEF LazyNext, OnceStep, lazyVars
<1>3. RwInv => WordCountsHolders
  BY DEF RwInv
<1> QED BY <1>1, <1>2, <1>3, PTL DEF LazySpec
=============================================================================
