--------------------------- MODULE PCQueueProofs ----------------------------
(***************************************************************************)
(* Proofs about PCQueue for every number of sessions, every capacity,      *)
(* every size_t width and every bound on the requests; types, mutual       *)
(* exclusion and the count for every number of producers, too.             *)
(***************************************************************************)
EXTENDS PCQueue, FiniteSetTheorems, SequenceTheorems, TLAPS

-----------------------------------------------------------------------------
(* Arithmetic of the ring and of the size_t.                               *)

\* Stepping an index of the ring: the next slot, or slot 0 after the last.
LEMMA NextSlotCases ==
    ASSUME NEW i \in Slots
    PROVE  NextSlot(i) = IF i + 1 = Capacity THEN 0 ELSE i + 1
<1>1. CASE i + 1 = Capacity
  BY <1>1, QueueAssumption DEF Slots, NextSlot
<1>2. CASE i + 1 # Capacity
  BY <1>2, QueueAssumption DEF Slots, NextSlot
<1> QED
  BY <1>1, <1>2

\* Both counts of pcq_current_size stay size_t values.
LEMMA CountTypes ==
    ASSUME NEW n \in 0 .. SizeMod - 1
    PROVE  Incr(n) \in 0 .. SizeMod - 1 /\ Decr(n) \in 0 .. SizeMod - 1
  BY QueueAssumption DEF Incr, Decr

-----------------------------------------------------------------------------
(* Type correctness.                                                       *)

\* Every step of pcq_enqueue and of the thread that calls it keeps the types.
LEMMA EnqueueType ==
    ASSUME TypeOK, NEW t \in Producers, Enqueue(t)
    PROVE  TypeOK'
<1> USE DEF TypeOK, Threads, Mutexes, Condvars, PCs, EnqueuePCs, DequeuePCs,
            Goto, Lock, Unlock, Release, Sleep, Wake, Signal,
            ring, locks, hist
<1>1. CASE Parse(t)
  BY <1>1, QueueAssumption DEF Parse, Requests
<1>2. CASE EnqueueLock(t)
  BY <1>2 DEF EnqueueLock
<1>3. CASE EnqueueTest(t)
  BY <1>3 DEF EnqueueTest
<1>4. CASE EnqueueSleep(t)
  BY <1>4 DEF EnqueueSleep
<1>5. CASE EnqueueWake(t)
  BY <1>5 DEF EnqueueWake
<1>6. CASE EnqueueUnlock(t)
  BY <1>6 DEF EnqueueUnlock
<1>7. CASE EnqueueLockTail(t)
  BY <1>7 DEF EnqueueLockTail
<1>8. CASE EnqueueStore(t)
  BY <1>8 DEF EnqueueStore
<1>9. CASE EnqueueAdvance(t)
  BY <1>9, NextSlotCases, QueueAssumption DEF EnqueueAdvance, Slots
<1>10. CASE EnqueueLockSize(t)
  BY <1>10 DEF EnqueueLockSize
<1>11. CASE EnqueueCount(t)
  BY <1>11, CountTypes DEF EnqueueCount
<1>12. CASE EnqueueLockPopper(t)
  BY <1>12 DEF EnqueueLockPopper
<1>13. CASE EnqueueSignal(t)
  BY <1>13 DEF EnqueueSignal
<1>14. CASE SpuriousWakeup(t, "pusher")
  BY <1>14 DEF SpuriousWakeup
<1> QED
  BY <1>1, <1>2, <1>3, <1>4, <1>5, <1>6, <1>7, <1>8, <1>9, <1>10, <1>11,
     <1>12, <1>13, <1>14 DEF Enqueue

\* Every step of pcq_dequeue and of the session around it keeps the types.
LEMMA DequeueType ==
    ASSUME TypeOK, NEW t \in Consumers, Dequeue(t)
    PROVE  TypeOK'
<1> USE DEF TypeOK, Threads, Mutexes, Condvars, PCs, EnqueuePCs, DequeuePCs,
            Goto, Lock, Unlock, Release, Sleep, Wake, Signal,
            ring, locks, hist
<1>1. CASE DequeueLock(t)
  BY <1>1 DEF DequeueLock
<1>2. CASE DequeueTest(t)
  BY <1>2 DEF DequeueTest
<1>3. CASE DequeueSleep(t)
  BY <1>3 DEF DequeueSleep
<1>4. CASE DequeueWake(t)
  BY <1>4 DEF DequeueWake
<1>5. CASE DequeueUnlock(t)
  BY <1>5 DEF DequeueUnlock
<1>6. CASE DequeueLockHead(t)
  BY <1>6 DEF DequeueLockHead
<1>7. CASE DequeueLoad(t)
  BY <1>7 DEF DequeueLoad
<1>8. CASE DequeueAdvance(t)
  BY <1>8, NextSlotCases, QueueAssumption DEF DequeueAdvance, Slots
<1>9. CASE DequeueLockSize(t)
  BY <1>9 DEF DequeueLockSize
<1>10. CASE DequeueCount(t)
  BY <1>10, CountTypes DEF DequeueCount
<1>11. CASE DequeueLockPusher(t)
  BY <1>11 DEF DequeueLockPusher
<1>12. CASE DequeueSignal(t)
  BY <1>12 DEF DequeueSignal
<1>13. CASE ServeRequest(t)
  BY <1>13 DEF ServeRequest
<1>14. CASE SpuriousWakeup(t, "popper")
  BY <1>14 DEF SpuriousWakeup
<1> QED
  BY <1>1, <1>2, <1>3, <1>4, <1>5, <1>6, <1>7, <1>8, <1>9, <1>10, <1>11,
     <1>12, <1>13, <1>14 DEF Dequeue

LEMMA InitType == Init => TypeOK
  BY QueueAssumption
     DEF Init, TypeOK, Threads, Mutexes, Condvars, PCs, EnqueuePCs,
         DequeuePCs, Slots

\* The queue's variables keep their types: in particular the two indices
\* never leave the buffer, with any number of threads at each end.
THEOREM TypeCorrect == Spec => []TypeOK
<1>1. TypeOK /\ [Next]_vars => TypeOK'
  <2> SUFFICES ASSUME TypeOK, [Next]_vars PROVE TypeOK'
    OBVIOUS
  <2>1. CASE Next
    BY <2>1, EnqueueType, DequeueType DEF Next
  <2>2. CASE UNCHANGED vars
    BY <2>2 DEF TypeOK, vars, ring, locks, hist
  <2> QED
    BY <2>1, <2>2
<1> QED
  BY <1>1, InitType, PTL DEF Spec

-----------------------------------------------------------------------------
(* Mutual exclusion.  It is not inductive by itself: nothing in it stops a  *)
(* thread from locking a mutex whose owner is inside.  OwnerInv says that   *)
(* the thread inside a critical section is the recorded owner.              *)
OwnerInv ==
    \A m \in Mutexes : \A t \in Threads : pc[t] \in Inside(m) => mutex[m] = t

\* A step of pcq_enqueue moves a thread into a critical section only with
\* its mutex, and gives the mutex up only when leaving.
LEMMA EnqueueOwner ==
    ASSUME TypeOK, OwnerInv, NEW t \in Producers, Enqueue(t)
    PROVE  OwnerInv'
<1> USE QueueAssumption
    DEF OwnerInv, Inside, TypeOK, Threads, Mutexes, Condvars,
        Goto, Lock, Unlock, Release, Sleep, Wake, Signal,
        ring, locks, hist
<1>1. CASE Parse(t)
  BY <1>1 DEF Parse
<1>2. CASE EnqueueLock(t)
  BY <1>2 DEF EnqueueLock
<1>3. CASE EnqueueTest(t)
  BY <1>3 DEF EnqueueTest
<1>4. CASE EnqueueSleep(t)
  BY <1>4 DEF EnqueueSleep
<1>5. CASE EnqueueWake(t)
  BY <1>5 DEF EnqueueWake
<1>6. CASE EnqueueUnlock(t)
  BY <1>6 DEF EnqueueUnlock
<1>7. CASE EnqueueLockTail(t)
  BY <1>7 DEF EnqueueLockTail
<1>8. CASE EnqueueStore(t)
  BY <1>8 DEF EnqueueStore
<1>9. CASE EnqueueAdvance(t)
  BY <1>9 DEF EnqueueAdvance
<1>10. CASE EnqueueLockSize(t)
  BY <1>10 DEF EnqueueLockSize
<1>11. CASE EnqueueCount(t)
  BY <1>11 DEF EnqueueCount
<1>12. CASE EnqueueLockPopper(t)
  BY <1>12 DEF EnqueueLockPopper
<1>13. CASE EnqueueSignal(t)
  BY <1>13 DEF EnqueueSignal
<1>14. CASE SpuriousWakeup(t, "pusher")
  BY <1>14 DEF SpuriousWakeup
<1> QED
  BY <1>1, <1>2, <1>3, <1>4, <1>5, <1>6, <1>7, <1>8, <1>9, <1>10,
     <1>11, <1>12, <1>13, <1>14
     DEF Enqueue

\* The same for pcq_dequeue.
LEMMA DequeueOwner ==
    ASSUME TypeOK, OwnerInv, NEW t \in Consumers, Dequeue(t)
    PROVE  OwnerInv'
<1> USE QueueAssumption
    DEF OwnerInv, Inside, TypeOK, Threads, Mutexes, Condvars,
        Goto, Lock, Unlock, Release, Sleep, Wake, Signal,
        ring, locks, hist
<1>1. CASE DequeueLock(t)
  BY <1>1 DEF DequeueLock
<1>2. CASE DequeueTest(t)
  BY <1>2 DEF DequeueTest
<1>3. CASE DequeueSleep(t)
  BY <1>3 DEF DequeueSleep
<1>4. CASE DequeueWake(t)
  BY <1>4 DEF DequeueWake
<1>5. CASE DequeueUnlock(t)
  BY <1>5 DEF DequeueUnlock
<1>6. CASE DequeueLockHead(t)
  BY <1>6 DEF DequeueLockHead
<1>7. CASE DequeueLoad(t)
  BY <1>7 DEF DequeueLoad
<1>8. CASE DequeueAdvance(t)
  BY <1>8 DEF DequeueAdvance
<1>9. CASE DequeueLockSize(t)
  BY <1>9 DEF DequeueLockSize
<1>10. CASE DequeueCount(t)
  BY <1>10 DEF DequeueCount
<1>11. CASE DequeueLockPusher(t)
  BY <1>11 DEF DequeueLockPusher
<1>12. CASE DequeueSignal(t)
  BY <1>12 DEF DequeueSignal
<1>13. CASE ServeRequest(t)
  BY <1>13 DEF ServeRequest
<1>14. CASE SpuriousWakeup(t, "popper")
  BY <1>14 DEF SpuriousWakeup
<1> QED
  BY <1>1, <1>2, <1>3, <1>4, <1>5, <1>6, <1>7, <1>8, <1>9, <1>10,
     <1>11, <1>12, <1>13, <1>14
     DEF Dequeue

\* The critical sections of the five mutexes exclude each other, with any
\* number of producers and sessions.
THEOREM MutexesExclude == Spec => []MutualExclusion
<1>1. Init => OwnerInv
  BY DEF Init, OwnerInv, Inside, Threads, Mutexes
<1>2. TypeOK /\ OwnerInv /\ [Next]_vars => OwnerInv'
  <2> SUFFICES ASSUME TypeOK, OwnerInv, [Next]_vars PROVE OwnerInv'
    OBVIOUS
  <2>1. CASE Next
    BY <2>1, EnqueueOwner, DequeueOwner DEF Next
  <2>2. CASE UNCHANGED vars
    BY <2>2 DEF OwnerInv, vars, locks
  <2> QED
    BY <2>1, <2>2
<1>3. OwnerInv => MutualExclusion
  BY DEF OwnerInv, MutualExclusion
<1> QED
  BY <1>1, <1>2, <1>3, TypeCorrect, PTL DEF Spec

-----------------------------------------------------------------------------
(* The count.  pcq_current_size is changed in a critical section of its    *)
(* own, after the ring has moved; the invariant is the equation itself,    *)
(* and that the operations it corrects for are finitely many.              *)

LEMMA DivisionTheorem ==
    ASSUME NEW n \in Int, NEW m \in Nat \ {0}
    PROVE  /\ n \div m \in Int /\ n % m \in 0 .. m - 1
           /\ n = m * (n \div m) + (n % m)
  OBVIOUS

LEMMA SmallMultiple ==
    ASSUME NEW m \in Nat \ {0}, NEW d \in Int, -m < m * d, m * d < m
    PROVE  d = 0
<1>1. CASE d >= 1
  <2>1. m * d >= m
    BY <1>1
  <2> QED
    BY <2>1
<1>2. CASE d <= -1
  <2>1. m * d <= -m
    BY <1>2
  <2> QED
    BY <2>1
<1> QED
  BY <1>1, <1>2

LEMMA RemainderIsUnique ==
    ASSUME NEW n \in Int, NEW m \in Nat \ {0}, NEW q \in Int,
           NEW r \in 0 .. m - 1, n = m * q + r
    PROVE  n % m = r
<1> DEFINE p == n \div m
           s == n % m
<1>1. p \in Int /\ s \in 0 .. m - 1 /\ n = m * p + s
  BY DivisionTheorem
<1> HIDE DEF p, s
<1>2. m * (p - q) = r - s /\ p - q \in Int /\ -m < r - s /\ r - s < m
  BY <1>1
<1>3. p = q
  BY <1>1, <1>2, SmallMultiple
<1>4. s = r
  BY <1>1, <1>3
<1> QED
  BY <1>4 DEF s

\* Stepping a number steps its remainder, around the end of the range.
LEMMA RemainderSteps ==
    ASSUME NEW n \in Int, NEW m \in Nat \ {0}
    PROVE  /\ (n + 1) % m = IF (n % m) + 1 = m THEN 0 ELSE (n % m) + 1
           /\ (n - 1) % m = IF n % m = 0 THEN m - 1 ELSE (n % m) - 1
<1> DEFINE p == n \div m
           s == n % m
<1>1. p \in Int /\ s \in 0 .. m - 1 /\ n = m * p + s
  BY DivisionTheorem
<1> HIDE DEF p, s
<1>2. (n + 1) % m = IF s + 1 = m THEN 0 ELSE s + 1
  <2>1. CASE s + 1 = m
    <3>1. n + 1 = m * (p + 1) + 0
      BY <1>1, <2>1
    <3> QED
      BY <1>1, <2>1, <3>1, RemainderIsUnique
  <2>2. CASE s + 1 # m
    <3>1. n + 1 = m * p + (s + 1)
      BY <1>1, <2>2
    <3> QED
      BY <1>1, <2>2, <3>1, RemainderIsUnique
  <2> QED
    BY <2>1, <2>2
<1>3. (n - 1) % m = IF s = 0 THEN m - 1 ELSE s - 1
  <2>1. CASE s = 0
    <3>1. n - 1 = m * (p - 1) + (m - 1)
      BY <1>1, <2>1
    <3> QED
      BY <1>1, <2>1, <3>1, RemainderIsUnique
  <2>2. CASE s # 0
    <3>1. n - 1 = m * p + (s - 1)
      BY <1>1, <2>2
    <3> QED
      BY <1>1, <2>2, <3>1, RemainderIsUnique
  <2> QED
    BY <2>1, <2>2
<1> QED
  BY <1>2, <1>3 DEF s

\* Incr and Decr are steps of any integer that the size_t stands for.
LEMMA CountSteps ==
    ASSUME NEW n \in Int
    PROVE  /\ (n + 1) % SizeMod = Incr(n % SizeMod)
           /\ (n - 1) % SizeMod = Decr(n % SizeMod)
<1>1. SizeMod \in Nat \ {0}
  BY QueueAssumption
<1> QED
  BY <1>1, RemainderSteps DEF Incr, Decr

\* What SizeCounts takes the remainder of.
Uncount(S) == Cardinality(Uncounted \cap S)
Balance ==
    Len(stored) - Uncount(Producers) - (Len(taken) - Uncount(Consumers))

CountInv == IsFiniteSet(Uncounted) /\ pcq_current_size = Balance % SizeMod

\* The points after the ring was moved and before that is counted.
Counting == {"e_lockSize", "e_count", "d_lockSize", "d_count"}

LEMMA UncountType ==
    ASSUME CountInv, NEW S
    PROVE  IsFiniteSet(Uncounted \cap S) /\ Uncount(S) \in Nat
<1>1. Uncounted \cap S \subseteq Uncounted /\ IsFiniteSet(Uncounted)
  BY DEF CountInv
<1>2. IsFiniteSet(Uncounted \cap S)
  BY <1>1, FS_Subset
<1> QED
  BY <1>2, FS_CardinalityType DEF Uncount

LEMMA BalanceType ==
    ASSUME TypeOK, CountInv
    PROVE  /\ Len(stored) \in Nat /\ Len(taken) \in Nat
           /\ Uncount(Producers) \in Nat /\ Uncount(Consumers) \in Nat
           /\ Balance \in Int
<1>1. Uncount(Producers) \in Nat /\ Uncount(Consumers) \in Nat
  BY UncountType
<1>2. Len(stored) \in Nat /\ Len(taken) \in Nat
  BY LenProperties DEF TypeOK
<1> QED
  BY <1>1, <1>2 DEF Balance

\* Most steps neither move the ring nor count.
LEMMA StillCounts ==
    ASSUME CountInv, UNCHANGED <<pcq_current_size, stored, taken>>,
           \A t \in Threads : pc'[t] \in Counting <=> pc[t] \in Counting
    PROVE  CountInv' /\ Balance' = Balance
<1>1. Uncounted' = Uncounted
  BY DEF Uncounted, Counting
<1> QED
  BY <1>1 DEF CountInv, Balance, Uncount

\* A thread of set S, and not of R, begins to be uncounted.
LEMMA UncountedGrows ==
    ASSUME TypeOK, CountInv, NEW t \in Threads,
           pc[t] \notin Counting, pc'[t] \in Counting,
           \A u \in Threads \ {t} : pc'[u] = pc[u],
           NEW S, NEW R, t \in S, t \notin R
    PROVE  /\ Uncount(S)' = Uncount(S) + 1 /\ Uncount(R)' = Uncount(R)
           /\ IsFiniteSet(Uncounted')
<1>1. Uncounted' = Uncounted \cup {t} /\ t \notin Uncounted
  BY DEF Uncounted, Counting
<1>2. /\ Uncounted' \cap S = (Uncounted \cap S) \cup {t}
      /\ Uncounted' \cap R = Uncounted \cap R
  BY <1>1
<1>3. Cardinality((Uncounted \cap S) \cup {t}) = Uncount(S) + 1
  BY <1>1, UncountType, FS_AddElement DEF Uncount
<1>4. IsFiniteSet(Uncounted')
  BY <1>1, FS_AddElement DEF CountInv
<1> QED
  BY <1>2, <1>3, <1>4 DEF Uncount

\* ... and ends to be.
LEMMA UncountedShrinks ==
    ASSUME TypeOK, CountInv, NEW t \in Threads,
           pc[t] \in Counting, pc'[t] \notin Counting,
           \A u \in Threads \ {t} : pc'[u] = pc[u],
           NEW S, NEW R, t \in S, t \notin R
    PROVE  /\ Uncount(S)' = Uncount(S) - 1 /\ Uncount(R)' = Uncount(R)
           /\ IsFiniteSet(Uncounted')
<1>1. Uncounted' = Uncounted \ {t} /\ t \in Uncounted
  BY DEF Uncounted, Counting
<1>2. /\ Uncounted' \cap S = (Uncounted \cap S) \ {t}
      /\ Uncounted' \cap R = Uncounted \cap R
  BY <1>1
<1>3. Cardinality((Uncounted \cap S) \ {t}) = Uncount(S) - 1
  BY <1>1, UncountType, FS_RemoveElement DEF Uncount
<1>4. IsFiniteSet(Uncounted')
  BY <1>1, FS_RemoveElement DEF CountInv
<1> QED
  BY <1>2, <1>3, <1>4 DEF Uncount

LEMMA EnqueueCounts ==
    ASSUME TypeOK, CountInv, NEW t \in Producers, Enqueue(t)
    PROVE  /\ CountInv'
           /\ \/ Balance' = Balance
              \/ EnqueueCount(t) /\ Balance' = Balance + 1
<1>1. t \in Threads /\ t \notin Consumers
  BY QueueAssumption DEF Threads
<1>2. CASE EnqueueAdvance(t)
  <2>1. /\ pc[t] = "e_advance" /\ pc'[t] = "e_lockSize"
        /\ \A u \in Threads \ {t} : pc'[u] = pc[u]
        /\ stored' = Append(stored, elem[t])
        /\ UNCHANGED <<pcq_current_size, taken>>
    BY <1>1, <1>2 DEF EnqueueAdvance, Goto, TypeOK
  <2>2. Len(stored') = Len(stored) + 1
    BY <1>1, <2>1, AppendProperties DEF TypeOK
  <2>3. /\ Uncount(Producers)' = Uncount(Producers) + 1
        /\ Uncount(Consumers)' = Uncount(Consumers)
        /\ IsFiniteSet(Uncounted')
    BY <1>1, <2>1, UncountedGrows DEF Counting
  <2>4. Balance' = Balance
    BY <2>1, <2>2, <2>3, BalanceType DEF Balance
  <2> QED
    BY <2>1, <2>3, <2>4 DEF CountInv
<1>3. CASE EnqueueCount(t)
  <2>1. /\ pc[t] = "e_count" /\ pc'[t] = "e_lockPopper"
        /\ \A u \in Threads \ {t} : pc'[u] = pc[u]
        /\ pcq_current_size' = Incr(pcq_current_size)
        /\ UNCHANGED <<stored, taken>>
    BY <1>1, <1>3 DEF EnqueueCount, Goto, TypeOK, hist
  <2>2. /\ Uncount(Producers)' = Uncount(Producers) - 1
        /\ Uncount(Consumers)' = Uncount(Consumers)
        /\ IsFiniteSet(Uncounted')
    BY <1>1, <2>1, UncountedShrinks DEF Counting
  <2>3. Balance' = Balance + 1
    BY <2>1, <2>2, BalanceType DEF Balance
  <2> QED
    BY <1>3, <2>1, <2>2, <2>3, BalanceType, CountSteps DEF CountInv
<1>4. ASSUME ~EnqueueAdvance(t), ~EnqueueCount(t)
      PROVE  CountInv' /\ Balance' = Balance
  <2> USE <1>1 DEF Counting, Goto, Lock, Unlock, Sleep, Wake, Signal, TypeOK,
                   ring, locks, hist
  <2>1. CASE Parse(t) \/ EnqueueTest(t) \/ EnqueueStore(t)
    BY <2>1, StillCounts DEF Parse, EnqueueTest, EnqueueStore
  <2>2. CASE EnqueueLock(t) \/ EnqueueWake(t) \/ EnqueueSleep(t)
    BY <2>2, StillCounts DEF EnqueueLock, EnqueueWake, EnqueueSleep
  <2>3. CASE EnqueueUnlock(t) \/ EnqueueSignal(t)
               \/ SpuriousWakeup(t, "pusher")
    BY <2>3, StillCounts DEF EnqueueUnlock, EnqueueSignal, SpuriousWakeup
  <2>4. CASE EnqueueLockTail(t) \/ EnqueueLockSize(t) \/ EnqueueLockPopper(t)
    BY <2>4, StillCounts
       DEF EnqueueLockTail, EnqueueLockSize, EnqueueLockPopper
  <2> QED
    BY <1>4, <2>1, <2>2, <2>3, <2>4 DEF Enqueue
<1> QED
  BY <1>2, <1>3, <1>4

LEMMA DequeueCounts ==
    ASSUME TypeOK, CountInv, NEW t \in Consumers, Dequeue(t)
    PROVE  CountInv' /\ (Balance' = Balance \/ Balance' = Balance - 1)
<1>1. t \in Threads /\ t \notin Producers
  BY QueueAssumption DEF Threads
<1>2. CASE DequeueAdvance(t)
  <2>1. /\ pc[t] = "d_advance" /\ pc'[t] = "d_lockSize"
        /\ \A u \in Threads \ {t} : pc'[u] = pc[u]
        /\ taken' = Append(taken, elem[t])
        /\ UNCHANGED <<pcq_current_size, stored>>
    BY <1>1, <1>2 DEF DequeueAdvance, Goto, TypeOK
  <2>2. Len(taken') = Len(taken) + 1
    BY <1>1, <2>1, AppendProperties DEF TypeOK
  <2>3. /\ Uncount(Consumers)' = Uncount(Consumers) + 1
        /\ Uncount(Producers)' = Uncount(Producers)
        /\ IsFiniteSet(Uncounted')
    BY <1>1, <2>1, UncountedGrows DEF Counting
  <2>4. Balance' = Balance
    BY <2>1, <2>2, <2>3, BalanceType DEF Balance
  <2> QED
    BY <2>1, <2>3, <2>4 DEF CountInv
<1>3. CASE DequeueCount(t)
  <2>1. /\ pc[t] = "d_count" /\ pc'[t] = "d_lockPusher"
        /\ \A u \in Threads \ {t} : pc'[u] = pc[u]
        /\ pcq_current_size' = Decr(pcq_current_size)
        /\ UNCHANGED <<stored, taken>>
    BY <1>1, <1>3 DEF DequeueCount, Goto, TypeOK, hist
  <2>2. /\ Uncount(Consumers)' = Uncount(Consumers) - 1
        /\ Uncount(Producers)' = Uncount(Producers)
        /\ IsFiniteSet(Uncounted')
    BY <1>1, <2>1, UncountedShrinks DEF Counting
  <2>3. Balance' = Balance - 1
    BY <2>1, <2>2, BalanceType DEF Balance
  <2> QED
    BY <2>1, <2>2, <2>3, BalanceType, CountSteps DEF CountInv
<1>4. ASSUME ~DequeueAdvance(t), ~DequeueCount(t)
      PROVE  CountInv' /\ Balance' = Balance
  <2> USE <1>1 DEF Counting, Goto, Lock, Unlock, Sleep, Wake, Signal, TypeOK,
                   ring, locks, hist
  <2>1. CASE DequeueTest(t) \/ DequeueLoad(t) \/ ServeRequest(t)
    BY <2>1, StillCounts DEF DequeueTest, DequeueLoad, ServeRequest
  <2>2. CASE DequeueLock(t) \/ DequeueWake(t) \/ DequeueSleep(t)
    BY <2>2, StillCounts DEF DequeueLock, DequeueWake, DequeueSleep
  <2>3. CASE DequeueUnlock(t) \/ DequeueSignal(t)
               \/ SpuriousWakeup(t, "popper")
    BY <2>3, StillCounts DEF DequeueUnlock, DequeueSignal, SpuriousWakeup
  <2>4. CASE DequeueLockHead(t) \/ DequeueLockSize(t) \/ DequeueLockPusher(t)
    BY <2>4, StillCounts
       DEF DequeueLockHead, DequeueLockSize, DequeueLockPusher
  <2> QED
    BY <1>4, <2>1, <2>2, <2>3, <2>4 DEF Dequeue
<1> QED
  BY <1>2, <1>3, <1>4

LEMMA CountInvHolds == Spec => []CountInv
<1>1. Init => CountInv
  <2> SUFFICES ASSUME Init
               PROVE  CountInv
    OBVIOUS
  <2>1. Uncounted = {}
    BY DEF Init, Uncounted
  <2>2. \A S : Uncount(S) = 0
    BY <2>1, FS_EmptySet DEF Uncount
  <2>3. Balance = 0
    BY <2>2 DEF Init, Balance
  <2>4. 0 % SizeMod = 0
    BY QueueAssumption
  <2> QED
    BY <2>1, <2>3, <2>4, FS_EmptySet DEF Init, CountInv
<1>2. TypeOK /\ CountInv /\ [Next]_vars => CountInv'
  <2> SUFFICES ASSUME TypeOK, CountInv, [Next]_vars
               PROVE  CountInv'
    OBVIOUS
  <2>1. CASE Next
    BY <2>1, EnqueueCounts, DequeueCounts DEF Next
  <2>2. CASE UNCHANGED vars
    BY <2>2, StillCounts DEF vars, ring, hist
  <2> QED
    BY <2>1, <2>2
<1> QED
  BY <1>1, <1>2, TypeCorrect, PTL DEF Spec

\* For any number of producers and sessions, any capacity and any width of
\* the size_t: pcq_current_size loses no count, even where sessions that race
\* past an empty queue have made it wrap below zero.
THEOREM NoCountIsLost == Spec => []SizeCounts
<1>1. CountInv => SizeCounts
  BY DEF CountInv, SizeCounts, Balance, Uncount
<1> QED
  BY <1>1, CountInvHolds, PTL

-----------------------------------------------------------------------------
(* One producer and any number of sessions.  Both indices are the lengths  *)
(* of the logs, modulo the capacity; a slot has only ever held requests    *)
(* that are its own; and the request that a session has loaded is one of   *)
(* the slot at the head, because no other session moves the head then.     *)

OneProducer == \E p : Producers = {p}

\* pcq_enqueue until the tail has been moved.
Putting == {"e_lock", "e_test", "e_sleep", "e_asleep", "e_unlock",
            "e_lockTail", "e_store", "e_advance"}

\* Requests are put in the ring as they are allocated.
PutInv ==
    /\ \A i \in 1 .. Len(stored) : stored[i] = i
    /\ \A p \in Producers :
         IF pc[p] \in Putting
         THEN allocated = Len(stored) + 1 /\ elem[p] = allocated
         ELSE allocated = Len(stored)

\* A request of slot s, or none yet.
OfSlot(r, s) == r = Uninit \/ r % Capacity = NextSlot(s)

SlotInv ==
    /\ pcq_head = Len(taken) % Capacity
    /\ pcq_tail = Len(stored) % Capacity
    /\ \A s \in Slots : OfSlot(pcq_buffer[s], s)
    /\ \A c \in Consumers : pc[c] = "d_advance" => OfSlot(elem[c], pcq_head)
    /\ SlotDiscipline

RingInv == TypeOK /\ OwnerInv /\ PutInv /\ SlotInv

LEMMA RingSteps ==
    ASSUME NEW n \in Nat
    PROVE  (n + 1) % Capacity = NextSlot(n % Capacity)
<1>1. Capacity \in Nat \ {0} /\ n \in Int
  BY QueueAssumption
<1>2. n % Capacity \in Slots
  BY <1>1, DivisionTheorem DEF Slots
<1> QED
  BY <1>1, <1>2, RemainderSteps, NextSlotCases

\* Most steps leave the ring and the logs alone, and no session loads.
LEMMA CalmKeepsSlots ==
    ASSUME RingInv, OwnerInv', TypeOK',
           UNCHANGED <<pcq_buffer, pcq_head, pcq_tail, stored, taken,
                       allocated>>,
           \A p \in Producers : /\ pc'[p] \in Putting <=> pc[p] \in Putting
                                /\ elem'[p] = elem[p],
           \A c \in Consumers : /\ pc'[c] = "d_advance" => pc'[c] = pc[c]
                                /\ elem'[c] = elem[c]
    PROVE  RingInv'
<1>1. PutInv'
  BY DEF RingInv, PutInv
<1>2. SlotInv'
  BY DEF RingInv, SlotInv, SlotDiscipline, OfSlot
<1> QED
  BY <1>1, <1>2 DEF RingInv

LEMMA EnqueueKeepsSlots ==
    ASSUME RingInv, NEW p, Producers = {p}, Enqueue(p)
    PROVE  RingInv'
<1>1. /\ p \in Producers /\ p \in Threads /\ TypeOK /\ p \notin Consumers
      /\ \A c \in Consumers : c \in Threads /\ c # p
  BY QueueAssumption DEF RingInv, Threads
<1>2. TypeOK' /\ OwnerInv'
  BY <1>1, EnqueueType, EnqueueOwner DEF RingInv
<1>3. Len(stored) \in Nat /\ Len(taken) \in Nat
  BY <1>1, LenProperties DEF TypeOK
<1>4. CASE Parse(p)
  <2>1. /\ pc[p] = "parsing" /\ pc'[p] = "e_lock"
        /\ allocated' = allocated + 1 /\ elem'[p] = allocated + 1
        /\ \A c \in Consumers : pc'[c] = pc[c] /\ elem'[c] = elem[c]
        /\ UNCHANGED <<pcq_buffer, pcq_head, pcq_tail, stored, taken>>
    BY <1>1, <1>4 DEF Parse, Goto, TypeOK, ring
  <2>2. PutInv'
    BY <1>1, <2>1 DEF RingInv, PutInv, Putting
  <2>3. SlotInv'
    BY <2>1 DEF RingInv, SlotInv, SlotDiscipline, OfSlot
  <2> QED
    BY <1>2, <2>2, <2>3 DEF RingInv
<1>5. CASE EnqueueStore(p)
  <2>1. /\ pc[p] = "e_store" /\ pc'[p] = "e_advance"
        /\ pcq_buffer' = [pcq_buffer EXCEPT ![pcq_tail] = elem[p]]
        /\ \A c \in Consumers : pc'[c] = pc[c]
        /\ UNCHANGED <<pcq_head, pcq_tail, stored, taken, elem, allocated>>
    BY <1>1, <1>5 DEF EnqueueStore, Goto, TypeOK, hist
  <2>2. PutInv'
    BY <1>1, <2>1 DEF RingInv, PutInv, Putting
  <2>3. elem[p] = Len(stored) + 1
    BY <1>1, <2>1 DEF RingInv, PutInv, Putting
  <2>4. OfSlot(elem[p], pcq_tail)
    BY <1>3, <2>3, RingSteps DEF RingInv, SlotInv, OfSlot
  <2>5. \A s \in Slots : OfSlot(pcq_buffer[s], s)'
    BY <1>1, <2>1, <2>4 DEF RingInv, SlotInv, OfSlot, TypeOK
  <2>6. SlotInv'
    BY <2>1, <2>5 DEF RingInv, SlotInv, SlotDiscipline, OfSlot
  <2> QED
    BY <1>2, <2>2, <2>6 DEF RingInv
<1>6. CASE EnqueueAdvance(p)
  <2>1. /\ pc[p] = "e_advance" /\ pc'[p] = "e_lockSize"
        /\ pcq_tail' = NextSlot(pcq_tail)
        /\ stored' = Append(stored, elem[p])
        /\ \A c \in Consumers : pc'[c] = pc[c]
        /\ UNCHANGED <<pcq_buffer, pcq_head, taken, elem, allocated>>
    BY <1>1, <1>6 DEF EnqueueAdvance, Goto, TypeOK
  <2>2. /\ Len(stored') = Len(stored) + 1
        /\ \A i \in 1 .. Len(stored) : stored'[i] = stored[i]
        /\ stored'[Len(stored) + 1] = elem[p]
    BY <1>1, <2>1, AppendProperties DEF TypeOK
  <2>3. elem[p] = Len(stored) + 1 /\ allocated = Len(stored) + 1
    BY <1>1, <2>1 DEF RingInv, PutInv, Putting
  <2>4. \A i \in 1 .. Len(stored') : stored'[i] = i
    BY <1>3, <2>2, <2>3 DEF RingInv, PutInv
  <2>5. PutInv'
    BY <2>1, <2>2, <2>3, <2>4 DEF PutInv, Putting
  <2>6. pcq_tail' = Len(stored') % Capacity
    BY <1>3, <2>1, <2>2, RingSteps DEF RingInv, SlotInv
  <2>7. SlotInv'
    BY <2>1, <2>6 DEF RingInv, SlotInv, SlotDiscipline, OfSlot
  <2> QED
    BY <1>2, <2>5, <2>7 DEF RingInv
<1>7. ASSUME ~Parse(p), ~EnqueueStore(p), ~EnqueueAdvance(p)
      PROVE  RingInv'
  <2> USE <1>1, <1>2, CalmKeepsSlots
      DEF Putting, Goto, Lock, Unlock, Sleep, Wake, Signal, TypeOK, ring,
          locks, hist
  <2>1. CASE EnqueueTest(p) \/ EnqueueCount(p)
    BY <2>1 DEF EnqueueTest, EnqueueCount
  <2>2. CASE EnqueueLock(p) \/ EnqueueWake(p) \/ EnqueueSleep(p)
    BY <2>2 DEF EnqueueLock, EnqueueWake, EnqueueSleep
  <2>3. CASE EnqueueUnlock(p) \/ EnqueueSignal(p)
               \/ SpuriousWakeup(p, "pusher")
    BY <2>3 DEF EnqueueUnlock, EnqueueSignal, SpuriousWakeup
  <2>4. CASE EnqueueLockTail(p) \/ EnqueueLockSize(p) \/ EnqueueLockPopper(p)
    BY <2>4 DEF EnqueueLockTail, EnqueueLockSize, EnqueueLockPopper
  <2> QED
    BY <1>7, <2>1, <2>2, <2>3, <2>4 DEF Enqueue
<1> QED
  BY <1>4, <1>5, <1>6, <1>7

LEMMA DequeueKeepsSlots ==
    ASSUME RingInv, NEW c \in Consumers, Dequeue(c)
    PROVE  RingInv'
<1>1. /\ c \in Threads /\ TypeOK
      /\ \A p \in Producers : p \in Threads /\ p # c
  BY QueueAssumption DEF RingInv, Threads
<1>2. TypeOK' /\ OwnerInv'
  BY <1>1, DequeueType, DequeueOwner DEF RingInv
<1>3. Len(stored) \in Nat /\ Len(taken) \in Nat
  BY <1>1, LenProperties DEF TypeOK
<1>4. CASE DequeueLoad(c)
  <2>1. /\ pc[c] = "d_load" /\ elem'[c] = pcq_buffer[pcq_head]
        /\ \A u \in Threads \ {c} : pc'[u] = pc[u] /\ elem'[u] = elem[u]
        /\ UNCHANGED <<pcq_buffer, pcq_head, pcq_tail, stored, taken,
                       allocated>>
    BY <1>1, <1>4 DEF DequeueLoad, Goto, TypeOK, ring, hist
  <2>2. PutInv'
    BY <1>1, <2>1 DEF RingInv, PutInv
  <2>3. OfSlot(pcq_buffer[pcq_head], pcq_head)
    BY <1>1 DEF RingInv, SlotInv, TypeOK
  <2>4. ASSUME NEW u \in Consumers, pc'[u] = "d_advance"
        PROVE  OfSlot(elem'[u], pcq_head)
    <3>1. CASE u = c
      BY <2>1, <2>3, <3>1
    <3>2. CASE u # c
      BY <2>1, <2>4, <3>2 DEF RingInv, SlotInv, Threads
    <3> QED
      BY <3>1, <3>2
  <2>5. SlotInv'
    BY <2>1, <2>4 DEF RingInv, SlotInv, SlotDiscipline, OfSlot
  <2> QED
    BY <1>2, <2>2, <2>5 DEF RingInv
<1>5. CASE DequeueAdvance(c)
  <2>1. /\ pc[c] = "d_advance" /\ pc'[c] = "d_lockSize"
        /\ pcq_head' = NextSlot(pcq_head)
        /\ taken' = Append(taken, elem[c])
        /\ \A u \in Threads \ {c} : pc'[u] = pc[u]
        /\ UNCHANGED <<pcq_buffer, pcq_tail, stored, elem, allocated>>
    BY <1>1, <1>5 DEF DequeueAdvance, Goto, TypeOK
  <2>2. PutInv'
    BY <1>1, <2>1 DEF RingInv, PutInv
  <2>3. /\ Len(taken') = Len(taken) + 1
        /\ \A i \in 1 .. Len(taken) : taken'[i] = taken[i]
        /\ taken'[Len(taken) + 1] = elem[c]
    BY <1>1, <2>1, AppendProperties DEF TypeOK
  <2>4. pcq_head' = Len(taken') % Capacity
    BY <1>3, <2>1, <2>3, RingSteps DEF RingInv, SlotInv
  <2>5. elem[c] = Uninit \/ elem[c] % Capacity = (Len(taken) + 1) % Capacity
    BY <1>3, <2>1, RingSteps DEF RingInv, SlotInv, OfSlot
  <2>6. SlotDiscipline'
    <3> SUFFICES ASSUME NEW i \in 1 .. Len(taken')
                 PROVE  taken'[i] = Uninit
                          \/ taken'[i] % Capacity = i % Capacity
      BY DEF SlotDiscipline
    <3>1. CASE i = Len(taken) + 1
      BY <2>3, <2>5, <3>1
    <3>2. CASE i # Len(taken) + 1
      <4>1. i \in 1 .. Len(taken)
        BY <1>3, <2>3, <3>2
      <4> QED
        BY <2>3, <4>1 DEF RingInv, SlotInv, SlotDiscipline
    <3> QED
      BY <3>1, <3>2
  <2>7. \A u \in Consumers : pc'[u] # "d_advance"
    <3> SUFFICES ASSUME NEW u \in Consumers, pc'[u] = "d_advance"
                 PROVE  FALSE
      OBVIOUS
    <3>1. u \in Threads /\ u # c /\ pc[u] = "d_advance"
      BY <2>1 DEF Threads
    <3>2. mutex["head"] = c /\ mutex["head"] = u
      BY <1>1, <2>1, <3>1 DEF RingInv, OwnerInv, Inside, Mutexes
    <3> QED
      BY <3>1, <3>2
  <2>8. SlotInv'
    BY <2>1, <2>4, <2>6, <2>7 DEF RingInv, SlotInv, OfSlot
  <2> QED
    BY <1>2, <2>2, <2>8 DEF RingInv
<1>6. ASSUME ~DequeueLoad(c), ~DequeueAdvance(c)
      PROVE  RingInv'
  <2>0. Consumers \subseteq Threads
    BY DEF Threads
  <2> USE <1>1, <1>2, <2>0, CalmKeepsSlots
      DEF Goto, Lock, Unlock, Sleep, Wake, Signal, TypeOK, ring, locks, hist
  <2>1. CASE DequeueTest(c) \/ DequeueCount(c) \/ ServeRequest(c)
    BY <2>1 DEF DequeueTest, DequeueCount, ServeRequest
  <2>2. CASE DequeueLock(c) \/ DequeueWake(c) \/ DequeueSleep(c)
    BY <2>2 DEF DequeueLock, DequeueWake, DequeueSleep
  <2>3. CASE DequeueUnlock(c) \/ DequeueSignal(c)
               \/ SpuriousWakeup(c, "popper")
    BY <2>3 DEF DequeueUnlock, DequeueSignal, SpuriousWakeup
  <2>4. CASE DequeueLockHead(c) \/ DequeueLockSize(c) \/ DequeueLockPusher(c)
    BY <2>4 DEF DequeueLockHead, DequeueLockSize, DequeueLockPusher
  <2> QED
    BY <1>6, <2>1, <2>2, <2>3, <2>4 DEF Dequeue
<1> QED
  BY <1>4, <1>5, <1>6

LEMMA InitRing == Init => RingInv
<1> SUFFICES ASSUME Init
             PROVE  RingInv
  OBVIOUS
<1>1. 0 % Capacity = 0
  BY QueueAssumption
<1>2. PutInv
  BY DEF Init, PutInv, Threads, Putting
<1>3. ASSUME NEW c \in Consumers
      PROVE  pc[c] = "d_lock"
  BY QueueAssumption DEF Init, Threads
<1>4. SlotInv
  BY <1>1, <1>3 DEF Init, SlotInv, OfSlot, SlotDiscipline
<1>5. OwnerInv
  BY DEF Init, OwnerInv, Inside, Threads, Mutexes
<1> QED
  BY <1>2, <1>4, <1>5, InitType DEF RingInv

\* With one producer, the ring and the logs of pcq_enqueue and pcq_dequeue
\* are in step.
THEOREM RingInvHolds == OneProducer /\ Spec => []RingInv
<1>1. OneProducer => []OneProducer
  <2>1. OneProducer => OneProducer'
    BY DEF OneProducer
  <2> QED
    BY <2>1, PTL
<1>2. OneProducer /\ RingInv /\ [Next]_vars => RingInv'
  <2> SUFFICES ASSUME OneProducer, RingInv, [Next]_vars
               PROVE  RingInv'
    OBVIOUS
  <2>1. PICK p : Producers = {p}
    BY DEF OneProducer
  <2>2. CASE Next
    BY <2>1, <2>2, EnqueueKeepsSlots, DequeueKeepsSlots DEF Next
  <2>3. CASE UNCHANGED vars
    <3>1. TypeOK' /\ OwnerInv'
      BY <2>3 DEF RingInv, TypeOK, OwnerInv, vars, ring, locks, hist
    <3> QED
      BY <2>3, <3>1, CalmKeepsSlots DEF vars, ring, hist
  <2> QED
    BY <2>2, <2>3
<1> QED
  BY <1>1, <1>2, InitRing, PTL DEF Spec

\* With the broker's one producer and any number of sessions, however they
\* race, even past the end of what was stored: the i-th dequeue comes out
\* with a request of the i-th position of the ring, or with what a slot held
\* before its first store.
THEOREM SessionsKeepToSlots == OneProducer /\ Spec => []SlotDiscipline
<1>1. RingInv => SlotDiscipline
  BY DEF RingInv, SlotInv
<1> QED
  BY <1>1, RingInvHolds, PTL

-----------------------------------------------------------------------------
(* Wakeups, with one producer and any number of sessions.  A session that  *)
(* has found the queue empty and does not sleep yet still holds the mutex  *)
(* of its condition variable, so the signal for what is stored after its   *)
(* test comes after its sleep.  When it found the queue empty, whatever    *)
(* was in the ring had been stored and not counted: the size, which the    *)
(* sessions may have counted below zero but nobody above the capacity, is  *)
(* zero only when it is really zero or less.                               *)

\* A session that sleeps or is about to.
Drowsy == waiting["popper"] # {} \/ \E t \in Consumers : pc[t] = "d_sleep"

ComingPCs == {"e_lockSize", "e_count", "e_lockPopper", "e_signal", "d_lock",
              "d_test", "d_unlock", "d_lockHead", "d_load", "d_advance"}

\* Past the test of the wait loop, and not counted.
Adding == {"e_unlock", "e_lockTail", "e_store", "e_advance", "e_lockSize",
           "e_count"}

AwaitedInv == Drowsy => Len(stored) - Len(taken) <= Cardinality(Coming)

\* With one producer, the size counted without wrapping stays in the queue.
RoomInv(p) ==
    Balance <= Capacity /\ (pc[p] \in Adding => Balance < Capacity)

BlockedInv(p) ==
    /\ waiting["popper"] \subseteq Consumers /\ waiting["pusher"] \subseteq {p}
    /\ \A t \in waiting["popper"] : pc[t] = "d_asleep"
    /\ p \in waiting["pusher"] => pc[p] = "e_asleep"
    /\ \A t \in Consumers : pc[t] \in DequeuePCs \cup {"session", "ended"}
    /\ pc[p] \in EnqueuePCs \cup {"parsing"}

RoomSignalled(p) ==
    (pc[p] = "e_sleep" \/ p \in waiting["pusher"])
      /\ pcq_current_size # Capacity =>
        \E t \in Consumers : pc[t] \in {"d_lockPusher", "d_signal"}

WakeFor(p) ==
    AwaitedInv /\ RoomInv(p) /\ BlockedInv(p) /\ RoomSignalled(p)

LEMMA ComingFinite ==
    ASSUME OneProducer
    PROVE  IsFiniteSet(Coming) /\ Cardinality(Coming) \in Nat
<1>1. PICK p : Producers = {p}
  BY DEF OneProducer
<1>2. IsFiniteSet(Consumers \cup {p})
  BY QueueAssumption, FS_AddElement
<1>3. Coming \subseteq Consumers \cup {p}
  BY <1>1 DEF Coming, Threads
<1>4. IsFiniteSet(Coming)
  BY <1>2, <1>3, FS_Subset
<1> QED
  BY <1>4, FS_CardinalityType

LEMMA ComingFiniteNext ==
    ASSUME OneProducer
    PROVE  IsFiniteSet(Coming') /\ Cardinality(Coming') \in Nat
<1>1. PICK p : Producers = {p}
  BY DEF OneProducer
<1>2. IsFiniteSet(Consumers \cup {p})
  BY QueueAssumption, FS_AddElement
<1>3. Coming' \subseteq Consumers \cup {p}
  BY <1>1 DEF Coming, Threads
<1>4. IsFiniteSet(Coming')
  BY <1>2, <1>3, FS_Subset
<1> QED
  BY <1>4, FS_CardinalityType

\* A step after which everyone who came comes.
LEMMA NobodyTurnsBack ==
    ASSUME OneProducer, AwaitedInv, UNCHANGED <<stored, taken>>,
           Drowsy' => Drowsy, Coming \subseteq Coming'
    PROVE  AwaitedInv'
<1>1. Cardinality(Coming) <= Cardinality(Coming')
  BY ComingFiniteNext, FS_Subset
<1> QED
  BY <1>1, ComingFinite, ComingFiniteNext, LenProperties DEF AwaitedInv

-----------------------------------------------------------------------------
(* Where the threads are, and what the size says of the room.              *)

LEMMA EnqueueBlocks ==
    ASSUME TypeOK, NEW p, Producers = {p}, BlockedInv(p), Enqueue(p)
    PROVE  BlockedInv(p)'
<1>1. p \in Threads /\ p \notin Consumers
  BY QueueAssumption DEF Threads
<1> USE <1>1 DEF BlockedInv, TypeOK, Threads, Condvars, EnqueuePCs,
                 DequeuePCs, Goto
<1>2. CASE Parse(p) \/ EnqueueTest(p)
  BY <1>2 DEF Parse, EnqueueTest, locks
<1>3. CASE EnqueueLock(p) \/ EnqueueWake(p) \/ EnqueueUnlock(p)
  BY <1>3 DEF EnqueueLock, EnqueueWake, EnqueueUnlock, Lock, Wake, Unlock
<1>4. CASE EnqueueLockTail(p) \/ EnqueueLockSize(p) \/ EnqueueLockPopper(p)
  BY <1>4 DEF EnqueueLockTail, EnqueueLockSize, EnqueueLockPopper, Lock
<1>5. CASE EnqueueSleep(p)
  BY <1>5 DEF EnqueueSleep, Sleep
<1>6. CASE EnqueueStore(p) \/ EnqueueAdvance(p) \/ EnqueueCount(p)
  BY <1>6 DEF EnqueueStore, EnqueueAdvance, EnqueueCount, locks
<1>7. CASE EnqueueSignal(p)
  BY <1>7 DEF EnqueueSignal, Signal
<1>8. CASE SpuriousWakeup(p, "pusher")
  BY <1>8 DEF SpuriousWakeup
<1> QED
  BY <1>2, <1>3, <1>4, <1>5, <1>6, <1>7, <1>8 DEF Enqueue

LEMMA DequeueBlocks ==
    ASSUME TypeOK, NEW p, Producers = {p}, BlockedInv(p),
           NEW c \in Consumers, Dequeue(c)
    PROVE  BlockedInv(p)'
<1>1. p \in Threads /\ c \in Threads /\ p # c
  BY QueueAssumption DEF Threads
<1> USE <1>1 DEF BlockedInv, TypeOK, Threads, Condvars, EnqueuePCs,
                 DequeuePCs, Goto
<1>2. CASE DequeueTest(c) \/ DequeueLoad(c) \/ ServeRequest(c)
  BY <1>2 DEF DequeueTest, DequeueLoad, ServeRequest, locks
<1>3. CASE DequeueLock(c) \/ DequeueWake(c) \/ DequeueUnlock(c)
  BY <1>3 DEF DequeueLock, DequeueWake, DequeueUnlock, Lock, Wake, Unlock
<1>4. CASE DequeueLockHead(c) \/ DequeueLockSize(c) \/ DequeueLockPusher(c)
  BY <1>4 DEF DequeueLockHead, DequeueLockSize, DequeueLockPusher, Lock
<1>5. CASE DequeueSleep(c)
  BY <1>5 DEF DequeueSleep, Sleep
<1>6. CASE DequeueAdvance(c) \/ DequeueCount(c)
  BY <1>6 DEF DequeueAdvance, DequeueCount
<1>7. CASE DequeueSignal(c)
  BY <1>7 DEF DequeueSignal, Signal
<1>8. CASE SpuriousWakeup(c, "popper")
  BY <1>8 DEF SpuriousWakeup
<1> QED
  BY <1>2, <1>3, <1>4, <1>5, <1>6, <1>7, <1>8 DEF Dequeue

\* The size is the capacity when the uncounted size is, and only then zero
\* when it is zero or less.
LEMMA SizeSays ==
    ASSUME TypeOK, CountInv, NEW p, RoomInv(p)
    PROVE  /\ Balance \in Int
           /\ pcq_current_size # Capacity => Balance < Capacity
           /\ pcq_current_size = 0 => Balance <= 0
<1>1. /\ Capacity \in Nat \ {0} /\ SizeMod \in Nat \ {0} /\ SizeMod > Capacity
      /\ Balance \in Int /\ Balance <= Capacity
      /\ pcq_current_size = Balance % SizeMod
  BY QueueAssumption, BalanceType DEF RoomInv, CountInv
<1>2. Balance >= 0 => Balance % SizeMod = Balance
  <2> SUFFICES ASSUME Balance >= 0
               PROVE  Balance % SizeMod = Balance
    OBVIOUS
  <2>1. Balance \in 0 .. SizeMod - 1 /\ Balance = SizeMod * 0 + Balance
    BY <1>1
  <2> QED
    BY <1>1, <2>1, RemainderIsUnique
<1> QED
  BY <1>1, <1>2

LEMMA EnqueueRooms ==
    ASSUME TypeOK, CountInv, NEW p, Producers = {p}, BlockedInv(p),
           RoomInv(p), Enqueue(p)
    PROVE  RoomInv(p)'
<1>1. p \in Threads /\ Capacity \in Nat \ {0}
  BY QueueAssumption DEF Threads
<1>2. /\ \/ Balance' = Balance
         \/ EnqueueCount(p) /\ Balance' = Balance + 1
      /\ Balance \in Int
  BY EnqueueCounts, BalanceType
<1>3. CASE EnqueueCount(p)
  <2>1. pc[p] = "e_count" /\ pc'[p] = "e_lockPopper"
    BY <1>1, <1>3 DEF EnqueueCount, Goto, TypeOK
  <2> QED
    BY <1>1, <1>2, <2>1 DEF RoomInv, Adding
<1>4. CASE EnqueueTest(p)
  <2>1. /\ pc[p] = "e_test" /\ ~EnqueueCount(p)
        /\ pc'[p] \in Adding => pcq_current_size # Capacity
    BY <1>1, <1>4 DEF EnqueueTest, EnqueueCount, Goto, TypeOK, Adding
  <2> QED
    BY <1>2, <2>1, SizeSays DEF RoomInv
<1>5. ASSUME ~EnqueueCount(p), ~EnqueueTest(p)
      PROVE  RoomInv(p)'
  <2>1. pc'[p] \in Adding => pc[p] \in Adding
    <3> USE <1>1 DEF Adding, Goto, TypeOK
    <3>1. CASE Parse(p) \/ EnqueueLock(p) \/ EnqueueWake(p) \/ EnqueueSleep(p)
      BY <3>1 DEF Parse, EnqueueLock, EnqueueWake, EnqueueSleep, Lock, Wake,
                  Sleep
    <3>2. CASE EnqueueUnlock(p) \/ EnqueueSignal(p)
                 \/ SpuriousWakeup(p, "pusher")
      BY <3>2 DEF EnqueueUnlock, EnqueueSignal, SpuriousWakeup, Unlock, Signal
    <3>3. CASE EnqueueLockTail(p) \/ EnqueueLockSize(p) \/ EnqueueLockPopper(p)
      BY <3>3 DEF EnqueueLockTail, EnqueueLockSize, EnqueueLockPopper, Lock
    <3>4. CASE EnqueueStore(p) \/ EnqueueAdvance(p)
      BY <3>4 DEF EnqueueStore, EnqueueAdvance
    <3> QED
      BY <1>5, <3>1, <3>2, <3>3, <3>4 DEF Enqueue
  <2> QED
    BY <1>2, <1>5, <2>1 DEF RoomInv
<1> QED
  BY <1>3, <1>4, <1>5

LEMMA DequeueRooms ==
    ASSUME TypeOK, CountInv, NEW p, Producers = {p}, RoomInv(p),
           NEW c \in Consumers, Dequeue(c)
    PROVE  RoomInv(p)'
<1>1. p \in Threads /\ c \in Threads /\ p # c /\ Capacity \in Nat \ {0}
  BY QueueAssumption DEF Threads
<1>2. (Balance' = Balance \/ Balance' = Balance - 1) /\ Balance \in Int
  BY DequeueCounts, BalanceType
<1>3. pc'[p] = pc[p]
  BY <1>1 DEF Dequeue, DequeueLock, DequeueTest, DequeueSleep, DequeueWake,
     DequeueUnlock, DequeueLockHead, DequeueLoad, DequeueAdvance,
     DequeueLockSize, DequeueCount, DequeueLockPusher, DequeueSignal,
     ServeRequest, SpuriousWakeup, Goto, Lock, Unlock, Sleep, Wake, Signal,
     TypeOK
<1> QED
  BY <1>1, <1>2, <1>3 DEF RoomInv

\* The producer blocks beside a free slot only until a session signals.
LEMMA EnqueueSignalled ==
    ASSUME TypeOK, NEW p, Producers = {p}, BlockedInv(p), RoomSignalled(p),
           Enqueue(p)
    PROVE  RoomSignalled(p)'
<1>1. p \in Threads /\ p \notin Consumers
  BY QueueAssumption DEF Threads
<1> USE <1>1 DEF RoomSignalled, BlockedInv, TypeOK, Threads, Condvars,
                 EnqueuePCs, Goto
<1>2. CASE Parse(p) \/ EnqueueTest(p)
  BY <1>2 DEF Parse, EnqueueTest, locks, ring
<1>3. CASE EnqueueLock(p) \/ EnqueueWake(p) \/ EnqueueUnlock(p)
  BY <1>3 DEF EnqueueLock, EnqueueWake, EnqueueUnlock, Lock, Wake, Unlock
<1>4. CASE EnqueueLockTail(p) \/ EnqueueLockSize(p) \/ EnqueueLockPopper(p)
  BY <1>4 DEF EnqueueLockTail, EnqueueLockSize, EnqueueLockPopper, Lock
<1>5. CASE EnqueueSleep(p)
  BY <1>5 DEF EnqueueSleep, Sleep, ring
<1>6. CASE EnqueueStore(p) \/ EnqueueAdvance(p) \/ EnqueueCount(p)
  BY <1>6 DEF EnqueueStore, EnqueueAdvance, EnqueueCount, locks
<1>7. CASE EnqueueSignal(p)
  BY <1>7 DEF EnqueueSignal, Signal
<1>8. CASE SpuriousWakeup(p, "pusher")
  BY <1>8 DEF SpuriousWakeup, ring
<1> QED
  BY <1>2, <1>3, <1>4, <1>5, <1>6, <1>7, <1>8 DEF Enqueue

LEMMA DequeueSignals ==
    ASSUME TypeOK, MutualExclusion, NEW p, Producers = {p}, BlockedInv(p),
           RoomSignalled(p), NEW c \in Consumers, Dequeue(c)
    PROVE  RoomSignalled(p)'
<1>1. p \in Threads /\ c \in Threads /\ p # c
  BY QueueAssumption DEF Threads
<1>2. ~(pc[p] = "e_sleep" /\ pc[c] = "d_signal")
  BY <1>1 DEF MutualExclusion, Inside, Mutexes
<1> USE <1>1 DEF RoomSignalled, BlockedInv, TypeOK, Threads, Condvars, Goto
<1>3. CASE DequeueTest(c) \/ DequeueLoad(c) \/ ServeRequest(c)
  BY <1>3 DEF DequeueTest, DequeueLoad, ServeRequest, locks, ring
<1>4. CASE DequeueLock(c) \/ DequeueWake(c) \/ DequeueUnlock(c)
  BY <1>4 DEF DequeueLock, DequeueWake, DequeueUnlock, Lock, Wake, Unlock,
              ring
<1>5. CASE DequeueLockHead(c) \/ DequeueLockSize(c) \/ DequeueLockPusher(c)
  BY <1>5 DEF DequeueLockHead, DequeueLockSize, DequeueLockPusher, Lock, ring
<1>6. CASE DequeueSleep(c)
  BY <1>6 DEF DequeueSleep, Sleep, ring
<1>7. CASE DequeueAdvance(c)
  BY <1>7 DEF DequeueAdvance
<1>8. CASE DequeueCount(c)
  BY <1>8 DEF DequeueCount
<1>9. CASE DequeueSignal(c)
  BY <1>2, <1>9 DEF DequeueSignal, Signal
<1>10. CASE SpuriousWakeup(c, "popper")
  BY <1>10 DEF SpuriousWakeup, ring
<1> QED
  BY <1>3, <1>4, <1>5, <1>6, <1>7, <1>8, <1>9, <1>10 DEF Dequeue

-----------------------------------------------------------------------------
(* Each request in the ring has a thread that comes for it.                *)

LEMMA LogSizes ==
    ASSUME TypeOK
    PROVE  Len(stored) \in Nat /\ Len(taken) \in Nat
  BY LenProperties DEF TypeOK

LEMMA EnqueueAwaited ==
    ASSUME TypeOK, MutualExclusion, NEW p, Producers = {p}, BlockedInv(p),
           AwaitedInv, Enqueue(p)
    PROVE  AwaitedInv'
<1>1. /\ p \in Threads /\ p \notin Consumers /\ OneProducer
      /\ \A t \in Consumers : t \in Threads /\ t # p
  BY QueueAssumption DEF Threads, OneProducer
<1>2. CASE EnqueueAdvance(p)
  <2>1. /\ pc[p] = "e_advance" /\ pc'[p] = "e_lockSize"
        /\ \A t \in Threads \ {p} : pc'[t] = pc[t]
        /\ stored' = Append(stored, elem[p])
        /\ UNCHANGED <<taken, waiting>>
    BY <1>1, <1>2 DEF EnqueueAdvance, Goto, TypeOK
  <2>2. Len(stored') = Len(stored) + 1
    BY <1>1, <2>1, AppendProperties DEF TypeOK
  <2>3. Coming' = Coming \cup {p} /\ p \notin Coming
    BY <1>1, <2>1 DEF Coming
  <2>4. Cardinality(Coming') = Cardinality(Coming) + 1
    BY <1>1, <2>3, ComingFinite, FS_AddElement
  <2>5. Drowsy' => Drowsy
    BY <1>1, <2>1 DEF Drowsy
  <2> QED
    BY <1>1, <2>1, <2>2, <2>4, <2>5, ComingFinite, LogSizes DEF AwaitedInv
<1>3. CASE EnqueueSignal(p)
  <2>1. /\ pc[p] = "e_signal" /\ pc'[p] = "parsing"
        /\ \A t \in Threads \ {p} : pc'[t] = pc[t]
        /\ UNCHANGED <<stored, taken>>
    BY <1>1, <1>3 DEF EnqueueSignal, Signal, Goto, TypeOK, hist
  <2>2. CASE waiting["popper"] = {}
    <3>1. waiting' = waiting
      BY <1>3, <2>2 DEF EnqueueSignal, Signal
    <3>2. \A t \in Consumers : pc[t] # "d_sleep"
      BY <1>1, <2>1 DEF MutualExclusion, Inside, Mutexes
    <3>3. ~Drowsy'
      BY <1>1, <2>1, <2>2, <3>1, <3>2 DEF Drowsy
    <3> QED
      BY <3>3 DEF AwaitedInv
  <2>3. CASE waiting["popper"] # {}
    <3>1. PICK w \in waiting["popper"] :
                 waiting' = [waiting EXCEPT !["popper"] = @ \ {w}]
      BY <1>3, <2>3 DEF EnqueueSignal, Signal
    <3>2. w \in Consumers /\ pc[w] = "d_asleep" /\ w \in Threads /\ w # p
      BY <1>1 DEF BlockedInv
    <3>3. waiting'["popper"] = waiting["popper"] \ {w}
      BY <3>1 DEF TypeOK, Condvars
    <3>4. /\ Coming' = (Coming \ {p}) \cup {w}
          /\ p \in Coming /\ w \notin Coming
      BY <1>1, <2>1, <3>2, <3>3 DEF Coming
    <3>5. /\ IsFiniteSet(Coming \ {p})
          /\ Cardinality(Coming \ {p}) = Cardinality(Coming) - 1
      BY <1>1, <3>4, ComingFinite, FS_RemoveElement
    <3>6. Cardinality(Coming') = Cardinality(Coming \ {p}) + 1
      BY <3>4, <3>5, FS_AddElement
    <3>7. Cardinality(Coming') = Cardinality(Coming)
      BY <1>1, <3>5, <3>6, ComingFinite
    <3> QED
      BY <2>1, <2>3, <3>7 DEF AwaitedInv, Drowsy
  <2> QED
    BY <2>2, <2>3
<1>4. ASSUME ~EnqueueAdvance(p), ~EnqueueSignal(p)
      PROVE  AwaitedInv'
  <2>1. /\ UNCHANGED <<stored, taken, waiting["popper"]>>
        /\ \A t \in Threads \ {p} : pc'[t] = pc[t]
        /\ pc[p] \in ComingPCs => pc'[p] \in ComingPCs
        /\ pc[p] # "d_asleep"
    <3> USE <1>1 DEF ComingPCs, Goto, TypeOK, BlockedInv, Condvars, hist,
                     EnqueuePCs
    <3>1. CASE Parse(p) \/ EnqueueTest(p)
      BY <3>1 DEF Parse, EnqueueTest, locks
    <3>2. CASE EnqueueLock(p) \/ EnqueueWake(p) \/ EnqueueUnlock(p)
      BY <3>2 DEF EnqueueLock, EnqueueWake, EnqueueUnlock, Lock, Wake, Unlock
    <3>3. CASE EnqueueLockTail(p) \/ EnqueueLockSize(p) \/ EnqueueLockPopper(p)
      BY <3>3 DEF EnqueueLockTail, EnqueueLockSize, EnqueueLockPopper, Lock
    <3>4. CASE EnqueueSleep(p)
      BY <3>4 DEF EnqueueSleep, Sleep
    <3>5. CASE EnqueueStore(p) \/ EnqueueCount(p)
      BY <3>5 DEF EnqueueStore, EnqueueCount, locks
    <3>6. CASE SpuriousWakeup(p, "pusher")
      BY <3>6 DEF SpuriousWakeup
    <3> QED
      BY <1>4, <3>1, <3>2, <3>3, <3>4, <3>5, <3>6 DEF Enqueue
  <2>2. Drowsy' => Drowsy
    BY <1>1, <2>1 DEF Drowsy
  <2>3. Coming \subseteq Coming'
    BY <1>1, <2>1 DEF Coming, ComingPCs
  <2> QED
    BY <1>1, <2>1, <2>2, <2>3, NobodyTurnsBack
<1> QED
  BY <1>2, <1>3, <1>4

LEMMA DequeueAwaited ==
    ASSUME TypeOK, CountInv, NEW p, Producers = {p}, BlockedInv(p),
           RoomInv(p), AwaitedInv, NEW c \in Consumers, Dequeue(c)
    PROVE  AwaitedInv'
<1>1. /\ p \in Threads /\ c \in Threads /\ p # c /\ OneProducer
      /\ \A t \in Consumers : t \in Threads
  BY QueueAssumption DEF Threads, OneProducer
<1>2. CASE DequeueTest(c) /\ pcq_current_size = 0
  <2>1. /\ pc[c] = "d_test" /\ pc'[c] = "d_sleep"
        /\ \A t \in Threads \ {c} : pc'[t] = pc[t]
        /\ UNCHANGED <<stored, taken, waiting>>
    BY <1>1, <1>2 DEF DequeueTest, Goto, TypeOK, locks, hist
  <2>2. Uncounted \cap Producers \subseteq Coming'
    BY <1>1, <2>1 DEF Uncounted, Coming, BlockedInv, EnqueuePCs
  <2>3. Uncount(Producers) <= Cardinality(Coming')
    BY <1>1, <2>2, ComingFiniteNext, FS_Subset DEF Uncount
  <2>4. Balance <= 0
    BY <1>2, SizeSays
  <2>5. Len(stored) - Len(taken) <= Uncount(Producers)
    BY <2>4, BalanceType DEF Balance
  <2>6. Len(stored) - Len(taken) <= Cardinality(Coming')
    BY <1>1, <2>3, <2>5, BalanceType, ComingFiniteNext
  <2> QED
    BY <2>1, <2>6 DEF AwaitedInv
<1>3. CASE DequeueAdvance(c)
  <2>1. /\ pc[c] = "d_advance" /\ pc'[c] = "d_lockSize"
        /\ \A t \in Threads \ {c} : pc'[t] = pc[t]
        /\ taken' = Append(taken, elem[c])
        /\ UNCHANGED <<stored, waiting>>
    BY <1>1, <1>3 DEF DequeueAdvance, Goto, TypeOK
  <2>2. Len(taken') = Len(taken) + 1
    BY <1>1, <2>1, AppendProperties DEF TypeOK
  <2>3. Coming \ {c} \subseteq Coming' /\ c \in Coming
    BY <1>1, <2>1 DEF Coming
  <2>4. /\ Cardinality(Coming \ {c}) = Cardinality(Coming) - 1
        /\ Cardinality(Coming \ {c}) <= Cardinality(Coming')
    BY <1>1, <2>3, ComingFinite, ComingFiniteNext, FS_RemoveElement, FS_Subset
  <2>5. Drowsy' => Drowsy
    BY <1>1, <2>1 DEF Drowsy
  <2> QED
    BY <1>1, <2>1, <2>2, <2>4, <2>5, ComingFinite, ComingFiniteNext,
       LogSizes DEF AwaitedInv
<1>4. ASSUME ~(DequeueTest(c) /\ pcq_current_size = 0), ~DequeueAdvance(c)
      PROVE  AwaitedInv'
  <2>1. /\ UNCHANGED <<stored, taken>>
        /\ \A t \in Threads \ {c} : pc'[t] = pc[t]
        /\ \A t \in waiting'["popper"] : t \in waiting["popper"] \/ t = c
        /\ pc[c] \in ComingPCs => pc'[c] \in ComingPCs
        /\ waiting'["popper"] # {} \/ pc'[c] = "d_sleep" => Drowsy
        /\ pc[c] = "d_asleep" /\ c \notin waiting["popper"] =>
             \/ pc'[c] \in ComingPCs
             \/ pc'[c] = "d_asleep" /\ c \notin waiting'["popper"]
    <3> USE <1>1 DEF ComingPCs, Drowsy, Goto, TypeOK, Condvars, hist
    <3>1. CASE DequeueTest(c) \/ DequeueLoad(c) \/ ServeRequest(c)
      BY <1>4, <3>1 DEF DequeueTest, DequeueLoad, ServeRequest, locks
    <3>2. CASE DequeueLock(c) \/ DequeueWake(c) \/ DequeueUnlock(c)
      BY <3>2 DEF DequeueLock, DequeueWake, DequeueUnlock, Lock, Wake, Unlock
    <3>3. CASE DequeueLockHead(c) \/ DequeueLockSize(c) \/ DequeueLockPusher(c)
      BY <3>3 DEF DequeueLockHead, DequeueLockSize, DequeueLockPusher, Lock
    <3>4. CASE DequeueSleep(c)
      BY <3>4 DEF DequeueSleep, Sleep
    <3>5. CASE DequeueCount(c)
      BY <3>5 DEF DequeueCount
    <3>6. CASE DequeueSignal(c)
      BY <3>6 DEF DequeueSignal, Signal
    <3>7. CASE SpuriousWakeup(c, "popper")
      BY <3>7 DEF SpuriousWakeup
    <3> QED
      BY <1>4, <3>1, <3>2, <3>3, <3>4, <3>5, <3>6, <3>7 DEF Dequeue
  <2>2. Drowsy' => Drowsy
    BY <1>1, <2>1 DEF Drowsy
  <2>3. Coming \subseteq Coming'
    BY <1>1, <2>1 DEF Coming, ComingPCs
  <2> QED
    BY <1>1, <2>1, <2>2, <2>3, NobodyTurnsBack
<1> QED
  BY <1>2, <1>3, <1>4

LEMMA InitWakes ==
    ASSUME Init, NEW p, Producers = {p}
    PROVE  WakeFor(p)
<1>1. p \in Threads /\ \A t \in Consumers : t \in Threads /\ t # p
  BY QueueAssumption DEF Threads
<1>2. /\ pc[p] = "parsing" /\ \A t \in Consumers : pc[t] = "d_lock"
      /\ waiting["popper"] = {} /\ waiting["pusher"] = {}
  BY <1>1 DEF Init, Condvars
<1>3. AwaitedInv
  BY <1>2 DEF AwaitedInv, Drowsy
<1>4. RoomInv(p)
  <2>1. Uncounted = {}
    BY DEF Init, Uncounted
  <2>2. \A S : Uncount(S) = 0
    BY <2>1, FS_EmptySet DEF Uncount
  <2>3. Balance = 0
    BY <2>2 DEF Init, Balance
  <2> QED
    BY <1>2, <2>3, QueueAssumption DEF RoomInv, Adding
<1>5. BlockedInv(p)
  BY <1>2 DEF BlockedInv, DequeuePCs
<1>6. RoomSignalled(p)
  BY <1>2 DEF RoomSignalled
<1> QED
  BY <1>3, <1>4, <1>5, <1>6 DEF WakeFor

WakeInv == \A p \in Producers : WakeFor(p)

\* With the broker's one producer and any number of sessions that call
\* pcq_dequeue: each request in the ring has a thread of its own that comes
\* for it while a session is blocked, and a producer blocked beside a free
\* slot is about to be signalled, although the wait loops read a size that
\* the other side counts under another mutex, after it has moved the ring.
THEOREM WakeupsArrive == OneProducer /\ Spec => []NoWakeupLost
<1>1. OneProducer => []OneProducer
  <2>1. OneProducer => OneProducer'
    BY DEF OneProducer
  <2> QED
    BY <2>1, PTL
<1>2. OneProducer /\ Init => WakeInv
  BY InitWakes DEF OneProducer, WakeInv
<1>3. OneProducer /\ TypeOK /\ CountInv /\ MutualExclusion /\ WakeInv
        /\ [Next]_vars => WakeInv'
  <2> SUFFICES ASSUME OneProducer, TypeOK, CountInv, MutualExclusion,
                      WakeInv, [Next]_vars
               PROVE  WakeInv'
    OBVIOUS
  <2>1. PICK p : Producers = {p}
    BY DEF OneProducer
  <2>2. AwaitedInv /\ RoomInv(p) /\ BlockedInv(p) /\ RoomSignalled(p)
    BY <2>1 DEF WakeInv, WakeFor
  <2>3. CASE Enqueue(p)
    <3>1. AwaitedInv' /\ RoomInv(p)'
      BY <2>1, <2>2, <2>3, EnqueueAwaited, EnqueueRooms
    <3>2. BlockedInv(p)' /\ RoomSignalled(p)'
      BY <2>1, <2>2, <2>3, EnqueueBlocks, EnqueueSignalled
    <3> QED
      BY <2>1, <3>1, <3>2 DEF WakeInv, WakeFor
  <2>4. ASSUME NEW c \in Consumers, Dequeue(c)
        PROVE  WakeInv'
    <3>1. AwaitedInv' /\ RoomInv(p)'
      BY <2>1, <2>2, <2>4, DequeueAwaited, DequeueRooms
    <3>2. BlockedInv(p)' /\ RoomSignalled(p)'
      BY <2>1, <2>2, <2>4, DequeueBlocks, DequeueSignals
    <3> QED
      BY <2>1, <3>1, <3>2 DEF WakeInv, WakeFor
  <2>5. CASE UNCHANGED vars
    <3>1. /\ UNCHANGED <<stored, taken, waiting, pc, pcq_current_size>>
          /\ Coming' = Coming /\ (Drowsy' <=> Drowsy) /\ Balance' = Balance
      BY <2>5 DEF vars, ring, locks, hist, Coming, Drowsy, Balance, Uncount,
                  Uncounted
    <3>2. AwaitedInv' /\ RoomInv(p)'
      BY <2>2, <3>1 DEF AwaitedInv, RoomInv
    <3>3. BlockedInv(p)' /\ RoomSignalled(p)'
      BY <2>2, <3>1 DEF BlockedInv, RoomSignalled
    <3> QED
      BY <2>1, <3>2, <3>3 DEF WakeInv, WakeFor
  <2> QED
    BY <2>1, <2>3, <2>4, <2>5 DEF Next
<1>4. OneProducer /\ WakeInv => NoWakeupLost
  <2> SUFFICES ASSUME OneProducer, WakeInv
               PROVE  NoWakeupLost
    OBVIOUS
  <2>1. PICK p : Producers = {p}
    BY DEF OneProducer
  <2>2. AwaitedInv /\ BlockedInv(p) /\ RoomSignalled(p)
    BY <2>1 DEF WakeInv, WakeFor
  <2>3. waiting["pusher"] # {} => p \in waiting["pusher"]
    BY <2>2 DEF BlockedInv
  <2> QED
    BY <2>2, <2>3 DEF NoWakeupLost, AwaitedInv, Drowsy, RoomSignalled
<1> QED
  BY <1>1, <1>2, <1>3, <1>4, TypeCorrect, CountInvHolds, MutexesExclude, PTL
     DEF Spec
=============================================================================
