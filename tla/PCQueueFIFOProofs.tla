------------------------ MODULE PCQueueFIFOProofs -------------------------
(***************************************************************************)
(* Proof that the queue is a bounded FIFO with one producer (the broker's  *)
(* main thread) and one session, for every capacity, every width of the    *)
(* size_t that holds it, and any number of requests: so no request comes   *)
(* out twice, and a dequeue of an empty queue sleeps.                      *)
(***************************************************************************)
EXTENDS PCQueueProofs

Single == \E p, c : Producers = {p} /\ Consumers = {c}

\* The points in the code the proof tells apart, besides Counting: between
\* the wait loop and the move of the ring.
PutReady  == {"e_unlock", "e_lockTail", "e_store", "e_advance"}
TakeReady == {"d_unlock", "d_lockHead", "d_load", "d_advance"}

\* Each thread runs its own operation, and what is enqueued is a request.
RolesInv ==
    /\ \A t \in Producers : pc[t] \in EnqueuePCs \cup {"parsing"}
    /\ \A t \in Consumers : pc[t] \in DequeuePCs \cup {"session", "ended"}
    /\ \A t \in Producers : pc[t] \in EnqueuePCs => elem[t] \in Requests

IInv == TypeOK /\ RolesInv /\ FIFOInv

-----------------------------------------------------------------------------
(* The slots of the ring and the logs.                                     *)

LEMMA LogLengths ==
    ASSUME TypeOK
    PROVE  Len(stored) \in Nat /\ Len(taken) \in Nat /\ Occupancy \in Int
  BY LenProperties DEF TypeOK, Occupancy

\* Fewer than Capacity steps from the head lead to different slots, and the
\* next slot is one step further.
LEMMA SlotOfFacts ==
    ASSUME TypeOK
    PROVE  /\ SlotOf(0) = pcq_head
           /\ \A k \in 0 .. Capacity - 1 :
                /\ SlotOf(k) \in Slots
                /\ NextSlot(SlotOf(k)) = SlotOf(k + 1)
           /\ \A j, k \in 0 .. Capacity - 1 : SlotOf(j) = SlotOf(k) => j = k
<1>1. /\ Capacity \in Nat \ {0}
      /\ pcq_head \in 0 .. Capacity - 1
  BY QueueAssumption DEF TypeOK, Slots
<1>2. ASSUME NEW k \in 0 .. Capacity - 1
      PROVE  SlotOf(k) \in Slots /\ NextSlot(SlotOf(k)) = SlotOf(k + 1)
  <2>1. SlotOf(k) \in Slots
    BY <1>1, <1>2 DEF SlotOf, Slots
  <2>2. NextSlot(SlotOf(k)) = IF SlotOf(k) + 1 = Capacity THEN 0
                              ELSE SlotOf(k) + 1
    BY <2>1, NextSlotCases
  <2> QED
    BY <1>1, <1>2, <2>1, <2>2 DEF SlotOf
<1>3. \A j, k \in 0 .. Capacity - 1 : SlotOf(j) = SlotOf(k) => j = k
  BY <1>1 DEF SlotOf
<1>4. SlotOf(0) = pcq_head
  BY <1>1 DEF SlotOf
<1> QED
  BY <1>2, <1>3, <1>4

\* With one thread at an end, what is pending there is where that thread is.
LEMMA PendingOne ==
    ASSUME NEW t \in Threads
    PROVE  Pending({t}) = IF pc[t] \in Counting THEN 1 ELSE 0
<1>1. {t} \cap Uncounted = {} <=> pc[t] \notin Counting
  BY DEF Uncounted, Counting
<1> QED
  BY <1>1 DEF Pending

-----------------------------------------------------------------------------
(* Most steps only move a thread between points the invariant does not tell *)
(* apart.                                                                  *)
Quiet ==
    /\ UNCHANGED <<ring, stored, taken>>
    /\ \A t \in Threads :
         /\ pc'[t] \in Counting <=> pc[t] \in Counting
         /\ pc'[t] \in PutReady => pc[t] \in PutReady
         /\ pc'[t] \in TakeReady => pc[t] \in TakeReady
         /\ pc'[t] \in {"e_advance", "d_advance"} =>
                pc'[t] = pc[t] /\ elem'[t] = elem[t]

LEMMA QuietKeepsFIFO ==
    ASSUME FIFOInv, Quiet
    PROVE  FIFOInv'
<1>1. Uncounted' = Uncounted
  BY DEF Uncounted, Quiet, Counting
<1>2. UNCHANGED <<Occupancy, pcq_buffer, pcq_current_size, pcq_head, pcq_tail,
                  stored, taken>>
  BY DEF Occupancy, Quiet, ring
<1>3. Pending(Producers)' = Pending(Producers)
      /\ Pending(Consumers)' = Pending(Consumers)
  BY <1>1 DEF Pending
<1>4. SizeExact'
  BY <1>2, <1>3 DEF SizeExact, FIFOInv
<1>5. TestStillValid'
  BY <1>2, <1>3
     DEF TestStillValid, FIFOInv, Quiet, PutReady, TakeReady, Threads
<1>6. RingContent'
  <2>1. \A k : SlotOf(k)' = SlotOf(k)
    BY <1>2 DEF SlotOf
  <2> QED
    BY <1>2, <2>1 DEF RingContent, FIFOInv, Quiet, Threads
<1> QED
  BY <1>4, <1>5, <1>6 DEF FIFOInv

LEMMA EnqueueQuiet ==
    ASSUME TypeOK, RolesInv, NEW t \in Producers, Enqueue(t),
           ~EnqueueTest(t), ~EnqueueStore(t), ~EnqueueAdvance(t),
           ~EnqueueCount(t)
    PROVE  Quiet
<1> USE DEF Quiet, TypeOK, Threads, Counting, PutReady, TakeReady,
            Goto, Lock, Unlock, Sleep, Wake, Signal, ring, locks, hist
<1>1. CASE Parse(t)
  BY <1>1 DEF Parse
<1>2. CASE EnqueueLock(t) \/ EnqueueWake(t)
  BY <1>2 DEF EnqueueLock, EnqueueWake
<1>3. CASE EnqueueSleep(t) \/ EnqueueUnlock(t)
  BY <1>3 DEF EnqueueSleep, EnqueueUnlock
<1>4. CASE EnqueueLockTail(t) \/ EnqueueLockSize(t) \/ EnqueueLockPopper(t)
  BY <1>4 DEF EnqueueLockTail, EnqueueLockSize, EnqueueLockPopper
<1>5. CASE EnqueueSignal(t)
  BY <1>5 DEF EnqueueSignal
<1>6. CASE SpuriousWakeup(t, "pusher")
  BY <1>6 DEF SpuriousWakeup
<1> QED
  BY <1>1, <1>2, <1>3, <1>4, <1>5, <1>6 DEF Enqueue

LEMMA DequeueQuiet ==
    ASSUME TypeOK, RolesInv, NEW t \in Consumers, Dequeue(t),
           ~DequeueTest(t), ~DequeueLoad(t), ~DequeueAdvance(t),
           ~DequeueCount(t)
    PROVE  Quiet
<1> USE DEF Quiet, TypeOK, Threads, Counting, PutReady, TakeReady,
            Goto, Lock, Unlock, Sleep, Wake, Signal, ring, locks, hist
<1>1. CASE DequeueLock(t) \/ DequeueWake(t)
  BY <1>1 DEF DequeueLock, DequeueWake
<1>2. CASE DequeueSleep(t) \/ DequeueUnlock(t)
  BY <1>2 DEF DequeueSleep, DequeueUnlock
<1>3. CASE DequeueLockHead(t) \/ DequeueLockSize(t) \/ DequeueLockPusher(t)
  BY <1>3 DEF DequeueLockHead, DequeueLockSize, DequeueLockPusher
<1>4. CASE DequeueSignal(t)
  BY <1>4 DEF DequeueSignal
<1>5. CASE ServeRequest(t)
  BY <1>5 DEF ServeRequest
<1>6. CASE SpuriousWakeup(t, "popper")
  BY <1>6 DEF SpuriousWakeup
<1> QED
  BY <1>1, <1>2, <1>3, <1>4, <1>5, <1>6 DEF Dequeue

LEMMA RolesStep ==
    ASSUME TypeOK, RolesInv, [Next]_vars
    PROVE  RolesInv'
<1> USE QueueAssumption
    DEF RolesInv, TypeOK, Threads, EnqueuePCs, DequeuePCs, Requests,
        Goto, Lock, Unlock, Sleep, Wake, Signal, ring, locks, hist
<1>1. ASSUME NEW t \in Producers, Enqueue(t)
      PROVE  RolesInv'
  <2>1. CASE Parse(t)
    BY <2>1 DEF Parse
  <2>2. CASE EnqueueLock(t) \/ EnqueueWake(t) \/ EnqueueSleep(t)
    BY <2>2 DEF EnqueueLock, EnqueueWake, EnqueueSleep
  <2>3. CASE EnqueueUnlock(t) \/ EnqueueTest(t) \/ EnqueueSignal(t)
    BY <2>3 DEF EnqueueUnlock, EnqueueTest, EnqueueSignal
  <2>4. CASE EnqueueLockTail(t) \/ EnqueueLockSize(t) \/ EnqueueLockPopper(t)
    BY <2>4 DEF EnqueueLockTail, EnqueueLockSize, EnqueueLockPopper
  <2>5. CASE EnqueueStore(t) \/ EnqueueAdvance(t) \/ EnqueueCount(t)
    BY <2>5 DEF EnqueueStore, EnqueueAdvance, EnqueueCount
  <2>6. CASE SpuriousWakeup(t, "pusher")
    BY <2>6 DEF SpuriousWakeup
  <2> QED
    BY <1>1, <2>1, <2>2, <2>3, <2>4, <2>5, <2>6 DEF Enqueue
<1>2. ASSUME NEW t \in Consumers, Dequeue(t)
      PROVE  RolesInv'
  <2>1. CASE DequeueLock(t) \/ DequeueWake(t) \/ DequeueSleep(t)
    BY <2>1 DEF DequeueLock, DequeueWake, DequeueSleep
  <2>2. CASE DequeueUnlock(t) \/ DequeueTest(t) \/ DequeueSignal(t)
    BY <2>2 DEF DequeueUnlock, DequeueTest, DequeueSignal
  <2>3. CASE DequeueLockHead(t) \/ DequeueLockSize(t) \/ DequeueLockPusher(t)
    BY <2>3 DEF DequeueLockHead, DequeueLockSize, DequeueLockPusher
  <2>4. CASE DequeueLoad(t) \/ DequeueAdvance(t) \/ DequeueCount(t)
    BY <2>4 DEF DequeueLoad, DequeueAdvance, DequeueCount
  <2>5. CASE ServeRequest(t) \/ SpuriousWakeup(t, "popper")
    BY <2>5 DEF ServeRequest, SpuriousWakeup
  <2> QED
    BY <1>2, <2>1, <2>2, <2>3, <2>4, <2>5 DEF Dequeue
<1> QED
  BY <1>1, <1>2 DEF Next, vars

-----------------------------------------------------------------------------
(* The other steps, in a form of the invariant for producer p and session c. *)
Moved(t) == IF pc[t] \in Counting THEN 1 ELSE 0

FIFOFor(p, c) ==
    /\ pcq_current_size = Occupancy - Moved(p) + Moved(c)
    /\ Occupancy >= Moved(p) /\ Occupancy + Moved(c) <= Capacity
    /\ pc[p] \in PutReady => Occupancy + Moved(c) < Capacity
    /\ pc[c] \in TakeReady => Occupancy > Moved(p)
    /\ pcq_tail = SlotOf(Occupancy)
    /\ \A k \in 0 .. Occupancy - 1 :
         pcq_buffer[SlotOf(k)] = stored[Len(taken) + 1 + k]
    /\ pc[p] = "e_advance" => pcq_buffer[pcq_tail] = elem[p]
    /\ pc[c] = "d_advance" => elem[c] = stored[Len(taken) + 1]

LEMMA FIFOForIs ==
    ASSUME NEW p, NEW c, Producers = {p}, Consumers = {c}
    PROVE  (FIFOInv <=> FIFOFor(p, c)) /\ (FIFOInv' <=> FIFOFor(p, c)')
<1> USE DEF FIFOInv, SizeExact, TestStillValid, RingContent, FIFOFor,
            PutReady, TakeReady
<1>1. p \in Threads /\ c \in Threads
  BY DEF Threads
<1>2. Pending(Producers) = Moved(p) /\ Pending(Consumers) = Moved(c)
  BY <1>1, PendingOne DEF Moved
<1>3. Pending(Producers)' = Moved(p)' /\ Pending(Consumers)' = Moved(c)'
  <2>1. \A t \in Threads : {t} \cap Uncounted' = {} <=> pc'[t] \notin Counting
    BY DEF Uncounted, Counting
  <2> QED
    BY <1>1, <2>1 DEF Pending, Moved
<1>4. FIFOInv <=> FIFOFor(p, c)
  BY <1>2
<1>5. FIFOInv' <=> FIFOFor(p, c)'
  BY <1>3
<1> QED
  BY <1>4, <1>5

\* What the producer's steps do to the invariant.
LEMMA EnqueueKeepsFIFO ==
    ASSUME TypeOK, RolesInv, NEW p, NEW c, Producers = {p}, Consumers = {c},
           FIFOFor(p, c),
           \/ EnqueueTest(p) \/ EnqueueStore(p)
           \/ EnqueueAdvance(p) \/ EnqueueCount(p)
    PROVE  FIFOFor(p, c)'
<1>1. /\ p \in Threads /\ c \in Threads /\ p # c
      /\ Capacity \in Nat \ {0} /\ SizeMod \in Nat /\ SizeMod > Capacity
  BY QueueAssumption DEF Threads
<1>2. Len(stored) \in Nat /\ Len(taken) \in Nat /\ Occupancy \in Int
  BY LogLengths
<1>3. /\ Moved(p) \in {0, 1} /\ Moved(c) \in {0, 1}
      /\ Occupancy \in 0 .. Capacity
  BY <1>1, <1>2 DEF Moved, FIFOFor
<1>4. CASE EnqueueTest(p)
  <2>1. /\ pc[p] = "e_test" /\ pc'[c] = pc[c]
        /\ pc'[p] = IF pcq_current_size = Capacity THEN "e_sleep"
                    ELSE "e_unlock"
        /\ UNCHANGED <<ring, elem, stored, taken>>
    BY <1>1, <1>4 DEF EnqueueTest, Goto, TypeOK, hist
  <2>2. Moved(p) = 0 /\ Moved(p)' = 0 /\ Moved(c)' = Moved(c)
    BY <2>1 DEF Moved, Counting
  <2>3. Occupancy' = Occupancy /\ \A k : SlotOf(k)' = SlotOf(k)
    BY <2>1 DEF Occupancy, SlotOf, ring
  <2>4. pc'[p] \in PutReady => Occupancy + Moved(c) < Capacity
    BY <1>1, <1>3, <2>1, <2>2 DEF FIFOFor, PutReady
  <2> QED
    BY <2>1, <2>2, <2>3, <2>4 DEF FIFOFor, ring
<1>5. CASE EnqueueStore(p)
  <2>1. /\ pc[p] = "e_store" /\ pc'[p] = "e_advance" /\ pc'[c] = pc[c]
        /\ pcq_buffer' = [pcq_buffer EXCEPT ![pcq_tail] = elem[p]]
        /\ UNCHANGED <<pcq_current_size, pcq_head, pcq_tail, elem, stored,
                       taken>>
    BY <1>1, <1>5 DEF EnqueueStore, Goto, TypeOK, hist
  <2>2. Moved(p) = 0 /\ Moved(p)' = 0 /\ Moved(c)' = Moved(c)
    BY <2>1 DEF Moved, Counting
  <2>3. Occupancy' = Occupancy /\ \A k : SlotOf(k)' = SlotOf(k)
    BY <2>1 DEF Occupancy, SlotOf
  <2>4. pcq_tail = SlotOf(Occupancy) /\ Occupancy \in 0 .. Capacity - 1
    BY <1>1, <1>3, <2>1 DEF FIFOFor, PutReady
  <2>5. ASSUME NEW k \in 0 .. Occupancy - 1
        PROVE  pcq_buffer'[SlotOf(k)] = pcq_buffer[SlotOf(k)]
    <3>1. k \in 0 .. Capacity - 1 /\ k # Occupancy
      BY <1>1, <2>4
    <3>2. SlotOf(k) \in Slots /\ SlotOf(k) # pcq_tail
      BY <2>4, <3>1, SlotOfFacts
    <3> QED
      BY <2>1, <3>2 DEF TypeOK
  <2>6. pcq_buffer'[pcq_tail] = elem[p]
    BY <2>1 DEF TypeOK
  <2> QED
    BY <2>1, <2>2, <2>3, <2>5, <2>6 DEF FIFOFor, PutReady
<1>6. CASE EnqueueAdvance(p)
  <2>1. /\ pc[p] = "e_advance" /\ pc'[p] = "e_lockSize" /\ pc'[c] = pc[c]
        /\ pcq_tail' = NextSlot(pcq_tail)
        /\ stored' = Append(stored, elem[p])
        /\ UNCHANGED <<pcq_buffer, pcq_current_size, pcq_head, elem, taken>>
    BY <1>1, <1>6 DEF EnqueueAdvance, Goto, TypeOK, hist
  <2>2. Moved(p) = 0 /\ Moved(p)' = 1 /\ Moved(c)' = Moved(c)
    BY <2>1 DEF Moved, Counting
  <2>3. /\ Len(stored') = Len(stored) + 1
        /\ \A i \in 1 .. Len(stored) : stored'[i] = stored[i]
        /\ stored'[Len(stored) + 1] = elem[p]
    BY <1>1, <2>1, AppendProperties DEF TypeOK
  <2>4. Occupancy' = Occupancy + 1 /\ \A k : SlotOf(k)' = SlotOf(k)
    BY <1>2, <2>1, <2>3 DEF Occupancy, SlotOf
  <2>5. /\ pcq_tail = SlotOf(Occupancy) /\ Occupancy \in 0 .. Capacity - 1
        /\ Occupancy + Moved(c) < Capacity
    BY <1>1, <1>3, <2>1 DEF FIFOFor, PutReady
  <2>6. pcq_tail' = SlotOf(Occupancy + 1)
    BY <2>1, <2>5, SlotOfFacts
  <2>7. ASSUME NEW k \in 0 .. Occupancy
        PROVE  pcq_buffer[SlotOf(k)] = stored'[Len(taken) + 1 + k]
    <3>1. CASE k = Occupancy
      <4>1. Len(taken) + 1 + k = Len(stored) + 1
        BY <1>2, <3>1 DEF Occupancy
      <4> QED
        BY <2>1, <2>3, <2>5, <3>1, <4>1 DEF FIFOFor
    <3>2. CASE k # Occupancy
      <4>1. k \in 0 .. Occupancy - 1
        BY <1>3, <3>2
      <4>2. Len(taken) + 1 + k \in 1 .. Len(stored)
        BY <1>2, <4>1 DEF Occupancy
      <4> QED
        BY <2>3, <4>1, <4>2 DEF FIFOFor
    <3> QED
      BY <3>1, <3>2
  <2>8. pc[c] \in TakeReady =>
          Occupancy > 0 /\ stored'[Len(taken) + 1] = stored[Len(taken) + 1]
    <3>1. ASSUME Occupancy > 0
          PROVE  Len(taken) + 1 \in 1 .. Len(stored)
      BY <1>2, <3>1 DEF Occupancy
    <3> QED
      BY <2>2, <2>3, <3>1 DEF FIFOFor
  <2>9. pcq_current_size = Occupancy + Moved(c)
    BY <1>3, <2>2 DEF FIFOFor
  <2>10. \A k \in 0 .. Occupancy' - 1 :
           pcq_buffer'[SlotOf(k)'] = stored'[Len(taken') + 1 + k]
    <3>1. 0 .. Occupancy' - 1 = 0 .. Occupancy
      BY <1>3, <2>4
    <3>2. \A k \in 0 .. Occupancy :
            pcq_buffer'[SlotOf(k)'] = stored'[Len(taken') + 1 + k]
      <4> SUFFICES ASSUME NEW k \in 0 .. Occupancy
                   PROVE  pcq_buffer'[SlotOf(k)']
                            = stored'[Len(taken') + 1 + k]
        OBVIOUS
      <4>1. SlotOf(k)' = SlotOf(k)
        BY <2>4
      <4>2. pcq_buffer' = pcq_buffer /\ taken' = taken
        BY <2>1
      <4> QED
        BY <2>7, <4>1, <4>2
    <3> QED
      BY <3>1, <3>2
  <2>11. /\ pcq_current_size' = Occupancy' - Moved(p)' + Moved(c)'
         /\ Occupancy' >= Moved(p)' /\ Occupancy' + Moved(c)' <= Capacity
         /\ pc'[c] \in TakeReady => Occupancy' > Moved(p)'
    BY <1>1, <1>3, <2>1, <2>2, <2>4, <2>5, <2>8, <2>9
  <2>12. pc'[c] = "d_advance" => elem'[c] = stored'[Len(taken') + 1]
    BY <2>1, <2>8 DEF FIFOFor, TakeReady
  <2>13. pcq_tail' = SlotOf(Occupancy)'
    BY <2>1, <2>4, <2>6 DEF SlotOf
  <2> QED
    BY <2>1, <2>10, <2>11, <2>12, <2>13 DEF FIFOFor, PutReady
<1>7. CASE EnqueueCount(p)
  <2>1. /\ pc[p] = "e_count" /\ pc'[p] = "e_lockPopper" /\ pc'[c] = pc[c]
        /\ pcq_current_size' = Incr(pcq_current_size)
        /\ UNCHANGED <<pcq_buffer, pcq_head, pcq_tail, elem, stored, taken>>
    BY <1>1, <1>7 DEF EnqueueCount, Goto, TypeOK, hist
  <2>2. Moved(p) = 1 /\ Moved(p)' = 0 /\ Moved(c)' = Moved(c)
    BY <2>1 DEF Moved, Counting
  <2>3. Occupancy' = Occupancy /\ \A k : SlotOf(k)' = SlotOf(k)
    BY <2>1 DEF Occupancy, SlotOf
  <2>4. pcq_current_size' = Occupancy + Moved(c)
    BY <1>1, <1>3, <2>1, <2>2 DEF FIFOFor, Incr
  <2>5. pc'[c] \in TakeReady => Occupancy > 0
    BY <1>3, <2>1, <2>2 DEF FIFOFor
  <2> QED
    BY <1>3, <2>1, <2>2, <2>3, <2>4, <2>5 DEF FIFOFor, PutReady
<1> QED
  BY <1>4, <1>5, <1>6, <1>7

\* What the session's steps do to the invariant.
LEMMA DequeueKeepsFIFO ==
    ASSUME TypeOK, RolesInv, NEW p, NEW c, Producers = {p}, Consumers = {c},
           FIFOFor(p, c),
           \/ DequeueTest(c) \/ DequeueLoad(c)
           \/ DequeueAdvance(c) \/ DequeueCount(c)
    PROVE  FIFOFor(p, c)'
<1>1. /\ p \in Threads /\ c \in Threads /\ p # c
      /\ Capacity \in Nat \ {0} /\ SizeMod \in Nat /\ SizeMod > Capacity
  BY QueueAssumption DEF Threads
<1>2. Len(stored) \in Nat /\ Len(taken) \in Nat /\ Occupancy \in Int
  BY LogLengths
<1>3. /\ Moved(p) \in {0, 1} /\ Moved(c) \in {0, 1}
      /\ Occupancy \in 0 .. Capacity
  BY <1>1, <1>2 DEF Moved, FIFOFor
<1>4. CASE DequeueTest(c)
  <2>1. /\ pc[c] = "d_test" /\ pc'[p] = pc[p]
        /\ pc'[c] = IF pcq_current_size = 0 THEN "d_sleep" ELSE "d_unlock"
        /\ UNCHANGED <<ring, elem, stored, taken>>
    BY <1>1, <1>4 DEF DequeueTest, Goto, TypeOK, hist
  <2>2. Moved(c) = 0 /\ Moved(c)' = 0 /\ Moved(p)' = Moved(p)
    BY <2>1 DEF Moved, Counting
  <2>3. Occupancy' = Occupancy /\ \A k : SlotOf(k)' = SlotOf(k)
    BY <2>1 DEF Occupancy, SlotOf, ring
  <2>4. pc'[c] \in TakeReady => Occupancy > Moved(p)
    BY <1>1, <1>3, <2>1, <2>2 DEF FIFOFor, TakeReady
  <2> QED
    BY <2>1, <2>2, <2>3, <2>4 DEF FIFOFor, ring
<1>5. CASE DequeueLoad(c)
  <2>1. /\ pc[c] = "d_load" /\ pc'[c] = "d_advance" /\ pc'[p] = pc[p]
        /\ elem'[c] = pcq_buffer[pcq_head] /\ elem'[p] = elem[p]
        /\ UNCHANGED <<ring, stored, taken>>
    BY <1>1, <1>5 DEF DequeueLoad, Goto, TypeOK, hist
  <2>2. Moved(c) = 0 /\ Moved(c)' = 0 /\ Moved(p)' = Moved(p)
    BY <2>1 DEF Moved, Counting
  <2>3. Occupancy' = Occupancy /\ \A k : SlotOf(k)' = SlotOf(k)
    BY <2>1 DEF Occupancy, SlotOf, ring
  <2>4. Occupancy > Moved(p)
    BY <2>1 DEF FIFOFor, TakeReady
  <2>5. pcq_buffer[pcq_head] = stored[Len(taken) + 1]
    <3>1. 0 \in 0 .. Occupancy - 1 /\ SlotOf(0) = pcq_head
      BY <1>3, <2>4, SlotOfFacts
    <3>2. pcq_buffer[SlotOf(0)] = stored[Len(taken) + 1 + 0]
      BY <3>1 DEF FIFOFor
    <3>3. Len(taken) + 1 + 0 = Len(taken) + 1
      BY <1>2
    <3> QED
      BY <3>1, <3>2, <3>3
  <2> QED
    BY <2>1, <2>2, <2>3, <2>4, <2>5 DEF FIFOFor, TakeReady, ring
<1>6. CASE DequeueAdvance(c)
  <2>1. /\ pc[c] = "d_advance" /\ pc'[c] = "d_lockSize" /\ pc'[p] = pc[p]
        /\ pcq_head' = NextSlot(pcq_head)
        /\ taken' = Append(taken, elem[c])
        /\ UNCHANGED <<pcq_buffer, pcq_current_size, pcq_tail, elem, stored>>
    BY <1>1, <1>6 DEF DequeueAdvance, Goto, TypeOK, hist
  <2>2. Moved(c) = 0 /\ Moved(c)' = 1 /\ Moved(p)' = Moved(p)
    BY <2>1 DEF Moved, Counting
  <2>3. Len(taken') = Len(taken) + 1
    BY <1>1, <2>1, AppendProperties DEF TypeOK
  <2>4. Occupancy' = Occupancy - 1
    BY <1>2, <2>1, <2>3 DEF Occupancy
  <2>5. Occupancy > Moved(p) /\ pcq_tail = SlotOf(Occupancy)
    BY <2>1 DEF FIFOFor, TakeReady
  <2>6. /\ pcq_head \in 0 .. Capacity - 1
        /\ pcq_head' = IF pcq_head + 1 = Capacity THEN 0 ELSE pcq_head + 1
    BY <2>1, NextSlotCases DEF TypeOK, Slots
  <2>7. /\ \A k \in 0 .. Capacity - 1 : SlotOf(k)' = SlotOf(k + 1)
        /\ pcq_tail' = SlotOf(Occupancy)'
    <3>1. \A k \in 0 .. Capacity - 1 : SlotOf(k)' = SlotOf(k + 1)
      BY <1>1, <2>6 DEF SlotOf
    <3>2. pcq_tail' = SlotOf(Occupancy)'
      <4> DEFINE o == Occupancy
      <4>1. o \in 1 .. Capacity
        BY <1>3, <2>2, <2>5
      <4>2. pcq_tail' = IF pcq_head + o >= Capacity
                        THEN pcq_head + o - Capacity ELSE pcq_head + o
        BY <2>1, <2>5 DEF SlotOf
      <4>3. o' = o - 1
        BY <2>4
      <4>4. SlotOf(Occupancy)' = IF pcq_head' + o' >= Capacity
                                 THEN pcq_head' + o' - Capacity
                                 ELSE pcq_head' + o'
        BY DEF SlotOf
      <4> HIDE DEF o
      <4> QED
        BY <1>1, <2>6, <4>1, <4>2, <4>3, <4>4
    <3> QED
      BY <3>1, <3>2
  <2>8. ASSUME NEW k \in 0 .. Occupancy' - 1
        PROVE  pcq_buffer'[SlotOf(k)'] = stored'[Len(taken') + 1 + k]
    <3>1. k \in 0 .. Capacity - 1 /\ k + 1 \in 0 .. Occupancy - 1
      BY <1>1, <1>3, <2>4
    <3>2. pcq_buffer[SlotOf(k + 1)] = stored[Len(taken) + 1 + (k + 1)]
      BY <3>1 DEF FIFOFor
    <3>3. Len(taken) + 1 + (k + 1) = Len(taken') + 1 + k
      BY <1>2, <2>3, <3>1
    <3> QED
      BY <2>1, <2>7, <3>1, <3>2, <3>3
  <2>9. /\ pcq_current_size' = Occupancy' - Moved(p)' + Moved(c)'
        /\ Occupancy' >= Moved(p)' /\ Occupancy' + Moved(c)' <= Capacity
        /\ pc'[p] \in PutReady => Occupancy' + Moved(c)' < Capacity
    BY <1>1, <1>3, <2>1, <2>2, <2>4, <2>5 DEF FIFOFor
  <2> QED
    BY <2>1, <2>7, <2>8, <2>9 DEF FIFOFor, TakeReady
<1>7. CASE DequeueCount(c)
  <2>1. /\ pc[c] = "d_count" /\ pc'[c] = "d_lockPusher" /\ pc'[p] = pc[p]
        /\ pcq_current_size' = Decr(pcq_current_size)
        /\ UNCHANGED <<pcq_buffer, pcq_head, pcq_tail, elem, stored, taken>>
    BY <1>1, <1>7 DEF DequeueCount, Goto, TypeOK, hist
  <2>2. Moved(c) = 1 /\ Moved(c)' = 0 /\ Moved(p)' = Moved(p)
    BY <2>1 DEF Moved, Counting
  <2>3. Occupancy' = Occupancy /\ \A k : SlotOf(k)' = SlotOf(k)
    BY <2>1 DEF Occupancy, SlotOf
  <2>4. pcq_current_size' = Occupancy - Moved(p)
    BY <1>1, <1>3, <2>1, <2>2 DEF FIFOFor, Decr
  <2>5. pc'[p] \in PutReady => Occupancy < Capacity
    BY <1>1, <1>3, <2>1, <2>2 DEF FIFOFor
  <2> QED
    BY <1>3, <2>1, <2>2, <2>3, <2>4, <2>5 DEF FIFOFor, TakeReady
<1> QED
  BY <1>4, <1>5, <1>6, <1>7

-----------------------------------------------------------------------------
(* The theorems.                                                           *)

LEMMA InitFIFO == Single /\ Init => IInv
<1> SUFFICES ASSUME Single, Init
             PROVE  IInv
  OBVIOUS
<1>1. PICK p, c : Producers = {p} /\ Consumers = {c}
  BY DEF Single
<1>2. p \in Threads /\ c \in Threads /\ p # c /\ Capacity \in Nat \ {0}
  BY <1>1, QueueAssumption DEF Threads
<1>3. pc[p] = "parsing" /\ pc[c] = "d_lock"
  BY <1>1, <1>2 DEF Init
<1>4. RolesInv
  BY <1>1, <1>3 DEF RolesInv, EnqueuePCs, DequeuePCs
<1>5. Occupancy = 0 /\ Moved(p) = 0 /\ Moved(c) = 0
  BY <1>3 DEF Init, Occupancy, Moved, Counting
<1>6. SlotOf(0) = 0
  BY <1>2 DEF Init, SlotOf
<1>7. FIFOFor(p, c)
  BY <1>2, <1>3, <1>5, <1>6 DEF Init, FIFOFor, PutReady, TakeReady
<1> QED
  BY <1>1, <1>4, <1>7, InitType, FIFOForIs DEF IInv

LEMMA StepFIFO == Single /\ IInv /\ [Next]_vars => IInv'
<1> SUFFICES ASSUME Single, IInv, [Next]_vars
             PROVE  IInv'
  OBVIOUS
<1>1. PICK p, c : Producers = {p} /\ Consumers = {c}
  BY DEF Single
<1>2. TypeOK /\ RolesInv /\ FIFOInv /\ FIFOFor(p, c)
  BY <1>1, FIFOForIs DEF IInv
<1>3. TypeOK'
  BY <1>2, EnqueueType, DequeueType
     DEF Next, TypeOK, vars, ring, locks, hist
<1>4. RolesInv'
  BY <1>2, RolesStep
<1>5. ASSUME Enqueue(p)
      PROVE  FIFOInv'
  <2>1. CASE EnqueueTest(p) \/ EnqueueStore(p)
               \/ EnqueueAdvance(p) \/ EnqueueCount(p)
    BY <1>1, <1>2, <2>1, EnqueueKeepsFIFO, FIFOForIs
  <2>2. CASE ~(EnqueueTest(p) \/ EnqueueStore(p)
                 \/ EnqueueAdvance(p) \/ EnqueueCount(p))
    BY <1>1, <1>2, <1>5, <2>2, EnqueueQuiet, QuietKeepsFIFO
  <2> QED
    BY <2>1, <2>2
<1>6. ASSUME Dequeue(c)
      PROVE  FIFOInv'
  <2>1. CASE DequeueTest(c) \/ DequeueLoad(c)
               \/ DequeueAdvance(c) \/ DequeueCount(c)
    BY <1>1, <1>2, <2>1, DequeueKeepsFIFO, FIFOForIs
  <2>2. CASE ~(DequeueTest(c) \/ DequeueLoad(c)
                 \/ DequeueAdvance(c) \/ DequeueCount(c))
    BY <1>1, <1>2, <1>6, <2>2, DequeueQuiet, QuietKeepsFIFO
  <2> QED
    BY <2>1, <2>2
<1>7. ASSUME UNCHANGED vars
      PROVE  FIFOInv'
  <2>1. Quiet
    BY <1>7 DEF Quiet, vars, hist
  <2> QED
    BY <1>2, <2>1, QuietKeepsFIFO
<1>8. FIFOInv'
  BY <1>1, <1>5, <1>6, <1>7 DEF Next
<1> QED
  BY <1>3, <1>4, <1>8 DEF IInv

\* With one producer and one session, the size counted under its own lock is
\* never ahead of what the other side relies on, a thread that passed its
\* wait loop keeps its slot or its request until it moves the ring, and the
\* ring holds, in order, what was stored and not taken.
THEOREM RingIsFIFO == Single /\ Spec => []FIFOInv
<1>1. IInv => FIFOInv
  BY DEF IInv
<1>2. Single => []Single
  <2>1. Single => Single'
    BY DEF Single
  <2> QED
    BY <2>1, PTL
<1> QED
  BY <1>1, <1>2, InitFIFO, StepFIFO, PTL DEF Spec

LEMMA StepRefines ==
    Single /\ IInv /\ [Next]_vars => [Abstract!Next]_(Abstract!vars)
<1> SUFFICES ASSUME Single, IInv, [Next]_vars
             PROVE  [Abstract!Next]_(Abstract!vars)
  OBVIOUS
<1>1. PICK p, c : Producers = {p} /\ Consumers = {c}
  BY DEF Single
<1>2. TypeOK /\ RolesInv /\ FIFOFor(p, c)
  BY <1>1, FIFOForIs DEF IInv
<1>3. CASE EnqueueAdvance(p)
  <2>1. stored' = Append(stored, elem[p]) /\ taken' = taken
    BY <1>3 DEF EnqueueAdvance
  <2>2. elem[p] \in Requests
    BY <1>1, <1>2, <1>3 DEF EnqueueAdvance, Goto, RolesInv, EnqueuePCs
  <2>3. Occupancy < Capacity
    <3>1. Occupancy + Moved(c) < Capacity
      BY <1>2, <1>3 DEF EnqueueAdvance, Goto, FIFOFor, PutReady
    <3> QED
      BY <1>2, <3>1, LogLengths, QueueAssumption DEF Moved
  <2> QED
    BY <2>1, <2>2, <2>3
       DEF Abstract!Next, Abstract!Enqueue, Abstract!Occupancy, Occupancy
<1>4. CASE DequeueAdvance(c)
  <2>1. taken' = Append(taken, elem[c]) /\ stored' = stored
    BY <1>4 DEF DequeueAdvance
  <2>2. elem[c] = stored[Len(taken) + 1] /\ Occupancy > Moved(p)
    BY <1>2, <1>4 DEF DequeueAdvance, Goto, FIFOFor, TakeReady
  <2>3. Len(taken) < Len(stored)
    BY <1>2, <2>2, LogLengths DEF Moved, Occupancy
  <2> QED
    BY <2>1, <2>2, <2>3 DEF Abstract!Next, Abstract!Dequeue
<1>5. ASSUME UNCHANGED <<stored, taken>>
      PROVE  [Abstract!Next]_(Abstract!vars)
  BY <1>5 DEF Abstract!vars
<1>6. CASE Enqueue(p) /\ ~EnqueueAdvance(p)
  <2>1. CASE EnqueueTest(p) \/ EnqueueStore(p) \/ EnqueueCount(p)
    BY <1>5, <2>1 DEF EnqueueTest, EnqueueStore, EnqueueCount, hist
  <2>2. CASE ~(EnqueueTest(p) \/ EnqueueStore(p) \/ EnqueueCount(p))
    BY <1>1, <1>2, <1>5, <1>6, <2>2, EnqueueQuiet DEF Quiet
  <2> QED
    BY <2>1, <2>2
<1>7. CASE Dequeue(c) /\ ~DequeueAdvance(c)
  <2>1. CASE DequeueTest(c) \/ DequeueLoad(c) \/ DequeueCount(c)
    BY <1>5, <2>1 DEF DequeueTest, DequeueLoad, DequeueCount, hist
  <2>2. CASE ~(DequeueTest(c) \/ DequeueLoad(c) \/ DequeueCount(c))
    BY <1>1, <1>2, <1>5, <1>7, <2>2, DequeueQuiet DEF Quiet
  <2> QED
    BY <2>1, <2>2
<1>8. CASE UNCHANGED vars
  BY <1>5, <1>8 DEF vars, hist
<1> QED
  BY <1>1, <1>3, <1>4, <1>6, <1>7, <1>8 DEF Next

\* With one producer and one session, the queue is the bounded FIFO that
\* producer-consumer.h promises, for every capacity: every step of the code
\* stores one request when there is room, takes the oldest when there is one,
\* or does neither.
THEOREM QueueIsBoundedFIFO == Single /\ Spec => ImplementsBoundedQueue
<1>1. Init => Abstract!Init
  BY DEF Init, Abstract!Init
<1>2. Single => []Single
  <2>1. Single => Single'
    BY DEF Single
  <2> QED
    BY <2>1, PTL
<1> QED
  BY <1>1, <1>2, InitFIFO, StepFIFO, StepRefines, PTL
     DEF Spec, ImplementsBoundedQueue, Abstract!Spec

\* What was taken is what was stored first.
PrefixInv ==
    /\ Len(taken) <= Len(stored)
    /\ \A i \in 1 .. Len(taken) : taken[i] = stored[i]

LEMMA PrefixStep ==
    ASSUME TypeOK, PrefixInv, [Abstract!Next]_(Abstract!vars)
    PROVE  PrefixInv'
<1>1. Len(stored) \in Nat /\ Len(taken) \in Nat
  BY LogLengths
<1>2. CASE \E r \in Requests : Abstract!Enqueue(r)
  <2>1. PICK r \in Requests : stored' = Append(stored, r) /\ taken' = taken
    BY <1>2 DEF Abstract!Enqueue
  <2>2. /\ Len(stored') = Len(stored) + 1
        /\ \A i \in 1 .. Len(stored) : stored'[i] = stored[i]
    BY <2>1, AppendProperties DEF TypeOK
  <2> QED
    BY <1>1, <2>1, <2>2 DEF PrefixInv
<1>3. CASE Abstract!Dequeue
  <2>1. /\ Len(taken) < Len(stored) /\ stored' = stored
        /\ taken' = Append(taken, stored[Len(taken) + 1])
    BY <1>3 DEF Abstract!Dequeue
  <2>2. stored[Len(taken) + 1] \in Requests \cup {Uninit}
    BY <1>1, <2>1, ElementOfSeq DEF TypeOK
  <2>3. /\ Len(taken') = Len(taken) + 1
        /\ \A i \in 1 .. Len(taken) : taken'[i] = taken[i]
        /\ taken'[Len(taken) + 1] = stored[Len(taken) + 1]
    BY <2>1, <2>2, AppendProperties DEF TypeOK
  <2>4. ASSUME NEW i \in 1 .. Len(taken')
        PROVE  taken'[i] = stored[i]
    <3>1. i \in 1 .. Len(taken) \/ i = Len(taken) + 1
      BY <1>1, <2>3
    <3> QED
      BY <2>3, <3>1 DEF PrefixInv
  <2> QED
    BY <1>1, <2>1, <2>3, <2>4 DEF PrefixInv
<1>4. CASE UNCHANGED Abstract!vars
  BY <1>4 DEF Abstract!vars, PrefixInv
<1> QED
  BY <1>2, <1>3, <1>4 DEF Abstract!Next

\* With one producer and one session, pcq_dequeue returns the requests in the
\* order in which pcq_enqueue put them in.
THEOREM TakenIsPrefix == Single /\ Spec => []PrefixInv
<1>1. Init => PrefixInv
  BY DEF Init, PrefixInv
<1>2. Single => []Single
  <2>1. Single => Single'
    BY DEF Single
  <2> QED
    BY <2>1, PTL
<1>3. Single /\ IInv /\ PrefixInv /\ [Next]_vars => PrefixInv'
  BY StepRefines, PrefixStep DEF IInv
<1> QED
  BY <1>1, <1>2, <1>3, InitFIFO, StepFIFO, PTL DEF Spec

\* With one producer and one session, what pcq_dequeue returns the i-th time
\* is the i-th request that parser() allocated: none comes out twice.
THEOREM RequestsComeOutOnce == Single /\ Spec => []TakenOnce
<1>1. PrefixInv /\ RingInv => TakenOnce
  <2> SUFFICES ASSUME PrefixInv, RingInv
               PROVE  TakenOnce
    OBVIOUS
  <2>1. Len(stored) \in Nat /\ Len(taken) \in Nat
    BY LogLengths DEF RingInv
  <2>2. \A i \in 1 .. Len(taken) : taken[i] = i
    BY <2>1 DEF PrefixInv, RingInv, PutInv
  <2> QED
    BY <2>2 DEF TakenOnce
<1>2. Single => OneProducer
  BY DEF Single, OneProducer
<1> QED
  BY <1>1, <1>2, TakenIsPrefix, RingInvHolds, PTL

\* producer-consumer.h:48-50 says that a dequeue sleeps while the queue is
\* empty: with one producer and one session, no more is taken than was stored.
THEOREM OneSessionSleeps == Single /\ Spec => []SleepsWhenEmpty
<1>1. PrefixInv => SleepsWhenEmpty
  BY DEF PrefixInv, SleepsWhenEmpty
<1> QED
  BY <1>1, TakenIsPrefix, PTL
=============================================================================
