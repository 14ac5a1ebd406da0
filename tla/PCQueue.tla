------------------------------ MODULE PCQueue -------------------------------
(***************************************************************************)
(* producer-consumer/producer-consumer.c: the ring buffer of request       *)
(* pointers through which the broker's main thread (parser) hands requests *)
(* to the session threads (client_session).                                *)
(*                                                                         *)
(* The code splits the queue over five mutexes: the two condition          *)
(* variables each have one, and the head, the tail and the current size    *)
(* each have one.  The wait loops read pcq_current_size under a condition  *)
(* variable's mutex while the other side changes it under another, and the *)
(* test, the move of the ring and the count are three separate critical    *)
(* sections: every lock, load, store, sleep and signal is a step here.     *)
(* The branches on "== -1" are not modelled: the pthread calls return 0 or *)
(* a positive error number, so the code never takes them.                  *)
(***************************************************************************)
EXTENDS Integers, Sequences, FiniteSets

CONSTANTS Producers,    \* threads that call pcq_enqueue (the broker's main)
          Consumers,    \* session threads, which call pcq_dequeue
          Nobody,       \* owner of a free mutex
          Capacity,     \* pcq_capacity
          SizeMod,      \* number of values of a size_t (2^64 in the build)
          MaxRequests,  \* bound: requests allocated by the producers
          MaxTaken      \* bound: dequeues after which no session starts one

ASSUME QueueAssumption ==
    /\ IsFiniteSet(Consumers)            \* max_sessions threads
    /\ Nobody \notin Producers \cup Consumers
    /\ Producers \cap Consumers = {}
    /\ Capacity \in Nat \ {0}            \* pcq_create refuses capacity 0
    /\ SizeMod \in Nat /\ SizeMod > Capacity
    /\ MaxRequests \in Nat /\ MaxTaken \in Nat

Threads  == Producers \cup Consumers
Mutexes  == {"pusher", "popper", "tail", "head", "size"}
Condvars == {"pusher", "popper"}  \* named as the mutex each goes with
Requests == 1 .. MaxRequests      \* one per malloc of a request_t in parser()
Uninit   == 0                     \* what a slot holds before its first store
Slots    == 0 .. Capacity - 1

VARIABLES
    pcq_buffer, pcq_current_size, pcq_head, pcq_tail,
    mutex,      \* the owner of each mutex
    waiting,    \* threads blocked in pthread_cond_wait, not yet woken
    pc,         \* where each thread is
    elem,       \* the pointer each thread is putting in or got out
    allocated,  \* number of requests allocated so far
    stored,     \* history: the requests put in the ring, in order
    taken       \* history: what was got out of the ring, in order

ring  == <<pcq_buffer, pcq_current_size, pcq_head, pcq_tail>>
locks == <<mutex, waiting>>
hist  == <<allocated, stored, taken>>
vars  == <<ring, locks, pc, elem, hist>>

EnqueuePCs == {"e_lock", "e_test", "e_sleep", "e_asleep", "e_unlock",
               "e_lockTail", "e_store", "e_advance", "e_lockSize", "e_count",
               "e_lockPopper", "e_signal"}
DequeuePCs == {"d_lock", "d_test", "d_sleep", "d_asleep", "d_unlock",
               "d_lockHead", "d_load", "d_advance", "d_lockSize", "d_count",
               "d_lockPusher", "d_signal"}
PCs == EnqueuePCs \cup DequeuePCs \cup {"parsing", "session", "ended"}

(***************************************************************************)
(* Steps shared by the two operations.                                     *)
(***************************************************************************)
Goto(t, from, to) == pc[t] = from /\ pc' = [pc EXCEPT ![t] = to]

Lock(t, m, from, to) ==
    /\ Goto(t, from, to)
    /\ mutex[m] = Nobody
    /\ mutex' = [mutex EXCEPT ![m] = t]
    /\ UNCHANGED <<ring, waiting, elem, hist>>

\* Seeded fault: the thread goes on as if it had locked.
LockIgnoringOwner(t, m, from, to) ==
    /\ Goto(t, from, to)
    /\ mutex' = [mutex EXCEPT ![m] = t]
    /\ UNCHANGED <<ring, waiting, elem, hist>>

Release(m) == mutex' = [mutex EXCEPT ![m] = Nobody]

Unlock(t, m, from, to) ==
    /\ Goto(t, from, to)
    /\ Release(m)
    /\ UNCHANGED <<ring, waiting, elem, hist>>

\* pthread_cond_wait releases the mutex and blocks in one step.
Sleep(t, c, from, to) ==
    /\ Goto(t, from, to)
    /\ Release(c)
    /\ waiting' = [waiting EXCEPT ![c] = @ \cup {t}]
    /\ UNCHANGED <<ring, elem, hist>>

\* A thread that was woken comes back from pthread_cond_wait with the mutex.
Wake(t, c, from, to) == t \notin waiting[c] /\ Lock(t, c, from, to)

\* pthread_cond_signal wakes one of the threads that wait, if any does;
\* the mutex it is called under is released right after.
Signal(t, c, from, to) ==
    /\ Goto(t, from, to)
    /\ IF waiting[c] = {}
       THEN UNCHANGED waiting
       ELSE \E w \in waiting[c] : waiting' = [waiting EXCEPT ![c] = @ \ {w}]
    /\ Release(c)
    /\ UNCHANGED <<ring, elem, hist>>

\* POSIX allows pthread_cond_wait to return without a signal.
SpuriousWakeup(t, c) ==
    /\ t \in waiting[c]
    /\ waiting' = [waiting EXCEPT ![c] = @ \ {t}]
    /\ UNCHANGED <<ring, mutex, pc, elem, hist>>

\* Seeded fault: the index is one past the buffer before it wraps.
NextSlotOffByOne(i) == (i + 1) % (Capacity + 1)
NextSlot(i) == (i + 1) % Capacity

\* size_t arithmetic of pcq_current_size++ and pcq_current_size--.
Incr(n) == IF n + 1 = SizeMod THEN 0 ELSE n + 1
\* Seeded fault: the count stops at zero where the size_t wraps around.
DecrSaturating(n) == IF n = 0 THEN 0 ELSE n - 1
Decr(n) == IF n = 0 THEN SizeMod - 1 ELSE n - 1

(***************************************************************************)
(* pcq_create, called once by mbroker_init before any thread uses the      *)
(* queue.                                                                  *)
(***************************************************************************)
Init ==
    /\ pcq_buffer = [i \in Slots |-> Uninit]
    /\ pcq_current_size = 0 /\ pcq_head = 0 /\ pcq_tail = 0
    /\ mutex = [m \in Mutexes |-> Nobody]
    /\ waiting = [c \in Condvars |-> {}]
    /\ pc = [t \in Threads |-> IF t \in Producers THEN "parsing" ELSE "d_lock"]
    /\ elem = [t \in Threads |-> Uninit]
    /\ allocated = 0 /\ stored = <<>> /\ taken = <<>>

(***************************************************************************)
(* pcq_enqueue, by thread t.                                               *)
(***************************************************************************)

\* parser() allocates a new request and calls pcq_enqueue with it.
Parse(t) ==
    /\ Goto(t, "parsing", "e_lock")
    /\ allocated < MaxRequests
    /\ allocated' = allocated + 1
    /\ elem' = [elem EXCEPT ![t] = allocated + 1]
    /\ UNCHANGED <<ring, locks, stored, taken>>

EnqueueLock(t) == Lock(t, "pusher", "e_lock", "e_test")

\* Seeded fault: one request too many.
EnqueueTestOffByOne(t) ==
    /\ Goto(t, "e_test",
            IF pcq_current_size = Capacity + 1 THEN "e_sleep" ELSE "e_unlock")
    /\ UNCHANGED <<ring, locks, elem, hist>>

\* The test of the wait loop, when it finds the queue full and when not.
EnqueueTest(t) ==
    /\ Goto(t, "e_test",
            IF pcq_current_size = Capacity THEN "e_sleep" ELSE "e_unlock")
    /\ UNCHANGED <<ring, locks, elem, hist>>

EnqueueSleep(t)    == Sleep(t, "pusher", "e_sleep", "e_asleep")
EnqueueWake(t)     == Wake(t, "pusher", "e_asleep", "e_test")
EnqueueUnlock(t)   == Unlock(t, "pusher", "e_unlock", "e_lockTail")
EnqueueLockTail(t) == Lock(t, "tail", "e_lockTail", "e_store")

EnqueueStore(t) ==
    /\ Goto(t, "e_store", "e_advance")
    /\ pcq_buffer' = [pcq_buffer EXCEPT ![pcq_tail] = elem[t]]
    /\ UNCHANGED <<pcq_current_size, pcq_head, pcq_tail, locks, elem, hist>>

EnqueueAdvance(t) ==
    /\ Goto(t, "e_advance", "e_lockSize")
    /\ pcq_tail' = NextSlot(pcq_tail)
    /\ Release("tail")
    /\ stored' = Append(stored, elem[t])
    /\ UNCHANGED <<pcq_buffer, pcq_current_size, pcq_head, waiting, elem,
                   allocated, taken>>

EnqueueLockSize(t) == Lock(t, "size", "e_lockSize", "e_count")

EnqueueCount(t) ==
    /\ Goto(t, "e_count", "e_lockPopper")
    /\ pcq_current_size' = Incr(pcq_current_size)
    /\ Release("size")
    /\ UNCHANGED <<pcq_buffer, pcq_head, pcq_tail, waiting, elem, hist>>

\* Seeded fault: signals without pcq_popper_condvar_lock, and so misses a
\* session that has tested the size and does not sleep yet.
EnqueueLockPopperSkipped(t) ==
    /\ Goto(t, "e_lockPopper", "parsing")
    /\ IF waiting["popper"] = {}
       THEN UNCHANGED waiting
       ELSE \E w \in waiting["popper"] :
                waiting' = [waiting EXCEPT !["popper"] = @ \ {w}]
    /\ UNCHANGED <<ring, mutex, elem, hist>>

EnqueueLockPopper(t) == Lock(t, "popper", "e_lockPopper", "e_signal")
EnqueueSignal(t) == Signal(t, "popper", "e_signal", "parsing")

(***************************************************************************)
(* pcq_dequeue, by session thread t.                                       *)
(***************************************************************************)
DequeueLock(t) == Lock(t, "popper", "d_lock", "d_test")

DequeueTest(t) ==
    /\ Goto(t, "d_test",
            IF pcq_current_size = 0 THEN "d_sleep" ELSE "d_unlock")
    /\ UNCHANGED <<ring, locks, elem, hist>>

DequeueSleep(t)    == Sleep(t, "popper", "d_sleep", "d_asleep")

\* Seeded fault: the wait loop is an if, a woken thread does not test again.
DequeueWakeNoRetest(t) == Wake(t, "popper", "d_asleep", "d_unlock")
DequeueWake(t)     == Wake(t, "popper", "d_asleep", "d_test")
DequeueUnlock(t)   == Unlock(t, "popper", "d_unlock", "d_lockHead")

\* Seeded fault: the head is read and moved without pcq_head_lock.
DequeueLockHeadSkipped(t) == LockIgnoringOwner(t, "head", "d_lockHead", "d_load")
DequeueLockHead(t) == Lock(t, "head", "d_lockHead", "d_load")

\* Seeded fault: the head is moved before the element is read.
DequeueLoadPastHead(t) ==
    /\ Goto(t, "d_load", "d_advance")
    /\ elem' = [elem EXCEPT ![t] = pcq_buffer[NextSlot(pcq_head)]]
    /\ UNCHANGED <<ring, locks, hist>>

DequeueLoad(t) ==
    /\ Goto(t, "d_load", "d_advance")
    /\ elem' = [elem EXCEPT ![t] = pcq_buffer[pcq_head]]
    /\ UNCHANGED <<ring, locks, hist>>

DequeueAdvance(t) ==
    /\ Goto(t, "d_advance", "d_lockSize")
    /\ pcq_head' = NextSlot(pcq_head)
    /\ Release("head")
    /\ taken' = Append(taken, elem[t])
    /\ UNCHANGED <<pcq_buffer, pcq_current_size, pcq_tail, waiting, elem,
                   allocated, stored>>

\* Seeded fault: the size is changed without pcq_current_size_lock.
DequeueLockSizeSkipped(t) == LockIgnoringOwner(t, "size", "d_lockSize", "d_count")
DequeueLockSize(t) == Lock(t, "size", "d_lockSize", "d_count")

DequeueCount(t) ==
    /\ Goto(t, "d_count", "d_lockPusher")
    /\ pcq_current_size' = Decr(pcq_current_size)
    /\ Release("size")
    /\ UNCHANGED <<pcq_buffer, pcq_head, pcq_tail, waiting, elem, hist>>

DequeueLockPusher(t) == Lock(t, "pusher", "d_lockPusher", "d_signal")

\* Seeded fault: a dequeue that forgets to signal the producer.
DequeueNoSignal(t) == Unlock(t, "pusher", "d_signal", "session")
DequeueSignal(t) == Signal(t, "pusher", "d_signal", "session")

\* client_session between two calls of pcq_dequeue: the request is served,
\* for as long as its client stays, and the loop calls pcq_dequeue again.
\* A slot no store has reached yields an indeterminate pointer: NULL makes
\* client_session return, and any other value is no request it can serve.
ServeRequest(t) ==
    /\ Len(taken) < MaxTaken
    /\ Goto(t, "session", IF elem[t] = Uninit THEN "ended" ELSE "d_lock")
    /\ UNCHANGED <<ring, locks, elem, hist>>

Enqueue(t) ==
    \/ Parse(t) \/ EnqueueLock(t) \/ EnqueueTest(t) \/ EnqueueSleep(t)
    \/ EnqueueWake(t) \/ EnqueueUnlock(t) \/ EnqueueLockTail(t)
    \/ EnqueueStore(t) \/ EnqueueAdvance(t) \/ EnqueueLockSize(t)
    \/ EnqueueCount(t) \/ EnqueueLockPopper(t) \/ EnqueueSignal(t)
    \/ SpuriousWakeup(t, "pusher")

Dequeue(t) ==
    \/ DequeueLock(t) \/ DequeueTest(t) \/ DequeueSleep(t) \/ DequeueWake(t)
    \/ DequeueUnlock(t) \/ DequeueLockHead(t) \/ DequeueLoad(t)
    \/ DequeueAdvance(t) \/ DequeueLockSize(t) \/ DequeueCount(t)
    \/ DequeueLockPusher(t) \/ DequeueSignal(t) \/ ServeRequest(t)
    \/ SpuriousWakeup(t, "popper")

Next == \/ \E t \in Producers : Enqueue(t)
        \/ \E t \in Consumers : Dequeue(t)

Spec == Init /\ [][Next]_vars

(***************************************************************************)
(* Every thread inside an operation is scheduled: weak fairness for the    *)
(* steps that do not block, strong fairness for taking a mutex that is     *)
(* free again and again.  Nothing is assumed of the arrival of requests,   *)
(* of the end of a session, or of spurious wakeups.                        *)
(***************************************************************************)
EnqueueRuns(t) ==
    /\ WF_vars(EnqueueTest(t) \/ EnqueueSleep(t) \/ EnqueueUnlock(t))
    /\ WF_vars(EnqueueStore(t) \/ EnqueueAdvance(t) \/ EnqueueCount(t)
                 \/ EnqueueSignal(t))
    /\ SF_vars(EnqueueLock(t) \/ EnqueueWake(t))
    /\ SF_vars(EnqueueLockTail(t) \/ EnqueueLockSize(t)
                 \/ EnqueueLockPopper(t))

DequeueRuns(t) ==
    /\ WF_vars(DequeueTest(t) \/ DequeueSleep(t) \/ DequeueUnlock(t))
    /\ WF_vars(DequeueLoad(t) \/ DequeueAdvance(t) \/ DequeueCount(t)
                 \/ DequeueSignal(t))
    /\ SF_vars(DequeueLock(t) \/ DequeueWake(t))
    /\ SF_vars(DequeueLockHead(t) \/ DequeueLockSize(t)
                 \/ DequeueLockPusher(t))

FairSpec == /\ Spec
            /\ \A t \in Producers : EnqueueRuns(t)
            /\ \A t \in Consumers : DequeueRuns(t)

-----------------------------------------------------------------------------
(***************************************************************************)
(* Properties that hold for any number of threads.                         *)
(***************************************************************************)

\* The shape of the queue's state: indices stay inside the buffer, the size
\* is a size_t, every mutex has at most one owner and it is a thread.
TypeOK ==
    /\ pcq_buffer \in [Slots -> Requests \cup {Uninit}]
    /\ pcq_current_size \in 0 .. SizeMod - 1
    /\ pcq_head \in Slots /\ pcq_tail \in Slots
    /\ mutex \in [Mutexes -> Threads \cup {Nobody}]
    /\ waiting \in [Condvars -> SUBSET Threads]
    /\ pc \in [Threads -> PCs]
    /\ elem \in [Threads -> Requests \cup {Uninit}]
    /\ allocated \in 0 .. MaxRequests
    /\ stored \in Seq(Requests \cup {Uninit})
    /\ taken \in Seq(Requests \cup {Uninit})

\* The program points between a lock and its unlock, per mutex.
Inside(m) ==
    IF m = "pusher" THEN {"e_test", "e_sleep", "e_unlock", "d_signal"}
    ELSE IF m = "popper" THEN {"d_test", "d_sleep", "d_unlock", "e_signal"}
    ELSE IF m = "tail" THEN {"e_store", "e_advance"}
    ELSE IF m = "head" THEN {"d_load", "d_advance"}
    ELSE {"e_count", "d_count"}

\* No two threads are inside the critical section of the same mutex: the
\* five locks of pc_queue_t really protect the head, the tail, the size and
\* the two wait loops.
MutualExclusion ==
    \A m \in Mutexes : \A t, u \in Threads :
        pc[t] \in Inside(m) /\ pc[u] \in Inside(m) => t = u

\* Threads that moved the ring and have not yet counted what they moved.
Uncounted == {t \in Threads : pc[t] \in {"e_lockSize", "e_count",
                                         "d_lockSize", "d_count"}}

\* pcq_current_size, a size_t that two operations change long after they
\* moved the ring, is the number of requests stored minus the number taken,
\* corrected by the operations that have not counted yet: no count is lost,
\* whatever the interleaving, even when the size has wrapped below zero.
SizeCounts ==
    pcq_current_size =
        (Len(stored) - Cardinality(Uncounted \cap Producers)
         - (Len(taken) - Cardinality(Uncounted \cap Consumers))) % SizeMod

\* One producer (the broker's main thread) stores request r as the r-th:
\* however the sessions race, even past the end of what was stored, the i-th
\* dequeue comes out with a request of its own slot, so no two sessions get
\* what lies at one position of the ring and none skips a position.
SlotDiscipline ==
    \A i \in 1 .. Len(taken) :
        taken[i] = Uninit \/ taken[i] % Capacity = i % Capacity

\* Threads that will move a request or wake a session that will: a producer
\* that has stored one and not signalled yet, a session that has not tested
\* the size yet, or has and not taken its request.
Coming ==
    {t \in Threads :
        \/ pc[t] \in {"e_lockSize", "e_count", "e_lockPopper", "e_signal",
                     "d_lock", "d_test", "d_unlock", "d_lockHead", "d_load",
                     "d_advance"}
        \/ pc[t] = "d_asleep" /\ t \notin waiting["popper"]}

\* No wakeup is lost, with one producer and any number of sessions: while a
\* session is blocked, each request in the ring has a thread of its own that
\* comes for it, even if it was stored between the session's test and its
\* sleep, or taken from under a session that was woken for it; and while the
\* producer is blocked beside a free slot, a session is about to signal it.
NoWakeupLost ==
    /\ waiting["popper"] # {} =>
         Len(stored) - Len(taken) <= Cardinality(Coming)
    /\ waiting["pusher"] # {} /\ pcq_current_size # Capacity =>
         \E t \in Consumers : pc[t] \in {"d_lockPusher", "d_signal"}

(***************************************************************************)
(* What pc_queue_t promises and keeps only with one thread at each end.    *)
(***************************************************************************)

\* producer-consumer.h:48-50: "remove an element from the back of the queue.
\* If the queue is empty, sleep until the queue has an element": no dequeue
\* gets more out than was put in.
SleepsWhenEmpty == Len(taken) <= Len(stored)

\* A request is never handed to two sessions, nor twice to one.
TakenOnce ==
    \A i, j \in 1 .. Len(taken) : taken[i] = taken[j] => i = j

Occupancy == Len(stored) - Len(taken)
Pending(S) == IF S \cap Uncounted = {} THEN 0 ELSE 1
SlotOf(k) == IF pcq_head + k >= Capacity THEN pcq_head + k - Capacity
             ELSE pcq_head + k

\* With one producer and one session: the size never runs ahead of what the
\* other side may rely on, ...
SizeExact ==
    /\ pcq_current_size =
         Occupancy - Pending(Producers) + Pending(Consumers)
    /\ Occupancy >= Pending(Producers)
    /\ Occupancy + Pending(Consumers) <= Capacity

\* ... a thread that passed its wait loop still has its slot or its request
\* when it comes to move the ring, ...
TestStillValid ==
    /\ \A t \in Producers :
         pc[t] \in {"e_unlock", "e_lockTail", "e_store", "e_advance"}
           => Occupancy + Pending(Consumers) < Capacity
    /\ \A t \in Consumers :
         pc[t] \in {"d_unlock", "d_lockHead", "d_load", "d_advance"}
           => Occupancy > Pending(Producers)

\* ... and the ring holds what was stored and not taken, in order: an
\* enqueue in progress overwrites none of it, a dequeue in progress holds
\* the oldest.
RingContent ==
    /\ pcq_tail = SlotOf(Occupancy)
    /\ \A k \in 0 .. Occupancy - 1 :
         pcq_buffer[SlotOf(k)] = stored[Len(taken) + 1 + k]
    /\ \A t \in Producers :
         pc[t] = "e_advance" => pcq_buffer[pcq_tail] = elem[t]
    /\ \A t \in Consumers :
         pc[t] = "d_advance" => elem[t] = stored[Len(taken) + 1]

FIFOInv == SizeExact /\ TestStillValid /\ RingContent

\* The queue is a bounded FIFO: what the histories show is what the abstract
\* queue allows, so requests come out once, in order, and only when there
\* are any, and go in only when there is room.
Abstract == INSTANCE BoundedQueue
ImplementsBoundedQueue == Abstract!Spec

\* A session inside pcq_dequeue while a request is in the queue gets one.
DequeueReturns ==
    \A t \in Consumers :
        (pc[t] \in DequeuePCs /\ Occupancy > 0) ~> pc[t] = "session"

\* The main thread inside pcq_enqueue while there is room gets its request
\* stored and goes back to parsing.
EnqueueReturns ==
    \A t \in Producers :
        (pc[t] \in EnqueuePCs /\ Occupancy < Capacity) ~> pc[t] = "parsing"
=============================================================================
