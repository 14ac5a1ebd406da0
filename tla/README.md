# mbroker in TLA+

This directory models the message broker of this repository: `mbroker`, which
keeps message boxes in an in-memory file system (TecnicoFS), and the client
programs `pub`, `sub` and `manager`, which talk to it through named pipes.  The
TLA+ modules follow the C code, TLC checks small instances of them, and TLAPS
proves some of the results for every value of the constants.

## Inventory

| Part | Source | State | Operations |
|---|---|---|---|
| Request queue | `producer-consumer/` | ring buffer, head, tail, current size, five mutexes, two condition variables | `pcq_create`, `pcq_enqueue`, `pcq_dequeue`, `pcq_destroy` |
| TecnicoFS | `fs/operations.c`, `fs/state.c` | inode table and its free map, root directory block, data blocks and their free map, open file table | `tfs_init`, `tfs_open`, `tfs_close`, `tfs_write`, `tfs_read`, `tfs_unlink`, `tfs_destroy` |
| Message boxes | `mbroker/mbroker.c` 583-745 | per box: file, `box_size`, lock, condition variable; per session: `offset`, `box_fd` | publishing, catching up with the box, waiting, sending |
| Registry of boxes and sessions | `mbroker/mbroker.c` 202-250, 280-298, 338-580 | `boxes[]`, `boxes_lock`, `clients[]`, `n_publishers`, `n_subscribers` | create, remove, register, finish a session |
| Listing | `mbroker/mbroker.c` 440-500, `manager/manager.c` | reads `boxes[]` | one reply per box, with a flag on the last |
| Request loop and shutdown | `mbroker/mbroker.c` 48-200, 252-336 | register pipe, session threads | `parser`, `client_session`, `close_server`, signal handlers |
| Publisher, subscriber, manager | `publisher/pub.c`, `subscriber/sub.c`, `manager/manager.c` | a named pipe each | register, send or print, leave |
| Helpers | `utils/` | none of interest | pipe I/O with retries, logging, assertions |

**How they interact.** `main` opens the register pipe and, in `parser`,
allocates one request per registration and enqueues it.  Each of the
`max_sessions` session threads dequeues a request, opens the client's own pipe
and serves it until the client leaves.  A session of a publisher appends to the
box's file through TecnicoFS and signals the box's condition variable; a session
of a subscriber reads the file and writes to its client's pipe.  The session
threads share `boxes[]`, `clients[]`, the boxes' locks and TecnicoFS, in which
`g_library_mutex` serialises every operation.

**What is hard.**  (1) The queue spreads one enqueue or dequeue over several
mutexes.  (2) A file may be unlinked or truncated while handles are open on it,
and inodes and blocks are re-used.  (3) A subscriber reads the file and moves
its offset without the lock that orders the writers.  (4) Handlers return from
inside critical sections, and the thread that "closes the server" joins other
threads.  (5) Sessions outlive the boxes they are about.  (6) Clients register
before they make the pipes they name.

**What makes each part correct.**

* Queue: a bounded FIFO; each request is handed out once; no index leaves the
  buffer; no count is lost; no wakeup is lost.
* TecnicoFS: directory, inodes and blocks agree after every sequence of calls,
  the failing ones included; files never share a block; none is leaked; reads
  return what was written to the file of that name.
* Boxes: `box_size` is what the file holds; a subscriber's count, handle and
  the file stay in step; each message is shown, in order, once; a subscriber
  that stays catches up; a session that ends leaves the box usable.
* Registry: at most one publisher per box; `n_publishers`, `n_subscribers` count
  the sessions; no session uses a box after its removal; locks are given back.
* Listing: the manager prints every box, once, and stops at the last.
* Clients: the broker never opens a pipe before it exists, nor an old one.

## The modules

| Module | What it is |
|---|---|
| `BoundedQueue` | what `producer-consumer.h` promises: a bounded FIFO of two logs |
| `PCQueue` | `producer-consumer.c`, one action per lock, load, store, sleep, signal |
| `PCQueueProofs` | types, mutual exclusion, the count, the slots and the wakeups of `PCQueue`, for any number of sessions |
| `PCQueueFIFOProofs` | `PCQueue` with one thread at each end implements `BoundedQueue`, in the order of the requests |
| `FileStore` | what `operations.h` promises: named files and handles, no inodes or blocks |
| `TecnicoFS` | `operations.c` and `state.c`, one action per outcome of a call |
| `TecnicoFSStore` | the refinement mapping from `TecnicoFS` to `FileStore` |
| `TecnicoFSProofs` | types, directory, blocks and faults of `TecnicoFS`, and that it implements `FileStore` |
| `BoxStream` | one box: a publisher's thread and subscribers' threads |
| `BoxStreamProofs` | proofs about `BoxStream` |
| `BoxSet` | what a manager may rely on: the boxes are a set of names, and requests take effect one at a time |
| `BoxRegistry` | `boxes[]`, `clients[]` and `boxes_lock`: registering, creating, removing, listing and ending sessions, by a pool of threads |
| `BoxRegistryProofs` | types, consistency of the tables, slots and sessions of `BoxRegistry` |
| `BoxRegistrySetProofs` | `BoxRegistry` implements `BoxSet`, and boxes have files |
| `BoxRegistryListProofs` | a list of a registry at rest is exact |
| `Handshake` | the programs, the register pipe, the main thread and the named pipe of each program |
| `HandshakeProofs` | proofs about `Handshake` |
| `MCPCQueue`, `MCTecnicoFS`, `MCBoxStream`, `MCBoxRegistry`, `MCHandshake` | constants for TLC |

An operator marked "Seeded fault" is a wrong version of the operator after it, a
plausible slip in the same lines of C.  No specification uses it: put in the
place of the right one, it makes the property it was written for fail, which
shows that the property depends on those lines.

### PCQueue

Every critical section of `pcq_enqueue` and `pcq_dequeue` is cut at each lock,
shared access, sleep and signal; `pc` holds where a thread is (`e_...` in
enqueue, `d_...` in dequeue).  `pthread_cond_wait` is two steps, releasing the
mutex and blocking, then taking the mutex again; it may also wake
spuriously.  An unlock that follows a shared access of the same mutex belongs to
the step of that access: nothing another thread can see lies between.  Around
the operations, `Parse` is the producer's loop in `parser` and `ServeRequest` the
session between two calls of `pcq_dequeue`.  `pcq_current_size` is a `size_t`: it
wraps at `SizeMod`.  A slot that no store reached holds `Uninit`, the
indeterminate content of the `malloc`ed buffer.  The histories `stored` and
`taken` log what was put in and got out.  The code compares the results of the
pthread calls with -1, which they never return; those branches are left out.

### TecnicoFS

Every operation holds `g_library_mutex` from its first statement to its last, so
each is one step, with one action per outcome: opening an existing file
(truncated, appended to, or neither), creating one, failing to create one because
its name is too long or the directory or inode table is full, finding the open
file table full *after* the file was created or truncated, and so on.  The
allocation loops take the first free number (`IsFirst`).  `inode_delete` leaves
size and block in the inode and `tfs_unlink` leaves handles open, as the code
does; `tfs_read` computes `i_size - of_offset` without sign.  An access outside
the block ends the model in "undefined", a `PANIC` in "exited".  `CloseFirst`
says whether callers close a file before they unlink or truncate it.  That is
what operations.h assumes and what the broker does not do: it never closes a
handle at all.  `FileStore` and the leak of blocks are checked with it, all
else without.

### BoxStream

Messages are numbers: message 2 of length 3 is the bytes `2 2 0`.  The steps of
the publisher's thread are the blocking read of the pipe, the lock, the write to
the file, and the count with broadcast and unlock.  A subscriber's thread first
sends what the box holds (`u_...`), all under `box->lock`; its loop then sleeps
or finds more (`s_wait`), reads a frame without the lock (`s_read`), and writes
it to the pipe (`s_send`).  Clients may leave at any time; a write to the pipe of
a client that left fails.  Handles of TecnicoFS are counted in `opened` and never
given back.  `CloseServer` is a handler that returned -1: `close_server` joins
thread 0 first, so only thread 0, or a second thread that joins it, gets to
`exit`; any other thread stays there with the locks it holds.  The box exists
throughout and `FirstThread` is the publisher's thread.

Two things happen in this model that no run states as a property.  A subscriber
that leaves while it is sent what the box holds (`UntilNowPipeClosed`) takes its
thread into `close_server` with `box->lock` held, where `mbroker.c:672` ends the
same event "safely" a few lines earlier.  And `client->offset` is never reset: a
thread's second subscriber session adds the file to the offset of the first,
finds `box_size` different from it, reads at the end of the file and ends.
`FirstSessionInStep` is therefore about first sessions only.

### BoxRegistry

`boxes` joins `boxes[]` and `free_boxes[]`: a slot has a name, a flag and its two
counts.  `clients` is `clients[]`: the request, the name of the box, whether
`client_pipename` is still there, the box pointer (a slot or `NULL`), `box_fd` and
the descriptor of the pipe.  `frame` holds the locals of each thread.  `pc` names
the handler (`r_` register, `p_` publisher, `u_`/`s_` subscriber, `c_` create,
`d_` remove, `l_` list) and the statement in it.

* The handlers are cut where another thread can see a difference: `num_boxes++`,
  the slot taken, the box copied; the slot freed, the file unlinked, the name
  cleared, `num_boxes--`; the count of publishers read and written back.
* `finish_client_session` is one step, also when `handle_tfs_remove_box` runs it on
  the `client_t` of another thread.  It closes a descriptor by its number, which by
  then may belong to another session: `open` returns the lowest number that is free.
  With the pipe closed already, or `box_fd` at -1, it returns -1 half done.
* `GetBox` compares the names of free slots too, whose name is empty, so that a
  thread whose session was ended under it finds "the box" of an empty name.
* `NullBox` is the use of `client->box` after a removal has set it to `NULL`.
* `CloseServer` is as in `BoxStream`.  A removal that fails half way keeps
  `boxes_lock`; one whose pipe cannot be opened gives it back.
* `OpenBlocks` is the `open` of a handler that never returns.  A program that is
  killed between its request (`manager.c:71`) and its own `open` (line 76) leaves the
  pipe it made, and `open` of that pipe waits for ever (`stuck`).  A removal waits
  there with `boxes_lock` held (`mbroker.c:382`): from then on no box can be created
  or removed.  A killed program whose pipe is not there is an `open` that fails.
* A subscriber that leaves while it is sent what the box holds takes its thread to
  `close_server` with its session unfinished (`SubscriberLosesPipe`); the lock of
  the box that it keeps is in `BoxStream` only.
* A list is sent entry by entry while boxes come and go.  The manager that reads it
  is modelled too: it stops at an empty name or at the entry flagged as the last,
  and the broker that still has entries to send then finds the pipe closed.  So does
  every list of an empty registry with more than one slot: after the first entry
  the manager leaves, and the thread may end in `close_server` (`ListPipeClosed`).
* `changes` counts the changes of `boxes[]` and only serves `ListExact`: it tells
  whether the registry was the same from the first to the last entry.

What is in a box, its lock and its condition variable are those of `BoxStream`;
here a subscriber that waits is `signalled` by a publisher of its slot, or finds
`box_size` changed by a removal.  Assumptions about the build and the inputs:
`clients[]`, the first `malloc` of the process, is zero; the optimised build (`-O3`
in the Makefile) loads a count once where the source names it twice in a row; names
in requests are not empty and are paths TecnicoFS takes (a refused one acts as a
file system that is full); opcodes are those the programs send.  That the open file
table can fill up is in `BoxStream` only.

### BoxSet

`present` is the set of names, `decided` the outcome a thread has settled on and not
yet sent.  In the mapping (at the end of `BoxRegistry`) `present` is the set of names
in `boxes[]`: a creation takes effect when the box is copied to its slot, a removal
when the name is cleared.  Both are steps in the middle of critical sections, with
`num_boxes`, `free_boxes[]` and TecnicoFS ahead or behind at the time.

### Handshake

A program opens the register pipe, sends its request, unlinks an old named pipe,
makes a new one and opens it; a manager makes its pipe before it sends.  `Route`
holds the two orders.  A pipe of an earlier run may be there at the start.  `open` of
a pipe waits for the other side, and what a thread opened is remembered, so that a
thread can wait for ever on a pipe that was unlinked (`"old"`).  The main thread
opens the register pipe a second time in each turn, which returns only while a
program has it open, and then reads until no program has.  A request written in
several `write` calls is one step: each program's is shorter than `PIPE_BUF` and sent
by one call of `try_write`.  Programs in `Mortal` can be killed.  A session lasts as
long as its program likes.

The queue has the critical sections of `PCQueue` that store, test, take and count,
without the locks and signals in between: `stored` is what went into the ring, `taken`
how far its head has come and `size` the count, where a number below zero is one that
wrapped.  With two threads it goes wrong here as it does in `pcq_pool_empty`: both
pass the test on one request, and the second takes a position that is not stored yet
(`TakesUnstored`).  It gets what the slot held before, an old request that is then
served a second time, or what was never initialised: `NULL`, with which the thread
returns from `client_session`, or anything.  The request that is stored at this
position later is never taken.  `astray` records that this has happened once.

## What is checked

Passing runs:

| Run | Shows |
|---|---|
| `pcq_single` | With one producer and one session the queue implements `BoundedQueue`, takes each request once (`TakenOnce`), the ring holds exactly what was stored and not taken (`FIFOInv`), and both operations return (`DequeueReturns`, `EnqueueReturns`): signals under other mutexes than the count lose no wakeup |
| `pcq_pool` | With two sessions, where the queue is no FIFO any more: critical sections exclude each other, the size is the difference of the logs even after it wrapped (`SizeCounts`), the i-th dequeue still takes the i-th position (`SlotDiscipline`), and while a session sleeps every request in the ring has a thread that comes for it, as has a producer that sleeps beside a free slot (`NoWakeupLost`) |
| `tfs_store` | With `CloseFirst`, all modes: `TecnicoFS` implements `FileStore`, and blocks in use are exactly those of files (`NoBlockLeaked`) |
| `tfs_stale` | Without `CloseFirst`, in the broker's modes: the directory agrees with the inodes, files own distinct blocks, and only handles on unlinked files can bring the process down |
| `box_full` | Two subscribers with two sessions each, a box and an open file table that fill up: `box_size` is what the file holds whenever the lock is free (`SizeCounted`), offsets and handles stay in step (`FirstSessionInStep`), messages are shown in order and once (`OrderPreserved`), no text copied out of the file or a frame runs past what was read (`TextsTerminated`), no thread sleeps while it has something to send (`SleepersCaughtUp`), and who stays catches up (`CatchesUp`) |
| `reg_all` | Two threads with every kind of request: whoever gets `boxes_lock` finds the three tables in agreement (`RegistryAgrees`), a creation that counted finds a slot and its name still new (`SlotAvailable`), a box without a file is one whose own creation is yet to make it or failed, or one being unlinked (`BoxHasFile`), a session loses its box only to a removal that took its name too (`SessionKeepsBox`), a list of a registry at rest is exact (`ListExact`), and `BoxRegistry` implements `BoxSet` |
| `reg_live` | Every request to create or remove a box ends, unless its own manager was killed before it opened its pipe, a thread sits in `close_server`, or a removal holds `boxes_lock` in the `open` of a killed manager's pipe (`RequestsEnd`).  Each exception is needed: a removal that fails keeps `boxes_lock`, and so does one that is stuck in `open` |
| `handshake` | Two threads, whose queue can go astray.  No manager closes the broker or leaves a thread waiting on an old pipe, and the manager that a thread waits for on its new pipe is about to open it, or was killed there (`OnlyEarlyFail`): such a manager costs the broker the thread.  Until the queue goes astray, the request of a program that waits is in the register pipe, in the queue or with a thread, and in any case the main thread never blocks in `open` while one that waits is in the pipe (`RequestsKept`).  While threads become idle again and again, every request in the register pipe is taken (`RequestsTaken`) and managers are connected (`ManagersServed`), unless the queue goes astray |

`ListExact` covers a registry of a single box, of which `manager.c:129` says that it
"doesnt work": the comment is out of date.

Runs that TLC refutes.  Each states what a comment, a header or an assertion of the
repository says, and the counterexample is an execution of the code:

| Run | Statement | What happens |
|---|---|---|
| `pcq_pool_empty` | `producer-consumer.h:50` | Two sessions pass the test of `pcq_dequeue` on one request; one takes a slot that holds nothing and the size wraps |
| `box_each` | `mbroker.c:644-645` | Two messages travel in one frame and the second is never printed |
| `box_usable` | `mbroker.c:617` | The session of a publisher that filled the box ends with `box->lock` held |
| `reg_pubs` | `mbroker.h:23`, `mbroker.c:229` | Two publishers read `n_publishers` before either writes it; or a third comes after a refused one, whose `finish_client_session` counted down the first |

A related statement needs no run of its own: the asserts "inode of open file
deleted" in `operations.c:202` and `:261` test a pointer that `inode_get` never
returns as NULL.  A file that is unlinked while open is the case `tfs_stale` is
about; the handles it leaves are `orphans`, and `OnlyOrphansFault` says what they can
do.

### Bounds

* `pcq_single`: ring of two slots, five requests.  Both ends can wait and the
  ring wraps twice.  `pcq_pool`: two sessions, as many slots as sessions (as
  `mbroker_init` makes it), four requests and about four dequeues, one or more
  of them past the end.  `SizeMod = 8` is enough to tell a size below zero
  from every legal one.  No session starts after `MaxTaken` dequeues.
* TecnicoFS: blocks of two bytes, three inodes and blocks (one each for the
  root), two directory entries, two handles, two names and one too long.  Every
  table can fill up, every inode and block is re-used, two handles can be on one
  file, and a write can be shortened.  One byte value is enough, because `Junk`
  tells a written byte from one that was not; a byte of another file shows in
  the ownership of blocks.  Names are symmetric.
* BoxStream: a frame of three bytes and messages of two and three, so that a
  frame can hold one message and the start of the next; boxes of 5 to 9 bytes,
  up to three messages, one or two subscribers and one or two sessions each.
* BoxRegistry: two threads, five requests of any kind, two slots, three names and one
  file, a file less than slots as in the code (64 inodes, one of them the root's).
  There are more names than slots, so creations are refused for want of a slot as
  well as for a name that exists; five requests are enough to create two boxes,
  use one, remove it and re-use its slot.  Names are symmetric.  `CountLimit = 4`
  tells a count below zero from every legal one.  `reg_live` has three requests and
  two names; `reg_pubs` three threads, one slot and one name.
* Handshake: a manager, which may be killed, a publisher and a subscriber, each with
  or without an old pipe; two threads and a queue of two, so that the queue fills and
  a request waits in the register pipe.  `MaxAhead = 1` lets a thread take a position
  before it is stored: it gets an empty slot or an old request, and the request that
  is stored there next is lost.

### Fairness

`FairSpec` of `PCQueue` and of `BoxStream` say that the operating system runs
every thread, and that a thread that waits for a mutex which is free again
and again gets it at some time (strong fairness: POSIX mutexes do not promise
an order, but a thread is not passed over for ever).  Nothing is assumed of
clients: no request need arrive, no session need end, no spurious wakeup need
happen.  In `BoxStream` no thread makes progress once the process has ended.
`CatchesUp` excludes clients that left and locks kept by a failed handler.

`FairSpec` of `BoxRegistry` asks the same of the handlers that wait for nothing but
`boxes_lock` or, in `open`, for the program on the other side: that a manager opens
its pipe after its request is the order of its own code.  A manager that is killed
before it does is `OpenBlocks`, after which the `open` never returns.  Nothing is asked
of publishers and subscribers.
In `Handshake` weak fairness is enough, since no step waits for a lock: programs,
main thread and session threads run.  Sessions need not end, so the two
properties there are under the hypothesis that threads become idle again and again.
A queue that went astray may keep a request for ever, which is the exception they
name; with one thread there is none, as `OneSessionInStep` proves.

Deadlock is not checked where the system may stop: when the bounded requests and
messages are used up, when the process has exited, or when threads are stuck in
`close_server`.

## What is proved

TLAPS checks the theorems of the eight proof modules for every value of the
constants that satisfies the named assumptions of the models:

* `QueueAssumption`, `FSAssumption`: capacities and tables are not empty where
  `pcq_create` and `tfs_init` require it, a file name is not the cleared name, a
  byte is not `Junk`, the root directory has inode and block 0, the sessions of the
  queue are finitely many;
* `RegistryAssumption`: there is a thread and a slot, a box name is not empty, and
  opcodes are those the programs send;
* `BoxAssumption`: a message fits in a frame, as the publisher program cuts it, and
  the open file table has an entry, as the creation of the box took one;
* `HandshakeAssumption`: the queue has room for a request, a program is a manager or
  one that sends its request before it makes its pipe, only programs are killed, and
  the bound `MaxAhead` is a number.

Nothing else is assumed, except where a theorem says so: `OneProducer` (the broker
has one, its main thread), `Single` (one producer and one session) and `CloseFirst`
are hypotheses of theirs.

| Theorem | Establishes | Inductive invariant |
|---|---|---|
| `PCQueueProofs!TypeCorrect` | the indices stay in the buffer and the size is a `size_t`, for any number of threads | `TypeOK` |
| `PCQueueProofs!MutexesExclude` | the critical sections of each of the five mutexes exclude each other | `OwnerInv`: a thread inside a critical section is the owner of its mutex |
| `PCQueueProofs!NoCountIsLost` | the size is what was stored less what was taken, modulo `SizeMod`, but for the threads that are yet to count, for any number of threads: also after it wrapped | `CountInv`: the balance of stored, taken and not yet counted, with the threads that count as a finite set |
| `PCQueueProofs!SessionsKeepToSlots` | with `OneProducer`, the i-th dequeue has a request of the i-th position of the ring, or none yet, however many sessions race | `RingInv`: `PutInv` and `SlotInv` with the two above |
| `PCQueueProofs!WakeupsArrive` | with `OneProducer`, no session and no producer sleeps through the signal meant for it, however many sessions race | `WakeInv`: `AwaitedInv`, `RoomInv`, `BlockedInv` and `RoomSignalled` with `CountInv`, `MutualExclusion` and `TypeOK` |
| `PCQueueFIFOProofs!RingIsFIFO` | with `Single`, the ring holds in order what was stored and not taken, and a thread that passed its wait loop keeps its slot or request until it moves the ring | `IInv`: `TypeOK`, `FIFOInv`, and each thread runs its own operation with a request in hand |
| `PCQueueFIFOProofs!QueueIsBoundedFIFO` | with `Single`, the code implements `BoundedQueue` | `IInv` |
| `PCQueueFIFOProofs!RequestsComeOutOnce` | with `Single`, the i-th dequeue returns the i-th request allocated | `PrefixInv`: what was taken is a prefix of what was stored |
| `PCQueueFIFOProofs!OneSessionSleeps` | with `Single`, no more is taken than was stored: what `pcq_pool_empty` refutes for two sessions | `PrefixInv` |
| `TecnicoFSProofs!TypeCorrect` | the tables keep their shape and no offset leaves its block: the `memcpy` of `tfs_write` stays in bounds | `TypeOK` |
| `TecnicoFSProofs!DirectoryAgrees` | one name and one entry per file, and every inode in use has a name | `DirInv`: `DirectoryConsistent`, and the root's inode is TAKEN |
| `TecnicoFSProofs!BlocksNeverShared` | no two files share a block, and no file's block is free | `BlocksOwned` with `TypeOK` and `DirInv` |
| `TecnicoFSProofs!NoBlockIsLost` | with `CloseFirst`, the blocks in use are those of the files | `LeakInv`: `NoBlockLeaked`, and every open handle is on an inode that exists |
| `TecnicoFSProofs!FaultsNeedOrphans` | without truncation, only a handle on an unlinked file can take the process down | `OnlyOrphansFault` with the three above |
| `TecnicoFSProofs!TecnicoFSIsFileStore` | with `CloseFirst`, every call of `operations.h` does and returns what `FileStore` allows: no re-use of an inode, block, entry or handle can be seen | `FSInv`: `TypeOK`, `DirInv`, `BlocksOwned` and `StoreInv` |
| `BoxRegistryProofs!TypeCorrect` | tables, sessions and locals keep their shape and no scan leaves its array, for any number of threads, slots and names | `Inv`: `TypeOK`, `RegistryInv` and `BoxKept` |
| `BoxRegistryProofs!RegistryIsConsistent` | `num_boxes`, the flags and the names agree whenever `boxes_lock` is free; no name is in two slots | `Inv` |
| `BoxRegistryProofs!SlotsSuffice` | a creation that was not refused finds a slot, and its name is still new when it is copied | `Inv` |
| `BoxRegistryProofs!SessionsKeepBoxes` | a session loses its box only to a removal that took its name | `Inv` |
| `BoxRegistrySetProofs!RegistryIsBoxSet` | creations and removals implement `BoxSet`: each is decided at one moment by the boxes there are then | `SetInv`: `Inv`, `FileInv` and `RequestInv` |
| `BoxRegistrySetProofs!BoxesHaveFiles` | a box without a file is one whose own creation is yet to make it, or could not and closed the server, or one that is being unlinked | `SetInv` |
| `BoxRegistryListProofs!ListsAreExact` | a manager whose list no creation or removal overlaps is shown every box and nothing else, or that there are none | `ListsInv`: `SetInv`, `ListingOK`, and `ListInv` for each thread |
| `BoxStreamProofs!TypeCorrect` | the file stays in its block, no handle is beyond its end, no frame is too long | `Inv` of the module |
| `BoxStreamProofs!FreeBoxIsCounted` | `box_size` is what the file holds whenever `box->lock` is free | `Inv`, its part `CountInv` |
| `BoxStreamProofs!FirstSessionReadsInStep` | in a thread's first session `client->offset` and the handle are in step, and a read after the wait finds bytes | `Inv`, its part `SessionInv` |
| `BoxStreamProofs!TextsInOrder` | a subscriber is shown texts of the box in the order in which they were written, none twice, for any number of subscribers, sessions and messages | `TextInv`: `Inv`, `FileInv`, and `FrameInv`, `ShownInv` for each subscriber's thread, `SleepInv` |
| `BoxStreamProofs!TextsEnd` | `strcpy` of a text finds its NUL within what was read | `TextInv` |
| `BoxStreamProofs!NoBroadcastLost` | a thread that sleeps has sent all that was counted, or is about to be woken | `TextInv`, its part `SleepInv` |
| `HandshakeProofs!TypeCorrect` | each request is in one place, once, and none is stored over one that is still to be taken, however far the queue goes astray | `IInv`: `RequestsInv`, `PipesInv` and `ThreadInv`; `CountInv` |
| `HandshakeProofs!OneSessionInStep` | with one session thread the queue never goes astray | `OneInv` with `IInv` and `CountInv` |
| `HandshakeProofs!ManagersDoNotFail` | no manager makes a thread close the server or wait on an old pipe; the one that a thread waits for is before its `open`, or was killed there, unless the queue went astray | `IInv` and `StepInv` |
| `HandshakeProofs!NoRequestForgotten` | until the queue goes astray no request of a program that waits is dropped; and none is left in the register pipe when the main thread blocks in `open` | `StepInv` and `WritersInv` with `IInv` |

Why the strengthenings are needed: mutual exclusion alone does not stop a thread
from taking a mutex whose owner is inside; directory consistency alone lets a new
file get the root's inode; `tfs_unlink` frees the block of whatever inode the entry
names, and only the directory's agreement with the inode map says that this is a
file; and without "open handles are on existing inodes", a write gives a block to an
inode that is free, and loses it.

The mapping to `FileStore` finds the file of a name and the name of an inode through
the directory, and means something only while `DirInv` makes these two inverse to
each other.  `StoreInv` adds what `CloseFirst` buys: no handle is left on an unlinked
file, every handle is on a file and within it, also after a truncation, and the
process runs.  A write reaches the contents of one file because `BlocksOwned` says
that its block is nobody else's (`WriteBytesContents`, `ContentsKept`), and a read
returns the file's bytes because the offset is within them, so that `i_size -
of_offset` does not wrap.  Each call is a step of `FileStore` by a lemma of its own
(`OpenExistingIsStoreStep` and so on).

In the registry, `RegistryAgrees` says nothing while the lock is taken, so a step of
its owner would have nothing to start from.  `OwnerInv` says how far the tables are
apart at each statement of the owner: `num_boxes` is one ahead from `num_boxes++` to
the slot taken and from the slot freed to `num_boxes--`, and one slot at most is half
done.  A thread in `close_server` may own the lock with the tables in any state;
`LockInv` says that it never gives it back.  `NameInv` says what a handler knows of
the name in its own `client_t`, which removals clear without asking.  A creation
that waits for the lock may find its name gone: it is then refused, because a free
slot has the empty name too and `get_box` finds it, or because without a free slot
`num_boxes` is at its limit.  A removal whose session was ended while it waited
cannot open its pipe.  `TypeCorrect` rests on the same invariant: that `remove_box`, which
looks for the name again, finds the slot that `get_box` found is part of it, and the
reason why `RemoveFreesSlot` has no failing counterpart.  In the proof a step is
`Quiet` (of a thread without the lock), `Owned`, or a manager's, and one lemma for
each of the first two kinds shows that it preserves `Inv`.

The count of the queue is exact only when no thread is between moving the ring
and counting it, which with many threads may be never.  `CountInv` balances the
logs against the threads in between, and needs them to be a finite set for a
cardinality to change by one: they are, as every step moves one thread.
`SlotDiscipline` speaks of what came out; `SlotInv` adds what each slot of the
buffer holds and what a session has in hand, and `PutInv` that requests are stored in
the order of their allocation, which is where one producer is needed.

That no wakeup is lost cannot be seen from the sleepers alone, because the count is
tested under one mutex and changed under another.  What makes it true is that a
session that found the queue empty keeps the mutex of its condition variable until
it sleeps, so that the signal, which takes that mutex, comes after: `AwaitedInv`
therefore speaks of threads that are about to sleep as well (`Drowsy`).  It needs the
size to mean something: with one producer the balance never exceeds the capacity
(`RoomInv`), so that a size of zero, which may be a wrapped one, means that nothing
is left to wait for.  The producer's side is `RoomSignalled`: when it sleeps, or is
about to, and the size is not the capacity, some session is yet to signal.

`BoxHasFile` excuses a box without a file by its own creation, or by one whose session
a removal ended and which has no name any more: it will fail and close the server.
That the creation is the box's own is what makes it inductive (`FileInv`), since the
excuse goes when the creation has made its file.  `RequestInv` ties
the point a handler is at to its opcode, its answer and the slot it empties, as the
mapping to `BoxSet` reads them from there.

`ListExact` speaks of a manager that has read its whole list.  `ListInv` says what
there is to read before: as long as no change has begun since the list did
(`Reading`), no thread is within a change and the tables agree (`Stable`), the
entries read and in the pipe are the names in the slots below the index of the scan,
in their number, and one is marked last exactly when that number is `num_boxes`;
with no box, every entry has an empty name and the first is still to be read.  A
change that begins ends `Reading` for every list, so a step of another thread either
does that or touches nothing a list is made of (`Unlisted`); and a list can begin
only when `boxes_lock` is free to count as undisturbed, which is where `Stable`
comes from.

In `BoxStream`, `SizeCounted` says nothing while the lock is taken.  `CountInv`
says by how much the file is ahead: nothing with any owner but the publisher's
thread, the message between its write and its count, and anything once that thread
has left the critical section without unlocking, which is why `LockInv` is needed
to see that it never unlocks.  `FirstInv` adds that a first session begins at zero,
and that what the wait loop found under the lock is still unread when the thread
reads without it.

What subscribers are shown is read from the file without the lock, so the order of
the texts has to be a property of the file itself.  `FileInv` says that the file is
ordered, that every stretch of it as long as a frame has a NUL, and that it ends in
one unless a publisher's thread that filled the box has kept the lock for ever.
`FrameInv` ties a frame to the place in the file it was read from, and `ShownInv` says
that what was shown comes from before that place.  The texts of a frame are those
that start in it, in the order of their places.  That every finite set of numbers can
be put in order (`OrderExists`) would take an induction on its size; since the theorems
for that have an operator as parameter, the proof takes the least number for which it
fails instead (`LeastNat`, from `WFMin` and `NatLessThanWellFounded`).

In `Handshake`, that no manager fails rests on the pipe of a manager being at its
path as long as the broker may open it (`PipesInv`), which is from before its request
is sent (`RequestsInv`) and for good.  This holds whatever the queue does, since a
thread only ever takes what was stored, or nothing.  `RequestsKept` needs more than
that: `WritersInv` says that a program that runs has the register pipe open, and that
the main thread is blocked only while none has, so that what is left in the pipe then
is of programs that were killed.  `StepInv` holds until the queue goes astray:
the request a thread serves is not in the queue nor with another thread, so that an
answer takes no other request out of reach, and only the thread that a program talks
to has it.  `CountInv` is the balance of what was stored, taken and not yet counted;
with one thread (`OneInv`) it says that what passed the test is there to be taken.

Each proof has one lemma per operation that can disturb the invariant, with the
helpers' effects (`OpenAddsHandle`, `WriteBytesEffect`, `UnlinkClearsFound`,
`ToWriteFits`) as lemmas of their own, and a last step that puts them together.

Only model-checked is what depends on fairness, which is outside TLAPS's reach:
`DequeueReturns`, `EnqueueReturns`, `CatchesUp`, `RequestsEnd`, `RequestsTaken` and
`ManagersServed`.  `NoWakeupLost`, `SleepersCaughtUp` and `RequestsKept` are the
safety that they rest on, and are proved.

`FIFOInv` cannot be weakened to what the ring holds: that it still holds what a
session tested for, when the session comes to load it, depends on the other side
counting only after it moved the ring (`SizeExact`), and on nobody else moving the
same end in between, which is where two sessions break it.

## What is not modelled

* `pcq_destroy` and `tfs_destroy`: they free memory when the process is about to
  exit; the state they leave is not observed.
* The links and the copy of files `operations.h` declares have no implementation.
* Parsing and layout of messages, retries of pipe I/O on `EINTR`, logging: they
  keep no state, and a failure of theirs is an error path of a handler.
* Requests with opcodes no program sends, and `parser` refusing one; `SIGINT` of the
  broker has no handler.
* The order in which `pthread_mutex_init(&boxes_lock)` and the threads that use it run:
  the threads are made first, but wait for a request that `main` sends later.

## Plan

1. `Broker`: boxes of `BoxStream` with the removal of `BoxRegistry`, if the states of
   the two together stay within reach.
