----------------------------- MODULE Handshake ------------------------------
(***************************************************************************)
(* How the programs of publisher/, subscriber/ and manager/ get in touch   *)
(* with mbroker: a program writes its request to the register pipe, the    *)
(* main thread of the broker moves it to the queue, a session thread takes *)
(* it and opens the named pipe that the program makes for itself.          *)
(*                                                                         *)
(* A manager makes its pipe and then sends its request; publishers and     *)
(* subscribers send it first.  A named pipe stays in the file system when  *)
(* its program ends, so one of an earlier run may be there.  open() of a   *)
(* named pipe blocks until its other end is opened too.  A program can be  *)
(* killed at any time.                                                     *)
(*                                                                         *)
(* The queue is that of PCQueue, with the critical sections in which its   *)
(* functions store, take and count; PCQueue shows that whoever waits in    *)
(* them is woken.                                                          *)
(***************************************************************************)
EXTENDS Integers, Sequences

CONSTANTS
    Managers, Publishers, Subscribers,   \* programs that run once each
    Mortal,        \* bound: the programs that may be killed
    MaxSessions,   \* threads of the pool, and capacity of the queue
    MaxAhead,      \* bound: positions taken before they are stored
    Nobody         \* no program

Early    == Publishers \cup Subscribers
Programs == Managers \cup Early
Threads  == 0 .. MaxSessions - 1

ASSUME HandshakeAssumption ==
    /\ MaxSessions \in Nat \ {0} /\ MaxAhead \in Nat /\ Managers \cap Early = {}
    /\ Nobody \notin Programs /\ Mortal \subseteq Programs

VARIABLES
    at,        \* where each program is
    node,      \* the named pipe at each program's path: none, an old one, new
    writers,   \* programs that have the register pipe open
    register,  \* requests in the register pipe
    main,      \* where the main thread of the broker is
    stored,    \* the requests that were put in the ring of pc_queue, in order
    taken,     \* positions of the ring that its head has passed
    size,      \* pcq_current_size; a size_t below 0 has wrapped around
    astray,    \* has a position ever been taken before it was stored?
    thread,    \* where each session thread is, for whom, on which pipe
    exited     \* has the broker process ended?

programs == <<at, node>>
queue    == <<stored, taken, size, astray>>
vars     == <<programs, writers, register, main, queue, thread, exited>>

Idle == [at |-> "idle", client |-> Nobody, node |-> "none"]

Init ==
    /\ at = [c \in Programs |-> "start"]
    /\ node \in [Programs -> {"none", "old"}]
    /\ writers = {} /\ register = <<>>
    /\ stored = <<>> /\ taken = 0 /\ size = 0 /\ astray = FALSE
    /\ main = "start"
    /\ thread = [t \in Threads |-> Idle]
    /\ exited = FALSE

-----------------------------------------------------------------------------
(* The programs.                                                           *)

Move(c, from, to) == at[c] = from /\ at' = [at EXCEPT ![c] = to]

\* Seeded fault: the manager sends its request first, too.
RouteAlike(c) == [start |-> "send", send |-> "unlink", make |-> "open"]

\* The two orders of the same steps: what comes after each.
Route(c) == IF c \in Managers
            THEN [start |-> "unlink", make |-> "send", send |-> "open"]
            ELSE [start |-> "send", send |-> "unlink", make |-> "open"]

\* open(register_pipe, O_WRONLY) lets a main thread that waits for it go on.
OpenRegister(c) ==
    /\ Move(c, "start", Route(c).start)
    /\ writers' = writers \cup {c}
    /\ main' = IF main = "blocked" THEN "read" ELSE main
    /\ UNCHANGED <<node, register, queue, thread, exited>>

Send(c) ==
    /\ Move(c, "send", Route(c).send)
    /\ register' = Append(register, c)
    /\ UNCHANGED <<node, writers, main, queue, thread, exited>>

Unlink(c) ==
    /\ Move(c, "unlink", "make")
    /\ node' = [node EXCEPT ![c] = "none"]
    /\ UNCHANGED <<writers, register, main, queue, thread, exited>>

Make(c) ==
    /\ Move(c, "make", Route(c).make)
    /\ node' = [node EXCEPT ![c] = "new"]
    /\ UNCHANGED <<writers, register, main, queue, thread, exited>>

\* The program has its answer, is at the end of its input, finds its pipe
\* closed or, a subscriber, is interrupted: it ends and its files close.
End(c) ==
    /\ Move(c, "talking", "ended")
    /\ writers' = writers \ {c}
    /\ UNCHANGED <<node, register, main, queue, thread, exited>>

Kill(c) ==
    /\ c \in Mortal /\ at[c] \notin {"talking", "ended", "killed"}
    /\ at' = [at EXCEPT ![c] = "killed"]
    /\ writers' = writers \ {c}
    /\ UNCHANGED <<node, register, main, queue, thread, exited>>

-----------------------------------------------------------------------------
(* main of mbroker.c.                                                      *)

\* The register pipe is opened for good once there is a program.
MainStarts ==
    /\ main = "start" /\ writers # {}
    /\ main' = "again"
    /\ UNCHANGED <<programs, writers, register, queue, thread, exited>>

\* Seeded fault: the main thread waits for a new program in any case.
MainOpensAlways ==
    /\ main = "again" /\ main' = "blocked"
    /\ UNCHANGED <<programs, writers, register, queue, thread, exited>>

\* The temporary open, to wait for a program without spinning.
MainOpens ==
    /\ main = "again"
    /\ main' = IF writers = {} THEN "blocked" ELSE "read"
    /\ UNCHANGED <<programs, writers, register, queue, thread, exited>>

\* Seeded fault: pcq_enqueue does not wait.
MainReadsFull ==
    /\ main = "read" /\ register # <<>>
    /\ stored' = Append(stored, Head(register))
    /\ register' = Tail(register)
    /\ main' = "count"
    /\ UNCHANGED <<programs, writers, taken, size, astray, thread, exited>>

\* parser: the request that was read is stored once pcq_enqueue has found
\* room, be it at a position that the head has passed already ...
MainReads ==
    /\ main = "read" /\ register # <<>> /\ size # MaxSessions
    /\ stored' = Append(stored, Head(register))
    /\ register' = Tail(register)
    /\ main' = "count"
    /\ UNCHANGED <<programs, writers, taken, size, astray, thread, exited>>

\* ... and counted.
MainCounts ==
    /\ main = "count" /\ main' = "read"
    /\ size' = size + 1
    /\ UNCHANGED <<programs, writers, register, stored, taken, astray, thread,
                   exited>>

\* try_read returns 0: the pipe is empty and no program has it open.
MainAtEnd ==
    /\ main = "read" /\ register = <<>> /\ writers = {}
    /\ main' = "again"
    /\ UNCHANGED <<programs, writers, register, queue, thread, exited>>

-----------------------------------------------------------------------------
(* The session threads.                                                    *)

\* pcq_dequeue: the test, ...
Dequeue(t) ==
    /\ thread[t].at = "idle" /\ size # 0
    /\ thread' = [thread EXCEPT ![t].at = "taking"]
    /\ UNCHANGED <<programs, writers, register, main, queue, exited>>

\* ... the element at the head, ...
Take(t, c) ==
    /\ thread[t].at = "taking"
    /\ thread' = [thread EXCEPT ![t].at = "counting", ![t].client = c]
    /\ taken' = taken + 1
    /\ UNCHANGED <<programs, writers, register, main, stored, size, exited>>

Takes(t) ==
    /\ taken < Len(stored) /\ Take(t, stored[taken + 1])
    /\ UNCHANGED astray

\* What the slot of position p still holds: the last request that was stored
\* there, or, where none was, no request.
Slot(p) ==
    LET last == {j \in 1 .. Len(stored) :
                    j + MaxSessions > Len(stored) /\ (p - j) % MaxSessions = 0}
    IN  IF last = {} THEN {Nobody} ELSE {stored[j] : j \in last}

\* ... although another thread, which had passed the test for the same
\* request, has taken it, and the position at the head is not stored yet, ...
TakesUnstored(t) ==
    /\ taken >= Len(stored) /\ taken - Len(stored) < MaxAhead
    /\ \E c \in Slot(taken + 1) : Take(t, c)
    /\ astray' = TRUE

\* ... and the count.
Counts(t) ==
    /\ thread[t].at = "counting" /\ thread[t].client # Nobody
    /\ thread' = [thread EXCEPT ![t].at = "open"]
    /\ size' = size - 1
    /\ UNCHANGED <<programs, writers, register, main, stored, taken, astray,
                   exited>>

SomeCloses == \E u \in Threads : thread[u].at = "closing"

\* A slot in which nothing was stored is not initialised.  With NULL, the
\* thread returns; with another value, it may read an opcode that it does not
\* know, or the process ends.
CountsNoRequest(t) ==
    /\ thread[t].at = "counting" /\ thread[t].client = Nobody
    /\ exited' \in BOOLEAN
    /\ \E a \in {"ended", "idle"} :
         /\ thread' = [thread EXCEPT ![t].at = a]
         /\ a = "ended" /\ t = 0 /\ SomeCloses => exited'
    /\ size' = size - 1
    /\ UNCHANGED <<programs, writers, register, main, stored, taken, astray>>

\* open() in a handler finds a pipe, whichever, and blocks ...
ThreadOpens(t) ==
    LET n == node[thread[t].client]
    IN  /\ thread[t].at = "open" /\ n # "none"
        /\ thread' = [thread EXCEPT ![t].at = "waiting", ![t].node = n]
        /\ UNCHANGED <<programs, writers, register, main, queue, exited>>

\* ... or finds none: ENOENT, close_server, which joins thread 0.
ThreadFails(t) ==
    /\ thread[t].at = "open" /\ node[thread[t].client] = "none"
    /\ thread' = [thread EXCEPT ![t].at = "closing"]
    /\ exited' = (t = 0 \/ thread[0].at = "ended" \/ SomeCloses)
    /\ UNCHANGED <<programs, writers, register, main, queue>>

\* Both ends of the same pipe are open.  (A second thread with the same
\* request finds the program with its end open.)
Meet(t, c) ==
    /\ thread[t].at = "waiting" /\ thread[t].client = c
    /\ thread[t].node = "new"
    /\ at[c] \in {"open", "talking"} /\ at' = [at EXCEPT ![c] = "talking"]
    /\ thread' = [thread EXCEPT ![t].at = "talking"]
    /\ UNCHANGED <<node, writers, register, main, queue, exited>>

\* The handler returns: the program has left, or the broker ends the session.
SessionEnds(t) ==
    /\ thread[t].at = "talking"
    /\ thread' = [thread EXCEPT ![t] = Idle]
    /\ UNCHANGED <<programs, writers, register, main, queue, exited>>

-----------------------------------------------------------------------------
ProgramWorks(c) ==
    \/ OpenRegister(c) \/ Send(c) \/ Unlink(c) \/ Make(c)
    \/ \E t \in Threads : Meet(t, c)

MainWorks == MainStarts \/ MainOpens \/ MainReads \/ MainCounts \/ MainAtEnd

ThreadWorks(t) ==
    \/ Dequeue(t) \/ Takes(t) \/ TakesUnstored(t) \/ Counts(t)
    \/ CountsNoRequest(t) \/ ThreadOpens(t) \/ ThreadFails(t)

Next == ~exited /\
    \/ \E c \in Programs : ProgramWorks(c) \/ End(c) \/ Kill(c)
    \/ MainWorks
    \/ \E t \in Threads : ThreadWorks(t) \/ SessionEnds(t)

\* Processes and threads run; sessions last as long as the programs like.
Spec ==
    /\ Init /\ [][Next]_vars
    /\ \A c \in Programs : WF_vars(~exited /\ ProgramWorks(c))
    /\ WF_vars(~exited /\ MainWorks)
    /\ \A t \in Threads : WF_vars(~exited /\ ThreadWorks(t))

-----------------------------------------------------------------------------
\* The shape of the state: a thread that serves nobody waits for no pipe, no
\* request is stored twice or stored and still in the register pipe, and none
\* is stored in a slot from which another is still to be taken.
TypeOK ==
    /\ at \in [Programs -> {"start", "send", "unlink", "make", "open",
                            "talking", "ended", "killed"}]
    /\ node \in [Programs -> {"none", "old", "new"}]
    /\ writers \subseteq Programs
    /\ main \in {"start", "again", "blocked", "read", "count"}
    /\ Len(stored) - taken <= MaxSessions
    /\ \A t \in Threads :
         thread[t].at \in {"open", "closing", "waiting", "talking"} =>
           thread[t].client # Nobody
    /\ \A i, j \in DOMAIN (register \o stored) :
         (register \o stored)[i] = (register \o stored)[j] => i = j

\* The broker is closed by a missing pipe, or blocked for ever on a pipe that
\* was unlinked under it, only by a program that registers before it makes
\* its pipe.  A manager stops a thread in one way: killed between its request
\* and its open(), it leaves a pipe that nobody opens.  Any other manager
\* that a thread waits for is about to open its pipe, unless the queue went
\* astray and the request is an old one.
OnlyEarlyFail ==
    \A t \in Threads :
        LET c == thread[t].client
        IN  /\ thread[t].at = "closing" => c \in Early
            /\ thread[t].at = "waiting" =>
                 \/ c \in Early
                 \/ /\ thread[t].node = "new"
                    /\ at[c] \in {"open", "killed"} \/ astray

\* A broker with one session thread takes what was stored, each request once
\* and in order: it is only the second thread that can pass the test of
\* pcq_dequeue for a request that is gone.
QueueInStep == MaxSessions = 1 => ~astray

Holds(s, c) == \E i \in DOMAIN s : s[i] = c
InQueue(c) == \E i \in taken + 1 .. Len(stored) : stored[i] = c
InReach(c) == \E t \in Threads : thread[t].client = c

\* A program that has sent its request and has no answer.
Asking(c) ==
    at[c] = "open" \/ (c \in Early /\ at[c] \in {"unlink", "make"})

\* No request is dropped, as long as no thread took a position before it was
\* stored: while a program waits for the broker, its request is in the
\* register pipe, in the queue or with a thread.  And none is forgotten: when
\* the main thread blocks in its second open() of the register pipe, what is
\* left in the pipe is of programs that were killed.
RequestsKept ==
    /\ ~astray => \A c \in Programs :
         Asking(c) => Holds(register, c) \/ InQueue(c) \/ InReach(c)
    /\ main = "blocked" =>
         \A c \in Programs : Holds(register, c) => at[c] = "killed"

\* While threads become idle again and again, every request that is written
\* to the register pipe is taken by one, if the program stays and the queue
\* does not go astray: the main thread, which blocks in open() and not in
\* read(), does not leave one there.
RequestsTaken ==
    []<>(\E t \in Threads : thread[t].at = "idle") =>
        \A c \in Programs :
            Holds(register, c)
              ~> InReach(c) \/ at[c] = "killed" \/ exited \/ astray

\* While threads become idle again and again, a manager that has begun is
\* connected to one, unless it is killed, the broker is closed or the queue
\* goes astray.
ManagersServed ==
    []<>(\E t \in Threads : thread[t].at = "idle") =>
        \A c \in Managers :
            at[c] = "send" ~>
                at[c] \in {"talking", "killed"} \/ exited \/ astray
=============================================================================
