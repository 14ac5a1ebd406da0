----------------------------- MODULE BoxStream ------------------------------
(***************************************************************************)
(* One message box of mbroker/mbroker.c and the session threads that serve *)
(* it: a publisher's thread appends messages to the box's file and counts  *)
(* them in box_size, each subscriber's thread sends its client first what  *)
(* the box holds (handle_messages_until_now) and then what arrives         *)
(* (handle_messages_to_subscriber), waiting on the box's condition         *)
(* variable.  box->lock orders the writers and the wait loop; the reads of *)
(* the file and client->offset are outside it.                             *)
(*                                                                         *)
(* The box exists throughout and is never removed.  A message is a number  *)
(* repeated once per character, then the '\0' that ends it; each element   *)
(* of these sequences is one byte.                                         *)
(***************************************************************************)
EXTENDS Integers, Sequences, FiniteSets

CONSTANTS
    Publisher,     \* the thread that serves the publisher's sessions
    Subscribers,   \* the threads that serve the subscribers' sessions
    FirstThread,   \* thread 0, the one close_server joins
    Nobody,        \* owner of a free lock
    Lengths,       \* sizes of a message with its '\0'
    FrameSize,     \* MESSAGE_LENGTH: bytes of text in a frame
    BoxSize,       \* BOX_SIZE: bytes in a file of TecnicoFS
    MaxOpenFiles,  \* entries of the open file table
    MaxMessages,   \* bound: messages published
    MaxSessions    \* bound: sessions of each subscriber thread

ASSUME BoxAssumption ==
    /\ Publisher \notin Subscribers
    /\ Nobody \notin Subscribers \cup {Publisher}
    /\ FrameSize \in Nat \ {0} /\ Lengths \subseteq 1 .. FrameSize
    /\ BoxSize \in Nat /\ MaxOpenFiles \in Nat \ {0}
    /\ MaxMessages \in Nat /\ MaxSessions \in Nat

Threads == Subscribers \cup {Publisher}
NUL == 0

VARIABLES
    file,      \* the bytes in the box's file
    box_size,  \* box->box_size
    lock,      \* owner of box->lock
    waiting,   \* threads blocked on box->cond
    opened,    \* handles taken in TecnicoFS: the broker never closes one
    pc,        \* where each thread is
    offset,    \* client->offset of each subscriber thread
    position,  \* of_offset of the handle in client->box_fd
    frame,     \* the bytes a subscriber thread has read and not yet sent
    message,   \* length of the message the publisher thread has received
    published, \* history: lengths of the messages in the file and counted
    shown,     \* history: the texts each subscriber's client prints
    sessions,  \* number of sessions each subscriber thread has begun
    gone,      \* has the subscriber closed its end of the pipe?
    exited     \* has the broker process ended?

box     == <<file, box_size, lock, waiting>>
session == <<offset, position, frame, shown, sessions, gone>>
vars    == <<box, opened, pc, session, message, published, exited>>

Goto(t, from, to) == pc[t] = from /\ pc' = [pc EXCEPT ![t] = to]
Free    == lock = Nobody
Left(t) == Len(file) - position[t]   \* what tfs_read finds past the handle

\* The text that starts at index i of a buffer and ends before a '\0'.
TextAt(bytes, i) ==
    LET end == CHOOSE j \in i .. Len(bytes) + 1 :
                 /\ j = Len(bytes) + 1 \/ bytes[j] = NUL
                 /\ \A k \in i .. j - 1 : bytes[k] # NUL
    IN  SubSeq(bytes, i, end - 1)

Starts(bytes) == {i \in DOMAIN bytes : i = 1 \/ bytes[i - 1] = NUL}

InOrder(S) ==
    CHOOSE seq \in [1 .. Cardinality(S) -> S] :
        \A m, n \in DOMAIN seq : m < n => seq[m] < seq[n]

\* The texts that strcpy finds one after the other in a buffer.
Strings(bytes) ==
    LET firsts == InOrder(Starts(bytes))
    IN  [n \in DOMAIN firsts |-> TextAt(bytes, firsts[n])]

\* sub.c prints each frame it receives as one string.
Printed(bytes) == TextAt(bytes, 1)

Init ==
    /\ file = <<>> /\ box_size = 0
    /\ lock = Nobody /\ waiting = {}
    /\ opened = 1                       \* by handle_tfs_create_box
    /\ pc = [t \in Threads |-> "idle"]
    /\ offset = [t \in Subscribers |-> 0]   \* clients[] comes from malloc
    /\ position = [t \in Subscribers |-> 0]
    /\ frame = [t \in Subscribers |-> <<>>]
    /\ message = 0 /\ published = <<>>
    /\ shown = [t \in Subscribers |-> <<>>]
    /\ sessions = [t \in Subscribers |-> 0]
    /\ gone = [t \in Subscribers |-> FALSE]
    /\ exited = FALSE

(***************************************************************************)
(* A handler that returns -1 makes client_session call close_server, which *)
(* joins thread 0 before anything else.  Thread 0 itself cannot be joined  *)
(* by itself, nor any thread by two: then the call fails and the process   *)
(* exits.  Any other thread waits there for ever, with the locks it holds. *)
(***************************************************************************)
CloseServer(t, from) ==
    /\ Goto(t, from, "closing")
    /\ exited' = (t = FirstThread \/ \E u \in Threads : pc[u] = "closing")

-----------------------------------------------------------------------------
(* handle_tfs_register and handle_messages_from_publisher.                 *)

RegisterPublisher ==
    /\ Goto(Publisher, "idle", "p_read")
    /\ UNCHANGED <<box, opened, session, message, published, exited>>

PublisherLeaves ==
    /\ Goto(Publisher, "p_read", "idle")
    /\ UNCHANGED <<box, opened, session, message, published, exited>>

Receive == \E n \in Lengths :
    /\ Goto(Publisher, "p_read", "p_lock")
    /\ Len(published) < MaxMessages
    /\ message' = n
    /\ UNCHANGED <<box, opened, session, published, exited>>

PublisherLocks ==
    /\ Goto(Publisher, "p_lock", "p_write")
    /\ Free /\ lock' = Publisher
    /\ UNCHANGED <<file, box_size, waiting, opened, session, message,
                   published, exited>>

Bytes(number, length) ==
    [i \in 1 .. length |-> IF i = length THEN NUL ELSE number]

\* Seeded fault: the write is not limited to the block.
FitsAlways == TRUE

Fits == Len(file) + message <= BoxSize

\* tfs_open takes a handle and tfs_write writes what fits.
WriteMessage ==
    /\ Goto(Publisher, "p_write", "p_count")
    /\ opened < MaxOpenFiles /\ Fits
    /\ opened' = opened + 1
    /\ file' = file \o Bytes(Len(published) + 1, message)
    /\ UNCHANGED <<box_size, lock, waiting, session, message, published,
                   exited>>

\* Seeded fault: the session unlocks box->lock before it ends.
FullBoxUnlocked ==
    /\ Goto(Publisher, "p_write", "idle")
    /\ opened < MaxOpenFiles /\ ~Fits
    /\ opened' = opened + 1
    /\ file' = file \o SubSeq(Bytes(Len(published) + 1, message), 1,
                              BoxSize - Len(file))
    /\ lock' = Nobody
    /\ UNCHANGED <<box_size, waiting, session, message, published, exited>>

\* "Box is full": the session ends, and box->lock stays locked.
WriteToFullBox ==
    /\ Goto(Publisher, "p_write", "idle")
    /\ opened < MaxOpenFiles /\ ~Fits
    /\ opened' = opened + 1
    /\ file' = file \o SubSeq(Bytes(Len(published) + 1, message), 1,
                              BoxSize - Len(file))
    /\ UNCHANGED <<box_size, lock, waiting, session, message, published,
                   exited>>

\* tfs_open fails.
PublisherOutOfHandles ==
    /\ opened = MaxOpenFiles
    /\ CloseServer(Publisher, "p_write")
    /\ UNCHANGED <<box, opened, session, message, published>>

\* Seeded fault: the '\0' is not counted.
CountedNoNul == message - 1

Counted == message

\* Seeded fault: nobody is woken.
NoBroadcast == UNCHANGED waiting

Broadcast == waiting' = {}

\* box_size grows, every waiting subscriber is woken, the lock is released.
CountMessage ==
    /\ Goto(Publisher, "p_count", "p_read")
    /\ box_size' = box_size + Counted
    /\ published' = Append(published, message)
    /\ Broadcast /\ lock' = Nobody
    /\ UNCHANGED <<file, opened, session, message, exited>>

-----------------------------------------------------------------------------
(* handle_tfs_register and handle_messages_until_now, thread t.            *)

\* client->offset keeps the value the thread's last session left in it.
RegisterSubscriber(t) ==
    /\ Goto(t, "idle", "u_lock")
    /\ sessions[t] < MaxSessions
    /\ sessions' = [sessions EXCEPT ![t] = @ + 1]
    /\ shown' = [shown EXCEPT ![t] = <<>>]
    /\ gone' = [gone EXCEPT ![t] = FALSE]
    /\ UNCHANGED <<box, opened, offset, position, frame, message, published,
                   exited>>

\* At any time the client may end and close its end of the pipe.
SubscriberLeaves(t) ==
    /\ pc[t] \notin {"idle", "closing"} /\ ~gone[t]
    /\ gone' = [gone EXCEPT ![t] = TRUE]
    /\ UNCHANGED <<box, opened, pc, offset, position, frame, shown, sessions,
                   message, published, exited>>

UntilNowOpens(t) ==
    /\ Goto(t, "u_lock", "u_send")
    /\ Free /\ lock' = t
    /\ opened < MaxOpenFiles /\ opened' = opened + 1
    /\ position' = [position EXCEPT ![t] = 0]
    /\ UNCHANGED <<file, box_size, waiting, offset, frame, shown, sessions,
                   gone, message, published, exited>>

UntilNowOutOfHandles(t) ==
    /\ Free /\ lock' = t
    /\ opened = MaxOpenFiles
    /\ CloseServer(t, "u_lock")
    /\ UNCHANGED <<file, box_size, waiting, opened, session, message,
                   published>>

\* The difference of the two sizes is unsigned: anything but 0 is positive.
MoreToRead(t) == box_size # offset[t]

\* One turn of the loop: the rest of the file is read, split and sent.
UntilNowSends(t) ==
    /\ pc[t] = "u_send" /\ MoreToRead(t) /\ Left(t) > 0 /\ ~gone[t]
    /\ shown' = [shown EXCEPT ![t] =
           @ \o Strings(SubSeq(file, position[t] + 1, Len(file)))]
    /\ offset' = [offset EXCEPT ![t] = @ + Left(t)]
    /\ position' = [position EXCEPT ![t] = Len(file)]
    /\ UNCHANGED <<box, opened, pc, frame, sessions, gone, message, published,
                   exited>>

\* write_pipe fails and returns -1 from under box->lock.
UntilNowPipeClosed(t) ==
    /\ MoreToRead(t) /\ Left(t) > 0 /\ gone[t]
    /\ position' = [position EXCEPT ![t] = Len(file)]
    /\ CloseServer(t, "u_send")
    /\ UNCHANGED <<box, opened, offset, frame, shown, sessions, gone, message,
                   published>>

UntilNowEnds(t) ==
    /\ Goto(t, "u_send", "s_wait")
    /\ ~MoreToRead(t) \/ Left(t) = 0
    /\ lock' = Nobody
    /\ UNCHANGED <<file, box_size, waiting, opened, session, message,
                   published, exited>>

-----------------------------------------------------------------------------
(* handle_messages_to_subscriber, thread t.                                *)

\* The wait loop: with the lock, find nothing new and block ...
SubscriberSleeps(t) ==
    /\ pc[t] = "s_wait" /\ t \notin waiting /\ Free
    /\ ~MoreToRead(t)
    /\ waiting' = waiting \cup {t}
    /\ UNCHANGED <<file, box_size, lock, opened, pc, session, message,
                   published, exited>>

\* ... or find more, and give the lock up again.
SubscriberFindsMore(t) ==
    /\ t \notin waiting /\ Free
    /\ MoreToRead(t)
    /\ Goto(t, "s_wait", "s_read")
    /\ UNCHANGED <<box, opened, session, message, published, exited>>

SpuriousWakeup(t) ==
    /\ t \in waiting
    /\ waiting' = waiting \ {t}
    /\ UNCHANGED <<file, box_size, lock, opened, pc, session, message,
                   published, exited>>

FrameLength(t) == IF Left(t) > FrameSize THEN FrameSize ELSE Left(t)

\* Seeded fault: the handle does not move, the next read starts there again.
AdvancedNot(t) == position

Advanced(t) == [position EXCEPT ![t] = @ + FrameLength(t)]

\* tfs_read of up to MESSAGE_LENGTH bytes, without box->lock.
SubscriberReads(t) ==
    /\ Goto(t, "s_read", "s_send")
    /\ Left(t) > 0
    /\ frame' = [frame EXCEPT ![t] =
           SubSeq(file, position[t] + 1, position[t] + FrameLength(t))]
    /\ position' = Advanced(t)
    /\ UNCHANGED <<box, opened, offset, shown, sessions, gone, message,
                   published, exited>>

\* tfs_read returns 0, "EOF": the session ends.
SubscriberAtEnd(t) ==
    /\ Goto(t, "s_read", "idle")
    /\ Left(t) = 0
    /\ UNCHANGED <<box, opened, session, message, published, exited>>

\* Seeded fault: the offset advances by a whole frame.
SentFrame(t) == FrameSize

Sent(t) == Len(frame[t])

SubscriberSends(t) ==
    /\ Goto(t, "s_send", "s_wait")
    /\ ~gone[t]
    /\ shown' = [shown EXCEPT ![t] = Append(@, Printed(frame[t]))]
    /\ offset' = [offset EXCEPT ![t] = @ + Sent(t)]
    /\ frame' = [frame EXCEPT ![t] = <<>>]
    /\ UNCHANGED <<box, opened, position, sessions, gone, message, published,
                   exited>>

\* EPIPE: the session ends and the offset keeps its value.
SubscriberPipeClosed(t) ==
    /\ Goto(t, "s_send", "idle")
    /\ gone[t]
    /\ frame' = [frame EXCEPT ![t] = <<>>]
    /\ UNCHANGED <<box, opened, offset, position, shown, sessions, gone,
                   message, published, exited>>

-----------------------------------------------------------------------------
PublisherWorks ==
    \/ PublisherLocks \/ WriteMessage \/ WriteToFullBox
    \/ PublisherOutOfHandles \/ CountMessage

SubscriberWorks(t) ==
    \/ UntilNowOpens(t) \/ UntilNowOutOfHandles(t) \/ UntilNowSends(t)
    \/ UntilNowPipeClosed(t) \/ UntilNowEnds(t)
    \/ SubscriberSleeps(t) \/ SubscriberFindsMore(t)
    \/ SubscriberReads(t) \/ SubscriberAtEnd(t)
    \/ SubscriberSends(t) \/ SubscriberPipeClosed(t)

ClientsAct ==
    \/ RegisterPublisher \/ PublisherLeaves \/ Receive
    \/ \E t \in Subscribers :
         RegisterSubscriber(t) \/ SubscriberLeaves(t) \/ SpuriousWakeup(t)

Next == \/ ~exited /\ PublisherWorks
        \/ ~exited /\ \E t \in Subscribers : SubscriberWorks(t)
        \/ ~exited /\ ClientsAct

Spec == Init /\ [][Next]_vars

\* The threads of the broker run, and one that waits for a lock that is free
\* again and again gets it.  Nothing is assumed of the clients.
FairSpec ==
    /\ Spec
    /\ SF_vars(~exited /\ PublisherWorks)
    /\ \A t \in Subscribers : SF_vars(~exited /\ SubscriberWorks(t))

-----------------------------------------------------------------------------
PCs == {"idle", "closing", "p_read", "p_lock", "p_write", "p_count",
        "u_lock", "u_send", "s_wait", "s_read", "s_send"}

\* The shape of the state: the file never outgrows its block, whatever the
\* box counts, and no handle reads beyond it.
TypeOK ==
    /\ file \in Seq(0 .. MaxMessages) /\ Len(file) <= BoxSize
    /\ box_size \in Nat
    /\ lock \in Threads \cup {Nobody} /\ waiting \subseteq Subscribers
    /\ opened \in 1 .. MaxOpenFiles
    /\ pc \in [Threads -> PCs]
    /\ offset \in [Subscribers -> Nat]
    /\ \A t \in Subscribers : position[t] \in 0 .. Len(file)
    /\ \A t \in Subscribers : Len(frame[t]) <= FrameSize
    /\ message \in Lengths \cup {0} /\ published \in Seq(Lengths)
    /\ sessions \in [Subscribers -> 0 .. MaxSessions]
    /\ gone \in [Subscribers -> BOOLEAN] /\ exited \in BOOLEAN

\* Whenever box->lock is free the box counts exactly what its file holds:
\* every session that can look at box_size under the lock sees a size that
\* tfs_read can satisfy.
SizeCounted == Free => box_size = Len(file)

InFirstSession(t) ==
    sessions[t] = 1 /\ pc[t] \notin {"idle", "closing"}

\* In the first session of a thread the broker's count of what it sent and
\* the handle in TecnicoFS agree, from the messages that were there to the
\* messages that arrive: the unlocked reads neither skip nor repeat a byte,
\* and the unsigned difference in the wait loop never wraps.
FirstSessionInStep ==
    \A t \in Subscribers : InFirstSession(t) =>
        /\ pc[t] = "s_send" => offset[t] + Len(frame[t]) = position[t]
        /\ pc[t] # "s_send" => offset[t] = position[t]
        /\ Free => offset[t] <= box_size
        /\ pc[t] = "s_read" => Left(t) > 0

\* In every session a client prints what was published in the order it was
\* published, and no message or part of one twice.
OrderPreserved ==
    \A t \in Subscribers : \A m, n \in DOMAIN shown[t] :
        LET first == shown[t][m]
            later == shown[t][n]
        IN  m < n /\ first # <<>> /\ later # <<>> => first[1] < later[1]

\* strcpy in handle_messages_until_now finds the '\0' of every text before
\* the end of what was read, although the file of a full box ends with a part
\* of a message; and no frame is so full of text that the client's printf
\* finds no '\0' in it.
TextsTerminated ==
    \A t \in Subscribers :
        /\ pc[t] = "u_send" /\ Left(t) > 0 => file[Len(file)] = NUL
        /\ Len(frame[t]) = FrameSize =>
             \E i \in 1 .. FrameSize : frame[t][i] = NUL

\* A thread that is blocked on box->cond has sent what the box counts, in a
\* first session or a later one: no message is counted between its test and
\* its wait, and none after it without a broadcast.
SleepersCaughtUp == \A t \in waiting : ~MoreToRead(t)

\* The thread that holds box->lock is past the critical section that took it:
\* in close_server, or, after a full box, in another session.
LockLost == \E t \in Threads : lock = t /\ pc[t] \notin {"p_write", "p_count",
                                                         "u_send"}

\* A subscriber whose client stays is sent every byte that was published,
\* without waiting for another message: no broadcast is lost between the
\* test and the wait.  Only a lock that a failing handler has kept, or the
\* end of the process, can prevent it.
CatchesUp ==
    \A t \in Subscribers : \A n \in 1 .. BoxSize :
        (InFirstSession(t) /\ box_size >= n)
          ~> \/ offset[t] >= n \/ ~InFirstSession(t) \/ gone[t]
             \/ LockLost \/ exited

\* mbroker.c:644-645: "Read each message from box and send to client / each
\* message is terminated by '\0'": a subscriber that waits for more has
\* been shown the text of every message in the box.
EachMessageSent ==
    \A t \in Subscribers :
        (InFirstSession(t) /\ pc[t] = "s_wait" /\ ~MoreToRead(t))
          => shown[t] = [n \in DOMAIN published |->
                            [i \in 1 .. published[n] - 1 |-> n]]

\* mbroker.c:617, when the box is full: "Finish this session but the box can
\* still be used": a publisher's thread between two sessions has left the
\* lock of the box.
BoxStillUsable == pc[Publisher] = "idle" => lock # Publisher
=============================================================================
