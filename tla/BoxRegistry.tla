---------------------------- MODULE BoxRegistry -----------------------------
(***************************************************************************)
(* The boxes and the client sessions of mbroker/mbroker.c: the arrays      *)
(* boxes[], free_boxes[] and clients[], num_boxes and boxes_lock, and the  *)
(* session threads that create, remove, list and use boxes.                *)
(*                                                                         *)
(* Creating and removing happen under boxes_lock; finding a box, counting  *)
(* its users and listing the boxes do not.  A removal ends the sessions of *)
(* other threads by writing to their client_t while they run.              *)
(*                                                                         *)
(* A step is what no other thread can see the middle of, or one run of     *)
(* finish_client_session.  What is in a box, its lock and its condition    *)
(* variable are the subject of BoxStream; here a session reads, waits and  *)
(* writes in steps that succeed or fail as the registry makes them.        *)
(* Descriptors are numbers, and open() returns the lowest one free.        *)
(***************************************************************************)
EXTENDS Integers, FiniteSets, Sequences

CONSTANTS
    MaxSessions,   \* max_sessions: threads of the pool
    MaxBoxes,      \* MAX_BOXES: slots of boxes[]
    MaxFiles,      \* files TecnicoFS can hold: an inode less than MaxBoxes
    Names,         \* box names in requests
    NoName,        \* the empty string
    Nobody,        \* owner of a free lock
    Opcodes,       \* the requests that clients make
    CountLimit,    \* 2^64: n_publishers and n_subscribers wrap there
    MaxRequests    \* bound: requests handled

ASSUME RegistryAssumption ==
    /\ MaxSessions \in Nat \ {0} /\ MaxBoxes \in Nat \ {0}
    /\ MaxFiles \in Nat /\ MaxRequests \in Nat /\ CountLimit \in Nat \ {0, 1}
    /\ NoName \notin Names /\ Nobody \notin Int
    /\ Opcodes \subseteq {"pub", "sub", "create", "remove", "list"}

Threads == 0 .. MaxSessions - 1
Slots   == 1 .. MaxBoxes
NULL    == 0      \* a box_t pointer is a slot or NULL
NoPipe  == -1     \* what a failing open() returns

VARIABLES
    boxes,       \* boxes[] with free_boxes[]
    num_boxes,   \* num_boxes
    files,       \* names that TecnicoFS has a file for
    boxes_lock,  \* owner of boxes_lock
    clients,     \* clients[]
    descriptors, \* open file descriptors of the process
    pc,          \* where each thread is
    frame,       \* the local variables of each thread
    signalled,   \* subscribers' threads that find box_size changed
    listing,     \* the pipe to the manager that lists, and what it has read
    changes,     \* number of changes of boxes[] begun
    requests,    \* number of requests taken from the queue
    exited       \* has the broker process ended?

tables   == <<num_boxes, files, boxes_lock, changes>>
registry == <<boxes, tables>>
session  == <<clients, descriptors>>
others   == <<signalled, listing, requests>>
vars     == <<registry, session, pc, frame, others, exited>>

EmptyBox   == [name |-> NoName, free |-> TRUE,
               n_publishers |-> 0, n_subscribers |-> 0]
EmptyClient == [opcode |-> "none", box_name |-> NoName, pipename |-> FALSE,
                box |-> NULL, box_fd |-> 0, client_pipe |-> 0]
EmptyFrame == [box |-> NULL, n |-> 0, i |-> 0, last |-> FALSE,
               name |-> NoName, stuck |-> FALSE]
NoListing  == [sent |-> <<>>, got |-> {}, result |-> "none",
               names |-> {}, mark |-> 0]

\* clients[] comes from malloc, the first call of the process: all zero.
Init ==
    /\ boxes = [s \in Slots |-> EmptyBox] /\ num_boxes = 0 /\ files = {}
    /\ boxes_lock = Nobody
    /\ clients = [t \in Threads |-> EmptyClient]
    /\ descriptors = {0}      \* standard input
    /\ pc = [t \in Threads |-> "idle"]
    /\ frame = [t \in Threads |-> EmptyFrame]
    /\ signalled = {}
    /\ listing = [t \in Threads |-> NoListing]
    /\ changes = 0 /\ requests = 0 /\ exited = FALSE

-----------------------------------------------------------------------------
Goto(t, from, to) == pc[t] = from /\ pc' = [pc EXCEPT ![t] = to]

\* A handler that returns 0: the thread goes back to the queue.
Return(t, from) ==
    /\ Goto(t, from, "idle")
    /\ frame' = [frame EXCEPT ![t] = EmptyFrame]
    /\ UNCHANGED exited

\* A handler that returns -1: close_server joins thread 0 and then exits.
\* The join returns at once, with an error, in thread 0 itself and when
\* another thread is already waiting in it.
CloseServer(t) ==
    /\ pc' = [pc EXCEPT ![t] = "closing"]
    /\ frame' = [frame EXCEPT ![t] = EmptyFrame]
    /\ exited' = (t = 0 \/ \E u \in Threads : pc[u] = "closing")

NewDescriptor ==
    CHOOSE d \in 0 .. Cardinality(descriptors) :
        d \notin descriptors /\ \A e \in 0 .. d - 1 : e \in descriptors

\* client_pipename is empty if the session was finished by another thread.
\* open() returns once the program has opened its pipe, too.
OpenPipe(t) ==
    /\ clients[t].pipename /\ ~frame[t].stuck
    /\ descriptors' = descriptors \cup {NewDescriptor}
    /\ clients' = [clients EXCEPT ![t].client_pipe = NewDescriptor]

PipeIsOpen(t) == clients[t].client_pipe \in descriptors

\* get_box compares with every slot, free ones (whose name is empty) too.
GetBox(name) ==
    IF \E s \in Slots : boxes[s].name = name
    THEN CHOOSE s \in Slots : /\ boxes[s].name = name
                              /\ \A r \in 1 .. s - 1 : boxes[r].name # name
    ELSE NULL

\* tfs_open with TFS_O_CREAT.
CanOpen(name) ==
    /\ name # NoName
    /\ name \in files \/ Cardinality(files) < MaxFiles

\* Seeded fault: a signed count.
DecrSigned(n) == n - 1

Decr(n) == (n + CountLimit - 1) % CountLimit
Incr(n) == (n + 1) % CountLimit

\* finish_client_session: the pipe is closed; then, unless close failed or
\* box_fd says that no box was opened, the box is given up.
FinishSucceeds(t) ==
    /\ PipeIsOpen(t)
    /\ clients[t].opcode = "list" \/ clients[t].box_fd # -1

GiveUp(t) ==
    LET c == clients[t]
    IN  IF c.box = NULL THEN boxes
        ELSE IF c.opcode = "pub"
             THEN [boxes EXCEPT ![c.box].n_publishers = Decr(@)]
        ELSE IF c.opcode = "sub"
             THEN [boxes EXCEPT ![c.box].n_subscribers = Decr(@)]
        ELSE boxes

\* Seeded fault: the name of the box stays in client_t.
EndedKeepsName(c) == [c EXCEPT !.pipename = FALSE, !.box = NULL, !.box_fd = -1]

Ended(c) == [c EXCEPT !.box_name = NoName, !.pipename = FALSE, !.box = NULL,
                      !.box_fd = -1]

FinishClientSession(t) ==
    /\ descriptors' = descriptors \ {clients[t].client_pipe}
    /\ IF FinishSucceeds(t)
       THEN boxes' = GiveUp(t) /\ clients' = [clients EXCEPT ![t] = Ended(@)]
       ELSE UNCHANGED <<boxes, clients>>
    /\ UNCHANGED <<tables>>

-----------------------------------------------------------------------------
(* client_session: a request leaves the queue.                             *)

Entry == [pub |-> "r_open", sub |-> "r_open", create |-> "c_lock",
          remove |-> "d_lock", list |-> "l_open"]

\* A request to list boxes leaves the name of the thread's last box.  (The
\* manager that the thread served before shares nothing with the broker but
\* its pipe: it is let to read that to the end first.)
Dequeue(t) == \E op \in Opcodes, n \in Names :
    /\ requests < MaxRequests /\ requests' = requests + 1
    /\ listing[t].result # "reading"
    /\ Goto(t, "idle", Entry[op])
    /\ clients' = [clients EXCEPT ![t].opcode = op, ![t].pipename = TRUE,
                      ![t].box_name = IF op = "list" THEN @ ELSE n]
    /\ listing' = [listing EXCEPT ![t] = NoListing]
    /\ UNCHANGED <<registry, descriptors, frame, signalled, exited>>

\* The program was killed after its request and before it opened its pipe.
\* The pipe is still there: open() never returns, and the thread keeps what
\* it holds, boxes_lock in handle_tfs_remove_box.
OpenBlocks(t) ==
    /\ pc[t] \in {"r_open", "c_open", "d_open", "l_open"}
    /\ clients[t].pipename
    /\ frame' = [frame EXCEPT ![t].stuck = TRUE]
    /\ UNCHANGED <<registry, session, pc, others, exited>>

\* open() fails in handle_tfs_register or handle_tfs_list_boxes.
OpenFails(t) ==
    /\ pc[t] \in {"r_open", "l_open"} /\ ~frame[t].stuck
    /\ CloseServer(t)
    /\ UNCHANGED <<registry, session, others>>

\* The end of most handlers: return finish_client_session(client).
Finish(t) ==
    /\ pc[t] = "finish"
    /\ FinishClientSession(t)
    /\ IF FinishSucceeds(t) THEN Return(t, "finish") ELSE CloseServer(t)
    /\ UNCHANGED <<others>>

-----------------------------------------------------------------------------
(* handle_tfs_register.                                                    *)

RegisterOpens(t) ==
    /\ Goto(t, "r_open", "r_find")
    /\ OpenPipe(t)
    /\ UNCHANGED <<registry, frame, others, exited>>

RegisterFinds(t) ==
    /\ Goto(t, "r_find", "r_test")
    /\ GetBox(clients[t].box_name) # NULL
    /\ frame' = [frame EXCEPT ![t].box = GetBox(clients[t].box_name)]
    /\ UNCHANGED <<registry, session, others, exited>>

\* "Box does not exist": only the pipe is closed.
RegisterMisses(t) ==
    /\ pc[t] = "r_find"
    /\ GetBox(clients[t].box_name) = NULL
    /\ descriptors' = descriptors \ {clients[t].client_pipe}
    /\ IF PipeIsOpen(t) THEN Return(t, "r_find") ELSE CloseServer(t)
    /\ UNCHANGED <<registry, clients, others>>

\* client->box is set and the count is read, without a lock ...
RegisterTests(t) ==
    LET b == boxes[frame[t].box]
        pub == clients[t].opcode = "pub"
    IN  /\ Goto(t, "r_test", IF pub /\ b.n_publishers = 1
                             THEN "finish" ELSE "r_count")
        /\ clients' = [clients EXCEPT ![t].box = frame[t].box]
        /\ frame' = [frame EXCEPT ![t].n =
                        IF pub THEN b.n_publishers ELSE b.n_subscribers]
        /\ UNCHANGED <<registry, descriptors, others, exited>>

\* ... and the count read is written back plus one.
RegisterCounts(t) ==
    LET s == frame[t].box
        pub == clients[t].opcode = "pub"
    IN  /\ Goto(t, "r_count", IF pub THEN "p_read" ELSE "u_open")
        /\ boxes' = IF pub
                    THEN [boxes EXCEPT ![s].n_publishers = Incr(frame[t].n)]
                    ELSE [boxes EXCEPT ![s].n_subscribers = Incr(frame[t].n)]
        /\ UNCHANGED <<tables, session, frame, others, exited>>

-----------------------------------------------------------------------------
(* handle_messages_from_publisher.                                         *)

PublisherReceives(t) ==
    /\ Goto(t, "p_read", "p_box")
    /\ PipeIsOpen(t)
    /\ UNCHANGED <<registry, session, frame, others, exited>>

\* The publisher has left, or another thread has closed the pipe.
PublisherEnds(t) ==
    /\ Return(t, "p_read")
    /\ IF clients[t].box # NULL THEN FinishClientSession(t)
                                ELSE UNCHANGED <<registry, session>>
    /\ UNCHANGED <<others>>

\* client->box is read once the message is there ...
PublisherLoads(t) ==
    /\ Goto(t, "p_box", "p_write")
    /\ clients[t].box # NULL
    /\ frame' = [frame EXCEPT ![t].box = clients[t].box]
    /\ UNCHANGED <<registry, session, others, exited>>

\* ... and used without a test, here and in handle_messages_until_now.
NullBox(t) ==
    /\ pc[t] \in {"p_box", "u_open", "u_load"}
    /\ clients[t].box = NULL
    /\ pc' = [pc EXCEPT ![t] = "fault"] /\ exited' = TRUE
    /\ UNCHANGED <<registry, session, frame, others>>

\* The threads in the wait loop of handle_messages_to_subscriber for slot s.
Waiting(s) == {u \in Threads : pc[u] = "s_wait" /\ frame[u].box = s}

\* tfs_open finds the file by the name now in the slot; the subscribers that
\* wait on the slot are woken.
PublisherWrites(t) ==
    /\ Goto(t, "p_write", "p_read")
    /\ boxes[frame[t].box].name \in files
    /\ signalled' = signalled \cup Waiting(frame[t].box)
    /\ UNCHANGED <<registry, session, frame, listing, requests, exited>>

\* The message does not fit: "Box is full".
PublisherFillsBox(t) ==
    /\ pc[t] = "p_write"
    /\ boxes[frame[t].box].name \in files
    /\ FinishClientSession(t) /\ Return(t, "p_write")
    /\ UNCHANGED <<others>>

PublisherFails(t) ==
    /\ pc[t] = "p_write"
    /\ boxes[frame[t].box].name \notin files
    /\ FinishClientSession(t) /\ CloseServer(t)
    /\ UNCHANGED <<others>>

-----------------------------------------------------------------------------
(* handle_messages_until_now and handle_messages_to_subscriber.            *)

\* The file of the name in client->box_name is opened, or made.
SubscriberOpens(t) ==
    /\ Goto(t, "u_open", "u_load")
    /\ clients[t].box # NULL /\ CanOpen(clients[t].box_name)
    /\ files' = files \cup {clients[t].box_name}
    /\ clients' = [clients EXCEPT ![t].box_fd = 0]
    /\ UNCHANGED <<boxes, num_boxes, boxes_lock, changes, descriptors, frame,
                   others, exited>>

\* box_fd is -1, so the session is not finished either.
SubscriberCannotOpen(t) ==
    /\ pc[t] = "u_open"
    /\ clients[t].box # NULL /\ ~CanOpen(clients[t].box_name)
    /\ clients' = [clients EXCEPT ![t].box_fd = -1]
    /\ descriptors' = descriptors \ {clients[t].client_pipe}
    /\ CloseServer(t)
    /\ UNCHANGED <<registry, others>>

\* A message may have come since, and the offset of the thread's last session
\* passes for one.
SubscriberLoads(t) == \E more \in SUBSET {t} :
    /\ Goto(t, "u_load", "s_wait")
    /\ clients[t].box # NULL
    /\ frame' = [frame EXCEPT ![t].box = clients[t].box]
    /\ signalled' = signalled \cup more
    /\ UNCHANGED <<registry, session, listing, requests, exited>>

\* The client leaves while handle_messages_until_now sends it the box: the
\* session is not finished, and box->lock is kept.
SubscriberLosesPipe(t) ==
    /\ pc[t] = "u_load" /\ clients[t].box # NULL
    /\ CloseServer(t)
    /\ UNCHANGED <<registry, session, others>>

SubscriberSends(t) ==
    /\ pc[t] = "s_wait" /\ t \in signalled
    /\ clients[t].box_fd # -1 /\ PipeIsOpen(t)
    /\ signalled' = signalled \ {t}
    /\ UNCHANGED <<registry, session, pc, frame, listing, requests, exited>>

\* EPIPE: the client has left; or tfs_read is at the end of the file.
SubscriberLeft(t) ==
    /\ t \in signalled /\ signalled' = signalled \ {t}
    /\ clients[t].box_fd # -1 /\ PipeIsOpen(t)
    /\ FinishClientSession(t) /\ Return(t, "s_wait")
    /\ UNCHANGED <<listing, requests>>

\* tfs_read of handle -1, or write to a pipe that another thread closed.
SubscriberFails(t) ==
    /\ pc[t] = "s_wait" /\ t \in signalled
    /\ clients[t].box_fd = -1 \/ ~PipeIsOpen(t)
    /\ signalled' = signalled \ {t}
    /\ FinishClientSession(t) /\ CloseServer(t)
    /\ UNCHANGED <<listing, requests>>

-----------------------------------------------------------------------------
(* handle_tfs_create_box and create_box; frame.n is return_code.           *)

\* Seeded fault: off by one.
RefusedTooLate(t) == num_boxes > MaxBoxes \/ GetBox(clients[t].box_name) # NULL

Refused(t) == num_boxes = MaxBoxes \/ GetBox(clients[t].box_name) # NULL

\* Seeded fault: return_code stays 0.
CreateRefusesSilently(t) ==
    /\ Goto(t, "c_lock", "c_open")
    /\ boxes_lock = Nobody /\ Refused(t)
    /\ UNCHANGED <<registry, session, frame, others, exited>>

CreateRefuses(t) ==
    /\ Goto(t, "c_lock", "c_open")
    /\ boxes_lock = Nobody /\ Refused(t)
    /\ frame' = [frame EXCEPT ![t].n = -1]
    /\ UNCHANGED <<registry, session, others, exited>>

CreateCounts(t) ==
    /\ Goto(t, "c_lock", "c_slot")
    /\ boxes_lock = Nobody /\ ~Refused(t)
    /\ boxes_lock' = t
    /\ num_boxes' = num_boxes + 1 /\ changes' = changes + 1
    /\ UNCHANGED <<boxes, files, session, frame, others, exited>>

\* get_free_box.  That it finds a slot is SlotAvailable below.
CreateTakesSlot(t) == \E s \in Slots :
    /\ Goto(t, "c_slot", "c_copy")
    /\ boxes[s].free /\ \A r \in 1 .. s - 1 : ~boxes[r].free
    /\ boxes' = [boxes EXCEPT ![s].free = FALSE]
    /\ frame' = [frame EXCEPT ![t].box = s]
    /\ UNCHANGED <<tables, session, others, exited>>

CreateCopies(t) ==
    /\ Goto(t, "c_copy", "c_open")
    /\ boxes' = [boxes EXCEPT ![frame[t].box] =
           [EmptyBox EXCEPT !.name = clients[t].box_name, !.free = FALSE]]
    /\ boxes_lock' = Nobody
    /\ UNCHANGED <<num_boxes, files, changes, session, frame, others, exited>>

CreateOpensPipe(t) ==
    /\ Goto(t, "c_open", "c_file")
    /\ OpenPipe(t)
    /\ UNCHANGED <<registry, frame, others, exited>>

CreateHasNoPipe(t) ==
    /\ Goto(t, "c_open", "c_file") /\ ~frame[t].stuck
    /\ clients' = [clients EXCEPT ![t].client_pipe = NoPipe]
    /\ frame' = [frame EXCEPT ![t].n = -1]
    /\ UNCHANGED <<registry, descriptors, others, exited>>

\* The box was put in boxes[] before its file is made, here.
CreateMakesFile(t) ==
    /\ Goto(t, "c_file", "c_answer")
    /\ CanOpen(clients[t].box_name)
    /\ files' = files \cup {clients[t].box_name}
    /\ clients' = [clients EXCEPT ![t].box_fd = 0]
    /\ UNCHANGED <<boxes, num_boxes, boxes_lock, changes, descriptors, frame,
                   others, exited>>

CreateMakesNoFile(t) ==
    /\ pc[t] = "c_file"
    /\ ~CanOpen(clients[t].box_name)
    /\ CloseServer(t)
    /\ UNCHANGED <<registry, session, others>>

CreateAnswers(t) ==
    /\ Goto(t, "c_answer", "finish")
    /\ PipeIsOpen(t)
    /\ UNCHANGED <<registry, session, frame, others, exited>>

\* write_pipe fails: there is no pipe, or nobody reads it.  A removal keeps
\* boxes_lock.
AnswerFails(t) ==
    /\ pc[t] \in {"c_answer", "d_answer"}
    /\ CloseServer(t)
    /\ UNCHANGED <<registry, session, others>>

-----------------------------------------------------------------------------
(* handle_tfs_remove_box and remove_box; frame.n is return_code.           *)

RemoveLocks(t) ==
    /\ Goto(t, "d_lock", "d_open")
    /\ boxes_lock = Nobody /\ boxes_lock' = t
    /\ UNCHANGED <<boxes, num_boxes, files, changes, session, frame, others,
                   exited>>

RemoveOpensPipe(t) ==
    /\ Goto(t, "d_open", "d_find")
    /\ OpenPipe(t)
    /\ UNCHANGED <<registry, frame, others, exited>>

RemoveHasNoPipe(t) ==
    /\ pc[t] = "d_open" /\ ~frame[t].stuck
    /\ boxes_lock' = Nobody
    /\ CloseServer(t)
    /\ UNCHANGED <<boxes, num_boxes, files, changes, session, others>>

RemoveMisses(t) ==
    /\ Goto(t, "d_find", "d_answer")
    /\ GetBox(clients[t].box_name) = NULL
    /\ frame' = [frame EXCEPT ![t].n = -1]
    /\ UNCHANGED <<registry, session, others, exited>>

RemoveFinds(t) ==
    /\ Goto(t, "d_find", "d_scan")
    /\ GetBox(clients[t].box_name) # NULL
    /\ frame' = [frame EXCEPT ![t].i = 0]
    /\ UNCHANGED <<registry, session, others, exited>>

\* The session of client i has the name of the box: it is ended next.
Matches(t) ==
    /\ frame[t].i \in Threads \ {t}
    /\ clients[frame[t].i].box_name = clients[t].box_name

RemoveMatches(t) ==
    /\ Goto(t, "d_scan", "d_end")
    /\ Matches(t)
    /\ UNCHANGED <<registry, session, frame, others, exited>>

RemoveSkips(t) ==
    /\ pc[t] = "d_scan" /\ frame[t].i \in Threads /\ ~Matches(t)
    /\ frame' = [frame EXCEPT ![t].i = @ + 1]
    /\ UNCHANGED <<registry, session, pc, others, exited>>

\* boxes_lock is kept if the session cannot be finished.
RemoveEndsSession(t) ==
    LET i == frame[t].i
    IN  /\ pc[t] = "d_end"
        /\ FinishClientSession(i)
        /\ IF FinishSucceeds(i)
           THEN /\ Goto(t, "d_end", "d_scan")
                /\ frame' = [frame EXCEPT ![t].i = @ + 1]
                /\ UNCHANGED exited
           ELSE CloseServer(t)
        /\ UNCHANGED <<others>>

RemoveFreesSlot(t) ==
    /\ Goto(t, "d_scan", "d_unlink")
    /\ frame[t].i = MaxSessions
    /\ frame' = [frame EXCEPT ![t].box = GetBox(clients[t].box_name)]
    /\ boxes' = [boxes EXCEPT ![GetBox(clients[t].box_name)].free = TRUE]
    /\ changes' = changes + 1
    /\ UNCHANGED <<num_boxes, files, boxes_lock, session, others, exited>>

RemoveUnlinks(t) ==
    LET name == boxes[frame[t].box].name
    IN  /\ Goto(t, "d_unlink", "d_clear")
        /\ name \in files
        /\ files' = files \ {name}
        /\ UNCHANGED <<boxes, num_boxes, boxes_lock, changes, session, frame,
                       others, exited>>

\* boxes_lock is kept.
RemoveCannotUnlink(t) ==
    /\ pc[t] = "d_unlink"
    /\ boxes[frame[t].box].name \notin files
    /\ CloseServer(t)
    /\ UNCHANGED <<registry, session, others>>

\* Seeded fault: the slot keeps its name.
ClearedCounts(b) == [b EXCEPT !.n_publishers = 0, !.n_subscribers = 0]

Cleared(b) == [b EXCEPT !.name = NoName,
                        !.n_publishers = 0, !.n_subscribers = 0]

\* Nobody is woken, but who is about to test box_size, or wakes up without a
\* signal, finds it different from its offset.
RemoveClears(t) == \E more \in SUBSET Waiting(frame[t].box) :
    /\ Goto(t, "d_clear", "d_count")
    /\ boxes' = [boxes EXCEPT ![frame[t].box] = Cleared(@)]
    /\ signalled' = signalled \cup more
    /\ UNCHANGED <<tables, session, frame, listing, requests, exited>>

\* Seeded fault: num_boxes is not counted down.
RemoveKeepsCount(t) ==
    /\ Goto(t, "d_count", "d_answer")
    /\ UNCHANGED <<registry, session, frame, others, exited>>

RemoveCounts(t) ==
    /\ Goto(t, "d_count", "d_answer")
    /\ num_boxes' = num_boxes - 1
    /\ UNCHANGED <<boxes, files, boxes_lock, changes, session, frame, others,
                   exited>>

\* Seeded fault: boxes_lock is not unlocked.
RemoveAnswersLocked(t) ==
    /\ Goto(t, "d_answer", "finish")
    /\ PipeIsOpen(t)
    /\ UNCHANGED <<registry, session, frame, others, exited>>

RemoveAnswers(t) ==
    /\ Goto(t, "d_answer", "finish")
    /\ PipeIsOpen(t)
    /\ boxes_lock' = Nobody
    /\ UNCHANGED <<boxes, num_boxes, files, changes, session, frame, others,
                   exited>>

-----------------------------------------------------------------------------
(* handle_tfs_list_boxes, without boxes_lock; frame.n is count, frame.name *)
(* the name in the copied box.                                             *)

BoxNames == {boxes[s].name : s \in Slots} \ {NoName}

\* mark: the listing began between two changes of the registry.
ListOpens(t) ==
    /\ Goto(t, "l_open", "l_scan")
    /\ OpenPipe(t)
    /\ frame' = [frame EXCEPT ![t].last = (num_boxes = 0), ![t].i = 1]
    /\ listing' = [listing EXCEPT ![t] =
           [NoListing EXCEPT !.result = "reading", !.names = BoxNames,
               !.mark = IF boxes_lock = Nobody THEN changes ELSE -1]]
    /\ UNCHANGED <<registry, signalled, requests, exited>>

\* Seeded fault: free slots are skipped when there are no boxes, too.
SkippedAlways(t) == boxes[frame[t].i].free

Skipped(t) == boxes[frame[t].i].free /\ num_boxes # 0

ListSkips(t) ==
    /\ pc[t] = "l_scan" /\ frame[t].i \in Slots /\ Skipped(t)
    /\ frame' = [frame EXCEPT ![t].i = @ + 1]
    /\ UNCHANGED <<registry, session, pc, others, exited>>

ListCopies(t) ==
    /\ Goto(t, "l_scan", "l_send")
    /\ frame[t].i \in Slots /\ ~Skipped(t)
    /\ frame' = [frame EXCEPT ![t].name = boxes[frame[t].i].name,
                              ![t].n = @ + 1]
    /\ UNCHANGED <<registry, session, others, exited>>

\* The entry is short, without the numbers, if there is no box by now.
ListSends(t) ==
    LET last == frame[t].last \/ frame[t].n = num_boxes
    IN  /\ Goto(t, "l_send", "l_scan")
        /\ listing[t].result = "reading" /\ PipeIsOpen(t)
        /\ frame' = [frame EXCEPT ![t].last = last, ![t].i = @ + 1]
        /\ listing' = [listing EXCEPT ![t].sent = Append(@,
               [name |-> frame[t].name, last |-> last,
                short |-> num_boxes = 0])]
        /\ UNCHANGED <<registry, session, signalled, requests, exited>>

\* The manager has read what it wanted and left, or the pipe was closed.
ListPipeClosed(t) ==
    /\ pc[t] = "l_send"
    /\ listing[t].result # "reading" \/ ~PipeIsOpen(t)
    /\ CloseServer(t)
    /\ UNCHANGED <<registry, session, others>>

ListEnds(t) ==
    /\ Goto(t, "l_scan", "finish")
    /\ frame[t].i = MaxBoxes + 1
    /\ UNCHANGED <<registry, session, frame, others, exited>>

-----------------------------------------------------------------------------
(* list_boxes of manager/manager.c, for the manager that thread t serves.  *)

\* An empty name ends it with "NO BOXES FOUND"; a short entry with a name
\* makes it take the next entry for numbers.
ManagerReads(t) ==
    LET entry == Head(listing[t].sent)
        result == IF entry.name = NoName THEN "no boxes"
                  ELSE IF entry.short THEN "garbled"
                  ELSE IF entry.last THEN "printed" ELSE "reading"
    IN  /\ listing[t].result = "reading" /\ listing[t].sent # <<>>
        /\ listing' = [listing EXCEPT ![t].sent = Tail(@),
               ![t].got = @ \cup ({entry.name} \ {NoName}),
               ![t].result = result,
               ![t].mark = IF @ = changes THEN @ ELSE -1]
        /\ UNCHANGED <<registry, session, pc, frame, signalled, requests,
                       exited>>

\* The broker's end is closed before an entry was the last: read_pipe fails.
ManagerAtEnd(t) ==
    /\ listing[t].result = "reading" /\ listing[t].sent = <<>>
    /\ pc[t] = "idle"
    /\ listing' = [listing EXCEPT ![t].result = "failed",
                       ![t].mark = IF @ = changes THEN @ ELSE -1]
    /\ UNCHANGED <<registry, session, pc, frame, signalled, requests, exited>>

-----------------------------------------------------------------------------
Register(t) ==
    \/ RegisterOpens(t) \/ RegisterFinds(t) \/ RegisterMisses(t)
    \/ RegisterTests(t) \/ RegisterCounts(t)

Publish(t) ==
    \/ PublisherReceives(t) \/ PublisherEnds(t) \/ PublisherLoads(t)
    \/ PublisherWrites(t) \/ PublisherFillsBox(t) \/ PublisherFails(t)

Subscribe(t) ==
    \/ SubscriberOpens(t) \/ SubscriberCannotOpen(t) \/ SubscriberLoads(t)
    \/ SubscriberLosesPipe(t)
    \/ SubscriberSends(t) \/ SubscriberLeft(t) \/ SubscriberFails(t)

Create(t) ==
    \/ CreateRefuses(t) \/ CreateCounts(t) \/ CreateTakesSlot(t)
    \/ CreateCopies(t) \/ CreateOpensPipe(t) \/ CreateHasNoPipe(t)
    \/ CreateMakesFile(t) \/ CreateMakesNoFile(t) \/ CreateAnswers(t)

Remove(t) ==
    \/ RemoveLocks(t) \/ RemoveOpensPipe(t) \/ RemoveHasNoPipe(t)
    \/ RemoveMisses(t) \/ RemoveFinds(t) \/ RemoveMatches(t)
    \/ RemoveSkips(t) \/ RemoveEndsSession(t) \/ RemoveFreesSlot(t)
    \/ RemoveUnlinks(t) \/ RemoveCannotUnlink(t) \/ RemoveClears(t)
    \/ RemoveCounts(t) \/ RemoveAnswers(t)

List(t) ==
    \/ ListOpens(t) \/ ListSkips(t) \/ ListCopies(t) \/ ListSends(t)
    \/ ListPipeClosed(t) \/ ListEnds(t)

Manager(t) == ManagerReads(t) \/ ManagerAtEnd(t)

Next == ~exited /\ \E t \in Threads :
    \/ Dequeue(t) \/ Finish(t) \/ OpenFails(t) \/ AnswerFails(t)
    \/ OpenBlocks(t) \/ NullBox(t) \/ Register(t) \/ Publish(t) \/ Subscribe(t)
    \/ Create(t) \/ Remove(t) \/ List(t) \/ Manager(t)

Spec == Init /\ [][Next]_vars

\* The steps of thread t that wait for nothing but a lock or, in open(), for
\* the program on the other side, which opens its pipe after its request,
\* unless it is killed before (OpenBlocks).
Works(t) ==
    \/ Finish(t) \/ NullBox(t) \/ OpenFails(t) \/ AnswerFails(t)
    \/ Register(t) \/ Create(t) \/ Remove(t) \/ List(t)

\* Threads run, and one that finds boxes_lock free again and again gets it.
FairSpec == Spec /\ \A t \in Threads : SF_vars(~exited /\ Works(t))

-----------------------------------------------------------------------------
PCs == {"idle", "closing", "fault", "finish", "r_open", "r_find", "r_test",
        "r_count", "p_read", "p_box", "p_write", "u_open", "u_load", "s_wait",
        "c_lock", "c_slot", "c_copy", "c_open", "c_file", "c_answer",
        "d_lock", "d_open", "d_find", "d_scan", "d_end", "d_unlink",
        "d_clear", "d_count", "d_answer", "l_open", "l_scan", "l_send"}
Counts == 0 .. CountLimit - 1

Box    == [name : Names \cup {NoName}, free : BOOLEAN,
           n_publishers : Counts, n_subscribers : Counts]
Client == [opcode : {"none", "pub", "sub", "create", "remove", "list"},
           box_name : Names \cup {NoName}, pipename : BOOLEAN,
           box : Slots \cup {NULL}, box_fd : {0, -1}, client_pipe : Int]
Frame  == [box : Slots \cup {NULL}, n : Int, i : Nat, last : BOOLEAN,
           name : Names \cup {NoName}, stuck : BOOLEAN]

TablesOK ==
    /\ boxes \in [Slots -> Box] /\ num_boxes \in Int
    /\ files \subseteq Names /\ boxes_lock \in Threads \cup {Nobody}

SessionsOK ==
    /\ clients \in [Threads -> Client]
    /\ descriptors \subseteq Nat /\ IsFiniteSet(descriptors)

\* A thread between the two parts of a change knows which slot it works on,
\* and no loop leaves its array.
ThreadOK(t) ==
    /\ pc[t] \in {"r_test", "r_count", "p_write", "c_copy", "d_unlink",
                  "d_clear", "s_wait"} => frame[t].box \in Slots
    /\ pc[t] = "l_scan" => frame[t].i \in 1 .. MaxBoxes + 1
    /\ pc[t] = "l_send" => frame[t].i \in Slots
    /\ pc[t] = "d_scan" => frame[t].i \in 0 .. MaxSessions
    /\ pc[t] = "d_end" => frame[t].i \in Threads \ {t}

\* The shape of the state, the locals of the threads included.
TypeOK ==
    /\ TablesOK /\ SessionsOK
    /\ pc \in [Threads -> PCs] /\ frame \in [Threads -> Frame]
    /\ signalled \subseteq Threads /\ exited \in BOOLEAN
    /\ \A t \in Threads : ThreadOK(t)

\* Whoever gets boxes_lock finds the three tables in agreement, no matter
\* which handler failed and where: num_boxes counts the slots in use, these
\* are the slots with a name, and no name is there twice.  (A removal that
\* fails half way never gives the lock up.)
RegistryAgrees ==
    /\ boxes_lock = Nobody =>
         /\ num_boxes = Cardinality({s \in Slots : ~boxes[s].free})
         /\ \A s \in Slots : boxes[s].free <=> boxes[s].name = NoName
    /\ \A r, s \in Slots :
         boxes[r].name = boxes[s].name /\ r # s => boxes[r].name = NoName

\* create_box has tested num_boxes, so get_free_box finds a slot and the
\* name is still new when it is copied.
SlotAvailable ==
    \A t \in Threads :
        /\ pc[t] = "c_slot" => \E s \in Slots : boxes[s].free
        /\ pc[t] \in {"c_slot", "c_copy"} =>
             clients[t].box_name \in Names \ BoxNames

\* A box without a file is one whose own creation is before tfs_open or closed
\* the server there (a removal may have taken the name from its session), or
\* one that a removal has just unlinked.
BoxHasFile ==
    \A s \in Slots : boxes[s].name \in Names \ files =>
        \E t \in Threads :
            \/ /\ \/ pc[t] \in {"c_open", "c_file"}
                  \/ pc[t] = "closing" /\ clients[t].opcode = "create"
               /\ clients[t].box_name \in {boxes[s].name, NoName}
            \/ pc[t] = "d_clear" /\ frame[t].box = s

\* A thread that serves a client loses its box only with the name of it, to a
\* removal that ended the session: every NULL that NullBox meets is one.
SessionKeepsBox ==
    \A t \in Threads :
        pc[t] \in {"p_read", "p_box", "p_write", "u_open", "u_load", "fault"}
          => clients[t].box # NULL \/ clients[t].box_name = NoName

\* A manager that lists the boxes while none is created or removed is shown
\* all of them and nothing else, and told so if there are none.
ListExact ==
    \A t \in Threads :
        LET l == listing[t]
        IN  l.result \notin {"none", "reading"} /\ l.mark = changes =>
              /\ l.got = l.names
              /\ l.result = IF l.names = {} THEN "no boxes" ELSE "printed"

Decided(t) ==
    /\ clients[t].box_name # NoName
    /\ \/ pc[t] \in {"c_open", "d_count", "d_answer"}
       \/ pc[t] \in {"c_file", "c_answer"} /\ clients[t].client_pipe # NoPipe

Set == INSTANCE BoxSet WITH
    Servers <- Threads,
    present <- BoxNames,
    decided <- [t \in Threads |->
        IF Decided(t)
        THEN [op |-> clients[t].opcode, name |-> clients[t].box_name,
              code |-> frame[t].n]
        ELSE [op |-> "none"]]

\* Whatever the interleaving, requests to create and remove boxes take effect
\* as on a set of names, one at a time and each in one step.
ImplementsBoxSet == Set!Spec

\* Every request to create or remove a box is carried to its end, unless its
\* own manager is killed before it opens its pipe, some handler has failed and
\* its thread sits in close_server, perhaps with boxes_lock, or a removal
\* holds boxes_lock in open() for a manager that was killed: no handler that
\* goes on keeps the lock, and no other one waits with it.
RequestsEnd ==
    \A t \in Threads :
        pc[t] \in {"c_lock", "d_lock"} ~>
            \/ pc[t] = "idle" \/ exited \/ frame[t].stuck
            \/ \E u \in Threads : \/ pc[u] = "closing"
                                  \/ frame[u].stuck /\ boxes_lock = u

\* mbroker.h:23: "uint64_t n_publishers; // 0 or 1 max": the publishers that
\* threads of the broker serve for one box are one at most.
Publishers(s) == {t \in Threads : /\ pc[t] \in {"p_read", "p_box", "p_write"}
                                 /\ clients[t].box = s}
OnePublisher == \A s \in Slots : Cardinality(Publishers(s)) <= 1
=============================================================================
