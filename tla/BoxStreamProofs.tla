-------------------------- MODULE BoxStreamProofs ---------------------------
(***************************************************************************)
(* What BoxStream promises for every number of subscribers, every size of  *)
(* message, frame and file, and every number of messages and sessions: the *)
(* box counts what its file holds, the first session of a thread reads the *)
(* file in step with what it has sent, every client prints the messages in *)
(* order, and nobody waits on the box with something to send.              *)
(*                                                                         *)
(* SizeCounted speaks of the moments when box->lock is free.  It is kept   *)
(* because of what holds while the lock is taken: the publisher's thread   *)
(* owns it from the write to the count, and one that fails in between      *)
(* never gives it back.  FirstSessionInStep needs in turn that a thread    *)
(* starts its first session with a zero offset and a zero position, and    *)
(* that what a subscriber found under the lock is still in the file when   *)
(* it reads without it, as no step makes the file shorter.                 *)
(***************************************************************************)
EXTENDS BoxStream, SequenceTheorems, FiniteSetTheorems, WellFoundedInduction,
        TLAPS

PublisherPCs  == {"idle", "closing", "p_read", "p_lock", "p_write", "p_count"}
SubscriberPCs == {"idle", "closing", "u_lock", "u_send", "s_wait", "s_read",
                  "s_send"}
Codes == 0 .. MaxMessages

BoxShape ==
    /\ file \in Seq(Codes) /\ Len(file) <= BoxSize /\ box_size \in Nat
    /\ lock \in Threads \cup {Nobody} /\ waiting \subseteq Subscribers
    /\ opened \in 1 .. MaxOpenFiles
    /\ exited \in BOOLEAN

ThreadShape ==
    /\ pc \in [Threads -> PCs]
    /\ pc[Publisher] \in PublisherPCs
    /\ \A t \in Subscribers : pc[t] \in SubscriberPCs

SessionShape ==
    /\ offset \in [Subscribers -> Nat]
    /\ position \in [Subscribers -> Nat]
    /\ frame \in [Subscribers -> Seq(Codes)]
    /\ sessions \in [Subscribers -> 0 .. MaxSessions]
    /\ gone \in [Subscribers -> BOOLEAN]

\* A message on its way into the box has a length, and a number left.
MessageInv ==
    /\ message \in Lengths \cup {0} /\ published \in Seq(Lengths)
    /\ pc[Publisher] \in {"p_lock", "p_write", "p_count"} =>
         message \in Lengths /\ Len(published) < MaxMessages

\* No handle is beyond the end of the file, no frame is longer than one.
ReadInv ==
    \A t \in Subscribers :
        position[t] <= Len(file) /\ Len(frame[t]) <= FrameSize

\* The owner of box->lock in each critical section.
LockInv ==
    /\ pc[Publisher] \in {"p_write", "p_count"} => lock = Publisher
    /\ \A t \in Subscribers : pc[t] = "u_send" => lock = t

\* The box counts what its file holds, but for what the publisher's thread
\* has written under the lock and not yet counted.
CountInv ==
    /\ (lock # Publisher \/ pc[Publisher] = "p_write") => box_size = Len(file)
    /\ pc[Publisher] = "p_count" => box_size + message = Len(file)

\* A thread before and in its first session.
FreshInv(t) ==
    sessions[t] = 0 => pc[t] = "idle" /\ offset[t] = 0 /\ position[t] = 0

FirstInv(t) ==
    InFirstSession(t) =>
        /\ pc[t] = "s_send" => offset[t] + Len(frame[t]) = position[t]
        /\ pc[t] # "s_send" => offset[t] = position[t]
        /\ pc[t] = "u_lock" => offset[t] = 0
        /\ pc[t] = "s_read" => position[t] < Len(file)

SessionInv == \A t \in Subscribers : FreshInv(t) /\ FirstInv(t)

\* The inductive invariant.
Inv ==
    /\ BoxShape /\ ThreadShape /\ SessionShape /\ MessageInv /\ ReadInv
    /\ LockInv /\ CountInv /\ SessionInv

-----------------------------------------------------------------------------
(* Lemmas about the operators of the model.                                *)

\* A message of a length is that many bytes.
LEMMA BytesOfMessage ==
    ASSUME NEW number \in Codes, NEW length \in Nat
    PROVE  /\ Bytes(number, length) \in Seq(Codes)
           /\ Len(Bytes(number, length)) = length
<1>. DEFINE b == Bytes(number, length)
<1>1. b \in [1 .. length -> Codes]
    BY BoxAssumption DEF Bytes, Codes, NUL
<1>2. b \in Seq(Codes)
    BY <1>1, SeqDef
<1>3. DOMAIN b = 1 .. length
    BY DEF Bytes
<1>4. Len(b) \in Nat /\ DOMAIN b = 1 .. Len(b)
    BY <1>2, LenProperties
<1>. QED BY <1>2, <1>3, <1>4

\* What fits of a message is a sequence of bytes that fills the file.
LEMMA FillsFile ==
    ASSUME NEW f \in Seq(Codes), NEW m \in Seq(Codes),
           NEW size \in Nat, Len(f) <= size, size < Len(f) + Len(m)
    PROVE  LET g == f \o SubSeq(m, 1, size - Len(f))
           IN  g \in Seq(Codes) /\ Len(g) = size
<1>. DEFINE room == size - Len(f)
            part == SubSeq(m, 1, room)
<1>1. Len(f) \in Nat /\ Len(m) \in Nat /\ room \in Nat /\ room < Len(m)
    BY LenProperties
<1>2. \A i \in 1 .. room : m[i] \in Codes
    BY <1>1, ElementOfSeq
<1>3. part \in Seq(Codes) /\ Len(part) = IF 1 <= room THEN room - 1 + 1 ELSE 0
    BY <1>1, <1>2, SubSeqProperties
<1>4. Len(part) = room
    BY <1>1, <1>3
<1>5. f \o part \in Seq(Codes) /\ Len(f \o part) = Len(f) + Len(part)
    BY <1>3, ConcatProperties
<1>. QED BY <1>1, <1>4, <1>5

\* A read within the file takes that many bytes.
LEMMA ReadsBytes ==
    ASSUME NEW f \in Seq(Codes), NEW from \in Nat, NEW n \in Nat,
           from + n <= Len(f)
    PROVE  /\ SubSeq(f, from + 1, from + n) \in Seq(Codes)
           /\ Len(SubSeq(f, from + 1, from + n)) = n
<1>1. Len(f) \in Nat
    BY LenProperties
<1>2. \A i \in from + 1 .. from + n : f[i] \in Codes
    BY <1>1, ElementOfSeq
<1>3. /\ SubSeq(f, from + 1, from + n) \in Seq(Codes)
      /\ Len(SubSeq(f, from + 1, from + n)) =
           IF from + 1 <= from + n THEN from + n - (from + 1) + 1 ELSE 0
    BY <1>2, SubSeqProperties
<1>. QED BY <1>3

\* Lengths are lengths, and the parts of a state have their sizes.
LEMMA Sizes ==
    ASSUME Inv
    PROVE  /\ Len(file) \in Nat /\ Len(published) \in Nat
           /\ message \in Nat /\ (message \in Lengths => message > 0)
           /\ \A t \in Subscribers : Len(frame[t]) \in Nat
<1>1. Len(file) \in Nat /\ Len(published) \in Nat
    BY LenProperties DEF Inv, BoxShape, MessageInv
<1>2. message \in Nat /\ (message \in Lengths => message > 0)
    BY BoxAssumption DEF Inv, MessageInv
<1>3. ASSUME NEW t \in Subscribers PROVE Len(frame[t]) \in Nat
    BY LenProperties DEF Inv, SessionShape
<1>. QED BY <1>1, <1>2, <1>3

-----------------------------------------------------------------------------
(* One lemma for each step of the publisher's thread ...                   *)

LEMMA KeepsRegisterPublisher ==
    ASSUME Inv, RegisterPublisher
    PROVE  Inv'
<1>1. BoxShape' /\ SessionShape' /\ ReadInv'
    BY DEF Inv, BoxShape, SessionShape, ReadInv, RegisterPublisher, box,
           session
<1>2. ThreadShape'
    BY BoxAssumption DEF Inv, ThreadShape, Threads, PCs, PublisherPCs,
       SubscriberPCs, RegisterPublisher, Goto
<1>3. MessageInv'
    BY BoxAssumption DEF Inv, MessageInv, ThreadShape, Threads,
       RegisterPublisher, Goto
<1>4. LockInv'
    BY BoxAssumption DEF Inv, LockInv, ThreadShape, Threads,
       RegisterPublisher, Goto, box
<1>5. CountInv'
    BY BoxAssumption DEF Inv, CountInv, BoxShape, ThreadShape, Threads,
       RegisterPublisher, Goto, box
<1>6. SessionInv'
    BY BoxAssumption DEF Inv, SessionInv, FreshInv, FirstInv, InFirstSession,
       SessionShape, ThreadShape, Threads, RegisterPublisher, Goto, box,
       session
<1>. QED BY <1>1, <1>2, <1>3, <1>4, <1>5, <1>6 DEF Inv

LEMMA KeepsPublisherLeaves ==
    ASSUME Inv, PublisherLeaves
    PROVE  Inv'
<1>1. BoxShape' /\ SessionShape' /\ ReadInv'
    BY DEF Inv, BoxShape, SessionShape, ReadInv, PublisherLeaves, box, session
<1>2. ThreadShape'
    BY BoxAssumption DEF Inv, ThreadShape, Threads, PCs, PublisherPCs,
       SubscriberPCs, PublisherLeaves, Goto
<1>3. MessageInv'
    BY BoxAssumption DEF Inv, MessageInv, ThreadShape, Threads,
       PublisherLeaves, Goto
<1>4. LockInv'
    BY BoxAssumption DEF Inv, LockInv, ThreadShape, Threads, PublisherLeaves,
       Goto, box
<1>5. CountInv'
    BY BoxAssumption DEF Inv, CountInv, BoxShape, ThreadShape, Threads,
       PublisherLeaves, Goto, box
<1>6. SessionInv'
    BY BoxAssumption DEF Inv, SessionInv, FreshInv, FirstInv, InFirstSession,
       SessionShape, ThreadShape, Threads, PublisherLeaves, Goto, box, session
<1>. QED BY <1>1, <1>2, <1>3, <1>4, <1>5, <1>6 DEF Inv

LEMMA KeepsReceive ==
    ASSUME Inv, Receive
    PROVE  Inv'
<1>1. BoxShape' /\ SessionShape' /\ ReadInv'
    BY DEF Inv, BoxShape, SessionShape, ReadInv, Receive, box, session
<1>2. ThreadShape'
    BY BoxAssumption DEF Inv, ThreadShape, Threads, PCs, PublisherPCs,
       SubscriberPCs, Receive, Goto
<1>3. MessageInv'
    BY BoxAssumption, Sizes DEF Inv, MessageInv, ThreadShape, Threads,
       Receive, Goto
<1>4. LockInv'
    BY BoxAssumption DEF Inv, LockInv, ThreadShape, Threads, Receive, Goto,
       box
<1>5. CountInv'
    BY BoxAssumption, Sizes DEF Inv, CountInv, BoxShape, ThreadShape, Threads,
       Receive, Goto, box
<1>6. SessionInv'
    BY BoxAssumption, Sizes DEF Inv, SessionInv, FreshInv, FirstInv,
       InFirstSession, SessionShape, ThreadShape, Threads, Receive, Goto, box,
       session
<1>. QED BY <1>1, <1>2, <1>3, <1>4, <1>5, <1>6 DEF Inv

LEMMA KeepsPublisherLocks ==
    ASSUME Inv, PublisherLocks
    PROVE  Inv'
<1>1. SessionShape' /\ ReadInv'
    BY DEF Inv, SessionShape, ReadInv, PublisherLocks, box, session
<1>2. BoxShape'
    BY DEF Inv, BoxShape, PublisherLocks, box, Free, Threads
<1>3. ThreadShape'
    BY BoxAssumption DEF Inv, ThreadShape, Threads, PCs, PublisherPCs,
       SubscriberPCs, PublisherLocks, Goto, Free
<1>4. MessageInv'
    BY BoxAssumption, Sizes DEF Inv, MessageInv, ThreadShape, Threads,
       PublisherLocks, Goto, Free
<1>5. LockInv'
    BY BoxAssumption DEF Inv, LockInv, ThreadShape, Threads, PublisherLocks,
       Goto, box, Free
<1>6. CountInv'
    BY BoxAssumption, Sizes DEF Inv, CountInv, BoxShape, ThreadShape, Threads,
       PublisherLocks, Goto, box, Free, LockInv
<1>7. SessionInv'
    BY BoxAssumption, Sizes DEF Inv, SessionInv, FreshInv, FirstInv,
       InFirstSession, SessionShape, ThreadShape, Threads, PublisherLocks,
       Goto, box, session, Free
<1>. QED BY <1>1, <1>2, <1>3, <1>4, <1>5, <1>6, <1>7 DEF Inv

LEMMA KeepsWriteMessage ==
    ASSUME Inv, WriteMessage
    PROVE  Inv'
<1>0. /\ file' \in Seq(Codes) /\ Len(file') = Len(file) + message
      /\ Len(file') <= BoxSize
    <2>. DEFINE b == Bytes(Len(published) + 1, message)
    <2>1. Len(published) + 1 \in Codes
        BY Sizes, BoxAssumption DEF Inv, MessageInv, WriteMessage, Goto, Codes
    <2>2. b \in Seq(Codes) /\ Len(b) = message
        BY <2>1, Sizes, BytesOfMessage
    <2>3. file \o b \in Seq(Codes) /\ Len(file \o b) = Len(file) + Len(b)
        BY <2>2, ConcatProperties DEF Inv, BoxShape
    <2>4. file' = file \o b /\ Len(file) + message <= BoxSize
        BY DEF WriteMessage, Fits
    <2>. QED BY <2>2, <2>3, <2>4
<1>1. SessionShape'
    BY DEF Inv, SessionShape, WriteMessage, session
<1>2. BoxShape'
    BY <1>0, BoxAssumption DEF Inv, BoxShape, WriteMessage, box
<1>3. ThreadShape'
    BY BoxAssumption DEF Inv, ThreadShape, Threads, PCs, PublisherPCs,
       SubscriberPCs, WriteMessage, Goto
<1>4. MessageInv'
    BY BoxAssumption, Sizes DEF Inv, MessageInv, ThreadShape, Threads,
       WriteMessage, Goto
<1>5. ReadInv'
    BY <1>0, Sizes DEF Inv, ReadInv, SessionShape, WriteMessage, box, session
<1>6. LockInv'
    BY BoxAssumption DEF Inv, LockInv, ThreadShape, Threads, WriteMessage,
       Goto, box
<1>7. CountInv'
    BY <1>0, BoxAssumption, Sizes DEF Inv, CountInv, BoxShape, ThreadShape,
       Threads, WriteMessage, Goto, box, LockInv
<1>8. SessionInv'
    BY <1>0, BoxAssumption, Sizes DEF Inv, SessionInv, FreshInv, FirstInv,
       InFirstSession, SessionShape, ThreadShape, Threads, WriteMessage, Goto,
       box, session, ReadInv
<1>. QED BY <1>1, <1>2, <1>3, <1>4, <1>5, <1>6, <1>7, <1>8 DEF Inv

LEMMA KeepsWriteToFullBox ==
    ASSUME Inv, WriteToFullBox
    PROVE  Inv'
<1>0. file' \in Seq(Codes) /\ Len(file') = BoxSize
    <2>. DEFINE b == Bytes(Len(published) + 1, message)
    <2>1. Len(published) + 1 \in Codes
        BY Sizes, BoxAssumption
           DEF Inv, MessageInv, WriteToFullBox, Goto, Codes
    <2>2. b \in Seq(Codes) /\ Len(b) = message
        BY <2>1, Sizes, BytesOfMessage
    <2>3. file' = file \o SubSeq(b, 1, BoxSize - Len(file))
          /\ BoxSize < Len(file) + Len(b)
        BY <2>2, Sizes, BoxAssumption DEF WriteToFullBox, Fits
    <2>. QED BY <2>2, <2>3, FillsFile, BoxAssumption DEF Inv, BoxShape
<1>1. SessionShape'
    BY DEF Inv, SessionShape, WriteToFullBox, session
<1>2. BoxShape'
    BY <1>0, BoxAssumption DEF Inv, BoxShape, WriteToFullBox, box
<1>3. ThreadShape'
    BY BoxAssumption DEF Inv, ThreadShape, Threads, PCs, PublisherPCs,
       SubscriberPCs, WriteToFullBox, Goto
<1>4. MessageInv'
    BY BoxAssumption, Sizes DEF Inv, MessageInv, ThreadShape, Threads,
       WriteToFullBox, Goto
<1>5. ReadInv'
    BY <1>0, Sizes DEF Inv, ReadInv, SessionShape, WriteToFullBox, box,
       session, BoxShape
<1>6. LockInv'
    BY BoxAssumption DEF Inv, LockInv, ThreadShape, Threads, WriteToFullBox,
       Goto, box
<1>7. CountInv'
    BY <1>0, BoxAssumption, Sizes DEF Inv, CountInv, BoxShape, ThreadShape,
       Threads, WriteToFullBox, Goto, box, LockInv
<1>8. SessionInv'
    BY <1>0, BoxAssumption, Sizes DEF Inv, SessionInv, FreshInv, FirstInv,
       InFirstSession, SessionShape, ThreadShape, Threads, WriteToFullBox,
       Goto, box, session, BoxShape
<1>. QED BY <1>1, <1>2, <1>3, <1>4, <1>5, <1>6, <1>7, <1>8 DEF Inv

LEMMA KeepsPublisherOutOfHandles ==
    ASSUME Inv, PublisherOutOfHandles
    PROVE  Inv'
<1>1. SessionShape' /\ ReadInv'
    BY DEF Inv, SessionShape, ReadInv, PublisherOutOfHandles, box, session
<1>2. BoxShape'
    BY DEF Inv, BoxShape, PublisherOutOfHandles, box, CloseServer
<1>3. ThreadShape'
    BY BoxAssumption DEF Inv, ThreadShape, Threads, PCs, PublisherPCs,
       SubscriberPCs, PublisherOutOfHandles, Goto, CloseServer
<1>4. MessageInv'
    BY BoxAssumption, Sizes DEF Inv, MessageInv, ThreadShape, Threads,
       PublisherOutOfHandles, Goto, CloseServer
<1>5. LockInv'
    BY BoxAssumption DEF Inv, LockInv, ThreadShape, Threads,
       PublisherOutOfHandles, Goto, box, CloseServer
<1>6. CountInv'
    BY BoxAssumption, Sizes DEF Inv, CountInv, BoxShape, ThreadShape, Threads,
       PublisherOutOfHandles, Goto, box, CloseServer
<1>7. SessionInv'
    BY BoxAssumption, Sizes DEF Inv, SessionInv, FreshInv, FirstInv,
       InFirstSession, SessionShape, ThreadShape, Threads,
       PublisherOutOfHandles, Goto, box, session, CloseServer
<1>. QED BY <1>1, <1>2, <1>3, <1>4, <1>5, <1>6, <1>7 DEF Inv

LEMMA KeepsCountMessage ==
    ASSUME Inv, CountMessage
    PROVE  Inv'
<1>0. published' \in Seq(Lengths)
    BY DEF Inv, MessageInv, CountMessage, Goto
<1>1. SessionShape' /\ ReadInv'
    BY DEF Inv, SessionShape, ReadInv, CountMessage, box, session
<1>2. BoxShape'
    BY Sizes DEF Inv, BoxShape, CountMessage, box, Counted, Broadcast, Threads
<1>3. ThreadShape'
    BY BoxAssumption DEF Inv, ThreadShape, Threads, PCs, PublisherPCs,
       SubscriberPCs, CountMessage, Goto
<1>4. MessageInv'
    BY BoxAssumption, Sizes DEF Inv, MessageInv, ThreadShape, Threads,
       CountMessage, Goto
<1>5. LockInv'
    BY BoxAssumption DEF Inv, LockInv, ThreadShape, Threads, CountMessage,
       Goto, box
<1>6. CountInv'
    BY BoxAssumption, Sizes DEF Inv, CountInv, BoxShape, ThreadShape, Threads,
       CountMessage, Goto, box, Counted, LockInv
<1>7. SessionInv'
    BY BoxAssumption, Sizes DEF Inv, SessionInv, FreshInv, FirstInv,
       InFirstSession, SessionShape, ThreadShape, Threads, CountMessage, Goto,
       box, session
<1>. QED BY <1>1, <1>2, <1>3, <1>4, <1>5, <1>6, <1>7 DEF Inv

-----------------------------------------------------------------------------
(* ... and for each step of a subscriber's.                                *)

LEMMA KeepsRegisterSubscriber ==
    ASSUME Inv, NEW t \in Subscribers, RegisterSubscriber(t)
    PROVE  Inv'
<1>1. BoxShape' /\ ReadInv'
    BY DEF Inv, BoxShape, ReadInv, RegisterSubscriber, box, session
<1>2. ThreadShape'
    BY BoxAssumption DEF Inv, ThreadShape, Threads, PCs, PublisherPCs,
       SubscriberPCs, RegisterSubscriber, Goto
<1>3. SessionShape'
    BY BoxAssumption DEF Inv, SessionShape, RegisterSubscriber, session
<1>4. MessageInv'
    BY BoxAssumption, Sizes DEF Inv, MessageInv, ThreadShape, Threads,
       RegisterSubscriber, Goto
<1>5. LockInv'
    BY BoxAssumption DEF Inv, LockInv, ThreadShape, Threads,
       RegisterSubscriber, Goto, box
<1>6. CountInv'
    BY BoxAssumption, Sizes DEF Inv, CountInv, BoxShape, ThreadShape, Threads,
       RegisterSubscriber, Goto, box
<1>7. SessionInv'
    BY BoxAssumption, Sizes DEF Inv, SessionInv, FreshInv, FirstInv,
       InFirstSession, SessionShape, ThreadShape, Threads, RegisterSubscriber,
       Goto, box, session
<1>. QED BY <1>1, <1>2, <1>3, <1>4, <1>5, <1>6, <1>7 DEF Inv

LEMMA KeepsSubscriberLeaves ==
    ASSUME Inv, NEW t \in Subscribers, SubscriberLeaves(t)
    PROVE  Inv'
<1>1. /\ BoxShape' /\ ThreadShape' /\ MessageInv' /\ ReadInv'
      /\ LockInv' /\ CountInv' /\ SessionInv'
    BY DEF Inv, BoxShape, ThreadShape, MessageInv, ReadInv, LockInv, CountInv,
           SessionInv, FreshInv, FirstInv, InFirstSession, SubscriberLeaves,
           box, session
<1>2. SessionShape'
    BY DEF Inv, SessionShape, SubscriberLeaves, session
<1>. QED BY <1>1, <1>2 DEF Inv

LEMMA KeepsUntilNowOpens ==
    ASSUME Inv, NEW t \in Subscribers, UntilNowOpens(t)
    PROVE  Inv'
<1>1. BoxShape'
    BY BoxAssumption DEF Inv, BoxShape, UntilNowOpens, box, Free, Threads
<1>2. ThreadShape'
    BY BoxAssumption DEF Inv, ThreadShape, Threads, PCs, PublisherPCs,
       SubscriberPCs, UntilNowOpens, Goto, Free
<1>3. SessionShape'
    BY DEF Inv, SessionShape, UntilNowOpens, session, Free
<1>4. MessageInv'
    BY BoxAssumption, Sizes DEF Inv, MessageInv, ThreadShape, Threads,
       UntilNowOpens, Goto, Free
<1>5. ReadInv'
    BY Sizes DEF Inv, ReadInv, SessionShape, UntilNowOpens, box, session, Free
<1>6. LockInv'
    BY BoxAssumption DEF Inv, LockInv, ThreadShape, Threads, UntilNowOpens,
       Goto, box, Free
<1>7. CountInv'
    BY BoxAssumption, Sizes DEF Inv, CountInv, BoxShape, ThreadShape, Threads,
       UntilNowOpens, Goto, box, Free
<1>8. SessionInv'
    BY BoxAssumption, Sizes DEF Inv, SessionInv, FreshInv, FirstInv,
       InFirstSession, SessionShape, ThreadShape, Threads, UntilNowOpens,
       Goto, box, session, Free
<1>. QED BY <1>1, <1>2, <1>3, <1>4, <1>5, <1>6, <1>7, <1>8 DEF Inv

LEMMA KeepsUntilNowOutOfHandles ==
    ASSUME Inv, NEW t \in Subscribers, UntilNowOutOfHandles(t)
    PROVE  Inv'
<1>1. SessionShape' /\ ReadInv'
    BY DEF Inv, SessionShape, ReadInv, UntilNowOutOfHandles, box, session
<1>2. BoxShape'
    BY DEF Inv, BoxShape, UntilNowOutOfHandles, box, Free, CloseServer,
           Threads
<1>3. ThreadShape'
    BY BoxAssumption DEF Inv, ThreadShape, Threads, PCs, PublisherPCs,
       SubscriberPCs, UntilNowOutOfHandles, Goto, Free, CloseServer
<1>4. MessageInv'
    BY BoxAssumption, Sizes DEF Inv, MessageInv, ThreadShape, Threads,
       UntilNowOutOfHandles, Goto, Free, CloseServer
<1>5. LockInv'
    BY BoxAssumption DEF Inv, LockInv, ThreadShape, Threads,
       UntilNowOutOfHandles, Goto, box, Free, CloseServer
<1>6. CountInv'
    BY BoxAssumption, Sizes DEF Inv, CountInv, BoxShape, ThreadShape, Threads,
       UntilNowOutOfHandles, Goto, box, Free, CloseServer
<1>7. SessionInv'
    BY BoxAssumption, Sizes DEF Inv, SessionInv, FreshInv, FirstInv,
       InFirstSession, SessionShape, ThreadShape, Threads,
       UntilNowOutOfHandles, Goto, box, session, Free, CloseServer
<1>. QED BY <1>1, <1>2, <1>3, <1>4, <1>5, <1>6, <1>7 DEF Inv

LEMMA KeepsUntilNowSends ==
    ASSUME Inv, NEW t \in Subscribers, UntilNowSends(t)
    PROVE  Inv'
<1>0. Left(t) \in Nat /\ position[t] + Left(t) = Len(file)
    BY Sizes DEF Inv, SessionShape, ReadInv, Left
<1>1. /\ BoxShape' /\ ThreadShape' /\ MessageInv' /\ LockInv'
      /\ CountInv'
    BY DEF Inv, BoxShape, ThreadShape, MessageInv, LockInv, CountInv,
           UntilNowSends, box
<1>2. SessionShape'
    BY <1>0 DEF Inv, SessionShape, UntilNowSends, session, Left
<1>3. ReadInv'
    BY <1>0, Sizes DEF Inv, ReadInv, SessionShape, UntilNowSends, box,
       session, Left
<1>4. SessionInv'
    BY <1>0, BoxAssumption, Sizes DEF Inv, SessionInv, FreshInv, FirstInv,
       InFirstSession, SessionShape, ThreadShape, Threads, UntilNowSends, box,
       session, Left, ReadInv
<1>. QED BY <1>1, <1>2, <1>3, <1>4 DEF Inv

LEMMA KeepsUntilNowPipeClosed ==
    ASSUME Inv, NEW t \in Subscribers, UntilNowPipeClosed(t)
    PROVE  Inv'
<1>1. BoxShape'
    BY DEF Inv, BoxShape, UntilNowPipeClosed, box, CloseServer
<1>2. ThreadShape'
    BY BoxAssumption DEF Inv, ThreadShape, Threads, PCs, PublisherPCs,
       SubscriberPCs, UntilNowPipeClosed, Goto, CloseServer
<1>3. SessionShape'
    BY Sizes DEF Inv, SessionShape, UntilNowPipeClosed, session, Left
<1>4. MessageInv'
    BY BoxAssumption, Sizes DEF Inv, MessageInv, ThreadShape, Threads,
       UntilNowPipeClosed, Goto, CloseServer
<1>5. ReadInv'
    BY BoxAssumption, Sizes DEF Inv, ReadInv, SessionShape,
       UntilNowPipeClosed, box, session, Left
<1>6. LockInv'
    BY BoxAssumption DEF Inv, LockInv, ThreadShape, Threads,
       UntilNowPipeClosed, Goto, box, CloseServer
<1>7. CountInv'
    BY BoxAssumption, Sizes DEF Inv, CountInv, BoxShape, ThreadShape, Threads,
       UntilNowPipeClosed, Goto, box, CloseServer, Left
<1>8. SessionInv'
    BY BoxAssumption, Sizes DEF Inv, SessionInv, FreshInv, FirstInv,
       InFirstSession, SessionShape, ThreadShape, Threads, UntilNowPipeClosed,
       Goto, box, session, CloseServer, Left
<1>. QED BY <1>1, <1>2, <1>3, <1>4, <1>5, <1>6, <1>7, <1>8 DEF Inv

LEMMA KeepsUntilNowEnds ==
    ASSUME Inv, NEW t \in Subscribers, UntilNowEnds(t)
    PROVE  Inv'
<1>1. SessionShape' /\ ReadInv'
    BY DEF Inv, SessionShape, ReadInv, UntilNowEnds, box, session
<1>2. BoxShape'
    BY DEF Inv, BoxShape, UntilNowEnds, box, Threads
<1>3. ThreadShape'
    BY BoxAssumption DEF Inv, ThreadShape, Threads, PCs, PublisherPCs,
       SubscriberPCs, UntilNowEnds, Goto
<1>4. MessageInv'
    BY BoxAssumption, Sizes DEF Inv, MessageInv, ThreadShape, Threads,
       UntilNowEnds, Goto
<1>5. LockInv'
    BY BoxAssumption DEF Inv, LockInv, ThreadShape, Threads, UntilNowEnds,
       Goto, box
<1>6. CountInv'
    BY BoxAssumption, Sizes DEF Inv, CountInv, BoxShape, ThreadShape, Threads,
       UntilNowEnds, Goto, box, LockInv
<1>7. SessionInv'
    BY BoxAssumption, Sizes DEF Inv, SessionInv, FreshInv, FirstInv,
       InFirstSession, SessionShape, ThreadShape, Threads, UntilNowEnds, Goto,
       box, session
<1>. QED BY <1>1, <1>2, <1>3, <1>4, <1>5, <1>6, <1>7 DEF Inv

LEMMA KeepsSubscriberSleeps ==
    ASSUME Inv, NEW t \in Subscribers, SubscriberSleeps(t)
    PROVE  Inv'
<1>1. /\ ThreadShape' /\ SessionShape' /\ MessageInv' /\ ReadInv'
      /\ LockInv' /\ CountInv' /\ SessionInv'
    BY DEF Inv, ThreadShape, SessionShape, MessageInv, ReadInv, LockInv,
           CountInv, SessionInv, FreshInv, FirstInv, InFirstSession,
           SubscriberSleeps, box, session
<1>2. BoxShape'
    BY DEF Inv, BoxShape, SubscriberSleeps, box
<1>. QED BY <1>1, <1>2 DEF Inv

LEMMA KeepsSubscriberFindsMore ==
    ASSUME Inv, NEW t \in Subscribers, SubscriberFindsMore(t)
    PROVE  Inv'
<1>0. InFirstSession(t)' => position[t] < Len(file)
    <2>. SUFFICES ASSUME InFirstSession(t)' PROVE position[t] < Len(file)
        OBVIOUS
    <2>1. pc[t] = "s_wait" /\ sessions[t] = 1
        BY DEF SubscriberFindsMore, Goto, session, InFirstSession
    <2>2. offset[t] = position[t]
        BY <2>1 DEF Inv, SessionInv, FirstInv, InFirstSession
    <2>3. box_size = Len(file) /\ box_size # offset[t]
        BY BoxAssumption DEF Inv, CountInv, SubscriberFindsMore, Free,
                             MoreToRead
    <2>. QED BY <2>2, <2>3, Sizes DEF Inv, ReadInv, SessionShape
<1>1. BoxShape' /\ SessionShape' /\ ReadInv'
    BY DEF Inv, BoxShape, SessionShape, ReadInv, SubscriberFindsMore, box,
           session
<1>2. ThreadShape'
    BY BoxAssumption DEF Inv, ThreadShape, Threads, PCs, PublisherPCs,
       SubscriberPCs, SubscriberFindsMore, Goto
<1>3. MessageInv'
    BY BoxAssumption DEF Inv, MessageInv, ThreadShape, Threads,
       SubscriberFindsMore, Goto
<1>4. LockInv'
    BY BoxAssumption DEF Inv, LockInv, ThreadShape, Threads,
       SubscriberFindsMore, Goto, box
<1>5. CountInv'
    BY BoxAssumption DEF Inv, CountInv, BoxShape, ThreadShape, Threads,
       SubscriberFindsMore, Goto, box
<1>6. SessionInv'
    BY <1>0, BoxAssumption DEF Inv, SessionInv, FreshInv, FirstInv,
       InFirstSession, SessionShape, ThreadShape, Threads,
       SubscriberFindsMore, Goto, box, session
<1>. QED BY <1>1, <1>2, <1>3, <1>4, <1>5, <1>6 DEF Inv

LEMMA KeepsSpuriousWakeup ==
    ASSUME Inv, NEW t \in Subscribers, SpuriousWakeup(t)
    PROVE  Inv'
<1>1. /\ ThreadShape' /\ SessionShape' /\ MessageInv' /\ ReadInv'
      /\ LockInv' /\ CountInv' /\ SessionInv'
    BY DEF Inv, ThreadShape, SessionShape, MessageInv, ReadInv, LockInv,
           CountInv, SessionInv, FreshInv, FirstInv, InFirstSession,
           SpuriousWakeup, box, session
<1>2. BoxShape'
    BY DEF Inv, BoxShape, SpuriousWakeup, box
<1>. QED BY <1>1, <1>2 DEF Inv

LEMMA KeepsSubscriberReads ==
    ASSUME Inv, NEW t \in Subscribers, SubscriberReads(t)
    PROVE  Inv'
<1>0. /\ FrameLength(t) \in 1 .. FrameSize
      /\ position[t] + FrameLength(t) <= Len(file)
      /\ frame'[t] \in Seq(Codes) /\ Len(frame'[t]) = FrameLength(t)
    <2>1. Left(t) \in Nat \ {0} /\ position[t] + Left(t) = Len(file)
        BY Sizes DEF Inv, SessionShape, ReadInv, SubscriberReads, Left
    <2>2. FrameLength(t) \in 1 .. FrameSize /\ FrameLength(t) <= Left(t)
        BY <2>1, BoxAssumption DEF FrameLength
    <2>3. position[t] \in Nat /\ file \in Seq(Codes)
        BY DEF Inv, SessionShape, BoxShape
    <2>4. position[t] + FrameLength(t) <= Len(file) /\ FrameLength(t) \in Nat
        BY <2>1, <2>2, <2>3, BoxAssumption
    <2>5. frame'[t] = SubSeq(file, position[t] + 1,
                             position[t] + FrameLength(t))
        BY DEF Inv, SessionShape, SubscriberReads
    <2>6. ASSUME NEW n \in Nat, position[t] + n <= Len(file)
          PROVE  /\ SubSeq(file, position[t] + 1, position[t] + n)
                      \in Seq(Codes)
                 /\ Len(SubSeq(file, position[t] + 1, position[t] + n)) = n
        BY <2>3, <2>6, ReadsBytes
    <2>7. frame'[t] \in Seq(Codes) /\ Len(frame'[t]) = FrameLength(t)
        BY <2>4, <2>5, <2>6
    <2>. QED BY <2>2, <2>4, <2>7
<1>1. BoxShape'
    BY DEF Inv, BoxShape, SubscriberReads, box
<1>2. ThreadShape'
    BY BoxAssumption DEF Inv, ThreadShape, Threads, PCs, PublisherPCs,
       SubscriberPCs, SubscriberReads, Goto
<1>3. SessionShape'
    <2>1. position' \in [Subscribers -> Nat]
        <3>1. position[t] + FrameLength(t) \in Nat
            BY <1>0, BoxAssumption DEF Inv, SessionShape
        <3>2. position' = [position EXCEPT ![t] = @ + FrameLength(t)]
            BY DEF SubscriberReads, Advanced
        <3>. QED BY <3>1, <3>2 DEF Inv, SessionShape
    <2>2. frame' \in [Subscribers -> Seq(Codes)]
        <3>1. frame' = [frame EXCEPT ![t] = frame'[t]]
            BY DEF Inv, SessionShape, SubscriberReads
        <3>. QED BY <1>0, <3>1 DEF Inv, SessionShape
    <2>. QED BY <2>1, <2>2 DEF Inv, SessionShape, SubscriberReads
<1>4. MessageInv'
    BY BoxAssumption, Sizes DEF Inv, MessageInv, ThreadShape, Threads,
       SubscriberReads, Goto
<1>5. ReadInv'
    BY <1>0, BoxAssumption, Sizes DEF Inv, ReadInv, SessionShape,
       SubscriberReads, box, session, Advanced
<1>6. LockInv'
    BY BoxAssumption DEF Inv, LockInv, ThreadShape, Threads, SubscriberReads,
       Goto, box
<1>7. CountInv'
    BY BoxAssumption, Sizes DEF Inv, CountInv, BoxShape, ThreadShape, Threads,
       SubscriberReads, Goto, box, Advanced
<1>8. SessionInv'
    BY <1>0, BoxAssumption, Sizes DEF Inv, SessionInv, FreshInv, FirstInv,
       InFirstSession, SessionShape, ThreadShape, Threads, SubscriberReads,
       Goto, box, session, Advanced
<1>. QED BY <1>1, <1>2, <1>3, <1>4, <1>5, <1>6, <1>7, <1>8 DEF Inv

LEMMA KeepsSubscriberAtEnd ==
    ASSUME Inv, NEW t \in Subscribers, SubscriberAtEnd(t)
    PROVE  Inv'
<1>1. BoxShape' /\ SessionShape' /\ ReadInv'
    BY DEF Inv, BoxShape, SessionShape, ReadInv, SubscriberAtEnd, box, session
<1>2. ThreadShape'
    BY BoxAssumption DEF Inv, ThreadShape, Threads, PCs, PublisherPCs,
       SubscriberPCs, SubscriberAtEnd, Goto
<1>3. MessageInv'
    BY BoxAssumption DEF Inv, MessageInv, ThreadShape, Threads,
       SubscriberAtEnd, Goto
<1>4. LockInv'
    BY BoxAssumption DEF Inv, LockInv, ThreadShape, Threads, SubscriberAtEnd,
       Goto, box
<1>5. CountInv'
    BY BoxAssumption DEF Inv, CountInv, BoxShape, ThreadShape, Threads,
       SubscriberAtEnd, Goto, box
<1>6. SessionInv'
    BY BoxAssumption DEF Inv, SessionInv, FreshInv, FirstInv, InFirstSession,
       SessionShape, ThreadShape, Threads, SubscriberAtEnd, Goto, box, session
<1>. QED BY <1>1, <1>2, <1>3, <1>4, <1>5, <1>6 DEF Inv

LEMMA KeepsSubscriberSends ==
    ASSUME Inv, NEW t \in Subscribers, SubscriberSends(t)
    PROVE  Inv'
<1>1. BoxShape'
    BY DEF Inv, BoxShape, SubscriberSends, box
<1>2. ThreadShape'
    BY BoxAssumption DEF Inv, ThreadShape, Threads, PCs, PublisherPCs,
       SubscriberPCs, SubscriberSends, Goto
<1>3. SessionShape'
    BY Sizes DEF Inv, SessionShape, SubscriberSends, session, Sent
<1>4. MessageInv'
    BY BoxAssumption, Sizes DEF Inv, MessageInv, ThreadShape, Threads,
       SubscriberSends, Goto
<1>5. ReadInv'
    BY BoxAssumption, Sizes DEF Inv, ReadInv, SessionShape, SubscriberSends,
       box, session, Sent
<1>6. LockInv'
    BY BoxAssumption DEF Inv, LockInv, ThreadShape, Threads, SubscriberSends,
       Goto, box
<1>7. CountInv'
    BY BoxAssumption, Sizes DEF Inv, CountInv, BoxShape, ThreadShape, Threads,
       SubscriberSends, Goto, box
<1>8. SessionInv'
    BY BoxAssumption, Sizes DEF Inv, SessionInv, FreshInv, FirstInv,
       InFirstSession, SessionShape, ThreadShape, Threads, SubscriberSends,
       Goto, box, session, Sent
<1>. QED BY <1>1, <1>2, <1>3, <1>4, <1>5, <1>6, <1>7, <1>8 DEF Inv

LEMMA KeepsSubscriberPipeClosed ==
    ASSUME Inv, NEW t \in Subscribers, SubscriberPipeClosed(t)
    PROVE  Inv'
<1>1. BoxShape'
    BY DEF Inv, BoxShape, SubscriberPipeClosed, box
<1>2. ThreadShape'
    BY BoxAssumption DEF Inv, ThreadShape, Threads, PCs, PublisherPCs,
       SubscriberPCs, SubscriberPipeClosed, Goto
<1>3. SessionShape'
    BY DEF Inv, SessionShape, SubscriberPipeClosed, session
<1>4. MessageInv'
    BY BoxAssumption, Sizes DEF Inv, MessageInv, ThreadShape, Threads,
       SubscriberPipeClosed, Goto
<1>5. ReadInv'
    BY BoxAssumption, Sizes DEF Inv, ReadInv, SessionShape,
       SubscriberPipeClosed, box, session
<1>6. LockInv'
    BY BoxAssumption DEF Inv, LockInv, ThreadShape, Threads,
       SubscriberPipeClosed, Goto, box
<1>7. CountInv'
    BY BoxAssumption, Sizes DEF Inv, CountInv, BoxShape, ThreadShape, Threads,
       SubscriberPipeClosed, Goto, box
<1>8. SessionInv'
    BY BoxAssumption, Sizes DEF Inv, SessionInv, FreshInv, FirstInv,
       InFirstSession, SessionShape, ThreadShape, Threads,
       SubscriberPipeClosed, Goto, box, session
<1>. QED BY <1>1, <1>2, <1>3, <1>4, <1>5, <1>6, <1>7, <1>8 DEF Inv

-----------------------------------------------------------------------------
(* The theorems.                                                           *)

LEMMA InitInv ==
    Init => Inv
<1>. SUFFICES ASSUME Init PROVE Inv
    OBVIOUS
<1>1. BoxShape
    <2>1. file \in Seq(Codes) /\ Len(file) = 0
        BY EmptySeq DEF Init
    <2>2. 0 <= BoxSize /\ 1 \in 1 .. MaxOpenFiles
        BY BoxAssumption
    <2>. QED BY <2>1, <2>2 DEF Init, BoxShape
<1>2. ThreadShape
    BY DEF Init, ThreadShape, Threads, PCs, PublisherPCs, SubscriberPCs
<1>3. SessionShape
    BY BoxAssumption, EmptySeq DEF Init, SessionShape
<1>4. MessageInv
    BY EmptySeq DEF Init, MessageInv, Threads
<1>5. ReadInv /\ CountInv
    BY BoxAssumption DEF Init, ReadInv, CountInv, Threads
<1>6. LockInv
    BY DEF Init, LockInv, Threads
<1>7. SessionInv
    BY DEF Init, SessionInv, FreshInv, FirstInv, InFirstSession, Threads
<1>. QED BY <1>1, <1>2, <1>3, <1>4, <1>5, <1>6, <1>7 DEF Inv

LEMMA NextInv ==
    Inv /\ [Next]_vars => Inv'
<1>. SUFFICES ASSUME Inv, [Next]_vars PROVE Inv'
    OBVIOUS
<1>1. CASE PublisherWorks
    BY <1>1, KeepsPublisherLocks, KeepsWriteMessage, KeepsWriteToFullBox,
       KeepsPublisherOutOfHandles, KeepsCountMessage DEF PublisherWorks
<1>2. ASSUME NEW t \in Subscribers, SubscriberWorks(t) PROVE Inv'
    BY <1>2, KeepsUntilNowOpens, KeepsUntilNowOutOfHandles,
       KeepsUntilNowSends, KeepsUntilNowPipeClosed, KeepsUntilNowEnds,
       KeepsSubscriberSleeps, KeepsSubscriberFindsMore, KeepsSubscriberReads,
       KeepsSubscriberAtEnd, KeepsSubscriberSends, KeepsSubscriberPipeClosed
       DEF SubscriberWorks
<1>3. CASE ClientsAct
    BY <1>3, KeepsRegisterPublisher, KeepsPublisherLeaves, KeepsReceive,
       KeepsRegisterSubscriber, KeepsSubscriberLeaves, KeepsSpuriousWakeup
       DEF ClientsAct
<1>4. CASE UNCHANGED vars
    BY <1>4 DEF vars, box, session, Inv, BoxShape, ThreadShape, SessionShape,
                MessageInv, ReadInv, LockInv, CountInv, SessionInv, FreshInv,
                FirstInv, InFirstSession
<1>. QED BY <1>1, <1>2, <1>3, <1>4 DEF Next

LEMMA InvTypeOK ==
    Inv => TypeOK
<1>. SUFFICES ASSUME Inv PROVE TypeOK
    OBVIOUS
<1>1. /\ file \in Seq(0 .. MaxMessages) /\ Len(file) <= BoxSize
      /\ box_size \in Nat
      /\ lock \in Threads \cup {Nobody} /\ waiting \subseteq Subscribers
      /\ opened \in 1 .. MaxOpenFiles /\ exited \in BOOLEAN
    BY DEF Inv, BoxShape, Codes
<1>2. /\ pc \in [Threads -> PCs] /\ offset \in [Subscribers -> Nat]
      /\ sessions \in [Subscribers -> 0 .. MaxSessions]
      /\ gone \in [Subscribers -> BOOLEAN]
    BY DEF Inv, ThreadShape, SessionShape
<1>3. \A t \in Subscribers :
        position[t] \in 0 .. Len(file) /\ Len(frame[t]) <= FrameSize
    BY Sizes DEF Inv, SessionShape, ReadInv
<1>4. message \in Lengths \cup {0} /\ published \in Seq(Lengths)
    BY DEF Inv, MessageInv
<1>. QED BY <1>1, <1>2, <1>3, <1>4 DEF TypeOK

LEMMA InvSizeCounted ==
    Inv => SizeCounted
BY BoxAssumption DEF Inv, CountInv, SizeCounted, Free

LEMMA InvFirstSession ==
    Inv => FirstSessionInStep
<1>. SUFFICES ASSUME Inv, NEW t \in Subscribers, InFirstSession(t)
              PROVE  /\ pc[t] = "s_send" =>
                          offset[t] + Len(frame[t]) = position[t]
                     /\ pc[t] # "s_send" => offset[t] = position[t]
                     /\ Free => offset[t] <= box_size
                     /\ pc[t] = "s_read" => Left(t) > 0
    BY DEF FirstSessionInStep
<1>1. /\ pc[t] = "s_send" => offset[t] + Len(frame[t]) = position[t]
      /\ pc[t] # "s_send" => offset[t] = position[t]
      /\ pc[t] = "s_read" => position[t] < Len(file)
    BY DEF Inv, SessionInv, FirstInv
<1>2. /\ offset[t] \in Nat /\ position[t] \in Nat /\ position[t] <= Len(file)
      /\ Len(file) \in Nat /\ Len(frame[t]) \in Nat
    BY Sizes DEF Inv, SessionShape, ReadInv
<1>3. Free => box_size = Len(file)
    BY InvSizeCounted DEF SizeCounted
<1>. QED BY <1>1, <1>2, <1>3 DEF Left

\* The inductive invariant holds in every behaviour of the box.
THEOREM InvHolds == Spec => []Inv
<1>. QED BY InitInv, NextInv, PTL DEF Spec

\* handle_messages_from_publisher and the two loops of a subscriber never
\* write beyond the block of the file, read beyond its end, or send more
\* than a frame, whatever the sizes of the messages.
THEOREM TypeCorrect == Spec => []TypeOK
<1>. QED BY InvHolds, InvTypeOK, PTL

\* Whenever box->lock is free, box_size is what the file holds: the write
\* and the count of a message are one step to everyone who takes the lock,
\* and a publisher that fails between the two never gives the lock back.
THEOREM FreeBoxIsCounted == Spec => []SizeCounted
<1>. QED BY InvHolds, InvSizeCounted, PTL

\* In the first session of a thread client->offset and the handle of
\* TecnicoFS stay in step, although handle_messages_to_subscriber reads and
\* counts outside box->lock, and a read that follows the wait finds bytes.
THEOREM FirstSessionReadsInStep == Spec => []FirstSessionInStep
<1>. QED BY InvHolds, InvFirstSession, PTL

-----------------------------------------------------------------------------
(* The texts.  What a client is shown comes in order because the messages  *)
(* do in the file, and because between two reads there is always the '\0'  *)
(* of a message: a frame that ends inside a text has reached the end of a  *)
(* full box, to which nothing is added.                                    *)

\* A '\0' separates the texts of a file, and the later ones are of later
\* messages.
Ordered(f) ==
    \A i, j, k \in 1 .. Len(f) :
        i < k /\ k < j /\ f[i] # NUL /\ f[k] = NUL /\ f[j] # NUL => f[i] < f[j]

\* No text is as long as a frame.
EveryFrameEnds(f) ==
    \A i \in 1 .. Len(f) : i + FrameSize <= Len(f) + 1 =>
        \E k \in 1 .. Len(f) : i <= k /\ k < i + FrameSize /\ f[k] = NUL

\* The texts in s are of messages in a file f, in order, and every text of f
\* after its first n bytes is of a later message.
InOrderUpTo(s, n, f) ==
    \A k \in 1 .. Len(s) : s[k] # <<>> =>
        /\ \E i \in 1 .. Len(f) : s[k][1] = f[i]
        /\ \A i \in n + 1 .. Len(f) : f[i] # NUL => s[k][1] < f[i]
        /\ \A m \in 1 .. k - 1 : s[m] # <<>> => s[m][1] < s[k][1]

\* Nobody has left a part of a message at the end of the file.
Whole == lock # Publisher \/ pc[Publisher] \in {"p_write", "p_count"}

\* The number of the last message that was written.
Written == Len(published) + IF pc[Publisher] = "p_count" THEN 1 ELSE 0

\* What a publisher can append to ends with a '\0', and is of earlier
\* messages.
FileInv ==
    /\ Ordered(file) /\ EveryFrameEnds(file)
    /\ Whole => /\ file = <<>> \/ file[Len(file)] = NUL
                /\ \A i \in 1 .. Len(file) : file[i] <= Written

\* Where the bytes that were sent end.
SentTo(t) == position[t] - Len(frame[t])

\* What was read and not sent is the end of what the handle has passed.
FrameInv(t) ==
    /\ pc[t] = "s_send" <=> frame[t] # <<>>
    /\ SentTo(t) \in Nat
    /\ \A i \in 1 .. Len(frame[t]) : frame[t][i] = file[SentTo(t) + i]
    /\ \/ frame[t] = <<>> \/ position[t] = Len(file)
       \/ \E i \in 1 .. Len(frame[t]) : frame[t][i] = NUL

\* The texts that were shown come before whatever was not sent.
ShownInv(t) ==
    /\ shown[t] \in Seq(Seq(Codes))
    /\ pc[t] = "u_lock" => shown[t] = <<>>
    /\ InOrderUpTo(shown[t], SentTo(t), file)

\* A thread that is blocked on box->cond is in the wait loop.
SleepInv == \A t \in waiting : pc[t] = "s_wait" /\ ~MoreToRead(t)

TextInv ==
    /\ FileInv /\ SleepInv
    /\ DOMAIN shown = Subscribers
    /\ \A t \in Subscribers : FrameInv(t) /\ ShownInv(t)

-----------------------------------------------------------------------------
(* Lemmas about the texts in a buffer.  They need an induction on numbers: *)
(* a set of them that is not empty has a least element.                    *)

LEMMA LeastNat ==
    ASSUME NEW T \in SUBSET Nat, T # {}
    PROVE  \E x \in T : \A y \in T : x <= y
<1>. DEFINE R == OpToRel(<, Nat)
<1>1. \A x, y \in Nat : x < y <=> <<x, y>> \in R
    BY DEF OpToRel
<1>2. IsWellFoundedOn(R, Nat)
    BY NatLessThanWellFounded
<1>. HIDE DEF R
<1>3. PICK x \in T : \A y \in T : ~ (<<y, x>> \in R)
    BY <1>2, WFMin
<1>4. ASSUME NEW y \in T PROVE x <= y
    <2>1. x \in Nat /\ y \in Nat
        OBVIOUS
    <2>2. ~ (y < x)
        BY <1>1, <1>3, <2>1
    <2>. QED BY <2>1, <2>2
<1>. QED BY <1>3, <1>4

\* A text ends before the first '\0' or at the end of the buffer.
LEMMA TextAtIs ==
    ASSUME NEW b \in Seq(Codes), NEW i \in 1 .. Len(b)
    PROVE  /\ TextAt(b, i) \in Seq(Codes)
           /\ TextAt(b, i) # <<>> => b[i] # NUL /\ TextAt(b, i)[1] = b[i]
<1>. DEFINE IsEnd(j) == /\ j = Len(b) + 1 \/ b[j] = NUL
                        /\ \A k \in i .. j - 1 : b[k] # NUL
            T == {j \in i .. Len(b) + 1 : j = Len(b) + 1 \/ b[j] = NUL}
            end == CHOOSE j \in i .. Len(b) + 1 : IsEnd(j)
<1>1. Len(b) \in Nat
    BY LenProperties
<1>2. PICK j \in T : \A k \in T : j <= k
    <2>1. Len(b) + 1 \in T /\ T \in SUBSET Nat
        BY <1>1
    <2>. HIDE DEF T
    <2>. QED BY <2>1, LeastNat
<1>3. j \in i .. Len(b) + 1 /\ IsEnd(j)
    BY <1>1, <1>2
<1>4. end \in i .. Len(b) + 1 /\ IsEnd(end)
    BY <1>3
<1>5. TextAt(b, i) = SubSeq(b, i, end - 1)
    BY DEF TextAt
<1>. HIDE DEF end
<1>6. \A k \in i .. end - 1 : b[k] \in Codes
    BY <1>1, <1>4, ElementOfSeq
<1>7. /\ SubSeq(b, i, end - 1) \in Seq(Codes)
      /\ \A k \in 1 .. end - 1 - i + 1 : SubSeq(b, i, end - 1)[k] = b[i + k - 1]
    BY <1>1, <1>4, <1>6, SubSeqProperties
<1>8. CASE b[i] = NUL
    <2>1. end = i
        BY <1>1, <1>4, <1>8
    <2>2. SubSeq(b, i, end - 1) = <<>>
        BY <2>1, SubSeqEmpty
    <2>. QED BY <1>5, <1>7, <2>2
<1>9. CASE b[i] # NUL
    <2>1. end # i
        BY <1>1, <1>4, <1>9
    <2>2. 1 \in 1 .. end - 1 - i + 1 /\ i + 1 - 1 = i
        BY <1>1, <1>4, <2>1
    <2>. QED BY <1>5, <1>7, <1>9, <2>2
<1>. QED BY <1>8, <1>9

\* Every finite set of numbers can be put in order.
Orderable(S) == \E f \in [1 .. Cardinality(S) -> S] :
                    \A a, b \in DOMAIN f : a < b => f[a] < f[b]

\* The greatest number comes last.
LEMMA GreatestComesLast ==
    ASSUME NEW n \in Nat, NEW S \in SUBSET (1 .. n), n \in S,
           Orderable(S \ {n})
    PROVE  Orderable(S)
<1>. DEFINE c == Cardinality(S \ {n})
<1>1. c \in Nat /\ Cardinality(S) = c + 1
    <2>1. IsFiniteSet(S)
        <3>1. IsFiniteSet(1 .. n)
            BY FS_Interval
        <3>. QED BY <3>1, FS_Subset
    <2>2. IsFiniteSet(S \ {n}) /\ c = Cardinality(S) - 1
        BY <2>1, FS_RemoveElement
    <2>3. c \in Nat /\ Cardinality(S) \in Nat
        BY <2>1, <2>2, FS_CardinalityType
    <2>. HIDE DEF c
    <2>. QED BY <2>2, <2>3
<1>2. \E f \in [1 .. c -> S \ {n}] : \A a, b \in 1 .. c : a < b => f[a] < f[b]
    BY DEF Orderable
<1>. HIDE DEF c
<1>3. PICK f \in [1 .. c -> S \ {n}] :
        \A a, b \in 1 .. c : a < b => f[a] < f[b]
    BY <1>2
<1>. DEFINE g == [a \in 1 .. c + 1 |-> IF a = c + 1 THEN n ELSE f[a]]
<1>4. \A a \in 1 .. c + 1 : a # c + 1 => a \in 1 .. c
    BY <1>1
<1>5. g \in [1 .. Cardinality(S) -> S] /\ DOMAIN g = 1 .. c + 1
    BY <1>1, <1>3, <1>4
<1>6. ASSUME NEW a \in 1 .. c + 1, NEW b \in 1 .. c + 1, a < b
      PROVE  g[a] < g[b]
    <2>1. a \in 1 .. c /\ a # c + 1
        BY <1>1, <1>6
    <2>2. CASE b = c + 1
        <3>1. f[a] \in 1 .. n /\ f[a] # n
            BY <1>3, <2>1
        <3>2. f[a] < n
            BY <3>1
        <3>. QED BY <2>1, <2>2, <3>2
    <2>3. CASE b # c + 1
        <3>1. b \in 1 .. c
            BY <1>4, <2>3
        <3>. QED BY <1>3, <1>6, <2>1, <2>3, <3>1
    <2>. QED BY <2>2, <2>3
<1>. HIDE DEF g
<1>. QED BY <1>5, <1>6 DEF Orderable

LEMMA OrderExists ==
    ASSUME NEW m \in Nat, NEW S0 \in SUBSET (1 .. m)
    PROVE  Orderable(S0)
<1>. DEFINE T == {n \in Nat : \E S \in SUBSET (1 .. n) : ~Orderable(S)}
<1>1. SUFFICES ASSUME T # {} PROVE FALSE
    OBVIOUS
<1>2. PICK n \in T : \A k \in T : n <= k
    <2>1. T \in SUBSET Nat
        OBVIOUS
    <2>. HIDE DEF T
    <2>. QED BY <1>1, <2>1, LeastNat
<1>3. n \in Nat
    OBVIOUS
<1>4. PICK S \in SUBSET (1 .. n) : ~Orderable(S)
    BY <1>2
<1>5. ASSUME n # 0, NEW U \in SUBSET (1 .. n - 1) PROVE Orderable(U)
    <2>1. n - 1 \in Nat
        BY <1>3, <1>5
    <2>2. n - 1 \notin T
        <3>. HIDE DEF T
        <3>. QED BY <1>2, <1>3, <2>1
    <2>. QED BY <2>1, <2>2
<1>6. CASE n = 0
    <2>1. S = {} /\ Cardinality(S) = 0
        <3>1. S = {}
            BY <1>6
        <3>. QED BY <3>1, FS_EmptySet
    <2>2. [x \in {} |-> x] \in [1 .. Cardinality(S) -> S]
        BY <2>1
    <2>. QED BY <1>4, <2>1, <2>2 DEF Orderable
<1>7. CASE n # 0 /\ n \notin S
    <2>1. S \in SUBSET (1 .. n - 1)
        BY <1>3, <1>7
    <2>. QED BY <1>4, <1>5, <1>7, <2>1
<1>8. CASE n # 0 /\ n \in S
    <2>1. S \ {n} \in SUBSET (1 .. n - 1)
        BY <1>3, <1>8
    <2>. HIDE DEF T
    <2>. QED BY <1>3, <1>4, <1>5, <1>8, <2>1, GreatestComesLast
<1>. QED BY <1>6, <1>7, <1>8

\* The texts that strcpy finds begin with bytes of the buffer, and a '\0'
\* stands between any two of them.
LEMMA StringsAre ==
    ASSUME NEW b \in Seq(Codes)
    PROVE  /\ Strings(b) \in Seq(Seq(Codes))
           /\ \A n \in 1 .. Len(Strings(b)) : Strings(b)[n] # <<>> =>
                \E j \in 1 .. Len(b) :
                   /\ b[j] # NUL /\ Strings(b)[n][1] = b[j]
                   /\ \A m \in 1 .. n - 1 : Strings(b)[m] # <<>> =>
                        \E i, k \in 1 .. Len(b) :
                           /\ i < k /\ k < j /\ b[i] # NUL /\ b[k] = NUL
                           /\ Strings(b)[m][1] = b[i]
<1>1. Len(b) \in Nat /\ DOMAIN b = 1 .. Len(b)
    BY LenProperties
<1>2. Starts(b) \in SUBSET (1 .. Len(b))
    BY <1>1 DEF Starts
<1>. DEFINE c == Cardinality(Starts(b))
<1>3. /\ c \in Nat /\ InOrder(Starts(b)) \in [1 .. c -> Starts(b)]
      /\ \A m, n \in DOMAIN InOrder(Starts(b)) :
           m < n => InOrder(Starts(b))[m] < InOrder(Starts(b))[n]
    <2>1. c \in Nat
        <3>1. IsFiniteSet(1 .. Len(b))
            BY <1>1, FS_Interval
        <3>2. IsFiniteSet(Starts(b))
            BY <1>2, <3>1, FS_Subset
        <3>. QED BY <3>2, FS_CardinalityType
    <2>2. \E f \in [1 .. c -> Starts(b)] :
             \A m, n \in DOMAIN f : m < n => f[m] < f[n]
        BY <1>1, <1>2, OrderExists DEF Orderable
    <2>3. InOrder(Starts(b)) =
            CHOOSE f \in [1 .. c -> Starts(b)] :
               \A m, n \in DOMAIN f : m < n => f[m] < f[n]
        BY DEF InOrder
    <2>. HIDE DEF c
    <2>. QED BY <2>1, <2>2, <2>3
<1>. HIDE DEF c
<1>. DEFINE f == InOrder(Starts(b))
<1>4. /\ c \in Nat /\ f \in [1 .. c -> Starts(b)]
      /\ \A m, n \in 1 .. c : m < n => f[m] < f[n]
    BY <1>3
<1>5. Strings(b) = [n \in DOMAIN f |-> TextAt(b, f[n])]
    BY DEF Strings
<1>. HIDE DEF f
<1>6. Strings(b) = [n \in 1 .. c |-> TextAt(b, f[n])]
    BY <1>4, <1>5
<1>7. \A n \in 1 .. c : f[n] \in 1 .. Len(b) /\ f[n] \in Starts(b)
    BY <1>2, <1>4
<1>8. ASSUME NEW n \in 1 .. c
      PROVE  /\ Strings(b)[n] \in Seq(Codes)
             /\ Strings(b)[n] # <<>> =>
                  b[f[n]] # NUL /\ Strings(b)[n][1] = b[f[n]]
    <2>1. Strings(b)[n] = TextAt(b, f[n])
        BY <1>6
    <2>2. f[n] \in 1 .. Len(b)
        BY <1>7
    <2>. QED BY <2>1, <2>2, TextAtIs
<1>9. Strings(b) \in Seq(Seq(Codes)) /\ Len(Strings(b)) = c
    <2>1. Strings(b) \in [1 .. c -> Seq(Codes)]
        BY <1>6, <1>8
    <2>2. Strings(b) \in Seq(Seq(Codes))
        BY <1>4, <2>1, SeqDef
    <2>3. Len(Strings(b)) \in Nat /\ DOMAIN Strings(b) = 1 .. Len(Strings(b))
        BY <2>2, LenProperties
    <2>. QED BY <1>4, <2>1, <2>2, <2>3
<1>10. ASSUME NEW n \in 1 .. c, Strings(b)[n] # <<>>,
             NEW m \in 1 .. n - 1, Strings(b)[m] # <<>>
      PROVE  /\ f[n] - 1 \in 1 .. Len(b) /\ f[m] \in 1 .. Len(b)
             /\ f[m] < f[n] - 1 /\ b[f[m]] # NUL /\ b[f[n] - 1] = NUL
             /\ Strings(b)[m][1] = b[f[m]]
    <2>1. m \in 1 .. c /\ m < n
        BY <1>4
    <2>2. /\ f[m] < f[n] /\ f[m] \in 1 .. Len(b) /\ f[n] \in 1 .. Len(b)
          /\ f[n] \in Starts(b)
        BY <1>4, <1>7, <2>1
    <2>3. b[f[n] - 1] = NUL
        BY <2>2 DEF Starts
    <2>4. b[f[m]] # NUL /\ Strings(b)[m][1] = b[f[m]]
        BY <1>8, <1>10, <2>1
    <2>5. f[m] # f[n] - 1
        BY <2>3, <2>4
    <2>. QED BY <1>1, <2>2, <2>3, <2>4, <2>5
<1>11. ASSUME NEW n \in 1 .. c, Strings(b)[n] # <<>>
      PROVE  \E j \in 1 .. Len(b) :
                /\ b[j] # NUL /\ Strings(b)[n][1] = b[j]
                /\ \A m \in 1 .. n - 1 : Strings(b)[m] # <<>> =>
                     \E i, k \in 1 .. Len(b) :
                        /\ i < k /\ k < j /\ b[i] # NUL /\ b[k] = NUL
                        /\ Strings(b)[m][1] = b[i]
    <2>1. f[n] \in 1 .. Len(b) /\ b[f[n]] # NUL /\ Strings(b)[n][1] = b[f[n]]
        BY <1>7, <1>8, <1>11
    <2>2. ASSUME NEW m \in 1 .. n - 1, Strings(b)[m] # <<>>
          PROVE  \E i, k \in 1 .. Len(b) :
                    /\ i < k /\ k < f[n] /\ b[i] # NUL /\ b[k] = NUL
                    /\ Strings(b)[m][1] = b[i]
        <3>1. f[n] - 1 < f[n]
            BY <2>1
        <3>. QED BY <1>10, <1>11, <2>2, <3>1
    <2>. QED BY <2>1, <2>2
<1>. QED BY <1>9, <1>11

-----------------------------------------------------------------------------
(* What a client has been shown, as far as a point of the file.            *)

\* What was sent of the file is not to be shown again, whatever is appended.
LEMMA ShownStays ==
    ASSUME NEW s, NEW f \in Seq(Codes), NEW n \in Nat, NEW n2 \in Nat,
           n <= n2, InOrderUpTo(s, n, f)
    PROVE  InOrderUpTo(s, n2, f)
<1>1. \A i \in n2 + 1 .. Len(f) : i \in n + 1 .. Len(f)
    BY LenProperties
<1>. QED BY <1>1 DEF InOrderUpTo

\* Texts that are appended to what was shown.
LEMMA ShowsMore ==
    ASSUME NEW f \in Seq(Codes), NEW n \in Nat, NEW n2 \in Nat, n <= n2,
           NEW s \in Seq(Seq(Codes)), NEW u \in Seq(Seq(Codes)),
           InOrderUpTo(s, n, f), InOrderUpTo(u, n2, f),
           \A k \in 1 .. Len(u) : u[k] # <<>> =>
              \E i \in n + 1 .. Len(f) : f[i] # NUL /\ u[k][1] = f[i]
    PROVE  InOrderUpTo(s \o u, n2, f) /\ s \o u \in Seq(Seq(Codes))
<1>. DEFINE w == s \o u
<1>1. /\ w \in Seq(Seq(Codes)) /\ Len(w) = Len(s) + Len(u)
      /\ \A k \in 1 .. Len(s) + Len(u) :
           w[k] = IF k <= Len(s) THEN s[k] ELSE u[k - Len(s)]
    BY ConcatProperties
<1>2. Len(s) \in Nat /\ Len(u) \in Nat /\ Len(f) \in Nat
    BY LenProperties
<1>. HIDE DEF w
<1>3. InOrderUpTo(s, n2, f)
    BY ShownStays
<1>4. ASSUME NEW k \in 1 .. Len(s), s[k] # <<>>
      PROVE  /\ \E i \in 1 .. Len(f) : s[k][1] = f[i]
             /\ \A i \in n2 + 1 .. Len(f) : f[i] # NUL => s[k][1] < f[i]
             /\ \A m \in 1 .. k - 1 : w[m] # <<>> => w[m][1] < s[k][1]
    <2>1. \A m \in 1 .. k - 1 : w[m] = s[m]
        BY <1>1, <1>2
    <2>. QED BY <1>3, <1>4, <2>1 DEF InOrderUpTo
<1>5. ASSUME NEW k \in 1 .. Len(u), u[k] # <<>>
      PROVE  /\ \E i \in 1 .. Len(f) : u[k][1] = f[i]
             /\ \A i \in n2 + 1 .. Len(f) : f[i] # NUL => u[k][1] < f[i]
             /\ \A m \in 1 .. Len(s) + k - 1 :
                  w[m] # <<>> => w[m][1] < u[k][1]
    <2>1. ASSUME NEW m \in 1 .. Len(s) + k - 1, m <= Len(s), w[m] # <<>>
          PROVE  w[m][1] < u[k][1]
        <3>1. m \in 1 .. Len(s)
            BY <1>2, <2>1
        <3>2. m \in 1 .. Len(s) + Len(u) /\ m <= Len(s)
            BY <1>2, <3>1
        <3>3. w[m] = s[m]
            BY <1>1, <3>2
        <3>4. PICK i \in n + 1 .. Len(f) : f[i] # NUL /\ u[k][1] = f[i]
            BY <1>5
        <3>. QED BY <2>1, <3>1, <3>3, <3>4 DEF InOrderUpTo
    <2>2. ASSUME NEW m \in 1 .. Len(s) + k - 1, m > Len(s), w[m] # <<>>
          PROVE  w[m][1] < u[k][1]
        <3>1. m - Len(s) \in 1 .. k - 1 /\ m \in 1 .. Len(s) + Len(u)
            BY <1>2, <2>2
        <3>2. w[m] = u[m - Len(s)]
            BY <1>1, <1>2, <2>2, <3>1
        <3>. QED BY <1>5, <2>2, <3>1, <3>2 DEF InOrderUpTo
    <2>3. \A m \in 1 .. Len(s) + k - 1 : m <= Len(s) \/ m > Len(s)
        BY <1>2
    <2>4. /\ \E i \in 1 .. Len(f) : u[k][1] = f[i]
          /\ \A i \in n2 + 1 .. Len(f) : f[i] # NUL => u[k][1] < f[i]
        BY <1>5 DEF InOrderUpTo
    <2>. QED BY <2>1, <2>2, <2>3, <2>4
<1>6. ASSUME NEW k \in 1 .. Len(w), w[k] # <<>>
      PROVE  /\ \E i \in 1 .. Len(f) : w[k][1] = f[i]
             /\ \A i \in n2 + 1 .. Len(f) : f[i] # NUL => w[k][1] < f[i]
             /\ \A m \in 1 .. k - 1 : w[m] # <<>> => w[m][1] < w[k][1]
    <2>1. CASE k <= Len(s)
        <3>1. k \in 1 .. Len(s) /\ w[k] = s[k]
            BY <1>1, <1>2, <2>1
        <3>. QED BY <1>4, <1>6, <3>1
    <2>2. CASE k > Len(s)
        <3>1. PICK h \in 1 .. Len(u) : k = Len(s) + h /\ w[k] = u[h]
            <4>1. k - Len(s) \in 1 .. Len(u) /\ k = Len(s) + (k - Len(s))
                  /\ w[k] = u[k - Len(s)]
                BY <1>1, <1>2, <2>2
            <4>. QED BY <4>1
        <3>2. k - 1 = Len(s) + h - 1
            BY <1>2, <3>1
        <3>3. \A m \in 1 .. k - 1 : m \in 1 .. Len(s) + h - 1
            BY <1>2, <3>1
        <3>. QED BY <1>5, <1>6, <3>1, <3>3
    <2>3. k <= Len(s) \/ k > Len(s)
        BY <1>2
    <2>. QED BY <2>1, <2>2, <2>3
<1>7. InOrderUpTo(w, n2, f)
    BY <1>6 DEF InOrderUpTo
<1>. QED BY <1>1, <1>7 DEF w

\* A file that grows: what was shown was of smaller numbers than the new.
LEMMA ShownOfPrefix ==
    ASSUME NEW f \in Seq(Codes), NEW g \in Seq(Codes), NEW n \in Nat,
           NEW s, InOrderUpTo(s, n, f),
           \A i \in 1 .. Len(g) : i > Len(f) /\ g[i] # NUL =>
              \A k \in 1 .. Len(f) : f[k] < g[i],
           Len(f) <= Len(g), \A i \in 1 .. Len(f) : g[i] = f[i]
    PROVE  InOrderUpTo(s, n, g)
<1>1. Len(f) \in Nat /\ Len(g) \in Nat
    BY LenProperties
<1>2. ASSUME NEW k \in 1 .. Len(s), s[k] # <<>>
      PROVE  /\ \E i \in 1 .. Len(g) : s[k][1] = g[i]
             /\ \A i \in n + 1 .. Len(g) : g[i] # NUL => s[k][1] < g[i]
             /\ \A m \in 1 .. k - 1 : s[m] # <<>> => s[m][1] < s[k][1]
    <2>1. PICK i \in 1 .. Len(f) : s[k][1] = f[i]
        BY <1>2 DEF InOrderUpTo
    <2>2. i \in 1 .. Len(g) /\ s[k][1] = g[i]
        BY <1>1, <2>1
    <2>3. ASSUME NEW j \in n + 1 .. Len(g), g[j] # NUL PROVE s[k][1] < g[j]
        <3>1. CASE j <= Len(f)
            <4>1. j \in n + 1 .. Len(f) /\ j \in 1 .. Len(f) /\ f[j] = g[j]
                BY <1>1, <3>1
            <4>. QED BY <1>2, <2>3, <4>1 DEF InOrderUpTo
        <3>2. CASE j > Len(f)
            <4>1. j \in 1 .. Len(g)
                BY <1>1
            <4>. QED BY <2>1, <2>3, <3>2, <4>1
        <3>. QED BY <1>1, <3>1, <3>2
    <2>4. \A m \in 1 .. k - 1 : s[m] # <<>> => s[m][1] < s[k][1]
        BY <1>2 DEF InOrderUpTo
    <2>. QED BY <2>2, <2>3, <2>4
<1>. QED BY <1>2 DEF InOrderUpTo

\* The texts in the rest of a file, as handle_messages_until_now sends them.
LEMMA RestShows ==
    ASSUME NEW f \in Seq(Codes), NEW n \in Nat, n < Len(f), Ordered(f)
    PROVE  LET u == Strings(SubSeq(f, n + 1, Len(f)))
           IN  /\ u \in Seq(Seq(Codes)) /\ InOrderUpTo(u, Len(f), f)
               /\ \A k \in 1 .. Len(u) : u[k] # <<>> =>
                    \E i \in n + 1 .. Len(f) : f[i] # NUL /\ u[k][1] = f[i]
<1>. DEFINE b == SubSeq(f, n + 1, Len(f))
            u == Strings(b)
<1>1. Len(f) \in Nat
    BY LenProperties
<1>2. b \in Seq(Codes) /\ Len(b) = Len(f) - n
    <2>1. PICK r \in Nat : n + r = Len(f) /\ r = Len(f) - n
        <3>1. Len(f) - n \in Nat
            BY <1>1
        <3>. QED BY <1>1, <3>1
    <2>2. n + r <= Len(f)
        BY <1>1, <2>1
    <2>3. /\ SubSeq(f, n + 1, n + r) \in Seq(Codes)
          /\ Len(SubSeq(f, n + 1, n + r)) = r
        BY <2>2, ReadsBytes
    <2>. QED BY <2>1, <2>3
<1>3. ASSUME NEW j \in 1 .. Len(b)
      PROVE  n + j \in n + 1 .. Len(f) /\ n + j \in 1 .. Len(f)
             /\ b[j] = f[n + j]
    <2>1. n + j \in n + 1 .. Len(f) /\ n + j \in 1 .. Len(f)
        BY <1>1, <1>2
    <2>2. \A i \in n + 1 .. Len(f) : f[i] \in Codes
        BY <1>1, ElementOfSeq
    <2>3. \A i \in 1 .. Len(f) - (n + 1) + 1 : b[i] = f[n + 1 + i - 1]
        BY <1>1, <2>2, SubSeqProperties
    <2>4. j \in 1 .. Len(f) - (n + 1) + 1 /\ n + 1 + j - 1 = n + j
        BY <1>1, <1>2
    <2>. QED BY <2>1, <2>3, <2>4
<1>. HIDE DEF b
<1>4. /\ u \in Seq(Seq(Codes))
      /\ \A k \in 1 .. Len(u) : u[k] # <<>> =>
           \E j \in 1 .. Len(b) :
              /\ b[j] # NUL /\ u[k][1] = b[j]
              /\ \A m \in 1 .. k - 1 : u[m] # <<>> =>
                   \E i, h \in 1 .. Len(b) :
                      /\ i < h /\ h < j /\ b[i] # NUL /\ b[h] = NUL
                      /\ u[m][1] = b[i]
    BY <1>2, StringsAre
<1>. HIDE DEF u
<1>5. ASSUME NEW k \in 1 .. Len(u), u[k] # <<>>
      PROVE  /\ \E i \in n + 1 .. Len(f) : f[i] # NUL /\ u[k][1] = f[i]
             /\ \A m \in 1 .. k - 1 : u[m] # <<>> => u[m][1] < u[k][1]
    <2>1. PICK j \in 1 .. Len(b) :
            /\ b[j] # NUL /\ u[k][1] = b[j]
            /\ \A m \in 1 .. k - 1 : u[m] # <<>> =>
                 \E i, h \in 1 .. Len(b) :
                    /\ i < h /\ h < j /\ b[i] # NUL /\ b[h] = NUL
                    /\ u[m][1] = b[i]
        BY <1>4, <1>5
    <2>2. n + j \in n + 1 .. Len(f) /\ f[n + j] # NUL /\ u[k][1] = f[n + j]
        BY <1>3, <2>1
    <2>3. ASSUME NEW m \in 1 .. k - 1, u[m] # <<>> PROVE u[m][1] < u[k][1]
        <3>1. PICK i \in 1 .. Len(b), h \in 1 .. Len(b) :
                /\ i < h /\ h < j /\ b[i] # NUL /\ b[h] = NUL
                /\ u[m][1] = b[i]
            BY <2>1, <2>3
        <3>2. /\ n + i \in 1 .. Len(f) /\ n + h \in 1 .. Len(f)
              /\ n + j \in 1 .. Len(f) /\ n + i < n + h /\ n + h < n + j
            BY <1>3, <3>1
        <3>3. f[n + i] < f[n + j]
            BY <1>3, <2>1, <3>1, <3>2 DEF Ordered
        <3>. QED BY <1>3, <2>1, <3>1, <3>3
    <2>. QED BY <2>2, <2>3
<1>6. InOrderUpTo(u, Len(f), f)
    <2>1. \A i \in n + 1 .. Len(f) : i \in 1 .. Len(f)
        BY <1>1
    <2>2. Len(f) + 1 .. Len(f) = {}
        BY <1>1
    <2>. QED BY <1>5, <2>1, <2>2 DEF InOrderUpTo
<1>. QED BY <1>4, <1>5, <1>6 DEF u, b

\* The text of a frame that ends with its text or with the file.
LEMMA FrameShows ==
    ASSUME NEW f \in Seq(Codes), NEW n \in Nat,
           NEW fr \in Seq(Codes), fr # <<>>, n + Len(fr) <= Len(f),
           \A i \in 1 .. Len(fr) : fr[i] = f[n + i],
           \/ n + Len(fr) = Len(f) \/ \E i \in 1 .. Len(fr) : fr[i] = NUL,
           Ordered(f)
    PROVE  /\ Printed(fr) \in Seq(Codes)
           /\ InOrderUpTo(<<Printed(fr)>>, n + Len(fr), f)
           /\ Printed(fr) # <<>> =>
                \E i \in n + 1 .. Len(f) : f[i] # NUL /\ Printed(fr)[1] = f[i]
<1>1. Len(f) \in Nat /\ Len(fr) \in Nat /\ Len(fr) # 0
    BY LenProperties, EmptySeq
<1>2. 1 \in 1 .. Len(fr)
    BY <1>1
<1>3. /\ Printed(fr) \in Seq(Codes)
      /\ Printed(fr) # <<>> => fr[1] # NUL /\ Printed(fr)[1] = fr[1]
    BY <1>2, TextAtIs DEF Printed
<1>. DEFINE p == Printed(fr)
<1>. HIDE DEF p
<1>4. p # <<>> => p[1] = f[n + 1] /\ f[n + 1] # NUL
    BY <1>2, <1>3 DEF p
<1>5. n + 1 \in 1 .. Len(f) /\ n + 1 \in n + 1 .. Len(f)
    BY <1>1
<1>6. ASSUME p # <<>>, NEW j \in n + Len(fr) + 1 .. Len(f), f[j] # NUL
      PROVE  p[1] < f[j]
    <2>1. PICK k \in 1 .. Len(fr) : fr[k] = NUL
        <3>1. n + Len(fr) # Len(f)
            BY <1>1
        <3>. QED BY <3>1
    <2>2. f[n + k] = NUL
        BY <2>1
    <2>3. k # 1
        BY <1>4, <1>6, <2>2
    <2>4. /\ n + k \in 1 .. Len(f) /\ j \in 1 .. Len(f)
          /\ n + 1 < n + k /\ n + k < j
        BY <1>1, <2>1, <2>3
    <2>5. f[n + 1] < f[j]
        BY <1>4, <1>5, <1>6, <2>2, <2>4 DEF Ordered
    <2>. QED BY <1>4, <1>6, <2>5
<1>7. InOrderUpTo(<<p>>, n + Len(fr), f)
    <2>1. Len(<<p>>) = 1 /\ <<p>>[1] = p
        OBVIOUS
    <2>2. 1 .. 1 = {1} /\ 1 .. 1 - 1 = {}
        OBVIOUS
    <2>3. p # <<>> => \E i \in 1 .. Len(f) : p[1] = f[i]
        BY <1>4, <1>5
    <2>. QED BY <1>6, <2>1, <2>2, <2>3 DEF InOrderUpTo
<1>. QED BY <1>3, <1>4, <1>5, <1>7 DEF p

\* What a publisher appends to a file of whole messages.
Appends(f, g, number) ==
    /\ Len(f) <= Len(g) /\ \A i \in 1 .. Len(f) : g[i] = f[i]
    /\ f = <<>> \/ f[Len(f)] = NUL
    /\ \A i \in 1 .. Len(f) : f[i] < number
    /\ \A i \in 1 .. Len(g) :
         i > Len(f) => g[i] = number \/ (g[i] = NUL /\ i = Len(g))
    /\ \/ Len(g) < Len(f) + FrameSize
       \/ Len(g) <= Len(f) + FrameSize /\ g[Len(g)] = NUL

\* Appending a message, or the part of one that fits, keeps a file in order.
LEMMA AppendsInOrder ==
    ASSUME NEW f \in Seq(Codes), NEW g \in Seq(Codes), NEW number \in Nat,
           Appends(f, g, number), Ordered(f), EveryFrameEnds(f)
    PROVE  Ordered(g) /\ EveryFrameEnds(g)
<1>1. Len(f) \in Nat /\ Len(g) \in Nat /\ Len(f) <= Len(g)
    BY LenProperties DEF Appends
<1>2. \A i \in 1 .. Len(f) : i \in 1 .. Len(g) /\ g[i] = f[i]
    BY <1>1 DEF Appends
<1>3. \A i \in 1 .. Len(g) : i <= Len(f) => i \in 1 .. Len(f)
    BY <1>1
<1>4. ASSUME NEW i \in 1 .. Len(g), NEW j \in 1 .. Len(g),
             NEW k \in 1 .. Len(g),
             i < k, k < j, g[i] # NUL, g[k] = NUL, g[j] # NUL
      PROVE  g[i] < g[j]
    <2>1. CASE j <= Len(f)
        <3>1. i \in 1 .. Len(f) /\ j \in 1 .. Len(f) /\ k \in 1 .. Len(f)
            BY <1>1, <1>4, <2>1
        <3>. QED BY <1>2, <1>4, <3>1 DEF Ordered
    <2>2. CASE j > Len(f) /\ i <= Len(f)
        <3>1. i \in 1 .. Len(f) /\ g[i] = f[i] /\ f[i] < number
            BY <1>2, <1>3, <2>2 DEF Appends
        <3>2. g[j] = number
            BY <1>4, <2>2 DEF Appends
        <3>. QED BY <3>1, <3>2
    <2>3. CASE i > Len(f)
        <3>1. k > Len(f)
            BY <1>1, <1>4, <2>3
        <3>2. g[k] = number \/ k = Len(g)
            BY <3>1 DEF Appends
        <3>3. g[i] = number
            BY <1>4, <2>3 DEF Appends
        <3>4. FALSE
            BY <1>1, <1>4, <3>2, <3>3
        <3>. QED BY <3>4
    <2>. QED BY <1>1, <2>1, <2>2, <2>3
<1>5. ASSUME NEW i \in 1 .. Len(g), i + FrameSize <= Len(g) + 1
      PROVE  \E k \in 1 .. Len(g) :
                i <= k /\ k < i + FrameSize /\ g[k] = NUL
    <2>0. FrameSize \in Nat \ {0}
        BY BoxAssumption
    <2>1. CASE i + FrameSize <= Len(f) + 1
        <3>1. i \in 1 .. Len(f)
            BY <1>1, <2>0, <2>1
        <3>2. PICK k \in 1 .. Len(f) :
                i <= k /\ k < i + FrameSize /\ f[k] = NUL
            BY <2>1, <3>1 DEF EveryFrameEnds
        <3>. QED BY <1>2, <3>2
    <2>2. CASE i + FrameSize > Len(f) + 1 /\ i <= Len(f)
        <3>1. Len(f) \in 1 .. Len(f) /\ i <= Len(f) /\ Len(f) < i + FrameSize
            BY <1>1, <2>0, <2>2
        <3>2. f # <<>>
            BY <3>1
        <3>3. g[Len(f)] = NUL
            BY <1>2, <3>1, <3>2 DEF Appends
        <3>. QED BY <1>2, <3>1, <3>3
    <2>3. CASE i > Len(f)
        <3>1. Len(g) >= Len(f) + FrameSize
            BY <1>1, <1>5, <2>0, <2>3
        <3>2. g[Len(g)] = NUL /\ Len(g) <= Len(f) + FrameSize
            BY <1>1, <2>0, <3>1 DEF Appends
        <3>3. Len(g) \in 1 .. Len(g) /\ i <= Len(g) /\ Len(g) < i + FrameSize
            BY <1>1, <2>0, <2>3, <3>2
        <3>. QED BY <3>2, <3>3
    <2>. QED BY <1>1, <2>0, <2>1, <2>2, <2>3
<1>. QED BY <1>4, <1>5 DEF Ordered, EveryFrameEnds

-----------------------------------------------------------------------------
(* How a step can change the texts.                                        *)

\* The sizes of the parts of the invariants.
LEMMA TextSizes ==
    ASSUME Inv, TextInv, NEW t \in Subscribers
    PROVE  /\ position[t] \in Nat /\ position[t] <= Len(file)
           /\ frame[t] \in Seq(Codes) /\ Len(frame[t]) \in Nat
           /\ Len(file) \in Nat /\ file \in Seq(Codes)
           /\ SentTo(t) \in Nat /\ position[t] = SentTo(t) + Len(frame[t])
           /\ pc[t] # "s_send" => SentTo(t) = position[t]
<1>1. /\ position[t] \in Nat /\ position[t] <= Len(file)
      /\ frame[t] \in Seq(Codes) /\ file \in Seq(Codes)
    BY DEF Inv, SessionShape, ReadInv, BoxShape
<1>2. Len(file) \in Nat /\ Len(frame[t]) \in Nat
    BY Sizes
<1>3. SentTo(t) \in Nat /\ (pc[t] # "s_send" => frame[t] = <<>>)
    BY DEF TextInv, FrameInv
<1>4. frame[t] = <<>> => Len(frame[t]) = 0
    OBVIOUS
<1>. QED BY <1>1, <1>2, <1>3, <1>4 DEF SentTo

\* What a step does to the end of the file.
KeepsWhole == Whole' => Whole /\ Written' = Written

\* A step that touches no byte and no text.
LEMMA TextsUntouched ==
    ASSUME Inv, TextInv, UNCHANGED <<file, position, frame, shown>>,
           KeepsWhole, SleepInv',
           \A t \in Subscribers : /\ pc'[t] = "u_lock" => pc[t] = "u_lock"
                                  /\ pc[t] = "s_send" <=> pc'[t] = "s_send"
    PROVE  TextInv'
<1>1. FileInv'
    BY DEF TextInv, FileInv, KeepsWhole
<1>2. ASSUME NEW t \in Subscribers PROVE FrameInv(t)' /\ ShownInv(t)'
    <2>1. SentTo(t)' = SentTo(t)
        BY DEF SentTo
    <2>2. FrameInv(t) /\ ShownInv(t)
        BY DEF TextInv
    <2>. QED BY <2>1, <2>2 DEF FrameInv, ShownInv
<1>. QED BY <1>1, <1>2 DEF TextInv

\* A step of one subscriber's thread that reads or shows.
LEMMA OneThreadShows ==
    ASSUME Inv, TextInv, UNCHANGED file, KeepsWhole, SleepInv',
           NEW t \in Subscribers,
           \A u \in Subscribers \ {t} :
              /\ position'[u] = position[u] /\ frame'[u] = frame[u]
              /\ shown'[u] = shown[u] /\ pc'[u] = pc[u],
           DOMAIN shown' = Subscribers, FrameInv(t)', ShownInv(t)'
    PROVE  TextInv'
<1>1. FileInv'
    BY DEF TextInv, FileInv, KeepsWhole
<1>2. ASSUME NEW u \in Subscribers \ {t} PROVE FrameInv(u)' /\ ShownInv(u)'
    <2>1. SentTo(u)' = SentTo(u)
        BY DEF SentTo
    <2>2. FrameInv(u) /\ ShownInv(u)
        BY DEF TextInv
    <2>. QED BY <2>1, <2>2 DEF FrameInv, ShownInv
<1>. QED BY <1>1, <1>2 DEF TextInv

\* A step of the publisher's thread that appends to the file.
LEMMA FileGrows ==
    ASSUME Inv, TextInv, Whole, SleepInv',
           UNCHANGED <<position, frame, shown>>, file' \in Seq(Codes),
           Appends(file, file', Written + 1),
           Whole' => file'[Len(file')] = NUL /\ Written' = Written + 1,
           \A t \in Subscribers : pc'[t] = pc[t]
    PROVE  TextInv'
<1>0. Written \in Nat
    BY Sizes DEF Written
<1>1. /\ Len(file) \in Nat /\ Len(file') \in Nat /\ Len(file) <= Len(file')
      /\ \A i \in 1 .. Len(file) : file'[i] = file[i]
    BY LenProperties DEF Inv, BoxShape, Appends
<1>2. /\ \A i \in 1 .. Len(file) : file[i] < Written + 1
      /\ \A i \in 1 .. Len(file') : i > Len(file) =>
           file'[i] = Written + 1 \/ file'[i] = NUL
      /\ file = <<>> \/ file[Len(file)] = NUL
    BY DEF Appends
<1>3. FileInv'
    <2>1. Ordered(file') /\ EveryFrameEnds(file')
        BY <1>0, AppendsInOrder DEF Inv, BoxShape, TextInv, FileInv
    <2>2. \A i \in 1 .. Len(file') : file'[i] <= Written + 1
        <3>1. ASSUME NEW i \in 1 .. Len(file'), i <= Len(file)
              PROVE  file'[i] <= Written + 1
            <4>1. i \in 1 .. Len(file)
                BY <1>1, <3>1
            <4>2. file[i] \in Nat
                BY <4>1, BoxAssumption DEF Inv, BoxShape, Codes
            <4>. QED BY <1>0, <1>1, <1>2, <4>1, <4>2
        <3>2. ASSUME NEW i \in 1 .. Len(file'), i > Len(file)
              PROVE  file'[i] <= Written + 1
            BY <1>0, <1>2, <3>2 DEF NUL
        <3>. QED BY <1>1, <3>1, <3>2
    <2>. QED BY <2>1, <2>2 DEF FileInv
<1>4. ASSUME NEW t \in Subscribers PROVE FrameInv(t)' /\ ShownInv(t)'
    <2>1. SentTo(t)' = SentTo(t) /\ FrameInv(t) /\ ShownInv(t)
        BY DEF SentTo, TextInv
    <2>2. /\ position[t] \in Nat /\ position[t] <= Len(file)
          /\ frame[t] \in Seq(Codes) /\ Len(frame[t]) \in Nat
          /\ SentTo(t) \in Nat /\ position[t] = SentTo(t) + Len(frame[t])
        BY TextSizes
    <2>3. ASSUME NEW i \in 1 .. Len(frame[t])
          PROVE  frame[t][i] = file'[SentTo(t) + i]
        <3>1. SentTo(t) + i \in 1 .. Len(file)
            BY <1>1, <2>2
        <3>. QED BY <1>1, <2>1, <3>1 DEF FrameInv
    <2>4. ASSUME frame[t] # <<>>, position[t] = Len(file)
          PROVE  \E i \in 1 .. Len(frame[t]) : frame[t][i] = NUL
        <3>1. Len(frame[t]) \in 1 .. Len(frame[t])
            BY <2>2, <2>4, EmptySeq
        <3>2. frame[t][Len(frame[t])] = file[Len(file)]
            BY <2>1, <2>2, <2>4, <3>1 DEF FrameInv
        <3>3. file # <<>>
            BY <2>2, <2>4, <3>1
        <3>. QED BY <1>2, <3>1, <3>2, <3>3
    <2>5. FrameInv(t)'
        BY <2>1, <2>3, <2>4 DEF FrameInv
    <2>6. InOrderUpTo(shown[t], SentTo(t), file')
        <3>1. ASSUME NEW i \in 1 .. Len(file'), i > Len(file),
                     file'[i] # NUL, NEW k \in 1 .. Len(file)
              PROVE  file[k] < file'[i]
            BY <1>2, <3>1
        <3>2. file \in Seq(Codes) /\ InOrderUpTo(shown[t], SentTo(t), file)
            BY <2>1 DEF Inv, BoxShape, ShownInv
        <3>. QED BY <1>1, <2>2, <3>1, <3>2, ShownOfPrefix
    <2>7. ShownInv(t)'
        BY <2>1, <2>6 DEF ShownInv
    <2>. QED BY <2>5, <2>7
<1>. QED BY <1>3, <1>4 DEF TextInv

-----------------------------------------------------------------------------
(* The steps that touch no text.                                           *)

LEMMA TextsClients ==
    ASSUME Inv, TextInv, RegisterPublisher \/ PublisherLeaves \/ Receive
    PROVE  TextInv'
<1>1. /\ Publisher \in Threads /\ Publisher \notin Subscribers
      /\ \E to \in PCs \ {"p_write", "p_count"} :
           /\ pc[Publisher] \notin {"p_write", "p_count"}
           /\ pc' = [pc EXCEPT ![Publisher] = to]
    BY BoxAssumption DEF Threads, PCs, RegisterPublisher, PublisherLeaves,
                         Receive, Goto
<1>2. /\ pc'[Publisher] \notin {"p_write", "p_count"}
      /\ \A t \in Subscribers : pc'[t] = pc[t]
    BY <1>1 DEF Inv, ThreadShape, Threads
<1>3. UNCHANGED <<file, position, frame, shown, lock, published, waiting,
                  box_size, offset>>
    BY DEF RegisterPublisher, PublisherLeaves, Receive, box, session
<1>4. KeepsWhole
    BY <1>1, <1>2, <1>3 DEF KeepsWhole, Whole, Written
<1>5. SleepInv'
    BY <1>2, <1>3 DEF TextInv, SleepInv, MoreToRead, Inv, BoxShape
<1>. QED BY <1>2, <1>3, <1>4, <1>5, TextsUntouched

LEMMA TextsPublisherLocks ==
    ASSUME Inv, TextInv, PublisherLocks
    PROVE  TextInv'
<1>1. /\ pc[Publisher] = "p_lock" /\ pc'[Publisher] = "p_write"
      /\ \A t \in Subscribers : pc'[t] = pc[t]
    BY BoxAssumption DEF PublisherLocks, Goto, Inv, ThreadShape, Threads
<1>2. /\ lock = Nobody /\ Nobody # Publisher
      /\ UNCHANGED <<file, position, frame, shown, published, waiting,
                     box_size, offset>>
    BY BoxAssumption DEF PublisherLocks, Free, session
<1>3. KeepsWhole
    BY <1>1, <1>2 DEF KeepsWhole, Whole, Written
<1>4. SleepInv'
    BY <1>1, <1>2 DEF TextInv, SleepInv, MoreToRead, Inv, BoxShape
<1>. QED BY <1>1, <1>2, <1>3, <1>4, TextsUntouched

\* A session that ends with the lock of the box adds nothing any more.
LEMMA TextsPublisherOutOfHandles ==
    ASSUME Inv, TextInv, PublisherOutOfHandles
    PROVE  TextInv'
<1>1. /\ pc[Publisher] = "p_write" /\ pc'[Publisher] = "closing"
      /\ \A t \in Subscribers : pc'[t] = pc[t]
    BY BoxAssumption DEF PublisherOutOfHandles, CloseServer, Goto, Inv,
                         ThreadShape, Threads
<1>2. UNCHANGED <<file, position, frame, shown, lock, published, waiting,
                  box_size, offset>>
    BY DEF PublisherOutOfHandles, box, session
<1>3. KeepsWhole
    BY <1>1, <1>2 DEF KeepsWhole, Whole, Inv, LockInv
<1>4. SleepInv'
    BY <1>1, <1>2 DEF TextInv, SleepInv, MoreToRead, Inv, BoxShape
<1>. QED BY <1>1, <1>2, <1>3, <1>4, TextsUntouched

\* Everyone is woken when the count has changed.
LEMMA TextsCountMessage ==
    ASSUME Inv, TextInv, CountMessage
    PROVE  TextInv'
<1>1. /\ pc[Publisher] = "p_count" /\ pc'[Publisher] = "p_read"
      /\ \A t \in Subscribers : pc'[t] = pc[t]
    BY BoxAssumption DEF CountMessage, Goto, Inv, ThreadShape, Threads
<1>2. /\ waiting' = {} /\ published' = Append(published, message)
      /\ UNCHANGED <<file, position, frame, shown>>
    BY DEF CountMessage, Broadcast, session
<1>3. Len(published') = Len(published) + 1
    BY <1>1, <1>2 DEF Inv, MessageInv
<1>4. KeepsWhole
    BY <1>1, <1>3, Sizes DEF KeepsWhole, Whole, Written
<1>5. SleepInv'
    BY <1>2 DEF SleepInv
<1>. QED BY <1>1, <1>2, <1>4, <1>5, TextsUntouched

LEMMA TextsWaiting ==
    ASSUME Inv, TextInv, NEW t \in Subscribers,
           \/ SubscriberLeaves(t) \/ SpuriousWakeup(t) \/ SubscriberSleeps(t)
    PROVE  TextInv'
<1>1. UNCHANGED <<file, position, frame, shown, lock, published, pc,
                  box_size, offset>>
    BY DEF SubscriberLeaves, SpuriousWakeup, SubscriberSleeps, box, session
<1>2. KeepsWhole
    BY <1>1 DEF KeepsWhole, Whole, Written
<1>3. SleepInv'
    BY <1>1 DEF TextInv, SleepInv, MoreToRead, SubscriberLeaves, box,
                SpuriousWakeup, SubscriberSleeps
<1>. QED BY <1>1, <1>2, <1>3, TextsUntouched

LEMMA TextsSubscriberMoves ==
    ASSUME Inv, TextInv, NEW t \in Subscribers,
           \/ UntilNowOutOfHandles(t) \/ UntilNowEnds(t)
           \/ SubscriberFindsMore(t) \/ SubscriberAtEnd(t)
    PROVE  TextInv'
<1>1. PICK to \in {"closing", "s_wait", "s_read", "idle"} :
        pc' = [pc EXCEPT ![t] = to]
    BY DEF UntilNowOutOfHandles, UntilNowEnds, SubscriberFindsMore,
           SubscriberAtEnd, CloseServer, Goto
<1>2. /\ pc'[Publisher] = pc[Publisher] /\ pc'[t] = to
      /\ \A u \in Subscribers \ {t} : pc'[u] = pc[u]
    BY <1>1, BoxAssumption DEF Inv, ThreadShape, Threads
<1>3. pc[t] # "s_send" /\ t \notin waiting
    BY DEF UntilNowOutOfHandles, UntilNowEnds, SubscriberFindsMore,
           SubscriberAtEnd, CloseServer, Goto, TextInv, SleepInv
<1>4. UNCHANGED <<file, position, frame, shown, published, waiting, box_size,
                  offset>>
    BY DEF UntilNowOutOfHandles, UntilNowEnds, SubscriberFindsMore,
           SubscriberAtEnd, box, session
<1>5. lock # Publisher \/ lock' = lock
    BY BoxAssumption
       DEF UntilNowOutOfHandles, UntilNowEnds, SubscriberFindsMore,
           SubscriberAtEnd, box, Free, Inv, LockInv, Goto
<1>6. KeepsWhole
    BY <1>2, <1>4, <1>5 DEF KeepsWhole, Whole, Written
<1>7. SleepInv'
    BY <1>2, <1>3, <1>4 DEF TextInv, SleepInv, MoreToRead, Inv, BoxShape
<1>8. \A u \in Subscribers : /\ pc'[u] = "u_lock" => pc[u] = "u_lock"
                             /\ pc[u] = "s_send" <=> pc'[u] = "s_send"
    BY <1>2, <1>3
<1>. QED BY <1>4, <1>6, <1>7, <1>8, TextsUntouched

-----------------------------------------------------------------------------
(* The steps that append to the file.                                      *)

LEMMA TextsWriteMessage ==
    ASSUME Inv, TextInv, WriteMessage
    PROVE  TextInv'
<1>. DEFINE b == Bytes(Len(published) + 1, message)
<1>1. /\ pc[Publisher] = "p_write" /\ pc'[Publisher] = "p_count"
      /\ \A t \in Subscribers : pc'[t] = pc[t]
    BY BoxAssumption DEF WriteMessage, Goto, Inv, ThreadShape, Threads
<1>2. /\ Written = Len(published) /\ Len(published) \in Nat
      /\ Len(published) < MaxMessages /\ message \in 1 .. FrameSize
      /\ Len(file) \in Nat /\ message \in Nat
    BY <1>1, Sizes, BoxAssumption DEF Written, Inv, MessageInv
<1>3. b \in Seq(Codes) /\ Len(b) = message
    <2>1. Len(published) + 1 \in Codes
        BY <1>2, BoxAssumption DEF Codes
    <2>. QED BY <1>2, <2>1, BytesOfMessage
<1>4. \A i \in 1 .. message :
        b[i] = IF i = message THEN NUL ELSE Len(published) + 1
    BY DEF Bytes
<1>. HIDE DEF b
<1>5. /\ file' \in Seq(Codes) /\ Len(file') = Len(file) + message
      /\ \A i \in 1 .. Len(file) + message :
           file'[i] = IF i <= Len(file) THEN file[i] ELSE b[i - Len(file)]
    BY <1>3, ConcatProperties DEF WriteMessage, b, Inv, BoxShape
<1>6. /\ \A i \in 1 .. Len(file) : file'[i] = file[i]
      /\ file'[Len(file')] = NUL
      /\ \A i \in 1 .. Len(file') : i > Len(file) =>
           file'[i] = Written + 1 \/ (file'[i] = NUL /\ i = Len(file'))
    BY <1>2, <1>4, <1>5
<1>7. Whole
    BY <1>1 DEF Whole
<1>8. \A i \in 1 .. Len(file) : file[i] < Written + 1
    <2>1. \A i \in 1 .. Len(file) : file[i] \in Nat /\ file[i] <= Written
        BY <1>7, BoxAssumption DEF Inv, BoxShape, Codes, TextInv, FileInv
    <2>. QED BY <1>2, <2>1
<1>9. Appends(file, file', Written + 1)
    <2>1. Len(file) <= Len(file') /\ Len(file') <= Len(file) + FrameSize
        BY <1>2, <1>5, BoxAssumption
    <2>. QED BY <1>6, <1>7, <1>8, <2>1 DEF Appends, TextInv, FileInv
<1>10. UNCHANGED <<position, frame, shown, offset, waiting, box_size,
                   published>>
    BY DEF WriteMessage, session
<1>11. Written' = Written + 1
    BY <1>1, <1>2, <1>10 DEF Written
<1>12. SleepInv'
    BY <1>1, <1>10 DEF TextInv, SleepInv, MoreToRead, Inv, BoxShape
<1>. QED BY <1>1, <1>5, <1>6, <1>7, <1>9, <1>10, <1>11, <1>12, FileGrows

\* What fits of a message is all text, and the lock is kept for ever.
LEMMA TextsWriteToFullBox ==
    ASSUME Inv, TextInv, WriteToFullBox
    PROVE  TextInv'
<1>. DEFINE b == Bytes(Len(published) + 1, message)
<1>1. /\ pc[Publisher] = "p_write" /\ pc'[Publisher] = "idle"
      /\ \A t \in Subscribers : pc'[t] = pc[t]
    BY BoxAssumption DEF WriteToFullBox, Goto, Inv, ThreadShape, Threads
<1>2. /\ Written = Len(published) /\ Len(published) \in Nat
      /\ Len(published) < MaxMessages /\ message \in 1 .. FrameSize
      /\ Len(file) \in Nat /\ message \in Nat
    BY <1>1, Sizes, BoxAssumption DEF Written, Inv, MessageInv
<1>3. b \in Seq(Codes) /\ Len(b) = message
    <2>1. Len(published) + 1 \in Codes
        BY <1>2, BoxAssumption DEF Codes
    <2>. QED BY <1>2, <2>1, BytesOfMessage
<1>4. \A i \in 1 .. message :
        b[i] = IF i = message THEN NUL ELSE Len(published) + 1
    BY DEF Bytes
<1>. HIDE DEF b
<1>5. PICK room \in Nat : room < message /\ room = BoxSize - Len(file)
    <2>1. BoxSize - Len(file) \in Nat /\ BoxSize - Len(file) < message
        BY <1>2, BoxAssumption DEF WriteToFullBox, Fits, Inv, BoxShape
    <2>. QED BY <2>1
<1>. DEFINE part == SubSeq(b, 1, room)
<1>6. /\ part \in Seq(Codes) /\ Len(part) = room
      /\ \A i \in 1 .. room : part[i] = Len(published) + 1
    <2>1. \A i \in 1 .. room : b[i] \in Codes
        BY <1>2, <1>3, <1>5, ElementOfSeq
    <2>2. /\ part \in Seq(Codes)
          /\ Len(part) = IF 1 <= room THEN room - 1 + 1 ELSE 0
          /\ \A i \in 1 .. room - 1 + 1 : part[i] = b[1 + i - 1]
        BY <1>5, <2>1, SubSeqProperties
    <2>3. Len(part) = room
        BY <1>5, <2>2
    <2>4. ASSUME NEW i \in 1 .. room PROVE part[i] = Len(published) + 1
        <3>1. /\ i \in 1 .. room - 1 + 1 /\ 1 + i - 1 = i
              /\ i \in 1 .. message /\ i # message
            BY <1>2, <1>5
        <3>. QED BY <1>4, <2>2, <3>1
    <2>. QED BY <2>2, <2>3, <2>4
<1>7. file' = file \o part
    BY <1>5 DEF WriteToFullBox, b
<1>. HIDE DEF part
<1>8. /\ file' \in Seq(Codes) /\ Len(file') = Len(file) + room
      /\ \A i \in 1 .. Len(file) + room :
           file'[i] = IF i <= Len(file) THEN file[i] ELSE part[i - Len(file)]
    BY <1>6, <1>7, ConcatProperties DEF Inv, BoxShape
<1>9. /\ \A i \in 1 .. Len(file) : file'[i] = file[i]
      /\ \A i \in 1 .. Len(file') : i > Len(file) => file'[i] = Written + 1
    <2>1. \A i \in 1 .. Len(file) : i \in 1 .. Len(file) + room
        BY <1>2, <1>5
    <2>2. ASSUME NEW i \in 1 .. Len(file'), i > Len(file)
          PROVE  file'[i] = Written + 1
        <3>1. i - Len(file) \in 1 .. room /\ ~ (i <= Len(file))
            BY <1>2, <1>5, <1>8, <2>2
        <3>2. file'[i] = part[i - Len(file)]
            BY <1>8, <3>1
        <3>. QED BY <1>2, <1>6, <3>1, <3>2
    <2>. QED BY <1>8, <2>1, <2>2
<1>10. Whole
    BY <1>1 DEF Whole
<1>11. \A i \in 1 .. Len(file) : file[i] < Written + 1
    <2>1. \A i \in 1 .. Len(file) : file[i] \in Nat /\ file[i] <= Written
        BY <1>10, BoxAssumption DEF Inv, BoxShape, Codes, TextInv, FileInv
    <2>. QED BY <1>2, <2>1
<1>12. Appends(file, file', Written + 1)
    <2>1. Len(file) <= Len(file') /\ Len(file') < Len(file) + FrameSize
        BY <1>2, <1>5, <1>8, BoxAssumption
    <2>. QED BY <1>9, <1>10, <1>11, <2>1 DEF Appends, TextInv, FileInv
<1>13. UNCHANGED <<position, frame, shown, offset, waiting, box_size, lock>>
    BY DEF WriteToFullBox, session
<1>14. ~Whole'
    BY <1>1, <1>13 DEF Whole, Inv, LockInv
<1>15. SleepInv'
    BY <1>1, <1>13 DEF TextInv, SleepInv, MoreToRead, Inv, BoxShape
<1>. QED BY <1>1, <1>8, <1>10, <1>12, <1>13, <1>14, <1>15, FileGrows

-----------------------------------------------------------------------------
(* The steps that read and show.                                           *)

\* A session shows what it shows from the beginning.
LEMMA TextsRegisterSubscriber ==
    ASSUME Inv, TextInv, NEW t \in Subscribers, RegisterSubscriber(t)
    PROVE  TextInv'
<1>1. /\ pc[t] = "idle" /\ pc'[t] = "u_lock" /\ pc'[Publisher] = pc[Publisher]
      /\ \A u \in Subscribers \ {t} : pc'[u] = pc[u]
    BY BoxAssumption DEF RegisterSubscriber, Goto, Inv, ThreadShape, Threads
<1>2. UNCHANGED <<file, position, frame, lock, published, waiting, box_size,
                  offset>>
    BY DEF RegisterSubscriber, box
<1>3. /\ DOMAIN shown' = Subscribers /\ shown'[t] = <<>>
      /\ \A u \in Subscribers \ {t} : shown'[u] = shown[u]
    BY DEF RegisterSubscriber, TextInv
<1>4. KeepsWhole
    BY <1>1, <1>2 DEF KeepsWhole, Whole, Written
<1>5. SleepInv'
    BY <1>1, <1>2 DEF TextInv, SleepInv, MoreToRead, Inv, BoxShape
<1>6. FrameInv(t)'
    <2>1. FrameInv(t) /\ SentTo(t)' = SentTo(t)
        BY <1>2 DEF TextInv, SentTo
    <2>. QED BY <1>1, <1>2, <2>1 DEF FrameInv
<1>7. ShownInv(t)'
    <2>1. <<>> \in Seq(Seq(Codes)) /\ Len(<<>>) = 0 /\ 1 .. 0 = {}
        BY EmptySeq
    <2>2. InOrderUpTo(<<>>, SentTo(t)', file')
        BY <2>1 DEF InOrderUpTo
    <2>. QED BY <1>3, <2>1, <2>2 DEF ShownInv
<1>. QED BY <1>1, <1>2, <1>3, <1>4, <1>5, <1>6, <1>7, OneThreadShows

\* The handle starts at the beginning, and nothing was shown.
LEMMA TextsUntilNowOpens ==
    ASSUME Inv, TextInv, NEW t \in Subscribers, UntilNowOpens(t)
    PROVE  TextInv'
<1>1. /\ pc[t] = "u_lock" /\ pc'[t] = "u_send"
      /\ pc'[Publisher] = pc[Publisher]
      /\ \A u \in Subscribers \ {t} : pc'[u] = pc[u]
    BY BoxAssumption DEF UntilNowOpens, Goto, Inv, ThreadShape, Threads
<1>2. /\ UNCHANGED <<file, frame, shown, published, waiting, box_size, offset>>
      /\ lock = Nobody /\ Nobody # Publisher
    BY BoxAssumption DEF UntilNowOpens, Free
<1>3. /\ position'[t] = 0
      /\ \A u \in Subscribers \ {t} : position'[u] = position[u]
    BY DEF UntilNowOpens, Inv, SessionShape
<1>4. KeepsWhole
    BY <1>1, <1>2 DEF KeepsWhole, Whole, Written
<1>5. SleepInv'
    BY <1>1, <1>2 DEF TextInv, SleepInv, MoreToRead, Inv, BoxShape
<1>6. frame[t] = <<>> /\ shown[t] = <<>>
    BY <1>1 DEF TextInv, FrameInv, ShownInv
<1>7. SentTo(t)' = 0
    <2>1. Len(frame'[t]) = 0
        BY <1>2, <1>6
    <2>. QED BY <1>3, <2>1 DEF SentTo
<1>8. FrameInv(t)'
    BY <1>1, <1>2, <1>6, <1>7 DEF FrameInv
<1>9. ShownInv(t)'
    <2>1. <<>> \in Seq(Seq(Codes)) /\ Len(<<>>) = 0 /\ 1 .. 0 = {}
        BY EmptySeq
    <2>2. InOrderUpTo(<<>>, SentTo(t)', file')
        BY <2>1 DEF InOrderUpTo
    <2>. QED BY <1>2, <1>6, <2>1, <2>2 DEF ShownInv
<1>10. DOMAIN shown' = Subscribers
    BY <1>2 DEF TextInv
<1>. QED BY <1>1, <1>2, <1>3, <1>4, <1>5, <1>8, <1>9, <1>10, OneThreadShows

\* The rest of the file, split at every '\0'.
LEMMA TextsUntilNowSends ==
    ASSUME Inv, TextInv, NEW t \in Subscribers, UntilNowSends(t)
    PROVE  TextInv'
<1>1. pc[t] = "u_send" /\ Left(t) > 0
    BY DEF UntilNowSends
<1>2. /\ UNCHANGED <<file, frame, published, waiting, box_size, lock, pc>>
      /\ \A u \in Subscribers \ {t} :
           /\ offset'[u] = offset[u] /\ position'[u] = position[u]
           /\ shown'[u] = shown[u]
      /\ position'[t] = Len(file) /\ DOMAIN shown' = Subscribers
    BY DEF UntilNowSends, box, Inv, SessionShape, TextInv
<1>. DEFINE rest == Strings(SubSeq(file, position[t] + 1, Len(file)))
<1>3. shown'[t] = shown[t] \o rest
    BY DEF UntilNowSends, TextInv
<1>. HIDE DEF rest
<1>4. /\ frame[t] = <<>> /\ SentTo(t) = position[t] /\ position[t] \in Nat
      /\ position[t] <= Len(file) /\ Len(file) \in Nat /\ file \in Seq(Codes)
    BY <1>1, TextSizes DEF TextInv, FrameInv
<1>5. KeepsWhole
    BY <1>2 DEF KeepsWhole, Whole, Written
<1>6. SleepInv'
    BY <1>1, <1>2 DEF TextInv, SleepInv, MoreToRead, Inv, BoxShape
<1>7. SentTo(t)' = Len(file)
    BY <1>2, <1>4 DEF SentTo
<1>8. FrameInv(t)'
    BY <1>1, <1>2, <1>4, <1>7 DEF FrameInv
<1>9. /\ rest \in Seq(Seq(Codes)) /\ InOrderUpTo(rest, Len(file), file)
      /\ \A k \in 1 .. Len(rest) : rest[k] # <<>> =>
           \E i \in position[t] + 1 .. Len(file) :
              file[i] # NUL /\ rest[k][1] = file[i]
    <2>1. position[t] < Len(file) /\ Ordered(file)
        BY <1>1, <1>4 DEF Left, TextInv, FileInv
    <2>. QED BY <1>4, <2>1, RestShows DEF rest
<1>10. shown[t] \in Seq(Seq(Codes)) /\ InOrderUpTo(shown[t], position[t], file)
    BY <1>4 DEF TextInv, ShownInv
<1>11. ShownInv(t)'
    <2>1. /\ InOrderUpTo(shown[t] \o rest, Len(file), file)
          /\ shown[t] \o rest \in Seq(Seq(Codes))
        BY <1>4, <1>9, <1>10, ShowsMore
    <2>. QED BY <1>1, <1>2, <1>3, <1>7, <2>1 DEF ShownInv
<1>. QED BY <1>2, <1>5, <1>6, <1>8, <1>11, OneThreadShows

\* What was read and could not be sent is not shown in this session.
LEMMA TextsUntilNowPipeClosed ==
    ASSUME Inv, TextInv, NEW t \in Subscribers, UntilNowPipeClosed(t)
    PROVE  TextInv'
<1>1. /\ pc[t] = "u_send" /\ pc'[t] = "closing"
      /\ pc'[Publisher] = pc[Publisher]
      /\ \A u \in Subscribers \ {t} : pc'[u] = pc[u]
    BY BoxAssumption DEF UntilNowPipeClosed, CloseServer, Goto, Inv,
                         ThreadShape, Threads
<1>2. /\ UNCHANGED <<file, frame, shown, published, waiting, box_size, lock,
                     offset>>
      /\ position'[t] = Len(file)
      /\ \A u \in Subscribers \ {t} : position'[u] = position[u]
    BY DEF UntilNowPipeClosed, box, Inv, SessionShape
<1>3. /\ frame[t] = <<>> /\ SentTo(t) \in Nat /\ SentTo(t) <= Len(file)
      /\ Len(file) \in Nat /\ file \in Seq(Codes)
    BY <1>1, TextSizes DEF TextInv, FrameInv
<1>4. KeepsWhole
    BY <1>1, <1>2 DEF KeepsWhole, Whole, Written
<1>5. SleepInv'
    BY <1>1, <1>2 DEF TextInv, SleepInv, MoreToRead, Inv, BoxShape
<1>6. SentTo(t)' = Len(file)
    BY <1>2, <1>3 DEF SentTo
<1>7. FrameInv(t)'
    BY <1>1, <1>2, <1>3, <1>6 DEF FrameInv
<1>8. ShownInv(t)'
    <2>1. shown[t] \in Seq(Seq(Codes)) /\ InOrderUpTo(shown[t], SentTo(t), file)
        BY DEF TextInv, ShownInv
    <2>2. InOrderUpTo(shown[t], Len(file), file)
        BY <1>3, <2>1, ShownStays
    <2>. QED BY <1>1, <1>2, <1>6, <2>1, <2>2 DEF ShownInv
<1>9. DOMAIN shown' = Subscribers
    BY <1>2 DEF TextInv
<1>. QED BY <1>1, <1>2, <1>4, <1>5, <1>7, <1>8, <1>9, OneThreadShows

\* A frame is the next bytes of the file.
LEMMA TextsSubscriberReads ==
    ASSUME Inv, TextInv, NEW t \in Subscribers, SubscriberReads(t)
    PROVE  TextInv'
<1>1. /\ pc[t] = "s_read" /\ pc'[t] = "s_send" /\ Left(t) > 0
      /\ pc'[Publisher] = pc[Publisher]
      /\ \A u \in Subscribers \ {t} : pc'[u] = pc[u]
    BY BoxAssumption DEF SubscriberReads, Goto, Inv, ThreadShape, Threads
<1>2. PICK n \in Nat : n = FrameLength(t) /\ n > 0 /\ n <= FrameSize
                       /\ (n = FrameSize \/ n = Left(t)) /\ n <= Left(t)
    <2>1. Left(t) \in Nat
        BY TextSizes DEF Left
    <2>2. FrameLength(t) = IF Left(t) > FrameSize THEN FrameSize ELSE Left(t)
        BY DEF FrameLength
    <2>3. FrameSize \in Nat \ {0}
        BY BoxAssumption
    <2>. QED BY <1>1, <2>1, <2>2, <2>3
<1>3. /\ UNCHANGED <<file, shown, published, waiting, box_size, lock, offset>>
      /\ position'[t] = position[t] + n
      /\ frame'[t] = SubSeq(file, position[t] + 1, position[t] + n)
      /\ \A u \in Subscribers \ {t} :
           position'[u] = position[u] /\ frame'[u] = frame[u]
    BY <1>2 DEF SubscriberReads, Advanced, box, Inv, SessionShape
<1>4. /\ position[t] \in Nat /\ SentTo(t) = position[t]
      /\ Len(file) \in Nat /\ file \in Seq(Codes)
      /\ Left(t) = Len(file) - position[t]
    BY <1>1, TextSizes DEF Left
<1>5. position[t] + n <= Len(file)
    BY <1>2, <1>4
<1>6. frame'[t] \in Seq(Codes) /\ Len(frame'[t]) = n
    <2>1. /\ SubSeq(file, position[t] + 1, position[t] + n) \in Seq(Codes)
          /\ Len(SubSeq(file, position[t] + 1, position[t] + n)) = n
        BY <1>4, <1>5, ReadsBytes
    <2>. QED BY <1>3, <2>1
<1>7. ASSUME NEW i \in 1 .. n PROVE frame'[t][i] = file[position[t] + i]
    <2>1. PICK from \in Nat : from = position[t]
        BY <1>4
    <2>2. \A k \in from + 1 .. from + n : file[k] \in Codes
        BY <1>4, <1>5, <2>1, ElementOfSeq
    <2>3. \A k \in 1 .. from + n - (from + 1) + 1 :
            SubSeq(file, from + 1, from + n)[k] = file[from + 1 + k - 1]
        BY <2>2, SubSeqProperties
    <2>4. /\ i \in 1 .. from + n - (from + 1) + 1
          /\ from + 1 + i - 1 = from + i
        OBVIOUS
    <2>. QED BY <1>3, <2>1, <2>3, <2>4
<1>8. SentTo(t)' = position[t]
    BY <1>3, <1>4, <1>6 DEF SentTo
<1>9. position'[t] = Len(file) \/ \E i \in 1 .. n : frame'[t][i] = NUL
    <2>1. CASE n = Left(t)
        BY <1>3, <1>4, <2>1
    <2>2. CASE n = FrameSize
        <3>1. /\ position[t] + 1 \in 1 .. Len(file)
              /\ position[t] + 1 + FrameSize <= Len(file) + 1
            BY <1>2, <1>4, <1>5, <2>2
        <3>2. EveryFrameEnds(file)
            BY DEF TextInv, FileInv
        <3>3. PICK k \in 1 .. Len(file) :
                /\ position[t] + 1 <= k /\ k < position[t] + 1 + FrameSize
                /\ file[k] = NUL
            BY <3>1, <3>2 DEF EveryFrameEnds
        <3>4. k - position[t] \in 1 .. n
              /\ position[t] + (k - position[t]) = k
            BY <1>4, <2>2, <3>3
        <3>. QED BY <1>7, <3>3, <3>4
    <2>. QED BY <1>2, <2>1, <2>2
<1>10. FrameInv(t)'
    <2>1. frame'[t] # <<>>
        BY <1>2, <1>6
    <2>. QED BY <1>1, <1>3, <1>4, <1>6, <1>7, <1>8, <1>9, <2>1 DEF FrameInv
<1>11. ShownInv(t)'
    BY <1>1, <1>3, <1>4, <1>8 DEF TextInv, ShownInv
<1>12. KeepsWhole
    BY <1>1, <1>3 DEF KeepsWhole, Whole, Written
<1>13. SleepInv'
    BY <1>1, <1>3 DEF TextInv, SleepInv, MoreToRead, Inv, BoxShape
<1>14. DOMAIN shown' = Subscribers
    BY <1>3 DEF TextInv
<1>. QED BY <1>1, <1>3, <1>10, <1>11, <1>12, <1>13, <1>14, OneThreadShows

\* The text of a frame comes after what was shown.
LEMMA TextsSubscriberSends ==
    ASSUME Inv, TextInv, NEW t \in Subscribers, SubscriberSends(t)
    PROVE  TextInv'
<1>1. /\ pc[t] = "s_send" /\ pc'[t] = "s_wait"
      /\ pc'[Publisher] = pc[Publisher]
      /\ \A u \in Subscribers \ {t} : pc'[u] = pc[u]
    BY BoxAssumption DEF SubscriberSends, Goto, Inv, ThreadShape, Threads
<1>. DEFINE text == Printed(frame[t])
<1>2. /\ UNCHANGED <<file, position, published, waiting, box_size, lock>>
      /\ shown'[t] = Append(shown[t], text) /\ frame'[t] = <<>>
      /\ DOMAIN shown' = Subscribers
      /\ \A u \in Subscribers \ {t} :
           /\ shown'[u] = shown[u] /\ frame'[u] = frame[u]
           /\ offset'[u] = offset[u]
    BY DEF SubscriberSends, box, Inv, SessionShape, TextInv
<1>. HIDE DEF text
<1>3. /\ position[t] \in Nat /\ position[t] <= Len(file)
      /\ frame[t] \in Seq(Codes) /\ Len(frame[t]) \in Nat
      /\ Len(file) \in Nat /\ file \in Seq(Codes)
      /\ SentTo(t) \in Nat /\ position[t] = SentTo(t) + Len(frame[t])
    BY TextSizes
<1>4. SentTo(t)' = position[t]
    BY <1>2, <1>3 DEF SentTo
<1>5. FrameInv(t)'
    BY <1>1, <1>2, <1>3, <1>4 DEF FrameInv
<1>6. /\ shown[t] \in Seq(Seq(Codes)) /\ InOrderUpTo(shown[t], SentTo(t), file)
      /\ Ordered(file) /\ FrameInv(t)
    BY DEF TextInv, ShownInv, FileInv
<1>7. /\ text \in Seq(Codes)
      /\ InOrderUpTo(<<text>>, position[t], file)
      /\ text # <<>> =>
           \E i \in SentTo(t) + 1 .. Len(file) :
              file[i] # NUL /\ text[1] = file[i]
    <2>1. /\ frame[t] # <<>> /\ SentTo(t) + Len(frame[t]) <= Len(file)
          /\ \A i \in 1 .. Len(frame[t]) :
               frame[t][i] = file[SentTo(t) + i]
          /\ \/ SentTo(t) + Len(frame[t]) = Len(file)
             \/ \E i \in 1 .. Len(frame[t]) : frame[t][i] = NUL
        BY <1>1, <1>3, <1>6 DEF FrameInv
    <2>. QED BY <1>3, <1>6, <2>1, FrameShows DEF text
<1>8. ShownInv(t)'
    <2>1. /\ <<text>> \in Seq(Seq(Codes)) /\ Len(<<text>>) = 1
          /\ <<text>>[1] = text /\ 1 .. 1 = {1}
        BY <1>7
    <2>2. /\ InOrderUpTo(shown[t] \o <<text>>, position[t], file)
          /\ shown[t] \o <<text>> \in Seq(Seq(Codes))
        <3>1. \A k \in 1 .. Len(<<text>>) : <<text>>[k] # <<>> =>
                \E i \in SentTo(t) + 1 .. Len(file) :
                   file[i] # NUL /\ <<text>>[k][1] = file[i]
            BY <1>7, <2>1
        <3>2. SentTo(t) <= position[t]
            BY <1>3
        <3>. QED BY <1>3, <1>6, <1>7, <2>1, <3>1, <3>2, ShowsMore
    <2>3. Append(shown[t], text) = shown[t] \o <<text>>
        BY <1>6, <1>7, AppendIsConcat
    <2>. QED BY <1>1, <1>2, <1>4, <2>2, <2>3 DEF ShownInv
<1>9. KeepsWhole
    BY <1>1, <1>2 DEF KeepsWhole, Whole, Written
<1>10. SleepInv'
    BY <1>1, <1>2 DEF TextInv, SleepInv, MoreToRead, Inv, BoxShape
<1>. QED BY <1>1, <1>2, <1>5, <1>8, <1>9, <1>10, OneThreadShows

\* What was read and could not be sent is not shown in this session.
LEMMA TextsSubscriberPipeClosed ==
    ASSUME Inv, TextInv, NEW t \in Subscribers, SubscriberPipeClosed(t)
    PROVE  TextInv'
<1>1. /\ pc[t] = "s_send" /\ pc'[t] = "idle"
      /\ pc'[Publisher] = pc[Publisher]
      /\ \A u \in Subscribers \ {t} : pc'[u] = pc[u]
    BY BoxAssumption DEF SubscriberPipeClosed, Goto, Inv, ThreadShape, Threads
<1>2. /\ UNCHANGED <<file, position, shown, published, waiting, box_size, lock,
                     offset>>
      /\ frame'[t] = <<>>
      /\ \A u \in Subscribers \ {t} : frame'[u] = frame[u]
    BY DEF SubscriberPipeClosed, box, Inv, SessionShape
<1>3. /\ position[t] \in Nat /\ SentTo(t) \in Nat /\ file \in Seq(Codes)
      /\ SentTo(t) <= position[t]
    BY TextSizes
<1>4. SentTo(t)' = position[t]
    BY <1>2, <1>3 DEF SentTo
<1>5. FrameInv(t)'
    BY <1>1, <1>2, <1>3, <1>4 DEF FrameInv
<1>6. ShownInv(t)'
    <2>1. shown[t] \in Seq(Seq(Codes)) /\ InOrderUpTo(shown[t], SentTo(t), file)
        BY DEF TextInv, ShownInv
    <2>2. InOrderUpTo(shown[t], position[t], file)
        BY <1>3, <2>1, ShownStays
    <2>. QED BY <1>1, <1>2, <1>4, <2>1, <2>2 DEF ShownInv
<1>7. KeepsWhole
    BY <1>1, <1>2 DEF KeepsWhole, Whole, Written
<1>8. SleepInv'
    BY <1>1, <1>2 DEF TextInv, SleepInv, MoreToRead, Inv, BoxShape
<1>9. DOMAIN shown' = Subscribers
    BY <1>2 DEF TextInv
<1>. QED BY <1>1, <1>2, <1>5, <1>6, <1>7, <1>8, <1>9, OneThreadShows

-----------------------------------------------------------------------------
(* The theorems about the texts.                                           *)

LEMMA InitTextInv ==
    Init => TextInv
<1>. SUFFICES ASSUME Init PROVE TextInv
    OBVIOUS
<1>1. Len(<<>>) = 0 /\ 1 .. 0 = {} /\ <<>> \in Seq(Seq(Codes))
    BY EmptySeq
<1>2. FileInv
    BY <1>1 DEF Init, FileInv, Ordered, EveryFrameEnds
<1>3. SleepInv /\ DOMAIN shown = Subscribers
    BY DEF Init, SleepInv
<1>4. ASSUME NEW t \in Subscribers PROVE FrameInv(t) /\ ShownInv(t)
    <2>1. /\ frame[t] = <<>> /\ shown[t] = <<>> /\ position[t] = 0
          /\ pc[t] = "idle"
        BY DEF Init, Threads
    <2>2. SentTo(t) = 0
        <3>1. Len(frame[t]) = 0
            BY <2>1
        <3>2. position[t] = 0
            BY <2>1
        <3>. QED BY <3>1, <3>2 DEF SentTo
    <2>. QED BY <1>1, <2>1, <2>2 DEF FrameInv, ShownInv, InOrderUpTo
<1>. QED BY <1>2, <1>3, <1>4 DEF TextInv

LEMMA NextTextInv ==
    Inv /\ TextInv /\ [Next]_vars => TextInv'
<1>. SUFFICES ASSUME Inv, TextInv, [Next]_vars PROVE TextInv'
    OBVIOUS
<1>1. CASE PublisherWorks
    BY <1>1, TextsPublisherLocks, TextsWriteMessage, TextsWriteToFullBox,
       TextsPublisherOutOfHandles, TextsCountMessage DEF PublisherWorks
<1>2. ASSUME NEW t \in Subscribers, SubscriberWorks(t) PROVE TextInv'
    BY <1>2, TextsUntilNowOpens, TextsUntilNowSends, TextsUntilNowPipeClosed,
       TextsWaiting, TextsSubscriberMoves, TextsSubscriberReads,
       TextsSubscriberSends, TextsSubscriberPipeClosed DEF SubscriberWorks
<1>3. CASE ClientsAct
    BY <1>3, TextsClients, TextsRegisterSubscriber, TextsWaiting
       DEF ClientsAct
<1>4. CASE UNCHANGED vars
    <2>1. UNCHANGED <<file, position, frame, shown, lock, published, waiting,
                      pc, box_size, offset>>
        BY <1>4 DEF vars, box, session
    <2>2. KeepsWhole /\ SleepInv'
        BY <2>1 DEF KeepsWhole, Whole, Written, TextInv, SleepInv, MoreToRead
    <2>. QED BY <2>1, <2>2, TextsUntouched
<1>. QED BY <1>1, <1>2, <1>3, <1>4 DEF Next

LEMMA TextInvOrder ==
    Inv /\ TextInv => OrderPreserved
<1>. SUFFICES ASSUME Inv, TextInv, NEW t \in Subscribers,
                     NEW m \in DOMAIN shown[t], NEW n \in DOMAIN shown[t],
                     m < n, shown[t][m] # <<>>, shown[t][n] # <<>>
              PROVE  shown[t][m][1] < shown[t][n][1]
    BY DEF OrderPreserved
<1>1. /\ shown[t] \in Seq(Seq(Codes))
      /\ InOrderUpTo(shown[t], SentTo(t), file)
    BY DEF TextInv, ShownInv
<1>2. Len(shown[t]) \in Nat /\ DOMAIN shown[t] = 1 .. Len(shown[t])
    BY <1>1, LenProperties
<1>3. n \in 1 .. Len(shown[t]) /\ m \in 1 .. n - 1
    BY <1>2
<1>. QED BY <1>1, <1>3 DEF InOrderUpTo

LEMMA TextInvTerminated ==
    Inv /\ TextInv => TextsTerminated
<1>. SUFFICES ASSUME Inv, TextInv, NEW t \in Subscribers
              PROVE  /\ pc[t] = "u_send" /\ Left(t) > 0 =>
                          file[Len(file)] = NUL
                     /\ Len(frame[t]) = FrameSize =>
                          \E i \in 1 .. FrameSize : frame[t][i] = NUL
    BY DEF TextsTerminated
<1>0. /\ position[t] \in Nat /\ position[t] <= Len(file)
      /\ Len(file) \in Nat /\ SentTo(t) \in Nat
      /\ position[t] = SentTo(t) + Len(frame[t])
    BY TextSizes
<1>1. ASSUME pc[t] = "u_send", Left(t) > 0 PROVE file[Len(file)] = NUL
    <2>1. Whole
        BY <1>1, BoxAssumption DEF Inv, LockInv, Whole
    <2>2. file # <<>>
        BY <1>0, <1>1 DEF Left
    <2>. QED BY <2>1, <2>2 DEF TextInv, FileInv
<1>2. ASSUME Len(frame[t]) = FrameSize
      PROVE  \E i \in 1 .. FrameSize : frame[t][i] = NUL
    <2>1. /\ SentTo(t) + 1 \in 1 .. Len(file)
          /\ SentTo(t) + 1 + FrameSize <= Len(file) + 1
        BY <1>0, <1>2, BoxAssumption
    <2>2. PICK k \in 1 .. Len(file) :
            /\ SentTo(t) + 1 <= k /\ k < SentTo(t) + 1 + FrameSize
            /\ file[k] = NUL
        BY <2>1 DEF TextInv, FileInv, EveryFrameEnds
    <2>3. k - SentTo(t) \in 1 .. FrameSize /\ SentTo(t) + (k - SentTo(t)) = k
        BY <1>0, <2>2, BoxAssumption
    <2>4. \A i \in 1 .. FrameSize : frame[t][i] = file[SentTo(t) + i]
        BY <1>2 DEF TextInv, FrameInv
    <2>. QED BY <2>2, <2>3, <2>4
<1>. QED BY <1>1, <1>2

\* The texts and their order are kept by every step.
THEOREM TextInvHolds == Spec => []TextInv
<1>1. Inv /\ TextInv /\ [Next]_vars => TextInv'
    BY NextTextInv
<1>. QED BY <1>1, InvHolds, InitTextInv, PTL DEF Spec

\* In every session, the first of a thread or a later one whose offset is
\* left over from another, a client prints the messages in the order in
\* which they were published, and none twice: neither the loop under
\* box->lock nor the unlocked reads after it go back over a text or split
\* one in two.
THEOREM TextsInOrder == Spec => []OrderPreserved
<1>1. Inv /\ TextInv => OrderPreserved
    BY TextInvOrder
<1>. QED BY <1>1, InvHolds, TextInvHolds, PTL

\* strcpy in handle_messages_until_now never runs beyond what tfs_read
\* stored: whoever reads under box->lock finds a file that ends with '\0',
\* because a publisher that filled the box keeps the lock for ever.  And
\* the client always finds a '\0' in a full frame.
THEOREM TextsEnd == Spec => []TextsTerminated
<1>1. Inv /\ TextInv => TextsTerminated
    BY TextInvTerminated
<1>. QED BY <1>1, InvHolds, TextInvHolds, PTL

\* No broadcast is lost: no thread is blocked on box->cond while box_size
\* counts bytes that it has not sent, in any session and for any number of
\* subscribers, also where the publisher's session ends with the lock held.
THEOREM NoBroadcastLost == Spec => []SleepersCaughtUp
<1>1. TextInv => SleepersCaughtUp
    BY DEF TextInv, SleepInv, SleepersCaughtUp
<1>. QED BY <1>1, TextInvHolds, PTL
=============================================================================
