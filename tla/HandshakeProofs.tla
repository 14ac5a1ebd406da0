-------------------------- MODULE HandshakeProofs ---------------------------
(***************************************************************************)
(* Proofs about Handshake for any number of programs and session threads,  *)
(* whichever programs are killed, and however many positions of the queue  *)
(* are taken before they are stored.                                       *)
(*                                                                         *)
(* IInv and CountInv hold whatever the queue does; StepInv is what is true *)
(* until it goes astray, and OneInv why one thread never brings it there.  *)
(***************************************************************************)
EXTENDS Handshake, SequenceTheorems, FiniteSetTheorems, TLAPS

In(s, c) == \E i \in 1 .. Len(s) : s[i] = c
Distinct(s) == \A i, j \in 1 .. Len(s) : s[i] = s[j] => i = j

ProgramPCs == {"start", "send", "unlink", "make", "open", "talking", "ended",
               "killed"}
ThreadState == [at : {"idle", "taking", "counting", "open", "closing",
                      "waiting", "talking", "ended"},
                client : Programs \cup {Nobody},
                node : {"none", "old", "new"}]

Shape ==
    /\ at \in [Programs -> ProgramPCs]
    /\ node \in [Programs -> {"none", "old", "new"}]
    /\ writers \subseteq Programs
    /\ main \in {"start", "again", "blocked", "read", "count"}
    /\ register \in Seq(Programs) /\ stored \in Seq(Programs)
    /\ taken \in Nat /\ size \in Int
    /\ thread \in [Threads -> ThreadState]

\* Where a program has not sent its request yet.
Unsent(c) ==
    at[c] \in {"start", "send"} \cup
                (IF c \in Managers THEN {"unlink", "make"} ELSE {})

\* The broker has the request of c, or is to read it.
Sent(c) == In(register, c) \/ In(stored, c)

\* A request is in one place, and nowhere before it was sent; what a thread
\* takes was stored, and so was the request of a program that is connected.
RequestsInv ==
    /\ Distinct(register) /\ Distinct(stored)
    /\ \A c \in Programs :
         /\ ~(In(register, c) /\ In(stored, c))
         /\ Unsent(c) => ~Sent(c)
         /\ at[c] \in {"talking", "ended"} => In(stored, c)
    /\ \A t \in Threads :
         thread[t].client # Nobody => In(stored, thread[t].client)

\* A manager's pipe is there as long as the broker may open it.
PipesInv ==
    \A c \in Managers : at[c] = "send" \/ Sent(c) => node[c] = "new"

ThreadInv(t) ==
    /\ thread[t].at \in {"open", "closing", "waiting", "talking"} =>
         thread[t].client # Nobody
    /\ thread[t].at \in {"idle", "taking", "ended"} =>
         thread[t].client = Nobody
    /\ thread[t].client \in Managers =>
         /\ thread[t].at # "closing"
         /\ thread[t].at = "waiting" => thread[t].node = "new"

IInv ==
    /\ Shape /\ RequestsInv /\ PipesInv
    /\ \A t \in Threads : ThreadInv(t)

-----------------------------------------------------------------------------
(* What the pipe and the queue hold after a request was put in or got out. *)

LEMMA InAppend ==
    ASSUME NEW S, NEW s \in Seq(S), NEW x \in S
    PROVE  /\ Append(s, x) \in Seq(S)
           /\ \A c : In(Append(s, x), c) <=> In(s, c) \/ c = x
           /\ Distinct(s) /\ ~In(s, x) => Distinct(Append(s, x))
<1>1. /\ Append(s, x) \in Seq(S) /\ Len(Append(s, x)) = Len(s) + 1
      /\ \A i \in 1 .. Len(s) : Append(s, x)[i] = s[i]
      /\ Append(s, x)[Len(s) + 1] = x /\ Len(s) \in Nat
  BY AppendProperties, LenProperties
<1>2. \A c : In(Append(s, x), c) <=> In(s, c) \/ c = x
  BY <1>1 DEF In
<1>3. ASSUME Distinct(s), ~In(s, x)
      PROVE  Distinct(Append(s, x))
  BY <1>1, <1>3 DEF In, Distinct
<1> QED
  BY <1>1, <1>2, <1>3

LEMMA InTail ==
    ASSUME NEW S, NEW s \in Seq(S), s # <<>>
    PROVE  /\ Tail(s) \in Seq(S) /\ Len(Tail(s)) = Len(s) - 1
           /\ Head(s) \in S /\ In(s, Head(s))
           /\ \A c : In(Tail(s), c) => In(s, c)
           /\ Distinct(s) => Distinct(Tail(s)) /\ ~In(Tail(s), Head(s))
<1>1. /\ Tail(s) \in Seq(S) /\ Len(Tail(s)) = Len(s) - 1
      /\ \A i \in 1 .. Len(Tail(s)) : Tail(s)[i] = s[i + 1]
      /\ Head(s) = s[1] /\ Head(s) \in S
      /\ Len(s) \in Nat /\ Len(s) >= 1
  BY HeadTailProperties, LenProperties, EmptySeq
<1>2. In(s, Head(s))
  BY <1>1 DEF In
<1>3. ASSUME NEW c, In(Tail(s), c)
      PROVE  \E i \in 2 .. Len(s) : s[i] = c
  BY <1>1, <1>3 DEF In
<1>4. \A c : In(Tail(s), c) => In(s, c)
  BY <1>1, <1>3 DEF In
<1>5. ASSUME Distinct(s)
      PROVE  Distinct(Tail(s)) /\ ~In(Tail(s), Head(s))
  <2>1. Distinct(Tail(s))
    BY <1>1, <1>5 DEF Distinct
  <2>2. ~In(Tail(s), Head(s))
    BY <1>1, <1>3, <1>5 DEF Distinct
  <2> QED
    BY <2>1, <2>2
<1> QED
  BY <1>1, <1>2, <1>4, <1>5

\* ... and what it lost.
LEMMA TailHolds ==
    ASSUME NEW S, NEW s \in Seq(S), s # <<>>
    PROVE  \A c : In(s, c) => In(Tail(s), c) \/ c = Head(s)
<1>1. /\ Len(Tail(s)) = Len(s) - 1
      /\ \A i \in 1 .. Len(Tail(s)) : Tail(s)[i] = s[i + 1]
      /\ Head(s) = s[1] /\ Len(s) \in Nat
  BY HeadTailProperties, LenProperties
<1> SUFFICES ASSUME NEW i \in 1 .. Len(s), i # 1
             PROVE  In(Tail(s), s[i])
  BY <1>1 DEF In
<1>2. i - 1 \in 1 .. Len(Tail(s)) /\ (i - 1) + 1 = i
  BY <1>1
<1>3. Tail(s)[i - 1] = s[i]
  BY <1>1, <1>2
<1> QED
  BY <1>2, <1>3 DEF In

-----------------------------------------------------------------------------
(* The steps of a program.                                                 *)

LEMMA MoveType ==
    ASSUME Shape, NEW c \in Programs, NEW from, NEW to \in ProgramPCs,
           Move(c, from, to)
    PROVE  /\ at[c] = from /\ at'[c] = to /\ at' \in [Programs -> ProgramPCs]
           /\ \A d \in Programs \ {c} : at'[d] = at[d]
  BY DEF Shape, Move

\* A step of program c that leaves the requests where they are.
LEMMA ProgramStep ==
    ASSUME IInv, NEW c \in Programs,
           UNCHANGED <<register, stored, taken, size, astray, thread>>,
           main' \in {"start", "again", "blocked", "read", "count"},
           writers' \subseteq Programs, at' \in [Programs -> ProgramPCs],
           \A d \in Programs \ {c} : at'[d] = at[d],
           Unsent(c)' => Unsent(c),
           at'[c] \in {"talking", "ended"} => In(stored, c),
           node' \in [Programs -> {"none", "old", "new"}],
           \A d \in Programs \ {c} : node'[d] = node[d],
           c \in Managers /\ (at'[c] = "send" \/ Sent(c)) => node'[c] = "new"
    PROVE  IInv'
<1>1. Shape'
  BY DEF IInv, Shape
<1>2. \A d \in Programs : Sent(d)' <=> Sent(d)
  BY DEF Sent
<1>3. \A d \in Programs : Unsent(d)' => Unsent(d)
  BY DEF Unsent
<1>4. RequestsInv'
  BY <1>2, <1>3 DEF IInv, RequestsInv
<1>5. PipesInv'
  BY <1>2 DEF IInv, PipesInv, Programs
<1> QED
  BY <1>1, <1>4, <1>5 DEF IInv, ThreadInv

LEMMA OpenRegisterInv ==
    ASSUME IInv, NEW c \in Programs, OpenRegister(c)
    PROVE  IInv'
<1> DEFINE to == IF c \in Managers THEN "unlink" ELSE "send"
<1>1. /\ UNCHANGED <<node, register, stored, taken, size, astray, thread>>
      /\ writers' \subseteq Programs
      /\ main' \in {"start", "again", "blocked", "read", "count"}
  BY DEF OpenRegister, queue, IInv, Shape
<1>2. Route(c).start = to /\ to \in ProgramPCs
  BY DEF Route, ProgramPCs
<1>3. /\ at[c] = "start" /\ at'[c] = to /\ at' \in [Programs -> ProgramPCs]
      /\ \A d \in Programs \ {c} : at'[d] = at[d]
  BY <1>2, MoveType DEF OpenRegister, IInv
<1>4. Unsent(c) /\ ~Sent(c)
  BY <1>3 DEF IInv, RequestsInv, Unsent
<1> QED
  BY <1>1, <1>3, <1>4, ProgramStep DEF IInv, Shape

LEMMA SendInv ==
    ASSUME IInv, NEW c \in Programs, Send(c)
    PROVE  IInv'
<1> DEFINE to == IF c \in Managers THEN "open" ELSE "unlink"
<1>1. /\ register' = Append(register, c)
      /\ UNCHANGED <<node, writers, main, stored, taken, size, astray, thread>>
  BY DEF Send, queue
<1>2. Route(c).send = to /\ to \in ProgramPCs
  BY DEF Route, ProgramPCs
<1>3. /\ at[c] = "send" /\ at'[c] = to /\ at' \in [Programs -> ProgramPCs]
      /\ \A d \in Programs \ {c} : at'[d] = at[d]
  BY <1>2, MoveType DEF Send, IInv
<1>4. Unsent(c) /\ ~Sent(c)
  BY <1>3 DEF IInv, RequestsInv, Unsent
<1>5. /\ register' \in Seq(Programs) /\ Distinct(register')
      /\ \A d : In(register', d) <=> In(register, d) \/ d = c
  BY <1>1, <1>4, InAppend DEF IInv, Shape, RequestsInv, Sent
<1>6. Shape'
  BY <1>1, <1>3, <1>5 DEF IInv, Shape
<1>7. \A d \in Programs \ {c} : Sent(d)' <=> Sent(d)
  BY <1>1, <1>5 DEF Sent
<1>8. ~Unsent(c)' /\ \A d \in Programs \ {c} : Unsent(d)' <=> Unsent(d)
  BY <1>3 DEF Unsent
<1>9. RequestsInv'
  <2>1. ASSUME NEW d \in Programs
        PROVE  /\ ~(In(register', d) /\ In(stored', d))
               /\ Unsent(d)' => ~Sent(d)'
               /\ at'[d] \in {"talking", "ended"} => In(stored', d)
    <3>1. CASE d = c
      BY <1>1, <1>3, <1>4, <1>8, <3>1 DEF Sent
    <3>2. CASE d # c
      BY <1>1, <1>3, <1>5, <1>7, <1>8, <3>2 DEF IInv, RequestsInv
    <3> QED
      BY <3>1, <3>2
  <2> QED
    BY <1>1, <1>5, <2>1 DEF IInv, RequestsInv
<1>10. PipesInv'
  BY <1>1, <1>3, <1>7 DEF IInv, PipesInv, Programs
<1> QED
  BY <1>1, <1>6, <1>9, <1>10 DEF IInv, ThreadInv

\* A manager unlinks the pipe at its path before the broker knows of it.
LEMMA UnlinkInv ==
    ASSUME IInv, NEW c \in Programs, Unlink(c)
    PROVE  IInv'
<1>1. /\ node' = [node EXCEPT ![c] = "none"]
      /\ UNCHANGED <<writers, main, register, stored, taken, size, astray,
                     thread>>
  BY DEF Unlink, queue
<1>2. /\ at[c] = "unlink" /\ at'[c] = "make"
      /\ at' \in [Programs -> ProgramPCs]
      /\ \A d \in Programs \ {c} : at'[d] = at[d]
  BY MoveType DEF Unlink, IInv, ProgramPCs
<1>3. Unsent(c)' => Unsent(c)
  BY <1>2 DEF Unsent
<1>4. c \in Managers => ~Sent(c)
  BY <1>2 DEF IInv, RequestsInv, Unsent
<1> QED
  BY <1>1, <1>2, <1>3, <1>4, ProgramStep DEF IInv, Shape

LEMMA MakeInv ==
    ASSUME IInv, NEW c \in Programs, Make(c)
    PROVE  IInv'
<1> DEFINE to == IF c \in Managers THEN "send" ELSE "open"
<1>1. /\ node' = [node EXCEPT ![c] = "new"]
      /\ UNCHANGED <<writers, main, register, stored, taken, size, astray,
                     thread>>
  BY DEF Make, queue
<1>2. Route(c).make = to /\ to \in ProgramPCs
  BY DEF Route, ProgramPCs
<1>3. /\ at[c] = "make" /\ at'[c] = to /\ at' \in [Programs -> ProgramPCs]
      /\ \A d \in Programs \ {c} : at'[d] = at[d]
  BY <1>2, MoveType DEF Make, IInv
<1>4. Unsent(c)' => Unsent(c)
  BY <1>3 DEF Unsent
<1> QED
  BY <1>1, <1>3, <1>4, ProgramStep DEF IInv, Shape

\* The program leaves, whatever the broker has of it.
LEMMA LeaveInv ==
    ASSUME IInv, NEW c \in Programs, End(c) \/ Kill(c)
    PROVE  IInv'
<1>1. /\ writers' \subseteq writers
      /\ UNCHANGED <<node, main, register, stored, taken, size, astray, thread>>
  BY DEF End, Kill, queue
<1>2. /\ \/ at[c] = "talking" /\ at'[c] = "ended"
         \/ at'[c] = "killed"
      /\ at' \in [Programs -> ProgramPCs]
      /\ \A d \in Programs \ {c} : at'[d] = at[d]
  BY DEF End, Kill, Move, IInv, Shape, ProgramPCs
<1>3. ~Unsent(c)' /\ (at'[c] \in {"talking", "ended"} => In(stored, c))
  BY <1>2 DEF Unsent, IInv, RequestsInv
<1>4. c \in Managers /\ Sent(c) => node[c] = "new"
  BY DEF IInv, PipesInv
<1> QED
  BY <1>1, <1>2, <1>3, <1>4, ProgramStep DEF IInv, Shape

\* What a step of a thread with the requests leaves: the requests that are
\* stored, and the programs.
LEMMA ThreadStep ==
    ASSUME IInv, NEW t \in Threads,
           UNCHANGED <<node, writers, main, register, stored>>,
           taken' \in Nat, size' \in Int,
           at' \in [Programs -> ProgramPCs],
           \A d \in Programs :
               \/ at'[d] = at[d]
               \/ at'[d] = "talking" /\ In(stored, d),
           thread' \in [Threads -> ThreadState],
           \A u \in Threads \ {t} : thread'[u] = thread[u],
           thread'[t].client # Nobody => In(stored, thread'[t].client),
           ThreadInv(t)'
    PROVE  IInv'
<1>1. Shape'
  BY DEF IInv, Shape
<1>2. \A d \in Programs : Sent(d)' <=> Sent(d)
  BY DEF Sent
<1>3. \A d \in Programs : Unsent(d)' => Unsent(d)
  BY DEF Unsent
<1>4. RequestsInv'
  BY <1>2, <1>3 DEF IInv, RequestsInv
<1>5. PipesInv'
  BY <1>2 DEF IInv, PipesInv, Programs
<1>6. \A u \in Threads : ThreadInv(u)'
  BY DEF IInv, ThreadInv
<1> QED
  BY <1>1, <1>4, <1>5, <1>6 DEF IInv

LEMMA MeetInv ==
    ASSUME IInv, NEW c \in Programs, NEW t \in Threads, Meet(t, c)
    PROVE  IInv'
<1>1. /\ thread' = [thread EXCEPT ![t].at = "talking"]
      /\ thread[t].at = "waiting" /\ thread[t].client = c
      /\ at' = [at EXCEPT ![c] = "talking"]
      /\ UNCHANGED <<node, writers, main, register, stored, taken, size,
                     astray>>
  BY DEF Meet, queue
<1>2. In(stored, c)
  BY <1>1, HandshakeAssumption DEF IInv, RequestsInv
<1>3. /\ thread' \in [Threads -> ThreadState] /\ thread'[t].at = "talking"
      /\ thread'[t].client = c
      /\ \A u \in Threads \ {t} : thread'[u] = thread[u]
  BY <1>1 DEF IInv, Shape, ThreadState
<1>4. /\ at' \in [Programs -> ProgramPCs] /\ at'[c] = "talking"
      /\ \A d \in Programs \ {c} : at'[d] = at[d]
  BY <1>1 DEF IInv, Shape, ProgramPCs
<1>5. ThreadInv(t)'
  BY <1>3, HandshakeAssumption DEF ThreadInv
<1> QED
  BY <1>1, <1>2, <1>3, <1>4, <1>5, ThreadStep DEF IInv, Shape

-----------------------------------------------------------------------------
(* The steps of the broker.                                                *)

LEMMA MainInv ==
    ASSUME IInv, MainWorks
    PROVE  IInv'
<1>1. UNCHANGED <<at, node, writers, taken, astray, thread>>
  BY DEF MainWorks, MainStarts, MainOpens, MainReads, MainCounts, MainAtEnd,
         programs, queue
<1>2. \A d \in Programs : Unsent(d)' <=> Unsent(d)
  BY <1>1 DEF Unsent
<1>3. \A t \in Threads : ThreadInv(t)'
  BY <1>1 DEF IInv, ThreadInv
<1>4. CASE MainReads
  <2> DEFINE r == Head(register)
  <2>1. /\ main' = "count" /\ register # <<>> /\ size' = size
        /\ stored' = Append(stored, r) /\ register' = Tail(register)
    BY <1>4 DEF MainReads
  <2>2. /\ register' \in Seq(Programs) /\ r \in Programs /\ In(register, r)
        /\ \A d : In(register', d) => In(register, d)
        /\ Distinct(register') /\ ~In(register', r)
    BY <2>1, InTail DEF IInv, Shape, RequestsInv
  <2>3. ~In(stored, r)
    BY <2>2 DEF IInv, RequestsInv
  <2>4. /\ stored' \in Seq(Programs) /\ Distinct(stored')
        /\ \A d : In(stored', d) <=> In(stored, d) \/ d = r
    BY <2>1, <2>2, <2>3, InAppend DEF IInv, Shape, RequestsInv
  <2>5. Shape'
    BY <1>1, <2>1, <2>2, <2>4 DEF IInv, Shape
  <2>6. \A d \in Programs : Sent(d)' => Sent(d)
    BY <1>1, <2>2, <2>4 DEF Sent
  <2>7. RequestsInv'
    BY <1>1, <1>2, <2>2, <2>4, <2>6 DEF IInv, RequestsInv
  <2>8. PipesInv'
    BY <1>1, <2>6 DEF IInv, PipesInv, Programs
  <2> QED
    BY <1>3, <2>5, <2>7, <2>8 DEF IInv
<1>5. CASE MainStarts \/ MainOpens \/ MainCounts \/ MainAtEnd
  <2>1. /\ main' \in {"again", "blocked", "read"} /\ size' \in Int
        /\ UNCHANGED <<register, stored>>
    BY <1>5 DEF MainStarts, MainOpens, MainCounts, MainAtEnd, queue, IInv,
                Shape
  <2>2. Shape'
    BY <1>1, <2>1 DEF IInv, Shape
  <2>3. \A d \in Programs : Sent(d)' <=> Sent(d)
    BY <2>1 DEF Sent
  <2>4. RequestsInv' /\ PipesInv'
    BY <1>1, <1>2, <2>1, <2>3 DEF IInv, RequestsInv, PipesInv, Programs
  <2> QED
    BY <1>3, <2>2, <2>4 DEF IInv
<1> QED
  BY <1>4, <1>5 DEF MainWorks

\* A slot holds what was stored, or nothing.
LEMMA SlotHoldsStored ==
    ASSUME stored \in Seq(Programs), NEW p, NEW c \in Slot(p)
    PROVE  /\ c \in Programs \cup {Nobody}
           /\ c # Nobody => In(stored, c)
<1> DEFINE last == {j \in 1 .. Len(stored) :
                     j + MaxSessions > Len(stored) /\ (p - j) % MaxSessions = 0}
<1>1. c = Nobody \/ \E j \in last : c = stored[j]
  BY DEF Slot
<1>2. \A j \in last : j \in 1 .. Len(stored)
  OBVIOUS
<1> HIDE DEF last
<1>3. \A j \in 1 .. Len(stored) : stored[j] \in Programs
  BY LenProperties
<1> QED
  BY <1>1, <1>2, <1>3 DEF In

LEMMA DequeueInv ==
    ASSUME IInv, NEW t \in Threads,
           Dequeue(t) \/ Takes(t) \/ TakesUnstored(t) \/ Counts(t)
             \/ CountsNoRequest(t)
    PROVE  IInv'
<1>1. /\ UNCHANGED <<at, node, writers, main, register, stored>>
      /\ taken' \in Nat /\ size' \in Int
  <2>1. taken \in Nat /\ size \in Int
    BY DEF IInv, Shape
  <2>2. ASSUME NEW c, Take(t, c)
        PROVE  /\ UNCHANGED <<at, node, writers, main, register, stored, size>>
               /\ taken' = taken + 1
    BY <2>2 DEF Take, programs
  <2>3. CASE Takes(t) \/ TakesUnstored(t)
    <3>1. \E c : Take(t, c)
      BY <2>3 DEF Takes, TakesUnstored
    <3> QED
      BY <2>1, <2>2, <3>1
  <2>4. CASE Dequeue(t) \/ Counts(t) \/ CountsNoRequest(t)
    BY <2>1, <2>4 DEF Dequeue, Counts, CountsNoRequest, programs, queue
  <2> QED
    BY <2>3, <2>4
<1>2. ASSUME NEW c \in Programs \cup {Nobody}, Take(t, c),
             c # Nobody => In(stored, c)
      PROVE  IInv'
  <2>1. /\ thread' \in [Threads -> ThreadState]
        /\ \A u \in Threads \ {t} : thread'[u] = thread[u]
        /\ thread'[t].at = "counting" /\ thread'[t].client = c
    BY <1>2 DEF Take, IInv, Shape, ThreadState
  <2>2. ThreadInv(t)'
    BY <2>1 DEF ThreadInv
  <2> QED
    BY <1>1, <1>2, <2>1, <2>2, ThreadStep DEF IInv, Shape
<1>3. CASE Takes(t)
  <2>1. taken + 1 \in 1 .. Len(stored)
    BY <1>3, LenProperties DEF Takes, IInv, Shape
  <2>2. stored[taken + 1] \in Programs /\ In(stored, stored[taken + 1])
    BY <2>1, LenProperties DEF IInv, Shape, In
  <2> QED
    BY <1>2, <1>3, <2>2 DEF Takes
<1>4. CASE TakesUnstored(t)
  <2>1. PICK c \in Slot(taken + 1) : Take(t, c)
    BY <1>4 DEF TakesUnstored
  <2>2. c \in Programs \cup {Nobody} /\ (c # Nobody => In(stored, c))
    BY SlotHoldsStored DEF IInv, Shape
  <2> QED
    BY <1>2, <2>1, <2>2
<1>5. CASE Dequeue(t) \/ Counts(t) \/ CountsNoRequest(t)
  <2>1. PICK a \in {"taking", "open", "ended", "idle"} :
          /\ thread' = [thread EXCEPT ![t].at = a]
          /\ a = "taking" => thread[t].at = "idle"
          /\ a = "open" => thread[t].client # Nobody /\ thread[t].at = "counting"
          /\ a \in {"ended", "idle"} => thread[t].client = Nobody
    BY <1>5 DEF Dequeue, Counts, CountsNoRequest
  <2>2. /\ thread' \in [Threads -> ThreadState]
        /\ \A u \in Threads \ {t} : thread'[u] = thread[u]
        /\ thread'[t].at = a /\ thread'[t].client = thread[t].client
    BY <2>1 DEF IInv, Shape, ThreadState
  <2>3. ThreadInv(t)'
    BY <2>1, <2>2, HandshakeAssumption DEF IInv, ThreadInv, Programs
  <2>4. thread'[t].client # Nobody => In(stored, thread'[t].client)
    BY <2>2 DEF IInv, RequestsInv
  <2> QED
    BY <1>1, <2>2, <2>3, <2>4, ThreadStep DEF IInv, Shape
<1> QED
  BY <1>3, <1>4, <1>5

\* The pipe of a manager is there when a thread comes to open it.
LEMMA ThreadOpensInv ==
    ASSUME IInv, NEW t \in Threads, ThreadOpens(t) \/ ThreadFails(t)
    PROVE  IInv'
<1> DEFINE c == thread[t].client
<1>1. /\ thread[t].at = "open"
      /\ UNCHANGED <<at, node, writers, main, register, stored, taken, size,
                     astray>>
  BY DEF ThreadOpens, ThreadFails, programs, queue
<1>2. c \in Programs /\ In(stored, c) /\ (c \in Managers => node[c] = "new")
  BY <1>1
     DEF IInv, Shape, ThreadState, ThreadInv, RequestsInv, PipesInv, Sent,
         Programs
<1>3. /\ thread' \in [Threads -> ThreadState]
      /\ \A u \in Threads \ {t} : thread'[u] = thread[u]
      /\ thread'[t].client = c
      /\ \/ thread'[t].at = "waiting" /\ thread'[t].node = node[c]
         \/ thread'[t].at = "closing" /\ node[c] = "none"
  <2>1. /\ thread[t] \in ThreadState /\ thread \in [Threads -> ThreadState]
        /\ node[c] \in {"none", "old", "new"}
    BY <1>2 DEF IInv, Shape
  <2>2. CASE ThreadOpens(t)
    <3>1. thread' = [thread EXCEPT ![t].at = "waiting", ![t].node = node[c]]
      BY <2>2 DEF ThreadOpens
    <3> QED
      BY <2>1, <3>1 DEF ThreadState
  <2>3. CASE ThreadFails(t)
    <3>1. thread' = [thread EXCEPT ![t].at = "closing"] /\ node[c] = "none"
      BY <2>3 DEF ThreadFails
    <3> QED
      BY <2>1, <3>1 DEF ThreadState
  <2> QED
    BY <2>2, <2>3
<1>4. ThreadInv(t)'
  BY <1>2, <1>3, HandshakeAssumption DEF ThreadInv
<1> QED
  BY <1>1, <1>2, <1>3, <1>4, ThreadStep DEF IInv, Shape

LEMMA SessionEndsInv ==
    ASSUME IInv, NEW t \in Threads, SessionEnds(t)
    PROVE  IInv'
<1>1. UNCHANGED <<at, node, writers, main, register, stored, taken, size,
                  astray>>
  BY DEF SessionEnds, programs, queue
<1>2. /\ thread' \in [Threads -> ThreadState] /\ thread'[t] = Idle
      /\ \A u \in Threads \ {t} : thread'[u] = thread[u]
  BY DEF SessionEnds, IInv, Shape, ThreadState, Idle
<1>3. Idle.at = "idle" /\ Idle.client = Nobody
  BY DEF Idle
<1>4. ThreadInv(t)'
  BY <1>2, <1>3, HandshakeAssumption DEF ThreadInv, Programs
<1> QED
  BY <1>1, <1>2, <1>3, <1>4, ThreadStep DEF IInv, Shape

LEMMA InitIInv == Init => IInv
<1> SUFFICES ASSUME Init
             PROVE  IInv
  OBVIOUS
<1>1. Shape
  <2>1. Idle \in ThreadState
    BY DEF Idle, ThreadState
  <2>2. thread \in [Threads -> ThreadState]
    BY <2>1 DEF Init
  <2>3. register \in Seq(Programs) /\ stored \in Seq(Programs)
    BY DEF Init
  <2>4. at \in [Programs -> ProgramPCs] /\ node \in [Programs -> {"none", "old", "new"}]
    BY DEF Init, ProgramPCs
  <2> QED
    BY <2>2, <2>3, <2>4 DEF Init, Shape
<1>2. \A t \in Threads : thread[t].client = Nobody /\ thread[t].at = "idle"
  BY DEF Init, Idle
<1>3. \A c : ~In(register, c) /\ ~In(stored, c)
  BY DEF Init, In
<1>4. \A c \in Programs : at[c] = "start" /\ ~Sent(c)
  BY <1>3 DEF Init, Sent
<1>5. RequestsInv
  BY <1>2, <1>3, <1>4 DEF Init, RequestsInv, Distinct
<1>6. PipesInv
  BY <1>4 DEF PipesInv, Programs
<1> QED
  BY <1>1, <1>2, <1>5, <1>6, HandshakeAssumption DEF IInv, ThreadInv, Programs

LEMMA NextIInv == IInv /\ [Next]_vars => IInv'
<1> SUFFICES ASSUME IInv, [Next]_vars
             PROVE  IInv'
  OBVIOUS
<1>1. CASE Next
  BY <1>1, OpenRegisterInv, SendInv, UnlinkInv, MakeInv, LeaveInv, MeetInv,
     MainInv, DequeueInv, ThreadOpensInv, SessionEndsInv
     DEF Next, ProgramWorks, ThreadWorks
<1>2. CASE UNCHANGED vars
  BY <1>2 DEF vars, programs, queue, IInv, Shape, RequestsInv, PipesInv,
              ThreadInv, Unsent, Sent
<1> QED
  BY <1>1, <1>2

\* Every request is in one place, and the pipe of a manager that has sent one
\* is at its path.
THEOREM IInvHolds == Spec => []IInv
  BY InitIInv, NextIInv, PTL DEF Spec

-----------------------------------------------------------------------------
(* The count of the queue.  It is behind the ring by the thread that has   *)
(* stored, and before it by those that took, until they count.             *)

Counting == {t \in Threads : thread[t].at = "counting"}
Uncounted == IF main = "count" THEN 1 ELSE 0

CountInv ==
    /\ size = Len(stored) - taken - Uncounted + Cardinality(Counting)
    /\ size + Uncounted <= MaxSessions

LEMMA ThreadsFinite ==
    /\ IsFiniteSet(Threads)
    /\ IsFiniteSet(Counting) /\ Cardinality(Counting) \in Nat
<1>1. IsFiniteSet(Threads)
  BY FS_Interval, HandshakeAssumption DEF Threads
<1>2. IsFiniteSet(Counting)
  BY <1>1, FS_Subset DEF Counting
<1> QED
  BY <1>1, <1>2, FS_CardinalityType

LEMMA CountSame ==
    ASSUME CountInv, UNCHANGED <<stored, taken, size>>,
           Uncounted' = Uncounted, Counting' = Counting
    PROVE  CountInv'
  BY DEF CountInv

LEMMA MainCountInv ==
    ASSUME IInv, CountInv, MainWorks
    PROVE  CountInv'
<1>1. UNCHANGED <<taken, thread>>
  BY DEF MainWorks, MainStarts, MainOpens, MainReads, MainCounts, MainAtEnd,
         queue
<1>2. Counting' = Counting
  BY <1>1 DEF Counting
<1>3. /\ Len(stored) \in Nat /\ taken \in Nat /\ size \in Int
      /\ Cardinality(Counting) \in Nat /\ MaxSessions \in Nat
  BY LenProperties, ThreadsFinite, HandshakeAssumption DEF IInv, Shape
<1>4. CASE MainReads
  <2>1. Head(register) \in Programs
    BY <1>4, InTail DEF MainReads, IInv, Shape
  <2>2. Len(stored') = Len(stored) + 1
    BY <1>4, <2>1, AppendProperties DEF MainReads, IInv, Shape
  <2>3. /\ size' = size /\ size # MaxSessions
        /\ Uncounted = 0 /\ Uncounted' = 1
    BY <1>4 DEF MainReads, Uncounted
  <2> QED
    BY <1>1, <1>2, <1>3, <2>2, <2>3 DEF CountInv
<1>5. CASE MainCounts
  <2>1. /\ size' = size + 1 /\ UNCHANGED stored
        /\ Uncounted = 1 /\ Uncounted' = 0
    BY <1>5 DEF MainCounts, Uncounted
  <2> QED
    BY <1>1, <1>2, <1>3, <2>1 DEF CountInv
<1>6. CASE MainStarts \/ MainOpens \/ MainAtEnd
  <2>1. UNCHANGED <<stored, size>> /\ Uncounted' = Uncounted
    BY <1>6 DEF MainStarts, MainOpens, MainAtEnd, queue, Uncounted
  <2> QED
    BY <1>1, <1>2, <2>1, CountSame
<1> QED
  BY <1>4, <1>5, <1>6 DEF MainWorks

LEMMA TakeCountInv ==
    ASSUME IInv, CountInv, NEW t \in Threads,
           Takes(t) \/ TakesUnstored(t)
    PROVE  CountInv'
<1> PICK c : Take(t, c)
  BY DEF Takes, TakesUnstored
<1>1. /\ UNCHANGED <<main, stored, size>> /\ taken' = taken + 1
      /\ thread[t].at # "counting"
  BY DEF Take
<1>2. /\ thread'[t].at = "counting"
      /\ \A u \in Threads \ {t} : thread'[u].at = thread[u].at
  BY DEF Take, IInv, Shape, ThreadState
<1>3. Counting' = Counting \cup {t} /\ t \notin Counting
  BY <1>1, <1>2 DEF Counting
<1>4. Cardinality(Counting') = Cardinality(Counting) + 1
  BY <1>3, ThreadsFinite, FS_AddElement
<1>5. /\ Len(stored) \in Nat /\ taken \in Nat /\ size \in Int
      /\ Cardinality(Counting) \in Nat
  BY LenProperties, ThreadsFinite DEF IInv, Shape
<1>6. Uncounted' = Uncounted /\ Uncounted \in {0, 1}
  BY <1>1 DEF Uncounted
<1> QED
  BY <1>1, <1>4, <1>5, <1>6 DEF CountInv

LEMMA CountsCountInv ==
    ASSUME IInv, CountInv, NEW t \in Threads,
           Counts(t) \/ CountsNoRequest(t)
    PROVE  CountInv'
<1>1. /\ UNCHANGED <<main, stored, taken>> /\ size' = size - 1
      /\ thread[t].at = "counting"
  BY DEF Counts, CountsNoRequest
<1>2. /\ thread'[t].at # "counting"
      /\ \A u \in Threads \ {t} : thread'[u].at = thread[u].at
  BY DEF Counts, CountsNoRequest, IInv, Shape, ThreadState
<1>3. Counting' = Counting \ {t} /\ t \in Counting
  BY <1>1, <1>2 DEF Counting
<1>4. Cardinality(Counting') = Cardinality(Counting) - 1
  BY <1>3, ThreadsFinite, FS_RemoveElement
<1>5. /\ Len(stored) \in Nat /\ taken \in Nat /\ size \in Int
      /\ Cardinality(Counting) \in Nat /\ MaxSessions \in Nat
  BY LenProperties, ThreadsFinite, HandshakeAssumption DEF IInv, Shape
<1>6. Uncounted' = Uncounted /\ Uncounted \in {0, 1}
  BY <1>1 DEF Uncounted
<1> QED
  BY <1>1, <1>4, <1>5, <1>6 DEF CountInv

\* A step that neither stores, takes nor counts.
LEMMA OthersCountInv ==
    ASSUME IInv, CountInv,
           \/ \E c \in Programs : ProgramWorks(c) \/ End(c) \/ Kill(c)
           \/ \E t \in Threads : Dequeue(t) \/ ThreadOpens(t)
                                   \/ ThreadFails(t) \/ SessionEnds(t)
    PROVE  CountInv'
<1>1. CASE \E c \in Programs : OpenRegister(c) \/ Send(c) \/ Unlink(c)
                                 \/ Make(c) \/ End(c) \/ Kill(c)
  <2>1. UNCHANGED <<stored, taken, size, thread>>
    BY <1>1 DEF OpenRegister, Send, Unlink, Make, End, Kill, queue
  <2>2. Uncounted' = Uncounted
    BY <1>1 DEF OpenRegister, Send, Unlink, Make, End, Kill, Uncounted
  <2> QED
    BY <2>1, <2>2, CountSame DEF Counting
<1>2. CASE \E t \in Threads :
             \/ \E c \in Programs : Meet(t, c)
             \/ Dequeue(t) \/ ThreadOpens(t) \/ ThreadFails(t)
             \/ SessionEnds(t)
  <2> PICK t \in Threads :
             \/ \E c \in Programs : Meet(t, c)
             \/ Dequeue(t) \/ ThreadOpens(t) \/ ThreadFails(t)
             \/ SessionEnds(t)
    BY <1>2
  <2>1. UNCHANGED <<main, stored, taken, size>>
    BY DEF Meet, Dequeue, ThreadOpens, ThreadFails, SessionEnds, programs,
           queue
  <2>2. /\ thread[t].at # "counting" /\ thread'[t].at # "counting"
        /\ \A u \in Threads \ {t} : thread'[u].at = thread[u].at
    BY DEF Meet, Dequeue, ThreadOpens, ThreadFails, SessionEnds, IInv, Shape,
           ThreadState, Idle
  <2>3. Counting' = Counting
    BY <2>2 DEF Counting
  <2> QED
    BY <2>1, <2>3, CountSame DEF Uncounted
<1> QED
  BY <1>1, <1>2 DEF ProgramWorks

LEMMA InitCount == Init => CountInv
<1> SUFFICES ASSUME Init
             PROVE  CountInv
  OBVIOUS
<1>1. Counting = {} /\ Uncounted = 0
  BY DEF Init, Idle, Counting, Uncounted
<1>2. Cardinality(Counting) = 0
  BY <1>1, FS_EmptySet
<1>3. Len(stored) = 0 /\ taken = 0 /\ size = 0
  BY DEF Init
<1> QED
  BY <1>1, <1>2, <1>3, HandshakeAssumption DEF CountInv

LEMMA NextCount == IInv /\ CountInv /\ [Next]_vars => CountInv'
<1> SUFFICES ASSUME IInv, CountInv, [Next]_vars
             PROVE  CountInv'
  OBVIOUS
<1>1. CASE Next
  BY <1>1, MainCountInv, TakeCountInv, CountsCountInv, OthersCountInv
     DEF Next, ThreadWorks
<1>2. CASE UNCHANGED vars
  BY <1>2, CountSame DEF vars, queue, Counting, Uncounted
<1> QED
  BY <1>1, <1>2

LEMMA CountInvHolds == Spec => []CountInv
  BY InitCount, NextCount, IInvHolds, PTL DEF Spec

\* A request is never in the register pipe and the queue at once, nor stored
\* twice, a thread without a client waits for no pipe, and nothing is stored
\* over a request that is still to be taken, for any number of programs and
\* threads and however far the queue goes astray.
THEOREM TypeCorrect == Spec => []TypeOK
<1>1. IInv /\ CountInv => TypeOK
  <2> SUFFICES ASSUME IInv, CountInv
               PROVE  TypeOK
    OBVIOUS
  <2> DEFINE s == register \o stored
  <2>1. /\ DOMAIN s = 1 .. Len(register) + Len(stored)
        /\ \A i \in DOMAIN s :
             s[i] = IF i <= Len(register) THEN register[i]
                    ELSE stored[i - Len(register)]
        /\ Len(register) \in Nat /\ Len(stored) \in Nat
    BY ConcatProperties, LenProperties DEF IInv, Shape
  <2>2. ASSUME NEW i \in 1 .. Len(register), NEW j \in 1 .. Len(stored)
        PROVE  register[i] # stored[j]
    <3>1. register[i] \in Programs
      BY LenProperties DEF IInv, Shape
    <3> QED
      BY <3>1 DEF IInv, RequestsInv, In
  <2>3. \A i, j \in DOMAIN s : s[i] = s[j] => i = j
    BY <2>1, <2>2 DEF IInv, RequestsInv, Distinct
  <2>4. Len(stored) - taken <= MaxSessions
    <3>1. /\ taken \in Nat /\ size \in Int /\ Cardinality(Counting) \in Nat
          /\ Uncounted \in {0, 1} /\ MaxSessions \in Nat
      BY ThreadsFinite, HandshakeAssumption DEF IInv, Shape, Uncounted
    <3> QED
      BY <2>1, <3>1 DEF CountInv
  <2> QED
    BY <2>3, <2>4 DEF IInv, Shape, ProgramPCs, ThreadInv, TypeOK
<1> QED
  BY <1>1, IInvHolds, CountInvHolds, PTL

-----------------------------------------------------------------------------
(* One thread passes the test and counts before it tests again, so that    *)
(* what it passed the test for is there.                                   *)

OneInv ==
    MaxSessions = 1 =>
        /\ ~astray /\ size >= 0
        /\ thread[0].at \in {"taking", "counting"} => size >= 1

LEMMA OneThread == MaxSessions = 1 => Threads = {0}
  BY DEF Threads

LEMMA OneTakes ==
    ASSUME IInv, CountInv, OneInv, MaxSessions = 1, NEW t \in Threads,
           TakesUnstored(t)
    PROVE  FALSE
<1>1. t = 0 /\ thread[t].at = "taking" /\ taken >= Len(stored)
  BY OneThread DEF TakesUnstored, Take
<1>2. size >= 1
  BY <1>1 DEF OneInv
<1>3. Counting = {}
  BY <1>1, OneThread DEF Counting
<1>4. Cardinality(Counting) = 0
  BY <1>3, FS_EmptySet
<1>5. /\ Len(stored) \in Nat /\ taken \in Nat /\ size \in Int
      /\ Uncounted \in {0, 1}
  BY LenProperties DEF IInv, Shape, Uncounted
<1> QED
  BY <1>1, <1>2, <1>4, <1>5 DEF CountInv

LEMMA NextOne == IInv /\ CountInv /\ OneInv /\ [Next]_vars => OneInv'
<1> SUFFICES ASSUME IInv, CountInv, OneInv, [Next]_vars, MaxSessions = 1
             PROVE  /\ ~astray' /\ size' >= 0
                    /\ thread'[0].at \in {"taking", "counting"} => size' >= 1
  BY DEF OneInv
<1>1. /\ ~astray /\ size >= 0 /\ size \in Int
      /\ thread[0].at \in {"taking", "counting"} => size >= 1
      /\ 0 \in Threads /\ \A t \in Threads : t = 0
  BY OneThread DEF OneInv, IInv, Shape
<1>2. CASE \E c \in Programs : OpenRegister(c) \/ Send(c) \/ Unlink(c)
                                 \/ Make(c) \/ End(c) \/ Kill(c)
  BY <1>1, <1>2 DEF OpenRegister, Send, Unlink, Make, End, Kill, queue
<1>3. CASE MainWorks
  <2>1. UNCHANGED <<astray, thread>> /\ size' \in {size, size + 1}
    BY <1>3 DEF MainWorks, MainStarts, MainOpens, MainReads, MainCounts,
                MainAtEnd, queue
  <2> QED
    BY <1>1, <2>1
<1>4. CASE \E c \in Programs : Meet(0, c)
  BY <1>1, <1>4 DEF Meet, queue, IInv, Shape, ThreadState
<1>5. CASE Dequeue(0)
  BY <1>1, <1>5 DEF Dequeue, queue
<1>6. CASE Takes(0) \/ TakesUnstored(0)
  <2>1. Takes(0)
    BY <1>1, <1>6, OneTakes
  <2> QED
    BY <1>1, <2>1 DEF Takes, Take
<1>7. CASE Counts(0) \/ CountsNoRequest(0)
  <2>1. /\ size' = size - 1 /\ astray' = astray
        /\ thread[0].at = "counting"
        /\ thread'[0].at \in {"open", "ended", "idle"}
    BY <1>1, <1>7 DEF Counts, CountsNoRequest, IInv, Shape, ThreadState
  <2> QED
    BY <1>1, <2>1
<1>8. CASE ThreadOpens(0) \/ ThreadFails(0) \/ SessionEnds(0)
  <2>1. UNCHANGED <<size, astray>>
    BY <1>8 DEF ThreadOpens, ThreadFails, SessionEnds, queue
  <2>2. thread'[0].at \in {"waiting", "closing", "idle"}
    BY <1>1, <1>8 DEF ThreadOpens, ThreadFails, SessionEnds, Idle, IInv,
                      Shape, ThreadState
  <2> QED
    BY <1>1, <2>1, <2>2
<1>9. CASE UNCHANGED vars
  BY <1>1, <1>9 DEF vars, queue
<1>10. CASE Next
  BY <1>1, <1>2, <1>3, <1>4, <1>5, <1>6, <1>7, <1>8, <1>10
     DEF Next, ProgramWorks, ThreadWorks
<1> QED
  BY <1>9, <1>10

\* The queue of a broker with one session thread never goes astray, whatever
\* its programs do: the thread never takes a position that is not stored.
THEOREM OneSessionInStep == Spec => []QueueInStep
<1>1. Init => OneInv
  BY OneThread DEF Init, Idle, OneInv
<1>2. OneInv => QueueInStep
  BY DEF OneInv, QueueInStep
<1> QED
  BY <1>1, <1>2, NextOne, IInvHolds, CountInvHolds, PTL DEF Spec

-----------------------------------------------------------------------------
(* Until a position is taken before it is stored, a request is in the      *)
(* register pipe, in the queue or with one thread, from its being sent     *)
(* until it is answered.                                                   *)

Answered(c) == at[c] \in {"talking", "ended"}

\* A thread's request is in no second place.
ClientsInv ==
    /\ taken <= Len(stored)
    /\ \A t \in Threads :
         thread[t].client # Nobody => ~InQueue(thread[t].client)
    /\ \A t, u \in Threads :
         thread[t].client = thread[u].client /\ thread[t].client # Nobody =>
           t = u

\* A program was answered by the thread that talks to it.
AnswersInv ==
    /\ \A t \in Threads :
         thread[t].at = "talking" => Answered(thread[t].client)
    /\ \A c \in Programs : Answered(c) =>
         /\ ~InQueue(c)
         /\ \A t \in Threads :
              thread[t].client = c => thread[t].at = "talking"

AskersInv ==
    \A c \in Programs :
        Asking(c) => In(register, c) \/ InQueue(c) \/ InReach(c)

StepInv == ~astray => ClientsInv /\ AnswersInv /\ AskersInv

\* Programs have the register pipe open while they run.
WritersInv ==
    /\ \A c \in Programs :
         at[c] \notin {"start", "ended", "killed"} => c \in writers
    /\ main = "blocked" => writers = {}

\* A step of program c, after which it asks for no more than before, ...
LEMMA ProgramKeeps ==
    ASSUME IInv, ClientsInv, AnswersInv, AskersInv, NEW c \in Programs,
           UNCHANGED <<stored, taken, thread>>,
           \A d : In(register, d) => In(register', d),
           \A d \in Programs \ {c} : at'[d] = at[d],
           Answered(c)' <=> Answered(c),
           Asking(c)' => Asking(c) \/ In(register', c)
    PROVE  ClientsInv' /\ AnswersInv' /\ AskersInv'
<1>1. \A d : InQueue(d)' <=> InQueue(d)
  BY DEF InQueue
<1>2. ClientsInv'
  BY <1>1 DEF ClientsInv
<1>3. \A d \in Programs : Answered(d)' <=> Answered(d)
  BY DEF Answered
<1>4. \A t \in Threads : thread[t].at = "talking" =>
                           thread[t].client \in Programs
  BY DEF IInv, Shape, ThreadState, ThreadInv
<1>5. AnswersInv'
  BY <1>1, <1>3, <1>4 DEF AnswersInv
<1>6. \A d \in Programs \ {c} : Asking(d)' <=> Asking(d)
  BY DEF Asking
<1>7. \A d : InReach(d)' <=> InReach(d)
  BY DEF InReach
<1>8. AskersInv'
  BY <1>1, <1>6, <1>7 DEF AskersInv
<1> QED
  BY <1>2, <1>5, <1>8

\* ... and a step of a thread that keeps its request and talks to nobody.
LEMMA ThreadKeeps ==
    ASSUME IInv, ClientsInv, AnswersInv, AskersInv, NEW t \in Threads,
           UNCHANGED <<at, register, stored, taken>>,
           \A u \in Threads \ {t} : thread'[u] = thread[u],
           thread'[t].client = thread[t].client,
           thread[t].at # "talking", thread'[t].at # "talking"
    PROVE  ClientsInv' /\ AnswersInv' /\ AskersInv'
<1>1. \A d : InQueue(d)' <=> InQueue(d)
  BY DEF InQueue
<1>2. \A u \in Threads : /\ thread'[u].client = thread[u].client
                         /\ thread'[u].at = "talking" <=>
                              thread[u].at = "talking"
  OBVIOUS
<1>3. ClientsInv'
  BY <1>1, <1>2 DEF ClientsInv
<1>4. \A d : (Answered(d)' <=> Answered(d)) /\ (Asking(d)' <=> Asking(d))
  BY DEF Answered, Asking
<1>5. AnswersInv'
  BY <1>1, <1>2, <1>4 DEF AnswersInv
<1>6. \A d : InReach(d)' <=> InReach(d)
  BY <1>2 DEF InReach
<1>7. AskersInv'
  BY <1>1, <1>4, <1>6 DEF AskersInv
<1> QED
  BY <1>3, <1>5, <1>7

LEMMA ProgramsStep ==
    ASSUME IInv, ClientsInv, AnswersInv, AskersInv, NEW c \in Programs,
           OpenRegister(c) \/ Send(c) \/ Unlink(c) \/ Make(c)
             \/ End(c) \/ Kill(c)
    PROVE  ClientsInv' /\ AnswersInv' /\ AskersInv'
<1>1. UNCHANGED <<stored, taken, thread>>
  BY DEF OpenRegister, Send, Unlink, Make, End, Kill, queue
<1>2. \A d \in Programs \ {c} : at'[d] = at[d]
  BY DEF OpenRegister, Send, Unlink, Make, End, Kill, Move, IInv, Shape
<1>3. /\ at[c] \in ProgramPCs /\ at \in [Programs -> ProgramPCs]
      /\ c \in Managers <=> c \notin Early
  BY HandshakeAssumption DEF IInv, Shape, Programs
<1>4. CASE Send(c)
  <2>1. /\ register' = Append(register, c)
        /\ at[c] = "send" /\ at'[c] \in {"unlink", "open"}
    BY <1>3, <1>4 DEF Send, Move, Route
  <2>2. \A d : In(register', d) <=> In(register, d) \/ d = c
    BY <2>1, InAppend DEF IInv, Shape
  <2>3. Answered(c)' <=> Answered(c)
    BY <2>1 DEF Answered
  <2> QED
    BY <1>1, <1>2, <2>2, <2>3, ProgramKeeps
<1>5. CASE OpenRegister(c) \/ Unlink(c) \/ Make(c)
  <2>1. /\ at[c] \in {"start", "unlink", "make"} /\ register' = register
        /\ at'[c] \in {"send", "unlink", "make", "open"}
        /\ Asking(c)' => Asking(c)
    BY <1>3, <1>5 DEF OpenRegister, Unlink, Make, Move, Route, Asking
  <2>2. Answered(c)' <=> Answered(c)
    BY <2>1 DEF Answered
  <2> QED
    BY <1>1, <1>2, <2>1, <2>2, ProgramKeeps
<1>6. CASE End(c) \/ Kill(c)
  <2>1. /\ register' = register
        /\ \/ at[c] = "talking" /\ at'[c] = "ended"
           \/ at[c] \notin {"talking", "ended"} /\ at'[c] = "killed"
    BY <1>3, <1>6 DEF End, Kill, Move
  <2>2. (Answered(c)' <=> Answered(c)) /\ ~Asking(c)'
    BY <2>1 DEF Answered, Asking
  <2> QED
    BY <1>1, <1>2, <2>1, <2>2, ProgramKeeps
<1> QED
  BY <1>4, <1>5, <1>6

\* Only the thread that a program has been waiting for talks to it.
LEMMA MeetKeeps ==
    ASSUME IInv, ClientsInv, AnswersInv, AskersInv,
           NEW c \in Programs, NEW t \in Threads, Meet(t, c)
    PROVE  ClientsInv' /\ AnswersInv' /\ AskersInv'
<1>1. /\ UNCHANGED <<register, stored, taken>>
      /\ \A d \in Programs \ {c} : at'[d] = at[d]
      /\ at'[c] = "talking" /\ thread[t].client = c /\ c # Nobody
  BY HandshakeAssumption DEF Meet, queue, IInv, Shape
<1>2. /\ \A u \in Threads : thread'[u].client = thread[u].client
      /\ \A u \in Threads \ {t} : thread'[u].at = thread[u].at
      /\ thread'[t].at = "talking"
  BY DEF Meet, IInv, Shape, ThreadState
<1>3. \A d : InQueue(d)' <=> InQueue(d)
  BY <1>1 DEF InQueue
<1>4. ClientsInv'
  BY <1>1, <1>2, <1>3 DEF ClientsInv
<1>5. /\ Answered(c)'
      /\ \A d \in Programs \ {c} : Answered(d)' <=> Answered(d)
  BY <1>1 DEF Answered
<1>6. ~InQueue(c) /\ \A u \in Threads : thread[u].client = c => u = t
  BY <1>1 DEF ClientsInv
<1>7. AnswersInv'
  <2>1. ASSUME NEW u \in Threads, thread'[u].at = "talking"
        PROVE  Answered(thread[u].client)'
    <3>1. CASE thread[u].client = c
      BY <1>1, <1>2, <3>1 DEF Answered
    <3>2. CASE thread[u].client # c
      <4>1. u # t /\ thread[u].at = "talking"
        BY <1>1, <1>2, <2>1, <3>2
      <4>2. thread[u].client \in Programs
        BY <4>1 DEF IInv, Shape, ThreadState, ThreadInv
      <4> QED
        BY <1>1, <1>2, <3>2, <4>1, <4>2 DEF AnswersInv, Answered
    <3> QED
      BY <3>1, <3>2
  <2>2. ASSUME NEW d \in Programs, Answered(d)'
        PROVE  /\ ~InQueue(d)'
               /\ \A u \in Threads :
                    thread'[u].client = d => thread'[u].at = "talking"
    <3>1. CASE d = c
      BY <1>2, <1>3, <1>6, <3>1
    <3>2. CASE d # c
      BY <1>1, <1>2, <1>3, <1>5, <2>2, <3>2 DEF AnswersInv
    <3> QED
      BY <3>1, <3>2
  <2> QED
    BY <2>1, <2>2 DEF AnswersInv
<1>8. \A d \in Programs : Asking(d)' => Asking(d)
  BY <1>1 DEF Asking
<1>9. \A d : InReach(d)' <=> InReach(d)
  BY <1>2 DEF InReach
<1>10. AskersInv'
  BY <1>1, <1>3, <1>8, <1>9 DEF AskersInv
<1> QED
  BY <1>4, <1>7, <1>10

LEMMA MainKeeps ==
    ASSUME IInv, ClientsInv, AnswersInv, AskersInv, MainWorks
    PROVE  ClientsInv' /\ AnswersInv' /\ AskersInv'
<1>1. UNCHANGED <<at, taken, thread>>
  BY DEF MainWorks, MainStarts, MainOpens, MainReads, MainCounts, MainAtEnd,
         programs, queue
<1>2. \A d : /\ Answered(d)' <=> Answered(d)
             /\ Asking(d)' <=> Asking(d)
             /\ InReach(d)' <=> InReach(d)
  BY <1>1 DEF Answered, Asking, InReach
<1>3. CASE MainReads
  <2> DEFINE r == Head(register)
  <2>1. /\ register # <<>> /\ stored' = Append(stored, r)
        /\ register' = Tail(register)
    BY <1>3 DEF MainReads
  <2>2. r \in Programs /\ In(register, r)
    BY <2>1, InTail DEF IInv, Shape
  <2>3. /\ Len(stored) \in Nat /\ Len(stored') = Len(stored) + 1
        /\ \A i \in 1 .. Len(stored) : stored'[i] = stored[i]
        /\ stored'[Len(stored) + 1] = r /\ taken \in Nat
    BY <2>1, <2>2, AppendProperties, LenProperties DEF IInv, Shape
  <2>4. \A d : InQueue(d)' <=> InQueue(d) \/ d = r
    BY <1>1, <2>3 DEF InQueue, ClientsInv
  <2>5. ~In(stored, r)
    BY <2>2 DEF IInv, RequestsInv
  <2>6. /\ \A t \in Threads : thread[t].client # r
        /\ ~Answered(r)
    BY <2>2, <2>5, HandshakeAssumption DEF IInv, RequestsInv, Answered
  <2>7. ClientsInv'
    BY <1>1, <2>3, <2>4, <2>6 DEF ClientsInv
  <2>8. AnswersInv'
    BY <1>1, <1>2, <2>4, <2>6 DEF AnswersInv
  <2>9. \A d : In(register, d) => In(register', d) \/ d = r
    BY <2>1, TailHolds DEF IInv, Shape
  <2>10. AskersInv'
    BY <1>2, <2>4, <2>9 DEF AskersInv
  <2> QED
    BY <2>7, <2>8, <2>10
<1>4. CASE MainStarts \/ MainOpens \/ MainCounts \/ MainAtEnd
  <2>1. UNCHANGED <<register, stored>>
    BY <1>4 DEF MainStarts, MainOpens, MainCounts, MainAtEnd, queue
  <2>2. \A d : InQueue(d)' <=> InQueue(d)
    BY <1>1, <2>1 DEF InQueue
  <2> QED
    BY <1>1, <1>2, <2>1, <2>2 DEF ClientsInv, AnswersInv, AskersInv
<1> QED
  BY <1>3, <1>4 DEF MainWorks

LEMMA TakesKeeps ==
    ASSUME IInv, ClientsInv, AnswersInv, AskersInv, NEW t \in Threads,
           Takes(t)
    PROVE  ClientsInv' /\ AnswersInv' /\ AskersInv'
<1> DEFINE r == stored[taken + 1]
<1>1. /\ taken < Len(stored) /\ taken' = taken + 1
      /\ UNCHANGED <<at, register, stored>> /\ thread[t].at = "taking"
  BY DEF Takes, Take, programs
<1>2. taken \in Nat /\ Len(stored) \in Nat /\ r \in Programs /\ r # Nobody
  BY <1>1, LenProperties, HandshakeAssumption DEF IInv, Shape
<1>3. InQueue(r) /\ \A d : InQueue(d) => InQueue(d)' \/ d = r
  BY <1>1, <1>2 DEF InQueue
<1>4. \A d : InQueue(d)' => InQueue(d) /\ d # r
  <2>1. \A i \in taken' + 1 .. Len(stored') :
          /\ stored'[i] = stored[i] /\ i \in taken + 1 .. Len(stored)
          /\ i \in 1 .. Len(stored) /\ i # taken + 1
    BY <1>1, <1>2
  <2>2. taken + 1 \in 1 .. Len(stored) /\ Distinct(stored)
    BY <1>1, <1>2 DEF IInv, RequestsInv
  <2>3. \A i \in taken' + 1 .. Len(stored') : stored'[i] # r
    BY <2>1, <2>2 DEF Distinct
  <2>4. ASSUME NEW d, NEW i \in taken' + 1 .. Len(stored'), stored'[i] = d
        PROVE  InQueue(d) /\ d # r
    BY <2>1, <2>3, <2>4 DEF InQueue
  <2>5. \A d : InQueue(d)' <=>
                 \E i \in taken' + 1 .. Len(stored') : stored'[i] = d
    BY DEF InQueue
  <2> QED
    BY <2>4, <2>5
<1>5. /\ thread'[t].client = r /\ thread'[t].at = "counting"
      /\ \A u \in Threads \ {t} : thread'[u] = thread[u]
      /\ thread[t].client = Nobody
  BY <1>1 DEF Takes, Take, IInv, Shape, ThreadState, ThreadInv
<1>6. \A u \in Threads : thread[u].client # r
  BY <1>2, <1>3 DEF ClientsInv
<1>7. ClientsInv'
  <2>1. taken' <= Len(stored')
    BY <1>1, <1>2
  <2>2. ASSUME NEW u \in Threads
        PROVE  (thread[u].client # Nobody => ~InQueue(thread[u].client))'
    <3>1. CASE u = t
      BY <1>4, <1>5, <3>1
    <3>2. CASE u # t
      BY <1>4, <1>5, <3>2 DEF ClientsInv
    <3> QED
      BY <3>1, <3>2
  <2>3. ASSUME NEW u \in Threads, NEW v \in Threads,
               thread'[u].client = thread'[v].client,
               thread'[u].client # Nobody
        PROVE  u = v
    BY <1>5, <1>6, <2>3 DEF ClientsInv
  <2> QED
    BY <2>1, <2>2, <2>3 DEF ClientsInv
<1>8. ~Answered(r) /\ \A d : /\ Answered(d)' <=> Answered(d)
                             /\ Asking(d)' <=> Asking(d)
  BY <1>1, <1>2, <1>3 DEF Answered, Asking, AnswersInv
<1>9. AnswersInv'
  BY <1>4, <1>5, <1>8 DEF AnswersInv
<1>10. \A d \in Programs : InReach(d) \/ d = r => InReach(d)'
  BY <1>5, HandshakeAssumption DEF InReach
<1>11. AskersInv'
  BY <1>1, <1>3, <1>8, <1>10 DEF AskersInv
<1> QED
  BY <1>7, <1>9, <1>11

LEMMA OtherThreadKeeps ==
    ASSUME IInv, ClientsInv, AnswersInv, AskersInv, NEW t \in Threads,
           Dequeue(t) \/ Counts(t) \/ CountsNoRequest(t) \/ ThreadOpens(t)
             \/ ThreadFails(t)
    PROVE  ClientsInv' /\ AnswersInv' /\ AskersInv'
<1>1. UNCHANGED <<at, register, stored, taken>>
  BY DEF Dequeue, Counts, CountsNoRequest, ThreadOpens, ThreadFails,
         programs, queue
<1>2. /\ \A u \in Threads \ {t} : thread'[u] = thread[u]
      /\ thread'[t].client = thread[t].client
      /\ thread[t].at # "talking" /\ thread'[t].at # "talking"
  BY DEF Dequeue, Counts, CountsNoRequest, ThreadOpens, ThreadFails, IInv,
         Shape, ThreadState
<1> QED
  BY <1>1, <1>2, ThreadKeeps

\* The request of a session that ends has been answered.
LEMMA SessionEndsKeeps ==
    ASSUME IInv, ClientsInv, AnswersInv, AskersInv, NEW t \in Threads,
           SessionEnds(t)
    PROVE  ClientsInv' /\ AnswersInv' /\ AskersInv'
<1> DEFINE c == thread[t].client
<1>1. /\ UNCHANGED <<at, register, stored, taken>>
      /\ thread[t].at = "talking"
  BY DEF SessionEnds, programs, queue
<1>2. /\ thread'[t].client = Nobody /\ thread'[t].at = "idle"
      /\ \A u \in Threads \ {t} : thread'[u] = thread[u]
  BY DEF SessionEnds, IInv, Shape, Idle
<1>3. \A d : InQueue(d)' <=> InQueue(d)
  BY <1>1 DEF InQueue
<1>4. ClientsInv'
  BY <1>1, <1>2, <1>3 DEF ClientsInv
<1>5. \A d : /\ Answered(d)' <=> Answered(d)
             /\ Asking(d)' <=> Asking(d)
  BY <1>1 DEF Answered, Asking
<1>6. AnswersInv'
  BY <1>2, <1>3, <1>5, HandshakeAssumption DEF AnswersInv
<1>7. ~Asking(c)
  BY <1>1 DEF AnswersInv, Answered, Asking
<1>8. \A d \in Programs \ {c} : InReach(d) => InReach(d)'
  BY <1>2 DEF InReach
<1>9. AskersInv'
  BY <1>1, <1>3, <1>5, <1>7, <1>8 DEF AskersInv
<1> QED
  BY <1>4, <1>6, <1>9

LEMMA InitStep == Init => StepInv
<1> SUFFICES ASSUME Init
             PROVE  ClientsInv /\ AnswersInv /\ AskersInv
  BY DEF StepInv
<1>1. /\ \A t \in Threads : thread[t].at = "idle" /\ thread[t].client = Nobody
      /\ \A c \in Programs : at[c] = "start"
      /\ taken = 0 /\ Len(stored) = 0
  BY DEF Init, Idle
<1> QED
  BY <1>1 DEF ClientsInv, AnswersInv, AskersInv, Answered, Asking

\* What has gone astray stays so.
LEMMA NextStep == IInv /\ StepInv /\ [Next]_vars => StepInv'
<1>1. ASSUME IInv, ClientsInv, AnswersInv, AskersInv, Next,
             \A t \in Threads : ~TakesUnstored(t)
      PROVE  ClientsInv' /\ AnswersInv' /\ AskersInv'
  BY <1>1, ProgramsStep, MeetKeeps, MainKeeps, TakesKeeps, OtherThreadKeeps,
     SessionEndsKeeps DEF Next, ProgramWorks, ThreadWorks
<1>2. ASSUME NEW t \in Threads, TakesUnstored(t)
      PROVE  astray'
  BY <1>2 DEF TakesUnstored
<1>3. ASSUME Next, astray
      PROVE  astray'
  <2>1. CASE \E c \in Programs : \/ ProgramWorks(c) \/ End(c) \/ Kill(c)
    BY <1>3, <2>1 DEF ProgramWorks, OpenRegister, Send, Unlink, Make, Meet,
                      End, Kill, queue
  <2>2. CASE MainWorks
    BY <1>3, <2>2 DEF MainWorks, MainStarts, MainOpens, MainReads,
                      MainCounts, MainAtEnd, queue
  <2>3. CASE \E t \in Threads : ThreadWorks(t) \/ SessionEnds(t)
    BY <1>3, <2>3 DEF ThreadWorks, SessionEnds, Dequeue, Takes,
                      TakesUnstored, Counts, CountsNoRequest, ThreadOpens,
                      ThreadFails, queue
  <2> QED
    BY <1>3, <2>1, <2>2, <2>3 DEF Next
<1>4. CASE UNCHANGED vars
  BY <1>4 DEF vars, programs, queue, StepInv, ClientsInv, AnswersInv,
              AskersInv, Answered, Asking, InQueue, InReach
<1> QED
  BY <1>1, <1>2, <1>3, <1>4 DEF StepInv

LEMMA StepInvHolds == Spec => []StepInv
  BY InitStep, NextStep, IInvHolds, PTL DEF Spec

LEMMA NextWriters == IInv /\ WritersInv /\ [Next]_vars => WritersInv'
<1> SUFFICES ASSUME IInv, WritersInv, [Next]_vars
             PROVE  WritersInv'
  OBVIOUS
<1>1. CASE \E c \in Programs : OpenRegister(c) \/ Send(c) \/ Unlink(c)
                                 \/ Make(c)
  <2> PICK c \in Programs : OpenRegister(c) \/ Send(c) \/ Unlink(c) \/ Make(c)
    BY <1>1
  <2>1. \A d \in Programs \ {c} : at'[d] = at[d]
    BY DEF OpenRegister, Send, Unlink, Make, Move, IInv, Shape
  <2>2. CASE OpenRegister(c)
    BY <2>1, <2>2 DEF WritersInv, OpenRegister
  <2>3. CASE Send(c) \/ Unlink(c) \/ Make(c)
    <3>1. at[c] \in {"send", "unlink", "make"} /\ UNCHANGED <<writers, main>>
      BY <2>3 DEF Send, Unlink, Make, Move
    <3> QED
      BY <2>1, <3>1 DEF WritersInv
  <2> QED
    BY <2>2, <2>3
<1>2. CASE \E c \in Programs : End(c) \/ Kill(c)
  <2> PICK c \in Programs : End(c) \/ Kill(c)
    BY <1>2
  <2>1. /\ writers' = writers \ {c} /\ main' = main
        /\ \A d \in Programs \ {c} : at'[d] = at[d]
        /\ at'[c] \in {"ended", "killed"}
    BY DEF End, Kill, Move, IInv, Shape
  <2> QED
    BY <2>1 DEF WritersInv
<1>3. CASE \E c \in Programs, t \in Threads : Meet(t, c)
  BY <1>3 DEF Meet, WritersInv, IInv, Shape
<1>4. CASE MainWorks
  BY <1>4 DEF MainWorks, MainStarts, MainOpens, MainReads, MainCounts,
              MainAtEnd, WritersInv, programs
<1>5. CASE \E t \in Threads : ThreadWorks(t) \/ SessionEnds(t)
  <2>1. UNCHANGED <<at, writers, main>>
    BY <1>5 DEF ThreadWorks, SessionEnds, Dequeue, Takes, TakesUnstored, Take,
                Counts, CountsNoRequest, ThreadOpens, ThreadFails, programs
  <2> QED
    BY <2>1 DEF WritersInv
<1>6. CASE UNCHANGED vars
  BY <1>6 DEF vars, programs, WritersInv
<1>7. CASE Next
  BY <1>1, <1>2, <1>3, <1>4, <1>5, <1>7 DEF Next, ProgramWorks
<1> QED
  BY <1>6, <1>7

LEMMA WritersInvHolds == Spec => []WritersInv
<1>1. Init => WritersInv
  BY DEF Init, WritersInv
<1> QED
  BY <1>1, NextWriters, IInvHolds, PTL DEF Spec

\* The broker is closed by a missing pipe, or blocked on a pipe that was
\* unlinked under it, by no manager, whichever programs are killed and
\* whatever pipes an earlier run left: its pipe is made before its request is
\* sent, and stays.  And the manager that a thread waits for is before its
\* open(), or was killed there, which leaves the thread waiting for ever, or
\* the queue went astray.
THEOREM ManagersDoNotFail == Spec => []OnlyEarlyFail
<1>1. IInv /\ StepInv => OnlyEarlyFail
  <2> SUFFICES ASSUME IInv, StepInv, NEW t \in Threads,
                      thread[t].at \in {"closing", "waiting"},
                      thread[t].client \notin Early
               PROVE  /\ thread[t].at = "waiting"
                      /\ thread[t].node = "new"
                      /\ at[thread[t].client] \in {"open", "killed"} \/ astray
    BY DEF OnlyEarlyFail
  <2> DEFINE c == thread[t].client
  <2>1. c \in Managers /\ c \in Programs /\ In(stored, c)
    BY DEF IInv, Shape, ThreadState, ThreadInv, RequestsInv, Programs
  <2>2. thread[t].at = "waiting" /\ thread[t].node = "new"
    BY <2>1 DEF IInv, ThreadInv
  <2>3. at[c] \in {"open", "talking", "ended", "killed"}
    BY <2>1 DEF IInv, Shape, ProgramPCs, RequestsInv, Sent, Unsent
  <2>4. ~astray => ~Answered(c)
    BY <2>1, <2>2 DEF StepInv, AnswersInv
  <2> QED
    BY <2>2, <2>3, <2>4 DEF Answered
<1> QED
  BY <1>1, IInvHolds, StepInvHolds, PTL

\* Until a thread takes a position before it is stored, the broker drops no
\* request: as long as a program waits for an answer, its request is in the
\* register pipe, in the queue or with a thread.  And, whatever the queue
\* does, the main thread, which blocks in open() of the register pipe rather
\* than in read(), leaves no request of a program that runs in the pipe.
THEOREM NoRequestForgotten == Spec => []RequestsKept
<1>1. IInv /\ StepInv /\ WritersInv => RequestsKept
  <2> SUFFICES ASSUME IInv, StepInv, WritersInv
               PROVE  RequestsKept
    OBVIOUS
  <2>1. \A c : Holds(register, c) <=> In(register, c)
    BY LenProperties DEF IInv, Shape, Holds, In
  <2>2. ASSUME ~astray, NEW c \in Programs, Asking(c)
        PROVE  Holds(register, c) \/ InQueue(c) \/ InReach(c)
    BY <2>1, <2>2 DEF StepInv, AskersInv
  <2>3. ASSUME main = "blocked", NEW c \in Programs, Holds(register, c)
        PROVE  at[c] = "killed"
    <3>1. In(register, c)
      BY <2>1, <2>3
    <3>2. at[c] \notin {"start", "ended"}
      BY <3>1 DEF IInv, RequestsInv, Unsent, Sent
    <3>3. at[c] \in {"start", "ended", "killed"}
      BY <2>3 DEF WritersInv
    <3> QED
      BY <3>2, <3>3
  <2> QED
    BY <2>2, <2>3 DEF RequestsKept
<1> QED
  BY <1>1, IInvHolds, StepInvHolds, WritersInvHolds, PTL

=============================================================================
