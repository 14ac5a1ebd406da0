------------------------- MODULE BoxRegistryProofs --------------------------
(***************************************************************************)
(* Proofs about BoxRegistry for any number of threads, slots, names and    *)
(* files: the tables agree whenever boxes_lock is free, a creation that    *)
(* was not refused finds a slot, and a session loses its box to a removal  *)
(* only.                                                                   *)
(*                                                                         *)
(* First what every step leaves of the shape of the state; then the        *)
(* invariant.  A step is quiet, or it is a step of the owner of            *)
(* boxes_lock, or of a manager.  Only the second changes the tables.       *)
(***************************************************************************)
EXTENDS BoxRegistry, FiniteSetTheorems, WellFoundedInduction, TLAPS

-----------------------------------------------------------------------------
(* The least number of a set, which get_box and open() look for.           *)

Below == OpToRel(<, Nat)

LEMMA BelowContains ==
    ASSUME NEW m \in Nat, NEW n \in Nat, m < n
    PROVE  <<m, n>> \in Below
<1> DEFINE R == {ss \in Nat \X Nat : ss[1] < ss[2]}
<1>1. Below = R
  BY Zenon DEF Below, OpToRel
<1>2. <<m, n>> \in R
  OBVIOUS
<1> QED
  BY <1>1, <1>2, Zenon

LEMMA LeastExists ==
    ASSUME NEW T, T \subseteq Nat, T # {}
    PROVE  \E m \in T : \A n \in T : m <= n
<1>1. IsWellFoundedOn(Below, Nat)
  BY NatLessThanWellFounded, Zenon DEF Below
<1>2. PICK m \in T : \A n \in T : ~(<<n, m>> \in Below)
  BY <1>1, WFMin, Zenon
<1>3. ASSUME NEW n \in T
      PROVE  m <= n
  <2>1. m \in Nat /\ n \in Nat
    OBVIOUS
  <2>2. ~(n < m)
    BY <1>2, <2>1, BelowContains, Zenon
  <2> QED
    BY <2>1, <2>2
<1> QED
  BY <1>3

\* get_box returns the slot of that name, if there is one.
LEMMA GetBoxFinds ==
    ASSUME NEW name
    PROVE  \/ /\ GetBox(name) \in Slots /\ boxes[GetBox(name)].name = name
           \/ /\ GetBox(name) = NULL /\ \A s \in Slots : boxes[s].name # name
<1>1. CASE \E s \in Slots : boxes[s].name = name
  <2> DEFINE T == {s \in Slots : boxes[s].name = name}
  <2>1. T \subseteq Nat /\ T # {}
    BY <1>1, RegistryAssumption DEF Slots
  <2>2. PICK s \in T : \A r \in T : s <= r
    BY <2>1, LeastExists
  <2>3. s \in Slots /\ boxes[s].name = name
    OBVIOUS
  <2>4. \A r \in 1 .. s - 1 : boxes[r].name # name
    BY <2>2, <2>3, RegistryAssumption DEF Slots
  <2> QED
    BY <1>1, <2>3, <2>4 DEF GetBox
<1>2. CASE ~\E s \in Slots : boxes[s].name = name
  BY <1>2 DEF GetBox
<1> QED
  BY <1>1, <1>2

\* open() returns a number that is not in use.
LEMMA NewDescriptorIsNew ==
    ASSUME SessionsOK
    PROVE  NewDescriptor \in Nat \ descriptors
<1> DEFINE n == Cardinality(descriptors)
           T == {d \in 0 .. n : d \notin descriptors}
<1>1. descriptors \subseteq Nat /\ IsFiniteSet(descriptors) /\ n \in Nat
  BY FS_CardinalityType DEF SessionsOK
<1>2. IsFiniteSet(0 .. n) /\ Cardinality(0 .. n) = n + 1
  BY <1>1, FS_Interval
<1>3. T # {}
  <2>1. SUFFICES ASSUME 0 .. n \subseteq descriptors
                 PROVE  FALSE
    OBVIOUS
  <2>2. Cardinality(0 .. n) <= n
    BY <1>1, <2>1, FS_Subset
  <2> QED
    BY <1>1, <1>2, <2>2
<1>4. PICK d \in T : \A e \in T : d <= e
  <2>1. T \subseteq Nat
    BY <1>1
  <2> QED
    BY <1>3, <2>1, LeastExists
<1>5. d \in 0 .. n /\ d \notin descriptors
  OBVIOUS
<1>6. \A e \in 0 .. d - 1 : e \in descriptors
  BY <1>1, <1>4, <1>5
<1>7. NewDescriptor \in 0 .. n /\ NewDescriptor \notin descriptors
  BY <1>5, <1>6 DEF NewDescriptor
<1> QED
  BY <1>1, <1>7

-----------------------------------------------------------------------------
(* Types.  What each helper does to the variables it changes.              *)

LEMMA ModType ==
    ASSUME NEW n \in Int
    PROVE  n % CountLimit \in Counts
  BY RegistryAssumption DEF Counts

LEMMA ZeroCount == 0 \in Counts
  BY RegistryAssumption DEF Counts

LEMMA CountsType ==
    ASSUME NEW n \in Counts
    PROVE  Decr(n) \in Counts
<1>1. n + CountLimit - 1 \in Int
  BY RegistryAssumption DEF Counts
<1> QED
  BY <1>1, ModType DEF Decr

LEMMA GiveUpType ==
    ASSUME TypeOK, NEW t \in Threads
    PROVE  /\ GiveUp(t) \in [Slots -> Box]
           /\ \A s \in Slots : /\ GiveUp(t)[s].name = boxes[s].name
                               /\ GiveUp(t)[s].free = boxes[s].free
<1>1. boxes \in [Slots -> Box] /\ clients[t] \in Client
  BY DEF TypeOK, TablesOK, SessionsOK
<1>2. clients[t].box \in Slots \cup {NULL}
  BY <1>1 DEF Client
<1>3. \A s \in Slots : /\ Decr(boxes[s].n_publishers) \in Counts
                       /\ Decr(boxes[s].n_subscribers) \in Counts
  BY <1>1, CountsType DEF Box
<1> QED
  BY <1>1, <1>2, <1>3 DEF GiveUp, Box

LEMMA FinishType ==
    ASSUME TypeOK, NEW t \in Threads, FinishClientSession(t)
    PROVE  /\ TablesOK' /\ SessionsOK'
           /\ \A s \in Slots : /\ boxes'[s].name = boxes[s].name
                               /\ boxes'[s].free = boxes[s].free
           /\ \A u \in Threads \ {t} : clients'[u] = clients[u]
           /\ clients'[t] \in {clients[t], Ended(clients[t])}
<1>1. TablesOK /\ SessionsOK /\ UNCHANGED tables
  BY DEF TypeOK, FinishClientSession
<1>2. /\ descriptors' \subseteq Nat /\ IsFiniteSet(descriptors')
  <2>1. descriptors' \subseteq descriptors
    BY DEF FinishClientSession
  <2> QED
    BY <1>1, <2>1, FS_Subset DEF SessionsOK
<1>3. CASE FinishSucceeds(t)
  <2>1. boxes' = GiveUp(t) /\ clients' = [clients EXCEPT ![t] = Ended(@)]
    BY <1>3 DEF FinishClientSession
  <2>2. TablesOK'
    BY <1>1, <2>1, GiveUpType DEF TablesOK, tables
  <2>3. Ended(clients[t]) \in Client
    BY <1>1 DEF SessionsOK, Client, Ended
  <2>4. SessionsOK'
    BY <1>1, <1>2, <2>1, <2>3 DEF SessionsOK
  <2> QED
    BY <1>1, <2>1, <2>2, <2>4, GiveUpType DEF SessionsOK
<1>4. CASE ~FinishSucceeds(t)
  <2>1. UNCHANGED <<boxes, clients>>
    BY <1>4 DEF FinishClientSession
  <2> QED
    BY <1>1, <1>2, <2>1 DEF TablesOK, SessionsOK, tables
<1> QED
  BY <1>3, <1>4

-----------------------------------------------------------------------------
(* The inductive invariant.                                                *)

\* Where a thread holds boxes_lock; one in close_server may hold it, too.
Critical == {"c_slot", "c_copy", "d_open", "d_find", "d_scan", "d_end",
             "d_unlink", "d_clear", "d_count", "d_answer"}

LockInv ==
    \A t \in Threads :
        /\ pc[t] \in Critical => boxes_lock = t
        /\ boxes_lock = t => pc[t] \in Critical \cup {"closing"}

\* What a thread knows of the name of the box in its request: a removal under
\* way still has it, and so has a slot; a creation that was not refused has a
\* name that no slot has, and a slot to put it in.
NameInv(t) ==
    LET name == clients[t].box_name
    IN  /\ pc[t] \in {"d_lock", "d_open"} /\ clients[t].pipename
             => name \in Names
        /\ pc[t] \in {"d_find", "d_scan", "d_end"} => name \in Names
        /\ pc[t] \in {"d_scan", "d_end"} =>
             \E s \in Slots : boxes[s].name = name
        /\ pc[t] \in {"c_slot", "c_copy"} => name \in Names \ BoxNames
        /\ pc[t] = "c_slot" => \E s \in Slots : boxes[s].free

Used == {s \in Slots : ~boxes[s].free}
Agrees(s) == boxes[s].free <=> boxes[s].name = NoName

\* How far the tables are from agreement where the owner of boxes_lock is:
\* num_boxes is counted first in a creation and last in a removal, and one
\* slot at most is half done.
OwnerInv(t) ==
    pc[t] # "closing" =>
        /\ num_boxes = Cardinality(Used)
              + (IF pc[t] \in {"c_slot", "d_unlink", "d_clear", "d_count"}
                 THEN 1 ELSE 0)
        /\ \A s \in Slots :
             Agrees(s) \/ (/\ pc[t] \in {"c_copy", "d_unlink", "d_clear"}
                           /\ frame[t].box = s)
        /\ pc[t] = "c_copy" => /\ ~boxes[frame[t].box].free
                               /\ boxes[frame[t].box].name = NoName
        /\ pc[t] \in {"d_unlink", "d_clear"} =>
             boxes[frame[t].box].free /\ boxes[frame[t].box].name \in Names

Settled ==
    num_boxes = Cardinality(Used) /\ \A s \in Slots : Agrees(s)

NamesDistinct ==
    \A r, s \in Slots :
        boxes[r].name = boxes[s].name /\ r # s => boxes[r].name = NoName

RegistryInv ==
    /\ LockInv /\ NamesDistinct
    /\ boxes_lock = Nobody => Settled
    /\ \A t \in Threads : NameInv(t) /\ (boxes_lock = t => OwnerInv(t))

-----------------------------------------------------------------------------
(* One lemma for each operator that the actions share, then one for each   *)
(* group of actions: the step leaves TypeOK, as far as t can change it.    *)

\* What a step of thread t may change of the threads.
Local(t) ==
    /\ pc' \in [Threads -> PCs] /\ frame' \in [Threads -> Frame]
    /\ exited' \in BOOLEAN
    /\ \A u \in Threads \ {t} : pc'[u] = pc[u] /\ frame'[u] = frame[u]

StepType(t) ==
    /\ TablesOK' /\ SessionsOK' /\ Local(t) /\ ThreadOK(t)'
    /\ signalled' \subseteq Threads

LEMMA DropType ==
    ASSUME SessionsOK, NEW d
    PROVE  descriptors \ {d} \subseteq Nat /\ IsFiniteSet(descriptors \ {d})
  BY FS_Subset DEF SessionsOK

LEMMA GotoType ==
    ASSUME TypeOK, NEW t \in Threads, NEW from, NEW to \in PCs,
           Goto(t, from, to)
    PROVE  /\ pc[t] = from /\ pc' \in [Threads -> PCs] /\ pc'[t] = to
           /\ \A u \in Threads \ {t} : pc'[u] = pc[u]
  BY DEF TypeOK, Goto

LEMMA EmptyFrameType == EmptyFrame \in Frame
  BY DEF EmptyFrame, Frame

LEMMA ReturnType ==
    ASSUME TypeOK, NEW t \in Threads, NEW from, Return(t, from)
    PROVE  /\ pc[t] = from /\ pc'[t] = "idle"
           /\ frame'[t] = EmptyFrame /\ Local(t)
<1>1. "idle" \in PCs
  BY DEF PCs
<1> QED
  BY <1>1, EmptyFrameType, GotoType DEF TypeOK, Return, Local

LEMMA CloseServerType ==
    ASSUME TypeOK, NEW t \in Threads, CloseServer(t)
    PROVE  pc'[t] = "closing" /\ frame'[t] = EmptyFrame /\ Local(t)
<1>1. "closing" \in PCs
  BY DEF PCs
<1> QED
  BY <1>1, EmptyFrameType DEF TypeOK, CloseServer, Local

LEMMA OpenPipeType ==
    ASSUME TypeOK, NEW t \in Threads, OpenPipe(t)
    PROVE  /\ SessionsOK'
           /\ clients' = [clients EXCEPT ![t].client_pipe = NewDescriptor]
           /\ clients[t].pipename
<1>1. SessionsOK
  BY DEF TypeOK
<1>2. NewDescriptor \in Nat
  BY <1>1, NewDescriptorIsNew
<1>3. IsFiniteSet(descriptors \cup {NewDescriptor})
  BY <1>1, FS_AddElement DEF SessionsOK
<1> QED
  BY <1>1, <1>2, <1>3 DEF OpenPipe, SessionsOK, Client

LEMMA RegisterType ==
    ASSUME TypeOK, NEW t \in Threads, Register(t)
    PROVE  StepType(t)
<1>1. CASE RegisterOpens(t)
  BY <1>1, OpenPipeType, GotoType
     DEF RegisterOpens, registry, others, tables, StepType, TypeOK, ThreadOK,
         Local, PCs, TablesOK, SessionsOK
<1>2. CASE RegisterFinds(t)
  <2>1. GetBox(clients[t].box_name) \in Slots
    BY <1>2, GetBoxFinds DEF RegisterFinds
  <2>2. frame' \in [Threads -> Frame] /\ frame'[t].box \in Slots
    BY <1>2, <2>1 DEF RegisterFinds, TypeOK, Frame
  <2> QED
    BY <1>2, <2>1, <2>2, GotoType
       DEF RegisterFinds, registry, others, session, tables, StepType, TypeOK,
           ThreadOK, Local, PCs, TablesOK, SessionsOK
<1>3. CASE RegisterMisses(t)
  <2>1. SessionsOK'
    BY <1>3, FS_RemoveElement, DropType DEF RegisterMisses, TypeOK, SessionsOK
  <2> QED
    BY <1>3, <2>1, CloseServerType, ReturnType
       DEF RegisterMisses, registry, others, tables, StepType, TypeOK,
           ThreadOK, TablesOK
<1>4. CASE RegisterTests(t)
  <2>1. frame[t].box \in Slots /\ boxes[frame[t].box] \in Box
    BY <1>4 DEF RegisterTests, TypeOK, ThreadOK, Goto, TablesOK
  <2>2. frame' \in [Threads -> Frame] /\ frame'[t].box \in Slots
    BY <1>4, <2>1 DEF RegisterTests, TypeOK, Frame, Box, Counts
  <2>3. SessionsOK'
    BY <1>4, <2>1 DEF RegisterTests, TypeOK, SessionsOK, Client
  <2> QED
    BY <1>4, <2>1, <2>2, <2>3, GotoType
       DEF RegisterTests, registry, others, tables, StepType, TypeOK,
           ThreadOK, Local, PCs, TablesOK
<1>5. CASE RegisterCounts(t)
  <2>1. frame[t] \in Frame /\ frame[t].box \in Slots
    BY <1>5 DEF RegisterCounts, TypeOK, ThreadOK, Goto
  <2>2. Incr(frame[t].n) \in Counts
    BY <1>5, <2>1, ModType DEF RegisterCounts, Frame, Incr, Counts
  <2>3. TablesOK'
    BY <1>5, <2>2, <2>1 DEF RegisterCounts, TypeOK, TablesOK, tables, Box
  <2> QED
    BY <1>5, <2>1, <2>2, <2>3, GotoType
       DEF RegisterCounts, others, session, tables, StepType, TypeOK,
           ThreadOK, Local, PCs, SessionsOK
<1> QED
  BY <1>1, <1>2, <1>3, <1>4, <1>5 DEF Register

LEMMA PublishType ==
    ASSUME TypeOK, NEW t \in Threads, Publish(t)
    PROVE  StepType(t)
<1>1. CASE PublisherReceives(t)
  BY <1>1, GotoType
     DEF PublisherReceives, registry, others, session, tables, StepType,
         TypeOK, ThreadOK, Local, PCs, TablesOK, SessionsOK
<1>2. CASE PublisherEnds(t)
  BY <1>2, FinishType, ReturnType
     DEF PublisherEnds, registry, others, session, tables, StepType, TypeOK,
         ThreadOK, TablesOK, SessionsOK
<1>3. CASE PublisherLoads(t)
  <2>1. clients[t].box \in Slots
    BY <1>3 DEF PublisherLoads, TypeOK, SessionsOK, Client
  <2>2. frame' \in [Threads -> Frame] /\ frame'[t].box \in Slots
    BY <1>3, <2>1 DEF PublisherLoads, TypeOK, Frame
  <2> QED
    BY <1>3, <2>1, <2>2, GotoType
       DEF PublisherLoads, registry, others, session, tables, StepType,
           TypeOK, ThreadOK, Local, PCs, TablesOK, SessionsOK
<1>4. CASE PublisherWrites(t)
  <2>1. signalled' \subseteq Threads
    BY <1>4 DEF PublisherWrites, TypeOK, Waiting
  <2> QED
    BY <1>4, <2>1, GotoType
       DEF PublisherWrites, registry, session, tables, StepType, TypeOK,
           ThreadOK, Local, PCs, TablesOK, SessionsOK
<1>5. CASE PublisherFillsBox(t)
  BY <1>5, FinishType, ReturnType
     DEF PublisherFillsBox, others, StepType, TypeOK, ThreadOK, TablesOK,
         SessionsOK
<1>6. CASE PublisherFails(t)
  BY <1>6, FinishType, CloseServerType
     DEF PublisherFails, others, StepType, TypeOK, ThreadOK, TablesOK,
         SessionsOK
<1> QED
  BY <1>1, <1>2, <1>3, <1>4, <1>5, <1>6 DEF Publish

LEMMA SubscribeType ==
    ASSUME TypeOK, NEW t \in Threads, Subscribe(t)
    PROVE  StepType(t)
<1>1. CASE SubscriberOpens(t)
  <2>1. clients[t].box_name \in Names
    BY <1>1 DEF SubscriberOpens, TypeOK, SessionsOK, Client, CanOpen
  <2>2. SessionsOK'
    BY <1>1 DEF SubscriberOpens, TypeOK, SessionsOK, Client
  <2>3. TablesOK'
    BY <1>1, <2>1 DEF SubscriberOpens, TypeOK, TablesOK
  <2> QED
    BY <1>1, <2>1, <2>2, <2>3, GotoType
       DEF SubscriberOpens, others, StepType, TypeOK, ThreadOK, Local, PCs
<1>2. CASE SubscriberCannotOpen(t)
  <2>1. SessionsOK'
    BY <1>2, DropType DEF SubscriberCannotOpen, TypeOK, SessionsOK, Client
  <2> QED
    BY <1>2, <2>1, CloseServerType
       DEF SubscriberCannotOpen, registry, others, tables, StepType, TypeOK,
           ThreadOK, TablesOK
<1>3. CASE SubscriberLoads(t)
  <2>1. clients[t].box \in Slots
    BY <1>3 DEF SubscriberLoads, TypeOK, SessionsOK, Client
  <2>2. frame' \in [Threads -> Frame] /\ frame'[t].box \in Slots
    BY <1>3, <2>1 DEF SubscriberLoads, TypeOK, Frame
  <2> QED
    BY <1>3, <2>1, <2>2, GotoType
       DEF SubscriberLoads, registry, session, tables, StepType, TypeOK,
           ThreadOK, Local, PCs, TablesOK, SessionsOK
<1>4. CASE SubscriberSends(t)
  BY <1>4
     DEF SubscriberSends, registry, session, tables, StepType, TypeOK,
         ThreadOK, Local, PCs, TablesOK, SessionsOK
<1>5. CASE SubscriberLeft(t)
  BY <1>5, FinishType, ReturnType
     DEF SubscriberLeft, StepType, TypeOK, ThreadOK, TablesOK, SessionsOK
<1>6. CASE SubscriberFails(t)
  BY <1>6, FinishType, CloseServerType
     DEF SubscriberFails, StepType, TypeOK, ThreadOK, TablesOK, SessionsOK
<1>7. CASE SubscriberLosesPipe(t)
  BY <1>7, CloseServerType
     DEF SubscriberLosesPipe, registry, others, session, tables, StepType,
         TypeOK, ThreadOK, TablesOK, SessionsOK
<1> QED
  BY <1>1, <1>2, <1>3, <1>4, <1>5, <1>6, <1>7 DEF Subscribe

LEMMA CreateType ==
    ASSUME TypeOK, NEW t \in Threads, Create(t)
    PROVE  StepType(t)
<1>1. CASE CreateRefuses(t)
  <2>1. frame' \in [Threads -> Frame]
    BY <1>1 DEF CreateRefuses, TypeOK, Frame
  <2> QED
    BY <1>1, <2>1, GotoType
       DEF CreateRefuses, registry, others, session, tables, StepType, TypeOK,
           ThreadOK, Local, PCs, TablesOK, SessionsOK
<1>2. CASE CreateCounts(t)
  BY <1>2, GotoType
     DEF CreateCounts, others, session, StepType, TypeOK, ThreadOK, Local,
         PCs, TablesOK, SessionsOK
<1>3. CASE CreateTakesSlot(t)
  <2>1. PICK s \in Slots : /\ boxes' = [boxes EXCEPT ![s].free = FALSE]
                            /\ frame' = [frame EXCEPT ![t].box = s]
    BY <1>3 DEF CreateTakesSlot
  <2>2. TablesOK'
    BY <1>3, <2>1 DEF CreateTakesSlot, TypeOK, TablesOK, tables, Box
  <2>3. frame' \in [Threads -> Frame] /\ frame'[t].box \in Slots
    BY <2>1 DEF TypeOK, Frame
  <2> QED
    BY <1>3, <2>2, <2>3, GotoType
       DEF CreateTakesSlot, session, others, StepType, Local, TypeOK,
           ThreadOK, SessionsOK, PCs
<1>4. CASE CreateCopies(t)
  <2>1. frame[t].box \in Slots /\ clients[t].box_name \in Names \cup {NoName}
    BY <1>4 DEF CreateCopies, TypeOK, ThreadOK, Goto, SessionsOK, Client
  <2>2. [EmptyBox EXCEPT !.name = clients[t].box_name, !.free = FALSE] \in Box
    BY <1>4, <2>1, ZeroCount DEF CreateCopies, EmptyBox, Box
  <2>3. TablesOK'
    BY <1>4, <2>1, <2>2 DEF CreateCopies, TypeOK, TablesOK
  <2> QED
    BY <1>4, <2>1, <2>2, <2>3, GotoType
       DEF CreateCopies, others, session, StepType, TypeOK, ThreadOK, Local,
           PCs, SessionsOK
<1>5. CASE CreateOpensPipe(t)
  BY <1>5, OpenPipeType, GotoType
     DEF CreateOpensPipe, registry, others, tables, StepType, TypeOK,
         ThreadOK, Local, PCs, TablesOK, SessionsOK
<1>6. CASE CreateHasNoPipe(t)
  <2>1. frame' \in [Threads -> Frame]
    BY <1>6 DEF CreateHasNoPipe, TypeOK, Frame
  <2>2. SessionsOK'
    BY <1>6 DEF CreateHasNoPipe, TypeOK, SessionsOK, Client, NoPipe
  <2> QED
    BY <1>6, <2>1, <2>2, GotoType
       DEF CreateHasNoPipe, registry, others, tables, StepType, TypeOK,
           ThreadOK, Local, PCs, TablesOK
<1>7. CASE CreateMakesFile(t)
  <2>1. clients[t].box_name \in Names
    BY <1>7 DEF CreateMakesFile, TypeOK, SessionsOK, Client, CanOpen
  <2>2. SessionsOK'
    BY <1>7 DEF CreateMakesFile, TypeOK, SessionsOK, Client
  <2>3. TablesOK'
    BY <1>7, <2>1 DEF CreateMakesFile, TypeOK, TablesOK
  <2> QED
    BY <1>7, <2>1, <2>2, <2>3, GotoType
       DEF CreateMakesFile, others, StepType, TypeOK, ThreadOK, Local, PCs
<1>8. CASE CreateMakesNoFile(t)
  BY <1>8, CloseServerType
     DEF CreateMakesNoFile, registry, others, session, tables, StepType,
         TypeOK, ThreadOK, TablesOK, SessionsOK
<1>9. CASE CreateAnswers(t)
  BY <1>9, GotoType
     DEF CreateAnswers, registry, others, session, tables, StepType, TypeOK,
         ThreadOK, Local, PCs, TablesOK, SessionsOK
<1> QED
  BY <1>1, <1>2, <1>3, <1>4, <1>5, <1>6, <1>7, <1>8, <1>9 DEF Create

LEMMA RemoveType ==
    ASSUME TypeOK, \A u \in Threads : NameInv(u), NEW t \in Threads, Remove(t)
    PROVE  StepType(t)
<1>1. CASE RemoveLocks(t)
  BY <1>1, GotoType
     DEF RemoveLocks, others, session, StepType, TypeOK, ThreadOK, Local, PCs,
         TablesOK, SessionsOK
<1>2. CASE RemoveOpensPipe(t)
  BY <1>2, OpenPipeType, GotoType
     DEF RemoveOpensPipe, registry, others, tables, StepType, TypeOK,
         ThreadOK, Local, PCs, TablesOK, SessionsOK
<1>3. CASE RemoveHasNoPipe(t)
  BY <1>3, CloseServerType
     DEF RemoveHasNoPipe, others, session, StepType, TypeOK, ThreadOK,
         TablesOK, SessionsOK
<1>4. CASE RemoveMisses(t)
  <2>1. frame' \in [Threads -> Frame]
    BY <1>4 DEF RemoveMisses, TypeOK, Frame
  <2> QED
    BY <1>4, <2>1, GotoType
       DEF RemoveMisses, registry, others, session, tables, StepType, TypeOK,
           ThreadOK, Local, PCs, TablesOK, SessionsOK
<1>5. CASE RemoveFinds(t)
  <2>1. frame' \in [Threads -> Frame] /\ frame'[t].i = 0
    BY <1>5 DEF RemoveFinds, TypeOK, Frame
  <2>2. 0 \in 0 .. MaxSessions
    BY <1>5, RegistryAssumption DEF RemoveFinds
  <2> QED
    BY <1>5, <2>1, <2>2, GotoType
       DEF RemoveFinds, registry, others, session, tables, StepType, TypeOK,
           ThreadOK, Local, PCs, TablesOK, SessionsOK
<1>6. CASE RemoveMatches(t)
  <2>1. frame[t].i \in Threads \ {t}
    BY <1>6 DEF RemoveMatches, Matches
  <2> QED
    BY <1>6, <2>1, GotoType
       DEF RemoveMatches, registry, others, session, tables, StepType, TypeOK,
           ThreadOK, Local, PCs, TablesOK, SessionsOK
<1>7. CASE RemoveSkips(t)
  <2>1. /\ frame[t] \in Frame /\ frame[t].i + 1 \in Nat
        /\ frame[t].i + 1 \in 0 .. MaxSessions
    BY <1>7, RegistryAssumption DEF RemoveSkips, TypeOK, Frame, Threads
  <2>2. frame' \in [Threads -> Frame] /\ frame'[t].i \in 0 .. MaxSessions
    BY <1>7, <2>1 DEF RemoveSkips, TypeOK, Frame
  <2> QED
    BY <1>7, <2>1, <2>2
       DEF RemoveSkips, registry, others, session, tables, StepType, TypeOK,
           ThreadOK, Local, PCs, TablesOK, SessionsOK
<1>8. CASE RemoveEndsSession(t)
  <2> DEFINE i == frame[t].i
  <2>1. pc[t] = "d_end" /\ i \in Threads /\ FinishClientSession(i)
    BY <1>8 DEF RemoveEndsSession, TypeOK, ThreadOK
  <2>2. TablesOK' /\ SessionsOK' /\ signalled' \subseteq Threads
    BY <1>8, <2>1, FinishType DEF RemoveEndsSession, others, TypeOK
  <2>3. CASE FinishSucceeds(i)
    <3>1. /\ Goto(t, "d_end", "d_scan") /\ UNCHANGED exited
          /\ frame' = [frame EXCEPT ![t].i = @ + 1]
      BY <1>8, <2>3 DEF RemoveEndsSession
    <3>2. i + 1 \in Nat /\ i + 1 \in 0 .. MaxSessions
      BY <2>1, RegistryAssumption DEF Threads
    <3>3. frame' \in [Threads -> Frame] /\ frame'[t].i \in 0 .. MaxSessions
      BY <3>1, <3>2 DEF TypeOK, Frame
    <3> QED
      BY <2>2, <3>1, <3>3, GotoType DEF StepType, Local, ThreadOK, TypeOK, PCs
  <2>4. CASE ~FinishSucceeds(i)
    <3>1. CloseServer(t)
      BY <1>8, <2>4 DEF RemoveEndsSession
    <3> QED
      BY <2>2, <3>1, CloseServerType DEF StepType, ThreadOK
  <2> QED
    BY <2>3, <2>4
<1>9. CASE RemoveFreesSlot(t)
  <2>1. GetBox(clients[t].box_name) \in Slots
    BY <1>9, GetBoxFinds DEF RemoveFreesSlot, Goto, NameInv
  <2>2. frame' \in [Threads -> Frame] /\ frame'[t].box \in Slots
    BY <1>9, <2>1 DEF RemoveFreesSlot, TypeOK, Frame
  <2>3. TablesOK'
    BY <1>9, <2>1 DEF RemoveFreesSlot, TypeOK, TablesOK, Box
  <2> QED
    BY <1>9, <2>2, <2>3, GotoType
       DEF RemoveFreesSlot, session, others, StepType, Local, TypeOK,
           ThreadOK, SessionsOK, PCs
<1>10. CASE RemoveUnlinks(t)
  BY <1>10, GotoType
     DEF RemoveUnlinks, others, session, StepType, TypeOK, ThreadOK, Local,
         PCs, TablesOK, SessionsOK
<1>11. CASE RemoveCannotUnlink(t)
  BY <1>11, CloseServerType
     DEF RemoveCannotUnlink, registry, others, session, tables, StepType,
         TypeOK, ThreadOK, TablesOK, SessionsOK
<1>12. CASE RemoveClears(t)
  <2>1. frame[t].box \in Slots
    BY <1>12 DEF RemoveClears, Goto, TypeOK, ThreadOK
  <2>0. Cleared(boxes[frame[t].box]) \in Box
    BY <2>1, ZeroCount DEF Cleared, TypeOK, TablesOK, Box
  <2>2. boxes' \in [Slots -> Box]
    BY <1>12, <2>0, <2>1 DEF RemoveClears, TypeOK, TablesOK
  <2>3. signalled' \subseteq Threads
    BY <1>12 DEF RemoveClears, TypeOK, Waiting
  <2> QED
    BY <1>12, <2>2, <2>3, GotoType
       DEF RemoveClears, session, tables, StepType, Local, TypeOK, ThreadOK,
           TablesOK, SessionsOK, PCs
<1>13. CASE RemoveCounts(t)
  BY <1>13, GotoType
     DEF RemoveCounts, others, session, StepType, TypeOK, ThreadOK, Local,
         PCs, TablesOK, SessionsOK
<1>14. CASE RemoveAnswers(t)
  BY <1>14, GotoType
     DEF RemoveAnswers, others, session, StepType, TypeOK, ThreadOK, Local,
         PCs, TablesOK, SessionsOK
<1> QED
  BY <1>1, <1>2, <1>3, <1>4, <1>5, <1>6, <1>7, <1>8, <1>9, <1>10, <1>11,
     <1>12, <1>13, <1>14
     DEF Remove

LEMMA ListType ==
    ASSUME TypeOK, NEW t \in Threads, List(t)
    PROVE  StepType(t)
<1>1. CASE ListOpens(t)
  <2>1. frame' \in [Threads -> Frame] /\ frame'[t].i = 1
    BY <1>1 DEF ListOpens, TypeOK, Frame
  <2>2. 1 \in 1 .. MaxBoxes + 1
    BY <1>1, RegistryAssumption DEF ListOpens
  <2> QED
    BY <1>1, <2>1, <2>2, OpenPipeType, GotoType
       DEF ListOpens, registry, tables, StepType, TypeOK, ThreadOK, Local,
           PCs, TablesOK, SessionsOK
<1>2. CASE ListSkips(t)
  <2>1. /\ frame[t] \in Frame /\ frame[t].i + 1 \in Nat
        /\ frame[t].i + 1 \in 1 .. MaxBoxes + 1
    BY <1>2, RegistryAssumption DEF ListSkips, TypeOK, Frame, Slots
  <2>2. frame' \in [Threads -> Frame] /\ frame'[t].i \in 1 .. MaxBoxes + 1
    BY <1>2, <2>1 DEF ListSkips, TypeOK, Frame
  <2> QED
    BY <1>2, <2>1, <2>2
       DEF ListSkips, registry, others, session, tables, StepType, TypeOK,
           ThreadOK, Local, PCs, TablesOK, SessionsOK
<1>3. CASE ListCopies(t)
  <2>1. /\ frame[t].i \in Slots /\ frame[t].n + 1 \in Int
        /\ boxes[frame[t].i].name \in Names \cup {NoName}
    BY <1>3 DEF ListCopies, TypeOK, TablesOK, Frame, Box
  <2>2. frame' \in [Threads -> Frame] /\ frame'[t].i = frame[t].i
    BY <1>3, <2>1 DEF ListCopies, TypeOK, Frame
  <2> QED
    BY <1>3, <2>1, <2>2, GotoType
       DEF ListCopies, registry, others, session, tables, StepType, TypeOK,
           ThreadOK, Local, PCs, TablesOK, SessionsOK
<1>4. CASE ListSends(t)
  <2>1. frame[t].i \in Slots
    BY <1>4 DEF ListSends, TypeOK, ThreadOK, Goto
  <2>2. frame' \in [Threads -> Frame] /\ frame'[t].i \in 1 .. MaxBoxes + 1
    BY <1>4, <2>1 DEF ListSends, TypeOK, Frame, Slots
  <2> QED
    BY <1>4, <2>1, <2>2, GotoType
       DEF ListSends, registry, session, tables, StepType, TypeOK, ThreadOK,
           Local, PCs, TablesOK, SessionsOK
<1>5. CASE ListPipeClosed(t)
  BY <1>5, CloseServerType
     DEF ListPipeClosed, registry, others, session, tables, StepType, TypeOK,
         ThreadOK, TablesOK, SessionsOK
<1>6. CASE ListEnds(t)
  BY <1>6, GotoType
     DEF ListEnds, registry, others, session, tables, StepType, TypeOK,
         ThreadOK, Local, PCs, TablesOK, SessionsOK
<1> QED
  BY <1>1, <1>2, <1>3, <1>4, <1>5, <1>6 DEF List

LEMMA ManagerType ==
    ASSUME TypeOK, NEW t \in Threads, Manager(t)
    PROVE  StepType(t)
<1>1. CASE ManagerReads(t)
  BY <1>1
     DEF ManagerReads, registry, session, tables, StepType, TypeOK, ThreadOK,
         Local, PCs, TablesOK, SessionsOK
<1>2. CASE ManagerAtEnd(t)
  BY <1>2
     DEF ManagerAtEnd, registry, session, tables, StepType, TypeOK, ThreadOK,
         Local, PCs, TablesOK, SessionsOK
<1> QED
  BY <1>1, <1>2 DEF Manager

\* A thread that stays in open() only knows that it does.
LEMMA OpenBlocksKeeps ==
    ASSUME TypeOK, NEW t \in Threads, OpenBlocks(t)
    PROVE  /\ UNCHANGED <<boxes, num_boxes, files, boxes_lock, clients,
                          descriptors, pc, signalled, listing, changes,
                          exited>>
           /\ frame' \in [Threads -> Frame]
           /\ \A u \in Threads \ {t} : frame'[u] = frame[u]
           /\ \A u \in Threads :
                /\ frame'[u].box = frame[u].box /\ frame'[u].n = frame[u].n
                /\ frame'[u].i = frame[u].i /\ frame'[u].last = frame[u].last
                /\ frame'[u].name = frame[u].name
<1>1. frame \in [Threads -> Frame] /\ frame[t] \in Frame
  BY DEF TypeOK
<1>2. frame' = [frame EXCEPT ![t] = [frame[t] EXCEPT !.stuck = TRUE]]
  BY DEF OpenBlocks
<1> DEFINE f == [frame[t] EXCEPT !.stuck = TRUE]
<1>3. /\ f \in Frame /\ f.box = frame[t].box /\ f.n = frame[t].n
      /\ f.i = frame[t].i /\ f.last = frame[t].last /\ f.name = frame[t].name
  BY <1>1 DEF Frame
<1>4. UNCHANGED <<boxes, num_boxes, files, boxes_lock, clients, descriptors,
                  pc, signalled, listing, changes, exited>>
  BY DEF OpenBlocks, registry, tables, session, others
<1> HIDE DEF f
<1> QED
  BY <1>1, <1>2, <1>3, <1>4 DEF f

LEMMA OtherType ==
    ASSUME TypeOK, NEW t \in Threads,
           \/ Dequeue(t) \/ Finish(t) \/ OpenFails(t)
           \/ AnswerFails(t) \/ OpenBlocks(t) \/ NullBox(t)
    PROVE  StepType(t)
<1>1. CASE Dequeue(t)
  <2>1. PICK op \in Opcodes, n \in Names :
          /\ Goto(t, "idle", Entry[op])
          /\ clients' = [clients EXCEPT
                 ![t].opcode = op, ![t].pipename = TRUE,
                 ![t].box_name = IF op = "list" THEN @ ELSE n]
    BY <1>1 DEF Dequeue
  <2>2. op \in {"pub", "sub", "create", "remove", "list"}
    BY RegistryAssumption
  <2>3. Entry[op] \in {"r_open", "c_lock", "d_lock", "l_open"}
    BY <2>2 DEF Entry
  <2> DEFINE name == IF op = "list" THEN clients[t].box_name ELSE n
  <2>4. SessionsOK'
    <3>1. clients[t] \in Client /\ name \in Names \cup {NoName}
      BY DEF TypeOK, SessionsOK, Client
    <3>2. [clients[t] EXCEPT !.opcode = op, !.pipename = TRUE,
                            !.box_name = name] \in Client
      BY <2>2, <3>1 DEF Client
    <3>3. clients' = [clients EXCEPT ![t] =
              [clients[t] EXCEPT !.opcode = op, !.pipename = TRUE,
                                 !.box_name = name]]
      BY <2>1, <3>1 DEF TypeOK, SessionsOK, Client
    <3> QED
      BY <1>1, <3>2, <3>3 DEF Dequeue, TypeOK, SessionsOK
  <2>5. /\ pc' \in [Threads -> PCs] /\ pc'[t] = Entry[op]
        /\ \A u \in Threads \ {t} : pc'[u] = pc[u]
    BY <2>1, <2>3, GotoType DEF PCs
  <2> QED
    BY <1>1, <2>3, <2>4, <2>5
       DEF Dequeue, registry, tables, StepType, Local, TypeOK, TablesOK,
           ThreadOK
<1>2. CASE Finish(t)
  BY <1>2, FinishType, CloseServerType, ReturnType
     DEF Finish, others, StepType, TypeOK, ThreadOK, TablesOK, SessionsOK
<1>3. CASE OpenFails(t)
  BY <1>3, CloseServerType
     DEF OpenFails, registry, others, session, tables, StepType, TypeOK,
         ThreadOK, TablesOK, SessionsOK
<1>4. CASE AnswerFails(t)
  BY <1>4, CloseServerType
     DEF AnswerFails, registry, others, session, tables, StepType, TypeOK,
         ThreadOK, TablesOK, SessionsOK
<1>5. CASE NullBox(t)
  BY <1>5
     DEF NullBox, registry, others, session, tables, StepType, TypeOK,
         ThreadOK, Local, PCs, TablesOK, SessionsOK
<1>6. CASE OpenBlocks(t)
  <2>1. /\ UNCHANGED <<boxes, num_boxes, files, boxes_lock, clients,
                        descriptors, pc, signalled, exited>>
        /\ frame' \in [Threads -> Frame]
        /\ \A u \in Threads \ {t} : frame'[u] = frame[u]
        /\ frame'[t].box = frame[t].box /\ frame'[t].i = frame[t].i
    BY <1>6, OpenBlocksKeeps
  <2>2. TablesOK' /\ SessionsOK' /\ Local(t) /\ signalled' \subseteq Threads
    BY <2>1 DEF TypeOK, TablesOK, SessionsOK, Local
  <2>3. ThreadOK(t)'
    BY <2>1 DEF TypeOK, ThreadOK
  <2> QED
    BY <2>2, <2>3 DEF StepType
<1> QED
  BY <1>1, <1>2, <1>3, <1>4, <1>5, <1>6

-----------------------------------------------------------------------------
(* The invariant, and the kinds of steps.                                  *)

\* Where a thread serves a client, and the step before.
Serving == {"r_count", "p_read", "p_box", "p_write", "u_open", "u_load",
            "fault"}

BoxKept(t) ==
    pc[t] \in Serving => clients[t].box # NULL \/ clients[t].box_name = NoName

Inv == TypeOK /\ RegistryInv /\ \A t \in Threads : BoxKept(t)

\* No slot changes hands or names.
NamesKept ==
    \A s \in Slots : /\ boxes'[s].name = boxes[s].name
                     /\ boxes'[s].free = boxes[s].free

\* A step of a thread that neither has boxes_lock nor takes it.
Quiet(t) ==
    /\ num_boxes' = num_boxes /\ boxes_lock' = boxes_lock /\ NamesKept
    /\ \A u \in Threads \ {t} : clients'[u] = clients[u]
    /\ pc[t] \notin Critical \cup {"closing"} /\ pc'[t] \notin Critical
    /\ pc'[t] = "d_lock" => clients'[t].box_name \in Names
    /\ BoxKept(t)'

\* A step of a thread that has boxes_lock or takes it.
Owned(t) ==
    /\ boxes_lock \in {Nobody, t} /\ boxes_lock' \in {Nobody, t}
    /\ \A u \in Threads \ {t} : clients'[u] \in {clients[u], Ended(clients[u])}
    /\ boxes_lock' = t =>
         pc'[t] \in Critical \cup {"closing"} /\ OwnerInv(t)'
    /\ boxes_lock' = Nobody => pc'[t] \notin Critical /\ Settled'
    /\ pc'[t] \notin Serving
    /\ NameInv(t)' /\ NamesDistinct'

-----------------------------------------------------------------------------
LEMMA SlotsAreNotNull == NULL \notin Slots
  BY DEF NULL, Slots

LEMMA NobodyIsNoThread == Nobody \notin Threads
  BY RegistryAssumption DEF Threads

LEMMA UsedIsFinite ==
    /\ IsFiniteSet(Slots) /\ Cardinality(Slots) = MaxBoxes
    /\ IsFiniteSet(Used) /\ Cardinality(Used) \in Nat
<1>1. IsFiniteSet(Slots) /\ Cardinality(Slots) = MaxBoxes
  BY RegistryAssumption, FS_Interval DEF Slots
<1>2. Used \subseteq Slots
  BY DEF Used
<1> QED
  BY <1>1, <1>2, FS_Subset, FS_CardinalityType

\* Where names and flags stay, what is said of them stays true.
LEMMA KeptTables ==
    ASSUME NamesKept
    PROVE  /\ Used' = Used /\ BoxNames' = BoxNames
           /\ \A s \in Slots : Agrees(s)' <=> Agrees(s)
           /\ NamesDistinct => NamesDistinct'
<1>1. Used' = Used /\ \A s \in Slots : Agrees(s)' <=> Agrees(s)
  BY DEF NamesKept, Used, Agrees
<1>2. BoxNames' = BoxNames
  BY DEF NamesKept, BoxNames
<1> QED
  BY <1>1, <1>2 DEF NamesKept, NamesDistinct

\* What a session that another thread ended looks like.
LEMMA EndedClient ==
    ASSUME TypeOK, NEW u \in Threads
    PROVE  /\ Ended(clients[u]).box_name = NoName
           /\ Ended(clients[u]).pipename = FALSE
  BY DEF TypeOK, SessionsOK, Client, Ended

LEMMA QuietPreserves ==
    ASSUME Inv, NEW t \in Threads, StepType(t), Quiet(t)
    PROVE  RegistryInv' /\ \A u \in Threads : BoxKept(u)'
<1> USE DEF Inv
<1>1. \A u \in Threads \ {t} : /\ pc'[u] = pc[u] /\ frame'[u] = frame[u]
                               /\ clients'[u] = clients[u]
  BY DEF StepType, Local, Quiet
<1>2. boxes_lock # t
  BY DEF RegistryInv, LockInv, Quiet
<1>3. LockInv'
  BY <1>1, <1>2 DEF RegistryInv, LockInv, Quiet
<1>4. NamesDistinct' /\ (boxes_lock' = Nobody => Settled')
  BY KeptTables DEF Quiet, RegistryInv, Settled
<1>5. ASSUME NEW u \in Threads
      PROVE  NameInv(u)' /\ (boxes_lock' = u => OwnerInv(u)')
  <2>1. CASE u = t
    BY <1>2, <2>1 DEF Quiet, NameInv, Critical
  <2>2. CASE u # t
    <3>1. NameInv(u)'
      BY <1>1, <2>2, KeptTables DEF Quiet, RegistryInv, NameInv, NamesKept
    <3>2. ASSUME boxes_lock' = u, pc'[u] # "closing"
          PROVE  OwnerInv(u)'
      <4>1. OwnerInv(u) /\ pc[u] # "closing" /\ pc[u] \in Critical
        BY <1>1, <2>2, <3>2 DEF Quiet, RegistryInv, LockInv
      <4>2. pc[u] \in {"c_copy", "d_unlink", "d_clear"} =>
              frame[u].box \in Slots
        BY DEF TypeOK, ThreadOK
      <4> QED
        BY <1>1, <2>2, <4>1, <4>2, KeptTables
           DEF Quiet, OwnerInv, NamesKept
    <3> QED
      BY <3>1, <3>2 DEF OwnerInv
  <2> QED
    BY <2>1, <2>2
<1>6. \A u \in Threads : BoxKept(u)'
  BY <1>1 DEF Quiet, BoxKept
<1> QED
  BY <1>3, <1>4, <1>5, <1>6 DEF RegistryInv

LEMMA OwnedPreserves ==
    ASSUME Inv, NEW t \in Threads, StepType(t), Owned(t)
    PROVE  RegistryInv' /\ \A u \in Threads : BoxKept(u)'
<1> USE DEF Inv
<1>1. ASSUME NEW u \in Threads \ {t}
      PROVE  /\ pc'[u] = pc[u] /\ pc[u] \notin Critical
             /\ boxes_lock' # u /\ boxes_lock # u
  BY NobodyIsNoThread DEF StepType, Local, Owned, RegistryInv, LockInv
<1>2. LockInv'
  BY <1>1, NobodyIsNoThread DEF LockInv, Owned
<1>3. ASSUME NEW u \in Threads \ {t}
      PROVE  NameInv(u)' /\ BoxKept(u)'
  <2>1. CASE clients'[u] = clients[u]
    BY <1>1, <2>1 DEF NameInv, Critical, RegistryInv, BoxKept
  <2>2. CASE clients'[u] = Ended(clients[u])
    BY <1>1, <2>2, EndedClient DEF NameInv, Critical, BoxKept
  <2> QED
    BY <2>1, <2>2 DEF Owned
<1>4. BoxKept(t)'
  BY DEF Owned, BoxKept
<1> QED
  BY <1>1, <1>2, <1>3, <1>4 DEF RegistryInv, Owned

-----------------------------------------------------------------------------
(* The quiet steps.                                                        *)

LEMMA RegisterIsQuiet ==
    ASSUME Inv, NEW t \in Threads, Register(t)
    PROVE  Quiet(t)
<1> USE DEF Inv
<1>1. CASE RegisterOpens(t)
  BY <1>1, GotoType, OpenPipeType
     DEF RegisterOpens, Quiet, NamesKept, BoxKept, Serving, Critical, PCs,
         registry, tables, TypeOK, SessionsOK, Client
<1>2. CASE RegisterFinds(t)
  BY <1>2, GotoType
     DEF RegisterFinds, Quiet, NamesKept, BoxKept, Serving, Critical, PCs,
         registry, tables, session
<1>3. CASE RegisterMisses(t)
  BY <1>3, ReturnType, CloseServerType
     DEF RegisterMisses, Quiet, NamesKept, BoxKept, Serving, Critical,
         registry, tables
<1>4. CASE RegisterTests(t)
  <2>1. frame[t].box \in Slots
    BY <1>4 DEF RegisterTests, Goto, TypeOK, ThreadOK
  <2>2. clients'[t].box = frame[t].box
    BY <1>4 DEF RegisterTests, TypeOK, SessionsOK, Client
  <2> QED
    BY <1>4, <2>1, <2>2, GotoType, SlotsAreNotNull
       DEF RegisterTests, Quiet, NamesKept, BoxKept, Serving, Critical, PCs,
           registry, tables, TypeOK, SessionsOK
<1>5. CASE RegisterCounts(t)
  <2>1. frame[t].box \in Slots
    BY <1>5 DEF RegisterCounts, Goto, TypeOK, ThreadOK
  <2>2. NamesKept
    BY <1>5, <2>1 DEF RegisterCounts, NamesKept, TypeOK, TablesOK, Box
  <2> QED
    BY <1>5, <2>2, GotoType
       DEF RegisterCounts, Quiet, BoxKept, Serving, Critical, PCs, session,
           tables
<1> QED
  BY <1>1, <1>2, <1>3, <1>4, <1>5 DEF Register

LEMMA PublishIsQuiet ==
    ASSUME Inv, NEW t \in Threads, Publish(t)
    PROVE  Quiet(t)
<1> USE DEF Inv
<1>1. CASE PublisherReceives(t)
  BY <1>1, GotoType
     DEF PublisherReceives, Quiet, NamesKept, BoxKept, Serving, Critical, PCs,
         registry, tables, session
<1>2. CASE PublisherEnds(t)
  BY <1>2, ReturnType, FinishType
     DEF PublisherEnds, Quiet, NamesKept, BoxKept, Serving, Critical,
         registry, tables, session, FinishClientSession
<1>3. CASE PublisherLoads(t)
  BY <1>3, GotoType
     DEF PublisherLoads, Quiet, NamesKept, BoxKept, Serving, Critical, PCs,
         registry, tables, session
<1>4. CASE PublisherWrites(t)
  BY <1>4, GotoType
     DEF PublisherWrites, Quiet, NamesKept, BoxKept, Serving, Critical, PCs,
         registry, tables, session
<1>5. CASE PublisherFillsBox(t)
  BY <1>5, ReturnType, FinishType
     DEF PublisherFillsBox, Quiet, NamesKept, BoxKept, Serving, Critical,
         tables, FinishClientSession
<1>6. CASE PublisherFails(t)
  BY <1>6, CloseServerType, FinishType
     DEF PublisherFails, Quiet, NamesKept, BoxKept, Serving, Critical, tables,
         FinishClientSession
<1> QED
  BY <1>1, <1>2, <1>3, <1>4, <1>5, <1>6 DEF Publish

LEMMA SubscribeIsQuiet ==
    ASSUME Inv, NEW t \in Threads, Subscribe(t)
    PROVE  Quiet(t)
<1> USE DEF Inv
<1>1. CASE SubscriberOpens(t)
  BY <1>1, GotoType
     DEF SubscriberOpens, Quiet, NamesKept, BoxKept, Serving, Critical, PCs,
         TypeOK, SessionsOK, Client
<1>2. CASE SubscriberCannotOpen(t)
  BY <1>2, CloseServerType
     DEF SubscriberCannotOpen, Quiet, NamesKept, BoxKept, Serving, Critical,
         registry, tables, TypeOK, SessionsOK, Client
<1>3. CASE SubscriberLoads(t)
  BY <1>3, GotoType
     DEF SubscriberLoads, Quiet, NamesKept, BoxKept, Serving, Critical, PCs,
         registry, tables, session
<1>4. CASE SubscriberSends(t)
  BY <1>4
     DEF SubscriberSends, Quiet, NamesKept, BoxKept, Serving, Critical,
         registry, tables, session
<1>5. CASE SubscriberLeft(t)
  BY <1>5, ReturnType, FinishType
     DEF SubscriberLeft, Quiet, NamesKept, BoxKept, Serving, Critical, tables,
         FinishClientSession
<1>6. CASE SubscriberFails(t)
  BY <1>6, CloseServerType, FinishType
     DEF SubscriberFails, Quiet, NamesKept, BoxKept, Serving, Critical,
         tables, FinishClientSession
<1>7. CASE SubscriberLosesPipe(t)
  BY <1>7, CloseServerType
     DEF SubscriberLosesPipe, Quiet, NamesKept, BoxKept, Serving, Critical,
         registry, tables, session
<1> QED
  BY <1>1, <1>2, <1>3, <1>4, <1>5, <1>6, <1>7 DEF Subscribe

LEMMA ListIsQuiet ==
    ASSUME Inv, NEW t \in Threads, List(t)
    PROVE  Quiet(t)
<1> USE DEF Inv
<1>1. CASE ListOpens(t)
  BY <1>1, GotoType, OpenPipeType
     DEF ListOpens, Quiet, NamesKept, BoxKept, Serving, Critical, PCs,
         registry, tables, TypeOK, SessionsOK, Client
<1>2. CASE ListSkips(t)
  BY <1>2
     DEF ListSkips, Quiet, NamesKept, BoxKept, Serving, Critical, registry,
         tables, session
<1>3. CASE ListCopies(t)
  BY <1>3, GotoType
     DEF ListCopies, Quiet, NamesKept, BoxKept, Serving, Critical, PCs,
         registry, tables, session
<1>4. CASE ListSends(t)
  BY <1>4, GotoType
     DEF ListSends, Quiet, NamesKept, BoxKept, Serving, Critical, PCs,
         registry, tables, session
<1>5. CASE ListPipeClosed(t)
  BY <1>5, CloseServerType
     DEF ListPipeClosed, Quiet, NamesKept, BoxKept, Serving, Critical,
         registry, tables, session
<1>6. CASE ListEnds(t)
  BY <1>6, GotoType
     DEF ListEnds, Quiet, NamesKept, BoxKept, Serving, Critical, PCs,
         registry, tables, session
<1> QED
  BY <1>1, <1>2, <1>3, <1>4, <1>5, <1>6 DEF List

LEMMA CreateIsQuiet ==
    ASSUME Inv, NEW t \in Threads, Create(t),
           ~CreateCounts(t), ~CreateTakesSlot(t), ~CreateCopies(t)
    PROVE  Quiet(t)
<1> USE DEF Inv
<1>1. CASE CreateRefuses(t)
  BY <1>1, GotoType
     DEF CreateRefuses, Quiet, NamesKept, BoxKept, Serving, Critical, PCs,
         registry, tables, session
<1>2. CASE CreateOpensPipe(t)
  BY <1>2, GotoType, OpenPipeType
     DEF CreateOpensPipe, Quiet, NamesKept, BoxKept, Serving, Critical, PCs,
         registry, tables, TypeOK, SessionsOK, Client
<1>3. CASE CreateHasNoPipe(t)
  BY <1>3, GotoType
     DEF CreateHasNoPipe, Quiet, NamesKept, BoxKept, Serving, Critical, PCs,
         registry, tables, TypeOK, SessionsOK, Client
<1>4. CASE CreateMakesFile(t)
  BY <1>4, GotoType
     DEF CreateMakesFile, Quiet, NamesKept, BoxKept, Serving, Critical, PCs,
         TypeOK, SessionsOK, Client
<1>5. CASE CreateMakesNoFile(t)
  BY <1>5, CloseServerType
     DEF CreateMakesNoFile, Quiet, NamesKept, BoxKept, Serving, Critical,
         registry, tables, session
<1>6. CASE CreateAnswers(t)
  BY <1>6, GotoType
     DEF CreateAnswers, Quiet, NamesKept, BoxKept, Serving, Critical, PCs,
         registry, tables, session
<1> QED
  BY <1>1, <1>2, <1>3, <1>4, <1>5, <1>6 DEF Create

LEMMA OtherIsQuiet ==
    ASSUME Inv, NEW t \in Threads,
           Dequeue(t) \/ Finish(t) \/ OpenFails(t) \/ NullBox(t)
    PROVE  Quiet(t)
<1> USE DEF Inv
<1>1. CASE Dequeue(t)
  <2>1. PICK op \in Opcodes, n \in Names :
          /\ Goto(t, "idle", Entry[op])
          /\ clients' = [clients EXCEPT
                 ![t].opcode = op, ![t].pipename = TRUE,
                 ![t].box_name = IF op = "list" THEN @ ELSE n]
    BY <1>1 DEF Dequeue
  <2>2. op \in {"pub", "sub", "create", "remove", "list"}
    BY RegistryAssumption
  <2>3. /\ Entry[op] \in {"r_open", "c_lock", "d_lock", "l_open"}
        /\ Entry[op] = "d_lock" => op = "remove"
    BY <2>2 DEF Entry
  <2>4. pc[t] = "idle" /\ pc'[t] = Entry[op]
    BY <2>1, <2>3, GotoType DEF PCs
  <2>5. op = "remove" => clients'[t].box_name \in Names
    BY <2>1 DEF TypeOK, SessionsOK, Client
  <2>6. \A u \in Threads \ {t} : clients'[u] = clients[u]
    BY <2>1 DEF TypeOK, SessionsOK
  <2> QED
    BY <1>1, <2>3, <2>4, <2>5, <2>6
       DEF Dequeue, Quiet, NamesKept, BoxKept, Serving, Critical, registry,
           tables
<1>2. CASE Finish(t)
  BY <1>2, ReturnType, CloseServerType, FinishType
     DEF Finish, Quiet, NamesKept, BoxKept, Serving, Critical, tables,
         FinishClientSession
<1>3. CASE OpenFails(t)
  BY <1>3, CloseServerType
     DEF OpenFails, Quiet, NamesKept, BoxKept, Serving, Critical, registry,
         tables, session
<1>4. CASE NullBox(t)
  BY <1>4
     DEF NullBox, Quiet, NamesKept, BoxKept, Serving, Critical, registry,
         tables, session, TypeOK
<1> QED
  BY <1>1, <1>2, <1>3, <1>4

-----------------------------------------------------------------------------
(* The steps of the owner of boxes_lock.                                   *)

\* The steps that leave names, flags and num_boxes alone.
LEMMA OwnerKeeps ==
    ASSUME Inv, NEW t \in Threads, StepType(t), NamesKept,
           num_boxes' = num_boxes, boxes_lock' = boxes_lock, boxes_lock = t,
           \A u \in Threads \ {t} :
               clients'[u] \in {clients[u], Ended(clients[u])},
           pc[t] \in Critical,
           \/ pc'[t] = "closing"
           \/ /\ {pc[t], pc'[t]} \subseteq
                     {"d_open", "d_find", "d_scan", "d_end", "d_answer"}
              /\ NameInv(t)'
           \/ pc[t] = "d_unlink" /\ pc'[t] = "d_clear" /\ frame' = frame
    PROVE  Owned(t)
<1> USE DEF Inv
<1>1. OwnerInv(t) /\ NamesDistinct
  BY DEF RegistryInv
<1>2. boxes_lock' # Nobody
  BY NobodyIsNoThread
<1>3. NamesDistinct'
  BY <1>1, KeptTables
<1>4. CASE pc'[t] = "closing"
  BY <1>2, <1>3, <1>4 DEF Owned, OwnerInv, NameInv, Serving, Critical
<1>5. CASE /\ {pc[t], pc'[t]} \subseteq
                  {"d_open", "d_find", "d_scan", "d_end", "d_answer"}
           /\ NameInv(t)'
  <2>1. OwnerInv(t)'
    BY <1>1, <1>5, KeptTables DEF OwnerInv
  <2> QED
    BY <1>2, <1>3, <1>5, <2>1 DEF Owned, Serving, Critical
<1>6. CASE pc[t] = "d_unlink" /\ pc'[t] = "d_clear" /\ frame' = frame
  <2>1. frame[t].box \in Slots
    BY <1>6 DEF TypeOK, ThreadOK
  <2>2. OwnerInv(t)'
    BY <1>1, <1>6, <2>1, KeptTables DEF OwnerInv, NamesKept
  <2> QED
    BY <1>2, <1>3, <1>6, <2>2 DEF Owned, NameInv, Serving, Critical
<1> QED
  BY <1>4, <1>5, <1>6

\* ~Refused: the name is one, it is new, and some slot is free.
LEMMA NotRefused ==
    ASSUME TypeOK, Settled, NEW t \in Threads, ~Refused(t)
    PROVE  /\ clients[t].box_name \in Names \ BoxNames
           /\ \E s \in Slots : boxes[s].free
<1> DEFINE name == clients[t].box_name
<1>1. num_boxes # MaxBoxes /\ \A s \in Slots : boxes[s].name # name
  BY GetBoxFinds, SlotsAreNotNull DEF Refused
<1>2. PICK s \in Slots : boxes[s].free
  <2>1. SUFFICES ASSUME \A s \in Slots : ~boxes[s].free
                 PROVE  FALSE
    OBVIOUS
  <2>2. Used = Slots
    BY <2>1 DEF Used
  <2> QED
    BY <1>1, <2>2, UsedIsFinite DEF Settled
<1>3. boxes[s].name = NoName
  BY <1>2 DEF Settled, Agrees
<1>4. name # NoName
  BY <1>1, <1>3
<1>5. name \in Names
  BY <1>4 DEF TypeOK, SessionsOK, Client
<1> QED
  BY <1>1, <1>2, <1>5 DEF BoxNames

LEMMA CreateCountsIsOwned ==
    ASSUME Inv, NEW t \in Threads, StepType(t), CreateCounts(t)
    PROVE  Owned(t)
<1> USE DEF Inv
<1>1. /\ pc'[t] = "c_slot" /\ boxes_lock = Nobody /\ boxes_lock' = t
      /\ num_boxes' = num_boxes + 1 /\ UNCHANGED <<boxes, clients>>
      /\ ~Refused(t)
  BY GotoType DEF CreateCounts, PCs, session
<1>2. Settled /\ NamesDistinct
  BY <1>1 DEF RegistryInv
<1>3. NamesKept
  BY <1>1 DEF NamesKept
<1>4. NameInv(t)'
  BY <1>1, <1>2, NotRefused DEF NameInv, BoxNames
<1>5. OwnerInv(t)'
  BY <1>1, <1>2, <1>3, KeptTables DEF OwnerInv, Settled
<1>6. boxes_lock' # Nobody
  BY <1>1, NobodyIsNoThread
<1> QED
  BY <1>1, <1>2, <1>3, <1>4, <1>5, <1>6, KeptTables
     DEF Owned, Serving, Critical

LEMMA CreateTakesSlotIsOwned ==
    ASSUME Inv, NEW t \in Threads, StepType(t), CreateTakesSlot(t)
    PROVE  Owned(t)
<1> USE DEF Inv
<1>1. PICK s \in Slots :
        /\ boxes[s].free /\ boxes' = [boxes EXCEPT ![s].free = FALSE]
        /\ frame' = [frame EXCEPT ![t].box = s]
  BY DEF CreateTakesSlot
<1>2. /\ pc[t] = "c_slot" /\ pc'[t] = "c_copy" /\ num_boxes' = num_boxes
      /\ boxes_lock' = boxes_lock /\ clients' = clients
  BY GotoType DEF CreateTakesSlot, PCs, tables, session
<1>3. boxes_lock = t /\ OwnerInv(t) /\ NameInv(t) /\ NamesDistinct
  BY <1>2 DEF RegistryInv, LockInv, Critical
<1>4. frame'[t].box = s
  BY <1>1 DEF TypeOK, Frame
<1>5. /\ \A r \in Slots : boxes'[r].name = boxes[r].name
      /\ \A r \in Slots \ {s} : boxes'[r].free = boxes[r].free
      /\ boxes'[s].free = FALSE
  BY <1>1 DEF TypeOK, TablesOK, Box
<1>6. Cardinality(Used') = Cardinality(Used) + 1
  <2>1. Used' = Used \cup {s} /\ s \notin Used
    BY <1>1, <1>5 DEF Used
  <2> QED
    BY <2>1, UsedIsFinite, FS_AddElement
<1>7. boxes[s].name = NoName
  BY <1>1, <1>2, <1>3 DEF OwnerInv, Agrees
<1>8. OwnerInv(t)'
  <2>1. num_boxes' = Cardinality(Used') /\ Cardinality(Used') \in Nat
    BY <1>2, <1>3, <1>6, UsedIsFinite DEF OwnerInv
  <2>2. \A r \in Slots \ {s} : Agrees(r)'
    BY <1>2, <1>3, <1>5 DEF OwnerInv, Agrees
  <2> QED
    BY <1>2, <1>4, <1>5, <1>7, <2>1, <2>2 DEF OwnerInv
<1>9. BoxNames' = BoxNames
  BY <1>5 DEF BoxNames
<1>10. NameInv(t)' /\ NamesDistinct'
  BY <1>2, <1>3, <1>5, <1>9 DEF NameInv, NamesDistinct
<1>11. boxes_lock' # Nobody
  BY <1>2, <1>3, NobodyIsNoThread
<1> QED
  BY <1>2, <1>3, <1>8, <1>10, <1>11 DEF Owned, Serving, Critical

LEMMA CreateCopiesIsOwned ==
    ASSUME Inv, NEW t \in Threads, StepType(t), CreateCopies(t)
    PROVE  Owned(t)
<1> USE DEF Inv
<1> DEFINE s == frame[t].box
           name == clients[t].box_name
<1>1. /\ pc[t] = "c_copy" /\ pc'[t] = "c_open" /\ num_boxes' = num_boxes
      /\ boxes_lock' = Nobody /\ clients' = clients
  BY GotoType DEF CreateCopies, PCs, session
<1>2. boxes_lock = t /\ OwnerInv(t) /\ NameInv(t) /\ NamesDistinct
  BY <1>1 DEF RegistryInv, LockInv, Critical
<1>3. s \in Slots
  BY <1>1 DEF TypeOK, ThreadOK
<1>4. /\ boxes'[s].name = name /\ boxes'[s].free = FALSE
      /\ \A r \in Slots \ {s} : boxes'[r] = boxes[r]
  BY <1>3 DEF CreateCopies, EmptyBox, TypeOK, TablesOK
<1>5. name \in Names /\ name # NoName /\ \A r \in Slots : boxes[r].name # name
  BY <1>1, <1>2, RegistryAssumption DEF NameInv, BoxNames
<1>6. Used' = Used
  BY <1>1, <1>2, <1>3, <1>4 DEF Used, OwnerInv
<1>7. Settled'
  <2>1. num_boxes' = Cardinality(Used')
    BY <1>1, <1>2, <1>6, UsedIsFinite DEF OwnerInv
  <2>2. \A r \in Slots : Agrees(r)'
    BY <1>1, <1>2, <1>4, <1>5 DEF OwnerInv, Agrees
  <2> QED
    BY <2>1, <2>2 DEF Settled
<1>8. NamesDistinct'
  BY <1>2, <1>3, <1>4, <1>5 DEF NamesDistinct
<1>9. boxes_lock' # t
  BY <1>1, NobodyIsNoThread
<1> QED
  BY <1>1, <1>2, <1>7, <1>8, <1>9 DEF Owned, NameInv, Serving, Critical

LEMMA RemoveFreesSlotIsOwned ==
    ASSUME Inv, NEW t \in Threads, StepType(t), RemoveFreesSlot(t)
    PROVE  Owned(t)
<1> USE DEF Inv
<1> DEFINE name == clients[t].box_name
           s == GetBox(name)
<1>1. /\ pc[t] = "d_scan" /\ pc'[t] = "d_unlink" /\ num_boxes' = num_boxes
      /\ boxes_lock' = boxes_lock /\ clients' = clients
  BY GotoType DEF RemoveFreesSlot, PCs, session
<1>2. boxes_lock = t /\ OwnerInv(t) /\ NameInv(t) /\ NamesDistinct
  BY <1>1 DEF RegistryInv, LockInv, Critical
<1>3. s \in Slots /\ boxes[s].name = name /\ name \in Names /\ name # NoName
  BY <1>1, <1>2, GetBoxFinds, RegistryAssumption DEF NameInv
<1>4. ~boxes[s].free
  BY <1>1, <1>2, <1>3 DEF OwnerInv, Agrees
<1>5. frame'[t].box = s
  BY DEF RemoveFreesSlot, TypeOK, Frame
<1>6. /\ \A r \in Slots : boxes'[r].name = boxes[r].name
      /\ \A r \in Slots \ {s} : boxes'[r].free = boxes[r].free
      /\ boxes'[s].free = TRUE
  BY <1>3 DEF RemoveFreesSlot, TypeOK, TablesOK, Box
<1>7. Cardinality(Used) = Cardinality(Used') + 1
  <2>1. Used' = Used \ {s} /\ s \in Used
    BY <1>3, <1>4, <1>6 DEF Used
  <2>2. Cardinality(Used') = Cardinality(Used) - 1
    BY <2>1, UsedIsFinite, FS_RemoveElement
  <2> QED
    BY <2>2, UsedIsFinite
<1>8. OwnerInv(t)'
  <2>1. num_boxes' = Cardinality(Used') + 1
    BY <1>1, <1>2, <1>7, UsedIsFinite DEF OwnerInv
  <2>2. \A r \in Slots \ {s} : Agrees(r)'
    BY <1>1, <1>2, <1>6 DEF OwnerInv, Agrees
  <2> QED
    BY <1>1, <1>3, <1>5, <1>6, <2>1, <2>2 DEF OwnerInv
<1>9. NamesDistinct'
  BY <1>2, <1>6 DEF NamesDistinct
<1>10. boxes_lock' # Nobody
  BY <1>1, <1>2, NobodyIsNoThread
<1> QED
  BY <1>1, <1>2, <1>8, <1>9, <1>10 DEF Owned, NameInv, Serving, Critical

LEMMA RemoveClearsIsOwned ==
    ASSUME Inv, NEW t \in Threads, StepType(t), RemoveClears(t)
    PROVE  Owned(t)
<1> USE DEF Inv
<1> DEFINE s == frame[t].box
<1>1. /\ pc[t] = "d_clear" /\ pc'[t] = "d_count" /\ num_boxes' = num_boxes
      /\ boxes_lock' = boxes_lock /\ clients' = clients
      /\ boxes' = [boxes EXCEPT ![s] = Cleared(@)]
  BY GotoType DEF RemoveClears, PCs, session, tables
<1>2. boxes_lock = t /\ OwnerInv(t) /\ NamesDistinct
  BY <1>1 DEF RegistryInv, LockInv, Critical
<1>3. s \in Slots
  BY <1>1 DEF TypeOK, ThreadOK
<1>4. /\ boxes'[s].name = NoName /\ boxes'[s].free = boxes[s].free
      /\ \A r \in Slots \ {s} : boxes'[r] = boxes[r]
  BY <1>1, <1>3 DEF Cleared, TypeOK, TablesOK, Box
<1>5. Used' = Used
  BY <1>3, <1>4 DEF Used
<1>6. OwnerInv(t)'
  <2>1. \A r \in Slots : Agrees(r)'
    BY <1>1, <1>2, <1>4 DEF OwnerInv, Agrees
  <2> QED
    BY <1>1, <1>2, <1>5, <2>1 DEF OwnerInv
<1>7. NamesDistinct'
  BY <1>2, <1>3, <1>4 DEF NamesDistinct
<1>8. boxes_lock' # Nobody
  BY <1>1, <1>2, NobodyIsNoThread
<1> QED
  BY <1>1, <1>2, <1>6, <1>7, <1>8 DEF Owned, NameInv, Serving, Critical

LEMMA RemoveCountsIsOwned ==
    ASSUME Inv, NEW t \in Threads, StepType(t), RemoveCounts(t)
    PROVE  Owned(t)
<1> USE DEF Inv
<1>1. /\ pc[t] = "d_count" /\ pc'[t] = "d_answer"
      /\ num_boxes' = num_boxes - 1 /\ boxes_lock' = boxes_lock
      /\ UNCHANGED <<boxes, clients>>
  BY GotoType DEF RemoveCounts, PCs, session
<1>2. boxes_lock = t /\ OwnerInv(t) /\ NamesDistinct
  BY <1>1 DEF RegistryInv, LockInv, Critical
<1>3. NamesKept
  BY <1>1 DEF NamesKept
<1>4. OwnerInv(t)'
  BY <1>1, <1>2, <1>3, KeptTables, UsedIsFinite DEF OwnerInv
<1>5. boxes_lock' # Nobody
  BY <1>1, <1>2, NobodyIsNoThread
<1> QED
  BY <1>1, <1>2, <1>3, <1>4, <1>5, KeptTables
     DEF Owned, NameInv, Serving, Critical

\* The first step of a removal takes the lock, its last gives it back.
LEMMA RemoveLocksIsOwned ==
    ASSUME Inv, NEW t \in Threads, StepType(t), RemoveLocks(t)
    PROVE  Owned(t)
<1> USE DEF Inv
<1>1. /\ pc[t] = "d_lock" /\ pc'[t] = "d_open" /\ num_boxes' = num_boxes
      /\ boxes_lock = Nobody /\ boxes_lock' = t /\ UNCHANGED <<boxes, clients>>
  BY GotoType DEF RemoveLocks, PCs, session
<1>2. Settled /\ NamesDistinct /\ NameInv(t)
  BY <1>1 DEF RegistryInv
<1>3. NamesKept
  BY <1>1 DEF NamesKept
<1>4. OwnerInv(t)'
  BY <1>1, <1>2, <1>3, KeptTables, UsedIsFinite DEF OwnerInv, Settled
<1>5. NameInv(t)'
  BY <1>1, <1>2 DEF NameInv
<1>6. boxes_lock' # Nobody
  BY <1>1, NobodyIsNoThread
<1> QED
  BY <1>1, <1>2, <1>3, <1>4, <1>5, <1>6, KeptTables
     DEF Owned, Serving, Critical

LEMMA RemoveUnlocksIsOwned ==
    ASSUME Inv, NEW t \in Threads, StepType(t),
           RemoveHasNoPipe(t) \/ RemoveAnswers(t)
    PROVE  Owned(t)
<1> USE DEF Inv
<1>1. /\ pc[t] \in {"d_open", "d_answer"} /\ pc'[t] \in {"closing", "finish"}
      /\ num_boxes' = num_boxes /\ boxes_lock' = Nobody
      /\ UNCHANGED <<boxes, clients>>
  BY GotoType, CloseServerType
     DEF RemoveHasNoPipe, RemoveAnswers, PCs, session
<1>2. boxes_lock = t /\ OwnerInv(t) /\ NamesDistinct
  BY <1>1 DEF RegistryInv, LockInv, Critical
<1>3. NamesKept
  BY <1>1 DEF NamesKept
<1>4. Settled'
  BY <1>1, <1>2, <1>3, KeptTables, UsedIsFinite DEF OwnerInv, Settled
<1>5. boxes_lock' # t
  BY <1>1, NobodyIsNoThread
<1> QED
  BY <1>1, <1>2, <1>3, <1>4, <1>5, KeptTables
     DEF Owned, NameInv, Serving, Critical

\* The session that a removal ends is not its own, and no name in the tables
\* changes with it.
LEMMA RemoveEndsSessionIsOwned ==
    ASSUME Inv, NEW t \in Threads, StepType(t), RemoveEndsSession(t)
    PROVE  Owned(t)
<1> USE DEF Inv
<1> DEFINE i == frame[t].i
<1>1. pc[t] = "d_end" /\ i \in Threads \ {t} /\ FinishClientSession(i)
  BY DEF RemoveEndsSession, TypeOK, ThreadOK
<1>2. boxes_lock = t /\ NameInv(t)
  BY <1>1 DEF RegistryInv, LockInv, Critical
<1>3. /\ NamesKept /\ UNCHANGED tables /\ clients'[t] = clients[t]
      /\ \A u \in Threads : clients'[u] \in {clients[u], Ended(clients[u])}
  BY <1>1, FinishType DEF NamesKept, FinishClientSession
<1>4. pc'[t] \in {"d_scan", "closing"}
  BY GotoType, CloseServerType DEF RemoveEndsSession, PCs
<1>5. pc'[t] = "d_scan" => NameInv(t)'
  BY <1>1, <1>2, <1>3 DEF NameInv, NamesKept
<1> QED
  BY <1>1, <1>2, <1>3, <1>4, <1>5, OwnerKeeps DEF tables, Critical

LEMMA RemoveIsOwned ==
    ASSUME Inv, NEW t \in Threads, StepType(t), Remove(t)
    PROVE  Owned(t)
<1> USE DEF Inv
<1> DEFINE Kept == /\ NamesKept /\ UNCHANGED tables
                   /\ \A u \in Threads \ {t} : clients'[u] = clients[u]
<1>1. ASSUME pc[t] \in Critical
      PROVE  boxes_lock = t /\ NameInv(t)
  BY <1>1 DEF RegistryInv, LockInv
<1>2. CASE RemoveOpensPipe(t)
  <2>1. pc[t] = "d_open" /\ pc'[t] = "d_find" /\ clients[t].pipename
    BY <1>2, GotoType, OpenPipeType DEF RemoveOpensPipe, PCs
  <2>2. clients' = [clients EXCEPT ![t].client_pipe = NewDescriptor]
    BY <1>2, OpenPipeType DEF RemoveOpensPipe
  <2>3. Kept /\ clients'[t].box_name = clients[t].box_name
    BY <1>2, <2>2
       DEF RemoveOpensPipe, registry, NamesKept, TypeOK, SessionsOK, Client
  <2>4. NameInv(t)'
    BY <1>1, <2>1, <2>3 DEF NameInv, Critical
  <2> QED
    BY <1>1, <2>1, <2>3, <2>4, OwnerKeeps DEF tables, Critical
<1>3. CASE RemoveMisses(t)
  <2>1. pc[t] = "d_find" /\ pc'[t] = "d_answer" /\ Kept
    BY <1>3, GotoType
       DEF RemoveMisses, PCs, registry, session, NamesKept
  <2>2. NameInv(t)'
    BY <2>1 DEF NameInv
  <2> QED
    BY <1>1, <2>1, <2>2, OwnerKeeps DEF tables, Critical
<1>4. CASE RemoveFinds(t)
  <2>1. /\ pc[t] = "d_find" /\ pc'[t] = "d_scan"
        /\ Kept /\ clients' = clients
    BY <1>4, GotoType
       DEF RemoveFinds, PCs, registry, session, NamesKept
  <2>2. \E s \in Slots : boxes[s].name = clients[t].box_name
    BY <1>4, GetBoxFinds DEF RemoveFinds
  <2>3. NameInv(t)'
    BY <1>1, <2>1, <2>2 DEF NameInv, NamesKept, Critical
  <2> QED
    BY <1>1, <2>1, <2>3, OwnerKeeps DEF tables, Critical
<1>5. CASE RemoveMatches(t) \/ RemoveSkips(t)
  <2>1. /\ pc[t] = "d_scan" /\ pc'[t] \in {"d_scan", "d_end"}
        /\ Kept /\ clients' = clients
    BY <1>5, GotoType
       DEF RemoveMatches, RemoveSkips, PCs, registry, session, NamesKept
  <2>2. NameInv(t)'
    BY <1>1, <2>1 DEF NameInv, NamesKept, Critical
  <2> QED
    BY <1>1, <2>1, <2>2, OwnerKeeps DEF tables, Critical
<1>6. CASE RemoveUnlinks(t)
  <2>1. /\ pc[t] = "d_unlink" /\ pc'[t] = "d_clear" /\ frame' = frame
        /\ clients' = clients /\ NamesKept
        /\ UNCHANGED <<num_boxes, boxes_lock>>
    BY <1>6, GotoType DEF RemoveUnlinks, PCs, session, NamesKept
  <2> QED
    BY <1>1, <2>1, OwnerKeeps DEF Critical
<1>7. CASE RemoveCannotUnlink(t)
  <2>1. pc[t] = "d_unlink" /\ pc'[t] = "closing" /\ Kept
    BY <1>7, CloseServerType
       DEF RemoveCannotUnlink, registry, session, NamesKept
  <2> QED
    BY <1>1, <2>1, OwnerKeeps DEF tables, Critical
<1> QED
  BY <1>2, <1>3, <1>4, <1>5, <1>6, <1>7, RemoveLocksIsOwned,
     RemoveUnlocksIsOwned, RemoveEndsSessionIsOwned, RemoveFreesSlotIsOwned,
     RemoveClearsIsOwned, RemoveCountsIsOwned DEF Remove

\* A creation fails to answer without the lock, a removal with it.
LEMMA AnswerFailsIsEither ==
    ASSUME Inv, NEW t \in Threads, StepType(t), AnswerFails(t)
    PROVE  Quiet(t) \/ Owned(t)
<1> USE DEF Inv
<1>1. /\ pc[t] \in {"c_answer", "d_answer"} /\ pc'[t] = "closing"
      /\ NamesKept /\ UNCHANGED <<num_boxes, boxes_lock, clients>>
  BY CloseServerType DEF AnswerFails, registry, tables, session, NamesKept
<1>2. CASE pc[t] = "c_answer"
  BY <1>1, <1>2 DEF Quiet, BoxKept, Serving, Critical
<1>3. CASE pc[t] = "d_answer"
  <2>1. boxes_lock = t
    BY <1>3 DEF RegistryInv, LockInv, Critical
  <2> QED
    BY <1>1, <1>3, <2>1, OwnerKeeps DEF Critical
<1> QED
  BY <1>1, <1>2, <1>3

-----------------------------------------------------------------------------
(* The theorems.                                                           *)

LEMMA InitInv == Init => Inv
<1> SUFFICES ASSUME Init
             PROVE  Inv
  OBVIOUS
<1>1. TablesOK
  BY ZeroCount DEF Init, TablesOK, EmptyBox, Box
<1>2. SessionsOK
  <2>1. IsFiniteSet({0})
    BY FS_Singleton
  <2> QED
    BY <2>1 DEF Init, SessionsOK, EmptyClient, Client
<1>3. TypeOK
  BY <1>1, <1>2, EmptyFrameType DEF Init, TypeOK, ThreadOK, PCs
<1>4. Settled
  <2>1. Used = {}
    BY DEF Init, EmptyBox, Used
  <2> QED
    BY <2>1, FS_EmptySet DEF Init, Settled, Agrees, EmptyBox
<1>5. RegistryInv
  BY <1>4, NobodyIsNoThread
     DEF Init, RegistryInv, LockInv, NamesDistinct, NameInv, Critical,
         EmptyBox
<1> QED
  BY <1>3, <1>5 DEF Init, Inv, BoxKept, Serving

LEMMA TypeStep ==
    ASSUME TypeOK, NEW t \in Threads, StepType(t)
    PROVE  TypeOK'
<1>1. ASSUME NEW u \in Threads
      PROVE  ThreadOK(u)'
  <2>1. CASE u = t
    BY <2>1 DEF StepType
  <2>2. CASE u # t
    BY <2>2 DEF StepType, Local, TypeOK, ThreadOK
  <2> QED
    BY <2>1, <2>2
<1> QED
  BY <1>1 DEF StepType, Local, TypeOK

LEMMA ManagerPreserves ==
    ASSUME Inv, NEW t \in Threads, Manager(t)
    PROVE  RegistryInv' /\ \A u \in Threads : BoxKept(u)'
<1>1. UNCHANGED <<boxes, num_boxes, boxes_lock, clients, pc, frame>>
  BY DEF Manager, ManagerReads, ManagerAtEnd, registry, tables, session
<1> QED
  BY <1>1
     DEF Inv, RegistryInv, LockInv, NamesDistinct, Settled, NameInv, OwnerInv,
         Used, Agrees, BoxNames, BoxKept

LEMMA OpenBlocksPreserves ==
    ASSUME Inv, NEW t \in Threads, OpenBlocks(t)
    PROVE  RegistryInv' /\ \A u \in Threads : BoxKept(u)'
<1>1. /\ UNCHANGED <<boxes, num_boxes, boxes_lock, clients, pc>>
      /\ \A u \in Threads : frame'[u].box = frame[u].box
  BY OpenBlocksKeeps DEF Inv
<1>2. NamesKept
  BY <1>1 DEF NamesKept
<1>3. LockInv' /\ NamesDistinct' /\ (boxes_lock' = Nobody => Settled')
  BY <1>1, <1>2, KeptTables DEF Inv, RegistryInv, LockInv, Settled
<1>4. ASSUME NEW u \in Threads
      PROVE  /\ NameInv(u)' /\ BoxKept(u)'
             /\ boxes_lock' = u => OwnerInv(u)'
  <2>1. NameInv(u)' /\ BoxKept(u)'
    BY <1>1 DEF Inv, RegistryInv, NameInv, BoxNames, BoxKept
  <2>2. ASSUME boxes_lock = u
        PROVE  OwnerInv(u)'
    BY <1>1, <1>2, <2>2, KeptTables DEF Inv, RegistryInv, OwnerInv
  <2> QED
    BY <1>1, <2>1, <2>2
<1> QED
  BY <1>3, <1>4 DEF RegistryInv

LEMMA NextInv ==
    ASSUME Inv, Next
    PROVE  Inv'
<1>1. PICK t \in Threads :
        \/ Dequeue(t) \/ Finish(t) \/ OpenFails(t) \/ AnswerFails(t)
        \/ OpenBlocks(t) \/ NullBox(t) \/ Register(t) \/ Publish(t)
        \/ Subscribe(t) \/ Create(t) \/ Remove(t) \/ List(t) \/ Manager(t)
  BY DEF Next
<1>2. TypeOK /\ \A u \in Threads : NameInv(u)
  BY DEF Inv, RegistryInv
<1>3. StepType(t)
  BY <1>1, <1>2, OtherType, RegisterType, PublishType, SubscribeType,
     CreateType, RemoveType, ListType, ManagerType
<1>4. TypeOK'
  BY <1>2, <1>3, TypeStep
<1>5. Manager(t) \/ OpenBlocks(t) \/ Quiet(t) \/ Owned(t)
  BY <1>1, <1>3, OtherIsQuiet, AnswerFailsIsEither, RegisterIsQuiet,
     PublishIsQuiet, SubscribeIsQuiet, ListIsQuiet, CreateIsQuiet,
     CreateCountsIsOwned, CreateTakesSlotIsOwned, CreateCopiesIsOwned,
     RemoveIsOwned
<1> QED
  BY <1>3, <1>4, <1>5, ManagerPreserves, OpenBlocksPreserves,
     QuietPreserves, OwnedPreserves DEF Inv

LEMMA StutterInv ==
    ASSUME Inv, UNCHANGED vars
    PROVE  Inv'
<1>1. UNCHANGED <<boxes, num_boxes, files, boxes_lock, clients, descriptors,
                  pc, frame, signalled, exited>>
  BY DEF vars, registry, tables, session, others
<1>2. TypeOK'
  BY <1>1 DEF Inv, TypeOK, TablesOK, SessionsOK, ThreadOK
<1> QED
  BY <1>1, <1>2
     DEF Inv, RegistryInv, LockInv, NamesDistinct, Settled, NameInv, OwnerInv,
         Used, Agrees, BoxNames, BoxKept

\* The tables agree as far as the handler that holds boxes_lock has come.
THEOREM InvHolds == Spec => []Inv
<1>1. Inv /\ [Next]_vars => Inv'
  BY NextInv, StutterInv
<1> QED
  BY <1>1, InitInv, PTL DEF Spec

\* Whatever the threads do, the tables and their locals keep their shape, no
\* loop of a handler leaves its array, and a handler that is between the two
\* parts of a change has the slot that it works on.
THEOREM TypeCorrect == Spec => []TypeOK
<1>1. Inv => TypeOK
  BY DEF Inv
<1> QED
  BY <1>1, InvHolds, PTL

\* For any number of threads and slots: when boxes_lock is free, num_boxes
\* counts the slots in use and these are the ones with a name; and no name is
\* in two slots, not even while a handler is at work or after it failed.
THEOREM RegistryIsConsistent == Spec => []RegistryAgrees
<1>1. Inv => RegistryAgrees
  BY DEF Inv, RegistryInv, RegistryAgrees, Settled, Agrees, Used,
         NamesDistinct
<1> QED
  BY <1>1, InvHolds, PTL

\* create_box never runs out of slots once num_boxes has let it pass, and the
\* name it copies is not empty and in no other slot, although removals end
\* its client's session and other threads change boxes without the lock.
THEOREM SlotsSuffice == Spec => []SlotAvailable
<1>1. Inv => SlotAvailable
  BY DEF Inv, RegistryInv, NameInv, SlotAvailable
<1> QED
  BY <1>1, InvHolds, PTL

\* A thread that serves a publisher or a subscriber has a box as long as its
\* session was not ended by a removal.
THEOREM SessionsKeepBoxes == Spec => []SessionKeepsBox
<1>1. Inv => SessionKeepsBox
  BY DEF Inv, BoxKept, Serving, SessionKeepsBox
<1> QED
  BY <1>1, InvHolds, PTL

=============================================================================
