----------------------- MODULE BoxRegistrySetProofs -------------------------
(***************************************************************************)
(* BoxRegistry implements BoxSet, and a box without a file is one that is  *)
(* being made or unlinked, or that a failed handler has left: proofs for   *)
(* any number of threads, slots, names and files.                          *)
(*                                                                         *)
(* A creation takes effect in CreateCopies or CreateRefuses, a removal in  *)
(* RemoveClears or RemoveMisses; every other step changes nothing that     *)
(* BoxSet can see, or ends what one thread had decided.                    *)
(***************************************************************************)
EXTENDS BoxRegistryProofs

CreatePCs == {"c_lock", "c_slot", "c_copy", "c_open", "c_file", "c_answer"}
RemovePCs == {"d_lock", "d_open", "d_find", "d_scan", "d_end", "d_unlink",
              "d_clear", "d_count", "d_answer"}

\* What a handler knows of its own request: its kind, that return_code is
\* still 0, and that the slot a removal empties has the name it was asked for.
RequestInv(t) ==
    /\ pc[t] \in CreatePCs => clients[t].opcode = "create"
    /\ pc[t] \in RemovePCs => clients[t].opcode = "remove"
    /\ pc[t] \in {"idle", "c_lock", "c_slot", "c_copy"}
                   \cup (RemovePCs \ {"d_answer"}) => frame[t].n = 0
    /\ pc[t] \in {"d_unlink", "d_clear"} =>
         boxes[frame[t].box].name = clients[t].box_name

\* The threads that are the reason for a box without a file, in BoxHasFile.
Excuse(t, s) ==
    \/ /\ \/ pc[t] \in {"c_open", "c_file"}
          \/ pc[t] = "closing" /\ clients[t].opcode = "create"
       /\ clients[t].box_name \in {boxes[s].name, NoName}
    \/ pc[t] = "d_clear" /\ frame[t].box = s

FileInv ==
    \A s \in Slots : boxes[s].name \in Names \ files =>
        \E t \in Threads : Excuse(t, s)

SetInv == Inv /\ FileInv /\ \A t \in Threads : RequestInv(t)

\* What the mapping to BoxSet makes of a thread.
Undecided == [op |-> "none"]
Outcome(t) ==
    IF Decided(t)
    THEN [op |-> clients[t].opcode, name |-> clients[t].box_name,
          code |-> frame[t].n]
    ELSE Undecided

\* A step of t that is seen by no other thread's handler.
Alone(t) ==
    \A u \in Threads \ {t} :
        pc'[u] = pc[u] /\ frame'[u] = frame[u] /\ clients'[u] = clients[u]

-----------------------------------------------------------------------------
(* Steps of BoxSet.                                                        *)

LEMMA OutcomesKept ==
    ASSUME NEW t \in Threads, Alone(t)
    PROVE  \A u \in Threads \ {t} : Outcome(u)' = Outcome(u)
  BY DEF Alone, Outcome, Decided, Undecided

\* The two modules mean the same number.
LEMMA SameCardinality == Set!Cardinality(BoxNames) = Cardinality(BoxNames)
  BY Zenon DEF Set!Cardinality, Cardinality

\* Nothing changes but that thread t, perhaps, has answered.
LEMMA StutterOrAnswer ==
    ASSUME NEW t \in Threads, BoxNames' = BoxNames,
           \A u \in Threads \ {t} : Outcome(u)' = Outcome(u),
           Outcome(t)' \in {Outcome(t), Undecided}
    PROVE  [Set!Next]_(Set!vars)
<1> DEFINE d == [u \in Threads |-> Outcome(u)]
<1>1. CASE Outcome(t)' = Outcome(t)
  <2>1. d' = d
    BY <1>1
  <2> QED
    BY <2>1 DEF Set!vars, Outcome, Undecided
<1>2. CASE Outcome(t)' # Outcome(t)
  <2>1. d' = [d EXCEPT ![t] = Undecided] /\ d[t] # Undecided
    BY <1>2
  <2>2. Set!Answer(t)
    BY <2>1 DEF Set!Answer, Set!Undecided, Outcome, Undecided
  <2> QED
    BY <2>2 DEF Set!Next
<1> QED
  BY <1>1, <1>2

\* Thread t decides: what is left to show is the effect on the names.
LEMMA DecisionIsStep ==
    ASSUME NEW t \in Threads, NEW op, NEW name \in Names, NEW code,
           \A u \in Threads \ {t} : Outcome(u)' = Outcome(u),
           Outcome(t) = Undecided,
           Outcome(t)' = [op |-> op, name |-> name, code |-> code],
           \/ /\ op = "create" /\ code = 0 /\ name \notin BoxNames
              /\ BoxNames' = BoxNames \cup {name}
           \/ /\ op = "create" /\ code = -1 /\ BoxNames' = BoxNames
              /\ name \in BoxNames \/ Cardinality(BoxNames) = MaxBoxes
           \/ /\ op = "remove" /\ code = 0 /\ name \in BoxNames
              /\ BoxNames' = BoxNames \ {name}
           \/ /\ op = "remove" /\ code = -1 /\ name \notin BoxNames
              /\ BoxNames' = BoxNames
    PROVE  Set!Next
<1> DEFINE d == [u \in Threads |-> Outcome(u)]
<1>1. Set!Decide(t, op, name, code)
  <2>1. d' = [d EXCEPT ![t] = [op |-> op, name |-> name, code |-> code]]
    OBVIOUS
  <2>2. d[t] = Undecided
    OBVIOUS
  <2> QED
    BY <2>1, <2>2
       DEF Set!Decide, Set!Undecided, Set!Outcome, Outcome, Undecided
<1>2. \/ Set!Create(t, name) \/ Set!CreateRefused(t, name)
      \/ Set!Remove(t, name) \/ Set!RemoveRefused(t, name)
  BY <1>1, SameCardinality
     DEF Set!Create, Set!CreateRefused, Set!Remove, Set!RemoveRefused
<1> QED
  BY <1>2 DEF Set!Next

-----------------------------------------------------------------------------
(* What a step leaves of the invariant, by its shape.                      *)

LEMMA QuietIsAlone ==
    ASSUME NEW t \in Threads, StepType(t), Quiet(t)
    PROVE  Alone(t) /\ NamesKept /\ BoxNames' = BoxNames
  BY KeptTables DEF StepType, Local, Quiet, Alone

LEMMA EndedKeepsOpcode ==
    ASSUME TypeOK, NEW u \in Threads
    PROVE  Ended(clients[u]).opcode = clients[u].opcode
  BY DEF TypeOK, SessionsOK, Client, Ended

\* The requests of the other threads: the tables they rely on are theirs.
LEMMA OthersKeepRequests ==
    ASSUME SetInv, NEW t \in Threads, StepType(t), Quiet(t) \/ Owned(t)
    PROVE  \A u \in Threads \ {t} : RequestInv(u)'
<1> SUFFICES ASSUME NEW u \in Threads \ {t}
             PROVE  RequestInv(u)'
  OBVIOUS
<1>1. RequestInv(u) /\ pc'[u] = pc[u] /\ frame'[u] = frame[u]
  BY DEF SetInv, StepType, Local
<1>2. CASE Quiet(t)
  <2>1. pc[u] \in {"d_unlink", "d_clear"} => frame[u].box \in Slots
    BY DEF SetInv, Inv, TypeOK, ThreadOK
  <2> QED
    BY <1>1, <1>2, <2>1 DEF Quiet, NamesKept, RequestInv
<1>3. CASE Owned(t)
  <2>1. pc[u] \notin Critical
    BY <1>3, NobodyIsNoThread
       DEF Owned, SetInv, Inv, RegistryInv, LockInv
  <2>2. clients'[u].opcode = clients[u].opcode
    BY <1>3, EndedKeepsOpcode DEF Owned, SetInv, Inv
  <2> QED
    BY <1>1, <2>1, <2>2 DEF RequestInv, Critical
<1> QED
  BY <1>2, <1>3

\* No name is new and no file is lost: the excuse of each box is still one.
LEMMA FilesKept ==
    ASSUME SetInv, NEW t \in Threads, StepType(t),
           \A s \in Slots : boxes'[s].name = boxes[s].name,
           files \subseteq files',
           \A u \in Threads \ {t} :
               clients'[u] \in {clients[u], Ended(clients[u])},
           \/ pc[t] \notin {"c_open", "c_file", "closing", "d_clear"}
           \/ /\ \/ /\ pc[t] = "c_file" /\ pc'[t] = "closing"
                    /\ clients'[t].opcode = "create"
                 \/ pc[t] = "c_open" /\ pc'[t] = "c_file"
              /\ clients'[t].box_name = clients[t].box_name
    PROVE  FileInv'
<1> SUFFICES ASSUME NEW s \in Slots, boxes'[s].name \in Names \ files'
             PROVE  \E u \in Threads : Excuse(u, s)'
  BY DEF FileInv
<1>1. boxes'[s].name = boxes[s].name
  OBVIOUS
<1>2. PICK u \in Threads : Excuse(u, s)
  BY <1>1 DEF SetInv, FileInv
<1>3. CASE u = t
  BY <1>1, <1>2, <1>3 DEF Excuse
<1>4. CASE u # t
  <2>1. pc'[u] = pc[u] /\ frame'[u] = frame[u]
    BY <1>4 DEF StepType, Local
  <2>2. /\ clients'[u].box_name \in {clients[u].box_name, NoName}
        /\ clients'[u].opcode = clients[u].opcode
    BY <1>4, EndedClient, EndedKeepsOpcode DEF SetInv, Inv
  <2> QED
    BY <1>1, <1>2, <2>1, <2>2 DEF Excuse
<1> QED
  BY <1>3, <1>4

\* A step with which a thread neither begins nor goes on with the handling of
\* a request to create or remove a box.
Elsewhere(t) ==
    /\ pc[t] \notin {"c_open", "c_file"}
    /\ pc'[t] \notin CreatePCs \cup RemovePCs
    /\ pc'[t] = "idle" => frame'[t].n = 0
    /\ files \subseteq files'

\* What each step has to be shown to do.
SetStep(t) ==
    /\ RequestInv(t)' /\ FileInv'
    /\ [Set!Next]_(Set!vars)

LEMMA ElsewhereIsSetStep ==
    ASSUME SetInv, NEW t \in Threads, StepType(t), Quiet(t), Elsewhere(t)
    PROVE  SetStep(t)
<1>1. Alone(t) /\ NamesKept /\ BoxNames' = BoxNames
  BY QuietIsAlone
<1>2. RequestInv(t)'
  BY DEF Elsewhere, RequestInv, CreatePCs, RemovePCs
<1>3. FileInv'
  BY <1>1, FilesKept DEF Elsewhere, Quiet, NamesKept, Critical, Alone
<1>4. Outcome(t)' = Undecided
  BY DEF Elsewhere, Outcome, Decided, CreatePCs, RemovePCs
<1>5. [Set!Next]_(Set!vars)
  BY <1>1, <1>4, OutcomesKept, StutterOrAnswer
<1> QED
  BY <1>2, <1>3, <1>5 DEF SetStep

LEMMA EmptyFrameCode == EmptyFrame.n = 0
  BY DEF EmptyFrame

LEMMA RegisterIsElsewhere ==
    ASSUME TypeOK, NEW t \in Threads, Register(t)
    PROVE  Elsewhere(t)
<1> USE GotoType, ReturnType, CloseServerType, EmptyFrameCode
        DEF Elsewhere, CreatePCs, RemovePCs, registry, tables, PCs
<1>1. CASE RegisterOpens(t)
  BY <1>1 DEF RegisterOpens
<1>2. CASE RegisterFinds(t)
  BY <1>2 DEF RegisterFinds
<1>3. CASE RegisterMisses(t)
  BY <1>3 DEF RegisterMisses
<1>4. CASE RegisterTests(t)
  BY <1>4 DEF RegisterTests
<1>5. CASE RegisterCounts(t)
  BY <1>5 DEF RegisterCounts
<1> QED
  BY <1>1, <1>2, <1>3, <1>4, <1>5 DEF Register

LEMMA PublishIsElsewhere ==
    ASSUME TypeOK, NEW t \in Threads, Publish(t)
    PROVE  Elsewhere(t)
<1> USE GotoType, ReturnType, CloseServerType, EmptyFrameCode
        DEF Elsewhere, CreatePCs, RemovePCs, registry, tables, PCs,
            FinishClientSession
<1>1. CASE PublisherReceives(t)
  BY <1>1 DEF PublisherReceives
<1>2. CASE PublisherEnds(t)
  BY <1>2 DEF PublisherEnds
<1>3. CASE PublisherLoads(t)
  BY <1>3 DEF PublisherLoads
<1>4. CASE PublisherWrites(t)
  BY <1>4 DEF PublisherWrites
<1>5. CASE PublisherFillsBox(t)
  BY <1>5 DEF PublisherFillsBox
<1>6. CASE PublisherFails(t)
  BY <1>6 DEF PublisherFails
<1> QED
  BY <1>1, <1>2, <1>3, <1>4, <1>5, <1>6 DEF Publish

LEMMA SubscribeIsElsewhere ==
    ASSUME TypeOK, NEW t \in Threads, Subscribe(t)
    PROVE  Elsewhere(t)
<1> USE GotoType, ReturnType, CloseServerType, EmptyFrameCode
        DEF Elsewhere, CreatePCs, RemovePCs, registry, tables, PCs,
            FinishClientSession
<1>1. CASE SubscriberOpens(t)
  BY <1>1 DEF SubscriberOpens
<1>2. CASE SubscriberCannotOpen(t)
  BY <1>2 DEF SubscriberCannotOpen
<1>3. CASE SubscriberLoads(t)
  BY <1>3 DEF SubscriberLoads
<1>4. CASE SubscriberSends(t)
  BY <1>4 DEF SubscriberSends
<1>5. CASE SubscriberLeft(t)
  BY <1>5 DEF SubscriberLeft
<1>6. CASE SubscriberFails(t)
  BY <1>6 DEF SubscriberFails
<1>7. CASE SubscriberLosesPipe(t)
  BY <1>7 DEF SubscriberLosesPipe
<1> QED
  BY <1>1, <1>2, <1>3, <1>4, <1>5, <1>6, <1>7 DEF Subscribe

LEMMA ListIsElsewhere ==
    ASSUME TypeOK, NEW t \in Threads, List(t)
    PROVE  Elsewhere(t)
<1> USE GotoType, CloseServerType
        DEF Elsewhere, CreatePCs, RemovePCs, registry, tables, PCs
<1>1. CASE ListOpens(t)
  BY <1>1 DEF ListOpens
<1>2. CASE ListSkips(t)
  BY <1>2 DEF ListSkips
<1>3. CASE ListCopies(t)
  BY <1>3 DEF ListCopies
<1>4. CASE ListSends(t)
  BY <1>4 DEF ListSends
<1>5. CASE ListPipeClosed(t)
  BY <1>5 DEF ListPipeClosed
<1>6. CASE ListEnds(t)
  BY <1>6 DEF ListEnds
<1> QED
  BY <1>1, <1>2, <1>3, <1>4, <1>5, <1>6 DEF List

LEMMA OtherIsElsewhere ==
    ASSUME TypeOK, NEW t \in Threads,
           Finish(t) \/ OpenFails(t) \/ NullBox(t)
    PROVE  Elsewhere(t)
<1> USE ReturnType, CloseServerType, EmptyFrameCode
        DEF Elsewhere, CreatePCs, RemovePCs, registry, tables,
            FinishClientSession
<1>1. CASE Finish(t)
  BY <1>1 DEF Finish
<1>2. CASE OpenFails(t)
  BY <1>2 DEF OpenFails
<1>3. CASE NullBox(t)
  BY <1>3 DEF NullBox, TypeOK
<1> QED
  BY <1>1, <1>2, <1>3

-----------------------------------------------------------------------------
(* The steps of a creation or a removal.                                   *)

\* Where a step decides nothing and no name or file goes.
LEMMA KeepingIsSetStep ==
    ASSUME SetInv, NEW t \in Threads, StepType(t), Alone(t),
           \A s \in Slots : boxes'[s].name = boxes[s].name,
           files \subseteq files',
           \/ pc[t] \notin {"c_open", "c_file", "closing", "d_clear"}
           \/ /\ \/ /\ pc[t] = "c_file" /\ pc'[t] = "closing"
                    /\ clients'[t].opcode = "create"
                 \/ pc[t] = "c_open" /\ pc'[t] = "c_file"
              /\ clients'[t].box_name = clients[t].box_name,
           RequestInv(t)', Outcome(t)' \in {Outcome(t), Undecided}
    PROVE  SetStep(t)
<1>1. BoxNames' = BoxNames
  BY DEF BoxNames
<1>2. FileInv'
  BY FilesKept DEF Alone
<1> QED
  BY <1>1, <1>2, OutcomesKept, StutterOrAnswer DEF SetStep

LEMMA DequeueIsSetStep ==
    ASSUME SetInv, NEW t \in Threads, StepType(t), Quiet(t), Dequeue(t)
    PROVE  SetStep(t)
<1>1. PICK op \in Opcodes, n \in Names :
        /\ Goto(t, "idle", Entry[op])
        /\ clients' = [clients EXCEPT
               ![t].opcode = op, ![t].pipename = TRUE,
               ![t].box_name = IF op = "list" THEN @ ELSE n]
  BY DEF Dequeue
<1>2. op \in {"pub", "sub", "create", "remove", "list"}
  BY RegistryAssumption
<1>3. /\ Entry[op] \in {"r_open", "c_lock", "d_lock", "l_open"}
      /\ Entry[op] = "c_lock" => op = "create"
      /\ Entry[op] = "d_lock" => op = "remove"
  BY <1>2 DEF Entry
<1>4. pc[t] = "idle" /\ pc'[t] = Entry[op]
  BY <1>1, <1>3, GotoType DEF PCs, SetInv, Inv
<1>5. clients'[t].opcode = op
  BY <1>1 DEF SetInv, Inv, TypeOK, SessionsOK, Client
<1>6. frame' = frame /\ files' = files
  BY DEF Dequeue, registry, tables
<1>7. RequestInv(t)'
  BY <1>3, <1>4, <1>5, <1>6 DEF SetInv, RequestInv, CreatePCs, RemovePCs
<1>8. Outcome(t)' = Undecided
  BY <1>3, <1>4 DEF Outcome, Decided
<1> QED
  BY <1>4, <1>6, <1>7, <1>8, QuietIsAlone, KeepingIsSetStep DEF NamesKept

\* "Reached max number of boxes": then there are as many names as slots.
LEMMA FullSet ==
    ASSUME Inv, boxes_lock = Nobody, num_boxes = MaxBoxes
    PROVE  Cardinality(BoxNames) = MaxBoxes
<1>1. Settled /\ NamesDistinct
  BY DEF Inv, RegistryInv
<1>2. Used = Slots
  <2>1. Used \subseteq Slots
    BY DEF Used
  <2>2. Cardinality(Used) = Cardinality(Slots)
    BY <1>1, UsedIsFinite DEF Settled
  <2> QED
    BY <2>1, <2>2, UsedIsFinite, FS_Subset
<1>3. \A s \in Slots : boxes[s].name # NoName
  BY <1>1, <1>2 DEF Settled, Agrees, Used
<1> DEFINE f == [s \in Slots |-> boxes[s].name]
<1>4. f \in Bijection(Slots, BoxNames)
  <2>1. f \in [Slots -> BoxNames]
    BY <1>3 DEF BoxNames
  <2>2. \A r, s \in Slots : f[r] = f[s] => r = s
    BY <1>1, <1>3 DEF NamesDistinct
  <2>3. \A n \in BoxNames : \E s \in Slots : f[s] = n
    BY DEF BoxNames
  <2> HIDE DEF f
  <2> QED
    BY <2>1, <2>2, <2>3 DEF Bijection, Injection, Surjection, IsInjective
<1> QED
  BY <1>4, UsedIsFinite, FS_Bijection DEF ExistsBijection

LEMMA CreateRefusesIsSetStep ==
    ASSUME SetInv, NEW t \in Threads, StepType(t), Quiet(t), CreateRefuses(t)
    PROVE  SetStep(t)
<1> DEFINE name == clients[t].box_name
<1>1. /\ pc[t] = "c_lock" /\ pc'[t] = "c_open" /\ boxes_lock = Nobody
      /\ Refused(t) /\ UNCHANGED <<boxes, files, clients>>
  BY GotoType
     DEF CreateRefuses, PCs, SetInv, Inv, registry, tables, session
<1>2. frame'[t].n = -1
  BY DEF CreateRefuses, SetInv, Inv, TypeOK, Frame
<1>3. clients[t].opcode = "create"
  BY <1>1 DEF SetInv, RequestInv, CreatePCs
<1>4. Alone(t) /\ BoxNames' = BoxNames
  BY QuietIsAlone
<1>5. RequestInv(t)' /\ FileInv'
  BY <1>1, <1>3, <1>4, FilesKept DEF RequestInv, CreatePCs, RemovePCs, Alone
<1>6. Outcome(t) = Undecided
  BY <1>1 DEF Outcome, Decided
<1>7. CASE name = NoName
  <2>1. Outcome(t)' = Undecided
    BY <1>1, <1>7 DEF Outcome, Decided
  <2> QED
    BY <1>4, <1>5, <2>1, OutcomesKept, StutterOrAnswer DEF SetStep
<1>8. CASE name # NoName
  <2>1. Outcome(t)' = [op |-> "create", name |-> name, code |-> -1]
    BY <1>1, <1>2, <1>3, <1>8 DEF Outcome, Decided
  <2>2. name \in Names
    BY <1>8 DEF SetInv, Inv, TypeOK, SessionsOK, Client
  <2>3. name \in BoxNames \/ Cardinality(BoxNames) = MaxBoxes
    <3>1. CASE num_boxes = MaxBoxes
      BY <1>1, <3>1, FullSet DEF SetInv
    <3>2. CASE GetBox(name) # NULL
      BY <1>8, <3>2, GetBoxFinds DEF BoxNames
    <3> QED
      BY <1>1, <3>1, <3>2 DEF Refused
  <2> QED
    BY <1>4, <1>5, <1>6, <2>1, <2>2, <2>3, OutcomesKept, DecisionIsStep
       DEF SetStep
<1> QED
  BY <1>7, <1>8

LEMMA CreateCopiesIsSetStep ==
    ASSUME SetInv, NEW t \in Threads, StepType(t), CreateCopies(t)
    PROVE  SetStep(t)
<1> DEFINE s == frame[t].box
           name == clients[t].box_name
<1>1. /\ pc[t] = "c_copy" /\ pc'[t] = "c_open"
      /\ UNCHANGED <<files, clients, frame>>
  BY GotoType DEF CreateCopies, PCs, SetInv, Inv, session
<1>2. OwnerInv(t) /\ NameInv(t)
  BY <1>1 DEF SetInv, Inv, RegistryInv, LockInv, Critical
<1>3. s \in Slots /\ boxes[s].name = NoName
  BY <1>1, <1>2 DEF SetInv, Inv, TypeOK, ThreadOK, OwnerInv
<1>4. /\ boxes'[s].name = name
      /\ \A r \in Slots \ {s} : boxes'[r] = boxes[r]
  BY <1>3 DEF CreateCopies, EmptyBox, SetInv, Inv, TypeOK, TablesOK
<1>5. name \in Names \ BoxNames /\ name # NoName
  BY <1>1, <1>2, RegistryAssumption DEF NameInv
<1>6. BoxNames' = BoxNames \cup {name}
  BY <1>3, <1>4, <1>5 DEF BoxNames
<1>7. clients[t].opcode = "create" /\ frame[t].n = 0
  BY <1>1 DEF SetInv, RequestInv, CreatePCs
<1>8. Alone(t)
  BY <1>1 DEF StepType, Local, Alone
<1>9. Outcome(t) = Undecided
  BY <1>1 DEF Outcome, Decided
<1>10. Outcome(t)' = [op |-> "create", name |-> name, code |-> 0]
  BY <1>1, <1>5, <1>7 DEF Outcome, Decided
<1>11. Set!Next
  BY <1>5, <1>6, <1>8, <1>9, <1>10, OutcomesKept, DecisionIsStep
<1>12. RequestInv(t)'
  BY <1>1, <1>7 DEF RequestInv, CreatePCs, RemovePCs
<1>13. ASSUME NEW r \in Slots, boxes'[r].name \in Names \ files'
       PROVE  \E u \in Threads : Excuse(u, r)'
  <2>1. CASE r = s
    BY <1>1, <1>4, <2>1 DEF Excuse
  <2>2. CASE r # s
    <3>1. PICK u \in Threads : Excuse(u, r)
      BY <1>1, <1>4, <1>13, <2>2 DEF SetInv, FileInv
    <3>2. u # t
      BY <1>1, <3>1 DEF Excuse
    <3> QED
      BY <1>4, <1>8, <2>2, <3>1, <3>2 DEF Alone, Excuse
  <2> QED
    BY <2>1, <2>2
<1> QED
  BY <1>11, <1>12, <1>13 DEF SetStep, FileInv

LEMMA CreateMakesFileIsSetStep ==
    ASSUME SetInv, NEW t \in Threads, StepType(t), Quiet(t),
           CreateMakesFile(t)
    PROVE  SetStep(t)
<1> DEFINE name == clients[t].box_name
<1>1. /\ pc[t] = "c_file" /\ pc'[t] = "c_answer" /\ CanOpen(name)
      /\ files' = files \cup {name} /\ UNCHANGED <<boxes, frame>>
  BY GotoType DEF CreateMakesFile, PCs, SetInv, Inv
<1>2. /\ clients'[t].opcode = clients[t].opcode
      /\ clients'[t].box_name = name
      /\ clients'[t].client_pipe = clients[t].client_pipe
  BY DEF CreateMakesFile, SetInv, Inv, TypeOK, SessionsOK, Client
<1>3. Alone(t) /\ BoxNames' = BoxNames
  BY QuietIsAlone
<1>4. RequestInv(t)'
  BY <1>1, <1>2 DEF SetInv, RequestInv, CreatePCs, RemovePCs
<1>5. Outcome(t)' = Outcome(t)
  BY <1>1, <1>2 DEF Outcome, Decided
<1>6. ASSUME NEW r \in Slots, boxes'[r].name \in Names \ files'
      PROVE  \E u \in Threads : Excuse(u, r)'
  <2>1. PICK u \in Threads : Excuse(u, r)
    BY <1>1, <1>6 DEF SetInv, FileInv
  <2>2. u # t
    BY <1>1, <1>6, <2>1 DEF Excuse, CanOpen
  <2> QED
    BY <1>1, <1>3, <2>1, <2>2 DEF Alone, Excuse
<1> QED
  BY <1>3, <1>4, <1>5, <1>6, OutcomesKept, StutterOrAnswer
     DEF SetStep, FileInv

LEMMA CreateIsSetStep ==
    ASSUME SetInv, NEW t \in Threads, StepType(t), Create(t)
    PROVE  SetStep(t)
<1>1. TypeOK /\ RequestInv(t)
  BY DEF SetInv, Inv
<1>2. CASE CreateCounts(t)
  <2>1. /\ pc[t] = "c_lock" /\ pc'[t] = "c_slot"
        /\ UNCHANGED <<boxes, files, clients, frame>>
    BY <1>1, <1>2, GotoType DEF CreateCounts, PCs, session
  <2>2. RequestInv(t)' /\ Outcome(t)' = Outcome(t)
    BY <1>1, <2>1
       DEF RequestInv, CreatePCs, RemovePCs, Outcome, Decided
  <2>3. Alone(t)
    BY <2>1 DEF StepType, Local, Alone
  <2> QED
    BY <2>1, <2>2, <2>3, KeepingIsSetStep
<1>3. CASE CreateTakesSlot(t)
  <2>1. /\ pc[t] = "c_slot" /\ pc'[t] = "c_copy"
        /\ UNCHANGED <<files, clients>>
    BY <1>1, <1>3, GotoType DEF CreateTakesSlot, PCs, tables, session
  <2>2. frame'[t].n = frame[t].n
    BY <1>1, <1>3 DEF CreateTakesSlot, TypeOK, Frame
  <2>3. RequestInv(t)' /\ Outcome(t)' = Outcome(t)
    BY <1>1, <2>1, <2>2
       DEF RequestInv, CreatePCs, RemovePCs, Outcome, Decided
  <2>4. Alone(t)
    BY <2>1 DEF StepType, Local, Alone
  <2>5. \A s \in Slots : boxes'[s].name = boxes[s].name
    BY <1>1, <1>3 DEF CreateTakesSlot, TypeOK, TablesOK, Box
  <2> QED
    BY <2>1, <2>3, <2>4, <2>5, KeepingIsSetStep
<1>4. CASE CreateCopies(t)
  BY <1>4, CreateCopiesIsSetStep
<1>5. ASSUME ~CreateCounts(t), ~CreateTakesSlot(t), ~CreateCopies(t)
      PROVE  SetStep(t)
  <2>1. Quiet(t) /\ Alone(t) /\ NamesKept
    BY <1>5, CreateIsQuiet, QuietIsAlone DEF SetInv
  <2>2. CASE CreateRefuses(t)
    BY <2>1, <2>2, CreateRefusesIsSetStep
  <2>3. CASE CreateOpensPipe(t)
    <3>1. /\ pc[t] = "c_open" /\ pc'[t] = "c_file"
          /\ UNCHANGED <<files, frame>>
      BY <1>1, <2>3, GotoType DEF CreateOpensPipe, PCs, registry, tables
    <3>2. /\ clients'[t].opcode = clients[t].opcode
          /\ clients'[t].box_name = clients[t].box_name
          /\ clients'[t].client_pipe = NewDescriptor
      BY <1>1, <2>3, OpenPipeType
         DEF CreateOpensPipe, TypeOK, SessionsOK, Client
    <3>3. NewDescriptor # NoPipe
      BY <1>1, NewDescriptorIsNew DEF TypeOK, NoPipe
    <3>4. RequestInv(t)' /\ Outcome(t)' = Outcome(t)
      BY <1>1, <3>1, <3>2, <3>3
         DEF RequestInv, CreatePCs, RemovePCs, Outcome, Decided
    <3> QED
      BY <2>1, <3>1, <3>2, <3>4, KeepingIsSetStep DEF NamesKept
  <2>4. CASE CreateHasNoPipe(t)
    <3>1. pc[t] = "c_open" /\ pc'[t] = "c_file" /\ files' = files
      BY <1>1, <2>4, GotoType DEF CreateHasNoPipe, PCs, registry, tables
    <3>2. /\ clients'[t].opcode = clients[t].opcode
          /\ clients'[t].box_name = clients[t].box_name
          /\ clients'[t].client_pipe = NoPipe
      BY <1>1, <2>4 DEF CreateHasNoPipe, TypeOK, SessionsOK, Client
    <3>3. RequestInv(t)' /\ Outcome(t)' = Undecided
      BY <1>1, <3>1, <3>2
         DEF RequestInv, CreatePCs, RemovePCs, Outcome, Decided
    <3> QED
      BY <2>1, <3>1, <3>2, <3>3, KeepingIsSetStep DEF NamesKept
  <2>5. CASE CreateMakesFile(t)
    BY <2>1, <2>5, CreateMakesFileIsSetStep
  <2>6. CASE CreateMakesNoFile(t)
    <3>1. pc[t] = "c_file" /\ pc'[t] = "closing" /\ files' = files
      BY <1>1, <2>6, CloseServerType DEF CreateMakesNoFile, registry, tables
    <3>3. /\ clients'[t].opcode = "create"
          /\ clients'[t].box_name = clients[t].box_name
      BY <1>1, <2>6, <3>1
         DEF CreateMakesNoFile, session, RequestInv, CreatePCs, TypeOK,
             SessionsOK, Client
    <3>2. RequestInv(t)' /\ Outcome(t)' = Undecided
      BY <3>1 DEF RequestInv, CreatePCs, RemovePCs, Outcome, Decided
    <3> QED
      BY <2>1, <3>1, <3>2, <3>3, KeepingIsSetStep DEF NamesKept
  <2>7. CASE CreateAnswers(t)
    <3>1. pc[t] = "c_answer" /\ pc'[t] = "finish" /\ files' = files
      BY <1>1, <2>7, GotoType DEF CreateAnswers, PCs, registry, tables
    <3>2. RequestInv(t)' /\ Outcome(t)' = Undecided
      BY <3>1 DEF RequestInv, CreatePCs, RemovePCs, Outcome, Decided
    <3> QED
      BY <2>1, <3>1, <3>2, KeepingIsSetStep DEF NamesKept
  <2> QED
    BY <1>5, <2>2, <2>3, <2>4, <2>5, <2>6, <2>7 DEF Create
<1> QED
  BY <1>2, <1>3, <1>4, <1>5

LEMMA AnswerFailsIsSetStep ==
    ASSUME SetInv, NEW t \in Threads, StepType(t), AnswerFails(t)
    PROVE  SetStep(t)
<1>1. /\ pc[t] \in {"c_answer", "d_answer"} /\ pc'[t] = "closing"
      /\ UNCHANGED <<boxes, files, clients>>
  BY CloseServerType DEF AnswerFails, SetInv, Inv, registry, tables, session
<1>2. RequestInv(t)' /\ Outcome(t)' = Undecided
  BY <1>1 DEF RequestInv, CreatePCs, RemovePCs, Outcome, Decided
<1>3. Alone(t)
  BY <1>1 DEF StepType, Local, Alone
<1> QED
  BY <1>1, <1>2, <1>3, KeepingIsSetStep

\* A session that is ended takes its decision, if it has one, with it: it is
\* as if that thread had answered.
LEMMA RemoveEndsSessionIsSetStep ==
    ASSUME SetInv, NEW t \in Threads, StepType(t), RemoveEndsSession(t)
    PROVE  SetStep(t)
<1>1. PICK i \in Threads \ {t} : pc[t] = "d_end" /\ FinishClientSession(i)
  BY DEF RemoveEndsSession, SetInv, Inv, TypeOK, ThreadOK
<1>2. /\ \A s \in Slots : boxes'[s].name = boxes[s].name
      /\ \A u \in Threads \ {i} : clients'[u] = clients[u]
      /\ clients'[i] \in {clients[i], Ended(clients[i])}
      /\ files' = files
  BY <1>1, FinishType DEF SetInv, Inv, FinishClientSession, tables
<1>3. /\ pc'[t] \in {"d_scan", "closing"}
      /\ pc'[t] = "d_scan" => frame'[t].n = frame[t].n
  BY GotoType, CloseServerType
     DEF RemoveEndsSession, PCs, SetInv, Inv, TypeOK, Frame
<1>4. RequestInv(t)'
  BY <1>1, <1>2, <1>3 DEF SetInv, RequestInv, CreatePCs, RemovePCs
<1>5. FileInv'
  BY <1>1, <1>2, FilesKept
<1>6. BoxNames' = BoxNames
  BY <1>2 DEF BoxNames
<1>7. ASSUME NEW u \in Threads \ {i}
      PROVE  Outcome(u)' = Outcome(u)
  <2>1. CASE u = t
    BY <1>1, <1>3, <2>1 DEF Outcome, Decided
  <2>2. CASE u # t
    BY <1>2, <2>2 DEF StepType, Local, Outcome, Decided
  <2> QED
    BY <2>1, <2>2
<1>8. Outcome(i)' \in {Outcome(i), Undecided}
  <2>1. pc'[i] = pc[i] /\ frame'[i] = frame[i]
    BY <1>1 DEF StepType, Local
  <2>2. CASE clients'[i] = clients[i]
    BY <2>1, <2>2 DEF Outcome, Decided
  <2>3. CASE clients'[i] = Ended(clients[i])
    BY <1>1, <2>3, EndedClient DEF SetInv, Inv, Outcome, Decided
  <2> QED
    BY <1>2, <2>2, <2>3
<1> QED
  BY <1>1, <1>4, <1>5, <1>6, <1>7, <1>8, StutterOrAnswer DEF SetStep

\* The file goes before the name does: no other slot has the name.
LEMMA RemoveUnlinksIsSetStep ==
    ASSUME SetInv, NEW t \in Threads, StepType(t), RemoveUnlinks(t)
    PROVE  SetStep(t)
<1> DEFINE s == frame[t].box
<1>1. /\ pc[t] = "d_unlink" /\ pc'[t] = "d_clear"
      /\ files' = files \ {boxes[s].name}
      /\ UNCHANGED <<boxes, clients, frame>>
  BY GotoType DEF RemoveUnlinks, PCs, SetInv, Inv, session
<1>2. RequestInv(t)' /\ Outcome(t)' = Outcome(t)
  BY <1>1
     DEF SetInv, RequestInv, CreatePCs, RemovePCs, Outcome, Decided
<1>3. Alone(t) /\ BoxNames' = BoxNames
  BY <1>1 DEF StepType, Local, Alone, BoxNames
<1>4. s \in Slots /\ NamesDistinct
  BY <1>1 DEF SetInv, Inv, RegistryInv, TypeOK, ThreadOK
<1>5. ASSUME NEW r \in Slots, boxes'[r].name \in Names \ files'
      PROVE  \E u \in Threads : Excuse(u, r)'
  <2>1. CASE r = s
    BY <1>1, <2>1 DEF Excuse
  <2>2. CASE r # s
    <3>1. boxes[r].name # boxes[s].name
      BY <1>1, <1>4, <1>5, <2>2, RegistryAssumption DEF NamesDistinct
    <3>2. PICK u \in Threads : Excuse(u, r)
      BY <1>1, <1>5, <3>1 DEF SetInv, FileInv
    <3>3. u # t
      BY <1>1, <3>2 DEF Excuse
    <3> QED
      BY <1>1, <1>3, <3>2, <3>3 DEF Alone, Excuse
  <2> QED
    BY <2>1, <2>2
<1> QED
  BY <1>2, <1>3, <1>5, OutcomesKept, StutterOrAnswer DEF SetStep, FileInv

LEMMA RemoveClearsIsSetStep ==
    ASSUME SetInv, NEW t \in Threads, StepType(t), RemoveClears(t)
    PROVE  SetStep(t)
<1> DEFINE s == frame[t].box
           name == clients[t].box_name
<1>1. /\ pc[t] = "d_clear" /\ pc'[t] = "d_count"
      /\ boxes' = [boxes EXCEPT ![s] = Cleared(@)]
      /\ UNCHANGED <<files, clients, frame>>
  BY GotoType DEF RemoveClears, PCs, SetInv, Inv, session, tables
<1>2. OwnerInv(t) /\ NamesDistinct /\ RequestInv(t)
  BY <1>1 DEF SetInv, Inv, RegistryInv, LockInv, Critical
<1>3. s \in Slots
  BY <1>1 DEF SetInv, Inv, TypeOK, ThreadOK
<1>4. /\ boxes[s].name = name /\ name \in Names /\ name # NoName
      /\ clients[t].opcode = "remove" /\ frame[t].n = 0
  BY <1>1, <1>2, RegistryAssumption DEF OwnerInv, RequestInv, RemovePCs
<1>5. /\ boxes'[s].name = NoName
      /\ \A r \in Slots \ {s} : boxes'[r] = boxes[r]
  BY <1>1, <1>3 DEF Cleared, SetInv, Inv, TypeOK, TablesOK, Box
<1>6. \A r \in Slots \ {s} : boxes[r].name # name
  BY <1>2, <1>3, <1>4 DEF NamesDistinct
<1>7. name \in BoxNames /\ BoxNames' = BoxNames \ {name}
  BY <1>3, <1>4, <1>5, <1>6 DEF BoxNames
<1>8. Alone(t)
  BY <1>1 DEF StepType, Local, Alone
<1>9. Outcome(t) = Undecided
  BY <1>1 DEF Outcome, Decided
<1>10. Outcome(t)' = [op |-> "remove", name |-> name, code |-> 0]
  BY <1>1, <1>4 DEF Outcome, Decided
<1>11. Set!Next
  BY <1>4, <1>7, <1>8, <1>9, <1>10, OutcomesKept, DecisionIsStep
<1>12. RequestInv(t)'
  BY <1>1, <1>4 DEF RequestInv, CreatePCs, RemovePCs
<1>13. ASSUME NEW r \in Slots, boxes'[r].name \in Names \ files'
       PROVE  \E u \in Threads : Excuse(u, r)'
  <2>1. r # s
    BY <1>5, <1>13, RegistryAssumption
  <2>2. PICK u \in Threads : Excuse(u, r)
    BY <1>1, <1>5, <1>13, <2>1 DEF SetInv, FileInv
  <2>3. u # t
    BY <1>1, <2>1, <2>2 DEF Excuse
  <2> QED
    BY <1>5, <1>8, <2>1, <2>2, <2>3 DEF Alone, Excuse
<1> QED
  BY <1>11, <1>12, <1>13 DEF SetStep, FileInv

LEMMA RemoveMissesIsSetStep ==
    ASSUME SetInv, NEW t \in Threads, StepType(t), RemoveMisses(t)
    PROVE  SetStep(t)
<1> DEFINE name == clients[t].box_name
<1>1. /\ pc[t] = "d_find" /\ pc'[t] = "d_answer" /\ GetBox(name) = NULL
      /\ UNCHANGED <<boxes, files, clients>>
  BY GotoType
     DEF RemoveMisses, PCs, SetInv, Inv, registry, tables, session
<1>2. frame'[t].n = -1
  BY DEF RemoveMisses, SetInv, Inv, TypeOK, Frame
<1>3. /\ name \in Names /\ name # NoName
      /\ clients[t].opcode = "remove"
  BY <1>1, RegistryAssumption
     DEF SetInv, Inv, RegistryInv, NameInv, RequestInv, RemovePCs
<1>4. name \notin BoxNames /\ BoxNames' = BoxNames
  BY <1>1, GetBoxFinds, SlotsAreNotNull DEF BoxNames
<1>5. Alone(t)
  BY <1>1 DEF StepType, Local, Alone
<1>6. Outcome(t) = Undecided
  BY <1>1 DEF Outcome, Decided
<1>7. Outcome(t)' = [op |-> "remove", name |-> name, code |-> -1]
  BY <1>1, <1>2, <1>3 DEF Outcome, Decided
<1>8. Set!Next
  BY <1>3, <1>4, <1>5, <1>6, <1>7, OutcomesKept, DecisionIsStep
<1>9. RequestInv(t)' /\ FileInv'
  BY <1>1, <1>3, <1>5, FilesKept DEF RequestInv, CreatePCs, RemovePCs, Alone
<1> QED
  BY <1>8, <1>9 DEF SetStep

LEMMA RemoveIsSetStep ==
    ASSUME SetInv, NEW t \in Threads, StepType(t), Remove(t)
    PROVE  SetStep(t)
<1>1. TypeOK /\ RequestInv(t)
  BY DEF SetInv, Inv
<1>2. CASE RemoveLocks(t) \/ RemoveMatches(t)
  <2>1. /\ \/ pc[t] = "d_lock" /\ pc'[t] = "d_open"
           \/ pc[t] = "d_scan" /\ pc'[t] = "d_end"
        /\ UNCHANGED <<boxes, files, clients, frame>>
    BY <1>1, <1>2, GotoType
       DEF RemoveLocks, RemoveMatches, PCs, registry, tables, session
  <2>2. RequestInv(t)' /\ Outcome(t)' = Outcome(t)
    BY <1>1, <2>1
       DEF RequestInv, CreatePCs, RemovePCs, Outcome, Decided
  <2>3. Alone(t)
    BY <2>1 DEF StepType, Local, Alone
  <2> QED
    BY <2>1, <2>2, <2>3, KeepingIsSetStep
<1>3. CASE RemoveOpensPipe(t)
  <2>1. /\ pc[t] = "d_open" /\ pc'[t] = "d_find"
        /\ UNCHANGED <<boxes, files, frame>>
    BY <1>1, <1>3, GotoType DEF RemoveOpensPipe, PCs, registry, tables
  <2>2. /\ clients'[t].opcode = clients[t].opcode
        /\ \A u \in Threads \ {t} : clients'[u] = clients[u]
    BY <1>1, <1>3, OpenPipeType
       DEF RemoveOpensPipe, TypeOK, SessionsOK, Client
  <2>3. RequestInv(t)' /\ Outcome(t)' = Outcome(t)
    BY <1>1, <2>1, <2>2
       DEF RequestInv, CreatePCs, RemovePCs, Outcome, Decided
  <2>4. Alone(t)
    BY <2>2 DEF StepType, Local, Alone
  <2> QED
    BY <2>1, <2>3, <2>4, KeepingIsSetStep
<1>4. CASE RemoveHasNoPipe(t) \/ RemoveAnswers(t) \/ RemoveCannotUnlink(t)
  <2>1. /\ pc[t] \in {"d_open", "d_answer", "d_unlink"}
        /\ pc'[t] \in {"closing", "finish"}
        /\ UNCHANGED <<boxes, files, clients>>
    BY <1>1, <1>4, GotoType, CloseServerType
       DEF RemoveHasNoPipe, RemoveAnswers, RemoveCannotUnlink, PCs, registry,
           tables, session
  <2>2. RequestInv(t)' /\ Outcome(t)' = Undecided
    BY <2>1 DEF RequestInv, CreatePCs, RemovePCs, Outcome, Decided
  <2>3. Alone(t)
    BY <2>1 DEF StepType, Local, Alone
  <2> QED
    BY <2>1, <2>2, <2>3, KeepingIsSetStep
<1>5. CASE RemoveFinds(t) \/ RemoveSkips(t)
  <2>1. /\ pc[t] \in {"d_find", "d_scan"} /\ pc'[t] = "d_scan"
        /\ UNCHANGED <<boxes, files, clients>>
    BY <1>1, <1>5, GotoType
       DEF RemoveFinds, RemoveSkips, PCs, registry, tables, session
  <2>2. frame'[t].n = frame[t].n
    BY <1>1, <1>5 DEF RemoveFinds, RemoveSkips, TypeOK, Frame
  <2>3. RequestInv(t)' /\ Outcome(t)' = Outcome(t)
    BY <1>1, <2>1, <2>2
       DEF RequestInv, CreatePCs, RemovePCs, Outcome, Decided
  <2>4. Alone(t)
    BY <2>1 DEF StepType, Local, Alone
  <2> QED
    BY <2>1, <2>3, <2>4, KeepingIsSetStep
<1>6. CASE RemoveFreesSlot(t)
  <2> DEFINE s == GetBox(clients[t].box_name)
  <2>1. /\ pc[t] = "d_scan" /\ pc'[t] = "d_unlink"
        /\ UNCHANGED <<files, clients>>
    BY <1>1, <1>6, GotoType DEF RemoveFreesSlot, PCs, session
  <2>2. s \in Slots /\ boxes[s].name = clients[t].box_name
    BY <2>1, GetBoxFinds DEF SetInv, Inv, RegistryInv, NameInv
  <2>3. \A r \in Slots : boxes'[r].name = boxes[r].name
    BY <1>1, <1>6, <2>2 DEF RemoveFreesSlot, TypeOK, TablesOK, Box
  <2>4. frame'[t].box = s /\ frame'[t].n = frame[t].n
    BY <1>1, <1>6 DEF RemoveFreesSlot, TypeOK, Frame
  <2>5. RequestInv(t)' /\ Outcome(t)' = Outcome(t)
    BY <1>1, <2>1, <2>2, <2>3, <2>4
       DEF RequestInv, CreatePCs, RemovePCs, Outcome, Decided
  <2>6. Alone(t)
    BY <2>1 DEF StepType, Local, Alone
  <2> QED
    BY <2>1, <2>3, <2>5, <2>6, KeepingIsSetStep
<1>7. CASE RemoveCounts(t)
  <2>1. /\ pc[t] = "d_count" /\ pc'[t] = "d_answer"
        /\ UNCHANGED <<boxes, files, clients, frame>>
    BY <1>1, <1>7, GotoType DEF RemoveCounts, PCs, session
  <2>2. RequestInv(t)' /\ Outcome(t)' = Outcome(t)
    BY <1>1, <2>1
       DEF RequestInv, CreatePCs, RemovePCs, Outcome, Decided
  <2>3. Alone(t)
    BY <2>1 DEF StepType, Local, Alone
  <2> QED
    BY <2>1, <2>2, <2>3, KeepingIsSetStep
<1> QED
  BY <1>2, <1>3, <1>4, <1>5, <1>6, <1>7, RemoveEndsSessionIsSetStep,
     RemoveUnlinksIsSetStep, RemoveClearsIsSetStep, RemoveMissesIsSetStep
     DEF Remove

-----------------------------------------------------------------------------
(* The theorems.                                                           *)

LEMMA InitSet == Init => SetInv /\ Set!Init
<1> SUFFICES ASSUME Init
             PROVE  SetInv /\ Set!Init
  OBVIOUS
<1>1. \A s \in Slots : boxes[s].name = NoName
  BY DEF Init, EmptyBox
<1>2. FileInv /\ BoxNames = {}
  BY <1>1, RegistryAssumption DEF FileInv, BoxNames
<1>3. ASSUME NEW t \in Threads
      PROVE  RequestInv(t) /\ ~Decided(t)
  BY EmptyFrameCode DEF Init, RequestInv, Decided, CreatePCs, RemovePCs
<1> QED
  BY <1>2, <1>3, InitInv DEF SetInv, Set!Init, Set!Undecided

\* Where nothing that the invariant is about changes.
LEMMA SetUnchanged ==
    ASSUME SetInv, UNCHANGED <<boxes, files, clients, pc>>,
           \A u \in Threads :
               frame'[u].box = frame[u].box /\ frame'[u].n = frame[u].n
    PROVE  /\ FileInv' /\ \A u \in Threads : RequestInv(u)'
           /\ UNCHANGED Set!vars
<1>1. FileInv' /\ \A u \in Threads : RequestInv(u)'
  BY DEF SetInv, FileInv, Excuse, RequestInv
<1>2. BoxNames' = BoxNames
  BY DEF BoxNames
<1>3. \A u \in Threads : Outcome(u)' = Outcome(u)
  BY DEF Outcome, Decided, Undecided
<1> DEFINE d == [u \in Threads |-> Outcome(u)]
<1>4. d' = d
  BY <1>3
<1> QED
  BY <1>1, <1>2, <1>4 DEF Set!vars, Outcome, Undecided

LEMMA NextSet ==
    ASSUME SetInv, [Next]_vars
    PROVE  SetInv' /\ [Set!Next]_(Set!vars)
<1>1. Inv'
  BY NextInv, StutterInv DEF SetInv
<1>2. CASE UNCHANGED vars
  BY <1>1, <1>2, SetUnchanged
     DEF SetInv, vars, registry, tables, session
<1>3. CASE Next
  <2>1. PICK t \in Threads :
          \/ Dequeue(t) \/ Finish(t) \/ OpenFails(t) \/ AnswerFails(t)
          \/ OpenBlocks(t) \/ NullBox(t) \/ Register(t) \/ Publish(t)
          \/ Subscribe(t) \/ Create(t) \/ Remove(t) \/ List(t) \/ Manager(t)
    BY <1>3 DEF Next
  <2>2. CASE Manager(t)
    <3>1. UNCHANGED <<boxes, files, clients, pc, frame>>
      BY <2>2 DEF Manager, ManagerReads, ManagerAtEnd, registry, tables,
                  session
    <3> QED
      BY <1>1, <3>1, SetUnchanged DEF SetInv
  <2>3. CASE OpenBlocks(t)
    BY <1>1, <2>3, OpenBlocksKeeps, SetUnchanged DEF SetInv, Inv
  <2>4. CASE ~Manager(t) /\ ~OpenBlocks(t)
    <3>1. Inv /\ TypeOK /\ \A u \in Threads : NameInv(u)
      BY DEF SetInv, Inv, RegistryInv
    <3>2. StepType(t)
      BY <2>1, <3>1, OtherType, RegisterType, PublishType, SubscribeType,
         CreateType, RemoveType, ListType, ManagerType
    <3>3. Quiet(t) \/ Owned(t)
      BY <2>1, <2>4, <3>1, <3>2, OtherIsQuiet, AnswerFailsIsEither,
         RegisterIsQuiet, PublishIsQuiet, SubscribeIsQuiet, ListIsQuiet,
         CreateIsQuiet, CreateCountsIsOwned, CreateTakesSlotIsOwned,
         CreateCopiesIsOwned, RemoveIsOwned
    <3>4. ASSUME \/ Finish(t) \/ OpenFails(t) \/ NullBox(t) \/ Register(t)
                 \/ Publish(t) \/ Subscribe(t) \/ List(t)
          PROVE  SetStep(t)
      <4>1. Quiet(t)
        BY <3>1, <3>4, OtherIsQuiet, RegisterIsQuiet, PublishIsQuiet,
           SubscribeIsQuiet, ListIsQuiet
      <4>2. Elsewhere(t)
        BY <3>1, <3>4, OtherIsElsewhere, RegisterIsElsewhere,
           PublishIsElsewhere, SubscribeIsElsewhere, ListIsElsewhere
      <4> QED
        BY <3>2, <4>1, <4>2, ElsewhereIsSetStep
    <3>5. SetStep(t)
      BY <2>1, <2>4, <3>1, <3>2, <3>4, OtherIsQuiet, DequeueIsSetStep,
         AnswerFailsIsSetStep, CreateIsSetStep, RemoveIsSetStep
    <3> QED
      BY <1>1, <3>2, <3>3, <3>5, OthersKeepRequests DEF SetInv, SetStep
  <2> QED
    BY <2>2, <2>3, <2>4
<1> QED
  BY <1>2, <1>3

\* The tables, the files and what each handler knows of its request agree.
THEOREM SetInvHolds == Spec => []SetInv
<1>1. SetInv /\ [Next]_vars => SetInv'
  BY NextSet
<1>2. Init => SetInv
  BY InitSet
<1> QED
  BY <1>1, <1>2, PTL DEF Spec

\* For any number of threads, slots and names, and whatever handlers fail:
\* the requests that handle_tfs_create_box and handle_tfs_remove_box carry
\* out are the steps of a set of names, each decided at one moment, by the
\* boxes there are then, although a session may be ended by another thread
\* before it has answered.
THEOREM RegistryIsBoxSet == Spec => ImplementsBoxSet
<1>1. Init => Set!Init
  BY InitSet
<1>2. SetInv /\ [Next]_vars => [Set!Next]_(Set!vars)
  BY NextSet
<1> QED
  BY <1>1, <1>2, SetInvHolds, PTL DEF Spec, ImplementsBoxSet, Set!Spec

\* For any number of threads, slots and names: a box without a file has its
\* own creation before tfs_open, or in close_server because tfs_open failed,
\* or a removal that has just unlinked the file.
THEOREM BoxesHaveFiles == Spec => []BoxHasFile
<1>1. SetInv => BoxHasFile
  BY DEF SetInv, FileInv, Excuse, BoxHasFile
<1> QED
  BY <1>1, SetInvHolds, PTL

=============================================================================
