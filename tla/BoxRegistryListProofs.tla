----------------------- MODULE BoxRegistryListProofs ------------------------
(***************************************************************************)
(* A list that no creation and no removal overlaps is exact, although the  *)
(* thread that makes it does not hold boxes_lock: proof for any number of  *)
(* threads, slots and names.                                               *)
(*                                                                         *)
(* A change of the registry that begins makes every list under way one     *)
(* that proves nothing (changes is counted); while none begins, the tables *)
(* stand still and a list is one loop over the slots and one reader of a   *)
(* pipe.                                                                   *)
(***************************************************************************)
EXTENDS BoxRegistrySetProofs, SequenceTheorems

-----------------------------------------------------------------------------
(* The invariant.                                                          *)

\* Where a change of the registry has begun and not ended.
Changing == {"c_slot", "c_copy", "d_unlink", "d_clear", "d_count"}

Stable == Settled /\ \A u \in Threads : pc[u] \notin Changing

SentEntry == [name : Names \cup {NoName}, last : BOOLEAN, short : BOOLEAN]
Listing == [sent : Seq(SentEntry), got : SUBSET Names,
            result : {"none", "reading", "no boxes", "garbled", "printed",
                      "failed"},
            names : SUBSET Names, mark : Int]

ListingOK ==
    /\ listing \in [Threads -> Listing] /\ changes \in Nat
    /\ \A t \in Threads : listing[t].mark <= changes

\* Where a thread is while its manager reads.
ListPCs == {"l_scan", "l_send", "finish", "idle", "closing"}

\* The manager of t reads, and no change has begun since the list did.
Reading(t) == listing[t].result = "reading" /\ listing[t].mark = changes

\* What a manager has read or is to read.
Shown(t) ==
    listing[t].got \cup
    {listing[t].sent[j].name : j \in 1 .. Len(listing[t].sent)}
LastSent(t) == \E j \in 1 .. Len(listing[t].sent) : listing[t].sent[j].last

UsedBelow(i) == {s \in Used : s < i}
NamesOf(S) == {boxes[s].name : s \in S}

\* An entry for every slot, all without a name, and the first is not read.
NoneSent(t) ==
    /\ listing[t].got = {}
    /\ \A j \in 1 .. Len(listing[t].sent) : listing[t].sent[j].name = NoName
    /\ \/ pc[t] = "l_scan" /\ frame[t].i > 1
       \/ pc[t] \in {"finish", "idle"}
       => listing[t].sent # <<>>
    /\ pc[t] = "l_send" => frame[t].name = NoName

\* The boxes in the slots that were scanned, and the last is marked.
ScannedSent(t) ==
    /\ \A j \in 1 .. Len(listing[t].sent) :
         LET e == listing[t].sent[j]
         IN  /\ e.name # NoName /\ ~e.short
             /\ e.last => j = Len(listing[t].sent) /\ Shown(t) = BoxNames
    /\ pc[t] \in {"l_scan", "l_send"} =>
         Shown(t) = NamesOf(UsedBelow(frame[t].i))
    /\ pc[t] = "l_scan" =>
         /\ frame[t].n = Cardinality(UsedBelow(frame[t].i))
         /\ frame[t].last <=> frame[t].n = num_boxes
         /\ LastSent(t) <=> frame[t].n = num_boxes
    /\ pc[t] = "l_send" =>
         /\ frame[t].i \in Used /\ frame[t].name = boxes[frame[t].i].name
         /\ frame[t].n = Cardinality(UsedBelow(frame[t].i)) + 1
         /\ ~frame[t].last /\ ~LastSent(t)
    /\ pc[t] \in {"finish", "idle"} => LastSent(t)

ListInv(t) ==
    /\ pc[t] = "l_open" => frame[t].n = 0
    /\ listing[t].result = "reading" => pc[t] \in ListPCs
    /\ Reading(t) =>
         /\ Stable /\ listing[t].names = BoxNames
         /\ IF num_boxes = 0 THEN NoneSent(t) ELSE ScannedSent(t)

\* ListExact, for one thread.
Exact(t) ==
    LET l == listing[t]
    IN  l.result \notin {"none", "reading"} /\ l.mark = changes =>
          /\ l.got = l.names
          /\ l.result = IF l.names = {} THEN "no boxes" ELSE "printed"

ListsInv ==
    /\ SetInv /\ ListingOK
    /\ \A t \in Threads : ListInv(t) /\ Exact(t)

-----------------------------------------------------------------------------
(* Steps that are not of a listing.                                        *)

\* The step does not add to a list.  A change of the registry is begun, or
\* nothing a list is made of changes, or a change that was begun goes on; and
\* a thread whose manager still reads may only end its session.
Unlisted(t) ==
    /\ listing' = listing
    /\ \/ changes' = changes + 1
       \/ /\ changes' = changes /\ num_boxes' = num_boxes /\ NamesKept
          /\ pc'[t] \notin Changing
       \/ changes' = changes /\ pc[t] \in Changing
    /\ \/ pc[t] \notin ListPCs
       \/ pc[t] = "finish" /\ pc'[t] \in {"idle", "closing"}
    /\ pc'[t] # "l_open"

LEMMA MarksAreOld ==
    ASSUME ListingOK, NEW u \in Threads, listing'[u] = listing[u],
           changes' = changes + 1
    PROVE  listing'[u].mark # changes' /\ listing'[u].mark <= changes'
<1>1. listing[u].mark \in Int /\ changes \in Nat /\ listing[u].mark <= changes
  BY DEF ListingOK, Listing
<1> QED
  BY <1>1

\* A list that is not touched, of a thread that is where it was or is at the
\* end of its session.
LEMMA ListKept ==
    ASSUME ListsInv, NEW u \in Threads, listing'[u] = listing[u],
           changes' = changes, num_boxes' = num_boxes, NamesKept,
           \A v \in Threads : pc'[v] \notin Changing \/ pc'[v] = pc[v],
           \/ /\ pc'[u] = pc[u]
              /\ frame'[u].i = frame[u].i /\ frame'[u].n = frame[u].n
              /\ frame'[u].last = frame[u].last
              /\ frame'[u].name = frame[u].name
           \/ pc[u] \notin ListPCs /\ pc'[u] # "l_open"
           \/ pc[u] = "finish" /\ pc'[u] \in {"idle", "closing"}
    PROVE  ListInv(u)' /\ Exact(u)'
<1>1. Used' = Used /\ BoxNames' = BoxNames /\ (Settled => Settled')
  BY KeptTables DEF Settled
<1>2. \A v \in Threads : ListInv(v) /\ Exact(v)
  BY DEF ListsInv
<1>3. Exact(u)'
  BY <1>2 DEF Exact
<1>4. /\ listing'[u].result = "reading" => pc'[u] \in ListPCs
      /\ pc'[u] = "l_open" => frame'[u].n = 0
  BY <1>2 DEF ListInv, ListPCs
<1>5. ASSUME Reading(u)'
      PROVE  /\ Stable' /\ listing'[u].names = BoxNames'
             /\ IF num_boxes' = 0 THEN NoneSent(u)' ELSE ScannedSent(u)'
  <2>1. Reading(u) /\ pc[u] \in ListPCs /\ Stable
    BY <1>2, <1>5 DEF Reading, ListInv
  <2>2. Stable' /\ listing'[u].names = BoxNames'
    BY <1>1, <1>2, <2>1 DEF Stable, ListInv
  <2>3. Shown(u)' = Shown(u) /\ LastSent(u)' = LastSent(u)
    BY DEF Shown, LastSent
  <2>4. CASE num_boxes = 0
    <3>1. NoneSent(u)
      BY <1>2, <2>1, <2>4 DEF ListInv
    <3> QED
      BY <2>1, <2>2, <2>4, <3>1 DEF NoneSent
  <2>5. CASE num_boxes # 0
    <3>1. ScannedSent(u)
      BY <1>2, <2>1, <2>5 DEF ListInv
    <3>2. \A i : UsedBelow(i)' = UsedBelow(i)
      BY <1>1 DEF UsedBelow
    <3>3. \A i : NamesOf(UsedBelow(i))' = NamesOf(UsedBelow(i))
      BY <1>1 DEF UsedBelow, NamesOf, Used, NamesKept
    <3>4. \A s \in Used : boxes'[s].name = boxes[s].name
      BY DEF Used, NamesKept
    <3>5. ScannedSent(u)'
      BY <1>1, <2>1, <2>3, <3>1, <3>2, <3>3, <3>4 DEF ScannedSent
    <3> QED
      BY <2>2, <2>5, <3>5
  <2> QED
    BY <2>4, <2>5
<1> QED
  BY <1>3, <1>4, <1>5 DEF ListInv

LEMMA UnlistedPreserves ==
    ASSUME ListsInv, NEW t \in Threads, StepType(t), Unlisted(t)
    PROVE  ListingOK' /\ \A u \in Threads : ListInv(u)' /\ Exact(u)'
<1>1. \A u \in Threads \ {t} : pc'[u] = pc[u] /\ frame'[u] = frame[u]
  BY DEF StepType, Local
<1>2. ListingOK /\ \A u \in Threads : ListInv(u) /\ Exact(u)
  BY DEF ListsInv
<1>3. \A u \in Threads :
        /\ listing'[u].result = "reading" => pc'[u] \in ListPCs
        /\ pc'[u] = "l_open" => frame'[u].n = 0
  BY <1>1, <1>2 DEF Unlisted, ListInv, ListPCs
<1>4. CASE changes' = changes + 1
  <2>1. ListingOK'
    BY <1>2, <1>4, MarksAreOld DEF ListingOK, Unlisted
  <2>2. \A u \in Threads : listing'[u].mark # changes'
    BY <1>2, <1>4, MarksAreOld DEF Unlisted
  <2> QED
    BY <1>3, <2>1, <2>2 DEF ListInv, Reading, Exact
<1>5. CASE /\ changes' = changes /\ num_boxes' = num_boxes /\ NamesKept
           /\ pc'[t] \notin Changing
  <2>1. ListingOK'
    BY <1>2, <1>5 DEF ListingOK, Unlisted
  <2>2. ASSUME NEW u \in Threads
        PROVE  ListInv(u)' /\ Exact(u)'
    BY <1>1, <1>5, ListKept DEF Unlisted
  <2> QED
    BY <2>1, <2>2
<1>6. CASE changes' = changes /\ pc[t] \in Changing
  <2>1. ListingOK'
    BY <1>2, <1>6 DEF ListingOK, Unlisted
  <2>2. ASSUME NEW u \in Threads
        PROVE  ~Reading(u)' /\ Exact(u)'
    <3>1. ~Reading(u)
      BY <1>2, <1>6 DEF ListInv, Stable
    <3> QED
      BY <1>2, <1>6, <3>1 DEF Unlisted, Reading, Exact
  <2> QED
    BY <1>3, <2>1, <2>2 DEF ListInv
<1> QED
  BY <1>4, <1>5, <1>6 DEF Unlisted

\* The quiet steps that do not list keep the tables.
LEMMA QuietIsUnlisted ==
    ASSUME NEW t \in Threads, Quiet(t), UNCHANGED <<listing, changes>>,
           \/ pc[t] \notin ListPCs
           \/ pc[t] = "finish" /\ pc'[t] \in {"idle", "closing"},
           pc'[t] # "l_open"
    PROVE  Unlisted(t)
  BY DEF Quiet, Unlisted, Changing, Critical

LEMMA RegisterIsUnlisted ==
    ASSUME TypeOK, NEW t \in Threads, Register(t), Quiet(t)
    PROVE  Unlisted(t)
<1>1. pc'[t] # "l_open"
  BY GotoType, ReturnType, CloseServerType
     DEF Register, RegisterOpens, RegisterFinds, RegisterMisses,
         RegisterTests, RegisterCounts, PCs
<1>2. UNCHANGED <<listing, changes>> /\ pc[t] \notin ListPCs
  BY DEF Register, RegisterOpens, RegisterFinds, RegisterMisses,
         RegisterTests, RegisterCounts, Goto, ListPCs, others, registry,
         tables
<1> QED
  BY <1>1, <1>2, QuietIsUnlisted

LEMMA PublishIsUnlisted ==
    ASSUME TypeOK, NEW t \in Threads, Publish(t), Quiet(t)
    PROVE  Unlisted(t)
<1>1. pc'[t] # "l_open"
  BY GotoType, ReturnType, CloseServerType
     DEF Publish, PublisherReceives, PublisherEnds, PublisherLoads,
         PublisherWrites, PublisherFillsBox, PublisherFails, PCs
<1>2. UNCHANGED <<listing, changes>> /\ pc[t] \notin ListPCs
  BY DEF Publish, PublisherReceives, PublisherEnds, PublisherLoads,
         PublisherWrites, PublisherFillsBox, PublisherFails, Goto, Return,
         FinishClientSession, ListPCs, others, registry, tables
<1> QED
  BY <1>1, <1>2, QuietIsUnlisted

LEMMA SubscribeIsUnlisted ==
    ASSUME TypeOK, NEW t \in Threads, Subscribe(t), Quiet(t)
    PROVE  Unlisted(t)
<1>1. pc'[t] # "l_open"
  BY GotoType, ReturnType, CloseServerType
     DEF Subscribe, SubscriberOpens, SubscriberCannotOpen, SubscriberLoads,
         SubscriberLosesPipe, SubscriberSends, SubscriberLeft,
         SubscriberFails, PCs
<1>2. UNCHANGED <<listing, changes>> /\ pc[t] \notin ListPCs
  BY DEF Subscribe, SubscriberOpens, SubscriberCannotOpen, SubscriberLoads,
         SubscriberLosesPipe, SubscriberSends, SubscriberLeft,
         SubscriberFails, CloseServer, Goto, Return,
         FinishClientSession, ListPCs, others, registry, tables
<1> QED
  BY <1>1, <1>2, QuietIsUnlisted

LEMMA OtherIsUnlisted ==
    ASSUME TypeOK, NEW t \in Threads, Finish(t) \/ OpenFails(t) \/ NullBox(t),
           Quiet(t)
    PROVE  Unlisted(t)
<1>1. UNCHANGED <<listing, changes>>
  BY DEF Finish, OpenFails, NullBox, FinishClientSession, others, registry,
         tables
<1>2. CASE Finish(t)
  BY <1>1, <1>2, QuietIsUnlisted, ReturnType, CloseServerType DEF Finish
<1>3. CASE OpenFails(t) \/ NullBox(t)
  <2>1. pc[t] \notin ListPCs /\ pc'[t] # "l_open"
    BY <1>3, CloseServerType DEF OpenFails, NullBox, ListPCs, TypeOK
  <2> QED
    BY <1>1, <2>1, QuietIsUnlisted
<1> QED
  BY <1>2, <1>3

LEMMA AnswerFailsIsUnlisted ==
    ASSUME TypeOK, NEW t \in Threads, AnswerFails(t)
    PROVE  Unlisted(t)
<1>1. UNCHANGED <<listing, changes, num_boxes, boxes>> /\ pc[t] \notin ListPCs
  BY DEF AnswerFails, ListPCs, others, registry, tables
<1>2. pc'[t] = "closing"
  BY CloseServerType DEF AnswerFails
<1> QED
  BY <1>1, <1>2 DEF Unlisted, NamesKept, Changing

LEMMA CreateIsUnlisted ==
    ASSUME TypeOK, NEW t \in Threads, Create(t)
    PROVE  Unlisted(t)
<1> USE DEF Unlisted, ListPCs, Changing, others, registry, tables
<1>1. CASE CreateCounts(t)
  BY <1>1, GotoType DEF CreateCounts, PCs
<1>2. CASE CreateTakesSlot(t) \/ CreateCopies(t)
  BY <1>2, GotoType DEF CreateTakesSlot, CreateCopies, PCs
<1>3. CASE \/ CreateRefuses(t) \/ CreateOpensPipe(t) \/ CreateHasNoPipe(t)
           \/ CreateMakesFile(t) \/ CreateMakesNoFile(t) \/ CreateAnswers(t)
  <2>1. UNCHANGED <<boxes, num_boxes, changes, listing>>
    BY <1>3 DEF CreateRefuses, CreateOpensPipe, CreateHasNoPipe,
                CreateMakesFile, CreateMakesNoFile, CreateAnswers
  <2>2. /\ pc[t] \in {"c_lock", "c_open", "c_file", "c_answer"}
        /\ pc'[t] \in {"c_open", "c_file", "c_answer", "finish", "closing"}
    BY <1>3, GotoType, CloseServerType
       DEF CreateRefuses, CreateOpensPipe, CreateHasNoPipe,
           CreateMakesFile, CreateMakesNoFile, CreateAnswers, PCs
  <2> QED
    BY <2>1, <2>2 DEF NamesKept
<1> QED
  BY <1>1, <1>2, <1>3 DEF Create

LEMMA RemoveIsUnlisted ==
    ASSUME TypeOK, NEW t \in Threads, Remove(t)
    PROVE  Unlisted(t)
<1> USE DEF Unlisted, ListPCs, Changing, others, registry, tables
<1>1. CASE RemoveFreesSlot(t)
  BY <1>1, GotoType DEF RemoveFreesSlot, PCs
<1>2. CASE \/ RemoveUnlinks(t) \/ RemoveCannotUnlink(t) \/ RemoveClears(t)
           \/ RemoveCounts(t)
  BY <1>2, GotoType, CloseServerType
     DEF RemoveUnlinks, RemoveCannotUnlink, RemoveClears, RemoveCounts, PCs
<1>3. CASE RemoveEndsSession(t)
  <2>1. pc[t] = "d_end" /\ frame[t].i \in Threads
    BY <1>3 DEF RemoveEndsSession, TypeOK, ThreadOK
  <2>2. FinishClientSession(frame[t].i) /\ UNCHANGED listing
    BY <1>3 DEF RemoveEndsSession
  <2>3. NamesKept /\ UNCHANGED <<num_boxes, changes>>
    BY <2>1, <2>2, FinishType DEF NamesKept, FinishClientSession
  <2>4. pc'[t] \in {"d_scan", "closing"}
    BY <1>3, GotoType, CloseServerType DEF RemoveEndsSession, PCs
  <2> QED
    BY <2>1, <2>2, <2>3, <2>4
<1>4. CASE \/ RemoveLocks(t) \/ RemoveOpensPipe(t) \/ RemoveHasNoPipe(t)
           \/ RemoveMisses(t) \/ RemoveFinds(t) \/ RemoveMatches(t)
           \/ RemoveSkips(t) \/ RemoveAnswers(t)
  <2>1. UNCHANGED <<boxes, num_boxes, changes, listing>>
    BY <1>4 DEF RemoveLocks, RemoveOpensPipe, RemoveHasNoPipe, RemoveMisses,
                RemoveFinds, RemoveMatches, RemoveSkips, RemoveAnswers
  <2>2. /\ pc[t] \in {"d_lock", "d_open", "d_find", "d_scan", "d_answer"}
        /\ pc'[t] \in {"d_open", "d_find", "d_scan", "d_end", "d_answer",
                       "finish", "closing"}
    BY <1>4, GotoType, CloseServerType
       DEF RemoveLocks, RemoveOpensPipe, RemoveHasNoPipe, RemoveMisses,
           RemoveFinds, RemoveMatches, RemoveSkips, RemoveAnswers, PCs
  <2> QED
    BY <2>1, <2>2 DEF NamesKept
<1> QED
  BY <1>1, <1>2, <1>3, <1>4 DEF Remove

\* What is left to show of a step that changes no table: what it does to the
\* list of its own thread.
LEMMA OwnListSuffices ==
    ASSUME ListsInv, NEW t \in Threads,
           UNCHANGED <<boxes, num_boxes, changes>>,
           \A u \in Threads \ {t} : pc'[u] = pc[u] /\ frame'[u] = frame[u],
           pc'[t] \notin Changing \/ pc'[t] = pc[t],
           NEW l \in Listing, l.mark <= changes,
           listing' = [listing EXCEPT ![t] = l],
           ListInv(t)' /\ Exact(t)'
    PROVE  ListingOK' /\ \A u \in Threads : ListInv(u)' /\ Exact(u)'
<1>1. NamesKept
  BY DEF NamesKept
<1>2. ListingOK
  BY DEF ListsInv
<1>3. \A u \in Threads \ {t} : listing'[u] = listing[u]
  BY <1>2 DEF ListingOK
<1>4. ListingOK'
  BY <1>2 DEF ListingOK
<1>5. ASSUME NEW u \in Threads \ {t}
      PROVE  ListInv(u)' /\ Exact(u)'
  BY <1>1, <1>3, ListKept
<1> QED
  BY <1>4, <1>5

LEMMA NoListingType ==
    NoListing \in Listing /\ NoListing.result = "none" /\ NoListing.mark = 0
<1>1. <<>> \in Seq(SentEntry)
  BY EmptySeq
<1> QED
  BY <1>1 DEF NoListing, Listing

LEMMA DequeueKeepsLists ==
    ASSUME ListsInv, NEW t \in Threads, StepType(t), Dequeue(t)
    PROVE  ListingOK' /\ \A u \in Threads : ListInv(u)' /\ Exact(u)'
<1>1. /\ UNCHANGED <<boxes, num_boxes, changes>>
      /\ listing' = [listing EXCEPT ![t] = NoListing]
      /\ pc[t] = "idle"
  BY DEF Dequeue, registry, tables, Goto
<1>2. listing'[t] = NoListing /\ changes \in Nat
  BY <1>1 DEF ListsInv, ListingOK
<1>3. ListInv(t)' /\ Exact(t)'
  <2>1. frame'[t].n = 0
    BY <1>1 DEF Dequeue, ListsInv, SetInv, RequestInv
  <2> QED
    BY <1>2, <2>1, NoListingType DEF ListInv, Exact, Reading
<1>4. pc'[t] \in {"r_open", "c_lock", "d_lock", "l_open"}
  <2>1. PICK op \in Opcodes : pc' = [pc EXCEPT ![t] = Entry[op]]
    BY DEF Dequeue, Goto
  <2>2. Entry[op] \in {"r_open", "c_lock", "d_lock", "l_open"}
    BY RegistryAssumption DEF Entry
  <2> QED
    BY <2>1, <2>2 DEF ListsInv, SetInv, Inv, TypeOK
<1>5. \A u \in Threads \ {t} : pc'[u] = pc[u] /\ frame'[u] = frame[u]
  BY DEF StepType, Local
<1>6. NoListing.mark <= changes /\ pc'[t] \notin Changing
  BY <1>2, <1>4, NoListingType DEF Changing
<1> QED
  BY <1>1, <1>3, <1>5, <1>6, NoListingType, OwnListSuffices

LEMMA OpenBlocksKeepsLists ==
    ASSUME ListsInv, NEW t \in Threads, OpenBlocks(t)
    PROVE  ListingOK' /\ \A u \in Threads : ListInv(u)' /\ Exact(u)'
<1>1. /\ UNCHANGED <<boxes, num_boxes, pc, listing, changes>>
      /\ \A u \in Threads :
           /\ frame'[u].i = frame[u].i /\ frame'[u].n = frame[u].n
           /\ frame'[u].last = frame[u].last
           /\ frame'[u].name = frame[u].name
  BY OpenBlocksKeeps DEF ListsInv, SetInv, Inv
<1>2. ListingOK' /\ NamesKept
  BY <1>1 DEF ListsInv, ListingOK, NamesKept
<1>3. \A u \in Threads : ListInv(u)' /\ Exact(u)'
  BY <1>1, <1>2, ListKept
<1> QED
  BY <1>2, <1>3

-----------------------------------------------------------------------------
(* The steps of a listing.                                                 *)

\* The slots in use that a scan has passed.
LEMMA UsedBelowSteps ==
    ASSUME NEW i \in Slots
    PROVE  /\ i \notin Used => UsedBelow(i + 1) = UsedBelow(i)
           /\ i \in Used =>
                /\ UsedBelow(i + 1) = UsedBelow(i) \cup {i}
                /\ Cardinality(UsedBelow(i + 1)) =
                     Cardinality(UsedBelow(i)) + 1
                /\ Cardinality(UsedBelow(i)) < Cardinality(Used)
<1>1. /\ IsFiniteSet(Used) /\ UsedBelow(i) \subseteq Used
      /\ UsedBelow(i + 1) \subseteq Used
  BY UsedIsFinite DEF UsedBelow
<1>2. IsFiniteSet(UsedBelow(i)) /\ Cardinality(UsedBelow(i)) \in Nat
  BY <1>1, FS_Subset, FS_CardinalityType
<1>3. /\ i \notin UsedBelow(i)
      /\ \A s \in Used : s < i + 1 <=> s < i \/ s = i
  BY RegistryAssumption DEF UsedBelow, Used, Slots
<1>4. i \notin Used => UsedBelow(i + 1) = UsedBelow(i)
  BY <1>3 DEF UsedBelow
<1>5. i \in Used => UsedBelow(i + 1) = UsedBelow(i) \cup {i}
  BY <1>3 DEF UsedBelow
<1>6. Cardinality(UsedBelow(i) \cup {i}) = Cardinality(UsedBelow(i)) + 1
  BY <1>2, <1>3, FS_AddElement
<1>7. i \in Used => Cardinality(UsedBelow(i + 1)) <= Cardinality(Used)
  BY <1>1, FS_Subset
<1>8. Cardinality(Used) \in Nat
  BY UsedIsFinite
<1>9. CASE i \in Used
  <2>1. Cardinality(UsedBelow(i + 1)) = Cardinality(UsedBelow(i)) + 1
    BY <1>5, <1>6, <1>9
  <2>2. Cardinality(UsedBelow(i)) < Cardinality(Used)
    BY <1>2, <1>7, <1>8, <1>9, <2>1
  <2> QED
    BY <1>5, <1>9, <2>1, <2>2
<1> QED
  BY <1>4, <1>9

LEMMA UsedBelowEnds ==
    /\ UsedBelow(1) = {} /\ Cardinality(UsedBelow(1)) = 0
    /\ UsedBelow(MaxBoxes + 1) = Used
    /\ \A i : Cardinality(UsedBelow(i)) = Cardinality(Used) =>
                UsedBelow(i) = Used
<1>1. UsedBelow(1) = {} /\ UsedBelow(MaxBoxes + 1) = Used
  BY RegistryAssumption DEF UsedBelow, Used, Slots
<1>2. ASSUME NEW i, Cardinality(UsedBelow(i)) = Cardinality(Used)
      PROVE  UsedBelow(i) = Used
  <2>1. IsFiniteSet(Used) /\ UsedBelow(i) \subseteq Used
    BY UsedIsFinite DEF UsedBelow
  <2> QED
    BY <1>2, <2>1, FS_Subset
<1> QED
  BY <1>1, <1>2, FS_EmptySet

\* Where the tables agree, the slots in use are those that have a name.
LEMMA UsedNames ==
    ASSUME Settled
    PROVE  /\ NamesOf(Used) = BoxNames
           /\ \A s \in Slots : s \in Used <=> boxes[s].name # NoName
           /\ num_boxes = 0 <=> Used = {}
           /\ num_boxes = 0 <=> BoxNames = {}
<1>1. \A s \in Slots : s \in Used <=> boxes[s].name # NoName
  BY DEF Settled, Agrees, Used
<1>2. NamesOf(Used) = BoxNames
  BY <1>1 DEF NamesOf, BoxNames, Used
<1>3. num_boxes = 0 <=> Used = {}
  BY UsedIsFinite, FS_EmptySet DEF Settled
<1>4. Used = {} <=> BoxNames = {}
  BY <1>1 DEF BoxNames, Used
<1> QED
  BY <1>1, <1>2, <1>3, <1>4

LEMMA ListTypes ==
    ASSUME ListsInv, NEW t \in Threads
    PROVE  /\ TypeOK /\ ListingOK /\ ListInv(t) /\ Exact(t)
           /\ frame \in [Threads -> Frame] /\ frame[t] \in Frame
           /\ listing[t] \in Listing /\ changes \in Nat
           /\ listing[t].mark <= changes /\ num_boxes \in Int
           /\ listing[t].sent \in Seq(SentEntry)
<1>1. TypeOK /\ ListingOK /\ ListInv(t) /\ Exact(t)
  BY DEF ListsInv, SetInv, Inv
<1>2. listing[t] \in Listing /\ changes \in Nat /\ listing[t].mark <= changes
  BY <1>1 DEF ListingOK
<1>3. frame \in [Threads -> Frame] /\ frame[t] \in Frame /\ num_boxes \in Int
  BY <1>1 DEF TypeOK, TablesOK
<1> QED
  BY <1>1, <1>2, <1>3 DEF Listing

LEMMA SameListing ==
    ASSUME ListsInv, NEW t \in Threads, listing' = listing
    PROVE  listing' = [listing EXCEPT ![t] = listing[t]]
  BY DEF ListsInv, ListingOK

\* A step of a listing leaves the tables and the other threads alone.
LEMMA ListChangesNothing ==
    ASSUME ListsInv, NEW t \in Threads, StepType(t), List(t)
    PROVE  /\ UNCHANGED <<boxes, num_boxes, changes>>
           /\ \A u \in Threads \ {t} : pc'[u] = pc[u] /\ frame'[u] = frame[u]
           /\ pc'[t] \in {"l_scan", "l_send", "closing", "finish"}
           /\ Used' = Used /\ BoxNames' = BoxNames
           /\ \A i : UsedBelow(i)' = UsedBelow(i)
           /\ \A i : NamesOf(UsedBelow(i))' = NamesOf(UsedBelow(i))
           /\ Stable => Stable'
<1>1. UNCHANGED <<boxes, num_boxes, changes>>
  BY DEF List, ListOpens, ListSkips, ListCopies, ListSends, ListPipeClosed,
         ListEnds, registry, tables
<1>2. pc'[t] \in {"l_scan", "l_send", "closing", "finish"}
  BY GotoType, CloseServerType, ListTypes
     DEF List, ListOpens, ListSkips, ListCopies, ListSends, ListPipeClosed,
         ListEnds, PCs
<1>3. \A u \in Threads \ {t} : pc'[u] = pc[u] /\ frame'[u] = frame[u]
  BY DEF StepType, Local
<1>4. Used' = Used /\ BoxNames' = BoxNames /\ (Settled => Settled')
  BY <1>1 DEF Used, BoxNames, Settled, Agrees
<1>5. Stable => Stable'
  BY <1>2, <1>3, <1>4 DEF Stable, Changing
<1>6. \A i : UsedBelow(i)' = UsedBelow(i)
  BY <1>4 DEF UsedBelow
<1>7. \A i : NamesOf(UsedBelow(i))' = NamesOf(UsedBelow(i))
  BY <1>1, <1>6 DEF NamesOf
<1> QED
  BY <1>1, <1>2, <1>3, <1>4, <1>5, <1>6, <1>7

\* What each step of a listing has to be shown to do.
ListStep(t) ==
    /\ \E l \in Listing :
         l.mark <= changes /\ listing' = [listing EXCEPT ![t] = l]
    /\ ListInv(t)' /\ Exact(t)'

LEMMA ListOpensKeeps ==
    ASSUME ListsInv, NEW t \in Threads, StepType(t), ListOpens(t)
    PROVE  ListStep(t)
<1> DEFINE m == IF boxes_lock = Nobody THEN changes ELSE -1
           l == [NoListing EXCEPT !.result = "reading", !.names = BoxNames,
                                  !.mark = m]
<1>1. /\ pc[t] = "l_open" /\ pc'[t] = "l_scan"
      /\ listing' = [listing EXCEPT ![t] = l]
      /\ frame' = [frame EXCEPT ![t].last = (num_boxes = 0), ![t].i = 1]
  BY GotoType, ListTypes DEF ListOpens, PCs
<1>2. m \in Int /\ m <= changes /\ BoxNames \subseteq Names
  BY ListTypes DEF BoxNames, TypeOK, TablesOK, Box
<1>3. /\ l \in Listing /\ l.mark = m /\ l.result = "reading"
      /\ l.names = BoxNames /\ l.sent = <<>> /\ l.got = {}
  <2>1. <<>> \in Seq(SentEntry)
    BY EmptySeq
  <2> QED
    BY <1>2, <2>1 DEF NoListing, Listing
<1>4. listing'[t] = l
  BY <1>1, ListTypes DEF ListingOK
<1>5. /\ frame'[t].n = 0 /\ frame'[t].i = 1
      /\ frame'[t].last = (num_boxes = 0)
  BY <1>1, ListTypes DEF ListInv, Frame
<1>6. List(t)
  BY DEF List
<1>7. ASSUME Reading(t)'
      PROVE  /\ Stable' /\ listing'[t].names = BoxNames'
             /\ IF num_boxes' = 0 THEN NoneSent(t)' ELSE ScannedSent(t)'
  <2>1. m = changes
    BY <1>3, <1>4, <1>6, <1>7, ListChangesNothing DEF Reading
  <2>2. boxes_lock = Nobody
    BY <2>1, ListTypes
  <2>3. Stable
    BY <2>2, NobodyIsNoThread
       DEF ListsInv, SetInv, Inv, RegistryInv, LockInv, Stable, Critical,
           Changing
  <2>4. /\ Shown(t)' = {} /\ ~LastSent(t)'
        /\ 1 .. Len(listing'[t].sent) = {} /\ listing'[t].got = {}
    <3>1. listing'[t].sent = <<>> /\ listing'[t].got = {}
      BY <1>3, <1>4
    <3> QED
      BY <3>1 DEF Shown, LastSent
  <2>5. pc'[t] = "l_scan" /\ ~(frame'[t].i > 1)
    BY <1>1, <1>5
  <2>6. CASE num_boxes = 0
    <3>1. NoneSent(t)'
      BY <2>4, <2>5 DEF NoneSent
    <3> QED
      BY <1>3, <1>4, <1>6, <2>3, <2>6, <3>1, ListChangesNothing
  <2>7. CASE num_boxes # 0
    <3>1. NamesOf(UsedBelow(1))' = {} /\ Cardinality(UsedBelow(1))' = 0
      BY <1>6, UsedBelowEnds, ListChangesNothing DEF NamesOf
    <3>2. num_boxes' # 0
      BY <1>6, <2>7, ListChangesNothing
    <3>3. ScannedSent(t)'
      BY <1>1, <1>5, <2>4, <3>1, <3>2 DEF ScannedSent
    <3> QED
      BY <1>3, <1>4, <1>6, <2>3, <3>2, <3>3, ListChangesNothing
  <2> QED
    BY <2>6, <2>7
<1>8. ListInv(t)' /\ Exact(t)'
  BY <1>1, <1>3, <1>4, <1>7 DEF ListInv, Exact, ListPCs
<1> QED
  BY <1>1, <1>2, <1>3, <1>8 DEF ListStep

LEMMA ListSkipsKeeps ==
    ASSUME ListsInv, NEW t \in Threads, StepType(t), ListSkips(t)
    PROVE  ListStep(t)
<1> DEFINE i == frame[t].i
<1>1. /\ pc[t] = "l_scan" /\ pc' = pc /\ listing' = listing
      /\ i \in Slots /\ i \notin Used /\ num_boxes # 0
      /\ frame' = [frame EXCEPT ![t].i = @ + 1]
  BY DEF ListSkips, Skipped, others, Used
<1>2. /\ frame'[t].i = i + 1 /\ frame'[t].n = frame[t].n
      /\ frame'[t].last = frame[t].last
  BY <1>1, ListTypes DEF Frame
<1>3. List(t)
  BY DEF List
<1>4. ASSUME Reading(t)'
      PROVE  /\ Stable' /\ listing'[t].names = BoxNames' /\ ScannedSent(t)'
  <2>1. Reading(t)
    BY <1>1, <1>3, <1>4, ListChangesNothing DEF Reading
  <2>2. Stable /\ listing[t].names = BoxNames /\ ScannedSent(t)
    BY <1>1, <2>1, ListTypes DEF ListInv
  <2>3. Shown(t)' = Shown(t) /\ LastSent(t)' = LastSent(t)
    BY <1>1 DEF Shown, LastSent
  <2>4. UsedBelow(i + 1) = UsedBelow(i)
    BY <1>1, UsedBelowSteps
  <2>5. ScannedSent(t)'
    BY <1>1, <1>2, <1>3, <2>2, <2>3, <2>4, ListChangesNothing
       DEF ScannedSent
  <2> QED
    BY <1>1, <1>3, <2>2, <2>5, ListChangesNothing
<1>5. ListInv(t)' /\ Exact(t)'
  BY <1>1, <1>3, <1>4, ListChangesNothing, ListTypes
     DEF ListInv, Exact, ListPCs
<1> QED
  BY <1>1, <1>5, ListTypes, SameListing DEF ListStep

LEMMA ListCopiesKeeps ==
    ASSUME ListsInv, NEW t \in Threads, StepType(t), ListCopies(t)
    PROVE  ListStep(t)
<1> DEFINE i == frame[t].i
<1>1. /\ pc[t] = "l_scan" /\ pc'[t] = "l_send" /\ listing' = listing
      /\ i \in Slots /\ (i \in Used \/ num_boxes = 0)
      /\ frame' = [frame EXCEPT ![t].name = boxes[i].name, ![t].n = @ + 1]
  BY GotoType, ListTypes DEF ListCopies, Skipped, others, Used, PCs
<1>2. /\ frame'[t].i = i /\ frame'[t].n = frame[t].n + 1
      /\ frame'[t].last = frame[t].last /\ frame'[t].name = boxes[i].name
  BY <1>1, ListTypes DEF Frame
<1>3. List(t)
  BY DEF List
<1>4. ASSUME Reading(t)'
      PROVE  /\ Stable' /\ listing'[t].names = BoxNames'
             /\ IF num_boxes' = 0 THEN NoneSent(t)' ELSE ScannedSent(t)'
  <2>1. Reading(t)
    BY <1>1, <1>3, <1>4, ListChangesNothing DEF Reading
  <2>2. /\ Stable /\ listing[t].names = BoxNames /\ Settled
        /\ IF num_boxes = 0 THEN NoneSent(t) ELSE ScannedSent(t)
    BY <2>1, ListTypes DEF ListInv, Stable
  <2>3. Shown(t)' = Shown(t) /\ LastSent(t)' = LastSent(t)
    BY <1>1 DEF Shown, LastSent
  <2>4. CASE num_boxes = 0
    <3>1. boxes[i].name = NoName
      BY <1>1, <2>2, <2>4, UsedNames
    <3>2. NoneSent(t)'
      BY <1>1, <1>2, <2>2, <2>4, <3>1 DEF NoneSent
    <3> QED
      BY <1>1, <1>3, <2>2, <2>4, <3>2, ListChangesNothing
  <2>5. CASE num_boxes # 0
    <3>1. i \in Used /\ Cardinality(UsedBelow(i)) < num_boxes
      BY <1>1, <2>2, <2>5, UsedBelowSteps DEF Settled
    <3>2. frame[t].n = Cardinality(UsedBelow(i)) /\ frame[t].n # num_boxes
      BY <1>1, <2>2, <2>5, <3>1, ListTypes DEF ScannedSent
    <3>3. ~frame[t].last /\ ~LastSent(t)
      BY <1>1, <2>2, <2>5, <3>2 DEF ScannedSent
    <3>4. ScannedSent(t)'
      BY <1>1, <1>2, <1>3, <2>2, <2>3, <2>5, <3>1, <3>2, <3>3,
         ListChangesNothing DEF ScannedSent
    <3> QED
      BY <1>1, <1>3, <2>2, <2>5, <3>4, ListChangesNothing
  <2> QED
    BY <2>4, <2>5
<1>5. ListInv(t)' /\ Exact(t)'
  BY <1>1, <1>3, <1>4, ListChangesNothing, ListTypes
     DEF ListInv, Exact, ListPCs
<1> QED
  BY <1>1, <1>5, ListTypes, SameListing DEF ListStep

LEMMA ListSendsKeeps ==
    ASSUME ListsInv, NEW t \in Threads, StepType(t), ListSends(t)
    PROVE  ListStep(t)
<1> DEFINE i == frame[t].i
           last == frame[t].last \/ frame[t].n = num_boxes
           e == [name |-> frame[t].name, last |-> last,
                 short |-> num_boxes = 0]
           l == [listing[t] EXCEPT !.sent = Append(@, e)]
           len == Len(listing[t].sent)
<1>1. /\ pc[t] = "l_send" /\ pc'[t] = "l_scan"
      /\ listing' = [listing EXCEPT ![t] = l]
      /\ frame' = [frame EXCEPT ![t].last = last, ![t].i = @ + 1]
      /\ listing[t].result = "reading"
  BY GotoType, ListTypes DEF ListSends, PCs, ListingOK, Listing
<1>2. e \in SentEntry /\ listing[t].sent \in Seq(SentEntry)
  BY ListTypes DEF SentEntry, Frame
<1>3. /\ l.sent \in Seq(SentEntry) /\ l.sent # <<>>
      /\ len \in Nat /\ Len(l.sent) = len + 1
      /\ \A j \in 1 .. len : l.sent[j] = listing[t].sent[j]
      /\ l.sent[len + 1] = e
  <2>1. l.sent = Append(listing[t].sent, e)
    BY ListTypes DEF Listing
  <2> QED
    BY <1>2, <2>1, AppendProperties, LenProperties
<1>4. /\ l \in Listing /\ l.mark = listing[t].mark /\ l.got = listing[t].got
      /\ l.names = listing[t].names /\ l.result = listing[t].result
  BY <1>3, ListTypes DEF Listing
<1>5. listing'[t] = l
  BY <1>1, ListTypes DEF ListingOK
<1>6. /\ frame'[t].i = i + 1 /\ frame'[t].n = frame[t].n
      /\ frame'[t].last = last /\ i \in Slots
  BY <1>1, ListTypes DEF Frame, TypeOK, ThreadOK
<1>7. List(t)
  BY DEF List
<1>8. ASSUME Reading(t)'
      PROVE  /\ Stable' /\ listing'[t].names = BoxNames'
             /\ IF num_boxes' = 0 THEN NoneSent(t)' ELSE ScannedSent(t)'
  <2>1. Reading(t)
    BY <1>1, <1>4, <1>5, <1>7, <1>8, ListChangesNothing DEF Reading
  <2>2. /\ Stable /\ listing[t].names = BoxNames /\ Settled
        /\ IF num_boxes = 0 THEN NoneSent(t) ELSE ScannedSent(t)
    BY <2>1, ListTypes DEF ListInv, Stable
  <2>3. Stable' /\ listing'[t].names = BoxNames' /\ num_boxes' = num_boxes
    BY <1>4, <1>5, <1>7, <2>2, ListChangesNothing
  <2> HIDE DEF l, e
  <2>4. CASE num_boxes = 0
    <3>1. NoneSent(t) /\ e.name = NoName
      BY <1>1, <2>2, <2>4 DEF NoneSent, e
    <3>2. \A j \in 1 .. Len(l.sent) : l.sent[j].name = NoName
      BY <1>3, <3>1 DEF NoneSent
    <3>3. NoneSent(t)'
      BY <1>1, <1>3, <1>4, <1>5, <3>1, <3>2 DEF NoneSent
    <3> QED
      BY <2>3, <2>4, <3>3
  <2>5. CASE num_boxes # 0
    <3>1. /\ i \in Used /\ frame[t].n = Cardinality(UsedBelow(i)) + 1
          /\ frame[t].name = boxes[i].name /\ ~frame[t].last /\ ~LastSent(t)
          /\ Shown(t) = NamesOf(UsedBelow(i))
          /\ \A j \in 1 .. len :
               listing[t].sent[j].name # NoName /\ ~listing[t].sent[j].short
      BY <1>1, <2>2, <2>5 DEF ScannedSent
    <3>2. /\ e.name = boxes[i].name /\ e.name # NoName /\ ~e.short
          /\ e.last = (frame[t].n = num_boxes)
      BY <1>6, <2>2, <2>5, <3>1, UsedNames DEF e
    <3>3. /\ frame'[t].n = Cardinality(UsedBelow(i + 1))
          /\ UsedBelow(i + 1) = UsedBelow(i) \cup {i}
      BY <1>6, <3>1, UsedBelowSteps
    <3>4. Shown(t)' = Shown(t) \cup {e.name}
      <4>1. ASSUME NEW j \in 1 .. Len(l.sent)
            PROVE  l.sent[j].name \in
                     {listing[t].sent[k].name : k \in 1 .. len} \cup {e.name}
        <5>1. j \in 1 .. len \/ j = len + 1
          BY <1>3, <4>1
        <5> QED
          BY <1>3, <5>1
      <4>2. /\ \A j \in 1 .. len : j \in 1 .. Len(l.sent)
            /\ len + 1 \in 1 .. Len(l.sent)
        BY <1>3
      <4>3. {listing[t].sent[k].name : k \in 1 .. len} \cup {e.name}
              \subseteq {l.sent[j].name : j \in 1 .. Len(l.sent)}
        BY <1>3, <4>2
      <4>4. {l.sent[j].name : j \in 1 .. Len(l.sent)} =
              {listing[t].sent[k].name : k \in 1 .. len} \cup {e.name}
        BY <4>1, <4>3
      <4>5. Shown(t)' = l.got \cup {l.sent[j].name : j \in 1 .. Len(l.sent)}
        BY <1>5, Zenon DEF Shown
      <4>6. Shown(t) = l.got \cup {listing[t].sent[k].name : k \in 1 .. len}
        BY <1>4, Zenon DEF Shown
      <4> QED
        BY <4>4, <4>5, <4>6
    <3>5. Shown(t)' = NamesOf(UsedBelow(i + 1))
      <4>1. NamesOf(UsedBelow(i) \cup {i}) =
              NamesOf(UsedBelow(i)) \cup {boxes[i].name}
        BY DEF NamesOf
      <4> QED
        BY <3>1, <3>2, <3>3, <3>4, <4>1
    <3>6. (LastSent(t)' <=> e.last) /\ \A j \in 1 .. len : ~l.sent[j].last
      <4>1. LastSent(t)' <=> \E j \in 1 .. Len(l.sent) : l.sent[j].last
        BY <1>5, Zenon DEF LastSent
      <4>2. \A j \in 1 .. len : ~l.sent[j].last
        BY <1>3, <3>1 DEF LastSent
      <4>3. /\ len + 1 \in 1 .. Len(l.sent)
            /\ \A j \in 1 .. Len(l.sent) : j \in 1 .. len \/ j = len + 1
        BY <1>3
      <4> QED
        BY <1>3, <4>1, <4>2, <4>3
    <3>7. e.last => Shown(t)' = BoxNames
      <4>1. e.last => Cardinality(UsedBelow(i + 1)) = Cardinality(Used)
        BY <1>6, <2>2, <3>2, <3>3 DEF Settled
      <4>2. e.last => UsedBelow(i + 1) = Used
        BY <4>1, UsedBelowEnds
      <4> QED
        BY <2>2, <3>5, <4>2, UsedNames
    <3>8. \A j \in 1 .. Len(l.sent) :
            /\ l.sent[j].name # NoName /\ ~l.sent[j].short
            /\ l.sent[j].last => j = Len(l.sent) /\ Shown(t)' = BoxNames
      <4>1. ASSUME NEW j \in 1 .. Len(l.sent)
            PROVE  j \in 1 .. len \/ j = len + 1
        BY <1>3
      <4> QED
        BY <1>3, <3>1, <3>2, <3>6, <3>7, <4>1
    <3>9. /\ frame'[t].last <=> frame'[t].n = num_boxes
          /\ LastSent(t)' <=> frame'[t].n = num_boxes
      BY <1>6, <3>1, <3>2, <3>6
    <3>10. /\ BoxNames' = BoxNames
           /\ \A k : UsedBelow(k)' = UsedBelow(k)
           /\ \A k : NamesOf(UsedBelow(k))' = NamesOf(UsedBelow(k))
      BY <1>7, ListChangesNothing
    <3>11. /\ Shown(t)' = NamesOf(UsedBelow(frame[t].i))'
           /\ frame'[t].n = Cardinality(UsedBelow(frame[t].i))'
      BY <1>6, <3>3, <3>5, <3>10
    <3>12. ScannedSent(t)'
      BY <1>1, <1>5, <2>3, <3>8, <3>9, <3>10, <3>11 DEF ScannedSent
    <3> QED
      BY <2>3, <2>5, <3>12
  <2> QED
    BY <2>4, <2>5
<1>9. ListInv(t)' /\ Exact(t)'
  BY <1>1, <1>4, <1>5, <1>8 DEF ListInv, Exact, ListPCs
<1> QED
  BY <1>1, <1>4, <1>9, ListTypes DEF ListStep

LEMMA ListPipeClosedKeeps ==
    ASSUME ListsInv, NEW t \in Threads, StepType(t), ListPipeClosed(t)
    PROVE  ListStep(t)
<1>1. pc[t] = "l_send" /\ pc'[t] = "closing" /\ listing' = listing
  BY CloseServerType, ListTypes DEF ListPipeClosed, others
<1>2. List(t)
  BY DEF List
<1>3. Shown(t)' = Shown(t) /\ LastSent(t)' = LastSent(t)
  BY <1>1 DEF Shown, LastSent
<1>4. ASSUME Reading(t)'
      PROVE  /\ Stable' /\ listing'[t].names = BoxNames'
             /\ IF num_boxes' = 0 THEN NoneSent(t)' ELSE ScannedSent(t)'
  <2>1. Reading(t)
    BY <1>1, <1>2, <1>4, ListChangesNothing DEF Reading
  <2>2. /\ Stable /\ listing[t].names = BoxNames
        /\ IF num_boxes = 0 THEN NoneSent(t) ELSE ScannedSent(t)
    BY <2>1, ListTypes DEF ListInv
  <2>3. NoneSent(t) => NoneSent(t)'
    BY <1>1 DEF NoneSent
  <2>4. ScannedSent(t) => ScannedSent(t)'
    BY <1>1, <1>2, <1>3, ListChangesNothing DEF ScannedSent
  <2> QED
    BY <1>1, <1>2, <2>2, <2>3, <2>4, ListChangesNothing
<1>5. ListInv(t)' /\ Exact(t)'
  BY <1>1, <1>2, <1>4, ListChangesNothing, ListTypes
     DEF ListInv, Exact, ListPCs
<1> QED
  BY <1>1, <1>5, ListTypes, SameListing DEF ListStep

LEMMA ListEndsKeeps ==
    ASSUME ListsInv, NEW t \in Threads, StepType(t), ListEnds(t)
    PROVE  ListStep(t)
<1>1. /\ pc[t] = "l_scan" /\ pc'[t] = "finish" /\ listing' = listing
      /\ frame[t].i = MaxBoxes + 1
  BY GotoType, ListTypes DEF ListEnds, others, PCs
<1>2. List(t)
  BY DEF List
<1>3. Shown(t)' = Shown(t) /\ LastSent(t)' = LastSent(t)
  BY <1>1 DEF Shown, LastSent
<1>4. ASSUME Reading(t)'
      PROVE  /\ Stable' /\ listing'[t].names = BoxNames'
             /\ IF num_boxes' = 0 THEN NoneSent(t)' ELSE ScannedSent(t)'
  <2>1. Reading(t)
    BY <1>1, <1>2, <1>4, ListChangesNothing DEF Reading
  <2>2. /\ Stable /\ listing[t].names = BoxNames /\ Settled
        /\ IF num_boxes = 0 THEN NoneSent(t) ELSE ScannedSent(t)
    BY <2>1, ListTypes DEF ListInv, Stable
  <2>3. NoneSent(t) => NoneSent(t)'
    BY <1>1, RegistryAssumption DEF NoneSent
  <2>4. ScannedSent(t) => LastSent(t)
    BY <1>1, <2>2, UsedBelowEnds DEF ScannedSent, Settled
  <2>5. ScannedSent(t) => ScannedSent(t)'
    BY <1>1, <1>2, <1>3, <2>4, ListChangesNothing DEF ScannedSent
  <2> QED
    BY <1>1, <1>2, <2>2, <2>3, <2>5, ListChangesNothing
<1>5. ListInv(t)' /\ Exact(t)'
  BY <1>1, <1>2, <1>4, ListChangesNothing, ListTypes
     DEF ListInv, Exact, ListPCs
<1> QED
  BY <1>1, <1>5, ListTypes, SameListing DEF ListStep

LEMMA ListKeepsLists ==
    ASSUME ListsInv, NEW t \in Threads, StepType(t), List(t)
    PROVE  ListingOK' /\ \A u \in Threads : ListInv(u)' /\ Exact(u)'
<1>1. ListStep(t)
  BY ListOpensKeeps, ListSkipsKeeps, ListCopiesKeeps, ListSendsKeeps,
     ListPipeClosedKeeps, ListEndsKeeps DEF List
<1>2. /\ UNCHANGED <<boxes, num_boxes, changes>>
      /\ \A u \in Threads \ {t} : pc'[u] = pc[u] /\ frame'[u] = frame[u]
      /\ pc'[t] \notin Changing
  BY ListChangesNothing DEF Changing
<1> QED
  BY <1>1, <1>2, OwnListSuffices DEF ListStep

-----------------------------------------------------------------------------
(* The manager.                                                            *)

\* A manager that reads leaves the tables and the threads alone.
LEMMA ManagerChangesNothing ==
    ASSUME NEW t \in Threads, Manager(t)
    PROVE  /\ UNCHANGED <<boxes, num_boxes, changes, pc, frame>>
           /\ BoxNames' = BoxNames /\ (Stable => Stable')
           /\ \A k : UsedBelow(k)' = UsedBelow(k)
           /\ \A k : NamesOf(UsedBelow(k))' = NamesOf(UsedBelow(k))
<1>1. UNCHANGED <<boxes, num_boxes, changes, pc, frame>>
  BY DEF Manager, ManagerReads, ManagerAtEnd, registry, tables
<1>2. BoxNames' = BoxNames /\ Used' = Used /\ (Settled => Settled')
  BY <1>1 DEF BoxNames, Used, Settled, Agrees
<1>3. \A k : UsedBelow(k)' = UsedBelow(k)
  BY <1>2 DEF UsedBelow
<1>4. \A k : NamesOf(UsedBelow(k))' = NamesOf(UsedBelow(k))
  BY <1>1, <1>3 DEF NamesOf
<1> QED
  BY <1>1, <1>2, <1>3, <1>4 DEF Stable

LEMMA ManagerReadsKeeps ==
    ASSUME ListsInv, NEW t \in Threads, ManagerReads(t)
    PROVE  ListStep(t)
<1> DEFINE s == listing[t].sent
           e == Head(s)
           r == IF e.name = NoName THEN "no boxes"
                ELSE IF e.short THEN "garbled"
                ELSE IF e.last THEN "printed" ELSE "reading"
           g == listing[t].got \cup ({e.name} \ {NoName})
           m == IF listing[t].mark = changes THEN listing[t].mark ELSE -1
           l == [listing[t] EXCEPT !.sent = Tail(s), !.got = g,
                                   !.result = r, !.mark = m]
<1>1. /\ listing[t].result = "reading" /\ s \in Seq(SentEntry) /\ s # <<>>
      /\ listing' = [listing EXCEPT ![t] = l]
  BY ListTypes DEF ManagerReads, ListingOK
<1>2. /\ e \in SentEntry /\ e = s[1] /\ Tail(s) \in Seq(SentEntry)
      /\ Len(s) \in Nat \ {0} /\ Len(Tail(s)) = Len(s) - 1
      /\ \A j \in 1 .. Len(Tail(s)) : Tail(s)[j] = s[j + 1]
  BY <1>1, HeadTailProperties, LenProperties, EmptySeq
<1>3. /\ l \in Listing /\ l.sent = Tail(s) /\ l.got = g /\ l.result = r
      /\ l.mark = m /\ l.names = listing[t].names /\ m <= changes
  <2>1. g \subseteq Names
    BY <1>2, ListTypes DEF Listing, SentEntry
  <2>2. listing[t].mark \in Int /\ changes \in Nat
    BY ListTypes DEF Listing
  <2>3. m \in Int /\ m <= changes
    BY <2>2
  <2> QED
    BY <1>2, <2>1, <2>3, ListTypes DEF Listing
<1>4. listing'[t] = l
  BY <1>1, ListTypes DEF ListingOK
<1>5. Manager(t)
  BY DEF Manager
<1>6. /\ pc'[t] = pc[t] /\ frame'[t] = frame[t] /\ changes' = changes
      /\ num_boxes' = num_boxes /\ pc[t] \in ListPCs
  BY <1>1, <1>5, ManagerChangesNothing, ListTypes DEF ListInv
<1>7. ASSUME l.mark = changes
      PROVE  /\ Stable' /\ listing'[t].names = BoxNames' /\ Exact(t)'
             /\ r = "reading" =>
                  IF num_boxes' = 0 THEN NoneSent(t)' ELSE ScannedSent(t)'
  <2>1. Reading(t)
    BY <1>1, <1>3, <1>7, ListTypes DEF Reading
  <2>2. /\ Stable /\ listing[t].names = BoxNames /\ Settled
        /\ IF num_boxes = 0 THEN NoneSent(t) ELSE ScannedSent(t)
    BY <2>1, ListTypes DEF ListInv, Stable
  <2>3. Stable' /\ listing'[t].names = BoxNames' /\ BoxNames' = BoxNames
    BY <1>3, <1>4, <1>5, <2>2, ManagerChangesNothing
  <2>4. 1 \in 1 .. Len(s)
    BY <1>2
  <2> HIDE DEF l
  <2>5. CASE num_boxes = 0
    <3>1. e.name = NoName /\ listing[t].got = {}
      BY <1>2, <2>2, <2>4, <2>5 DEF NoneSent
    <3>2. r = "no boxes" /\ g = {} /\ BoxNames = {}
      BY <2>2, <2>5, <3>1, UsedNames
    <3> QED
      BY <1>3, <1>4, <2>2, <2>3, <3>2 DEF Exact
  <2>6. CASE num_boxes # 0
    <3>1. /\ ScannedSent(t) /\ e.name # NoName /\ ~e.short
          /\ e.last => 1 = Len(s) /\ Shown(t) = BoxNames
      BY <1>2, <2>2, <2>4, <2>6 DEF ScannedSent
    <3>2. g = listing[t].got \cup {e.name}
      BY <3>1
    <3>3. CASE e.last
      <4>1. {s[j].name : j \in 1 .. Len(s)} = {e.name}
        BY <1>2, <3>1, <3>3
      <4>2. g = BoxNames
        BY <3>1, <3>2, <3>3, <4>1 DEF Shown
      <4>3. r = "printed" /\ BoxNames # {}
        BY <2>2, <2>6, <3>1, <3>3, UsedNames
      <4> QED
        BY <1>3, <1>4, <2>2, <2>3, <4>2, <4>3 DEF Exact
    <3>4. CASE ~e.last
      <4>1. /\ \A j \in 1 .. Len(Tail(s)) :
                 j + 1 \in 1 .. Len(s) /\ Tail(s)[j] = s[j + 1]
            /\ \A j \in 1 .. Len(s) :
                 \/ j = 1
                 \/ j - 1 \in 1 .. Len(Tail(s)) /\ s[j] = Tail(s)[j - 1]
        BY <1>2
      <4>2. {s[j].name : j \in 1 .. Len(s)} =
              {Tail(s)[j].name : j \in 1 .. Len(Tail(s))} \cup {e.name}
        <5>1. ASSUME NEW j \in 1 .. Len(s)
              PROVE  s[j].name \in
                {Tail(s)[k].name : k \in 1 .. Len(Tail(s))} \cup {e.name}
          BY <1>2, <4>1
        <5>2. {Tail(s)[j].name : j \in 1 .. Len(Tail(s))}
                \subseteq {s[j].name : j \in 1 .. Len(s)}
          BY <4>1
        <5>3. e.name \in {s[j].name : j \in 1 .. Len(s)}
          BY <1>2, <2>4
        <5> QED
          BY <5>1, <5>2, <5>3
      <4>3. Shown(t)' = Shown(t)
        <5>1. Shown(t)' =
                l.got \cup {l.sent[j].name : j \in 1 .. Len(l.sent)}
          BY <1>4, Zenon DEF Shown
        <5>2. Shown(t)' =
                g \cup {Tail(s)[j].name : j \in 1 .. Len(Tail(s))}
          BY <1>3, <5>1, Zenon
        <5>3. Shown(t) = listing[t].got \cup {s[j].name : j \in 1 .. Len(s)}
          BY Zenon DEF Shown
        <5> QED
          BY <3>2, <4>2, <5>2, <5>3
      <4>4. LastSent(t)' <=> LastSent(t)
        <5>1. LastSent(t)' <=> \E j \in 1 .. Len(l.sent) : l.sent[j].last
          BY <1>4, Zenon DEF LastSent
        <5>2. LastSent(t)' <=>
                \E j \in 1 .. Len(Tail(s)) : Tail(s)[j].last
          BY <1>3, <5>1, Zenon
        <5>3. LastSent(t) <=> \E j \in 1 .. Len(s) : s[j].last
          BY Zenon DEF LastSent
        <5> QED
          BY <1>2, <3>4, <4>1, <5>2, <5>3
      <4>5. \A j \in 1 .. Len(Tail(s)) :
              /\ Tail(s)[j].name # NoName /\ ~Tail(s)[j].short
              /\ Tail(s)[j].last =>
                   j = Len(Tail(s)) /\ Shown(t) = BoxNames
        <5>1. \A j \in 1 .. Len(s) :
                /\ s[j].name # NoName /\ ~s[j].short
                /\ s[j].last => j = Len(s) /\ Shown(t) = BoxNames
          BY <3>1 DEF ScannedSent
        <5> QED
          BY <1>2, <4>1, <5>1
      <4>6. /\ \A k : UsedBelow(k)' = UsedBelow(k)
            /\ \A k : NamesOf(UsedBelow(k))' = NamesOf(UsedBelow(k))
            /\ Used' = Used /\ boxes' = boxes
        BY <1>5, ManagerChangesNothing DEF Used
      <4>7. \A j \in 1 .. Len(listing'[t].sent) :
              LET f == listing'[t].sent[j]
              IN  /\ f.name # NoName /\ ~f.short
                  /\ f.last => /\ j = Len(listing'[t].sent)
                               /\ Shown(t)' = BoxNames'
        BY <1>3, <1>4, <2>3, <4>3, <4>5
      <4>8. ScannedSent(t)'
        BY <1>6, <3>1, <4>3, <4>4, <4>6, <4>7 DEF ScannedSent
      <4>9. r = "reading"
        BY <3>1, <3>4
      <4> QED
        BY <1>3, <1>4, <1>6, <2>3, <2>6, <4>8, <4>9 DEF Exact
    <3> QED
      BY <3>3, <3>4
  <2> QED
    BY <2>5, <2>6
<1>8. ListInv(t)'
  BY <1>3, <1>4, <1>6, <1>7, ListTypes DEF ListInv, Reading
<1>9. Exact(t)'
  BY <1>4, <1>6, <1>7 DEF Exact
<1> QED
  BY <1>1, <1>3, <1>8, <1>9 DEF ListStep

\* The list ends before an entry was the last only if it changed.
LEMMA ManagerAtEndKeeps ==
    ASSUME ListsInv, NEW t \in Threads, ManagerAtEnd(t)
    PROVE  ListStep(t)
<1> DEFINE m == IF listing[t].mark = changes THEN listing[t].mark ELSE -1
           l == [listing[t] EXCEPT !.result = "failed", !.mark = m]
<1>1. /\ listing[t].result = "reading" /\ listing[t].sent = <<>>
      /\ pc[t] = "idle" /\ listing' = [listing EXCEPT ![t] = l]
  BY ListTypes DEF ManagerAtEnd, ListingOK
<1>2. ~Reading(t)
  <2>1. Reading(t) =>
          /\ Settled
          /\ IF num_boxes = 0 THEN NoneSent(t) ELSE ScannedSent(t)
    BY ListTypes DEF ListInv, Stable
  <2>2. ~NoneSent(t)
    BY <1>1 DEF NoneSent
  <2>3. 1 .. Len(listing[t].sent) = {}
    BY <1>1
  <2>4. ~ScannedSent(t)
    BY <1>1, <2>3 DEF ScannedSent, LastSent
  <2> QED
    BY <2>1, <2>2, <2>4
<1>3. l \in Listing /\ l.mark = -1 /\ l.result = "failed"
  <2>1. m = -1 /\ -1 \in Int
    BY <1>1, <1>2 DEF Reading
  <2> HIDE DEF m
  <2> QED
    BY <2>1, ListTypes DEF Listing
<1>4. listing'[t] = l
  BY <1>1, ListTypes DEF ListingOK
<1>5. UNCHANGED <<changes, pc, frame>> /\ changes \in Nat
  BY ManagerChangesNothing, ListTypes DEF Manager
<1> HIDE DEF l, m
<1>6. l.mark <= changes /\ listing'[t].mark # changes'
  BY <1>3, <1>4, <1>5
<1>7. ListInv(t)' /\ Exact(t)'
  BY <1>1, <1>3, <1>4, <1>5, <1>6 DEF ListInv, Exact, Reading
<1> QED
  BY <1>1, <1>3, <1>6, <1>7 DEF ListStep

LEMMA ManagerKeepsLists ==
    ASSUME ListsInv, NEW t \in Threads, Manager(t)
    PROVE  ListingOK' /\ \A u \in Threads : ListInv(u)' /\ Exact(u)'
<1>1. ListStep(t)
  BY ManagerReadsKeeps, ManagerAtEndKeeps DEF Manager
<1>2. UNCHANGED <<boxes, num_boxes, changes, pc, frame>>
  BY ManagerChangesNothing
<1> QED
  BY <1>1, <1>2, OwnListSuffices DEF ListStep

-----------------------------------------------------------------------------
LEMMA InitLists == Init => ListsInv
<1> SUFFICES ASSUME Init PROVE ListsInv
  OBVIOUS
<1>1. SetInv /\ \A t \in Threads : listing[t] = NoListing /\ pc[t] = "idle"
  BY InitSet DEF Init
<1>2. listing \in [Threads -> Listing] /\ changes = 0
  BY NoListingType DEF Init
<1>3. ListingOK
  BY <1>1, <1>2, NoListingType DEF ListingOK
<1>4. \A t \in Threads : ListInv(t) /\ Exact(t)
  BY <1>1, NoListingType DEF ListInv, Exact, Reading
<1> QED
  BY <1>1, <1>3, <1>4 DEF ListsInv

LEMMA NextLists ==
    ASSUME ListsInv, [Next]_vars
    PROVE  ListsInv'
<1>1. SetInv /\ Inv /\ TypeOK /\ \A u \in Threads : NameInv(u)
  BY DEF ListsInv, SetInv, Inv, RegistryInv
<1>2. SetInv'
  BY <1>1, NextSet
<1>3. CASE UNCHANGED vars
  <2>1. UNCHANGED <<listing, changes, num_boxes, boxes, pc, frame>>
    BY <1>3 DEF vars, registry, tables, others
  <2>2. ListingOK' /\ NamesKept
    BY <2>1 DEF ListsInv, ListingOK, NamesKept
  <2>3. \A u \in Threads : ListInv(u)' /\ Exact(u)'
    BY <2>1, <2>2, ListKept
  <2> QED
    BY <1>2, <2>2, <2>3 DEF ListsInv
<1>4. CASE Next
  <2>1. PICK t \in Threads :
          \/ Dequeue(t) \/ Finish(t) \/ OpenFails(t) \/ AnswerFails(t)
          \/ OpenBlocks(t) \/ NullBox(t) \/ Register(t) \/ Publish(t)
          \/ Subscribe(t) \/ Create(t) \/ Remove(t) \/ List(t) \/ Manager(t)
    BY <1>4 DEF Next
  <2>2. StepType(t)
    BY <1>1, <2>1, OtherType, RegisterType, PublishType, SubscribeType,
       CreateType, RemoveType, ListType, ManagerType
  <2>3. ASSUME \/ Finish(t) \/ OpenFails(t) \/ AnswerFails(t) \/ NullBox(t)
               \/ Register(t) \/ Publish(t) \/ Subscribe(t) \/ Create(t)
               \/ Remove(t)
        PROVE  Unlisted(t)
    <3>1. ASSUME \/ Finish(t) \/ OpenFails(t) \/ NullBox(t) \/ Register(t)
                 \/ Publish(t) \/ Subscribe(t)
          PROVE  Quiet(t)
      BY <1>1, <3>1, OtherIsQuiet, RegisterIsQuiet, PublishIsQuiet,
         SubscribeIsQuiet
    <3> QED
      BY <1>1, <2>3, <3>1, OtherIsUnlisted, AnswerFailsIsUnlisted,
         RegisterIsUnlisted, PublishIsUnlisted, SubscribeIsUnlisted,
         CreateIsUnlisted, RemoveIsUnlisted
  <2>4. ListingOK' /\ \A u \in Threads : ListInv(u)' /\ Exact(u)'
    BY <1>1, <2>1, <2>2, <2>3, UnlistedPreserves, DequeueKeepsLists,
       ListKeepsLists, ManagerKeepsLists, OpenBlocksKeepsLists
  <2> QED
    BY <1>2, <2>4 DEF ListsInv
<1> QED
  BY <1>3, <1>4

\* While no change of the registry has begun since a list was, what its
\* manager has read and is to read are the names in the slots that the
\* thread has passed, and the last of them is marked.
THEOREM ListsInvHolds == Spec => []ListsInv
<1>1. ListsInv /\ [Next]_vars => ListsInv'
  BY NextLists
<1> QED
  BY <1>1, InitLists, PTL DEF Spec

\* For any number of threads, slots and names: although handle_tfs_list_boxes
\* reads the tables without boxes_lock, a manager whose list no creation and
\* no removal overlaps is shown every box and nothing else, or that there are
\* none.
THEOREM ListsAreExact == Spec => []ListExact
<1>1. ListsInv => ListExact
  BY DEF ListsInv, Exact, ListExact
<1> QED
  BY <1>1, ListsInvHolds, PTL

=============================================================================
