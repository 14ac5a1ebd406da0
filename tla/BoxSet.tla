------------------------------- MODULE BoxSet -------------------------------
(***************************************************************************)
(* What the managers of mbroker may rely on: the boxes are a set of names, *)
(* and a request to create or to remove one takes effect in a single step, *)
(* at which its outcome (the return_code that the manager is to be sent)   *)
(* is decided by the boxes there are.  No request is carried out twice or  *)
(* half.                                                                   *)
(***************************************************************************)
EXTENDS Integers, FiniteSets

CONSTANTS
    Servers,    \* the session threads, each with one request at a time
    Names,      \* box names
    MaxBoxes    \* MAX_BOXES

VARIABLES
    present,    \* the names of the boxes
    decided     \* what each thread has decided and not yet answered

vars == <<present, decided>>

Undecided == [op |-> "none"]
Outcome(op, name, code) == [op |-> op, name |-> name, code |-> code]

Init == present = {} /\ decided = [t \in Servers |-> Undecided]

Decide(t, op, name, code) ==
    /\ decided[t] = Undecided
    /\ decided' = [decided EXCEPT ![t] = Outcome(op, name, code)]

Create(t, n) ==
    /\ n \notin present
    /\ present' = present \cup {n}
    /\ Decide(t, "create", n, 0)

\* "Box already exists", "Reached max number of boxes".
CreateRefused(t, n) ==
    /\ n \in present \/ Cardinality(present) = MaxBoxes
    /\ Decide(t, "create", n, -1)
    /\ UNCHANGED present

Remove(t, n) ==
    /\ n \in present
    /\ present' = present \ {n}
    /\ Decide(t, "remove", n, 0)

\* "Box does not exist".
RemoveRefused(t, n) ==
    /\ n \notin present
    /\ Decide(t, "remove", n, -1)
    /\ UNCHANGED present

\* The answer is sent, or lost with the pipe of the manager.
Answer(t) ==
    /\ decided[t] # Undecided
    /\ decided' = [decided EXCEPT ![t] = Undecided]
    /\ UNCHANGED present

Next == \E t \in Servers :
    \/ \E n \in Names : \/ Create(t, n) \/ CreateRefused(t, n)
                        \/ Remove(t, n) \/ RemoveRefused(t, n)
    \/ Answer(t)

Spec == Init /\ [][Next]_vars
=============================================================================
