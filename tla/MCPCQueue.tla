----------------------------- MODULE MCPCQueue ------------------------------
(* PCQueue for TLC.  A size_t has 8 values instead of 2^64: enough for the  *)
(* size to wrap below zero and be told from every size of a legal queue.    *)
EXTENDS PCQueue, TLC

CONSTANTS main, s1, s2, none

OneProducer == {main}
OneSession  == {s1}
TwoSessions == {s1, s2}

\* The sessions are interchangeable in the safety runs.
SessionSymmetry == Permutations(TwoSessions)
=============================================================================
