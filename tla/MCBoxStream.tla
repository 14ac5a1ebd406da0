---------------------------- MODULE MCBoxStream -----------------------------
(* BoxStream for TLC.  Frames of 3 bytes and messages of 2 and 3 (one and   *)
(* two characters and the '\0') stand for 1023: a frame can hold one        *)
(* message and the start of the next.                                      *)
EXTENDS BoxStream

CONSTANTS pub, sub1, sub2, none

OneSubscriber  == {sub1}
TwoSubscribers == {sub1, sub2}
ShortAndLong   == {2, 3}
=============================================================================
