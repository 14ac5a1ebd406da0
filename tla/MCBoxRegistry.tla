--------------------------- MODULE MCBoxRegistry ----------------------------
(* BoxRegistry for TLC: two slots, a name more, and room for a file less,  *)
(* as the root directory takes one of the MAX_BOXES inodes of TecnicoFS.   *)
EXTENDS BoxRegistry, TLC

CONSTANTS box1, box2, box3, empty, none

OneName  == {box1}
TwoNames == {box1, box2}
ThreeNames == {box1, box2, box3}
NameSymmetry == Permutations(ThreeNames)

AllOpcodes       == {"pub", "sub", "create", "remove", "list"}
PublisherOpcodes == {"pub", "create"}
=============================================================================
