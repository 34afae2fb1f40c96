-------------------------- MODULE MCCharioTransfer --------------------------
(* Instances of CharioTransfer for TLC.                                    *)
EXTENDS CharioTransfer

(* The shortest transfer, one whose second command is shorter than         *)
(* REQ_MAX_BLOCKS, and the longest one that fits the tag array.            *)
FittingNBlocks == {0, REQ_MAX_BLOCKS, REQ_MAX_BLOCKS * NTags - 1}
=============================================================================
