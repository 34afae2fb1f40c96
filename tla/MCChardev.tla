------------------------------ MODULE MCChardev ------------------------------
(* Chardev for TLC: blocks of 2 bytes, transfers of 2 blocks.              *)
EXTENDS Chardev, TLC

CONSTANTS t1, t2

TwoThreads == {t1, t2}

ThreadSymmetry == Permutations(TwoThreads)

BlockCounts == {0, 2, 6}
BlockPositions == {-2, 0, 2}

DriverResults == {0, 6, -12}
ErrorCodes == {EIO, EINVAL, ESPIPE, -12}
=============================================================================
