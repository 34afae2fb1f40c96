------------------------------ MODULE MCPrpList ------------------------------
(* PrpList for TLC: transfers and cuts of small size.                      *)
EXTENDS PrpList

Transfer(k, n, o, m) == [kind |-> k, bytes |-> n, offset |-> o, meta |-> m]

(* Page-aligned buffers of every length up to two list pages, user and     *)
(* physical, and unaligned user buffers that one command transfers.        *)
SlicedTransfers ==
  {Transfer(k, n * BlockSize, 0, "none") : n \in 1 .. 2 * E, k \in Sliced}
    \cup {Transfer("chario", n * BlockSize, o, "none") :
             n \in 1 .. REQ_MAX_BLOCKS, o \in 1 .. PageSize - 1}
    \cup {Transfer(k, BlockSize, 0, "bad") : k \in Sliced}

(* Commands with buffers of any length: a list of three pages in kernel    *)
(* memory, one of two in a program's, and none.                            *)
SingleTransfers ==
  {Transfer("kernel", n, o, "none") :
     n \in 1 .. (2 * E + 1) * PageSize, o \in 0 .. PageSize - 1}
    \cup {Transfer("user_cmd", n, o, "none") :
             n \in 0 .. (E + 2) * PageSize, o \in 0 .. PageSize - 1}
    \cup {Transfer("submit_io", n * BlockSize, o, m) :
             n \in 1 .. E + 1, o \in 0 .. PageSize - 1, m \in {"none", "buffer"}}
    \cup {Transfer(k, BlockSize, 0, "bad") : k \in {"kernel", "submit_io"}}

(* Block requests: with the iod in the request and outside, and with a     *)
(* list of two pages.                                                      *)
BlockTransfers ==
  {Transfer("rw", n * BlockSize, o, m) :
     n \in {1, 2, 3, E + 1}, o \in 0 .. PageSize - 1, m \in {"none", "bad", "buffer"}}
    \cup {Transfer("discard", E * BlockSize, 0, m) : m \in {"none", "bad"}}
    \cup {Transfer("flush", 0, 0, m) : m \in {"none", "bad"}}

SmallTransfers == SlicedTransfers \cup SingleTransfers \cup BlockTransfers

AllBreaks(n) == SUBSET (1 .. n - 1)
=============================================================================
