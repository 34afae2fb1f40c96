------------------------------ MODULE PrpList -------------------------------
(***************************************************************************)
(* How a transfer's buffer becomes the PRP entries of its commands:        *)
(* nvme_map_user_pages (or nvme_map_kernel_pages) maps the buffer,         *)
(* nvme_setup_prps (or nvme_setup_phys_prps) writes one PRP list for all   *)
(* of it into pages of a DMA pool, the loop of nvme_submit_io_chario       *)
(* (_phys) gives each command a slice of that list, and the unmap path     *)
(* gives everything back.  The pass-through ioctls, the sysfs test and     *)
(* block requests (nvme_queue_rq) send the whole list with one command,    *)
(* and may have a metadata buffer.                                         *)
(*                                                                         *)
(* Lengths and bus addresses are counted in a unit that divides the page.  *)
(* A 64-bit entry is <<"data", address, 0>>, <<"list", p, k>> (the address *)
(* of entry k of pool page p), or Garbage.                                 *)
(***************************************************************************)
EXTENDS Integers, Sequences, FiniteSets, FiniteSetsExt

CONSTANTS
  E,              \* entries in a list page, page_size / 8
  REQ_MAX_BLOCKS, \* blocks in one command
  SmallEntries,   \* entries in a block of prp_small_pool, 256 / 8
  INT_PAGES,      \* the largest request whose iod is part of the request
  PageSize,       \* units in a page
  BlockSize,      \* units in a block, 1 << lba_shift
  Transfers,      \* the transfers
  Breaks(_)       \* where a buffer of n pages may be cut into segments

(* The function that makes the transfer.                                   *)
Sliced == {"chario", "phys"}
Single == {"submit_io", "kernel", "user_cmd"}
Block == {"rw", "discard", "flush"}       \* nvme_queue_rq

(* bytes counts metadata that is interleaved with the data.  meta is a     *)
(* separate buffer for metadata; it is "bad" when the blocks have metadata *)
(* and the address is null, as in every request of chario.c, or not        *)
(* aligned, or when a block request has no integrity data.                 *)
Requests == [kind : Sliced \cup Single \cup Block, bytes : Nat,
             offset : 0 .. PageSize - 1, meta : {"none", "bad", "buffer"}]

ASSUME PrpAssumption ==
  /\ E \in Nat \ {0, 1} /\ REQ_MAX_BLOCKS \in Nat \ {0, 1, 2}
  /\ SmallEntries \in 1 .. E /\ INT_PAGES \in Nat \ {0}
  /\ PageSize \in Nat \ {0} /\ BlockSize \in 1 .. PageSize
  /\ Transfers \subseteq Requests
  /\ \A r \in Transfers :
       /\ r.kind \in Sliced => r.bytes % BlockSize = 0
       /\ r.meta = "buffer" => r.kind \in {"submit_io", "rw"}
       /\ r.kind = "user_cmd" => r.meta = "none"
       /\ r.bytes = 0 => r.kind \in {"user_cmd", "flush"}

VARIABLES
  pc,
  io, cuts,             \* the transfer, and the cuts between its segments
  count, pinned,        \* pages to put back; pages pinned
  held,                 \* iod, DMA mapping, metadata and pool pages: [what, page]
  length, dma_len, dma_addr, sg,    \* locals of nvme_setup_prps
  npages, first_dma, list,          \* fields of the iod
  mem,                  \* contents of the pool pages
  i,                    \* next free entry; in nvme_free_iod, next page
  remaining_blocks, remaining_pages, page_count, prp1_offset, prp1, prp2,
  cmd,                  \* the last command put on the queue
  prp_dma               \* local of nvme_free_iod

transferVars == <<io, cuts>>
walkVars == <<length, dma_len, dma_addr, sg>>
iodVars == <<npages, first_dma, list>>
sliceVars == <<remaining_blocks, remaining_pages, page_count, prp1_offset,
               prp1, prp2, cmd>>
vars == <<pc, transferVars, count, pinned, held, walkVars, iodVars, mem, i,
          sliceVars, prp_dma>>

Garbage == <<"garbage", 0, 0>>
NoCmd == [from |-> 0, bytes |-> 0, prp1 |-> Garbage, prp2 |-> Garbage]
NoTransfer == [kind |-> "chario", bytes |-> 0, offset |-> 0, meta |-> "none"]
DivRoundUp(a, b) == (a + b - 1) \div b

(* Pointer arithmetic on a bus address, in entries.                        *)
Advance(v, n) == <<v[1], v[2], v[3] + n>>

-----------------------------------------------------------------------------
(* The buffer.  Its pages are consecutive on the bus but for the cuts.  A  *)
(* physical or kernel buffer has none.  A segment is named by its first    *)
(* page.                                                                   *)
Bytes == io.bytes
Blocks == io.bytes \div BlockSize
Pinned == io.kind \in {"chario", "submit_io", "user_cmd"}
Phys == io.kind = "phys"
Pages == DivRoundUp(io.offset + Bytes, PageSize)
PageAddr(k) == PageSize * (k + Cardinality({c \in cuts : c <= k}))

sg_next(k) == Min({c \in cuts \cup {Pages} : c > k})
sg_dma_address(k) == PageAddr(k) + IF k = 0 THEN io.offset ELSE 0
sg_dma_len(k) == Min({io.offset + Bytes, PageSize * sg_next(k)})
                   - (PageSize * k + IF k = 0 THEN io.offset ELSE 0)

nvme_npages(size) == DivRoundUp(DivRoundUp(size + PageSize, PageSize), E - 1)

(* The size of the buffer the iod is for: a discard's is one range, here a *)
(* unit.                                                                   *)
IodBytes == IF io.kind = "discard" THEN 1 ELSE Bytes

(* A small block request has its iod in its own memory (NVME_INT_MASK).    *)
Internal ==
  /\ io.kind \in Block
  /\ Cardinality(cuts) + 1 <= INT_PAGES /\ IodBytes <= INT_PAGES * PageSize

(* prp_list[c][k], and what is read beyond the page or the list.           *)
PrpEntry(c, k) ==
  IF c + 1 \in DOMAIN list /\ k \in DOMAIN mem[list[c + 1]]
  THEN mem[list[c + 1]][k]
  ELSE Garbage

-----------------------------------------------------------------------------
Init ==
  /\ pc = "idle"
  /\ io = NoTransfer /\ cuts = {}
  /\ pinned = 0 /\ held = {}
  /\ count = 0 /\ mem = << >> /\ i = 0
  /\ length = 0 /\ dma_len = 0 /\ dma_addr = 0 /\ sg = 0
  /\ npages = -1 /\ first_dma = Garbage /\ list = << >>
  /\ remaining_blocks = 0 /\ remaining_pages = 0 /\ page_count = 0
  /\ prp1_offset = -1 /\ prp1 = Garbage /\ prp2 = Garbage /\ cmd = NoCmd
  /\ prp_dma = Garbage

(* A transfer begins.  Bad metadata is refused.                            *)
Enter(kind, place) ==
  /\ pc = "idle"
  /\ io' \in {r \in Transfers : r.kind = kind}
  /\ cuts' \in IF Pinned' \/ io'.kind = "rw" THEN Breaks(Pages') ELSE {{}}
  /\ pc' = IF io'.meta = "bad" THEN "return" ELSE place
  /\ UNCHANGED <<count, pinned, held, walkVars, iodVars, mem, i, sliceVars,
                 prp_dma>>

EnterChario == Enter("chario", "pin")

EnterCharioPhys == Enter("phys", "alloc_iod")

EnterSubmitIo == Enter("submit_io", "pin")

EnterKernel == Enter("kernel", "alloc_iod")

(* A pass-through command need not have data.                              *)
EnterUserCmd ==
  \/ Enter("user_cmd", "pin") /\ Bytes' # 0
  \/ Enter("user_cmd", "send") /\ Bytes' = 0

nvme_queue_rq == \E kind \in Block : Enter(kind, "alloc_iod")

(* get_user_pages_fast pins all the pages, or fewer.                       *)
GetUserPages ==
  /\ pc = "pin"
  /\ \E n \in {0, 1, Pages - 1, Pages} :
       /\ n \in 0 .. Pages
       /\ pinned' = n /\ count' = n
       /\ pc' = IF n < Pages THEN "put_pages" ELSE "alloc_iod"
  /\ UNCHANGED <<transferVars, held, walkVars, iodVars, mem, i, sliceVars,
                 prp_dma>>

(* The iod is allocated and the scatter list mapped; either may fail.      *)
MapIod(failed) ==
  /\ \/ /\ held' = {[what |-> "iod", page |-> 0], [what |-> "dma", page |-> 0]}
        /\ pc' = "setup"
     \/ /\ held' = {}
        /\ pc' = failed
  /\ UNCHANGED <<transferVars, count, pinned, walkVars, iodVars, mem, i,
                 sliceVars, prp_dma>>

AllocIod == pc = "alloc_iod" /\ Pinned /\ MapIod("put_pages")

(* nvme_map_kernel_pages: one segment, and no pages to pin.                *)
AllocKernelIod == pc = "alloc_iod" /\ io.kind = "kernel" /\ MapIod("return")

(* nvme_map_phys_pages: only the iod is allocated.                         *)
AllocPhysIod ==
  /\ pc = "alloc_iod" /\ Phys
  /\ \/ /\ held' = {[what |-> "iod", page |-> 0]}
        /\ pc' = "setup"
     \/ /\ held' = {}
        /\ pc' = "return"
  /\ UNCHANGED <<transferVars, count, pinned, walkVars, iodVars, mem, i,
                 sliceVars, prp_dma>>

PutPages ==
  /\ pc = "put_pages"
  /\ pc' = "return"
  /\ pinned' = pinned - count
  /\ UNCHANGED <<transferVars, count, held, walkVars, iodVars, mem, i,
                 sliceVars, prp_dma>>

-----------------------------------------------------------------------------
(* dma_pool_alloc hands out a block with whatever it last contained.       *)
PoolAlloc(pool) ==
  LET p == Len(mem) + 1
      entries == IF pool = "small" THEN SmallEntries ELSE E
  IN  /\ mem' = Append(mem, [k \in 0 .. entries - 1 |-> Garbage])
      /\ held' = held \cup {[what |-> pool, page |-> p]}
      /\ list' = Append(list, p)

(* Bytes after those of the first page.                                    *)
Rest == Bytes - (PageSize - io.offset)

(* The first return: PRP1 alone describes the buffer.                      *)
OnePage ==
  /\ Rest <= 0
  /\ pc' = "slice"
  /\ UNCHANGED <<held, walkVars, iodVars, mem, i>>

(* A bug: one entry more than the block holds.                             *)
UseSmallPoolOneMore == DivRoundUp(Rest, PageSize) <= SmallEntries + 1

UseSmallPool == DivRoundUp(Rest, PageSize) <= SmallEntries

(* From the second return to the loop.  The next page of the buffer is at  *)
(* addr in segment s, len bytes before the segment's end.  snd is what     *)
(* PRP2 is set to when there is no list.                                   *)
SecondPage(s, addr, len, snd) ==
  /\ Rest > 0
  /\ length' = Rest /\ sg' = s /\ dma_addr' = addr /\ dma_len' = len
  /\ i' = 0
  /\ \/ /\ Rest <= PageSize
        /\ first_dma' = <<"data", snd, 0>>
        /\ pc' = "slice"
        /\ UNCHANGED <<held, npages, list, mem>>
     \/ /\ Rest > PageSize
        /\ PoolAlloc(IF UseSmallPool THEN "small" ELSE "page")
        /\ npages' = IF UseSmallPool THEN 0 ELSE 1
        /\ first_dma' = <<"list", Len(mem) + 1, 0>>
        /\ pc' = "fill"
     \/ /\ Rest > PageSize                \* the allocation fails
        /\ first_dma' = <<"data", snd, 0>>
        /\ pc' = "unmap"
        /\ UNCHANGED <<held, npages, list, mem>>

SetupPrps ==
  /\ pc = "setup" /\ ~Phys
  /\ LET left == sg_dma_len(0) - (PageSize - io.offset)
         next == sg_dma_address(0) + (PageSize - io.offset)
         s == sg_next(0)
     IN  \/ OnePage
         \/ left # 0 /\ SecondPage(0, next, left, next)
         \/ left = 0 /\ SecondPage(s, sg_dma_address(s), sg_dma_len(s),
                                   sg_dma_address(s))
  /\ UNCHANGED <<transferVars, count, pinned, sliceVars, prp_dma>>

(* Every entry of a physical buffer keeps the offset of the first.         *)
SetupPhysPrps ==
  /\ pc = "setup" /\ Phys
  /\ \/ OnePage
     \/ SecondPage(0, sg_dma_address(0) + PageSize, Rest,
                   sg_dma_address(0) + PageSize)
  /\ UNCHANGED <<transferVars, count, pinned, sliceVars, prp_dma>>

(* An iteration of the loop that writes the list.  When the page is full a *)
(* new one takes over its last entry, which becomes the link.              *)
WriteEntry ==
  \/ /\ i # E
     /\ mem' = [mem EXCEPT ![Len(mem)][i] = <<"data", dma_addr, 0>>]
     /\ i' = i + 1
     /\ UNCHANGED <<held, npages, list>>
  \/ /\ i = E
     /\ LET old == Len(mem)
            new == [k \in 0 .. E - 1 |->
                      CASE k = 0 -> mem[old][E - 1]
                        [] k = 1 -> <<"data", dma_addr, 0>>
                        [] OTHER -> Garbage]
        IN  /\ mem' = Append([mem EXCEPT ![old][E - 1] = <<"list", old + 1, 0>>],
                             new)
            /\ held' = held \cup {[what |-> "page", page |-> old + 1]}
            /\ list' = Append(list, old + 1)
     /\ npages' = npages + 1
     /\ i' = 2

(* The page after this one: in the same segment, or the next one.          *)
FillPrps ==
  /\ pc = "fill" /\ ~Phys
  /\ WriteEntry
  /\ length' = length - PageSize
  /\ LET left == dma_len - PageSize
     IN  \/ /\ length' <= 0
            /\ pc' = "slice"
            /\ dma_len' = left /\ dma_addr' = dma_addr + PageSize
            /\ UNCHANGED sg
         \/ /\ length' > 0 /\ left > 0
            /\ dma_len' = left /\ dma_addr' = dma_addr + PageSize
            /\ UNCHANGED <<pc, sg>>
         \/ /\ length' > 0 /\ left = 0         \* BUG_ON(dma_len < 0)
            /\ sg' = sg_next(sg)
            /\ dma_addr' = sg_dma_address(sg') /\ dma_len' = sg_dma_len(sg')
            /\ UNCHANGED pc
  /\ UNCHANGED <<transferVars, count, pinned, first_dma, sliceVars, prp_dma>>

FillPhysPrps ==
  /\ pc = "fill" /\ Phys
  /\ WriteEntry
  /\ length' = length - PageSize
  /\ dma_addr' = dma_addr + PageSize
  /\ dma_len' = IF length' > 0 /\ dma_len = PageSize THEN PageSize
                                                     ELSE dma_len - PageSize
  /\ pc' = IF length' <= 0 THEN "slice" ELSE "fill"
  /\ UNCHANGED <<transferVars, count, pinned, sg, first_dma, sliceVars, prp_dma>>

(* A bug: the short length is not noticed.                                 *)
FillFailsIgnored ==
  /\ pc = "fill" /\ i = E
  /\ pc' = "slice"
  /\ UNCHANGED <<transferVars, count, pinned, held, walkVars, iodVars, mem, i,
                 sliceVars, prp_dma>>

(* The page for the next part of the list cannot be allocated: the length  *)
(* returned is short, and the transfer fails with -ENOMEM.                 *)
FillFails ==
  /\ pc = "fill" /\ i = E
  /\ pc' = "unmap"
  /\ UNCHANGED <<transferVars, count, pinned, held, walkVars, iodVars, mem, i,
                 sliceVars, prp_dma>>

-----------------------------------------------------------------------------
(* The locals of nvme_submit_io_chario before its loop.                    *)
BeginSlicing ==
  /\ pc = "slice" /\ io.kind \in Sliced
  /\ pc' = "submit"
  /\ remaining_blocks' = Blocks - 1
  /\ remaining_pages' = npages
  /\ page_count' = 0 /\ prp1_offset' = -1
  /\ prp1' = <<"data", sg_dma_address(0), 0>>
  /\ prp2' = first_dma
  /\ UNCHANGED <<transferVars, count, pinned, held, walkVars, iodVars, mem, i,
                 cmd, prp_dma>>

(* An iteration of the loop: a command for REQ_MAX_BLOCKS blocks, then the *)
(* PRP registers move on by as many entries, to the next list page when    *)
(* the last entry of this one is the link.                                 *)
NextPrps ==
  \/ /\ prp1_offset = E - REQ_MAX_BLOCKS - 1 /\ remaining_pages > 1
     /\ prp2' = Advance(PrpEntry(page_count, E - 1), 1)
     /\ page_count' = page_count + 1
     /\ prp1_offset' = 0
     /\ prp1' = PrpEntry(page_count + 1, 0)
     /\ remaining_pages' = remaining_pages - 1
  \/ /\ ~(prp1_offset = E - REQ_MAX_BLOCKS - 1 /\ remaining_pages > 1)
     /\ prp1_offset' = prp1_offset + REQ_MAX_BLOCKS
     /\ prp1' = PrpEntry(page_count, prp1_offset + REQ_MAX_BLOCKS)
     /\ prp2' = Advance(prp2, REQ_MAX_BLOCKS)
     /\ UNCHANGED <<page_count, remaining_pages>>

FullCommand ==
  /\ remaining_blocks >= REQ_MAX_BLOCKS
  /\ cmd' = [from |-> (Blocks - 1 - remaining_blocks) * BlockSize,
             bytes |-> REQ_MAX_BLOCKS * BlockSize, prp1 |-> prp1, prp2 |-> prp2]
  /\ remaining_blocks' = remaining_blocks - REQ_MAX_BLOCKS
  /\ NextPrps
  /\ UNCHANGED <<pc, transferVars, count, pinned, held, walkVars, iodVars, mem,
                 i, prp_dma>>

(* The command for what is left.  Two blocks of a longer transfer need a   *)
(* data address in PRP2, not a list.                                       *)
LastCommand ==
  /\ remaining_blocks < REQ_MAX_BLOCKS
  /\ prp2' = IF remaining_blocks = 1 /\ Blocks - 1 > 1
             THEN PrpEntry(page_count, prp1_offset + 1)
             ELSE prp2
  /\ cmd' = [from |-> (Blocks - 1 - remaining_blocks) * BlockSize,
             bytes |-> (remaining_blocks + 1) * BlockSize,
             prp1 |-> prp1, prp2 |-> prp2']
  /\ pc' = "unmap"
  /\ UNCHANGED <<transferVars, count, pinned, held, walkVars, iodVars, mem, i,
                 remaining_blocks, remaining_pages, page_count, prp1_offset,
                 prp1, prp_dma>>

SubmitChario == pc = "submit" /\ ~Phys /\ (FullCommand \/ LastCommand)

SubmitCharioPhys == pc = "submit" /\ Phys /\ (FullCommand \/ LastCommand)

-----------------------------------------------------------------------------
(* The rest of nvme_queue_rq.  When there is no memory for the iod, or the *)
(* request cannot be mapped, the block layer gets an error or tries again  *)
(* later.                                                                  *)
nvme_alloc_iod ==
  /\ pc = "alloc_iod" /\ io.kind \in Block
  /\ \/ /\ held' = IF Internal THEN {} ELSE {[what |-> "iod", page |-> 0]}
        /\ pc' = IF io.kind = "flush" THEN "send" ELSE "map"
     \/ /\ ~Internal
        /\ pc' = "return"
        /\ UNCHANGED held
  /\ UNCHANGED <<transferVars, count, pinned, walkVars, iodVars, mem, i,
                 sliceVars, prp_dma>>

(* The range of a discard is in a block of the small pool, so that         *)
(* nvme_free_iod frees it.                                                 *)
MapDiscard ==
  /\ pc = "map" /\ io.kind = "discard"
  /\ PoolAlloc("small")
  /\ npages' = 0 /\ first_dma' = <<"list", Len(mem) + 1, 0>>
  /\ pc' = "send"
  /\ UNCHANGED <<transferVars, count, pinned, walkVars, i, sliceVars, prp_dma>>

MapData ==
  /\ pc = "map" /\ io.kind = "rw"
  /\ held' = held \cup {[what |-> "dma", page |-> 0]}
  /\ pc' = "setup"
  /\ UNCHANGED <<transferVars, count, pinned, walkVars, iodVars, mem, i,
                 sliceVars, prp_dma>>

(* The labels error_cmd and retry_cmd: only the iod is freed.              *)
FreeUnsent ==
  /\ \/ pc = "map"
     \/ pc = "slice" /\ io.kind = "rw" /\ io.meta = "buffer"
  /\ pc' = "free"
  /\ i' = 0 /\ prp_dma' = first_dma
  /\ UNCHANGED <<transferVars, count, pinned, held, walkVars, iodVars, mem,
                 sliceVars>>

(* The integrity data of a block request is mapped.                        *)
MapIntegrity ==
  /\ pc = "slice" /\ io.kind = "rw" /\ io.meta = "buffer"
  /\ held' = held \cup {[what |-> "meta", page |-> 0]}
  /\ pc' = "send"
  /\ UNCHANGED <<transferVars, count, pinned, walkVars, iodVars, mem, i,
                 sliceVars, prp_dma>>

-----------------------------------------------------------------------------
(* The metadata buffer is allocated, and for a write it is filled from the *)
(* program's memory; either may fail.                                      *)
AllocMeta ==
  /\ pc = "slice" /\ io.kind = "submit_io" /\ io.meta = "buffer"
  /\ \/ /\ held' = held \cup {[what |-> "meta", page |-> 0]}
        /\ pc' \in {"send", "unmap"}
     \/ /\ pc' = "unmap"
        /\ UNCHANGED held
  /\ UNCHANGED <<transferVars, count, pinned, walkVars, iodVars, mem, i,
                 sliceVars, prp_dma>>

(* One command, for the whole buffer.                                      *)
WholeBuffer ==
  [from |-> 0, bytes |-> Bytes, prp2 |-> first_dma,
   prp1 |-> IF Bytes = 0 THEN Garbage ELSE <<"data", sg_dma_address(0), 0>>]

SendCommand(kind, c) ==
  /\ io.kind = kind
  /\ pc = "send" \/ (pc = "slice" /\ io.meta = "none")
  /\ cmd' = c
  /\ pc' = IF kind = "user_cmd" /\ Bytes = 0 THEN "return" ELSE "unmap"
  /\ UNCHANGED <<transferVars, count, pinned, held, walkVars, iodVars, mem, i,
                 remaining_blocks, remaining_pages, page_count, prp1_offset,
                 prp1, prp2, prp_dma>>

(* These need a request of the block layer, and may not get one.           *)
nvme_submit_io == \E c \in {WholeBuffer, cmd} : SendCommand("submit_io", c)

nvme_submit_io_kernel == \E c \in {WholeBuffer, cmd} : SendCommand("kernel", c)

nvme_user_cmd == \E c \in {WholeBuffer, cmd} : SendCommand("user_cmd", c)

(* These are sent for one; the last two transfer no buffer.                *)
nvme_submit_iod == SendCommand("rw", WholeBuffer)

nvme_submit_discard == SendCommand("discard", cmd)

nvme_submit_flush == SendCommand("flush", cmd)

-----------------------------------------------------------------------------
(* nvme_unmap_user_pages and nvme_unmap_kernel_pages: the mapping is       *)
(* undone and every page put; then the head of nvme_free_iod.              *)
Unmap ==
  /\ pc = "unmap" /\ io.kind \notin Block
  /\ held' = {h \in held : h.what # "dma"}
  /\ pinned' = IF Pinned THEN pinned - Pages ELSE pinned
  /\ pc' = "free"
  /\ i' = 0
  /\ prp_dma' = first_dma
  /\ UNCHANGED <<transferVars, count, walkVars, iodVars, mem, sliceVars>>

(* The mappings of a block request are undone when its command has         *)
(* completed, and when its list could not be built.  A request that is to  *)
(* be tried again is a new transfer.                                       *)
req_completion ==
  /\ pc = "unmap" /\ io.kind \in Block
  /\ held' = {h \in held : h.what \notin {"dma", "meta"}}
  /\ pc' = "free"
  /\ i' = 0
  /\ prp_dma' = first_dma
  /\ UNCHANGED <<transferVars, count, pinned, walkVars, iodVars, mem, sliceVars>>

(* dma_pool_free of block p of a pool, at the bus address dma.             *)
PoolFree(pool, p, dma) ==
  held \ {h \in held : h.what = pool /\ h.page = p /\ dma = <<"list", p, 0>>}

(* A bug: the link is looked for beside the last entry.                    *)
FreePageWrongLink ==
  /\ i < npages
  /\ held' = PoolFree("page", list[i + 1], prp_dma)
  /\ prp_dma' = PrpEntry(i, E - 2)
  /\ i' = i + 1
  /\ UNCHANGED <<pc, transferVars, count, pinned, walkVars, iodVars, mem,
                 sliceVars>>

(* An iteration of nvme_free_iod: the link of this page is the address of  *)
(* the next.                                                               *)
FreePage ==
  /\ i < npages
  /\ held' = PoolFree("page", list[i + 1], prp_dma)
  /\ prp_dma' = PrpEntry(i, E - 1)
  /\ i' = i + 1
  /\ UNCHANGED <<pc, transferVars, count, pinned, walkVars, iodVars, mem,
                 sliceVars>>

(* The rest of nvme_free_iod; nvme_submit_io frees the metadata buffer     *)
(* after it.                                                               *)
FreeLast ==
  /\ i >= npages
  /\ held' = {h \in (IF npages = 0 THEN PoolFree("small", list[1], prp_dma)
                                   ELSE held) :
                ~ \/ h.what = "iod"
                  \/ h.what = "meta" /\ io.kind = "submit_io"}
  /\ pc' = "return"
  /\ UNCHANGED <<transferVars, count, pinned, walkVars, iodVars, mem, i,
                 sliceVars, prp_dma>>

FreeIod == pc = "free" /\ ~Phys /\ (FreePage \/ FreeLast)

FreePhysIod == pc = "free" /\ Phys /\ (FreePage \/ FreeLast)

(* The transfer returns: its locals, its iod and its lists are gone, and   *)
(* nothing refers any more to what it may still hold.                      *)
Return ==
  /\ pc = "return"
  /\ pc' = "idle"
  /\ io' = NoTransfer /\ cuts' = {}
  /\ count' = 0 /\ mem' = << >> /\ i' = 0
  /\ length' = 0 /\ dma_len' = 0 /\ dma_addr' = 0 /\ sg' = 0
  /\ npages' = -1 /\ first_dma' = Garbage /\ list' = << >>
  /\ remaining_blocks' = 0 /\ remaining_pages' = 0 /\ page_count' = 0
  /\ prp1_offset' = -1 /\ prp1' = Garbage /\ prp2' = Garbage /\ cmd' = NoCmd
  /\ prp_dma' = Garbage
  /\ held' = {}
  /\ UNCHANGED pinned

Next ==
  \/ EnterChario \/ EnterCharioPhys \/ EnterSubmitIo \/ EnterKernel
  \/ EnterUserCmd \/ nvme_queue_rq
  \/ GetUserPages \/ AllocIod \/ AllocKernelIod \/ AllocPhysIod
  \/ PutPages
  \/ SetupPrps \/ SetupPhysPrps \/ FillPrps \/ FillPhysPrps \/ FillFails
  \/ BeginSlicing \/ SubmitChario \/ SubmitCharioPhys
  \/ nvme_alloc_iod \/ MapDiscard \/ MapData \/ FreeUnsent \/ MapIntegrity
  \/ nvme_submit_iod \/ nvme_submit_discard \/ nvme_submit_flush \/ req_completion
  \/ AllocMeta \/ nvme_submit_io \/ nvme_submit_io_kernel \/ nvme_user_cmd
  \/ Unmap \/ FreeIod \/ FreePhysIod \/ Return

Spec == Init /\ [][Next]_vars

-----------------------------------------------------------------------------
(* What the controller makes of a command (external).  The pages it        *)
(* transfers: the first from PRP1; the second from PRP2 when there are     *)
(* two; else the entries of the list at PRP2, in which the last entry of a *)
(* page is a link unless it is the last entry needed.                      *)
ListWord(v) ==
  IF v[1] = "list" /\ v[2] \in DOMAIN mem /\ v[3] \in DOMAIN mem[v[2]]
  THEN mem[v[2]][v[3]]
  ELSE Garbage

Walk(c) ==
  LET m == DivRoundUp((c.prp1[2] % PageSize) + c.bytes, PageSize)
      Follow(v, j) == IF v[3] = E - 1 /\ j < m - 1 THEN ListWord(v) ELSE v
      at[j \in 1 .. m - 1] ==
        Follow(IF j = 1 THEN c.prp2 ELSE Advance(at[j - 1], 1), j)
  IN  [j \in 0 .. m - 1 |->
         CASE j = 0 -> c.prp1
           [] j = 1 /\ m = 2 -> c.prp2
           [] j > 0 /\ m > 2 -> ListWord(at[j])]

(* The pages of the buffer that hold n bytes from the given one on.        *)
PagesOf(from, n) ==
  LET start == io.offset + from
      k == start \div PageSize
      m == DivRoundUp((start % PageSize) + n, PageSize)
  IN  [j \in 0 .. m - 1 |->
         <<"data", PageAddr(k + j) + (IF j = 0 THEN start % PageSize ELSE 0), 0>>]

-----------------------------------------------------------------------------
Word == {Garbage} \cup ({"data"} \X Nat \X Nat) \cup ({"list"} \X Nat \X Nat)

(* Every variable has its type: addresses are words that the driver wrote, *)
(* and every pointer of the iod is to a pool page.                         *)
TypeOK ==
  /\ pc \in {"idle", "pin", "alloc_iod", "put_pages", "map", "setup", "fill", "slice",
             "submit", "send", "unmap", "free", "return"}
  /\ io \in Requests
  /\ cuts \subseteq 1 .. Pages - 1
  /\ count \in 0 .. Pages /\ pinned \in 0 .. Pages
  /\ held \subseteq [what : {"iod", "dma", "meta", "small", "page"}, page : Nat]
  /\ length \in Int /\ dma_len \in Int /\ dma_addr \in Nat /\ sg \in 0 .. Pages
  /\ npages \in -1 .. Len(list) /\ first_dma \in Word
  /\ list \in Seq(1 .. Len(mem))
  /\ \A p \in DOMAIN mem : \A k \in DOMAIN mem[p] : mem[p][k] \in Word
  /\ i \in 0 .. E
  /\ remaining_blocks \in Nat /\ remaining_pages \in Int /\ page_count \in Nat
  /\ prp1_offset \in Int /\ prp1 \in Word /\ prp2 \in Word
  /\ cmd \in [from : Nat, bytes : Nat, prp1 : Word, prp2 : Word]
  /\ prp_dma \in Word

(* The PRP registers that nvme_submit_io_chario gives a command lead the   *)
(* controller to exactly the pages of the buffer that hold the command's   *)
(* blocks, in order: the slices of the list neither skip, repeat nor       *)
(* overrun an entry, at list-page boundaries and for the last one or two   *)
(* blocks included.  So do those of the pass-through and test commands,    *)
(* which have the whole list, and of block requests.                       *)
CommandsCoverBuffer ==
  cmd # NoCmd => Walk(cmd) = PagesOf(cmd.from, cmd.bytes)

(* nvme_setup_prps stays inside what it allocated: it never writes beyond  *)
(* a block of the small pool, and nvme_npages has reserved a pointer for   *)
(* every list page, in an iod that is part of a request (nvme_cmd_size)    *)
(* too.                                                                    *)
ListsFit ==
  /\ pc = "fill" /\ npages = 0 => i < SmallEntries
  /\ Len(list) <= nvme_npages(IF Internal THEN INT_PAGES * PageSize ELSE IodBytes)

(* Whatever fails on the way, when the transfer returns every pinned page  *)
(* has been put, the mapping undone, the iod and the metadata freed, and   *)
(* every pool block returned to its pool under the bus address it was      *)
(* allocated at.  One exception: nvme_queue_rq leaves the data mapped when *)
(* it cannot map the integrity data of a request.                          *)
AllReleased ==
  pc = "return" =>
    /\ pinned = 0
    /\ \A h \in held :
         h.what = "dma" /\ io.kind = "rw" /\ io.meta = "buffer" /\ cmd = NoCmd

=============================================================================
