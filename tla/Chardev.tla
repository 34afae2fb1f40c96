------------------------------- MODULE Chardev ------------------------------
(***************************************************************************)
(* The file operations of /dev/chardisk0 (chario.c): dev_read, dev_write,  *)
(* dev_llseek and the two ioctls, called by threads that may share a file. *)
(* A call is cut into transfers of at most MAX_BYTES; each is turned into  *)
(* a block address and a number of blocks and handed to the NVMe driver    *)
(* (nvme_submit_io_chario), which puts the blocks in flight and sleeps     *)
(* until they are settled.  A command that the controller fails counts as  *)
(* any other, so a transfer returns 0 with some of its blocks unmoved.     *)
(***************************************************************************)
EXTENDS Integers

CONSTANTS
  Threads, Files, Buffers, Counts, Positions, DiskBytes, MemBytes, Errors, NoCall,
  MAX_BYTES,   \* the longest transfer
  LbaSize,     \* bytes in a block, 1 << lba_shift
  U16,         \* number of values of a __u16
  MaxCalls,    \* bound on the number of system calls
  Results,     \* what the driver returns: 0, a status > 0 or an error < 0
  Serialised   \* callers do not overlap their transfers

Ops == {"read", "write", "read_phys", "write_phys"}
IsRead(op) == op \in {"read", "read_phys"}

Calls == [op : Ops, file : Files, buf : Buffers, count : Counts, pos : Nat]

ASSUME ChardevAssumption ==
  /\ LbaSize \in Nat \ {0} /\ U16 \in Nat \ {0}
  /\ MAX_BYTES \in Nat \ {0} /\ MAX_BYTES % LbaSize = 0
  /\ MAX_BYTES <= U16 * LbaSize
  /\ Buffers \subseteq Nat /\ Counts \subseteq Nat /\ Positions \subseteq Int
  /\ DiskBytes \in Nat /\ MemBytes \in Nat /\ MaxCalls \in Nat
  /\ Results \subseteq Int /\ 0 \in Results
  /\ Serialised \in BOOLEAN
  /\ NoCall \notin Calls

EIO == -5
EINVAL == -22
ESPIPE == -29

VARIABLES
  disk, mem,       \* contents of the disk, and of every thread's memory
  f_pos,           \* filp->f_pos of every file
  call,            \* the system call each thread is in
  pc, remaining, buffer, off,     \* its locals
  inflight,        \* the bytes that commands on the queue are to move
  lost,            \* whether the thread's call had a command that failed
  ret,             \* what the last system call returned
  calls            \* system calls made so far

vars == <<disk, mem, f_pos, call, pc, remaining, buffer, off, inflight, lost, ret, calls>>

(* The length of the next transfer of a call: the loops of the callers     *)
(* take MAX_BYTES while more is left, and then what is left.               *)
NextLen(t) == IF remaining[t] > MAX_BYTES THEN MAX_BYTES ELSE remaining[t]

(* One byte of a transfer: where it is in the thread's memory and on the   *)
(* disk.                                                                   *)
ByteMove(t, m, d) ==
  [thread |-> t, read |-> IsRead(call[t].op), mem |-> m, disk |-> d]

(* Byte k of the call of t: its place in the buffer and on the disk.       *)
CallByte(t, k) == ByteMove(t, call[t].buf + k, call[t].pos + k)

(* The bytes of the call of t that have been handed to the driver, from    *)
(* the first on, and those of them that its commands are done with.        *)
Submitted(t) ==
  IF pc[t] = "user" THEN 0
  ELSE IF pc[t] = "advance" THEN call[t].count
  ELSE (call[t].count - remaining[t]) + IF pc[t] = "wait" THEN NextLen(t) ELSE 0

Settled(t) ==
  {k \in 0 .. Submitted(t) - 1 : CallByte(t, k) \notin inflight}

Abstract == INSTANCE CharFile WITH
  Positions <- 0 .. DiskBytes,
  done <- [t \in Threads |-> Settled(t)]

Init ==
  /\ disk = [k \in 0 .. DiskBytes - 1 |-> <<"disk", k>>]
  /\ mem = [t \in Threads |-> [k \in 0 .. MemBytes - 1 |-> <<t, k>>]]
  /\ f_pos = [f \in Files |-> 0]
  /\ call = [t \in Threads |-> NoCall]
  /\ pc = [t \in Threads |-> "user"]
  /\ remaining = [t \in Threads |-> 0]
  /\ buffer = [t \in Threads |-> 0]
  /\ off = [t \in Threads |-> 0]
  /\ inflight = {}
  /\ lost = [t \in Threads |-> FALSE]
  /\ ret = [t \in Threads |-> 0]
  /\ calls = 0

-----------------------------------------------------------------------------
(* The system call reads the position: sys_read and sys_write copy it and  *)
(* pass the copy, submit_phys_io takes it from filp.  Bound: the call      *)
(* stays on the disk and in the program's memory.                          *)
Enter(t) ==
  /\ pc[t] = "user" /\ calls < MaxCalls
  /\ calls' = calls + 1
  /\ \E f \in Files, op \in Ops, b \in Buffers, n \in Counts :
       /\ f_pos[f] + n <= DiskBytes /\ b + n <= MemBytes
       /\ call' = [call EXCEPT ![t] = [op |-> op, file |-> f, buf |-> b,
                                       count |-> n, pos |-> f_pos[f]]]
       /\ buffer' = [buffer EXCEPT ![t] = b]
       /\ remaining' = [remaining EXCEPT ![t] = n]
       /\ off' = [off EXCEPT ![t] = f_pos[f]]
  /\ pc' = [pc EXCEPT ![t] = "loop"]
  /\ lost' = [lost EXCEPT ![t] = FALSE]
  /\ UNCHANGED <<disk, mem, f_pos, inflight, ret>>

(* Number of blocks and block address of a transfer.                       *)
nblocks(len) == ((len - 1) \div LbaSize) % U16
slba(o) == o \div LbaSize

(* The bytes of a transfer of nb + 1 blocks from block lba on.             *)
TransferBytes(t, nb, lba) ==
  {ByteMove(t, buffer[t] + k, lba * LbaSize + k) : k \in 0 .. (nb + 1) * LbaSize - 1}

(* submit_user_io and __submit_phys_io: nothing is submitted for a length  *)
(* of 0; else the driver maps the buffer, submits the commands of all the  *)
(* blocks and goes to sleep.                                               *)
SubmitIo(t) ==
  /\ \/ /\ NextLen(t) = 0
        /\ pc' = [pc EXCEPT ![t] = "advance"]
        /\ UNCHANGED inflight
     \/ /\ NextLen(t) # 0
        /\ Serialised => \A u \in Threads : pc[u] # "wait"
        /\ inflight' = inflight \cup
                         TransferBytes(t, nblocks(NextLen(t)), slba(off[t]))
        /\ pc' = [pc EXCEPT ![t] = "wait"]
  /\ UNCHANGED <<disk, mem, f_pos, call, remaining, buffer, off, lost, ret, calls>>

ReadSubmits(t) == pc[t] = "loop" /\ call[t].op = "read" /\ SubmitIo(t)

WriteSubmits(t) == pc[t] = "loop" /\ call[t].op = "write" /\ SubmitIo(t)

PhysSubmits(t) ==
  pc[t] = "loop" /\ call[t].op \in {"read_phys", "write_phys"} /\ SubmitIo(t)

-----------------------------------------------------------------------------
(* The first bytes of the blocks in flight, and the bytes of a block.      *)
FirstBytes == {b \in inflight : b.disk % LbaSize = 0}

BlockOf(b) ==
  {c \in inflight : c.thread = b.thread /\ c.disk - b.disk \in 0 .. LbaSize - 1}

(* The controller executes a block of some command, in any order.          *)
MoveBlock(b) ==
  LET block == BlockOf(b)
      shift == b.disk - b.mem
  IN  /\ inflight' = inflight \ block
      /\ \/ /\ b.read
            /\ mem' = [mem EXCEPT ![b.thread] =
                 [k \in DOMAIN mem[b.thread] |->
                    IF \E c \in block : c.mem = k THEN disk[k + shift]
                                                 ELSE mem[b.thread][k]]]
            /\ UNCHANGED disk
         \/ /\ ~b.read
            /\ disk' = [k \in DOMAIN disk |->
                 IF \E c \in block : c.disk = k THEN mem[b.thread][k - shift]
                                               ELSE disk[k]]
            /\ UNCHANGED mem
      /\ UNCHANGED <<f_pos, call, pc, remaining, buffer, off, lost, ret, calls>>

(* Or the command fails before it gets to the block.  chario_completion    *)
(* does not look at the status: the blocks count as done.                  *)
LoseBlock(b) ==
  /\ inflight' = inflight \ BlockOf(b)
  /\ lost' = [lost EXCEPT ![b.thread] = TRUE]
  /\ UNCHANGED <<disk, mem, f_pos, call, pc, remaining, buffer, off, ret, calls>>

(* After a transfer of the loop: the next one begins where it ended.       *)
Consume(t) ==
  /\ remaining' = [remaining EXCEPT ![t] = @ - MAX_BYTES]
  /\ buffer' = [buffer EXCEPT ![t] = @ + MAX_BYTES]
  /\ off' = [off EXCEPT ![t] = @ + MAX_BYTES]
  /\ pc' = [pc EXCEPT ![t] = "loop"]

(* The driver is woken and returns 0: the blocks are settled, or another   *)
(* transfer overlaps this one, and its completions were counted here.      *)
TransferReturns(t) ==
  /\ pc[t] = "wait"
  /\ \/ \A b \in inflight : b.thread # t
     \/ \E u \in Threads \ {t} : pc[u] = "wait"
  /\ \/ remaining[t] > MAX_BYTES /\ Consume(t)
     \/ /\ remaining[t] <= MAX_BYTES
        /\ pc' = [pc EXCEPT ![t] = "advance"]
        /\ UNCHANGED <<remaining, buffer, off>>
  /\ UNCHANGED <<disk, mem, f_pos, call, inflight, lost, ret, calls>>

-----------------------------------------------------------------------------
(* The driver returns an error, which it does before it has submitted any  *)
(* command of the transfer: the call returns it, a status as -EIO.  What   *)
(* earlier transfers moved stays moved.                                    *)
SubmitFails(t) ==
  /\ pc[t] = "loop" /\ remaining[t] > 0
  /\ \E r \in Results \ {0} :
       ret' = [ret EXCEPT ![t] = IF r > 0 THEN EIO ELSE r]
  /\ pc' = [pc EXCEPT ![t] = "user"]
  /\ call' = [call EXCEPT ![t] = NoCall]
  /\ UNCHANGED <<disk, mem, f_pos, remaining, buffer, off, inflight, lost, calls>>

(* A bug: the position is advanced by the last transfer only.              *)
ReadReturnsRemaining(t) ==
  /\ pc[t] = "advance" /\ call[t].op \in {"read", "write"}
  /\ f_pos' = [f_pos EXCEPT ![call[t].file] = call[t].pos + remaining[t]]
  /\ ret' = [ret EXCEPT ![t] = call[t].count]
  /\ pc' = [pc EXCEPT ![t] = "user"]
  /\ call' = [call EXCEPT ![t] = NoCall]
  /\ UNCHANGED <<disk, mem, remaining, buffer, off, inflight, lost, calls>>

(* The copy of the position, advanced by count, is written back.           *)
ReadReturns(t) ==
  /\ pc[t] = "advance" /\ call[t].op \in {"read", "write"}
  /\ f_pos' = [f_pos EXCEPT ![call[t].file] = call[t].pos + call[t].count]
  /\ ret' = [ret EXCEPT ![t] = call[t].count]
  /\ pc' = [pc EXCEPT ![t] = "user"]
  /\ call' = [call EXCEPT ![t] = NoCall]
  /\ UNCHANGED <<disk, mem, remaining, buffer, off, inflight, lost, calls>>

(* submit_phys_io adds the length to the position the file has by now.     *)
PhysReturns(t) ==
  /\ pc[t] = "advance" /\ call[t].op \in {"read_phys", "write_phys"}
  /\ f_pos' = [f_pos EXCEPT ![call[t].file] = @ + call[t].count]
  /\ ret' = [ret EXCEPT ![t] = call[t].count]
  /\ pc' = [pc EXCEPT ![t] = "user"]
  /\ call' = [call EXCEPT ![t] = NoCall]
  /\ UNCHANGED <<disk, mem, remaining, buffer, off, inflight, lost, calls>>

(* dev_llseek.  Bound: programs seek to a position on the disk.            *)
Llseek(t) ==
  /\ pc[t] = "user" /\ calls < MaxCalls
  /\ calls' = calls + 1
  /\ \/ \E f \in Files, o \in Positions, cur \in BOOLEAN :
          LET newpos == o + IF cur THEN f_pos[f] ELSE 0
          IN  /\ newpos <= DiskBytes
              /\ \/ /\ newpos < 0
                    /\ ret' = [ret EXCEPT ![t] = EINVAL]
                    /\ UNCHANGED f_pos
                 \/ /\ newpos >= 0
                    /\ f_pos' = [f_pos EXCEPT ![f] = newpos]
                    /\ ret' = [ret EXCEPT ![t] = newpos]
     \/ /\ \E e \in {ESPIPE, EINVAL} :      \* SEEK_END, another whence
             ret' = [ret EXCEPT ![t] = e]
        /\ UNCHANGED f_pos
  /\ UNCHANGED <<disk, mem, call, pc, remaining, buffer, off, inflight, lost>>

Next ==
  \/ \E t \in Threads :
       \/ Enter(t) \/ ReadSubmits(t) \/ WriteSubmits(t) \/ PhysSubmits(t)
       \/ TransferReturns(t) \/ SubmitFails(t)
       \/ ReadReturns(t) \/ PhysReturns(t) \/ Llseek(t)
  \/ \E b \in FirstBytes : MoveBlock(b) \/ LoseBlock(b)

Spec == Init /\ [][Next]_vars

-----------------------------------------------------------------------------
(* Every variable has its type, and the locals of a call agree: what is    *)
(* left, the buffer and the offset advance together.                       *)
TypeOK ==
  /\ disk \in [0 .. DiskBytes - 1 -> {"disk"} \X Nat \cup Threads \X Nat]
  /\ mem \in [Threads -> [0 .. MemBytes - 1 ->
                            {"disk"} \X Nat \cup Threads \X Nat]]
  /\ f_pos \in [Files -> Nat] /\ calls \in 0 .. MaxCalls
  /\ pc \in [Threads -> {"user", "loop", "wait", "advance"}]
  /\ lost \in [Threads -> BOOLEAN]
  /\ \A t \in Threads :
       /\ pc[t] = "user" <=> call[t] = NoCall
       /\ call[t] # NoCall =>
            /\ call[t] \in Calls
            /\ remaining[t] = call[t].count - (buffer[t] - call[t].buf)
            /\ off[t] = call[t].pos + (buffer[t] - call[t].buf)

(* When transfers do not overlap, the file operations implement a byte     *)
(* file: a call that returns its count has moved each of its bytes,        *)
(* between its place on the disk from the position on and its place in the *)
(* buffer, but for those of commands that failed, it has touched no other  *)
(* byte and nothing of it is moved afterwards; the position moves only     *)
(* then.  Chunking, block rounding and the __u16 block count do not show.  *)
ImplementsCharFile == Abstract!Spec
=============================================================================
