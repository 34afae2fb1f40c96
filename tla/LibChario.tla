------------------------------ MODULE LibChario -----------------------------
(***************************************************************************)
(* libchario: a program's tasks are lists of ranges of disk blocks; the    *)
(* library packs a task's ranges one after the other into one buffer,      *)
(* loads them from the disk and flushes them back with one lseek and one   *)
(* read or write for each range.  The device is CharFile, counted in       *)
(* blocks.  The library is called by one thread.                           *)
(***************************************************************************)
EXTENDS Integers, Sequences

CONSTANTS
  Tasks,
  MaxRanges,   \* bound on the ranges of a task
  MaxInits,    \* bound on how often a task is initialised
  MaxRuns,     \* bound on the loads and flushes
  Lengths,     \* numbers of blocks in a range
  DiskBlocks, BufferBlocks,
  Errors, NoCall, NoTask

ASSUME LibAssumption ==
  /\ MaxRanges \in Nat /\ MaxInits \in Nat /\ MaxRuns \in Nat
  /\ Lengths \subseteq Nat \ {0}
  /\ DiskBlocks \in Nat /\ BufferBlocks \in Nat
  /\ NoTask \notin Tasks

VARIABLES
  disk, mem, f_pos, call, done, lost, ret,   \* the device, see CharFile
  fd,            \* the device is open and the buffer allocated
  inited,        \* how often every task has been initialised
  ranges, range_count, total_size,     \* the fields of every task
  pc, task, item,    \* the load or flush under way, and its loop variable
  runs,          \* how many there have been
  ok             \* none of its reads or writes has failed or lost a block

deviceVars == <<disk, mem, f_pos, call, done, lost, ret>>
taskVars == <<inited, ranges, range_count, total_size>>
vars == <<deviceVars, fd, taskVars, pc, task, item, runs, ok>>

lib == "lib"

Device == INSTANCE CharFile WITH
  Threads <- {lib}, Files <- {1}, Buffers <- 0 .. BufferBlocks,
  Counts <- Lengths, Positions <- 0 .. DiskBlocks, DiskBytes <- DiskBlocks,
  MemBytes <- BufferBlocks

Init ==
  /\ Device!Init
  /\ fd = FALSE
  /\ inited = [k \in Tasks |-> 0]
  /\ ranges = [k \in Tasks |-> << >>]
  /\ range_count = [k \in Tasks |-> 0]
  /\ total_size = [k \in Tasks |-> 0]
  /\ pc = "idle" /\ task = NoTask /\ item = 1 /\ runs = 0 /\ ok = TRUE

chario_init_device ==
  /\ pc = "idle" /\ ~fd
  /\ fd' \in BOOLEAN              \* open may fail
  /\ UNCHANGED <<deviceVars, taskVars, pc, task, item, runs, ok>>

chario_close_device ==
  /\ pc = "idle" /\ fd
  /\ fd' = FALSE
  /\ UNCHANGED <<deviceVars, taskVars, pc, task, item, runs, ok>>

(* The list is emptied; range_count and total_size keep their values: 0 in *)
(* a static task, those of the lost ranges in one initialised before.      *)
chario_init_task(k) ==
  /\ pc = "idle" /\ inited[k] < MaxInits
  /\ inited' = [inited EXCEPT ![k] = @ + 1]
  /\ ranges' = [ranges EXCEPT ![k] = << >>]
  /\ UNCHANGED <<deviceVars, fd, range_count, total_size, pc, task, item, runs, ok>>

(* The part of the buffer that the ranges of a task take up.               *)
End(k) ==
  LET n == Len(ranges[k])
  IN  IF n = 0 THEN 0 ELSE ranges[k][n].buffer_offset + ranges[k][n].count

(* A bug: a range is put where the previous one begins.                    *)
BufferOffsetSame(k) ==
  IF ranges[k] = << >> THEN 0 ELSE ranges[k][Len(ranges[k])].buffer_offset

(* Where a new range goes: behind the last one.                            *)
BufferOffset(k) ==
  IF ranges[k] = << >>
  THEN 0
  ELSE LET prev == ranges[k][Len(ranges[k])] IN prev.buffer_offset + prev.count

(* Bounds: the range is on the disk, the task fits the buffer.             *)
chario_add_range_to_task(k) ==
  /\ pc = "idle" /\ inited[k] > 0 /\ Len(ranges[k]) < MaxRanges
  /\ \E n \in Lengths, s \in 0 .. DiskBlocks - 1 :
       /\ s + n <= DiskBlocks /\ End(k) + n <= BufferBlocks
       /\ ranges' = [ranges EXCEPT ![k] =
            Append(@, [start |-> s, count |-> n, buffer_offset |-> BufferOffset(k)])]
       /\ total_size' = [total_size EXCEPT ![k] = @ + n]
  /\ range_count' = [range_count EXCEPT ![k] = @ + 1]
  /\ UNCHANGED <<deviceVars, fd, inited, pc, task, item, runs, ok>>

-----------------------------------------------------------------------------
(* The head of chario_load_blocks_for_task and chario_flush_blocks_...; the *)
(* early return with 1, without a device, changes nothing.                 *)
Begin(k, op) ==
  /\ pc = "idle" /\ inited[k] > 0
  /\ \/ /\ fd /\ runs < MaxRuns /\ runs' = runs + 1
        /\ pc' = op /\ task' = k /\ item' = 1 /\ ok' = TRUE
        /\ UNCHANGED <<deviceVars, fd, taskVars>>
     \/ ~fd /\ UNCHANGED vars

(* One range: lseek, then the read or write, whose result is only printed. *)
Range == ranges[task][item]

Lseek ==
  /\ pc \in {"load", "flush"} /\ item <= Len(ranges[task])
  /\ Device!Seek(lib) /\ f_pos'[1] = Range.start /\ ret'[lib] = Range.start
  /\ pc' = IF pc = "load" THEN "load_io" ELSE "flush_io"
  /\ UNCHANGED <<fd, taskVars, task, item, runs, ok>>

(* A bug: the write goes from the start of the buffer.                     *)
RangeIoStart(op) ==
  /\ Device!Begin(lib)
  /\ call'[lib].op = op /\ call'[lib].count = Range.count
  /\ call'[lib].buf = 0
  /\ UNCHANGED <<fd, taskVars, pc, task, item, runs, ok>>

RangeIo(op) ==
  /\ Device!Begin(lib)
  /\ call'[lib].op = op /\ call'[lib].count = Range.count
  /\ call'[lib].buf = Range.buffer_offset
  /\ UNCHANGED <<fd, taskVars, pc, task, item, runs, ok>>

Read == pc = "load_io" /\ RangeIo("read")
Write == pc = "flush_io" /\ RangeIo("write")

(* The device at work on the call: its blocks move in any order, or are    *)
(* lost with a command that fails.                                         *)
DeviceStep ==
  /\ Device!Progress(lib)
  /\ done' # done
  /\ UNCHANGED <<fd, taskVars, pc, task, item, runs, ok>>

NextRange ==
  /\ Device!Succeed(lib) \/ Device!Fail(lib)
  /\ ok' = (ok /\ ret'[lib] \notin Errors /\ ~lost[lib])
  /\ item' = item + 1
  /\ pc' = IF pc = "load_io" THEN "load" ELSE "flush"
  /\ UNCHANGED <<fd, taskVars, task, runs>>

(* The loop ends; both functions return 0.                                 *)
Return ==
  /\ pc \in {"load", "flush"} /\ item > Len(ranges[task])
  /\ pc' = IF pc = "load" THEN "loaded" ELSE "flushed"
  /\ UNCHANGED <<deviceVars, fd, taskVars, task, item, runs, ok>>

(* The program works on the task's part of the buffer, or not.             *)
Work ==
  /\ pc \in {"loaded", "flushed"}
  /\ pc' = "idle" /\ task' = NoTask /\ item' = 1 /\ ok' = TRUE
  /\ \E m \in {mem, [mem EXCEPT ![lib] =
                       [b \in DOMAIN mem[lib] |->
                          IF b < End(task) THEN <<task, b>> ELSE @[b]]]} :
       mem' = m
  /\ UNCHANGED <<disk, f_pos, call, done, lost, ret, fd, taskVars, runs>>

Next ==
  \/ chario_init_device \/ chario_close_device
  \/ \E k \in Tasks : chario_init_task(k) \/ chario_add_range_to_task(k)
                      \/ Begin(k, "load") \/ Begin(k, "flush")
  \/ Lseek \/ Read \/ Write \/ DeviceStep \/ NextRange \/ Return \/ Work

Spec == Init /\ [][Next]_vars

-----------------------------------------------------------------------------
(* Every variable of the library has its type.                             *)
TypeOK ==
  /\ fd \in BOOLEAN /\ ok \in BOOLEAN
  /\ \A k \in Tasks :
       /\ Len(ranges[k]) <= MaxRanges /\ inited[k] \in 0 .. MaxInits
       /\ range_count[k] \in Nat /\ total_size[k] \in Nat
       /\ \A j \in 1 .. Len(ranges[k]) :
            ranges[k][j] \in [start : 0 .. DiskBlocks, count : Lengths,
                              buffer_offset : 0 .. BufferBlocks]
  /\ pc \in {"idle", "load", "load_io", "loaded", "flush", "flush_io", "flushed"}
  /\ task \in Tasks \cup {NoTask} /\ item \in 1 .. MaxRanges + 1

(* The ranges of a task tile the part of the buffer that they take up: no  *)
(* block of it belongs to two ranges or to none.  Its size is total_size,  *)
(* unless the task was initialised again.                                  *)
RangesTile ==
  \A k \in Tasks :
    /\ inited[k] <= 1 => total_size[k] = End(k)
    /\ \A b \in 0 .. End(k) - 1 :
         \E j \in 1 .. Len(ranges[k]) :
           LET In(r) == b \in r.buffer_offset .. r.buffer_offset + r.count - 1
           IN  In(ranges[k][j]) /\ \A l \in 1 .. Len(ranges[k]) : In(ranges[k][l]) => l = j

(* When a load returns, and none of its reads failed or lost a block,      *)
(* every range of the task is in its place in the buffer as it is on the   *)
(* disk: a later range has not overwritten an earlier one.                 *)
LoadIsComplete ==
  pc = "loaded" /\ ok =>
    \A j \in 1 .. Len(ranges[task]) : \A b \in 0 .. ranges[task][j].count - 1 :
      mem[lib][ranges[task][j].buffer_offset + b] = disk[ranges[task][j].start + b]

(* When a flush returns, and none of its writes failed or lost a block,    *)
(* every block of the task is on the disk, with the contents of the last   *)
(* range of the task that has the block.                                   *)
FlushIsComplete ==
  pc = "flushed" /\ ok =>
    \A j \in 1 .. Len(ranges[task]) : \A b \in 0 .. ranges[task][j].count - 1 :
      \E l \in j .. Len(ranges[task]) :
        LET r == ranges[task][l]
            d == ranges[task][j].start + b
        IN  /\ d \in r.start .. r.start + r.count - 1
            /\ disk[d] = mem[lib][r.buffer_offset + (d - r.start)]
            /\ \A m \in l + 1 .. Len(ranges[task]) :
                 LET q == ranges[task][m] IN d \notin q.start .. q.start + q.count - 1
=============================================================================
