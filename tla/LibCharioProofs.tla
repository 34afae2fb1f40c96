--------------------------- MODULE LibCharioProofs ---------------------------
(***************************************************************************)
(* The ranges of a task tile its part of the buffer, and a load or a flush *)
(* whose reads or writes succeed and lose no block has moved every block   *)
(* of every range to its place, for any tasks, numbers and lengths of      *)
(* ranges, disk and buffer.                                                *)
(***************************************************************************)
EXTENDS LibChario, TLAPS

-----------------------------------------------------------------------------
(* The inductive invariant.                                                *)

RangeType == [start : 0 .. DiskBlocks, count : Lengths, buffer_offset : 0 .. BufferBlocks]

\* The ranges of a task lie one behind the other, from 0 to End.
TaskInv(k) ==
  /\ ranges[k] \in Seq(RangeType)
  /\ inited[k] \in Nat /\ total_size[k] \in Nat
  /\ BufferOffset(k) \in 0 .. BufferBlocks
  /\ inited[k] = 0 => ranges[k] = << >>
  /\ inited[k] <= 1 => total_size[k] = BufferOffset(k)
  /\ \A j \in 1 .. Len(ranges[k]) :
       LET r == ranges[k][j] IN /\ r.start + r.count <= DiskBlocks
                                /\ r.buffer_offset + r.count <= BufferOffset(k)
  /\ \A i, j \in 1 .. Len(ranges[k]) :
       i < j => ranges[k][i].buffer_offset + ranges[k][i].count <= ranges[k][j].buffer_offset
  /\ \A b \in 0 .. BufferOffset(k) - 1 : \E j \in 1 .. Len(ranges[k]) :
       LET r == ranges[k][j] IN r.buffer_offset <= b /\ b < r.buffer_offset + r.count

TasksInv ==
  /\ inited = [k \in Tasks |-> inited[k]]
  /\ ranges = [k \in Tasks |-> ranges[k]]
  /\ total_size = [k \in Tasks |-> total_size[k]]
  /\ \A k \in Tasks : TaskInv(k)

\* The device has one file and one thread.
DeviceInv ==
  /\ DOMAIN disk = 0 .. DiskBlocks - 1
  /\ mem = [t \in {lib} |-> mem[t]] /\ DOMAIN mem[lib] = 0 .. BufferBlocks - 1
  /\ f_pos \in [{1} -> Nat]
  /\ call = [t \in {lib} |-> call[t]]
  /\ done = [t \in {lib} |-> done[t]]
  /\ lost \in [{lib} -> BOOLEAN]
  /\ ret = [t \in {lib} |-> ret[t]]

Loading == pc \in {"load", "load_io", "loaded"}
Flushing == pc \in {"flush", "flush_io", "flushed"}
InIo == pc \in {"load_io", "flush_io"}

\* The loop variable, and the call that is made for its range.
LoopInv ==
  /\ ok \in BOOLEAN
  /\ pc \in {"idle", "load", "load_io", "loaded", "flush", "flush_io", "flushed"}
  /\ pc # "idle" => task \in Tasks /\ item \in 1 .. Len(ranges[task]) + 1
  /\ InIo => item <= Len(ranges[task])
  /\ pc \in {"loaded", "flushed"} => item = Len(ranges[task]) + 1
  /\ InIo /\ call[lib] = NoCall => f_pos[1] = Range.start
  /\ call[lib] # NoCall =>
       /\ InIo
       /\ call[lib] = [op |-> IF pc = "load_io" THEN "read" ELSE "write", file |-> 1,
                       buf |-> Range.buffer_offset, count |-> Range.count,
                       pos |-> Range.start]
       /\ done[lib] \subseteq 0 .. Range.count - 1

\* Block d of the disk is in range l of the task.
Has(l, d) ==
  LET r == ranges[task][l] IN r.start <= d /\ d < r.start + r.count

\* Block b of range l has been settled.
Moved(l, b) ==
  \/ l < item /\ b < ranges[task][l].count
  \/ l = item /\ call[lib] # NoCall /\ b \in done[lib]

\* Where block d of the disk has its place in the buffer, in range l.
Place(l, d) == ranges[task][l].buffer_offset + (d - ranges[task][l].start)

Written(l, d) == Has(l, d) /\ Moved(l, d - ranges[task][l].start)

\* No call of the load or flush has failed, or lost a block so far.
Sound == ok /\ (call[lib] = NoCall \/ ~lost[lib])

\* What a load has moved is in the buffer as it is on the disk.
LoadInv ==
  Loading /\ Sound =>
    \A l \in 1 .. Len(ranges[task]), d \in 0 .. DiskBlocks - 1 :
      Written(l, d) => mem[lib][Place(l, d)] = disk[d]

\* A block that a flush has moved is on the disk with the contents of the last
\* range moved that has it.
FlushInv ==
  Flushing /\ Sound =>
    \A j \in 1 .. Len(ranges[task]), d \in 0 .. DiskBlocks - 1 :
      Written(j, d) =>
        \E l \in j .. Len(ranges[task]) :
          /\ Written(l, d)
          /\ disk[d] = mem[lib][Place(l, d)]
          /\ \A m \in l + 1 .. Len(ranges[task]) : ~Written(m, d)

IInv == TasksInv /\ DeviceInv /\ LoopInv /\ LoadInv /\ FlushInv

-----------------------------------------------------------------------------
(* The tasks.                                                              *)

\* The fields of a range are numbers.
LEMMA RangeFields ==
  ASSUME NEW r \in RangeType
  PROVE  r.start \in Nat /\ r.count \in Nat \ {0} /\ r.buffer_offset \in Nat
<1>1. r.start \in 0 .. DiskBlocks /\ r.count \in Lengths /\ r.buffer_offset \in 0 .. BufferBlocks
  BY DEF RangeType
<1>2. r.count \in Nat \ {0}
  BY Zenon, <1>1, LibAssumption
<1> QED BY <1>1, <1>2

\* The invariant of a task depends on its fields only.
LEMMA TaskFrame ==
  ASSUME NEW k \in Tasks, TaskInv(k), inited'[k] = inited[k], ranges'[k] = ranges[k],
         total_size'[k] = total_size[k]
  PROVE  TaskInv(k)'
<1>1. BufferOffset(k)' = BufferOffset(k)
  BY DEF BufferOffset
<1> QED BY <1>1 DEF TaskInv

\* A step that changes no task.
LEMMA TasksFrame ==
  ASSUME TasksInv, UNCHANGED taskVars
  PROVE  TasksInv'
<1>1. UNCHANGED <<inited, ranges, total_size>>
  BY DEF taskVars
<1>2. ASSUME NEW k \in Tasks PROVE TaskInv(k)'
  BY <1>1, TaskFrame DEF TasksInv
<1> QED BY <1>1, <1>2 DEF TasksInv

LEMMA InitTaskStep ==
  ASSUME TasksInv, NEW k \in Tasks, chario_init_task(k)
  PROVE  TasksInv'
<1>1. /\ inited' = [inited EXCEPT ![k] = @ + 1] /\ ranges' = [ranges EXCEPT ![k] = << >>]
      /\ total_size' = total_size
  BY DEF chario_init_task
<1>2. /\ inited' = [e \in Tasks |-> inited'[e]] /\ ranges' = [e \in Tasks |-> ranges'[e]]
      /\ inited'[k] = inited[k] + 1 /\ ranges'[k] = << >>
      /\ \A e \in Tasks \ {k} : inited'[e] = inited[e] /\ ranges'[e] = ranges[e]
  BY Zenon, <1>1 DEF TasksInv
<1>3. ASSUME NEW e \in Tasks \ {k} PROVE TaskInv(e)'
  <2>1. TaskInv(e)
    BY DEF TasksInv
  <2> QED BY <2>1, <1>1, <1>2, TaskFrame
<1>4. TaskInv(k)'
  <2>1. TaskInv(k)
    BY DEF TasksInv
  <2>2. BufferOffset(k)' = 0
    BY <1>2 DEF BufferOffset
  <2>3. inited'[k] <= 1 => total_size[k] = 0
    <3>1. inited[k] \in Nat /\ (inited[k] = 0 => ranges[k] = << >> /\ total_size[k] = BufferOffset(k))
      BY <2>1 DEF TaskInv
    <3> QED BY <3>1, <1>2 DEF BufferOffset
  <2>4. /\ << >> \in Seq(RangeType) /\ 1 .. Len(<< >>) = {} /\ 0 .. 0 - 1 = {}
        /\ inited'[k] \in Nat /\ inited'[k] # 0 /\ total_size[k] \in Nat
        /\ 0 \in 0 .. BufferBlocks
    BY <2>1, <1>2, LibAssumption DEF TaskInv
  <2> QED BY <2>2, <2>3, <2>4, <1>1, <1>2 DEF TaskInv
<1> QED BY <1>1, <1>2, <1>3, <1>4 DEF TasksInv

\* A range that is added begins where the last one ends.
LEMMA AddRangeStep ==
  ASSUME TasksInv, NEW k \in Tasks, chario_add_range_to_task(k)
  PROVE  TasksInv'
<1>1. PICK n \in Lengths, s \in 0 .. DiskBlocks - 1 :
        /\ s + n <= DiskBlocks /\ End(k) + n <= BufferBlocks
        /\ ranges' = [ranges EXCEPT ![k] =
              Append(@, [start |-> s, count |-> n, buffer_offset |-> BufferOffset(k)])]
        /\ total_size' = [total_size EXCEPT ![k] = @ + n]
  BY Zenon DEF chario_add_range_to_task
<1> DEFINE e0 == BufferOffset(k)
           new == [start |-> s, count |-> n, buffer_offset |-> e0]
           old == ranges[k]
           L == Len(old)
<1>0. TaskInv(k)
  BY DEF TasksInv
<1>a. n \in Nat \ {0} /\ BufferBlocks \in Nat /\ DiskBlocks \in Nat
  BY LibAssumption
<1>b. /\ old \in Seq(RangeType) /\ L \in Nat
      /\ e0 \in 0 .. BufferBlocks /\ total_size[k] \in Nat /\ End(k) = e0
  BY <1>0 DEF TaskInv, End, BufferOffset
<1>2. /\ old \in Seq(RangeType) /\ L \in Nat /\ new \in RangeType
      /\ n \in Nat \ {0} /\ e0 \in Nat /\ BufferBlocks \in Nat
      /\ DiskBlocks \in Nat
  BY <1>a, <1>b DEF RangeType
<1>3. ranges'[k] = Append(old, new) /\ total_size'[k] = total_size[k] + n
  BY <1>1, <1>b DEF TasksInv
<1>4. /\ Append(old, new) \in Seq(RangeType) /\ Len(Append(old, new)) = L + 1
      /\ \A j \in 1 .. L : Append(old, new)[j] = old[j]
      /\ Append(old, new)[L + 1] = new
  BY <1>2
<1>c. new.start = s /\ new.count = n /\ new.buffer_offset = e0
  OBVIOUS
<1> HIDE DEF new, e0
<1>5. /\ inited' = inited /\ inited[k] > 0
      /\ \A e \in Tasks \ {k} : ranges'[e] = ranges[e] /\ total_size'[e] = total_size[e]
      /\ ranges' = [e \in Tasks |-> ranges'[e]]
      /\ total_size' = [e \in Tasks |-> total_size'[e]]
  BY Zenon, <1>1 DEF TasksInv, chario_add_range_to_task
<1>6. ASSUME NEW e \in Tasks \ {k} PROVE TaskInv(e)'
  <2>1. TaskInv(e)
    BY DEF TasksInv
  <2> QED BY <2>1, <1>5, TaskFrame
<1>7. TaskInv(k)'
  <2>1. BufferOffset(k)' = e0 + n
    <3> DEFINE s1 == ranges'[k]
    <3>1. Len(s1) = L + 1 /\ s1[L + 1] = new /\ L \in Nat
      BY <1>b, <1>3, <1>4
    <3>2. s1[Len(s1)].count = n /\ s1[Len(s1)].buffer_offset = e0 /\ Len(s1) # 0
      BY <3>1, <1>c
    <3>3. BufferOffset(k)' = s1[Len(s1)].buffer_offset + s1[Len(s1)].count
      BY <3>2 DEF BufferOffset
    <3> QED BY <3>2, <3>3, <1>3
  <2>2. \A j \in 1 .. L : old[j] \in RangeType
    BY <1>2
  <2>3. \A j \in 1 .. Len(ranges'[k]) :
          /\ ranges'[k][j].start + ranges'[k][j].count <= DiskBlocks
          /\ ranges'[k][j].buffer_offset + ranges'[k][j].count <= e0 + n
    <3>1. ASSUME NEW j \in 1 .. L
          PROVE  /\ old[j].start + old[j].count <= DiskBlocks
                 /\ old[j].buffer_offset + old[j].count <= e0 + n
      <4>1. /\ old[j].start + old[j].count <= DiskBlocks
            /\ old[j].buffer_offset + old[j].count <= e0
        BY <1>0 DEF TaskInv, e0
      <4>2. old[j].buffer_offset \in Nat /\ old[j].count \in Nat
        BY <2>2, RangeFields
      <4>3. e0 \in Nat /\ n \in Nat
        BY <1>2
      <4> HIDE DEF old
      <4> QED BY <4>1, <4>2, <4>3
    <3> QED BY <3>1, <1>1, <1>a, <1>b, <1>c, <1>3, <1>4
  <2>4. \A i, j \in 1 .. Len(ranges'[k]) : i < j =>
          ranges'[k][i].buffer_offset + ranges'[k][i].count <= ranges'[k][j].buffer_offset
    <3>1. \A i, j \in 1 .. L : i < j => old[i].buffer_offset + old[i].count <= old[j].buffer_offset
      BY SMTT(20), <1>0 DEF TaskInv
    <3>2. \A i \in 1 .. L : old[i].buffer_offset + old[i].count <= e0
      BY <1>0 DEF TaskInv, e0
    <3> QED BY <3>1, <3>2, <1>b, <1>c, <1>3, <1>4
  <2>5. ASSUME NEW b \in 0 .. e0 + n - 1
        PROVE  \E j \in 1 .. Len(ranges'[k]) :
                 /\ ranges'[k][j].buffer_offset <= b
                 /\ b < ranges'[k][j].buffer_offset + ranges'[k][j].count
    <3>1. CASE b < e0
      <4>1. PICK j \in 1 .. L : old[j].buffer_offset <= b /\ b < old[j].buffer_offset + old[j].count
        <5>1. b \in 0 .. e0 - 1
          BY <3>1, <1>2, <1>3
        <5> QED BY <5>1, <1>0 DEF TaskInv, e0
      <4>2. j \in 1 .. L + 1 /\ Append(old, new)[j] = old[j]
        BY <1>b, <1>4
      <4> HIDE DEF old, L
      <4> QED BY <4>1, <4>2, <1>3, <1>4
    <3>2. CASE ~(b < e0)
      <4>1. new.buffer_offset <= b /\ b < new.buffer_offset + new.count
        BY <3>2, <1>a, <1>b, <1>c, <1>3
      <4>2. L + 1 \in 1 .. L + 1
        BY <1>b
      <4> HIDE DEF old, L
      <4> QED BY <4>1, <4>2, <1>3, <1>4
    <3> QED BY <3>1, <3>2
  <2>6. ranges'[k] \in Seq(RangeType) /\ e0 + n \in 0 .. BufferBlocks
    BY <1>1, <1>b, <1>2, <1>3, <1>4
  <2>7. /\ total_size'[k] \in Nat /\ inited'[k] \in Nat /\ inited'[k] # 0
        /\ inited'[k] <= 1 => total_size'[k] = e0 + n
    <3>1. inited[k] \in Nat /\ (inited[k] <= 1 => total_size[k] = e0)
      BY <1>0 DEF TaskInv, e0
    <3>2. total_size'[k] = total_size[k] + n /\ inited'[k] = inited[k] /\ inited[k] > 0
      BY <1>3, <1>5
    <3> QED BY <3>1, <3>2, <1>a, <1>b
  <2>8. /\ ranges'[k] \in Seq(RangeType) /\ BufferOffset(k)' \in 0 .. BufferBlocks
        /\ inited'[k] <= 1 => total_size'[k] = BufferOffset(k)'
    BY Zenon, <2>1, <2>6, <2>7
  <2>9. \A j \in 1 .. Len(ranges'[k]) :
          /\ ranges'[k][j].start + ranges'[k][j].count <= DiskBlocks
          /\ ranges'[k][j].buffer_offset + ranges'[k][j].count <= BufferOffset(k)'
    BY Zenon, <2>1, <2>3
  <2>10. \A b \in 0 .. BufferOffset(k)' - 1 : \E j \in 1 .. Len(ranges'[k]) :
           /\ ranges'[k][j].buffer_offset <= b
           /\ b < ranges'[k][j].buffer_offset + ranges'[k][j].count
    <3>1. 0 .. BufferOffset(k)' - 1 = 0 .. e0 + n - 1
      BY <2>1, <1>a, <1>b
    <3>2. \A b \in 0 .. e0 + n - 1 : \E j \in 1 .. Len(ranges'[k]) :
            /\ ranges'[k][j].buffer_offset <= b
            /\ b < ranges'[k][j].buffer_offset + ranges'[k][j].count
      BY Zenon, <2>5
    <3> QED BY Zenon, <3>1, <3>2
  <2> QED BY Zenon, <2>4, <2>7, <2>8, <2>9, <2>10 DEF TaskInv
<1> QED BY <1>5, <1>6, <1>7 DEF TasksInv

-----------------------------------------------------------------------------
(* The loop over the ranges.                                               *)

\* The range the loop is at, while the device is at work for it.
LEMMA RangeFacts ==
  ASSUME IInv, pc # "idle", item <= Len(ranges[task])
  PROVE  /\ task \in Tasks /\ item \in 1 .. Len(ranges[task]) /\ item \in Nat
         /\ Len(ranges[task]) \in Nat
         /\ Range.start \in Nat /\ Range.count \in Nat \ {0} /\ Range.buffer_offset \in Nat
         /\ Range.start + Range.count <= DiskBlocks
         /\ Range.buffer_offset + Range.count <= BufferBlocks
<1>1. task \in Tasks /\ item \in 1 .. Len(ranges[task]) + 1
  BY DEF IInv, LoopInv
<1>2. TaskInv(task)
  BY <1>1 DEF IInv, TasksInv
<1>3. ranges[task] \in Seq(RangeType) /\ Len(ranges[task]) \in Nat
  BY <1>2 DEF TaskInv
<1>4. item \in 1 .. Len(ranges[task]) /\ item \in Nat
  BY <1>1, <1>3
<1>5. Range \in RangeType
  BY <1>3, <1>4 DEF Range
<1>6. Range.start \in Nat /\ Range.count \in Nat \ {0} /\ Range.buffer_offset \in Nat
  BY <1>5, RangeFields
<1>7. /\ Range.start + Range.count <= DiskBlocks
      /\ Range.buffer_offset + Range.count <= BufferOffset(task)
      /\ BufferOffset(task) \in 0 .. BufferBlocks
  BY <1>2, <1>4 DEF TaskInv, Range
<1>8. Range.buffer_offset + Range.count <= BufferBlocks
  BY <1>6, <1>7, LibAssumption
<1> QED BY <1>1, <1>3, <1>4, <1>6, <1>7, <1>8

\* A step that moves nothing, and after which the same blocks count as moved.
LEMMA MovedFrame ==
  ASSUME IInv, UNCHANGED <<disk, mem, ranges, task>>, Loading' => Loading,
         Flushing' => Flushing, Sound' => Sound,
         \A l \in 1 .. Len(ranges[task]), d \in 0 .. DiskBlocks - 1 :
            Written(l, d)' <=> Written(l, d)
  PROVE  LoadInv' /\ FlushInv'
<1>1. \A l, d : Place(l, d)' = Place(l, d)
  BY DEF Place
<1>2. LoadInv'
  BY <1>1 DEF IInv, LoadInv
<1>3. ASSUME Flushing', Sound', NEW j \in 1 .. Len(ranges[task]),
             NEW d \in 0 .. DiskBlocks - 1, Written(j, d)'
      PROVE  \E l \in j .. Len(ranges[task]) :
               /\ Written(l, d)'
               /\ disk'[d] = mem'[lib][Place(l, d)']
               /\ \A m \in l + 1 .. Len(ranges[task]) : ~Written(m, d)'
  <2>1. Written(j, d)
    BY <1>3
  <2>2. PICK l \in j .. Len(ranges[task]) :
          /\ Written(l, d)
          /\ disk[d] = mem[lib][Place(l, d)]
          /\ \A m \in l + 1 .. Len(ranges[task]) : ~Written(m, d)
    BY <2>1, <1>3 DEF IInv, FlushInv
  <2>3. l \in 1 .. Len(ranges[task]) /\ \A m \in l + 1 .. Len(ranges[task]) : m \in 1 .. Len(ranges[task])
    OBVIOUS
  <2> QED BY <2>2, <2>3, <1>1
<1>4. FlushInv'
  BY <1>3 DEF FlushInv
<1> QED BY <1>2, <1>4

\* lseek puts the file at the start of the range.
LEMMA LseekStep ==
  ASSUME IInv, Lseek
  PROVE  IInv'
<1>1. /\ pc \in {"load", "flush"} /\ item <= Len(ranges[task]) /\ call[lib] = NoCall
      /\ UNCHANGED <<disk, mem, call, done, lost, fd, inited, ranges, total_size, task, item, ok>>
      /\ f_pos'[1] = Range.start /\ pc' = IF pc = "load" THEN "load_io" ELSE "flush_io"
  BY DEF Lseek, Device!Seek, taskVars
<1>2. Range.start \in Nat /\ item \in 1 .. Len(ranges[task]) /\ task \in Tasks
  BY <1>1, RangeFacts
<1>3. TasksInv'
  BY TasksFrame DEF IInv, Lseek
<1>4. DeviceInv'
  <2>1. f_pos' \in [{1} -> Nat]
    BY <1>1, <1>2 DEF IInv, DeviceInv, Lseek, Device!Seek
  <2>2. ret' = [t \in {lib} |-> ret'[t]]
    BY DEF IInv, DeviceInv, Lseek, Device!Seek
  <2> QED BY <1>1, <2>1, <2>2 DEF IInv, DeviceInv
<1>5. LoopInv'
  BY <1>1, <1>2 DEF IInv, LoopInv, InIo, Range
<1>6. LoadInv' /\ FlushInv'
  BY <1>1, MovedFrame DEF Loading, Flushing, Sound, Written, Has, Moved
<1> QED BY <1>3, <1>4, <1>5, <1>6 DEF IInv

\* read or write is called for the range.
LEMMA RangeIoStep ==
  ASSUME IInv, Read \/ Write
  PROVE  IInv'
<1> DEFINE c == [op |-> IF pc = "load_io" THEN "read" ELSE "write", file |-> 1,
                 buf |-> Range.buffer_offset, count |-> Range.count,
                 pos |-> Range.start]
<1>1. /\ InIo /\ call[lib] = NoCall /\ f_pos[1] = Range.start
      /\ item <= Len(ranges[task])
      /\ UNCHANGED <<disk, mem, f_pos, ret, fd, inited, ranges, total_size, pc, task, item, ok>>
  BY DEF IInv, LoopInv, InIo, Read, Write, RangeIo, Device!Begin, taskVars
<1>2. PICK op \in Device!Ops, b \in 0 .. BufferBlocks, n \in Lengths :
        call' = [call EXCEPT ![lib] = [op |-> op, file |-> 1, buf |-> b, count |-> n,
                                       pos |-> f_pos[1]]]
  BY DEF Read, Write, RangeIo, Device!Begin
<1>3. call'[lib] = [op |-> op, file |-> 1, buf |-> b, count |-> n, pos |-> f_pos[1]]
  BY <1>2 DEF IInv, DeviceInv
<1>4. /\ op = IF pc = "load_io" THEN "read" ELSE "write"
      /\ n = Range.count /\ b = Range.buffer_offset
  BY <1>1, <1>3 DEF Read, Write, RangeIo, Range
<1>5. call'[lib] = c /\ call' = [t \in {lib} |-> call'[t]]
  BY Zenon, <1>1, <1>2, <1>3, <1>4 DEF IInv, DeviceInv
<1>6. done' = [t \in {lib} |-> {}] /\ lost' \in [{lib} -> BOOLEAN]
  BY DEF IInv, DeviceInv, Read, Write, RangeIo, Device!Begin
<1>7. Range.count \in Nat /\ task \in Tasks /\ Range' = Range
  BY <1>1, RangeFacts DEF InIo, Range
<1> HIDE DEF c
<1>8. TasksInv'
  BY TasksFrame DEF IInv, Read, Write, RangeIo
<1>9. DeviceInv'
  BY <1>1, <1>5, <1>6 DEF IInv, DeviceInv
<1>10. LoopInv'
  BY <1>1, <1>5, <1>6, <1>7 DEF IInv, LoopInv, InIo, c
<1>11. LoadInv' /\ FlushInv'
  <2>1. ASSUME NEW l \in 1 .. Len(ranges[task]), NEW d \in 0 .. DiskBlocks - 1
        PROVE  Written(l, d)' <=> Written(l, d)
    BY <1>1, <1>6 DEF Written, Has, Moved
  <2> QED BY <2>1, <1>1, MovedFrame DEF Loading, Flushing, Sound
<1> QED BY <1>8, <1>9, <1>10, <1>11 DEF IInv

\* A block of a range that starts at s and has its place in the buffer from o.
LEMMA PlaceArith ==
  ASSUME NEW d \in Int, NEW s \in Nat, NEW o \in Nat, NEW n \in Nat,
         NEW size \in Nat, o + n <= size, d - s \in 0 .. n - 1
  PROVE  /\ o + (d - s) \in 0 .. size - 1
         /\ (o + (d - s)) - o = d - s
         /\ s + (d - s) = d
         /\ s <= d /\ d < s + n
OBVIOUS

\* The places of blocks of a range that lies in front of o are not behind o.
LEMMA ApartArith ==
  ASSUME NEW d \in Int, NEW x \in Nat, NEW y \in Nat, NEW z \in Nat, NEW o \in Nat,
         NEW n \in Nat, NEW size \in Nat, y + z <= size, x <= d, d < x + z
  PROVE  /\ y + (d - x) \in 0 .. size - 1
         /\ y + z <= o => (y + (d - x)) - o \notin 0 .. n - 1
         /\ y = o => (y + (d - x)) - o = d - x
OBVIOUS

\* The device settles some blocks of the range: it moves those of a load into
\* the range's own part of the buffer, those of a flush over what earlier ranges
\* have put there.
LEMMA DeviceStepStep ==
  ASSUME IInv, DeviceStep
  PROVE  IInv'
<1> DEFINE r == Range
           L == Len(ranges[task])
<1>1. /\ call[lib] # NoCall
      /\ UNCHANGED <<f_pos, call, ret, fd, inited, ranges, total_size, pc, task, item, ok>>
  BY DEF DeviceStep, Device!Progress, taskVars
<1>2. /\ InIo /\ item <= L /\ done[lib] \subseteq 0 .. r.count - 1
      /\ call[lib] = [op |-> IF pc = "load_io" THEN "read" ELSE "write", file |-> 1,
                      buf |-> r.buffer_offset, count |-> r.count, pos |-> r.start]
  BY <1>1 DEF IInv, LoopInv, DeviceInv
<1>3. /\ task \in Tasks /\ item \in 1 .. L /\ item \in Nat /\ L \in Nat
      /\ r.start \in Nat /\ r.count \in Nat \ {0} /\ r.buffer_offset \in Nat
      /\ r.start + r.count <= DiskBlocks /\ r.buffer_offset + r.count <= BufferBlocks
  BY <1>2, RangeFacts DEF InIo
<1>a. /\ call[lib].count = r.count /\ call[lib].buf = r.buffer_offset
      /\ call[lib].pos = r.start
      /\ Device!IsRead(call[lib].op) => pc = "load_io"
      /\ ~Device!IsRead(call[lib].op) => pc = "flush_io"
  BY <1>2 DEF Device!IsRead, InIo
<1>e. PICK S \in SUBSET (Device!Bytes(call[lib]) \ done[lib]) :
        /\ done' = [done EXCEPT ![lib] = @ \cup S]
        /\ \E moved \in SUBSET S : /\ lost' = [lost EXCEPT ![lib] = @ \/ moved # S]
                                   /\ Device!Move(lib, moved)
  BY Zenon DEF DeviceStep, Device!Progress
<1>b. PICK M \in SUBSET S : /\ lost' = [lost EXCEPT ![lib] = @ \/ M # S]
                            /\ Device!Move(lib, M)
  BY Zenon, <1>e
<1>4. /\ S \subseteq 0 .. r.count - 1 /\ S \cap done[lib] = {}
      /\ done' = [t \in {lib} |-> done'[t]] /\ done'[lib] = done[lib] \cup S
      /\ lost' \in [{lib} -> BOOLEAN] /\ (lost'[lib] <=> lost[lib] \/ M # S)
  BY <1>a, <1>b, <1>e DEF Device!Bytes, IInv, DeviceInv
<1>c. \/ /\ pc = "load_io" /\ disk' = disk
         /\ mem' = [mem EXCEPT ![lib] = [k \in DOMAIN mem[lib] |->
                       IF k - r.buffer_offset \in M
                       THEN disk[r.start + (k - r.buffer_offset)] ELSE mem[lib][k]]]
      \/ /\ pc = "flush_io" /\ mem' = mem
         /\ disk' = [k \in DOMAIN disk |->
                       IF k - r.start \in M
                       THEN mem[lib][r.buffer_offset + (k - r.start)] ELSE disk[k]]
  BY SMTT(20), <1>a, <1>b DEF Device!Move
<1>d. Sound' => M = S /\ Sound
  BY <1>1, <1>4 DEF Sound
<1>5. TasksInv'
  BY TasksFrame DEF IInv, DeviceStep
<1>6. DeviceInv'
  BY <1>1, <1>3, <1>4, <1>c DEF IInv, DeviceInv
<1>7. LoopInv'
  <2>1. Range' = Range /\ InIo' = InIo /\ LoopInv
    BY <1>1 DEF IInv, Range, InIo
  <2>2. done'[lib] \subseteq 0 .. Range.count - 1
    BY <1>2, <1>4
  <2> QED BY <1>1, <2>1, <2>2 DEF LoopInv
<1>8. ASSUME NEW l \in 1 .. L
      PROVE  /\ ranges[task][l].start \in Nat /\ ranges[task][l].count \in Nat
             /\ ranges[task][l].buffer_offset \in Nat
             /\ ranges[task][l].buffer_offset + ranges[task][l].count <= BufferBlocks
             /\ l < item => ranges[task][l].buffer_offset + ranges[task][l].count <= r.buffer_offset
  <2>1. TaskInv(task)
    BY <1>3 DEF IInv, TasksInv
  <2>2. ranges[task][l] \in RangeType
    BY <2>1 DEF TaskInv
  <2>3. /\ ranges[task][l].buffer_offset + ranges[task][l].count <= BufferOffset(task)
        /\ BufferOffset(task) \in 0 .. BufferBlocks
    BY <2>1 DEF TaskInv
  <2>4. l < item => ranges[task][l].buffer_offset + ranges[task][l].count <= r.buffer_offset
    BY <2>1, <1>3 DEF TaskInv, Range
  <2> QED BY <2>2, <2>3, <2>4, RangeFields, LibAssumption
<1>9. ASSUME NEW l \in 1 .. L, NEW d \in 0 .. DiskBlocks - 1
      PROVE  /\ Has(l, d)' <=> Has(l, d)
             /\ Place(l, d)' = Place(l, d)
             /\ Written(l, d)' <=> Written(l, d) \/ (l = item /\ d - r.start \in S)
  <2>1. /\ Has(l, d)' <=> Has(l, d)
        /\ Place(l, d)' = Place(l, d)
    BY <1>1 DEF Has, Place
  <2>2. /\ Written(l, d)' <=> Has(l, d) /\ Moved(l, d - ranges[task][l].start)'
        /\ Moved(l, d - ranges[task][l].start)' <=>
             \/ l < item /\ d - ranges[task][l].start < ranges[task][l].count
             \/ l = item /\ d - ranges[task][l].start \in done'[lib]
    BY <2>1, <1>1 DEF Written, Moved
  <2>3. CASE l = item
    <3>1. ranges[task][l] = r
      BY <2>3 DEF Range
    <3>2. Written(l, d) <=> Has(l, d) /\ d - r.start \in done[lib]
      BY <3>1, <2>3, <1>1, <1>3 DEF Written, Moved
    <3>3. Written(l, d)' <=> Has(l, d) /\ d - r.start \in done[lib] \cup S
      BY <3>1, <2>2, <2>3, <1>3, <1>4
    <3>4. d - r.start \in S => Has(l, d)
      <4>1. d \in Int /\ r.start \in Nat /\ r.count \in Nat
        BY <1>3
      <4>2. d - r.start \in S => d - r.start \in 0 .. r.count - 1
        BY <1>4
      <4>3. d - r.start \in 0 .. r.count - 1 => r.start <= d /\ d < r.start + r.count
        <5> HIDE DEF r
        <5> QED BY <4>1
      <4> QED BY <3>1, <4>2, <4>3 DEF Has
    <3> QED BY <3>2, <3>3, <3>4, <2>1, <2>3
  <2>4. CASE l # item
    BY <2>1, <2>2, <2>4 DEF Written, Moved
  <2> QED BY <2>3, <2>4
<1>10. CASE pc = "load_io"
  <2>1. LoadInv'
    <3> SUFFICES ASSUME Sound', NEW l \in 1 .. L, NEW d \in 0 .. DiskBlocks - 1, Written(l, d)'
                 PROVE  mem'[lib][Place(l, d)] = disk[d]
      BY <1>1, <1>c, <1>9, <1>10 DEF LoadInv
    <3>0. M = S /\ Sound
      BY <1>d
    <3>1. /\ disk' = disk
          /\ DOMAIN mem[lib] = 0 .. BufferBlocks - 1
          /\ \A k \in 0 .. BufferBlocks - 1 :
               mem'[lib][k] = IF k - r.buffer_offset \in S
                              THEN disk[r.start + (k - r.buffer_offset)] ELSE mem[lib][k]
      BY <3>0, <1>c, <1>10 DEF IInv, DeviceInv
    <3>2. CASE l = item /\ d - r.start \in S
      <4>1. /\ Place(l, d) = r.buffer_offset + (d - r.start)
            /\ Place(l, d) \in 0 .. BufferBlocks - 1
            /\ Place(l, d) - r.buffer_offset = d - r.start
            /\ r.start + (d - r.start) = d
        <5>1. Place(l, d) = r.buffer_offset + (d - r.start)
          BY <3>2 DEF Place, Range
        <5>2. /\ d \in Int /\ r.start \in Nat /\ r.count \in Nat
              /\ r.buffer_offset \in Nat /\ BufferBlocks \in Nat
              /\ r.buffer_offset + r.count <= BufferBlocks /\ d - r.start \in 0 .. r.count - 1
          BY <3>2, <1>3, <1>4, LibAssumption
        <5> HIDE DEF r
        <5>3. /\ r.buffer_offset + (d - r.start) \in 0 .. BufferBlocks - 1
              /\ (r.buffer_offset + (d - r.start)) - r.buffer_offset = d - r.start
              /\ r.start + (d - r.start) = d
          BY Zenon, <5>2, PlaceArith
        <5> QED BY <5>1, <5>3
      <4> QED BY <4>1, <3>1, <3>2
    <3>3. CASE Written(l, d) /\ ~(l = item /\ d - r.start \in S)
      <4>1. mem[lib][Place(l, d)] = disk[d]
        BY <3>0, <3>3, <1>10 DEF IInv, LoadInv, Loading
      <4>2. Place(l, d) \in 0 .. BufferBlocks - 1 /\ Place(l, d) - r.buffer_offset \notin S
        <5> DEFINE x == ranges[task][l].start
                   y == ranges[task][l].buffer_offset
                   z == ranges[task][l].count
        <5>1. /\ x \in Nat /\ y \in Nat /\ z \in Nat /\ y + z <= BufferBlocks
              /\ l < item => y + z <= r.buffer_offset
          BY <1>8
        <5>2. x <= d /\ d < x + z /\ (l < item \/ l = item)
          BY <3>3 DEF Written, Has, Moved
        <5>3. Place(l, d) = y + (d - x)
          BY DEF Place
        <5>4. l = item => y = r.buffer_offset /\ x = r.start
          BY DEF Range
        <5>5. d \in Int /\ BufferBlocks \in Nat /\ r.buffer_offset \in Nat /\ r.count \in Nat
          BY <1>3, LibAssumption
        <5> HIDE DEF x, y, z, r
        <5>6. /\ y + (d - x) \in 0 .. BufferBlocks - 1
              /\ y + z <= r.buffer_offset => (y + (d - x)) - r.buffer_offset \notin 0 .. r.count - 1
              /\ y = r.buffer_offset => (y + (d - x)) - r.buffer_offset = d - x
          BY SMTT(20), <5>1, <5>2, <5>5, ApartArith
        <5>7. CASE l < item
          BY <5>7, <5>1, <5>3, <5>6, <1>4
        <5>8. CASE l = item
          BY <5>8, <5>3, <5>4, <5>6, <3>3
        <5> QED BY <5>2, <5>7, <5>8
      <4> QED BY <4>1, <4>2, <3>1
    <3> QED BY <3>2, <3>3, <1>9
  <2>2. FlushInv'
    BY <1>1, <1>10 DEF FlushInv, Flushing
  <2> QED BY <2>1, <2>2, <1>5, <1>6, <1>7 DEF IInv
<1>11. CASE pc = "flush_io"
  <2>1. LoadInv'
    BY <1>1, <1>11 DEF LoadInv, Loading
  <2>2. FlushInv'
    <3> SUFFICES ASSUME Sound', NEW j \in 1 .. L, NEW d \in 0 .. DiskBlocks - 1, Written(j, d)'
                 PROVE  \E l \in j .. L : /\ Written(l, d)'
                                         /\ disk'[d] = mem'[lib][Place(l, d)']
                                         /\ \A m \in l + 1 .. L : ~Written(m, d)'
      BY <1>1 DEF FlushInv
    <3>0. M = S /\ Sound
      BY <1>d
    <3>1. /\ mem' = mem
          /\ disk'[d] = IF d - r.start \in S
                        THEN mem[lib][r.buffer_offset + (d - r.start)] ELSE disk[d]
      BY <3>0, <1>c, <1>11 DEF IInv, DeviceInv
    <3>2. CASE d - r.start \in S
      <4>1. PICK i \in 1 .. L : i = item
        BY <1>3
      <4>2. Written(i, d)' /\ i \in j .. L
        <5>1. Written(i, d)'
          BY <4>1, <3>2, <1>9
        <5>2. Moved(j, d - ranges[task][j].start)'
          BY <1>1 DEF Written
        <5>3. j <= item
          BY <5>2, <1>1, <1>3 DEF Moved
        <5> QED BY <4>1, <5>1, <5>3, <1>3
      <4>3. Place(i, d)' = r.buffer_offset + (d - r.start)
        BY <4>1, <1>1 DEF Place, Range
      <4>4. disk'[d] = mem'[lib][Place(i, d)']
        BY <4>3, <3>1, <3>2
      <4>5. \A m \in i + 1 .. L : ~Written(m, d)'
        BY SMTT(30), ZenonT(30), <4>1, <1>1, <1>3 DEF Written, Moved
      <4> QED BY <4>2, <4>4, <4>5
    <3>3. CASE d - r.start \notin S
      <4>1. \A m \in 1 .. L : Written(m, d)' <=> Written(m, d)
        BY <3>3, <1>9
      <4>2. PICK l \in j .. L : /\ Written(l, d) /\ disk[d] = mem[lib][Place(l, d)]
                               /\ \A m \in l + 1 .. L : ~Written(m, d)
        BY <4>1, <3>0, <1>11 DEF IInv, FlushInv, Flushing
      <4>3. l \in 1 .. L /\ \A m \in l + 1 .. L : m \in 1 .. L
        BY <1>3
      <4> QED BY <4>1, <4>2, <4>3, <3>1, <3>3, <1>9
    <3> QED BY <3>2, <3>3
  <2> QED BY <2>1, <2>2, <1>5, <1>6, <1>7 DEF IInv
<1> QED BY <1>c, <1>10, <1>11

\* The call ends: after a success the whole range has been moved.
LEMMA NextRangeStep ==
  ASSUME IInv, NextRange
  PROVE  IInv'
<1> DEFINE r == Range
           L == Len(ranges[task])
<1>1. /\ call[lib] # NoCall /\ call'[lib] = NoCall /\ done' = [t \in {lib} |-> done'[t]]
      /\ call' = [t \in {lib} |-> call'[t]] /\ ret' = [t \in {lib} |-> ret'[t]]
      /\ item' = item + 1 /\ pc' = IF pc = "load_io" THEN "load" ELSE "flush"
      /\ UNCHANGED <<disk, mem, lost, fd, inited, ranges, total_size, task>>
      /\ ok' = (ok /\ ret'[lib] \notin Errors /\ ~lost[lib])
  BY DEF IInv, DeviceInv, NextRange, Device!Succeed, Device!Fail, taskVars
<1>2. /\ InIo /\ item <= L
      /\ call[lib] = [op |-> IF pc = "load_io" THEN "read" ELSE "write", file |-> 1,
                      buf |-> r.buffer_offset, count |-> r.count, pos |-> r.start]
  BY <1>1 DEF IInv, LoopInv, DeviceInv
<1>3. /\ task \in Tasks /\ item \in 1 .. L /\ L \in Nat /\ r.start \in Nat
      /\ r.count \in Nat
  BY <1>2, RangeFacts DEF InIo
<1>4. TasksInv'
  BY TasksFrame DEF IInv, NextRange
<1>5. DeviceInv'
  <2>1. f_pos' \in [{1} -> Nat]
    <3>1. CASE Device!Fail(lib)
      BY <3>1 DEF Device!Fail, IInv, DeviceInv
    <3>2. CASE Device!Succeed(lib)
      <4>1. /\ call[lib].file = 1 /\ call[lib].count = r.count
            /\ call[lib].pos = r.start /\ call[lib].op \in {"read", "write"}
        BY <1>2
      <4>2. Device!NewPos(call[lib]) = r.count + r.start
        BY <4>1 DEF Device!NewPos
      <4>3. f_pos' = [f_pos EXCEPT ![1] = r.count + r.start]
        BY <4>1, <4>2, <3>2 DEF Device!Succeed
      <4> QED BY <4>3, <1>3 DEF IInv, DeviceInv
    <3> QED BY <3>1, <3>2 DEF NextRange
  <2> QED BY <2>1, <1>1 DEF IInv, DeviceInv
<1>6. LoopInv'
  BY <1>1, <1>2, <1>3 DEF IInv, LoopInv, InIo
<1>7. LoadInv' /\ FlushInv'
  <2>1. CASE Device!Fail(lib)
    <3>1. ret'[lib] \in Errors
      BY <2>1 DEF Device!Fail, IInv, DeviceInv
    <3> QED BY Zenon, <3>1, <1>1 DEF LoadInv, FlushInv, Sound
  <2>2. CASE Device!Succeed(lib)
    <3>1. done[lib] = 0 .. r.count - 1
      BY <2>2, <1>2 DEF Device!Succeed, Device!Bytes
    <3>2. ASSUME NEW l \in 1 .. L, NEW d \in 0 .. DiskBlocks - 1
          PROVE  Written(l, d)' <=> Written(l, d)
      <4>1. CASE l = item
        <5>1. ranges[task][l] = r
          BY <4>1 DEF Range
        <5>2. Has(l, d)' <=> Has(l, d)
          BY <1>1 DEF Has
        <5>3. Has(l, d) => d - r.start \in 0 .. r.count - 1 /\ d - r.start < r.count
          <6>1. d \in Int /\ r.start \in Nat /\ r.count \in Nat
            BY <1>3
          <6>2. Has(l, d) => r.start <= d /\ d < r.start + r.count
            BY <5>1 DEF Has
          <6> HIDE DEF r
          <6> QED BY <6>1, <6>2
        <5>4. Written(l, d) <=> Has(l, d) /\ d - r.start \in 0 .. r.count - 1
          BY <5>1, <4>1, <3>1, <1>1, <1>3 DEF Written, Moved
        <5>5. Written(l, d)' <=> Has(l, d) /\ d - r.start < r.count
          BY <5>1, <5>2, <4>1, <1>1, <1>3 DEF Written, Moved
        <5> QED BY <5>3, <5>4, <5>5
      <4>2. CASE l # item
        BY SMTT(20), <4>2, <1>1, <1>3 DEF Written, Has, Moved
      <4> QED BY <4>1, <4>2
    <3>3. /\ Loading' => Loading
          /\ Flushing' => Flushing
          /\ Sound' => Sound
      BY <1>1, <1>2 DEF Loading, Flushing, InIo, IInv, LoopInv, Sound
    <3> QED BY <3>2, <3>3, <1>1, MovedFrame
  <2> QED BY <2>1, <2>2 DEF NextRange
<1> QED BY <1>4, <1>5, <1>6, <1>7 DEF IInv

\* The loop ends.
LEMMA ReturnStep ==
  ASSUME IInv, Return
  PROVE  IInv'
<1>1. /\ pc \in {"load", "flush"} /\ item > Len(ranges[task])
      /\ pc' = IF pc = "load" THEN "loaded" ELSE "flushed"
      /\ UNCHANGED <<disk, mem, f_pos, call, done, lost, ret, fd, inited, ranges, total_size,
                     task, item, ok>>
  BY DEF Return, deviceVars, taskVars
<1>2. task \in Tasks /\ item \in 1 .. Len(ranges[task]) + 1 /\ Len(ranges[task]) \in Nat
  BY <1>1 DEF IInv, LoopInv, TasksInv, TaskInv
<1>3. TasksInv'
  BY TasksFrame DEF IInv, Return
<1>4. DeviceInv'
  BY <1>1 DEF IInv, DeviceInv
<1>5. LoopInv'
  BY SMTT(20), <1>1, <1>2 DEF IInv, LoopInv, InIo
<1>6. LoadInv' /\ FlushInv'
  BY <1>1, MovedFrame DEF Loading, Flushing, Sound, Written, Has, Moved
<1> QED BY <1>3, <1>4, <1>5, <1>6 DEF IInv

\* A load or a flush begins, with nothing moved.
LEMMA BeginStep ==
  ASSUME IInv, NEW k \in Tasks, Begin(k, "load") \/ Begin(k, "flush"), fd
  PROVE  IInv'
<1>1. /\ pc = "idle" /\ pc' \in {"load", "flush"} /\ task' = k /\ item' = 1 /\ ok' = TRUE
      /\ UNCHANGED <<disk, mem, f_pos, call, done, lost, ret, fd, inited, ranges, total_size>>
  <2>1. CASE Begin(k, "load")
    BY <2>1 DEF Begin, deviceVars, taskVars
  <2>2. CASE Begin(k, "flush")
    BY <2>2 DEF Begin, deviceVars, taskVars
  <2> QED BY Zenon, <2>1, <2>2
<1>2. Len(ranges[k]) \in Nat /\ call[lib] = NoCall
  BY <1>1 DEF IInv, LoopInv, TasksInv, TaskInv, InIo
<1>3. TasksInv'
  BY TasksFrame, <1>1 DEF IInv, Begin
<1>4. DeviceInv'
  BY SMTT(20), <1>1 DEF IInv, DeviceInv
<1>5. LoopInv'
  BY SMTT(20), <1>1, <1>2 DEF IInv, LoopInv, InIo
<1>6. \A l \in 1 .. Len(ranges'[task']), d \in 0 .. DiskBlocks - 1 : ~Written(l, d)'
  BY <1>1, <1>2 DEF Written, Moved
<1>7. LoadInv' /\ FlushInv'
  BY SMTT(20), <1>6 DEF LoadInv, FlushInv
<1> QED BY <1>3, <1>4, <1>5, <1>7 DEF IInv

\* While nothing is loaded or flushed there is nothing to say of the loop.
LEMMA IdleStep ==
  ASSUME IInv, TasksInv', DeviceInv', pc' = "idle", call' = call, call[lib] = NoCall,
         ok' \in BOOLEAN
  PROVE  IInv'
BY DEF IInv, LoopInv, InIo, LoadInv, Loading, FlushInv, Flushing

\* A task is set up.
LEMMA SetUpStep ==
  ASSUME IInv, NEW k \in Tasks,
         chario_init_task(k) \/ chario_add_range_to_task(k)
  PROVE  IInv'
<1>1. /\ pc = "idle" /\ pc' = pc /\ ok' = ok
      /\ UNCHANGED <<disk, mem, f_pos, call, done, lost, ret>>
  BY DEF chario_init_task, chario_add_range_to_task, deviceVars
<1>2. call[lib] = NoCall /\ ok' \in BOOLEAN
  BY <1>1 DEF IInv, LoopInv, InIo
<1>3. DeviceInv'
  BY <1>1 DEF IInv, DeviceInv
<1>4. TasksInv'
  BY InitTaskStep, AddRangeStep DEF IInv
<1> QED BY <1>1, <1>2, <1>3, <1>4, IdleStep

\* The program uses its part of the buffer.
LEMMA WorkStep ==
  ASSUME IInv, Work
  PROVE  IInv'
<1>1. /\ pc \in {"loaded", "flushed"} /\ pc' = "idle" /\ ok' = TRUE
      /\ UNCHANGED <<disk, f_pos, call, done, lost, ret>>
  BY DEF Work
<1>2. call[lib] = NoCall
  BY <1>1 DEF IInv, LoopInv, InIo
<1>3. mem' = [t \in {lib} |-> mem'[t]] /\ DOMAIN mem'[lib] = 0 .. BufferBlocks - 1
  BY DEF Work, IInv, DeviceInv
<1>4. DeviceInv'
  BY <1>1, <1>3 DEF IInv, DeviceInv
<1>5. TasksInv'
  BY TasksFrame DEF IInv, Work
<1> QED BY <1>1, <1>2, <1>4, <1>5, IdleStep

-----------------------------------------------------------------------------
(* The theorems.                                                           *)

LEMMA InitInv == Init => IInv
<1> SUFFICES ASSUME Init PROVE IInv
  OBVIOUS
<1>1. DeviceInv
  BY SMTT(20) DEF Init, Device!Init, Device!DiskContents, Device!MemContents, DeviceInv
<1>2. TasksInv
  BY LibAssumption DEF Init, TasksInv, TaskInv, BufferOffset
<1>3. LoopInv /\ LoadInv /\ FlushInv
  BY DEF Init, Device!Init, LoopInv, InIo, LoadInv, Loading, FlushInv, Flushing
<1> QED BY <1>1, <1>2, <1>3 DEF IInv

LEMMA NextInv ==
  ASSUME IInv, [Next]_vars
  PROVE  IInv'
<1>1. CASE UNCHANGED vars
  <2>1. /\ UNCHANGED <<disk, mem, f_pos, call, done, lost, ret, pc, task, item, ok, ranges>>
        /\ UNCHANGED taskVars
    BY <1>1 DEF vars, deviceVars, taskVars
  <2>2. TasksInv'
    BY <2>1, TasksFrame DEF IInv
  <2>3. DeviceInv' /\ LoopInv'
    BY SMTT(20), <2>1 DEF IInv, DeviceInv, LoopInv, InIo, Range
  <2>4. LoadInv' /\ FlushInv'
    BY <2>1, MovedFrame DEF Loading, Flushing, Sound, Written, Has, Moved
  <2> QED BY <2>2, <2>3, <2>4 DEF IInv
<1>2. CASE chario_init_device \/ chario_close_device
  <2>1. UNCHANGED taskVars /\ UNCHANGED deviceVars /\ pc = "idle" /\ pc' = pc /\ ok' = ok
    BY <1>2 DEF chario_init_device, chario_close_device
  <2>2. TasksInv'
    BY <2>1, TasksFrame DEF IInv
  <2>3. DeviceInv' /\ call' = call /\ call[lib] = NoCall /\ ok' \in BOOLEAN
    BY <2>1 DEF deviceVars, IInv, DeviceInv, LoopInv, InIo
  <2> QED BY <2>1, <2>2, <2>3, IdleStep
<1>3. ASSUME NEW k \in Tasks,
             \/ chario_init_task(k) \/ chario_add_range_to_task(k)
             \/ Begin(k, "load") \/ Begin(k, "flush")
      PROVE  IInv' \/ UNCHANGED vars
  <2>1. CASE fd
    BY <1>3, <2>1, SetUpStep, BeginStep
  <2>2. CASE ~fd
    BY <1>3, <2>2, SetUpStep DEF Begin
  <2> QED BY <2>1, <2>2
<1> QED BY <1>1, <1>2, <1>3, LseekStep, RangeIoStep, DeviceStepStep, NextRangeStep,
        ReturnStep, WorkStep DEF Next

\* The invariant holds of every behaviour.
THEOREM InductiveInvariant == Spec => []IInv
BY InitInv, NextInv, PTL DEF Spec

\* chario_add_range_to_task packs the ranges of a task without gap or overlap:
\* each block of the task's part of the buffer is in exactly one range.
THEOREM RangesTileHolds == Spec => []RangesTile
<1>1. ASSUME IInv PROVE RangesTile
  <2>a. ASSUME NEW k \in Tasks
        PROVE  End(k) = BufferOffset(k) /\ (inited[k] <= 1 => total_size[k] = BufferOffset(k))
    BY <1>1 DEF IInv, TasksInv, TaskInv, End, BufferOffset
  <2> SUFFICES ASSUME NEW k \in Tasks, NEW b \in 0 .. BufferOffset(k) - 1
               PROVE  \E j \in 1 .. Len(ranges[k]) :
                        /\ b \in ranges[k][j].buffer_offset ..
                                 ranges[k][j].buffer_offset + ranges[k][j].count - 1
                        /\ \A l \in 1 .. Len(ranges[k]) :
                             b \in ranges[k][l].buffer_offset ..
                                   ranges[k][l].buffer_offset + ranges[k][l].count - 1 => l = j
    BY Zenon, <2>a DEF RangesTile
  <2>1. TaskInv(k)
    BY <1>1 DEF IInv, TasksInv
  <2>2. \A l \in 1 .. Len(ranges[k]) :
           ranges[k][l].buffer_offset \in Nat /\ ranges[k][l].count \in Nat
    BY <2>1, RangeFields DEF TaskInv
  <2>3. PICK j \in 1 .. Len(ranges[k]) :
          ranges[k][j].buffer_offset <= b /\ b < ranges[k][j].buffer_offset + ranges[k][j].count
    BY <2>1 DEF TaskInv
  <2>4. ASSUME NEW l \in 1 .. Len(ranges[k]),
               ranges[k][l].buffer_offset <= b, b < ranges[k][l].buffer_offset + ranges[k][l].count
        PROVE  l = j
    <3> DEFINE from(x) == ranges[k][x].buffer_offset
               to(x) == ranges[k][x].buffer_offset + ranges[k][x].count
    <3>1. /\ l < j => to(l) <= from(j)
          /\ j < l => to(j) <= from(l)
      BY <2>1 DEF TaskInv
    <3>2. from(l) <= b /\ b < to(l) /\ from(j) <= b /\ b < to(j)
      BY <2>3, <2>4
    <3>3. /\ from(l) \in Int /\ to(l) \in Int /\ from(j) \in Int /\ to(j) \in Int
          /\ b \in Int /\ l \in Int /\ j \in Int
      <4>1. /\ from(l) \in Nat /\ ranges[k][l].count \in Nat
            /\ from(j) \in Nat /\ ranges[k][j].count \in Nat
        BY <2>2
      <4>2. b \in Int /\ l \in Int /\ j \in Int
        OBVIOUS
      <4>3. \A x, y \in Nat : x \in Int /\ x + y \in Int
        OBVIOUS
      <4> QED BY Zenon, <4>1, <4>2, <4>3
    <3> HIDE DEF from, to
    <3> QED BY SMTT(20), <3>1, <3>2, <3>3
  <2>5. ASSUME NEW l \in 1 .. Len(ranges[k])
        PROVE  b \in ranges[k][l].buffer_offset .. ranges[k][l].buffer_offset + ranges[k][l].count - 1
                 <=> ranges[k][l].buffer_offset <= b /\ b < ranges[k][l].buffer_offset + ranges[k][l].count
    <3> DEFINE from == ranges[k][l].buffer_offset
               n == ranges[k][l].count
    <3>1. from \in Nat /\ n \in Nat /\ b \in Int
      BY <2>2
    <3> HIDE DEF from, n
    <3>2. b \in from .. from + n - 1 <=> from <= b /\ b < from + n
      BY <3>1
    <3> QED BY <3>2 DEF from, n
  <2> QED BY Zenon, <2>3, <2>4, <2>5
<1> QED BY InductiveInvariant, <1>1, PTL

\* chario_load_blocks_for_task, when no read failed or lost a block, leaves every
\* block of every range in its place in the buffer.
THEOREM LoadIsCompleteHolds == Spec => []LoadIsComplete
<1>1. ASSUME IInv, pc = "loaded", ok, NEW j \in 1 .. Len(ranges[task]),
             NEW b \in 0 .. ranges[task][j].count - 1
      PROVE  mem[lib][ranges[task][j].buffer_offset + b] = disk[ranges[task][j].start + b]
  <2>0. Sound
    BY <1>1 DEF IInv, LoopInv, InIo, Sound
  <2>1. task \in Tasks /\ item = Len(ranges[task]) + 1
    BY <1>1 DEF IInv, LoopInv
  <2>2. TaskInv(task)
    BY <2>1, <1>1 DEF IInv, TasksInv
  <2>3. /\ ranges[task][j].start \in Nat /\ ranges[task][j].count \in Nat
        /\ ranges[task][j].buffer_offset \in Nat
    BY <2>2, RangeFields DEF TaskInv
  <2>4. ranges[task][j].start + ranges[task][j].count <= DiskBlocks
    BY <2>2 DEF TaskInv
  <2> DEFINE x == ranges[task][j].start
             y == ranges[task][j].buffer_offset
             z == ranges[task][j].count
             d == x + b
  <2>5. d \in 0 .. DiskBlocks - 1 /\ x <= d /\ d < x + z /\ d - x = b /\ b < z
    <3>1. x \in Nat /\ z \in Nat /\ b \in 0 .. z - 1 /\ x + z <= DiskBlocks /\ DiskBlocks \in Nat
      BY SMTT(20), <2>3, <2>4, LibAssumption
    <3> HIDE DEF x, z
    <3> QED BY <3>1
  <2>6. Written(j, d)
    BY SMTT(30), ZenonT(30), <2>1, <2>2, <2>5 DEF Written, Has, Moved, TaskInv
  <2>7. mem[lib][Place(j, d)] = disk[d]
    BY <1>1, <2>0, <2>5, <2>6 DEF IInv, LoadInv, Loading
  <2>8. Place(j, d) = y + b
    BY <2>5 DEF Place
  <2> QED BY <2>7, <2>8
<1>2. IInv => LoadIsComplete
  BY SMTT(20), <1>1 DEF LoadIsComplete
<1> QED BY InductiveInvariant, <1>2, PTL

\* chario_flush_blocks_for_task, when no write failed or lost a block, leaves
\* every block of every range on the disk as the last range that has it says.
THEOREM FlushIsCompleteHolds == Spec => []FlushIsComplete
<1>1. ASSUME IInv, pc = "flushed", ok, NEW j \in 1 .. Len(ranges[task]),
             NEW b \in 0 .. ranges[task][j].count - 1
      PROVE  LET d == ranges[task][j].start + b
             IN  \E l \in j .. Len(ranges[task]) :
                   /\ d \in ranges[task][l].start .. ranges[task][l].start + ranges[task][l].count - 1
                   /\ disk[d] = mem[lib][ranges[task][l].buffer_offset + (d - ranges[task][l].start)]
                   /\ \A m \in l + 1 .. Len(ranges[task]) :
                        d \notin ranges[task][m].start .. ranges[task][m].start + ranges[task][m].count - 1
  <2>0. Sound
    BY <1>1 DEF IInv, LoopInv, InIo, Sound
  <2>1. task \in Tasks /\ item = Len(ranges[task]) + 1
    BY <1>1 DEF IInv, LoopInv
  <2>2. TaskInv(task)
    BY <2>1, <1>1 DEF IInv, TasksInv
  <2>3. \A l \in 1 .. Len(ranges[task]) :
           ranges[task][l].start \in Nat /\ ranges[task][l].count \in Nat
    BY <2>2, RangeFields DEF TaskInv
  <2>4. ranges[task][j].start + ranges[task][j].count <= DiskBlocks /\ Len(ranges[task]) \in Nat
    BY <2>2 DEF TaskInv
  <2> DEFINE d == ranges[task][j].start + b
  <2>5. d \in 0 .. DiskBlocks - 1 /\ Has(j, d)
    <3> DEFINE x == ranges[task][j].start
               z == ranges[task][j].count
    <3>1. x \in Nat /\ z \in Nat /\ b \in 0 .. z - 1 /\ x + z <= DiskBlocks /\ DiskBlocks \in Nat
      BY <2>3, <2>4, LibAssumption
    <3> HIDE DEF x, z
    <3>2. x + b \in 0 .. DiskBlocks - 1 /\ x <= x + b /\ x + b < x + z
      BY <3>1
    <3> QED BY <3>2 DEF Has, x, z
  <2> HIDE DEF d
  <2>6. \A l \in 1 .. Len(ranges[task]) :
           /\ Written(l, d) <=> Has(l, d)
           /\ Has(l, d) <=>
                d \in ranges[task][l].start .. ranges[task][l].start + ranges[task][l].count - 1
    <3> SUFFICES ASSUME NEW l \in 1 .. Len(ranges[task])
                 PROVE  /\ Written(l, d) <=> Has(l, d)
                        /\ Has(l, d) <=> d \in ranges[task][l].start ..
                             ranges[task][l].start + ranges[task][l].count - 1
      OBVIOUS
    <3> DEFINE x == ranges[task][l].start
               z == ranges[task][l].count
    <3>1. x \in Nat /\ z \in Nat /\ d \in Int /\ l < item
      BY <2>1, <2>3, <2>4, <2>5
    <3>2. /\ Written(l, d) <=> Has(l, d) /\ (d - x < z)
          /\ Has(l, d) <=> x <= d /\ d < x + z
      BY <3>1 DEF Written, Has, Moved
    <3> HIDE DEF x, z
    <3>3. /\ Written(l, d) <=> Has(l, d)
          /\ Has(l, d) <=> d \in x .. x + z - 1
      BY <3>1, <3>2
    <3> QED BY <3>3 DEF x, z
  <2>7. PICK l \in j .. Len(ranges[task]) :
          /\ Written(l, d) /\ disk[d] = mem[lib][Place(l, d)]
          /\ \A m \in l + 1 .. Len(ranges[task]) : ~Written(m, d)
    BY <1>1, <2>0, <2>5, <2>6 DEF IInv, FlushInv, Flushing
  <2>8. l \in 1 .. Len(ranges[task]) /\ \A m \in l + 1 .. Len(ranges[task]) : m \in 1 .. Len(ranges[task])
    BY SMTT(20), <2>4
  <2>9. d \in ranges[task][l].start .. ranges[task][l].start + ranges[task][l].count - 1
    BY Zenon, <2>6, <2>7, <2>8
  <2>10. \A m \in l + 1 .. Len(ranges[task]) :
           d \notin ranges[task][m].start .. ranges[task][m].start + ranges[task][m].count - 1
    BY Zenon, <2>6, <2>7, <2>8
  <2> QED BY Zenon, <2>7, <2>9, <2>10 DEF Place, d
<1>2. IInv => FlushIsComplete
  BY Zenon, <1>1 DEF FlushIsComplete
<1> QED BY InductiveInvariant, <1>2, PTL
=============================================================================
